--------------------------- MODULE PtopView_proofs ---------------------------
(***************************************************************************)
(* Proofs about PtopView: what its command line (PtopCli) hands to the     *)
(* pipeline, for any numbers, letters and widths of the integers and for   *)
(* command lines of any length, and what the pipeline displays of any      *)
(* number of processes.                                                    *)
(***************************************************************************)
EXTENDS PtopView, FiniteSetTheorems, TLAPS

(* The arguments of options, and the type of the command line.             *)

OptionNames == {"d", "n", "t", "p", "1", "b", "r", "j", "h", "?", "s", "S", "output"}
Args == Numbers \cup Sorts \cup DOMAIN Formats \cup Letters \cup {0, "other"}

Config == [delay : Int, loops : Int, mode : Modes, sort : Sorts, top : Int, pid : Int,
           state : {Upper(s) : s \in Letters} \cup {NoLetter}]

CliType ==
    /\ given \in Seq(OptionNames \X Args)
    /\ cfg \in Config
    /\ rc \in Int

\* What the loop may take for granted holds before the end of the options
\* too, unless they have been refused.
Accepted ==
    stage # "exit" =>
        /\ rc = 0
        /\ cfg.delay >= 1 /\ (cfg.loops = -1 \/ cfg.loops >= 1)
        /\ cfg.top >= 0 /\ (cfg.pid = NoPid \/ cfg.pid >= 1)

\* A field changes to what the option stores, and only then.
Effect(o) ==
    \A f \in DOMAIN Default :
        IF \E s \in Stores(o) : s[1] = f THEN <<f, cfg'[f]>> \in Stores(o)
        ELSE cfg'[f] = cfg[f]

\* A step that handles the option o and stores what it says.
Handles(o) ==
    /\ o \in OptionNames \X Args
    /\ stage = "options" /\ stage' \in {"options", "exit"}
    /\ given' = Append(given, o)
    /\ cfg' \in Config
    /\ Effect(o)
    /\ rc' \in Int

-----------------------------------------------------------------------------
(* The numbers of an int.                                                  *)

LEMMA AtoiInt == ASSUME NEW z \in Numbers PROVE Atoi(z) \in Int
<1>1. z \in Int /\ IntHalf \in Int /\ 2 * IntHalf > 0 /\ LongHalf \in Int
    BY CliAssumption DEF CliAssumption
<1>2. Clip(z) \in Int
    BY <1>1 DEF Clip
<1>3. (Clip(z) + IntHalf) % (2 * IntHalf) \in Int
    BY <1>1, <1>2
<1> QED
    BY <1>1, <1>3 DEF Atoi, ToInt

-----------------------------------------------------------------------------
(* What each option stores.                                                *)

LEMMA NumberStores ==
    ASSUME NEW z
    PROVE  /\ Stores(<<"d", z>>) = {<<"delay", Atoi(z)>>}
           /\ Stores(<<"n", z>>) = {<<"loops", Atoi(z)>>}
           /\ Stores(<<"t", z>>) = {<<"top", Atoi(z)>>}
           /\ Stores(<<"p", z>>) = {<<"pid", Atoi(z)>>}
BY DEF Stores, NumField

LEMMA FlagStores ==
    /\ Stores(<<"1", 0>>) = {<<"loops", 1>>}
    /\ Stores(<<"b", 0>>) = {<<"mode", "batch">>}
    /\ Stores(<<"r", 0>>) = {<<"mode", "raw">>}
    /\ Stores(<<"j", 0>>) = {<<"mode", "json">>}
    /\ Stores(<<"h", 0>>) = {}
    /\ Stores(<<"?", 0>>) = {}
BY DEF Stores, NumField

LEMMA WordStores ==
    ASSUME NEW w
    PROVE  /\ Stores(<<"s", w>>) = {<<"sort", v>> : v \in {w} \cap Sorts}
           /\ Stores(<<"output", w>>) = {<<"mode", Formats[v]>> : v \in {w} \cap DOMAIN Formats}
           /\ Stores(<<"S", w>>) = {<<"state", Upper(v)>> : v \in {w} \cap Letters}
BY DEF Stores, NumField

-----------------------------------------------------------------------------
(* One option more.                                                        *)

LEMMA Appended ==
    ASSUME CliType, LastWins, NEW o, Handles(o)
    PROVE  LastWins'
<1>1. /\ given \in Seq(OptionNames \X Args) /\ o \in OptionNames \X Args
      /\ given' = Append(given, o) /\ stage = "options"
    BY DEF CliType, Handles
<1>2. /\ DOMAIN given' = DOMAIN given \cup {Len(given) + 1}
      /\ given'[Len(given) + 1] = o
      /\ \A i \in DOMAIN given : given'[i] = given[i] /\ i \in Nat /\ i <= Len(given)
      /\ Len(given) \in Nat
    BY <1>1
<1> DEFINE By(f) == {i \in DOMAIN given : \E s \in Stores(given[i]) : s[1] = f}
           Next1 == Len(given) + 1
<1>3. ASSUME NEW f \in DOMAIN Default
      PROVE  LET by == {i \in DOMAIN given' : \E s \in Stores(given'[i]) : s[1] = f}
             IN  IF by = {} THEN cfg'[f] = Default[f]
                 ELSE \E i \in by : /\ \A j \in by : j <= i
                                     /\ <<f, cfg'[f]>> \in Stores(given'[i])
    <2> DEFINE by2 == {i \in DOMAIN given' : \E s \in Stores(given'[i]) : s[1] = f}
    <2>1. IF By(f) = {} THEN cfg[f] = Default[f]
          ELSE \E i \in By(f) : (\A j \in By(f) : j <= i) /\ <<f, cfg[f]>> \in Stores(given[i])
        BY <1>1 DEF LastWins
    <2>2. CASE \E s \in Stores(o) : s[1] = f
        <3>1. <<f, cfg'[f]>> \in Stores(o)
            BY <2>2 DEF Handles, Effect
        <3>2. Next1 \in by2
            BY <1>2, <2>2
        <3>3. \A j \in by2 : j <= Next1
            BY <1>2
        <3>4. <<f, cfg'[f]>> \in Stores(given'[Next1])
            BY <1>2, <3>1
        <3> HIDE DEF by2, Next1
        <3>5. by2 # {} /\ \E i \in by2 : (\A j \in by2 : j <= i) /\ <<f, cfg'[f]>> \in Stores(given'[i])
            BY <3>2, <3>3, <3>4
        <3> QED
            BY <3>5 DEF by2
    <2>3. CASE ~ \E s \in Stores(o) : s[1] = f
        <3>1. cfg'[f] = cfg[f]
            BY <2>3 DEF Handles, Effect
        <3>2. by2 = By(f)
            BY <1>2, <2>3
        <3>3. \A i \in By(f) : given'[i] = given[i]
            BY <1>2
        <3> HIDE DEF by2, By
        <3>4. IF by2 = {} THEN cfg'[f] = Default[f]
              ELSE \E i \in by2 : (\A j \in by2 : j <= i) /\ <<f, cfg'[f]>> \in Stores(given'[i])
            BY <2>1, <3>1, <3>2, <3>3
        <3> QED
            BY <3>4 DEF by2
    <2> QED
        BY <2>2, <2>3
<1> QED
    BY <1>3 DEF LastWins

LEMMA TypeKept ==
    ASSUME CliType, NEW o, Handles(o)
    PROVE  CliType'
<1>1. given' \in Seq(OptionNames \X Args)
    <2> DEFINE Given == OptionNames \X Args
    <2>1. given \in Seq(Given) /\ o \in Given /\ given' = Append(given, o)
        BY DEF CliType, Handles
    <2> HIDE DEF Given
    <2>2. given' \in Seq(Given)
        BY <2>1
    <2> QED
        BY <2>2 DEF Given
<1>2. cfg' \in Config /\ rc' \in Int
    BY DEF Handles
<1> QED
    BY <1>1, <1>2 DEF CliType

-----------------------------------------------------------------------------
(* The options: each handles what it appends, and refuses what Sane rules  *)
(* out.                                                                    *)

Kept(o) == Handles(o) /\ Accepted'

Fields == {"delay", "loops", "mode", "sort", "top", "pid", "state"}

LEMMA FieldNames == DOMAIN Default = Fields
BY DEF Default, Fields

\* A field set to a value of its type leaves a configuration.
LEMMA SetField ==
    ASSUME cfg \in Config
    PROVE  /\ \A v \in Int : /\ [cfg EXCEPT !.delay = v] \in Config
                            /\ [cfg EXCEPT !.loops = v] \in Config
                            /\ [cfg EXCEPT !.top = v] \in Config
                            /\ [cfg EXCEPT !.pid = v] \in Config
           /\ \A v \in Modes : [cfg EXCEPT !.mode = v] \in Config
           /\ \A v \in Sorts : [cfg EXCEPT !.sort = v] \in Config
           /\ \A w \in Letters : [cfg EXCEPT !.state = Upper(w)] \in Config
BY DEF Config

LEMMA OneField ==
    ASSUME NEW o, NEW g \in Fields, NEW v, Stores(o) = {<<g, v>>},
           cfg'[g] = v, \A f \in Fields \ {g} : cfg'[f] = cfg[f]
    PROVE  Effect(o)
<1>1. ASSUME NEW f \in Fields
      PROVE  IF \E s \in Stores(o) : s[1] = f THEN <<f, cfg'[f]>> \in Stores(o)
             ELSE cfg'[f] = cfg[f]
    <2>1. CASE f = g
        BY <2>1
    <2>2. CASE f # g
        BY <2>2
    <2> QED
        BY <2>1, <2>2
<1> QED
    BY <1>1, FieldNames DEF Effect

LEMMA NoField ==
    ASSUME NEW o, Stores(o) = {}, cfg' = cfg
    PROVE  Effect(o)
BY DEF Effect

LEMMA OptionTyped ==
    ASSUME NEW x \in OptionNames, NEW a \in Args
    PROVE  <<x, a>> \in OptionNames \X Args
OBVIOUS

LEMMA Numbered ==
    ASSUME CliType, Accepted, NEW z \in Numbers
    PROVE  /\ Delay(z) => Kept(<<"d", z>>)
           /\ Count(z) => Kept(<<"n", z>>)
           /\ Top(z) => Kept(<<"t", z>>)
           /\ Pid(z) => Kept(<<"p", z>>)
<1>1. Atoi(z) \in Int /\ cfg \in Config /\ rc \in Int
    BY AtoiInt DEF CliType
<1>2. \A x \in {"d", "n", "t", "p"} : <<x, z>> \in OptionNames \X Args
    <2>1. z \in Args
        BY DEF Args
    <2>2. {"d", "n", "t", "p"} \subseteq OptionNames
        BY DEF OptionNames
    <2> QED
        BY <2>1, <2>2, OptionTyped
<1>3. stage = "options" => /\ rc = 0
                           /\ cfg.delay >= 1 /\ (cfg.loops = -1 \/ cfg.loops >= 1)
                           /\ cfg.top >= 0 /\ (cfg.pid = NoPid \/ cfg.pid >= 1)
    BY DEF Accepted
<1>4. ASSUME Delay(z) PROVE Kept(<<"d", z>>)
    <2>1. /\ stage = "options" /\ given' = Append(given, <<"d", z>>)
          /\ cfg' = [cfg EXCEPT !.delay = Atoi(z)] /\ cfg' \in Config
          /\ \/ stage' = "options" /\ rc' = rc /\ Atoi(z) > 0
             \/ stage' = "exit" /\ rc' = 2
        BY <1>1, <1>4, SetField DEF Delay, Option, Demand, Accept, Refuse
    <2>2. /\ cfg'.delay = Atoi(z)
          /\ \A f \in Fields \ {"delay"} : cfg'[f] = cfg[f]
        BY <1>1, <2>1 DEF Config, Fields
    <2>3. Effect(<<"d", z>>)
        <3>1. "delay" \in Fields /\ cfg'["delay"] = Atoi(z)
            BY <2>2 DEF Fields
        <3> QED
            BY <2>2, <3>1, NumberStores, OneField
    <2>4. Handles(<<"d", z>>)
        BY <1>1, <1>2, <2>1, <2>3 DEF Handles
    <2>5. Accepted'
        BY <1>1, <1>3, <2>1, <2>2 DEF Accepted, Fields
    <2> QED
        BY <2>4, <2>5 DEF Kept
<1>5. ASSUME Count(z) PROVE Kept(<<"n", z>>)
    <2>1. /\ stage = "options" /\ given' = Append(given, <<"n", z>>)
          /\ cfg' = [cfg EXCEPT !.loops = Atoi(z)] /\ cfg' \in Config
          /\ \/ stage' = "options" /\ rc' = rc /\ Atoi(z) > 0
             \/ stage' = "exit" /\ rc' = 2
        BY <1>1, <1>5, SetField DEF Count, Option, Demand, Accept, Refuse
    <2>2. /\ cfg'.loops = Atoi(z)
          /\ \A f \in Fields \ {"loops"} : cfg'[f] = cfg[f]
        BY <1>1, <2>1 DEF Config, Fields
    <2>3. Effect(<<"n", z>>)
        <3>1. "loops" \in Fields /\ cfg'["loops"] = Atoi(z)
            BY <2>2 DEF Fields
        <3> QED
            BY <2>2, <3>1, NumberStores, OneField
    <2>4. Handles(<<"n", z>>)
        BY <1>1, <1>2, <2>1, <2>3 DEF Handles
    <2>5. Accepted'
        BY <1>1, <1>3, <2>1, <2>2 DEF Accepted, Fields
    <2> QED
        BY <2>4, <2>5 DEF Kept
<1>6. ASSUME Top(z) PROVE Kept(<<"t", z>>)
    <2>1. /\ stage = "options" /\ given' = Append(given, <<"t", z>>)
          /\ cfg' = [cfg EXCEPT !.top = Atoi(z)] /\ cfg' \in Config
          /\ \/ stage' = "options" /\ rc' = rc /\ Atoi(z) >= 0
             \/ stage' = "exit" /\ rc' = 2
        BY <1>1, <1>6, SetField DEF Top, Option, Demand, Accept, Refuse
    <2>2. /\ cfg'.top = Atoi(z)
          /\ \A f \in Fields \ {"top"} : cfg'[f] = cfg[f]
        BY <1>1, <2>1 DEF Config, Fields
    <2>3. Effect(<<"t", z>>)
        <3>1. "top" \in Fields /\ cfg'["top"] = Atoi(z)
            BY <2>2 DEF Fields
        <3> QED
            BY <2>2, <3>1, NumberStores, OneField
    <2>4. Handles(<<"t", z>>)
        BY <1>1, <1>2, <2>1, <2>3 DEF Handles
    <2>5. Accepted'
        BY <1>1, <1>3, <2>1, <2>2 DEF Accepted, Fields
    <2> QED
        BY <2>4, <2>5 DEF Kept
<1>7. ASSUME Pid(z) PROVE Kept(<<"p", z>>)
    <2>1. /\ stage = "options" /\ given' = Append(given, <<"p", z>>)
          /\ cfg' = [cfg EXCEPT !.pid = Atoi(z)] /\ cfg' \in Config
          /\ \/ stage' = "options" /\ rc' = rc /\ Atoi(z) > 0
             \/ stage' = "exit" /\ rc' = 2
        BY <1>1, <1>7, SetField DEF Pid, Option, Demand, Accept, Refuse
    <2>2. /\ cfg'.pid = Atoi(z)
          /\ \A f \in Fields \ {"pid"} : cfg'[f] = cfg[f]
        BY <1>1, <2>1 DEF Config, Fields
    <2>3. Effect(<<"p", z>>)
        <3>1. "pid" \in Fields /\ cfg'["pid"] = Atoi(z)
            BY <2>2 DEF Fields
        <3> QED
            BY <2>2, <3>1, NumberStores, OneField
    <2>4. Handles(<<"p", z>>)
        BY <1>1, <1>2, <2>1, <2>3 DEF Handles
    <2>5. Accepted'
        BY <1>1, <1>3, <2>1, <2>2 DEF Accepted, Fields
    <2> QED
        BY <2>4, <2>5 DEF Kept
<1> QED
    BY <1>4, <1>5, <1>6, <1>7

LEMMA WordStored ==
    ASSUME NEW w
    PROVE  /\ w \in Sorts => Stores(<<"s", w>>) = {<<"sort", w>>}
           /\ w \notin Sorts => Stores(<<"s", w>>) = {}
           /\ w \in DOMAIN Formats => Stores(<<"output", w>>) = {<<"mode", Formats[w]>>}
           /\ w \notin DOMAIN Formats => Stores(<<"output", w>>) = {}
           /\ w \in Letters => Stores(<<"S", w>>) = {<<"state", Upper(w)>>}
           /\ w \notin Letters => Stores(<<"S", w>>) = {}
<1>1. \A D : /\ w \in D => {w} \cap D = {w}
             /\ w \notin D => {w} \cap D = {}
    OBVIOUS
<1>2. ASSUME w \in Sorts PROVE Stores(<<"s", w>>) = {<<"sort", w>>}
    <2>1. Stores(<<"s", w>>) = {<<"sort", v>> : v \in {w}}
        BY <1>1, <1>2, WordStores
    <2> QED
        BY <2>1
<1>3. ASSUME w \notin Sorts PROVE Stores(<<"s", w>>) = {}
    <2>1. Stores(<<"s", w>>) = {<<"sort", v>> : v \in {}}
        BY <1>1, <1>3, WordStores
    <2> QED
        BY <2>1
<1>4. ASSUME w \in DOMAIN Formats PROVE Stores(<<"output", w>>) = {<<"mode", Formats[w]>>}
    <2>1. Stores(<<"output", w>>) = {<<"mode", Formats[v]>> : v \in {w}}
        BY <1>1, <1>4, WordStores
    <2> QED
        BY <2>1
<1>5. ASSUME w \notin DOMAIN Formats PROVE Stores(<<"output", w>>) = {}
    <2>1. Stores(<<"output", w>>) = {<<"mode", Formats[v]>> : v \in {}}
        BY <1>1, <1>5, WordStores
    <2> QED
        BY <2>1
<1>6. ASSUME w \in Letters PROVE Stores(<<"S", w>>) = {<<"state", Upper(w)>>}
    <2>1. Stores(<<"S", w>>) = {<<"state", Upper(v)>> : v \in {w}}
        BY <1>1, <1>6, WordStores
    <2> QED
        BY <2>1
<1>7. ASSUME w \notin Letters PROVE Stores(<<"S", w>>) = {}
    <2>1. Stores(<<"S", w>>) = {<<"state", Upper(v)>> : v \in {}}
        BY <1>1, <1>7, WordStores
    <2> QED
        BY <2>1
<1> QED
    BY <1>2, <1>3, <1>4, <1>5, <1>6, <1>7

\* The bounds of the accepted configuration name neither sort, mode nor state.
LEMMA WordsKeep ==
    ASSUME CliType, Accepted, stage = "options",
           \A f \in Fields \ {"sort", "mode", "state"} : cfg'[f] = cfg[f],
           rc' = rc \/ stage' = "exit"
    PROVE  Accepted'
<1>1. /\ cfg'.delay = cfg.delay /\ cfg'.loops = cfg.loops
      /\ cfg'.top = cfg.top /\ cfg'.pid = cfg.pid
    BY DEF Fields
<1> QED
    BY <1>1 DEF Accepted, CliType

LEMMA Worded ==
    ASSUME CliType, Accepted, NEW w \in Sorts \cup DOMAIN Formats \cup Letters \cup {"other"}
    PROVE  /\ Sort(w) => Kept(<<"s", w>>)
           /\ Output(w) => Kept(<<"output", w>>)
           /\ State(w) => Kept(<<"S", w>>)
<1>1. cfg \in Config /\ rc \in Int
    BY DEF CliType
<1>2. \A x \in {"s", "output", "S"} : <<x, w>> \in OptionNames \X Args
    <2>1. w \in Args
        BY DEF Args
    <2>2. {"s", "output", "S"} \subseteq OptionNames
        BY DEF OptionNames
    <2> QED
        BY <2>1, <2>2, OptionTyped
<1>3. \A v \in DOMAIN Formats : Formats[v] \in Modes
    BY DEF Formats, Modes
<1>4. ASSUME Sort(w) PROVE Kept(<<"s", w>>)
    <2>1. /\ stage = "options" /\ given' = Append(given, <<"s", w>>)
          /\ stage' \in {"options", "exit"} /\ rc' \in Int
          /\ rc' = rc \/ stage' = "exit"
          /\ cfg' = IF w \in Sorts THEN [cfg EXCEPT !.sort = w] ELSE cfg
        BY <1>1, <1>4 DEF Sort, Option, Demand, Accept, Refuse
    <2>2. cfg' \in Config
        BY <1>1, <1>3, <2>1, SetField
    <2>3. \A f \in Fields \ {"sort"} : cfg'[f] = cfg[f]
        BY <1>1, <2>1 DEF Config, Fields
    <2>4. Effect(<<"s", w>>)
        <3>1. CASE w \in Sorts
            <4>1. Stores(<<"s", w>>) = {<<"sort", w>>}
                BY <3>1, WordStored
            <4>2. "sort" \in Fields /\ cfg'["sort"] = w
                BY <1>1, <2>1, <3>1 DEF Config, Fields
            <4> QED
                BY <2>3, <4>1, <4>2, OneField
        <3>2. CASE w \notin Sorts
            <4>1. Stores(<<"s", w>>) = {} /\ cfg' = cfg
                BY <2>1, <3>2, WordStored
            <4> QED
                BY <4>1, NoField
        <3> QED
            BY <3>1, <3>2
    <2>5. Handles(<<"s", w>>)
        BY <1>2, <2>1, <2>2, <2>4 DEF Handles
    <2>6. Accepted'
        BY <2>1, <2>3, WordsKeep
    <2> QED
        BY <2>5, <2>6 DEF Kept
<1>5. ASSUME Output(w) PROVE Kept(<<"output", w>>)
    <2>1. /\ stage = "options" /\ given' = Append(given, <<"output", w>>)
          /\ stage' \in {"options", "exit"} /\ rc' \in Int
          /\ rc' = rc \/ stage' = "exit"
          /\ cfg' = IF w \in DOMAIN Formats THEN [cfg EXCEPT !.mode = Formats[w]] ELSE cfg
        BY <1>1, <1>5 DEF Output, Option, Demand, Accept, Refuse
    <2>2. cfg' \in Config
        BY <1>1, <1>3, <2>1, SetField
    <2>3. \A f \in Fields \ {"mode"} : cfg'[f] = cfg[f]
        BY <1>1, <2>1 DEF Config, Fields
    <2>4. Effect(<<"output", w>>)
        <3>1. CASE w \in DOMAIN Formats
            <4>1. Stores(<<"output", w>>) = {<<"mode", Formats[w]>>}
                BY <3>1, WordStored
            <4>2. "mode" \in Fields /\ cfg'["mode"] = Formats[w]
                BY <1>1, <2>1, <3>1 DEF Config, Fields
            <4> QED
                BY <2>3, <4>1, <4>2, OneField
        <3>2. CASE w \notin DOMAIN Formats
            <4>1. Stores(<<"output", w>>) = {} /\ cfg' = cfg
                BY <2>1, <3>2, WordStored
            <4> QED
                BY <4>1, NoField
        <3> QED
            BY <3>1, <3>2
    <2>5. Handles(<<"output", w>>)
        BY <1>2, <2>1, <2>2, <2>4 DEF Handles
    <2>6. Accepted'
        BY <2>1, <2>3, WordsKeep
    <2> QED
        BY <2>5, <2>6 DEF Kept
<1>6. ASSUME State(w) PROVE Kept(<<"S", w>>)
    <2>1. /\ stage = "options" /\ given' = Append(given, <<"S", w>>)
          /\ stage' \in {"options", "exit"} /\ rc' \in Int
          /\ rc' = rc \/ stage' = "exit"
          /\ cfg' = IF w \in Letters THEN [cfg EXCEPT !.state = Upper(w)] ELSE cfg
        BY <1>1, <1>6 DEF State, Option, Demand, Accept, Refuse
    <2>2. cfg' \in Config
        BY <1>1, <1>3, <2>1, SetField
    <2>3. \A f \in Fields \ {"state"} : cfg'[f] = cfg[f]
        BY <1>1, <2>1 DEF Config, Fields
    <2>4. Effect(<<"S", w>>)
        <3>1. CASE w \in Letters
            <4>1. Stores(<<"S", w>>) = {<<"state", Upper(w)>>}
                BY <3>1, WordStored
            <4>2. "state" \in Fields /\ cfg'["state"] = Upper(w)
                BY <1>1, <2>1, <3>1 DEF Config, Fields
            <4> QED
                BY <2>3, <4>1, <4>2, OneField
        <3>2. CASE w \notin Letters
            <4>1. Stores(<<"S", w>>) = {} /\ cfg' = cfg
                BY <2>1, <3>2, WordStored
            <4> QED
                BY <4>1, NoField
        <3> QED
            BY <3>1, <3>2
    <2>5. Handles(<<"S", w>>)
        BY <1>2, <2>1, <2>2, <2>4 DEF Handles
    <2>6. Accepted'
        BY <2>1, <2>3, WordsKeep
    <2> QED
        BY <2>5, <2>6 DEF Kept
<1> QED
    BY <1>4, <1>5, <1>6

LEMMA Flagged ==
    ASSUME CliType, Accepted
    PROVE  /\ Once => Kept(<<"1", 0>>)
           /\ Batch => Kept(<<"b", 0>>)
           /\ Raw => Kept(<<"r", 0>>)
           /\ Json => Kept(<<"j", 0>>)
           /\ Help => Kept(<<"h", 0>>)
           /\ Unknown => Kept(<<"?", 0>>)
<1>1. cfg \in Config /\ rc \in Int
    BY DEF CliType
<1>2. \A x \in {"1", "b", "r", "j", "h", "?"} : <<x, 0>> \in OptionNames \X Args
    <2>1. 0 \in Args
        BY DEF Args
    <2>2. {"1", "b", "r", "j", "h", "?"} \subseteq OptionNames
        BY DEF OptionNames
    <2> QED
        BY <2>1, <2>2, OptionTyped
<1>3. {"batch", "raw", "json"} \subseteq Modes
    BY DEF Modes
<1>4. ASSUME Once PROVE Kept(<<"1", 0>>)
    <2>1. /\ stage = "options" /\ given' = Append(given, <<"1", 0>>)
          /\ stage' = "options" /\ rc' = rc /\ cfg' = [cfg EXCEPT !.loops = 1]
        BY <1>4 DEF Once, Option, Accept
    <2>2. cfg' \in Config
        BY <1>1, <2>1 DEF Config
    <2>3. /\ \A f \in Fields \ {"loops"} : cfg'[f] = cfg[f]
          /\ "loops" \in Fields /\ cfg'["loops"] = 1
        BY <1>1, <2>1 DEF Config, Fields
    <2>4. Effect(<<"1", 0>>)
        BY <2>3, FlagStores, OneField
    <2>5. Handles(<<"1", 0>>)
        BY <1>1, <1>2, <2>1, <2>2, <2>4 DEF Handles
    <2>6. Accepted'
        BY <1>1, <2>1, <2>3 DEF Accepted, Fields
    <2> QED
        BY <2>5, <2>6 DEF Kept
<1>5. ASSUME Batch PROVE Kept(<<"b", 0>>)
    <2>1. /\ stage = "options" /\ given' = Append(given, <<"b", 0>>)
          /\ stage' = "options" /\ rc' = rc /\ cfg' = [cfg EXCEPT !.mode = "batch"]
        BY <1>5 DEF Batch, Option, Accept
    <2>2. cfg' \in Config
        BY <1>1, <1>3, <2>1, SetField
    <2>3. /\ \A f \in Fields \ {"mode"} : cfg'[f] = cfg[f]
          /\ "mode" \in Fields /\ cfg'["mode"] = "batch"
        BY <1>1, <2>1 DEF Config, Fields
    <2>4. Effect(<<"b", 0>>)
        BY <2>3, FlagStores, OneField
    <2>5. Handles(<<"b", 0>>)
        BY <1>1, <1>2, <2>1, <2>2, <2>4 DEF Handles
    <2>6. Accepted'
        BY <2>1, <2>3, WordsKeep
    <2> QED
        BY <2>5, <2>6 DEF Kept
<1>6. ASSUME Raw PROVE Kept(<<"r", 0>>)
    <2>1. /\ stage = "options" /\ given' = Append(given, <<"r", 0>>)
          /\ stage' = "options" /\ rc' = rc /\ cfg' = [cfg EXCEPT !.mode = "raw"]
        BY <1>6 DEF Raw, Option, Accept
    <2>2. cfg' \in Config
        BY <1>1, <1>3, <2>1, SetField
    <2>3. /\ \A f \in Fields \ {"mode"} : cfg'[f] = cfg[f]
          /\ "mode" \in Fields /\ cfg'["mode"] = "raw"
        BY <1>1, <2>1 DEF Config, Fields
    <2>4. Effect(<<"r", 0>>)
        BY <2>3, FlagStores, OneField
    <2>5. Handles(<<"r", 0>>)
        BY <1>1, <1>2, <2>1, <2>2, <2>4 DEF Handles
    <2>6. Accepted'
        BY <2>1, <2>3, WordsKeep
    <2> QED
        BY <2>5, <2>6 DEF Kept
<1>7. ASSUME Json PROVE Kept(<<"j", 0>>)
    <2>1. /\ stage = "options" /\ given' = Append(given, <<"j", 0>>)
          /\ stage' = "options" /\ rc' = rc /\ cfg' = [cfg EXCEPT !.mode = "json"]
        BY <1>7 DEF Json, Option, Accept
    <2>2. cfg' \in Config
        BY <1>1, <1>3, <2>1, SetField
    <2>3. /\ \A f \in Fields \ {"mode"} : cfg'[f] = cfg[f]
          /\ "mode" \in Fields /\ cfg'["mode"] = "json"
        BY <1>1, <2>1 DEF Config, Fields
    <2>4. Effect(<<"j", 0>>)
        BY <2>3, FlagStores, OneField
    <2>5. Handles(<<"j", 0>>)
        BY <1>1, <1>2, <2>1, <2>2, <2>4 DEF Handles
    <2>6. Accepted'
        BY <2>1, <2>3, WordsKeep
    <2> QED
        BY <2>5, <2>6 DEF Kept
<1>8. ASSUME Help PROVE Kept(<<"h", 0>>)
    <2>1. /\ stage = "options" /\ given' = Append(given, <<"h", 0>>)
          /\ stage' = "exit" /\ rc' \in Int /\ cfg' = cfg
        BY <1>8 DEF Help, Option, Usage
    <2>2. Effect(<<"h", 0>>)
        BY <2>1, FlagStores, NoField
    <2>3. Handles(<<"h", 0>>)
        BY <1>1, <1>2, <2>1, <2>2 DEF Handles
    <2>4. Accepted'
        BY <2>1 DEF Accepted
    <2> QED
        BY <2>3, <2>4 DEF Kept
<1>9. ASSUME Unknown PROVE Kept(<<"?", 0>>)
    <2>1. /\ stage = "options" /\ given' = Append(given, <<"?", 0>>)
          /\ stage' = "exit" /\ rc' \in Int /\ cfg' = cfg
        BY <1>9 DEF Unknown, Option, Usage
    <2>2. Effect(<<"?", 0>>)
        BY <2>1, FlagStores, NoField
    <2>3. Handles(<<"?", 0>>)
        BY <1>1, <1>2, <2>1, <2>2 DEF Handles
    <2>4. Accepted'
        BY <2>1 DEF Accepted
    <2> QED
        BY <2>3, <2>4 DEF Kept
<1> QED
    BY <1>4, <1>5, <1>6, <1>7, <1>8, <1>9

-----------------------------------------------------------------------------
(* The invariant, and its steps.                                           *)

CliInv == CliType /\ Accepted /\ LastWins

LEMMA CliInvInit == Init => CliInv
<1> SUFFICES ASSUME Init PROVE CliInv
    OBVIOUS
<1>1. given = <<>> /\ cfg = Default /\ stage = "options" /\ rc = 0
    BY DEF Init, ParseInit
<1>2. Default \in Config
    BY DEF Default, Config, Modes, Sorts, NoPid
<1>3. CliType
    BY <1>1, <1>2 DEF CliType
<1>4. Accepted
    BY <1>1 DEF Accepted, Default
<1>5. LastWins
    <2>1. DOMAIN given = {}
        BY <1>1
    <2> QED
        BY <1>1, <2>1 DEF LastWins
<1> QED
    BY <1>3, <1>4, <1>5 DEF CliInv

\* An option keeps the invariant.
LEMMA KeptInv ==
    ASSUME CliInv, NEW o, Kept(o)
    PROVE  CliInv'
BY Appended, TypeKept DEF CliInv, Kept

\* A step after the options, which leaves the configuration alone.
LEMMA LaterKeeps ==
    ASSUME CliInv, stage # "exit", stage' \notin {"options", "exit"},
           UNCHANGED <<given, cfg, rc>>
    PROVE  CliInv'
BY DEF CliInv, CliType, Accepted, LastWins

LEMMA ParseStep ==
    ASSUME CliInv, Parse
    PROVE  CliInv'
<1>1. CliType /\ Accepted
    BY DEF CliInv
<1>2. ASSUME NEW z \in Numbers, Delay(z) \/ Count(z) \/ Top(z) \/ Pid(z) PROVE CliInv'
    BY <1>1, <1>2, Numbered, KeptInv
<1>3. ASSUME NEW w \in Sorts \cup {"other"}, Sort(w) PROVE CliInv'
    BY <1>1, <1>3, Worded, KeptInv
<1>4. ASSUME NEW w \in DOMAIN Formats \cup {"other"}, Output(w) PROVE CliInv'
    BY <1>1, <1>4, Worded, KeptInv
<1>5. ASSUME NEW w \in Letters \cup {"other"}, State(w) PROVE CliInv'
    BY <1>1, <1>5, Worded, KeptInv
<1>6. CASE Once \/ Batch \/ Raw \/ Json \/ Help \/ Unknown
    BY <1>1, <1>6, Flagged, KeptInv
<1>7. ASSUME NEW isTty \in BOOLEAN, EndOfOptions(isTty) PROVE CliInv'
    <2>1. stage = "options" /\ stage' = "ready" /\ given' = given /\ rc' = rc /\ cfg \in Config
        BY <1>1, <1>7 DEF EndOfOptions, CliType
    <2>2. cfg' = cfg \/ cfg' = [cfg EXCEPT !.mode = "batch"]
        BY <1>7 DEF EndOfOptions
    <2>3. cfg' \in Config
        BY <2>1, <2>2, SetField DEF Modes
    <2>4. \A f \in Fields \ {"sort", "mode", "state"} : cfg'[f] = cfg[f]
        BY <2>1, <2>2 DEF Config, Fields
    <2>5. Accepted'
        BY <1>1, <2>1, <2>4, WordsKeep
    <2>6. CliType'
        BY <1>1, <2>1, <2>3 DEF CliType
    <2>7. LastWins'
        BY <2>1 DEF LastWins
    <2> QED
        BY <2>5, <2>6, <2>7 DEF CliInv
<1> QED
    BY <1>2, <1>3, <1>4, <1>5, <1>6, <1>7 DEF Parse

LEMMA CliInvStep ==
    ASSUME CliInv, [Next]_vars
    PROVE  CliInv'
<1>1. CASE CommandLine
    <2>1. CASE Parse
        BY <2>1, ParseStep
    <2>2. CASE Exited
        <3>1. given' = given /\ cfg' = cfg /\ stage' = stage /\ rc' = rc
            BY <2>2 DEF Exited, cli
        <3> QED
            BY <3>1 DEF CliInv, CliType, Accepted, LastWins
    <2> QED
        BY <1>1, <2>1, <2>2 DEF CommandLine
<1>2. CASE FirstSnapshot
    <2>1. /\ stage = "ready" /\ stage' = "loop" /\ rc' = rc /\ given' = <<>>
          /\ cfg' = [cfg EXCEPT !.delay = 1, !.loops = -1] /\ cfg \in Config
        BY <1>2 DEF FirstSnapshot, CliInv, CliType
    <2>2. CliType'
        <3> DEFINE once == [cfg EXCEPT !.delay = 1]
        <3>1. cfg' \in Config
            <4>1. once \in Config
                BY <2>1 DEF Config
            <4>2. cfg' = [once EXCEPT !.loops = -1]
                BY <2>1
            <4> HIDE DEF once
            <4> QED
                BY <4>1, <4>2 DEF Config
        <3>2. rc' \in Int
            BY <2>1 DEF CliInv, CliType
        <3>3. given' \in Seq(OptionNames \X Args)
            BY <2>1
        <3> QED
            BY <3>1, <3>2, <3>3 DEF CliType
    <2>3. Accepted'
        BY <2>1 DEF CliInv, Accepted, Config
    <2>4. LastWins'
        BY <2>1 DEF LastWins
    <2> QED
        BY <2>2, <2>3, <2>4 DEF CliInv
<1>3. CASE Compute
    BY <1>3, LaterKeeps DEF Compute
<1>4. CASE FilterApply
    BY <1>4, LaterKeeps DEF FilterApply
<1>5. CASE SortApply
    BY <1>5, LaterKeeps DEF SortApply
<1>6. CASE PolicyApply
    BY <1>6, LaterKeeps DEF PolicyApply
<1>7. CASE RenderTty
    BY <1>7, LaterKeeps DEF RenderTty
<1>8. CASE OutputBatch
    BY <1>8, LaterKeeps DEF OutputBatch
<1>9. CASE Done \/ UNCHANGED vars
    <2>1. given' = given /\ cfg' = cfg /\ stage' = stage /\ rc' = rc
        BY <1>9 DEF Done, vars
    <2>2. CliType' /\ Accepted'
        BY <2>1 DEF CliInv, CliType, Accepted
    <2>3. LastWins'
        BY <2>1 DEF CliInv, LastWins
    <2> QED
        BY <2>2, <2>3 DEF CliInv
<1> QED
    BY <1>1, <1>2, <1>3, <1>4, <1>5, <1>6, <1>7, <1>8, <1>9 DEF Next

LEMMA Invariance == Spec => []CliInv
<1>1. Init => CliInv
    BY CliInvInit
<1>2. CliInv /\ [Next]_vars => CliInv'
    BY CliInvStep
<1> QED
    BY <1>1, <1>2, PTL DEF Spec

\* Whatever numbers were given, in whatever order and of whatever size, the
\* loop of ptop and the pipeline get a configuration they can work with.
THEOREM SaneConfig == Spec => []Sane
<1>1. CliInv => Sane
    BY DEF CliInv, CliType, Accepted, Config, Sane
<1> QED
    BY <1>1, Invariance, PTL

\* For each field of ptop_config_t the last option that sets it counts, on a
\* command line of any length.
THEOREM LastOptionWins == Spec => []LastWins
<1>1. CliInv => LastWins
    BY DEF CliInv
<1> QED
    BY <1>1, Invariance, PTL

-----------------------------------------------------------------------------
(* Lists of the members of a set.                                          *)

\* Every member of S is in s exactly once.
Lists(s, S) ==
    /\ IsFiniteSet(S)
    /\ s \in [1 .. Cardinality(S) -> S]
    /\ \A i, j \in 1 .. Cardinality(S) : s[i] = s[j] => i = j

LEMMA Counted ==
    ASSUME NEW S, IsFiniteSet(S)
    PROVE  /\ Cardinality(S) \in Nat
           /\ IsFiniteSet(1 .. Cardinality(S))
           /\ Cardinality(1 .. Cardinality(S)) = Cardinality(S)
<1>1. Cardinality(S) \in Nat
    BY FS_CardinalityType
<1>2. /\ IsFiniteSet(1 .. Cardinality(S))
      /\ Cardinality(1 .. Cardinality(S)) = IF 1 > Cardinality(S) THEN 0 ELSE Cardinality(S) - 1 + 1
    BY <1>1, FS_Interval
<1> QED
    BY <1>1, <1>2

\* As many different members as there are: all of them.
LEMMA ListsAll ==
    ASSUME NEW S, NEW s, Lists(s, S)
    PROVE  /\ \A x \in S : \E i \in 1 .. Cardinality(S) : s[i] = x
           /\ ToSet(s) = S
           /\ IsInjective(s)
           /\ DOMAIN s = 1 .. Cardinality(S)
<1> DEFINE D == 1 .. Cardinality(S)
<1>1. IsFiniteSet(D) /\ Cardinality(D) = Cardinality(S) /\ IsFiniteSet(S)
    BY Counted DEF Lists
<1>2. s \in [D -> S] /\ \A i, j \in D : s[i] = s[j] => i = j
    BY DEF Lists
<1> HIDE DEF D
<1>3. s \in Injection(D, S)
    BY <1>2, Zenon DEF Injection, IsInjective
<1>4. s \in Surjection(D, S)
    BY <1>1, <1>3, FS_Injection
<1>5. \A x \in S : \E i \in D : s[i] = x
    BY <1>4, Zenon DEF Surjection
<1>6. ToSet(s) = S
    BY <1>2, <1>5 DEF ToSet
<1>7. IsInjective(s)
    BY <1>2 DEF IsInjective
<1> QED
    BY <1>2, <1>5, <1>6, <1>7 DEF D

LEMMA SeqsAreLists ==
    ASSUME NEW S, IsFiniteSet(S), NEW s \in SetToSeqs(S)
    PROVE  Lists(s, S)
BY DEF SetToSeqs, Lists

-----------------------------------------------------------------------------
(* A sample is finite, and has one entry per pid.                          *)

LEMMA SampleType ==
    ASSUME NEW S \in Samples
    PROVE  /\ IsFiniteSet(S)
           /\ S \subseteq Process
           /\ \A x, y \in S : x.pid = y.pid => x = y
<1>0. PICK P \in SUBSET Pids :
        S \in {{Entry(p, c[p], r[p], s[p]) : p \in P} :
               c \in [P -> Levels], r \in [P -> Levels], s \in [P -> States]}
    BY DEF Samples
<1>1. PICK c \in [P -> Levels], r \in [P -> Levels], s \in [P -> States] :
        S = {Entry(p, c[p], r[p], s[p]) : p \in P}
    BY <1>0
<1>2. IsFiniteSet(P)
    <2>1. Pids \subseteq 1 .. IntHalf - 1 /\ IntHalf \in Nat
        BY ViewAssumption, CliAssumption DEF ViewAssumption, CliAssumption
    <2>2. IsFiniteSet(1 .. IntHalf - 1)
        BY <2>1, FS_Interval
    <2>3. P \in SUBSET (1 .. IntHalf - 1)
        BY <2>1
    <2> QED
        BY <2>2, <2>3, FS_Subset
<1> DEFINE f == [p \in P |-> Entry(p, c[p], r[p], s[p])]
<1>3. f \in Surjection(P, S)
    BY <1>1, Zenon DEF Surjection
<1> HIDE DEF f
<1>4. IsFiniteSet(S)
    BY <1>2, <1>3, FS_Surjection
<1>5. \A p \in P : Entry(p, c[p], r[p], s[p]) \in Process /\ Entry(p, c[p], r[p], s[p]).pid = p
    BY DEF Entry, Process
<1> QED
    BY <1>1, <1>4, <1>5

-----------------------------------------------------------------------------
(* The comparators order the entries strictly and completely.              *)

SamplePart ==
    /\ procs \subseteq Process /\ IsFiniteSet(procs)
    /\ \A x, y \in procs : x.pid = y.pid => x = y
    /\ cfg.sort \in Sorts

LEMMA SelectedFinite ==
    ASSUME SamplePart
    PROVE  Selected \subseteq procs /\ IsFiniteSet(Selected)
<1>1. Selected \in SUBSET procs
    BY DEF Selected
<1> QED
    BY <1>1, FS_Subset DEF SamplePart

LEMMA Keys ==
    ASSUME SamplePart, NEW x \in procs, NEW y \in procs
    PROVE  /\ Key(x) \in Nat /\ Key(y) \in Nat /\ x.pid \in Nat /\ y.pid \in Nat
           /\ Cmp(x, y) <= 0 <=> Ahead(x, y) \/ x = y
<1>1. /\ x.pid \in Nat /\ x.cpu \in Nat /\ x.rss \in Nat
      /\ y.pid \in Nat /\ y.cpu \in Nat /\ y.rss \in Nat
      /\ x.pid = y.pid => x = y
    <2>1. Levels \subseteq Nat /\ Pids \subseteq Nat
        BY ViewAssumption, CliAssumption DEF ViewAssumption, CliAssumption
    <2>2. x \in Process /\ y \in Process /\ (x.pid = y.pid => x = y)
        BY DEF SamplePart
    <2> QED
        BY <2>1, <2>2 DEF Process
<1>2. CASE cfg.sort = "cpu"
    <2>1. Cmp(x, y) = CmpCpuDesc(x, y) /\ Key(x) = x.cpu /\ Key(y) = y.cpu
        BY <1>2, Zenon DEF Cmp, Key
    <2> QED
        BY <1>1, <2>1 DEF CmpCpuDesc, CmpPid, Ahead
<1>3. CASE cfg.sort = "rss"
    <2>1. Cmp(x, y) = CmpRssDesc(x, y) /\ Key(x) = x.rss /\ Key(y) = y.rss
        BY <1>3, Zenon DEF Cmp, Key
    <2> QED
        BY <1>1, <2>1 DEF CmpRssDesc, CmpPid, Ahead
<1>4. CASE cfg.sort = "pid"
    <2>1. Cmp(x, y) = CmpPid(x, y) /\ Key(x) = 0 /\ Key(y) = 0
        BY <1>4, Zenon DEF Cmp, Key
    <2> QED
        BY <1>1, <2>1 DEF CmpPid, Ahead
<1> QED
    BY <1>2, <1>3, <1>4 DEF SamplePart, Sorts

LEMMA AheadStrict ==
    ASSUME SamplePart, NEW x \in procs, NEW y \in procs, Ahead(x, y)
    PROVE  x # y /\ ~Ahead(y, x)
BY Keys DEF Ahead

\* An arrangement without inversion is in the order of Ahead.
LEMMA ArrangedOrder ==
    ASSUME SamplePart, NEW t, Lists(t, Selected),
           \A i, j \in DOMAIN t : i < j => Cmp(t[i], t[j]) <= 0,
           NEW i \in 1 .. Cardinality(Selected), NEW j \in 1 .. Cardinality(Selected)
    PROVE  Ahead(t[i], t[j]) <=> i < j
<1>1. /\ DOMAIN t = 1 .. Cardinality(Selected)
      /\ \A k \in DOMAIN t : t[k] \in procs
      /\ \A k, l \in DOMAIN t : t[k] = t[l] => k = l
    BY SelectedFinite DEF Lists
<1>2. ASSUME NEW k \in DOMAIN t, NEW l \in DOMAIN t, k < l PROVE Ahead(t[k], t[l])
    <2>1. Cmp(t[k], t[l]) <= 0 /\ t[k] # t[l] /\ t[k] \in procs /\ t[l] \in procs
        BY <1>1, <1>2
    <2> QED
        BY <2>1, Keys
<1>3. CASE i < j
    BY <1>1, <1>2, <1>3
<1>4. CASE j < i
    <2>1. Ahead(t[j], t[i])
        BY <1>1, <1>2, <1>4
    <2>2. ~Ahead(t[i], t[j])
        BY <1>1, <2>1, AheadStrict
    <2> QED
        BY <1>4, <2>2
<1>5. CASE i = j
    <2>1. ~Ahead(t[i], t[j])
        BY <1>1, <1>5, AheadStrict
    <2> QED
        BY <1>5, <2>1
<1>6. Cardinality(Selected) \in Nat
    BY SelectedFinite, Counted
<1> QED
    BY <1>3, <1>4, <1>5, <1>6

\* The entry at place k has k - 1 entries before it.
LEMMA PlaceOf ==
    ASSUME SamplePart, NEW t, Lists(t, Selected),
           \A i, j \in DOMAIN t : i < j => Cmp(t[i], t[j]) <= 0,
           NEW k \in 1 .. Cardinality(Selected)
    PROVE  Cardinality({q \in Selected : Ahead(q, t[k])}) = k - 1
<1> DEFINE before == {q \in Selected : Ahead(q, t[k])}
           n == Cardinality(Selected)
           f == [i \in 1 .. k - 1 |-> t[i]]
<1>1. n \in Nat /\ k \in Nat /\ k - 1 \in Nat
    BY SelectedFinite, Counted
<1>2. /\ t \in [1 .. n -> Selected]
      /\ \A i, j \in 1 .. n : t[i] = t[j] => i = j
      /\ \A x \in Selected : \E i \in 1 .. n : t[i] = x
    BY ListsAll DEF Lists
<1>3. \A i \in 1 .. n : Ahead(t[i], t[k]) <=> i < k
    BY ArrangedOrder
<1>4. f \in [1 .. k - 1 -> before]
    BY <1>1, <1>2, <1>3
<1>5. \A i, j \in 1 .. k - 1 : f[i] = f[j] => i = j
    BY <1>1, <1>2
<1>6. \A x \in before : \E i \in 1 .. k - 1 : f[i] = x
    BY <1>1, <1>2, <1>3
<1> HIDE DEF f, before
<1>7. f \in Bijection(1 .. k - 1, before)
    BY <1>4, <1>5, <1>6, Zenon DEF Bijection, Injection, IsInjective, Surjection
<1>8. ExistsBijection(1 .. k - 1, before)
    BY <1>7 DEF ExistsBijection
<1>9. Cardinality(before) = k - 1
    BY <1>1, <1>8, FS_CountingElements
<1> QED
    BY <1>9 DEF before

\* There is only one arrangement: the entry at place k is LineOf(k).
LEMMA OnlyArrangement ==
    ASSUME SamplePart, NEW t, Lists(t, Selected),
           \A i, j \in DOMAIN t : i < j => Cmp(t[i], t[j]) <= 0
    PROVE  t = [k \in 1 .. Cardinality(Selected) |-> LineOf(k)]
<1> DEFINE n == Cardinality(Selected)
<1>1. /\ t \in [1 .. n -> Selected]
      /\ \A x \in Selected : \E i \in 1 .. n : t[i] = x
    BY ListsAll DEF Lists
<1>2. n \in Nat
    BY SelectedFinite, Counted
<1>3. ASSUME NEW k \in 1 .. n PROVE t[k] = LineOf(k)
    <2>1. t[k] \in Selected /\ Cardinality({q \in Selected : Ahead(q, t[k])}) = k - 1
        BY <1>1, PlaceOf
    <2>2. ASSUME NEW p \in Selected, Cardinality({q \in Selected : Ahead(q, p)}) = k - 1
          PROVE p = t[k]
        <3>1. PICK j \in 1 .. n : t[j] = p
            BY <1>1
        <3>2. j - 1 = k - 1
            BY <2>2, <3>1, PlaceOf
        <3> QED
            BY <1>2, <3>1, <3>2
    <2> QED
        BY <2>1, <2>2, Zenon DEF LineOf
<1> QED
    BY <1>1, <1>3

-----------------------------------------------------------------------------
(* The pipeline.                                                           *)

Display == [k \in 1 .. Lines |-> LineOf(k)]
Full == [k \in 1 .. Cardinality(Selected) |-> LineOf(k)]

\* What the array holds at each stage.
ViewInv ==
    /\ stage \in {"options", "exit", "ready", "loop", "filter", "sort", "policy", "output", "done"}
    /\ rc \in 0 .. 2
    /\ procs \subseteq Process /\ IsFiniteSet(procs)
    /\ \A x, y \in procs : x.pid = y.pid => x = y
    /\ ToSet(items) \subseteq procs /\ IsInjective(items)
    /\ ToSet(shown) \subseteq procs /\ IsInjective(shown)
    /\ stage # "done" => shown = <<>>
    /\ stage = "filter" => Lists(items, procs)
    /\ stage = "sort" => Lists(items, Selected)
    /\ stage = "policy" => Lists(items, Selected) /\ items = Full
    /\ stage = "output" => items = Display
    /\ stage = "done" => shown = Display

\* The first entries of a list are different members of its set too.
LEMMA CutType ==
    ASSUME NEW S, NEW s, s \in Seq(S), IsInjective(s), cfg.top \in Nat
    PROVE  /\ ToSet(Cut(s)) \subseteq S
           /\ IsInjective(Cut(s))
           /\ Cut(s) \in Seq(S)
           /\ Len(Cut(s)) = IF cfg.top = 0 \/ Len(s) <= cfg.top THEN Len(s) ELSE cfg.top
           /\ \A i \in 1 .. Len(Cut(s)) : Cut(s)[i] = s[i]
<1>1. CASE cfg.top > 0 /\ Len(s) > cfg.top
    <2> DEFINE c == SubSeq(s, 1, cfg.top)
    <2>1. /\ c \in Seq(S) /\ Len(c) = cfg.top /\ DOMAIN c = 1 .. cfg.top
          /\ \A i \in 1 .. cfg.top : c[i] = s[i] /\ c[i] \in S
        BY <1>1
    <2>2. Cut(s) = c
        BY <1>1 DEF Cut
    <2> HIDE DEF c
    <2>3. 1 .. cfg.top \subseteq DOMAIN s
        BY <1>1
    <2>4. IsInjective(c)
        BY <2>1, <2>3 DEF IsInjective
    <2>5. ToSet(c) \subseteq S
        BY <2>1 DEF ToSet
    <2> QED
        BY <1>1, <2>1, <2>2, <2>4, <2>5
<1>2. CASE ~(cfg.top > 0 /\ Len(s) > cfg.top)
    <2>1. Cut(s) = s
        BY <1>2 DEF Cut
    <2>2. ToSet(s) \subseteq S
        BY DEF ToSet
    <2> QED
        BY <1>2, <2>1, <2>2
<1> QED
    BY <1>1, <1>2

LEMMA ListsSeq ==
    ASSUME NEW S, NEW s, Lists(s, S)
    PROVE  s \in Seq(S) /\ Len(s) = Cardinality(S) /\ IsInjective(s) /\ ToSet(s) = S
<1>1. Cardinality(S) \in Nat
    BY Counted DEF Lists
<1> QED
    BY <1>1, ListsAll DEF Lists

\* The options decide about the program or hand over to the loop.
LEMMA ParseStage ==
    ASSUME Parse, rc \in 0 .. 2
    PROVE  stage = "options" /\ stage' \in {"options", "exit", "ready"} /\ rc' \in 0 .. 2
BY DEF Parse, Delay, Count, Top, Pid, Sort, Output, State, Once, Batch, Raw, Json, Help, Unknown,
       EndOfOptions, Option, Demand, Accept, Refuse, Usage

\* The stages in which the pipeline works on a configuration that does not change.
LEMMA Fixed ==
    ASSUME UNCHANGED <<cfg, procs>>
    PROVE  Selected' = Selected /\ Display' = Display /\ Full' = Full
<1>1. Selected' = Selected
    BY DEF Selected, Passes
<1>2. \A x, y : Ahead(x, y)' <=> Ahead(x, y)
    <2>1. \A x : Key(x)' = Key(x)
        BY Zenon DEF Key
    <2> QED
        BY <2>1 DEF Ahead
<1>3. \A k : LineOf(k)' = LineOf(k)
    BY <1>1, <1>2 DEF LineOf
<1>4. Lines' = Lines
    BY <1>1 DEF Lines
<1> QED
    BY <1>1, <1>3, <1>4 DEF Display, Full

\* The filter leaves the entries that pass, each once.
LEMMA FilterStep ==
    ASSUME CliInv, ViewInv, FilterApply
    PROVE  ViewInv'
<1>1. /\ stage = "filter" /\ stage' = "sort" /\ UNCHANGED <<given, cfg, rc, procs, shown>>
      /\ Lists(items, procs)
    BY DEF FilterApply, ViewInv
<1> DEFINE kept == {i \in DOMAIN items : Passes(items[i])}
           n == Cardinality(kept)
<1>2. PICK from \in [1 .. n -> kept] :
        /\ \A v, w \in DOMAIN from : v < w => from[v] < from[w]
        /\ items' = [w \in DOMAIN from |-> items[from[w]]]
    BY DEF FilterApply, Moves
<1>3. /\ DOMAIN items = 1 .. Cardinality(procs) /\ Cardinality(procs) \in Nat
      /\ items \in [1 .. Cardinality(procs) -> procs]
      /\ \A i, j \in DOMAIN items : items[i] = items[j] => i = j
      /\ \A x \in procs : \E i \in DOMAIN items : items[i] = x
    BY <1>1, ListsAll, Counted DEF Lists
<1>4. IsFiniteSet(kept) /\ n \in Nat /\ IsFiniteSet(1 .. n) /\ Cardinality(1 .. n) = n
    <2>1. IsFiniteSet(DOMAIN items) /\ kept \in SUBSET DOMAIN items
        BY <1>3, FS_Interval
    <2> QED
        BY <2>1, FS_Subset, Counted
<1>5. kept \subseteq DOMAIN items /\ \A i \in kept : i \in Nat /\ items[i] \in Selected
    BY <1>3 DEF Selected
<1>6. \A x \in Selected : \E i \in kept : items[i] = x
    BY <1>3 DEF Selected
<1> HIDE DEF kept, n
<1>7. \A v, w \in 1 .. n : from[v] = from[w] => v = w
    <2>1. ASSUME NEW v \in 1 .. n, NEW w \in 1 .. n, v < w, from[v] = from[w] PROVE FALSE
        BY <1>2, <1>4, <1>5, <2>1
    <2> QED
        BY <1>4, <2>1
<1>8. \A i \in kept : \E w \in 1 .. n : from[w] = i
    <2>1. from \in Injection(1 .. n, kept)
        BY <1>2, <1>7, Zenon DEF Injection, IsInjective
    <2>2. from \in Surjection(1 .. n, kept)
        BY <1>4, <2>1, FS_Injection DEF n
    <2> QED
        BY <2>2, Zenon DEF Surjection
<1>9. Cardinality(Selected) = n /\ IsFiniteSet(Selected)
    <2> DEFINE g == [i \in kept |-> items[i]]
    <2>1. g \in [kept -> Selected] /\ (\A i, j \in kept : g[i] = g[j] => i = j)
          /\ (\A x \in Selected : \E i \in kept : g[i] = x)
        BY <1>3, <1>5, <1>6
    <2> HIDE DEF g
    <2>2. g \in Bijection(kept, Selected)
        BY <2>1, Zenon DEF Bijection, Injection, IsInjective, Surjection
    <2>3. ExistsBijection(kept, Selected)
        BY <2>2 DEF ExistsBijection
    <2> QED
        BY <1>4, <2>3, FS_Bijection DEF n
<1>10. Lists(items', Selected)
    <2>1. items' \in [1 .. n -> Selected]
        BY <1>2, <1>5
    <2>2. \A v, w \in 1 .. n : items'[v] = items'[w] => v = w
        BY <1>2, <1>3, <1>5, <1>7
    <2> QED
        BY <1>9, <2>1, <2>2 DEF Lists
<1>11. Lists(items', Selected') /\ Selected \subseteq procs
    BY <1>1, <1>10, Fixed DEF Selected
<1>12. ToSet(items') \subseteq procs /\ IsInjective(items')
    BY <1>10, <1>11, ListsSeq
<1>13. (Lists(items, Selected) /\ ToSet(items) \subseteq procs /\ IsInjective(items))'
    BY <1>1, <1>11, <1>12 DEF Lists, ToSet, IsInjective
<1> QED
    BY <1>1, <1>13 DEF ViewInv

\* qsort leaves the one arrangement without inversion.
LEMMA SortStep ==
    ASSUME CliInv, ViewInv, SortApply
    PROVE  ViewInv'
<1>1. /\ stage = "sort" /\ stage' = "policy" /\ UNCHANGED <<given, cfg, rc, procs, shown>>
      /\ Lists(items, Selected) /\ items' \in Arranged(items)
    BY DEF SortApply, ViewInv
<1>2. SamplePart
    BY DEF SamplePart, ViewInv, CliInv, CliType, Config
<1>3. ToSet(items) = Selected /\ IsFiniteSet(Selected)
    BY <1>1, ListsAll DEF Lists
<1>4. /\ items' \in SetToSeqs(Selected)
      /\ \A i, j \in DOMAIN items' : i < j => Cmp(items'[i], items'[j]) <= 0
    BY <1>1, <1>3 DEF Arranged
<1>5. Lists(items', Selected)
    BY <1>3, <1>4, SeqsAreLists
<1>6. items' = Full
    BY <1>2, <1>4, <1>5, OnlyArrangement DEF Full
<1>7. ToSet(items') \subseteq procs /\ IsInjective(items')
    BY <1>5, ListsSeq DEF Selected
<1>8. (Lists(items, Selected) /\ items = Full /\ ToSet(items) \subseteq procs /\ IsInjective(items))'
    BY <1>1, <1>5, <1>6, <1>7, Fixed DEF Lists, ToSet, IsInjective
<1> QED
    BY <1>1, <1>8 DEF ViewInv

\* The cut to the best entries.
LEMMA CutFull ==
    ASSUME CliInv, ViewInv, Lists(Full, Selected), stage # "exit"
    PROVE  Cut(Full) = Display /\ ToSet(Display) \subseteq procs /\ IsInjective(Display)
<1> DEFINE n == Cardinality(Selected)
<1>1. cfg.top \in Nat
    BY DEF CliInv, CliType, Config, Accepted
<1>2. Full \in Seq(Selected) /\ Len(Full) = n /\ IsInjective(Full) /\ n \in Nat
    BY ListsSeq, Counted DEF Lists
<1>3. \A k \in 1 .. n : Full[k] = LineOf(k)
    BY DEF Full
<1>4. /\ Lines \in Nat /\ Lines <= n
      /\ Lines = IF cfg.top = 0 \/ n <= cfg.top THEN n ELSE cfg.top
    BY <1>1, <1>2 DEF Lines
<1> DEFINE c == Cut(Full)
<1>5. /\ ToSet(c) \subseteq Selected /\ IsInjective(c) /\ c \in Seq(Selected)
      /\ Len(c) = Lines /\ \A i \in 1 .. Len(c) : c[i] = Full[i]
    BY <1>1, <1>2, <1>4, CutType
<1> HIDE DEF c
<1>6. c = Display
    <2>1. c = [i \in 1 .. Lines |-> c[i]]
        BY <1>5
    <2>2. \A i \in 1 .. Lines : c[i] = LineOf(i)
        BY <1>2, <1>3, <1>4, <1>5
    <2> QED
        BY <2>1, <2>2 DEF Display
<1> QED
    BY <1>5, <1>6 DEF c, Selected

\* Cutting once more, as the tty renderer does, changes nothing.
LEMMA CutAgain ==
    ASSUME CliInv, ViewInv, stage # "exit"
    PROVE  Cut(Display) = Display
<1>1. cfg.top \in Nat
    BY DEF CliInv, CliType, Config, Accepted
<1>2. Cardinality(Selected) \in Nat
    <2>1. IsFiniteSet(Selected)
        BY FS_Subset DEF ViewInv, Selected
    <2> QED
        BY <2>1, Counted
<1>3. Lines \in Nat /\ (cfg.top > 0 => Lines <= cfg.top)
    BY <1>1, <1>2 DEF Lines
<1>4. Len(Display) = Lines
    BY <1>3 DEF Display
<1> QED
    BY <1>1, <1>3, <1>4 DEF Cut

LEMMA ViewStep ==
    ASSUME CliInv, ViewInv, [Next]_vars
    PROVE  ViewInv'
<1>1. CASE CommandLine
    <2>1. /\ stage \in {"options", "exit"} /\ stage' \in {"options", "exit", "ready"} /\ rc' \in 0 .. 2
          /\ UNCHANGED <<procs, items, shown>>
        <3>1. CASE Parse
            BY <1>1, <3>1, ParseStage DEF CommandLine, ViewInv
        <3>2. CASE Exited
            BY <1>1, <3>2 DEF CommandLine, Exited, cli, ViewInv
        <3> QED
            BY <1>1, <3>1, <3>2 DEF CommandLine
    <2> QED
        BY <2>1 DEF ViewInv
<1>2. CASE FirstSnapshot
    BY <1>2 DEF FirstSnapshot, ViewInv
<1>3. CASE Compute
    <2>1. /\ stage = "loop" /\ stage' = "filter" /\ UNCHANGED <<given, cfg, rc, shown>>
          /\ procs' \in Samples /\ items' \in SetToSeqs(procs')
        BY <1>3 DEF Compute
    <2>2. /\ procs' \subseteq Process /\ IsFiniteSet(procs')
          /\ \A x, y \in procs' : x.pid = y.pid => x = y
        BY <2>1, SampleType
    <2>3. Lists(items', procs')
        BY <2>1, <2>2, SeqsAreLists
    <2>4. ToSet(items') = procs' /\ IsInjective(items')
        BY <2>3, ListsAll
    <2>5. (Lists(items, procs) /\ ToSet(items) \subseteq procs /\ IsInjective(items))'
        BY <2>3, <2>4 DEF Lists, ToSet, IsInjective
    <2>6. shown' = <<>> /\ ToSet(shown') = {} /\ IsInjective(shown')
        BY <2>1 DEF ViewInv, ToSet, IsInjective
    <2>7. (ToSet(shown) \subseteq procs /\ IsInjective(shown))'
        BY <2>6 DEF ToSet, IsInjective
    <2> QED
        BY <2>1, <2>2, <2>5, <2>6, <2>7 DEF ViewInv
<1>4. CASE FilterApply
    BY <1>4, FilterStep
<1>5. CASE SortApply
    BY <1>5, SortStep
<1>6. CASE PolicyApply
    <2>1. /\ stage = "policy" /\ stage' = "output" /\ UNCHANGED <<given, cfg, rc, procs, shown>>
          /\ Lists(Full, Selected) /\ items = Full /\ items' = Cut(Full)
        BY <1>6 DEF PolicyApply, ViewInv
    <2>2. items' = Display /\ ToSet(items') \subseteq procs /\ IsInjective(items')
        BY <2>1, CutFull
    <2>3. (items = Display /\ ToSet(items) \subseteq procs /\ IsInjective(items))'
        BY <2>1, <2>2, Fixed DEF ToSet, IsInjective
    <2> QED
        BY <2>1, <2>3 DEF ViewInv
<1>7. CASE RenderTty \/ OutputBatch
    <2>1. /\ stage = "output" /\ stage' = "done" /\ UNCHANGED <<given, cfg, rc, procs, items>>
          /\ items = Display /\ (shown' = items \/ shown' = Cut(items))
        BY <1>7 DEF RenderTty, OutputBatch, ViewInv
    <2>2. shown' = items
        BY <2>1, CutAgain
    <2>3. (shown = Display /\ ToSet(shown) \subseteq procs /\ IsInjective(shown))'
        BY <2>1, <2>2, Fixed DEF ViewInv, ToSet, IsInjective
    <2> QED
        BY <2>1, <2>3 DEF ViewInv
<1>8. CASE Done \/ UNCHANGED vars
    <2>1. UNCHANGED <<given, cfg, stage, rc, procs, items, shown>>
        BY <1>8 DEF Done, vars
    <2> QED
        BY <2>1, Fixed DEF ViewInv, Lists, ToSet, IsInjective
<1> QED
    BY <1>1, <1>2, <1>3, <1>4, <1>5, <1>6, <1>7, <1>8 DEF Next

LEMMA ViewInvInit == Init => ViewInv
<1> SUFFICES ASSUME Init PROVE ViewInv
    OBVIOUS
<1>1. stage = "options" /\ rc = 0 /\ procs = {} /\ items = <<>> /\ shown = <<>>
    BY DEF Init, ParseInit
<1>2. ToSet(items) = {} /\ IsInjective(items) /\ ToSet(shown) = {} /\ IsInjective(shown)
    BY <1>1 DEF ToSet, IsInjective
<1>3. IsFiniteSet(procs)
    BY <1>1, FS_EmptySet
<1> QED
    BY <1>1, <1>2, <1>3 DEF ViewInv

LEMMA ViewInvariance == Spec => [](CliInv /\ ViewInv)
<1>1. Init => CliInv /\ ViewInv
    BY CliInvInit, ViewInvInit
<1>2. CliInv /\ ViewInv /\ [Next]_vars => (CliInv /\ ViewInv)'
    BY CliInvStep, ViewStep
<1> QED
    BY <1>1, <1>2, PTL DEF Spec

\* Every variable has its type, and no process is in the array or in the
\* display twice, whatever the filter drops and qsort does.
THEOREM TypeCorrect == Spec => []TypeOK
<1>1. CliInv /\ ViewInv => TypeOK
    BY DEF CliInv, CliType, Config, ViewInv, TypeOK
<1> QED
    BY <1>1, ViewInvariance, PTL

\* The display is a function of the set of processes and the options, for any
\* number of processes, any loads and sizes, and whatever the order of /proc
\* and the outcome of qsort are.
THEOREM DisplayDetermined == Spec => []Deterministic
<1>1. CliInv /\ ViewInv => Deterministic
    BY DEF ViewInv, Deterministic, Display
<1> QED
    BY <1>1, ViewInvariance, PTL
=============================================================================
