------------------------------- MODULE PtopCli -------------------------------
(***************************************************************************)
(* The command line of ptop: the getopt_long loop of ptop.c, one action    *)
(* per option.  An option overrides what an earlier one has put into the   *)
(* same field of ptop_config_t, and the first bad one ends the program.    *)
(***************************************************************************)
EXTENDS Integers, Sequences

CONSTANTS
    Numbers,   \* numbers an argument may begin with; 0 stands for text too
    IntHalf,   \* INT_MAX + 1
    LongHalf,  \* LONG_MAX + 1
    Letters,   \* the letters -S may be given
    Upper(_),  \* toupper()
    InBusyBox, \* built as an applet, where bb_show_usage() ends the program
    MaxArgs    \* bound: options on a command line

ASSUME CliAssumption ==
    /\ Numbers \subseteq Int
    /\ IntHalf \in Nat \ {0, 1}
    /\ LongHalf \in Nat /\ LongHalf >= IntHalf
    /\ InBusyBox \in BOOLEAN
    /\ MaxArgs \in Nat

VARIABLES
    given,   \* the options handled so far
    cfg,     \* ptop_config_t
    stage,   \* "options", then "ready" for the loop, or "exit"
    rc       \* the exit status, once stage is "exit"

cli == <<given, cfg, stage, rc>>

NoLetter == "none"                \* filter_state = 0
NoPid == -1
Sorts == {"pid", "cpu", "rss"}
Modes == {"interactive", "batch", "raw", "json"}
Formats == [table |-> "batch", raw |-> "raw", json |-> "json"]

Default == [delay |-> 1, loops |-> -1, mode |-> "interactive", sort |-> "pid",
            top |-> 0, pid |-> NoPid, state |-> NoLetter]

ParseInit == given = <<>> /\ cfg = Default /\ stage = "options" /\ rc = 0

-----------------------------------------------------------------------------
(* atoi: the value of strtol, which stays within a long, cut to an int.    *)

Clip(z) ==
    IF z >= LongHalf THEN LongHalf - 1 ELSE IF z < -LongHalf THEN -LongHalf ELSE z

ToInt(z) == ((z + IntHalf) % (2 * IntHalf)) - IntHalf

Atoi(z) == ToInt(Clip(z))

-----------------------------------------------------------------------------
(* The options.                                                            *)

Option(letter, arg) ==
    /\ stage = "options" /\ Len(given) < MaxArgs
    /\ given' = Append(given, <<letter, arg>>)

Accept == stage' = "options" /\ rc' = rc
Refuse == stage' = "exit" /\ rc' = 2
Demand(ok) == IF ok THEN Accept ELSE Refuse

\* A number is stored before it is looked at.
Delay_ChecksLong(z) ==                     \* mutant: the test is before the cast
    Option("d", z) /\ cfg' = [cfg EXCEPT !.delay = Atoi(z)] /\ Demand(Clip(z) > 0)
Delay(z) == Option("d", z) /\ cfg' = [cfg EXCEPT !.delay = Atoi(z)] /\ Demand(Atoi(z) > 0)

Count_AfterOnce(z) ==                      \* mutant: -n cannot take back a -1
    /\ Option("n", z) /\ Demand(Atoi(z) > 0)
    /\ cfg' = IF cfg.loops = 1 THEN cfg ELSE [cfg EXCEPT !.loops = Atoi(z)]
Count(z) == Option("n", z) /\ cfg' = [cfg EXCEPT !.loops = Atoi(z)] /\ Demand(Atoi(z) > 0)

Once == Option("1", 0) /\ cfg' = [cfg EXCEPT !.loops = 1] /\ Accept
Top(z) == Option("t", z) /\ cfg' = [cfg EXCEPT !.top = Atoi(z)] /\ Demand(Atoi(z) >= 0)
Pid(z) == Option("p", z) /\ cfg' = [cfg EXCEPT !.pid = Atoi(z)] /\ Demand(Atoi(z) > 0)

\* A word is looked at before anything is stored.
Sort(word) ==
    /\ Option("s", word) /\ Demand(word \in Sorts)
    /\ cfg' = IF word \in Sorts THEN [cfg EXCEPT !.sort = word] ELSE cfg

Output(word) ==
    /\ Option("output", word) /\ Demand(word \in DOMAIN Formats)
    /\ cfg' = IF word \in DOMAIN Formats THEN [cfg EXCEPT !.mode = Formats[word]] ELSE cfg

\* -S takes one letter; a word of another length is no letter.
State(word) ==
    /\ Option("S", word) /\ Demand(word \in Letters)
    /\ cfg' = IF word \in Letters THEN [cfg EXCEPT !.state = Upper(word)] ELSE cfg

Batch == Option("b", 0) /\ cfg' = [cfg EXCEPT !.mode = "batch"] /\ Accept
Raw == Option("r", 0) /\ cfg' = [cfg EXCEPT !.mode = "raw"] /\ Accept
Json == Option("j", 0) /\ cfg' = [cfg EXCEPT !.mode = "json"] /\ Accept

\* bb_show_usage() does not return and exits with 1.
Usage(status) == stage' = "exit" /\ rc' = IF InBusyBox THEN 1 ELSE status

Help == Option("h", 0) /\ Usage(0) /\ UNCHANGED cfg
Unknown == Option("?", 0) /\ Usage(2) /\ UNCHANGED cfg

\* getopt_long returns -1.  Without a terminal the output is that of -b.
EndOfOptions(isTty) ==
    /\ stage = "options" /\ stage' = "ready"
    /\ cfg' = IF cfg.mode = "interactive" /\ ~isTty THEN [cfg EXCEPT !.mode = "batch"] ELSE cfg
    /\ UNCHANGED <<given, rc>>

Parse ==
    \/ \E z \in Numbers : Delay(z) \/ Count(z) \/ Top(z) \/ Pid(z)
    \/ \E word \in Sorts \cup {"other"} : Sort(word)
    \/ \E word \in DOMAIN Formats \cup {"other"} : Output(word)
    \/ \E word \in Letters \cup {"other"} : State(word)
    \/ Once \/ Batch \/ Raw \/ Json \/ Help \/ Unknown
    \/ \E isTty \in BOOLEAN : EndOfOptions(isTty)

\* A program that has refused its options has ended.
Exited == stage = "exit" /\ UNCHANGED cli

ParseSpec == ParseInit /\ [][Parse]_cli

-----------------------------------------------------------------------------
(* Properties.                                                             *)

\* What an option puts into which field, nothing for a word it refuses.
NumField == [d |-> "delay", n |-> "loops", t |-> "top", p |-> "pid"]
Stores(o) ==
    CASE o[1] \in DOMAIN NumField -> {<<NumField[o[1]], Atoi(o[2])>>}
      [] o[1] = "1" -> {<<"loops", 1>>}
      [] o[1] = "b" -> {<<"mode", "batch">>}
      [] o[1] = "r" -> {<<"mode", "raw">>}
      [] o[1] = "j" -> {<<"mode", "json">>}
      [] o[1] = "output" -> {<<"mode", Formats[w]>> : w \in {o[2]} \cap DOMAIN Formats}
      [] o[1] = "s" -> {<<"sort", w>> : w \in {o[2]} \cap Sorts}
      [] o[1] = "S" -> {<<"state", Upper(w)>> : w \in {o[2]} \cap Letters}
      [] o[1] \in {"h", "?"} -> {}

\* Of the options that set a field the last one counts, whatever stands
\* between them, and the fields no option names keep their defaults: the
\* three spellings of the output format share a field, as -1 and -n do.
LastWins ==
    stage \in {"options", "exit"} =>
        \A f \in DOMAIN Default :
            LET by == {i \in DOMAIN given : \E s \in Stores(given[i]) : s[1] = f}
            IN  IF by = {} THEN cfg[f] = Default[f]
                ELSE \E i \in by : /\ \A j \in by : j <= i
                                    /\ <<f, cfg[f]>> \in Stores(given[i])

\* What the loop and the pipeline take for granted of the configuration they
\* get: sleep() is never called with a negative delay, a countdown can reach
\* 0, and -1 alone stands for an absent limit or pid, also when a number did
\* not fit into an int.
Sane ==
    stage \notin {"options", "exit"} =>
        /\ rc = 0
        /\ cfg.delay >= 1 /\ (cfg.loops = -1 \/ cfg.loops >= 1)
        /\ cfg.top >= 0 /\ (cfg.pid = NoPid \/ cfg.pid >= 1)
        /\ cfg.mode \in Modes /\ cfg.sort \in Sorts
=============================================================================
