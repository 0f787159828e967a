------------------------ MODULE PtopSampling_proofs ------------------------
(***************************************************************************)
(* Proofs about PtopSampling, for any number of pids, processes, jiffies,  *)
(* jiffies handed to reapers and jiffies taken back.                       *)
(***************************************************************************)
EXTENDS PtopSampling, FiniteSetTheorems, TLAPS

\* Unsigned subtraction of two counts is exact or one word too large.
LEMMA SubIs ==
  ASSUME NEW a \in Nat, NEW b \in Nat, a < Word, b < Word
  PROVE Sub(a, b) = IF a >= b THEN a - b ELSE a - b + Word
<1>1. Word \in Nat /\ Word > 1
  BY SamplingAssumption DEF SamplingAssumption
<1>2. CASE a >= b
  BY <1>1, <1>2 DEF Sub
<1>3. CASE a < b
  BY <1>1, <1>3 DEF Sub
<1> QED BY <1>2, <1>3

LEMMA SubType ==
  ASSUME NEW a \in Nat, NEW b \in Nat, a < Word, b < Word
  PROVE Sub(a, b) \in Nat /\ Sub(a, b) < Word
<1>1. Word \in Nat
  BY SamplingAssumption DEF SamplingAssumption
<1> QED BY <1>1, SubIs

\* The delta that is stored is in the word, whatever the two snapshots say.
LEMMA DeltaType ==
  ASSUME curr \in Snapshots, prev \in Snapshots
  PROVE /\ TotalDelta \in 1 .. Word - 1
        /\ BusyDelta \in 0 .. Word - 1
<1> USE SamplingAssumption DEF SamplingAssumption
<1>1. /\ curr.total \in 0 .. MaxTicks /\ prev.total \in 0 .. MaxTicks
      /\ curr.idle \in 0 .. MaxTicks /\ prev.idle \in 0 .. MaxTicks
  BY DEF Snapshots, Counts
<1>2. Sub(curr.total, prev.total) \in 0 .. Word - 1 /\ Sub(curr.idle, prev.idle) \in 0 .. Word - 1
  <2>1. /\ curr.total < Word /\ prev.total < Word /\ curr.idle < Word /\ prev.idle < Word
        /\ curr.total \in Nat /\ prev.total \in Nat /\ curr.idle \in Nat /\ prev.idle \in Nat
    BY <1>1
  <2>2. /\ Sub(curr.total, prev.total) \in Nat /\ Sub(curr.total, prev.total) < Word
        /\ Sub(curr.idle, prev.idle) \in Nat /\ Sub(curr.idle, prev.idle) < Word
    BY <2>1, SubType
  <2> QED BY <2>2
<1>3. TotalDelta \in 1 .. Word - 1
  BY <1>2 DEF TotalDelta
<1>4. BusyDelta \in 0 .. Word - 1
  <2>1. TotalDelta \in Nat /\ TotalDelta < Word /\ Sub(curr.idle, prev.idle) \in Nat /\ Sub(curr.idle, prev.idle) < Word
    BY <1>2, <1>3
  <2>2. BusyDelta \in Nat /\ BusyDelta < Word
    BY <2>1, SubType DEF BusyDelta
  <2> QED BY <2>2
<1> QED BY <1>3, <1>4

\* What is stored of a process stays below the word.
LEMMA StoredType == \A n \in Stored : n \in Nat /\ n < Word
BY SamplingAssumption DEF SamplingAssumption, Stored

\* What the list of processes is made of.
LEMMA ProcsAre ==
  ASSUME NEW procs
  PROVE procs \in Procs <=>
          DOMAIN procs \subseteq Pids /\ procs \in [DOMAIN procs -> Entry]
BY DEF Procs, Entry

LEMMA NothingType == Nothing \in Procs /\ DOMAIN Nothing = {}
<1>1. DOMAIN Nothing = {} /\ Nothing \in [{} -> Entry]
  BY DEF Nothing
<1> QED BY <1>1, ProcsAre

LEMMA EmptyType == EmptySnapshot \in Snapshots
<1>1. NoTime \in [Numbers -> Stored] /\ 0 \in Counts /\ 0 \in 0 .. MaxHanded
  BY SamplingAssumption DEF SamplingAssumption, NoTime, Counts, Stored
<1> QED BY <1>1, NothingType DEF EmptySnapshot, Snapshots

LEMMA SeenType ==
  ASSUME TypeOK, Ticks \in [Numbers -> Stored], NEW q \in Pids, running[q] # 0, NEW procs \in Procs
  PROVE /\ WithSeen(procs, q) \in Procs
        /\ DOMAIN WithSeen(procs, q) = DOMAIN procs \cup {q}
        /\ WithSeen(procs, q)[q] = Seen(q)
        /\ \A p \in DOMAIN procs : p # q => WithSeen(procs, q)[p] = procs[p]
        /\ Seen(q) \in Entry
<1> USE SamplingAssumption DEF SamplingAssumption
<1>1. running[q] \in Numbers
  BY DEF TypeOK, Numbers
<1>2. Seen(q) \in Entry
  BY <1>1 DEF Seen, Entry
<1>3. DOMAIN procs \subseteq Pids /\ procs \in [DOMAIN procs -> Entry]
  BY ProcsAre
<1> DEFINE w == WithSeen(procs, q)
<1>4. w = [p \in DOMAIN procs \cup {q} |-> IF p = q THEN Seen(q) ELSE procs[p]]
  BY DEF WithSeen
<1> HIDE DEF w
<1>5. DOMAIN w = DOMAIN procs \cup {q} /\ w \in [DOMAIN w -> Entry]
  BY <1>2, <1>3, <1>4
<1>6. w \in Procs
  BY <1>3, <1>5, ProcsAre
<1>7. w[q] = Seen(q) /\ \A p \in DOMAIN procs : p # q => w[p] = procs[p]
  BY <1>4
<1> QED BY <1>2, <1>5, <1>6, <1>7 DEF w

-----------------------------------------------------------------------------
(* The invariant.                                                          *)

Collecting == pc \in {"dir", "stat", "status", "end", "view"}

\* Where the walk is, and that a snapshot is empty until it begins.
Walk ==
  /\ pc \in {"stat", "status"} => at \in Pids
  /\ pc = "status" => at \in DOMAIN curr.procs
  /\ ~Collecting => curr = EmptySnapshot
  /\ pc = "view" => ~first

\* What the columns of the two snapshots have to do with the time they were
\* read at.
Clocks ==
  /\ drops = 0 => curr.total = curr.began /\ prev.total = prev.began
  /\ whole /\ ~first /\ pc = "cpu" => Elapsed > prev.began
  /\ whole /\ ~first /\ Collecting => curr.began > prev.began
  /\ prev.total - prev.idle <= busy
  /\ Collecting => /\ curr.total - curr.idle <= busy
                   /\ prev.total - prev.idle <= curr.total - curr.idle

\* A process worked no longer than there were jiffies, and inherited no more than
\* was handed on.
Times == \A k \in Numbers : utime[k] <= busy /\ stime[k] <= busy /\ cutime[k] <= handed

\* The counters only grow and start at 0, so that a snapshot says no more than
\* they do now; in particular those of a process that took over a pid after the
\* previous snapshot had read it were 0 when that snapshot began.
Grows ==
  /\ \A k \in Numbers :
        /\ prev.had[k] <= Ticks[k] /\ curr.had[k] <= Ticks[k]
        /\ Collecting => prev.had[k] <= curr.had[k]
        /\ k > births => Ticks[k] = 0
  /\ \A p \in Pids : running[p] <= births
  /\ \A p \in DOMAIN prev.procs :
        /\ prev.procs[p].ticks >= prev.had[prev.procs[p].number]
        /\ running[p] \notin {0, prev.procs[p].number} => prev.had[running[p]] = 0
  /\ \A p \in DOMAIN curr.procs :
        /\ curr.procs[p].ticks >= curr.had[curr.procs[p].number]
        /\ running[p] \notin {0, curr.procs[p].number} => curr.had[running[p]] = 0
  /\ \A p \in DOMAIN prev.procs \cap DOMAIN curr.procs :
        curr.procs[p].number # prev.procs[p].number => prev.had[curr.procs[p].number] = 0

\* Every process that has lived since the walk began has its pid still, and is
\* in the list once the walk has passed that pid, unless its stat file failed.
Passed(p) == p < at \/ (p = at /\ pc \notin {"stat", "status"})
Found ==
  Collecting =>
    /\ \A k \in due : \E p \in Pids : running[p] = k
    /\ \A p \in Pids : running[p] \in due =>
         /\ pc = "status" /\ p = at => p \in DOMAIN curr.procs /\ curr.procs[p].number = running[p]
         /\ Passed(p) \/ pc \in {"end", "view"} =>
              /\ p \in DOMAIN curr.procs
              /\ curr.procs[p].number = running[p] /\ curr.procs[p].rss \in {0, running[p]}

\* No process that is yet to be started counts as one that has lived long.
Due == \A k \in due : k <= births

\* What is displayed is the delta of the two snapshots.
Displayed ==
  pc = "view" =>
    /\ delta.total = TotalDelta /\ delta.busy = BusyDelta
    /\ delta.procs = [p \in DOMAIN curr.procs |-> ProcDelta(p)]

SamplingInv == TypeOK /\ Walk /\ Clocks /\ Times /\ Grows /\ Due /\ Found /\ Displayed

\* At most as many processes run as have been started.
LEMMA SamplingStart == Init => SamplingInv
<1> SUFFICES ASSUME Init PROVE SamplingInv
  OBVIOUS
<1> USE SamplingAssumption DEF SamplingAssumption
<1>1. births \in Nat /\ births >= 1 /\ births <= MaxBirths
  BY FS_CardinalityType DEF Init
<1>2. running \in [Pids -> 0 .. births]
  <2>1. PICK S \in SUBSET Pids :
          /\ Cardinality(S) = births
          /\ running = [p \in Pids |-> IF p \in S THEN Cardinality({q \in S : q <= p}) ELSE 0]
    BY DEF Init
  <2>2. IsFiniteSet(S)
    BY FS_Subset
  <2>3. ASSUME NEW p \in Pids PROVE Cardinality({q \in S : q <= p}) \in 0 .. births
    <3>1. {q \in S : q <= p} \subseteq S
      OBVIOUS
    <3>2. IsFiniteSet({q \in S : q <= p}) /\ Cardinality({q \in S : q <= p}) <= births
      BY <2>1, <2>2, <3>1, FS_Subset
    <3>3. Cardinality({q \in S : q <= p}) \in Nat
      BY <3>2, FS_CardinalityType
    <3> QED BY <1>1, <3>2, <3>3
  <2> QED BY <1>1, <2>1, <2>3
<1>3. running \in [Pids -> 0 .. MaxBirths]
  BY <1>1, <1>2
<1>4. /\ utime = NoTime /\ stime = NoTime /\ cutime = NoTime /\ handed = 0
      /\ NoTime \in [Numbers -> {0}] /\ \A k \in Numbers : NoTime[k] = 0
  BY DEF Init, NoTime
<1>5. /\ pc = "cpu" /\ at = 0 /\ idle = 0 /\ busy = 0 /\ drops = 0 /\ due = {} /\ ended = 0
      /\ curr = EmptySnapshot /\ prev = EmptySnapshot /\ delta.total = 1 /\ delta.busy = 0
  BY DEF Init, NoDelta
<1>6. first \in BOOLEAN /\ whole \in BOOLEAN /\ first
  BY Zenon DEF Init
<1>7. TypeOK
  <2>1. utime \in [Numbers -> Counts] /\ stime \in [Numbers -> Counts] /\ cutime \in [Numbers -> 0 .. MaxHanded]
    BY <1>4 DEF Counts
  <2>2. /\ handed \in 0 .. MaxHanded /\ idle \in Counts /\ busy \in Counts /\ drops \in 0 .. MaxDrops
        /\ Elapsed \in Counts /\ ended \in Stored
    BY <1>4, <1>5 DEF Counts, Elapsed, Clock, Stored
  <2>3. delta.total \in 1 .. Word - 1 /\ delta.busy \in 0 .. Word - 1 /\ births \in 0 .. MaxBirths
    BY <1>1, <1>5
  <2> QED BY <1>3, <1>5, <1>6, <2>1, <2>2, <2>3, EmptyType DEF TypeOK
<1>8. Walk /\ Due /\ Found /\ Displayed
  BY <1>5, <1>6 DEF Walk, Due, Found, Displayed, Collecting
<1>9. Clocks
  BY <1>5, <1>6 DEF Clocks, EmptySnapshot, Collecting
<1>10. Times /\ Grows
  <2>1. /\ DOMAIN prev.procs = {} /\ DOMAIN curr.procs = {}
        /\ curr.had = NoTime /\ prev.had = NoTime
    BY <1>5, NothingType DEF EmptySnapshot
  <2>2. \A k \in Numbers : Ticks[k] = 0
    BY <1>4 DEF Ticks
  <2>3. Times
    BY <1>4, <1>5 DEF Times
  <2>4. \A p \in Pids : running[p] <= births
    BY <1>1, <1>2
  <2> QED BY <1>4, <1>5, <2>1, <2>2, <2>3, <2>4 DEF Grows, Collecting
<1> QED BY <1>7, <1>8, <1>9, <1>10 DEF SamplingInv

\* What the code stores of a process never exceeds what passed and was handed on.
LEMMA TicksType ==
  ASSUME TypeOK, Times
  PROVE Ticks \in [Numbers -> Stored] /\ \A k \in Numbers : Ticks[k] = stime[k] + cutime[k] /\ Ticks[k] \in Nat
<1> USE SamplingAssumption DEF SamplingAssumption
<1>1. ASSUME NEW k \in Numbers PROVE stime[k] + cutime[k] \in Stored /\ stime[k] + cutime[k] \in Nat
  <2>1. stime[k] \in 0 .. MaxTicks /\ cutime[k] \in 0 .. MaxHanded
    BY DEF TypeOK, Counts
  <2> QED BY <2>1 DEF Stored
<1> QED BY <1>1 DEF Ticks

\* Process k gains n ticks, and nobody else any.
Gains(k, n) ==
  /\ Ticks'[k] = Ticks[k] + n
  /\ \A j \in Numbers : j # k => Ticks'[j] = Ticks[j]

\* A jiffy adds at most one tick to a process that runs.
LEMMA JiffyGains ==
  ASSUME TypeOK, Times, Tick
  PROVE /\ (idle' = idle + 1 /\ busy' = busy) \/ (idle' = idle /\ busy' = busy + 1)
        /\ Ticks' = Ticks \/ \E p \in Pids : running[p] \in Numbers /\ Gains(running[p], 1)
        /\ utime' \in [Numbers -> Nat] /\ stime' \in [Numbers -> Nat]
        /\ \A k \in Numbers : utime'[k] <= busy' /\ stime'[k] <= busy'
<1>1. /\ utime \in [Numbers -> Nat] /\ stime \in [Numbers -> Nat] /\ cutime \in [Numbers -> Nat]
      /\ busy \in Nat /\ cutime' = cutime
      /\ \A k \in Numbers : utime[k] <= busy /\ stime[k] <= busy
  BY DEF TypeOK, Counts, Times, Tick
<1>2. CASE UNCHANGED <<utime, stime>>
  <2>1. (idle' = idle + 1 /\ busy' = busy) \/ (idle' = idle /\ busy' = busy + 1)
    BY DEF Tick
  <2>2. Ticks' = Ticks
    BY <1>1, <1>2 DEF Ticks
  <2>3. \A k \in Numbers : utime[k] \in Nat /\ stime[k] \in Nat /\ utime[k] <= busy' /\ stime[k] <= busy'
    BY <1>1, <2>1
  <2> QED BY <1>1, <1>2, <2>1, <2>2, <2>3
<1>3. CASE idle' = idle /\ busy' = busy + 1 /\ \E p \in Pids : running[p] # 0 /\ Worked(running[p])
  <2>1. PICK p \in Pids : running[p] # 0 /\ Worked(running[p])
    BY <1>3
  <2> DEFINE k == running[p]
  <2>2. k \in Numbers
    BY <2>1 DEF TypeOK, Numbers
  <2> HIDE DEF k
  <2>3. CASE utime' = [utime EXCEPT ![k] = @ + 1] /\ UNCHANGED stime
    <3>1. utime' \in [Numbers -> Nat] /\ \A j \in Numbers : utime'[j] = IF j = k THEN utime[j] + 1 ELSE utime[j]
      BY <1>1, <2>2, <2>3
    <3>2. Ticks' = Ticks
      BY <1>1, <2>3 DEF Ticks
    <3>3. \A j \in Numbers : utime'[j] <= busy' /\ stime'[j] <= busy'
      BY <1>1, <1>3, <2>3, <3>1
    <3> QED BY <1>1, <1>3, <2>3, <3>1, <3>2, <3>3
  <2>4. CASE stime' = [stime EXCEPT ![k] = @ + 1] /\ UNCHANGED utime
    <3>1. stime' \in [Numbers -> Nat] /\ \A j \in Numbers : stime'[j] = IF j = k THEN stime[j] + 1 ELSE stime[j]
      BY <1>1, <2>2, <2>4
    <3>2. Gains(k, 1)
      BY <1>1, <2>2, <3>1 DEF Ticks, Gains
    <3>3. \A j \in Numbers : utime'[j] <= busy' /\ stime'[j] <= busy'
      BY <1>1, <1>3, <2>4, <3>1
    <3> QED BY <1>1, <1>3, <2>1, <2>2, <2>4, <3>1, <3>2, <3>3 DEF k
  <2> QED BY <2>1, <2>3, <2>4 DEF Worked, k
<1> QED BY <1>2, <1>3 DEF Tick

\* The end of a process adds what is handed on to one other, or nothing.
LEMMA ReapGains ==
  ASSUME TypeOK, Times, NEW q \in Pids, running[q] > 1, Reaped(running[q])
  PROVE /\ handed' \in 0 .. MaxHanded /\ handed' >= handed
        /\ utime' = utime /\ stime' = stime /\ cutime' \in [Numbers -> 0 .. MaxHanded]
        /\ \A k \in Numbers : cutime'[k] <= handed'
        /\ \/ Ticks' = Ticks /\ handed' = handed
           \/ \E p \in Pids, n \in Nat :
                 running[p] \in Numbers /\ Gains(running[p], n) /\ handed' = handed + n
<1> USE SamplingAssumption DEF SamplingAssumption
<1>1. /\ utime \in [Numbers -> Nat] /\ stime \in [Numbers -> Nat] /\ cutime \in [Numbers -> 0 .. MaxHanded]
      /\ handed \in 0 .. MaxHanded /\ \A k \in Numbers : cutime[k] <= handed /\ cutime[k] \in Nat
  BY DEF TypeOK, Counts, Times
<1>2. CASE UNCHANGED times
  BY <1>1, <1>2 DEF times, Ticks
<1>3. CASE ~UNCHANGED times
  <2> DEFINE n == utime[running[q]] + cutime[running[q]]
  <2>1. PICK p \in Pids :
          /\ running[p] # 0 /\ handed + utime[running[q]] + cutime[running[q]] <= MaxHanded
          /\ cutime' = [cutime EXCEPT ![running[p]] = @ + utime[running[q]] + cutime[running[q]]]
          /\ handed' = handed + utime[running[q]] + cutime[running[q]]
          /\ UNCHANGED <<utime, stime>>
    BY <1>3 DEF Reaped
  <2>2. running[p] \in Numbers /\ running[q] \in Numbers
    BY <2>1 DEF TypeOK, Numbers
  <2>3. n \in Nat /\ utime[running[q]] \in Nat /\ cutime[running[q]] \in Nat
    BY <1>1, <2>2
  <2>4. handed + n <= MaxHanded /\ handed' = handed + n
    BY <1>1, <2>1, <2>3
  <2> DEFINE k == running[p]
  <2>5. \A j \in Numbers : cutime'[j] = IF j = k THEN cutime[j] + n ELSE cutime[j]
    BY <1>1, <2>1, <2>2, <2>3
  <2>6. k \in Numbers /\ DOMAIN cutime' = Numbers /\ cutime' = [j \in Numbers |-> cutime'[j]]
    BY <1>1, <2>1, <2>2
  <2> HIDE DEF n, k
  <2>7. \A j \in Numbers : cutime'[j] <= handed' /\ cutime'[j] \in 0 .. MaxHanded
    BY <1>1, <2>3, <2>4, <2>5
  <2>8. Gains(k, n)
    BY <1>1, <2>1, <2>3, <2>5, <2>6 DEF Gains, Ticks
  <2>9. cutime' \in [Numbers -> 0 .. MaxHanded]
    BY <2>6, <2>7
  <2> QED BY <1>1, <2>1, <2>2, <2>3, <2>4, <2>7, <2>8, <2>9 DEF k
<1> QED BY <1>2, <1>3

\* A step of the kernel only adds to the counters, and to none of a process that
\* is yet to be started.
TicksGrow == \A k \in Numbers :
  Ticks[k] \in Nat /\ Ticks'[k] \in Nat /\ Ticks[k] <= Ticks'[k] /\ (k > births => Ticks'[k] = Ticks[k])

LEMMA KernelTicks == ASSUME SamplingInv, Kernel PROVE TicksGrow
<1> USE DEF SamplingInv
<1>1. \A k \in Numbers : Ticks[k] \in Nat
  BY TicksType
<1>2. CASE Ticks' = Ticks
  BY <1>1, <1>2 DEF TicksGrow
<1>3. ASSUME NEW p \in Pids, running[p] \in Numbers, NEW n \in Nat, Gains(running[p], n) PROVE TicksGrow
  <2>1. running[p] <= births /\ running[p] \in Nat /\ births \in Nat
    BY DEF Grows, TypeOK
  <2>2. ASSUME NEW k \in Numbers
        PROVE Ticks'[k] \in Nat /\ Ticks[k] <= Ticks'[k] /\ (k > births => Ticks'[k] = Ticks[k])
    <3>1. k \in Nat /\ Ticks[k] \in Nat
      BY <1>1 DEF Numbers
    <3>2. CASE k = running[p]
      BY <1>3, <2>1, <3>1, <3>2 DEF Gains
    <3>3. CASE k # running[p]
      BY <1>3, <3>1, <3>3 DEF Gains
    <3> QED BY <3>2, <3>3
  <2> QED BY <1>1, <2>2 DEF TicksGrow
<1>4. CASE Tick
  BY <1>2, <1>3, <1>4, JiffyGains
<1>5. CASE ProcessEnds
  <2>1. PICK q \in Pids : running[q] > 1 /\ Reaped(running[q])
    BY <1>5 DEF ProcessEnds
  <2> QED BY <1>2, <1>3, <2>1, ReapGains
<1>6. CASE IowaitBack \/ Fork
  BY <1>2, <1>6 DEF IowaitBack, Fork, times, Ticks
<1> QED BY <1>4, <1>5, <1>6 DEF Kernel

LEMMA GrowsKept ==
  ASSUME SamplingInv, TicksGrow, UNCHANGED <<pc, curr, prev, births>>,
         \A p \in Pids : running'[p] \in {0, running[p]}
  PROVE Grows'
<1> USE SamplingAssumption DEF SamplingAssumption, SamplingInv
<1>1. /\ curr \in Snapshots /\ prev \in Snapshots
      /\ \A p \in DOMAIN prev.procs : p \in Pids
      /\ \A p \in DOMAIN curr.procs : p \in Pids
  BY ProcsAre DEF TypeOK, Snapshots
<1>2. ASSUME NEW k \in Numbers
      PROVE prev.had[k] <= Ticks'[k] /\ curr.had[k] <= Ticks'[k] /\ (k > births => Ticks'[k] = 0)
  <2>1. prev.had[k] \in Nat /\ curr.had[k] \in Nat
    BY <1>1, StoredType DEF Snapshots
  <2> QED BY <2>1 DEF TicksGrow, Grows
<1>3. \A p \in Pids : running'[p] <= births
  BY DEF Grows, TypeOK
<1> QED BY <1>1, <1>2, <1>3 DEF Grows, Collecting

\* A jiffy, a decrease of iowait, a new process and the end of one.
LEMMA KernelStep == ASSUME SamplingInv, Kernel PROVE SamplingInv'
<1> USE SamplingAssumption DEF SamplingAssumption, SamplingInv
<1>1. UNCHANGED <<pc, at, curr, prev, first, delta, whole, ended>>
  BY DEF Kernel, Tick, IowaitBack, Fork, ProcessEnds
<1>2. Walk' /\ Displayed'
  BY <1>1 DEF Walk, Collecting, Displayed, TotalDelta, BusyDelta, ProcDelta
<1>3. /\ curr \in Snapshots /\ prev \in Snapshots
      /\ \A p \in DOMAIN prev.procs : prev.procs[p].number \in Numbers /\ p \in Pids
      /\ \A p \in DOMAIN curr.procs : curr.procs[p].number \in Numbers /\ p \in Pids
  BY ProcsAre DEF TypeOK, Snapshots, Entry
<1>4. CASE Tick
  <2>1. UNCHANGED <<running, cutime, handed, births, drops, due>> /\ Elapsed < MaxTicks
    BY <1>4 DEF Tick
  <2>2. /\ (idle' = idle + 1 /\ busy' = busy) \/ (idle' = idle /\ busy' = busy + 1)
        /\ Ticks' = Ticks \/ \E p \in Pids : running[p] \in Numbers /\ Gains(running[p], 1)
        /\ utime' \in [Numbers -> Nat] /\ stime' \in [Numbers -> Nat]
        /\ \A k \in Numbers : utime'[k] <= busy' /\ stime'[k] <= busy'
    BY <1>4, JiffyGains
  <2>3. TypeOK' /\ Elapsed' = Elapsed + 1
    <3>0. drops' = drops /\ idle \in Nat /\ busy \in Nat /\ drops \in Nat
      BY <2>1 DEF TypeOK, Counts
    <3>1. (idle + busy) + drops < MaxTicks
      BY <2>1 DEF Elapsed, Clock
    <3>2. Elapsed' = Elapsed + 1 /\ idle' \in Counts /\ busy' \in Counts /\ Elapsed' \in Counts
      <4>1. CASE idle' = idle + 1 /\ busy' = busy
        BY <3>0, <3>1, <4>1 DEF Elapsed, Clock, Counts
      <4>2. CASE idle' = idle /\ busy' = busy + 1
        BY <3>0, <3>1, <4>2 DEF Elapsed, Clock, Counts
      <4> QED BY <2>2, <4>1, <4>2
    <3>3. utime' \in [Numbers -> Counts] /\ stime' \in [Numbers -> Counts]
      BY <2>2, <3>2 DEF Counts
    <3> QED BY <1>1, <2>1, <3>2, <3>3 DEF TypeOK
  <2>4. Clocks'
    <3>1. /\ curr.total \in Nat /\ curr.idle \in Nat /\ prev.total \in Nat /\ prev.idle \in Nat
          /\ busy \in Nat /\ (busy' = busy \/ busy' = busy + 1) /\ Elapsed \in Nat /\ prev.began \in Nat
      BY <1>3, <2>2 DEF Snapshots, Counts, TypeOK
    <3>2. /\ prev.total - prev.idle <= busy'
          /\ Collecting => curr.total - curr.idle <= busy'
      BY <3>1 DEF Clocks
    <3>3. whole /\ ~first /\ pc = "cpu" => Elapsed' > prev.began
      BY <2>3, <3>1 DEF Clocks
    <3> QED BY <1>1, <2>1, <3>2, <3>3 DEF Clocks, Collecting
  <2>5. Times' /\ Grows'
    <3>1. Times'
      BY <2>1, <2>2 DEF Times
    <3>2. \A p \in Pids : running'[p] \in {0, running[p]}
      BY <2>1
    <3>3. TicksGrow
      BY KernelTicks
    <3> QED BY <1>1, <2>1, <3>1, <3>2, <3>3, GrowsKept
  <2>6. Due' /\ Found'
    BY <1>1, <2>1 DEF Due, Found, Collecting, Passed
  <2> QED BY <1>2, <2>3, <2>4, <2>5, <2>6
<1>5. CASE IowaitBack
  <2>1. UNCHANGED <<running, utime, stime, cutime, handed, births, busy, due>>
    BY <1>5 DEF IowaitBack, times
  <2>2. idle' \in Counts /\ drops' \in 0 .. MaxDrops /\ Elapsed' = Elapsed /\ drops' # 0
    BY <1>5, <2>1 DEF IowaitBack, TypeOK, Counts, Elapsed, Clock
  <2>3. TypeOK'
    BY <1>1, <2>1, <2>2 DEF TypeOK
  <2>4. Clocks'
    BY <1>1, <2>1, <2>2 DEF Clocks, Collecting
  <2>5. Times' /\ Grows' /\ Due' /\ Found'
    BY <1>1, <2>1 DEF Times, Grows, Ticks, Collecting, Due, Found, Passed
  <2> QED BY <1>2, <2>3, <2>4, <2>5
<1>6. CASE Fork
  <2>1. UNCHANGED <<utime, stime, cutime, handed, idle, busy, drops, due>> /\ births' = births + 1 /\ births < MaxBirths
    BY <1>6 DEF Fork, times
  <2>2. PICK q \in Pids : running[q] = 0 /\ running' = [running EXCEPT ![q] = births + 1]
    BY <1>6 DEF Fork
  <2>3. /\ running' \in [Pids -> 0 .. MaxBirths] /\ births' \in 0 .. MaxBirths
        /\ running'[q] = births' /\ \A p \in Pids : p # q => running'[p] = running[p]
    BY <2>1, <2>2 DEF TypeOK
  <2>4. TypeOK' /\ Elapsed' = Elapsed
    BY <1>1, <2>1, <2>3 DEF TypeOK, Elapsed, Clock
  <2>5. Clocks'
    BY <1>1, <2>1, <2>4 DEF Clocks, Collecting
  <2>6. births' \in Numbers /\ births' > births /\ prev.had[births'] = 0 /\ curr.had[births'] = 0
    <3>1. births' \in Numbers /\ births' > births
      BY <2>1 DEF TypeOK, Numbers
    <3>2. Ticks[births'] = 0 /\ prev.had[births'] <= 0 /\ curr.had[births'] <= 0
      BY <3>1 DEF Grows
    <3>3. prev.had[births'] \in Nat /\ curr.had[births'] \in Nat
      BY <1>3, <3>1, StoredType DEF Snapshots
    <3> QED BY <3>1, <3>2, <3>3
  <2>7. Times' /\ Grows'
    <3>0. Ticks' = Ticks /\ Times'
      BY <2>1 DEF Ticks, Times
    <3>1. ASSUME NEW k \in Numbers, k > births' PROVE Ticks'[k] = 0
      <4>1. k > births
        BY <2>1, <3>1 DEF Numbers, TypeOK
      <4> QED BY <3>0, <4>1 DEF Grows
    <3>2. ASSUME NEW p \in Pids PROVE running'[p] <= births'
      <4>1. running[p] <= births /\ running[p] \in Nat /\ births \in Nat
        BY DEF Grows, TypeOK
      <4> QED BY <2>1, <2>3, <4>1
    <3>3. ASSUME NEW p \in DOMAIN prev.procs, running'[p] \notin {0, prev.procs[p].number}
          PROVE prev.had[running'[p]] = 0
      BY <1>3, <2>3, <2>6, <3>3 DEF Grows
    <3>4. ASSUME NEW p \in DOMAIN curr.procs, running'[p] \notin {0, curr.procs[p].number}
          PROVE curr.had[running'[p]] = 0
      BY <1>3, <2>3, <2>6, <3>4 DEF Grows
    <3> QED BY <1>1, <2>1, <3>0, <3>1, <3>2, <3>3, <3>4 DEF Grows, Collecting
  <2>8. Due' /\ births' \notin due
    BY <2>1, <2>6 DEF Due, TypeOK, Numbers
  <2>9. Found'
    <3>1. ASSUME NEW k \in due, NEW p \in Pids, running[p] = k PROVE running'[p] = k
      BY <2>2, <2>3, <3>1 DEF TypeOK, Numbers
    <3>2. ASSUME NEW p \in Pids, running'[p] \in due PROVE running'[p] = running[p]
      BY <2>3, <2>8, <3>2
    <3> QED BY <1>1, <2>1, <3>1, <3>2 DEF Found, Collecting, Passed
  <2> QED BY <1>2, <2>4, <2>5, <2>7, <2>8, <2>9
<1>7. CASE ProcessEnds
  <2>1. UNCHANGED <<births, idle, busy, drops>>
    BY <1>7 DEF ProcessEnds
  <2>2. PICK q \in Pids : /\ running[q] > 1 /\ Reaped(running[q])
                          /\ running' = [running EXCEPT ![q] = 0]
                          /\ due' = due \ {running[q]}
    BY <1>7 DEF ProcessEnds
  <2>3. /\ running' \in [Pids -> 0 .. MaxBirths] /\ due' \subseteq Numbers
        /\ running'[q] = 0 /\ \A p \in Pids : p # q => running'[p] = running[p]
    BY <2>2 DEF TypeOK
  <2>4. /\ handed' \in 0 .. MaxHanded /\ UNCHANGED <<utime, stime>> /\ cutime' \in [Numbers -> 0 .. MaxHanded]
        /\ \A k \in Numbers : cutime'[k] <= handed'
    BY <2>2, ReapGains
  <2>5. TypeOK' /\ Elapsed' = Elapsed
    BY <1>1, <2>1, <2>3, <2>4 DEF TypeOK, Elapsed, Clock
  <2>6. Clocks' /\ Times'
    BY <1>1, <2>1, <2>4, <2>5 DEF Clocks, Collecting, Times
  <2>9. Grows'
    <3>1. \A p \in Pids : running'[p] \in {0, running[p]}
      BY <2>3
    <3>2. TicksGrow
      BY KernelTicks
    <3> QED BY <1>1, <2>1, <3>1, <3>2, GrowsKept
  <2>7. Due'
    BY <2>1, <2>2 DEF Due
  <2>8. Found'
    <3>1. ASSUME NEW k \in due', NEW p \in Pids, running[p] = k PROVE running'[p] = k
      BY <2>2, <2>3, <3>1
    <3>2. ASSUME NEW p \in Pids, running'[p] \in due' PROVE running'[p] = running[p] /\ running[p] \in due
      BY <2>2, <2>3, <3>2 DEF TypeOK, Numbers
    <3> QED BY <1>1, <2>2, <3>1, <3>2 DEF Found, Collecting, Passed
  <2> QED BY <1>2, <2>5, <2>6, <2>7, <2>8, <2>9
<1> QED BY <1>4, <1>5, <1>6, <1>7 DEF Kernel

\* The steps that leave the two snapshots alone: reading an entry of /proc, the
\* end of the walk, the computation of the delta and the sleep.
LEMMA QuietStep ==
  ASSUME SamplingInv, Readdir \/ EndOfDir \/ DeltaCompute \/ SleepWhole \/ SleepInterrupted
  PROVE SamplingInv'
<1> USE SamplingAssumption DEF SamplingAssumption, SamplingInv, Goto
<1>1. UNCHANGED <<running, utime, stime, cutime, handed, births, idle, busy, drops, curr, prev, first, due>>
  BY DEF Readdir, EndOfDir, DeltaCompute, SleepWhole, SleepInterrupted, kernel, times
<1>2. Elapsed' = Elapsed /\ Ticks' = Ticks /\ Times'
  BY <1>1 DEF Elapsed, Clock, Ticks, Times
<1>3. Due'
  BY <1>1 DEF Due
<1>4. CASE Readdir \/ EndOfDir
  <2>1. /\ UNCHANGED <<delta, whole, ended>> /\ pc = "dir" /\ pc' \in {"stat", "end"}
        /\ pc' = "stat" => at' \in Ahead /\ \A p \in Ahead : at' <= p
        /\ pc' = "end" => at' = at /\ Ahead = {}
    BY <1>4 DEF Readdir, EndOfDir
  <2>2. at' \in Pids \cup {0} /\ (pc' = "stat" => at' \in Pids)
    BY <2>1 DEF Ahead, TypeOK
  <2>3. TypeOK'
    BY <1>1, <1>2, <2>1, <2>2 DEF TypeOK
  <2>4. Walk' /\ Clocks' /\ Grows' /\ Displayed'
    BY <1>1, <1>2, <2>1, <2>2 DEF Walk, Clocks, Grows, Collecting, Displayed
  <2>5. Found'
    <3>1. ASSUME NEW p \in Pids, running[p] \in due, Passed(p)' \/ pc' = "end" PROVE Passed(p)
      <4>1. running[p] # 0 /\ p \in Nat /\ at \in Nat
        BY <3>1 DEF TypeOK, Numbers
      <4>2. CASE pc' = "end"
        BY <2>1, <4>1, <4>2 DEF Ahead, Passed
      <4>3. CASE pc' = "stat"
        <5>1. p < at' /\ at' \in Nat
          BY <2>2, <3>1, <4>3 DEF Passed
        <5>2. p \notin Ahead
          BY <2>1, <4>1, <4>3, <5>1
        <5>3. p <= at
          BY <4>1, <5>2 DEF Ahead
        <5> QED BY <2>1, <4>1, <5>3 DEF Passed
      <4> QED BY <2>1, <4>2, <4>3
    <3> QED BY <1>1, <2>1, <3>1 DEF Found, Collecting
  <2> QED BY <1>2, <1>3, <2>3, <2>4, <2>5
<1>5. CASE DeltaCompute
  <2>1. /\ UNCHANGED <<at, whole>> /\ pc = "end" /\ pc' = "view" /\ ~first /\ ended' = Elapsed + handed
        /\ delta' = [total |-> TotalDelta, busy |-> BusyDelta,
                     procs |-> [p \in DOMAIN curr.procs |-> ProcDelta(p)]]
    BY <1>5 DEF DeltaCompute
  <2>2. delta'.total \in 1 .. Word - 1 /\ delta'.busy \in 0 .. Word - 1
    BY <2>1, DeltaType DEF TypeOK
  <2>3. TypeOK'
    <3>1. Elapsed \in Counts /\ handed \in 0 .. MaxHanded
      BY DEF TypeOK
    <3>2. ended' \in Stored
      BY <2>1, <3>1 DEF Counts, Stored
    <3> QED BY <1>1, <1>2, <2>1, <2>2, <3>2 DEF TypeOK
  <2>4. Walk' /\ Clocks' /\ Grows'
    BY <1>1, <1>2, <2>1 DEF Walk, Clocks, Grows, Collecting
  <2>5. Displayed'
    BY <1>1, <2>1 DEF Displayed, TotalDelta, BusyDelta, ProcDelta
  <2>6. Found'
    BY <1>1, <2>1 DEF Found, Collecting, Passed
  <2> QED BY <1>2, <1>3, <2>3, <2>4, <2>5, <2>6
<1>6. CASE SleepWhole \/ SleepInterrupted
  <2>1. /\ UNCHANGED <<at, delta, ended>> /\ pc = "sleep" /\ pc' = "cpu"
        /\ whole' \in BOOLEAN /\ (whole' => Elapsed > prev.began)
    <3>1. CASE SleepWhole
      BY <1>6, <3>1 DEF SleepWhole
    <3>2. CASE SleepInterrupted
      BY <1>6, <3>2 DEF SleepInterrupted
    <3> QED BY <1>6, <3>1, <3>2
  <2>2. TypeOK'
    BY <1>1, <1>2, <2>1 DEF TypeOK
  <2>3. Walk' /\ Clocks' /\ Grows' /\ Displayed' /\ Found'
    BY <1>1, <1>2, <2>1 DEF Walk, Clocks, Grows, Collecting, Displayed, Found
  <2> QED BY <1>2, <1>3, <2>2, <2>3
<1> QED BY <1>4, <1>5, <1>6

\* The first reading, of the CPU counters.
LEMMA CpuStep == ASSUME SamplingInv, ReadCpu PROVE SamplingInv'
<1> USE SamplingAssumption DEF SamplingAssumption, SamplingInv, Goto
<1>1. /\ UNCHANGED <<running, utime, stime, cutime, handed, births, idle, busy, drops, prev, first, delta, whole, ended>>
      /\ pc = "cpu" /\ pc' = "dir" /\ at' = 0
      /\ due' = {running[p] : p \in Pids} \ {0}
      /\ curr' = [total |-> Clock, idle |-> idle, began |-> Elapsed, handed |-> handed,
                procs |-> Nothing, had |-> Ticks]
  BY DEF ReadCpu, kernel, times
<1>2. Elapsed' = Elapsed /\ Ticks' = Ticks /\ Times'
  BY <1>1 DEF Elapsed, Clock, Ticks, Times
<1>3. Clock \in Counts
  <2>1. /\ idle \in Nat /\ busy \in Nat /\ drops \in Nat
        /\ (idle + busy) + drops <= MaxTicks
    BY DEF TypeOK, Counts, Elapsed, Clock
  <2> QED BY <2>1 DEF Clock, Counts
<1>4. curr' \in Snapshots
  BY <1>1, <1>3, NothingType, TicksType DEF TypeOK, Snapshots
<1>5. due' \subseteq Numbers /\ \A k \in due' : k <= births
  BY <1>1 DEF TypeOK, Numbers, Grows
<1>6. TypeOK'
  BY <1>1, <1>2, <1>4, <1>5 DEF TypeOK
<1>7. Walk' /\ Due' /\ Displayed'
  BY <1>1, <1>5 DEF Walk, Collecting, Due, Displayed
<1>8. Clocks'
  <2>1. drops = 0 => curr'.total = curr'.began
    BY <1>1 DEF Elapsed, Clock, TypeOK, Counts
  <2>2. curr'.total - curr'.idle = busy
    <3>1. curr'.total = idle + busy /\ curr'.idle = idle /\ idle \in Nat /\ busy \in Nat
      BY <1>1 DEF Clock, TypeOK, Counts
    <3> QED BY <3>1
  <2>3. curr'.total - curr'.idle <= busy /\ prev.total - prev.idle <= curr'.total - curr'.idle
    BY <2>2 DEF Clocks, TypeOK, Counts
  <2> QED BY <1>1, <1>2, <2>1, <2>3 DEF Clocks, Collecting
<1>9. Grows'
  <2>1. curr'.had = Ticks /\ DOMAIN curr'.procs = {}
    BY <1>1, NothingType
  <2>2. \A k \in Numbers : Ticks[k] <= Ticks[k]
    BY TicksType
  <2> QED BY <1>1, <1>2, <2>1, <2>2 DEF Grows, Collecting
<1>10. Found'
  <2>1. ASSUME NEW p \in Pids PROVE ~Passed(p)'
    BY <1>1, <2>1 DEF Passed
  <2> QED BY <1>1, <2>1 DEF Found
<1> QED BY <1>2, <1>6, <1>7, <1>8, <1>9, <1>10

\* A process is added to the list, or is gone.
LEMMA StatStep == ASSUME SamplingInv, ReadStat PROVE SamplingInv'
<1> USE SamplingAssumption DEF SamplingAssumption, SamplingInv, Goto
<1>1. /\ UNCHANGED <<running, utime, stime, cutime, handed, births, idle, busy, drops,
                    at, prev, first, delta, whole, ended>>
      /\ pc = "stat" /\ at \in Pids
  BY DEF ReadStat, kernel, times, Walk
<1>2. Elapsed' = Elapsed /\ Ticks' = Ticks /\ Times'
  BY <1>1 DEF Elapsed, Clock, Ticks, Times
<1>3. CASE StatFails
  <2>1. pc' = "dir" /\ curr' = curr /\ due' = due \ {running[at]}
    BY <1>3 DEF StatFails
  <2>2. TypeOK' /\ Walk' /\ Clocks' /\ Grows' /\ Displayed'
    BY <1>1, <1>2, <2>1 DEF TypeOK, Walk, Clocks, Grows, Collecting, Displayed
  <2>3. Due' /\ Found'
    <3>1. ASSUME NEW p \in Pids, running[p] \in due', Passed(p)' PROVE Passed(p)
      BY <1>1, <2>1, <3>1 DEF Passed, TypeOK, Numbers
    <3> QED BY <1>1, <2>1, <3>1 DEF Due, Found, Collecting
  <2> QED BY <1>2, <2>2, <2>3
<1>4. CASE StatRead
  <2>0. running[at] # 0 /\ due' = due /\ Due'
    BY <1>1, <1>4 DEF StatRead, Due
  <2>1. pc' = "status" /\ curr' = [curr EXCEPT !.procs = WithSeen(curr.procs, at)]
    BY <1>4 DEF StatRead
  <2>2. curr \in Snapshots /\ curr.procs \in Procs
    BY DEF TypeOK, Snapshots
  <2>3. /\ WithSeen(curr.procs, at) \in Procs
        /\ DOMAIN WithSeen(curr.procs, at) = DOMAIN curr.procs \cup {at}
        /\ WithSeen(curr.procs, at)[at] = Seen(at)
        /\ \A p \in DOMAIN curr.procs : p # at => WithSeen(curr.procs, at)[p] = curr.procs[p]
        /\ Seen(at) \in Entry
    BY <1>1, <2>0, <2>2, SeenType, TicksType
  <2>4. /\ curr' \in Snapshots /\ curr'.total = curr.total /\ curr'.idle = curr.idle
        /\ curr'.began = curr.began /\ curr'.handed = curr.handed /\ curr'.had = curr.had
        /\ curr'.procs = WithSeen(curr.procs, at)
    BY <2>1, <2>2, <2>3 DEF Snapshots
  <2>5. /\ DOMAIN curr'.procs = DOMAIN curr.procs \cup {at} /\ curr'.procs[at] = Seen(at)
        /\ \A p \in DOMAIN curr.procs : p # at => curr'.procs[p] = curr.procs[p]
    BY <2>3, <2>4
  <2>6. TypeOK'
    BY <1>1, <1>2, <2>0, <2>1, <2>4 DEF TypeOK
  <2>7. Walk' /\ Clocks' /\ Displayed'
    BY <1>1, <1>2, <2>1, <2>4, <2>5 DEF Walk, Clocks, Collecting, Displayed
  <2>8. Grows'
    <3>1. running[at] \in Numbers /\ Seen(at).number = running[at] /\ Seen(at).ticks = Ticks[running[at]]
      BY <1>1, <2>0 DEF TypeOK, Numbers, Seen
    <3>2. \A k \in Numbers : /\ prev'.had[k] <= Ticks'[k] /\ curr'.had[k] <= Ticks'[k]
                             /\ prev'.had[k] <= curr'.had[k] /\ (k > births' => Ticks'[k] = 0)
      BY <1>1, <1>2, <2>4 DEF Grows, Collecting
    <3>3. ASSUME NEW p \in DOMAIN curr'.procs
          PROVE /\ curr'.procs[p].ticks >= curr'.had[curr'.procs[p].number]
                /\ running'[p] \notin {0, curr'.procs[p].number} => curr'.had[running'[p]] = 0
      <4>1. CASE p = at
        BY <1>1, <1>2, <2>4, <2>5, <3>1, <3>2, <4>1, TicksType
      <4>2. CASE p # at
        BY <1>1, <2>4, <2>5, <4>2 DEF Grows
      <4> QED BY <4>1, <4>2
    <3>4. ASSUME NEW p \in DOMAIN prev'.procs \cap DOMAIN curr'.procs,
                 curr'.procs[p].number # prev'.procs[p].number
          PROVE prev'.had[curr'.procs[p].number] = 0
      <4>1. CASE p = at
        BY <1>1, <2>0, <2>5, <3>1, <3>4, <4>1 DEF Grows
      <4>2. CASE p # at
        BY <1>1, <2>5, <3>4, <4>2 DEF Grows
      <4> QED BY <4>1, <4>2
    <3>5. \A p \in Pids : running'[p] <= births'
      BY <1>1 DEF Grows
    <3>6. \A p \in DOMAIN prev'.procs : /\ prev'.procs[p].ticks >= prev'.had[prev'.procs[p].number]
                                        /\ running'[p] \notin {0, prev'.procs[p].number} => prev'.had[running'[p]] = 0
      BY <1>1 DEF Grows
    <3> QED BY <3>2, <3>3, <3>4, <3>5, <3>6 DEF Grows
  <2>9. Found'
    <3>1. ASSUME NEW p \in Pids, Passed(p)' PROVE Passed(p) /\ p # at
      BY <1>1, <2>1, <3>1 DEF Passed, TypeOK
    <3>2. Seen(at).number = running[at]
      BY DEF Seen
    <3> QED BY <1>1, <2>0, <2>1, <2>5, <3>1, <3>2 DEF Found, Collecting
  <2> QED BY <1>2, <2>0, <2>6, <2>7, <2>8, <2>9
<1> QED BY <1>3, <1>4 DEF ReadStat

\* The memory of whoever has the pid by now.
LEMMA StatusStep == ASSUME SamplingInv, ReadStatus PROVE SamplingInv'
<1> USE SamplingAssumption DEF SamplingAssumption, SamplingInv, Goto
<1>1. /\ UNCHANGED <<running, utime, stime, cutime, handed, births, idle, busy, drops,
                    at, prev, first, delta, whole, due, ended>>
      /\ pc = "status" /\ pc' = "dir" /\ at \in Pids /\ at \in DOMAIN curr.procs
  BY DEF ReadStatus, kernel, times, Walk
<1>0. PICK rss \in {0, running[at]} : curr' = [curr EXCEPT !.procs[at].rss = rss]
  BY DEF ReadStatus
<1>2. Elapsed' = Elapsed /\ Due' /\ Ticks' = Ticks /\ Times'
  BY <1>1 DEF Elapsed, Clock, Due, Ticks, Times
<1>3. /\ curr \in Snapshots /\ DOMAIN curr.procs \subseteq Pids
      /\ curr.procs \in [DOMAIN curr.procs -> Entry] /\ rss \in 0 .. MaxBirths
  BY <1>1, <1>0, ProcsAre DEF TypeOK, Snapshots
<1> DEFINE r == [curr.procs[at] EXCEPT !.rss = rss]
           q == [curr.procs EXCEPT ![at] = r]
<1>4. /\ r \in Entry /\ r.number = curr.procs[at].number /\ r.ticks = curr.procs[at].ticks
      /\ r.rss = rss
  BY <1>1, <1>3 DEF Entry
<1>5. /\ DOMAIN q = DOMAIN curr.procs /\ q[at] = r
      /\ \A p \in DOMAIN curr.procs : p # at => q[p] = curr.procs[p]
      /\ q \in [DOMAIN curr.procs -> Entry]
  <2> HIDE DEF r
  <2> QED BY <1>1, <1>3, <1>4
<1>6. curr' = [curr EXCEPT !.procs = q]
  BY <1>0, <1>1
<1> HIDE DEF r, q
<1>7. q \in Procs
  BY <1>3, <1>5, ProcsAre
<1>8. /\ curr' \in Snapshots /\ curr'.total = curr.total /\ curr'.idle = curr.idle
      /\ curr'.began = curr.began /\ curr'.handed = curr.handed /\ curr'.had = curr.had /\ curr'.procs = q
  BY <1>3, <1>6, <1>7 DEF Snapshots
<1>9. /\ DOMAIN curr'.procs = DOMAIN curr.procs
      /\ \A p \in DOMAIN curr.procs :
            /\ curr'.procs[p].number = curr.procs[p].number /\ curr'.procs[p].ticks = curr.procs[p].ticks
            /\ p # at => curr'.procs[p].rss = curr.procs[p].rss
      /\ curr'.procs[at].rss \in {0, running[at]}
  BY <1>0, <1>4, <1>5, <1>8
<1>10. TypeOK'
  BY <1>1, <1>2, <1>8 DEF TypeOK
<1>11. Walk' /\ Clocks' /\ Displayed'
  BY <1>1, <1>2, <1>8 DEF Walk, Clocks, Collecting, Displayed
<1>12. Grows'
  <2>1. \A k \in Numbers : /\ prev'.had[k] <= Ticks'[k] /\ curr'.had[k] <= Ticks'[k]
                           /\ prev'.had[k] <= curr'.had[k] /\ (k > births' => Ticks'[k] = 0)
    BY <1>1, <1>2, <1>8 DEF Grows, Collecting
  <2> QED BY <1>1, <1>8, <1>9, <2>1 DEF Grows
<1>13. Found'
  <2>1. ASSUME NEW p \in Pids, Passed(p)', p # at PROVE Passed(p)
    BY <1>1, <2>1 DEF Passed
  <2> QED BY <1>1, <1>9, <2>1 DEF Found, Collecting
<1> QED BY <1>2, <1>10, <1>11, <1>12, <1>13

\* The snapshot that was collected becomes the previous one.
LEMMA SwapStep == ASSUME SamplingInv, FirstSnapshot \/ Swap PROVE SamplingInv'
<1> USE SamplingAssumption DEF SamplingAssumption, SamplingInv, Goto
<1>1. /\ UNCHANGED <<running, utime, stime, cutime, handed, births, idle, busy, drops, at, whole, due>>
      /\ prev' = curr /\ curr' = EmptySnapshot /\ pc \in {"end", "view"} /\ pc' = "sleep"
      /\ first' \in BOOLEAN
  BY DEF FirstSnapshot, Swap, kernel, times, TypeOK
<1>2. delta'.total \in 1 .. Word - 1 /\ delta'.busy \in 0 .. Word - 1 /\ ended' \in Stored
  <2>1. CASE FirstSnapshot
    BY <2>1 DEF FirstSnapshot, TypeOK
  <2>2. CASE Swap
    BY <2>2 DEF Swap, NoDelta, Stored
  <2> QED BY <2>1, <2>2
<1>3. Elapsed' = Elapsed /\ Due' /\ Ticks' = Ticks /\ Times'
  BY <1>1 DEF Elapsed, Clock, Due, Ticks, Times
<1>4. TypeOK'
  BY <1>1, <1>2, <1>3, EmptyType DEF TypeOK
<1>5. Walk' /\ Found' /\ Displayed'
  BY <1>1 DEF Walk, Found, Displayed, Collecting
<1>6. Clocks'
  BY <1>1, <1>3 DEF Clocks, Collecting, EmptySnapshot
<1>7. Grows'
  <2>1. /\ DOMAIN curr'.procs = {} /\ curr'.had = NoTime
    BY <1>1, NothingType DEF EmptySnapshot
  <2>2. \A k \in Numbers : NoTime[k] = 0 /\ 0 <= Ticks[k]
    BY TicksType DEF NoTime
  <2> QED BY <1>1, <1>3, <2>1, <2>2 DEF Grows, Collecting
<1> QED BY <1>3, <1>4, <1>5, <1>6, <1>7

\* SamplingInv is inductive.
LEMMA SamplingStep == SamplingInv /\ [Next]_vars => SamplingInv'
<1> SUFFICES ASSUME SamplingInv, [Next]_vars PROVE SamplingInv'
  OBVIOUS
<1>1. CASE UNCHANGED vars
  BY <1>1 DEF vars, kernel, times, SamplingInv, TypeOK, Elapsed, Clock, Walk, Clocks, Times, Grows, Ticks, Due, Found,
              Passed, Collecting, Displayed, TotalDelta, BusyDelta, ProcDelta
<1> QED BY <1>1, KernelStep, QuietStep, CpuStep, StatStep, StatusStep, SwapStep DEF Next, Ptop

\* Every variable keeps its type: the processes of a snapshot are processes, and
\* the stored delta never leaves the word.
THEOREM TypeCorrect == Spec => []TypeOK
<1>1. SamplingInv => TypeOK
  BY DEF SamplingInv
<1> QED BY <1>1, SamplingStart, SamplingStep, PTL DEF Spec

\* A process that lives through the whole collection and whose stat file could be
\* read is in the sample, with its own memory size or, its status unreadable, none,
\* whatever else happens or fails while /proc is walked.
THEOREM NobodyLost == Spec => []Complete
<1>1. SamplingInv => Complete
  <2> SUFFICES ASSUME SamplingInv, pc = "end", NEW k \in due
               PROVE \E p \in DOMAIN curr.procs : curr.procs[p].number = k /\ curr.procs[p].rss \in {0, k}
    BY DEF Complete
  <2>1. PICK p \in Pids : running[p] = k
    BY DEF SamplingInv, Found, Collecting
  <2>2. p \in DOMAIN curr.procs /\ curr.procs[p].number = k /\ curr.procs[p].rss \in {0, k}
    BY <2>1 DEF SamplingInv, Found, Collecting
  <2> QED BY <2>2
<1> QED BY <1>1, SamplingStart, SamplingStep, PTL DEF Spec

\* What a process is charged is at most what its counters gained since the previous
\* snapshot began: a predecessor with the same pid is the process itself, or one
\* that the process took the pid over from after that.
LEMMA ChargeBound ==
  ASSUME SamplingInv, pc \in {"end", "view"}, NEW p \in DOMAIN curr.procs
  PROVE /\ ProcDelta(p) \in Nat
        /\ ProcDelta(p) <= curr.procs[p].ticks - prev.had[curr.procs[p].number]
<1> USE SamplingAssumption DEF SamplingAssumption, SamplingInv
<1>1. /\ curr.procs[p].number \in Numbers /\ curr.procs[p].ticks \in Nat /\ curr.procs[p].ticks < Word
      /\ curr.had[curr.procs[p].number] \in Nat /\ prev.had[curr.procs[p].number] \in Nat
      /\ \A q \in DOMAIN prev.procs : prev.procs[q].ticks \in Nat /\ prev.procs[q].ticks < Word
  BY ProcsAre, StoredType DEF TypeOK, Snapshots, Entry
<1>2. prev.had[curr.procs[p].number] <= curr.procs[p].ticks
  BY <1>1 DEF Grows, Collecting
<1>3. CASE p \in DOMAIN prev.procs /\ curr.procs[p].ticks >= prev.procs[p].ticks
  <2>1. prev.had[curr.procs[p].number] <= prev.procs[p].ticks
    <3>1. CASE curr.procs[p].number = prev.procs[p].number
      BY <1>3, <3>1 DEF Grows
    <3>2. CASE curr.procs[p].number # prev.procs[p].number
      <4>1. prev.had[curr.procs[p].number] = 0
        BY <1>3, <3>2 DEF Grows
      <4> QED BY <1>1, <1>3, <4>1
    <3> QED BY <3>1, <3>2
  <2>2. ProcDelta(p) = curr.procs[p].ticks - prev.procs[p].ticks
    <3>1. /\ curr.procs[p].ticks \in Nat /\ prev.procs[p].ticks \in Nat
          /\ curr.procs[p].ticks < Word /\ prev.procs[p].ticks < Word
      BY <1>1, <1>3
    <3>2. Sub(curr.procs[p].ticks, prev.procs[p].ticks) = curr.procs[p].ticks - prev.procs[p].ticks
      BY <1>3, <3>1, SubIs
    <3> QED BY <1>3, <3>2 DEF ProcDelta
  <2> QED BY <1>1, <1>3, <2>1, <2>2
<1>4. CASE ~(p \in DOMAIN prev.procs /\ curr.procs[p].ticks >= prev.procs[p].ticks)
  <2>1. ProcDelta(p) = 0
    BY <1>4 DEF ProcDelta
  <2> QED BY <1>1, <1>2, <2>1
<1> QED BY <1>3, <1>4

\* No process is charged more than its counters gained since the previous
\* collection began, also when its pid belonged to another process then.
THEOREM NobodyOvercharged == Spec => []NoOvercharge
<1>1. SamplingInv => NoOvercharge
  BY ChargeBound DEF NoOvercharge, SamplingInv, Displayed
<1> QED BY <1>1, SamplingStart, SamplingStep, PTL DEF Spec

\* The busy time is exact whenever the two readings differ, even when the kernel
\* took back iowait in between and the unsigned differences wrapped around.
THEOREM BusyExact == Spec => []SystemShare
<1>1. SamplingInv => SystemShare
  <2> SUFFICES ASSUME SamplingInv, pc = "view" PROVE SystemShare
    BY DEF SystemShare
  <2> USE SamplingAssumption DEF SamplingAssumption
  <2>1. /\ curr.total \in 0 .. MaxTicks /\ prev.total \in 0 .. MaxTicks
        /\ curr.idle \in 0 .. MaxTicks /\ prev.idle \in 0 .. MaxTicks
    BY DEF SamplingInv, TypeOK, Snapshots, Counts
  <2>2. delta.total = TotalDelta /\ delta.busy = BusyDelta
    BY DEF SamplingInv, Displayed
  <2>3. whole /\ drops = 0 => curr.total > prev.total
    BY DEF SamplingInv, Clocks, Walk, Collecting
  <2> DEFINE t == Sub(curr.total, prev.total)
             i == Sub(curr.idle, prev.idle)
  <2>4. /\ t = IF curr.total >= prev.total THEN curr.total - prev.total ELSE curr.total - prev.total + Word
        /\ i = IF curr.idle >= prev.idle THEN curr.idle - prev.idle ELSE curr.idle - prev.idle + Word
    <3>1. /\ curr.total < Word /\ prev.total < Word /\ curr.idle < Word /\ prev.idle < Word
          /\ curr.total \in Nat /\ prev.total \in Nat /\ curr.idle \in Nat /\ prev.idle \in Nat
      BY <2>1
    <3> QED BY <3>1, SubIs
  <2>5. ASSUME curr.total # prev.total
        PROVE /\ delta.total = t
              /\ delta.busy = IF t >= i THEN t - i ELSE t - i + Word
    <3>1. t \in Nat /\ i \in Nat /\ t < Word /\ i < Word /\ t # 0
      <4>1. Word \in Nat /\ Word > 2 * MaxTicks /\ MaxTicks \in Nat
        OBVIOUS
      <4> HIDE DEF t, i
      <4> QED BY <2>1, <2>4, <2>5, <4>1
    <3>2. TotalDelta = t
      BY <3>1 DEF TotalDelta
    <3>3. BusyDelta = Sub(t, i)
      BY <3>2 DEF BusyDelta
    <3> HIDE DEF t, i
    <3> QED BY <2>2, <3>1, <3>2, <3>3, SubIs
  <2>6. 0 <= (curr.total - curr.idle) - (prev.total - prev.idle)
    BY <2>1 DEF SamplingInv, Clocks, Collecting
  <2>7. Word \in Nat /\ Word > 2 * MaxTicks /\ MaxTicks \in Nat
    OBVIOUS
  <2> HIDE DEF t, i
  <2>8. ASSUME curr.total # prev.total
        PROVE /\ delta.busy = (curr.total - curr.idle) - (prev.total - prev.idle)
              /\ curr.total > prev.total => delta.total = curr.total - prev.total
              /\ curr.idle >= prev.idle => delta.busy <= delta.total
    <3>1. CASE curr.total > prev.total /\ curr.idle >= prev.idle
      BY <2>1, <2>4, <2>5, <2>6, <2>7, <2>8, <3>1
    <3>2. CASE curr.total > prev.total /\ curr.idle < prev.idle
      BY <2>1, <2>4, <2>5, <2>6, <2>7, <2>8, <3>2
    <3>3. CASE curr.total < prev.total /\ curr.idle >= prev.idle
      BY <2>1, <2>4, <2>5, <2>6, <2>7, <2>8, <3>3
    <3>4. CASE curr.total < prev.total /\ curr.idle < prev.idle
      BY <2>1, <2>4, <2>5, <2>6, <2>7, <2>8, <3>4
    <3> QED BY <2>1, <2>8, <3>1, <3>2, <3>3, <3>4
  <2> QED BY <2>3, <2>8 DEF SystemShare
<1> QED BY <1>1, SamplingStart, SamplingStep, PTL DEF Spec

-----------------------------------------------------------------------------
(***************************************************************************)
(* All charges together.  Every tick that is charged is one that a process *)
(* gained since the previous collection began: the charges are injected    *)
(* into those gains, and the gains into the jiffies that passed or were    *)
(* handed to a reaper.                                                     *)
(***************************************************************************)

\* Nobody has two pids, and nobody is in the list twice: neither under another
\* pid nor with ticks that were not worked.
Distinct ==
  /\ \A p, q \in Pids : running[p] = running[q] /\ running[p] # 0 => p = q
  /\ \A p \in DOMAIN curr.procs :
        LET k == curr.procs[p].number
        IN  /\ k <= births /\ curr.procs[p].ticks <= Ticks[k]
            /\ \A q \in Pids : running[q] = k => q = p
            /\ \A q \in DOMAIN curr.procs : curr.procs[q].number = k => q = p

\* The ticks that were gained since the counters were w, as <<number, tick>>.
Since(w) == {c \in Numbers \X Stored : w[c[1]] < c[2] /\ c[2] <= Ticks[c[1]]}

\* A jiffy is gained by one process at most, and so is what is handed on.
Passing == Elapsed + handed
Timed ==
  /\ Cardinality(Since(prev.had)) <= Passing - (prev.began + prev.handed)
  /\ Collecting => Cardinality(Since(curr.had)) <= Passing - (curr.began + curr.handed)

ChargesInv == SamplingInv /\ Distinct /\ Timed /\ ChargesFit

\* Since(w) is a finite set, and n more ticks of one process add n elements.
LEMMA TicksFinite == ASSUME NEW S \in SUBSET (Numbers \X Stored) PROVE IsFiniteSet(S)
<1> USE SamplingAssumption DEF SamplingAssumption
<1>1. IsFiniteSet(Numbers) /\ IsFiniteSet(Stored)
  BY FS_Interval DEF Numbers, Stored
<1>2. IsFiniteSet(Numbers \X Stored)
  BY <1>1, FS_Product
<1> QED BY <1>2, FS_Subset

LEMMA SinceFinite == ASSUME NEW w PROVE IsFiniteSet(Since(w))
<1>1. Since(w) \subseteq Numbers \X Stored
  BY DEF Since
<1> QED BY <1>1, TicksFinite

LEMMA SinceGrows ==
  ASSUME TypeOK, Times, NEW k \in Numbers, NEW n \in Nat, Gains(k, n), NEW w
  PROVE Cardinality(Since(w)') <= Cardinality(Since(w)) + n
<1> DEFINE S == Since(w)
           T == {c \in Numbers \X Stored : w[c[1]] < c[2] /\ c[2] <= Ticks'[c[1]]}
           N == (Ticks[k] + 1) .. (Ticks[k] + n)
           X == {k} \X N
<1>1. /\ Ticks[k] \in Nat /\ Ticks'[k] = Ticks[k] + n
      /\ \A j \in Numbers : j # k => Ticks'[j] = Ticks[j]
  BY TicksType DEF Gains
<1>2. T \subseteq S \cup X
  <2> SUFFICES ASSUME NEW j \in Numbers, NEW i \in Stored, w[j] < i, i <= Ticks'[j]
               PROVE <<j, i>> \in S \/ <<j, i>> \in X
    OBVIOUS
  <2>1. CASE j # k
    BY <1>1, <2>1 DEF Since
  <2>2. CASE j = k /\ i <= Ticks[k]
    BY <2>2 DEF Since
  <2>3. CASE j = k /\ ~(i <= Ticks[k])
    <3>1. i \in N
      BY <1>1, <2>3, StoredType
    <3> QED BY <2>3, <3>1
  <2> QED BY <2>1, <2>2, <2>3
<1>3. IsFiniteSet(S) /\ Cardinality(S) \in Nat
  BY SinceFinite, FS_CardinalityType
<1>4. IsFiniteSet(N) /\ Cardinality(N) = n
  <2>1. Ticks[k] + 1 \in Int /\ Ticks[k] + n \in Int
    BY <1>1
  <2>2. /\ IsFiniteSet(N)
        /\ Cardinality(N) = IF Ticks[k] + 1 > Ticks[k] + n THEN 0 ELSE (Ticks[k] + n) - (Ticks[k] + 1) + 1
    BY <2>1, FS_Interval
  <2> QED BY <1>1, <2>2
<1>5. IsFiniteSet(X) /\ Cardinality(X) = n
  <2>1. IsFiniteSet({k}) /\ Cardinality({k}) = 1
    BY FS_Singleton
  <2>2. IsFiniteSet(X) /\ Cardinality(X) = Cardinality({k}) * Cardinality(N)
    BY <1>4, <2>1, FS_Product
  <2> QED BY <1>4, <2>1, <2>2
<1>6. Since(w)' = T
  BY DEF Since
<1> HIDE DEF S, T, N, X
<1>7. /\ IsFiniteSet(S \cup X)
      /\ Cardinality(S \cup X) = Cardinality(S) + Cardinality(X) - Cardinality(S \cap X)
  BY <1>3, <1>5, FS_Union
<1>8. Cardinality(S \cap X) \in Nat
  <2>1. S \cap X \subseteq S
    OBVIOUS
  <2> QED BY <1>3, <2>1, FS_Subset, FS_CardinalityType
<1>9. IsFiniteSet(T) /\ Cardinality(T) <= Cardinality(S \cup X) /\ Cardinality(T) \in Nat
  BY <1>2, <1>7, FS_Subset, FS_CardinalityType
<1>10. Cardinality(T) <= Cardinality(S) + n
  BY <1>3, <1>5, <1>7, <1>8, <1>9
<1> QED BY <1>6, <1>10 DEF S

\* The processes that run first are numbered by their pids.
LEMMA ChargesStart == Init => ChargesInv
<1> SUFFICES ASSUME Init PROVE ChargesInv
  OBVIOUS
<1> USE SamplingAssumption DEF SamplingAssumption
<1>1. SamplingInv
  BY SamplingStart
<1>2. /\ pc = "cpu" /\ idle = 0 /\ busy = 0 /\ drops = 0 /\ stime = NoTime /\ cutime = NoTime /\ handed = 0
      /\ curr = EmptySnapshot /\ prev = EmptySnapshot
  BY DEF Init
<1>3. \A p, q \in Pids : running[p] = running[q] /\ running[p] # 0 => p = q
  <2>1. PICK S \in SUBSET Pids :
          running = [p \in Pids |-> IF p \in S THEN Cardinality({q \in S : q <= p}) ELSE 0]
    BY DEF Init
  <2>2. IsFiniteSet(S)
    BY FS_Subset
  <2> DEFINE upto(p) == {r \in S : r <= p}
  <2>3. ASSUME NEW p \in S, NEW q \in S, p < q, Cardinality(upto(p)) = Cardinality(upto(q)) PROVE FALSE
    <3>1. p \in Nat /\ q \in Nat /\ S \subseteq Nat
      OBVIOUS
    <3>2. upto(p) \subseteq upto(q) /\ q \in upto(q) /\ q \notin upto(p) /\ upto(q) \subseteq S
      <4>1. \A r \in S : r \in Nat /\ (r <= p => r <= q)
        BY <2>3, <3>1
      <4>2. q <= q /\ ~(q <= p)
        BY <2>3, <3>1
      <4> QED BY <4>1, <4>2, Zenon
    <3>3. IsFiniteSet(upto(q))
      BY <2>2, <3>2, FS_Subset
    <3> HIDE DEF upto
    <3>4. upto(q) = upto(p)
      BY <2>3, <3>2, <3>3, FS_Subset
    <3> QED BY <3>2, <3>4
  <2> SUFFICES ASSUME NEW p \in Pids, NEW q \in Pids, running[p] = running[q], running[p] # 0, p # q
               PROVE FALSE
    OBVIOUS
  <2>4. /\ p \in S /\ q \in S /\ p \in Nat /\ q \in Nat
        /\ running[p] = Cardinality(upto(p)) /\ running[q] = Cardinality(upto(q))
    BY <2>1
  <2>5. p < q \/ q < p
    BY <2>4
  <2> HIDE DEF upto
  <2> QED BY <2>3, <2>4, <2>5
<1>4. Distinct
  BY <1>2, <1>3, NothingType DEF Distinct, EmptySnapshot
<1>5. Timed
  <2>1. Since(prev.had) = {}
    <3>1. \A k \in Numbers : Ticks[k] = 0
      BY <1>2 DEF NoTime, Ticks
    <3>2. \A k \in Numbers : prev.had[k] = 0
      BY <1>2 DEF EmptySnapshot, NoTime
    <3>3. \A i \in Stored : i \in Nat
      BY StoredType
    <3> QED BY <3>1, <3>2, <3>3 DEF Since
  <2>2. Passing = 0 /\ prev.began = 0 /\ prev.handed = 0
    BY <1>2 DEF Passing, Elapsed, Clock, EmptySnapshot
  <2> QED BY <1>2, <2>1, <2>2, FS_EmptySet DEF Timed, Collecting
<1> QED BY <1>1, <1>2, <1>4, <1>5 DEF ChargesInv, ChargesFit

\* Nobody gets a second pid or a second place in the list.
LEMMA DistinctStep == ASSUME SamplingInv, Distinct, [Next]_vars PROVE Distinct'
<1> USE SamplingAssumption DEF SamplingAssumption
<1>1. /\ births \in Nat /\ running \in [Pids -> 0 .. MaxBirths] /\ \A k \in Numbers : Ticks[k] \in Nat
      /\ \A p \in Pids : running[p] <= births
      /\ \A p \in DOMAIN curr.procs :
            p \in Pids /\ curr.procs[p].number \in Numbers /\ curr.procs[p].ticks \in Nat
  <2>1. curr.procs \in Procs
    BY DEF SamplingInv, TypeOK, Snapshots
  <2>2. DOMAIN curr.procs \subseteq Pids /\ curr.procs \in [DOMAIN curr.procs -> Entry]
    BY <2>1, ProcsAre
  <2> QED BY <2>2, StoredType, TicksType DEF SamplingInv, TypeOK, Grows, Entry
<1>2. CASE Tick
  <2>1. UNCHANGED <<running, births, curr>>
    BY <1>2 DEF Tick
  <2>2. TicksGrow
    BY <1>2, KernelTicks DEF Kernel
  <2>4. ASSUME NEW p \in DOMAIN curr.procs PROVE curr.procs[p].ticks <= Ticks'[curr.procs[p].number]
    BY <1>1, <2>2 DEF Distinct, TicksGrow
  <2> QED BY <2>1, <2>4 DEF Distinct
<1>3. CASE Fork
  <2>1. Ticks' = Ticks /\ UNCHANGED curr /\ births' = births + 1
    BY <1>3 DEF Fork, times, Ticks
  <2>2. PICK q \in Pids : running[q] = 0 /\ running' = [running EXCEPT ![q] = births + 1]
    BY <1>3 DEF Fork
  <2>3. running'[q] = births + 1 /\ \A p \in Pids : p # q => running'[p] = running[p]
    BY <1>1, <2>2
  <2>4. \A p, r \in Pids : running'[p] = running'[r] /\ running'[p] # 0 => p = r
    BY <1>1, <2>3 DEF Distinct
  <2>5. ASSUME NEW p \in DOMAIN curr.procs
        PROVE /\ curr.procs[p].number <= births'
              /\ \A r \in Pids : running'[r] = curr.procs[p].number => r = p
    <3>1. curr.procs[p].number \in Nat /\ curr.procs[p].number <= births
      BY <1>1 DEF Distinct, Numbers
    <3> QED BY <1>1, <2>1, <2>3, <3>1 DEF Distinct
  <2> QED BY <2>1, <2>4, <2>5 DEF Distinct
<1>4. CASE ProcessEnds
  <2>1. UNCHANGED <<curr, births>>
    BY <1>4 DEF ProcessEnds
  <2>2. PICK q \in Pids : running' = [running EXCEPT ![q] = 0]
    BY <1>4 DEF ProcessEnds
  <2>3. running'[q] = 0 /\ \A p \in Pids : p # q => running'[p] = running[p]
    BY <1>1, <2>2
  <2>4. \A p \in DOMAIN curr.procs : curr.procs[p].number # 0
    BY <1>1 DEF Numbers
  <2>5. TicksGrow
    BY <1>4, KernelTicks DEF Kernel
  <2>6. \A p \in DOMAIN curr.procs : curr.procs[p].ticks <= Ticks'[curr.procs[p].number]
    BY <1>1, <2>5 DEF Distinct, TicksGrow
  <2> QED BY <2>1, <2>3, <2>4, <2>6 DEF Distinct
<1>5. CASE ReadStat
  <2>1. UNCHANGED <<running, births, at>> /\ Ticks' = Ticks /\ pc = "stat" /\ at \in Pids
    BY <1>5 DEF ReadStat, kernel, times, Ticks, SamplingInv, Walk
  <2>2. CASE StatFails
    <3>1. curr' = curr
      BY <2>2 DEF StatFails
    <3> QED BY <2>1, <3>1 DEF Distinct
  <2>3. CASE StatRead
    <3>0. running[at] # 0
      BY <2>3 DEF StatRead
    <3>1. curr' = [curr EXCEPT !.procs = WithSeen(curr.procs, at)]
      BY <2>3 DEF StatRead
    <3>2. curr \in Snapshots /\ curr.procs \in Procs
      BY DEF SamplingInv, TypeOK, Snapshots
    <3>3. /\ DOMAIN WithSeen(curr.procs, at) = DOMAIN curr.procs \cup {at}
          /\ WithSeen(curr.procs, at)[at] = Seen(at)
          /\ \A p \in DOMAIN curr.procs : p # at => WithSeen(curr.procs, at)[p] = curr.procs[p]
      BY <2>1, <3>0, <3>2, SeenType, TicksType DEF SamplingInv
    <3>4. curr'.procs = WithSeen(curr.procs, at)
      BY <3>1, <3>2 DEF Snapshots
    <3>5. /\ DOMAIN curr'.procs = DOMAIN curr.procs \cup {at}
          /\ curr'.procs[at].number = running[at] /\ curr'.procs[at].ticks = Ticks[running[at]]
          /\ \A p \in DOMAIN curr.procs : p # at => curr'.procs[p] = curr.procs[p]
      BY <3>3, <3>4 DEF Seen
    <3>6. running[at] \in Numbers /\ Ticks[running[at]] <= Ticks[running[at]]
      <4>3. at \in Pids
        BY <2>1
      <4>4. running[at] \in 0 .. MaxBirths
        BY <1>1, <4>3, Zenon
      <4>1. running[at] \in Numbers
        BY <3>0, <4>4 DEF Numbers
      <4>2. Ticks[running[at]] \in Nat
        BY <1>1, <4>1, Zenon
      <4> QED BY <4>1, <4>2
    <3>7. ASSUME NEW p \in DOMAIN curr'.procs
          PROVE /\ curr'.procs[p].number <= births /\ curr'.procs[p].ticks <= Ticks[curr'.procs[p].number]
                /\ \A q \in Pids : running[q] = curr'.procs[p].number => q = p
                /\ \A q \in DOMAIN curr'.procs : curr'.procs[q].number = curr'.procs[p].number => q = p
      <4>1. CASE p = at
        BY <1>1, <2>1, <3>0, <3>5, <3>6, <4>1 DEF Distinct
      <4>2. CASE p # at
        BY <1>1, <2>1, <3>5, <4>2 DEF Distinct
      <4> QED BY <4>1, <4>2
    <3> QED BY <2>1, <3>7 DEF Distinct
  <2> QED BY <1>5, <2>2, <2>3 DEF ReadStat
<1>6. CASE ReadStatus
  <2>0. PICK rss \in {0, running[at]} : curr' = [curr EXCEPT !.procs[at].rss = rss]
    BY <1>6 DEF ReadStatus
  <2>1. /\ UNCHANGED <<running, births>> /\ Ticks' = Ticks /\ at \in DOMAIN curr.procs
    BY <1>6 DEF ReadStatus, Goto, kernel, times, Ticks, SamplingInv, Walk
  <2>2. curr \in Snapshots /\ curr.procs \in [DOMAIN curr.procs -> Entry]
    BY ProcsAre DEF SamplingInv, TypeOK, Snapshots
  <2> DEFINE r == [curr.procs[at] EXCEPT !.rss = rss]
             q == [curr.procs EXCEPT ![at] = r]
  <2>3. r.number = curr.procs[at].number /\ r.ticks = curr.procs[at].ticks
    BY <2>1, <2>2 DEF Entry
  <2>4. DOMAIN q = DOMAIN curr.procs /\ q[at] = r /\ \A p \in DOMAIN curr.procs : p # at => q[p] = curr.procs[p]
    <3> HIDE DEF r
    <3> QED BY <2>1, <2>2
  <2>5. curr'.procs = q
    BY <2>0, <2>1, <2>2 DEF Snapshots
  <2> HIDE DEF r, q
  <2>6. DOMAIN curr'.procs = DOMAIN curr.procs
    BY <2>4, <2>5
  <2>7. \A p \in DOMAIN curr.procs :
          curr'.procs[p].number = curr.procs[p].number /\ curr'.procs[p].ticks = curr.procs[p].ticks
    BY <2>3, <2>4, <2>5
  <2> QED BY <2>1, <2>6, <2>7 DEF Distinct
<1>7. CASE ReadCpu \/ FirstSnapshot \/ Swap
  <2>1. UNCHANGED <<running, births>> /\ Ticks' = Ticks /\ curr'.procs = Nothing
    BY <1>7 DEF ReadCpu, FirstSnapshot, Swap, kernel, times, Ticks, EmptySnapshot
  <2> QED BY <2>1, NothingType DEF Distinct
<1>8. CASE IowaitBack \/ Readdir \/ EndOfDir \/ DeltaCompute \/ SleepWhole \/ SleepInterrupted \/ UNCHANGED vars
  <2>1. UNCHANGED <<running, births, curr>> /\ Ticks' = Ticks
    BY <1>8 DEF IowaitBack, Readdir, EndOfDir, DeltaCompute, SleepWhole, SleepInterrupted, vars, kernel, times, Ticks
  <2> QED BY <2>1 DEF Distinct
<1> QED BY <1>2, <1>3, <1>4, <1>5, <1>6, <1>7, <1>8 DEF Next, Kernel, Ptop

\* What a process gains has passed or was handed to it, and a reading starts the
\* count anew.
LEMMA TimedStep == ASSUME SamplingInv, Timed, [Next]_vars PROVE Timed'
<1> USE SamplingAssumption DEF SamplingAssumption
<1>1. /\ Passing \in Nat /\ Elapsed \in Nat /\ handed \in Nat
      /\ prev.began + prev.handed \in Nat /\ curr.began + curr.handed \in Nat
      /\ idle \in Nat /\ busy \in Nat /\ drops \in Nat
      /\ Cardinality(Since(prev.had)) \in Nat /\ Cardinality(Since(curr.had)) \in Nat
  <2>1. /\ Elapsed \in 0 .. MaxTicks /\ handed \in 0 .. MaxHanded /\ idle \in 0 .. MaxTicks
        /\ busy \in 0 .. MaxTicks /\ drops \in 0 .. MaxDrops
        /\ prev.began \in 0 .. MaxTicks /\ prev.handed \in 0 .. MaxHanded
        /\ curr.began \in 0 .. MaxTicks /\ curr.handed \in 0 .. MaxHanded
    BY DEF SamplingInv, TypeOK, Snapshots, Counts
  <2>2. Cardinality(Since(prev.had)) \in Nat /\ Cardinality(Since(curr.had)) \in Nat
    BY SinceFinite, FS_CardinalityType
  <2>3. Passing \in Nat
    BY <2>1 DEF Passing
  <2> QED BY <2>1, <2>2, <2>3
<1>2. ASSUME UNCHANGED <<pc, curr, prev>>, NEW n \in Nat, Passing' = Passing + n,
             Ticks' = Ticks \/ \E p \in Pids : running[p] \in Numbers /\ Gains(running[p], n)
      PROVE Timed'
  <2>1. /\ Cardinality(Since(prev.had)') <= Cardinality(Since(prev.had)) + n
        /\ Cardinality(Since(curr.had)') <= Cardinality(Since(curr.had)) + n
    <3>1. CASE Ticks' = Ticks
      <4>1. Since(prev.had)' = Since(prev.had) /\ Since(curr.had)' = Since(curr.had)
        BY <1>2, <3>1 DEF Since
      <4> QED BY <1>1, <4>1
    <3>2. CASE \E p \in Pids : running[p] \in Numbers /\ Gains(running[p], n)
      <4>1. PICK p \in Pids : running[p] \in Numbers /\ Gains(running[p], n)
        BY <3>2
      <4>2. TypeOK /\ Times /\ prev' = prev /\ curr' = curr
        BY <1>2 DEF SamplingInv
      <4> QED BY <4>1, <4>2, SinceGrows
    <3> QED BY <1>2, <3>1, <3>2
  <2>2. Cardinality(Since(prev.had)') \in Nat /\ Cardinality(Since(curr.had)') \in Nat
    <3>1. Since(prev.had)' \subseteq Numbers \X Stored /\ Since(curr.had)' \subseteq Numbers \X Stored
      BY DEF Since
    <3> QED BY <3>1, TicksFinite, FS_CardinalityType
  <2>3. UNCHANGED <<pc, curr, prev>> /\ Passing' = Passing + n
    BY <1>2
  <2> QED BY <1>1, <2>1, <2>2, <2>3 DEF Timed, Collecting
<1>3. CASE Tick
  <2>1. UNCHANGED <<pc, curr, prev, drops, handed>>
    BY <1>3 DEF Tick
  <2>2. /\ (idle' = idle + 1 /\ busy' = busy) \/ (idle' = idle /\ busy' = busy + 1)
        /\ Ticks' = Ticks \/ \E p \in Pids : running[p] \in Numbers /\ Gains(running[p], 1)
    BY <1>3, JiffyGains DEF SamplingInv
  <2>3. Passing' = Passing + 1
    <3>1. CASE idle' = idle + 1 /\ busy' = busy
      BY <1>1, <2>1, <3>1 DEF Elapsed, Clock, Passing
    <3>2. CASE idle' = idle /\ busy' = busy + 1
      BY <1>1, <2>1, <3>2 DEF Elapsed, Clock, Passing
    <3> QED BY <2>2, <3>1, <3>2
  <2> QED BY <1>2, <2>1, <2>2, <2>3
<1>4. CASE ProcessEnds
  <2>1. UNCHANGED <<pc, curr, prev, idle, busy, drops>>
    BY <1>4 DEF ProcessEnds
  <2>2. PICK q \in Pids : running[q] > 1 /\ Reaped(running[q])
    BY <1>4 DEF ProcessEnds
  <2>3. \/ Ticks' = Ticks /\ handed' = handed
        \/ \E p \in Pids, n \in Nat :
              running[p] \in Numbers /\ Gains(running[p], n) /\ handed' = handed + n
    BY <2>2, ReapGains DEF SamplingInv
  <2>4. Elapsed' = Elapsed
    BY <2>1 DEF Elapsed, Clock
  <2>5. CASE Ticks' = Ticks /\ handed' = handed
    <3>1. Passing' = Passing + 0
      BY <1>1, <2>4, <2>5 DEF Passing
    <3> QED BY <1>2, <2>1, <2>5, <3>1
  <2>6. CASE \E p \in Pids, n \in Nat :
               running[p] \in Numbers /\ Gains(running[p], n) /\ handed' = handed + n
    <3>1. PICK p \in Pids, n \in Nat :
            running[p] \in Numbers /\ Gains(running[p], n) /\ handed' = handed + n
      BY <2>6
    <3>2. Passing' = Passing + n
      BY <1>1, <2>4, <3>1 DEF Passing
    <3> QED BY <1>2, <2>1, <3>1, <3>2
  <2> QED BY <2>3, <2>5, <2>6
<1>5. CASE ReadCpu
  <2>1. /\ UNCHANGED <<kernel, prev>>
        /\ curr'.had = Ticks /\ curr'.began + curr'.handed = Passing
    BY <1>5 DEF ReadCpu, Passing
  <2>2. Passing' = Passing /\ Ticks' = Ticks /\ Since(prev.had)' = Since(prev.had)
    BY <2>1 DEF kernel, times, Passing, Elapsed, Clock, Since, Ticks
  <2>3. Since(curr.had)' = {}
    <3>1. \A k \in Numbers : Ticks[k] \in Nat
      BY TicksType DEF SamplingInv
    <3>2. \A k \in Numbers, i \in Stored : ~(Ticks[k] < i /\ i <= Ticks[k])
      BY <3>1, StoredType
    <3> QED BY <2>1, <2>2, <3>2 DEF Since
  <2> QED BY <1>1, <2>1, <2>2, <2>3, FS_EmptySet DEF Timed
<1>6. CASE FirstSnapshot \/ Swap
  <2>1. UNCHANGED kernel /\ prev' = curr /\ Collecting /\ ~Collecting'
    BY <1>6 DEF FirstSnapshot, Swap, Goto, Collecting
  <2>2. Passing' = Passing /\ Since(prev.had)' = Since(curr.had)
    BY <2>1 DEF kernel, times, Passing, Elapsed, Clock, Since, Ticks
  <2> QED BY <2>1, <2>2 DEF Timed
<1>7. CASE ReadStat \/ ReadStatus
  <2>1. /\ UNCHANGED <<kernel, prev>> /\ Collecting
        /\ curr'.had = curr.had /\ curr'.began = curr.began /\ curr'.handed = curr.handed
    <3>1. curr \in Snapshots
      BY DEF SamplingInv, TypeOK
    <3>2. CASE ReadStat
      BY <3>1, <3>2 DEF ReadStat, StatFails, StatRead, Collecting, Snapshots
    <3>3. CASE ReadStatus
      BY <3>1, <3>3 DEF ReadStatus, Goto, Collecting, Snapshots
    <3> QED BY <1>7, <3>2, <3>3
  <2>2. Passing' = Passing /\ Since(prev.had)' = Since(prev.had) /\ Since(curr.had)' = Since(curr.had)
    BY <2>1 DEF kernel, times, Passing, Elapsed, Clock, Since, Ticks
  <2> QED BY <2>1, <2>2 DEF Timed
<1>8. CASE Readdir \/ EndOfDir \/ DeltaCompute \/ Fork \/ IowaitBack
           \/ SleepWhole \/ SleepInterrupted \/ UNCHANGED vars
  <2>1. UNCHANGED <<times, prev, curr>> /\ (Collecting' => Collecting)
    BY <1>8 DEF Readdir, EndOfDir, DeltaCompute, Fork, IowaitBack, SleepWhole, SleepInterrupted,
                Goto, vars, kernel, Collecting
  <2>2. Elapsed' = Elapsed
    <3>1. CASE IowaitBack
      BY <1>1, <3>1 DEF IowaitBack, Elapsed, Clock
    <3>2. CASE ~IowaitBack
      BY <1>8, <3>2 DEF Readdir, EndOfDir, DeltaCompute, Fork, SleepWhole, SleepInterrupted,
                        vars, kernel, Elapsed, Clock
    <3> QED BY <3>1, <3>2
  <2>3. Passing' = Passing /\ Since(prev.had)' = Since(prev.had) /\ Since(curr.had)' = Since(curr.had)
    BY <2>1, <2>2 DEF times, Passing, Since, Ticks
  <2> QED BY <2>1, <2>3 DEF Timed
<1> QED BY <1>3, <1>4, <1>5, <1>6, <1>7, <1>8 DEF Next, Kernel, Ptop

\* At the computation of the delta, the charges are injected into what was
\* gained since the previous snapshot: no tick of a process is charged twice.
LEMMA ChargesInject ==
  ASSUME SamplingInv, Distinct, DeltaCompute
  PROVE Cardinality(Charged)' \in Nat /\ Cardinality(Charged)' <= Cardinality(Since(prev.had))
<1> USE SamplingAssumption DEF SamplingAssumption
<1> DEFINE D == DOMAIN curr.procs
           C == UNION {{p} \X (1 .. ProcDelta(p)) : p \in D}
           S == Since(prev.had)
           k(p) == curr.procs[p].number
           f == [c \in C |-> <<k(c[1]), prev.had[k(c[1])] + c[2]>>]
<1>1. Charged' = C
  <2>1. delta'.procs = [p \in D |-> ProcDelta(p)]
    BY DEF DeltaCompute
  <2> QED BY <2>1 DEF Charged
<1>2. ASSUME NEW p \in D
      PROVE /\ p \in Pids /\ k(p) \in Numbers
            /\ prev.had[k(p)] \in Nat /\ curr.procs[p].ticks \in Stored /\ Ticks[k(p)] \in Nat
            /\ ProcDelta(p) \in Nat
            /\ prev.had[k(p)] + ProcDelta(p) <= curr.procs[p].ticks
            /\ curr.procs[p].ticks <= Ticks[k(p)]
  <2>1. ProcDelta(p) \in Nat /\ ProcDelta(p) <= curr.procs[p].ticks - prev.had[k(p)]
    BY ChargeBound DEF DeltaCompute, Goto
  <2>2. curr.procs \in Procs
    BY DEF SamplingInv, TypeOK, Snapshots
  <2>3. p \in Pids /\ k(p) \in Numbers /\ curr.procs[p].ticks \in Stored
    BY <2>2, ProcsAre DEF Entry
  <2>4. prev.had[k(p)] \in Nat /\ Ticks[k(p)] \in Nat
    BY <2>3, StoredType, TicksType DEF SamplingInv, TypeOK, Snapshots
  <2>5. curr.procs[p].ticks <= Ticks[k(p)]
    BY DEF Distinct
  <2>6. curr.procs[p].ticks \in Nat
    BY <2>3, StoredType
  <2> HIDE DEF k
  <2>7. prev.had[k(p)] + ProcDelta(p) <= curr.procs[p].ticks
    BY <2>1, <2>4, <2>6
  <2> QED BY <2>1, <2>3, <2>4, <2>5, <2>7
<1>3. ASSUME NEW c \in C
      PROVE c[1] \in D /\ c[2] \in 1 .. ProcDelta(c[1]) /\ c = <<c[1], c[2]>>
  <2>1. PICK p \in D : c \in {p} \X (1 .. ProcDelta(p))
    OBVIOUS
  <2> QED BY <2>1
<1>4. \A p, q \in D : k(p) = k(q) => p = q
  BY DEF Distinct
<1> HIDE DEF D, C, k
<1>5. ASSUME NEW c \in C PROVE f[c] \in S
  <2>1. c[1] \in D /\ c[2] \in 1 .. ProcDelta(c[1])
    BY <1>3
  <2>2. /\ k(c[1]) \in Numbers /\ prev.had[k(c[1])] \in Nat /\ Ticks[k(c[1])] \in Nat
        /\ ProcDelta(c[1]) \in Nat /\ curr.procs[c[1]].ticks \in Stored
        /\ prev.had[k(c[1])] + ProcDelta(c[1]) <= curr.procs[c[1]].ticks
        /\ curr.procs[c[1]].ticks <= Ticks[k(c[1])]
    BY <1>2, <2>1
  <2>3. /\ prev.had[k(c[1])] + c[2] \in Stored
        /\ prev.had[k(c[1])] < prev.had[k(c[1])] + c[2]
        /\ prev.had[k(c[1])] + c[2] <= Ticks[k(c[1])]
    BY <2>1, <2>2 DEF Stored
  <2> QED BY <2>2, <2>3 DEF Since
<1>6. ASSUME NEW b \in C, NEW c \in C, f[b] = f[c] PROVE b = c
  <2>1. k(b[1]) = k(c[1]) /\ prev.had[k(b[1])] + b[2] = prev.had[k(c[1])] + c[2]
    BY <1>6
  <2>2. b[1] \in D /\ c[1] \in D /\ b[2] \in 1 .. ProcDelta(b[1]) /\ c[2] \in 1 .. ProcDelta(c[1])
    BY <1>3
  <2>3. b[1] = c[1]
    BY <1>4, <2>1, <2>2
  <2>4. prev.had[k(b[1])] \in Nat
    BY <1>2, <2>2
  <2>5. b[2] = c[2]
    BY <2>1, <2>2, <2>3, <2>4
  <2> QED BY <1>3, <2>3, <2>5
<1>7. f \in [C -> S]
  BY <1>5
<1> HIDE DEF f, S
<1>8. f \in Injection(C, S)
  BY <1>6, <1>7, Zenon DEF Injection, IsInjective
<1>9. IsFiniteSet(S)
  BY SinceFinite DEF S
<1>10. IsFiniteSet(C) /\ Cardinality(C) <= Cardinality(S)
  BY <1>8, <1>9, FS_Injection
<1>11. Cardinality(C) \in Nat
  BY <1>10, FS_CardinalityType
<1> QED BY <1>1, <1>10, <1>11 DEF S

\* ChargesInv is inductive.
LEMMA ChargesStep == ChargesInv /\ [Next]_vars => ChargesInv'
<1> SUFFICES ASSUME ChargesInv, [Next]_vars PROVE ChargesInv'
  OBVIOUS
<1>1. SamplingInv' /\ Distinct' /\ Timed'
  BY SamplingStep, DistinctStep, TimedStep DEF ChargesInv
<1>2. ChargesFit'
  <2> SUFFICES ASSUME pc' = "view" PROVE (Cardinality(Charged) <= ended - (prev.began + prev.handed))'
    BY DEF ChargesFit
  <2>1. CASE DeltaCompute
    <3>1. UNCHANGED prev /\ ended' = Passing
      BY <2>1 DEF DeltaCompute, Passing
    <3>2. Cardinality(Charged)' \in Nat /\ Cardinality(Charged)' <= Cardinality(Since(prev.had))
      BY <2>1, ChargesInject DEF ChargesInv
    <3>3. Cardinality(Since(prev.had)) <= Passing - (prev.began + prev.handed)
      BY DEF ChargesInv, Timed
    <3>4. /\ Cardinality(Since(prev.had)) \in Nat /\ Passing \in Int /\ prev.began + prev.handed \in Nat
      <4>1. /\ Elapsed \in 0 .. MaxTicks /\ handed \in 0 .. MaxHanded
            /\ prev.began \in 0 .. MaxTicks /\ prev.handed \in 0 .. MaxHanded
        BY DEF ChargesInv, SamplingInv, TypeOK, Snapshots, Counts
      <4> QED BY <4>1, SinceFinite, FS_CardinalityType DEF Passing
    <3> QED BY <3>1, <3>2, <3>3, <3>4
  <2>2. CASE Kernel \/ UNCHANGED vars
    <3>1. UNCHANGED <<pc, delta, prev, ended>>
      BY <2>2 DEF Kernel, Tick, IowaitBack, Fork, ProcessEnds, vars
    <3> QED BY <3>1 DEF ChargesInv, ChargesFit, Charged
  <2>3. CASE Ptop /\ ~DeltaCompute
    BY <2>3 DEF Ptop, ReadCpu, Readdir, ReadStat, StatFails, StatRead, ReadStatus, EndOfDir, FirstSnapshot, Swap, SleepWhole,
                SleepInterrupted, Goto
  <2> QED BY <2>1, <2>2, <2>3 DEF Next
<1> QED BY <1>1, <1>2 DEF ChargesInv

\* All charges together fit into the jiffies between the first reading of the
\* previous snapshot and the last of this one and those that reapers took over
\* meanwhile, whoever took over whose pid.
THEOREM ChargesBounded == Spec => []ChargesFit
<1>1. ChargesInv => ChargesFit
  BY DEF ChargesInv
<1> QED BY <1>1, ChargesStart, ChargesStep, PTL DEF Spec
=============================================================================
