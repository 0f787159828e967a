----------------------- MODULE DiagnetCollect_proofs -----------------------
(***************************************************************************)
(* Proofs about DiagnetCollect, for tables of any length, any states,      *)
(* ports and whitelist, and any first capacity.                            *)
(***************************************************************************)
EXTENDS DiagnetCollect, FiniteSetTheorems, TLAPS

\* Sorting keeps the number of records and invents none.
LEMMA SortsType ==
  ASSUME NEW s \in Seq(Conns), NEW t \in Sorts(s)
  PROVE t \in Seq(Conns) /\ Len(t) = Len(s)
<1>1. CASE t = s
  BY <1>1
<1>2. CASE t # s
  <2>1. PICK p \in [DOMAIN s -> DOMAIN s] : t = [i \in DOMAIN s |-> s[p[i]]]
    BY <1>2, Zenon DEF Sorts, Bijection, Injection, Surjection
  <2>2. DOMAIN s = 1 .. Len(s) /\ \A i \in 1 .. Len(s) : s[i] \in Conns
    OBVIOUS
  <2>3. t \in [1 .. Len(s) -> Conns]
    BY <2>1, <2>2
  <2> QED BY <2>3
<1> QED BY <1>1, <1>2

\* An entry read from a table is a connection, and a UDP entry has no state.
LEMMA ConvertType ==
  ASSUME NEW state \in TcpStates, NEW port \in Ports, pc \in Protos
  PROVE /\ Convert(state, port) \in Conns
        /\ (Convert(state, port).proto = "udp") <=> (Convert(state, port).state = "NONE")
BY CollectAssumption DEF CollectAssumption, Convert, Conns, States, Protos

\* Whatever the format, what is printed is a report.
LEMMA DocumentType ==
  ASSUME TypeOK, NEW format \in {"table", "raw", "json"}, NEW quiet \in BOOLEAN
  PROVE Document(format, quiet) \in Reports
<1> DEFINE rows == [i \in DOMAIN records |-> Row(records[i])]
           kind == IF filter.statsOnly /\ format # "json" THEN "stats" ELSE format
           sums == kind \in {"json", "stats"}
           d == Document(format, quiet)
<1>1. rows \in Seq(Rows)
  <2>1. DOMAIN records = 1 .. Len(records) /\ \A i \in 1 .. Len(records) : records[i] \in Conns
    BY DEF TypeOK
  <2>2. \A i \in 1 .. Len(records) : Row(records[i]) \in Rows
    <3>1. \A c \in Conns : Suspicious(c) \in BOOLEAN
      BY Zenon DEF Suspicious
    <3> QED BY <2>1, <3>1 DEF Row, Rows
  <2>3. rows \in [1 .. Len(records) -> Rows]
    BY <2>1, <2>2
  <2> QED BY <2>3 DEF TypeOK
<1>2. kind \in {"none", "table", "raw", "json", "stats"}
  OBVIOUS
<1>3. /\ (IF sums THEN tcpTotal + udpTotal ELSE 0) \in Nat
      /\ (IF kind = "stats" THEN suspicious ELSE 0) \in Nat
  BY DEF TypeOK
<1>4. (IF sums THEN stateCounts ELSE NoStates) \in [States -> Nat]
  BY DEF TypeOK, NoStates
<1>5. (kind = "json" /\ warned) \in BOOLEAN /\ OnStderr(quiet) \in BOOLEAN
  BY Zenon DEF OnStderr
<1>6. d = [kind |-> kind, rows |-> rows, total |-> IF sums THEN tcpTotal + udpTotal ELSE 0,
           states |-> IF sums THEN stateCounts ELSE NoStates,
           suspicious |-> IF kind = "stats" THEN suspicious ELSE 0,
           stdout |-> (kind = "json" /\ warned), stderr |-> OnStderr(quiet)]
  BY DEF Document
<1> HIDE DEF rows, kind, sums, d
<1>7. d \in Reports
  BY <1>1, <1>2, <1>3, <1>4, <1>5, <1>6 DEF Reports
<1> QED BY <1>7 DEF d

\* How far the tables have been read at each point, and that a run which has
\* failed is on its way out.
Progress ==
  /\ pc = "tcp" => ended = {}
  /\ pc = "udp" => ended = {p \in {"tcp"} : Wants(p)}
  /\ (pc \in {"finish", "output"}) \/ printed => ended = {p \in Protos : Wants(p)}
  /\ pc \notin {"out", "exited"} => rc = 0 /\ ~printed
  /\ pc \in {"out", "exited"} => (printed <=> rc = 0)

CollectInv == TypeOK /\ Balanced /\ ListMatchesCounts /\ Progress

\* The three ways in which the entry c of a table is handled.
LEMMA EntryStep ==
  ASSUME CollectInv, NEW c \in Conns, (c.proto = "udp") <=> (c.state = "NONE"),
         Reject(c) \/ Keep(c) \/ KeepFails(c)
  PROVE CollectInv'
<1> USE CollectAssumption DEF CollectAssumption, CollectInv, output
<1>1. lineNo' \in 0 .. MaxLines + 1 /\ seen' \in Seq(Conns) /\ ended' = ended /\ filter' = filter
  <2>1. Show(c) /\ ended' = ended /\ filter' = filter
    BY DEF Reject, Keep, KeepFails
  <2>2. lineNo' \in 0 .. MaxLines + 1
    BY <2>1 DEF Show
  <2>3. seen' = Append(seen, c) /\ seen \in Seq(Conns)
    BY <2>1 DEF Show, TypeOK
  <2> QED BY <2>1, <2>2, <2>3
<1>2. pc \in Protos /\ pc # "exited" /\ pc # "out"
  BY DEF Reject, Keep, KeepFails, Show, Reading, Protos
<1>3. ASSUME Account(c)
      PROVE /\ tcpTotal' \in Nat /\ udpTotal' \in Nat /\ suspicious' \in Nat
            /\ stateCounts' \in [States -> Nat]
            /\ tcpTotal' + udpTotal' = tcpTotal + udpTotal + 1
            /\ Balanced'
  <2>1. /\ c.state \in States /\ c.proto \in {"tcp", "udp"}
        /\ (c.proto = "udp") <=> (c.state = "NONE")
    BY DEF Conns, Protos
  <2>2. "NONE" \in States /\ "LISTEN" \in States /\ "NONE" # "LISTEN"
    BY DEF States
  <2>3. /\ tcpTotal' \in Nat /\ udpTotal' \in Nat /\ suspicious' \in Nat
        /\ stateCounts' \in [States -> Nat]
        /\ tcpTotal' + udpTotal' = tcpTotal + udpTotal + 1
    BY <1>3, <2>1 DEF Account, TypeOK
  <2>4. stateCounts'["NONE"] = udpTotal'
    <3>1. CASE c.state = "NONE"
      BY <3>1, <1>3, <2>1, <2>2 DEF Account, TypeOK, Balanced
    <3>2. CASE c.state # "NONE"
      BY <3>2, <1>3, <2>1, <2>2 DEF Account, TypeOK, Balanced
    <3> QED BY <3>1, <3>2
  <2>5. suspicious' <= stateCounts'["LISTEN"]
    <3>1. CASE c.state = "LISTEN"
      BY <3>1, <1>3, <2>1, <2>2 DEF Account, TypeOK, Balanced
    <3>2. CASE c.state # "LISTEN"
      BY <3>2, <1>3, <2>1, <2>2 DEF Account, Suspicious, TypeOK, Balanced
    <3> QED BY <3>1, <3>2
  <2> QED BY <2>3, <2>4, <2>5 DEF Balanced
<1>4. CASE Reject(c)
  <2>1. UNCHANGED <<pc, tcpTotal, udpTotal, stateCounts, suspicious, records, cap, warned, printed, report, rc>>
    BY <1>4 DEF Reject, result, counters
  <2>2. TypeOK'
    BY <1>1, <2>1 DEF TypeOK
  <2>3. Balanced' /\ ListMatchesCounts'
    BY <1>1, <2>1 DEF Balanced, ListMatchesCounts
  <2> QED BY <1>1, <2>1, <2>2, <2>3 DEF Progress, Wants
<1>5. CASE Keep(c)
  <2>1. CASE filter.statsOnly
    <3>1. records' = records /\ cap' = cap /\ rc' = rc /\ pc' = pc /\ warned' = warned /\ UNCHANGED output
      BY <1>5, <2>1 DEF Keep
    <3> QED BY <1>1, <1>2, <1>3, <1>5, <2>1, <3>1 DEF Keep, TypeOK, ListMatchesCounts, Progress, Wants
  <2>2. CASE ~filter.statsOnly
    <3>1. rc' = rc /\ pc' = pc /\ warned' = warned /\ UNCHANGED output /\ Append1(c)
      BY <1>5, <2>2 DEF Keep
    <3>2. records' \in Seq(Conns) /\ Len(records') = Len(records) + 1
      BY <3>1 DEF Append1, TypeOK
    <3>3. cap' \in Nat /\ Len(records') <= cap'
      BY <3>1, <3>2 DEF Append1, TypeOK
    <3>4. (tcpTotal + udpTotal) - Len(records) \in 0 .. rc
      BY <1>2, <2>2 DEF ListMatchesCounts
    <3>5. (tcpTotal' + udpTotal') - Len(records') \in 0 .. rc'
      BY <3>1, <3>2, <3>4, <1>3, <1>5 DEF Keep, TypeOK
    <3>6. TypeOK' /\ Balanced'
      BY <1>1, <1>3, <1>5, <3>1, <3>2, <3>3 DEF Keep, TypeOK
    <3>7. Progress'
      BY <1>1, <3>1 DEF Progress, Wants
    <3>8. ListMatchesCounts'
      BY <3>5 DEF ListMatchesCounts
    <3> QED BY <3>6, <3>7, <3>8
  <2> QED BY <2>1, <2>2
<1>6. CASE KeepFails(c)
  <2>1. /\ records' = records /\ cap' = cap /\ rc' = 1 /\ pc' = "out"
        /\ warned' = warned /\ UNCHANGED output /\ Account(c) /\ ~filter.statsOnly
    BY <1>6 DEF KeepFails
  <2>2. rc = 0
    BY <1>2 DEF Progress
  <2>3. (tcpTotal' + udpTotal') - Len(records') \in 0 .. rc'
    BY <2>1, <2>2, <1>2, <1>3 DEF ListMatchesCounts, TypeOK
  <2>4. ~printed
    BY <1>2 DEF Progress
  <2>5. TypeOK' /\ Balanced'
    BY <1>1, <1>3, <2>1 DEF TypeOK
  <2>6. ListMatchesCounts'
    BY <2>3 DEF ListMatchesCounts
  <2>7. Progress'
    BY <2>1, <2>4 DEF Progress
  <2> QED BY <2>5, <2>6, <2>7
<1> QED BY <1>4, <1>5, <1>6

\* The steps that read no entry.
LEMMA OtherStep ==
  ASSUME CollectInv,
         SkipTable \/ TableFails \/ EndOfTable \/ SkipLine \/ Finish \/ Output \/ Out \/ UNCHANGED vars
  PROVE CollectInv'
<1> USE CollectAssumption DEF CollectAssumption, CollectInv, result, counters, output
<1>1. CASE SkipTable
  <2>1. /\ UNCHANGED <<filter, tcpTotal, udpTotal, stateCounts, suspicious, records, cap, warned, printed, report, rc, seen, ended>>
        /\ lineNo' = 0 /\ pc' = NextTable /\ pc \in {"tcp", "udp"} /\ ~Wants(pc)
    BY <1>1 DEF SkipTable, Protos
  <2>2. TypeOK' /\ Balanced' /\ ListMatchesCounts'
    BY <2>1 DEF NextTable, TypeOK, Protos, Balanced, ListMatchesCounts
  <2>3. CASE pc = "tcp"
    BY <2>1, <2>2, <2>3 DEF NextTable, Progress, Wants
  <2>4. CASE pc = "udp"
    <3>1. ended' = {p \in Protos : Wants(p)}
      BY <2>1, <2>4 DEF Progress, Wants, Protos
    <3> QED BY <2>1, <2>2, <2>4, <3>1 DEF NextTable, Progress, Wants
  <2> QED BY <2>1, <2>3, <2>4
<1>2. CASE TableFails
  <2>1. rc = 0 /\ ~printed /\ pc # "exited"
    BY <1>2 DEF TableFails, Reading, Progress, Protos
  <2>2. /\ pc' = "out" /\ rc' = 1
        /\ UNCHANGED <<filter, lineNo, tcpTotal, udpTotal, stateCounts, suspicious, records, cap, warned, printed, report, seen, ended>>
    BY <1>2 DEF TableFails
  <2>3. TypeOK' /\ Balanced'
    BY <2>2 DEF TypeOK, Balanced
  <2>4. (~filter.statsOnly) => (tcpTotal + udpTotal) - Len(records) \in 0 .. 1
    BY <2>1 DEF ListMatchesCounts, TypeOK
  <2>5. ListMatchesCounts'
    BY <2>2, <2>4 DEF ListMatchesCounts
  <2>6. Progress'
    BY <2>1, <2>2 DEF Progress
  <2> QED BY <2>3, <2>5, <2>6
<1>3. CASE EndOfTable
  <2>1. /\ UNCHANGED <<filter, tcpTotal, udpTotal, stateCounts, suspicious, records, cap, warned, printed, report, rc, seen>>
        /\ lineNo' = 0 /\ ended' = ended \cup {pc} /\ pc' = NextTable
        /\ pc \in {"tcp", "udp"} /\ Wants(pc)
    BY <1>3 DEF EndOfTable, Reading, Protos
  <2>2. TypeOK' /\ Balanced' /\ ListMatchesCounts'
    BY <2>1 DEF NextTable, TypeOK, Protos, Balanced, ListMatchesCounts
  <2>3. CASE pc = "tcp"
    BY <2>1, <2>2, <2>3 DEF NextTable, Progress, Wants
  <2>4. CASE pc = "udp"
    <3>1. ended' = {p \in Protos : Wants(p)}
      BY <2>1, <2>4 DEF Progress, Wants, Protos
    <3> QED BY <2>1, <2>2, <2>4, <3>1 DEF NextTable, Progress, Wants
  <2> QED BY <2>1, <2>3, <2>4
<1>4. CASE SkipLine
  BY <1>4 DEF SkipLine, TypeOK, Balanced, ListMatchesCounts, Progress, Wants
<1>5. CASE Finish
  <2>1. records' \in Seq(Conns) /\ Len(records') = Len(records)
    BY <1>5, SortsType DEF Finish, TypeOK
  <2>2. warned' \in BOOLEAN
    <3>1. warned' = (stateCounts["TIME_WAIT"] >= ManyTimeWait)
      BY <1>5 DEF Finish, ManyObserved
    <3> QED BY <3>1
  <2>3. UNCHANGED <<filter, lineNo, tcpTotal, udpTotal, stateCounts, suspicious, cap, printed, report, rc, seen, ended>> /\ pc' = "output" /\ pc = "finish"
    BY <1>5 DEF Finish
  <2> QED BY <2>1, <2>2, <2>3 DEF TypeOK, Balanced, ListMatchesCounts, Progress, Wants
<1>6. CASE Output
  <2>1. UNCHANGED <<filter, lineNo, tcpTotal, udpTotal, stateCounts, suspicious, records, cap, warned, rc, seen, ended>> /\ pc' = "out" /\ pc = "output"
    BY <1>6 DEF Output
  <2>2. printed' \in BOOLEAN /\ printed'
    BY <1>6, Zenon DEF Output
  <2>3. report' \in Reports
    BY <1>6, DocumentType DEF Output
  <2> QED BY <2>1, <2>2, <2>3 DEF TypeOK, Balanced, ListMatchesCounts, Progress, Wants
<1>7. CASE Out
  BY <1>7 DEF Out, TypeOK, Balanced, ListMatchesCounts, Progress, Wants
<1>8. CASE UNCHANGED vars
  BY <1>8 DEF vars, TypeOK, Balanced, ListMatchesCounts, Progress, Wants
<1> QED BY <1>1, <1>2, <1>3, <1>4, <1>5, <1>6, <1>7, <1>8

\* CollectInv holds at the start and is preserved.
LEMMA CollectStart == Init => CollectInv
<1> SUFFICES ASSUME Init PROVE CollectInv
  OBVIOUS
<1>1. "NONE" \in States /\ "LISTEN" \in States
  BY CollectAssumption DEF CollectAssumption, States
<1>2. warned \in BOOLEAN /\ printed \in BOOLEAN /\ ~printed /\ ~warned
  BY Zenon DEF Init
<1>3. TypeOK
  <2>1. records \in Seq(Conns) /\ seen \in Seq(Conns) /\ Len(records) = 0
    BY DEF Init
  <2>2. stateCounts \in [States -> Nat] /\ ended \subseteq Protos /\ pc \in Protos
    BY DEF Init, Protos, NoStates
  <2>3. lineNo \in 0 .. MaxLines + 1
    BY CollectAssumption DEF CollectAssumption, Init
  <2>4. report \in Reports
    <3>1. NoStates \in [States -> Nat] /\ <<>> \in Seq(Rows) /\ FALSE \in BOOLEAN /\ 0 \in Nat
      BY DEF NoStates
    <3> QED BY <3>1 DEF Init, Reports
  <2> QED BY <1>2, <2>1, <2>2, <2>3, <2>4 DEF Init, TypeOK
<1>4. Balanced /\ ListMatchesCounts
  <2>1. Len(records) = 0 /\ tcpTotal = 0 /\ udpTotal = 0 /\ rc = 0
    BY DEF Init
  <2>2. stateCounts["NONE"] = 0 /\ stateCounts["LISTEN"] = 0 /\ suspicious = 0
    BY <1>1 DEF Init, NoStates
  <2> QED BY <2>1, <2>2 DEF Balanced, ListMatchesCounts
<1>5. Progress
  BY <1>2 DEF Init, Progress
<1> QED BY <1>3, <1>4, <1>5 DEF CollectInv

LEMMA CollectStep == CollectInv /\ [Next]_vars => CollectInv'
<1> SUFFICES ASSUME CollectInv, [Next]_vars PROVE CollectInv'
  OBVIOUS
<1>1. CASE ReadLine
  <2>1. PICK state \in TcpStates, port \in Ports :
          Reject(Convert(state, port)) \/ Keep(Convert(state, port)) \/ KeepFails(Convert(state, port))
    BY <1>1 DEF ReadLine
  <2>2. pc \in Protos
    BY <2>1 DEF Reject, Keep, KeepFails, Show, Reading
  <2> QED BY <2>1, <2>2, ConvertType, EntryStep
<1>2. CASE ~ReadLine
  BY <1>2, OtherStep DEF Next, Exited
<1> QED BY <1>1, <1>2

LEMMA CollectInvariant == Spec => []CollectInv
BY CollectStart, CollectStep, PTL DEF Spec

\* Every variable keeps its type and no record is ever written beyond the
\* capacity of the array, however long the tables are.
THEOREM TypeCorrect == Spec => []TypeOK
<1>1. CollectInv => TypeOK
  BY DEF CollectInv
<1> QED BY <1>1, CollectInvariant, PTL

\* The counters agree with each other after every entry: UDP is the state
\* NONE, and only listeners are suspicious.
THEOREM CountersBalanced == Spec => []Balanced
<1>1. CollectInv => Balanced
  BY DEF CollectInv
<1> QED BY <1>1, CollectInvariant, PTL

\* The statistics count the entries of the list, whatever allocation fails.
THEOREM StatsMatchList == Spec => []ListMatchesCounts
<1>1. CollectInv => ListMatchesCounts
  BY DEF CollectInv
<1> QED BY <1>1, CollectInvariant, PTL

-----------------------------------------------------------------------------
(* The report is about what the kernel has shown.                          *)

\* What was counted and kept, and that the report is about nothing else.
Tally ==
  /\ tcpTotal + udpTotal = Cardinality(Wanted)
  /\ \A s \in States : stateCounts[s] = Cardinality(InState(s))
  /\ suspicious = Cardinality(Flagged)

Kept ==
  /\ filter.statsOnly => records = <<>>
  /\ ~filter.statsOnly /\ rc = 0 /\ pc # "exited" =>
        \A c \in Conns : Cardinality(Times(records, c)) = Cardinality(Times(seen, c) \cap Wanted)
  /\ pc = "output" => (warned <=> stateCounts["TIME_WAIT"] >= ManyTimeWait) /\ Ordered(records)

ReportInv == CollectInv /\ Tally /\ Kept /\ ReportExact

\* A set that may have got one new element.
LEMMA OneMore ==
  ASSUME NEW S, IsFiniteSet(S), NEW x, x \notin S, NEW T, NEW b \in BOOLEAN,
         T = IF b THEN S \cup {x} ELSE S
  PROVE  Cardinality(T) = Cardinality(S) + (IF b THEN 1 ELSE 0) /\ Cardinality(S) \in Nat
<1>1. Cardinality(S) \in Nat
  BY FS_CardinalityType
<1>2. CASE b
  BY <1>1, <1>2, FS_AddElement
<1>3. CASE ~b
  BY <1>1, <1>3
<1> QED BY <1>1, <1>2, <1>3

\* The places of a sequence are finitely many, and appending adds one.
LEMMA PlacesFinite ==
  ASSUME NEW R, NEW s \in Seq(R), NEW A \in SUBSET DOMAIN s
  PROVE  IsFiniteSet(A)
<1>1. DOMAIN s = 1 .. Len(s) /\ Len(s) \in Nat
  OBVIOUS
<1>2. IsFiniteSet(1 .. Len(s))
  BY <1>1, FS_Interval
<1> QED BY <1>1, <1>2, FS_Subset

LEMMA AppendPlaces ==
  ASSUME NEW R, NEW s \in Seq(R), NEW c \in R
  PROVE  /\ DOMAIN Append(s, c) = DOMAIN s \cup {Len(s) + 1}
         /\ Len(s) + 1 \notin DOMAIN s
         /\ Append(s, c)[Len(s) + 1] = c
         /\ \A i \in DOMAIN s : Append(s, c)[i] = s[i]
OBVIOUS

LEMMA AppendTimes ==
  ASSUME NEW s \in Seq(Conns), NEW c \in Conns, NEW d \in Conns
  PROVE  Cardinality(Times(Append(s, c), d)) = Cardinality(Times(s, d)) + (IF c = d THEN 1 ELSE 0)
<1> DEFINE t == Append(s, c)
           n == Len(s) + 1
<1>1. DOMAIN t = DOMAIN s \cup {n} /\ n \notin DOMAIN s /\ t[n] = c /\ \A i \in DOMAIN s : t[i] = s[i]
  BY AppendPlaces
<1> HIDE DEF t, n
<1>2. Times(t, d) = IF c = d THEN Times(s, d) \cup {n} ELSE Times(s, d)
  BY <1>1 DEF Times
<1>3. n \notin Times(s, d) /\ IsFiniteSet(Times(s, d))
  BY <1>1, PlacesFinite DEF Times
<1>4. Cardinality(Times(t, d)) = Cardinality(Times(s, d)) + (IF c = d THEN 1 ELSE 0)
  <2> DEFINE b == (c = d)
  <2>1. b \in BOOLEAN
    OBVIOUS
  <2> HIDE DEF b
  <2>2. Times(t, d) = IF b THEN Times(s, d) \cup {n} ELSE Times(s, d)
    BY <1>2 DEF b
  <2>3. Cardinality(Times(t, d)) = Cardinality(Times(s, d)) + (IF b THEN 1 ELSE 0)
    BY <1>3, <2>1, <2>2, OneMore
  <2> QED BY <2>3 DEF b
<1> QED BY <1>4 DEF t

\* Exchanging the entries of a list does not change how often one occurs, and
\* the sorted list is in order.
LEMMA SortsKeep ==
  ASSUME NEW s \in Seq(Conns), NEW t \in Sorts(s)
  PROVE  /\ \A c \in Conns : Cardinality(Times(t, c)) = Cardinality(Times(s, c))
         /\ Ordered(t)
<1>1. Ordered(t)
  <2>1. CASE filter.sort = "none"
    BY <2>1 DEF Ordered
  <2>2. CASE filter.sort # "none" /\ Len(s) <= 1
    <3>1. t = s /\ DOMAIN t = 1 .. Len(s) /\ Len(s) \in Nat
      BY <2>2 DEF Sorts
    <3> QED BY <2>2, <3>1 DEF Ordered
  <2>3. CASE filter.sort # "none" /\ ~(Len(s) <= 1)
    BY <2>3 DEF Sorts
  <2> QED BY <2>1, <2>2, <2>3
<1>2. CASE t = s
  BY <1>1, <1>2
<1>3. CASE t # s
  <2>1. PICK p \in Bijection(DOMAIN s, DOMAIN s) : t = [i \in DOMAIN s |-> s[p[i]]]
    BY <1>3, Zenon DEF Sorts
  <2>2. /\ p \in [DOMAIN s -> DOMAIN s]
        /\ \A i, j \in DOMAIN s : p[i] = p[j] => i = j
        /\ \A j \in DOMAIN s : \E i \in DOMAIN s : p[i] = j
    BY <2>1, Zenon DEF Bijection, Injection, IsInjective, Surjection
  <2>3. ASSUME NEW c \in Conns PROVE Cardinality(Times(t, c)) = Cardinality(Times(s, c))
    <3> DEFINE A == Times(t, c)
               B == Times(s, c)
               f == [i \in A |-> p[i]]
    <3>1. A = {i \in DOMAIN s : s[p[i]] = c} /\ B = {i \in DOMAIN s : s[i] = c}
      BY <2>1 DEF Times
    <3>2. IsFiniteSet(A)
      BY <3>1, PlacesFinite
    <3> HIDE DEF A, B
    <3>3. f \in [A -> B]
      BY <2>2, <3>1
    <3>4. f \in Bijection(A, B)
      <4>1. \A i, j \in A : f[i] = f[j] => i = j
        BY <2>2, <3>1
      <4>2. \A j \in B : \E i \in A : f[i] = j
        BY <2>2, <3>1
      <4> HIDE DEF f
      <4> QED BY <3>3, <4>1, <4>2, Zenon DEF Bijection, Injection, IsInjective, Surjection
    <3>5. ExistsBijection(A, B)
      BY <3>4 DEF ExistsBijection
    <3> QED BY <3>2, <3>5, FS_Bijection DEF A, B
  <2> QED BY <1>1, <2>3
<1> QED BY <1>2, <1>3

\* What a new entry of a table does to the sets that are counted.
LEMMA NewEntry ==
  ASSUME TypeOK, NEW c \in Conns, seen' = Append(seen, c), filter' = filter, NEW b \in BOOLEAN,
         Accepted(c) <=> b
  PROVE /\ Cardinality(Wanted)' = Cardinality(Wanted) + (IF b THEN 1 ELSE 0)
        /\ \A s \in States :
              Cardinality(InState(s))' = Cardinality(InState(s)) + (IF b /\ c.state = s THEN 1 ELSE 0)
        /\ Cardinality(Flagged)' = Cardinality(Flagged) + (IF b /\ Suspicious(c) THEN 1 ELSE 0)
        /\ \A d \in Conns :
              Cardinality(Times(seen, d) \cap Wanted)' =
                 Cardinality(Times(seen, d) \cap Wanted) + (IF b /\ c = d THEN 1 ELSE 0)
<1> DEFINE n == Len(seen) + 1
<1>1. /\ DOMAIN seen' = DOMAIN seen \cup {n} /\ n \notin DOMAIN seen /\ seen'[n] = c
      /\ \A i \in DOMAIN seen : seen'[i] = seen[i]
  BY AppendPlaces DEF TypeOK
<1> HIDE DEF n
<1>2. ASSUME NEW x PROVE Accepted(x)' <=> Accepted(x)
  BY DEF Accepted, FilterMatch, Wants
<1>3. /\ Wanted' = IF b THEN Wanted \cup {n} ELSE Wanted
      /\ Wanted \subseteq DOMAIN seen
  BY <1>1, <1>2 DEF Wanted
<1>4. ASSUME NEW S, NEW T, S \subseteq Wanted, NEW a \in BOOLEAN, T = IF a THEN S \cup {n} ELSE S
      PROVE Cardinality(T) = Cardinality(S) + (IF a THEN 1 ELSE 0)
  <2>1. IsFiniteSet(S) /\ n \notin S
    BY <1>1, <1>3, <1>4, PlacesFinite DEF TypeOK
  <2> QED BY <1>4, <2>1, OneMore
<1>5. Cardinality(Wanted)' = Cardinality(Wanted) + (IF b THEN 1 ELSE 0)
  BY <1>3, <1>4
<1>6. ASSUME NEW s \in States
      PROVE Cardinality(InState(s))' = Cardinality(InState(s)) + (IF b /\ c.state = s THEN 1 ELSE 0)
  <2> DEFINE a == b /\ c.state = s
  <2>1. a \in BOOLEAN
    OBVIOUS
  <2>2. InState(s)' = IF a THEN InState(s) \cup {n} ELSE InState(s)
    BY <1>1, <1>3 DEF InState
  <2>3. InState(s) \subseteq Wanted
    BY DEF InState
  <2> HIDE DEF a
  <2>4. Cardinality(InState(s))' = Cardinality(InState(s)) + (IF a THEN 1 ELSE 0)
    BY <1>4, <2>1, <2>2, <2>3
  <2> QED BY <2>4 DEF a
<1>7. Cardinality(Flagged)' = Cardinality(Flagged) + (IF b /\ Suspicious(c) THEN 1 ELSE 0)
  <2> DEFINE a == b /\ Suspicious(c)
  <2>1. a \in BOOLEAN
    OBVIOUS
  <2>2. Flagged' = IF a THEN Flagged \cup {n} ELSE Flagged
    BY <1>1, <1>3 DEF Flagged, Suspicious
  <2>3. Flagged \subseteq Wanted
    BY DEF Flagged
  <2> HIDE DEF a
  <2>4. Cardinality(Flagged)' = Cardinality(Flagged) + (IF a THEN 1 ELSE 0)
    BY <1>4, <2>1, <2>2, <2>3
  <2> QED BY <2>4 DEF a
<1>8. ASSUME NEW d \in Conns
      PROVE Cardinality(Times(seen, d) \cap Wanted)' =
               Cardinality(Times(seen, d) \cap Wanted) + (IF b /\ c = d THEN 1 ELSE 0)
  <2> DEFINE a == b /\ c = d
             S == Times(seen, d) \cap Wanted
  <2>1. a \in BOOLEAN
    OBVIOUS
  <2>2. S' = IF a THEN S \cup {n} ELSE S
    BY <1>1, <1>3 DEF Times
  <2>3. S \subseteq Wanted
    OBVIOUS
  <2> HIDE DEF a
  <2>4. Cardinality(S') = Cardinality(S) + (IF a THEN 1 ELSE 0)
    BY <1>4, <2>1, <2>2, <2>3
  <2> QED BY <2>4 DEF a
<1> QED BY <1>5, <1>6, <1>7, <1>8

\* An entry is counted, and kept, if and only if the report is to be about it.
LEMMA EntryTold ==
  ASSUME ReportInv, NEW c \in Conns, Reject(c) \/ Keep(c) \/ KeepFails(c)
  PROVE  Tally' /\ Kept' /\ ReportExact'
<1> USE DEF ReportInv, CollectInv
<1>1. /\ filter' = filter /\ seen' = Append(seen, c) /\ printed' = printed
      /\ pc \in Protos /\ pc \notin {"exited", "output", "out"}
  BY DEF Reject, Keep, KeepFails, Show, Reading, output, Protos
<1>2. ~printed /\ rc = 0
  BY <1>1 DEF Progress
<1>3. ReportExact'
  BY <1>1, <1>2 DEF ReportExact
<1>4. CASE Reject(c)
  <2>1. ~Accepted(c) /\ UNCHANGED <<pc, tcpTotal, udpTotal, stateCounts, suspicious, records, rc>>
    BY <1>4 DEF Reject, result, counters
  <2>2. /\ Cardinality(Wanted)' = Cardinality(Wanted) + 0
        /\ \A s \in States : Cardinality(InState(s))' = Cardinality(InState(s)) + 0
        /\ Cardinality(Flagged)' = Cardinality(Flagged) + 0
        /\ \A d \in Conns : Cardinality(Times(seen, d) \cap Wanted)' = Cardinality(Times(seen, d) \cap Wanted) + 0
    BY <1>1, <2>1, NewEntry
  <2>3. /\ tcpTotal + udpTotal \in Nat /\ suspicious \in Nat /\ \A s \in States : stateCounts[s] \in Nat
    BY DEF TypeOK
  <2>4. Tally'
    BY <2>1, <2>2, <2>3 DEF Tally
  <2>5. ASSUME ~filter.statsOnly, NEW d \in Conns
        PROVE (Cardinality(Times(records, d)) = Cardinality(Times(seen, d) \cap Wanted))'
    <3>1. Cardinality(Times(records, d)) = Cardinality(Times(seen, d) \cap Wanted)
      BY <1>1, <1>2, <2>5 DEF Kept
    <3>2. IsFiniteSet(Times(records, d))
      BY PlacesFinite DEF TypeOK, Times
    <3>3. Cardinality(Times(records, d)) \in Nat
      BY <3>2, FS_CardinalityType
    <3>4. Times(records, d)' = Times(records, d)
      BY <2>1
    <3> QED BY <2>2, <3>1, <3>3, <3>4
  <2>6. Kept'
    <3>1. filter.statsOnly => records' = <<>>
      BY <2>1 DEF Kept
    <3> QED BY <1>1, <2>1, <2>5, <3>1 DEF Kept
  <2> QED BY <1>3, <2>4, <2>6
<1>5. CASE Keep(c) \/ KeepFails(c)
  <2>1. Accepted(c) /\ Account(c)
    BY <1>5 DEF Keep, KeepFails
  <2>2. /\ Cardinality(Wanted)' = Cardinality(Wanted) + 1
        /\ \A s \in States : Cardinality(InState(s))' = Cardinality(InState(s)) + (IF c.state = s THEN 1 ELSE 0)
        /\ Cardinality(Flagged)' = Cardinality(Flagged) + (IF Suspicious(c) THEN 1 ELSE 0)
        /\ \A d \in Conns : Cardinality(Times(seen, d) \cap Wanted)' =
                              Cardinality(Times(seen, d) \cap Wanted) + (IF c = d THEN 1 ELSE 0)
    BY <1>1, <2>1, NewEntry
  <2>3. c.state \in States /\ c.proto \in {"tcp", "udp"}
    BY DEF Conns, Protos
  <2>4. Tally'
    <3>1. tcpTotal' + udpTotal' = (tcpTotal + udpTotal) + 1
      BY <2>1, <2>3 DEF Account, TypeOK
    <3>2. \A s \in States : stateCounts'[s] = stateCounts[s] + (IF c.state = s THEN 1 ELSE 0)
      BY <2>1, <2>3 DEF Account, TypeOK
    <3>3. suspicious' = suspicious + (IF Suspicious(c) THEN 1 ELSE 0)
      BY <2>1 DEF Account
    <3> QED BY <2>2, <3>1, <3>2, <3>3 DEF Tally
  <2>5. CASE KeepFails(c)
    <3>1. pc' = "out" /\ rc' = 1 /\ records' = records /\ ~filter.statsOnly
      BY <2>5 DEF KeepFails
    <3>2. Kept'
      BY <1>1, <3>1 DEF Kept
    <3> QED BY <1>3, <2>4, <3>2
  <2>6. CASE Keep(c) /\ filter.statsOnly
    <3>1. pc' = pc /\ records' = records
      BY <2>6 DEF Keep
    <3>2. Kept'
      BY <1>1, <2>6, <3>1 DEF Kept
    <3> QED BY <1>3, <2>4, <3>2
  <2>7. CASE Keep(c) /\ ~filter.statsOnly
    <3>1. pc' = pc /\ records' = Append(records, c) /\ records \in Seq(Conns)
      BY <2>7 DEF Keep, Append1, TypeOK
    <3>2. ASSUME NEW d \in Conns
          PROVE (Cardinality(Times(records, d)) = Cardinality(Times(seen, d) \cap Wanted))'
      <4>1. Cardinality(Times(records, d)) = Cardinality(Times(seen, d) \cap Wanted)
        BY <1>1, <1>2, <2>7 DEF Kept
      <4>2. Cardinality(Times(records', d)) = Cardinality(Times(records, d)) + (IF c = d THEN 1 ELSE 0)
        BY <3>1, AppendTimes
      <4>3. Cardinality(Times(records, d))' = Cardinality(Times(records', d))
        BY DEF Times
      <4> QED BY <2>2, <4>1, <4>2, <4>3
    <3>3. Kept'
      BY <1>1, <2>7, <3>1, <3>2 DEF Kept
    <3> QED BY <1>3, <2>4, <3>3
  <2> QED BY <1>5, <2>5, <2>6, <2>7
<1> QED BY <1>4, <1>5

\* The steps that show no entry leave the counts as they are.
LEMMA NothingShown ==
  ASSUME UNCHANGED <<filter, seen>>
  PROVE /\ Wanted' = Wanted /\ Flagged' = Flagged
        /\ \A s : InState(s)' = InState(s)
        /\ \A d : (Times(seen, d) \cap Wanted)' = Times(seen, d) \cap Wanted
<1>1. Wanted' = Wanted
  BY DEF Wanted, Accepted, FilterMatch, Wants, Suspicious
<1> QED BY <1>1 DEF InState, Flagged, Times, Suspicious

\* What the report says when it is printed.
LEMMA ReportTold ==
  ASSUME ReportInv, Output
  PROVE  ReportExact'
<1> USE DEF ReportInv, CollectInv
<1>1. /\ UNCHANGED <<filter, seen, tcpTotal, udpTotal, stateCounts, suspicious, records>>
      /\ pc = "output"
  BY DEF Output, result, counters
<1>2. rc = 0
  BY <1>1 DEF Progress
<1>3. PICK format \in {"table", "raw", "json"}, quiet \in BOOLEAN : report' = Document(format, quiet)
  BY DEF Output
<1> DEFINE kind == IF filter.statsOnly /\ format # "json" THEN "stats" ELSE format
<1>4. /\ report'.kind = kind
      /\ report'.rows = [i \in DOMAIN records |-> Row(records[i])]
      /\ kind \in {"json", "stats"} => report'.total = tcpTotal + udpTotal /\ report'.states = stateCounts
      /\ kind = "stats" => report'.suspicious = suspicious
      /\ report'.stdout <=> kind = "json" /\ warned
      /\ report'.stderr <=> OnStderr(quiet)
  BY <1>3 DEF Document
<1> HIDE DEF kind
<1>5. records \in Seq(Conns) /\ DOMAIN records = 1 .. Len(records)
  BY DEF TypeOK
<1>6. Listed' = records
  <2>1. Listed' = [i \in DOMAIN records |-> records[i]]
    BY <1>4 DEF Listed, Row
  <2> QED BY <1>5, <2>1
<1>7. Ordered(Listed)'
  <2>1. Ordered(records)
    BY <1>1 DEF Kept
  <2> QED BY <1>1, <1>6, <2>1 DEF Ordered
<1>8. ASSUME NEW c \in Conns
      PROVE Cardinality(Times(Listed', c)) =
               IF filter.statsOnly THEN 0 ELSE Cardinality(Times(seen, c) \cap Wanted)
  <2>1. CASE filter.statsOnly
    <3>1. Times(records, c) = {}
      BY <2>1 DEF Kept, Times
    <3> QED BY <1>6, <2>1, <3>1, FS_EmptySet
  <2>2. CASE ~filter.statsOnly
    BY <1>1, <1>2, <1>6, <2>2 DEF Kept
  <2> QED BY <2>1, <2>2
<1>9. warned <=> Cardinality(InState("TIME_WAIT")) >= ManyTimeWait
  <2>1. "TIME_WAIT" \in States
    BY CollectAssumption DEF CollectAssumption, States
  <2> QED BY <1>1, <2>1 DEF Kept, Tally
<1>10. /\ Wanted' = Wanted /\ Flagged' = Flagged /\ \A s : InState(s)' = InState(s)
       /\ \A c : (Times(seen, c) \cap Wanted)' = Times(seen, c) \cap Wanted
  BY <1>1, NothingShown
<1>11. \A c \in Conns : (Cardinality(Times(Listed, c)) =
                            IF filter.statsOnly THEN 0 ELSE Cardinality(Times(seen, c) \cap Wanted))'
  <2>1. \A c : Times(Listed, c)' = Times(Listed', c)
    BY DEF Times
  <2> QED BY <1>1, <1>8, <1>10, <2>1
<1>12. (report.kind \in {"json", "stats"} =>
          /\ report.total = Cardinality(Wanted)
          /\ \A s \in States : report.states[s] = Cardinality(InState(s)))'
  BY <1>4, <1>10 DEF Tally
<1>13. (LET many == Cardinality(InState("TIME_WAIT")) >= ManyTimeWait
        IN  (report.kind = "json" => (report.stdout <=> many)) /\ (report.stderr => many))'
  BY <1>4, <1>9, <1>10 DEF OnStderr
<1>14. (report.kind = "stats" => report.suspicious = Cardinality(Flagged))'
  BY <1>4, <1>10 DEF Tally
<1> QED BY <1>7, <1>11, <1>12, <1>13, <1>14 DEF ReportExact

\* The steps that read no entry.
LEMMA OtherTold ==
  ASSUME ReportInv,
         SkipTable \/ TableFails \/ EndOfTable \/ SkipLine \/ Finish \/ Output \/ Out \/ UNCHANGED vars
  PROVE  Tally' /\ Kept' /\ ReportExact'
<1> USE DEF ReportInv, CollectInv
<1>1. UNCHANGED <<filter, seen, tcpTotal, udpTotal, stateCounts, suspicious>>
  BY DEF SkipTable, TableFails, EndOfTable, SkipLine, Finish, Output, Out, vars, result, counters
<1>2. /\ Wanted' = Wanted /\ Flagged' = Flagged /\ \A s : InState(s)' = InState(s)
      /\ \A d : (Times(seen, d) \cap Wanted)' = Times(seen, d) \cap Wanted
  BY <1>1, NothingShown
<1>3. Tally'
  BY <1>1, <1>2 DEF Tally
<1>4. ASSUME UNCHANGED <<printed, report>> PROVE ReportExact'
  <2>1. Listed' = Listed /\ \A s : Ordered(s)' <=> Ordered(s)
    BY <1>1, <1>4 DEF Listed, Ordered
  <2>2. Ordered(Listed)' <=> Ordered(Listed)
    BY <1>1, <2>1 DEF Ordered
  <2>3. \A c : Times(Listed, c)' = Times(Listed, c)
    BY <2>1 DEF Times
  <2> QED BY <1>1, <1>2, <1>4, <2>2, <2>3 DEF ReportExact
<1>5. CASE Finish
  <2>1. /\ records' \in Sorts(records) /\ records \in Seq(Conns) /\ pc = "finish" /\ pc' = "output"
        /\ UNCHANGED <<printed, report, rc>> /\ (warned' <=> stateCounts["TIME_WAIT"] >= ManyTimeWait)
    BY <1>5 DEF Finish, ManyObserved, output, TypeOK
  <2>2. /\ \A c \in Conns : Cardinality(Times(records', c)) = Cardinality(Times(records, c))
        /\ Ordered(records') /\ Len(records') = Len(records) /\ records' \in Seq(Conns)
    BY <2>1, SortsKeep, SortsType
  <2>3. Ordered(records)'
    BY <1>1, <2>2 DEF Ordered
  <2>4. filter.statsOnly => records' = <<>>
    BY <2>1, <2>2 DEF Kept
  <2>5. ASSUME ~filter.statsOnly, rc = 0, NEW c \in Conns
        PROVE Cardinality(Times(records', c)) = Cardinality(Times(seen, c) \cap Wanted)
    BY <2>1, <2>2, <2>5 DEF Kept
  <2>6. \A c : Times(records, c)' = Times(records', c)
    BY DEF Times
  <2>7. Kept'
    BY <1>1, <1>2, <2>1, <2>3, <2>4, <2>5, <2>6 DEF Kept
  <2> QED BY <1>3, <1>4, <2>1, <2>7
<1>6. CASE Output
  <2>1. pc = "output" /\ pc' = "out" /\ UNCHANGED <<records, rc>>
    BY <1>6 DEF Output, result
  <2>2. \A c : Times(records, c)' = Times(records, c)
    BY <2>1 DEF Times
  <2>3. Kept'
    BY <1>1, <1>2, <2>1, <2>2 DEF Kept
  <2> QED BY <1>3, <1>6, <2>3, ReportTold
<1>7. CASE Out
  <2>1. pc' = "exited" /\ records' = <<>> /\ UNCHANGED <<printed, report>>
    BY <1>7 DEF Out, output
  <2>2. Kept'
    BY <2>1 DEF Kept
  <2> QED BY <1>3, <1>4, <2>1, <2>2
<1>8. CASE TableFails
  <2>1. pc' = "out" /\ rc' = 1 /\ UNCHANGED <<records, printed, report>> /\ pc \in Protos
    BY <1>8 DEF TableFails, result, output, Reading
  <2>2. Kept'
    BY <1>1, <2>1 DEF Kept
  <2> QED BY <1>3, <1>4, <2>1, <2>2
<1>9. CASE SkipTable \/ EndOfTable \/ SkipLine \/ UNCHANGED vars
  <2>1. /\ UNCHANGED <<records, printed, report, rc>>
        /\ (pc' = "exited" <=> pc = "exited")
        /\ pc' = "output" => pc = "output" /\ warned' = warned
    BY <1>9 DEF SkipTable, EndOfTable, SkipLine, vars, result, output, NextTable, Reading, Protos
  <2>2. \A c : Times(records, c)' = Times(records, c)
    BY <2>1 DEF Times
  <2>3. Ordered(records)' <=> Ordered(records)
    BY <1>1, <2>1 DEF Ordered
  <2>4. Kept'
    BY <1>1, <1>2, <2>1, <2>2, <2>3 DEF Kept
  <2> QED BY <1>3, <1>4, <2>1, <2>4
<1> QED BY <1>5, <1>6, <1>7, <1>8, <1>9

\* What is printed is what the kernel showed and the options accept, each entry
\* once and counted once, in the order asked for, whatever fails and however
\* long the tables are.
THEOREM ReportIsExact == Spec => []ReportExact
<1>1. Init => ReportInv
  <2> SUFFICES ASSUME Init PROVE ReportInv
    OBVIOUS
  <2>1. seen = <<>> /\ records = <<>> /\ pc = "tcp" /\ ~printed
    BY DEF Init
  <2>2. DOMAIN seen = {} /\ DOMAIN records = {}
    BY <2>1
  <2>3. Wanted = {} /\ Flagged = {} /\ (\A s : InState(s) = {}) /\ (\A c : Times(records, c) = {} /\ Times(seen, c) \cap Wanted = {})
    BY <2>2 DEF Wanted, Flagged, InState, Times
  <2>4. Tally
    <3>1. /\ tcpTotal = 0 /\ udpTotal = 0 /\ suspicious = 0 /\ \A s \in States : stateCounts[s] = 0
      BY DEF Init, NoStates
    <3>2. /\ Cardinality(Wanted) = 0 /\ Cardinality(Flagged) = 0
          /\ \A s \in States : Cardinality(InState(s)) = 0
      <4>1. Cardinality({}) = 0
        BY FS_EmptySet
      <4> QED BY <2>3, <4>1
    <3> QED BY <3>1, <3>2 DEF Tally
  <2>5. Kept /\ ReportExact
    BY <2>1, <2>3 DEF Kept, ReportExact
  <2> QED BY <2>4, <2>5, CollectStart DEF ReportInv
<1>2. ReportInv /\ [Next]_vars => ReportInv'
  <2> SUFFICES ASSUME ReportInv, [Next]_vars PROVE ReportInv'
    OBVIOUS
  <2>1. CollectInv'
    BY CollectStep DEF ReportInv
  <2>2. CASE ReadLine
    <3>1. PICK state \in TcpStates, port \in Ports :
            Reject(Convert(state, port)) \/ Keep(Convert(state, port)) \/ KeepFails(Convert(state, port))
      BY <2>2 DEF ReadLine
    <3>2. pc \in Protos
      BY <3>1 DEF Reject, Keep, KeepFails, Show, Reading
    <3>3. Convert(state, port) \in Conns
      BY <3>2, ConvertType
    <3> QED BY <2>1, <3>1, <3>3, EntryTold DEF ReportInv
  <2>3. CASE ~ReadLine
    BY <2>1, <2>3, OtherTold DEF Next, Exited, ReportInv
  <2> QED BY <2>2, <2>3
<1>3. ReportInv => ReportExact
  BY DEF ReportInv
<1> QED BY <1>1, <1>2, <1>3, PTL DEF Spec

-----------------------------------------------------------------------------
(* diagnet implements DiagReport.                                          *)

\* A run that is going to return 1 has not confirmed.
FailedEarly == pc = "out" /\ rc = 1 => ~Confirmed

\* A table that is being read has not been read to its end.
LEMMA StillMeasuring ==
  ASSUME CollectInv, Reading
  PROVE ~Confirmed
<1>1. pc \in {"tcp", "udp"} /\ Wants(pc) /\ pc \in Protos /\ pc \in {p \in Protos : Wants(p)}
  BY DEF Reading, Protos
<1>2. pc \notin ended
  BY <1>1 DEF CollectInv, Progress
<1> QED BY <1>1, <1>2 DEF Confirmed

\* The steps as DiagReport sees them.
ReportStep ==
  \/ pc # "exited" /\ pc' # "exited" /\ (Confirmed => Confirmed') /\ printed' = printed
  \/ pc # "exited" /\ pc' # "exited" /\ Confirmed /\ Confirmed' /\ printed'
  \/ pc # "exited" /\ pc' = "exited" /\ ~Confirmed /\ rc' = 1 /\ printed' = printed
  \/ pc # "exited" /\ pc' = "exited" /\ Confirmed /\ rc' = 0 /\ printed' = printed
  \/ UNCHANGED vars

LEMMA ConfirmStep ==
  ASSUME CollectInv, FailedEarly, [Next]_vars
  PROVE FailedEarly' /\ ReportStep
<1> USE DEF FailedEarly, ReportStep, result, counters, output
<1>1. CASE SkipTable \/ SkipLine \/ Finish
  <2>1. /\ UNCHANGED <<filter, ended, printed>> /\ pc # "exited" /\ pc' # "exited" /\ pc' # "out"
    BY <1>1 DEF SkipTable, SkipLine, Finish, Protos, NextTable, Reading
  <2>2. Confirmed' = Confirmed
    BY <2>1 DEF Confirmed, Wants
  <2> QED BY <2>1, <2>2
<1>2. CASE EndOfTable
  <2>1. /\ UNCHANGED <<filter, printed>> /\ pc # "exited" /\ pc' # "exited" /\ pc' # "out"
        /\ Reading
    BY <1>2 DEF EndOfTable, Reading, Protos, NextTable
  <2> QED BY <2>1, StillMeasuring
<1>3. CASE TableFails
  <2>1. /\ UNCHANGED <<filter, ended, printed>> /\ pc # "exited" /\ pc' # "exited" /\ Reading
    BY <1>3 DEF TableFails, Reading, Protos
  <2>2. ~Confirmed /\ ~Confirmed'
    BY <2>1, StillMeasuring DEF Confirmed, Wants
  <2> QED BY <2>1, <2>2
<1>4. CASE ReadLine
  <2>1. /\ UNCHANGED <<filter, ended, printed>> /\ pc # "exited" /\ pc' # "exited" /\ Reading
    BY <1>4 DEF ReadLine, Reject, Keep, KeepFails, Show, Reading, Protos
  <2>2. ~Confirmed /\ ~Confirmed'
    BY <2>1, StillMeasuring DEF Confirmed, Wants
  <2> QED BY <2>1, <2>2
<1>5. CASE Output
  <2>1. UNCHANGED <<filter, ended, rc>> /\ pc = "output" /\ pc' = "out"
    BY <1>5 DEF Output
  <2>2. printed'
    BY <1>5 DEF Output
  <2>3. rc' = 0 /\ Confirmed /\ Confirmed'
    BY <2>1 DEF CollectInv, Progress, Confirmed, Wants
  <2> QED BY <2>1, <2>2, <2>3
<1>6. CASE Out
  <2>1. UNCHANGED <<filter, ended, rc, printed>> /\ pc = "out" /\ pc' = "exited"
    BY <1>6 DEF Out
  <2>2. CASE rc = 0
    <3>1. Confirmed
      BY <2>1, <2>2 DEF CollectInv, Progress, Confirmed
    <3> QED BY <2>1, <2>2, <3>1
  <2>3. CASE rc = 1
    BY <2>1, <2>3
  <2> QED BY <2>2, <2>3 DEF CollectInv, TypeOK
<1>7. CASE UNCHANGED vars
  BY <1>7 DEF vars, Confirmed, Wants
<1> QED BY <1>1, <1>2, <1>3, <1>4, <1>5, <1>6, <1>7 DEF Next, Exited

\* diagnet keeps the promise of DiagReport: nothing is printed before every
\* table asked for was read to its end, a run that fails prints nothing, and
\* one that has confirmed returns 0.
THEOREM ReportKept == Spec => ImplementsReport
<1>1. Init => CollectInv /\ FailedEarly
  BY CollectStart DEF Init, FailedEarly
<1>2. CollectInv /\ FailedEarly /\ [Next]_vars => CollectInv' /\ FailedEarly'
  BY CollectStep, ConfirmStep
<1>3. Init => Promise!Init
  <2> SUFFICES ASSUME Init PROVE Promise!Init
    OBVIOUS
  <2>1. pc = "tcp" /\ ended = {} /\ printed = FALSE /\ filter \in Filters
    BY DEF Init
  <2>2. ~Confirmed
    <3>1. filter.proto \in {"tcp", "udp", "all"}
      BY <2>1 DEF Filters, Protos
    <3>2. Wants("tcp") \/ Wants("udp")
      BY <3>1 DEF Wants
    <3> QED BY <2>1, <3>2 DEF Confirmed, Protos
  <2> QED BY <2>1, <2>2 DEF Promise!Init
<1>4. CollectInv /\ FailedEarly /\ [Next]_vars => [Promise!Next]_Promise!vars
  <2> SUFFICES ASSUME CollectInv, CollectInv', ReportStep PROVE [Promise!Next]_Promise!vars
    BY <1>2, ConfirmStep
  <2>1. printed \in BOOLEAN /\ printed' \in BOOLEAN
    BY DEF CollectInv, TypeOK
  <2>2. CASE pc # "exited" /\ pc' # "exited" /\ (Confirmed => Confirmed') /\ printed' = printed
    BY <2>1, <2>2 DEF Promise!Next, Promise!Confirm, Promise!vars
  <2>3. CASE pc # "exited" /\ pc' # "exited" /\ Confirmed /\ Confirmed' /\ printed'
    BY <2>1, <2>3 DEF Promise!Next, Promise!Report
  <2>4. CASE pc # "exited" /\ pc' = "exited" /\ ~Confirmed /\ rc' = 1 /\ printed' = printed
    BY <2>4 DEF Promise!Next, Promise!Fail
  <2>5. CASE pc # "exited" /\ pc' = "exited" /\ Confirmed /\ rc' = 0 /\ printed' = printed
    BY <2>5 DEF Promise!Next, Promise!Succeed
  <2>6. CASE UNCHANGED vars
    BY <2>6 DEF vars, output, Promise!vars, Confirmed, Wants
  <2> QED BY <2>2, <2>3, <2>4, <2>5, <2>6 DEF ReportStep
<1> QED BY <1>1, <1>2, <1>3, <1>4, PTL DEF Spec, ImplementsReport, Promise!Spec
=============================================================================
