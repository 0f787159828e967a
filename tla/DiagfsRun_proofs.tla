-------------------------- MODULE DiagfsRun_proofs --------------------------
(***************************************************************************)
(* Proofs about DiagfsRun, for mount tables of any length.                 *)
(***************************************************************************)
EXTENDS DiagfsRun, TLAPS

\* The pieces of the layout and the reports are pieces of output.
LEMMA PieceType ==
  /\ \A format \in Formats : Opening(format) \in Seq(Pieces)
  /\ \A n \in 0 .. MaxMounts, layout \in BOOLEAN : Report(n, layout) \in Pieces
  /\ Piece("comma") \in Pieces /\ Piece("close") \in Pieces
<1>1. MaxMounts \in Nat
  BY RunAssumption DEF RunAssumption
<1>2. \A p \in {"header", "open", "comma", "close"} : Piece(p) \in Pieces
  BY <1>1 DEF Piece, Pieces
<1>3. \A n \in 0 .. MaxMounts, layout \in BOOLEAN : Report(n, layout) \in Pieces
  BY DEF Report, Pieces
<1>4. \A format \in Formats : Opening(format) \in Seq(Pieces)
  BY <1>2 DEF Opening
<1> QED BY <1>2, <1>3, <1>4

\* What stdio delivers is a prefix of what it was given.
LEMMA DeliverType ==
  ASSUME TypeOK, NEW pieces \in Seq(Pieces), Deliver(pieces)
  PROVE /\ stdout' \in Seq(Pieces) /\ dropped' \in BOOLEAN
        /\ stdout # <<>> => stdout' # <<>>
        /\ pieces = <<>> => stdout' = stdout
<1>1. PICK k \in 0 .. Len(pieces) :
        stdout' = stdout \o SubSeq(pieces, 1, k) /\ dropped' = (dropped \/ k < Len(pieces))
  BY DEF Deliver
<1>2. SubSeq(pieces, 1, k) \in Seq(Pieces) /\ stdout \in Seq(Pieces)
  BY DEF TypeOK
<1>3. stdout' \in Seq(Pieces) /\ Len(stdout') = Len(stdout) + Len(SubSeq(pieces, 1, k))
  BY <1>1, <1>2
<1>4. dropped' \in BOOLEAN
  BY <1>1, Zenon
<1>5. stdout # <<>> => stdout' # <<>>
  BY <1>2, <1>3
<1>6. ASSUME pieces = <<>> PROVE stdout' = stdout
  <2>1. k = 0 /\ SubSeq(pieces, 1, k) = <<>>
    BY <1>6
  <2> QED BY <1>1, <1>2, <2>1
<1> QED BY <1>3, <1>4, <1>5, <1>6

\* The same for what is printed, and for what is written.
LEMMA PrintType ==
  ASSUME TypeOK, NEW pieces \in Seq(Pieces), Printf(pieces)
  PROVE /\ stdout' \in Seq(Pieces) /\ buffer' \in Seq(Pieces) /\ dropped' \in BOOLEAN
        /\ told' = told
        /\ stdout # <<>> => stdout' # <<>>
<1>1. CASE opts.tty
  BY <1>1, DeliverType DEF Printf, TypeOK
<1>2. CASE ~opts.tty
  <2>1. buffer' = buffer \o pieces /\ UNCHANGED <<stdout, dropped, told>>
    BY <1>2, Zenon DEF Printf
  <2> QED BY <2>1 DEF TypeOK
<1> QED BY <1>1, <1>2

LEMMA WriteType ==
  ASSUME TypeOK, NEW report \in Pieces, Write(report)
  PROVE /\ stdout' \in Seq(Pieces) /\ buffer' = buffer /\ dropped' = dropped
        /\ told' \subseteq told \cup {report.of}
        /\ stdout # <<>> => stdout' # <<>>
<1>1. [report EXCEPT !.piece = "part"] \in Pieces
  BY DEF Pieces
<1>2. stdout \in Seq(Pieces)
  BY DEF TypeOK
<1>3. CASE stdout' = Append(stdout, report)
  BY <1>2, <1>3 DEF Write
<1>4. CASE stdout' = Append(stdout, [report EXCEPT !.piece = "part"])
  BY <1>1, <1>2, <1>4 DEF Write
<1>5. CASE stdout' = stdout
  BY <1>2, <1>5 DEF Write
<1> QED BY <1>3, <1>4, <1>5 DEF Write

LEMMA PrintOutType ==
  ASSUME TypeOK, NEW report \in Pieces, PrintOut(report)
  PROVE /\ stdout' \in Seq(Pieces) /\ buffer' \in Seq(Pieces) /\ dropped' \in BOOLEAN
        /\ told' \subseteq told \cup {report.of}
        /\ stdout # <<>> => stdout' # <<>>
<1>1. CASE opts.format = "table"
  BY <1>1, WriteType DEF PrintOut, TypeOK
<1>2. CASE opts.format # "table"
  <2>1. Printf(<<report>>) /\ <<report>> \in Seq(Pieces)
    BY <1>2 DEF PrintOut
  <2> QED BY <2>1, PrintType
<1> QED BY <1>1, <1>2

\* Nothing is printed, and nothing buffered, before the measurement is done;
\* the exit code is decided at the end.
Quiet ==
  /\ pc \in {"start", "fiemap"} => buffer = <<>> /\ stdout = <<>>
  /\ pc # "exited" => rc = 0
  /\ pc = "start" => isFirst

RunInv == TypeOK /\ Quiet

Promising == IF pc = "exited" THEN "ended" ELSE IF Confirmed THEN "reporting" ELSE "measuring"
Visible == stdout # <<>>

\* One step of DiagReport, in the terms of DiagfsRun.
AbstractStep ==
  \/ Promising = "measuring" /\ Promising' = "reporting" /\ rc' = rc
  \/ Promising = "reporting" /\ Promising' = "reporting" /\ Visible' /\ rc' = rc
  \/ Promising = "measuring" /\ Promising' = "ended" /\ rc' \in {1, 3} /\ stdout' = stdout
  \/ Promising = "reporting" /\ Promising' = "ended" /\ (stdout' = stdout \/ Visible') /\ rc' = rc
  \/ Promising' = Promising /\ stdout' = stdout /\ rc' = rc

\* A run that fails returns before anything is printed.
LEMMA EarlyReturn ==
  ASSUME RunInv, NEW code \in {1, 3}, pc \in {"start", "fiemap"}, Return(code)
  PROVE stdout' = <<>> /\ buffer' = <<>> /\ dropped' \in BOOLEAN /\ told' = told
        /\ rc' = code /\ pc' = "exited"
<1>1. buffer = <<>> /\ buffer \in Seq(Pieces) /\ Deliver(buffer)
  BY DEF Return, RunInv, Quiet, TypeOK
<1>2. stdout' = stdout /\ dropped' \in BOOLEAN
  BY <1>1, DeliverType DEF RunInv
<1> QED BY <1>2 DEF Return, RunInv, Quiet

\* The steps on one path.
LEMMA PathStep ==
  ASSUME RunInv, StatfsFails \/ Statfs \/ Fiemap \/ PrintPath \/ PrintBody
  PROVE RunInv' /\ AbstractStep
<1> USE DEF RunInv, output, lines, history
<1>1. CASE StatfsFails
  <2>1. stdout' = <<>> /\ buffer' = <<>> /\ dropped' \in BOOLEAN /\ told' = told
        /\ rc' = 1 /\ pc' = "exited" /\ stdout = <<>>
    BY <1>1, EarlyReturn DEF StatfsFails, Quiet
  <2>2. TypeOK' /\ Quiet'
    BY <1>1, <2>1 DEF StatfsFails, TypeOK, Quiet
  <2>3. AbstractStep
    BY <1>1, <2>1 DEF StatfsFails, AbstractStep, Promising, Confirmed
  <2> QED BY <2>2, <2>3
<1>2. CASE Statfs
  BY <1>2 DEF Statfs, TypeOK, Quiet, AbstractStep, Promising, Confirmed
<1>3. CASE Fiemap
  <2>1. CASE fiemap' = "unsupported"
    <3>1. stdout' = <<>> /\ buffer' = <<>> /\ dropped' \in BOOLEAN /\ told' = told
          /\ rc' = 3 /\ pc' = "exited" /\ stdout = <<>>
      BY <1>3, <2>1, EarlyReturn DEF Fiemap, Quiet
    <3>2. TypeOK' /\ Quiet'
      BY <1>3, <3>1 DEF Fiemap, TypeOK, Quiet
    <3>3. AbstractStep
      BY <1>3, <3>1 DEF Fiemap, AbstractStep, Promising, Confirmed
    <3> QED BY <3>2, <3>3
  <2>2. CASE fiemap' # "unsupported"
    BY <1>3, <2>2 DEF Fiemap, TypeOK, Quiet, AbstractStep, Promising, Confirmed
  <2> QED BY <2>1, <2>2
<1>4. CASE PrintPath
  <2>1. Opening(opts.format) \in Seq(Pieces)
    BY PieceType DEF TypeOK, Options
  <2>2. stdout' \in Seq(Pieces) /\ buffer' \in Seq(Pieces) /\ dropped' \in BOOLEAN /\ told' = told
        /\ (stdout # <<>> => stdout' # <<>>)
    BY <1>4, <2>1, PrintType DEF PrintPath
  <2>3. TypeOK' /\ Quiet'
    BY <1>4, <2>2 DEF PrintPath, TypeOK, Quiet
  <2> QED BY <1>4, <2>2, <2>3 DEF PrintPath, AbstractStep, Promising, Confirmed, Visible
<1>5. CASE PrintBody
  <2>1. Report(0, LayoutOfPath) \in Pieces /\ Report(0, LayoutOfPath).of = 0
    <3>1. LayoutOfPath \in BOOLEAN
      BY Zenon DEF LayoutOfPath
    <3>2. 0 \in 0 .. MaxMounts
      BY RunAssumption DEF RunAssumption
    <3> QED BY <3>1, <3>2, PieceType DEF Report
  <2>2. stdout' \in Seq(Pieces) /\ buffer' \in Seq(Pieces) /\ dropped' \in BOOLEAN
        /\ told' \subseteq told \cup {0} /\ (stdout # <<>> => stdout' # <<>>)
    BY <1>5, <2>1, PrintOutType DEF PrintBody
  <2>3. TypeOK' /\ Quiet'
    BY <1>5, <2>2 DEF PrintBody, TypeOK, Quiet
  <2> QED BY <1>5, <2>2, <2>3 DEF PrintBody, AbstractStep, Promising, Confirmed, Visible
<1> QED BY <1>1, <1>2, <1>3, <1>4, <1>5

\* A line of the mount table.
LEMMA MountStep ==
  ASSUME RunInv, NEW m \in Mounts, SkipMount(m) \/ MountUnreadable(m) \/ ReportMount(m)
  PROVE RunInv' /\ AbstractStep
<1> USE RunAssumption DEF RunAssumption, RunInv, output, history
<1>1. /\ NextMount(m) /\ pc = "scan" /\ pc' = pc /\ rc' = rc /\ opts' = opts /\ fiemap' = fiemap
      /\ isFirst' \in BOOLEAN
  <2>1. isFirst' = isFirst \/ isFirst' = (isFirst /\ opts.format # "json")
    BY DEF SkipMount, MountUnreadable, ReportMount
  <2>2. isFirst' \in BOOLEAN
    BY <2>1, Zenon DEF TypeOK
  <2> QED BY <2>2 DEF SkipMount, MountUnreadable, ReportMount, NextMount
<1>2. /\ lineNo' \in 1 .. MaxMounts /\ lineNo' = lineNo + 1
      /\ mounts' \in Seq(Mounts) /\ Len(mounts') = lineNo'
  BY <1>1 DEF NextMount, TypeOK
<1>3. CASE SkipMount(m) \/ MountUnreadable(m)
  <2>1. /\ UNCHANGED output /\ skipped' \subseteq skipped \cup {lineNo'}
        /\ warned' \subseteq warned \cup {lineNo'}
    BY <1>3 DEF SkipMount, MountUnreadable, GiveUp
  <2>2. TypeOK' /\ Quiet'
    BY <1>1, <1>2, <2>1 DEF TypeOK, Quiet
  <2> QED BY <1>1, <2>1, <2>2 DEF AbstractStep, Promising, Confirmed
<1>4. CASE ReportMount(m)
  <2>1. Report(lineNo', FALSE) \in Pieces /\ Report(lineNo', FALSE).of = lineNo'
    <3>1. lineNo' \in 0 .. MaxMounts
      BY <1>2
    <3> QED BY <3>1, PieceType DEF Report
  <2>2. /\ stdout' \in Seq(Pieces) /\ buffer' \in Seq(Pieces) /\ dropped' \in BOOLEAN
        /\ told' \subseteq told \cup {lineNo'} /\ (stdout # <<>> => stdout' # <<>>)
    <3>1. CASE opts.format = "json" /\ ~isFirst
      <4>1. Printf(<<Piece("comma"), Report(lineNo', FALSE)>>)
        BY <1>4, <3>1 DEF ReportMount
      <4>2. <<Piece("comma"), Report(lineNo', FALSE)>> \in Seq(Pieces)
        <5> DEFINE c == Piece("comma")
                   p == Report(lineNo', FALSE)
        <5>1. c \in Pieces /\ p \in Pieces
          BY <2>1, PieceType
        <5> HIDE DEF c, p
        <5>2. <<c, p>> \in Seq(Pieces)
          BY <5>1
        <5> QED BY <5>2 DEF c, p
      <4> QED BY <4>1, <4>2, PrintType
    <3>2. CASE ~(opts.format = "json" /\ ~isFirst)
      <4>1. PrintOut(Report(lineNo', FALSE))
        BY <1>4, <3>2, Zenon DEF ReportMount
      <4> QED BY <2>1, <4>1, PrintOutType
    <3> QED BY <3>1, <3>2
  <2>3. skipped' = skipped /\ warned' = warned
    BY <1>4 DEF ReportMount
  <2>4. TypeOK' /\ Quiet'
    BY <1>1, <1>2, <2>2, <2>3 DEF TypeOK, Quiet
  <2> QED BY <1>1, <2>2, <2>4 DEF AbstractStep, Promising, Confirmed, Visible
<1> QED BY <1>3, <1>4

\* The opening of the mount table, the end of the run, and a full buffer.
LEMMA OuterStep ==
  ASSUME RunInv,
         OpenFails \/ OpenMounts \/ EndOfMounts \/ Closing \/ ReturnOk \/ Flush \/ UNCHANGED vars
  PROVE RunInv' /\ AbstractStep
<1> USE DEF RunInv, output, lines, history
<1>1. CASE OpenFails
  <2>1. stdout' = <<>> /\ buffer' = <<>> /\ dropped' \in BOOLEAN /\ told' = told
        /\ rc' = 1 /\ pc' = "exited" /\ stdout = <<>>
    BY <1>1, EarlyReturn DEF OpenFails, Quiet
  <2>2. TypeOK' /\ Quiet'
    BY <1>1, <2>1 DEF OpenFails, TypeOK, Quiet
  <2> QED BY <1>1, <2>1, <2>2 DEF OpenFails, AbstractStep, Promising, Confirmed
<1>2. CASE OpenMounts
  <2>1. Opening(opts.format) \in Seq(Pieces)
    BY PieceType DEF TypeOK, Options
  <2>2. stdout' \in Seq(Pieces) /\ buffer' \in Seq(Pieces) /\ dropped' \in BOOLEAN /\ told' = told
    BY <1>2, <2>1, PrintType DEF OpenMounts
  <2>3. TypeOK' /\ Quiet'
    BY <1>2, <2>2 DEF OpenMounts, TypeOK, Quiet
  <2> QED BY <1>2, <2>3 DEF OpenMounts, AbstractStep, Promising, Confirmed
<1>3. CASE EndOfMounts
  BY <1>3 DEF EndOfMounts, TypeOK, Quiet, AbstractStep, Promising, Confirmed
<1>4. CASE Closing
  <2>1. (IF opts.format = "json" THEN <<Piece("close")>> ELSE <<>>) \in Seq(Pieces)
    BY PieceType
  <2>2. stdout' \in Seq(Pieces) /\ buffer' \in Seq(Pieces) /\ dropped' \in BOOLEAN /\ told' = told
        /\ (stdout # <<>> => stdout' # <<>>)
    BY <1>4, <2>1, PrintType DEF Closing
  <2>3. TypeOK' /\ Quiet'
    BY <1>4, <2>2 DEF Closing, TypeOK, Quiet
  <2> QED BY <1>4, <2>2, <2>3 DEF Closing, AbstractStep, Promising, Confirmed, Visible
<1>5. CASE ReturnOk
  <2>1. stdout' \in Seq(Pieces) /\ buffer' = <<>> /\ dropped' \in BOOLEAN /\ told' = told
        /\ (stdout # <<>> => stdout' # <<>>) /\ rc' = 0 /\ pc' = "exited" /\ pc = "return"
    BY <1>5, DeliverType DEF ReturnOk, Return, TypeOK
  <2>2. TypeOK' /\ Quiet'
    BY <1>5, <2>1 DEF ReturnOk, TypeOK, Quiet
  <2> QED BY <2>1, <2>2 DEF AbstractStep, Promising, Confirmed, Visible, Quiet
<1>6. CASE UNCHANGED vars
  BY <1>6 DEF vars, TypeOK, Quiet, AbstractStep, Promising, Confirmed
<1>7. CASE Flush
  <2>1. /\ stdout' \in Seq(Pieces) /\ buffer' = <<>> /\ dropped' \in BOOLEAN /\ told' = told
        /\ stdout # <<>> => stdout' # <<>>
        /\ UNCHANGED <<pc, opts, isFirst, lineNo, rc, history>>
    BY <1>7, DeliverType DEF Flush, TypeOK
  <2>2. TypeOK' /\ Quiet'
    BY <1>7, <2>1 DEF Flush, TypeOK, Quiet
  <2>3. pc \notin {"start", "fiemap", "exited"}
    BY <1>7 DEF Flush, Quiet
  <2>4. stdout' = stdout \/ stdout' # <<>>
    BY <2>1
  <2> QED BY <2>1, <2>2, <2>3, <2>4 DEF AbstractStep, Promising, Confirmed, Visible
<1> QED BY <1>1, <1>2, <1>3, <1>4, <1>5, <1>6, <1>7

LEMMA RunStart == Init => RunInv
<1> SUFFICES ASSUME Init PROVE RunInv
  OBVIOUS
<1>1. 0 \in 0 .. MaxMounts
  BY RunAssumption DEF RunAssumption
<1>2. /\ buffer = <<>> /\ stdout = <<>> /\ mounts = <<>> /\ skipped = {} /\ warned = {} /\ told = {}
      /\ lineNo = 0
  BY DEF Init
<1>3. dropped \in BOOLEAN /\ isFirst \in BOOLEAN /\ isFirst /\ opts \in Options
  BY Zenon DEF Init
<1>4. pc = "start" /\ rc = 0 /\ fiemap \in Answers
  BY DEF Init, Answers
<1>5. TypeOK
  BY <1>1, <1>2, <1>3, <1>4 DEF TypeOK
<1> QED BY <1>2, <1>3, <1>4, <1>5 DEF RunInv, Quiet

LEMMA RunStep == RunInv /\ [Next]_vars => RunInv' /\ AbstractStep
<1> SUFFICES ASSUME RunInv, [Next]_vars PROVE RunInv' /\ AbstractStep
  OBVIOUS
<1>1. CASE \E m \in Mounts : SkipMount(m) \/ MountUnreadable(m) \/ ReportMount(m)
  BY <1>1, MountStep
<1>2. CASE StatfsFails \/ Statfs \/ Fiemap \/ PrintPath \/ PrintBody
  BY <1>2, PathStep
<1>3. CASE OpenFails \/ OpenMounts \/ EndOfMounts \/ Closing \/ ReturnOk \/ Flush \/ UNCHANGED vars
  BY <1>3, OuterStep
<1> QED BY <1>1, <1>2, <1>3 DEF Next, Exited

\* Every variable keeps its type, for mount tables of any length.
THEOREM TypeCorrect == Spec => []TypeOK
<1>1. RunInv => TypeOK
  BY DEF RunInv
<1> QED BY <1>1, RunStart, RunStep, PTL DEF Spec

\* diagfs keeps the promise of DiagReport: a run that fails has printed nothing,
\* and once it has begun to report it does not fail.
THEOREM ReportKept == Spec => ImplementsReport
<1>1. Init => Promise!Init
  <2> SUFFICES ASSUME Init PROVE Promise!Init
    OBVIOUS
  <2>1. (stdout # <<>>) = FALSE
    BY DEF Init
  <2> QED BY <2>1 DEF Init, Promise!Init, Confirmed
<1>2. RunInv /\ [Next]_vars => [Promise!Next]_Promise!vars
  <2> SUFFICES ASSUME RunInv, AbstractStep PROVE [Promise!Next]_Promise!vars
    BY RunStep
  <2>1. Visible' \in BOOLEAN /\ Visible \in BOOLEAN
    BY Zenon DEF Visible
  <2>2. CASE Promising = "measuring" /\ Promising' = "reporting" /\ rc' = rc
    BY <2>1, <2>2 DEF Promise!Next, Promise!Confirm, Promising, Visible
  <2>3. CASE Promising = "reporting" /\ Promising' = "reporting" /\ Visible' /\ rc' = rc
    BY <2>1, <2>3 DEF Promise!Next, Promise!Report, Promising, Visible
  <2>4. CASE Promising = "measuring" /\ Promising' = "ended" /\ rc' \in {1, 3} /\ stdout' = stdout
    BY <2>4 DEF Promise!Next, Promise!Fail, Promising
  <2>5. CASE Promising = "reporting" /\ Promising' = "ended" /\ (stdout' = stdout \/ Visible') /\ rc' = rc
    BY <2>1, <2>5 DEF Promise!Next, Promise!Succeed, Promising, Visible
  <2>6. CASE Promising' = Promising /\ stdout' = stdout /\ rc' = rc
    BY <2>6 DEF Promise!vars, Promising
  <2> QED BY <2>2, <2>3, <2>4, <2>5, <2>6 DEF AbstractStep
<1> QED BY <1>1, <1>2, RunStart, RunStep, PTL DEF Spec, ImplementsReport, Promise!Spec

-----------------------------------------------------------------------------
(* The JSON document: what is on standard output, then what is still in    *)
(* the buffer of stdio.                                                    *)

Cur == stdout \o buffer

\* The document as far as its last report, and the whole document.
Opened(s) ==
  /\ s[1].piece = "open"
  /\ Len(s) = 1 \/ (Len(s) >= 2 /\ Len(s) % 2 = 0)
  /\ \A i \in 2 .. Len(s) : s[i].piece = (IF i % 2 = 0 THEN "report" ELSE "comma")

Closed(s) ==
  LET n == Len(s) - 2
  IN  /\ n >= 0 /\ s[1].piece = "open" /\ s[n + 2].piece = "close"
      /\ n > 0 => n % 2 = 1
      /\ \A i \in 1 .. n : s[i + 1].piece = (IF i % 2 = 1 THEN "report" ELSE "comma")

JsonInv ==
  opts.format = "json" =>
    /\ opts.tty => buffer = <<>>
    /\ ~dropped =>
         /\ pc \in {"start", "fiemap", "report"} => Cur = <<>>
         /\ pc = "body" => Opened(Cur) /\ Len(Cur) = 1
         /\ pc = "scan" => Opened(Cur) /\ (isFirst <=> Len(Cur) = 1)
         /\ pc = "close" => Opened(Cur)
         /\ pc = "return" => Closed(Cur)
         /\ pc = "exited" /\ rc = 0 => Closed(stdout)

\* One more piece at the end of a sequence.
LEMMA OneMore ==
  ASSUME NEW s \in Seq(Pieces), NEW p \in Pieces
  PROVE /\ Len(s \o <<p>>) = Len(s) + 1 /\ (s \o <<p>>)[Len(s) + 1] = p
        /\ \A i \in 1 .. Len(s) : (s \o <<p>>)[i] = s[i]
OBVIOUS

\* The document grows by a first report, by a comma and a report, and by its end.
LEMMA FirstReport ==
  ASSUME NEW s \in Seq(Pieces), Opened(s), Len(s) = 1, NEW p \in Pieces, p.piece = "report"
  PROVE Opened(s \o <<p>>) /\ Len(s \o <<p>>) = 2
<1> DEFINE t == s \o <<p>>
           n == Len(s)
<1>1. Len(t) = n + 1 /\ t[n + 1] = p /\ \A i \in 1 .. n : t[i] = s[i]
  BY OneMore
<1> HIDE DEF t
<1>2. Opened(t) /\ Len(t) = 2
  BY <1>1 DEF Opened
<1> QED BY <1>2 DEF t

LEMMA NextReport ==
  ASSUME NEW s \in Seq(Pieces), Opened(s), Len(s) # 1,
         NEW c \in Pieces, c.piece = "comma", NEW p \in Pieces, p.piece = "report"
  PROVE Opened(s \o <<c, p>>) /\ Len(s \o <<c, p>>) # 1
<1> DEFINE t == s \o <<c, p>>
           n == Len(s)
<1>1. n \in Nat /\ n >= 2 /\ n % 2 = 0
  BY DEF Opened
<1>2. Len(t) = n + 2 /\ t[n + 1] = c /\ t[n + 2] = p /\ \A i \in 1 .. n : t[i] = s[i]
  OBVIOUS
<1> HIDE DEF t
<1>3. (n + 1) % 2 = 1 /\ (n + 2) % 2 = 0
  BY <1>1
<1>4. ASSUME NEW i \in 2 .. Len(t) PROVE t[i].piece = (IF i % 2 = 0 THEN "report" ELSE "comma")
  <2>1. CASE i \in 2 .. n
    BY <2>1, <1>1, <1>2 DEF Opened
  <2>2. CASE i = n + 1
    BY <2>2, <1>2, <1>3
  <2>3. CASE i = n + 2
    BY <2>3, <1>2, <1>3
  <2> QED BY <1>1, <1>2, <2>1, <2>2, <2>3
<1>5. t[1].piece = "open"
  BY <1>1, <1>2 DEF Opened
<1>6. Opened(t) /\ Len(t) # 1
  BY <1>1, <1>2, <1>3, <1>4, <1>5 DEF Opened
<1> QED BY <1>6 DEF t

LEMMA LastPiece ==
  ASSUME NEW s \in Seq(Pieces), Opened(s), NEW p \in Pieces, p.piece = "close"
  PROVE Closed(s \o <<p>>)
<1> DEFINE t == s \o <<p>>
           n == Len(s)
<1>1. n \in Nat /\ n >= 1
  BY DEF Opened
<1>2. Len(t) = n + 1 /\ t[n + 1] = p /\ \A i \in 1 .. n : t[i] = s[i]
  BY OneMore
<1> HIDE DEF t
<1>3. n - 1 > 0 => (n - 1) % 2 = 1
  BY <1>1 DEF Opened
<1>4. ASSUME NEW i \in 1 .. n - 1 PROVE t[i + 1].piece = (IF i % 2 = 1 THEN "report" ELSE "comma")
  <2>1. i + 1 \in 2 .. n /\ t[i + 1] = s[i + 1]
    BY <1>1, <1>2
  <2>2. (i % 2 = 1) <=> ((i + 1) % 2 = 0)
    BY <1>1
  <2> QED BY <2>1, <2>2 DEF Opened
<1>5. t[1].piece = "open" /\ t[n + 1].piece = "close"
  BY <1>1, <1>2 DEF Opened
<1>6. Closed(t)
  BY <1>1, <1>2, <1>3, <1>4, <1>5 DEF Closed
<1> QED BY <1>6 DEF t

LEMMA Joined ==
  ASSUME NEW s \in Seq(Pieces), NEW t \in Seq(Pieces), NEW u \in Seq(Pieces)
  PROVE /\ (s \o t) \o u = s \o (t \o u) /\ s \o t \in Seq(Pieces)
        /\ s \o <<>> = s /\ SubSeq(s, 1, Len(s)) = s
OBVIOUS

\* What stdio delivers, as long as nothing is refused.
LEMMA AllDelivered ==
  ASSUME TypeOK, NEW pieces \in Seq(Pieces), Deliver(pieces), ~dropped'
  PROVE ~dropped /\ stdout' = stdout \o pieces
<1>1. PICK k \in 0 .. Len(pieces) :
        stdout' = stdout \o SubSeq(pieces, 1, k) /\ dropped' = (dropped \/ k < Len(pieces))
  BY DEF Deliver
<1>2. ~dropped /\ ~(k < Len(pieces))
  BY <1>1, Zenon
<1>3. k = Len(pieces) /\ SubSeq(pieces, 1, Len(pieces)) = pieces
  BY <1>2
<1> QED BY <1>1, <1>2, <1>3

\* What printf adds to the document, as long as nothing is refused.
LEMMA PrintGrows ==
  ASSUME TypeOK, NEW pieces \in Seq(Pieces), Printf(pieces), opts' = opts, opts.tty => buffer = <<>>
  PROVE /\ ~dropped' => ~dropped /\ Cur' = Cur \o pieces
        /\ opts.tty => buffer' = buffer
        /\ ~opts.tty => stdout' = stdout
<1> USE DEF TypeOK
<1>1. CASE opts.tty
  <2>1. Deliver(pieces) /\ buffer' = buffer /\ buffer = <<>>
    BY <1>1 DEF Printf
  <2>2. Cur' = stdout' \o <<>> /\ Cur = stdout \o <<>>
    BY <2>1 DEF Cur
  <2>3. ASSUME ~dropped' PROVE ~dropped /\ Cur' = Cur \o pieces
    <3>1. ~dropped /\ stdout' = stdout \o pieces
      BY <2>1, <2>3, AllDelivered
    <3>2. stdout \o pieces \in Seq(Pieces)
      BY Joined
    <3> QED BY <2>2, <3>1, <3>2, Joined
  <2> QED BY <1>1, <2>1, <2>3
<1>2. CASE ~opts.tty
  <2>1. buffer' = buffer \o pieces /\ UNCHANGED <<stdout, dropped, told>>
    BY <1>2, Zenon DEF Printf
  <2>2. stdout \o (buffer \o pieces) = (stdout \o buffer) \o pieces
    BY Joined
  <2> QED BY <1>2, <2>1, <2>2 DEF Cur
<1> QED BY <1>1, <1>2

\* A mount adds nothing to the document, a first report or a comma and a report.
LEMMA JsonMount ==
  ASSUME RunInv, JsonInv, opts.format = "json",
         NEW m \in Mounts, SkipMount(m) \/ MountUnreadable(m) \/ ReportMount(m)
  PROVE JsonInv'
<1> USE DEF RunInv
<1>1. pc = "scan" /\ pc' = pc /\ opts' = opts
  BY DEF SkipMount, MountUnreadable, ReportMount, NextMount
<1>2. CASE SkipMount(m) \/ MountUnreadable(m)
  <2>1. UNCHANGED <<buffer, stdout, dropped, isFirst>>
    BY <1>2 DEF SkipMount, MountUnreadable, output
  <2> QED BY <1>1, <2>1 DEF JsonInv, Cur
<1>3. CASE ReportMount(m)
  <2> DEFINE c == Piece("comma")
             p == Report(lineNo', FALSE)
  <2>1. c \in Pieces /\ p \in Pieces /\ c.piece = "comma" /\ p.piece = "report"
    <3>1. lineNo' \in 0 .. MaxMounts
      BY <1>3, RunAssumption DEF RunAssumption, ReportMount, NextMount, TypeOK
    <3> QED BY <3>1, PieceType DEF Report, Piece
  <2>2. /\ isFirst => Printf(<<p>>)
        /\ ~isFirst => Printf(<<c, p>>)
        /\ isFirst' = FALSE
    <3>1. isFirst' = (isFirst /\ opts.format # "json")
      BY <1>3 DEF ReportMount
    <3>2. isFirst' = FALSE
      BY <3>1, Zenon
    <3> QED BY <1>3, <3>2 DEF ReportMount, PrintOut
  <2> HIDE DEF c, p
  <2>3. Cur \in Seq(Pieces)
    BY DEF Cur, TypeOK
  <2>4. CASE isFirst
    <3>1. <<p>> \in Seq(Pieces) /\ Printf(<<p>>)
      BY <2>1, <2>2, <2>4
    <3>2. ASSUME ~dropped' PROVE Opened(Cur') /\ Len(Cur') # 1
      <4>1. ~dropped /\ Cur' = Cur \o <<p>>
        BY <1>1, <3>1, <3>2, PrintGrows DEF JsonInv
      <4>2. Opened(Cur) /\ Len(Cur) = 1
        BY <1>1, <2>4, <4>1 DEF JsonInv
      <4> QED BY <2>1, <2>3, <4>1, <4>2, FirstReport
    <3>3. (opts.tty => buffer' = buffer) /\ (~opts.tty => stdout' = stdout)
      BY <1>1, <3>1, PrintGrows DEF JsonInv
    <3> QED BY <1>1, <2>2, <3>2, <3>3 DEF JsonInv
  <2>5. CASE ~isFirst
    <3>1. <<c, p>> \in Seq(Pieces) /\ Printf(<<c, p>>)
      BY <2>1, <2>2, <2>5
    <3>2. ASSUME ~dropped' PROVE Opened(Cur') /\ Len(Cur') # 1
      <4>1. ~dropped /\ Cur' = Cur \o <<c, p>>
        BY <1>1, <3>1, <3>2, PrintGrows DEF JsonInv
      <4>2. Opened(Cur) /\ Len(Cur) # 1
        BY <1>1, <2>5, <4>1 DEF JsonInv
      <4> QED BY <2>1, <2>3, <4>1, <4>2, NextReport
    <3>3. (opts.tty => buffer' = buffer) /\ (~opts.tty => stdout' = stdout)
      BY <1>1, <3>1, PrintGrows DEF JsonInv
    <3> QED BY <1>1, <2>2, <3>2, <3>3 DEF JsonInv
  <2> QED BY <2>4, <2>5
<1> QED BY <1>2, <1>3

\* The opening, the report on one path and the end of the document.
LEMMA JsonPrint ==
  ASSUME RunInv, JsonInv, opts.format = "json", PrintPath \/ OpenMounts \/ PrintBody \/ Closing
  PROVE JsonInv'
<1> USE DEF RunInv
<1>1. opts' = opts /\ isFirst' = isFirst
  BY DEF PrintPath, OpenMounts, PrintBody, Closing
<1>2. Cur \in Seq(Pieces)
  BY DEF Cur, TypeOK
<1>3. CASE PrintPath \/ OpenMounts
  <2> DEFINE o == Piece("open")
  <2>1. o \in Pieces /\ o.piece = "open"
    BY RunAssumption DEF RunAssumption, Pieces, Piece
  <2>2. Printf(<<o>>) /\ pc \in {"start", "report"} /\ pc' \in {"body", "scan"} /\ (pc' = "scan" <=> OpenMounts)
    <3>1. Opening("json") = <<Piece("open")>>
      BY DEF Opening
    <3> QED BY <1>3, <3>1 DEF PrintPath, OpenMounts
  <2> HIDE DEF o
  <2>3. <<o>> \in Seq(Pieces)
    BY <2>1
  <2>4. ASSUME ~dropped' PROVE Opened(Cur') /\ Len(Cur') = 1
    <3>1. ~dropped /\ Cur' = Cur \o <<o>>
      BY <1>1, <2>2, <2>3, <2>4, PrintGrows DEF JsonInv
    <3>2. Cur = <<>>
      BY <2>2, <3>1 DEF JsonInv
    <3>3. Cur' = <<o>>
      BY <3>1, <3>2
    <3> QED BY <2>1, <3>3 DEF Opened
  <2>5. (opts.tty => buffer' = buffer) /\ (~opts.tty => stdout' = stdout)
    BY <1>1, <2>2, <2>3, PrintGrows DEF JsonInv
  <2>6. pc' = "scan" => isFirst
    BY <1>3, <2>2 DEF OpenMounts, Quiet
  <2> QED BY <1>1, <2>2, <2>4, <2>5, <2>6 DEF JsonInv
<1>4. CASE PrintBody
  <2> DEFINE p == Report(0, LayoutOfPath)
  <2>1. p \in Pieces /\ p.piece = "report"
    <3>1. LayoutOfPath \in BOOLEAN
      BY Zenon DEF LayoutOfPath
    <3>2. 0 \in 0 .. MaxMounts
      BY RunAssumption DEF RunAssumption
    <3> QED BY <3>1, <3>2, PieceType DEF Report
  <2>2. Printf(<<p>>) /\ pc = "body" /\ pc' = "close"
    BY <1>4 DEF PrintBody, PrintOut
  <2> HIDE DEF p
  <2>3. <<p>> \in Seq(Pieces)
    BY <2>1
  <2>4. ASSUME ~dropped' PROVE Opened(Cur')
    <3>1. ~dropped /\ Cur' = Cur \o <<p>>
      BY <1>1, <2>2, <2>3, <2>4, PrintGrows DEF JsonInv
    <3>2. Opened(Cur) /\ Len(Cur) = 1
      BY <2>2, <3>1 DEF JsonInv
    <3> QED BY <1>2, <2>1, <3>1, <3>2, FirstReport
  <2>5. (opts.tty => buffer' = buffer) /\ (~opts.tty => stdout' = stdout)
    BY <1>1, <2>2, <2>3, PrintGrows DEF JsonInv
  <2> QED BY <1>1, <2>2, <2>4, <2>5 DEF JsonInv
<1>5. CASE Closing
  <2> DEFINE p == Piece("close")
  <2>1. p \in Pieces /\ p.piece = "close"
    BY PieceType DEF Piece
  <2>2. Printf(<<p>>) /\ pc = "close" /\ pc' = "return"
    BY <1>5 DEF Closing
  <2> HIDE DEF p
  <2>3. <<p>> \in Seq(Pieces)
    BY <2>1
  <2>4. ASSUME ~dropped' PROVE Closed(Cur')
    <3>1. ~dropped /\ Cur' = Cur \o <<p>>
      BY <1>1, <2>2, <2>3, <2>4, PrintGrows DEF JsonInv
    <3>2. Opened(Cur)
      BY <2>2, <3>1 DEF JsonInv
    <3> QED BY <1>2, <2>1, <3>1, <3>2, LastPiece
  <2>5. (opts.tty => buffer' = buffer) /\ (~opts.tty => stdout' = stdout)
    BY <1>1, <2>2, <2>3, PrintGrows DEF JsonInv
  <2> QED BY <1>1, <2>2, <2>4, <2>5 DEF JsonInv
<1> QED BY <1>3, <1>4, <1>5

\* The steps that print nothing, and those that empty the buffer.
LEMMA JsonOther ==
  ASSUME RunInv, JsonInv, opts.format = "json",
         StatfsFails \/ Statfs \/ Fiemap \/ OpenFails \/ EndOfMounts \/ ReturnOk \/ Flush \/ UNCHANGED vars
  PROVE JsonInv'
<1> USE DEF RunInv
<1>1. CASE StatfsFails \/ OpenFails \/ (Fiemap /\ fiemap' = "unsupported")
  <2>1. PICK code \in {1, 3} : Return(code) /\ pc \in {"start", "fiemap"} /\ opts' = opts
    BY <1>1 DEF StatfsFails, OpenFails, Fiemap
  <2>2. buffer' = <<>> /\ rc' # 0 /\ pc' = "exited"
    BY <2>1 DEF Return
  <2> QED BY <2>1, <2>2 DEF JsonInv
<1>2. CASE Statfs \/ EndOfMounts \/ (Fiemap /\ fiemap' # "unsupported") \/ UNCHANGED vars
  <2>1. /\ UNCHANGED <<buffer, stdout, dropped, isFirst, opts, rc>>
        /\ \/ pc = "start" /\ pc' \in {"fiemap", "report"}
           \/ pc = "scan" /\ pc' = "close"
           \/ pc = "fiemap" /\ pc' = "report"
           \/ pc' = pc
    BY <1>2 DEF Statfs, EndOfMounts, Fiemap, output, history, vars
  <2> QED BY <2>1 DEF JsonInv, Cur
<1>3. CASE ReturnOk \/ Flush
  <2>1. buffer \in Seq(Pieces) /\ stdout \in Seq(Pieces) /\ stdout' \in Seq(Pieces)
    <3>1. buffer \in Seq(Pieces) /\ stdout \in Seq(Pieces) /\ Deliver(buffer)
      BY <1>3 DEF TypeOK, ReturnOk, Return, Flush
    <3> QED BY <3>1, DeliverType
  <2>2. /\ opts' = opts /\ buffer' = <<>> /\ isFirst' = isFirst /\ Deliver(buffer)
        /\ \/ pc = "return" /\ pc' = "exited" /\ rc' = 0
           \/ pc # "exited" /\ pc' = pc /\ rc' = rc
    BY <1>3 DEF ReturnOk, Return, Flush
  <2>3. ASSUME ~dropped' PROVE ~dropped /\ stdout' = Cur /\ Cur' = Cur
    <3>1. ~dropped /\ stdout' = stdout \o buffer
      BY <2>1, <2>2, <2>3, AllDelivered
    <3>2. Cur' = stdout' \o <<>>
      BY <2>2 DEF Cur
    <3> QED BY <2>1, <3>1, <3>2, Joined DEF Cur
  <2> QED BY <2>2, <2>3 DEF JsonInv
<1> QED BY <1>1, <1>2, <1>3

\* With --output json a run that succeeds has written a well-formed document,
\* however many file systems it names, unless stdio lost a part of it.
THEOREM DocumentWellFormed == Spec => []JsonDocument
<1>1. Init => JsonInv
  BY DEF Init, JsonInv, Cur
<1>2. RunInv /\ JsonInv /\ [Next]_vars => JsonInv'
  <2> SUFFICES ASSUME RunInv, JsonInv, [Next]_vars PROVE JsonInv'
    OBVIOUS
  <2>1. CASE opts.format # "json"
    <3>1. opts' = opts
      BY DEF Next, vars, Exited, StatfsFails, Statfs, Fiemap, PrintPath, PrintBody, OpenFails,
             OpenMounts, EndOfMounts, SkipMount, MountUnreadable, ReportMount, Closing, ReturnOk, Flush
    <3> QED BY <2>1, <3>1 DEF JsonInv
  <2>2. CASE opts.format = "json"
    <3>1. CASE \E m \in Mounts : SkipMount(m) \/ MountUnreadable(m) \/ ReportMount(m)
      BY <2>2, <3>1, JsonMount
    <3>2. CASE PrintPath \/ OpenMounts \/ PrintBody \/ Closing
      BY <2>2, <3>2, JsonPrint
    <3>3. CASE \/ StatfsFails \/ Statfs \/ Fiemap \/ OpenFails \/ EndOfMounts
               \/ ReturnOk \/ Flush \/ UNCHANGED vars
      BY <2>2, <3>3, JsonOther
    <3> QED BY <3>1, <3>2, <3>3 DEF Next, Exited
  <2> QED BY <2>1, <2>2
<1>3. JsonInv => JsonDocument
  BY DEF JsonInv, JsonDocument, Closed
<1> QED BY <1>1, <1>2, <1>3, RunStart, RunStep, PTL DEF Spec

-----------------------------------------------------------------------------
(* --all: what has been reported.  The reports of the table and those to   *)
(* a terminal are on standard output, the others there or, behind those,   *)
(* in the buffer of stdio.                                                 *)

Active == IF opts.format = "table" \/ opts.tty THEN stdout ELSE stdout \o buffer

Names(s) == {s[i].of : i \in {j \in DOMAIN s : IsReport(s[j])}}

Plain(s) == \A i \in DOMAIN s : ~IsReport(s[i]) /\ ~s[i].supported

\* The reports in s are on members of D, in ascending order.
Tidy(s, D) ==
  /\ \A i \in DOMAIN s : ~s[i].supported /\ (IsReport(s[i]) => s[i].of \in D)
  /\ \A i, j \in DOMAIN s :
        i < j /\ IsReport(s[i]) /\ IsReport(s[j]) => s[i].of < s[j].of

\* The mounts that are to be reported, and about which there is no message.
Due == {n \in 1 .. lineNo : Shown(mounts[n])} \ (skipped \cup told)

Reporting ==
  /\ pc \in {"start", "scan", "close", "return"}
  /\ pc = "start" => buffer = <<>> /\ stdout = <<>> /\ Due = {}
  /\ Tidy(Active, Due)
  /\ opts.tty => buffer = <<>>
  /\ opts.format = "table" => Plain(buffer)
  /\ opts.format = "table" \/ ~dropped => Due \subseteq Names(Active)

\* What the end owes to the mounts that are due.
Accounted ==
  rc = 0 =>
    /\ Tidy(stdout, Due)
    /\ opts.format = "table" \/ ~dropped => Due \subseteq Names(stdout)

AllInv == opts.all => IF pc = "exited" THEN Accounted ELSE Reporting

\* Without --quiet a message names each mount whose statfs failed.
WarnInv == opts.quiet \/ warned = skipped

LEMMA TidyMore ==
  ASSUME NEW s \in Seq(Pieces), NEW D \in SUBSET Nat, NEW D2 \in SUBSET Nat, D \subseteq D2, Tidy(s, D),
         NEW p \in Pieces, ~p.supported, IsReport(p) => p.of \in D2 /\ \A d \in D : d < p.of
  PROVE /\ Tidy(Append(s, p), D2)
        /\ Names(s) \subseteq Names(Append(s, p)) /\ (IsReport(p) => p.of \in Names(Append(s, p)))
<1> DEFINE t == Append(s, p)
           n == Len(s)
<1>1. /\ n \in Nat /\ DOMAIN s = 1 .. n /\ DOMAIN t = 1 .. n + 1
      /\ t[n + 1] = p /\ \A i \in 1 .. n : t[i] = s[i]
  OBVIOUS
<1> HIDE DEF t, n
<1>2. ASSUME NEW i \in DOMAIN t PROVE ~t[i].supported /\ (IsReport(t[i]) => t[i].of \in D2)
  <2>1. CASE i = n + 1
    BY <1>1, <2>1
  <2>2. CASE i \in 1 .. n
    BY <1>1, <2>2 DEF Tidy
  <2> QED BY <1>1, <2>1, <2>2
<1>3. ASSUME NEW i \in DOMAIN t, NEW j \in DOMAIN t, i < j, IsReport(t[i]), IsReport(t[j])
      PROVE t[i].of < t[j].of
  <2>1. CASE j = n + 1
    <3>1. i \in 1 .. n /\ t[i] = s[i] /\ t[j] = p
      BY <1>1, <1>3, <2>1
    <3>2. s[i].of \in D
      BY <1>1, <1>3, <3>1 DEF Tidy
    <3> QED BY <1>3, <3>1, <3>2
  <2>2. CASE j # n + 1
    <3>1. i \in DOMAIN s /\ j \in DOMAIN s /\ t[i] = s[i] /\ t[j] = s[j]
      BY <1>1, <1>3, <2>2
    <3> QED BY <1>3, <3>1 DEF Tidy
  <2> QED BY <2>1, <2>2
<1>4. Names(s) \subseteq Names(t)
  BY <1>1 DEF Names
<1>5. IsReport(p) => p.of \in Names(t)
  BY <1>1 DEF Names
<1> QED BY <1>2, <1>3, <1>4, <1>5 DEF Tidy, t

LEMMA TidyPrefix ==
  ASSUME NEW s \in Seq(Pieces), NEW D, Tidy(s, D), NEW t \in Seq(Pieces), Len(t) <= Len(s),
         \A i \in 1 .. Len(t) : t[i] = s[i]
  PROVE Tidy(t, D)
<1>1. /\ DOMAIN t = 1 .. Len(t) /\ DOMAIN s = 1 .. Len(s) /\ Len(s) \in Nat /\ Len(t) \in Nat
      /\ DOMAIN t \subseteq DOMAIN s
  OBVIOUS
<1> QED BY <1>1 DEF Tidy

LEMMA TidyCut ==
  ASSUME NEW s \in Seq(Pieces), NEW q \in Seq(Pieces), NEW D, NEW k \in 0 .. Len(q)
  PROVE /\ Tidy(s \o q, D) => Tidy(s, D) /\ Tidy(s \o SubSeq(q, 1, k), D)
        /\ Tidy(q, D) => Tidy(SubSeq(q, 1, k), D)
<1> DEFINE full == s \o q
           part == s \o SubSeq(q, 1, k)
           less == SubSeq(q, 1, k)
<1>1. full \in Seq(Pieces) /\ part \in Seq(Pieces) /\ less \in Seq(Pieces)
  OBVIOUS
<1>2. Len(s) <= Len(full) /\ Len(part) <= Len(full) /\ Len(less) <= Len(q)
  OBVIOUS
<1>3. /\ \A i \in 1 .. Len(s) : s[i] = full[i]
      /\ \A i \in 1 .. Len(part) : part[i] = full[i]
      /\ \A i \in 1 .. Len(less) : less[i] = q[i]
  OBVIOUS
<1> HIDE DEF full, part, less
<1>4. Tidy(full, D) => Tidy(s, D) /\ Tidy(part, D)
  BY <1>1, <1>2, <1>3, TidyPrefix
<1>5. Tidy(q, D) => Tidy(less, D)
  BY <1>1, <1>2, <1>3, TidyPrefix
<1> QED BY <1>4, <1>5 DEF full, part, less

\* Pieces of the layout disturb nothing.
LEMMA TidyPlain ==
  ASSUME NEW s \in Seq(Pieces), NEW D, Tidy(s, D), NEW q \in Seq(Pieces), Plain(q)
  PROVE Tidy(s \o q, D) /\ Names(s \o q) = Names(s)
<1> DEFINE t == s \o q
           n == Len(s)
           m == Len(q)
<1>1. /\ n \in Nat /\ m \in Nat /\ DOMAIN s = 1 .. n /\ DOMAIN q = 1 .. m /\ DOMAIN t = 1 .. n + m
      /\ \A i \in 1 .. n : t[i] = s[i]
      /\ \A i \in 1 .. n + m : i > n => t[i] = q[i - n] /\ i - n \in 1 .. m
  OBVIOUS
<1> HIDE DEF t, n, m
<1>2. \A i \in DOMAIN t : i > n => ~IsReport(t[i]) /\ ~t[i].supported
  BY <1>1 DEF Plain
<1>3. \A i \in DOMAIN t : i \in DOMAIN s \/ i > n
  BY <1>1
<1>4. Tidy(t, D)
  <2>1. \A i \in DOMAIN t : ~t[i].supported /\ (IsReport(t[i]) => t[i].of \in D)
    BY <1>1, <1>2, <1>3 DEF Tidy
  <2>2. \A i, j \in DOMAIN t : i < j /\ IsReport(t[i]) /\ IsReport(t[j]) => t[i].of < t[j].of
    BY <1>1, <1>2, <1>3 DEF Tidy
  <2> QED BY <2>1, <2>2 DEF Tidy
<1>5. Names(t) = Names(s)
  <2>1. {j \in DOMAIN t : IsReport(t[j])} = {j \in DOMAIN s : IsReport(s[j])}
    BY <1>1, <1>2, <1>3
  <2> QED BY <1>1, <2>1 DEF Names
<1> QED BY <1>4, <1>5 DEF t

LEMMA PlainMore ==
  ASSUME NEW s \in Seq(Pieces), NEW q \in Seq(Pieces), Plain(s), Plain(q)
  PROVE Plain(s \o q) /\ \A k \in 0 .. Len(q) : Plain(SubSeq(q, 1, k)) /\ SubSeq(q, 1, k) \in Seq(Pieces)
<1>1. \A k \in 0 .. Len(q) : Plain(SubSeq(q, 1, k)) /\ SubSeq(q, 1, k) \in Seq(Pieces)
  BY DEF Plain
<1> DEFINE t == s \o q
           n == Len(s)
           m == Len(q)
<1>2. /\ n \in Nat /\ m \in Nat /\ DOMAIN s = 1 .. n /\ DOMAIN q = 1 .. m /\ DOMAIN t = 1 .. n + m
      /\ \A i \in 1 .. n : t[i] = s[i]
      /\ \A i \in 1 .. n + m : i > n => t[i] = q[i - n] /\ i - n \in 1 .. m
  OBVIOUS
<1> HIDE DEF t, n, m
<1>3. \A i \in DOMAIN t : i \in DOMAIN s \/ i > n
  BY <1>2
<1>4. Plain(t)
  BY <1>2, <1>3 DEF Plain
<1> QED BY <1>1, <1>4 DEF t

\* What printf leaves of a stream, when all of it would be tidy.
LEMMA PrintActive ==
  ASSUME TypeOK, Reporting, NEW q \in Seq(Pieces), Printf(q), opts' = opts,
         NEW D, Tidy(Active \o q, D), opts.format = "table" => Plain(q)
  PROVE /\ Tidy(Active', D)
        /\ opts.tty => buffer' = <<>>
        /\ opts.format = "table" => Plain(buffer') /\ Names(Active') = Names(Active)
        /\ opts.format # "table" /\ ~dropped' => ~dropped /\ Active' = Active \o q
<1>1. stdout \in Seq(Pieces) /\ buffer \in Seq(Pieces) /\ Active \in Seq(Pieces)
  BY Joined DEF TypeOK, Active
<1>2. CASE opts.tty
  <2>1. PICK k \in 0 .. Len(q) :
          stdout' = stdout \o SubSeq(q, 1, k) /\ dropped' = (dropped \/ k < Len(q))
    BY <1>2 DEF Printf, Deliver
  <2>2. Active = stdout /\ Active' = stdout' /\ buffer' = buffer /\ buffer = <<>>
    BY <1>2 DEF Active, Printf, Reporting
  <2>3. Tidy(stdout', D)
    BY <1>1, <2>1, <2>2, TidyCut
  <2>4. ASSUME opts.format = "table" PROVE Names(stdout') = Names(stdout)
    BY <1>1, <2>1, <2>2, <2>4, PlainMore, TidyPlain DEF Reporting
  <2>5. opts.format # "table" /\ ~dropped' => ~dropped /\ Active' = Active \o q
    <3>1. Deliver(q)
      BY <1>2 DEF Printf
    <3> QED BY <2>2, <3>1, AllDelivered
  <2> QED BY <1>2, <2>2, <2>3, <2>4, <2>5 DEF Reporting
<1>3. CASE ~opts.tty
  <2>1. buffer' = buffer \o q /\ stdout' = stdout /\ dropped' = dropped
    BY <1>3, Zenon DEF Printf
  <2>2. CASE opts.format = "table"
    <3>1. Active = stdout /\ Active' = stdout
      BY <2>1, <2>2 DEF Active
    <3>2. Tidy(stdout, D)
      <4>1. 0 \in 0 .. Len(q)
        OBVIOUS
      <4> QED BY <1>1, <3>1, <4>1, TidyCut
    <3>3. Plain(buffer')
      BY <1>1, <2>1, <2>2, PlainMore DEF Reporting
    <3> QED BY <1>3, <2>2, <3>1, <3>2, <3>3
  <2>3. CASE opts.format # "table"
    <3>1. Active = stdout \o buffer /\ Active' = stdout \o (buffer \o q)
      BY <1>3, <2>1, <2>3 DEF Active
    <3>2. Active' = Active \o q
      BY <1>1, <3>1, Joined
    <3> QED BY <1>3, <2>1, <2>3, <3>2
  <2> QED BY <2>2, <2>3
<1> QED BY <1>2, <1>3

\* The opening and the end.
LEMMA PlainStep ==
  ASSUME TypeOK, Reporting, NEW q \in Seq(Pieces), Plain(q), Printf(q), opts' = opts, Due' = Due,
         pc' \in {"scan", "close", "return"}
  PROVE Reporting'
<1>1. Active \in Seq(Pieces)
  BY Joined DEF TypeOK, Active
<1>2. Tidy(Active \o q, Due) /\ Names(Active \o q) = Names(Active)
  BY <1>1, TidyPlain DEF Reporting
<1>3. /\ Tidy(Active', Due)
      /\ opts.tty => buffer' = <<>>
      /\ opts.format = "table" => Plain(buffer') /\ Names(Active') = Names(Active)
      /\ opts.format # "table" /\ ~dropped' => ~dropped /\ Active' = Active \o q
  BY <1>2, PrintActive
<1>4. Tidy(Active', Due')
  BY <1>3
<1>5. opts.format = "table" \/ ~dropped' => Due \subseteq Names(Active')
  BY <1>2, <1>3 DEF Reporting
<1> QED BY <1>3, <1>4, <1>5 DEF Reporting

\* The next line is due when it is to be shown and no message is about it.
LEMMA DueMount ==
  ASSUME TypeOK, NEW m \in Mounts, NextMount(m), opts' = opts,
         skipped' = skipped \/ skipped' = skipped \cup {lineNo'},
         told' = told \/ told' = told \cup {lineNo'}
  PROVE /\ lineNo' \in 0 .. MaxMounts /\ lineNo' \in Nat /\ Due \in SUBSET Nat
        /\ \A d \in Due : d < lineNo'
        /\ lineNo' \notin skipped /\ lineNo' \notin told
        /\ Due' = Due \cup (IF Shown(m) /\ lineNo' \notin skipped' \cup told' THEN {lineNo'} ELSE {})
<1>1. /\ lineNo \in Nat /\ lineNo' = lineNo + 1 /\ lineNo' \in 0 .. MaxMounts
      /\ mounts' = Append(mounts, m) /\ mounts \in Seq(Mounts) /\ Len(mounts) = lineNo
      /\ skipped \subseteq 1 .. lineNo /\ told \subseteq 0 .. lineNo
  BY RunAssumption DEF RunAssumption, TypeOK, NextMount
<1>2. mounts'[lineNo + 1] = m /\ \A n \in 1 .. lineNo : mounts'[n] = mounts[n]
  BY <1>1
<1>3. \A n \in 1 .. lineNo : Shown(mounts[n])' <=> Shown(mounts[n])
  BY <1>1, <1>2 DEF Shown, Parses
<1>4. Shown(mounts[lineNo])' <=> Shown(m)
  BY <1>1, <1>2 DEF Shown, Parses
<1>5. ASSUME NEW n \in 1 .. lineNo PROVE n \in Due' <=> n \in Due
  <2>1. n \in 1 .. lineNo' /\ n # lineNo'
    BY <1>1
  <2>2. (n \in skipped' <=> n \in skipped) /\ (n \in told' <=> n \in told)
    BY <2>1
  <2> QED BY <1>3, <2>1, <2>2 DEF Due
<1>6. Due \subseteq 1 .. lineNo /\ Due' \subseteq 1 .. lineNo + 1
  BY <1>1 DEF Due
<1>7. lineNo' \in Due' <=> Shown(m) /\ lineNo' \notin skipped' \cup told'
  BY <1>1, <1>4 DEF Due
<1>8. \A d \in Due : d < lineNo' /\ d \in Nat
  BY <1>1, <1>6
<1>9. Due' = Due \cup (IF Shown(m) /\ lineNo' \notin skipped' \cup told' THEN {lineNo'} ELSE {})
  <2>1. \A n : n \in Due' => n = lineNo' \/ n \in 1 .. lineNo
    BY <1>1, <1>6
  <2>2. lineNo' \notin 1 .. lineNo /\ lineNo' \notin Due
    BY <1>1, <1>6
  <2>3. Due \subseteq Due'
    BY <1>5, <1>6
  <2>4. Due' \subseteq Due \cup {lineNo'}
    BY <1>5, <2>1
  <2> QED BY <1>7, <2>2, <2>3, <2>4
<1>10. lineNo' \notin skipped /\ lineNo' \notin told
  BY <1>1
<1> QED BY <1>1, <1>8, <1>9, <1>10

\* A line that is not reported.
LEMMA QuietMount ==
  ASSUME TypeOK, Reporting, NEW m \in Mounts, SkipMount(m) \/ MountUnreadable(m)
  PROVE Reporting'
<1>1. /\ pc = "scan" /\ pc' = pc /\ opts' = opts /\ NextMount(m)
      /\ UNCHANGED <<buffer, stdout, dropped, told>>
      /\ (skipped' = skipped /\ ~Shown(m)) \/ skipped' = skipped \cup {lineNo'}
  BY DEF SkipMount, MountUnreadable, GiveUp, NextMount, output
<1>2. Due' = Due
  BY <1>1, DueMount
<1>3. Active' = Active
  BY <1>1 DEF Active
<1> QED BY <1>1, <1>2, <1>3 DEF Reporting

\* A report written to the table, in full, in part or not at all.
LEMMA WriteMount ==
  ASSUME TypeOK, Reporting, NEW m \in Mounts, ReportMount(m), opts.format = "table"
  PROVE Reporting'
<1> DEFINE p == Report(lineNo', FALSE)
           part == [p EXCEPT !.piece = "part"]
<1>1. /\ pc = "scan" /\ pc' = pc /\ opts' = opts /\ NextMount(m) /\ Shown(m) /\ skipped' = skipped
      /\ Write(p)
  BY DEF ReportMount, NextMount, PrintOut
<1>2. p.of = lineNo' /\ ~p.supported /\ IsReport(p) /\ part.of = lineNo' /\ ~part.supported /\ ~IsReport(part)
  BY DEF Report, IsReport
<1>3. /\ buffer' = buffer /\ dropped' = dropped
      /\ \/ stdout' = Append(stdout, p) /\ told' = told
         \/ stdout' = Append(stdout, part) /\ told' = told \cup {lineNo'}
         \/ stdout' = stdout /\ told' = told \cup {lineNo'}
  BY <1>1, <1>2 DEF Write
<1>4. /\ lineNo' \in 0 .. MaxMounts /\ lineNo' \in Nat /\ Due \in SUBSET Nat
      /\ \A d \in Due : d < lineNo'
      /\ lineNo' \notin skipped /\ lineNo' \notin told
      /\ Due' = Due \cup (IF Shown(m) /\ lineNo' \notin skipped' \cup told' THEN {lineNo'} ELSE {})
  BY <1>1, <1>3, DueMount
<1>5. p \in Pieces /\ part \in Pieces
  <2>1. p \in Pieces
    BY <1>4, PieceType
  <2> QED BY <2>1 DEF Pieces
<1>6. Active = stdout /\ Active' = stdout' /\ stdout \in Seq(Pieces) /\ Tidy(stdout, Due) /\ Due \subseteq Names(stdout)
  BY <1>1 DEF Active, TypeOK, Reporting
<1> HIDE DEF p, part
<1>7. Tidy(stdout', Due') /\ Due' \subseteq Names(stdout')
  <2>1. CASE stdout' = Append(stdout, p) /\ told' = told
    <3>1. Due' = Due \cup {lineNo'} /\ Due' \in SUBSET Nat
      BY <1>1, <1>4, <2>1
    <3> QED BY <1>2, <1>4, <1>5, <1>6, <2>1, <3>1, TidyMore
  <2>2. CASE stdout' = Append(stdout, part) /\ told' = told \cup {lineNo'}
    <3>1. Due' = Due
      BY <1>4, <2>2
    <3> QED BY <1>2, <1>4, <1>5, <1>6, <2>2, <3>1, TidyMore
  <2>3. CASE stdout' = stdout /\ told' = told \cup {lineNo'}
    BY <1>4, <1>6, <2>3
  <2> QED BY <1>3, <2>1, <2>2, <2>3
<1>8. opts.tty => buffer' = <<>>
  BY <1>3 DEF Reporting
<1>9. Plain(buffer')
  BY <1>3 DEF Reporting
<1> QED BY <1>1, <1>6, <1>7, <1>8, <1>9 DEF Reporting

\* A report that is printed, behind a comma or not.
LEMMA PrintMount ==
  ASSUME TypeOK, Reporting, NEW m \in Mounts, ReportMount(m), opts.format # "table"
  PROVE Reporting'
<1> DEFINE p == Report(lineNo', FALSE)
           c == Piece("comma")
<1>1. /\ pc = "scan" /\ pc' = pc /\ opts' = opts /\ NextMount(m) /\ Shown(m) /\ skipped' = skipped
      /\ Printf(<<c, p>>) \/ Printf(<<p>>)
      /\ told' = told
  BY DEF ReportMount, NextMount, PrintOut, Printf
<1>2. p.of = lineNo' /\ ~p.supported /\ IsReport(p) /\ ~c.supported /\ ~IsReport(c)
  BY DEF Report, IsReport, Piece
<1>3. /\ lineNo' \in 0 .. MaxMounts /\ lineNo' \in Nat /\ Due \in SUBSET Nat
      /\ \A d \in Due : d < lineNo'
      /\ Due' = Due \cup {lineNo'}
  <2>1. /\ lineNo' \in 0 .. MaxMounts /\ lineNo' \in Nat /\ Due \in SUBSET Nat
        /\ \A d \in Due : d < lineNo'
        /\ lineNo' \notin skipped /\ lineNo' \notin told
        /\ Due' = Due \cup (IF Shown(m) /\ lineNo' \notin skipped' \cup told' THEN {lineNo'} ELSE {})
    BY <1>1, DueMount
  <2> QED BY <1>1, <2>1
<1>4. p \in Pieces /\ c \in Pieces
  BY <1>3, PieceType
<1> HIDE DEF p, c
<1>5. Active \in Seq(Pieces) /\ Tidy(Active, Due)
  BY Joined DEF Active, TypeOK, Reporting
<1>6. PICK q \in {<<p>>, <<c, p>>} : Printf(q)
  BY <1>1
<1>7. /\ q \in Seq(Pieces) /\ Tidy(Active \o q, Due') /\ Names(Active) \subseteq Names(Active \o q)
      /\ lineNo' \in Names(Active \o q)
  <2>1. Due' \in SUBSET Nat /\ Due \subseteq Due' /\ lineNo' \in Due'
    BY <1>3
  <2>2. CASE q = <<p>>
    <3>1. Active \o q = Append(Active, p) /\ q \in Seq(Pieces)
      BY <1>4, <1>5, <2>2
    <3> DEFINE t == Append(Active, p)
    <3>2. Tidy(t, Due') /\ Names(Active) \subseteq Names(t) /\ p.of \in Names(t)
      BY <1>2, <1>3, <1>4, <1>5, <2>1, TidyMore
    <3> HIDE DEF t
    <3> QED BY <1>2, <3>1, <3>2 DEF t
  <2>3. CASE q = <<c, p>>
    <3> DEFINE a == Append(Active, c)
    <3>1. Active \o q = Append(a, p) /\ a \in Seq(Pieces) /\ q \in Seq(Pieces)
      BY <1>4, <1>5, <2>3
    <3>2. Tidy(a, Due) /\ Names(Active) \subseteq Names(a)
      BY <1>2, <1>3, <1>4, <1>5, TidyMore
    <3> HIDE DEF a
    <3> DEFINE t == Append(a, p)
    <3>3. Tidy(t, Due') /\ Names(a) \subseteq Names(t) /\ p.of \in Names(t)
      BY <1>2, <1>3, <1>4, <2>1, <3>1, <3>2, TidyMore
    <3> HIDE DEF t
    <3> QED BY <1>2, <3>1, <3>2, <3>3 DEF t
  <2> QED BY <2>2, <2>3
<1>8. /\ Tidy(Active', Due')
      /\ opts.tty => buffer' = <<>>
      /\ ~dropped' => ~dropped /\ Active' = Active \o q
  BY <1>1, <1>6, <1>7, PrintActive
<1>9. ~dropped' => Due' \subseteq Names(Active')
  BY <1>3, <1>7, <1>8 DEF Reporting
<1> QED BY <1>1, <1>8, <1>9 DEF Reporting

\* What the buffer adds to standard output when it is emptied, in full or in part.
LEMMA Emptied ==
  ASSUME TypeOK, Reporting, Deliver(buffer)
  PROVE /\ Tidy(stdout', Due) /\ stdout' \in Seq(Pieces)
        /\ opts.format = "table" \/ ~dropped' => Due \subseteq Names(stdout')
<1>1. PICK k \in 0 .. Len(buffer) :
        stdout' = stdout \o SubSeq(buffer, 1, k) /\ dropped' = (dropped \/ k < Len(buffer))
  BY DEF Deliver
<1>2. buffer \in Seq(Pieces) /\ stdout \in Seq(Pieces) /\ stdout' \in Seq(Pieces)
  <2>1. buffer \in Seq(Pieces) /\ stdout \in Seq(Pieces)
    BY DEF TypeOK
  <2> QED BY <2>1, DeliverType
<1>3. CASE opts.format = "table" \/ opts.tty
  <2>1. Active = stdout /\ Plain(buffer)
    BY <1>3 DEF Active, Reporting, Plain
  <2> DEFINE part == SubSeq(buffer, 1, k)
  <2>2. Plain(part) /\ part \in Seq(Pieces)
    BY <1>2, <2>1, PlainMore
  <2>3. ~dropped' => ~dropped
    BY <1>1, Zenon
  <2>4. stdout' = stdout \o part
    BY <1>1
  <2> HIDE DEF part
  <2>5. Tidy(stdout \o part, Due) /\ Names(stdout \o part) = Names(stdout)
    BY <1>2, <2>1, <2>2, TidyPlain DEF Reporting
  <2>6. opts.format = "table" \/ ~dropped' => Due \subseteq Names(stdout)
    BY <2>1, <2>3 DEF Reporting
  <2> QED BY <1>2, <2>4, <2>5, <2>6
<1>4. CASE ~(opts.format = "table" \/ opts.tty)
  <2>1. Active = stdout \o buffer /\ Tidy(stdout \o buffer, Due)
    BY <1>4 DEF Active, Reporting
  <2>2. Tidy(stdout', Due)
    BY <1>1, <1>2, <2>1, TidyCut
  <2>3. ASSUME ~dropped' PROVE Due \subseteq Names(stdout')
    <3>1. ~dropped /\ stdout' = stdout \o buffer
      BY <1>2, <2>3, AllDelivered
    <3> QED BY <2>1, <3>1 DEF Reporting
  <2> QED BY <1>2, <1>4, <2>2, <2>3
<1> QED BY <1>3, <1>4

LEMMA FlushStep ==
  ASSUME TypeOK, Reporting, Flush
  PROVE Reporting'
<1>1. /\ ~opts.tty /\ buffer # <<>> /\ Deliver(buffer) /\ buffer' = <<>>
      /\ UNCHANGED <<pc, opts, lineNo, told, mounts, skipped>>
  BY DEF Flush, history, lines
<1>2. pc' = pc /\ pc # "start" /\ opts' = opts
  BY <1>1 DEF Reporting
<1>3. Due' = Due
  BY <1>1 DEF Due, Shown, Parses
<1>4. /\ Tidy(stdout', Due) /\ stdout' \in Seq(Pieces)
      /\ opts.format = "table" \/ ~dropped' => Due \subseteq Names(stdout')
  BY <1>1, Emptied
<1>5. Active' = stdout'
  BY <1>1, <1>4, Joined DEF Active
<1>6. Plain(buffer')
  BY <1>1 DEF Plain
<1>7. Tidy(Active', Due') /\ (opts.format = "table" \/ ~dropped' => Due' \subseteq Names(Active'))
  BY <1>3, <1>4, <1>5
<1> QED BY <1>1, <1>2, <1>6, <1>7 DEF Reporting

\* Everything else a run with --all does.
LEMMA OtherStep ==
  ASSUME TypeOK, Quiet, Reporting, opts.all, opts' = opts,
         OpenFails \/ OpenMounts \/ EndOfMounts \/ Closing \/ ReturnOk
  PROVE IF pc' = "exited" THEN Accounted' ELSE Reporting'
<1>1. CASE OpenFails
  <2>1. pc' = "exited" /\ rc' = 1
    BY <1>1 DEF OpenFails, Return
  <2> QED BY <2>1 DEF Accounted
<1>2. CASE OpenMounts
  <2>1. /\ Printf(Opening(opts.format)) /\ pc' = "scan" /\ lineNo' = lineNo /\ mounts' = mounts
        /\ skipped' = skipped /\ told' = told
    BY <1>2 DEF OpenMounts, history, lines, Printf
  <2>2. Plain(Opening(opts.format)) /\ Opening(opts.format) \in Seq(Pieces)
    <3>1. opts.format \in Formats
      BY DEF TypeOK, Options
    <3>2. Opening(opts.format) \in Seq(Pieces)
      BY <3>1, PieceType
    <3>3. Opening(opts.format) \in {<<Piece("open")>>, <<Piece("header")>>, <<>>}
      BY DEF Opening
    <3>4. Plain(<<Piece("open")>>) /\ Plain(<<Piece("header")>>) /\ Plain(<<>>)
      BY DEF Plain, Piece, IsReport
    <3> QED BY <3>2, <3>3, <3>4
  <2>3. Due' = Due
    BY <2>1 DEF Due, Shown, Parses
  <2> QED BY <2>1, <2>2, <2>3, PlainStep
<1>3. CASE EndOfMounts
  <2>1. /\ pc = "scan" /\ pc' = "close"
        /\ UNCHANGED <<lineNo, mounts, skipped, told, buffer, stdout, dropped>>
    BY <1>3 DEF EndOfMounts, output, history, lines
  <2>2. Due' = Due /\ Active' = Active
    BY <2>1 DEF Due, Active, Shown, Parses
  <2> QED BY <2>1, <2>2 DEF Reporting
<1>4. CASE Closing
  <2> DEFINE q == IF opts.format = "json" THEN <<Piece("close")>> ELSE <<>>
  <2>1. /\ Printf(q) /\ pc' = "return" /\ lineNo' = lineNo /\ mounts' = mounts
        /\ skipped' = skipped /\ told' = told
    BY <1>4 DEF Closing, history, lines, Printf
  <2>2. Plain(q) /\ q \in Seq(Pieces)
    <3>1. Plain(<<Piece("close")>>) /\ Plain(<<>>)
      BY DEF Plain, Piece, IsReport
    <3> QED BY <3>1, PieceType
  <2>3. Due' = Due
    BY <2>1 DEF Due, Shown, Parses
  <2> HIDE DEF q
  <2> QED BY <2>1, <2>2, <2>3, PlainStep
<1>5. CASE ReturnOk
  <2>1. /\ pc' = "exited" /\ told' = told /\ Deliver(buffer) /\ pc = "return"
        /\ lineNo' = lineNo /\ mounts' = mounts /\ skipped' = skipped
    BY <1>5 DEF ReturnOk, Return, history, lines
  <2>2. Due' = Due
    BY <2>1 DEF Due, Shown, Parses
  <2>3. Tidy(stdout', Due) /\ (opts.format = "table" \/ ~dropped' => Due \subseteq Names(stdout'))
    BY <2>1, Emptied
  <2>4. Tidy(stdout', Due') /\ (opts.format = "table" \/ ~dropped' => Due' \subseteq Names(stdout'))
    BY <2>2, <2>3
  <2>5. Accounted'
    BY <2>4 DEF Accounted
  <2> QED BY <2>1, <2>5
<1> QED BY <1>1, <1>2, <1>3, <1>4, <1>5

LEMMA WarnStep == RunInv /\ WarnInv /\ [Next]_vars => WarnInv'
<1> SUFFICES ASSUME RunInv, WarnInv, [Next]_vars PROVE WarnInv'
  OBVIOUS
<1> USE DEF WarnInv
<1>1. CASE \E m \in Mounts : SkipMount(m) \/ MountUnreadable(m) \/ ReportMount(m)
  BY <1>1 DEF SkipMount, MountUnreadable, ReportMount, GiveUp
<1>2. CASE StatfsFails \/ Statfs \/ Fiemap \/ PrintPath \/ PrintBody
  BY <1>2 DEF StatfsFails, Statfs, Fiemap, PrintPath, PrintBody, history, lines
<1>3. CASE OpenFails \/ OpenMounts \/ EndOfMounts \/ Closing \/ ReturnOk \/ Flush \/ UNCHANGED vars
  BY <1>3 DEF OpenFails, OpenMounts, EndOfMounts, Closing, ReturnOk, Flush, vars, history, lines
<1> QED BY <1>1, <1>2, <1>3 DEF Next, Exited

\* At the end every mount has been reported, was not asked for, is named in a
\* message, or is one of those of which nothing can be known.
LEMMA AtTheEnd ==
  ASSUME RunInv, WarnInv, AllInv
  PROVE AllReported
<1> SUFFICES ASSUME pc = "exited", opts.all, rc = 0
             PROVE /\ \A n \in 1 .. lineNo :
                        \/ n \in Reported \/ Excluded(mounts[n]) \/ n \in warned \cup told
                        \/ Unsaid(n)
                   /\ \A n \in Reported :
                        n \in 1 .. lineNo /\ ~Excluded(mounts[n]) /\ n \notin skipped \cup told
                   /\ \A i, j \in DOMAIN stdout :
                        i < j /\ IsReport(stdout[i]) /\ IsReport(stdout[j]) => stdout[i].of < stdout[j].of
                   /\ \A i \in DOMAIN stdout : ~stdout[i].supported
  BY DEF AllReported
<1>1. Tidy(stdout, Due) /\ (opts.format = "table" \/ ~dropped => Due \subseteq Names(stdout))
  BY DEF AllInv, Accounted
<1>2. Reported = Names(stdout)
  BY DEF Reported, Names
<1>3. ASSUME NEW n \in 1 .. lineNo
      PROVE \/ n \in Reported \/ Excluded(mounts[n]) \/ n \in warned \cup told
            \/ Unsaid(n)
  <2>1. CASE n \in Due
    BY <1>1, <1>2, <2>1 DEF Unsaid
  <2>2. CASE n \in skipped
    BY <2>2 DEF WarnInv, Unsaid
  <2>3. CASE ~Shown(mounts[n])
    BY <2>3 DEF Shown, Parses, Excluded, Unsaid
  <2> QED BY <2>1, <2>2, <2>3 DEF Due
<1>4. ASSUME NEW n \in Reported
      PROVE n \in 1 .. lineNo /\ ~Excluded(mounts[n]) /\ n \notin skipped \cup told
  <2>1. n \in Due
    BY <1>1 DEF Reported, Tidy
  <2> QED BY <2>1 DEF Due, Shown, Excluded
<1> QED BY <1>1, <1>3, <1>4 DEF Tidy

\* Each mounted file system that was not asked to be left out is reported once, in
\* full and in the order of the mount table, or named in a message; what goes unsaid
\* is a line with a field that is too long, a failed statfs under --quiet, and what
\* stdio loses.
THEOREM EveryMountReported == Spec => []AllReported
<1>1. Init => AllInv
  <2> SUFFICES ASSUME Init PROVE AllInv
    OBVIOUS
  <2>1. lineNo = 0 /\ buffer = <<>> /\ stdout = <<>> /\ pc = "start"
    BY DEF Init
  <2>2. Due = {} /\ Active = <<>> /\ Plain(buffer) /\ Tidy(<<>>, {})
    BY <2>1 DEF Due, Active, Plain, Tidy
  <2> QED BY <2>1, <2>2 DEF AllInv, Reporting
<1>2. RunInv /\ AllInv /\ [Next]_vars => AllInv'
  <2> SUFFICES ASSUME RunInv, AllInv, [Next]_vars PROVE AllInv'
    OBVIOUS
  <2>1. opts' = opts
    BY DEF Next, vars, Exited, StatfsFails, Statfs, Fiemap, PrintPath, PrintBody, OpenFails,
           OpenMounts, EndOfMounts, SkipMount, MountUnreadable, ReportMount, Closing, ReturnOk, Flush
  <2>2. CASE ~opts.all
    BY <2>1, <2>2 DEF AllInv
  <2>3. CASE opts.all /\ pc = "exited"
    <3>1. UNCHANGED vars
      BY <2>3 DEF Next, Exited, StatfsFails, Statfs, Fiemap, PrintPath, PrintBody, OpenFails,
           OpenMounts, EndOfMounts, SkipMount, MountUnreadable, ReportMount, NextMount, Closing, ReturnOk, Flush
    <3> QED BY <3>1 DEF vars, output, history, lines, AllInv, Accounted, Shown, Parses, Reporting, Due, Active
  <2>4. CASE opts.all /\ pc # "exited"
    <3>1. TypeOK /\ Quiet /\ Reporting
      BY <2>4 DEF RunInv, AllInv
    <3>2. CASE \E m \in Mounts : SkipMount(m) \/ MountUnreadable(m) \/ ReportMount(m)
      <4>1. pc' # "exited"
        BY <2>4, <3>2 DEF SkipMount, MountUnreadable, ReportMount
      <4>2. Reporting'
        BY <3>1, <3>2, QuietMount, WriteMount, PrintMount
      <4> QED BY <4>1, <4>2 DEF AllInv
    <3>3. CASE OpenFails \/ OpenMounts \/ EndOfMounts \/ Closing \/ ReturnOk
      BY <2>1, <2>4, <3>1, <3>3, OtherStep DEF AllInv
    <3>4. CASE StatfsFails \/ Statfs \/ Fiemap \/ PrintPath \/ PrintBody
      BY <2>4, <3>1, <3>4 DEF StatfsFails, Statfs, Fiemap, PrintPath, PrintBody, Reporting
    <3>5. CASE UNCHANGED vars
      <4>1. /\ pc' = pc /\ Due' = Due /\ Active' = Active /\ buffer' = buffer /\ stdout' = stdout /\ dropped' = dropped
        BY <3>5 DEF vars, output, history, lines, Due, Active, Shown, Parses
      <4>2. Reporting'
        BY <2>1, <3>1, <4>1 DEF Reporting
      <4> QED BY <2>4, <4>1, <4>2 DEF AllInv
    <3>6. CASE Flush
      <4>1. pc' # "exited"
        BY <3>6 DEF Flush
      <4> QED BY <3>1, <3>6, <4>1, FlushStep DEF AllInv
    <3> QED BY <2>4, <3>2, <3>3, <3>4, <3>5, <3>6 DEF Next, Exited
  <2> QED BY <2>2, <2>3, <2>4
<1>3. Init => WarnInv
  BY DEF Init, WarnInv
<1>4. RunInv /\ WarnInv /\ AllInv => AllReported
  BY AtTheEnd
<1> QED BY <1>1, <1>2, <1>3, <1>4, WarnStep, RunStart, RunStep, PTL DEF Spec
=============================================================================
