----------------------------- MODULE DiagfsRun -----------------------------
(***************************************************************************)
(* One run of diagfs after its options (diagfs.c, diagfs_mount.c): one     *)
(* path, or every line of /proc/self/mounts, is measured through libdiag   *)
(* (diag_fs.c) and reported on standard output.                            *)
(*                                                                         *)
(* Standard output has two writers: printf, which goes through the buffer  *)
(* of stdio, and print_out_table, which calls write(2).  To a terminal the *)
(* buffer is flushed at each line, otherwise when it is full and at the    *)
(* end of the program.  Standard output may refuse bytes (a full disk):    *)
(* write(2) is checked, what stdio loses is not.                           *)
(***************************************************************************)
EXTENDS Integers, Sequences

CONSTANTS
    Formats,   \* the values of --output
    MaxMounts  \* bound: lines of the mount table

ASSUME RunAssumption ==
    /\ Formats = {"table", "raw", "json"}
    /\ MaxMounts \in Nat

VARIABLES
    pc,        \* the step of diagfs_main or scan_all_mounts
    opts,      \* what diagfs_main has read from argv, and what stdout is
    isFirst,   \* is_first of scan_all_mounts
    lineNo,    \* lines of the mount table read so far
    buffer,    \* printed, and still in the buffer of stdio
    stdout,    \* what the reader of standard output has received
    rc,        \* what diagfs_main returns
    mounts,    \* history: the lines of the mount table, as read
    skipped,   \* history: the lines whose statfs failed
    warned,    \* history: the lines that a message on stderr gives up
    told,      \* history: the reports whose write(2) was announced as failed
    dropped,   \* history: standard output refused what stdio gave it
    fiemap     \* history: what FIEMAP answered, if it was asked

output == <<buffer, stdout, dropped, told>>
lines == <<mounts, skipped, warned>>
history == <<lines, fiemap>>
vars == <<pc, opts, isFirst, lineNo, output, rc, history>>

Options ==
    [all : BOOLEAN, filter : {"real", "pseudo"}, fiemap : BOOLEAN, format : Formats,
     noHeader : BOOLEAN, quiet : BOOLEAN, tty : BOOLEAN]

\* A mounted file system: its type is one of those is_pseudo_fs knows; it is
\* mounted below /proc/ or /sys/; one of its fields is longer than the array it is
\* read into, such as options of more than 1023 characters.
Mounts == [pseudo : BOOLEAN, hidden : BOOLEAN, long : BOOLEAN]

\* What is printed: a piece of the layout, or the report on one file system.
\* "of" is its line in the mount table, or 0 for the PATH argument.
Piece(p) == [piece |-> p, of |-> 0, supported |-> FALSE]
Report(n, layout) == [piece |-> "report", of |-> n, supported |-> layout]

Answers == {"unasked", "ok", "unsupported", "error"}

Init ==
    /\ opts \in Options
    /\ pc = "start"
    /\ isFirst = TRUE
    /\ lineNo = 0
    /\ buffer = <<>> /\ stdout = <<>>
    /\ rc = 0
    /\ mounts = <<>> /\ skipped = {} /\ warned = {} /\ told = {} /\ dropped = FALSE /\ fiemap = "unasked"

-----------------------------------------------------------------------------
(* The two ways to standard output.                                        *)

\* stdio hands these pieces to standard output, which may refuse the last ones.
Deliver(pieces) ==
    \E k \in 0 .. Len(pieces) :
        /\ stdout' = stdout \o SubSeq(pieces, 1, k)
        /\ dropped' = (dropped \/ k < Len(pieces))

Printf(pieces) ==
    /\ IF opts.tty
       THEN Deliver(pieces) /\ UNCHANGED buffer
       ELSE buffer' = buffer \o pieces /\ UNCHANGED <<stdout, dropped>>
    /\ UNCHANGED told

\* The buffer of stdio is full.  A piece of which only the first bytes go out counts
\* as one that is still in the buffer.
Flush ==
    /\ ~opts.tty /\ buffer # <<>> /\ pc # "exited"
    /\ Deliver(buffer)
    /\ buffer' = <<>>
    /\ UNCHANGED <<pc, opts, isFirst, lineNo, told, rc, history>>

\* print_out_table: write(2) takes the report, a part of it or nothing.
Write_Short(report) ==             \* mutant: a short write passes for a whole one
    /\ \/ stdout' = Append(stdout, report) /\ UNCHANGED told
       \/ stdout' = Append(stdout, [report EXCEPT !.piece = "part"]) /\ UNCHANGED told
       \/ UNCHANGED stdout /\ told' = told \cup {report.of}
    /\ UNCHANGED <<buffer, dropped>>
Write(report) ==
    /\ \/ stdout' = Append(stdout, report) /\ UNCHANGED told
       \/ stdout' = Append(stdout, [report EXCEPT !.piece = "part"]) /\ told' = told \cup {report.of}
       \/ UNCHANGED stdout /\ told' = told \cup {report.of}
    /\ UNCHANGED <<buffer, dropped>>

\* print_out_json and print_out_raw use printf, print_out_table writes.
PrintOut(report) == IF opts.format = "table" THEN Write(report) ELSE Printf(<<report>>)

\* diagfs_main returns; exit() flushes the buffer.
Return(code) ==
    /\ pc' = "exited"
    /\ rc' = code
    /\ Deliver(buffer)
    /\ buffer' = <<>>
    /\ UNCHANGED told

-----------------------------------------------------------------------------
(* One path.                                                               *)

\* statfs fails.
StatfsFails ==
    /\ pc = "start" /\ ~opts.all
    /\ Return(1)
    /\ UNCHANGED <<opts, isFirst, lineNo, history>>

\* statfs has answered and ret_fiemap is 0.
Statfs ==
    /\ pc = "start" /\ ~opts.all
    /\ pc' = IF opts.fiemap THEN "fiemap" ELSE "report"
    /\ UNCHANGED <<opts, isFirst, lineNo, output, rc, history>>

\* diag_fs_read_fiemap: only an unsupported file system ends the run; a path
\* that cannot be opened, or any other error of the ioctl, goes on.
Fiemap ==
    /\ pc = "fiemap"
    /\ fiemap' \in Answers \ {"unasked"}
    /\ IF fiemap' = "unsupported"
       THEN Return(3)
       ELSE pc' = "report" /\ UNCHANGED <<rc, output>>
    /\ UNCHANGED <<opts, isFirst, lineNo, lines>>

\* analyze_layout is given ret_fiemap, which is 0 when FIEMAP was not called.
LayoutOfPath == fiemap # "error"

\* The header of the table, or the opening of the JSON document.
Opening(format) ==
    CASE format = "json" -> <<Piece("open")>>
      [] format = "table" /\ ~opts.noHeader -> <<Piece("header")>>
      [] OTHER -> <<>>

PrintPath ==
    /\ pc = "report"
    /\ Printf(Opening(opts.format))
    /\ pc' = "body"
    /\ UNCHANGED <<opts, isFirst, lineNo, rc, history>>

PrintBody ==
    /\ pc = "body"
    /\ PrintOut(Report(0, LayoutOfPath))
    /\ pc' = "close"
    /\ UNCHANGED <<opts, isFirst, lineNo, rc, history>>

-----------------------------------------------------------------------------
(* scan_all_mounts.                                                        *)

\* /proc/self/mounts cannot be opened.
OpenFails_Opening ==               \* mutant: the document is opened before the table is
    /\ pc = "start" /\ opts.all
    /\ pc' = "exited"
    /\ rc' = 1
    /\ stdout' = Opening(opts.format)
    /\ UNCHANGED <<opts, isFirst, lineNo, buffer, dropped, told, history>>
OpenFails ==
    /\ pc = "start" /\ opts.all
    /\ Return(1)
    /\ UNCHANGED <<opts, isFirst, lineNo, history>>

OpenMounts ==
    /\ pc = "start" /\ opts.all
    /\ Printf(Opening(opts.format))
    /\ pc' = "scan"
    /\ UNCHANGED <<opts, isFirst, lineNo, rc, history>>

\* The next line of the table.
NextMount(m) ==
    /\ pc = "scan"
    /\ lineNo < MaxMounts
    /\ lineNo' = lineNo + 1
    /\ mounts' = Append(mounts, m)

\* sscanf finds its six fields only when each fits.
Parses(m) == ~m.long
\* --pseudo adds the pseudo file systems to the real ones.
Shown(m) == Parses(m) /\ ~(opts.filter = "real" /\ m.pseudo) /\ ~m.hidden

SkipMount(m) ==
    /\ NextMount(m)
    /\ ~Shown(m)
    /\ UNCHANGED <<pc, opts, isFirst, output, rc, skipped, warned, fiemap>>

\* statfs fails on the mount point: a warning unless --quiet, and the next line.
GiveUp ==
    /\ skipped' = skipped \cup {lineNo'}
    /\ warned' = IF opts.quiet THEN warned ELSE warned \cup {lineNo'}
MountUnreadable_Comma(m) ==        \* mutant: the comma is printed before statfs is tried
    /\ NextMount(m)
    /\ Shown(m)
    /\ Printf(IF opts.format = "json" /\ ~isFirst THEN <<Piece("comma")>> ELSE <<>>)
    /\ GiveUp
    /\ UNCHANGED <<pc, opts, isFirst, rc, fiemap>>
MountUnreadable(m) ==
    /\ NextMount(m)
    /\ Shown(m)
    /\ GiveUp
    /\ UNCHANGED <<pc, opts, isFirst, output, rc, fiemap>>

\* FIEMAP is never asked here: ret_fiemap is DIAG_ERR_UNSUPPORTED.
ReportMount(m) ==
    /\ NextMount(m)
    /\ Shown(m)
    /\ IF opts.format = "json" /\ ~isFirst
       THEN Printf(<<Piece("comma"), Report(lineNo', FALSE)>>)
       ELSE PrintOut(Report(lineNo', FALSE))
    /\ isFirst' = (isFirst /\ opts.format # "json")
    /\ UNCHANGED <<pc, opts, rc, skipped, warned, fiemap>>

\* fgets returns NULL, at the end of the table or on an error: the code does
\* not ask which.
EndOfMounts ==
    /\ pc = "scan"
    /\ pc' = "close"
    /\ UNCHANGED <<opts, isFirst, lineNo, output, rc, history>>

-----------------------------------------------------------------------------

\* The end of the JSON document.
Closing ==
    /\ pc = "close"
    /\ Printf(IF opts.format = "json" THEN <<Piece("close")>> ELSE <<>>)
    /\ pc' = "return"
    /\ UNCHANGED <<opts, isFirst, lineNo, rc, history>>

ReturnOk ==
    /\ pc = "return"
    /\ Return(0)
    /\ UNCHANGED <<opts, isFirst, lineNo, history>>

Exited == pc = "exited" /\ UNCHANGED vars

Next ==
    \/ StatfsFails \/ Statfs \/ Fiemap \/ PrintPath \/ PrintBody
    \/ OpenFails \/ OpenMounts \/ EndOfMounts
    \/ (\E m \in Mounts : SkipMount(m) \/ MountUnreadable(m) \/ ReportMount(m))
    \/ Closing \/ ReturnOk \/ Flush \/ Exited

Spec == Init /\ [][Next]_vars

-----------------------------------------------------------------------------
(* Properties.                                                             *)

\* Every variable has its type.
Pieces == [piece : {"header", "open", "comma", "close", "report", "part"}, of : 0 .. MaxMounts, supported : BOOLEAN]
TypeOK ==
    /\ pc \in {"start", "fiemap", "report", "body", "scan", "close", "return", "exited"}
    /\ opts \in Options
    /\ isFirst \in BOOLEAN
    /\ lineNo \in 0 .. MaxMounts
    /\ buffer \in Seq(Pieces) /\ stdout \in Seq(Pieces)
    /\ rc \in {0, 1, 3}
    /\ mounts \in Seq(Mounts) /\ Len(mounts) = lineNo
    /\ skipped \subseteq 1 .. lineNo /\ warned \subseteq 1 .. lineNo /\ told \subseteq 0 .. lineNo
    /\ dropped \in BOOLEAN
    /\ fiemap \in Answers

IsReport(p) == p.piece = "report"
Reported == {stdout[i].of : i \in {j \in DOMAIN stdout : IsReport(stdout[j])}}

\* With --output json a run that succeeds has written one well-formed document,
\* whichever mounts were skipped, unless standard output refused a part of it:
\* the reports are separated by commas, and nothing comes before the opening or
\* after the end.
JsonDocument ==
    pc = "exited" /\ opts.format = "json" /\ rc = 0 /\ ~dropped =>
        LET n == Len(stdout) - 2
        IN  /\ n >= 0 /\ stdout[1].piece = "open" /\ stdout[n + 2].piece = "close"
            /\ n > 0 => n % 2 = 1
            /\ \A i \in 1 .. n : stdout[i + 1].piece = (IF i % 2 = 1 THEN "report" ELSE "comma")

\* What a user of --all asked not to see: tools/diagfs/README.md:137-138 leaves out
\* pseudo file systems unless --pseudo includes them (diagfs.1:18-19 has it show
\* nothing else, which it does not), and the code also what is mounted below /proc/
\* or /sys/.
Excluded(m) == m.hidden \/ (opts.filter = "real" /\ m.pseudo)

\* --all: a file system whose line of the table was read, and which was not asked to
\* be left out, is reported in full or a message gives it up; it goes unsaid only when
\* a field of its line is too long, when its statfs failed under --quiet, or when
\* stdio lost its report.  What is left out or given up is not reported, nothing
\* is reported twice or out of order, and no report claims a layout, which is
\* never measured.
Unsaid(n) ==
    \/ mounts[n].long
    \/ opts.quiet /\ n \in skipped
    \/ opts.format # "table" /\ dropped
AllReported ==
    pc = "exited" /\ opts.all /\ rc = 0 =>
        /\ \A n \in 1 .. lineNo :
              n \in Reported \/ Excluded(mounts[n]) \/ n \in warned \cup told \/ Unsaid(n)
        /\ \A n \in Reported :
              n \in 1 .. lineNo /\ ~Excluded(mounts[n]) /\ n \notin skipped \cup told
        /\ \A i, j \in DOMAIN stdout :
              i < j /\ IsReport(stdout[i]) /\ IsReport(stdout[j]) => stdout[i].of < stdout[j].of
        /\ \A i \in DOMAIN stdout : ~stdout[i].supported

\* diagfs keeps the promise of DiagReport: it has confirmed when the path was
\* measured, or the mount table opened.
Confirmed == pc \notin {"start", "fiemap", "exited"}
Promise == INSTANCE DiagReport WITH
    Failures <- {1, 3},
    phase <- IF pc = "exited" THEN "ended" ELSE IF Confirmed THEN "reporting" ELSE "measuring",
    shown <- stdout # <<>>
ImplementsReport == Promise!Spec

-----------------------------------------------------------------------------
(* What the documentation says and the code does not do.                   *)

\* tools/diagfs/README.md:156-158 shows the header above the report.
HeaderFirst ==
    \A i \in DOMAIN stdout : stdout[i].piece = "header" => i = 1
=============================================================================
