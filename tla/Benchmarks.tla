----------------------------- MODULE Benchmarks -----------------------------
(***************************************************************************)
(* scripts/benchmark_all_required.sh around the bootstrap: it runs the     *)
(* bootstrap (or skips it), has benchmark_busybox_diag.sh run the applets  *)
(* and write the delivery summaries, times every case, computes a report   *)
(* from the rows and copies it to final_report_latest.md.                  *)
(*                                                                         *)
(* All of it runs under set -e and can be stopped at any command; between  *)
(* its runs the user may run any of the other scripts, upgrade, uninstall. *)
(***************************************************************************)
EXTENDS Bootstrap

CONSTANT Samples  \* --samples; zero is accepted

ASSUME SamplesAssumption == Samples \in Nat

VARIABLES
    step,     \* the part of the benchmark that comes next, "idle" between runs
    skip,     \* the run was started with --skip-bootstrap
    ran,      \* the applets that have run for verification_summary.txt
    exercised, \* history: the three applets have all run to the end, in ./busybox as it is
    summary,  \* manual_test_summary.txt: "none" before the first, then whether what it
              \* says PASS of was exercised when it was written
    csv,      \* for each case the rows of the CSV file of this run
    ratios,   \* the cases the report of this run has a ratio for
    latest    \* final_report_latest.md

delivery == <<exercised, summary>>
files == <<csv, ratios, latest>>
bench == <<step, skip, ran, delivery, files>>

NoRows == [c \in Applets |-> 0]

\* A report: the rows behind the ratio of each case that has one.  No report,
\* and half a report, are functions on other sets.
NoReport == [c \in {"none"} |-> 0]
TornReport == [c \in {"torn"} |-> 0]

BenchInit ==
    /\ Init
    /\ step = "idle" /\ skip = FALSE /\ ran = {}
    /\ exercised = FALSE /\ summary = "none"
    /\ csv = NoRows /\ ratios = {} /\ latest = NoReport

\* The end of a run: what is left of it, its CSV file and its own report, is
\* never read again.
Over == step' = "idle" /\ skip' = FALSE /\ ran' = {} /\ csv' = NoRows /\ ratios' = {}

-----------------------------------------------------------------------------
(* The other scripts, by themselves or as the first phase.                 *)

\* What has run in the old ./busybox says nothing of a new one.
Rebuilt == exercised' = (exercised /\ binary' = binary) /\ UNCHANGED summary

Alone == step = "idle" /\ Next /\ Rebuilt /\ UNCHANGED <<step, skip, ran, files>>

BenchStart ==
    /\ step = "idle" /\ pc = "idle"
    /\ \/ Start /\ activate' = FALSE /\ step' = "bootstrap" /\ skip' = FALSE
       \/ UNCHANGED vars /\ step' = "size" /\ skip' = TRUE
    /\ UNCHANGED <<ran, delivery, files>>

\* set -e: a bootstrap that stops before its end is the end of this run.
Bootstraps_GoesOn ==               \* mutant: the exit status of the bootstrap is lost
    /\ step = "bootstrap" /\ pc # "idle" /\ Next
    /\ step' = IF pc' = "idle" THEN "size" ELSE step
    /\ Rebuilt
    /\ UNCHANGED <<skip, ran, files>>
Bootstraps ==
    /\ step = "bootstrap" /\ pc # "idle" /\ Next
    /\ IF pc # "done" /\ pc' = "idle" THEN Over /\ UNCHANGED latest
       ELSE /\ step' = IF pc = "done" THEN "size" ELSE step
            /\ UNCHANGED <<skip, ran, files>>
    /\ Rebuilt

\* Any other command fails, or the run is killed before it.
BenchStops ==
    /\ step \notin {"idle", "bootstrap"} /\ Over
    /\ UNCHANGED <<vars, delivery, latest>>

-----------------------------------------------------------------------------
(* benchmark_busybox_diag.sh.  The applets run one after the other inside  *)
(* a group whose output is the summary; one that fails ends the script.    *)

BinarySize ==
    /\ step = "size" /\ binary # None
    /\ step' = "verify" /\ ran' = {}
    /\ UNCHANGED <<vars, skip, delivery, files>>

AppletOrder == [diagfs |-> {}, diagnet |-> {"diagfs"}, ptop |-> {"diagfs", "diagnet"}]
RunApplet(a) ==
    /\ step = "verify" /\ ran = AppletOrder[a] /\ Answers(binary)
    /\ ran' = ran \cup {a}
    /\ exercised' = (exercised \/ a = "ptop")
    /\ UNCHANGED <<vars, step, skip, summary, files>>

PassLines == IF exercised THEN "backed" ELSE "unbacked"
ManualSummary_Unguarded ==         \* mutant: an applet that fails does not end the group
    /\ step = "verify"
    /\ summary' = PassLines /\ step' = "csv"
    /\ UNCHANGED <<vars, skip, ran, exercised, files>>
ManualSummary ==
    /\ step = "verify" /\ ran = Applets
    /\ summary' = PassLines /\ step' = "csv"
    /\ UNCHANGED <<vars, skip, ran, exercised, files>>

-----------------------------------------------------------------------------
(* The timing and its report.                                              *)

\* The header, into a file of its own for each run.
NewCsv ==
    /\ step = "csv" /\ step' = "ptop"
    /\ csv' = NoRows
    /\ UNCHANGED <<vars, skip, ran, delivery, ratios, latest>>

\* A row of the case, the applet and its reference in turn.  The command
\* runs in a command substitution, where set -e does not hold: one that
\* fails is timed like one that works.
Row ==
    /\ step \in Applets /\ csv[step] < 2 * Samples
    /\ csv' = [csv EXCEPT ![step] = @ + 1]
    /\ UNCHANGED <<vars, step, skip, ran, delivery, ratios, latest>>

AfterCase == [ptop |-> "diagfs", diagfs |-> "diagnet", diagnet |-> "report"]
CaseDone_Early ==                  \* mutant: a case may end before its last sample
    /\ step \in Applets
    /\ step' = AfterCase[step]
    /\ UNCHANGED <<vars, skip, ran, delivery, files>>
CaseDone ==
    /\ step \in Applets /\ csv[step] = 2 * Samples
    /\ step' = AfterCase[step]
    /\ UNCHANGED <<vars, skip, ran, delivery, files>>

\* Neither ss nor netstat is there.
SkipDiagnet ==
    /\ step = "diagnet" /\ csv["diagnet"] = 0
    /\ step' = "report"
    /\ UNCHANGED <<vars, skip, ran, delivery, files>>

\* awk: a ratio for the cases with a row of either variant, the others SKIP.
Report ==
    /\ step = "report" /\ step' = "copy"
    /\ ratios' = {c \in Applets : csv[c] >= 2}
    /\ UNCHANGED <<vars, skip, ran, delivery, csv, latest>>

\* cp truncates the latest report, then fills it.
LatestBegins ==
    /\ step = "copy" /\ step' = "copying"
    /\ latest' = TornReport
    /\ UNCHANGED <<vars, skip, ran, delivery, csv, ratios>>

LatestEnds ==
    /\ step = "copying" /\ Over
    /\ latest' = [c \in ratios |-> csv[c]]
    /\ UNCHANGED <<vars, delivery>>

BenchNext ==
    \/ Alone \/ BenchStart \/ Bootstraps \/ BenchStops
    \/ BinarySize \/ (\E a \in Applets : RunApplet(a)) \/ ManualSummary
    \/ NewCsv \/ Row \/ CaseDone \/ SkipDiagnet
    \/ Report \/ LatestBegins \/ LatestEnds

allVars == <<vars, bench>>
BenchSpec == BenchInit /\ [][BenchNext]_allVars

-----------------------------------------------------------------------------
(* Properties.                                                             *)

\* The lines of manual_test_summary.txt say PASS of every applet without
\* looking: what stands behind them is that the three applets have run to
\* the end, in this very build, before the lines were written.
SummaryBacked == summary # "unbacked"

\* A run that bootstraps first exercises and times the version it has just
\* built, verified and installed, never what an earlier run or a script run by
\* hand has left.  With --skip-bootstrap it takes ./busybox as it is.
MeasuresCurrent ==
    step \notin {"idle", "bootstrap"} /\ ~skip =>
        /\ binary = Whole(repo) /\ verified
        /\ installed = binary /\ links = Applets

\* Whatever runs were stopped, the latest report is of a whole series: every
\* ratio in it is the median of all samples, and only the case of diagnet can
\* be missing (or all of them, with --samples 0).
LatestWhole ==
    latest \notin {NoReport, TornReport} =>
        /\ \A c \in DOMAIN latest : latest[c] = 2 * Samples
        /\ Samples > 0 => {"ptop", "diagfs"} \subseteq DOMAIN latest
=============================================================================
