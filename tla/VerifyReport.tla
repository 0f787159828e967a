---------------------------- MODULE VerifyReport ----------------------------
(***************************************************************************)
(* verify_busybox_diag.sh, check by check, and the report it writes, over  *)
(* any number of its runs.  set -e ends it at the first command that fails.*)
(***************************************************************************)

VARIABLES
    pc,       \* the check that comes next, "idle" between two runs
    report,   \* the checks verify_busybox_diag_report.txt says have passed
    passed    \* history: the checks that have passed since the report was begun

vars == <<pc, report, passed>>

After == [report |-> "script", script |-> "list", list |-> "help", help |-> "output",
          output |-> "json", json |-> "df", df |-> "ps", ps |-> "diagnetRun",
          diagnetRun |-> "time", time |-> "idle"]
Checks == DOMAIN After \ {"report"}
Proceed == pc' = After[pc]

\* The lines write_report puts down before the checks are made: the applets
\* and libdiag, the help, the formats, the build script.
Early == {"list", "help", "output", "script"}

Init == pc = "idle" /\ report = {} /\ passed = {}

Start == pc = "idle" /\ pc' = "report" /\ UNCHANGED <<report, passed>>

\* A path that is missing, a check that fails, a signal.
Stops == pc # "idle" /\ pc' = "idle" /\ UNCHANGED <<report, passed>>

WriteReport == pc = "report" /\ report' = Early /\ passed' = {} /\ Proceed

\* The checks after the early ones append their line when they have passed.
CheckPasses ==
    /\ pc \in Checks
    /\ passed' = passed \cup {pc}
    /\ report' = report \cup {pc}
    /\ Proceed

\* python3, df, ps or time is not there: the line says [SKIP].
CheckSkipped == pc \in {"json", "df", "ps", "time"} /\ Proceed /\ UNCHANGED <<report, passed>>

\* ptop fails; the check against ps is followed by || true.
PtopFails == pc = "ps" /\ report' = report \cup {"ps"} /\ Proceed /\ UNCHANGED passed

Next == Start \/ Stops \/ WriteReport \/ CheckPasses \/ CheckSkipped \/ PtopFails

Spec == Init /\ [][Next]_vars

\* docs/USER_MANUAL.md:337-341 explains what a PASS means: the applets are in the
\* list, help, formats, JSON and baseline checks have passed.  Between two runs,
\* the report calls passed only what has passed.
PassMeansPassed == pc = "idle" => report \subseteq passed
=============================================================================
