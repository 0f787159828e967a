----------------------------- MODULE DiagReport -----------------------------
(***************************************************************************)
(* What diagfs and diagnet promise to the script that runs them, without   *)
(* saying how: whatever can make a run fail comes before its first output, *)
(* so that a run that fails has printed nothing, and a run that has begun  *)
(* to report ends with 0.  DiagfsRun and DiagnetCollect implement it.      *)
(***************************************************************************)
EXTENDS Integers

CONSTANT Failures  \* the exit codes of a run that fails, all but 0

VARIABLES
    phase,  \* "measuring", "reporting" or "ended"
    shown,  \* something has reached standard output
    rc      \* the exit code, 0 before the end

vars == <<phase, shown, rc>>

Init ==
    /\ phase = "measuring"
    /\ shown = FALSE
    /\ rc = 0

\* Nothing can fail any more; the report may begin.
Confirm ==
    /\ phase = "measuring"
    /\ phase' = "reporting"
    /\ shown' \in BOOLEAN
    /\ UNCHANGED rc

Report ==
    /\ phase = "reporting"
    /\ shown' = TRUE
    /\ UNCHANGED <<phase, rc>>

Fail ==
    /\ phase = "measuring"
    /\ phase' = "ended"
    /\ rc' \in Failures
    /\ UNCHANGED shown

\* What is still buffered comes out at the end.
Succeed ==
    /\ phase = "reporting"
    /\ phase' = "ended"
    /\ shown' \in {shown, TRUE}
    /\ UNCHANGED rc

Next == Confirm \/ Report \/ Fail \/ Succeed

Spec == Init /\ [][Next]_vars
=============================================================================
