---------------------------- MODULE PtopMonitor ----------------------------
(***************************************************************************)
(* What the monitoring loop of ptop promises its user, without saying how: *)
(* at most COUNT displays, at most one display begun after an exit         *)
(* request, and a visible cursor at every orderly end.  PtopLoop           *)
(* implements it.                                                          *)
(***************************************************************************)
EXTENDS Integers

CONSTANT MaxCount  \* bound: the largest COUNT

VARIABLES
    phase,   \* "running", "ended" (through exit) or "killed" (by a signal)
    left,    \* displays still allowed, -1 for no limit
    asked,   \* an exit request has been received
    grace,   \* the one display an exit request may still see is unused
    hidden   \* the cursor is hidden

vars == <<phase, left, asked, grace, hidden>>

Init ==
    /\ phase = "running"
    /\ left \in (1 .. MaxCount) \cup {-1}
    /\ asked = FALSE
    /\ grace = TRUE
    /\ hidden = FALSE

HideCursor ==
    /\ phase = "running"
    /\ hidden' = TRUE
    /\ UNCHANGED <<phase, left, asked, grace>>

ShowCursor ==
    /\ phase = "running"
    /\ hidden' = FALSE
    /\ UNCHANGED <<phase, left, asked, grace>>

ExitRequest ==
    /\ phase = "running"
    /\ asked' = TRUE
    /\ UNCHANGED <<phase, left, grace, hidden>>

Display ==
    /\ phase = "running"
    /\ left # 0
    /\ asked => grace
    /\ grace' = ~asked
    /\ left' = IF left > 0 THEN left - 1 ELSE left
    /\ UNCHANGED <<phase, asked, hidden>>

\* An orderly end leaves the cursor visible, whatever led to it.
End ==
    /\ phase = "running"
    /\ phase' = "ended"
    /\ hidden' = FALSE
    /\ UNCHANGED <<left, asked, grace>>

\* A signal left at its default action.
Kill ==
    /\ phase = "running"
    /\ phase' = "killed"
    /\ UNCHANGED <<left, asked, grace, hidden>>

Next ==
    \/ HideCursor \/ ShowCursor
    \/ ExitRequest
    \/ Display
    \/ End \/ Kill

Spec == Init /\ [][Next]_vars
=============================================================================
