-------------------------- MODULE MCDiagnetCollect --------------------------
(***************************************************************************)
(* Model-checking instance of DiagnetCollect: two states of TCP and the    *)
(* numbers the code gives them.                                            *)
(***************************************************************************)
EXTENDS DiagnetCollect

MCTcpStates == {"TIME_WAIT", "LISTEN"}
MCRank == [s \in {"NONE", "TIME_WAIT", "LISTEN"} |->
            CASE s = "NONE" -> 0 [] s = "TIME_WAIT" -> 6 [] s = "LISTEN" -> 10]
=============================================================================
