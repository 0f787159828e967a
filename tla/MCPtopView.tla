----------------------------- MODULE MCPtopView -----------------------------
(***************************************************************************)
(* Model-checking instance of PtopView: letters in both cases, because     *)
(* Linux writes that of a process stopped by a tracer in lower case, and   *)
(* numbers below, at and beyond the limits: -15 is 1 as an int, 12 is -4,  *)
(* and 40 is kept to the largest long, which is -1.                        *)
(***************************************************************************)
EXTENDS PtopView

MCNumbers == {-15, 0, 1, 2, 12, 40}
MCUpper(s) == IF s = "t" THEN "T" ELSE s
=============================================================================
