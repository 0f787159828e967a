--------------------------- MODULE MCPtopSampling ---------------------------
(* Model-checking instance of PtopSampling. *)
EXTENDS PtopSampling
=============================================================================
