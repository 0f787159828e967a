-------------------------- MODULE MCDiagfsAnalyze --------------------------
(***************************************************************************)
(* Model-checking instance of DiagfsAnalyze.  Space and inodes are         *)
(* computed apart from each other, so each is varied with the other fixed. *)
(***************************************************************************)
EXTENDS DiagfsAnalyze

MCSamples ==
    [blocks : 0 .. 24, bfree : 0 .. 25, bsize : {32, 128, 512}, files : {10}, ffree : {1}]
    \cup [blocks : {10}, bfree : {1}, bsize : {128}, files : 0 .. 48, ffree : 0 .. 49]
MCExtents == 0 .. 8
=============================================================================
