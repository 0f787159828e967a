------------------------------ MODULE MCInput ------------------------------
(***************************************************************************)
(* Model-checking instance of LibdiagParse and DiagnetCli, the two readers *)
(* of what a user or the kernel hands over; Input_proofs holds the proofs  *)
(* about both.  A behaviour types a text while the command line waits, or  *)
(* runs a command line beside the empty text.                              *)
(***************************************************************************)
EXTENDS LibdiagParse, DiagnetCli

\* Binary digits, one of them to a byte.
MCDigits == <<"0", "1">>
MCAlphabet ==
    [number |-> {"0", "1", " ", "+", "-", "x"},
     address |-> {"0", "1", ":", "x"},
     name |-> {"(", ")", " ", "\n", "R", "1"},
     none |-> {}]
MCMaxText == [number |-> 6, address |-> 8, name |-> 5, none |-> 0]

Full == kind # "none" /\ Len(text) = MaxText[kind] /\ UNCHANGED texts

MCInit == Empty /\ Init
MCNext ==
    \/ (Typing \/ Full) /\ UNCHANGED vars
    \/ kind = "none" /\ Next /\ UNCHANGED texts
MCSpec == MCInit /\ [][MCNext]_<<texts, vars>>
=============================================================================
