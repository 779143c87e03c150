---------------------------- MODULE MCObjectUpdate ----------------------------
(***************************************************************************)
(* Model values for the run of ObjectUpdate.                               *)
(***************************************************************************)
EXTENDS ObjectUpdate

CONSTANTS p1, p2
TwoProcesses == {p1, p2}
===============================================================================
