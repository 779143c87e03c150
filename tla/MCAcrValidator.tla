---------------------------- MODULE MCAcrValidator ----------------------------
(***************************************************************************)
(* Model values for the run of AcrValidator.                               *)
(***************************************************************************)
EXTENDS AcrValidator

CONSTANTS p1, p2
TwoProcesses == {p1, p2}
===============================================================================
