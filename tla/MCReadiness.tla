----------------------------- MODULE MCReadiness -----------------------------
(***************************************************************************)
(* Model values for the run of Readiness.                                  *)
(***************************************************************************)
EXTENDS Readiness

CONSTANTS m1, m2
TwoMasters == {m1, m2}
=============================================================================
