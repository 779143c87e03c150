--------------------------- MODULE MCNodeOperations ---------------------------
(***************************************************************************)
(* Model values and symmetry for the runs of NodeOperations.               *)
(***************************************************************************)
EXTENDS NodeOperations, TLC

CONSTANTS n1, n2
OneNode  == {n1}
TwoNodes == {n1, n2}
NodeSymmetry == Permutations(TwoNodes)
=============================================================================
