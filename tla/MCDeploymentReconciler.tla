----------------------- MODULE MCDeploymentReconciler -----------------------
(***************************************************************************)
(* Model values and symmetry for the runs of DeploymentReconciler.         *)
(***************************************************************************)
EXTENDS DeploymentReconciler, TLC

CONSTANTS n1, n2
MCNodes == {n1, n2}
NodeSymmetry == Permutations(MCNodes)

AllSpecs  == 1 .. MaxSpec
FirstSpec == {1}
=============================================================================
