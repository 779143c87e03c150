-------------------------- MODULE MCOpenShiftPatcher --------------------------
(***************************************************************************)
(* Model values for the runs of OpenShiftPatcher.                          *)
(***************************************************************************)
EXTENDS OpenShiftPatcher

CONSTANTS ip1, ip2
TwoIPs == {ip1, ip2}
===============================================================================
