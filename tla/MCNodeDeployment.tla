--------------------------- MODULE MCNodeDeployment ---------------------------
(***************************************************************************)
(* Model values for the runs of NodeDeployment.                            *)
(***************************************************************************)
EXTENDS NodeDeployment

CONSTANTS n1, n2
TwoNodes == {n1, n2}

\* Below 5.4 with a large minor version, 5.4 itself, and not a version.
ThreeKernels == {<<4, 18>>, <<5, 4>>, Unreadable}

OneBinding == {"users"}
OneRole    == {"privileged"}
OneRef     == [b \in OneBinding |-> "privileged"]
Grants   == MatchSecurityContextConstraintsPolicies
Nothing  == {}
\* Allows to look at the constraints, not to use them.
Weak     == {Rule("get", "security.openshift.io", "securitycontextconstraints", {"privileged"})}
PspGrant == MatchPodSecurityPolicyTemplate("node") \cup MatchPodSecurityPolicyTemplate("scheduler")
PspRules   == {Nothing, PspGrant}
ThreeRules == {Nothing, Weak, Grants \cup PspGrant}
===============================================================================
