--------------------------------- MODULE Rbac ---------------------------------
(***************************************************************************)
(* The RBAC matcher and validator: pkg/validator/rbac, as operators on     *)
(* sets. A rule is a record of four sets of names, a role is the set of    *)
(* its rules (empty: no such role), a role binding is the set of its       *)
(* subjects and the name of the role it refers to.                         *)
(***************************************************************************)

CONSTANTS
  Roles,      \* names of the roles in the CR's namespace
  Bindings,   \* names of the role bindings there
  RefOf       \* RefOf[b]: the name in b's roleRef, which is immutable

ASSUME RbacAssumption == RefOf \in [Bindings -> Roles]

Accounts == {"node", "scheduler"}
\* A service account of any other name, or of these names in another namespace.
Subjects == Accounts \cup {"other"}

Fields == {"verbs", "apiGroups", "resources", "resourceNames"}
Rule(verb, group, resource, names) ==
  [verbs |-> {verb}, apiGroups |-> {group}, resources |-> {resource}, resourceNames |-> names]

\* What main.go passes to the verifiers and to the watch.
MatchSecurityContextConstraintsPolicies ==
  {Rule("use", "security.openshift.io", "securitycontextconstraints", {"privileged"})}
MatchPodSecurityPolicyTemplate(name) ==
  {Rule("use", "policy", "podsecuritypolicies", {name})}

MatchPolicyRule(actual, requested) ==
  \A f \in Fields : requested[f] \subseteq actual[f]

\* One of the actual rules matches every requested one.
MatchPolicyRules(actual, requested) ==
  /\ requested # {}
  /\ \E a \in actual : \A r \in requested : MatchPolicyRule(a, r)

MatchRoleBindingSubjects(subjects, account) == account \in subjects

\* The bindings of the account, the roles they name, the rules of these. The two
\* lists are separate reads of the cache.
RefsOf(bindings, account) ==
  {RefOf[b] : b \in {c \in Bindings : MatchRoleBindingSubjects(bindings[c], account)}}
MatchesRoles(roles, refs, requested) ==
  \E r \in refs : MatchPolicyRules(roles[r], requested)
ValidateServiceAccountIsBound(bindings, roles, account, requested) ==
  MatchesRoles(roles, RefsOf(bindings, account), requested)
===============================================================================
