---------------------------- MODULE NodeDeployment ----------------------------
(***************************************************************************)
(* What decides where the driver runs: Node.Update (pkg/node) with its     *)
(* platforms, and the verification of service accounts that gates it and   *)
(* the extender (pkg/feature/security_verifier), with the watches on       *)
(* nodes, roles and role bindings that ask for another reconcile.          *)
(*                                                                         *)
(* The order of the components and the finalizer are in                    *)
(* DeploymentReconciler; here a CR exists and the other stages succeed.    *)
(***************************************************************************)
EXTENDS Naturals, FiniteSets, Rbac

CONSTANTS
  Nodes,
  Kernels,      \* kernel versions <<major, minor>> of nodes, and maybe Unreadable
  Unreadable,   \* a version GetKernelVersion cannot parse
  Features,     \* which verification the CR asks for: subset of {"none", "scc", "psp"}
  FixedRoles,   \* the features under which nobody changes a role
  RoleRules,    \* the sets of rules a role may have
  MaxChanges,   \* bound: changes of nodes, roles and bindings
  MaxFaults     \* bound: failed requests and restarts

ASSUME DeploymentAssumption ==
  /\ Features \subseteq {"none", "scc", "psp"} /\ FixedRoles \subseteq Features
  /\ Kernels \ {Unreadable} \subseteq Nat \X Nat
  /\ {MaxChanges, MaxFaults} \subseteq Nat

VARIABLES
  feature,                        \* fixed when the CR is created
  node,                           \* kernel, platform label and selection of each node
  roles, bindings,                \* in the API server
  cachedRoles, cachedBindings,    \* in the informer caches the validator reads
  daemonSets,                     \* platforms that have a daemon set
  extender,                       \* the extender's daemon set exists
  queued, pc,
  account, refs,                  \* Verify: whose bindings, and the roles they name
  listed, todo,                   \* updateNodeLabels: the list, and what is left of it
  needToDeploy, failed,           \* platforms found, and resultErr
  changes, faults

world  == <<node, roles, bindings>>
caches == <<cachedRoles, cachedBindings>>
worker == <<queued, pc, account, refs, listed, todo, needToDeploy, failed>>
deployed == <<daemonSets, extender>>
vars == <<feature, world, caches, worker, deployed, changes, faults>>

-----------------------------------------------------------------------------
\* Platforms (platform_description.go)

Platforms == {"default", "kernel-5.4"}
NoLabel   == "none"

\* (wrong variant: the minor version alone is compared)
FindPlatformByMinor(kernel) == IF kernel[2] >= 4 THEN "kernel-5.4" ELSE "default"
FindPlatform(kernel) ==
  IF kernel[1] > 5 \/ (kernel[1] = 5 /\ kernel[2] >= 4) THEN "kernel-5.4" ELSE "default"

NodeStates == [kernel: Kernels, label: Platforms \cup {NoLabel}, selected: BOOLEAN]
Readable(n) == node[n].kernel # Unreadable
Selected == {n \in Nodes : node[n].selected}

\* The daemon set of a platform runs on the nodes with its label.
Before54(kernel) == kernel[1] < 5 \/ (kernel[1] = 5 /\ kernel[2] < 4)
Served(n) ==
  /\ node[n].label \in daemonSets
  /\ node[n].label = "default" <=> Before54(node[n].kernel)

-----------------------------------------------------------------------------
\* Verification

Requested(a) ==
  IF feature = "scc" THEN MatchSecurityContextConstraintsPolicies
                     ELSE MatchPodSecurityPolicyTemplate(a)

\* Bound in the API server: what the verifier would find there now.
Bound(a) ==
  feature = "none" \/ ValidateServiceAccountIsBound(bindings, roles, a, Requested(a))

\* watchRole: for pod security policies too, the role is matched with the
\* policies of security context constraints.
RoleEvent(rules) ==
  feature # "none" /\ MatchPolicyRules(rules, MatchSecurityContextConstraintsPolicies)

\* watchRoleBinding
\* (wrong variant: the scheduler's account is forgotten)
BindingEventOfNode(subjects) ==
  feature # "none" /\ MatchRoleBindingSubjects(subjects, "node")
BindingEvent(subjects) ==
  feature # "none" /\ \E a \in Accounts : MatchRoleBindingSubjects(subjects, a)

-----------------------------------------------------------------------------
TypeOK ==
  /\ feature \in Features
  /\ node \in [Nodes -> NodeStates]
  /\ {roles, cachedRoles} \subseteq [Roles -> RoleRules]
  /\ {bindings, cachedBindings} \subseteq [Bindings -> SUBSET Subjects]
  /\ daemonSets \subseteq Platforms /\ extender \in BOOLEAN
  /\ queued \in BOOLEAN
  /\ pc \in {"idle", "bindings", "roles", "list", "label", "daemonSets", "extender"}
  /\ account \in Accounts /\ refs \subseteq Roles
  /\ todo \subseteq Nodes /\ listed \in [todo -> NodeStates]
  /\ needToDeploy \subseteq Platforms /\ failed \in BOOLEAN
  /\ (pc # "label" => todo = {}) /\ (pc = "idle" => needToDeploy = {} /\ ~failed)
  /\ changes \in 0 .. MaxChanges /\ faults \in 0 .. MaxFaults

\* A CR has just been created in a cluster where the driver never ran.
Init ==
  /\ feature \in Features
  /\ node \in [Nodes -> [kernel: Kernels, label: {NoLabel}, selected: {TRUE}]]
  /\ roles \in [Roles -> RoleRules] /\ cachedRoles = roles
  /\ bindings = [b \in Bindings |-> {}] /\ cachedBindings = bindings
  /\ daemonSets = {} /\ extender = FALSE
  /\ queued = TRUE /\ pc = "idle" /\ account = "node" /\ refs = {}
  /\ listed = <<>> /\ todo = {} /\ needToDeploy = {} /\ failed = FALSE
  /\ changes = 0 /\ faults = 0

Fault == faults < MaxFaults /\ faults' = faults + 1
Change == changes < MaxChanges /\ changes' = changes + 1

Cleared == refs' = {} /\ listed' = <<>> /\ todo' = {} /\ needToDeploy' = {} /\ failed' = FALSE
\* (wrong variant: what one reconcile noted is there in the next)
ReturnUncleared ==
  /\ pc' = "idle" /\ account' = "node"
  /\ UNCHANGED <<refs, listed, todo, needToDeploy, failed>>
Return  == pc' = "idle" /\ account' = "node" /\ Cleared
Requeue == Return /\ queued' = TRUE

\* Verify(a), or the component itself when nothing is to be verified.
Component(a) == IF a = "node" THEN "list" ELSE "extender"
Begin(a) ==
  /\ account' = a /\ pc' = IF feature = "none" THEN Component(a) ELSE "bindings"
  /\ Cleared

-----------------------------------------------------------------------------
\* Steps of the worker

Get ==
  /\ pc = "idle" /\ queued
  /\ queued' = FALSE /\ Begin("node")
  /\ UNCHANGED <<feature, world, caches, deployed, changes, faults>>

ListBindings ==
  /\ pc = "bindings"
  /\ refs' = RefsOf(cachedBindings, account) /\ pc' = "roles"
  /\ UNCHANGED <<feature, world, caches, deployed, changes, faults, queued, account,
                 listed, todo, needToDeploy, failed>>

\* An RBAC error is no error for the reconcile: the component is left alone.
ListRoles ==
  /\ pc = "roles"
  /\ IF MatchesRoles(cachedRoles, refs, Requested(account))
     THEN pc' = Component(account) /\ Cleared /\ UNCHANGED account
     ELSE IF account = "node" THEN Begin("scheduler") ELSE Return
  /\ UNCHANGED <<feature, world, caches, deployed, changes, faults, queued>>

ListNodes ==
  /\ pc = "list"
  /\ todo' = Selected /\ listed' = [n \in Selected |-> node[n]] /\ pc' = "label"
  /\ UNCHANGED <<feature, world, caches, deployed, changes, faults, queued, account,
                 refs, needToDeploy, failed>>

Passed(n) == todo' = todo \ {n} /\ listed' = [m \in todo \ {n} |-> listed[m]]

\* A node whose version cannot be parsed is skipped and fails the whole.
\* (wrong variant: it ends the loop)
SkipUnreadableAndStop(n) ==
  /\ listed[n].kernel = Unreadable /\ Requeue
  /\ UNCHANGED <<node, faults>>
SkipUnreadable(n) ==
  /\ listed[n].kernel = Unreadable
  /\ Passed(n) /\ failed' = TRUE
  /\ UNCHANGED <<node, faults, queued, pc, account, refs, needToDeploy>>

\* Update takes only the version of the node that was listed.
\* (wrong variant: it overwrites)
UnchangedIgnored(n) == n \in todo
Unchanged(n) == node[n] = listed[n]

LabelNode(n) ==
  LET platform == FindPlatform(listed[n].kernel) IN
  /\ listed[n].kernel # Unreadable
  /\ Passed(n) /\ needToDeploy' = needToDeploy \cup {platform}
  /\ \/ /\ listed[n].label = platform
        /\ UNCHANGED <<node, failed, faults>>
     \/ /\ listed[n].label # platform /\ Unchanged(n)
        /\ node' = [node EXCEPT ![n] = [listed[n] EXCEPT !.label = platform]]
        /\ UNCHANGED <<failed, faults>>
     \/ /\ listed[n].label # platform /\ ~Unchanged(n)
        /\ failed' = TRUE /\ UNCHANGED <<node, faults>>
     \/ /\ listed[n].label # platform /\ Fault
        /\ failed' = TRUE /\ UNCHANGED node
  /\ UNCHANGED <<pc, account, refs>>

\* The platform label is a change of the node, and an event.
UpdateNodeLabels ==
  /\ pc = "label"
  /\ \E n \in todo :
       \/ SkipUnreadable(n)
       \/ LabelNode(n) /\ queued' = (queued \/ node' # node)
  /\ UNCHANGED <<feature, roles, bindings, caches, deployed, changes>>

EndLabels ==
  /\ pc = "label" /\ todo = {}
  /\ IF failed THEN Requeue
     ELSE /\ pc' = "daemonSets"
          /\ UNCHANGED <<queued, account, refs, listed, todo, needToDeploy, failed>>
  /\ UNCHANGED <<feature, world, caches, deployed, changes, faults>>

\* UpdateDaemonSet of each needed platform; all are tried. The daemon set is owned,
\* its creation is an event.
UpdateDaemonSets ==
  /\ pc = "daemonSets"
  /\ \E platform \in needToDeploy :
       /\ needToDeploy' = needToDeploy \ {platform}
       /\ \/ /\ daemonSets' = daemonSets \cup {platform}
             /\ queued' = (queued \/ platform \notin daemonSets)
             /\ UNCHANGED <<failed, faults>>
          \/ /\ Fault /\ failed' = TRUE
             /\ UNCHANGED <<daemonSets, queued>>
  /\ UNCHANGED <<feature, world, caches, extender, changes, pc, account, refs, listed, todo>>

EndDaemonSets ==
  /\ pc = "daemonSets" /\ needToDeploy = {}
  /\ IF failed THEN Requeue ELSE Begin("scheduler") /\ UNCHANGED queued
  /\ UNCHANGED <<feature, world, caches, deployed, changes, faults>>

UpdateExtender ==
  /\ pc = "extender"
  /\ extender' = TRUE /\ Return /\ queued' = (queued \/ ~extender)
  /\ UNCHANGED <<feature, world, caches, daemonSets, changes, faults>>

Fail ==
  /\ pc \in {"bindings", "roles", "list", "extender"}
  /\ Fault /\ Requeue
  /\ UNCHANGED <<feature, world, caches, deployed, changes>>

Restart ==
  /\ pc # "idle" /\ Fault /\ Requeue
  /\ cachedRoles' = roles /\ cachedBindings' = bindings
  /\ UNCHANGED <<feature, world, deployed, changes>>

-----------------------------------------------------------------------------
\* Administrators and informers

\* Any of these changes of a selected node passes isNodeChanged; for an update,
\* the handler maps the old and the new node.
ChangeNode(n) ==
  /\ Change
  /\ \E new \in [kernel: Kernels, label: {node[n].label, NoLabel}, selected: BOOLEAN] :
       /\ new # node[n]
       /\ node' = [node EXCEPT ![n] = new]
       /\ queued' = (queued \/ node[n].selected \/ new.selected)
  /\ UNCHANGED <<feature, roles, bindings, caches, deployed, faults, pc, account, refs,
                 listed, todo, needToDeploy, failed>>

ChangeRole(r) ==
  /\ feature \notin FixedRoles /\ Change
  /\ \E rules \in RoleRules \ {roles[r]} : roles' = [roles EXCEPT ![r] = rules]
  /\ UNCHANGED <<feature, node, bindings, caches, deployed, faults, worker>>

ChangeBinding(b) ==
  /\ feature # "none" /\ Change
  /\ \E subjects \in (SUBSET Subjects) \ {bindings[b]} :
       bindings' = [bindings EXCEPT ![b] = subjects]
  /\ UNCHANGED <<feature, node, roles, caches, deployed, faults, worker>>

\* The informer stores the new object, then its handlers see the old and the new.
SyncRole(r) ==
  /\ cachedRoles[r] # roles[r]
  /\ cachedRoles' = [cachedRoles EXCEPT ![r] = roles[r]]
  /\ queued' = (queued \/ RoleEvent(cachedRoles[r]) \/ RoleEvent(roles[r]))
  /\ UNCHANGED <<feature, world, cachedBindings, deployed, changes, faults, pc, account,
                 refs, listed, todo, needToDeploy, failed>>

SyncBinding(b) ==
  /\ cachedBindings[b] # bindings[b]
  /\ cachedBindings' = [cachedBindings EXCEPT ![b] = bindings[b]]
  /\ queued' = (queued \/ BindingEvent(cachedBindings[b]) \/ BindingEvent(bindings[b]))
  /\ UNCHANGED <<feature, world, cachedRoles, deployed, changes, faults, pc, account,
                 refs, listed, todo, needToDeploy, failed>>

-----------------------------------------------------------------------------
Update ==
  \/ Get \/ ListBindings \/ ListRoles \/ ListNodes \/ UpdateNodeLabels \/ EndLabels
  \/ UpdateDaemonSets \/ EndDaemonSets \/ UpdateExtender

Sync == (\E r \in Roles : SyncRole(r)) \/ (\E b \in Bindings : SyncBinding(b))

Environment ==
  \/ \E n \in Nodes : ChangeNode(n)
  \/ \E r \in Roles : ChangeRole(r)
  \/ \E b \in Bindings : ChangeBinding(b)

Next == Update \/ Fail \/ Restart \/ Sync \/ Environment

Spec == Init /\ [][Next]_vars
\* The worker takes what is queued and its requests end; informers catch up.
FairSpec == Spec /\ WF_vars(Update) /\ WF_vars(Sync)

-----------------------------------------------------------------------------
\* Properties

Quiescent == pc = "idle" /\ ~queued /\ cachedRoles = roles /\ cachedBindings = bindings

\* docs/README.md of security context constraints, "CSI Operator will automatically catch
\* the changes and deploy", and deployment_controller.go, "Reconcile roles if pod security
\* policy is enabled for node": at rest, what may be deployed is. The watches enqueue every
\* change that turns the verifier's answer.
DeployedAtRest ==
  Quiescent =>
    /\ Bound("node") => daemonSets # {} \/ Selected = {}
    /\ Bound("scheduler") => extender

\* At rest every selected node has the label of the platform its kernel belongs to,
\* and that platform's daemon set exists, whatever was relabelled, selected or
\* upgraded while the loop of updateNodeLabels was running.
ServedAtRest == (Quiescent /\ Bound("node")) => \A n \in Selected : Served(n)

\* A label is written for the kernel the node has, not for the one it had when the
\* nodes were listed.
LabelsCurrent ==
  [][\A n \in Nodes :
       (node'[n].label # node[n].label /\ node'[n].label # NoLabel)
         => Readable(n) /\ node'[n].label = FindPlatform(node[n].kernel)]_vars

\* updateNodeLabels: "need to trying getKernelVersion and update label on each node".
\* A readable node gets its label although others cannot be parsed.
GoodNodesLabelled ==
  \A n \in Nodes, k \in Kernels \ {Unreadable} :
    (node[n].kernel = k /\ node[n].selected /\ Bound("node"))
      ~> (node[n].label = FindPlatform(k) \/ node[n].kernel # k \/ ~node[n].selected
          \/ ~Bound("node"))
===============================================================================
