------------------------ MODULE NodeDeploymentProofs ------------------------
(***************************************************************************)
(* The invariants of NodeDeployment, the rule for its labels, and that an  *)
(* update ends, for any nodes, kernels, roles, bindings and rules, and any *)
(* number of changes and faults.                                           *)
(***************************************************************************)
EXTENDS NodeDeployment, FiniteSetTheorems, TLAPS

Stages == {"idle", "bindings", "roles", "list", "label", "daemonSets", "extender"}

\* TypeOK in parts: the cluster, the worker, the worker's loops.
WorldType ==
  /\ feature \in Features
  /\ node \in [Nodes -> NodeStates]
  /\ roles \in [Roles -> RoleRules] /\ cachedRoles \in [Roles -> RoleRules]
  /\ bindings \in [Bindings -> SUBSET Subjects] /\ cachedBindings \in [Bindings -> SUBSET Subjects]
  /\ daemonSets \subseteq Platforms /\ extender \in BOOLEAN
BoundType ==
  /\ changes \in 0 .. MaxChanges /\ faults \in 0 .. MaxFaults
WorkerType ==
  /\ pc \in Stages /\ account \in Accounts /\ refs \subseteq Roles
LoopType ==
  /\ todo \subseteq Nodes /\ listed \in [todo -> NodeStates]
  /\ needToDeploy \subseteq Platforms /\ failed \in BOOLEAN
  /\ (pc # "label" => todo = {}) /\ (pc = "idle" => needToDeploy = {} /\ ~failed)

LEMMA TypeParts ==
  /\ TypeOK <=> WorldType /\ BoundType /\ WorkerType /\ LoopType /\ queued \in BOOLEAN
  /\ TypeOK' <=> WorldType' /\ BoundType' /\ WorkerType' /\ LoopType' /\ queued' \in BOOLEAN
  BY DEF TypeOK, WorldType, BoundType, WorkerType, LoopType, Stages

-----------------------------------------------------------------------------
\* The helpers

LEMMA EmptyList == <<>> \in [{} -> NodeStates]
  OBVIOUS

LEMMA ClearedType == Cleared => LoopType' /\ refs' = {} /\ ~failed' /\ todo' = {}
  BY EmptyList DEF Cleared, LoopType

LEMMA ReturnType == Return => WorkerType' /\ LoopType' /\ pc' = "idle"
  BY ClearedType DEF Return, WorkerType, Stages, Accounts

LEMMA BeginType ==
  ASSUME NEW a \in Accounts, Begin(a)
  PROVE  /\ WorkerType' /\ LoopType' /\ account' = a
         /\ pc' = IF feature = "none" THEN Component(a) ELSE "bindings"
  BY ClearedType DEF Begin, Component, WorkerType, Stages

LEMMA FaultType == ASSUME BoundType, Fault PROVE faults' \in 0 .. MaxFaults
  BY DeploymentAssumption DEF BoundType, Fault

LEMMA ChangeType == ASSUME BoundType, Change PROVE changes' \in 0 .. MaxChanges
  BY DeploymentAssumption DEF BoundType, Change

LEMMA PlatformType == \A kernel : FindPlatform(kernel) \in Platforms
  BY DEF FindPlatform, Platforms

LEMMA RefsType == \A cache, a : RefsOf(cache, a) \subseteq Roles
  BY RbacAssumption DEF RefsOf

LEMMA PassedType ==
  ASSUME LoopType, NEW n, Passed(n), pc' = pc, pc = "label",
         needToDeploy' \subseteq Platforms, failed' \in BOOLEAN
  PROVE  LoopType'
  BY DEF Passed, LoopType

LEMMA InitType == Init => TypeOK
  <1>. SUFFICES ASSUME Init PROVE TypeOK
    OBVIOUS
  <1>1. WorldType
    BY DEF Init, WorldType, NodeStates, Subjects
  <1>2. BoundType
    BY DeploymentAssumption DEF Init, BoundType
  <1>3. WorkerType /\ LoopType /\ queued \in BOOLEAN
    BY EmptyList DEF Init, WorkerType, LoopType, Stages, Accounts
  <1>. QED BY <1>1, <1>2, <1>3, TypeParts

LEMMA UpdateType == ASSUME TypeOK, Update \/ Fail PROVE TypeOK'
  <1>. USE DEF world, caches, deployed
  <1>0. WorldType /\ BoundType /\ WorkerType /\ LoopType /\ queued \in BOOLEAN
    BY TypeParts
  <1>. SUFFICES WorldType' /\ BoundType' /\ WorkerType' /\ LoopType' /\ queued' \in BOOLEAN
    BY TypeParts
  <1>1. CASE Get
    BY <1>0, <1>1, BeginType DEF Get, WorldType, BoundType, Accounts
  <1>2. CASE ListBindings
    BY <1>0, <1>2, RefsType
    DEF ListBindings, WorldType, BoundType, WorkerType, LoopType, Stages
  <1>3. CASE ListRoles
    <2>1. WorkerType' /\ LoopType'
      <3>1. CASE MatchesRoles(cachedRoles, refs, Requested(account))
        BY <1>0, <1>3, <3>1, ClearedType DEF ListRoles, Component, WorkerType, Stages
      <3>2. CASE ~MatchesRoles(cachedRoles, refs, Requested(account))
        BY <1>3, <3>2, BeginType, ReturnType DEF ListRoles, Accounts
      <3>. QED BY <3>1, <3>2
    <2>. QED BY <1>0, <1>3, <2>1 DEF ListRoles, WorldType, BoundType
  <1>4. CASE ListNodes
    <2>1. LoopType'
      BY <1>0, <1>4 DEF ListNodes, LoopType, WorldType, Selected
    <2>. QED BY <1>0, <1>4, <2>1 DEF ListNodes, WorldType, BoundType, WorkerType, Stages
  <1>5. CASE UpdateNodeLabels
    <2>1. PICK n \in todo :
            SkipUnreadable(n) \/ (LabelNode(n) /\ queued' = (queued \/ node' # node))
      BY <1>5 DEF UpdateNodeLabels
    <2>2. CASE SkipUnreadable(n)
      <3>1. LoopType'
        BY <1>0, <1>5, <2>2, PassedType DEF SkipUnreadable, UpdateNodeLabels, LoopType
      <3>. QED
        BY <1>0, <1>5, <2>2, <3>1
        DEF SkipUnreadable, UpdateNodeLabels, WorldType, BoundType, WorkerType
    <2>3. CASE LabelNode(n) /\ queued' = (queued \/ node' # node)
      <3>1. n \in Nodes /\ listed[n] \in NodeStates
        BY <1>0 DEF LoopType
      <3>2. node' \in [Nodes -> NodeStates]
        BY <1>0, <2>3, <3>1, PlatformType DEF LabelNode, WorldType, NodeStates
      <3>3. BoundType'
        BY <1>0, <1>5, <2>3, FaultType DEF LabelNode, UpdateNodeLabels, BoundType
      <3>4. LoopType'
        BY <1>0, <1>5, <2>3, PassedType, PlatformType
        DEF LabelNode, UpdateNodeLabels, LoopType
      <3>5. queued' \in BOOLEAN
        BY <2>3, Zenon
      <3>. QED
        BY <1>0, <1>5, <2>3, <3>2, <3>3, <3>4, <3>5
        DEF LabelNode, UpdateNodeLabels, WorldType, WorkerType
    <2>. QED BY <2>1, <2>2, <2>3
  <1>6. CASE EndLabels
    <2>1. CASE Requeue
      BY <1>0, <1>6, <2>1, ReturnType DEF Requeue, EndLabels, WorldType, BoundType
    <2>2. CASE ~Requeue
      BY <1>0, <1>6, <2>2
      DEF EndLabels, WorldType, BoundType, WorkerType, LoopType, Stages
    <2>. QED BY <2>1, <2>2
  <1>7. CASE UpdateDaemonSets
    <2>1. PICK platform \in needToDeploy :
            /\ needToDeploy' = needToDeploy \ {platform}
            /\ \/ /\ daemonSets' = daemonSets \cup {platform}
                  /\ queued' = (queued \/ platform \notin daemonSets)
                  /\ UNCHANGED <<failed, faults>>
               \/ /\ Fault /\ failed' = TRUE
                  /\ UNCHANGED <<daemonSets, queued>>
      BY <1>7 DEF UpdateDaemonSets
    <2>2. queued' \in BOOLEAN
      BY <1>0, <2>1, Zenon
    <2>3. BoundType'
      BY <1>0, <1>7, <2>1, FaultType DEF UpdateDaemonSets, BoundType
    <2>4. daemonSets' \subseteq Platforms
      BY <1>0, <2>1 DEF LoopType, WorldType
    <2>. QED
      BY <1>0, <1>7, <2>1, <2>2, <2>3, <2>4
      DEF UpdateDaemonSets, WorldType, WorkerType, LoopType
  <1>8. CASE EndDaemonSets
    BY <1>0, <1>8, ReturnType, BeginType
    DEF EndDaemonSets, Requeue, WorldType, BoundType, Accounts
  <1>9. CASE UpdateExtender
    <2>1. queued' \in BOOLEAN
      BY <1>9, Zenon DEF UpdateExtender
    <2>. QED BY <1>0, <1>9, <2>1, ReturnType DEF UpdateExtender, WorldType, BoundType
  <1>10. CASE Fail
    BY <1>0, <1>10, ReturnType, FaultType DEF Fail, Requeue, WorldType, BoundType
  <1>. QED
    BY <1>1, <1>2, <1>3, <1>4, <1>5, <1>6, <1>7, <1>8, <1>9, <1>10 DEF Update

LEMMA OthersType == ASSUME TypeOK, Restart \/ Sync \/ Environment PROVE TypeOK'
  <1>. USE DEF world, caches, deployed, worker
  <1>0. WorldType /\ BoundType /\ WorkerType /\ LoopType /\ queued \in BOOLEAN
    BY TypeParts
  <1>. SUFFICES WorldType' /\ BoundType' /\ WorkerType' /\ LoopType' /\ queued' \in BOOLEAN
    BY TypeParts
  <1>1. CASE Restart
    BY <1>0, <1>1, ReturnType, FaultType DEF Restart, Requeue, WorldType, BoundType
  <1>2. ASSUME NEW n \in Nodes, ChangeNode(n)
        PROVE  WorldType' /\ BoundType' /\ WorkerType' /\ LoopType' /\ queued' \in BOOLEAN
    <2>1. PICK new \in [kernel: Kernels, label: {node[n].label, NoLabel}, selected: BOOLEAN] :
            /\ node' = [node EXCEPT ![n] = new]
            /\ queued' = (queued \/ node[n].selected \/ new.selected)
      BY <1>2 DEF ChangeNode
    <2>2. node' \in [Nodes -> NodeStates]
      BY <1>0, <2>1 DEF WorldType, NodeStates
    <2>3. queued' \in BOOLEAN
      BY <2>1, Zenon
    <2>. QED
      BY <1>0, <1>2, <2>2, <2>3, ChangeType
      DEF ChangeNode, WorldType, BoundType, WorkerType, LoopType
  <1>3. ASSUME NEW r \in Roles, ChangeRole(r)
        PROVE  WorldType' /\ BoundType' /\ WorkerType' /\ LoopType' /\ queued' \in BOOLEAN
    BY <1>0, <1>3, ChangeType
    DEF ChangeRole, WorldType, BoundType, WorkerType, LoopType
  <1>4. ASSUME NEW b \in Bindings, ChangeBinding(b)
        PROVE  WorldType' /\ BoundType' /\ WorkerType' /\ LoopType' /\ queued' \in BOOLEAN
    BY <1>0, <1>4, ChangeType
    DEF ChangeBinding, WorldType, BoundType, WorkerType, LoopType
  <1>5. ASSUME NEW r \in Roles, SyncRole(r)
        PROVE  WorldType' /\ BoundType' /\ WorkerType' /\ LoopType' /\ queued' \in BOOLEAN
    <2>1. queued' \in BOOLEAN
      BY <1>5, Zenon DEF SyncRole
    <2>. QED
      BY <1>0, <1>5, <2>1 DEF SyncRole, WorldType, BoundType, WorkerType, LoopType
  <1>6. ASSUME NEW b \in Bindings, SyncBinding(b)
        PROVE  WorldType' /\ BoundType' /\ WorkerType' /\ LoopType' /\ queued' \in BOOLEAN
    <2>1. queued' \in BOOLEAN
      BY <1>6, Zenon DEF SyncBinding
    <2>. QED
      BY <1>0, <1>6, <2>1 DEF SyncBinding, WorldType, BoundType, WorkerType, LoopType
  <1>. QED BY <1>1, <1>2, <1>3, <1>4, <1>5, <1>6 DEF Sync, Environment

LEMMA NextType == TypeOK /\ [Next]_vars => TypeOK'
  <1>1. ASSUME TypeOK, UNCHANGED vars PROVE TypeOK'
    BY <1>1 DEF vars, world, caches, deployed, worker, TypeOK
  <1>. QED BY <1>1, UpdateType, OthersType DEF Next

\* The types of the variables. That nothing of one reconcile is left for the next is part
\* of them.
THEOREM TypeCorrect == Spec => []TypeOK
  BY InitType, NextType, PTL DEF Spec
-----------------------------------------------------------------------------
\* Labels

LEMMA NodeFrame ==
  ASSUME [Next]_vars, node' # node
  PROVE  UpdateNodeLabels \/ \E n \in Nodes : ChangeNode(n)
  BY DEF Next, vars, Update, Sync, Environment, world, Get, ListBindings, ListRoles, ListNodes,
         EndLabels, UpdateDaemonSets, EndDaemonSets, UpdateExtender, Fail, Restart, SyncRole,
         SyncBinding, ChangeRole, ChangeBinding

LEMMA LabelStep ==
  TypeOK /\ [Next]_vars =>
    \A n \in Nodes :
      (node'[n].label # node[n].label /\ node'[n].label # NoLabel)
        => Readable(n) /\ node'[n].label = FindPlatform(node[n].kernel)
  <1>. SUFFICES ASSUME TypeOK, [Next]_vars, NEW n \in Nodes,
                       node'[n].label # node[n].label, node'[n].label # NoLabel
                PROVE  Readable(n) /\ node'[n].label = FindPlatform(node[n].kernel)
    OBVIOUS
  <1>0. WorldType /\ LoopType
    BY TypeParts
  <1>1. CASE UpdateNodeLabels
    <2>1. PICK m \in todo : LabelNode(m)
      BY <1>1 DEF UpdateNodeLabels, SkipUnreadable
    <2>2. /\ listed[m].kernel # Unreadable /\ Unchanged(m)
          /\ node' = [node EXCEPT ![m] = [listed[m] EXCEPT !.label = FindPlatform(listed[m].kernel)]]
      BY <2>1 DEF LabelNode
    <2>3. m = n /\ listed[n] \in NodeStates
      BY <1>0, <2>2 DEF WorldType, LoopType
    <2>. QED BY <1>0, <2>2, <2>3 DEF Unchanged, Readable, WorldType, NodeStates
  <1>2. ASSUME NEW m \in Nodes, ChangeNode(m) PROVE FALSE
    <2>1. PICK new \in [kernel: Kernels, label: {node[m].label, NoLabel}, selected: BOOLEAN] :
            node' = [node EXCEPT ![m] = new]
      BY <1>2 DEF ChangeNode
    <2>. QED BY <1>0, <2>1 DEF WorldType
  <1>. QED BY <1>1, <1>2, NodeFrame

\* A label is written for the kernel the node has.
THEOREM LabelsFollow == Spec => LabelsCurrent
  BY TypeCorrect, LabelStep, PTL DEF Spec, LabelsCurrent

-----------------------------------------------------------------------------
(***************************************************************************)
(* Verification. The worker reads the bindings and then the roles, from    *)
(* caches that change in between. What it finds is what the caches say     *)
(* unless a watch has queued the CR again: a change that no watch picks    *)
(* out changes no answer.                                                  *)
(***************************************************************************)
Answer(a) == ValidateServiceAccountIsBound(cachedBindings, cachedRoles, a, Requested(a))
Allowed(a) == feature = "none" \/ Answer(a)

\* The watch matches every role with the policies of security context constraints; for
\* pod security policies that is enough as long as nobody changes a role.
RolesStay == feature = "psp" => feature \in FixedRoles

\* Roles that nobody changes are cached from the beginning.
FixedInv ==
  /\ feature \in FixedRoles => cachedRoles = roles
  /\ pc \in {"bindings", "roles"} => feature # "none"
  /\ pc \in {"list", "label", "daemonSets"} => account = "node"
  /\ pc = "extender" => account = "scheduler"

LEMMA InitFixed == Init => FixedInv
  BY DEF Init, FixedInv

LEMMA NextFixed == TypeOK /\ FixedInv /\ [Next]_vars => FixedInv' /\ feature' = feature
  <1>. SUFFICES ASSUME TypeOK, FixedInv, [Next]_vars PROVE FixedInv' /\ feature' = feature
    OBVIOUS
  <1>. USE DEF world, caches, deployed, worker, FixedInv, Begin, Component, Return, Requeue
  <1>0. account \in Accounts
    BY DEF TypeOK
  <1>1. CASE UNCHANGED vars
    BY <1>1 DEF vars
  <1>2. CASE Get \/ ListBindings \/ ListNodes \/ EndLabels \/ EndDaemonSets
    BY <1>2 DEF Get, ListBindings, ListNodes, EndLabels, EndDaemonSets
  <1>3. CASE ListRoles
    BY <1>0, <1>3 DEF ListRoles, Accounts
  <1>4. CASE UpdateNodeLabels \/ UpdateDaemonSets \/ UpdateExtender
    BY <1>4 DEF UpdateNodeLabels, SkipUnreadable, LabelNode, UpdateDaemonSets, UpdateExtender
  <1>5. CASE Fail \/ Restart
    BY <1>5 DEF Fail, Restart
  <1>6. CASE Sync
    BY <1>6 DEF Sync, SyncRole, SyncBinding
  <1>7. CASE Environment
    BY <1>7 DEF Environment, ChangeNode, ChangeRole, ChangeBinding
  <1>. QED BY <1>1, <1>2, <1>3, <1>4, <1>5, <1>6, <1>7 DEF Next, Update

LEMMA Fixed == Spec => [](TypeOK /\ FixedInv)
  BY TypeCorrect, InitFixed, NextFixed, PTL DEF Spec

\* A change of a role that the watch ignores.
LEMMA SyncRoleKeeps ==
  ASSUME TypeOK, FixedInv, RolesStay, NEW r \in Roles, SyncRole(r), ~queued', feature # "none"
  PROVE  \A a, R : MatchesRoles(cachedRoles', R, Requested(a)) <=> MatchesRoles(cachedRoles, R, Requested(a))
  <1>1. /\ cachedRoles' = [cachedRoles EXCEPT ![r] = roles[r]] /\ cachedRoles[r] # roles[r]
        /\ ~RoleEvent(cachedRoles[r]) /\ ~RoleEvent(roles[r])
    BY DEF SyncRole
  <1>2. feature \notin FixedRoles /\ feature # "psp"
    BY <1>1 DEF FixedInv, RolesStay
  <1>3. feature = "scc"
    BY <1>2, DeploymentAssumption DEF TypeOK
  <1>4. \A a : Requested(a) = MatchSecurityContextConstraintsPolicies
    BY <1>3 DEF Requested
  <1>5. \A s : MatchPolicyRules(cachedRoles'[s], MatchSecurityContextConstraintsPolicies)
              <=> MatchPolicyRules(cachedRoles[s], MatchSecurityContextConstraintsPolicies)
    <2>1. SUFFICES ASSUME NEW s
                   PROVE  MatchPolicyRules(cachedRoles'[s], MatchSecurityContextConstraintsPolicies)
                            <=> MatchPolicyRules(cachedRoles[s], MatchSecurityContextConstraintsPolicies)
      OBVIOUS
    <2>2. CASE s = r
      BY <1>1, <1>3, <2>2 DEF RoleEvent, TypeOK
    <2>3. CASE s # r
      BY <1>1, <2>3 DEF TypeOK
    <2>. QED BY <2>2, <2>3
  <1>. QED BY <1>4, <1>5 DEF MatchesRoles
\* Likewise a change of a binding.
LEMMA SyncBindingKeeps ==
  ASSUME TypeOK, NEW b \in Bindings, SyncBinding(b), ~queued', feature # "none"
  PROVE  \A a \in Accounts : RefsOf(cachedBindings', a) = RefsOf(cachedBindings, a)
  <1>1. /\ cachedBindings' = [cachedBindings EXCEPT ![b] = bindings[b]]
        /\ ~BindingEvent(cachedBindings[b]) /\ ~BindingEvent(bindings[b])
    BY DEF SyncBinding
  <1>2. ASSUME NEW a \in Accounts, NEW c \in Bindings
        PROVE  a \in cachedBindings'[c] <=> a \in cachedBindings[c]
    <2>1. CASE c = b
      BY <1>1, <2>1 DEF BindingEvent, MatchRoleBindingSubjects, TypeOK
    <2>2. CASE c # b
      BY <1>1, <2>2 DEF TypeOK
    <2>. QED BY <2>1, <2>2
  <1>. QED BY <1>2 DEF RefsOf, MatchRoleBindingSubjects

\* What no watch picks out changes no answer, and not what is left of a verification.
LEMMA AnswerKept ==
  ASSUME TypeOK, FixedInv, RolesStay, [Next]_vars, ~Restart, ~queued'
  PROVE  /\ \A a \in Accounts : Allowed(a)' => Allowed(a)
         /\ feature # "none" =>
              \A a \in Accounts : RefsOf(cachedBindings', a) = RefsOf(cachedBindings, a)
  <1>0. feature' = feature
    BY NextFixed
  <1>1. CASE feature = "none"
    BY <1>0, <1>1 DEF Allowed
  <1>2. CASE UNCHANGED <<cachedRoles, cachedBindings>>
    BY <1>0, <1>2 DEF Allowed, Answer, Requested
  <1>3. ASSUME feature # "none", NEW r \in Roles, SyncRole(r)
        PROVE  /\ \A a \in Accounts : Allowed(a)' => Allowed(a)
               /\ UNCHANGED cachedBindings
    <2>1. UNCHANGED cachedBindings
      BY <1>3 DEF SyncRole
    <2>2. \A a, R : MatchesRoles(cachedRoles', R, Requested(a))
                     <=> MatchesRoles(cachedRoles, R, Requested(a))
      BY <1>3, SyncRoleKeeps
    <2>3. \A a : Requested(a)' = Requested(a)
      BY <1>0 DEF Requested
    <2>. QED
      BY <1>0, <2>1, <2>2, <2>3 DEF Allowed, Answer, ValidateServiceAccountIsBound
  <1>4. ASSUME feature # "none", NEW b \in Bindings, SyncBinding(b)
        PROVE  /\ \A a \in Accounts : Allowed(a)' => Allowed(a)
               /\ \A a \in Accounts : RefsOf(cachedBindings', a) = RefsOf(cachedBindings, a)
    <2>1. UNCHANGED cachedRoles
      BY <1>4 DEF SyncBinding, caches
    <2>2. \A a \in Accounts : RefsOf(cachedBindings', a) = RefsOf(cachedBindings, a)
      BY <1>4, SyncBindingKeeps
    <2>3. \A a : Requested(a)' = Requested(a)
      BY <1>0 DEF Requested
    <2>. QED
      BY <1>0, <2>1, <2>2, <2>3 DEF Allowed, Answer, ValidateServiceAccountIsBound
  <1>5. Sync \/ UNCHANGED <<cachedRoles, cachedBindings>>
    BY DEF vars, world, caches, Next, Update, Environment, Get, ListBindings, ListRoles,
           ListNodes, UpdateNodeLabels, EndLabels, UpdateDaemonSets, EndDaemonSets,
           UpdateExtender, Fail, ChangeNode, ChangeRole, ChangeBinding
  <1>. QED BY <1>1, <1>2, <1>3, <1>4, <1>5 DEF Sync

-----------------------------------------------------------------------------
(***************************************************************************)
(* What rests is deployed. The stages of a worker that nobody has queued   *)
(* again: its copies of the nodes are the nodes, and what it has passed is *)
(* labelled and about to be served.                                        *)
(***************************************************************************)
Labelled(n) == Readable(n) /\ node[n].label = FindPlatform(node[n].kernel)
NodesDone   == \A n \in Selected : Labelled(n) /\ node[n].label \in daemonSets
NodeDone      == Allowed("node") => NodesDone
SchedulerDone == Allowed("scheduler") => extender

VerifyInv == pc = "roles" => refs = RefsOf(cachedBindings, account)
LabelInv  ==
  /\ pc = "label" =>
       /\ todo \subseteq Selected /\ \A n \in todo : listed[n] = node[n]
       /\ ~failed => \A n \in Selected \ todo : Labelled(n) /\ node[n].label \in needToDeploy
  /\ (pc = "daemonSets" /\ ~failed) =>
       \A n \in Selected : Labelled(n) /\ node[n].label \in needToDeploy \cup daemonSets
DoneInv   ==
  /\ (pc = "idle" \/ account = "scheduler") => NodeDone
  /\ pc = "idle" => SchedulerDone
RestInv   == ~queued => VerifyInv /\ LabelInv /\ DoneInv

LEMMA InitRest == Init => RestInv
  BY DEF Init, RestInv

\* A step of the worker that leaves the objects and the caches alone.
Reading == UNCHANGED <<feature, node, cachedRoles, cachedBindings, daemonSets, extender>>

LEMMA SameDone ==
  ASSUME Reading
  PROVE  /\ \A a : Allowed(a)' = Allowed(a)
         /\ NodesDone' = NodesDone /\ NodeDone' = NodeDone /\ SchedulerDone' = SchedulerDone
  BY DEF Reading, Allowed, Answer, Requested, NodesDone, NodeDone, SchedulerDone, Labelled,
         Readable, Selected

\* Node is verified and deployed, or not allowed: the extender is next.
LEMMA BeginScheduler ==
  ASSUME NodeDone, Reading, Begin("scheduler") PROVE RestInv'
  <1>1. NodeDone' /\ account' = "scheduler" /\ pc' \in {"extender", "bindings"}
    BY SameDone DEF Begin, Component
  <1>. QED BY <1>1 DEF RestInv, VerifyInv, LabelInv, DoneInv
LEMMA UpdateRest ==
  ASSUME TypeOK, FixedInv, RestInv, RolesStay, Update, ~queued' PROVE RestInv'
  <1>. USE DEF world, caches, deployed
  <1>0. WorldType /\ WorkerType /\ LoopType /\ queued \in BOOLEAN
    BY TypeParts
  <1>1. CASE Get
    <2>1. pc' \in {"list", "bindings"} /\ account' = "node"
      BY <1>1 DEF Get, Begin, Component
    <2>. QED BY <2>1 DEF RestInv, VerifyInv, LabelInv, DoneInv
  <1>2. CASE ListBindings
    <2>1. /\ Reading /\ UNCHANGED <<queued, account>> /\ pc = "bindings" /\ pc' = "roles"
          /\ refs' = RefsOf(cachedBindings, account)
      BY <1>2 DEF ListBindings, Reading
    <2>2. account' = "scheduler" => NodeDone'
      BY <2>1, SameDone DEF RestInv, DoneInv
    <2>. QED BY <2>1, <2>2 DEF Reading, RestInv, VerifyInv, LabelInv, DoneInv
  <1>3. CASE ListRoles
    <2>1. /\ Reading /\ UNCHANGED queued /\ pc = "roles" /\ feature # "none"
          /\ refs = RefsOf(cachedBindings, account)
          /\ account = "scheduler" => NodeDone
      BY <1>3 DEF ListRoles, Reading, FixedInv, RestInv, VerifyInv, DoneInv
    <2>2. Answer(account) <=> MatchesRoles(cachedRoles, refs, Requested(account))
      BY <2>1 DEF Answer, ValidateServiceAccountIsBound
    <2>3. CASE Answer(account)
      <3>1. pc' = Component(account) /\ UNCHANGED account
        BY <1>3, <2>2, <2>3 DEF ListRoles
      <3>2. account' = "scheduler" => NodeDone'
        BY <2>1, <3>1, SameDone
      <3>. QED BY <3>1, <3>2 DEF Component, RestInv, VerifyInv, LabelInv, DoneInv
    <2>4. CASE ~Answer(account) /\ account = "node"
      BY <1>3, <2>1, <2>2, <2>4, BeginScheduler DEF ListRoles, NodeDone, Allowed
    <2>5. CASE ~Answer(account) /\ account = "scheduler"
      <3>1. pc' = "idle"
        BY <1>3, <2>2, <2>5 DEF ListRoles, Return
      <3>2. NodeDone' /\ SchedulerDone'
        BY <2>1, <2>5, SameDone DEF SchedulerDone, Allowed
      <3>. QED BY <3>1, <3>2 DEF RestInv, VerifyInv, LabelInv, DoneInv
    <2>. QED BY <1>0, <2>3, <2>4, <2>5 DEF WorkerType, Accounts
  <1>4. CASE ListNodes
    <2>1. /\ Reading /\ pc' = "label" /\ todo' = Selected /\ account' = "node"
          /\ listed' = [n \in Selected |-> node[n]] /\ Selected' = Selected
      BY <1>4 DEF ListNodes, Reading, Selected, FixedInv
    <2>. QED BY <2>1 DEF Reading, RestInv, VerifyInv, LabelInv, DoneInv
  <1>5. CASE UpdateNodeLabels
    <2>0. pc = "label" /\ account = "node"
      BY <1>5 DEF UpdateNodeLabels, FixedInv
    <2>1. PICK n \in todo :
            SkipUnreadable(n) \/ (LabelNode(n) /\ queued' = (queued \/ node' # node))
      BY <1>5 DEF UpdateNodeLabels
    <2>2. ~queued /\ UNCHANGED <<node, pc, account>>
      <3>1. CASE SkipUnreadable(n)
        BY <3>1 DEF SkipUnreadable
      <3>2. CASE LabelNode(n) /\ queued' = (queued \/ node' # node)
        <4>1. ~(queued \/ node' # node)
          BY <3>2, Zenon
        <4>2. UNCHANGED <<pc, account>>
          BY <3>2 DEF LabelNode
        <4>. QED BY <4>1, <4>2
      <3>. QED BY <2>1, <3>1, <3>2
    <2>3. todo \subseteq Selected /\ \A m \in todo : listed[m] = node[m]
      BY <2>0, <2>2 DEF RestInv, LabelInv
    <2>4. todo' = todo \ {n} /\ listed' = [m \in todo \ {n} |-> listed[m]]
      BY <2>1 DEF SkipUnreadable, LabelNode, Passed
    <2>5. Selected' = Selected
      BY <2>2 DEF Selected
    <2>6. todo' \subseteq Selected' /\ \A m \in todo' : listed'[m] = node'[m]
      BY <2>2, <2>3, <2>4, <2>5
    <2>7. ~failed' => \A m \in Selected' \ todo' :
                        Labelled(m)' /\ node'[m].label \in needToDeploy'
      <3>. SUFFICES ASSUME ~failed', NEW m \in Selected \ (todo \ {n})
                    PROVE  Labelled(m) /\ node[m].label \in needToDeploy'
        BY <2>2, <2>4, <2>5 DEF Labelled, Readable
      <3>1. LabelNode(n) /\ ~failed
        BY <2>1 DEF SkipUnreadable, LabelNode
      <3>2. listed[n].label = FindPlatform(listed[n].kernel)
        <4>1. SUFFICES ASSUME listed[n].label # FindPlatform(listed[n].kernel) PROVE FALSE
          OBVIOUS
        <4>2. node' = [node EXCEPT ![n] = [listed[n] EXCEPT !.label = FindPlatform(listed[n].kernel)]]
          BY <3>1, <4>1 DEF LabelNode
        <4>. QED
          BY <1>0, <2>2, <2>3, <4>1, <4>2 DEF WorldType, LoopType, NodeStates
      <3>3. needToDeploy' = needToDeploy \cup {FindPlatform(listed[n].kernel)}
            /\ listed[n].kernel # Unreadable
        BY <3>1 DEF LabelNode
      <3>4. CASE m = n
        BY <2>3, <3>2, <3>3, <3>4 DEF Labelled, Readable
      <3>5. CASE m # n
        BY <2>0, <2>2, <3>1, <3>3, <3>5 DEF RestInv, LabelInv
      <3>. QED BY <3>4, <3>5
    <2>. QED BY <2>0, <2>2, <2>6, <2>7 DEF RestInv, VerifyInv, LabelInv, DoneInv
  <1>6. CASE EndLabels
    <2>1. /\ pc = "label" /\ todo = {} /\ ~failed /\ pc' = "daemonSets" /\ account = "node"
          /\ Reading /\ UNCHANGED <<queued, account, needToDeploy>>
      BY <1>6 DEF EndLabels, Requeue, Reading, FixedInv
    <2>2. \A n \in Selected : Labelled(n) /\ node[n].label \in needToDeploy
      BY <2>1 DEF RestInv, LabelInv
    <2>. QED
      BY <2>1, <2>2
      DEF Reading, RestInv, VerifyInv, LabelInv, DoneInv, Labelled, Readable, Selected
  <1>7. CASE UpdateDaemonSets
    <2>1. /\ pc = "daemonSets" /\ account = "node" /\ UNCHANGED <<node, pc, account>>
      BY <1>7 DEF UpdateDaemonSets, FixedInv
    <2>2. CASE failed'
      BY <2>1, <2>2 DEF RestInv, VerifyInv, LabelInv, DoneInv
    <2>3. CASE ~failed'
      <3>1. PICK platform \in needToDeploy :
              /\ needToDeploy' = needToDeploy \ {platform}
              /\ daemonSets' = daemonSets \cup {platform}
              /\ queued' = (queued \/ platform \notin daemonSets) /\ UNCHANGED failed
        BY <1>7, <2>3 DEF UpdateDaemonSets
      <3>2. \A n \in Selected : Labelled(n) /\ node[n].label \in needToDeploy \cup daemonSets
        BY <2>1, <2>3, <3>1 DEF RestInv, LabelInv
      <3>3. \A n \in Selected' :
              Labelled(n)' /\ node'[n].label \in needToDeploy' \cup daemonSets'
        BY <2>1, <3>1, <3>2 DEF Labelled, Readable, Selected
      <3>. QED BY <2>1, <3>3 DEF RestInv, VerifyInv, LabelInv, DoneInv
    <2>. QED BY <2>2, <2>3
  <1>8. CASE EndDaemonSets
    <2>1. /\ pc = "daemonSets" /\ ~failed /\ needToDeploy = {} /\ Begin("scheduler")
          /\ UNCHANGED queued /\ Reading
      BY <1>8 DEF EndDaemonSets, Requeue, Reading
    <2>2. NodeDone
      BY <2>1 DEF RestInv, LabelInv, NodeDone, NodesDone
    <2>. QED BY <2>1, <2>2, BeginScheduler
  <1>9. CASE UpdateExtender
    <2>1. /\ pc = "extender" /\ account = "scheduler" /\ pc' = "idle" /\ ~queued /\ extender
          /\ extender' = TRUE
      BY <1>9 DEF UpdateExtender, Return, FixedInv
    <2>2. Reading
      BY <1>0, <1>9, <2>1 DEF UpdateExtender, Reading, WorldType
    <2>3. NodeDone' /\ SchedulerDone'
      BY <2>1, <2>2, SameDone DEF RestInv, DoneInv, SchedulerDone
    <2>. QED BY <2>1, <2>3 DEF RestInv, VerifyInv, LabelInv, DoneInv
  <1>. QED
    BY <1>1, <1>2, <1>3, <1>4, <1>5, <1>6, <1>7, <1>8, <1>9 DEF Update

LEMMA OthersRest ==
  ASSUME TypeOK, FixedInv, RestInv, RolesStay, Sync \/ Environment, ~queued'
  PROVE  RestInv'
  <1>. USE DEF world, caches, deployed, worker
  <1>0. /\ node \in [Nodes -> NodeStates] /\ account \in Accounts
        /\ UNCHANGED <<daemonSets, extender, pc, account, refs, listed, todo, needToDeploy, failed>>
    BY DEF TypeOK, Sync, SyncRole, SyncBinding, Environment, ChangeNode, ChangeRole, ChangeBinding
  <1>1. ~queued
    BY DEF Sync, SyncRole, SyncBinding, Environment, ChangeNode, ChangeRole, ChangeBinding
  <1>2. Selected' = Selected /\ \A n \in Selected : node'[n] = node[n]
    <2>1. CASE UNCHANGED node
      BY <2>1 DEF Selected
    <2>2. ASSUME NEW n \in Nodes, ChangeNode(n)
          PROVE  Selected' = Selected /\ \A m \in Selected : node'[m] = node[m]
      <3>1. PICK new \in [kernel: Kernels, label: {node[n].label, NoLabel}, selected: BOOLEAN] :
              /\ node' = [node EXCEPT ![n] = new]
              /\ queued' = (queued \/ node[n].selected \/ new.selected)
        BY <2>2 DEF ChangeNode
      <3>2. ~node[n].selected /\ ~new.selected
        BY <3>1
      <3>. QED BY <1>0, <3>1, <3>2 DEF Selected
    <2>3. UNCHANGED node \/ \E n \in Nodes : ChangeNode(n)
      BY DEF Sync, SyncRole, SyncBinding, Environment, ChangeRole, ChangeBinding
    <2>. QED BY <2>1, <2>2, <2>3
  <1>3. /\ \A a \in Accounts : Allowed(a)' => Allowed(a)
        /\ feature # "none" =>
             \A a \in Accounts : RefsOf(cachedBindings', a) = RefsOf(cachedBindings, a)
    <2>1. CASE Sync
      <3>1. [Next]_vars
        BY <2>1 DEF Next
      <3>2. ASSUME Restart PROVE FALSE
        BY <3>2 DEF Restart, Requeue
      <3>. QED BY <3>1, <3>2, AnswerKept
    <2>2. CASE Environment
      <3>1. UNCHANGED <<feature, cachedRoles, cachedBindings>>
        BY <2>2 DEF Environment, ChangeNode, ChangeRole, ChangeBinding
      <3>. QED BY <3>1 DEF Allowed, Answer, Requested
    <2>. QED BY <2>1, <2>2
  <1>4. VerifyInv'
    BY <1>0, <1>1, <1>3 DEF RestInv, VerifyInv, FixedInv
  <1>5. LabelInv'
    BY <1>0, <1>1, <1>2 DEF RestInv, LabelInv, Labelled, Readable
  <1>6. NodesDone => NodesDone'
    BY <1>0, <1>2 DEF NodesDone, Labelled, Readable
  <1>7. DoneInv'
    BY <1>0, <1>1, <1>3, <1>6 DEF RestInv, DoneInv, NodeDone, SchedulerDone, Accounts
  <1>. QED BY <1>4, <1>5, <1>7 DEF RestInv

LEMMA NextRest ==
  TypeOK /\ FixedInv /\ (RolesStay => RestInv) /\ [Next]_vars => (RolesStay => RestInv)'
  <1>. SUFFICES ASSUME TypeOK, FixedInv, RolesStay => RestInv, [Next]_vars, RolesStay', ~queued'
                PROVE  RestInv'
    BY DEF RestInv
  <1>0. RolesStay
    BY NextFixed DEF RolesStay
  <1>1. CASE UNCHANGED vars
    BY <1>0, <1>1
    DEF vars, world, caches, deployed, worker, RestInv, VerifyInv, LabelInv, DoneInv, NodeDone,
        SchedulerDone, NodesDone, Labelled, Readable, Selected, Allowed, Answer, Requested
  <1>2. CASE Fail \/ Restart
    BY <1>2 DEF Fail, Restart, Requeue
  <1>. QED BY <1>0, <1>1, <1>2, UpdateRest, OthersRest DEF Next

LEMMA Rested == Spec => [](TypeOK /\ FixedInv /\ (RolesStay => RestInv))
  BY Fixed, InitRest, NextRest, PTL DEF Spec

\* Once the caches have caught up, the verifier's answer is the API server's.
LEMMA BoundAllowed ==
  Quiescent => /\ Bound("node") <=> Allowed("node")
               /\ Bound("scheduler") <=> Allowed("scheduler")
  BY DEF Quiescent, Bound, Allowed, Answer

\* At rest, what may be deployed is, unless roles change under pod security policies, which
\* the watch does not notice (the run NodeDeploymentPsp).
THEOREM DeployedRests == Spec => [](RolesStay => DeployedAtRest)
  <1>1. TypeOK /\ RestInv => DeployedAtRest
    <2>. SUFFICES ASSUME TypeOK, RestInv, Quiescent
                  PROVE  /\ Bound("node") => daemonSets # {} \/ Selected = {}
                         /\ Bound("scheduler") => extender
      BY DEF DeployedAtRest
    <2>1. NodeDone /\ SchedulerDone
      BY DEF Quiescent, RestInv, DoneInv
    <2>. QED BY <2>1, BoundAllowed DEF NodeDone, NodesDone, SchedulerDone
  <1>. QED BY Rested, <1>1, PTL

\* Likewise every selected node has the label its kernel asks for, and a daemon set.
THEOREM ServedRests == Spec => [](RolesStay => ServedAtRest)
  <1>1. TypeOK /\ RestInv => ServedAtRest
    <2>. SUFFICES ASSUME TypeOK, RestInv, Quiescent, Bound("node"), NEW n \in Selected
                  PROVE  Served(n)
      BY DEF ServedAtRest
    <2>1. Labelled(n) /\ node[n].label \in daemonSets
      BY BoundAllowed DEF Quiescent, RestInv, DoneInv, NodeDone, NodesDone
    <2>2. node[n].kernel \in Nat \X Nat
      BY <2>1, DeploymentAssumption DEF Labelled, Readable, Selected, TypeOK, NodeStates
    <2>. QED BY <2>1, <2>2 DEF Served, Labelled, FindPlatform, Before54
  <1>. QED BY Rested, <1>1, PTL

-----------------------------------------------------------------------------
\* A reconcile ends

\* The steps a reconcile has left at most, the one the worker is about to make included.
Left ==
  IF pc = "idle" THEN 0
  ELSE IF pc = "extender" THEN 1
  ELSE IF account = "scheduler" /\ pc = "roles" THEN 2
  ELSE IF account = "scheduler" /\ pc = "bindings" THEN 3
  ELSE IF pc = "daemonSets" THEN 4 + Cardinality(needToDeploy)
  ELSE IF pc = "label" THEN 5 + Cardinality(Platforms) + Cardinality(todo)
  ELSE Cardinality(Platforms) + Cardinality(Nodes)
       + (IF pc = "list" THEN 6 ELSE IF pc = "roles" THEN 7 ELSE 8)

WorkerStep == Update \/ Fail

LEMMA PlatformsFinite == IsFiniteSet(Platforms)
  <1>1. IsFiniteSet({"default"} \cup {"kernel-5.4"})
    <2>1. IsFiniteSet({} \cup {"default"})
      BY FS_EmptySet, FS_AddElement
    <2>2. {} \cup {"default"} = {"default"}
      OBVIOUS
    <2>. QED BY <2>1, <2>2, FS_AddElement
  <1>2. {"default"} \cup {"kernel-5.4"} = Platforms
    BY DEF Platforms
  <1>. QED BY <1>1, <1>2

\* The sizes of the worker's sets.
LEMMA SetSizes ==
  ASSUME NEW S, IsFiniteSet(S), NEW T \in SUBSET S
  PROVE  /\ Cardinality(S) \in Nat /\ Cardinality(T) \in 0 .. Cardinality(S)
         /\ \A x \in T : Cardinality(T \ {x}) = Cardinality(T) - 1
  BY FS_Subset, FS_CardinalityType, FS_RemoveElement

LEMMA LoopSizes ==
  ASSUME TypeOK, IsFiniteSet(Nodes)
  PROVE  /\ Cardinality(Nodes) \in Nat /\ Cardinality(Platforms) \in Nat
         /\ Cardinality(todo) \in 0 .. Cardinality(Nodes)
         /\ Cardinality(needToDeploy) \in 0 .. Cardinality(Platforms)
  <1>1. todo \in SUBSET Nodes /\ needToDeploy \in SUBSET Platforms
    BY DEF TypeOK
  <1>. QED BY <1>1, SetSizes, PlatformsFinite

LEMMA LeftRange ==
  ASSUME TypeOK, IsFiniteSet(Nodes)
  PROVE  /\ Left \in 0 .. Cardinality(Platforms) + Cardinality(Nodes) + 8
         /\ Left = 0 <=> pc = "idle"
  BY LoopSizes DEF Left

\* What a step of the worker makes of its stage, its account and its lists.
Onward ==
  \/ pc' = "idle"
  \/ pc = "bindings" /\ pc' = "roles" /\ UNCHANGED account
  \/ pc = "roles" /\ pc' = Component(account) /\ UNCHANGED account
  \/ pc \in {"roles", "daemonSets"} /\ (pc = "roles" => account = "node")
     /\ account' = "scheduler" /\ pc' \in {"bindings", "extender"}
  \/ pc = "list" /\ pc' = "label"
  \/ pc = "label" /\ pc' = "label" /\ \E n \in todo : todo' = todo \ {n}
  \/ pc = "label" /\ pc' = "daemonSets"
  \/ pc = "daemonSets" /\ pc' = "daemonSets"
     /\ \E platform \in needToDeploy : needToDeploy' = needToDeploy \ {platform}

LEMMA WorkerOnward == ASSUME TypeOK, pc # "idle", WorkerStep PROVE Onward
  <1>. USE DEF Onward, Return, Requeue
  <1>1. CASE ListBindings
    BY <1>1 DEF ListBindings
  <1>2. CASE ListRoles
    <2>1. account \in Accounts
      BY DEF TypeOK
    <2>. QED BY <1>2, <2>1 DEF ListRoles, Begin, Component, Accounts
  <1>3. CASE ListNodes
    BY <1>3 DEF ListNodes
  <1>4. CASE UpdateNodeLabels
    BY <1>4 DEF UpdateNodeLabels, SkipUnreadable, LabelNode, Passed
  <1>5. CASE EndLabels
    BY <1>5 DEF EndLabels
  <1>6. CASE UpdateDaemonSets
    BY <1>6 DEF UpdateDaemonSets
  <1>7. CASE EndDaemonSets
    BY <1>7 DEF EndDaemonSets, Begin, Component
  <1>8. CASE UpdateExtender \/ Fail
    BY <1>8 DEF UpdateExtender, Fail
  <1>9. ~Get
    BY DEF Get
  <1>. QED BY <1>1, <1>2, <1>3, <1>4, <1>5, <1>6, <1>7, <1>8, <1>9 DEF WorkerStep, Update

LEMMA OnwardLess ==
  ASSUME TypeOK, TypeOK', IsFiniteSet(Nodes), pc # "idle", Onward
  PROVE  Left' <= Left /\ Left' < Left
  <1>. DEFINE n == Cardinality(Nodes)
              k == Cardinality(Platforms)
              t == Cardinality(todo)
              d == Cardinality(needToDeploy)
  <1>1. /\ n \in Nat /\ k \in Nat /\ t \in 0 .. n /\ t' \in 0 .. n
        /\ d \in 0 .. k /\ d' \in 0 .. k
    BY LoopSizes, PlatformsFinite, SetSizes DEF TypeOK
  <1>2. todo \in SUBSET Nodes /\ needToDeploy \in SUBSET Platforms /\ account \in Accounts
    BY DEF TypeOK
  <1>3. CASE pc' = "idle"
    <2>1. Left' = 0
      BY <1>3 DEF Left
    <2>. QED BY <2>1, LeftRange, <1>1
  <1>4. CASE pc = "bindings" /\ pc' = "roles" /\ UNCHANGED account
    <2>1. \/ Left = 3 /\ Left' = 2
          \/ Left = k + n + 8 /\ Left' = k + n + 7
      BY <1>4 DEF Left
    <2>. QED BY <1>1, <2>1
  <1>5. CASE pc = "roles" /\ pc' = Component(account) /\ UNCHANGED account
    <2>1. \/ Left = 2 /\ Left' = 1
          \/ Left = k + n + 7 /\ Left' = k + n + 6
      BY <1>2, <1>5 DEF Left, Component, Accounts
    <2>. QED BY <1>1, <2>1
  <1>6. CASE pc \in {"roles", "daemonSets"} /\ (pc = "roles" => account = "node")
             /\ account' = "scheduler" /\ pc' \in {"bindings", "extender"}
    <2>1. Left \in {k + n + 7, 4 + d} /\ Left' \in {1, 3}
      BY <1>6 DEF Left
    <2>. QED BY <1>1, <2>1
  <1>7. CASE pc = "list" /\ pc' = "label"
    <2>1. Left = k + n + 6 /\ Left' = 5 + k + t'
      BY <1>7 DEF Left
    <2>. QED BY <1>1, <2>1
  <1>8. CASE pc = "label" /\ pc' = "label" /\ \E x \in todo : todo' = todo \ {x}
    <2>1. PICK x \in todo : todo' = todo \ {x}
      BY <1>8
    <2>2. t' = t - 1
      BY <1>2, <2>1, SetSizes
    <2>3. Left = 5 + k + t /\ Left' = 5 + k + t'
      BY <1>8 DEF Left
    <2>. QED BY <1>1, <2>2, <2>3
  <1>9. CASE pc = "label" /\ pc' = "daemonSets"
    <2>1. Left = 5 + k + t /\ Left' = 4 + d'
      BY <1>9 DEF Left
    <2>. QED BY <1>1, <2>1
  <1>10. CASE pc = "daemonSets" /\ pc' = "daemonSets"
              /\ \E x \in needToDeploy : needToDeploy' = needToDeploy \ {x}
    <2>1. PICK x \in needToDeploy : needToDeploy' = needToDeploy \ {x}
      BY <1>10
    <2>2. d' = d - 1
      BY <1>2, <2>1, SetSizes, PlatformsFinite
    <2>3. Left = 4 + d /\ Left' = 4 + d'
      BY <1>10 DEF Left
    <2>. QED BY <1>1, <2>2, <2>3
  <1>. QED BY <1>3, <1>4, <1>5, <1>6, <1>7, <1>8, <1>9, <1>10 DEF Onward

\* A reconcile ends, however many nodes fail on the way: the verification of one account
\* gives way to its component or to the next account, and both loops take what they have
\* listed once.
THEOREM Ends ==
  ASSUME IsFiniteSet(Nodes)
  PROVE  Spec =>
           /\ [](/\ Left \in 0 .. Cardinality(Platforms) + Cardinality(Nodes) + 8
                 /\ Left = 0 <=> pc = "idle")
           /\ [][pc # "idle" => Left' <= Left /\ (WorkerStep => Left' < Left)]_vars
  <1>1. ASSUME TypeOK, TypeOK', [Next]_vars, pc # "idle"
        PROVE  Left' <= Left /\ (WorkerStep => Left' < Left)
    <2>1. CASE WorkerStep
      BY <1>1, <2>1, WorkerOnward, OnwardLess
    <2>2. CASE ~WorkerStep /\ UNCHANGED <<pc, account, todo, needToDeploy>>
      <3>1. Left' = Left
        BY <2>2 DEF Left
      <3>. QED BY <1>1, <2>2, <3>1, LeftRange, LoopSizes
    <2>3. CASE Restart
      <3>1. Onward
        BY <2>3 DEF Restart, Requeue, Return, Onward
      <3>. QED BY <1>1, <3>1, OnwardLess
    <2>4. CASE UNCHANGED vars
      BY <2>1, <2>2, <2>4 DEF vars, worker
    <2>5. ASSUME Sync \/ Environment PROVE UNCHANGED <<pc, account, todo, needToDeploy>>
      BY <2>5 DEF Sync, SyncRole, SyncBinding, Environment, ChangeNode, ChangeRole,
                  ChangeBinding, worker
    <2>. QED BY <1>1, <2>1, <2>2, <2>3, <2>4, <2>5 DEF Next, WorkerStep
  <1>2. TypeOK => /\ Left \in 0 .. Cardinality(Platforms) + Cardinality(Nodes) + 8
                  /\ Left = 0 <=> pc = "idle"
    BY LeftRange
  <1>. QED BY <1>1, <1>2, TypeCorrect, PTL DEF Spec
===============================================================================
