------------------------ MODULE NodeOperationsProofs ------------------------
(***************************************************************************)
(* Type correctness, the safety of node removal, what holds when it rests, *)
(* and that a reconcile ends, for any number of nodes, administrators'     *)
(* changes, failed requests, stalled informers and restarts.               *)
(***************************************************************************)
EXTENDS NodeOperations, FiniteSetTheorems, TLAPS

-----------------------------------------------------------------------------
\* Types

\* The csibmnodes the model builds are csibmnodes.
LEMMA CsibmnodeType ==
  ASSUME NEW e \in BOOLEAN, NEW l \in BOOLEAN, NEW v \in Nat
  PROVE  Csibmnode(e, l, v) \in Csibmnodes
  BY DEF Csibmnode, Csibmnodes

\* The same for every node.
LEMMA CsibmnodesType ==
  /\ NoCsibmnodes \in [Nodes -> Csibmnodes]
  /\ [n \in Nodes |-> Csibmnode(TRUE, FALSE, 1)] \in [Nodes -> Csibmnodes]
  <1>1. Csibmnode(FALSE, FALSE, 0) \in Csibmnodes /\ Csibmnode(TRUE, FALSE, 1) \in Csibmnodes
    BY DEF Csibmnode, Csibmnodes
  <1> QED
    BY <1>1 DEF NoCsibmnodes

\* One csibmnode replaced by another version of it.
LEMMA ReplacedType ==
  ASSUME csibm \in [Nodes -> Csibmnodes], NEW n \in Nodes, NEW e \in BOOLEAN, NEW l \in BOOLEAN
  PROVE  [csibm EXCEPT ![n] = Csibmnode(e, l, @.rv + 1)] \in [Nodes -> Csibmnodes]
  <1>1. csibm[n].rv + 1 \in Nat
    BY DEF Csibmnodes
  <1>2. Csibmnode(e, l, csibm[n].rv + 1) \in Csibmnodes
    BY <1>1, CsibmnodeType
  <1> QED
    BY <1>2

\* A request fails or is answered; either way faults counts.
LEMMA OutcomeType ==
  ASSUME faults \in Nat, NEW b \in BOOLEAN, Outcome(b)
  PROVE  faults' \in Nat
  BY DEF Outcome, Fault

\* The cache is of the type of the store it copies.
LEMMA StoreType ==
  ASSUME NEW new \in [Nodes -> Csibmnodes], cache \in [Nodes -> Csibmnodes], Store(new)
  PROVE  csibm' \in [Nodes -> Csibmnodes] /\ cache' \in [Nodes -> Csibmnodes]
  BY DEF Store

\* So it is with the pods.
LEMMA PodsType ==
  ASSUME TypeOK, NEW new \in [Nodes -> SUBSET PodKinds], SetPods(new)
  PROVE  pods' \in [Nodes -> SUBSET PodKinds] /\ podSeen' \in [Nodes -> SUBSET PodKinds]
  BY DEF SetPods, TypeOK

\* What deleteObject leaves of an object is an object, and what is not there stays away.
LEMMA DeletedType ==
  ASSUME NEW o \in ObjectStates, NEW cleared \in BOOLEAN, NEW gone \in BOOLEAN
  PROVE  Deleted(o, cleared, gone) \in ObjectStates /\ Deleted("absent", cleared, gone) = "absent"
  BY DEF Deleted, ObjectStates

\* What the deletion of the resources of one kind makes of them: they are left as `left`,
\* with an error or not, and those that are left without one are lost.
Deletes(k, left, erred) ==
  /\ pc = "delete" /\ cur \in Nodes /\ at \in 1 .. 4 /\ k = KindOrder[at]
  /\ res' = [res EXCEPT ![cur][k] = left]
  /\ res[cur][k] = "absent" => left = "absent"
  /\ nodeErr' = (nodeErr \/ erred)
  /\ lost' = IF left = "absent" THEN lost \ {<<cur, k>>}
             ELSE IF erred THEN lost ELSE lost \cup {<<cur, k>>}

LEMMA DeletionStep ==
  ASSUME TypeOK, DeleteResources
  PROVE  /\ \E k \in KindNames, left \in ObjectStates, erred \in BOOLEAN : Deletes(k, left, erred)
         /\ faults' \in Nat
         /\ resSeen' \in [Nodes -> [KindNames -> Views]]
  <1> DEFINE k == KindOrder[at]
             o == res[cur][k]
             view == resSeen[cur][k]
  <1>1. k \in KindNames /\ cur \in Nodes /\ at \in 1 .. 4 /\ pc = "delete"
    BY DEF DeleteResources, TypeOK, KindOrder, KindNames
  <1>2. o \in ObjectStates /\ view \in Views
    BY <1>1 DEF TypeOK
  <1>3. PICK cleared \in BOOLEAN, gone \in BOOLEAN :
           /\ Outcome(~gone \/ (view = "current" /\ ~cleared))
           /\ res' = [res EXCEPT ![cur][k] = Left(o, view, cleared, gone)]
           /\ resSeen' = [resSeen EXCEPT ![cur][k] = View(k, view, o, Left(o, view, cleared, gone))]
           /\ nodeErr' = (nodeErr \/ Erred(o, view, cleared, gone))
           /\ lost' = IF Left(o, view, cleared, gone) = "absent" THEN lost \ {<<cur, k>>}
                      ELSE IF Erred(o, view, cleared, gone) THEN lost ELSE lost \cup {<<cur, k>>}
    BY ZenonT(40) DEF DeleteResources
  <1>4. faults' \in Nat
    <2>1. (~gone \/ (view = "current" /\ ~cleared)) \in BOOLEAN
      OBVIOUS
    <2> HIDE DEF view
    <2> QED
      BY <1>3, <2>1, OutcomeType DEF TypeOK
  <1> HIDE DEF k, o, view
  <1>5. Left(o, view, cleared, gone) \in ObjectStates
    BY <1>2, DeletedType DEF Left
  <1>6. o = "absent" => Left(o, view, cleared, gone) = "absent"
    BY <1>2, DeletedType DEF Left
  <1>7. Erred(o, view, cleared, gone) \in BOOLEAN
    BY Zenon DEF Erred
  <1>8. View(k, view, o, Left(o, view, cleared, gone)) \in Views
    BY <1>2 DEF View, Views
  <1>9. Deletes(k, Left(o, view, cleared, gone), Erred(o, view, cleared, gone))
    BY <1>1, <1>3, <1>6 DEF Deletes, k, o
  <1>10. resSeen' \in [Nodes -> [KindNames -> Views]]
    <2> DEFINE new == View(k, view, o, Left(o, view, cleared, gone))
    <2>1. new \in Views /\ resSeen' = [resSeen EXCEPT ![cur][k] = new]
      BY <1>3, <1>8
    <2> HIDE DEF new
    <2> QED
      BY <1>1, <2>1 DEF TypeOK
  <1> QED
    BY <1>1, <1>4, <1>5, <1>7, <1>9, <1>10

\* The end of a reconcile leaves a well-typed worker.
LEMMA DoneType ==
  ASSUME TypeOK, Done
  PROVE  /\ pc' = "idle" /\ todo' \subseteq Nodes /\ removing' \subseteq Nodes
         /\ nodesSeen' \in [Nodes -> Taints \cup {"missing"}]
         /\ nodesSeen' = [n \in Nodes |-> "missing"]
         /\ csibmSeen' \in [Nodes -> Csibmnodes]
         /\ cur' = NoNode /\ at' \in 1 .. 5 /\ nodeErr' \in BOOLEAN /\ errs' \in BOOLEAN
  <1>1. pc' = "idle" /\ todo' \subseteq Nodes /\ removing' \subseteq Nodes
    BY DEF Done
  <1>2. nodesSeen' = [n \in Nodes |-> "missing"]
    BY DEF Done
  <1>3. [n \in Nodes |-> "missing"] \in [Nodes -> Taints \cup {"missing"}]
    OBVIOUS
  <1>4. csibmSeen' \in [Nodes -> Csibmnodes]
    BY CsibmnodesType DEF Done
  <1>5. cur' = NoNode /\ at' \in 1 .. 5
    BY DEF Done
  <1>6. nodeErr' \in BOOLEAN /\ errs' \in BOOLEAN
    BY Zenon DEF Done
  <1> QED
    BY <1>1, <1>2, <1>3, <1>4, <1>5, <1>6

\* The initial state is well typed.
LEMMA InitType == Init => TypeOK
  <1> SUFFICES ASSUME Init PROVE TypeOK
    OBVIOUS
  <1>1. node \in [Nodes -> [present: BOOLEAN, selected: BOOLEAN, taint: Taints]]
    BY DEF Init, Taints
  <1>2. csibm \in [Nodes -> Csibmnodes] /\ csibmSeen \in [Nodes -> Csibmnodes]
    BY CsibmnodesType DEF Init
  <1>3. res \in [Nodes -> [KindNames -> ObjectStates]]
        /\ resSeen \in [Nodes -> [KindNames -> Views]]
    BY DEF Init, NewObject, ObjectStates, Views
  <1>4. /\ cache = csibm /\ podSeen = pods
        /\ queued \in BOOLEAN /\ nodeErr \in BOOLEAN /\ errs \in BOOLEAN /\ blind \in BOOLEAN
    BY Zenon DEF Init
  <1>5. pods \in [Nodes -> SUBSET PodKinds] /\ nodesSeen = [n \in Nodes |-> "missing"]
        /\ nodesSeen \in [Nodes -> Taints \cup {"missing"}]
    BY DEF Init
  <1>6. /\ drained = {} /\ todo = {} /\ removing = {} /\ stalled = {} /\ returned = {}
        /\ overlooked = {} /\ stray = {} /\ lost = {}
        /\ pc = "idle" /\ cur = NoNode /\ at = 1 /\ admin = 0 /\ faults = 0
    BY DEF Init
  <1> QED
    BY <1>1, <1>2, <1>3, <1>4, <1>5, <1>6 DEF TypeOK

\* The worker's steps preserve the types.
LEMMA ReconcileType == TypeOK /\ (Reconcile \/ ListFails) => TypeOK'
  <1> SUFFICES ASSUME TypeOK, Reconcile \/ ListFails PROVE TypeOK'
    OBVIOUS
  <1> USE DEF objects, caches, history
  <1>1. CASE ListNodes
    <2>1. nodesSeen' \in [Nodes -> Taints \cup {"missing"}]
      BY <1>1 DEF ListNodes, TypeOK
    <2> QED
      BY <1>1, <2>1 DEF ListNodes, TypeOK
  <1>2. CASE ListCsibmnodes
    <2>1. blind' \in BOOLEAN
      BY <1>2, Zenon DEF ListCsibmnodes
    <2> QED
      BY <1>2, <2>1 DEF ListCsibmnodes, TypeOK
  <1>3. CASE EndLabels
    BY <1>3 DEF EndLabels, TypeOK
  <1>4. CASE DeleteResources
    <2>1. PICK k \in KindNames, left \in ObjectStates, erred \in BOOLEAN : Deletes(k, left, erred)
      BY <1>4, DeletionStep
    <2>2. /\ res' \in [Nodes -> [KindNames -> ObjectStates]] /\ lost' \subseteq Nodes \X KindNames
          /\ nodeErr' \in BOOLEAN /\ at' \in 1 .. 5
      BY <1>4, <2>1 DEF Deletes, TypeOK, DeleteResources
    <2>3. faults' \in Nat /\ resSeen' \in [Nodes -> [KindNames -> Views]]
      BY <1>4, DeletionStep
    <2> QED
      BY <1>4, <2>2, <2>3 DEF DeleteResources, TypeOK
  <1>5. CASE DeleteCsibmnode
    <2>1. cur \in Nodes
      BY <1>5 DEF DeleteCsibmnode, TypeOK
    <2>2. PICK failed \in BOOLEAN :
             /\ Outcome(failed)
             /\ IF AllDeleted /\ ~failed /\ csibm[cur].exists
                THEN Store([csibm EXCEPT ![cur] = Csibmnode(FALSE, FALSE, @.rv + 1)])
                     /\ UNCHANGED errs
                ELSE errs' = TRUE /\ UNCHANGED <<csibm, cache>>
      BY <1>5 DEF DeleteCsibmnode
    <2>3. faults' \in Nat
      BY <2>2, OutcomeType DEF TypeOK
    <2>4. [csibm EXCEPT ![cur] = Csibmnode(FALSE, FALSE, @.rv + 1)]
            \in [Nodes -> Csibmnodes]
      BY <2>1, ReplacedType DEF TypeOK
    <2>5. csibm' \in [Nodes -> Csibmnodes] /\ cache' \in [Nodes -> Csibmnodes]
          /\ errs' \in BOOLEAN
      BY <2>2, <2>4, StoreType DEF TypeOK
    <2>6. /\ pc' = "remove" /\ removing' \subseteq Nodes /\ cur' = NoNode /\ at' = 1
          /\ nodeErr' = FALSE
          /\ UNCHANGED <<node, pods, res, podSeen, resSeen, stalled, history, queued, nodesSeen,
                         csibmSeen, todo, admin>>
      BY <1>5 DEF DeleteCsibmnode, TypeOK
    <2>7. nodeErr' \in BOOLEAN
      BY <2>6, Zenon
    <2> QED
      BY <2>3, <2>5, <2>6, <2>7 DEF TypeOK
  <1>6. CASE EndRemoval
    BY <1>6 DEF EndRemoval, TypeOK
  <1>7. CASE MaintainNodes
    <2> DEFINE visited == {n \in Nodes : ToEvict(n)}
               shown == {n \in visited : "replica" \in podSeen[n]}
    <2>1. PICK kept \in SUBSET visited :
             /\ Outcome(kept # {})
             /\ SetPods([n \in Nodes |-> IF n \in shown \ kept THEN pods[n] \ {"replica"} ELSE pods[n]])
             /\ queued' = \/ queued \/ pods' # pods
                          \/ Failed(kept \cup {n \in shown : "replica" \notin pods[n]})
             /\ stray' = {x \in stray : x[1] \notin visited \/ x[2] # "replica"}
                          \cup Unseen(visited, "replica")
      BY <1>7 DEF MaintainNodes
    <2> HIDE DEF visited, shown
    <2>2. [n \in Nodes |-> IF n \in shown \ kept THEN pods[n] \ {"replica"} ELSE pods[n]]
            \in [Nodes -> SUBSET PodKinds]
      BY DEF TypeOK
    <2>3. pods' \in [Nodes -> SUBSET PodKinds] /\ podSeen' \in [Nodes -> SUBSET PodKinds]
      BY <2>1, <2>2, PodsType
    <2>4. queued' \in BOOLEAN
      BY <2>1, Zenon
    <2>5. stray' \subseteq Nodes \X PodKinds
      <3>1. visited \subseteq Nodes
        BY DEF visited
      <3> QED
        BY <2>1, <3>1 DEF TypeOK, Unseen, PodKinds
    <2>6. faults' \in Nat
      BY <2>1, OutcomeType DEF TypeOK
    <2>7. Done
      BY <1>7 DEF MaintainNodes
    <2> QED
      BY <1>7, <2>3, <2>4, <2>5, <2>6, <2>7, DoneType DEF MaintainNodes, TypeOK
  <1>8. ASSUME NEW n \in Nodes, UpdateLabel(n) PROVE TypeOK'
    <2>1. PICK failed \in BOOLEAN :
             /\ Outcome(failed)
             /\ IF ~failed /\ csibm[n].exists /\ csibmSeen[n].rv = csibm[n].rv
                THEN /\ Store([csibm EXCEPT ![n] = Csibmnode(TRUE, HasTaint(n), @.rv + 1)])
                     /\ UNCHANGED errs
                ELSE errs' = TRUE /\ UNCHANGED <<csibm, cache>>
      BY <1>8 DEF UpdateLabel
    <2>2. faults' \in Nat
      BY <2>1, OutcomeType DEF TypeOK
    <2>3. [csibm EXCEPT ![n] = Csibmnode(TRUE, HasTaint(n), @.rv + 1)] \in [Nodes -> Csibmnodes]
      BY ReplacedType DEF TypeOK, HasTaint
    <2>4. csibm' \in [Nodes -> Csibmnodes] /\ cache' \in [Nodes -> Csibmnodes]
          /\ errs' \in BOOLEAN
      BY <2>1, <2>3, StoreType DEF TypeOK
    <2> QED
      BY <1>8, <2>2, <2>4 DEF UpdateLabel, TypeOK
  <1>9. ASSUME NEW n \in Nodes, CheckPods(n) PROVE TypeOK'
    <2>1. PICK failed \in BOOLEAN :
             /\ Outcome(failed)
             /\ IF failed \/ DaemonsetPodRunning(n)
                THEN /\ removing' = removing \ {n} /\ errs' = TRUE
                     /\ UNCHANGED <<pc, cur>>
                ELSE /\ cur' = n /\ pc' = "delete"
                     /\ UNCHANGED <<removing, errs>>
      BY <1>9 DEF CheckPods
    <2>2. faults' \in Nat
      BY <2>1, OutcomeType DEF TypeOK
    <2>3. /\ pc = "remove" /\ n \in removing
          /\ UNCHANGED <<node, objects, caches, drained, returned, blind, overlooked, lost, queued,
                         nodesSeen, csibmSeen, todo, at, nodeErr, admin>>
          /\ stray' \subseteq Nodes \X PodKinds
      BY <1>9 DEF CheckPods, Unseen, TypeOK, PodKinds
    <2>4. CASE failed \/ DaemonsetPodRunning(n)
      <3>1. removing' = removing \ {n} /\ UNCHANGED <<pc, cur>>
        BY <2>1, <2>4
      <3>2. errs' \in BOOLEAN
        BY <2>1, <2>4, Zenon
      <3> QED
        BY <2>2, <2>3, <3>1, <3>2 DEF TypeOK
    <2>5. CASE ~(failed \/ DaemonsetPodRunning(n))
      BY <2>1, <2>2, <2>3, <2>5 DEF TypeOK
    <2> QED
      BY <2>4, <2>5
  <1>10. CASE ListFails
    <2>1. Done /\ faults' \in Nat
      BY <1>10 DEF ListFails, Fault, TypeOK
    <2>2. queued' \in BOOLEAN /\ blind' \in BOOLEAN
      <3>1. queued' = FALSE \/ queued' = queued
        BY <1>10 DEF ListFails
      <3> QED
        BY <1>10, <3>1, Zenon DEF ListFails, TypeOK
    <2> QED
      BY <1>10, <2>1, <2>2, DoneType DEF ListFails, TypeOK
  <1> QED
    BY <1>1, <1>2, <1>3, <1>4, <1>5, <1>6, <1>7, <1>8, <1>9, <1>10 DEF Reconcile

\* What a step of the environment leaves of the worker.
LEMMA AroundType ==
  ASSUME TypeOK, Around
  PROVE  /\ todo' \subseteq Nodes /\ removing' \subseteq Nodes
         /\ pc' \in {"idle", "listCsibmnodes", "label", "remove", "delete", "maintain"}
         /\ nodesSeen' \in [Nodes -> Taints \cup {"missing"}]
         /\ (pc' = "idle" => nodesSeen' = [n \in Nodes |-> "missing"])
         /\ csibmSeen' \in [Nodes -> Csibmnodes]
         /\ cur' \in Nodes \cup {NoNode} /\ (pc' = "delete" => cur' \in removing')
         /\ at' \in 1 .. 5 /\ nodeErr' \in BOOLEAN /\ errs' \in BOOLEAN
  BY DEF TypeOK, Around

\* The environment's steps preserve the types.
LEMMA EnvironmentType == TypeOK /\ Environment => TypeOK'
  <1> SUFFICES ASSUME TypeOK, Environment PROVE TypeOK'
    OBVIOUS
  <1> USE DEF objects, caches, history
  <1>1. ASSUME NEW n \in Nodes, DeleteNode(n) \/ AddNode(n) \/ RelabelNode(n) PROVE TypeOK'
    <2>1. node' \in [Nodes -> [present: BOOLEAN, selected: BOOLEAN, taint: Taints]]
      <3>1. node[n] \in [present: BOOLEAN, selected: BOOLEAN, taint: Taints]
        BY DEF TypeOK
      <3>2. /\ [node[n] EXCEPT !.present = FALSE, !.taint = "none"]
                 \in [present: BOOLEAN, selected: BOOLEAN, taint: Taints]
            /\ [node[n] EXCEPT !.present = TRUE]
                 \in [present: BOOLEAN, selected: BOOLEAN, taint: Taints]
            /\ [node[n] EXCEPT !.selected = ~node[n].selected]
                 \in [present: BOOLEAN, selected: BOOLEAN, taint: Taints]
        BY <3>1 DEF Taints
      <3>3. PICK new \in [present: BOOLEAN, selected: BOOLEAN, taint: Taints] :
               node' = [node EXCEPT ![n] = new]
        <4>1. CASE DeleteNode(n)
          BY <3>2, <4>1 DEF DeleteNode
        <4>2. CASE AddNode(n)
          BY <3>2, <4>2 DEF AddNode
        <4>3. CASE RelabelNode(n)
          BY <3>2, <4>3 DEF RelabelNode
        <4> QED
          BY <1>1, <4>1, <4>2, <4>3
      <3> QED
        BY <3>3 DEF TypeOK
    <2>2. queued' \in BOOLEAN
      BY <1>1, Zenon DEF DeleteNode, AddNode, RelabelNode, NodeEvent
    <2>3. /\ admin' \in Nat /\ Around /\ returned' \subseteq Nodes
          /\ UNCHANGED <<objects, caches, drained, blind, overlooked, stray, lost, faults>>
      BY <1>1 DEF DeleteNode, AddNode, RelabelNode, TypeOK, Admin
    <2> QED
      BY <2>1, <2>2, <2>3, AroundType DEF TypeOK
  <1>2. ASSUME NEW n \in Nodes, NEW taint \in Taints, SetTaint(n, taint) PROVE TypeOK'
    <2>1. node' \in [Nodes -> [present: BOOLEAN, selected: BOOLEAN, taint: Taints]]
      BY <1>2 DEF SetTaint, TypeOK
    <2>2. /\ admin' \in Nat /\ Around /\ drained' \subseteq Nodes
          /\ UNCHANGED <<objects, caches, returned, blind, overlooked, stray, lost, faults>>
      BY <1>2 DEF SetTaint, TypeOK, Admin
    <2>3. queued' \in BOOLEAN
      BY <1>2, Zenon DEF SetTaint, NodeEvent
    <2> QED
      BY <2>1, <2>2, <2>3, AroundType DEF TypeOK
  <1>3. ASSUME NEW n \in Nodes, RegisterNode(n) PROVE TypeOK'
    <2>1. [csibm EXCEPT ![n] = Csibmnode(TRUE, FALSE, @.rv + 1)] \in [Nodes -> Csibmnodes]
      BY ReplacedType DEF TypeOK
    <2>2. csibm' \in [Nodes -> Csibmnodes] /\ cache' \in [Nodes -> Csibmnodes]
      BY <1>3, <2>1, StoreType DEF RegisterNode, TypeOK
    <2> QED
      BY <1>3, <2>2, AroundType DEF RegisterNode, TypeOK
  <1>4. ASSUME NEW n \in Nodes, NEW p \in PodKinds, PodStops(n, p) \/ PodStarts(n, p)
        PROVE  TypeOK'
    <2>1. /\ [pods EXCEPT ![n] = @ \ {p}] \in [Nodes -> SUBSET PodKinds]
          /\ [pods EXCEPT ![n] = @ \cup {p}] \in [Nodes -> SUBSET PodKinds]
      BY DEF TypeOK
    <2>2. pods' \in [Nodes -> SUBSET PodKinds] /\ podSeen' \in [Nodes -> SUBSET PodKinds]
      BY <1>4, <2>1, PodsType DEF PodStops, PodStarts
    <2>3. admin' \in Nat /\ Around /\ stray' \subseteq Nodes \X PodKinds
      BY <1>4 DEF PodStops, PodStarts, TypeOK, Admin
    <2>4. queued' \in BOOLEAN
      BY <1>4, Zenon DEF PodStops, PodStarts
    <2> QED
      BY <1>4, <2>2, <2>3, <2>4, AroundType DEF PodStops, PodStarts, TypeOK
  <1>5. ASSUME NEW n \in Nodes, NEW k \in Kinds, DriverCreates(n, k) PROVE TypeOK'
    <2>1. k \in KindNames /\ NewObject(k) \in ObjectStates /\ "unlisted" \in Views
      BY NodeOperationsAssumption DEF NewObject, ObjectStates, KindNames, Views
    <2>2. res' \in [Nodes -> [KindNames -> ObjectStates]]
      BY <1>5, <2>1 DEF DriverCreates, TypeOK
    <2>3. resSeen' \in [Nodes -> [KindNames -> Views]]
      BY <1>5, <2>1 DEF DriverCreates, TypeOK
    <2>4. lost' \subseteq Nodes \X KindNames
      BY <1>5, <2>1 DEF DriverCreates, TypeOK
    <2> QED
      BY <1>5, <2>2, <2>3, <2>4, AroundType DEF DriverCreates, TypeOK
  <1>6. ASSUME NEW x \in Informers, Stall(x) \/ CatchUp(x) PROVE TypeOK'
    <2>1. /\ cache' \in [Nodes -> Csibmnodes] /\ podSeen' \in [Nodes -> SUBSET PodKinds]
          /\ resSeen' \in [Nodes -> [KindNames -> Views]]
      BY <1>6 DEF Stall, CatchUp, TypeOK, Views
    <2>2. stalled' \subseteq Informers /\ faults' \in Nat /\ Around
      BY <1>6 DEF Stall, CatchUp, Fault, TypeOK
    <2> QED
      BY <1>6, <2>1, <2>2, AroundType DEF Stall, CatchUp, TypeOK
  <1>7. CASE Restart
    <2>1. Done /\ faults' \in Nat
      BY <1>7 DEF Restart, Fault, TypeOK
    <2>2. queued' \in BOOLEAN
      BY <1>7, Zenon DEF Restart
    <2>3. resSeen' \in [Nodes -> [KindNames -> Views]] /\ stalled' = {}
      BY <1>7 DEF Restart, Views
    <2> QED
      BY <1>7, <2>1, <2>2, <2>3, DoneType DEF Restart, TypeOK
  <1> QED
    BY <1>1, <1>2, <1>3, <1>4, <1>5, <1>6, <1>7 DEF Environment

\* Every step preserves the types.
LEMMA NextType == TypeOK /\ [Next]_vars => TypeOK'
  <1>1. ASSUME TypeOK, UNCHANGED vars PROVE TypeOK'
    BY <1>1 DEF vars, objects, caches, history, worker, TypeOK
  <1> QED
    BY <1>1, ReconcileType, EnvironmentType DEF Next

\* The types of the variables, and the worker's position: resources are deleted only of
\* the node removeNodes is at.
THEOREM TypeCorrect == Spec => []TypeOK
  BY InitType, NextType, PTL DEF Spec

-----------------------------------------------------------------------------
\* Only nodes tainted for removal are removed

\* A removal label, in the API server or in any copy of it, goes back to a drain taint an
\* administrator has set, and so does the list of nodes to remove.
LabelsEarned ==
  /\ \A n \in Nodes : (csibm[n].label \/ cache[n].label) => n \in drained
  /\ \A n \in Nodes : node[n].taint = "drain" \/ nodesSeen[n] = "drain" => n \in drained
  /\ removing \subseteq drained

DrainInv == TypeOK /\ LabelsEarned

\* Nobody is labelled, tainted or being removed at first.
LEMMA InitDrain == Init => DrainInv
  <1>1. ASSUME Init PROVE LabelsEarned
    BY <1>1 DEF Init, LabelsEarned, Csibmnode
  <1> QED
    BY <1>1, InitType DEF DrainInv

\* A store of labels that are earned leaves earned labels in the cache as well.
LEMMA StoreEarned ==
  ASSUME LabelsEarned, NEW new, Store(new), drained' = drained,
         \A n \in Nodes : new[n].label => n \in drained
  PROVE  \A n \in Nodes : (csibm'[n].label \/ cache'[n].label) => n \in drained'
  BY DEF Store, LabelsEarned

\* Every step keeps labels and removals earned.
LEMMA NextDrain == DrainInv /\ [Next]_vars => DrainInv'
  <1> SUFFICES ASSUME TypeOK, LabelsEarned, [Next]_vars PROVE LabelsEarned'
    BY NextType DEF DrainInv
  <1> USE DEF objects, caches, history
  <1>1. CASE ListNodes
    BY <1>1 DEF ListNodes, LabelsEarned
  <1>2. CASE ListCsibmnodes
    BY <1>2 DEF ListCsibmnodes, LabelsEarned, ToRemove
  <1>3. CASE EndLabels \/ EndRemoval \/ DeleteResources
    BY <1>3 DEF EndLabels, EndRemoval, DeleteResources, LabelsEarned
  <1>4. CASE DeleteCsibmnode
    <2>1. cur \in Nodes /\ drained' = drained
      BY <1>4 DEF DeleteCsibmnode, TypeOK
    <2> DEFINE new == [csibm EXCEPT ![cur] = Csibmnode(FALSE, FALSE, @.rv + 1)]
    <2>2. \A n \in Nodes : new[n].label => n \in drained
      BY <2>1 DEF TypeOK, LabelsEarned, Csibmnode
    <2>3. Store(new) \/ UNCHANGED <<csibm, cache>>
      BY <1>4 DEF DeleteCsibmnode
    <2>4. \A n \in Nodes : (csibm'[n].label \/ cache'[n].label) => n \in drained'
      <3> HIDE DEF new
      <3>1. CASE Store(new)
        BY <3>1, <2>1, <2>2, StoreEarned
      <3>2. CASE UNCHANGED <<csibm, cache>>
        BY <3>2, <2>1 DEF LabelsEarned
      <3> QED
        BY <2>3, <3>1, <3>2
    <2> QED
      BY <1>4, <2>4 DEF DeleteCsibmnode, LabelsEarned
  <1>5. CASE MaintainNodes \/ ListFails \/ Restart
    <2>1. /\ nodesSeen' = [n \in Nodes |-> "missing"] /\ removing' = {}
          /\ UNCHANGED <<node, csibm, drained>>
          /\ cache' = cache \/ cache' = csibm
      BY <1>5 DEF MaintainNodes, ListFails, Restart, Done
    <2> QED
      BY <2>1 DEF LabelsEarned
  <1>6. ASSUME NEW n \in Nodes, UpdateLabel(n) PROVE LabelsEarned'
    <2>1. drained' = drained
      BY <1>6 DEF UpdateLabel
    <2> DEFINE new == [csibm EXCEPT ![n] = Csibmnode(TRUE, HasTaint(n), @.rv + 1)]
    <2>2. \A m \in Nodes : new[m].label => m \in drained
      BY DEF TypeOK, LabelsEarned, Csibmnode, HasTaint
    <2>3. Store(new) \/ UNCHANGED <<csibm, cache>>
      BY <1>6 DEF UpdateLabel
    <2>4. \A m \in Nodes : (csibm'[m].label \/ cache'[m].label) => m \in drained'
      <3> HIDE DEF new
      <3>1. CASE Store(new)
        BY <3>1, <2>1, <2>2, StoreEarned
      <3>2. CASE UNCHANGED <<csibm, cache>>
        BY <3>2, <2>1 DEF LabelsEarned
      <3> QED
        BY <2>3, <3>1, <3>2
    <2> QED
      BY <1>6, <2>4 DEF UpdateLabel, LabelsEarned
  <1>7. ASSUME NEW n \in Nodes, CheckPods(n) PROVE LabelsEarned'
    BY <1>7 DEF CheckPods, LabelsEarned
  <1>8. ASSUME NEW n \in Nodes, DeleteNode(n) \/ AddNode(n) \/ RelabelNode(n)
        PROVE  LabelsEarned'
    <2>1. \A m \in Nodes : node'[m].taint \in {node[m].taint, "none"}
      <3>1. CASE DeleteNode(n)
        BY <3>1 DEF DeleteNode, TypeOK
      <3>2. CASE AddNode(n)
        BY <3>2 DEF AddNode, TypeOK
      <3>3. CASE RelabelNode(n)
        BY <3>3 DEF RelabelNode, TypeOK
      <3> QED
        BY <1>8, <3>1, <3>2, <3>3
    <2>2. UNCHANGED <<csibm, cache, drained, nodesSeen, removing>>
      BY <1>8 DEF DeleteNode, AddNode, RelabelNode, Around
    <2> QED
      BY <2>1, <2>2 DEF LabelsEarned
  <1>9. ASSUME NEW n \in Nodes, NEW taint \in Taints, SetTaint(n, taint) PROVE LabelsEarned'
    <2>1. \A m \in Nodes : node'[m].taint = IF m = n THEN taint ELSE node[m].taint
      BY <1>9 DEF SetTaint, TypeOK
    <2>2. /\ UNCHANGED <<csibm, cache, nodesSeen, removing>>
          /\ drained' = IF taint = "drain" THEN drained \cup {n} ELSE drained
      BY <1>9 DEF SetTaint, Around
    <2> QED
      BY <2>1, <2>2 DEF LabelsEarned
  <1>10. ASSUME NEW n \in Nodes, RegisterNode(n) PROVE LabelsEarned'
    <2> DEFINE new == [csibm EXCEPT ![n] = Csibmnode(TRUE, FALSE, @.rv + 1)]
    <2>1. \A m \in Nodes : new[m].label => m \in drained
      BY DEF TypeOK, LabelsEarned, Csibmnode
    <2>2. Store(new) /\ UNCHANGED <<node, drained, nodesSeen, removing>>
      BY <1>10 DEF RegisterNode, Around
    <2>3. \A m \in Nodes : (csibm'[m].label \/ cache'[m].label) => m \in drained'
      <3> HIDE DEF new
      <3> QED
        BY <2>1, <2>2, StoreEarned
    <2> QED
      BY <2>2, <2>3 DEF LabelsEarned
  <1>11. ASSUME NEW x \in Informers, Stall(x) \/ CatchUp(x) PROVE LabelsEarned'
    BY <1>11 DEF Stall, CatchUp, Around, LabelsEarned
  <1>12. ASSUME NEW n \in Nodes, NEW p \in PodKinds, PodStops(n, p) \/ PodStarts(n, p)
         PROVE  LabelsEarned'
    BY <1>12 DEF PodStops, PodStarts, Around, LabelsEarned
  <1>13. ASSUME NEW n \in Nodes, NEW k \in Kinds, DriverCreates(n, k) PROVE LabelsEarned'
    BY <1>13 DEF DriverCreates, Around, LabelsEarned
  <1>14. CASE UNCHANGED vars
    BY <1>14 DEF vars, worker, LabelsEarned
  <1> QED
    BY <1>1, <1>2, <1>3, <1>4, <1>5, <1>6, <1>7, <1>8, <1>9, <1>10, <1>11, <1>12, <1>13, <1>14
    DEF Next, Reconcile, Environment

\* Only deleteCSIResources deletes anything, and only of the node removeNodes is at.
LEMMA RemovalStep ==
  ASSUME TypeOK, [Next]_vars, NEW n \in Nodes, Removal(n)
  PROVE  pc = "delete" /\ n = cur /\ n \in removing
  <1> SUFFICES ASSUME pc # "delete" \/ n # cur PROVE FALSE
    BY DEF TypeOK
  <1> USE DEF objects, caches, history
  <1>1. ASSUME UNCHANGED <<csibm, res>> PROVE FALSE
    BY <1>1 DEF Removal
  <1>2. CASE ListNodes \/ ListCsibmnodes \/ EndLabels \/ EndRemoval \/ MaintainNodes
             \/ ListFails \/ Restart \/ UNCHANGED vars
    BY <1>1, <1>2 DEF ListNodes, ListCsibmnodes, EndLabels, EndRemoval, MaintainNodes,
                      ListFails, Restart, vars
  <1>3. CASE DeleteResources
    <2>1. pc = "delete" /\ csibm' = csibm
      BY <1>3 DEF DeleteResources
    <2>2. PICK k \in KindNames, left \in ObjectStates, erred \in BOOLEAN : Deletes(k, left, erred)
      BY <1>3, DeletionStep
    <2>3. res'[n] = res[n]
      BY <2>1, <2>2 DEF Deletes, TypeOK
    <2> QED
      BY <2>1, <2>3 DEF Removal
  <1>4. CASE DeleteCsibmnode
    <2>1. pc = "delete" /\ res' = res
      BY <1>4 DEF DeleteCsibmnode
    <2>2. csibm'[n] = csibm[n]
      BY <1>4, <2>1 DEF DeleteCsibmnode, Store, TypeOK
    <2> QED
      BY <2>1, <2>2 DEF Removal
  <1>5. ASSUME NEW m \in Nodes, UpdateLabel(m) \/ RegisterNode(m) PROVE FALSE
    <2>1. res' = res
      BY <1>5 DEF UpdateLabel, RegisterNode
    <2>2. csibm'[n] = csibm[n] \/ csibm'[n].exists
      BY <1>5 DEF UpdateLabel, RegisterNode, Store, TypeOK, Csibmnode
    <2> QED
      BY <2>1, <2>2 DEF Removal
  <1>6. ASSUME NEW m \in Nodes, CheckPods(m) PROVE FALSE
    BY <1>1, <1>6 DEF CheckPods
  <1>7. ASSUME NEW m \in Nodes, DeleteNode(m) \/ AddNode(m) \/ RelabelNode(m) PROVE FALSE
    BY <1>1, <1>7 DEF DeleteNode, AddNode, RelabelNode
  <1>8. ASSUME NEW m \in Nodes, NEW taint \in Taints, SetTaint(m, taint) PROVE FALSE
    BY <1>1, <1>8 DEF SetTaint
  <1>9. ASSUME NEW m \in Nodes, NEW p \in PodKinds, PodStops(m, p) \/ PodStarts(m, p)
        PROVE  FALSE
    BY <1>1, <1>9 DEF PodStops, PodStarts
  <1>10. ASSUME NEW m \in Nodes, NEW k \in Kinds, DriverCreates(m, k) PROVE FALSE
    <2>1. csibm' = csibm /\ res[m][k] = "absent" /\ k \in KindNames
      BY <1>10, NodeOperationsAssumption DEF DriverCreates, KindNames
    <2>2. \A j \in KindNames : res'[n][j] = res[n][j] \/ res[n][j] = "absent"
      BY <1>10, <2>1 DEF DriverCreates, TypeOK, KindNames
    <2> QED
      BY <2>1, <2>2, NodeOperationsAssumption DEF Removal, KindNames
  <1>11. ASSUME NEW x \in Informers, Stall(x) \/ CatchUp(x) PROVE FALSE
    BY <1>1, <1>11 DEF Stall, CatchUp
  <1> QED
    BY <1>2, <1>3, <1>4, <1>5, <1>6, <1>7, <1>8, <1>9, <1>10, <1>11
    DEF Next, Reconcile, Environment

\* Nothing is deleted of a node that was never tainted for removal - unconditionally:
\* with stale lists, failed requests, restarts, deselected and returning nodes.
THEOREM OnlyDrained == Spec => OnlyDrainedRemoved
  <1>1. ASSUME DrainInv, [Next]_vars
        PROVE  [\A n \in Nodes : Removal(n) => n \in drained]_vars
    BY <1>1, RemovalStep DEF DrainInv, LabelsEarned
  <1> QED
    BY <1>1, InitDrain, NextDrain, PTL DEF Spec, OnlyDrainedRemoved

-----------------------------------------------------------------------------
\* Only nodes that have gone are removed

\* The worker removes nodes it has not found, and what it has not found is not in the
\* cluster, or was not when it looked.
FoundInv ==
  /\ pc = "idle" => removing = {}
  /\ \A n \in removing : nodesSeen[n] = "missing"
  /\ pc # "idle" => \A n \in Nodes : nodesSeen[n] = "missing" => ~Selected(n) \/ n \in returned

LEMMA InitFound == Init => FoundInv
  BY DEF Init, FoundInv

\* What happens around the worker leaves it alone, or restarts it.
LEMMA EnvironmentAround == ASSUME Environment PROVE Restart \/ Around
  <1>1. ASSUME NEW n \in Nodes, \/ DeleteNode(n) \/ AddNode(n) \/ RelabelNode(n) \/ RegisterNode(n)
                                \/ \E t \in Taints : SetTaint(n, t)
        PROVE  Around
    BY <1>1 DEF DeleteNode, AddNode, RelabelNode, RegisterNode, SetTaint
  <1>2. ASSUME NEW n \in Nodes, \/ \E p \in PodKinds : PodStops(n, p) \/ PodStarts(n, p)
                                \/ \E k \in Kinds : DriverCreates(n, k)
        PROVE  Around
    BY <1>2 DEF PodStops, PodStarts, DriverCreates
  <1>3. ASSUME NEW x \in Informers, Stall(x) \/ CatchUp(x) PROVE Around
    BY <1>3 DEF Stall, CatchUp
  <1> QED
    BY <1>1, <1>2, <1>3 DEF Environment

\* Only administrators change nodes.
LEMMA NodesStep ==
  ASSUME [Next]_vars
  PROVE  \/ UNCHANGED <<node, returned>>
         \/ ListNodes /\ UNCHANGED node
         \/ \E n \in Nodes : \/ DeleteNode(n) \/ AddNode(n) \/ RelabelNode(n)
                             \/ \E taint \in Taints : SetTaint(n, taint)
  <1> USE DEF history
  <1>1. CASE ListNodes
    BY <1>1 DEF ListNodes
  <1>2. CASE ListCsibmnodes \/ EndLabels \/ EndRemoval \/ MaintainNodes \/ DeleteResources
             \/ DeleteCsibmnode \/ ListFails \/ Restart \/ UNCHANGED vars
    BY <1>2 DEF ListCsibmnodes, EndLabels, EndRemoval, MaintainNodes, DeleteResources,
                DeleteCsibmnode, ListFails, Restart, vars
  <1>3. ASSUME NEW n \in Nodes, UpdateLabel(n) \/ CheckPods(n) \/ RegisterNode(n)
        PROVE  UNCHANGED <<node, returned>>
    BY <1>3 DEF UpdateLabel, CheckPods, RegisterNode
  <1>4. ASSUME NEW n \in Nodes, NEW p \in PodKinds, PodStops(n, p) \/ PodStarts(n, p)
        PROVE  UNCHANGED <<node, returned>>
    BY <1>4 DEF PodStops, PodStarts
  <1>5. ASSUME NEW n \in Nodes, NEW k \in Kinds, DriverCreates(n, k)
        PROVE  UNCHANGED <<node, returned>>
    BY <1>5 DEF DriverCreates
  <1>6. ASSUME NEW x \in Informers, Stall(x) \/ CatchUp(x) PROVE UNCHANGED <<node, returned>>
    BY <1>6 DEF Stall, CatchUp
  <1> QED
    BY <1>1, <1>2, <1>3, <1>4, <1>5, <1>6 DEF Next, Reconcile, Environment

\* A node that is not selected becomes so by coming back.
LEMMA SelectedStep ==
  ASSUME TypeOK, [Next]_vars, NEW n \in Nodes
  PROVE  ListNodes \/ (/\ Selected(n)' => Selected(n) \/ n \in returned'
                       /\ n \in returned => n \in returned')
  <1>1. ASSUME NEW m \in Nodes, DeleteNode(m)
        PROVE  (Selected(n)' => Selected(n)) /\ returned' = returned
    <2>1. [node[m] EXCEPT !.present = FALSE, !.taint = "none"].present = FALSE
      BY DEF TypeOK
    <2>2. PICK new : node' = [node EXCEPT ![m] = new] /\ new.present = FALSE
      BY <1>1, <2>1 DEF DeleteNode
    <2> QED
      BY <1>1, <2>2 DEF DeleteNode, Selected, TypeOK, history
  <1>2. ASSUME NEW m \in Nodes, AddNode(m) \/ RelabelNode(m)
        PROVE  (Selected(n)' => Selected(n) \/ n \in returned') /\ returned \subseteq returned'
    <2>1. PICK new : node' = [node EXCEPT ![m] = new]
      BY <1>2 DEF AddNode, RelabelNode
    <2>2. returned' = returned \cup {m}
      BY <1>2 DEF AddNode, RelabelNode
    <2> QED
      BY <2>1, <2>2 DEF Selected, TypeOK
  <1>3. ASSUME NEW m \in Nodes, NEW taint \in Taints, SetTaint(m, taint)
        PROVE  (Selected(n)' => Selected(n)) /\ returned' = returned
    BY <1>3 DEF SetTaint, Selected, TypeOK
  <1>4. CASE UNCHANGED <<node, returned>>
    BY <1>4 DEF Selected
  <1> QED
    BY <1>1, <1>2, <1>3, <1>4, NodesStep

\* What the worker's steps make of the nodes it has found and is removing.
LEMMA WorkerStep ==
  ASSUME TypeOK, [Next]_vars
  PROVE  \/ ListNodes
         \/ ListCsibmnodes
         \/ pc' = "idle" /\ removing' = {}
         \/ pc' # "idle" /\ pc # "idle" /\ nodesSeen' = nodesSeen /\ removing' \subseteq removing
         \/ UNCHANGED <<pc, nodesSeen, removing>>
  <1>1. CASE EndLabels \/ EndRemoval \/ DeleteResources \/ DeleteCsibmnode
    BY <1>1 DEF EndLabels, EndRemoval, DeleteResources, DeleteCsibmnode
  <1>2. CASE MaintainNodes \/ ListFails \/ Restart
    BY <1>2 DEF MaintainNodes, ListFails, Restart, Done
  <1>3. ASSUME NEW n \in Nodes, UpdateLabel(n) \/ CheckPods(n)
        PROVE  pc' # "idle" /\ pc # "idle" /\ nodesSeen' = nodesSeen /\ removing' \subseteq removing
    BY <1>3 DEF UpdateLabel, CheckPods
  <1>4. CASE Around
    BY <1>4 DEF Around
  <1>5. CASE UNCHANGED vars
    BY <1>5 DEF vars, worker
  <1> QED
    BY <1>1, <1>2, <1>3, <1>4, <1>5, EnvironmentAround DEF Next, Reconcile

LEMMA NextFound == TypeOK /\ FoundInv /\ [Next]_vars => FoundInv'
  <1> SUFFICES ASSUME TypeOK, FoundInv, [Next]_vars PROVE FoundInv'
    OBVIOUS
  <1>1. CASE ListNodes
    <2>1. pc = "idle" /\ removing = {} /\ removing' = removing /\ pc' # "idle" /\ node' = node
      BY <1>1 DEF ListNodes, FoundInv
    <2>2. \A n \in Nodes : nodesSeen'[n] = "missing" => ~Selected(n)
      BY <1>1 DEF ListNodes, Selected, TypeOK, Taints
    <2> QED
      BY <2>1, <2>2 DEF FoundInv, Selected
  <1>2. \A n \in Nodes : /\ Selected(n)' => ListNodes \/ Selected(n) \/ n \in returned'
                         /\ n \in returned => ListNodes \/ n \in returned'
    BY SelectedStep
  <1>3. CASE ListCsibmnodes
    <2>1. /\ pc # "idle" /\ pc' # "idle" /\ nodesSeen' = nodesSeen
          /\ \A n \in removing' : nodesSeen[n] = "missing"
          /\ UNCHANGED <<node, returned>>
      BY <1>3 DEF ListCsibmnodes, ToRemove, HasNode
    <2> QED
      BY <2>1 DEF FoundInv, Selected
  <1>4. CASE pc' = "idle" /\ removing' = {}
    BY <1>4 DEF FoundInv
  <1>5. CASE pc' # "idle" /\ pc # "idle" /\ nodesSeen' = nodesSeen /\ removing' \subseteq removing
             /\ ~ListNodes
    BY <1>2, <1>5 DEF FoundInv
  <1>6. CASE UNCHANGED <<pc, nodesSeen, removing>> /\ ~ListNodes
    BY <1>2, <1>6 DEF FoundInv
  <1> QED
    BY <1>1, <1>3, <1>4, <1>5, <1>6, WorkerStep

\* Nothing is deleted of a node that is in the cluster with the selector's label, unless it
\* came back after the reconcile that deletes has listed the nodes: for any stale caches,
\* failed requests, restarts, and any order of deletions, returns and changes of labels.
THEOREM OnlyGone == Spec => OnlyGoneRemoved
  <1>1. ASSUME TypeOK, FoundInv, [Next]_vars
        PROVE  [\A n \in Nodes : Removal(n) => ~Selected(n) \/ n \in returned]_vars
    BY <1>1, RemovalStep DEF FoundInv
  <1> QED
    BY <1>1, InitFound, NextFound, TypeCorrect, PTL DEF Spec, OnlyGoneRemoved

-----------------------------------------------------------------------------
\* What is left behind

\* A driver that runs where the worker no longer looks for it was not seen to run when it
\* looked, or has started since.
StrayInv == \A n \in Nodes : "daemonset" \in pods[n] /\ Behind(n) => <<n, "daemonset">> \in stray

\* What removeNodes has passed without an error is deleted, or is lost.
DeletionProgress ==
  /\ pc # "delete" => at = 1
  /\ (pc = "delete" /\ ~nodeErr) =>
       \A i \in 1 .. at - 1 : \/ res[cur][KindOrder[i]] = "absent"
                              \/ <<cur, KindOrder[i]>> \in lost

OrphanInv == TypeOK /\ StrayInv /\ DeletionProgress /\ NoOrphans

LEMMA InitOrphan == Init => OrphanInv
  <1> SUFFICES ASSUME Init PROVE StrayInv /\ DeletionProgress /\ NoOrphans
    BY InitType DEF OrphanInv
  <1>1. \A n \in Nodes : csibm[n].exists
    BY DEF Init, Csibmnode
  <1>2. pc = "idle" /\ at = 1
    BY DEF Init
  <1> QED
    BY <1>1, <1>2 DEF StrayInv, DeletionProgress, NoOrphans, Behind

\* How a csibmnode comes, changes and goes.
LEMMA CsibmnodeStep ==
  ASSUME TypeOK, [Next]_vars
  PROVE  \/ csibm' = csibm
         \/ \E n \in Nodes : /\ UpdateLabel(n) \/ RegisterNode(n)
                             /\ \A m \in Nodes : csibm[m].exists => csibm'[m].exists
         \/ /\ DeleteCsibmnode /\ ~nodeErr
            /\ csibm' = [csibm EXCEPT ![cur] = Csibmnode(FALSE, FALSE, @.rv + 1)]
  <1> USE DEF objects
  <1>1. CASE ListNodes \/ ListCsibmnodes \/ EndLabels \/ EndRemoval \/ MaintainNodes
             \/ ListFails \/ Restart \/ DeleteResources \/ UNCHANGED vars
    BY <1>1 DEF ListNodes, ListCsibmnodes, EndLabels, EndRemoval, MaintainNodes,
                ListFails, Restart, DeleteResources, vars
  <1>2. ASSUME NEW n \in Nodes, UpdateLabel(n) \/ RegisterNode(n)
        PROVE  \A m \in Nodes : csibm[m].exists => csibm'[m].exists
    <2>1. csibm' = csibm \/ \E new : csibm' = [csibm EXCEPT ![n] = new] /\ new.exists = TRUE
      <3>1. \A e, v : Csibmnode(TRUE, e, v).exists = TRUE
        BY DEF Csibmnode
      <3> QED
        BY <1>2, <3>1 DEF UpdateLabel, RegisterNode, Store
    <2> QED
      BY <2>1 DEF TypeOK
  <1>3. CASE DeleteCsibmnode
    BY <1>3 DEF DeleteCsibmnode, AllDeleted, Store
  <1>4. ASSUME NEW n \in Nodes, CheckPods(n) \/ DeleteNode(n) \/ AddNode(n) \/ RelabelNode(n)
        PROVE  csibm' = csibm
    BY <1>4 DEF CheckPods, DeleteNode, AddNode, RelabelNode
  <1>5. ASSUME NEW n \in Nodes, NEW taint \in Taints, SetTaint(n, taint) PROVE csibm' = csibm
    BY <1>5 DEF SetTaint
  <1>6. ASSUME NEW n \in Nodes, NEW p \in PodKinds, PodStops(n, p) \/ PodStarts(n, p)
        PROVE  csibm' = csibm
    BY <1>6 DEF PodStops, PodStarts
  <1>7. ASSUME NEW n \in Nodes, NEW k \in Kinds, DriverCreates(n, k) PROVE csibm' = csibm
    BY <1>7 DEF DriverCreates
  <1>8. ASSUME NEW x \in Informers, Stall(x) \/ CatchUp(x) PROVE csibm' = csibm
    BY <1>8 DEF Stall, CatchUp
  <1> QED
    BY <1>1, <1>2, <1>3, <1>4, <1>5, <1>6, <1>7, <1>8 DEF Next, Reconcile, Environment

\* How the worker comes to a node, and goes from it.
LEMMA PositionStep ==
  ASSUME TypeOK, [Next]_vars
  PROVE  \/ DeleteResources /\ cur' = cur /\ pc' = "delete" /\ at' = at + 1
         \/ \E n \in Nodes : /\ CheckPods(n) /\ pc = "remove" /\ at' = at
                             /\ pc' = "remove" \/ (pc' = "delete" /\ cur' = n)
         \/ pc' # "delete" /\ at' = 1
         \/ pc' # "delete" /\ pc # "delete" /\ at' = at
         \/ UNCHANGED <<pc, cur, at, nodeErr>>
  <1>1. CASE ListNodes \/ ListCsibmnodes \/ EndLabels \/ EndRemoval
    BY <1>1 DEF ListNodes, ListCsibmnodes, EndLabels, EndRemoval
  <1>2. CASE MaintainNodes \/ ListFails \/ Restart \/ DeleteCsibmnode
    BY <1>2 DEF MaintainNodes, ListFails, Restart, DeleteCsibmnode, Done
  <1>3. CASE DeleteResources
    BY <1>3 DEF DeleteResources
  <1>4. ASSUME NEW n \in Nodes, UpdateLabel(n) PROVE UNCHANGED <<pc, cur, at, nodeErr>>
    BY <1>4 DEF UpdateLabel
  <1>5. ASSUME NEW n \in Nodes, CheckPods(n)
        PROVE  /\ pc = "remove" /\ at' = at
               /\ pc' = "remove" \/ (pc' = "delete" /\ cur' = n)
    BY <1>5 DEF CheckPods
  <1>6. CASE Around
    BY <1>6 DEF Around
  <1>7. CASE UNCHANGED vars
    BY <1>7 DEF vars, worker
  <1> QED
    BY <1>1, <1>2, <1>3, <1>4, <1>5, <1>6, <1>7, EnvironmentAround DEF Next, Reconcile

\* The worker gets behind a node's driver in the pod check only.
LEMMA BehindStep ==
  ASSUME TypeOK, [Next]_vars, NEW n \in Nodes, Behind(n)', ~Behind(n) PROVE CheckPods(n)
  <1>1. ~csibm'[n].exists => ~csibm[n].exists \/ (pc = "delete" /\ n = cur)
    <2>1. CASE DeleteCsibmnode /\ csibm' = [csibm EXCEPT ![cur] = Csibmnode(FALSE, FALSE, @.rv + 1)]
      BY <2>1 DEF DeleteCsibmnode, TypeOK
    <2> QED
      BY <2>1, CsibmnodeStep
  <1>2. pc' = "delete" /\ cur' = n => (pc = "delete" /\ cur = n) \/ CheckPods(n)
    BY PositionStep DEF DeleteResources
  <1> QED
    BY <1>1, <1>2 DEF Behind

\* How pods and their history change.
LEMMA PodsStep ==
  ASSUME TypeOK, [Next]_vars, NEW n \in Nodes
  PROVE  \/ CheckPods(n)
         \/ "daemonset" \in pods'[n] /\ Behind(n) /\ "daemonset" \notin pods[n]
              /\ <<n, "daemonset">> \in stray'
         \/ /\ "daemonset" \in pods'[n] /\ Behind(n) => "daemonset" \in pods[n]
            /\ "daemonset" \in pods'[n] /\ <<n, "daemonset">> \in stray => <<n, "daemonset">> \in stray'
  <1> USE DEF objects, history
  <1>1. CASE UNCHANGED <<pods, stray>>
    BY <1>1
  <1>2. CASE ListNodes \/ ListCsibmnodes \/ EndLabels \/ EndRemoval \/ ListFails \/ Restart
             \/ DeleteResources \/ DeleteCsibmnode \/ UNCHANGED vars
    BY <1>1, <1>2 DEF ListNodes, ListCsibmnodes, EndLabels, EndRemoval, ListFails, Restart,
                      DeleteResources, DeleteCsibmnode, vars
  <1>3. CASE MaintainNodes
    <2>1. PICK S \in SUBSET Nodes : /\ pods' = [m \in Nodes |-> IF m \in S THEN pods[m] \ {"replica"} ELSE pods[m]]
                                    /\ {x \in stray : x[2] # "replica"} \subseteq stray'
      <3> DEFINE visited == {m \in Nodes : ToEvict(m)}
                 shown == {m \in visited : "replica" \in podSeen[m]}
      <3>1. PICK kept \in SUBSET visited :
               /\ SetPods([m \in Nodes |-> IF m \in shown \ kept THEN pods[m] \ {"replica"} ELSE pods[m]])
               /\ stray' = {x \in stray : x[1] \notin visited \/ x[2] # "replica"}
                            \cup Unseen(visited, "replica")
        BY <1>3 DEF MaintainNodes
      <3>2. /\ shown \ kept \in SUBSET Nodes
            /\ pods' = [m \in Nodes |-> IF m \in shown \ kept THEN pods[m] \ {"replica"} ELSE pods[m]]
        BY <3>1 DEF SetPods
      <3> HIDE DEF visited, shown
      <3>3. {x \in stray : x[2] # "replica"} \subseteq stray'
        BY <3>1
      <3> QED
        BY <3>2, <3>3
    <2>2. pods'[n] \subseteq pods[n]
      BY <2>1
    <2>3. <<n, "daemonset">> \in stray => <<n, "daemonset">> \in stray'
      BY <2>1
    <2> QED
      BY <2>2, <2>3
  <1>4. ASSUME NEW m \in Nodes, \/ UpdateLabel(m) \/ RegisterNode(m) \/ DeleteNode(m) \/ AddNode(m)
                                \/ RelabelNode(m) \/ \E taint \in Taints : SetTaint(m, taint)
        PROVE  UNCHANGED <<pods, stray>>
    BY <1>4 DEF UpdateLabel, RegisterNode, DeleteNode, AddNode, RelabelNode, SetTaint
  <1>5. ASSUME NEW m \in Nodes, CheckPods(m) PROVE pods' = pods /\ stray \subseteq stray'
    BY <1>5 DEF CheckPods
  <1>6. ASSUME NEW m \in Nodes, NEW p \in PodKinds, PodStops(m, p)
        PROVE  /\ pods'[n] = IF m = n THEN pods[n] \ {p} ELSE pods[n]
               /\ stray' = stray \ {<<m, p>>}
    BY <1>6 DEF PodStops, SetPods, TypeOK
  <1>7. ASSUME NEW m \in Nodes, NEW p \in PodKinds, PodStarts(m, p)
        PROVE  /\ pods'[n] = IF m = n THEN pods[n] \cup {p} ELSE pods[n]
               /\ p \notin pods[m] /\ stray \subseteq stray'
               /\ p = "daemonset" /\ Behind(m) => <<m, p>> \in stray'
    BY <1>7 DEF PodStarts, SetPods, TypeOK
  <1>8. ASSUME NEW m \in Nodes, NEW k \in Kinds, DriverCreates(m, k) PROVE UNCHANGED <<pods, stray>>
    BY <1>8 DEF DriverCreates
  <1>9. ASSUME NEW x \in Informers, Stall(x) \/ CatchUp(x) PROVE UNCHANGED <<pods, stray>>
    BY <1>9 DEF Stall, CatchUp
  <1> QED
    BY <1>1, <1>2, <1>3, <1>4, <1>5, <1>6, <1>7, <1>8, <1>9 DEF Next, Reconcile, Environment

LEMMA NextStray == TypeOK /\ StrayInv /\ [Next]_vars => StrayInv'
  <1> SUFFICES ASSUME TypeOK, StrayInv, [Next]_vars,
                      NEW n \in Nodes, "daemonset" \in pods'[n], Behind(n)'
               PROVE  <<n, "daemonset">> \in stray'
    BY DEF StrayInv
  <1>1. CASE CheckPods(n)
    <2>1. pods' = pods /\ csibm' = csibm /\ pc = "remove"
      BY <1>1 DEF CheckPods, objects
    <2>2. CASE ~csibm[n].exists
      BY <1>1, <2>1, <2>2 DEF StrayInv, Behind, CheckPods
    <2>3. CASE pc' = "delete"
      <3>1. "daemonset" \notin podSeen[n]
        BY <1>1, <2>1, <2>3 DEF CheckPods, DaemonsetPodRunning
      <3>2. <<n, "daemonset">> \in Unseen({n}, "daemonset")
        BY <2>1, <3>1 DEF Unseen
      <3> QED
        BY <1>1, <3>2 DEF CheckPods
    <2> QED
      BY <2>1, <2>2, <2>3 DEF Behind
  <1>2. CASE ~CheckPods(n)
    <2>1. Behind(n)
      BY <1>2, BehindStep
    <2> QED
      BY <1>2, <2>1, PodsStep DEF StrayInv
  <1> QED
    BY <1>1, <1>2

\* A resource that is not there, or is lost, stays so where the worker no longer looks for
\* the driver.
LEMMA ResourceStep ==
  ASSUME TypeOK, StrayInv, [Next]_vars, NEW n \in Nodes, Behind(n), NEW j \in KindNames,
         res[n][j] = "absent" \/ <<n, j>> \in lost
  PROVE  res'[n][j] = "absent" \/ <<n, j>> \in lost'
  <1> USE DEF objects, history
  <1>1. CASE UNCHANGED <<res, lost>>
    BY <1>1
  <1>2. CASE ListNodes \/ ListCsibmnodes \/ EndLabels \/ EndRemoval \/ MaintainNodes
             \/ ListFails \/ Restart \/ DeleteCsibmnode \/ UNCHANGED vars
    BY <1>1, <1>2 DEF ListNodes, ListCsibmnodes, EndLabels, EndRemoval, MaintainNodes,
                      ListFails, Restart, DeleteCsibmnode, vars
  <1>3. CASE DeleteResources
    <2>1. PICK k \in KindNames, left \in ObjectStates, erred \in BOOLEAN : Deletes(k, left, erred)
      BY <1>3, DeletionStep
    <2>2. CASE n = cur /\ j = k
      <3>1. res'[n][j] = left
        BY <2>1, <2>2 DEF Deletes, TypeOK
      <3>2. left # "absent" => <<n, j>> \in lost'
        BY <2>1, <2>2 DEF Deletes
      <3> QED
        BY <3>1, <3>2
    <2>3. CASE ~(n = cur /\ j = k)
      <3>1. res'[n][j] = res[n][j]
        BY <2>1, <2>3 DEF Deletes, TypeOK
      <3>2. <<n, j>> \in lost => <<n, j>> \in lost'
        BY <2>1, <2>3 DEF Deletes
      <3> QED
        BY <3>1, <3>2
    <2> QED
      BY <2>2, <2>3
  <1>4. ASSUME NEW m \in Nodes, UpdateLabel(m) \/ CheckPods(m) \/ RegisterNode(m)
                                \/ DeleteNode(m) \/ AddNode(m) \/ RelabelNode(m)
                                \/ \E taint \in Taints : SetTaint(m, taint)
        PROVE  UNCHANGED <<res, lost>>
    BY <1>4 DEF UpdateLabel, CheckPods, RegisterNode, DeleteNode, AddNode, RelabelNode, SetTaint
  <1>5. ASSUME NEW m \in Nodes, NEW p \in PodKinds, PodStops(m, p) \/ PodStarts(m, p)
        PROVE  UNCHANGED <<res, lost>>
    BY <1>5 DEF PodStops, PodStarts
  <1>6. ASSUME NEW m \in Nodes, NEW k \in Kinds, DriverCreates(m, k)
        PROVE  res'[n][j] = "absent" \/ <<n, j>> \in lost'
    <2>1. CASE m = n /\ k = j
      <3>1. <<n, "daemonset">> \in stray
        BY <1>6, <2>1 DEF DriverCreates, StrayInv
      <3> QED
        BY <1>6, <2>1, <3>1 DEF DriverCreates
    <2>2. CASE ~(m = n /\ k = j)
      <3>1. k \in KindNames
        BY NodeOperationsAssumption DEF KindNames
      <3>2. res'[n][j] = res[n][j]
        BY <1>6, <2>2, <3>1 DEF DriverCreates, TypeOK
      <3>3. lost \subseteq lost'
        BY <1>6 DEF DriverCreates
      <3> QED
        BY <3>2, <3>3
    <2> QED
      BY <2>1, <2>2
  <1>7. ASSUME NEW x \in Informers, Stall(x) \/ CatchUp(x) PROVE UNCHANGED <<res, lost>>
    BY <1>7 DEF Stall, CatchUp
  <1> QED
    BY <1>1, <1>2, <1>3, <1>4, <1>5, <1>6, <1>7 DEF Next, Reconcile, Environment

\* What has been deleted stays deleted until the csibmnode goes.
LEMMA NextProgress == OrphanInv /\ [Next]_vars => DeletionProgress'
  <1> SUFFICES ASSUME TypeOK, StrayInv, DeletionProgress, [Next]_vars PROVE DeletionProgress'
    BY DEF OrphanInv
  <1>1. pc' # "delete" => at' = 1
    BY PositionStep DEF DeletionProgress
  <1>2. ASSUME pc' = "delete", ~nodeErr', NEW i \in 1 .. at' - 1
        PROVE  res'[cur'][KindOrder[i]] = "absent" \/ <<cur', KindOrder[i]>> \in lost'
    <2>1. CASE at' = 1
      BY <1>2, <2>1
    <2>2. CASE UNCHANGED <<pc, cur, at, nodeErr>> /\ pc = "delete"
      <3>1. cur \in Nodes /\ Behind(cur) /\ i \in 1 .. at - 1 /\ i \in 1 .. 4
        BY <1>2, <2>2 DEF TypeOK, Behind
      <3>2. res[cur][KindOrder[i]] = "absent" \/ <<cur, KindOrder[i]>> \in lost
        BY <1>2, <2>2, <3>1 DEF DeletionProgress
      <3>3. KindOrder[i] \in KindNames
        BY <3>1 DEF KindOrder, KindNames
      <3> QED
        BY <2>2, <3>1, <3>2, <3>3, ResourceStep
    <2>3. CASE DeleteResources
      <3>1. /\ cur' = cur /\ at' = at + 1 /\ at \in 1 .. 4 /\ pc = "delete"
            /\ cur \in Nodes /\ Behind(cur)
        BY <2>3 DEF DeleteResources, TypeOK, Behind
      <3>2. PICK k \in KindNames, left \in ObjectStates, erred \in BOOLEAN : Deletes(k, left, erred)
        BY <2>3, DeletionStep
      <3>3. ~nodeErr /\ ~erred
        BY <1>2, <3>2 DEF Deletes
      <3>4. CASE i = at
        <4>1. k = KindOrder[i] /\ res'[cur][k] = left
          BY <3>2, <3>4 DEF Deletes, TypeOK
        <4>2. left # "absent" => <<cur, k>> \in lost'
          BY <3>2, <3>3 DEF Deletes
        <4> QED
          BY <3>1, <4>1, <4>2
      <3>5. CASE i # at
        <4>1. i \in 1 .. at - 1 /\ i \in 1 .. 4
          BY <3>1, <3>5
        <4>2. /\ res[cur][KindOrder[i]] = "absent" \/ <<cur, KindOrder[i]>> \in lost
              /\ KindOrder[i] \in KindNames
          BY <3>1, <3>3, <4>1 DEF DeletionProgress, KindOrder, KindNames
        <4> QED
          BY <3>1, <4>2, ResourceStep
      <3> QED
        BY <3>4, <3>5
    <2>4. ASSUME NEW n \in Nodes, pc = "remove", at' = at PROVE at' = 1
      BY <2>4 DEF DeletionProgress
    <2> QED
      BY <1>2, <2>1, <2>2, <2>3, <2>4, PositionStep
  <1> QED
    BY <1>1, <1>2 DEF DeletionProgress

\* The csibmnode goes when everything else has gone, or is lost.
LEMMA NextNoOrphans == OrphanInv /\ [Next]_vars => NoOrphans'
  <1> SUFFICES ASSUME TypeOK, StrayInv, DeletionProgress, NoOrphans, [Next]_vars,
                      NEW n \in Nodes, ~csibm'[n].exists, NEW k \in Kinds
               PROVE  res'[n][k] = "absent" \/ <<n, k>> \in lost'
    BY DEF OrphanInv, NoOrphans
  <1>1. k \in KindNames
    BY NodeOperationsAssumption DEF KindNames
  <1>2. CASE ~csibm[n].exists
    BY <1>1, <1>2, ResourceStep DEF NoOrphans, Behind
  <1>3. CASE /\ DeleteCsibmnode /\ ~nodeErr /\ csibm[n].exists
             /\ csibm' = [csibm EXCEPT ![cur] = Csibmnode(FALSE, FALSE, @.rv + 1)]
    <2>1. n = cur
      BY <1>3 DEF TypeOK
    <2>2. /\ UNCHANGED <<res, lost>>
          /\ \A i \in 1 .. 4 : res[cur][KindOrder[i]] = "absent" \/ <<cur, KindOrder[i]>> \in lost
      BY <1>3 DEF DeleteCsibmnode, DeletionProgress, history
    <2>3. \E i \in 1 .. 4 : k = KindOrder[i]
      BY <1>1 DEF KindOrder, KindNames
    <2> QED
      BY <2>1, <2>2, <2>3
  <1> QED
    BY <1>2, <1>3, CsibmnodeStep

LEMMA NextOrphan == OrphanInv /\ [Next]_vars => OrphanInv'
  BY NextType, NextStray, NextProgress, NextNoOrphans DEF OrphanInv

\* Once a csibmnode is deleted, nothing is left of its node but what no list showed in time,
\* or a driver created that was not seen when the worker looked or started later: failed
\* deletions, restarts, returning nodes and informers that fall behind one another lose
\* nothing else.
THEOREM Orphanless == Spec => []NoOrphans
  <1>1. OrphanInv => NoOrphans
    BY DEF OrphanInv
  <1> QED
    BY <1>1, InitOrphan, NextOrphan, PTL DEF Spec

-----------------------------------------------------------------------------
\* Removal as a whole

\* Everything is there at first.
LEMMA RemovalsInit == Init => Removals!Init
  <1> SUFFICES ASSUME Init PROVE Removals!Init
    OBVIOUS
  <1>1. Managed = Nodes
    BY DEF Init, Managed, Selected
  <1>2. Registered = Nodes
    BY DEF Init, Registered, Csibmnode
  <1>3. \A n \in Nodes, k \in Kinds : res[n][k] # "absent"
    BY NodeOperationsAssumption DEF Init, NewObject, KindNames
  <1>4. drained = {} /\ Missing = {} /\ lost = {}
    BY DEF Init, Missing
  <1>5. Kept = [n \in Nodes |-> Kinds]
    BY <1>3, <1>4 DEF Kept
  <1> QED
    BY <1>1, <1>2, <1>4, <1>5 DEF Removals!Init

\* A change of what is kept about one node, written as an update.
LEMMA KeptFunction ==
  ASSUME NEW m \in Nodes, NEW S
  PROVE  [n \in Nodes |-> IF n = m THEN S ELSE Kept[n]] = [Kept EXCEPT ![m] = S]
  BY DEF Kept

\* What the abstract variables see of a step at one resource of node m.
LEMMA KeptStep ==
  ASSUME TypeOK, NEW m \in Nodes, NEW j \in KindNames,
         \A n \in Nodes, k \in Kinds :
            n # m \/ k # j => (res'[n][k] = res[n][k] /\ (<<n, k>> \in lost' <=> <<n, k>> \in lost))
  PROVE  \/ Kept' = Kept
         \/ /\ j \in Kinds /\ (res'[m][j] = "absent" \/ <<m, j>> \in lost')
            /\ Kept' = [Kept EXCEPT ![m] = Kept[m] \ {j}]
         \/ j \in Kinds /\ res'[m][j] # "absent" /\ Kept' = [Kept EXCEPT ![m] = Kept[m] \cup {j}]
  <1> DEFINE kept(n) == {k \in Kinds : res'[n][k] # "absent" /\ <<n, k>> \notin lost'}
  <1>1. \A n \in Nodes : Kept[n] = {k \in Kinds : res[n][k] # "absent" /\ <<n, k>> \notin lost}
    BY DEF Kept
  <1>2. Kept' = [n \in Nodes |-> kept(n)]
    BY DEF Kept
  <1>3. \A n \in Nodes : n # m => kept(n) = Kept[n]
    BY <1>1
  <1>4. CASE j \notin Kinds
    <2>1. \A n \in Nodes : kept(n) = Kept[n]
      BY <1>1, <1>4
    <2>2. Kept = [n \in Nodes |-> Kept[n]]
      BY DEF Kept
    <2> HIDE DEF kept
    <2> QED
      BY <1>2, <2>1, <2>2
  <1>5. CASE j \in Kinds /\ (res'[m][j] = "absent" \/ <<m, j>> \in lost')
    <2>1. kept(m) = Kept[m] \ {j}
      BY <1>1, <1>5
    <2> HIDE DEF kept
    <2>2. Kept' = [n \in Nodes |-> IF n = m THEN Kept[m] \ {j} ELSE Kept[n]]
      BY <1>2, <1>3, <2>1
    <2> QED
      BY <1>5, <2>2, KeptFunction
  <1>6. CASE j \in Kinds /\ res'[m][j] # "absent" /\ <<m, j>> \notin lost'
    <2>1. kept(m) = Kept[m] \cup {j}
      BY <1>1, <1>6
    <2> HIDE DEF kept
    <2>2. Kept' = [n \in Nodes |-> IF n = m THEN Kept[m] \cup {j} ELSE Kept[n]]
      BY <1>2, <1>3, <2>1
    <2> QED
      BY <1>6, <2>2, KeptFunction
  <1> QED
    BY <1>4, <1>5, <1>6

\* A worker that keeps to its lists, or ends, leaves the missing nodes, or drops them.
LEMMA MissingStep ==
  ASSUME TypeOK, [Next]_vars
  PROVE  ListNodes \/ Missing' = Missing \/ Missing' = {}
  <1>1. CASE ListCsibmnodes
    BY <1>1 DEF ListCsibmnodes, Missing
  <1> QED
    BY <1>1, WorkerStep DEF Missing

\* The node removeNodes is at is one to remove.
LEMMA CurRemovable ==
  ASSUME TypeOK, FoundInv, DrainInv, pc = "delete"
  PROVE  cur \in Nodes /\ Removals!Removable(cur)
  BY DEF TypeOK, FoundInv, DrainInv, LabelsEarned, Missing, Removals!Removable

\* Every step is a step of NodeRemoval or changes nothing it sees.
LEMMA RemovalsNext ==
  ASSUME OrphanInv, FoundInv, DrainInv, [Next]_vars
  PROVE  [Removals!Next]_(Removals!vars)
  <1> USE DEF objects, history, Removals!vars
  <1>0. TypeOK
    BY DEF OrphanInv
  <1>1. ASSUME UNCHANGED <<node, csibm, res, drained, lost>>, Missing' = Missing \/ Missing' = {}
        PROVE  [Removals!Next]_(Removals!vars)
    <2>1. UNCHANGED <<Managed, Registered, Kept, drained>>
      BY <1>1 DEF Managed, Selected, Registered, Kept
    <2> QED
      BY <1>1, <2>1 DEF Removals!Next, Removals!Rest
  <1>2. CASE ListNodes
    <2>1. UNCHANGED <<node, csibm, res, drained, lost>> /\ pc = "idle" /\ pc' # "idle"
      BY <1>2 DEF ListNodes
    <2>2. UNCHANGED <<Managed, Registered, Kept>>
      BY <2>1 DEF Managed, Selected, Registered, Kept
    <2>3. \A n \in Nodes : nodesSeen'[n] = "missing" <=> ~Selected(n)
      BY <1>0, <1>2 DEF ListNodes, TypeOK, Taints
    <2>4. Missing = {} /\ Missing' = Nodes \ Managed
      BY <2>1, <2>3 DEF Missing, Managed
    <2> QED
      BY <2>1, <2>2, <2>4 DEF Removals!Next, Removals!Look
  <1>3. ~ListNodes => Missing' = Missing \/ Missing' = {}
    BY <1>0, MissingStep
  <1>4. CASE ~ListNodes /\ UNCHANGED <<node, csibm, res, drained, lost>>
    BY <1>1, <1>3, <1>4
  <1>5. CASE ListCsibmnodes \/ EndLabels \/ EndRemoval \/ MaintainNodes
             \/ ListFails \/ Restart \/ UNCHANGED vars
    BY <1>2, <1>4, <1>5 DEF ListCsibmnodes, EndLabels, EndRemoval, MaintainNodes,
                            ListFails, Restart, vars
  <1>6. ASSUME NEW n \in Nodes, CheckPods(n) PROVE UNCHANGED <<node, csibm, res, drained, lost>>
    BY <1>6 DEF CheckPods
  <1>7. ASSUME NEW n \in Nodes, NEW p \in PodKinds, PodStops(n, p) \/ PodStarts(n, p)
        PROVE  UNCHANGED <<node, csibm, res, drained, lost>>
    BY <1>7 DEF PodStops, PodStarts
  <1>8. ASSUME NEW x \in Informers, Stall(x) \/ CatchUp(x)
        PROVE  UNCHANGED <<node, csibm, res, drained, lost>>
    BY <1>8 DEF Stall, CatchUp
  <1>9. ASSUME NEW n \in Nodes, UpdateLabel(n) PROVE [Removals!Next]_(Removals!vars)
    <2>1. UNCHANGED <<node, res, drained, lost, pc, nodesSeen>>
      BY <1>9 DEF UpdateLabel
    <2>2. \A m \in Nodes : csibm'[m].exists = csibm[m].exists
      <3>1. csibm' = csibm \/ (csibm[n].exists
              /\ csibm' = [csibm EXCEPT ![n] = Csibmnode(TRUE, HasTaint(n), @.rv + 1)])
        BY <1>9 DEF UpdateLabel, Store
      <3>2. CASE csibm' = csibm
        BY <3>2
      <3>3. CASE csibm[n].exists
              /\ csibm' = [csibm EXCEPT ![n] = Csibmnode(TRUE, HasTaint(n), @.rv + 1)]
        <4> DEFINE new == Csibmnode(TRUE, HasTaint(n), csibm[n].rv + 1)
        <4>1. new.exists = TRUE /\ csibm[n].exists = TRUE
          BY <1>0, <3>3 DEF Csibmnode, TypeOK, Csibmnodes
        <4>2. csibm' = [csibm EXCEPT ![n] = new]
          BY <3>3
        <4> HIDE DEF new
        <4> QED
          BY <1>0, <4>1, <4>2 DEF TypeOK
      <3> QED
        BY <3>1, <3>2, <3>3
    <2>3. UNCHANGED <<Registered, Managed, Missing, Kept>>
      BY <2>1, <2>2 DEF Registered, Managed, Selected, Missing, Kept
    <2> QED
      BY <2>1, <2>3
  <1>10. CASE DeleteResources
    <2>1. UNCHANGED <<node, csibm, drained>> /\ pc = "delete" /\ pc' = pc /\ nodesSeen' = nodesSeen
      BY <1>10 DEF DeleteResources
    <2>2. cur \in Nodes /\ Removals!Removable(cur)
      BY <1>0, <2>1, CurRemovable
    <2>3. PICK k \in KindNames, left \in ObjectStates, erred \in BOOLEAN : Deletes(k, left, erred)
      BY <1>0, <1>10, DeletionStep
    <2>4. \A n \in Nodes, j \in Kinds :
             n # cur \/ j # k => (res'[n][j] = res[n][j] /\ (<<n, j>> \in lost' <=> <<n, j>> \in lost))
      <3> SUFFICES ASSUME NEW n \in Nodes, NEW j \in Kinds, n # cur \/ j # k
                   PROVE  res'[n][j] = res[n][j] /\ (<<n, j>> \in lost' <=> <<n, j>> \in lost)
        OBVIOUS
      <3>1. j \in KindNames
        BY NodeOperationsAssumption DEF KindNames
      <3>2. res'[n][j] = res[n][j]
        BY <1>0, <2>2, <2>3, <3>1 DEF Deletes, TypeOK
      <3>3. <<n, j>> \in lost' <=> <<n, j>> \in lost
        BY <2>3 DEF Deletes
      <3> QED
        BY <3>2, <3>3
    <2>5. \/ Kept' = Kept
          \/ k \in Kinds /\ Kept' = [Kept EXCEPT ![cur] = Kept[cur] \ {k}]
          \/ k \in Kinds /\ res'[cur][k] # "absent" /\ Kept' = [Kept EXCEPT ![cur] = Kept[cur] \cup {k}]
      BY <1>0, <2>2, <2>4, KeptStep
    <2>6. UNCHANGED <<Managed, Missing, Registered>>
      BY <2>1 DEF Managed, Selected, Missing, Registered
    <2>7. CASE k \in Kinds /\ res'[cur][k] # "absent" /\ Kept' = [Kept EXCEPT ![cur] = Kept[cur] \cup {k}]
      <3>1. res'[cur][k] = left
        BY <1>0, <2>2, <2>3 DEF Deletes, TypeOK
      <3>2. res[cur][k] # "absent" /\ lost \subseteq lost'
        BY <2>3, <2>7, <3>1 DEF Deletes
      <3>3. CASE <<cur, k>> \in lost'
        <4>1. k \notin Kept'[cur]
          BY <2>2, <3>3 DEF Kept
        <4> QED
          BY <2>2, <2>7, <4>1 DEF Kept
      <3>4. CASE <<cur, k>> \notin lost'
        <4>1. k \in Kept[cur]
          BY <2>2, <2>7, <3>2, <3>4 DEF Kept
        <4>2. Kept' = Kept
          BY <2>2, <2>7, <4>1 DEF Kept
        <4> QED
          BY <2>1, <2>6, <4>2
      <3> QED
        BY <3>3, <3>4
    <2> QED
      BY <2>1, <2>2, <2>5, <2>6, <2>7 DEF Removals!Next, Removals!Clean
  <1>11. CASE DeleteCsibmnode
    <2>1. UNCHANGED <<node, res, drained, lost, nodesSeen>> /\ pc = "delete" /\ pc' = "remove" /\ at = 5
      BY <1>11 DEF DeleteCsibmnode
    <2>2. UNCHANGED <<Managed, Missing, Kept>>
      BY <2>1 DEF Managed, Selected, Missing, Kept
    <2>3. CASE csibm' = csibm
      BY <2>1, <2>2, <2>3 DEF Registered
    <2>4. CASE csibm' # csibm
      <3>1. ~nodeErr /\ csibm' = [csibm EXCEPT ![cur] = Csibmnode(FALSE, FALSE, @.rv + 1)]
        BY <1>11, <2>4 DEF DeleteCsibmnode, AllDeleted, Store
      <3>2. cur \in Nodes /\ Removals!Removable(cur)
        BY <1>0, <2>1, CurRemovable
      <3>3. Registered' = Registered \ {cur}
        BY <1>0, <3>1, <3>2 DEF TypeOK, Registered, Csibmnode
      <3>4. \A i \in 1 .. 4 : res[cur][KindOrder[i]] = "absent" \/ <<cur, KindOrder[i]>> \in lost
        BY <2>1, <3>1 DEF OrphanInv, DeletionProgress
      <3>5. \A k \in Kinds : \E i \in 1 .. 4 : k = KindOrder[i]
        BY NodeOperationsAssumption DEF KindOrder
      <3>6. Kept[cur] = {}
        BY <3>2, <3>4, <3>5 DEF Kept
      <3>7. Removals!Forget(cur)
        BY <2>1, <2>2, <3>2, <3>3, <3>6 DEF Removals!Forget
      <3> QED
        BY <3>2, <3>7 DEF Removals!Next
    <2> QED
      BY <2>3, <2>4
  <1>12. ASSUME NEW n \in Nodes, UNCHANGED <<csibm, res, lost, pc, nodesSeen>>,
                drained' = drained \/ drained' = drained \cup {n},
                \A m \in Nodes : m # n => node'[m] = node[m],
                drained' = drained \/ (Selected(n)' <=> Selected(n))
         PROVE  [Removals!Next]_(Removals!vars)
    <2>1. UNCHANGED <<Registered, Kept, Missing>>
      BY <1>12 DEF Registered, Kept, Missing
    <2>2. Managed' = Managed \/ (drained' = drained
                                  /\ (Managed' = Managed \ {n} \/ Managed' = Managed \cup {n}))
      BY <1>12 DEF Managed, Selected
    <2> QED
      BY <1>12, <2>1, <2>2
      DEF Removals!Next, Removals!Depart, Removals!Arrive, Removals!Drain
  <1>13. ASSUME NEW n \in Nodes, DeleteNode(n) \/ AddNode(n) \/ RelabelNode(n)
         PROVE  [Removals!Next]_(Removals!vars)
    <2>1. UNCHANGED <<csibm, res, lost, pc, nodesSeen, drained>>
      BY <1>13 DEF DeleteNode, AddNode, RelabelNode, Around
    <2>2. PICK new : node' = [node EXCEPT ![n] = new]
      BY <1>13 DEF DeleteNode, AddNode, RelabelNode
    <2>3. \A m \in Nodes : m # n => node'[m] = node[m]
      BY <1>0, <2>2 DEF TypeOK
    <2> QED
      BY <1>12, <2>1, <2>3
  <1>14. ASSUME NEW n \in Nodes, NEW taint \in Taints, SetTaint(n, taint)
         PROVE  [Removals!Next]_(Removals!vars)
    <2>1. /\ UNCHANGED <<csibm, res, lost, pc, nodesSeen>>
          /\ drained' = drained \/ drained' = drained \cup {n}
      BY <1>14 DEF SetTaint, Around
    <2>2. /\ \A m \in Nodes : m # n => node'[m] = node[m]
          /\ Selected(n)' <=> Selected(n)
      BY <1>0, <1>14 DEF SetTaint, TypeOK, Selected
    <2> QED
      BY <1>12, <2>1, <2>2
  <1>15. ASSUME NEW n \in Nodes, RegisterNode(n) PROVE [Removals!Next]_(Removals!vars)
    <2>1. UNCHANGED <<node, res, drained, lost, pc, nodesSeen>>
          /\ csibm' = [csibm EXCEPT ![n] = Csibmnode(TRUE, FALSE, @.rv + 1)]
      BY <1>15 DEF RegisterNode, Store, Around
    <2>2. Registered' = Registered \cup {n}
      BY <1>0, <2>1 DEF TypeOK, Registered, Csibmnode
    <2>3. UNCHANGED <<Managed, Missing, Kept>>
      BY <2>1 DEF Managed, Selected, Missing, Kept
    <2> QED
      BY <2>1, <2>2, <2>3 DEF Removals!Next, Removals!Register
  <1>16. ASSUME NEW n \in Nodes, NEW k \in Kinds, DriverCreates(n, k)
         PROVE  [Removals!Next]_(Removals!vars)
    <2>1. /\ UNCHANGED <<node, csibm, drained, pc, nodesSeen>> /\ res[n][k] = "absent"
          /\ res' = [res EXCEPT ![n][k] = NewObject(k)] /\ "daemonset" \in pods[n]
          /\ lost' = lost \/ lost' = lost \cup {<<n, k>>}
      BY <1>16 DEF DriverCreates, Around
    <2>2. k \in KindNames
      BY NodeOperationsAssumption DEF KindNames
    <2>3. UNCHANGED <<Managed, Missing, Registered>>
      BY <2>1 DEF Managed, Selected, Missing, Registered
    <2>4. \A m \in Nodes, j \in Kinds :
             m # n \/ j # k => (res'[m][j] = res[m][j] /\ (<<m, j>> \in lost' <=> <<m, j>> \in lost))
      <3> SUFFICES ASSUME NEW m \in Nodes, NEW j \in Kinds, m # n \/ j # k
                   PROVE  res'[m][j] = res[m][j] /\ (<<m, j>> \in lost' <=> <<m, j>> \in lost)
        OBVIOUS
      <3>1. j \in KindNames
        BY NodeOperationsAssumption DEF KindNames
      <3> QED
        BY <1>0, <2>1, <2>2, <3>1 DEF TypeOK
    <2>5. k \notin Kept[n]
      BY <2>1 DEF Kept
    <2>6. CASE <<n, k>> \in lost'
      <3>1. k \notin Kept'[n]
        BY <2>6 DEF Kept
      <3>2. Kept' = Kept
        <4>1. \A m \in Nodes : Kept'[m] = Kept[m]
          BY <2>4, <2>5, <2>6 DEF Kept
        <4> QED
          BY <4>1 DEF Kept
      <3> QED
        BY <2>1, <2>3, <3>2
    <2>7. CASE <<n, k>> \notin lost'
      <3>1. n \in Registered
        BY <1>16, <2>1, <2>7 DEF DriverCreates, OrphanInv, StrayInv, Behind, Registered
      <3>2. res'[n][k] # "absent"
        BY <1>0, <2>1, <2>2 DEF TypeOK, NewObject
      <3>3. Kept' = Kept \/ Kept' = [Kept EXCEPT ![n] = Kept[n] \cup {k}]
        BY <1>0, <2>2, <2>4, <2>7, <3>2, KeptStep
      <3> QED
        BY <2>1, <2>3, <3>1, <3>3 DEF Removals!Next, Removals!Use
    <2> QED
      BY <2>6, <2>7
  <1> QED
    BY <1>2, <1>4, <1>5, <1>6, <1>7, <1>8, <1>9, <1>10, <1>11, <1>13, <1>14, <1>15, <1>16
    DEF Next, Reconcile, Environment

\* The reconciler implements NodeRemoval: with stale caches, failed requests and restarts,
\* returning and relabelled nodes, a node is cleaned only when it has been drained and was
\* missing when the reconcile looked, and is then forgotten only when nothing is left that
\* the worker could know of.
THEOREM RemovalRefined == Spec => RemovalImplemented
  <1>1. ASSUME OrphanInv, FoundInv, DrainInv, [Next]_vars
        PROVE  [Removals!Next]_(Removals!vars)
    BY <1>1, RemovalsNext
  <1> QED
    BY <1>1, RemovalsInit, InitOrphan, NextOrphan, InitFound, NextFound, InitDrain, NextDrain,
       TypeCorrect, PTL
    DEF Spec, RemovalImplemented, Removals!Spec

-----------------------------------------------------------------------------
(***************************************************************************)
(* No removal is pending at rest. A worker that nobody has queued again    *)
(* has every node as it is; the nodes it has labelled it has seen, and     *)
(* those it has not seen it removes, or it meets an error and comes back,  *)
(* unless the list of csibmnodes failed or did not show one as it was.     *)
(***************************************************************************)

LabelInv  == \A n \in Nodes : csibm[n].label => csibm[n].exists
SeenInv   == (pc # "idle" /\ ~queued) => \A n \in Nodes : HasNode(n) => Selected(n)
Afterwards == {"label", "remove", "delete", "maintain"}
PendingInv ==
  /\ (pc \in Afterwards /\ ~errs) =>
       \A n \in Nodes : csibm[n].label => HasNode(n) \/ n \in removing \/ n \in overlooked
  /\ (pc = "maintain" /\ ~errs) => removing = {}
IdleInv   ==
  (pc = "idle" /\ ~queued) =>
     \A n \in Nodes : csibm[n].label => Selected(n) \/ blind \/ n \in overlooked
RestInv   == LabelInv /\ SeenInv /\ PendingInv /\ IdleInv

LEMMA InitRest == Init => RestInv
  BY DEF Init, RestInv, LabelInv, SeenInv, PendingInv, IdleInv, Csibmnode, Afterwards

\* A csibmnode is replaced by one of its versions.
LEMMA StoreRest ==
  ASSUME TypeOK, LabelInv, NEW n \in Nodes, NEW e \in BOOLEAN, NEW l \in BOOLEAN,
         l => e, Store([csibm EXCEPT ![n] = Csibmnode(e, l, @.rv + 1)])
  PROVE  /\ LabelInv' /\ csibm'[n].label = l
         /\ \A m \in Nodes \ {n} : csibm'[m] = csibm[m]
  BY DEF TypeOK, LabelInv, Store, Csibmnode

LEMMA ReconcileRest ==
  ASSUME TypeOK, RestInv, Reconcile \/ ListFails PROVE RestInv'
  <1> USE DEF objects, history
  <1>0. LabelInv /\ SeenInv /\ PendingInv /\ IdleInv
    BY DEF RestInv
  <1> USE DEF RestInv
  <1>1. CASE ListNodes
    <2>1. \A n \in Nodes : nodesSeen'[n] # "missing" => Selected(n)
      BY <1>1 DEF ListNodes
    <2> QED
      BY <1>0, <1>1, <2>1
      DEF ListNodes, LabelInv, SeenInv, PendingInv, IdleInv, Selected, HasNode, Afterwards
  <1>2. CASE ListCsibmnodes
    <2>1. \A n \in Nodes : csibm[n].label => HasNode(n) \/ n \in removing' \/ n \in overlooked'
      BY <1>0, <1>2 DEF ListCsibmnodes, LabelInv, ToRemove
    <2> QED
      BY <1>0, <1>2, <2>1
      DEF ListCsibmnodes, LabelInv, SeenInv, PendingInv, IdleInv, Selected, HasNode, Afterwards
  <1>3. CASE EndLabels \/ EndRemoval \/ DeleteResources
    <2>1. /\ UNCHANGED <<node, csibm, overlooked, queued, nodesSeen, removing, errs>>
          /\ pc \in Afterwards /\ pc' \in Afterwards
          /\ pc' = "maintain" => errs \/ removing = {}
      BY <1>3 DEF EndLabels, EndRemoval, DeleteResources, Afterwards
    <2> QED
      BY <1>0, <2>1
      DEF LabelInv, SeenInv, PendingInv, IdleInv, Selected, HasNode, Afterwards
  <1>4. ASSUME NEW n \in Nodes, UpdateLabel(n) PROVE RestInv'
    <2>1. /\ UNCHANGED <<node, overlooked, queued, pc, nodesSeen, removing>> /\ pc = "label"
          /\ \/ /\ Store([csibm EXCEPT ![n] = Csibmnode(TRUE, HasTaint(n), @.rv + 1)])
                /\ UNCHANGED errs
             \/ errs' = TRUE /\ UNCHANGED <<csibm, cache>>
      BY <1>4 DEF UpdateLabel
    <2>2. CASE errs' = TRUE /\ UNCHANGED <<csibm, cache>>
      BY <1>0, <2>1, <2>2
      DEF LabelInv, SeenInv, PendingInv, IdleInv, Selected, HasNode
    <2>3. CASE /\ Store([csibm EXCEPT ![n] = Csibmnode(TRUE, HasTaint(n), @.rv + 1)])
               /\ UNCHANGED errs
      <3>1. /\ LabelInv' /\ csibm'[n].label = HasTaint(n)
            /\ \A m \in Nodes \ {n} : csibm'[m] = csibm[m]
        BY <1>0, <2>3, StoreRest DEF HasTaint
      <3>2. HasTaint(n) => HasNode(n)
        BY DEF HasTaint, HasNode
      <3> QED
        BY <1>0, <2>1, <2>3, <3>1, <3>2
        DEF SeenInv, PendingInv, IdleInv, Selected, HasNode, Afterwards
    <2> QED
      BY <2>1, <2>2, <2>3
  <1>5. ASSUME NEW n \in Nodes, CheckPods(n) PROVE RestInv'
    <2>1. /\ UNCHANGED <<node, csibm, overlooked, queued, nodesSeen>> /\ pc = "remove"
          /\ \/ errs' = TRUE /\ pc' = pc
             \/ pc' = "delete" /\ UNCHANGED <<removing, errs>>
      BY <1>5 DEF CheckPods
    <2> QED
      BY <1>0, <2>1 DEF LabelInv, SeenInv, PendingInv, IdleInv, Selected, HasNode, Afterwards
  <1>6. CASE DeleteCsibmnode
    <2>1. /\ UNCHANGED <<node, overlooked, queued, nodesSeen>> /\ pc = "delete" /\ pc' = "remove"
          /\ removing' = removing \ {cur}
          /\ \/ /\ Store([csibm EXCEPT ![cur] = Csibmnode(FALSE, FALSE, @.rv + 1)])
                /\ UNCHANGED errs
             \/ errs' = TRUE /\ UNCHANGED <<csibm, cache>>
      BY <1>6 DEF DeleteCsibmnode
    <2>2. CASE errs' = TRUE /\ UNCHANGED <<csibm, cache>>
      BY <1>0, <2>1, <2>2
      DEF LabelInv, SeenInv, PendingInv, IdleInv, Selected, HasNode
    <2>3. CASE /\ Store([csibm EXCEPT ![cur] = Csibmnode(FALSE, FALSE, @.rv + 1)])
               /\ UNCHANGED errs
      <3>1. cur \in Nodes
        BY <2>1 DEF TypeOK
      <3>2. /\ LabelInv' /\ ~csibm'[cur].label
            /\ \A m \in Nodes \ {cur} : csibm'[m] = csibm[m]
        BY <1>0, <2>3, <3>1, StoreRest
      <3> QED
        BY <1>0, <2>1, <2>3, <3>2
        DEF SeenInv, PendingInv, IdleInv, Selected, HasNode, Afterwards
    <2> QED
      BY <2>1, <2>2, <2>3
  <1>7. CASE MaintainNodes
    <2>1. /\ UNCHANGED <<node, csibm, blind, overlooked>> /\ pc = "maintain" /\ pc' = "idle"
          /\ ~queued' => ~queued /\ ~errs
      <3>1. PICK kept : queued' = (queued \/ pods' # pods \/ Failed(kept))
        BY <1>7 DEF MaintainNodes
      <3>2. ~queued' => ~queued /\ ~errs
        BY <3>1, Zenon DEF Failed
      <3> QED
        BY <1>7, <3>2 DEF MaintainNodes, Done
    <2>2. ~queued' => \A n \in Nodes : csibm[n].label => Selected(n) \/ n \in overlooked
      BY <1>0, <2>1 DEF PendingInv, SeenInv, Afterwards
    <2> QED
      BY <1>0, <2>1, <2>2
      DEF LabelInv, SeenInv, PendingInv, IdleInv, Selected, Afterwards
  <1>8. CASE ListFails
    <2>1. csibm' = csibm /\ pc' = "idle" /\ blind' = TRUE
      BY <1>8 DEF ListFails, Done
    <2> QED
      BY <1>0, <2>1 DEF LabelInv, SeenInv, PendingInv, IdleInv, Afterwards
  <1> QED
    BY <1>1, <1>2, <1>3, <1>4, <1>5, <1>6, <1>7, <1>8 DEF Reconcile

\* Around the worker a node stops being selected only with an event.
LEMMA AroundRest ==
  ASSUME TypeOK, RestInv, Around, LabelInv', blind' = blind, overlooked \subseteq overlooked',
         \A n \in Nodes : csibm'[n].label => csibm[n].label,
         queued' \/ (~queued /\ \A n \in Nodes : Selected(n) => Selected(n)')
  PROVE  RestInv'
  BY DEF RestInv, SeenInv, PendingInv, IdleInv, Around, HasNode

LEMMA EnvironmentRest ==
  ASSUME TypeOK, RestInv, Environment PROVE RestInv'
  <1> USE DEF objects, history
  <1>0. LabelInv /\ queued \in BOOLEAN
    BY DEF RestInv, TypeOK
  <1>1. ASSUME NEW n \in Nodes, UNCHANGED <<csibm, blind, overlooked>>, Around,
               \A m \in Nodes \ {n} : node'[m] = node[m],
               queued' \/ (~queued /\ ~node[n].selected)
        PROVE  RestInv'
    <2>1. ~node[n].selected => \A m \in Nodes : Selected(m) => Selected(m)'
      BY <1>1 DEF Selected
    <2>2. LabelInv'
      BY <1>0, <1>1 DEF LabelInv
    <2> QED
      BY <1>1, <2>1, <2>2, AroundRest
  <1>2. ASSUME NEW n \in Nodes, \/ DeleteNode(n) \/ AddNode(n) \/ RelabelNode(n)
                                \/ \E taint \in Taints : SetTaint(n, taint)
        PROVE  RestInv'
    <2>1. UNCHANGED <<csibm, blind, overlooked>> /\ Around
      BY <1>2 DEF DeleteNode, AddNode, RelabelNode, SetTaint
    <2>2. PICK new : node' = [node EXCEPT ![n] = new]
      BY <1>2 DEF DeleteNode, AddNode, RelabelNode, SetTaint
    <2>3. \A m \in Nodes \ {n} : node'[m] = node[m]
      BY <2>2 DEF TypeOK
    <2>4. queued' \/ (~queued /\ ~node[n].selected)
      <3>1. queued' = (queued \/ node[n].selected) \/ queued' = TRUE
        BY <1>2, Zenon DEF DeleteNode, AddNode, RelabelNode, SetTaint, NodeEvent
      <3> QED
        BY <3>1, Zenon
    <2> QED
      BY <1>1, <2>1, <2>3, <2>4
  <1>3. ASSUME NEW n \in Nodes, NEW p \in PodKinds, PodStops(n, p) \/ PodStarts(n, p)
        PROVE  RestInv'
    <2>1. UNCHANGED <<csibm, blind, overlooked>> /\ Around /\ queued'
      BY <1>3 DEF PodStops, PodStarts
    <2> QED
      BY <1>0, <2>1, AroundRest DEF LabelInv
  <1>4. ASSUME NEW n \in Nodes, NEW k \in Kinds, DriverCreates(n, k) PROVE RestInv'
    BY <1>0, <1>4, AroundRest DEF DriverCreates, LabelInv, Selected
  <1>5. ASSUME NEW n \in Nodes, RegisterNode(n) PROVE RestInv'
    <2>1. /\ LabelInv' /\ ~csibm'[n].label /\ \A m \in Nodes \ {n} : csibm'[m] = csibm[m]
      BY <1>0, <1>5, StoreRest DEF RegisterNode
    <2> QED
      BY <1>0, <1>5, <2>1, AroundRest DEF RegisterNode, Selected
  <1>6. ASSUME NEW x \in Informers, Stall(x) \/ CatchUp(x) PROVE RestInv'
    BY <1>0, <1>6, AroundRest DEF Stall, CatchUp, LabelInv, Selected
  <1>7. CASE Restart
    BY <1>0, <1>7 DEF Restart, Done, RestInv, LabelInv, SeenInv, PendingInv, IdleInv, Afterwards
  <1> QED
    BY <1>2, <1>3, <1>4, <1>5, <1>6, <1>7 DEF Environment

LEMMA NextRest == TypeOK /\ RestInv /\ [Next]_vars => RestInv'
  <1>1. ASSUME RestInv, UNCHANGED vars PROVE RestInv'
    BY <1>1
    DEF vars, objects, history, worker, RestInv, LabelInv, SeenInv, PendingInv, IdleInv,
        HasNode, Selected
  <1> QED
    BY <1>1, ReconcileRest, EnvironmentRest DEF Next

\* When the reconciler rests, no removal is pending, unless its last list failed or did not
\* show the csibmnode as it was: whatever request fails, whatever cache lags, and however
\* nodes come back and are relabelled.
THEOREM RemovedRests == Spec => []RemovedAtRest
  <1>1. RestInv => RemovedAtRest
    BY DEF RestInv, IdleInv, RemovedAtRest, Selected
  <1> QED
    BY TypeCorrect, InitRest, NextRest, <1>1, PTL DEF Spec

-----------------------------------------------------------------------------
\* A reconcile ends

\* The steps a reconcile has left at most: one for each label to update; for each csibmnode
\* to remove the pod check, four kinds of resources and the csibmnode; and the ends of both
\* loops and of the maintenance.
StepsLeft ==
  IF pc = "idle" THEN 0
  ELSE IF pc = "maintain" THEN 1
  ELSE IF pc = "remove" THEN 6 * Cardinality(removing) + 2
  ELSE IF pc = "delete" THEN 6 * Cardinality(removing) + 2 - at
  ELSE IF pc = "label" THEN Cardinality(todo) + 6 * Cardinality(removing) + 3
  ELSE 7 * Cardinality(Nodes) + 4

ReconcileStep == Reconcile \/ ListFails

\* The sizes of the worker's lists.
LEMMA ListSizes ==
  ASSUME IsFiniteSet(Nodes), NEW list \in SUBSET Nodes
  PROVE  /\ IsFiniteSet(list) /\ Cardinality(list) \in 0 .. Cardinality(Nodes)
         /\ Cardinality(Nodes) \in Nat
         /\ (Cardinality(list) = 0 <=> list = {})
         /\ \A n \in list : Cardinality(list \ {n}) = Cardinality(list) - 1
  <1>1. IsFiniteSet(list) /\ Cardinality(list) <= Cardinality(Nodes)
    BY FS_Subset
  <1>2. Cardinality(list) \in Nat /\ Cardinality(Nodes) \in Nat
    BY <1>1, FS_CardinalityType
  <1>3. Cardinality(list) = 0 <=> list = {}
    BY <1>1, FS_EmptySet
  <1>4. \A n \in list : Cardinality(list \ {n}) = Cardinality(list) - 1
    BY <1>1, FS_RemoveElement
  <1> QED
    BY <1>1, <1>2, <1>3, <1>4

LEMMA StepsLeftRange ==
  ASSUME TypeOK, IsFiniteSet(Nodes)
  PROVE  StepsLeft \in 0 .. 7 * Cardinality(Nodes) + 4 /\ (StepsLeft = 0 <=> pc = "idle")
  <1>1. /\ Cardinality(todo) \in 0 .. Cardinality(Nodes)
        /\ Cardinality(removing) \in 0 .. Cardinality(Nodes)
        /\ Cardinality(Nodes) \in Nat
    BY ListSizes DEF TypeOK
  <1>2. pc = "delete" => Cardinality(removing) > 0 /\ at \in 1 .. 5
    <2>1. Cardinality(removing) = 0 <=> removing = {}
      BY ListSizes DEF TypeOK
    <2> QED
      BY <1>1, <2>1 DEF TypeOK
  <1> QED
    BY <1>1, <1>2 DEF StepsLeft

\* What a step of the worker makes of its stage and its lists.
Onward ==
  \/ pc' = "idle"
  \/ pc = "listCsibmnodes" /\ pc' = "label" /\ todo' \subseteq Nodes /\ removing' \subseteq Nodes
  \/ pc = "label" /\ pc' = "label" /\ UNCHANGED removing /\ \E n \in todo : todo' = todo \ {n}
  \/ pc = "label" /\ pc' \in {"remove", "maintain"} /\ UNCHANGED removing
  \/ pc = "remove" /\ pc' = "remove" /\ \E n \in removing : removing' = removing \ {n}
  \/ pc = "remove" /\ pc' = "delete" /\ UNCHANGED <<removing, at>>
  \/ pc = "delete" /\ pc' = "delete" /\ UNCHANGED removing /\ at' = at + 1
  \/ pc = "delete" /\ pc' = "remove" /\ at = 5 /\ removing' = removing \ {cur}
  \/ pc = "remove" /\ pc' = "maintain"

LEMMA ReconcileOnward == ASSUME TypeOK, pc # "idle", ReconcileStep PROVE Onward
  <1> USE DEF Onward
  <1>1. CASE ListCsibmnodes
    BY <1>1 DEF ListCsibmnodes
  <1>2. ASSUME NEW n \in Nodes, UpdateLabel(n) PROVE Onward
    BY <1>2 DEF UpdateLabel
  <1>3. ASSUME NEW n \in Nodes, CheckPods(n) PROVE Onward
    BY <1>3 DEF CheckPods
  <1>4. CASE EndLabels \/ EndRemoval
    BY <1>4 DEF EndLabels, EndRemoval
  <1>5. CASE DeleteResources
    BY <1>5 DEF DeleteResources
  <1>6. CASE DeleteCsibmnode
    BY <1>6 DEF DeleteCsibmnode
  <1>7. CASE MaintainNodes \/ ListFails
    BY <1>7 DEF MaintainNodes, ListFails, Done
  <1>8. ~ListNodes
    BY DEF ListNodes
  <1> QED
    BY <1>1, <1>2, <1>3, <1>4, <1>5, <1>6, <1>7, <1>8 DEF ReconcileStep, Reconcile

LEMMA OnwardLess ==
  ASSUME TypeOK, TypeOK', IsFiniteSet(Nodes), pc # "idle", Onward
  PROVE  StepsLeft' <= StepsLeft /\ StepsLeft' < StepsLeft
  <1> DEFINE r == Cardinality(removing)
             t == Cardinality(todo)
  <1>0. /\ todo \in SUBSET Nodes /\ removing \in SUBSET Nodes
        /\ pc = "delete" => cur \in removing
    BY DEF TypeOK
  <1>1. /\ r \in Nat /\ t \in Nat /\ r' \in 0 .. Cardinality(Nodes)
        /\ t' \in 0 .. Cardinality(Nodes) /\ Cardinality(Nodes) \in Nat
        /\ at \in 1 .. 5 /\ at' \in 1 .. 5
    BY ListSizes DEF TypeOK
  <1>2. StepsLeft > 0 /\ StepsLeft \in Nat
    BY <1>1, StepsLeftRange
  <1>3. CASE pc' = "idle"
    <2>1. StepsLeft' = 0
      BY <1>3 DEF StepsLeft
    <2> QED
      BY <1>2, <2>1
  <1>4. CASE pc = "listCsibmnodes" /\ pc' = "label"
    <2>1. StepsLeft = 7 * Cardinality(Nodes) + 4 /\ StepsLeft' = t' + 6 * r' + 3
      BY <1>4 DEF StepsLeft
    <2> QED
      BY <1>1, <2>1
  <1>5. CASE pc = "label" /\ pc' = "label" /\ UNCHANGED removing /\ \E n \in todo : todo' = todo \ {n}
    <2>1. t' = t - 1 /\ r' = r
      <3>1. PICK n \in todo : todo' = todo \ {n}
        BY <1>5
      <3> QED
        BY <1>0, <1>5, <3>1, ListSizes
    <2>2. StepsLeft = t + 6 * r + 3 /\ StepsLeft' = t' + 6 * r' + 3
      BY <1>5 DEF StepsLeft
    <2> QED
      BY <1>1, <2>1, <2>2
  <1>6. CASE pc = "label" /\ pc' \in {"remove", "maintain"} /\ UNCHANGED removing
    <2>1. StepsLeft = t + 6 * r + 3 /\ StepsLeft' \in {6 * r + 2, 1}
      BY <1>6 DEF StepsLeft
    <2> QED
      BY <1>1, <2>1
  <1>7. CASE pc = "remove" /\ pc' = "remove" /\ \E n \in removing : removing' = removing \ {n}
    <2>1. r' = r - 1
      <3>1. PICK n \in removing : removing' = removing \ {n}
        BY <1>7
      <3> QED
        BY <1>0, <3>1, ListSizes
    <2>2. StepsLeft = 6 * r + 2 /\ StepsLeft' = 6 * r' + 2
      BY <1>7 DEF StepsLeft
    <2> QED
      BY <1>1, <2>1, <2>2
  <1>8. CASE pc = "remove" /\ pc' = "delete" /\ UNCHANGED <<removing, at>>
    <2>1. StepsLeft = 6 * r + 2 /\ StepsLeft' = 6 * r + 2 - at
      BY <1>8 DEF StepsLeft
    <2> QED
      BY <1>1, <2>1
  <1>9. CASE pc = "delete" /\ pc' = "delete" /\ UNCHANGED removing /\ at' = at + 1
    <2>1. StepsLeft = 6 * r + 2 - at /\ StepsLeft' = 6 * r + 2 - (at + 1)
      BY <1>9 DEF StepsLeft
    <2> QED
      BY <1>1, <2>1
  <1>10. CASE pc = "delete" /\ pc' = "remove" /\ at = 5 /\ removing' = removing \ {cur}
    <2>1. r' = r - 1
      BY <1>0, <1>10, ListSizes
    <2>2. StepsLeft = 6 * r + 2 - 5 /\ StepsLeft' = 6 * r' + 2
      BY <1>10 DEF StepsLeft
    <2> QED
      BY <1>1, <2>1, <2>2
  <1>11. CASE pc = "remove" /\ pc' = "maintain"
    <2>1. StepsLeft = 6 * r + 2 /\ StepsLeft' = 1
      BY <1>11 DEF StepsLeft
    <2> QED
      BY <1>1, <2>1
  <1> QED
    BY <1>3, <1>4, <1>5, <1>6, <1>7, <1>8, <1>9, <1>10, <1>11 DEF Onward

\* Reconcile ends: with every answer it gets, failed or not, it has fewer labels, nodes and
\* resources before it, and what happens around it does not add to its lists.
THEOREM Ends ==
  ASSUME IsFiniteSet(Nodes)
  PROVE  Spec => /\ [](StepsLeft \in 0 .. 7 * Cardinality(Nodes) + 4 /\ (StepsLeft = 0 <=> pc = "idle"))
                 /\ [][pc # "idle" => StepsLeft' <= StepsLeft /\ (ReconcileStep => StepsLeft' < StepsLeft)]_vars
  <1>1. ASSUME TypeOK, TypeOK', [Next]_vars, pc # "idle"
        PROVE  StepsLeft' <= StepsLeft /\ (ReconcileStep => StepsLeft' < StepsLeft)
    <2>1. CASE ReconcileStep
      BY <1>1, <2>1, ReconcileOnward, OnwardLess
    <2>2. CASE ~ReconcileStep /\ UNCHANGED <<pc, todo, removing, at>>
      <3>1. StepsLeft' = StepsLeft
        BY <2>2 DEF StepsLeft
      <3> QED
        BY <1>1, <2>2, <3>1, StepsLeftRange
    <2>3. CASE Restart
      <3>1. Onward
        BY <2>3 DEF Restart, Done, Onward
      <3> QED
        BY <1>1, <3>1, OnwardLess
    <2>4. CASE UNCHANGED vars
      BY <2>1, <2>2, <2>4 DEF vars, worker
    <2>5. ASSUME Environment PROVE Restart \/ UNCHANGED <<pc, todo, removing, at>>
      BY <2>5, EnvironmentAround DEF Around
    <2> QED
      BY <1>1, <2>1, <2>2, <2>3, <2>4, <2>5 DEF Next, ReconcileStep
  <1>2. TypeOK => StepsLeft \in 0 .. 7 * Cardinality(Nodes) + 4 /\ (StepsLeft = 0 <=> pc = "idle")
    BY StepsLeftRange
  <1> QED
    BY <1>1, <1>2, TypeCorrect, PTL DEF Spec
===============================================================================
