--------------------------- MODULE NodeOperations ---------------------------
(***************************************************************************)
(* The node operations of a reconcile: pkg/nodeoperations.                 *)
(*                                                                         *)
(* An administrator taints a node to take it out of the cluster; the       *)
(* reconciler copies the drain taint to a label on the node's csibmnode.   *)
(* Once the Node is deleted and its daemon set pod is gone, the            *)
(* reconciler deletes the drives, capacities, LVGs and volumes of the      *)
(* labelled csibmnode, and at last the csibmnode. A node tainted for       *)
(* maintenance loses its CSI pods other than those of daemon sets.         *)
(*                                                                         *)
(* Nodes are listed from the API server; csibmnodes, pods and CSI          *)
(* resources from informer caches, each of which may be behind by its own. *)
(***************************************************************************)
EXTENDS Naturals, FiniteSets

CONSTANTS
  Nodes,
  NoNode,        \* not a node
  Kinds,         \* the kinds of CSI resources the driver creates
  MaxAdmin,      \* bound: taints, deletions and other changes of nodes
  MaxFaults      \* bound: failed requests, restarts and informers that fall behind

KindOrder == <<"drive", "ac", "lvg", "volume">>
Finalized == {"lvg", "volume"}   \* kinds whose objects carry finalizers

ASSUME NodeOperationsAssumption ==
  /\ NoNode \notin Nodes
  /\ Kinds \subseteq {"drive", "ac", "lvg", "volume"}
  /\ MaxAdmin \in Nat /\ MaxFaults \in Nat

VARIABLES
  node,       \* the Nodes in the API server
  csibm,      \* the csibmnodes in the API server
  pods,       \* CSI pods of each node
  res,        \* CSI resources of each node, by kind
  cache, podSeen, resSeen,  \* the informer caches of the last three
  stalled,    \* informers that do not deliver at present
  drained,    \* history: nodes an administrator has tainted for removal
  returned,   \* history: nodes that came back after they were listed
  blind,      \* history: the last time a list failed
  overlooked, \* history: nodes whose csibmnode the last list did not show as it was
  stray,      \* history: pods that run although the last look did not show them
  lost,       \* history: resources that no list showed when they had to be deleted
  queued, pc,
  nodesSeen,  \* Reconcile's list of nodes: missing, or the taint
  csibmSeen,  \* Reconcile's list of csibmnodes
  todo,       \* csibmnodes whose label is still to be updated
  removing,   \* removingNodes
  cur, at,    \* removeNodes: the csibmnode, and the next kind in KindOrder
  nodeErr,    \* deleteCSIResources has met an error
  errs,       \* Reconcile has met an error
  admin, faults

objects == <<csibm, pods, res>>
caches  == <<cache, podSeen, resSeen, stalled>>
history == <<drained, returned, blind, overlooked, stray, lost>>
worker  == <<queued, pc, nodesSeen, csibmSeen, todo, removing, cur, at, nodeErr, errs>>
vars    == <<node, objects, caches, history, worker, admin, faults>>

Taints  == {"none", "drain", "planned-downtime"}
PodKinds == {"daemonset", "replica"}
\* free: no finalizer; held: finalizers; dying: finalizers and a deletion timestamp
ObjectStates == {"absent", "free", "held", "dying"}
\* What the cache of a kind shows: the object as it is, none of a new one, an older version
\* of it, or one that is gone.
Views     == {"current", "unlisted", "outdated", "gone"}
KindNames == {"drive", "ac", "lvg", "volume"}
Informers == {"csibmnode", "pods"} \cup Kinds

\* Absent csibmnodes keep the resourceVersion of their deletion.
Csibmnodes == [exists: BOOLEAN, label: BOOLEAN, rv: Nat]
Csibmnode(exists, label, rv) == [exists |-> exists, label |-> label, rv |-> rv]
NoCsibmnodes == [n \in Nodes |-> Csibmnode(FALSE, FALSE, 0)]

\* The types of the variables; the worker deletes for a node only in removeNodes,
\* and an idle worker holds no list of nodes.
TypeOK ==
  /\ node \in [Nodes -> [present: BOOLEAN, selected: BOOLEAN, taint: Taints]]
  /\ csibm \in [Nodes -> Csibmnodes] /\ cache \in [Nodes -> Csibmnodes]
  /\ pods \in [Nodes -> SUBSET PodKinds] /\ podSeen \in [Nodes -> SUBSET PodKinds]
  /\ res \in [Nodes -> [KindNames -> ObjectStates]]
  /\ resSeen \in [Nodes -> [KindNames -> Views]] /\ stalled \subseteq Informers
  /\ returned \subseteq Nodes /\ blind \in BOOLEAN /\ overlooked \subseteq Nodes
  /\ stray \subseteq Nodes \X PodKinds /\ lost \subseteq Nodes \X KindNames
  /\ drained \subseteq Nodes /\ todo \subseteq Nodes /\ removing \subseteq Nodes
  /\ pc \in {"idle", "listCsibmnodes", "label", "remove", "delete", "maintain"}
  /\ nodesSeen \in [Nodes -> Taints \cup {"missing"}]
  /\ (pc = "idle" => nodesSeen = [n \in Nodes |-> "missing"])
  /\ csibmSeen \in [Nodes -> Csibmnodes]
  /\ cur \in Nodes \cup {NoNode} /\ (pc = "delete" => cur \in removing)
  /\ at \in 1 .. 5
  /\ queued \in BOOLEAN /\ nodeErr \in BOOLEAN /\ errs \in BOOLEAN
  /\ admin \in Nat /\ faults \in Nat

NewObject(k) == IF k \notin Kinds THEN "absent" ELSE IF k \in Finalized THEN "held" ELSE "free"

\* The driver runs on every node and has registered it.
Init ==
  /\ node = [n \in Nodes |-> [present |-> TRUE, selected |-> TRUE, taint |-> "none"]]
  /\ csibm = [n \in Nodes |-> Csibmnode(TRUE, FALSE, 1)]
  /\ pods = [n \in Nodes |-> PodKinds]
  /\ res = [n \in Nodes |-> [k \in KindNames |-> NewObject(k)]]
  /\ cache = csibm /\ podSeen = pods /\ stalled = {}
  /\ resSeen = [n \in Nodes |-> [k \in KindNames |-> "current"]]
  /\ drained = {} /\ returned = {} /\ blind = FALSE /\ overlooked = {} /\ stray = {} /\ lost = {}
  /\ queued = TRUE /\ pc = "idle"
  /\ nodesSeen = [n \in Nodes |-> "missing"]
  /\ csibmSeen = NoCsibmnodes
  /\ todo = {} /\ removing = {} /\ cur = NoNode /\ at = 1
  /\ nodeErr = FALSE /\ errs = FALSE
  /\ admin = 0 /\ faults = 0

-----------------------------------------------------------------------------
\* Reconcile

Fault == faults < MaxFaults /\ faults' = faults + 1
\* A request fails, or is answered.
Outcome(failed) == IF failed THEN Fault ELSE UNCHANGED faults

\* The copies of a reconcile are dropped with it.
\* (wrong variant: the list of nodes is kept)
DoneWithNodes ==
  /\ pc' = "idle" /\ UNCHANGED nodesSeen
  /\ csibmSeen' = NoCsibmnodes
  /\ todo' = {} /\ removing' = {} /\ cur' = NoNode /\ at' = 1
  /\ nodeErr' = FALSE /\ errs' = FALSE
Done ==
  /\ pc' = "idle"
  /\ nodesSeen' = [n \in Nodes |-> "missing"]
  /\ csibmSeen' = NoCsibmnodes
  /\ todo' = {} /\ removing' = {} /\ cur' = NoNode /\ at' = 1
  /\ nodeErr' = FALSE /\ errs' = FALSE

\* A write to the API server; the cache follows at once unless its informer is stalled.
Store(new) ==
  /\ csibm' = new
  /\ cache' = IF "csibmnode" \in stalled THEN cache ELSE new
SetPods(new) ==
  /\ pods' = new
  /\ podSeen' = IF "pods" \in stalled THEN podSeen ELSE new

Selected(n) == node[n].present /\ node[n].selected

ListNodes ==
  /\ pc = "idle" /\ queued
  /\ queued' = FALSE
  /\ nodesSeen' = [n \in Nodes |-> IF Selected(n) THEN node[n].taint ELSE "missing"]
  /\ returned' = {}
  /\ pc' = "listCsibmnodes"
  /\ UNCHANGED <<node, objects, caches, drained, blind, overlooked, stray, lost, csibmSeen, todo,
                 removing, cur, at, nodeErr, errs, admin, faults>>

\* Both lists: "if err != nil { return nil }", so nothing is retried.
ListFails ==
  /\ Fault
  /\ \/ pc = "idle" /\ queued /\ queued' = FALSE
     \/ pc = "listCsibmnodes" /\ UNCHANGED queued
  /\ blind' = TRUE
  /\ Done
  /\ UNCHANGED <<node, objects, caches, drained, returned, overlooked, stray, lost, admin>>

HasNode(n)  == nodesSeen[n] # "missing"
HasTaint(n) == nodesSeen[n] = "drain"
\* (wrong variants: remove without the label; remove although the node is there)
RemovesUnlabelled(c, n) == c[n].exists /\ ~HasNode(n)
RemovesPresent(c, n) == c[n].exists /\ c[n].label
ToRemove(c, n) == c[n].exists /\ c[n].label /\ ~HasNode(n)
\* (wrong variant: the label is never taken back)
LabelOnly(c, n) == c[n].exists /\ HasNode(n) /\ ~c[n].label /\ HasTaint(n)
ToLabel(c, n) == c[n].exists /\ HasNode(n) /\ c[n].label # HasTaint(n)

ListCsibmnodes ==
  /\ pc = "listCsibmnodes"
  /\ csibmSeen' = cache
  /\ removing' = {n \in Nodes : ToRemove(cache, n)}
  /\ todo' = {n \in Nodes : ToLabel(cache, n)}
  /\ blind' = FALSE /\ overlooked' = {n \in Nodes : cache[n] # csibm[n]}
  /\ pc' = "label"
  /\ UNCHANGED <<node, objects, caches, drained, returned, stray, lost, queued, nodesSeen, cur, at,
                 nodeErr, errs, admin, faults>>

\* Update of one csibmnode; the API server refuses any version but the latest.
UpdateLabel(n) ==
  /\ pc = "label" /\ n \in todo
  /\ todo' = todo \ {n}
  /\ \E failed \in BOOLEAN :
       /\ Outcome(failed)
       /\ IF ~failed /\ csibm[n].exists /\ csibmSeen[n].rv = csibm[n].rv
          THEN /\ Store([csibm EXCEPT ![n] = Csibmnode(TRUE, HasTaint(n), @.rv + 1)])
               /\ UNCHANGED errs
          ELSE errs' = TRUE /\ UNCHANGED <<csibm, cache>>
  /\ UNCHANGED <<node, pods, res, podSeen, resSeen, stalled, history, queued, pc, nodesSeen,
                 csibmSeen, removing, cur, at, nodeErr, admin>>

\* An error with any label postpones all removals.
EndLabels ==
  /\ pc = "label" /\ todo = {}
  /\ pc' = IF errs THEN "maintain" ELSE "remove"
  /\ UNCHANGED <<node, objects, caches, history, queued, nodesSeen, csibmSeen, todo, removing,
                 cur, at, nodeErr, errs, admin, faults>>

\* (wrong variant: the pod check is left out)
IgnorePods(n) == FALSE
DaemonsetPodRunning(n) == "daemonset" \in podSeen[n]

\* (history: a look at the pods of kind p of these nodes misses those the cache does not show)
Unseen(ns, p) == {<<n, p>> : n \in {m \in ns : p \in pods[m] \ podSeen[m]}}

\* removeNodes: a node whose pod runs, or cannot be checked, is an error.
CheckPods(n) ==
  /\ pc = "remove" /\ n \in removing
  /\ \E failed \in BOOLEAN :
       /\ Outcome(failed)
       /\ IF failed \/ DaemonsetPodRunning(n)
          THEN /\ removing' = removing \ {n} /\ errs' = TRUE
               /\ UNCHANGED <<pc, cur>>
          ELSE /\ cur' = n /\ pc' = "delete"
               /\ UNCHANGED <<removing, errs>>
  /\ stray' = stray \cup Unseen({n}, "daemonset")
  /\ UNCHANGED <<node, objects, caches, drained, returned, blind, overlooked, lost, queued,
                 nodesSeen, csibmSeen, todo, at, nodeErr, admin>>

\* deleteObject: clear the finalizers, if any, then delete whatever came of it.
\* A dying object vanishes with its finalizers, and the second request fails.
Deleted(o, cleared, gone) ==
  CASE o = "absent"            -> "absent"
    [] o = "dying"             -> IF cleared THEN "absent" ELSE "dying"
    [] o = "held" /\ ~cleared  -> IF gone THEN "dying" ELSE "held"
    [] OTHER                   -> IF gone THEN "absent" ELSE "free"

\* The copy that is read: an older version cannot be updated, but deleted by name; of an
\* object that is gone the deletion fails; one that is not listed is not deleted.
Left(o, view, cleared, gone) ==
  IF view \in {"current", "outdated"} THEN Deleted(o, cleared, gone) ELSE o
Erred(o, view, cleared, gone) ==
  \/ ~gone \/ view \in {"outdated", "gone"}
  \/ view = "current" /\ (~cleared \/ o = "dying")
\* What a stalled informer still shows of it.
View(k, view, o, left) ==
  IF left = o THEN view ELSE IF k \notin stalled THEN "current"
  ELSE IF left = "absent" THEN "gone" ELSE "outdated"

\* One of deleteDrives, deleteACs, deleteLVGs, deleteVolumes, whose list or requests may
\* fail; its error does not keep the next from being tried.
DeleteResources ==
  /\ pc = "delete" /\ at <= 4
  /\ LET k    == KindOrder[at]
         o    == res[cur][k]
         view == resSeen[cur][k]
     IN \E cleared, gone \in BOOLEAN :
          LET left  == Left(o, view, cleared, gone)
              erred == Erred(o, view, cleared, gone)
          IN /\ IF view = "current" THEN cleared \/ o \in {"held", "dying"} ELSE ~cleared
             /\ Outcome(~gone \/ (view = "current" /\ ~cleared))
             /\ res' = [res EXCEPT ![cur][k] = left]
             /\ resSeen' = [resSeen EXCEPT ![cur][k] = View(k, view, o, left)]
             /\ nodeErr' = (nodeErr \/ erred)
             /\ lost' = IF left = "absent" THEN lost \ {<<cur, k>>}
                        ELSE IF erred THEN lost ELSE lost \cup {<<cur, k>>}
  /\ at' = at + 1
  /\ UNCHANGED <<node, csibm, pods, cache, podSeen, stalled, drained, returned, blind, overlooked,
                 stray, queued, pc, nodesSeen, csibmSeen, todo, removing, cur, errs, admin>>

\* (wrong variant: the csibmnode goes although one of its resources is left)
IgnoreErrors == TRUE
AllDeleted == ~nodeErr

\* "we don't clean csibmnode after getting some errors to retry on next reconcile"
DeleteCsibmnode ==
  /\ pc = "delete" /\ at = 5
  /\ \E failed \in BOOLEAN :
       /\ Outcome(failed)
       /\ IF AllDeleted /\ ~failed /\ csibm[cur].exists
          THEN Store([csibm EXCEPT ![cur] = Csibmnode(FALSE, FALSE, @.rv + 1)])
               /\ UNCHANGED errs
          ELSE errs' = TRUE /\ UNCHANGED <<csibm, cache>>
  /\ pc' = "remove" /\ removing' = removing \ {cur}
  /\ cur' = NoNode /\ at' = 1 /\ nodeErr' = FALSE
  /\ UNCHANGED <<node, pods, res, podSeen, resSeen, stalled, history, queued, nodesSeen,
                 csibmSeen, todo, admin>>

EndRemoval ==
  /\ pc = "remove" /\ removing = {}
  /\ pc' = "maintain"
  /\ UNCHANGED <<node, objects, caches, history, queued, nodesSeen, csibmSeen, todo, removing,
                 cur, at, nodeErr, errs, admin, faults>>

ToEvict(n) == nodesSeen[n] = "planned-downtime"

\* (wrong variants: the errors of handleNodeMaintenance, of handleNodeRemoval are not returned)
RemovalFailed(kept) == errs
MaintenanceFailed(kept) == kept # {}
Failed(kept) == errs \/ kept # {}

\* handleNodeMaintenance: DaemonSet pods stay. The list or a deletion fails for the nodes in
\* kept; the deletion of a pod that has gone fails as well. The end of Reconcile: with an
\* error anywhere the CR goes back to the queue. (A deployment's status changes with its pods.)
MaintainNodes ==
  /\ pc = "maintain"
  /\ LET visited == {n \in Nodes : ToEvict(n)}
         shown   == {n \in visited : "replica" \in podSeen[n]}
     IN \E kept \in SUBSET visited :
          /\ Outcome(kept # {})
          /\ SetPods([n \in Nodes |-> IF n \in shown \ kept THEN pods[n] \ {"replica"} ELSE pods[n]])
          /\ queued' = \/ queued \/ pods' # pods
                       \/ Failed(kept \cup {n \in shown : "replica" \notin pods[n]})
          /\ stray' = {x \in stray : x[1] \notin visited \/ x[2] # "replica"}
                       \cup Unseen(visited, "replica")
  /\ Done
  /\ UNCHANGED <<node, csibm, res, cache, resSeen, stalled, drained, returned, blind, overlooked,
                 lost, admin>>

-----------------------------------------------------------------------------
\* Administrators, Kubernetes, the driver, the operator's process and informers.

Admin == admin < MaxAdmin /\ admin' = admin + 1
\* The node watch asks for the selector's label on the old or the new object.
\* (wrong variant: changes of taints and deletions enqueue nothing)
NodeEventFiltered(n) == UNCHANGED queued
NodeEvent(n) == queued' = (queued \/ node[n].selected)
Around == UNCHANGED <<pc, nodesSeen, csibmSeen, todo, removing, cur, at, nodeErr, errs>>

SetTaint(n, taint) ==
  /\ node[n].present /\ node[n].taint # taint /\ Admin
  /\ node' = [node EXCEPT ![n].taint = taint]
  /\ drained' = IF taint = "drain" THEN drained \cup {n} ELSE drained
  /\ NodeEvent(n) /\ Around
  /\ UNCHANGED <<objects, caches, returned, blind, overlooked, stray, lost, faults>>

DeleteNode(n) ==
  /\ node[n].present /\ Admin
  /\ node' = [node EXCEPT ![n] = [@ EXCEPT !.present = FALSE, !.taint = "none"]]
  /\ NodeEvent(n) /\ Around
  /\ UNCHANGED <<objects, caches, history, faults>>

\* A deleted node comes back under its name.
AddNode(n) ==
  /\ ~node[n].present /\ Admin
  /\ node' = [node EXCEPT ![n] = [@ EXCEPT !.present = TRUE]]
  /\ returned' = returned \cup {n}
  /\ NodeEvent(n) /\ Around
  /\ UNCHANGED <<objects, caches, drained, blind, overlooked, stray, lost, faults>>

\* A node loses the label of the CR's node selector, or gets it back.
RelabelNode(n) ==
  /\ node[n].present /\ Admin
  /\ node' = [node EXCEPT ![n] = [@ EXCEPT !.selected = ~node[n].selected]]
  /\ returned' = returned \cup {n}
  /\ queued' = TRUE /\ Around
  /\ UNCHANGED <<objects, caches, drained, blind, overlooked, stray, lost, faults>>

\* The worker has passed the check of n's pods, or no csibmnode leads to n any more.
Behind(n) == ~csibm[n].exists \/ (pc = "delete" /\ cur = n)

\* A pod ends, or starts where no taint keeps it away; its daemon set's or
\* deployment's status changes with it, which enqueues the owner.
PodStops(n, p) ==
  /\ p \in pods[n] /\ SetPods([pods EXCEPT ![n] = @ \ {p}])
  /\ (node[n].present => Admin) /\ (~node[n].present => UNCHANGED admin)
  /\ stray' = stray \ {<<n, p>>}
  /\ queued' = TRUE /\ Around
  /\ UNCHANGED <<node, csibm, res, cache, resSeen, stalled, drained, returned, blind, overlooked,
                 lost, faults>>

PodStarts(n, p) ==
  /\ node[n].present /\ node[n].taint = "none" /\ p \notin pods[n]
  /\ SetPods([pods EXCEPT ![n] = @ \cup {p}])
  /\ stray' = IF p = "daemonset" /\ Behind(n) THEN stray \cup {<<n, p>>} ELSE stray
  /\ queued' = TRUE /\ Around
  /\ UNCHANGED <<node, csibm, res, cache, resSeen, stalled, drained, returned, blind, overlooked,
                 lost, admin, faults>>

\* The driver's pod discovers drives and capacity, and serves volumes.
DriverCreates(n, k) ==
  /\ "daemonset" \in pods[n] /\ res[n][k] = "absent"
  /\ res' = [res EXCEPT ![n][k] = NewObject(k)]
  /\ resSeen' = IF k \in stalled /\ resSeen[n][k] = "current"
                THEN [resSeen EXCEPT ![n][k] = "unlisted"] ELSE resSeen
  /\ lost' = IF Behind(n) /\ <<n, "daemonset">> \in stray THEN lost \cup {<<n, k>>} ELSE lost
  /\ Around
  /\ UNCHANGED <<node, csibm, pods, cache, podSeen, stalled, drained, returned, blind, overlooked,
                 stray, queued, admin, faults>>

\* The driver's node controller registers a node it does not know.
\* Nothing watches csibmnodes.
RegisterNode(n) ==
  /\ node[n].present /\ ~csibm[n].exists
  /\ Store([csibm EXCEPT ![n] = Csibmnode(TRUE, FALSE, @.rv + 1)])
  /\ overlooked' = overlooked \cup {n}
  /\ Around
  /\ UNCHANGED <<node, pods, res, podSeen, resSeen, stalled, drained, returned, blind, stray, lost,
                 queued, admin, faults>>

\* An informer falls behind; when it delivers again, it shows what is there.
Stall(x) ==
  /\ x \notin stalled /\ Fault
  /\ stalled' = stalled \cup {x}
  /\ Around
  /\ UNCHANGED <<node, objects, cache, podSeen, resSeen, history, queued, admin>>

CatchUp(x) ==
  /\ x \in stalled
  /\ stalled' = stalled \ {x}
  /\ cache' = IF x = "csibmnode" THEN csibm ELSE cache
  /\ podSeen' = IF x = "pods" THEN pods ELSE podSeen
  /\ resSeen' = [n \in Nodes |-> [k \in KindNames |-> IF k = x THEN "current" ELSE resSeen[n][k]]]
  /\ Around
  /\ UNCHANGED <<node, objects, history, queued, admin, faults>>

Restart ==
  /\ pc # "idle" /\ Fault
  /\ Done /\ queued' = TRUE
  /\ cache' = csibm /\ podSeen' = pods /\ stalled' = {}
  /\ resSeen' = [n \in Nodes |-> [k \in KindNames |-> "current"]]
  /\ UNCHANGED <<node, objects, history, admin>>

-----------------------------------------------------------------------------
Reconcile ==
  \/ ListNodes \/ ListCsibmnodes \/ EndLabels \/ DeleteResources \/ DeleteCsibmnode
  \/ EndRemoval \/ MaintainNodes
  \/ \E n \in Nodes : UpdateLabel(n) \/ CheckPods(n)

\* The pods of a Node that is gone are removed.
PodGC == \E n \in Nodes, p \in PodKinds : ~node[n].present /\ PodStops(n, p)

Environment ==
  \/ \E n \in Nodes : \/ DeleteNode(n) \/ AddNode(n) \/ RelabelNode(n) \/ RegisterNode(n)
                       \/ \E taint \in Taints : SetTaint(n, taint)
                       \/ \E p \in PodKinds : PodStops(n, p) \/ PodStarts(n, p)
                       \/ \E k \in Kinds : DriverCreates(n, k)
  \/ \E x \in Informers : Stall(x) \/ CatchUp(x)
  \/ Restart

Next == Reconcile \/ ListFails \/ Environment

Spec == Init /\ [][Next]_vars

\* Requests end, informers catch up, pods of deleted nodes end. Faults are bounded;
\* nothing is promised about administrators.
Fairness ==
  /\ WF_vars(Reconcile) /\ WF_vars(PodGC)
  /\ \A x \in Informers : WF_vars(CatchUp(x))
FairSpec == Spec /\ Fairness

-----------------------------------------------------------------------------
\* Properties

\* A step in which the operator deletes something of n's.
Removal(n) ==
  \/ csibm[n].exists /\ ~csibm'[n].exists
  \/ \E k \in Kinds : res[n][k] # "absent" /\ res'[n][k] \in {"absent", "dying"} \ {res[n][k]}

\* Nothing is deleted of a node no administrator has ever tainted for removal,
\* however stale the lists, whatever failed, comes back or is deselected.
OnlyDrainedRemoved == [][\A n \in Nodes : Removal(n) => n \in drained]_vars

\* "if csibmnode is labeled and k8sNode is deleted": nothing is deleted of a node that is in
\* the cluster, except of one that came back within the reconcile that deletes.
OnlyDeletedRemoved ==
  [][\A n \in Nodes : Removal(n) => ~node[n].present \/ n \in returned]_vars

\* What the code promises of it: nothing is deleted of a node that is in the cluster with
\* the selector's label, however often nodes come back, are relabelled and tainted, except
\* of one that did so within the reconcile that deletes, which goes by its list.
OnlyGoneRemoved ==
  [][\A n \in Nodes : Removal(n) => ~Selected(n) \/ n \in returned]_vars

\* The csibmnode, which alone leads to a node's resources, is the last to go: after failed
\* deletions, restarts, stale caches and a driver that still creates objects, exactly those
\* are left that no list showed in time, or that a driver created which was not seen to run
\* when the worker looked, or started later.
NoOrphans ==
  \A n \in Nodes :
     csibm[n].exists \/ \A k \in Kinds : res[n][k] = "absent" \/ <<n, k>> \in lost

\* Removal as a whole: nothing of a node goes before it has been drained and was missing in
\* this reconcile's list, the csibmnode goes when nothing is left that the operator could
\* know of, and nothing else is created for a node once it is forgotten, by a worker that
\* goes by lists taken before the node's driver, caches, label and taints have moved on.
Managed    == {n \in Nodes : Selected(n)}
Missing    == {n \in Nodes : pc # "idle" /\ nodesSeen[n] = "missing"}
Registered == {n \in Nodes : csibm[n].exists}
Kept       == [n \in Nodes |-> {k \in Kinds : res[n][k] # "absent" /\ <<n, k>> \notin lost}]
Removals == INSTANCE NodeRemoval WITH
  managed <- Managed, missing <- Missing, registered <- Registered, kept <- Kept
RemovalImplemented == Removals!Spec

\* When the reconciler rests, no removal is pending, unless its last list failed (whose error
\* it drops) or did not show the csibmnode as it was: whatever else postponed a removal has
\* left a request in the queue.
RemovedAtRest ==
  (pc = "idle" /\ ~queued)
     => \A n \in Nodes : csibm[n].label => node[n].present \/ blind \/ n \in overlooked

\* The reconciler rests although its last lists did not tell it of n; nothing but the next
\* event of something else makes it look again.
Forgotten(n) == pc = "idle" /\ ~queued /\ (blind \/ n \in overlooked)

\* A labelled csibmnode whose Node is deleted is removed, unless the Node comes back
\* or the label is taken back (the taint was removed shortly before the Node), or it is
\* forgotten by a list that failed or was outdated.
RemovedEventually ==
  \A n \in Nodes :
     (csibm[n].label /\ ~node[n].present)
        ~> (~csibm[n].exists \/ ~csibm[n].label \/ node[n].present \/ Forgotten(n))

\* The label follows the drain taint, both ways, whatever request fails, is refused or is
\* overtaken, unless the csibmnode is forgotten by a list that failed or was outdated, or
\* was registered after it: nothing watches csibmnodes.
LabelFollowsTaint ==
  \A n \in Nodes, t \in BOOLEAN :
     (Selected(n) /\ csibm[n].exists /\ (node[n].taint = "drain") = t)
        ~> (csibm[n].label = t \/ (node[n].taint = "drain") # t \/ ~Selected(n)
            \/ ~csibm[n].exists \/ Forgotten(n))

\* A node under maintenance loses its replica pods, although evictions fail and removals of
\* other nodes have to wait, unless a list failed or did not show the pod.
MaintenanceEvicts ==
  \A n \in Nodes : (Selected(n) /\ node[n].taint = "planned-downtime")
     ~> (\/ "replica" \notin pods[n] \/ node[n].taint # "planned-downtime" \/ ~Selected(n)
         \/ pc = "idle" /\ ~queued /\ (blind \/ <<n, "replica">> \in stray))
=============================================================================
