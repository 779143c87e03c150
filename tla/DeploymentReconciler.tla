------------------------ MODULE DeploymentReconciler ------------------------
(***************************************************************************)
(* The reconciler of the Deployment custom resource (CR):                  *)
(* controllers/deployment_controller.go and the calls it makes in          *)
(* pkg/csi_deployment.go, down to one API request per action.              *)
(*                                                                         *)
(* One worker (MaxConcurrentReconciles: 1) takes the request from the      *)
(* queue, reads the CR from the informer cache, and either installs the    *)
(* components in a fixed order or uninstalls and drops its finalizer.      *)
(* Around it, users edit and delete the CR, the garbage collector removes  *)
(* owned objects, the caches lag, requests fail and the operator restarts. *)
(*                                                                         *)
(* The CR and OpenShift's Scheduler are read from informer caches, all     *)
(* else as stored. The worker writes the Scheduler only when its copy asks *)
(* for it and the API server only takes a write of the latest version, so  *)
(* the copy is at most one write behind: a Boolean is enough for it.       *)
(***************************************************************************)
EXTENDS Naturals, FiniteSets

CONSTANTS
  Nodes,             \* nodes matched by the CR's node selector
  OpenShift,         \* spec.platform: OpenShift (kube-scheduler policy) or vanilla/RKE
  Patching,          \* the spec versions with scheduler.patcher.enable
  SecurityChecked,   \* the SCC / PSP verification of service accounts is on
  MaxSpec,           \* bound: spec versions of one CR
  MaxCreations,      \* bound: how often the CR is created
  MaxFaults          \* bound: failed requests, restarts and disturbances

ASSUME ReconcilerAssumption ==
  /\ OpenShift \in BOOLEAN /\ SecurityChecked \in BOOLEAN
  /\ {MaxCreations, MaxFaults} \subseteq Nat /\ MaxSpec \in Nat \ {0}
  /\ Patching \subseteq Nat

VARIABLES
  cr,         \* the CR in the API server
  cache,      \* the CR in the operator's informer cache
  queued,     \* the request is in the work queue
  pc,         \* the request the worker is about to make ("idle": no reconcile)
  seen,       \* the worker's copy of the CR
  retrying,   \* UpdateReadinessConfigMap has restarted the patching
  errs,       \* unPatchOpenShift has collected an error (read by the retry only)
  applied,    \* the objects the operator has written
  labelled,   \* nodes that carry the platform label
  patched,    \* OpenShift's Scheduler resource names the CSI policy
  patchSeen,  \* it does in the operator's informer cache
  missed,     \* history: what the worker could not or did not see that it had to undo
              \* or (patch) to do
  granted,    \* service accounts bound to the roles the verifiers ask for
  creations, faults

worker == <<queued, pc, seen, retrying, errs>>
world  == <<applied, labelled, patched, missed>>
caches == <<cache, patchSeen>>
bounds == <<creations, faults>>
vars   == <<cr, caches, worker, world, granted, bounds>>

CSI        == "csi-deployment-cleanup"
Foreground == "foregroundDeletion"

\* uid 0 stands for "not found"; spec is the version of the spec's content.
NoCR == [uid |-> 0, rv |-> 0, spec |-> 0, deleting |-> FALSE, fin |-> {}]
CRs  == [uid: Nat, rv: Nat, spec: 0 .. MaxSpec, deleting: BOOLEAN, fin: SUBSET {CSI, Foreground}]
Exists(c) == c.uid # 0

\* spec 0 stands for "no such object"; owner is the uid of its ownerReference.
NoObject == [owner |-> 0, spec |-> 0]
Objects  == {"nodeController", "node", "controller", "extender", "readiness",
             "patcherConfig", "patcher", "policy"}
Accounts == {"node", "scheduler"}
Present(o) == applied[o].spec # 0

InstallStages ==
  {"nodeController", "nodeLabels", "node", "controller", "extender", "patchConfig",
   "patch", "readiness", "deletePatcher", "deletePatcherConfig", "reconcileNodes"}
UninstallStages == {"unlabel", "removeFinalizer"}
UnpatchStages   == {"deletePolicy", "unpatchScheduler"}  \* both Uninstall and retry
\* What outlives a CR unless it is undone, and a patch that a stale copy makes needless.
Missable == {"labels", "policy", "patched", "patch"}
Stages == {"idle", "addFinalizer"} \cup InstallStages \cup UnpatchStages \cup UninstallStages

\* The types of the variables; an idle worker holds no copy of the CR.
TypeOK ==
  /\ cr \in CRs /\ cache \in CRs /\ seen \in CRs
  /\ pc \in Stages /\ (pc = "idle" => seen = NoCR /\ ~retrying)
  /\ queued \in BOOLEAN /\ retrying \in BOOLEAN /\ errs \in BOOLEAN
  /\ patched \in BOOLEAN /\ patchSeen \in BOOLEAN /\ missed \subseteq Missable
  /\ applied \in [Objects -> [owner: Nat, spec: Nat]]
  /\ labelled \subseteq Nodes /\ granted \subseteq Accounts
  /\ creations \in Nat /\ faults \in Nat

Init ==
  /\ cr = NoCR /\ cache = NoCR /\ seen = NoCR
  /\ pc = "idle" /\ queued = FALSE /\ retrying = FALSE /\ errs = FALSE
  /\ applied = [o \in Objects |-> NoObject]
  /\ labelled = {} /\ patched = FALSE /\ patchSeen = FALSE /\ missed = {}
  /\ granted \in IF SecurityChecked THEN SUBSET Accounts ELSE {{}}
  /\ creations = 0 /\ faults = 0

-----------------------------------------------------------------------------
\* Reconcile: steps of the worker.

Go(stage) == pc' = stage /\ UNCHANGED <<seen, retrying, errs>>
\* (wrong variants, for checking that the properties notice: the copy survives
\* the reconcile; a failed request is not retried)
ReturnWithCopy == pc' = "idle" /\ retrying' = FALSE /\ errs' = FALSE /\ UNCHANGED seen
Return    == pc' = "idle" /\ seen' = NoCR /\ retrying' = FALSE /\ errs' = FALSE
RequeueForgotten == Return /\ UNCHANGED queued
Requeue   == Return /\ queued' = TRUE
Fault     == faults < MaxFaults /\ faults' = faults + 1 /\ UNCHANGED creations

\* The service account is bound, or nobody asks.
Allowed(account) == SecurityChecked => account \in granted

\* Update functions of pkg/common: create with the CR as owner, or replace the
\* spec and keep the owner. A write to an owned object comes back as an event.
Content(o) == IF o = "readiness" THEN 1 ELSE seen.spec
Written(o) ==
  [owner |-> IF Present(o) THEN applied[o].owner
             ELSE IF o = "policy" THEN 0 ELSE seen.uid,
   spec  |-> Content(o)]
\* (history: what is installed for a CR that is being deleted and has lost the
\* operator's finalizer is not going to be undone)
Takes(x) == IF seen.deleting THEN missed \cup {x} ELSE missed \ {x}
Apply(o) ==
  /\ applied' = [applied EXCEPT ![o] = Written(o)]
  /\ queued' = (queued \/ (o # "policy" /\ applied[o] # Written(o)))
  /\ missed' = IF o = "policy" THEN Takes(o) ELSE missed
  /\ UNCHANGED <<labelled, patched>>
\* (wrong variant: no watch on the owned objects)
RemoveUnwatched(o) ==
  /\ applied' = [applied EXCEPT ![o] = NoObject]
  /\ missed' = missed \ {o} /\ UNCHANGED <<queued, labelled, patched>>
Remove(o) ==
  /\ applied' = [applied EXCEPT ![o] = NoObject]
  /\ queued' = (queued \/ o # "policy") /\ missed' = missed \ {o}
  /\ UNCHANGED <<labelled, patched>>

\* (wrong variants: install before the finalizer is stored; drop the finalizer
\* before Uninstall)
FirstStageUnguarded(c) ==
  IF ~c.deleting THEN "nodeController" ELSE IF CSI \in c.fin THEN "unlabel" ELSE "nodeController"
FirstStageDropsFinalizer(c) ==
  IF ~c.deleting
  THEN IF CSI \in c.fin THEN "nodeController" ELSE "addFinalizer"
  ELSE IF CSI \in c.fin THEN "removeFinalizer" ELSE "nodeController"
FirstStage(c) ==
  IF ~c.deleting
  THEN IF CSI \in c.fin THEN "nodeController" ELSE "addFinalizer"
  ELSE IF CSI \notin c.fin THEN "nodeController"
  ELSE IF OpenShift /\ c.spec \in Patching THEN "deletePolicy" ELSE "unlabel"

\* Take the request, read the CR from the cache; a missing CR ends the reconcile.
Get ==
  /\ pc = "idle" /\ queued
  /\ queued' = FALSE
  /\ IF Exists(cache) THEN seen' = cache /\ pc' = FirstStage(cache)
                      ELSE UNCHANGED <<seen, pc>>
  /\ UNCHANGED <<cr, caches, retrying, errs, world, granted, bounds>>

\* The API server takes an Update only of the version it holds.
\* (wrong variant: the copy is written without its resourceVersion)
CurrentUid(c) == c.uid = cr.uid
Current(c) == c.uid = cr.uid /\ c.rv = cr.rv

AddFinalizer ==
  /\ pc = "addFinalizer"
  /\ IF Current(seen)
     THEN /\ cr' = [seen EXCEPT !.rv = @ + 1, !.fin = @ \cup {CSI}]
          /\ seen' = cr' /\ pc' = "nodeController"
          /\ UNCHANGED <<queued, retrying, errs>>
     ELSE Requeue /\ UNCHANGED cr
  /\ UNCHANGED <<caches, world, granted, bounds>>

UpdateNodeController ==
  /\ pc = "nodeController"
  /\ Apply("nodeController") /\ Go("nodeLabels")
  /\ UNCHANGED <<cr, caches, granted, bounds>>

\* node.Update: nothing without the security binding; labels before daemon sets.
SkipNode ==
  /\ pc = "nodeLabels" /\ ~Allowed("node")
  /\ Go("controller")
  /\ UNCHANGED <<cr, caches, queued, world, granted, bounds>>

LabelNodes ==
  /\ pc = "nodeLabels" /\ Allowed("node")
  /\ \E done \in SUBSET Nodes :
       /\ labelled \subseteq done
       /\ labelled' = done /\ missed' = Takes("labels")
       /\ IF done = Nodes THEN Go("node") /\ UNCHANGED <<queued, bounds>>
                          ELSE Fault /\ Requeue
  /\ UNCHANGED <<cr, caches, applied, patched, granted>>

UpdateNode ==
  /\ pc = "node"
  /\ Apply("node") /\ Go("controller")
  /\ UNCHANGED <<cr, caches, granted, bounds>>

UpdateController ==
  /\ pc = "controller"
  /\ Apply("controller") /\ Go("extender")
  /\ UNCHANGED <<cr, caches, granted, bounds>>

UpdateExtender ==
  /\ pc = "extender"
  /\ IF Allowed("scheduler") THEN Apply("extender") ELSE UNCHANGED <<world, queued>>
  /\ Go(IF seen.spec \in Patching THEN "patchConfig" ELSE "reconcileNodes")
  /\ UNCHANGED <<cr, caches, granted, bounds>>

AfterPatch == IF retrying THEN "reconcileNodes" ELSE "readiness"

PatchConfig ==
  /\ pc = "patchConfig"
  /\ Apply(IF OpenShift THEN "policy" ELSE "patcherConfig") /\ Go("patch")
  /\ UNCHANGED <<cr, caches, granted, bounds>>

\* patchScheduler, patchSecondaryScheduler: nothing to do when the copy is patched; a
\* write by a copy that is out of date fails.
\* (wrong variant: the copy is believed not to be patched when it is, and not written)
PatchSchedulerSkipped ==
  /\ pc = "patch" /\ OpenShift
  /\ Go(AfterPatch) /\ UNCHANGED <<cr, caches, queued, world, granted, bounds>>
PatchScheduler ==
  /\ pc = "patch" /\ OpenShift
  /\ IF patched /\ ~patchSeen
     THEN Requeue /\ UNCHANGED <<patched, missed>>
     ELSE /\ patched' = (patched \/ ~patchSeen)
          /\ missed' = IF patchSeen = patched THEN Takes("patched") \ {"patch"}
                                              ELSE missed \cup {"patch"}
          /\ Go(AfterPatch) /\ UNCHANGED queued
  /\ UNCHANGED <<cr, caches, applied, labelled, granted, bounds>>

UpdateVanillaDaemonset ==
  /\ pc = "patch" /\ ~OpenShift
  /\ IF Allowed("scheduler") THEN Apply("patcher") ELSE UNCHANGED <<world, queued>>
  /\ Go(AfterPatch)
  /\ UNCHANGED <<cr, caches, granted, bounds>>

\* updateVanilla returns nil whatever its two parts return.
UpdateVanillaFails ==
  /\ pc \in {"patchConfig", "patch"} /\ ~OpenShift
  /\ Fault /\ Go(AfterPatch)
  /\ UNCHANGED <<cr, caches, queued, world, granted>>

WatchedConfig == IF OpenShift THEN "policy" ELSE "patcherConfig"

\* Without the watched configmap there is no creation time to compare with.
UpdateReadiness ==
  /\ pc = "readiness"
  /\ IF ~Present(WatchedConfig)
     THEN Requeue /\ UNCHANGED world
     ELSE /\ Apply("readiness")
          /\ \/ Go("reconcileNodes")
             \/ /\ pc' = IF OpenShift THEN "deletePolicy" ELSE "deletePatcher"
                /\ retrying' = TRUE        \* not all ready, timeout passed
                /\ UNCHANGED <<seen, errs>>
  /\ UNCHANGED <<cr, caches, granted, bounds>>

\* retryPatchVanilla: the first missing object ends it with an error.
RetryDelete(stage, o, next) ==
  /\ pc = stage
  /\ IF Present(o) THEN Remove(o) /\ Go(next) ELSE Requeue /\ UNCHANGED world
  /\ UNCHANGED <<cr, caches, granted, bounds>>
DeletePatcher       == RetryDelete("deletePatcher", "patcher", "deletePatcherConfig")
DeletePatcherConfig == RetryDelete("deletePatcherConfig", "patcherConfig", "patchConfig")

\* unPatchOpenShift: both parts are tried, their errors are collected.
DeletePolicy ==
  /\ pc = "deletePolicy"
  /\ \/ /\ Present("policy") /\ Remove("policy") /\ UNCHANGED <<errs, bounds>>
     \/ /\ ~Present("policy") /\ errs' = TRUE /\ missed' = missed \ {"policy"}
        /\ UNCHANGED <<applied, labelled, patched, queued, bounds>>
     \/ /\ Fault /\ errs' = TRUE /\ missed' = missed \cup {"policy"}
        /\ UNCHANGED <<applied, labelled, patched, queued>>
  /\ pc' = "unpatchScheduler" /\ UNCHANGED <<seen, retrying>>
  /\ UNCHANGED <<cr, caches, granted>>

\* unpatchScheduler finds nothing to do when the copy is not patched (and
\* unpatchSecondaryScheduler an error); a write by an outdated copy fails.
UnpatchScheduler ==
  /\ pc = "unpatchScheduler"
  /\ \E failed \in BOOLEAN, error \in BOOLEAN :
       /\ IF failed THEN Fault ELSE UNCHANGED bounds
       /\ patched' = (patched /\ (failed \/ ~patchSeen))
       /\ missed' = IF failed \/ patchSeen # patched THEN missed \cup {"patched"}
                                                     ELSE missed \ {"patched"}
       /\ patchSeen /\ ~failed => (error <=> ~patched)
       /\ IF retrying /\ (errs \/ failed \/ error) THEN Requeue
          ELSE Go(IF retrying THEN "patchConfig" ELSE "unlabel") /\ UNCHANGED queued
  /\ UNCHANGED <<cr, caches, applied, labelled, granted>>

\* node.Uninstall: a node whose update fails keeps its label, and nobody is told.
CleanNodeLabels ==
  /\ pc = "unlabel"
  /\ \E left \in SUBSET labelled :
       /\ labelled' = left
       /\ IF left = {} THEN missed' = missed \ {"labels"} /\ UNCHANGED bounds
                       ELSE missed' = missed \cup {"labels"} /\ Fault
  /\ Go("removeFinalizer")
  /\ UNCHANGED <<cr, caches, queued, applied, patched, granted>>

\* An object with a deletion timestamp and no finalizer left is gone.
Stored(c) == IF c.deleting /\ c.fin = {} THEN NoCR ELSE c

RemoveFinalizer ==
  /\ pc = "removeFinalizer"
  /\ IF Current(seen)
     THEN /\ cr' = Stored([seen EXCEPT !.rv = @ + 1, !.fin = @ \ {CSI}])
          /\ Return /\ UNCHANGED queued
     ELSE Requeue /\ UNCHANGED cr
  /\ UNCHANGED <<caches, world, granted, bounds>>

\* The node operations of ReconcileNodes are module NodeOperations.
ReconcileNodes ==
  /\ pc = "reconcileNodes"
  /\ Return
  /\ UNCHANGED <<cr, caches, queued, world, granted, bounds>>

\* Every other failing request sends the CR back to the queue.
Fail ==
  /\ pc \notin {"idle", "nodeLabels", "unlabel"} \cup UnpatchStages
  /\ pc \in {"patchConfig", "patch"} => OpenShift
  /\ Fault /\ Requeue
  /\ UNCHANGED <<cr, caches, world, granted>>

-----------------------------------------------------------------------------
\* Users, the API server, the garbage collector, the operator's process.

Create ==
  /\ ~Exists(cr) /\ creations < MaxCreations
  /\ creations' = creations + 1
  /\ cr' = [NoCR EXCEPT !.uid = creations + 1, !.rv = 1, !.spec = 1]
  /\ UNCHANGED <<caches, worker, world, granted, faults>>

Edit ==
  /\ Exists(cr) /\ cr.spec < MaxSpec
  /\ cr' = [cr EXCEPT !.rv = @ + 1, !.spec = @ + 1]
  /\ UNCHANGED <<caches, worker, world, granted, bounds>>

Delete ==
  /\ Exists(cr) /\ ~cr.deleting
  /\ \E extra \in SUBSET {Foreground} :
       cr' = Stored([cr EXCEPT !.rv = @ + 1, !.deleting = TRUE, !.fin = @ \cup extra])
  /\ UNCHANGED <<caches, worker, world, granted, bounds>>

\* The informer delivers the CR's latest state and its handler enqueues it.
Sync ==
  /\ cache # cr
  /\ cache' = cr /\ queued' = TRUE
  /\ UNCHANGED <<cr, patchSeen, pc, seen, retrying, errs, world, granted, bounds>>

\* The Scheduler's informer delivers its latest state; no handler is registered.
SyncScheduler ==
  /\ patchSeen # patched
  /\ patchSeen' = patched
  /\ UNCHANGED <<cr, cache, worker, world, granted, bounds>>

ForegroundDeletion == cr.deleting /\ Foreground \in cr.fin
Owned(o) == Present(o) /\ applied[o].owner # 0

CollectGarbage(o) ==
  /\ Owned(o) /\ (applied[o].owner # cr.uid \/ ForegroundDeletion)
  /\ Remove(o)
  /\ UNCHANGED <<cr, caches, pc, seen, retrying, errs, granted, bounds>>

FinishForeground ==
  /\ ForegroundDeletion /\ ~\E o \in Objects : Owned(o)
  /\ cr' = Stored([cr EXCEPT !.rv = @ + 1, !.fin = @ \ {Foreground}])
  /\ UNCHANGED <<caches, worker, world, granted, bounds>>

\* Somebody deletes an owned object: the owner watch enqueues.
Disturb(o) ==
  /\ Owned(o) /\ Fault
  /\ Remove(o)
  /\ UNCHANGED <<cr, caches, pc, seen, retrying, errs, granted>>

\* The watches on nodes and bindings map an event to the CRs in the cache.
Notify == queued' = (queued \/ Exists(cache))

\* A node is replaced, or loses its label: isNodeChanged.
LoseLabel(n) ==
  /\ n \in labelled /\ Fault
  /\ labelled' = labelled \ {n} /\ Notify
  /\ UNCHANGED <<cr, caches, pc, seen, retrying, errs, applied, patched, missed, granted>>

ChangeBinding(account) ==
  /\ SecurityChecked /\ Fault
  /\ granted' = IF account \in granted THEN granted \ {account} ELSE granted \cup {account}
  /\ Notify
  /\ UNCHANGED <<cr, caches, pc, seen, retrying, errs, world>>

\* Status updates of owned objects, scheduler pods, resync.
StatusEvent ==
  /\ ~queued /\ Notify
  /\ UNCHANGED <<cr, caches, pc, seen, retrying, errs, world, granted, bounds>>

\* The process dies between two requests; the new one lists the CR and the Scheduler.
Restart ==
  /\ pc # "idle" \/ cache # cr \/ patchSeen # patched
  /\ Fault /\ Return
  /\ cache' = cr /\ patchSeen' = patched /\ queued' = Exists(cr)
  /\ UNCHANGED <<cr, world, granted>>

-----------------------------------------------------------------------------
\* The worker when its requests are answered.
Reconcile ==
  \/ Get \/ AddFinalizer \/ UpdateNodeController \/ SkipNode \/ LabelNodes
  \/ UpdateNode \/ UpdateController \/ UpdateExtender \/ PatchConfig
  \/ PatchScheduler \/ UpdateVanillaDaemonset \/ UpdateReadiness \/ DeletePatcher
  \/ DeletePatcherConfig \/ DeletePolicy \/ UnpatchScheduler \/ CleanNodeLabels
  \/ RemoveFinalizer \/ ReconcileNodes

GarbageCollector == FinishForeground \/ \E o \in Objects : CollectGarbage(o)

Environment ==
  \/ Create \/ Edit \/ Delete \/ StatusEvent \/ Restart
  \/ \E o \in Objects : Disturb(o)
  \/ \E n \in Nodes : LoseLabel(n)
  \/ \E account \in Accounts : ChangeBinding(account)

Next ==
  \/ Reconcile \/ Fail \/ UpdateVanillaFails \/ Sync \/ SyncScheduler
  \/ GarbageCollector \/ Environment

Spec == Init /\ [][Next]_vars

\* Requests end, watch events arrive, the garbage collector runs. Nothing is
\* promised about users, and faults are bounded.
Fairness ==
  WF_vars(Reconcile) /\ WF_vars(Sync) /\ WF_vars(SyncScheduler) /\ WF_vars(GarbageCollector)
FairSpec == Spec /\ Fairness

-----------------------------------------------------------------------------
\* Properties

\* What garbage collection does not remove - platform labels, the kube-scheduler policy
\* and its patch - except what the last uninstallation could not undo, did not see in
\* its copy of the Scheduler, or came before.
SideEffects ==
  \/ labelled # {} /\ "labels" \notin missed
  \/ patched /\ "patched" \notin missed
  \/ Present("policy") /\ "policy" \notin missed

\* It exists only while a CR holds the finalizer whose removal undoes it: finalizer
\* first, every part of Uninstall before its removal, also when another part has failed.
\* An excuse lasts until the next look: a later CR takes over what an earlier one left.
SideEffectsGuarded == SideEffects => Exists(cr) /\ CSI \in cr.fin

\* Nothing is being done or is about to be done for the CR.
Quiescent == pc = "idle" /\ ~queued /\ cache = cr
Live == Exists(cr) /\ ~cr.deleting

CoreApplied ==
  /\ applied["nodeController"].spec = cr.spec
  /\ applied["controller"].spec = cr.spec
  /\ Allowed("node") => applied["node"].spec = cr.spec /\ labelled = Nodes
  /\ Allowed("scheduler") => applied["extender"].spec = cr.spec
  /\ (OpenShift /\ cr.spec \in Patching)
       => applied["policy"].spec = cr.spec /\ (patched \/ "patch" \in missed)

\* When the reconciler rests with a live CR, its finalizer is set and every
\* component that may be deployed is deployed at the CR's spec: no event that
\* undoes part of the installation is left without a request in the queue. (Except that a
\* Scheduler patched in the worker's copy but no longer in fact is not patched: nobody
\* watches it.)
ConvergedAtRest == Quiescent /\ Live => CSI \in cr.fin /\ CoreApplied

\* Uninstall "cleans CSI": once the CR is gone, what it cleaned stays clean.
UninstallCleans == ~Exists(cr) => ~SideEffects

\* The operator writes back its possibly stale copy of the whole CR; a spec a
\* user has stored is never replaced by an older one.
EditsKept == [][cr'.uid = cr.uid => cr'.spec >= cr.spec]_vars

\* Every object is created for a CR that still exists, although the worker goes by
\* a copy taken long before: the finalizer keeps the CR until the worker is done. (Not
\* those installed again for a CR that foreground deletion still holds.)
OwnersExist ==
  [][\A o \in Objects \ {"policy"} :
        ~Present(o) /\ Present(o)' /\ ~seen.deleting
          => Exists(cr) /\ applied'[o].owner = cr.uid]_vars

\* The reconciler implements the finalizer protocol, with what garbage collection does not
\* remove for the cluster: no step changes that without the guard, and the guard is given
\* up in one step with the CR, from a clean cluster, although the worker has gone by a copy
\* of the CR since its uninstallation began.
InScheduler == {"patched", "policy"}
Outliving ==
  [labels    |-> IF "labels" \in missed THEN {} ELSE labelled,
   scheduler |-> {x \in InScheduler \ missed :
                    IF x = "patched" THEN patched ELSE Present("policy")}]
Protocol ==
  INSTANCE FinalizerGuard WITH
    NoOwner <- 0, Clean <- [labels |-> {}, scheduler |-> {}],
    owner <- cr.uid, leaving <- cr.deleting, guarded <- CSI \in cr.fin, cluster <- Outliving
GuardImplemented == Protocol!Spec

\* A deleted CR disappears, whatever failed on the way. (With the foreground policy
\* the operator, which installs again once its finalizer is gone, and the garbage
\* collector may outrun each other for ever.)
DeletionCompletes ==
  \A u \in 1 .. MaxCreations :
     (cr.uid = u /\ cr.deleting /\ Foreground \notin cr.fin) ~> (cr.uid # u)

\* A stored spec is applied, or is replaced by another one.
SpecApplied ==
  \A u \in 1 .. MaxCreations, s \in 1 .. MaxSpec :
     (cr.uid = u /\ cr.spec = s /\ Live) ~> (CoreApplied \/ cr.uid # u \/ cr.spec # s \/ cr.deleting)
=============================================================================
