--------------------- MODULE DeploymentReconcilerProofs ---------------------
(***************************************************************************)
(* Type correctness, what the CR's finalizer guards, what a resting        *)
(* reconciler has applied, that edits are kept and objects are created for *)
(* a CR that exists, the refinement of FinalizerGuard by                   *)
(* DeploymentReconciler, and that a reconcile ends, for any number of      *)
(* nodes, CR versions and faults.                                          *)
(***************************************************************************)
EXTENDS DeploymentReconciler, TLAPS

USE DEF caches

-----------------------------------------------------------------------------
\* The inductive invariant

Unpatching == pc \in UnpatchStages /\ ~retrying
Installing == pc \in InstallStages \/ (pc \in UnpatchStages /\ retrying)
Removing   == pc \in UninstallStages \/ Unpatching

\* CRs are numbered in the order of their creation.
UidBound == cr.uid <= creations /\ cache.uid <= creations /\ seen.uid <= creations

\* A copy of the CR is as old as its resourceVersion says.
Versioned(c) == c.uid = cr.uid => c.rv <= cr.rv /\ (c.rv = cr.rv => c = cr)

\* A stored CR. One that is being deleted is held by a finalizer.
WellFormed(c) ==
  /\ Exists(c) => c.spec \in 1 .. MaxSpec
  /\ ~Exists(c) => c = NoCR
  /\ c.deleting => c.fin # {}

\* What the cache says about the finalizer of a live CR is true, however old it is.
LiveInCache ==
  (Exists(cache) /\ ~cache.deleting /\ CSI \in cache.fin) => (cr.uid = cache.uid /\ CSI \in cr.fin)

\* Deletion is not taken back.
DeletionStays ==
  (Exists(cache) /\ cache.uid = cr.uid /\ cache.deleting) => cr.deleting

\* While the worker installs for a CR that nobody had deleted when it was read, the CR
\* exists and is guarded.
InstallGuarded ==
  Installing => Exists(seen) /\ (~seen.deleting => cr.uid = seen.uid /\ CSI \in cr.fin)

\* While it uninstalls, neither the API server nor the cache holds a live version.
RemovalKnown ==
  Removing =>
    /\ Exists(seen) /\ WellFormed(seen) /\ seen.deleting
    /\ cr.uid = seen.uid => cr.deleting
    /\ cache.uid = seen.uid => cache.deleting

AddingKnown ==
  pc = "addFinalizer" => Exists(seen) /\ WellFormed(seen) /\ ~seen.deleting /\ ~retrying

\* What has been undone so far, but for what was missed.
NoPolicy  == ~Present("policy") \/ "policy" \in missed
NoPatch   == ~patched \/ "patched" \in missed
Unpatched == NoPatch /\ NoPolicy
NoLabels  == labelled = {} \/ "labels" \in missed
UnpatchProgress ==
  /\ (pc = "unpatchScheduler" /\ ~retrying) => NoPolicy
  /\ pc \in UninstallStages => Unpatched

\* Only OpenShift with patching has something to unpatch.
PatchStages ==
  {"patchConfig", "patch", "readiness", "deletePatcher", "deletePatcherConfig"} \cup UnpatchStages
PatchScope ==
  /\ Unpatched \/ (OpenShift /\ Patching # {})
  /\ pc \in PatchStages => Patching # {}

\* The protocol between the operator, the API server and the cache about the CR and its
\* finalizer, which needs no condition.
GuardInv ==
  /\ TypeOK
  /\ UidBound /\ Versioned(cache) /\ Versioned(seen)
  /\ WellFormed(cr) /\ WellFormed(cache)
  /\ LiveInCache /\ DeletionStays
  /\ InstallGuarded /\ RemovalKnown /\ AddingKnown

\* What it protects: the labels, which every Uninstall removes, and the patch, which an
\* Uninstall removes if the last spec asks for it - but for what it misses.
Guard == Exists(cr) /\ CSI \in cr.fin
LabelsGuarded  == ~NoLabels => Guard
PatchesGuarded == ~Unpatched => Guard
LabelInv == LabelsGuarded /\ (pc = "removeFinalizer" => NoLabels)
PatchInv == PatchesGuarded /\ UnpatchProgress /\ PatchScope

IInv == GuardInv /\ LabelInv /\ PatchInv

\* The condition under which Uninstall looks at all that was installed: every spec version
\* agrees on whether the scheduler is patched.
PatchingAgreed == Patching = {} \/ 1 .. MaxSpec \subseteq Patching

-----------------------------------------------------------------------------
\* Types

\* The initial state is well typed.
LEMMA InitType == Init => TypeOK
  <1> SUFFICES ASSUME Init PROVE TypeOK
    OBVIOUS
  <1>1. applied \in [Objects -> [owner: Nat, spec: Nat]]
    BY DEF Init, NoObject
  <1>2. NoCR \in CRs
    BY ReconcilerAssumption DEF NoCR, CRs
  <1>3. granted \subseteq Accounts
    BY DEF Init
  <1> QED
    BY <1>1, <1>2, <1>3 DEF Init, TypeOK, Stages

\* The values the actions compute are of the right type.
LEMMA NoCRType == NoCR \in CRs
  BY ReconcilerAssumption DEF NoCR, CRs

\* What Apply writes is an object.
LEMMA WrittenType ==
  ASSUME TypeOK, NEW o \in Objects
  PROVE  Written(o) \in [owner: Nat, spec: Nat]
  BY DEF TypeOK, CRs, Written, Content, Present

\* The API server stores a CR, or none.
LEMMA StoredType == ASSUME NEW c \in CRs PROVE Stored(c) \in CRs
  BY NoCRType DEF Stored

\* What a write or a removal of one object changes.
WorldType ==
  /\ applied' \in [Objects -> [owner: Nat, spec: Nat]]
  /\ queued' \in BOOLEAN /\ missed' \subseteq Missable
  /\ UNCHANGED <<labelled, patched>>

\* What is installed may be missed later, or is missed no longer.
LEMMA TakesType == ASSUME TypeOK, NEW x \in Missable PROVE Takes(x) \subseteq Missable
  BY DEF TypeOK, Takes

\* Apply writes one object and touches no label and no patch.
LEMMA ApplyType == ASSUME TypeOK, NEW o \in Objects, Apply(o) PROVE WorldType
  <1>1. missed' \subseteq Missable
    BY TakesType DEF TypeOK, Apply, Missable
  <1> QED
    BY <1>1, WrittenType DEF TypeOK, Apply, WorldType

\* So does a removal.
LEMMA RemoveType == ASSUME TypeOK, NEW o \in Objects, Remove(o) PROVE WorldType
  <1>1. NoObject \in [owner: Nat, spec: Nat]
    BY DEF NoObject
  <1> QED
    BY <1>1 DEF TypeOK, Remove, WorldType

\* What the end of a reconcile, or a move to its next stage, changes.
WorkerType ==
  /\ pc' \in Stages /\ (pc' = "idle" => seen' = NoCR /\ ~retrying')
  /\ seen' \in CRs /\ retrying' \in BOOLEAN /\ errs' \in BOOLEAN

\* The end of a reconcile leaves an idle, well-typed worker.
LEMMA ReturnType == Return => WorkerType
  BY NoCRType DEF Return, WorkerType, Stages

\* Going on to another stage keeps the worker well typed.
LEMMA GoType ==
  ASSUME TypeOK, NEW stage \in Stages \ {"idle"}, Go(stage) PROVE WorkerType
  BY DEF TypeOK, Go, WorkerType

\* A write to the CR is a CR.
LEMMA WriteType ==
  ASSUME NEW c \in CRs, NEW fin \in SUBSET {CSI, Foreground}
  PROVE  [c EXCEPT !.rv = @ + 1, !.fin = fin] \in CRs
  <1>1. c.rv + 1 \in Nat
    BY DEF CRs
  <1>2. [c EXCEPT !.rv = c.rv + 1] \in CRs
    BY <1>1 DEF CRs
  <1> QED
    BY <1>2 DEF CRs

\* Every step of the worker and of its environment keeps the types.
LEMMA ReconcileType == TypeOK /\ Reconcile => TypeOK'
  <1> SUFFICES ASSUME TypeOK, Reconcile PROVE TypeOK'
    OBVIOUS
  <1> USE ReconcilerAssumption, NoCRType
  <1>1. CASE Get
    BY <1>1 DEF Get, FirstStage, Exists, TypeOK, Stages, InstallStages, UnpatchStages, UninstallStages, Go, worker, world, bounds
  <1>2. CASE AddFinalizer
    <2>1. CASE Current(seen)
      <3>1. seen.fin \cup {CSI} \in SUBSET {CSI, Foreground}
        BY DEF TypeOK, CRs
      <3>2. [seen EXCEPT !.rv = @ + 1, !.fin = seen.fin \cup {CSI}] \in CRs
        BY <3>1, WriteType DEF TypeOK
      <3>3. cr' \in CRs /\ seen' = cr'
        BY <1>2, <2>1, <3>2 DEF AddFinalizer
      <3> QED
        BY <1>2, <2>1, <3>3 DEF AddFinalizer, TypeOK, Stages, InstallStages, worker, world, bounds
    <2>2. CASE ~Current(seen)
      BY <1>2, <2>2, ReturnType DEF AddFinalizer, TypeOK, Requeue, WorkerType, world, bounds
    <2> QED
      BY <2>1, <2>2
  <1>3. CASE UpdateNodeController
    BY <1>3, ApplyType DEF UpdateNodeController, WorldType, Objects, AfterPatch, Requeue, Return, TypeOK, Stages, InstallStages, UnpatchStages, UninstallStages, Go, worker, world, bounds
  <1>4. CASE SkipNode
    BY <1>4 DEF SkipNode, TypeOK, Stages, InstallStages, UnpatchStages, UninstallStages, Go, worker, world, bounds
  <1>5. CASE LabelNodes
    <2>1. PICK done \in SUBSET Nodes :
            /\ labelled' = done
            /\ IF done = Nodes THEN Go("node") /\ UNCHANGED <<queued, bounds>>
                               ELSE Fault /\ Requeue
      BY <1>5 DEF LabelNodes
    <2>3. missed' \subseteq Missable
      BY <1>5, TakesType DEF LabelNodes, Missable
    <2>2. WorkerType /\ queued' \in BOOLEAN /\ creations' \in Nat /\ faults' \in Nat
      <3>1. CASE done = Nodes
        BY <2>1, <3>1 DEF TypeOK, Go, WorkerType, Stages, InstallStages, bounds
      <3>2. CASE done # Nodes
        BY <2>1, <3>2, ReturnType DEF TypeOK, Requeue, Fault
      <3> QED
        BY <3>1, <3>2
    <2> QED
      BY <1>5, <2>1, <2>2, <2>3 DEF LabelNodes, TypeOK, WorkerType
  <1>6. CASE UpdateNode
    BY <1>6, ApplyType DEF UpdateNode, WorldType, Objects, AfterPatch, Requeue, Return, TypeOK, Stages, InstallStages, UnpatchStages, UninstallStages, Go, worker, world, bounds
  <1>7. CASE UpdateController
    BY <1>7, ApplyType DEF UpdateController, WorldType, Objects, AfterPatch, Requeue, Return, TypeOK, Stages, InstallStages, UnpatchStages, UninstallStages, Go, worker, world, bounds
  <1>8. CASE UpdateExtender
    BY <1>8, ApplyType DEF UpdateExtender, WorldType, Objects, AfterPatch, Requeue, Return, TypeOK, Stages, InstallStages, UnpatchStages, UninstallStages, Go, worker, world, bounds
  <1>9. CASE PatchConfig
    BY <1>9, ApplyType DEF PatchConfig, WorldType, Objects, AfterPatch, Requeue, Return, TypeOK, Stages, InstallStages, UnpatchStages, UninstallStages, Go, worker, world, bounds
  <1>10. CASE PatchScheduler
    <2>1. WorkerType /\ queued' \in BOOLEAN
      <3>1. Requeue \/ (Go(AfterPatch) /\ UNCHANGED queued)
        BY <1>10 DEF PatchScheduler
      <3>2. AfterPatch \in Stages \ {"idle"}
        BY DEF AfterPatch, Stages, InstallStages
      <3> QED
        BY <3>1, <3>2, ReturnType, GoType DEF TypeOK, Requeue
    <2>2. missed' \subseteq Missable /\ patched' \in BOOLEAN
      BY <1>10, TakesType DEF PatchScheduler, Missable, TypeOK
    <2> QED
      BY <1>10, <2>1, <2>2 DEF PatchScheduler, TypeOK, WorkerType, bounds
  <1>11. CASE UpdateVanillaDaemonset
    BY <1>11, ApplyType DEF UpdateVanillaDaemonset, WorldType, Objects, AfterPatch, Requeue, Return, TypeOK, Stages, InstallStages, UnpatchStages, UninstallStages, Go, worker, world, bounds
  <1>12. CASE UpdateReadiness
    BY <1>12, ApplyType DEF UpdateReadiness, WorldType, Objects, AfterPatch, Requeue, Return, TypeOK, Stages, InstallStages, UnpatchStages, UninstallStages, Go, worker, world, bounds
  <1>13. CASE DeletePatcher
    BY <1>13, RemoveType DEF DeletePatcher, WorldType, Objects, RetryDelete, Fault, Requeue, Return, TypeOK, Stages, InstallStages, UnpatchStages, UninstallStages, Go, worker, world, bounds
  <1>14. CASE DeletePatcherConfig
    BY <1>14, RemoveType DEF DeletePatcherConfig, WorldType, Objects, RetryDelete, Fault, Requeue, Return, TypeOK, Stages, InstallStages, UnpatchStages, UninstallStages, Go, worker, world, bounds
  <1>15. CASE DeletePolicy
    <2>1. WorldType
      <3>1. CASE Remove("policy")
        BY <3>1, RemoveType DEF Objects
      <3>2. CASE UNCHANGED <<applied, labelled, patched, queued>>
        BY <1>15, <3>2 DEF DeletePolicy, Remove, TypeOK, WorldType, Missable
      <3> QED
        BY <1>15, <3>1, <3>2 DEF DeletePolicy
    <2>2. errs' \in BOOLEAN /\ creations' \in Nat /\ faults' \in Nat
      <3>1. errs' \in BOOLEAN
        BY <1>15 DEF DeletePolicy, TypeOK
      <3>2. UNCHANGED bounds \/ Fault
        BY <1>15 DEF DeletePolicy, bounds, world
      <3> QED
        BY <3>1, <3>2 DEF TypeOK, Fault, bounds
    <2> QED
      BY <1>15, <2>1, <2>2 DEF DeletePolicy, TypeOK, WorldType, Stages, UnpatchStages, world
  <1>16. CASE UnpatchScheduler
    <2>1. WorkerType /\ queued' \in BOOLEAN
      <3>1. \/ Requeue
            \/ Go("patchConfig") /\ UNCHANGED queued
            \/ Go("unlabel") /\ UNCHANGED queued
        BY <1>16 DEF UnpatchScheduler
      <3>2. "patchConfig" \in Stages \ {"idle"} /\ "unlabel" \in Stages \ {"idle"}
        BY DEF Stages, InstallStages, UninstallStages
      <3> QED
        BY <3>1, <3>2, ReturnType, GoType DEF TypeOK, Requeue
    <2>2. /\ patched' \in BOOLEAN /\ missed' \subseteq Missable
          /\ creations' \in Nat /\ faults' \in Nat
      <3>1. patched' \in BOOLEAN /\ missed' \subseteq Missable
        BY <1>16 DEF UnpatchScheduler, TypeOK, Missable
      <3>2. UNCHANGED bounds \/ Fault
        BY <1>16 DEF UnpatchScheduler
      <3> QED
        BY <3>1, <3>2 DEF TypeOK, Fault, bounds
    <2> QED
      BY <1>16, <2>1, <2>2 DEF UnpatchScheduler, TypeOK, WorkerType
  <1>17. CASE CleanNodeLabels
    <2>1. WorkerType
      BY <1>17, GoType DEF CleanNodeLabels, Stages, UninstallStages
    <2>2. labelled' \subseteq Nodes /\ missed' \subseteq Missable
      BY <1>17 DEF CleanNodeLabels, TypeOK, Missable
    <2>3. UNCHANGED bounds \/ Fault
      BY <1>17 DEF CleanNodeLabels
    <2>4. creations' \in Nat /\ faults' \in Nat
      BY <2>3 DEF TypeOK, Fault, bounds
    <2> QED
      BY <1>17, <2>1, <2>2, <2>4 DEF CleanNodeLabels, TypeOK, WorkerType
  <1>18. CASE RemoveFinalizer
    <2>1. CASE Current(seen)
      <3>1. [seen EXCEPT !.rv = @ + 1, !.fin = seen.fin \ {CSI}] \in CRs
        BY WriteType DEF TypeOK, CRs
      <3>2. cr' \in CRs
        BY <1>18, <2>1, <3>1, StoredType DEF RemoveFinalizer
      <3> QED
        BY <1>18, <2>1, <3>2, ReturnType DEF RemoveFinalizer, TypeOK, WorkerType, world, bounds
    <2>2. CASE ~Current(seen)
      BY <1>18, <2>2, ReturnType DEF RemoveFinalizer, TypeOK, Requeue, WorkerType, world, bounds
    <2> QED
      BY <2>1, <2>2
  <1>19. CASE ReconcileNodes
    BY <1>19 DEF ReconcileNodes, Return, TypeOK, Stages, InstallStages, UnpatchStages, UninstallStages, Go, worker, world, bounds
  <1> QED
    BY <1>1, <1>2, <1>3, <1>4, <1>5, <1>6, <1>7, <1>8, <1>9, <1>10, <1>11, <1>12, <1>13, <1>14, <1>15, <1>16, <1>17, <1>18, <1>19 DEF Reconcile

\* Users, the cluster and restarts preserve the types.
LEMMA EnvironmentType ==
  TypeOK /\ (Fail \/ UpdateVanillaFails \/ Sync \/ SyncScheduler \/ GarbageCollector \/ Environment) => TypeOK'
  <1> SUFFICES ASSUME TypeOK,
                      Fail \/ UpdateVanillaFails \/ Sync \/ SyncScheduler \/ GarbageCollector \/ Environment
               PROVE  TypeOK'
    OBVIOUS
  <1> USE ReconcilerAssumption, NoCRType
  <1>1. CASE Fail
    BY <1>1, ReturnType DEF Fail, TypeOK, Fault, Requeue, WorkerType, world
  <1>2. CASE UpdateVanillaFails
    BY <1>2 DEF UpdateVanillaFails, AfterPatch, Go, Fault, TypeOK, Stages, InstallStages, world
  <1>3. CASE Sync \/ SyncScheduler
    <2>1. CASE Sync
      BY <2>1 DEF Sync, TypeOK, world, bounds
    <2>2. CASE SyncScheduler
      BY <2>2 DEF SyncScheduler, TypeOK, worker, world, bounds
    <2> QED
      BY <1>3, <2>1, <2>2
  <1>4. ASSUME NEW o \in Objects, CollectGarbage(o) PROVE TypeOK'
    BY <1>4, RemoveType DEF CollectGarbage, TypeOK, WorldType, bounds
  <1>5. CASE FinishForeground
    <2>1. [cr EXCEPT !.rv = @ + 1, !.fin = cr.fin \ {Foreground}] \in CRs
      BY WriteType DEF TypeOK, CRs
    <2>2. cr' \in CRs
      BY <1>5, <2>1, StoredType DEF FinishForeground
    <2> QED
      BY <1>5, <2>2 DEF FinishForeground, TypeOK, worker, world, bounds
  <1>6. CASE Create
    <2>1. cr' \in CRs
      <3>1. cr' = [uid |-> creations + 1, rv |-> 1, spec |-> 1, deleting |-> FALSE, fin |-> {}]
        BY <1>6 DEF Create, NoCR
      <3>2. creations + 1 \in Nat /\ 1 \in 0 .. MaxSpec
        BY DEF TypeOK
      <3> QED
        BY <3>1, <3>2 DEF CRs
    <2> QED
      BY <1>6, <2>1 DEF Create, TypeOK, worker, world
  <1>7. CASE Edit
    <2>1. cr.rv + 1 \in Nat /\ cr.spec + 1 \in 0 .. MaxSpec
      BY <1>7 DEF Edit, TypeOK, CRs
    <2>2. cr' \in CRs
      BY <1>7, <2>1 DEF Edit, TypeOK, CRs
    <2> QED
      BY <1>7, <2>2 DEF Edit, TypeOK, worker, world, bounds
  <1>8. CASE Delete
    <2>1. PICK extra \in SUBSET {Foreground} :
            cr' = Stored([cr EXCEPT !.rv = @ + 1, !.deleting = TRUE, !.fin = @ \cup extra])
      BY <1>8 DEF Delete
    <2>2. cr.fin \cup extra \in SUBSET {CSI, Foreground} /\ cr.rv + 1 \in Nat
      BY DEF TypeOK, CRs
    <2>3. [cr EXCEPT !.rv = @ + 1, !.deleting = TRUE, !.fin = @ \cup extra] \in CRs
      <3>1. [cr EXCEPT !.rv = cr.rv + 1] \in CRs
        BY <2>2 DEF TypeOK, CRs
      <3>2. [cr EXCEPT !.rv = cr.rv + 1, !.deleting = TRUE] \in CRs
        BY <3>1 DEF CRs
      <3> QED
        BY <2>2, <3>2 DEF CRs
    <2>4. cr' \in CRs
      BY <2>1, <2>3, StoredType
    <2> QED
      BY <1>8, <2>4 DEF Delete, TypeOK, worker, world, bounds
  <1>9. CASE StatusEvent
    <2>1. queued' \in BOOLEAN
      BY <1>9 DEF StatusEvent, Notify, TypeOK
    <2> QED
      BY <1>9, <2>1 DEF StatusEvent, TypeOK, world, bounds
  <1>10. CASE Restart
    <2>1. queued' \in BOOLEAN
      BY <1>10 DEF Restart, Exists
    <2> QED
      BY <1>10, <2>1, ReturnType DEF Restart, TypeOK, Fault, WorkerType, world
  <1>11. ASSUME NEW o \in Objects, Disturb(o) PROVE TypeOK'
    BY <1>11, RemoveType DEF Disturb, TypeOK, WorldType, Fault
  <1>12. ASSUME NEW n \in Nodes, LoseLabel(n) PROVE TypeOK'
    <2>1. queued' \in BOOLEAN
      BY <1>12 DEF LoseLabel, Notify, TypeOK
    <2> QED
      BY <1>12, <2>1 DEF LoseLabel, TypeOK, Fault
  <1>13. ASSUME NEW account \in Accounts, ChangeBinding(account) PROVE TypeOK'
    <2>1. queued' \in BOOLEAN
      BY <1>13 DEF ChangeBinding, Notify, TypeOK
    <2> QED
      BY <1>13, <2>1 DEF ChangeBinding, TypeOK, Fault, world
  <1> QED
    BY <1>1, <1>2, <1>3, <1>4, <1>5, <1>6, <1>7, <1>8, <1>9, <1>10, <1>11, <1>12, <1>13
       DEF GarbageCollector, Environment

\* Every step preserves the types.
LEMMA NextType == TypeOK /\ [Next]_vars => TypeOK'
  <1>1. TypeOK /\ UNCHANGED vars => TypeOK'
    BY DEF TypeOK, vars, worker, world, bounds
  <1> QED
    BY <1>1, ReconcileType, EnvironmentType DEF Next

\* The variables keep their types, and an idle worker holds no copy of the CR.
THEOREM TypeCorrect == Spec => []TypeOK
  BY InitType, NextType, PTL DEF Spec

-----------------------------------------------------------------------------
\* The inductive invariant is inductive

LEMMA InitInv == Init => IInv
  <1> SUFFICES ASSUME Init PROVE IInv
    OBVIOUS
  <1>1. TypeOK
    BY InitType
  <1>2. ~Present("policy")
    BY DEF Init, Present, NoObject, Objects
  <1>3. NoLabels /\ Unpatched
    BY <1>2 DEF Init, NoLabels, Unpatched, NoPolicy, NoPatch
  <1>4. LabelInv /\ PatchInv
    BY <1>3 DEF Init, LabelInv, PatchInv, LabelsGuarded, PatchesGuarded, UnpatchProgress, PatchScope,
       PatchStages, UninstallStages, UnpatchStages
  <1>5. GuardInv
    BY <1>1 DEF Init, GuardInv, UidBound, Versioned, WellFormed, LiveInCache, DeletionStays,
       InstallGuarded, RemovalKnown, AddingKnown, Installing, Removing, Unpatching, InstallStages,
       UninstallStages, UnpatchStages, Exists, NoCR
  <1> QED
    BY <1>4, <1>5 DEF IInv

\* Reading the CR, and the stages that install: the CR and its finalizer are held
\* by InstallGuarded.
InstallStep ==
  \/ Get \/ AddFinalizer \/ UpdateNodeController \/ SkipNode \/ LabelNodes \/ UpdateNode
  \/ UpdateController \/ UpdateExtender \/ PatchConfig \/ PatchScheduler
  \/ UpdateVanillaDaemonset \/ UpdateVanillaFails \/ UpdateReadiness
  \/ DeletePatcher \/ DeletePatcherConfig \/ ReconcileNodes \/ Fail

\* No copy is as old as it says.
LEMMA NothingSeen ==
  ASSUME TypeOK', WellFormed(cr)', seen' = NoCR
  PROVE  Versioned(seen)' /\ UidBound' = (cr'.uid <= creations' /\ cache'.uid <= creations')
  <1>1. seen'.uid = 0 /\ seen'.rv = 0 /\ 0 <= creations'
    BY DEF TypeOK, NoCR
  <1>2. cr'.uid = 0 => cr' = NoCR
    BY DEF WellFormed, Exists
  <1> QED
    BY <1>1, <1>2 DEF Versioned, UidBound

\* Nor does a copy outdate no CR.
LEMMA NothingStored ==
  ASSUME WellFormed(cache)', cr' = NoCR PROVE Versioned(cache)' /\ WellFormed(cr)'
  <1>1. NoCR.uid = 0 /\ NoCR.rv = 0 /\ NoCR.deleting = FALSE
    BY DEF NoCR
  <1>2. cache'.uid = 0 => cache' = NoCR
    BY DEF WellFormed, Exists
  <1> QED
    BY <1>1, <1>2 DEF Versioned, WellFormed, Exists

\* Installing keeps the protocol.
LEMMA InstallGuard ==
  ASSUME GuardInv, TypeOK', InstallStep
  PROVE  GuardInv'
  <1>0. ASSUME AddFinalizer, Current(seen)
        PROVE  /\ cr'.uid = seen.uid /\ cr'.spec = seen.spec /\ cr'.deleting = seen.deleting
               /\ cr'.fin = seen.fin \cup {CSI} /\ cr'.rv = seen.rv + 1
    BY <1>0 DEF AddFinalizer, GuardInv, TypeOK, CRs
  <1> USE DEF GuardInv, UidBound, Versioned, WellFormed, LiveInCache, DeletionStays,
             InstallGuarded, RemovalKnown, AddingKnown, Installing, Removing, Unpatching,
             InstallStages, UninstallStages, UnpatchStages, Exists, NoCR,
             TypeOK, CRs, worker, world, bounds
  <1>a. ASSUME UNCHANGED <<cr, cache, creations>>,
               \/ pc' = "idle" /\ seen' = NoCR
               \/ Installing /\ Installing' /\ UNCHANGED seen
        PROVE  GuardInv'
    <2>1. UidBound' /\ Versioned(seen)'
      <3>1. WellFormed(cr)'
        BY <1>a
      <3>2. CASE seen' = NoCR
        <4>1. cr'.uid <= creations' /\ cache'.uid <= creations'
          BY <1>a
        <4> QED
          BY <3>1, <3>2, <4>1, NothingSeen
      <3>3. CASE UNCHANGED seen
        BY <1>a, <3>3
      <3> QED
        BY <1>a, <3>2, <3>3
    <2>4. Versioned(cache)' /\ WellFormed(cr)' /\ WellFormed(cache)'
      BY <1>a
    <2>2. LiveInCache' /\ DeletionStays' /\ InstallGuarded'
      BY <1>a
    <2>3. RemovalKnown' /\ AddingKnown'
      BY <1>a
    <2> QED
      BY <2>1, <2>2, <2>3, <2>4
  <1>1. CASE Get
    BY <1>1 DEF Get, FirstStage
  <1>2. CASE AddFinalizer
    <2>1. CASE Current(seen)
      <3>1. /\ cr'.uid = seen.uid /\ cr'.spec = seen.spec /\ cr'.deleting = seen.deleting
            /\ cr'.fin = seen.fin \cup {CSI} /\ cr'.rv = seen.rv + 1
        BY <1>0, <1>2, <2>1
      <3>2. CSI # Foreground
        BY DEF CSI, Foreground
      <3>3. /\ pc = "addFinalizer" /\ pc' = "nodeController" /\ seen' = cr'
            /\ UNCHANGED <<cache, retrying, creations>>
            /\ seen.uid = cr.uid
        BY <1>2, <2>1 DEF AddFinalizer, Current
      <3>4. UidBound' /\ InstallGuarded'
        BY <3>1, <3>3
      <3>7. LiveInCache' /\ DeletionStays'
        <4>1. seen = cr
          BY <2>1 DEF Current
        <4> QED
          BY <3>1, <3>3, <4>1
      <3>8. Versioned(seen)' /\ Versioned(cache)'
        <4>1. seen.rv = cr.rv /\ cr.rv \in Nat
          BY <2>1 DEF Current
        <4> QED
          BY <3>3, <3>1, <4>1
      <3>5. WellFormed(cr)'
        BY <3>1, <3>2, <3>3
      <3>6. WellFormed(cache)' /\ RemovalKnown' /\ AddingKnown'
        BY <3>1, <3>3
      <3> QED
        BY <3>4, <3>5, <3>6, <3>7, <3>8
    <2>2. CASE ~Current(seen)
      BY <1>2, <2>2 DEF AddFinalizer, Requeue, Return
    <2> QED
      BY <2>1, <2>2
  <1>3. CASE UpdateNodeController
    BY <1>3 DEF UpdateNodeController, Apply, Go
  <1>4. CASE SkipNode
    BY <1>4 DEF SkipNode, Go
  <1>5. CASE LabelNodes
    <2>1. PICK done \in SUBSET Nodes :
            IF done = Nodes THEN Go("node") /\ UNCHANGED <<queued, bounds>>
                            ELSE Fault /\ Requeue
      BY <1>5 DEF LabelNodes
    <2>2. Go("node") \/ Requeue
      BY <2>1
    <2>3. UNCHANGED <<cr, cache, creations>> /\ pc = "nodeLabels"
      BY <1>5, <2>1 DEF LabelNodes, Fault
    <2> QED
      BY <1>a, <2>2, <2>3 DEF Go, Requeue, Return
  <1>6. CASE UpdateNode
    BY <1>6 DEF UpdateNode, Apply, Go
  <1>7. CASE UpdateController
    BY <1>7 DEF UpdateController, Apply, Go
  <1>8. CASE UpdateExtender
    BY <1>8 DEF UpdateExtender, Apply, Go
  <1>9. CASE PatchConfig
    BY <1>9 DEF PatchConfig, Apply, Go
  <1>10. CASE PatchScheduler
    BY <1>10 DEF PatchScheduler, AfterPatch, Go, Requeue, Return
  <1>11. CASE UpdateVanillaDaemonset
    BY <1>11 DEF UpdateVanillaDaemonset, Apply, Go, AfterPatch
  <1>12. CASE UpdateVanillaFails
    BY <1>12 DEF UpdateVanillaFails, Fault, Go, AfterPatch
  <1>13. CASE UpdateReadiness
    BY <1>a, <1>13 DEF UpdateReadiness, Go, Requeue, Return
  <1>14. CASE DeletePatcher
    BY <1>a, <1>14 DEF DeletePatcher, RetryDelete, Go, Requeue, Return
  <1>15. CASE DeletePatcherConfig
    BY <1>a, <1>15 DEF DeletePatcherConfig, RetryDelete, Go, Requeue, Return
  <1>16. CASE ReconcileNodes
    BY <1>16 DEF ReconcileNodes, Return
  <1>17. CASE Fail
    BY <1>17 DEF Fail, Fault, Requeue, Return
  <1> QED
    BY <1>1, <1>2, <1>3, <1>4, <1>5, <1>6, <1>7, <1>8, <1>9, <1>10, <1>11, <1>12, <1>13, <1>14, <1>15, <1>16, <1>17 DEF InstallStep

\* The stages of Uninstall, two of which serve the retry as well.
RemovalStep == DeletePolicy \/ UnpatchScheduler \/ CleanNodeLabels \/ RemoveFinalizer

\* Uninstalling keeps the protocol, whether or not its requests succeed.
LEMMA RemovalGuard ==
  ASSUME GuardInv, TypeOK', RemovalStep
  PROVE  GuardInv'
  <1> USE DEF GuardInv, UidBound, Versioned, WellFormed, LiveInCache, DeletionStays,
             InstallGuarded, RemovalKnown, AddingKnown, Installing, Removing, Unpatching,
             InstallStages, UninstallStages, UnpatchStages, Exists, NoCR,
             TypeOK, CRs, worker, world, bounds
  <1>1. CASE DeletePolicy
    BY <1>1 DEF DeletePolicy, Remove, Fault, NoObject
  <1>2. CASE UnpatchScheduler
    BY <1>2 DEF UnpatchScheduler, Fault, Requeue, Return, Go
  <1>3. CASE CleanNodeLabels
    BY <1>3 DEF CleanNodeLabels, Fault, Go
  <1>4. CASE RemoveFinalizer
    <2>1. UNCHANGED <<cache, creations>> /\ pc = "removeFinalizer"
      BY <1>4 DEF RemoveFinalizer
    <2>2. seen' = NoCR /\ pc' = "idle" /\ retrying' = FALSE
      BY <1>4 DEF RemoveFinalizer, Return, Requeue
    <2>3. cr' = cr \/ (seen = cr /\ cr' = Stored([cr EXCEPT !.rv = @ + 1, !.fin = @ \ {CSI}]))
      BY <1>4 DEF RemoveFinalizer, Current
    <2>4. CASE cr' = cr
      BY <2>1, <2>2, <2>4
    <2>5. CASE seen = cr /\ cr' = Stored([cr EXCEPT !.rv = @ + 1, !.fin = @ \ {CSI}])
      <3> DEFINE new == [cr EXCEPT !.rv = @ + 1, !.fin = @ \ {CSI}]
      <3>1. cr.deleting
        BY <2>1, <2>5
      <3>2. /\ new.uid = cr.uid /\ new.rv = cr.rv + 1 /\ new.spec = cr.spec /\ new.deleting
            /\ cr.rv \in Nat
        BY <3>1
      <3> HIDE DEF new
      <3>3. cr' = NoCR \/ (cr' = new /\ new.fin # {})
        BY <2>5, <3>2 DEF Stored, new
      <3>4. cache.uid = cr.uid => cache.deleting
        BY <2>1, <2>5
      <3>5. UidBound'
        BY <2>1, <2>2, <3>2, <3>3
      <3>9. WellFormed(cache)'
        BY <2>1
      <3>12. Exists(cr) /\ cr.spec \in 1 .. MaxSpec
        BY <2>1, <2>5
      <3>10. WellFormed(cr)'
        <4>1. CASE cr' = NoCR
          BY <2>1, <4>1, <3>9, NothingStored
        <4>2. CASE cr' = new /\ new.fin # {}
          BY <3>2, <3>12, <4>2
        <4> QED
          BY <3>3, <4>1, <4>2
      <3>8. Versioned(cache)'
        <4>1. CASE cr' = NoCR
          BY <3>9, <4>1, NothingStored
        <4>2. CASE cr' = new
          BY <2>1, <3>2, <4>2
        <4> QED
          BY <3>3, <4>1, <4>2
      <3>11. Versioned(seen)'
        BY <2>2, <3>10, NothingSeen
      <3>6. LiveInCache' /\ DeletionStays'
        BY <2>1, <2>2, <3>2, <3>3, <3>4
      <3>7. InstallGuarded' /\ RemovalKnown' /\ AddingKnown'
        BY <2>2
      <3> QED
        BY <3>5, <3>6, <3>7, <3>8, <3>9, <3>10, <3>11
    <2> QED
      BY <2>3, <2>4, <2>5
  <1> QED
    BY <1>1, <1>2, <1>3, <1>4 DEF RemovalStep

\* So does everything around the worker: it may delete the CR, but not its finalizer.
LEMMA EnvironmentGuard ==
  ASSUME GuardInv, TypeOK', Sync \/ SyncScheduler \/ GarbageCollector \/ Environment
  PROVE  GuardInv'
  <1> USE DEF GuardInv, UidBound, Versioned, WellFormed, LiveInCache, DeletionStays,
             InstallGuarded, RemovalKnown, AddingKnown, Installing, Removing, Unpatching,
             InstallStages, UninstallStages, UnpatchStages, Exists, NoCR,
             TypeOK, CRs, worker, world, bounds
  <1>1. CASE Sync
    BY <1>1 DEF Sync
  <1>2. CASE FinishForeground
    <2> DEFINE new == [cr EXCEPT !.rv = @ + 1, !.fin = @ \ {Foreground}]
    <2>1. /\ cr' = Stored(new) /\ cr.deleting /\ Foreground \in cr.fin
          /\ UNCHANGED <<cache, pc, seen, retrying, creations>>
      BY <1>2 DEF FinishForeground, ForegroundDeletion
    <2>2. /\ new.uid = cr.uid /\ new.rv = cr.rv + 1 /\ new.spec = cr.spec /\ new.deleting
          /\ cr.rv \in Nat /\ cr.uid # 0 /\ (CSI \in new.fin <=> CSI \in cr.fin)
      BY <2>1 DEF CSI, Foreground
    <2> HIDE DEF new
    <2>3. (cr' = NoCR /\ CSI \notin cr.fin) \/ (cr' = new /\ new.fin # {})
      BY <2>1, <2>2 DEF Stored
    <2>4. CASE cr' = NoCR /\ CSI \notin cr.fin
      <3>1. seen.uid = 0 => seen = NoCR
        BY DEF Stages
      <3>2. Versioned(cache)' /\ Versioned(seen)' /\ WellFormed(cr)' /\ WellFormed(cache)'
        BY <2>1, <2>4, <3>1
      <3>3. UidBound' /\ LiveInCache' /\ DeletionStays' /\ InstallGuarded'
        BY <2>1, <2>2, <2>4
      <3>4. RemovalKnown' /\ AddingKnown'
        BY <2>1, <2>4
      <3> QED
        BY <3>2, <3>3, <3>4
    <2>5. CASE cr' = new /\ new.fin # {}
      BY <2>1, <2>2, <2>5
    <2> QED
      BY <2>3, <2>4, <2>5
  <1>3. CASE Create
    <2>1. /\ cr.uid = 0 /\ cr'.uid = creations + 1 /\ cr'.spec = 1
          /\ cr'.deleting = FALSE /\ cr'.fin = {} /\ creations' = creations + 1
          /\ UNCHANGED <<cache, pc, seen, retrying>>
      BY <1>3 DEF Create
    <2>3. 1 \in 1 .. MaxSpec
      BY ReconcilerAssumption
    <2>4. WellFormed(cr)'
      BY <2>1, <2>3
    <2>5. UidBound' /\ LiveInCache' /\ DeletionStays' /\ Versioned(cache)' /\ Versioned(seen)'
      BY <2>1
    <2>6. InstallGuarded' /\ RemovalKnown' /\ AddingKnown'
      BY <2>1
    <2> QED
      BY <2>1, <2>4, <2>5, <2>6
  <1>4. CASE Edit
    <2>1. /\ cr'.uid = cr.uid /\ cr'.deleting = cr.deleting /\ cr'.fin = cr.fin
          /\ cr'.spec = cr.spec + 1 /\ cr.spec + 1 \in 1 .. MaxSpec
      <3>1. cr' = [cr EXCEPT !.rv = @ + 1, !.spec = @ + 1] /\ Exists(cr) /\ cr.spec < MaxSpec
        BY <1>4 DEF Edit
      <3>2. cr.spec \in 1 .. MaxSpec /\ MaxSpec \in Nat
        BY <3>1, ReconcilerAssumption
      <3> QED
        BY <3>1, <3>2
    <2> QED
      BY <1>4, <2>1 DEF Edit
  <1>5. CASE Delete
    <2>1. PICK extra \in SUBSET {Foreground} :
            cr' = Stored([cr EXCEPT !.rv = @ + 1, !.deleting = TRUE, !.fin = @ \cup extra])
      BY <1>5 DEF Delete
    <2> DEFINE new == [cr EXCEPT !.rv = @ + 1, !.deleting = TRUE, !.fin = @ \cup extra]
    <2>2. UNCHANGED <<cache, pc, seen, retrying, creations>> /\ Exists(cr) /\ ~cr.deleting
      BY <1>5 DEF Delete
    <2>3. /\ new.uid = cr.uid /\ new.rv = cr.rv + 1 /\ new.spec = cr.spec /\ new.deleting
          /\ cr.rv \in Nat /\ cr.fin \subseteq new.fin
          /\ (CSI \in new.fin <=> CSI \in cr.fin)
      BY DEF CSI, Foreground
    <2> HIDE DEF new
    <2>4. (cr' = NoCR /\ new.fin = {}) \/ (cr' = new /\ new.fin # {})
      BY <2>1, <2>3 DEF Stored, new
    <2>5. CASE cr' = NoCR /\ new.fin = {}
      <3>1. CSI \notin cr.fin
        BY <2>3, <2>5
      <3>2. seen.uid = 0 => seen = NoCR
        BY DEF Stages
      <3>3. Versioned(cache)' /\ Versioned(seen)' /\ WellFormed(cr)' /\ WellFormed(cache)'
        BY <2>2, <2>5, <3>2
      <3>4. UidBound' /\ LiveInCache' /\ DeletionStays' /\ InstallGuarded'
        BY <2>2, <2>5, <3>1
      <3>5. RemovalKnown' /\ AddingKnown'
        BY <2>2, <2>5
      <3> QED
        BY <3>3, <3>4, <3>5
    <2>6. CASE cr' = new /\ new.fin # {}
      BY <2>2, <2>3, <2>6
    <2> QED
      BY <2>4, <2>5, <2>6
  <1>6. CASE StatusEvent
    BY <1>6 DEF StatusEvent
  <1>7. CASE Restart
    BY <1>7 DEF Restart, Fault, Return
  <1>8. ASSUME NEW o \in Objects, CollectGarbage(o) PROVE GuardInv'
    BY <1>8 DEF CollectGarbage
  <1>9. ASSUME NEW o \in Objects, Disturb(o) PROVE GuardInv'
    BY <1>9 DEF Disturb, Fault
  <1>10. ASSUME NEW n \in Nodes, LoseLabel(n) PROVE GuardInv'
    BY <1>10 DEF LoseLabel, Fault
  <1>11. ASSUME NEW account \in Accounts, ChangeBinding(account) PROVE GuardInv'
    BY <1>11 DEF ChangeBinding, Fault
  <1>12. CASE SyncScheduler
    BY <1>12 DEF SyncScheduler
  <1> QED
    BY <1>1, <1>2, <1>3, <1>4, <1>5, <1>6, <1>7, <1>8, <1>9, <1>10, <1>11, <1>12 DEF GarbageCollector, Environment

\* Every step keeps the protocol.
LEMMA NextGuard == GuardInv /\ [Next]_vars => GuardInv'
  <1> SUFFICES ASSUME GuardInv, [Next]_vars PROVE GuardInv'
    OBVIOUS
  <1>1. TypeOK'
    BY NextType DEF GuardInv
  <1>2. CASE Next
    <2>1. InstallStep \/ RemovalStep \/ Sync \/ SyncScheduler \/ GarbageCollector \/ Environment
      BY <1>2 DEF Next, Reconcile, InstallStep, RemovalStep
    <2> QED
      BY <1>1, <2>1, InstallGuard, RemovalGuard, EnvironmentGuard
  <1>3. CASE UNCHANGED vars
    BY <1>3 DEF vars, worker, world, bounds, GuardInv, TypeOK, UidBound, Versioned, WellFormed,
       LiveInCache, DeletionStays, InstallGuarded, RemovalKnown, AddingKnown, Installing,
       Removing, Unpatching
  <1> QED
    BY <1>2, <1>3

\* Only these steps write the CR.
CrWritten == Create \/ Edit \/ Delete \/ AddFinalizer \/ RemoveFinalizer \/ FinishForeground
LEMMA OthersKeepCr ==
  ASSUME [Next]_vars, ~CrWritten
  PROVE  UNCHANGED cr
  <1>1. CASE Reconcile
    BY <1>1
    DEF CrWritten, Reconcile, Get, UpdateNodeController, SkipNode, LabelNodes, UpdateNode,
        UpdateController, UpdateExtender, PatchConfig, PatchScheduler, UpdateVanillaDaemonset,
        UpdateReadiness, DeletePatcher, DeletePatcherConfig, RetryDelete, DeletePolicy,
        UnpatchScheduler, CleanNodeLabels, ReconcileNodes
  <1>2. CASE Fail \/ UpdateVanillaFails \/ Sync \/ SyncScheduler \/ UNCHANGED vars
    BY <1>2 DEF Fail, UpdateVanillaFails, Sync, SyncScheduler, vars
  <1>3. CASE GarbageCollector
    BY <1>3 DEF CrWritten, GarbageCollector, CollectGarbage
  <1>4. CASE Environment
    BY <1>4 DEF CrWritten, Environment, StatusEvent, Restart, Disturb, LoseLabel, ChangeBinding
  <1> QED
    BY <1>1, <1>2, <1>3, <1>4 DEF Next

\* What was guarded is guarded, or the finalizer is being removed.
LEMMA GuardStays ==
  ASSUME GuardInv, Guard, [Next]_vars
  PROVE  Guard' \/ (RemoveFinalizer /\ Current(seen))
  <1> USE DEF Guard, Exists
  <1>1. CASE ~CrWritten
    BY <1>1, OthersKeepCr
  <1>2. CASE Create \/ FinishForeground
    <2>1. CASE Create
      BY <2>1 DEF Create, GuardInv, WellFormed
    <2>2. CASE FinishForeground
      <3> DEFINE new == [cr EXCEPT !.rv = @ + 1, !.fin = @ \ {Foreground}]
      <3>1. cr' = Stored(new)
        BY <2>2 DEF FinishForeground
      <3>2. new.uid = cr.uid /\ CSI \in new.fin
        BY DEF GuardInv, TypeOK, CRs, CSI, Foreground
      <3> HIDE DEF new
      <3>3. cr' = new
        BY <3>1, <3>2 DEF Stored
      <3> QED
        BY <3>2, <3>3
    <2> QED
      BY <1>2, <2>1, <2>2
  <1>3. CASE Edit
    BY <1>3 DEF Edit, GuardInv, TypeOK, CRs
  <1>4. CASE Delete
    <2>1. PICK extra \in SUBSET {Foreground} :
            cr' = Stored([cr EXCEPT !.rv = @ + 1, !.deleting = TRUE, !.fin = @ \cup extra])
      BY <1>4 DEF Delete
    <2> DEFINE new == [cr EXCEPT !.rv = @ + 1, !.deleting = TRUE, !.fin = @ \cup extra]
    <2>2. new.uid = cr.uid /\ new.fin = cr.fin \cup extra
      BY DEF GuardInv, TypeOK, CRs
    <2>3. cr' = new
      BY <2>1, <2>2 DEF Stored
    <2> QED
      BY <2>2, <2>3
  <1>5. CASE AddFinalizer
    BY <1>5 DEF AddFinalizer, Current, GuardInv, TypeOK, CRs
  <1>6. CASE RemoveFinalizer
    BY <1>6 DEF RemoveFinalizer
  <1> QED
    BY <1>1, <1>2, <1>3, <1>4, <1>5, <1>6 DEF CrWritten

\* Only a worker that installs labels nodes.
LEMMA OthersUnlabel == ASSUME TypeOK, [Next]_vars, ~LabelNodes, NoLabels PROVE NoLabels'
  <1> USE DEF world, TypeOK, NoLabels, Takes, Objects
  <1>1. CASE Reconcile
    BY <1>1
    DEF Reconcile, Get, AddFinalizer, UpdateNodeController, SkipNode, UpdateNode,
        UpdateController, UpdateExtender, PatchConfig, PatchScheduler, UpdateVanillaDaemonset,
        UpdateReadiness, DeletePatcher, DeletePatcherConfig, RetryDelete, DeletePolicy,
        UnpatchScheduler, CleanNodeLabels, RemoveFinalizer, ReconcileNodes, Apply, Remove
  <1>2. CASE Fail \/ UpdateVanillaFails \/ Sync \/ SyncScheduler \/ UNCHANGED vars
    BY <1>2 DEF Fail, UpdateVanillaFails, Sync, SyncScheduler, vars
  <1>3. CASE GarbageCollector
    BY <1>3 DEF GarbageCollector, CollectGarbage, FinishForeground, Remove
  <1>4. CASE Environment
    BY <1>4 DEF Environment, Create, Edit, Delete, StatusEvent, Restart, Disturb, LoseLabel,
                ChangeBinding, Remove
  <1> QED
    BY <1>1, <1>2, <1>3, <1>4 DEF Next

\* The finalizer's turn comes after the labels'.
LEMMA ToFinalizer ==
  ASSUME [Next]_vars, pc' = "removeFinalizer", pc # "removeFinalizer"
  PROVE  CleanNodeLabels
  <1> USE DEF Go, Return, Requeue
  <1>1. CASE Reconcile
    BY <1>1
    DEF Reconcile, Get, FirstStage, AddFinalizer, UpdateNodeController, SkipNode, LabelNodes,
        UpdateNode, UpdateController, UpdateExtender, PatchConfig, PatchScheduler,
        UpdateVanillaDaemonset, AfterPatch, UpdateReadiness, DeletePatcher, DeletePatcherConfig,
        RetryDelete, DeletePolicy, UnpatchScheduler, RemoveFinalizer, ReconcileNodes
  <1>2. CASE ~Reconcile
    BY <1>2
    DEF Next, vars, worker, Fail, UpdateVanillaFails, AfterPatch, Sync, SyncScheduler, GarbageCollector,
        CollectGarbage, FinishForeground, Environment, Create, Edit, Delete, StatusEvent,
        Restart, Disturb, LoseLabel, ChangeBinding
  <1> QED
    BY <1>1, <1>2

\* The labels are guarded, and gone when the finalizer's turn has come.
LEMMA NextLabel ==
  ASSUME GuardInv, LabelInv, [Next]_vars
  PROVE  LabelInv'
  <1> USE DEF LabelInv, LabelsGuarded
  <1>0. TypeOK
    BY DEF GuardInv
  <1>1. CASE LabelNodes
    <2>1. pc = "nodeLabels" /\ pc' # "removeFinalizer" /\ UNCHANGED cr
      BY <1>1 DEF LabelNodes, Go, Requeue, Return
    <2>2. CASE seen.deleting
      BY <1>1, <2>1, <2>2 DEF LabelNodes, Takes, NoLabels
    <2>3. CASE ~seen.deleting
      <3>1. Guard
        BY <2>1, <2>3 DEF GuardInv, InstallGuarded, Installing, InstallStages, Guard, Exists
      <3> QED
        BY <2>1, <3>1 DEF Guard
    <2> QED
      BY <2>2, <2>3
  <1>2. CASE ~LabelNodes
    <2>1. NoLabels => NoLabels'
      BY <1>0, <1>2, OthersUnlabel
    <2>2. LabelsGuarded'
      BY <2>1, GuardStays DEF RemoveFinalizer
    <2>3. pc' = "removeFinalizer" => NoLabels'
      <3>1. CASE pc = "removeFinalizer"
        BY <2>1, <3>1
      <3>2. CASE CleanNodeLabels
        BY <3>2 DEF CleanNodeLabels, NoLabels
      <3> QED
        BY <3>1, <3>2, ToFinalizer
    <2> QED
      BY <2>2, <2>3
  <1> QED
    BY <1>1, <1>2

\* Steps that neither make the policy nor leave its removal's excuse; and the same of the
\* patch.
KeepsPolicy == NoPolicy => NoPolicy'
KeepsPatch  == NoPatch => NoPatch'

\* The policy and the patch are made by the worker's two stages of patching alone, and not
\* for a CR on its way without being missed from the start.
LEMMA OthersUnpatch ==
  ASSUME TypeOK, [Next]_vars
  PROVE  /\ ~PatchConfig \/ seen.deleting => KeepsPolicy
         /\ ~PatchScheduler \/ seen.deleting => KeepsPatch
  <1> USE DEF world, KeepsPolicy, KeepsPatch, NoPolicy, NoPatch
  <1>1. ASSUME NEW o \in Objects, Remove(o)
        PROVE  KeepsPolicy /\ KeepsPatch
    BY <1>1 DEF Remove, Present, TypeOK, Objects, NoObject
  <1>2. ASSUME NEW o \in Objects \ {"policy"}, Apply(o)
        PROVE  KeepsPolicy /\ KeepsPatch
    BY <1>2 DEF Apply, Present, TypeOK, Objects
  <1>3. CASE UpdateNodeController \/ UpdateNode \/ UpdateController \/ UpdateExtender
             \/ UpdateVanillaDaemonset \/ UpdateReadiness
    <2>1. UNCHANGED world \/ \E o \in Objects \ {"policy"} : Apply(o)
      BY <1>3 DEF UpdateNodeController, UpdateNode, UpdateController, UpdateExtender,
                  UpdateVanillaDaemonset, UpdateReadiness, Objects
    <2> QED
      BY <1>2, <2>1 DEF Present
  <1>4. CASE DeletePatcher \/ DeletePatcherConfig \/ DeletePolicy
    <2>1. CASE UNCHANGED world \/ \E o \in Objects : Remove(o)
      BY <1>1, <2>1 DEF Present
    <2>2. CASE DeletePolicy /\ ~Remove("policy")
      BY <2>2 DEF DeletePolicy, Present
    <2> QED
      BY <1>4, <2>1, <2>2 DEF DeletePatcher, DeletePatcherConfig, RetryDelete, DeletePolicy, Objects
  <1>5. CASE PatchConfig
    <2>1. CASE OpenShift
      BY <1>5, <2>1 DEF PatchConfig, Apply, Takes
    <2>2. CASE ~OpenShift
      <3>1. Apply("patcherConfig") /\ "patcherConfig" \in Objects \ {"policy"}
        BY <1>5, <2>2 DEF PatchConfig, Objects
      <3> QED
        BY <1>2, <3>1
    <2> QED
      BY <2>1, <2>2
  <1>6. CASE Get \/ AddFinalizer \/ SkipNode \/ LabelNodes \/ CleanNodeLabels
             \/ RemoveFinalizer \/ ReconcileNodes
    BY <1>6 DEF Get, AddFinalizer, SkipNode, LabelNodes, CleanNodeLabels, RemoveFinalizer,
                ReconcileNodes, Present, Takes
  <1>7. CASE PatchScheduler
    BY <1>7 DEF PatchScheduler, Present, Takes, TypeOK
  <1>8. CASE UnpatchScheduler
    BY <1>8 DEF UnpatchScheduler, Present, TypeOK
  <1>9. CASE Fail \/ UpdateVanillaFails \/ Sync \/ SyncScheduler \/ UNCHANGED vars
    BY <1>9 DEF Fail, UpdateVanillaFails, Sync, SyncScheduler, vars, Present
  <1>10. CASE GarbageCollector
    BY <1>1, <1>10 DEF GarbageCollector, CollectGarbage, FinishForeground, Present
  <1>11. CASE Environment
    <2>1. UNCHANGED <<applied, patched, missed>> \/ \E o \in Objects : Remove(o)
      BY <1>11 DEF Environment, Create, Edit, Delete, StatusEvent, Restart, Disturb, LoseLabel,
                  ChangeBinding
    <2> QED
      BY <1>1, <2>1 DEF Present
  <1> QED
    BY <1>3, <1>4, <1>5, <1>6, <1>7, <1>8, <1>9, <1>10, <1>11 DEF Next, Reconcile

\* A worker comes to a stage of patching with a spec that asks for it, and to one of
\* Uninstall past those that undo the patch, if there may be any.
LEMMA PatchStep ==
  ASSUME PatchingAgreed, GuardInv, UnpatchProgress, PatchScope, [Next]_vars
  PROVE  UnpatchProgress' /\ PatchScope'
  <1> USE DEF UnpatchProgress, PatchScope, PatchStages, UnpatchStages, UninstallStages,
              InstallStages, Go, Return, Requeue
  <1>0. TypeOK /\ (Exists(cache) => cache.spec \in 1 .. MaxSpec)
    BY DEF GuardInv, WellFormed
  <1>1. ASSUME ~PatchConfig, ~PatchScheduler PROVE Unpatched => Unpatched'
    BY <1>0, <1>1, OthersUnpatch DEF Unpatched, KeepsPolicy, KeepsPatch
  <1>2. ASSUME ~PatchConfig, ~PatchScheduler, pc' = "idle" PROVE UnpatchProgress' /\ PatchScope'
    BY <1>1, <1>2
  <1>3. ASSUME ~PatchConfig, ~PatchScheduler, UNCHANGED <<pc, retrying>>
        PROVE  UnpatchProgress' /\ PatchScope'
    BY <1>0, <1>1, <1>3, OthersUnpatch DEF KeepsPolicy
  <1>4. CASE Get
    <2>1. UNCHANGED <<applied, patched, missed, retrying>> /\ ~retrying
      BY <1>0, <1>4 DEF Get, TypeOK, world
    <2>2. pc' = "deletePolicy" => Patching # {}
      BY <1>4 DEF Get, FirstStage
    <2>3. pc' = "unlabel" => Unpatched
      BY <1>0, <1>4 DEF Get, FirstStage, PatchingAgreed
    <2>4. pc' \in {"idle", "nodeController", "addFinalizer", "deletePolicy", "unlabel"}
      BY <1>4 DEF Get, FirstStage
    <2> QED
      BY <2>1, <2>2, <2>3, <2>4 DEF Unpatched, NoPolicy, NoPatch, Present
  <1>5. CASE AddFinalizer \/ UpdateNodeController \/ SkipNode \/ LabelNodes \/ UpdateNode
             \/ UpdateController \/ ReconcileNodes \/ RemoveFinalizer
    <2>1. /\ ~PatchConfig /\ ~PatchScheduler
          /\ pc' \in {"idle", "nodeController", "nodeLabels", "node", "controller", "extender"}
      BY <1>5 DEF AddFinalizer, UpdateNodeController, SkipNode, LabelNodes, UpdateNode,
                  UpdateController, ReconcileNodes, RemoveFinalizer, PatchConfig, PatchScheduler
    <2> QED
      BY <1>1, <2>1
  <1>6. CASE UpdateExtender
    <2>1. pc = "extender" /\ pc' \in {"patchConfig", "reconcileNodes"}
          /\ (pc' = "patchConfig" => Patching # {})
      BY <1>6 DEF UpdateExtender
    <2> QED
      BY <1>1, <2>1 DEF PatchConfig, PatchScheduler
  <1>7. CASE PatchConfig
    <2>1. pc = "patchConfig" /\ pc' = "patch" /\ UNCHANGED patched
      BY <1>7 DEF PatchConfig, Apply
    <2>2. ~OpenShift => UNCHANGED <<applied["policy"], missed>>
      BY <1>0, <1>7 DEF PatchConfig, Apply, TypeOK, Objects
    <2> QED
      BY <2>1, <2>2 DEF Unpatched, NoPolicy, NoPatch, Present
  <1>8. CASE PatchScheduler
    <2>1. pc = "patch" /\ OpenShift /\ pc' \in {"idle", "readiness", "reconcileNodes"}
      BY <1>8 DEF PatchScheduler, AfterPatch
    <2> QED
      BY <2>1
  <1>9. CASE UpdateVanillaDaemonset \/ UpdateVanillaFails
    <2>1. pc \in {"patchConfig", "patch"} /\ pc' \in {"readiness", "reconcileNodes"}
          /\ ~PatchConfig /\ ~PatchScheduler
      BY <1>9 DEF UpdateVanillaDaemonset, UpdateVanillaFails, AfterPatch, PatchConfig,
                  PatchScheduler
    <2> QED
      BY <1>1, <2>1
  <1>10. CASE UpdateReadiness \/ DeletePatcher \/ DeletePatcherConfig
    <2>1. /\ pc \in {"readiness", "deletePatcher", "deletePatcherConfig"}
          /\ pc' \in {"idle", "reconcileNodes", "patchConfig", "deletePolicy", "deletePatcher",
                      "deletePatcherConfig"}
      BY <1>10 DEF UpdateReadiness, DeletePatcher, DeletePatcherConfig, RetryDelete
    <2> QED
      BY <1>1, <2>1 DEF PatchConfig, PatchScheduler
  <1>11. CASE DeletePolicy
    <2>1. pc = "deletePolicy" /\ pc' = "unpatchScheduler" /\ UNCHANGED retrying
      BY <1>11 DEF DeletePolicy
    <2>2. NoPolicy'
      BY <1>0, <1>11 DEF DeletePolicy, NoPolicy, Remove, Present, NoObject, TypeOK, Objects
    <2> QED
      BY <1>1, <2>1, <2>2 DEF PatchConfig, PatchScheduler
  <1>12. CASE UnpatchScheduler
    <2>1. pc = "unpatchScheduler" /\ UNCHANGED applied
      BY <1>12 DEF UnpatchScheduler
    <2>2. pc' \in {"idle", "patchConfig", "unlabel"} /\ (pc' = "patchConfig" => Patching # {})
      BY <1>12, <2>1 DEF UnpatchScheduler
    <2>3. pc' = "unlabel" => ~retrying
      BY <1>12 DEF UnpatchScheduler
    <2>4. NoPatch'
      BY <1>0, <1>12 DEF UnpatchScheduler, NoPatch, TypeOK
    <2>5. NoPolicy => NoPolicy'
      BY <1>12 DEF UnpatchScheduler, NoPolicy, Present
    <2> QED
      BY <1>1, <2>1, <2>2, <2>3, <2>4, <2>5 DEF Unpatched, PatchConfig, PatchScheduler
  <1>13. CASE CleanNodeLabels
    <2>1. pc = "unlabel" /\ pc' = "removeFinalizer"
      BY <1>13 DEF CleanNodeLabels
    <2> QED
      BY <1>1, <2>1 DEF PatchConfig, PatchScheduler
  <1>14. CASE Sync \/ SyncScheduler \/ GarbageCollector \/ Environment \/ UNCHANGED vars
    <2>1. pc' = "idle" \/ UNCHANGED <<pc, retrying>>
      BY <1>14 DEF Sync, SyncScheduler, GarbageCollector, CollectGarbage, FinishForeground, Environment,
                   Create, Edit, Delete, StatusEvent, Restart, Disturb, LoseLabel,
                   ChangeBinding, vars, worker
    <2> QED
      BY <1>2, <1>3, <1>7, <1>8, <2>1
  <1>15. CASE Fail
    <2>1. pc' = "idle" /\ UNCHANGED <<applied, patched, missed>>
      BY <1>15 DEF Fail, world
    <2> QED
      BY <2>1 DEF Unpatched, NoPolicy, NoPatch, Present
  <1> QED
    BY <1>4, <1>5, <1>6, <1>7, <1>8, <1>9, <1>10, <1>11, <1>12, <1>13, <1>14, <1>15
       DEF Next, Reconcile

\* The patch is guarded, and gone when the labels' turn has come, in a cluster where every
\* spec version agrees on patching.
LEMMA NextPatch ==
  ASSUME PatchingAgreed, GuardInv, PatchInv, [Next]_vars
  PROVE  PatchInv'
  <1>0. TypeOK /\ PatchesGuarded /\ UnpatchProgress /\ PatchScope
    BY DEF GuardInv, PatchInv
  <1>1. PatchesGuarded'
    <2>1. CASE (PatchConfig \/ PatchScheduler) /\ ~seen.deleting
      <3>1. pc \in InstallStages /\ UNCHANGED cr
        BY <2>1 DEF PatchConfig, PatchScheduler, InstallStages
      <3>2. Guard
        BY <2>1, <3>1 DEF GuardInv, InstallGuarded, Installing, Guard, Exists
      <3> QED
        BY <3>1, <3>2 DEF PatchesGuarded, Guard
    <2>2. CASE ~(PatchConfig \/ PatchScheduler) \/ seen.deleting
      <3>1. Unpatched => Unpatched'
        BY <1>0, <2>2, OthersUnpatch DEF Unpatched, KeepsPolicy, KeepsPatch
      <3>2. RemoveFinalizer => Unpatched
        BY <1>0 DEF RemoveFinalizer, UnpatchProgress, UninstallStages
      <3> QED
        BY <1>0, <3>1, <3>2, GuardStays DEF PatchesGuarded
    <2> QED
      BY <2>1, <2>2
  <1> QED
    BY <1>0, <1>1, PatchStep DEF PatchInv

\* The protocol holds, and so does the whole if the specs agree on patching.
LEMMA GuardHolds == Spec => []GuardInv
  <1>1. Init => GuardInv
    BY InitInv DEF IInv
  <1> QED
    BY <1>1, NextGuard, PTL DEF Spec

LEMMA LabelHolds == Spec => [](GuardInv /\ LabelInv)
  <1>1. Init => GuardInv /\ LabelInv
    BY InitInv DEF IInv
  <1>2. GuardInv /\ LabelInv /\ [Next]_vars => (GuardInv /\ LabelInv)'
    BY NextGuard, NextLabel
  <1> QED
    BY <1>1, <1>2, PTL DEF Spec

LEMMA NextInv == ASSUME PatchingAgreed PROVE IInv /\ [Next]_vars => IInv'
  BY NextGuard, NextLabel, NextPatch DEF IInv

LEMMA InvHolds == ASSUME PatchingAgreed PROVE Spec => []IInv
  BY InitInv, NextInv, PTL DEF Spec

\* What is left of SideEffectsGuarded, below, if the specs do not agree on patching: no
\* node has a platform label, but for what was missed, unless a CR holds the finalizer.
THEOREM NodesGuarded == Spec => []LabelsGuarded
  <1>1. GuardInv /\ LabelInv => LabelsGuarded
    BY DEF LabelInv
  <1> QED
    BY <1>1, LabelHolds, PTL

\* The invariant says what it is meant to say.
LEMMA SideEffectsSafe == IInv => SideEffectsGuarded
  BY DEF IInv, LabelInv, PatchInv, LabelsGuarded, PatchesGuarded, Unpatched, NoLabels,
         NoPolicy, NoPatch, Guard, SideEffectsGuarded, SideEffects

\* Platform labels, the kube-scheduler policy and its patch exist only while a CR holds the
\* finalizer whose removal undoes them, whichever requests fail and however old the
\* worker's copies are: what is left without it is what a request failed to undo, what
\* the copy of the Scheduler did not show, or what was installed for a CR on its way.
THEOREM Guarded == ASSUME PatchingAgreed PROVE Spec => []SideEffectsGuarded
  BY SideEffectsSafe, InvHolds, PTL

\* Once the CR is gone, what Uninstall cleans stays clean, but for the same. (Without agreement on patching
\* the run DeploymentReconcilerPatcherDisabled shows a counterexample.)
THEOREM Cleaned == ASSUME PatchingAgreed PROVE Spec => []UninstallCleans
  <1>1. IInv => UninstallCleans
    BY SideEffectsSafe DEF SideEffectsGuarded, UninstallCleans
  <1> QED
    BY <1>1, InvHolds, PTL

\* Objects are created for existing CRs only.
OwnersExistStep ==
  \A o \in Objects \ {"policy"} :
     ~Present(o) /\ Present(o)' /\ ~seen.deleting
       => Exists(cr) /\ applied'[o].owner = cr.uid

\* A step that creates an object finds the CR it is created for in the API server.
LEMMA OwnersStep == ASSUME GuardInv, [Next]_vars PROVE [OwnersExistStep]_vars
  <1> SUFFICES ASSUME NEW o \in Objects \ {"policy"}, ~Present(o), Present(o)',
                      ~seen.deleting
               PROVE  Exists(cr) /\ applied'[o].owner = cr.uid
    BY DEF OwnersExistStep
  <1>1. PICK p \in Objects : Installing /\ Apply(p)
    <2>1. ~UNCHANGED applied
      BY DEF Present
    <2>2. CASE Reconcile
      <3>1. \/ UpdateNodeController \/ UpdateNode \/ UpdateController \/ UpdateExtender
            \/ PatchConfig \/ UpdateVanillaDaemonset \/ UpdateReadiness
            \/ DeletePatcher \/ DeletePatcherConfig \/ DeletePolicy
        BY <2>1, <2>2 DEF Reconcile, Get, AddFinalizer, SkipNode, LabelNodes, PatchScheduler,
           UnpatchScheduler, CleanNodeLabels, RemoveFinalizer, ReconcileNodes, world
      <3>2. ASSUME NEW q \in Objects, Remove(q) PROVE FALSE
        BY <3>2 DEF Remove, Present, NoObject, GuardInv, TypeOK
      <3> QED
        BY <2>1, <3>1, <3>2 DEF UpdateNodeController, UpdateNode, UpdateController,
           UpdateExtender, PatchConfig, UpdateVanillaDaemonset, UpdateReadiness,
           DeletePatcher, DeletePatcherConfig, DeletePolicy, RetryDelete, world,
           Installing, InstallStages, Objects
    <2>3. CASE ~Reconcile
      <3>1. ASSUME NEW q \in Objects, Remove(q) PROVE FALSE
        BY <3>1 DEF Remove, Present, NoObject, GuardInv, TypeOK
      <3> QED
        BY <2>1, <2>3, <3>1 DEF Next, vars, Fail, UpdateVanillaFails, Sync, SyncScheduler, GarbageCollector,
           FinishForeground, CollectGarbage, Environment, Create, Edit, Delete, StatusEvent,
           Restart, Disturb, LoseLabel, ChangeBinding, world
    <2> QED
      BY <2>2, <2>3
  <1> QED
    BY <1>1 DEF Apply, Written, Present, InstallGuarded, Exists, GuardInv, TypeOK

\* The worker never creates an object for a CR that is gone, although it goes by a copy and
\* although requests of Uninstall fail: no object is born without an owner to be collected
\* with, unless the worker knows that the CR is being deleted.
THEOREM OwnersGuarded == Spec => OwnersExist
  <1>1. GuardInv /\ [Next]_vars => [OwnersExistStep]_vars
    BY OwnersStep
  <1> QED
    BY <1>1, GuardHolds, PTL DEF Spec, OwnersExist, OwnersExistStep

-----------------------------------------------------------------------------
\* Edits are kept, whatever fails

\* c is a version of the CR k that was stored, or of an earlier CR; m CRs have been created.
CopyOf(c, k, m) ==
  /\ c \in CRs /\ c.uid <= m
  /\ c.uid = 0 => c = NoCR
  /\ c.uid = k.uid => c.rv <= k.rv /\ (c.rv = k.rv => c = k)

\* How the stored CR k may become k2: kept, written again or removed, created.
CrNext(k, k2, m, m2) ==
  \/ k2 = k /\ m2 = m
  \/ /\ k.uid # 0 /\ m2 = m
     /\ k2 = NoCR \/ (k2 \in CRs /\ k2.uid = k.uid /\ k2.rv = k.rv + 1)
  \/ k.uid = 0 /\ m2 = m + 1 /\ k2 \in CRs /\ k2.uid = m + 1

CopyInv ==
  /\ TypeOK /\ (pc # "idle" => Exists(seen))
  /\ CopyOf(cr, cr, creations) /\ CopyOf(cache, cr, creations) /\ CopyOf(seen, cr, creations)

\* Copies stay copies when the CR moves on, and so does the CR of itself.
LEMMA CopyStays ==
  ASSUME NEW k, NEW k2, NEW m \in Nat, NEW m2 \in Nat, NEW c,
         CopyOf(k, k, m), CopyOf(c, k, m), CrNext(k, k2, m, m2)
  PROVE  CopyOf(c, k2, m2) /\ CopyOf(k2, k2, m2) /\ CopyOf(NoCR, k2, m2)
  <1>1. c \in CRs /\ k \in CRs /\ NoCR \in CRs /\ k2 \in CRs
    BY NoCRType DEF CopyOf, CrNext
  <1>2. NoCR.uid = 0 /\ NoCR.rv = 0
    BY DEF NoCR
  <1>3. CASE k2 = k /\ m2 = m
    BY <1>1, <1>2, <1>3 DEF CopyOf, CRs
  <1>4. CASE k.uid # 0 /\ m2 = m /\ k2 = NoCR
    BY <1>1, <1>2, <1>4 DEF CopyOf, CRs
  <1>5. CASE k.uid # 0 /\ m2 = m /\ k2.uid = k.uid /\ k2.rv = k.rv + 1
    BY <1>1, <1>2, <1>5 DEF CopyOf, CRs
  <1>6. CASE k.uid = 0 /\ m2 = m + 1 /\ k2.uid = m + 1
    BY <1>1, <1>2, <1>6 DEF CopyOf, CRs
  <1> QED
    BY <1>3, <1>4, <1>5, <1>6 DEF CrNext

EditKept == cr'.uid = cr.uid => cr'.spec >= cr.spec

\* The next version of a CR: its finalizers replaced, its spec raised, its deletion begun.
NextVersion(c, new) ==
  new \in CRs /\ new.uid = c.uid /\ new.rv = c.rv + 1 /\ new.spec >= c.spec

\* A finalizer more or less is a version.
LEMMA FinalizersVersion ==
  ASSUME NEW c \in CRs, NEW fin \in SUBSET {CSI, Foreground}
  PROVE  NextVersion(c, [c EXCEPT !.rv = @ + 1, !.fin = fin])
  <1> DEFINE new == [c EXCEPT !.rv = @ + 1, !.fin = fin]
  <1>1. new \in CRs
    BY WriteType
  <1>2. c.spec \in Nat /\ new.uid = c.uid /\ new.rv = c.rv + 1 /\ new.spec = c.spec
    BY DEF CRs
  <1> HIDE DEF new
  <1>3. NextVersion(c, new)
    BY <1>1, <1>2 DEF NextVersion
  <1> QED
    BY <1>3 DEF new

\* So is an edit within the bound.
LEMMA EditVersion ==
  ASSUME NEW c \in CRs, c.spec < MaxSpec
  PROVE  NextVersion(c, [c EXCEPT !.rv = @ + 1, !.spec = @ + 1])
  <1> DEFINE new == [c EXCEPT !.rv = @ + 1, !.spec = @ + 1]
  <1>1. c.rv + 1 \in Nat /\ c.spec + 1 \in 0 .. MaxSpec
    BY ReconcilerAssumption DEF CRs
  <1>2. new \in CRs
    BY <1>1 DEF CRs
  <1>3. c.spec \in Nat /\ new.uid = c.uid /\ new.rv = c.rv + 1 /\ new.spec = c.spec + 1
    BY DEF CRs
  <1> HIDE DEF new
  <1>4. NextVersion(c, new)
    BY <1>2, <1>3 DEF NextVersion
  <1> QED
    BY <1>4 DEF new

\* So is a deletion timestamp, with or without the foreground finalizer.
LEMMA DeletionVersion ==
  ASSUME NEW c \in CRs, NEW extra \in SUBSET {Foreground}
  PROVE  NextVersion(c, [c EXCEPT !.rv = @ + 1, !.deleting = TRUE, !.fin = @ \cup extra])
  <1> DEFINE new == [c EXCEPT !.rv = @ + 1, !.deleting = TRUE, !.fin = @ \cup extra]
  <1>1. c.fin \cup extra \in SUBSET {CSI, Foreground} /\ c.rv + 1 \in Nat
    BY DEF CRs
  <1>2. new \in CRs
    <2>1. [c EXCEPT !.rv = c.rv + 1] \in CRs
      BY <1>1 DEF CRs
    <2>2. [c EXCEPT !.rv = c.rv + 1, !.deleting = TRUE] \in CRs
      BY <2>1 DEF CRs
    <2> QED
      BY <1>1, <2>2 DEF CRs
  <1>3. c.spec \in Nat /\ new.uid = c.uid /\ new.rv = c.rv + 1 /\ new.spec = c.spec
    BY DEF CRs
  <1> HIDE DEF new
  <1>4. NextVersion(c, new)
    BY <1>2, <1>3 DEF NextVersion
  <1> QED
    BY <1>4 DEF new

\* The worker after a step: idle without a copy, or at work with one.
SeenKept == seen' = seen /\ (pc' # "idle" => pc # "idle")
SeenDropped == seen' = NoCR /\ pc' = "idle"

CrStepped ==
  /\ CrNext(cr, cr', creations, creations') /\ EditKept
  /\ cache' \in {cache, cr'} /\ seen' \in {seen, cache, cr', NoCR}
  /\ pc' # "idle" => Exists(seen)'

\* A copy with the stored resourceVersion is the stored CR.
LEMMA CurrentCopy ==
  ASSUME CopyOf(seen, cr, creations), Current(seen)
  PROVE  seen = cr
  BY DEF CopyOf, Current

\* A write of the stored CR with a spec that is not older: the next version, or none if
\* it was being deleted and has lost its last finalizer.
LEMMA WriteNext ==
  ASSUME cr \in CRs, Exists(cr), UNCHANGED creations, NEW new, NextVersion(cr, new),
         cr' = Stored(new) \/ cr' = new
  PROVE  CrNext(cr, cr', creations, creations') /\ EditKept
  BY DEF NextVersion, Stored, CrNext, EditKept, Exists, NoCR, CRs

\* What the worker's requests do to the CR and to its copy, other than the two writes.
LEMMA WorkerQuiet ==
  ASSUME Reconcile \/ Fail \/ UpdateVanillaFails
  PROVE  \/ Get \/ AddFinalizer \/ RemoveFinalizer
         \/ UNCHANGED <<cr, cache, creations>> /\ (SeenKept \/ SeenDropped)
  <1> USE DEF bounds, Go, Return, Requeue, Fault, SeenKept, SeenDropped
  <1>1. CASE UpdateNodeController \/ SkipNode \/ UpdateNode \/ UpdateController
             \/ UpdateExtender \/ PatchConfig \/ PatchScheduler \/ UpdateVanillaDaemonset
    BY <1>1 DEF UpdateNodeController, SkipNode, UpdateNode, UpdateController, UpdateExtender,
                PatchConfig, PatchScheduler, UpdateVanillaDaemonset
  <1>2. CASE LabelNodes \/ UpdateReadiness \/ ReconcileNodes \/ CleanNodeLabels
    BY <1>2 DEF LabelNodes, UpdateReadiness, ReconcileNodes, CleanNodeLabels
  <1>3. CASE DeletePatcher \/ DeletePatcherConfig
    BY <1>3 DEF DeletePatcher, DeletePatcherConfig, RetryDelete
  <1>4. CASE DeletePolicy \/ UnpatchScheduler
    BY <1>4 DEF DeletePolicy, UnpatchScheduler
  <1>5. CASE Fail \/ UpdateVanillaFails
    BY <1>5 DEF Fail, UpdateVanillaFails
  <1> QED
    BY <1>1, <1>2, <1>3, <1>4, <1>5 DEF Reconcile

\* Every step takes the CR from one version to the next and keeps its spec or raises it;
\* the copies become the CR, another copy, or none.
LEMMA CrStep == ASSUME CopyInv, [Next]_vars PROVE CrStepped
  <1> USE DEF bounds
  <1>0. cr \in CRs /\ seen \in CRs /\ cache \in CRs /\ creations \in Nat
    BY DEF CopyInv, TypeOK
  <1>1. ASSUME UNCHANGED <<cr, creations>>
        PROVE  CrNext(cr, cr', creations, creations') /\ EditKept
    BY <1>0, <1>1 DEF CrNext, EditKept, CRs
  <1>2. ASSUME UNCHANGED <<cr, cache, creations>>, SeenKept \/ SeenDropped PROVE CrStepped
    BY <1>1, <1>2 DEF CrStepped, SeenKept, SeenDropped, CopyInv, Exists
  <1>3. CASE Get
    <2>1. UNCHANGED <<cr, cache, creations>>
      BY <1>3 DEF Get
    <2>2. CASE Exists(cache)
      BY <1>1, <1>3, <2>1, <2>2 DEF Get, CrStepped, Exists
    <2>3. CASE ~Exists(cache)
      BY <1>2, <1>3, <2>1, <2>3 DEF Get, SeenKept
    <2> QED
      BY <2>2, <2>3
  <1>4. CASE AddFinalizer
    <2>1. UNCHANGED <<cache, creations>> /\ Exists(seen)
      BY <1>4 DEF AddFinalizer, CopyInv
    <2>2. CASE Current(seen)
      <3>1. seen = cr
        BY <2>2, CurrentCopy DEF CopyInv
      <3>2. cr' = [seen EXCEPT !.rv = @ + 1, !.fin = @ \cup {CSI}] /\ seen' = cr'
        BY <1>4, <2>2 DEF AddFinalizer
      <3>3. NextVersion(cr, cr')
        <4>1. cr.fin \cup {CSI} \in SUBSET {CSI, Foreground}
          BY <1>0 DEF CRs
        <4>2. cr' = [cr EXCEPT !.rv = @ + 1, !.fin = cr.fin \cup {CSI}]
          BY <3>1, <3>2
        <4> QED
          BY <1>0, <4>1, <4>2, FinalizersVersion
      <3>4. CrNext(cr, cr', creations, creations') /\ EditKept
        BY <1>0, <2>1, <3>1, <3>3, WriteNext
      <3>5. cr'.uid # 0
        BY <2>1, <3>1, <3>3 DEF NextVersion, Exists
      <3> QED
        BY <2>1, <3>2, <3>4, <3>5 DEF CrStepped, Exists
    <2>3. CASE ~Current(seen)
      BY <1>2, <1>4, <2>1, <2>3 DEF AddFinalizer, Requeue, Return, SeenDropped
    <2> QED
      BY <2>2, <2>3
  <1>5. CASE RemoveFinalizer
    <2>1. UNCHANGED <<cache, creations>> /\ Exists(seen) /\ SeenDropped
      BY <1>5 DEF RemoveFinalizer, CopyInv, Requeue, Return, SeenDropped
    <2>2. CASE Current(seen)
      <3>1. seen = cr
        BY <2>2, CurrentCopy DEF CopyInv
      <3> DEFINE new == [cr EXCEPT !.rv = @ + 1, !.fin = cr.fin \ {CSI}]
      <3>2. cr' = Stored(new)
        BY <1>5, <2>2, <3>1 DEF RemoveFinalizer
      <3>3. NextVersion(cr, new)
        <4>1. cr.fin \ {CSI} \in SUBSET {CSI, Foreground}
          BY <1>0 DEF CRs
        <4> QED
          BY <1>0, <4>1, FinalizersVersion
      <3>4. CrNext(cr, cr', creations, creations') /\ EditKept
        <4> HIDE DEF new
        <4> QED
          BY <1>0, <2>1, <3>1, <3>2, <3>3, WriteNext
      <3> QED
        BY <2>1, <3>4 DEF CrStepped, SeenDropped
    <2>3. CASE ~Current(seen)
      BY <1>2, <1>5, <2>1, <2>3 DEF RemoveFinalizer
    <2> QED
      BY <2>2, <2>3
  <1>6. CASE Sync \/ Restart
    BY <1>1, <1>6 DEF Sync, SyncScheduler, Restart, Return, Fault, CrStepped, CopyInv, Exists
  <1>7. CASE Create
    <2>1. cr'.uid = creations + 1 /\ creations' = creations + 1 /\ cr.uid = 0 /\ cr' \in CRs
      <3>1. 1 \in 0 .. MaxSpec
        BY ReconcilerAssumption
      <3>2. cr' = [uid |-> creations + 1, rv |-> 1, spec |-> 1, deleting |-> FALSE, fin |-> {}]
        BY <1>7 DEF Create, NoCR
      <3>3. cr' \in CRs /\ cr'.uid = creations + 1
        BY <1>0, <3>1, <3>2 DEF CRs
      <3> QED
        BY <1>7, <3>3 DEF Create, Exists
    <2> QED
      BY <1>0, <1>7, <2>1 DEF Create, CrNext, EditKept, CrStepped, worker, CopyInv, Exists
  <1>8. CASE Edit \/ Delete \/ FinishForeground
    <2>1. \E new : NextVersion(cr, new) /\ (cr' = Stored(new) \/ cr' = new)
      <3>1. CASE Edit
        BY <1>0, <3>1, EditVersion DEF Edit
      <3>2. CASE Delete
        <4>1. PICK extra \in SUBSET {Foreground} :
                cr' = Stored([cr EXCEPT !.rv = @ + 1, !.deleting = TRUE, !.fin = @ \cup extra])
          BY <3>2 DEF Delete
        <4> QED
          BY <1>0, <4>1, DeletionVersion
      <3>3. CASE FinishForeground
        <4>1. cr.fin \ {Foreground} \in SUBSET {CSI, Foreground}
          BY <1>0 DEF CRs
        <4>2. cr' = Stored([cr EXCEPT !.rv = @ + 1, !.fin = cr.fin \ {Foreground}])
          BY <3>3 DEF FinishForeground
        <4> QED
          BY <1>0, <4>1, <4>2, FinalizersVersion
      <3> QED
        BY <1>8, <3>1, <3>2, <3>3
    <2>2. UNCHANGED <<cache, seen, pc, creations>>
      BY <1>8 DEF Edit, Delete, FinishForeground, worker
    <2>3. Exists(cr)
      <3>1. cr.uid = 0 => cr.deleting = FALSE
        BY DEF CopyInv, CopyOf, NoCR
      <3> QED
        BY <1>8, <3>1 DEF Edit, Delete, FinishForeground, ForegroundDeletion, Exists
    <2>4. CrNext(cr, cr', creations, creations') /\ EditKept
      BY <1>0, <2>1, <2>2, <2>3, WriteNext
    <2> QED
      BY <2>2, <2>4 DEF CrStepped, CopyInv, Exists
  <1>9. CASE StatusEvent \/ SyncScheduler \/ UNCHANGED vars
    BY <1>2, <1>9 DEF StatusEvent, SyncScheduler, vars, worker, SeenKept
  <1>10. ASSUME NEW o \in Objects, CollectGarbage(o) \/ Disturb(o) PROVE CrStepped
    BY <1>2, <1>10 DEF CollectGarbage, Disturb, Fault, SeenKept
  <1>11. ASSUME NEW n \in Nodes, LoseLabel(n) PROVE CrStepped
    BY <1>2, <1>11 DEF LoseLabel, Fault, SeenKept
  <1>12. ASSUME NEW a \in Accounts, ChangeBinding(a) PROVE CrStepped
    BY <1>2, <1>12 DEF ChangeBinding, Fault, SeenKept
  <1>13. CASE Reconcile \/ Fail \/ UpdateVanillaFails
    BY <1>2, <1>3, <1>4, <1>5, <1>13, WorkerQuiet
  <1> QED
    BY <1>6, <1>7, <1>8, <1>9, <1>10, <1>11, <1>12, <1>13 DEF Next, GarbageCollector, Environment

\* The copies the operator holds are versions of the CR that were stored.
LEMMA CopiesHold == Spec => []CopyInv
  <1>1. Init => CopyInv
    BY InitType, NoCRType DEF Init, CopyInv, CopyOf, NoCR, CRs
  <1>2. ASSUME CopyInv, [Next]_vars PROVE CopyInv'
    <2>1. CrStepped /\ TypeOK'
      BY <1>2, CrStep, NextType DEF CopyInv
    <2>2. creations \in Nat /\ creations' \in Nat
      BY <1>2, <2>1 DEF CopyInv, TypeOK
    <2>3. ASSUME NEW c, CopyOf(c, cr, creations)
          PROVE  CopyOf(c, cr', creations') /\ CopyOf(cr', cr', creations')
                 /\ CopyOf(NoCR, cr', creations')
      BY <1>2, <2>1, <2>2, <2>3, CopyStays DEF CopyInv, CrStepped
    <2>4. CopyOf(cr', cr', creations') /\ CopyOf(NoCR, cr', creations')
          /\ CopyOf(cache, cr', creations') /\ CopyOf(seen, cr', creations')
      BY <1>2, <2>3 DEF CopyInv
    <2>5. CopyOf(cache', cr', creations') /\ CopyOf(seen', cr', creations')
      BY <2>1, <2>4 DEF CrStepped
    <2> QED
      BY <2>1, <2>4, <2>5 DEF CopyInv, CrStepped
  <1> QED
    BY <1>1, <1>2, PTL DEF Spec

\* Although the worker writes back a whole CR it read from a cache long ago, a spec a user
\* has stored is never replaced by an older one - whatever fails, however users delete.
THEOREM EditsSurvive == Spec => EditsKept
  <1>1. ASSUME CopyInv, [Next]_vars
        PROVE  [cr'.uid = cr.uid => cr'.spec >= cr.spec]_vars
    BY <1>1, CrStep DEF CrStepped, EditKept
  <1> QED
    BY <1>1, CopiesHold, PTL DEF Spec, EditsKept
-----------------------------------------------------------------------------
\* The finalizer protocol

\* What a step may do to the CR, when it leaves the cluster alone; or else it leaves
\* the CR alone.
CrChange ==
  \/ UNCHANGED cr
  \/ ~Exists(cr) /\ Exists(cr') /\ ~cr'.deleting /\ CSI \notin cr'.fin
  \/ Exists(cr) /\ cr'.uid = cr.uid /\ cr'.deleting = cr.deleting
     /\ (CSI \in cr'.fin <=> CSI \in cr.fin)
  \/ Exists(cr) /\ ~cr.deleting /\ CSI \in cr'.fin /\ cr'.uid = cr.uid /\ ~cr'.deleting
  \/ Exists(cr) /\ ~cr.deleting /\ cr'.deleting /\ cr'.uid = cr.uid
     /\ (CSI \in cr'.fin <=> CSI \in cr.fin)
  \/ Exists(cr) /\ CSI \notin cr.fin /\ cr' = NoCR
  \/ /\ Exists(cr) /\ cr.deleting /\ CSI \in cr.fin /\ ~SideEffects
     /\ \/ cr' = NoCR
        \/ cr'.uid = cr.uid /\ cr'.deleting /\ CSI \notin cr'.fin

\* The CR and what outlives it never change in the same step.
LEMMA OneAtATime ==
  ASSUME IInv, [Next]_vars
  PROVE  UNCHANGED cr \/ (CrChange /\ UNCHANGED Outliving)
  <1>0. cr \in CRs /\ seen \in CRs /\ (Exists(cr) <=> cr.uid # 0)
    BY DEF IInv, GuardInv, TypeOK, Exists
  <1>1. CASE Create
    <2>1. cr' = [uid |-> creations + 1, rv |-> 1, spec |-> 1, deleting |-> FALSE, fin |-> {}]
      BY <1>1 DEF Create, NoCR
    <2>2. UNCHANGED Outliving
      BY <1>1 DEF Create, world, Outliving, Present
    <2>3. cr'.uid # 0 /\ ~cr'.deleting /\ CSI \notin cr'.fin
      BY <2>1 DEF IInv, GuardInv, TypeOK
    <2>4. ~Exists(cr)
      BY <1>1 DEF Create
    <2>5. Exists(cr')
      BY <2>3 DEF Exists
    <2> QED
      BY <2>2, <2>3, <2>4, <2>5 DEF CrChange
  <1>2. CASE Edit
    <2>1. cr'.uid = cr.uid /\ cr'.deleting = cr.deleting /\ cr'.fin = cr.fin
      BY <1>0, <1>2 DEF Edit, CRs
    <2> QED
      BY <1>2, <2>1 DEF CrChange, Edit, world, Outliving, Present
  <1>3. CASE Delete
    <2>0. PICK extra \in SUBSET {Foreground} :
            cr' = Stored([cr EXCEPT !.rv = @ + 1, !.deleting = TRUE, !.fin = @ \cup extra])
      BY <1>3 DEF Delete
    <2> DEFINE new == [cr EXCEPT !.rv = @ + 1, !.deleting = TRUE, !.fin = @ \cup extra]
    <2>1. cr' = Stored(new) /\ Exists(cr) /\ ~cr.deleting /\ UNCHANGED Outliving
      BY <1>3, <2>0 DEF Delete, world, Outliving, Present
    <2>2. new.uid = cr.uid /\ new.deleting /\ (CSI \in new.fin <=> CSI \in cr.fin)
      BY <1>0 DEF CRs, CSI, Foreground
    <2> HIDE DEF new
    <2>3. cr' = new \/ (CSI \notin cr.fin /\ cr' = NoCR)
      BY <2>1, <2>2 DEF Stored
    <2> QED
      BY <2>1, <2>2, <2>3 DEF CrChange
  <1>4. CASE AddFinalizer
    <2>1. UNCHANGED Outliving
      BY <1>4 DEF AddFinalizer, world, Outliving, Present
    <2>2. CASE Current(seen)
      <3>1. seen = cr /\ Exists(cr) /\ ~cr.deleting
        BY <1>4, <2>2 DEF AddFinalizer, IInv, GuardInv, Versioned, AddingKnown, Current
      <3>2. cr' = [cr EXCEPT !.rv = @ + 1, !.fin = cr.fin \cup {CSI}]
        BY <1>4, <2>2, <3>1 DEF AddFinalizer
      <3>3. cr'.uid = cr.uid /\ ~cr'.deleting /\ CSI \in cr'.fin
        BY <1>0, <3>1, <3>2 DEF CRs
      <3> QED
        BY <2>1, <3>1, <3>3 DEF CrChange
    <2> QED
      BY <1>4, <2>2 DEF AddFinalizer
  <1>5. CASE RemoveFinalizer
    <2>1. UNCHANGED Outliving
      BY <1>5 DEF RemoveFinalizer, world, Outliving, Present
    <2>2. CASE Current(seen)
      <3>1. seen = cr /\ Exists(cr) /\ cr.deleting /\ cr.fin # {}
        BY <1>5, <2>2
        DEF RemoveFinalizer, IInv, GuardInv, Versioned, WellFormed, RemovalKnown, Removing,
            UninstallStages, Current
      <3>2. ~SideEffects
        BY <1>5 DEF RemoveFinalizer, IInv, LabelInv, PatchInv, UnpatchProgress, UninstallStages,
                       Unpatched, NoPatch, NoPolicy, NoLabels, SideEffects
      <3> DEFINE new == [cr EXCEPT !.rv = @ + 1, !.fin = cr.fin \ {CSI}]
      <3>3. cr' = Stored(new)
        BY <1>5, <2>2, <3>1 DEF RemoveFinalizer
      <3>4. /\ new.deleting /\ new.uid = cr.uid /\ CSI \notin new.fin
            /\ (CSI \notin cr.fin => new.fin # {})
        BY <1>0, <3>1 DEF CRs
      <3> HIDE DEF new
      <3>5. cr' = new \/ (CSI \in cr.fin /\ cr' = NoCR)
        BY <3>3, <3>4 DEF Stored
      <3> QED
        BY <2>1, <3>1, <3>2, <3>4, <3>5 DEF CrChange
    <2> QED
      BY <1>5, <2>2 DEF RemoveFinalizer
  <1>6. CASE FinishForeground
    <2> DEFINE new == [cr EXCEPT !.rv = @ + 1, !.fin = @ \ {Foreground}]
    <2>1. cr' = Stored(new) /\ cr.deleting /\ UNCHANGED Outliving
      BY <1>6 DEF FinishForeground, ForegroundDeletion, world, Outliving, Present
    <2>2. new.uid = cr.uid /\ new.deleting /\ (CSI \in new.fin <=> CSI \in cr.fin)
      BY <1>0, <2>1 DEF CRs, CSI, Foreground
    <2>3. Exists(cr)
      BY <2>1 DEF IInv, GuardInv, WellFormed, NoCR
    <2> HIDE DEF new
    <2>4. cr' = new \/ (CSI \notin cr.fin /\ cr' = NoCR)
      BY <2>1, <2>2 DEF Stored
    <2> QED
      BY <2>1, <2>2, <2>3, <2>4 DEF CrChange
  <1>7. CASE UNCHANGED cr
    BY <1>7
  <1> QED
    BY <1>1, <1>2, <1>3, <1>4, <1>5, <1>6, <1>7, OthersKeepCr DEF CrWritten

\* Nothing outlives the CR exactly when there are no side effects.
LEMMA CleanOutside == ~SideEffects => Outliving = [labels |-> {}, scheduler |-> {}]
  <1> SUFFICES ASSUME ~SideEffects PROVE Outliving = [labels |-> {}, scheduler |-> {}]
    OBVIOUS
  <1>1. {x \in InScheduler \ missed : IF x = "patched" THEN patched ELSE Present("policy")} = {}
    BY DEF SideEffects, InScheduler
  <1> QED
    BY <1>1 DEF SideEffects, Outliving
LEMMA CleanOutsideNext == ~SideEffects' => Outliving' = [labels |-> {}, scheduler |-> {}]
  <1> SUFFICES ASSUME ~SideEffects' PROVE Outliving' = [labels |-> {}, scheduler |-> {}]
    OBVIOUS
  <1>1. {x \in InScheduler \ missed' :
           IF x = "patched" THEN patched' ELSE Present("policy")'} = {}
    BY DEF SideEffects, InScheduler
  <1> QED
    BY <1>1 DEF SideEffects, Outliving

\* The worker changes the cluster under the guard and gives the guard up only when the
\* cluster is clean, but for what it missed: every behaviour of the reconciler is one of
\* the finalizer protocol.
THEOREM GuardRefined == ASSUME PatchingAgreed PROVE Spec => GuardImplemented
  <1> DEFINE clean == [labels |-> {}, scheduler |-> {}]
  <1>1. Init => Protocol!Init
    <2> SUFFICES ASSUME Init PROVE Protocol!Init
      OBVIOUS
    <2>1. ~SideEffects
      BY DEF Init, SideEffects, Present, NoObject, Objects
    <2>2. Outliving = clean
      BY <2>1, CleanOutside
    <2>3. cr.uid = 0 /\ ~cr.deleting /\ CSI \notin cr.fin
      BY DEF Init, NoCR
    <2> QED
      BY <2>2, <2>3 DEF Protocol!Init
  <1>2. ASSUME IInv, IInv', SideEffectsGuarded, SideEffectsGuarded', [Next]_vars
        PROVE  [Protocol!Next]_(Protocol!vars)
    <2>1. UNCHANGED cr \/ (CrChange /\ UNCHANGED Outliving)
      BY <1>2, OneAtATime
    <2>2. CASE UNCHANGED cr /\ ~UNCHANGED Outliving
      <3>1. SideEffects \/ SideEffects'
        <4> SUFFICES ASSUME ~SideEffects, ~SideEffects' PROVE FALSE
          OBVIOUS
        <4>1. Outliving = clean /\ Outliving' = clean
          BY CleanOutside, CleanOutsideNext
        <4> QED
          BY <2>2, <4>1
      <3>2. cr.uid # 0 /\ CSI \in cr.fin
        BY <1>2, <2>2, <3>1 DEF SideEffectsGuarded, Exists
      <3>3. Protocol!Work
        BY <2>2, <3>2 DEF Protocol!Work
      <3> QED
        BY <3>3 DEF Protocol!Next
    <2>3. CASE CrChange /\ UNCHANGED Outliving
      <3>1. ~SideEffects => Outliving = clean
        BY CleanOutside
      <3>2. NoCR.uid = 0 /\ NoCR.deleting = FALSE /\ NoCR.fin = {}
        BY DEF NoCR
      <3>4. cr.deleting \in BOOLEAN /\ cr'.deleting \in BOOLEAN
        BY <1>2 DEF IInv, GuardInv, TypeOK, CRs
      <3>5. ~Exists(cr) => cr.deleting = FALSE /\ CSI \notin cr.fin
        BY <1>2, <3>2 DEF IInv, GuardInv, WellFormed
      <3> QED
        BY <2>3, <3>1, <3>2, <3>4, <3>5
        DEF CrChange, Exists, Protocol!Next, Protocol!vars, Protocol!Arrive, Protocol!Guard,
            Protocol!Delete, Protocol!Release, Protocol!Leave
    <2> QED
      BY <2>1, <2>2, <2>3 DEF Protocol!vars
  <1>3. (Spec => []IInv) /\ (Spec => []SideEffectsGuarded)
    BY InvHolds, Guarded
  <1> QED
    BY <1>1, <1>2, <1>3, PTL DEF Spec, GuardImplemented, Protocol!Spec

-----------------------------------------------------------------------------
\* A rested reconciler has converged

\* The reconciler knows of everything that concerns a live CR.
Unnoticed == Live /\ cache = cr /\ ~queued

\* The stages a worker is in once it has passed a stage; an idle one has passed all.
AfterExtender       == PatchStages \cup {"reconcileNodes", "idle"}
AfterController     == AfterExtender \cup {"extender"}
AfterNode           == AfterController \cup {"controller"}
AfterNodeController == AfterNode \cup {"nodeLabels", "node"}

\* What the stages the worker has passed have deployed is still deployed.
ProgressInv ==
  /\ pc # "addFinalizer" => CSI \in cr.fin
  /\ pc \in AfterNodeController => applied["nodeController"].spec = cr.spec
  /\ pc = "node" => labelled = Nodes
  /\ pc \in AfterNode /\ Allowed("node") => applied["node"].spec = cr.spec /\ labelled = Nodes
  /\ pc \in AfterController => applied["controller"].spec = cr.spec
  /\ pc \in AfterExtender /\ Allowed("scheduler") => applied["extender"].spec = cr.spec
  /\ OpenShift /\ cr.spec \in Patching =>
       /\ pc \in {"patch", "readiness", "reconcileNodes", "idle"} => applied["policy"].spec = cr.spec
       /\ pc \in {"readiness", "reconcileNodes", "idle"} => patched \/ "patch" \in missed

\* The worker installs, and goes by the stored CR.
InstallsCr == pc = "idle" \/ (seen = cr /\ ~Removing)

\* Nobody hears of the policy's removal, so nobody but the worker may remove it.
PolicyUnowned == applied["policy"].owner = 0

RestInv == PolicyUnowned /\ (Unnoticed => InstallsCr /\ ProgressInv)

\* A write to the CR leaves the cache behind, or removes the CR.
LEMMA WriteNoticed == ASSUME CopyInv, [Next]_vars, CrWritten PROVE ~Unnoticed'
  <1> SUFFICES ASSUME Unnoticed' PROVE FALSE
    OBVIOUS
  <1>1. Exists(cr') /\ cache' = cr' /\ ~queued'
    BY DEF Unnoticed, Live, Exists
  <1>2. CASE UNCHANGED cache /\ cr' # cr
    <2>1. CrNext(cr, cr', creations, creations') /\ CopyOf(cache, cr, creations)
      BY CrStep DEF CrStepped, CopyInv
    <2>2. cr \in CRs /\ creations \in Nat
      BY DEF CopyInv, TypeOK
    <2> QED
      BY <1>1, <1>2, <2>1, <2>2 DEF CrNext, CopyOf, Exists, NoCR, CRs
  <1>3. cr \in CRs /\ seen \in CRs /\ creations \in Nat /\ NoCR.uid = 0
    BY DEF CopyInv, TypeOK, NoCR
  <1>4. ASSUME NEW new, new.rv = cr.rv + 1, cr' = Stored(new) \/ cr' = new PROVE cr' # cr
    <2>1. Stored(new) = new \/ Stored(new).uid = 0
      BY <1>3 DEF Stored
    <2>2. cr.rv \in Nat
      BY <1>3 DEF CRs
    <2> QED
      BY <1>1, <1>4, <2>1, <2>2 DEF Exists
  <1>5. CASE Create
    <2>1. UNCHANGED cache /\ ~Exists(cr)
      BY <1>5 DEF Create
    <2> QED
      BY <1>1, <1>2, <2>1
  <1>6. CASE Edit
    <2> DEFINE new == [cr EXCEPT !.rv = @ + 1, !.spec = @ + 1]
    <2>1. UNCHANGED cache /\ cr' = new
      BY <1>6 DEF Edit
    <2>2. new.rv = cr.rv + 1
      BY <1>3 DEF CRs
    <2> QED
      BY <1>2, <1>4, <2>1, <2>2
  <1>7. CASE Delete
    <2>1. PICK extra \in SUBSET {Foreground} :
            cr' = Stored([cr EXCEPT !.rv = @ + 1, !.deleting = TRUE, !.fin = @ \cup extra])
      BY <1>7 DEF Delete
    <2>2. [cr EXCEPT !.rv = @ + 1, !.deleting = TRUE, !.fin = @ \cup extra].rv = cr.rv + 1
      BY <1>3 DEF CRs
    <2>3. UNCHANGED cache
      BY <1>7 DEF Delete
    <2> QED
      BY <1>2, <1>4, <2>1, <2>2, <2>3
  <1>8. CASE AddFinalizer
    <2>1. UNCHANGED cache /\ Current(seen)
      BY <1>1, <1>8 DEF AddFinalizer, Requeue
    <2>2. cr' = [seen EXCEPT !.rv = @ + 1, !.fin = @ \cup {CSI}]
      BY <1>8, <2>1 DEF AddFinalizer
    <2>3. [seen EXCEPT !.rv = @ + 1, !.fin = @ \cup {CSI}].rv = cr.rv + 1
      BY <1>3, <2>1 DEF CRs, Current
    <2> QED
      BY <1>2, <1>4, <2>1, <2>2, <2>3
  <1>9. CASE RemoveFinalizer
    <2>1. UNCHANGED cache /\ Current(seen)
      BY <1>1, <1>9 DEF RemoveFinalizer, Requeue
    <2>2. cr' = Stored([seen EXCEPT !.rv = @ + 1, !.fin = @ \ {CSI}])
      BY <1>9, <2>1 DEF RemoveFinalizer
    <2>3. [seen EXCEPT !.rv = @ + 1, !.fin = @ \ {CSI}].rv = cr.rv + 1
      BY <1>3, <2>1 DEF CRs, Current
    <2> QED
      BY <1>2, <1>4, <2>1, <2>2, <2>3
  <1>10. CASE FinishForeground
    <2>1. UNCHANGED cache /\ cr' = Stored([cr EXCEPT !.rv = @ + 1, !.fin = @ \ {Foreground}])
      BY <1>10 DEF FinishForeground
    <2>2. [cr EXCEPT !.rv = @ + 1, !.fin = @ \ {Foreground}].rv = cr.rv + 1
      BY <1>3 DEF CRs
    <2> QED
      BY <1>2, <1>4, <2>1, <2>2
  <1> QED
    BY <1>5, <1>6, <1>7, <1>8, <1>9, <1>10 DEF CrWritten

\* Apply writes one object, at the worker's spec, and gives the policy no owner.
LEMMA ApplyKeeps ==
  ASSUME TypeOK, PolicyUnowned, NEW o \in Objects, Apply(o)
  PROVE  /\ PolicyUnowned' /\ (queued => queued') /\ UNCHANGED <<labelled, patched>>
         /\ "patch" \in missed => "patch" \in missed'
         /\ o # "readiness" => applied'[o].spec = seen.spec
         /\ \A x \in Objects \ {o} : applied'[x] = applied[x]
  BY DEF TypeOK, PolicyUnowned, Apply, Takes, Written, Content, Objects

\* Remove takes one object away; only the policy goes without a request.
LEMMA RemoveKeeps ==
  ASSUME TypeOK, PolicyUnowned, NEW o \in Objects, Remove(o)
  PROVE  /\ PolicyUnowned' /\ (queued => queued') /\ (o # "policy" => queued')
         /\ UNCHANGED <<labelled, patched>>
         /\ "patch" \in missed => "patch" \in missed'
         /\ \A x \in Objects \ {o} : applied'[x] = applied[x]
  BY DEF TypeOK, PolicyUnowned, Remove, NoObject, Objects

\* A step that ends in the queue is a request for whatever is missing.
LEMMA QueuedRests == PolicyUnowned' /\ queued' => RestInv'
  BY DEF RestInv, Unnoticed

\* Each stage of the installation deploys its part at the stored spec, as long as nothing
\* has been noticed that would make the worker's copy an old one.
InstallsStep ==
  \/ UpdateNodeController \/ SkipNode \/ LabelNodes \/ UpdateNode \/ UpdateController
  \/ UpdateExtender \/ PatchConfig \/ PatchScheduler \/ UpdateVanillaDaemonset
  \/ UpdateVanillaFails \/ UpdateReadiness \/ ReconcileNodes

\* Installing keeps what has been deployed, up to the end of the reconcile.
LEMMA InstallRests ==
  ASSUME TypeOK, RestInv, InstallsStep
  PROVE  RestInv'
  <1> USE DEF InstallsCr, Removing, Unpatching, ProgressInv, AfterNodeController, AfterNode,
              AfterController, AfterExtender, PatchStages, UnpatchStages, UninstallStages, Allowed
  <1>1. PolicyUnowned /\ (Unnoticed => InstallsCr /\ ProgressInv)
    BY DEF RestInv
  <1>2. ASSUME UNCHANGED <<cr, cache>>, queued => queued', Unnoticed' PROVE Unnoticed
    BY <1>2 DEF Unnoticed, Live, Exists, TypeOK
  <1>3. ASSUME UNCHANGED applied PROVE PolicyUnowned'
    BY <1>1, <1>3 DEF PolicyUnowned
  <1>4. CASE UpdateNodeController
    <2>1. /\ pc = "nodeController" /\ Apply("nodeController") /\ "nodeController" \in Objects
          /\ pc' = "nodeLabels" /\ UNCHANGED <<cr, cache, granted, seen, retrying>>
      BY <1>4 DEF UpdateNodeController, Go, Objects
    <2> QED
      BY <1>1, <1>2, <2>1, ApplyKeeps DEF RestInv, Objects
  <1>5. CASE SkipNode
    <2>1. /\ pc = "nodeLabels" /\ ~Allowed("node") /\ pc' = "controller"
          /\ UNCHANGED <<cr, cache, queued, granted, seen, retrying, applied, labelled, patched,
                       missed>>
      BY <1>5 DEF SkipNode, Go, world
    <2> QED
      BY <1>1, <1>2, <1>3, <2>1 DEF RestInv
  <1>6. CASE LabelNodes
    <2>1. PICK done \in SUBSET Nodes :
            /\ labelled' = done
            /\ IF done = Nodes THEN Go("node") /\ UNCHANGED <<queued, bounds>>
                               ELSE Fault /\ Requeue
      BY <1>6 DEF LabelNodes
    <2>2. /\ pc = "nodeLabels" /\ Allowed("node")
          /\ UNCHANGED <<cr, cache, granted, applied, patched>>
          /\ "patch" \in missed => "patch" \in missed'
      BY <1>6 DEF LabelNodes, Takes
    <2>3. CASE done = Nodes
      BY <1>1, <1>2, <1>3, <2>1, <2>2, <2>3 DEF RestInv, Go
    <2>4. CASE done # Nodes
      BY <1>3, <2>1, <2>2, <2>4, QueuedRests DEF Requeue
    <2> QED
      BY <2>3, <2>4
  <1>7. CASE UpdateNode
    <2>1. /\ pc = "node" /\ Apply("node") /\ "node" \in Objects
          /\ pc' = "controller" /\ UNCHANGED <<cr, cache, granted, seen, retrying>>
      BY <1>7 DEF UpdateNode, Go, Objects
    <2> QED
      BY <1>1, <1>2, <2>1, ApplyKeeps DEF RestInv, Objects
  <1>8. CASE UpdateController
    <2>1. /\ pc = "controller" /\ Apply("controller") /\ "controller" \in Objects
          /\ pc' = "extender" /\ UNCHANGED <<cr, cache, granted, seen, retrying>>
      BY <1>8 DEF UpdateController, Go, Objects
    <2> QED
      BY <1>1, <1>2, <2>1, ApplyKeeps DEF RestInv, Objects
  <1>9. CASE UpdateExtender
    <2>1. /\ pc = "extender" /\ UNCHANGED <<cr, cache, granted, seen, retrying>>
          /\ pc' = IF seen.spec \in Patching THEN "patchConfig" ELSE "reconcileNodes"
      BY <1>9 DEF UpdateExtender, Go
    <2>2. CASE Allowed("scheduler")
      <3>1. Apply("extender") /\ "extender" \in Objects
        BY <1>9, <2>2 DEF UpdateExtender, Objects
      <3> QED
        BY <1>1, <1>2, <2>1, <3>1, ApplyKeeps DEF RestInv, Objects
    <2>3. CASE ~Allowed("scheduler")
      <3>1. UNCHANGED <<applied, labelled, patched, missed, queued>>
        BY <1>9, <2>3 DEF UpdateExtender, world
      <3> QED
        BY <1>1, <1>2, <1>3, <2>1, <2>3, <3>1 DEF RestInv
    <2> QED
      BY <2>2, <2>3
  <1>10. CASE PatchConfig
    <2>1. /\ pc = "patchConfig" /\ Apply(IF OpenShift THEN "policy" ELSE "patcherConfig")
          /\ pc' = "patch" /\ UNCHANGED <<cr, cache, granted, seen, retrying>>
      BY <1>10 DEF PatchConfig, Go
    <2>2. CASE OpenShift
      <3>1. Apply("policy") /\ "policy" \in Objects
        BY <2>1, <2>2 DEF Objects
      <3> QED
        BY <1>1, <1>2, <2>1, <3>1, ApplyKeeps DEF RestInv, Objects
    <2>3. CASE ~OpenShift
      <3>1. Apply("patcherConfig") /\ "patcherConfig" \in Objects
        BY <2>1, <2>3 DEF Objects
      <3> QED
        BY <1>1, <1>2, <2>1, <2>3, <3>1, ApplyKeeps DEF RestInv, Objects
    <2> QED
      BY <2>2, <2>3
  <1>11. CASE PatchScheduler
    <2>1. pc = "patch" /\ UNCHANGED <<cr, cache, granted, applied, labelled>>
      BY <1>11 DEF PatchScheduler
    <2>2. CASE patched /\ ~patchSeen
      BY <1>3, <1>11, <2>1, <2>2, QueuedRests DEF PatchScheduler, Requeue
    <2>3. CASE ~(patched /\ ~patchSeen)
      <3>1. pc' \in {"reconcileNodes", "readiness"} /\ UNCHANGED <<queued, seen, retrying>>
        BY <1>11, <2>3 DEF PatchScheduler, Go, AfterPatch
      <3>2. patched' \/ "patch" \in missed'
        BY <1>11, <2>3 DEF PatchScheduler, TypeOK
      <3> QED
        BY <1>1, <1>2, <1>3, <2>1, <3>1, <3>2 DEF RestInv
    <2> QED
      BY <2>2, <2>3
  <1>12. CASE UpdateVanillaDaemonset
    <2>1. /\ pc = "patch" /\ ~OpenShift /\ pc' \in {"reconcileNodes", "readiness"}
          /\ UNCHANGED <<cr, cache, granted, seen, retrying>>
      BY <1>12 DEF UpdateVanillaDaemonset, Go, AfterPatch
    <2>2. CASE Allowed("scheduler")
      <3>1. Apply("patcher") /\ "patcher" \in Objects
        BY <1>12, <2>2 DEF UpdateVanillaDaemonset, Objects
      <3> QED
        BY <1>1, <1>2, <2>1, <3>1, ApplyKeeps DEF RestInv, Objects
    <2>3. CASE ~Allowed("scheduler")
      <3>1. UNCHANGED <<applied, labelled, patched, missed, queued>>
        BY <1>12, <2>3 DEF UpdateVanillaDaemonset, world
      <3> QED
        BY <1>1, <1>2, <1>3, <2>1, <3>1 DEF RestInv
    <2> QED
      BY <2>2, <2>3
  <1>13. CASE UpdateVanillaFails
    <2>1. /\ pc \in {"patchConfig", "patch"} /\ ~OpenShift
          /\ pc' \in {"reconcileNodes", "readiness"}
          /\ UNCHANGED <<cr, cache, queued, granted, seen, retrying, applied, labelled, patched,
                       missed>>
      BY <1>13 DEF UpdateVanillaFails, Go, AfterPatch, world
    <2> QED
      BY <1>1, <1>2, <1>3, <2>1 DEF RestInv
  <1>14. CASE UpdateReadiness
    <2>1. pc = "readiness" /\ UNCHANGED <<cr, cache, granted>>
      BY <1>14 DEF UpdateReadiness
    <2>2. CASE ~Present(WatchedConfig)
      BY <1>3, <1>14, <2>2, QueuedRests DEF UpdateReadiness, Requeue, world
    <2>3. CASE Present(WatchedConfig)
      <3>1. Apply("readiness") /\ "readiness" \in Objects
        BY <1>14, <2>3 DEF UpdateReadiness, Objects
      <3>2. UNCHANGED seen /\ \/ pc' = "reconcileNodes" /\ UNCHANGED retrying
                              \/ pc' \in {"deletePolicy", "deletePatcher"} /\ retrying' = TRUE
        BY <1>14, <2>3 DEF UpdateReadiness, Go
      <3> QED
        BY <1>1, <1>2, <2>1, <3>1, <3>2, ApplyKeeps DEF RestInv, Objects
    <2> QED
      BY <2>2, <2>3
  <1>15. CASE ReconcileNodes
    <2>1. /\ pc = "reconcileNodes" /\ pc' = "idle"
          /\ UNCHANGED <<cr, cache, queued, granted, applied, labelled, patched, missed>>
      BY <1>15 DEF ReconcileNodes, Return, world
    <2> QED
      BY <1>1, <1>2, <1>3, <2>1 DEF RestInv
  <1> QED
    BY <1>4, <1>5, <1>6, <1>7, <1>8, <1>9, <1>10, <1>11, <1>12, <1>13, <1>14, <1>15
       DEF InstallsStep

\* A retry undoes the patch alone, and goes back to the stage that applies it; a stage of
\* Uninstall is not reached with a copy of the stored CR.
LEMMA UndoRests ==
  ASSUME TypeOK, RestInv,
         Get \/ DeletePatcher \/ DeletePatcherConfig \/ DeletePolicy \/ UnpatchScheduler
             \/ CleanNodeLabels \/ Fail
  PROVE  RestInv'
  <1> USE DEF InstallsCr, Removing, Unpatching, ProgressInv, AfterNodeController, AfterNode,
              AfterController, AfterExtender, PatchStages, UnpatchStages, UninstallStages, Allowed
  <1>1. PolicyUnowned /\ (Unnoticed => InstallsCr /\ ProgressInv)
    BY DEF RestInv
  <1>2. ASSUME UNCHANGED <<cr, cache>>, queued => queued', Unnoticed' PROVE Unnoticed
    BY <1>2 DEF Unnoticed, Live, Exists, TypeOK
  <1>3. ASSUME UNCHANGED applied PROVE PolicyUnowned'
    BY <1>1, <1>3 DEF PolicyUnowned
  <1>4. CASE Get
    <2>1. UNCHANGED <<cr, cache, granted, applied, labelled, patched, retrying>> /\ pc = "idle"
      BY <1>4 DEF Get, world
    <2>2. ASSUME Unnoticed' PROVE (InstallsCr /\ ProgressInv)'
      <3>1. Exists(cache) /\ ~cache.deleting /\ cache = cr
        BY <2>1, <2>2 DEF Unnoticed, Live, Exists
      <3>2. seen' = cr /\ pc' = IF CSI \in cr.fin THEN "nodeController" ELSE "addFinalizer"
        BY <1>4, <3>1 DEF Get, FirstStage
      <3> QED
        BY <2>1, <3>2
    <2> QED
      BY <1>3, <2>1, <2>2 DEF RestInv
  <1>5. ASSUME NEW o \in Objects \ {"policy"}, NEW next, NEW stage, RetryDelete(stage, o, next)
        PROVE  RestInv'
    <2>1. CASE Present(o)
      <3>1. Remove(o)
        BY <1>5, <2>1 DEF RetryDelete
      <3> QED
        BY <1>1, <3>1, RemoveKeeps, QueuedRests
    <2>2. CASE ~Present(o)
      BY <1>3, <1>5, <2>2, QueuedRests DEF RetryDelete, Requeue, world
    <2> QED
      BY <2>1, <2>2
  <1>6. CASE DeletePatcher \/ DeletePatcherConfig
    BY <1>5, <1>6 DEF DeletePatcher, DeletePatcherConfig, Objects
  <1>7. CASE DeletePolicy
    <2>1. /\ pc = "deletePolicy" /\ pc' = "unpatchScheduler"
          /\ UNCHANGED <<cr, cache, granted, seen, retrying>>
      BY <1>7 DEF DeletePolicy
    <2>2. CASE Remove("policy")
      <3>1. "policy" \in Objects
        BY DEF Objects
      <3> QED
        BY <1>1, <1>2, <2>1, <2>2, <3>1, RemoveKeeps DEF RestInv, Objects
    <2>3. CASE UNCHANGED <<applied, labelled, patched, queued>>
      BY <1>1, <1>2, <1>3, <2>1, <2>3 DEF RestInv
    <2> QED
      BY <1>7, <2>2, <2>3 DEF DeletePolicy
  <1>8. CASE UnpatchScheduler
    <2>1. pc = "unpatchScheduler" /\ UNCHANGED <<cr, cache, applied, labelled, granted>>
      BY <1>8 DEF UnpatchScheduler
    <2>2. \/ Requeue
          \/ /\ Go(IF retrying THEN "patchConfig" ELSE "unlabel") /\ UNCHANGED queued
      BY <1>8 DEF UnpatchScheduler
    <2>3. CASE Requeue
      BY <1>3, <2>1, <2>3, QueuedRests DEF Requeue
    <2>4. CASE Go(IF retrying THEN "patchConfig" ELSE "unlabel") /\ UNCHANGED queued
      BY <1>1, <1>2, <1>3, <2>1, <2>4 DEF RestInv, Go
    <2> QED
      BY <2>2, <2>3, <2>4
  <1>9. CASE CleanNodeLabels
    <2>1. pc = "unlabel" /\ UNCHANGED <<cr, cache, queued, applied>>
      BY <1>9 DEF CleanNodeLabels
    <2> QED
      BY <1>1, <1>2, <1>3, <2>1 DEF RestInv
  <1>10. CASE Fail
    BY <1>3, <1>10, QueuedRests DEF Fail, Requeue, world
  <1> QED
    BY <1>4, <1>6, <1>7, <1>8, <1>9, <1>10

\* Whatever else happens to the cluster is noticed.
LEMMA EnvironmentRests ==
  ASSUME TypeOK, RestInv, [Next]_vars, ~CrWritten,
         \/ Sync \/ SyncScheduler \/ StatusEvent \/ Restart \/ UNCHANGED vars
         \/ \E o \in Objects : CollectGarbage(o) \/ Disturb(o)
         \/ \E n \in Nodes : LoseLabel(n)
         \/ \E account \in Accounts : ChangeBinding(account)
  PROVE  RestInv'
  <1>1. PolicyUnowned /\ (Unnoticed => InstallsCr /\ ProgressInv)
    BY DEF RestInv
  <1>2. ASSUME UNCHANGED applied PROVE PolicyUnowned'
    BY <1>1, <1>2 DEF PolicyUnowned
  <1>3. ASSUME UNCHANGED <<cr, cache>>, Notify, Exists(cr) PROVE queued' \/ cache' # cr'
    BY <1>3 DEF Notify
  <1>4. CASE Sync
    BY <1>2, <1>4, QueuedRests DEF Sync, world
  <1>9. CASE SyncScheduler
    <2>1. UNCHANGED <<cr, cache, queued, pc, seen, retrying, world, granted>>
      BY <1>9 DEF SyncScheduler, worker
    <2> QED
      BY <1>1, <2>1
      DEF world, RestInv, PolicyUnowned, Unnoticed, Live, Exists, InstallsCr, Removing,
          Unpatching, ProgressInv, Allowed
  <1>5. CASE StatusEvent \/ (\E n \in Nodes : LoseLabel(n))
             \/ (\E account \in Accounts : ChangeBinding(account))
    <2>1. UNCHANGED <<cr, cache, applied>> /\ Notify
      BY <1>5 DEF StatusEvent, LoseLabel, ChangeBinding, world
    <2> QED
      BY <1>2, <1>3, <2>1 DEF RestInv, Unnoticed, Live, Exists
  <1>6. CASE Restart
    <2>1. UNCHANGED <<cr, applied>> /\ queued' = Exists(cr)
      BY <1>6 DEF Restart, world
    <2> QED
      BY <1>2, <2>1 DEF RestInv, Unnoticed, Live, Exists
  <1>7. ASSUME NEW o \in Objects, CollectGarbage(o) \/ Disturb(o) PROVE RestInv'
    <2>1. Remove(o) /\ o # "policy"
      BY <1>1, <1>7 DEF CollectGarbage, Disturb, Owned, PolicyUnowned
    <2> QED
      BY <1>1, <2>1, RemoveKeeps, QueuedRests
  <1>8. CASE UNCHANGED vars
    BY <1>1, <1>8
    DEF vars, worker, world, RestInv, PolicyUnowned, Unnoticed, Live, Exists, InstallsCr, Removing,
        Unpatching, ProgressInv, Allowed
  <1> QED
    BY <1>4, <1>5, <1>6, <1>7, <1>8, <1>9

\* The steps that write the CR touch no object.
LEMMA WritesApplyNothing == CrWritten => UNCHANGED applied
  BY DEF CrWritten, Create, Edit, Delete, AddFinalizer, RemoveFinalizer, FinishForeground, world

\* Every step keeps the invariant.
LEMMA NextRests == ASSUME CopyInv, RestInv, [Next]_vars PROVE RestInv'
  <1>1. CASE CrWritten
    BY <1>1, WriteNoticed, WritesApplyNothing DEF RestInv, PolicyUnowned
  <1>2. CASE ~CrWritten
    BY <1>2, InstallRests, UndoRests, EnvironmentRests
    DEF CopyInv, CrWritten, InstallsStep, Next, Reconcile, GarbageCollector, Environment
  <1> QED
    BY <1>1, <1>2

\* A reconciler that rests with a live CR has set its finalizer and deployed, at the stored
\* spec, every component that may be deployed, except that it may take a Scheduler that is
\* patched in its copy for patched - whatever has failed, crashed, been edited,
\* deleted or granted on the way, whether or not Uninstall works.
THEOREM Converged == Spec => []ConvergedAtRest
  <1>1. Init => RestInv
    BY DEF Init, RestInv, PolicyUnowned, Unnoticed, Live, Exists, NoCR, NoObject, Objects
  <1>2. RestInv => ConvergedAtRest
    <2> SUFFICES ASSUME RestInv, Quiescent, Live PROVE CSI \in cr.fin /\ CoreApplied
      BY DEF ConvergedAtRest
    <2>1. pc = "idle" /\ ProgressInv
      BY DEF RestInv, Unnoticed, Quiescent
    <2> QED
      BY <2>1 DEF ProgressInv, CoreApplied, AfterNodeController, AfterNode, AfterController,
                  AfterExtender
  <1> QED
    BY <1>1, <1>2, CopiesHold, NextRests, PTL DEF Spec

-----------------------------------------------------------------------------
\* A reconcile ends

\* The requests a reconcile has left at most, the one the worker is about to make included.
Left ==
  IF pc = "idle" THEN 0
  ELSE IF pc \in {"reconcileNodes", "removeFinalizer"} THEN 1
  ELSE IF pc = "unlabel" \/ (retrying /\ pc = "patch") THEN 2
  ELSE IF retrying /\ pc = "patchConfig" THEN 3
  ELSE IF pc \in {"unpatchScheduler", "deletePatcherConfig"} THEN 4
  ELSE IF pc \in {"deletePolicy", "deletePatcher"} THEN 5
  ELSE IF pc = "readiness" THEN 6
  ELSE IF pc = "patch" THEN 7
  ELSE IF pc = "patchConfig" THEN 8
  ELSE IF pc = "extender" THEN 9
  ELSE IF pc = "controller" THEN 10
  ELSE IF pc = "node" THEN 11
  ELSE IF pc = "nodeLabels" THEN 12
  ELSE IF pc = "nodeController" THEN 13
  ELSE 14

\* The retry undoes the patch and makes it again, and does nothing before it.
RetryStages == {"deletePatcher", "deletePatcherConfig", "patchConfig", "patch", "reconcileNodes"}
RetryScope ==
  /\ retrying => pc \in UnpatchStages \cup RetryStages
  /\ pc \in {"deletePatcher", "deletePatcherConfig"} => retrying

WorkerStep == Reconcile \/ Fail \/ UpdateVanillaFails

\* What a step of the worker makes of its stage: it goes on, the retry is a detour on the
\* way, or it ends.
Onward ==
  \/ pc' = "idle" /\ retrying' = FALSE
  \/ UNCHANGED retrying /\
     \/ pc = "addFinalizer" /\ pc' = "nodeController"
     \/ pc = "nodeController" /\ pc' = "nodeLabels"
     \/ pc = "nodeLabels" /\ pc' \in {"node", "controller"}
     \/ pc = "node" /\ pc' = "controller"
     \/ pc = "controller" /\ pc' = "extender"
     \/ pc = "extender" /\ pc' \in {"patchConfig", "reconcileNodes"}
     \/ pc = "patchConfig" /\ pc' = "patch"
     \/ pc \in {"patchConfig", "patch"} /\ pc' = AfterPatch
     \/ pc = "readiness" /\ pc' = "reconcileNodes"
     \/ pc = "deletePatcher" /\ pc' = "deletePatcherConfig"
     \/ pc = "deletePatcherConfig" /\ pc' = "patchConfig"
     \/ pc = "deletePolicy" /\ pc' = "unpatchScheduler"
     \/ pc = "unpatchScheduler" /\ pc' = (IF retrying THEN "patchConfig" ELSE "unlabel")
     \/ pc = "unlabel" /\ pc' = "removeFinalizer"
  \/ pc = "readiness" /\ pc' \in {"deletePolicy", "deletePatcher"} /\ retrying'

LEMMA WorkerOnward == ASSUME pc # "idle", WorkerStep PROVE Onward
  <1> USE DEF Onward, Go, Return, Requeue
  <1>1. CASE Get \/ AddFinalizer \/ UpdateNodeController \/ SkipNode \/ LabelNodes \/ UpdateNode
             \/ UpdateController \/ UpdateExtender
    BY <1>1 DEF Get, AddFinalizer, UpdateNodeController, SkipNode, LabelNodes, UpdateNode,
                UpdateController, UpdateExtender
  <1>2. CASE PatchConfig \/ PatchScheduler \/ UpdateVanillaDaemonset \/ UpdateVanillaFails
    BY <1>2 DEF PatchConfig, PatchScheduler, UpdateVanillaDaemonset, UpdateVanillaFails
  <1>3. CASE UpdateReadiness \/ DeletePatcher \/ DeletePatcherConfig
    BY <1>3 DEF UpdateReadiness, DeletePatcher, DeletePatcherConfig, RetryDelete
  <1>4. CASE DeletePolicy \/ UnpatchScheduler \/ CleanNodeLabels
    BY <1>4 DEF DeletePolicy, UnpatchScheduler, CleanNodeLabels
  <1>5. CASE RemoveFinalizer \/ ReconcileNodes \/ Fail
    BY <1>5 DEF RemoveFinalizer, ReconcileNodes, Fail
  <1> QED
    BY <1>1, <1>2, <1>3, <1>4, <1>5 DEF WorkerStep, Reconcile

\* Nobody else moves the worker; a restart ends what it does.
LEMMA OthersLeaveWorker ==
  ASSUME [Next]_vars, ~WorkerStep
  PROVE  UNCHANGED <<pc, retrying>> \/ (pc' = "idle" /\ retrying' = FALSE)
  BY DEF Next, WorkerStep, vars, worker, Sync, SyncScheduler, GarbageCollector, CollectGarbage,
         FinishForeground, Environment, Create, Edit, Delete, StatusEvent, Restart, Return,
         Disturb, LoseLabel, ChangeBinding

\* A reconcile begins with nothing to retry.
LEMMA BeginsAnew ==
  ASSUME TypeOK, pc = "idle", WorkerStep
  PROVE  /\ retrying' = FALSE
         /\ pc' \in {"idle", "addFinalizer", "nodeController", "deletePolicy", "unlabel"}
  <1>1. Get
    BY DEF WorkerStep, Reconcile, AddFinalizer, UpdateNodeController, SkipNode, LabelNodes,
           UpdateNode, UpdateController, UpdateExtender, PatchConfig, PatchScheduler,
           UpdateVanillaDaemonset, UpdateReadiness, DeletePatcher, DeletePatcherConfig,
           RetryDelete, DeletePolicy, UnpatchScheduler, CleanNodeLabels, RemoveFinalizer,
           ReconcileNodes, Fail, UpdateVanillaFails
  <1> QED
    BY <1>1 DEF Get, FirstStage, TypeOK

LEMMA NextScope == ASSUME TypeOK, RetryScope, [Next]_vars PROVE RetryScope'
  <1> USE DEF RetryScope, RetryStages, UnpatchStages
  <1>1. CASE WorkerStep /\ pc # "idle"
    <2>1. Onward
      BY <1>1, WorkerOnward
    <2> QED
      BY <2>1 DEF Onward, AfterPatch
  <1>2. CASE WorkerStep /\ pc = "idle"
    BY <1>2, BeginsAnew
  <1>3. CASE UNCHANGED <<pc, retrying>>
    BY <1>3
  <1>4. CASE pc' = "idle" /\ retrying' = FALSE
    BY <1>4
  <1> QED
    BY <1>1, <1>2, <1>3, <1>4, OthersLeaveWorker

LEMMA LeftRange == Left \in 0 .. 14 /\ (Left = 0 <=> pc = "idle")
  BY DEF Left

\* A reconcile makes fourteen requests at most, whatever it is answered and whatever happens
\* meanwhile: each step of the worker leaves fewer, and nobody else's step leaves more. The
\* flag that a retry is under way keeps readiness from being asked for again and the patching
\* from being retried for ever.
THEOREM Ends ==
  Spec => /\ [](Left \in 0 .. 14 /\ (Left = 0 <=> pc = "idle"))
          /\ [][pc # "idle" => Left' <= Left /\ (WorkerStep => Left' < Left)]_vars
  <1>1. ASSUME TypeOK, RetryScope, [Next]_vars, pc # "idle"
        PROVE  Left' <= Left /\ (WorkerStep => Left' < Left)
    <2>1. ASSUME Onward PROVE Left' < Left
      BY <1>1, <2>1 DEF Onward, AfterPatch, Left, RetryScope, RetryStages, UnpatchStages
    <2>2. ASSUME UNCHANGED <<pc, retrying>> \/ (pc' = "idle" /\ retrying' = FALSE)
          PROVE  Left' <= Left
      BY <2>2 DEF Left
    <2>3. CASE WorkerStep
      <3>1. Left' < Left
        BY <1>1, <2>1, <2>3, WorkerOnward
      <3> QED
        BY <3>1 DEF Left
    <2>4. CASE ~WorkerStep
      BY <1>1, <2>2, <2>4, OthersLeaveWorker
    <2> QED
      BY <2>3, <2>4
  <1>2. Init => RetryScope
    BY DEF Init, RetryScope
  <1> QED
    BY <1>1, <1>2, TypeCorrect, NextScope, LeftRange, PTL DEF Spec
=============================================================================
