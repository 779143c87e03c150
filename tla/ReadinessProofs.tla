---------------------------- MODULE ReadinessProofs ----------------------------
(***************************************************************************)
(* TypeOK and ReportCurrentAtRest of Readiness, and that a reconcile ends, *)
(* for any number of masters, any timeout and any number of faults.        *)
(***************************************************************************)
EXTENDS Readiness, TLAPS

Stages == {"idle", "config", "patch", "created", "list", "report", "decide",
           "deleteDaemonSet", "deleteConfig", "unpatch"}
RetryStages == {"config", "patch", "deleteDaemonSet", "deleteConfig", "unpatch"}

\* The worker's part of TypeOK, which its steps change, and the cluster's part.
WorkerType ==
  /\ report \subseteq Masters /\ statuses \in Statuses
  /\ queued \in BOOLEAN /\ errs \in BOOLEAN /\ retrying \in BOOLEAN
  /\ pc \in Stages /\ (retrying => pc \in RetryStages)
ClusterType ==
  /\ mode \in Modes /\ age \in 0 .. Timeout
  /\ recent \subseteq Masters /\ fresh \subseteq Masters
  /\ config \in BOOLEAN /\ patching \in BOOLEAN
  /\ agents \in [Masters -> SUBSET {"current", "old"}] /\ manifest \subseteq Masters
  /\ up \subseteq Masters
  /\ swallowed \in BOOLEAN /\ faults \in Nat

LEMMA TypeParts == /\ TypeOK <=> WorkerType /\ ClusterType
                   /\ TypeOK' <=> WorkerType' /\ ClusterType'
  BY DEF TypeOK, WorkerType, ClusterType, Stages, RetryStages

LEMMA NoStatusesType == NoStatuses \in Statuses
  BY DEF NoStatuses, Statuses

LEMMA InitType == Init => TypeOK
  <1>. SUFFICES ASSUME Init PROVE WorkerType /\ ClusterType
    BY TypeParts
  <1>1. 0 \in 0 .. Timeout
    BY ReadinessAssumption
  <1>2. WorkerType
    BY NoStatusesType DEF Init, WorkerType, Stages
  <1>3. ClusterType
    BY <1>1 DEF Init, ClusterType
  <1>. QED BY <1>2, <1>3

\* Where Return, Go and AfterPatch leave the worker.
LEMMA ReturnType ==
  ASSUME WorkerType, Return, queued' \in BOOLEAN, report' = report PROVE WorkerType'
  BY NoStatusesType DEF Return, WorkerType, Stages

LEMMA GoType ==
  ASSUME WorkerType, NEW stage \in Stages, Go(stage), retrying => stage \in RetryStages,
         queued' \in BOOLEAN, report' = report
  PROVE  WorkerType'
  BY DEF Go, WorkerType

LEMMA AfterPatchType ==
  ASSUME WorkerType, AfterPatch, queued' \in BOOLEAN, report' = report PROVE WorkerType'
  <1>1. CASE retrying
    BY <1>1, ReturnType DEF AfterPatch
  <1>2. CASE ~retrying
    BY <1>2, GoType DEF AfterPatch, Stages
  <1>. QED BY <1>1, <1>2

LEMMA FaultType == ASSUME ClusterType, Fault PROVE faults' \in Nat
  BY DEF Fault, ClusterType

\* The worker's own steps.
LEMMA ReconcileType ==
  ASSUME TypeOK, Reconcile \/ UpdateVanillaFails \/ UnpatchFails \/ Fail PROVE TypeOK'
  <1>. USE DEF time, cluster, bounds
  <1>. SUFFICES WorkerType' /\ ClusterType'
    BY TypeParts
  <1>0. /\ WorkerType /\ ClusterType
        /\ OwnedEvent => queued' \in BOOLEAN
        /\ Requeue => Return /\ queued' \in BOOLEAN
        /\ UNCHANGED queued => queued' \in BOOLEAN
        /\ 0 \in 0 .. Timeout
    <2>1. WorkerType /\ ClusterType
      BY TypeParts
    <2>2. OwnedEvent => queued' \in BOOLEAN
      BY Zenon DEF OwnedEvent
    <2>3. Requeue => Return /\ queued' \in BOOLEAN
      BY Zenon DEF Requeue
    <2>4. UNCHANGED queued => queued' \in BOOLEAN
      BY <2>1, Zenon DEF WorkerType
    <2>5. 0 \in 0 .. Timeout
      BY ReadinessAssumption
    <2>. QED BY <2>1, <2>2, <2>3, <2>4, <2>5
  <1>1. CASE Get
    <2>1. WorkerType'
      BY <1>0, <1>1, GoType DEF Get, Stages, RetryStages
    <2>. QED BY <1>0, <1>1, <2>1 DEF Get, ClusterType
  <1>2. CASE UpdateConfigMap
    <2>1. WorkerType'
      BY <1>0, <1>2, GoType DEF UpdateConfigMap, Stages, RetryStages
    <2>. QED BY <1>0, <1>2, <2>1 DEF UpdateConfigMap, ClusterType
  <1>3. CASE Patch
    <2>1. WorkerType'
      BY <1>0, <1>3, AfterPatchType DEF Patch
    <2>. QED BY <1>0, <1>3, <2>1 DEF Patch, ClusterType
  <1>4. CASE UpdateVanillaFails
    <2>1. WorkerType'
      BY <1>0, <1>4, AfterPatchType DEF UpdateVanillaFails
    <2>. QED BY <1>0, <1>4, <2>1, FaultType DEF UpdateVanillaFails, ClusterType
  <1>5. CASE GetConfigMapCreationTime
    <2>1. ~retrying
      BY <1>0, <1>5 DEF GetConfigMapCreationTime, WorkerType, RetryStages
    <2>2. WorkerType'
      BY <1>0, <1>5, <2>1, GoType, ReturnType DEF GetConfigMapCreationTime, Stages
    <2>. QED BY <1>0, <1>5, <2>2 DEF GetConfigMapCreationTime, ClusterType
  <1>6. CASE UpdateReadinessStatuses
    BY <1>0, <1>6 DEF UpdateReadinessStatuses, WorkerType, ClusterType, Stages, RetryStages
  <1>7. CASE WriteReport
    BY <1>0, <1>7 DEF WriteReport, Go, WorkerType, ClusterType, Stages, RetryStages
  <1>8. CASE Decide
    <2>1. CASE Return
      BY <1>0, <1>8, <2>1, ReturnType DEF Decide, ClusterType
    <2>2. CASE ~Return
      <3>1. /\ pc' \in {"deleteDaemonSet", "deleteConfig"} /\ retrying' = TRUE
            /\ errs' = FALSE /\ statuses' = NoStatuses
        BY <1>8, <2>2 DEF Decide
      <3>2. retrying' \in BOOLEAN /\ errs' \in BOOLEAN
        BY <3>1, Zenon
      <3>. QED
        BY <1>0, <1>8, <3>1, <3>2, NoStatusesType
        DEF Decide, WorkerType, ClusterType, Stages, RetryStages
    <2>. QED BY <2>1, <2>2
  <1>9. CASE DeleteDaemonSet
    <2>1. WorkerType'
      BY <1>0, <1>9, GoType, ReturnType DEF DeleteDaemonSet, Stages, RetryStages
    <2>. QED BY <1>0, <1>9, <2>1 DEF DeleteDaemonSet, ClusterType
  <1>10. CASE DeleteConfigMap
    <2>1. CASE mode = "vanilla"
      BY <1>0, <1>10, <2>1, GoType, ReturnType
      DEF DeleteConfigMap, Stages, RetryStages, ClusterType
    <2>2. CASE mode # "vanilla"
      BY <1>0, <1>10, <2>2 DEF DeleteConfigMap, WorkerType, Stages, RetryStages, ClusterType
    <2>. QED BY <2>1, <2>2
  <1>11. CASE UnpatchScheduler
    BY <1>0, <1>11, GoType, ReturnType DEF UnpatchScheduler, Stages, RetryStages, ClusterType
  <1>12. CASE UnpatchFails
    <2>1. CASE pc = "deleteConfig"
      BY <1>0, <1>12, <2>1, FaultType
      DEF UnpatchFails, WorkerType, Stages, RetryStages, ClusterType
    <2>2. CASE pc # "deleteConfig"
      BY <1>0, <1>12, <2>2, ReturnType, FaultType DEF UnpatchFails, ClusterType
    <2>. QED BY <2>1, <2>2
  <1>13. CASE Fail
    BY <1>0, <1>13, ReturnType, FaultType DEF Fail, ClusterType
  <1>. QED
    BY <1>1, <1>2, <1>3, <1>4, <1>5, <1>6, <1>7, <1>8, <1>9, <1>10, <1>11, <1>12, <1>13
    DEF Reconcile

\* The agents, the schedulers, time and the process.
LEMMA OthersType ==
  ASSUME TypeOK,
         \/ \E m \in Masters : Agent(m) \/ SchedulerStarts(m) \/ SchedulerCrashes(m)
         \/ LoseConfig \/ LoseDaemonSet \/ Tick \/ Resync \/ Restart
  PROVE  TypeOK'
  <1>. USE DEF time, cluster, bounds, Around, Changed, Down
  <1>. SUFFICES WorkerType' /\ ClusterType'
    BY TypeParts
  <1>0. WorkerType /\ ClusterType
    BY TypeParts
  <1>1. ASSUME NEW m \in Masters, Agent(m) PROVE WorkerType' /\ ClusterType'
    <2>1. CASE AgentStarts(m)
      BY <1>0, <2>1 DEF AgentStarts, WorkerType, ClusterType
    <2>2. CASE AgentPatches(m)
      BY <1>0, <2>2 DEF AgentPatches, WorkerType, ClusterType
    <2>3. CASE AgentStops(m)
      BY <1>0, <2>3 DEF AgentStops, Restored, WorkerType, ClusterType
    <2>4. CASE RollOut(m)
      BY <1>0, <2>4 DEF RollOut, WorkerType, ClusterType
    <2>. QED BY <1>1, <2>1, <2>2, <2>3, <2>4 DEF Agent
  <1>2. ASSUME NEW m \in Masters, SchedulerStarts(m) \/ SchedulerCrashes(m)
        PROVE  WorkerType' /\ ClusterType'
    <2>1. CASE SchedulerStarts(m)
      BY <1>0, <2>1 DEF SchedulerStarts, StartedNotBefore, PodChanged, WorkerType, ClusterType
    <2>2. CASE SchedulerCrashes(m)
      BY <1>0, <2>2, FaultType DEF SchedulerCrashes, PodChanged, WorkerType, ClusterType
    <2>. QED BY <1>2, <2>1, <2>2
  <1>3. CASE LoseConfig
    <2>1. queued' \in BOOLEAN
      BY <1>3, Zenon DEF LoseConfig, OwnedEvent
    <2>. QED BY <1>0, <1>3, <2>1, FaultType DEF LoseConfig, WorkerType, ClusterType
  <1>7. CASE LoseDaemonSet
    BY <1>0, <1>7, FaultType DEF LoseDaemonSet, WorkerType, ClusterType
  <1>4. CASE Tick
    BY <1>0, <1>4, ReadinessAssumption DEF Tick, worker, WorkerType, ClusterType
  <1>5. CASE Resync
    BY <1>0, <1>5 DEF Resync, WorkerType, ClusterType
  <1>6. CASE Restart
    BY <1>0, <1>6, ReturnType, FaultType DEF Restart, Requeue, ClusterType
  <1>. QED BY <1>1, <1>2, <1>3, <1>4, <1>5, <1>6, <1>7

LEMMA NextType == TypeOK /\ [Next]_vars => TypeOK'
  <1>1. ASSUME TypeOK, UNCHANGED vars PROVE TypeOK'
    BY <1>1 DEF vars, time, cluster, worker, bounds, TypeOK
  <1>. QED BY <1>1, ReconcileType, OthersType DEF Next

\* The types of the variables. That a retry is over when the worker rests or reports is
\* part of them.
THEOREM TypeCorrect == Spec => []TypeOK
  BY InitType, NextType, PTL DEF Spec
-----------------------------------------------------------------------------
(***************************************************************************)
(* The report at rest. Every change of what the report is about sets       *)
(* queued, so a worker that nobody has queued again has listed what is     *)
(* there, has written it, and rests with it. Only a retry rests without    *)
(* having reported: it has deleted the daemon set, which sets queued.      *)
(***************************************************************************)
Current == {m \in Masters : Restarted(m)}
Listed  == {m \in Masters : statuses[m] = "restarted"}

QuietInv ==
  (mode = "vanilla" /\ ~queued) =>
    /\ pc = "report" => Listed = Current
    /\ pc = "decide" => report = Current
    /\ (pc = "idle" /\ config) => report = Current
RetryInv == (mode = "vanilla" /\ retrying) => queued \/ pc = "deleteDaemonSet"
ReportInv == QuietInv /\ RetryInv

\* Three kinds of steps need no more to be said of them: those that queue the CR, those
\* that leave alone what the invariant reads, and those to a stage before the list.
LEMMA QueuedStep == ASSUME queued' PROVE ReportInv'
  BY DEF ReportInv, QuietInv, RetryInv

LEMMA SameStep ==
  ASSUME ReportInv,
         UNCHANGED <<mode, queued, pc, retrying, config, up, fresh, report, statuses>>
  PROVE  ReportInv'
  BY DEF ReportInv, QuietInv, RetryInv, Current, Listed, Restarted

LEMMA EarlyStep ==
  ASSUME pc' \in {"config", "patch", "created", "list", "deleteConfig", "unpatch"},
         retrying' => queued' \/ mode' # "vanilla"
  PROVE  ReportInv'
  BY DEF ReportInv, QuietInv, RetryInv

LEMMA OtherMode == ASSUME mode # "vanilla", mode' = mode PROVE ReportInv'
  BY DEF ReportInv, QuietInv, RetryInv

LEMMA InitReport == Init => ReportInv
  BY DEF Init, ReportInv, QuietInv, RetryInv

LEMMA ModeKept == Next => mode' = mode
  <1>. USE DEF cluster, time, Around
  <1>1. Reconcile \/ UpdateVanillaFails \/ UnpatchFails \/ Fail => mode' = mode
    BY DEF Reconcile, Get, UpdateConfigMap, Patch, GetConfigMapCreationTime,
           UpdateReadinessStatuses, WriteReport, Decide, DeleteDaemonSet, DeleteConfigMap,
           UnpatchScheduler, UpdateVanillaFails, UnpatchFails, Fail
  <1>2. ASSUME NEW m \in Masters, Agent(m) \/ SchedulerStarts(m) \/ SchedulerCrashes(m)
        PROVE  mode' = mode
    BY <1>2
    DEF Agent, AgentStarts, AgentPatches, AgentStops, RollOut, SchedulerStarts, SchedulerCrashes
  <1>3. LoseConfig \/ LoseDaemonSet \/ Tick \/ Resync \/ Restart => mode' = mode
    BY DEF LoseConfig, LoseDaemonSet, Tick, Resync, Restart
  <1>. QED BY <1>1, <1>2, <1>3 DEF Next

LEMMA ReconcileReport ==
  ASSUME TypeOK, ReportInv, mode = "vanilla", mode' = mode,
         Reconcile \/ UpdateVanillaFails \/ UnpatchFails \/ Fail
  PROVE  ReportInv'
  <1>. USE DEF time, cluster, bounds
  <1>0. /\ (pc \in {"idle", "created", "list", "report", "decide"}) => ~retrying
        /\ (retrying /\ pc # "deleteDaemonSet") => queued
    BY DEF TypeOK, ReportInv, RetryInv
  <1>1. CASE Get
    BY <1>0, <1>1, EarlyStep DEF Get, Go
  <1>2. CASE UpdateConfigMap
    <2>1. retrying' => queued'
      BY <1>0, <1>2 DEF UpdateConfigMap, Go, OwnedEvent
    <2>. QED BY <1>2, <2>1, EarlyStep DEF UpdateConfigMap, Go
  <1>3. CASE Patch \/ UpdateVanillaFails
    <2>1. pc \in {"config", "patch"} /\ AfterPatch
      BY <1>3 DEF Patch, UpdateVanillaFails
    <2>2. CASE retrying
      <3>1. queued'
        <4>1. queued
          BY <1>0, <2>1, <2>2
        <4>2. (queued' = queued) \/ OwnedEvent
          BY <1>3 DEF Patch, UpdateVanillaFails
        <4>. QED BY <4>1, <4>2, Zenon DEF TypeOK, OwnedEvent
      <3>. QED BY <3>1, QueuedStep
    <2>3. CASE ~retrying
      BY <2>1, <2>3, EarlyStep DEF AfterPatch, Go
    <2>. QED BY <2>2, <2>3
  <1>4. CASE GetConfigMapCreationTime
    <2>1. CASE config
      BY <1>0, <1>4, <2>1, EarlyStep DEF GetConfigMapCreationTime, Go
    <2>2. CASE ~config
      BY <1>4, <2>2, QueuedStep DEF GetConfigMapCreationTime, Requeue
    <2>. QED BY <2>1, <2>2
  <1>5. CASE UpdateReadinessStatuses
    <2>1. Listed' = Current'
      <3>1. ASSUME NEW m \in Masters
            PROVE  statuses'[m] = "restarted" <=> Restarted(m)
        BY <1>5 DEF UpdateReadinessStatuses, StatusOf
      <3>2. UNCHANGED <<up, fresh>>
        BY <1>5 DEF UpdateReadinessStatuses
      <3>. QED BY <3>1, <3>2 DEF Listed, Current, Restarted
    <2>. QED
      BY <1>0, <1>5, <2>1 DEF UpdateReadinessStatuses, ReportInv, QuietInv, RetryInv
  <1>6. CASE WriteReport
    <2>1. report' = Listed /\ UNCHANGED <<up, fresh>> /\ pc = "report" /\ pc' = "decide"
      BY <1>6 DEF WriteReport, Go, Listed
    <2>2. ~queued' => ~queued
      BY <1>6, Zenon DEF WriteReport
    <2>3. ~queued => Listed = Current
      BY <2>1 DEF ReportInv, QuietInv
    <2>4. QuietInv'
      BY <2>1, <2>2, <2>3 DEF QuietInv, Current, Restarted
    <2>5. ~retrying'
      BY <1>0, <1>6 DEF WriteReport, Go
    <2>. QED BY <2>4, <2>5 DEF ReportInv, RetryInv
  <1>7. CASE Decide
    <2>1. UNCHANGED <<report, queued, up, fresh, config>> /\ pc = "decide"
      BY <1>7 DEF Decide
    <2>2. CASE Return
      BY <2>1, <2>2 DEF Return, ReportInv, QuietInv, RetryInv, Current, Restarted
    <2>3. CASE ~Return
      <3>1. pc' = "deleteDaemonSet"
        BY <1>7, <2>3 DEF Decide
      <3>. QED BY <3>1 DEF ReportInv, QuietInv, RetryInv
    <2>. QED BY <2>2, <2>3
  <1>8. CASE DeleteDaemonSet
    BY <1>8, QueuedStep DEF DeleteDaemonSet, Requeue
  <1>9. CASE DeleteConfigMap
    BY <1>9, QueuedStep, Zenon DEF DeleteConfigMap, Requeue
  <1>10. CASE UnpatchScheduler
    <2>1. CASE errs
      BY <1>10, <2>1, QueuedStep DEF UnpatchScheduler, Requeue
    <2>2. CASE ~errs
      BY <1>0, <1>10, <2>2, EarlyStep DEF UnpatchScheduler, Go
    <2>. QED BY <2>1, <2>2
  <1>11. CASE UnpatchFails
    BY <1>11 DEF UnpatchFails
  <1>12. CASE Fail
    BY <1>12, QueuedStep DEF Fail, Requeue
  <1>. QED
    BY <1>1, <1>2, <1>3, <1>4, <1>5, <1>6, <1>7, <1>8, <1>9, <1>10, <1>11, <1>12 DEF Reconcile

LEMMA OthersReport ==
  ASSUME TypeOK, ReportInv, mode = "vanilla",
         \/ \E m \in Masters : Agent(m) \/ SchedulerStarts(m) \/ SchedulerCrashes(m)
         \/ LoseConfig \/ LoseDaemonSet \/ Tick \/ Resync \/ Restart
  PROVE  ReportInv'
  <1>1. CASE Tick
    BY <1>1, SameStep DEF Tick, cluster, worker
  <1>2. CASE ~Tick
    <2>1. ASSUME NEW m \in Masters, Agent(m) PROVE queued'
      BY <2>1 DEF Agent, AgentStarts, AgentPatches, AgentStops, RollOut, Changed
    <2>2. ASSUME NEW m \in Masters, SchedulerStarts(m) \/ SchedulerCrashes(m)
          PROVE  queued'
      BY <2>2 DEF SchedulerStarts, SchedulerCrashes, PodChanged
    <2>3. LoseConfig => queued'
      BY DEF LoseConfig, OwnedEvent
    <2>4. LoseDaemonSet \/ Resync \/ Restart => queued'
      BY DEF LoseDaemonSet, Changed, Resync, Restart, Requeue
    <2>5. queued'
      BY <1>2, <2>1, <2>2, <2>3, <2>4, Zenon
    <2>. QED BY <2>5, QueuedStep
  <1>. QED BY <1>1, <1>2

LEMMA NextReport == TypeOK /\ ReportInv /\ [Next]_vars => ReportInv'
  <1>. SUFFICES ASSUME TypeOK, ReportInv, [Next]_vars PROVE ReportInv'
    OBVIOUS
  <1>1. CASE UNCHANGED vars
    BY <1>1, SameStep DEF vars, time, cluster, worker
  <1>2. CASE Next /\ mode # "vanilla"
    BY <1>2, ModeKept, OtherMode
  <1>3. CASE Next /\ mode = "vanilla"
    BY <1>3, ModeKept, ReconcileReport, OthersReport DEF Next
  <1>. QED BY <1>1, <1>2, <1>3

\* At rest the readiness configmap of a vanilla cluster says of every scheduler what the
\* cluster says, whatever happens between the list and the write and whatever a retry
\* replaces.
THEOREM ReportCurrent == Spec => []ReportCurrentAtRest
  <1>1. ReportInv => ReportCurrentAtRest
    BY DEF ReportInv, QuietInv, ReportCurrentAtRest, Current
  <1>. QED BY InitReport, NextReport, TypeCorrect, <1>1, PTL DEF Spec

-----------------------------------------------------------------------------
\* A reconcile ends

\* The steps a reconcile has left at most, the one the worker is about to make included.
Left ==
  IF pc = "idle" THEN 0
  ELSE IF pc = "patch" /\ retrying THEN 1
  ELSE IF pc = "config" /\ retrying THEN 2
  ELSE IF pc = "unpatch" THEN 3
  ELSE IF pc = "deleteConfig" THEN 4
  ELSE IF pc = "deleteDaemonSet" THEN 5
  ELSE IF pc = "decide" THEN 6
  ELSE IF pc = "report" THEN 7
  ELSE IF pc = "list" THEN 8
  ELSE IF pc = "created" THEN 9
  ELSE IF pc = "patch" THEN 10
  ELSE 11

WorkerStep == Reconcile \/ UpdateVanillaFails \/ UnpatchFails \/ Fail

\* Only the retry takes the patching back.
RetryScope == pc \in {"deleteDaemonSet", "deleteConfig", "unpatch"} => retrying

\* What a step of the worker makes of its stage: it goes on, to the retry, or it ends.
Onward ==
  \/ pc' = "idle"
  \/ UNCHANGED retrying /\
     \/ pc = "config" /\ pc' = "patch"
     \/ pc \in {"config", "patch"} /\ ~retrying /\ pc' = "created"
     \/ pc = "created" /\ pc' = "list"
     \/ pc = "list" /\ pc' = "report"
     \/ pc = "report" /\ pc' = "decide"
     \/ pc = "deleteDaemonSet" /\ pc' = "deleteConfig"
     \/ pc = "deleteConfig" /\ pc' \in {"config", "unpatch"}
     \/ pc = "unpatch" /\ pc' = "config"
  \/ pc = "decide" /\ pc' \in {"deleteDaemonSet", "deleteConfig"} /\ retrying' = TRUE

LEMMA WorkerOnward ==
  ASSUME WorkerStep
  PROVE  IF pc = "idle" THEN Get ELSE Onward
  <1> USE DEF Onward, Go, Return, Requeue, AfterPatch
  <1>1. CASE Get
    BY <1>1 DEF Get
  <1>2. CASE UpdateConfigMap \/ Patch \/ UpdateVanillaFails
    BY <1>2 DEF UpdateConfigMap, Patch, UpdateVanillaFails
  <1>3. CASE GetConfigMapCreationTime \/ UpdateReadinessStatuses \/ WriteReport \/ Decide
    BY <1>3 DEF GetConfigMapCreationTime, UpdateReadinessStatuses, WriteReport, Decide
  <1>4. CASE DeleteDaemonSet \/ UnpatchScheduler \/ UnpatchFails \/ Fail
    BY <1>4 DEF DeleteDaemonSet, UnpatchScheduler, UnpatchFails, Fail
  <1>5. CASE DeleteConfigMap
    <2>1. pc = "deleteConfig"
      BY <1>5 DEF DeleteConfigMap
    <2>2. \/ mode = "vanilla" /\ ~config /\ Requeue
          \/ mode = "vanilla" /\ config /\ Go("config")
          \/ pc' = "unpatch" /\ UNCHANGED retrying
      BY <1>5, Zenon DEF DeleteConfigMap
    <2> QED
      BY <2>1, <2>2
  <1> QED
    BY <1>1, <1>2, <1>3, <1>4, <1>5 DEF WorkerStep, Reconcile

\* Nobody else moves the worker; a restart ends what it does.
LEMMA OthersLeaveWorker ==
  ASSUME [Next]_vars, ~WorkerStep
  PROVE  UNCHANGED <<pc, retrying>> \/ pc' = "idle"
  <1> USE DEF Around
  <1>1. CASE \E m \in Masters : Agent(m) \/ SchedulerStarts(m) \/ SchedulerCrashes(m)
    BY <1>1 DEF Agent, AgentStarts, AgentPatches, AgentStops, RollOut, SchedulerStarts,
                SchedulerCrashes
  <1>2. CASE LoseConfig \/ LoseDaemonSet \/ Tick \/ Resync
    BY <1>2 DEF LoseConfig, LoseDaemonSet, Tick, Resync, worker
  <1>3. CASE Restart
    BY <1>3 DEF Restart, Requeue, Return
  <1>4. CASE UNCHANGED vars
    BY <1>4 DEF vars, worker
  <1> QED
    BY <1>1, <1>2, <1>3, <1>4 DEF Next, WorkerStep

LEMMA NextScope == ASSUME TypeOK, RetryScope, [Next]_vars PROVE RetryScope'
  <1> USE DEF RetryScope
  <1>1. ASSUME Onward PROVE RetryScope'
    BY <1>1 DEF Onward
  <1>2. CASE Get
    BY <1>2 DEF Get, Go
  <1>3. CASE UNCHANGED <<pc, retrying>>
    BY <1>3
  <1>4. CASE pc' = "idle"
    BY <1>4
  <1> QED
    BY <1>1, <1>2, <1>3, <1>4, WorkerOnward, OthersLeaveWorker

LEMMA LeftRange == Left \in 0 .. 11 /\ (Left = 0 <=> pc = "idle")
  BY DEF Left

\* A reconcile of the patcher ends after eleven steps at most: it takes the patching back and
\* makes it again once and does not ask for the readiness of what it has made.
THEOREM Ends ==
  Spec => /\ [](Left \in 0 .. 11 /\ (Left = 0 <=> pc = "idle"))
          /\ [][pc # "idle" => Left' <= Left /\ (WorkerStep => Left' < Left)]_vars
  <1>1. ASSUME TypeOK, RetryScope, [Next]_vars, pc # "idle"
        PROVE  Left' <= Left /\ (WorkerStep => Left' < Left)
    <2>1. ASSUME Onward PROVE Left' <= Left /\ Left' < Left
      BY <1>1, <2>1 DEF Onward, Left, RetryScope
    <2>2. CASE WorkerStep
      BY <1>1, <2>1, <2>2, WorkerOnward
    <2>3. ASSUME UNCHANGED <<pc, retrying>> \/ pc' = "idle" PROVE Left' <= Left
      BY <2>3 DEF Left
    <2>4. CASE ~WorkerStep
      BY <1>1, <2>3, <2>4, OthersLeaveWorker
    <2> QED
      BY <2>2, <2>4
  <1>2. Init => RetryScope
    BY DEF Init, RetryScope
  <1> QED
    BY <1>1, <1>2, TypeCorrect, NextScope, LeftRange, PTL DEF Spec
=============================================================================
