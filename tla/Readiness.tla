------------------------------ MODULE Readiness ------------------------------
(***************************************************************************)
(* The readiness of the patched schedulers and the retry of the patching:  *)
(* pkg/patcher/extender_readiness.go, scheduler_patcher_vanilla.go, and    *)
(* the retry of scheduler_patcher_openshift.go.                            *)
(*                                                                         *)
(* A scheduler counts as restarted when it started no earlier than the     *)
(* configmap of the patching was created, in timestamps of one second.     *)
(* When some have not and the configmap is older than the timeout, the     *)
(* patching is taken back and made again. On vanilla clusters the patching *)
(* is the work of agents, pods of a daemon set, that edit the manifest of  *)
(* the scheduler on their node and put it back when they stop (--restore); *)
(* on OpenShift an operator of the cluster rolls the schedulers out.       *)
(***************************************************************************)
EXTENDS Naturals, FiniteSets

CONSTANTS
  Masters,      \* nodes with a scheduler
  Timeout,      \* the readiness timeout, in ticks of a second
  MaxFaults     \* bound: failed requests, restarts of the operator or a scheduler, lost objects

ASSUME ReadinessAssumption ==
  {Timeout, MaxFaults} \subseteq Nat

VARIABLES
  mode,       \* how the schedulers are patched, fixed by the cluster
  config,     \* the watched configmap exists
  age,        \* seconds since it was created, as far as the timeout
  recent,     \* masters whose scheduler started in the current second
  fresh,      \* masters whose scheduler started no earlier than the configmap's second
  patching,   \* the daemon set exists; the Scheduler resource names the policy
  agents,     \* agents on a master: of the daemon set, of a deleted one
  manifest,   \* masters whose scheduler's manifest is patched
  up,         \* masters whose scheduler runs; it runs with the manifest it has
  report,     \* masters the readiness configmap says have restarted
  queued, pc, retrying, errs,
  statuses,   \* the statuses the worker has collected
  swallowed,  \* history: updateVanilla has hidden an error
  faults

time    == <<age, recent, fresh>>
cluster == <<config, patching, agents, manifest, up>>
worker  == <<queued, pc, retrying, errs, statuses>>
bounds  == <<swallowed, faults>>
vars    == <<mode, time, cluster, report, worker, bounds>>

Modes  == {"vanilla", "policy", "secondary"}
\* Of a scheduler's pod: it counts as restarted, it does not, or it is not in the list.
Statuses == [Masters -> {"restarted", "late", "missing"}]
NoStatuses == [m \in Masters |-> "missing"]

TypeOK ==
  /\ mode \in Modes /\ age \in 0 .. Timeout
  /\ recent \subseteq Masters /\ fresh \subseteq Masters
  /\ config \in BOOLEAN /\ patching \in BOOLEAN
  /\ agents \in [Masters -> SUBSET {"current", "old"}] /\ manifest \subseteq Masters
  /\ up \subseteq Masters
  /\ report \subseteq Masters /\ statuses \in Statuses
  /\ queued \in BOOLEAN /\ errs \in BOOLEAN /\ retrying \in BOOLEAN
  /\ pc \in {"idle", "config", "patch", "created", "list", "report", "decide",
             "deleteDaemonSet", "deleteConfig", "unpatch"}
  /\ retrying => pc \notin {"idle", "created", "list", "report", "decide"}
  /\ swallowed \in BOOLEAN /\ faults \in Nat

Init ==
  /\ mode \in Modes
  /\ age = 0 /\ recent \in SUBSET Masters /\ fresh = {}
  /\ config = FALSE /\ patching = FALSE
  /\ agents = [m \in Masters |-> {}] /\ manifest = {}
  /\ up = Masters
  /\ report = {} /\ statuses = NoStatuses
  /\ queued = TRUE /\ pc = "idle" /\ retrying = FALSE /\ errs = FALSE
  /\ swallowed = FALSE /\ faults = 0

-----------------------------------------------------------------------------
\* SchedulerPatcher.Update

Fault == faults < MaxFaults /\ faults' = faults + 1

Go(stage) == pc' = stage /\ UNCHANGED <<retrying, errs, statuses>>
\* (wrong variant: the retry is not forgotten)
ReturnRetrying == pc' = "idle" /\ errs' = FALSE /\ statuses' = NoStatuses /\ UNCHANGED retrying
Return ==
  /\ pc' = "idle" /\ retrying' = FALSE /\ errs' = FALSE /\ statuses' = NoStatuses
Requeue == Return /\ queued' = TRUE

\* The CR owns the objects of a vanilla cluster; nobody watches those of OpenShift.
OwnedEvent == queued' = (queued \/ mode = "vanilla")

Get ==
  /\ pc = "idle" /\ queued
  /\ queued' = FALSE /\ Go("config")
  /\ UNCHANGED <<mode, time, cluster, report, bounds>>

\* updateVanillaConfigMap, patchOpenShift: the creation time of an existing
\* configmap stays. A new one is as old as the schedulers of its second.
UpdateConfigMap ==
  /\ pc = "config"
  /\ IF config THEN UNCHANGED <<config, age, fresh, queued>>
     ELSE config' = TRUE /\ age' = 0 /\ fresh' = recent /\ OwnedEvent
  /\ Go("patch")
  /\ UNCHANGED <<mode, recent, patching, agents, manifest, up, report, bounds>>

AfterPatch == IF retrying THEN Return ELSE Go("created")

\* updateVanillaDaemonset, patchScheduler
Patch ==
  /\ pc = "patch"
  /\ patching' = TRUE
  /\ IF patching THEN UNCHANGED queued ELSE OwnedEvent
  /\ AfterPatch
  /\ UNCHANGED <<mode, time, config, agents, manifest, up, report, bounds>>

\* updateVanilla: "if err != nil { return nil }", without the part that is left.
UpdateVanillaFails ==
  /\ pc \in {"config", "patch"} /\ mode = "vanilla"
  /\ Fault /\ swallowed' = TRUE
  /\ AfterPatch
  /\ UNCHANGED <<mode, time, cluster, report, queued>>

-----------------------------------------------------------------------------
\* UpdateReadinessConfigMap

GetConfigMapCreationTime ==
  /\ pc = "created"
  /\ IF config THEN Go("list") /\ UNCHANGED queued ELSE Requeue
  /\ UNCHANGED <<mode, time, cluster, report, bounds>>

Restarted(m) == m \in up /\ m \in fresh

\* updateReadinessStatuses: the pod of a scheduler that is down may be there or not. With
\* the secondary scheduler, after a loop that waits for it but goes on without, every
\* master is reported as restarted.
StatusOf(m) ==
  IF mode = "secondary" \/ Restarted(m) THEN {"restarted"}
  ELSE {"late"} \cup IF m \in up THEN {} ELSE {"missing"}
UpdateReadinessStatuses ==
  /\ pc = "list"
  /\ statuses' \in {s \in Statuses : \A m \in Masters : s[m] \in StatusOf(m)}
  /\ pc' = "report"
  /\ UNCHANGED <<mode, time, cluster, report, queued, retrying, errs, bounds>>

WriteReport ==
  /\ pc = "report"
  /\ report' = {m \in Masters : statuses[m] = "restarted"}
  /\ queued' = (queued \/ report' # report)
  /\ Go("decide")
  /\ UNCHANGED <<mode, time, cluster, bounds>>

IsAllReady == \A m \in Masters : statuses[m] # "late"
IsTimeoutPassed == age = Timeout

Decide ==
  /\ pc = "decide"
  /\ IF IsAllReady \/ ~IsTimeoutPassed THEN Return
     ELSE /\ pc' = IF mode = "vanilla" THEN "deleteDaemonSet" ELSE "deleteConfig"
          /\ retrying' = TRUE /\ errs' = FALSE
          /\ statuses' = NoStatuses
  /\ UNCHANGED <<mode, time, cluster, report, queued, bounds>>

\* retryPatchVanilla: daemon set, configmap, updateVanilla; an object that is
\* missing ends it with an error. The agents stop some time later.
DeleteDaemonSet ==
  /\ pc = "deleteDaemonSet"
  /\ IF patching
     THEN /\ patching' = FALSE
          /\ agents' = [m \in Masters |-> IF agents[m] = {} THEN {} ELSE {"old"}]
          /\ queued' = TRUE /\ Go("deleteConfig")
     ELSE Requeue /\ UNCHANGED <<patching, agents>>
  /\ UNCHANGED <<mode, time, config, manifest, up, report, bounds>>

\* unPatchOpenShift goes on after an error, retryPatchVanilla does not.
DeleteConfigMap ==
  /\ pc = "deleteConfig"
  /\ config' = FALSE
  /\ CASE mode = "vanilla" /\ ~config -> Requeue
       [] mode = "vanilla" /\ config -> Go("config") /\ queued' = TRUE
       [] OTHER -> /\ pc' = "unpatch" /\ errs' = ~config
                   /\ UNCHANGED <<queued, retrying, statuses>>
  /\ UNCHANGED <<mode, time, patching, agents, manifest, up, report, bounds>>

UnpatchFails ==
  /\ pc \in {"deleteConfig", "unpatch"} /\ mode # "vanilla"
  /\ Fault
  /\ IF pc = "deleteConfig"
     THEN pc' = "unpatch" /\ errs' = TRUE /\ UNCHANGED <<queued, retrying, statuses>>
     ELSE Requeue
  /\ UNCHANGED <<mode, time, cluster, report, swallowed>>

UnpatchScheduler ==
  /\ pc = "unpatch"
  /\ patching' = FALSE
  /\ IF errs THEN Requeue ELSE Go("config") /\ UNCHANGED queued
  /\ UNCHANGED <<mode, time, config, agents, manifest, up, report, bounds>>

\* The other requests' errors are returned.
Fail ==
  /\ \/ pc \in {"created", "list", "report"}
     \/ pc \in {"config", "patch"} /\ mode # "vanilla"
     \/ pc \in {"deleteDaemonSet", "deleteConfig"} /\ mode = "vanilla"
  /\ Fault /\ Requeue
  /\ UNCHANGED <<mode, time, cluster, report, swallowed>>

-----------------------------------------------------------------------------
\* The agents, the schedulers, time, the operator's process

Around  == UNCHANGED <<mode, report, pc, retrying, errs, statuses>>
Changed == queued' = TRUE   \* a daemon set's status, a scheduler's pod
Down(m) == up \ {m}

AgentStarts(m) ==
  /\ mode = "vanilla" /\ patching /\ "current" \notin agents[m]
  /\ agents' = [agents EXCEPT ![m] = @ \cup {"current"}]
  /\ Changed /\ Around
  /\ UNCHANGED <<time, config, patching, manifest, up, bounds>>

\* The manifest is edited, and the kubelet restarts the scheduler.
AgentPatches(m) ==
  /\ agents[m] # {} /\ config /\ m \notin manifest
  /\ manifest' = manifest \cup {m} /\ up' = Down(m)
  /\ Changed /\ Around
  /\ UNCHANGED <<time, config, patching, agents, bounds>>

\* createPatcherContainers passes --restore: the agent that stops puts it back.
\* (wrong variant: it does not)
Kept(m) == manifest
Restored(m) == manifest \ {m}
AgentStops(m) ==
  /\ "old" \in agents[m]
  /\ agents' = [agents EXCEPT ![m] = @ \ {"old"}]
  /\ manifest' = Restored(m)
  /\ up' = IF manifest' # manifest THEN Down(m) ELSE up
  /\ Changed /\ Around
  /\ UNCHANGED <<time, config, patching, bounds>>

\* OpenShift's operator brings a scheduler to what the Scheduler resource says.
RollOut(m) ==
  /\ mode # "vanilla" /\ (m \in manifest) # patching
  /\ manifest' = IF patching THEN manifest \cup {m} ELSE manifest \ {m}
  /\ up' = Down(m)
  /\ Changed /\ Around
  /\ UNCHANGED <<time, config, patching, agents, bounds>>

\* (wrong variant: the scheduler's pods are not watched)
Unnoticed == UNCHANGED queued
PodChanged == queued' = TRUE

\* StartedAt.Before(&cmCreationTime): the configmap's own second is not before it.
\* (wrong variant: it is)
StartedAfter(m) == IF age = 0 THEN fresh \ {m} ELSE fresh \cup {m}
StartedNotBefore(m) == fresh \cup {m}

SchedulerStarts(m) ==
  /\ m \notin up
  /\ up' = up \cup {m}
  /\ recent' = recent \cup {m} /\ fresh' = StartedNotBefore(m)
  /\ PodChanged /\ Around
  /\ UNCHANGED <<age, config, patching, agents, manifest, bounds>>

SchedulerCrashes(m) ==
  /\ m \in up /\ Fault
  /\ up' = Down(m)
  /\ PodChanged /\ Around
  /\ UNCHANGED <<time, config, patching, agents, manifest, swallowed>>

\* Somebody deletes the configmap or the daemon set.
LoseConfig ==
  /\ config /\ Fault
  /\ config' = FALSE
  /\ OwnedEvent /\ Around
  /\ UNCHANGED <<time, patching, agents, manifest, up, swallowed>>

LoseDaemonSet ==
  /\ mode = "vanilla" /\ patching /\ Fault
  /\ patching' = FALSE
  /\ agents' = [m \in Masters |-> IF agents[m] = {} THEN {} ELSE {"old"}]
  /\ Changed /\ Around
  /\ UNCHANGED <<time, config, manifest, up, swallowed>>

Tick ==
  /\ age' = IF age < Timeout THEN age + 1 ELSE age
  /\ recent' = {}
  /\ UNCHANGED <<mode, fresh, cluster, report, worker, bounds>>

Resync ==
  /\ ~queued /\ queued' = TRUE
  /\ Around
  /\ UNCHANGED <<time, cluster, bounds>>

Restart ==
  /\ pc # "idle" /\ Fault
  /\ Requeue
  /\ UNCHANGED <<mode, time, cluster, report, swallowed>>

-----------------------------------------------------------------------------
Reconcile ==
  \/ Get \/ UpdateConfigMap \/ Patch \/ GetConfigMapCreationTime
  \/ UpdateReadinessStatuses \/ WriteReport \/ Decide \/ DeleteDaemonSet
  \/ DeleteConfigMap \/ UnpatchScheduler

Agent(m) == AgentStarts(m) \/ AgentPatches(m) \/ AgentStops(m) \/ RollOut(m)

Next ==
  \/ Reconcile \/ UpdateVanillaFails \/ UnpatchFails \/ Fail
  \/ \E m \in Masters : Agent(m) \/ SchedulerStarts(m) \/ SchedulerCrashes(m)
  \/ LoseConfig \/ LoseDaemonSet \/ Tick \/ Resync \/ Restart

Spec == Init /\ [][Next]_vars

\* Requests end, agents and kubelets do their work, time passes, and the informers
\* deliver everything again from time to time.
Fairness ==
  /\ WF_vars(Reconcile) /\ WF_vars(Tick) /\ WF_vars(Resync)
  /\ \A m \in Masters : WF_vars(Agent(m)) /\ WF_vars(SchedulerStarts(m))
FairSpec == Spec /\ Fairness

-----------------------------------------------------------------------------
\* Properties

\* At rest the readiness configmap says of every scheduler what the cluster says,
\* although schedulers come and go between the list and the write, and although the
\* retry replaces the configmap the statuses are relative to.
ReportCurrentAtRest ==
  (mode = "vanilla" /\ pc = "idle" /\ ~queued /\ config)
    => report = {m \in Masters : Restarted(m)}

\* Whoever decides after the timeout finds that every agent has done its work, that the
\* old ones are gone, and that the schedulers are still as they were listed.
Settled == \A m \in Masters : agents[m] = {"current"} /\ m \in manifest /\ m \in up
AgentsInTime ==
  (pc = "decide" /\ age = Timeout)
    => Settled /\ \A m \in Masters : statuses[m] \in StatusOf(m)

\* When the agents of a vanilla cluster finish within the timeout, all schedulers run with
\* the extender in the end and are reported so: a retry outdates the schedulers that were
\* ready, may have been cut in two, and has old agents stop while new ones patch, yet it
\* need not be repeated for ever. (With slower agents it is: a retry also strikes schedulers
\* that have become ready since they were listed.)
ReadyEventually ==
  <>[](mode = "vanilla" /\ ~swallowed /\ AgentsInTime)
    => <>[](\A m \in Masters : m \in up /\ m \in manifest /\ m \in report)
=============================================================================
