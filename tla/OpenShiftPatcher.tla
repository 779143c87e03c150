--------------------------- MODULE OpenShiftPatcher ---------------------------
(***************************************************************************)
(* The scheduler patcher on OpenShift                                      *)
(* (pkg/patcher/scheduler_patcher_openshift.go, scheduler_patcher.go), one *)
(* request per action. Up to Kubernetes 1.22 it names a policy configmap   *)
(* in the cluster's Scheduler resource (mode "policy"); from 1.23 on it    *)
(* creates a SecondaryScheduler (mode "secondary") whose configuration     *)
(* holds the address of one extender pod. Either resource may belong to    *)
(* somebody else. The operator reads them from informer caches, which      *)
(* start with the first read and may be behind, and writes them directly.  *)
(*                                                                         *)
(* The CR is live, being deleted or absent; DeploymentReconciler has the   *)
(* rest of its life. Readiness and retry are in module Readiness.          *)
(***************************************************************************)
EXTENDS Naturals, FiniteSets

CONSTANTS
  IPs, NoIP,         \* addresses of extender pods
  MaxTries,          \* getSchedulerExtenderIPMaxRetires
  Troubles,          \* what may go wrong, of AllTroubles
  MaxImages,         \* bound: scheduler images the CR names one after another
  MaxCreations,      \* bound: how often the CR is created
  MaxOthers,         \* bound: what others do to the schedulers and the cluster
  MaxOutages,        \* bound: extender pods that stop
  MaxFaults,         \* bound: failed requests and restarts
  MaxMishaps         \* bound: of the last three together

AllTroubles ==
  {"store",       \* the configmap with the selected IP is lost, or not read or written
   "replaced",    \* others delete or replace the operator's scheduler
   "upgrade"}     \* the cluster is upgraded from the one mode to the other

ASSUME PatcherAssumption ==
  /\ Troubles \subseteq AllTroubles
  /\ MaxTries \in Nat \ {0} /\ MaxImages \in Nat \ {0} /\ NoIP \notin IPs
  /\ {MaxCreations, MaxOthers, MaxOutages, MaxFaults, MaxMishaps} \subseteq Nat

Modes == {"policy", "secondary"}
Local == "127.0.0.1"   \* the address in the policy

VARIABLES
  cr, image,          \* "none", "live" or "deleting"; the image the CR names
  version,            \* the mode the cluster's version asks for
  sched,              \* the Scheduler and the SecondaryScheduler: whose configuration
                      \* it names, its image
  cached,             \* both in the operator's informer caches
  missed,             \* history: what Uninstall could not or did not see that it had to
                      \* delete, or Update did not see that it had to write
  config,             \* the address in each mode's configmap, NoIP: no configmap
  stored,             \* configmap selected-scheduler-extender-ip
  works,              \* extender pods that run and answer
  decided, memory,    \* in the process: the mode, SelectedSchedulerExtenderIP
  queued, pc, tries,
  found,              \* the scheduler as the worker has read it
  down,               \* history: the secondary scheduler's extender has stopped
  trouble,            \* history: what has gone wrong
  creations, others, outages, faults

cluster == <<cr, image, version>>
process == <<decided, memory>>
worker  == <<queued, pc, tries, found>>
bounds  == <<trouble, creations, others, outages, faults>>
caches  == <<cached, missed>>
vars    == <<cluster, sched, caches, config, stored, works, process, worker, down, bounds>>

Owner      == {"none", "csi", "foreign"}
Schedulers == [by: Owner, image: 0 .. MaxImages]
\* Of a copy's resourceVersion all that counts is whether it is the latest.
Copies     == [by: Owner, image: 0 .. MaxImages, latest: BOOLEAN]
NotFound   == [by |-> "none", image |-> 0, latest |-> FALSE]
Unread     == [by |-> "unread", image |-> 0, latest |-> FALSE]  \* no informer is started
Addresses  == IPs \cup {NoIP}

TypeOK ==
  /\ cr \in {"none", "live", "deleting"} /\ image \in 1 .. MaxImages
  /\ version \in Modes /\ decided \in Modes \cup {"unknown"}
  /\ sched \in [Modes -> Schedulers] /\ found \in Copies
  /\ cached \in [Modes -> Copies \cup {Unread}] /\ missed \subseteq {"config", "scheduler"}
  /\ config \in [Modes -> Addresses \cup {Local}]
  /\ {stored, memory} \subseteq Addresses
  /\ works \subseteq IPs /\ down \in BOOLEAN
  /\ queued \in BOOLEAN /\ tries \in 0 .. MaxTries - 1
  /\ pc \in {"idle", "version", "memory", "stored", "list", "store", "config", "patch",
             "write", "unversion", "deleteConfig", "unpatch", "unwrite", "finalizer"}
  /\ (pc \in {"store", "config"} /\ decided = "secondary") => memory # NoIP
  /\ (pc \notin {"idle", "version", "unversion", "finalizer"}) => decided \in Modes
  /\ trouble \subseteq Troubles
  /\ {creations, others, outages, faults} \subseteq Nat

Init ==
  /\ cr = "none" /\ image = 1 /\ version \in Modes
  /\ \E by \in {"none", "foreign"} : sched = [m \in Modes |-> [by |-> by, image |-> 0]]
  /\ cached = [m \in Modes |-> Unread] /\ missed = {}
  /\ config = [m \in Modes |-> NoIP] /\ stored = NoIP
  /\ works \in SUBSET IPs /\ decided = "unknown" /\ memory = NoIP
  /\ queued = FALSE /\ pc = "idle" /\ tries = 0 /\ found = NotFound
  /\ down = FALSE /\ trouble = {} /\ creations = 0 /\ others = 0 /\ outages = 0 /\ faults = 0

\* (bound: things go wrong in one way in a behaviour)
Trouble(t) == t \in Troubles /\ trouble \subseteq {t} /\ trouble' = {t}
Room       == others + outages + faults < MaxMishaps
Fault      == Room /\ faults < MaxFaults /\ faults' = faults + 1
              /\ UNCHANGED <<creations, others, outages>>
Harmless   == Fault /\ UNCHANGED trouble
StoreFault == Fault /\ Trouble("store")

Go(stage) == pc' = stage /\ UNCHANGED <<queued, tries, found>>
Return    == pc' = "idle" /\ tries' = 0 /\ found' = NotFound
\* (wrong variant: the error is not returned)
RequeueDropped == Return /\ UNCHANGED queued
Requeue   == Return /\ queued' = TRUE

-----------------------------------------------------------------------------
\* SchedulerPatcher.Update

Get ==
  /\ pc = "idle" /\ queued
  /\ queued' = FALSE
  /\ pc' = CASE cr = "none" -> "idle" [] cr = "live" -> "version" [] OTHER -> "unversion"
  /\ UNCHANGED <<cluster, sched, caches, config, stored, works, process, tries, found, down, bounds>>

\* The version is asked for once in the life of the process.
Decision == IF decided = "unknown" THEN version ELSE decided
UseOpenshiftSecondaryScheduler ==
  /\ pc = "version"
  /\ decided' = Decision
  /\ Go(IF Decision = "secondary" THEN "memory" ELSE "config")
  /\ UNCHANGED <<cluster, sched, caches, config, stored, works, memory, down, bounds>>

\* getSchedulerExtenderIP: the selected address while it answers, then the stored one,
\* then that of any pod that answers.
\* (wrong variant: the selected address is used unchecked)
CheckMemoryTrusted ==
  /\ pc = "memory"
  /\ Go(IF memory # NoIP THEN "config" ELSE "stored")
  /\ UNCHANGED <<cluster, sched, caches, config, stored, works, process, down, bounds>>
CheckMemory ==
  /\ pc = "memory"
  /\ Go(IF memory \in works THEN "config" ELSE "stored")
  /\ UNCHANGED <<cluster, sched, caches, config, stored, works, process, down, bounds>>

\* (wrong variant: the stored address is not looked at)
CheckStoredSkipped ==
  /\ pc = "stored" /\ Go("list")
  /\ UNCHANGED <<cluster, sched, caches, config, stored, works, process, down, bounds>>
CheckStored ==
  /\ pc = "stored"
  /\ \/ /\ stored # memory /\ stored \in works
        /\ memory' = stored /\ Go("config") /\ UNCHANGED bounds
     \/ /\ stored = memory \/ stored \notin works
        /\ Go("list") /\ UNCHANGED <<memory, bounds>>
     \/ /\ StoreFault /\ Go("list") /\ UNCHANGED memory
  /\ UNCHANGED <<cluster, sched, caches, config, stored, works, decided, down>>

SelectExtender ==
  /\ pc = "list" /\ works # {}
  /\ memory' \in works /\ Go("store")
  /\ UNCHANGED <<cluster, sched, caches, config, stored, works, decided, down, bounds>>

\* createOpenshiftConfig: the loop forgets the address, waits and tries again.
\* (wrong variant: it never gives up)
NoExtenderForever ==
  /\ pc = "list" /\ works = {}
  /\ memory' = NoIP /\ Go("memory")
  /\ UNCHANGED <<cluster, sched, caches, config, stored, works, decided, down, bounds>>
\* (wrong variant: the last failure is not an error)
NoExtenderGoesOn ==
  /\ pc = "list" /\ works = {}
  /\ memory' = NoIP
  /\ IF tries + 1 < MaxTries
     THEN pc' = "memory" /\ tries' = tries + 1 /\ UNCHANGED <<queued, found>>
     ELSE Go("config")
  /\ UNCHANGED <<cluster, sched, caches, config, stored, works, decided, down, bounds>>
NoExtender ==
  /\ pc = "list" /\ works = {}
  /\ memory' = NoIP
  /\ IF tries + 1 < MaxTries
     THEN pc' = "memory" /\ tries' = tries + 1 /\ UNCHANGED <<queued, found>>
     ELSE Requeue
  /\ UNCHANGED <<cluster, sched, caches, config, stored, works, decided, down, bounds>>

\* The configmap is owned by the CR; a failure is only logged.
StoreIP ==
  /\ pc = "store"
  /\ pc' = "config" /\ UNCHANGED <<tries, found>>
  /\ \/ stored' = memory /\ queued' = (queued \/ stored # memory) /\ UNCHANGED bounds
     \/ StoreFault /\ UNCHANGED <<stored, queued>>
  /\ UNCHANGED <<cluster, sched, caches, config, works, process, down>>

\* UpdateConfigMap: the configmap lies in another namespace and has no owner.
WriteConfig ==
  /\ pc = "config"
  /\ config' = [config EXCEPT ![decided] = IF decided = "secondary" THEN memory ELSE Local]
  /\ down' = IF config' = config THEN down ELSE decided = "secondary" /\ memory \notin works
  /\ Go("patch")
  /\ UNCHANGED <<cluster, sched, caches, stored, works, process, bounds>>

\* The first read starts the informer and waits for it; later ones go by its copy.
Latest(m)   == [by |-> sched[m].by, image |-> sched[m].image, latest |-> TRUE]
Copy(m)     == IF cached[m] = Unread THEN Latest(m) ELSE cached[m]
Outdated(m) == <<Copy(m).by, Copy(m).image>> # <<sched[m].by, sched[m].image>>
Read(m)     == cached' = [cached EXCEPT ![m] = Copy(m)]
\* (history: what an outdated copy hides is missed until the next look)
Missing(x, really) == missed' = IF really THEN missed \cup {x} ELSE missed \ {x}

\* patchScheduler, patchSecondaryScheduler: read, and decide by what was read.
NeedsWrite(s) ==
  \/ s.by = "none"
  \/ s.by = "csi" /\ decided = "secondary" /\ s.image # image
GetScheduler ==
  /\ pc = "patch"
  /\ Read(decided) /\ Missing("scheduler", Outdated(decided))
  /\ LET s == Copy(decided) IN
     IF s.by = "foreign" THEN Requeue
     ELSE IF NeedsWrite(s) THEN pc' = "write" /\ found' = s /\ UNCHANGED <<queued, tries>>
     ELSE Return /\ UNCHANGED queued
  /\ UNCHANGED <<cluster, sched, config, stored, works, process, down, bounds>>

\* An object that was not found is created, which fails if there is one by now; an
\* Update is taken of the version that was read.
\* (wrong variant: it is written whatever is there)
NotStaleIgnored(m) == m \in Modes
NotStale(m) ==
  IF m = "secondary" /\ found.by = "none" THEN sched[m].by = "none" ELSE found.latest
Write(m, by) ==
  /\ sched' = [sched EXCEPT ![m] = [by |-> by,
                                    image |-> IF m = "secondary" /\ by = "csi" THEN image ELSE 0]]
  /\ cached' = [cached EXCEPT ![m].latest = FALSE]
WriteScheduler ==
  /\ pc = "write"
  /\ IF NotStale(decided) THEN Write(decided, "csi") /\ Return /\ UNCHANGED queued
                          ELSE Requeue /\ UNCHANGED <<sched, cached>>
  /\ UNCHANGED <<cluster, missed, config, stored, works, process, down, bounds>>

\* Requests of Update whose errors are returned. (The list of the extender's pods is read
\* from a cache as well: one that shows no pod that answers is a failed try.)
Fail ==
  /\ pc \in {"version", "list", "config", "patch", "write"}
  /\ Harmless
  /\ IF pc = "list" /\ tries + 1 < MaxTries
     THEN pc' = "memory" /\ tries' = tries + 1 /\ UNCHANGED <<queued, found>>
     ELSE Requeue
  /\ memory' = IF pc = "list" THEN NoIP ELSE memory
  /\ UNCHANGED <<cluster, sched, caches, config, stored, works, decided, down>>

-----------------------------------------------------------------------------
\* SchedulerPatcher.Uninstall. Errors are collected, logged by Reconcile, and the
\* finalizer goes all the same.

DecideUninstall ==
  /\ pc = "unversion"
  /\ \/ decided' = Decision /\ Go("deleteConfig") /\ UNCHANGED <<missed, bounds>>
     \/ /\ decided = "unknown" /\ Harmless
        /\ missed' = {"config", "scheduler"} /\ Go("finalizer") /\ UNCHANGED decided
  /\ UNCHANGED <<cluster, sched, cached, config, stored, works, memory, down>>

DeleteConfig ==
  /\ pc = "deleteConfig"
  /\ \/ /\ config' = [config EXCEPT ![decided] = NoIP]
        /\ Missing("config", FALSE) /\ UNCHANGED bounds
     \/ Harmless /\ Missing("config", TRUE) /\ UNCHANGED config
  /\ down' = (down /\ config'["secondary"] # NoIP)
  /\ Go("unpatch")
  /\ UNCHANGED <<cluster, sched, cached, stored, works, process>>

\* (wrong variant: it must also run the image the CR names)
MineOfImage(s) == s.by = "csi" /\ s.image = image
Mine(s) == s.by = "csi"
GetForUnpatch ==
  /\ pc = "unpatch"
  /\ \/ /\ Read(decided) /\ Missing("scheduler", Outdated(decided)) /\ UNCHANGED bounds
        /\ IF Mine(Copy(decided))
           THEN pc' = "unwrite" /\ found' = Copy(decided) /\ UNCHANGED <<queued, tries>>
           ELSE Go("finalizer")
     \/ Harmless /\ Missing("scheduler", TRUE) /\ Go("finalizer") /\ UNCHANGED cached
  /\ UNCHANGED <<cluster, sched, config, stored, works, process, down>>

\* unpatchScheduler writes the copy it read; unpatchSecondaryScheduler deletes by name.
Unpatch ==
  /\ pc = "unwrite"
  /\ LET taken == IF decided = "secondary" THEN sched[decided].by # "none"
                                          ELSE found.latest IN
     \/ taken /\ Write(decided, "none") /\ UNCHANGED <<missed, bounds>>
     \/ ~taken /\ Missing("scheduler", TRUE) /\ UNCHANGED <<sched, cached, bounds>>
     \/ Harmless /\ Missing("scheduler", TRUE) /\ UNCHANGED <<sched, cached>>
  /\ pc' = "finalizer" /\ found' = NotFound /\ UNCHANGED <<queued, tries>>
  /\ UNCHANGED <<cluster, config, stored, works, process, down>>

RemoveFinalizer ==
  /\ pc = "finalizer"
  /\ cr' = "none" /\ Return /\ queued' = TRUE
  /\ UNCHANGED <<image, version, sched, caches, config, stored, works, process, down, bounds>>

-----------------------------------------------------------------------------
\* Users, other administrators, extender pods, the process

Create ==
  /\ cr = "none" /\ creations < MaxCreations
  /\ creations' = creations + 1 /\ cr' = "live" /\ queued' = TRUE
  /\ UNCHANGED <<image, version, sched, caches, config, stored, works, process, pc, tries, found,
                 down, trouble, others, outages, faults>>

Edit ==
  /\ cr = "live" /\ image < MaxImages
  /\ image' = image + 1 /\ queued' = TRUE
  /\ UNCHANGED <<cr, version, sched, caches, config, stored, works, process, pc, tries, found,
                 down, bounds>>

Delete ==
  /\ cr = "live"
  /\ cr' = "deleting" /\ queued' = TRUE
  /\ UNCHANGED <<image, version, sched, caches, config, stored, works, process, pc, tries, found,
                 down, bounds>>

\* The configmap with the selected address goes with its owner.
CollectGarbage ==
  /\ cr = "none" /\ stored # NoIP
  /\ stored' = NoIP /\ queued' = TRUE
  /\ UNCHANGED <<cluster, sched, caches, config, works, process, pc, tries, found, down, bounds>>

\* Somebody deletes that configmap; its owner is enqueued.
LoseStored ==
  /\ stored # NoIP /\ StoreFault
  /\ stored' = NoIP /\ queued' = TRUE
  /\ UNCHANGED <<cluster, sched, caches, config, works, process, pc, tries, found, down>>

\* No handler is registered for these resources. A change of status is a change from csi to csi.
Interfere(m) ==
  /\ Room /\ others < MaxOthers /\ others' = others + 1
  /\ \E by \in Owner :
       /\ IF sched[m].by = "csi" /\ by # "csi" THEN Trouble("replaced") ELSE UNCHANGED trouble
       /\ by = "csi" => sched[m].by = "csi"
       /\ m = "secondary" => by # "none" \/ sched[m].by # "none"
       /\ sched' = [sched EXCEPT ![m] = [by |-> by, image |-> IF by = "csi" THEN @.image ELSE 0]]
  /\ cached' = [cached EXCEPT ![m].latest = FALSE]
  /\ found' = IF m = decided THEN [found EXCEPT !.latest = FALSE] ELSE found
  /\ UNCHANGED <<cluster, missed, config, stored, works, process, queued, pc, tries, down,
                 creations, outages, faults>>

\* The informer delivers the resource's latest state.
Sync(m) ==
  /\ cached[m] # Unread /\ ~cached[m].latest
  /\ cached' = [cached EXCEPT ![m] = Latest(m)]
  /\ UNCHANGED <<cluster, sched, missed, config, stored, works, process, worker, down, bounds>>

\* The status of the extender's daemon set, which the CR owns, changes with its pods.
ExtenderStarts(ip) ==
  /\ ip \notin works
  /\ works' = works \cup {ip} /\ queued' = TRUE
  /\ UNCHANGED <<cluster, sched, caches, config, stored, process, pc, tries, found, down, bounds>>

ExtenderStops(ip) ==
  /\ ip \in works /\ Room /\ outages < MaxOutages
  /\ outages' = outages + 1
  /\ works' = works \ {ip} /\ down' = (down \/ ip = config["secondary"]) /\ queued' = TRUE
  /\ UNCHANGED <<cluster, sched, caches, config, stored, process, pc, tries, found, trouble,
                 creations, others, faults>>

UpgradeCluster ==
  /\ version = "policy" /\ Trouble("upgrade")
  /\ Room /\ others < MaxOthers /\ others' = others + 1
  /\ version' = "secondary"
  /\ UNCHANGED <<cr, image, sched, caches, config, stored, works, process, worker, down, creations,
                 outages, faults>>

Restart ==
  /\ decided # "unknown" /\ Harmless
  /\ decided' = "unknown" /\ memory' = NoIP
  /\ cached' = [m \in Modes |-> Unread]
  /\ Return /\ queued' = (cr # "none")
  /\ UNCHANGED <<cluster, sched, missed, config, stored, works, down>>

-----------------------------------------------------------------------------
Reconcile ==
  \/ Get \/ UseOpenshiftSecondaryScheduler \/ CheckMemory \/ CheckStored \/ SelectExtender
  \/ NoExtender \/ StoreIP \/ WriteConfig \/ GetScheduler \/ WriteScheduler
  \/ DecideUninstall \/ DeleteConfig \/ GetForUnpatch \/ Unpatch \/ RemoveFinalizer

Environment ==
  \/ Create \/ Edit \/ Delete \/ CollectGarbage \/ LoseStored \/ UpgradeCluster \/ Restart
  \/ \E m \in Modes : Interfere(m)
  \/ \E ip \in IPs : ExtenderStarts(ip) \/ ExtenderStops(ip)

Informers == \E m \in Modes : Sync(m)

Next == Reconcile \/ Fail \/ Informers \/ Environment

Spec == Init /\ [][Next]_vars
\* Requests end, what is queued is taken and watch events arrive; nothing is promised about
\* the rest.
FairSpec == Spec /\ WF_vars(Reconcile) /\ WF_vars(Informers)

-----------------------------------------------------------------------------
\* Properties

Patched ==
  /\ decided \in Modes /\ sched[decided].by = "csi"
  /\ decided = "secondary" => config["secondary"] \in works /\ sched[decided].image = image
  /\ decided = "policy" => config["policy"] = Local

\* At rest with a live CR the scheduler is the operator's, and the secondary one is
\* told of an extender that answers, although the pod it was told of may have gone
\* between any two of the checks, the selection and the writes. (No event of the schedulers
\* brings the operator back: what others make of them, and what the last look at an
\* outdated copy did not show, is found out at the next event of something else.)
PatchedAtRest ==
  (/\ pc = "idle" /\ ~queued /\ cr = "live"
   /\ "replaced" \notin trouble /\ "scheduler" \notin missed) => Patched

\* patchScheduler "if name is set but not to CSI config name return error",
\* unpatchSecondaryScheduler "only delete secondaryscheduler CR cluster created by
\* baremetal CSI": a scheduler that is somebody else's is never written or deleted, however
\* old the copy is that the operator goes by. (Except one that has come since the copy the
\* operator decides by to delete the secondary scheduler: the delete names no version.)
ForeignKept ==
  [][\A m \in Modes :
       sched[m].by = "foreign" /\ sched'[m] # sched[m]
         => \/ others' = others + 1
            \/ m = "secondary" /\ pc = "unwrite" /\ found.by = "csi" /\ ~found.latest]_vars

\* "Uninstall unpatch Openshift Scheduler": what was patched is not, once the CR is
\* gone, except for exactly the part that the last Uninstall could not delete because its
\* request failed or conflicted, or did not see in its copy; a failure of one part is no
\* excuse for the other. (After an upgrade a restarted operator cleans the other mode.)
UninstallCleans ==
  cr = "none" /\ "upgrade" \notin trouble =>
    \A m \in Modes : /\ sched[m].by = "csi" => "scheduler" \in missed
                     /\ config[m] # NoIP => "config" \in missed

\* The scheduler is not moved from one extender to another while the first one works,
\* not even by a restarted operator: this is what the stored address is for. (Of the
\* first CR's life: later on the address that the process still has in memory is used
\* without storing it again.)
AddressKept ==
  [][(/\ creations = 1 /\ "store" \notin trouble
      /\ config["secondary"] # NoIP /\ config'["secondary"] \notin {NoIP, config["secondary"]})
       => down]_vars

\* A deleted CR goes, although no extender answers: the worker is not held by the loop
\* that looks for one.
DeletionCompletes == (cr = "deleting") ~> (cr = "none")

\* When an extender keeps answering and nobody else's scheduler is in the way, a live
\* CR's scheduler gets patched and stays so - or the operator has taken an outdated copy
\* that is patched for the scheduler.
PatchedEventually ==
  <>[](/\ cr = "live" /\ works # {} /\ "replaced" \notin trouble
       /\ \A m \in Modes : sched[m].by # "foreign")
    => <>[](Patched \/ "scheduler" \in missed)
===============================================================================
