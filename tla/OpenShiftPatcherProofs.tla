------------------------ MODULE OpenShiftPatcherProofs ------------------------
(***************************************************************************)
(* The invariants of OpenShiftPatcher, two of its action properties, and   *)
(* that a reconcile ends, for any addresses, any number of tries and any   *)
(* bounds.                                                                 *)
(***************************************************************************)
EXTENDS OpenShiftPatcher, TLAPS

USE DEF caches

UpdateStages    == {"version", "memory", "stored", "list", "store", "config", "patch", "write"}
UninstallStages == {"unversion", "deleteConfig", "unpatch", "unwrite", "finalizer"}
Stages == {"idle"} \cup UpdateStages \cup UninstallStages

\* TypeOK in parts: the cluster's objects, the process, its worker, the bounds.
ObjectType ==
  /\ cr \in {"none", "live", "deleting"} /\ image \in 1 .. MaxImages /\ version \in Modes
  /\ sched \in [Modes -> Schedulers]
  /\ config \in [Modes -> Addresses \cup {Local}]
  /\ stored \in Addresses /\ works \subseteq IPs /\ down \in BOOLEAN
ProcessType ==
  /\ decided \in Modes \cup {"unknown"} /\ memory \in Addresses
  /\ (pc \in {"store", "config"} /\ decided = "secondary") => memory # NoIP
  /\ (pc \notin {"idle", "version", "unversion", "finalizer"}) => decided \in Modes
WorkerType ==
  /\ found \in Copies /\ tries \in 0 .. MaxTries - 1 /\ pc \in Stages
CacheType ==
  cached \in [Modes -> Copies \cup {Unread}] /\ missed \subseteq {"config", "scheduler"}
BoundType ==
  /\ trouble \subseteq Troubles
  /\ creations \in Nat /\ others \in Nat /\ outages \in Nat /\ faults \in Nat

LEMMA TypeParts ==
  /\ TypeOK <=> /\ ObjectType /\ ProcessType /\ WorkerType /\ BoundType /\ CacheType
                /\ queued \in BOOLEAN
  /\ TypeOK' <=> /\ ObjectType' /\ ProcessType' /\ WorkerType' /\ BoundType' /\ CacheType'
                 /\ queued' \in BOOLEAN
  BY DEF TypeOK, ObjectType, ProcessType, WorkerType, BoundType, CacheType, Stages,
         UpdateStages, UninstallStages

-----------------------------------------------------------------------------
\* The helpers

LEMMA NotFoundType == NotFound \in Copies /\ 0 \in 0 .. MaxTries - 1
  BY PatcherAssumption DEF NotFound, Copies, Owner

LEMMA ReturnType == Return => WorkerType' /\ pc' = "idle"
  BY NotFoundType DEF Return, WorkerType, Stages

LEMMA GoType ==
  ASSUME WorkerType, NEW stage \in Stages, Go(stage)
  PROVE  WorkerType' /\ pc' = stage /\ queued' = queued
  BY DEF Go, WorkerType

LEMMA FaultType ==
  ASSUME BoundType, Fault
  PROVE  /\ creations' \in Nat /\ others' \in Nat /\ outages' \in Nat /\ faults' \in Nat
         /\ creations' = creations
  BY DEF Fault, BoundType

\* What has gone wrong stays on the record.
LEMMA TroubleGrows ==
  ASSUME NEW t, Trouble(t) PROVE t \in trouble' /\ trouble \subseteq trouble' /\ trouble' \subseteq Troubles
  BY DEF Trouble

LEMMA WriteEffect ==
  ASSUME TypeOK, NEW m \in Modes, NEW by \in Owner, Write(m, by)
  PROVE  /\ sched' \in [Modes -> Schedulers]
         /\ sched'[m].by = by
         /\ (m = "secondary" /\ by = "csi") => sched'[m].image = image
         /\ \A n \in Modes \ {m} : sched'[n] = sched[n]
  <1>1. image \in 0 .. MaxImages /\ 0 \in 0 .. MaxImages
    BY PatcherAssumption DEF TypeOK
  <1>. QED BY <1>1 DEF TypeOK, Write, Schedulers

LEMMA InterfereEffect ==
  ASSUME TypeOK, NEW m \in Modes, Interfere(m)
  PROVE  /\ sched' \in [Modes -> Schedulers]
         /\ sched'[m].by = "csi" => sched' = sched
         /\ (sched[m].by = "csi" /\ sched'[m].by # "csi") => "replaced" \in trouble'
         /\ \A n \in Modes \ {m} : sched'[n] = sched[n]
         /\ trouble \subseteq trouble' /\ trouble' \subseteq Troubles
         /\ trouble' \subseteq trouble \cup {"replaced"}
  <1>1. PICK by \in Owner :
          /\ IF sched[m].by = "csi" /\ by # "csi" THEN Trouble("replaced") ELSE UNCHANGED trouble
          /\ by = "csi" => sched[m].by = "csi"
          /\ sched' = [sched EXCEPT ![m] = [by |-> by, image |-> IF by = "csi" THEN @.image ELSE 0]]
    BY DEF Interfere
  <1>2. /\ sched \in [Modes -> Schedulers] /\ sched[m] \in Schedulers /\ trouble \subseteq Troubles
        /\ 0 \in 0 .. MaxImages
    BY PatcherAssumption DEF TypeOK
  <1>3. [by |-> by, image |-> IF by = "csi" THEN sched[m].image ELSE 0] \in Schedulers
    BY <1>2 DEF Schedulers
  <1>4. /\ sched' \in [Modes -> Schedulers] /\ sched'[m].by = by
        /\ \A n \in Modes \ {m} : sched'[n] = sched[n]
    BY <1>1, <1>2, <1>3
  <1>5. by = "csi" => sched' = sched
    <2>1. by = "csi" => [by |-> by, image |-> sched[m].image] = sched[m]
      BY <1>1, <1>2 DEF Schedulers
    <2>. QED BY <1>1, <1>2, <2>1
  <1>. QED BY <1>1, <1>2, <1>4, <1>5 DEF Trouble

\* What others do to the scheduler outdates the worker's copy.
LEMMA InterfereFound ==
  ASSUME TypeOK, NEW m \in Modes, Interfere(m)
  PROVE  /\ found' \in Copies /\ found'.by = found.by
         /\ found'.latest => found.latest /\ m # decided /\ found' = found
  <1>1. found \in Copies
    BY DEF TypeOK
  <1>2. found' = IF m = decided THEN [found EXCEPT !.latest = FALSE] ELSE found
    BY DEF Interfere
  <1>. QED BY <1>1, <1>2 DEF Copies

\* What the worker reads is a copy, and the latest one is true.
LEMMA CopyType == ASSUME TypeOK, NEW m \in Modes PROVE Copy(m) \in Copies
  <1>1. sched[m] \in Schedulers /\ cached[m] \in Copies \cup {Unread}
    BY DEF TypeOK
  <1>. QED BY <1>1 DEF Copy, Latest, Schedulers, Copies

LEMMA GetStage ==
  Get => /\ pc = "idle" /\ queued /\ queued' = FALSE
         /\ pc' = IF cr = "none" THEN "idle" ELSE IF cr = "live" THEN "version" ELSE "unversion"
         /\ UNCHANGED <<cluster, sched, caches, config, stored, works, process, tries, found, down,
                        bounds>>
  BY Zenon DEF Get
-----------------------------------------------------------------------------
\* The types

LEMMA InitType == Init => TypeOK
  <1>. SUFFICES ASSUME Init PROVE TypeOK
    OBVIOUS
  <1>1. PICK by \in {"none", "foreign"} : sched = [m \in Modes |-> [by |-> by, image |-> 0]]
    BY DEF Init
  <1>2. [by |-> by, image |-> 0] \in Schedulers
    BY PatcherAssumption DEF Schedulers, Owner
  <1>3. ObjectType
    <2>1. 1 \in 1 .. MaxImages
      BY PatcherAssumption
    <2>2. sched \in [Modes -> Schedulers] /\ config \in [Modes -> Addresses \cup {Local}]
      BY <1>1, <1>2 DEF Init, Addresses
    <2>. QED BY <2>1, <2>2 DEF Init, ObjectType, Addresses
  <1>4. ProcessType /\ WorkerType /\ BoundType /\ queued \in BOOLEAN
    BY NotFoundType DEF Init, ProcessType, WorkerType, BoundType, Stages, Addresses
  <1>5. CacheType
    BY DEF Init, CacheType
  <1>. QED BY <1>3, <1>4, <1>5, TypeParts

\* The steps of Update.
LEMMA UpdateType ==
  ASSUME TypeOK,
         \/ Get \/ UseOpenshiftSecondaryScheduler \/ CheckMemory \/ CheckStored
         \/ SelectExtender \/ NoExtender \/ StoreIP \/ WriteConfig \/ GetScheduler
         \/ WriteScheduler \/ Fail
  PROVE  ObjectType' /\ ProcessType' /\ WorkerType' /\ BoundType' /\ queued' \in BOOLEAN
  <1>. USE DEF cluster, process, bounds
  <1>0. ObjectType /\ ProcessType /\ WorkerType /\ BoundType /\ queued \in BOOLEAN
    BY TypeParts
  <1>1. CASE Get
    BY <1>0, <1>1, GetStage
    DEF ObjectType, ProcessType, WorkerType, BoundType, Stages, UpdateStages, UninstallStages
  <1>2. CASE UseOpenshiftSecondaryScheduler
    <2>1. decided' \in Modes
      BY <1>0, <1>2 DEF UseOpenshiftSecondaryScheduler, Decision, ObjectType, ProcessType
    <2>. QED
      BY <1>0, <1>2, <2>1
      DEF UseOpenshiftSecondaryScheduler, Decision, Go, ObjectType, ProcessType, WorkerType,
          BoundType, Stages, UpdateStages, Modes
  <1>3. CASE CheckMemory
    <2>1. memory \in works => memory # NoIP
      BY <1>0, PatcherAssumption DEF ObjectType
    <2>. QED
      BY <1>0, <1>3, <2>1
      DEF CheckMemory, Go, ObjectType, ProcessType, WorkerType, BoundType, Stages, UpdateStages
  <1>4. CASE CheckStored
    <2>1. stored \in works => stored # NoIP
      BY <1>0, PatcherAssumption DEF ObjectType
    <2>2. BoundType'
      <3>1. CASE UNCHANGED bounds
        BY <1>0, <3>1 DEF BoundType
      <3>2. CASE StoreFault
        BY <1>0, <3>2, FaultType, TroubleGrows DEF StoreFault, BoundType
      <3>. QED BY <1>4, <3>1, <3>2 DEF CheckStored
    <2>. QED
      BY <1>0, <1>4, <2>1, <2>2
      DEF CheckStored, Go, ObjectType, ProcessType, WorkerType, Stages, UpdateStages
  <1>5. CASE SelectExtender
    <2>1. memory' \in Addresses /\ memory' # NoIP
      BY <1>0, <1>5, PatcherAssumption DEF SelectExtender, ObjectType, Addresses
    <2>. QED
      BY <1>0, <1>5, <2>1
      DEF SelectExtender, Go, ObjectType, ProcessType, WorkerType, BoundType, Stages, UpdateStages
  <1>6. CASE NoExtender \/ Fail
    <2>1. CASE Requeue
      <3>1. WorkerType' /\ pc' = "idle" /\ queued' = TRUE
        BY <2>1, ReturnType DEF Requeue
      <3>2. memory' \in Addresses /\ decided' = decided
        BY <1>0, <1>6 DEF NoExtender, Fail, ProcessType, Addresses
      <3>3. ObjectType'
        BY <1>0, <1>6 DEF NoExtender, Fail, ObjectType
      <3>4. BoundType'
        BY <1>0, <1>6, FaultType DEF NoExtender, Fail, Harmless, BoundType
      <3>. QED BY <1>0, <3>1, <3>2, <3>3, <3>4 DEF ProcessType
    <2>2. CASE ~Requeue
      <3>1. /\ pc = "list" /\ tries + 1 < MaxTries /\ memory' = NoIP
            /\ pc' = "memory" /\ tries' = tries + 1 /\ UNCHANGED <<queued, found>>
        BY <1>6, <2>2 DEF NoExtender, Fail
      <3>2. WorkerType'
        BY <1>0, <3>1, PatcherAssumption DEF WorkerType, Stages, UpdateStages
      <3>3. ObjectType' /\ decided' = decided
        BY <1>0, <1>6 DEF NoExtender, Fail, ObjectType
      <3>4. BoundType'
        BY <1>0, <1>6, FaultType DEF NoExtender, Fail, Harmless, BoundType
      <3>. QED BY <1>0, <3>1, <3>2, <3>3, <3>4 DEF ProcessType, Addresses
    <2>. QED BY <2>1, <2>2
  <1>7. CASE StoreIP
    <2>1. BoundType'
      <3>1. CASE UNCHANGED bounds
        BY <1>0, <3>1 DEF BoundType
      <3>2. CASE StoreFault
        BY <1>0, <3>2, FaultType, TroubleGrows DEF StoreFault, BoundType
      <3>. QED BY <1>7, <3>1, <3>2 DEF StoreIP
    <2>2. queued' \in BOOLEAN
      BY <1>0, <1>7, Zenon DEF StoreIP
    <2>. QED
      BY <1>0, <1>7, <2>1, <2>2
      DEF StoreIP, ObjectType, ProcessType, WorkerType, Stages, UpdateStages
  <1>8. CASE WriteConfig
    <2>1. down' \in BOOLEAN
      BY <1>0, <1>8, Zenon DEF WriteConfig, ObjectType
    <2>2. config' \in [Modes -> Addresses \cup {Local}]
      BY <1>0, <1>8 DEF WriteConfig, ObjectType, ProcessType
    <2>. QED
      BY <1>0, <1>8, <2>1, <2>2
      DEF WriteConfig, Go, ObjectType, ProcessType, WorkerType, BoundType, Stages, UpdateStages
  <1>9. CASE GetScheduler
    <2>1. Copy(decided) \in Copies /\ decided \in Modes
      BY <1>0, <1>9, CopyType DEF GetScheduler, ProcessType
    <2>2. /\ UNCHANGED <<cluster, sched, config, stored, works, process, down, bounds>>
          /\ \/ Return /\ queued' \in BOOLEAN
             \/ pc' = "write" /\ found' = Copy(decided) /\ UNCHANGED <<queued, tries>>
      BY <1>0, <1>9 DEF GetScheduler, Requeue
    <2>. QED
      BY <1>0, <2>1, <2>2, ReturnType
      DEF ObjectType, ProcessType, WorkerType, BoundType, Stages, UpdateStages
  <1>10. CASE WriteScheduler
    <2>1. /\ UNCHANGED <<cluster, config, stored, works, process, down, bounds>>
          /\ Return /\ queued' \in BOOLEAN /\ decided \in Modes
      BY <1>0, <1>10 DEF WriteScheduler, Requeue, ProcessType
    <2>2. sched' \in [Modes -> Schedulers]
      <3>1. CASE Write(decided, "csi")
        BY <2>1, <3>1, WriteEffect DEF Owner
      <3>2. CASE UNCHANGED sched
        BY <1>0, <3>2 DEF ObjectType
      <3>. QED BY <1>10, <3>1, <3>2 DEF WriteScheduler
    <2>. QED BY <1>0, <2>1, <2>2, ReturnType DEF ObjectType, ProcessType, BoundType
  <1>. QED
    BY <1>1, <1>2, <1>3, <1>4, <1>5, <1>6, <1>7, <1>8, <1>9, <1>10

\* The steps of Uninstall.
LEMMA UninstallType ==
  ASSUME TypeOK,
         DecideUninstall \/ DeleteConfig \/ GetForUnpatch \/ Unpatch \/ RemoveFinalizer
  PROVE  ObjectType' /\ ProcessType' /\ WorkerType' /\ BoundType' /\ queued' \in BOOLEAN
  <1>. USE DEF cluster, process, bounds
  <1>0. ObjectType /\ ProcessType /\ WorkerType /\ BoundType /\ queued \in BOOLEAN
    BY TypeParts
  <1>a. ASSUME Harmless PROVE BoundType'
    BY <1>0, <1>a, FaultType DEF Harmless, BoundType
  <1>b. UNCHANGED bounds => BoundType'
    BY <1>0 DEF BoundType
  <1>1. CASE DecideUninstall
    <2>1. decided' \in Modes \/ (decided' = "unknown" /\ pc' = "finalizer")
      BY <1>0, <1>1 DEF DecideUninstall, Decision, Go, ObjectType, ProcessType
    <2>2. BoundType'
      BY <1>1, <1>a, <1>b DEF DecideUninstall
    <2>. QED
      BY <1>0, <1>1, <2>1, <2>2
      DEF DecideUninstall, Go, ObjectType, ProcessType, WorkerType, Stages, UninstallStages
  <1>2. CASE DeleteConfig
    <2>1. down' \in BOOLEAN
      BY <1>0, <1>2, Zenon DEF DeleteConfig
    <2>2. config' \in [Modes -> Addresses \cup {Local}]
      BY <1>0, <1>2 DEF DeleteConfig, ObjectType, ProcessType, Addresses
    <2>3. BoundType'
      BY <1>2, <1>a, <1>b DEF DeleteConfig
    <2>. QED
      BY <1>0, <1>2, <2>1, <2>2, <2>3
      DEF DeleteConfig, Go, ObjectType, ProcessType, WorkerType, Stages, UninstallStages
  <1>3. CASE GetForUnpatch
    <2>1. Copy(decided) \in Copies /\ decided \in Modes
      BY <1>0, <1>3, CopyType DEF GetForUnpatch, ProcessType
    <2>2. BoundType'
      BY <1>3, <1>a, <1>b DEF GetForUnpatch
    <2>. QED
      BY <1>0, <1>3, <2>1, <2>2
      DEF GetForUnpatch, Go, ObjectType, ProcessType, WorkerType, Stages, UninstallStages
  <1>4. CASE Unpatch
    <2>1. decided \in Modes
      BY <1>0, <1>4 DEF Unpatch, ProcessType
    <2>2. sched' \in [Modes -> Schedulers]
      <3>1. CASE Write(decided, "none")
        BY <2>1, <3>1, WriteEffect DEF Owner
      <3>2. CASE UNCHANGED sched
        BY <1>0, <3>2 DEF ObjectType
      <3>. QED BY <1>4, <3>1, <3>2 DEF Unpatch
    <2>3. BoundType'
      BY <1>4, <1>a, <1>b DEF Unpatch
    <2>. QED
      BY <1>0, <1>4, <2>2, <2>3, NotFoundType
      DEF Unpatch, ObjectType, ProcessType, WorkerType, Stages, UninstallStages
  <1>5. CASE RemoveFinalizer
    BY <1>0, <1>5, ReturnType DEF RemoveFinalizer, ObjectType, ProcessType, BoundType
  <1>. QED BY <1>1, <1>2, <1>3, <1>4, <1>5

\* What happens around the worker.
LEMMA EnvironmentType ==
  ASSUME TypeOK, Environment \/ Informers
  PROVE  ObjectType' /\ ProcessType' /\ WorkerType' /\ BoundType' /\ queued' \in BOOLEAN
  <1>. USE DEF cluster, process, worker, bounds
  <1>0. ObjectType /\ ProcessType /\ WorkerType /\ BoundType /\ queued \in BOOLEAN
    BY TypeParts
  <1>1. CASE Create
    BY <1>0, <1>1 DEF Create, ObjectType, ProcessType, WorkerType, BoundType
  <1>7. CASE Edit
    <2>1. image' \in 1 .. MaxImages
      BY <1>0, <1>7, PatcherAssumption DEF Edit, ObjectType
    <2>. QED
      BY <1>0, <1>7, <2>1 DEF Edit, ObjectType, ProcessType, WorkerType, BoundType
  <1>8. CASE Delete
    BY <1>0, <1>8 DEF Delete, ObjectType, ProcessType, WorkerType, BoundType
  <1>9. CASE CollectGarbage
    BY <1>0, <1>9
    DEF CollectGarbage, ObjectType, ProcessType, WorkerType, BoundType, Addresses
  <1>2. CASE LoseStored
    <2>1. BoundType'
      BY <1>0, <1>2, FaultType, TroubleGrows DEF LoseStored, StoreFault, BoundType
    <2>. QED
      BY <1>0, <1>2, <2>1
      DEF LoseStored, ObjectType, ProcessType, WorkerType, Addresses
  <1>3. CASE UpgradeCluster
    <2>1. BoundType'
      BY <1>0, <1>3, TroubleGrows DEF UpgradeCluster, BoundType
    <2>. QED
      BY <1>0, <1>3, <2>1
      DEF UpgradeCluster, ObjectType, ProcessType, WorkerType, Modes
  <1>4. CASE Restart
    <2>1. queued' \in BOOLEAN
      BY <1>4, Zenon DEF Restart
    <2>. QED
      BY <1>0, <1>4, <2>1, ReturnType, FaultType
      DEF Restart, Harmless, ObjectType, ProcessType, BoundType, Addresses
  <1>5. ASSUME NEW m \in Modes, Interfere(m)
        PROVE  /\ ObjectType' /\ ProcessType' /\ WorkerType' /\ BoundType'
               /\ queued' \in BOOLEAN
    <2>1. sched' \in [Modes -> Schedulers] /\ trouble' \subseteq Troubles /\ found' \in Copies
      BY <1>5, InterfereEffect, InterfereFound
    <2>. QED
      BY <1>0, <1>5, <2>1
      DEF Interfere, ObjectType, ProcessType, WorkerType, BoundType
  <1>6. ASSUME NEW ip \in IPs, ExtenderStarts(ip) \/ ExtenderStops(ip)
        PROVE  /\ ObjectType' /\ ProcessType' /\ WorkerType' /\ BoundType'
               /\ queued' \in BOOLEAN
    <2>1. CASE ExtenderStarts(ip)
      BY <1>0, <2>1
      DEF ExtenderStarts, ObjectType, ProcessType, WorkerType, BoundType
    <2>2. CASE ExtenderStops(ip)
      <3>1. down' \in BOOLEAN
        BY <2>2, Zenon DEF ExtenderStops
      <3>. QED
        BY <1>0, <2>2, <3>1
        DEF ExtenderStops, ObjectType, ProcessType, WorkerType, BoundType
    <2>. QED BY <1>6, <2>1, <2>2
  <1>10. ASSUME NEW m \in Modes, Sync(m)
         PROVE  /\ ObjectType' /\ ProcessType' /\ WorkerType' /\ BoundType'
                /\ queued' \in BOOLEAN
    BY <1>0, <1>10 DEF Sync, ObjectType, ProcessType, WorkerType, BoundType
  <1>. QED
    BY <1>1, <1>2, <1>3, <1>4, <1>5, <1>6, <1>7, <1>8, <1>9, <1>10 DEF Environment, Informers

\* The informers' copies, and what was missed.
CacheStep ==
  \/ GetScheduler \/ WriteScheduler \/ DecideUninstall \/ DeleteConfig \/ GetForUnpatch
  \/ Unpatch \/ Restart \/ Informers
  \/ \E m \in Modes : Interfere(m)

LEMMA CachesKept == [Next]_vars => CacheStep \/ UNCHANGED caches
  <1>. SUFFICES ASSUME [Next]_vars, ~CacheStep PROVE UNCHANGED caches
    OBVIOUS
  <1>1. CASE Reconcile
    BY <1>1, GetStage
    DEF CacheStep, Reconcile, UseOpenshiftSecondaryScheduler, CheckMemory, CheckStored,
        SelectExtender, NoExtender, StoreIP, WriteConfig, RemoveFinalizer
  <1>2. CASE Environment
    BY <1>2
    DEF CacheStep, Environment, Create, Edit, Delete, CollectGarbage, LoseStored, UpgradeCluster,
        ExtenderStarts, ExtenderStops
  <1>. QED BY <1>1, <1>2 DEF Next, CacheStep, Fail, vars

LEMMA ReadEffect ==
  ASSUME TypeOK, NEW m \in Modes, Read(m)
  PROVE  /\ cached' \in [Modes -> Copies \cup {Unread}] /\ cached'[m] = Copy(m)
         /\ \A n \in Modes \ {m} : cached'[n] = cached[n]
  <1>1. cached \in [Modes -> Copies \cup {Unread}]
    BY DEF TypeOK
  <1>. QED BY <1>1, CopyType DEF Read

\* A change of the scheduler outdates the informer's copy.
Outdates(m) == cached' = [cached EXCEPT ![m].latest = FALSE]
LEMMA OutdatesEffect ==
  ASSUME TypeOK, NEW m \in Modes, Outdates(m)
  PROVE  /\ cached' \in [Modes -> Copies \cup {Unread}] /\ ~cached'[m].latest
         /\ \A n \in Modes \ {m} : cached'[n] = cached[n]
  <1>1. cached \in [Modes -> Copies \cup {Unread}]
    BY DEF TypeOK
  <1>2. \A c \in Copies \cup {Unread} : /\ [c EXCEPT !.latest = FALSE] \in Copies \cup {Unread}
                                        /\ ~[c EXCEPT !.latest = FALSE].latest
    <2>1. \A c \in Copies : [c EXCEPT !.latest = FALSE] \in Copies /\ ~[c EXCEPT !.latest = FALSE].latest
      BY DEF Copies
    <2>2. [Unread EXCEPT !.latest = FALSE] = Unread /\ ~Unread.latest
      <3>. DEFINE Kin == [by: {"unread"}, image: {0}, latest: BOOLEAN]
      <3>1. \A c \in Kin : [c EXCEPT !.latest = FALSE] \in Kin /\ ~[c EXCEPT !.latest = FALSE].latest
        OBVIOUS
      <3>2. \A c \in Kin : ~c.latest => c = [by |-> "unread", image |-> 0, latest |-> FALSE]
        OBVIOUS
      <3>3. Unread \in Kin /\ ~Unread.latest
        BY DEF Unread
      <3>. QED BY <3>1, <3>2, <3>3 DEF Unread
    <2>. QED BY <2>1, <2>2
  <1>. QED BY <1>1, <1>2 DEF Outdates

LEMMA MissingType ==
  ASSUME TypeOK, NEW x \in {"config", "scheduler"}, NEW really, Missing(x, really)
  PROVE  missed' \subseteq {"config", "scheduler"}
  BY DEF TypeOK, Missing

LEMMA CacheTyped == TypeOK /\ [Next]_vars => CacheType'
  <1>. SUFFICES ASSUME TypeOK, [Next]_vars PROVE CacheType'
    OBVIOUS
  <1>0. /\ cached \in [Modes -> Copies \cup {Unread}] /\ missed \subseteq {"config", "scheduler"}
        /\ pc \notin {"idle", "version", "unversion", "finalizer"} => decided \in Modes
    BY DEF TypeOK
  <1>1. CASE GetScheduler
    BY <1>0, <1>1, ReadEffect, MissingType DEF GetScheduler, CacheType
  <1>2. CASE WriteScheduler
    <2>1. Outdates(decided) \/ UNCHANGED cached
      BY <1>2 DEF WriteScheduler, Write, Outdates
    <2>2. decided \in Modes /\ UNCHANGED missed
      BY <1>0, <1>2 DEF WriteScheduler
    <2>. QED BY <1>0, <2>1, <2>2, OutdatesEffect DEF CacheType
  <1>3. CASE DecideUninstall \/ DeleteConfig
    BY <1>0, <1>3, MissingType DEF DecideUninstall, DeleteConfig, CacheType
  <1>4. CASE GetForUnpatch
    BY <1>0, <1>4, ReadEffect, MissingType DEF GetForUnpatch, CacheType
  <1>5. CASE Unpatch
    <2>1. Outdates(decided) \/ UNCHANGED cached
      BY <1>5 DEF Unpatch, Write, Outdates
    <2>2. decided \in Modes
      BY <1>0, <1>5 DEF Unpatch
    <2>3. missed' \subseteq {"config", "scheduler"}
      BY <1>0, <1>5, MissingType DEF Unpatch
    <2>. QED BY <1>0, <2>1, <2>2, <2>3, OutdatesEffect DEF CacheType
  <1>6. CASE Restart
    BY <1>0, <1>6 DEF Restart, CacheType
  <1>7. ASSUME NEW m \in Modes, Sync(m) PROVE CacheType'
    <2>1. Latest(m) \in Copies
      BY DEF TypeOK, Latest, Schedulers, Copies
    <2>. QED BY <1>0, <1>7, <2>1 DEF Sync, CacheType
  <1>8. ASSUME NEW m \in Modes, Interfere(m) PROVE CacheType'
    <2>1. Outdates(m) /\ UNCHANGED missed
      BY <1>8 DEF Interfere, Outdates
    <2>. QED BY <1>0, <2>1, OutdatesEffect DEF CacheType
  <1>9. CASE UNCHANGED caches
    BY <1>0, <1>9 DEF CacheType
  <1>. QED
    BY <1>1, <1>2, <1>3, <1>4, <1>5, <1>6, <1>7, <1>8, <1>9, CachesKept DEF CacheStep, Informers

LEMMA NextType == TypeOK /\ [Next]_vars => TypeOK'
  <1>. SUFFICES ASSUME TypeOK, [Next]_vars PROVE TypeOK'
    OBVIOUS
  <1>1. CASE UNCHANGED vars
    BY <1>1 DEF vars, cluster, process, worker, bounds, TypeOK
  <1>2. CASE Next
    <2>1. ObjectType' /\ ProcessType' /\ WorkerType' /\ BoundType' /\ queued' \in BOOLEAN
      BY <1>2, UpdateType, UninstallType, EnvironmentType DEF Next, Reconcile
    <2>. QED BY <2>1, CacheTyped, TypeParts
  <1>. QED BY <1>1, <1>2

\* The types of the variables. That an address is configured only after one was selected
\* is part of them, and that the mode is decided before anything is written.
THEOREM TypeCorrect == Spec => []TypeOK
  BY InitType, NextType, PTL DEF Spec
-----------------------------------------------------------------------------
\* What the steps have in common

Update ==
  \/ UseOpenshiftSecondaryScheduler \/ CheckMemory \/ CheckStored \/ SelectExtender
  \/ NoExtender \/ StoreIP \/ WriteConfig \/ GetScheduler \/ WriteScheduler \/ Fail
Uninstall ==
  DecideUninstall \/ DeleteConfig \/ GetForUnpatch \/ Unpatch \/ RemoveFinalizer

Outside == Environment \/ Informers

LEMMA Steps == Next <=> Get \/ Update \/ Uninstall \/ Outside
  BY Zenon DEF Next, Reconcile, Update, Uninstall, Outside

LEMMA ReturnStage == Return \/ Requeue => pc' = "idle"
  BY DEF Return, Requeue

LEMMA UpdateStep ==
  ASSUME Update
  PROVE  /\ pc \in UpdateStages /\ pc' \in UpdateStages \cup {"idle"}
         /\ UNCHANGED <<cluster, works, creations>>
         /\ trouble \subseteq trouble'
         /\ "store" \notin trouble' => UNCHANGED trouble
         /\ decided' = decided \/ decided' = Decision
         /\ pc' = "write" => GetScheduler
         /\ ~WriteScheduler => UNCHANGED sched
         /\ ~GetScheduler => UNCHANGED missed
         /\ ~WriteConfig => UNCHANGED <<config, down>>
  <1>. USE ReturnStage DEF UpdateStages, Go, cluster, process, bounds
  <1>1. CASE UseOpenshiftSecondaryScheduler \/ CheckMemory \/ SelectExtender \/ WriteConfig
    BY <1>1 DEF UseOpenshiftSecondaryScheduler, CheckMemory, SelectExtender, WriteConfig
  <1>2. CASE CheckStored \/ StoreIP
    BY <1>2, TroubleGrows DEF CheckStored, StoreIP, StoreFault, Fault
  <1>3. CASE NoExtender \/ Fail
    BY <1>3 DEF NoExtender, Fail, Harmless, Fault
  <1>4. CASE GetScheduler \/ WriteScheduler
    BY <1>4 DEF GetScheduler, WriteScheduler
  <1>. QED BY <1>1, <1>2, <1>3, <1>4 DEF Update

LEMMA UninstallStep ==
  ASSUME Uninstall
  PROVE  /\ pc \in UninstallStages /\ pc' \in UninstallStages \cup {"idle"}
         /\ pc' = "idle" => RemoveFinalizer
         /\ pc' = "unwrite" => GetForUnpatch
         /\ UNCHANGED <<image, version, works, stored, memory, creations>>
         /\ ~RemoveFinalizer => UNCHANGED cr
         /\ UNCHANGED trouble
         /\ decided' = decided \/ decided' = Decision
         /\ ~Unpatch => UNCHANGED sched
         /\ ~DeleteConfig => UNCHANGED <<config, down>>
  <1>. USE ReturnStage DEF UninstallStages, Go, cluster, process, bounds
  <1>1. CASE DecideUninstall \/ DeleteConfig
    BY <1>1 DEF DecideUninstall, DeleteConfig, Harmless, Fault
  <1>2. CASE GetForUnpatch
    BY <1>2 DEF GetForUnpatch, Harmless, Fault
  <1>3. CASE Unpatch
    BY <1>3 DEF Unpatch, Harmless, Fault
  <1>4. CASE RemoveFinalizer
    BY <1>4 DEF RemoveFinalizer
  <1>. QED BY <1>1, <1>2, <1>3, <1>4 DEF Uninstall

LEMMA EnvironmentStep ==
  ASSUME TypeOK, Outside
  PROVE  /\ UNCHANGED <<config, missed>>
         /\ trouble \subseteq trouble' /\ creations \in Nat /\ creations' \in Nat
         /\ creations <= creations'
         /\ Restart \/ (UNCHANGED <<process, pc, tries>> /\ found'.by = found.by)
         /\ (\A m \in Modes : ~Interfere(m)) => UNCHANGED sched
         /\ (~Create /\ ~Delete) => UNCHANGED cr
         /\ ~UpgradeCluster => UNCHANGED version
  <1>. USE DEF cluster, process, worker, bounds
  <1>0. creations \in Nat /\ faults \in Nat
    BY DEF TypeOK
  <1>1. CASE Create \/ Edit \/ Delete \/ CollectGarbage \/ LoseStored
    BY <1>0, <1>1, TroubleGrows
    DEF Create, Edit, Delete, CollectGarbage, LoseStored, StoreFault, Fault
  <1>2. CASE UpgradeCluster
    BY <1>0, <1>2, TroubleGrows DEF UpgradeCluster
  <1>6. CASE Restart
    BY <1>0, <1>6 DEF Restart, Harmless, Fault
  <1>3. ASSUME NEW m \in Modes, Interfere(m)
        PROVE  /\ trouble \subseteq trouble'
               /\ UNCHANGED <<cluster, config, missed, process, queued, pc, tries, creations>>
               /\ found'.by = found.by
    BY <1>3, InterfereEffect, InterfereFound DEF Interfere
  <1>4. CASE \E ip \in IPs : ExtenderStarts(ip) \/ ExtenderStops(ip)
    BY <1>0, <1>4 DEF ExtenderStarts, ExtenderStops
  <1>5. CASE Informers
    BY <1>0, <1>5 DEF Informers, Sync
  <1>. QED BY <1>0, <1>1, <1>2, <1>3, <1>4, <1>5, <1>6 DEF Outside, Environment

LEMMA TroubleKept == TypeOK /\ [Next]_vars => trouble \subseteq trouble'
  <1>1. UNCHANGED vars => trouble \subseteq trouble'
    BY DEF vars, bounds
  <1>2. Get => trouble \subseteq trouble'
    BY GetStage DEF bounds
  <1>. QED BY <1>1, <1>2, Steps, UpdateStep, UninstallStep, EnvironmentStep

-----------------------------------------------------------------------------
(***************************************************************************)
(* What the worker is about. It uninstalls only what is being deleted; it  *)
(* is never about to write somebody else's scheduler, nor about to unpatch *)
(* one that was not the operator's in the copy it has read; and a copy of  *)
(* the latest version is what is stored.                                   *)
(***************************************************************************)
WorkInv ==
  /\ pc \in UninstallStages => cr = "deleting"
  /\ cr = "none" => pc = "idle"
  /\ pc = "write" => found.by # "foreign"
  /\ pc = "unwrite" => found.by = "csi"
  /\ decided = "secondary" => version = "secondary"

LEMMA InitWork == Init => WorkInv
  BY DEF Init, WorkInv, UninstallStages

LEMMA NextWork == TypeOK /\ WorkInv /\ [Next]_vars => WorkInv'
  <1>. SUFFICES ASSUME TypeOK, WorkInv, [Next]_vars PROVE WorkInv'
    OBVIOUS
  <1>. USE DEF cluster, process, worker, bounds
  <1>0. /\ pc \in Stages /\ cr \in {"none", "live", "deleting"}
        /\ decided \in Modes \cup {"unknown"} /\ version \in Modes
        /\ pc = "unwrite" => decided \in Modes
    BY TypeParts DEF TypeOK, WorkerType, ObjectType, ProcessType
  <1>1. CASE UNCHANGED vars
    BY <1>1 DEF vars, WorkInv
  <1>2. CASE Get
    BY <1>0, <1>2, GetStage DEF WorkInv, UninstallStages
  <1>3. CASE Update
    <2>1. GetScheduler => found'.by # "foreign" \/ pc' = "idle"
      BY DEF GetScheduler, Requeue, Return
    <2>2. decided' = "secondary" => version' = "secondary"
      BY <1>0, <1>3, UpdateStep DEF WorkInv, Decision
    <2>3. cr' # "none" /\ pc' \in UpdateStages \cup {"idle"}
      BY <1>3, UpdateStep DEF WorkInv, UpdateStages
    <2>4. pc' = "write" => found'.by # "foreign"
      BY <1>3, <2>1, UpdateStep
    <2>. QED BY <2>2, <2>3, <2>4 DEF WorkInv, UpdateStages, UninstallStages
  <1>4. CASE Uninstall
    <2>1. decided' = "secondary" => version' = "secondary"
      BY <1>0, <1>4, UninstallStep DEF WorkInv, Decision
    <2>2. pc' # "write"
      BY <1>4, UninstallStep DEF UninstallStages
    <2>3. cr = "deleting" /\ pc' \in UninstallStages \cup {"idle"}
      BY <1>4, UninstallStep DEF WorkInv
    <2>4. CASE RemoveFinalizer
      BY <2>1, <2>4, ReturnStage DEF RemoveFinalizer, WorkInv, UninstallStages
    <2>5. CASE ~RemoveFinalizer
      <3>1. pc' # "idle" /\ cr' = "deleting"
        BY <1>4, <2>3, <2>5, UninstallStep
      <3>2. pc' = "unwrite" => found'.by = "csi"
        <4>1. GetForUnpatch /\ pc' = "unwrite" => found'.by = "csi"
          BY DEF GetForUnpatch, Mine, Go
        <4>. QED BY <1>4, <4>1, UninstallStep
      <3>. QED BY <2>1, <2>2, <3>1, <3>2 DEF WorkInv
    <2>. QED BY <2>4, <2>5
  <1>5. CASE Outside
    <2>1. CASE Restart
      BY <2>1, ReturnStage DEF Restart, WorkInv, UninstallStages
    <2>2. CASE ~Restart
      <3>1. UNCHANGED <<decided, pc>> /\ found'.by = found.by
        BY <1>5, <2>2, EnvironmentStep
      <3>2. /\ cr = "deleting" => cr' = "deleting"
            /\ cr # "none" => cr' # "none"
        <4>1. Create => cr = "none" /\ cr' = "live"
          BY DEF Create
        <4>2. Delete => cr = "live" /\ cr' = "deleting"
          BY DEF Delete
        <4>. QED BY <1>5, <4>1, <4>2, EnvironmentStep
      <3>3. version' = version \/ version' = "secondary"
        <4>1. UpgradeCluster => version' = "secondary"
          BY DEF UpgradeCluster
        <4>. QED BY <1>5, <4>1, EnvironmentStep
      <3>. QED BY <1>0, <3>1, <3>2, <3>3 DEF WorkInv, Modes
    <2>. QED BY <2>1, <2>2
  <1>. QED BY <1>1, <1>2, <1>3, <1>4, <1>5, Steps

\* A copy of the latest version, the informer's or the worker's, is what is stored.
CopyInv ==
  /\ \A m \in Modes : cached[m].latest => cached[m] = Latest(m)
  /\ found.latest => pc \in {"write", "unwrite"} /\ found = Latest(decided)

LEMMA InitCopy == Init => CopyInv
  BY DEF Init, CopyInv, Unread, NotFound

\* So is what is read from it.
LEMMA CopyTrue ==
  ASSUME CopyInv, NEW m \in Modes, Copy(m).latest PROVE Copy(m) = Latest(m)
  BY DEF CopyInv, Copy

LEMMA NextCopy == TypeOK /\ CopyInv /\ [Next]_vars => CopyInv'
  <1>. SUFFICES ASSUME TypeOK, CopyInv, [Next]_vars PROVE CopyInv'
    OBVIOUS
  <1>. USE DEF cluster, process, worker, bounds
  <1>0. pc \notin {"idle", "version", "unversion", "finalizer"} => decided \in Modes
    BY DEF TypeOK
  <1>a. found' = NotFound => ~found'.latest
    BY DEF NotFound
  <1>b. ASSUME UNCHANGED sched PROVE \A m \in Modes : Latest(m)' = Latest(m)
    BY <1>b DEF Latest
  <1>1. ASSUME UNCHANGED <<sched, cached>>, Return PROVE CopyInv'
    BY <1>1, <1>a, <1>b DEF Return, CopyInv
  <1>2. ASSUME UNCHANGED <<sched, cached, found>>, ~found.latest PROVE CopyInv'
    BY <1>2, <1>b DEF CopyInv
  <1>3. ASSUME UNCHANGED <<sched, cached, pc, found, decided>> PROVE CopyInv'
    BY <1>3 DEF CopyInv, Latest
  <1>4. CASE GetScheduler \/ GetForUnpatch
    <2>1. decided \in Modes /\ UNCHANGED <<sched, decided>> /\ ~found.latest
      BY <1>0, <1>4 DEF GetScheduler, GetForUnpatch, CopyInv
    <2>2. Read(decided) \/ UNCHANGED cached
      BY <1>4 DEF GetScheduler, GetForUnpatch
    <2>3. \A m \in Modes : cached'[m].latest => cached'[m] = Latest(m)
      <3>1. CASE Read(decided)
        BY <2>1, <3>1, ReadEffect, CopyTrue DEF CopyInv
      <3>. QED BY <2>2, <3>1 DEF CopyInv
    <2>4. \/ found' = found \/ found' = NotFound
          \/ found' = Copy(decided) /\ pc' \in {"write", "unwrite"}
      BY <1>4 DEF GetScheduler, GetForUnpatch, Requeue, Return, Go
    <2>5. found'.latest => pc' \in {"write", "unwrite"} /\ found' = Latest(decided)
      BY <1>a, <2>1, <2>4, CopyTrue
    <2>. QED BY <1>b, <2>1, <2>3, <2>5 DEF CopyInv
  <1>5. CASE WriteScheduler \/ Unpatch
    <2>1. decided \in Modes /\ found' = NotFound
      BY <1>0, <1>5 DEF WriteScheduler, Unpatch, Requeue, Return
    <2>2. \/ UNCHANGED <<sched, cached>>
          \/ \E by \in Owner : Write(decided, by)
      BY <1>5 DEF WriteScheduler, Unpatch, Owner
    <2>3. CASE UNCHANGED <<sched, cached>>
      BY <1>a, <1>b, <2>1, <2>3 DEF CopyInv
    <2>4. ASSUME NEW by \in Owner, Write(decided, by) PROVE CopyInv'
      <3>1. Outdates(decided)
        BY <2>4 DEF Write, Outdates
      <3>2. \A n \in Modes \ {decided} : sched'[n] = sched[n]
        BY <2>1, <2>4, WriteEffect
      <3>. QED BY <1>a, <2>1, <3>1, <3>2, OutdatesEffect DEF CopyInv, Latest
    <2>. QED BY <2>2, <2>3, <2>4
  <1>6. ASSUME NEW m \in Modes, Interfere(m) PROVE CopyInv'
    <2>1. Outdates(m) /\ UNCHANGED <<pc, decided>>
      BY <1>6 DEF Interfere, Outdates
    <2>2. \A n \in Modes \ {m} : sched'[n] = sched[n]
      BY <1>6, InterfereEffect
    <2>3. \A n \in Modes : cached'[n].latest => cached'[n] = Latest(n)'
      BY <2>1, <2>2, OutdatesEffect DEF CopyInv, Latest
    <2>4. found'.latest => pc' \in {"write", "unwrite"} /\ found' = Latest(decided)'
      BY <1>0, <1>6, <2>1, <2>2, InterfereFound DEF CopyInv, Latest
    <2>. QED BY <2>3, <2>4 DEF CopyInv
  <1>7. ASSUME NEW m \in Modes, Sync(m) PROVE CopyInv'
    <2>1. cached' = [cached EXCEPT ![m] = Latest(m)] /\ UNCHANGED <<sched, pc, found, decided>>
      BY <1>7 DEF Sync
    <2>2. cached \in [Modes -> Copies \cup {Unread}]
      BY DEF TypeOK
    <2>. QED BY <2>1, <2>2 DEF CopyInv, Latest
  <1>8. CASE Restart
    <2>1. /\ cached' = [m \in Modes |-> Unread] /\ found' = NotFound
      BY <1>8 DEF Restart, Return
    <2>. QED BY <1>a, <2>1 DEF CopyInv, Unread
  <1>9. CASE Get
    BY <1>2, <1>9, GetStage DEF CopyInv
  <1>10. CASE Update /\ ~GetScheduler /\ ~WriteScheduler
    <2>1. UNCHANGED <<sched, cached>> /\ (Return \/ UNCHANGED found) /\ pc \notin {"unwrite"}
      BY <1>10
      DEF Update, UseOpenshiftSecondaryScheduler, CheckMemory, CheckStored, SelectExtender,
          NoExtender, StoreIP, WriteConfig, Fail, Requeue, Go
    <2>2. pc = "write" => Return
      BY <1>10
      DEF Update, UseOpenshiftSecondaryScheduler, CheckMemory, CheckStored, SelectExtender,
          NoExtender, StoreIP, WriteConfig, Fail, Requeue
    <2>. QED BY <1>1, <1>2, <2>1, <2>2 DEF CopyInv
  <1>11. CASE DecideUninstall \/ DeleteConfig \/ RemoveFinalizer
    <2>1. UNCHANGED <<sched, cached>> /\ (Return \/ UNCHANGED found) /\ ~found.latest
      BY <1>11 DEF DecideUninstall, DeleteConfig, RemoveFinalizer, Go, CopyInv
    <2>. QED BY <1>1, <1>2, <2>1
  <1>12. CASE Environment /\ ~Restart /\ ~\E m \in Modes : Interfere(m)
    BY <1>3, <1>12
    DEF Environment, Create, Edit, Delete, CollectGarbage, LoseStored, UpgradeCluster,
        ExtenderStarts, ExtenderStops
  <1>13. CASE UNCHANGED vars
    BY <1>3, <1>13 DEF vars
  <1>. QED
    BY <1>4, <1>5, <1>6, <1>7, <1>8, <1>9, <1>10, <1>11, <1>12, <1>13, Steps
    DEF Uninstall, Update, Outside, Informers

LEMMA Worked == Spec => [](TypeOK /\ WorkInv /\ CopyInv)
  BY InitType, NextType, InitWork, NextWork, InitCopy, NextCopy, PTL DEF Spec
-----------------------------------------------------------------------------
\* Somebody else's scheduler

\* A scheduler that is somebody else's is never written or deleted: what is written is
\* what was read, and unless others have replaced the operator's scheduler since the copy,
\* what is deleted by name is the operator's.
LEMMA ForeignStep ==
  TypeOK /\ WorkInv /\ CopyInv /\ [Next]_vars =>
    \A m \in Modes :
      sched[m].by = "foreign" /\ sched'[m] # sched[m]
        => \/ others' = others + 1
           \/ m = "secondary" /\ pc = "unwrite" /\ found.by = "csi" /\ ~found.latest
  <1>. SUFFICES ASSUME TypeOK, WorkInv, CopyInv, [Next]_vars, NEW m \in Modes,
                       sched[m].by = "foreign", sched'[m] # sched[m]
                PROVE  \/ others' = others + 1
                       \/ m = "secondary" /\ pc = "unwrite" /\ found.by = "csi" /\ ~found.latest
    OBVIOUS
  <1>1. ~UNCHANGED sched
    OBVIOUS
  <1>2. CASE UNCHANGED vars \/ Get
    BY <1>1, <1>2, GetStage DEF vars
  <1>3. CASE Update
    <2>1. WriteScheduler
      BY <1>1, <1>3, UpdateStep
    <2>2. pc = "write" /\ decided \in Modes
      BY <2>1, TypeParts DEF WriteScheduler, ProcessType
    <2>3. Write(decided, "csi") /\ NotStale(decided)
      BY <1>1, <2>1 DEF WriteScheduler
    <2>4. m = decided
      BY <2>2, <2>3, WriteEffect DEF Owner
    <2>5. found.latest => found.by = "foreign"
      BY <2>4 DEF CopyInv, Latest
    <2>. QED BY <2>2, <2>3, <2>4, <2>5 DEF NotStale, WorkInv
  <1>4. CASE Uninstall
    <2>1. Unpatch
      BY <1>1, <1>4, UninstallStep
    <2>2. pc = "unwrite" /\ decided \in Modes
      BY <2>1, TypeParts DEF Unpatch, ProcessType
    <2>3. Write(decided, "none")
      BY <1>1, <2>1 DEF Unpatch
    <2>4. m = decided
      BY <2>2, <2>3, WriteEffect DEF Owner
    <2>5. found.latest => found.by = "foreign"
      BY <2>4 DEF CopyInv, Latest
    <2>6. decided = "secondary" \/ found.latest
      BY <1>1, <2>1 DEF Unpatch
    <2>. QED BY <2>2, <2>4, <2>5, <2>6 DEF WorkInv, Modes
  <1>5. CASE Outside
    <2>1. PICK n \in Modes : Interfere(n)
      BY <1>1, <1>5, EnvironmentStep
    <2>. QED BY <2>1 DEF Interfere
  <1>. QED BY <1>2, <1>3, <1>4, <1>5, Steps

\* patchScheduler, unpatchSecondaryScheduler: the scheduler that is somebody else's is left
\* alone, however old the copy is that the operator goes by.
THEOREM ForeignSafe == Spec => ForeignKept
  BY Worked, ForeignStep, PTL DEF Spec, ForeignKept

-----------------------------------------------------------------------------
(***************************************************************************)
(* Uninstall. As long as the cluster keeps its mode, only that mode's      *)
(* objects exist, and from a stage of Uninstall on each of them is gone    *)
(* for good or known to be missed.                                         *)
(***************************************************************************)
Clean == "upgrade" \notin trouble
CleanInv ==
  Clean =>
    /\ decided \in {"unknown", version}
    /\ \A m \in Modes \ {version} : sched[m].by # "csi" /\ config[m] = NoIP
    /\ (cr = "none" \/ pc \in {"unpatch", "unwrite", "finalizer"})
         => config[version] = NoIP \/ "config" \in missed
    /\ (cr = "none" \/ pc = "finalizer") => sched[version].by # "csi" \/ "scheduler" \in missed

LEMMA InitClean == Init => CleanInv
  <1>. SUFFICES ASSUME Init PROVE CleanInv
    OBVIOUS
  <1>1. \A m \in Modes : sched[m].by # "csi" /\ config[m] = NoIP
    BY DEF Init
  <1>. QED BY <1>1 DEF Init, CleanInv

LEMMA NextClean == TypeOK /\ WorkInv /\ CleanInv /\ [Next]_vars => CleanInv'
  <1>. SUFFICES ASSUME TypeOK, WorkInv, CleanInv, [Next]_vars, Clean' PROVE CleanInv'
    BY DEF CleanInv
  <1>. USE DEF cluster, process, worker, bounds
  <1>0. /\ Clean
        /\ decided \in Modes \cup {"unknown"} /\ version \in Modes
        /\ pc \notin {"idle", "version", "unversion", "finalizer"} => decided \in Modes
        /\ sched \in [Modes -> Schedulers] /\ config \in [Modes -> Addresses \cup {Local}]
    BY TroubleKept, TypeParts DEF TypeOK, ObjectType, ProcessType, Clean
  <1>1. CASE UNCHANGED vars
    BY <1>1 DEF vars, CleanInv, Clean
  <1>2. CASE Get
    <2>1. /\ UNCHANGED <<cr, version, sched, config, missed, decided>>
          /\ pc' \notin {"unpatch", "unwrite", "finalizer"}
      BY <1>2, GetStage
    <2>. QED BY <1>0, <2>1 DEF CleanInv
  <1>3. CASE Update
    <2>1. /\ UNCHANGED <<cr, version>> /\ cr # "none" /\ decided' \in {"unknown", version}
          /\ pc' \notin {"unpatch", "unwrite", "finalizer"}
      BY <1>0, <1>3, UpdateStep DEF WorkInv, CleanInv, UpdateStages, Decision
    <2>2. \A m \in Modes \ {version} : sched'[m] = sched[m]
      <3>1. CASE WriteScheduler
        <4>1. decided = version
          BY <1>0, <3>1 DEF WriteScheduler, CleanInv, Modes
        <4>. QED BY <1>0, <3>1, <4>1, WriteEffect DEF WriteScheduler, TypeOK, Owner
      <3>. QED BY <1>3, <3>1, UpdateStep
    <2>3. \A m \in Modes \ {version} : config'[m] = config[m]
      <3>1. CASE WriteConfig
        BY <1>0, <3>1 DEF WriteConfig, CleanInv, Modes
      <3>. QED BY <1>3, <3>1, UpdateStep
    <2>. QED BY <1>0, <2>1, <2>2, <2>3 DEF CleanInv
  <1>4. CASE Uninstall
    <2>0. UNCHANGED version /\ decided' \in {"unknown", version} /\ cr = "deleting"
      BY <1>0, <1>4, UninstallStep DEF WorkInv, CleanInv, Decision
    <2>1. CASE DecideUninstall
      <3>1. /\ cr' = "deleting" /\ UNCHANGED <<sched, config>>
            /\ pc' = "deleteConfig" \/ (pc' = "finalizer" /\ missed' = {"config", "scheduler"})
        BY <2>0, <2>1 DEF DecideUninstall, Go
      <3>. QED BY <1>0, <2>0, <3>1 DEF CleanInv
    <2>2. CASE DeleteConfig
      <3>1. /\ pc' = "unpatch" /\ cr' = "deleting" /\ UNCHANGED sched /\ decided = version
            /\ \/ config' = [config EXCEPT ![version] = NoIP]
               \/ UNCHANGED config /\ missed' = missed \cup {"config"}
        BY <1>0, <2>0, <2>2 DEF DeleteConfig, Go, Missing, CleanInv, Modes
      <3>. QED BY <1>0, <2>0, <3>1 DEF CleanInv
    <2>3. CASE GetForUnpatch
      <3>1. /\ cr' = "deleting" /\ UNCHANGED <<sched, config>> /\ pc = "unpatch"
            /\ decided = version
        BY <1>0, <2>0, <2>3 DEF GetForUnpatch, CleanInv, Modes
      <3>2. "config" \in missed' <=> "config" \in missed
        BY <2>3 DEF GetForUnpatch, Missing
      <3>3. pc' = "finalizer" /\ "scheduler" \notin missed'
              => ~Mine(Copy(version)) /\ ~Outdated(version)
        BY <2>3, <3>1 DEF GetForUnpatch, Missing
      <3>4. ~Mine(Copy(version)) /\ ~Outdated(version) => sched[version].by # "csi"
        BY DEF Mine, Outdated
      <3>. QED BY <1>0, <2>0, <3>1, <3>2, <3>3, <3>4 DEF CleanInv
    <2>4. CASE Unpatch
      <3>1. /\ cr' = "deleting" /\ UNCHANGED config /\ pc = "unwrite" /\ pc' = "finalizer"
            /\ decided = version
        BY <1>0, <2>0, <2>4 DEF Unpatch, CleanInv, Modes
      <3>2. "config" \in missed' <=> "config" \in missed
        BY <2>4 DEF Unpatch, Missing
      <3>3. \/ Write(version, "none")
            \/ UNCHANGED sched /\ "scheduler" \in missed'
        BY <2>4, <3>1 DEF Unpatch, Missing
      <3>4. /\ sched'[version].by # "csi" \/ "scheduler" \in missed'
            /\ \A m \in Modes \ {version} : sched'[m] = sched[m]
        BY <1>0, <3>3, WriteEffect DEF Owner
      <3>. QED BY <1>0, <2>0, <3>1, <3>2, <3>4 DEF CleanInv
    <2>5. CASE RemoveFinalizer
      <3>1. /\ UNCHANGED <<sched, config, missed>> /\ pc = "finalizer" /\ pc' = "idle"
        BY <2>5, ReturnStage DEF RemoveFinalizer
      <3>. QED BY <1>0, <2>0, <3>1 DEF CleanInv
    <2>. QED BY <1>4, <2>1, <2>2, <2>3, <2>4, <2>5 DEF Uninstall
  <1>5. CASE Outside
    <2>1. UNCHANGED <<version, config, missed>>
      <3>1. ~UpgradeCluster
        BY TroubleGrows DEF UpgradeCluster, Clean
      <3>. QED BY <1>5, <3>1, EnvironmentStep
    <2>2. \A m \in Modes : sched'[m].by = "csi" => sched[m].by = "csi"
      <3>1. ASSUME NEW n \in Modes, Interfere(n)
            PROVE  \A m \in Modes : sched'[m].by = "csi" => sched[m].by = "csi"
        BY <3>1, InterfereEffect
      <3>. QED BY <1>5, <3>1, EnvironmentStep
    <2>3. decided' \in {"unknown", decided}
          /\ (pc' = pc \/ pc' = "idle")
      <3>1. Restart => decided' = "unknown" /\ pc' = "idle"
        BY ReturnStage DEF Restart
      <3>. QED BY <1>5, <3>1, EnvironmentStep
    <2>4. cr' = "none" => cr = "none"
      <3>1. Create \/ Delete => cr' # "none"
        BY DEF Create, Delete
      <3>. QED BY <1>5, <3>1, EnvironmentStep
    <2>. QED BY <1>0, <2>1, <2>2, <2>3, <2>4 DEF CleanInv
  <1>. QED BY <1>1, <1>2, <1>3, <1>4, <1>5, Steps

\* Once the CR is gone, nothing of what was patched is left, but for exactly the part whose
\* request failed, or that the last look at an outdated copy did not show, unless the cluster
\* was upgraded.
THEOREM Uninstalls == Spec => []UninstallCleans
  <1>1. TypeOK /\ CleanInv => UninstallCleans
    BY TypeParts DEF TypeOK, ObjectType, CleanInv, Clean, UninstallCleans
  <1>. QED BY Worked, InitClean, NextClean, <1>1, PTL DEF Spec
-----------------------------------------------------------------------------
(***************************************************************************)
(* The address of the extender. In the first CR's life, and as long as the *)
(* configmap with the selected address is read and written, that configmap *)
(* holds what the process has in memory, and what the scheduler was told   *)
(* while the extender it was told of has not stopped. Hence the check of   *)
(* the memory, or, after a restart, that of the configmap, finds it again, *)
(* and no other one is listed.                                             *)
(***************************************************************************)
FirstLife == creations <= 1 /\ "store" \notin trouble /\ cr # "none"
Told      == config["secondary"] # NoIP /\ ~down
Found     ==
  /\ config["secondary"] \in works /\ stored = config["secondary"]
  /\ pc \notin {"list", "store"}
  /\ pc = "stored" => memory = NoIP
ModeInv   == config["secondary"] # NoIP => decided # "policy" /\ version = "secondary"
BirthInv  == creations = 0 => cr = "none" /\ config["secondary"] = NoIP /\ memory = NoIP
StoredInv == FirstLife =>
  /\ (memory # NoIP /\ pc # "store") => stored = memory
  /\ Told => Found
KeepInv   == ModeInv /\ BirthInv /\ StoredInv

LEMMA InitKeep == Init => KeepInv
  BY DEF Init, KeepInv, ModeInv, BirthInv, StoredInv, FirstLife, Modes

LEMMA ModeStep == TypeOK /\ WorkInv /\ KeepInv /\ [Next]_vars => ModeInv'
  <1>. SUFFICES ASSUME TypeOK, WorkInv, KeepInv, [Next]_vars PROVE ModeInv'
    OBVIOUS
  <1>. USE DEF cluster, process, worker, bounds
  <1>0. /\ ModeInv
        /\ decided \in Modes \cup {"unknown"} /\ version \in Modes
        /\ config \in [Modes -> Addresses \cup {Local}]
        /\ pc \in {"config", "deleteConfig"} => decided \in Modes
    BY TypeParts DEF KeepInv, TypeOK, ObjectType, ProcessType
  <1>1. CASE UNCHANGED vars \/ Get
    BY <1>0, <1>1, GetStage DEF vars, ModeInv
  <1>2. CASE Update
    <2>1. CASE WriteConfig
      BY <1>0, <2>1 DEF WriteConfig, ModeInv, WorkInv, Modes
    <2>2. CASE ~WriteConfig
      BY <1>0, <1>2, <2>2, UpdateStep DEF ModeInv, Decision
    <2>. QED BY <2>1, <2>2
  <1>3. CASE Uninstall
    <2>1. CASE DeleteConfig
      BY <1>0, <2>1 DEF DeleteConfig, ModeInv, Modes
    <2>2. CASE ~DeleteConfig
      BY <1>0, <1>3, <2>2, UninstallStep DEF ModeInv, Decision
    <2>. QED BY <2>1, <2>2
  <1>4. CASE Outside
    <2>1. UpgradeCluster => version = "policy"
      BY DEF UpgradeCluster
    <2>2. Restart => decided' = "unknown"
      BY DEF Restart
    <2>. QED BY <1>0, <1>4, <2>1, <2>2, EnvironmentStep DEF ModeInv
  <1>. QED BY <1>1, <1>2, <1>3, <1>4, Steps

LEMMA BirthStep == TypeOK /\ WorkInv /\ KeepInv /\ [Next]_vars => BirthInv'
  <1>. SUFFICES ASSUME TypeOK, WorkInv, KeepInv, [Next]_vars PROVE BirthInv'
    OBVIOUS
  <1>. USE DEF cluster, process, worker, bounds
  <1>0. BirthInv /\ creations \in Nat
    BY DEF KeepInv, TypeOK
  <1>1. CASE UNCHANGED vars \/ Get
    BY <1>0, <1>1, GetStage DEF vars, BirthInv
  <1>2. CASE Update \/ Uninstall
    <2>1. pc # "idle" /\ creations' = creations
      BY <1>2, UpdateStep, UninstallStep DEF UpdateStages, UninstallStages
    <2>. QED BY <1>0, <2>1 DEF WorkInv, BirthInv
  <1>3. CASE Outside
    <2>1. Create => creations' = creations + 1
      BY DEF Create
    <2>2. Restart => memory' = NoIP
      BY DEF Restart
    <2>3. Delete => cr = "live"
      BY DEF Delete
    <2>. QED BY <1>0, <1>3, <2>1, <2>2, <2>3, EnvironmentStep DEF BirthInv
  <1>. QED BY <1>1, <1>2, <1>3, Steps

LEMMA StoredStep == TypeOK /\ WorkInv /\ KeepInv /\ [Next]_vars => StoredInv'
  <1>. SUFFICES ASSUME TypeOK, WorkInv, KeepInv, [Next]_vars, FirstLife' PROVE StoredInv'
    BY DEF StoredInv
  <1>. USE DEF cluster, process, worker, bounds
  <1>0. /\ ModeInv /\ BirthInv /\ StoredInv
        /\ decided \in Modes \cup {"unknown"} /\ creations \in Nat /\ down \in BOOLEAN
        /\ config \in [Modes -> Addresses \cup {Local}]
        /\ works \subseteq IPs /\ NoIP \notin works
        /\ pc \in {"config", "deleteConfig"} => decided \in Modes
        /\ (pc = "config" /\ decided = "secondary") => memory # NoIP
        /\ "store" \notin trouble
    BY TroubleKept, TypeParts, PatcherAssumption
    DEF KeepInv, TypeOK, ObjectType, ProcessType, BoundType, FirstLife
  <1>a. ~StoreFault
    BY TroubleGrows DEF StoreFault, FirstLife
  <1>1. CASE UNCHANGED vars \/ Get
    <2>1. UNCHANGED <<cr, creations, trouble, config, down, works, stored, memory>>
      BY <1>1, GetStage DEF vars
    <2>2. pc' = pc \/ (pc = "idle" /\ pc' \in {"idle", "version", "unversion"})
      BY <1>1, GetStage DEF vars
    <2>. QED BY <1>0, <2>1, <2>2 DEF StoredInv, FirstLife, Told, Found
  <1>2. CASE Update
    <2>0. FirstLife
      BY <1>0, <1>2, UpdateStep DEF FirstLife
    <2>. USE <1>0, <2>0 DEF Go, StoredInv, Told, Found
    <2>1. CASE UseOpenshiftSecondaryScheduler \/ CheckMemory \/ SelectExtender
      BY <2>1 DEF UseOpenshiftSecondaryScheduler, CheckMemory, SelectExtender
    <2>2. CASE CheckStored
      BY <1>a, <2>2 DEF CheckStored
    <2>3. CASE NoExtender
      BY <2>3 DEF NoExtender, Requeue, Return
    <2>4. CASE StoreIP
      BY <1>a, <2>4 DEF StoreIP
    <2>5. CASE WriteConfig
      <3>1. CASE config' = config
        BY <2>5, <3>1 DEF WriteConfig
      <3>2. CASE config' # config
        <4>1. /\ down' = (decided = "secondary" /\ memory \notin works)
              /\ UNCHANGED <<stored, memory, works>> /\ pc = "config" /\ pc' = "patch"
          BY <2>5, <3>2 DEF WriteConfig
        <4>2. CASE decided = "secondary"
          <5>1. config'["secondary"] = memory
            BY <2>5, <4>2 DEF WriteConfig, Modes
          <5>2. ~down' => memory \in works
            BY <4>1, <4>2
          <5>. QED BY <4>1, <4>2, <5>1, <5>2
        <4>3. CASE decided # "secondary"
          <5>1. config'["secondary"] = config["secondary"] /\ config["secondary"] = NoIP
            BY <2>5, <4>3 DEF WriteConfig, ModeInv, Modes
          <5>. QED BY <4>1, <5>1
        <4>. QED BY <4>2, <4>3
      <3>. QED BY <3>1, <3>2
    <2>6. CASE GetScheduler \/ WriteScheduler
      BY <2>6, ReturnStage DEF GetScheduler, WriteScheduler
    <2>7. CASE Fail
      BY <2>7, ReturnStage DEF Fail
    <2>. QED BY <1>2, <2>1, <2>2, <2>3, <2>4, <2>5, <2>6, <2>7 DEF Update
  <1>3. CASE Uninstall
    <2>0. FirstLife /\ pc' \notin {"stored", "list", "store"} /\ pc # "store"
      BY <1>0, <1>3, UninstallStep DEF FirstLife, WorkInv, UninstallStages
    <2>1. CASE DeleteConfig
      <3>1. Told' => Told /\ config'["secondary"] = config["secondary"]
        BY <1>0, <2>1 DEF DeleteConfig, Told, Modes
      <3>. QED
        BY <1>0, <1>3, <2>0, <3>1, UninstallStep DEF StoredInv, Found
    <2>2. CASE ~DeleteConfig
      BY <1>0, <1>3, <2>0, <2>2, UninstallStep DEF StoredInv, Told, Found
    <2>. QED BY <2>1, <2>2
  <1>4. CASE Outside
    <2>1. CASE Create
      <3>1. creations = 0
        BY <1>0, <2>1 DEF Create, FirstLife
      <3>. QED BY <1>0, <2>1, <3>1 DEF Create, BirthInv, StoredInv, Told
    <2>2. CASE ~Create
      <3>0. FirstLife
        <4>1. Delete => cr = "live"
          BY DEF Delete
        <4>. QED BY <1>0, <1>4, <2>2, <4>1, EnvironmentStep DEF FirstLife
      <3>. USE <1>0, <3>0 DEF StoredInv, Told, Found
      <3>1. CASE Edit \/ Delete \/ UpgradeCluster
        BY <3>1 DEF Edit, Delete, UpgradeCluster
      <3>2. CASE CollectGarbage
        BY <3>2 DEF CollectGarbage, FirstLife
      <3>3. CASE LoseStored
        BY <1>a, <3>3 DEF LoseStored
      <3>4. CASE Restart
        BY <3>4, ReturnStage DEF Restart
      <3>5. ASSUME NEW m \in Modes, Interfere(m) \/ Sync(m) PROVE StoredInv'
        BY <3>5 DEF Interfere, Sync
      <3>6. ASSUME NEW ip \in IPs, ExtenderStarts(ip) PROVE StoredInv'
        BY <3>6 DEF ExtenderStarts
      <3>7. ASSUME NEW ip \in IPs, ExtenderStops(ip) PROVE StoredInv'
        <4>1. ~down' => ~down /\ ip # config["secondary"]
          BY <3>7 DEF ExtenderStops
        <4>. QED BY <3>7, <4>1 DEF ExtenderStops
      <3>. QED BY <1>4, <2>2, <3>1, <3>2, <3>3, <3>4, <3>5, <3>6, <3>7
        DEF Outside, Environment, Informers
    <2>. QED BY <2>1, <2>2
  <1>. QED BY <1>1, <1>2, <1>3, <1>4, Steps

LEMMA AddressStep ==
  TypeOK /\ WorkInv /\ KeepInv /\ [Next]_vars =>
    ((/\ creations = 1 /\ "store" \notin trouble
      /\ config["secondary"] # NoIP /\ config'["secondary"] \notin {NoIP, config["secondary"]})
       => down)
  <1>. SUFFICES ASSUME TypeOK, WorkInv, KeepInv, [Next]_vars,
                       creations = 1, "store" \notin trouble, config["secondary"] # NoIP,
                       config'["secondary"] \notin {NoIP, config["secondary"]}, ~down
                PROVE  FALSE
    BY DEF TypeOK
  <1>0. /\ config \in [Modes -> Addresses \cup {Local}]
        /\ pc \in {"config", "deleteConfig"} => decided \in Modes
        /\ (pc = "config" /\ decided = "secondary") => memory # NoIP
    BY TypeParts DEF TypeOK, ObjectType, ProcessType
  <1>1. ~UNCHANGED config
    OBVIOUS
  <1>2. CASE UNCHANGED vars \/ Get \/ Outside
    BY <1>1, <1>2, GetStage, EnvironmentStep DEF vars
  <1>3. CASE Uninstall
    BY <1>0, <1>1, <1>3, UninstallStep DEF DeleteConfig, Modes
  <1>4. CASE Update
    <2>1. WriteConfig
      BY <1>1, <1>4, UpdateStep
    <2>2. decided = "secondary" /\ config'["secondary"] = memory /\ pc = "config"
      BY <1>0, <2>1 DEF WriteConfig, Modes
    <2>3. FirstLife
      BY <2>2 DEF FirstLife, WorkInv
    <2>. QED BY <1>0, <2>2, <2>3 DEF KeepInv, StoredInv, Told, Found
  <1>. QED BY <1>2, <1>3, <1>4, Steps

\* In the first CR's life the scheduler is not moved from one extender to another while the
\* first one works, not even by a restarted operator.
THEOREM AddressSafe == Spec => AddressKept
  <1>1. TypeOK /\ WorkInv /\ KeepInv /\ [Next]_vars => KeepInv'
    BY ModeStep, BirthStep, StoredStep DEF KeepInv
  <1>. QED BY Worked, InitKeep, <1>1, AddressStep, PTL DEF Spec, AddressKept
-----------------------------------------------------------------------------
(***************************************************************************)
(* What rests is patched. Whatever could outdate what the worker has       *)
(* checked or written queues the CR again, except for what others do to    *)
(* the scheduler, and for what an outdated copy of it hides.               *)
(***************************************************************************)
Quiet == ~queued /\ cr = "live" /\ "replaced" \notin trouble
Configured ==
  /\ decided = "secondary" => config["secondary"] \in works
  /\ decided = "policy" => config["policy"] = Local
PatchInv ==
  Quiet =>
    /\ (pc \in {"store", "config"} /\ decided = "secondary") => memory \in works
    /\ pc \in {"patch", "write"} => Configured
    /\ pc = "idle" => Patched \/ "scheduler" \in missed

LEMMA InitPatch == Init => PatchInv
  BY DEF Init, PatchInv, Quiet

LEMMA NextPatch == TypeOK /\ WorkInv /\ PatchInv /\ [Next]_vars => PatchInv'
  <1>. SUFFICES ASSUME TypeOK, WorkInv, PatchInv, [Next]_vars, Quiet' PROVE PatchInv'
    BY DEF PatchInv
  <1>. USE DEF cluster, process, worker, bounds
  <1>0. /\ "replaced" \notin trouble
        /\ decided \in Modes \cup {"unknown"}
        /\ pc \notin {"idle", "version", "unversion", "finalizer"} => decided \in Modes
        /\ config \in [Modes -> Addresses \cup {Local}] /\ sched \in [Modes -> Schedulers]
    BY TroubleKept, TypeParts DEF TypeOK, ObjectType, ProcessType, Quiet
  <1>1. CASE UNCHANGED vars
    BY <1>1 DEF vars, PatchInv, Quiet, Configured, Patched
  <1>2. CASE Get
    BY <1>2, GetStage DEF Quiet, PatchInv
  <1>3. CASE Update
    <2>0. cr = "live" /\ UNCHANGED <<image, works>>
      BY <1>3, UpdateStep DEF Quiet
    <2>. USE <1>0, <2>0 DEF Go, PatchInv, Quiet
    <2>1. CASE UseOpenshiftSecondaryScheduler
      BY <2>1 DEF UseOpenshiftSecondaryScheduler
    <2>2. CASE CheckMemory \/ CheckStored \/ SelectExtender
      BY <2>2 DEF CheckMemory, CheckStored, SelectExtender
    <2>3. CASE NoExtender \/ Fail
      <3>1. pc' = "memory"
        BY <2>3 DEF NoExtender, Fail, Requeue
      <3>. QED BY <3>1
    <2>4. CASE StoreIP
      BY <2>4 DEF StoreIP
    <2>5. CASE WriteConfig
      BY <2>5 DEF WriteConfig, Configured, Modes
    <2>6. CASE GetScheduler
      <3>1. CASE pc' = "write"
        BY <2>6, <3>1 DEF GetScheduler, Requeue, Configured
      <3>2. CASE pc' # "write"
        <4>1. /\ ~NeedsWrite(Copy(decided)) /\ Copy(decided).by # "foreign"
              /\ pc' = "idle" /\ UNCHANGED <<queued, sched, config, decided>> /\ pc = "patch"
          BY <2>6, <3>2 DEF GetScheduler, Requeue, Return
        <4>2. Copy(decided).by \in Owner
          BY <2>6, CopyType DEF GetScheduler, Copies
        <4>3. Copy(decided).by = "csi" /\ (decided = "secondary" => Copy(decided).image = image)
          BY <4>1, <4>2 DEF NeedsWrite, Owner
        <4>4. Outdated(decided) => "scheduler" \in missed'
          BY <2>6 DEF GetScheduler, Missing
        <4>5. ~Outdated(decided) =>
                sched[decided].by = "csi" /\ (decided = "secondary" => sched[decided].image = image)
          BY <4>3 DEF Outdated
        <4>. QED BY <4>1, <4>4, <4>5 DEF Configured, Patched
      <3>. QED BY <3>1, <3>2
    <2>7. CASE WriteScheduler
      <3>1. /\ Write(decided, "csi") /\ pc = "write" /\ pc' = "idle"
            /\ UNCHANGED <<queued, config, decided>>
        BY <2>7, ReturnStage DEF WriteScheduler, Requeue
      <3>2. /\ sched'[decided].by = "csi"
            /\ decided = "secondary" => sched'[decided].image = image
        BY <3>1, WriteEffect DEF Owner
      <3>. QED BY <3>1, <3>2 DEF Configured, Patched
    <2>. QED BY <1>3, <2>1, <2>2, <2>3, <2>4, <2>5, <2>6, <2>7 DEF Update
  <1>4. CASE Uninstall
    <2>1. cr = "deleting"
      BY <1>4, UninstallStep DEF WorkInv
    <2>2. cr' # "live"
      BY <1>4, <2>1, UninstallStep DEF RemoveFinalizer
    <2>. QED BY <2>2 DEF Quiet
  <1>5. CASE Outside
    <2>1. CASE UpgradeCluster
      BY <1>0, <2>1 DEF UpgradeCluster, PatchInv, Quiet, Configured, Patched
    <2>2. CASE Create \/ Edit \/ Delete \/ CollectGarbage \/ LoseStored \/ Restart
      BY <2>2 DEF Create, Edit, Delete, CollectGarbage, LoseStored, Restart, Quiet
    <2>3. ASSUME NEW ip \in IPs, ExtenderStarts(ip) \/ ExtenderStops(ip) PROVE FALSE
      BY <2>3 DEF ExtenderStarts, ExtenderStops, Quiet
    <2>4. ASSUME NEW m \in Modes, Interfere(m) PROVE PatchInv'
      <3>1. UNCHANGED <<cr, image, config, missed, works, process, pc, queued>>
        BY <2>4 DEF Interfere
      <3>2. \A n \in Modes : sched[n].by = "csi" => sched'[n] = sched[n]
        BY <2>4, InterfereEffect DEF Quiet
      <3>. QED BY <1>0, <3>1, <3>2 DEF PatchInv, Quiet, Configured, Patched
    <2>5. CASE Informers
      BY <1>0, <2>5 DEF Informers, Sync, PatchInv, Quiet, Configured, Patched
    <2>. QED BY <1>5, <2>1, <2>2, <2>3, <2>4, <2>5 DEF Outside, Environment
  <1>. QED BY <1>1, <1>2, <1>3, <1>4, <1>5, Steps

\* At rest with a live CR the scheduler is the operator's, and the secondary one is told of
\* an extender that answers, unless the last look at an outdated copy hid what was to write.
THEOREM PatchedRests == Spec => []PatchedAtRest
  <1>1. PatchInv => PatchedAtRest
    BY DEF PatchInv, Quiet, PatchedAtRest
  <1>. QED BY Worked, InitPatch, NextPatch, <1>1, PTL DEF Spec

-----------------------------------------------------------------------------
(***************************************************************************)
(* A reconcile ends.                                                       *)
(***************************************************************************)
\* The steps a reconcile has left at most, the one the worker is about to make included:
\* in the loop of createOpenshiftConfig, three for each try that is left.
TriesLeft == 3 * (MaxTries - 1 - tries)
Left ==
  IF pc = "idle" THEN 0
  ELSE IF pc \in {"write", "finalizer"} THEN 1
  ELSE IF pc \in {"patch", "unwrite"} THEN 2
  ELSE IF pc \in {"config", "unpatch"} THEN 3
  ELSE IF pc \in {"store", "deleteConfig"} THEN 4
  ELSE IF pc = "unversion" THEN 5
  ELSE TriesLeft + (IF pc = "list" THEN 5 ELSE IF pc = "stored" THEN 6
                    ELSE IF pc = "memory" THEN 7 ELSE 8)

WorkerStep == Update \/ Uninstall

\* What a step of the worker makes of its stage: it goes on, or to the next try, or it ends.
Onward ==
  \/ pc' = "idle"
  \/ UNCHANGED tries /\
     \/ pc = "version" /\ pc' \in {"memory", "config"}
     \/ pc = "memory" /\ pc' \in {"config", "stored"}
     \/ pc = "stored" /\ pc' \in {"config", "list"}
     \/ pc = "list" /\ pc' = "store"
     \/ pc = "store" /\ pc' = "config"
     \/ pc = "config" /\ pc' = "patch"
     \/ pc = "patch" /\ pc' = "write"
     \/ pc = "unversion" /\ pc' \in {"deleteConfig", "finalizer"}
     \/ pc = "deleteConfig" /\ pc' = "unpatch"
     \/ pc = "unpatch" /\ pc' \in {"unwrite", "finalizer"}
     \/ pc = "unwrite" /\ pc' = "finalizer"
  \/ pc = "list" /\ pc' = "memory" /\ tries' = tries + 1 /\ tries + 1 < MaxTries

LEMMA WorkerOnward == ASSUME WorkerStep PROVE pc # "idle" /\ Onward
  <1>. USE ReturnStage DEF Onward, Go
  <1>1. CASE UseOpenshiftSecondaryScheduler \/ CheckMemory \/ CheckStored \/ SelectExtender
    BY <1>1 DEF UseOpenshiftSecondaryScheduler, CheckMemory, CheckStored, SelectExtender
  <1>2. CASE NoExtender \/ Fail
    BY <1>2 DEF NoExtender, Fail
  <1>3. CASE StoreIP \/ WriteConfig \/ GetScheduler \/ WriteScheduler
    BY <1>3 DEF StoreIP, WriteConfig, GetScheduler, WriteScheduler
  <1>4. CASE Uninstall
    BY <1>4 DEF Uninstall, DecideUninstall, DeleteConfig, GetForUnpatch, Unpatch, RemoveFinalizer
  <1>. QED BY <1>1, <1>2, <1>3, <1>4 DEF WorkerStep, Update

LEMMA LeftRange ==
  TypeOK => Left \in 0 .. 3 * MaxTries + 5 /\ (Left = 0 <=> pc = "idle")
  <1>. SUFFICES ASSUME TypeOK PROVE Left \in 0 .. 3 * MaxTries + 5 /\ (Left = 0 <=> pc = "idle")
    OBVIOUS
  <1>1. tries \in 0 .. MaxTries - 1 /\ MaxTries \in Nat
    BY PatcherAssumption DEF TypeOK
  <1>2. TriesLeft \in 0 .. 3 * MaxTries - 3
    BY <1>1 DEF TriesLeft
  <1>. QED BY <1>1, <1>2 DEF Left

\* However many extenders are asked in vain, a reconcile ends: each step of the worker leaves
\* it fewer steps, the loop that looks for an extender included, and nobody else's step
\* leaves it more.
THEOREM Ends ==
  Spec => /\ [](Left \in 0 .. 3 * MaxTries + 5 /\ (Left = 0 <=> pc = "idle"))
          /\ [][pc # "idle" => Left' <= Left /\ (WorkerStep => Left' < Left)]_vars
  <1>1. ASSUME TypeOK, [Next]_vars, pc # "idle"
        PROVE  Left' <= Left /\ (WorkerStep => Left' < Left)
    <2>1. Left \in Nat /\ Left > 0 /\ TriesLeft \in Nat /\ tries \in Nat
      <3>1. tries \in 0 .. MaxTries - 1 /\ MaxTries \in Nat
        BY <1>1, PatcherAssumption, TypeParts DEF WorkerType
      <3>2. Left \in Nat /\ Left > 0
        BY <1>1, <3>1, LeftRange
      <3>. QED BY <3>1, <3>2 DEF TriesLeft
    <2>2. ASSUME Onward PROVE Left' <= Left /\ Left' < Left
      <3>1. CASE pc' = "idle"
        <4>1. Left' = 0
          BY <3>1 DEF Left
        <4>. QED BY <2>1, <4>1
      <3>2. CASE UNCHANGED tries /\ pc' # "idle"
        <4>1. TriesLeft' = TriesLeft
          BY <3>2 DEF TriesLeft
        <4>. QED BY <2>1, <2>2, <3>2, <4>1 DEF Onward, Left
      <3>3. CASE pc = "list" /\ pc' = "memory" /\ tries' = tries + 1 /\ tries + 1 < MaxTries
        <4>1. TriesLeft' = TriesLeft - 3
          BY <2>1, <3>3, PatcherAssumption DEF TriesLeft
        <4>. QED BY <2>1, <3>3, <4>1 DEF Left
      <3>. QED BY <2>2, <3>1, <3>2, <3>3 DEF Onward
    <2>3. CASE WorkerStep
      BY <2>2, <2>3, WorkerOnward
    <2>4. CASE UNCHANGED <<pc, tries>>
      <3>1. Left' = Left
        BY <2>4 DEF Left, TriesLeft
      <3>2. ~WorkerStep
        BY <2>4, WorkerOnward DEF Onward
      <3>. QED BY <2>1, <3>1, <3>2
    <2>5. CASE Restart
      <3>1. pc' = "idle"
        BY <2>5, ReturnStage DEF Restart
      <3>2. Left' = 0
        BY <3>1 DEF Left
      <3>. QED BY <2>1, <3>2
    <2>6. CASE UNCHANGED vars
      BY <2>4, <2>6 DEF vars, worker
    <2>7. ~Get
      BY <1>1 DEF Get
    <2>. QED BY <1>1, <2>3, <2>4, <2>5, <2>6, <2>7, Steps, EnvironmentStep DEF WorkerStep
  <1>. QED BY <1>1, InitType, NextType, LeftRange, PTL DEF Spec
===============================================================================
