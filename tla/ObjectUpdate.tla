----------------------------- MODULE ObjectUpdate -----------------------------
(***************************************************************************)
(* UpdateConfigMap, UpdateDaemonSet and UpdateDeployment                   *)
(* (pkg/common/update.go): read the object, compare part of it with what   *)
(* is expected, then create or update it. DeploymentReconciler takes this  *)
(* for one step. Here it is three, of several processes at once: nothing   *)
(* but --enable-leader-election, off by default in main.go, keeps a second *)
(* process from reconciling the same CR by a cache of its own.             *)
(***************************************************************************)
EXTENDS Naturals, FiniteSets

CONSTANTS
  Processes,      \* processes of the operator that reconcile
  MaxSpec,        \* bound: spec versions of one CR
  MaxCreations,   \* bound: how often the CR is created
  MaxOthers,      \* bound: what others do to the object
  MaxFaults       \* bound: failed requests and restarts

ASSUME UpdateAssumption ==
  /\ Processes # {} /\ MaxSpec \in Nat \ {0}
  /\ {MaxCreations, MaxOthers, MaxFaults} \subseteq Nat

VARIABLES
  kind, owned,    \* of the object: what it is, and whether it gets a controller reference
  cr, object,     \* in the API server
  cache,          \* the CR in the cache of each process
  queued, pc,
  seen, copy,     \* the CR a process goes by, the object it has read
  current,        \* processes whose copy has the object's resourceVersion
  unseen,         \* history: others have changed an object nobody watches
  creations, others, faults

worker == <<queued, pc, seen, copy, current>>
bounds == <<unseen, creations, others, faults>>
vars   == <<kind, owned, cr, object, cache, worker, bounds>>

\* uid 0 stands for "not found".
NoCR == [uid |-> 0, spec |-> 0]
CRs  == {NoCR} \cup [uid: 1 .. MaxCreations, spec: 1 .. MaxSpec]

\* content: the spec version that the template, or the data, was made from; 0 when it is
\* somebody else's. replicas, rest: the replicas, and the fields that are not compared
\* (of a configmap, what is not data), are as the operator makes them.
Kinds    == {"configmap", "daemonset", "deployment"}
NoObject == [present |-> FALSE, owner |-> 0, content |-> 0, replicas |-> TRUE, rest |-> TRUE]
Objects  == [present: BOOLEAN, owner: 0 .. MaxCreations, content: 0 .. MaxSpec,
             replicas: BOOLEAN, rest: BOOLEAN]

TypeOK ==
  /\ kind \in Kinds /\ owned \in BOOLEAN /\ (~owned => kind = "configmap")
  /\ cr \in CRs /\ cache \in [Processes -> CRs] /\ seen \in [Processes -> CRs]
  /\ object \in Objects /\ (~object.present => object = NoObject)
  /\ copy \in [Processes -> Objects]
  /\ queued \subseteq Processes /\ current \subseteq Processes
  /\ pc \in [Processes -> {"idle", "get", "create", "update"}]
  /\ \A p \in Processes : pc[p] # "idle" => seen[p].uid # 0
  /\ unseen \in BOOLEAN
  /\ creations \in 0 .. MaxCreations /\ others \in 0 .. MaxOthers /\ faults \in 0 .. MaxFaults

Init ==
  /\ kind \in Kinds /\ owned \in BOOLEAN /\ (~owned => kind = "configmap")
  /\ cr = NoCR /\ object = NoObject
  /\ cache = [p \in Processes |-> NoCR] /\ seen = cache
  /\ queued = {} /\ pc = [p \in Processes |-> "idle"]
  /\ copy = [p \in Processes |-> NoObject] /\ current = {}
  /\ unseen = FALSE /\ creations = 0 /\ others = 0 /\ faults = 0

Fault == faults < MaxFaults /\ faults' = faults + 1 /\ UNCHANGED <<unseen, creations, others>>

Go(p, stage) == pc' = [pc EXCEPT ![p] = stage]
Return(p) ==
  /\ Go(p, "idle")
  /\ seen' = [seen EXCEPT ![p] = NoCR] /\ copy' = [copy EXCEPT ![p] = NoObject]

-----------------------------------------------------------------------------
\* What is expected, and what of it is compared

New(c) ==
  [present |-> TRUE, owner |-> IF owned THEN c.uid ELSE 0, content |-> c.spec,
   replicas |-> TRUE, rest |-> TRUE]

\* (wrong variant: a deployment is compared like a daemon set)
ChangedButReplicas(o, c) == o.content # c.spec
Changed(o, c) == o.content # c.spec \/ (kind = "deployment" /\ ~o.replicas)

\* A workload gets the whole expected spec, a configmap the data alone; either keeps its
\* metadata.
Replaced(o, c) ==
  IF kind = "configmap" THEN [o EXCEPT !.content = c.spec] ELSE [New(c) EXCEPT !.owner = o.owner]

-----------------------------------------------------------------------------
\* Steps of a process

\* A change of the object is an event for its owner, by the owner's name.
\* (wrong variant: for nobody)
NotifyNobody(o) == {}
Notified(o) == IF o.present /\ o.owner # 0 THEN Processes ELSE {}
Store(new) == object' = new /\ current' = {}

\* (wrong variant: that the CR is not found is not looked at)
TakeUnchecked(p) ==
  /\ pc[p] = "idle" /\ p \in queued
  /\ queued' = queued \ {p}
  /\ Go(p, "get") /\ seen' = [seen EXCEPT ![p] = cache[p]]
  /\ UNCHANGED <<kind, owned, cr, object, cache, copy, current, bounds>>
Take(p) ==
  /\ pc[p] = "idle" /\ p \in queued
  /\ queued' = queued \ {p}
  /\ IF cache[p] = NoCR THEN UNCHANGED <<pc, seen>>
     ELSE Go(p, "get") /\ seen' = [seen EXCEPT ![p] = cache[p]]
  /\ UNCHANGED <<kind, owned, cr, object, cache, copy, current, bounds>>

Read(p) ==
  /\ pc[p] = "get"
  /\ IF object.present /\ ~Changed(object, seen[p])
     THEN Return(p) /\ UNCHANGED current
     ELSE /\ Go(p, IF object.present THEN "update" ELSE "create")
          /\ copy' = [copy EXCEPT ![p] = object] /\ current' = current \cup {p}
          /\ UNCHANGED seen
  /\ UNCHANGED <<kind, owned, cr, object, cache, queued, bounds>>

\* The object exists by now: the error goes back to Reconcile.
\* (wrong variant: it is taken for success)
RefusedQuietly(p) == UNCHANGED <<object, current, queued>>
Refused(p) == queued' = queued \cup {p} /\ UNCHANGED <<object, current>>

Create(p) ==
  /\ pc[p] = "create"
  /\ IF object.present THEN Refused(p)
     ELSE Store(New(seen[p])) /\ queued' = queued \cup Notified(New(seen[p]))
  /\ Return(p)
  /\ UNCHANGED <<kind, owned, cr, cache, bounds>>

\* found is written back with the resourceVersion it was read with.
\* (wrong variant: without)
LatestUnchecked(p) == object.present
Latest(p) == p \in current

\* The object has changed since, or has gone: an error as well.
Update(p) ==
  /\ pc[p] = "update"
  /\ IF ~Latest(p) THEN Refused(p)
     ELSE /\ Store(Replaced(copy[p], seen[p]))
          /\ queued' = queued \cup Notified(copy[p])
  /\ Return(p)
  /\ UNCHANGED <<kind, owned, cr, cache, bounds>>

Fail(p) ==
  /\ pc[p] # "idle" /\ Fault
  /\ queued' = queued \cup {p} /\ Return(p)
  /\ UNCHANGED <<kind, owned, cr, object, cache, current>>

Restart(p) ==
  /\ pc[p] # "idle" \/ cache[p] # cr
  /\ Fault
  /\ cache' = [cache EXCEPT ![p] = cr]
  /\ queued' = IF cr = NoCR THEN queued \ {p} ELSE queued \cup {p}
  /\ Return(p)
  /\ UNCHANGED <<kind, owned, cr, object, current>>

-----------------------------------------------------------------------------
\* Informers, users, the garbage collector, controllers of Kubernetes

Sync(p) ==
  /\ cache[p] # cr
  /\ cache' = [cache EXCEPT ![p] = cr] /\ queued' = queued \cup {p}
  /\ UNCHANGED <<kind, owned, cr, object, pc, seen, copy, current, bounds>>

CreateCR ==
  /\ cr = NoCR /\ creations < MaxCreations
  /\ creations' = creations + 1 /\ cr' = [uid |-> creations + 1, spec |-> 1]
  /\ UNCHANGED <<kind, owned, object, cache, worker, unseen, others, faults>>

EditCR ==
  /\ cr # NoCR /\ cr.spec < MaxSpec
  /\ cr' = [cr EXCEPT !.spec = @ + 1]
  /\ UNCHANGED <<kind, owned, object, cache, worker, bounds>>

\* Some process has uninstalled, and taken the finalizer away.
DeleteCR ==
  /\ cr # NoCR /\ cr' = NoCR
  /\ UNCHANGED <<kind, owned, object, cache, worker, bounds>>

CollectGarbage ==
  /\ object.present /\ object.owner \notin {0, cr.uid}
  /\ Store(NoObject) /\ queued' = queued \cup Notified(object)
  /\ UNCHANGED <<kind, owned, cr, cache, pc, seen, copy, bounds>>

\* Others change the object: its status, its fields, or all of it.
Interfere ==
  /\ object.present /\ others < MaxOthers /\ others' = others + 1
  /\ \E new \in {object, NoObject, [object EXCEPT !.content = 0], [object EXCEPT !.rest = FALSE]}
                 \cup IF kind = "deployment" THEN {[object EXCEPT !.replicas = FALSE]} ELSE {} :
       /\ Store(new)
       /\ unseen' = (unseen \/ (~owned /\ new # object))
  /\ queued' = queued \cup Notified(object)
  /\ UNCHANGED <<kind, owned, cr, cache, pc, seen, copy, creations, faults>>

-----------------------------------------------------------------------------
UpdateObject(p) == Take(p) \/ Read(p) \/ Create(p) \/ Update(p)

Next ==
  \/ \E p \in Processes : UpdateObject(p) \/ Fail(p) \/ Restart(p) \/ Sync(p)
  \/ CreateCR \/ EditCR \/ DeleteCR \/ CollectGarbage \/ Interfere

Spec == Init /\ [][Next]_vars

\* Requests end, informers deliver, the garbage collector runs.
FairSpec ==
  /\ Spec /\ WF_vars(CollectGarbage)
  /\ \A p \in Processes : WF_vars(UpdateObject(p)) /\ WF_vars(Sync(p))

-----------------------------------------------------------------------------
\* Properties

\* UpdateObject in one step, as DeploymentReconciler has it.
Applied(o, c) ==
  IF ~o.present THEN New(c) ELSE IF Changed(o, c) THEN Replaced(o, c) ELSE o

\* Reading, comparing and writing are three requests, yet what is stored is what a process
\* would have stored in one step: nobody's edit, owner or deletion that came in between is
\* written over.
WritesAtomic ==
  [][object' # object =>
       \/ others' = others + 1 \/ object'.present = FALSE
       \/ \E p \in Processes : pc[p] # "idle" /\ object' = Applied(object, seen[p])]_vars

Quiescent == \A p \in Processes : pc[p] = "idle" /\ p \notin queued /\ cache[p] = cr
AsExpected ==
  /\ object.present /\ object.content = cr.spec
  /\ kind = "deployment" => object.replicas

\* When all processes rest, the object is as the CR has it, although each has refused
\* writes of the others and may have put an older version over a newer one. (A configmap
\* that nobody owns is watched by nobody.)
AppliedAtRest == Quiescent /\ cr # NoCR /\ ~unseen => AsExpected

\* Two processes with different copies of the CR do not fight for ever over the object,
\* and it goes with its owner even if one of them has made it anew in the meantime.
Settles ==
  /\ <>[](cr # NoCR /\ ~unseen) => <>[](AsExpected /\ (owned => object.owner = cr.uid))
  /\ <>[](cr = NoCR /\ owned) => <>[](~object.present)
===============================================================================
