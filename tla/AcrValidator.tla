----------------------------- MODULE AcrValidator -----------------------------
(***************************************************************************)
(* The watcher of outdated capacity reservations: pkg/acrvalidator.        *)
(*                                                                         *)
(* The scheduler extender of the CSI driver reserves capacity for a        *)
(* pending pod under the pod's name. Each process of the operator, leader  *)
(* or not, lists the reservations once in a minute and deletes those whose *)
(* pod is gone or running. It reads reservations and pods from two caches  *)
(* of the API server's objects that lag behind it each on its own, and it  *)
(* deletes by name: a name may have come into use again since.             *)
(***************************************************************************)
EXTENDS Naturals, FiniteSets

CONSTANTS
  Processes,    \* processes of the operator
  Pods, NoPod,  \* names of pods, and one that is none
  MaxUses,      \* bound: pods made one after the other with the same name
  MaxFaults     \* bound: failed requests, expired rounds and restarts

ASSUME AcrAssumption == NoPod \notin Pods /\ {MaxUses, MaxFaults} \subseteq Nat

VARIABLES
  pod,          \* the pods: which of its name, and its phase
  acr,          \* the reservations: for which pod of the name, 0 when there is none
  podCache, acrCache,   \* what each process has been told of them
  items,        \* reservations of the list still to be looked at
  current,      \* the one the process has decided to delete, with the pod it asked for
  faults

cluster == <<pod, acr>>
caches  == <<podCache, acrCache>>
worker  == <<items, current>>
vars    == <<cluster, caches, worker, faults>>

Uses   == 1 .. MaxUses
Phases == {"none", "pending", "running", "ended"}
PodStates == [use: 0 .. MaxUses, phase: Phases]
AcrStates == [Pods -> 0 .. MaxUses]
Nothing == [name |-> NoPod, use |-> 0, seen |-> 0]
Targets == [name: Pods, use: Uses, seen: 0 .. MaxUses]

TypeOK ==
  /\ pod \in [Pods -> PodStates] /\ acr \in AcrStates
  /\ podCache \in [Processes -> [Pods -> PodStates]]
  /\ acrCache \in [Processes -> AcrStates]
  /\ items \in [Processes -> SUBSET (Pods \X Uses)]
  /\ current \in [Processes -> Targets \cup {Nothing}]
  /\ \A p \in Processes : \A i, j \in items[p] : i[1] = j[1] => i = j
  /\ \A p \in Processes : \A i \in items[p] : i[1] # current[p].name
  /\ faults \in Nat

Init ==
  /\ pod = [n \in Pods |-> [use |-> 0, phase |-> "none"]]
  /\ acr = [n \in Pods |-> 0]
  /\ podCache = [p \in Processes |-> pod] /\ acrCache = [p \in Processes |-> acr]
  /\ items = [p \in Processes |-> {}] /\ current = [p \in Processes |-> Nothing]
  /\ faults = 0

Fault == faults < MaxFaults /\ faults' = faults + 1

-----------------------------------------------------------------------------
\* validateACRs

\* A failed list is a round that does not begin.
List(p) ==
  /\ items[p] = {} /\ current[p] = Nothing
  /\ items' = [items EXCEPT ![p] = {<<n, acrCache[p][n]>> : n \in {m \in Pods : acrCache[p][m] # 0}}]
  /\ UNCHANGED <<cluster, caches, current, faults>>

\* needToRemoveACR, of what the cache says of the pod. (wrong variant: only the missing
\* pod is looked for)
OnlyMissing(state) == state.phase = "none"
NeedToRemove(state) == state.phase \in {"none", "running"}

\* (wrong variant: the loop comes to the same reservation again)
SameLeft(p, i) == items
ItemsLeft(p, i) == [items EXCEPT ![p] = @ \ {i}]

Get(p, i) ==
  /\ current[p] = Nothing /\ i \in items[p]
  /\ items' = ItemsLeft(p, i)
  /\ current' = IF NeedToRemove(podCache[p][i[1]])
                THEN [current EXCEPT ![p] = [name |-> i[1], use |-> i[2],
                                             seen |-> podCache[p][i[1]].use]]
                ELSE current
  /\ UNCHANGED <<cluster, caches, faults>>

\* An error that is not NotFound keeps the reservation for another round.
\* (wrong variant: every error is taken for NotFound)
TakenForNotFound(p, i) ==
  [current EXCEPT ![p] = [name |-> i[1], use |-> i[2], seen |-> podCache[p][i[1]].use]]
AfterError(p, i) == current
GetFails(p, i) ==
  /\ current[p] = Nothing /\ i \in items[p]
  /\ Fault
  /\ items' = ItemsLeft(p, i)
  /\ current' = AfterError(p, i)
  /\ UNCHANGED <<cluster, caches>>

\* Delete by name: what has the name now is deleted; one that is missing is an error
\* that is logged.
Delete(p) ==
  /\ current[p] # Nothing
  /\ acr' = [acr EXCEPT ![current[p].name] = 0]
  /\ current' = [current EXCEPT ![p] = Nothing]
  /\ UNCHANGED <<pod, caches, items, faults>>

DeleteFails(p) ==
  /\ current[p] # Nothing
  /\ Fault
  /\ current' = [current EXCEPT ![p] = Nothing]
  /\ UNCHANGED <<cluster, caches, items>>

\* The round's 30 seconds are over, and the requests left fail; or a new process starts.
Expire(p) ==
  /\ items[p] # {} \/ current[p] # Nothing
  /\ Fault
  /\ items' = [items EXCEPT ![p] = {}]
  /\ current' = [current EXCEPT ![p] = Nothing]
  /\ UNCHANGED <<cluster, caches>>

-----------------------------------------------------------------------------
\* The caches, the pods and the extender

SyncPods(p) ==
  /\ podCache' = [podCache EXCEPT ![p] = pod]
  /\ UNCHANGED <<cluster, acrCache, worker, faults>>

SyncAcrs(p) ==
  /\ acrCache' = [acrCache EXCEPT ![p] = acr]
  /\ UNCHANGED <<cluster, podCache, worker, faults>>

Becomes(n, from, to) ==
  /\ pod[n].phase \in from
  /\ pod' = [pod EXCEPT ![n].phase = to]
  /\ UNCHANGED <<acr, caches, worker, faults>>

CreatePod(n) ==
  /\ pod[n].phase = "none" /\ pod[n].use < MaxUses
  /\ pod' = [pod EXCEPT ![n] = [use |-> @.use + 1, phase |-> "pending"]]
  /\ UNCHANGED <<acr, caches, worker, faults>>

StartPod(n)  == Becomes(n, {"pending"}, "running")
EndPod(n)    == Becomes(n, {"running"}, "ended")
RemovePod(n) == Becomes(n, {"pending", "running", "ended"}, "none")

Reserve(n) ==
  /\ pod[n].phase = "pending" /\ acr[n] = 0
  /\ acr' = [acr EXCEPT ![n] = pod[n].use]
  /\ UNCHANGED <<pod, caches, worker, faults>>

-----------------------------------------------------------------------------
ValidateACRs(p) == List(p) \/ (\E i \in items[p] : Get(p, i)) \/ Delete(p)
Trouble(p) == (\E i \in items[p] : GetFails(p, i)) \/ DeleteFails(p) \/ Expire(p)
Environment(n) == CreatePod(n) \/ StartPod(n) \/ EndPod(n) \/ RemovePod(n) \/ Reserve(n)

Next ==
  \/ \E p \in Processes : ValidateACRs(p) \/ Trouble(p) \/ SyncPods(p) \/ SyncAcrs(p)
  \/ \E n \in Pods : Environment(n)

Spec == Init /\ [][Next]_vars

\* The loop of validateACRs goes on, and the informers deliver.
FairSpec ==
  /\ Spec
  /\ \A p \in Processes :
       WF_vars(ValidateACRs(p)) /\ WF_vars(SyncPods(p)) /\ WF_vars(SyncAcrs(p))

-----------------------------------------------------------------------------
\* Properties

\* The reservation process p deletes is the one it listed, and the cache it asked had
\* heard of that reservation's pod.
Informed(p) ==
  LET t == current[p] IN acr[t.name] = t.use /\ t.seen >= t.use

\* A pod that waits to be scheduled does not lose the reservation made for it to a process
\* that knows of the pod, whatever fails on the way: errors of the Get in needToRemoveACR
\* are told from NotFound. Two cases are left out, and the code leaves them open: the pods'
\* cache lags so far behind the reservations' that the pod is not in it yet, and the name is
\* reserved anew between the list and the delete.
PendingKept ==
  [][\A p \in Processes, n \in Pods :
       (/\ current[p].name = n /\ current'[p] = Nothing /\ Informed(p)
        /\ pod[n] = [use |-> acr[n], phase |-> "pending"])
         => acr'[n] = acr[n]]_vars

\* The reservation of a name whose pod stays away, or stays running, is deleted in the
\* end: a later round makes good what errors, an expired round or a restart left undone.
OutdatedRemoved ==
  \A n \in Pods :
    <>[](pod[n].phase \in {"none", "running"}) => <>[](acr[n] = 0)
===============================================================================
