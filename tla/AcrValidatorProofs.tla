-------------------------- MODULE AcrValidatorProofs --------------------------
(***************************************************************************)
(* TypeOK and PendingKept of AcrValidator, and that a round ends, for any  *)
(* number of processes, names, uses of a name and faults.                  *)
(***************************************************************************)
EXTENDS AcrValidator, FiniteSetTheorems, TLAPS

LEMMA Bounds == MaxUses \in Nat /\ MaxFaults \in Nat /\ NoPod \notin Pods
  BY AcrAssumption

\* What a process has listed are reservations under names of pods, one for each name.
LEMMA ListedType ==
  ASSUME NEW cached \in AcrStates,
         NEW list, list = {<<n, cached[n]>> : n \in {m \in Pods : cached[m] # 0}}
  PROVE  /\ list \subseteq Pods \X Uses
         /\ \A i, j \in list : i[1] = j[1] => i = j
  BY Bounds DEF AcrStates, Uses

LEMMA TargetType ==
  ASSUME NEW i \in Pods \X Uses, NEW seen \in 0 .. MaxUses
  PROVE  [name |-> i[1], use |-> i[2], seen |-> seen] \in Targets
  BY DEF Targets

LEMMA InitType == Init => TypeOK
  <1>. SUFFICES ASSUME Init PROVE TypeOK
    OBVIOUS
  <1>1. pod \in [Pods -> PodStates] /\ acr \in AcrStates
    BY Bounds DEF Init, PodStates, Phases, AcrStates
  <1>. QED BY <1>1 DEF Init, TypeOK

LEMMA ProcessType ==
  ASSUME TypeOK, NEW p \in Processes, ValidateACRs(p) \/ Trouble(p) \/ SyncPods(p) \/ SyncAcrs(p)
  PROVE  TypeOK'
  <1>. USE DEF cluster, caches, worker
  <1>1. CASE List(p)
    <2>. DEFINE list == {<<n, acrCache[p][n]>> : n \in {m \in Pods : acrCache[p][m] # 0}}
    <2>1. acrCache[p] \in AcrStates
      BY DEF TypeOK
    <2>2. list \subseteq Pods \X Uses /\ \A i, j \in list : i[1] = j[1] => i = j
      BY <2>1, ListedType
    <2>3. items' = [items EXCEPT ![p] = list] /\ current[p] = Nothing
          /\ UNCHANGED <<cluster, caches, current, faults>>
      BY <1>1 DEF List
    <2>. HIDE DEF list
    <2>4. \A i \in list : i[1] # NoPod
      BY <2>2, Bounds
    <2>. QED BY <2>2, <2>3, <2>4 DEF TypeOK, Nothing
  <1>2. ASSUME NEW i \in items[p], Get(p, i) PROVE TypeOK'
    <2>1. podCache[p][i[1]].use \in 0 .. MaxUses /\ i \in Pods \X Uses
      BY DEF TypeOK, PodStates
    <2>. DEFINE target == [name |-> i[1], use |-> i[2], seen |-> podCache[p][i[1]].use]
    <2>2. target \in Targets /\ target.name = i[1]
      BY <2>1, TargetType
    <2>. HIDE DEF target
    <2>3. /\ current' = [current EXCEPT ![p] = target] \/ current' = current
          /\ items' = [items EXCEPT ![p] = @ \ {i}]
          /\ UNCHANGED <<cluster, caches, faults>>
      BY <1>2 DEF Get, ItemsLeft, target
    <2>. QED BY <2>2, <2>3 DEF TypeOK
  <1>3. CASE Delete(p)
    <2>1. current[p].name \in Pods /\ 0 \in 0 .. MaxUses
      BY <1>3, Bounds DEF Delete, TypeOK, Targets
    <2>2. acr' \in AcrStates
      BY <1>3, <2>1 DEF Delete, TypeOK, AcrStates
    <2>3. \A i \in items[p] : i[1] # NoPod
      BY Bounds DEF TypeOK
    <2>. QED BY <1>3, <2>2, <2>3 DEF Delete, TypeOK, Nothing
  <1>4. CASE Trouble(p)
    <2>1. faults' \in Nat
      BY <1>4 DEF Trouble, GetFails, DeleteFails, Expire, Fault, TypeOK
    <2>2. \A i \in items[p] : i[1] # NoPod
      BY Bounds DEF TypeOK
    <2>3. ASSUME NEW i \in items[p], GetFails(p, i) PROVE TypeOK'
      BY <2>1, <2>3 DEF GetFails, AfterError, ItemsLeft, TypeOK
    <2>4. CASE DeleteFails(p)
      BY <2>1, <2>2, <2>4 DEF DeleteFails, TypeOK, Nothing
    <2>5. CASE Expire(p)
      BY <2>1, <2>5 DEF Expire, TypeOK
    <2>. QED BY <1>4, <2>3, <2>4, <2>5 DEF Trouble
  <1>5. CASE SyncPods(p) \/ SyncAcrs(p)
    BY <1>5 DEF SyncPods, SyncAcrs, TypeOK
  <1>. QED BY <1>1, <1>2, <1>3, <1>4, <1>5 DEF ValidateACRs

LEMMA EnvironmentType ==
  ASSUME TypeOK, NEW n \in Pods, Environment(n) PROVE TypeOK'
  <1>. USE DEF cluster, caches, worker
  <1>0. pod[n] \in PodStates
    BY DEF TypeOK
  <1>1. CASE CreatePod(n)
    <2>1. [use |-> pod[n].use + 1, phase |-> "pending"] \in PodStates
      BY <1>0, <1>1, Bounds DEF CreatePod, PodStates, Phases
    <2>. QED BY <1>1, <2>1 DEF CreatePod, TypeOK
  <1>2. CASE Reserve(n)
    <2>1. acr' \in AcrStates
      BY <1>0, <1>2 DEF Reserve, TypeOK, AcrStates, PodStates
    <2>. QED BY <1>2, <2>1 DEF Reserve, TypeOK
  <1>3. ASSUME NEW from, NEW to \in Phases, Becomes(n, from, to) PROVE TypeOK'
    BY <1>0, <1>3 DEF Becomes, TypeOK, PodStates
  <1>4. CASE StartPod(n) \/ EndPod(n) \/ RemovePod(n)
    BY <1>3, <1>4 DEF StartPod, EndPod, RemovePod, Phases
  <1>. QED BY <1>1, <1>2, <1>4 DEF Environment

LEMMA NextType == TypeOK /\ [Next]_vars => TypeOK'
  <1>1. ASSUME TypeOK, UNCHANGED vars PROVE TypeOK'
    BY <1>1 DEF vars, cluster, caches, worker, TypeOK
  <1>. QED BY <1>1, ProcessType, EnvironmentType DEF Next

\* The types of the variables. That a round looks at each name once, and never again at
\* the one it is about to delete, is part of them.
THEOREM TypeCorrect == Spec => []TypeOK
  BY InitType, NextType, PTL DEF Spec

-----------------------------------------------------------------------------
\* A pod that waits keeps its reservation

\* An earlier look at the pods of a name: of an earlier pod, or of this one, which does
\* not go back to waiting once it has been seen in another phase.
Earlier(past, now) ==
  past.use <= now.use /\ (past.use = now.use /\ past.phase # "pending" => now.phase # "pending")

\* What a cache holds is earlier; so is what the process saw when it decided to delete,
\* and the pod was not waiting then.
SeenInv ==
  /\ \A p \in Processes, n \in Pods : Earlier(podCache[p][n], pod[n])
  /\ \A p \in Processes :
       LET t == current[p] IN
       t # Nothing => /\ t.seen <= pod[t.name].use
                      /\ t.seen = pod[t.name].use => pod[t.name].phase # "pending"

IInv == TypeOK /\ SeenInv

LEMMA InitSeen == Init => SeenInv
  BY DEF Init, SeenInv, Earlier

\* What happens to a pod leaves the earlier looks at it earlier.
LEMMA PodMoves ==
  ASSUME TypeOK, NEW n \in Pods, Environment(n)
  PROVE  /\ UNCHANGED <<podCache, current>>
         /\ \A m \in Pods : Earlier(pod[m], pod'[m])
  <1>0. \A m \in Pods : pod[m].use \in Nat
    BY DEF TypeOK, PodStates
  <1>1. CASE CreatePod(n)
    BY <1>0, <1>1 DEF CreatePod, TypeOK, Earlier, caches, worker
  <1>2. CASE Reserve(n)
    BY <1>0, <1>2 DEF Reserve, Earlier, caches, worker
  <1>3. ASSUME NEW from, NEW to \in Phases, Becomes(n, from, to), to # "pending"
        PROVE  UNCHANGED <<podCache, current>> /\ \A m \in Pods : Earlier(pod[m], pod'[m])
    BY <1>0, <1>3 DEF Becomes, TypeOK, Earlier, caches, worker, PodStates
  <1>4. CASE StartPod(n) \/ EndPod(n) \/ RemovePod(n)
    BY <1>3, <1>4 DEF StartPod, EndPod, RemovePod, Phases
  <1>. QED BY <1>1, <1>2, <1>4 DEF Environment

LEMMA SeenStep == ASSUME TypeOK, SeenInv, [Next]_vars PROVE SeenInv'
  <1>. USE DEF cluster, caches, worker
  <1>0. /\ \A n \in Pods : pod[n].use \in Nat
        /\ \A p \in Processes, n \in Pods : podCache[p][n].use \in Nat
        /\ \A p \in Processes : current[p] # Nothing =>
             current[p].name \in Pods /\ current[p].seen \in Nat
    BY DEF TypeOK, PodStates, Targets
  <1>1. ASSUME NEW p \in Processes, List(p) \/ Delete(p) \/ Trouble(p) \/ SyncAcrs(p) PROVE SeenInv'
    BY <1>1 DEF List, Delete, Trouble, GetFails, AfterError, DeleteFails, Expire, SyncAcrs, TypeOK, SeenInv
  <1>2. ASSUME NEW p \in Processes, NEW i \in items[p], Get(p, i) PROVE SeenInv'
    <2>1. i[1] \in Pods
      BY DEF TypeOK
    <2>2. Earlier(podCache[p][i[1]], pod[i[1]])
      BY <2>1 DEF SeenInv
    <2>. QED BY <1>0, <1>2, <2>1, <2>2 DEF Get, NeedToRemove, Earlier, TypeOK, SeenInv
  <1>3. ASSUME NEW p \in Processes, SyncPods(p) PROVE SeenInv'
    BY <1>0, <1>3 DEF SyncPods, Earlier, TypeOK, SeenInv
  <1>4. ASSUME NEW n \in Pods, Environment(n) PROVE SeenInv'
    <2>1. /\ UNCHANGED <<podCache, current>>
          /\ \A m \in Pods : Earlier(pod[m], pod'[m])
      BY <1>4, PodMoves
    <2>2. \A m \in Pods : pod'[m].use \in Nat
      BY <1>4, EnvironmentType DEF TypeOK, PodStates
    <2>. QED BY <1>0, <2>1, <2>2 DEF Earlier, SeenInv
  <1>5. CASE UNCHANGED vars
    BY <1>5 DEF vars, SeenInv
  <1>. QED BY <1>1, <1>2, <1>3, <1>4, <1>5 DEF Next, ValidateACRs

LEMMA Inductive == Spec => []IInv
  <1>1. Init => IInv
    BY InitType, InitSeen DEF IInv
  <1>2. IInv /\ [Next]_vars => IInv'
    BY NextType, SeenStep DEF IInv
  <1>. QED BY <1>1, <1>2, PTL DEF Spec

\* The one step that takes a reservation away, and what it goes by.
LEMMA DeleteStep ==
  ASSUME IInv, [Next]_vars, NEW p \in Processes, NEW n \in Pods,
         current[p].name = n, current'[p] = Nothing, Informed(p),
         pod[n] = [use |-> acr[n], phase |-> "pending"]
  PROVE  acr'[n] = acr[n]
  <1>1. current[p] # Nothing
    BY Bounds DEF Nothing
  <1>2. current[p].seen >= pod[n].use /\ pod[n].phase = "pending"
    BY DEF Informed
  <1>3. current[p].seen <= pod[n].use /\ (current[p].seen = pod[n].use => pod[n].phase # "pending")
    BY <1>1 DEF IInv, SeenInv
  <1>4. current[p].seen \in Nat /\ pod[n].use \in Nat
    BY <1>1 DEF IInv, TypeOK, Targets, PodStates
  <1>. QED BY <1>2, <1>3, <1>4

\* A pod that waits to be scheduled does not lose its reservation to a process that knows
\* of it: whoever has decided to delete has seen the pod in a later phase or its name free.
THEOREM Kept == Spec => PendingKept
  <1>1. IInv /\ [Next]_vars =>
          [\A p \in Processes, n \in Pods :
             (/\ current[p].name = n /\ current'[p] = Nothing /\ Informed(p)
              /\ pod[n] = [use |-> acr[n], phase |-> "pending"])
               => acr'[n] = acr[n]]_vars
    BY DeleteStep
  <1>. QED BY <1>1, Inductive, PTL DEF Spec, PendingKept

-----------------------------------------------------------------------------
\* A round ends

\* The requests process p has left at most: a Get and a Delete for each reservation of its
\* list, and the Delete it has decided on.
Left(p) == 2 * Cardinality(items[p]) + (IF current[p] = Nothing THEN 0 ELSE 1)

\* A round has no more reservations than there are names, the one about to be deleted
\* included: it has each name once.
LEMMA ItemsSize ==
  ASSUME TypeOK, IsFiniteSet(Pods), NEW p \in Processes
  PROVE  /\ IsFiniteSet(items[p]) /\ Cardinality(items[p]) \in Nat /\ Cardinality(Pods) \in Nat
         /\ Cardinality(items[p]) <= Cardinality(Pods)
         /\ current[p] # Nothing => Cardinality(items[p]) <= Cardinality(Pods) - 1
  <1>. DEFINE names == Pods \ {current[p].name}
              f == [i \in items[p] |-> i[1]]
  <1>1. items[p] \subseteq Pods \X Uses
    BY DEF TypeOK
  <1>2. \A i \in items[p] : i[1] \in names
    BY <1>1 DEF TypeOK
  <1>3. \A i, j \in items[p] : i[1] = j[1] => i = j
    BY DEF TypeOK
  <1>4. f \in Injection(items[p], names)
    BY <1>2, <1>3 DEF Injection, IsInjective
  <1>5. /\ IsFiniteSet(names)
        /\ Cardinality(names) = IF current[p].name \in Pods THEN Cardinality(Pods) - 1
                                                            ELSE Cardinality(Pods)
    BY FS_RemoveElement
  <1>. HIDE DEF names, f
  <1>6. IsFiniteSet(items[p]) /\ Cardinality(items[p]) <= Cardinality(names)
    BY <1>4, <1>5, FS_Injection
  <1>7. Cardinality(items[p]) \in Nat /\ Cardinality(Pods) \in Nat
    BY <1>6, FS_CardinalityType
  <1>8. current[p] # Nothing => current[p].name \in Pods
    BY DEF TypeOK, Targets
  <1>. QED BY <1>5, <1>6, <1>7, <1>8

LEMMA LeftRange ==
  ASSUME TypeOK, IsFiniteSet(Pods), NEW p \in Processes
  PROVE  /\ Left(p) \in 0 .. 2 * Cardinality(Pods)
         /\ Left(p) = 0 <=> items[p] = {} /\ current[p] = Nothing
  <1>1. Cardinality(items[p]) = 0 <=> items[p] = {}
    BY ItemsSize, FS_EmptySet
  <1>. QED BY <1>1, ItemsSize DEF Left

\* What a step of a process in a round makes of its list and its decision.
Onward(p) ==
  \/ current[p] = Nothing /\ \E i \in items[p] : items'[p] = items[p] \ {i}
  \/ items'[p] = items[p] /\ current[p] # Nothing /\ current'[p] = Nothing
  \/ items'[p] = {} /\ current'[p] = Nothing

LEMMA ProcessOnward ==
  ASSUME TypeOK, NEW p \in Processes, items[p] # {} \/ current[p] # Nothing,
         ValidateACRs(p) \/ Trouble(p)
  PROVE  Onward(p)
  <1>1. CASE Delete(p) \/ DeleteFails(p) \/ Expire(p)
    BY <1>1 DEF Delete, DeleteFails, Expire, Onward, TypeOK
  <1>2. ASSUME NEW i \in items[p], Get(p, i) \/ GetFails(p, i) PROVE Onward(p)
    BY <1>2 DEF Get, GetFails, ItemsLeft, Onward, TypeOK
  <1>. QED BY <1>1, <1>2 DEF ValidateACRs, Trouble, List

LEMMA OnwardLess ==
  ASSUME TypeOK, IsFiniteSet(Pods), NEW p \in Processes, items[p] # {} \/ current[p] # Nothing,
         Onward(p)
  PROVE  Left(p)' <= Left(p) /\ Left(p)' < Left(p)
  <1>0. Cardinality(items[p]) \in Nat /\ (items[p] # {} => Cardinality(items[p]) > 0)
    BY ItemsSize, FS_EmptySet
  <1>1. ASSUME current[p] = Nothing, NEW i \in items[p], items'[p] = items[p] \ {i}
        PROVE  Left(p)' <= Left(p) /\ Left(p)' < Left(p)
    <2>1. Cardinality(items'[p]) = Cardinality(items[p]) - 1
      BY <1>1, ItemsSize, FS_RemoveElement
    <2>. QED BY <1>0, <1>1, <2>1 DEF Left
  <1>2. CASE items'[p] = items[p] /\ current[p] # Nothing /\ current'[p] = Nothing
    BY <1>0, <1>2 DEF Left
  <1>3. CASE items'[p] = {} /\ current'[p] = Nothing
    <2>1. Cardinality(items'[p]) = 0
      BY <1>3, FS_EmptySet
    <2>. QED BY <1>0, <1>3, <2>1 DEF Left
  <1>. QED BY <1>1, <1>2, <1>3 DEF Onward

\* What nobody but p does changes nothing of its round.
LEMMA OthersLeaveRound ==
  ASSUME TypeOK, NEW p \in Processes, [Next]_vars, ~(ValidateACRs(p) \/ Trouble(p))
  PROVE  items'[p] = items[p] /\ current'[p] = current[p]
  <1>. USE DEF cluster, caches, worker
  <1>1. ASSUME NEW q \in Processes, q # p, ValidateACRs(q) \/ Trouble(q)
        PROVE  items'[p] = items[p] /\ current'[p] = current[p]
    BY <1>1 DEF ValidateACRs, List, Get, ItemsLeft, Delete, Trouble, GetFails, AfterError,
                DeleteFails, Expire, TypeOK
  <1>2. ASSUME NEW q \in Processes, SyncPods(q) \/ SyncAcrs(q)
        PROVE  items'[p] = items[p] /\ current'[p] = current[p]
    BY <1>2 DEF SyncPods, SyncAcrs
  <1>3. ASSUME NEW n \in Pods, Environment(n)
        PROVE  items'[p] = items[p] /\ current'[p] = current[p]
    BY <1>3 DEF Environment, CreatePod, StartPod, EndPod, RemovePod, Becomes, Reserve
  <1>. QED BY <1>1, <1>2, <1>3 DEF Next, vars

\* A round of validateACRs ends after two requests for each name at most, whatever is
\* reserved meanwhile and however its requests are answered: each step of the process
\* leaves it fewer, and nobody else's step changes what it has left.
THEOREM Ends ==
  ASSUME IsFiniteSet(Pods)
  PROVE  Spec =>
           /\ [](\A p \in Processes :
                   /\ Left(p) \in 0 .. 2 * Cardinality(Pods)
                   /\ Left(p) = 0 <=> items[p] = {} /\ current[p] = Nothing)
           /\ [][\A p \in Processes :
                   items[p] # {} \/ current[p] # Nothing =>
                     /\ Left(p)' <= Left(p)
                     /\ ValidateACRs(p) \/ Trouble(p) => Left(p)' < Left(p)]_vars
  <1>1. ASSUME TypeOK, [Next]_vars, NEW p \in Processes, items[p] # {} \/ current[p] # Nothing
        PROVE  Left(p)' <= Left(p) /\ (ValidateACRs(p) \/ Trouble(p) => Left(p)' < Left(p))
    <2>1. CASE ValidateACRs(p) \/ Trouble(p)
      BY <1>1, <2>1, ProcessOnward, OnwardLess
    <2>2. CASE ~(ValidateACRs(p) \/ Trouble(p))
      <3>1. Left(p)' = Left(p)
        BY <1>1, <2>2, OthersLeaveRound DEF Left
      <3>. QED BY <1>1, <2>2, <3>1, LeftRange
    <2>. QED BY <2>1, <2>2
  <1>2. TypeOK => \A p \in Processes :
                    /\ Left(p) \in 0 .. 2 * Cardinality(Pods)
                    /\ Left(p) = 0 <=> items[p] = {} /\ current[p] = Nothing
    BY LeftRange
  <1>3. TypeOK /\ [Next]_vars =>
          [\A p \in Processes :
             items[p] # {} \/ current[p] # Nothing =>
               /\ Left(p)' <= Left(p)
               /\ ValidateACRs(p) \/ Trouble(p) => Left(p)' < Left(p)]_vars
    BY <1>1
  <1>. QED BY <1>2, <1>3, TypeCorrect, PTL DEF Spec
===============================================================================
