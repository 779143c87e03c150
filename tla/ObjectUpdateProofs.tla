-------------------------- MODULE ObjectUpdateProofs --------------------------
(***************************************************************************)
(* TypeOK, WritesAtomic and AppliedAtRest of ObjectUpdate, for any number  *)
(* of processes, versions of the CR, interferences and faults.             *)
(***************************************************************************)
EXTENDS ObjectUpdate, TLAPS

\* As long as the API server would take a process' write, what the process has read is
\* what is stored, and is still to be changed.
CopyInv ==
  \A p \in Processes :
    pc[p] = "update" =>
      /\ copy[p].present
      /\ p \in current => object = copy[p] /\ Changed(object, seen[p])

IInv == TypeOK /\ CopyInv

-----------------------------------------------------------------------------
\* The objects that are stored

LEMMA Nothing == NoCR \in CRs /\ NoObject \in Objects
  BY UpdateAssumption DEF NoCR, NoObject, CRs, Objects

LEMMA NewObject ==
  ASSUME TypeOK, NEW c \in CRs
  PROVE  New(c) \in Objects /\ New(c).present
  BY UpdateAssumption DEF TypeOK, New, Objects, CRs, NoCR

LEMMA ReplacedObject ==
  ASSUME TypeOK, NEW o \in Objects, NEW c \in CRs, o.present
  PROVE  Replaced(o, c) \in Objects /\ Replaced(o, c).present
  <1>1. c.spec \in 0 .. MaxSpec
    BY UpdateAssumption DEF CRs, NoCR
  <1>2. CASE kind = "configmap"
    BY <1>1, <1>2 DEF Replaced, Objects
  <1>3. CASE kind # "configmap"
    BY <1>1, <1>3 DEF Replaced, New, Objects
  <1>. QED BY <1>2, <1>3

\* What others make of an object is one.
LEMMA InterferedObject ==
  ASSUME NEW o \in Objects,
         NEW new \in {o, NoObject, [o EXCEPT !.content = 0], [o EXCEPT !.rest = FALSE],
                      [o EXCEPT !.replicas = FALSE]},
         o.present
  PROVE  new \in Objects /\ (~new.present => new = NoObject)
  <1>1. NoObject \in Objects
    BY Nothing
  <1>2. [o EXCEPT !.content = 0] \in Objects /\ [o EXCEPT !.content = 0].present
    BY UpdateAssumption DEF Objects
  <1>3. [o EXCEPT !.rest = FALSE] \in Objects /\ [o EXCEPT !.rest = FALSE].present
    BY DEF Objects
  <1>4. [o EXCEPT !.replicas = FALSE] \in Objects /\ [o EXCEPT !.replicas = FALSE].present
    BY DEF Objects
  <1>. QED BY <1>1, <1>2, <1>3, <1>4

-----------------------------------------------------------------------------
LEMMA InitHolds == Init => IInv
  <1>. SUFFICES ASSUME Init PROVE IInv
    OBVIOUS
  <1>1. TypeOK
    <2>1. object \in Objects /\ (~object.present => object = NoObject)
      BY Nothing DEF Init
    <2>2. 0 \in 0 .. MaxCreations /\ 0 \in 0 .. MaxOthers /\ 0 \in 0 .. MaxFaults
      BY UpdateAssumption
    <2>. QED BY <2>1, <2>2, Nothing DEF Init, TypeOK
  <1>2. CopyInv
    BY DEF Init, CopyInv
  <1>. QED BY <1>1, <1>2 DEF IInv

\* Every process keeps to the types.
LEMMA ProcessType ==
  ASSUME IInv, NEW p \in Processes, UpdateObject(p) \/ Fail(p) \/ Restart(p) \/ Sync(p)
  PROVE  TypeOK'
  <1>. USE DEF IInv
  <1>0. seen[p] \in CRs /\ copy[p] \in Objects /\ object \in Objects /\ cache[p] \in CRs
    BY DEF TypeOK
  <1>1. CASE Take(p)
    BY <1>1, <1>0, Nothing DEF Take, Go, TypeOK, bounds, NoCR, CRs
  <1>2. CASE Read(p)
    BY <1>2, <1>0, Nothing DEF Read, Return, Go, TypeOK, bounds
  <1>3. CASE Create(p)
    <2>1. New(seen[p]) \in Objects /\ New(seen[p]).present
      BY <1>0, NewObject
    <2>2. /\ object' \in Objects /\ (~object'.present => object' = NoObject)
          /\ current' \subseteq Processes /\ queued' \subseteq Processes
      BY <1>3, <2>1 DEF Create, Store, Refused, Notified, TypeOK
    <2>. QED BY <1>3, <2>2, Nothing DEF Create, Return, Go, TypeOK, bounds
  <1>4. CASE Update(p)
    <2>1. copy[p].present
      BY <1>4 DEF Update, CopyInv
    <2>2. Replaced(copy[p], seen[p]) \in Objects /\ Replaced(copy[p], seen[p]).present
      BY <1>0, <2>1, ReplacedObject
    <2>3. /\ object' \in Objects /\ (~object'.present => object' = NoObject)
          /\ current' \subseteq Processes /\ queued' \subseteq Processes
      BY <1>4, <2>2 DEF Update, Store, Refused, Notified, TypeOK
    <2>. QED BY <1>4, <2>3, Nothing DEF Update, Return, Go, TypeOK, bounds
  <1>5. CASE Fail(p)
    BY <1>5, Nothing, UpdateAssumption DEF Fail, Fault, Return, Go, TypeOK
  <1>6. CASE Restart(p)
    BY <1>6, Nothing, UpdateAssumption DEF Restart, Fault, Return, Go, TypeOK
  <1>7. CASE Sync(p)
    BY <1>7 DEF Sync, TypeOK, bounds
  <1>. QED BY <1>1, <1>2, <1>3, <1>4, <1>5, <1>6, <1>7 DEF UpdateObject

\* So do users, the garbage collector and Kubernetes.
LEMMA OthersType ==
  ASSUME IInv, CreateCR \/ EditCR \/ DeleteCR \/ CollectGarbage \/ Interfere
  PROVE  TypeOK'
  <1>. USE DEF IInv
  <1>1. CASE CreateCR
    BY <1>1, UpdateAssumption DEF CreateCR, TypeOK, worker, NoCR, CRs
  <1>2. CASE EditCR
    BY <1>2, UpdateAssumption DEF EditCR, TypeOK, worker, bounds, CRs
  <1>3. CASE DeleteCR
    BY <1>3, Nothing DEF DeleteCR, TypeOK, worker, bounds
  <1>4. CASE CollectGarbage
    BY <1>4, Nothing DEF CollectGarbage, Store, Notified, TypeOK, bounds
  <1>5. CASE Interfere
    <2>1. PICK new \in {object, NoObject, [object EXCEPT !.content = 0],
                        [object EXCEPT !.rest = FALSE], [object EXCEPT !.replicas = FALSE]} :
            Store(new) /\ unseen' = (unseen \/ (~owned /\ new # object))
      BY <1>5 DEF Interfere
    <2>2. object' \in Objects /\ (~object'.present => object' = NoObject)
      <3>1. object' = new /\ object \in Objects /\ object.present
        BY <1>5, <2>1 DEF Interfere, Store, TypeOK
      <3>. QED BY <2>1, <3>1, InterferedObject
    <2>. QED
      BY <1>5, <2>1, <2>2, UpdateAssumption DEF Interfere, Store, Notified, TypeOK
  <1>. QED BY <1>1, <1>2, <1>3, <1>4, <1>5

\* A change of the object leaves no process with the latest version; a process changes
\* what it has in hand alone.
LEMMA CopyStep == ASSUME IInv, [Next]_vars PROVE CopyInv'
  <1>. USE DEF IInv
  <1>. SUFFICES ASSUME NEW q \in Processes, pc'[q] = "update"
                PROVE  /\ copy'[q].present
                       /\ q \in current' => object' = copy'[q] /\ Changed(object, seen[q])'
    BY DEF CopyInv
  <1>1. ASSUME NEW p \in Processes, Take(p) PROVE CopyInv'
    BY <1>1 DEF Take, Go, TypeOK, CopyInv, Changed
  <1>2. ASSUME NEW p \in Processes, Read(p) PROVE CopyInv'
    BY <1>2 DEF Read, Return, Go, TypeOK, CopyInv, Changed
  <1>3. ASSUME NEW p \in Processes, Create(p) PROVE CopyInv'
    BY <1>3 DEF Create, Store, Refused, Return, Go, TypeOK, CopyInv, Changed
  <1>4. ASSUME NEW p \in Processes, Update(p) PROVE CopyInv'
    BY <1>4 DEF Update, Store, Refused, Return, Go, TypeOK, CopyInv, Changed
  <1>5. ASSUME NEW p \in Processes, Fail(p) \/ Restart(p) PROVE CopyInv'
    BY <1>5 DEF Fail, Restart, Return, Go, TypeOK, CopyInv, Changed
  <1>6. ASSUME NEW p \in Processes, Sync(p) PROVE CopyInv'
    BY <1>6 DEF Sync, CopyInv, Changed
  <1>7. CASE CreateCR \/ EditCR \/ DeleteCR
    BY <1>7 DEF CreateCR, EditCR, DeleteCR, worker, CopyInv, Changed
  <1>8. CASE CollectGarbage \/ Interfere
    BY <1>8 DEF CollectGarbage, Interfere, Store, CopyInv
  <1>9. CASE UNCHANGED vars
    BY <1>9 DEF vars, worker, CopyInv, Changed
  <1>. QED
    BY <1>1, <1>2, <1>3, <1>4, <1>5, <1>6, <1>7, <1>8, <1>9 DEF Next, UpdateObject, CopyInv

LEMMA StepHolds == IInv /\ [Next]_vars => IInv'
  <1>. SUFFICES ASSUME IInv, [Next]_vars PROVE IInv'
    OBVIOUS
  <1>1. CASE UNCHANGED vars
    <2>1. TypeOK'
      BY <1>1 DEF IInv, TypeOK, vars, worker, bounds
    <2>. QED BY <2>1, CopyStep DEF IInv
  <1>2. CASE Next
    <2>1. TypeOK'
      BY <1>2, ProcessType, OthersType DEF Next
    <2>. QED BY <2>1, CopyStep DEF IInv
  <1>. QED BY <1>1, <1>2

LEMMA Inductive == Spec => []IInv
  BY InitHolds, StepHolds, PTL DEF Spec

\* The types of the variables. That a process that writes goes by a CR, and that nothing
\* is left of an object but its absence, is part of them.
THEOREM TypeCorrect == Spec => []TypeOK
  BY Inductive, PTL DEF IInv

-----------------------------------------------------------------------------
\* A process that changes the object changes it as it is.
LEMMA WriteOfProcess ==
  ASSUME IInv, NEW p \in Processes, UpdateObject(p), object' # object
  PROVE  pc[p] # "idle" /\ object' = Applied(object, seen[p])
  <1>1. CASE Take(p) \/ Read(p)
    BY <1>1 DEF Take, Read
  <1>2. CASE Create(p)
    BY <1>2 DEF Create, Store, Refused, Applied
  <1>3. CASE Update(p)
    <2>1. pc[p] = "update" /\ p \in current /\ object' = Replaced(copy[p], seen[p])
      BY <1>3 DEF Update, Store, Refused, Latest
    <2>2. copy[p].present /\ object = copy[p] /\ Changed(object, seen[p])
      BY <2>1 DEF IInv, CopyInv
    <2>. QED BY <2>1, <2>2 DEF Applied
  <1>. QED BY <1>1, <1>2, <1>3 DEF UpdateObject

LEMMA WriteStep ==
  ASSUME IInv, Next, object' # object
  PROVE  \/ others' = others + 1 \/ object'.present = FALSE
         \/ \E p \in Processes : pc[p] # "idle" /\ object' = Applied(object, seen[p])
  <1>1. ASSUME NEW p \in Processes, UpdateObject(p)
        PROVE  pc[p] # "idle" /\ object' = Applied(object, seen[p])
    BY <1>1, WriteOfProcess
  <1>2. ASSUME NEW p \in Processes, Fail(p) \/ Restart(p) \/ Sync(p)
        PROVE  FALSE
    BY <1>2 DEF Fail, Restart, Sync
  <1>3. CASE CreateCR \/ EditCR \/ DeleteCR
    BY <1>3 DEF CreateCR, EditCR, DeleteCR
  <1>4. CASE CollectGarbage
    BY <1>4 DEF CollectGarbage, Store, NoObject
  <1>5. CASE Interfere
    BY <1>5 DEF Interfere
  <1>. QED BY <1>1, <1>2, <1>3, <1>4, <1>5 DEF Next

\* Read, comparison and write are as good as one step, however many processes there are
\* and whatever others do in between: DeploymentReconciler may take them for one.
THEOREM Atomic == Spec => WritesAtomic
  <1>1. IInv /\ [Next]_vars =>
          [object' # object =>
             \/ others' = others + 1 \/ object'.present = FALSE
             \/ \E p \in Processes : pc[p] # "idle" /\ object' = Applied(object, seen[p])]_vars
    BY WriteStep DEF vars
  <1>. QED BY <1>1, Inductive, PTL DEF Spec, WritesAtomic

-----------------------------------------------------------------------------
\* What rests has been applied

\* A process that works and is not queued goes by the CR its cache has: what came in
\* since would have queued it. An object's owner tells whether its changes are events.
RestInv ==
  /\ \A p \in Processes : pc[p] # "idle" /\ p \notin queued => seen[p] = cache[p]
  /\ object.present => (owned <=> object.owner # 0)
  /\ \A p \in Processes : copy[p].present => (owned <=> copy[p].owner # 0)

\* A cache has the CR as it is or was.
PastInv ==
  /\ cr.uid <= creations
  /\ \A p \in Processes :
       /\ cache[p].uid <= creations
       /\ cache[p].uid = cr.uid => cache[p].spec <= cr.spec

AppliedInv == IInv /\ RestInv /\ PastInv /\ AppliedAtRest

LEMMA InitApplied == Init => AppliedInv
  <1>1. Init => RestInv /\ PastInv /\ AppliedAtRest
    BY DEF Init, RestInv, PastInv, AppliedAtRest, NoObject, NoCR
  <1>. QED BY <1>1, InitHolds DEF AppliedInv

\* What is stored has an owner exactly if it is to have one.
LEMMA OwnerOfStored ==
  ASSUME TypeOK, NEW c \in CRs, c.uid # 0, NEW o, o.present => (owned <=> o.owner # 0)
  PROVE  /\ owned <=> New(c).owner # 0
         /\ o.present => (owned <=> Replaced(o, c).owner # 0)
  BY DEF TypeOK, New, Replaced

LEMMA RestStep == ASSUME IInv, RestInv, [Next]_vars PROVE RestInv'
  <1>. USE DEF IInv
  <1>1. ASSUME NEW p \in Processes, Take(p) PROVE RestInv'
    BY <1>1 DEF Take, Go, TypeOK, RestInv, bounds
  <1>2. ASSUME NEW p \in Processes, Read(p) PROVE RestInv'
    BY <1>2 DEF Read, Return, Go, TypeOK, RestInv, bounds, NoObject
  <1>3. ASSUME NEW p \in Processes, Create(p) PROVE RestInv'
    BY <1>3 DEF Create, New, Store, Refused, Return, Go, TypeOK, RestInv, bounds, NoObject
  <1>4. ASSUME NEW p \in Processes, Update(p) PROVE RestInv'
    <2>1. seen[p] \in CRs /\ seen[p].uid # 0 /\ copy[p].present
      BY <1>4 DEF Update, TypeOK, CopyInv
    <2>2. owned <=> Replaced(copy[p], seen[p]).owner # 0
      BY <2>1, OwnerOfStored DEF RestInv
    <2>3. object'.present => (owned <=> object'.owner # 0)
      BY <1>4, <2>2 DEF Update, Store, Refused, RestInv
    <2>. QED
      BY <1>4, <2>3 DEF Update, Refused, Return, Go, TypeOK, RestInv, bounds, NoObject
  <1>5. ASSUME NEW p \in Processes, Fail(p) \/ Restart(p) PROVE RestInv'
    BY <1>5 DEF Fail, Restart, Return, Go, TypeOK, RestInv, NoObject
  <1>6. ASSUME NEW p \in Processes, Sync(p) PROVE RestInv'
    BY <1>6 DEF Sync, TypeOK, RestInv
  <1>7. CASE CreateCR \/ EditCR \/ DeleteCR
    BY <1>7 DEF CreateCR, EditCR, DeleteCR, worker, RestInv
  <1>8. CASE CollectGarbage \/ Interfere
    BY <1>8 DEF CollectGarbage, Interfere, Store, TypeOK, RestInv, NoObject, Objects
  <1>9. CASE UNCHANGED vars
    BY <1>9 DEF vars, worker, RestInv
  <1>. QED
    BY <1>1, <1>2, <1>3, <1>4, <1>5, <1>6, <1>7, <1>8, <1>9 DEF Next, UpdateObject

LEMMA PastStep == ASSUME IInv, PastInv, [Next]_vars PROVE PastInv'
  <1>. USE DEF IInv
  <1>0. /\ creations \in Nat /\ cr.uid \in Nat /\ cr.spec \in Nat
        /\ \A p \in Processes : cache[p].uid \in Nat /\ cache[p].spec \in Nat
    BY DEF TypeOK, CRs, NoCR
  <1>1. ASSUME NEW p \in Processes, UpdateObject(p) \/ Fail(p) PROVE PastInv'
    BY <1>1 DEF UpdateObject, Take, Read, Create, Update, Fail, Fault, bounds, PastInv
  <1>2. ASSUME NEW p \in Processes, Restart(p) \/ Sync(p) PROVE PastInv'
    BY <1>0, <1>2 DEF Restart, Sync, Fault, bounds, TypeOK, PastInv
  <1>3. CASE CreateCR
    BY <1>0, <1>3 DEF CreateCR, PastInv
  <1>4. CASE EditCR
    BY <1>0, <1>4 DEF EditCR, bounds, PastInv, TypeOK, CRs
  <1>5. CASE DeleteCR
    <2>1. \A p \in Processes : cache[p].uid = 0 => cache[p].spec = 0
      BY DEF TypeOK, CRs, NoCR
    <2>. QED BY <1>0, <1>5, <2>1 DEF DeleteCR, bounds, PastInv, NoCR
  <1>6. CASE CollectGarbage \/ Interfere \/ UNCHANGED vars
    BY <1>6 DEF CollectGarbage, Interfere, vars, bounds, PastInv
  <1>. QED BY <1>1, <1>2, <1>3, <1>4, <1>5, <1>6 DEF Next

\* What a process writes is as it expects it.
LEMMA WrittenAsExpected ==
  ASSUME TypeOK, NEW c \in CRs, NEW o
  PROVE  /\ New(c).present /\ New(c).content = c.spec /\ New(c).replicas
         /\ kind # "configmap" => Replaced(o, c) = [New(c) EXCEPT !.owner = o.owner]
         /\ kind = "configmap" => Replaced(o, c) = [o EXCEPT !.content = c.spec]
  BY DEF New, Replaced

\* A process that comes to rest has found the object as its copy of the CR has it, or has
\* made it so; whoever made it otherwise is not at rest.
LEMMA ProcessRests ==
  ASSUME IInv, RestInv, NEW p \in Processes, UpdateObject(p) \/ Fail(p) \/ Restart(p) \/ Sync(p),
         ~Quiescent, Quiescent', cr # NoCR
  PROVE  AsExpected'
  <1>. USE DEF IInv
  <1>0. cr' = cr /\ kind' = kind /\ owned' = owned /\ seen[p] \in CRs
    BY DEF UpdateObject, Take, Read, Create, Update, Fail, Restart, Sync, TypeOK
  <1>1. p \notin queued' /\ pc'[p] = "idle" /\ cache'[p] = cr
    BY <1>0 DEF Quiescent
  <1>2. CASE Take(p)
    BY <1>1, <1>2 DEF Take, Go, TypeOK
  <1>3. CASE Read(p)
    <2>1. object.present /\ ~Changed(object, seen[p])
      BY <1>1, <1>3 DEF Read, Go, TypeOK
    <2>2. p \notin queued /\ pc[p] # "idle" /\ cache[p] = cr /\ object' = object
      BY <1>1, <1>3 DEF Read
    <2>3. seen[p] = cr
      BY <2>2 DEF RestInv
    <2>. QED BY <1>0, <2>1, <2>2, <2>3 DEF AsExpected, Changed
  <1>4. CASE Create(p)
    <2>1. ~object.present /\ object' = New(seen[p])
      BY <1>1, <1>4 DEF Create, Refused, Store
    <2>2. p \notin queued /\ pc[p] # "idle" /\ cache[p] = cr
      BY <1>1, <1>4, <2>1 DEF Create
    <2>3. seen[p] = cr
      BY <2>2 DEF RestInv
    <2>. QED BY <1>0, <2>1, <2>3, WrittenAsExpected DEF AsExpected
  <1>5. CASE Update(p)
    <2>1. object' = Replaced(copy[p], seen[p]) /\ copy[p].present
      BY <1>1, <1>5 DEF Update, Refused, Store, CopyInv
    <2>2. p \notin queued /\ pc[p] # "idle" /\ cache[p] = cr
      BY <1>1, <1>5 DEF Update, Refused
    <2>3. seen[p] = cr
      BY <2>2 DEF RestInv
    <2>4. copy[p] \in Objects
      BY DEF TypeOK
    <2>5. CASE kind = "configmap"
      BY <1>0, <2>1, <2>3, <2>4, <2>5 DEF AsExpected, Replaced, Objects
    <2>6. CASE kind # "configmap"
      BY <1>0, <2>1, <2>3, <2>6 DEF AsExpected, Replaced, New
    <2>. QED BY <2>5, <2>6
  <1>6. CASE Fail(p) \/ Restart(p) \/ Sync(p)
    BY <1>0, <1>1, <1>6 DEF Fail, Restart, Sync
  <1>. QED BY <1>2, <1>3, <1>4, <1>5, <1>6 DEF UpdateObject

LEMMA AppliedStep == AppliedInv /\ [Next]_vars => AppliedInv'
  <1>. SUFFICES ASSUME IInv, RestInv, PastInv, AppliedAtRest, [Next]_vars,
                       Quiescent', (cr # NoCR)', ~unseen'
                PROVE  AsExpected'
    BY StepHolds, RestStep, PastStep DEF AppliedInv, AppliedAtRest
  <1>1. ASSUME NEW p \in Processes, UpdateObject(p) \/ Fail(p) \/ Restart(p) \/ Sync(p)
        PROVE  AsExpected'
    <2>1. cr' = cr /\ kind' = kind /\ unseen' = unseen
      BY <1>1 DEF UpdateObject, Take, Read, Create, Update, Fail, Restart, Sync, Fault, bounds
    <2>2. cr # NoCR /\ ~unseen
      BY <2>1 DEF NoCR
    <2>3. CASE ~Quiescent
      BY <1>1, <2>2, <2>3, ProcessRests
    <2>4. CASE Quiescent
      <3>1. AsExpected
        BY <2>2, <2>4 DEF AppliedAtRest
      <3>2. object' = object
        BY <1>1, <2>1, <2>4
        DEF Quiescent, UpdateObject, Take, Read, Create, Update, Fail, Restart, Sync
      <3>. QED BY <2>1, <3>1, <3>2 DEF AsExpected
    <2>. QED BY <2>3, <2>4
  <1>2. CASE CreateCR \/ EditCR \/ DeleteCR
    <2>1. PICK p \in Processes : TRUE
      BY UpdateAssumption
    <2>2. cache[p] = cr'
      BY <1>2 DEF CreateCR, EditCR, DeleteCR, Quiescent
    <2>3. CASE CreateCR
      BY <2>2, <2>3 DEF CreateCR, PastInv, IInv, TypeOK
    <2>4. CASE EditCR
      BY <2>2, <2>4 DEF EditCR, PastInv, IInv, TypeOK, CRs
    <2>. QED BY <1>2, <2>3, <2>4 DEF DeleteCR
  <1>3. CASE CollectGarbage
    BY <1>3, UpdateAssumption DEF CollectGarbage, Notified, Quiescent
  <1>4. CASE Interfere
    <2>1. object.present /\ object' # object => owned \/ unseen'
      <3>1. PICK new : Store(new) /\ unseen' = (unseen \/ (~owned /\ new # object))
        BY <1>4, Zenon DEF Interfere
      <3>. QED BY <3>1, Zenon DEF Store
    <2>2. ~owned
      BY <1>4, UpdateAssumption DEF Interfere, Notified, Quiescent, RestInv
    <2>3. object' = object /\ queued \subseteq queued'
      BY <1>4, <2>1, <2>2 DEF Interfere
    <2>4. Quiescent /\ ~unseen /\ cr # NoCR
      BY <1>4, <2>3 DEF Interfere, Quiescent, NoCR
    <2>. QED BY <1>4, <2>3, <2>4 DEF Interfere, AppliedAtRest, AsExpected
  <1>5. CASE UNCHANGED vars
    BY <1>5 DEF vars, worker, bounds, Quiescent, AppliedAtRest, AsExpected
  <1>. QED BY <1>1, <1>2, <1>3, <1>4, <1>5 DEF Next

\* When all processes rest, the object is as the CR has it, however many of them wrote
\* it, with whatever copies of the CR.
THEOREM Applies == Spec => []AppliedAtRest
  BY InitApplied, AppliedStep, PTL DEF Spec, AppliedInv
===============================================================================
