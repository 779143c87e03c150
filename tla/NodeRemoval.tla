------------------------------ MODULE NodeRemoval ------------------------------
(***************************************************************************)
(* What the removal of nodes promises, without the operator's requests,    *)
(* caches, labels and restarts. A node is registered, is used, and may be  *)
(* drained, leave and come back. The operator looks which nodes are        *)
(* missing; until it rests, it cleans, piece by piece, what is kept about  *)
(* nodes that have once been drained and are missing, and forgets such a   *)
(* node only when nothing is left to clean.                                *)
(***************************************************************************)
CONSTANTS Nodes, Kinds

VARIABLES
  managed,      \* nodes in the cluster that the operator manages
  drained,      \* nodes an administrator has ever drained
  missing,      \* nodes that were not managed when the operator looked
  registered,   \* nodes the driver's records name
  kept          \* what is kept about each node, by kind

vars == <<managed, drained, missing, registered, kept>>

Init ==
  /\ managed = Nodes /\ registered = Nodes /\ drained = {} /\ missing = {}
  /\ kept = [n \in Nodes |-> Kinds]

Register(n) ==
  /\ registered' = registered \cup {n}
  /\ UNCHANGED <<managed, drained, missing, kept>>

Use(n, k) ==
  /\ n \in registered
  /\ kept' = [kept EXCEPT ![n] = @ \cup {k}]
  /\ UNCHANGED <<managed, drained, missing, registered>>

Drain(n) ==
  /\ drained' = drained \cup {n}
  /\ UNCHANGED <<managed, missing, registered, kept>>

Depart(n) ==
  /\ managed' = managed \ {n}
  /\ UNCHANGED <<drained, missing, registered, kept>>

Arrive(n) ==
  /\ managed' = managed \cup {n}
  /\ UNCHANGED <<drained, missing, registered, kept>>

Look ==
  /\ missing = {} /\ missing' = Nodes \ managed
  /\ UNCHANGED <<managed, drained, registered, kept>>

Rest ==
  /\ missing' = {}
  /\ UNCHANGED <<managed, drained, registered, kept>>

Removable(n) == n \in drained /\ n \in missing

Clean(n, k) ==
  /\ Removable(n)
  /\ kept' = [kept EXCEPT ![n] = @ \ {k}]
  /\ UNCHANGED <<managed, drained, missing, registered>>

Forget(n) ==
  /\ Removable(n) /\ kept[n] = {}
  /\ registered' = registered \ {n}
  /\ UNCHANGED <<managed, drained, missing, kept>>

Next ==
  \/ Look \/ Rest
  \/ \E n \in Nodes :
       \/ Register(n) \/ Drain(n) \/ Depart(n) \/ Arrive(n) \/ Forget(n)
       \/ \E k \in Kinds : Use(n, k) \/ Clean(n, k)

Spec == Init /\ [][Next]_vars
================================================================================
