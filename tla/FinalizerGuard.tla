---------------------------- MODULE FinalizerGuard ----------------------------
(***************************************************************************)
(* What the operator's finalizer promises about the CR and the cluster.    *)
(* What is done to the cluster is done on behalf of a CR that is guarded;  *)
(* a guarded CR stays, deleted or not, until the cluster is clean again;   *)
(* a CR that is being deleted is not guarded anew. Nothing is said of how  *)
(* the cluster is changed, of copies, requests, failures or restarts.      *)
(***************************************************************************)
CONSTANTS
  NoOwner,    \* owner when there is no CR
  Clean       \* the cluster as it is without the operator

VARIABLES
  owner,      \* the CR
  leaving,    \* somebody has deleted it
  guarded,    \* it has the operator's finalizer
  cluster     \* what the operator has done that outlives the CR

vars == <<owner, leaving, guarded, cluster>>

Init == owner = NoOwner /\ ~leaving /\ ~guarded /\ cluster = Clean

Arrive ==
  /\ owner = NoOwner /\ owner' # NoOwner
  /\ UNCHANGED <<leaving, guarded, cluster>>

Guard ==
  /\ owner # NoOwner /\ ~leaving /\ ~guarded
  /\ guarded' = TRUE
  /\ UNCHANGED <<owner, leaving, cluster>>

Work ==
  /\ owner # NoOwner /\ guarded
  /\ UNCHANGED <<owner, leaving, guarded>>

Delete ==
  /\ owner # NoOwner /\ ~leaving
  /\ leaving' = TRUE
  /\ UNCHANGED <<owner, guarded, cluster>>

\* Deleted and not held by anybody else, the CR is gone with the guard.
Release ==
  /\ leaving /\ guarded /\ cluster = Clean
  /\ guarded' = FALSE
  /\ \/ UNCHANGED <<owner, leaving>>
     \/ owner' = NoOwner /\ leaving' = FALSE
  /\ UNCHANGED cluster

Leave ==
  /\ owner # NoOwner /\ ~guarded
  /\ owner' = NoOwner /\ leaving' = FALSE
  /\ UNCHANGED <<guarded, cluster>>

Next == Arrive \/ Guard \/ Work \/ Delete \/ Release \/ Leave
Spec == Init /\ [][Next]_vars
===============================================================================
