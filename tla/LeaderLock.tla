----------------------------- MODULE LeaderLock -----------------------------
(***************************************************************************)
(* What leader election promises to `ControllerBuilder::run`: a lock that  *)
(* is taken in two stages.  A store records the replica the lock is        *)
(* granted to; that replica enters later, and until it has left nobody     *)
(* else is granted the lock.  Nothing is said of time, of the Lease object *)
(* or of the requests that carry the grant.                                *)
(***************************************************************************)
CONSTANTS Replica, NoReplica

VARIABLES
  owners,   \* the replicas whose reconcile loop runs
  granted   \* the replica the store names as the holder

vars == <<owners, granted>>

Init ==
  /\ owners = {}
  /\ granted = NoReplica

\* The store names another holder: not while a replica other than r is inside.
Grant(r) ==
  /\ owners \subseteq {r}
  /\ granted' = r
  /\ UNCHANGED owners

\* The named replica starts its reconcile loop.
Enter(r) ==
  /\ owners = {}
  /\ granted = r
  /\ owners' = {r}
  /\ UNCHANGED granted

\* It stops, or its process dies.
Leave(r) ==
  /\ owners = {r}
  /\ owners' = {}
  /\ UNCHANGED granted

Next == \E r \in Replica : Grant(r) \/ Enter(r) \/ Leave(r)

Spec == Init /\ [][Next]_vars
=============================================================================
