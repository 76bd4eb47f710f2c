--------------------------- MODULE LeaderElection ---------------------------
(***************************************************************************)
(* Lease-based leader election of koprs, crates/koprs/src/controller.rs:   *)
(* `try_acquire_or_renew` (one GET and at most one create/replace of a     *)
(* Kubernetes Lease), `acquire_leader_lease` (the loop of a standby),      *)
(* `renew_leader_lease_loop` (the background task of the leader) and the   *)
(* part of `ControllerBuilder::run` that starts the reconcile loop after   *)
(* the lease is won and drops it when the stop channel fires.              *)
(*                                                                         *)
(* Time is a global integer clock.  MaxLatency bounds what the code leaves *)
(* to the environment: how long after its due time a task wakes up and     *)
(* finishes one attempt, and how long the reconcile loop takes to be       *)
(* dropped after the stop signal.  Each replica reads its own wall clock,  *)
(* which is ClockOffset ahead of the global one.                           *)
(***************************************************************************)
EXTENDS Integers, FiniteSets

CONSTANTS
  Replica,        \* the pods of the operator; their lease identities differ
  NoReplica,      \* the absent holderIdentity
  LeaseDuration,  \* [Replica -> seconds], lease_duration_secs
  RenewPeriod,    \* [Replica -> seconds], renew_period
  RetryPeriod,    \* [Replica -> seconds], retry_period
  ClockOffset,    \* [Replica -> seconds], wall clock minus the global clock
  MaxSkew,        \* bound on the difference of two wall clocks
  MaxLatency,     \* bound on one attempt and on the reaction to a stop signal
  MaxTime,        \* bound of the model: the clock stops here
  MaxVersion,     \* bound of the model: from this version of the lease on no
                  \* process is started and nobody else edits the lease
  MaxAbandoned    \* bound of the model: writes given up on but still in flight

ASSUME ReplicaAssumption == NoReplica \notin Replica

ASSUME TimingAssumption ==
  /\ LeaseDuration \in [Replica -> Nat]
  /\ RenewPeriod \in [Replica -> Nat]
  /\ RetryPeriod \in [Replica -> Nat]
  /\ MaxLatency \in Nat

ASSUME ClockAssumption ==
  /\ ClockOffset \in [Replica -> Int]
  /\ MaxSkew \in Nat
  /\ \A p, q \in Replica : ClockOffset[p] - ClockOffset[q] <= MaxSkew

ASSUME BoundAssumption == MaxTime \in Nat /\ MaxVersion \in Nat /\ MaxAbandoned \in Nat

VARIABLES
  now,        \* the global clock
  lease,      \* the Lease object in the API server
  phase,      \* [Replica -> where `run` is]
  call,       \* [Replica -> where the current attempt is]
  start,      \* [Replica -> global time at which the attempt read its `now`]
  wake,       \* [Replica -> time left of the current sleep]
  due,        \* [Replica -> time left in which the current step has to end]
  errors,     \* [Replica -> consecutive_errors of the renew loop]
  pending,    \* [Replica -> the write the attempt waits for]
  reply,      \* [Replica -> the answer on its way to the replica]
  abandoned   \* writes the server may still process though nobody waits for them

vars == <<now, lease, phase, call, start, wake, due, errors, pending, reply, abandoned>>

(***************************************************************************)
(* The Lease.  version 0 is "no such object"; `renewed` tells whether      *)
(* renewTime is present; transitions is NoCount when the field is absent,  *)
(* as in a Lease made by hand.                                             *)
(***************************************************************************)
NoCount == -1

LeaseRecord ==
  [version : Nat, holder : Replica \cup {NoReplica}, renewed : BOOLEAN, renewTime : Int,
   duration : Nat, acquireTime : Int, transitions : Nat \cup {NoCount}]

EmptyLease(version) ==
  [version |-> version, holder |-> NoReplica, renewed |-> FALSE, renewTime |-> 0,
   duration |-> 0, acquireTime |-> 0, transitions |-> NoCount]

NoLease == EmptyLease(0)
BareLease == EmptyLease(1)

\* A create (base = 0) or a replace (base = the resourceVersion that was read).
Write ==
  [from : Replica, start : Nat, base : Nat, acquireTime : Int,
   transitions : Nat \cup {NoCount}]

Clock(r, t) == t + ClockOffset[r]

\* Mutants of IsExpired: a lease is free in its last instant already; the reader
\* applies its own lease_duration_secs.
IsExpiredAtOnce(l, r, t) == l.renewed => Clock(r, t) >= l.renewTime + l.duration
IsExpiredByOwnDuration(l, r, t) == l.renewed => Clock(r, t) > l.renewTime + LeaseDuration[r]

\* `is_expired`: judged by the duration in the lease, on the reader's clock.
IsExpired(l, r, t) == l.renewed => Clock(r, t) > l.renewTime + l.duration

\* The object `build_lease` makes of a write, as the server stores it.
BuildLease(w) ==
  [version |-> w.base + 1, holder |-> w.from, renewed |-> TRUE,
   renewTime |-> Clock(w.from, w.start), duration |-> LeaseDuration[w.from],
   acquireTime |-> w.acquireTime, transitions |-> w.transitions]

\* Mutant of Accepts: the write carries no resourceVersion.
AcceptsAny(w) == w.base >= 0

\* Optimistic concurrency of the API server: a create needs an absent object,
\* a replace needs the resourceVersion it carries to be the current one.
Accepts(w) == lease.version = w.base

\* Mutant of WriteFor: every renewal restarts acquireTime.
WriteForAsNew(r, t, l) ==
  [from |-> r, start |-> t, base |-> l.version, acquireTime |-> Clock(r, t),
   transitions |-> IF l.version = 0 THEN 0
                   ELSE IF l.holder # r /\ l.transitions # NoCount
                        THEN l.transitions + 1
                        ELSE l.transitions]

\* The write an attempt of r that began at t makes of the lease l it has read.
WriteFor(r, t, l) ==
  LET transitioning == l.holder # r
  IN [from |-> r, start |-> t, base |-> l.version,
      acquireTime |-> IF transitioning THEN Clock(r, t) ELSE l.acquireTime,
      transitions |-> IF l.version = 0 THEN 0
                      ELSE IF transitioning /\ l.transitions # NoCount
                           THEN l.transitions + 1
                           ELSE l.transitions]

Phases == {"down", "acquiring", "leading", "stopping"}
Calls == {"sleep", "get", "write", "replied"}
Replies == {"none", "ok", "conflict"}

\* The reconcile loop runs from the moment the lease is won until it is dropped.
Running(r) == phase[r] \in {"leading", "stopping"}

\* r has a step to finish within due[r].
Timed(r) == phase[r] # "down" /\ (Running(r) \/ call[r] # "sleep")

NoWrite(r) == [from |-> r, start |-> 0, base |-> 0, acquireTime |-> 0, transitions |-> NoCount]

-----------------------------------------------------------------------------
Init ==
  /\ now = 0
  /\ lease \in {NoLease, BareLease}
  /\ phase = [r \in Replica |-> "down"]
  /\ call = [r \in Replica |-> "sleep"]
  /\ start = [r \in Replica |-> 0]
  /\ wake = [r \in Replica |-> 0]
  /\ due = [r \in Replica |-> 0]
  /\ errors = [r \in Replica |-> 0]
  /\ pending = [r \in Replica |-> NoWrite(r)]
  /\ reply = [r \in Replica |-> "none"]
  /\ abandoned = {}

-----------------------------------------------------------------------------
(***************************************************************************)
(* What the two loops do with the result of an attempt.                    *)
(***************************************************************************)
EndAttempt(r) ==
  /\ call' = [call EXCEPT ![r] = "sleep"]
  /\ start' = [start EXCEPT ![r] = 0]
  /\ pending' = [pending EXCEPT ![r] = NoWrite(r)]
  /\ reply' = [reply EXCEPT ![r] = "none"]

SleepAsStandby(r) ==
  /\ wake' = [wake EXCEPT ![r] = RetryPeriod[r]]
  /\ due' = [due EXCEPT ![r] = 0]
  /\ UNCHANGED <<phase, errors>>

SleepAsLeader(r) ==
  /\ wake' = [wake EXCEPT ![r] = RenewPeriod[r]]
  /\ due' = [due EXCEPT ![r] = RenewPeriod[r] + MaxLatency]

SignalStop(r) ==
  /\ phase' = [phase EXCEPT ![r] = "stopping"]
  /\ due' = [due EXCEPT ![r] = MaxLatency]
  /\ errors' = [errors EXCEPT ![r] = 0]
  /\ UNCHANGED wake

\* Ok(true): a standby starts its controller and its renew loop, a leader sleeps.
Won(r) ==
  /\ EndAttempt(r)
  /\ phase' = [phase EXCEPT ![r] = "leading"]
  /\ errors' = [errors EXCEPT ![r] = 0]
  /\ SleepAsLeader(r)

\* Ok(false): a standby sleeps, a leader stops its controller.
Refused(r) ==
  /\ EndAttempt(r)
  /\ \/ phase[r] = "acquiring" /\ SleepAsStandby(r)
     \/ phase[r] = "leading" /\ SignalStop(r)

\* Mutant of Failed: the leader never stops.
FailedForever(r) ==
  /\ EndAttempt(r)
  /\ \/ phase[r] = "acquiring" /\ SleepAsStandby(r)
     \/ phase[r] = "leading" /\ SleepAsLeader(r) /\ UNCHANGED <<phase, errors>>

\* Err(_): a standby sleeps; a leader counts, and stops at the third in a row.
Failed(r) ==
  /\ EndAttempt(r)
  /\ \/ phase[r] = "acquiring" /\ SleepAsStandby(r)
     \/ /\ phase[r] = "leading"
        /\ errors[r] + 1 < 3
        /\ errors' = [errors EXCEPT ![r] = @ + 1]
        /\ SleepAsLeader(r)
        /\ UNCHANGED phase
     \/ phase[r] = "leading" /\ errors[r] + 1 >= 3 /\ SignalStop(r)

\* The client may give up on a request that the server has yet to process.
GiveUpOn(w) ==
  \/ UNCHANGED abandoned
  \/ Cardinality(abandoned) < MaxAbandoned /\ abandoned' = abandoned \cup {w}

-----------------------------------------------------------------------------
(***************************************************************************)
(* The replicas.                                                           *)
(***************************************************************************)
\* `run` reaches acquire_leader_lease in a fresh process.
StartProcess(r) ==
  /\ phase[r] = "down"
  /\ lease.version < MaxVersion
  /\ phase' = [phase EXCEPT ![r] = "acquiring"]
  /\ UNCHANGED <<now, lease, call, start, wake, due, errors, pending, reply, abandoned>>

\* The sleep is over: try_acquire_or_renew reads the clock and sends its GET.
BeginAttempt(r) ==
  /\ phase[r] \in {"acquiring", "leading"}
  /\ call[r] = "sleep"
  /\ wake[r] = 0
  /\ call' = [call EXCEPT ![r] = "get"]
  /\ start' = [start EXCEPT ![r] = now]
  /\ due' = IF phase[r] = "acquiring" THEN [due EXCEPT ![r] = MaxLatency] ELSE due
  /\ UNCHANGED <<now, lease, phase, wake, errors, pending, reply, abandoned>>

\* The GET answers with a lease another replica holds: Ok(false).
GetHeldByOther(r) ==
  /\ call[r] = "get"
  /\ lease.version # 0
  /\ lease.holder # r
  /\ ~IsExpired(lease, r, start[r])
  /\ Refused(r)
  /\ UNCHANGED <<now, lease, abandoned>>

\* The GET answers 404, or with a lease that is free to take or r's own.
GetAvailable(r) ==
  /\ call[r] = "get"
  /\ lease.version = 0 \/ lease.holder = r \/ IsExpired(lease, r, start[r])
  /\ call' = [call EXCEPT ![r] = "write"]
  /\ pending' = [pending EXCEPT ![r] = WriteFor(r, start[r], lease)]
  /\ UNCHANGED <<now, lease, phase, start, wake, due, errors, reply, abandoned>>

\* The GET fails with anything but 404.
GetFails(r) ==
  /\ call[r] = "get"
  /\ Failed(r)
  /\ UNCHANGED <<now, lease, abandoned>>

\* The server processes the awaited write and sends its answer.
ServeWrite(r) ==
  /\ call[r] = "write"
  /\ call' = [call EXCEPT ![r] = "replied"]
  /\ \/ /\ Accepts(pending[r])
        /\ lease' = BuildLease(pending[r])
        /\ reply' = [reply EXCEPT ![r] = "ok"]
     \/ /\ ~Accepts(pending[r])
        /\ reply' = [reply EXCEPT ![r] = "conflict"]
        /\ UNCHANGED lease
  /\ UNCHANGED <<now, phase, start, wake, due, errors, pending, abandoned>>

\* The write fails at the client: refused, or lost on its way, or given up on.
WriteFails(r) ==
  /\ call[r] = "write"
  /\ Failed(r)
  /\ GiveUpOn(pending[r])
  /\ UNCHANGED <<now, lease>>

\* The answer reaches the client, 409 as Ok(false).
ReceiveReply(r) ==
  /\ call[r] = "replied"
  /\ \/ reply[r] = "ok" /\ Won(r)
     \/ reply[r] = "conflict" /\ Refused(r)
  /\ UNCHANGED <<now, lease, abandoned>>

\* The write was processed but its answer is lost.
ReplyLost(r) ==
  /\ call[r] = "replied"
  /\ Failed(r)
  /\ UNCHANGED <<now, lease, abandoned>>

Halt(r) ==
  /\ phase' = [phase EXCEPT ![r] = "down"]
  /\ EndAttempt(r)
  /\ wake' = [wake EXCEPT ![r] = 0]
  /\ due' = [due EXCEPT ![r] = 0]
  /\ errors' = [errors EXCEPT ![r] = 0]

\* The select! in `run` sees the stop signal, drops the loop, `run` returns.
StopController(r) ==
  /\ phase[r] = "stopping"
  /\ Halt(r)
  /\ UNCHANGED <<now, lease, abandoned>>

\* The process dies; a request it has sent may still arrive.
Crash(r) ==
  /\ phase[r] # "down"
  /\ Halt(r)
  /\ IF call[r] = "write" THEN GiveUpOn(pending[r]) ELSE UNCHANGED abandoned
  /\ UNCHANGED <<now, lease>>

-----------------------------------------------------------------------------
(***************************************************************************)
(* The environment.                                                        *)
(***************************************************************************)
\* A write nobody waits for any more reaches the server.
ServeAbandoned(w) ==
  /\ w \in abandoned
  /\ abandoned' = abandoned \ {w}
  /\ lease' = IF Accepts(w) THEN BuildLease(w) ELSE lease
  /\ UNCHANGED <<now, phase, call, start, wake, due, errors, pending, reply>>

\* Somebody edits the metadata of the Lease (a label, an annotation).
TouchLease ==
  /\ lease.version # 0 /\ lease.version < MaxVersion
  /\ lease' = [lease EXCEPT !.version = @ + 1]
  /\ UNCHANGED <<now, phase, call, start, wake, due, errors, pending, reply, abandoned>>

Tick ==
  /\ now < MaxTime
  /\ \A r \in Replica : Timed(r) => due[r] > 0
  /\ now' = now + 1
  /\ wake' = [r \in Replica |-> IF wake[r] > 0 THEN wake[r] - 1 ELSE 0]
  /\ due' = [r \in Replica |-> IF due[r] > 0 THEN due[r] - 1 ELSE 0]
  /\ UNCHANGED <<lease, phase, call, start, errors, pending, reply, abandoned>>

-----------------------------------------------------------------------------
Next ==
  \/ \E r \in Replica :
       \/ StartProcess(r) \/ BeginAttempt(r)
       \/ GetHeldByOther(r) \/ GetAvailable(r) \/ GetFails(r)
       \/ ServeWrite(r) \/ WriteFails(r) \/ ReceiveReply(r) \/ ReplyLost(r)
       \/ StopController(r) \/ Crash(r)
  \/ \E w \in abandoned : ServeAbandoned(w)
  \/ TouchLease
  \/ Tick

Spec == Init /\ [][Next]_vars

-----------------------------------------------------------------------------
(***************************************************************************)
(* Properties.                                                             *)
(***************************************************************************)
\* The condition on the timings under which a lease protects its holder: three
\* failed renewals, each late by MaxLatency, end before the lease expires on
\* the clock of any other replica.
TimingsSafe ==
  \A r \in Replica : 3 * RenewPeriod[r] + 5 * MaxLatency + MaxSkew <= LeaseDuration[r]

\* The variables keep their types; in particular the renew loop is gone once it
\* has counted three errors in a row.
TypeOK ==
  /\ now \in Nat
  /\ lease \in LeaseRecord
  /\ phase \in [Replica -> Phases]
  /\ call \in [Replica -> Calls]
  /\ start \in [Replica -> Nat]
  /\ wake \in [Replica -> Nat]
  /\ due \in [Replica -> Nat]
  /\ errors \in [Replica -> 0 .. 2]
  /\ pending \in [Replica -> Write]
  /\ reply \in [Replica -> Replies]
  /\ abandoned \in SUBSET Write

\* At most one replica has a running reconcile loop (README.md:64, "only one
\* replica reconciles at a time").
MutualExclusion ==
  \A p, q \in Replica : Running(p) /\ Running(q) => p = q

\* A replica whose reconcile loop runs is the recorded holder, and no other
\* replica that reads its clock now would find the lease expired.
LeaderHoldsLease ==
  \A r \in Replica : Running(r) =>
    /\ lease.version # 0
    /\ lease.holder = r
    /\ \A q \in Replica \ {r} : Clock(q, now) <= lease.renewTime + lease.duration

\* A step takes the lease from its holder only after the time that this holder
\* was promised: the duration it has written itself, counted from its renewal.
NoEarlyTakeover ==
  [][lease.holder # NoReplica /\ lease'.holder # lease.holder
       => Clock(lease'.holder, now) > lease.renewTime + lease.duration]_vars

\* renewTime does not go back in a step.
RenewTimeKept == lease.renewed => lease'.renewed /\ lease'.renewTime >= lease.renewTime

\* leaseTransitions grows by one exactly when the holder changes, and
\* acquireTime is the renewTime of the write that changed it.
HandoverCounted ==
  lease.version # 0 =>
    IF lease'.holder = lease.holder
    THEN lease'.transitions = lease.transitions /\ lease'.acquireTime = lease.acquireTime
    ELSE /\ lease'.acquireTime = lease'.renewTime
         /\ lease'.transitions =
              IF lease.transitions = NoCount THEN NoCount ELSE lease.transitions + 1

\* The Lease tells its own history truly, however late a write reaches the server
\* and whichever clock it was stamped by (the takeover and the renewal of
\* controller.rs:318-337).
LeaseHistory == [][RenewTimeKept /\ HandoverCounted]_vars

-----------------------------------------------------------------------------
(***************************************************************************)
(* The inductive invariant behind the safety properties.                   *)
(***************************************************************************)
\* The writes the server may still process.
InFlight == abandoned \cup {pending[r] : r \in {q \in Replica : call[q] = "write"}}

InAttempt(r) == call[r] # "sleep"

\* Global time of the renewal that the lease records, when r holds it.
LeaseStart(r) == lease.renewTime - ClockOffset[r]

HeldBy(r) == lease.renewed /\ lease.holder = r

LeaseOK ==
  /\ lease.renewed =>
       /\ lease.version # 0
       /\ lease.holder \in Replica
       /\ lease.duration = LeaseDuration[lease.holder]
       /\ lease.renewTime <= Clock(lease.holder, now)
  /\ ~lease.renewed => lease.holder = NoReplica

AttemptOK(r) ==
  /\ phase[r] \in {"down", "stopping"} => ~InAttempt(r)
  /\ InAttempt(r) =>
       /\ start[r] <= now
       /\ now + due[r] <= start[r] + MaxLatency
       /\ HeldBy(r) => LeaseStart(r) <= start[r]
       /\ \A w \in abandoned : w.from = r => w.start <= start[r]
  /\ call[r] = "write" => pending[r].from = r /\ pending[r].start = start[r]
  /\ call[r] = "replied" /\ reply[r] = "ok" => HeldBy(r) /\ LeaseStart(r) >= start[r]

\* A write that the server would accept was made from the lease as it is, and
\* that lease was its writer's or had expired.
WriteOK(w) ==
  /\ w.start <= now
  /\ w.base <= lease.version
  /\ w.base = lease.version =>
       /\ w = WriteFor(w.from, w.start, lease)
       /\ IF lease.holder = w.from
          THEN lease.renewTime <= Clock(w.from, w.start)
          ELSE IsExpired(lease, w.from, w.start)

\* How far past the renewal of its lease a leader can get.
Reach(r) ==
  IF phase[r] = "stopping" THEN 3 * RenewPeriod[r] + 5 * MaxLatency
  ELSE IF errors[r] = 0 THEN RenewPeriod[r] + 2 * MaxLatency
  ELSE IF errors[r] = 1 THEN 2 * RenewPeriod[r] + 3 * MaxLatency
  ELSE 3 * RenewPeriod[r] + 4 * MaxLatency

LeaderOK(r) ==
  /\ Running(r) => HeldBy(r) /\ now + due[r] <= LeaseStart(r) + Reach(r)
  /\ phase[r] = "leading" /\ ~InAttempt(r) => due[r] <= wake[r] + MaxLatency

\* The lease of a leader is current, every request in flight respects it, and
\* each replica is within its deadlines (the strengthening that makes
\* MutualExclusion and LeaderHoldsLease of controller.rs:265-445 inductive).
IInv ==
  /\ TypeOK
  /\ LeaseOK
  /\ \A r \in Replica : AttemptOK(r)
  /\ \A r \in Replica : LeaderOK(r)
  /\ \A w \in InFlight : WriteOK(w)

-----------------------------------------------------------------------------
\* Leader election seen as a lock: who is inside, and whom the Lease names.
Lock == INSTANCE LeaderLock
          WITH owners <- {r \in Replica : Running(r)}, granted <- lease.holder

\* Every behaviour of the replicas is one of the two-stage lock: run starts the
\* reconcile loop only when nobody is inside and the Lease names this replica,
\* and the Lease names nobody else until the loop has been dropped.
ImplementsLock == Lock!Spec
=============================================================================
