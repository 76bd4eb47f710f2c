------------------------ MODULE LeaderElectionProofs ------------------------
(***************************************************************************)
(* Theorems about LeaderElection, for every set of replicas, every         *)
(* heterogeneous configuration and every bound of the model.               *)
(***************************************************************************)
EXTENDS LeaderElection, TLAPS

USE DEF NoCount, Phases, Calls, Replies

\* A write made by try_acquire_or_renew is a well-formed request.
LEMMA WriteForType ==
  ASSUME NEW r \in Replica, NEW t \in Nat, NEW l \in LeaseRecord
  PROVE  WriteFor(r, t, l) \in Write
<1> USE ClockAssumption, ReplicaAssumption
<1>1. Clock(r, t) \in Int
  BY DEF Clock
<1>2. l.version \in Nat /\ l.acquireTime \in Int /\ l.transitions \in Nat \cup {NoCount}
  BY DEF LeaseRecord
<1> QED
  BY <1>1, <1>2 DEF WriteFor, Write

\* The object the server stores for a write is a well-formed lease.
LEMMA BuildLeaseType ==
  ASSUME NEW w \in Write
  PROVE  BuildLease(w) \in LeaseRecord
<1> USE ClockAssumption, TimingAssumption
<1>1. w.from \in Replica /\ w.start \in Nat /\ w.base \in Nat /\ w.acquireTime \in Int
      /\ w.transitions \in Nat \cup {NoCount}
  BY DEF Write
<1>2. Clock(w.from, w.start) \in Int /\ LeaseDuration[w.from] \in Nat
  BY <1>1 DEF Clock
<1> QED
  BY <1>1, <1>2 DEF BuildLease, LeaseRecord

\* The placeholder of a replica that awaits no write is a request too.
LEMMA NoWriteType ==
  ASSUME NEW r \in Replica
  PROVE  NoWrite(r) \in Write
BY DEF NoWrite, Write

\* What an attempt leaves behind keeps its type, whatever its result.
LEMMA OutcomeType ==
  ASSUME TypeOK, NEW r \in Replica, Won(r) \/ Refused(r) \/ Failed(r)
  PROVE  /\ phase' \in [Replica -> Phases]
         /\ call' \in [Replica -> Calls]
         /\ start' \in [Replica -> Nat]
         /\ wake' \in [Replica -> Nat]
         /\ due' \in [Replica -> Nat]
         /\ errors' \in [Replica -> 0 .. 2]
         /\ pending' \in [Replica -> Write]
         /\ reply' \in [Replica -> Replies]
<1> USE TimingAssumption
<1>1. /\ call' \in [Replica -> Calls]
      /\ start' \in [Replica -> Nat]
      /\ pending' \in [Replica -> Write]
      /\ reply' \in [Replica -> Replies]
  BY NoWriteType DEF TypeOK, Won, Refused, Failed, EndAttempt
<1>2. RenewPeriod[r] \in Nat /\ RetryPeriod[r] \in Nat /\ RenewPeriod[r] + MaxLatency \in Nat
  OBVIOUS
<1>3. /\ wake' \in [Replica -> Nat]
      /\ due' \in [Replica -> Nat]
  BY <1>2 DEF TypeOK, Won, Refused, Failed, SleepAsStandby, SleepAsLeader, SignalStop
<1>4. phase' \in [Replica -> Phases]
  BY DEF TypeOK, Won, Refused, Failed, SleepAsStandby, SleepAsLeader, SignalStop
<1>5. errors' \in [Replica -> 0 .. 2]
  BY DEF TypeOK, Won, Refused, Failed, SleepAsStandby, SleepAsLeader, SignalStop
<1> QED
  BY <1>1, <1>3, <1>4, <1>5

\* The initial states have the types.
LEMMA InitTypeOK == Init => TypeOK
<1> SUFFICES ASSUME Init PROVE TypeOK
  OBVIOUS
<1>1. lease \in LeaseRecord
  <2>1. \A version \in Nat : EmptyLease(version) \in LeaseRecord
    BY DEF EmptyLease, LeaseRecord
  <2> QED
    BY <2>1 DEF Init, NoLease, BareLease
<1>2. pending \in [Replica -> Write]
  BY NoWriteType DEF Init
<1> QED
  BY <1>1, <1>2 DEF Init, TypeOK

\* Every step keeps the types.
LEMMA NextTypeOK == TypeOK /\ [Next]_vars => TypeOK'
<1> SUFFICES ASSUME TypeOK, [Next]_vars PROVE TypeOK'
  OBVIOUS
<1> USE ReplicaAssumption
<1>1. ASSUME NEW r \in Replica, StartProcess(r) PROVE TypeOK'
  BY <1>1 DEF StartProcess, TypeOK
<1>2. ASSUME NEW r \in Replica, BeginAttempt(r) PROVE TypeOK'
  BY <1>2, TimingAssumption DEF BeginAttempt, TypeOK
<1>3. ASSUME NEW r \in Replica, GetHeldByOther(r) PROVE TypeOK'
  BY <1>3, OutcomeType DEF GetHeldByOther, TypeOK
<1>4. ASSUME NEW r \in Replica, GetAvailable(r) PROVE TypeOK'
  <2>1. WriteFor(r, start[r], lease) \in Write
    BY WriteForType DEF TypeOK
  <2> QED
    BY <1>4, <2>1 DEF GetAvailable, TypeOK
<1>5. ASSUME NEW r \in Replica, GetFails(r) PROVE TypeOK'
  BY <1>5, OutcomeType DEF GetFails, TypeOK
<1>6. ASSUME NEW r \in Replica, ServeWrite(r) PROVE TypeOK'
  <2>1. BuildLease(pending[r]) \in LeaseRecord
    BY BuildLeaseType DEF TypeOK
  <2> QED
    BY <1>6, <2>1 DEF ServeWrite, TypeOK
<1>7. ASSUME NEW r \in Replica, WriteFails(r) PROVE TypeOK'
  <2>1. abandoned' \in SUBSET Write
    BY <1>7 DEF WriteFails, GiveUpOn, TypeOK
  <2> QED
    BY <1>7, <2>1, OutcomeType DEF WriteFails, TypeOK
<1>8. ASSUME NEW r \in Replica, ReceiveReply(r) PROVE TypeOK'
  BY <1>8, OutcomeType DEF ReceiveReply, TypeOK
<1>9. ASSUME NEW r \in Replica, ReplyLost(r) PROVE TypeOK'
  BY <1>9, OutcomeType DEF ReplyLost, TypeOK
<1>10. ASSUME NEW r \in Replica, StopController(r) PROVE TypeOK'
  BY <1>10, NoWriteType DEF StopController, Halt, EndAttempt, TypeOK
<1>11. ASSUME NEW r \in Replica, Crash(r) PROVE TypeOK'
  <2>1. abandoned' \in SUBSET Write
    BY <1>11 DEF Crash, GiveUpOn, TypeOK
  <2> QED
    BY <1>11, <2>1, NoWriteType DEF Crash, Halt, EndAttempt, TypeOK
<1>12. ASSUME NEW w \in abandoned, ServeAbandoned(w) PROVE TypeOK'
  <2>1. BuildLease(w) \in LeaseRecord
    BY BuildLeaseType DEF TypeOK
  <2> QED
    BY <1>12, <2>1 DEF ServeAbandoned, TypeOK
<1>13. CASE TouchLease
  BY <1>13 DEF TouchLease, TypeOK, LeaseRecord
<1>14. CASE Tick
  BY <1>14 DEF Tick, TypeOK
<1>15. CASE UNCHANGED vars
  BY <1>15 DEF vars, TypeOK
<1> QED
  BY <1>1, <1>2, <1>3, <1>4, <1>5, <1>6, <1>7, <1>8, <1>9, <1>10, <1>11, <1>12,
     <1>13, <1>14, <1>15 DEF Next

\* The variables keep their types in every reachable state; in particular the
\* renew loop never runs on after three consecutive errors
\* (controller.rs:424-441).
THEOREM TypeCorrect == Spec => []TypeOK
BY InitTypeOK, NextTypeOK, PTL DEF Spec

-----------------------------------------------------------------------------
(***************************************************************************)
(* The inductive invariant.                                                *)
(***************************************************************************)
\* Before any process starts the invariant holds.
LEMMA InitIInv == Init => IInv
<1> SUFFICES ASSUME Init PROVE IInv
  OBVIOUS
<1>1. TypeOK
  BY InitTypeOK
<1>2. lease.renewed = FALSE /\ lease.holder = NoReplica
  BY DEF Init, NoLease, BareLease, EmptyLease
<1>3. LeaseOK
  BY <1>2 DEF LeaseOK
<1>4. \A r \in Replica : AttemptOK(r) /\ LeaderOK(r)
  BY DEF Init, AttemptOK, LeaderOK, InAttempt, Running
<1>5. InFlight = {}
  BY DEF Init, InFlight
<1> QED
  BY <1>1, <1>3, <1>4, <1>5 DEF IInv

\* A step that changes the state of one replica only, and puts no request in
\* flight that was not, keeps the invariant if it keeps that replica's part.
LEMMA LocalStep ==
  ASSUME IInv, TypeOK', NEW r \in Replica,
         now' = now, lease' = lease,
         \A q \in Replica \ {r} :
            /\ phase'[q] = phase[q] /\ call'[q] = call[q] /\ start'[q] = start[q]
            /\ wake'[q] = wake[q] /\ due'[q] = due[q] /\ errors'[q] = errors[q]
            /\ pending'[q] = pending[q] /\ reply'[q] = reply[q],
         InFlight' \subseteq InFlight,
         \A w \in abandoned' : w \in abandoned \/ w.from = r,
         AttemptOK(r)', LeaderOK(r)'
  PROVE  IInv'
<1>1. LeaseOK'
  BY DEF IInv, LeaseOK, Clock
<1>2. ASSUME NEW q \in Replica, q # r PROVE AttemptOK(q)'
  BY <1>2 DEF IInv, AttemptOK, InAttempt, HeldBy, LeaseStart
<1>3. ASSUME NEW q \in Replica, q # r PROVE LeaderOK(q)'
  BY <1>3 DEF IInv, LeaderOK, InAttempt, HeldBy, LeaseStart, Running, Reach
<1>4. ASSUME NEW w \in InFlight' PROVE WriteOK(w)'
  BY <1>4 DEF IInv, WriteOK, WriteFor, IsExpired, Clock
<1> QED
  BY <1>1, <1>2, <1>3, <1>4 DEF IInv

\* A write that the server accepts comes from the only replica that may run a
\* reconcile loop or wait for a positive answer.
LEMMA AcceptedWrite ==
  ASSUME IInv, TimingsSafe, NEW w \in InFlight, w.base = lease.version
  PROVE  /\ w \in Write
         /\ w.start <= now
         /\ HeldBy(w.from) => LeaseStart(w.from) <= w.start
         /\ lease.renewed => lease.renewTime <= Clock(w.from, w.start)
         /\ \A r \in Replica : Running(r) => r = w.from
         /\ \A r \in Replica : call[r] = "replied" /\ reply[r] = "ok" => r = w.from
<1> USE ClockAssumption, TimingAssumption, ReplicaAssumption
<1>1. w \in Write /\ w.from \in Replica /\ w.start \in Nat /\ w.base \in Nat
  BY DEF IInv, TypeOK, InFlight, Write
<1>2. lease.version \in Nat /\ lease.renewTime \in Int /\ lease.duration \in Nat /\ now \in Nat
  BY DEF IInv, TypeOK, LeaseRecord
<1>3. WriteOK(w)
  BY DEF IInv
<1>4. w.start <= now
  BY <1>3 DEF WriteOK
<1>5. HeldBy(w.from) => LeaseStart(w.from) <= w.start
  BY <1>1, <1>2, <1>3 DEF WriteOK, HeldBy, LeaseStart, Clock
<1>6. lease.renewed => lease.renewTime <= Clock(w.from, w.start)
  BY <1>1, <1>2, <1>3 DEF WriteOK, IsExpired, Clock
<1>7. ASSUME NEW r \in Replica, HeldBy(r), r # w.from
      PROVE  now > LeaseStart(r) + 3 * RenewPeriod[r] + 5 * MaxLatency
  <2>1. Clock(w.from, w.start) > lease.renewTime + lease.duration
    BY <1>3, <1>7 DEF WriteOK, HeldBy, IsExpired
  <2>2. lease.duration = LeaseDuration[r]
    BY <1>7 DEF IInv, LeaseOK, HeldBy
  <2>3. /\ ClockOffset[r] \in Int /\ ClockOffset[w.from] \in Int
        /\ ClockOffset[w.from] - ClockOffset[r] <= MaxSkew
        /\ RenewPeriod[r] \in Nat /\ LeaseDuration[r] \in Nat
    BY <1>1
  <2>4. 3 * RenewPeriod[r] + 5 * MaxLatency + MaxSkew <= LeaseDuration[r]
    BY DEF TimingsSafe
  <2> QED
    BY <1>1, <1>2, <1>4, <2>1, <2>2, <2>3, <2>4 DEF Clock, LeaseStart
<1>8. ASSUME NEW r \in Replica, Running(r) PROVE r = w.from
  <2>1. HeldBy(r) /\ now + due[r] <= LeaseStart(r) + Reach(r)
    BY <1>8 DEF IInv, LeaderOK
  <2>2. due[r] \in Nat /\ RenewPeriod[r] \in Nat /\ LeaseStart(r) \in Int
    BY <1>2 DEF IInv, TypeOK, LeaseStart
  <2>3. Reach(r) \in Int /\ Reach(r) <= 3 * RenewPeriod[r] + 5 * MaxLatency
    BY <2>2 DEF Reach
  <2> QED
    BY <1>2, <1>7, <2>1, <2>2, <2>3
<1>9. ASSUME NEW r \in Replica, call[r] = "replied", reply[r] = "ok" PROVE r = w.from
  <2>1. HeldBy(r) /\ LeaseStart(r) >= start[r] /\ now + due[r] <= start[r] + MaxLatency
    BY <1>9 DEF IInv, AttemptOK, InAttempt
  <2>2. due[r] \in Nat /\ RenewPeriod[r] \in Nat /\ start[r] \in Nat /\ LeaseStart(r) \in Int
    BY <1>2 DEF IInv, TypeOK, LeaseStart
  <2> QED
    BY <1>2, <1>7, <2>1, <2>2
<1> QED
  BY <1>1, <1>4, <1>5, <1>6, <1>8, <1>9

\* The server applies a request in flight and nothing else changes, but for
\* where that request stands.
LEMMA AppliedWrite ==
  ASSUME IInv, TimingsSafe, TypeOK', NEW w \in InFlight, w.base = lease.version,
         lease' = BuildLease(w), now' = now,
         InFlight' \subseteq InFlight,
         abandoned' \subseteq abandoned,
         UNCHANGED <<phase, start, wake, due, errors, pending>>,
         \/ /\ w \in abandoned
            /\ UNCHANGED <<call, reply>>
         \/ /\ call[w.from] = "write" /\ w = pending[w.from]
            /\ call' = [call EXCEPT ![w.from] = "replied"]
            /\ reply' = [reply EXCEPT ![w.from] = "ok"]
  PROVE  IInv'
<1> USE ClockAssumption, TimingAssumption
<1>1. w \in Write /\ w.from \in Replica /\ w.start \in Nat /\ w.base \in Nat
  BY AcceptedWrite DEF Write
<1>2. /\ lease'.version = lease.version + 1 /\ lease'.renewed /\ lease'.holder = w.from
      /\ lease'.duration = LeaseDuration[w.from]
      /\ lease'.renewTime = Clock(w.from, w.start)
  BY <1>1 DEF BuildLease
<1>3. lease.version \in Nat /\ now \in Nat /\ ClockOffset[w.from] \in Int /\ lease.renewTime \in Int
  BY <1>1 DEF IInv, TypeOK, LeaseRecord
<1>4. LeaseOK'
  BY <1>1, <1>2, <1>3, AcceptedWrite DEF LeaseOK, Clock
<1>5. LeaseStart(w.from)' = w.start /\ HeldBy(w.from)'
  BY <1>1, <1>2, <1>3 DEF LeaseStart, Clock, HeldBy
<1>6. ASSUME NEW r \in Replica, r # w.from PROVE AttemptOK(r)' /\ LeaderOK(r)'
  <2>1. ~HeldBy(r)' /\ ~Running(r) /\ ~(call[r] = "replied" /\ reply[r] = "ok")
    BY <1>2, <1>6, AcceptedWrite DEF HeldBy
  <2>2. call'[r] = call[r] /\ reply'[r] = reply[r]
    BY <1>6 DEF IInv, TypeOK
  <2> QED
    BY <2>1, <2>2 DEF IInv, AttemptOK, LeaderOK, InAttempt, Running
<1>7. AttemptOK(w.from)'
  <2>1. CASE w \in abandoned /\ UNCHANGED <<call, reply>>
    <3>1. InAttempt(w.from) => w.start <= start[w.from]
      BY <1>1, <2>1 DEF IInv, AttemptOK
    <3>2. call[w.from] = "replied" /\ reply[w.from] = "ok" => w.start >= start[w.from]
      <4>1. start[w.from] \in Nat /\ LeaseStart(w.from) \in Int
        BY <1>1, <1>3 DEF IInv, TypeOK, LeaseStart
      <4> QED
        BY <1>1, <4>1, AcceptedWrite DEF IInv, AttemptOK
    <3> QED
      BY <1>1, <1>5, <2>1, <3>1, <3>2 DEF IInv, AttemptOK, InAttempt
  <2>2. CASE /\ call[w.from] = "write" /\ w = pending[w.from]
             /\ call' = [call EXCEPT ![w.from] = "replied"]
             /\ reply' = [reply EXCEPT ![w.from] = "ok"]
    <3>1. start[w.from] = w.start
      BY <1>1, <2>2 DEF IInv, AttemptOK
    <3>2. call[w.from] # "sleep" /\ call'[w.from] = "replied"
      BY <1>1, <2>2 DEF IInv, TypeOK
    <3> QED
      BY <1>1, <1>5, <3>1, <3>2 DEF IInv, AttemptOK, InAttempt
  <2> QED
    BY <2>1, <2>2
<1>8. LeaderOK(w.from)'
  <2>1. (InAttempt(w.from) <=> InAttempt(w.from)') /\ (Running(w.from) <=> Running(w.from)')
        /\ Reach(w.from)' = Reach(w.from)
    BY <1>1 DEF InAttempt, Running, Reach, IInv, TypeOK
  <2>2. ASSUME Running(w.from) PROVE now + due[w.from] <= w.start + Reach(w.from)
    <3>1. /\ HeldBy(w.from)
          /\ now + due[w.from] <= LeaseStart(w.from) + Reach(w.from)
          /\ LeaseStart(w.from) <= w.start
      BY <1>1, <2>2, AcceptedWrite DEF IInv, LeaderOK
    <3>2. LeaseStart(w.from) \in Int /\ due[w.from] \in Nat /\ Reach(w.from) \in Int
      BY <1>1, <1>3 DEF LeaseStart, Reach, IInv, TypeOK
    <3> QED
      BY <1>1, <1>3, <3>1, <3>2
  <2>3. phase[w.from] = "leading" /\ ~InAttempt(w.from) => due[w.from] <= wake[w.from] + MaxLatency
    BY <1>1 DEF IInv, LeaderOK
  <2> QED
    BY <1>5, <2>1, <2>2, <2>3 DEF LeaderOK
<1>9. ASSUME NEW v \in InFlight' PROVE WriteOK(v)'
  <2>1. v \in Write /\ v.base \in Nat /\ WriteOK(v)
    BY <1>9 DEF IInv, TypeOK, InFlight, Write
  <2> QED
    BY <1>2, <1>3, <2>1 DEF WriteOK
<1> QED
  BY <1>4, <1>6, <1>7, <1>8, <1>9 DEF IInv

\* What either loop does with the result of an attempt keeps the invariant.
LEMMA Outcome ==
  ASSUME IInv, TypeOK', NEW r \in Replica, InAttempt(r),
         \/ Won(r) /\ call[r] = "replied" /\ reply[r] = "ok"
         \/ Refused(r)
         \/ Failed(r),
         now' = now, lease' = lease,
         abandoned' = abandoned \/ (call[r] = "write" /\ GiveUpOn(pending[r]))
  PROVE  IInv'
<1> USE TimingAssumption, ClockAssumption
<1>1. /\ call'[r] = "sleep"
      /\ \A q \in Replica \ {r} :
            /\ phase'[q] = phase[q] /\ call'[q] = call[q] /\ start'[q] = start[q]
            /\ wake'[q] = wake[q] /\ due'[q] = due[q] /\ errors'[q] = errors[q]
            /\ pending'[q] = pending[q] /\ reply'[q] = reply[q]
  BY DEF IInv, TypeOK, Won, Refused, Failed, EndAttempt, SleepAsStandby, SleepAsLeader, SignalStop
<1>2. InFlight' \subseteq InFlight
  BY <1>1 DEF InFlight, GiveUpOn
<1>3. \A w \in abandoned' : w \in abandoned \/ w.from = r
  BY DEF IInv, AttemptOK, GiveUpOn
<1>4. AttemptOK(r)'
  BY <1>1 DEF AttemptOK, InAttempt
<1>5. /\ now \in Nat /\ due[r] \in Nat /\ start[r] \in Nat /\ errors[r] \in 0 .. 2
      /\ RenewPeriod[r] \in Nat /\ LeaseStart(r) \in Int
  BY DEF IInv, TypeOK, LeaseRecord, LeaseStart
<1>6. start[r] <= now /\ now + due[r] <= start[r] + MaxLatency
  BY DEF IInv, AttemptOK
<1>7. LeaseStart(r)' = LeaseStart(r) /\ (HeldBy(r)' <=> HeldBy(r))
  BY DEF LeaseStart, HeldBy
<1>8. CASE Won(r) /\ call[r] = "replied" /\ reply[r] = "ok"
  <2>1. HeldBy(r) /\ LeaseStart(r) >= start[r]
    BY <1>8 DEF IInv, AttemptOK
  <2>2. /\ phase'[r] = "leading" /\ errors'[r] = 0
        /\ wake'[r] = RenewPeriod[r] /\ due'[r] = RenewPeriod[r] + MaxLatency
    BY <1>8 DEF Won, SleepAsLeader, IInv, TypeOK
  <2>3. LeaderOK(r)'
    BY <1>5, <1>6, <1>7, <2>1, <2>2 DEF LeaderOK, Reach
  <2> QED
    BY <1>1, <1>2, <1>3, <1>4, <2>3, LocalStep
<1>9. CASE phase[r] = "acquiring" /\ phase'[r] = "acquiring"
  <2>1. LeaderOK(r)'
    BY <1>9 DEF LeaderOK, Running
  <2> QED
    BY <1>1, <1>2, <1>3, <1>4, <2>1, LocalStep
<1>10. CASE phase[r] = "leading" /\ SignalStop(r)
  <2>1. /\ phase'[r] = "stopping" /\ due'[r] = MaxLatency
    BY <1>10 DEF SignalStop, IInv, TypeOK
  <2>2. HeldBy(r) /\ now + due[r] <= LeaseStart(r) + Reach(r)
    BY <1>10 DEF IInv, LeaderOK, Running
  <2>3. Reach(r) \in Int /\ Reach(r) <= 3 * RenewPeriod[r] + 4 * MaxLatency
    BY <1>5, <1>10 DEF Reach
  <2>4. Reach(r)' = 3 * RenewPeriod[r] + 5 * MaxLatency
    BY <2>1 DEF Reach
  <2>5. LeaderOK(r)'
    BY <1>5, <1>7, <2>1, <2>2, <2>3, <2>4 DEF LeaderOK
  <2> QED
    BY <1>1, <1>2, <1>3, <1>4, <2>5, LocalStep
<1>11. CASE /\ phase[r] = "leading" /\ errors[r] + 1 < 3 /\ UNCHANGED phase
            /\ errors' = [errors EXCEPT ![r] = @ + 1] /\ SleepAsLeader(r)
  <2>1. /\ phase'[r] = "leading" /\ errors'[r] = errors[r] + 1
        /\ wake'[r] = RenewPeriod[r] /\ due'[r] = RenewPeriod[r] + MaxLatency
    BY <1>11 DEF SleepAsLeader, IInv, TypeOK
  <2>2. HeldBy(r) /\ now + due[r] <= LeaseStart(r) + Reach(r)
    BY <1>11 DEF IInv, LeaderOK, Running
  <2>3. /\ Reach(r) \in Int /\ Reach(r)' \in Int
        /\ Reach(r)' = Reach(r) + RenewPeriod[r] + MaxLatency
    BY <1>5, <1>11, <2>1 DEF Reach
  <2>4. LeaderOK(r)'
    BY <1>5, <1>7, <2>1, <2>2, <2>3 DEF LeaderOK
  <2> QED
    BY <1>1, <1>2, <1>3, <1>4, <2>4, LocalStep
<1> QED
  BY <1>8, <1>9, <1>10, <1>11 DEF Refused, Failed, SleepAsStandby

\* Every step keeps the invariant.
LEMMA NextIInv == TimingsSafe /\ IInv /\ [Next]_vars => IInv'
<1> SUFFICES ASSUME TimingsSafe, IInv, [Next]_vars PROVE IInv'
  OBVIOUS
<1> USE TimingAssumption, ClockAssumption
<1>0. TypeOK /\ TypeOK'
  BY NextTypeOK DEF IInv
<1>1. ASSUME NEW r \in Replica, StartProcess(r) PROVE IInv'
  <2>1. InFlight' = InFlight
    BY <1>1 DEF StartProcess, InFlight
  <2>2. call[r] = "sleep" /\ phase'[r] = "acquiring"
    BY <1>0, <1>1 DEF StartProcess, IInv, TypeOK, AttemptOK, InAttempt
  <2>3. AttemptOK(r)' /\ LeaderOK(r)'
    BY <1>1, <2>2 DEF StartProcess, AttemptOK, LeaderOK, InAttempt, Running
  <2> QED
    BY <1>0, <1>1, <2>1, <2>3, LocalStep DEF StartProcess, TypeOK
<1>2. ASSUME NEW r \in Replica, BeginAttempt(r) PROVE IInv'
  <2>1. InFlight' = InFlight
    BY <1>0, <1>2 DEF BeginAttempt, InFlight, TypeOK
  <2>2. /\ call'[r] = "get" /\ start'[r] = now /\ now \in Nat /\ due[r] \in Nat
        /\ call[r] = "sleep" /\ wake[r] = 0 /\ phase'[r] = phase[r]
        /\ phase[r] = "acquiring" => due'[r] = MaxLatency
        /\ phase[r] = "leading" => due'[r] = due[r]
    BY <1>0, <1>2 DEF BeginAttempt, TypeOK
  <2>3. now + due'[r] <= now + MaxLatency
    BY <1>2, <2>2 DEF BeginAttempt, IInv, LeaderOK, InAttempt
  <2>4. HeldBy(r) => LeaseStart(r) <= now
    BY <1>0, <2>2 DEF IInv, LeaseOK, HeldBy, LeaseStart, Clock, TypeOK, LeaseRecord
  <2>5. \A w \in abandoned : w.start <= now
    BY DEF IInv, InFlight, WriteOK
  <2>6. AttemptOK(r)'
    BY <1>2, <2>2, <2>3, <2>4, <2>5 DEF BeginAttempt, AttemptOK, InAttempt, HeldBy, LeaseStart
  <2>7. LeaderOK(r)'
    BY <1>2, <2>2 DEF BeginAttempt, IInv, LeaderOK, InAttempt, Running, HeldBy, LeaseStart, Reach
  <2> QED
    BY <1>0, <1>2, <2>1, <2>6, <2>7, LocalStep DEF BeginAttempt, TypeOK
<1>3. ASSUME NEW r \in Replica, GetHeldByOther(r) PROVE IInv'
  <2>1. Refused(r)
    BY <1>3 DEF GetHeldByOther
  <2>2. InAttempt(r)
    BY <1>3 DEF GetHeldByOther, InAttempt
  <2>3. now' = now /\ lease' = lease
    BY <1>3 DEF GetHeldByOther
  <2>4. abandoned' = abandoned \/ (call[r] = "write" /\ GiveUpOn(pending[r]))
    BY <1>3 DEF GetHeldByOther
  <2> QED
    BY <1>0, <2>1, <2>2, <2>3, <2>4, Outcome
<1>4. ASSUME NEW r \in Replica, GetAvailable(r) PROVE IInv'
  <2>1. /\ call[r] = "get" /\ call'[r] = "write" /\ pending'[r] = WriteFor(r, start[r], lease)
        /\ start[r] \in Nat
    BY <1>0, <1>4 DEF GetAvailable, TypeOK
  <2>2. /\ pending'[r].from = r /\ pending'[r].start = start[r]
        /\ pending'[r].base = lease.version
    BY <2>1 DEF WriteFor
  <2>3. AttemptOK(r) /\ LeaderOK(r) /\ start[r] <= now
    BY <2>1 DEF IInv, AttemptOK, InAttempt
  <2>4. AttemptOK(r)'
    BY <1>4, <2>1, <2>2, <2>3 DEF GetAvailable, AttemptOK, InAttempt, HeldBy, LeaseStart
  <2>5. LeaderOK(r)'
    BY <1>4, <2>1, <2>3 DEF GetAvailable, LeaderOK, InAttempt, HeldBy, LeaseStart, Running, Reach
  <2>6. WriteOK(pending'[r])
    <3>1. lease.holder = r => lease.renewTime <= Clock(r, start[r])
      <4>1. lease.holder = r => HeldBy(r) /\ LeaseStart(r) <= start[r]
        BY <2>1, <2>3, ReplicaAssumption DEF IInv, LeaseOK, HeldBy, AttemptOK, InAttempt
      <4>2. lease.renewTime \in Int /\ ClockOffset[r] \in Int
        BY <1>0 DEF TypeOK, LeaseRecord
      <4> QED
        BY <2>1, <4>1, <4>2 DEF LeaseStart, Clock
    <3>2. lease.holder # r => IsExpired(lease, r, start[r])
      BY <1>4 DEF GetAvailable, IInv, LeaseOK, IsExpired
    <3>3. lease.version \in Nat
      BY <1>0 DEF TypeOK, LeaseRecord
    <3> QED
      BY <2>1, <2>2, <2>3, <3>1, <3>2, <3>3 DEF WriteOK
  <2>7. \A q \in Replica \ {r} : AttemptOK(q)' /\ LeaderOK(q)'
    BY <1>0, <1>4 DEF GetAvailable, IInv, TypeOK, AttemptOK, LeaderOK, InAttempt, HeldBy,
                      LeaseStart, Running, Reach
  <2>8. ASSUME NEW w \in InFlight' PROVE WriteOK(w)'
    <3>1. w \in InFlight \/ w = pending'[r]
      BY <1>0, <1>4, <2>8 DEF GetAvailable, InFlight, TypeOK
    <3>2. WriteOK(w)
      BY <2>6, <3>1 DEF IInv
    <3> QED
      BY <1>4, <3>2 DEF GetAvailable, WriteOK
  <2>9. LeaseOK'
    BY <1>4 DEF GetAvailable, IInv, LeaseOK
  <2> QED
    BY <1>0, <2>4, <2>5, <2>7, <2>8, <2>9 DEF IInv
<1>5. ASSUME NEW r \in Replica, GetFails(r) PROVE IInv'
  <2>1. Failed(r)
    BY <1>5 DEF GetFails
  <2>2. InAttempt(r)
    BY <1>5 DEF GetFails, InAttempt
  <2>3. now' = now /\ lease' = lease
    BY <1>5 DEF GetFails
  <2>4. abandoned' = abandoned \/ (call[r] = "write" /\ GiveUpOn(pending[r]))
    BY <1>5 DEF GetFails
  <2> QED
    BY <1>0, <2>1, <2>2, <2>3, <2>4, Outcome
<1>6. ASSUME NEW r \in Replica, ServeWrite(r) PROVE IInv'
  <2>1. /\ call[r] = "write" /\ pending[r] \in InFlight /\ pending[r].from = r
        /\ call'[r] = "replied"
    BY <1>0, <1>6 DEF ServeWrite, InFlight, TypeOK, IInv, AttemptOK
  <2>2. InFlight' \subseteq InFlight
    BY <1>0, <1>6 DEF ServeWrite, InFlight, TypeOK
  <2>3. CASE Accepts(pending[r])
    <3>1. lease' = BuildLease(pending[r]) /\ reply' = [reply EXCEPT ![r] = "ok"]
      BY <1>6, <2>3 DEF ServeWrite
    <3> QED
      BY <1>0, <1>6, <2>1, <2>2, <2>3, <3>1, AppliedWrite DEF ServeWrite, Accepts
  <2>4. CASE ~Accepts(pending[r])
    <3>1. lease' = lease /\ reply'[r] = "conflict"
      BY <1>0, <1>6, <2>4 DEF ServeWrite, TypeOK
    <3>2. AttemptOK(r)'
      BY <1>0, <1>6, <2>1, <3>1 DEF ServeWrite, IInv, AttemptOK, InAttempt, HeldBy, LeaseStart
    <3>3. LeaderOK(r)'
      BY <1>0, <1>6, <2>1, <3>1 DEF ServeWrite, IInv, LeaderOK, InAttempt, HeldBy, LeaseStart,
                                    Running, Reach
    <3> QED
      BY <1>0, <1>6, <2>2, <3>1, <3>2, <3>3, LocalStep DEF ServeWrite, TypeOK
  <2> QED
    BY <2>3, <2>4
<1>7. ASSUME NEW r \in Replica, WriteFails(r) PROVE IInv'
  <2>1. Failed(r)
    BY <1>7 DEF WriteFails
  <2>2. InAttempt(r)
    BY <1>7 DEF WriteFails, InAttempt
  <2>3. now' = now /\ lease' = lease
    BY <1>7 DEF WriteFails
  <2>4. abandoned' = abandoned \/ (call[r] = "write" /\ GiveUpOn(pending[r]))
    BY <1>7 DEF WriteFails
  <2> QED
    BY <1>0, <2>1, <2>2, <2>3, <2>4, Outcome
<1>8. ASSUME NEW r \in Replica, ReceiveReply(r) PROVE IInv'
  <2>1. (Won(r) /\ call[r] = "replied" /\ reply[r] = "ok") \/ Refused(r)
    BY <1>8 DEF ReceiveReply
  <2>2. InAttempt(r)
    BY <1>8 DEF ReceiveReply, InAttempt
  <2>3. now' = now /\ lease' = lease
    BY <1>8 DEF ReceiveReply
  <2>4. abandoned' = abandoned \/ (call[r] = "write" /\ GiveUpOn(pending[r]))
    BY <1>8 DEF ReceiveReply
  <2> QED
    BY <1>0, <2>1, <2>2, <2>3, <2>4, Outcome
<1>9. ASSUME NEW r \in Replica, ReplyLost(r) PROVE IInv'
  <2>1. Failed(r)
    BY <1>9 DEF ReplyLost
  <2>2. InAttempt(r)
    BY <1>9 DEF ReplyLost, InAttempt
  <2>3. now' = now /\ lease' = lease
    BY <1>9 DEF ReplyLost
  <2>4. abandoned' = abandoned \/ (call[r] = "write" /\ GiveUpOn(pending[r]))
    BY <1>9 DEF ReplyLost
  <2> QED
    BY <1>0, <2>1, <2>2, <2>3, <2>4, Outcome
<1>10. ASSUME NEW r \in Replica, Halt(r), now' = now, lease' = lease,
              abandoned' = abandoned \/ (call[r] = "write" /\ GiveUpOn(pending[r]))
       PROVE  IInv'
  <2>1. phase'[r] = "down" /\ call'[r] = "sleep"
    BY <1>0, <1>10 DEF Halt, EndAttempt, TypeOK
  <2>2. AttemptOK(r)' /\ LeaderOK(r)'
    BY <2>1 DEF AttemptOK, LeaderOK, InAttempt, Running
  <2>3. InFlight' \subseteq InFlight
    BY <1>0, <1>10, <2>1 DEF Halt, EndAttempt, InFlight, TypeOK, GiveUpOn
  <2>4. \A w \in abandoned' : w \in abandoned \/ w.from = r
    BY <1>10 DEF IInv, AttemptOK, GiveUpOn
  <2> QED
    BY <1>0, <1>10, <2>2, <2>3, <2>4, LocalStep DEF Halt, EndAttempt, TypeOK
<1>11. ASSUME NEW r \in Replica, StopController(r) PROVE IInv'
  <2>1. Halt(r)
    BY <1>11 DEF StopController
  <2>2. now' = now /\ lease' = lease
    BY <1>11 DEF StopController
  <2>3. abandoned' = abandoned \/ (call[r] = "write" /\ GiveUpOn(pending[r]))
    BY <1>11 DEF StopController
  <2> QED
    BY <2>1, <2>2, <2>3, <1>10
<1>12. ASSUME NEW r \in Replica, Crash(r) PROVE IInv'
  <2>1. Halt(r)
    BY <1>12 DEF Crash
  <2>2. now' = now /\ lease' = lease
    BY <1>12 DEF Crash
  <2>3. abandoned' = abandoned \/ (call[r] = "write" /\ GiveUpOn(pending[r]))
    BY <1>12 DEF Crash
  <2> QED
    BY <2>1, <2>2, <2>3, <1>10
<1>13. ASSUME NEW w \in abandoned, ServeAbandoned(w) PROVE IInv'
  <2>1. w \in InFlight /\ InFlight' \subseteq InFlight /\ abandoned' \subseteq abandoned
    BY <1>13 DEF ServeAbandoned, InFlight
  <2>2. CASE Accepts(w)
    BY <1>0, <1>13, <2>1, <2>2, AppliedWrite DEF ServeAbandoned, Accepts
  <2>3. CASE ~Accepts(w)
    <3>1. lease' = lease
      BY <1>13, <2>3 DEF ServeAbandoned
    <3>2. \A r \in Replica : AttemptOK(r)' /\ LeaderOK(r)'
      BY <1>13, <2>1, <3>1 DEF ServeAbandoned, IInv, AttemptOK, LeaderOK, InAttempt, HeldBy,
                               LeaseStart, Running, Reach
    <3>3. \A v \in InFlight' : WriteOK(v)'
      BY <1>13, <2>1, <3>1 DEF ServeAbandoned, IInv, WriteOK
    <3> QED
      BY <1>0, <1>13, <3>1, <3>2, <3>3 DEF ServeAbandoned, IInv, LeaseOK
  <2> QED
    BY <2>2, <2>3
<1>14. CASE TouchLease
  <2>1. /\ lease'.version = lease.version + 1 /\ lease'.renewed = lease.renewed
        /\ lease'.holder = lease.holder /\ lease'.duration = lease.duration
        /\ lease'.renewTime = lease.renewTime /\ lease.version \in Nat /\ lease.version # 0
    BY <1>0, <1>14 DEF TouchLease, TypeOK, LeaseRecord
  <2>2. LeaseOK'
    BY <1>14, <2>1 DEF TouchLease, IInv, LeaseOK, Clock
  <2>3. \A r \in Replica : AttemptOK(r)' /\ LeaderOK(r)'
    BY <1>14, <2>1 DEF TouchLease, IInv, AttemptOK, LeaderOK, InAttempt, HeldBy, LeaseStart,
                       Running, Reach
  <2>4. ASSUME NEW w \in InFlight' PROVE WriteOK(w)'
    <3>1. w \in InFlight
      BY <1>14, <2>4 DEF TouchLease, InFlight
    <3>2. WriteOK(w) /\ w.base \in Nat
      BY <1>0, <3>1 DEF IInv, InFlight, TypeOK, Write
    <3> QED
      BY <1>14, <2>1, <3>2 DEF TouchLease, WriteOK
  <2> QED
    BY <1>0, <2>2, <2>3, <2>4 DEF IInv
<1>15. CASE Tick
  <2>1. now' = now + 1 /\ now \in Nat
    BY <1>0, <1>15 DEF Tick, TypeOK
  <2>2. LeaseOK'
    BY <1>0, <1>15, <2>1 DEF Tick, IInv, LeaseOK, Clock, TypeOK, LeaseRecord
  <2>3. ASSUME NEW r \in Replica PROVE AttemptOK(r)' /\ LeaderOK(r)'
    <3>1. /\ due[r] \in Nat /\ wake[r] \in Nat /\ start[r] \in Nat
          /\ due'[r] = (IF due[r] > 0 THEN due[r] - 1 ELSE 0)
          /\ wake'[r] = (IF wake[r] > 0 THEN wake[r] - 1 ELSE 0)
          /\ Timed(r) => due[r] > 0
      BY <1>0, <1>15 DEF Tick, TypeOK
    <3>2. AttemptOK(r) /\ LeaderOK(r)
      BY DEF IInv
    <3>3. AttemptOK(r)'
      BY <1>15, <2>1, <3>1, <3>2 DEF Tick, AttemptOK, InAttempt, HeldBy, LeaseStart, Timed, Running
    <3>4. LeaderOK(r)'
      <4>1. LeaseStart(r) \in Int /\ Reach(r) \in Int /\ Reach(r)' = Reach(r)
            /\ LeaseStart(r)' = LeaseStart(r)
        BY <1>0, <1>15 DEF Tick, LeaseStart, Reach, TypeOK, LeaseRecord
      <4>2. Running(r)' => Running(r) /\ due'[r] = due[r] - 1
        BY <1>15, <3>1 DEF Tick, Running, Timed
      <4>3. phase'[r] = "leading" /\ ~InAttempt(r)' => due'[r] <= wake'[r] + MaxLatency
        BY <1>15, <3>1, <3>2 DEF Tick, LeaderOK, InAttempt
      <4> QED
        BY <1>15, <2>1, <3>1, <3>2, <4>1, <4>2, <4>3 DEF Tick, LeaderOK, HeldBy
    <3> QED
      BY <3>3, <3>4
  <2>4. ASSUME NEW w \in InFlight' PROVE WriteOK(w)'
    <3>1. w \in InFlight
      BY <1>15, <2>4 DEF Tick, InFlight
    <3>2. WriteOK(w) /\ w.start \in Nat
      BY <1>0, <3>1 DEF IInv, InFlight, TypeOK, Write
    <3> QED
      BY <1>15, <2>1, <3>2 DEF Tick, WriteOK
  <2> QED
    BY <1>0, <2>2, <2>3, <2>4 DEF IInv
<1>16. CASE UNCHANGED vars
  BY <1>0, <1>16 DEF vars, IInv, LeaseOK, AttemptOK, LeaderOK, WriteOK, InFlight, InAttempt,
                     HeldBy, LeaseStart, Running, Reach
<1> QED
  BY <1>1, <1>2, <1>3, <1>4, <1>5, <1>6, <1>7, <1>8, <1>9, <1>11, <1>12,
     <1>13, <1>14, <1>15, <1>16 DEF Next

-----------------------------------------------------------------------------
(***************************************************************************)
(* The theorems.                                                           *)
(***************************************************************************)
\* The strengthening holds in every reachable state: the lease of a leader is
\* its own and current, and no request in flight can take it away
\* (try_acquire_or_renew and both loops, controller.rs:265-445).
THEOREM InvariantHolds == TimingsSafe => (Spec => []IInv)
<1> SUFFICES ASSUME TimingsSafe PROVE Spec => []IInv
  OBVIOUS
<1>1. IInv /\ [Next]_vars => IInv'
  BY NextIInv
<1> QED
  BY <1>1, InitIInv, PTL DEF Spec

\* With safe timings at most one replica runs its reconcile loop, whatever
\* requests are lost or late and whichever processes crash (README.md:64).
THEOREM OneLeader == TimingsSafe => (Spec => []MutualExclusion)
<1>1. IInv => MutualExclusion
  BY DEF IInv, LeaderOK, HeldBy, MutualExclusion
<1> QED
  BY <1>1, InvariantHolds, PTL

\* With safe timings the replica whose reconcile loop runs is the one the Lease
\* names, and on no other replica's clock has that lease expired.
THEOREM LeaderIsHolder == TimingsSafe => (Spec => []LeaderHoldsLease)
<1>1. TimingsSafe /\ IInv => LeaderHoldsLease
  <2> SUFFICES ASSUME TimingsSafe, IInv, NEW r \in Replica, Running(r)
               PROVE  /\ lease.version # 0
                      /\ lease.holder = r
                      /\ \A q \in Replica \ {r} : Clock(q, now) <= lease.renewTime + lease.duration
    BY DEF LeaderHoldsLease
  <2> USE TimingAssumption, ClockAssumption
  <2>1. HeldBy(r) /\ now + due[r] <= LeaseStart(r) + Reach(r)
    BY DEF IInv, LeaderOK
  <2>2. lease.version # 0 /\ lease.holder = r /\ lease.duration = LeaseDuration[r]
    BY <2>1 DEF IInv, LeaseOK, HeldBy
  <2>3. ASSUME NEW q \in Replica PROVE Clock(q, now) <= lease.renewTime + lease.duration
    <3>1. /\ due[r] \in Nat /\ now \in Nat /\ lease.renewTime \in Int
          /\ ClockOffset[r] \in Int /\ ClockOffset[q] \in Int
          /\ ClockOffset[q] - ClockOffset[r] <= MaxSkew
          /\ RenewPeriod[r] \in Nat /\ LeaseDuration[r] \in Nat
      BY DEF IInv, TypeOK, LeaseRecord
    <3>2. Reach(r) \in Int /\ Reach(r) <= 3 * RenewPeriod[r] + 5 * MaxLatency
      BY <3>1 DEF Reach
    <3>3. 3 * RenewPeriod[r] + 5 * MaxLatency + MaxSkew <= LeaseDuration[r]
      BY DEF TimingsSafe
    <3> QED
      BY <2>1, <2>2, <3>1, <3>2, <3>3 DEF Clock, LeaseStart, HeldBy
  <2> QED
    BY <2>2, <2>3
<1> SUFFICES ASSUME TimingsSafe PROVE Spec => []LeaderHoldsLease
  OBVIOUS
<1>2. IInv => LeaderHoldsLease
  BY <1>1
<1>3. Spec => []IInv
  BY InvariantHolds
<1> QED
  BY <1>2, <1>3, PTL

\* The ways a step can change the Lease.
LEMMA LeaseStep ==
  ASSUME IInv, [Next]_vars
  PROVE  \/ lease' = lease
         \/ lease.version # 0 /\ lease' = [lease EXCEPT !.version = @ + 1]
         \/ \E w \in InFlight : w.base = lease.version /\ lease' = BuildLease(w)
<1>1. ASSUME NEW r \in Replica, ServeWrite(r)
      PROVE  \/ lease' = lease
             \/ \E w \in InFlight : w.base = lease.version /\ lease' = BuildLease(w)
  <2>1. pending[r] \in InFlight
    BY <1>1 DEF ServeWrite, InFlight
  <2> QED
    BY <1>1, <2>1 DEF ServeWrite, Accepts
<1>2. ASSUME NEW w \in abandoned, ServeAbandoned(w)
      PROVE  \/ lease' = lease
             \/ w \in InFlight /\ w.base = lease.version /\ lease' = BuildLease(w)
  BY <1>2 DEF ServeAbandoned, InFlight, Accepts
<1>3. CASE TouchLease
  BY <1>3 DEF TouchLease
<1>4. ASSUME NEW r \in Replica,
             \/ StartProcess(r) \/ BeginAttempt(r) \/ GetHeldByOther(r) \/ GetAvailable(r)
             \/ GetFails(r) \/ WriteFails(r) \/ ReceiveReply(r) \/ ReplyLost(r)
             \/ StopController(r) \/ Crash(r)
      PROVE  lease' = lease
  BY <1>4 DEF StartProcess, BeginAttempt, GetHeldByOther, GetAvailable, GetFails, WriteFails,
              ReceiveReply, ReplyLost, StopController, Crash
<1>5. CASE Tick \/ UNCHANGED vars
  BY <1>5 DEF Tick, vars
<1> QED
  BY <1>1, <1>2, <1>3, <1>4, <1>5 DEF Next

\* What a served write does to the lease that was read for it.
LEMMA ServedWrite ==
  ASSUME IInv, TimingsSafe, NEW w \in InFlight, w.base = lease.version, lease' = BuildLease(w)
  PROVE  /\ lease'.renewed /\ lease'.holder = w.from
         /\ lease'.renewTime = Clock(w.from, w.start)
         /\ lease.renewed => lease.renewTime <= lease'.renewTime
         /\ lease.holder # w.from => IsExpired(lease, w.from, now)
         /\ w = WriteFor(w.from, w.start, lease)
         /\ lease'.acquireTime = w.acquireTime /\ lease'.transitions = w.transitions
<1> USE ClockAssumption
<1>1. w \in Write /\ w.from \in Replica /\ w.start \in Nat /\ WriteOK(w)
  BY DEF IInv, TypeOK, InFlight, Write
<1>2. lease.version \in Nat /\ lease.renewTime \in Int /\ lease.duration \in Nat /\ now \in Nat
  BY DEF IInv, TypeOK, LeaseRecord
<1>3. lease.holder # w.from => IsExpired(lease, w.from, now)
  BY <1>1, <1>2 DEF WriteOK, IsExpired, Clock
<1> QED
  BY <1>1, <1>2, <1>3, AcceptedWrite DEF BuildLease, WriteOK

\* With safe timings the lease is taken from its holder only after the time it
\* had written into the lease, on the clock of the replica that takes it
\* (`is_expired`, controller.rs:308-314, and the resourceVersion of the replace).
THEOREM TakeoverAfterExpiry == TimingsSafe => (Spec => NoEarlyTakeover)
<1> SUFFICES ASSUME TimingsSafe PROVE Spec => NoEarlyTakeover
  OBVIOUS
<1>1. IInv /\ [Next]_vars =>
        [lease.holder # NoReplica /\ lease'.holder # lease.holder
           => Clock(lease'.holder, now) > lease.renewTime + lease.duration]_vars
  <2> SUFFICES ASSUME IInv, [Next]_vars, lease.holder # NoReplica, lease'.holder # lease.holder
               PROVE  Clock(lease'.holder, now) > lease.renewTime + lease.duration
    OBVIOUS
  <2>1. PICK w \in InFlight : w.base = lease.version /\ lease' = BuildLease(w)
    BY LeaseStep DEF IInv, TypeOK, LeaseRecord
  <2>2. lease.renewed
    BY DEF IInv, LeaseOK, TypeOK, LeaseRecord
  <2> QED
    BY <2>1, <2>2, ServedWrite DEF IsExpired
<1>2. Spec => []IInv
  BY InvariantHolds
<1> QED
  BY <1>1, <1>2, PTL DEF Spec, NoEarlyTakeover

\* renewTime never goes back (controller.rs:327-346: every write carries the
\* resourceVersion of the lease that was read for it).
LEMMA RenewTimeNeverGoesBack ==
  ASSUME TimingsSafe, IInv, [Next]_vars PROVE RenewTimeKept
<1> SUFFICES ASSUME lease.renewed
             PROVE  lease'.renewed /\ lease'.renewTime >= lease.renewTime
  BY DEF RenewTimeKept
<1>1. lease \in LeaseRecord /\ lease.renewTime \in Int
  BY DEF IInv, TypeOK, LeaseRecord
<1>2. CASE lease' = lease \/ lease' = [lease EXCEPT !.version = @ + 1]
  BY <1>1, <1>2 DEF LeaseRecord
<1>3. ASSUME NEW w \in InFlight, w.base = lease.version, lease' = BuildLease(w)
      PROVE  lease'.renewed /\ lease'.renewTime >= lease.renewTime
  <2>1. lease'.renewTime \in Int
    BY <1>3, ServedWrite, ClockAssumption DEF IInv, TypeOK, InFlight, Write, Clock
  <2> QED
    BY <1>1, <1>3, <2>1, ServedWrite
<1> QED
  BY <1>2, <1>3, LeaseStep

\* leaseTransitions counts the changes of holder and acquireTime dates from the
\* last of them (controller.rs:316-325).
LEMMA Bookkeeping ==
  ASSUME TimingsSafe, IInv, [Next]_vars PROVE HandoverCounted
<1> SUFFICES ASSUME lease.version # 0 PROVE HandoverCounted
  BY DEF HandoverCounted
<1>1. CASE lease' = lease \/ lease' = [lease EXCEPT !.version = @ + 1]
  BY <1>1 DEF IInv, TypeOK, LeaseRecord, HandoverCounted
<1>2. ASSUME NEW w \in InFlight, w.base = lease.version, lease' = BuildLease(w)
      PROVE  HandoverCounted
  BY <1>2, ServedWrite DEF WriteFor, HandoverCounted
<1> QED
  BY <1>1, <1>2, LeaseStep

\* With safe timings the Lease tells its own history truly: what the takeover of
\* controller.rs:318-337 writes is what has happened.
THEOREM HistoryIsTrue == TimingsSafe => (Spec => LeaseHistory)
<1> SUFFICES ASSUME TimingsSafe PROVE Spec => LeaseHistory
  OBVIOUS
<1>1. IInv /\ [Next]_vars => [RenewTimeKept /\ HandoverCounted]_vars
  BY RenewTimeNeverGoesBack, Bookkeeping
<1>2. Spec => []IInv
  BY InvariantHolds
<1> QED
  BY <1>1, <1>2, PTL DEF Spec, LeaseHistory

\* With safe timings leader election implements the two-stage lock: `run`
\* enters only what the Lease grants it, and the grant outlives its stay.
THEOREM LockIsImplemented == TimingsSafe => (Spec => ImplementsLock)
<1> SUFFICES ASSUME TimingsSafe PROVE Spec => ImplementsLock
  OBVIOUS
<1> DEFINE owners == {r \in Replica : Running(r)}
<1>1. Init => Lock!Init
  BY DEF Init, NoLease, BareLease, EmptyLease, Running, Lock!Init
<1>2. IInv /\ [Next]_vars => [Lock!Next]_Lock!vars
  <2> SUFFICES ASSUME IInv, [Next]_vars PROVE Lock!Next \/ UNCHANGED <<owners, lease.holder>>
    BY DEF Lock!vars
  <2>0. TypeOK /\ TypeOK' /\ \A r \in Replica : Running(r) => lease.holder = r
    BY NextTypeOK DEF IInv, LeaderOK, HeldBy
  <2>1. CASE phase' = phase
    <3>1. owners' = owners
      BY <2>1 DEF Running
    <3>2. CASE lease'.holder = lease.holder
      BY <3>1, <3>2
    <3>3. CASE lease'.holder # lease.holder
      <4>1. PICK w \in InFlight : w.base = lease.version /\ lease' = BuildLease(w)
        BY <3>3, LeaseStep DEF IInv, TypeOK, LeaseRecord
      <4>2. /\ w.from \in Replica
            /\ lease'.holder = w.from
            /\ \A r \in Replica : Running(r) => r = w.from
        BY <4>1, ServedWrite, AcceptedWrite DEF Write
      <4>3. Lock!Grant(w.from)
        BY <3>1, <4>2 DEF Lock!Grant
      <4> QED
        BY <4>2, <4>3 DEF Lock!Next
    <3> QED
      BY <3>2, <3>3
  <2>2. ASSUME NEW r \in Replica, lease' = lease,
               \A q \in Replica \ {r} : phase'[q] = phase[q]
        PROVE  Lock!Next \/ UNCHANGED <<owners, lease.holder>>
    <3>1. CASE Running(r) /\ ~Running(r)'
      <4>1. owners = {r} /\ owners' = {}
        BY <2>0, <2>2, <3>1 DEF Running
      <4> QED
        BY <2>2, <4>1 DEF Lock!Next, Lock!Leave
    <3>2. CASE ~Running(r) /\ Running(r)' /\ lease.holder = r
      <4>1. owners = {} /\ owners' = {r}
        BY <2>0, <2>2, <3>2 DEF Running
      <4> QED
        BY <2>2, <3>2, <4>1 DEF Lock!Next, Lock!Enter
    <3>3. CASE Running(r) <=> Running(r)'
      BY <2>2, <3>3 DEF Running
    <3>4. Running(r)' => lease.holder = r
      BY <2>2, NextIInv DEF IInv, LeaderOK, HeldBy
    <3> QED
      BY <3>1, <3>2, <3>3, <3>4
  <2>3. ASSUME NEW r \in Replica, lease' = lease,
               \/ StartProcess(r) \/ Won(r) \/ Refused(r) \/ Failed(r) \/ Halt(r)
        PROVE  Lock!Next \/ UNCHANGED <<owners, lease.holder>>
    <3>1. \A q \in Replica \ {r} : phase'[q] = phase[q]
      BY <2>0, <2>3 DEF TypeOK, StartProcess, Won, Refused, Failed, Halt, SleepAsStandby, SignalStop
    <3> QED
      BY <2>2, <2>3, <3>1
  <2>4. ASSUME NEW r \in Replica,
               \/ StartProcess(r) \/ GetHeldByOther(r) \/ GetFails(r) \/ WriteFails(r)
               \/ ReceiveReply(r) \/ ReplyLost(r) \/ StopController(r) \/ Crash(r)
        PROVE  Lock!Next \/ UNCHANGED <<owners, lease.holder>>
    <3>1. lease' = lease
      BY <2>4 DEF StartProcess, GetHeldByOther, GetFails, WriteFails, ReceiveReply, ReplyLost,
                  StopController, Crash
    <3>2. StartProcess(r) \/ Won(r) \/ Refused(r) \/ Failed(r) \/ Halt(r)
      BY <2>4 DEF GetHeldByOther, GetFails, WriteFails, ReceiveReply, ReplyLost, StopController,
                  Crash
    <3> QED
      BY <2>3, <3>1, <3>2
  <2>5. ASSUME NEW r \in Replica, BeginAttempt(r) \/ GetAvailable(r) \/ ServeWrite(r)
        PROVE  phase' = phase
    BY <2>5 DEF BeginAttempt, GetAvailable, ServeWrite
  <2>6. ASSUME NEW w \in abandoned, ServeAbandoned(w) PROVE phase' = phase
    BY <2>6 DEF ServeAbandoned
  <2>7. CASE TouchLease \/ Tick \/ UNCHANGED vars
    BY <2>1, <2>7 DEF TouchLease, Tick, vars
  <2> QED
    BY <2>1, <2>4, <2>5, <2>6, <2>7 DEF Next
<1>3. Spec => []IInv
  BY InvariantHolds
<1> QED
  BY <1>1, <1>2, <1>3, PTL DEF Spec, ImplementsLock, Lock!Spec
=============================================================================
