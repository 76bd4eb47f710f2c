---------------------------- MODULE ControllerRun ----------------------------
(***************************************************************************)
(* One process in `ControllerBuilder::run`, crates/koprs/src/controller.rs:*)
(* start-up, the shutdown task, the wait for the lease, the renew task (of *)
(* which only its end is seen here; LeaderElection has the rest), the      *)
(* reconcile loop with its timeout, error policy and readiness flag, and   *)
(* the select! that ends the loop.                                         *)
(*                                                                         *)
(* The queue of kube_runtime::Controller, which the code drives, is        *)
(* external: an object is due now, or later, or not at all; an object is   *)
(* reconciled by one task at a time and at most Concurrency tasks run.     *)
(***************************************************************************)
EXTENDS Naturals, FiniteSets

CONSTANTS
  Object,            \* the primary resources
  GracefulShutdown,  \* .graceful_shutdown() was called
  UseLease,          \* .leader_election() was called
  ReconcileTimeout,  \* .reconcile_timeout() was called
  Concurrency,       \* .concurrency(n), 0 is unbounded
  MaxVersion         \* bound of the model: changes of one object

ASSUME ConfigAssumption ==
  /\ GracefulShutdown \in BOOLEAN
  /\ UseLease \in BOOLEAN
  /\ ReconcileTimeout \in BOOLEAN
  /\ Concurrency \in Nat
  /\ MaxVersion \in Nat

VARIABLES
  main,      \* where `run` is
  handler,   \* the task that waits for the shutdown signal
  signal,    \* SIGTERM or Ctrl+C has been sent to the process
  renewing,  \* the lease is held and its renew task runs
  stop,      \* the value of the stop channel
  ready,     \* the flag behind GET /readyz
  version,   \* [Object -> how often it has changed]
  queue,     \* objects due to be reconciled now
  timers,    \* objects due later: a requeue, a retry
  task,      \* [Object -> what its reconcile is doing]
  seen,      \* [Object -> the version its reconcile was given, 0 without one]
  done       \* [Object -> the version last reconciled with success]

work == <<queue, timers, task, seen, done>>
vars == <<main, handler, signal, renewing, stop, ready, version, work>>

Alive == {"starting", "waiting", "running"}

\* What `run` has spawned lives as long as the process, which may outlive `run`.
ProcessUp == main \in Alive \cup {"returned"}
Finished == {"ok", "err", "timeout"}

Running == main = "running"
Busy == {o \in Object : task[o] # "none"}
HasSlot == Concurrency = 0 \/ Cardinality(Busy) < Concurrency

Init ==
  /\ main = "starting"
  /\ handler = "none"
  /\ signal = FALSE
  /\ renewing = FALSE
  /\ stop = FALSE
  /\ ready = FALSE
  /\ version = [o \in Object |-> 1]
  /\ queue = {}
  /\ timers = {}
  /\ task = [o \in Object |-> "none"]
  /\ seen = [o \in Object |-> 0]
  /\ done = [o \in Object |-> 0]

-----------------------------------------------------------------------------
(***************************************************************************)
(* Start-up and the tasks around the loop.                                 *)
(***************************************************************************)
\* The loop starts with the initial list: every object is due.
StartLoop ==
  /\ main' = "running"
  /\ queue' = Object

\* The health or the metrics port is in use: `run` returns the error.
BindFails ==
  /\ main = "starting"
  /\ main' = "failed"
  /\ UNCHANGED <<handler, signal, renewing, stop, ready, version, work>>

\* The ports are bound and the shutdown task is spawned.
Launch ==
  /\ main = "starting"
  /\ handler' = IF GracefulShutdown THEN "spawned" ELSE "none"
  /\ \/ UseLease /\ main' = "waiting" /\ UNCHANGED queue
     \/ ~UseLease /\ StartLoop
  /\ UNCHANGED <<signal, renewing, stop, ready, version, timers, task, seen, done>>

\* shutdown_signal installs its handlers when its task is first polled.
InstallHandler ==
  /\ handler = "spawned"
  /\ ProcessUp
  /\ handler' = "installed"
  /\ UNCHANGED <<main, signal, renewing, stop, ready, version, work>>

\* acquire_leader_lease returns, the renew task is spawned.
AcquireLease ==
  /\ main = "waiting"
  /\ StartLoop
  /\ renewing' = TRUE
  /\ UNCHANGED <<handler, signal, stop, ready, version, timers, task, seen, done>>

DropWork ==
  /\ queue' = {}
  /\ timers' = {}
  /\ task' = [o \in Object |-> "none"]
  /\ seen' = [o \in Object |-> 0]
  /\ UNCHANGED done

\* The signal is delivered to the handlers there are; it ends a process that has
\* none, and one that is installed later does not see it.
Signal(handled) ==
  /\ ProcessUp
  /\ ~signal
  /\ signal' = TRUE
  /\ handler' = IF handler = "installed" THEN "notified" ELSE handler
  /\ IF handled
     THEN UNCHANGED <<main, renewing, work>>
     ELSE main' = "killed" /\ renewing' = FALSE /\ DropWork
  /\ UNCHANGED <<stop, ready, version>>

\* Mutant of HandleSignal: the shutdown task ends without a word.
HandleSignalQuietly ==
  /\ ProcessUp
  /\ handler = "notified"
  /\ handler' = "fired"
  /\ UNCHANGED <<main, signal, renewing, stop, ready, version, work>>

\* The shutdown task sees the signal.
HandleSignal ==
  /\ ProcessUp
  /\ handler = "notified"
  /\ handler' = "fired"
  /\ stop' = TRUE
  /\ UNCHANGED <<main, signal, renewing, ready, version, work>>

\* Mutant of LoseLease: the renew loop ends without a word.
LoseLeaseQuietly ==
  /\ ProcessUp
  /\ renewing
  /\ renewing' = FALSE
  /\ UNCHANGED <<main, handler, signal, stop, ready, version, work>>

\* The renew loop gives the lease up and ends.  Nothing but this ends it: a loop that
\* a signal has ended leaves it renewing.
LoseLease ==
  /\ ProcessUp
  /\ renewing
  /\ renewing' = FALSE
  /\ stop' = TRUE
  /\ UNCHANGED <<main, handler, signal, ready, version, work>>

\* Mutant of StopLoop: the reconciles are detached from the loop.
StopLoopDetached ==
  /\ Running
  /\ stop
  /\ main' = "returned"
  /\ queue' = {}
  /\ timers' = {}
  /\ UNCHANGED <<handler, signal, renewing, stop, ready, version, task, seen, done>>

\* The select! takes the stop branch: run_loop is dropped with everything in it.
StopLoop ==
  /\ Running
  /\ stop
  /\ main' = "returned"
  /\ DropWork
  /\ UNCHANGED <<handler, signal, renewing, stop, ready, version>>

-----------------------------------------------------------------------------
(***************************************************************************)
(* The reconcile loop.                                                     *)
(***************************************************************************)
\* The object changes; a running loop is told by its watch, and after it nobody looks.
Change(o) ==
  /\ main \in Alive
  /\ version[o] < MaxVersion
  /\ version' = [version EXCEPT ![o] = @ + 1]
  /\ IF Running
     THEN queue' = queue \cup {o} /\ timers' = timers \ {o}
     ELSE UNCHANGED <<queue, timers>>
  /\ UNCHANGED <<main, handler, signal, renewing, stop, ready, task, seen, done>>

\* The queue hands the object, as it is now, to the reconciler.
Start(o) ==
  /\ Running
  /\ o \in queue
  /\ task[o] = "none"
  /\ HasSlot
  /\ queue' = queue \ {o}
  /\ task' = [task EXCEPT ![o] = "running"]
  /\ seen' = [seen EXCEPT ![o] = version[o]]
  /\ UNCHANGED <<main, handler, signal, renewing, stop, ready, version, timers, done>>

\* The reconciler returns Ok or Err, or waits for something that never comes.
Succeed(o) ==
  /\ task[o] = "running"
  /\ task' = [task EXCEPT ![o] = "ok"]
  /\ done' = [done EXCEPT ![o] = seen[o]]
  /\ UNCHANGED <<main, handler, signal, renewing, stop, ready, version, queue, timers, seen>>

Fail(o) ==
  /\ task[o] = "running"
  /\ task' = [task EXCEPT ![o] = "err"]
  /\ UNCHANGED <<main, handler, signal, renewing, stop, ready, version, queue, timers, seen, done>>

Hang(o) ==
  /\ task[o] = "running"
  /\ task' = [task EXCEPT ![o] = "hung"]
  /\ UNCHANGED <<main, handler, signal, renewing, stop, ready, version, queue, timers, seen, done>>

\* Mutant of TimeOut: only a reconcile that makes progress is timed.
TimeOutRunning(o) ==
  /\ ReconcileTimeout
  /\ task[o] = "running"
  /\ task' = [task EXCEPT ![o] = "timeout"]
  /\ UNCHANGED <<main, handler, signal, renewing, stop, ready, version, queue, timers, seen, done>>

\* tokio::time::timeout drops the reconcile and answers Ok(requeue(t)).
TimeOut(o) ==
  /\ ReconcileTimeout
  /\ task[o] \in {"running", "hung"}
  /\ task' = [task EXCEPT ![o] = "timeout"]
  /\ UNCHANGED <<main, handler, signal, renewing, stop, ready, version, queue, timers, seen, done>>

\* A requeue of an object that is already due is absorbed by the queue.
RequeueLater(o) ==
  timers' = IF o \in queue THEN timers ELSE timers \cup {o}

\* Mutants of Requeue: an object that is due already is due once more; a reconcile
\* that timed out awaits the next change.
RequeueTwice(o) == timers' = timers \cup {o}

RequeueUnlessTimedOut(o) ==
  \/ task[o] = "err" /\ RequeueLater(o)
  \/ task[o] = "ok" /\ RequeueLater(o)
  \/ task[o] \in {"ok", "timeout"} /\ UNCHANGED timers

\* The Action of the result: the reconciler's own (requeue or await_change),
\* requeue(t) after a timeout, error_policy's requeue after an error.
Requeue(o) ==
  \/ task[o] \in {"err", "timeout"} /\ RequeueLater(o)
  \/ task[o] = "ok" /\ RequeueLater(o)
  \/ task[o] = "ok" /\ UNCHANGED timers

\* The loop takes the result out of the stream: /readyz turns to 200.
Deliver(o) ==
  /\ Running
  /\ task[o] \in Finished
  /\ task' = [task EXCEPT ![o] = "none"]
  /\ seen' = [seen EXCEPT ![o] = 0]
  /\ Requeue(o)
  /\ ready' = TRUE
  /\ UNCHANGED <<main, handler, signal, renewing, stop, version, queue, done>>

TimerFires(o) ==
  /\ o \in timers
  /\ timers' = timers \ {o}
  /\ queue' = queue \cup {o}
  /\ UNCHANGED <<main, handler, signal, renewing, stop, ready, version, task, seen, done>>

-----------------------------------------------------------------------------
\* All but the signal, which is one for the whole process.
ControllerStep ==
  \/ BindFails \/ Launch \/ InstallHandler \/ AcquireLease
  \/ HandleSignal \/ LoseLease \/ StopLoop
  \/ \E o \in Object :
       \/ Change(o) \/ Start(o) \/ Succeed(o) \/ Fail(o) \/ Hang(o) \/ TimeOut(o)
       \/ Deliver(o) \/ TimerFires(o)

Next == ControllerStep \/ Signal(handler = "installed")

\* tokio polls every task that can make progress.  The queue is served in the
\* order of due times, so a due object is not passed over for ever, and a
\* reconcile that is attempted again and again succeeds in the end.  Nothing
\* makes the lease come, the signal arrive or a port bind.
Fairness ==
  /\ WF_vars(InstallHandler) /\ WF_vars(HandleSignal) /\ WF_vars(StopLoop)
  /\ \A o \in Object :
       /\ SF_vars(Start(o)) /\ SF_vars(Succeed(o))
       /\ WF_vars(TimeOut(o)) /\ WF_vars(Deliver(o)) /\ WF_vars(TimerFires(o))

Spec == Init /\ [][Next]_vars /\ Fairness

-----------------------------------------------------------------------------
(***************************************************************************)
(* Properties.                                                             *)
(***************************************************************************)
\* The variables keep their types, and an object is due at most once: now or
\* later.
TypeOK ==
  /\ main \in Alive \cup {"failed", "killed", "returned", "gone"}
  /\ handler \in {"none", "spawned", "installed", "notified", "fired"}
  /\ signal \in BOOLEAN
  /\ renewing \in BOOLEAN
  /\ stop \in BOOLEAN
  /\ ready \in BOOLEAN
  /\ version \in [Object -> Nat]
  /\ queue \subseteq Object
  /\ timers \subseteq Object
  /\ task \in [Object -> {"none", "running", "hung"} \cup Finished]
  /\ seen \in [Object -> Nat]
  /\ done \in [Object -> Nat]
  /\ queue \cap timers = {}

\* While the loop runs, an object whose last change has not been reconciled with
\* success is due now or later, or a reconcile has it in hand: no change, error
\* or timeout that overlaps another one is forgotten.
NoLostWork ==
  Running => \A o \in Object :
    \/ done[o] = version[o]
    \/ o \in queue \cup timers
    \/ task[o] # "none"

\* Once `run` has returned no reconcile of it goes on: a replica that has lost
\* its lease changes nothing any more.
NothingRunsAfterReturn ==
  main \notin Alive => Busy = {}

\* Every change of an object is reconciled with success, and the replica becomes
\* ready, unless the loop ends: a loop that runs is never behind for ever.
EveryChangeReconciled ==
  \A o \in Object :
    []<>(Running => done[o] = version[o] /\ ready)

-----------------------------------------------------------------------------
\* The inductive invariant behind NoLostWork: a reconcile in hand whose object
\* has changed since is followed by another one, and an object that is not in
\* hand is up to date or due (the loop of controller.rs:846-896).
ObjectOK(o) ==
  /\ task[o] = "none" => done[o] = version[o] \/ o \in queue \cup timers
  /\ task[o] # "none" => seen[o] = version[o] \/ o \in queue
  /\ task[o] = "ok" => done[o] = seen[o]

IInv ==
  /\ TypeOK
  /\ Running => \A o \in Object : ObjectOK(o)
  /\ ~Running =>
       /\ queue = {} /\ timers = {}
       /\ \A o \in Object : task[o] = "none"
=============================================================================
