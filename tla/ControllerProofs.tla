-------------------------- MODULE ControllerProofs --------------------------
(***************************************************************************)
(* Theorems about a controller: the loop that runs its passes              *)
(* (ControllerRun in the process of OperatorProcess, alone or joined with  *)
(* another `run`), and the garbage collection a pass does                  *)
(* (GarbageCollection), for every set of objects and every configuration.  *)
(***************************************************************************)
EXTENDS OperatorProcess, GarbageCollection, TLAPS

-----------------------------------------------------------------------------
(***************************************************************************)
(* The run loop.                                                           *)
(***************************************************************************)
\* A fresh process keeps the invariant: nothing runs yet.
LEMMA InitIInv == Init => IInv
<1> SUFFICES ASSUME Init PROVE IInv
  OBVIOUS
<1>1. TypeOK
  BY DEF Init, TypeOK, Alive, Finished
<1> QED
  BY <1>1 DEF Init, IInv, Running

\* Every step of the controller, and a signal, keep the types.
LEMMA StepTypeOK ==
  ASSUME IInv, NEW handled \in BOOLEAN, ControllerStep \/ Signal(handled) PROVE TypeOK'
<1> SUFFICES ASSUME TypeOK, ~Running => queue = {} /\ timers = {} PROVE TypeOK'
  BY DEF IInv
<1> USE DEF TypeOK, Alive, Finished, work
<1>1. CASE BindFails
  BY <1>1 DEF BindFails
<1>2. CASE Launch
  BY <1>2 DEF Launch, StartLoop, Running
<1>3. CASE InstallHandler
  BY <1>3 DEF InstallHandler
<1>4. CASE AcquireLease
  BY <1>4 DEF AcquireLease, StartLoop, Running
<1>5. CASE Signal(handled)
  <2>1. CASE handled
    BY <1>5, <2>1 DEF Signal
  <2>2. CASE ~handled
    <3>1. DropWork /\ main' = "killed" /\ renewing' = FALSE
      BY <1>5, <2>2 DEF Signal
    <3>2. UNCHANGED <<stop, ready, version>> /\ signal' = TRUE
      BY <1>5 DEF Signal
    <3>3. handler' \in {"none", "spawned", "installed", "notified", "fired"}
      BY <1>5 DEF Signal
    <3> QED
      BY <3>1, <3>2, <3>3 DEF DropWork
  <2> QED
    BY <2>1, <2>2
<1>6. CASE HandleSignal
  BY <1>6 DEF HandleSignal
<1>7. CASE LoseLease
  BY <1>7 DEF LoseLease
<1>8. CASE StopLoop
  BY <1>8 DEF StopLoop, DropWork
<1>9. ASSUME NEW o \in Object, Change(o) PROVE TypeOK'
  BY <1>9 DEF Change
<1>10. ASSUME NEW o \in Object, Start(o) PROVE TypeOK'
  BY <1>10 DEF Start
<1>11. ASSUME NEW o \in Object, Succeed(o) PROVE TypeOK'
  BY <1>11 DEF Succeed
<1>12. ASSUME NEW o \in Object, Fail(o) \/ Hang(o) \/ TimeOut(o) PROVE TypeOK'
  BY <1>12 DEF Fail, Hang, TimeOut
<1>13. ASSUME NEW o \in Object, Deliver(o) PROVE TypeOK'
  BY <1>13 DEF Deliver, Requeue, RequeueLater
<1>14. ASSUME NEW o \in Object, TimerFires(o) PROVE TypeOK'
  BY <1>14 DEF TimerFires
<1> QED
  BY <1>1, <1>2, <1>3, <1>4, <1>5, <1>6, <1>7, <1>8, <1>9, <1>10, <1>11, <1>12, <1>13,
     <1>14 DEF ControllerStep

\* They keep each object up to date, due, or in hand.
LEMMA StepIInv ==
  ASSUME IInv, NEW handled \in BOOLEAN, ControllerStep \/ Signal(handled) PROVE IInv'
<1> DEFINE Kept == /\ Running => \A p \in Object : ObjectOK(p)
                   /\ ~Running => queue = {} /\ timers = {} /\ \A p \in Object : task[p] = "none"
<1>0. TypeOK /\ TypeOK' /\ Kept
  BY StepTypeOK DEF IInv
<1>1. ASSUME BindFails \/ InstallHandler \/ HandleSignal \/ LoseLease PROVE Kept'
  BY <1>0, <1>1 DEF BindFails, InstallHandler, HandleSignal, LoseLease, work, Running, ObjectOK
<1>2. ASSUME Launch \/ AcquireLease PROVE Kept'
  BY <1>0, <1>2 DEF Launch, AcquireLease, StartLoop, Running, ObjectOK
<1>3. ASSUME Signal(handled) PROVE Kept'
  BY <1>0, <1>3 DEF Signal, DropWork, work, Running, ObjectOK, Alive
<1>4. ASSUME StopLoop PROVE Kept'
  BY <1>4 DEF StopLoop, DropWork, Running
<1>5. ASSUME NEW o \in Object, Change(o) PROVE Kept'
  BY <1>0, <1>5 DEF Change, Running, ObjectOK, TypeOK
<1>6. ASSUME NEW o \in Object, Start(o) PROVE Kept'
  BY <1>0, <1>6 DEF Start, Running, ObjectOK, TypeOK
<1>7. ASSUME NEW o \in Object, Succeed(o) PROVE Kept'
  BY <1>0, <1>7 DEF Succeed, Running, ObjectOK, TypeOK
<1>8. ASSUME NEW o \in Object, Fail(o) \/ Hang(o) \/ TimeOut(o) PROVE Kept'
  BY <1>0, <1>8 DEF Fail, Hang, TimeOut, Running, ObjectOK, TypeOK
<1>9. ASSUME NEW o \in Object, Deliver(o) PROVE Kept'
  BY <1>0, <1>9 DEF Deliver, Requeue, RequeueLater, Running, ObjectOK, TypeOK, Finished
<1>10. ASSUME NEW o \in Object, TimerFires(o) PROVE Kept'
  BY <1>0, <1>10 DEF TimerFires, Running, ObjectOK
<1>11. Kept'
  <2> HIDE DEF Kept
  <2> QED
    BY <1>1, <1>2, <1>3, <1>4, <1>5, <1>6, <1>7, <1>8, <1>9, <1>10 DEF ControllerStep
<1> QED
  BY <1>0, <1>11 DEF IInv

\* The end of the process leaves nothing in hand.
LEMMA ExitIInv == ASSUME IInv, NEW how, Exit(how) PROVE IInv'
<1>1. TypeOK'
  BY DEF Exit, DropWork, IInv, TypeOK, Finished
<1> QED
  BY <1>1 DEF Exit, DropWork, IInv, Running

\* So does everything that happens in the process.
LEMMA ProcessNextIInv == IInv /\ [ProcessNext]_processVars => IInv'
<1> SUFFICES ASSUME IInv, [ProcessNext]_processVars PROVE IInv'
  OBVIOUS
<1>1. ASSUME UNCHANGED vars PROVE IInv'
  BY <1>1 DEF vars, work, IInv, TypeOK, Running, ObjectOK
<1>2. CASE ControllerStep
  BY <1>2, StepIInv
<1>3. CASE PartnerStep
  <2>1. UNCHANGED vars
    BY <1>3 DEF PartnerStep, PartnerFails, PartnerLaunches, PartnerAcquires, PartnerInstalls,
                PartnerIsTold, PartnerStops, PartnerLosesLease
  <2> QED
    BY <2>1, <1>1
<1>4. CASE ProcessSignal
  <2> DEFINE handled == "installed" \in {handler, partnerHandler}
  <2>1. handled \in BOOLEAN /\ Signal(handled)
    BY <1>4 DEF ProcessSignal
  <2> HIDE DEF handled
  <2> QED
    BY <2>1, StepIInv
<1>5. CASE ExitOk \/ ExitErr
  BY <1>5, ExitIInv DEF ExitOk, ExitErr
<1>6. CASE UNCHANGED processVars
  BY <1>6, <1>1 DEF processVars
<1> QED
  BY <1>2, <1>3, <1>4, <1>5, <1>6 DEF ProcessNext

\* While the reconcile loop runs, no change, error or timeout is forgotten
\* (controller.rs:846-896): an object that is not up to date is due or in hand.
THEOREM WorkIsNeverLost == ProcessSpec => []NoLostWork
<1>1. ProcessInit => IInv
  BY InitIInv DEF ProcessInit
<1>2. IInv => NoLostWork
  BY DEF IInv, ObjectOK, NoLostWork
<1> QED
  BY <1>1, <1>2, ProcessNextIInv, PTL DEF ProcessSpec

\* No reconcile survives the loop that started it, whatever ends that: the select! of
\* controller.rs:898-906, a signal, or the failure of the other `run`.
THEOREM StoppedMeansIdle == ProcessSpec => []NothingRunsAfterReturn
<1>1. ProcessInit => IInv
  BY InitIInv DEF ProcessInit
<1>2. IInv => NothingRunsAfterReturn
  BY DEF IInv, Running, Busy, NothingRunsAfterReturn, Alive
<1> QED
  BY <1>1, <1>2, ProcessNextIInv, PTL DEF ProcessSpec

\* Of the process itself: its parts have their types, and at its end nothing of them
\* goes on.
LEMMA ProcessNextTypeOK ==
  IInv /\ IInv' /\ ProcessTypeOK /\ [ProcessNext]_processVars => ProcessTypeOK'
<1> SUFFICES ASSUME ProcessTypeOK, TypeOK', [ProcessNext]_processVars PROVE ProcessTypeOK'
  BY DEF IInv
<1> USE DEF ProcessTypeOK, PartnerAlive
<1>1. CASE exit = "no" /\ ControllerStep /\ UNCHANGED joined
  BY <1>1 DEF joined
<1>2. CASE exit = "no" /\ PartnerStep
  <2>1. exit' = exit
    BY <1>2 DEF PartnerStep, PartnerFails, PartnerLaunches, PartnerAcquires, PartnerInstalls,
                PartnerIsTold, PartnerStops, PartnerLosesLease
  <2> QED
    BY <1>2, <2>1 DEF PartnerStep, PartnerFails, PartnerLaunches, PartnerAcquires,
                PartnerInstalls, PartnerIsTold, PartnerStops, PartnerLosesLease
<1>3. CASE exit = "no" /\ ProcessSignal
  <2>1. CASE main' = "killed"
    <3>1. renewing' = FALSE
      BY <1>3, <2>1 DEF ProcessSignal, Signal, ProcessUp, Alive
    <3> QED
      BY <1>3, <2>1, <3>1 DEF ProcessSignal, Alive
  <2>2. CASE main' # "killed"
    BY <1>3, <2>2 DEF ProcessSignal
  <2> QED
    BY <2>1, <2>2
<1>4. ASSUME NEW how \in {"ok", "err"}, Exit(how) PROVE ProcessTypeOK'
  BY <1>4 DEF Exit
<1>5. CASE UNCHANGED processVars
  BY <1>5 DEF processVars, joined, vars
<1> QED
  BY <1>1, <1>2, <1>3, <1>4, <1>5 DEF ProcessNext, ExitOk, ExitErr

\* The types of the process and of its controller (try_join! of
\* apiconfigsync/main.rs:72 and multicontroller/main.rs:95): when it has ended no
\* `run` goes on and no lease is renewed.
THEOREM ProcessTyped == ProcessSpec => []ProcessTypeOK
<1>1. ProcessInit => IInv /\ ProcessTypeOK
  BY InitIInv DEF ProcessInit, IInv, ProcessTypeOK, PartnerAlive
<1> QED
  BY <1>1, ProcessNextIInv, ProcessNextTypeOK, PTL DEF ProcessSpec

-----------------------------------------------------------------------------
(***************************************************************************)
(* Garbage collection.  What is listed stays true of the object until the  *)
(* next revision of its name, so a pass that calls by the name it has      *)
(* listed, in the namespace it has listed, can hit a desired object only   *)
(* of a later revision: for any number of resources and of clients, and    *)
(* for every scope.                                                        *)
(***************************************************************************)
\* n is what has become of o: the same object, which is_desired judges the same, or
\* nothing, or one of a later revision.
Later(o, n) ==
  /\ o.revision <= n.revision
  /\ n.alive /\ n.revision = o.revision => o.alive /\ n.wanted = o.wanted

\* What a pass has in hand was true once, and is until the next revision.
ListedTrue(i) ==
  /\ i.revision <= object[i.key].revision
  /\ object[i.key].alive /\ i.revision = object[i.key].revision => object[i.key].wanted = i.wanted

GcInv == GcTypeOK /\ \A i \in todo \cup current : ListedTrue(i)

\* The server keeps objects, or removes them.
LEMMA SettleIs ==
  ASSUME NEW o \in Stored
  PROVE  Settle(o) \in Stored /\ Later(o, Settle(o))
  <1>1. o.revision \in Nat
    BY DEF Stored
  <1>2. /\ Absent(o.revision) \in Stored
        /\ ~Absent(o.revision).alive /\ Absent(o.revision).revision = o.revision
    BY <1>1 DEF Absent, Stored
  <1>3. Settle(o) = o \/ Settle(o) = Absent(o.revision)
    BY DEF Settle
  <1> QED
    BY <1>1, <1>2, <1>3 DEF Later

\* An object that is marked or released is the same one still, or goes.
LEMMA MarkedIs ==
  ASSUME NEW o \in Stored, NEW t \in BOOLEAN, NEW f \in BOOLEAN, NEW g \in BOOLEAN
  PROVE  LET n == [o EXCEPT !.terminating = t, !.finalizers = f, !.foreground = g]
         IN /\ n \in Stored /\ Later(o, n)
            /\ Settle(n) \in Stored /\ Later(o, Settle(n))
  <1> DEFINE n == [o EXCEPT !.terminating = t, !.finalizers = f, !.foreground = g]
  <1>1. n \in Stored /\ n.alive = o.alive /\ n.wanted = o.wanted /\ n.revision = o.revision
    BY DEF Stored
  <1>2. o.revision \in Nat /\ n.revision \in Nat
    BY <1>1 DEF Stored
  <1> HIDE DEF n
  <1>3. Settle(n) \in Stored /\ Later(n, Settle(n))
    BY <1>1, SettleIs
  <1>4. Later(o, n) /\ Later(o, Settle(n))
    BY <1>1, <1>2, <1>3 DEF Later
  <1> QED
    BY <1>1, <1>3, <1>4 DEF n

\* A call or a client changes one object into what has become of it.
LEMMA ObjectUpdate ==
  ASSUME object \in [Key -> Stored], NEW k \in Key, NEW n \in Stored, Later(object[k], n),
         object' = [object EXCEPT ![k] = n]
  PROVE  /\ object' \in [Key -> Stored]
         /\ \A j \in Key : Later(object[j], object'[j])
         /\ \A j \in Key \ {k} : object'[j] = object[j]
  <1>1. \A j \in Key : object[j].revision \in Nat
    BY DEF Stored
  <1> QED
    BY <1>1 DEF Later

\* So does none.
LEMMA NoUpdate ==
  ASSUME object \in [Key -> Stored], object' = object
  PROVE  /\ object' \in [Key -> Stored]
         /\ \A j \in Key : Later(object[j], object'[j])
  <1>1. \A j \in Key : object[j].revision \in Nat
    BY DEF Stored
  <1> QED
    BY <1>1 DEF Later

\* Clearing finalizers changes the target only, if anything.
LEMMA ClearIs ==
  ASSUME object \in [Key -> Stored], NEW k \in Key, TryClearFinalizers(k)
  PROVE  /\ object' \in [Key -> Stored]
         /\ \A j \in Key : Later(object[j], object'[j])
         /\ \A j \in Key \ {k} : object'[j] = object[j]
  <1> DEFINE n == Settle([object[k] EXCEPT !.finalizers = FALSE, !.foreground = FALSE])
  <1>1. object[k] \in Stored /\ object[k].terminating \in BOOLEAN
    BY DEF Stored
  <1>2. [object[k] EXCEPT !.finalizers = FALSE, !.foreground = FALSE]
          = [object[k] EXCEPT !.terminating = object[k].terminating, !.finalizers = FALSE,
                              !.foreground = FALSE]
    BY <1>1 DEF Stored
  <1>3. n \in Stored /\ Later(object[k], n)
    BY <1>1, <1>2, MarkedIs
  <1>4. object' = object \/ object' = [object EXCEPT ![k] = n]
    BY DEF TryClearFinalizers, ClearFinalizers
  <1> HIDE DEF n
  <1> QED
    BY <1>3, <1>4, ObjectUpdate, NoUpdate

\* A delete changes the target only.
LEMMA DeleteIs ==
  ASSUME object \in [Key -> Stored], NEW k \in Key, DeleteCall(k)
  PROVE  /\ object' \in [Key -> Stored]
         /\ \A j \in Key : Later(object[j], object'[j])
         /\ \A j \in Key \ {k} : object'[j] = object[j]
  <1> DEFINE n == DeletedInForeground(object[k])
  <1>1. /\ object[k] \in Stored
        /\ object[k].finalizers \in BOOLEAN /\ object[k].revision \in Nat
    BY DEF Stored
  <1>2. n \in Stored /\ Later(object[k], n)
    <2>1. CASE object[k].terminating
      BY <1>1, <2>1 DEF DeletedInForeground, Later
    <2>2. CASE ~object[k].terminating
      <3>1. n = [object[k] EXCEPT !.terminating = TRUE, !.finalizers = object[k].finalizers,
                                  !.foreground = TRUE]
        BY <1>1, <2>2 DEF DeletedInForeground, Stored
      <3> QED
        BY <1>1, <3>1, MarkedIs
    <2> QED
      BY <2>1, <2>2
  <1>3. object' = [object EXCEPT ![k] = n]
    BY DEF DeleteCall
  <1> HIDE DEF n
  <1> QED
    BY <1>2, <1>3, ObjectUpdate

\* The other clients leave objects behind, and the pass alone.
LEMMA OthersAre ==
  ASSUME object \in [Key -> Stored], Others
  PROVE  /\ object' \in [Key -> Stored]
         /\ \A j \in Key : Later(object[j], object'[j])
         /\ UNCHANGED pass
  <1>1. PICK k \in Key : Create(k) \/ Edit(k) \/ DeleteByOther(k) \/ Release(k) \/ DependentsGone(k)
    BY DEF Others
  <1>2. /\ object[k] \in Stored
        /\ object[k].terminating \in BOOLEAN /\ object[k].finalizers \in BOOLEAN
        /\ object[k].foreground \in BOOLEAN /\ object[k].revision \in Nat
    BY DEF Stored
  <1>3. CASE Create(k)
    <2>1. PICK w \in BOOLEAN, f \in BOOLEAN :
            object' = [object EXCEPT ![k] = Fresh(w, f, object[k].revision + 1)]
      BY <1>3 DEF Create
    <2>2. /\ Fresh(w, f, object[k].revision + 1) \in Stored
          /\ Later(object[k], Fresh(w, f, object[k].revision + 1))
      BY <1>2 DEF Fresh, Stored, Later
    <2> QED
      BY <1>3, <2>1, <2>2, ObjectUpdate DEF Create
  <1>4. CASE Edit(k)
    <2> DEFINE n == [object[k] EXCEPT !.wanted = ~object[k].wanted, !.revision = object[k].revision + 1]
    <2>0. /\ (~object[k].wanted) \in BOOLEAN /\ object[k].revision + 1 \in Nat
          /\ object[k].revision < object[k].revision + 1
      BY <1>2 DEF Stored
    <2>1. n \in Stored /\ n.revision = object[k].revision + 1
      <3>1. \A b \in BOOLEAN, m \in Nat :
              /\ [object[k] EXCEPT !.wanted = b, !.revision = m] \in Stored
              /\ [object[k] EXCEPT !.wanted = b, !.revision = m].revision = m
        BY <1>2 DEF Stored
      <3> QED
        BY <2>0, <3>1
    <2>a. Later(object[k], n)
      BY <1>2, <2>1 DEF Later
    <2>2. object' = [object EXCEPT ![k] = n]
      BY <1>4 DEF Edit
    <2> HIDE DEF n
    <2> QED
      BY <1>4, <2>1, <2>a, <2>2, ObjectUpdate DEF Edit
  <1>5. CASE DeleteByOther(k)
    <2> DEFINE n == Settle([object[k] EXCEPT !.terminating = TRUE])
    <2>1. [object[k] EXCEPT !.terminating = TRUE]
            = [object[k] EXCEPT !.terminating = TRUE, !.finalizers = object[k].finalizers,
                                !.foreground = object[k].foreground]
      BY <1>2 DEF Stored
    <2>2. n \in Stored /\ Later(object[k], n)
      BY <1>2, <2>1, MarkedIs
    <2>3. object' = [object EXCEPT ![k] = n]
      BY <1>5 DEF DeleteByOther
    <2> HIDE DEF n
    <2> QED
      BY <1>5, <2>2, <2>3, ObjectUpdate DEF DeleteByOther
  <1>6. CASE Release(k)
    <2> DEFINE n == Settle([object[k] EXCEPT !.finalizers = FALSE])
    <2>1. [object[k] EXCEPT !.finalizers = FALSE]
            = [object[k] EXCEPT !.terminating = object[k].terminating, !.finalizers = FALSE,
                                !.foreground = object[k].foreground]
      BY <1>2 DEF Stored
    <2>2. n \in Stored /\ Later(object[k], n)
      BY <1>2, <2>1, MarkedIs
    <2>3. object' = [object EXCEPT ![k] = n]
      BY <1>6 DEF Release
    <2> HIDE DEF n
    <2> QED
      BY <1>6, <2>2, <2>3, ObjectUpdate DEF Release
  <1>7. CASE DependentsGone(k)
    <2> DEFINE n == Settle([object[k] EXCEPT !.foreground = FALSE])
    <2>1. [object[k] EXCEPT !.foreground = FALSE]
            = [object[k] EXCEPT !.terminating = object[k].terminating,
                                !.finalizers = object[k].finalizers, !.foreground = FALSE]
      BY <1>2 DEF Stored
    <2>2. n \in Stored /\ Later(object[k], n)
      BY <1>2, <2>1, MarkedIs
    <2>3. object' = [object EXCEPT ![k] = n]
      BY <1>7 DEF DependentsGone
    <2> HIDE DEF n
    <2> QED
      BY <1>7, <2>2, <2>3, ObjectUpdate DEF DependentsGone
  <1> QED
    BY <1>1, <1>3, <1>4, <1>5, <1>6, <1>7

\* Every step keeps the types, and turns objects into what becomes of them.
LEMMA GcTypeStep ==
  ASSUME GcTypeOK, [GcNext]_gcVars
  PROVE  GcTypeOK' /\ \A j \in Key : Later(object[j], object'[j])
  <1> USE DEF GcTypeOK
  <1> DEFINE Goal == GcTypeOK' /\ \A j \in Key : Later(object[j], object'[j])
  <1>0. \A i \in todo \cup current : i.key \in Key /\ Target(i.key) \in Key
    BY KeyAssumption DEF Listed
  <1>1. CASE List
    <2>1. todo' \subseteq Listed
      BY <1>1 DEF List, Listed, Stored
    <2> QED
      BY <1>1, <2>1, NoUpdate DEF List
  <1>2. CASE ClearDeleted
    <2>1. PICK i \in current : TryClearFinalizers(Target(i.key))
      BY <1>2 DEF ClearDeleted
    <2> QED
      BY <1>0, <1>2, <2>1, ClearIs DEF ClearDeleted
  <1>3. CASE EndPass
    BY <1>3, NoUpdate DEF EndPass
  <1>4. ASSUME NEW i \in todo, Keep(i) \/ AlreadyDeleted(i) PROVE Goal
    BY <1>4, NoUpdate DEF Keep, AlreadyDeleted
  <1>5. ASSUME NEW i \in todo, Unblock(i) PROVE Goal
    BY <1>0, <1>5, ClearIs DEF Unblock
  <1>6. ASSUME NEW i \in todo, Delete(i) PROVE Goal
    BY <1>0, <1>6, DeleteIs DEF Delete
  <1>7. ASSUME NEW i \in todo, DeleteFails(i) PROVE Goal
    BY <1>0, <1>7, DeleteIs, NoUpdate DEF DeleteFails
  <1>8. CASE Others
    BY <1>8, OthersAre DEF pass
  <1>9. CASE UNCHANGED gcVars
    BY <1>9, NoUpdate DEF gcVars
  <1> QED
    BY <1>1, <1>2, <1>3, <1>4, <1>5, <1>6, <1>7, <1>8, <1>9 DEF GcNext, Gc

\* What a pass has in hand it has just listed, or had in hand before.
LEMMA GcInvStep ==
  ASSUME GcInv, [GcNext]_gcVars
  PROVE  GcInv'
  <1>1. /\ GcTypeOK /\ GcTypeOK'
        /\ \A j \in Key : Later(object[j], object'[j])
        /\ \A j \in Key : object[j].revision \in Nat /\ object'[j].revision \in Nat
    BY GcTypeStep DEF GcInv, GcTypeOK, Stored
  <1>2. ASSUME NEW i \in todo \cup current PROVE ListedTrue(i)'
    <2>1. i.key \in Key /\ i.revision \in Nat /\ ListedTrue(i)
      BY <1>1 DEF GcInv, GcTypeOK, Listed
    <2> QED
      BY <1>1, <2>1 DEF ListedTrue, Later
  <1>3. CASE List
    <2>1. object' = object /\ current' = {}
      BY <1>1, <1>3 DEF List, GcTypeOK
    <2>2. \A i \in todo' : ListedTrue(i)'
      BY <1>1, <1>3, <2>1 DEF List, ListedTrue
    <2> QED
      BY <1>1, <2>1, <2>2 DEF GcInv
  <1>4. CASE ~List
    <2>1. todo' \cup current' \subseteq todo \cup current
      BY <1>4 DEF GcNext, Gc, gcVars, ClearDeleted, EndPass, Keep, Unblock, Delete, AlreadyDeleted,
        DeleteFails, Others, Create, Edit, DeleteByOther, Release, DependentsGone, pass
    <2> QED
      BY <1>1, <1>2, <2>1 DEF GcInv
  <1> QED
    BY <1>3, <1>4

\* There is nothing in hand at first.
LEMMA GcInitInv == GcInit => GcInv
  <1>1. Absent(0) \in Stored
    BY DEF Absent, Stored
  <1>2. \A w, f \in BOOLEAN : Fresh(w, f, 1) \in Stored
    BY DEF Fresh, Stored
  <1> QED
    BY <1>1, <1>2 DEF GcInit, GcInv, GcTypeOK

\* The variables keep their types for any resources and scope; what a pass is about
\* to unblock was never listed as desired (gc.rs:38-50).
THEOREM GcTypeCorrect == GcSpec => []GcTypeOK
  <1>1. GcInv => GcTypeOK
    BY DEF GcInv
  <1> QED
    BY <1>1, GcInitInv, GcInvStep, PTL DEF GcSpec

\* For every scope, whatever the other clients do between its calls, a pass of
\* gc_resources changes a desired object only where its list is outdated, or is of a
\* namespace the scope does not reach (gc.rs:38-50 and 131-135).
THEOREM DesiredSurvives == GcSpec => DesiredUntouched
  <1> DEFINE Excused(k) ==
               \E i \in todo \cup current : Target(i.key) = k /\ (Outdated(i) \/ OutOfScope(i))
             Kept == GcStep =>
                       \A k \in Key : object[k].alive /\ object[k].wanted /\ object'[k] # object[k]
                                        => Excused(k)
  <1>1. ASSUME GcInv, [GcNext]_gcVars PROVE [Kept]_gcVars
    <2>0. /\ object \in [Key -> Stored]
          /\ \A i \in todo \cup current : i.key \in Key /\ Target(i.key) \in Key /\ ListedTrue(i)
          /\ \A i \in current : ~i.wanted
      BY <1>1, KeyAssumption DEF GcInv, GcTypeOK, Listed
    <2>1. ASSUME NEW i \in todo \cup current, ~i.wanted, NEW k \in Key, Target(i.key) = k,
                 object[k].alive, object[k].wanted
          PROVE  Excused(k)
      <3>1. CASE i.key = k
        <4>1. Outdated(i)
          BY <2>0, <2>1, <3>1 DEF ListedTrue, Outdated
        <4> QED
          BY <2>1, <4>1
      <3>2. CASE i.key # k
        <4>1. OutOfScope(i)
          BY <2>1, <3>2 DEF OutOfScope, InScopeKeys
        <4> QED
          BY <2>1, <4>1
      <3> QED
        BY <3>1, <3>2
    <2>2. ASSUME NEW i \in todo \cup current, ~i.wanted,
                 \A j \in Key \ {Target(i.key)} : object'[j] = object[j]
          PROVE  Kept
      <3> HIDE DEF Excused
      <3> QED
        BY <2>1, <2>2
    <2>3. ASSUME object' = object PROVE Kept
      BY <2>3
    <2>4. CASE List \/ EndPass
      BY <2>3, <2>4 DEF List, EndPass
    <2>5. CASE ClearDeleted
      <3>1. PICK i \in current : TryClearFinalizers(Target(i.key))
        BY <2>5 DEF ClearDeleted
      <3> HIDE DEF Kept
      <3> QED
        BY <2>0, <2>2, <3>1, ClearIs
    <2>6. ASSUME NEW i \in todo, Keep(i) \/ AlreadyDeleted(i) PROVE Kept
      BY <2>3, <2>6 DEF Keep, AlreadyDeleted
    <2>7. ASSUME NEW i \in todo, Unblock(i) PROVE Kept
      <3>1. ~i.wanted /\ TryClearFinalizers(Target(i.key))
        BY <2>7 DEF Unblock
      <3> HIDE DEF Kept
      <3> QED
        BY <2>0, <2>2, <3>1, ClearIs
    <2>8. ASSUME NEW i \in todo, Delete(i) \/ DeleteFails(i) PROVE Kept
      <3>1. ~i.wanted /\ (DeleteCall(Target(i.key)) \/ object' = object)
        BY <2>8 DEF Delete, DeleteFails
      <3> HIDE DEF Kept
      <3> QED
        BY <2>0, <2>2, <2>3, <3>1, DeleteIs
    <2>9. CASE Others
      BY <2>9, <2>0, OthersAre DEF pass, GcStep
    <2>10. CASE UNCHANGED gcVars
      BY <2>10
    <2> QED
      BY <1>1, <2>4, <2>5, <2>6, <2>7, <2>8, <2>9, <2>10 DEF GcNext, Gc
  <1> QED
    BY <1>1, GcInitInv, GcInvStep, PTL DEF GcSpec, DesiredUntouched
=============================================================================
