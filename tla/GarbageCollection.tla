-------------------------- MODULE GarbageCollection --------------------------
(***************************************************************************)
(* `gc_resources` of crates/koprs/src/gc.rs: list the labelled resources   *)
(* of every namespace, then, one by one, keep, unblock or delete each,     *)
(* while other clients create, edit, delete and release the same objects   *)
(* between any two of its calls.  What a pass does to an object rests on   *)
(* what the list said of it, and reaches whatever has its name by then in  *)
(* the namespace of the scope.                                             *)
(***************************************************************************)
EXTENDS Naturals

CONSTANTS
  Key,             \* the (namespace, name) pairs of the labelled resources
  Target(_),       \* the object a call by name reaches: the scoped Api has one
                   \* namespace, whichever the listed resource lives in
  MaxRevision      \* bound of the model: how often each key is created or edited

ASSUME KeyAssumption ==
  /\ \A k \in Key : Target(k) \in Key
  /\ MaxRevision \in [Key -> Nat \ {0}]

VARIABLES
  object,   \* [Key -> the object in the API server]
  pc,       \* where the pass is
  todo,     \* what the pass has listed and not yet looked at
  current   \* what it has deleted and is about to unblock, as a set

gcVars == <<object, pc, todo, current>>
pass == <<pc, todo, current>>

\* wanted: what is_desired answers of the object; revision: how often the object of
\* this name has been created or edited; finalizers: some controller has to finish
\* first; foreground: the dependents of a deleted object have to go first.
Stored ==
  [alive : BOOLEAN, wanted : BOOLEAN, terminating : BOOLEAN, finalizers : BOOLEAN,
   foreground : BOOLEAN, revision : Nat]

\* What gc_inner reads of a listed object; the revision is for the properties only.
Listed == [key : Key, wanted : BOOLEAN, terminating : BOOLEAN, revision : Nat]

Absent(n) ==
  [alive |-> FALSE, wanted |-> FALSE, terminating |-> FALSE, finalizers |-> FALSE,
   foreground |-> FALSE, revision |-> n]

Fresh(wanted, finalizers, n) ==
  [alive |-> TRUE, wanted |-> wanted, terminating |-> FALSE, finalizers |-> finalizers,
   foreground |-> FALSE, revision |-> n]

\* A terminating object goes as soon as nothing holds it.
Settle(o) ==
  IF o.alive /\ o.terminating /\ ~o.finalizers /\ ~o.foreground THEN Absent(o.revision) ELSE o

\* The server's side of a delete with DeleteParams::foreground; one that is
\* terminating already is left as it is.
DeletedInForeground(o) ==
  IF o.terminating THEN o ELSE [o EXCEPT !.terminating = TRUE, !.foreground = TRUE]

DeleteCall(k) ==
  /\ object[k].alive
  /\ object' = [object EXCEPT ![k] = DeletedInForeground(@)]

\* The server's side of `clear_finalizers`: a merge patch of all finalizers, which
\* no resourceVersion or uid ties to the object that was listed.
ClearFinalizers(k) ==
  object' = IF object[k].alive
            THEN [object EXCEPT ![k] = Settle([@ EXCEPT !.finalizers = FALSE, !.foreground = FALSE])]
            ELSE object

\* A patch that fails is ignored.
TryClearFinalizers(k) == ClearFinalizers(k) \/ UNCHANGED object

GcInit ==
  /\ object \in [Key -> {Absent(0)} \cup {Fresh(w, f, 1) : w, f \in BOOLEAN}]
  /\ pc = "idle"
  /\ todo = {}
  /\ current = {}

-----------------------------------------------------------------------------
(***************************************************************************)
(* The pass.                                                               *)
(***************************************************************************)
List ==
  /\ pc = "idle"
  /\ pc' = "loop"
  /\ todo' = {[key |-> k, wanted |-> object[k].wanted, terminating |-> object[k].terminating,
               revision |-> object[k].revision] : k \in {j \in Key : object[j].alive}}
  /\ UNCHANGED <<object, current>>

\* is_desired, of the object as it was listed: the loop continues.
Keep(i) ==
  /\ pc = "loop"
  /\ i.wanted
  /\ todo' = todo \ {i}
  /\ UNCHANGED <<object, pc, current>>

\* Mutant of Unblock: a terminating object is left alone.
UnblockNothing(i) ==
  /\ pc = "loop"
  /\ ~i.wanted
  /\ i.terminating
  /\ todo' = todo \ {i}
  /\ UNCHANGED <<object, pc, current>>

\* Mutant of Unblock: what is terminating is unblocked before is_desired is asked.
UnblockFirst(i) ==
  /\ pc = "loop"
  /\ i.terminating
  /\ TryClearFinalizers(Target(i.key))
  /\ todo' = todo \ {i}
  /\ UNCHANGED <<pc, current>>

\* An orphan that was terminating when listed: its finalizers are cleared.
Unblock(i) ==
  /\ pc = "loop"
  /\ ~i.wanted
  /\ i.terminating
  /\ TryClearFinalizers(Target(i.key))
  /\ todo' = todo \ {i}
  /\ UNCHANGED <<pc, current>>

\* Mutant of Delete: whatever was listed is deleted.
DeleteAll(i) ==
  /\ pc = "loop"
  /\ ~i.terminating
  /\ DeleteCall(Target(i.key))
  /\ pc' = "clear"
  /\ current' = {i}
  /\ todo' = todo \ {i}

\* Any other orphan is deleted, in the foreground; Ok.
Delete(i) ==
  /\ pc = "loop"
  /\ ~i.wanted
  /\ ~i.terminating
  /\ DeleteCall(Target(i.key))
  /\ pc' = "clear"
  /\ current' = {i}
  /\ todo' = todo \ {i}

\* Then its finalizers are cleared, the foreground one included.
ClearDeleted ==
  /\ pc = "clear"
  /\ \E i \in current : TryClearFinalizers(Target(i.key))
  /\ pc' = "loop"
  /\ current' = {}
  /\ UNCHANGED todo

\* 404: somebody else was faster.
AlreadyDeleted(i) ==
  /\ pc = "loop"
  /\ ~i.wanted
  /\ ~i.terminating
  /\ ~object[Target(i.key)].alive
  /\ todo' = todo \ {i}
  /\ UNCHANGED <<object, pc, current>>

\* Any other error, also a lost answer, ends the pass; the reconcile that ran it
\* is retried.
DeleteFails(i) ==
  /\ pc = "loop"
  /\ ~i.wanted
  /\ ~i.terminating
  /\ pc' = "idle"
  /\ todo' = {}
  /\ DeleteCall(Target(i.key)) \/ UNCHANGED object
  /\ UNCHANGED current

EndPass ==
  /\ pc = "loop"
  /\ todo = {}
  /\ pc' = "idle"
  /\ UNCHANGED <<object, todo, current>>

-----------------------------------------------------------------------------
(***************************************************************************)
(* The other clients of the API server.                                    *)
(***************************************************************************)
Create(k) ==
  /\ ~object[k].alive
  /\ object[k].revision < MaxRevision[k]
  /\ \E w, f \in BOOLEAN :
       object' = [object EXCEPT ![k] = Fresh(w, f, @.revision + 1)]
  /\ UNCHANGED pass

\* A change of what is_desired looks at.
Edit(k) ==
  /\ object[k].alive
  /\ object[k].revision < MaxRevision[k]
  /\ object' = [object EXCEPT ![k].wanted = ~@, ![k].revision = @ + 1]
  /\ UNCHANGED pass

DeleteByOther(k) ==
  /\ object[k].alive
  /\ ~object[k].terminating
  /\ object' = [object EXCEPT ![k] = Settle([@ EXCEPT !.terminating = TRUE])]
  /\ UNCHANGED pass

\* The controller behind a finalizer has finished.
Release(k) ==
  /\ object[k].alive
  /\ object[k].finalizers
  /\ object' = [object EXCEPT ![k] = Settle([@ EXCEPT !.finalizers = FALSE])]
  /\ UNCHANGED pass

\* The dependents of an object deleted in the foreground are gone.
DependentsGone(k) ==
  /\ object[k].alive
  /\ object[k].foreground
  /\ object' = [object EXCEPT ![k] = Settle([@ EXCEPT !.foreground = FALSE])]
  /\ UNCHANGED pass

-----------------------------------------------------------------------------
Gc ==
  \/ List \/ ClearDeleted \/ EndPass
  \/ \E i \in todo :
       Keep(i) \/ Unblock(i) \/ Delete(i) \/ AlreadyDeleted(i) \/ DeleteFails(i)

Others ==
  \E k \in Key : Create(k) \/ Edit(k) \/ DeleteByOther(k) \/ Release(k) \/ DependentsGone(k)

GcNext == Gc \/ Others

\* What the scoped Api reaches by the name it was listed with.
InScopeKeys == {k \in Key : Target(k) = k}

\* The reconciler runs pass after pass, each to its end; a call that is made
\* again and again succeeds in the end.  Nothing obliges the other clients.
GcFairness ==
  /\ WF_gcVars(Gc)
  /\ \A k \in InScopeKeys :
       /\ SF_gcVars(\E i \in todo : i.key = k /\ Delete(i))
       /\ SF_gcVars(\E i \in todo : i.key = k /\ Unblock(i) /\ ClearFinalizers(Target(k)))

GcSpec == GcInit /\ [][GcNext]_gcVars /\ GcFairness

-----------------------------------------------------------------------------
(***************************************************************************)
(* Properties.                                                             *)
(***************************************************************************)
\* The variables keep their types; nothing is left to do between passes, and what
\* a pass is about to unblock was listed as nothing that is_desired wants kept.
GcTypeOK ==
  /\ object \in [Key -> Stored]
  /\ pc \in {"idle", "loop", "clear"}
  /\ todo \subseteq Listed
  /\ current \subseteq Listed
  /\ \A i \in current : ~i.wanted
  /\ pc = "idle" => todo = {}
  /\ pc = "clear" <=> current # {}

\* A step of the pass, as opposed to one of the other clients.
GcStep == pc' # pc \/ todo' # todo

\* The two ways in which a listed object can stand for another one, by the time of
\* a call by its name.
Outdated(i) == i.revision # object[i.key].revision
OutOfScope(i) == i.key \notin InScopeKeys

\* A pass changes an object that is_desired wants kept ("deletes any for which
\* is_desired returns false", gc.rs:83-84) only if what it has listed is outdated,
\* because the object has been created again or edited since, or is of another
\* namespace than the scope's, however others delete, create and edit meanwhile
\* and however passes break off.
DesiredUntouched ==
  [][GcStep =>
       \A k \in Key :
         object[k].alive /\ object[k].wanted /\ object'[k] # object[k] =>
           \E i \in todo \cup current : Target(i.key) = k /\ (Outdated(i) \/ OutOfScope(i))]_gcVars

\* Every orphan in the scope goes, or becomes desired, also one that others hold by
\* a finalizer, or that the pass failed to unblock, or that was deleted by others.
OrphansCollected ==
  \A k \in InScopeKeys :
    object[k].alive /\ ~object[k].wanted ~> ~object[k].alive \/ object[k].wanted
=============================================================================
