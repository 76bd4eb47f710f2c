---------------------------- MODULE SyncOperator ----------------------------
(***************************************************************************)
(* The reconciler of examples/configmapsync (reconciler.rs) with the koprs *)
(* calls it makes: `add_finalizer`, `ensure_resource`, `gc_resources`,     *)
(* `patch_labels`, `patch_status`, `delete_resource`, `remove_finalizers`. *)
(* Each custom resource (CR) wants one ConfigMap, named after it, in a     *)
(* target namespace.  A pass works on the CR as the operator's cache had   *)
(* it; between any two of its calls users create, edit and delete CRs and  *)
(* other clients touch finalizers and ConfigMaps.  The passes of one CR    *)
(* follow each other, those of different CRs overlap (ControllerRun).      *)
(***************************************************************************)
EXTENDS Naturals

CONSTANTS
  Cr,         \* the CRs; no two of them have the same name
  Want,       \* the specs a CR can have
  Target,     \* [Want -> the target namespace]
  Namespace,
  WantsOf,    \* [Cr -> the specs its users may give it]
  Drifted,    \* content of a ConfigMap that somebody else has edited
  Absent,     \* no ConfigMap; no spec
  MaxEdits    \* bound of the model: [Cr -> what others do to it and its ConfigMap]

ASSUME SyncAssumption ==
  /\ Target \in [Want -> Namespace]
  /\ WantsOf \in [Cr -> SUBSET Want]
  /\ Drifted \notin Want /\ Absent \notin Want /\ Drifted # Absent
  /\ MaxEdits \in [Cr -> Nat]

VARIABLES
  cr,         \* [Cr -> the CR in the API server]
  configmap,  \* [Namespace -> [Cr -> the ConfigMap called after the CR]]
  version,    \* [Namespace -> [Cr -> its resourceVersion, or its last one]]
  cache,      \* [Cr -> the CR in the operator's reflector store]
  pc,         \* [Cr -> the next call of its pass]
  given,      \* [Cr -> the CR its pass was given]
  liveRv,     \* [Cr -> the resourceVersion the GET of ensure_resource has read]
  todo,       \* [Cr -> names gc_resources has listed and has yet to delete]
  edits,      \* [Cr -> how often others have acted]
  replaced    \* history: the CRs of which a successor was created while the
              \* operator still had the predecessor in hand or in its store

stored == <<configmap, version>>
apiserver == <<cr, stored>>
pass == <<pc, given, todo>>
others == <<edits, replaced>>
vars == <<apiserver, cache, pass, liveRv, others>>

\* own: the operator's finalizer; other: the finalizer of another controller;
\* status: the spec that the status speaks of.
CrRecord ==
  {c \in [alive : BOOLEAN, terminating : BOOLEAN, own : BOOLEAN, other : BOOLEAN,
          want : Want \cup {Absent}, status : Want \cup {Absent}] :
     c.alive => c.want \in Want}

NoCr ==
  [alive |-> FALSE, terminating |-> FALSE, own |-> FALSE, other |-> FALSE,
   want |-> Absent, status |-> Absent]

NewCr(w, other) ==
  [alive |-> TRUE, terminating |-> FALSE, own |-> FALSE, other |-> other,
   want |-> w, status |-> Absent]

\* A terminating CR goes with its last finalizer.
Held(c, own, other) ==
  IF c.terminating /\ ~own /\ ~other
  THEN NoCr
  ELSE [alive |-> c.alive, terminating |-> c.terminating, own |-> own, other |-> other,
        want |-> c.want, status |-> c.status]

\* The server marks a CR with finalizers only.
Deleted(c) == Held([c EXCEPT !.terminating = TRUE], c.own, c.other)

WithSpec(c, w) == [c EXCEPT !.want = w]

WithStatus(c, w) == [c EXCEPT !.status = w]

Content == Want \cup {Drifted, Absent}

\* No ConfigMap has this resourceVersion.
NotFound == 0

Syncing == {"get", "apply", "event", "list", "gc", "label", "status"}

SyncedCr(w) ==
  [alive |-> TRUE, terminating |-> FALSE, own |-> TRUE, other |-> FALSE, want |-> w, status |-> w]

\* The operator starts, with an empty store; an earlier process has left some CRs
\* in sync.
Init ==
  /\ cr \in [Cr -> {NoCr} \cup {SyncedCr(w) : w \in Want}]
  /\ \A o \in Cr : cr[o].alive => cr[o].want \in WantsOf[o]
  /\ configmap = [n \in Namespace |-> [o \in Cr |->
                    IF cr[o].alive /\ Target[cr[o].want] = n THEN cr[o].want ELSE Absent]]
  /\ version = [n \in Namespace |-> [o \in Cr |-> IF configmap[n][o] = Absent THEN 0 ELSE 1]]
  /\ cache = [o \in Cr |-> NoCr]
  /\ pc = [o \in Cr |-> "idle"]
  /\ given = [o \in Cr |-> NoCr]
  /\ liveRv = [o \in Cr |-> NotFound]
  /\ todo = [o \in Cr |-> {}]
  /\ edits = [o \in Cr |-> 0]
  /\ replaced = {}

-----------------------------------------------------------------------------
(***************************************************************************)
(* A pass.  Each call continues with `next`, which is "idle" when the pass *)
(* ends with it: its answer is lost, the pass times out, the process dies. *)
(***************************************************************************)
\* Mutant of Goto: what the pass was given outlives it.
GotoAndKeep(o, next) ==
  /\ pc' = [pc EXCEPT ![o] = next]
  /\ UNCHANGED given

Goto(o, next) ==
  /\ pc' = [pc EXCEPT ![o] = next]
  /\ given' = IF next = "idle" THEN [given EXCEPT ![o] = NoCr] ELSE given

\* The namespace the pass works in.
TargetOf(o) == Target[given[o].want]

\* A write that changes something, or deletes, gives a new resourceVersion.
PutConfigMap(n, p, content) ==
  /\ configmap' = [configmap EXCEPT ![n][p] = content]
  /\ version' = [version EXCEPT ![n][p] = IF content = configmap[n][p] THEN @ ELSE @ + 1]

\* Every result of a pass but that of the cleanup asks for another one, and so
\* does every change the watches report: a pass may begin at any time.
Begin(o) ==
  /\ pc[o] = "idle"
  /\ cache[o].alive
  /\ pc' = [pc EXCEPT ![o] = IF cache[o].terminating THEN "cleanup" ELSE "finalizer"]
  /\ given' = [given EXCEPT ![o] = cache[o]]
  /\ UNCHANGED <<apiserver, cache, liveRv, todo, others>>

\* The CR that was given has the finalizer: no call is made.
HasFinalizer(o) ==
  /\ pc[o] = "finalizer"
  /\ given[o].own
  /\ Goto(o, "get")
  /\ UNCHANGED <<apiserver, cache, liveRv, todo, others>>

\* The server refuses new finalizers on a terminating CR (422).
AcceptsFinalizers(c, own, other) ==
  c.alive /\ (c.terminating => (own => c.own) /\ (other => c.other))

\* Mutant of AddFinalizer: the error of the patch is ignored.
AddFinalizerIfPossible(o, next) ==
  /\ pc[o] = "finalizer"
  /\ ~given[o].own
  /\ cr' = IF AcceptsFinalizers(cr[o], TRUE, given[o].other)
           THEN [cr EXCEPT ![o] = Held(@, TRUE, given[o].other)]
           ELSE cr
  /\ Goto(o, next)
  /\ UNCHANGED <<stored, cache, liveRv, todo, others>>

\* The patch replaces the list by the given one and the new finalizer.
AddFinalizer(o, next) ==
  /\ pc[o] = "finalizer"
  /\ ~given[o].own
  /\ AcceptsFinalizers(cr[o], TRUE, given[o].other)
  /\ cr' = [cr EXCEPT ![o] = Held(@, TRUE, given[o].other)]
  /\ Goto(o, next)
  /\ UNCHANGED <<stored, cache, liveRv, todo, others>>

AddFinalizerRefused(o) ==
  /\ pc[o] = "finalizer"
  /\ ~given[o].own
  /\ ~AcceptsFinalizers(cr[o], TRUE, given[o].other)
  /\ Goto(o, "idle")
  /\ UNCHANGED <<apiserver, cache, liveRv, todo, others>>

\* ensure_resource reads the ConfigMap, and keeps its resourceVersion.
Get(o) ==
  /\ pc[o] = "get"
  /\ Goto(o, "apply")
  /\ liveRv' = [liveRv EXCEPT ![o] = IF configmap[TargetOf(o)][o] = Absent
                                    THEN NotFound
                                    ELSE version[TargetOf(o)][o]]
  /\ UNCHANGED <<apiserver, cache, todo, others>>

\* Mutant of IsUnchanged: what was there is taken for unchanged.
WasThere(o) == liveRv[o] # NotFound

\* Unchanged: it was there, and the answer to the apply (`applied_rv`) has the
\* resourceVersion that was read.
IsUnchanged(o) == liveRv[o] # NotFound /\ version'[TargetOf(o)][o] = liveRv[o]

\* Mutant of Apply: without force, the fields of another manager are a conflict.
ApplyUnforced(o, unchangedNext, changedNext) ==
  /\ pc[o] = "apply"
  /\ IF configmap[TargetOf(o)][o] = Drifted
     THEN Goto(o, "idle") /\ UNCHANGED stored
     ELSE /\ PutConfigMap(TargetOf(o), o, given[o].want)
          /\ Goto(o, IF IsUnchanged(o) THEN unchangedNext ELSE changedNext)
  /\ liveRv' = [liveRv EXCEPT ![o] = NotFound]
  /\ UNCHANGED <<cr, cache, todo, others>>

\* The forced server-side apply creates or corrects it.
Apply(o, unchangedNext, changedNext) ==
  /\ pc[o] = "apply"
  /\ PutConfigMap(TargetOf(o), o, given[o].want)
  /\ Goto(o, IF IsUnchanged(o) THEN unchangedNext ELSE changedNext)
  /\ liveRv' = [liveRv EXCEPT ![o] = NotFound]
  /\ UNCHANGED <<cr, cache, todo, others>>

\* record_event, of a ConfigMap that was created or corrected.
RecordEvent(o) ==
  /\ pc[o] = "event"
  /\ Goto(o, "list")
  /\ UNCHANGED <<apiserver, cache, liveRv, todo, others>>

\* gc_resources lists the ConfigMaps of all CRs, in all namespaces; is_desired
\* keeps the one of this name.
GcList(o) ==
  /\ pc[o] = "list"
  /\ Goto(o, "gc")
  /\ todo' = [todo EXCEPT ![o] = {p \in Cr \ {o} : \E n \in Namespace : configmap[n][p] # Absent}]
  /\ UNCHANGED <<apiserver, cache, liveRv, others>>

\* It deletes the others by name, in the pass's own target namespace; a 404 is
\* no error.  GarbageCollection has the two calls of a deletion apart.
GcDelete(o, p, next) ==
  /\ pc[o] = "gc"
  /\ p \in todo[o]
  /\ PutConfigMap(TargetOf(o), p, Absent)
  /\ todo' = [todo EXCEPT ![o] = IF next = "idle" THEN {} ELSE @ \ {p}]
  /\ Goto(o, next)
  /\ UNCHANGED <<cr, cache, liveRv, others>>

GcEnd(o) ==
  /\ pc[o] = "gc"
  /\ todo[o] = {}
  /\ Goto(o, "label")
  /\ UNCHANGED <<apiserver, cache, liveRv, todo, others>>

\* patch_labels: nothing the operator reads; it needs the CR to be there.
PatchLabels(o) ==
  /\ pc[o] = "label"
  /\ Goto(o, IF cr[o].alive THEN "status" ELSE "idle")
  /\ UNCHANGED <<apiserver, cache, liveRv, todo, others>>

\* patch_status writes what was given, not what the CR wants now.
PatchStatus(o) ==
  /\ pc[o] = "status"
  /\ cr' = IF cr[o].alive THEN [cr EXCEPT ![o] = WithStatus(@, given[o].want)] ELSE cr
  /\ Goto(o, "idle")
  /\ UNCHANGED <<stored, cache, liveRv, todo, others>>

-----------------------------------------------------------------------------
(***************************************************************************)
(* The pass of a terminating CR.                                           *)
(***************************************************************************)
\* delete_resource; Ok(false) when it was gone already.
DeleteConfigMap(o, next) ==
  /\ pc[o] = "cleanup"
  /\ PutConfigMap(TargetOf(o), o, Absent)
  /\ Goto(o, next)
  /\ UNCHANGED <<cr, cache, liveRv, todo, others>>

\* Mutant of RemoveFinalizers: only the operator's own is taken off.
RemoveOwnFinalizer(o) ==
  /\ pc[o] = "unfinalize"
  /\ cr' = IF cr[o].alive THEN [cr EXCEPT ![o] = Held(@, FALSE, @.other)] ELSE cr
  /\ Goto(o, "idle")
  /\ UNCHANGED <<stored, cache, liveRv, todo, others>>

\* remove_finalizers takes all of them off, those of others too; a CR that is
\* gone answers 404.
RemoveFinalizers(o) ==
  /\ pc[o] = "unfinalize"
  /\ cr' = IF cr[o].alive THEN [cr EXCEPT ![o] = Held(@, FALSE, FALSE)] ELSE cr
  /\ Goto(o, "idle")
  /\ UNCHANGED <<stored, cache, liveRv, todo, others>>

-----------------------------------------------------------------------------
\* A step of the pass of o whose call succeeds.
Step(o) ==
  \/ HasFinalizer(o) \/ AddFinalizer(o, "get") \/ AddFinalizerRefused(o)
  \/ Get(o) \/ Apply(o, "list", "event") \/ RecordEvent(o)
  \/ GcList(o) \/ GcEnd(o) \/ \E p \in Cr : GcDelete(o, p, "gc")
  \/ PatchLabels(o) \/ PatchStatus(o)
  \/ DeleteConfigMap(o, "unfinalize") \/ RemoveFinalizers(o)

\* The pass ends before its next call reaches the server.
GiveUp(o) ==
  /\ pc[o] # "idle"
  /\ Goto(o, "idle")
  /\ liveRv' = [liveRv EXCEPT ![o] = NotFound]
  /\ todo' = [todo EXCEPT ![o] = {}]
  /\ UNCHANGED <<apiserver, cache, others>>

\* It ends with a call that the server has processed.
LoseAnswer(o) ==
  \/ AddFinalizer(o, "idle") \/ Apply(o, "idle", "idle")
  \/ \E p \in Cr : GcDelete(o, p, "idle")
  \/ DeleteConfigMap(o, "idle")

\* The watch brings the store up to date.
Observe(o) ==
  /\ cache[o] # cr[o]
  /\ cache' = [cache EXCEPT ![o] = cr[o]]
  /\ UNCHANGED <<apiserver, pass, liveRv, others>>

-----------------------------------------------------------------------------
(***************************************************************************)
(* The other clients.  They leave the operator's finalizer alone.          *)
(***************************************************************************)
Edit(o) ==
  /\ edits[o] < MaxEdits[o]
  /\ edits' = [edits EXCEPT ![o] = @ + 1]
  /\ UNCHANGED <<cache, pass>>

Create(o) ==
  /\ Edit(o)
  /\ ~cr[o].alive
  /\ \E w \in WantsOf[o], held \in BOOLEAN : cr' = [cr EXCEPT ![o] = NewCr(w, held)]
  /\ replaced' = IF cache[o].alive \/ pc[o] # "idle" THEN replaced \cup {o} ELSE replaced
  /\ UNCHANGED <<stored, liveRv>>

ChangeSpec(o) ==
  /\ Edit(o)
  /\ cr[o].alive
  /\ \E w \in WantsOf[o] \ {cr[o].want} : cr' = [cr EXCEPT ![o] = WithSpec(@, w)]
  /\ UNCHANGED <<stored, liveRv, replaced>>

Delete(o) ==
  /\ Edit(o)
  /\ cr[o].alive /\ ~cr[o].terminating
  /\ cr' = [cr EXCEPT ![o] = Deleted(@)]
  /\ UNCHANGED <<stored, liveRv, replaced>>

\* Another controller takes its finalizer off or puts it on.
Release(o) ==
  /\ Edit(o)
  /\ cr[o].other
  /\ cr' = [cr EXCEPT ![o] = Held(@, cr[o].own, FALSE)]
  /\ UNCHANGED <<stored, liveRv, replaced>>

Hold(o) ==
  /\ Edit(o)
  /\ cr[o].alive /\ ~cr[o].terminating /\ ~cr[o].other
  /\ cr' = [cr EXCEPT ![o] = Held(@, cr[o].own, TRUE)]
  /\ UNCHANGED <<stored, liveRv, replaced>>

\* Somebody edits or deletes the ConfigMap.
Drift(o, n) ==
  /\ Edit(o)
  /\ configmap[n][o] # Absent
  /\ \E content \in {Drifted, Absent} : PutConfigMap(n, o, content)
  /\ UNCHANGED <<cr, liveRv, replaced>>

Others(o) ==
  \/ Create(o) \/ ChangeSpec(o) \/ Delete(o) \/ Release(o) \/ Hold(o)
  \/ \E n \in Namespace : Drift(o, n)

-----------------------------------------------------------------------------
Next ==
  \E o \in Cr : Begin(o) \/ Step(o) \/ GiveUp(o) \/ LoseAnswer(o) \/ Observe(o) \/ Others(o)

\* In the end no call fails any more (a pass that ends at a refusal looks like one
\* that was given up, but is a step of its own); a pass is begun again and again and
\* goes on, and the watch delivers.
Fairness ==
  \A o \in Cr :
    /\ <>[][GiveUp(o) \/ LoseAnswer(o) => Step(o)]_vars
    /\ WF_vars(Begin(o)) /\ WF_vars(Step(o)) /\ WF_vars(Observe(o))

Spec == Init /\ [][Next]_vars /\ Fairness

-----------------------------------------------------------------------------
(***************************************************************************)
(* Properties.                                                             *)
(***************************************************************************)
\* The variables keep their types; what a pass was given and has listed ends
\* with it.
TypeOK ==
  /\ cr \in [Cr -> CrRecord]
  /\ configmap \in [Namespace -> [Cr -> Content]]
  /\ cache \in [Cr -> CrRecord]
  /\ pc \in [Cr -> {"idle", "finalizer", "cleanup", "unfinalize"} \cup Syncing]
  /\ given \in [Cr -> CrRecord]
  /\ version \in [Namespace -> [Cr -> Nat]]
  /\ liveRv \in [Cr -> Nat]
  /\ todo \in [Cr -> SUBSET Cr]
  /\ edits \in [Cr -> Nat]
  /\ replaced \subseteq Cr
  /\ \A o \in Cr :
       /\ pc[o] = "idle" <=> ~given[o].alive
       /\ pc[o] # "gc" => todo[o] = {}
       /\ pc[o] # "apply" => liveRv[o] = NotFound

\* A ConfigMap never outlives its CR: as long as it exists, the CR does and
\* carries the finalizer that makes the operator clean up (README.md:35, "prevent
\* deletion before cleanup runs"), however passes break off, caches lag and CRs
\* are deleted and created again, unless a successor comes before the operator has
\* seen its predecessor go.
NoOrphan ==
  \A o \in Cr \ replaced, n \in Namespace :
    configmap[n][o] # Absent => cr[o].alive /\ cr[o].own

\* A pass takes the ConfigMap for unchanged (EnsureOutcome::Unchanged, "already
\* matched the desired state; no write was made", resources.rs:29-30), and records
\* no event, only if its apply has found it as the CR it works on wants it and has
\* written nothing, whatever others have done to it since the GET.  It says nothing
\* of a pass that breaks off in the apply or before the event: what that one has
\* corrected is announced by nobody.
ChangeIsAnnounced ==
  [][\A o \in Cr :
       pc[o] = "apply" /\ pc'[o] = "list" =>
         /\ configmap[TargetOf(o)][o] = given[o].want
         /\ UNCHANGED configmap]_vars

\* Once others leave it alone, each ConfigMap is as its CR wants it and the status
\* says so.
EventuallySynced ==
  <>[](\A o \in Cr :
         cr[o].alive /\ ~cr[o].terminating =>
           configmap[Target[cr[o].want]][o] = cr[o].want /\ cr[o].status = cr[o].want)

\* A CR that is deleted goes, whoever else holds it: none is left terminating for
\* ever (it terminates until it is gone).
DeletionCompletes ==
  \A o \in Cr : []<>~(cr[o].alive /\ cr[o].terminating)

\* "Garbage collects any stale ConfigMaps previously owned by this CR"
\* (examples/configmapsync/README.md:37): the others' are left alone.
CollectsItsOwn ==
  [][\A o \in Cr : todo'[o] # todo[o] =>
       \A n \in Namespace, p \in Cr \ {o} : configmap'[n][p] = configmap[n][p]]_vars
=============================================================================
