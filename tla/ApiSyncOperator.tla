--------------------------- MODULE ApiSyncOperator ---------------------------
(***************************************************************************)
(* The reconciler of examples/apiconfigsync (reconciler.rs): one custom    *)
(* resource (CR), whose ConfigMap holds what an HTTP endpoint serves, with *)
(* the scheduling that main.rs sets up.  Nothing reports a change of the   *)
(* endpoint, so the pass that follows 300 s after a success has to find    *)
(* it; changes of the CR come by its watch, those of the ConfigMap by a    *)
(* second one, through `owner_label_mapper`.  A client waits for the CR    *)
(* with `wait_for_resources` or `wait_for_condition`.  Races between the   *)
(* calls of `ensure_resource` and CRs that share a target namespace are in *)
(* SyncOperator.                                                           *)
(***************************************************************************)
EXTENDS Naturals

CONSTANTS
  Body,      \* what the endpoint serves
  Empty,     \* no content: it answers 404
  Drifted,   \* data of a ConfigMap that somebody else has edited
  Absent,    \* no ConfigMap; nothing fetched
  MaxEdits   \* bound of the model: what users and other clients do

ASSUME ApiSyncAssumption ==
  /\ Empty \notin Body /\ {Drifted, Absent} \cap (Body \cup {Empty}) = {} /\ Drifted # Absent
  /\ MaxEdits \in Nat

VARIABLES
  home,       \* the target namespace is the CR's own
  cr,         \* the CR in the API server
  configmap,  \* its ConfigMap
  endpoint,   \* what a GET of spec.apiUrl yields
  cache,      \* the CR in the operator's reflector store
  told,       \* the watch of ConfigMaps has an event to deliver
  due,        \* when the queue of the controller hands out the CR
  pc,         \* the next call of the pass
  given,      \* the CR the pass was given
  fetched,    \* what it has got from the endpoint
  wanted,     \* what the client waits for: that a CR exists, that it is synced
  wait,       \* where its loop is
  edits,      \* how often others have acted
  replaced    \* history: a successor of the CR was created while the operator
              \* still had the predecessor in hand or in its store

apiserver == <<cr, configmap>>
pass == <<pc, given, fetched>>
others == <<home, endpoint, edits, replaced>>
client == <<wanted, wait>>
vars == <<apiserver, cache, told, due, pass, client, others>>

\* generation: of its spec; observed: that of the Ready condition, 0 without one.
CrRecord ==
  [alive : BOOLEAN, terminating : BOOLEAN, own : BOOLEAN, generation : Nat, observed : Nat]

NoCr ==
  [alive |-> FALSE, terminating |-> FALSE, own |-> FALSE, generation |-> 0, observed |-> 0]

NewCr == [NoCr EXCEPT !.alive = TRUE, !.generation = 1]

Served == Body \cup {Empty}

\* from: the generation of the CR it was built of.
ConfigMapRecord == [from : Nat, body : Served \cup {Drifted, Absent}]

NoConfigMap == [from |-> 0, body |-> Absent]

\* An earlier process may have left the CR in sync; this one has an empty store.
Init ==
  /\ home \in BOOLEAN
  /\ endpoint \in Served
  /\ \/ cr \in {NoCr, NewCr} /\ configmap = NoConfigMap
     \/ /\ cr = [NewCr EXCEPT !.own = TRUE, !.observed = 1]
        /\ configmap = [from |-> 1, body |-> endpoint]
  /\ cache = NoCr
  /\ told = (configmap # NoConfigMap)
  /\ due = "no"
  /\ pc = "idle"
  /\ given = NoCr
  /\ fetched = Absent
  /\ wanted \in {"existence", "sync"}
  /\ wait = "asking"
  /\ edits = 0
  /\ replaced = FALSE

-----------------------------------------------------------------------------
(***************************************************************************)
(* The queue of kube_runtime::Controller, for the one CR: due now, after   *)
(* an error (5 s), after a success or a timeout (300 s), or not at all.    *)
(***************************************************************************)
Delayed == {"retry", "recheck", "late"}

\* What came during the pass is not put off by its result.
EndPass(when) ==
  /\ pc' = "idle"
  /\ given' = NoCr
  /\ due' = IF due = "now" THEN "now" ELSE when

\* A call of the pass returns, or the pass ends with it: its answer is lost, the
\* pass times out.
Continue(end, next) ==
  IF end \in Delayed
  THEN EndPass(end)
  ELSE pc' = next /\ UNCHANGED <<given, due>>

Begin ==
  /\ pc = "idle" /\ due = "now"
  /\ cache.alive
  /\ due' = "no"
  /\ pc' = IF cache.terminating THEN "cleanup" ELSE "finalizer"
  /\ given' = cache
  /\ UNCHANGED <<apiserver, cache, told, fetched, client, others>>

\* A CR that is not in the store is not reconciled.
Skip ==
  /\ pc = "idle" /\ due = "now"
  /\ ~cache.alive
  /\ due' = "no"
  /\ UNCHANGED <<apiserver, cache, told, pass, client, others>>

TimerFires ==
  /\ due \in Delayed
  /\ due' = "now"
  /\ UNCHANGED <<apiserver, cache, told, pass, client, others>>

\* The watch of the CRs triggers for what is there.
Observe ==
  /\ cache # cr
  /\ cache' = cr
  /\ due' = IF cr.alive THEN "now" ELSE due
  /\ UNCHANGED <<apiserver, told, pass, client, others>>

\* The mapper names a CR in the namespace of the ConfigMap.
MapToOwner ==
  /\ told
  /\ told' = FALSE
  /\ due' = IF home THEN "now" ELSE due
  /\ UNCHANGED <<apiserver, cache, pass, client, others>>

-----------------------------------------------------------------------------
(***************************************************************************)
(* A pass.                                                                 *)
(***************************************************************************)
\* The server refuses new finalizers on a terminating CR.
AcceptsFinalizer == cr.alive /\ (cr.terminating => cr.own)

\* No call when the CR that was given has it.
AddFinalizer(end) ==
  /\ pc = "finalizer"
  /\ IF given.own
     THEN UNCHANGED cr /\ Continue("on", "poll")
     ELSE IF AcceptsFinalizer
     THEN cr' = [cr EXCEPT !.own = TRUE] /\ Continue(end, "poll")
     ELSE UNCHANGED cr /\ EndPass("retry")
  /\ UNCHANGED <<configmap, cache, told, fetched, client, others>>

\* A new poller each time: the endpoint's body comes as Added, a 404 as no event.
Poll ==
  /\ pc = "poll"
  /\ fetched' = endpoint
  /\ Continue("on", "ensure")
  /\ UNCHANGED <<apiserver, cache, told, client, others>>

PutConfigMap(c) ==
  /\ configmap' = c
  /\ told' = (told \/ c # configmap)

Ensure(end) ==
  /\ pc = "ensure"
  /\ PutConfigMap([from |-> given.generation, body |-> fetched])
  /\ fetched' = Absent
  /\ Continue(end, "label")
  /\ UNCHANGED <<cr, cache, client, others>>

\* record_event after a change, gc_resources, which keeps this ConfigMap, and
\* patch_labels, which fails on a CR that is gone.
Label ==
  /\ pc = "label"
  /\ Continue(IF cr.alive THEN "on" ELSE "retry", "status")
  /\ UNCHANGED <<apiserver, cache, told, fetched, client, others>>

\* Mutants of PatchStatus: the generation is read from the CR as it is now; the
\* next change is awaited.
PatchStatusOfNow(end) ==
  /\ pc = "status"
  /\ cr' = IF cr.alive THEN [cr EXCEPT !.observed = cr.generation] ELSE cr
  /\ EndPass(IF end \in Delayed THEN end ELSE IF cr.alive THEN "recheck" ELSE "retry")
  /\ UNCHANGED <<configmap, cache, told, fetched, client, others>>

PatchStatusAndAwaitChange(end) ==
  /\ pc = "status"
  /\ cr' = IF cr.alive THEN [cr EXCEPT !.observed = given.generation] ELSE cr
  /\ EndPass(IF end \in Delayed THEN end ELSE IF cr.alive THEN "no" ELSE "retry")
  /\ UNCHANGED <<configmap, cache, told, fetched, client, others>>

\* The status speaks of the CR that was given and goes, by name, to the one that is
\* there.
PatchStatus(end) ==
  /\ pc = "status"
  /\ cr' = IF cr.alive THEN [cr EXCEPT !.observed = given.generation] ELSE cr
  /\ EndPass(IF end \in Delayed THEN end ELSE IF cr.alive THEN "recheck" ELSE "retry")
  /\ UNCHANGED <<configmap, cache, told, fetched, client, others>>

\* The pass of a terminating CR.
DeleteConfigMap(end) ==
  /\ pc = "cleanup"
  /\ PutConfigMap(NoConfigMap)
  /\ Continue(end, "unfinalize")
  /\ UNCHANGED <<cr, cache, fetched, client, others>>

RemoveFinalizers(end) ==
  /\ pc = "unfinalize"
  /\ cr' = IF cr.terminating THEN NoCr ELSE [cr EXCEPT !.own = FALSE]
  /\ EndPass(IF end \in Delayed THEN end ELSE IF cr.alive THEN "no" ELSE "retry")
  /\ UNCHANGED <<configmap, cache, told, fetched, client, others>>

Step ==
  \/ AddFinalizer("on") \/ Poll \/ Ensure("on") \/ Label \/ PatchStatus("on")
  \/ DeleteConfigMap("on") \/ RemoveFinalizers("on")

\* Mutants of GiveUp: after an error the next change is awaited; what was fetched is
\* kept for the next pass.
GiveUpAndAwaitChange ==
  /\ pc # "idle"
  /\ \E when \in {"no", "late"} : EndPass(when)
  /\ fetched' = Absent
  /\ UNCHANGED <<apiserver, cache, told, client, others>>

GiveUpKeepingBody ==
  /\ pc # "idle"
  /\ \E when \in {"retry", "late"} : EndPass(when)
  /\ UNCHANGED <<apiserver, cache, told, fetched, client, others>>

\* The pass ends before its next call has an effect: an error of that call (of the
\* poll too), or the timeout, while the endpoint or the server hangs.
GiveUp ==
  /\ pc # "idle"
  /\ \E when \in {"retry", "late"} : EndPass(when)
  /\ fetched' = Absent
  /\ UNCHANGED <<apiserver, cache, told, client, others>>

LoseAnswer ==
  \E end \in {"retry", "late"} :
    AddFinalizer(end) \/ Ensure(end) \/ PatchStatus(end) \/ DeleteConfigMap(end)
      \/ RemoveFinalizers(end)

\* The process dies; the next one starts with an empty store and lists ConfigMaps.
Restart ==
  /\ pc' = "idle" /\ given' = NoCr /\ fetched' = Absent
  /\ cache' = NoCr
  /\ due' = "no"
  /\ told' = (configmap # NoConfigMap)
  /\ UNCHANGED <<apiserver, client, others>>

-----------------------------------------------------------------------------
(***************************************************************************)
(* The client that waits: every answer but the one it wants, and every     *)
(* error, is followed by a sleep and another call.                         *)
(***************************************************************************)
Satisfied == cr.alive /\ (wanted = "sync" => cr.observed = cr.generation)

Ask ==
  /\ wait = "asking"
  /\ wait' = IF Satisfied THEN "done" ELSE "sleeping"
  /\ UNCHANGED <<apiserver, cache, told, due, pass, wanted, others>>

\* Mutant of AskFails: the error is returned.
AskFailsForGood ==
  /\ wait = "asking"
  /\ wait' = "failed"
  /\ UNCHANGED <<apiserver, cache, told, due, pass, wanted, others>>

AskFails ==
  /\ wait = "asking"
  /\ wait' = "sleeping"
  /\ UNCHANGED <<apiserver, cache, told, due, pass, wanted, others>>

Wake ==
  /\ wait = "sleeping"
  /\ wait' = "asking"
  /\ UNCHANGED <<apiserver, cache, told, due, pass, wanted, others>>

-----------------------------------------------------------------------------
(***************************************************************************)
(* Users, other clients, and the endpoint.                                 *)
(***************************************************************************)
Edit ==
  /\ edits < MaxEdits
  /\ edits' = edits + 1
  /\ UNCHANGED <<home, cache, due, pass, client>>

Create ==
  /\ Edit
  /\ ~cr.alive
  /\ cr' = NewCr
  /\ replaced' = (replaced \/ cache.alive \/ pc # "idle")
  /\ UNCHANGED <<configmap, told, endpoint>>

ChangeSpec ==
  /\ Edit
  /\ cr.alive
  /\ cr' = [cr EXCEPT !.generation = cr.generation + 1]
  /\ UNCHANGED <<configmap, told, endpoint, replaced>>

\* A CR with a finalizer is marked, which counts as a change of it.
Delete ==
  /\ Edit
  /\ cr.alive /\ ~cr.terminating
  /\ cr' = IF cr.own
           THEN [cr EXCEPT !.terminating = TRUE, !.generation = cr.generation + 1]
           ELSE NoCr
  /\ UNCHANGED <<configmap, told, endpoint, replaced>>

\* Somebody edits the data of the ConfigMap, or deletes it.
Drift ==
  /\ Edit
  /\ configmap # NoConfigMap
  /\ PutConfigMap(NoConfigMap) \/ PutConfigMap([configmap EXCEPT !.body = Drifted])
  /\ UNCHANGED <<cr, endpoint, replaced>>

Publish ==
  /\ Edit
  /\ endpoint' \in Served \ {endpoint}
  /\ UNCHANGED <<apiserver, told, replaced>>

-----------------------------------------------------------------------------
Next ==
  \/ Begin \/ Skip \/ TimerFires \/ Observe \/ MapToOwner
  \/ Step \/ GiveUp \/ LoseAnswer \/ Restart
  \/ Ask \/ AskFails \/ Wake
  \/ Create \/ ChangeSpec \/ Delete \/ Drift \/ Publish

\* In the end nothing fails any more (a refusal, and an answer that is not the one
\* waited for, look like failures but are steps of their own); tokio's timers fire,
\* the watches deliver, passes and the client go on.
Fairness ==
  /\ <>[][GiveUp \/ LoseAnswer \/ Restart => Step]_vars
  /\ <>[][AskFails => Ask]_vars
  /\ WF_vars(Begin) /\ WF_vars(Skip) /\ WF_vars(Step)
  /\ WF_vars(TimerFires) /\ WF_vars(Observe) /\ WF_vars(MapToOwner)
  /\ WF_vars(Ask) /\ WF_vars(Wake)

Spec == Init /\ [][Next]_vars /\ Fairness

-----------------------------------------------------------------------------
(***************************************************************************)
(* Properties.                                                             *)
(***************************************************************************)
\* The variables keep their types; what the pass was given and has fetched ends
\* with it.
TypeOK ==
  /\ home \in BOOLEAN
  /\ cr \in CrRecord
  /\ configmap \in ConfigMapRecord
  /\ endpoint \in Served
  /\ cache \in CrRecord
  /\ told \in BOOLEAN
  /\ due \in {"no", "now"} \cup Delayed
  /\ pc \in {"idle", "finalizer", "poll", "ensure", "label", "status", "cleanup", "unfinalize"}
  /\ given \in CrRecord
  /\ fetched \in Served \cup {Absent}
  /\ wanted \in {"existence", "sync"}
  /\ wait \in {"asking", "sleeping", "done"}
  /\ edits \in 0 .. MaxEdits
  /\ replaced \in BOOLEAN
  /\ pc = "idle" <=> ~given.alive
  /\ pc = "ensure" <=> fetched # Absent

\* A Ready condition is true of the ConfigMap: it was built from the observed
\* generation or a later one, or somebody else has edited or deleted it since,
\* whatever the cache lags and passes break off, until a successor gets the status
\* of its predecessor (reconciler.rs:174-208, the status is written by name).
StatusTruthful ==
  cr.alive /\ ~cr.terminating /\ ~replaced =>
    /\ cr.observed <= cr.generation
    /\ configmap.body \notin {Drifted, Absent} => configmap.from >= cr.observed

\* A ConfigMap that was edited or deleted does not wait for the regular pass, as
\* long as its place is the namespace of its CR ("managed ConfigMaps re-queue the
\* owning CR on change", main.rs:85): the event is on its way, it has made the CR
\* due, or the pass it has caused goes on or has failed.
DriftIsNoticed ==
  home /\ cache.alive /\ ~cache.terminating /\ configmap.body \in {Drifted, Absent} =>
    told \/ due \in {"now", "retry", "late"} \/ pc # "idle"

\* Once others leave it alone, the ConfigMap has what the endpoint serves, though
\* nothing reports that that has changed, the status says so, and who waits for it
\* has got it, through errors and answers that came too early ("API errors double
\* the sleep", resources.rs:523-524).
EventuallyMirrored ==
  <>[](cr.alive /\ ~cr.terminating =>
         /\ configmap = [from |-> cr.generation, body |-> endpoint]
         /\ cr.observed = cr.generation
         /\ wait = "done")
=============================================================================
