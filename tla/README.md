# kube-genops (koprs) in TLA+

A verification development kept beside the koprs crates: TLA+ modules of the
program's own logic, TLC configurations that check them on small instances, and
TLAPS proofs for every value of the constants. Paths are relative to the
repository; `controller.rs` alone means `crates/koprs/src/controller.rs`.

## The system

koprs is a library for Kubernetes operators, in three crates and three example
operators.

| Component | State it keeps | Operations | Interacts with |
|---|---|---|---|
| leader election (controller.rs 247-445) | the Lease in the API server; per process: the loop it is in, consecutive errors | try_acquire_or_renew, acquire_leader_lease, renew_leader_lease_loop | API server (GET, create, replace), wall clock, stop channel |
| controller run loop (controller.rs 782-910) | stop channel, readiness flag, renew and shutdown tasks, kube_runtime queue | run: bind, wait for lease, reconcile with timeout, stop | kube_runtime::Controller, reconciler, signals, leader election |
| garbage collection (gc.rs) | none of its own: a list, then calls | gc_resources, clear_finalizers | API server, other clients of the same objects |
| finalizers (finalizers.rs) | finalizers of a resource | add_finalizer, remove_finalizers | cached resource, API server |
| resource operations (resources.rs, meta.rs) | none | ensure, apply, get, delete, list, wait_for_*, label and annotation patches | API server |
| status and conditions (status.rs) | status subresource | patch_status, make_condition, upsert_condition | API server |
| resource watchers (watcher.rs) | a task and a bounded channel | watch, watch_objects, watch_events | kube_runtime::watcher, the receiver |
| owner references (owners.rs) | none | owner_ref, mappers from a child to its CR | controller queue |
| events, metrics (events.rs, observability.rs) | counters | record_event, Metrics, /metrics | API server, Prometheus |
| external watch loop (koprs-external watcher.rs) | consecutive errors, bounded channel | poll, send, sleep, back off | a poller, the receiver |
| HTTP poller (http.rs) | seen, last ETag, last Last-Modified | poll | an HTTP server |
| object store poller (store.rs) | known: path to ETag | poll | an object store |
| admission webhook (koprs-admission webhook.rs, review.rs) | readiness, shutdown channel, connections | admit, run | API server as client, validators |
| example operators (examples/) | CRs, ConfigMaps, Secrets, ServiceAccounts | reconcile with cleanup, error_policy | all of the above |
| example processes (examples/*/src/main.rs) | one process: its signal, its end | main: one `run`, or two joined by `try_join!` | controllers, webhook server, kubelet |

Hard behaviours: two replicas racing for a Lease with skewed clocks, late or
lost calls and crashes; a leader that must stop before its lease can be taken;
changes, errors and timeouts that overlap a reconcile; a stop signal at any
point of start-up, for one `run` or for two that share a process; objects deleted
and re-created between a list and the calls that follow it; partial failure of a
pass; watch streams that break off and are begun again; things that change without
an event. PROJECT.json `hazards` lists them at
their lines.

Per component, what makes it correct:

- leader election: one replica reconciles at a time; a leader is the holder the
  Lease names and nobody finds that lease expired; the Lease's own bookkeeping
  (renewTime, acquireTime, leaseTransitions) survives late and lost writes;
- run loop: no change, error or timeout of an object is forgotten; the replica
  becomes ready; a signal or the loss of the lease ends the loop and all its work,
  and the process with them when nothing else runs in it;
- garbage collection: what is desired is touched only on the word of an outdated or
  out-of-scope listing, every orphan in the scope goes;
- finalizers, resource operations, status, events (in an operator): no child
  outlives its CR, what is taken for unchanged was not written, all comes into sync,
  deletion ends;
  the status tells the truth, drift is noticed, who waits for a resource gets it;
- resource watchers: what a receiver knows never goes back and catches up, deletions
  are reported but for those of a gap, and the task is a queue;
- watch loop and pollers: no event is lost, repeated or overtaken, each event fits
  what the receiver already knows, and the receiver catches up;
- admission: every answer is the decision on its own request, nothing is allowed
  that the validator has not allowed, and shutdown drops no request in hand.

## Modules

`X` is a component, `XProofs` its theorems, `MCX` its small instances for TLC and
`MCX_run.cfg` one run of them. Two proof modules are about two components each:
`ControllerProofs` about OperatorProcess (with ControllerRun) and GarbageCollection,
`ApiConfigSyncProofs` about ApiSyncOperator and AdmissionServer, the two halves that
main.rs of examples/apiconfigsync joins; where both components of a pair would use
one name, one of them has a prefix (`GcTypeOK`, `ServerTypeOK`). Operators whose comment says "Mutant of" are
plausible bugs of the definition that follows; nothing refers to them, and putting
one in the place of that definition makes a property fail (PROJECT.json `mutants`).

### LeaderElection, LeaderLock

One Lease and a set of replicas. `phase` is where `run` is (down, waiting for the
lease, leading, stopping), `call` where the current `try_acquire_or_renew` is
(asleep, before its GET, before its write, with the answer on its way). An attempt
reads the clock before its GET (`BeginAttempt`, `start`), and what the GET decides
(`GetHeldByOther`, `GetAvailable`, `WriteFor`) uses that reading, as
controller.rs:270 does. A write is checked by the server against the
resourceVersion (`Accepts`) in a step of its own (`ServeWrite`); its answer may be
lost (`ReplyLost`), it may fail and still be processed later (`WriteFails`,
`ServeAbandoned`), and the process may die at any point (`Crash`). `Won`,
`Refused` and `Failed` are Ok(true), Ok(false) and Err in either loop, with the
count of consecutive errors. `StopController` is the select! that drops the
reconcile loop; between `SignalStop` and it the loop still runs, which is why
`Running` includes `stopping`. `TouchLease` is somebody else's edit of the
metadata. Time is an integer clock; `due` says by when a task must have moved, so
`Tick` cannot pass a deadline. `ClockOffset` gives each replica its own wall clock.

`LeaderLock` is what `run` relies on: a two-stage lock (granted by the store, then
entered). `LeaderElection!ImplementsLock` instantiates it with the running replicas
and the holder in the Lease.

### ControllerRun, OperatorProcess

`ControllerRun` is one controller in `ControllerBuilder::run`: `main` is its position, `handler` the
shutdown task, `stop` the watch channel both the signal and the lease loss write
to, `renewing` the renew task (LeaderElection has its inside). kube_runtime's queue
is external: an object is due now (`queue`), later (`timers`) or not at all, one
reconcile per object runs at a time and at most `Concurrency` in all. A reconcile
works on the version it was started with (`seen`), may succeed, fail, hang, or be
dropped by the timeout; `Deliver` turns its result into a requeue and sets
readiness. It meets LeaderElection at `renewing` and `LoseLease`: what that module
calls `StopController` is here `LoseLease` followed by `StopLoop`. The renew task
and the shutdown task are spawned, so they go on after `run` has returned
(`ProcessUp`), until the process ends.

`OperatorProcess` extends it with main of the examples: the controller alone, or
joined by `try_join!` with a `partner`, which is an abstract `run`: another
controller, which may wait for a lease, or the webhook server. A signal reaches
every handler that is installed and kills the process if there is none
(`ProcessSignal`); `ExitOk` is the join with both results, `ExitErr` the one that
drops the other; either takes the tasks with it (`Exit`).

### GarbageCollection

A pass of `gc_inner`: `List`, then per listed object `Keep`, `Unblock`, `Delete`,
`AlreadyDeleted` or `DeleteFails`, then `ClearDeleted`; other clients create, edit,
delete and release objects between any two calls. `wanted` is what `is_desired`
answers of an object; a pass asks it of the object as it was listed, which may since
have been edited, or deleted and created again (`revision` counts both). `Target` is
the object a call by name reaches, since the scoped Api has one namespace whatever
the list returned; `InScopeKeys` are those that are reached by their own listing.

### ExternalWatch, HttpWatch, StoreWatch, EventQueue

`ExternalWatch` is the task of `watch_external_with_config` with an arbitrary
source: poll, send one by one into a bounded channel, sleep, back off, abort,
dropped receiver. `HttpWatch` and `StoreWatch` instantiate it and put the pollers
in the source's place: `seen`, `lastETag` and `lastModified` of `HttpPoller`
against a resource that changes and a server whose answers carry or lack
validators; `known` of `ObjectStorePoller` against a listing that is read piece by
piece (`listed`, `current`) and may break off. `view` is what a receiver that
believes the events knows. `EventQueue` is what the task promises: events are
received in order, once, with none missing, until the task ends.

### ResourceWatch

The task of `watch`, `watch_objects` or `watch_events` (`mode`). Its stream is
external: a list (`page`, yielded as InitApply), then the changes since (`log`), then
perhaps an error. `Messages` is what the function sends for one event: a unit
signal, the resource, or both kinds of event. `StreamError` ends the task, as
try_for_each does, and `Restart` is a caller that starts another watch. `known` is
what a receiver that applies the messages believes; after a signal it looks.
`missed` remembers the deletions no stream will yield any more. `EventQueue`, with
its action `Renew` for the second watch, is the abstract specification.

### SyncOperator

The reconciler of examples/configmapsync with the library calls it makes, one
action per call: `add_finalizer`, the GET and the apply of `ensure_resource`, the
event, `gc_resources` (its list and each delete), `patch_labels`, `patch_status`,
and in the cleanup `delete_resource` and `remove_finalizers`. A pass works on the
cached CR (`given`), `Observe` brings the cache up to date, `GiveUp` ends a pass
before a call and `LoseAnswer` after it. Users, other controllers and other clients
act between any two calls (`Others`). `version` is the resourceVersion of each
ConfigMap: a write that changes something, or deletes, gives a new one, and a
ConfigMap created again goes on from the last, as etcd's revisions do. `liveRv` is
the one the GET of `ensure_resource` has read; `IsUnchanged` compares it with the one
the apply answers, as resources.rs:352-372 does. `replaced` is a history variable: CRs whose successor came while the predecessor was still in hand.

### ApiSyncOperator

The reconciler of examples/apiconfigsync for one CR, with what surrounds it in
main.rs: the queue of the controller (`due`: now, after an error's 5 s, after the
300 s of a success or of a timeout), the reflector (`cache`), the second watch and
`owner_label_mapper` (`told`, `MapToOwner`), a process that restarts, and a client in
`wait_for_resources` or `wait_for_condition` (`wait`). A pass polls the endpoint with
a new poller, so its body is what is there now and a 404 is no content. Each call
takes the outcome as a parameter: the pass goes on, or ends with the lost answer
(`LoseAnswer`). The calls inside `ensure_resource` and the garbage collection between
CRs are in SyncOperator and are one step here. ConfigMaps carry the generation they
were built from, which is what `StatusTruthful` compares the status with.

### AdmissionServer

One process in `WebhookBuilder::run`: start-up, the shutdown task and its channel,
the two accept loops, and per connection the queue, the TLS handshake, and `admit`
(`Refuse`, `DenyUnparsed`, `Parse`, `Validate`). A review is what tells the answers
apart: whether it has a "request" member, the uid, and whether each object is
absent, of the validator's type or malformed. `NothingAssumption` says that the
placeholder for no request is not a request. axum's drain (`CloseIdle`, `Drained`)
is external; with TLS the code has its own loop, and `StopServing` returns at once.

## Runs

| Run | Shows | Bounds, and why they do |
|---|---|---|
| mixed | IInv, MutualExclusion, LeaderHoldsLease, NoEarlyTakeover, LeaseHistory, ImplementsLock | two replicas with lease durations 4 and 5, clocks one second apart, one write in flight after its sender gave it up, at the tightest durations `TimingsSafe` allows; 7 s and 2 lease versions before the last start let a lease expire after three failed renewals and be taken, and a write arrive after that |
| defaults | MutualExclusion fails | the ratio 15:5:2 of the builder's defaults |
| joined | ProcessTypeOK, NoLostWork, NothingRunsAfterReturn, EveryChangeReconciled, EndsWhenTold | two objects, two changes of each, one slot: overlap and waiting both happen; every position of the partner against every position of the controller |
| scoped | DesiredUntouched, OrphansCollected | two objects in the namespace of the scope and a namesake of one elsewhere, each wanted or not; the one with the namesake is edited or re-created once, the others created once: outdated and out-of-scope listings both occur |
| varied | EventsAlternate, CatchesUp, BlockedSendEnds | two contents, three changes (delete and put back the same content included), every mix of validators, a channel of one |
| listing | EventsAlternate, CatchesUp, ImplementsQueue | two paths, one with ETags and one that may lack them, two changes, a channel of one |
| watching | ImplementsWatchQueue, NeverGoesBack, KeepsUp, DeletionsReported | two resources of up to three versions each, a channel of one, two errors: a full channel, failed streams and further watches meet changes and deletions in every order |
| dropped | ShutsDown fails | the same |
| synced | NoOrphan, ChangeIsAnnounced, EventuallySynced, DeletionCompletes | two CRs, two target namespaces; three acts of others upon one CR: create, delete and create again, or any drift between; they bound `version` too |
| shared | CollectsItsOwn fails | two CRs with one target namespace; `version` grows for ever, but the violation comes first |
| mirrored | StatusTruthful, DriftIsNoticed, EventuallyMirrored | one CR, one body and a 404, three acts of others: any three of create, change, delete, drift and publish, between any two calls, with restarts at any time |
| served | DecidesAsAsked, RequestsComplete, StopsOnSignal | with and without TLS, two connections, one request each, a signal at any time; a second request on a connection starts where the first did |

Each run but the violations also checks the module's TypeOK (mixed: within IInv;
joined: within ProcessTypeOK; scoped: GcTypeOK; served: ServerTypeOK). Deadlock is checked except where the system may really stop: the model's
clock stops at MaxTime (LeaderElection), the process has ended (OperatorProcess, AdmissionServer),
the task has nothing more to send or its receiver is gone (HttpWatch, StoreWatch,
ResourceWatch), nothing is left to reconcile and the bounded edits are used up
(SyncOperator, ApiSyncOperator). Symmetry is not used: most runs check liveness or treat the
members of a set differently.

Every counter that would grow for ever has a bound among the CONSTANTS (MaxTime,
MaxVersion, MaxAbandoned, MaxRevision, MaxChanges, MaxErrors, MaxEdits,
MaxRequests), named in its declaration; the theorems hold for every value of them.

### Fairness

LeaderElection has none: all its properties are safety. Elsewhere tokio polls every
task that can make progress, so the steps of the code's own tasks are weakly fair.
Beyond that:

- ControllerRun, OperatorProcess: strong fairness of `Start(o)` (the queue serves in order of due
  times, so no due object is passed over for ever) and of `Succeed(o)` (a reconcile
  that is attempted again and again succeeds in the end). Nothing makes the lease
  come, the signal arrive or a port bind. Of the partner only its own tasks and the
  end of the process are fair.
- GarbageCollection: passes are begun and finished; a delete, and a patch that
  unblocks, succeeds if tried again and again. The other clients owe nothing.
- HttpWatch: polls tried again and again are answered in the end. The code's
  default client has no timeout, so that an answer or an error comes at all is an
  assumption about the network.
- StoreWatch: failures cease (`<>[][~ListFails]`), since one that strikes each
  listing at its last piece for ever would starve the comparison.
- SyncOperator: failures cease, that is, from some time on no call is given up or
  loses its answer. `error_policy` and the requeue begin a pass again and the watch
  delivers. A pass that ends at a refusal is a step and remains possible.
- ResourceWatch: the task, the receiver and the second watch. Nothing makes a stream
  fail or a receiver go; errors are bounded by MaxErrors.
- ApiSyncOperator: failures cease as well, stated as an action that in the end
  happens only where it equals a step of the code that succeeds
  (`<>[][GiveUp \/ LoseAnswer \/ Restart => Step]_vars`), and so do the errors of the
  client's calls. Timers fire and the watches deliver.
- AdmissionServer: the tasks run and validators return. No client has to act, no
  signal has to come, the process need not exit.

## Proofs

| Theorem | For every value of the constants |
|---|---|
| LeaderElectionProofs: TypeCorrect; InvariantHolds, OneLeader, LeaderIsHolder, TakeoverAfterExpiry, HistoryIsTrue, LockIsImplemented | types; and, given `TimingsSafe`, all safety properties and the refinement of LeaderLock |
| ControllerProofs: WorkIsNeverLost, StoppedMeansIdle, ProcessTyped | NoLostWork, NothingRunsAfterReturn, ProcessTypeOK of the process, alone or joined |
| ControllerProofs: GcTypeCorrect, DesiredSurvives | GcTypeOK, DesiredUntouched, for every scope |
| ResourceWatchProofs: WatchTyped, KnowledgeGrows, WatchIsAQueue | TypeOK, NeverGoesBack, and each of the three functions implements EventQueue |
| ExternalWatchProofs: TaskIsAQueue, BackoffGrows | any source behind the loop implements EventQueue; sleeps grow from error to error, up to max_backoff |
| StoreWatchProofs: ListingIsAQueue, StoreTyped, StoreEventsAlternate, PollsBringUpToDate | the object store poller in particular, its TypeOK and EventsAlternate; a listing read to its end leaves nothing of it unreported |
| HttpWatchProofs: HttpIsAQueue, HttpTyped, HttpEventsAlternate, PollsBringUpToDate | the HTTP poller in particular, its TypeOK and EventsAlternate; an answered poll, a 304 included, leaves the receiver with the content there is |
| SyncOperatorProofs: TypesKept, ConfigMapsAreGuarded, ChangesAreAnnounced | TypeOK; NoOrphan, given that a CR keeps one target namespace (`OneTarget`); ChangeIsAnnounced |
| ApiConfigSyncProofs: OperatorTyped, StatusesAreTrue, DriftIsSeen | TypeOK, StatusTruthful, DriftIsNoticed of ApiSyncOperator |
| ApiConfigSyncProofs: ServerTyped, DecisionsFit, RequestsAreCompleted | ServerTypeOK, DecidesAsAsked, RequestsComplete of AdmissionServer |

The assumptions. `TimingsSafe` is `3 * RenewPeriod + 5 * MaxLatency + MaxSkew <=
LeaseDuration` for each replica: three failed renewals, each late by MaxLatency,
and the reaction to the stop signal end before any other replica can find the lease
expired. The default timings do not satisfy it (run `defaults`). `OneTarget` is
false for a CR whose target namespace is edited, which is in the list below. The other
theorems rest only on the assumptions of their modules: ranges of bounds and configuration,
values that stand for nothing, a finite set of paths.

The arguments, and the inductive invariants they need:

- *LeaderElection*: MutualExclusion is not inductive, since it says nothing of a write
  still in flight. `IInv` adds that the lease records its holder's own timing
  (`LeaseOK`), that each attempt began no earlier than the renewal it follows
  (`AttemptOK`), that a write the server would still accept was made from the lease as
  it is, and that this lease was its writer's or had expired (`WriteOK`, over the
  abandoned writes too), and how far past its renewal a leader with n errors can be
  (`Reach`, `LeaderOK`). The last, with TimingsSafe, contradicts the expiry that
  WriteOK demands of a takeover.
- *ControllerRun*: a reconcile in hand whose object has changed since is followed by
  another, an object not in hand is up to date or due (`ObjectOK`).
- *GarbageCollection*: a listing is true of its object until the revision moves on
  (`ListedTrue`: no listed revision is newer than the object's, and at the same one
  `wanted` is the same), and what a pass is about to unblock was not listed as desired
  (in GcTypeOK). So a call that meets a desired object by its own listing meets a
  later revision.
- *ExternalWatch*: channel and batch together are the abstract queue (`QueueInv`). The
  sleep goes with the count of errors, which is 0 while the task sends
  (`BackoffInv`); powers of two are compared by the number of subsets they count
  (`PowersGrow`), since the provers know nothing of `^`.
- *OperatorProcess*: the partner changes nothing of the controller, and the end of the
  process leaves nothing in hand, so ControllerRun's invariant carries over.
- *ResourceWatch*: what is known, in the channel, being sent, listed and logged is of
  rising version per resource, up to the one in the server, through the end of a
  stream and a new list.
- *HttpWatch*: EventsAlternate is about the head of the channel and says nothing of
  what follows it; `AlternationInv` is about all events under way, each called what
  the one before it makes it, and `seen` says how the newest left the resource.
  `ValidatorInv` adds what the two validators stand for: the content the receiver has
  or will have, and for the date, as long as nothing has changed since. With it a 304
  hides nothing.
- *StoreWatch*: one poll reports many paths, so the invariant is per path: a function
  gives what the receiver will know of it after each event under way (`Follows`), and
  its last value is what the poller remembers (`Leads`, `AlternationInv`); that a poll
  keeps it needs each differing path reported once in whatever order the hash maps are
  walked (`CompareReports`), and contents without ETags only at `BarePath`
  (`StoreInv`).
- *Both pollers*: each step is one of ExternalWatch with an arbitrary source
  (`LoopStep`), which gives the refinement and the types of the task; the sleep is a
  time and at most max_backoff (`BackoffIsBounded`).
- *SyncOperator*: per CR, a ConfigMap is only in the target namespace, and while one
  exists or a pass that may make one is under way, the CR carries the operator's
  finalizer (`AtHome`, `Guarded`). For ChangeIsAnnounced, that the resourceVersion a
  pass has read is not newer than the one its apply meets (`Recorded`), because
  versions only grow (`VersionsGrow`): the same version after the apply leaves no room
  for a write since the GET, by the apply or by others.
- *ApiSyncOperator*: StatusTruthful compares the ends of a chain, and `StatusInv` has
  the links: the status is no newer than the CR a pass was given, that no newer than
  the CR in the store, that no newer than the one in the server, and the ConfigMap a
  pass has written is of the CR it was given. DriftIsNoticed fails to be inductive at
  the two places where a pass ends without a timer soon to fire; `DriftInv` says that
  a pass about to write its status has written the ConfigMap itself or will be
  followed by another, and that one about to end its cleanup had a terminating CR.
- *AdmissionServer*: an answer is right when it is given if the connection still holds
  the request it was parsed from and no verdict of an earlier one (`ServerInv`);
  RequestsComplete follows from the same invariant, which says at which ends of `run`
  a connection can be open.

Only model-checked: all liveness (the prover has no rules for fairness). Every
invariant and every action property of the passing runs is a theorem, and the two
`PollsBringUpToDate` are what is left of the `CatchesUp` of either poller when the
fairness is taken away.

## Findings

Runs that end in a violation, each with the sentence it refutes (PROJECT.json
`findings`): `defaults` (two leaders under the default timings), `dropped` (a watch
task outlives its receiver) and `shared` (a configmapsync pass deletes the other CRs'
ConfigMaps in its target namespace).

Known divergences that no run shows, met while reading:

- controller.rs:833 vs 782-788: a standby that gets SIGTERM notes it and goes on
  waiting for the lease; the wait is outside the select!. Joined with another run it
  keeps the process alive after that one has stopped, which is why `EndsWhenTold`
  asks for a partner that runs.
- controller.rs:822 with multicontroller main.rs:93: a signal that arrives when only one
  of the two handlers is installed ends that run only, the later handler misses it,
  and the process goes on with the other.
- controller.rs:836 vs 902: after a signal the renew task goes on as long as the
  process does, so a run that has returned keeps its lease while its partner lives.
- controller.rs:902 vs 567-568 ("reconciles already running inside `kube-runtime` are
  allowed to complete"): the stop branch drops run_loop and every reconcile in it.
- gc.rs:131 and 135 vs 83-84: gc_resources lists all namespaces and deletes by name in
  the scope's own, so an undesired object elsewhere has the desired one of its name
  deleted (`OutOfScope` in DesiredUntouched) and stays itself; without a namesake in
  the scope the 404 passes for "Already deleted".
- gc.rs:38-50 vs 83-84: is_desired is asked of the object as it was listed and the
  delete goes by name, so one that has become desired since, or a desired successor of
  the same name, is deleted (`Outdated` in DesiredUntouched).
- controller.rs:343 vs 404-422: any 409, also after an edit of the Lease's
  metadata, is taken for a takeover and stops a leader that still holds the lease.
- controller.rs:590: without POD_NAME and HOSTNAME every replica is "unknown"; all
  would hold one lease. The model assumes distinct identities.
- gc.rs:51 vs 65-66: the patch carries no uid; an object re-created under the name
  since the delete loses its finalizers, desired or not.
- finalizers.rs:91 vs crates/koprs/README.md:39: the patch writes the cached list
  of finalizers, so one that another controller has added since is removed.
- resources.rs:352: between GET and apply another client may create, edit or delete the
  object, so Created and Updated can be told wrongly, and Updated of what the pass has
  not changed (Unchanged cannot: ChangesAreAnnounced).
- examples/configmapsync reconciler.rs:94 and 118: if the answer to the apply is lost or
  record_event fails, the correction is never announced; the next pass finds it
  unchanged.
- examples/configmapsync reconciler.rs:84 and 122 vs README.md:37: when a CR's target
  namespace changes, the ConfigMap in the old one stays, also after the CR is gone.
- reconciler.rs:70: finalizers go by name; a CR created again at once can lose its
  own to the cleanup of its predecessor (`replaced` in SyncOperator).
- examples/configmapsync README.md:42 says 30 s, reconciler.rs:180 waits 5 s.
- examples/configmapsync README.md:46: the owner mapper puts the ConfigMap's
  namespace for the CR's, so a drift elsewhere does not re-queue the CR.
- status.rs:355: upsert_condition compares with the status it is given; a cached
  one that lags resets lastTransitionTime.
- watcher.rs:50, 194 and 282 (koprs): the tasks end at the first error of their
  stream, so that default_backoff never retries.
- apiconfigsync main.rs:85 ("managed ConfigMaps re-queue the owning CR on change") with
  owners.rs:220: true in the CR's own namespace only (`home` in ApiSyncOperator);
  elsewhere drift waits for the regular pass of at most 300 s.
- apiconfigsync reconciler.rs:197: the status goes by name, so a CR that is created
  again at once can be called Ready by the pass of its predecessor.
- koprs-external watcher.rs:191 vs 150-151 and 232-233: the task notices a dropped
  receiver only when it has an event to send.
- koprs-external watcher.rs:199-201 vs 145-147: the first retry waits twice the
  interval.
- http.rs:243 vs 3-10: from a server without validators every poll is a Modified.
- store.rs:153 vs 3-5: an object without an ETag is added at every poll and never
  removed (hence `BarePath` in StoreWatch).
- webhook.rs:617-622 vs 474-477: with TLS the signal ends `run` at once, and requests
  in hand are lost when the process exits.
- webhook.rs:593: with TLS the first failing accept ends the server with Ok, and
  /readyz goes on answering 200.

## Assumptions of the models

- LeaderElection: MaxLatency bounds one attempt; no deadline in the code does.
  Other clients edit the Lease's metadata only, and every Lease was written by a
  replica. So the fallbacks for a Lease made by hand are left out: the reader's own
  duration for a missing one (controller.rs:304-306) and now for a missing acquireTime
  (320-321). The run `mixed` has MaxLatency 0; the delay between the reading of the
  clock and the write, and the term `5 * MaxLatency` of `TimingsSafe`, rest on the
  theorems alone.
- HttpWatch: no two changes of a resource share a Last-Modified second, ETags
  identify contents, and a poll is one step (nothing else touches its state).
- SyncOperator: CR names are distinct across namespaces; a write that was given up
  reaches the server before the pass ends or not at all; others leave the operator's
  finalizer alone and create no ConfigMaps with its label; ConfigMaps have no
  finalizers of their own.
- ResourceWatch: the stream of kube_runtime::watcher yields every change since its
  list, in order, until it fails.
- ApiSyncOperator: a GET of the endpoint is one step; CRs do not share a target
  namespace (SyncOperator has what happens if they do).
- AdmissionServer: once axum drains it closes idle connections and waits for the
  others, as its documentation says. A connection on which a request has
  arrived only in part is `open` here and is closed, although hyper may wait for the rest of it and so hold `run`
  (webhook.rs:628-633) until the client leaves; validators return.

## Not modelled, and the plan

Not modelled for good: metrics, scopes, traits, error types and scripts (no state
that anything else reads), TLS and JSON themselves, the content of events, the
transition times of conditions (upsert_condition; nobody reads them), and the library
calls that are one request without state of their own (get, exists, list, the other
label and annotation patches, owner references).

Done: all modules above, and proofs of every safety property. Left, in order:

1. The Secret and ServiceAccount reconcilers of the multicontroller example, which
   repeat the passes of SyncOperator for other kinds.
2. The transition times of conditions under a lagging cache, if something comes to
   read them.
