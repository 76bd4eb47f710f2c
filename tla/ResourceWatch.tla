---------------------------- MODULE ResourceWatch ----------------------------
(***************************************************************************)
(* The background tasks of koprs, crates/koprs/src/watcher.rs: `watch`     *)
(* sends a unit signal for every resource that is applied, `watch_objects` *)
(* the resource itself, `watch_events` deletions too.  A task drives the   *)
(* stream of kube_runtime::watcher (external: a list, then the changes     *)
(* since, then some error) and ends with the first error it yields; the    *)
(* holder of the receiver may then call the function again.                *)
(***************************************************************************)
EXTENDS Naturals, Sequences

CONSTANTS
  Object,      \* resources of the watched kind
  Capacity,    \* of the caller's channel
  Signal,      \* the unit message of `watch`
  MaxVersion,  \* bound of the model: changes of one object
  MaxErrors    \* bound of the model: errors of the stream

Resource == [there : BOOLEAN, version : Nat]
Change == [kind : {"applied", "deleted"}, object : Object, version : Nat]

ASSUME WatchAssumption ==
  /\ Capacity \in Nat \ {0}
  /\ MaxVersion \in Nat \ {0}
  /\ MaxErrors \in Nat
  /\ Signal \notin Change

VARIABLES
  mode,      \* which of the three functions
  server,    \* [Object -> the resource in the API server]
  task,      \* what the stream of the task does
  page,      \* listed resources the stream has yet to yield
  log,       \* changes since the list that it has yet to yield
  sending,   \* the message the task waits to send, or none
  channel,   \* sent and not yet received
  receiver,  \* the receiver has not been dropped
  known,     \* [Object -> the resource as the receiver knows it]
  missed,    \* history: deletions no stream will yield any more
  errors     \* how often a stream has failed

stream == <<task, page, log>>
world == <<server, missed>>
vars == <<mode, world, stream, sending, channel, receiver, known, errors>>

Message == Change \cup {Signal}

Connected == task \in {"listing", "watching"}

Init ==
  /\ mode \in {"signal", "objects", "events"}
  /\ server \in [Object -> {[there |-> FALSE, version |-> 0], [there |-> TRUE, version |-> 1]}]
  /\ task = "starting"
  /\ page = {}
  /\ log = <<>>
  /\ sending = <<>>
  /\ channel = <<>>
  /\ receiver = TRUE
  /\ known = [o \in Object |-> [there |-> FALSE, version |-> 0]]
  /\ missed = {}
  /\ errors = 0

-----------------------------------------------------------------------------
(***************************************************************************)
(* What the task makes of the stream.                                      *)
(***************************************************************************)
\* Event::Init, which no function passes on, and the list behind it.
List ==
  /\ task = "starting"
  /\ task' = "listing"
  /\ page' = {[kind |-> "applied", object |-> o, version |-> server[o].version] :
                o \in {p \in Object : server[p].there}}
  /\ UNCHANGED <<mode, world, log, sending, channel, receiver, known, errors>>

\* Mutant of Messages: deletions are filtered in every mode.
MessagesOfApplied(change) ==
  IF change.kind = "deleted" THEN <<>>
  ELSE IF mode = "signal" THEN <<Signal>> ELSE <<change>>

\* applied_objects() lets applied resources pass; `watch_events` matches on the
\* event itself.
Messages(change) ==
  IF change.kind = "deleted" /\ mode # "events" THEN <<>>
  ELSE IF mode = "signal" THEN <<Signal>> ELSE <<change>>

\* Mutant of TakeListed: only what changes after the list is reported.
SkipListed ==
  /\ task = "listing" /\ sending = <<>>
  /\ page # {}
  /\ page' = {}
  /\ UNCHANGED <<mode, world, task, log, sending, channel, receiver, known, errors>>

\* Event::InitApply.
TakeListed ==
  /\ task = "listing" /\ sending = <<>>
  /\ \E change \in page :
       /\ page' = page \ {change}
       /\ sending' = Messages(change)
  /\ UNCHANGED <<mode, world, task, log, channel, receiver, known, errors>>

\* Event::InitDone.
Listed ==
  /\ task = "listing" /\ sending = <<>>
  /\ page = {}
  /\ task' = "watching"
  /\ UNCHANGED <<mode, world, page, log, sending, channel, receiver, known, errors>>

\* Mutant of TakeChange: changes are handled side by side, and overtake.
TakeAnyChange ==
  /\ task = "watching" /\ sending = <<>>
  /\ \E i \in 1 .. Len(log) :
       /\ sending' = Messages(log[i])
       /\ log' = SubSeq(log, 1, i - 1) \o SubSeq(log, i + 1, Len(log))
  /\ UNCHANGED <<mode, world, task, page, channel, receiver, known, errors>>

\* Event::Apply and Event::Delete.  The next one is taken when this one is sent.
TakeChange ==
  /\ task = "watching" /\ sending = <<>>
  /\ log # <<>>
  /\ sending' = Messages(Head(log))
  /\ log' = Tail(log)
  /\ UNCHANGED <<mode, world, task, page, channel, receiver, known, errors>>

\* Mutants of Send: an unbounded channel; a full channel swallows the message.
SendUnbounded ==
  /\ sending # <<>>
  /\ receiver
  /\ channel' = Append(channel, Head(sending))
  /\ sending' = Tail(sending)
  /\ UNCHANGED <<mode, world, stream, receiver, known, errors>>

SendOrDrop ==
  /\ sending # <<>>
  /\ receiver
  /\ channel' = IF Len(channel) < Capacity THEN Append(channel, Head(sending)) ELSE channel
  /\ sending' = Tail(sending)
  /\ UNCHANGED <<mode, world, stream, receiver, known, errors>>

\* tx.send().await waits for room.
Send ==
  /\ sending # <<>>
  /\ receiver /\ Len(channel) < Capacity
  /\ channel' = Append(channel, Head(sending))
  /\ sending' = Tail(sending)
  /\ UNCHANGED <<mode, world, stream, receiver, known, errors>>

\* The receiver is gone; .ok() drops the error and the task goes on.
SendIgnored ==
  /\ sending # <<>>
  /\ ~receiver
  /\ sending' = <<>>
  /\ UNCHANGED <<mode, world, stream, channel, receiver, known, errors>>

\* try_for_each ends with the first error the stream yields: default_backoff()
\* would only delay the item after it.
StreamError ==
  /\ task # "ended" /\ sending = <<>>
  /\ errors < MaxErrors
  /\ errors' = errors + 1
  /\ task' = "ended"
  /\ page' = {}
  /\ log' = <<>>
  /\ missed' = missed \cup
                 {o \in Object : ~server[o].there /\ \E i \in 1 .. Len(log) : log[i].object = o}
  /\ UNCHANGED <<mode, server, sending, channel, receiver, known>>

-----------------------------------------------------------------------------
(***************************************************************************)
(* The caller, with the receiver.                                          *)
(***************************************************************************)
\* A signal says that something has changed: the caller looks.
Receive ==
  /\ receiver
  /\ channel # <<>>
  /\ channel' = Tail(channel)
  /\ LET message == Head(channel) IN
       known' = IF message = Signal THEN server
                ELSE [known EXCEPT ![message.object] =
                        [there |-> message.kind = "applied", version |-> message.version]]
  /\ UNCHANGED <<mode, world, stream, sending, receiver, errors>>

\* recv() returns None: the caller starts another watch, with another channel.
Restart ==
  /\ receiver
  /\ task = "ended"
  /\ channel = <<>>
  /\ task' = "starting"
  /\ UNCHANGED <<mode, world, page, log, sending, channel, receiver, known, errors>>

DropReceiver ==
  /\ receiver
  /\ receiver' = FALSE
  /\ channel' = <<>>
  /\ UNCHANGED <<mode, world, stream, sending, known, errors>>

-----------------------------------------------------------------------------
(***************************************************************************)
(* The API server: every change has a new version, and a stream that has   *)
(* listed yields it.                                                       *)
(***************************************************************************)
Write(o, kind) ==
  /\ server[o].version < MaxVersion
  /\ server' = [server EXCEPT ![o] = [there |-> kind = "applied", version |-> server[o].version + 1]]
  /\ log' = IF Connected
            THEN Append(log, [kind |-> kind, object |-> o, version |-> server[o].version + 1])
            ELSE log
  /\ UNCHANGED <<mode, task, page, sending, channel, receiver, known, errors>>

Apply(o) ==
  /\ Write(o, "applied")
  /\ missed' = missed \ {o}

Delete(o) ==
  /\ server[o].there
  /\ Write(o, "deleted")
  /\ missed' = IF Connected THEN missed ELSE missed \cup {o}

-----------------------------------------------------------------------------
TaskStep == List \/ TakeListed \/ Listed \/ TakeChange \/ Send \/ SendIgnored

Next ==
  \/ TaskStep \/ StreamError
  \/ Receive \/ Restart \/ DropReceiver
  \/ \E o \in Object : Apply(o) \/ Delete(o)

\* tokio polls a task that can go on, the server answers, and the caller receives
\* and starts over.  Nothing makes a stream fail or a receiver go.
Fairness == WF_vars(TaskStep) /\ WF_vars(Receive) /\ WF_vars(Restart)

Spec == Init /\ [][Next]_vars /\ Fairness

-----------------------------------------------------------------------------
(***************************************************************************)
(* Properties.                                                             *)
(***************************************************************************)
\* The variables keep their types: the channel within its capacity, one message
\* to send at a time, nothing to receive once the receiver is gone, nothing listed
\* but while it is read out, and a task that has ended holds nothing back.
TypeOK ==
  /\ mode \in {"signal", "objects", "events"}
  /\ server \in [Object -> Resource]
  /\ task \in {"starting", "listing", "watching", "ended"}
  /\ page \subseteq Change
  /\ log \in Seq(Change)
  /\ sending \in Seq(Message)
  /\ channel \in Seq(Message)
  /\ receiver \in BOOLEAN
  /\ known \in [Object -> Resource]
  /\ missed \subseteq Object
  /\ errors \in 0 .. MaxErrors
  /\ Len(sending) <= 1
  /\ Len(channel) <= Capacity
  /\ ~receiver => channel = <<>>
  /\ task # "listing" => page = {}
  /\ ~Connected => log = <<>> /\ sending = <<>>

\* The messages between the stream and the receiver, oldest first.
Undelivered == IF receiver THEN channel \o sending ELSE <<>>

Queue ==
  INSTANCE EventQueue WITH
    Event <- Message, queue <- Undelivered, producing <- (task # "ended"), open <- receiver

\* What the task takes from the stream reaches the receiver once and in order, as
\* long as it is there: the same promise as that of `watch_external`.
ImplementsWatchQueue == Queue!Spec

\* What the receiver knows of a resource never goes back to an older version, not
\* by a change that overtakes another, nor by a second watch after the first
\* (`watch_objects`, "callers receive the current resource state").
NeverGoesBack == [][\A o \in Object : known'[o].version >= known[o].version]_vars

\* In the end the receiver knows every resource that is there as it is, those older
\* than the watch too, through full channels and failed streams.
KeepsUp ==
  <>[](receiver => \A o \in Object : server[o].there => known[o] = server[o])

\* A deletion is reported to the receiver of `watch_events`, but for one that fell
\* between two watches or was on the way when the stream failed ("Delete events may
\* be lost if the watcher was unavailable", watcher.rs:231).
DeletionsReported ==
  mode = "events" =>
    \A o \in Object :
      known[o].there /\ ~server[o].there /\ o \notin missed
        ~> server[o].there \/ ~known[o].there \/ o \in missed \/ ~receiver

\* "The task shuts down automatically when all receivers are dropped"
\* (watcher.rs:80-81, 146-147, 228-229).
ShutsDown == ~receiver ~> task = "ended"
=============================================================================
