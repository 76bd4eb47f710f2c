---------------------------- MODULE ExternalWatch ----------------------------
(***************************************************************************)
(* The task of `watch_external_with_config`, koprs-external/src/watcher.rs:*)
(* poll the source, send its events one by one into a bounded channel,     *)
(* sleep, and back off while polls fail.  The source is arbitrary here;    *)
(* HttpWatch and StoreWatch put the two pollers in its place and run it.   *)
(***************************************************************************)
EXTENDS Integers, Sequences

CONSTANTS
  Event,       \* what the source can report
  Capacity,    \* of the channel: not 0, for which mpsc::channel panics
  Interval,    \* config.interval
  MaxBackoff,  \* config.max_backoff
  ShiftCap,    \* the largest exponent of the backoff, 30
  MaxErrors    \* where consecutive_errors saturates, u32::MAX

VARIABLES
  loop,      \* what the task does
  errors,    \* consecutive_errors
  wait,      \* how long it sleeps, or has last slept
  batch,     \* events of the last poll that are still to be sent
  channel,   \* sent and not yet received
  receiver   \* the receiver has not been dropped

vars == <<loop, errors, wait, batch, channel, receiver>>

SmallerOf(a, b) == IF a <= b THEN a ELSE b

BackoffWait(n) == SmallerOf(Interval * 2^SmallerOf(n, ShiftCap), MaxBackoff)

Init ==
  /\ loop = "polling"
  /\ errors = 0
  /\ wait = Interval
  /\ batch = <<>>
  /\ channel = <<>>
  /\ receiver = TRUE

-----------------------------------------------------------------------------
(***************************************************************************)
(* The task.                                                               *)
(***************************************************************************)
PollOk(events) ==
  /\ loop = "polling"
  /\ loop' = "sending"
  /\ errors' = 0
  /\ batch' = events
  /\ UNCHANGED <<wait, channel, receiver>>

PollErr ==
  /\ loop = "polling"
  /\ loop' = "sleeping"
  /\ errors' = SmallerOf(errors + 1, MaxErrors)
  /\ wait' = BackoffWait(errors')
  /\ UNCHANGED <<batch, channel, receiver>>

\* Mutants of Send: an unbounded channel; a full channel swallows the event.
SendUnbounded ==
  /\ loop = "sending" /\ batch # <<>> /\ receiver
  /\ channel' = Append(channel, Head(batch))
  /\ batch' = Tail(batch)
  /\ UNCHANGED <<loop, errors, wait, receiver>>

SendOrDrop ==
  /\ loop = "sending" /\ batch # <<>> /\ receiver
  /\ channel' = IF Len(channel) < Capacity THEN Append(channel, Head(batch)) ELSE channel
  /\ batch' = Tail(batch)
  /\ UNCHANGED <<loop, errors, wait, receiver>>

\* tx.send().await: there has to be room.
Send ==
  /\ loop = "sending" /\ batch # <<>> /\ receiver
  /\ Len(channel) < Capacity
  /\ channel' = Append(channel, Head(batch))
  /\ batch' = Tail(batch)
  /\ UNCHANGED <<loop, errors, wait, receiver>>

\* Mutant of SendRefused: the error of the send is ignored.
SendIgnored ==
  /\ loop = "sending" /\ batch # <<>> /\ ~receiver
  /\ batch' = Tail(batch)
  /\ UNCHANGED <<loop, errors, wait, channel, receiver>>

\* The receiver is gone, whether or not there was room: the task returns.
SendRefused ==
  /\ loop = "sending" /\ batch # <<>> /\ ~receiver
  /\ loop' = "stopped"
  /\ batch' = <<>>
  /\ UNCHANGED <<errors, wait, channel, receiver>>

BatchSent ==
  /\ loop = "sending" /\ batch = <<>>
  /\ loop' = "sleeping"
  /\ wait' = Interval
  /\ UNCHANGED <<errors, batch, channel, receiver>>

Wake ==
  /\ loop = "sleeping"
  /\ loop' = "polling"
  /\ UNCHANGED <<errors, wait, batch, channel, receiver>>

-----------------------------------------------------------------------------
(***************************************************************************)
(* The caller, who holds the JoinHandle and the receiver.                  *)
(***************************************************************************)
Abort ==
  /\ loop # "stopped"
  /\ loop' = "stopped"
  /\ batch' = <<>>
  /\ UNCHANGED <<errors, wait, channel, receiver>>

Receive ==
  /\ receiver
  /\ channel # <<>>
  /\ channel' = Tail(channel)
  /\ UNCHANGED <<loop, errors, wait, batch, receiver>>

DropReceiver ==
  /\ receiver
  /\ receiver' = FALSE
  /\ channel' = <<>>
  /\ UNCHANGED <<loop, errors, wait, batch>>

-----------------------------------------------------------------------------
\* An arbitrary source: it reports any events, or fails.
Poll == PollErr \/ \E events \in Seq(Event) : PollOk(events)

Next ==
  \/ Poll \/ Send \/ SendRefused \/ BatchSent \/ Wake
  \/ Abort \/ Receive \/ DropReceiver

Spec == Init /\ [][Next]_vars

-----------------------------------------------------------------------------
(***************************************************************************)
(* Properties.                                                             *)
(***************************************************************************)
\* The variables keep their types: the channel within its capacity, nothing to
\* send unless the task is sending, nothing to receive once the receiver is gone.
TypeOK ==
  /\ loop \in {"polling", "sending", "sleeping", "stopped"}
  /\ errors \in 0 .. MaxErrors
  /\ wait \in Nat
  /\ batch \in Seq(Event)
  /\ channel \in Seq(Event)
  /\ receiver \in BOOLEAN
  /\ Len(channel) <= Capacity
  /\ loop # "sending" => batch = <<>>
  /\ ~receiver => channel = <<>>

\* The events between the source and the receiver, oldest first.
Undelivered == IF receiver THEN channel \o batch ELSE <<>>

Queue == INSTANCE EventQueue
           WITH queue <- Undelivered, producing <- (loop # "stopped"), open <- receiver

\* Every behaviour of the task is one of the queue: a full channel, failed polls
\* and sleeps in between lose, repeat and reorder nothing.
ImplementsQueue == Queue!Spec

\* A task that is blocked on a channel nobody reads any more ends.
BlockedSendEnds == batch # <<>> /\ ~receiver ~> loop = "stopped"
=============================================================================
