------------------------------ MODULE HttpWatch ------------------------------
(***************************************************************************)
(* `HttpPoller::poll`, koprs-external/src/http.rs, as the source of the    *)
(* watch task: conditional requests for one resource of an HTTP server,    *)
(* which other clients create, change and delete, and a receiver that      *)
(* keeps what the events tell it.                                          *)
(*                                                                         *)
(* A poll is one step: nothing else reads or writes the poller's state     *)
(* while it runs, and an answer that is late is one that waits in the      *)
(* channel.                                                                *)
(***************************************************************************)
EXTENDS Integers, Sequences

CONSTANTS
  Body,        \* the contents of the resource; its strong ETag is one of them
  NoBody,      \* no content, or no ETag
  SendsETag,   \* set of BOOLEAN: whether a response may carry or lack an ETag
  SendsDate,   \* set of BOOLEAN: the same for Last-Modified
  MaxChanges,  \* bound of the model: changes of the resource
  Capacity, Interval, MaxBackoff, ShiftCap, MaxErrors

ASSUME HttpAssumption ==
  /\ NoBody \notin Body
  /\ SendsETag \subseteq BOOLEAN /\ SendsDate \subseteq BOOLEAN
  /\ MaxChanges \in Nat
  /\ Capacity \in Nat \ {0}
  /\ Interval \in Nat /\ MaxBackoff \in Nat
  /\ ShiftCap \in Nat /\ MaxErrors \in Nat

VARIABLES
  loop, errors, wait, batch, channel, receiver,  \* of ExternalWatch
  seen,          \* the poller's `seen`
  lastETag,      \* its last_etag
  lastModified,  \* its last_modified_value, 0 is None
  body,          \* content of the resource, NoBody when there is none
  modified,      \* time of its last change; no two changes share one
  view           \* what the receiver knows: a content, or NoBody

task == <<loop, errors, wait, batch, channel, receiver>>
poller == <<seen, lastETag, lastModified>>
server == <<body, modified>>
vars == <<task, poller, server, view>>

Added(b) == [kind |-> "added", body |-> b]
Modified(b) == [kind |-> "modified", body |-> b]
Removed == [kind |-> "removed", body |-> NoBody]

HttpEvent == {Added(b) : b \in Body} \cup {Modified(b) : b \in Body} \cup {Removed}

Loop == INSTANCE ExternalWatch WITH Event <- HttpEvent

Init ==
  /\ Loop!Init
  /\ seen = FALSE
  /\ lastETag = NoBody
  /\ lastModified = 0
  /\ body \in Body \cup {NoBody}
  /\ modified = 1
  /\ view = NoBody

-----------------------------------------------------------------------------
(***************************************************************************)
(* The server evaluates If-None-Match, which the poller sends whenever it  *)
(* has an ETag, or else If-Modified-Since; in a response without the       *)
(* header it ignores the condition.                                        *)
(***************************************************************************)
StillValid(withETag, withDate) ==
  IF lastETag # NoBody
  THEN withETag /\ lastETag = body
  ELSE lastModified # 0 /\ withDate /\ modified <= lastModified

\* 304 Not Modified.
PollNotModified(withETag, withDate) ==
  /\ body # NoBody
  /\ StillValid(withETag, withDate)
  /\ Loop!PollOk(<<>>)
  /\ UNCHANGED <<poller, server, view>>

\* Mutants of PollNotFound: the validators outlive the resource; so does `seen`.
PollNotFoundKeepingETag ==
  /\ body = NoBody
  /\ Loop!PollOk(IF seen THEN <<Removed>> ELSE <<>>)
  /\ seen' = FALSE
  /\ UNCHANGED <<lastETag, lastModified, server, view>>

PollNotFoundKeepingSeen ==
  /\ body = NoBody
  /\ Loop!PollOk(IF seen THEN <<Removed>> ELSE <<>>)
  /\ lastETag' = NoBody
  /\ lastModified' = 0
  /\ UNCHANGED <<seen, server, view>>

\* 404 Not Found; a poller that has not seen the resource has no validators.
PollNotFound ==
  /\ body = NoBody
  /\ Loop!PollOk(IF seen THEN <<Removed>> ELSE <<>>)
  /\ IF seen
     THEN seen' = FALSE /\ lastETag' = NoBody /\ lastModified' = 0
     ELSE UNCHANGED poller
  /\ UNCHANGED <<server, view>>

\* 2xx with a body that could be read: both validators are replaced.
PollFound(withETag, withDate) ==
  /\ body # NoBody
  /\ ~StillValid(withETag, withDate)
  /\ Loop!PollOk(<<IF seen THEN Modified(body) ELSE Added(body)>>)
  /\ seen' = TRUE
  /\ lastETag' = IF withETag THEN body ELSE NoBody
  /\ lastModified' = IF withDate THEN modified ELSE 0
  /\ UNCHANGED <<server, view>>

\* No connection, another status, or a body that breaks off: nothing is kept.
PollFails ==
  /\ Loop!PollErr
  /\ UNCHANGED <<poller, server, view>>

Answered ==
  \/ PollNotFound
  \/ \E e \in SendsETag, d \in SendsDate : PollNotModified(e, d) \/ PollFound(e, d)

-----------------------------------------------------------------------------
\* The rest of the task, and the caller's JoinHandle.
TaskStep ==
  /\ Loop!Send \/ Loop!SendRefused \/ Loop!BatchSent \/ Loop!Wake
  /\ UNCHANGED <<poller, server, view>>

Abort == Loop!Abort /\ UNCHANGED <<poller, server, view>>
DropReceiver == Loop!DropReceiver /\ UNCHANGED <<poller, server, view>>

\* The receiver notes what the event says.
Receive ==
  /\ Loop!Receive
  /\ view' = Head(channel).body
  /\ UNCHANGED <<poller, server>>

\* The resource is created, changed, put back to an earlier content, or deleted.
Change ==
  /\ modified <= MaxChanges
  /\ modified' = modified + 1
  /\ body' \in (Body \cup {NoBody}) \ {body}
  /\ UNCHANGED <<task, poller, view>>

-----------------------------------------------------------------------------
Next == Answered \/ PollFails \/ TaskStep \/ Abort \/ Receive \/ DropReceiver \/ Change

\* A poll that is tried again and again is answered in the end, the task is
\* scheduled and the receiver reads; nothing stops the resource from changing.
Fairness ==
  /\ SF_vars(Answered)
  /\ WF_vars(PollFails \/ Answered)
  /\ WF_vars(TaskStep)
  /\ WF_vars(Receive)

Spec == Init /\ [][Next]_vars /\ Fairness

-----------------------------------------------------------------------------
(***************************************************************************)
(* Properties.                                                             *)
(***************************************************************************)
\* The variables keep their types, the poller has validators only for a resource
\* it has seen, and the receiver keeps a content or none.
TypeOK ==
  /\ Loop!TypeOK
  /\ seen \in BOOLEAN
  /\ lastETag \in Body \cup {NoBody}
  /\ lastModified \in Nat
  /\ body \in Body \cup {NoBody}
  /\ modified \in Nat
  /\ view \in Body \cup {NoBody}
  /\ ~seen => lastETag = NoBody /\ lastModified = 0

\* An Added finds the receiver without the resource, a Modified or a Removed
\* finds it with one (watcher.rs:21-28), whatever failed or changed between.
EventsAlternate ==
  channel # <<>> => (Head(channel).kind = "added" <=> view = NoBody)

\* The receiver catches up with the resource once that stops changing.
CatchesUp == <>[](loop = "stopped" \/ ~receiver \/ view = body)

\* A task that is blocked on a channel nobody reads any more ends.
BlockedSendEnds == Loop!BlockedSendEnds
=============================================================================
