------------------------------ MODULE StoreWatch ------------------------------
(***************************************************************************)
(* `ObjectStorePoller::poll`, koprs-external/src/store.rs, as the source   *)
(* of the watch task: list the objects, compare their ETags with those of  *)
(* the last listing, report the difference.  The listing is a stream that  *)
(* is read piece by piece while other clients put and delete objects; the  *)
(* receiver keeps what the events tell it.                                 *)
(***************************************************************************)
EXTENDS Integers, Sequences, FiniteSets

CONSTANTS
  Path,        \* the objects' paths
  Tag,         \* the ETags, which identify the contents
  Absent,      \* no object
  Untagged,    \* an object without an ETag
  BarePath,    \* the paths whose objects may lack an ETag
  MaxChanges,  \* bound of the model: puts and deletes
  Capacity, Interval, MaxBackoff, ShiftCap, MaxErrors

ASSUME StoreAssumption ==
  /\ IsFiniteSet(Path)
  /\ Absent \notin Tag /\ Untagged \notin Tag /\ Absent # Untagged
  /\ BarePath \subseteq Path
  /\ MaxChanges \in Nat
  /\ Capacity \in Nat \ {0}
  /\ Interval \in Nat /\ MaxBackoff \in Nat
  /\ ShiftCap \in Nat /\ MaxErrors \in Nat

VARIABLES
  loop, errors, wait, batch, channel, receiver,  \* of ExternalWatch
  known,    \* [Path -> the ETag of the last listing, or Absent]
  listed,   \* the paths the stream is past
  current,  \* [Path -> what the stream has said of them]
  store,    \* [Path -> the object]
  changes,  \* how many there have been
  view      \* [Path -> what the receiver knows]

task == <<loop, errors, wait, batch, channel, receiver>>
listing == <<listed, current>>
server == <<store, changes>>
vars == <<task, known, listing, server, view>>

Content(p) == Tag \cup {Absent} \cup (IF p \in BarePath THEN {Untagged} ELSE {})
AnyContent == Tag \cup {Absent, Untagged}

StoreEvent == [kind : {"added", "modified", "removed"}, path : Path, object : AnyContent]

Loop == INSTANCE ExternalWatch WITH Event <- StoreEvent

Nothing == [p \in Path |-> Absent]

Init ==
  /\ Loop!Init
  /\ known = Nothing
  /\ listed = {}
  /\ current = Nothing
  /\ store \in {s \in [Path -> AnyContent] : \A p \in Path : s[p] \in Content(p)}
  /\ changes = 0
  /\ view = Nothing

-----------------------------------------------------------------------------
(***************************************************************************)
(* One poll.                                                               *)
(***************************************************************************)
\* The stream gets past one path.
ListPath(p) ==
  /\ loop = "polling"
  /\ p \notin listed
  /\ listed' = listed \cup {p}
  /\ current' = [current EXCEPT ![p] = store[p]]
  /\ UNCHANGED <<task, known, server, view>>

EndListing == listed' = {} /\ current' = Nothing

Found == {p \in Path : current[p] # Absent}
Known == {p \in Path : known[p] # Absent}

\* Mutant of Changed: an object is new whenever its ETag is.
ChangedIsAdded ==
  {[kind |-> "added", path |-> p, object |-> current[p]] : p \in {q \in Found : known[q] # current[q]}}

\* None: Added; another ETag, or none any more: Modified.
Changed ==
  {[kind |-> "added", path |-> p, object |-> current[p]] : p \in Found \ Known}
    \cup {[kind |-> "modified", path |-> p, object |-> current[p]] :
            p \in {q \in Found \cap Known : current[q] # known[q]}}

Gone == {[kind |-> "removed", path |-> p, object |-> Absent] : p \in Known \ Found}

\* The hash maps are walked in any order.
Orders(s) == {f \in [1 .. Cardinality(s) -> s] : \A i, j \in DOMAIN f : i # j => f[i] # f[j]}

\* Only objects with an ETag are remembered.
Remember == known' = [p \in Path |-> IF current[p] \in Tag THEN current[p] ELSE Absent]

Compare ==
  /\ listed = Path
  /\ \E c \in Orders(Changed), g \in Orders(Gone) : Loop!PollOk(c \o g)
  /\ Remember
  /\ EndListing
  /\ UNCHANGED <<server, view>>

\* Mutant of ListFails: what the stream has said so far is taken for the store.
ListFailsHalfway ==
  /\ Loop!PollErr
  /\ Remember
  /\ EndListing
  /\ UNCHANGED <<server, view>>

\* The stream breaks off: nothing is kept.
ListFails ==
  /\ Loop!PollErr
  /\ EndListing
  /\ UNCHANGED <<known, server, view>>

Poll == Compare \/ \E p \in Path : ListPath(p)

-----------------------------------------------------------------------------
\* The rest of the task, and the caller's JoinHandle.
TaskStep ==
  /\ Loop!Send \/ Loop!SendRefused \/ Loop!BatchSent \/ Loop!Wake
  /\ UNCHANGED <<known, listing, server, view>>

Abort == Loop!Abort /\ EndListing /\ UNCHANGED <<known, server, view>>
DropReceiver == Loop!DropReceiver /\ UNCHANGED <<known, listing, server, view>>

\* The receiver notes what the event says.
Receive ==
  /\ Loop!Receive
  /\ view' = [view EXCEPT ![Head(channel).path] = Head(channel).object]
  /\ UNCHANGED <<known, listing, server>>

\* Another client puts or deletes an object.
Change(p) ==
  /\ changes < MaxChanges
  /\ changes' = changes + 1
  /\ \E c \in Content(p) \ {store[p]} : store' = [store EXCEPT ![p] = c]
  /\ UNCHANGED <<task, known, listing, view>>

-----------------------------------------------------------------------------
Next ==
  \/ Poll \/ ListFails \/ TaskStep \/ Abort \/ Receive \/ DropReceiver
  \/ \E p \in Path : Change(p)

\* The store's failures cease in the end, its listings come to an end, the task
\* is scheduled and the receiver reads.
Fairness ==
  /\ <>[][~ListFails]_vars
  /\ WF_vars(Poll)
  /\ WF_vars(TaskStep)
  /\ WF_vars(Receive)

Spec == Init /\ [][Next]_vars /\ Fairness

-----------------------------------------------------------------------------
(***************************************************************************)
(* Properties.                                                             *)
(***************************************************************************)
\* The variables keep their types; only tagged objects are remembered, and a
\* listing is in progress only while the task polls.
TypeOK ==
  /\ Loop!TypeOK
  /\ known \in [Path -> Tag \cup {Absent}]
  /\ listed \subseteq Path
  /\ current \in [Path -> AnyContent]
  /\ store \in [Path -> AnyContent]
  /\ changes \in Nat
  /\ view \in [Path -> AnyContent]
  /\ loop # "polling" => listed = {}

\* For a path whose objects all have ETags, an Added finds the receiver without
\* the object, a Modified with another one and a Removed with one (store.rs:3-5),
\* whatever other objects lack and however listings fail or go stale.
EventsAlternate ==
  channel # <<>> /\ Head(channel).path \notin BarePath =>
    LET e == Head(channel) IN
    /\ e.kind = "added" <=> view[e.path] = Absent
    /\ e.object # view[e.path]

\* The receiver catches up with the tagged objects once those stop changing.
CatchesUp ==
  <>[](loop = "stopped" \/ ~receiver \/ \A p \in Path \ BarePath : view[p] = store[p])

\* Every behaviour of the task is one of the queue between the poller and the
\* receiver: nothing is lost, repeated or overtaken, whatever fails in between.
ImplementsQueue == Loop!ImplementsQueue
=============================================================================
