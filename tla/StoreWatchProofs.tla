-------------------------- MODULE StoreWatchProofs --------------------------
(***************************************************************************)
(* ObjectStorePoller behind the watch task: each of its steps is one of    *)
(* the task with an arbitrary source, so it implements the event queue and *)
(* keeps the types as ExternalWatchProofs shows; and the events of each    *)
(* path whose objects have ETags alternate.  For that, the invariant says  *)
(* what the receiver will know of the path after each event under way:     *)
(* each event changes it, and after the last one it is what the poller     *)
(* remembers.                                                              *)
(***************************************************************************)
EXTENDS StoreWatch, FiniteSetTheorems, SequenceTheorems, TLAPS

AnyLoop == INSTANCE ExternalWatchProofs WITH Event <- StoreEvent

-----------------------------------------------------------------------------
\* The store or a listing of it: objects with ETags, or without where they may
\* lack them.
Listings == {f \in [Path -> AnyContent] : \A p \in Path : f[p] \in Content(p)}

\* What is listed and stored are contents, or their absence; what is remembered
\* has an ETag.
StoreInv ==
  /\ known \in [Path -> Tag \cup {Absent}]
  /\ current \in Listings
  /\ store \in Listings

\* An empty listing is one.
LEMMA EmptyListing ==
  /\ Nothing \in Listings
  /\ Nothing \in [Path -> Tag \cup {Absent}] /\ Nothing \in [Path -> AnyContent]
  BY DEF Nothing, Listings, AnyContent, Content

\* One more path is listed, or changes.
LEMMA OneMore ==
  ASSUME NEW f \in Listings, NEW p \in Path, NEW c \in Content(p)
  PROVE  [f EXCEPT ![p] = c] \in Listings
  <1>1. c \in AnyContent
    BY DEF Content, AnyContent
  <1> QED
    BY <1>1 DEF Listings

\* Nothing but contents is ever listed, and nothing but ETags remembered.
LEMMA StoreInvStep ==
  ASSUME StoreInv, [Next]_vars
  PROVE  StoreInv'
  <1> USE DEF StoreInv
  <1>1. Nothing \in Listings
    BY EmptyListing
  <1>2. ASSUME NEW p \in Path, ListPath(p) PROVE StoreInv'
    <2>1. store[p] \in Content(p)
      BY DEF Listings
    <2> QED
      BY <1>2, <2>1, OneMore DEF ListPath, server
  <1>3. CASE Compare
    BY <1>1, <1>3 DEF Compare, Remember, EndListing, server
  <1>4. CASE ListFails
    BY <1>1, <1>4 DEF ListFails, EndListing, server
  <1>5. CASE TaskStep
    BY <1>5 DEF TaskStep, server, listing
  <1>6. CASE Abort
    BY <1>1, <1>6 DEF Abort, EndListing, server
  <1>7. CASE Receive
    BY <1>7 DEF Receive, server, listing
  <1>8. CASE DropReceiver
    BY <1>8 DEF DropReceiver, server, listing
  <1>9. ASSUME NEW p \in Path, Change(p) PROVE StoreInv'
    <2>1. PICK c \in Content(p) \ {store[p]} : store' = [store EXCEPT ![p] = c]
      BY <1>9 DEF Change
    <2> QED
      BY <1>9, <2>1, OneMore DEF Change, listing
  <1>10. CASE UNCHANGED vars
    BY <1>10 DEF vars, listing, server
  <1> QED
    BY <1>2, <1>3, <1>4, <1>5, <1>6, <1>7, <1>8, <1>9, <1>10 DEF Next, Poll

-----------------------------------------------------------------------------
\* A set of events that names every path at most once is finite, and whichever
\* order it is walked in is a sequence that has each of them once.
LEMMA OrdersAreSequences ==
  ASSUME NEW s \in SUBSET StoreEvent,
         \A d, e \in s : d.path = e.path => d = e,
         NEW f \in Orders(s)
  PROVE  /\ f \in Seq(StoreEvent)
         /\ \A i \in 1 .. Len(f) : f[i] \in s
         /\ \A i, j \in 1 .. Len(f) : f[i] = f[j] => i = j
         /\ \A e \in s : \E i \in 1 .. Len(f) : f[i] = e
  <1> DEFINE pathOf == [e \in s |-> e.path]
  <1>1. pathOf \in [s -> Path]
    BY DEF StoreEvent
  <1>2. pathOf \in Injection(s, Path)
    BY <1>1 DEF Injection, IsInjective
  <1>3. IsFiniteSet(s)
    BY <1>2, FS_Injection, StoreAssumption
  <1> DEFINE n == Cardinality(s)
  <1>4. n \in Nat
    BY <1>3, FS_CardinalityType
  <1> HIDE DEF n
  <1>5. f \in [1 .. n -> s] /\ \A i, j \in 1 .. n : i # j => f[i] # f[j]
    BY DEF Orders, n
  <1>6. f \in Seq(StoreEvent) /\ Len(f) = n
    BY <1>4, <1>5
  <1>7. f \in Injection(1 .. n, s)
    BY <1>5 DEF Injection, IsInjective
  <1>8. IsFiniteSet(1 .. n) /\ Cardinality(1 .. n) = n
    BY <1>4, FS_Interval
  <1>9. f \in Surjection(1 .. n, s)
    BY <1>3, <1>7, <1>8, FS_Injection DEF n
  <1>10. \A e \in s : \E i \in 1 .. n : f[i] = e
    BY <1>9 DEF Surjection
  <1> QED
    BY <1>5, <1>6, <1>10

\* Each event of the comparison says what has become of a path that differs from
\* what is remembered of it, and how it differs.
LEMMA DifferenceFits ==
  ASSUME StoreInv, NEW e \in Changed \cup Gone
  PROVE  /\ e \in StoreEvent
         /\ e.object = current[e.path] /\ current[e.path] # known[e.path]
         /\ e.kind = "added" <=> known[e.path] = Absent
  <1>1. \A p \in Path : current[p] \in AnyContent
    BY DEF StoreInv, Listings
  <1>2. CASE e \in Changed
    BY <1>1, <1>2 DEF Changed, Found, Known, StoreEvent
  <1>3. CASE e \in Gone
    BY <1>3 DEF Gone, Found, Known, StoreEvent, AnyContent
  <1> QED
    BY <1>2, <1>3

\* Each path that differs has an event.
LEMMA DifferenceIsReported ==
  ASSUME NEW p \in Path, current[p] # known[p]
  PROVE  \E e \in Changed \cup Gone : e.path = p
  <1> DEFINE event(kind, object) == [kind |-> kind, path |-> p, object |-> object]
  <1>0. \A kind, object : event(kind, object).path = p
    OBVIOUS
  <1>1. CASE p \in Found \ Known
    <2>1. event("added", current[p]) \in Changed
      BY <1>1 DEF Changed
    <2> QED
      BY <1>0, <2>1
  <1>2. CASE p \in Found \cap Known
    <2>1. event("modified", current[p]) \in Changed
      BY <1>2 DEF Changed
    <2> QED
      BY <1>0, <2>1
  <1>3. CASE p \in Known \ Found
    <2>1. event("removed", Absent) \in Gone
      BY <1>3 DEF Gone
    <2> QED
      BY <1>0, <2>1
  <1> QED
    BY <1>1, <1>2, <1>3 DEF Found, Known

\* The comparison of two listings reports each path that differs, once.
LEMMA CompareReports ==
  ASSUME StoreInv, NEW c \in Orders(Changed), NEW g \in Orders(Gone)
  PROVE  /\ c \o g \in Seq(StoreEvent)
         /\ \A i \in 1 .. Len(c \o g) : (c \o g)[i] \in Changed \cup Gone
         /\ \A i, j \in 1 .. Len(c \o g) : (c \o g)[i].path = (c \o g)[j].path => i = j
         /\ \A e \in Changed \cup Gone : \E i \in 1 .. Len(c \o g) : (c \o g)[i] = e
  <1>1. Changed \in SUBSET StoreEvent /\ Gone \in SUBSET StoreEvent
    BY DifferenceFits
  <1>2. \A d, e \in Changed : d.path = e.path => d = e
    BY DEF Changed, Found, Known
  <1>3. \A d, e \in Gone : d.path = e.path => d = e
    BY DEF Gone
  <1>4. \A d \in Changed, e \in Gone : d.path # e.path
    BY DEF Changed, Gone, Found, Known
  <1>5. /\ c \in Seq(StoreEvent)
        /\ \A i \in 1 .. Len(c) : c[i] \in Changed
        /\ \A i, j \in 1 .. Len(c) : c[i] = c[j] => i = j
        /\ \A e \in Changed : \E i \in 1 .. Len(c) : c[i] = e
    BY <1>1, <1>2, OrdersAreSequences
  <1>6. /\ g \in Seq(StoreEvent)
        /\ \A i \in 1 .. Len(g) : g[i] \in Gone
        /\ \A i, j \in 1 .. Len(g) : g[i] = g[j] => i = j
        /\ \A e \in Gone : \E i \in 1 .. Len(g) : g[i] = e
    BY <1>1, <1>3, OrdersAreSequences
  <1> DEFINE b == c \o g
  <1>7. Len(c) \in Nat /\ Len(g) \in Nat
    BY <1>5, <1>6, LenProperties
  <1>8. /\ b \in Seq(StoreEvent) /\ Len(b) = Len(c) + Len(g)
        /\ \A i \in 1 .. Len(c) + Len(g) :
             b[i] = IF i <= Len(c) THEN c[i] ELSE g[i - Len(c)]
    BY <1>5, <1>6, ConcatProperties
  <1> HIDE DEF b
  <1>9. \A i \in 1 .. Len(b) : \/ i \in 1 .. Len(c) /\ b[i] = c[i]
                               \/ i - Len(c) \in 1 .. Len(g) /\ b[i] = g[i - Len(c)]
    BY <1>7, <1>8
  <1>10. \A i \in 1 .. Len(b) : b[i] \in Changed \cup Gone
    BY <1>5, <1>6, <1>9
  <1>11. ASSUME NEW i \in 1 .. Len(b), NEW j \in 1 .. Len(b), b[i].path = b[j].path
         PROVE  i = j
    <2>1. CASE i \in 1 .. Len(c) /\ b[i] = c[i] /\ j \in 1 .. Len(c) /\ b[j] = c[j]
      BY <1>2, <1>5, <1>11, <2>1
    <2>2. CASE /\ i - Len(c) \in 1 .. Len(g) /\ b[i] = g[i - Len(c)]
               /\ j - Len(c) \in 1 .. Len(g) /\ b[j] = g[j - Len(c)]
      <3>1. i - Len(c) = j - Len(c)
        BY <1>3, <1>6, <1>11, <2>2
      <3> QED
        BY <1>7, <3>1
    <2>3. CASE b[i] \in Changed /\ b[j] \in Gone
      BY <1>4, <1>11, <2>3
    <2>4. CASE b[i] \in Gone /\ b[j] \in Changed
      BY <1>4, <1>11, <2>4
    <2> QED
      BY <1>5, <1>6, <1>9, <2>1, <2>2, <2>3, <2>4
  <1>12. ASSUME NEW e \in Changed \cup Gone PROVE \E i \in 1 .. Len(b) : b[i] = e
    <2>1. CASE e \in Changed
      <3>1. PICK i \in 1 .. Len(c) : c[i] = e
        BY <1>5, <2>1
      <3>2. i \in 1 .. Len(b) /\ b[i] = e
        BY <1>7, <1>8, <3>1
      <3> QED
        BY <3>2
    <2>2. CASE e \in Gone
      <3>1. PICK i \in 1 .. Len(g) : g[i] = e
        BY <1>6, <2>2
      <3>2. Len(c) + i \in 1 .. Len(b) /\ b[Len(c) + i] = e
        BY <1>7, <1>8, <3>1
      <3> QED
        BY <3>2
    <2> QED
      BY <2>1, <2>2
  <1> QED
    BY <1>8, <1>10, <1>11, <1>12 DEF b

-----------------------------------------------------------------------------
\* Every step is one of the task with an arbitrary source, or none of its own.
LEMMA LoopStep ==
  ASSUME StoreInv, [Next]_vars
  PROVE  [AnyLoop!Next]_AnyLoop!vars
  <1> USE DEF AnyLoop!Next, AnyLoop!Poll, AnyLoop!vars
  <1>1. ASSUME NEW p \in Path, ListPath(p) PROVE UNCHANGED AnyLoop!vars
    BY <1>1 DEF ListPath, task
  <1>2. CASE Compare
    <2>1. PICK c \in Orders(Changed), g \in Orders(Gone) : Loop!PollOk(c \o g)
      BY <1>2 DEF Compare
    <2>2. c \o g \in Seq(StoreEvent)
      BY CompareReports
    <2>3. AnyLoop!PollOk(c \o g)
      BY <2>1 DEF Loop!PollOk, AnyLoop!PollOk
    <2> QED
      BY <2>2, <2>3
  <1>3. CASE ListFails
    <2>1. AnyLoop!PollErr
      BY <1>3 DEF ListFails, Loop!PollErr, AnyLoop!PollErr, Loop!SmallerOf, AnyLoop!SmallerOf,
                  Loop!BackoffWait, AnyLoop!BackoffWait
    <2> QED
      BY <2>1
  <1>4. CASE TaskStep
    <2>1. CASE Loop!Send
      BY <2>1 DEF Loop!Send, AnyLoop!Send
    <2>2. CASE Loop!SendRefused
      BY <2>2 DEF Loop!SendRefused, AnyLoop!SendRefused
    <2>3. CASE Loop!BatchSent
      BY <2>3 DEF Loop!BatchSent, AnyLoop!BatchSent
    <2>4. CASE Loop!Wake
      BY <2>4 DEF Loop!Wake, AnyLoop!Wake
    <2> QED
      BY <1>4, <2>1, <2>2, <2>3, <2>4 DEF TaskStep
  <1>5. CASE Abort
    BY <1>5 DEF Abort, Loop!Abort, AnyLoop!Abort
  <1>6. CASE Receive
    BY <1>6 DEF Receive, Loop!Receive, AnyLoop!Receive
  <1>7. CASE DropReceiver
    BY <1>7 DEF DropReceiver, Loop!DropReceiver, AnyLoop!DropReceiver
  <1>8. ASSUME NEW p \in Path, Change(p) PROVE UNCHANGED AnyLoop!vars
    BY <1>8 DEF Change, task
  <1>9. CASE UNCHANGED vars
    BY <1>9 DEF vars, task
  <1> QED
    BY <1>1, <1>2, <1>3, <1>4, <1>5, <1>6, <1>7, <1>8, <1>9 DEF Next, Poll

\* The queue that ExternalWatchProofs speaks of is the one of StoreWatch.
LEMMA SameQueue ==
  /\ AnyLoop!Queue!Init => Loop!Queue!Init
  /\ [AnyLoop!Queue!Next]_AnyLoop!Queue!vars => [Loop!Queue!Next]_Loop!Queue!vars
  <1> USE DEF AnyLoop!Undelivered, Loop!Undelivered
  <1>1. AnyLoop!Queue!Init => Loop!Queue!Init
    BY DEF AnyLoop!Queue!Init, Loop!Queue!Init
  <1>2. AnyLoop!Queue!Produce => Loop!Queue!Produce
    BY DEF AnyLoop!Queue!Produce, Loop!Queue!Produce
  <1>3. AnyLoop!Queue!Receive => Loop!Queue!Receive
    BY DEF AnyLoop!Queue!Receive, Loop!Queue!Receive
  <1>4. AnyLoop!Queue!End => Loop!Queue!End
    BY DEF AnyLoop!Queue!End, Loop!Queue!End
  <1>5. AnyLoop!Queue!Close => Loop!Queue!Close
    BY DEF AnyLoop!Queue!Close, Loop!Queue!Close
  <1>6. UNCHANGED AnyLoop!Queue!vars => UNCHANGED Loop!Queue!vars
    BY DEF AnyLoop!Queue!vars, Loop!Queue!vars
  <1>7. AnyLoop!Queue!Renew => Loop!Queue!Renew
    BY DEF AnyLoop!Queue!Renew, Loop!Queue!Renew
  <1> QED
    BY <1>1, <1>2, <1>3, <1>4, <1>5, <1>6, <1>7 DEF AnyLoop!Queue!Next, Loop!Queue!Next

\* The events of two listings' difference reach the receiver in order, once and
\* without a gap, for any number of objects and any capacity of the channel.
THEOREM ListingIsAQueue == Spec => ImplementsQueue
  <1>1. Init => StoreInv /\ AnyLoop!Init
    BY EmptyListing DEF Init, StoreInv, Listings, Loop!Init, AnyLoop!Init
  <1>2. StoreInv /\ [Next]_vars => StoreInv'
    BY StoreInvStep
  <1>3. StoreInv /\ [Next]_vars => [AnyLoop!Next]_AnyLoop!vars
    BY LoopStep
  <1>4. AnyLoop!Init => AnyLoop!QueueInv /\ AnyLoop!Queue!Init
    BY AnyLoop!QueueInit
  <1>5. AnyLoop!QueueInv /\ [AnyLoop!Next]_AnyLoop!vars => AnyLoop!QueueInv'
    BY AnyLoop!QueueInvStep
  <1>6. AnyLoop!QueueInv /\ [AnyLoop!Next]_AnyLoop!vars
          => [AnyLoop!Queue!Next]_AnyLoop!Queue!vars
    BY AnyLoop!QueueStep
  <1> QED
    BY <1>1, <1>2, <1>3, <1>4, <1>5, <1>6, SameQueue, PTL
    DEF Spec, ImplementsQueue, Loop!ImplementsQueue, Loop!Queue!Spec

-----------------------------------------------------------------------------
\* The types of ExternalWatch are those of its instance with an arbitrary source.
LEMMA SameTypes == Loop!TypeOK <=> AnyLoop!TypeOK
  BY DEF Loop!TypeOK, AnyLoop!TypeOK

\* The initial state has the types, for every store.
LEMMA TypeInit == Init => TypeOK /\ StoreInv
  <1> SUFFICES ASSUME Init PROVE TypeOK /\ StoreInv
    OBVIOUS
  <1>1. AnyLoop!ConfigTypes /\ AnyLoop!Init
    BY StoreAssumption DEF AnyLoop!ConfigTypes, Init, Loop!Init, AnyLoop!Init
  <1>2. Loop!TypeOK
    BY <1>1, SameTypes, AnyLoop!TaskTypesInit
  <1>3. StoreInv /\ store \in [Path -> AnyContent]
    BY EmptyListing DEF Init, StoreInv, Listings
  <1> QED
    BY <1>2, <1>3, EmptyListing DEF Init, TypeOK

\* Every step keeps them; a listing that is over leaves nothing behind.
LEMMA TypeStep ==
  ASSUME TypeOK, StoreInv, [Next]_vars
  PROVE  TypeOK'
  <1> USE DEF TypeOK
  <1>1. Loop!TypeOK'
    <2>1. AnyLoop!ConfigTypes
      BY StoreAssumption DEF AnyLoop!ConfigTypes
    <2>2. [AnyLoop!Next]_AnyLoop!vars
      BY LoopStep
    <2>3. AnyLoop!TypeOK'
      BY <2>1, <2>2, SameTypes, AnyLoop!TaskTypesStep
    <2> QED
      BY <2>3 DEF Loop!TypeOK, AnyLoop!TypeOK
  <1>2. /\ known' \in [Path -> Tag \cup {Absent}]
        /\ current' \in [Path -> AnyContent]
        /\ store' \in [Path -> AnyContent]
    BY StoreInvStep DEF StoreInv, Listings
  <1> DEFINE Rest == /\ listed \subseteq Path
                     /\ changes \in Nat
                     /\ view \in [Path -> AnyContent]
                     /\ loop # "polling" => listed = {}
  <1>3. Rest'
    <2> USE DEF task, listing, server
    <2>1. ASSUME NEW p \in Path, ListPath(p) PROVE Rest'
      BY <2>1 DEF ListPath
    <2>2. CASE Compare
      BY <2>2 DEF Compare, EndListing
    <2>3. CASE ListFails
      BY <2>3 DEF ListFails, EndListing
    <2>4. CASE TaskStep
      BY <2>4 DEF TaskStep, Loop!Send, Loop!SendRefused, Loop!BatchSent, Loop!Wake
    <2>5. CASE Abort
      BY <2>5 DEF Abort, EndListing
    <2>6. CASE Receive
      <3>1. channel \in Seq(StoreEvent) /\ channel # <<>>
        BY <2>6 DEF Receive, Loop!Receive, Loop!TypeOK
      <3>2. Head(channel) \in StoreEvent
        BY <3>1, HeadTailProperties
      <3>3. Head(channel).object \in AnyContent
        BY <3>2 DEF StoreEvent
      <3> QED
        BY <2>6, <3>3 DEF Receive, Loop!Receive
    <2>7. CASE DropReceiver
      BY <2>7 DEF DropReceiver, Loop!DropReceiver
    <2>8. ASSUME NEW p \in Path, Change(p) PROVE Rest'
      BY <2>8 DEF Change
    <2>9. CASE UNCHANGED vars
      BY <2>9 DEF vars
    <2> QED
      BY <2>1, <2>2, <2>3, <2>4, <2>5, <2>6, <2>7, <2>8, <2>9 DEF Next, Poll
  <1> QED
    BY <1>1, <1>2, <1>3

\* For any objects, ETags and capacity the variables keep their types: only ETags
\* are remembered, and a listing is in progress only while the task polls.
THEOREM StoreTyped == Spec => []TypeOK
  <1>1. TypeOK /\ StoreInv /\ [Next]_vars => (TypeOK /\ StoreInv)'
    BY TypeStep, StoreInvStep
  <1> QED
    BY <1>1, TypeInit, PTL DEF Spec

-----------------------------------------------------------------------------
\* The events under way, oldest first.
underway == channel \o batch

\* h is what a receiver knows of path p, event by event: each event of p changes
\* it, and is Added exactly if there was no object.
Follows(h, q, p) ==
  \A i \in 1 .. Len(q) :
    IF q[i].path = p
    THEN /\ h[i] = q[i].object
         /\ h[i] # h[i - 1]
         /\ q[i].kind = "added" <=> h[i - 1] = Absent
    ELSE h[i] = h[i - 1]

\* The events q lead a receiver that knows `from` of path p to `to`.
Leads(q, p, from, to) == \E h : h[0] = from /\ h[Len(q)] = to /\ Follows(h, q, p)

\* The inductive invariant of EventsAlternate: of each path whose objects have
\* ETags, the events under way lead the receiver to what the poller remembers, or
\* anywhere once the task has ended.
AlternationInv ==
  receiver => \A p \in Path \ BarePath :
                \E to : Leads(underway, p, view[p], to) /\ (loop # "stopped" => to = known[p])

\* No events lead nowhere.
LEMMA LeadsNowhere == \A p, object : Leads(<<>>, p, object, object)
  <1> TAKE p, object
  <1> DEFINE h == [i \in {0} |-> object]
  <1>1. h[0] = object /\ h[Len(<<>>)] = object /\ Follows(h, <<>>, p)
    BY EmptySeq DEF Follows
  <1> QED
    BY <1>1 DEF Leads

\* More events lead on.
LEMMA LeadsOn ==
  ASSUME NEW q \in Seq(StoreEvent), NEW b \in Seq(StoreEvent), NEW p,
         NEW from, NEW mid, NEW to, Leads(q, p, from, mid), Leads(b, p, mid, to)
  PROVE  Leads(q \o b, p, from, to)
  <1>1. PICK f : f[0] = from /\ f[Len(q)] = mid /\ Follows(f, q, p)
    BY DEF Leads
  <1>2. PICK g : g[0] = mid /\ g[Len(b)] = to /\ Follows(g, b, p)
    BY DEF Leads
  <1> DEFINE h == [i \in Nat |-> IF i <= Len(q) THEN f[i] ELSE g[i - Len(q)]]
  <1> DEFINE r == q \o b
  <1>3. Len(q) \in Nat /\ Len(b) \in Nat
    BY LenProperties
  <1>4. /\ Len(r) = Len(q) + Len(b)
        /\ \A i \in 1 .. Len(q) + Len(b) :
             r[i] = IF i <= Len(q) THEN q[i] ELSE b[i - Len(q)]
    BY ConcatProperties
  <1>5. /\ \A i \in 0 .. Len(q) : h[i] = f[i]
        /\ \A i \in 0 .. Len(b) : h[Len(q) + i] = g[i]
    BY <1>1, <1>2, <1>3
  <1> HIDE DEF h, r
  <1>6. h[0] = from /\ h[Len(r)] = to
    BY <1>1, <1>2, <1>3, <1>4, <1>5
  <1>7. Follows(h, r, p)
    <2> SUFFICES ASSUME NEW i \in 1 .. Len(q) + Len(b)
                 PROVE  IF r[i].path = p
                        THEN /\ h[i] = r[i].object
                             /\ h[i] # h[i - 1]
                             /\ r[i].kind = "added" <=> h[i - 1] = Absent
                        ELSE h[i] = h[i - 1]
      BY <1>4 DEF Follows
    <2>1. CASE i \in 1 .. Len(q)
      <3>1. h[i] = f[i] /\ h[i - 1] = f[i - 1] /\ r[i] = q[i]
        BY <1>3, <1>4, <1>5, <2>1
      <3> QED
        BY <1>1, <2>1, <3>1 DEF Follows
    <2>2. CASE i \notin 1 .. Len(q)
      <3> DEFINE j == i - Len(q)
      <3>1. j \in 1 .. Len(b) /\ i = Len(q) + j /\ i - 1 = Len(q) + (j - 1)
            /\ j - 1 \in 0 .. Len(b) /\ j \in 0 .. Len(b)
        BY <1>3, <2>2
      <3>2. r[i] = b[j]
        BY <1>3, <1>4, <2>2
      <3> HIDE DEF j
      <3>3. h[i] = g[j] /\ h[i - 1] = g[j - 1]
        BY <1>5, <3>1
      <3> QED
        BY <1>2, <3>1, <3>2, <3>3 DEF Follows
    <2> QED
      BY <2>1, <2>2
  <1> QED
    BY <1>6, <1>7 DEF Leads, r

\* The first part of the events leads somewhere, too.
LEMMA LeadsPartway ==
  ASSUME NEW q \in Seq(StoreEvent), NEW t \in Seq(StoreEvent), NEW p,
         NEW from, NEW to, Leads(q \o t, p, from, to)
  PROVE  \E mid : Leads(q, p, from, mid)
  <1>1. PICK h : h[0] = from /\ Follows(h, q \o t, p)
    BY DEF Leads
  <1>2. Len(q) \in Nat /\ Len(t) \in Nat
    BY LenProperties
  <1>3. /\ Len(q \o t) = Len(q) + Len(t)
        /\ \A i \in 1 .. Len(q) : (q \o t)[i] = q[i]
    BY <1>2, ConcatProperties
  <1>4. Follows(h, q, p)
    BY <1>1, <1>2, <1>3 DEF Follows
  <1> QED
    BY <1>1, <1>4 DEF Leads

\* The first event fits what the receiver knows, and the others lead on from there.
LEMMA LeadsStepwise ==
  ASSUME NEW q \in Seq(StoreEvent), q # <<>>, NEW p, NEW from, NEW to, Leads(q, p, from, to)
  PROVE  /\ Head(q).path = p => /\ Head(q).object # from
                                /\ Head(q).kind = "added" <=> from = Absent
                                /\ Leads(Tail(q), p, Head(q).object, to)
         /\ Head(q).path # p => Leads(Tail(q), p, from, to)
  <1>1. PICK h : h[0] = from /\ h[Len(q)] = to /\ Follows(h, q, p)
    BY DEF Leads
  <1>2. Len(q) \in Nat /\ Len(q) >= 1 /\ Head(q) = q[1]
    BY EmptySeq
  <1> DEFINE rest == Tail(q)
  <1>3. /\ rest \in Seq(StoreEvent) /\ Len(rest) = Len(q) - 1
        /\ \A i \in 1 .. Len(rest) : rest[i] = q[i + 1]
    BY HeadTailProperties
  <1> DEFINE g == [i \in Nat |-> h[i + 1]]
  <1>4. \A i \in 0 .. Len(q) - 1 : g[i] = h[i + 1]
    BY <1>2
  <1> HIDE DEF rest, g
  <1>5. Follows(g, rest, p)
    <2> SUFFICES ASSUME NEW i \in 1 .. Len(rest)
                 PROVE  IF rest[i].path = p
                        THEN /\ g[i] = rest[i].object
                             /\ g[i] # g[i - 1]
                             /\ rest[i].kind = "added" <=> g[i - 1] = Absent
                        ELSE g[i] = g[i - 1]
      BY DEF Follows
    <2>1. /\ rest[i] = q[i + 1] /\ g[i] = h[i + 1] /\ g[i - 1] = h[i]
          /\ i + 1 \in 1 .. Len(q) /\ (i + 1) - 1 = i
      BY <1>2, <1>3, <1>4
    <2> QED
      BY <1>1, <2>1 DEF Follows
  <1>6. g[Len(rest)] = to /\ g[0] = h[1]
    BY <1>1, <1>2, <1>3, <1>4
  <1>7. IF q[1].path = p
        THEN h[1] = q[1].object /\ h[1] # h[0] /\ (q[1].kind = "added" <=> h[0] = Absent)
        ELSE h[1] = h[0]
    BY <1>1, <1>2 DEF Follows
  <1>8. Leads(rest, p, h[1], to)
    BY <1>5, <1>6 DEF Leads
  <1> QED
    BY <1>1, <1>2, <1>7, <1>8 DEF rest

\* The events of a comparison lead from what is remembered of a path to what is
\* listed of it.
LEMMA DifferenceLeads ==
  ASSUME StoreInv, NEW c \in Orders(Changed), NEW g \in Orders(Gone), NEW p \in Path
  PROVE  Leads(c \o g, p, known[p], current[p])
  <1> DEFINE b == c \o g
  <1>1. /\ b \in Seq(StoreEvent)
        /\ \A i \in 1 .. Len(b) : b[i] \in Changed \cup Gone
        /\ \A i, j \in 1 .. Len(b) : b[i].path = b[j].path => i = j
        /\ \A e \in Changed \cup Gone : \E i \in 1 .. Len(b) : b[i] = e
    BY CompareReports
  <1> HIDE DEF b
  <1>2. Len(b) \in Nat
    BY <1>1, LenProperties
  <1> DEFINE h == [i \in Nat |->
                     IF \E j \in 1 .. i : j <= Len(b) /\ b[j].path = p
                     THEN current[p] ELSE known[p]]
  <1>3. \A i \in Nat : h[i] = IF \E j \in 1 .. i : j <= Len(b) /\ b[j].path = p
                              THEN current[p] ELSE known[p]
    OBVIOUS
  <1> HIDE DEF h
  <1>4. h[0] = known[p]
    BY <1>3
  <1>5. h[Len(b)] = current[p]
    <2>1. CASE current[p] = known[p]
      BY <1>2, <1>3, <2>1
    <2>2. CASE current[p] # known[p]
      <3>1. PICK e \in Changed \cup Gone : e.path = p
        BY <2>2, DifferenceIsReported
      <3>2. PICK j \in 1 .. Len(b) : b[j] = e
        BY <1>1, <3>1
      <3> QED
        BY <1>2, <1>3, <3>1, <3>2
    <2> QED
      BY <2>1, <2>2
  <1>6. Follows(h, b, p)
    <2> SUFFICES ASSUME NEW i \in 1 .. Len(b)
                 PROVE  IF b[i].path = p
                        THEN /\ h[i] = b[i].object
                             /\ h[i] # h[i - 1]
                             /\ b[i].kind = "added" <=> h[i - 1] = Absent
                        ELSE h[i] = h[i - 1]
      BY DEF Follows
    <2>1. i \in Nat /\ i - 1 \in Nat
      BY <1>2
    <2>2. CASE b[i].path = p
      <3>1. h[i] = current[p]
        BY <1>2, <1>3, <2>1, <2>2
      <3>2. ~\E j \in 1 .. i - 1 : j <= Len(b) /\ b[j].path = p
        BY <1>1, <1>2, <2>2
      <3>3. h[i - 1] = known[p]
        BY <1>3, <2>1, <3>2
      <3>4. /\ b[i].object = current[p] /\ current[p] # known[p]
            /\ b[i].kind = "added" <=> known[p] = Absent
        BY <1>1, <2>2, DifferenceFits
      <3> QED
        BY <2>2, <3>1, <3>3, <3>4
    <2>3. CASE b[i].path # p
      <3>1. (\E j \in 1 .. i : j <= Len(b) /\ b[j].path = p)
              <=> (\E j \in 1 .. i - 1 : j <= Len(b) /\ b[j].path = p)
        BY <1>2, <2>3
      <3> QED
        BY <1>3, <2>1, <2>3, <3>1
    <2> QED
      BY <2>2, <2>3
  <1> QED
    BY <1>4, <1>5, <1>6 DEF Leads, b

-----------------------------------------------------------------------------
\* A step that leaves the events under way, the receiver's view and what the poller
\* remembers alone.
LEMMA NothingNew ==
  ASSUME AlternationInv,
         receiver' => receiver,
         receiver' => underway' = underway,
         loop' # "stopped" => loop # "stopped",
         UNCHANGED <<view, known>>
  PROVE  AlternationInv'
  <1> SUFFICES ASSUME receiver', NEW p \in Path \ BarePath
               PROVE  \E to : /\ Leads(underway', p, view'[p], to)
                              /\ loop' # "stopped" => to = known'[p]
    BY DEF AlternationInv, Leads, Follows
  <1> QED
    BY DEF AlternationInv

\* Every step of the task, the poller, other clients and the receiver keeps the
\* alternation.
LEMMA AlternationStep ==
  ASSUME TypeOK, StoreInv, AlternationInv, [Next]_vars
  PROVE  AlternationInv'
  <1>0. AnyLoop!QueueInv /\ view \in [Path -> AnyContent]
    BY DEF TypeOK, Loop!TypeOK, AnyLoop!QueueInv
  <1> USE <1>0 DEF AnyLoop!QueueInv, task, listing, server
  <1>1. ASSUME NEW p \in Path, ListPath(p) PROVE AlternationInv'
    BY <1>1, NothingNew DEF ListPath, underway
  <1>2. CASE Compare
    <2>1. PICK c \in Orders(Changed), g \in Orders(Gone) : Loop!PollOk(c \o g)
      BY <1>2 DEF Compare
    <2> DEFINE b == c \o g
    <2>2. /\ loop = "polling" /\ batch = <<>> /\ batch' = b
          /\ UNCHANGED <<channel, receiver, view>>
      BY <1>2, <2>1 DEF Compare, Loop!PollOk
    <2>3. b \in Seq(StoreEvent)
      BY CompareReports
    <2>4. underway = channel /\ underway' = channel \o b
      BY <2>2, ConcatEmptySeq DEF underway
    <2> SUFFICES ASSUME receiver', NEW p \in Path \ BarePath
                 PROVE  Leads(underway', p, view'[p], known'[p])
      BY DEF AlternationInv, Leads, Follows
    <2>5. Leads(channel, p, view[p], known[p])
      BY <2>2, <2>4 DEF AlternationInv
    <2>6. Leads(b, p, known[p], current[p])
      BY DifferenceLeads
    <2> HIDE DEF b
    <2>7. Leads(channel \o b, p, view[p], current[p])
      BY <2>3, <2>5, <2>6, LeadsOn
    <2>8. known'[p] = current[p]
      BY <1>2 DEF Compare, Remember, StoreInv, Listings, Content
    <2> QED
      BY <2>2, <2>4, <2>7, <2>8
  <1>3. CASE ListFails
    BY <1>3, NothingNew DEF ListFails, Loop!PollErr, underway
  <1>4. CASE TaskStep
    <2>1. UNCHANGED <<view, known>>
      BY <1>4 DEF TaskStep
    <2>2. CASE Loop!Send
      <3>1. /\ batch # <<>> /\ receiver' = receiver /\ loop = "sending" /\ loop' = loop
            /\ channel' = Append(channel, Head(batch)) /\ batch' = Tail(batch)
        BY <2>2 DEF Loop!Send
      <3>2. underway' = underway
        BY <3>1, AnyLoop!MoveHead DEF underway
      <3> QED
        BY <2>1, <3>1, <3>2, NothingNew
    <2>3. CASE Loop!SendRefused
      BY <2>1, <2>3 DEF Loop!SendRefused, AlternationInv
    <2>4. CASE Loop!BatchSent
      BY <2>1, <2>4, NothingNew DEF Loop!BatchSent, underway
    <2>5. CASE Loop!Wake
      BY <2>1, <2>5, NothingNew DEF Loop!Wake, underway
    <2> QED
      BY <1>4, <2>2, <2>3, <2>4, <2>5 DEF TaskStep
  <1>5. CASE Abort
    <2>1. /\ loop' = "stopped" /\ batch' = <<>> /\ UNCHANGED <<channel, receiver, view>>
      BY <1>5 DEF Abort, Loop!Abort
    <2>2. underway' = channel
      BY <2>1, ConcatEmptySeq DEF underway
    <2> SUFFICES ASSUME receiver', NEW p \in Path \ BarePath
                 PROVE  \E to : Leads(underway', p, view'[p], to)
      BY <2>1 DEF AlternationInv, Leads, Follows
    <2>3. PICK to : Leads(channel \o batch, p, view[p], to)
      BY <2>1 DEF AlternationInv, underway
    <2>4. \E mid : Leads(channel, p, view[p], mid)
      BY <2>3, LeadsPartway
    <2> QED
      BY <2>1, <2>2, <2>4
  <1>6. CASE Receive
    <2>1. /\ receiver /\ channel # <<>> /\ channel' = Tail(channel)
          /\ view' = [view EXCEPT ![Head(channel).path] = Head(channel).object]
          /\ UNCHANGED <<loop, batch, receiver, known>>
      BY <1>6 DEF Receive, Loop!Receive
    <2>2. underway # <<>> /\ underway' = Tail(underway) /\ underway \in Seq(StoreEvent)
      BY <2>1, AnyLoop!TailOfConcat, ConcatProperties DEF underway
    <2>3. Head(underway) = Head(channel)
      BY <2>1, ConcatProperties, EmptySeq DEF underway
    <2> SUFFICES ASSUME NEW p \in Path \ BarePath
                 PROVE  \E to : /\ Leads(underway', p, view'[p], to)
                                /\ loop' # "stopped" => to = known'[p]
      BY DEF AlternationInv, Leads, Follows
    <2>4. PICK to : Leads(underway, p, view[p], to) /\ (loop # "stopped" => to = known[p])
      BY <2>1 DEF AlternationInv
    <2>5. Leads(Tail(underway), p, view'[p], to)
      <3>1. CASE Head(channel).path = p
        <4>1. view'[p] = Head(channel).object
          BY <2>1, <3>1
        <4> QED
          BY <2>2, <2>3, <2>4, <3>1, <4>1, LeadsStepwise
      <3>2. CASE Head(channel).path # p
        <4>1. view'[p] = view[p]
          BY <2>1, <3>2
        <4> QED
          BY <2>2, <2>3, <2>4, <3>2, <4>1, LeadsStepwise
      <3> QED
        BY <3>1, <3>2
    <2> QED
      BY <2>1, <2>2, <2>4, <2>5
  <1>7. CASE DropReceiver
    BY <1>7 DEF DropReceiver, Loop!DropReceiver, AlternationInv
  <1>8. ASSUME NEW p \in Path, Change(p) PROVE AlternationInv'
    BY <1>8, NothingNew DEF Change, underway
  <1>9. CASE UNCHANGED vars
    BY <1>9, NothingNew DEF vars, underway
  <1> QED
    BY <1>1, <1>2, <1>3, <1>4, <1>5, <1>6, <1>7, <1>8, <1>9 DEF Next, Poll

\* What the receiver finds at the head of the channel is the first event under way.
LEMMA HeadAlternates == TypeOK /\ AlternationInv => EventsAlternate
  <1> SUFFICES ASSUME TypeOK, AlternationInv, channel # <<>>, Head(channel).path \notin BarePath
               PROVE  LET e == Head(channel) IN
                      (e.kind = "added" <=> view[e.path] = Absent) /\ e.object # view[e.path]
    BY DEF EventsAlternate
  <1>1. receiver /\ channel \in Seq(StoreEvent) /\ batch \in Seq(StoreEvent)
    BY DEF TypeOK, Loop!TypeOK
  <1>2. Head(channel) \in StoreEvent
    BY <1>1, HeadTailProperties
  <1>3. Head(channel).path \in Path \ BarePath
    BY <1>2 DEF StoreEvent
  <1>4. /\ underway \in Seq(StoreEvent) /\ underway # <<>>
        /\ Head(underway) = Head(channel)
    BY <1>1, AnyLoop!TailOfConcat, ConcatProperties, EmptySeq DEF underway
  <1>5. \E to : Leads(underway, Head(channel).path, view[Head(channel).path], to)
    BY <1>1, <1>3 DEF AlternationInv
  <1> QED
    BY <1>4, <1>5, LeadsStepwise

\* The initial state has no event under way.
LEMMA AlternationInit == Init => AlternationInv
  <1> SUFFICES ASSUME Init PROVE AlternationInv
    OBVIOUS
  <1>1. underway = <<>> /\ view = known
    BY ConcatEmptySeq, EmptySeq DEF Init, Loop!Init, underway
  <1> QED
    BY <1>1, LeadsNowhere DEF AlternationInv

\* The alternation holds in every behaviour.
LEMMA AlternationHolds == Spec => [](TypeOK /\ StoreInv /\ AlternationInv)
  <1>1. TypeOK /\ StoreInv /\ AlternationInv /\ [Next]_vars
          => (TypeOK /\ StoreInv /\ AlternationInv)'
    BY TypeStep, StoreInvStep, AlternationStep
  <1> QED
    BY <1>1, TypeInit, AlternationInit, PTL DEF Spec

\* However listings fail, go stale or are cut off, and however the channel is sized:
\* of a path whose objects have ETags, an Added finds the receiver without the
\* object, and every event changes what it knows.
THEOREM StoreEventsAlternate == Spec => []EventsAlternate
  BY AlternationHolds, HeadAlternates, PTL

\* Whatever the polls before it have reported, a poll that gets through its listing
\* leaves nothing of it out: the events under way lead the receiver, path by path,
\* to the ETags that were listed.
THEOREM PollsBringUpToDate ==
  Spec => [][Compare /\ receiver =>
               \A p \in Path \ BarePath : Leads(underway', p, view'[p], current[p])]_vars
  <1> DEFINE UpToDate == \A p \in Path \ BarePath : Leads(underway', p, view'[p], current[p])
  <1>1. TypeOK /\ StoreInv /\ AlternationInv /\ [Next]_vars
          => [Compare /\ receiver => UpToDate]_vars
    <2> SUFFICES ASSUME TypeOK, StoreInv, AlternationInv, Next, Compare, receiver,
                        NEW p \in Path \ BarePath
                 PROVE  Leads(underway', p, view'[p], current[p])
      OBVIOUS
    <2>1. receiver' = receiver /\ loop' = "sending"
      BY DEF Compare, Loop!PollOk
    <2>2. AlternationInv'
      BY AlternationStep
    <2>3. Leads(underway', p, view'[p], known'[p])
      BY <2>1, <2>2 DEF AlternationInv, Leads, Follows
    <2>4. known'[p] = current[p]
      BY DEF Compare, Remember, StoreInv, Listings, Content
    <2> QED
      BY <2>3, <2>4
  <1> QED
    BY <1>1, AlternationHolds, PTL DEF Spec
=============================================================================
