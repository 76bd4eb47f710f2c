-------------------------- MODULE HttpWatchProofs --------------------------
(***************************************************************************)
(* HttpPoller behind the watch task: each step is one of the task with an  *)
(* arbitrary source, so it implements the event queue and keeps the types  *)
(* as ExternalWatchProofs shows; and its events alternate.  That invariant *)
(* is about all events under way at once, in the channel and in the batch: *)
(* each is called what the one before it, or for the oldest the receiver's *)
(* view, makes it, and `seen` says how the newest left the resource; what  *)
(* the validators stand for is the content the newest has brought.         *)
(***************************************************************************)
EXTENDS HttpWatch, SequenceTheorems, TLAPS

AnyLoop == INSTANCE ExternalWatchProofs WITH Event <- HttpEvent

-----------------------------------------------------------------------------
\* The resource has a content, or is not there.
LEMMA BodyStep ==
  ASSUME body \in Body \cup {NoBody}, [Next]_vars
  PROVE  body' \in Body \cup {NoBody}
  BY DEF Next, vars, server, Answered, PollNotModified, PollNotFound, PollFound, PollFails,
         TaskStep, Abort, Receive, DropReceiver, Change

\* Every poll, and every step of the task and of the receiver, is one of the task
\* with an arbitrary source; a change of the resource is none of its own.
LEMMA LoopStep ==
  ASSUME body \in Body \cup {NoBody}, [Next]_vars
  PROVE  [AnyLoop!Next]_AnyLoop!vars
  <1> USE DEF AnyLoop!Next, AnyLoop!Poll, AnyLoop!vars
  <1>1. ASSUME NEW events \in Seq(HttpEvent), Loop!PollOk(events)
        PROVE  [AnyLoop!Next]_AnyLoop!vars
    <2>1. AnyLoop!PollOk(events)
      BY <1>1 DEF Loop!PollOk, AnyLoop!PollOk
    <2> QED
      BY <2>1
  <1>2. <<>> \in Seq(HttpEvent) /\ <<Removed>> \in Seq(HttpEvent)
    BY EmptySeq DEF HttpEvent
  <1>3. ASSUME NEW e, NEW d, PollNotModified(e, d) PROVE [AnyLoop!Next]_AnyLoop!vars
    BY <1>1, <1>2, <1>3 DEF PollNotModified
  <1>4. CASE PollNotFound
    BY <1>1, <1>2, <1>4 DEF PollNotFound
  <1>5. ASSUME NEW e, NEW d, PollFound(e, d) PROVE [AnyLoop!Next]_AnyLoop!vars
    <2> DEFINE event == IF seen THEN Modified(body) ELSE Added(body)
    <2>1. event \in HttpEvent
      BY <1>5 DEF PollFound, HttpEvent
    <2>2. Loop!PollOk(<<event>>)
      BY <1>5 DEF PollFound
    <2> HIDE DEF event
    <2> QED
      BY <1>1, <2>1, <2>2
  <1>6. CASE PollFails
    <2>1. AnyLoop!PollErr
      BY <1>6 DEF PollFails, Loop!PollErr, AnyLoop!PollErr, Loop!SmallerOf, AnyLoop!SmallerOf,
                  Loop!BackoffWait, AnyLoop!BackoffWait
    <2> QED
      BY <2>1
  <1>7. CASE TaskStep
    <2>1. CASE Loop!Send
      BY <2>1 DEF Loop!Send, AnyLoop!Send
    <2>2. CASE Loop!SendRefused
      BY <2>2 DEF Loop!SendRefused, AnyLoop!SendRefused
    <2>3. CASE Loop!BatchSent
      BY <2>3 DEF Loop!BatchSent, AnyLoop!BatchSent
    <2>4. CASE Loop!Wake
      BY <2>4 DEF Loop!Wake, AnyLoop!Wake
    <2> QED
      BY <1>7, <2>1, <2>2, <2>3, <2>4 DEF TaskStep
  <1>8. CASE Abort
    BY <1>8 DEF Abort, Loop!Abort, AnyLoop!Abort
  <1>9. CASE Receive
    BY <1>9 DEF Receive, Loop!Receive, AnyLoop!Receive
  <1>10. CASE DropReceiver
    BY <1>10 DEF DropReceiver, Loop!DropReceiver, AnyLoop!DropReceiver
  <1>11. CASE Change \/ UNCHANGED vars
    BY <1>11 DEF Change, vars, task
  <1> QED
    BY <1>3, <1>4, <1>5, <1>6, <1>7, <1>8, <1>9, <1>10, <1>11 DEF Next, Answered

\* Whatever the server answers, what the poller reports reaches the receiver in
\* order, once and without a gap.
THEOREM HttpIsAQueue == Spec => AnyLoop!ImplementsQueue
  <1> DEFINE Here == body \in Body \cup {NoBody}
  <1>1. Init => Here /\ AnyLoop!Init
    BY DEF Init, Loop!Init, AnyLoop!Init
  <1>2. Here /\ [Next]_vars => Here'
    BY BodyStep
  <1>3. Here /\ [Next]_vars => [AnyLoop!Next]_AnyLoop!vars
    BY LoopStep
  <1>4. AnyLoop!Init => AnyLoop!QueueInv /\ AnyLoop!Queue!Init
    BY AnyLoop!QueueInit
  <1>5. AnyLoop!QueueInv /\ [AnyLoop!Next]_AnyLoop!vars => AnyLoop!QueueInv'
    BY AnyLoop!QueueInvStep
  <1>6. AnyLoop!QueueInv /\ [AnyLoop!Next]_AnyLoop!vars
          => [AnyLoop!Queue!Next]_AnyLoop!Queue!vars
    BY AnyLoop!QueueStep
  <1> QED
    BY <1>1, <1>2, <1>3, <1>4, <1>5, <1>6, PTL
    DEF Spec, AnyLoop!ImplementsQueue, AnyLoop!Queue!Spec

-----------------------------------------------------------------------------
\* The types of ExternalWatch are those of its instance with an arbitrary source.
LEMMA SameTypes == Loop!TypeOK <=> AnyLoop!TypeOK
  BY DEF Loop!TypeOK, AnyLoop!TypeOK

\* A content says that there is one.
LEMMA EventBody ==
  ASSUME NEW e \in HttpEvent
  PROVE  e.body \in Body \cup {NoBody}
  BY DEF HttpEvent, Added, Modified, Removed

\* Every step keeps the types: the validators come and go with `seen`.
LEMMA TypeStep ==
  ASSUME TypeOK, [Next]_vars
  PROVE  TypeOK'
  <1> USE DEF TypeOK, poller, server
  <1>1. AnyLoop!TypeOK'
    <2>1. AnyLoop!ConfigTypes
      BY HttpAssumption DEF AnyLoop!ConfigTypes
    <2>2. [AnyLoop!Next]_AnyLoop!vars
      BY LoopStep
    <2> QED
      BY <2>1, <2>2, SameTypes, AnyLoop!TaskTypesStep
  <1>2. Loop!TypeOK'
    BY <1>1 DEF Loop!TypeOK, AnyLoop!TypeOK
  <1> DEFINE Rest == /\ seen \in BOOLEAN
                     /\ lastETag \in Body \cup {NoBody}
                     /\ lastModified \in Nat
                     /\ body \in Body \cup {NoBody}
                     /\ modified \in Nat
                     /\ view \in Body \cup {NoBody}
                     /\ ~seen => lastETag = NoBody /\ lastModified = 0
  <1>3. Rest'
    <2>1. ASSUME NEW e, NEW d, PollNotModified(e, d) PROVE Rest'
      BY <2>1 DEF PollNotModified
    <2>2. CASE PollNotFound
      <3>1. \/ seen' = FALSE /\ lastETag' = NoBody /\ lastModified' = 0
            \/ UNCHANGED <<seen, lastETag, lastModified>>
        BY <2>2 DEF PollNotFound
      <3>2. UNCHANGED <<body, modified, view>>
        BY <2>2 DEF PollNotFound
      <3>3. CASE seen' = FALSE /\ lastETag' = NoBody /\ lastModified' = 0
        BY <3>2, <3>3
      <3>4. CASE UNCHANGED <<seen, lastETag, lastModified>>
        BY <3>2, <3>4
      <3> QED
        BY <3>1, <3>3, <3>4
    <2>3. ASSUME NEW e, NEW d, PollFound(e, d) PROVE Rest'
      BY <2>3 DEF PollFound
    <2>4. CASE PollFails \/ TaskStep \/ Abort \/ DropReceiver \/ UNCHANGED vars
      BY <2>4 DEF PollFails, TaskStep, Abort, DropReceiver, vars
    <2>5. CASE Receive
      <3>1. channel \in Seq(HttpEvent) /\ channel # <<>>
        BY <2>5 DEF Receive, Loop!Receive, Loop!TypeOK
      <3>2. Head(channel) \in HttpEvent
        BY <3>1, HeadTailProperties
      <3> QED
        BY <2>5, <3>2, EventBody DEF Receive
    <2>6. CASE Change
      BY <2>6 DEF Change
    <2> QED
      BY <2>1, <2>2, <2>3, <2>4, <2>5, <2>6 DEF Next, Answered
  <1> QED
    BY <1>2, <1>3

\* The initial state has them, whatever there is at the start.
LEMMA TypeInit == Init => TypeOK
  <1> SUFFICES ASSUME Init PROVE TypeOK
    OBVIOUS
  <1>1. AnyLoop!ConfigTypes /\ AnyLoop!Init
    BY HttpAssumption DEF AnyLoop!ConfigTypes, Init, Loop!Init, AnyLoop!Init
  <1>2. Loop!TypeOK
    BY <1>1, SameTypes, AnyLoop!TaskTypesInit
  <1> QED
    BY <1>2 DEF Init, TypeOK

\* For any capacity and configuration the variables keep their types: the channel
\* keeps within its capacity, and a poller that has not seen the resource has no
\* validators.
THEOREM HttpTyped == Spec => []TypeOK
  BY TypeInit, TypeStep, PTL DEF Spec

-----------------------------------------------------------------------------
\* The events under way, oldest first.
underway == channel \o batch

\* Whether a resource is there, to a receiver with view v, after events q.
ThereAfter(q, v) == IF q = <<>> THEN v # NoBody ELSE q[Len(q)].kind # "removed"

\* Each event is Added exactly if the resource was not there before it.
Alternates(q, v) ==
  \A i \in 1 .. Len(q) :
    q[i].kind = "added" <=> (IF i = 1 THEN v = NoBody ELSE q[i - 1].kind = "removed")

\* The inductive invariant: the events under way alternate from the receiver's
\* view on, and `seen` says what the last of them left.
AlternationInv ==
  /\ batch \in Seq(HttpEvent)
  /\ channel \in Seq(HttpEvent)
  /\ receiver \in BOOLEAN
  /\ seen \in BOOLEAN
  /\ loop # "sending" => batch = <<>>
  /\ ~receiver => channel = <<>>
  /\ receiver => Alternates(underway, view)
  /\ receiver /\ loop # "stopped" => (seen <=> ThereAfter(underway, view))

-----------------------------------------------------------------------------
\* An event says removed exactly if it brings no content.
LEMMA EventShape ==
  ASSUME NEW e \in HttpEvent
  PROVE  e.kind = "removed" <=> e.body = NoBody
  BY HttpAssumption DEF HttpEvent, Added, Modified, Removed

\* A new event that is Added exactly if the resource is not there continues the
\* alternation, and is itself what there is after it.
LEMMA Continues ==
  ASSUME NEW q \in Seq(HttpEvent), NEW v, NEW e \in HttpEvent, Alternates(q, v),
         e.kind = "added" <=> ~ThereAfter(q, v)
  PROVE  /\ Alternates(q \o <<e>>, v)
         /\ ThereAfter(q \o <<e>>, v) <=> e.kind # "removed"
  <1> DEFINE r == q \o <<e>>
  <1>1. Len(q) \in Nat /\ <<e>> \in Seq(HttpEvent) /\ Len(<<e>>) = 1 /\ <<e>>[1] = e
    BY LenProperties
  <1>2. /\ r \in Seq(HttpEvent) /\ Len(r) = Len(q) + 1
        /\ \A i \in 1 .. Len(q) : r[i] = q[i]
        /\ r[Len(q) + 1] = e
    BY <1>1, ConcatProperties
  <1>3. ThereAfter(r, v) <=> e.kind # "removed"
    BY <1>1, <1>2, EmptySeq DEF ThereAfter
  <1>4. Alternates(r, v)
    <2> SUFFICES ASSUME NEW i \in 1 .. Len(q) + 1
                 PROVE  r[i].kind = "added" <=>
                          (IF i = 1 THEN v = NoBody ELSE r[i - 1].kind = "removed")
      BY <1>2 DEF Alternates
    <2>1. CASE i \in 1 .. Len(q)
      BY <1>1, <1>2, <2>1 DEF Alternates
    <2>2. CASE i = Len(q) + 1 /\ q = <<>>
      BY <1>1, <1>2, <2>2, EmptySeq DEF ThereAfter
    <2>3. CASE i = Len(q) + 1 /\ q # <<>>
      <3>1. Len(q) >= 1 /\ i # 1 /\ r[i - 1] = q[Len(q)]
        BY <1>1, <1>2, <2>3, EmptySeq
      <3> QED
        BY <1>2, <2>3, <3>1 DEF ThereAfter
    <2> QED
      BY <1>1, <2>1, <2>2, <2>3
  <1> QED
    BY <1>3, <1>4

\* The receiver applies the oldest event: the rest alternates from its new view,
\* and leaves the resource as before.
LEMMA Applied ==
  ASSUME NEW q \in Seq(HttpEvent), q # <<>>, NEW v, Alternates(q, v)
  PROVE  /\ Alternates(Tail(q), Head(q).body)
         /\ ThereAfter(Tail(q), Head(q).body) <=> ThereAfter(q, v)
  <1>0. Len(q) \in Nat \ {0}
    BY EmptySeq
  <1>1. Len(q) \in Nat /\ Len(q) >= 1 /\ Head(q) = q[1]
    BY <1>0
  <1> DEFINE rest == Tail(q)
  <1>2. /\ Head(q) \in HttpEvent
        /\ Tail(q) \in Seq(HttpEvent) /\ Len(Tail(q)) = Len(q) - 1
        /\ \A i \in 1 .. Len(Tail(q)) : Tail(q)[i] = q[i + 1]
    BY HeadTailProperties
  <1>3. q[1].kind = "removed" <=> Head(q).body = NoBody
    BY <1>1, <1>2, EventShape
  <1>4. Alternates(Tail(q), Head(q).body)
    <2> SUFFICES ASSUME NEW i \in 1 .. Len(q) - 1
                 PROVE  Tail(q)[i].kind = "added" <=>
                          (IF i = 1 THEN Head(q).body = NoBody ELSE Tail(q)[i - 1].kind = "removed")
      BY <1>2 DEF Alternates
    <2>1. Tail(q)[i].kind = "added" <=> q[i].kind = "removed"
      BY <1>1, <1>2 DEF Alternates
    <2>2. i # 1 => Tail(q)[i - 1] = q[i]
      BY <1>1, <1>2
    <2> QED
      BY <1>3, <2>1, <2>2
  <1>5. ThereAfter(q, v) <=> q[Len(q)].kind # "removed"
    BY DEF ThereAfter
  <1>6. /\ rest = <<>> => Len(q) = 1
        /\ rest # <<>> => rest[Len(rest)] = q[Len(q)]
    <2>1. \A i \in 1 .. Len(rest) : rest[i] = q[i + 1]
      BY <1>2
    <2>2. rest \in Seq(HttpEvent) /\ Len(rest) = Len(q) - 1
      BY <1>2
    <2> HIDE DEF rest
    <2>3. rest = <<>> => Len(q) = 1
      BY <1>0, <2>2, EmptySeq
    <2>4. rest # <<>> => Len(rest) \in 1 .. Len(rest) /\ Len(rest) + 1 = Len(q)
      BY <1>0, <2>2, EmptySeq
    <2> QED
      BY <2>1, <2>3, <2>4
  <1>7. ThereAfter(rest, Head(q).body) <=> ThereAfter(q, v)
    <2> HIDE DEF rest
    <2>1. CASE rest = <<>>
      <3>1. ThereAfter(rest, Head(q).body) <=> Head(q).body # NoBody
        BY <2>1 DEF ThereAfter
      <3>2. q[Len(q)] = q[1]
        BY <1>6, <2>1
      <3> QED
        BY <1>3, <1>5, <3>1, <3>2
    <2>2. CASE rest # <<>>
      <3>1. ThereAfter(rest, Head(q).body) <=> rest[Len(rest)].kind # "removed"
        BY <2>2 DEF ThereAfter
      <3> QED
        BY <1>5, <1>6, <2>2, <3>1
    <2> QED
      BY <2>1, <2>2
  <1> QED
    BY <1>4, <1>7

\* What is left of an alternation that is cut off is one.
LEMMA CutOff ==
  ASSUME NEW q \in Seq(HttpEvent), NEW t \in Seq(HttpEvent), NEW v, Alternates(q \o t, v)
  PROVE  Alternates(q, v)
  <1>1. Len(q) \in Nat /\ Len(t) \in Nat
    BY LenProperties
  <1>2. /\ Len(q \o t) = Len(q) + Len(t)
        /\ \A i \in 1 .. Len(q) : (q \o t)[i] = q[i]
    BY <1>1, ConcatProperties
  <1> QED
    BY <1>1, <1>2 DEF Alternates

-----------------------------------------------------------------------------
\* What a poll reports of the resource continues the alternation.
LEMMA PollKeeps ==
  ASSUME AlternationInv, NEW e \in HttpEvent, Loop!PollOk(<<e>>), UNCHANGED view,
         e.kind = "added" <=> ~seen,
         seen' <=> e.kind # "removed", seen' \in BOOLEAN
  PROVE  AlternationInv'
  <1> USE DEF AlternationInv
  <1>1. /\ loop # "stopped" /\ batch = <<>> /\ loop' = "sending"
        /\ batch' = <<e>> /\ channel' = channel /\ receiver' = receiver
    BY DEF Loop!PollOk
  <1>2. <<e>> \in Seq(HttpEvent)
    OBVIOUS
  <1>3. underway = channel /\ underway' = channel \o <<e>>
    BY <1>1, ConcatEmptySeq DEF underway
  <1>4. CASE receiver
    <2>1. Alternates(channel, view) /\ (seen <=> ThereAfter(channel, view))
      BY <1>1, <1>3, <1>4
    <2>2. /\ Alternates(channel \o <<e>>, view)
          /\ ThereAfter(channel \o <<e>>, view) <=> e.kind # "removed"
      BY <2>1, Continues
    <2>3. Alternates(underway, view)'
      BY <1>3, <2>2 DEF Alternates
    <2>4. ThereAfter(underway, view)' <=> e.kind # "removed"
      BY <1>3, <2>2 DEF ThereAfter
    <2> QED
      BY <1>1, <1>2, <1>4, <2>3, <2>4
  <1>5. CASE ~receiver
    BY <1>1, <1>2, <1>5
  <1> QED
    BY <1>4, <1>5

\* A step that leaves the events under way, the receiver's view and `seen` alone.
LEMMA NothingNew ==
  ASSUME AlternationInv,
         batch' \in Seq(HttpEvent), channel' \in Seq(HttpEvent),
         loop' # "sending" => batch' = <<>>,
         ~receiver => channel' = <<>>,
         receiver => underway' = underway,
         loop' # "stopped" => loop # "stopped",
         UNCHANGED <<view, seen, receiver>>
  PROVE  AlternationInv'
  <1> USE DEF AlternationInv
  <1>1. receiver => (Alternates(underway, view)' <=> Alternates(underway, view))
    BY DEF Alternates
  <1>2. receiver => (ThereAfter(underway, view)' <=> ThereAfter(underway, view))
    BY DEF ThereAfter
  <1> QED
    BY <1>1, <1>2

\* Every step of the task, the poller, the server and the receiver keeps the
\* alternation.
LEMMA AlternationStep ==
  ASSUME AlternationInv, body \in Body \cup {NoBody}, [Next]_vars
  PROVE  AlternationInv'
  <1> USE DEF AlternationInv
  <1>1. ASSUME NEW b, NEW d, PollNotModified(b, d) PROVE AlternationInv'
    <2>1. /\ loop = "polling" /\ loop' = "sending" /\ batch' = <<>> /\ batch = <<>>
          /\ UNCHANGED <<channel, receiver, seen, view>>
      BY <1>1 DEF PollNotModified, Loop!PollOk, poller
    <2> QED
      BY <2>1, NothingNew DEF underway
  <1>2. CASE PollNotFound /\ ~seen
    <2>1. /\ loop = "polling" /\ loop' = "sending" /\ batch' = <<>> /\ batch = <<>>
          /\ UNCHANGED <<channel, receiver, seen, view>>
      BY <1>2 DEF PollNotFound, Loop!PollOk, poller
    <2> QED
      BY <2>1, NothingNew DEF underway
  <1>3. CASE PollNotFound /\ seen
    <2>1. Loop!PollOk(<<Removed>>) /\ UNCHANGED view /\ seen' = FALSE
      BY <1>3 DEF PollNotFound
    <2>2. Removed \in HttpEvent /\ Removed.kind = "removed"
      BY DEF HttpEvent, Removed
    <2> QED
      BY <1>3, <2>1, <2>2, PollKeeps
  <1>4. ASSUME NEW b, NEW d, PollFound(b, d) PROVE AlternationInv'
    <2> DEFINE e == IF seen THEN Modified(body) ELSE Added(body)
    <2>1. Loop!PollOk(<<e>>) /\ UNCHANGED view /\ seen' = TRUE
      BY <1>4 DEF PollFound
    <2>2. e \in HttpEvent /\ e.kind # "removed" /\ (e.kind = "added" <=> ~seen)
      BY <1>4 DEF PollFound, HttpEvent, Added, Modified
    <2> HIDE DEF e
    <2> QED
      BY <2>1, <2>2, PollKeeps
  <1>5. CASE PollFails
    <2>1. loop = "polling" /\ loop' = "sleeping" /\ UNCHANGED <<batch, channel, receiver, seen, view>>
      BY <1>5 DEF PollFails, Loop!PollErr, poller
    <2> QED
      BY <2>1, NothingNew DEF underway
  <1>6. CASE TaskStep
    <2>1. UNCHANGED <<view, seen>>
      BY <1>6 DEF TaskStep, poller
    <2>2. CASE Loop!Send
      <3>1. /\ batch # <<>> /\ receiver /\ receiver' = receiver /\ loop = "sending" /\ loop' = loop
            /\ channel' = Append(channel, Head(batch)) /\ batch' = Tail(batch)
        BY <2>2 DEF Loop!Send
      <3>2. Head(batch) \in HttpEvent /\ Tail(batch) \in Seq(HttpEvent)
        BY <3>1, HeadTailProperties
      <3>3. Append(channel, Head(batch)) \in Seq(HttpEvent)
        BY <3>2, AppendProperties
      <3>4. underway' = underway
        BY <3>1, AnyLoop!MoveHead DEF underway
      <3> QED
        BY <2>1, <3>1, <3>2, <3>3, <3>4, NothingNew
    <2>3. CASE Loop!SendRefused
      BY <2>1, <2>3, EmptySeq DEF Loop!SendRefused
    <2>4. CASE Loop!BatchSent
      BY <2>1, <2>4, NothingNew DEF Loop!BatchSent, underway
    <2>5. CASE Loop!Wake
      BY <2>1, <2>5, NothingNew DEF Loop!Wake, underway
    <2> QED
      BY <1>6, <2>2, <2>3, <2>4, <2>5 DEF TaskStep
  <1>7. CASE Abort
    <2>1. loop' = "stopped" /\ batch' = <<>> /\ UNCHANGED <<channel, receiver, seen, view>>
      BY <1>7 DEF Abort, Loop!Abort, poller
    <2>2. underway' = channel
      BY <2>1, ConcatEmptySeq DEF underway
    <2>3. receiver => Alternates(channel, view)
      BY CutOff DEF underway
    <2>4. receiver' => Alternates(underway, view)'
      BY <2>1, <2>2, <2>3 DEF Alternates
    <2> QED
      BY <2>1, <2>4, EmptySeq
  <1>8. CASE Receive
    <2>1. /\ receiver /\ channel # <<>> /\ channel' = Tail(channel) /\ view' = Head(channel).body
          /\ UNCHANGED <<loop, batch, receiver, seen>>
      BY <1>8 DEF Receive, Loop!Receive, poller
    <2>2. Tail(channel) \in Seq(HttpEvent)
      BY <2>1, HeadTailProperties
    <2>3. underway # <<>> /\ underway' = Tail(underway) /\ underway \in Seq(HttpEvent)
      BY <2>1, AnyLoop!TailOfConcat, ConcatProperties DEF underway
    <2>4. Head(underway) = Head(channel)
      BY <2>1, ConcatProperties, EmptySeq DEF underway
    <2>5. /\ Alternates(Tail(underway), Head(underway).body)
          /\ ThereAfter(Tail(underway), Head(underway).body) <=> ThereAfter(underway, view)
      BY <2>1, <2>3, Applied
    <2>6. Alternates(underway, view)'
      BY <2>1, <2>3, <2>4, <2>5 DEF Alternates
    <2>7. ThereAfter(underway, view)' <=> ThereAfter(underway, view)
      BY <2>1, <2>3, <2>4, <2>5 DEF ThereAfter
    <2> QED
      BY <2>1, <2>2, <2>6, <2>7
  <1>9. CASE DropReceiver
    BY <1>9, EmptySeq DEF DropReceiver, Loop!DropReceiver, poller
  <1>10. CASE Change
    BY <1>10, NothingNew DEF Change, task, poller, underway
  <1>11. CASE UNCHANGED vars
    BY <1>11, NothingNew DEF vars, task, poller, underway
  <1> QED
    BY <1>1, <1>2, <1>3, <1>4, <1>5, <1>6, <1>7, <1>8, <1>9, <1>10, <1>11 DEF Next, Answered

\* What the receiver finds at the head of the channel is the first event under way.
LEMMA HeadAlternates == AlternationInv => EventsAlternate
  <1> SUFFICES ASSUME AlternationInv, channel # <<>>
               PROVE  Head(channel).kind = "added" <=> view = NoBody
    BY DEF EventsAlternate
  <1>1. receiver /\ channel \in Seq(HttpEvent) /\ batch \in Seq(HttpEvent)
        /\ Alternates(underway, view)
    BY DEF AlternationInv
  <1>2. Len(channel) \in Nat /\ Len(channel) >= 1 /\ Len(batch) \in Nat
    BY <1>1, EmptySeq, LenProperties
  <1>3. 1 \in 1 .. Len(underway) /\ underway[1] = channel[1]
    BY <1>1, <1>2, ConcatProperties DEF underway
  <1> QED
    BY <1>1, <1>2, <1>3 DEF Alternates

\* The alternation holds in every behaviour.
LEMMA AlternationHolds == Spec => [](AlternationInv /\ body \in Body \cup {NoBody})
  <1> DEFINE I == AlternationInv /\ body \in Body \cup {NoBody}
  <1>1. Init => I
    <2> SUFFICES ASSUME Init PROVE I
      OBVIOUS
    <2>1. channel = <<>> /\ batch = <<>> /\ receiver = TRUE /\ loop = "polling"
          /\ seen = FALSE /\ view = NoBody
      BY DEF Init, Loop!Init
    <2>2. underway = <<>>
      BY <2>1, ConcatEmptySeq, EmptySeq DEF underway
    <2>3. Alternates(underway, view) /\ ~ThereAfter(underway, view)
      BY <2>1, <2>2, EmptySeq DEF Alternates, ThereAfter
    <2> QED
      BY <2>1, <2>3, EmptySeq DEF AlternationInv, Init
  <1>2. I /\ [Next]_vars => I'
    BY AlternationStep, BodyStep
  <1> QED
    BY <1>1, <1>2, PTL DEF Spec

\* However the channel is sized and the server answers, an Added finds the
\* receiver without the resource and a Modified or a Removed finds it with one.
THEOREM HttpEventsAlternate == Spec => []EventsAlternate
  BY AlternationHolds, HeadAlternates, PTL

-----------------------------------------------------------------------------
\* What a receiver with view v knows once it has read q.
Latest(q, v) == IF q = <<>> THEN v ELSE q[Len(q)].body

\* What the validators stand for: the ETag is that of the content the receiver has
\* or will have, and so is the date as long as the resource has not changed.
ValidatorInv ==
  receiver /\ loop # "stopped" =>
    /\ lastETag # NoBody => Latest(underway, view) = lastETag
    /\ lastModified # 0 =>
         /\ lastModified <= modified
         /\ modified = lastModified => Latest(underway, view) = body

\* The inductive invariant.
FreshInv == TypeOK /\ AlternationInv /\ ValidatorInv

\* One more event is the latest.
LEMMA LatestOfOne ==
  ASSUME NEW q \in Seq(HttpEvent), NEW e \in HttpEvent, NEW v
  PROVE  Latest(q \o <<e>>, v) = e.body
  <1> DEFINE r == q \o <<e>>
  <1>1. Len(q) \in Nat /\ <<e>> \in Seq(HttpEvent) /\ Len(<<e>>) = 1 /\ <<e>>[1] = e
    BY LenProperties
  <1>2. r \in Seq(HttpEvent) /\ Len(r) = Len(q) + 1 /\ r[Len(q) + 1] = e
    BY <1>1, ConcatProperties
  <1> HIDE DEF r
  <1>3. r # <<>>
    BY <1>1, <1>2, EmptySeq
  <1>4. Latest(r, v) = e.body
    BY <1>2, <1>3 DEF Latest
  <1> QED
    BY <1>4 DEF r

\* Reading an event does not change what is known in the end.
LEMMA LatestOfTail ==
  ASSUME NEW q \in Seq(HttpEvent), q # <<>>, NEW v
  PROVE  Latest(Tail(q), Head(q).body) = Latest(q, v)
  <1> DEFINE rest == Tail(q)
  <1>1. Len(q) \in Nat /\ Len(q) >= 1 /\ Head(q) = q[1]
    BY EmptySeq
  <1>2. /\ rest \in Seq(HttpEvent) /\ Len(rest) = Len(q) - 1
        /\ \A i \in 1 .. Len(rest) : rest[i] = q[i + 1]
    BY HeadTailProperties
  <1> HIDE DEF rest
  <1>3. CASE rest = <<>>
    <2>1. Len(q) = 1
      BY <1>1, <1>2, <1>3, EmptySeq
    <2> QED
      BY <1>1, <1>3, <2>1 DEF Latest, rest
  <1>4. CASE rest # <<>>
    <2>1. Len(rest) \in 1 .. Len(rest) /\ Len(rest) + 1 = Len(q)
      BY <1>1, <1>2, <1>4, EmptySeq
    <2>2. rest[Len(rest)] = q[Len(q)]
      BY <1>2, <2>1
    <2> QED
      BY <1>4, <2>2 DEF Latest, rest
  <1> QED
    BY <1>3, <1>4

\* A poller that has not seen the resource has left the receiver without it.
LEMMA UnseenIsNothing ==
  ASSUME AlternationInv, receiver, loop # "stopped", ~seen
  PROVE  Latest(underway, view) = NoBody
  <1>1. underway \in Seq(HttpEvent)
    BY ConcatProperties DEF AlternationInv, underway
  <1>2. ~ThereAfter(underway, view)
    BY DEF AlternationInv
  <1>3. CASE underway = <<>>
    BY <1>2, <1>3 DEF ThereAfter, Latest
  <1>4. CASE underway # <<>>
    <2>1. Len(underway) \in 1 .. Len(underway)
      BY <1>1, <1>4, EmptySeq, LenProperties
    <2>2. underway[Len(underway)] \in HttpEvent
      BY <1>1, <2>1, ElementOfSeq
    <2>3. underway[Len(underway)].kind = "removed"
      BY <1>2, <1>4 DEF ThereAfter
    <2> QED
      BY <1>4, <2>2, <2>3, EventShape DEF Latest
  <1> QED
    BY <1>3, <1>4

\* Every answer of the server, a 304 included, leaves the receiver with the content
\* there is, as soon as it has read what is under way.
LEMMA AnswersAreTrue ==
  ASSUME FreshInv, Answered, receiver
  PROVE  Latest(underway', view') = body
  <1> USE DEF FreshInv, ValidatorInv
  <1>1. /\ loop = "polling" /\ batch = <<>> /\ view' = view /\ channel' = channel
        /\ channel \in Seq(HttpEvent)
    BY DEF Answered, PollNotFound, PollNotModified, PollFound, Loop!PollOk, AlternationInv
  <1>2. underway = channel
    BY <1>1, ConcatEmptySeq DEF underway
  <1>3. ASSUME NEW e, NEW d, PollNotModified(e, d) PROVE Latest(underway', view') = body
    <2>1. batch' = <<>>
      BY <1>3 DEF PollNotModified, Loop!PollOk
    <2>2. underway' = channel
      BY <1>1, <2>1, ConcatEmptySeq DEF underway
    <2>3. Latest(underway, view) = body
      BY <1>1, <1>3 DEF PollNotModified, StillValid, TypeOK
    <2> QED
      BY <1>1, <1>2, <2>2, <2>3
  <1>4. CASE PollNotFound /\ ~seen
    <2>1. batch' = <<>> /\ body = NoBody
      BY <1>4 DEF PollNotFound, Loop!PollOk
    <2>2. underway' = channel
      BY <1>1, <2>1, ConcatEmptySeq DEF underway
    <2>3. Latest(underway, view) = NoBody
      BY <1>1, <1>4, UnseenIsNothing
    <2> QED
      BY <1>1, <1>2, <2>1, <2>2, <2>3
  <1>5. CASE PollNotFound /\ seen
    <2>1. batch' = <<Removed>> /\ body = NoBody
      BY <1>5 DEF PollNotFound, Loop!PollOk
    <2>2. Removed \in HttpEvent /\ Removed.body = NoBody
      BY DEF HttpEvent, Removed
    <2> QED
      BY <1>1, <2>1, <2>2, LatestOfOne DEF underway
  <1>6. ASSUME NEW e, NEW d, PollFound(e, d) PROVE Latest(underway', view') = body
    <2> DEFINE event == IF seen THEN Modified(body) ELSE Added(body)
    <2>1. batch' = <<event>>
      BY <1>6 DEF PollFound, Loop!PollOk
    <2>2. event \in HttpEvent /\ event.body = body
      BY <1>6 DEF PollFound, TypeOK, HttpEvent, Added, Modified
    <2> HIDE DEF event
    <2> QED
      BY <1>1, <2>1, <2>2, LatestOfOne DEF underway
  <1> QED
    BY <1>3, <1>4, <1>5, <1>6 DEF Answered

\* A step that leaves the receiver's prospects, the poller and the server alone.
LEMMA ValidatorsStay ==
  ASSUME ValidatorInv,
         receiver' => receiver,
         loop' # "stopped" => loop # "stopped",
         receiver' /\ loop' # "stopped" => Latest(underway', view') = Latest(underway, view),
         UNCHANGED <<lastETag, lastModified, body, modified>>
  PROVE  ValidatorInv'
  <1>1. receiver' /\ loop' # "stopped" => Latest(underway, view)' = Latest(underway, view)
    BY DEF Latest
  <1> QED
    BY <1>1 DEF ValidatorInv

\* Every step keeps what the validators stand for.
LEMMA ValidatorStep ==
  ASSUME FreshInv, [Next]_vars
  PROVE  ValidatorInv'
  <1>0. ValidatorInv /\ TypeOK /\ AlternationInv
    BY DEF FreshInv
  <1> USE <1>0 DEF task, poller, server
  <1>1. CASE Answered
    <2>1. receiver' = receiver /\ UNCHANGED server /\ loop # "stopped"
      BY <1>1 DEF Answered, PollNotFound, PollNotModified, PollFound, Loop!PollOk
    <2>2. receiver => Latest(underway, view)' = body
      BY <1>1, AnswersAreTrue DEF Latest
    <2>3. ASSUME NEW e, NEW d, PollNotModified(e, d) PROVE ValidatorInv'
      <3>1. UNCHANGED <<lastETag, lastModified>>
        BY <2>3 DEF PollNotModified
      <3>2. lastETag # NoBody => lastETag = body
        BY <2>3 DEF PollNotModified, StillValid
      <3> QED
        BY <2>1, <2>2, <3>1, <3>2 DEF ValidatorInv
    <2>4. CASE PollNotFound
      <3>1. lastETag' = NoBody /\ lastModified' = 0
        BY <2>4 DEF PollNotFound, TypeOK
      <3> QED
        BY <3>1 DEF ValidatorInv
    <2>5. ASSUME NEW e, NEW d, PollFound(e, d) PROVE ValidatorInv'
      <3>1. lastETag' \in {body, NoBody} /\ lastModified' \in {modified, 0}
        BY <2>5 DEF PollFound
      <3>2. modified \in Nat
        BY DEF TypeOK
      <3> QED
        BY <2>1, <2>2, <3>1, <3>2 DEF ValidatorInv
    <2> QED
      BY <1>1, <2>3, <2>4, <2>5 DEF Answered
  <1>2. CASE PollFails
    BY <1>2, ValidatorsStay DEF PollFails, Loop!PollErr, underway
  <1>3. CASE TaskStep
    <2>1. UNCHANGED <<view, poller, server>>
      BY <1>3 DEF TaskStep
    <2>2. CASE Loop!Send
      <3>1. /\ batch # <<>> /\ receiver' = receiver /\ loop' = loop
            /\ channel' = Append(channel, Head(batch)) /\ batch' = Tail(batch)
        BY <2>2 DEF Loop!Send
      <3>2. underway' = underway
        BY <3>1, AnyLoop!MoveHead DEF underway, AlternationInv
      <3> QED
        BY <2>1, <3>1, <3>2, ValidatorsStay
    <2>3. CASE Loop!SendRefused
      BY <2>3 DEF Loop!SendRefused, ValidatorInv
    <2>4. CASE Loop!BatchSent
      BY <2>1, <2>4, ValidatorsStay DEF Loop!BatchSent, underway
    <2>5. CASE Loop!Wake
      BY <2>1, <2>5, ValidatorsStay DEF Loop!Wake, underway
    <2> QED
      BY <1>3, <2>2, <2>3, <2>4, <2>5 DEF TaskStep
  <1>4. CASE Abort
    BY <1>4 DEF Abort, Loop!Abort, ValidatorInv
  <1>5. CASE Receive
    <2>1. /\ receiver /\ channel # <<>> /\ channel' = Tail(channel) /\ view' = Head(channel).body
          /\ UNCHANGED <<loop, batch, receiver, poller, server>>
      BY <1>5 DEF Receive, Loop!Receive
    <2>2. channel \in Seq(HttpEvent) /\ batch \in Seq(HttpEvent)
      BY DEF AlternationInv
    <2>3. underway # <<>> /\ underway' = Tail(underway) /\ underway \in Seq(HttpEvent)
      BY <2>1, <2>2, AnyLoop!TailOfConcat, ConcatProperties DEF underway
    <2>4. Head(underway) = Head(channel)
      BY <2>1, <2>2, ConcatProperties, EmptySeq DEF underway
    <2>5. Latest(underway', view') = Latest(underway, view)
      BY <2>1, <2>3, <2>4, LatestOfTail
    <2> QED
      BY <2>1, <2>5, ValidatorsStay
  <1>6. CASE DropReceiver
    BY <1>6 DEF DropReceiver, Loop!DropReceiver, ValidatorInv
  <1>7. CASE Change
    <2>1. /\ modified' = modified + 1 /\ modified \in Nat
          /\ UNCHANGED <<loop, batch, channel, receiver, lastETag, lastModified, view>>
      BY <1>7 DEF Change, TypeOK
    <2>2. Latest(underway, view)' = Latest(underway, view)
      BY <2>1 DEF Latest, underway
    <2> QED
      BY <2>1, <2>2 DEF ValidatorInv, TypeOK
  <1>8. CASE UNCHANGED vars
    BY <1>8, ValidatorsStay DEF vars, underway
  <1> QED
    BY <1>1, <1>2, <1>3, <1>4, <1>5, <1>6, <1>7, <1>8 DEF Next

\* No validator outlives what it stands for: whenever the server has answered a poll,
\* with a 304, a 404 or a body, the receiver knows the content there is or will when
\* it has read what is under way.
THEOREM PollsBringUpToDate ==
  Spec => [][Answered /\ receiver => Latest(underway', view') = body]_vars
  <1>1. Init => TypeOK /\ ValidatorInv
    <2>1. Init => TypeOK
      BY TypeInit
    <2>2. Init => ValidatorInv
      BY DEF Init, ValidatorInv
    <2> QED
      BY <2>1, <2>2
  <1>2. FreshInv /\ [Next]_vars => (TypeOK /\ ValidatorInv)'
    BY TypeStep, ValidatorStep DEF FreshInv
  <1>3. FreshInv => [Answered /\ receiver => Latest(underway', view') = body]_vars
    BY AnswersAreTrue
  <1>4. TypeOK /\ ValidatorInv /\ AlternationInv <=> FreshInv
    BY DEF FreshInv
  <1> QED
    BY <1>1, <1>2, <1>3, <1>4, AlternationHolds, PTL DEF Spec
=============================================================================
