------------------------- MODULE ExternalWatchProofs -------------------------
(***************************************************************************)
(* The watch task implements the event queue, for every source and every   *)
(* capacity of the channel; it keeps its types, and its sleeps grow from   *)
(* error to error up to max_backoff.                                       *)
(***************************************************************************)
EXTENDS ExternalWatch, SequenceTheorems, FiniteSetTheorems, TLAPS

\* Moving the head of one sequence to the end of another keeps their
\* concatenation: what Send does to the channel and the batch.
LEMMA MoveHead ==
  ASSUME NEW S, NEW s \in Seq(S), NEW t \in Seq(S), t # <<>>
  PROVE  Append(s, Head(t)) \o Tail(t) = s \o t
  <1> DEFINE left == Append(s, Head(t)) \o Tail(t)
  <1>1. /\ Head(t) \in S /\ Tail(t) \in Seq(S) /\ Len(Tail(t)) = Len(t) - 1
        /\ \A i \in 1 .. Len(Tail(t)) : Tail(t)[i] = t[i + 1]
    BY HeadTailProperties
  <1>2. Head(t) = t[1]
    OBVIOUS
  <1>3. /\ Append(s, Head(t)) \in Seq(S) /\ Len(Append(s, Head(t))) = Len(s) + 1
        /\ \A i \in 1 .. Len(s) : Append(s, Head(t))[i] = s[i]
        /\ Append(s, Head(t))[Len(s) + 1] = Head(t)
    BY <1>1, AppendProperties
  <1>4. Len(s) \in Nat /\ Len(t) \in Nat /\ Len(t) > 0
    BY EmptySeq
  <1>5. left \in Seq(S) /\ s \o t \in Seq(S) /\ Len(left) = Len(s) + Len(t)
        /\ Len(s \o t) = Len(s) + Len(t)
    BY <1>1, <1>3, <1>4, ConcatProperties
  <1>6. \A i \in 1 .. Len(s) + Len(t) : left[i] = (s \o t)[i]
    BY <1>1, <1>2, <1>3, <1>4, ConcatProperties
  <1> QED
    BY <1>5, <1>6, SeqEqual

\* The oldest event of a queue is the oldest of its front part: what Receive
\* takes out of the channel.
LEMMA TailOfConcat ==
  ASSUME NEW S, NEW s \in Seq(S), NEW t \in Seq(S), s # <<>>
  PROVE  s \o t # <<>> /\ Tail(s \o t) = Tail(s) \o t
  <1>1. Len(s) \in Nat /\ Len(t) \in Nat /\ Len(s) > 0
    BY EmptySeq
  <1>2. /\ s \o t \in Seq(S) /\ Len(s \o t) = Len(s) + Len(t)
        /\ \A i \in 1 .. Len(s) + Len(t) :
             (s \o t)[i] = IF i <= Len(s) THEN s[i] ELSE t[i - Len(s)]
    BY ConcatProperties
  <1>3. s \o t # <<>>
    BY <1>1, <1>2, EmptySeq
  <1>4. /\ Tail(s) \in Seq(S) /\ Len(Tail(s)) = Len(s) - 1
        /\ \A i \in 1 .. Len(Tail(s)) : Tail(s)[i] = s[i + 1]
    BY HeadTailProperties
  <1>5. /\ Tail(s \o t) \in Seq(S) /\ Len(Tail(s \o t)) = Len(s) + Len(t) - 1
        /\ \A i \in 1 .. Len(s) + Len(t) - 1 : Tail(s \o t)[i] = (s \o t)[i + 1]
    BY <1>2, <1>3, HeadTailProperties
  <1>6. /\ Tail(s) \o t \in Seq(S) /\ Len(Tail(s) \o t) = Len(s) - 1 + Len(t)
        /\ \A i \in 1 .. Len(s) - 1 + Len(t) :
             (Tail(s) \o t)[i] = IF i <= Len(s) - 1 THEN Tail(s)[i] ELSE t[i - (Len(s) - 1)]
    BY <1>4, ConcatProperties
  <1>7. \A i \in 1 .. Len(s) + Len(t) - 1 : Tail(s \o t)[i] = (Tail(s) \o t)[i]
    BY <1>1, <1>2, <1>4, <1>5, <1>6
  <1> QED
    BY <1>1, <1>3, <1>5, <1>6, <1>7, SeqEqual

\* A sequence is a prefix of its concatenation with another one: a poll only
\* adds to the queue.
LEMMA PrefixOfConcat ==
  ASSUME NEW S, NEW s \in Seq(S), NEW t \in Seq(S)
  PROVE  Len(s) <= Len(s \o t) /\ SubSeq(s \o t, 1, Len(s)) = s
  <1>1. Len(s) \in Nat /\ Len(t) \in Nat
    BY LenProperties
  <1>2. /\ s \o t \in Seq(S) /\ Len(s \o t) = Len(s) + Len(t)
        /\ \A i \in 1 .. Len(s) + Len(t) :
             (s \o t)[i] = IF i <= Len(s) THEN s[i] ELSE t[i - Len(s)]
    BY ConcatProperties
  <1>3. \A i \in 1 .. Len(s) : (s \o t)[i] = s[i] /\ (s \o t)[i] \in S
    BY <1>1, <1>2, ElementOfSeq
  <1>4. /\ SubSeq(s \o t, 1, Len(s)) \in Seq(S)
        /\ Len(SubSeq(s \o t, 1, Len(s))) = Len(s)
        /\ \A i \in 1 .. Len(s) : SubSeq(s \o t, 1, Len(s))[i] = (s \o t)[i]
    BY <1>1, <1>3, SubSeqProperties
  <1> QED
    BY <1>1, <1>2, <1>3, <1>4, SeqEqual

-----------------------------------------------------------------------------
\* What the refinement needs of the state: sequences of events, none to be sent
\* unless the task is sending, none to be received once the receiver is gone.
QueueInv ==
  /\ batch \in Seq(Event)
  /\ channel \in Seq(Event)
  /\ receiver \in BOOLEAN
  /\ loop # "sending" => batch = <<>>
  /\ ~receiver => channel = <<>>

\* Every step of the task, and of the holder of its receiver, keeps QueueInv.
LEMMA QueueInvStep ==
  ASSUME QueueInv, [Next]_vars
  PROVE  QueueInv'
  <1> USE DEF QueueInv
  <1>1. ASSUME NEW events \in Seq(Event), PollOk(events) PROVE QueueInv'
    BY <1>1 DEF PollOk
  <1>2. CASE PollErr
    BY <1>2 DEF PollErr
  <1>3. CASE Send
    <2>1. Head(batch) \in Event /\ Tail(batch) \in Seq(Event)
      BY <1>3, HeadTailProperties DEF Send
    <2>2. Append(channel, Head(batch)) \in Seq(Event)
      BY <2>1, AppendProperties
    <2> QED
      BY <1>3, <2>1, <2>2 DEF Send
  <1>4. CASE SendRefused
    BY <1>4 DEF SendRefused
  <1>5. CASE BatchSent
    BY <1>5 DEF BatchSent
  <1>6. CASE Wake
    BY <1>6 DEF Wake
  <1>7. CASE Abort
    BY <1>7 DEF Abort
  <1>8. CASE Receive
    <2>1. Tail(channel) \in Seq(Event)
      BY <1>8, HeadTailProperties DEF Receive
    <2> QED
      BY <1>8, <2>1 DEF Receive
  <1>9. CASE DropReceiver
    BY <1>9, EmptySeq DEF DropReceiver
  <1>10. CASE UNCHANGED vars
    BY <1>10 DEF vars
  <1> QED
    BY <1>1, <1>2, <1>3, <1>4, <1>5, <1>6, <1>7, <1>8, <1>9, <1>10 DEF Next, Poll

\* Every step is one of the queue, or changes nothing the queue shows.
LEMMA QueueStep ==
  ASSUME QueueInv, [Next]_vars
  PROVE  [Queue!Next]_Queue!vars
  <1> USE DEF QueueInv
  <1> DEFINE unseen == Undelivered' = Undelivered /\ (loop' = "stopped") = (loop = "stopped")
                         /\ receiver' = receiver
  <1>0. unseen => UNCHANGED Queue!vars
    BY DEF Queue!vars
  <1>1. ASSUME NEW events \in Seq(Event), PollOk(events) PROVE [Queue!Next]_Queue!vars
    <2>1. /\ batch = <<>> /\ batch' = events
          /\ loop # "stopped" /\ loop' # "stopped"
          /\ channel' = channel /\ receiver' = receiver
      BY <1>1 DEF PollOk
    <2>2. CASE receiver
      <3>1. Undelivered = channel /\ Undelivered' = channel \o events
        BY <2>1, <2>2, ConcatEmptySeq DEF Undelivered
      <3>2. channel \o events \in Seq(Event)
        BY ConcatProperties
      <3>3. /\ Len(channel) <= Len(channel \o events)
            /\ SubSeq(channel \o events, 1, Len(channel)) = channel
        BY PrefixOfConcat
      <3>4. Queue!Produce
        BY <2>1, <2>2, <3>1, <3>2, <3>3 DEF Queue!Produce
      <3> QED
        BY <3>4 DEF Queue!Next
    <2>3. CASE ~receiver
      BY <1>0, <2>1, <2>3 DEF Undelivered
    <2> QED
      BY <2>2, <2>3
  <1>2. CASE PollErr
    BY <1>0, <1>2 DEF PollErr, Undelivered
  <1>3. CASE Send
    <2>1. Append(channel, Head(batch)) \o Tail(batch) = channel \o batch
      BY <1>3, MoveHead DEF Send
    <2> QED
      BY <1>0, <1>3, <2>1 DEF Send, Undelivered
  <1>4. CASE SendRefused
    <2>1. Undelivered = <<>> /\ Undelivered' = <<>> /\ loop # "stopped" /\ loop' = "stopped"
          /\ receiver' = receiver
      BY <1>4 DEF SendRefused, Undelivered
    <2>2. Len(<<>>) = 0 /\ SubSeq(<<>>, 1, 0) = <<>>
      BY EmptySeq, SubSeqEmpty
    <2>3. Queue!End
      BY <2>1, <2>2 DEF Queue!End
    <2> QED
      BY <2>3 DEF Queue!Next
  <1>5. CASE BatchSent
    BY <1>0, <1>5 DEF BatchSent, Undelivered
  <1>6. CASE Wake
    BY <1>0, <1>6 DEF Wake, Undelivered
  <1>7. CASE Abort
    <2>1. loop # "stopped" /\ loop' = "stopped" /\ batch' = <<>> /\ channel' = channel
          /\ receiver' = receiver
      BY <1>7 DEF Abort
    <2>2. \E n \in 0 .. Len(Undelivered) : Undelivered' = SubSeq(Undelivered, 1, n)
      <3>1. CASE receiver
        <4>1. Undelivered = channel \o batch /\ Undelivered' = channel
          BY <2>1, <3>1, ConcatEmptySeq DEF Undelivered
        <4>2. /\ Len(channel) <= Len(channel \o batch)
              /\ SubSeq(channel \o batch, 1, Len(channel)) = channel
          BY PrefixOfConcat
        <4>3. Len(channel) \in 0 .. Len(channel \o batch)
          BY <4>2, ConcatProperties, LenProperties
        <4> QED
          BY <4>1, <4>2, <4>3
      <3>2. CASE ~receiver
        <4>1. Undelivered = <<>> /\ Undelivered' = <<>>
          BY <2>1, <3>2 DEF Undelivered
        <4>2. Len(<<>>) = 0 /\ SubSeq(<<>>, 1, 0) = <<>>
          BY EmptySeq, SubSeqEmpty
        <4>3. 0 \in 0 .. Len(<<>>)
          BY <4>2
        <4> QED
          BY <4>1, <4>2, <4>3
      <3> QED
        BY <3>1, <3>2
    <2>3. Queue!End
      BY <2>1, <2>2 DEF Queue!End
    <2> QED
      BY <2>3 DEF Queue!Next
  <1>8. CASE Receive
    <2>1. channel # <<>> /\ receiver /\ receiver' /\ channel' = Tail(channel) /\ batch' = batch
          /\ loop' = loop
      BY <1>8 DEF Receive
    <2>2. channel \o batch # <<>> /\ Tail(channel \o batch) = Tail(channel) \o batch
      BY <2>1, TailOfConcat
    <2>3. Queue!Receive
      BY <2>1, <2>2 DEF Queue!Receive, Undelivered
    <2> QED
      BY <2>3 DEF Queue!Next
  <1>9. CASE DropReceiver
    <2>1. Queue!Close
      BY <1>9 DEF DropReceiver, Queue!Close, Undelivered
    <2> QED
      BY <2>1 DEF Queue!Next
  <1>10. CASE UNCHANGED vars
    BY <1>0, <1>10 DEF vars, Undelivered
  <1> QED
    BY <1>1, <1>2, <1>3, <1>4, <1>5, <1>6, <1>7, <1>8, <1>9, <1>10 DEF Next, Poll

\* The initial states map to the empty, open queue.
LEMMA QueueInit == Init => QueueInv /\ Queue!Init
  BY EmptySeq, ConcatEmptySeq DEF Init, QueueInv, Queue!Init, Undelivered

\* watch_external_with_config delivers what its source reports in order, once and
\* without a gap, for every source, capacity and timing of the receiver.
THEOREM TaskIsAQueue == Spec => ImplementsQueue
  <1>1. Init => QueueInv /\ Queue!Init
    BY QueueInit
  <1>2. QueueInv /\ [Next]_vars => QueueInv'
    BY QueueInvStep
  <1>3. QueueInv /\ [Next]_vars => [Queue!Next]_Queue!vars
    BY QueueStep
  <1> QED
    BY <1>1, <1>2, <1>3, PTL DEF Spec, ImplementsQueue, Queue!Spec
-----------------------------------------------------------------------------
\* The ranges of the configuration that the pollers' modules assume.
ConfigTypes ==
  /\ Capacity \in Nat /\ Interval \in Nat /\ MaxBackoff \in Nat
  /\ ShiftCap \in Nat /\ MaxErrors \in Nat

\* A power of two is a natural number: it is how many subsets n numbers have.
LEMMA PowerOfTwo ==
  ASSUME NEW n \in Nat
  PROVE  2^n \in Nat
  <1>1. IsFiniteSet(1 .. n) /\ Cardinality(1 .. n) = n
    BY FS_Interval
  <1>2. IsFiniteSet(SUBSET (1 .. n)) /\ Cardinality(SUBSET (1 .. n)) = 2^Cardinality(1 .. n)
    BY <1>1, FS_SUBSET
  <1>3. Cardinality(SUBSET (1 .. n)) \in Nat
    BY <1>2, FS_CardinalityType
  <1> QED
    BY <1>1, <1>2, <1>3

\* After any number of errors the sleep is a time, and no longer than max_backoff.
LEMMA BackoffIsBounded ==
  ASSUME ConfigTypes, NEW n \in Nat
  PROVE  BackoffWait(n) \in Nat /\ BackoffWait(n) <= MaxBackoff
  <1>1. SmallerOf(n, ShiftCap) \in Nat
    BY DEF SmallerOf, ConfigTypes
  <1>2. 2^SmallerOf(n, ShiftCap) \in Nat
    BY <1>1, PowerOfTwo
  <1> DEFINE factor == 2^SmallerOf(n, ShiftCap)
  <1> HIDE DEF factor
  <1>3. Interval * factor \in Nat
    BY <1>2 DEF ConfigTypes, factor
  <1>4. BackoffWait(n) = SmallerOf(Interval * factor, MaxBackoff)
    BY DEF BackoffWait, factor
  <1> QED
    BY <1>3, <1>4 DEF SmallerOf, ConfigTypes

\* Powers of two grow: so do the subsets of a growing interval.
LEMMA PowersGrow ==
  ASSUME NEW m \in Nat, NEW n \in Nat, m <= n
  PROVE  2^m <= 2^n
  <1>1. /\ IsFiniteSet(1 .. m) /\ Cardinality(1 .. m) = m
        /\ IsFiniteSet(1 .. n) /\ Cardinality(1 .. n) = n
    BY FS_Interval
  <1>2. /\ Cardinality(SUBSET (1 .. m)) = 2^m
        /\ IsFiniteSet(SUBSET (1 .. n)) /\ Cardinality(SUBSET (1 .. n)) = 2^n
    BY <1>1, FS_SUBSET
  <1>3. SUBSET (1 .. m) \in SUBSET (SUBSET (1 .. n))
    OBVIOUS
  <1>4. Cardinality(SUBSET (1 .. m)) <= Cardinality(SUBSET (1 .. n))
    BY <1>2, <1>3, FS_Subset
  <1> QED
    BY <1>2, <1>4

\* More errors never shorten the sleep.
LEMMA BackoffIsMonotonic ==
  ASSUME ConfigTypes, NEW m \in Nat, NEW n \in Nat, m <= n
  PROVE  BackoffWait(m) <= BackoffWait(n)
  <1> DEFINE i == SmallerOf(m, ShiftCap)
             j == SmallerOf(n, ShiftCap)
             a == 2^i
             b == 2^j
  <1>1. i \in Nat /\ j \in Nat /\ i <= j
    BY DEF SmallerOf, ConfigTypes
  <1> HIDE DEF i, j
  <1>2. a \in Nat /\ b \in Nat /\ a <= b
    BY <1>1, PowerOfTwo, PowersGrow
  <1>3. BackoffWait(m) = SmallerOf(Interval * a, MaxBackoff)
        /\ BackoffWait(n) = SmallerOf(Interval * b, MaxBackoff)
    BY DEF BackoffWait, i, j
  <1> HIDE DEF a, b
  <1> DEFINE c == Interval * a
             d == Interval * b
  <1>4. c \in Nat /\ d \in Nat /\ c <= d
    BY <1>2 DEF ConfigTypes
  <1> HIDE DEF c, d
  <1> QED
    BY <1>3, <1>4 DEF SmallerOf, ConfigTypes, c, d

\* The initial state has the types, for every configuration.
LEMMA TaskTypesInit == ConfigTypes /\ Init => TypeOK
  BY EmptySeq DEF ConfigTypes, Init, TypeOK

\* Every step keeps them: the channel within its capacity, consecutive_errors
\* saturated, the sleep a time.
LEMMA TaskTypesStep ==
  ASSUME ConfigTypes, TypeOK, [Next]_vars
  PROVE  TypeOK'
  <1> USE DEF TypeOK
  <1>1. QueueInv'
    BY QueueInvStep DEF QueueInv
  <1> DEFINE Bounded == /\ loop \in {"polling", "sending", "sleeping", "stopped"}
                        /\ errors \in 0 .. MaxErrors
                        /\ wait \in Nat
                        /\ Len(channel) <= Capacity
  <1>2. Bounded'
    <2> USE DEF ConfigTypes
    <2>1. ASSUME NEW events \in Seq(Event), PollOk(events) PROVE Bounded'
      BY <2>1 DEF PollOk
    <2>2. CASE PollErr
      <3>1. errors' \in 0 .. MaxErrors
        BY <2>2 DEF PollErr, SmallerOf
      <3>2. wait' = BackoffWait(errors') /\ errors' \in Nat
        BY <2>2, <3>1 DEF PollErr
      <3>3. wait' \in Nat
        BY <3>2, BackoffIsBounded
      <3> QED
        BY <2>2, <3>1, <3>3 DEF PollErr
    <2>3. CASE Send
      <3>1. Len(channel') = Len(channel) + 1 /\ Len(channel) < Capacity
        BY <2>3, HeadTailProperties, AppendProperties DEF Send
      <3>2. Len(channel) \in Nat
        BY LenProperties
      <3> QED
        BY <2>3, <3>1, <3>2 DEF Send
    <2>4. CASE SendRefused
      BY <2>4 DEF SendRefused
    <2>5. CASE BatchSent
      BY <2>5 DEF BatchSent
    <2>6. CASE Wake
      BY <2>6 DEF Wake
    <2>7. CASE Abort
      BY <2>7 DEF Abort
    <2>8. CASE Receive
      <3>1. Len(channel') = Len(channel) - 1 /\ Len(channel) \in Nat
        BY <2>8, HeadTailProperties, LenProperties DEF Receive
      <3> QED
        BY <2>8, <3>1 DEF Receive
    <2>9. CASE DropReceiver
      BY <2>9, EmptySeq DEF DropReceiver
    <2>10. CASE UNCHANGED vars
      BY <2>10 DEF vars
    <2> QED
      BY <2>1, <2>2, <2>3, <2>4, <2>5, <2>6, <2>7, <2>8, <2>9, <2>10 DEF Next, Poll
  <1> QED
    BY <1>1, <1>2 DEF QueueInv

-----------------------------------------------------------------------------
\* After an error the task sleeps, or has slept, as long as its count of errors says;
\* while it sends there are none.
BackoffInv ==
  /\ errors > 0 /\ loop \in {"sleeping", "polling"} => wait = BackoffWait(errors)
  /\ loop = "sending" => errors = 0

\* Every step keeps that.
LEMMA BackoffStep ==
  ASSUME TypeOK, BackoffInv, [Next]_vars
  PROVE  BackoffInv'
  <1>1. ASSUME NEW events \in Seq(Event), PollOk(events) PROVE BackoffInv'
    BY <1>1 DEF PollOk, BackoffInv
  <1>2. CASE PollErr
    <2>1. loop' = "sleeping" /\ wait' = BackoffWait(errors')
      BY <1>2 DEF PollErr
    <2> QED
      BY <2>1 DEF BackoffInv, BackoffWait, SmallerOf
  <1>3. CASE Send \/ SendRefused \/ BatchSent \/ Wake
    BY <1>3 DEF Send, SendRefused, BatchSent, Wake, BackoffInv, BackoffWait, SmallerOf, TypeOK
  <1>4. CASE Abort \/ Receive \/ DropReceiver \/ UNCHANGED vars
    BY <1>4 DEF Abort, Receive, DropReceiver, vars, BackoffInv, BackoffWait, SmallerOf
  <1> QED
    BY <1>1, <1>2, <1>3, <1>4 DEF Next, Poll

\* For every source and configuration: as long as polls fail, each sleep is at least
\* as long as the one before, and none is longer than max_backoff.
THEOREM BackoffGrows ==
  ASSUME ConfigTypes
  PROVE  Spec => [][PollErr /\ errors > 0 => wait <= wait' /\ wait' <= MaxBackoff]_vars
  <1>1. Init => TypeOK /\ BackoffInv
    BY TaskTypesInit DEF Init, BackoffInv
  <1>2. TypeOK /\ BackoffInv /\ [Next]_vars => (TypeOK /\ BackoffInv)'
    BY TaskTypesStep, BackoffStep
  <1>3. TypeOK /\ BackoffInv /\ [Next]_vars
          => [PollErr /\ errors > 0 => wait <= wait' /\ wait' <= MaxBackoff]_vars
    <2> SUFFICES ASSUME TypeOK, BackoffInv, PollErr, errors > 0
                 PROVE  wait <= wait' /\ wait' <= MaxBackoff
      OBVIOUS
    <2>1. errors \in Nat /\ errors' \in Nat /\ errors <= errors'
      BY DEF TypeOK, PollErr, SmallerOf, ConfigTypes
    <2>2. wait = BackoffWait(errors) /\ wait' = BackoffWait(errors')
      BY DEF BackoffInv, PollErr
    <2> QED
      BY <2>1, <2>2, BackoffIsMonotonic, BackoffIsBounded
  <1> QED
    BY <1>1, <1>2, <1>3, PTL DEF Spec
=============================================================================
