------------------------- MODULE ResourceWatchProofs -------------------------
(***************************************************************************)
(* The watch tasks of koprs implement the event queue, and what a receiver *)
(* knows never goes back: for any resources, any channel and any number of *)
(* changes and failures.  The second rests on an order through everything  *)
(* that is under way: what is received, in the channel, waiting to be      *)
(* sent, listed, and changed since is, object by object, ever younger.     *)
(***************************************************************************)
EXTENDS ResourceWatch, SequenceTheorems, TLAPS

\* Two changes of one object come with the older first.
InTurn(c, d) == c.object = d.object => c.version <= d.version

\* Where the changes under way are: each place holds older ones than the next.
Placed ==
  /\ \A i \in 1 .. Len(channel) :
       /\ \A j \in 1 .. Len(channel) : i < j => InTurn(channel[i], channel[j])
       /\ \A j \in 1 .. Len(sending) : InTurn(channel[i], sending[j])
       /\ \A d \in page : InTurn(channel[i], d)
       /\ \A j \in 1 .. Len(log) : InTurn(channel[i], log[j])
  /\ \A i \in 1 .. Len(sending) :
       /\ \A d \in page : InTurn(sending[i], d)
       /\ \A j \in 1 .. Len(log) : InTurn(sending[i], log[j])
  /\ \A c \in page :
       /\ \A d \in page : InTurn(c, d)
       /\ \A j \in 1 .. Len(log) : InTurn(c, log[j])
  /\ \A i, j \in 1 .. Len(log) : i < j => InTurn(log[i], log[j])

\* The receiver knows nothing younger than what is under way.
News(c) == known[c.object].version <= c.version

Unread ==
  /\ \A i \in 1 .. Len(channel) : News(channel[i])
  /\ \A i \in 1 .. Len(sending) : News(sending[i])
  /\ \A c \in page : News(c)
  /\ \A i \in 1 .. Len(log) : News(log[i])

\* Nothing is younger than what the server has.
Past(c) == c.version <= server[c.object].version

Happened ==
  /\ \A o \in Object : known[o].version <= server[o].version
  /\ \A i \in 1 .. Len(channel) : channel[i] # Signal => Past(channel[i])
  /\ \A i \in 1 .. Len(sending) : sending[i] # Signal => Past(sending[i])
  /\ \A c \in page : Past(c)
  /\ \A i \in 1 .. Len(log) : Past(log[i])

\* `watch` sends signals only, the others none.
OneKind ==
  /\ \A i \in 1 .. Len(channel) : channel[i] = Signal <=> mode = "signal"
  /\ \A i \in 1 .. Len(sending) : sending[i] = Signal <=> mode = "signal"

\* The inductive invariant.
OrderInv ==
  /\ TypeOK
  /\ Happened
  /\ OneKind
  /\ mode # "signal" => Placed /\ Unread

-----------------------------------------------------------------------------
\* What Tail leaves, element by element.
LEMMA AfterHead ==
  ASSUME NEW S, NEW s \in Seq(S), s # <<>>
  PROVE  /\ Len(s) \in Nat /\ Len(s) >= 1
         /\ Head(s) = s[1] /\ Head(s) \in S
         /\ Tail(s) \in Seq(S) /\ Len(Tail(s)) = Len(s) - 1
         /\ \A i \in 1 .. Len(s) - 1 : Tail(s)[i] = s[i + 1]
  <1>1. Len(s) \in Nat /\ Len(s) # 0
    BY EmptySeq
  <1>2. /\ Head(s) \in S
        /\ Tail(s) \in Seq(S) /\ Len(Tail(s)) = Len(s) - 1
        /\ \A i \in 1 .. Len(Tail(s)) : Tail(s)[i] = s[i + 1]
    BY HeadTailProperties
  <1> QED
    BY <1>1, <1>2

\* What Append adds, element by element.
LEMMA AfterAppend ==
  ASSUME NEW S, NEW s \in Seq(S), NEW e \in S
  PROVE  /\ Append(s, e) \in Seq(S) /\ Len(s) \in Nat /\ Len(Append(s, e)) = Len(s) + 1
         /\ \A i \in 1 .. Len(s) : Append(s, e)[i] = s[i]
         /\ Append(s, e)[Len(s) + 1] = e
  BY AppendProperties, LenProperties

\* A change makes one message or none.
LEMMA MessagesOfChange ==
  ASSUME NEW c \in Change
  PROVE  /\ Messages(c) \in Seq(Message) /\ Len(Messages(c)) \in Nat /\ Len(Messages(c)) <= 1
         /\ \A i \in 1 .. Len(Messages(c)) :
              Messages(c)[i] = IF mode = "signal" THEN Signal ELSE c
  <1>1. c \in Message /\ Signal \in Message
    BY DEF Message
  <1>2. /\ <<>> \in Seq(Message) /\ Len(<<>>) = 0
        /\ <<c>> \in Seq(Message) /\ Len(<<c>>) = 1 /\ <<c>>[1] = c
        /\ <<Signal>> \in Seq(Message) /\ Len(<<Signal>>) = 1 /\ <<Signal>>[1] = Signal
    BY <1>1
  <1> QED
    BY <1>2 DEF Messages

\* A change is one of the server's.
LEMMA WrittenChange ==
  ASSUME NEW o \in Object, NEW kind \in {"applied", "deleted"}, TypeOK
  PROVE  /\ [kind |-> kind, object |-> o, version |-> server[o].version + 1] \in Change
         /\ server[o].version \in Nat
  BY DEF TypeOK, Resource, Change

-----------------------------------------------------------------------------
(***************************************************************************)
(* Types.                                                                  *)
(***************************************************************************)
LEMMA WriteTypeOK ==
  ASSUME TypeOK, NEW o \in Object, NEW kind \in {"applied", "deleted"}, Write(o, kind),
         missed' \subseteq Object
  PROVE  TypeOK'
  <1> DEFINE c == [kind |-> kind, object |-> o, version |-> server[o].version + 1]
  <1>0. c \in Change /\ server[o].version \in Nat
    BY WrittenChange
  <1>1. c \in Change /\ server[o].version + 1 \in Nat
    BY <1>0
  <1> HIDE DEF c
  <1>2. log' = IF Connected THEN Append(log, c) ELSE log
    BY DEF Write, c
  <1>3. log' \in Seq(Change) /\ (~Connected => log' = log)
    BY <1>1, <1>2, AppendProperties DEF TypeOK
  <1>4. server' \in [Object -> Resource]
    BY <1>1 DEF Write, TypeOK, Resource
  <1>5. Connected' = Connected
    BY DEF Write, Connected
  <1> QED
    BY <1>3, <1>4, <1>5 DEF Write, TypeOK

\* Every step keeps the types.
LEMMA TypeStep ==
  ASSUME TypeOK, [Next]_vars
  PROVE  TypeOK'
  <1> USE DEF TypeOK
  <1>1. CASE List
    <2>1. page' \subseteq Change
      BY <1>1 DEF List, Resource, Change
    <2> QED
      BY <1>1, <2>1 DEF List, Connected, world
  <1>2. CASE TakeListed
    <2>1. PICK c \in page : page' = page \ {c} /\ sending' = Messages(c)
      BY <1>2 DEF TakeListed
    <2>2. sending' \in Seq(Message) /\ Len(sending') <= 1
      BY <2>1, MessagesOfChange
    <2> QED
      BY <1>2, <2>1, <2>2 DEF TakeListed, Connected, world
  <1>3. CASE Listed
    BY <1>3 DEF Listed, Connected, world
  <1>4. CASE TakeChange
    <2>1. Head(log) \in Change /\ Tail(log) \in Seq(Change)
      BY <1>4, AfterHead DEF TakeChange
    <2>2. sending' \in Seq(Message) /\ Len(sending') <= 1
      BY <1>4, <2>1, MessagesOfChange DEF TakeChange
    <2> QED
      BY <1>4, <2>1, <2>2 DEF TakeChange, Connected, world
  <1>5. CASE Send
    <2>1. Head(sending) \in Message /\ Tail(sending) \in Seq(Message)
          /\ Len(Tail(sending)) = Len(sending) - 1
      BY <1>5, AfterHead DEF Send
    <2>2. channel' \in Seq(Message) /\ Len(channel') = Len(channel) + 1 /\ Len(channel) \in Nat
      BY <1>5, <2>1, AfterAppend DEF Send
    <2>3. Len(channel') <= Capacity
      BY <1>5, <2>2, WatchAssumption DEF Send
    <2>4. Len(sending') <= 1 /\ Connected
      BY <1>5, <2>1 DEF Send
    <2> QED
      BY <1>5, <2>1, <2>2, <2>3, <2>4 DEF Send, Connected, world, stream
  <1>6. CASE SendIgnored
    BY <1>6, EmptySeq DEF SendIgnored, Connected, world, stream
  <1>7. CASE StreamError
    BY <1>7, EmptySeq, WatchAssumption DEF StreamError, Connected
  <1>8. CASE Receive
    <2>1. /\ channel' \in Seq(Message) /\ Len(channel') = Len(channel) - 1 /\ Len(channel) \in Nat
          /\ Head(channel) \in Message
      BY <1>8, AfterHead DEF Receive
    <2>2. Len(channel') <= Capacity
      BY <2>1, WatchAssumption
    <2>3. known' \in [Object -> Resource]
      BY <1>8, <2>1 DEF Receive, Message, Change, Resource
    <2> QED
      BY <1>8, <2>1, <2>2, <2>3 DEF Receive, Connected, world, stream
  <1>9. CASE Restart
    BY <1>9 DEF Restart, Connected, world
  <1>10. CASE DropReceiver
    <2>1. channel' \in Seq(Message) /\ Len(channel') <= Capacity
      BY <1>10, WatchAssumption DEF DropReceiver
    <2>2. receiver' \in BOOLEAN /\ (~receiver' => channel' = <<>>)
      BY <1>10 DEF DropReceiver
    <2> QED
      BY <1>10, <2>1, <2>2 DEF DropReceiver, Connected, world, stream
  <1>11. ASSUME NEW o \in Object, Apply(o) PROVE TypeOK'
    BY <1>11, WriteTypeOK DEF Apply
  <1>12. ASSUME NEW o \in Object, Delete(o) PROVE TypeOK'
    BY <1>12, WriteTypeOK DEF Delete
  <1>13. CASE UNCHANGED vars
    BY <1>13 DEF vars, Connected, world, stream
  <1> QED
    BY <1>1, <1>2, <1>3, <1>4, <1>5, <1>6, <1>7, <1>8, <1>9, <1>10, <1>11, <1>12, <1>13
    DEF Next, TaskStep

-----------------------------------------------------------------------------
(***************************************************************************)
(* The order of what is under way.                                         *)
(***************************************************************************)
\* What the sequences hold.
LEMMA Elements ==
  ASSUME TypeOK
  PROVE  /\ Len(channel) \in Nat /\ Len(sending) \in Nat /\ Len(log) \in Nat
         /\ \A i \in 1 .. Len(channel) : channel[i] \in Message
         /\ \A i \in 1 .. Len(sending) : sending[i] \in Message
         /\ \A i \in 1 .. Len(log) : log[i] \in Change
         /\ \A c \in page : c \in Change
         /\ \A c \in Change : c.object \in Object /\ c.version \in Nat /\ c # Signal
         /\ \A m \in Message : m = Signal \/ m \in Change
         /\ \A o \in Object : known[o].version \in Nat /\ server[o].version \in Nat
  <1>1. /\ Len(channel) \in Nat /\ Len(sending) \in Nat /\ Len(log) \in Nat
        /\ \A i \in 1 .. Len(channel) : channel[i] \in Message
        /\ \A i \in 1 .. Len(sending) : sending[i] \in Message
        /\ \A i \in 1 .. Len(log) : log[i] \in Change
    BY LenProperties, ElementOfSeq DEF TypeOK
  <1>2. \A c \in page : c \in Change
    BY DEF TypeOK
  <1>3. \A c \in Change : c.object \in Object /\ c.version \in Nat /\ c # Signal
    BY WatchAssumption DEF Change
  <1>4. \A m \in Message : m = Signal \/ m \in Change
    BY DEF Message
  <1>5. \A o \in Object : known[o].version \in Nat /\ server[o].version \in Nat
    BY DEF TypeOK, Resource
  <1> QED
    BY <1>1, <1>2, <1>3, <1>4, <1>5

\* The step of the server, with the change it makes.
Wrote(o, c) ==
  /\ c \in Change /\ c.object = o /\ c.version = server[o].version + 1
  /\ server'[o].version = server[o].version + 1
  /\ \A p \in Object \ {o} : server'[p] = server[p]
  /\ \/ log' = log
     \/ /\ Len(log') = Len(log) + 1 /\ log'[Len(log) + 1] = c
        /\ \A i \in 1 .. Len(log) : log'[i] = log[i]
  /\ UNCHANGED <<mode, page, sending, channel, known>>

LEMMA ServerStep ==
  ASSUME TypeOK, NEW o \in Object, NEW kind \in {"applied", "deleted"}, Write(o, kind)
  PROVE  \E c \in Change : Wrote(o, c)
  <1> DEFINE c == [kind |-> kind, object |-> o, version |-> server[o].version + 1]
  <1>1. c \in Change /\ c.object = o /\ c.version = server[o].version + 1
    BY WrittenChange
  <1>2. /\ server'[o].version = server[o].version + 1
        /\ \A p \in Object \ {o} : server'[p] = server[p]
    BY DEF Write, TypeOK
  <1>3. log' = log \/ log' = Append(log, c)
    BY DEF Write
  <1>4. UNCHANGED <<mode, page, sending, channel, known>>
    BY DEF Write
  <1> HIDE DEF c
  <1>5. \/ log' = log
        \/ /\ Len(log') = Len(log) + 1 /\ log'[Len(log) + 1] = c
           /\ \A i \in 1 .. Len(log) : log'[i] = log[i]
    BY <1>1, <1>3, AfterAppend DEF TypeOK
  <1>6. Wrote(o, c)
    BY <1>1, <1>2, <1>4, <1>5 DEF Wrote
  <1> QED
    BY <1>1, <1>6

\* The step that passes the next change, of the list or after it, on.
Took(c) ==
  /\ c \in Change
  /\ Len(sending) = 0
  /\ Len(sending') \in Nat
  /\ \A i \in 1 .. Len(sending') : sending'[i] = IF mode = "signal" THEN Signal ELSE c
  /\ UNCHANGED <<mode, server, channel, known>>

LEMMA TookListed ==
  ASSUME TypeOK, TakeListed
  PROVE  \E c \in page : Took(c) /\ page' = page \ {c} /\ log' = log
  <1>1. PICK c \in page : page' = page \ {c} /\ sending' = Messages(c)
    BY DEF TakeListed
  <1>2. c \in Change
    BY DEF TypeOK
  <1>3. /\ Len(sending') \in Nat
        /\ \A i \in 1 .. Len(sending') : sending'[i] = IF mode = "signal" THEN Signal ELSE c
    BY <1>1, <1>2, MessagesOfChange
  <1>4. Len(sending) = 0 /\ UNCHANGED <<mode, server, channel, known>> /\ log' = log
    BY EmptySeq DEF TakeListed, world
  <1> QED
    BY <1>1, <1>2, <1>3, <1>4 DEF Took

LEMMA TookChange ==
  ASSUME TypeOK, TakeChange
  PROVE  /\ Took(log[1]) /\ page' = page
         /\ Len(log) >= 1 /\ Len(log') = Len(log) - 1
         /\ \A i \in 1 .. Len(log) - 1 : log'[i] = log[i + 1]
  <1>1. /\ Len(log) >= 1 /\ Head(log) = log[1] /\ log[1] \in Change
        /\ Len(log') = Len(log) - 1
        /\ \A i \in 1 .. Len(log) - 1 : log'[i] = log[i + 1]
    BY AfterHead DEF TakeChange, TypeOK
  <1>2. /\ Len(sending') \in Nat
        /\ \A i \in 1 .. Len(sending') : sending'[i] = IF mode = "signal" THEN Signal ELSE log[1]
    BY <1>1, MessagesOfChange DEF TakeChange
  <1>3. Len(sending) = 0 /\ UNCHANGED <<mode, server, channel, known, page>>
    BY EmptySeq DEF TakeChange, world
  <1> QED
    BY <1>1, <1>2, <1>3 DEF Took

\* The step that moves the message to send into the channel.
LEMMA Sent ==
  ASSUME TypeOK, Send
  PROVE  /\ Len(sending) = 1 /\ Len(sending') = 0
         /\ Len(channel') = Len(channel) + 1 /\ channel'[Len(channel) + 1] = sending[1]
         /\ \A i \in 1 .. Len(channel) : channel'[i] = channel[i]
         /\ UNCHANGED <<mode, server, page, log, known>>
  <1>0. sending \in Seq(Message) /\ sending # <<>> /\ Len(sending) <= 1 /\ sending' = Tail(sending)
    BY DEF Send, TypeOK
  <1>a. /\ Len(sending) \in Nat /\ Len(sending) >= 1 /\ Len(Tail(sending)) = Len(sending) - 1
        /\ Head(sending) = sending[1] /\ Head(sending) \in Message
    BY <1>0, AfterHead
  <1>1. /\ Len(sending) = 1 /\ Len(sending') = 0
        /\ Head(sending) = sending[1] /\ sending[1] \in Message
    BY <1>0, <1>a
  <1>2. /\ Len(channel') = Len(channel) + 1 /\ channel'[Len(channel) + 1] = sending[1]
        /\ \A i \in 1 .. Len(channel) : channel'[i] = channel[i]
    BY <1>1, AfterAppend DEF Send, TypeOK
  <1> QED
    BY <1>1, <1>2 DEF Send, world, stream

\* The step that brings the receiver up to date with the oldest message.
LEMMA Received ==
  ASSUME TypeOK, Receive
  PROVE  /\ Len(channel) >= 1 /\ Len(channel') = Len(channel) - 1
         /\ \A i \in 1 .. Len(channel) - 1 : channel'[i] = channel[i + 1]
         /\ channel[1] = Signal => known' = server
         /\ channel[1] # Signal =>
              /\ known'[channel[1].object].version = channel[1].version
              /\ \A o \in Object \ {channel[1].object} : known'[o] = known[o]
         /\ UNCHANGED <<mode, server, page, log, sending>>
  <1>1. /\ Len(channel) >= 1 /\ Len(channel') = Len(channel) - 1
        /\ \A i \in 1 .. Len(channel) - 1 : channel'[i] = channel[i + 1]
        /\ Head(channel) = channel[1] /\ channel[1] \in Message
    BY AfterHead DEF Receive, TypeOK
  <1>2. channel[1] # Signal => channel[1].object \in Object
    BY <1>1 DEF Message, Change
  <1>3. known' = IF channel[1] = Signal THEN server
                 ELSE [known EXCEPT ![channel[1].object] =
                         [there |-> channel[1].kind = "applied", version |-> channel[1].version]]
    BY <1>1 DEF Receive
  <1>4. UNCHANGED <<mode, server, page, log, sending>>
    BY DEF Receive, world, stream
  <1> QED
    BY <1>1, <1>2, <1>3, <1>4 DEF TypeOK

\* The remaining steps take things out of the way, or touch nothing of it.
Cleared ==
  /\ Len(channel') = 0 \/ channel' = channel
  /\ Len(sending') = 0 \/ sending' = sending
  /\ page' = {} \/ page' = page
  /\ Len(log') = 0 \/ log' = log
  /\ UNCHANGED <<mode, server, known>>

LEMMA Clears ==
  ASSUME Listed \/ SendIgnored \/ StreamError \/ Restart \/ DropReceiver \/ UNCHANGED vars
  PROVE  Cleared
  <1>1. Len(<<>>) = 0
    BY EmptySeq
  <1> QED
    BY <1>1 DEF Cleared, Listed, SendIgnored, StreamError, Restart, DropReceiver, vars, world, stream

\* Every step is of one of seven kinds.
LEMMA Kinds ==
  ASSUME TypeOK, [Next]_vars
  PROVE  \/ List \/ TakeListed \/ TakeChange \/ Send \/ Receive \/ Cleared
         \/ \E o \in Object : \E c \in Change : Wrote(o, c)
  <1>1. ASSUME NEW o \in Object, Apply(o) \/ Delete(o)
        PROVE  \E c \in Change : Wrote(o, c)
    <2>1. Write(o, "applied") \/ Write(o, "deleted")
      BY <1>1 DEF Apply, Delete
    <2> QED
      BY <2>1, ServerStep
  <1> QED
    BY <1>1, Clears DEF Next, TaskStep

\* What the list of the stream is.
LEMMA ListedNow ==
  ASSUME TypeOK, List
  PROVE  /\ \A c \in page' : c \in Change /\ c.version = server[c.object].version
         /\ Len(log) = 0
         /\ UNCHANGED <<mode, server, channel, sending, log, known>>
  BY EmptySeq DEF List, TypeOK, Connected, Resource, Change, world

\* Everything under way has happened.
LEMMA HappenedStep ==
  ASSUME OrderInv, [Next]_vars
  PROVE  Happened'
  <1> USE DEF Happened, Past
  <1>0. TypeOK /\ Happened
    BY DEF OrderInv
  <1>e. /\ Len(channel) \in Nat /\ Len(sending) \in Nat /\ Len(log) \in Nat
        /\ \A c \in Change : c.object \in Object /\ c.version \in Nat /\ c # Signal
        /\ \A o \in Object : known[o].version \in Nat /\ server[o].version \in Nat
    BY <1>0, Elements
  <1>m. /\ \A i \in 1 .. Len(channel) : channel[i] # Signal => channel[i] \in Change
        /\ \A i \in 1 .. Len(sending) : sending[i] # Signal => sending[i] \in Change
        /\ \A i \in 1 .. Len(log) : log[i] \in Change
        /\ \A c \in page : c \in Change
    BY <1>0, Elements
  <1>1. CASE List
    <2>1. /\ \A c \in page' : c \in Change /\ c.version = server[c.object].version
          /\ UNCHANGED <<mode, server, channel, sending, log, known>>
      BY <1>0, <1>1, ListedNow
    <2> QED
      BY <1>0, <1>e, <2>1
  <1>2. CASE TakeListed
    <2>1. PICK c \in page : Took(c) /\ page' = page \ {c} /\ log' = log
      BY <1>0, <1>2, TookListed
    <2> QED
      BY <1>0, <2>1 DEF Took
  <1>3. CASE TakeChange
    <2>1. /\ Took(log[1]) /\ page' = page
          /\ Len(log) >= 1 /\ Len(log') = Len(log) - 1
          /\ \A i \in 1 .. Len(log) - 1 : log'[i] = log[i + 1]
      BY <1>0, <1>3, TookChange
    <2>2. /\ \A i \in 1 .. Len(log') : Past(log'[i])
          /\ Past(log[1])
      BY <1>0, <1>e, <2>1
    <2> QED
      BY <1>0, <2>1, <2>2 DEF Took
  <1>4. CASE Send
    <2>1. /\ Len(sending) = 1 /\ Len(sending') = 0
          /\ Len(channel') = Len(channel) + 1 /\ channel'[Len(channel) + 1] = sending[1]
          /\ \A i \in 1 .. Len(channel) : channel'[i] = channel[i]
          /\ UNCHANGED <<mode, server, page, log, known>>
      BY <1>0, <1>4, Sent
    <2>2. \A i \in 1 .. Len(channel') : i \in 1 .. Len(channel) \/ i = Len(channel) + 1
      BY <1>e, <2>1
    <2>3. \A i \in 1 .. Len(channel') : channel'[i] # Signal => Past(channel'[i])
      BY <1>0, <2>1, <2>2
    <2> QED
      BY <1>0, <2>1, <2>3
  <1>5. CASE Receive
    <2>1. /\ Len(channel) >= 1 /\ Len(channel') = Len(channel) - 1
          /\ \A i \in 1 .. Len(channel) - 1 : channel'[i] = channel[i + 1]
          /\ channel[1] = Signal => known' = server
          /\ channel[1] # Signal =>
               /\ known'[channel[1].object].version = channel[1].version
               /\ \A o \in Object \ {channel[1].object} : known'[o] = known[o]
          /\ UNCHANGED <<mode, server, page, log, sending>>
      BY <1>0, <1>5, Received
    <2>2. \A o \in Object : known'[o].version <= server[o].version
      BY <1>0, <1>e, <2>1
    <2>3. \A i \in 1 .. Len(channel') : i + 1 \in 1 .. Len(channel) /\ channel'[i] = channel[i + 1]
      BY <1>e, <2>1
    <2>4. \A i \in 1 .. Len(channel') : channel'[i] # Signal => Past(channel'[i])
      BY <1>0, <2>3
    <2> QED
      BY <1>0, <2>1, <2>2, <2>4
  <1>6. CASE Cleared
    BY <1>0, <1>6 DEF Cleared
  <1>7. ASSUME NEW o \in Object, NEW c \in Change, Wrote(o, c) PROVE Happened'
    <2>1. \A p \in Object : server[p].version <= server'[p].version /\ server'[p].version \in Nat
      BY <1>e, <1>7 DEF Wrote
    <2>2. \A d \in Change : d.version <= server[d.object].version => d.version <= server'[d.object].version
      BY <1>e, <2>1
    <2>3. c.version <= server'[c.object].version
      BY <1>e, <1>7 DEF Wrote
    <2>4. \A i \in 1 .. Len(log') : (i \in 1 .. Len(log) /\ log'[i] = log[i]) \/ log'[i] = c
      BY <1>e, <1>7 DEF Wrote
    <2>5. \A i \in 1 .. Len(log') : log'[i].version <= server'[log'[i].object].version
      BY <1>0, <1>m, <2>2, <2>3, <2>4
    <2>6. \A p \in Object : known'[p].version <= server'[p].version
      <3>1. known' = known
        BY <1>7 DEF Wrote
      <3> QED
        BY <1>0, <1>e, <2>1, <3>1
    <2> QED
      BY <1>0, <1>7, <1>m, <2>2, <2>5, <2>6 DEF Wrote
  <1> QED
    BY <1>0, <1>1, <1>2, <1>3, <1>4, <1>5, <1>6, <1>7, Kinds

\* A function sends messages of its own kind only.
LEMMA OneKindStep ==
  ASSUME OrderInv, [Next]_vars
  PROVE  OneKind'
  <1> USE DEF OneKind
  <1>0. TypeOK /\ OneKind
    BY DEF OrderInv
  <1>e. Len(channel) \in Nat /\ \A c \in Change : c # Signal
    BY <1>0, Elements
  <1>1. CASE List
    BY <1>0, <1>1, ListedNow
  <1>2. CASE TakeListed
    <2>1. PICK c \in page : Took(c) /\ page' = page \ {c} /\ log' = log
      BY <1>0, <1>2, TookListed
    <2> QED
      BY <1>0, <1>e, <2>1 DEF Took
  <1>3. CASE TakeChange
    BY <1>0, <1>e, <1>3, TookChange DEF Took
  <1>4. CASE Send
    <2>1. /\ Len(sending) = 1 /\ Len(sending') = 0
          /\ Len(channel') = Len(channel) + 1 /\ channel'[Len(channel) + 1] = sending[1]
          /\ \A i \in 1 .. Len(channel) : channel'[i] = channel[i]
          /\ mode' = mode
      BY <1>0, <1>4, Sent
    <2>2. \A i \in 1 .. Len(channel') : i \in 1 .. Len(channel) \/ i = Len(channel) + 1
      BY <1>e, <2>1
    <2> QED
      BY <1>0, <2>1, <2>2
  <1>5. CASE Receive
    <2>1. /\ Len(channel') = Len(channel) - 1 /\ mode' = mode /\ sending' = sending
          /\ \A i \in 1 .. Len(channel) - 1 : channel'[i] = channel[i + 1]
      BY <1>0, <1>5, Received
    <2>2. \A i \in 1 .. Len(channel') : i + 1 \in 1 .. Len(channel) /\ channel'[i] = channel[i + 1]
      BY <1>e, <2>1
    <2> QED
      BY <1>0, <2>1, <2>2
  <1>6. CASE Cleared
    BY <1>0, <1>6 DEF Cleared
  <1>7. ASSUME NEW o \in Object, NEW c \in Change, Wrote(o, c) PROVE OneKind'
    BY <1>0, <1>7 DEF Wrote
  <1> QED
    BY <1>0, <1>1, <1>2, <1>3, <1>4, <1>5, <1>6, <1>7, Kinds

\* What is under way stays in order.
LEMMA PlacedStep ==
  ASSUME OrderInv, [Next]_vars, mode # "signal"
  PROVE  Placed'
  <1> USE DEF Placed
  <1>0. TypeOK /\ Happened /\ Placed
    BY DEF OrderInv
  <1>e. /\ Len(channel) \in Nat /\ Len(sending) \in Nat /\ Len(log) \in Nat
        /\ \A c \in Change : c.object \in Object /\ c.version \in Nat /\ c # Signal
        /\ \A o \in Object : server[o].version \in Nat
    BY <1>0, Elements
  <1>m. /\ \A i \in 1 .. Len(channel) : channel[i] \in Change /\ Past(channel[i])
        /\ \A i \in 1 .. Len(sending) : sending[i] \in Change /\ Past(sending[i])
        /\ \A i \in 1 .. Len(log) : log[i] \in Change /\ Past(log[i])
        /\ \A c \in page : c \in Change /\ Past(c)
    BY <1>0, Elements DEF OrderInv, OneKind, Happened
  <1>1. CASE List
    <2>1. /\ \A c \in page' : c \in Change /\ c.version = server[c.object].version
          /\ Len(log) = 0
          /\ UNCHANGED <<mode, server, channel, sending, log, known>>
      BY <1>0, <1>1, ListedNow
    <2>2. \A c \in Change, d \in page' : Past(c) => InTurn(c, d)
      BY <1>e, <2>1 DEF Past, InTurn
    <2>3. \A c, d \in page' : InTurn(c, d)
      BY <1>e, <2>1 DEF InTurn
    <2> QED
      BY <1>0, <1>m, <2>1, <2>2, <2>3
  <1>2. CASE TakeListed
    <2>1. PICK c \in page : Took(c) /\ page' = page \ {c} /\ log' = log
      BY <1>0, <1>2, TookListed
    <2>2. \A i \in 1 .. Len(sending') : sending'[i] = c
      BY <2>1 DEF Took
    <2>3. channel' = channel
      BY <2>1 DEF Took
    <2> QED
      BY <1>0, <2>1, <2>2, <2>3
  <1>3. CASE TakeChange
    <2>1. /\ Took(log[1]) /\ page' = page
          /\ Len(log) >= 1 /\ Len(log') = Len(log) - 1
          /\ \A i \in 1 .. Len(log) - 1 : log'[i] = log[i + 1]
      BY <1>0, <1>3, TookChange
    <2>2. /\ \A i \in 1 .. Len(sending') : sending'[i] = log[1]
          /\ channel' = channel
      BY <2>1 DEF Took
    <2>3. \A i \in 1 .. Len(log') : i + 1 \in 1 .. Len(log) /\ 1 < i + 1 /\ log'[i] = log[i + 1]
      BY <1>e, <2>1
    <2>4. 1 \in 1 .. Len(log) /\ \A i, j \in 1 .. Len(log') : i < j => i + 1 < j + 1
      BY <1>e, <2>1
    <2>5. page' = {}
      BY <1>0, <1>3, <2>1 DEF TakeChange, TypeOK
    <2>6. \A i, j \in 1 .. Len(log') : i < j => InTurn(log'[i], log'[j])
      BY <1>0, <2>3, <2>4
    <2>7. \A j \in 1 .. Len(log') : InTurn(log[1], log'[j])
      BY <1>0, <2>3, <2>4
    <2>8. \A i \in 1 .. Len(channel) :
            InTurn(channel[i], log[1]) /\ \A j \in 1 .. Len(log') : InTurn(channel[i], log'[j])
      BY <1>0, <2>3, <2>4
    <2> QED
      BY <1>0, <2>2, <2>5, <2>6, <2>7, <2>8
  <1>4. CASE Send
    <2>1. /\ Len(sending) = 1 /\ Len(sending') = 0
          /\ Len(channel') = Len(channel) + 1 /\ channel'[Len(channel) + 1] = sending[1]
          /\ \A i \in 1 .. Len(channel) : channel'[i] = channel[i]
          /\ UNCHANGED <<mode, server, page, log, known>>
      BY <1>0, <1>4, Sent
    <2>2. \A i \in 1 .. Len(channel') :
            \/ i \in 1 .. Len(channel) /\ channel'[i] = channel[i]
            \/ i = Len(channel) + 1 /\ channel'[i] = sending[1]
      BY <1>e, <2>1
    <2>3. \A i, j \in 1 .. Len(channel') : i < j => InTurn(channel'[i], channel'[j])
      <3> SUFFICES ASSUME NEW i \in 1 .. Len(channel'), NEW j \in 1 .. Len(channel'), i < j
                   PROVE  InTurn(channel'[i], channel'[j])
        OBVIOUS
      <3>1. i \in 1 .. Len(channel) /\ channel'[i] = channel[i]
        BY <1>e, <2>1
      <3> QED
        BY <1>0, <2>1, <2>2, <3>1
    <2> QED
      BY <1>0, <2>1, <2>2, <2>3
  <1>5. CASE Receive
    <2>1. /\ Len(channel) >= 1 /\ Len(channel') = Len(channel) - 1
          /\ \A i \in 1 .. Len(channel) - 1 : channel'[i] = channel[i + 1]
          /\ UNCHANGED <<mode, server, page, log, sending>>
      BY <1>0, <1>5, Received
    <2>2. \A i \in 1 .. Len(channel') : i + 1 \in 1 .. Len(channel) /\ channel'[i] = channel[i + 1]
      BY <1>e, <2>1
    <2>3. \A i, j \in 1 .. Len(channel') : i < j => InTurn(channel'[i], channel'[j])
      <3>1. \A i, j \in 1 .. Len(channel') : i < j => i + 1 < j + 1
        BY <1>e, <2>1
      <3> QED
        BY <1>0, <2>2, <3>1
    <2> QED
      BY <1>0, <2>1, <2>2, <2>3
  <1>6. CASE Cleared
    BY <1>0, <1>6 DEF Cleared
  <1>7. ASSUME NEW o \in Object, NEW c \in Change, Wrote(o, c) PROVE Placed'
    <2>1. \A d \in Change : Past(d) => InTurn(d, c)
      BY <1>e, <1>7 DEF Past, InTurn, Wrote
    <2>2. UNCHANGED <<page, sending, channel>>
      BY <1>7 DEF Wrote
    <2>3. CASE log' = log
      BY <1>0, <2>2, <2>3
    <2>4. CASE /\ Len(log') = Len(log) + 1 /\ log'[Len(log) + 1] = c
               /\ \A i \in 1 .. Len(log) : log'[i] = log[i]
      <3>1. \A i \in 1 .. Len(log') :
              \/ i \in 1 .. Len(log) /\ log'[i] = log[i]
              \/ i = Len(log) + 1 /\ log'[i] = c
        BY <1>e, <2>4
      <3>2. \A i, j \in 1 .. Len(log') : i < j => InTurn(log'[i], log'[j])
        <4> SUFFICES ASSUME NEW i \in 1 .. Len(log'), NEW j \in 1 .. Len(log'), i < j
                     PROVE  InTurn(log'[i], log'[j])
          OBVIOUS
        <4>1. i \in 1 .. Len(log) /\ log'[i] = log[i]
          BY <1>e, <2>4
        <4> QED
          BY <1>0, <1>m, <2>1, <3>1, <4>1
      <3> QED
        BY <1>0, <1>m, <2>1, <2>2, <3>1, <3>2
    <2> QED
      BY <1>7, <2>3, <2>4 DEF Wrote
  <1> QED
    BY <1>0, <1>1, <1>2, <1>3, <1>4, <1>5, <1>6, <1>7, Kinds

\* What is under way is no older than what the receiver knows.
LEMMA UnreadStep ==
  ASSUME OrderInv, [Next]_vars, mode # "signal"
  PROVE  Unread'
  <1> USE DEF Unread, News
  <1>0. TypeOK /\ Happened /\ Placed /\ Unread
    BY DEF OrderInv
  <1>e. /\ Len(channel) \in Nat /\ Len(sending) \in Nat /\ Len(log) \in Nat
        /\ \A c \in Change : c.object \in Object /\ c.version \in Nat /\ c # Signal
        /\ \A o \in Object : known[o].version \in Nat /\ server[o].version \in Nat
    BY <1>0, Elements
  <1>m. /\ \A i \in 1 .. Len(channel) : channel[i] \in Change
        /\ \A i \in 1 .. Len(sending) : sending[i] \in Change
        /\ \A i \in 1 .. Len(log) : log[i] \in Change
        /\ \A c \in page : c \in Change
        /\ \A o \in Object : known[o].version <= server[o].version
    BY <1>0, Elements DEF OrderInv, OneKind, Happened
  <1>1. CASE List
    <2>1. /\ \A c \in page' : c \in Change /\ c.version = server[c.object].version
          /\ UNCHANGED <<mode, server, channel, sending, log, known>>
      BY <1>0, <1>1, ListedNow
    <2>2. \A c \in page' : News(c)
      BY <1>e, <1>m, <2>1
    <2> QED
      BY <1>0, <2>1, <2>2
  <1>2. CASE TakeListed
    <2>1. PICK c \in page : Took(c) /\ page' = page \ {c} /\ log' = log
      BY <1>0, <1>2, TookListed
    <2> QED
      BY <1>0, <2>1 DEF Took
  <1>3. CASE TakeChange
    <2>1. /\ Took(log[1]) /\ page' = page
          /\ Len(log) >= 1 /\ Len(log') = Len(log) - 1
          /\ \A i \in 1 .. Len(log) - 1 : log'[i] = log[i + 1]
      BY <1>0, <1>3, TookChange
    <2>2. (\A i \in 1 .. Len(log') : News(log'[i])) /\ News(log[1])
      BY <1>0, <1>e, <2>1
    <2> QED
      BY <1>0, <2>1, <2>2 DEF Took
  <1>4. CASE Send
    <2>1. /\ Len(sending) = 1 /\ Len(sending') = 0
          /\ Len(channel') = Len(channel) + 1 /\ channel'[Len(channel) + 1] = sending[1]
          /\ \A i \in 1 .. Len(channel) : channel'[i] = channel[i]
          /\ UNCHANGED <<mode, server, page, log, known>>
      BY <1>0, <1>4, Sent
    <2>2. \A i \in 1 .. Len(channel') : i \in 1 .. Len(channel) \/ i = Len(channel) + 1
      BY <1>e, <2>1
    <2> QED
      BY <1>0, <2>1, <2>2
  <1>5. CASE Receive
    <2>1. /\ Len(channel) >= 1 /\ Len(channel') = Len(channel) - 1
          /\ \A i \in 1 .. Len(channel) - 1 : channel'[i] = channel[i + 1]
          /\ channel[1] # Signal =>
               /\ known'[channel[1].object].version = channel[1].version
               /\ \A o \in Object \ {channel[1].object} : known'[o] = known[o]
          /\ UNCHANGED <<mode, server, page, log, sending>>
      BY <1>0, <1>5, Received
    <2>2. 1 \in 1 .. Len(channel) /\ channel[1] \in Change
      BY <1>e, <1>m, <2>1
    <2>3. \A c \in Change : News(c) /\ InTurn(channel[1], c) => News(c)'
      BY <1>e, <2>1, <2>2 DEF InTurn
    <2>4. \A i \in 1 .. Len(channel') :
            i + 1 \in 1 .. Len(channel) /\ 1 < i + 1 /\ channel'[i] = channel[i + 1]
      BY <1>e, <2>1
    <2>5. \A i \in 1 .. Len(channel') : channel'[i] \in Change /\ News(channel'[i]) /\ InTurn(channel[1], channel'[i])
      BY <1>0, <1>m, <2>2, <2>4 DEF Placed
    <2>6. /\ \A i \in 1 .. Len(sending) : InTurn(channel[1], sending[i])
          /\ \A i \in 1 .. Len(log) : InTurn(channel[1], log[i])
          /\ \A c \in page : InTurn(channel[1], c)
      BY <1>0, <2>2 DEF Placed
    <2> QED
      BY <1>0, <1>m, <2>1, <2>3, <2>5, <2>6
  <1>6. CASE Cleared
    BY <1>0, <1>6 DEF Cleared
  <1>7. ASSUME NEW o \in Object, NEW c \in Change, Wrote(o, c) PROVE Unread'
    <2>1. News(c) /\ UNCHANGED <<known, page, sending, channel>>
      BY <1>e, <1>m, <1>7 DEF Wrote
    <2>2. \A i \in 1 .. Len(log') : (i \in 1 .. Len(log) /\ log'[i] = log[i]) \/ log'[i] = c
      BY <1>e, <1>7 DEF Wrote
    <2> QED
      BY <1>0, <2>1, <2>2
  <1> QED
    BY <1>0, <1>1, <1>2, <1>3, <1>4, <1>5, <1>6, <1>7, Kinds

\* At the start nothing is under way, and the receiver knows nothing.
LEMMA OrderInit ==
  ASSUME Init
  PROVE  OrderInv
  <1>1. Len(<<>>) = 0 /\ <<>> \in Seq(Change) /\ <<>> \in Seq(Message)
    BY EmptySeq
  <1>2. /\ Len(channel) = 0 /\ Len(sending) = 0 /\ Len(log) = 0 /\ page = {}
        /\ channel = <<>> /\ sending = <<>> /\ log = <<>>
    BY <1>1 DEF Init
  <1> DEFINE gone == [there |-> FALSE, version |-> 0]
             new == [there |-> TRUE, version |-> 1]
  <1>a. gone \in Resource /\ new \in Resource /\ gone.version = 0 /\ new.version = 1
    BY DEF Resource
  <1>b. server \in [Object -> {gone, new}] /\ known = [o \in Object |-> gone]
    BY DEF Init
  <1> HIDE DEF gone, new
  <1>3. server \in [Object -> Resource] /\ known \in [Object -> Resource]
    BY <1>a, <1>b
  <1>4. TypeOK
    BY <1>1, <1>2, <1>3, WatchAssumption DEF Init, TypeOK
  <1>5. \A o \in Object : known[o].version <= server[o].version
    <2> SUFFICES ASSUME NEW o \in Object PROVE known[o].version <= server[o].version
      OBVIOUS
    <2>1. known[o] = gone /\ (server[o] = gone \/ server[o] = new)
      BY <1>b
    <2> QED
      BY <1>a, <2>1
  <1>6. Happened
    BY <1>2, <1>5 DEF Happened
  <1>7. OneKind /\ Placed /\ Unread
    BY <1>2 DEF OneKind, Placed, Unread
  <1> QED
    BY <1>4, <1>6, <1>7 DEF OrderInv

\* OrderInv is inductive.
LEMMA OrderStep ==
  ASSUME OrderInv, [Next]_vars
  PROVE  OrderInv'
  <1>1. TypeOK'
    BY TypeStep DEF OrderInv
  <1>2. Happened' /\ OneKind'
    BY HappenedStep, OneKindStep
  <1>3. mode # "signal" => Placed' /\ Unread'
    BY PlacedStep, UnreadStep
  <1>4. mode' = mode
    <2>1. CASE \E o \in Object : \E c \in Change : Wrote(o, c)
      BY <2>1 DEF Wrote
    <2>2. CASE TakeListed \/ TakeChange
      BY <2>2 DEF TakeListed, TakeChange
    <2>3. CASE List \/ Send \/ Receive \/ Cleared
      BY <2>3 DEF List, Send, Receive, Cleared
    <2> QED
      BY <2>1, <2>2, <2>3, Kinds DEF OrderInv
  <1> QED
    BY <1>1, <1>2, <1>3, <1>4 DEF OrderInv

\* The variables of a watch task keep their types, for any objects, channel and
\* bounds.
THEOREM WatchTyped == Spec => []TypeOK
  <1>1. Init => TypeOK
    BY OrderInit DEF OrderInv
  <1>2. TypeOK /\ [Next]_vars => TypeOK'
    BY TypeStep
  <1> QED
    BY <1>1, <1>2, PTL DEF Spec

\* No step takes what the receiver knows of an object back to an older version,
\* whatever the function, the channel, the changes and the failures.
THEOREM KnowledgeGrows == Spec => NeverGoesBack
  <1>1. OrderInv /\ [Next]_vars => [\A o \in Object : known'[o].version >= known[o].version]_vars
    <2> SUFFICES ASSUME OrderInv, [Next]_vars
                 PROVE  \A o \in Object : known'[o].version >= known[o].version
      OBVIOUS
    <2>0. TypeOK /\ Happened /\ OneKind /\ (mode # "signal" => Unread)
      BY DEF OrderInv
    <2>1. \A o \in Object : known[o].version \in Nat /\ server[o].version \in Nat
      BY <2>0, Elements
    <2>2. CASE Receive
      <3>1. /\ Len(channel) >= 1 /\ Len(channel) \in Nat
            /\ channel[1] = Signal => known' = server
            /\ channel[1] # Signal =>
                 /\ known'[channel[1].object].version = channel[1].version
                 /\ \A o \in Object \ {channel[1].object} : known'[o] = known[o]
        BY <2>0, <2>2, Received, Elements
      <3>2. 1 \in 1 .. Len(channel)
        BY <3>1
      <3>3. CASE channel[1] = Signal
        BY <2>0, <2>1, <3>1, <3>3 DEF Happened
      <3>4. CASE channel[1] # Signal
        <4>1. channel[1] \in Change /\ channel[1].version \in Nat
          BY <2>0, <3>2, <3>4, Elements
        <4>2. known[channel[1].object].version <= channel[1].version
          BY <2>0, <3>2, <3>4 DEF OneKind, Unread, News
        <4> QED
          BY <2>1, <3>1, <3>4, <4>1, <4>2
      <3> QED
        BY <3>3, <3>4
    <2>3. CASE known' = known
      BY <2>1, <2>3
    <2>4. Receive \/ known' = known
      <3>1. CASE \E o \in Object : \E c \in Change : Wrote(o, c)
        BY <3>1 DEF Wrote
      <3>2. CASE TakeListed \/ TakeChange \/ List \/ Send \/ Cleared
        BY <3>2 DEF TakeListed, TakeChange, List, Send, Cleared
      <3> QED
        BY <2>0, <3>1, <3>2, Kinds
    <2> QED
      BY <2>2, <2>3, <2>4
  <1>2. Init => OrderInv
    BY OrderInit
  <1>3. OrderInv /\ [Next]_vars => OrderInv'
    BY OrderStep
  <1> QED
    BY <1>1, <1>2, <1>3, PTL DEF Spec, NeverGoesBack

-----------------------------------------------------------------------------
(***************************************************************************)
(* The queue.                                                              *)
(***************************************************************************)
Loop ==
  INSTANCE ExternalWatchProofs WITH
    Event <- Message, loop <- task, wait <- 0, batch <- sending,
    Interval <- 0, MaxBackoff <- 0, ShiftCap <- 0

\* Every step is one of the queue, or changes nothing the queue shows.
LEMMA WatchQueueStep ==
  ASSUME TypeOK, [Next]_vars
  PROVE  [Queue!Next]_Queue!vars
  <1> DEFINE unseen == Undelivered' = Undelivered /\ (task' # "ended") = (task # "ended")
                         /\ receiver' = receiver
  <1>0. unseen => UNCHANGED Queue!vars
    BY DEF Queue!vars
  <1>t. channel \in Seq(Message) /\ sending \in Seq(Message) /\ receiver \in BOOLEAN
    BY DEF TypeOK
  <1>1. CASE List
    BY <1>0, <1>1 DEF List, Undelivered
  <1>2. ASSUME sending = <<>>, sending' \in Seq(Message), task # "ended", task' # "ended",
               channel' = channel, receiver' = receiver
        PROVE  [Queue!Next]_Queue!vars
    <2>1. CASE receiver
      <3>1. Undelivered = channel /\ Undelivered' = channel \o sending'
        BY <1>2, <1>t, <2>1, ConcatEmptySeq DEF Undelivered
      <3>2. channel \o sending' \in Seq(Message)
        BY <1>2, <1>t, ConcatProperties
      <3>3. /\ Len(channel) <= Len(channel \o sending')
            /\ SubSeq(channel \o sending', 1, Len(channel)) = channel
        BY <1>2, <1>t, Loop!PrefixOfConcat
      <3>4. Queue!Produce
        BY <1>2, <2>1, <3>1, <3>2, <3>3 DEF Queue!Produce
      <3> QED
        BY <3>4 DEF Queue!Next
    <2>2. CASE ~receiver
      BY <1>0, <1>2, <2>2 DEF Undelivered
    <2> QED
      BY <2>1, <2>2
  <1>3. CASE TakeListed
    <2>1. sending' \in Seq(Message)
      BY <1>3, TypeStep DEF TypeOK
    <2> QED
      BY <1>2, <1>3, <2>1 DEF TakeListed
  <1>4. CASE TakeChange
    <2>1. sending' \in Seq(Message)
      BY <1>4, TypeStep DEF TypeOK
    <2> QED
      BY <1>2, <1>4, <2>1 DEF TakeChange
  <1>5. CASE Listed
    BY <1>0, <1>5 DEF Listed, Undelivered
  <1>6. CASE Send
    <2>1. Append(channel, Head(sending)) \o Tail(sending) = channel \o sending
      BY <1>6, <1>t, Loop!MoveHead DEF Send
    <2> QED
      BY <1>0, <1>6, <2>1 DEF Send, Undelivered, stream
  <1>7. CASE SendIgnored
    BY <1>0, <1>7 DEF SendIgnored, Undelivered, stream
  <1>8. CASE StreamError
    <2>1. /\ task # "ended" /\ task' = "ended" /\ receiver' = receiver
          /\ Undelivered' = Undelivered
      BY <1>8 DEF StreamError, Undelivered
    <2>2. Undelivered \in Seq(Message)
      BY <1>t, EmptySeq, ConcatProperties DEF Undelivered
    <2>3. Len(Undelivered) \in 0 .. Len(Undelivered) /\ SubSeq(Undelivered, 1, Len(Undelivered)) = Undelivered
      <3>1. /\ Len(Undelivered) \in Nat
            /\ SubSeq(Undelivered \o <<>>, 1, Len(Undelivered)) = Undelivered
            /\ Undelivered \o <<>> = Undelivered
        BY <2>2, EmptySeq, LenProperties, ConcatEmptySeq, Loop!PrefixOfConcat
      <3> QED
        BY <3>1
    <2>4. Queue!End
      BY <2>1, <2>3 DEF Queue!End
    <2> QED
      BY <2>4 DEF Queue!Next
  <1>9. CASE Receive
    <2>1. /\ channel # <<>> /\ receiver /\ receiver' = receiver
          /\ channel' = Tail(channel) /\ sending' = sending /\ task' = task
      BY <1>9 DEF Receive, stream
    <2>2. channel \o sending # <<>> /\ Tail(channel \o sending) = Tail(channel) \o sending
      BY <1>t, <2>1, Loop!TailOfConcat
    <2>3. Queue!Receive
      BY <2>1, <2>2 DEF Queue!Receive, Undelivered
    <2> QED
      BY <2>3 DEF Queue!Next
  <1>10. CASE Restart
    <2>1. sending = <<>> /\ channel = <<>>
      BY <1>10 DEF Restart, TypeOK, Connected
    <2>2. Undelivered = <<>> /\ Undelivered' = <<>>
      BY <1>10, <2>1, ConcatEmptySeq, EmptySeq DEF Restart, Undelivered
    <2>3. Queue!Renew
      BY <1>10, <2>2 DEF Restart, Queue!Renew
    <2> QED
      BY <2>3 DEF Queue!Next
  <1>11. CASE DropReceiver
    <2>1. Queue!Close
      BY <1>11 DEF DropReceiver, Queue!Close, Undelivered, stream
    <2> QED
      BY <2>1 DEF Queue!Next
  <1>12. ASSUME NEW o \in Object, Apply(o) \/ Delete(o) PROVE [Queue!Next]_Queue!vars
    <2>1. UNCHANGED <<task, channel, sending, receiver>>
      BY <1>12 DEF Apply, Delete, Write
    <2> QED
      BY <1>0, <2>1 DEF Undelivered
  <1>13. CASE UNCHANGED vars
    BY <1>0, <1>13 DEF vars, stream, Undelivered
  <1> QED
    BY <1>1, <1>3, <1>4, <1>5, <1>6, <1>7, <1>8, <1>9, <1>10, <1>11, <1>12, <1>13
    DEF Next, TaskStep

\* Each watch function delivers what its stream yields in order, once and without a
\* gap, for every channel and pace of the receiver, and so does each watch that is
\* started after one that failed.
THEOREM WatchIsAQueue == Spec => ImplementsWatchQueue
  <1>1. Init => TypeOK /\ Queue!Init
    <2>1. Init => TypeOK
      BY OrderInit DEF OrderInv
    <2>2. Init => Queue!Init
      BY EmptySeq, ConcatEmptySeq DEF Init, Queue!Init, Undelivered
    <2> QED
      BY <2>1, <2>2
  <1>2. TypeOK /\ [Next]_vars => TypeOK'
    BY TypeStep
  <1>3. TypeOK /\ [Next]_vars => [Queue!Next]_Queue!vars
    BY WatchQueueStep
  <1> QED
    BY <1>1, <1>2, <1>3, PTL DEF Spec, ImplementsWatchQueue, Queue!Spec
=============================================================================
