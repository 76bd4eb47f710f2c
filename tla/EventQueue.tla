------------------------------ MODULE EventQueue ------------------------------
(***************************************************************************)
(* What the watch functions of koprs and koprs-external promise to the     *)
(* holder of the receiver: a queue of events.  What the source produces is *)
(* received in the order it was produced, once, with nothing left out, as  *)
(* long as the receiver is there; when the task ends, the last events may  *)
(* be missing.                                                             *)
(***************************************************************************)
EXTENDS Naturals, Sequences

CONSTANT Event

VARIABLES
  queue,      \* produced and not yet received
  producing,  \* the task polls its source
  open        \* the receiver is there

vars == <<queue, producing, open>>

Init ==
  /\ queue = <<>>
  /\ producing = TRUE
  /\ open = TRUE

Produce ==
  /\ producing /\ open
  /\ queue' \in Seq(Event)
  /\ Len(queue) <= Len(queue')
  /\ SubSeq(queue', 1, Len(queue)) = queue
  /\ UNCHANGED <<producing, open>>

Receive ==
  /\ open
  /\ queue # <<>>
  /\ queue' = Tail(queue)
  /\ UNCHANGED <<producing, open>>

\* The task ends; a prefix of what it has produced can still be received.
End ==
  /\ producing
  /\ producing' = FALSE
  /\ \E n \in 0 .. Len(queue) : queue' = SubSeq(queue, 1, n)
  /\ UNCHANGED open

\* The receiver is dropped.
Close ==
  /\ open
  /\ open' = FALSE
  /\ queue' = <<>>
  /\ UNCHANGED producing

\* Another task is started, with a queue of its own, once this one is read to its end.
Renew ==
  /\ open
  /\ ~producing
  /\ queue = <<>>
  /\ producing' = TRUE
  /\ UNCHANGED <<queue, open>>

Next == Produce \/ Receive \/ End \/ Close \/ Renew

Spec == Init /\ [][Next]_vars
=============================================================================
