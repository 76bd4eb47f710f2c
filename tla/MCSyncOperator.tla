---------------------------- MODULE MCSyncOperator ----------------------------
(* Small instances of SyncOperator for TLC. *)
EXTENDS SyncOperator, TLC

CONSTANTS o1, o2, w1, w2, w3, n1, n2

TwoCrs == {o1, o2}
TwoNamespaces == {n1, n2}
ThreeWants == {w1, w2, w3}
Wants == (o1 :> {w1, w2}) @@ (o2 :> {w3})

\* The CRs have a namespace each; the first one is the busy one.
Apart == (w1 :> n1) @@ (w2 :> n1) @@ (w3 :> n2)
Busy == (o1 :> 3) @@ (o2 :> 0)

\* They share a namespace.
Together == [w \in ThreeWants |-> n1]
=============================================================================
