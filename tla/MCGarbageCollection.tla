------------------------- MODULE MCGarbageCollection -------------------------
(* Small instances of GarbageCollection for TLC. *)
EXTENDS GarbageCollection

\* Two resources in the namespace of the scope, and a namesake of one elsewhere.
ProdA == [ns |-> "prod", name |-> "a"]
ProdB == [ns |-> "prod", name |-> "b"]
TestA == [ns |-> "test", name |-> "a"]
TwoNamespaces == {ProdA, ProdB, TestA}
TwiceProdA == [k \in TwoNamespaces |-> IF k = ProdA THEN 2 ELSE 1]

\* Namespaced("prod").
InScope(k) == [ns |-> "prod", name |-> k.name]
=============================================================================
