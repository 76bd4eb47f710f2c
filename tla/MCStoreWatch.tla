----------------------------- MODULE MCStoreWatch -----------------------------
(* Small instances of StoreWatch for TLC. *)
EXTENDS StoreWatch

CONSTANTS p1, p2, t1, t2

TwoPaths == {p1, p2}
TwoTags == {t1, t2}
OneBare == {p2}
=============================================================================
