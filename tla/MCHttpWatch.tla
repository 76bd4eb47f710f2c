------------------------------ MODULE MCHttpWatch ------------------------------
(* Small instances of HttpWatch for TLC. *)
EXTENDS HttpWatch

CONSTANTS b1, b2

TwoBodies == {b1, b2}
=============================================================================
