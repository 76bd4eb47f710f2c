-------------------------- MODULE MCApiSyncOperator --------------------------
(* A small instance of ApiSyncOperator for TLC. *)
EXTENDS ApiSyncOperator
=============================================================================
