-------------------------- MODULE MCOperatorProcess --------------------------
(* A small instance of OperatorProcess, with ControllerRun in it, for TLC. *)
EXTENDS OperatorProcess
=============================================================================
