--------------------------- MODULE MCAdmissionServer ---------------------------
(* Small instances of AdmissionServer for TLC. *)
EXTENDS AdmissionServer
=============================================================================
