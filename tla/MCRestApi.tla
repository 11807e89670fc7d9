----------------------------- MODULE MCRestApi ------------------------------
(* RestApi for TLC. *)
EXTENDS RestApi
=============================================================================
