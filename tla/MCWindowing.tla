----------------------------- MODULE MCWindowing -----------------------------
(* Instances of Windowing for TLC. *)
EXTENDS Windowing
=============================================================================
