------------------------------ MODULE MC_Calls ------------------------------
(* A small instance of Calls for TLC. *)
EXTENDS Calls

=============================================================================
