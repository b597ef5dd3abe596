------------------------------ MODULE MC_Tokens ------------------------------
(* Instances of Tokens for TLC. *)
EXTENDS Tokens
=============================================================================
