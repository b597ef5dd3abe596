-------------------------- MODULE MC_Reachability --------------------------
(* Instances of Reachability for TLC. *)
EXTENDS Reachability
=============================================================================
