---------------------------- MODULE MC_Process ----------------------------
(* Instances of Process for TLC. *)
EXTENDS Process
=============================================================================
