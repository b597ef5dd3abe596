---------------------------- MODULE MC_Discovery ----------------------------
(* Instances of Discovery for TLC. *)
EXTENDS Discovery, TLC

Symmetric == Permutations(Callers) \cup Permutations(Callbacks)
=============================================================================
