---------------------------- MODULE MC_WopiLocks ----------------------------
(* Instances of WopiLocks for TLC. *)
EXTENDS WopiLocks_lease, TLC

\* Requests and lock IDs are interchangeable: nothing orders them.
Symmetric == Permutations(Requests) \cup Permutations(LockIDs)

\* What the guards and the overlap properties read of a state: replies are
\* read in the state after the step only, `since' and `lease' nowhere.
Observed == <<now, row, pc, call, existing, at, overtaken>>
=============================================================================
