------------------------ MODULE MC_ContributionWindow ------------------------
(* Instances of ContributionWindow for TLC. *)
EXTENDS ContributionWindow, TLC

Symmetric == Permutations(Docs) \cup Permutations(Actors) \cup Permutations(Requests)

\* The last event is output: no action reads it.
Observed == <<docs, snapshot, left, flusher, emitted, publishFail, token, window,
              active, saves, handled>>
=============================================================================
