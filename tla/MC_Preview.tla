----------------------------- MODULE MC_Preview -----------------------------
(* Instances of Preview for TLC. *)
EXTENDS Preview, TLC

\* Replicas, sources, preview IDs and requests are interchangeable.
Symmetric ==
    Permutations(Replicas) \cup Permutations(Sources)
        \cup Permutations(PreviewIDs) \cup Permutations(Requests)

\* All that the guards read: a reply is read in the state after the step only.
Observed == <<files, store, permits, job, pc, source, seen, entry, flight>>
=============================================================================
