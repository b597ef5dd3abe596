-------------------------- MODULE Discovery_proofs --------------------------
(***************************************************************************)
(* Proofs about the discovery cache: type correctness, that the lookup     *)
(* after GetDiscovery never finds an empty cache, and that the proof       *)
(* middleware tolerates exactly one rotation, for any number of callers    *)
(* and callbacks and any number of rotations.                              *)
(***************************************************************************)
EXTENDS Discovery, TLAPS

\* A caller that was served, from the cache, from its own fetch or from the
\* stale fallback, was served while there was data, and the cache is never
\* emptied again. LookupFindsData needs it: the lookup is a step of its own.
ServedFromCache == \A c \in Callers : pc[c] = "served" => cached # NoData

IInv ==
    /\ TypeOK
    /\ data \in [Callers -> KeyPairs \cup {NoData}]
    /\ ServedFromCache
    /\ LookupFindsData

\* Keys that Collabora can hold are never taken for the empty cache, and
\* neither is a callback in flight.
LEMMA KeysAreData ==
    /\ \A k \in KeyPairs : k # NoData
    /\ \A r \in [signed : KeyPairs, intact : BOOLEAN] : r # NoData
BY NoDataAssumption

\* The cache starts empty with no call under way.
LEMMA InitInvariant == Init => IInv
BY BoundsAssumption DEF Init, IInv, TypeOK, ServedFromCache, LookupFindsData, KeyPairs

\* No step of a caller, of the middleware or of Collabora breaks the
\* invariant; only Store writes the cache, and it writes a fetched value.
LEMMA StepInvariant == IInv /\ [Next]_vars => IInv'
<1> SUFFICES ASSUME IInv, [Next]_vars PROVE IInv'
    OBVIOUS
<1> USE BoundsAssumption, KeysAreData
<1>1. ASSUME NEW c \in Callers, GetDiscovery(c) PROVE IInv'
    BY <1>1 DEF IInv, TypeOK, ServedFromCache, LookupFindsData, GetDiscovery, Fresh, collabora, callbacks
<1>2. ASSUME NEW c \in Callers, FetchDiscovery(c) PROVE IInv'
    BY <1>2 DEF IInv, TypeOK, ServedFromCache, LookupFindsData, FetchDiscovery, Fallback, collabora, callbacks
<1>3. ASSUME NEW c \in Callers, Store(c) PROVE IInv'
    BY <1>3 DEF IInv, TypeOK, ServedFromCache, LookupFindsData, Store, collabora, callbacks
<1>4. ASSUME NEW c \in Callers, FindActionByExtension(c) PROVE IInv'
    BY <1>4 DEF IInv, TypeOK, ServedFromCache, LookupFindsData, FindActionByExtension, collabora, callbacks
<1>5. ASSUME NEW q \in Callbacks, Send(q) PROVE IInv'
    BY <1>5 DEF IInv, TypeOK, ServedFromCache, LookupFindsData, Send, collabora, callers
<1>6. ASSUME NEW q \in Callbacks, ValidateProof(q) PROVE IInv'
    BY <1>6 DEF IInv, TypeOK, ServedFromCache, LookupFindsData, ValidateProof, collabora, callers
<1>7. CASE RotateKeys
    BY <1>7 DEF IInv, TypeOK, ServedFromCache, LookupFindsData, RotateKeys, callers, callbacks, KeyPairs
<1>8. CASE RegenerateKeys
    BY <1>8 DEF IInv, TypeOK, ServedFromCache, LookupFindsData, RegenerateKeys, callers, callbacks, KeyPairs
<1>9. CASE ToggleCollabora
    BY <1>9 DEF IInv, TypeOK, ServedFromCache, LookupFindsData, ToggleCollabora, callers, callbacks
<1>10. CASE Tick
    BY <1>10 DEF IInv, TypeOK, ServedFromCache, LookupFindsData, Tick, collabora, callers, callbacks
<1>11. CASE UNCHANGED vars
    BY <1>11 DEF IInv, TypeOK, ServedFromCache, LookupFindsData, vars
<1>12. QED
    BY <1>1, <1>2, <1>3, <1>4, <1>5, <1>6, <1>7, <1>8, <1>9, <1>10, <1>11 DEF Next, Finish

\* Every variable keeps its type; only the result of a successful fetch is on
\* its way into the cache (GetDiscovery, refresh).
THEOREM TypeCorrect == Spec => []TypeOK
<1>1. IInv => TypeOK
    BY DEF IInv
<1>2. QED
    BY InitInvariant, StepInvariant, <1>1, PTL DEF Spec

\* A caller that GetDiscovery served never meets ErrNoDiscoveryData in
\* FindActionByExtension, however many callers fetch and store at once.
THEOREM LookupsFindData == Spec => []LookupFindsData
<1>1. IInv => LookupFindsData
    BY DEF IInv
<1>2. QED
    BY InitInvariant, StepInvariant, <1>1, PTL DEF Spec

\* The three key and header combinations of the proof validator accept two
\* key pairs exactly when they are of one generation and at most one rotation
\* apart.
LEMMA VerifiedIsNear ==
    ASSUME NEW s \in KeyPairs, NEW k \in KeyPairs
    PROVE  Verified(s, k) <=> s.gen = k.gen /\ s.rot - k.rot \in {-1, 0, 1}
BY BoundsAssumption DEF Verified, CurrentKey, OldKey, HasOldKey, KeyPairs

\* With keys in the cache, an intact callback is accepted exactly when its
\* signing keys are within one rotation of the cached ones.
THEOREM RotationTolerance == Spec => OneRotationTolerated
<1>1. ASSUME IInv, NEW q \in Callbacks, ValidateProof(q), cached # NoData, request[q].intact
      PROVE  LET signed == request[q].signed
                 near   == signed.gen = cached.gen /\ signed.rot - cached.rot \in {-1, 0, 1}
             IN  verdict'[q] = "accepted" <=> near
    <2>1. cached \in KeyPairs /\ request[q] \in [signed : KeyPairs, intact : BOOLEAN]
        BY <1>1 DEF IInv, TypeOK, ValidateProof
    <2>2. verdict'[q] = IF Verified(request[q].signed, cached) THEN "accepted" ELSE "unverified"
        BY <1>1 DEF IInv, TypeOK, ValidateProof
    <2>3. QED
        BY <2>1, <2>2, VerifiedIsNear
<1>2. ASSUME IInv, [Next]_vars
      PROVE  [\A q \in Callbacks : ValidateProof(q) /\ cached # NoData /\ request[q].intact =>
                 LET signed == request[q].signed
                     near   == /\ signed.gen = cached.gen
                               /\ signed.rot - cached.rot \in {-1, 0, 1}
                 IN  verdict'[q] = "accepted" <=> near]_vars
    BY <1>1, <1>2
<1>3. QED
    BY InitInvariant, StepInvariant, <1>2, PTL DEF Spec, OneRotationTolerated
=============================================================================
