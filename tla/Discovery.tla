----------------------------- MODULE Discovery -----------------------------
(***************************************************************************)
(* The WOPI discovery cache (discovery_service.go) and its two readers:    *)
(* the callers of GetDiscovery (token issuance, which then looks up the    *)
(* editor action, GET /wopi/discovery, and the priming at startup), and    *)
(* the proof middleware (middleware_proof.go), which checks a callback of  *)
(* Collabora against the cached keys and never fetches.                    *)
(*                                                                         *)
(* The fetch runs outside the mutex, so two callers may fetch the same     *)
(* stale cache and store in either order. Of the discovery data only the   *)
(* proof keys are kept: they are what changes at Collabora. A key is a     *)
(* pair <<generation, rotation>>; a rotation keeps the previous key as the *)
(* old one, a new generation (a Collabora that lost its keys) has none.    *)
(*                                                                         *)
(* An operator whose name starts with Broken is a plausible bug of the     *)
(* operator it precedes. The specification does not use it: the properties *)
(* are shown to notice it when it takes that operator's place.             *)
(***************************************************************************)
EXTENDS Integers

CONSTANTS
    Callers,        \* calls of GetDiscovery that may be under way at once
    Callbacks,      \* requests of Collabora that may be under way at once
    CacheTTL,       \* cacheTTL, in ticks
    MaxGeneration,  \* bound on the times Collabora loses its keys
    MaxRotation,    \* bound on the rotations within a generation
    NoData          \* the empty cache, and the absence of a request

ASSUME BoundsAssumption ==
    /\ CacheTTL \in Nat \ {0}
    /\ MaxGeneration \in Nat
    /\ MaxRotation \in Nat

KeyPairs == [gen : 0..MaxGeneration, rot : 0..MaxRotation]

ASSUME NoDataAssumption == NoData \notin KeyPairs \cup [signed : KeyPairs, intact : BOOLEAN]

VARIABLES
    collaboraUp,  \* external: Collabora answers discovery requests
    keys,         \* external: the keys Collabora signs with and publishes
    cached,       \* s.cached
    age,          \* time.Since(s.cachedAt), up to CacheTTL
    pc,           \* each caller: "idle", "fetching", "storing", "served" or "keyless"
    data,         \* what its FetchDiscovery returned
    request,      \* each callback in flight: the keys that signed it
    verdict       \* the middleware's last verdict in that slot

vars == <<collaboraUp, keys, cached, age, pc, data, request, verdict>>

collabora == <<collaboraUp, keys>>
callers   == <<pc, data>>
callbacks == <<request, verdict>>

\* Every variable has its type; in particular only a fetch that succeeded is
\* ever on its way into the cache.
TypeOK ==
    /\ collaboraUp \in BOOLEAN
    /\ keys \in KeyPairs
    /\ cached \in KeyPairs \cup {NoData}
    /\ age \in 0..CacheTTL
    /\ pc \in [Callers -> {"idle", "fetching", "storing", "served", "keyless"}]
    /\ \A c \in Callers : data[c] \in IF pc[c] = "storing" THEN KeyPairs ELSE {NoData}
    /\ request \in [Callbacks -> [signed : KeyPairs, intact : BOOLEAN] \cup {NoData}]
    /\ verdict \in [Callbacks -> {"none", "accepted", "malformed", "unverified", "unavailable"}]

----------------------------------------------------------------------------
(* GetDiscovery and refresh. *)

\* Once there is data it is never fetched again.
BrokenFresh == cached # NoData

Fresh == cached # NoData /\ age < CacheTTL

\* The cache is cleared before the fetch instead of kept for the fallback.
BrokenGetDiscovery(c) ==
    /\ pc[c] = "idle"
    /\ pc' = [pc EXCEPT ![c] = IF Fresh THEN "served" ELSE "fetching"]
    /\ cached' = IF Fresh THEN cached ELSE NoData
    /\ UNCHANGED <<collabora, age, data, callbacks>>

GetDiscovery(c) ==
    /\ pc[c] = "idle"
    /\ pc' = [pc EXCEPT ![c] = IF Fresh THEN "served" ELSE "fetching"]
    /\ UNCHANGED <<collabora, cached, age, data, callbacks>>

\* The fetch error is ignored and its nil result stored.
BrokenFallback(c) == "storing"

\* An error falls back on the stale cache; without one the call fails.
Fallback(c) == IF cached # NoData THEN "served" ELSE "idle"

FetchDiscovery(c) ==
    /\ pc[c] = "fetching"
    /\ \/ /\ collaboraUp
          /\ data' = [data EXCEPT ![c] = keys]
          /\ pc' = [pc EXCEPT ![c] = "storing"]
       \/ /\ ~collaboraUp
          /\ pc' = [pc EXCEPT ![c] = Fallback(c)]
          /\ UNCHANGED data
    /\ UNCHANGED <<collabora, cached, age, callbacks>>

Store(c) ==
    /\ pc[c] = "storing"
    /\ cached' = data[c]
    /\ age' = 0
    /\ data' = [data EXCEPT ![c] = NoData]
    /\ pc' = [pc EXCEPT ![c] = "served"]
    /\ UNCHANGED <<collabora, callbacks>>

\* resolveEditorURL goes back to the cache, not to what GetDiscovery returned;
\* an empty cache is ErrNoDiscoveryData. (GET /wopi/discovery ends here too.)
FindActionByExtension(c) ==
    /\ pc[c] = "served"
    /\ pc' = [pc EXCEPT ![c] = IF cached = NoData THEN "keyless" ELSE "idle"]
    /\ UNCHANGED <<collabora, cached, age, data, callbacks>>

----------------------------------------------------------------------------
(* ProofMiddleware. *)

CurrentKey(k) == <<k.gen, k.rot>>
HasOldKey(k)  == k.rot > 0
OldKey(k)     == <<k.gen, k.rot - 1>>

\* The X-WOPI-ProofOld header is ignored.
BrokenVerified(signed, known) ==
    \/ CurrentKey(signed) = CurrentKey(known)
    \/ HasOldKey(known) /\ CurrentKey(signed) = OldKey(known)

\* The current proof with the current key, the old proof with the current key,
\* the current proof with the old key.
Verified(signed, known) ==
    \/ CurrentKey(signed) = CurrentKey(known)
    \/ HasOldKey(signed) /\ OldKey(signed) = CurrentKey(known)
    \/ HasOldKey(known) /\ CurrentKey(signed) = OldKey(known)

\* A request is intact when it carries a decodable proof and a timestamp
\* within the 20 minutes. "malformed" and "unverified" are both a 401, for
\* different errors; "unavailable" is the 500 of a service without keys.
ValidateProof(q) ==
    /\ request[q] # NoData
    /\ verdict' = [verdict EXCEPT ![q] =
            CASE cached = NoData                      -> "unavailable"
              [] cached # NoData /\ ~request[q].intact -> "malformed"
              [] OTHER -> IF Verified(request[q].signed, cached)
                          THEN "accepted" ELSE "unverified"]
    /\ request' = [request EXCEPT ![q] = NoData]
    /\ UNCHANGED <<collabora, cached, age, callers>>

----------------------------------------------------------------------------
(* Collabora and time. *)

\* Collabora signs with the keys it has then; the request may be delayed
\* past a rotation, on the way or in the token middleware.
Send(q) ==
    /\ request[q] = NoData
    /\ \E intact \in BOOLEAN :
            request' = [request EXCEPT ![q] = [signed |-> keys, intact |-> intact]]
    /\ verdict' = [verdict EXCEPT ![q] = "none"]
    /\ UNCHANGED <<collabora, cached, age, callers>>

RotateKeys ==
    /\ keys.rot < MaxRotation
    /\ keys' = [keys EXCEPT !.rot = @ + 1]
    /\ UNCHANGED <<collaboraUp, cached, age, callers, callbacks>>

RegenerateKeys ==
    /\ keys.gen < MaxGeneration
    /\ keys' = [gen |-> keys.gen + 1, rot |-> 0]
    /\ UNCHANGED <<collaboraUp, cached, age, callers, callbacks>>

ToggleCollabora ==
    /\ collaboraUp' = ~collaboraUp
    /\ UNCHANGED <<keys, cached, age, callers, callbacks>>

Tick ==
    /\ age < CacheTTL
    /\ age' = age + 1
    /\ UNCHANGED <<collabora, cached, callers, callbacks>>

----------------------------------------------------------------------------

Init ==
    /\ collaboraUp \in BOOLEAN
    /\ keys = [gen |-> 0, rot |-> 0]
    /\ cached = NoData
    /\ age = CacheTTL
    /\ pc = [c \in Callers |-> "idle"]
    /\ data = [c \in Callers |-> NoData]
    /\ request = [q \in Callbacks |-> NoData]
    /\ verdict = [q \in Callbacks |-> "none"]

Finish(c) == FetchDiscovery(c) \/ Store(c) \/ FindActionByExtension(c)

Next ==
    \/ \E c \in Callers : GetDiscovery(c) \/ Finish(c)
    \/ \E q \in Callbacks : Send(q) \/ ValidateProof(q)
    \/ RotateKeys
    \/ RegenerateKeys
    \/ ToggleCollabora
    \/ Tick

Spec == Init /\ [][Next]_vars

\* What the service does on its own: time passes, a call that has begun ends
\* (the client has a 30-second timeout), a callback gets its verdict. Whether
\* anyone calls GetDiscovery is up to the users.
ServiceSpec ==
    /\ Spec
    /\ WF_vars(Tick)
    /\ \A c \in Callers : WF_vars(Finish(c))
    /\ \A q \in Callbacks : WF_vars(ValidateProof(q))

\* With users who keep opening documents.
BusySpec == ServiceSpec /\ \A c \in Callers : WF_vars(GetDiscovery(c))

----------------------------------------------------------------------------

\* A caller that GetDiscovery served finds data in the cache when it goes back
\* to look up the editor action, whatever other callers did in between.
LookupFindsData == \A c \in Callers : pc[c] # "keyless"

\* A callback is accepted when at most one rotation separates the keys that
\* signed it from the cached ones, on either side, and never when Collabora
\* lost its keys in between: a cache one rotation behind (or ahead of a
\* delayed callback) rejects nothing genuine.
OneRotationTolerated ==
    [][\A q \in Callbacks : ValidateProof(q) /\ cached # NoData /\ request[q].intact =>
            LET signed == request[q].signed
                near   == /\ signed.gen = cached.gen
                          /\ signed.rot - cached.rot \in {-1, 0, 1}
            IN  verdict'[q] = "accepted" <=> near]_vars

\* Once Collabora stays up, the cache ends up with its keys and keeps them,
\* although a slow fetch may store older keys over newer ones.
EventuallyCurrent == <>[]collaboraUp => <>[](cached = keys)

\* A callback that fails verification because the cached keys are not
\* Collabora's any more leads to a refresh of the cache, unless Collabora is
\* down.
FailureTriggersRefresh ==
    \A q \in Callbacks :
        verdict[q] = "unverified" /\ cached # keys
            ~> cached = keys \/ ~collaboraUp
=============================================================================
