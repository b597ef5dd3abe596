---------------------------- MODULE Reachability ----------------------------
(***************************************************************************)
(* The collabora_reachability signal: DiscoveryService.Probe, run by each  *)
(* GET /health on its healthy path (health_handler.go). FetchDiscovery     *)
(* runs outside the mutex; comparing the result with the previous state,   *)
(* storing it and logging a transition is one critical section.            *)
(*                                                                         *)
(* An operator whose name starts with Broken is a plausible bug of the     *)
(* operator it precedes. The specification does not use it: the properties *)
(* are shown to notice it when it takes that operator's place.             *)
(***************************************************************************)
EXTENDS Naturals, FiniteSets

CONSTANTS
    Probes,      \* probe slots: the health requests in flight at once
    MaxOutages,  \* bound on the outages of Collabora
    MaxRecords   \* bound on the count of records within an outage

ASSUME BoundsAssumption == MaxOutages \in Nat /\ MaxRecords \in Nat \ {0}

VARIABLES
    collaboraUp,  \* external: Collabora answers discovery requests
    outages,      \* outages so far
    reachState,   \* s.reachState
    lastSuccess,  \* s.lastSuccess is set
    pc,           \* each probe: "idle", "fetching" or "fetched"
    reachable,    \* the result of its fetch
    log,          \* the last transition record
    lostRecords   \* history: "lost" records logged within the present outage

vars == <<collaboraUp, outages, reachState, lastSuccess, pc, reachable, log, lostRecords>>

----------------------------------------------------------------------------

StartProbe(p) ==
    /\ pc[p] = "idle"
    /\ pc' = [pc EXCEPT ![p] = "fetching"]
    /\ UNCHANGED <<collaboraUp, outages, reachState, lastSuccess, reachable, log, lostRecords>>

\* The probe falls back to the cached discovery data.
BrokenOutcomes == {TRUE}

\* The probe is answered by GetDiscovery while its cached data are fresh.
BrokenCachedOutcomes == BOOLEAN

\* FetchDiscovery succeeds only while Collabora answers; it may also fail
\* because of the probe's 2-second timeout.
Outcomes == {collaboraUp, FALSE}

FetchDiscovery(p) ==
    /\ pc[p] = "fetching"
    /\ pc' = [pc EXCEPT ![p] = "fetched"]
    /\ \E ok \in Outcomes : reachable' = [reachable EXCEPT ![p] = ok]
    /\ UNCHANGED <<collaboraUp, outages, reachState, lastSuccess, log, lostRecords>>

\* The loss is logged and forgotten.
BrokenNextState(ok) == IF ok THEN "up" ELSE IF reachState = "up" THEN "up" ELSE "down"

NextState(ok) == IF ok THEN "up" ELSE "down"

\* The unknown state is a baseline: leaving it is not a transition.
Lost(ok)     == ~ok /\ reachState = "up"
Regained(ok) == ok /\ reachState = "down"

Transition(p) ==
    /\ pc[p] = "fetched"
    /\ LET ok == reachable[p] IN
        /\ reachState' = NextState(ok)
        /\ lastSuccess' = (ok \/ lastSuccess)
        /\ log' = CASE Lost(ok)     -> "lost"
                    [] Regained(ok) -> "regained"
                    [] OTHER        -> log
        /\ lostRecords' = IF Lost(ok) /\ ~collaboraUp /\ lostRecords < MaxRecords
                          THEN lostRecords + 1 ELSE lostRecords
    /\ pc' = [pc EXCEPT ![p] = "idle"]
    /\ reachable' = [reachable EXCEPT ![p] = FALSE]
    /\ UNCHANGED <<collaboraUp, outages>>

GoDown ==
    /\ collaboraUp
    /\ outages < MaxOutages
    /\ collaboraUp' = FALSE
    /\ outages' = outages + 1
    /\ lostRecords' = 0
    /\ UNCHANGED <<reachState, lastSuccess, pc, reachable, log>>

ComeBack ==
    /\ ~collaboraUp
    /\ collaboraUp' = TRUE
    /\ UNCHANGED <<outages, reachState, lastSuccess, pc, reachable, log, lostRecords>>

Init ==
    /\ collaboraUp \in BOOLEAN
    /\ outages = 0
    /\ reachState = "unknown"
    /\ lastSuccess = FALSE
    /\ pc = [p \in Probes |-> "idle"]
    /\ reachable = [p \in Probes |-> FALSE]
    /\ log = "none"
    /\ lostRecords = 0

Probe(p) == StartProbe(p) \/ FetchDiscovery(p) \/ Transition(p)

Next ==
    \/ \E p \in Probes : Probe(p)
    \/ GoDown
    \/ ComeBack

Spec == Init /\ [][Next]_vars

\* The orchestrator polls /health for ever, and every probe ends within its
\* two seconds.
FairSpec == Spec /\ \A p \in Probes : WF_vars(Probe(p))

----------------------------------------------------------------------------

\* Records alternate: no "lost" follows a "lost" and no "regained" a
\* "regained", however many probes overlap.
RecordsAlternate ==
    [][\A p \in Probes : Transition(p) =>
        /\ Lost(reachable[p]) => log # "lost"
        /\ Regained(reachable[p]) => log # "regained"]_vars

\* When Collabora stays down, the signal ends up saying so: no stale success
\* keeps the state up.
OutageNoticed == <>[]~collaboraUp => <>[](reachState = "down")

\* An outage produces at most one "lost" record, also when probes overlap: SC-003
\* and the research notes on the mutex promise it. It does not hold, see
\* LostBounded.
OneLostPerOutage == lostRecords <= 1

\* What holds instead: at most one "lost" record per probe slot. Only a success
\* that was fetched before the outage and applied after a failure can bring the
\* state back up, and each probe in flight carries at most one such success.
LostBounded == lostRecords <= Cardinality(Probes)
=============================================================================
