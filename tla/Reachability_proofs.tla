------------------------ MODULE Reachability_proofs ------------------------
(***************************************************************************)
(* Proofs about Reachability, for any number of overlapping probes.        *)
(*                                                                         *)
(* LostBounded is not inductive: how many more losses an outage can log    *)
(* depends on the successes fetched before it that are still to be applied *)
(* (Stale) and on the state they find. A loss needs a probe that failed,   *)
(* so the first one is free only while some probe holds no such success.   *)
(***************************************************************************)
EXTENDS Reachability, FiniteSetTheorems, TLAPS

\* The probes that hold a success which they have not yet applied.
Stale == {p \in Probes : pc[p] = "fetched" /\ reachable[p] = TRUE}

\* The variables that the two properties depend on have their types.
Typed ==
    /\ collaboraUp \in BOOLEAN
    /\ reachState \in {"unknown", "up", "down"}
    /\ pc \in [Probes -> {"idle", "fetching", "fetched"}]
    /\ reachable \in [Probes -> BOOLEAN]
    /\ lostRecords \in Nat

\* The last record tells the state, once one was logged.
LogTellsState ==
    /\ reachState = "up" => log # "lost"
    /\ reachState = "down" => log # "regained"
    /\ reachState = "unknown" => log = "none"

\* Within an outage, the records so far and the successes still to be applied
\* are at most as many as the probes, counting one more for a state that a
\* failed probe can bring down.
OutageBudget ==
    /\ lostRecords <= Cardinality(Probes)
    /\ collaboraUp = FALSE =>
        /\ lostRecords + Cardinality(Stale) <= Cardinality(Probes)
        /\ reachState = "up" /\ Stale # Probes
                => lostRecords + Cardinality(Stale) + 1 <= Cardinality(Probes)

----------------------------------------------------------------------------
(* The types. *)

\* Every step keeps the types.
LEMMA StepTyped == Typed /\ [Next]_vars => Typed'
  <1> SUFFICES ASSUME Typed, [Next]_vars PROVE Typed'
    OBVIOUS
  <1>1. ASSUME NEW p \in Probes, StartProbe(p) PROVE Typed'
    BY <1>1 DEF StartProbe, Typed
  <1>2. ASSUME NEW p \in Probes, FetchDiscovery(p) PROVE Typed'
    <2>1. PICK ok \in Outcomes : reachable' = [reachable EXCEPT ![p] = ok]
      BY <1>2 DEF FetchDiscovery
    <2>2. ok \in BOOLEAN
      BY Zenon DEF Outcomes, Typed
    <2>3. reachable' \in [Probes -> BOOLEAN]
      BY <2>1, <2>2 DEF Typed
    <2>4. QED
      BY <1>2, <2>3 DEF FetchDiscovery, Typed
  <1>3. ASSUME NEW p \in Probes, Transition(p) PROVE Typed'
    <2>1. reachable' \in [Probes -> BOOLEAN]
      BY <1>3 DEF Transition, Typed
    <2>2. reachState' \in {"unknown", "up", "down"}
      BY <1>3 DEF Transition, NextState
    <2>3. lostRecords' \in Nat
      BY <1>3 DEF Transition, Typed
    <2>4. QED
      BY <1>3, <2>1, <2>2, <2>3 DEF Transition, Typed
  <1>4. CASE GoDown
    BY <1>4 DEF GoDown, Typed
  <1>5. CASE ComeBack
    BY <1>5 DEF ComeBack, Typed
  <1>6. CASE UNCHANGED vars
    BY <1>6 DEF vars, Typed
  <1>7. QED
    BY <1>1, <1>2, <1>3, <1>4, <1>5, <1>6 DEF Next, Probe

----------------------------------------------------------------------------
(* The records. *)

\* Every step keeps the last record in line with the state.
LEMMA StepLog == Typed /\ LogTellsState /\ [Next]_vars => LogTellsState'
  <1> SUFFICES ASSUME Typed, LogTellsState, [Next]_vars PROVE LogTellsState'
    OBVIOUS
  <1>1. CASE reachState' = reachState /\ log' = log
    BY <1>1 DEF LogTellsState
  <1>2. ASSUME NEW p \in Probes, Transition(p) PROVE LogTellsState'
    <2>1. /\ reachState' = IF reachable[p] THEN "up" ELSE "down"
          /\ log' = CASE Lost(reachable[p])     -> "lost"
                      [] Regained(reachable[p]) -> "regained"
                      [] OTHER                  -> log
      BY <1>2 DEF Transition, NextState
    <2>2. CASE reachable[p]
      BY <2>1, <2>2 DEF LogTellsState, Lost, Regained, Typed
    <2>3. CASE ~reachable[p]
      BY <2>1, <2>3 DEF LogTellsState, Lost, Regained, Typed
    <2>4. QED
      BY <2>2, <2>3
  <1>3. QED
    BY <1>1, <1>2 DEF Next, Probe, StartProbe, FetchDiscovery, GoDown, ComeBack, vars

\* Records alternate, however many probes overlap.
THEOREM RecordsDoAlternate == Spec => RecordsAlternate
  <1>1. Init => Typed /\ LogTellsState
    BY DEF Init, Typed, LogTellsState
  <1>2. LogTellsState => [\A p \in Probes : Transition(p) =>
                              /\ Lost(reachable[p]) => log # "lost"
                              /\ Regained(reachable[p]) => log # "regained"]_vars
    BY DEF LogTellsState, Lost, Regained
  <1>3. QED
    BY <1>1, <1>2, StepTyped, StepLog, PTL DEF Spec, RecordsAlternate

----------------------------------------------------------------------------
(* The bound on the losses of one outage. *)

\* The sizes that the bound compares.
LEMMA StaleSize ==
    ASSUME IsFiniteSet(Probes), NEW S \in SUBSET Probes
    PROVE  /\ Cardinality(S) \in Nat /\ Cardinality(Probes) \in Nat
           /\ Cardinality(S) <= Cardinality(Probes)
           /\ S # Probes => Cardinality(S) + 1 <= Cardinality(Probes)
           /\ \A p \in S : Cardinality(S \ {p}) = Cardinality(S) - 1
  <1>1. IsFiniteSet(S)
    BY FS_Subset
  <1>2. S # Probes => Cardinality(S) # Cardinality(Probes)
    BY <1>1, FS_Subset
  <1>3. Cardinality(S) \in Nat /\ Cardinality(Probes) \in Nat
    BY <1>1, FS_CardinalityType
  <1>4. Cardinality(S) <= Cardinality(Probes)
    BY FS_Subset
  <1>5. \A p \in S : Cardinality(S \ {p}) = Cardinality(S) - 1
    BY <1>1, FS_RemoveElement
  <1>6. QED
    BY <1>2, <1>3, <1>4, <1>5

\* Applying a result either uses up a success or, failing, at most logs a loss.
LEMMA TransitionBudget ==
    ASSUME IsFiniteSet(Probes), Typed, OutageBudget, NEW p \in Probes, Transition(p)
    PROVE  OutageBudget'
  <1>1. /\ pc[p] = "fetched" /\ collaboraUp' = collaboraUp
        /\ pc' = [pc EXCEPT ![p] = "idle"] /\ reachable' = [reachable EXCEPT ![p] = FALSE]
        /\ reachState' = IF reachable[p] THEN "up" ELSE "down"
        /\ lostRecords' = IF Lost(reachable[p]) /\ ~collaboraUp /\ lostRecords < MaxRecords
                          THEN lostRecords + 1 ELSE lostRecords
    BY DEF Transition, NextState
  <1>2. Stale' = Stale \ {p}
    BY <1>1 DEF Stale, Typed
  <1>3. Stale \in SUBSET Probes
    BY DEF Stale
  <1>4. lostRecords \in Nat
    BY DEF Typed
  <1>5. CASE collaboraUp
    BY <1>1, <1>5 DEF OutageBudget
  <1>6. CASE ~collaboraUp /\ reachable[p]
    <2>1. p \in Stale /\ lostRecords' = lostRecords /\ collaboraUp = FALSE
      BY <1>1, <1>6 DEF Stale, Lost, Typed
    <2>2. QED
      BY <1>1, <1>2, <1>3, <1>4, <2>1, StaleSize DEF OutageBudget
  <1>7. CASE ~collaboraUp /\ ~reachable[p]
    <2>1. p \notin Stale /\ Stale' = Stale /\ Stale # Probes /\ collaboraUp = FALSE
      BY <1>2, <1>7 DEF Stale, Typed
    <2>2. lostRecords' = lostRecords \/ (lostRecords' = lostRecords + 1 /\ reachState = "up")
      BY <1>1 DEF Lost
    <2>3. reachState' = "down"
      BY <1>1, <1>7
    <2>4. QED
      BY <1>1, <1>3, <1>4, <2>1, <2>2, <2>3, StaleSize DEF OutageBudget
  <1>8. QED
    BY <1>5, <1>6, <1>7

\* Every step keeps within the budget.
LEMMA StepBudget ==
    ASSUME IsFiniteSet(Probes), Typed, OutageBudget, [Next]_vars
    PROVE  OutageBudget'
  <1>1. Stale \in SUBSET Probes
    BY DEF Stale
  <1>2. ASSUME Stale' = Stale, collaboraUp' = collaboraUp, reachState' = reachState,
               lostRecords' = lostRecords
        PROVE  OutageBudget'
    BY <1>2 DEF OutageBudget
  <1>3. ASSUME NEW p \in Probes, StartProbe(p) PROVE OutageBudget'
    <2>1. Stale' = Stale
      BY <1>3 DEF StartProbe, Stale, Typed
    <2>2. QED
      BY <1>2, <1>3, <2>1 DEF StartProbe
  <1>4. ASSUME NEW p \in Probes, FetchDiscovery(p) PROVE OutageBudget'
    <2>1. CASE collaboraUp
      BY <1>4, <2>1 DEF FetchDiscovery, OutageBudget
    <2>2. CASE collaboraUp = FALSE
      <3>1. reachable' = [reachable EXCEPT ![p] = FALSE]
        BY <1>4, <2>2 DEF FetchDiscovery, Outcomes
      <3>2. Stale' = Stale
        BY <1>4, <3>1 DEF FetchDiscovery, Stale, Typed
      <3>3. QED
        BY <1>2, <1>4, <3>2 DEF FetchDiscovery
    <2>3. QED
      BY <2>1, <2>2 DEF Typed
  <1>5. ASSUME NEW p \in Probes, Transition(p) PROVE OutageBudget'
    BY <1>5, TransitionBudget
  <1>6. CASE GoDown
    <2>1. /\ lostRecords' = 0 /\ collaboraUp' = FALSE /\ reachState' = reachState
          /\ Stale' = Stale
      BY <1>6 DEF GoDown, Stale
    <2>2. QED
      BY <1>1, <2>1, StaleSize DEF OutageBudget
  <1>7. CASE ComeBack
    BY <1>7 DEF ComeBack, OutageBudget
  <1>8. CASE UNCHANGED vars
    <2>1. Stale' = Stale
      BY <1>8 DEF vars, Stale
    <2>2. QED
      BY <1>2, <1>8, <2>1 DEF vars
  <1>9. QED
    BY <1>3, <1>4, <1>5, <1>6, <1>7, <1>8 DEF Next, Probe

\* An outage logs at most one "lost" per probe slot.
THEOREM LossesAreBounded ==
    ASSUME IsFiniteSet(Probes)
    PROVE  Spec => []LostBounded
  <1>1. Init => Typed /\ OutageBudget
    <2> SUFFICES ASSUME Init PROVE Typed /\ OutageBudget
      OBVIOUS
    <2>1. Typed
      BY DEF Init, Typed
    <2>2. Stale = {} /\ lostRecords = 0 /\ reachState = "unknown"
      BY DEF Init, Stale
    <2>3. Cardinality(Probes) \in Nat /\ Cardinality({}) = 0
      BY FS_CardinalityType, FS_EmptySet
    <2>4. QED
      BY <2>1, <2>2, <2>3 DEF OutageBudget
  <1>2. Typed /\ OutageBudget /\ [Next]_vars => Typed' /\ OutageBudget'
    BY StepTyped, StepBudget
  <1>3. OutageBudget => LostBounded
    BY DEF OutageBudget, LostBounded
  <1>4. QED
    BY <1>1, <1>2, <1>3, PTL DEF Spec
=============================================================================
