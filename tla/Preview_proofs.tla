--------------------------- MODULE Preview_proofs ---------------------------
(***************************************************************************)
(* Proofs about document previews: type correctness, the semaphores'       *)
(* accounting, that nobody waits for a job that is gone, and what the      *)
(* mapping table promises about preview files, for any number of replicas, *)
(* sources, files and requests.                                            *)
(***************************************************************************)
EXTENDS Preview, FiniteSetTheorems, TLAPS

----------------------------------------------------------------------------
(* The permits. *)

Slotted(p)   == {s \in Sources : job[p][s].pc \in HoldsSlot}
Activated(p) == {s \in Sources : job[p][s].pc \in HoldsActive}

\* Only finitely many jobs hold a permit, so that they can be counted.
FinitelyMany ==
    \A p \in Replicas : IsFiniteSet(Slotted(p)) /\ IsFiniteSet(Activated(p))

Accounted == PermitsAccounted /\ FinitelyMany

\* A job that holds a permit is counted.
LEMMA HeldIsCounted ==
    ASSUME Accounted, NEW p \in Replicas, NEW s \in Sources
    PROVE  /\ slots[p] \in Nat /\ active[p] \in Nat
           /\ job[p][s].pc \in HoldsSlot => slots[p] # 0
           /\ job[p][s].pc \in HoldsActive => active[p] # 0
  <1>1. /\ IsFiniteSet(Slotted(p)) /\ IsFiniteSet(Activated(p))
        /\ slots[p] = Cardinality(Slotted(p))
        /\ active[p] = Cardinality(Activated(p))
    BY DEF Accounted, FinitelyMany, PermitsAccounted, Slotted, Activated
  <1>2. slots[p] \in Nat /\ active[p] \in Nat
    BY <1>1, FS_CardinalityType
  <1>3. ASSUME job[p][s].pc \in HoldsSlot PROVE slots[p] # 0
    <2>1. s \in Slotted(p)
      BY <1>3 DEF Slotted
    <2>2. QED
      BY <2>1, <1>1, FS_EmptySet
  <1>4. ASSUME job[p][s].pc \in HoldsActive PROVE active[p] # 0
    <2>1. s \in Activated(p)
      BY <1>4 DEF Activated
    <2>2. QED
      BY <2>1, <1>1, FS_EmptySet
  <1>5. QED
    BY <1>2, <1>3, <1>4

\* A step that moves no job into or out of the steps that hold a permit, and
\* leaves the semaphores alone.
LEMMA PermitsKept ==
    ASSUME Accounted, UNCHANGED permits,
           \A q \in Replicas, t \in Sources :
                /\ job'[q][t].pc \in HoldsSlot <=> job[q][t].pc \in HoldsSlot
                /\ job'[q][t].pc \in HoldsActive <=> job[q][t].pc \in HoldsActive
    PROVE  Accounted'
  <1>1. \A q \in Replicas : Slotted(q)' = Slotted(q) /\ Activated(q)' = Activated(q)
    BY DEF Slotted, Activated
  <1>2. FinitelyMany'
    BY <1>1 DEF Accounted, FinitelyMany
  <1>3. PermitsAccounted'
    BY <1>1 DEF Accounted, PermitsAccounted, Slotted, Activated, permits
  <1>4. QED
    BY <1>2, <1>3 DEF Accounted

\* The count of a replica follows its own semaphores and jobs only.
LEMMA AccountedFrom ==
    ASSUME Accounted, NEW p \in Replicas,
           \A q \in Replicas \ {p} :
                /\ Slotted(q)' = Slotted(q) /\ Activated(q)' = Activated(q)
                /\ slots'[q] = slots[q] /\ active'[q] = active[q],
           IsFiniteSet(Slotted(p)'), slots'[p] = Cardinality(Slotted(p)'),
           IsFiniteSet(Activated(p)'), active'[p] = Cardinality(Activated(p)'),
           slots'[p] <= maxActiveRenders + waitingCapacity,
           active'[p] <= maxActiveRenders
    PROVE  Accounted'
  <1>1. FinitelyMany'
    BY DEF Accounted, FinitelyMany
  <1>2. ASSUME NEW q \in Replicas
        PROVE  /\ slots'[q] = Cardinality(Slotted(q)')
               /\ active'[q] = Cardinality(Activated(q)')
               /\ slots'[q] <= maxActiveRenders + waitingCapacity
               /\ active'[q] <= maxActiveRenders
    <2>1. CASE q = p
      BY <2>1
    <2>2. CASE q # p
      <3>1. /\ slots[q] = Cardinality(Slotted(q)) /\ active[q] = Cardinality(Activated(q))
            /\ slots[q] <= maxActiveRenders + waitingCapacity
            /\ active[q] <= maxActiveRenders
        BY DEF Accounted, PermitsAccounted, Slotted, Activated
      <3>2. QED
        BY <2>2, <3>1
    <2>3. QED
      BY <2>1, <2>2
  <1>3. PermitsAccounted'
    BY <1>2 DEF PermitsAccounted, Slotted, Activated
  <1>4. QED
    BY <1>1, <1>3 DEF Accounted

\* The deferred releases give back what the job held.
LEMMA ReleaseAccounted ==
    ASSUME Accounted, NEW p \in Replicas, NEW s \in Sources,
           slots \in [Replicas -> Nat], active \in [Replicas -> Nat],
           job \in [Replicas -> [Sources -> Job]],
           Release(p, s), job' = [job EXCEPT ![p][s] = NoJob]
    PROVE  Accounted' /\ slots' \in [Replicas -> Nat] /\ active' \in [Replicas -> Nat]
  <1>1. /\ IsFiniteSet(Slotted(p)) /\ IsFiniteSet(Activated(p))
        /\ slots[p] = Cardinality(Slotted(p))
        /\ active[p] = Cardinality(Activated(p))
        /\ slots[p] <= maxActiveRenders + waitingCapacity
        /\ active[p] <= maxActiveRenders
    BY DEF Accounted, FinitelyMany, PermitsAccounted, Slotted, Activated
  <1>2. /\ job[p][s].pc \in HoldsSlot => slots[p] # 0
        /\ job[p][s].pc \in HoldsActive => active[p] # 0
    BY HeldIsCounted
  <1>3. "none" \notin HoldsSlot /\ "none" \notin HoldsActive
    BY DEF HoldsSlot, HoldsActive
  <1>4. Slotted(p)' = Slotted(p) \ {s} /\ Activated(p)' = Activated(p) \ {s}
    BY <1>3 DEF Slotted, Activated, NoJob
  <1>5. slots' \in [Replicas -> Nat] /\ active' \in [Replicas -> Nat]
    <2>1. slots' \in [Replicas -> Nat]
      <3>1. CASE job[p][s].pc \in HoldsSlot
        <4>1. slots[p] - 1 \in Nat
          BY <3>1, <1>2
        <4>2. slots' = [slots EXCEPT ![p] = slots[p] - 1]
          BY <3>1 DEF Release
        <4>3. QED
          BY <4>1, <4>2
      <3>2. CASE job[p][s].pc \notin HoldsSlot
        BY <3>2 DEF Release
      <3>3. QED
        BY <3>1, <3>2
    <2>2. active' \in [Replicas -> Nat]
      <3>1. CASE job[p][s].pc \in HoldsActive
        <4>1. active[p] - 1 \in Nat
          BY <3>1, <1>2
        <4>2. active' = [active EXCEPT ![p] = active[p] - 1]
          BY <3>1 DEF Release
        <4>3. QED
          BY <4>1, <4>2
      <3>2. CASE job[p][s].pc \notin HoldsActive
        BY <3>2 DEF Release
      <3>3. QED
        BY <3>1, <3>2
    <2>3. QED
      BY <2>1, <2>2
  <1>6. /\ IsFiniteSet(Slotted(p)') /\ slots'[p] = Cardinality(Slotted(p)')
        /\ slots'[p] <= slots[p]
    <2>1. CASE job[p][s].pc \in HoldsSlot
      <3>1. s \in Slotted(p)
        BY <2>1 DEF Slotted
      <3>2. slots'[p] = slots[p] - 1
        BY <2>1 DEF Release
      <3>3. /\ IsFiniteSet(Slotted(p) \ {s})
            /\ Cardinality(Slotted(p) \ {s}) = Cardinality(Slotted(p)) - 1
        BY <3>1, <1>1, FS_RemoveElement
      <3>4. slots[p] - 1 <= slots[p]
        OBVIOUS
      <3>5. QED
        BY <3>2, <3>3, <3>4, <1>1, <1>4
    <2>2. CASE job[p][s].pc \notin HoldsSlot
      <3>1. Slotted(p) \ {s} = Slotted(p)
        BY <2>2 DEF Slotted
      <3>2. slots'[p] = slots[p]
        BY <2>2 DEF Release
      <3>3. slots[p] <= slots[p]
        OBVIOUS
      <3>4. QED
        BY <3>1, <3>2, <3>3, <1>1, <1>4
    <2>3. QED
      BY <2>1, <2>2
  <1>7. /\ IsFiniteSet(Activated(p)') /\ active'[p] = Cardinality(Activated(p)')
        /\ active'[p] <= active[p]
    <2>1. CASE job[p][s].pc \in HoldsActive
      <3>1. s \in Activated(p)
        BY <2>1 DEF Activated
      <3>2. active'[p] = active[p] - 1
        BY <2>1 DEF Release
      <3>3. /\ IsFiniteSet(Activated(p) \ {s})
            /\ Cardinality(Activated(p) \ {s}) = Cardinality(Activated(p)) - 1
        BY <3>1, <1>1, FS_RemoveElement
      <3>4. active[p] - 1 <= active[p]
        OBVIOUS
      <3>5. QED
        BY <3>2, <3>3, <3>4, <1>1, <1>4
    <2>2. CASE job[p][s].pc \notin HoldsActive
      <3>1. Activated(p) \ {s} = Activated(p)
        BY <2>2 DEF Activated
      <3>2. active'[p] = active[p]
        BY <2>2 DEF Release
      <3>3. active[p] <= active[p]
        OBVIOUS
      <3>4. QED
        BY <3>1, <3>2, <3>3, <1>1, <1>4
    <2>3. QED
      BY <2>1, <2>2
  <1>8. ASSUME NEW q \in Replicas, q # p
        PROVE  /\ Slotted(q)' = Slotted(q) /\ Activated(q)' = Activated(q)
               /\ slots'[q] = slots[q] /\ active'[q] = active[q]
    BY <1>8 DEF Slotted, Activated, Release
  <1>9. slots'[p] <= maxActiveRenders + waitingCapacity /\ active'[p] <= maxActiveRenders
    <2>1. maxActiveRenders \in Nat /\ maxActiveRenders + waitingCapacity \in Nat
      BY CapacityAssumption
    <2>2. slots'[p] \in Nat /\ active'[p] \in Nat /\ slots[p] \in Nat /\ active[p] \in Nat
      BY <1>5
    <2>3. QED
      BY <1>1, <1>6, <1>7, <2>1, <2>2
  <1>10. Accounted'
    BY <1>6, <1>7, <1>8, <1>9, AccountedFrom
  <1>11. QED
    BY <1>5, <1>10

\* A job that is admitted takes a slot.
LEMMA AdmitAccounted ==
    ASSUME Accounted, NEW p \in Replicas, NEW s \in Sources,
           slots \in [Replicas -> Nat], active \in [Replicas -> Nat],
           job \in [Replicas -> [Sources -> Job]],
           job[p][s].pc = "admit", slots[p] < maxActiveRenders + waitingCapacity,
           slots' = [slots EXCEPT ![p] = @ + 1], active' = active,
           job' = [job EXCEPT ![p][s].pc = "queue"]
    PROVE  Accounted' /\ slots' \in [Replicas -> Nat]
  <1>1. /\ IsFiniteSet(Slotted(p)) /\ IsFiniteSet(Activated(p))
        /\ slots[p] = Cardinality(Slotted(p)) /\ active[p] = Cardinality(Activated(p))
        /\ active[p] <= maxActiveRenders
    BY DEF Accounted, FinitelyMany, PermitsAccounted, Slotted, Activated
  <1>2. /\ "queue" \in HoldsSlot /\ "admit" \notin HoldsSlot
        /\ "queue" \notin HoldsActive /\ "admit" \notin HoldsActive
    BY DEF HoldsSlot, HoldsActive, JobSteps
  <1>3. /\ s \notin Slotted(p) /\ Slotted(p)' = Slotted(p) \cup {s}
        /\ Activated(p)' = Activated(p)
    BY <1>2 DEF Slotted, Activated, Job
  <1>4. /\ IsFiniteSet(Slotted(p) \cup {s})
        /\ Cardinality(Slotted(p) \cup {s}) = Cardinality(Slotted(p)) + 1
    BY <1>1, <1>3, FS_AddElement
  <1>5. slots'[p] = slots[p] + 1 /\ slots' \in [Replicas -> Nat]
    BY CapacityAssumption
  <1>6. slots'[p] <= maxActiveRenders + waitingCapacity
    <2>1. slots[p] \in Nat /\ maxActiveRenders + waitingCapacity \in Nat
      BY CapacityAssumption
    <2>2. QED
      BY <1>5, <2>1
  <1>7. ASSUME NEW q \in Replicas \ {p}
        PROVE  /\ Slotted(q)' = Slotted(q) /\ Activated(q)' = Activated(q)
               /\ slots'[q] = slots[q] /\ active'[q] = active[q]
    BY DEF Slotted, Activated
  <1>8. Accounted'
    BY <1>1, <1>3, <1>4, <1>5, <1>6, <1>7, AccountedFrom
  <1>9. QED
    BY <1>5, <1>8

\* A job that leaves the queue takes a render permit.
LEMMA ActivateAccounted ==
    ASSUME Accounted, NEW p \in Replicas, NEW s \in Sources,
           slots \in [Replicas -> Nat], active \in [Replicas -> Nat],
           job \in [Replicas -> [Sources -> Job]], Activate(p, s)
    PROVE  Accounted' /\ active' \in [Replicas -> Nat]
  <1>1. /\ IsFiniteSet(Slotted(p)) /\ IsFiniteSet(Activated(p))
        /\ slots[p] = Cardinality(Slotted(p)) /\ active[p] = Cardinality(Activated(p))
        /\ slots[p] <= maxActiveRenders + waitingCapacity
    BY DEF Accounted, FinitelyMany, PermitsAccounted, Slotted, Activated
  <1>2. /\ "queue" \in HoldsSlot /\ "lookup" \in HoldsSlot
        /\ "queue" \notin HoldsActive /\ "lookup" \in HoldsActive
    BY DEF HoldsSlot, HoldsActive, JobSteps
  <1>3. /\ job[p][s].pc = "queue" /\ active[p] < maxActiveRenders
        /\ active' = [active EXCEPT ![p] = active[p] + 1] /\ slots' = slots
        /\ job' = [job EXCEPT ![p][s].pc = "lookup"]
    BY DEF Activate
  <1>4. /\ s \notin Activated(p) /\ Activated(p)' = Activated(p) \cup {s}
        /\ Slotted(p)' = Slotted(p)
    BY <1>2, <1>3 DEF Slotted, Activated, Job
  <1>5. /\ IsFiniteSet(Activated(p) \cup {s})
        /\ Cardinality(Activated(p) \cup {s}) = Cardinality(Activated(p)) + 1
    BY <1>1, <1>4, FS_AddElement
  <1>6. active'[p] = active[p] + 1 /\ active' \in [Replicas -> Nat]
    BY <1>3
  <1>7. active'[p] <= maxActiveRenders
    <2>1. active[p] \in Nat /\ maxActiveRenders \in Nat
      BY CapacityAssumption
    <2>2. QED
      BY <1>3, <1>6, <2>1
  <1>8. ASSUME NEW q \in Replicas \ {p}
        PROVE  /\ Slotted(q)' = Slotted(q) /\ Activated(q)' = Activated(q)
               /\ slots'[q] = slots[q] /\ active'[q] = active[q]
    BY <1>3 DEF Slotted, Activated
  <1>9. Accounted'
    BY <1>1, <1>3, <1>4, <1>5, <1>6, <1>7, <1>8, AccountedFrom
  <1>10. QED
    BY <1>6, <1>9

\* A crash takes the jobs and the semaphores together.
LEMMA CrashAccounted ==
    ASSUME Accounted, NEW p \in Replicas,
           slots \in [Replicas -> Nat], active \in [Replicas -> Nat],
           job \in [Replicas -> [Sources -> Job]], Crash(p)
    PROVE  Accounted' /\ slots' \in [Replicas -> Nat] /\ active' \in [Replicas -> Nat]
  <1>1. /\ slots' = [slots EXCEPT ![p] = 0] /\ active' = [active EXCEPT ![p] = 0]
        /\ job' = [job EXCEPT ![p] = [s \in Sources |-> NoJob]]
    BY DEF Crash
  <1>2. "none" \notin HoldsSlot /\ "none" \notin HoldsActive
    BY DEF HoldsSlot, HoldsActive
  <1>3. Slotted(p)' = {} /\ Activated(p)' = {}
    BY <1>1, <1>2 DEF Slotted, Activated, NoJob
  <1>4. /\ slots' \in [Replicas -> Nat] /\ active' \in [Replicas -> Nat]
        /\ slots'[p] = 0 /\ active'[p] = 0
    BY <1>1
  <1>5. ASSUME NEW q \in Replicas \ {p}
        PROVE  /\ Slotted(q)' = Slotted(q) /\ Activated(q)' = Activated(q)
               /\ slots'[q] = slots[q] /\ active'[q] = active[q]
    BY <1>1 DEF Slotted, Activated
  <1>6. 0 <= maxActiveRenders + waitingCapacity /\ 0 <= maxActiveRenders
    BY CapacityAssumption
  <1>7. /\ IsFiniteSet(Slotted(p)') /\ Cardinality(Slotted(p)') = 0
        /\ IsFiniteSet(Activated(p)') /\ Cardinality(Activated(p)') = 0
    BY <1>3, FS_EmptySet
  <1>8. Accounted'
    BY <1>4, <1>5, <1>6, <1>7, AccountedFrom
  <1>9. QED
    BY <1>4, <1>8

----------------------------------------------------------------------------
(* Type correctness. *)

\* A request that is not answered asks for a source.
Asking == \A r \in Requests : pc[r] # "idle" => source[r] \in Sources

\* The part of TypeOK that is about requests.
ClientOK ==
    /\ Asking
    /\ pc \in [Requests -> RequestSteps]
    /\ source \in [Requests -> Sources \cup {NoSource}]
    /\ seen \in [Requests -> Versions]
    /\ entry \in [Requests -> Entry]
    /\ flight \in [Requests -> Replicas \cup {Nowhere}]
    /\ \A r \in Requests : flight[r] # Nowhere <=> pc[r] = "wait"
    /\ resp \in [Requests -> Reply]

\* What the requests, the jobs and the semaphores need.
ReplicasOK ==
    /\ slots \in [Replicas -> Nat] /\ active \in [Replicas -> Nat]
    /\ job \in [Replicas -> [Sources -> Job]]

FilesOK ==
    /\ version \in [Sources -> Versions]
    /\ deleted \subseteq Sources
    /\ rows \subseteq used
    /\ used \subseteq PreviewIDs
    /\ content \in [PreviewIDs -> Versions]

StoreOK ==
    /\ mapping \in [Sources -> Entry]
    /\ contended \subseteq Sources

Typed == FilesOK /\ StoreOK /\ ReplicasOK /\ ClientOK /\ Accounted

\* The values that an idle replica, request or source has are of their types.
LEMMA InitialValues ==
    /\ 0 \in Versions /\ 1 \in Versions
    /\ NoEntry \in Entry /\ NoJob \in Job /\ NoReply \in Reply
  <1>1. 0 \in Versions /\ 1 \in Versions
    BY MaxVersionAssumption DEF Versions
  <1>2. NoEntry \in Entry
    BY <1>1 DEF Entry, NoEntry
  <1>3. "none" \in JobSteps
    BY DEF JobSteps
  <1>4. NoJob \in Job
    BY <1>1, <1>2, <1>3 DEF NoJob, Job
  <1>5. NoReply \in Reply
    BY <1>1 DEF NoReply, Reply, Statuses
  <1>6. QED
    BY <1>1, <1>2, <1>4, <1>5

\* A reply sets its request slot free.
LEMMA AnswerTyped ==
    ASSUME ClientOK, NEW r \in Requests, NEW status \in Statuses,
           NEW etag \in Versions, NEW pixels \in Versions,
           Answer(r, status, etag, pixels)
    PROVE  ClientOK'
  <1>1. [status |-> status, etag |-> etag, pixels |-> pixels] \in Reply
    BY DEF Reply
  <1>2. "idle" \in RequestSteps
    BY DEF RequestSteps
  <1>3. /\ pc' \in [Requests -> RequestSteps]
        /\ source' \in [Requests -> Sources \cup {NoSource}]
        /\ seen' \in [Requests -> Versions]
        /\ entry' \in [Requests -> Entry]
        /\ flight' \in [Requests -> Replicas \cup {Nowhere}]
        /\ resp' \in [Requests -> Reply]
    BY <1>1, <1>2, InitialValues DEF ClientOK, Answer
  <1>4. \A q \in Requests : flight'[q] # Nowhere <=> pc'[q] = "wait"
    BY DEF ClientOK, Answer
  <1>5. Asking'
    BY DEF ClientOK, Answer, Asking
  <1>6. QED
    BY <1>3, <1>4, <1>5 DEF ClientOK

\* The end of a job frees those it answers and moves those it serves on.
LEMMA DeliverTyped ==
    ASSUME ClientOK, NEW served, NEW answered, served \cap answered = {},
           \A r \in Requests \cap served : flight[r] # Nowhere,
           Deliver(served, answered)
    PROVE  /\ Asking'
           /\ pc' \in [Requests -> RequestSteps]
           /\ source' \in [Requests -> Sources \cup {NoSource}]
           /\ flight' \in [Requests -> Replicas \cup {Nowhere}]
           /\ \A r \in Requests : flight'[r] # Nowhere <=> pc'[r] = "wait"
  <1>1. ASSUME NEW r \in Requests
        PROVE  /\ pc'[r] \in RequestSteps
               /\ flight'[r] # Nowhere <=> pc'[r] = "wait"
               /\ pc'[r] # "idle" => source'[r] \in Sources
    <2>1. CASE r \in served /\ r \notin answered
      <3>1. pc'[r] = "committed"
        BY <2>1 DEF Deliver
      <3>2. flight'[r] = Nowhere
        BY <2>1 DEF Deliver
      <3>3. source'[r] = source[r] /\ pc[r] # "idle"
        BY <2>1 DEF Deliver, ClientOK
      <3>4. QED
        BY <3>1, <3>2, <3>3 DEF RequestSteps, ClientOK, Asking
    <2>2. CASE r \notin served /\ r \in answered
      <3>1. pc'[r] = "idle"
        BY <2>2 DEF Deliver
      <3>2. flight'[r] = Nowhere
        BY <2>2 DEF Deliver
      <3>3. QED
        BY <3>1, <3>2 DEF RequestSteps
    <2>3. CASE r \notin served /\ r \notin answered
      <3>1. pc'[r] = pc[r]
        BY <2>3 DEF Deliver
      <3>2. flight'[r] = flight[r]
        BY <2>3 DEF Deliver
      <3>3. source'[r] = source[r]
        BY <2>3 DEF Deliver
      <3>4. QED
        BY <3>1, <3>2, <3>3 DEF ClientOK, Asking
    <2>4. QED
      BY <2>1, <2>2, <2>3
  <1>2. pc' = [r \in Requests |-> pc'[r]]
    BY DEF Deliver
  <1>3. pc' \in [Requests -> RequestSteps]
    BY <1>1, <1>2
  <1>4. /\ source' \in [Requests -> Sources \cup {NoSource}]
        /\ flight' \in [Requests -> Replicas \cup {Nowhere}]
    BY DEF Deliver, ClientOK
  <1>5. Asking'
    BY <1>1 DEF Asking
  <1>6. QED
    BY <1>1, <1>3, <1>4, <1>5

\* The end of a job, whatever its result, keeps the types and the permits.
LEMMA EndTyped ==
    ASSUME ReplicasOK, Accounted, NEW p \in Replicas, NEW s \in Sources,
           Release(p, s), job' = [job EXCEPT ![p][s] = NoJob]
    PROVE  ReplicasOK' /\ Accounted'
  <1>1. Accounted' /\ slots' \in [Replicas -> Nat] /\ active' \in [Replicas -> Nat]
    BY ReleaseAccounted DEF ReplicasOK
  <1>2. job' \in [Replicas -> [Sources -> Job]]
    BY InitialValues DEF ReplicasOK
  <1>3. QED
    BY <1>1, <1>2 DEF ReplicasOK

\* renderAndStore returns an error.
LEMMA GiveUpTyped ==
    ASSUME ReplicasOK, ClientOK, Accounted, NEW p \in Replicas, NEW s \in Sources,
           NEW status \in Statuses, GiveUp(p, s, status)
    PROVE  ReplicasOK' /\ ClientOK' /\ Accounted'
  <1>1. ReplicasOK' /\ Accounted'
    BY EndTyped DEF GiveUp
  <1>2. Deliver({}, Waiters(p, s))
    BY DEF GiveUp
  <1>3. /\ Asking'
        /\ pc' \in [Requests -> RequestSteps]
        /\ source' \in [Requests -> Sources \cup {NoSource}]
        /\ flight' \in [Requests -> Replicas \cup {Nowhere}]
        /\ \A r \in Requests : flight'[r] # Nowhere <=> pc'[r] = "wait"
    BY <1>2, DeliverTyped
  <1>4. [status |-> status, etag |-> 0, pixels |-> 0] \in Reply
    BY InitialValues DEF Reply
  <1>5. seen' \in [Requests -> Versions] /\ resp' \in [Requests -> Reply]
    BY <1>4, InitialValues DEF GiveUp, ClientOK
  <1>6. entry' \in [Requests -> Entry]
    BY DEF GiveUp, ClientOK
  <1>7. QED
    BY <1>1, <1>3, <1>5, <1>6 DEF ClientOK

\* renderAndStore returns an entry.
LEMMA SucceedTyped ==
    ASSUME ReplicasOK, ClientOK, Accounted, NEW p \in Replicas, NEW s \in Sources,
           NEW found \in Entry, Succeed(p, s, found)
    PROVE  ReplicasOK' /\ ClientOK' /\ Accounted'
  <1> DEFINE served   == {r \in Waiters(p, s) : ~Stale(found, r)}
             answered == Waiters(p, s) \ served
  <1>1. /\ Deliver(served, answered)
        /\ seen' = [r \in Requests |-> IF r \in answered THEN 0 ELSE seen[r]]
        /\ entry' = [r \in Requests |-> IF r \in served THEN found ELSE entry[r]]
        /\ resp' = [r \in Requests |->
                      IF r \in answered
                      THEN [status |-> "503", etag |-> 0, pixels |-> 0]
                      ELSE resp[r]]
        /\ Release(p, s)
        /\ job' = [job EXCEPT ![p][s] = NoJob]
    BY DEF Succeed
  <1>2. served \cap answered = {} /\ \A r \in Requests \cap served : flight[r] # Nowhere
    BY NowhereAssumption DEF Waiters
  <1> HIDE DEF served, answered
  <1>3. ReplicasOK' /\ Accounted'
    BY <1>1, EndTyped
  <1>4. /\ Asking'
        /\ pc' \in [Requests -> RequestSteps]
        /\ source' \in [Requests -> Sources \cup {NoSource}]
        /\ flight' \in [Requests -> Replicas \cup {Nowhere}]
        /\ \A r \in Requests : flight'[r] # Nowhere <=> pc'[r] = "wait"
    BY <1>1, <1>2, DeliverTyped
  <1>5. [status |-> "503", etag |-> 0, pixels |-> 0] \in Reply
    BY InitialValues DEF Reply, Statuses
  <1>6. seen' \in [Requests -> Versions] /\ resp' \in [Requests -> Reply]
    BY <1>1, <1>5, InitialValues DEF ClientOK
  <1>7. entry' \in [Requests -> Entry]
    BY <1>1 DEF ClientOK
  <1>8. QED
    BY <1>3, <1>4, <1>6, <1>7 DEF ClientOK

\* Every step of a job stays within JobSteps.
LEMMA JobFields ==
    ASSUME ReplicasOK, NEW p \in Replicas, NEW s \in Sources
    PROVE  /\ job[p][s] \in Job
           /\ job[p][s].pc \in JobSteps /\ job[p][s].mapped \in Entry
           /\ job[p][s].date \in Versions /\ job[p][s].pixels \in Versions
           /\ job[p][s].file \in PreviewIDs \cup {NoFile}
           /\ job[p][s].fresh \in BOOLEAN /\ job[p][s].alone \in BOOLEAN
  <1>1. job[p][s] \in Job
    BY DEF ReplicasOK
  <1>2. QED
    BY <1>1 DEF Job

\* A job that goes on keeps its permits: both steps hold them, or neither does.
LEMMA JobGoesOn ==
    ASSUME ReplicasOK, Accounted, NEW p \in Replicas, NEW s \in Sources,
           NEW j \in Job, job' = [job EXCEPT ![p][s] = j], UNCHANGED permits,
           j.pc \in HoldsSlot <=> job[p][s].pc \in HoldsSlot,
           j.pc \in HoldsActive <=> job[p][s].pc \in HoldsActive
    PROVE  ReplicasOK' /\ Accounted'
  <1>1. ReplicasOK'
    BY DEF ReplicasOK, permits
  <1>2. ASSUME NEW q \in Replicas, NEW t \in Sources
        PROVE  /\ job'[q][t].pc \in HoldsSlot <=> job[q][t].pc \in HoldsSlot
               /\ job'[q][t].pc \in HoldsActive <=> job[q][t].pc \in HoldsActive
    BY DEF ReplicasOK
  <1>3. Accounted'
    BY <1>2, PermitsKept
  <1>4. QED
    BY <1>1, <1>3

\* A step that concerns no job and no semaphore.
LEMMA NothingMoves ==
    ASSUME ReplicasOK, Accounted, UNCHANGED <<permits, job>>
    PROVE  ReplicasOK' /\ Accounted'
  <1>1. ReplicasOK'
    BY DEF ReplicasOK, permits
  <1>2. Accounted'
    BY PermitsKept
  <1>3. QED
    BY <1>1, <1>2

\* The steps of a request keep the types.
LEMMA RequestTyped ==
    ASSUME Typed, NEW r \in Requests,
           \/ \E s \in Sources, inm \in Versions : Resolve(r, s, inm)
           \/ RequestStep(r)
           \/ Abandon(r)
    PROVE  Typed'
  <1>1. FilesOK /\ StoreOK /\ ReplicasOK /\ ClientOK /\ Accounted
    BY DEF Typed
  <1>2. "500" \in Statuses /\ "200" \in Statuses /\ "404" \in Statuses /\ "304" \in Statuses
        /\ "403" \in Statuses /\ "422" \in Statuses
    BY DEF Statuses
  <1>3. UNCHANGED <<files, store>>
    BY DEF Resolve, RequestStep, Abandon, LookupMapping, ReadCached, JoinFlight, ReadCommitted
  <1>4. FilesOK' /\ StoreOK'
    BY <1>1, <1>3 DEF FilesOK, StoreOK, files, store
  <1>5. ASSUME NEW s \in Sources, NEW inm \in Versions, Resolve(r, s, inm)
        PROVE  ReplicasOK' /\ Accounted' /\ ClientOK'
    <2>1. ReplicasOK' /\ Accounted'
      BY <1>1, <1>5, NothingMoves DEF Resolve
    <2>2. version[s] \in Versions
      BY <1>1 DEF FilesOK
    <2>3. CASE \E status \in {"403", "422", "500"} : Answer(r, status, 0, 0)
      BY <2>1, <2>3, <1>1, <1>2, AnswerTyped, InitialValues
    <2>4. CASE Answer(r, "404", 0, 0)
      BY <2>1, <2>4, <1>1, <1>2, AnswerTyped, InitialValues
    <2>5. CASE Answer(r, "304", version[s], 0)
      BY <2>1, <2>5, <2>2, <1>1, <1>2, AnswerTyped, InitialValues
    <2>6. CASE /\ pc' = [pc EXCEPT ![r] = "mapping"]
               /\ source' = [source EXCEPT ![r] = s]
               /\ seen' = [seen EXCEPT ![r] = version[s]]
               /\ resp' = [resp EXCEPT ![r] = NoReply]
               /\ UNCHANGED <<entry, flight>>
      <3>1. pc[r] = "idle"
        BY <1>5 DEF Resolve
      <3>2. /\ pc' \in [Requests -> RequestSteps]
            /\ source' \in [Requests -> Sources \cup {NoSource}]
            /\ seen' \in [Requests -> Versions]
            /\ entry' \in [Requests -> Entry]
            /\ flight' \in [Requests -> Replicas \cup {Nowhere}]
            /\ resp' \in [Requests -> Reply]
        BY <2>2, <2>6, <1>1, InitialValues DEF ClientOK, RequestSteps
      <3>3. \A q \in Requests : flight'[q] # Nowhere <=> pc'[q] = "wait"
        BY <2>6, <3>1, <1>1 DEF ClientOK
      <3>4. Asking'
        BY <2>6, <1>1 DEF ClientOK, Asking
      <3>5. ClientOK'
        BY <3>2, <3>3, <3>4 DEF ClientOK
      <3>6. QED
        BY <2>1, <3>5
    <2>7. QED
      BY <1>5, <2>1, <2>3, <2>4, <2>5, <2>6 DEF Resolve
  <1>6. ASSUME LookupMapping(r) PROVE ReplicasOK' /\ Accounted' /\ ClientOK'
    <2>1. ReplicasOK' /\ Accounted'
      BY <1>1, <1>6, NothingMoves DEF LookupMapping
    <2>2. PICK hit \in BOOLEAN :
            /\ hit => mapping[source[r]] # NoEntry /\ mapping[source[r]].date = seen[r]
            /\ pc' = [pc EXCEPT ![r] = IF hit THEN "cached" ELSE "miss"]
            /\ entry' = [entry EXCEPT ![r] = IF hit THEN mapping[source[r]] ELSE NoEntry]
      BY <1>6 DEF LookupMapping
    <2>3. pc' = [pc EXCEPT ![r] = "cached"] \/ pc' = [pc EXCEPT ![r] = "miss"]
      BY <2>2
    <2>4. pc[r] = "mapping" /\ UNCHANGED <<source, seen, flight, resp>>
      BY <1>6 DEF LookupMapping
    <2>5. pc' \in [Requests -> RequestSteps]
      BY <2>3, <1>1 DEF ClientOK, RequestSteps
    <2>6. \A q \in Requests : flight'[q] # Nowhere <=> pc'[q] = "wait"
      BY <2>3, <2>4, <1>1 DEF ClientOK
    <2>7. entry' \in [Requests -> Entry]
      <3>1. mapping[source[r]] \in Entry
        BY <2>4, <1>1 DEF ClientOK, Asking, StoreOK
      <3>2. entry' = [entry EXCEPT ![r] = mapping[source[r]]] \/ entry' = [entry EXCEPT ![r] = NoEntry]
        BY <2>2
      <3>3. QED
        BY <3>1, <3>2, <1>1, InitialValues DEF ClientOK
    <2>8. Asking'
      BY <2>3, <2>4, <1>1 DEF ClientOK, Asking
    <2>9. QED
      BY <2>1, <2>4, <2>5, <2>6, <2>7, <2>8, <1>1 DEF ClientOK
  <1>7. ASSUME ReadCached(r) PROVE ReplicasOK' /\ Accounted' /\ ClientOK'
    <2>1. ReplicasOK' /\ Accounted'
      BY <1>1, <1>7, NothingMoves DEF ReadCached
    <2>2. CASE Readable(entry[r].file)
      <3>1. Answer(r, "200", seen[r], content[entry[r].file])
        BY <1>7, <2>2 DEF ReadCached
      <3>2. seen[r] \in Versions /\ content[entry[r].file] \in Versions
        BY <2>2, <1>1 DEF ClientOK, FilesOK, Readable
      <3>3. QED
        BY <2>1, <3>1, <3>2, <1>1, <1>2, AnswerTyped
    <2>3. CASE ~Readable(entry[r].file)
      <3>1. /\ pc[r] = "cached"
            /\ pc' = [pc EXCEPT ![r] = "miss"] /\ entry' = [entry EXCEPT ![r] = NoEntry]
            /\ UNCHANGED <<source, seen, flight, resp>>
        BY <1>7, <2>3 DEF ReadCached
      <3>2. pc' \in [Requests -> RequestSteps] /\ entry' \in [Requests -> Entry]
        BY <3>1, <1>1, InitialValues DEF ClientOK, RequestSteps
      <3>3. \A q \in Requests : flight'[q] # Nowhere <=> pc'[q] = "wait"
        BY <3>1, <1>1 DEF ClientOK
      <3>4. Asking'
        BY <3>1, <1>1 DEF ClientOK, Asking
      <3>5. QED
        BY <2>1, <3>1, <3>2, <3>3, <3>4, <1>1 DEF ClientOK
    <2>4. QED
      BY <2>2, <2>3
  <1>8. ASSUME NEW p \in Replicas, JoinFlight(r, p) PROVE ReplicasOK' /\ Accounted' /\ ClientOK'
    <2>1. /\ pc[r] = "miss" /\ source[r] \in Sources
          /\ pc' = [pc EXCEPT ![r] = "wait"] /\ flight' = [flight EXCEPT ![r] = p]
          /\ UNCHANGED <<source, seen, entry, resp, permits>>
      BY <1>8, <1>1 DEF JoinFlight, ClientOK, Asking
    <2>2. ReplicasOK' /\ Accounted'
      <3>1. CASE job[p][source[r]].pc = "none"
        <4> DEFINE j == [job[p][source[r]] EXCEPT !.pc = "admit"]
        <4>1. job' = [job EXCEPT ![p][source[r]] = j]
          BY <1>8, <3>1 DEF JoinFlight
        <4>2. job[p][source[r]] \in Job
          BY <2>1, <1>1 DEF ReplicasOK
        <4>3. "admit" \in JobSteps
          BY DEF JobSteps
        <4>4. j \in Job /\ j.pc = "admit"
          BY <4>2, <4>3 DEF Job
        <4>5. /\ "none" \notin HoldsSlot /\ "none" \notin HoldsActive
              /\ "admit" \notin HoldsSlot /\ "admit" \notin HoldsActive
          BY DEF HoldsSlot, HoldsActive
        <4> HIDE DEF j
        <4>6. QED
          BY <4>1, <4>4, <4>5, <3>1, <2>1, <1>1, JobGoesOn
      <3>2. CASE job[p][source[r]].pc # "none"
        BY <3>2, <2>1, <1>1, <1>8, NothingMoves DEF JoinFlight
      <3>3. QED
        BY <3>1, <3>2
    <2>3. pc' \in [Requests -> RequestSteps] /\ flight' \in [Requests -> Replicas \cup {Nowhere}]
      BY <2>1, <1>1 DEF ClientOK, RequestSteps
    <2>4. \A q \in Requests : flight'[q] # Nowhere <=> pc'[q] = "wait"
      BY <2>1, <1>1, NowhereAssumption DEF ClientOK
    <2>5. Asking'
      BY <2>1, <1>1 DEF ClientOK, Asking
    <2>6. QED
      BY <2>1, <2>2, <2>3, <2>4, <2>5, <1>1 DEF ClientOK
  <1>9. ASSUME ReadCommitted(r) PROVE ReplicasOK' /\ Accounted' /\ ClientOK'
    <2>1. ReplicasOK' /\ Accounted'
      BY <1>1, <1>9, NothingMoves DEF ReadCommitted
    <2>2. CASE Readable(entry[r].file)
      <3>1. Answer(r, "200", entry[r].date, content[entry[r].file])
        BY <1>9, <2>2 DEF ReadCommitted
      <3>2. entry[r].date \in Versions /\ content[entry[r].file] \in Versions
        BY <2>2, <1>1 DEF ClientOK, FilesOK, Readable, Entry
      <3>3. QED
        BY <2>1, <3>1, <3>2, <1>1, <1>2, AnswerTyped
    <2>3. CASE ~Readable(entry[r].file)
      <3>1. Answer(r, "500", 0, 0)
        BY <1>9, <2>3 DEF ReadCommitted
      <3>2. QED
        BY <2>1, <3>1, <1>1, <1>2, AnswerTyped, InitialValues
    <2>4. QED
      BY <2>2, <2>3
  <1>10. ASSUME Abandon(r) PROVE ReplicasOK' /\ Accounted' /\ ClientOK'
    <2>1. ReplicasOK' /\ Accounted'
      BY <1>1, <1>10, NothingMoves DEF Abandon
    <2>2. ClientOK'
      BY <1>1, <1>2, <1>10, AnswerTyped, InitialValues DEF Abandon
    <2>3. QED
      BY <2>1, <2>2
  <1>11. ReplicasOK' /\ Accounted' /\ ClientOK'
    BY <1>5, <1>6, <1>7, <1>8, <1>9, <1>10 DEF RequestStep
  <1>12. QED
    BY <1>4, <1>11 DEF Typed

\* The steps of a job that keep its permits and tell nobody.
LEMMA GoesOnTyped ==
    ASSUME Typed, NEW p \in Replicas, NEW s \in Sources, NEW j \in Job,
           job[p][s].pc \in HoldsActive, j.pc \in HoldsActive,
           job' = [job EXCEPT ![p][s] = j], UNCHANGED <<permits, client>>
    PROVE  ReplicasOK' /\ ClientOK' /\ Accounted'
  <1>1. job[p][s].pc \in HoldsSlot /\ j.pc \in HoldsSlot
    BY DEF HoldsActive
  <1>2. ReplicasOK' /\ Accounted'
    BY <1>1, JobGoesOn DEF Typed
  <1>3. ClientOK'
    BY DEF Typed, ClientOK, Asking, client
  <1>4. QED
    BY <1>2, <1>3

----------------------------------------------------------------------------
(* The lookup touches the jobs of several replicas. *)

\* LookupSource when the source exists: the job takes the source's date, and
\* the jobs it overlaps with are marked.
LEMMA LookupEffect ==
    ASSUME ReplicasOK, version \in [Sources -> Versions],
           NEW p \in Replicas, NEW s \in Sources, LookupSource(p, s), s \notin deleted
    PROVE  /\ job' \in [Replicas -> [Sources -> Job]]
           /\ job'[p][s] = [job[p][s] EXCEPT !.pc = "target", !.date = version[s],
                                             !.alone = (Rivals(p, s) = {})]
           /\ \A q \in Rivals(p, s) : job'[q][s] = [job[q][s] EXCEPT !.alone = FALSE]
           /\ \A q \in Replicas, t \in Sources :
                t # s \/ (q # p /\ q \notin Rivals(p, s)) => job'[q][t] = job[q][t]
           /\ contended' = IF Rivals(p, s) = {} THEN contended ELSE contended \cup {s}
           /\ UNCHANGED <<files, mapping, permits, client>>
  <1>1. /\ job' = [q \in Replicas |->
                CASE q = p ->
                        [job[p] EXCEPT ![s].pc = "target", ![s].date = version[s],
                                       ![s].alone = (Rivals(p, s) = {})]
                  [] q \in Rivals(p, s) -> [job[q] EXCEPT ![s].alone = FALSE]
                  [] OTHER -> job[q]]
        /\ contended' = IF Rivals(p, s) = {} THEN contended ELSE contended \cup {s}
        /\ UNCHANGED <<files, mapping, permits, client>>
    BY DEF LookupSource
  <1>2. p \notin Rivals(p, s) /\ Rivals(p, s) \subseteq Replicas
    BY DEF Rivals
  <1>3. job'[p] = [job[p] EXCEPT ![s].pc = "target", ![s].date = version[s],
                                 ![s].alone = (Rivals(p, s) = {})]
    BY <1>1, <1>2
  <1>4. \A q \in Rivals(p, s) : job'[q] = [job[q] EXCEPT ![s].alone = FALSE]
    BY <1>1, <1>2
  <1>5. \A q \in Replicas : q # p /\ q \notin Rivals(p, s) => job'[q] = job[q]
    BY <1>1
  <1>6. ASSUME NEW q \in Replicas PROVE job[q] \in [Sources -> Job] /\ job[q][s] \in Job
    BY DEF ReplicasOK
  <1>7. /\ job'[p] \in [Sources -> Job]
        /\ job'[p][s] = [job[p][s] EXCEPT !.pc = "target", !.date = version[s],
                                          !.alone = (Rivals(p, s) = {})]
        /\ \A t \in Sources \ {s} : job'[p][t] = job[p][t]
    <2> DEFINE j == [job[p][s] EXCEPT !.pc = "target", !.date = version[s],
                                      !.alone = (Rivals(p, s) = {})]
    <2>1. job'[p] = [job[p] EXCEPT ![s] = j]
      BY <1>3, <1>6
    <2>2. (Rivals(p, s) = {}) \in BOOLEAN /\ "target" \in JobSteps
      BY DEF JobSteps
    <2>3. version[s] \in Versions
      OBVIOUS
    <2>4. j \in Job
      BY <1>6, <2>2, <2>3, Zenon DEF Job
    <2> HIDE DEF j
    <2>5. job'[p] \in [Sources -> Job] /\ job'[p][s] = j /\ \A t \in Sources \ {s} : job'[p][t] = job[p][t]
      BY <2>1, <2>4, <1>6
    <2>6. QED
      BY <2>5 DEF j
  <1>8. ASSUME NEW q \in Rivals(p, s)
        PROVE  /\ job'[q] \in [Sources -> Job]
               /\ job'[q][s] = [job[q][s] EXCEPT !.alone = FALSE]
               /\ \A t \in Sources \ {s} : job'[q][t] = job[q][t]
    <2>1. job[q] \in [Sources -> Job] /\ job[q][s] \in Job
      BY <1>2, <1>6
    <2>2. [job[q][s] EXCEPT !.alone = FALSE] \in Job
      BY <2>1 DEF Job
    <2>3. QED
      BY <1>4, <2>1, <2>2
  <1>9. \A q \in Replicas : job'[q] \in [Sources -> Job]
    BY <1>5, <1>6, <1>7, <1>8
  <1>10. job' = [q \in Replicas |-> job'[q]]
    BY <1>1
  <1>11. job' \in [Replicas -> [Sources -> Job]]
    BY <1>9, <1>10
  <1>12. \A q \in Replicas, t \in Sources :
            t # s \/ (q # p /\ q \notin Rivals(p, s)) => job'[q][t] = job[q][t]
    BY <1>5, <1>7, <1>8
  <1>13. QED
    BY <1>1, <1>7, <1>8, <1>11, <1>12

\* writeTarget ends in one of three ways.
LEMMA TargetEffect ==
    ASSUME ReplicasOK, NEW p \in Replicas, NEW s \in Sources, FindTarget(p, s)
    PROVE  \E x \in {"read", "recheck", "meta"} :
               /\ job' = [job EXCEPT ![p][s] = [job[p][s] EXCEPT !.pc = x, !.mapped = mapping[s]]]
               /\ x = "read" => mapping[s] = NoEntry
               /\ x = "recheck" => mapping[s].date = job[p][s].date
  <1> DEFINE x == CASE mapping[s] = NoEntry             -> "read"
                    [] mapping[s].date = job[p][s].date -> "recheck"
                    [] OTHER                            -> "meta"
  <1>1. /\ x \in {"read", "recheck", "meta"}
        /\ x = "read" => mapping[s] = NoEntry
        /\ x = "recheck" => mapping[s].date = job[p][s].date
    OBVIOUS
  <1>2. job' = [job EXCEPT ![p][s].pc = x, ![p][s].mapped = mapping[s]]
    BY DEF FindTarget
  <1> HIDE DEF x
  <1>3. job \in [Replicas -> [Sources -> Job]] /\ job[p][s] \in Job
    BY DEF ReplicasOK
  <1>4. job' = [job EXCEPT ![p][s] = [job[p][s] EXCEPT !.pc = x, !.mapped = mapping[s]]]
    BY <1>2, <1>3
  <1>5. QED
    BY <1>1, <1>4

\* The steps of a job keep the types.
LEMMA JobTyped ==
    ASSUME Typed, NEW p \in Replicas, NEW s \in Sources, JobStep(p, s)
    PROVE  Typed'
  <1>1. FilesOK /\ StoreOK /\ ReplicasOK /\ ClientOK /\ Accounted
    BY DEF Typed
  <1>2. /\ "404" \in Statuses /\ "500" \in Statuses /\ "502" \in Statuses /\ "503" \in Statuses
    BY DEF Statuses
  <1>3. ASSUME NEW x \in HoldsActive
        PROVE  x \in JobSteps
    BY DEF HoldsActive, HoldsSlot
  <1>4. /\ "lookup" \in HoldsActive /\ "target" \in HoldsActive /\ "recheck" \in HoldsActive
        /\ "meta" \in HoldsActive /\ "read" \in HoldsActive /\ "render" \in HoldsActive
        /\ "write" \in HoldsActive /\ "create" \in HoldsActive /\ "commit" \in HoldsActive
        /\ "cleanup" \in HoldsActive
    BY DEF HoldsActive, HoldsSlot, JobSteps
  <1>5. /\ job[p][s] \in Job
        /\ job[p][s].pc \in JobSteps /\ job[p][s].mapped \in Entry
        /\ job[p][s].date \in Versions /\ job[p][s].pixels \in Versions
        /\ job[p][s].file \in PreviewIDs \cup {NoFile}
        /\ job[p][s].fresh \in BOOLEAN /\ job[p][s].alone \in BOOLEAN
    BY <1>1, JobFields
  <1>6. UNCHANGED files => FilesOK'
    BY <1>1 DEF FilesOK, files
  <1>7. UNCHANGED store => StoreOK'
    BY <1>1 DEF StoreOK, store
  <1>8. \A status \in Statuses : GiveUp(p, s, status) => ReplicasOK' /\ ClientOK' /\ Accounted'
    BY <1>1, GiveUpTyped
  <1>9. Committed(p, s) \in Entry
    BY <1>5 DEF Committed, Entry
  <1>10. CASE Admit(p, s)
    <2>1. CASE slots[p] < maxActiveRenders + waitingCapacity
      <3>1. /\ job[p][s].pc = "admit" /\ active' = active
            /\ slots' = [slots EXCEPT ![p] = @ + 1]
            /\ job' = [job EXCEPT ![p][s].pc = "queue"]
            /\ UNCHANGED client
        BY <1>10, <2>1 DEF Admit
      <3>2. Accounted' /\ slots' \in [Replicas -> Nat]
        BY <2>1, <3>1, <1>1, AdmitAccounted DEF ReplicasOK
      <3>3. "queue" \in JobSteps
        BY DEF JobSteps
      <3>4. [job[p][s] EXCEPT !.pc = "queue"] \in Job
        BY <3>3, <1>5 DEF Job
      <3>5. job' \in [Replicas -> [Sources -> Job]]
        BY <3>1, <3>4, <1>1 DEF ReplicasOK
      <3>6. ReplicasOK'
        BY <3>1, <3>2, <3>5, <1>1 DEF ReplicasOK
      <3>7. ClientOK'
        BY <3>1, <1>1 DEF ClientOK, Asking, client
      <3>8. QED
        BY <3>2, <3>6, <3>7, <1>6, <1>7, <1>10 DEF Admit, Typed
    <2>2. CASE ~(slots[p] < maxActiveRenders + waitingCapacity)
      BY <2>2, <1>2, <1>6, <1>7, <1>8, <1>10 DEF Admit, Typed
    <2>3. QED
      BY <2>1, <2>2
  <1>11. CASE Activate(p, s)
    <2>1. Accounted' /\ active' \in [Replicas -> Nat]
      BY <1>1, <1>11, ActivateAccounted DEF ReplicasOK
    <2>2. job' = [job EXCEPT ![p][s].pc = "lookup"] /\ slots' = slots /\ UNCHANGED client
      BY <1>11 DEF Activate
    <2>3. [job[p][s] EXCEPT !.pc = "lookup"] \in Job
      BY <1>3, <1>4, <1>5 DEF Job
    <2>4. job' \in [Replicas -> [Sources -> Job]]
      BY <2>2, <2>3, <1>1 DEF ReplicasOK
    <2>5. ReplicasOK'
      BY <2>1, <2>2, <2>4, <1>1 DEF ReplicasOK
    <2>6. ClientOK'
      BY <2>2, <1>1 DEF ClientOK, Asking, client
    <2>7. QED
      BY <2>1, <2>5, <2>6, <1>6, <1>7, <1>11 DEF Activate, Typed
  <1>12. CASE QueueTimeout(p, s)
    BY <1>2, <1>6, <1>7, <1>8, <1>12 DEF QueueTimeout, Typed
  <1>13. CASE LookupSource(p, s)
    <2>1. CASE s \in deleted
      <3>1. GiveUp(p, s, "404") /\ UNCHANGED <<files, store>>
        BY <1>13, <2>1 DEF LookupSource, store
      <3>2. QED
        BY <3>1, <1>2, <1>6, <1>7, <1>8 DEF Typed
    <2>2. CASE s \notin deleted
      <3>1. version \in [Sources -> Versions]
        BY <1>1 DEF FilesOK
      <3>2. /\ job' \in [Replicas -> [Sources -> Job]]
            /\ job'[p][s] = [job[p][s] EXCEPT !.pc = "target", !.date = version[s],
                                              !.alone = (Rivals(p, s) = {})]
            /\ \A q \in Rivals(p, s) : job'[q][s] = [job[q][s] EXCEPT !.alone = FALSE]
            /\ \A q \in Replicas, t \in Sources :
                 t # s \/ (q # p /\ q \notin Rivals(p, s)) => job'[q][t] = job[q][t]
            /\ contended' = IF Rivals(p, s) = {} THEN contended ELSE contended \cup {s}
            /\ UNCHANGED <<files, mapping, permits, client>>
        BY <1>1, <1>13, <2>2, <3>1, LookupEffect
      <3>3. job[p][s].pc = "lookup" /\ job'[p][s].pc = "target"
        BY <3>2, <1>5, <1>13 DEF LookupSource, Job
      <3>4. "lookup" \in HoldsSlot /\ "target" \in HoldsSlot
        BY DEF HoldsSlot, JobSteps
      <3>5. ASSUME NEW q \in Replicas, NEW t \in Sources
            PROVE  (q = p /\ t = s) \/ job'[q][t].pc = job[q][t].pc
        <4>1. job[q][t] \in Job
          BY <1>1, JobFields
        <4>2. CASE t = s /\ q \in Rivals(p, s)
          BY <3>2, <4>1, <4>2 DEF Job
        <4>3. CASE t # s \/ (q # p /\ q \notin Rivals(p, s))
          BY <3>2, <4>3
        <4>4. QED
          BY <4>2, <4>3
      <3>6. ASSUME NEW q \in Replicas, NEW t \in Sources
            PROVE  /\ job'[q][t].pc \in HoldsSlot <=> job[q][t].pc \in HoldsSlot
                   /\ job'[q][t].pc \in HoldsActive <=> job[q][t].pc \in HoldsActive
        BY <3>3, <3>4, <3>5, <1>4
      <3>7. Accounted'
        BY <3>2, <3>6, <1>1, PermitsKept
      <3>8. ReplicasOK'
        BY <3>2, <1>1 DEF ReplicasOK, permits
      <3>9. ClientOK'
        BY <3>2, <1>1 DEF ClientOK, Asking, client
      <3>10. StoreOK'
        BY <3>2, <1>1 DEF StoreOK
      <3>11. QED
        BY <3>2, <3>7, <3>8, <3>9, <3>10, <1>6 DEF Typed
    <2>3. QED
      BY <2>1, <2>2
  <1>14. CASE FindTarget(p, s)
    <2>1. PICK x \in {"read", "recheck", "meta"} :
            /\ job' = [job EXCEPT ![p][s] = [job[p][s] EXCEPT !.pc = x, !.mapped = mapping[s]]]
            /\ x = "read" => mapping[s] = NoEntry
            /\ x = "recheck" => mapping[s].date = job[p][s].date
      BY <1>1, <1>14, TargetEffect
    <2>2. mapping[s] \in Entry /\ x \in HoldsActive
      BY <1>1, <1>4 DEF StoreOK
    <2>3. [job[p][s] EXCEPT !.pc = x, !.mapped = mapping[s]] \in Job
      BY <2>2, <1>3, <1>5 DEF Job
    <2>4. [job[p][s] EXCEPT !.pc = x, !.mapped = mapping[s]].pc = x
      BY <1>5 DEF Job
    <2>5. job[p][s].pc \in HoldsActive
      BY <1>4, <1>14 DEF FindTarget
    <2>6. UNCHANGED <<files, store, permits, client>>
      BY <1>14 DEF FindTarget
    <2>7. QED
      BY <2>1, <2>2, <2>3, <2>4, <2>5, <2>6, <1>6, <1>7, GoesOnTyped DEF Typed
  <1>15. CASE Recheck(p, s)
    <2>1. CASE Readable(job[p][s].mapped.file)
      <3>1. Succeed(p, s, job[p][s].mapped) /\ UNCHANGED <<files, store>>
        BY <1>15, <2>1 DEF Recheck
      <3>2. QED
        BY <3>1, <1>1, <1>5, <1>6, <1>7, SucceedTyped DEF Typed
    <2>2. CASE ~Readable(job[p][s].mapped.file)
      <3> DEFINE j == [job[p][s] EXCEPT !.pc = "meta"]
      <3>1. /\ job' = [job EXCEPT ![p][s] = j]
            /\ UNCHANGED <<files, store, permits, client>>
        BY <1>15, <2>2 DEF Recheck
      <3>2. j \in Job /\ j.pc = "meta" /\ job[p][s].pc = "recheck"
        BY <1>3, <1>4, <1>5, <1>15 DEF Job, Recheck
      <3> HIDE DEF j
      <3>3. QED
        BY <3>1, <3>2, <1>4, <1>6, <1>7, GoesOnTyped DEF Typed
    <2>3. QED
      BY <2>1, <2>2
  <1>16. CASE LookupMeta(p, s)
    <2> DEFINE f == job[p][s].mapped.file
               g == IF RowExists(f) THEN f ELSE NoFile
               j == [job[p][s] EXCEPT !.pc = "read", !.file = g]
    <2>1. /\ job' = [job EXCEPT ![p][s] = j]
          /\ UNCHANGED <<files, store, permits, client>>
      BY <1>1, <1>16 DEF LookupMeta, ReplicasOK
    <2>2. g \in PreviewIDs \cup {NoFile}
      BY <1>5 DEF Entry
    <2> HIDE DEF g
    <2>3. j \in Job /\ j.pc = "read" /\ job[p][s].pc = "meta"
      BY <2>2, <1>3, <1>4, <1>5, <1>16 DEF Job, LookupMeta
    <2> HIDE DEF j
    <2>4. QED
      BY <2>1, <2>3, <1>4, <1>6, <1>7, GoesOnTyped DEF Typed
  <1>17. CASE ReadSource(p, s)
    <2> DEFINE j == [job[p][s] EXCEPT !.pc = "render", !.pixels = version[s]]
    <2>1. /\ job' = [job EXCEPT ![p][s] = j]
          /\ UNCHANGED <<files, store, permits, client>>
      BY <1>1, <1>17 DEF ReadSource, ReplicasOK
    <2>2. version[s] \in Versions
      BY <1>1 DEF FilesOK
    <2>3. j \in Job /\ j.pc = "render" /\ job[p][s].pc = "read"
      BY <2>2, <1>3, <1>4, <1>5, <1>17 DEF Job, ReadSource
    <2> HIDE DEF j
    <2>4. QED
      BY <2>1, <2>3, <1>4, <1>6, <1>7, GoesOnTyped DEF Typed
  <1>18. CASE Render(p, s)
    <2> DEFINE x == IF job[p][s].file = NoFile THEN "create" ELSE "write"
               j == [job[p][s] EXCEPT !.pc = x]
    <2>1. /\ job' = [job EXCEPT ![p][s] = j]
          /\ UNCHANGED <<files, store, permits, client>>
      BY <1>1, <1>18 DEF Render, ReplicasOK
    <2>2. x \in HoldsActive
      BY <1>4
    <2> HIDE DEF x
    <2>3. j \in Job /\ j.pc \in HoldsActive /\ job[p][s].pc = "render"
      BY <2>2, <1>3, <1>5, <1>18 DEF Job, Render
    <2> HIDE DEF j
    <2>4. QED
      BY <2>1, <2>3, <1>4, <1>6, <1>7, GoesOnTyped DEF Typed
  <1>19. CASE WriteFile(p, s)
    <2>1. /\ job[p][s].pc = "write" /\ job[p][s].file \in rows
          /\ content' = [content EXCEPT ![job[p][s].file] = job[p][s].pixels]
          /\ UNCHANGED <<version, deleted, rows, used, store>>
      BY <1>19 DEF WriteFile
    <2>2. FilesOK'
      BY <2>1, <1>1, <1>5 DEF FilesOK
    <2>3. CASE job' = [job EXCEPT ![p][s].pc = "commit"] /\ UNCHANGED <<permits, client>>
      <3> DEFINE j == [job[p][s] EXCEPT !.pc = "commit"]
      <3>1. job' = [job EXCEPT ![p][s] = j] /\ UNCHANGED <<permits, client>>
        BY <2>3
      <3>2. j \in Job /\ j.pc = "commit"
        BY <1>3, <1>4, <1>5 DEF Job
      <3> HIDE DEF j
      <3>3. QED
        BY <2>1, <2>2, <3>1, <3>2, <1>4, <1>7, GoesOnTyped DEF Typed
    <2>4. CASE GiveUp(p, s, "502")
      BY <2>1, <2>2, <2>4, <1>2, <1>7, <1>8 DEF Typed
    <2>5. QED
      BY <2>3, <2>4, <1>19 DEF WriteFile
  <1>20. CASE CreatePreviewFile(p, s)
    <2>1. PICK f \in PreviewIDs \ used :
            /\ rows' = rows \cup {f}
            /\ used' = used \cup {f}
            /\ content' = [content EXCEPT ![f] = job[p][s].pixels]
            /\ \/ /\ job' = [job EXCEPT ![p][s].pc = "commit", ![p][s].file = f,
                                         ![p][s].fresh = TRUE]
                  /\ UNCHANGED <<permits, client>>
               \/ GiveUp(p, s, "502")
      BY <1>20 DEF CreatePreviewFile
    <2>2. job[p][s].pc = "create" /\ UNCHANGED <<version, deleted, store>>
      BY <1>20 DEF CreatePreviewFile
    <2>3. FilesOK'
      BY <2>1, <2>2, <1>1, <1>5 DEF FilesOK
    <2>4. CASE /\ job' = [job EXCEPT ![p][s].pc = "commit", ![p][s].file = f,
                                     ![p][s].fresh = TRUE]
               /\ UNCHANGED <<permits, client>>
      <3> DEFINE j == [job[p][s] EXCEPT !.pc = "commit", !.file = f, !.fresh = TRUE]
      <3>1. job' = [job EXCEPT ![p][s] = j] /\ UNCHANGED <<permits, client>>
        BY <2>4, <1>1 DEF ReplicasOK
      <3>2. j \in Job /\ j.pc = "commit"
        BY <1>3, <1>4, <1>5 DEF Job
      <3> HIDE DEF j
      <3>3. QED
        BY <2>2, <2>3, <3>1, <3>2, <1>4, <1>7, GoesOnTyped DEF Typed
    <2>5. CASE GiveUp(p, s, "502")
      BY <2>2, <2>3, <2>5, <1>2, <1>7, <1>8 DEF Typed
    <2>6. QED
      BY <2>1, <2>4, <2>5
  <1>21. CASE Upsert(p, s)
    <2>1. /\ mapping' = [mapping EXCEPT ![s] = Committed(p, s)]
          /\ contended' = IF job[p][s].alone THEN contended \ {s} ELSE contended
          /\ Succeed(p, s, Committed(p, s))
          /\ UNCHANGED files
      BY <1>21 DEF Upsert
    <2>2. StoreOK'
      BY <2>1, <1>1, <1>9 DEF StoreOK
    <2>3. ReplicasOK' /\ ClientOK' /\ Accounted'
      BY <2>1, <1>1, <1>9, SucceedTyped
    <2>4. QED
      BY <2>1, <2>2, <2>3, <1>6 DEF Typed
  <1>22. CASE UpsertFails(p, s)
    <2>1. /\ mapping' \in {mapping, [mapping EXCEPT ![s] = Committed(p, s)]}
          /\ UNCHANGED <<files, contended>>
          /\ job[p][s].pc = "commit"
      BY <1>22 DEF UpsertFails
    <2>2. StoreOK'
      BY <2>1, <1>1, <1>9 DEF StoreOK
    <2>3. CASE job[p][s].fresh
      <3> DEFINE j == [job[p][s] EXCEPT !.pc = "cleanup"]
      <3>1. job' = [job EXCEPT ![p][s] = j] /\ UNCHANGED <<permits, client>>
        BY <2>3, <1>22 DEF UpsertFails
      <3>2. j \in Job /\ j.pc = "cleanup"
        BY <1>3, <1>4, <1>5 DEF Job
      <3> HIDE DEF j
      <3>3. QED
        <4>1. job[p][s].pc \in HoldsActive /\ j.pc \in HoldsActive
          BY <2>1, <3>2, <1>4
        <4>2. ReplicasOK' /\ ClientOK' /\ Accounted'
          BY <3>1, <3>2, <4>1, GoesOnTyped
        <4>3. FilesOK'
          BY <2>1, <1>6
        <4>4. QED
          BY <2>2, <4>2, <4>3 DEF Typed
    <2>4. CASE ~job[p][s].fresh
      <3>1. GiveUp(p, s, "502")
        BY <2>4, <1>22 DEF UpsertFails
      <3>2. QED
        BY <2>1, <2>2, <3>1, <1>2, <1>6, <1>8 DEF Typed
    <2>5. QED
      BY <2>3, <2>4
  <1>23. CASE DeletePreviewFile(p, s)
    <2>1. /\ rows' \in {rows, rows \ {job[p][s].file}}
          /\ GiveUp(p, s, "502")
          /\ UNCHANGED <<version, deleted, content, used, store>>
      BY <1>23 DEF DeletePreviewFile
    <2>2. FilesOK'
      BY <2>1, <1>1 DEF FilesOK
    <2>3. QED
      BY <2>1, <2>2, <1>2, <1>7, <1>8 DEF Typed
  <1>24. CASE JobFails(p, s)
    <2>1. /\ GiveUp(p, s, "500") \/ GiveUp(p, s, "502")
          /\ UNCHANGED <<files, store>>
      BY <1>24 DEF JobFails
    <2>2. QED
      BY <2>1, <1>2, <1>6, <1>7, <1>8 DEF Typed
  <1>25. QED
    BY <1>10, <1>11, <1>12, <1>13, <1>14, <1>15, <1>16, <1>17, <1>18, <1>19, <1>20, <1>21,
       <1>22, <1>23, <1>24 DEF JobStep

\* A crash, file-service and its other users keep the types.
LEMMA WorldTyped ==
    ASSUME Typed, (\E p \in Replicas : Crash(p)) \/ Environment
    PROVE  Typed'
  <1>1. FilesOK /\ StoreOK /\ ReplicasOK /\ ClientOK /\ Accounted
    BY DEF Typed
  <1>2. ASSUME NEW p \in Replicas, Crash(p) PROVE Typed'
    <2> DEFINE cut == {r \in Requests : flight[r] = p}
    <2>1. /\ Deliver({}, cut)
          /\ seen' = [r \in Requests |-> IF r \in cut THEN 0 ELSE seen[r]]
          /\ resp' = [r \in Requests |->
                         IF r \in cut
                         THEN [status |-> "500", etag |-> 0, pixels |-> 0]
                         ELSE resp[r]]
          /\ UNCHANGED <<files, store, entry>>
          /\ job' = [job EXCEPT ![p] = [s \in Sources |-> NoJob]]
      BY <1>2 DEF Crash
    <2> HIDE DEF cut
    <2>2. Accounted' /\ slots' \in [Replicas -> Nat] /\ active' \in [Replicas -> Nat]
      BY <1>1, <1>2, CrashAccounted DEF ReplicasOK
    <2>3. ReplicasOK'
      BY <2>1, <2>2, <1>1, InitialValues DEF ReplicasOK
    <2>4. /\ Asking'
          /\ pc' \in [Requests -> RequestSteps]
          /\ source' \in [Requests -> Sources \cup {NoSource}]
          /\ flight' \in [Requests -> Replicas \cup {Nowhere}]
          /\ \A r \in Requests : flight'[r] # Nowhere <=> pc'[r] = "wait"
      BY <2>1, <1>1, DeliverTyped
    <2>5. [status |-> "500", etag |-> 0, pixels |-> 0] \in Reply
      BY InitialValues DEF Reply, Statuses
    <2>6. /\ seen' \in [Requests -> Versions] /\ resp' \in [Requests -> Reply]
          /\ entry' \in [Requests -> Entry]
      BY <2>1, <2>5, <1>1, InitialValues DEF ClientOK
    <2>7. ClientOK'
      BY <2>4, <2>6 DEF ClientOK
    <2>8. FilesOK' /\ StoreOK'
      BY <2>1, <1>1 DEF FilesOK, StoreOK, files, store
    <2>9. QED
      BY <2>2, <2>3, <2>7, <2>8 DEF Typed
  <1>3. ASSUME Environment PROVE Typed'
    <2>1. UNCHANGED <<used, store, permits, job, client>>
      BY <1>3 DEF Environment, SaveSource, DeleteSource, LosePreview
    <2>2. ReplicasOK' /\ Accounted'
      BY <2>1, <1>1, NothingMoves
    <2>3. ClientOK' /\ StoreOK'
      BY <2>1, <1>1 DEF ClientOK, Asking, StoreOK, client, store
    <2>4. CASE \E s \in Sources : SaveSource(s)
      <3>1. FilesOK'
        BY <2>4, <1>1, MaxVersionAssumption DEF SaveSource, FilesOK, Versions
      <3>2. QED
        BY <2>2, <2>3, <3>1 DEF Typed
    <2>5. CASE \E s \in Sources : DeleteSource(s)
      <3>1. FilesOK'
        BY <2>5, <1>1 DEF DeleteSource, FilesOK
      <3>2. QED
        BY <2>2, <2>3, <3>1 DEF Typed
    <2>6. CASE \E f \in PreviewIDs : LosePreview(f)
      <3>1. FilesOK'
        BY <2>6, <1>1, InitialValues DEF LosePreview, FilesOK
      <3>2. QED
        BY <2>2, <2>3, <3>1 DEF Typed
    <2>7. QED
      BY <1>3, <2>4, <2>5, <2>6 DEF Environment
  <1>4. QED
    BY <1>2, <1>3

\* Initially there is no job, no permit is taken and no file exists.
LEMMA TypedInit == Init => Typed
  <1> SUFFICES ASSUME Init PROVE Typed
    OBVIOUS
  <1>1. FilesOK
    BY InitialValues DEF Init, FilesOK
  <1>2. StoreOK
    BY InitialValues DEF Init, StoreOK
  <1>3. ReplicasOK
    BY InitialValues DEF Init, ReplicasOK
  <1>4. ClientOK
    <2>1. /\ pc \in [Requests -> RequestSteps]
          /\ source \in [Requests -> Sources \cup {NoSource}]
          /\ seen \in [Requests -> Versions]
          /\ entry \in [Requests -> Entry]
          /\ flight \in [Requests -> Replicas \cup {Nowhere}]
          /\ resp \in [Requests -> Reply]
      BY InitialValues DEF Init, RequestSteps
    <2>2. Asking /\ \A r \in Requests : flight[r] # Nowhere <=> pc[r] = "wait"
      BY DEF Init, Asking
    <2>3. QED
      BY <2>1, <2>2 DEF ClientOK
  <1>5. Accounted
    <2>1. "none" \notin HoldsSlot /\ "none" \notin HoldsActive
      BY DEF HoldsSlot, HoldsActive
    <2>2. ASSUME NEW p \in Replicas
          PROVE  /\ Slotted(p) = {} /\ Activated(p) = {}
                 /\ slots[p] = 0 /\ active[p] = 0
      BY <2>1 DEF Init, Slotted, Activated, NoJob
    <2>3. IsFiniteSet({}) /\ Cardinality({}) = 0
      BY FS_EmptySet
    <2>4. 0 <= maxActiveRenders + waitingCapacity /\ 0 <= maxActiveRenders
      BY CapacityAssumption
    <2>5. PermitsAccounted
      BY <2>2, <2>3, <2>4 DEF PermitsAccounted, Slotted, Activated
    <2>6. FinitelyMany
      BY <2>2, <2>3 DEF FinitelyMany
    <2>7. QED
      BY <2>5, <2>6 DEF Accounted
  <1>6. QED
    BY <1>1, <1>2, <1>3, <1>4, <1>5 DEF Typed

\* Every step of a request, of a job and of file-service keeps the types and
\* the permits.
LEMMA TypedStep == Typed /\ [Next]_vars => Typed'
  <1> SUFFICES ASSUME Typed, [Next]_vars PROVE Typed'
    OBVIOUS
  <1>1. CASE Next
    BY <1>1, RequestTyped, JobTyped, WorldTyped DEF Next
  <1>2. CASE UNCHANGED vars
    <2>1. UNCHANGED <<files, store, permits, job, client>>
      BY <1>2 DEF vars
    <2>2. ReplicasOK' /\ Accounted'
      BY <2>1, NothingMoves DEF Typed
    <2>3. FilesOK' /\ StoreOK' /\ ClientOK'
      BY <2>1 DEF Typed, FilesOK, StoreOK, ClientOK, Asking, files, store, client
    <2>4. QED
      BY <2>2, <2>3 DEF Typed
  <1>3. QED
    BY <1>1, <1>2

\* The types and the permits hold in every behaviour of the service.
LEMMA AlwaysTyped == Spec => []Typed
  BY TypedInit, TypedStep, PTL DEF Spec

\* Every variable keeps its type: the semaphores never go below zero, a job
\* has a permit to give back whenever renderAndStore releases one, and a
\* request waits exactly while it has a flight.
THEOREM TypeCorrect == Spec => []TypeOK
  <1>1. Typed => TypeOK
    BY DEF Typed, TypeOK, FilesOK, StoreOK, ReplicasOK, ClientOK
  <1>2. QED
    BY <1>1, AlwaysTyped, PTL

\* The two semaphores of every replica count exactly the jobs that hold a
\* permit, within their capacities, on every exit path of renderAndStore, for
\* any number of sources and any capacities.
THEOREM PermitsAreAccounted == Spec => []PermitsAccounted
  <1>1. Typed => PermitsAccounted
    BY DEF Typed, Accounted
  <1>2. QED
    BY <1>1, AlwaysTyped, PTL

----------------------------------------------------------------------------
(* Waiters. *)

\* A request that waits does so for a job of a replica, on a source.
LEMMA WaitsSomewhere ==
    ASSUME ClientOK, NEW r \in Requests, pc[r] = "wait"
    PROVE  flight[r] \in Replicas /\ source[r] \in Sources
  BY DEF ClientOK, Asking

\* A step that starts no waiting and ends no job.
LEMMA WaitersKept ==
    ASSUME ClientOK, NoWaiterForgotten,
           \A r \in Requests : pc'[r] = "wait" =>
                pc[r] = "wait" /\ flight'[r] = flight[r] /\ source'[r] = source[r],
           \A p \in Replicas, s \in Sources : job[p][s].pc # "none" => job'[p][s].pc # "none"
    PROVE  NoWaiterForgotten'
  BY WaitsSomewhere DEF NoWaiterForgotten

\* Jobs that end have handed their result to all who waited for them.
LEMMA WaitersFreed ==
    ASSUME ClientOK, NoWaiterForgotten, NEW served, NEW answered,
           Deliver(served, answered),
           \A p \in Replicas, s \in Sources :
                \/ job'[p][s].pc = job[p][s].pc
                \/ \A r \in Waiters(p, s) : r \in served \cup answered
    PROVE  NoWaiterForgotten'
  <1>1. ASSUME NEW r \in Requests, pc'[r] = "wait"
        PROVE  job'[flight'[r]][source'[r]].pc # "none"
    <2>1. r \notin served \cup answered
      BY <1>1 DEF Deliver
    <2>2. pc[r] = "wait" /\ flight'[r] = flight[r] /\ source'[r] = source[r]
      BY <1>1, <2>1 DEF Deliver
    <2>3. flight[r] \in Replicas /\ source[r] \in Sources
      BY <2>2, WaitsSomewhere
    <2>4. r \in Waiters(flight[r], source[r])
      BY DEF Waiters
    <2>5. job'[flight[r]][source[r]].pc = job[flight[r]][source[r]].pc
      BY <2>1, <2>3, <2>4
    <2>6. QED
      BY <2>2, <2>5 DEF NoWaiterForgotten
  <1>2. QED
    BY <1>1 DEF NoWaiterForgotten

\* renderAndStore returns, with an entry or an error.
LEMMA EndFreesWaiters ==
    ASSUME ReplicasOK, ClientOK, NoWaiterForgotten, NEW p \in Replicas, NEW s \in Sources,
           \/ \E status : GiveUp(p, s, status)
           \/ \E found : Succeed(p, s, found)
    PROVE  NoWaiterForgotten'
  <1>1. job' = [job EXCEPT ![p][s] = NoJob]
    BY DEF GiveUp, Succeed
  <1>2. ASSUME NEW q \in Replicas, NEW t \in Sources, job'[q][t].pc # job[q][t].pc
        PROVE  q = p /\ t = s
    BY <1>1, <1>2 DEF ReplicasOK
  <1>3. CASE \E status : GiveUp(p, s, status)
    <2>1. Deliver({}, Waiters(p, s))
      BY <1>3 DEF GiveUp
    <2>2. QED
      BY <1>2, <2>1, WaitersFreed
  <1>4. CASE \E found : Succeed(p, s, found)
    <2>1. PICK found : Succeed(p, s, found)
      BY <1>4
    <2> DEFINE served   == {r \in Waiters(p, s) : ~Stale(found, r)}
               answered == Waiters(p, s) \ served
    <2>2. Deliver(served, answered) /\ \A r \in Waiters(p, s) : r \in served \cup answered
      BY <2>1 DEF Succeed
    <2> HIDE DEF served, answered
    <2>3. QED
      BY <1>2, <2>2, WaitersFreed
  <1>5. QED
    BY <1>3, <1>4

\* renderAndStore goes on.
LEMMA MoveKeepsWaiters ==
    ASSUME ReplicasOK, ClientOK, NoWaiterForgotten, NEW p \in Replicas, NEW s \in Sources,
           NEW j, job' = [job EXCEPT ![p][s] = j], j.pc # "none", UNCHANGED client
    PROVE  NoWaiterForgotten'
  <1>1. ASSUME NEW q \in Replicas, NEW t \in Sources, job[q][t].pc # "none"
        PROVE  job'[q][t].pc # "none"
    BY <1>1 DEF ReplicasOK
  <1>2. QED
    BY <1>1, WaitersKept DEF client

\* A step of a job ends it or keeps it running.
LEMMA JobKeepsWaiters ==
    ASSUME Typed, NoWaiterForgotten, NEW p \in Replicas, NEW s \in Sources, JobStep(p, s)
    PROVE  NoWaiterForgotten'
  <1>1. FilesOK /\ ReplicasOK /\ ClientOK
    BY DEF Typed
  <1>2. job[p][s] \in Job /\ job \in [Replicas -> [Sources -> Job]]
    BY <1>1, JobFields DEF ReplicasOK
  <1>3. \A status : GiveUp(p, s, status) => NoWaiterForgotten'
    BY <1>1, EndFreesWaiters
  <1>4. \A found : Succeed(p, s, found) => NoWaiterForgotten'
    BY <1>1, EndFreesWaiters
  <1>5. ASSUME NEW x, x # "none", job' = [job EXCEPT ![p][s].pc = x], UNCHANGED client
        PROVE  NoWaiterForgotten'
    <2> DEFINE j == [job[p][s] EXCEPT !.pc = x]
    <2>1. job' = [job EXCEPT ![p][s] = j]
      BY <1>2, <1>5
    <2>2. j.pc # "none"
      BY <1>2, <1>5 DEF Job
    <2> HIDE DEF j
    <2>3. QED
      BY <2>1, <2>2, <1>1, <1>5, MoveKeepsWaiters
  <1>6. CASE Admit(p, s)
    <2>1. CASE slots[p] < maxActiveRenders + waitingCapacity
      BY <2>1, <1>5, <1>6 DEF Admit
    <2>2. CASE ~(slots[p] < maxActiveRenders + waitingCapacity)
      BY <2>2, <1>3, <1>6 DEF Admit
    <2>3. QED
      BY <2>1, <2>2
  <1>7. CASE Activate(p, s)
    BY <1>5, <1>7 DEF Activate
  <1>8. CASE QueueTimeout(p, s)
    BY <1>3, <1>8 DEF QueueTimeout
  <1>9. CASE LookupSource(p, s)
    <2>1. CASE s \in deleted
      BY <2>1, <1>3, <1>9 DEF LookupSource
    <2>2. CASE s \notin deleted
      <3>1. version \in [Sources -> Versions]
        BY <1>1 DEF FilesOK
      <3>2. /\ job'[p][s] = [job[p][s] EXCEPT !.pc = "target", !.date = version[s],
                                              !.alone = (Rivals(p, s) = {})]
            /\ \A q \in Rivals(p, s) : job'[q][s] = [job[q][s] EXCEPT !.alone = FALSE]
            /\ \A q \in Replicas, t \in Sources :
                 t # s \/ (q # p /\ q \notin Rivals(p, s)) => job'[q][t] = job[q][t]
            /\ UNCHANGED client
        BY <1>1, <1>9, <2>2, <3>1, LookupEffect
      <3>3. job'[p][s].pc = "target"
        BY <3>2, <1>2 DEF Job
      <3>4. ASSUME NEW q \in Replicas, NEW t \in Sources, job[q][t].pc # "none"
            PROVE  job'[q][t].pc # "none"
        <4>1. job[q][t] \in Job
          BY <1>1, JobFields
        <4>2. CASE t = s /\ q \in Rivals(p, s)
          BY <3>2, <3>4, <4>1, <4>2 DEF Job
        <4>3. CASE t # s \/ (q # p /\ q \notin Rivals(p, s))
          BY <3>2, <3>4, <4>3
        <4>4. QED
          BY <3>3, <4>2, <4>3
      <3>5. QED
        BY <3>2, <3>4, <1>1, WaitersKept DEF client
    <2>3. QED
      BY <2>1, <2>2
  <1>10. CASE FindTarget(p, s)
    <2>1. PICK x \in {"read", "recheck", "meta"} :
            /\ job' = [job EXCEPT ![p][s] = [job[p][s] EXCEPT !.pc = x, !.mapped = mapping[s]]]
            /\ x = "read" => mapping[s] = NoEntry
            /\ x = "recheck" => mapping[s].date = job[p][s].date
      BY <1>1, <1>10, TargetEffect
    <2>2. [job[p][s] EXCEPT !.pc = x, !.mapped = mapping[s]].pc # "none"
      BY <1>2 DEF Job
    <2>3. UNCHANGED client
      BY <1>10 DEF FindTarget
    <2>4. QED
      BY <2>1, <2>2, <2>3, <1>1, MoveKeepsWaiters
  <1>11. CASE Recheck(p, s)
    <2>1. CASE Readable(job[p][s].mapped.file)
      BY <2>1, <1>4, <1>11 DEF Recheck
    <2>2. CASE ~Readable(job[p][s].mapped.file)
      BY <2>2, <1>5, <1>11 DEF Recheck
    <2>3. QED
      BY <2>1, <2>2
  <1>12. CASE LookupMeta(p, s)
    <2>1. PICK g : job' = [job EXCEPT ![p][s].pc = "read", ![p][s].file = g]
      BY <1>12 DEF LookupMeta
    <2> DEFINE j == [job[p][s] EXCEPT !.pc = "read", !.file = g]
    <2>2. job' = [job EXCEPT ![p][s] = j]
      BY <2>1, <1>2
    <2>3. j.pc # "none" /\ UNCHANGED client
      BY <1>2, <1>12 DEF Job, LookupMeta
    <2> HIDE DEF j
    <2>4. QED
      BY <2>2, <2>3, <1>1, MoveKeepsWaiters
  <1>13. CASE ReadSource(p, s)
    <2> DEFINE j == [job[p][s] EXCEPT !.pc = "render", !.pixels = version[s]]
    <2>1. job' = [job EXCEPT ![p][s] = j]
      BY <1>2, <1>13 DEF ReadSource
    <2>2. j.pc # "none" /\ UNCHANGED client
      BY <1>2, <1>13 DEF Job, ReadSource
    <2> HIDE DEF j
    <2>3. QED
      BY <2>1, <2>2, <1>1, MoveKeepsWaiters
  <1>14. CASE Render(p, s)
    <2>1. PICK x \in {"create", "write"} : job' = [job EXCEPT ![p][s].pc = x]
      BY <1>14 DEF Render
    <2>2. UNCHANGED client
      BY <1>14 DEF Render
    <2>3. QED
      BY <2>1, <2>2, <1>5
  <1>15. CASE WriteFile(p, s)
    BY <1>3, <1>5, <1>15 DEF WriteFile
  <1>16. CASE CreatePreviewFile(p, s)
    <2>1. PICK f \in PreviewIDs :
            \/ /\ job' = [job EXCEPT ![p][s].pc = "commit", ![p][s].file = f, ![p][s].fresh = TRUE]
               /\ UNCHANGED client
            \/ GiveUp(p, s, "502")
      BY <1>16 DEF CreatePreviewFile
    <2>2. CASE GiveUp(p, s, "502")
      BY <2>2, <1>3
    <2>3. CASE /\ job' = [job EXCEPT ![p][s].pc = "commit", ![p][s].file = f, ![p][s].fresh = TRUE]
               /\ UNCHANGED client
      <3> DEFINE j == [job[p][s] EXCEPT !.pc = "commit", !.file = f, !.fresh = TRUE]
      <3>1. job' = [job EXCEPT ![p][s] = j]
        BY <2>3, <1>2
      <3>2. j.pc # "none"
        BY <1>2 DEF Job
      <3> HIDE DEF j
      <3>3. QED
        BY <3>1, <3>2, <2>3, <1>1, MoveKeepsWaiters
    <2>4. QED
      BY <2>1, <2>2, <2>3
  <1>17. CASE Upsert(p, s)
    BY <1>4, <1>17 DEF Upsert
  <1>18. CASE UpsertFails(p, s)
    <2>1. CASE job[p][s].fresh
      BY <2>1, <1>5, <1>18 DEF UpsertFails
    <2>2. CASE ~job[p][s].fresh
      BY <2>2, <1>3, <1>18 DEF UpsertFails
    <2>3. QED
      BY <2>1, <2>2
  <1>19. CASE DeletePreviewFile(p, s)
    BY <1>3, <1>19 DEF DeletePreviewFile
  <1>20. CASE JobFails(p, s)
    BY <1>3, <1>20 DEF JobFails
  <1>21. QED
    BY <1>6, <1>7, <1>8, <1>9, <1>10, <1>11, <1>12, <1>13, <1>14, <1>15, <1>16, <1>17,
       <1>18, <1>19, <1>20 DEF JobStep

\* A request starts to wait only with the job that it starts or joins.
LEMMA RequestKeepsWaiters ==
    ASSUME Typed, NoWaiterForgotten, NEW r \in Requests,
           \/ \E s \in Sources, inm \in Versions : Resolve(r, s, inm)
           \/ RequestStep(r)
           \/ Abandon(r)
    PROVE  NoWaiterForgotten'
  <1>1. ReplicasOK /\ ClientOK
    BY DEF Typed
  <1>2. pc \in [Requests -> RequestSteps] /\ source \in [Requests -> Sources \cup {NoSource}]
        /\ flight \in [Requests -> Replicas \cup {Nowhere}]
    BY <1>1 DEF ClientOK
  <1>3. ASSUME NEW p \in Replicas, JoinFlight(r, p) PROVE NoWaiterForgotten'
    <2>1. source[r] \in Sources
      BY <1>1, <1>3 DEF JoinFlight, ClientOK, Asking
    <2>2. job'[p][source[r]].pc # "none" /\ \A q \in Replicas, t \in Sources :
                job[q][t].pc # "none" => job'[q][t].pc # "none"
      <3>1. CASE job[p][source[r]].pc = "none"
        <4>1. job' = [job EXCEPT ![p][source[r]].pc = "admit"]
          BY <1>3, <3>1 DEF JoinFlight
        <4>2. job \in [Replicas -> [Sources -> Job]] /\ job[p][source[r]] \in Job
          BY <1>1, <2>1, JobFields DEF ReplicasOK
        <4> DEFINE j == [job[p][source[r]] EXCEPT !.pc = "admit"]
        <4>3. job' = [job EXCEPT ![p][source[r]] = j]
          BY <4>1, <4>2
        <4>4. j.pc = "admit"
          BY <4>2 DEF Job
        <4> HIDE DEF j
        <4>5. QED
          BY <4>2, <4>3, <4>4, <2>1
      <3>2. CASE job[p][source[r]].pc # "none"
        BY <1>3, <3>2 DEF JoinFlight
      <3>3. QED
        BY <3>1, <3>2
    <2>3. UNCHANGED source /\ flight' = [flight EXCEPT ![r] = p] /\ pc' = [pc EXCEPT ![r] = "wait"]
      BY <1>3 DEF JoinFlight
    <2>4. ASSUME NEW q \in Requests, pc'[q] = "wait"
          PROVE  job'[flight'[q]][source'[q]].pc # "none"
      <3>1. CASE q = r
        BY <3>1, <2>2, <2>3, <1>2
      <3>2. CASE q # r
        <4>1. pc[q] = "wait" /\ flight'[q] = flight[q] /\ source'[q] = source[q]
          BY <2>3, <2>4, <3>2, <1>2
        <4>2. QED
          BY <4>1, <2>2, <1>1, WaitsSomewhere DEF NoWaiterForgotten
      <3>3. QED
        BY <3>1, <3>2
    <2>5. QED
      BY <2>4 DEF NoWaiterForgotten
  <1>4. CASE ~\E p \in Replicas : JoinFlight(r, p)
    <2>1. UNCHANGED job
      BY <1>4 DEF Resolve, RequestStep, LookupMapping, ReadCached, ReadCommitted, Abandon
    <2>2. PICK x \in {"idle", "mapping", "cached", "miss"} : pc' = [pc EXCEPT ![r] = x]
      BY <1>4 DEF Resolve, RequestStep, LookupMapping, ReadCached, ReadCommitted, Abandon, Answer
    <2>3. \A q \in Requests \ {r} : source'[q] = source[q] /\ flight'[q] = flight[q]
      <3>1. /\ source' = source \/ \E s : source' = [source EXCEPT ![r] = s]
            /\ flight' = flight \/ \E p : flight' = [flight EXCEPT ![r] = p]
        BY <1>4 DEF Resolve, RequestStep, LookupMapping, ReadCached, ReadCommitted, Abandon, Answer
      <3>2. QED
        BY <3>1, <1>2
    <2>4. \A q \in Requests : pc'[q] = "wait" =>
                pc[q] = "wait" /\ flight'[q] = flight[q] /\ source'[q] = source[q]
      BY <2>2, <2>3, <1>2
    <2>5. QED
      BY <2>1, <2>4, <1>1, WaitersKept
  <1>5. QED
    BY <1>3, <1>4

\* A replica that dies takes the requests that wait in it along.
LEMMA CrashFreesWaiters ==
    ASSUME Typed, NoWaiterForgotten, NEW p \in Replicas, Crash(p)
    PROVE  NoWaiterForgotten'
  <1> DEFINE cut == {r \in Requests : flight[r] = p}
  <1>1. ReplicasOK /\ ClientOK /\ Deliver({}, cut)
    BY DEF Typed, Crash
  <1>2. ASSUME NEW q \in Replicas, NEW s \in Sources
        PROVE  \/ job'[q][s].pc = job[q][s].pc
               \/ \A r \in Waiters(q, s) : r \in {} \cup cut
    <2>1. CASE q = p
      BY <2>1 DEF Waiters
    <2>2. CASE q # p
      BY <2>2, <1>1 DEF Crash, ReplicasOK
    <2>3. QED
      BY <2>1, <2>2
  <1> HIDE DEF cut
  <1>3. QED
    BY <1>1, <1>2, WaitersFreed

\* Every step of the service keeps the waiters with their jobs.
LEMMA WaitersStep == Typed /\ NoWaiterForgotten /\ [Next]_vars => NoWaiterForgotten'
  <1> SUFFICES ASSUME Typed, NoWaiterForgotten, [Next]_vars PROVE NoWaiterForgotten'
    OBVIOUS
  <1>1. CASE UNCHANGED <<job, client>>
    BY <1>1 DEF NoWaiterForgotten, client
  <1>2. CASE Environment
    BY <1>1, <1>2 DEF Environment, SaveSource, DeleteSource, LosePreview
  <1>3. CASE Next
    BY <1>2, <1>3, RequestKeepsWaiters, JobKeepsWaiters, CrashFreesWaiters DEF Next
  <1>4. CASE UNCHANGED vars
    BY <1>1, <1>4 DEF vars
  <1>5. QED
    BY <1>3, <1>4

\* Whoever waits for a shared render waits for a job that still runs, for any
\* number of requests that start, join and abandon jobs on any number of sources,
\* and whichever way renderAndStore ends: refused, timed out, failed at any call,
\* committed, or dead with its replica.
THEOREM NobodyIsForgotten == Spec => []NoWaiterForgotten
  <1>1. Init => NoWaiterForgotten
    BY DEF Init, NoWaiterForgotten
  <1>2. QED
    BY <1>1, WaitersStep, AlwaysTyped, PTL DEF Spec

----------------------------------------------------------------------------
(* What the mapping table promises. *)

\* A job that no other replica's job overlapped with has no rival.
AloneIsAlone ==
    \A s \in Sources : \A p, q \in Replicas :
        job[p][s].pc \in Working /\ job[p][s].alone /\ job[q][s].pc \in Working => q = p

\* An overlap is on record until a job that ran alone has committed.
OverlapsRecorded ==
    \A s \in Sources \ contended : \A p \in Replicas :
        job[p][s].pc \in Working => job[p][s].alone

\* A preview file that the mapping of a source or one of its jobs refers to.
RefersTo(s, f) ==
    \/ mapping[s].file = f
    \/ \E p \in Replicas : job[p][s].file = f \/ job[p][s].mapped.file = f

\* Such a file was given out, and no other source refers to it.
FilesOwned ==
    \A s \in Sources, f \in PreviewIDs :
        RefersTo(s, f) => f \in used /\ \A t \in Sources \ {s} : ~RefersTo(t, f)

\* The file that a job writes: none before the metadata lookup chose one, and
\* another than that of the mapping only when the latter has no row.
TargetOK(p, s) ==
    LET j == job[p][s]
    IN  /\ j.pc \in {"none", "admit", "queue", "lookup", "target", "recheck", "meta", "create"}
            => j.file = NoFile
        /\ j.pc \in {"read", "render", "write", "create", "commit"}
            => j.file = j.mapped.file \/ j.mapped.file \notin rows

\* The steps of a job that has read the mapping.
Chosen == {"recheck", "meta", "read", "render", "write", "create", "commit"}

\* The date is never ahead of the source or of the pixels, and a job alone
\* knows the mapping and the content of the file that it is about to commit.
PixelsOK(p, s) ==
    LET j == job[p][s]
    IN  /\ j.date <= version[s]
        /\ j.pc \in {"render", "write", "create"} => j.date <= j.pixels
        /\ j.alone /\ j.pc \in Chosen => j.mapped = mapping[s]
        /\ j.alone /\ j.pc \in {"render", "write"} => mapping[s].date <= j.pixels
        /\ j.alone /\ j.pc = "commit" /\ Readable(j.file) => j.date <= content[j.file]

\* The mapping's date is never ahead of the source, nor, without an overlap on
\* record, of the pixels.
MappingOK(s) ==
    /\ mapping[s].date <= version[s]
    /\ s \notin contended /\ Readable(mapping[s].file)
        => mapping[s].date <= content[mapping[s].file]

Overlaps == AloneIsAlone /\ OverlapsRecorded
JobsOK   == \A p \in Replicas, s \in Sources : TargetOK(p, s) /\ PixelsOK(p, s)
Sound    == Overlaps /\ FilesOwned /\ JobsOK /\ \A s \in Sources : MappingOK(s)

IInv == Typed /\ Sound

\* How the steps of a job that has looked its source up are named.
LEMMA WorkingSteps ==
    /\ Chosen \subseteq Working /\ "target" \in Working /\ "cleanup" \in Working
    /\ "none" \notin Working /\ "admit" \notin Working
    /\ "queue" \notin Working /\ "lookup" \notin Working
  BY DEF Working, HoldsActive, HoldsSlot, JobSteps, Chosen

\* A step in which no job starts to work and no overlap is struck off.
LEMMA OverlapsKept ==
    ASSUME Overlaps, contended' = contended,
           \A p \in Replicas, s \in Sources :
                job'[p][s].pc \in Working =>
                    job[p][s].pc \in Working /\ job'[p][s].alone = job[p][s].alone
    PROVE  Overlaps'
  <1>1. AloneIsAlone'
    BY DEF Overlaps, AloneIsAlone
  <1>2. OverlapsRecorded'
    BY DEF Overlaps, OverlapsRecorded
  <1>3. QED
    BY <1>1, <1>2 DEF Overlaps

\* A step in which references are only passed on or dropped.
LEMMA OwnersKept ==
    ASSUME FilesOwned, used \subseteq used',
           \A s \in Sources, f \in PreviewIDs : RefersTo(s, f)' => RefersTo(s, f)
    PROVE  FilesOwned'
  BY DEF FilesOwned

\* References are passed on within a source.
LEMMA PassedOn ==
    ASSUME \A s \in Sources : \/ mapping'[s].file = mapping[s].file
                              \/ \E p \in Replicas : mapping'[s].file = job[p][s].file,
           \A p \in Replicas, s \in Sources :
                /\ job'[p][s].file \in {NoFile, job[p][s].file, job[p][s].mapped.file}
                /\ job'[p][s].mapped.file \in {NoFile, job[p][s].mapped.file, mapping[s].file}
    PROVE  \A s \in Sources, f \in PreviewIDs : RefersTo(s, f)' => RefersTo(s, f)
  BY NoFileAssumption DEF RefersTo

\* The step of one job, as the others see it.
LEMMA OneJob ==
    ASSUME ReplicasOK, NEW p \in Replicas, NEW s \in Sources, NEW j,
           job' = [job EXCEPT ![p][s] = j]
    PROVE  /\ job'[p][s] = j
           /\ \A q \in Replicas, t \in Sources : q # p \/ t # s => job'[q][t] = job[q][t]
  BY DEF ReplicasOK

\* Step (p, s) leaves the other jobs and the other sources' mappings sound:
\* it changes only the content of files that s refers to or that are new.
LEMMA OthersSound ==
    ASSUME IInv, NEW p \in Replicas, NEW s \in Sources, job[p][s].pc \in Working,
           \A q \in Replicas, t \in Sources : q # p \/ t # s => job'[q][t] = job[q][t],
           \A t \in Sources \ {s} : /\ mapping'[t] = mapping[t]
                                    /\ t \in contended => t \in contended',
           rows' \subseteq rows \cup (PreviewIDs \ used),
           \A f \in used : content'[f] = content[f] \/ RefersTo(s, f),
           version' = version
    PROVE  /\ \A q \in Replicas, t \in Sources : q # p \/ t # s => TargetOK(q, t)' /\ PixelsOK(q, t)'
           /\ \A t \in Sources \ {s} : MappingOK(t)'
  <1>1. ReplicasOK /\ FilesOK /\ StoreOK
    BY DEF IInv, Typed
  <1>2. ASSUME NEW t \in Sources, NEW f \in PreviewIDs \cup {NoFile},
               f = NoFile \/ RefersTo(t, f)
        PROVE  /\ f \in rows' => f \in rows
               /\ t # s /\ Readable(f)' => Readable(f) /\ content'[f] = content[f]
    <2>1. f \in used \/ f = NoFile
      BY <1>2 DEF IInv, Sound, FilesOwned
    <2>2. f \in rows' => f \in rows
      BY <2>1, <1>1, NoFileAssumption DEF FilesOK
    <2>3. ASSUME t # s, Readable(f)' PROVE Readable(f) /\ content'[f] = content[f]
      <3>1. f \in rows' /\ content'[f] > 0
        BY <2>3 DEF Readable
      <3>2. f \in rows /\ f \in used /\ f \in PreviewIDs
        BY <3>1, <2>2, <1>1 DEF FilesOK
      <3>3. ~RefersTo(s, f)
        BY <3>2, <2>3, <1>2, NoFileAssumption DEF IInv, Sound, FilesOwned
      <3>4. content'[f] = content[f]
        BY <3>2, <3>3
      <3>5. QED
        BY <3>1, <3>2, <3>4 DEF Readable
    <2>4. QED
      BY <2>2, <2>3
  <1>3. ASSUME NEW q \in Replicas, NEW t \in Sources, q # p \/ t # s
        PROVE  TargetOK(q, t)' /\ PixelsOK(q, t)'
    <2>1. job'[q][t] = job[q][t] /\ TargetOK(q, t) /\ PixelsOK(q, t)
      BY <1>3 DEF IInv, Sound, JobsOK
    <2>2. job[q][t].mapped.file \in PreviewIDs \cup {NoFile} /\ job[q][t].file \in PreviewIDs \cup {NoFile}
      BY <1>1, JobFields DEF Entry
    <2>3. RefersTo(t, job[q][t].mapped.file) /\ RefersTo(t, job[q][t].file)
      BY DEF RefersTo
    <2>4. job[q][t].mapped.file \in rows' => job[q][t].mapped.file \in rows
      BY <1>2, <2>2, <2>3
    <2>5. TargetOK(q, t)'
      BY <2>1, <2>4 DEF TargetOK
    <2>6. CASE t # s
      <3>1. Readable(job[q][t].file)' => /\ Readable(job[q][t].file)
                                         /\ content'[job[q][t].file] = content[job[q][t].file]
        BY <1>2, <2>1, <2>2, <2>3, <2>6 DEF Readable
      <3>2. mapping'[t] = mapping[t] /\ version'[t] = version[t]
        BY <2>6
      <3>3. PixelsOK(q, t)'
        BY <2>1, <3>1, <3>2 DEF PixelsOK
      <3>4. QED
        BY <2>5, <3>3
    <2>7. CASE t = s
      <3>1. ~(job[q][t].pc \in Working /\ job[q][t].alone)
        BY <1>3, <2>7 DEF IInv, Sound, Overlaps, AloneIsAlone
      <3>2. ~(job[q][t].alone /\ job[q][t].pc \in Chosen)
        BY <3>1, WorkingSteps
      <3>3. PixelsOK(q, t)'
        BY <2>1, <3>2 DEF PixelsOK, Chosen
      <3>4. QED
        BY <2>5, <3>3
    <2>8. QED
      BY <2>6, <2>7
  <1>4. ASSUME NEW t \in Sources \ {s} PROVE MappingOK(t)'
    <2>1. mapping'[t] = mapping[t] /\ (t \in contended => t \in contended') /\ MappingOK(t)
      BY DEF IInv, Sound
    <2>2. mapping[t].file \in PreviewIDs \cup {NoFile} /\ RefersTo(t, mapping[t].file)
      BY <1>1 DEF StoreOK, Entry, RefersTo
    <2>3. Readable(mapping[t].file)' => /\ Readable(mapping[t].file)
                                        /\ content'[mapping[t].file] = content[mapping[t].file]
      BY <1>2, <2>1, <2>2 DEF Readable
    <2>4. QED
      BY <2>1, <2>3 DEF MappingOK
  <1>5. QED
    BY <1>3, <1>4

\* A job has not started to work: it waits for a permit.
Waits(j, k) ==
    \E x \in {"admit", "queue", "lookup"} :
        k.pc \in {"none", "admit", "queue"} /\ j = [k EXCEPT !.pc = x]

\* Steps in which jobs only end or wait, sources are saved and previews lost.
LEMMA QuietSound ==
    ASSUME IInv, UNCHANGED <<mapping, contended, used>>, rows' \subseteq rows,
           \A s \in Sources : version'[s] \in Int /\ version[s] <= version'[s],
           \A f \in PreviewIDs : content'[f] \in {content[f], 0},
           \A p \in Replicas, s \in Sources :
                job'[p][s] \in {job[p][s], NoJob} \/ Waits(job'[p][s], job[p][s])
    PROVE  Sound'
  <1>1. ReplicasOK /\ FilesOK /\ StoreOK /\ Overlaps /\ FilesOwned /\ JobsOK
    BY DEF IInv, Typed, Sound
  <1>2. ASSUME NEW p \in Replicas, NEW s \in Sources
        PROVE  /\ job'[p][s] \in {job[p][s], NoJob} \/ job'[p][s].pc \in {"admit", "queue", "lookup"}
               /\ job'[p][s].pc \in {"admit", "queue", "lookup"} /\ job'[p][s] \notin {job[p][s], NoJob} =>
                    /\ job[p][s].pc \in {"none", "admit", "queue"}
                    /\ job'[p][s].mapped = job[p][s].mapped
                    /\ job'[p][s].file = job[p][s].file
                    /\ job'[p][s].date = job[p][s].date
    <2>1. job[p][s] \in Job
      BY <1>1, JobFields
    <2>2. ASSUME NEW x \in {"admit", "queue", "lookup"}, job[p][s].pc \in {"none", "admit", "queue"},
                 job'[p][s] = [job[p][s] EXCEPT !.pc = x]
          PROVE  /\ job'[p][s].pc = x
                 /\ job'[p][s].mapped = job[p][s].mapped
                 /\ job'[p][s].file = job[p][s].file
                 /\ job'[p][s].date = job[p][s].date
      BY <2>1, <2>2 DEF Job
    <2>3. QED
      BY <2>2 DEF Waits
  <1>3. Overlaps'
    <2>1. ASSUME NEW p \in Replicas, NEW s \in Sources, job'[p][s].pc \in Working
          PROVE  job'[p][s] = job[p][s]
      BY <1>2, <2>1, WorkingSteps DEF NoJob
    <2>2. QED
      BY <2>1, <1>1, OverlapsKept
  <1>4. FilesOwned'
    <2>1. ASSUME NEW p \in Replicas, NEW s \in Sources
          PROVE  /\ job'[p][s].file \in {NoFile, job[p][s].file, job[p][s].mapped.file}
                 /\ job'[p][s].mapped.file \in {NoFile, job[p][s].mapped.file, mapping[s].file}
      BY <1>2 DEF NoJob, NoEntry
    <2>2. \A s \in Sources, f \in PreviewIDs : RefersTo(s, f)' => RefersTo(s, f)
      BY <2>1, PassedOn
    <2>3. QED
      BY <2>2, <1>1, OwnersKept
  <1>5. ASSUME NEW f \in PreviewIDs \cup {NoFile}, Readable(f)'
        PROVE  Readable(f) /\ content'[f] = content[f]
    <2>1. f \in rows' /\ content'[f] > 0
      BY <1>5 DEF Readable
    <2>2. f \in rows /\ f \in PreviewIDs
      BY <2>1, <1>1 DEF FilesOK
    <2>3. content'[f] = content[f]
      BY <2>1, <2>2
    <2>4. QED
      BY <2>1, <2>2, <2>3 DEF Readable
  <1>6. ASSUME NEW s \in Sources
        PROVE  /\ version[s] \in Nat /\ version'[s] \in Int /\ version[s] <= version'[s]
               /\ mapping[s] \in Entry /\ mapping[s].date \in Nat
    BY <1>1 DEF FilesOK, StoreOK, Versions, Entry
  <1>7. ASSUME NEW p \in Replicas, NEW s \in Sources
        PROVE  TargetOK(p, s)' /\ PixelsOK(p, s)'
    <2>1. TargetOK(p, s) /\ PixelsOK(p, s)
      BY <1>1 DEF JobsOK
    <2>2. /\ job[p][s].file \in PreviewIDs \cup {NoFile}
          /\ job[p][s].date \in Nat /\ job[p][s].mapped \in Entry
      BY <1>1, JobFields DEF Versions
    <2>3. CASE job'[p][s] = job[p][s]
      <3>1. TargetOK(p, s)'
        BY <2>1, <2>3 DEF TargetOK
      <3>2. job[p][s].date <= version'[s]
        BY <2>1, <2>2, <1>6 DEF PixelsOK
      <3>3. Readable(job[p][s].file)' => /\ Readable(job[p][s].file)
                                         /\ content'[job[p][s].file] = content[job[p][s].file]
        BY <1>5, <2>2, <2>3 DEF Readable
      <3>4. PixelsOK(p, s)'
        BY <2>1, <2>3, <3>2, <3>3 DEF PixelsOK
      <3>5. QED
        BY <3>1, <3>4
    <2>4. CASE job'[p][s] = NoJob
      <3>1. 0 <= version'[s]
        BY <1>6
      <3>2. TargetOK(p, s)'
        BY <2>4 DEF TargetOK, NoJob
      <3>3. PixelsOK(p, s)'
        BY <2>4, <3>1 DEF PixelsOK, NoJob, Chosen
      <3>4. QED
        BY <3>2, <3>3
    <2>5. CASE job'[p][s] \notin {job[p][s], NoJob}
      <3>1. job[p][s].date <= version'[s]
        BY <2>1, <2>2, <1>6 DEF PixelsOK
      <3>2. job'[p][s].pc \in {"admit", "queue", "lookup"} /\ job'[p][s].date = job[p][s].date
            /\ job'[p][s].file = job[p][s].file /\ job[p][s].pc \in {"none", "admit", "queue"}
        BY <2>5, <1>2
      <3>3. TargetOK(p, s)'
        BY <2>1, <3>2 DEF TargetOK
      <3>4. PixelsOK(p, s)'
        BY <3>1, <3>2 DEF PixelsOK, Chosen
      <3>5. QED
        BY <3>3, <3>4
    <2>6. QED
      BY <2>3, <2>4, <2>5
  <1>8. ASSUME NEW s \in Sources PROVE MappingOK(s)'
    <2>1. MappingOK(s)
      BY DEF IInv, Sound
    <2>2. mapping[s].date <= version'[s]
      BY <2>1, <1>6 DEF MappingOK
    <2>3. mapping[s].file \in PreviewIDs \cup {NoFile}
      BY <1>6 DEF Entry
    <2>4. Readable(mapping[s].file)' => /\ Readable(mapping[s].file)
                                        /\ content'[mapping[s].file] = content[mapping[s].file]
      BY <1>5, <2>3 DEF Readable
    <2>5. QED
      BY <2>1, <2>2, <2>4 DEF MappingOK
  <1>9. QED
    BY <1>3, <1>4, <1>7, <1>8 DEF Sound, JobsOK

\* A job takes a step that leaves the files and the mapping alone.
LEMMA MoveSound ==
    ASSUME IInv, NEW p \in Replicas, NEW s \in Sources, NEW j \in Job,
           job[p][s].pc \in Working, job' = [job EXCEPT ![p][s] = j],
           UNCHANGED <<files, store>>,
           j.pc \in Working /\ j.alone = job[p][s].alone,
           j.file \in {NoFile, job[p][s].file, job[p][s].mapped.file},
           j.mapped.file \in {NoFile, job[p][s].mapped.file, mapping[s].file},
           TargetOK(p, s)', PixelsOK(p, s)'
    PROVE  Sound'
  <1>1. ReplicasOK /\ FilesOK /\ StoreOK /\ Overlaps /\ FilesOwned
    BY DEF IInv, Typed, Sound
  <1>2. /\ job'[p][s] = j
        /\ \A q \in Replicas, t \in Sources : q # p \/ t # s => job'[q][t] = job[q][t]
    BY <1>1, OneJob
  <1>3. UNCHANGED <<mapping, contended, used, rows, content, version>>
    BY DEF files, store
  <1>4. Overlaps'
    BY <1>1, <1>2, <1>3, OverlapsKept
  <1>5. FilesOwned'
    <2>1. \A q \in Replicas, t \in Sources :
            /\ job'[q][t].file \in {NoFile, job[q][t].file, job[q][t].mapped.file}
            /\ job'[q][t].mapped.file \in {NoFile, job[q][t].mapped.file, mapping[t].file}
      BY <1>2
    <2>2. \A t \in Sources, f \in PreviewIDs : RefersTo(t, f)' => RefersTo(t, f)
      BY <2>1, <1>3, PassedOn
    <2>3. QED
      BY <2>2, <1>1, <1>3, OwnersKept
  <1>6. /\ \A q \in Replicas, t \in Sources : q # p \/ t # s => TargetOK(q, t)' /\ PixelsOK(q, t)'
        /\ \A t \in Sources \ {s} : MappingOK(t)'
    BY <1>2, <1>3, OthersSound
  <1>7. MappingOK(s)'
    BY <1>3 DEF IInv, Sound, MappingOK, Readable
  <1>8. QED
    BY <1>4, <1>5, <1>6, <1>7 DEF Sound, JobsOK

\* The lookup starts to work, and marks the jobs that it overlaps with.
LEMMA LookupSound ==
    ASSUME IInv, NEW p \in Replicas, NEW s \in Sources, LookupSource(p, s), s \notin deleted
    PROVE  Sound'
  <1>1. ReplicasOK /\ FilesOK /\ StoreOK /\ Overlaps /\ FilesOwned /\ JobsOK
    BY DEF IInv, Typed, Sound
  <1>2. version \in [Sources -> Versions]
    BY <1>1 DEF FilesOK
  <1>3. /\ job'[p][s] = [job[p][s] EXCEPT !.pc = "target", !.date = version[s],
                                          !.alone = (Rivals(p, s) = {})]
        /\ \A q \in Rivals(p, s) : job'[q][s] = [job[q][s] EXCEPT !.alone = FALSE]
        /\ \A q \in Replicas, t \in Sources :
             t # s \/ (q # p /\ q \notin Rivals(p, s)) => job'[q][t] = job[q][t]
        /\ contended' = IF Rivals(p, s) = {} THEN contended ELSE contended \cup {s}
        /\ UNCHANGED <<files, mapping>>
    BY <1>1, <1>2, LookupEffect
  <1>4. UNCHANGED <<mapping, used, rows, content, version>>
    BY <1>3 DEF files
  <1>5. \A q \in Replicas \ {p} : q \in Rivals(p, s) <=> job[q][s].pc \in Working
    BY DEF Rivals
  <1>6. /\ job[p][s].pc = "lookup" /\ job[p][s] \in Job
        /\ job'[p][s].pc = "target" /\ job'[p][s].date = version[s]
        /\ job'[p][s].mapped = job[p][s].mapped /\ job'[p][s].file = job[p][s].file
    BY <1>1, <1>3, JobFields DEF LookupSource, Job
  <1>7. job'[p][s].alone <=> Rivals(p, s) = {}
    BY <1>3, <1>6 DEF Job
  <1>8. ASSUME NEW q \in Rivals(p, s)
        PROVE  /\ q \in Replicas \ {p} /\ ~job'[q][s].alone
               /\ job'[q][s].pc = job[q][s].pc /\ job'[q][s].date = job[q][s].date
               /\ job'[q][s].mapped = job[q][s].mapped /\ job'[q][s].file = job[q][s].file
               /\ job'[q][s].pixels = job[q][s].pixels
    <2>1. q \in Replicas \ {p}
      BY DEF Rivals
    <2>2. job[q][s] \in Job /\ job'[q][s] = [job[q][s] EXCEPT !.alone = FALSE]
      BY <2>1, <1>1, <1>3, JobFields
    <2>3. QED
      BY <2>1, <2>2 DEF Job
  <1>9. AloneIsAlone'
    <2> SUFFICES ASSUME NEW t \in Sources, NEW q \in Replicas, NEW r \in Replicas,
                        job'[q][t].pc \in Working, job'[q][t].alone, job'[r][t].pc \in Working
                 PROVE  r = q
      BY DEF AloneIsAlone
    <2>1. CASE t # s
      BY <2>1, <1>1, <1>3 DEF Overlaps, AloneIsAlone
    <2>2. CASE t = s
      <3>1. q = p \/ job'[q][s] = job[q][s]
        BY <2>2, <1>3, <1>8
      <3>2. q = p
        BY <2>2, <3>1, <1>5, <1>8
      <3>3. Rivals(p, s) = {}
        BY <2>2, <3>2, <1>7
      <3>4. r = p \/ job'[r][s] = job[r][s]
        BY <3>3, <1>3
      <3>5. QED
        BY <2>2, <3>2, <3>3, <3>4, <1>5
    <2>3. QED
      BY <2>1, <2>2
  <1>10. OverlapsRecorded'
    <2> SUFFICES ASSUME NEW t \in Sources \ contended', NEW q \in Replicas, job'[q][t].pc \in Working
                 PROVE  job'[q][t].alone
      BY DEF OverlapsRecorded
    <2>1. CASE t # s
      <3>1. t \notin contended /\ job'[q][t] = job[q][t]
        BY <2>1, <1>3
      <3>2. QED
        BY <3>1, <1>1 DEF Overlaps, OverlapsRecorded
    <2>2. CASE t = s
      <3>1. Rivals(p, s) = {}
        BY <2>2, <1>3
      <3>2. q = p \/ job'[q][s] = job[q][s]
        BY <3>1, <1>3
      <3>3. q = p
        BY <2>2, <3>1, <3>2, <1>5
      <3>4. QED
        BY <2>2, <3>1, <3>3, <1>7
    <2>3. QED
      BY <2>1, <2>2
  <1>11. FilesOwned'
    <2>1. ASSUME NEW q \in Replicas, NEW t \in Sources
          PROVE  /\ job'[q][t].file \in {NoFile, job[q][t].file, job[q][t].mapped.file}
                 /\ job'[q][t].mapped.file \in {NoFile, job[q][t].mapped.file, mapping[t].file}
      <3>1. CASE q = p /\ t = s
        BY <3>1, <1>6
      <3>2. CASE t = s /\ q \in Rivals(p, s)
        BY <3>2, <1>8
      <3>3. CASE t # s \/ (q # p /\ q \notin Rivals(p, s))
        BY <3>3, <1>3
      <3>4. QED
        BY <3>1, <3>2, <3>3
    <2>2. \A t \in Sources, f \in PreviewIDs : RefersTo(t, f)' => RefersTo(t, f)
      BY <2>1, <1>4, PassedOn
    <2>3. QED
      BY <2>2, <1>1, <1>4, OwnersKept
  <1>12. ASSUME NEW q \in Replicas, NEW t \in Sources PROVE TargetOK(q, t)' /\ PixelsOK(q, t)'
    <2>1. TargetOK(q, t) /\ PixelsOK(q, t) /\ version[t] \in Int
      BY <1>1, <1>2 DEF JobsOK, Versions
    <2>2. CASE q = p /\ t = s
      <3>1. TargetOK(q, t)'
        BY <2>1, <2>2, <1>6 DEF TargetOK
      <3>2. version[s] <= version'[s]
        BY <2>1, <2>2, <1>4
      <3>3. PixelsOK(q, t)'
        BY <2>2, <3>2, <1>6 DEF PixelsOK, Chosen
      <3>4. QED
        BY <3>1, <3>3
    <2>3. CASE t = s /\ q \in Rivals(p, s)
      <3>1. TargetOK(q, t)'
        BY <2>1, <2>3, <1>4, <1>8 DEF TargetOK
      <3>2. PixelsOK(q, t)'
        BY <2>1, <2>3, <1>4, <1>8 DEF PixelsOK
      <3>3. QED
        BY <3>1, <3>2
    <2>4. CASE t # s \/ (q # p /\ q \notin Rivals(p, s))
      <3>1. job'[q][t] = job[q][t]
        BY <2>4, <1>3
      <3>2. QED
        BY <2>1, <3>1, <1>4 DEF TargetOK, PixelsOK, Readable
    <2>5. QED
      BY <2>2, <2>3, <2>4
  <1>13. ASSUME NEW t \in Sources PROVE MappingOK(t)'
    <2>1. t \notin contended' => t \notin contended
      BY <1>3
    <2>2. QED
      BY <2>1, <1>4 DEF IInv, Sound, MappingOK, Readable
  <1>14. QED
    BY <1>9, <1>10, <1>11, <1>12, <1>13 DEF Sound, Overlaps, JobsOK

\* writeTarget, the metadata lookup, the read of the source and the render
\* prepare the write: none of them touches a file or the mapping.
LEMMA PrepareSound ==
    ASSUME IInv, NEW p \in Replicas, NEW s \in Sources,
           \/ FindTarget(p, s)
           \/ Recheck(p, s) /\ ~Readable(job[p][s].mapped.file)
           \/ LookupMeta(p, s)
           \/ ReadSource(p, s)
           \/ Render(p, s)
    PROVE  Sound'
  <1>1. ReplicasOK /\ FilesOK /\ StoreOK /\ Overlaps /\ FilesOwned /\ JobsOK
    BY DEF IInv, Typed, Sound
  <1>2. /\ job[p][s] \in Job /\ TargetOK(p, s) /\ PixelsOK(p, s) /\ MappingOK(s)
        /\ job[p][s].date \in Nat /\ version[s] \in Nat /\ mapping[s] \in Entry
        /\ mapping[s].date \in Nat /\ job[p][s].mapped \in Entry
    BY <1>1, JobFields DEF JobsOK, FilesOK, StoreOK, Versions, Entry, IInv, Sound
  <1>3. UNCHANGED <<files, store>>
    BY DEF FindTarget, Recheck, LookupMeta, ReadSource, Render
  <1>4. UNCHANGED <<mapping, used, rows, content, version, contended>>
    BY <1>3 DEF files, store
  <1>5. NoFile \notin rows
    BY <1>1, NoFileAssumption DEF FilesOK
  <1>6. CASE FindTarget(p, s)
    <2>1. PICK x \in {"read", "recheck", "meta"} :
            /\ job' = [job EXCEPT ![p][s] = [job[p][s] EXCEPT !.pc = x, !.mapped = mapping[s]]]
            /\ x = "read" => mapping[s] = NoEntry
            /\ x = "recheck" => mapping[s].date = job[p][s].date
      BY <1>1, <1>6, TargetEffect
    <2> DEFINE j == [job[p][s] EXCEPT !.pc = x, !.mapped = mapping[s]]
    <2>2. /\ j.pc = x /\ j.mapped = mapping[s] /\ j.file = job[p][s].file
          /\ j.date = job[p][s].date /\ j.alone = job[p][s].alone
      BY <1>2 DEF Job
    <2>3. j \in Job
      BY <1>2 DEF Job, JobSteps
    <2>4. job' = [job EXCEPT ![p][s] = j]
      BY <2>1
    <2> HIDE DEF j
    <2>5. job'[p][s] = j
      BY <2>4, <1>1 DEF ReplicasOK
    <2>6. job[p][s].pc = "target" /\ job[p][s].file = NoFile
      BY <1>2, <1>6 DEF FindTarget, TargetOK
    <2>7. x = "read" => mapping[s].file = NoFile
      BY <2>1 DEF NoEntry
    <2>8. TargetOK(p, s)'
      BY <2>2, <2>5, <2>6, <2>7 DEF TargetOK
    <2>9. PixelsOK(p, s)'
      BY <2>2, <2>5, <1>2, <1>4 DEF PixelsOK
    <2>10. x \in Working /\ job[p][s].pc \in Working
      BY <2>6, WorkingSteps DEF Chosen
    <2>11. QED
      BY <2>2, <2>3, <2>4, <2>8, <2>9, <2>10, <1>3, MoveSound
  <1>7. CASE Recheck(p, s) /\ ~Readable(job[p][s].mapped.file)
    <2> DEFINE j == [job[p][s] EXCEPT !.pc = "meta"]
    <2>1. job' = [job EXCEPT ![p][s] = j] /\ job[p][s].pc = "recheck"
      BY <1>1, <1>7 DEF Recheck, ReplicasOK
    <2>2. /\ j.pc = "meta" /\ j.mapped = job[p][s].mapped /\ j.file = job[p][s].file
          /\ j.date = job[p][s].date /\ j.alone = job[p][s].alone
      BY <1>2 DEF Job
    <2>3. j \in Job
      BY <1>2 DEF Job, JobSteps
    <2> HIDE DEF j
    <2>4. job'[p][s] = j
      BY <2>1, <1>1 DEF ReplicasOK
    <2>5. TargetOK(p, s)'
      BY <2>1, <2>2, <2>4, <1>2 DEF TargetOK
    <2>6. PixelsOK(p, s)'
      BY <2>1, <2>2, <2>4, <1>2, <1>4 DEF PixelsOK, Chosen
    <2>7. j.pc \in Working /\ job[p][s].pc \in Working
      BY <2>1, <2>2, WorkingSteps DEF Chosen
    <2>8. QED
      BY <2>1, <2>2, <2>3, <2>5, <2>6, <2>7, <1>3, MoveSound
  <1>8. CASE LookupMeta(p, s)
    <2> DEFINE f == job[p][s].mapped.file
               g == IF RowExists(f) THEN f ELSE NoFile
               j == [job[p][s] EXCEPT !.pc = "read", !.file = g]
    <2>1. job' = [job EXCEPT ![p][s] = j] /\ job[p][s].pc = "meta"
      BY <1>1, <1>8 DEF LookupMeta, ReplicasOK
    <2>2. g \in {NoFile, f} /\ (g = f \/ f \notin rows)
      BY DEF RowExists
    <2>3. f \in PreviewIDs \cup {NoFile}
      BY <1>2 DEF Entry
    <2> HIDE DEF g
    <2>4. /\ j.pc = "read" /\ j.mapped = job[p][s].mapped /\ j.file = g
          /\ j.date = job[p][s].date /\ j.alone = job[p][s].alone
      BY <1>2 DEF Job
    <2>5. j \in Job
      BY <2>2, <2>3, <1>2 DEF Job, JobSteps
    <2> HIDE DEF j
    <2>6. job'[p][s] = j
      BY <2>1, <1>1 DEF ReplicasOK
    <2>7. TargetOK(p, s)'
      BY <2>2, <2>4, <2>6, <1>4 DEF TargetOK
    <2>8. PixelsOK(p, s)'
      BY <2>1, <2>4, <2>6, <1>2, <1>4 DEF PixelsOK, Chosen
    <2>9. j.pc \in Working /\ job[p][s].pc \in Working
      BY <2>1, <2>4, WorkingSteps DEF Chosen
    <2>10. QED
      BY <2>1, <2>2, <2>4, <2>5, <2>7, <2>8, <2>9, <1>3, MoveSound
  <1>9. CASE ReadSource(p, s)
    <2> DEFINE j == [job[p][s] EXCEPT !.pc = "render", !.pixels = version[s]]
    <2>1. job' = [job EXCEPT ![p][s] = j] /\ job[p][s].pc = "read"
      BY <1>1, <1>9 DEF ReadSource, ReplicasOK
    <2>2. /\ j.pc = "render" /\ j.mapped = job[p][s].mapped /\ j.file = job[p][s].file
          /\ j.date = job[p][s].date /\ j.alone = job[p][s].alone /\ j.pixels = version[s]
      BY <1>2 DEF Job
    <2>3. version[s] \in Versions
      BY <1>1 DEF FilesOK
    <2>4. j \in Job
      BY <2>3, <1>2 DEF Job, JobSteps
    <2> HIDE DEF j
    <2>5. job'[p][s] = j
      BY <2>1, <1>1 DEF ReplicasOK
    <2>6. TargetOK(p, s)'
      BY <2>1, <2>2, <2>5, <1>2, <1>4 DEF TargetOK
    <2>7. mapping[s].date <= version[s] /\ job[p][s].date <= version[s]
      BY <1>2 DEF MappingOK, PixelsOK
    <2>8. PixelsOK(p, s)'
      BY <2>1, <2>2, <2>5, <2>7, <1>2, <1>4 DEF PixelsOK, Chosen
    <2>9. j.pc \in Working /\ job[p][s].pc \in Working
      BY <2>1, <2>2, WorkingSteps DEF Chosen
    <2>10. QED
      BY <2>1, <2>2, <2>4, <2>6, <2>8, <2>9, <1>3, MoveSound
  <1>10. CASE Render(p, s)
    <2> DEFINE x == IF job[p][s].file = NoFile THEN "create" ELSE "write"
               j == [job[p][s] EXCEPT !.pc = x]
    <2>1. job' = [job EXCEPT ![p][s] = j] /\ job[p][s].pc = "render"
      BY <1>1, <1>10 DEF Render, ReplicasOK
    <2>2. x \in {"create", "write"} /\ (x = "create" => job[p][s].file = NoFile)
      OBVIOUS
    <2> HIDE DEF x
    <2>3. /\ j.pc = x /\ j.mapped = job[p][s].mapped /\ j.file = job[p][s].file
          /\ j.date = job[p][s].date /\ j.alone = job[p][s].alone /\ j.pixels = job[p][s].pixels
      BY <1>2 DEF Job
    <2>4. j \in Job
      BY <2>2, <1>2 DEF Job, JobSteps
    <2> HIDE DEF j
    <2>5. job'[p][s] = j
      BY <2>1, <1>1 DEF ReplicasOK
    <2>6. TargetOK(p, s)'
      BY <2>1, <2>2, <2>3, <2>5, <1>2, <1>4 DEF TargetOK
    <2>7. PixelsOK(p, s)'
      BY <2>1, <2>2, <2>3, <2>5, <1>2, <1>4 DEF PixelsOK, Chosen
    <2>8. j.pc \in Working /\ job[p][s].pc \in Working
      BY <2>1, <2>2, <2>3, WorkingSteps DEF Chosen
    <2>9. QED
      BY <2>1, <2>3, <2>4, <2>6, <2>7, <2>8, <1>3, MoveSound
  <1>11. QED
    BY <1>6, <1>7, <1>8, <1>9, <1>10

\* The write replaces the content of a file of the source by pixels that are
\* at least as new as the mapping says, whatever becomes of the answer.
LEMMA WriteSound ==
    ASSUME IInv, NEW p \in Replicas, NEW s \in Sources, WriteFile(p, s)
    PROVE  Sound'
  <1>1. ReplicasOK /\ FilesOK /\ StoreOK /\ Overlaps /\ FilesOwned /\ JobsOK
    BY DEF IInv, Typed, Sound
  <1> DEFINE f == job[p][s].file
             b == [job[p][s] EXCEPT !.pc = "commit"]
  <1>2. /\ job[p][s] \in Job /\ TargetOK(p, s) /\ PixelsOK(p, s) /\ MappingOK(s)
        /\ job[p][s].pixels \in Versions /\ job[p][s].date \in Nat /\ version[s] \in Nat
    BY <1>1, JobFields DEF JobsOK, FilesOK, Versions, IInv, Sound
  <1>3. /\ job[p][s].pc = "write" /\ f \in rows
        /\ content' = [content EXCEPT ![f] = job[p][s].pixels]
        /\ UNCHANGED <<mapping, used, rows, version, contended>>
    BY DEF WriteFile, store
  <1>4. f \in used /\ f \in PreviewIDs /\ RefersTo(s, f)
    BY <1>1, <1>3 DEF FilesOK, RefersTo
  <1>5. /\ content'[f] = job[p][s].pixels
        /\ \A g \in PreviewIDs \ {f} : content'[g] = content[g]
    BY <1>1, <1>3, <1>4 DEF FilesOK
  <1>6. job[p][s].pc \in Working
    BY <1>3, WorkingSteps DEF Chosen
  <1>7. /\ b \in Job /\ b.pc = "commit" /\ b.mapped = job[p][s].mapped /\ b.file = f
        /\ b.date = job[p][s].date /\ b.alone = job[p][s].alone
    BY <1>2 DEF Job, JobSteps
  <1>8. \/ job' = [job EXCEPT ![p][s] = b]
        \/ job' = [job EXCEPT ![p][s] = NoJob]
    BY DEF WriteFile, GiveUp
  <1> HIDE DEF b
  <1>9. /\ job'[p][s] = b \/ job'[p][s] = NoJob
        /\ \A q \in Replicas, t \in Sources : q # p \/ t # s => job'[q][t] = job[q][t]
    BY <1>1, <1>8 DEF ReplicasOK
  <1>10. Overlaps'
    <2>1. \A q \in Replicas, t \in Sources :
            job'[q][t].pc \in Working =>
                job[q][t].pc \in Working /\ job'[q][t].alone = job[q][t].alone
      BY <1>6, <1>7, <1>9, WorkingSteps DEF NoJob
    <2>2. QED
      BY <2>1, <1>1, <1>3, OverlapsKept
  <1>11. FilesOwned'
    <2>1. \A q \in Replicas, t \in Sources :
            /\ job'[q][t].file \in {NoFile, job[q][t].file, job[q][t].mapped.file}
            /\ job'[q][t].mapped.file \in {NoFile, job[q][t].mapped.file, mapping[t].file}
      BY <1>7, <1>9 DEF NoJob, NoEntry
    <2>2. \A t \in Sources, g \in PreviewIDs : RefersTo(t, g)' => RefersTo(t, g)
      BY <2>1, <1>3, PassedOn
    <2>3. QED
      BY <2>2, <1>1, <1>3, OwnersKept
  <1>12. /\ \A q \in Replicas, t \in Sources : q # p \/ t # s => TargetOK(q, t)' /\ PixelsOK(q, t)'
         /\ \A t \in Sources \ {s} : MappingOK(t)'
    <2>1. \A g \in used : content'[g] = content[g] \/ RefersTo(s, g)
      BY <1>1, <1>4, <1>5 DEF FilesOK
    <2>2. QED
      BY <2>1, <1>3, <1>6, <1>9, OthersSound
  <1>13. TargetOK(p, s)'
    BY <1>2, <1>3, <1>7, <1>9 DEF TargetOK, NoJob
  <1>14. job[p][s].date <= job[p][s].pixels
    BY <1>2, <1>3 DEF PixelsOK
  <1>15. PixelsOK(p, s)'
    <2>1. CASE job'[p][s] = b
      BY <2>1, <1>2, <1>3, <1>5, <1>7, <1>14 DEF PixelsOK, Chosen
    <2>2. CASE job'[p][s] = NoJob
      <3>1. 0 <= version'[s]
        BY <1>2, <1>3
      <3>2. QED
        BY <2>2, <3>1 DEF PixelsOK, Chosen, NoJob
    <2>3. QED
      BY <2>1, <2>2, <1>9
  <1>16. MappingOK(s)'
    <2>1. mapping[s].file \in PreviewIDs \cup {NoFile}
      BY <1>1 DEF StoreOK, Entry
    <2>2. s \notin contended => mapping[s].date <= job[p][s].pixels
      <3>1. s \notin contended => job[p][s].alone
        BY <1>1, <1>6 DEF Overlaps, OverlapsRecorded
      <3>2. QED
        BY <3>1, <1>2, <1>3 DEF PixelsOK
    <2>3. CASE mapping[s].file = f
      BY <2>2, <2>3, <1>2, <1>3, <1>5 DEF MappingOK
    <2>4. CASE mapping[s].file # f
      <3>1. Readable(mapping[s].file)' => /\ Readable(mapping[s].file)
                                          /\ content'[mapping[s].file] = content[mapping[s].file]
        BY <2>1, <2>4, <1>1, <1>3, <1>5, NoFileAssumption DEF Readable, FilesOK
      <3>2. QED
        BY <3>1, <1>2, <1>3 DEF MappingOK
    <2>5. QED
      BY <2>3, <2>4
  <1>17. QED
    BY <1>10, <1>11, <1>12, <1>13, <1>15, <1>16 DEF Sound, JobsOK

\* A new preview file has an ID that nothing refers to.
LEMMA CreateSound ==
    ASSUME IInv, NEW p \in Replicas, NEW s \in Sources, CreatePreviewFile(p, s)
    PROVE  Sound'
  <1>1. ReplicasOK /\ FilesOK /\ StoreOK /\ Overlaps /\ FilesOwned /\ JobsOK
    BY DEF IInv, Typed, Sound
  <1>2. /\ job[p][s] \in Job /\ TargetOK(p, s) /\ PixelsOK(p, s) /\ MappingOK(s)
        /\ job[p][s].pixels \in Versions /\ job[p][s].date \in Nat /\ version[s] \in Nat
        /\ job[p][s].mapped \in Entry
    BY <1>1, JobFields DEF JobsOK, FilesOK, Versions, IInv, Sound
  <1>3. PICK f \in PreviewIDs \ used :
          /\ rows' = rows \cup {f}
          /\ used' = used \cup {f}
          /\ content' = [content EXCEPT ![f] = job[p][s].pixels]
          /\ \/ job' = [job EXCEPT ![p][s].pc = "commit", ![p][s].file = f, ![p][s].fresh = TRUE]
             \/ job' = [job EXCEPT ![p][s] = NoJob]
    BY DEF CreatePreviewFile, GiveUp
  <1>4. job[p][s].pc = "create" /\ UNCHANGED <<mapping, version, contended>>
    BY DEF CreatePreviewFile, store
  <1>5. /\ content'[f] = job[p][s].pixels
        /\ \A g \in PreviewIDs \ {f} : content'[g] = content[g]
    BY <1>1, <1>3 DEF FilesOK
  <1>6. job[p][s].pc \in Working
    BY <1>4, WorkingSteps DEF Chosen
  <1> DEFINE b == [job[p][s] EXCEPT !.pc = "commit", !.file = f, !.fresh = TRUE]
  <1>7. /\ b.pc = "commit" /\ b.mapped = job[p][s].mapped /\ b.file = f
        /\ b.date = job[p][s].date /\ b.alone = job[p][s].alone
    BY <1>2 DEF Job
  <1>8. \/ job' = [job EXCEPT ![p][s] = b]
        \/ job' = [job EXCEPT ![p][s] = NoJob]
    <2>1. CASE job' = [job EXCEPT ![p][s].pc = "commit", ![p][s].file = f, ![p][s].fresh = TRUE]
      <3>1. job' = [job EXCEPT ![p][s] = b]
        BY <2>1, <1>1 DEF ReplicasOK
      <3>2. QED
        BY <3>1
    <2>2. CASE job' = [job EXCEPT ![p][s] = NoJob]
      BY <2>2
    <2>3. QED
      BY <2>1, <2>2, <1>3
  <1> HIDE DEF b
  <1>9. /\ job'[p][s] = b \/ job'[p][s] = NoJob
        /\ \A q \in Replicas, t \in Sources : q # p \/ t # s => job'[q][t] = job[q][t]
    BY <1>1, <1>8 DEF ReplicasOK
  <1>10. Overlaps'
    <2>1. \A q \in Replicas, t \in Sources :
            job'[q][t].pc \in Working =>
                job[q][t].pc \in Working /\ job'[q][t].alone = job[q][t].alone
      BY <1>6, <1>7, <1>9, WorkingSteps DEF NoJob
    <2>2. QED
      BY <2>1, <1>1, <1>4, OverlapsKept
  <1>11. \A t \in Sources : ~RefersTo(t, f)
    BY <1>1, <1>3 DEF FilesOwned
  <1>12. FilesOwned'
    <2>1. ASSUME NEW t \in Sources, NEW g \in PreviewIDs, RefersTo(t, g)'
          PROVE  RefersTo(t, g) \/ (t = s /\ g = f)
      <3>1. mapping'[t].file = g => RefersTo(t, g)
        BY <1>4 DEF RefersTo
      <3>2. ASSUME NEW q \in Replicas, job'[q][t].file = g \/ job'[q][t].mapped.file = g
            PROVE  RefersTo(t, g) \/ (t = s /\ g = f)
        <4>1. CASE q # p \/ t # s
          BY <3>2, <4>1, <1>9 DEF RefersTo
        <4>2. CASE q = p /\ t = s
          BY <3>2, <4>2, <1>7, <1>9, NoFileAssumption DEF RefersTo, NoJob, NoEntry
        <4>3. QED
          BY <4>1, <4>2
      <3>3. QED
        BY <2>1, <3>1, <3>2 DEF RefersTo
    <2>2. QED
      BY <2>1, <1>1, <1>3, <1>11 DEF FilesOwned
  <1>13. /\ \A q \in Replicas, t \in Sources : q # p \/ t # s => TargetOK(q, t)' /\ PixelsOK(q, t)'
         /\ \A t \in Sources \ {s} : MappingOK(t)'
    <2>1. \A g \in used : content'[g] = content[g] \/ RefersTo(s, g)
      BY <1>1, <1>3, <1>5 DEF FilesOK
    <2>2. rows' \subseteq rows \cup (PreviewIDs \ used)
      BY <1>3
    <2>3. QED
      BY <2>1, <2>2, <1>4, <1>6, <1>9, OthersSound
  <1>14. TargetOK(p, s)'
    <2>1. job[p][s].mapped.file \notin rows
      BY <1>1, <1>2, <1>4, NoFileAssumption DEF TargetOK, FilesOK
    <2>2. job[p][s].mapped.file # f
      BY <1>11 DEF RefersTo
    <2>3. QED
      BY <2>1, <2>2, <1>3, <1>7, <1>9 DEF TargetOK, NoJob
  <1>15. job[p][s].date <= job[p][s].pixels
    BY <1>2, <1>4 DEF PixelsOK
  <1>16. PixelsOK(p, s)'
    <2>1. CASE job'[p][s] = b
      BY <2>1, <1>2, <1>4, <1>5, <1>7, <1>15 DEF PixelsOK, Chosen
    <2>2. CASE job'[p][s] = NoJob
      <3>1. 0 <= version'[s]
        BY <1>2, <1>4
      <3>2. QED
        BY <2>2, <3>1 DEF PixelsOK, Chosen, NoJob
    <2>3. QED
      BY <2>1, <2>2, <1>9
  <1>17. MappingOK(s)'
    <2>1. mapping[s].file \in PreviewIDs \cup {NoFile} /\ mapping[s].file # f
      BY <1>1, <1>11 DEF StoreOK, Entry, RefersTo
    <2>2. Readable(mapping[s].file)' => /\ Readable(mapping[s].file)
                                        /\ content'[mapping[s].file] = content[mapping[s].file]
      BY <2>1, <1>1, <1>3, <1>4, <1>5, NoFileAssumption DEF Readable, FilesOK
    <2>3. QED
      BY <2>2, <1>2, <1>4 DEF MappingOK
  <1>18. QED
    BY <1>10, <1>12, <1>13, <1>14, <1>16, <1>17 DEF Sound, JobsOK

\* The upsert, whether it succeeds, fails, or is applied and reported failed.
LEMMA CommitSound ==
    ASSUME IInv, NEW p \in Replicas, NEW s \in Sources, Upsert(p, s) \/ UpsertFails(p, s)
    PROVE  Sound'
  <1>1. ReplicasOK /\ FilesOK /\ StoreOK /\ Overlaps /\ FilesOwned /\ JobsOK
    BY DEF IInv, Typed, Sound
  <1>2. /\ job[p][s] \in Job /\ TargetOK(p, s) /\ PixelsOK(p, s) /\ MappingOK(s)
        /\ job[p][s].date \in Nat /\ version[s] \in Nat
    BY <1>1, JobFields DEF JobsOK, FilesOK, Versions, IInv, Sound
  <1> DEFINE c == [job[p][s] EXCEPT !.pc = "cleanup"]
             new == [file |-> job[p][s].file, date |-> job[p][s].date]
  <1>3. /\ job[p][s].pc = "commit"
        /\ UNCHANGED <<version, rows, content, used>>
        /\ \/ mapping' = mapping /\ contended' = contended
           \/ mapping' = [mapping EXCEPT ![s] = new]
    BY DEF Upsert, UpsertFails, Committed, files
  <1>4. job' = [job EXCEPT ![p][s] = NoJob] \/ job' = [job EXCEPT ![p][s] = c]
    BY DEF Upsert, UpsertFails, Succeed, GiveUp
  <1>5. /\ c.pc = "cleanup" /\ c.mapped = job[p][s].mapped /\ c.file = job[p][s].file
        /\ c.date = job[p][s].date /\ c.alone = job[p][s].alone
    BY <1>2 DEF Job
  <1> HIDE DEF c
  <1>6. /\ job'[p][s] = c \/ job'[p][s] = NoJob
        /\ \A q \in Replicas, t \in Sources : q # p \/ t # s => job'[q][t] = job[q][t]
    BY <1>1, <1>4 DEF ReplicasOK
  <1>7. /\ (mapping'[s] = mapping[s] /\ contended' = contended) \/ mapping'[s] = new
        /\ \A t \in Sources \ {s} : mapping'[t] = mapping[t]
    BY <1>1, <1>3 DEF StoreOK
  <1>8. new.file = job[p][s].file /\ new.date = job[p][s].date
    OBVIOUS
  <1> HIDE DEF new
  <1>9. job[p][s].pc \in Working
    BY <1>3, WorkingSteps DEF Chosen
  <1>10. /\ \A t \in Sources \ {s} : t \in contended' <=> t \in contended
         /\ s \notin contended' => job[p][s].alone
    <2>1. contended' = contended \/ (job[p][s].alone /\ contended' = contended \ {s})
      BY DEF Upsert, UpsertFails
    <2>2. s \notin contended => job[p][s].alone
      BY <1>1, <1>9 DEF Overlaps, OverlapsRecorded
    <2>3. QED
      BY <2>1, <2>2
  <1>11. \A q \in Replicas, t \in Sources :
            job'[q][t].pc \in Working =>
                job[q][t].pc \in Working /\ job'[q][t].alone = job[q][t].alone
    BY <1>5, <1>6, <1>9, WorkingSteps DEF NoJob
  <1>12. AloneIsAlone'
    BY <1>1, <1>11 DEF Overlaps, AloneIsAlone
  <1>13. OverlapsRecorded'
    <2> SUFFICES ASSUME NEW t \in Sources \ contended', NEW q \in Replicas, job'[q][t].pc \in Working
                 PROVE  job'[q][t].alone
      BY DEF OverlapsRecorded
    <2>1. job[q][t].pc \in Working /\ job'[q][t].alone = job[q][t].alone
      BY <1>11
    <2>2. CASE t # s
      BY <2>1, <2>2, <1>1, <1>10 DEF Overlaps, OverlapsRecorded
    <2>3. CASE t = s
      <3>1. job[p][s].alone
        BY <2>3, <1>10
      <3>2. q = p
        BY <2>1, <2>3, <3>1, <1>1, <1>9 DEF Overlaps, AloneIsAlone
      <3>3. QED
        BY <2>1, <2>3, <3>1, <3>2
    <2>4. QED
      BY <2>2, <2>3
  <1>14. FilesOwned'
    <2>1. \A q \in Replicas, t \in Sources :
            /\ job'[q][t].file \in {NoFile, job[q][t].file, job[q][t].mapped.file}
            /\ job'[q][t].mapped.file \in {NoFile, job[q][t].mapped.file, mapping[t].file}
      BY <1>5, <1>6 DEF NoJob, NoEntry
    <2>2. \A t \in Sources : \/ mapping'[t].file = mapping[t].file
                             \/ \E q \in Replicas : mapping'[t].file = job[q][t].file
      BY <1>7, <1>8
    <2>3. \A t \in Sources, g \in PreviewIDs : RefersTo(t, g)' => RefersTo(t, g)
      BY <2>1, <2>2, PassedOn
    <2>4. QED
      BY <2>3, <1>1, <1>3, OwnersKept
  <1>15. /\ \A q \in Replicas, t \in Sources : q # p \/ t # s => TargetOK(q, t)' /\ PixelsOK(q, t)'
         /\ \A t \in Sources \ {s} : MappingOK(t)'
    BY <1>3, <1>6, <1>7, <1>9, <1>10, OthersSound
  <1>16. TargetOK(p, s)'
    BY <1>5, <1>6 DEF TargetOK, NoJob
  <1>17. job[p][s].date <= version[s] /\ 0 <= version[s]
    BY <1>2 DEF PixelsOK
  <1>18. PixelsOK(p, s)'
    BY <1>3, <1>5, <1>6, <1>17 DEF PixelsOK, Chosen, NoJob
  <1>19. MappingOK(s)'
    <2>1. s \notin contended' /\ Readable(job[p][s].file) => job[p][s].date <= content[job[p][s].file]
      BY <1>2, <1>3, <1>10 DEF PixelsOK
    <2>2. CASE mapping'[s] = new
      BY <2>1, <2>2, <1>3, <1>8, <1>17 DEF MappingOK, Readable
    <2>3. CASE mapping'[s] = mapping[s] /\ contended' = contended
      BY <2>3, <1>2, <1>3 DEF MappingOK, Readable
    <2>4. QED
      BY <2>2, <2>3, <1>7
  <1>20. QED
    BY <1>12, <1>13, <1>14, <1>15, <1>16, <1>18, <1>19 DEF Sound, Overlaps, JobsOK

\* Initially nothing is mapped and no job is at work.
LEMMA SoundInit == Init => Sound
  <1> SUFFICES ASSUME Init PROVE Sound
    OBVIOUS
  <1>1. \A p \in Replicas, s \in Sources : job[p][s] = NoJob
    BY DEF Init
  <1>2. \A s \in Sources : mapping[s] = NoEntry /\ version[s] = 1
    BY DEF Init
  <1>3. rows = {}
    BY DEF Init
  <1>4. Overlaps
    BY <1>1, WorkingSteps DEF Overlaps, AloneIsAlone, OverlapsRecorded, NoJob
  <1>5. FilesOwned
    BY <1>1, <1>2, NoFileAssumption DEF FilesOwned, RefersTo, NoJob, NoEntry
  <1>6. JobsOK
    BY <1>1, <1>2 DEF JobsOK, TargetOK, PixelsOK, NoJob, Chosen
  <1>7. \A s \in Sources : MappingOK(s)
    BY <1>2, <1>3 DEF MappingOK, Readable, NoEntry
  <1>8. QED
    BY <1>4, <1>5, <1>6, <1>7 DEF Sound

\* Jobs that end without another effect, and everything that is not a job.
LEMMA QuietSteps ==
    ASSUME IInv, [Next]_vars,
           \/ UNCHANGED <<files, store>>
           \/ Environment
           \/ \E p \in Replicas, s \in Sources : DeletePreviewFile(p, s),
           \A p \in Replicas, s \in Sources :
                job'[p][s] \in {job[p][s], NoJob} \/ Waits(job'[p][s], job[p][s])
    PROVE  Sound'
  <1>1. FilesOK
    BY DEF IInv, Typed
  <1>2. ASSUME NEW s \in Sources PROVE version[s] \in Nat
    BY <1>1 DEF FilesOK, Versions
  <1>3. CASE UNCHANGED <<files, store>>
    <2>1. UNCHANGED <<mapping, contended, used, rows, version, content>>
      BY <1>3 DEF files, store
    <2>2. \A s \in Sources : version'[s] \in Int /\ version[s] <= version'[s]
      BY <2>1, <1>2
    <2>3. QED
      BY <2>1, <2>2, QuietSound
  <1>4. CASE Environment
    <2>1. UNCHANGED <<mapping, contended, used>>
      BY <1>4 DEF Environment, SaveSource, DeleteSource, LosePreview, store
    <2>2. \A s \in Sources : version'[s] \in Int /\ version[s] <= version'[s]
      BY <1>1, <1>2, <1>4 DEF Environment, SaveSource, DeleteSource, LosePreview, FilesOK
    <2>3. rows' \subseteq rows /\ \A f \in PreviewIDs : content'[f] \in {content[f], 0}
      BY <1>1, <1>4 DEF Environment, SaveSource, DeleteSource, LosePreview, FilesOK
    <2>4. QED
      BY <2>1, <2>2, <2>3, QuietSound
  <1>5. CASE \E p \in Replicas, s \in Sources : DeletePreviewFile(p, s)
    <2>1. rows' \subseteq rows /\ UNCHANGED <<mapping, contended, used, version, content>>
      BY <1>5 DEF DeletePreviewFile, store
    <2>2. \A s \in Sources : version'[s] \in Int /\ version[s] <= version'[s]
      BY <2>1, <1>2
    <2>3. QED
      BY <2>1, <2>2, QuietSound
  <1>6. QED
    BY <1>3, <1>4, <1>5

\* Every step keeps who works on what, who refers to which file, and the order
\* of dates, pixels and versions.
LEMMA SoundStep == IInv /\ [Next]_vars => Sound'
  <1> SUFFICES ASSUME IInv, [Next]_vars PROVE Sound'
    OBVIOUS
  <1>1. ReplicasOK /\ ClientOK
    BY DEF IInv, Typed
  <1>2. ASSUME UNCHANGED job, UNCHANGED <<files, store>> \/ Environment PROVE Sound'
    BY <1>2, QuietSteps
  <1>3. ASSUME NEW p \in Replicas, NEW s \in Sources, job' = [job EXCEPT ![p][s] = NoJob],
               UNCHANGED <<files, store>> \/ DeletePreviewFile(p, s)
        PROVE  Sound'
    <2>1. \A q \in Replicas, t \in Sources : job'[q][t] \in {job[q][t], NoJob}
      BY <1>1, <1>3 DEF ReplicasOK
    <2>2. QED
      BY <2>1, <1>3, QuietSteps
  <1>4. ASSUME NEW p \in Replicas, NEW s \in Sources, NEW x \in {"admit", "queue", "lookup"},
               job[p][s].pc \in {"none", "admit", "queue"},
               job' = [job EXCEPT ![p][s].pc = x], UNCHANGED <<files, store>>
        PROVE  Sound'
    <2>1. \A q \in Replicas, t \in Sources :
            job'[q][t] = job[q][t] \/ (q = p /\ t = s /\ job'[q][t] = [job[q][t] EXCEPT !.pc = x])
      BY <1>1, <1>4 DEF ReplicasOK
    <2>2. \A q \in Replicas, t \in Sources :
            job'[q][t] \in {job[q][t], NoJob} \/ Waits(job'[q][t], job[q][t])
      BY <2>1, <1>4 DEF Waits
    <2>3. QED
      BY <2>2, <1>4, QuietSteps
  <1>5. ASSUME NEW r \in Requests, NEW s \in Sources, NEW inm \in Versions, Resolve(r, s, inm)
        PROVE  Sound'
    BY <1>2, <1>5 DEF Resolve
  <1>6. ASSUME NEW r \in Requests, RequestStep(r) \/ Abandon(r) PROVE Sound'
    <2>1. CASE LookupMapping(r) \/ ReadCached(r) \/ ReadCommitted(r) \/ Abandon(r)
      BY <2>1, <1>2 DEF LookupMapping, ReadCached, ReadCommitted, Abandon
    <2>2. ASSUME NEW p \in Replicas, JoinFlight(r, p) PROVE Sound'
      <3>1. source[r] \in Sources /\ UNCHANGED <<files, store>>
        BY <2>2, <1>1 DEF JoinFlight, ClientOK, Asking
      <3>2. CASE job[p][source[r]].pc = "none"
        <4>1. job' = [job EXCEPT ![p][source[r]].pc = "admit"]
          BY <2>2, <3>2 DEF JoinFlight
        <4>2. QED
          BY <3>1, <3>2, <4>1, <1>4
      <3>3. CASE job[p][source[r]].pc # "none"
        BY <2>2, <3>1, <3>3, <1>2 DEF JoinFlight
      <3>4. QED
        BY <3>2, <3>3
    <2>3. QED
      BY <1>6, <2>1, <2>2 DEF RequestStep
  <1>7. ASSUME NEW p \in Replicas, NEW s \in Sources, JobStep(p, s) PROVE Sound'
    <2>1. CASE Admit(p, s)
      <3>1. UNCHANGED <<files, store>> /\ job[p][s].pc = "admit"
        BY <2>1 DEF Admit
      <3>2. job' = [job EXCEPT ![p][s].pc = "queue"] \/ job' = [job EXCEPT ![p][s] = NoJob]
        BY <2>1 DEF Admit, GiveUp
      <3>3. QED
        BY <3>1, <3>2, <1>3, <1>4
    <2>2. CASE Activate(p, s)
      <3>1. /\ UNCHANGED <<files, store>> /\ job[p][s].pc = "queue"
            /\ job' = [job EXCEPT ![p][s].pc = "lookup"]
        BY <2>2 DEF Activate
      <3>2. QED
        BY <3>1, <1>4
    <2>3. CASE QueueTimeout(p, s) \/ JobFails(p, s)
      <3>1. UNCHANGED <<files, store>> /\ job' = [job EXCEPT ![p][s] = NoJob]
        BY <2>3 DEF QueueTimeout, JobFails, GiveUp
      <3>2. QED
        BY <3>1, <1>3
    <2>4. CASE LookupSource(p, s)
      <3>1. CASE s \in deleted
        <4>1. UNCHANGED <<files, store>> /\ job' = [job EXCEPT ![p][s] = NoJob]
          BY <2>4, <3>1 DEF LookupSource, GiveUp, store
        <4>2. QED
          BY <4>1, <1>3
      <3>2. CASE s \notin deleted
        BY <2>4, <3>2, LookupSound
      <3>3. QED
        BY <3>1, <3>2
    <2>5. CASE Recheck(p, s) /\ Readable(job[p][s].mapped.file)
      <3>1. UNCHANGED <<files, store>> /\ job' = [job EXCEPT ![p][s] = NoJob]
        BY <2>5 DEF Recheck, Succeed
      <3>2. QED
        BY <3>1, <1>3
    <2>6. CASE \/ FindTarget(p, s)
               \/ Recheck(p, s) /\ ~Readable(job[p][s].mapped.file)
               \/ LookupMeta(p, s)
               \/ ReadSource(p, s)
               \/ Render(p, s)
      BY <2>6, PrepareSound
    <2>7. CASE WriteFile(p, s)
      BY <2>7, WriteSound
    <2>8. CASE CreatePreviewFile(p, s)
      BY <2>8, CreateSound
    <2>9. CASE Upsert(p, s) \/ UpsertFails(p, s)
      BY <2>9, CommitSound
    <2>10. CASE DeletePreviewFile(p, s)
      <3>1. job' = [job EXCEPT ![p][s] = NoJob]
        BY <2>10 DEF DeletePreviewFile, GiveUp
      <3>2. QED
        BY <2>10, <3>1, <1>3
    <2>11. QED
      BY <1>7, <2>1, <2>2, <2>3, <2>4, <2>5, <2>6, <2>7, <2>8, <2>9, <2>10 DEF JobStep
  <1>8. ASSUME NEW p \in Replicas, Crash(p) PROVE Sound'
    <2>1. UNCHANGED <<files, store>>
      BY <1>8 DEF Crash
    <2>2. \A q \in Replicas, t \in Sources : job'[q][t] \in {job[q][t], NoJob}
      BY <1>1, <1>8 DEF Crash, ReplicasOK
    <2>3. QED
      BY <2>1, <2>2, QuietSteps
  <1>9. CASE Environment
    <2>1. UNCHANGED job
      BY <1>9 DEF Environment, SaveSource, DeleteSource, LosePreview
    <2>2. QED
      BY <2>1, <1>2, <1>9
  <1>10. CASE UNCHANGED vars
    <2>1. UNCHANGED job /\ UNCHANGED <<files, store>>
      BY <1>10 DEF vars
    <2>2. QED
      BY <2>1, <1>2
  <1>11. QED
    BY <1>5, <1>6, <1>7, <1>8, <1>9, <1>10 DEF Next

\* The inductive invariant: the types and the permits, who works on what, who
\* refers to which preview file, and how dates, pixels and versions relate.
THEOREM Invariance == Spec => []IInv
  <1>1. Init => IInv
    BY TypedInit, SoundInit DEF IInv
  <1>2. IInv /\ [Next]_vars => IInv'
    BY TypedStep, SoundStep DEF IInv
  <1>3. QED
    BY <1>1, <1>2, PTL DEF Spec

\* The table document_preview_cache never claims pixels newer than the preview
\* file stores, whatever fails or crashes between the lookup, the read, the
\* write and the upsert, unless jobs of two replicas overlapped on the source
\* and none has run alone since.
THEOREM MappingIsNotAhead == Spec => []MappingNotAhead
  <1>1. IInv => MappingNotAhead
    <2> SUFFICES ASSUME IInv, NEW s \in Sources \ contended, Readable(mapping[s].file)
                 PROVE  content[mapping[s].file] >= mapping[s].date
      BY DEF MappingNotAhead
    <2>1. mapping[s].date <= content[mapping[s].file]
      BY DEF IInv, Sound, MappingOK
    <2>2. content[mapping[s].file] \in Nat /\ mapping[s].date \in Nat
      BY DEF IInv, Typed, FilesOK, StoreOK, Versions, Entry, Readable
    <2>3. QED
      BY <2>1, <2>2
  <1>2. QED
    BY <1>1, Invariance, PTL

\* Step lemma of NoStrandedPreview: only a commit moves the mapping, and the
\* job that commits knew the old file to have no row.
LEMMA MappingMoves ==
    ASSUME IInv, [Next]_vars, NEW s \in Sources \ contended,
           mapping'[s].file # mapping[s].file
    PROVE  mapping[s].file \notin rows
  <1>1. ReplicasOK /\ FilesOK /\ StoreOK /\ Overlaps /\ JobsOK
    BY DEF IInv, Typed, Sound
  <1>2. mapping' # mapping
    OBVIOUS
  <1>3. PICK p \in Replicas, t \in Sources : Upsert(p, t) \/ UpsertFails(p, t)
    <2>1. \A r \in Requests : \A t \in Sources, inm \in Versions : ~Resolve(r, t, inm)
      BY <1>2 DEF Resolve, store
    <2>2. \A r \in Requests : ~RequestStep(r) /\ ~Abandon(r)
      BY <1>2 DEF RequestStep, LookupMapping, ReadCached, JoinFlight, ReadCommitted, Abandon, store
    <2>3. \A p \in Replicas : ~Crash(p)
      BY <1>2 DEF Crash, store
    <2>4. ~Environment
      BY <1>2 DEF Environment, SaveSource, DeleteSource, LosePreview, store
    <2>5. ~UNCHANGED vars
      BY <1>2 DEF vars, store
    <2>6. PICK p \in Replicas, t \in Sources : JobStep(p, t)
      BY <2>1, <2>2, <2>3, <2>4, <2>5 DEF Next
    <2>7. Upsert(p, t) \/ UpsertFails(p, t)
      BY <1>2, <2>6 DEF JobStep, Admit, Activate, QueueTimeout, LookupSource, FindTarget, Recheck,
         LookupMeta, ReadSource, Render, WriteFile, CreatePreviewFile, DeletePreviewFile, JobFails,
         store
    <2>8. QED
      BY <2>7
  <1>4. /\ job[p][t].pc = "commit"
        /\ mapping' = mapping \/ mapping' = [mapping EXCEPT ![t] = Committed(p, t)]
    BY <1>3 DEF Upsert, UpsertFails
  <1>5. t = s /\ mapping'[s].file = job[p][s].file
    BY <1>1, <1>4 DEF StoreOK, Committed
  <1>6. job[p][s].pc \in Working /\ job[p][s].pc \in Chosen
    BY <1>4, <1>5, WorkingSteps DEF Chosen
  <1>7. job[p][s].alone
    BY <1>1, <1>6 DEF Overlaps, OverlapsRecorded
  <1>8. job[p][s].mapped = mapping[s]
    BY <1>1, <1>6, <1>7 DEF JobsOK, PixelsOK
  <1>9. job[p][s].file = job[p][s].mapped.file \/ job[p][s].mapped.file \notin rows
    BY <1>1, <1>4, <1>5 DEF JobsOK, TargetOK
  <1>10. QED
    BY <1>5, <1>8, <1>9

\* The mapping moves to another preview file only when the old one no longer
\* exists, so commitRefresh and commitMapping strand no row, unless jobs of two
\* replicas overlapped on the source.
THEOREM NothingIsStranded == Spec => NoStrandedPreview
  <1>1. IInv /\ [Next]_vars =>
            [\A s \in Sources \ contended :
                mapping'[s].file # mapping[s].file => mapping[s].file \notin rows]_vars
    BY MappingMoves
  <1>2. QED
    BY <1>1, Invariance, PTL DEF Spec, NoStrandedPreview

=============================================================================
