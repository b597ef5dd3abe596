--------------------------- MODULE Process_proofs ---------------------------
(***************************************************************************)
(* Proofs about the publisher and the process around it: type correctness, *)
(* no connection to the broker is ever forgotten, the exit is clean, and   *)
(* renames are announced at most once and in order, for any number of      *)
(* requests, documents, connections and faults.                            *)
(***************************************************************************)
EXTENDS Process, SequenceTheorems, TLAPS

\* Only the holder of the mutex is past p.mu.Lock, and it finds the connection
\* forgotten while it sets up another.
MutexHeld ==
    /\ \A c \in Callers : step[c] \notin {"out", "lock"} => mu = c
    /\ mu # Nobody => (conn # 0 <=> step[mu] = "publish")

\* Once the publisher is closed it stays without a connection.
ClosedForGood == closed => mu = Nobody /\ open = {}

\* Before the server runs there is no request, no activity and no connection.
NotStarted ==
    main = "starting" =>
        /\ ~listening /\ window = {} /\ batch = {} /\ open = {}
        /\ \A r \in Requests : request[r] = "absent"
        /\ \A c \in Callers : step[c] = "out"

\* main closes the publisher before it returns.
ClosedBeforeExit == main \in {"closePool", "drain"} => closed

\* A rename publishes itself, once, while its request waits; the flusher
\* publishes documents.
PayloadsOwned ==
    \A c \in Callers : step[c] # "out" =>
        \/ c \in Requests /\ payload[c] = c /\ request[c] = "publish"
        \/ c = Flusher /\ payload[c] \in Docs

\* What was answered before a request arrived stays answered.
EarlierAnswered == \A r \in Requests : \A q \in earlier[r] : request[q] = "answered"

LifeInv ==
    /\ TypeOK
    /\ MutexHeld
    /\ ConnectionsOwned
    /\ ClosedForGood
    /\ NotStarted
    /\ ClosedBeforeExit
    /\ ExitClean
    /\ PayloadsOwned
    /\ EarlierAnswered

\* A message on its way, or arrived: in the queue (place 0) or on the wire of a
\* connection.
Messages == [event : Requests \cup Docs, conn : Connections]
Places   == 0 .. MaxDials
At(k)    == IF k = 0 THEN queue ELSE wire[k]

TransitType ==
    /\ queue \in Seq(Messages)
    /\ wire \in [Connections -> Seq(Messages)]
    /\ \A k \in Connections : \A i \in 1 .. Len(wire[k]) : wire[k][i].conn = k

\* A rename on its way, or arrived, was sent: its request is out of Publish.
OnlySent ==
    \A k \in Places : \A i \in 1 .. Len(At(k)) :
        LET r == At(k)[i].event
        IN  r \in Requests => request[r] \in {"publish", "answered"} /\ step[r] = "out"

\* It is in one place, once.
InOnePlace ==
    \A k, l \in Places : \A i \in 1 .. Len(At(k)), j \in 1 .. Len(At(l)) :
        At(k)[i].event \in Requests /\ At(k)[i].event = At(l)[j].event => k = l /\ i = j

\* The message n does not announce a rename that was answered before the one
\* announced by m arrived.
NotBefore(m, n) == m.event \in Requests => n.event \notin earlier[m.event]

\* What a connection still carries follows what it has delivered.
WireInOrder ==
    /\ \A k \in Connections : \A i, j \in 1 .. Len(wire[k]) :
            i < j => NotBefore(wire[k][i], wire[k][j])
    /\ \A i \in 1 .. Len(queue) : \A j \in 1 .. Len(wire[queue[i].conn]) :
            NotBefore(queue[i], wire[queue[i].conn][j])

TransitInv ==
    /\ TransitType
    /\ OnlySent
    /\ InOnePlace
    /\ WireInOrder
    /\ RenamesInOrder

IInv == LifeInv /\ TransitInv

----------------------------------------------------------------------------
(* The publisher and the life of the process. *)

\* Initially the process has not started and the broker has no connection.
LEMMA InitLife == Init => LifeInv
<1> SUFFICES ASSUME Init PROVE LifeInv
    OBVIOUS
<1>1. TypeOK
    <2>1. 0 \in 0 .. MaxDials /\ 0 \in 0 .. MaxFaults
        BY BoundsAssumption
    <2>2. QED
        BY <2>1 DEF Init, PublisherInit, TypeOK, PublishSteps, RequestSteps
<1>2. MutexHeld /\ ConnectionsOwned /\ ClosedForGood /\ NotStarted /\ ClosedBeforeExit /\ ExitClean
    BY DEF Init, PublisherInit, MutexHeld, ConnectionsOwned, Dialled, ClosedForGood,
           NotStarted, ClosedBeforeExit, ExitClean
<1>3. PayloadsOwned /\ EarlierAnswered
    BY DEF Init, PublisherInit, PayloadsOwned, EarlierAnswered
<1>4. QED
    BY <1>1, <1>2, <1>3 DEF LifeInv

\* A step that leaves the publisher alone keeps what is said of it.
LEMMA PublisherAlone ==
    ASSUME LifeInv, UNCHANGED pubVars
    PROVE  MutexHeld' /\ ConnectionsOwned' /\ ClosedForGood'
BY DEF LifeInv, MutexHeld, ConnectionsOwned, Dialled, ClosedForGood, pubVars, link

\* A step of a request other than the call of Publish.
LEMMA RequestLife ==
    ASSUME LifeInv, NEW r \in Requests, Accept(r) \/ RequestStep(r)
    PROVE  LifeInv'
<1> USE DEF LifeInv
<1>1. CASE PublishRename(r)
    <2>1. TypeOK'
        BY <1>1, CallersAssumption, NobodyAssumption
           DEF PublishRename, Publish, Goto, TypeOK, PublishSteps, RequestSteps, link, broker, process, loops
    <2>2. MutexHeld' /\ ConnectionsOwned' /\ ClosedForGood'
        BY <1>1, CallersAssumption
           DEF PublishRename, Publish, TypeOK, MutexHeld, ConnectionsOwned, Dialled, ClosedForGood, link
    <2>3. NotStarted' /\ ClosedBeforeExit' /\ ExitClean'
        BY <1>1 DEF PublishRename, Alive, NotStarted, ClosedBeforeExit, ExitClean, process, TypeOK
    <2>4. PayloadsOwned' /\ EarlierAnswered'
        BY <1>1, CallersAssumption
           DEF PublishRename, Publish, Goto, PayloadsOwned, EarlierAnswered, TypeOK
    <2>5. QED
        BY <2>1, <2>2, <2>3, <2>4
<1>2. ASSUME NEW d \in Docs, Authorized(r, d) PROVE LifeInv'
    <2>1. TypeOK'
        BY <1>2 DEF Authorized, Goto, TypeOK, RequestSteps, pubVars, link, broker, process
    <2>2. NotStarted' /\ ClosedBeforeExit' /\ ExitClean'
        BY <1>2 DEF Authorized, Alive, NotStarted, ClosedBeforeExit, ExitClean, process, pubVars, TypeOK
    <2>3. PayloadsOwned' /\ EarlierAnswered'
        BY <1>2 DEF Authorized, Goto, PayloadsOwned, EarlierAnswered, TypeOK, pubVars
    <2>4. QED
        BY <1>2, <2>1, <2>2, <2>3, PublisherAlone DEF Authorized
<1>3. CASE Accept(r)
    <2>1. TypeOK'
        BY <1>3 DEF Accept, Goto, TypeOK, RequestSteps, pubVars, link, broker, process, loops
    <2>2. NotStarted' /\ ClosedBeforeExit' /\ ExitClean'
        BY <1>3 DEF Accept, Goto, NotStarted, ClosedBeforeExit, ExitClean, PoolInUse, process, pubVars, link, TypeOK
    <2>3. PayloadsOwned' /\ EarlierAnswered'
        BY <1>3 DEF Accept, Goto, PayloadsOwned, EarlierAnswered, TypeOK, pubVars
    <2>4. QED
        BY <1>3, <2>1, <2>2, <2>3, PublisherAlone DEF Accept
<1>4. CASE Query(r) \/ Unauthorized(r) \/ Answer(r) \/ AnswerRename(r)
    <2>1. PICK s \in RequestSteps \ {"absent", "publish"} :
              /\ Alive /\ request[r] # "answered" /\ (request[r] = "publish" => step[r] = "out")
              /\ request[r] # "absent"
              /\ request' = [request EXCEPT ![r] = s]
              /\ UNCHANGED <<pubVars, process, loops, earlier>>
        BY <1>4 DEF Query, Unauthorized, Answer, AnswerRename, Goto, RequestSteps
    <2>2. TypeOK'
        BY <2>1 DEF TypeOK, RequestSteps, pubVars, link, broker, process, loops
    <2>3. NotStarted' /\ ClosedBeforeExit' /\ ExitClean'
        BY <2>1 DEF Alive, NotStarted, ClosedBeforeExit, ExitClean, process, pubVars, TypeOK
    <2>4. PayloadsOwned' /\ EarlierAnswered'
        BY <2>1 DEF PayloadsOwned, EarlierAnswered, TypeOK, pubVars
    <2>5. QED
        BY <2>1, <2>2, <2>3, <2>4, PublisherAlone
<1>5. QED
    BY <1>1, <1>2, <1>3, <1>4 DEF RequestStep

\* A step inside Publish.
LEMMA PublishLife ==
    ASSUME LifeInv, NEW c \in Callers, InPublish(c)
    PROVE  LifeInv'
<1> USE DEF LifeInv
<1>0. /\ Alive /\ UNCHANGED <<process, request, loops, earlier>>
      /\ c # Nobody /\ step[c] # "out"
    BY NobodyAssumption DEF InPublish, PublishStep, Acquire, Dial, DialFails, OpenChannel, SetupFails, Declare,
          Send, SendFails
<1>1. /\ \A b \in Callers \ {c} : step'[b] = step[b] /\ payload'[b] = payload[b]
      /\ step'[c] # "out" => payload'[c] = payload[c]
    BY DEF InPublish, PublishStep, Acquire, Dial, DialFails, OpenChannel, SetupFails, Declare,
          Send, SendFails, Return, TypeOK
<1>2. PayloadsOwned' /\ EarlierAnswered'
    BY <1>0, <1>1 DEF PayloadsOwned, EarlierAnswered
<1>3. NotStarted' /\ ClosedBeforeExit' /\ ExitClean'
    <2>1. closed' = closed
        BY DEF InPublish, PublishStep, Acquire, Dial, DialFails, OpenChannel, SetupFails, Declare, Send, SendFails
    <2>2. main' = main /\ main # "exited" /\ main # "starting"
        BY <1>0 DEF NotStarted, Alive, process
    <2>3. QED
        BY <2>1, <2>2 DEF NotStarted, ClosedBeforeExit, ExitClean
<1>4. ASSUME TypeOK', MutexHeld', ConnectionsOwned', ClosedForGood' PROVE LifeInv'
    BY <1>2, <1>3, <1>4
<1> USE BoundsAssumption, NobodyAssumption
<1>5. CASE Acquire(c)
    <2>1. TypeOK'
        <3>1. \/ mu' = Nobody /\ UNCHANGED link /\ step' = [step EXCEPT ![c] = "out"]
              \/ mu' = c /\ UNCHANGED link /\ step' = [step EXCEPT ![c] = "publish"]
              \/ mu' = c /\ Reset /\ dials' = dials /\ step' = [step EXCEPT ![c] = "dial"]
            BY <1>5 DEF Acquire, Return
        <3>2. payload' \in [Callers -> Requests \cup Docs \cup {NoEvent}] /\ UNCHANGED <<closed, faults>>
            BY <1>5 DEF Acquire, Return, TypeOK, broker
        <3>3. conn' \in 0 .. MaxDials /\ open' \subseteq open /\ dials' = dials
            BY <3>1 DEF Reset, link, TypeOK
        <3>4. channelUp' \in BOOLEAN
            BY <3>1 DEF Reset, link, TypeOK
        <3>5. mu' \in Callers \cup {Nobody} /\ (mu' # Nobody => step'[mu'] \notin {"out", "lock"})
            BY <3>1 DEF TypeOK
        <3>6. step' \in [Callers -> PublishSteps]
            BY <3>1 DEF TypeOK, PublishSteps
        <3>7. QED
            BY <1>0, <3>2, <3>3, <3>4, <3>5, <3>6 DEF TypeOK, process, loops
    <2>2. MutexHeld' /\ ConnectionsOwned' /\ ClosedForGood'
        BY <1>0, <1>5 DEF Acquire, Return, Reset, Usable, TypeOK, PublishSteps, link,
              MutexHeld, ConnectionsOwned, Dialled, ClosedForGood
    <2>3. QED
        BY <1>4, <2>1, <2>2
<1>6. CASE Dial(c)
    <2>1. TypeOK'
        BY <1>0, <1>6 DEF Dial, TypeOK, PublishSteps, broker, process, loops
    <2>2. MutexHeld' /\ ConnectionsOwned' /\ ClosedForGood'
        BY <1>0, <1>6 DEF Dial, TypeOK, MutexHeld, ConnectionsOwned, Dialled, ClosedForGood
    <2>3. QED
        BY <1>4, <2>1, <2>2
<1>7. CASE DialFails(c)
    <2>1. TypeOK'
        BY <1>0, <1>7 DEF DialFails, Return, TypeOK, PublishSteps, link, broker, process, loops
    <2>2. MutexHeld' /\ ConnectionsOwned' /\ ClosedForGood'
        BY <1>0, <1>7 DEF DialFails, Return, TypeOK, MutexHeld, ConnectionsOwned, Dialled, ClosedForGood, link
    <2>3. QED
        BY <1>4, <2>1, <2>2
<1>8. CASE OpenChannel(c)
    <2>1. TypeOK'
        BY <1>0, <1>8 DEF OpenChannel, TypeOK, PublishSteps, link, broker, process, loops
    <2>2. MutexHeld' /\ ConnectionsOwned' /\ ClosedForGood'
        BY <1>0, <1>8 DEF OpenChannel, TypeOK, MutexHeld, ConnectionsOwned, Dialled, ClosedForGood, link
    <2>3. QED
        BY <1>4, <2>1, <2>2
<1>9. CASE SetupFails(c)
    <2>1. TypeOK'
        BY <1>0, <1>9 DEF SetupFails, Return, TypeOK, PublishSteps, broker, process, loops
    <2>2. MutexHeld' /\ ConnectionsOwned' /\ ClosedForGood'
        BY <1>0, <1>9 DEF SetupFails, Return, TypeOK, MutexHeld, ConnectionsOwned, Dialled, ClosedForGood
    <2>3. QED
        BY <1>4, <2>1, <2>2
<1>10. CASE Declare(c)
    <2>1. TypeOK'
        BY <1>0, <1>10 DEF Declare, TypeOK, PublishSteps, broker, process, loops
    <2>2. MutexHeld' /\ ConnectionsOwned' /\ ClosedForGood'
        BY <1>0, <1>10 DEF Declare, TypeOK, MutexHeld, ConnectionsOwned, Dialled, ClosedForGood
    <2>3. QED
        BY <1>4, <2>1, <2>2
<1>11. CASE Send(c)
    <2>1. TypeOK'
        BY <1>0, <1>11 DEF Send, Return, TypeOK, PublishSteps, link, process, loops
    <2>2. MutexHeld' /\ ConnectionsOwned' /\ ClosedForGood'
        BY <1>0, <1>11 DEF Send, Return, TypeOK, MutexHeld, ConnectionsOwned, Dialled, ClosedForGood, link
    <2>3. QED
        BY <1>4, <2>1, <2>2
<1>12. CASE SendFails(c)
    <2>1. TypeOK'
        <3>1. faults' \in 0 .. MaxFaults /\ open' \subseteq 1 .. dials /\ UNCHANGED <<closed, dials>>
            <4>1. faults \in 0 .. MaxFaults /\ open \subseteq 1 .. dials
                BY DEF TypeOK
            <4>2. Usable => faults < MaxFaults /\ faults' = faults + 1
                BY <1>12 DEF SendFails
            <4>3. ~Usable => faults' = faults
                BY <1>12 DEF SendFails
            <4>4. open' = open \ {conn} /\ UNCHANGED <<closed, dials>>
                BY <1>12 DEF SendFails, Reset
            <4>5. faults' \in 0 .. MaxFaults
                BY <4>1, <4>2, <4>3
            <4>6. QED
                BY <4>1, <4>4, <4>5
        <3>2. conn' = 0 /\ channelUp' = FALSE /\ mu' = Nobody
            BY <1>12 DEF SendFails, Reset, Return
        <3>3. step' \in [Callers -> PublishSteps] /\ payload' \in [Callers -> Requests \cup Docs \cup {NoEvent}]
            BY <1>12 DEF SendFails, Return, TypeOK, PublishSteps
        <3>4. conn' \in 0 .. MaxDials
            BY <3>2
        <3>5. channelUp' \in BOOLEAN
            BY <3>2
        <3>6. QED
            BY <1>0, <3>1, <3>2, <3>3, <3>4, <3>5 DEF TypeOK, process, loops
    <2>2. MutexHeld' /\ ConnectionsOwned' /\ ClosedForGood'
        BY <1>0, <1>12 DEF SendFails, Return, Reset, TypeOK, MutexHeld, ConnectionsOwned, Dialled, ClosedForGood
    <2>3. QED
        BY <1>4, <2>1, <2>2
<1>13. QED
    BY <1>5, <1>6, <1>7, <1>8, <1>9, <1>10, <1>11, <1>12 DEF InPublish, PublishStep

\* A step of the flush ticker.
LEMMA FlusherLife ==
    ASSUME LifeInv, FlusherStep
    PROVE  LifeInv'
<1> USE DEF LifeInv
<1>1. CASE StartFlush
    <2>1. TypeOK' /\ PayloadsOwned' /\ EarlierAnswered'
        BY <1>1 DEF StartFlush, TypeOK, PayloadsOwned, EarlierAnswered, pubVars, link, broker, process
    <2>2. NotStarted' /\ ClosedBeforeExit' /\ ExitClean'
        BY <1>1 DEF StartFlush, Alive, NotStarted, ClosedBeforeExit, ExitClean, process, pubVars
    <2>3. QED
        BY <1>1, <2>1, <2>2, PublisherAlone DEF StartFlush
<1>2. ASSUME NEW d \in Docs, PublishActivity(d) PROVE LifeInv'
    <2>1. TypeOK'
        BY <1>2, CallersAssumption, NobodyAssumption
           DEF PublishActivity, Publish, TypeOK, PublishSteps, link, broker, process
    <2>2. MutexHeld' /\ ConnectionsOwned' /\ ClosedForGood'
        BY <1>2, CallersAssumption
           DEF PublishActivity, Publish, TypeOK, MutexHeld, ConnectionsOwned, Dialled, ClosedForGood, link
    <2>3. NotStarted' /\ ClosedBeforeExit' /\ ExitClean'
        BY <1>2 DEF PublishActivity, Alive, NotStarted, ClosedBeforeExit, ExitClean, process
    <2>4. PayloadsOwned' /\ EarlierAnswered'
        BY <1>2, CallersAssumption
           DEF PublishActivity, Publish, PayloadsOwned, EarlierAnswered, TypeOK
    <2>5. QED
        BY <2>1, <2>2, <2>3, <2>4
<1>3. CASE EndFlush \/ StopFlusher
    <2>1. TypeOK' /\ PayloadsOwned' /\ EarlierAnswered'
        BY <1>3 DEF EndFlush, StopFlusher, TypeOK, PayloadsOwned, EarlierAnswered, pubVars, link, broker, process
    <2>2. NotStarted' /\ ClosedBeforeExit' /\ ExitClean'
        BY <1>3 DEF EndFlush, StopFlusher, Alive, NotStarted, ClosedBeforeExit, ExitClean, process, pubVars, link
    <2>3. QED
        BY <1>3, <2>1, <2>2, PublisherAlone DEF EndFlush, StopFlusher
<1>4. QED
    BY <1>1, <1>2, <1>3 DEF FlusherStep

\* A step of main or of gracefulShutdown.
LEMMA MainLife ==
    ASSUME LifeInv, StartServing \/ StartupFails \/ ServeFails \/ Signal \/ MainStep
    PROVE  LifeInv'
<1> USE DEF LifeInv
<1>1. CASE ClosePublisher
    <2>1. TypeOK'
        <3>1. conn' \in 0 .. MaxDials /\ open' \subseteq open /\ dials' = dials /\ mu' = Nobody
            BY <1>1, BoundsAssumption DEF ClosePublisher, Close, Reset
        <3>2. channelUp' \in BOOLEAN /\ closed' \in BOOLEAN
            BY <1>1 DEF ClosePublisher, Close, Reset
        <3>3. QED
            BY <1>1, <3>1, <3>2 DEF ClosePublisher, Close, TypeOK, broker, loops
    <2>2. MutexHeld' /\ ConnectionsOwned' /\ ClosedForGood'
        <3>1. mu = Nobody /\ mu' = Nobody /\ open' = {} /\ step' = step
            BY <1>1 DEF ClosePublisher, Close, Reset, ConnectionsOwned, Dialled
        <3>2. QED
            BY <3>1 DEF MutexHeld, ConnectionsOwned, ClosedForGood
    <2>3. NotStarted' /\ ClosedBeforeExit' /\ ExitClean' /\ PayloadsOwned' /\ EarlierAnswered'
        BY <1>1 DEF ClosePublisher, Close, NotStarted, ClosedBeforeExit, ExitClean, PayloadsOwned, EarlierAnswered
    <2>4. QED
        BY <2>1, <2>2, <2>3
<1>2. CASE ~ClosePublisher
    <2>1. UNCHANGED <<pubVars, request, loops, earlier>>
        BY <1>2 DEF StartServing, StartupFails, ServeFails, Signal, MainStep, CallShutdown, ListenAndServeReturns, ClosePool, Exit
    <2>2. TypeOK'
        <3>1. /\ main' \in {"starting", "serving", "closePublisher", "closePool", "drain",
                        "exited", "killed"}
            BY <1>2 DEF StartServing, StartupFails, ServeFails, Signal, MainStep, CallShutdown,
                  ListenAndServeReturns, ClosePool, Exit, TypeOK
        <3>2. listening' \in BOOLEAN /\ signalled' \in BOOLEAN /\ poolOpen' \in BOOLEAN
            BY <1>2 DEF StartServing, StartupFails, ServeFails, Signal, MainStep, CallShutdown,
                  ListenAndServeReturns, ClosePool, Exit, TypeOK
        <3>3. QED
            BY <2>1, <3>1, <3>2 DEF TypeOK, pubVars, link, broker, loops
    <2>3. NotStarted'
        BY <1>2, <2>1 DEF StartServing, StartupFails, ServeFails, Signal, MainStep, CallShutdown,
              ListenAndServeReturns, ClosePool, Exit, NotStarted, pubVars, link, loops
    <2>4. ClosedBeforeExit'
        BY <1>2, <2>1 DEF StartServing, StartupFails, ServeFails, Signal, MainStep, CallShutdown,
              ListenAndServeReturns, ClosePool, Exit, ClosedBeforeExit, pubVars
    <2>5. ExitClean'
        <3>1. CASE Exit
            BY <2>1, <3>1 DEF Exit, ClosedBeforeExit, ClosedForGood, ExitClean, PoolInUse, pubVars, link
        <3>2. CASE ~Exit
            BY <1>2, <2>1, <3>2 DEF StartServing, StartupFails, ServeFails, Signal, MainStep,
                  CallShutdown, ListenAndServeReturns, ClosePool, ExitClean, PoolInUse, pubVars, link
        <3>3. QED
            BY <3>1, <3>2
    <2>6. PayloadsOwned' /\ EarlierAnswered'
        BY <2>1 DEF PayloadsOwned, EarlierAnswered, pubVars
    <2>7. QED
        BY <2>1, <2>2, <2>3, <2>4, <2>5, <2>6, PublisherAlone
<1>3. QED
    BY <1>1, <1>2

\* A step of the broker or of the network takes connections away, never more.
LEMMA BrokerLife ==
    ASSUME LifeInv, Broker
    PROVE  LifeInv'
<1> USE DEF LifeInv
<1>1. /\ UNCHANGED <<mu, closed, conn, dials, step, payload, process, request, loops, earlier>>
      /\ open' \subseteq open /\ faults' \in 0 .. MaxFaults
    BY BoundsAssumption DEF Broker, BrokerStep, Disconnect, Deliver, CloseChannel, TypeOK, link
<1>2. channelUp' \in BOOLEAN
    BY DEF Broker, BrokerStep, Disconnect, Deliver, CloseChannel, TypeOK, link
<1>3. TypeOK'
    BY <1>1, <1>2 DEF TypeOK, process, loops
<1>4. MutexHeld' /\ ConnectionsOwned' /\ ClosedForGood'
    BY <1>1 DEF MutexHeld, ConnectionsOwned, Dialled, ClosedForGood
<1>5. NotStarted' /\ ClosedBeforeExit' /\ ExitClean' /\ PayloadsOwned' /\ EarlierAnswered'
    BY <1>1 DEF NotStarted, ClosedBeforeExit, ExitClean, PoolInUse, PayloadsOwned, EarlierAnswered, process, loops
<1>6. QED
    BY <1>3, <1>4, <1>5

\* Every step of a request, of the publisher, of the flusher, of main and of the
\* broker keeps the mutex, the connections and the order of the shutdown.
LEMMA StepLife == LifeInv /\ [Next]_vars => LifeInv'
<1> SUFFICES ASSUME LifeInv, [Next]_vars PROVE LifeInv'
    OBVIOUS
<1>1. CASE UNCHANGED vars
    <2>1. TypeOK'
        BY <1>1 DEF LifeInv, TypeOK, vars, pubVars, link, broker, process, loops
    <2>2. NotStarted' /\ ClosedBeforeExit' /\ ExitClean' /\ PayloadsOwned' /\ EarlierAnswered'
        BY <1>1 DEF LifeInv, NotStarted, ClosedBeforeExit, ExitClean, PoolInUse, PayloadsOwned, EarlierAnswered,
              vars, pubVars, link, process, loops
    <2>3. QED
        BY <1>1, <2>1, <2>2, PublisherAlone DEF LifeInv, vars
<1>2. QED
    BY <1>1, RequestLife, PublishLife, FlusherLife, MainLife, BrokerLife DEF Next

\* Every variable keeps its type; whoever holds p.mu is inside Publish.
THEOREM TypeCorrect == Spec => []TypeOK
<1>1. LifeInv => TypeOK
    BY DEF LifeInv
<1>2. QED
    BY InitLife, StepLife, <1>1, PTL DEF Spec

\* No error path of ensureChannelLocked or Publish forgets a connection: the
\* broker has none open but p.conn and the one being set up.
THEOREM NoConnectionLeaks == Spec => []ConnectionsOwned
<1>1. LifeInv => ConnectionsOwned
    BY DEF LifeInv
<1>2. QED
    BY InitLife, StepLife, <1>1, PTL DEF Spec

\* main returns with no connection to the broker, nobody inside the publisher
\* and no query under way, however late a rename or a flush comes.
THEOREM ExitIsClean == Spec => []ExitClean
<1>1. LifeInv => ExitClean
    BY DEF LifeInv
<1>2. QED
    BY InitLife, StepLife, <1>1, PTL DEF Spec

----------------------------------------------------------------------------
(* The events on their way to the queue. *)

\* Initially nothing is on its way to the consumer.
LEMMA InitTransit == Init => TransitInv
<1> SUFFICES ASSUME Init PROVE TransitInv
    OBVIOUS
<1>1. queue = <<>> /\ wire = [k \in Connections |-> <<>>]
    BY DEF Init, PublisherInit
<1>2. TransitType
    BY <1>1 DEF TransitType
<1>3. \A k \in Places : Len(At(k)) = 0
    BY <1>1, BoundsAssumption DEF Places, At, Connections
<1>4. OnlySent /\ InOnePlace
    BY <1>3 DEF OnlySent, InOnePlace
<1>5. WireInOrder /\ RenamesInOrder
    BY <1>1 DEF WireInOrder, RenamesInOrder
<1>6. QED
    BY <1>2, <1>4, <1>5 DEF TransitInv

\* Nothing moves: what was sent stays sent, and what was answered before it is
\* not looked at again.
LEMMA NothingMoves ==
    ASSUME TransitInv, UNCHANGED <<wire, queue>>,
           \A r \in Requests :
               request[r] \in {"publish", "answered"} /\ step[r] = "out"
               => /\ request'[r] \in {"publish", "answered"} /\ step'[r] = "out"
                  /\ earlier'[r] = earlier[r]
    PROVE  TransitInv'
<1>1. TransitType' /\ InOnePlace'
    BY DEF TransitInv, TransitType, InOnePlace, At
<1>2. OnlySent'
    BY DEF TransitInv, OnlySent, At
<1>3. ASSUME NEW k \in Places, NEW i \in 1 .. Len(At(k)), At(k)[i].event \in Requests
      PROVE  earlier'[At(k)[i].event] = earlier[At(k)[i].event]
    BY <1>3 DEF TransitInv, OnlySent
<1>4. \A i \in 1 .. Len(queue) : queue[i].event \in Requests => earlier'[queue[i].event] = earlier[queue[i].event]
    <2>1. 0 \in Places /\ At(0) = queue
        BY BoundsAssumption DEF Places, At
    <2>2. QED
        BY <1>3, <2>1
<1>5. \A k \in Connections : \A i \in 1 .. Len(wire[k]) :
          wire[k][i].event \in Requests => earlier'[wire[k][i].event] = earlier[wire[k][i].event]
    <2>1. \A k \in Connections : k \in Places /\ At(k) = wire[k]
        BY BoundsAssumption DEF Places, At, Connections
    <2>2. QED
        BY <1>3, <2>1
<1>6. WireInOrder'
    BY <1>4, <1>5 DEF TransitInv, WireInOrder, NotBefore
<1>7. RenamesInOrder'
    BY <1>4 DEF TransitInv, RenamesInOrder
<1>8. QED
    BY <1>1, <1>2, <1>6, <1>7 DEF TransitInv

\* The end of a Publish that wrote its event to the connection.
LEMMA Sent ==
    ASSUME IInv, NEW c \in Callers, step[c] = "publish", Written(c), Return(c),
           UNCHANGED <<queue, request, earlier>>
    PROVE  TransitInv'
<1>0. TypeOK /\ TransitType /\ conn \in Connections
    BY NobodyAssumption DEF IInv, LifeInv, TransitInv, MutexHeld, TypeOK, Connections
<1>1. /\ \A r \in Requests : step[r] = "out" => step'[r] = "out"
      /\ step'[c] = "out"
    BY <1>0, CallersAssumption DEF Return, TypeOK, PublishSteps
<1>2. CASE wire' = wire
    BY <1>1, <1>2, NothingMoves DEF IInv
<1>3. CASE wire' = [wire EXCEPT ![conn] = Append(@, Message(c))]
    <2> DEFINE n == Len(wire[conn])
               m == Message(c)
    <2>1. /\ payload[c] \in Requests \cup Docs
          /\ payload[c] \in Requests => payload[c] = c /\ request[c] = "publish"
        BY EventsAssumption, CallersAssumption DEF IInv, LifeInv, PayloadsOwned
    <2>2. m \in Messages /\ m.event = payload[c] /\ m.conn = conn
        BY <1>0, <2>1 DEF Message, Messages
    <2> HIDE DEF m
    <2>3. wire[conn] \in Seq(Messages) /\ n \in Nat
        BY <1>0 DEF TransitType
    <2>4. /\ wire'[conn] \in Seq(Messages) /\ Len(wire'[conn]) = n + 1
          /\ \A i \in 1 .. n : wire'[conn][i] = wire[conn][i]
          /\ wire'[conn][n + 1] = m
          /\ \A k \in Connections \ {conn} : wire'[k] = wire[k]
          /\ wire' \in [Connections -> Seq(Messages)]
        <3>1. wire'[conn] = Append(wire[conn], m)
            BY <1>0, <1>3 DEF TransitType, m
        <3>2. /\ Append(wire[conn], m) \in Seq(Messages) /\ Len(Append(wire[conn], m)) = n + 1
              /\ \A i \in 1 .. n : Append(wire[conn], m)[i] = wire[conn][i]
              /\ Append(wire[conn], m)[n + 1] = m
            BY <2>2, <2>3
        <3>3. QED
            BY <1>0, <1>3, <3>1, <3>2 DEF TransitType
    <2> HIDE DEF n
    <2>5. TransitType'
        <3>1. queue' \in Seq(Messages)
            BY <1>0 DEF TransitType
        <3>2. ASSUME NEW k \in Connections, NEW i \in 1 .. Len(wire'[k]) PROVE wire'[k][i].conn = k
            <4>1. CASE k # conn
                BY <1>0, <2>4, <4>1 DEF TransitType
            <4>2. CASE k = conn
                <5>1. i = n + 1 \/ i \in 1 .. n
                    BY <2>3, <2>4, <4>2
                <5>2. \A x \in 1 .. n : wire[conn][x].conn = conn
                    BY <1>0 DEF TransitType, n
                <5>3. QED
                    BY <2>2, <2>4, <4>2, <5>1, <5>2
            <4>3. QED
                BY <4>1, <4>2
        <3>3. QED
            BY <2>4, <3>1, <3>2 DEF TransitType
    <2>6. \* What is in transit now was there before, or is the new message.
          ASSUME NEW k \in Places, NEW i \in 1 .. Len(At(k)')
          PROVE  \/ i \in 1 .. Len(At(k)) /\ At(k)'[i] = At(k)[i]
                 \/ k = conn /\ i = n + 1 /\ At(k)'[i] = m
        <3>1. CASE k = 0
            BY <3>1 DEF At
        <3>2. CASE k = conn
            <4>1. At(k) = wire[conn] /\ At(k)' = wire'[conn]
                BY <1>0, <3>2 DEF At, Connections
            <4>2. i = n + 1 \/ i \in 1 .. n
                BY <2>3, <2>4, <4>1
            <4>3. QED
                BY <2>4, <3>2, <4>1, <4>2 DEF n
        <3>3. CASE k # 0 /\ k # conn
            BY <2>4, <3>3 DEF At, Places, Connections
        <3>4. QED
            BY <3>1, <3>2, <3>3
    <2>7. \* The event was not in transit before.
          ASSUME NEW k \in Places, NEW i \in 1 .. Len(At(k)), At(k)[i].event \in Requests
          PROVE  At(k)[i].event # m.event
        BY <2>1, <2>2, <2>7 DEF IInv, TransitInv, OnlySent
    <2>8. OnlySent'
        BY <1>1, <2>1, <2>2, <2>6 DEF IInv, TransitInv, OnlySent
    <2>9. InOnePlace'
        BY <2>6, <2>7 DEF IInv, TransitInv, InOnePlace
    <2>10. \* Nobody saw the event answered.
          \A r \in Requests : m.event \notin earlier[r]
        BY <2>1, <2>2, EventsAssumption DEF IInv, LifeInv, EarlierAnswered, TypeOK
    <2>11. WireInOrder'
        <3>1. ASSUME NEW k \in Connections, NEW i \in 1 .. Len(wire'[k]), NEW j \in 1 .. Len(wire'[k]), i < j
              PROVE  NotBefore(wire[k][i], wire[k][j])'
            <4>1. CASE k = conn /\ j = n + 1
                BY <2>4, <2>10, <4>1 DEF NotBefore
            <4>2. CASE k = conn /\ j # n + 1
                BY <2>3, <2>4, <3>1, <4>2 DEF NotBefore, IInv, TransitInv, WireInOrder, n
            <4>3. CASE k # conn
                BY <2>4, <3>1, <4>3 DEF NotBefore, IInv, TransitInv, WireInOrder
            <4>4. QED
                BY <4>1, <4>2, <4>3
        <3>2. ASSUME NEW i \in 1 .. Len(queue), NEW j \in 1 .. Len(wire'[queue[i].conn])
              PROVE  NotBefore(queue[i], wire[queue[i].conn][j])'
            <4>0. queue[i].conn \in Connections
                <5>1. queue[i] \in Messages
                    BY <1>0, ElementOfSeq DEF TransitType
                <5>2. QED
                    BY <5>1 DEF Messages
            <4>1. CASE queue[i].conn = conn /\ j = n + 1
                BY <2>4, <2>10, <4>1 DEF NotBefore
            <4>2. CASE queue[i].conn = conn /\ j # n + 1
                <5>1. j \in 1 .. Len(wire[conn]) /\ wire'[conn][j] = wire[conn][j]
                    BY <2>3, <2>4, <4>2 DEF n
                <5>2. NotBefore(queue[i], wire[conn][j])
                    BY <4>2, <5>1 DEF IInv, TransitInv, WireInOrder
                <5>3. QED
                    BY <4>2, <5>1, <5>2 DEF NotBefore
            <4>3. CASE queue[i].conn # conn
                BY <2>4, <4>0, <4>3 DEF NotBefore, IInv, TransitInv, WireInOrder
            <4>4. QED
                BY <4>1, <4>2, <4>3
        <3>3. QED
            BY <3>1, <3>2 DEF WireInOrder
    <2>12. RenamesInOrder'
        BY DEF IInv, TransitInv, RenamesInOrder
    <2>13. QED
        BY <2>5, <2>8, <2>9, <2>11, <2>12 DEF TransitInv
<1>4. QED
    BY <1>2, <1>3 DEF Written

\* A connection that breaks keeps a beginning of what it carried.
LEMMA Truncated ==
    ASSUME IInv, NEW k \in Connections, Disconnect(k), UNCHANGED <<request, earlier>>
    PROVE  TransitInv'
<1>0. TransitType /\ OnlySent /\ InOnePlace /\ WireInOrder /\ RenamesInOrder
    BY DEF IInv, TransitInv
<1>1. PICK n \in 0 .. Len(wire[k]) : wire' = [wire EXCEPT ![k] = SubSeq(@, 1, n)]
    BY DEF Disconnect
<1>2. wire[k] \in Seq(Messages) /\ Len(wire[k]) \in Nat
    BY <1>0 DEF TransitType
<1>3. /\ SubSeq(wire[k], 1, n) \in Seq(Messages) /\ Len(SubSeq(wire[k], 1, n)) = n
      /\ \A i \in 1 .. n : SubSeq(wire[k], 1, n)[i] = wire[k][i]
    <2>1. \A i \in 1 .. n : wire[k][i] \in Messages
        BY <1>2, ElementOfSeq
    <2>2. QED
        BY <1>2, <2>1, SubSeqProperties
<1>4. /\ wire' \in [Connections -> Seq(Messages)]
      /\ \A l \in Connections : /\ Len(wire'[l]) \in 0 .. Len(wire[l])
                                /\ \A i \in 1 .. Len(wire'[l]) : wire'[l][i] = wire[l][i]
    <2>1. wire'[k] = SubSeq(wire[k], 1, n) /\ \A l \in Connections \ {k} : wire'[l] = wire[l]
        BY <1>0, <1>1 DEF TransitType
    <2>2. \A l \in Connections : Len(wire[l]) \in Nat
        BY <1>0 DEF TransitType
    <2>3. wire' \in [Connections -> Seq(Messages)]
        BY <1>0, <1>1, <1>3 DEF TransitType
    <2>4. QED
        BY <1>2, <1>3, <2>1, <2>2, <2>3
<1>5. queue' = queue /\ step' = step
    BY DEF Disconnect
<1>6. TransitType'
    <2>1. \A l \in Connections : \A i \in 1 .. Len(wire'[l]) : i \in 1 .. Len(wire[l])
        BY <1>0, <1>4 DEF TransitType
    <2>2. QED
        BY <1>0, <1>4, <1>5, <2>1 DEF TransitType
<1>7. ASSUME NEW l \in Places, NEW i \in 1 .. Len(At(l)')
      PROVE  i \in 1 .. Len(At(l)) /\ At(l)'[i] = At(l)[i]
    <2>1. CASE l = 0
        BY <1>5, <2>1 DEF At
    <2>2. CASE l # 0
        <3>1. l \in Connections /\ At(l) = wire[l] /\ At(l)' = wire'[l]
            BY <2>2, BoundsAssumption DEF At, Places, Connections
        <3>2. Len(wire[l]) \in Nat
            BY <1>0, <3>1 DEF TransitType
        <3>3. QED
            BY <1>4, <3>1, <3>2
    <2>3. QED
        BY <2>1, <2>2
<1>8. OnlySent' /\ InOnePlace'
    <2>1. OnlySent'
        BY <1>0, <1>5, <1>7 DEF OnlySent
    <2>2. InOnePlace'
        BY <1>0, <1>7 DEF InOnePlace
    <2>3. QED
        BY <2>1, <2>2
<1>9. WireInOrder'
    <2>1. ASSUME NEW l \in Connections, NEW i \in 1 .. Len(wire'[l])
          PROVE  i \in 1 .. Len(wire[l]) /\ wire'[l][i] = wire[l][i]
        BY <1>0, <1>4 DEF TransitType
    <2>2. \A i \in 1 .. Len(queue) : queue[i].conn \in Connections
        <3>1. \A i \in 1 .. Len(queue) : queue[i] \in Messages
            BY <1>0, ElementOfSeq DEF TransitType
        <3>2. QED
            BY <3>1 DEF Messages
    <2>3. ASSUME NEW l \in Connections, NEW i \in 1 .. Len(wire'[l]), NEW j \in 1 .. Len(wire'[l]), i < j
          PROVE  NotBefore(wire[l][i], wire[l][j])'
        BY <1>0, <2>1, <2>3 DEF WireInOrder, NotBefore
    <2>4. ASSUME NEW i \in 1 .. Len(queue), NEW j \in 1 .. Len(wire'[queue[i].conn])
          PROVE  NotBefore(queue[i], wire[queue[i].conn][j])'
        <3>1. j \in 1 .. Len(wire[queue[i].conn]) /\ wire'[queue[i].conn][j] = wire[queue[i].conn][j]
            BY <2>1, <2>2
        <3>2. NotBefore(queue[i], wire[queue[i].conn][j])
            BY <1>0, <3>1 DEF WireInOrder
        <3>3. QED
            BY <1>5, <3>1, <3>2 DEF NotBefore
    <2>5. QED
        BY <1>5, <2>3, <2>4 DEF WireInOrder
<1>10. RenamesInOrder'
    BY <1>0, <1>5 DEF RenamesInOrder
<1>11. QED
    BY <1>6, <1>8, <1>9, <1>10 DEF TransitInv

\* The broker puts the first message of a connection at the end of the queue.
LEMMA Delivered ==
    ASSUME IInv, NEW k \in Connections, Deliver(k), UNCHANGED <<request, earlier>>
    PROVE  TransitInv'
<1>0. TransitType /\ OnlySent /\ InOnePlace /\ WireInOrder /\ RenamesInOrder
    BY DEF IInv, TransitInv
<1> DEFINE q == Len(queue)
           w == Len(wire[k])
           m == Head(wire[k])
<1>1. /\ wire[k] \in Seq(Messages) /\ w \in Nat \ {0} /\ wire[k] # <<>>
      /\ queue \in Seq(Messages) /\ q \in Nat
    BY <1>0, EmptySeq DEF TransitType, Deliver
<1>2. m = wire[k][1] /\ m \in Messages /\ m.conn = k
    BY <1>0, <1>1, ElementOfSeq DEF TransitType
<1>3. /\ Len(queue') = q + 1 /\ queue' \in Seq(Messages)
      /\ \A i \in 1 .. q : queue'[i] = queue[i]
      /\ queue'[q + 1] = m
    BY <1>1, <1>2 DEF Deliver
<1>4. /\ wire' \in [Connections -> Seq(Messages)]
      /\ \A l \in Connections \ {k} : wire'[l] = wire[l]
      /\ Len(wire'[k]) = w - 1
      /\ \A i \in 1 .. w - 1 : wire'[k][i] = wire[k][i + 1]
    <2>1. /\ Tail(wire[k]) \in Seq(Messages) /\ Len(Tail(wire[k])) = w - 1
          /\ \A i \in 1 .. w - 1 : Tail(wire[k])[i] = wire[k][i + 1]
        BY <1>1, HeadTailProperties
    <2>2. wire' = [wire EXCEPT ![k] = Tail(wire[k])]
        BY DEF Deliver
    <2> HIDE DEF w
    <2>3. QED
        BY <1>0, <2>1, <2>2 DEF TransitType
<1>5. step' = step
    BY DEF Deliver
<1> HIDE DEF q, w, m
<1>6. TransitType'
    <2>1. ASSUME NEW l \in Connections, NEW i \in 1 .. Len(wire'[l]) PROVE wire'[l][i].conn = l
        <3>1. CASE l # k
            BY <1>0, <1>4, <3>1 DEF TransitType
        <3>2. CASE l = k
            <4>1. i \in 1 .. w - 1 /\ i + 1 \in 1 .. Len(wire[k])
                BY <1>1, <1>4, <3>2 DEF w
            <4>2. QED
                BY <1>0, <1>4, <3>2, <4>1 DEF TransitType
        <3>3. QED
            BY <3>1, <3>2
    <2>2. QED
        BY <1>3, <1>4, <2>1 DEF TransitType
<1> DEFINE P(l, i) == IF l = 0 /\ i = q + 1 THEN k ELSE l
           I(l, i) == IF l = 0 /\ i = q + 1 THEN 1 ELSE IF l = k THEN i + 1 ELSE i
<1>7. \* Where each message was before.
      ASSUME NEW l \in Places, NEW i \in 1 .. Len(At(l)')
      PROVE  /\ P(l, i) \in Places /\ I(l, i) \in 1 .. Len(At(P(l, i)))
             /\ At(l)'[i] = At(P(l, i))[I(l, i)]
             /\ i \in Nat
    <2>0. k \in Places /\ k # 0 /\ At(k) = wire[k] /\ At(k)' = wire'[k]
        BY BoundsAssumption DEF Places, Connections, At
    <2>1. CASE l = 0
        <3>1. At(l) = queue /\ At(l)' = queue'
            BY <2>1 DEF At
        <3>2. i \in 1 .. q + 1
            BY <1>3, <3>1
        <3>3. CASE i = q + 1
            BY <1>1, <1>2, <1>3, <2>0, <2>1, <3>1, <3>3 DEF w
        <3>4. CASE i \in 1 .. q
            BY <1>1, <1>3, <2>0, <2>1, <3>1, <3>4 DEF q
        <3>5. QED
            BY <1>1, <3>2, <3>3, <3>4
    <2>2. CASE l = k
        <3>1. i \in 1 .. w - 1
            BY <1>4, <2>0, <2>2
        <3>2. i + 1 \in 1 .. Len(wire[k])
            BY <1>1, <3>1 DEF w
        <3>3. QED
            BY <1>4, <2>0, <2>2, <3>1, <3>2
    <2>3. CASE l # 0 /\ l # k
        <3>1. l \in Connections /\ At(l) = wire[l] /\ At(l)' = wire'[l]
            BY <2>3, BoundsAssumption DEF Places, Connections, At
        <3>2. QED
            BY <1>4, <2>3, <3>1
    <2>4. QED
        BY <2>1, <2>2, <2>3
<1>8. \* No two were in one place.
      ASSUME NEW l1 \in Places, NEW i1 \in Nat, NEW l2 \in Places, NEW i2 \in Nat,
             i1 \in 1 .. Len(At(l1)'), i2 \in 1 .. Len(At(l2)'),
             P(l1, i1) = P(l2, i2), I(l1, i1) = I(l2, i2)
      PROVE  l1 = l2 /\ i1 = i2
    BY <1>1, <1>8 DEF Connections
<1> HIDE DEF P, I
<1>9. OnlySent'
    <2> SUFFICES ASSUME NEW l \in Places, NEW i \in 1 .. Len(At(l)'), At(l)'[i].event \in Requests
                 PROVE  LET r == At(l)'[i].event
                        IN  request[r] \in {"publish", "answered"} /\ step[r] = "out"
        BY <1>5 DEF OnlySent
    <2>1. P(l, i) \in Places /\ I(l, i) \in 1 .. Len(At(P(l, i))) /\ At(l)'[i] = At(P(l, i))[I(l, i)]
        BY <1>7
    <2>2. QED
        BY <1>0, <2>1 DEF OnlySent
<1>10. InOnePlace'
    <2> SUFFICES ASSUME NEW l1 \in Places, NEW l2 \in Places,
                        NEW i1 \in 1 .. Len(At(l1)'), NEW i2 \in 1 .. Len(At(l2)'),
                        At(l1)'[i1].event \in Requests, At(l1)'[i1].event = At(l2)'[i2].event
                 PROVE  l1 = l2 /\ i1 = i2
        BY DEF InOnePlace
    <2>1. /\ P(l1, i1) \in Places /\ I(l1, i1) \in 1 .. Len(At(P(l1, i1)))
          /\ At(l1)'[i1] = At(P(l1, i1))[I(l1, i1)]
        BY <1>7
    <2>2. /\ P(l2, i2) \in Places /\ I(l2, i2) \in 1 .. Len(At(P(l2, i2)))
          /\ At(l2)'[i2] = At(P(l2, i2))[I(l2, i2)]
        BY <1>7
    <2>3. P(l1, i1) = P(l2, i2) /\ I(l1, i1) = I(l2, i2)
        BY <1>0, <2>1, <2>2 DEF InOnePlace
    <2>4. i1 \in Nat /\ i2 \in Nat
        BY <1>7
    <2>5. QED
        BY <1>8, <2>3, <2>4
<1>11. \* What the queue holds of this connection comes before the message.
      /\ \A i \in 1 .. q : queue[i].conn = k => NotBefore(queue[i], m)
      /\ \A j \in 2 .. w : NotBefore(m, wire[k][j])
    BY <1>0, <1>1, <1>2 DEF WireInOrder, q, w
<1>12. \A i \in 1 .. q : queue[i].conn \in Connections
    <2>1. \A i \in 1 .. q : queue[i] \in Messages
        BY <1>1, ElementOfSeq DEF q
    <2>2. QED
        BY <2>1 DEF Messages
<1>13. RenamesInOrder'
    <2> SUFFICES ASSUME NEW i \in 1 .. Len(queue'), NEW j \in 1 .. Len(queue'), i < j,
                        queue'[i].conn = queue'[j].conn
                 PROVE  NotBefore(queue[i], queue[j])'
        BY DEF RenamesInOrder, NotBefore
    <2>1. i \in 1 .. q /\ (j \in 1 .. q \/ j = q + 1)
        BY <1>1, <1>3
    <2>2. CASE j \in 1 .. q
        BY <1>0, <1>3, <2>1, <2>2 DEF RenamesInOrder, NotBefore, q
    <2>3. CASE j = q + 1
        <3>1. queue'[i] = queue[i] /\ queue'[j] = m /\ queue[i].conn = k
            BY <1>2, <1>3, <2>1, <2>3
        <3>2. NotBefore(queue[i], m)
            BY <1>11, <2>1, <3>1
        <3>3. QED
            BY <3>1, <3>2 DEF NotBefore
    <2>4. QED
        BY <2>1, <2>2, <2>3
<1>14. WireInOrder'
    <2>1. ASSUME NEW l \in Connections, NEW i \in 1 .. Len(wire'[l]), NEW j \in 1 .. Len(wire'[l]), i < j
          PROVE  NotBefore(wire[l][i], wire[l][j])'
        <3>1. CASE l # k
            BY <1>0, <1>4, <2>1, <3>1 DEF WireInOrder, NotBefore
        <3>2. CASE l = k
            <4>1. /\ i + 1 \in 1 .. Len(wire[k]) /\ j + 1 \in 1 .. Len(wire[k]) /\ i + 1 < j + 1
                  /\ i \in 1 .. w - 1 /\ j \in 1 .. w - 1
                BY <1>1, <1>4, <2>1, <3>2 DEF w
            <4>2. NotBefore(wire[k][i + 1], wire[k][j + 1])
                BY <1>0, <4>1 DEF WireInOrder
            <4>3. QED
                BY <1>4, <3>2, <4>1, <4>2 DEF NotBefore
        <3>3. QED
            BY <3>1, <3>2
    <2>2. ASSUME NEW i \in 1 .. Len(queue'), NEW j \in 1 .. Len(wire'[queue'[i].conn])
          PROVE  NotBefore(queue[i], wire[queue[i].conn][j])'
        <3>1. i \in 1 .. q \/ i = q + 1
            BY <1>1, <1>3
        <3>2. CASE i = q + 1
            <4>1. queue'[i] = m /\ queue'[i].conn = k
                BY <1>2, <1>3, <3>2
            <4>2. j \in 1 .. w - 1 /\ j + 1 \in 2 .. w
                BY <1>1, <1>4, <4>1
            <4>3. QED
                BY <1>4, <1>11, <4>1, <4>2 DEF NotBefore
        <3>3. CASE i \in 1 .. q /\ queue[i].conn # k
            BY <1>0, <1>3, <1>4, <1>12, <3>3 DEF WireInOrder, NotBefore, q
        <3>4. CASE i \in 1 .. q /\ queue[i].conn = k
            <4>1. queue'[i] = queue[i]
                BY <1>3, <3>4
            <4>2. j \in 1 .. w - 1 /\ j + 1 \in 1 .. Len(wire[k])
                BY <1>1, <1>4, <3>4, <4>1 DEF w
            <4>3. NotBefore(queue[i], wire[k][j + 1])
                BY <1>0, <3>4, <4>2 DEF WireInOrder, q
            <4>4. QED
                BY <1>4, <3>4, <4>1, <4>2, <4>3 DEF NotBefore
        <3>5. QED
            BY <3>1, <3>2, <3>3, <3>4
    <2>3. QED
        BY <2>1, <2>2 DEF WireInOrder
<1>15. QED
    BY <1>6, <1>9, <1>10, <1>13, <1>14 DEF TransitInv

\* Every step keeps each rename in one place, and the renames of a connection in
\* order.
LEMMA StepTransit == IInv /\ [Next]_vars => TransitInv'
<1> SUFFICES ASSUME IInv, [Next]_vars PROVE TransitInv'
    OBVIOUS
<1>0. TypeOK /\ TransitInv
    BY DEF IInv, LifeInv
<1> DEFINE Kept == \A r \in Requests :
               request[r] \in {"publish", "answered"} /\ step[r] = "out"
               => /\ request'[r] \in {"publish", "answered"} /\ step'[r] = "out"
                  /\ earlier'[r] = earlier[r]
<1>1. ASSUME NEW r \in Requests, Accept(r) \/ RequestStep(r) PROVE TransitInv'
    <2>1. UNCHANGED <<wire, queue>>
        BY <1>1 DEF Accept, RequestStep, Query, Unauthorized, Authorized, Answer, PublishRename, AnswerRename,
              pubVars, broker
    <2>2. Kept
        BY <1>0, <1>1, CallersAssumption DEF Accept, RequestStep, Query, Unauthorized, Authorized, Answer,
              PublishRename, AnswerRename, Publish, Goto, pubVars, TypeOK
    <2>3. QED
        BY <1>0, <2>1, <2>2, NothingMoves
<1>2. ASSUME NEW c \in Callers, InPublish(c) PROVE TransitInv'
    <2>0. UNCHANGED <<request, earlier>> /\ PublishStep(c)
        BY <1>2 DEF InPublish
    <2>1. Kept
        BY <1>0, <2>0, CallersAssumption DEF PublishStep, Acquire, Dial, DialFails, OpenChannel, SetupFails, Declare,
              Send, SendFails, Return, TypeOK
    <2>2. CASE UNCHANGED <<wire, queue>>
        BY <1>0, <2>1, <2>2, NothingMoves
    <2>3. CASE (Send(c) \/ SendFails(c)) /\ Written(c)
        BY <2>0, <2>3, Sent DEF Send, SendFails
    <2>4. QED
        BY <2>0, <2>2, <2>3 DEF PublishStep, Acquire, Dial, DialFails, OpenChannel, SetupFails, Declare,
              Send, SendFails, broker
<1>3. CASE FlusherStep
    <2>1. UNCHANGED <<wire, queue, request, earlier>>
        BY <1>3 DEF FlusherStep, StartFlush, PublishActivity, EndFlush, StopFlusher, pubVars, broker
    <2>2. Kept
        BY <1>0, <1>3, <2>1, CallersAssumption
           DEF FlusherStep, StartFlush, PublishActivity, EndFlush, StopFlusher, Publish, pubVars, TypeOK
    <2>3. QED
        BY <1>0, <2>1, <2>2, NothingMoves
<1>4. CASE StartServing \/ StartupFails \/ ServeFails \/ Signal \/ MainStep \/ UNCHANGED vars
    <2>1. UNCHANGED <<wire, queue, request, earlier, step>>
        BY <1>4 DEF StartServing, StartupFails, ServeFails, Signal, MainStep, CallShutdown, ListenAndServeReturns,
              ClosePublisher, Close, ClosePool, Exit, vars, pubVars, broker
    <2>2. QED
        BY <1>0, <2>1, NothingMoves
<1>5. CASE Broker
    <2>1. UNCHANGED <<request, earlier>>
        BY <1>5 DEF Broker
    <2>2. CASE CloseChannel
        BY <1>0, <2>1, <2>2, NothingMoves DEF CloseChannel
    <2>3. QED
        BY <1>5, <2>1, <2>2, Truncated, Delivered DEF Broker, BrokerStep
<1>6. QED
    BY <1>1, <1>2, <1>3, <1>4, <1>5 DEF Next

\* The invariant holds of every behaviour of the process.
THEOREM Invariance == Spec => []IInv
<1>1. Init => IInv
    BY InitLife, InitTransit DEF IInv
<1>2. IInv /\ [Next]_vars => IInv'
    BY StepLife, StepTransit DEF IInv
<1>3. QED
    BY <1>1, <1>2, PTL DEF Spec

\* A rename is in the consumer queue at most once, although Publish may return
\* an error for an event that got through.
THEOREM RenamesAtMostOnce == Spec => []AtMostOnce
<1>1. IInv => AtMostOnce
    <2>1. 0 \in Places /\ At(0) = queue
        BY BoundsAssumption DEF Places, At
    <2>2. QED
        BY <2>1 DEF IInv, TransitInv, InOnePlace, AtMostOnce
<1>2. QED
    BY Invariance, <1>1, PTL

\* Of the renames that one connection delivered, none that was answered before
\* another arrived comes after it in the queue.
THEOREM RenamesKeepOrder == Spec => []RenamesInOrder
<1>1. IInv => RenamesInOrder
    BY DEF IInv, TransitInv
<1>2. QED
    BY Invariance, <1>1, PTL
=============================================================================
