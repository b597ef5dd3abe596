----------------------------- MODULE Publisher -----------------------------
(***************************************************************************)
(* The RabbitMQ publisher (adapter/outbound/rabbitmq/publisher.go): one    *)
(* connection with one channel, dialled when it is first needed and again  *)
(* after a failure, all of it under the mutex p.mu. Every call to the      *)
(* broker is a step, since the broker may fail between any two of them.    *)
(*                                                                         *)
(* The broker is external. What is written to a connection reaches the     *)
(* queue in order, later; a connection that breaks loses what it still     *)
(* carries or a tail of it; a write to a connection that has just broken   *)
(* may go unnoticed. Connections are numbered by the dials that made them. *)
(*                                                                         *)
(* An operator whose name starts with Broken is a plausible bug of the     *)
(* operator it precedes. The specification does not use it: the properties *)
(* are shown to notice it when it takes that operator's place.             *)
(***************************************************************************)
EXTENDS Naturals, Sequences, FiniteSets

CONSTANTS
    Callers,    \* goroutines that call Publish
    Nobody,     \* holds the mutex when it is free
    Followed,   \* the events that are followed on their way to the queue
    NoEvent,    \* the event of a caller that is not in Publish
    MaxDials,   \* bound on the connections made
    MaxFaults   \* bound on the faults of the broker and the network

ASSUME NobodyAssumption == Nobody \notin Callers
ASSUME BoundsAssumption == MaxDials \in Nat /\ MaxFaults \in Nat

VARIABLES
    mu,         \* who holds p.mu
    closed,     \* p.closed
    conn,       \* p.conn, 0 for nil; p.channel is nil when it is
    channelUp,  \* p.channel is open at the broker
    dials,      \* the number of connections made: the last one's number
    open,       \* the connections that are open at the broker
    step,       \* the next step of each caller, "out" when it is not in Publish
    payload,    \* the event it publishes
    wire,       \* what each connection carries to the broker, of those followed
    queue,      \* the consumer queue, as the broker filled it
    faults      \* the number of faults so far

link   == <<conn, channelUp, dials, open>>
broker == <<wire, queue, faults>>
pubVars == <<mu, closed, link, step, payload, broker>>

Connections == 1 .. MaxDials
PublishSteps == {"out", "lock", "dial", "channel", "declare", "publish"}

\* The connection that the holder of the mutex is setting up.
Dialled ==
    IF mu # Nobody /\ step[mu] \in {"channel", "declare"} THEN {dials} ELSE {}

----------------------------------------------------------------------------
(* Publish. *)

Publish(c, event) ==
    /\ step[c] = "out"
    /\ step' = [step EXCEPT ![c] = "lock"]
    /\ payload' = [payload EXCEPT ![c] = event]

\* The deferred Unlock of every return.
Return(c) ==
    /\ mu' = Nobody
    /\ step' = [step EXCEPT ![c] = "out"]
    /\ payload' = [payload EXCEPT ![c] = NoEvent]

\* resetLocked: the channel and the connection are closed and forgotten.
Reset ==
    /\ conn' = 0
    /\ channelUp' = FALSE
    /\ open' = open \ {conn}

Usable == conn # 0 /\ conn \in open /\ channelUp

\* Publish does not look at p.closed.
BrokenAcquire(c) ==
    /\ step[c] = "lock"
    /\ mu = Nobody
    /\ mu' = c
    /\ IF Usable
       THEN step' = [step EXCEPT ![c] = "publish"] /\ UNCHANGED link
       ELSE step' = [step EXCEPT ![c] = "dial"] /\ Reset /\ UNCHANGED dials
    /\ UNCHANGED <<closed, payload, broker>>

\* p.mu.Lock, the check of p.closed and the first lines of ensureChannelLocked.
Acquire(c) ==
    /\ step[c] = "lock"
    /\ mu = Nobody
    /\ \/ /\ closed
          /\ Return(c)
          /\ UNCHANGED link
       \/ /\ ~closed
          /\ mu' = c
          /\ IF Usable
             THEN step' = [step EXCEPT ![c] = "publish"] /\ UNCHANGED link
             ELSE step' = [step EXCEPT ![c] = "dial"] /\ Reset /\ UNCHANGED dials
          /\ UNCHANGED payload
    /\ UNCHANGED <<closed, broker>>

Dial(c) ==
    /\ step[c] = "dial"
    /\ dials < MaxDials
    /\ dials' = dials + 1
    /\ open' = open \cup {dials + 1}
    /\ step' = [step EXCEPT ![c] = "channel"]
    /\ UNCHANGED <<mu, closed, conn, channelUp, payload, broker>>

\* An early return without the Unlock.
BrokenDialFails(c) ==
    /\ step[c] = "dial"
    /\ step' = [step EXCEPT ![c] = "out"]
    /\ UNCHANGED <<mu, closed, link, payload, broker>>

DialFails(c) ==
    /\ step[c] = "dial"
    /\ Return(c)
    /\ UNCHANGED <<closed, link, broker>>

OpenChannel(c) ==
    /\ step[c] = "channel"
    /\ dials \in open
    /\ step' = [step EXCEPT ![c] = "declare"]
    /\ UNCHANGED <<mu, closed, link, payload, broker>>

\* The connection that was dialled is not closed.
BrokenSetupFails(c) ==
    /\ step[c] \in {"channel", "declare"}
    /\ Return(c)
    /\ UNCHANGED <<closed, link, broker>>

\* No channel, or no queue: what was dialled is closed again.
SetupFails(c) ==
    /\ step[c] \in {"channel", "declare"}
    /\ open' = open \ {dials}
    /\ Return(c)
    /\ UNCHANGED <<closed, conn, channelUp, dials, broker>>

\* QueueDeclare; the connection and the channel become the publisher's.
Declare(c) ==
    /\ step[c] = "declare"
    /\ dials \in open
    /\ conn' = dials
    /\ channelUp' = TRUE
    /\ step' = [step EXCEPT ![c] = "publish"]
    /\ UNCHANGED <<mu, closed, dials, open, payload, broker>>

Message(c) == [event |-> payload[c], conn |-> conn]

\* The envelope is written to the connection.
Written(c) ==
    wire' = IF payload[c] \in Followed
            THEN [wire EXCEPT ![conn] = Append(@, Message(c))]
            ELSE wire

\* PublishWithContext returns nil. On a connection that has broken meanwhile
\* the event is gone all the same.
Send(c) ==
    /\ step[c] = "publish"
    /\ IF Usable THEN Written(c) ELSE UNCHANGED wire
    /\ Return(c)
    /\ UNCHANGED <<closed, link, queue, faults>>

\* A failed publish is tried again on a new connection.
BrokenSendFails(c) ==
    /\ step[c] = "publish"
    /\ Usable => faults < MaxFaults
    /\ faults' = IF Usable THEN faults + 1 ELSE faults
    /\ Written(c) \/ UNCHANGED wire
    /\ Reset
    /\ step' = [step EXCEPT ![c] = "dial"]
    /\ UNCHANGED <<mu, closed, dials, payload, queue>>

\* It returns an error, whether or not the broker gets the event: the
\* connection is dropped, and the next call makes another.
SendFails(c) ==
    /\ step[c] = "publish"
    /\ Usable => faults < MaxFaults
    /\ faults' = IF Usable THEN faults + 1 ELSE faults
    /\ Written(c) \/ UNCHANGED wire
    /\ Reset
    /\ Return(c)
    /\ UNCHANGED <<closed, dials, queue>>

PublishStep(c) ==
    \/ Acquire(c)
    \/ Dial(c)
    \/ DialFails(c)
    \/ OpenChannel(c)
    \/ SetupFails(c)
    \/ Declare(c)
    \/ Send(c)
    \/ SendFails(c)

Close ==
    /\ mu = Nobody
    /\ closed' = TRUE
    /\ Reset
    /\ UNCHANGED <<mu, dials, step, payload, broker>>

----------------------------------------------------------------------------
(* The broker and the network. *)

\* A connection breaks, and so does the channel on it; of what it carries
\* only a beginning still arrives.
Disconnect(k) ==
    /\ k \in open
    /\ faults < MaxFaults
    /\ faults' = faults + 1
    /\ open' = open \ {k}
    /\ \E n \in 0 .. Len(wire[k]) : wire' = [wire EXCEPT ![k] = SubSeq(@, 1, n)]
    /\ UNCHANGED <<mu, closed, conn, channelUp, dials, step, payload, queue>>

\* The broker closes the channel and keeps the connection.
CloseChannel ==
    /\ channelUp
    /\ faults < MaxFaults
    /\ faults' = faults + 1
    /\ channelUp' = FALSE
    /\ UNCHANGED <<mu, closed, conn, dials, open, step, payload, wire, queue>>

Deliver(k) ==
    /\ wire[k] # <<>>
    /\ queue' = Append(queue, Head(wire[k]))
    /\ wire' = [wire EXCEPT ![k] = Tail(@)]
    /\ UNCHANGED <<mu, closed, link, step, payload, faults>>

BrokerStep ==
    \/ \E k \in Connections : Disconnect(k) \/ Deliver(k)
    \/ CloseChannel

----------------------------------------------------------------------------

PublisherInit ==
    /\ mu = Nobody
    /\ closed = FALSE
    /\ conn = 0
    /\ channelUp = FALSE
    /\ dials = 0
    /\ open = {}
    /\ step = [c \in Callers |-> "out"]
    /\ payload = [c \in Callers |-> NoEvent]
    /\ wire = [k \in Connections |-> <<>>]
    /\ queue = <<>>
    /\ faults = 0

\* Every connection that the broker has open for this process is the
\* publisher's own, or the one that the holder of the mutex is setting up: no
\* error path of the reconnection forgets one.
ConnectionsOwned == open \subseteq {conn} \cup Dialled
=============================================================================
