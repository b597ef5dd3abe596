------------------------------ MODULE Process ------------------------------
(***************************************************************************)
(* One process of the service from start to exit (cmd/server/main.go) and  *)
(* what lives and dies with it: the HTTP requests, the pool, the RabbitMQ  *)
(* publisher that rename requests share with the contribution flusher.     *)
(*                                                                         *)
(* On SIGTERM the goroutine gracefulShutdown cancels the application       *)
(* context and calls srv.Shutdown, which closes the listener and waits up  *)
(* to ten seconds for the requests. Closing the listener makes             *)
(* ListenAndServe return in main, which runs its deferred calls, the last  *)
(* first: publisher.Close, then wopiPool.Close, and returns. Nothing makes *)
(* main wait for gracefulShutdown, so requests and flushes are cut.        *)
(*                                                                         *)
(* Every request asks the pool for its token; past that it is a rename, or *)
(* one of the others, which are subjects of other modules and just end     *)
(* here. What a contribution event says is the subject of                  *)
(* ContributionWindow; here a window is the set of documents that it has   *)
(* an event for.                                                           *)
(*                                                                         *)
(* net/http and pgxpool are external. A pool that is closed refuses new    *)
(* queries, and its Close waits for those under way.                       *)
(***************************************************************************)
EXTENDS Publisher

CONSTANTS
    Requests,   \* HTTP requests that may arrive
    Docs,       \* the documents they are about
    Flusher     \* the goroutine of ContributionWindow.Start

ASSUME CallersAssumption == Callers = Requests \cup {Flusher} /\ Flusher \notin Requests
ASSUME EventsAssumption ==
    Requests \cap Docs = {} /\ NoEvent \notin Requests \cup Docs

VARIABLES
    main,       \* "starting", "serving", its deferred calls, "exited" when it
                \* returned, "killed" when logger.Fatal or a signal ended it
    listening,  \* the listener is open
    signalled,  \* the signal is delivered and the application context cancelled
    poolOpen,   \* the pool accepts queries
    request,    \* the next step of each request
    flusher,    \* ContributionWindow.Start: "waiting", "flushing" or "stopped"
    window,     \* the documents with activity in the current window
    batch,      \* the documents that the flush has still to publish
    earlier     \* history: the requests answered before each one arrived

process == <<main, listening, signalled, poolOpen>>
loops   == <<flusher, window, batch>>
vars    == <<pubVars, process, request, loops, earlier>>

RequestSteps == {"absent", "token", "querying", "handler", "publish", "answered"}

Alive == main \notin {"exited", "killed"}

\* Somebody holds a connection of the pool.
PoolInUse == \E r \in Requests : request[r] = "querying"

----------------------------------------------------------------------------
(* Requests. *)

Goto(r, next) == request' = [request EXCEPT ![r] = next]

Accept(r) ==
    /\ listening
    /\ request[r] = "absent"
    /\ Goto(r, "token")
    /\ earlier' = [earlier EXCEPT ![r] = {q \in Requests : request[q] = "answered"}]
    /\ UNCHANGED <<pubVars, process, loops>>

\* ValidateToken takes a connection. A pool that is closed is an error, and the
\* request is answered 500.
Query(r) ==
    /\ Alive
    /\ request[r] = "token"
    /\ Goto(r, IF poolOpen THEN "querying" ELSE "answered")
    /\ UNCHANGED <<pubVars, process, loops, earlier>>

\* TokenAuthMiddleware refuses the request.
Unauthorized(r) ==
    /\ Alive
    /\ request[r] = "querying"
    /\ Goto(r, "answered")
    /\ UNCHANGED <<pubVars, process, loops, earlier>>

\* It lets the request pass, and ContributionMiddleware records the actor.
Authorized(r, d) ==
    /\ Alive
    /\ request[r] = "querying"
    /\ window' = window \cup {d}
    /\ Goto(r, "handler")
    /\ UNCHANGED <<pubVars, process, flusher, batch, earlier>>

\* renameFile without a publish: no write permission, CheckFileInfo fails or
\* finds no document, or no usable name is requested. Any other handler ends.
Answer(r) ==
    /\ Alive
    /\ request[r] = "handler"
    /\ Goto(r, "answered")
    /\ UNCHANGED <<pubVars, process, loops, earlier>>

\* The event is published in a goroutine of its own, after the answer.
BrokenPublishRename(r) ==
    /\ Alive
    /\ request[r] = "handler"
    /\ Publish(r, r)
    /\ Goto(r, "answered")
    /\ UNCHANGED <<mu, closed, link, broker, process, loops, earlier>>

\* The handler calls Publish and waits for it.
PublishRename(r) ==
    /\ Alive
    /\ request[r] = "handler"
    /\ Publish(r, r)
    /\ Goto(r, "publish")
    /\ UNCHANGED <<mu, closed, link, broker, process, loops, earlier>>

\* The name is echoed, whether or not the publish succeeded.
AnswerRename(r) ==
    /\ Alive
    /\ request[r] = "publish"
    /\ step[r] = "out"
    /\ Goto(r, "answered")
    /\ UNCHANGED <<pubVars, process, loops, earlier>>

RequestStep(r) ==
    \/ Query(r)
    \/ Unauthorized(r)
    \/ \E d \in Docs : Authorized(r, d)
    \/ Answer(r)
    \/ PublishRename(r)
    \/ AnswerRename(r)

----------------------------------------------------------------------------
(* The flush ticker. *)

StartFlush ==
    /\ Alive
    /\ flusher = "waiting"
    /\ window # {}
    /\ batch' = window
    /\ window' = {}
    /\ flusher' = "flushing"
    /\ UNCHANGED <<pubVars, process, request, earlier>>

PublishActivity(d) ==
    /\ Alive
    /\ d \in batch
    /\ Publish(Flusher, d)
    /\ batch' = batch \ {d}
    /\ UNCHANGED <<mu, closed, link, broker, process, request, flusher, window, earlier>>

\* A timer, which fires once, for the ticker.
BrokenEndFlush ==
    /\ Alive
    /\ flusher = "flushing"
    /\ batch = {} /\ step[Flusher] = "out"
    /\ flusher' = "stopped"
    /\ UNCHANGED <<pubVars, process, request, window, batch, earlier>>

EndFlush ==
    /\ Alive
    /\ flusher = "flushing"
    /\ batch = {} /\ step[Flusher] = "out"
    /\ flusher' = "waiting"
    /\ UNCHANGED <<pubVars, process, request, window, batch, earlier>>

\* ctx.Done: between two ticks only, and what the window holds is lost.
StopFlusher ==
    /\ Alive
    /\ signalled
    /\ flusher = "waiting"
    /\ flusher' = "stopped"
    /\ UNCHANGED <<pubVars, process, request, window, batch, earlier>>

FlusherStep ==
    \/ StartFlush
    \/ \E d \in Docs : PublishActivity(d)
    \/ EndFlush
    \/ StopFlusher

----------------------------------------------------------------------------
(* main and gracefulShutdown. *)

\* Configuration, migrations, pool, adapters and services, then the server.
StartServing ==
    /\ main = "starting"
    /\ main' = "serving"
    /\ listening' = TRUE
    /\ UNCHANGED <<pubVars, signalled, poolOpen, request, loops, earlier>>

\* logger.Fatal, or a signal before gracefulShutdown listens for it.
StartupFails ==
    /\ main = "starting"
    /\ main' = "killed"
    /\ UNCHANGED <<pubVars, listening, signalled, poolOpen, request, loops, earlier>>

Signal ==
    /\ main = "serving"
    /\ ~signalled
    /\ signalled' = TRUE
    /\ UNCHANGED <<pubVars, main, listening, poolOpen, request, loops, earlier>>

\* srv.Shutdown closes the listener. That it then waits for the requests
\* delays nobody.
CallShutdown ==
    /\ main = "serving"
    /\ signalled /\ listening
    /\ listening' = FALSE
    /\ UNCHANGED <<pubVars, main, signalled, poolOpen, request, loops, earlier>>

\* ListenAndServe returns another error than ErrServerClosed: logger.Fatal ends
\* the process at once, without the deferred calls.
ServeFails ==
    /\ main = "serving" /\ listening
    /\ main' = "killed"
    /\ listening' = FALSE
    /\ UNCHANGED <<pubVars, signalled, poolOpen, request, loops, earlier>>

\* It returns ErrServerClosed.
ListenAndServeReturns ==
    /\ main = "serving" /\ ~listening
    /\ main' = "closePublisher"
    /\ UNCHANGED <<pubVars, listening, signalled, poolOpen, request, loops, earlier>>

ClosePublisher ==
    /\ main = "closePublisher"
    /\ Close
    /\ main' = "closePool"
    /\ UNCHANGED <<listening, signalled, poolOpen, request, loops, earlier>>

ClosePool ==
    /\ main = "closePool"
    /\ poolOpen' = FALSE
    /\ main' = "drain"
    /\ UNCHANGED <<pubVars, listening, signalled, request, loops, earlier>>

\* wopiPool.Close returns, and so does main.
Exit ==
    /\ main = "drain"
    /\ ~PoolInUse
    /\ main' = "exited"
    /\ UNCHANGED <<pubVars, listening, signalled, poolOpen, request, loops, earlier>>

MainStep ==
    \/ CallShutdown
    \/ ListenAndServeReturns
    \/ ClosePublisher
    \/ ClosePool
    \/ Exit

----------------------------------------------------------------------------

Init ==
    /\ PublisherInit
    /\ main = "starting"
    /\ listening = FALSE
    /\ signalled = FALSE
    /\ poolOpen = TRUE
    /\ request = [r \in Requests |-> "absent"]
    /\ flusher = "waiting"
    /\ window = {}
    /\ batch = {}
    /\ earlier = [r \in Requests |-> {}]

InPublish(c) == Alive /\ PublishStep(c) /\ UNCHANGED <<process, request, loops, earlier>>

Broker == BrokerStep /\ UNCHANGED <<process, request, loops, earlier>>

Next ==
    \/ \E r \in Requests : Accept(r) \/ RequestStep(r)
    \/ \E c \in Callers : InPublish(c)
    \/ FlusherStep
    \/ StartServing
    \/ StartupFails
    \/ ServeFails
    \/ Signal
    \/ MainStep
    \/ Broker

Spec == Init /\ [][Next]_vars

\* Every goroutine that can take its next step takes it in the end: amqp and the
\* file-service client have timeouts of their own, the ticker fires, and
\* sync.Mutex starves nobody. A query has no deadline, so that it ends rests on
\* the database, which answers or drops the connection.
Fairness ==
    /\ \A r \in Requests : WF_vars(RequestStep(r) \/ InPublish(r))
    /\ WF_vars(FlusherStep \/ InPublish(Flusher))
    /\ WF_vars(MainStep)

FairSpec == Spec /\ Fairness

----------------------------------------------------------------------------

\* Every variable has its type; the holder of the mutex is inside Publish.
TypeOK ==
    /\ mu \in Callers \cup {Nobody}
    /\ mu # Nobody => step[mu] \notin {"out", "lock"}
    /\ closed \in BOOLEAN /\ channelUp \in BOOLEAN
    /\ conn \in 0 .. MaxDials /\ dials \in 0 .. MaxDials
    /\ open \subseteq 1 .. dials
    /\ step \in [Callers -> PublishSteps]
    /\ payload \in [Callers -> Requests \cup Docs \cup {NoEvent}]
    /\ faults \in 0 .. MaxFaults
    /\ main \in {"starting", "serving", "closePublisher", "closePool", "drain",
                "exited", "killed"}
    /\ listening \in BOOLEAN /\ signalled \in BOOLEAN /\ poolOpen \in BOOLEAN
    /\ request \in [Requests -> RequestSteps]
    /\ flusher \in {"waiting", "flushing", "stopped"}
    /\ window \subseteq Docs
    /\ batch \in SUBSET IF flusher = "flushing" THEN Docs ELSE {}
    /\ earlier \in [Requests -> SUBSET Requests]

\* However late a rename or a flush comes to the publisher, main returns with no
\* connection to the broker, nobody inside the publisher and no database
\* connection in use, although it cuts the requests under way. logger.Fatal
\* closes nothing.
ExitClean ==
    main = "exited" => open = {} /\ mu = Nobody /\ ~PoolInUse

\* A rename is announced at most once, also when the connection fails in the
\* middle of it: the caller never repeats an event that may have got through.
AtMostOnce ==
    \A i, j \in 1 .. Len(queue) :
        queue[i].event \in Requests /\ queue[i].event = queue[j].event => i = j

\* Renames that went over the same connection are announced in the order in
\* which the editor saw them answered: of those that get through the last one wins.
RenamesInOrder ==
    \A i, j \in 1 .. Len(queue) :
        /\ i < j
        /\ queue[i].conn = queue[j].conn
        /\ queue[i].event \in Requests
        => queue[j].event \notin earlier[queue[i].event]

\* After the signal the process exits, whoever is dialling, publishing
\* or querying at that moment.
EventuallyExits == signalled ~> ~Alive

\* Only the end of the process loses activity before the broker is tried: what a
\* window recorded is handed to the publisher, whatever becomes of earlier events.
ActivityFlushed ==
    \A d \in Docs :
        d \in window ~> d \notin window \cup batch \/ signalled \/ main = "killed"
=============================================================================
