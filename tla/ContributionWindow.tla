------------------------- MODULE ContributionWindow -------------------------
(***************************************************************************)
(* The contribution window (contribution_window.go), filled by the WOPI    *)
(* routes and emptied by the flush ticker.                                 *)
(*                                                                         *)
(* A request takes two critical sections: the middleware records its actor *)
(* before the handler runs (AddActor), and a PutFile that saved a genuine  *)
(* user modification flags the document after the save (MarkModified).     *)
(* flush swaps the whole map under the mutex and publishes the old one     *)
(* document by document, outside it.                                       *)
(*                                                                         *)
(* A document without an entry and one with an empty entry are alike to    *)
(* every operation, so the map is total here. Windows are numbered: the    *)
(* number and the variables marked history only serve the properties.      *)
(*                                                                         *)
(* An operator whose name starts with Broken is a plausible bug of the     *)
(* operator it precedes. The specification does not use it: the properties *)
(* are shown to notice it when it takes that operator's place.             *)
(***************************************************************************)
EXTENDS Naturals

CONSTANTS
    Docs,        \* the documents
    Actors,      \* the actors
    Requests,    \* WOPI requests that may be under way at once
    MaxWindows,  \* bound on the flushes
    None         \* no event, no token

ASSUME WindowsAssumption == MaxWindows \in Nat

Entry  == [modified : BOOLEAN, writeIDs : SUBSET Actors, readIDs : SUBSET Actors]
Empty  == [modified |-> FALSE, writeIDs |-> {}, readIDs |-> {}]
Tokens == [doc : Docs, actor : Actors, write : BOOLEAN]
Events == [doc : Docs, topic : {"contribution", "view"},
           writeActors : SUBSET Actors, readonlyActors : SUBSET Actors]

ASSUME NoneAssumption == None \notin Tokens \cup Events

VARIABLES
    docs,         \* c.docs, the current window
    snapshot,     \* flush's snapshot
    left,         \* the documents flush has still to go through
    flusher,      \* "waiting" for the ticker, "flushing" or "stopped"
    emitted,      \* c.emitted
    publishFail,  \* c.publishFail
    token,        \* each request past the middleware: its token
    event,        \* the last event handed to the publisher and accepted
    window,       \* history: the number of the current window
    active,       \* history: the actors recorded, by window, until handled
    saves,        \* history: the modifications flagged, by window, until handled
    handled       \* history: how many documents of flushed windows had actors

vars == <<docs, snapshot, left, flusher, emitted, publishFail, token, event,
          window, active, saves, handled>>

history  == <<active, saves, handled>>

\* Every variable has its type; documents are left to publish only while the
\* flush runs.
TypeOK ==
    /\ docs \in [Docs -> Entry]
    /\ snapshot \in [Docs -> Entry]
    /\ left \in SUBSET IF flusher = "flushing" THEN Docs ELSE {}
    /\ flusher \in {"waiting", "flushing", "stopped"}
    /\ emitted \in Nat
    /\ publishFail \in Nat
    /\ token \in [Requests -> Tokens \cup {None}]
    /\ event \in Events \cup {None}
    /\ window \in 0..MaxWindows
    /\ active \in SUBSET [token : Tokens, window : 0..MaxWindows]
    /\ saves \in SUBSET [token : Tokens, window : 0..MaxWindows]
    /\ handled \in Nat

----------------------------------------------------------------------------
(* The request path. *)

\* The permission is not consulted: every actor counts as a writer.
BrokenWithActor(entry, t) == [entry EXCEPT !.writeIDs = @ \cup {t.actor}]

WithActor(entry, t) ==
    IF t.write THEN [entry EXCEPT !.writeIDs = @ \cup {t.actor}]
               ELSE [entry EXCEPT !.readIDs = @ \cup {t.actor}]

\* ContributionMiddleware, on every WOPI route.
AddActor(r, t) ==
    /\ token[r] = None
    /\ token' = [token EXCEPT ![r] = t]
    /\ docs' = [docs EXCEPT ![t.doc] = WithActor(@, t)]
    /\ active' = active \cup {[token |-> t, window |-> window]}
    /\ UNCHANGED <<snapshot, left, flusher, emitted, publishFail, event, window, saves, handled>>

\* putFile saved, and Collabora says that the user modified the document. Only
\* a write token gets there.
MarkModified(r) ==
    /\ token[r] # None
    /\ LET t == token[r] IN
        /\ t.write
        /\ docs' = [docs EXCEPT ![t.doc].modified = TRUE]
        /\ saves' = saves \cup {[token |-> t, window |-> window]}
    /\ token' = [token EXCEPT ![r] = None]
    /\ UNCHANGED <<snapshot, left, flusher, emitted, publishFail, event, window, active, handled>>

\* Any other request, a failed save and an autosave leave the window alone.
Respond(r) ==
    /\ token[r] # None
    /\ token' = [token EXCEPT ![r] = None]
    /\ UNCHANGED <<docs, snapshot, left, flusher, emitted, publishFail, event, window, history>>

----------------------------------------------------------------------------
(* The ticker goroutine. *)

\* The snapshot is taken and no new map made.
BrokenSwap == docs

\* What is left in c.docs by the swap: a new map.
Swap == [d \in Docs |-> Empty]

StartFlush ==
    /\ flusher = "waiting"
    /\ window < MaxWindows
    /\ snapshot' = docs
    /\ docs' = Swap
    /\ left' = Docs
    /\ flusher' = "flushing"
    /\ window' = window + 1
    /\ UNCHANGED <<emitted, publishFail, event, token, history>>

\* The window whose documents are being published.
Flushed == window - 1

HasActors(d) == snapshot[d].writeIDs # {} \/ snapshot[d].readIDs # {}

Topic(d) == IF snapshot[d].modified THEN "contribution" ELSE "view"

EventOf(d) ==
    [doc |-> d, topic |-> Topic(d),
     writeActors |-> snapshot[d].writeIDs, readonlyActors |-> snapshot[d].readIDs]

\* The history of a document's flushed window is settled.
Settle(d) ==
    /\ left' = left \ {d}
    /\ active' = {a \in active : ~(a.token.doc = d /\ a.window = Flushed)}
    /\ saves' = {s \in saves : ~(s.token.doc = d /\ s.window = Flushed)}
    /\ handled' = IF \E a \in active : a.token.doc = d /\ a.window = Flushed
                  THEN handled + 1 ELSE handled

Emit(d) ==
    /\ d \in left
    /\ HasActors(d)
    /\ event' = EventOf(d)
    /\ emitted' = emitted + 1
    /\ Settle(d)
    /\ UNCHANGED <<docs, snapshot, flusher, publishFail, token, window>>

\* A failed publish ends the loop (a return for the continue).
BrokenDrop(d) ==
    /\ d \in left
    /\ HasActors(d)
    /\ publishFail' = publishFail + 1
    /\ left' = {}
    /\ active' = {a \in active : ~(a.token.doc = d /\ a.window = Flushed)}
    /\ saves' = {s \in saves : ~(s.token.doc = d /\ s.window = Flushed)}
    /\ handled' = handled + 1
    /\ UNCHANGED <<docs, snapshot, flusher, emitted, event, token, window>>

\* Publish returned an error: logged, counted and swallowed.
Drop(d) ==
    /\ d \in left
    /\ HasActors(d)
    /\ publishFail' = publishFail + 1
    /\ Settle(d)
    /\ UNCHANGED <<docs, snapshot, flusher, emitted, event, token, window>>

Skip(d) ==
    /\ d \in left
    /\ ~HasActors(d)
    /\ Settle(d)
    /\ UNCHANGED <<docs, snapshot, flusher, emitted, publishFail, event, token, window>>

\* The documents are published by goroutines that flush does not wait for.
BrokenEndFlush ==
    /\ flusher = "flushing"
    /\ flusher' = "waiting"
    /\ snapshot' = [d \in Docs |-> Empty]
    /\ UNCHANGED <<docs, left, emitted, publishFail, event, token, window, history>>

EndFlush ==
    /\ flusher = "flushing"
    /\ left = {}
    /\ flusher' = "waiting"
    /\ snapshot' = [d \in Docs |-> Empty]
    /\ UNCHANGED <<docs, left, emitted, publishFail, event, token, window, history>>

\* The application context is cancelled: the goroutine returns between two
\* ticks, and what the current window holds is never published.
Stop ==
    /\ flusher = "waiting"
    /\ flusher' = "stopped"
    /\ UNCHANGED <<docs, snapshot, left, emitted, publishFail, event, token, window, history>>

----------------------------------------------------------------------------

Init ==
    /\ docs = [d \in Docs |-> Empty]
    /\ snapshot = [d \in Docs |-> Empty]
    /\ left = {}
    /\ flusher = "waiting"
    /\ emitted = 0
    /\ publishFail = 0
    /\ token = [r \in Requests |-> None]
    /\ event = None
    /\ window = 0
    /\ active = {}
    /\ saves = {}
    /\ handled = 0

Handle(d) == Emit(d) \/ Drop(d) \/ Skip(d)

Next ==
    \/ \E r \in Requests : \/ \E t \in Tokens : AddActor(r, t)
                           \/ MarkModified(r)
                           \/ Respond(r)
    \/ StartFlush
    \/ \E d \in Docs : Handle(d)
    \/ EndFlush
    \/ Stop

Spec == Init /\ [][Next]_vars

----------------------------------------------------------------------------

\* The event that the window of a document deserves, from what happened in it.
ActorsOf(d, write) ==
    {t.actor : t \in {u \in Tokens :
        u.doc = d /\ u.write = write /\ [token |-> u, window |-> Flushed] \in active}}
SavedIn(d) == \E s \in saves : s.token.doc = d /\ s.window = Flushed

\* Each document's event is exactly what happened to it in the flushed window:
\* the actors that were active then, split by permission, as a contribution if
\* a genuine modification was saved. Nothing recorded while the flush runs
\* leaks into it, and nothing is reported twice.
EventsExact ==
    [][\A d \in Docs : Emit(d) =>
        event' = [doc |-> d,
                  topic |-> IF SavedIn(d) THEN "contribution" ELSE "view",
                  writeActors |-> ActorsOf(d, TRUE),
                  readonlyActors |-> ActorsOf(d, FALSE)]]_vars

\* The two counters account for every document that had actors in a flushed
\* window: none is dropped without being counted, none counted twice.
EveryWindowCounted == emitted + publishFail = handled

\* No activity is left behind: what a request recorded is in the current
\* window, or in the flushed one with its document still to be published,
\* whatever the broker does.
NothingLeftBehind ==
    \A a \in active : \/ a.window = window
                      \/ a.window = Flushed /\ a.token.doc \in left
=============================================================================
