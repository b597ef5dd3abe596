---------------------- MODULE ContributionWindow_proofs ----------------------
(***************************************************************************)
(* Proofs about the contribution window: the swap of the map under the     *)
(* mutex and the publishing outside it lose no activity, mix no two        *)
(* windows and count every document once, for any number of documents,     *)
(* actors, requests and flushes.                                           *)
(***************************************************************************)
EXTENDS ContributionWindow, TLAPS

\* In the window numbered w the actor x was recorded for the document d.
Recorded(d, x, write, w) ==
    \E a \in active : /\ a.token.doc = d
                      /\ a.token.actor = x
                      /\ a.token.write = write
                      /\ a.window = w

Saved(d, w) == \E s \in saves : s.token.doc = d /\ s.window = w

\* The entry of a map holds what the history says of that window.
Matches(entry, d, w) ==
    /\ entry.modified <=> Saved(d, w)
    /\ \A x \in Actors : x \in entry.writeIDs <=> Recorded(d, x, TRUE, w)
    /\ \A x \in Actors : x \in entry.readIDs <=> Recorded(d, x, FALSE, w)

\* c.docs is the current window, complete and nothing else.
CurrentExact == \A d \in Docs : Matches(docs[d], d, window)

\* The snapshot is the flushed window for the documents still to be handled.
SnapshotExact == \A d \in left : Matches(snapshot[d], d, Flushed)

\* No save is left behind either.
NoSaveLeftBehind ==
    \A s \in saves : \/ s.window = window
                     \/ s.window = Flushed /\ s.token.doc \in left

\* The maps and the counters agree with the history.
Exact ==
    /\ CurrentExact
    /\ SnapshotExact
    /\ NothingLeftBehind
    /\ NoSaveLeftBehind
    /\ EveryWindowCounted

IInv == TypeOK /\ Exact

----------------------------------------------------------------------------

\* Initially the windows are empty and nothing was counted.
LEMMA InitInvariant == Init => IInv
BY WindowsAssumption
   DEF Init, IInv, Exact, TypeOK, CurrentExact, SnapshotExact, NothingLeftBehind, NoSaveLeftBehind,
       EveryWindowCounted, Matches, Recorded, Saved, Empty, Entry

\* Types are kept by every step.
LEMMA StepType == TypeOK /\ [Next]_vars => TypeOK'
<1> SUFFICES ASSUME TypeOK, [Next]_vars PROVE TypeOK'
    OBVIOUS
<1> USE WindowsAssumption
<1>1. ASSUME NEW r \in Requests, NEW t \in Tokens, AddActor(r, t) PROVE TypeOK'
    <2>1. t.doc \in Docs /\ t.actor \in Actors /\ docs[t.doc] \in Entry
        BY DEF TypeOK, Tokens
    <2>2. WithActor(docs[t.doc], t) \in Entry
        BY <2>1 DEF WithActor, Entry
    <2>3. docs' \in [Docs -> Entry] /\ token' \in [Requests -> Tokens \cup {None}]
        BY <1>1, <2>2 DEF TypeOK, AddActor
    <2>4. [token |-> t, window |-> window] \in [token : Tokens, window : 0..MaxWindows]
        BY DEF TypeOK
    <2>5. QED
        BY <1>1, <2>3, <2>4 DEF TypeOK, AddActor
<1>2. ASSUME NEW r \in Requests, MarkModified(r) PROVE TypeOK'
    <2> DEFINE t == token[r]
    <2>1. t \in Tokens /\ t.doc \in Docs /\ docs[t.doc] \in Entry
        BY <1>2 DEF TypeOK, MarkModified, Tokens
    <2>2. [docs[t.doc] EXCEPT !.modified = TRUE] \in Entry
        BY <2>1 DEF Entry
    <2>3. docs' \in [Docs -> Entry] /\ token' \in [Requests -> Tokens \cup {None}]
        BY <1>2, <2>2 DEF TypeOK, MarkModified
    <2>4. [token |-> t, window |-> window] \in [token : Tokens, window : 0..MaxWindows]
        BY <2>1 DEF TypeOK
    <2>5. QED
        BY <1>2, <2>3, <2>4 DEF TypeOK, MarkModified
<1>3. ASSUME NEW r \in Requests, Respond(r) PROVE TypeOK'
    BY <1>3 DEF TypeOK, Respond, history
<1>4. CASE StartFlush
    BY <1>4 DEF TypeOK, StartFlush, Swap, Empty, Entry, history
<1>5. ASSUME NEW d \in Docs, Settle(d), UNCHANGED flusher
      PROVE  /\ left' \in SUBSET IF flusher' = "flushing" THEN Docs ELSE {}
             /\ active' \in SUBSET [token : Tokens, window : 0..MaxWindows]
             /\ saves' \in SUBSET [token : Tokens, window : 0..MaxWindows]
             /\ handled' \in Nat
    BY <1>5 DEF TypeOK, Settle
<1>6. ASSUME NEW d \in Docs, Emit(d) PROVE TypeOK'
    <2>1. EventOf(d) \in Events
        BY DEF TypeOK, EventOf, Topic, Events, Entry
    <2>2. QED
        BY <1>5, <1>6, <2>1 DEF TypeOK, Emit
<1>7. ASSUME NEW d \in Docs, Drop(d) PROVE TypeOK'
    BY <1>5, <1>7 DEF TypeOK, Drop
<1>8. ASSUME NEW d \in Docs, Skip(d) PROVE TypeOK'
    BY <1>5, <1>8 DEF TypeOK, Skip
<1>9. CASE EndFlush
    BY <1>9 DEF TypeOK, EndFlush, Empty, Entry, history
<1>10. CASE Stop
    BY <1>10 DEF TypeOK, Stop, history
<1>11. CASE UNCHANGED vars
    BY <1>11 DEF TypeOK, vars
<1>12. QED
    BY <1>1, <1>2, <1>3, <1>4, <1>6, <1>7, <1>8, <1>9, <1>10, <1>11 DEF Next, Handle

----------------------------------------------------------------------------

\* A recorded actor changes the entry of its document and window only.
LEMMA AddActorStep ==
    ASSUME IInv, NEW r \in Requests, NEW t \in Tokens, AddActor(r, t)
    PROVE  Exact'
<1> USE WindowsAssumption
<1>1. /\ active' = active \cup {[token |-> t, window |-> window]}
      /\ UNCHANGED <<saves, window, left, snapshot, handled, emitted, publishFail>>
      /\ Flushed' = Flushed /\ Flushed # window
      /\ left \subseteq Docs
    BY DEF AddActor, Flushed, IInv, TypeOK
<1>2. \A d, x, b, w : Recorded(d, x, b, w)' <=>
            Recorded(d, x, b, w) \/ (d = t.doc /\ x = t.actor /\ b = t.write /\ w = window)
    <2> DEFINE new == [token |-> t, window |-> window]
    <2>1. new.token = t /\ new.window = window
        OBVIOUS
    <2> HIDE DEF new
    <2>2. active' = active \cup {new}
        BY <1>1 DEF new
    <2>3. QED
        BY <2>1, <2>2 DEF Recorded
<1>3. \A d, w : Saved(d, w)' <=> Saved(d, w)
    BY <1>1 DEF Saved
<1>4. CurrentExact'
    <2> SUFFICES ASSUME NEW d \in Docs PROVE Matches(docs[d], d, window)'
        BY DEF CurrentExact
    <2>1. Matches(docs[d], d, window)
        BY DEF IInv, Exact, CurrentExact
    <2>2. docs'[d] = IF d = t.doc THEN WithActor(docs[d], t) ELSE docs[d]
        BY DEF AddActor, IInv, TypeOK, Tokens
    <2>3. docs[d] \in Entry /\ t.write \in BOOLEAN
        BY DEF IInv, TypeOK, Tokens
    <2>4. CASE d # t.doc
        BY <1>1, <1>2, <1>3, <2>1, <2>2, <2>4 DEF Matches
    <2> DEFINE e == docs[d]
               f == docs'[d]
    <2>5. CASE d = t.doc /\ t.write
        <3>1. f.modified = e.modified /\ f.writeIDs = e.writeIDs \cup {t.actor} /\ f.readIDs = e.readIDs
            BY <2>2, <2>3, <2>5 DEF WithActor, Entry
        <3>2. t.write = TRUE
            BY <2>3, <2>5
        <3>3. \A x \in Actors : Recorded(d, x, TRUE, window)' <=> Recorded(d, x, TRUE, window) \/ x = t.actor
            BY <1>1, <1>2, <2>5, <3>2
        <3>4. \A x \in Actors : Recorded(d, x, FALSE, window)' <=> Recorded(d, x, FALSE, window)
            BY <1>1, <1>2, <3>2
        <3>5. QED
            BY <1>1, <1>3, <2>1, <3>1, <3>3, <3>4 DEF Matches
    <2>6. CASE d = t.doc /\ ~t.write
        <3>1. f.modified = e.modified /\ f.writeIDs = e.writeIDs /\ f.readIDs = e.readIDs \cup {t.actor}
            BY <2>2, <2>3, <2>6 DEF WithActor, Entry
        <3>2. t.write = FALSE
            BY <2>3, <2>6
        <3>3. \A x \in Actors : Recorded(d, x, FALSE, window)' <=> Recorded(d, x, FALSE, window) \/ x = t.actor
            BY <1>1, <1>2, <2>6, <3>2
        <3>4. \A x \in Actors : Recorded(d, x, TRUE, window)' <=> Recorded(d, x, TRUE, window)
            BY <1>1, <1>2, <3>2
        <3>5. QED
            BY <1>1, <1>3, <2>1, <3>1, <3>3, <3>4 DEF Matches
    <2>7. QED
        BY <2>4, <2>5, <2>6
<1>5. SnapshotExact'
    BY <1>1, <1>2, <1>3 DEF SnapshotExact, Matches, IInv, Exact
<1>6. NothingLeftBehind' /\ NoSaveLeftBehind' /\ EveryWindowCounted'
    BY <1>1 DEF NothingLeftBehind, NoSaveLeftBehind, EveryWindowCounted, IInv, Exact
<1>7. QED
    BY <1>4, <1>5, <1>6 DEF Exact

\* A save flags the entry of its document in the current window only, even
\* when its actor was recorded in an earlier one.
LEMMA MarkModifiedStep ==
    ASSUME IInv, NEW r \in Requests, MarkModified(r)
    PROVE  Exact'
<1> USE WindowsAssumption
<1> DEFINE t == token[r]
<1>1. /\ t \in Tokens
      /\ saves' = saves \cup {[token |-> t, window |-> window]}
      /\ UNCHANGED <<active, window, left, snapshot, handled, emitted, publishFail>>
      /\ Flushed' = Flushed /\ Flushed # window
      /\ left \subseteq Docs
    BY DEF MarkModified, Flushed, IInv, TypeOK
<1>2. \A d, x, b, w : Recorded(d, x, b, w)' <=> Recorded(d, x, b, w)
    BY <1>1 DEF Recorded
<1>3. \A d, w : Saved(d, w)' <=> Saved(d, w) \/ (d = t.doc /\ w = window)
    <2> DEFINE new == [token |-> t, window |-> window]
    <2>1. new.token = t /\ new.window = window
        OBVIOUS
    <2> HIDE DEF new
    <2>2. saves' = saves \cup {new}
        BY <1>1 DEF new
    <2>3. QED
        BY <2>1, <2>2 DEF Saved
<1>4. CurrentExact'
    <2> SUFFICES ASSUME NEW d \in Docs PROVE Matches(docs[d], d, window)'
        BY DEF CurrentExact
    <2>1. Matches(docs[d], d, window) /\ docs[d] \in Entry
        BY DEF IInv, Exact, CurrentExact, TypeOK
    <2>2. docs'[d] = IF d = t.doc THEN [docs[d] EXCEPT !.modified = TRUE] ELSE docs[d]
        BY <1>1 DEF MarkModified, IInv, TypeOK, Tokens
    <2>3. QED
        BY <1>1, <1>2, <1>3, <2>1, <2>2 DEF Matches, Entry
<1>5. SnapshotExact'
    BY <1>1, <1>2, <1>3 DEF SnapshotExact, Matches, IInv, Exact
<1>6. NothingLeftBehind' /\ NoSaveLeftBehind' /\ EveryWindowCounted'
    BY <1>1 DEF NothingLeftBehind, NoSaveLeftBehind, EveryWindowCounted, IInv, Exact
<1>7. QED
    BY <1>4, <1>5, <1>6 DEF Exact

\* The swap turns the current window into the flushed one, every document of
\* it still to be handled, and opens an empty one: no window before it is
\* still unsettled.
LEMMA StartFlushStep ==
    ASSUME IInv, StartFlush
    PROVE  Exact'
<1> USE WindowsAssumption
<1>1. /\ window' = window + 1 /\ Flushed' = window /\ window \in Nat
      /\ left = {} /\ left' = Docs /\ snapshot' = docs
      /\ UNCHANGED <<active, saves, handled, emitted, publishFail>>
    BY DEF StartFlush, Flushed, IInv, TypeOK, history
<1>2. /\ \A a \in active : a.window = window /\ a.token.doc \in Docs
      /\ \A s \in saves : s.window = window /\ s.token.doc \in Docs
    BY <1>1 DEF IInv, Exact, NothingLeftBehind, NoSaveLeftBehind, TypeOK, Tokens
<1>3. CurrentExact'
    BY <1>1, <1>2 DEF StartFlush, Swap, Empty, CurrentExact, Matches, Recorded, Saved
<1>4. SnapshotExact'
    BY <1>1 DEF IInv, Exact, CurrentExact, SnapshotExact, Matches, Recorded, Saved
<1>5. NothingLeftBehind' /\ NoSaveLeftBehind' /\ EveryWindowCounted'
    BY <1>1, <1>2 DEF NothingLeftBehind, NoSaveLeftBehind, EveryWindowCounted, IInv, Exact
<1>6. QED
    BY <1>3, <1>4, <1>5 DEF Exact

\* flush skips a document exactly when nobody was recorded for it.
LEMMA HasActorsExact ==
    ASSUME IInv, NEW d \in left
    PROVE  HasActors(d) <=> \E a \in active : a.token.doc = d /\ a.window = Flushed
<1>1. Matches(snapshot[d], d, Flushed) /\ snapshot[d] \in Entry
    BY DEF IInv, Exact, SnapshotExact, TypeOK
<1>2. \A a \in active : a.token.actor \in Actors /\ a.token.write \in BOOLEAN
    BY DEF IInv, TypeOK, Tokens
<1>3. QED
    BY <1>1, <1>2 DEF HasActors, Matches, Recorded, Entry

\* Handling a document settles its flushed window and touches nothing else.
LEMMA SettleStep ==
    ASSUME IInv, NEW d \in left, Settle(d), UNCHANGED <<docs, snapshot, window>>
    PROVE  CurrentExact' /\ SnapshotExact' /\ NothingLeftBehind' /\ NoSaveLeftBehind'
<1> USE WindowsAssumption
<1>1. Flushed' = Flushed /\ Flushed # window
    BY DEF Flushed, IInv, TypeOK
<1>2. \A e, x, b, w : Recorded(e, x, b, w)' <=> Recorded(e, x, b, w) /\ ~(e = d /\ w = Flushed)
    BY DEF Settle, Recorded
<1>3. \A e, w : Saved(e, w)' <=> Saved(e, w) /\ ~(e = d /\ w = Flushed)
    BY DEF Settle, Saved
<1>4. CurrentExact'
    BY <1>1, <1>2, <1>3 DEF IInv, Exact, CurrentExact, Matches
<1>5. SnapshotExact'
    BY <1>1, <1>2, <1>3 DEF IInv, Exact, SnapshotExact, Matches, Settle
<1>6. NothingLeftBehind' /\ NoSaveLeftBehind'
    BY <1>1 DEF IInv, Exact, NothingLeftBehind, NoSaveLeftBehind, Settle
<1>7. QED
    BY <1>4, <1>5, <1>6

\* Every step of a request and of the flush preserves the invariant.
LEMMA StepInvariant == IInv /\ [Next]_vars => IInv'
<1> SUFFICES ASSUME IInv, [Next]_vars PROVE IInv'
    OBVIOUS
<1>1. TypeOK'
    BY StepType DEF IInv
<1> SUFFICES Exact'
    BY <1>1 DEF IInv
<1>2. ASSUME UNCHANGED <<docs, snapshot, left, window, active, saves, handled, emitted, publishFail>>
      PROVE  Exact'
    BY <1>2 DEF IInv, Exact, CurrentExact, SnapshotExact, NothingLeftBehind, NoSaveLeftBehind,
                EveryWindowCounted, Matches, Recorded, Saved, Flushed
<1>3. ASSUME NEW r \in Requests, Respond(r) PROVE Exact'
    BY <1>2, <1>3 DEF Respond, history
<1>4. ASSUME NEW d \in Docs, Emit(d) PROVE Exact'
    <2>1. handled' = handled + 1
        BY <1>4, HasActorsExact DEF Emit, Settle
    <2>2. EveryWindowCounted'
        BY <1>4, <2>1 DEF Emit, EveryWindowCounted, IInv, Exact, TypeOK
    <2>3. QED
        BY <1>4, <2>2, SettleStep DEF Emit, Exact
<1>5. ASSUME NEW d \in Docs, Drop(d) PROVE Exact'
    <2>1. handled' = handled + 1
        BY <1>5, HasActorsExact DEF Drop, Settle
    <2>2. EveryWindowCounted'
        BY <1>5, <2>1 DEF Drop, EveryWindowCounted, IInv, Exact, TypeOK
    <2>3. QED
        BY <1>5, <2>2, SettleStep DEF Drop, Exact
<1>6. ASSUME NEW d \in Docs, Skip(d) PROVE Exact'
    <2>1. handled' = handled
        BY <1>6, HasActorsExact DEF Skip, Settle
    <2>2. EveryWindowCounted'
        BY <1>6, <2>1 DEF Skip, EveryWindowCounted, IInv, Exact
    <2>3. QED
        BY <1>6, <2>2, SettleStep DEF Skip, Exact
<1>7. CASE EndFlush
    BY <1>7 DEF EndFlush, history, IInv, Exact, CurrentExact, SnapshotExact, NothingLeftBehind,
                NoSaveLeftBehind, EveryWindowCounted, Matches, Recorded, Saved, Flushed
<1>8. CASE Stop
    BY <1>2, <1>8 DEF Stop, history
<1>9. CASE UNCHANGED vars
    BY <1>2, <1>9 DEF vars
<1>10. QED
    BY <1>3, <1>4, <1>5, <1>6, <1>7, <1>8, <1>9, AddActorStep, MarkModifiedStep, StartFlushStep
       DEF Next, Handle

\* The invariant holds of every behaviour of the service.
THEOREM Invariance == Spec => []IInv
BY InitInvariant, StepInvariant, PTL DEF Spec

----------------------------------------------------------------------------

\* Every variable keeps its type, and documents are left to publish only
\* while flush runs.
THEOREM TypeCorrect == Spec => []TypeOK
<1>1. IInv => TypeOK
    BY DEF IInv
<1>2. QED
    BY Invariance, <1>1, PTL

\* emitted and publishFail together count every document with actors of a
\* flushed window once, whatever the broker answered.
THEOREM WindowsAreCounted == Spec => []EveryWindowCounted
<1>1. IInv => EveryWindowCounted
    BY DEF IInv, Exact
<1>2. QED
    BY Invariance, <1>1, PTL

\* What AddActor recorded is in the current window or waits in the snapshot:
\* neither the swap nor a failed publish leaves it behind.
THEOREM NoActivityIsLost == Spec => []NothingLeftBehind
<1>1. IInv => NothingLeftBehind
    BY DEF IInv, Exact
<1>2. QED
    BY Invariance, <1>1, PTL

\* Each event that flush emits reports exactly the actors and the saves of
\* that document's flushed window.
THEOREM EventsAreExact == Spec => EventsExact
<1> DEFINE Reported(d) ==
        event' = [doc |-> d,
                  topic |-> IF SavedIn(d) THEN "contribution" ELSE "view",
                  writeActors |-> ActorsOf(d, TRUE),
                  readonlyActors |-> ActorsOf(d, FALSE)]
<1>1. ASSUME IInv, NEW d \in Docs, Emit(d) PROVE Reported(d)
    <2>1. /\ Matches(snapshot[d], d, Flushed)
          /\ snapshot[d].writeIDs \subseteq Actors /\ snapshot[d].readIDs \subseteq Actors
        BY <1>1 DEF IInv, Exact, SnapshotExact, TypeOK, Entry, Emit
    <2>2. ASSUME NEW b \in BOOLEAN
          PROVE  ActorsOf(d, b) = {x \in Actors : Recorded(d, x, b, Flushed)}
        <3>1. \A a \in active : a.token \in Tokens /\ a = [token |-> a.token, window |-> a.window]
            BY <1>1 DEF IInv, TypeOK
        <3>2. \A x : x \in ActorsOf(d, b) <=>
                     \E u \in Tokens : /\ u.doc = d /\ u.write = b /\ u.actor = x
                                       /\ [token |-> u, window |-> Flushed] \in active
            BY DEF ActorsOf
        <3>3. \A x \in Actors : Recorded(d, x, b, Flushed) => x \in ActorsOf(d, b)
            BY <3>1, <3>2 DEF Recorded
        <3>4. \A x \in ActorsOf(d, b) : x \in Actors /\ Recorded(d, x, b, Flushed)
            BY <3>2 DEF Recorded, Tokens
        <3>5. QED
            BY <3>3, <3>4
    <2>3. snapshot[d].writeIDs = ActorsOf(d, TRUE)
        BY <2>1, <2>2 DEF Matches
    <2>4. snapshot[d].readIDs = ActorsOf(d, FALSE)
        BY <2>1, <2>2 DEF Matches
    <2>5. Topic(d) = IF SavedIn(d) THEN "contribution" ELSE "view"
        BY <2>1 DEF Matches, Topic, SavedIn, Saved
    <2>6. QED
        BY <1>1, <2>3, <2>4, <2>5 DEF Emit, EventOf
<1>2. ASSUME IInv, [Next]_vars PROVE [\A d \in Docs : Emit(d) => Reported(d)]_vars
    BY <1>1, <1>2
<1>3. QED
    BY Invariance, <1>2, PTL DEF Spec, EventsExact
=============================================================================
