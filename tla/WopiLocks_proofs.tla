-------------------------- MODULE WopiLocks_proofs --------------------------
(***************************************************************************)
(* Proofs about WopiLocks, for any sets of lock IDs and of overlapping     *)
(* requests and any values of the two durations.                           *)
(*                                                                         *)
(* The properties are not inductive: what a commit step may do depends on  *)
(* what the request learnt at its find and at its clock sample. Bookkeeping *)
(* says what a request at each step has already checked, and               *)
(* SnapshotCurrent that the answer still holds unless it was overtaken.    *)
(*                                                                         *)
(* The last part is about one request at a time, at any pace: SInv relates *)
(* the row to what each session counts on, and every step is then a step   *)
(* of LockLease or none.                                                   *)
(***************************************************************************)
EXTENDS WopiLocks_lease, TLAPS

\* What a request has established by the time it reaches each of its steps.
Bookkeeping(r) ==
    /\ op[r] \in {"Lock", "UnlockAndRelock"} => lockID[r] \in LockIDs
    /\ pc[r] \in {"create", "takeover"} => op[r] = "Lock"
    /\ pc[r] = "relock" => op[r] = "UnlockAndRelock"
    /\ pc[r] = "create" => existing[r] = NoRow
    /\ pc[r] = "clock" /\ op[r] \in {"RefreshLock", "UnlockAndRelock"}
            => existing[r].lockID = Claimed(r)
    /\ pc[r] \in {"refresh", "delete"} => existing[r].lockID = lockID[r]
    /\ pc[r] = "relock" => existing[r].lockID = oldLockID[r]
    /\ pc[r] = "write" => PutAllowed(existing[r], lockID[r])
    /\ pc[r] = "takeover" => /\ existing[r] # NoRow /\ existing[r].lockID # lockID[r]
                             /\ OverAge(existing[r], at[r])
    /\ pc[r] = "delete" => op[r] = "Unlock"
    /\ at[r] <= now
    /\ r \in overtaken => pc[r] \notin {"idle", "find"}

\* The inductive invariant.
IInv ==
    /\ TypeOK
    /\ ExpiryBounded
    /\ \A r \in Requests : Bookkeeping(r)
    /\ SnapshotCurrent

----------------------------------------------------------------------------
(* Facts about the row and about the building blocks of the actions. *)

\* An absent row carries the empty lock ID and a present one never does.
LEMMA RowIdentity ==
    ASSUME NEW x \in Lock \cup {NoRow}
    PROVE  /\ x # NoRow <=> x.lockID \in LockIDs
           /\ x.lockID \in Headers
           /\ x.expiresAt \in Nat
           /\ x.createdAt \in Nat
  BY LockIDsAssumption DEF Lock, NoRow, Headers

\* A reply clears what the request remembered, and keeps the types.
LEMMA ReplyType ==
    ASSUME TypeOK, NEW r \in Requests, NEW status \in Statuses, NEW id \in Headers,
           Reply(r, status, id)
    PROVE  /\ pc' \in [Requests -> Steps]
           /\ op' \in [Requests -> Methods]
           /\ lockID' \in [Requests -> Headers]
           /\ oldLockID' \in [Requests -> Headers]
           /\ existing' \in [Requests -> Lock \cup {NoRow}]
           /\ at' \in [Requests -> Nat]
           /\ resp' \in [Requests -> [status : Statuses, lockID : Headers]]
  BY DEF TypeOK, Reply, Steps, Methods, Headers

\* The reply after a statement that took effect keeps the types.
LEMMA AcknowledgeType ==
    ASSUME TypeOK, NEW r \in Requests, Acknowledge(r)
    PROVE  /\ pc' \in [Requests -> Steps]
           /\ op' \in [Requests -> Methods]
           /\ lockID' \in [Requests -> Headers]
           /\ oldLockID' \in [Requests -> Headers]
           /\ existing' \in [Requests -> Lock \cup {NoRow}]
           /\ at' \in [Requests -> Nat]
           /\ resp' \in [Requests -> [status : Statuses, lockID : Headers]]
  <1>1. PICK status \in {"200", "500"} : Reply(r, status, NoLock)
    BY DEF Acknowledge
  <1>2. status \in Statuses /\ NoLock \in Headers
    BY DEF Statuses, Headers
  <1> QED
    BY <1>1, <1>2, ReplyType

\* A conflict reply (409, handleLockError) keeps the types.
LEMMA ConflictType ==
    ASSUME TypeOK, NEW r \in Requests, NEW id \in Headers, Conflict(r, id)
    PROVE  TypeOK'
  <1>1. "409" \in Statuses
    BY DEF Statuses
  <1>2. Reply(r, "409", id)
    BY DEF Conflict
  <1> QED
    BY <1>1, <1>2, ReplyType DEF Conflict, TypeOK

\* A request refused before the database is asked keeps the types.
LEMMA RejectType ==
    ASSUME TypeOK, NEW r \in Requests, NEW status \in Statuses, Reject(r, status)
    PROVE  TypeOK'
  <1>1. Reply(r, status, NoLock) /\ NoLock \in Headers
    BY DEF Reject, Headers
  <1> QED
    BY <1>1, ReplyType DEF Reject, TypeOK, history

\* FindByFileID returns a lock or nothing, with a lock ID or the empty one.
LEMMA FoundType ==
    ASSUME TypeOK
    PROVE  Found \in Lock \cup {NoRow} /\ Found.lockID \in Headers
  BY RowIdentity DEF Found, TypeOK

\* An expiry is a time, and the history of grants keeps its type.
LEMMA LeaseType ==
    ASSUME TypeOK, NEW r \in Requests
    PROVE  /\ ExpiryFor(r) \in Nat
           /\ Promise(r) => lease' \in [LockIDs -> Nat]
           /\ \A id : GiveUp(id) => lease' \in [LockIDs -> Nat]
  BY LockDurationAssumption DEF TypeOK, ExpiryFor, Promise, GiveUp

----------------------------------------------------------------------------
(* Every step keeps the types. *)

\* The entry of every handler keeps the types.
LEMMA ArriveType ==
    ASSUME TypeOK, NEW r \in Requests, Arrive(r)
    PROVE  TypeOK'
  <1>1. ASSUME NEW m \in Methods, NEW new \in Headers, NEW old \in Headers,
               Start(r, m, new, old), lease' \in [LockIDs -> Nat]
        PROVE  TypeOK'
    BY <1>1 DEF TypeOK, Start, Steps, Statuses, Headers
  <1>2. {"500", "403"} \subseteq Statuses /\ NoLock \in Headers /\ LockIDs \subseteq Headers
    BY DEF Statuses, Headers
  <1>3. UNCHANGED lease => lease' \in [LockIDs -> Nat]
    BY DEF TypeOK
  <1>4. ASSUME NEW id \in Headers, LockRequest(r, id)
        PROVE  TypeOK'
    BY <1>1, <1>2, <1>3, <1>4, RejectType DEF LockRequest, Methods
  <1>5. ASSUME NEW id \in Headers, UnlockRequest(r, id)
        PROVE  TypeOK'
    BY <1>1, <1>2, <1>5, LeaseType DEF UnlockRequest, Methods
  <1>6. ASSUME NEW id \in Headers, RefreshLockRequest(r, id)
        PROVE  TypeOK'
    BY <1>1, <1>2, <1>3, <1>6 DEF RefreshLockRequest, Methods
  <1>7. ASSUME NEW new \in Headers, NEW old \in LockIDs,
               UnlockAndRelockRequest(r, new, old)
        PROVE  TypeOK'
    BY <1>1, <1>2, <1>7, LeaseType, RejectType DEF UnlockAndRelockRequest, Methods
  <1>8. ASSUME NEW id \in Headers, NEW canWrite \in BOOLEAN, PutFileRequest(r, id, canWrite)
        PROVE  TypeOK'
    BY <1>1, <1>2, <1>3, <1>8, RejectType DEF PutFileRequest, Methods
  <1> QED
    BY <1>4, <1>5, <1>6, <1>7, <1>8 DEF Arrive

\* Every later step of a handler keeps the types; the statements that store a
\* lock ID have a nonempty one by Bookkeeping.
LEMMA AdvanceType ==
    ASSUME TypeOK, NEW r \in Requests, Bookkeeping(r), Advance(r)
    PROVE  TypeOK'
  <1>1. ASSUME NEW step \in Steps, Proceed(r, step)
        PROVE  TypeOK'
    BY <1>1, FoundType DEF TypeOK, Proceed, call, history
  <1>2. ASSUME NEW step \in Steps, Sample(r, step)
        PROVE  TypeOK'
    BY <1>2 DEF TypeOK, Sample, call, history
  <1>3. /\ {"write", "clock", "delete", "create", "refresh", "takeover", "relock",
            "refetch"} \subseteq Steps
        /\ NoLock \in Headers
        /\ LockIDs \subseteq Headers
    BY DEF Steps, Commits, Headers
  <1>4. existing[r].lockID \in Headers
    BY RowIdentity DEF TypeOK
  <1>5. ASSUME Acknowledge(r), row' \in Lock \cup {NoRow}, overtaken' \subseteq Requests,
               now' = now, since' \in Nat, lease' \in [LockIDs -> Nat]
        PROVE  TypeOK'
    BY <1>5, AcknowledgeType DEF TypeOK
  <1>6. CASE FindForLock(r)
    BY <1>1, <1>3, <1>6 DEF FindForLock
  <1>7. CASE FindForHolder(r)
    BY <1>1, <1>3, <1>7, FoundType, ConflictType DEF FindForHolder
  <1>8. CASE FindForPutFile(r)
    BY <1>1, <1>3, <1>8, FoundType, ConflictType DEF FindForPutFile
  <1>9. CASE DecideLock(r)
    BY <1>2, <1>3, <1>4, <1>9, ConflictType DEF DecideLock
  <1>10. CASE SampleExpiry(r)
    BY <1>2, <1>3, <1>10 DEF SampleExpiry
  <1>11. CASE RefreshExpiry(r)
    <2>1. CASE HeldBy(lockID[r])
      <3>1. row' \in Lock \cup {NoRow}
        BY <1>11, <2>1, LeaseType DEF RefreshExpiry, HeldBy, Visible, TypeOK, Lock
      <3> QED
        BY <1>5, <1>11, <2>1, <3>1, LeaseType DEF RefreshExpiry, TypeOK
    <2>2. CASE ~HeldBy(lockID[r])
      BY <1>3, <1>11, <2>2, ConflictType DEF RefreshExpiry
    <2> QED
      BY <2>1, <2>2
  <1>12. CASE UpdateLockID(r)
    <2>1. CASE HeldBy(oldLockID[r])
      <3>1. row' \in Lock \cup {NoRow}
        BY <1>12, <2>1, LeaseType DEF UpdateLockID, HeldBy, Visible, TypeOK, Lock, Bookkeeping
      <3> QED
        BY <1>5, <1>12, <2>1, <3>1, LeaseType DEF UpdateLockID, TypeOK, ChangeHands
    <2>2. CASE ~HeldBy(oldLockID[r])
      BY <1>3, <1>12, <2>2, ConflictType DEF UpdateLockID
    <2> QED
      BY <2>1, <2>2
  <1>13. CASE DeleteByFileID(r)
    BY <1>3, <1>5, <1>13, ConflictType DEF DeleteByFileID, TypeOK
  <1>14. CASE Takeover(r)
    <2>1. CASE row.lockID = existing[r].lockID
      <3>1. row' \in Lock \cup {NoRow}
        BY <1>14, <2>1, LeaseType DEF Takeover, TypeOK, Lock, Bookkeeping
      <3>2. lease' \in [LockIDs -> Nat] /\ since' \in Nat
        BY <1>14, <2>1, LeaseType DEF Takeover, TypeOK
      <3> QED
        BY <1>5, <1>14, <2>1, <3>1, <3>2 DEF Takeover, TypeOK, ChangeHands
    <2>2. CASE row.lockID # existing[r].lockID
      BY <1>3, <1>14, <2>2 DEF Takeover, TypeOK, call, history
    <2> QED
      BY <2>1, <2>2
  <1>15. CASE Refetch(r)
    BY <1>15, FoundType, ConflictType DEF Refetch
  <1>16. CASE Create(r)
    <2>1. row' \in Lock \cup {NoRow}
      BY <1>16, LeaseType, RowIdentity DEF Create, Upsert, TypeOK, Lock, Bookkeeping
    <2> QED
      BY <1>5, <1>16, <2>1, LeaseType DEF Create, TypeOK, ChangeHands
  <1>17. CASE WriteFile(r)
    BY <1>5, <1>17 DEF WriteFile, TypeOK
  <1>18. CASE Fail(r)
    <2>1. "500" \in Statuses
      BY DEF Statuses
    <2> QED
      BY <1>3, <1>18, <2>1, ReplyType DEF Fail, TypeOK
  <1> QED
    BY <1>6, <1>7, <1>8, <1>9, <1>10, <1>11, <1>12, <1>13, <1>14, <1>15, <1>16,
       <1>17, <1>18 DEF Advance

\* Every step of the system keeps the types.
LEMMA StepType ==
    ASSUME TypeOK, \A r \in Requests : Bookkeeping(r), [Next]_vars
    PROVE  TypeOK'
  <1>1. CASE DeleteExpired
    BY <1>1 DEF DeleteExpired, TypeOK, call, history
  <1>2. CASE Tick
    BY <1>2 DEF Tick, TypeOK, call, history
  <1>3. CASE UNCHANGED vars
    BY <1>3 DEF vars, TypeOK, call, history
  <1> QED
    BY <1>1, <1>2, <1>3, ArriveType, AdvanceType DEF Next

----------------------------------------------------------------------------
(* A step of one request leaves the others alone. *)

Untouched(q) ==
    /\ pc'[q] = pc[q]
    /\ op'[q] = op[q]
    /\ lockID'[q] = lockID[q]
    /\ oldLockID'[q] = oldLockID[q]
    /\ existing'[q] = existing[q]
    /\ at'[q] = at[q]

\* The request is answered and remembers nothing.
Answered(r) == pc'[r] = "idle" /\ op'[r] = "none" /\ at'[r] = 0

\* A reply clears its own request and touches no other.
LEMMA ReplyFrame ==
    ASSUME TypeOK, NEW r \in Requests, NEW status, NEW id, Reply(r, status, id)
    PROVE  Answered(r) /\ \A q \in Requests \ {r} : Untouched(q)
  BY DEF TypeOK, Reply, Answered, Untouched

\* A step that answers the request: every way of finishing one.
Finishes(r) == Answered(r) /\ \A q \in Requests \ {r} : Untouched(q)

\* The reply after a statement that took effect finishes its request.
LEMMA AcknowledgeFinishes ==
    ASSUME TypeOK, NEW r \in Requests, Acknowledge(r)
    PROVE  Finishes(r)
  BY ReplyFrame DEF Acknowledge, Finishes

\* A conflict finishes its request and leaves the row alone.
LEMMA ConflictFinishes ==
    ASSUME TypeOK, NEW r \in Requests, NEW id, Conflict(r, id)
    PROVE  /\ Finishes(r)
           /\ now' = now /\ row' = row
           /\ overtaken' = overtaken \ {r}
  BY ReplyFrame DEF Conflict, Finishes

\* What the five request handlers do on entry.
LEMMA ArriveEffect ==
    ASSUME TypeOK, NEW r \in Requests, Arrive(r)
    PROVE  /\ now' = now /\ row' = row /\ overtaken' = overtaken /\ pc[r] = "idle"
           /\ \A q \in Requests \ {r} : Untouched(q)
           /\ \/ Answered(r)
              \/ /\ pc'[r] = "find"
                 /\ at'[r] = at[r]
                 /\ op'[r] \in {"Lock", "UnlockAndRelock"} => lockID'[r] \in LockIDs
  <1>1. ASSUME NEW status, Reject(r, status)
        PROVE  /\ now' = now /\ row' = row /\ overtaken' = overtaken
               /\ Answered(r) /\ \A q \in Requests \ {r} : Untouched(q)
    BY <1>1, ReplyFrame DEF Reject, history
  <1>2. ASSUME NEW m, NEW new, NEW old, Start(r, m, new, old),
               m \in {"Lock", "UnlockAndRelock"} => new \in LockIDs
        PROVE  /\ now' = now /\ row' = row /\ overtaken' = overtaken
               /\ \A q \in Requests \ {r} : Untouched(q)
               /\ pc'[r] = "find" /\ at'[r] = at[r]
               /\ op'[r] \in {"Lock", "UnlockAndRelock"} => lockID'[r] \in LockIDs
    BY <1>2 DEF Start, TypeOK, Untouched
  <1>3. ASSUME NEW id \in Headers, id # NoLock PROVE id \in LockIDs
    BY <1>3 DEF Headers
  <1>4. ASSUME NEW id \in Headers, LockRequest(r, id)
        PROVE  pc[r] = "idle" /\ \/ Reject(r, "500")
                                 \/ id \in LockIDs /\ Start(r, "Lock", id, NoLock)
    BY <1>3, <1>4 DEF LockRequest
  <1>5. ASSUME NEW new \in Headers, NEW old \in LockIDs, UnlockAndRelockRequest(r, new, old)
        PROVE  pc[r] = "idle" /\ \/ Reject(r, "500")
                                 \/ new \in LockIDs /\ Start(r, "UnlockAndRelock", new, old)
    BY <1>3, <1>5 DEF UnlockAndRelockRequest
  <1>6. CASE \E id \in Headers : LockRequest(r, id)
    BY <1>1, <1>2, <1>4, <1>6
  <1>7. CASE \E id \in Headers : UnlockRequest(r, id)
    BY <1>2, <1>7 DEF UnlockRequest
  <1>8. CASE \E id \in Headers : RefreshLockRequest(r, id)
    BY <1>2, <1>8 DEF RefreshLockRequest
  <1>9. CASE \E new \in Headers, old \in LockIDs : UnlockAndRelockRequest(r, new, old)
    BY <1>1, <1>2, <1>5, <1>9
  <1>10. CASE \E id \in Headers, canWrite \in BOOLEAN : PutFileRequest(r, id, canWrite)
    BY <1>1, <1>2, <1>10 DEF PutFileRequest
  <1> QED
    BY <1>6, <1>7, <1>8, <1>9, <1>10 DEF Arrive

\* A step within a handler either answers the request, or moves it on
\* without touching the row.
MovesOn(r) ==
    /\ row' = row /\ overtaken' = overtaken /\ lease' = lease
    /\ op'[r] = op[r] /\ lockID'[r] = lockID[r] /\ oldLockID'[r] = oldLockID[r]
    /\ pc[r] \notin {"idle", "find"} => existing'[r] = existing[r]
    /\ \/ /\ pc[r] = "find"
          /\ pc'[r] \in {"clock", "delete", "write"}
          /\ existing'[r] = Found
          /\ at'[r] = at[r]
          /\ pc'[r] = "write" => PutAllowed(Found, lockID[r])
          /\ pc'[r] = "delete" => Found.lockID = lockID[r] /\ op[r] = "Unlock"
          /\ op[r] \in {"RefreshLock", "UnlockAndRelock"} => Found.lockID = Claimed(r)
       \/ /\ pc[r] = "clock"
          /\ pc'[r] \in {"create", "refresh", "relock", "takeover"}
          /\ at'[r] = now
          /\ pc'[r] \in {"create", "takeover"} => op[r] = "Lock"
          /\ pc'[r] = "relock" => op[r] = "UnlockAndRelock"
          /\ pc'[r] = "refresh"
                => op[r] = "RefreshLock" \/ existing[r].lockID = lockID[r]
          /\ pc'[r] = "create" => existing[r] = NoRow
          /\ pc'[r] = "takeover" => /\ existing[r] # NoRow /\ existing[r].lockID # lockID[r]
                                    /\ OverAge(existing[r], now)
       \/ pc[r] = "takeover" /\ pc'[r] = "refetch" /\ at'[r] = at[r]

\* Every step within a handler answers the request or moves it on as MovesOn
\* says, and touches no other request.
LEMMA AdvanceEffect ==
    ASSUME TypeOK, NEW r \in Requests, Advance(r)
    PROVE  /\ now' = now
           /\ pc[r] # "idle"
           /\ \A q \in Requests \ {r} : Untouched(q)
           /\ \/ Answered(r) /\ r \notin overtaken'
              \/ MovesOn(r)
  <1>1. ASSUME NEW step, Proceed(r, step), pc[r] = "find",
               step \in {"clock", "delete", "write"},
               step = "write" => PutAllowed(Found, lockID[r]),
               step = "delete" => Found.lockID = lockID[r] /\ op[r] = "Unlock",
               op[r] \in {"RefreshLock", "UnlockAndRelock"} => Found.lockID = Claimed(r)
        PROVE  now' = now /\ MovesOn(r) /\ \A q \in Requests \ {r} : Untouched(q)
    BY <1>1 DEF Proceed, MovesOn, Untouched, TypeOK, call, history
  <1>2. ASSUME NEW step, Sample(r, step), pc[r] = "clock",
               step \in {"create", "refresh", "relock", "takeover"},
               step \in {"create", "takeover"} => op[r] = "Lock",
               step = "relock" => op[r] = "UnlockAndRelock",
               step = "refresh" => op[r] = "RefreshLock" \/ existing[r].lockID = lockID[r],
               step = "create" => existing[r] = NoRow,
               step = "takeover" => /\ existing[r] # NoRow /\ existing[r].lockID # lockID[r]
                                    /\ OverAge(existing[r], now)
        PROVE  now' = now /\ MovesOn(r) /\ \A q \in Requests \ {r} : Untouched(q)
    BY <1>2 DEF Sample, MovesOn, Untouched, TypeOK, call, history
  <1>3. CASE FindForLock(r)
    BY <1>1, <1>3 DEF FindForLock
  <1>4. CASE FindForHolder(r)
    BY <1>1, <1>4, ConflictFinishes DEF FindForHolder, Finishes, Matches, Claimed
  <1>5. CASE FindForPutFile(r)
    BY <1>1, <1>5, ConflictFinishes DEF FindForPutFile, Finishes
  <1>6. CASE DecideLock(r)
    <2>1. CASE existing[r] = NoRow /\ Sample(r, "create")
      BY <1>2, <1>6, <2>1 DEF DecideLock
    <2>2. CASE Matches(existing[r], lockID[r]) /\ Sample(r, "refresh")
      BY <1>2, <1>6, <2>2 DEF DecideLock, Matches
    <2>3. CASE /\ existing[r] # NoRow /\ existing[r].lockID # lockID[r]
               /\ OverAge(existing[r], now) /\ Sample(r, "takeover")
      BY <1>2, <1>6, <2>3 DEF DecideLock
    <2>4. CASE Conflict(r, existing[r].lockID)
      BY <1>6, <2>4, ConflictFinishes DEF DecideLock, Finishes
    <2> QED
      BY <1>6, <2>1, <2>2, <2>3, <2>4 DEF DecideLock
  <1>7. CASE SampleExpiry(r)
    BY <1>2, <1>7 DEF SampleExpiry
  <1>8. CASE RefreshExpiry(r)
    BY <1>8, AcknowledgeFinishes, ConflictFinishes DEF RefreshExpiry, Finishes
  <1>9. CASE UpdateLockID(r)
    BY <1>9, AcknowledgeFinishes, ConflictFinishes DEF UpdateLockID, Finishes, ChangeHands
  <1>10. CASE DeleteByFileID(r)
    BY <1>10, AcknowledgeFinishes, ConflictFinishes DEF DeleteByFileID, Finishes
  <1>11. CASE Takeover(r)
    <2>1. CASE row.lockID = existing[r].lockID
      BY <1>11, <2>1, AcknowledgeFinishes DEF Takeover, Finishes, ChangeHands
    <2>2. CASE row.lockID # existing[r].lockID
      BY <1>11, <2>2 DEF Takeover, MovesOn, Untouched, TypeOK, call, history
    <2> QED
      BY <2>1, <2>2
  <1>12. CASE Refetch(r)
    BY <1>12, ConflictFinishes DEF Refetch, Finishes
  <1>13. CASE Create(r)
    BY <1>13, AcknowledgeFinishes DEF Create, Finishes, ChangeHands
  <1>14. CASE WriteFile(r)
    BY <1>14, AcknowledgeFinishes DEF WriteFile, Finishes
  <1>15. CASE Fail(r)
    BY <1>15, ReplyFrame DEF Fail
  <1> QED
    BY <1>3, <1>4, <1>5, <1>6, <1>7, <1>8, <1>9, <1>10, <1>11, <1>12, <1>13,
       <1>14, <1>15 DEF Advance

\* What a step of a request does to the row and to the requests in flight.
LEMMA RowEffect ==
    ASSUME TypeOK, NEW r \in Requests, Bookkeeping(r), Advance(r)
    PROVE  \/ /\ overtaken \ {r} \subseteq overtaken' /\ overtaken' \subseteq overtaken
              /\ \/ row' = row
                 \/ row' = NoRow
                 \/ Visible /\ row' = [row EXCEPT !.expiresAt = ExpiryFor(r)]
           \/ /\ ChangeHands(r)
              /\ row'.expiresAt = ExpiryFor(r)
              /\ row'.createdAt \in {at[r], row.createdAt}
  <1>1. CASE FindForLock(r) \/ FindForHolder(r) \/ FindForPutFile(r)
    BY <1>1 DEF FindForLock, FindForHolder, FindForPutFile, Proceed, Conflict, history
  <1>2. CASE DecideLock(r) \/ SampleExpiry(r)
    BY <1>2 DEF DecideLock, SampleExpiry, Sample, Conflict, history
  <1>3. CASE RefreshExpiry(r)
    BY <1>3 DEF RefreshExpiry, HeldBy, Conflict
  <1>4. CASE UpdateLockID(r)
    <2>1. CASE HeldBy(oldLockID[r])
      <3>1. row \in Lock
        BY <2>1 DEF HeldBy, Visible, TypeOK
      <3> QED
        BY <1>4, <2>1, <3>1 DEF UpdateLockID, Lock
    <2>2. CASE ~HeldBy(oldLockID[r])
      BY <1>4, <2>2 DEF UpdateLockID, Conflict
    <2> QED
      BY <2>1, <2>2
  <1>5. CASE DeleteByFileID(r) \/ Refetch(r) \/ WriteFile(r) \/ Fail(r)
    BY <1>5 DEF DeleteByFileID, Refetch, WriteFile, Fail, Conflict
  <1>6. CASE Takeover(r)
    BY <1>6 DEF Takeover, history
  <1>7. CASE Create(r)
    BY <1>7 DEF Create, Upsert
  <1> QED
    BY <1>1, <1>2, <1>3, <1>4, <1>5, <1>6, <1>7 DEF Advance

----------------------------------------------------------------------------
(* The inductive invariant. *)

\* Initially there is no row and no request.
LEMMA InitInvariant == Init => IInv
  <1> SUFFICES ASSUME Init PROVE IInv
    OBVIOUS
  <1>1. TypeOK
    BY DEF Init, TypeOK, Steps, Methods, Headers, Statuses
  <1>2. ExpiryBounded
    BY LockDurationAssumption DEF Init, ExpiryBounded, NoRow
  <1>3. \A r \in Requests : Bookkeeping(r)
    BY DEF Init, Bookkeeping
  <1>4. SnapshotCurrent
    BY DEF Init, SnapshotCurrent, Visible
  <1> QED
    BY <1>1, <1>2, <1>3, <1>4 DEF IInv

\* A row's expiry is a clock sample plus LockDuration, and samples are past.
LEMMA StepExpiry ==
    ASSUME IInv, [Next]_vars
    PROVE  ExpiryBounded'
  <1> USE LockDurationAssumption
  <1>1. /\ row.expiresAt \in Nat /\ row.createdAt \in Nat /\ now \in Nat
        /\ row.expiresAt <= now + LockDuration /\ row.createdAt <= now
    BY RowIdentity DEF IInv, TypeOK, ExpiryBounded
  <1>2. ASSUME now' = now, row' = row \/ row' = NoRow
        PROVE  ExpiryBounded'
    BY <1>1, <1>2 DEF ExpiryBounded, NoRow
  <1>3. ASSUME NEW r \in Requests, Arrive(r)
        PROVE  ExpiryBounded'
    BY <1>2, <1>3, ArriveEffect DEF IInv
  <1>4. ASSUME NEW r \in Requests, Advance(r)
        PROVE  ExpiryBounded'
    <2>1. at[r] \in Nat /\ at[r] <= now /\ now' = now
      BY <1>4, AdvanceEffect DEF IInv, TypeOK, Bookkeeping
    <2>2. CASE row' = row \/ row' = NoRow
      BY <1>2, <2>1, <2>2
    <2>3. CASE Visible /\ row' = [row EXCEPT !.expiresAt = ExpiryFor(r)]
      <3>1. row \in Lock
        BY <2>3 DEF Visible, IInv, TypeOK
      <3> QED
        BY <1>1, <2>1, <2>3, <3>1 DEF ExpiryBounded, ExpiryFor, Lock
    <2>4. CASE row'.expiresAt = ExpiryFor(r) /\ row'.createdAt \in {at[r], row.createdAt}
      BY <1>1, <2>1, <2>4 DEF ExpiryBounded, ExpiryFor
    <2> QED
      BY <1>4, <2>2, <2>3, <2>4, RowEffect DEF IInv
  <1>5. CASE DeleteExpired
    BY <1>2, <1>5 DEF DeleteExpired
  <1>6. CASE Tick
    BY <1>1, <1>6 DEF Tick, ExpiryBounded
  <1>7. CASE UNCHANGED vars
    BY <1>2, <1>7 DEF vars
  <1> QED
    BY <1>3, <1>4, <1>5, <1>6, <1>7 DEF Next

\* What a request has established stays established until it is answered.
LEMMA StepBookkeeping ==
    ASSUME IInv, [Next]_vars, NEW q \in Requests
    PROVE  Bookkeeping(q)'
  <1>1. /\ Bookkeeping(q) /\ now \in Nat /\ at[q] \in Nat
        /\ q \in overtaken => pc[q] \notin {"idle", "find"}
    BY DEF IInv, TypeOK, Bookkeeping
  <1>2. ASSUME Untouched(q), now' \in {now, now + 1},
               q \in overtaken' => pc[q] \notin {"idle", "find"}
        PROVE  Bookkeeping(q)'
    BY <1>1, <1>2 DEF Bookkeeping, Untouched, PutAllowed, OverAge, Claimed
  <1>3. ASSUME Answered(q), now' = now, q \notin overtaken'
        PROVE  Bookkeeping(q)'
    BY <1>1, <1>3 DEF Bookkeeping, Answered
  <1>4. ASSUME NEW r \in Requests, Arrive(r)
        PROVE  Bookkeeping(q)'
    <2>1. CASE q # r
      BY <1>1, <1>2, <1>4, <2>1, ArriveEffect DEF IInv
    <2>2. CASE q = r
      <3>1. q \notin overtaken' /\ now' = now
        BY <1>1, <1>4, <2>2, ArriveEffect DEF IInv
      <3>2. CASE Answered(q)
        BY <1>3, <3>1, <3>2
      <3>3. CASE /\ pc'[q] = "find" /\ at'[q] = at[q]
                 /\ op'[q] \in {"Lock", "UnlockAndRelock"} => lockID'[q] \in LockIDs
        BY <1>1, <3>1, <3>3 DEF Bookkeeping
      <3> QED
        BY <1>4, <2>2, <3>2, <3>3, ArriveEffect DEF IInv
    <2> QED
      BY <2>1, <2>2
  <1>5. ASSUME NEW r \in Requests, Advance(r)
        PROVE  Bookkeeping(q)'
    <2>1. CASE q # r
      <3>1. q \in overtaken' => pc[q] \notin {"idle", "find"}
        BY <1>1, <1>5, RowEffect DEF IInv, ChangeHands
      <3> QED
        BY <1>2, <1>5, <2>1, <3>1, AdvanceEffect DEF IInv
    <2>2. CASE q = r
      <3>1. CASE Answered(q) /\ q \notin overtaken'
        BY <1>3, <1>5, <2>2, <3>1, AdvanceEffect DEF IInv
      <3>2. CASE MovesOn(q)
        <4>1. now' = now
          BY <1>5, AdvanceEffect DEF IInv
        <4> QED
          BY <1>1, <3>2, <4>1 DEF MovesOn, Bookkeeping, PutAllowed, OverAge, Claimed
      <3> QED
        BY <1>5, <2>2, <3>1, <3>2, AdvanceEffect DEF IInv
    <2> QED
      BY <2>1, <2>2
  <1>6. CASE DeleteExpired
    BY <1>1, <1>2, <1>6 DEF DeleteExpired, Untouched, call, history
  <1>7. CASE Tick
    BY <1>1, <1>2, <1>7 DEF Tick, Untouched, call, history
  <1>8. CASE UNCHANGED vars
    BY <1>1, <1>2, <1>8 DEF vars, Untouched, call, history
  <1> QED
    BY <1>4, <1>5, <1>6, <1>7, <1>8 DEF Next

\* Only a change of hands makes another lock live, and that marks every
\* request that has already looked.
LEMMA StepSnapshot ==
    ASSUME IInv, [Next]_vars
    PROVE  SnapshotCurrent'
  <1> SUFFICES ASSUME NEW q \in Requests, pc'[q] \in {"clock"} \cup Commits,
                      q \notin overtaken', Visible'
               PROVE  /\ existing'[q].lockID = row'.lockID
                      /\ existing'[q].createdAt = row'.createdAt
    BY DEF SnapshotCurrent
  <1>1. pc[q] \in {"clock"} \cup Commits /\ q \notin overtaken /\ Visible
            => existing[q].lockID = row.lockID /\ existing[q].createdAt = row.createdAt
    BY DEF IInv, SnapshotCurrent
  <1>2. row' # NoRow
    BY DEF Visible
  <1>3. now' = now /\ row' = row => Visible
    BY DEF Visible
  <1>4. ASSUME NEW r \in Requests, Arrive(r)
        PROVE  /\ existing'[q].lockID = row'.lockID
               /\ existing'[q].createdAt = row'.createdAt
    BY <1>1, <1>3, <1>4, ArriveEffect DEF IInv, Untouched, Answered, Commits
  <1>5. ASSUME NEW r \in Requests, Advance(r)
        PROVE  /\ existing'[q].lockID = row'.lockID
               /\ existing'[q].createdAt = row'.createdAt
    <2>1. CASE q # r
      <3>1. Untouched(q) /\ now' = now
        BY <1>5, <2>1, AdvanceEffect DEF IInv
      <3>2. CASE ChangeHands(r)
        BY <2>1, <3>1, <3>2 DEF ChangeHands, Untouched, Commits
      <3>3. CASE row' = row /\ overtaken \ {r} \subseteq overtaken'
        BY <1>1, <1>3, <2>1, <3>1, <3>3 DEF Untouched
      <3>4. CASE /\ overtaken \ {r} \subseteq overtaken'
                 /\ Visible /\ row' = [row EXCEPT !.expiresAt = ExpiryFor(r)]
        <4>1. row \in Lock
          BY <3>4 DEF Visible, IInv, TypeOK
        <4> QED
          BY <1>1, <2>1, <3>1, <3>4, <4>1 DEF Untouched, Lock
      <3> QED
        BY <1>2, <1>5, <3>2, <3>3, <3>4, RowEffect DEF IInv
    <2>2. CASE q = r
      <3>1. MovesOn(q) /\ now' = now
        BY <1>5, <2>2, AdvanceEffect DEF IInv, Answered, Commits
      <3>2. CASE pc[q] = "find"
        BY <1>3, <3>1, <3>2 DEF MovesOn, Found
      <3>3. CASE pc[q] = "clock"
        BY <1>1, <1>3, <3>1, <3>3 DEF MovesOn
      <3> QED
        BY <3>1, <3>2, <3>3 DEF MovesOn, Commits
    <2> QED
      BY <2>1, <2>2
  <1>6. CASE DeleteExpired
    BY <1>2, <1>6 DEF DeleteExpired
  <1>7. CASE Tick
    <2>1. Visible
      BY <1>7, RowIdentity DEF Tick, Visible, IInv, TypeOK
    <2> QED
      BY <1>1, <1>7, <2>1 DEF Tick, history
  <1>8. CASE UNCHANGED vars
    BY <1>1, <1>3, <1>8 DEF vars, history
  <1> QED
    BY <1>4, <1>5, <1>6, <1>7, <1>8 DEF Next

\* Every step of the system preserves the inductive invariant.
LEMMA StepInvariant == IInv /\ [Next]_vars => IInv'
  BY StepType, StepExpiry, StepBookkeeping, StepSnapshot DEF IInv

\* The inductive invariant holds of every reachable state.
THEOREM Invariance == Spec => []IInv
  BY InitInvariant, StepInvariant, PTL DEF Spec

----------------------------------------------------------------------------
(* The properties. *)

\* Type correctness, including that no empty lock ID reaches the table.
THEOREM TypeCorrect == Spec => []TypeOK
  <1>1. IInv => TypeOK
    BY DEF IInv
  <1> QED
    BY <1>1, Invariance, PTL

\* FindByFileID's answer stays current for a request that is not overtaken.
THEOREM SnapshotsStayCurrent == Spec => []SnapshotCurrent
  <1>1. IInv => SnapshotCurrent
    BY DEF IInv
  <1> QED
    BY <1>1, Invariance, PTL

\* Lock's unconditional upsert steals a live lock only by an overlap.
THEOREM StealsAreOverlaps == Spec => []StealOnlyByOverlap
  <1>1. IInv => StealOnlyByOverlap
    <2> SUFFICES ASSUME IInv, NEW r \in Requests,
                        pc[r] = "create", r \notin overtaken, Visible
                 PROVE  FALSE
      BY DEF StealOnlyByOverlap
    <2>1. existing[r].lockID = row.lockID /\ existing[r] = NoRow
      BY DEF IInv, SnapshotCurrent, Bookkeeping, Commits
    <2>2. row.lockID \in LockIDs
      BY RowIdentity DEF IInv, TypeOK, Visible
    <2> QED
      BY <2>1, <2>2, LockIDsAssumption DEF NoRow
  <1> QED
    BY <1>1, Invariance, PTL

\* PutFile's check-then-write crosses a foreign lock only by an overlap.
THEOREM ForeignWritesAreOverlaps == Spec => []ForeignWriteOnlyByOverlap
  <1>1. IInv => ForeignWriteOnlyByOverlap
    <2> SUFFICES ASSUME IInv, NEW r \in Requests,
                        pc[r] = "write", r \notin overtaken, Visible
                 PROVE  row.lockID = lockID[r]
      BY DEF ForeignWriteOnlyByOverlap
    <2>1. /\ existing[r].lockID = row.lockID
          /\ PutAllowed(existing[r], lockID[r])
          /\ existing[r] \in Lock \cup {NoRow}
      BY DEF IInv, TypeOK, SnapshotCurrent, Bookkeeping, Commits
    <2>2. row.lockID \in LockIDs
      BY RowIdentity DEF IInv, TypeOK, Visible
    <2>3. existing[r] # NoRow
      BY <2>1, <2>2, RowIdentity
    <2> QED
      BY <2>1, <2>3 DEF PutAllowed
  <1> QED
    BY <1>1, Invariance, PTL

\* The zombie defence replaces a live row only past MaxLockLifetime.
THEOREM TakeoversAreOverAge == Spec => []TakeoverOnlyOverAge
  <1>1. IInv => TakeoverOnlyOverAge
    <2> SUFFICES ASSUME IInv, NEW r \in Requests,
                        pc[r] = "takeover", r \notin overtaken, Visible
                 PROVE  now - row.createdAt > MaxLockLifetime
      BY DEF TakeoverOnlyOverAge
    <2>1. /\ existing[r].createdAt = row.createdAt
          /\ OverAge(existing[r], at[r])
          /\ at[r] \in Nat /\ now \in Nat /\ at[r] <= now
      BY DEF IInv, TypeOK, SnapshotCurrent, Bookkeeping, Commits
    <2>2. row.createdAt \in Nat
      BY RowIdentity DEF IInv, TypeOK
    <2> QED
      BY <2>1, <2>2, MaxLockLifetimeAssumption DEF OverAge
  <1> QED
    BY <1>1, Invariance, PTL

\* An orphaned lock blocks nobody for longer than LockDuration.
THEOREM ExpiryIsBounded == Spec => []ExpiryBounded
  <1>1. IInv => ExpiryBounded
    BY DEF IInv
  <1> QED
    BY <1>1, Invariance, PTL

----------------------------------------------------------------------------
(* The action properties. *)

\* A late refresh, relock or unlock never brings a dead lock back.
THEOREM DeadLocksStayDead == Spec => NoRevival
  <1>1. ASSUME IInv, [Next]_vars, ~Visible, Visible'
        PROVE  \E r \in Requests : pc[r] \in {"create", "takeover"} /\ pc'[r] = "idle"
    <2>1. ~(now' = now /\ row' = row) /\ row' # NoRow
      BY <1>1 DEF Visible
    <2>2. ASSUME NEW r \in Requests, Arrive(r) PROVE FALSE
      BY <1>1, <2>1, <2>2, ArriveEffect DEF IInv
    <2>3. ASSUME NEW r \in Requests, Advance(r)
          PROVE  pc[r] \in {"create", "takeover"} /\ pc'[r] = "idle"
      <3>1. pc[r] \in {"create", "takeover"}
        BY <1>1, <2>1, <2>3 DEF Advance, FindForLock, FindForHolder, FindForPutFile,
           DecideLock, SampleExpiry, RefreshExpiry, UpdateLockID, DeleteByFileID,
           Takeover, Refetch, Create, WriteFile, Fail, Proceed, Sample, Conflict, HeldBy
      <3>2. ~MovesOn(r)
        BY <1>1, <2>1, <2>3, AdvanceEffect DEF IInv, MovesOn
      <3> QED
        BY <1>1, <2>3, <3>1, <3>2, AdvanceEffect DEF IInv, Answered
    <2>4. ~DeleteExpired
      BY <2>1 DEF DeleteExpired
    <2>5. ~Tick
      BY <1>1, RowIdentity DEF Tick, Visible, IInv, TypeOK
    <2>6. ~UNCHANGED vars
      BY <2>1 DEF vars
    <2> QED
      BY <1>1, <2>2, <2>3, <2>4, <2>5, <2>6 DEF Next
  <1>2. IInv /\ [Next]_vars
            => [~Visible /\ Visible' => \E r \in Requests :
                    pc[r] \in {"create", "takeover"} /\ pc'[r] = "idle"]_vars
    BY <1>1
  <1> QED
    BY <1>2, Invariance, PTL DEF Spec, NoRevival

\* A 409 names the live lock unless the lock changed hands under the request.
THEOREM ConflictsNameTheHolder == Spec => ConflictNamesHolder
  <1>1. ASSUME IInv, [Next]_vars, NEW r \in Requests,
               pc[r] # "idle", pc'[r] = "idle", resp'[r].status = "409",
               r \notin overtaken, Visible
        PROVE  resp'[r].lockID = row.lockID
    <2>1. ~Untouched(r)
      BY <1>1 DEF Untouched
    <2>2. Advance(r)
      <3>1. ASSUME NEW q \in Requests, Arrive(q) PROVE FALSE
        BY <1>1, <2>1, <3>1, ArriveEffect DEF IInv
      <3>2. ASSUME NEW q \in Requests, Advance(q) PROVE q = r
        BY <1>1, <2>1, <3>2, AdvanceEffect DEF IInv
      <3>3. ~DeleteExpired /\ ~Tick /\ ~UNCHANGED vars
        BY <2>1 DEF DeleteExpired, Tick, vars, call, Untouched
      <3> QED
        BY <1>1, <3>1, <3>2, <3>3 DEF Next
    <2>3. ASSUME NEW status, NEW id, Reply(r, status, id)
          PROVE  status = "409" /\ resp'[r].lockID = id
      BY <1>1, <2>3 DEF Reply, IInv, TypeOK
    <2>4. ~Acknowledge(r)
      BY <2>3 DEF Acknowledge
    <2>5. ASSUME NEW id, Conflict(r, id) PROVE resp'[r].lockID = id
      BY <2>3, <2>5 DEF Conflict
    <2>6. Found.lockID = row.lockID
      BY <1>1 DEF Found
    <2>7. pc[r] \in {"clock"} \cup Commits => existing[r].lockID = row.lockID
      BY <1>1 DEF IInv, SnapshotCurrent
    <2>8. Bookkeeping(r)
      BY <1>1 DEF IInv
    <2>9. ASSUME NEW step PROVE ~(Proceed(r, step) /\ step # "idle")
      BY <1>1 DEF Proceed, IInv, TypeOK
    <2>10. ASSUME NEW step PROVE ~(Sample(r, step) /\ step # "idle")
      BY <1>1 DEF Sample, IInv, TypeOK
    <2>11. CASE FindForLock(r)
      BY <2>9, <2>11 DEF FindForLock
    <2>12. CASE FindForHolder(r)
      BY <2>5, <2>6, <2>9, <2>12 DEF FindForHolder
    <2>13. CASE FindForPutFile(r)
      BY <2>5, <2>6, <2>9, <2>13 DEF FindForPutFile
    <2>14. CASE DecideLock(r)
      BY <2>5, <2>7, <2>10, <2>14 DEF DecideLock
    <2>15. CASE SampleExpiry(r)
      BY <2>10, <2>15 DEF SampleExpiry
    <2>16. CASE RefreshExpiry(r)
      BY <1>1, <2>4, <2>7, <2>8, <2>16 DEF RefreshExpiry, HeldBy, Bookkeeping, Commits
    <2>17. CASE UpdateLockID(r)
      BY <1>1, <2>4, <2>7, <2>8, <2>17 DEF UpdateLockID, HeldBy, Bookkeeping, Commits
    <2>18. CASE DeleteByFileID(r)
      BY <2>4, <2>7, <2>8, <2>18 DEF DeleteByFileID, Bookkeeping, Commits
    <2>19. CASE Takeover(r)
      BY <1>1, <2>4, <2>19 DEF Takeover, IInv, TypeOK
    <2>20. CASE Refetch(r)
      BY <2>5, <2>6, <2>20 DEF Refetch
    <2>21. CASE Create(r) \/ WriteFile(r)
      BY <2>4, <2>21 DEF Create, WriteFile
    <2>22. CASE Fail(r)
      BY <2>3, <2>22 DEF Fail
    <2> QED
      BY <2>2, <2>11, <2>12, <2>13, <2>14, <2>15, <2>16, <2>17, <2>18, <2>19, <2>20,
         <2>21, <2>22 DEF Advance
  <1>2. IInv /\ [Next]_vars
            => [\A r \in Requests :
                    /\ pc[r] # "idle" /\ pc'[r] = "idle"
                    /\ resp'[r].status = "409"
                    /\ r \notin overtaken
                    /\ Visible
                    => resp'[r].lockID = row.lockID]_vars
    BY <1>1
  <1> QED
    BY <1>2, Invariance, PTL DEF Spec, ConflictNamesHolder

----------------------------------------------------------------------------
(* One request at a time: the lock service implements the abstract lock. *)

\* No two calls are in flight at once.
Serial == \A q, r \in Requests : q = r

\* A session that counts on the lock holds it for at least as long.
LeaseHeld == \A l \in LockIDs : lease[l] > now => HeldBy(l) /\ lease[l] <= row.expiresAt

\* The expiry that a request is about to write is no earlier than the one it
\* replaces, and a session that releases the lock does not count on it.
Settled(r) ==
    /\ pc[r] \in {"refresh", "relock", "takeover", "create"} => row.expiresAt <= ExpiryFor(r)
    /\ pc[r] # "idle" /\ op[r] = "Unlock" /\ lockID[r] \in LockIDs => lease[lockID[r]] = 0
    /\ pc[r] # "idle" /\ op[r] = "UnlockAndRelock"
            => oldLockID[r] \in LockIDs /\ lease[oldLockID[r]] = 0

\* The inductive invariant of serial behaviours, beside IInv.
SInv ==
    /\ overtaken = {}
    /\ LeaseHeld
    /\ \A r \in Requests : Settled(r)

\* What each session counts on, as the abstract lock has it.
Counted == [l \in LockIDs |-> IF lease[l] > now THEN lease[l] ELSE 0]

\* A step of the abstract lock, or none.
LeaseStep == [Lease!Next]_(Lease!vars)

\* The abstract state depends on the row and the leases only.
LEMMA LeaseStutter ==
    ASSUME Found' = Found, Counted' = Counted, now' = now
    PROVE  LeaseStep
  BY DEF LeaseStep, Lease!vars, Counted

\* The disjuncts of the abstract lock's next-state relation.
LEMMA LeaseActions ==
    ASSUME NEW l \in LockIDs, NEW m \in LockIDs,
           \/ Lease!Acquire(l) \/ Lease!Renew(l) \/ Lease!Release(l) \/ Lease!Yield(l)
           \/ Lease!Transfer(l, m) \/ Lease!Evict(l, m)
    PROVE  LeaseStep
  <1>1. Lease!Next
    BY DEF Lease!Next
  <1>2. QED
    BY <1>1 DEF LeaseStep

\* A grant as the abstract lock sees it: the row is l's, and l may be told.
LEMMA LeaseGrant ==
    ASSUME TypeOK, LeaseHeld, now' = now, NEW l \in LockIDs, NEW forget, NEW e \in Nat,
           row' # NoRow, row'.lockID = l, row'.expiresAt = e,
           e > now, e <= now + LockDuration,
           \/ lease' = lease
           \/ lease' = [m \in LockIDs |-> IF m = l THEN e ELSE IF m \in forget THEN 0 ELSE lease[m]]
           \/ lease' = [m \in LockIDs |-> IF m \in forget THEN 0 ELSE lease[m]],
           \A m \in LockIDs : m \in forget => m # l,
           lease' = lease => \A m \in LockIDs : m \in forget => ~(lease[m] > now)
    PROVE  Lease!Grant(l, forget) /\ Visible'
  <1>1. Visible' /\ Found' = row'
    BY DEF Visible, Found
  <1>2. Found'.lockID = l /\ Found'.expiresAt \in now + 1 .. now + LockDuration
    <2>1. now \in Nat /\ LockDuration \in Nat
      BY LockDurationAssumption DEF TypeOK
    <2>2. QED
      BY <1>1, <2>1
  <1>3. \E told \in BOOLEAN :
            Counted' = [m \in LockIDs |-> IF m = l THEN IF told THEN e ELSE Counted[l]
                                          ELSE IF m \in forget THEN 0 ELSE Counted[m]]
    <2>1. CASE lease' = lease
      <3>1. Counted' = [m \in LockIDs |-> IF m = l THEN IF FALSE THEN e ELSE Counted[l]
                                          ELSE IF m \in forget THEN 0 ELSE Counted[m]]
        BY <2>1 DEF Counted
      <3>2. QED
        BY <3>1
    <2>2. CASE lease' = [m \in LockIDs |-> IF m = l THEN e ELSE IF m \in forget THEN 0 ELSE lease[m]]
      <3>1. Counted' = [m \in LockIDs |-> IF m = l THEN IF TRUE THEN e ELSE Counted[l]
                                          ELSE IF m \in forget THEN 0 ELSE Counted[m]]
        BY <2>2 DEF Counted, TypeOK
      <3>2. QED
        BY <3>1
    <2>3. CASE lease' = [m \in LockIDs |-> IF m \in forget THEN 0 ELSE lease[m]]
      <3>1. Counted' = [m \in LockIDs |-> IF m = l THEN IF FALSE THEN e ELSE Counted[l]
                                          ELSE IF m \in forget THEN 0 ELSE Counted[m]]
        BY <2>3 DEF Counted, TypeOK
      <3>2. QED
        BY <3>1
    <2>4. QED
      BY <2>1, <2>2, <2>3
  <1>4. QED
    BY <1>1, <1>2, <1>3 DEF Lease!Grant, Counted

\* The expiry that a request writes lies at most LockDuration ahead.
LEMMA ExpiryAhead ==
    ASSUME IInv, NEW r \in Requests
    PROVE  ExpiryFor(r) \in Nat /\ ExpiryFor(r) <= now + LockDuration /\ now \in Nat
  <1>1. at[r] \in Nat /\ now \in Nat /\ at[r] <= now
    BY DEF IInv, TypeOK, Bookkeeping
  <1>2. QED
    BY <1>1, LockDurationAssumption DEF ExpiryFor

\* What the history of grants becomes when a grant to lockID[r] is acknowledged.
LEMMA PromiseEffect ==
    ASSUME TypeOK, NEW r \in Requests, lockID[r] \in LockIDs, Promise(r)
    PROVE  \/ lease' = lease
           \/ lease' = [m \in LockIDs |-> IF m = lockID[r] THEN ExpiryFor(r)
                                          ELSE IF m \in {} THEN 0 ELSE lease[m]]
  BY DEF Promise, TypeOK

\* RefreshExpiry by the holder renews the grant.
LEMMA RefreshLease ==
    ASSUME IInv, SInv, NEW r \in Requests, RefreshExpiry(r), HeldBy(lockID[r])
    PROVE  LeaseHeld' /\ LeaseStep
  <1> DEFINE e == ExpiryFor(r)
  <1> PICK l \in LockIDs : l = lockID[r]
    BY RowIdentity DEF HeldBy, Visible, IInv, TypeOK
  <1>1. /\ row' = [row EXCEPT !.expiresAt = e] /\ Promise(r) /\ now' = now
        /\ pc[r] = "refresh"
    BY DEF RefreshExpiry
  <1>2. Visible /\ row.lockID = l /\ row \in Lock /\ l \in LockIDs /\ Found = row
    BY RowIdentity DEF HeldBy, Visible, Found, IInv, TypeOK
  <1>3. /\ row'.lockID = l /\ row'.expiresAt = e /\ row'.createdAt = row.createdAt /\ row' # NoRow
    BY <1>1, <1>2, LockIDsAssumption DEF Lock, NoRow
  <1>4. e \in Nat /\ e <= now + LockDuration /\ now \in Nat /\ row.expiresAt \in Nat
    BY <1>2, ExpiryAhead DEF Lock
  <1>5. row.expiresAt <= e /\ row.expiresAt > now
    BY <1>1, <1>2 DEF SInv, Settled, Visible
  <1>6. \/ lease' = lease
        \/ lease' = [m \in LockIDs |-> IF m = l THEN e ELSE IF m \in {} THEN 0 ELSE lease[m]]
    BY <1>1, <1>2, PromiseEffect DEF IInv
  <1> HIDE DEF e
  <1>7. e > now
    BY <1>4, <1>5
  <1>8. Lease!Grant(l, {}) /\ Visible'
    <2>1. TypeOK /\ LeaseHeld
      BY DEF IInv, SInv
    <2>2. QED
      BY <2>1, <1>1, <1>2, <1>3, <1>4, <1>6, <1>7, LeaseGrant
  <1>9. Found' = row'
    BY <1>8 DEF Found
  <1>10. Lease!Renew(l)
    BY <1>2, <1>3, <1>4, <1>5, <1>8, <1>9 DEF Lease!Renew
  <1>11. LeaseStep
    BY <1>10, LeaseActions
  <1>12. LeaseHeld'
    <2> SUFFICES ASSUME NEW m \in LockIDs, lease'[m] > now'
                 PROVE  HeldBy(m)' /\ lease'[m] <= row'.expiresAt
      BY DEF LeaseHeld
    <2>1. lease[m] \in Nat
      BY DEF IInv, TypeOK
    <2>2. CASE lease[m] > now
      <3>1. m = l /\ lease[m] <= row.expiresAt
        BY <2>2, <1>2 DEF SInv, LeaseHeld, HeldBy
      <3>2. lease'[m] = lease[m] \/ lease'[m] = e
        BY <3>1, <1>6
      <3>3. QED
        BY <2>1, <3>1, <3>2, <1>3, <1>4, <1>5, <1>8 DEF HeldBy
    <2>3. CASE ~(lease[m] > now)
      <3>1. m = l /\ lease'[m] = e
        BY <2>3, <1>1, <1>6
      <3>2. QED
        BY <3>1, <1>3, <1>4, <1>8 DEF HeldBy
    <2>4. QED
      BY <2>2, <2>3
  <1>13. QED
    BY <1>11, <1>12

\* UpdateLockID by the holder, who no longer counts on the lock, transfers it.
LEMMA RelockLease ==
    ASSUME IInv, SInv, NEW r \in Requests, UpdateLockID(r), HeldBy(oldLockID[r])
    PROVE  LeaseHeld' /\ LeaseStep
  <1> DEFINE e == ExpiryFor(r)
  <1>0. op[r] = "UnlockAndRelock" /\ lockID[r] \in LockIDs
    BY DEF UpdateLockID, IInv, Bookkeeping
  <1> PICK l \in LockIDs : l = oldLockID[r]
    BY RowIdentity DEF HeldBy, Visible, IInv, TypeOK
  <1> PICK m \in LockIDs : m = lockID[r]
    BY <1>0
  <1>1. /\ row' = [row EXCEPT !.lockID = m, !.expiresAt = e] /\ Promise(r) /\ now' = now
        /\ pc[r] = "relock"
    BY DEF UpdateLockID
  <1>2. Visible /\ row.lockID = l /\ row \in Lock /\ l \in LockIDs /\ Found = row
    BY RowIdentity DEF HeldBy, Visible, Found, IInv, TypeOK
  <1>3. op[r] = "UnlockAndRelock"
    BY <1>0
  <1>4. lease[l] = 0
    BY <1>1, <1>3 DEF SInv, Settled
  <1>5. /\ row'.lockID = m /\ row'.expiresAt = e /\ row'.createdAt = row.createdAt /\ row' # NoRow
    BY <1>1, <1>2, <1>3, LockIDsAssumption DEF Lock, NoRow
  <1>6. e \in Nat /\ e <= now + LockDuration /\ now \in Nat /\ row.expiresAt \in Nat
    BY <1>2, ExpiryAhead DEF Lock
  <1>7. row.expiresAt <= e /\ row.expiresAt > now
    BY <1>1, <1>2 DEF SInv, Settled, Visible
  <1>8. \/ lease' = lease
        \/ lease' = [n \in LockIDs |-> IF n = m THEN e ELSE IF n \in {} THEN 0 ELSE lease[n]]
    BY <1>1, <1>3, PromiseEffect DEF IInv
  <1> HIDE DEF e
  <1>9. e > now
    BY <1>6, <1>7
  <1>10. Lease!Grant(m, {}) /\ Visible'
    <2>1. TypeOK /\ LeaseHeld
      BY DEF IInv, SInv
    <2>2. QED
      BY <2>1, <1>1, <1>3, <1>5, <1>6, <1>8, <1>9, LeaseGrant
  <1>11. Found' = row'
    BY <1>10 DEF Found
  <1>12. Lease!Transfer(l, m)
    <2>1. ~(lease[l] > now)
      BY <1>4, <1>6
    <2>2. QED
      BY <2>1, <1>2, <1>5, <1>6, <1>7, <1>10, <1>11 DEF Lease!Transfer
  <1>13. LeaseStep
    BY <1>2, <1>3, <1>12, LeaseActions
  <1>14. \A n \in LockIDs : ~(lease[n] > now)
    BY <1>2, <1>4, <1>6 DEF SInv, LeaseHeld, HeldBy
  <1>15. LeaseHeld'
    <2> SUFFICES ASSUME NEW n \in LockIDs, lease'[n] > now'
                 PROVE  HeldBy(n)' /\ lease'[n] <= row'.expiresAt
      BY DEF LeaseHeld
    <2>1. n = m /\ lease'[n] = e
      BY <1>1, <1>8, <1>14
    <2>2. QED
      BY <2>1, <1>5, <1>6, <1>10 DEF HeldBy
  <1>16. QED
    BY <1>13, <1>15

\* Create and the takeover of an expired row acquire a free lock, unless the
\* clock sample is already LockDuration old: then nothing is visible.
LEMMA AcquireLease ==
    ASSUME IInv, SInv, NEW r \in Requests, ~Visible, now' = now, lockID[r] \in LockIDs,
           row' # NoRow, row'.lockID = lockID[r], row'.expiresAt = ExpiryFor(r),
           row'.createdAt \in 0 .. now, NEW forget, lockID[r] \notin forget,
           \/ lease' = lease
           \/ lease' = [m \in LockIDs |-> IF m = lockID[r] THEN ExpiryFor(r)
                                          ELSE IF m \in forget THEN 0 ELSE lease[m]]
           \/ lease' = [m \in LockIDs |-> IF m \in forget THEN 0 ELSE lease[m]]
    PROVE  LeaseHeld' /\ LeaseStep
  <1> DEFINE e == ExpiryFor(r)
  <1> PICK l \in LockIDs : l = lockID[r]
    OBVIOUS
  <1>1. e \in Nat /\ e <= now + LockDuration /\ now \in Nat /\ lease \in [LockIDs -> Nat]
    BY ExpiryAhead DEF IInv, TypeOK
  <1>2. \A m \in LockIDs : ~(lease[m] > now)
    BY DEF SInv, LeaseHeld, HeldBy
  <1>3. \A m \in LockIDs : lease'[m] > now => m = l /\ lease'[m] = e
    BY <1>1, <1>2
  <1>4. LeaseHeld'
    BY <1>1, <1>3 DEF LeaseHeld, HeldBy, Visible
  <1>5. Found = NoRow
    BY DEF Found
  <1>6. CASE e > now
    <2>1. lease' = lease \/ lease' = [m \in LockIDs |-> IF m = l THEN e ELSE IF m \in forget THEN 0 ELSE lease[m]]
            \/ lease' = [m \in LockIDs |-> IF m \in forget THEN 0 ELSE lease[m]]
      OBVIOUS
    <2>2. Visible' /\ Found' = row'
      BY <1>6 DEF Visible, Found
    <2>3. \E told \in BOOLEAN :
            Counted' = [m \in LockIDs |-> IF m = l THEN IF told THEN e ELSE Counted[l]
                                          ELSE IF m \in {} THEN 0 ELSE Counted[m]]
      <3>1. CASE lease'[l] = e
        <4>1. Counted' = [m \in LockIDs |-> IF m = l THEN IF TRUE THEN e ELSE Counted[l]
                                            ELSE IF m \in {} THEN 0 ELSE Counted[m]]
          BY <3>1, <1>2, <1>3, <1>6 DEF Counted
        <4>2. QED
          BY <4>1
      <3>2. CASE lease'[l] # e
        <4>1. Counted' = [m \in LockIDs |-> IF m = l THEN IF FALSE THEN e ELSE Counted[l]
                                            ELSE IF m \in {} THEN 0 ELSE Counted[m]]
          BY <3>2, <1>2, <1>3, <1>6 DEF Counted
        <4>2. QED
          BY <4>1
      <3>3. QED
        BY <3>1, <3>2
    <2>4. Found'.lockID = l /\ Found'.expiresAt = e /\ Found'.createdAt \in 0 .. now
      BY <2>2
    <2>5. Found'.expiresAt \in now + 1 .. now + LockDuration
      BY <2>4, <1>1, <1>6, LockDurationAssumption
    <2>6. Lease!Acquire(l)
      BY <2>3, <2>4, <2>5, <1>5 DEF Lease!Acquire, Lease!Grant, Counted, NoRow
    <2>7. LeaseStep
      BY <2>6, LeaseActions
    <2>8. QED
      BY <2>7, <1>4
  <1>7. CASE ~(e > now)
    <2>1. Found' = Found
      BY <1>5, <1>7 DEF Found, Visible
    <2>2. Counted' = Counted
      BY <1>2, <1>3, <1>7 DEF Counted
    <2>3. QED
      BY <2>1, <2>2, <1>4, LeaseStutter
  <1>8. QED
    BY <1>6, <1>7

\* A step that leaves the row, the clock and the grants alone.
LEMMA QuietLease ==
    ASSUME LeaseHeld, row' = row, now' = now, lease' = lease
    PROVE  LeaseHeld' /\ LeaseStep
  <1>1. Found' = Found /\ Counted' = Counted
    BY DEF Found, Visible, Counted
  <1>2. LeaseHeld'
    BY DEF LeaseHeld, HeldBy, Visible
  <1>3. QED
    BY <1>1, <1>2, LeaseStutter

\* Unlock's DELETE releases a lock that its session no longer counts on, or
\* removes a row that has expired.
LEMMA DeleteLease ==
    ASSUME IInv, SInv, NEW r \in Requests, DeleteByFileID(r), row.lockID = lockID[r]
    PROVE  LeaseHeld' /\ LeaseStep
  <1>1. row' = NoRow /\ now' = now /\ lease' = lease /\ pc[r] = "delete" /\ op[r] = "Unlock"
    BY DEF DeleteByFileID, IInv, Bookkeeping
  <1>2. now \in Nat /\ lease \in [LockIDs -> Nat]
    BY DEF IInv, TypeOK
  <1>3. \A l \in LockIDs : l = lockID[r] => lease[l] = 0
    BY <1>1 DEF SInv, Settled
  <1>4. \A m \in LockIDs : ~(lease[m] > now)
    BY <1>2, <1>3 DEF SInv, LeaseHeld, HeldBy
  <1>5. LeaseHeld'
    BY <1>1, <1>4 DEF LeaseHeld
  <1>6. Found' = NoRow /\ Counted' = Counted
    BY <1>1 DEF Found, Visible, Counted
  <1>7. CASE Visible
    <2>1. PICK l \in LockIDs : l = row.lockID
      BY <1>7, RowIdentity DEF Visible, IInv, TypeOK
    <2>2. Found.lockID = l /\ ~(lease[l] > now)
      BY <1>4, <1>7, <2>1 DEF Found
    <2>3. Lease!Release(l)
      BY <1>1, <1>6, <2>2 DEF Lease!Release, Lease!Free, NoRow, Counted
    <2>4. QED
      BY <1>5, <2>3, LeaseActions
  <1>8. CASE ~Visible
    BY <1>1, <1>5, <1>6, <1>8, LeaseStutter DEF Found
  <1>9. QED
    BY <1>7, <1>8

\* A takeover that finds the row it decided on evicts a session past
\* MaxLockLifetime, or acquires the lock of a row that has expired since.
LEMMA TakeoverLease ==
    ASSUME IInv, SInv, NEW r \in Requests, Takeover(r), row.lockID = existing[r].lockID
    PROVE  LeaseHeld' /\ LeaseStep
  <1> DEFINE e == ExpiryFor(r)
  <1>1. /\ pc[r] = "takeover" /\ now' = now
        /\ row' = [lockID |-> lockID[r], expiresAt |-> e, createdAt |-> at[r]]
    BY DEF Takeover
  <1>2. /\ lockID[r] \in LockIDs /\ existing[r] # NoRow /\ existing[r].lockID # lockID[r]
        /\ OverAge(existing[r], at[r]) /\ at[r] <= now /\ at[r] \in Nat
    BY <1>1 DEF IInv, TypeOK, Bookkeeping
  <1>3. PICK m \in LockIDs : m = lockID[r]
    BY <1>2
  <1>4. PICK l \in LockIDs : l = row.lockID
    BY <1>2, RowIdentity DEF IInv, TypeOK
  <1>5. l # m
    BY <1>2, <1>3, <1>4
  <1>6. \/ lease' = [n \in LockIDs |-> IF n = m THEN e ELSE IF n \in {l} THEN 0 ELSE lease[n]]
        \/ lease' = [n \in LockIDs |-> IF n \in {l} THEN 0 ELSE lease[n]]
    <2>1. lease' = [n \in LockIDs |-> IF n = m /\ resp'[r].status = "200" THEN e
                                      ELSE IF n = l THEN 0 ELSE lease[n]]
      BY <1>3, <1>4 DEF Takeover
    <2>2. CASE resp'[r].status = "200"
      BY <2>1, <2>2
    <2>3. CASE resp'[r].status # "200"
      BY <2>1, <2>3
    <2>4. QED
      BY <2>2, <2>3
  <1>7. /\ row'.lockID = m /\ row'.expiresAt = e /\ row'.createdAt = at[r] /\ row' # NoRow
    BY <1>1, <1>3, LockIDsAssumption DEF NoRow
  <1>8. /\ e \in Nat /\ e <= now + LockDuration /\ now \in Nat /\ lease \in [LockIDs -> Nat]
        /\ row.expiresAt \in Nat /\ row.createdAt \in Nat
    BY ExpiryAhead, RowIdentity DEF IInv, TypeOK
  <1>9. CASE ~Visible
    <2>1. /\ row'.createdAt \in 0 .. now /\ lockID[r] \notin {l}
          /\ row'.lockID = lockID[r]
      BY <1>2, <1>3, <1>5, <1>7, <1>8
    <2>2. \/ lease' = [n \in LockIDs |-> IF n = lockID[r] THEN ExpiryFor(r)
                                         ELSE IF n \in {l} THEN 0 ELSE lease[n]]
          \/ lease' = [n \in LockIDs |-> IF n \in {l} THEN 0 ELSE lease[n]]
      BY <1>3, <1>6
    <2>3. QED
      BY <1>1, <1>2, <1>7, <1>9, <2>1, <2>2, AcquireLease
  <1>10. CASE Visible
    <2>1. row.expiresAt > now /\ row.expiresAt <= e /\ Found = row
      BY <1>1, <1>10 DEF Visible, Found, SInv, Settled
    <2>2. existing[r].createdAt = row.createdAt
      BY <1>1, <1>10 DEF IInv, SnapshotCurrent, SInv, Commits
    <2>3. MaxLockLifetime > 0 /\ now - row.createdAt > MaxLockLifetime
      BY <1>2, <1>8, <2>2, MaxLockLifetimeAssumption DEF OverAge
    <2> HIDE DEF e
    <2>4. e > now
      BY <1>8, <2>1
    <2>5. Lease!Grant(m, {l}) /\ Visible'
      <3>1. TypeOK /\ LeaseHeld
        BY DEF IInv, SInv
      <3>2. \A n \in LockIDs : n \in {l} => n # m
        BY <1>5
      <3>3. lease' = lease => \A n \in LockIDs : n \in {l} => ~(lease[n] > now)
        BY <1>5, <1>6, <1>8
      <3>4. QED
        BY <1>1, <1>6, <1>7, <1>8, <2>4, <3>1, <3>2, <3>3, LeaseGrant
    <2>6. Found' = row'
      BY <2>5 DEF Found
    <2>7. Lease!Evict(l, m)
      BY <1>2, <1>4, <1>5, <1>7, <1>8, <2>1, <2>3, <2>5, <2>6 DEF Lease!Evict
    <2>8. \A n \in LockIDs : lease[n] > now => n = l
      BY <1>4 DEF SInv, LeaseHeld, HeldBy
    <2>9. \A n \in LockIDs : lease'[n] > now => n = m /\ lease'[n] = e
      BY <1>6, <1>8, <2>8
    <2>10. LeaseHeld'
      BY <1>1, <1>7, <1>8, <2>5, <2>9 DEF LeaseHeld, HeldBy
    <2>11. QED
      BY <2>7, <2>10, LeaseActions
  <1>11. QED
    BY <1>9, <1>10

\* Lock's upsert acquires a lock that is free, since nobody overtook it.
LEMMA CreateLease ==
    ASSUME IInv, SInv, NEW r \in Requests, Create(r)
    PROVE  LeaseHeld' /\ LeaseStep
  <1>1. pc[r] = "create" /\ now' = now /\ row' = Upsert(r) /\ Promise(r)
    BY DEF Create
  <1>2. /\ lockID[r] \in LockIDs /\ existing[r] = NoRow /\ at[r] <= now /\ at[r] \in Nat
        /\ now \in Nat
    BY <1>1 DEF IInv, TypeOK, Bookkeeping
  <1>3. ~Visible
    <2>1. Visible => existing[r].lockID = row.lockID /\ row.lockID \in LockIDs
      BY <1>1, RowIdentity DEF IInv, TypeOK, SnapshotCurrent, SInv, Commits, Visible
    <2>2. QED
      BY <1>2, <2>1, LockIDsAssumption DEF NoRow
  <1>4. row.createdAt \in 0 .. now
    BY <1>2, RowIdentity DEF IInv, TypeOK, ExpiryBounded
  <1>5. /\ row'.lockID = lockID[r] /\ row'.expiresAt = ExpiryFor(r)
        /\ row'.createdAt \in 0 .. now /\ row' # NoRow
    BY <1>1, <1>2, <1>4, LockIDsAssumption DEF Upsert, NoRow
  <1> PICK forget : forget = {}
    OBVIOUS
  <1>6. \/ lease' = lease
        \/ lease' = [m \in LockIDs |-> IF m = lockID[r] THEN ExpiryFor(r)
                                       ELSE IF m \in forget THEN 0 ELSE lease[m]]
    BY <1>1, <1>2, PromiseEffect DEF IInv
  <1>7. lockID[r] \notin forget
    OBVIOUS
  <1>8. QED
    BY <1>1, <1>2, <1>3, <1>5, <1>6, <1>7, AcquireLease

\* The handlers' entry: an Unlock and an UnlockAndRelock yield the lock they
\* are about to give up, the others change nothing.
LEMMA ArriveLease ==
    ASSUME IInv, SInv, NEW r \in Requests, Arrive(r)
    PROVE  /\ LeaseHeld' /\ LeaseStep
           /\ \/ pc'[r] = "idle"
              \/ /\ pc'[r] = "find"
                 /\ op'[r] = "Unlock" /\ lockID'[r] \in LockIDs => lease'[lockID'[r]] = 0
                 /\ op'[r] = "UnlockAndRelock"
                        => oldLockID'[r] \in LockIDs /\ lease'[oldLockID'[r]] = 0
  <1> DEFINE After == \/ pc'[r] = "idle"
                      \/ /\ pc'[r] = "find"
                         /\ op'[r] = "Unlock" /\ lockID'[r] \in LockIDs
                                => lease'[lockID'[r]] = 0
                         /\ op'[r] = "UnlockAndRelock"
                                => oldLockID'[r] \in LockIDs /\ lease'[oldLockID'[r]] = 0
  <1>1. /\ row' = row /\ now' = now /\ now \in Nat /\ LeaseHeld
        /\ lease \in [LockIDs -> Nat]
    BY ArriveEffect DEF IInv, TypeOK, SInv
  <1>2. ASSUME lease' = lease PROVE LeaseHeld' /\ LeaseStep
    BY <1>1, <1>2, QuietLease
  <1>3. ASSUME NEW status, Reject(r, status)
        PROVE  lease' = lease /\ pc'[r] = "idle"
    BY <1>3 DEF Reject, Reply, history, IInv, TypeOK
  <1>4. ASSUME NEW id, GiveUp(id) PROVE LeaseHeld' /\ LeaseStep
    <2>1. Found' = Found
      BY <1>1 DEF Found, Visible
    <2>2. LeaseHeld'
      BY <1>1, <1>4 DEF GiveUp, LeaseHeld, HeldBy, Visible
    <2>3. CASE id \in LockIDs
      <3>1. Counted' = [Counted EXCEPT ![id] = 0]
        BY <1>1, <1>4, <2>3 DEF GiveUp, Counted
      <3>2. Lease!Yield(id)
        BY <1>1, <2>1, <3>1 DEF Lease!Yield, Counted
      <3>3. QED
        BY <2>2, <2>3, <3>2, LeaseActions
    <2>4. CASE id \notin LockIDs
      <3>1. lease' = lease
        BY <1>1, <1>4, <2>4 DEF GiveUp
      <3>2. QED
        BY <1>2, <3>1
    <2>5. QED
      BY <2>3, <2>4
  <1>5. ASSUME NEW method, NEW new, NEW old, Start(r, method, new, old)
        PROVE  /\ pc'[r] = "find" /\ op'[r] = method
               /\ lockID'[r] = new /\ oldLockID'[r] = old
    BY <1>5 DEF Start, IInv, TypeOK
  <1>6. ASSUME NEW id \in Headers, LockRequest(r, id) \/ RefreshLockRequest(r, id)
        PROVE  LeaseHeld' /\ LeaseStep /\ After
    BY <1>2, <1>3, <1>5, <1>6 DEF LockRequest, RefreshLockRequest
  <1>7. ASSUME NEW id \in Headers, NEW canWrite, PutFileRequest(r, id, canWrite)
        PROVE  LeaseHeld' /\ LeaseStep /\ After
    BY <1>2, <1>3, <1>5, <1>7 DEF PutFileRequest
  <1>8. ASSUME NEW id \in Headers, UnlockRequest(r, id)
        PROVE  LeaseHeld' /\ LeaseStep /\ After
    <2>1. Start(r, "Unlock", id, NoLock) /\ GiveUp(id)
      BY <1>8 DEF UnlockRequest
    <2>2. id \in LockIDs => lease'[id] = 0
      BY <2>1 DEF GiveUp
    <2>3. QED
      BY <1>4, <1>5, <2>1, <2>2
  <1>9. ASSUME NEW new \in Headers, NEW old \in LockIDs, UnlockAndRelockRequest(r, new, old)
        PROVE  LeaseHeld' /\ LeaseStep /\ After
    <2>1. CASE Reject(r, "500")
      BY <1>2, <1>3, <2>1
    <2>2. CASE Start(r, "UnlockAndRelock", new, old) /\ GiveUp(old)
      <3>1. lease'[old] = 0
        BY <2>2 DEF GiveUp
      <3>2. QED
        BY <1>4, <1>5, <2>2, <3>1
    <2>3. QED
      BY <1>9, <2>1, <2>2 DEF UnlockAndRelockRequest
  <1>10. QED
    BY <1>6, <1>7, <1>8, <1>9 DEF Arrive

\* Every later step of a handler is a step of the abstract lock, or none.
LEMMA AdvanceLease ==
    ASSUME IInv, SInv, NEW r \in Requests, Advance(r)
    PROVE  LeaseHeld' /\ LeaseStep
  <1>1. LeaseHeld
    BY DEF SInv
  <1>2. ASSUME NEW id, Conflict(r, id) PROVE LeaseHeld' /\ LeaseStep
    BY <1>1, <1>2, QuietLease DEF Conflict
  <1>3. ASSUME NEW step, Proceed(r, step) \/ Sample(r, step)
        PROVE  LeaseHeld' /\ LeaseStep
    BY <1>1, <1>3, QuietLease DEF Proceed, Sample, history
  <1>4. CASE FindForLock(r) \/ FindForHolder(r) \/ FindForPutFile(r)
    BY <1>2, <1>3, <1>4 DEF FindForLock, FindForHolder, FindForPutFile
  <1>5. CASE DecideLock(r) \/ SampleExpiry(r) \/ Refetch(r)
    BY <1>2, <1>3, <1>5 DEF DecideLock, SampleExpiry, Refetch
  <1>6. CASE RefreshExpiry(r)
    BY <1>2, <1>6, RefreshLease DEF RefreshExpiry
  <1>7. CASE UpdateLockID(r)
    BY <1>2, <1>7, RelockLease DEF UpdateLockID
  <1>8. CASE DeleteByFileID(r)
    BY <1>2, <1>8, DeleteLease DEF DeleteByFileID
  <1>9. CASE Takeover(r)
    <2>1. CASE row.lockID = existing[r].lockID
      BY <1>9, <2>1, TakeoverLease
    <2>2. CASE row.lockID # existing[r].lockID
      BY <1>1, <1>9, <2>2, QuietLease DEF Takeover, history
    <2>3. QED
      BY <2>1, <2>2
  <1>10. CASE Create(r)
    BY <1>10, CreateLease
  <1>11. CASE WriteFile(r) \/ Fail(r)
    BY <1>1, <1>11, QuietLease DEF WriteFile, Fail
  <1>12. QED
    BY <1>4, <1>5, <1>6, <1>7, <1>8, <1>9, <1>10, <1>11 DEF Advance

\* The sweep removes nothing that anyone counts on.
LEMMA SweepLease ==
    ASSUME IInv, SInv, DeleteExpired
    PROVE  LeaseHeld' /\ LeaseStep
  <1>1. row' = NoRow /\ now' = now /\ lease' = lease
    BY DEF DeleteExpired, history
  <1>2. ~Visible
    BY RowIdentity DEF DeleteExpired, Expired, Visible, IInv, TypeOK
  <1>3. \A m \in LockIDs : ~(lease[m] > now)
    BY <1>2 DEF SInv, LeaseHeld, HeldBy
  <1>4. LeaseHeld'
    BY <1>1, <1>3 DEF LeaseHeld
  <1>5. Found' = Found /\ Counted' = Counted
    BY <1>1, <1>2 DEF Found, Visible, Counted
  <1>6. QED
    BY <1>1, <1>4, <1>5, LeaseStutter

\* Time ends a grant, and what its session counts on with it.
LEMMA TickLease ==
    ASSUME IInv, SInv, Tick
    PROVE  LeaseHeld' /\ LeaseStep
  <1>1. row' = row /\ now' = now + 1 /\ lease' = lease
    BY DEF Tick, history
  <1>2. /\ now \in Nat /\ lease \in [LockIDs -> Nat] /\ row.expiresAt \in Nat
        /\ row \in Lock \cup {NoRow}
    BY RowIdentity DEF IInv, TypeOK
  <1>3. LeaseHeld'
    BY <1>1, <1>2 DEF SInv, LeaseHeld, HeldBy, Visible
  <1>4. Counted' = [l \in LockIDs |-> IF Counted[l] > now' THEN Counted[l] ELSE 0]
    BY <1>1, <1>2 DEF Counted
  <1>5. IF Found.expiresAt <= now' THEN Found' = NoRow ELSE Found' = Found
    BY <1>1, <1>2 DEF Found, Visible, NoRow
  <1>6. Lease!Tick
    BY <1>1, <1>4, <1>5 DEF Lease!Tick, Lease!Free, Counted, NoRow
  <1>7. Lease!Next
    BY <1>6 DEF Lease!Next
  <1>8. QED
    BY <1>3, <1>7 DEF LeaseStep

\* Serial behaviours: every step preserves SInv, and is a step of the abstract
\* lock or none.
LEMMA SerialStep ==
    ASSUME Serial, IInv, SInv, [Next]_vars
    PROVE  SInv' /\ LeaseStep
  <1>1. LeaseHeld' /\ LeaseStep
    <2>1. CASE UNCHANGED vars
      BY <2>1, QuietLease DEF vars, history, SInv
    <2>2. QED
      BY <2>1, ArriveLease, AdvanceLease, SweepLease, TickLease DEF Next
  <1>2. overtaken' = {}
    <2>1. ASSUME NEW r \in Requests, Arrive(r) PROVE overtaken' = {}
      BY <2>1, ArriveEffect DEF IInv, SInv
    <2>2. ASSUME NEW r \in Requests, Advance(r) PROVE overtaken' = {}
      <3>1. r \notin overtaken'
        BY <2>2, AdvanceEffect DEF IInv, SInv, MovesOn
      <3>2. overtaken' \subseteq Requests
        BY <2>2, AdvanceType DEF IInv, TypeOK
      <3>3. QED
        BY <3>1, <3>2 DEF Serial
    <2>3. CASE DeleteExpired \/ Tick \/ UNCHANGED vars
      BY <2>3 DEF DeleteExpired, Tick, vars, history, SInv
    <2>4. QED
      BY <2>1, <2>2, <2>3 DEF Next
  <1>3. ASSUME NEW r \in Requests PROVE Settled(r)'
    <2>1. /\ Settled(r) /\ row.expiresAt \in Nat /\ row.expiresAt <= now + LockDuration
          /\ ExpiryFor(r) \in Nat
      BY <1>3, ExpiryAhead, RowIdentity DEF SInv, IInv, TypeOK, ExpiryBounded
    <2>2. CASE pc'[r] = "idle"
      BY <2>2 DEF Settled
    <2>3. ASSUME NEW q \in Requests, Arrive(q) PROVE Settled(r)'
      <3>1. q = r
        BY DEF Serial
      <3>2. QED
        BY <2>2, <2>3, <3>1, ArriveLease DEF Settled
    <2>4. ASSUME NEW q \in Requests, Advance(q) PROVE Settled(r)'
      <3>1. q = r
        BY DEF Serial
      <3>2. CASE MovesOn(r)
        <4>1. pc[r] # "idle" /\ now' = now
          BY <2>4, <3>1, AdvanceEffect DEF IInv
        <4>2. QED
          BY <2>1, <3>2, <4>1 DEF Settled, MovesOn, ExpiryFor
      <3>3. QED
        BY <2>2, <2>4, <3>1, <3>2, AdvanceEffect DEF IInv, Answered
    <2>5. CASE DeleteExpired
      BY <2>1, <2>5 DEF DeleteExpired, Settled, ExpiryFor, call, history, NoRow
    <2>6. CASE Tick \/ UNCHANGED vars
      BY <2>1, <2>6 DEF Tick, vars, Settled, ExpiryFor, call, history
    <2>7. QED
      BY <2>3, <2>4, <2>5, <2>6 DEF Next
  <1>4. QED
    BY <1>1, <1>2, <1>3 DEF SInv

\* Initially nobody holds the lock and nobody counts on it.
LEMMA SerialInit == Init => SInv /\ Lease!Init
  <1> SUFFICES ASSUME Init PROVE SInv /\ Lease!Init
    OBVIOUS
  <1>1. SInv
    BY DEF Init, SInv, LeaseHeld, Settled
  <1>2. Lease!Init
    BY DEF Init, Lease!Init, Found, Visible, NoRow
  <1>3. QED
    BY <1>1, <1>2

\* While no two requests overlap, a session that was told 200 holds the lock
\* until the expiry it was given, unless it asked to release it or a takeover
\* evicted it.
THEOREM HolderKeepsItsLock ==
    ASSUME Serial
    PROVE  Spec => []HolderKeepsLock
  <1>1. IInv /\ SInv /\ [Next]_vars => SInv'
    BY SerialStep
  <1>2. SInv => HolderKeepsLock
    BY DEF SInv, LeaseHeld, HolderKeepsLock
  <1>3. QED
    BY <1>1, <1>2, SerialInit, Invariance, PTL DEF Spec

\* While no two requests overlap, no two sessions count on the lock at the same
\* time: what Lock's unconditional upsert breaks (WopiLocks_create_race.cfg), it
\* breaks by an overlap only.
THEOREM SerialExclusion ==
    ASSUME Serial
    PROVE  Spec => []MutualExclusion
  <1>1. HolderKeepsLock => MutualExclusion
    BY DEF HolderKeepsLock, MutualExclusion, HeldBy
  <1>2. QED
    BY <1>1, HolderKeepsItsLock, PTL

\* While no two requests overlap, the lock service implements the abstract
\* lock: every statement, failure, lost reply, sweep and tick is one of its
\* steps or none.
THEOREM ServiceImplementsLease ==
    ASSUME Serial
    PROVE  Spec => ImplementsLease
  <1>1. IInv /\ SInv /\ [Next]_vars => SInv' /\ LeaseStep
    BY SerialStep
  <1>2. LeaseStep => [Lease!Next]_(Lease!vars)
    BY DEF LeaseStep
  <1>3. QED
    BY <1>1, <1>2, SerialInit, Invariance, PTL DEF Spec, ImplementsLease, Lease!Spec
=============================================================================
