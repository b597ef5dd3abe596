----------------------------- MODULE WopiLocks -----------------------------
(***************************************************************************)
(* The WOPI locks of one document: the service methods of                  *)
(* internal/domain/service/wopi_service.go, the SQL statements they run    *)
(* (adapter/outbound/postgres/queries/locks.sql) and the sweep of          *)
(* cleanup_service.go.                                                     *)
(*                                                                         *)
(* A request is one HTTP call in flight, in any replica of the service.    *)
(* Between two steps of a request (find the lock, read the clock, run the  *)
(* conditional write) every other request, the sweep and time may move:    *)
(* a step is one SQL statement, one file-service call or one time.Now().   *)
(* Every statement carries a WHERE clause on file_id, and file_id is       *)
(* unique, so documents are independent and one row is enough.             *)
(*                                                                         *)
(* An operator whose name starts with Broken is a plausible bug of the     *)
(* operator it precedes. The specification does not use it: the properties *)
(* are shown to notice it when it takes that operator's place.             *)
(***************************************************************************)
EXTENDS Integers

CONSTANTS
    LockIDs,          \* the lock IDs the Collabora sessions choose
    NoLock,           \* the empty lock ID, "" in the code
    Requests,         \* request slots: the number of calls in flight at once
    LockDuration,     \* model.DefaultLockDuration
    MaxLockLifetime,  \* WOPI_MAX_LOCK_LIFETIME; zero or less disables takeover
    MaxTime           \* bound on the clock

ASSUME LockIDsAssumption == NoLock \notin LockIDs
ASSUME LockDurationAssumption == LockDuration \in Nat \ {0}
ASSUME MaxLockLifetimeAssumption == MaxLockLifetime \in Int
ASSUME MaxTimeAssumption == MaxTime \in Nat

VARIABLES
    now,        \* the clock of the service and of the database
    row,        \* the document's row of the table locks, or NoRow
    pc,         \* the next step of each request, "idle" when there is none
    op,         \* the service method the request runs
    lockID,     \* its X-WOPI-Lock header
    oldLockID,  \* its X-WOPI-OldLock header
    existing,   \* the lock its FindByFileID returned, NoRow for nil
    at,         \* its time.Now() sample
    resp,       \* the last reply to each request: [status, lockID]
    \* History variables: read by the properties, never by a guard.
    overtaken,  \* requests since whose find the lock changed hands
    since,      \* when the present lock was created or taken over
    lease       \* the expiry of the last grant each session was told of

call    == <<op, lockID, oldLockID>>
history == <<overtaken, since, lease>>
vars    == <<now, row, pc, call, existing, at, resp, history>>

----------------------------------------------------------------------------

Lock  == [lockID : LockIDs, expiresAt : Nat, createdAt : Nat]
NoRow == [lockID |-> NoLock, expiresAt |-> 0, createdAt |-> 0]

Headers  == LockIDs \cup {NoLock}
Methods  == {"none", "Lock", "Unlock", "RefreshLock", "UnlockAndRelock", "PutFile"}
Commits  == {"refresh", "relock", "delete", "takeover", "create", "write"}
Steps    == {"idle", "find", "clock", "refetch"} \cup Commits
Statuses == {"none", "200", "403", "409", "500"}

\* WHERE expires_at > now(): the row FindByFileID returns.
Visible == row # NoRow /\ row.expiresAt > now

\* The sweep measures expiry from creation.
BrokenExpired == row # NoRow /\ row.createdAt + LockDuration < now

\* WHERE expires_at < now(): the row the sweep deletes.
Expired == row # NoRow /\ row.expiresAt < now

\* An UPDATE without the expiry condition revives a dead lock.
BrokenHeldBy(l) == row.lockID = l

\* WHERE lock_id = l AND expires_at > now(): the row an UPDATE by l changes.
HeldBy(l) == Visible /\ row.lockID = l

\* The read filter measures expiry from creation.
BrokenFound ==
    IF row # NoRow /\ row.createdAt + LockDuration > now THEN row ELSE NoRow

\* The lock FindByFileID hands to its caller.
Found == IF Visible THEN row ELSE NoRow

\* A refresh adds to the old expiry.
BrokenExpiryFor(r) == existing[r].expiresAt + LockDuration

\* now.Add(DefaultLockDuration), from the request's clock sample.
ExpiryFor(r) == at[r] + LockDuration

\* The caller holds the lock that the snapshot shows.
Matches(lock, l) == lock # NoRow /\ lock.lockID = l

\* PutFile only asks that some lock ID is given.
BrokenPutAllowed(lock, l) == lock # NoRow => l # NoLock

\* PutFile proceeds on an unlocked file and on one the caller has locked.
PutAllowed(lock, l) == lock # NoRow => l # NoLock /\ lock.lockID = l

\* The lifetime is reached rather than exceeded.
BrokenOverAge(lock, t) == MaxLockLifetime > 0 /\ t - lock.createdAt >= MaxLockLifetime

\* The snapshot is past MaxLockLifetime at time t.
OverAge(lock, t) == MaxLockLifetime > 0 /\ t - lock.createdAt > MaxLockLifetime

\* UpsertLock: a conflict on file_id keeps the row's created_at.
Upsert(r) ==
    [lockID    |-> lockID[r],
     expiresAt |-> ExpiryFor(r),
     createdAt |-> IF row = NoRow THEN at[r] ELSE row.createdAt]

\* The lock ID that the method's caller claims to hold.
Claimed(r) == IF op[r] = "UnlockAndRelock" THEN oldLockID[r] ELSE lockID[r]

----------------------------------------------------------------------------
(* Replies, and the history they leave. *)

\* The request is answered; what it remembered is gone.
Reply(r, status, id) ==
    /\ pc' = [pc EXCEPT ![r] = "idle"]
    /\ op' = [op EXCEPT ![r] = "none"]
    /\ lockID' = [lockID EXCEPT ![r] = NoLock]
    /\ oldLockID' = [oldLockID EXCEPT ![r] = NoLock]
    /\ existing' = [existing EXCEPT ![r] = NoRow]
    /\ at' = [at EXCEPT ![r] = 0]
    /\ resp' = [resp EXCEPT ![r] = [status |-> status, lockID |-> id]]

\* handleLockError: a LockConflictError becomes a 409 with the lock ID in it.
Conflict(r, id) ==
    /\ Reply(r, "409", id)
    /\ overtaken' = overtaken \ {r}
    /\ UNCHANGED <<now, row, since, lease>>

\* The statement changed the row. The reply may still be lost on the way back,
\* which the caller sees as an error.
Acknowledge(r) == \E status \in {"200", "500"} : Reply(r, status, NoLock)

\* The lock changes hands: requests that have read the row hold a stale copy.
ChangeHands(r) ==
    overtaken' = {q \in Requests : pc[q] \notin {"idle", "find"}} \ {r}

\* A session that is told 200 counts on the lock until the expiry it was given.
Promise(r) ==
    lease' = IF resp'[r].status = "200"
             THEN [lease EXCEPT ![lockID[r]] = ExpiryFor(r)]
             ELSE lease

GiveUp(id) == lease' = [l \in LockIDs |-> IF l = id THEN 0 ELSE lease[l]]

----------------------------------------------------------------------------
(* The handlers' entry: header checks, then FindByFileID. *)

Start(r, method, new, old) ==
    /\ pc' = [pc EXCEPT ![r] = "find"]
    /\ op' = [op EXCEPT ![r] = method]
    /\ lockID' = [lockID EXCEPT ![r] = new]
    /\ oldLockID' = [oldLockID EXCEPT ![r] = old]
    /\ resp' = [resp EXCEPT ![r] = [status |-> "none", lockID |-> NoLock]]
    /\ UNCHANGED <<now, row, existing, at, overtaken, since>>

Reject(r, status) ==
    /\ Reply(r, status, NoLock)
    /\ UNCHANGED <<now, row, history>>

\* An empty lock ID is refused before the database is asked.
LockRequest(r, id) ==
    /\ pc[r] = "idle"
    /\ IF id = NoLock
       THEN Reject(r, "500")
       ELSE Start(r, "Lock", id, NoLock) /\ UNCHANGED lease

\* From here on the session no longer counts on the lock it releases.
UnlockRequest(r, id) ==
    /\ pc[r] = "idle"
    /\ Start(r, "Unlock", id, NoLock)
    /\ GiveUp(id)

RefreshLockRequest(r, id) ==
    /\ pc[r] = "idle"
    /\ Start(r, "RefreshLock", id, NoLock)
    /\ UNCHANGED lease

\* The new lock ID is not checked.
BrokenUnlockAndRelockRequest(r, new, old) ==
    /\ pc[r] = "idle"
    /\ Start(r, "UnlockAndRelock", new, old)
    /\ GiveUp(old)

\* LOCK with a nonempty X-WOPI-OldLock header.
UnlockAndRelockRequest(r, new, old) ==
    /\ pc[r] = "idle"
    /\ IF new = NoLock
       THEN Reject(r, "500")
       ELSE Start(r, "UnlockAndRelock", new, old) /\ GiveUp(old)

PutFileRequest(r, id, canWrite) ==
    /\ pc[r] = "idle"
    /\ IF canWrite
       THEN Start(r, "PutFile", id, NoLock) /\ UNCHANGED lease
       ELSE Reject(r, "403")

----------------------------------------------------------------------------
(* FindByFileID, and the checks made on its answer. *)

Proceed(r, step) ==
    /\ pc' = [pc EXCEPT ![r] = step]
    /\ existing' = [existing EXCEPT ![r] = Found]
    /\ UNCHANGED <<now, row, call, at, resp, history>>

FindForLock(r) ==
    /\ pc[r] = "find" /\ op[r] = "Lock"
    /\ Proceed(r, "clock")

\* Unlock, RefreshLock and UnlockAndRelock conflict unless the caller holds
\* the lock; a nil lock is the conflict with the empty lock ID.
FindForHolder(r) ==
    /\ pc[r] = "find" /\ op[r] \in {"Unlock", "RefreshLock", "UnlockAndRelock"}
    /\ IF Matches(Found, Claimed(r))
       THEN Proceed(r, IF op[r] = "Unlock" THEN "delete" ELSE "clock")
       ELSE Conflict(r, Found.lockID)

\* The conflict echoes the caller's own lock ID.
BrokenFindForPutFile(r) ==
    /\ pc[r] = "find" /\ op[r] = "PutFile"
    /\ IF PutAllowed(Found, lockID[r])
       THEN Proceed(r, "write")
       ELSE Conflict(r, lockID[r])

FindForPutFile(r) ==
    /\ pc[r] = "find" /\ op[r] = "PutFile"
    /\ IF PutAllowed(Found, lockID[r])
       THEN Proceed(r, "write")
       ELSE Conflict(r, Found.lockID)

----------------------------------------------------------------------------
(* now := time.Now(), and the branches of Lock that depend on it. *)

Sample(r, step) ==
    /\ at' = [at EXCEPT ![r] = now]
    /\ pc' = [pc EXCEPT ![r] = step]
    /\ UNCHANGED <<now, row, call, existing, resp, history>>

DecideLock(r) ==
    /\ pc[r] = "clock" /\ op[r] = "Lock"
    /\ \/ existing[r] = NoRow /\ Sample(r, "create")
       \/ Matches(existing[r], lockID[r]) /\ Sample(r, "refresh")
       \/ /\ existing[r] # NoRow
          /\ existing[r].lockID # lockID[r]
          /\ IF OverAge(existing[r], now)
             THEN Sample(r, "takeover")
             ELSE Conflict(r, existing[r].lockID)

SampleExpiry(r) ==
    /\ pc[r] = "clock" /\ op[r] \in {"RefreshLock", "UnlockAndRelock"}
    /\ Sample(r, IF op[r] = "RefreshLock" THEN "refresh" ELSE "relock")

----------------------------------------------------------------------------
(* The conditional writes. Zero rows is ErrStaleLock, which wrapStaleLock
   turns into a conflict with the empty lock ID. *)

RefreshExpiry(r) ==
    /\ pc[r] = "refresh"
    /\ IF HeldBy(lockID[r])
       THEN /\ row' = [row EXCEPT !.expiresAt = ExpiryFor(r)]
            /\ Acknowledge(r)
            /\ Promise(r)
            /\ overtaken' = overtaken \ {r}
            /\ UNCHANGED <<now, since>>
       ELSE Conflict(r, NoLock)

UpdateLockID(r) ==
    /\ pc[r] = "relock"
    /\ IF HeldBy(oldLockID[r])
       THEN /\ row' = [row EXCEPT !.lockID = lockID[r], !.expiresAt = ExpiryFor(r)]
            /\ Acknowledge(r)
            /\ Promise(r)
            /\ ChangeHands(r)
            /\ UNCHANGED <<now, since>>
       ELSE Conflict(r, NoLock)

\* Unlock's DELETE asks for the lock ID only, not for an unexpired row.
DeleteByFileID(r) ==
    /\ pc[r] = "delete"
    /\ IF row.lockID = lockID[r]
       THEN /\ row' = NoRow
            /\ Acknowledge(r)
            /\ overtaken' = overtaken \ {r}
            /\ UNCHANGED <<now, since, lease>>
       ELSE Conflict(r, NoLock)

\* The loser of a takeover race reads the lock again.
Takeover(r) ==
    /\ pc[r] = "takeover"
    /\ IF row.lockID = existing[r].lockID
       THEN /\ row' = [lockID    |-> lockID[r],
                       expiresAt |-> ExpiryFor(r),
                       createdAt |-> at[r]]
            /\ Acknowledge(r)
            /\ lease' = [l \in LockIDs |->
                            IF l = lockID[r] /\ resp'[r].status = "200"
                            THEN ExpiryFor(r)
                            ELSE IF l = row.lockID THEN 0 ELSE lease[l]]
            /\ ChangeHands(r)
            /\ since' = at[r]
            /\ UNCHANGED now
       ELSE /\ pc' = [pc EXCEPT ![r] = "refetch"]
            /\ UNCHANGED <<now, row, call, existing, at, resp, history>>

Refetch(r) ==
    /\ pc[r] = "refetch"
    /\ Conflict(r, Found.lockID)

\* The upsert has no condition on the row it replaces.
Create(r) ==
    /\ pc[r] = "create"
    /\ row' = Upsert(r)
    /\ Acknowledge(r)
    /\ Promise(r)
    /\ ChangeHands(r)
    /\ since' = at[r]
    /\ UNCHANGED now

\* The file-service call. The stored bytes are outside this module: what
\* matters here is which lock is live at the moment they change.
WriteFile(r) ==
    /\ pc[r] = "write"
    /\ Acknowledge(r)
    /\ overtaken' = overtaken \ {r}
    /\ UNCHANGED <<now, row, since, lease>>

----------------------------------------------------------------------------
(* Failures, the sweep and time. *)

\* The next call of the request fails without effect: a database or
\* file-service error, a cancelled context, or the death of the replica.
Fail(r) ==
    /\ pc[r] # "idle"
    /\ Reply(r, "500", NoLock)
    /\ overtaken' = overtaken \ {r}
    /\ UNCHANGED <<now, row, since, lease>>

DeleteExpired ==
    /\ Expired
    /\ row' = NoRow
    /\ UNCHANGED <<now, pc, call, existing, at, resp, history>>

Tick ==
    /\ now < MaxTime
    /\ now' = now + 1
    /\ UNCHANGED <<row, pc, call, existing, at, resp, history>>

----------------------------------------------------------------------------

Init ==
    /\ now = 0
    /\ row = NoRow
    /\ pc = [r \in Requests |-> "idle"]
    /\ op = [r \in Requests |-> "none"]
    /\ lockID = [r \in Requests |-> NoLock]
    /\ oldLockID = [r \in Requests |-> NoLock]
    /\ existing = [r \in Requests |-> NoRow]
    /\ at = [r \in Requests |-> 0]
    /\ resp = [r \in Requests |-> [status |-> "none", lockID |-> NoLock]]
    /\ overtaken = {}
    /\ since = 0
    /\ lease = [l \in LockIDs |-> 0]

Arrive(r) ==
    \/ \E id \in Headers : LockRequest(r, id)
    \/ \E id \in Headers : UnlockRequest(r, id)
    \/ \E id \in Headers : RefreshLockRequest(r, id)
    \/ \E new \in Headers, old \in LockIDs : UnlockAndRelockRequest(r, new, old)
    \/ \E id \in Headers, canWrite \in BOOLEAN : PutFileRequest(r, id, canWrite)

Advance(r) ==
    \/ FindForLock(r)
    \/ FindForHolder(r)
    \/ FindForPutFile(r)
    \/ DecideLock(r)
    \/ SampleExpiry(r)
    \/ RefreshExpiry(r)
    \/ UpdateLockID(r)
    \/ DeleteByFileID(r)
    \/ Takeover(r)
    \/ Refetch(r)
    \/ Create(r)
    \/ WriteFile(r)
    \/ Fail(r)

Next ==
    \/ \E r \in Requests : Arrive(r) \/ Advance(r)
    \/ DeleteExpired
    \/ Tick

Spec == Init /\ [][Next]_vars

----------------------------------------------------------------------------
(* Properties of any number of overlapping requests. *)

\* Every variable has its type: the row is a lock or absent, and a request
\* past its header checks never carries an empty ID to a statement that
\* stores it.
TypeOK ==
    /\ now \in Nat
    /\ row \in Lock \cup {NoRow}
    /\ pc \in [Requests -> Steps]
    /\ op \in [Requests -> Methods]
    /\ lockID \in [Requests -> Headers]
    /\ oldLockID \in [Requests -> Headers]
    /\ existing \in [Requests -> Lock \cup {NoRow}]
    /\ at \in [Requests -> Nat]
    /\ resp \in [Requests -> [status : Statuses, lockID : Headers]]
    /\ overtaken \subseteq Requests
    /\ since \in Nat
    /\ lease \in [LockIDs -> Nat]

\* A request that nobody overtook still knows who holds the lock: whatever
\* unlocks, refreshes, sweeps and expiries ran since its find, a lock that is
\* live now is the one it found, created when it found it created.
\* (The repository's claim that the statements prevent races, restricted to
\* the races they do prevent.)
SnapshotCurrent ==
    \A r \in Requests :
        /\ pc[r] \in {"clock"} \cup Commits
        /\ r \notin overtaken
        /\ Visible
        => /\ existing[r].lockID = row.lockID
           /\ existing[r].createdAt = row.createdAt

\* Lock's upsert never replaces a live lock, except when the lock changed
\* hands after the request had found the file unlocked. In particular no
\* refresh revives a lock that had expired when the request looked.
StealOnlyByOverlap ==
    \A r \in Requests :
        pc[r] = "create" /\ r \notin overtaken => ~Visible

\* PutFile never writes under another session's live lock, except when the
\* lock changed hands between its check and its write.
ForeignWriteOnlyByOverlap ==
    \A r \in Requests :
        pc[r] = "write" /\ r \notin overtaken /\ Visible => row.lockID = lockID[r]

\* The zombie takeover, decided on an earlier snapshot and clock sample,
\* replaces a live row only when that row is past MaxLockLifetime, unless the
\* lock changed hands meanwhile.
TakeoverOnlyOverAge ==
    \A r \in Requests :
        pc[r] = "takeover" /\ r \notin overtaken /\ Visible
            => now - row.createdAt > MaxLockLifetime

\* A lock never outlives the present by more than DefaultLockDuration, in
\* whatever order delayed refreshes and relocks reach the database: a session
\* that dies blocks the document no longer than that. Nor is a lock younger
\* than the present, which would shield it from the takeover.
ExpiryBounded ==
    /\ row.expiresAt <= now + LockDuration
    /\ row.createdAt <= now

\* A 409 of a request that was not overtaken names the lock that is live when
\* it is answered.
ConflictNamesHolder ==
    [][\A r \in Requests :
        /\ pc[r] # "idle" /\ pc'[r] = "idle"
        /\ resp'[r].status = "409"
        /\ r \notin overtaken
        /\ Visible
        => resp'[r].lockID = row.lockID]_vars

\* A lock that expired or was released comes back only through Lock's upsert
\* or a takeover, never through a refresh or relock that arrives late.
NoRevival ==
    [][~Visible /\ Visible' => \E r \in Requests :
        pc[r] \in {"create", "takeover"} /\ pc'[r] = "idle"]_vars

----------------------------------------------------------------------------
(* What a session may count on. *)

\* A session that was told 200 holds the lock until the expiry it was given,
\* unless it asked to release it or a takeover evicted it: neither the sweep
\* nor failures, lost replies or the other sessions' conflicts take it away.
\* Holds while no two requests overlap.
HolderKeepsLock ==
    \A l \in LockIDs : lease[l] > now => HeldBy(l)

\* Two sessions never count on the lock at the same time.
MutualExclusion ==
    \A l, m \in LockIDs : lease[l] > now /\ lease[m] > now => l = m

\* A session that created its lock within MaxLockLifetime is not taken over.
TakeoverHonoursLifetime ==
    [][\A r \in Requests :
        Takeover(r) /\ row' # row /\ r \notin overtaken /\ Visible
            => now - since > MaxLockLifetime]_vars
=============================================================================
