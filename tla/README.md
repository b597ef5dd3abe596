# Verification of wopi-service

TLA+ models of the WOPI service, TLC runs over small instances of them, and
TLAPS proofs for every instance. This document has the inventory of the system,
the correspondence between modules and code, what the runs and proofs show,
what is left out, and the plan.

## 1. The system

wopi-service sits between Collabora Online and Alkemio: it issues access tokens
and editor URLs to users, answers Collabora's WOPI callbacks (file info,
content, locks), renders document previews, and reports activity on documents.
The manifests ask for one replica, so there are two for a while at every rollout;
replicas share one PostgreSQL database, and file contents live in file-service.

| Part | State | Operations | Hard about it |
|---|---|---|---|
| WOPI locks (`wopi_service.go`, `locks.sql`, `lock_repository.go`) | table `locks`, one row per file | Lock, Unlock, RefreshLock, UnlockAndRelock, PutFile's check, LockStatus, zombie takeover | each method is a find, a clock sample and a conditional write, in several replicas, against expiry and the sweep |
| Sweep (`cleanup_service.go`) | none | delete expired tokens and locks every 15 min | runs between any two statements |
| Previews (`preview_service.go`, `preview_cache.sql`, `file_client.go`) | table `document_preview_cache`, two semaphores, single-flight group; preview files in file-service | Resolve; the shared render job | a job of eight remote calls, any of which may fail after taking effect, shared by requests that saw different versions |
| Discovery cache (`discovery_service.go`) | cached data and its time | GetDiscovery, FindActionByExtension, GetProofKeys | fetch outside the mutex, stale fallback |
| Proof middleware (`middleware_proof.go`) | none (reads the cache) | verify a callback | keys rotate at Collabora while cached here |
| Reachability signal (`discovery_service.go` Probe, `health_handler.go`) | last state, last success | Probe | results applied out of order |
| Contribution window (`contribution_window.go`, its middleware, `putFile`) | current window per document | AddActor, MarkModified, flush | a request spans two critical sections, the flush swaps between them |
| Tokens (`token_service.go`, `token_repository.go`, `middleware_auth.go`) | table `access_tokens` | IssueToken, ValidateToken | authorization failures decide permissions for 8 hours |
| Authorization (`authbreaker`, `authhttp`, `nats`) | circuit breaker counts | CheckPrivilege | retries inside the breaker |
| Calls (`wopi_handler.go`: CheckFileInfo, GetFile, PutFile, RenameFile, the lock operations) | none | ask the token's row for a permission (the lock operations do not) | the row is the one found before the handler ran |
| Publisher (`rabbitmq`) | connection, channel, closed flag, one mutex | Publish, Close | the mutex is held across dial, declare and publish; the broker may fail between any two of them |
| Process (`cmd/server/main.go`) | goroutines, pool, publisher | start, SIGTERM | main and the shutdown goroutine end in an order nobody fixed |

How they interact: the handlers call the services; PutFile reads the lock table
and marks the contribution window; token issuance and the proof middleware
share the discovery cache; health requests call Probe; the sweep and the flush
run on tickers; previews use the authorization adapters and file-service; the
flusher and rename use the publisher; shutdown ends all of them.

What makes each part correct:

- locks: a session told 200 holds the lock until the promised expiry; an
  expired lock blocks nobody and does not come back; nobody writes under
  another's lock; a conflict names the holder.
- previews: pixels are as new as the ETag and as what the caller saw; failures
  never leave the mapping ahead of the pixels or strand a file; permits are
  returned; nobody waits for a job that is gone.
- discovery and proof: a warm cache stays warm; genuine callbacks survive one
  rotation; the cache converges to Collabora's keys.
- reachability: records alternate; an outage is noticed, and (SC-003) logged
  once.
- tokens: nothing but the authorization service grants or denies a change of
  content or name; a token is good until the time its owner was told; refusals leave nothing behind.
- contribution: an event says exactly what happened in its window; nothing is
  lost, repeated or left uncounted.
- publisher: it owns every connection it made; an event is sent once or not at
  all, in the order of the renames.
- process: after the signal it ends, whoever is dialling or querying, and leaves
  nothing open behind.

## 2. Modules

Each component module has an `MC_` companion with the symmetry sets and views
that TLC uses; a `.cfg` is one run. An operator named `Broken...` is a plausible
bug of the operator it stands before; the specification never uses it, and
replacing the operator by it makes TLC report the property named in
`PROJECT.json`.

- **WopiLocks**: one document (each statement has `WHERE file_id = ...` on a
  unique column, so documents do not interact), any number of requests in
  flight. A step is one SQL statement, one file-service call or one
  `time.Now()`. `row` is the row, `existing[r]` and `at[r]` what a request has
  in its local variables, `resp[r]` the reply. A statement that took effect may
  still be answered 500 (the reply is lost); any call may fail; a replica's
  death is such a failure. Time is discrete and shared by the database and the
  replicas. History variables (`overtaken`, `since`, `lease`) are read by
  properties only.
- **LockLease**: what the locks promise, without requests, rows or statements:
  a holder, the end of its grant, its age, and what each session counts on.
  **WopiLocks_lease** gives the refinement mapping (`Found` is the lock that is
  held; a session counts on the expiry it was last told) and states
  `ImplementsLease`. Two clauses of LockLease are as loose as the code makes
  them: an acquired lock may be older than its acquisition (the upsert keeps
  `created_at`), and a session that is granted the lock need not learn of it.
- **Preview**: any number of sources and replicas; requests, and one job per
  source and replica, one remote call or semaphore operation per step. A version
  number stands for a source's date, its ETag and the pixels rendered from it.
  Writes and upserts may take effect and report failure; a replica may die
  between any two steps of its jobs, which cleans up nothing. `contended` is
  history: the sources on which jobs of two replicas were at work at once, until
  a job that ran alone has committed.
- **Discovery**: callers of GetDiscovery (a fetch outside the mutex, a store,
  the lookup that follows) and callbacks signed with the keys Collabora had
  when it sent them. A key is `<<generation, rotation>>`. The cryptography is
  taken to be sound: a signature verifies under exactly its key. Proof
  validation is on (it is a pass-through when off).
- **Reachability**: overlapping probes; fetch and critical section are separate
  steps.
- **ContributionWindow**: a request is AddActor and later MarkModified or
  nothing; the flush is the swap, then one step per document. The number of the
  window and the history sets say what happened in each window.
- **Tokens**: token requests through lookup, the two privilege checks, token
  generation, editor lookup and insert; the breaker and the retries inside each
  check; the token table and its sweep; WOPI calls that present a token (lookup
  and expiry check are two steps) and, once admitted, change the document's
  content or name, or are told that they may, if the row they carry permits it.
  `exercised` records with which tokens that happened. LOCK, UNLOCK, REFRESH_LOCK
  and UnlockAndRelock serve any valid token, a read-only one too: `ChangeLock`
  has no permission check, and what it does to the lock is in **WopiLocks**. An
  answer of the authorization service is a 200, or a 400, whose body decodes
  (`authhttp/auth_service.go:122`); one that does not say allowed is a no.
  gobreaker is external: a generation is the
  set of requests it let through, and a result from outside the set is ignored.
  Which answer the authorization service gives is arbitrary, and so is how the
  editor lookup ends, whose cache is **Discovery**.
- **Publisher**: `Publish` as the steps it takes under `p.mu` (lock and check
  of `closed`, dial, channel, declare, publish), with every error return, and
  `Close`. The broker is external: it carries what is written to a connection in
  order, breaks connections (losing a tail of what they carry) and channels, and
  a failed publish may have been received. Connections are numbered.
- **Process** extends Publisher with what uses it: requests (the token query,
  the contribution record, `renameFile`), the flush ticker, and main with
  `gracefulShutdown` and the deferred closes. net/http and pgxpool are external:
  Shutdown closes the listener, which makes `ListenAndServe` return; any other
  error of the server is `logger.Fatal`, which ends the process without the
  deferred closes (`ServeFails`, main is then "killed"); Pool.Close waits for
  acquired connections. main waits for nothing else, so the process
  exits with requests under way (`Exit` has no guard on them): renames, saves
  and flushes are cut, although `specs/001-wopi-service-init/tasks.md:85` asks
  for a "graceful shutdown". The NATS connection, which is closed between the
  two, holds no state here.

## 3. Runs

| Run | Result | What it shows |
|---|---|---|
| WopiLocks_overlap | holds | what the conditional statements guarantee under two overlapping requests; every exception needs the lock to change hands between a find and its write |
| WopiLocks_serial | holds | without overlap a told holder keeps its lock (`HolderKeepsLock`), and the service implements LockLease (`ImplementsLease`) |
| WopiLocks_create_race | **violated** | two acquisitions of a free file both succeed: the upsert has no condition |
| WopiLocks_fresh_takeover | **violated** | the upsert keeps `created_at`: a young lock can be taken over |
| Preview_freshness | holds | with two replicas and crashes: freshness, mapping not ahead, no stranded file, except while replicas contend for a source; permits accounted and no waiter left behind on every exit path of a job that creates, refreshes, reuses, commits, cleans up, fails or dies |
| Reachability_overlap | holds | records alternate, an outage is noticed, and logs lost at most once per probe in flight |
| Reachability_one_lost | **violated** | a success of before the outage, applied late, makes the outage log lost twice |
| Discovery_cache | holds | warm cache stays warm, one rotation tolerated both ways, the cache converges to Collabora's keys |
| Discovery_no_refresh | **violated** | a proof failure refreshes nothing |
| Tokens_issuance | holds | an outage is neither a denial nor a privilege, a refusal leaves no row, a token lasts as long as promised, no call changes a document's content or name with a token that was not granted it, every issuance over HTTP is answered or comes to its insert |
| ContributionWindow_events | holds | events exact, nothing left behind, counters add up |
| Process_lifecycle | holds | no connection leaked or left open, no rename twice or out of order, the process ends after the signal, activity is handed on until then |

The violated ones state what a comment or document of the repository says;
`PROJECT.json` quotes it under `findings`.

Behaviours that the models exhibit, that a reader of the documents may not
expect and that the passing properties are worded around:

- PutFile checks the lock and then writes; `ForeignWriteOnlyByOverlap` says
  that it writes under another session's lock only when the lock changed hands
  in between, which does happen.
- A refresh, unlock or relock whose row changed under it answers 409 with an
  empty lock ID although another session holds the lock; `ConflictNamesHolder`
  is about requests that were not overtaken.
- A success fetched before an outage may be applied after a failure, so
  overlapping probes can log lost twice in one outage, contrary to SC-003
  (Reachability_one_lost); `LostBounded` is the bound that the code does keep.
- The lock operations ask for no permission: a read-only token locks, unlocks
  and relocks. `WriteNeedsGrant` is about content and name.
- A save that straddles a flush has its actor in one window and its
  modification in the next; if nobody is active in that one it is skipped, and
  no contribution is published. `EventsExact` is per window.
- After an upsert that was applied but reported as failed, commitMapping deletes
  the file that the mapping now names. The next request finds the file missing
  and renders again; `NoStrandedPreview` allows the mapping to move on because
  the old file is gone.
  The comment above commitMapping ("no mapping row ever referenced previewID",
  `preview_service.go:279`) does not hold in that case.
- Two replicas that render one source at once may leave the mapping ahead of the
  pixels (the older pixels written last, the newer date committed last), and
  may create a preview file each, one of which nobody refers to. The 200s served
  meanwhile can carry older pixels than their ETag says. `MappingNotAhead`,
  `ServedFresh` and `NoStrandedPreview` hold for sources without such an overlap
  and again from the next job that runs alone. (`ServedFresh` for up to two
  replicas: see section 4.)
- What the current window holds when the signal comes is lost, and so is an
  event whose connection breaks behind a publish that returned nil: there are no
  publisher confirms. `AtMostOnce` and `ActivityFlushed` are what best effort
  (FR-006) leaves.
- Two renames over two connections may be announced in either order;
  `RenamesInOrder` is about one connection.
- A write check that fails, also because the breaker opened between the two
  checks, gives a read-only token for its whole lifetime (`WriteNeedsGrant` is
  one direction only), and a breaker refusal is answered 500. A caller that
  goes away during a check counts as a failure for the breaker.
- A token whose insert was applied but not acknowledged has no owner and stays
  until the sweep; `RefusalLeavesNoRow` is about refusals.

**Bounds.** Locks: two requests and two IDs make every race between a find and
a write; `LockDuration` 2, `MaxLockLifetime` 2 and four ticks allow a grant, an
expiry, a lock over the expired row and its takeover. The serial run has three
IDs and six ticks. Previews: two versions make a save race a render; two
replicas and two preview IDs make an overlap and a file for each, or a
re-creation; one request slot still has jobs overlap, because a request may be
abandoned and its job runs on while the next request reads, joins it or starts
one in the other replica. With one source a replica has one job at a
time, and with one slot one waiter: a second waiter on the same job, jobs that
queue for a render permit and a full admission are in the proofs
(`NobodyIsForgotten`, `PermitsAreAccounted`), which hold for any number of
requests, sources and permits. Process: two renames on two documents and the
flusher make three callers of the publisher; two dials and one fault allow a reconnection in front of, in
the middle of and behind every call. Discovery: two rotations make a cache two behind, which is
the first rejected; two callers make the late overwrite. Contribution: two
flushes and two documents make a save straddle a flush and a publish fail
midway. Tokens: two requests and a threshold of two trip the breaker and meet
in its half-open state, which lets one through; a lifetime of one and two ticks
have a token valid, at its last instant, expired and swept. Reachability: two outages, two
probes, and a count of records that goes one past the bound. `VIEW` leaves out only variables
that no guard and no assignment to another variable reads (replies and the last
event). Symmetry is used only in runs without liveness properties.

**Fairness.** Only what has a deadline in the code is assumed to go on.
Previews: no liveness is checked. `NoWaiterForgotten` is the safety half of "every
waiter is answered"; the other half, that a job ends, rests on its context, which
ends after `RenderTimeout`. Reachability: the orchestrator polls `/health`
for ever and a probe ends in two seconds. Discovery: calls that began end
(30-second client timeout) and time passes (`ServiceSpec`); `BusySpec` adds
users who keep opening documents, which the liveness run needs and the
violated run deliberately does not assume. Tokens: the clients of
file-service, of the authorization service over HTTP and of Collabora have
timeouts (30, 10 and 30 seconds), so every step of an issuance but the insert is
taken; the insert and a check over NATS run under the request's context, which has
no deadline, so `IssuanceDecided` ends at the insert and is about the HTTP adapter.
Nothing is assumed of the breaker's timer, the sweep or time. Process: a dial and
a publish end by the timeouts of the AMQP client, the ticker fires, a `sync.Mutex`
starves nobody; that a query ends rests on the database answering or dropping the
connection, since its context has no deadline, and `EventuallyExits` rests on
that, because Pool.Close waits for queries. Nothing is assumed of the broker, of
faults or of the signal.

## 4. Proofs

`WopiLocks_proofs` proves, for any sets of lock IDs and requests, any positive
`LockDuration` and any `MaxLockLifetime`, every property of the overlap run:
`TypeCorrect`, `SnapshotsStayCurrent`, `StealsAreOverlaps`,
`ForeignWritesAreOverlaps`, `TakeoversAreOverAge`, `ExpiryIsBounded`,
`DeadLocksStayDead` and `ConflictsNameTheHolder`. The assumptions are those of
`WopiLocks`: the empty ID is no lock ID, the durations are numbers.

The properties are not inductive, because what a commit step does rests on what
the request learnt earlier. The inductive invariant `IInv` adds `Bookkeeping`
(what a request at each step has already checked, e.g. that a takeover's
snapshot was over age at its clock sample) to `TypeOK`, `ExpiryBounded` and
`SnapshotCurrent` (an un-overtaken request's snapshot still describes a live
lock). `SnapshotCurrent` survives because the only statements that put another
ID or another `created_at` into the row are the upsert, the relock and the
takeover, each of which marks every request past its find as overtaken, and
because a refresh needs a live row: an expired snapshot cannot come back to
life. The proof goes action by action through `AdvanceEffect`, which says what
a step can do to its own request and that it touches no other.

`LockLease_proofs` proves `LeaseIsSound`: in the abstract lock, for any sessions,
durations and lifetimes, only the holder counts on the lock and its grant
outlasts what it counts on. The inductive invariant `LeaseInv` adds that times
are numbers; each way to grant the lock goes through `GrantKeepsLease`, which
needs that nobody else counts on the lock, and that is what the guards of
Acquire, Renew, Transfer and Evict provide.

**One request at a time.** The last part of `WopiLocks_proofs` assumes `Serial`
(`Requests` has at most one element: requests may still stop, fail, lose their
reply, and be overtaken by the clock and the sweep at every step) and proves
`HolderKeepsItsLock`, `SerialExclusion` and `ServiceImplementsLease`, the
refinement of LockLease. Beside `IInv` it needs `SInv`: nobody is overtaken;
whoever counts on the lock holds it for at least as long (`LeaseHeld`, which is
`HolderKeepsLock` with the expiry, without which a refresh that shortened the row
would go unnoticed); and `Settled`: the expiry about to be written is no earlier
than the row's, because the clock was read after the row was last written, and
the session that unlocks or relocks has stopped counting on the lock. There is
one lemma per statement (`RefreshLease`, `RelockLease`, `DeleteLease`,
`TakeoverLease`, `CreateLease`, `ArriveLease`, `SweepLease`, `TickLease`), each
showing which action of LockLease it is. A statement on a row that has expired in
the meantime is none: a DELETE then removes what nobody could see, and an upsert
or takeover whose clock sample is LockDuration old stores a row that is dead on
arrival. Together with `LeaseIsSound` this is the mutual exclusion that sessions
get from the service; `SerialExclusion` states it directly, so the violation that
WopiLocks_create_race exhibits is due to overlaps alone.

**The other components**, each for every value of its constants:

- `Preview_proofs` (any replicas, sources, files, requests, capacities):
  `TypeCorrect`, `PermitsAreAccounted`, `NobodyIsForgotten`, `MappingIsNotAhead`,
  `NothingIsStranded`. `Typed` holds the types with the counts of the permit
  holders, which are finitely many at any time although the set of sources is
  arbitrary. `NoWaiterForgotten` is inductive over it: a request starts to wait
  with the job it starts or joins, and a step ends a job only together with
  everybody's wait for it. The mapping takes `Sound` in addition: a job marked alone has no rival, and without a recorded
  overlap every job is alone; a preview file is referred to by one source only
  (`FilesOwned`), so that jobs on other sources cannot disturb it; a job writes
  the mapped file unless that has no row; and a job's date is at most its pixels
  and at most the source's version (`PixelsOK`). The mapping is not ahead because
  the date is read before the content and stored after it, and that takes all of
  these facts: a job alone still knows, at its write and at its commit, the entry
  it read at its start.
- `Process_proofs`: `TypeCorrect`, `NoConnectionLeaks` and `ExitIsClean` rest on
  `LifeInv` (whoever is past `p.mu.Lock` holds the mutex, and the connection is
  forgotten exactly while another is set up; a closed publisher stays without
  one; main closes it before it returns); `RenamesAtMostOnce` and
  `RenamesKeepOrder` on `TransitInv` in addition: a rename on its way is in one
  place, the queue or the wire of one connection, and what a connection still
  carries follows what it has delivered.
- `Tokens_proofs`: `TypeCorrect`, `WritesAreGranted` (content and name, not
  locks), `PromisesAreKept`, `RefusalsLeaveNoRow`, `OutagesNeverDeny`. `Sound` says that a token being
  issued is its request's own and known to nobody, that a row carries the expiry
  its owner was told and is missing only after it, and that a call acts on such a
  row although the table may have lost it since.
- `ContributionWindow_proofs`: `TypeCorrect`, `WindowsAreCounted`,
  `NoActivityIsLost`, `EventsAreExact`. `Exact` says that `c.docs` holds the
  current window and the snapshot the flushed one, completely and nothing else.
- `Discovery_proofs`: `TypeCorrect`, `LookupsFindData`, `RotationTolerance`. The
  lookup is a step after GetDiscovery, so `ServedFromCache` is needed: a caller
  is served only while there are data, and nothing empties the cache.
- `Reachability_proofs`: `RecordsDoAlternate`, and `LossesAreBounded` for
  finitely many probes. `OutageBudget` counts, within an outage, the records so
  far, the successes still to be applied, and one more for a state that is up,
  unless every probe holds such a success: then none can fail before one of them
  is used up.

The assumptions are the `ASSUME`s of the model modules, evaluated by TLC in every
run, and the hypotheses in the statements: `Serial`, and `IsFiniteSet(Probes)`.

**Only model-checked:**

- `ServedFresh`. That a 200's pixels are as new as its ETag is a matter of the
  entry that a request holds while jobs go on, and it depends on the number of
  replicas. With three it fails: replica A has created a file for a source
  without a mapping and not yet committed it; B creates and commits another file
  and, after a save, refreshes it, and a request reads that entry; C, slow, now
  writes the older pixels to B's file; A commits its own file; and a later job,
  alone, refreshes A's file, which ends the recorded overlap, before the request
  reads B's file. The manifests have one replica, and two during a rollout; the
  run has two, and one request slot, so that no job starts while that
  request is between its mapping lookup and its read.
- The liveness properties `OutageNoticed`, `EventuallyCurrent`,
  `IssuanceDecided`, `EventuallyExits` and `ActivityFlushed`: fairness and
  `ENABLED` are out of the prover's reach.

## 5. Not modelled

- The no-op publisher (no broker configured): it accepts and drops everything.
- A NATS or database call that never returns, other than as a step that is not
  taken.
- LockStatus and the remaining health checks: they only read.
- A file-service write that takes effect after its caller has given up on it; a
  write takes effect before its call ends, or not at all.
- Editor URL building, MIME tables, the fields of FileInfo, RSA and payload
  bytes, configuration, migrations, logging: data formats, constants and output.
- Clock skew between replicas and the database.
- Generated SQL bindings: the models follow `queries/*.sql`.
- Previews as further callers of the circuit breaker: they would only add
  callers to the ones that Tokens has.

## 6. Plan

Order: locks (the service's reason to exist), previews, discovery and proof,
tokens and authorization, reachability, contribution, publisher and process,
the abstract lock: all present. Of the safety properties that the runs check,
all but `ServedFresh` are proved. Next:

1. `ServedFresh` under the hypothesis of at most two replicas, for any number of
   requests: an invariant about the entries that requests hold, which must say
   that a replica about to commit a file of its own leaves the other one as the
   only writer of the mapped file.
2. A skew parameter between the service's and the database's clock in
   `WopiLocks`.
