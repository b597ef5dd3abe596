------------------------------ MODULE Preview ------------------------------
(***************************************************************************)
(* Document previews: PreviewService.Resolve, the single-flight render job *)
(* behind it and its admission control (preview_service.go), the mapping   *)
(* table document_preview_cache, and the file-service calls it makes       *)
(* (adapter/outbound/fileservice/file_client.go).                          *)
(*                                                                         *)
(* A source document is its version: file-service stamps every save with a *)
(* later updatedDate, so the date, the ETag derived from it and the pixels *)
(* rendered from the content are all represented by the version they       *)
(* belong to. A replica runs at most one job per source (single-flight);   *)
(* replicas share the database and file-service and nothing else. There is *)
(* one replica in the manifests, and two while a rollout replaces it. Each *)
(* step of a request or of a job is one call to the database, to           *)
(* file-service or to a semaphore.                                         *)
(*                                                                         *)
(* An operator whose name starts with Broken is a plausible bug of the     *)
(* operator it precedes. The specification does not use it: the properties *)
(* are shown to notice it when it takes that operator's place.             *)
(***************************************************************************)
EXTENDS Integers, FiniteSets

CONSTANTS
    Replicas,         \* processes of the service
    Sources,          \* source documents
    PreviewIDs,       \* IDs file-service may give to preview files
    NoFile,           \* the empty preview file ID
    Requests,         \* request slots
    NoSource,         \* the source of an idle request slot
    Nowhere,          \* the replica of a request that does not wait
    maxActiveRenders, \* concurrent renders
    waitingCapacity,  \* jobs that may wait for a render
    MaxVersion        \* bound on the versions of a source

ASSUME NoFileAssumption == NoFile \notin PreviewIDs
ASSUME NoSourceAssumption == NoSource \notin Sources
ASSUME NowhereAssumption == Nowhere \notin Replicas
ASSUME CapacityAssumption == maxActiveRenders \in Nat \ {0} /\ waitingCapacity \in Nat
ASSUME MaxVersionAssumption == MaxVersion \in Nat \ {0}

VARIABLES
    version,    \* file-service: the version of each source
    deleted,    \* file-service: the sources that no longer exist
    rows,       \* file-service: the preview files that exist
    content,    \* file-service: the pixels each preview file stores, 0 if lost
    used,       \* file-service: IDs given out so far, never given again
    mapping,    \* the table document_preview_cache, one entry per source
    slots,      \* permits taken of each replica's combined admission semaphore
    active,     \* permits taken of each replica's render semaphore
    job,        \* the single-flight job of each source in each replica
    pc,         \* the next step of each request
    source,     \* the source it asks for
    seen,       \* the source date it observed
    entry,      \* the mapping entry it is about to read
    flight,     \* the replica whose job it waits for, Nowhere otherwise
    resp,       \* its reply
    \* History, read by the properties and by no guard:
    contended   \* sources on which jobs of two replicas overlapped, until a
                \* job that overlapped with none has committed

files   == <<version, deleted, rows, content, used>>
permits == <<slots, active>>
client  == <<pc, source, seen, entry, flight, resp>>
store   == <<mapping, contended>>
vars    == <<files, store, permits, job, client>>

----------------------------------------------------------------------------

Versions == 0..MaxVersion
Entry    == [file : PreviewIDs \cup {NoFile}, date : Versions]
NoEntry  == [file |-> NoFile, date |-> 0]

JobSteps == {"none", "admit", "queue", "lookup", "target", "recheck", "meta",
             "read", "render", "write", "create", "commit", "cleanup"}

\* mapped: the entry that the job read; date: the source date of its lookup;
\* file: the preview file that it writes; fresh: it created that file; alone
\* (history): no other replica's job on the source overlapped with it.
Job   == [pc : JobSteps, mapped : Entry, date : Versions, pixels : Versions,
          file : PreviewIDs \cup {NoFile}, fresh : BOOLEAN, alone : BOOLEAN]
NoJob == [pc |-> "none", mapped |-> NoEntry, date |-> 0, pixels |-> 0,
          file |-> NoFile, fresh |-> FALSE, alone |-> FALSE]

RequestSteps == {"idle", "mapping", "cached", "miss", "wait", "committed"}
Statuses     == {"none", "200", "304", "403", "404", "422", "500", "502", "503"}
Reply        == [status : Statuses, etag : Versions, pixels : Versions]
NoReply      == [status |-> "none", etag |-> 0, pixels |-> 0]

HoldsSlot   == JobSteps \ {"none", "admit"}
HoldsActive == HoldsSlot \ {"queue"}
Working     == HoldsActive \ {"lookup"}

\* file-service answers a content GET: the row exists and so do its bytes.
Readable(f) == f \in rows /\ content[f] > 0

Waiters(p, s) == {r \in Requests : flight[r] = p /\ source[r] = s}

\* The other replicas that are at work on the source.
Rivals(p, s) == {q \in Replicas \ {p} : job[q][s].pc \in Working}

----------------------------------------------------------------------------
(* Requests: Resolve up to the cache miss. *)

Answer(r, status, etag, pixels) ==
    /\ pc' = [pc EXCEPT ![r] = "idle"]
    /\ source' = [source EXCEPT ![r] = NoSource]
    /\ seen' = [seen EXCEPT ![r] = 0]
    /\ entry' = [entry EXCEPT ![r] = NoEntry]
    /\ flight' = [flight EXCEPT ![r] = Nowhere]
    /\ resp' = [resp EXCEPT ![r] = [status |-> status, etag |-> etag, pixels |-> pixels]]

\* Lookup, authorization and format check. ifNoneMatch is the version whose
\* ETag the caller sent, 0 for none. Denial, an unsupported format and a
\* failed call do not depend on anything modelled here.
Resolve(r, s, ifNoneMatch) ==
    /\ pc[r] = "idle"
    /\ \/ \E status \in {"403", "422", "500"} : Answer(r, status, 0, 0)
       \/ s \in deleted /\ Answer(r, "404", 0, 0)
       \/ s \notin deleted /\ ifNoneMatch = version[s] /\ Answer(r, "304", version[s], 0)
       \/ /\ s \notin deleted /\ ifNoneMatch # version[s]
          /\ pc' = [pc EXCEPT ![r] = "mapping"]
          /\ source' = [source EXCEPT ![r] = s]
          /\ seen' = [seen EXCEPT ![r] = version[s]]
          /\ resp' = [resp EXCEPT ![r] = NoReply]
          /\ UNCHANGED <<entry, flight>>
    /\ UNCHANGED <<files, store, permits, job>>

\* currentMapping: the entry counts only for the date the request observed.
LookupMapping(r) ==
    /\ pc[r] = "mapping"
    /\ LET found == mapping[source[r]]
           hit   == found # NoEntry /\ found.date = seen[r]
       IN  /\ pc' = [pc EXCEPT ![r] = IF hit THEN "cached" ELSE "miss"]
           /\ entry' = [entry EXCEPT ![r] = IF hit THEN found ELSE NoEntry]
    /\ UNCHANGED <<files, store, permits, job, source, seen, flight, resp>>

\* A preview file that is gone is a miss; any other error is a failure.
ReadCached(r) ==
    /\ pc[r] = "cached"
    /\ IF Readable(entry[r].file)
       THEN Answer(r, "200", seen[r], content[entry[r].file])
       ELSE /\ pc' = [pc EXCEPT ![r] = "miss"]
            /\ entry' = [entry EXCEPT ![r] = NoEntry]
            /\ UNCHANGED <<source, seen, flight, resp>>
    /\ UNCHANGED <<files, store, permits, job>>

\* resolveMiss: flight.DoChan starts a job or joins the one that runs.
JoinFlight(r, p) ==
    /\ pc[r] = "miss"
    /\ pc' = [pc EXCEPT ![r] = "wait"]
    /\ flight' = [flight EXCEPT ![r] = p]
    /\ job' = IF job[p][source[r]].pc = "none"
              THEN [job EXCEPT ![p][source[r]].pc = "admit"]
              ELSE job
    /\ UNCHANGED <<files, store, permits, source, seen, entry, resp>>

ReadCommitted(r) ==
    /\ pc[r] = "committed"
    /\ IF Readable(entry[r].file)
       THEN Answer(r, "200", entry[r].date, content[entry[r].file])
       ELSE Answer(r, "500", 0, 0)
    /\ UNCHANGED <<files, store, permits, job>>

\* A call of the request fails, or its caller goes away (ctx.Done), also
\* while it waits for the shared job, which runs on.
Abandon(r) ==
    /\ pc[r] # "idle"
    /\ Answer(r, "500", 0, 0)
    /\ UNCHANGED <<files, store, permits, job>>

----------------------------------------------------------------------------
(* The end of a job: single-flight hands the result to every waiter. *)

\* Whatever the job rendered is good enough.
BrokenStale(found, r) == FALSE

\* A result older than what the request saw is ErrStaleSharedRender.
Stale(found, r) == found.date < seen[r]

\* A failed job does not report to its waiters.
BrokenDeliver(served, answered) ==
    /\ pc' = [r \in Requests |-> IF r \in served THEN "committed" ELSE pc[r]]
    /\ flight' = [r \in Requests |-> IF r \in served THEN Nowhere ELSE flight[r]]
    /\ UNCHANGED source

Deliver(served, answered) ==
    /\ pc' = [r \in Requests |-> CASE r \in served   -> "committed"
                                   [] r \in answered -> "idle"
                                   [] OTHER          -> pc[r]]
    /\ source' = [r \in Requests |-> IF r \in answered THEN NoSource ELSE source[r]]
    /\ flight' = [r \in Requests |->
                    IF r \in served \cup answered THEN Nowhere ELSE flight[r]]

\* The render permit is released although the wait for it failed.
BrokenActiveRelease(p, s) ==
    /\ slots' = IF job[p][s].pc \in HoldsSlot THEN [slots EXCEPT ![p] = @ - 1]
                ELSE slots
    /\ active' = IF job[p][s].pc \in HoldsSlot THEN [active EXCEPT ![p] = @ - 1]
                 ELSE active

\* A job that times out in the queue keeps its slot.
BrokenSlotRelease(p, s) ==
    /\ slots' = IF job[p][s].pc \in HoldsActive THEN [slots EXCEPT ![p] = @ - 1]
                ELSE slots
    /\ active' = IF job[p][s].pc \in HoldsActive THEN [active EXCEPT ![p] = @ - 1]
                 ELSE active

\* The deferred releases: whatever the job held.
Release(p, s) ==
    /\ slots' = IF job[p][s].pc \in HoldsSlot THEN [slots EXCEPT ![p] = @ - 1]
                ELSE slots
    /\ active' = IF job[p][s].pc \in HoldsActive THEN [active EXCEPT ![p] = @ - 1]
                 ELSE active

Succeed(p, s, found) ==
    LET served   == {r \in Waiters(p, s) : ~Stale(found, r)}
        answered == Waiters(p, s) \ served
    IN  /\ Deliver(served, answered)
        /\ seen' = [r \in Requests |-> IF r \in answered THEN 0 ELSE seen[r]]
        /\ entry' = [r \in Requests |-> IF r \in served THEN found ELSE entry[r]]
        /\ resp' = [r \in Requests |->
                      IF r \in answered
                      THEN [status |-> "503", etag |-> 0, pixels |-> 0]
                      ELSE resp[r]]
        /\ Release(p, s)
        /\ job' = [job EXCEPT ![p][s] = NoJob]

GiveUp(p, s, status) ==
    /\ Deliver({}, Waiters(p, s))
    /\ seen' = [r \in Requests |-> IF r \in Waiters(p, s) THEN 0 ELSE seen[r]]
    /\ resp' = [r \in Requests |->
                  IF r \in Waiters(p, s)
                  THEN [status |-> status, etag |-> 0, pixels |-> 0]
                  ELSE resp[r]]
    /\ Release(p, s)
    /\ job' = [job EXCEPT ![p][s] = NoJob]
    /\ UNCHANGED entry

----------------------------------------------------------------------------
(* renderAndStore. *)

Admit(p, s) ==
    /\ job[p][s].pc = "admit"
    /\ IF slots[p] < maxActiveRenders + waitingCapacity
       THEN /\ slots' = [slots EXCEPT ![p] = @ + 1]
            /\ job' = [job EXCEPT ![p][s].pc = "queue"]
            /\ UNCHANGED <<active, client>>
       ELSE GiveUp(p, s, "503")
    /\ UNCHANGED <<files, store>>

Activate(p, s) ==
    /\ job[p][s].pc = "queue"
    /\ active[p] < maxActiveRenders
    /\ active' = [active EXCEPT ![p] = @ + 1]
    /\ job' = [job EXCEPT ![p][s].pc = "lookup"]
    /\ UNCHANGED <<files, store, slots, client>>

\* RenderTimeout passes while the job waits for a render permit.
QueueTimeout(p, s) ==
    /\ job[p][s].pc = "queue"
    /\ GiveUp(p, s, "503")
    /\ UNCHANGED <<files, store>>

\* The date is read before the content that is rendered.
LookupSource(p, s) ==
    /\ job[p][s].pc = "lookup"
    /\ IF s \in deleted
       THEN GiveUp(p, s, "404") /\ UNCHANGED contended
       ELSE /\ job' = [q \in Replicas |->
                CASE q = p ->
                        [job[p] EXCEPT ![s].pc = "target", ![s].date = version[s],
                                       ![s].alone = (Rivals(p, s) = {})]
                  [] q \in Rivals(p, s) -> [job[q] EXCEPT ![s].alone = FALSE]
                  [] OTHER -> job[q]]
            /\ contended' = IF Rivals(p, s) = {} THEN contended ELSE contended \cup {s}
            /\ UNCHANGED <<permits, client>>
    /\ UNCHANGED <<files, mapping>>

\* writeTarget: the mapping decides between reuse, refresh and create.
FindTarget(p, s) ==
    /\ job[p][s].pc = "target"
    /\ LET found == mapping[s]
           next  == CASE found = NoEntry             -> "read"
                      [] found.date = job[p][s].date -> "recheck"
                      [] OTHER                       -> "meta"
       IN  job' = [job EXCEPT ![p][s].pc = next, ![p][s].mapped = found]
    /\ UNCHANGED <<files, store, permits, client>>

Recheck(p, s) ==
    /\ job[p][s].pc = "recheck"
    /\ IF Readable(job[p][s].mapped.file)
       THEN Succeed(p, s, job[p][s].mapped)
       ELSE /\ job' = [job EXCEPT ![p][s].pc = "meta"]
            /\ UNCHANGED <<permits, client>>
    /\ UNCHANGED <<files, store>>

\* Missing content is taken for a missing row.
BrokenRowExists(f) == Readable(f)

\* The metadata lookup: nil on a 404.
RowExists(f) == f \in rows

\* Missing content is not a missing row: the row decides PUT or POST.
LookupMeta(p, s) ==
    /\ job[p][s].pc = "meta"
    /\ LET f == job[p][s].mapped.file
       IN  job' = [job EXCEPT ![p][s].pc = "read",
                              ![p][s].file = IF RowExists(f) THEN f ELSE NoFile]
    /\ UNCHANGED <<files, store, permits, client>>

\* The source content is opened: what it is now is what gets rendered.
ReadSource(p, s) ==
    /\ job[p][s].pc = "read"
    /\ s \notin deleted
    /\ job' = [job EXCEPT ![p][s].pc = "render", ![p][s].pixels = version[s]]
    /\ UNCHANGED <<files, store, permits, client>>

\* Collabora renders it to a PNG; anything else is a failure of the job.
Render(p, s) ==
    /\ job[p][s].pc = "render"
    /\ job' = [job EXCEPT ![p][s].pc = IF job[p][s].file = NoFile THEN "create" ELSE "write"]
    /\ UNCHANGED <<files, store, permits, client>>

\* Replaces the preview file's content; the row may have been deleted, and
\* the answer may be lost after the content was replaced.
WriteFile(p, s) ==
    /\ job[p][s].pc = "write"
    /\ job[p][s].file \in rows
    /\ content' = [content EXCEPT ![job[p][s].file] = job[p][s].pixels]
    /\ \/ job' = [job EXCEPT ![p][s].pc = "commit"] /\ UNCHANGED <<permits, client>>
       \/ GiveUp(p, s, "502")
    /\ UNCHANGED <<version, deleted, rows, used, store>>

\* A new preview file; the answer may be lost, which orphans it.
CreatePreviewFile(p, s) ==
    /\ job[p][s].pc = "create"
    /\ \E f \in PreviewIDs \ used :
        /\ rows' = rows \cup {f}
        /\ used' = used \cup {f}
        /\ content' = [content EXCEPT ![f] = job[p][s].pixels]
        /\ \/ /\ job' = [job EXCEPT ![p][s].pc = "commit", ![p][s].file = f, ![p][s].fresh = TRUE]
              /\ UNCHANGED <<permits, client>>
           \/ GiveUp(p, s, "502")
    /\ UNCHANGED <<version, deleted, store>>

\* The date of the commit is looked up again.
BrokenCommitted(p, s) == [file |-> job[p][s].file, date |-> version[s]]

\* The entry that commitRefresh and commitMapping store.
Committed(p, s) == [file |-> job[p][s].file, date |-> job[p][s].date]

Upsert(p, s) ==
    /\ job[p][s].pc = "commit"
    /\ mapping' = [mapping EXCEPT ![s] = Committed(p, s)]
    /\ contended' = IF job[p][s].alone THEN contended \ {s} ELSE contended
    /\ Succeed(p, s, Committed(p, s))
    /\ UNCHANGED files

\* The upsert fails, before or after the database applied it. Only a file
\* that this job created is deleted.
UpsertFails(p, s) ==
    /\ job[p][s].pc = "commit"
    /\ mapping' \in {mapping, [mapping EXCEPT ![s] = Committed(p, s)]}
    /\ IF job[p][s].fresh
       THEN job' = [job EXCEPT ![p][s].pc = "cleanup"] /\ UNCHANGED <<permits, client>>
       ELSE GiveUp(p, s, "502")
    /\ UNCHANGED <<files, contended>>

\* DeletePreviewFile is best effort: a failure leaves the file behind.
DeletePreviewFile(p, s) ==
    /\ job[p][s].pc = "cleanup"
    /\ rows' \in {rows, rows \ {job[p][s].file}}
    /\ GiveUp(p, s, "502")
    /\ UNCHANGED <<version, deleted, content, used, store>>

\* A call of the job fails without effect, or RenderTimeout cancels it.
JobFails(p, s) ==
    /\ job[p][s].pc \in {"lookup", "target", "recheck", "meta",
                         "read", "render", "write", "create"}
    /\ GiveUp(p, s, IF job[p][s].pc \in {"lookup", "target"} THEN "500" ELSE "502")
    /\ UNCHANGED <<files, store>>

\* The replica dies: its jobs end where they are, without their cleanup, and
\* so do its permits and the requests that wait in it. It starts afresh.
Crash(p) ==
    /\ \E s \in Sources : job[p][s] # NoJob
    /\ job' = [job EXCEPT ![p] = [s \in Sources |-> NoJob]]
    /\ slots' = [slots EXCEPT ![p] = 0]
    /\ active' = [active EXCEPT ![p] = 0]
    /\ LET cut == {r \in Requests : flight[r] = p}
       IN  /\ Deliver({}, cut)
           /\ seen' = [r \in Requests |-> IF r \in cut THEN 0 ELSE seen[r]]
           /\ resp' = [r \in Requests |->
                         IF r \in cut
                         THEN [status |-> "500", etag |-> 0, pixels |-> 0]
                         ELSE resp[r]]
    /\ UNCHANGED <<files, store, entry>>

----------------------------------------------------------------------------
(* file-service and its other users. *)

SaveSource(s) ==
    /\ s \notin deleted
    /\ version[s] < MaxVersion
    /\ version' = [version EXCEPT ![s] = @ + 1]
    /\ UNCHANGED <<deleted, rows, content, used, store, permits, job, client>>

DeleteSource(s) ==
    /\ s \notin deleted
    /\ deleted' = deleted \cup {s}
    /\ UNCHANGED <<version, rows, content, used, store, permits, job, client>>

\* A preview file loses its bytes, or its row.
LosePreview(f) ==
    /\ f \in rows
    /\ \/ content[f] > 0 /\ content' = [content EXCEPT ![f] = 0] /\ UNCHANGED rows
       \/ rows' = rows \ {f} /\ UNCHANGED content
    /\ UNCHANGED <<version, deleted, used, store, permits, job, client>>

----------------------------------------------------------------------------

Init ==
    /\ version = [s \in Sources |-> 1]
    /\ deleted = {}
    /\ rows = {}
    /\ content = [f \in PreviewIDs |-> 0]
    /\ used = {}
    /\ mapping = [s \in Sources |-> NoEntry]
    /\ slots = [p \in Replicas |-> 0]
    /\ active = [p \in Replicas |-> 0]
    /\ job = [p \in Replicas |-> [s \in Sources |-> NoJob]]
    /\ pc = [r \in Requests |-> "idle"]
    /\ source = [r \in Requests |-> NoSource]
    /\ seen = [r \in Requests |-> 0]
    /\ entry = [r \in Requests |-> NoEntry]
    /\ flight = [r \in Requests |-> Nowhere]
    /\ resp = [r \in Requests |-> NoReply]
    /\ contended = {}

RequestStep(r) ==
    \/ LookupMapping(r)
    \/ ReadCached(r)
    \/ \E p \in Replicas : JoinFlight(r, p)
    \/ ReadCommitted(r)

JobStep(p, s) ==
    \/ Admit(p, s)
    \/ Activate(p, s)
    \/ QueueTimeout(p, s)
    \/ LookupSource(p, s)
    \/ FindTarget(p, s)
    \/ Recheck(p, s)
    \/ LookupMeta(p, s)
    \/ ReadSource(p, s)
    \/ Render(p, s)
    \/ WriteFile(p, s)
    \/ CreatePreviewFile(p, s)
    \/ Upsert(p, s)
    \/ UpsertFails(p, s)
    \/ DeletePreviewFile(p, s)
    \/ JobFails(p, s)

Environment ==
    \/ \E s \in Sources : SaveSource(s) \/ DeleteSource(s)
    \/ \E f \in PreviewIDs : LosePreview(f)

Next ==
    \/ \E r \in Requests, s \in Sources, inm \in Versions : Resolve(r, s, inm)
    \/ \E r \in Requests : RequestStep(r) \/ Abandon(r)
    \/ \E p \in Replicas, s \in Sources : JobStep(p, s)
    \/ \E p \in Replicas : Crash(p)
    \/ Environment

Spec == Init /\ [][Next]_vars

----------------------------------------------------------------------------

\* Every variable has its type.
TypeOK ==
    /\ version \in [Sources -> Versions]
    /\ deleted \subseteq Sources
    /\ rows \subseteq used
    /\ used \subseteq PreviewIDs
    /\ content \in [PreviewIDs -> Versions]
    /\ mapping \in [Sources -> Entry]
    /\ slots \in [Replicas -> Nat] /\ active \in [Replicas -> Nat]
    /\ job \in [Replicas -> [Sources -> Job]]
    /\ pc \in [Requests -> RequestSteps]
    /\ source \in [Requests -> Sources \cup {NoSource}]
    /\ seen \in [Requests -> Versions]
    /\ entry \in [Requests -> Entry]
    /\ flight \in [Requests -> Replicas \cup {Nowhere}]
    /\ \A r \in Requests : flight[r] # Nowhere <=> pc[r] = "wait"
    /\ resp \in [Requests -> Reply]
    /\ contended \subseteq Sources

\* The mapping never claims pixels newer than the preview file stores: the
\* date is read before the content, and the content is written before the
\* date, so a failure or a crash between any two steps leaves the date behind.
\* Jobs of two replicas may break this when they overlap; the next job that
\* runs alone repairs it.
MappingNotAhead ==
    \A s \in Sources \ contended :
        Readable(mapping[s].file) => content[mapping[s].file] >= mapping[s].date

\* A 200 carries pixels at least as new as its ETag says, unless replicas
\* contended for the source, and in any case an ETag at least as new as the
\* source date that the request observed, however many saves, refreshes and
\* failed jobs came between. Holds for one or two replicas, as deployed.
ServedFresh ==
    [][\A r \in Requests :
        pc[r] # "idle" /\ pc'[r] = "idle" /\ resp'[r].status = "200" =>
            /\ source[r] \notin contended => resp'[r].pixels >= resp'[r].etag
            /\ resp'[r].etag >= seen[r]]_vars

\* The semaphores count exactly the jobs that hold a permit, on every exit
\* path of renderAndStore, and stay within their capacities.
PermitsAccounted ==
    \A p \in Replicas :
        /\ slots[p] = Cardinality({s \in Sources : job[p][s].pc \in HoldsSlot})
        /\ active[p] = Cardinality({s \in Sources : job[p][s].pc \in HoldsActive})
        /\ slots[p] <= maxActiveRenders + waitingCapacity
        /\ active[p] <= maxActiveRenders

\* The mapping moves to another preview file only when the old one no longer
\* exists: a refresh never strands the row that the mapping points at, unless
\* two replicas created one each.
NoStrandedPreview ==
    [][\A s \in Sources \ contended :
        mapping'[s].file # mapping[s].file => mapping[s].file \notin rows]_vars

\* Whoever waits for a shared render waits for a job that still runs: a job that
\* fails, times out, is refused or dies with its replica leaves no waiter behind,
\* whenever the waiter joined it and whoever started it. Since a job's context
\* ends after RenderTimeout, every waiter gets an answer.
NoWaiterForgotten ==
    \A r \in Requests : pc[r] = "wait" => job[flight[r]][source[r]].pc # "none"
=============================================================================
