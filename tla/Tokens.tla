------------------------------- MODULE Tokens -------------------------------
(***************************************************************************)
(* WOPI access tokens: TokenService.IssueToken behind POST /wopi/token,    *)
(* the privilege checks it makes through the circuit breaker               *)
(* (authbreaker) and the authorization adapter with its retries            *)
(* (authhttp; with maxRetries = 1 its steps are those of nats, which has   *)
(* no timeout), the table access_tokens, its sweep, TokenAuthMiddleware,   *)
(* which admits a WOPI call by its token, and the handlers behind it. What *)
(* they do to the lock and to the queue is in WopiLocks and Process.       *)
(*                                                                         *)
(* A step is one remote call or one time.Now(). The breaker is the library *)
(* sony/gobreaker: its mutex makes each of its two bookkeeping calls       *)
(* atomic, and the call it guards runs between them. A generation of the   *)
(* breaker is represented by the requests that were let through in it: a   *)
(* result of an older generation is ignored.                               *)
(*                                                                         *)
(* An operator whose name starts with Broken is a plausible bug of the     *)
(* operator it precedes. The specification does not use it: the properties *)
(* are shown to notice it when it takes that operator's place.             *)
(***************************************************************************)
EXTENDS Integers, FiniteSets

CONSTANTS
    Requests,          \* token requests under way at once
    Calls,             \* WOPI calls under way at once
    TokenIDs,          \* random token values, never drawn twice
    NoToken,           \* no token
    FailureThreshold,  \* consecutive failures that open the breaker
    HalfOpenMax,       \* calls let through, and successes needed, when half open
    maxRetries,        \* attempts of one CheckPrivilege
    TokenTTL,          \* defaultTokenTTL
    MaxTime            \* bound on the clock

ASSUME TokensAssumption == NoToken \notin TokenIDs
ASSUME BreakerAssumption ==
    FailureThreshold \in Nat \ {0} /\ HalfOpenMax \in Nat \ {0} /\ maxRetries \in Nat \ {0}
ASSUME TimeAssumption == TokenTTL \in Nat /\ MaxTime \in Nat

VARIABLES
    now,       \* the clock of the service and of the database
    rows,      \* the table access_tokens: each token's row, or NoRow
    drawn,     \* token values generated so far
    breaker,   \* the circuit breaker: state and counts
    admitted,  \* the requests let through in the breaker's generation
    request,   \* the local variables of each token request
    status,    \* the last reply to each token request
    call,      \* each WOPI call: its next step, its token and the row it found
    \* History variables: read by the properties, never by a guard.
    promised,  \* the expiry that the owner of a token was told, or Never
    granted,   \* tokens whose write privilege the authorization service confirmed
    said,      \* the authorization service's answers in each request, "none" at first
    exercised  \* tokens with which a call changed the document's content or
               \* name, or was told that it may

auth     == <<breaker, admitted>>
requests == <<request, status>>
history  == <<promised, granted, said, exercised>>
vars     == <<now, rows, drawn, auth, requests, call, history>>

----------------------------------------------------------------------------

Never   == -1
Row     == [permissions : SUBSET {"read", "write"}, expiresAt : Nat]
NoRow   == [permissions |-> {}, expiresAt |-> Never]

Steps   == {"idle", "lookup", "read", "write", "evaluate", "token", "editor", "insert"}

\* check: the privilege of the present CheckPrivilege; attempt: its retries so
\* far; at: the time.Now() sample.
Request == [pc : Steps, check : {"read", "write"}, attempt : 0 .. maxRetries - 1,
            pdf : BOOLEAN, canWrite : BOOLEAN, token : TokenIDs \cup {NoToken}, at : Nat]

Idle == [pc |-> "idle", check |-> "read", attempt |-> 0, pdf |-> FALSE,
         canWrite |-> FALSE, token |-> NoToken, at |-> 0]

Unasked == [p \in {"read", "write"} |-> "none"]

Statuses == {"none", "200", "403", "404", "422", "500", "503"}

Breaker == [state : {"closed", "open", "halfOpen"}, requests : 0 .. HalfOpenMax,
            failures : 0 .. FailureThreshold - 1, successes : 0 .. HalfOpenMax - 1]

\* A new generation starts with all counts at zero.
Fresh(state) == [state |-> state, requests |-> 0, failures |-> 0, successes |-> 0]

\* The token is refused at its last instant.
BrokenIsExpired(row) == now >= row.expiresAt

\* time.Now().After(ExpiresAt)
IsExpired(row) == now > row.expiresAt

\* The permission is one of the comma-separated ones of the row.
HasPermission(row, permission) == permission \in row.permissions

\* WHERE expires_at < now()
Swept == {t \in TokenIDs : rows[t] # NoRow /\ rows[t].expiresAt < now}

----------------------------------------------------------------------------
(* gobreaker. *)

Refuses ==
    \/ breaker.state = "open"
    \/ breaker.state = "halfOpen" /\ breaker.requests >= HalfOpenMax

LetThrough(r) ==
    /\ ~Refuses
    /\ breaker' = IF breaker.state = "halfOpen"
                  THEN [breaker EXCEPT !.requests = @ + 1]
                  ELSE breaker
    /\ admitted' = admitted \cup {r}

\* What the result of a guarded call does to the counts. A cancelled call is
\* a failure like any other.
Counted(ok) ==
    CASE breaker.state = "closed" /\ ok ->
            [breaker EXCEPT !.failures = 0]
      [] breaker.state = "closed" /\ ~ok ->
            IF breaker.failures + 1 >= FailureThreshold
            THEN Fresh("open")
            ELSE [breaker EXCEPT !.failures = @ + 1]
      [] breaker.state = "halfOpen" /\ ok ->
            IF breaker.successes + 1 >= HalfOpenMax
            THEN Fresh("closed")
            ELSE [breaker EXCEPT !.successes = @ + 1]
      [] OTHER ->
            Fresh("open")

AfterRequest(r, ok) ==
    /\ breaker' = IF r \in admitted THEN Counted(ok) ELSE breaker
    /\ admitted' = IF breaker'.state = breaker.state THEN admitted \ {r} ELSE {}

\* BreakerConfig.TimeoutSeconds pass in the open state.
BreakerTimeout ==
    /\ breaker.state = "open"
    /\ breaker' = Fresh("halfOpen")
    /\ admitted' = {}
    /\ UNCHANGED <<now, rows, drawn, requests, call, history>>

----------------------------------------------------------------------------
(* IssueToken. *)

Reply(r, code) ==
    /\ request' = [request EXCEPT ![r] = Idle]
    /\ status' = [status EXCEPT ![r] = code]

GoTo(r, step) ==
    /\ request' = [request EXCEPT ![r].pc = step]
    /\ UNCHANGED status

IssueToken(r) ==
    /\ request[r].pc = "idle"
    /\ request' = [request EXCEPT ![r].pc = "lookup"]
    /\ status' = [status EXCEPT ![r] = "none"]
    /\ said' = [said EXCEPT ![r] = Unasked]
    /\ UNCHANGED <<now, rows, drawn, auth, call, promised, granted, exercised>>

FindDocument(r) ==
    /\ request[r].pc = "lookup"
    /\ \/ \E code \in {"404", "500"} : Reply(r, code)
       \/ /\ \E pdf \in BOOLEAN :
                request' = [request EXCEPT ![r].pc = "read", ![r].pdf = pdf]
          /\ UNCHANGED status
    /\ UNCHANGED <<now, rows, drawn, auth, call, history>>

\* The breaker's AuthResult{Allowed: false} is read before its error.
BrokenReadStatus(answer) == "403"

\* The reply to a read check that was not passed.
ReadStatus(answer) == IF answer = "no" THEN "403" ELSE "500"

\* The token is writable unless the write check says no.
BrokenCanWrite(answer) == answer # "no"

\* A failed write check makes the token read-only.
CanWrite(answer) == answer = "yes"

\* CheckPrivilege returned "yes", "no" or an error: what IssueToken does next. A
\* PDF is read-only and has no write check.
Conclude(r, check, answer) ==
    IF check = "read"
    THEN IF answer = "yes"
         THEN /\ request' = [request EXCEPT
                        ![r].pc = IF request[r].pdf THEN "token" ELSE "write",
                        ![r].attempt = 0]
              /\ UNCHANGED status
         ELSE Reply(r, ReadStatus(answer))
    ELSE /\ request' = [request EXCEPT
                   ![r].pc = "token", ![r].attempt = 0,
                   ![r].canWrite = CanWrite(answer)]
         /\ UNCHANGED status

\* The call waits until the breaker lets it through.
BrokenCheckPrivilege(r) ==
    /\ request[r].pc \in {"read", "write"}
    /\ LetThrough(r)
    /\ request' = [request EXCEPT ![r].pc = "evaluate", ![r].check = request[r].pc]
    /\ UNCHANGED <<now, rows, drawn, status, call, history>>

\* cb.Execute: fail fast, or let the call through.
CheckPrivilege(r) ==
    /\ request[r].pc \in {"read", "write"}
    /\ \/ /\ Refuses
          /\ Conclude(r, request[r].pc, "error")
          /\ UNCHANGED auth
       \/ /\ LetThrough(r)
          /\ request' = [request EXCEPT ![r].pc = "evaluate", ![r].check = request[r].pc]
          /\ UNCHANGED status
    /\ UNCHANGED <<now, rows, drawn, call, history>>

\* The loop runs once too often.
BrokenLastAttempt(r) == request[r].attempt = maxRetries

LastAttempt(r) == request[r].attempt = maxRetries - 1

\* The authorization service answers: a 200, or a 400, whose body decodes. A
\* decoded body that does not say allowed is a no.
Evaluated(r) ==
    /\ request[r].pc = "evaluate"
    /\ AfterRequest(r, TRUE)
    /\ \E answer \in {"yes", "no"} :
        /\ Conclude(r, request[r].check, answer)
        /\ said' = [said EXCEPT ![r][request[r].check] = answer]
    /\ UNCHANGED <<now, rows, drawn, call, promised, granted, exercised>>

\* The attempt failed and the caller's context is alive: the call is made again.
Retry(r) ==
    /\ request[r].pc = "evaluate"
    /\ ~LastAttempt(r)
    /\ request' = [request EXCEPT ![r].attempt = @ + 1]
    /\ UNCHANGED <<now, rows, drawn, auth, status, call, history>>

\* The last attempt failed, or the caller went away at an earlier one.
Exhausted(r) ==
    /\ request[r].pc = "evaluate"
    /\ AfterRequest(r, FALSE)
    /\ Conclude(r, request[r].check, "error")
    /\ UNCHANGED <<now, rows, drawn, call, history>>

\* generateURLSafeToken and now := time.Now().
GenerateToken(r) ==
    /\ request[r].pc = "token"
    /\ \E t \in TokenIDs \ drawn :
        /\ drawn' = drawn \cup {t}
        /\ request' = [request EXCEPT ![r].pc = "editor", ![r].token = t, ![r].at = now]
        /\ granted' = IF said[r]["write"] = "yes" /\ ~request[r].pdf
                      THEN granted \cup {t} ELSE granted
    /\ UNCHANGED <<now, rows, auth, status, call, promised, said, exercised>>

\* The random source fails.
GenerateFails(r) ==
    /\ request[r].pc = "token"
    /\ Reply(r, "500")
    /\ UNCHANGED <<now, rows, drawn, auth, call, history>>

NewRow(r) ==
    [permissions |-> IF request[r].canWrite THEN {"read", "write"} ELSE {"read"},
     expiresAt   |-> request[r].at + TokenTTL]

\* The token is stored before the editor is looked up.
BrokenResolveEditorURL(r) ==
    /\ request[r].pc = "editor"
    /\ rows' = [rows EXCEPT ![request[r].token] = NewRow(r)]
    /\ \/ \E code \in {"422", "500", "503"} : Reply(r, code)
       \/ GoTo(r, "insert")
    /\ UNCHANGED <<now, drawn, auth, call, history>>

\* An unsupported type, no discovery data, or a failed fetch end the request.
ResolveEditorURL(r) ==
    /\ request[r].pc = "editor"
    /\ \/ \E code \in {"422", "500", "503"} : Reply(r, code)
       \/ GoTo(r, "insert")
    /\ UNCHANGED <<now, rows, drawn, auth, call, history>>

\* The row is stored; the reply may still be lost.
Create(r) ==
    /\ request[r].pc = "insert"
    /\ rows' = [rows EXCEPT ![request[r].token] = NewRow(r)]
    /\ \/ /\ Reply(r, "200")
          /\ promised' = [promised EXCEPT ![request[r].token] = NewRow(r).expiresAt]
       \/ Reply(r, "500") /\ UNCHANGED promised
    /\ UNCHANGED <<now, drawn, auth, call, granted, said, exercised>>

CreateFails(r) ==
    /\ request[r].pc = "insert"
    /\ Reply(r, "500")
    /\ UNCHANGED <<now, rows, drawn, auth, call, history>>

----------------------------------------------------------------------------
(* The sweep, the clock and the WOPI calls. *)

DeleteExpired ==
    /\ Swept # {}
    /\ rows' = [t \in TokenIDs |-> IF t \in Swept THEN NoRow ELSE rows[t]]
    /\ UNCHANGED <<now, drawn, auth, requests, call, history>>

Tick ==
    /\ now < MaxTime
    /\ now' = now + 1
    /\ UNCHANGED <<rows, drawn, auth, requests, call, history>>

NoCall == [pc |-> "idle", token |-> NoToken, row |-> NoRow]

\* FindByToken, with a token somebody was given, or with one nobody was. A call
\* whose lookup fails is answered 500 and changes nothing.
FindByToken(c, t) ==
    /\ call[c].pc = "idle"
    /\ call' = [call EXCEPT ![c] =
                    [pc |-> "found", token |-> t,
                     row |-> IF t = NoToken THEN NoRow ELSE rows[t]]]
    /\ UNCHANGED <<now, rows, drawn, auth, requests, history>>

\* ValidateToken's answer. IsExpired is asked on the row as it was found.
Valid(c) == call[c].row # NoRow /\ ~IsExpired(call[c].row)

Proceed(c, step) ==
    /\ call' = [call EXCEPT ![c].pc = step]
    /\ UNCHANGED <<now, rows, drawn, auth, requests, history>>

EndCall(c) ==
    /\ call' = [call EXCEPT ![c] = NoCall]
    /\ UNCHANGED <<now, rows, drawn, auth, requests, promised, granted, said>>

\* The call goes on to its handler, with the row as it was found.
Admit(c) == call[c].pc = "found" /\ Valid(c) /\ Proceed(c, "handler")

\* 401: "invalid or expired token".
Refuse(c) == call[c].pc = "found" /\ ~Valid(c) /\ EndCall(c) /\ UNCHANGED exercised

MayWrite(c) == HasPermission(call[c].row, "write")

Exercise(c) == exercised' = exercised \cup {call[c].token}

\* The document is looked up and the editor told what the user may do with it:
\* UserCanWrite, SupportsUpdate, UserCanRename and not ReadOnly go together.
CheckFileInfo(c) ==
    /\ call[c].pc = "handler"
    /\ EndCall(c)
    /\ IF MayWrite(c) THEN Exercise(c) ELSE UNCHANGED exercised

\* lock, unlock, refreshLock and unlockAndRelock serve any valid token, also a
\* read-only one: none asks for a permission. Their effect is in WopiLocks.
ChangeLock(c) ==
    /\ call[c].pc = "handler"
    /\ EndCall(c)
    /\ UNCHANGED exercised

\* GetFile and a failed document lookup (404, 500) leave nothing behind.
AnswerCall(c) ==
    /\ call[c].pc = "handler"
    /\ EndCall(c)
    /\ UNCHANGED exercised

\* 403, or the content is written, or the lock (see WopiLocks) or an error
\* prevents it.
PutFile(c) ==
    /\ call[c].pc = "handler"
    /\ EndCall(c)
    /\ (MayWrite(c) /\ Exercise(c)) \/ UNCHANGED exercised

\* 403, or the document is looked up first.
RenameFile(c) ==
    /\ call[c].pc = "handler"
    /\ IF MayWrite(c) THEN Proceed(c, "rename")
       ELSE EndCall(c) /\ UNCHANGED exercised

\* The name is published, or the lookup fails.
Renamed(c) ==
    /\ call[c].pc = "rename"
    /\ EndCall(c)
    /\ Exercise(c) \/ UNCHANGED exercised

Handle(c) ==
    \/ CheckFileInfo(c)
    \/ AnswerCall(c)
    \/ ChangeLock(c)
    \/ PutFile(c)
    \/ RenameFile(c)
    \/ Renamed(c)

----------------------------------------------------------------------------

Init ==
    /\ now = 0
    /\ rows = [t \in TokenIDs |-> NoRow]
    /\ drawn = {}
    /\ breaker = Fresh("closed")
    /\ admitted = {}
    /\ request = [r \in Requests |-> Idle]
    /\ status = [r \in Requests |-> "none"]
    /\ call = [c \in Calls |-> NoCall]
    /\ promised = [t \in TokenIDs |-> Never]
    /\ granted = {}
    /\ said = [r \in Requests |-> Unasked]
    /\ exercised = {}

Advance(r) ==
    \/ FindDocument(r)
    \/ CheckPrivilege(r)
    \/ Evaluated(r)
    \/ Retry(r)
    \/ Exhausted(r)
    \/ GenerateToken(r)
    \/ GenerateFails(r)
    \/ ResolveEditorURL(r)
    \/ Create(r)
    \/ CreateFails(r)

Given == {t \in TokenIDs : promised[t] # Never} \cup {NoToken}

Next ==
    \/ \E r \in Requests : IssueToken(r) \/ Advance(r)
    \/ \E c \in Calls : \E t \in Given : FindByToken(c, t)
    \/ \E c \in Calls : Admit(c) \/ Refuse(c) \/ Handle(c)
    \/ BreakerTimeout
    \/ DeleteExpired
    \/ Tick

Spec == Init /\ [][Next]_vars

\* The calls of an issuance that return: the clients of file-service, of the
\* authorization service over HTTP and of Collabora have timeouts of their own.
\* The insert runs under the request's context, which has no deadline, and so
\* does a privilege check over NATS: FairSpec is about authhttp.
BoundedCall(r) == request[r].pc # "insert" /\ Advance(r)

FairSpec == Spec /\ \A r \in Requests : WF_vars(BoundedCall(r))

----------------------------------------------------------------------------

\* Every variable has its type: in particular one CheckPrivilege makes at most
\* maxRetries attempts, and the half-open breaker lets through at most
\* HalfOpenMax calls.
TypeOK ==
    /\ now \in Nat
    /\ rows \in [TokenIDs -> Row \cup {NoRow}]
    /\ drawn \subseteq TokenIDs
    /\ breaker \in Breaker
    /\ admitted \subseteq Requests
    /\ request \in [Requests -> Request]
    /\ status \in [Requests -> Statuses]
    /\ call \in [Calls -> [pc : {"idle", "found", "handler", "rename"},
                           token : TokenIDs \cup {NoToken}, row : Row \cup {NoRow}]]
    /\ promised \in [TokenIDs -> Nat \cup {Never}]
    /\ granted \subseteq TokenIDs
    /\ said \in [Requests -> [{"read", "write"} -> {"none", "yes", "no"}]]
    /\ exercised \subseteq TokenIDs

\* A token is good for as long as its owner was told: no call that presents it
\* is answered 401 before the access_token_ttl it came with is over, whatever
\* the sweep does and at whatever moment the token is looked up.
PromiseKept ==
    [][\A c \in Calls :
        Refuse(c) /\ call[c].token # NoToken => promised[call[c].token] < now]_vars

\* "Resolve editor URL BEFORE persisting": an issuance that is refused leaves
\* no row behind.
RefusalLeavesNoRow ==
    [][\A r \in Requests :
        /\ request[r].pc # "idle" /\ request'[r].pc = "idle"
        /\ status'[r] \in {"403", "404", "422", "503"}
        /\ request[r].token # NoToken
        => rows'[request[r].token] = NoRow]_vars

\* A stored token is writable, and a call that presents it changes the
\* document's content or name or is told that it may, only if the authorization
\* service confirmed the write privilege in that very issuance: no failure,
\* retry, open breaker, answer to another request, sweep or expiry between the
\* check and the change gives more. The lock is not covered: any valid token
\* changes it.
WriteNeedsGrant ==
    /\ \A t \in TokenIDs : "write" \in rows[t].permissions => t \in granted
    /\ exercised \subseteq granted

\* An outage is never reported as a denial: 403 means that the authorization
\* service itself said no, although an open breaker hands back a result that
\* is not allowed.
OutageNeverDenies ==
    [][\A r \in Requests :
        request[r].pc # "idle" /\ request'[r].pc = "idle" /\ status'[r] = "403"
            => said'[r]["read"] = "no"]_vars

\* With the HTTP adapter every token request is answered or comes to the insert
\* of its token, whatever the breaker, the retries and the other requests do.
IssuanceDecided ==
    \A r \in Requests : request[r].pc # "idle" ~> request[r].pc \in {"idle", "insert"}
=============================================================================
