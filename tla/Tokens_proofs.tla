--------------------------- MODULE Tokens_proofs ---------------------------
(***************************************************************************)
(* Proofs about the access tokens: type correctness, that a writable token *)
(* and every change of a document's content or name go back to a confirmed *)
(* write privilege, that a token is good for as long as its owner was      *)
(* told, that a refused issuance leaves no row and that an outage is never *)
(* a denial, for any number of requests, calls and tokens and any breaker  *)
(* settings. Lock operations need no write privilege: nothing is claimed   *)
(* about them here.                                                        *)
(***************************************************************************)
EXTENDS Tokens, TLAPS

\* A request holds a token from GenerateToken to its reply, and may write only
\* after the write check of this very request said yes.
RequestSound(r) ==
    /\ request[r].pc = "write" => ~request[r].pdf
    /\ request[r].pc = "evaluate" /\ request[r].check = "write" => ~request[r].pdf
    /\ request[r].canWrite => /\ request[r].pc \in {"token", "editor", "insert"}
                              /\ said[r]["write"] = "yes"
                              /\ ~request[r].pdf
    /\ request[r].token # NoToken <=> request[r].pc \in {"editor", "insert"}

\* The token it holds is its own, and nobody has seen it yet.
TokenReserved(r) ==
    request[r].token # NoToken =>
        /\ request[r].token \in drawn
        /\ request[r].canWrite => request[r].token \in granted
        /\ rows[request[r].token] = NoRow
        /\ promised[request[r].token] = Never
        /\ \A q \in Requests \ {r} : request[q].token # request[r].token

\* A row, as it is stored or as a call found it, keeps what the owner of the
\* token was told; without a row that time is over.
Honours(row, t) ==
    /\ row = NoRow => promised[t] < now
    /\ row # NoRow => row.expiresAt = promised[t]

RowSound(t) ==
    /\ t \notin drawn => rows[t] = NoRow /\ promised[t] = Never
    /\ "write" \in rows[t].permissions => t \in granted
    /\ promised[t] # Never => Honours(rows[t], t)

\* A call acts on the row it found, which may be gone from the table.
CallSound(c) ==
    /\ "write" \in call[c].row.permissions => call[c].token \in granted
    /\ call[c].pc = "rename" => "write" \in call[c].row.permissions
    /\ call[c].token # NoToken => /\ promised[call[c].token] # Never
                                  /\ Honours(call[c].row, call[c].token)

Sound ==
    /\ \A r \in Requests : RequestSound(r)
    /\ \A r \in Requests : TokenReserved(r)
    /\ \A t \in TokenIDs : RowSound(t)
    /\ \A c \in Calls : CallSound(c)
    /\ exercised \subseteq granted

IInv == TypeOK /\ Sound

----------------------------------------------------------------------------

\* Initially no token was drawn and nobody asks for one.
LEMMA InitInvariant == Init => IInv
<1> SUFFICES ASSUME Init PROVE IInv
    OBVIOUS
<1>1. TypeOK
    BY TimeAssumption, BreakerAssumption
       DEF Init, TypeOK, NoRow, Fresh, Breaker, Idle, Request, Steps, Statuses, NoCall, Unasked
<1>2. Sound
    BY DEF Init, Sound, RequestSound, TokenReserved, RowSound, CallSound, Idle, NoCall, NoRow
<1>3. QED
    BY <1>1, <1>2 DEF IInv

----------------------------------------------------------------------------
(* Types. *)

\* The breaker's counts stay below their thresholds, whatever it counts.
LEMMA CountedType ==
    ASSUME breaker \in Breaker, NEW ok \in BOOLEAN
    PROVE  Counted(ok) \in Breaker
<1> USE BreakerAssumption
<1>1. CASE breaker.state = "closed" /\ ok
    BY <1>1 DEF Counted, Breaker
<1>2. CASE breaker.state = "closed" /\ ~ok
    BY <1>2 DEF Counted, Breaker, Fresh
<1>3. CASE breaker.state = "halfOpen" /\ ok
    BY <1>3 DEF Counted, Breaker, Fresh
<1>4. CASE ~(breaker.state = "closed") /\ ~(breaker.state = "halfOpen" /\ ok)
    BY <1>4 DEF Counted, Breaker, Fresh
<1>5. QED
    BY <1>1, <1>2, <1>3, <1>4

\* What the breaker makes of a result keeps its counts within its settings.
LEMMA AfterRequestType ==
    ASSUME TypeOK, NEW r \in Requests, NEW ok \in BOOLEAN, AfterRequest(r, ok)
    PROVE  breaker' \in Breaker /\ admitted' \subseteq Requests
BY CountedType DEF AfterRequest, TypeOK

\* So does letting a request through.
LEMMA LetThroughType ==
    ASSUME TypeOK, NEW r \in Requests, LetThrough(r)
    PROVE  breaker' \in Breaker /\ admitted' \subseteq Requests
BY BreakerAssumption DEF LetThrough, Refuses, TypeOK, Breaker

\* A reply clears its own request and touches no other.
LEMMA ReplyEffect ==
    ASSUME TypeOK, NEW r \in Requests, NEW code \in Statuses, Reply(r, code)
    PROVE  /\ request' \in [Requests -> Request] /\ status' \in [Requests -> Statuses]
           /\ \A q \in Requests \ {r} : request'[q] = request[q]
           /\ request'[r] = Idle /\ status'[r] = code
<1>1. Idle \in Request
    BY BreakerAssumption DEF Idle, Request, Steps
<1>2. QED
    BY <1>1 DEF Reply, TypeOK

\* What IssueToken makes of the answer of a privilege check.
LEMMA ConcludeEffect ==
    ASSUME TypeOK, NEW r \in Requests, NEW check \in {"read", "write"},
           NEW answer \in {"yes", "no", "error"}, Conclude(r, check, answer)
    PROVE  /\ request' \in [Requests -> Request] /\ status' \in [Requests -> Statuses]
           /\ \A q \in Requests \ {r} : request'[q] = request[q]
           /\ \/ /\ check = "read" /\ answer # "yes"
                 /\ request'[r] = Idle /\ status'[r] = ReadStatus(answer)
              \/ /\ check = "read" /\ answer = "yes"
                 /\ request'[r].pc = (IF request[r].pdf THEN "token" ELSE "write")
                 /\ request'[r].pdf = request[r].pdf
                 /\ request'[r].canWrite = request[r].canWrite
                 /\ request'[r].token = request[r].token
              \/ /\ check = "write"
                 /\ request'[r].pc = "token"
                 /\ request'[r].pdf = request[r].pdf
                 /\ request'[r].canWrite = CanWrite(answer)
                 /\ request'[r].token = request[r].token
<1>0. request[r] \in Request
    BY DEF TypeOK
<1>1. CASE check = "read" /\ answer # "yes"
    <2>1. ReadStatus(answer) \in Statuses /\ Reply(r, ReadStatus(answer))
        BY <1>1 DEF Conclude, ReadStatus, Statuses
    <2>2. QED
        BY <1>1, <2>1, ReplyEffect
<1>2. CASE check = "read" /\ answer = "yes"
    <2> DEFINE new == [request[r] EXCEPT !.pc = IF request[r].pdf THEN "token" ELSE "write", !.attempt = 0]
    <2>1. new \in Request
        <3>1. 0 \in 0 .. maxRetries - 1 /\ (IF request[r].pdf THEN "token" ELSE "write") \in Steps
            BY BreakerAssumption DEF Steps
        <3>2. QED
            BY <1>0, <3>1 DEF Request
    <2>2. /\ new.pc = (IF request[r].pdf THEN "token" ELSE "write")
          /\ new.pdf = request[r].pdf /\ new.canWrite = request[r].canWrite /\ new.token = request[r].token
        BY <1>0 DEF Request
    <2>3. request' = [request EXCEPT ![r] = new] /\ status' = status
        BY <1>2 DEF Conclude
    <2> HIDE DEF new
    <2>4. QED
        BY <1>2, <2>1, <2>2, <2>3 DEF TypeOK
<1>3. CASE check = "write"
    <2> DEFINE new == [request[r] EXCEPT !.pc = "token", !.attempt = 0, !.canWrite = CanWrite(answer)]
    <2>1. new \in Request
        <3>1. 0 \in 0 .. maxRetries - 1 /\ "token" \in Steps /\ CanWrite(answer) \in BOOLEAN
            BY BreakerAssumption DEF Steps, CanWrite
        <3>2. QED
            BY <1>0, <3>1 DEF Request
    <2>2. /\ new.pc = "token" /\ new.canWrite = CanWrite(answer)
          /\ new.pdf = request[r].pdf /\ new.token = request[r].token
        BY <1>0 DEF Request
    <2>3. request' = [request EXCEPT ![r] = new] /\ status' = status
        BY <1>3 DEF Conclude
    <2> HIDE DEF new
    <2>4. QED
        BY <1>3, <2>1, <2>2, <2>3 DEF TypeOK
<1>4. QED
    BY <1>1, <1>2, <1>3

\* Types are kept by every step of an issuance.
LEMMA RequestType ==
    ASSUME TypeOK, NEW r \in Requests, IssueToken(r) \/ Advance(r)
    PROVE  TypeOK'
<1>0. request[r] \in Request /\ said[r] \in [{"read", "write"} -> {"none", "yes", "no"}]
    BY DEF TypeOK
<1>1. CASE IssueToken(r)
    BY <1>0, <1>1 DEF IssueToken, TypeOK, Request, Steps, Statuses, Unasked, auth
<1>2. CASE FindDocument(r)
    <2>1. ASSUME NEW code \in {"404", "500"}, Reply(r, code)
          PROVE  request' \in [Requests -> Request] /\ status' \in [Requests -> Statuses]
        BY <2>1, ReplyEffect DEF Statuses
    <2>2. ASSUME NEW pdf \in BOOLEAN, request' = [request EXCEPT ![r].pc = "read", ![r].pdf = pdf]
          PROVE  request' \in [Requests -> Request]
        BY <1>0, <2>2 DEF TypeOK, Request, Steps
    <2>3. QED
        BY <1>2, <2>1, <2>2 DEF FindDocument, TypeOK, auth, history
<1>3. CASE CheckPrivilege(r)
    <2>1. CASE Refuses /\ Conclude(r, request[r].pc, "error") /\ UNCHANGED auth
        BY <1>3, <2>1, ConcludeEffect DEF CheckPrivilege, TypeOK, auth, history
    <2>2. CASE /\ LetThrough(r)
               /\ request' = [request EXCEPT ![r].pc = "evaluate", ![r].check = request[r].pc]
               /\ UNCHANGED status
        <3>1. request' \in [Requests -> Request]
            BY <1>0, <1>3, <2>2 DEF CheckPrivilege, TypeOK, Request, Steps
        <3>2. QED
            BY <1>3, <2>2, <3>1, LetThroughType DEF CheckPrivilege, TypeOK, history
    <2>3. QED
        BY <1>3, <2>1, <2>2 DEF CheckPrivilege
<1>4. CASE Evaluated(r)
    <2>1. PICK answer \in {"yes", "no"} : /\ Conclude(r, request[r].check, answer)
                                          /\ said' = [said EXCEPT ![r][request[r].check] = answer]
        BY <1>4 DEF Evaluated
    <2>2. request[r].check \in {"read", "write"}
        BY <1>0 DEF Request
    <2>3. request' \in [Requests -> Request] /\ status' \in [Requests -> Statuses]
        BY <2>1, <2>2, ConcludeEffect
    <2>4. said' \in [Requests -> [{"read", "write"} -> {"none", "yes", "no"}]]
        BY <1>0, <2>1, <2>2 DEF TypeOK
    <2>5. breaker' \in Breaker /\ admitted' \subseteq Requests
        BY <1>4, AfterRequestType DEF Evaluated
    <2>6. QED
        BY <1>4, <2>3, <2>4, <2>5 DEF Evaluated, TypeOK
<1>5. CASE Retry(r)
    <2>1. request[r].attempt + 1 \in 0 .. maxRetries - 1
        BY <1>0, <1>5, BreakerAssumption DEF Retry, LastAttempt, Request
    <2>2. request' \in [Requests -> Request]
        BY <1>0, <1>5, <2>1 DEF Retry, TypeOK, Request
    <2>3. QED
        BY <1>5, <2>2 DEF Retry, TypeOK, auth, history
<1>6. CASE Exhausted(r)
    <2>1. request[r].check \in {"read", "write"}
        BY <1>0 DEF Request
    <2>2. request' \in [Requests -> Request] /\ status' \in [Requests -> Statuses]
        BY <1>6, <2>1, ConcludeEffect DEF Exhausted
    <2>3. breaker' \in Breaker /\ admitted' \subseteq Requests
        BY <1>6, AfterRequestType DEF Exhausted
    <2>4. QED
        BY <1>6, <2>2, <2>3 DEF Exhausted, TypeOK, history
<1>7. CASE GenerateToken(r)
    <2>1. PICK t \in TokenIDs \ drawn :
              /\ drawn' = drawn \cup {t}
              /\ request' = [request EXCEPT ![r].pc = "editor", ![r].token = t, ![r].at = now]
              /\ granted' = IF said[r]["write"] = "yes" /\ ~request[r].pdf THEN granted \cup {t} ELSE granted
        BY <1>7 DEF GenerateToken
    <2>2. request' \in [Requests -> Request]
        BY <1>0, <2>1 DEF TypeOK, Request, Steps
    <2>3. QED
        BY <1>7, <2>1, <2>2 DEF GenerateToken, TypeOK, auth
<1>8. CASE GenerateFails(r)
    BY <1>8, ReplyEffect DEF GenerateFails, TypeOK, Statuses, auth, history
<1>9. CASE ResolveEditorURL(r)
    <2>1. ASSUME NEW code \in {"422", "500", "503"}, Reply(r, code)
          PROVE  request' \in [Requests -> Request] /\ status' \in [Requests -> Statuses]
        BY <2>1, ReplyEffect DEF Statuses
    <2>2. ASSUME GoTo(r, "insert")
          PROVE  request' \in [Requests -> Request] /\ status' \in [Requests -> Statuses]
        BY <1>0, <2>2 DEF GoTo, TypeOK, Request, Steps
    <2>3. QED
        BY <1>9, <2>1, <2>2 DEF ResolveEditorURL, TypeOK, auth, history
<1>10. CASE Create(r)
    <2>1. NewRow(r) \in Row
        BY <1>0, TimeAssumption DEF NewRow, Row, Request
    <2>2. rows' \in [TokenIDs -> Row \cup {NoRow}]
        BY <1>10, <2>1 DEF Create, TypeOK
    <2>3. request' \in [Requests -> Request] /\ status' \in [Requests -> Statuses]
        BY <1>10, ReplyEffect DEF Create, Statuses
    <2>4. promised' \in [TokenIDs -> Nat \cup {Never}]
        BY <1>10, <2>1 DEF Create, TypeOK, Row
    <2>5. QED
        BY <1>10, <2>2, <2>3, <2>4 DEF Create, TypeOK, auth
<1>11. CASE CreateFails(r)
    BY <1>11, ReplyEffect DEF CreateFails, TypeOK, Statuses, auth, history
<1>12. QED
    BY <1>1, <1>2, <1>3, <1>4, <1>5, <1>6, <1>7, <1>8, <1>9, <1>10, <1>11 DEF Advance

----------------------------------------------------------------------------
(* Soundness of the issuance. *)

\* A step of one request that touches neither the table nor its tokens, and
\* keeps the request sound, disturbs nobody.
LEMMA LocalStep ==
    ASSUME Sound, NEW r \in Requests,
           \A q \in Requests \ {r} : request'[q] = request[q] /\ said'[q] = said[q],
           UNCHANGED <<now, rows, drawn, call, promised, granted, exercised>>,
           RequestSound(r)',
           \/ request'[r].token = NoToken
           \/ request'[r].token = request[r].token /\ request'[r].canWrite = request[r].canWrite
    PROVE  Sound'
<1>1. \A q \in Requests : RequestSound(q)'
    <2> SUFFICES ASSUME NEW q \in Requests \ {r} PROVE RequestSound(q)'
        OBVIOUS
    <2>1. RequestSound(q)
        BY DEF Sound
    <2>2. QED
        BY <2>1 DEF RequestSound
<1>2. \A q \in Requests : TokenReserved(q)'
    <2> SUFFICES ASSUME NEW q \in Requests, request'[q].token # NoToken PROVE TokenReserved(q)'
        BY DEF TokenReserved
    <2>1. /\ \A p \in Requests : request'[p].token \in {request[p].token, NoToken}
          /\ request'[q].token = request[q].token
          /\ request'[q].canWrite = request[q].canWrite
        OBVIOUS
    <2>2. TokenReserved(q)
        BY DEF Sound
    <2>3. QED
        BY <2>1, <2>2 DEF TokenReserved
<1>3. \A t \in TokenIDs : RowSound(t)'
    <2> SUFFICES ASSUME NEW t \in TokenIDs PROVE RowSound(t)'
        OBVIOUS
    <2>1. RowSound(t)
        BY DEF Sound
    <2>2. QED
        BY <2>1 DEF RowSound, Honours
<1>4. \A c \in Calls : CallSound(c)'
    <2> SUFFICES ASSUME NEW c \in Calls PROVE CallSound(c)'
        OBVIOUS
    <2>1. CallSound(c)
        BY DEF Sound
    <2>2. QED
        BY <2>1 DEF CallSound, Honours
<1>5. QED
    BY <1>1, <1>2, <1>3, <1>4 DEF Sound

\* An idle request holds nothing.
LEMMA IdleSound ==
    ASSUME NEW r \in Requests, request'[r] = Idle
    PROVE  RequestSound(r)' /\ request'[r].token = NoToken
BY DEF RequestSound, Idle

\* The conclusion of a privilege check keeps the request sound: canWrite is set
\* by the write check that said yes only.
LEMMA ConcludeSound ==
    ASSUME IInv, NEW r \in Requests, NEW check \in {"read", "write"},
           NEW answer \in {"yes", "no", "error"}, Conclude(r, check, answer),
           \/ request[r].pc = check
           \/ request[r].pc = "evaluate" /\ request[r].check = check,
           \/ said' = said /\ answer = "error"
           \/ said' = [said EXCEPT ![r][check] = answer],
           UNCHANGED <<now, rows, drawn, call, promised, granted, exercised>>
    PROVE  Sound'
<1>0. RequestSound(r) /\ Sound /\ TypeOK /\ request[r] \in Request
    BY DEF IInv, Sound, TypeOK
<1>1. request[r].canWrite = FALSE /\ request[r].token = NoToken
    BY <1>0 DEF RequestSound, Request
<1>2. /\ answer = "yes" => said'[r][check] = "yes"
      /\ \A q \in Requests \ {r} : said'[q] = said[q]
    BY <1>0 DEF TypeOK
<1>3. \A q \in Requests \ {r} : request'[q] = request[q]
    BY <1>0, ConcludeEffect
<1>4. CASE request'[r] = Idle
    BY <1>0, <1>2, <1>3, <1>4, IdleSound, LocalStep
<1>5. CASE /\ check = "read" /\ answer = "yes"
           /\ request'[r].pc = (IF request[r].pdf THEN "token" ELSE "write")
           /\ request'[r].pdf = request[r].pdf
           /\ request'[r].canWrite = request[r].canWrite
           /\ request'[r].token = request[r].token
    <2>1. RequestSound(r)'
        BY <1>0, <1>1, <1>5 DEF RequestSound
    <2>2. QED
        BY <1>0, <1>1, <1>2, <1>3, <1>5, <2>1, LocalStep
<1>6. CASE /\ check = "write"
           /\ request'[r].pc = "token"
           /\ request'[r].pdf = request[r].pdf
           /\ request'[r].canWrite = CanWrite(answer)
           /\ request'[r].token = request[r].token
    <2>1. ~request[r].pdf
        BY <1>0, <1>6 DEF RequestSound
    <2>2. RequestSound(r)'
        BY <1>1, <1>2, <1>6, <2>1 DEF RequestSound, CanWrite
    <2>3. QED
        BY <1>0, <1>1, <1>2, <1>3, <1>6, <2>2, LocalStep
<1>7. QED
    BY <1>0, <1>4, <1>5, <1>6, ConcludeEffect

\* A reply that changes nothing else leaves everybody sound.
LEMMA ReplySound ==
    ASSUME IInv, NEW r \in Requests, NEW code \in Statuses, Reply(r, code),
           UNCHANGED <<now, rows, drawn, call, history>>
    PROVE  Sound'
BY ReplyEffect, IdleSound, LocalStep DEF IInv, history

\* Every step of a token request keeps the rows, the promises and the grants in
\* line with each other.
LEMMA RequestStepSound ==
    ASSUME IInv, NEW r \in Requests, IssueToken(r) \/ Advance(r)
    PROVE  Sound'
<1>0. RequestSound(r) /\ TokenReserved(r) /\ Sound /\ TypeOK /\ request[r] \in Request
    BY DEF IInv, Sound, TypeOK
<1>1. CASE IssueToken(r)
    <2>1. /\ request'[r].pc = "lookup" /\ request'[r].canWrite = request[r].canWrite
          /\ request'[r].token = request[r].token
          /\ \A q \in Requests \ {r} : request'[q] = request[q] /\ said'[q] = said[q]
        BY <1>0, <1>1 DEF IssueToken, TypeOK, Request
    <2>2. RequestSound(r)'
        BY <1>0, <1>1, <2>1 DEF RequestSound, IssueToken
    <2>3. QED
        BY <1>0, <1>1, <2>1, <2>2, LocalStep DEF IssueToken
<1>2. CASE FindDocument(r)
    <2>1. CASE \E code \in {"404", "500"} : Reply(r, code)
        BY <1>2, <2>1, ReplySound DEF FindDocument, Statuses
    <2>2. ASSUME NEW pdf \in BOOLEAN, request' = [request EXCEPT ![r].pc = "read", ![r].pdf = pdf]
          PROVE  Sound'
        <3>1. /\ request'[r].pc = "read" /\ request'[r].canWrite = request[r].canWrite
              /\ request'[r].token = request[r].token
              /\ \A q \in Requests \ {r} : request'[q] = request[q]
            BY <1>0, <2>2 DEF TypeOK, Request
        <3>2. RequestSound(r)'
            BY <1>0, <1>2, <3>1 DEF RequestSound, FindDocument
        <3>3. QED
            BY <1>0, <1>2, <3>1, <3>2, LocalStep DEF FindDocument, history
    <2>3. QED
        BY <1>2, <2>1, <2>2 DEF FindDocument
<1>3. CASE CheckPrivilege(r)
    <2>1. CASE Conclude(r, request[r].pc, "error")
        BY <1>3, <2>1, ConcludeSound DEF CheckPrivilege, history
    <2>2. CASE request' = [request EXCEPT ![r].pc = "evaluate", ![r].check = request[r].pc]
        <3>1. /\ request'[r].pc = "evaluate" /\ request'[r].check = request[r].pc
              /\ request'[r].pdf = request[r].pdf
              /\ request'[r].canWrite = request[r].canWrite
              /\ request'[r].token = request[r].token
              /\ \A q \in Requests \ {r} : request'[q] = request[q]
            BY <1>0, <2>2 DEF TypeOK, Request
        <3>2. RequestSound(r)'
            BY <1>0, <1>3, <3>1 DEF RequestSound, CheckPrivilege
        <3>3. QED
            BY <1>0, <1>3, <3>1, <3>2, LocalStep DEF CheckPrivilege, history
    <2>3. QED
        BY <1>3, <2>1, <2>2 DEF CheckPrivilege
<1>4. CASE Evaluated(r)
    <2>1. request[r].check \in {"read", "write"}
        BY <1>0 DEF Request
    <2>2. QED
        BY <1>4, <2>1, ConcludeSound DEF Evaluated
<1>5. CASE Retry(r)
    <2>1. /\ request'[r].pc = request[r].pc /\ request'[r].check = request[r].check
          /\ request'[r].pdf = request[r].pdf
          /\ request'[r].canWrite = request[r].canWrite
          /\ request'[r].token = request[r].token
          /\ \A q \in Requests \ {r} : request'[q] = request[q]
        BY <1>0, <1>5 DEF Retry, TypeOK, Request
    <2>2. RequestSound(r)'
        BY <1>0, <1>5, <2>1 DEF RequestSound, Retry, history
    <2>3. QED
        BY <1>0, <1>5, <2>1, <2>2, LocalStep DEF Retry, history
<1>6. CASE Exhausted(r)
    <2>1. request[r].check \in {"read", "write"}
        BY <1>0 DEF Request
    <2>2. QED
        BY <1>6, <2>1, ConcludeSound DEF Exhausted, history
<1>7. CASE GenerateToken(r)
    <2>1. PICK t \in TokenIDs \ drawn :
              /\ drawn' = drawn \cup {t}
              /\ request' = [request EXCEPT ![r].pc = "editor", ![r].token = t, ![r].at = now]
              /\ granted' = IF said[r]["write"] = "yes" /\ ~request[r].pdf THEN granted \cup {t} ELSE granted
        BY <1>7 DEF GenerateToken
    <2>2. /\ request'[r].pc = "editor" /\ request'[r].token = t
          /\ request'[r].pdf = request[r].pdf /\ request'[r].canWrite = request[r].canWrite
          /\ \A q \in Requests \ {r} : request'[q] = request[q]
        BY <1>0, <2>1 DEF TypeOK, Request
    <2>3. UNCHANGED <<now, rows, call, promised, said, exercised>> /\ granted \subseteq granted'
        BY <1>7, <2>1 DEF GenerateToken
    <2>4. \A q \in Requests : RequestSound(q)'
        <3>1. RequestSound(r)'
            BY <1>0, <1>7, <2>2, <2>3, TokensAssumption DEF RequestSound, GenerateToken
        <3>2. ASSUME NEW q \in Requests \ {r} PROVE RequestSound(q)'
            BY <1>0, <2>2, <2>3 DEF Sound, RequestSound
        <3>3. QED
            BY <3>1, <3>2
    <2>5. \A q \in Requests : TokenReserved(q)'
        <3>1. t # NoToken /\ RowSound(t) /\ \A q \in Requests : request[q].token # t
            BY <1>0, <2>1, TokensAssumption DEF Sound, TokenReserved
        <3>2. TokenReserved(r)'
            <4>1. t \in drawn' /\ rows'[t] = NoRow /\ promised'[t] = Never
                BY <2>1, <2>3, <3>1 DEF RowSound
            <4>2. request[r].canWrite => t \in granted'
                BY <1>0, <2>1 DEF RequestSound
            <4>3. \A q \in Requests \ {r} : request'[q].token # t
                BY <2>2, <3>1
            <4>4. QED
                BY <2>2, <4>1, <4>2, <4>3 DEF TokenReserved
        <3>3. ASSUME NEW q \in Requests \ {r} PROVE TokenReserved(q)'
            <4>1. TokenReserved(q)
                BY <1>0 DEF Sound
            <4>2. drawn \subseteq drawn' /\ request'[q] = request[q]
                BY <2>1, <2>2
            <4>3. \A p \in Requests \ {q} : request[q].token # NoToken => request'[p].token # request[q].token
                BY <2>2, <3>1, <4>1 DEF TokenReserved
            <4>4. QED
                BY <2>3, <4>1, <4>2, <4>3 DEF TokenReserved
        <3>4. QED
            BY <3>2, <3>3
    <2>6. \A u \in TokenIDs : RowSound(u)'
        BY <1>0, <2>1, <2>3 DEF Sound, RowSound, Honours
    <2>7. \A c \in Calls : CallSound(c)'
        BY <1>0, <2>3 DEF Sound, CallSound, Honours
    <2>8. QED
        BY <1>0, <2>3, <2>4, <2>5, <2>6, <2>7 DEF Sound
<1>8. CASE GenerateFails(r)
    BY <1>8, ReplySound DEF GenerateFails, Statuses
<1>9. CASE ResolveEditorURL(r)
    <2>1. CASE \E code \in {"422", "500", "503"} : Reply(r, code)
        BY <1>9, <2>1, ReplySound DEF ResolveEditorURL, Statuses
    <2>2. CASE GoTo(r, "insert")
        <3>1. /\ request'[r].pc = "insert" /\ request'[r].pdf = request[r].pdf
              /\ request'[r].canWrite = request[r].canWrite
              /\ request'[r].token = request[r].token
              /\ \A q \in Requests \ {r} : request'[q] = request[q]
            BY <1>0, <2>2 DEF GoTo, TypeOK, Request
        <3>2. RequestSound(r)'
            BY <1>0, <1>9, <3>1 DEF RequestSound, ResolveEditorURL, history
        <3>3. QED
            BY <1>0, <1>9, <3>1, <3>2, LocalStep DEF ResolveEditorURL, history
    <2>3. QED
        BY <1>9, <2>1, <2>2 DEF ResolveEditorURL
<1>10. CASE Create(r)
    <2> DEFINE t == request[r].token
    <2>1. t # NoToken /\ t \in TokenIDs /\ t \in drawn
        BY <1>0, <1>10 DEF Create, RequestSound, TokenReserved, Request
    <2>2. /\ request'[r] = Idle
          /\ \A q \in Requests \ {r} : request'[q] = request[q]
        BY <1>0, <1>10, ReplyEffect DEF Create, Statuses
    <2>3. /\ rows'[t] = NewRow(r)
          /\ \A u \in TokenIDs \ {t} : rows'[u] = rows[u] /\ promised'[u] = promised[u]
          /\ promised'[t] \in {NewRow(r).expiresAt, promised[t]}
          /\ UNCHANGED <<now, drawn, call, granted, said, exercised>>
        BY <1>0, <1>10, <2>1 DEF Create, TypeOK
    <2>4. /\ NewRow(r) # NoRow
          /\ "write" \in NewRow(r).permissions => t \in granted
        BY <1>0, <2>1, TimeAssumption DEF NewRow, NoRow, Never, Request, TokenReserved
    <2>5. \A q \in Requests : RequestSound(q)'
        BY <1>0, <2>2, <2>3, IdleSound DEF Sound, RequestSound
    <2>6. ASSUME NEW q \in Requests PROVE TokenReserved(q)'
        <3>1. CASE q = r
            BY <2>2, <3>1 DEF TokenReserved, Idle
        <3>2. CASE q # r
            <4>1. TokenReserved(q) /\ (request[q].token # NoToken => request[q].token \in TokenIDs \ {t})
                BY <1>0, <2>1, <3>2 DEF Sound, TokenReserved, TypeOK, Request
            <4>2. \A p \in Requests : request'[p].token \in {request[p].token, NoToken}
                BY <2>2 DEF Idle
            <4>3. QED
                BY <2>2, <2>3, <3>2, <4>1, <4>2 DEF TokenReserved
        <3>3. QED
            BY <3>1, <3>2
    <2>7. ASSUME NEW u \in TokenIDs PROVE RowSound(u)'
        <3>1. CASE u = t
            BY <1>0, <2>1, <2>3, <2>4, <3>1 DEF RowSound, Honours, TokenReserved
        <3>2. CASE u # t
            BY <1>0, <2>3, <3>2 DEF Sound, RowSound, Honours
        <3>3. QED
            BY <3>1, <3>2
    <2>8. ASSUME NEW c \in Calls PROVE CallSound(c)'
        <3>1. CallSound(c) /\ call[c].token \in TokenIDs \cup {NoToken}
            BY <1>0 DEF Sound, TypeOK
        <3>2. call[c].token # t
            BY <1>0, <2>1, <3>1 DEF CallSound, TokenReserved
        <3>3. QED
            BY <2>3, <3>1, <3>2 DEF CallSound, Honours
    <2>9. QED
        BY <1>0, <2>3, <2>5, <2>6, <2>7, <2>8 DEF Sound
<1>11. CASE CreateFails(r)
    BY <1>11, ReplySound DEF CreateFails, Statuses
<1>12. QED
    BY <1>1, <1>2, <1>3, <1>4, <1>5, <1>6, <1>7, <1>8, <1>9, <1>10, <1>11 DEF Advance

----------------------------------------------------------------------------
(* The calls, the sweep and the clock. *)

\* A step that leaves the issuance and the table alone only has to keep the
\* calls sound.
LEMMA CallsOnly ==
    ASSUME Sound, UNCHANGED <<now, rows, drawn, request, promised, granted, said>>,
           \A c \in Calls : CallSound(c)',
           exercised' \subseteq granted
    PROVE  Sound'
<1>1. \A r \in Requests : RequestSound(r)' /\ TokenReserved(r)'
    BY DEF Sound, RequestSound, TokenReserved
<1>2. \A t \in TokenIDs : RowSound(t)'
    BY DEF Sound, RowSound, Honours
<1>3. QED
    BY <1>1, <1>2 DEF Sound

\* FindByToken takes the row of a token that somebody was given.
LEMMA FindByTokenStep ==
    ASSUME IInv, NEW c \in Calls, NEW t \in Given, FindByToken(c, t)
    PROVE  IInv'
<1> DEFINE new == [pc |-> "found", token |-> t, row |-> IF t = NoToken THEN NoRow ELSE rows[t]]
<1>0. Sound /\ TypeOK /\ t \in TokenIDs \cup {NoToken} /\ (t # NoToken => promised[t] # Never)
    BY DEF IInv, Given
<1>1. new.row \in Row \cup {NoRow} /\ new.pc = "found" /\ new.token = t
    BY <1>0 DEF TypeOK
<1>2. call'[c] = new /\ \A b \in Calls \ {c} : call'[b] = call[b]
    BY <1>0 DEF FindByToken, TypeOK
<1>3. UNCHANGED <<now, rows, drawn, auth, requests, history>>
    BY DEF FindByToken
<1>4. TypeOK'
    <2>1. call' \in [Calls -> [pc : {"idle", "found", "handler", "rename"},
                               token : TokenIDs \cup {NoToken}, row : Row \cup {NoRow}]]
        BY <1>0, <1>1 DEF FindByToken, TypeOK
    <2>2. QED
        BY <1>0, <1>3, <2>1 DEF TypeOK, auth, requests, history
<1>5. CallSound(c)'
    <2>1. CASE t = NoToken
        BY <1>2, <2>1 DEF CallSound, NoRow
    <2>2. CASE t # NoToken
        BY <1>0, <1>2, <1>3, <2>2 DEF CallSound, Sound, RowSound, Honours, history
    <2>3. QED
        BY <2>1, <2>2
<1>6. \A b \in Calls \ {c} : CallSound(b)'
    BY <1>0, <1>2, <1>3 DEF Sound, CallSound, Honours, history
<1>7. QED
    BY <1>0, <1>3, <1>4, <1>5, <1>6, CallsOnly DEF IInv, requests, history, Sound

\* A call that goes on keeps its token and its row; one that ends forgets them.
\* What it was offered or did, it did with a token that was granted.
LEMMA CallStep ==
    ASSUME IInv, NEW c \in Calls, Admit(c) \/ Refuse(c) \/ Handle(c)
    PROVE  IInv'
<1>0. Sound /\ TypeOK /\ CallSound(c)
    BY DEF IInv, Sound
<1> DEFINE Call == [pc : {"idle", "found", "handler", "rename"},
                    token : TokenIDs \cup {NoToken}, row : Row \cup {NoRow}]
<1>1. /\ UNCHANGED <<now, rows, drawn, auth, requests, promised, granted, said>>
      /\ \/ call' = [call EXCEPT ![c] = NoCall]
         \/ /\ call' = [call EXCEPT ![c].pc = "handler"]
            /\ exercised' = exercised
         \/ /\ call' = [call EXCEPT ![c].pc = "rename"]
            /\ MayWrite(c) /\ exercised' = exercised
      /\ exercised' = exercised \/ (Exercise(c) /\ (MayWrite(c) \/ call[c].pc = "rename"))
    BY DEF Admit, Refuse, Handle, CheckFileInfo, AnswerCall, ChangeLock, PutFile,
           RenameFile, Renamed, Proceed, EndCall, history
<1>2. exercised' \subseteq granted
    BY <1>0, <1>1 DEF Exercise, MayWrite, HasPermission, CallSound, Sound
<1>3. call[c] \in Call /\ NoCall \in Call
    BY <1>0 DEF TypeOK, NoCall
<1>4. call' \in [Calls -> Call]
    <2>1. call \in [Calls -> Call]
        BY <1>0 DEF TypeOK
    <2>2. /\ [call[c] EXCEPT !.pc = "handler"] \in Call
          /\ [call[c] EXCEPT !.pc = "rename"] \in Call
        BY <1>3
    <2>3. \/ call' = [call EXCEPT ![c] = NoCall]
          \/ call' = [call EXCEPT ![c] = [call[c] EXCEPT !.pc = "handler"]]
          \/ call' = [call EXCEPT ![c] = [call[c] EXCEPT !.pc = "rename"]]
        BY <1>1
    <2> HIDE DEF Call
    <2>4. QED
        BY <1>3, <2>1, <2>2, <2>3
<1>5. CallSound(c)'
    <2>1. CASE call' = [call EXCEPT ![c] = NoCall]
        BY <1>0, <2>1 DEF TypeOK, CallSound, NoCall, NoRow
    <2>2. CASE \/ call' = [call EXCEPT ![c].pc = "handler"]
               \/ call' = [call EXCEPT ![c].pc = "rename"] /\ MayWrite(c)
        <3>1. /\ call'[c].token = call[c].token /\ call'[c].row = call[c].row
              /\ call'[c].pc = "rename" => MayWrite(c)
            BY <1>0, <1>3, <2>2 DEF TypeOK
        <3>2. QED
            BY <1>0, <1>1, <3>1 DEF CallSound, Honours, MayWrite, HasPermission
    <2>3. QED
        BY <1>1, <2>1, <2>2
<1>6. \A b \in Calls \ {c} : CallSound(b)'
    <2>1. \A b \in Calls \ {c} : call'[b] = call[b]
        BY <1>0, <1>1 DEF TypeOK
    <2>2. QED
        BY <1>0, <1>1, <2>1 DEF Sound, CallSound, Honours
<1>7. TypeOK'
    BY <1>0, <1>1, <1>2, <1>4 DEF TypeOK, auth, requests
<1>8. Sound'
    BY <1>0, <1>1, <1>2, <1>5, <1>6, CallsOnly DEF requests
<1>9. QED
    BY <1>7, <1>8 DEF IInv

\* The sweep deletes a row only once its time, and so the promise, is over.
LEMMA SweepStep ==
    ASSUME IInv, DeleteExpired
    PROVE  IInv'
<1>0. Sound /\ TypeOK
    BY DEF IInv
<1>1. /\ \A t \in TokenIDs : \/ rows'[t] = rows[t]
                             \/ rows'[t] = NoRow /\ rows[t] # NoRow /\ rows[t].expiresAt < now
      /\ UNCHANGED <<now, drawn, auth, requests, call, history>>
    BY DEF DeleteExpired, Swept
<1>2. TypeOK'
    <2>1. rows' \in [TokenIDs -> Row \cup {NoRow}]
        BY <1>0 DEF DeleteExpired, TypeOK
    <2>2. QED
        BY <1>0, <1>1, <2>1 DEF TypeOK, auth, requests, history
<1>3. ASSUME NEW t \in TokenIDs PROVE RowSound(t)'
    <2>1. RowSound(t) /\ (rows'[t] = rows[t] \/ (rows'[t] = NoRow /\ rows[t] # NoRow /\ rows[t].expiresAt < now))
        BY <1>0, <1>1 DEF Sound
    <2>2. CASE rows'[t] = rows[t]
        BY <1>1, <2>1, <2>2 DEF RowSound, Honours, history
    <2>3. CASE rows'[t] = NoRow /\ rows[t] # NoRow /\ rows[t].expiresAt < now
        BY <1>1, <2>1, <2>3 DEF RowSound, Honours, history, NoRow
    <2>4. QED
        BY <2>1, <2>2, <2>3
<1>4. ASSUME NEW r \in Requests PROVE RequestSound(r)' /\ TokenReserved(r)'
    <2>1. RequestSound(r) /\ TokenReserved(r) /\ (request[r].token # NoToken => request[r].token \in TokenIDs)
        BY <1>0 DEF Sound, TypeOK, Request
    <2>2. QED
        BY <1>1, <2>1 DEF RequestSound, TokenReserved, history, requests
<1>5. \A c \in Calls : CallSound(c)'
    BY <1>0, <1>1 DEF Sound, CallSound, Honours, history
<1>6. Sound'
    BY <1>0, <1>1, <1>3, <1>4, <1>5 DEF Sound, history
<1>7. QED
    BY <1>2, <1>6 DEF IInv

\* Time passes: a promise whose row the sweep has deleted stays over.
LEMMA TickStep ==
    ASSUME IInv, Tick
    PROVE  IInv'
<1>0. Sound /\ TypeOK /\ now' = now + 1 /\ UNCHANGED <<rows, drawn, auth, requests, call, history>>
    BY DEF IInv, Tick
<1>1. TypeOK'
    BY <1>0 DEF TypeOK, auth, requests, history
<1>2. ASSUME NEW t \in TokenIDs, NEW row, Honours(row, t) PROVE Honours(row, t)'
    BY <1>0, <1>2 DEF Honours, TypeOK, history, Never
<1>3. ASSUME NEW t \in TokenIDs PROVE RowSound(t)'
    <2>1. RowSound(t)
        BY <1>0 DEF Sound
    <2>2. promised[t] # Never => Honours(rows[t], t)'
        BY <1>0, <1>2, <2>1 DEF RowSound
    <2>3. QED
        BY <1>0, <2>1, <2>2 DEF RowSound, history
<1>4. \A r \in Requests : RequestSound(r)' /\ TokenReserved(r)'
    BY <1>0 DEF Sound, RequestSound, TokenReserved, history, requests
<1>5. ASSUME NEW c \in Calls PROVE CallSound(c)'
    <2>1. CallSound(c) /\ (call[c].token # NoToken => call[c].token \in TokenIDs)
        BY <1>0 DEF Sound, TypeOK
    <2>2. call[c].token # NoToken => Honours(call[c].row, call[c].token)'
        BY <1>0, <1>2, <2>1 DEF CallSound
    <2>3. QED
        BY <1>0, <2>1, <2>2 DEF CallSound, history
<1>6. QED
    BY <1>0, <1>1, <1>3, <1>4, <1>5 DEF IInv, Sound, history

\* Every step of a token request, of a call, of the breaker, of the sweep and of
\* time preserves the invariant.
LEMMA StepInvariant == IInv /\ [Next]_vars => IInv'
<1> SUFFICES ASSUME IInv, [Next]_vars PROVE IInv'
    OBVIOUS
<1>1. ASSUME NEW r \in Requests, IssueToken(r) \/ Advance(r) PROVE IInv'
    BY <1>1, RequestType, RequestStepSound DEF IInv
<1>2. ASSUME UNCHANGED <<now, rows, drawn, request, call, promised, granted, said, exercised>> PROVE Sound'
    BY <1>2, CallsOnly DEF IInv, Sound, CallSound, Honours
<1>3. CASE BreakerTimeout
    <2>1. TypeOK'
        BY <1>3, BreakerAssumption DEF BreakerTimeout, IInv, TypeOK, Fresh, Breaker, requests, history
    <2>2. QED
        BY <1>2, <1>3, <2>1 DEF BreakerTimeout, IInv, requests, history
<1>4. CASE UNCHANGED vars
    <2>1. TypeOK'
        BY <1>4 DEF vars, auth, requests, history, IInv, TypeOK
    <2>2. QED
        BY <1>2, <1>4, <2>1 DEF vars, requests, history, IInv
<1>5. QED
    BY <1>1, <1>3, <1>4, FindByTokenStep, CallStep, SweepStep, TickStep DEF Next

\* The invariant holds of every behaviour of the service.
THEOREM Invariance == Spec => []IInv
BY InitInvariant, StepInvariant, PTL DEF Spec

----------------------------------------------------------------------------

\* Every variable keeps its type: CheckPrivilege makes at most maxRetries
\* attempts, and the counts of the breaker stay within its settings.
THEOREM TypeCorrect == Spec => []TypeOK
<1>1. IInv => TypeOK
    BY DEF IInv
<1>2. QED
    BY Invariance, <1>1, PTL

\* A writable row in access_tokens, every change of a document's content or name
\* (putFile, renameFile) and every CheckFileInfo that offers one go back to a
\* write privilege that the authorization service confirmed in the issuance of
\* the token. The handlers of the lock ask for no permission and are left out.
THEOREM WritesAreGranted == Spec => []WriteNeedsGrant
<1>1. IInv => WriteNeedsGrant
    BY DEF IInv, Sound, RowSound, WriteNeedsGrant
<1>2. QED
    BY Invariance, <1>1, PTL

\* TokenAuthMiddleware answers 401 to the owner of a token only after the
\* access_token_ttl of IssueToken's reply is over, also when the sweep deletes
\* the row or a time.Now() separates the lookup from the expiry check.
THEOREM PromisesAreKept == Spec => PromiseKept
<1>1. ASSUME IInv, NEW c \in Calls, Refuse(c), call[c].token # NoToken
      PROVE  promised[call[c].token] < now
    <2>1. Honours(call[c].row, call[c].token)
        BY <1>1 DEF IInv, Sound, CallSound
    <2>2. call[c].row = NoRow \/ now > call[c].row.expiresAt
        BY <1>1 DEF Refuse, Valid, IsExpired
    <2>3. now \in Int /\ promised[call[c].token] \in Int
        BY <1>1 DEF IInv, TypeOK, Never
    <2>4. QED
        BY <2>1, <2>2, <2>3 DEF Honours
<1>2. ASSUME IInv, [Next]_vars
      PROVE  [\A c \in Calls : Refuse(c) /\ call[c].token # NoToken => promised[call[c].token] < now]_vars
    BY <1>1, <1>2
<1>3. QED
    BY Invariance, <1>2, PTL DEF Spec, PromiseKept

\* A request is answered by a step of its own.
LEMMA AnswerStep ==
    ASSUME IInv, [Next]_vars, NEW r \in Requests,
           request[r].pc # "idle", request'[r].pc = "idle"
    PROVE  Advance(r)
<1>1. request'[r] # request[r]
    OBVIOUS
<1>2. ASSUME NEW q \in Requests \ {r}, IssueToken(q) \/ Advance(q) PROVE request'[r] = request[r]
    <2>0. TypeOK /\ request[q] \in Request /\ q \in Requests
        BY DEF IInv, TypeOK
    <2>1. CASE CheckPrivilege(q) \/ Evaluated(q) \/ Exhausted(q)
        <3>1. \/ \E check \in {"read", "write"}, answer \in {"yes", "no", "error"} : Conclude(q, check, answer)
              \/ request' = [request EXCEPT ![q].pc = "evaluate", ![q].check = request[q].pc]
            BY <2>0, <2>1 DEF CheckPrivilege, Evaluated, Exhausted, Request
        <3>2. QED
            BY <2>0, <3>1, ConcludeEffect DEF TypeOK
    <2>2. CASE ~(CheckPrivilege(q) \/ Evaluated(q) \/ Exhausted(q))
        BY <1>2, <2>0, <2>2 DEF Advance, IssueToken, FindDocument, Retry, GenerateToken, GenerateFails,
              ResolveEditorURL, Create, CreateFails, Reply, GoTo, TypeOK
    <2>3. QED
        BY <2>1, <2>2
<1>3. IssueToken(r) => request[r].pc = "idle"
    BY DEF IssueToken
<1>4. QED
    BY <1>1, <1>2, <1>3 DEF Next, FindByToken, Admit, Refuse, Handle, CheckFileInfo, AnswerCall,
          ChangeLock, PutFile, RenameFile, Renamed, Proceed, EndCall, BreakerTimeout, DeleteExpired, Tick, vars, requests

\* IssueToken resolves the editor URL before it stores the token: a 403, 404,
\* 422 or 503 leaves no row of the token it had drawn.
THEOREM RefusalsLeaveNoRow == Spec => RefusalLeavesNoRow
<1>1. ASSUME IInv, [Next]_vars, NEW r \in Requests,
             request[r].pc # "idle", request'[r].pc = "idle",
             status'[r] \in {"403", "404", "422", "503"}, request[r].token # NoToken
      PROVE  rows'[request[r].token] = NoRow
    <2>1. /\ request[r].pc \in {"editor", "insert"}
          /\ rows[request[r].token] = NoRow
        BY <1>1 DEF IInv, Sound, RequestSound, TokenReserved
    <2>2. ResolveEditorURL(r) \/ Create(r) \/ CreateFails(r)
        BY <1>1, <2>1, AnswerStep DEF Advance, FindDocument, CheckPrivilege, Evaluated, Retry, Exhausted,
              GenerateToken, GenerateFails
    <2>3. ~Create(r)
        BY <1>1 DEF Create, Reply, IInv, TypeOK
    <2>4. QED
        BY <2>1, <2>2, <2>3 DEF ResolveEditorURL, CreateFails
<1>2. ASSUME IInv, [Next]_vars
      PROVE  [\A r \in Requests :
                 /\ request[r].pc # "idle" /\ request'[r].pc = "idle"
                 /\ status'[r] \in {"403", "404", "422", "503"}
                 /\ request[r].token # NoToken
                 => rows'[request[r].token] = NoRow]_vars
    BY <1>1, <1>2
<1>3. QED
    BY Invariance, <1>2, PTL DEF Spec, RefusalLeavesNoRow

\* A 403 is the authorization service's own no: neither an open breaker nor
\* exhausted retries become one.
THEOREM OutagesNeverDeny == Spec => OutageNeverDenies
<1>1. ASSUME IInv, [Next]_vars, NEW r \in Requests,
             request[r].pc # "idle", request'[r].pc = "idle", status'[r] = "403"
      PROVE  said'[r]["read"] = "no"
    <2>0. TypeOK /\ request[r] \in Request /\ Advance(r)
        BY <1>1, AnswerStep DEF IInv, TypeOK
    <2>1. ASSUME NEW code \in Statuses \ {"403"} PROVE ~Reply(r, code)
        BY <1>1, <2>0, ReplyEffect
    <2>2. ASSUME NEW check \in {"read", "write"}, NEW answer \in {"yes", "no", "error"},
                 Conclude(r, check, answer)
          PROVE  check = "read" /\ answer = "no"
        BY <1>1, <2>0, <2>2, ConcludeEffect DEF ReadStatus
    <2>3. Evaluated(r)
        <3>1. request[r].check \in {"read", "write"}
            BY <2>0 DEF Request
        <3>2. ~FindDocument(r) /\ ~GenerateFails(r) /\ ~ResolveEditorURL(r) /\ ~Create(r) /\ ~CreateFails(r)
            BY <1>1, <2>0, <2>1 DEF FindDocument, GenerateFails, ResolveEditorURL, Create, CreateFails,
                  GoTo, Statuses, TypeOK, Request
        <3>3. ~CheckPrivilege(r) /\ ~Exhausted(r)
            <4>1. ASSUME NEW check \in {"read", "write"} PROVE ~Conclude(r, check, "error")
                BY <2>2
            <4>2. request' # [request EXCEPT ![r].pc = "evaluate", ![r].check = request[r].pc]
                BY <1>1, <2>0 DEF TypeOK, Request
            <4>3. QED
                BY <3>1, <4>1, <4>2 DEF CheckPrivilege, Exhausted
        <3>4. ~Retry(r) /\ ~GenerateToken(r)
            <4>1. request' # [request EXCEPT ![r].attempt = @ + 1]
                BY <1>1, <2>0 DEF TypeOK, Request
            <4>2. ASSUME NEW t PROVE request' # [request EXCEPT ![r].pc = "editor", ![r].token = t, ![r].at = now]
                BY <1>1, <2>0 DEF TypeOK, Request
            <4>3. QED
                BY <4>1, <4>2 DEF Retry, GenerateToken
        <3>5. QED
            BY <2>0, <3>2, <3>3, <3>4 DEF Advance
    <2>4. QED
        BY <2>0, <2>2, <2>3 DEF Evaluated, TypeOK, Request
<1>2. ASSUME IInv, [Next]_vars
      PROVE  [\A r \in Requests :
                 request[r].pc # "idle" /\ request'[r].pc = "idle" /\ status'[r] = "403"
                     => said'[r]["read"] = "no"]_vars
    BY <1>1, <1>2
<1>3. QED
    BY Invariance, <1>2, PTL DEF Spec, OutageNeverDenies
=============================================================================
