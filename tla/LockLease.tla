----------------------------- MODULE LockLease -----------------------------
(***************************************************************************)
(* What the WOPI locks promise to the editing sessions of one document, as *)
(* docs/wopi-locking.md and FR-007 put it: at most one session holds the   *)
(* lock; it holds it until the expiry it was last told, unless it gives it *)
(* up or is evicted after MaxLockLifetime; and whoever holds it, the lock  *)
(* is free again at most LockDuration later.                               *)
(*                                                                         *)
(* There are no requests, rows or statements here. A grant takes effect at *)
(* one instant, and its holder may or may not learn of it. WopiLocks_lease *)
(* shows how the lock service implements this.                             *)
(***************************************************************************)
EXTENDS Integers

CONSTANTS
    LockIDs,         \* the sessions, by the lock ID they choose
    NoLock,          \* no session
    LockDuration,    \* how long a grant lasts
    MaxLockLifetime  \* the age at which a lock may be taken; zero or less: never

VARIABLES
    clock,   \* the time
    holder,  \* the session that holds the lock, or NoLock
    until,   \* when its grant ends, 0 if nobody holds the lock
    born,    \* since when the lock is held, its transfers included, or earlier
    lease    \* what each session counts on: an expiry, 0 for nothing

vars == <<clock, holder, until, born, lease>>

----------------------------------------------------------------------------

\* The lock is l's from now on; l may be told so, and the others keep what
\* they count on, except those in forget.
Grant(l, forget) ==
    /\ holder' = l
    /\ until' \in clock + 1 .. clock + LockDuration
    /\ \E told \in BOOLEAN :
         lease' = [m \in LockIDs |-> IF m = l THEN IF told THEN until' ELSE lease[l]
                                     ELSE IF m \in forget THEN 0 ELSE lease[m]]
    /\ UNCHANGED clock

\* A free lock is acquired. Its age may be that of an earlier lock.
Acquire(l) ==
    /\ holder = NoLock
    /\ born' \in 0 .. clock
    /\ Grant(l, {})

\* A grant is only ever prolonged.
Renew(l) ==
    /\ holder = l
    /\ until' >= until
    /\ UNCHANGED born
    /\ Grant(l, {})

\* The holder, who no longer counts on the lock, passes it on.
Transfer(l, m) ==
    /\ holder = l /\ lease[l] = 0
    /\ until' >= until
    /\ UNCHANGED born
    /\ Grant(m, {})

\* A session takes the lock from one that has had it for too long.
Evict(l, m) ==
    /\ holder = l /\ l # m
    /\ MaxLockLifetime > 0 /\ clock - born > MaxLockLifetime
    /\ born' \in 0 .. clock
    /\ Grant(m, {l})

\* Nobody holds the lock.
Free ==
    /\ holder' = NoLock
    /\ until' = 0
    /\ born' = 0

Release(l) ==
    /\ holder = l /\ lease[l] = 0
    /\ Free
    /\ UNCHANGED <<clock, lease>>

\* The session stops counting on the lock: it is about to give it up.
Yield(l) ==
    /\ lease' = [lease EXCEPT ![l] = 0]
    /\ UNCHANGED <<clock, holder, until, born>>

\* Grants end by themselves, and at no other time.
Tick ==
    /\ clock' = clock + 1
    /\ IF until <= clock' THEN Free ELSE UNCHANGED <<holder, until, born>>
    /\ lease' = [l \in LockIDs |-> IF lease[l] > clock' THEN lease[l] ELSE 0]

----------------------------------------------------------------------------

Init ==
    /\ clock = 0
    /\ holder = NoLock
    /\ until = 0
    /\ born = 0
    /\ lease = [l \in LockIDs |-> 0]

Next ==
    \/ \E l \in LockIDs :
        \/ Acquire(l)
        \/ Renew(l)
        \/ Release(l)
        \/ Yield(l)
        \/ \E m \in LockIDs : Transfer(l, m) \/ Evict(l, m)
    \/ Tick

Spec == Init /\ [][Next]_vars

----------------------------------------------------------------------------

\* Only the holder counts on the lock, and for no longer than it is granted:
\* no two sessions ever count on it at once.
LeaseSound ==
    \A l \in LockIDs :
        lease[l] # 0 => l = holder /\ clock < lease[l] /\ lease[l] <= until
=============================================================================
