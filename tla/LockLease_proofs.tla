-------------------------- MODULE LockLease_proofs --------------------------
(***************************************************************************)
(* The abstract lock is a lock: only its holder counts on it. Together     *)
(* with ImplementsLease this is what a session of the service may rely on. *)
(***************************************************************************)
EXTENDS LockLease, TLAPS

\* The times are numbers, and only the holder counts on the lock.
LeaseInv ==
    /\ clock \in Nat /\ until \in Nat
    /\ lease \in [LockIDs -> Nat]
    /\ LeaseSound

\* A grant to l is sound if nobody keeps counting on the lock but l itself,
\* and l on no more than it is granted now.
LEMMA GrantKeepsLease ==
    ASSUME LockDuration \in Nat,
           NEW l \in LockIDs, NEW forget,
           LeaseInv, Grant(l, forget),
           \A m \in LockIDs \ {l} : m \in forget \/ lease[m] = 0,
           lease[l] # 0 => lease[l] <= until' /\ clock < lease[l]
    PROVE  LeaseInv'
  <1>1. /\ clock' = clock /\ holder' = l
        /\ until' \in Nat /\ clock < until'
    BY DEF Grant, LeaseInv
  <1>2. PICK told \in BOOLEAN :
          lease' = [m \in LockIDs |-> IF m = l THEN IF told THEN until' ELSE lease[l]
                                      ELSE IF m \in forget THEN 0 ELSE lease[m]]
    BY DEF Grant
  <1>3. lease' \in [LockIDs -> Nat]
    BY <1>1, <1>2 DEF LeaseInv
  <1>4. ASSUME NEW m \in LockIDs, lease'[m] # 0
        PROVE  m = holder' /\ clock' < lease'[m] /\ lease'[m] <= until'
    <2>1. CASE m = l
      BY <1>1, <1>2, <1>4, <2>1 DEF LeaseInv
    <2>2. CASE m # l
      <3>1. lease'[m] = IF m \in forget THEN 0 ELSE lease[m]
        BY <1>2, <2>2
      <3>2. QED
        BY <1>4, <2>2, <3>1
    <2>3. QED
      BY <2>1, <2>2
  <1>5. QED
    BY <1>1, <1>3, <1>4 DEF LeaseInv, LeaseSound

\* In every behaviour of the abstract lock, whatever the sessions, the duration
\* and the lifetime: at most one session counts on the lock, it is the holder,
\* and its grant outlasts what it counts on. This is the mutual exclusion that
\* Lock, RefreshLock, UnlockAndRelock and the takeover promise to an editor.
THEOREM LeaseIsSound ==
    ASSUME NoLock \notin LockIDs, LockDuration \in Nat
    PROVE  Spec => []LeaseSound
  <1>1. Init => LeaseInv
    BY DEF Init, LeaseInv, LeaseSound
  <1>2. LeaseInv /\ [Next]_vars => LeaseInv'
    <2> SUFFICES ASSUME LeaseInv, [Next]_vars PROVE LeaseInv'
      OBVIOUS
    <2>1. ASSUME NEW l \in LockIDs, Acquire(l) PROVE LeaseInv'
      <3>1. \A m \in LockIDs : lease[m] = 0
        BY <2>1 DEF Acquire, LeaseInv, LeaseSound
      <3>2. QED
        BY <2>1, <3>1, GrantKeepsLease DEF Acquire
    <2>2. ASSUME NEW l \in LockIDs, Renew(l) PROVE LeaseInv'
      <3>1. \A m \in LockIDs \ {l} : lease[m] = 0
        BY <2>2 DEF Renew, LeaseInv, LeaseSound
      <3>2. lease[l] # 0 => lease[l] <= until' /\ clock < lease[l]
        BY <2>2 DEF Renew, Grant, LeaseInv, LeaseSound
      <3>3. QED
        BY <2>2, <3>1, <3>2, GrantKeepsLease DEF Renew
    <2>3. ASSUME NEW l \in LockIDs, NEW m \in LockIDs, Transfer(l, m) PROVE LeaseInv'
      <3>1. \A n \in LockIDs : lease[n] = 0
        BY <2>3 DEF Transfer, LeaseInv, LeaseSound
      <3>2. QED
        BY <2>3, <3>1, GrantKeepsLease DEF Transfer
    <2>4. ASSUME NEW l \in LockIDs, NEW m \in LockIDs, Evict(l, m) PROVE LeaseInv'
      <3>1. \A n \in LockIDs \ {l} : lease[n] = 0
        BY <2>4 DEF Evict, LeaseInv, LeaseSound
      <3>2. lease[m] = 0
        BY <2>4, <3>1 DEF Evict
      <3>3. QED
        BY <2>4, <3>1, <3>2, GrantKeepsLease DEF Evict
    <2>5. ASSUME NEW l \in LockIDs, Release(l) PROVE LeaseInv'
      BY <2>5 DEF Release, Free, LeaseInv, LeaseSound
    <2>6. ASSUME NEW l \in LockIDs, Yield(l) PROVE LeaseInv'
      BY <2>6 DEF Yield, LeaseInv, LeaseSound
    <2>7. CASE Tick
      <3>1. /\ clock' \in Nat /\ until' \in Nat
            /\ lease' \in [LockIDs -> Nat]
        BY <2>7 DEF Tick, Free, LeaseInv
      <3>2. ASSUME NEW l \in LockIDs, lease'[l] # 0
            PROVE  l = holder' /\ clock' < lease'[l] /\ lease'[l] <= until'
        <4>1. lease'[l] = lease[l] /\ lease[l] > clock'
          BY <2>7, <3>2 DEF Tick
        <4>2. l = holder /\ lease[l] <= until
          BY <3>2, <4>1 DEF LeaseInv, LeaseSound
        <4>3. UNCHANGED <<holder, until>>
          BY <2>7, <3>1, <4>1, <4>2 DEF Tick, LeaseInv
        <4>4. QED
          BY <4>1, <4>2, <4>3
      <3>3. QED
        BY <3>1, <3>2 DEF LeaseInv, LeaseSound
    <2>8. CASE UNCHANGED vars
      BY <2>8 DEF vars, LeaseInv, LeaseSound
    <2>9. QED
      BY <2>1, <2>2, <2>3, <2>4, <2>5, <2>6, <2>7, <2>8 DEF Next
  <1>3. LeaseInv => LeaseSound
    BY DEF LeaseInv
  <1>4. QED
    BY <1>1, <1>2, <1>3, PTL DEF Spec
=============================================================================
