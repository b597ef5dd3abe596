-------------------------- MODULE WopiLocks_lease --------------------------
(***************************************************************************)
(* WopiLocks implements LockLease as long as no two requests overlap: a    *)
(* row that FindByFileID would return is a lock that is held, and a        *)
(* session counts on the last expiry it was told until that has passed.    *)
(* With overlapping requests it does not (see MutualExclusion).            *)
(***************************************************************************)
EXTENDS WopiLocks

Lease == INSTANCE LockLease WITH
    clock  <- now,
    holder <- Found.lockID,
    until  <- Found.expiresAt,
    born   <- Found.createdAt,
    lease  <- [l \in LockIDs |-> IF lease[l] > now THEN lease[l] ELSE 0]

\* Every step of the service, of the sweep and of the clock is one step of the
\* abstract lock or none: lost replies, expired rows that still lie in the
\* table, inherited ages and delayed statements included.
ImplementsLease == Lease!Spec
=============================================================================
