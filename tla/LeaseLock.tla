----------------------------- MODULE LeaseLock -----------------------------
(***************************************************************************)
(* One leased lock of the lock repository; each operation is one           *)
(* transaction (one lock section of the in-memory store).  The fence that  *)
(* every acquisition increments is left out: no caller ever compares it.   *)
(***************************************************************************)
EXTENDS Naturals

CONSTANTS Owners,   \* the identities locks are taken under
          Nobody,   \* the owner of a free lock
          Lease     \* how long a lock is granted for

ASSUME LockAssumption == Nobody \notin Owners /\ Lease \in Nat \ {0}

VARIABLE lock

LockLease == [owner: Owners \cup {Nobody}, expires: Nat]

FreeLock == [owner |-> Nobody, expires |-> 0]

\* An owner may always take its own lock again.
Grantable(owner, at) == lock.owner \in {Nobody, owner} \/ at >= lock.expires

AcquireLock(owner, at) ==
  /\ Grantable(owner, at)
  /\ lock' = [owner |-> owner, expires |-> at + Lease]

\* Mutant: whoever is done frees the lock, whosever it is by now.
FreeForAll(owner) == lock' = FreeLock

ReleaseLock(owner) == lock' = IF lock.owner = owner THEN FreeLock ELSE lock
=============================================================================
