------------------------- MODULE IdempotencyClaims -------------------------
(***************************************************************************)
(* The idempotency record of domain/idempotency.py and the two operations  *)
(* its repository offers on it, claim and complete.  The in-memory         *)
(* repository runs each under a lock and the Firestore one in a            *)
(* transaction, so each is one step of the module that uses it.  Request   *)
(* hashes are left out: both callers derive the hash from the key, so a    *)
(* stored hash never differs from the one presented with the same key.     *)
(***************************************************************************)
EXTENDS Integers

CONSTANT ClaimTTL   \* DEFAULT_CLAIM_TTL: how long an in-flight claim blocks

ASSUME ClaimAssumption == ClaimTTL \in Nat \ {0}

ClaimStatus == {"ABSENT", "IN_FLIGHT", "COMPLETED"}

IdempotencyRecord == [status: ClaimStatus, expires: Nat]

NoRecord == [status |-> "ABSENT", expires |-> 0]

-----------------------------------------------------------------------------
\* Mutant: the expiry is not looked at.
ClaimableAtOnce(rec, at) == rec.status = "IN_FLIGHT"

\* An in-flight claim that has been abandoned long enough to retake.
IsClaimable(rec, at) == rec.status = "IN_FLIGHT" /\ at >= rec.expires

ClaimOutcome(rec, at) ==
  IF rec.status = "ABSENT" \/ IsClaimable(rec, at) THEN "FRESH"
  ELSE IF rec.status = "COMPLETED" THEN "REPLAY"
  ELSE "IN_PROGRESS"

\* Only a fresh claim runs the effect.
ShouldExecute(rec, at) == ClaimOutcome(rec, at) = "FRESH"

\* What a successful claim stores, over an absent record or an expired claim.
InFlight(at) == [status |-> "IN_FLIGHT", expires |-> at + ClaimTTL]

\* Mutant: completing deletes the record.
CompleteForgets(rec) == NoRecord

\* complete() does not ask who claimed: it keeps a first completion and
\* completes any claim that is in flight.
AfterComplete(rec) == [rec EXCEPT !.status = "COMPLETED"]
=============================================================================
