--------------------------- MODULE CircuitBreaker ---------------------------
(***************************************************************************)
(* The circuit breaker of reliability/breaker.py: the value one breaker    *)
(* holds and what its three methods do to it.  A breaker guards one        *)
(* subscriber of the event bus and one source fetcher; the modules that    *)
(* use it hold a breaker in a variable of theirs and call these operators  *)
(* where the code calls the methods.  Every method is synchronous, so a    *)
(* call is one indivisible step.                                           *)
(***************************************************************************)
EXTENDS Integers

CONSTANTS FailureThreshold,  \* consecutive failures that open the breaker
          Cooldown           \* how long an open breaker refuses callers

ASSUME BreakerAssumption == /\ FailureThreshold \in Nat \ {0}
                            /\ Cooldown \in Nat \ {0}

CircuitState == {"CLOSED", "OPEN", "HALF_OPEN"}

\* openUntil is 0 when the code holds None; it is only read while OPEN.
Breaker == [state: CircuitState, failures: Nat, openUntil: Nat]

ClosedBreaker == [state |-> "CLOSED", failures |-> 0, openUntil |-> 0]

-----------------------------------------------------------------------------
\* allow(now): the answer, and the promotion to HALF_OPEN it makes on the way.
Admits(b, now) == b.state # "OPEN" \/ now >= b.openUntil

AfterAllow(b, now) ==
  IF b.state = "OPEN" /\ now >= b.openUntil
    THEN [b EXCEPT !.state = "HALF_OPEN"]
    ELSE b

\* Mutant: a success closes the breaker and forgets to reset the count.
CloseKeepingCount(b) == [b EXCEPT !.state = "CLOSED"]

AfterSuccess(b) == ClosedBreaker

AfterFailure(b, now) ==
  LET failures == b.failures + 1
  IN  IF b.state = "HALF_OPEN" \/ failures >= FailureThreshold
        THEN [state |-> "OPEN", failures |-> failures, openUntil |-> now + Cooldown]
        ELSE [b EXCEPT !.failures = failures]

-----------------------------------------------------------------------------
\* What every breaker value satisfies: it is CLOSED exactly while the
\* consecutive failures are below the threshold, so no run of failures is
\* forgotten and no success leaves it shut.
BreakerConsistent(b) == (b.state = "CLOSED") <=> (b.failures < FailureThreshold)
=============================================================================
