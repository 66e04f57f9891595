-------------------------- MODULE MCEventDelivery --------------------------
(***************************************************************************)
(* An instance of EventDelivery for TLC: two delivery slots in one         *)
(* process, which share its breaker and the idempotency records.           *)
(***************************************************************************)
EXTENDS EventDelivery, TLC

CONSTANTS e1, e2, t1, t2, p1

OneProcess == (t1 :> p1) @@ (t2 :> p1)
=============================================================================
