---------------------------- MODULE GraphDriver ----------------------------
(***************************************************************************)
(* The loop under the watchers' reasoning graphs (agents/graphs/base.py):  *)
(* a node runs and is charged, a router that sees only the state picks the *)
(* next one, and a ceiling on time or on steps sends the graph to its park *)
(* node.  A module that EXTENDS this one brings the nodes and the router.  *)
(* The built-in driver; LangGraph, when installed, runs the same nodes.    *)
(***************************************************************************)
EXTENDS Integers, FiniteSets

CONSTANTS None,
          Ceilings  \* the max_steps passes are built with

\* GraphStop, and the planner that raises.
Stops == {"CLOSED", "OUT_OF_TIME", "OUT_OF_STEPS", "UNRESOLVED", "RAISED"}

ASSUME CeilingsAssumption == Ceilings \subseteq Nat \ {0} /\ None \notin Stops

VARIABLES at,       \* the node that runs next, or how far the agent's tail is
          stop,     \* why the graph stopped
          steps, ceiling, late,  \* BudgetGuard
          ruledOut, \* tokens: a source and what it did not settle
          threads   \* the questions the pass opened

budgetVars == <<steps, ceiling, late>>
driverVars == <<at, stop, budgetVars, ruledOut, threads>>

STOP == "__end__"

\* Mutant: no room for the park node and the hop out of it.
TightIterations == ceiling

\* The backstop of run_graph().
MaxIterations == ceiling + 2

\* BudgetGuard.exhausted(): time first.
Exhausted == IF late THEN "OUT_OF_TIME" ELSE IF steps >= ceiling THEN "OUT_OF_STEPS" ELSE None

\* What a router makes of its own choice: a stop and an exhausted budget come
\* first, and the driver's backstop before either.
Routed(next) ==
  IF stop # None \/ steps >= MaxIterations THEN STOP ELSE IF Exhausted # None THEN "park" ELSE next

\* A pass begins with nothing known.
Begins(entry) ==
  /\ at = entry /\ stop = None /\ steps = 0 /\ ceiling \in Ceilings /\ late = FALSE
  /\ ruledOut = {} /\ threads = {}

\* The next pass of the agent begins like the first, under the same ceiling.
BeginsAgain(entry) ==
  /\ at \in {"over", "failed"}
  /\ at' = entry /\ stop' = None /\ steps' = 0 /\ late' = FALSE
  /\ ruledOut' = {} /\ threads' = {} /\ UNCHANGED ceiling

\* One node runs: it is charged, and time passes.
Charge(node) ==
  /\ at = node /\ steps' = steps + 1 /\ late' \in {late, TRUE}
  /\ UNCHANGED <<ceiling, threads>>

\* Every park node: the ceiling that was reached, or nothing left to try.
Parks == stop' = IF Exhausted' # None THEN Exhausted' ELSE "UNRESOLVED"

\* A store call that fails under park() ends the poll.
PollRaises == at = STOP /\ at' = "failed" /\ UNCHANGED <<stop, budgetVars, ruledOut, threads>>

\* GraphTrace.stop.
Outcome == IF stop = None THEN "CLOSED" ELSE stop
=============================================================================
