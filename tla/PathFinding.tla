---------------------------- MODULE PathFinding ----------------------------
(***************************************************************************)
(* The search of incident/pathfinding.py: A* over a graph of places and    *)
(* priced legs, from one place to another, or a refusal.  One action is    *)
(* one turn of a loop of the code: of the search over its frontier, or of  *)
(* the walk back over the predecessors.  Whoever EXTENDS this module       *)
(* builds the graph and asks.                                              *)
(***************************************************************************)
EXTENDS Integers, FiniteSets

CONSTANTS Places,        \* whatever a node may stand for
          Id,            \* the order of the nodes' ids
          Straight,      \* the straight line between two places, in cost
          None,          \* no place, no cost
          MaxExpansions  \* MAX_EXPANSIONS

ASSUME PlacesAssumption ==
  /\ None \notin Places \cup Nat /\ MaxExpansions \in Nat
  /\ Id \in [Places -> Nat] /\ \A a, b \in Places : Id[a] = Id[b] => a = b
  /\ Straight \in [Places \X Places -> Nat] /\ \A a \in Places : Straight[<<a, a>>] = 0

VARIABLES nodes,    \* the graph: its nodes
          legs,     \* and the cost of each leg, a function on pairs of them
          start, goal,
          best,     \* g_score: the cost of the best way found to a node
          came,     \* came_from: the node before it on that way
          settled,
          frontier, \* the heap
          status,   \* how far the search has come
          cursor,   \* where walking back has arrived
          route     \* the nodes it has passed

graphVars == <<nodes, legs>>
scoreVars == <<best, came, settled, frontier>>
walkVars == <<cursor, route>>
searchVars == <<start, goal, scoreVars, status, walkVars>>

HeapEntry == [f: Nat, g: Nat, at: Places]

SearchTypeOK ==
  /\ nodes \subseteq Places
  /\ DOMAIN legs \subseteq nodes \X nodes /\ legs \in [DOMAIN legs -> Nat \ {0}]
  /\ start \in Places /\ goal \in Places
  /\ best \in [Places -> Nat \cup {None}] /\ came \in [Places -> Places \cup {None}]
  /\ settled \subseteq nodes /\ frontier \subseteq HeapEntry
  /\ status \in {"idle", "searching", "walking", "found", "refused"}
  /\ cursor \in Places /\ route \subseteq Places

\* Mutant: the weighted heuristic the module's docstring warns of.
WeightedEstimate(v, t) == 2 * Straight[<<v, t>>]

\* euclidean_heuristic().
Estimate(v, t) == Straight[<<v, t>>]

\* astar() up to its loop: what the graph does not have is refused.
Ask(s, t) ==
  /\ start' = s /\ goal' = t
  /\ best' = [v \in Places |-> IF v = s THEN 0 ELSE None] /\ came' = [v \in Places |-> None]
  /\ settled' = {} /\ frontier' = {[f |-> Estimate(s, t), g |-> 0, at |-> s]}
  /\ status' = IF ~ {s, t} \subseteq nodes THEN "refused" ELSE IF s = t THEN "walking" ELSE "searching"
  /\ cursor' = t /\ route' = {}

\* The order of the frontier.
Before(d, e) ==
  \/ d.f < e.f
  \/ d.f = e.f /\ d.g < e.g
  \/ d.f = e.f /\ d.g = e.g /\ Id[d.at] <= Id[e.at]
Popped(e) == e \in frontier /\ \A d \in frontier : Before(e, d)

\* An entry of a node that was settled by a better one is skipped.
SkipStale(e) ==
  /\ status = "searching" /\ Popped(e) /\ e.at \in settled
  /\ frontier' = frontier \ {e}
  /\ UNCHANGED <<graphVars, start, goal, best, came, settled, status, walkVars>>

\* Relaxing a leg finds a strictly better way to a node not settled.
Improves(e, v) ==
  /\ <<e.at, v>> \in DOMAIN legs /\ v \notin settled \cup {e.at}
  /\ best[v] = None \/ e.g + legs[<<e.at, v>>] < best[v]

Relax(e) ==
  LET improved == {v \in Places : Improves(e, v)}
      cost(v) == e.g + legs[<<e.at, v>>]
  IN /\ best' = [v \in Places |-> IF v \in improved THEN cost(v) ELSE best[v]]
     /\ came' = [v \in Places |-> IF v \in improved THEN e.at ELSE came[v]]
     /\ frontier' = (frontier \ {e}) \cup
                      {[f |-> cost(v) + Estimate(v, goal), g |-> cost(v), at |-> v] : v \in improved}

\* A node is settled: the goal ends the search, too many give it up, and from
\* any other its legs are relaxed.
Expand(e) ==
  /\ status = "searching" /\ Popped(e) /\ e.at \notin settled
  /\ settled' = settled \cup {e.at}
  /\ IF e.at = goal \/ Cardinality(settled') > MaxExpansions
       THEN /\ status' = IF e.at = goal THEN "walking" ELSE "refused"
            /\ UNCHANGED <<best, came, frontier>>
       ELSE Relax(e) /\ UNCHANGED status
  /\ UNCHANGED <<graphVars, start, goal, walkVars>>

\* Nothing is left to expand: no leg connects the start to the goal.
Exhaust ==
  /\ status = "searching" /\ frontier = {} /\ status' = "refused"
  /\ UNCHANGED <<graphVars, start, goal, scoreVars, walkVars>>

\* _reconstruct(): back over the predecessors, as far as the start.
WalkBack ==
  /\ status = "walking"
  /\ route' = route \cup {cursor}
  /\ IF cursor = start THEN status' = "found" /\ UNCHANGED cursor
                       ELSE cursor' = came[cursor] /\ UNCHANGED status
  /\ UNCHANGED <<graphVars, start, goal, scoreVars>>

SearchStep == (\E e \in frontier : SkipStale(e) \/ Expand(e)) \/ Exhaust \/ WalkBack

-----------------------------------------------------------------------------
\* What any walk from the start to a node costs at least: what the search found
\* if that was settled before the goal, else what the straight line leaves.
AtLeast(v) ==
  IF best[v] # None /\ best[v] + Straight[<<v, goal>>] < best[goal]
    THEN best[v] ELSE best[goal] - Straight[<<v, goal>>]

\* No walk costs less than the route: AtLeast begins at nothing, grows along
\* each leg by no more than its cost and ends at the route's cost.
NothingIsCheaper ==
  /\ AtLeast(start) = 0 /\ AtLeast(goal) = best[goal]
  /\ \A leg \in DOMAIN legs : AtLeast(leg[2]) <= AtLeast(leg[1]) + legs[leg]

\* The route runs from the goal back to the start over legs of the graph, and
\* they add up to its cost.
RouteAddsUp ==
  /\ {start, goal} \subseteq route /\ best[start] = 0
  /\ \A v \in route \ {start} :
       /\ came[v] \in route /\ <<came[v], v>> \in DOMAIN legs
       /\ best[v] = best[came[v]] + legs[<<came[v], v>>]

\* No walk leads from the start to the goal: the settled nodes have no leg out.
NothingLeads ==
  /\ start \in settled /\ goal \notin settled
  /\ \A leg \in DOMAIN legs : leg[1] \in settled => leg[2] \in settled

\* The search answers with a cheapest route or refuses because there is none --
\* never with a worse route, a partial one or a refusal of what is possible --
\* unless it is asked for a node the graph does not have or would expand more
\* nodes than it may (astar, the consistency of its heuristic and its lazily
\* cleaned frontier).
PathIsCheapest ==
  /\ status = "found" => NothingIsCheaper /\ RouteAddsUp
  /\ status = "refused" =>
       \/ ~ {start, goal} \subseteq nodes \/ Cardinality(settled) > MaxExpansions
       \/ NothingLeads
=============================================================================
