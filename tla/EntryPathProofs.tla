-------------------------- MODULE EntryPathProofs --------------------------
(***************************************************************************)
(* That A* with a consistent heuristic returns a cheapest route or refuses *)
(* with reason, on any graph; and that every route of an entry plan is a   *)
(* cheapest one, whatever was read of the walls, is on record of the       *)
(* structure and may be asked for: the graph that build_graph() prices     *)
(* keeps the triangle inequality.                                          *)
(***************************************************************************)
EXTENDS EntryPath, TLAPS, FiniteSetTheorems, WellFoundedInduction

-----------------------------------------------------------------------------
(* The search of PathFinding, on any graph. *)


\* The heuristic is consistent: it drops along a leg by no more than its cost.
Consistent ==
  \A leg \in DOMAIN legs : \A c \in Places : Straight[<<leg[1], c>>] <= legs[leg] + Straight[<<leg[2], c>>]

\* Every entry of the frontier stands for a way found, if not the best.
Entries ==
  \A d \in frontier :
    /\ d.at \in nodes /\ best[d.at] # None /\ best[d.at] <= d.g
    /\ d.f = d.g + Straight[<<d.at, goal>>]

\* The best way to a node that is not settled has its entry.
Queued ==
  \A v \in Places : best[v] # None /\ v \notin settled =>
    [f |-> best[v] + Straight[<<v, goal>>], g |-> best[v], at |-> v] \in frontier

\* Nodes are settled in the order of what they promise.
Monotone ==
  \A s \in settled :
    best[s] # None /\ \A d \in frontier : best[s] + Straight[<<s, goal>>] <= d.f

\* The legs of a settled node are relaxed, unless the search ends there.
Relaxed ==
  \A leg \in DOMAIN legs :
    leg[1] \in settled /\ leg[1] # goal /\ (status # "refused" \/ ~ (Cardinality(settled) > MaxExpansions)) =>
      best[leg[2]] # None /\ best[leg[2]] <= best[leg[1]] + legs[leg]

\* Every way found goes on from a settled node.
Tree ==
  \A v \in Places \ {start} : best[v] # None =>
    /\ came[v] \in settled /\ <<came[v], v>> \in DOMAIN legs
    /\ best[v] = best[came[v]] + legs[<<came[v], v>>]

\* The search begins at the start,
Begun ==
  /\ best[start] = 0
  /\ start \notin settled =>
       settled = {} /\ \A v \in Places \ {start} : best[v] = None

\* and ends at the goal, with an empty frontier or at its ceiling.
Ended ==
  /\ status = "searching" => goal \notin settled /\ start # goal
  /\ status \in {"walking", "found"} =>
       start = goal \/ (goal \in settled /\ \A s \in settled : best[s] + Straight[<<s, goal>>] <= best[goal])
  /\ status = "refused" => goal \notin settled /\ (frontier = {} \/ Cardinality(settled) > MaxExpansions)

\* Walking back begins at the goal and passes nodes whose predecessor it passes
\* next.
Walked ==
  /\ status = "searching" => cursor = goal /\ route = {}
  /\ status = "walking" =>
       /\ best[cursor] # None /\ goal \in route \cup {cursor} /\ start \notin route
       /\ \A v \in route : v \in Places /\ best[v] # None /\ came[v] \in route \cup {cursor}
  /\ status = "found" =>
       /\ {start, goal} \subseteq route
       /\ \A v \in route \ {start} : v \in Places /\ best[v] # None /\ came[v] \in route

SearchInv ==
  /\ status \in {"searching", "walking", "found"} => {start, goal} \subseteq nodes
  /\ status # "idle" /\ {start, goal} \subseteq nodes =>
       Entries /\ Queued /\ Monotone /\ Relaxed /\ Tree /\ Begun /\ Ended /\ Walked

-----------------------------------------------------------------------------
\* Asking leaves a search that has begun.
LEMMA AskTypes ==
  ASSUME SearchTypeOK, NEW s \in Places, NEW t \in Places, Ask(s, t), UNCHANGED graphVars
  PROVE  SearchTypeOK'
<1>1. Straight[<<s, t>>] \in Nat
  BY PlacesAssumption
<1>2. [f |-> Estimate(s, t), g |-> 0, at |-> s] \in HeapEntry
  BY <1>1 DEF Estimate, HeapEntry
<1> QED
  BY <1>2 DEF SearchTypeOK, Ask, graphVars

LEMMA AskBegins ==
  ASSUME SearchTypeOK, NEW s \in Places, NEW t \in Places, Ask(s, t), UNCHANGED graphVars
  PROVE  SearchInv'
<1> SUFFICES ASSUME {start', goal'} \subseteq nodes'
             PROVE  (Entries /\ Queued /\ Monotone /\ Relaxed /\ Tree /\ Begun /\ Ended /\ Walked)'
  BY DEF SearchInv, Ask, graphVars
<1> USE DEF Ask, graphVars
<1>1. None \notin Nat /\ Straight[<<s, t>>] \in Nat /\ 0 # None
  BY PlacesAssumption
<1>2. \A v \in Places : best'[v] = IF v = s THEN 0 ELSE None
  OBVIOUS
<1>3. Entries'
  BY <1>1, <1>2 DEF Entries, Estimate
<1>4. Queued'
  BY <1>1, <1>2 DEF Queued, Estimate
<1>5. Monotone' /\ Relaxed'
  BY DEF Monotone, Relaxed
<1>6. Tree' /\ Begun'
  BY <1>1, <1>2 DEF Tree, Begun
<1>7. Ended'
  BY DEF Ended
<1>8. Walked'
  BY <1>1, <1>2 DEF Walked
<1> QED
  BY <1>3, <1>4, <1>5, <1>6, <1>7, <1>8

-----------------------------------------------------------------------------
\* The cheapest entry of a node that is not settled holds the best way to it.
LEMMA PoppedIsBest ==
  ASSUME SearchTypeOK, Entries, Queued, NEW e \in frontier, Popped(e), e.at \notin settled
  PROVE  /\ e.at \in nodes /\ e.at \in Places /\ e.g \in Nat /\ best[e.at] = e.g
         /\ e.f = e.g + Straight[<<e.at, goal>>]
         /\ \A d \in frontier : e.f <= d.f
<1>1. e.at \in nodes /\ e.at \in Places /\ e.g \in Nat /\ e.f \in Nat
  BY DEF SearchTypeOK, HeapEntry, Entries
<1>2. best[e.at] # None /\ best[e.at] <= e.g /\ e.f = e.g + Straight[<<e.at, goal>>]
  BY DEF Entries
<1>3. best[e.at] \in Nat /\ Straight[<<e.at, goal>>] \in Nat
  BY <1>1, <1>2, PlacesAssumption DEF SearchTypeOK
<1>4. \A d \in frontier : d.f \in Nat /\ e.f <= d.f
  BY <1>1 DEF Popped, Before, SearchTypeOK, HeapEntry
<1> DEFINE d == [f |-> best[e.at] + Straight[<<e.at, goal>>], g |-> best[e.at], at |-> e.at]
<1>5. d \in frontier
  BY <1>1, <1>2 DEF Queued
<1>6. e.f <= best[e.at] + Straight[<<e.at, goal>>]
  BY <1>4, <1>5
<1> QED
  BY <1>1, <1>2, <1>3, <1>4, <1>6

\* What relaxing the legs of a node does to the others.
LEMMA RelaxEffect ==
  ASSUME SearchTypeOK, NEW e \in frontier, Relax(e)
  PROVE  /\ \A v \in Places :
              \/ /\ Improves(e, v) /\ best'[v] = e.g + legs[<<e.at, v>>] /\ came'[v] = e.at
                 /\ [f |-> best'[v] + Straight[<<v, goal>>], g |-> best'[v], at |-> v] \in frontier'
              \/ ~ Improves(e, v) /\ best'[v] = best[v] /\ came'[v] = came[v]
         /\ \A d \in frontier \ {e} : d \in frontier'
         /\ \A d \in frontier' :
              \/ d \in frontier \ {e}
              \/ \E v \in Places : /\ Improves(e, v)
                                   /\ d = [f |-> best'[v] + Straight[<<v, goal>>], g |-> best'[v], at |-> v]
BY DEF Relax, Estimate

\* The cost of a leg is a positive number.
LEMMA LegCosts ==
  ASSUME SearchTypeOK, NEW a, NEW b, <<a, b>> \in DOMAIN legs
  PROVE  a \in nodes /\ b \in nodes /\ legs[<<a, b>>] \in Nat /\ legs[<<a, b>>] > 0
BY DEF SearchTypeOK

-----------------------------------------------------------------------------
\* Skipping an entry of a settled node changes nothing that counts.
LEMMA SkipStaleKeeps ==
  ASSUME SearchTypeOK, SearchInv, NEW e \in frontier, SkipStale(e)
  PROVE  SearchTypeOK' /\ SearchInv'
<1> USE DEF SkipStale, graphVars, walkVars
<1>1. SearchTypeOK'
  BY DEF SearchTypeOK
<1>2. {start, goal} \subseteq nodes /\ Entries /\ Queued /\ Monotone /\ Relaxed /\ Tree /\ Begun /\ Ended /\ Walked
  BY DEF SearchInv
<1>3. \A d \in frontier : d.at # e.at => d \in frontier'
  OBVIOUS
<1>4. Entries' /\ Monotone'
  BY <1>2 DEF Entries, Monotone
<1>5. Queued'
  BY <1>2, <1>3 DEF Queued
<1>6. Relaxed' /\ Tree' /\ Begun' /\ Ended' /\ Walked'
  BY <1>2 DEF Relaxed, Tree, Begun, Ended, Walked
<1> QED
  BY <1>1, <1>2, <1>4, <1>5, <1>6 DEF SearchInv

\* Settling the cheapest node of the frontier keeps the order, and the first
\* one settled is the start.
LEMMA SettleEffect ==
  ASSUME SearchTypeOK, Entries, Queued, Monotone, Begun,
         NEW e \in frontier, Popped(e), e.at \notin settled
  PROVE  /\ \A s \in settled \cup {e.at} : /\ s \in Places /\ best[s] \in Nat /\ best[s] # None
                                           /\ best[s] + Straight[<<s, goal>>] <= e.f
         /\ start \in settled \cup {e.at}
<1>1. /\ e.at \in Places /\ e.g \in Nat /\ best[e.at] = e.g /\ best[e.at] # None
      /\ e.f = e.g + Straight[<<e.at, goal>>] /\ Straight[<<e.at, goal>>] \in Nat
  BY PoppedIsBest, PlacesAssumption DEF Entries, SearchTypeOK
<1>2. ASSUME NEW s \in settled
      PROVE  s \in Places /\ best[s] \in Nat /\ best[s] # None /\ best[s] + Straight[<<s, goal>>] <= e.f
  BY DEF Monotone, SearchTypeOK
<1>3. start \in settled \cup {e.at}
  BY <1>1 DEF Begun
<1> QED
  BY <1>1, <1>2, <1>3

\* Going on from a node: the types,
LEMMA RelaxTypes ==
  ASSUME SearchTypeOK, SearchInv, NEW e \in frontier, Expand(e), Relax(e)
  PROVE  SearchTypeOK'
<1>1. e.at \in nodes /\ e.at \in Places /\ e.g \in Nat
  BY DEF SearchInv, SearchTypeOK, Expand, Entries, HeapEntry
<1>2. ASSUME NEW v \in Places, Improves(e, v)
      PROVE  e.g + legs[<<e.at, v>>] \in Nat
  BY <1>1, <1>2, LegCosts DEF Improves
<1>3. best' \in [Places -> Nat \cup {None}] /\ came' \in [Places -> Places \cup {None}]
  BY <1>1, <1>2 DEF Relax, SearchTypeOK
<1>4. ASSUME NEW d \in frontier'
      PROVE  d \in HeapEntry
  <2>1. CASE d \in frontier
    BY <2>1 DEF SearchTypeOK
  <2>2. CASE \E v \in Places : Improves(e, v) /\ d = [f |-> best'[v] + Straight[<<v, goal>>], g |-> best'[v], at |-> v]
    <3>1. PICK v \in Places : Improves(e, v) /\ d = [f |-> best'[v] + Straight[<<v, goal>>], g |-> best'[v], at |-> v]
      BY <2>2
    <3>2. best'[v] \in Nat /\ Straight[<<v, goal>>] \in Nat
      BY <3>1, <1>2, RelaxEffect, PlacesAssumption DEF SearchTypeOK
    <3> QED
      BY <3>1, <3>2 DEF HeapEntry
  <2> QED
    BY <2>1, <2>2, RelaxEffect
<1>5. UNCHANGED <<graphVars, start, goal, walkVars>> /\ settled' = settled \cup {e.at} /\ status' \in {status, "walking", "refused"}
  BY DEF Expand
<1> QED
  BY <1>1, <1>3, <1>4, <1>5 DEF SearchTypeOK, graphVars, walkVars

\* and the invariant: relaxing improves only nodes that are not settled, so what
\* is settled stays the best, and no new entry promises less than the node
\* settled last.
LEMMA RelaxKeeps ==
  ASSUME SearchTypeOK, SearchInv, Consistent, NEW e \in frontier, Expand(e),
         Relax(e), e.at # goal, status' = status
  PROVE  SearchInv'
<1> DEFINE u == e.at
<1>1. /\ status = "searching" /\ Popped(e) /\ u \notin settled /\ settled' = settled \cup {u}
      /\ UNCHANGED <<nodes, legs, start, goal, cursor, route>>
  BY DEF Expand, graphVars, walkVars
<1>2. {start, goal} \subseteq nodes /\ Entries /\ Queued /\ Monotone /\ Relaxed /\ Tree /\ Begun /\ Ended /\ Walked
  BY <1>1 DEF SearchInv
<1>3. /\ u \in nodes /\ u \in Places /\ e.g \in Nat /\ best[u] = e.g
      /\ e.f = e.g + Straight[<<u, goal>>] /\ \A d \in frontier : e.f <= d.f
  BY <1>1, <1>2, PoppedIsBest
<1>4. /\ \A s \in settled' : /\ s \in Places /\ best[s] \in Nat /\ best[s] # None
                              /\ best[s] + Straight[<<s, goal>>] <= e.f
      /\ start \in settled'
  BY <1>1, <1>2, SettleEffect
<1>5. /\ \A v \in Places :
           \/ /\ Improves(e, v) /\ best'[v] = e.g + legs[<<u, v>>] /\ came'[v] = u
              /\ [f |-> best'[v] + Straight[<<v, goal>>], g |-> best'[v], at |-> v] \in frontier'
           \/ ~ Improves(e, v) /\ best'[v] = best[v] /\ came'[v] = came[v]
      /\ \A d \in frontier \ {e} : d \in frontier'
      /\ \A d \in frontier' :
           \/ d \in frontier \ {e}
           \/ \E v \in Places : /\ Improves(e, v)
                                /\ d = [f |-> best'[v] + Straight[<<v, goal>>], g |-> best'[v], at |-> v]
  BY RelaxEffect
<1>6. ASSUME NEW v \in Places, Improves(e, v)
      PROVE  /\ v \in nodes /\ v \notin settled' /\ <<u, v>> \in DOMAIN legs
             /\ legs[<<u, v>>] \in Nat /\ best'[v] \in Nat /\ best'[v] # None
             /\ best[v] = None \/ (best[v] \in Nat /\ best'[v] < best[v])
             /\ Straight[<<u, goal>>] <= legs[<<u, v>>] + Straight[<<v, goal>>]
  <2>1. <<u, v>> \in DOMAIN legs /\ v \notin settled' /\ best'[v] = e.g + legs[<<u, v>>]
    BY <1>1, <1>5, <1>6 DEF Improves
  <2>2. v \in nodes /\ legs[<<u, v>>] \in Nat
    BY <2>1, LegCosts
  <2>3. best'[v] \in Nat /\ best'[v] # None
    BY <1>3, <2>1, <2>2, PlacesAssumption
  <2>4. best[v] = None \/ (best[v] \in Nat /\ best'[v] < best[v])
    BY <1>6, <2>1 DEF Improves, SearchTypeOK
  <2>5. Straight[<<u, goal>>] <= legs[<<u, v>>] + Straight[<<v, goal>>]
    BY <2>1 DEF Consistent, SearchTypeOK
  <2> QED
    BY <2>1, <2>2, <2>3, <2>4, <2>5
<1>7. \A v \in settled' : best'[v] = best[v] /\ came'[v] = came[v]
  BY <1>4, <1>5, <1>6
<1>8. ASSUME NEW v \in Places, best[v] # None
      PROVE  best'[v] # None /\ best'[v] \in Nat /\ best[v] \in Nat /\ best'[v] <= best[v]
  <2>1. best[v] \in Nat
    BY <1>8 DEF SearchTypeOK
  <2>2. CASE Improves(e, v)
    <3>1. best'[v] \in Nat /\ best'[v] # None /\ best'[v] < best[v]
      BY <2>2, <1>6, <1>8
    <3> QED
      BY <2>1, <3>1
  <2>3. CASE ~ Improves(e, v)
    <3>1. best'[v] = best[v]
      BY <2>3, <1>5
    <3> QED
      BY <2>1, <3>1, <1>8
  <2> QED
    BY <2>2, <2>3
<1>9. Entries'
  <2> SUFFICES ASSUME NEW d \in frontier'
               PROVE  /\ d.at \in nodes /\ best'[d.at] # None /\ best'[d.at] <= d.g
                      /\ d.f = d.g + Straight[<<d.at, goal>>]
    BY <1>1 DEF Entries
  <2>1. CASE d \in frontier
    <3>1. d.at \in nodes /\ d.at \in Places /\ best[d.at] # None /\ best[d.at] <= d.g /\ d.g \in Nat
          /\ d.f = d.g + Straight[<<d.at, goal>>]
      BY <2>1, <1>2 DEF Entries, SearchTypeOK, HeapEntry
    <3> QED
      BY <3>1, <1>8
  <2>2. CASE d \notin frontier
    <3>1. PICK v \in Places : Improves(e, v) /\ d = [f |-> best'[v] + Straight[<<v, goal>>], g |-> best'[v], at |-> v]
      BY <2>2, <1>5
    <3>2. v \in nodes /\ best'[v] \in Nat /\ best'[v] # None
      BY <3>1, <1>6
    <3>3. d.at = v /\ d.g = best'[v] /\ d.f = best'[v] + Straight[<<v, goal>>]
      BY <3>1
    <3> QED
      BY <3>2, <3>3
  <2> QED
    BY <2>1, <2>2
<1>10. Queued'
  <2> SUFFICES ASSUME NEW v \in Places, best'[v] # None, v \notin settled'
               PROVE  [f |-> best'[v] + Straight[<<v, goal>>], g |-> best'[v], at |-> v] \in frontier'
    BY <1>1 DEF Queued
  <2>1. CASE ~ Improves(e, v)
    <3> DEFINE d == [f |-> best[v] + Straight[<<v, goal>>], g |-> best[v], at |-> v]
    <3>1. best'[v] = best[v]
      BY <2>1, <1>5
    <3>2. d \in frontier
      BY <3>1, <1>1, <1>2 DEF Queued
    <3>3. d # e
      BY <1>1
    <3> QED
      BY <3>1, <3>2, <3>3, <1>5
  <2> QED
    BY <2>1, <1>5
<1>11. Monotone'
  <2> SUFFICES ASSUME NEW s \in settled'
               PROVE  best'[s] # None /\ \A d \in frontier' : best'[s] + Straight[<<s, goal>>] <= d.f
    BY <1>1 DEF Monotone
  <2>1. /\ best'[s] = best[s] /\ best[s] # None /\ best[s] \in Nat /\ s \in Places
        /\ best[s] + Straight[<<s, goal>>] <= e.f
    BY <1>4, <1>7
  <2>2. Straight[<<s, goal>>] \in Nat /\ e.f \in Nat
    BY <2>1, PlacesAssumption DEF SearchTypeOK, HeapEntry
  <2>3. ASSUME NEW d \in frontier' PROVE d.f \in Nat /\ e.f <= d.f
    <3>1. CASE d \in frontier
      BY <3>1, <1>3 DEF SearchTypeOK, HeapEntry
    <3>2. CASE d \notin frontier
      <4>1. PICK v \in Places : Improves(e, v) /\ d = [f |-> best'[v] + Straight[<<v, goal>>], g |-> best'[v], at |-> v]
        BY <3>2, <1>5
      <4>2. Straight[<<v, goal>>] \in Nat /\ Straight[<<u, goal>>] \in Nat
        BY <1>3, PlacesAssumption DEF SearchTypeOK
      <4>3. /\ best'[v] = e.g + legs[<<u, v>>] /\ legs[<<u, v>>] \in Nat
            /\ Straight[<<u, goal>>] <= legs[<<u, v>>] + Straight[<<v, goal>>]
        BY <4>1, <1>5, <1>6
      <4>4. d.f = best'[v] + Straight[<<v, goal>>]
        BY <4>1
      <4> QED
        BY <4>2, <4>3, <4>4, <1>3
    <3> QED
      BY <3>1, <3>2
  <2> QED
    BY <2>1, <2>2, <2>3
<1>12. Relaxed'
  <2> SUFFICES ASSUME NEW leg \in DOMAIN legs, leg[1] \in settled', leg[1] # goal
               PROVE  best'[leg[2]] # None /\ best'[leg[2]] <= best'[leg[1]] + legs[leg]
    BY <1>1 DEF Relaxed
  <2> DEFINE a == leg[1]
             b == leg[2]
  <2>1. leg = <<a, b>> /\ a \in nodes /\ b \in nodes /\ b \in Places /\ legs[leg] \in Nat
    BY DEF SearchTypeOK
  <2>2. best'[a] = best[a] /\ best[a] \in Nat
    BY <1>4, <1>7
  <2>3. CASE a \in settled
    <3>1. best[b] # None /\ best[b] <= best[a] + legs[leg]
      BY <2>3, <1>1, <1>2 DEF Relaxed
    <3> HIDE DEF a, b
    <3> QED
      BY <3>1, <2>1, <2>2, <1>8
  <2>4. CASE a = u /\ b \in settled'
    <3>1. /\ best'[b] = best[b] /\ best[b] \in Nat /\ best[b] # None
          /\ best[b] + Straight[<<b, goal>>] <= e.f
      BY <2>4, <1>4, <1>7
    <3>2. Straight[<<u, goal>>] <= legs[leg] + Straight[<<b, goal>>]
      BY <2>1, <2>4 DEF Consistent, SearchTypeOK
    <3>3. Straight[<<u, goal>>] \in Nat /\ Straight[<<b, goal>>] \in Nat
      BY <2>1, <1>3, PlacesAssumption DEF SearchTypeOK
    <3> HIDE DEF a, b
    <3> QED
      BY <3>1, <3>2, <3>3, <2>1, <2>2, <2>4, <1>3
  <2>5. CASE a = u /\ b \notin settled'
    <3>1. CASE Improves(e, b)
      <4>1. best'[b] = e.g + legs[<<u, b>>] /\ best'[b] # None /\ best'[b] \in Nat
        BY <3>1, <2>1, <1>5, <1>6
      <4> HIDE DEF a, b
      <4> QED
        BY <4>1, <2>1, <2>2, <2>5, <1>3
    <3>2. CASE ~ Improves(e, b)
      <4>1. best[b] # None /\ ~ (e.g + legs[<<u, b>>] < best[b])
        BY <3>2, <2>1, <2>5, <1>1 DEF Improves
      <4>2. best'[b] = best[b] /\ best[b] \in Nat
        BY <4>1, <3>2, <2>1, <1>5, <1>8
      <4> HIDE DEF a, b
      <4> QED
        BY <4>1, <4>2, <2>1, <2>2, <2>5, <1>3
    <3> QED
      BY <3>1, <3>2
  <2> QED
    BY <2>3, <2>4, <2>5, <1>1
<1>13. Tree'
  <2> SUFFICES ASSUME NEW v \in Places \ {start}, best'[v] # None
               PROVE  /\ came'[v] \in settled' /\ <<came'[v], v>> \in DOMAIN legs
                      /\ best'[v] = best'[came'[v]] + legs[<<came'[v], v>>]
    BY <1>1 DEF Tree
  <2>1. CASE Improves(e, v)
    BY <2>1, <1>1, <1>3, <1>5, <1>6, <1>7
  <2>2. CASE ~ Improves(e, v)
    <3>1. best'[v] = best[v] /\ came'[v] = came[v]
      BY <2>2, <1>5
    <3>2. /\ came[v] \in settled /\ <<came[v], v>> \in DOMAIN legs
          /\ best[v] = best[came[v]] + legs[<<came[v], v>>]
      BY <3>1, <1>2 DEF Tree
    <3> QED
      BY <3>1, <3>2, <1>1, <1>7
  <2> QED
    BY <2>1, <2>2
<1>14. Begun'
  BY <1>1, <1>2, <1>4, <1>7 DEF Begun
<1>15. Ended' /\ Walked'
  BY <1>1, <1>2 DEF Ended, Walked
<1> QED
  BY <1>1, <1>2, <1>9, <1>10, <1>11, <1>12, <1>13, <1>14, <1>15 DEF SearchInv

\* Settling the goal ends the search with the best way to it, and the ceiling
\* refuses one.
LEMMA EndKeeps ==
  ASSUME SearchTypeOK, SearchInv, NEW e \in frontier, Expand(e),
         e.at = goal \/ Cardinality(settled') > MaxExpansions
  PROVE  SearchTypeOK' /\ SearchInv'
<1> DEFINE u == e.at
<1>1. /\ status = "searching" /\ Popped(e) /\ u \notin settled /\ settled' = settled \cup {u}
      /\ status' = IF u = goal THEN "walking" ELSE "refused"
      /\ UNCHANGED <<nodes, legs, start, goal, best, came, frontier, cursor, route>>
  BY DEF Expand, graphVars, walkVars
<1>2. {start, goal} \subseteq nodes /\ Entries /\ Queued /\ Monotone /\ Relaxed /\ Tree /\ Begun /\ Ended /\ Walked
  BY <1>1 DEF SearchInv
<1>3. /\ u \in nodes /\ u \in Places /\ e.g \in Nat /\ best[u] = e.g
      /\ e.f = e.g + Straight[<<u, goal>>] /\ \A d \in frontier : e.f <= d.f
  BY <1>1, <1>2, PoppedIsBest
<1>4. /\ \A s \in settled' : /\ s \in Places /\ best[s] \in Nat /\ best[s] # None
                              /\ best[s] + Straight[<<s, goal>>] <= e.f
      /\ start \in settled'
  BY <1>1, <1>2, SettleEffect
<1>5. SearchTypeOK'
  BY <1>1, <1>3 DEF SearchTypeOK
<1>6. Entries' /\ Queued' /\ Tree'
  BY <1>1, <1>2 DEF Entries, Queued, Tree
<1>7. Begun' /\ Walked'
  BY <1>1, <1>2, <1>3, <1>4, PlacesAssumption DEF Begun, Walked
<1>8. Monotone'
  <2> SUFFICES ASSUME NEW s \in settled', NEW d \in frontier
               PROVE  best[s] + Straight[<<s, goal>>] <= d.f
    BY <1>1, <1>4 DEF Monotone
  <2>1. best[s] \in Nat /\ Straight[<<s, goal>>] \in Nat /\ best[s] + Straight[<<s, goal>>] <= e.f
    BY <1>4, PlacesAssumption DEF SearchTypeOK
  <2>2. e.f \in Nat /\ d.f \in Nat /\ e.f <= d.f
    BY <1>3 DEF SearchTypeOK, HeapEntry
  <2> QED
    BY <2>1, <2>2
<1>9. Relaxed'
  <2>1. CASE u = goal
    BY <2>1, <1>1, <1>2 DEF Relaxed
  <2>2. CASE u # goal
    BY <2>2, <1>1 DEF Relaxed
  <2> QED
    BY <2>1, <2>2
<1>10. Ended'
  <2>1. CASE u = goal
    <3>1. e.f = best[goal]
      BY <2>1, <1>3, PlacesAssumption
    <3> QED
      BY <2>1, <3>1, <1>1, <1>4 DEF Ended
  <2>2. CASE u # goal
    BY <2>2, <1>1, <1>2 DEF Ended
  <2> QED
    BY <2>1, <2>2
<1> QED
  BY <1>1, <1>2, <1>5, <1>6, <1>7, <1>8, <1>9, <1>10 DEF SearchInv

\* An empty frontier refuses, with every settled node relaxed.
LEMMA ExhaustKeeps ==
  ASSUME SearchTypeOK, SearchInv, Exhaust
  PROVE  SearchTypeOK' /\ SearchInv'
<1>1. /\ status = "searching" /\ frontier = {} /\ status' = "refused"
      /\ UNCHANGED <<nodes, legs, start, goal, best, came, settled, frontier, cursor, route>>
  BY DEF Exhaust, graphVars, scoreVars, walkVars
<1>2. {start, goal} \subseteq nodes /\ Entries /\ Queued /\ Monotone /\ Relaxed /\ Tree /\ Begun /\ Ended /\ Walked
  BY <1>1 DEF SearchInv
<1>3. SearchTypeOK'
  BY <1>1 DEF SearchTypeOK
<1>4. Entries' /\ Queued' /\ Monotone' /\ Relaxed' /\ Tree' /\ Begun' /\ Ended' /\ Walked'
  BY <1>1, <1>2 DEF Entries, Queued, Monotone, Relaxed, Tree, Begun, Ended, Walked
<1> QED
  BY <1>1, <1>3, <1>4 DEF SearchInv

\* Walking back stays on ways found.
LEMMA WalkBackKeeps ==
  ASSUME SearchTypeOK, SearchInv, WalkBack
  PROVE  SearchTypeOK' /\ SearchInv'
<1>1. /\ status = "walking" /\ route' = route \cup {cursor}
      /\ \/ cursor = start /\ status' = "found" /\ cursor' = cursor
         \/ cursor # start /\ cursor' = came[cursor] /\ status' = status
      /\ UNCHANGED <<nodes, legs, start, goal, best, came, settled, frontier>>
  BY DEF WalkBack, graphVars, scoreVars
<1>2. {start, goal} \subseteq nodes /\ Entries /\ Queued /\ Monotone /\ Relaxed /\ Tree /\ Begun /\ Ended /\ Walked
  BY <1>1 DEF SearchInv
<1>3. cursor # start =>
        cursor' = came[cursor] /\ cursor' \in settled /\ cursor' \in Places /\ best[cursor'] # None
  BY <1>1, <1>2 DEF Walked, Tree, Monotone, SearchTypeOK
<1>4. SearchTypeOK'
  BY <1>1, <1>3 DEF SearchTypeOK
<1>5. Entries' /\ Queued' /\ Monotone' /\ Relaxed' /\ Tree' /\ Begun' /\ Ended'
  BY <1>1, <1>2 DEF Entries, Queued, Monotone, Relaxed, Tree, Begun, Ended
<1>6. Walked'
  <2>1. goal \in route' /\ \A v \in route' : v \in Places /\ best[v] # None
    BY <1>1, <1>2 DEF Walked, SearchTypeOK
  <2>2. CASE cursor = start
    BY <2>1, <2>2, <1>1, <1>2 DEF Walked
  <2>3. CASE cursor # start
    BY <2>1, <2>3, <1>1, <1>2, <1>3 DEF Walked
  <2> QED
    BY <2>2, <2>3
<1> QED
  BY <1>1, <1>2, <1>4, <1>5, <1>6 DEF SearchInv

\* Every step of a search keeps its types and its invariant.
LEMMA SearchStepKeeps ==
  ASSUME SearchTypeOK, SearchInv, Consistent, SearchStep
  PROVE  SearchTypeOK' /\ SearchInv'
<1>1. ASSUME NEW e \in frontier, Expand(e)
      PROVE  SearchTypeOK' /\ SearchInv'
  <2>1. CASE e.at = goal \/ Cardinality(settled') > MaxExpansions
    BY <2>1, <1>1, EndKeeps
  <2>2. CASE ~ (e.at = goal \/ Cardinality(settled') > MaxExpansions)
    <3>1. Relax(e) /\ status' = status /\ e.at # goal
      BY <2>2, <1>1 DEF Expand
    <3> QED
      BY <3>1, <1>1, RelaxTypes, RelaxKeeps
  <2> QED
    BY <2>1, <2>2
<1> QED
  BY <1>1, SkipStaleKeeps, ExhaustKeeps, WalkBackKeeps DEF SearchStep

-----------------------------------------------------------------------------
\* What was found is a cheapest route: along each leg the least a walk costs
\* grows by no more than the leg's cost.
LEMMA FoundIsCheapest ==
  ASSUME SearchTypeOK, SearchInv, Consistent, status = "found"
  PROVE  NothingIsCheaper /\ RouteAddsUp
<1>1. {start, goal} \subseteq nodes /\ Entries /\ Queued /\ Monotone /\ Relaxed /\ Tree /\ Begun /\ Ended /\ Walked
  BY DEF SearchInv
<1>2. best[start] = 0 /\ best[goal] \in Nat /\ best[goal] # None /\ start \in Places /\ goal \in Places
      /\ Straight[<<goal, goal>>] = 0 /\ Straight[<<start, goal>>] \in Nat /\ 0 # None
  <2>1. best[start] = 0 /\ start \in Places /\ goal \in Places /\ Straight[<<goal, goal>>] = 0
        /\ Straight[<<start, goal>>] \in Nat /\ 0 # None
    BY <1>1, PlacesAssumption DEF Begun, SearchTypeOK
  <2>2. best[goal] # None
    BY <2>1, <1>1 DEF Ended, Monotone
  <2> QED
    BY <2>1, <2>2 DEF SearchTypeOK
<1>3. \A v \in Places : Straight[<<v, goal>>] \in Nat /\ (best[v] # None => best[v] \in Nat)
  BY <1>2, PlacesAssumption DEF SearchTypeOK
<1>4. ASSUME NEW v \in Places, best[v] # None, best[v] + Straight[<<v, goal>>] < best[goal]
      PROVE  v \in settled /\ v # goal
  <2>1. v # goal
    BY <1>2, <1>4
  <2>2. start # goal
    BY <1>2, <1>3, <1>4
  <2>3. goal \in settled
    BY <2>2, <1>1 DEF Ended
  <2>4. ASSUME v \notin settled PROVE FALSE
    <3> DEFINE d == [f |-> best[v] + Straight[<<v, goal>>], g |-> best[v], at |-> v]
    <3>1. d \in frontier
      BY <2>4, <1>1, <1>4 DEF Queued
    <3>2. best[goal] + Straight[<<goal, goal>>] <= d.f
      BY <3>1, <2>3, <1>1 DEF Monotone
    <3> QED
      BY <3>2, <1>2, <1>3, <1>4
  <2> QED
    BY <2>1, <2>4
<1>5. AtLeast(goal) = best[goal]
  BY <1>2 DEF AtLeast
<1>6. AtLeast(start) = 0
  <2>1. CASE start = goal
    BY <2>1, <1>2, <1>5
  <2>2. CASE start # goal
    <3>1. goal \in settled /\ \A s \in settled : best[s] + Straight[<<s, goal>>] <= best[goal]
      BY <2>2, <1>1 DEF Ended
    <3>2. start \in settled
      BY <3>1, <1>1 DEF Begun
    <3>3. 0 + Straight[<<start, goal>>] <= best[goal]
      BY <3>1, <3>2, <1>2
    <3> QED
      BY <3>3, <1>2 DEF AtLeast
  <2> QED
    BY <2>1, <2>2
<1>7. ASSUME NEW leg \in DOMAIN legs
      PROVE  AtLeast(leg[2]) <= AtLeast(leg[1]) + legs[leg]
  <2> DEFINE a == leg[1]
             b == leg[2]
  <2>1. leg = <<a, b>> /\ a \in Places /\ b \in Places /\ legs[leg] \in Nat
    BY DEF SearchTypeOK
  <2>2. Straight[<<a, goal>>] <= legs[leg] + Straight[<<b, goal>>]
    BY <1>2 DEF Consistent
  <2>3. a \in settled /\ a # goal => best[b] # None /\ best[b] <= best[a] + legs[leg]
    BY <1>1 DEF Relaxed
  <2> HIDE DEF a, b
  <2>4. CASE best[a] # None /\ best[a] + Straight[<<a, goal>>] < best[goal]
    <3>1. best[b] # None /\ best[b] <= best[a] + legs[leg]
      BY <2>1, <2>3, <2>4, <1>4
    <3>2. AtLeast(a) = best[a] /\ AtLeast(b) <= best[b] /\ best[a] \in Nat /\ best[b] \in Nat /\ AtLeast(b) \in Int
      BY <2>1, <2>4, <3>1, <1>2, <1>3 DEF AtLeast
    <3>3. AtLeast(b) <= AtLeast(a) + legs[leg]
      BY <2>1, <3>1, <3>2
    <3> QED
      BY <3>3 DEF a, b
  <2>5. CASE ~ (best[a] # None /\ best[a] + Straight[<<a, goal>>] < best[goal])
    <3>1. AtLeast(a) = best[goal] - Straight[<<a, goal>>]
      BY <2>5 DEF AtLeast
    <3>2. AtLeast(b) <= best[goal] - Straight[<<b, goal>>] /\ AtLeast(b) \in Int
      BY <2>1, <1>2, <1>3 DEF AtLeast
    <3>3. AtLeast(b) <= AtLeast(a) + legs[leg]
      BY <3>1, <3>2, <2>1, <2>2, <1>2, <1>3
    <3> QED
      BY <3>3 DEF a, b
  <2> QED
    BY <2>4, <2>5
<1>8. RouteAddsUp
  BY <1>1, <1>2 DEF RouteAddsUp, Walked, Tree
<1> QED
  BY <1>5, <1>6, <1>7, <1>8 DEF NothingIsCheaper

\* What is refused below the ceiling cannot be reached.
LEMMA RefusedIsOutOfReach ==
  ASSUME SearchTypeOK, SearchInv, status = "refused", {start, goal} \subseteq nodes,
         ~ (Cardinality(settled) > MaxExpansions)
  PROVE  NothingLeads
<1>1. Queued /\ Relaxed /\ Begun /\ Ended
  BY DEF SearchInv
<1>2. frontier = {} /\ goal \notin settled
  BY <1>1 DEF Ended
<1>3. \A v \in Places : best[v] # None => v \in settled
  BY <1>1, <1>2 DEF Queued
<1>4. start \in settled
  BY <1>1, <1>3, PlacesAssumption DEF Begun, SearchTypeOK
<1>5. ASSUME NEW leg \in DOMAIN legs, leg[1] \in settled
      PROVE  leg[2] \in settled
  <2>1. leg[2] \in Places
    BY DEF SearchTypeOK
  <2>2. leg[1] # goal
    BY <1>2, <1>5
  <2>3. best[leg[2]] # None
    BY <2>2, <1>1, <1>5 DEF Relaxed
  <2> QED
    BY <2>1, <2>3, <1>3
<1> QED
  BY <1>2, <1>4, <1>5 DEF NothingLeads

LEMMA InvariantIsCheapest ==
  ASSUME SearchTypeOK, SearchInv, Consistent
  PROVE  PathIsCheapest
BY FoundIsCheapest, RefusedIsOutOfReach DEF PathIsCheapest

-----------------------------------------------------------------------------
(* The entry plan. *)

\* Where a crew stands before it is inside.
Outside == {Staging} \cup {Approach(f) : f \in Faces}
ThroughADoor == \E f \in Faces : Door(f) \in route

\* What the graph is while there is one.
Built ==
  /\ phase = "asked" => status = "idle" /\ settled = {}
  /\ phase \in {"built", "entry", "egress"} => target < storeys
  /\ phase \in {"built", "entry"} => legs = Legs

\* Walking back from inside, the way in comes to a door before it is outside.
InThroughADoor ==
  phase = "entry" =>
    /\ start = Staging
    /\ status \in {"searching", "walking"} => cursor \notin Outside \/ ThroughADoor
    /\ status = "found" => ThroughADoor

IInv == TypeOK /\ Consistent /\ SearchInv /\ Built /\ InThroughADoor

-----------------------------------------------------------------------------
\* No weight is negative.
LEMMA AtMostIsNat ==
  ASSUME NEW n \in Nat, NEW b \in Nat
  PROVE  AtMost(n, b) \in Nat
BY DEF AtMost

LEMMA DivIsNat ==
  ASSUME NEW n \in Nat, NEW d \in Nat \ {0}
  PROVE  n \div d \in Nat
BY SMT

LEMMA WeightsAreNat ==
  ASSUME TypeOK, NEW t \in Pairs
  PROVE  t[3] \in Nat
<1>1. ASSUME NEW l PROVE StructuralWeight(l) \in Nat
  <2>1. structure.conflicts \in Nat
    BY BuildingAssumption DEF TypeOK, Structure
  <2>2. AtMost(structure.conflicts, 3) \in Nat
    BY <2>1, AtMostIsNat
  <2> QED
    BY <2>2 DEF StructuralWeight
<1>2. CollapseWeight \in Nat
  BY DivIsNat, BuildingAssumption DEF CollapseWeight
<1>3. ASSUME NEW f \in Open
      PROVE  ThermalWeight(wall[f]) \in Nat /\ ObstructionWeight(wall[f]) \in Nat
  <2> DEFINE w == wall[f]
  <2>1. w \in Wall
    BY BuildingAssumption DEF TypeOK, Open, Present
  <2>2. w.peak \in Nat /\ w.coverage \in 0..100 /\ w.voids \in Nat /\ w.obstructions \in Nat
    BY <2>1 DEF Wall
  <2> HIDE DEF w
  <2>3. AtMost(w.voids, 3) \in Nat /\ AtMost(w.obstructions, 2) \in Nat
    BY <2>2, AtMostIsNat
  <2>4. w.peak > ThermalBaseline =>
          (600 * (w.peak - ThermalBaseline)) \div (ThermalBarrier - ThermalBaseline) \in Nat
    BY <2>2 DEF ThermalBaseline, ThermalBarrier
  <2>5. ThermalWeight(w) \in Nat /\ ObstructionWeight(w) \in Nat
    BY <2>2, <2>3, <2>4 DEF ThermalWeight, ObstructionWeight
  <2> QED
    BY <2>5 DEF w
<1>4. CASE t \in Ring \cup FromStaging
  BY <1>4 DEF Ring, FromStaging
<1>5. CASE t \in ThroughWalls
  BY <1>5, <1>1, <1>2, <1>3 DEF ThroughWalls
<1>6. CASE t \in UpTheStairs
  BY <1>6, <1>1 DEF UpTheStairs
<1> QED
  BY <1>4, <1>5, <1>6 DEF Pairs

LEMMA PricedAtLeast ==
  ASSUME NEW n \in Nat, n > 0, NEW w \in Nat
  PROVE  n * (100 + w) \in Nat \ {0} /\ 100 * n <= n * (100 + w)
<1>1. n * w \in Nat
  BY SMT
<1>2. n * (100 + w) = 100 * n + n * w
  BY SMT
<1> QED
  BY <1>1, <1>2

\* Every node is a place.
LEMMA NodesArePlaces ==
  ASSUME TypeOK
  PROVE  Nodes \subseteq Places
<1>1. \A l \in 0..(storeys - 1) : l \in Storeys
  BY DEF TypeOK, Storeys
<1>2. \A l \in 0..(storeys - 2) : l \in Flights
  BY DEF TypeOK, Flights
<1> QED
  BY <1>1, <1>2, BuildingAssumption DEF Nodes, Present, Open

\* A leg costs its length or more.
LEMMA LegsArePriced ==
  ASSUME TypeOK
  PROVE  /\ DOMAIN Legs \subseteq Nodes \X Nodes /\ Legs \in [DOMAIN Legs -> Nat \ {0}]
         /\ \A leg \in DOMAIN Legs : 100 * Length[leg] <= Legs[leg]
<1>1. ASSUME NEW leg \in DOMAIN Legs
      PROVE  leg \in Nodes \X Nodes /\ Legs[leg] \in Nat \ {0} /\ 100 * Length[leg] <= Legs[leg]
  <2> DEFINE t == CHOOSE q \in Pairs : Joins(q, leg[1], leg[2])
             price == Length[leg] * (100 + t[3])
  <2>1. leg \in Nodes \X Nodes /\ Length[leg] > 0 /\ \E q \in Pairs : Joins(q, leg[1], leg[2])
    BY DEF Legs
  <2>2. Legs[leg] = price
    BY DEF Legs
  <2>3. t[3] \in Nat
    BY <2>1, WeightsAreNat
  <2>4. Length[leg] \in Nat
    BY <2>1, NodesArePlaces, BuildingAssumption
  <2>5. price \in Nat \ {0} /\ 100 * Length[leg] <= price
    BY <2>1, <2>3, <2>4, PricedAtLeast
  <2> HIDE DEF price, t
  <2>6. Legs[leg] \in Nat \ {0} /\ 100 * Length[leg] <= Legs[leg]
    BY <2>2, <2>5
  <2> QED
    BY <2>1, <2>6
<1>2. Legs \in [DOMAIN Legs -> Nat \ {0}]
  <2>1. Legs = [leg \in DOMAIN Legs |-> Legs[leg]]
    BY DEF Legs
  <2> QED
    BY <2>1, <1>1
<1>3. DOMAIN Legs \subseteq Nodes \X Nodes
  BY DEF Legs
<1>4. \A leg \in DOMAIN Legs : 100 * Length[leg] <= Legs[leg]
  BY <1>1
<1> QED
  BY <1>2, <1>3, <1>4

\* From inside no leg leads outside but through a door.
LEMMA DoorsAreTheWayIn ==
  ASSUME NEW a, NEW b, <<a, b>> \in DOMAIN Legs, b \notin Outside, \A f \in Faces : b # Door(f)
  PROVE  a \notin Outside
<1>1. PICK t \in Pairs : Joins(t, a, b)
  BY DEF Legs
<1>2. CASE t \in Ring \cup FromStaging
  BY <1>1, <1>2 DEF Ring, FromStaging, Joins, Outside, Present
<1>3. CASE t \in ThroughWalls
  BY <1>1, <1>3 DEF ThroughWalls, Joins, Outside, Open, Present, Staging, Approach, Door, Interior, Core
<1>4. CASE t \in UpTheStairs
  BY <1>1, <1>4 DEF UpTheStairs, Joins, Outside, Staging, Approach, Core, Stair
<1> QED
  BY <1>2, <1>3, <1>4 DEF Pairs

\* The places that a plan asks for.
LEMMA AskedArePlaces ==
  ASSUME TypeOK
  PROVE  /\ Staging \in Places /\ \A f \in Faces : Approach(f) \in Places
         /\ target < storeys => Core(target) \in Places /\ Core(target) \notin Outside
<1>1. Staging \in Places /\ \A f \in Faces : Approach(f) \in Places
  BY BuildingAssumption
<1>2. target < storeys => target \in Storeys
  BY BuildingAssumption DEF TypeOK, Storeys
<1>3. target < storeys => Core(target) \in Places
  BY <1>2, BuildingAssumption
<1>4. Core(target) \notin Outside
  BY DEF Core, Outside, Staging, Approach
<1> QED
  BY <1>1, <1>3, <1>4

-----------------------------------------------------------------------------
LEMMA InitEstablishes ==
  ASSUME Init
  PROVE  IInv
<1>1. None \notin Nat /\ Staging \in Places /\ "ALPHA" \in Faces
  BY PlacesAssumption, BuildingAssumption DEF Faces, GroundFaces
<1>2. SearchTypeOK
  BY <1>1 DEF Init, SearchTypeOK
<1>3. TypeOK
  BY <1>2 DEF Init, TypeOK
<1>4. DOMAIN legs = {} /\ status = "idle"
  BY DEF Init
<1> QED
  BY <1>3, <1>4 DEF IInv, Init, Consistent, SearchInv, Built, InThroughADoor

\* Building the graph: it is consistent.
LEMMA BuildKeeps ==
  ASSUME IInv, Build
  PROVE  IInv'
<1>1. /\ phase = "asked" /\ target < storeys /\ phase' = "built" /\ nodes' = Nodes /\ legs' = Legs
      /\ UNCHANGED <<wall, structure, storeys, target, entryFace, left, asked, egress>>
      /\ UNCHANGED <<start, goal, best, came, settled, frontier, status, cursor, route>>
  BY DEF Build, givenVars, searchVars, scoreVars, walkVars
<1>2. TypeOK /\ SearchTypeOK /\ status = "idle" /\ settled = {} /\ phase' # "asked" /\ phase' # "entry"
  BY <1>1 DEF IInv, TypeOK, Built
<1>3. Nodes \subseteq Places /\ DOMAIN Legs \subseteq Nodes \X Nodes /\ Legs \in [DOMAIN Legs -> Nat \ {0}]
      /\ \A leg \in DOMAIN Legs : 100 * Length[leg] <= Legs[leg]
  BY <1>2, NodesArePlaces, LegsArePriced
<1>4. SearchTypeOK'
  <2>1. settled' \subseteq nodes' /\ nodes' \subseteq Places
    BY <1>1, <1>2, <1>3
  <2>2. DOMAIN legs' \subseteq nodes' \X nodes' /\ legs' \in [DOMAIN legs' -> Nat \ {0}]
    BY <1>1, <1>3
  <2> QED
    BY <1>1, <1>2, <2>1, <2>2 DEF SearchTypeOK
<1>5. TypeOK'
  BY <1>1, <1>2, <1>4 DEF TypeOK
<1>6. Consistent'
  <2> SUFFICES ASSUME NEW leg \in DOMAIN Legs, NEW c \in Places
               PROVE  Straight[<<leg[1], c>>] <= Legs[leg] + Straight[<<leg[2], c>>]
    BY <1>1 DEF Consistent
  <2> DEFINE a == leg[1]
             b == leg[2]
  <2>1. leg = <<a, b>> /\ a \in Places /\ b \in Places
    BY <1>3
  <2>2. 100 * Length[<<a, b>>] <= Legs[leg] /\ Legs[leg] \in Nat
    BY <2>1, <1>3
  <2> HIDE DEF a, b
  <2>3. Straight[<<a, c>>] <= 100 * Length[<<a, b>>] + Straight[<<b, c>>]
    BY <2>1, TriangleAssumption
  <2>4. Straight[<<a, c>>] \in Nat /\ Straight[<<b, c>>] \in Nat /\ Length[<<a, b>>] \in Nat
    BY <2>1, PlacesAssumption, BuildingAssumption
  <2>5. Straight[<<a, c>>] <= Legs[leg] + Straight[<<b, c>>]
    BY <2>2, <2>3, <2>4
  <2> QED
    BY <2>5 DEF a, b
<1>7. Legs' = Legs
  BY <1>1 DEF Legs, Nodes, Pairs, Ring, FromStaging, ThroughWalls, UpTheStairs, Follows, Present, Open,
              StructuralWeight
<1> QED
  BY <1>1, <1>2, <1>5, <1>6, <1>7 DEF IInv, SearchInv, Built, InThroughADoor

\* What the graph depends on does not change once it is built.
LEMMA LegsStay ==
  ASSUME UNCHANGED givenVars
  PROVE  Legs' = Legs
BY DEF givenVars, Legs, Nodes, Pairs, Ring, FromStaging, ThroughWalls, UpTheStairs, Follows, Present, Open,
       StructuralWeight

LEMMA AskEntryKeeps ==
  ASSUME IInv, AskEntry
  PROVE  IInv'
<1>1. /\ phase = "built" /\ phase' = "entry" /\ Ask(Staging, Core(target))
      /\ UNCHANGED givenVars /\ UNCHANGED graphVars /\ UNCHANGED <<entryFace, left, asked, egress>>
  BY DEF AskEntry
<1>2. TypeOK /\ SearchTypeOK /\ target < storeys /\ legs = Legs
  BY <1>1 DEF IInv, TypeOK, Built
<1>3. Staging \in Places /\ Core(target) \in Places /\ Core(target) \notin Outside
  BY <1>2, AskedArePlaces
<1>4. SearchTypeOK' /\ SearchInv'
  BY <1>1, <1>2, <1>3, AskTypes, AskBegins
<1>5. TypeOK'
  BY <1>1, <1>2, <1>4 DEF TypeOK, givenVars
<1>6. Consistent'
  BY <1>1 DEF IInv, Consistent, graphVars
<1>7. Built'
  BY <1>1, <1>2, LegsStay DEF Built, graphVars, givenVars
<1>8. InThroughADoor'
  <2>1. start' = Staging /\ cursor' = Core(target) /\ status' # "found" /\ Outside' = Outside
    BY <1>1 DEF Ask, Outside
  <2> QED
    BY <2>1, <1>3 DEF InThroughADoor
<1> QED
  BY <1>4, <1>5, <1>6, <1>7, <1>8 DEF IInv

\* Walking back from inside to a door and through it.
LEMMA WalkingIn ==
  ASSUME IInv, WalkBack, phase = "entry"
  PROVE  /\ status' = "walking" => cursor' \notin Outside \/ ThroughADoor'
         /\ status' = "found" => ThroughADoor'
<1>1. /\ status = "walking" /\ route' = route \cup {cursor}
      /\ \/ cursor = start /\ status' = "found" /\ cursor' = cursor
         \/ cursor # start /\ cursor' = came[cursor] /\ status' = status
  BY DEF WalkBack
<1>2. start = Staging /\ legs = Legs /\ (cursor \notin Outside \/ ThroughADoor) /\ start \in Outside
  BY <1>1 DEF IInv, InThroughADoor, Built, Outside
<1>3. CASE ThroughADoor
  BY <1>1, <1>3 DEF ThroughADoor
<1>4. CASE \E f \in Faces : cursor = Door(f)
  BY <1>1, <1>4 DEF ThroughADoor
<1>5. CASE ~ ThroughADoor /\ \A f \in Faces : cursor # Door(f)
  <2>1. cursor \notin Outside /\ cursor # start
    BY <1>2, <1>5
  <2>2. cursor \in Places \ {start} /\ best[cursor] # None
    BY <2>1, <1>1 DEF IInv, TypeOK, SearchTypeOK, SearchInv, Walked
  <2>3. <<came[cursor], cursor>> \in DOMAIN Legs
    BY <2>2, <1>1, <1>2 DEF IInv, SearchInv, Tree
  <2>4. came[cursor] \notin Outside
    BY <2>1, <2>3, <1>5, DoorsAreTheWayIn
  <2> QED
    BY <2>1, <2>4, <1>1
<1> QED
  BY <1>3, <1>4, <1>5

LEMMA SearchesKeep ==
  ASSUME IInv, Searches
  PROVE  IInv'
<1>1. SearchStep /\ UNCHANGED givenVars /\ UNCHANGED planVars
  BY DEF Searches
<1>2. TypeOK /\ SearchTypeOK /\ SearchInv /\ Consistent
  BY DEF IInv, TypeOK
<1>3. SearchTypeOK' /\ SearchInv'
  BY <1>1, <1>2, SearchStepKeeps
<1>4. UNCHANGED graphVars /\ start' = start /\ status # "idle"
      /\ (WalkBack \/ (status = "searching" /\ cursor' = cursor /\ route' = route /\ status' # "found"))
  BY <1>1 DEF SearchStep, SkipStale, Expand, Exhaust, WalkBack, walkVars
<1>5. TypeOK'
  BY <1>1, <1>2, <1>3 DEF TypeOK, givenVars, planVars
<1>6. Consistent'
  BY <1>2, <1>4 DEF Consistent, graphVars
<1>7. phase # "asked"
  BY <1>4 DEF IInv, Built
<1>8. Built'
  BY <1>1, <1>4, <1>7, LegsStay DEF IInv, Built, graphVars, givenVars, planVars
<1>9. InThroughADoor'
  <2>1. CASE phase # "entry"
    BY <2>1, <1>1 DEF InThroughADoor, planVars
  <2>2. CASE phase = "entry" /\ WalkBack
    <3>1. status' # "searching"
      BY <2>2 DEF WalkBack
    <3> QED
      BY <2>2, <3>1, <1>4, WalkingIn DEF IInv, InThroughADoor, Outside
  <2>3. CASE phase = "entry" /\ ~ WalkBack
    BY <2>3, <1>4 DEF IInv, InThroughADoor, Outside, ThroughADoor
  <2> QED
    BY <2>1, <2>2, <2>3
<1> QED
  BY <1>3, <1>5, <1>6, <1>8, <1>9 DEF IInv

\* A step of the plan that leaves the search and its graph alone.
LEMMA PlanKeeps ==
  ASSUME IInv, TypeOK', UNCHANGED givenVars, UNCHANGED graphVars, UNCHANGED searchVars,
         phase # "entry" => phase' # "entry", phase' \notin {"asked", "built"},
         phase' = "egress" => target < storeys
  PROVE  IInv'
<1>1. SearchInv'
  BY DEF IInv, SearchInv, graphVars, searchVars, scoreVars, walkVars, Entries, Queued, Monotone, Relaxed, Tree,
         Begun, Ended, Walked
<1>2. Consistent'
  BY DEF IInv, Consistent, graphVars
<1>3. Built'
  BY LegsStay DEF IInv, Built, graphVars, givenVars
<1>4. InThroughADoor'
  BY DEF IInv, InThroughADoor, ThroughADoor, Outside, searchVars, walkVars
<1> QED
  BY <1>1, <1>2, <1>3, <1>4 DEF IInv

LEMMA RefuseKeeps ==
  ASSUME IInv, Refuse
  PROVE  IInv'
<1>1. TypeOK'
  BY DEF IInv, TypeOK, Refuse, SearchTypeOK, givenVars, graphVars, searchVars, scoreVars, walkVars
<1> QED
  BY <1>1, PlanKeeps DEF Refuse

LEMMA FinishKeeps ==
  ASSUME IInv, Finish
  PROVE  IInv'
<1>1. TypeOK'
  BY DEF IInv, TypeOK, Finish, SearchTypeOK, givenVars, graphVars, searchVars, scoreVars, walkVars
<1> QED
  BY <1>1, PlanKeeps DEF Finish

LEMMA TakeEntryKeeps ==
  ASSUME IInv, TakeEntry
  PROVE  IInv'
<1>1. /\ phase = "entry" /\ phase' \in {"done", "egress"} /\ target < storeys
      /\ UNCHANGED givenVars /\ UNCHANGED graphVars /\ UNCHANGED searchVars /\ UNCHANGED <<asked, egress>>
  BY DEF TakeEntry, IInv, Built
<1>2. entryFace' \in Faces \cup {None} /\ left' \subseteq Faces
  <2>1. CASE status = "refused"
    BY <2>1 DEF TakeEntry, IInv, TypeOK
  <2>2. CASE status # "refused"
    <3>1. status = "found"
      BY <2>2 DEF TakeEntry, Answered
    <3>2. \E f \in Faces : Door(f) \in route
      BY <3>1, <1>1 DEF IInv, InThroughADoor, ThroughADoor
    <3>3. entryFace' = CHOOSE f \in Faces : Door(f) \in route
      BY <2>2 DEF TakeEntry
    <3>4. left' = {f \in Faces : Door(f) \in nodes} \ {entryFace'}
      BY <2>2 DEF TakeEntry
    <3> QED
      BY <3>2, <3>3, <3>4
  <2> QED
    BY <2>1, <2>2
<1>3. TypeOK'
  BY <1>1, <1>2 DEF IInv, TypeOK, SearchTypeOK, givenVars, graphVars, searchVars, scoreVars, walkVars
<1> QED
  BY <1>1, <1>3, PlanKeeps

LEMMA AskWayOutKeeps ==
  ASSUME IInv, NEW f \in Faces, AskWayOut(f)
  PROVE  IInv'
<1>1. /\ phase = "egress" /\ asked' = f /\ left' = left \ {f} /\ Ask(Core(target), Approach(f))
      /\ UNCHANGED givenVars /\ UNCHANGED graphVars /\ UNCHANGED <<phase, entryFace, egress>>
  BY DEF AskWayOut
<1>2. TypeOK /\ SearchTypeOK /\ target < storeys
  BY <1>1 DEF IInv, TypeOK, Built
<1>3. Approach(f) \in Places /\ Core(target) \in Places
  BY <1>2, AskedArePlaces
<1>4. SearchTypeOK' /\ SearchInv'
  BY <1>1, <1>2, <1>3, AskTypes, AskBegins
<1>5. TypeOK'
  BY <1>1, <1>2, <1>4 DEF TypeOK, givenVars
<1>6. Consistent'
  BY <1>1 DEF IInv, Consistent, graphVars
<1>7. Built' /\ InThroughADoor'
  BY <1>1, <1>2 DEF Built, InThroughADoor, givenVars
<1> QED
  BY <1>4, <1>5, <1>6, <1>7 DEF IInv

LEMMA TakeWayOutKeeps ==
  ASSUME IInv, TakeWayOut
  PROVE  IInv'
<1>1. /\ phase = "egress" /\ asked # None /\ phase' = phase /\ target < storeys /\ asked' = None
      /\ UNCHANGED givenVars /\ UNCHANGED graphVars /\ UNCHANGED searchVars /\ UNCHANGED <<entryFace, left>>
  BY DEF TakeWayOut, IInv, Built
<1>2. asked \in Faces /\ route \subseteq Places /\ goal \in Places
  BY <1>1 DEF IInv, TypeOK, SearchTypeOK
<1>3. status = "found" => best[goal] \in Nat
  <2>1. SUFFICES ASSUME status = "found" PROVE best[goal] \in Nat
    OBVIOUS
  <2>2. Begun /\ goal \in route /\ \A v \in route \ {start} : best[v] # None
    BY <2>1 DEF IInv, SearchInv, Walked
  <2>3. CASE goal = start
    BY <2>2, <2>3 DEF Begun
  <2>4. CASE goal # start
    BY <2>2, <2>4, <1>2 DEF IInv, TypeOK, SearchTypeOK
  <2> QED
    BY <2>3, <2>4
<1>4. egress' \in [face: Faces, cost: Nat, route: SUBSET Places] \cup {None}
  <2>1. CASE Counts
    BY <2>1, <1>2, <1>3 DEF TakeWayOut, Counts, IInv, TypeOK
  <2>2. CASE ~ Counts
    BY <2>2 DEF TakeWayOut, IInv, TypeOK
  <2> QED
    BY <2>1, <2>2
<1>5. TypeOK'
  BY <1>1, <1>4 DEF IInv, TypeOK, SearchTypeOK, givenVars, graphVars, searchVars, scoreVars, walkVars
<1> QED
  BY <1>1, <1>5, PlanKeeps

LEMMA StepKeeps ==
  ASSUME IInv, [Next]_vars
  PROVE  IInv'
<1>1. CASE UNCHANGED vars
  <2>1. TypeOK'
    BY <1>1 DEF IInv, TypeOK, SearchTypeOK, vars, planVars, givenVars, graphVars, searchVars, scoreVars, walkVars
  <2>2. UNCHANGED givenVars /\ UNCHANGED planVars /\ UNCHANGED graphVars /\ UNCHANGED searchVars
    BY <1>1 DEF vars
  <2>3. SearchInv'
    BY <2>2 DEF IInv, SearchInv, graphVars, searchVars, scoreVars, walkVars, Entries, Queued, Monotone, Relaxed,
           Tree, Begun, Ended, Walked
  <2>4. Consistent'
    BY <2>2 DEF IInv, Consistent, graphVars
  <2>5. Built'
    BY <2>2, LegsStay DEF IInv, Built, graphVars, givenVars, planVars, searchVars, scoreVars
  <2>6. InThroughADoor'
    BY <2>2 DEF IInv, InThroughADoor, ThroughADoor, Outside, planVars, searchVars, walkVars
  <2> QED
    BY <2>1, <2>3, <2>4, <2>5, <2>6 DEF IInv
<1>2. CASE Next
  BY <1>2, RefuseKeeps, BuildKeeps, AskEntryKeeps, SearchesKeep, TakeEntryKeeps, AskWayOutKeeps, TakeWayOutKeeps,
     FinishKeeps DEF Next
<1> QED
  BY <1>1, <1>2

LEMMA InvariantHolds == Spec => []IInv
<1>1. Init => IInv
  BY InitEstablishes
<1>2. IInv /\ [Next]_vars => IInv'
  BY StepKeeps
<1> QED
  BY <1>1, <1>2, PTL DEF Spec

\* Every variable keeps its type: the way in of a plan goes through one of the
\* four faces' doors (compute_entry_path).
THEOREM TypeCorrect == Spec => []TypeOK
<1>1. IInv => TypeOK
  BY DEF IInv
<1> QED
  BY <1>1, InvariantHolds, PTL

\* On every graph that build_graph() prices, each search answers with a cheapest
\* route, or refuses because there is none (astar, _reconstruct).
THEOREM RoutesAreCheapest == Spec => []PathIsCheapest
<1>1. IInv => PathIsCheapest
  BY InvariantIsCheapest DEF IInv, TypeOK
<1> QED
  BY <1>1, InvariantHolds, PTL

-----------------------------------------------------------------------------
(* The second way out. *)

\* A set of naturals that is not empty has a least member.
LEMMA LeastOf ==
  ASSUME NEW S \in SUBSET Nat, S # {}
  PROVE  \E m \in S : \A n \in S : m <= n
<1> DEFINE T == {0..n : n \in S}
<1>1. T \subseteq FiniteSubsetsOf(Nat) /\ T # {}
  <2>1. ASSUME NEW n \in S PROVE 0..n \subseteq Nat /\ IsFiniteSet(0..n)
    <3>1. n \in Int /\ 0 \in Int /\ 0..n \subseteq Nat
      OBVIOUS
    <3> QED
      BY <3>1, FS_Interval
  <2> QED
    BY <2>1 DEF FiniteSubsetsOf
<1>2. \E x \in T : \A y \in T : <<y, x>> \notin StrictSubsetOrdering(Nat)
  BY <1>1, FS_StrictSubsetOrderingWellFounded, WFMin
<1>3. PICK m \in S : \A n \in S : <<0..n, 0..m>> \notin StrictSubsetOrdering(Nat)
  BY <1>2
<1>4. ASSUME NEW n \in S, n < m PROVE FALSE
  <2>1. 0..n \subseteq 0..m /\ m \in 0..m /\ m \notin 0..n /\ 0..n \subseteq Nat /\ 0..m \subseteq Nat
    BY <1>4
  <2>2. <<0..n, 0..m>> \in StrictSubsetOrdering(Nat)
    BY <2>1 DEF StrictSubsetOrdering
  <2> QED
    BY <1>3, <1>4, <2>2
<1> QED
  BY <1>4

\* The part of the graph that is not inside: everything on the crew's side of
\* the core of the ground floor.
Outer == Outside \cup {Door(f) : f \in Faces} \cup {Interior(f) : f \in Faces}

\* A leg at the outer part ends in it or at the core of the ground floor.
LEMMA OuterLegs ==
  ASSUME NEW a, NEW b, <<a, b>> \in DOMAIN Legs, b \in Outer
  PROVE  a \in Outer \cup {Core(0)}
<1>1. PICK t \in Pairs : Joins(t, a, b)
  BY DEF Legs
<1>2. CASE t \in Ring \cup FromStaging
  BY <1>1, <1>2 DEF Ring, FromStaging, Joins, Outer, Outside, Present
<1>3. CASE t \in ThroughWalls
  BY <1>1, <1>3 DEF ThroughWalls, Joins, Outer, Outside, Open, Present
<1>4. CASE t \in UpTheStairs
  BY <1>1, <1>4 DEF UpTheStairs, Joins, Outer, Outside, Staging, Approach, Door, Interior, Core, Stair
<1> QED
  BY <1>2, <1>3, <1>4 DEF Pairs

\* A door is between its own approach and its own interior, and an interior
\* between its door and the core.
LEMMA DoorLegs ==
  ASSUME NEW a, NEW f \in Faces, <<a, Door(f)>> \in DOMAIN Legs \/ <<Door(f), a>> \in DOMAIN Legs
  PROVE  a \in {Approach(f), Interior(f)}
<1>1. PICK t \in Pairs : Joins(t, a, Door(f))
  BY DEF Legs, Joins
<1>2. CASE t \in Ring \cup FromStaging
  BY <1>1, <1>2 DEF Ring, FromStaging, Joins, Staging, Approach, Door
<1>3. CASE t \in ThroughWalls
  BY <1>1, <1>3 DEF ThroughWalls, Joins, Approach, Door, Interior, Core
<1>4. CASE t \in UpTheStairs
  BY <1>1, <1>4 DEF UpTheStairs, Joins, Door, Core, Stair
<1> QED
  BY <1>2, <1>3, <1>4 DEF Pairs

LEMMA InteriorLegs ==
  ASSUME NEW a, NEW f \in Faces, <<a, Interior(f)>> \in DOMAIN Legs
  PROVE  a \in {Door(f), Core(0)}
<1>1. PICK t \in Pairs : Joins(t, a, Interior(f))
  BY DEF Legs
<1>2. CASE t \in Ring \cup FromStaging
  BY <1>1, <1>2 DEF Ring, FromStaging, Joins, Staging, Approach, Interior
<1>3. CASE t \in ThroughWalls
  BY <1>1, <1>3 DEF ThroughWalls, Joins, Approach, Door, Interior, Core
<1>4. CASE t \in UpTheStairs
  BY <1>1, <1>4 DEF UpTheStairs, Joins, Interior, Core, Stair
<1> QED
  BY <1>2, <1>3, <1>4 DEF Pairs

\* Going back to the predecessor costs less.
LEMMA BackIsCheaper ==
  ASSUME SearchTypeOK, Tree, Monotone, NEW v \in Places, v # start, best[v] # None
  PROVE  /\ came[v] \in Places /\ best[came[v]] \in Nat /\ best[came[v]] # None /\ best[v] \in Nat
         /\ best[came[v]] < best[v] /\ <<came[v], v>> \in DOMAIN legs
<1>1. /\ came[v] \in settled /\ <<came[v], v>> \in DOMAIN legs
      /\ best[v] = best[came[v]] + legs[<<came[v], v>>]
  BY DEF Tree
<1>2. legs[<<came[v], v>>] \in Nat \ {0}
  BY <1>1 DEF SearchTypeOK
<1>3. came[v] \in Places /\ best[came[v]] # None /\ best[came[v]] \in Nat /\ best[v] \in Nat
  BY <1>1 DEF SearchTypeOK, Monotone
<1> QED
  BY <1>1, <1>2, <1>3

\* From inside, every way to the outer part goes through the core of the ground
\* floor.
LEMMA ThroughTheCore ==
  ASSUME SearchTypeOK, Tree, Monotone, legs = Legs, start \notin Outer, Core(0) \in Places,
         NEW x \in Places \cap Outer, best[x] # None
  PROVE  best[Core(0)] # None /\ best[Core(0)] < best[x]
<1> DEFINE Bad == {v \in Places \cap Outer :
                     best[v] # None /\ ~ (best[Core(0)] # None /\ best[Core(0)] < best[v])}
           Costs == {best[v] : v \in Bad}
<1> SUFFICES ASSUME Bad # {} PROVE FALSE
  BY DEF Bad
<1>1. \A v \in Bad : best[v] \in Nat
  BY DEF SearchTypeOK
<1>2. Costs \in SUBSET Nat /\ Costs # {}
  BY <1>1
<1>3. PICK m \in Costs : \A n \in Costs : m <= n
  BY <1>2, LeastOf
<1>4. PICK v \in Bad : m = best[v]
  BY <1>3
<1>5. /\ came[v] \in Places /\ best[came[v]] \in Nat /\ best[came[v]] # None /\ best[v] \in Nat
      /\ best[came[v]] < best[v] /\ <<came[v], v>> \in DOMAIN Legs
  BY <1>4, BackIsCheaper
<1>6. came[v] \in Outer \cup {Core(0)}
  BY <1>5, OuterLegs
<1>7. came[v] # Core(0)
  BY <1>5
<1>8. came[v] \in Bad
  <2>1. ~ (best[Core(0)] # None /\ best[Core(0)] < best[came[v]])
    <3> SUFFICES ASSUME best[Core(0)] # None, best[Core(0)] < best[came[v]] PROVE FALSE
      OBVIOUS
    <3>1. best[Core(0)] \in Nat
      BY DEF SearchTypeOK
    <3>2. best[Core(0)] < best[v]
      BY <3>1, <1>5
    <3> QED
      BY <3>2
  <2> QED
    BY <1>5, <1>6, <1>7, <2>1
<1>9. best[v] <= best[came[v]]
  BY <1>3, <1>4, <1>8
<1> QED
  BY <1>5, <1>9

\* Walking back on a way out, the route stays below the cost of its goal; it
\* leaves its face's door alone, or comes straight to the core of the ground
\* floor from it.
WayOut(f) ==
  /\ start = Core(target) /\ goal = Approach(f)
  /\ status \in {"walking", "found"} =>
       /\ \A v \in route \cup {cursor} : v \in Places /\ best[v] # None /\ best[v] <= best[goal]
       /\ came[goal] # Door(f) => Door(f) \notin route \cup {cursor}
       /\ came[goal] = Door(f) =>
            \A v \in route \cup {cursor} : v \in {goal, Door(f), Interior(f)} \/ best[v] <= best[Core(0)]
       /\ route \subseteq nodes

\* A second way out that is offered.
Other(way) ==
  /\ way.face \in Faces \ {entryFace} /\ Door(way.face) \in way.route
  /\ Door(entryFace) \notin way.route
  /\ \A f \in Faces : Door(f) \in way.route => f \in Open

\* What is true of the plan while it looks for one.
EgressInv ==
  /\ phase \in {"built", "entry", "egress"} => nodes = Nodes /\ legs = Legs
  /\ phase = "entry" => start = Staging /\ goal = Core(target)
  /\ phase \in {"asked", "built", "entry"} => asked = None /\ egress = None
  /\ phase = "egress" =>
       /\ entryFace \in Faces /\ entryFace \notin left /\ asked # entryFace
       /\ asked # None => WayOut(asked)
  /\ egress # None => Other(egress)
  /\ phase = "done" /\ entryFace = None => target >= storeys \/ Open = {}

LEMMA CoreIsInside ==
  ASSUME TypeOK, target < storeys
  PROVE  /\ Core(target) \in Places /\ Core(target) \notin Outer /\ Core(target) \in Nodes
         /\ Core(0) \in Places /\ Core(0) \in Nodes
<1>1. target \in Nat /\ storeys \in Nat
  BY BuildingAssumption DEF TypeOK
<1>2. target \in 0..(storeys - 1) /\ 0 \in 0..(storeys - 1)
  BY <1>1
<1>3. Core(target) \in Nodes /\ Core(0) \in Nodes
  BY <1>2 DEF Nodes
<1> QED
  BY <1>3, NodesArePlaces DEF Core, Outer, Outside, Staging, Approach, Door, Interior

\* A door of the graph is open.
LEMMA DoorsAreOpen ==
  ASSUME NEW f \in Faces, Door(f) \in Nodes
  PROVE  f \in Open
BY DEF Nodes, Door, Interior, Approach, Staging, Core, Stair

\* Walking back keeps to the shape of a way out.
LEMMA WayOutWalks ==
  ASSUME TypeOK, SearchInv, WalkBack, UNCHANGED target, target < storeys,
         nodes = Nodes, legs = Legs, NEW f \in Faces, WayOut(f)
  PROVE  WayOut(f)'
<1>1. /\ status = "walking" /\ route' = route \cup {cursor} /\ status' \in {"walking", "found"}
      /\ \/ cursor = start /\ cursor' = cursor
         \/ cursor # start /\ cursor' = came[cursor]
      /\ UNCHANGED <<nodes, legs, start, goal, best, came>>
  BY DEF WalkBack, graphVars, scoreVars
<1>2. SearchTypeOK /\ Tree /\ Monotone /\ start # goal
  BY <1>1 DEF TypeOK, SearchInv, WayOut, Core, Approach
<1>3. /\ start = Core(target) /\ goal = Approach(f) /\ goal \in Places /\ start \notin Outer
      /\ Core(0) \in Places /\ Core(target) \in Nodes
  BY <1>2, CoreIsInside DEF WayOut, SearchTypeOK
<1>4. /\ \A v \in route \cup {cursor} : v \in Places /\ best[v] # None /\ best[v] <= best[goal]
      /\ came[goal] # Door(f) => Door(f) \notin route \cup {cursor}
      /\ came[goal] = Door(f) =>
           \A v \in route \cup {cursor} : v \in {goal, Door(f), Interior(f)} \/ best[v] <= best[Core(0)]
      /\ route \subseteq nodes /\ cursor \in Places
  BY <1>1 DEF WayOut
<1>5. ASSUME cursor # start
      PROVE  /\ came[cursor] \in Places /\ best[came[cursor]] \in Nat /\ best[came[cursor]] # None
             /\ best[cursor] \in Nat /\ best[came[cursor]] < best[cursor]
             /\ <<came[cursor], cursor>> \in DOMAIN Legs
  BY <1>2, <1>4, <1>5, BackIsCheaper
<1>6. cursor \in Nodes
  BY <1>3, <1>5 DEF Legs
<1>7. CASE cursor = start
  BY <1>1, <1>3, <1>4, <1>6, <1>7 DEF WayOut, Core
<1>8. CASE cursor # start
  <2> DEFINE w == came[cursor]
  <2>0. goal \in route \cup {cursor}
    BY <1>1 DEF SearchInv, Walked
  <2>1. best[goal] \in Nat /\ best[w] < best[goal]
    <3>1. best[goal] \in Nat
      BY <2>0, <1>3, <1>4, <1>2 DEF SearchTypeOK
    <3> QED
      BY <3>1, <1>4, <1>5, <1>8
  <2>2. came[goal] # Door(f) => w # Door(f)
    <3> SUFFICES ASSUME came[goal] # Door(f), w = Door(f) PROVE FALSE
      OBVIOUS
    <3>1. cursor \in {Approach(f), Interior(f)}
      BY <1>5, <1>8, DoorLegs
    <3>2. cursor = Interior(f)
      BY <3>1, <1>3
    <3>3. Door(f) # start
      BY <1>3 DEF Outer
    <3>4. /\ came[w] \in Places /\ best[came[w]] \in Nat /\ best[came[w]] < best[w]
          /\ <<came[w], w>> \in DOMAIN Legs
      BY <1>2, <1>5, <1>8, <3>3, BackIsCheaper
    <3>5. came[w] \in {goal, cursor}
      BY <3>2, <3>4, <1>3, DoorLegs
    <3> QED
      BY <3>4, <3>5, <2>1, <1>5, <1>8
  <2>3. ASSUME came[goal] = Door(f)
        PROVE  w \in {goal, Door(f), Interior(f)} \/ best[w] <= best[Core(0)]
    <3>1. CASE cursor = goal
      BY <2>3, <3>1
    <3>2. CASE cursor = Door(f)
      BY <3>2, <1>3, <1>5, <1>8, DoorLegs
    <3>3. CASE cursor = Interior(f)
      <4>1. w \in {Door(f), Core(0)}
        BY <3>3, <1>5, <1>8, InteriorLegs
      <4>2. best[Core(0)] # None => best[Core(0)] <= best[Core(0)]
        BY <1>2, <1>3 DEF SearchTypeOK
      <4> QED
        BY <4>1, <4>2, <1>5, <1>8
    <3>4. CASE cursor \notin {goal, Door(f), Interior(f)}
      <4>1. best[cursor] <= best[Core(0)]
        BY <2>3, <3>4, <1>4
      <4>2. best[Core(0)] # None
        <5> SUFFICES ASSUME best[Core(0)] = None PROVE FALSE
          OBVIOUS
        <5>1. best[goal] # None /\ goal \in Places \cap Outer
          BY <2>1, <1>3, PlacesAssumption DEF Outer, Outside
        <5> QED
          BY <5>1, <1>2, <1>3, ThroughTheCore
      <4>3. best[Core(0)] \in Nat
        BY <4>2, <1>2, <1>3 DEF SearchTypeOK
      <4> QED
        BY <4>1, <4>3, <1>5, <1>8
    <3> QED
      BY <3>1, <3>2, <3>3, <3>4
  <2>4. \A v \in route' \cup {cursor'} : v \in route \cup {cursor} \/ v = w
    BY <1>1, <1>8
  <2>5. best[w] <= best[goal] /\ w \in Places /\ best[w] # None
    BY <2>1, <1>5, <1>8
  <2> HIDE DEF w
  <2>6. /\ \A v \in route' \cup {cursor'} : v \in Places /\ best[v] # None /\ best[v] <= best[goal]
        /\ came[goal] # Door(f) => Door(f) \notin route' \cup {cursor'}
        /\ came[goal] = Door(f) =>
             \A v \in route' \cup {cursor'} : v \in {goal, Door(f), Interior(f)} \/ best[v] <= best[Core(0)]
        /\ route' \subseteq nodes
    BY <2>2, <2>3, <2>4, <2>5, <1>1, <1>4, <1>6
  <2>7. start' = Core(target)' /\ goal' = Approach(f)
    BY <1>1, <1>3 DEF Core
  <2> QED
    BY <2>6, <2>7, <1>1 DEF WayOut
<1> QED
  BY <1>7, <1>8

\* The nodes stay what they were built to be.
LEMMA NodesStay ==
  ASSUME UNCHANGED givenVars
  PROVE  Nodes' = Nodes /\ Open' = Open
BY DEF givenVars, Nodes, Present, Open

\* A plan keeps what it has found while what it was given does not change.
LEMMA OtherStays ==
  ASSUME UNCHANGED givenVars, UNCHANGED <<entryFace, egress>>
  PROVE  (egress # None => Other(egress)) => (egress' # None => Other(egress)')
BY NodesStay DEF Other

LEMMA InitPlans ==
  ASSUME Init
  PROVE  EgressInv
BY DEF Init, EgressInv

LEMMA BuildPlans ==
  ASSUME TypeOK, EgressInv, Build
  PROVE  EgressInv'
<1>1. /\ phase = "asked" /\ phase' = "built" /\ nodes' = Nodes /\ legs' = Legs
      /\ UNCHANGED givenVars /\ UNCHANGED <<entryFace, asked, egress>>
  BY DEF Build
<1> QED
  BY <1>1, NodesStay, LegsStay, OtherStays DEF EgressInv

LEMMA AskEntryPlans ==
  ASSUME TypeOK, EgressInv, AskEntry
  PROVE  EgressInv'
<1>1. /\ phase = "built" /\ phase' = "entry" /\ start' = Staging /\ goal' = Core(target) /\ target' = target
      /\ UNCHANGED givenVars /\ UNCHANGED graphVars /\ UNCHANGED <<entryFace, asked, egress>>
  BY DEF AskEntry, Ask, givenVars
<1>2. goal' = Core(target)'
  BY <1>1 DEF Core
<1> QED
  BY <1>1, <1>2, NodesStay, LegsStay, OtherStays DEF EgressInv, graphVars

\* A search that goes on keeps the shape of a way out.
LEMMA SearchesPlan ==
  ASSUME IInv, EgressInv, Searches
  PROVE  EgressInv'
<1>1. /\ SearchStep /\ UNCHANGED givenVars /\ UNCHANGED graphVars /\ UNCHANGED <<start, goal, target>>
      /\ UNCHANGED <<phase, entryFace, left, asked, egress>>
  BY DEF Searches, SearchStep, SkipStale, Expand, Exhaust, WalkBack, planVars, givenVars
<1>2. /\ phase \in {"built", "entry", "egress"} => nodes' = Nodes' /\ legs' = Legs'
      /\ egress' # None => Other(egress)'
      /\ Open' = Open
  BY <1>1, NodesStay, LegsStay, OtherStays DEF EgressInv, graphVars
<1>3. ASSUME phase = "egress", asked # None PROVE WayOut(asked)'
  <2>1. PICK f \in Faces : f = asked
    BY <1>3 DEF IInv, TypeOK
  <2>2. target < storeys /\ nodes = Nodes /\ legs = Legs /\ WayOut(f)
    BY <1>3, <2>1 DEF IInv, Built, EgressInv
  <2>3. CASE WalkBack
    BY <2>1, <2>2, <2>3, <1>1, WayOutWalks DEF IInv, WayOut
  <2>4. CASE \E e \in frontier : SkipStale(e)
    <3>1. status' = "searching"
      BY <2>4 DEF SkipStale
    <3> QED
      BY <2>1, <2>2, <3>1, <1>1 DEF WayOut, Core
  <2>5. CASE Exhaust
    <3>1. status' = "refused"
      BY <2>5 DEF Exhaust
    <3> QED
      BY <2>1, <2>2, <3>1, <1>1 DEF WayOut, Core
  <2>6. ASSUME NEW e \in frontier, Expand(e) PROVE WayOut(f)'
    <3>1. /\ status = "searching" /\ e.at \notin settled /\ cursor' = cursor /\ route' = route
          /\ status' \in {"searching", "walking", "refused"}
      BY <2>6 DEF Expand, walkVars
    <3>2. CASE status' # "walking"
      BY <2>2, <3>1, <3>2, <1>1 DEF WayOut, Core
    <3>3. CASE status' = "walking"
      <4>1. /\ e.at = goal /\ Popped(e) /\ best' = best /\ came' = came
        BY <2>6, <3>1, <3>3 DEF Expand
      <4>2. /\ {start, goal} \subseteq nodes /\ cursor = goal /\ route = {} /\ Entries
        BY <3>1 DEF IInv, SearchInv, Walked
      <4>3. best[goal] # None /\ goal \in Places
        BY <4>1, <4>2 DEF Entries, IInv, TypeOK, SearchTypeOK
      <4>4. best[goal] <= best[goal]
        BY <4>3 DEF IInv, TypeOK, SearchTypeOK
      <4>5. goal = Approach(f) /\ goal # Door(f)
        BY <2>2 DEF WayOut, Approach, Door
      <4>6. WayOut(f)'
        BY <2>2, <3>1, <3>3, <4>1, <4>2, <4>3, <4>4, <4>5, <1>1 DEF WayOut, Core
      <4> QED
        BY <4>6
    <3> QED
      BY <3>2, <3>3
  <2>7. WayOut(f)'
    BY <1>1, <2>1, <2>3, <2>4, <2>5, <2>6 DEF SearchStep
  <2> QED
    BY <2>1, <2>7, <1>1 DEF WayOut
<1>4. phase = "entry" => start' = Staging /\ goal' = Core(target)'
  BY <1>1 DEF EgressInv, Core
<1>5. phase' = "egress" =>
        /\ entryFace' \in Faces /\ entryFace' \notin left' /\ asked' # entryFace'
        /\ asked' # None => WayOut(asked)'
  BY <1>1, <1>3 DEF EgressInv
<1>6. phase' = "done" /\ entryFace' = None => target' >= storeys' \/ Open' = {}
  BY <1>1, <1>2 DEF EgressInv, givenVars
<1> QED
  BY <1>1, <1>2, <1>4, <1>5, <1>6 DEF EgressInv

\* No leg leads from the staging area to the core of a storey only when no wall
\* is open.
LEMMA ClosedIfNothingLeads ==
  ASSUME TypeOK, target < storeys, nodes = Nodes, legs = Legs, start = Staging, goal = Core(target),
         NothingLeads
  PROVE  Open = {}
<1> SUFFICES ASSUME NEW f \in Open PROVE FALSE
  OBVIOUS
<1>1. f \in Present /\ f \in Faces
  BY DEF Open, Present
<1>2. /\ Staging \in settled /\ Core(target) \notin settled
      /\ \A leg \in DOMAIN Legs : leg[1] \in settled => leg[2] \in settled
  BY DEF NothingLeads
<1>3. ASSUME NEW a \in Nodes, NEW b \in Nodes, a # b, NEW t \in Pairs, Joins(t, a, b), a \in settled
      PROVE  b \in settled
  <2>1. Length[<<a, b>>] > 0
    BY <1>3, NodesArePlaces, RoomAssumption
  <2>2. <<a, b>> \in DOMAIN Legs
    BY <1>3, <2>1 DEF Legs
  <2> QED
    BY <1>2, <1>3, <2>2
<1>4. target \in Nat /\ storeys \in Nat
  BY BuildingAssumption DEF TypeOK
<1>5. {Staging, Approach(f), Door(f), Interior(f), Core(0)} \subseteq Nodes
  BY <1>1, <1>4, CoreIsInside DEF Nodes
<1>6. /\ Staging # Approach(f) /\ Approach(f) # Door(f) /\ Door(f) # Interior(f) /\ Interior(f) # Core(0)
      /\ \A l, k \in Nat : (l # k => Core(l) # Core(k)) /\ Core(l) # Stair(k)
  BY DEF Staging, Approach, Door, Interior, Core, Stair
<1>7. Approach(f) \in settled
  <2>1. <<Staging, Approach(f), 0>> \in Pairs
    BY <1>1 DEF Pairs, FromStaging
  <2> QED
    BY <2>1, <1>2, <1>3, <1>5, <1>6 DEF Joins
<1>8. Door(f) \in settled
  <2> DEFINE t == <<Approach(f), Door(f), ThermalWeight(wall[f]) + ObstructionWeight(wall[f]) + CollapseWeight>>
  <2>1. t \in Pairs /\ t[1] = Approach(f) /\ t[2] = Door(f)
    BY DEF Pairs, ThroughWalls
  <2> QED
    BY <2>1, <1>3, <1>5, <1>6, <1>7 DEF Joins
<1>9. Interior(f) \in settled
  <2>1. <<Door(f), Interior(f), 0>> \in Pairs
    BY DEF Pairs, ThroughWalls
  <2> QED
    BY <2>1, <1>3, <1>5, <1>6, <1>8 DEF Joins
<1>10. Core(0) \in settled
  <2>1. <<Interior(f), Core(0), StructuralWeight(0)>> \in Pairs
    BY DEF Pairs, ThroughWalls
  <2> QED
    BY <2>1, <1>3, <1>5, <1>6, <1>9 DEF Joins
\* And so up the stairs: the lowest core that is not settled would have its
\* stair settled.
<1>11. ASSUME NEW l \in 0..(target - 1), Core(l) \in settled
       PROVE  Core(l + 1) \in settled
  <2>1. l \in 0..(storeys - 2) /\ l \in 0..(storeys - 1) /\ l + 1 \in 0..(storeys - 1) /\ l \in Nat /\ l + 1 \in Nat
    BY <1>4
  <2>2. Core(l) \in Nodes /\ Stair(l) \in Nodes /\ Core(l + 1) \in Nodes
    BY <2>1 DEF Nodes
  <2>3. <<Core(l), Stair(l), StructuralWeight(l + 1)>> \in UpTheStairs
        /\ <<Stair(l), Core(l + 1), StructuralWeight(l + 1)>> \in UpTheStairs
    BY <2>1 DEF UpTheStairs
  <2>4. <<Core(l), Stair(l), StructuralWeight(l + 1)>> \in Pairs
        /\ <<Stair(l), Core(l + 1), StructuralWeight(l + 1)>> \in Pairs
    BY <2>3 DEF Pairs
  <2>5. Stair(l) \in settled
    BY <2>1, <2>2, <2>4, <1>3, <1>6, <1>11 DEF Joins
  <2> QED
    BY <2>1, <2>2, <2>4, <2>5, <1>3, <1>6 DEF Joins
<1>12. DEFINE Unsettled == {l \in 0..target : Core(l) \notin settled}
<1>13. Unsettled \in SUBSET Nat /\ target \in Unsettled
  BY <1>2, <1>4
<1>14. PICK m \in Unsettled : \A n \in Unsettled : m <= n
  BY <1>13, LeastOf
<1>15. m \in 1..target /\ m - 1 \in 0..(target - 1) /\ m - 1 + 1 = m
  BY <1>4, <1>10
<1>16. Core(m - 1) \in settled
  BY <1>14, <1>15, <1>4
<1>17. Core(m - 1 + 1) \in settled
  BY <1>11, <1>15, <1>16
<1> QED
  BY <1>15, <1>17

\* The way in is refused only for the walls, and leaves its own door behind.
LEMMA TakeEntryPlans ==
  ASSUME IInv, EgressInv, TakeEntry
  PROVE  EgressInv'
<1>1. /\ phase = "entry" /\ phase' \in {"done", "egress"} /\ target < storeys /\ nodes = Nodes /\ legs = Legs
      /\ start = Staging /\ goal = Core(target) /\ asked = None /\ egress = None
      /\ UNCHANGED givenVars /\ UNCHANGED graphVars /\ UNCHANGED <<asked, egress>>
  BY DEF TakeEntry, IInv, Built, EgressInv
<1>2. CASE status = "refused"
  <2>1. phase' = "done"
    BY <1>2 DEF TakeEntry
  <2>2. {start, goal} \subseteq nodes
    BY <1>1, CoreIsInside DEF IInv, Nodes
  <2>3. ~ (Cardinality(settled) > MaxExpansions)
    <3>1. settled \in SUBSET Places
      BY DEF IInv, TypeOK, SearchTypeOK
    <3>2. Cardinality(settled) <= Cardinality(Places) /\ IsFiniteSet(settled)
      BY <3>1, RoomAssumption, FS_Subset
    <3>3. Cardinality(settled) \in Nat /\ Cardinality(Places) \in Nat
      BY <3>2, RoomAssumption, FS_CardinalityType
    <3> QED
      BY <3>2, <3>3, RoomAssumption, PlacesAssumption
  <2>4. NothingLeads
    BY <1>2, <2>2, <2>3, RefusedIsOutOfReach DEF IInv, TypeOK
  <2>5. Open = {}
    BY <1>1, <2>4, ClosedIfNothingLeads DEF IInv
  <2> QED
    BY <1>1, <2>1, <2>5, NodesStay DEF EgressInv
<1>3. CASE status # "refused"
  <2>1. status = "found" /\ phase' = "egress"
    BY <1>3 DEF TakeEntry, Answered
  <2>2. \E f \in Faces : Door(f) \in route
    BY <1>1, <2>1 DEF IInv, InThroughADoor, ThroughADoor
  <2>3. entryFace' = CHOOSE f \in Faces : Door(f) \in route
    BY <1>3 DEF TakeEntry
  <2>4. entryFace' \in Faces /\ entryFace' \notin left'
    BY <1>3, <2>2, <2>3 DEF TakeEntry
  <2>5. entryFace' # None
    BY <2>4, BuildingAssumption
  <2>6. nodes' = Nodes' /\ legs' = Legs'
    BY <1>1, NodesStay, LegsStay DEF graphVars
  <2> QED
    BY <1>1, <2>1, <2>4, <2>5, <2>6 DEF EgressInv
<1> QED
  BY <1>2, <1>3

LEMMA AskWayOutPlans ==
  ASSUME IInv, EgressInv, NEW f \in Faces, AskWayOut(f)
  PROVE  EgressInv'
<1>1. /\ phase = "egress" /\ asked' = f /\ f \in left /\ left' = left \ {f}
      /\ start' = Core(target) /\ goal' = Approach(f) /\ status' \in {"refused", "walking", "searching"}
      /\ (status' = "walking" => Core(target) = Approach(f)) /\ target' = target
      /\ UNCHANGED givenVars /\ UNCHANGED graphVars /\ UNCHANGED <<phase, entryFace, egress>>
  BY DEF AskWayOut, Ask, givenVars
<1>2. status' # "walking"
  BY <1>1 DEF Core, Approach
<1>3. start' = Core(target)'
  BY <1>1 DEF Core
<1>4. WayOut(asked)'
  BY <1>1, <1>2, <1>3 DEF WayOut
<1>5. nodes' = Nodes' /\ legs' = Legs' /\ (egress' # None => Other(egress)')
  BY <1>1, NodesStay, LegsStay, OtherStays DEF EgressInv, graphVars
<1> QED
  BY <1>1, <1>4, <1>5 DEF EgressInv

\* A way out that counts is another one: beyond the core its route is inside.
LEMMA TakeWayOutPlans ==
  ASSUME IInv, EgressInv, TakeWayOut
  PROVE  EgressInv'
<1>1. /\ phase = "egress" /\ asked # None /\ phase' = phase /\ asked' = None /\ target < storeys
      /\ nodes = Nodes /\ legs = Legs /\ WayOut(asked) /\ entryFace \in Faces /\ asked # entryFace
      /\ UNCHANGED givenVars /\ UNCHANGED graphVars /\ UNCHANGED <<entryFace, left>>
  BY DEF TakeWayOut, IInv, Built, EgressInv
<1>2. PICK f \in Faces : f = asked
  BY <1>1 DEF IInv, TypeOK
<1>3. ASSUME Counts
      PROVE  /\ Door(f) \in route /\ Door(entryFace) \notin route
             /\ \A e \in Faces : Door(e) \in route => e \in Open
  <2>1. Door(f) \in route /\ status = "found"
    BY <1>2, <1>3 DEF Counts
  <2>2. came[goal] = Door(f) /\ route \subseteq nodes
        /\ \A v \in route : /\ v \in Places /\ best[v] # None
                            /\ v \in {goal, Door(f), Interior(f)} \/ best[v] <= best[Core(0)]
    BY <1>1, <1>2, <2>1 DEF WayOut
  <2>3. ASSUME Door(entryFace) \in route PROVE FALSE
    <3>1. Door(entryFace) \notin {goal, Door(f), Interior(f)} /\ Door(entryFace) \in Places \cap Outer
      BY <1>1, <1>2, <2>2, <2>3 DEF WayOut, Approach, Door, Interior, Outer
    <3>2. best[Door(entryFace)] <= best[Core(0)] /\ best[Door(entryFace)] # None
      BY <2>2, <2>3, <3>1
    <3>3. start \notin Outer /\ Core(0) \in Places
      BY <1>1, CoreIsInside DEF WayOut, IInv
    <3>4. SearchTypeOK /\ Tree /\ Monotone
      BY <2>1 DEF IInv, TypeOK, SearchInv
    <3>5. best[Core(0)] # None /\ best[Core(0)] < best[Door(entryFace)]
      BY <1>1, <3>1, <3>2, <3>3, <3>4, ThroughTheCore
    <3>6. best[Core(0)] \in Nat /\ best[Door(entryFace)] \in Nat
      BY <3>1, <3>2, <3>3, <3>4, <3>5 DEF SearchTypeOK
    <3> QED
      BY <3>2, <3>5, <3>6
  <2> QED
    BY <1>1, <2>1, <2>2, <2>3, DoorsAreOpen
<1>4. ASSUME egress' # None PROVE Other(egress)'
  <2>1. CASE egress' = egress
    BY <1>1, <1>4, <2>1, OtherStays DEF EgressInv
  <2>2. CASE egress' # egress
    <3>1. Counts /\ egress' = [face |-> f, cost |-> best[goal], route |-> route]
      BY <1>2, <2>2 DEF TakeWayOut
    <3>2. egress'.face = f /\ egress'.route = route
      BY <3>1
    <3> QED
      BY <1>1, <1>2, <1>3, <3>1, <3>2, NodesStay DEF Other
  <2> QED
    BY <2>1, <2>2
<1>5. nodes' = Nodes' /\ legs' = Legs'
  BY <1>1, NodesStay, LegsStay DEF graphVars
<1>6. asked' # entryFace'
  BY <1>1, BuildingAssumption
<1> QED
  BY <1>1, <1>4, <1>5, <1>6 DEF EgressInv

LEMMA EndPlans ==
  ASSUME IInv, EgressInv, Refuse \/ Finish
  PROVE  EgressInv'
<1>1. /\ phase' = "done" /\ UNCHANGED givenVars /\ UNCHANGED <<entryFace, egress>>
      /\ (target >= storeys \/ phase = "egress") /\ UNCHANGED <<target, storeys>>
  BY DEF Refuse, Finish, givenVars
<1>2. phase = "egress" => entryFace \in Faces /\ None \notin Faces
  BY BuildingAssumption DEF EgressInv
<1>3. (egress' # None => Other(egress)') /\ Open' = Open
  BY <1>1, OtherStays, NodesStay DEF EgressInv
<1> QED
  BY <1>1, <1>2, <1>3 DEF EgressInv

LEMMA StepPlans ==
  ASSUME IInv, EgressInv, [Next]_vars
  PROVE  EgressInv'
<1>1. CASE UNCHANGED vars
  <2>1. UNCHANGED givenVars /\ UNCHANGED <<planVars, graphVars, searchVars>>
    BY <1>1 DEF vars
  <2>2. WayOut(asked) => WayOut(asked)'
    BY <2>1 DEF WayOut, Core, planVars, givenVars, graphVars, searchVars, scoreVars, walkVars
  <2> QED
    BY <2>1, <2>2, NodesStay, LegsStay, OtherStays
       DEF EgressInv, Core, planVars, givenVars, graphVars, searchVars
<1>2. CASE Next
  BY <1>2, EndPlans, BuildPlans, AskEntryPlans, SearchesPlan, TakeEntryPlans, AskWayOutPlans,
     TakeWayOutPlans DEF Next, IInv
<1> QED
  BY <1>1, <1>2

\* Whatever was measured of the walls: a plan's second way out leaves through an
\* open door that is not the entry's and never passes the entry's, and the way in
\* is refused only when every wall is barred (compute_entry_path).
THEOREM SecondWaysAreOthers == Spec => []SecondWayIsAnother
<1>1. Init => EgressInv
  BY InitPlans
<1>2. IInv /\ EgressInv /\ [Next]_vars => EgressInv'
  BY StepPlans
<1>3. EgressInv => SecondWayIsAnother
  BY DEF EgressInv, Other, SecondWayIsAnother, Open
<1> QED
  BY <1>1, <1>2, <1>3, InvariantHolds, PTL DEF Spec
=============================================================================
