----------------------------- MODULE EntryPath -----------------------------
(***************************************************************************)
(* The entry plan of one building (incident/entrypath.py): a graph built   *)
(* and priced from what was measured of its walls and is on record of its  *)
(* structure, a search for the way in, and one search per other face for a *)
(* second way out.  The plan is computed without an await, so nothing      *)
(* interleaves; the instances range over what the walls can read.  Lengths *)
(* are geometry and constants here, weights are in hundredths.             *)
(***************************************************************************)
EXTENDS PathFinding

CONSTANTS Walls,       \* what can be known of a wall
          Structures,  \* what can be on record of the structure
          Buildings,   \* how many storeys the massing model may have
          Targets,     \* the storeys that may be asked for
          Radius,      \* collapse_zone_radius_m
          MinStandoff, \* MIN_STANDOFF_M
          Length       \* the length of a leg between two places

\* GROUND_FACES, clockwise.
GroundFaces == <<"ALPHA", "BRAVO", "CHARLIE", "DELTA">>
Faces == {GroundFaces[i] : i \in DOMAIN GroundFaces}

\* The nodes of build_graph().
Staging == <<"staging", 0>>
Approach(f) == <<"approach", f>>
Door(f) == <<"door", f>>
Interior(f) == <<"interior", f>>
Core(l) == <<"core", l>>
Stair(l) == <<"stair", l>>
Storeys == UNION {0..(n - 1) : n \in Buildings}
Flights == UNION {0..(n - 2) : n \in Buildings}

Wall == [scanned: BOOLEAN, peak: Nat, coverage: 0..100, voids: Nat, obstructions: Nat]
Structure == [truss: BOOLEAN, disputed: SUBSET Nat, conflicts: Nat]

ASSUME BuildingAssumption ==
  /\ Walls \subseteq Wall /\ None \notin Wall \cup Faces /\ Structures \subseteq Structure
  /\ Buildings \subseteq Nat /\ Targets \subseteq Nat /\ Radius \in Nat /\ MinStandoff \in Nat \ {0}
  /\ {Staging} \cup {Approach(f) : f \in Faces} \cup {Door(f) : f \in Faces}
       \cup {Interior(f) : f \in Faces} \cup {Core(l) : l \in Storeys} \cup {Stair(l) : l \in Flights}
       \subseteq Places
  /\ Length \in [Places \X Places -> Nat]
  /\ \A a, b \in Places : Length[<<a, b>>] = Length[<<b, a>>]
\* A straight line, priced at its length, is no longer than one by way of a leg.
ASSUME TriangleAssumption ==
  \A a, b, c \in Places : Straight[<<a, c>>] <= 100 * Length[<<a, b>>] + Straight[<<b, c>>]

\* Places do not coincide ("coincident nodes are not built"), and a search may
\* expand them all ("a fireground graph is tiny").
ASSUME RoomAssumption ==
  /\ \A a, b \in Places : a # b => Length[<<a, b>>] > 0
  /\ IsFiniteSet(Places) /\ Cardinality(Places) <= MaxExpansions

VARIABLES wall,      \* each face: what is known of its wall, None if none matches
          structure, storeys, target,
          phase,     \* how far compute_entry_path() has come
          entryFace, \* the face the way in goes through
          left,      \* the faces whose way out is still to be searched
          asked,     \* the one being searched
          egress     \* the best second way out so far

givenVars == <<wall, structure, storeys, target>>
planVars == <<phase, entryFace, left, asked, egress>>
vars == <<givenVars, planVars, graphVars, searchVars>>

TypeOK ==
  /\ wall \in [Faces -> Walls \cup {None}] /\ structure \in Structures
  /\ storeys \in Buildings /\ target \in Targets
  /\ phase \in {"asked", "built", "entry", "egress", "done"}
  /\ entryFace \in Faces \cup {None} /\ left \subseteq Faces /\ asked \in Faces \cup {None}
  /\ egress \in [face: Faces, cost: Nat, route: SUBSET Places] \cup {None}
  /\ SearchTypeOK

\* The longest wall is ALPHA, so that face always has one.
Init ==
  /\ wall \in [Faces -> Walls \cup {None}] /\ wall["ALPHA"] # None
  /\ structure \in Structures /\ storeys \in Buildings /\ target \in Targets
  /\ phase = "asked" /\ entryFace = None /\ left = {} /\ asked = None /\ egress = None
  /\ nodes = {} /\ legs = [leg \in {} |-> 1] /\ start = Staging /\ goal = Staging
  /\ best = [v \in Places |-> None] /\ came = [v \in Places |-> None] /\ settled = {} /\ frontier = {}
  /\ status = "idle" /\ cursor = Staging /\ route = {}

-----------------------------------------------------------------------------
\* build_graph().
AtMost(n, bound) == IF n > bound THEN bound ELSE n

\* _thermal_terms(): a wall measured too hot has no leg at all, one nobody
\* measured is priced for that, and heat, gaps and voids each add their weight.
ThermalBaseline == 40
ThermalBarrier == 300
Barred(w) == w.scanned /\ w.peak >= ThermalBarrier
ThermalWeight(w) ==
  IF ~ w.scanned THEN 300
  ELSE (IF w.peak > ThermalBaseline
          THEN (600 * (w.peak - ThermalBaseline)) \div (ThermalBarrier - ThermalBaseline) ELSE 0)
       + 2 * (100 - w.coverage) + 100 * AtMost(w.voids, 3)

\* _obstruction_terms() and _collapse_zone_term().
ObstructionWeight(w) == 150 * AtMost(w.obstructions, 2)
CollapseWeight == IF Radius >= MinStandoff THEN 200 ELSE (200 * Radius) \div MinStandoff

\* _structural_terms(), inside at one level.
StructuralWeight(level) ==
  (IF structure.truss THEN 150 ELSE 0)
    + (IF level \in structure.disputed THEN 250 ELSE 0)
    + 100 * AtMost(structure.conflicts, 3)

Present == {f \in Faces : wall[f] # None}
Open == {f \in Present : ~ Barred(wall[f])}

Nodes ==
  {Staging} \cup {Approach(f) : f \in Present}
    \cup {Door(f) : f \in Open} \cup {Interior(f) : f \in Open}
    \cup {Core(l) : l \in 0..(storeys - 1)} \cup {Stair(l) : l \in 0..(storeys - 2)}

\* The ring joins each approach to the next that is present, clockwise.
Clockwise(i, j) == IF j > i THEN j - i ELSE j - i + 4
Follows(f, e) ==
  \E i, j \in DOMAIN GroundFaces :
    /\ i # j /\ GroundFaces[i] = f /\ GroundFaces[j] = e
    /\ \A k \in DOMAIN GroundFaces : GroundFaces[k] \in Present /\ k # i => Clockwise(i, j) <= Clockwise(i, k)

\* The pairs of add_pair(), each with the weight of its leg.
Ring ==
  {<<Approach(p[1]), Approach(p[2]), 0>> : p \in {q \in Present \X Present : Follows(q[1], q[2])}}
FromStaging == {<<Staging, Approach(f), 0>> : f \in Present}
ThroughWalls ==
  {<<Approach(f), Door(f), ThermalWeight(wall[f]) + ObstructionWeight(wall[f]) + CollapseWeight>> : f \in Open}
    \cup {<<Door(f), Interior(f), 0>> : f \in Open}
    \cup {<<Interior(f), Core(0), StructuralWeight(0)>> : f \in Open}
UpTheStairs ==
  UNION {{<<Core(l), Stair(l), StructuralWeight(l + 1)>>, <<Stair(l), Core(l + 1), StructuralWeight(l + 1)>>}
           : l \in 0..(storeys - 2)}
Pairs == Ring \cup FromStaging \cup ThroughWalls \cup UpTheStairs

\* Both directions of each pair of places that do not coincide.
Joins(t, a, b) == (t[1] = a /\ t[2] = b) \/ (t[1] = b /\ t[2] = a)
Legs ==
  [leg \in {pair \in Nodes \X Nodes : Length[pair] > 0 /\ \E t \in Pairs : Joins(t, pair[1], pair[2])} |->
     Length[leg] * (100 + (CHOOSE t \in Pairs : Joins(t, leg[1], leg[2]))[3])]

-----------------------------------------------------------------------------
\* compute_entry_path().
\* A storey the massing model does not have is refused.
Refuse ==
  /\ phase = "asked" /\ target >= storeys /\ phase' = "done"
  /\ UNCHANGED <<givenVars, entryFace, left, asked, egress, graphVars, searchVars>>

Build ==
  /\ phase = "asked" /\ target < storeys /\ phase' = "built"
  /\ nodes' = Nodes /\ legs' = Legs
  /\ UNCHANGED <<givenVars, entryFace, left, asked, egress, searchVars>>

AskEntry ==
  /\ phase = "built" /\ phase' = "entry" /\ Ask(Staging, Core(target))
  /\ UNCHANGED <<givenVars, entryFace, left, asked, egress, graphVars>>

\* The search of the caller goes on, or has answered.
Searches == SearchStep /\ UNCHANGED <<givenVars, planVars>>
Answered == status \in {"found", "refused"}

\* The way in is refused, or goes through one door, and every face with another
\* door may offer a second way out.
TakeEntry ==
  /\ phase = "entry" /\ Answered
  /\ IF status = "refused"
       THEN phase' = "done" /\ UNCHANGED <<entryFace, left>>
       ELSE /\ phase' = "egress"
            /\ entryFace' = CHOOSE f \in Faces : Door(f) \in route
            /\ left' = {f \in Faces : Door(f) \in nodes} \ {entryFace'}
  /\ UNCHANGED <<givenVars, asked, egress, graphVars, searchVars>>

\* One search per face, in the order of the approaches' ids.
AskWayOut(f) ==
  /\ phase = "egress" /\ asked = None
  /\ f \in left /\ \A e \in left : Id[Approach(f)] <= Id[Approach(e)]
  /\ asked' = f /\ left' = left \ {f} /\ Ask(Core(target), Approach(f))
  /\ UNCHANGED <<givenVars, phase, entryFace, egress, graphVars>>

\* Mutant: out through the entry's door and round the perimeter counts.
AnyWayCounts == status = "found"

\* A route counts that goes through the face's own door,
Counts == status = "found" /\ Door(asked) \in route

\* and is taken when it is cheaper than the best so far.
TakeWayOut ==
  /\ phase = "egress" /\ asked # None /\ Answered
  /\ egress' = IF Counts /\ (egress = None \/ best[goal] < egress.cost)
                 THEN [face |-> asked, cost |-> best[goal], route |-> route] ELSE egress
  /\ asked' = None
  /\ UNCHANGED <<givenVars, phase, entryFace, left, graphVars, searchVars>>

Finish ==
  /\ phase = "egress" /\ asked = None /\ left = {} /\ phase' = "done"
  /\ UNCHANGED <<givenVars, entryFace, left, asked, egress, graphVars, searchVars>>

Next ==
  \/ Refuse \/ Build \/ AskEntry \/ Searches \/ TakeEntry
  \/ (\E f \in Faces : AskWayOut(f)) \/ TakeWayOut \/ Finish

Spec == Init /\ [][Next]_vars

-----------------------------------------------------------------------------
\* A plan that names a second way out really has one: it leaves through a door
\* of its own, is open to a crew that cannot use the door it came in by, and
\* crosses no wall that was measured too hot; and a plan refuses the way in
\* only when every wall was (compute_entry_path, the check of the face's own
\* door, the doors build_graph leaves out).
SecondWayIsAnother ==
  phase = "done" =>
    /\ egress # None =>
         /\ egress.face # entryFace /\ Door(egress.face) \in egress.route
         /\ Door(entryFace) \notin egress.route
         /\ \A f \in Faces : Door(f) \in egress.route => ~ Barred(wall[f])
    /\ entryFace = None => target >= storeys \/ Open = {}
=============================================================================
