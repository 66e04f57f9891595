------------------------- MODULE FocusComposition --------------------------
(***************************************************************************)
(* The head agent's briefing (agents/graphs/interceptor.py, with           *)
(* compose_focus() of incident/interceptor.py and incident/focus.py): what *)
(* the profile disagrees about and what the slow loop still asks is        *)
(* brought together by attribute, a few are selected, and each incident    *)
(* agent is pointed at the references it may act on.  A collision is named *)
(* by its attribute, or by its question if the profile has no attribute    *)
(* for it.  The sentences on a pointer are not modelled, nor the keys a    *)
(* brief found no record of: nothing passes any.                           *)
(***************************************************************************)
EXTENDS GraphDriver

CONSTANTS Keys, HazardKeys, GeometryKeys, \* the attributes, and which ones matter twice
          Remembered,    \* questions of the slow loop about the building
          Evidence,      \* the facts each of them was asked about
          BearsOn,       \* BEARS_ON: what an intake reports, and the attributes it bears on
          Pictures,      \* what the profile may hold
          Building,
          IdOrder,       \* the order of keys and ids
          Catalog,       \* the agents' descriptors
          MaxCollisions, MaxPointers, MaxFacts

WellFormed ==
  /\ HazardKeys \cup GeometryKeys \subseteq Keys /\ Keys \cap Remembered = {}
  /\ IsFiniteSet(Keys) /\ IsFiniteSet(Remembered)
  /\ IdOrder \in [DOMAIN IdOrder -> Int] /\ \A i, j \in DOMAIN IdOrder : IdOrder[i] = IdOrder[j] => i = j
  /\ \A p \in Pictures : \A c \in p.conflicts : c.key \in Keys /\ c.severity \in 1..5
  /\ Keys \cup Remembered \cup {Building} \subseteq DOMAIN IdOrder
  /\ MaxCollisions \in Nat \ {0} /\ MaxPointers \in Nat \ {0} /\ MaxFacts \in Nat \ {0}

VARIABLES picture,    \* the snapshot the incident opened on
          reported,   \* what the intake reported on
          phase,      \* gathered, recalled, collided
          recalled,   \* the questions the bank gave
          collisions, selected,
          briefing    \* what the pass put into the incident's log

graphVars == <<reported, phase, recalled, collisions, selected>>
focusVars == <<picture, graphVars, briefing>>

Blank ==
  /\ reported = {} /\ phase = "new" /\ recalled = {} /\ collisions = {} /\ selected = {}
  /\ briefing = None

Init ==
  /\ Begins("gather") /\ picture \in Pictures /\ reported \in SUBSET DOMAIN BearsOn
  /\ phase = "new" /\ recalled = {} /\ collisions = {} /\ selected = {} /\ briefing = None

-----------------------------------------------------------------------------
\* The first n of S.
Leading(S, n, Before(_, _)) == {x \in S : Cardinality({y \in S : Before(y, x)}) < n}

Filed == {k \in Keys : picture.facts[k] # None}
Bearing == UNION {BearsOn[i] : i \in reported}
Anchors(q) == {k \in Filed : picture.facts[k] \in Evidence[q]}

\* detect_collisions(): the attributes in dispute, asked about or reported on
\* and filed, and the questions without an attribute.
Detected ==
  {c.key : c \in picture.conflicts} \cup (UNION {Anchors(q) : q \in recalled})
    \cup (Bearing \cap Filed) \cup {q \in recalled : Anchors(q) = {}}

Conflicts(s) == {c \in picture.conflicts : c.key = s}
Asking(s) == {q \in recalled : q = s \/ s \in Anchors(q)}
FactsOf(s) ==
  Leading({picture.facts[k] : k \in Filed \cap {s}} \cup UNION {c.facts : c \in Conflicts(s)},
          MaxFacts, LAMBDA f, g : IdOrder[f] < IdOrder[g])

Severity(s) ==
  IF Conflicts(s) = {} THEN 0
  ELSE CHOOSE n \in {c.severity : c \in Conflicts(s)} : \A c \in Conflicts(s) : c.severity <= n

\* Collision.priority: 1 is the most urgent.
Priority(s) ==
  IF s \in Bearing /\ Conflicts(s) \cup Asking(s) # {} THEN 1
  ELSE IF s \in Bearing \/ Severity(s) >= 4 THEN 2
  ELSE IF Conflicts(s) # {} THEN 3
  ELSE IF Asking(s) # {} THEN 4 ELSE 5

\* Collision.rank.
Ranked(s, t) ==
  \/ Priority(s) < Priority(t)
  \/ Priority(s) = Priority(t) /\ Severity(s) > Severity(t)
  \/ Priority(s) = Priority(t) /\ Severity(s) = Severity(t) /\ IdOrder[s] < IdOrder[t]

Collisions == Leading(Detected, MaxCollisions, Ranked)

-----------------------------------------------------------------------------
Pointer(kind, ref, priority) == [kind |-> kind, ref |-> ref, priority |-> priority]
LessUrgent(n) == IF n < 5 THEN n + 1 ELSE 5

\* pointers_for().
Pointers(s) ==
  LET p == Priority(s)
      disputed == Conflicts(s) # {}
  IN {Pointer("CONFLICT", c.id, p) : c \in Conflicts(s)}
     \cup {Pointer("OPEN_QUESTION", q, p) : q \in Asking(s)}
     \cup {Pointer("FACT", f, LessUrgent(p)) : f \in IF disputed \/ s \in Bearing THEN FactsOf(s) ELSE {}}
     \cup {Pointer("HAZARD", k, p) : k \in HazardKeys \cap {s}}
     \cup {Pointer("GEOMETRY", Building, LessUrgent(p)) : k \in {x \in GeometryKeys \cap {s} : picture.geometry}}
     \cup {Pointer("SURVEY", Building, 5) : c \in {x \in Conflicts(s) : picture.survey}}

\* standing_pointers().
Standing == {Pointer("REFERRAL", r, 5) : r \in picture.referrals}

KindOrder == [CONFLICT |-> 1, FACT |-> 2, GEOMETRY |-> 3, HAZARD |-> 4,
              OPEN_QUESTION |-> 5, REFERRAL |-> 6, SURVEY |-> 7]

Urgent(p, q) ==
  \/ p.priority < q.priority
  \/ p.priority = q.priority /\ KindOrder[p.kind] < KindOrder[q.kind]
  \/ p.priority = q.priority /\ p.kind = q.kind /\ IdOrder[p.ref] < IdOrder[q.ref]

\* INTERESTS: what an agent must declare to be pointed at a kind.
Interest ==
  [k \in DOMAIN KindOrder |->
     CASE k \in {"CONFLICT", "FACT"} -> <<"READ", "READ_PROFILE">>
       [] k = "GEOMETRY" -> <<"READ", "READ_GEOMETRY">>
       [] k = "HAZARD" -> <<"NOTIFY", "NOTIFY_AGENCY">>
       [] OTHER -> <<"WRITE", "WRITE_RMS">>]

\* audience_for(): the composer is not in the catalog the module is given.
MayAct(d, kind) == Interest[kind][1] \in d.capabilities /\ Interest[kind][2] \in d.scopes

\* A reference that several collisions reach keeps its most urgent pointer.
Loudest(S) == {p \in S : \A q \in S : q.kind = p.kind /\ q.ref = p.ref => p.priority <= q.priority}

\* FocusScope.holds(): an attribute in dispute may have nothing filed under it,
\* and is no reference then; the others come off the snapshot or the recall.
Holds(p) == p.kind = "HAZARD" => p.ref \in Filed

\* focus_from() and compose_focus(): what each agent is pointed at.
Briefing(S) ==
  LET all == Loudest((UNION {Pointers(s) : s \in S}) \cup Standing) IN
    [d \in Catalog |->
       {p \in Leading({q \in all : MayAct(d, q.kind)}, MaxPointers, Urgent) : Holds(p)}]

-----------------------------------------------------------------------------
\* Mutant: one collision too few is selected.
SelectsFewer == Cardinality(selected) < Cardinality(collisions) - 1

SelectsOn == collisions \ selected # {} /\ Cardinality(selected) < MaxCollisions

NextNode ==
  IF phase = "new" THEN "gather" ELSE IF phase = "gathered" THEN "recall"
  ELSE IF phase = "recalled" THEN "collide" ELSE IF SelectsOn THEN "select" ELSE "close"

Goes == at' = Routed(NextNode)' /\ UNCHANGED <<picture, reported, briefing, ruledOut>>

Gather ==
  /\ Charge("gather") /\ phase' = "gathered"
  /\ UNCHANGED <<stop, recalled, collisions, selected>> /\ Goes

\* What is open and the incident's grant may see; nothing if the bank fails.
Recall ==
  /\ Charge("recall") /\ phase' = "recalled" /\ recalled' \in SUBSET Remembered
  /\ UNCHANGED <<stop, collisions, selected>> /\ Goes

Collide ==
  /\ Charge("collide") /\ phase' = "collided" /\ collisions' = Collisions
  /\ UNCHANGED <<stop, recalled, selected>> /\ Goes

\* The planner may take any of them.
Select ==
  /\ Charge("select")
  /\ \E s \in collisions \ selected : selected' = selected \cup {s}
  /\ UNCHANGED <<stop, phase, recalled, collisions>> /\ Goes

Close ==
  /\ Charge("close") /\ stop' = "CLOSED"
  /\ UNCHANGED <<phase, recalled, collisions, selected>> /\ Goes

Park ==
  /\ Charge("park") /\ Parks
  /\ UNCHANGED <<phase, recalled, collisions, selected>> /\ Goes

\* A planner that raises, or a driver that is not installed.
ComesApart ==
  /\ at \in {"gather", "recall", "collide", "select"} /\ at' = STOP /\ stop' = "RAISED"
  /\ UNCHANGED <<budgetVars, ruledOut, threads, focusVars>>

\* graph_focus() after a graph that closed, fallback_focus() after any other.
Composed == Briefing(IF Outcome = "CLOSED" THEN selected ELSE Collisions)

\* Every question that was recalled is named, pointed at or not.
Record ==
  /\ at = STOP /\ at' = "over"
  /\ briefing' = Composed /\ threads' = recalled
  /\ UNCHANGED <<stop, budgetVars, ruledOut, picture, graphVars>>

\* The log refuses the entry: the incident goes on without it.
LogRefuses == PollRaises /\ UNCHANGED focusVars

\* The next intake of the incident.
NextPass ==
  /\ BeginsAgain("gather") /\ reported' \in SUBSET DOMAIN BearsOn
  /\ phase' = "new" /\ recalled' = {} /\ collisions' = {} /\ selected' = {}
  /\ briefing' = None /\ UNCHANGED picture

Next ==
  \/ Gather \/ Recall \/ Collide \/ Select \/ Close \/ Park
  \/ ComesApart \/ Record \/ LogRefuses \/ NextPass
=============================================================================
