------------------------- MODULE HazardCrossCheck --------------------------
(***************************************************************************)
(* The hazard watcher's pass (agents/graphs/hazard.py and the part of      *)
(* agents/hazard_watcher.py that asks): which registries are read, which   *)
(* rows are bound to which building, what stays open, and what is asked of *)
(* a person.  A row is a street, a building and a filed name, each of      *)
(* which may be missing; what it says about hazards, and the writing of    *)
(* it, are not modelled here.  A memory bank is wired.                     *)
(***************************************************************************)
EXTENDS GraphDriver

CONSTANTS Registries,
          Order,         \* CROSS_CHECK_ORDER, as positions
          Addresses,     \* the buildings of the district
          Elsewhere,     \* buildings of no profile here
          NormalForm,    \* normalize_facility_name()
          Grounds,       \* a grounding service is wired
          Districts,     \* what the registries may hold: rows by registry
          MaxQuestions   \* MAX_QUESTIONS_PER_PASS

Buildings == Addresses \cup Elsewhere

WellFormed ==
  /\ Order \in [Registries -> Nat] /\ \A r, q \in Registries : Order[r] = Order[q] => r = q
  /\ None \notin Registries \cup Buildings /\ Addresses \cap Elsewhere = {}
  /\ Grounds \in BOOLEAN /\ MaxQuestions \in Nat \ {0}
  /\ IsFiniteSet(Registries)
  /\ \A held \in Districts :
       /\ held = [r \in Registries |-> held[r]]
       /\ \A r \in Registries :
            /\ IsFiniteSet(held[r])
            /\ \A row \in held[r] : row = [street |-> row.street, building |-> row.building, name |-> row.name]

VARIABLES wired,       \* the registries this pass was given
          filed,       \* what each of them holds
          queried, unavailable,
          gathered,    \* the rows read, with the buildings they were bound to
          ambiguities, \* the identities still open
          settled,     \* and the keys of those that are not
          screened,    \* what had been read when screen last ran
          chosen       \* the registry plan picked

graphVars == <<queried, unavailable, gathered, ambiguities, settled, screened, chosen>>
hazardVars == <<wired, filed, graphVars>>

Untried == wired \ (queried \cup unavailable)
First(S) == CHOOSE r \in S : \A q \in S : Order[r] <= Order[q]

Blank ==
  /\ queried = {} /\ unavailable = {} /\ gathered = [r \in Registries |-> {}]
  /\ ambiguities = {} /\ settled = {} /\ screened = {} /\ chosen = None

Init ==
  /\ Begins("survey") /\ Blank
  /\ wired \in SUBSET Registries /\ filed \in Districts

-----------------------------------------------------------------------------
\* detect_ambiguities(): a street nobody placed, and filings at one building
\* under names that are one name to two clerks.
Rows(held) == UNION {held[r] : r \in Registries}

Unplaced(held) ==
  {[kind |-> "UNPLACED", reference |-> s, building |-> None, candidates |-> Addresses] :
     s \in {row.street : row \in {x \in Rows(held) : x.building = None}} \ {None}}

NamesAt(held, b, normal) ==
  {row.name : row \in {x \in Rows(held) : x.building = b /\ x.name # None /\ NormalForm[x.name] = normal}}

Aliased(held) ==
  {[kind |-> "ALIASED", reference |-> NormalForm[row.name], building |-> row.building,
    candidates |-> NamesAt(held, row.building, NormalForm[row.name])] :
     row \in {x \in Rows(held) :
       /\ x.building # None /\ x.name # None
       /\ Cardinality(NamesAt(held, x.building, NormalForm[x.name])) > 1}}

Detected(held) == Unplaced(held) \cup Aliased(held)

\* FacilityAmbiguity.key.
Key(q) == <<q.kind, q.building, q.reference>>

-----------------------------------------------------------------------------
Read(r) == queried' = queried \cup {r} /\ UNCHANGED unavailable
Refused(r) == unavailable' = unavailable \cup {r} /\ UNCHANGED queried

NextNode ==
  IF queried \cup unavailable = {} THEN "survey"
  ELSE IF chosen # None THEN "cross_check"
  ELSE IF screened # queried THEN "screen"
  ELSE IF ambiguities = {} THEN "sweep"
  ELSE IF Untried # {} THEN "plan" ELSE "park"

Router == Routed(NextNode)

Goes == UNCHANGED <<wired, filed>> /\ at' = Router'

\* The anchor registry; without any registry the pass is over.
Survey ==
  /\ Charge("survey")
  /\ \/ /\ Untried = {} /\ stop' = "CLOSED"
        /\ UNCHANGED <<queried, unavailable, gathered>>
     \/ /\ Untried # {} /\ Read(First(Untried)) /\ UNCHANGED stop
        /\ gathered' = [gathered EXCEPT ![First(Untried)] = filed[First(Untried)]]
     \/ Untried # {} /\ Refused(First(Untried)) /\ UNCHANGED <<gathered, stop>>
  /\ UNCHANGED <<ruledOut, ambiguities, settled, screened, chosen>>
  /\ Goes

\* Mutant: an identity that was settled is raised again.
RaisesAgain == Detected(gathered)

StillOpen == {q \in Detected(gathered) : Key(q) \notin settled}

Screen ==
  /\ Charge("screen")
  /\ ambiguities' = StillOpen /\ screened' = queried
  /\ UNCHANGED <<stop, ruledOut, queried, unavailable, gathered, settled, chosen>>
  /\ Goes

\* The planner may take any registry that was not tried.
Plan ==
  /\ Charge("plan")
  /\ \E r \in Untried : chosen' = r
  /\ UNCHANGED <<stop, ruledOut, queried, unavailable, gathered, ambiguities, settled, screened>>
  /\ Goes

\* _settle_locally(): the answers the rows of one registry give.
SettledLocally(q, rows) ==
  IF q.kind = "UNPLACED"
    THEN {row.building : row \in {x \in rows : x.street = q.reference}} \cap q.candidates
    ELSE LET named == {row.name : row \in {x \in rows : x.building = q.building}} \cap q.candidates
         IN IF Cardinality(named) = 1 THEN named ELSE {}

\* _settle_by_grounding() and bound_address(): whatever the service says, the
\* answer is a candidate or none.
Grounded(q) == IF Grounds /\ q.kind = "UNPLACED" THEN q.candidates \cup {None} ELSE {None}

Answers(q, rows) ==
  IF SettledLocally(q, rows) # {} THEN SettledLocally(q, rows) ELSE Grounded(q)

\* _bind_street().
Bound(row, answer) ==
  LET mine == {q \in DOMAIN answer : q.kind = "UNPLACED" /\ q.reference = row.street}
  IN IF row.building = None /\ mine # {} THEN [row EXCEPT !.building = answer[CHOOSE q \in mine : TRUE]]
                                         ELSE row

\* The chosen registry is read, or refuses, and every open identity is put to
\* it and to the grounding service.
CrossCheck ==
  /\ Charge("cross_check")
  /\ \E rows \in {filed[chosen], {}} :
     \E answer \in [ambiguities -> Buildings \cup DOMAIN NormalForm \cup {None}] :
       /\ \A q \in ambiguities : answer[q] \in Answers(q, rows)
       /\ \/ Read(chosen) /\ rows = filed[chosen]
          \/ Refused(chosen) /\ rows = {}
       /\ settled' = settled \cup {Key(q) : q \in {x \in ambiguities : answer[x] # None}}
       /\ ruledOut' = ruledOut \cup {<<chosen, Key(q)>> : q \in {x \in ambiguities : answer[x] = None}}
       /\ gathered' = [r \in Registries |->
            {Bound(row, answer) : row \in IF r = chosen THEN rows ELSE gathered[r]}]
  /\ chosen' = None
  /\ UNCHANGED <<stop, ambiguities, screened>>
  /\ Goes

\* Mutant: the first registry that refuses ends the sweep.
SweptUntilRefused(up) == IF up = Untried THEN {} ELSE {First(Untried \ up)}

\* sweep goes on past a registry that refuses.
RefusedInSweep(up) == Untried \ up

Sweep ==
  /\ Charge("sweep")
  /\ \E up \in SUBSET Untried :
       /\ queried' = queried \cup up
       /\ unavailable' = unavailable \cup RefusedInSweep(up)
       /\ gathered' = [r \in Registries |-> IF r \in up THEN filed[r] ELSE gathered[r]]
  /\ stop' = "CLOSED"
  /\ UNCHANGED <<ruledOut, ambiguities, settled, screened, chosen>>
  /\ Goes

Park == Charge("park") /\ Parks /\ UNCHANGED <<ruledOut, graphVars>> /\ Goes

-----------------------------------------------------------------------------
\* FacilityAmbiguity.question, of which the bank makes the thread's id: two
\* aliases of one building are one thread.
Question(q) ==
  IF q.kind = "UNPLACED" THEN <<q.kind, q.reference>> ELSE <<q.kind, q.building>>

\* _open_questions(): one thread for each identity left open, up to the bound,
\* and one for a pass that was stopped before it knew of any.
Questions(asked) ==
  {Question(q) : q \in asked} \cup (IF ambiguities = {} /\ Outcome # "CLOSED" THEN {<<"unread">>} ELSE {})

AskPeople ==
  /\ at = STOP
  /\ \E asked \in SUBSET ambiguities :
       /\ Cardinality(asked) = IF Cardinality(ambiguities) < MaxQuestions
                                 THEN Cardinality(ambiguities) ELSE MaxQuestions
       /\ threads' = Questions(asked)
  /\ at' = "over"
  /\ UNCHANGED <<stop, budgetVars, ruledOut, hazardVars>>

\* The bank refuses one of them, and the poll raises.
BankRefuses == Questions(ambiguities) # {} /\ PollRaises /\ UNCHANGED hazardVars

\* The next pass starts from nothing but what the registries hold.
NextPass ==
  /\ BeginsAgain("survey")
  /\ queried' = {} /\ unavailable' = {} /\ gathered' = [r \in Registries |-> {}]
  /\ ambiguities' = {} /\ settled' = {} /\ screened' = {} /\ chosen' = None
  /\ UNCHANGED <<wired, filed>>

Next ==
  \/ Survey \/ Screen \/ Plan \/ CrossCheck \/ Sweep \/ Park
  \/ AskPeople \/ BankRefuses \/ NextPass
=============================================================================
