--------------------------- MODULE WatcherGraphs ---------------------------
(***************************************************************************)
(* The agents that reason, two watchers of the slow loop and two agents of *)
(* the incident, on the one loop they share: a behaviour is the passes of  *)
(* one of them.                                                            *)
(***************************************************************************)
EXTENDS GraphDriver, Sequences

CONSTANTS Registries, Order, Addresses, Elsewhere, NormalForm, Grounds, Districts, MaxQuestions,
          Feeds, Filings, Number, Cites, Tails, Archives, MaxReferences,
          Keys, HazardKeys, GeometryKeys, Remembered, Evidence, BearsOn, Pictures, Building, IdOrder,
          Catalog, MaxCollisions, MaxPointers, MaxFacts,
          Names, Observable, Here, Readable

VARIABLES graph, \* whose passes these are
          hWired, filed, hQueried, hUnavailable, gathered, ambiguities, settled, screened, hChosen,
          rWired, archive, rQueried, rUnavailable, snapshots, outstanding, followedThrough, rChosen,
          picture, reported, phase, recalled, collisions, selected, briefing,
          banked, onScene, latest, bank, evidence, named, tried, examining, resolved, examined,
          letGo, narrative

Hazard == INSTANCE HazardCrossCheck
  WITH wired <- hWired, queried <- hQueried, unavailable <- hUnavailable, chosen <- hChosen
Records == INSTANCE RecordsRetrieval
  WITH wired <- rWired, queried <- rQueried, unavailable <- rUnavailable, chosen <- rChosen
Focus == INSTANCE FocusComposition
Report == INSTANCE ReportSynthesis

ASSUME HazardAssumption == Hazard!WellFormed
ASSUME RecordsAssumption == Records!WellFormed
ASSUME HeadAssumption == Focus!WellFormed
ASSUME ReportAssumption == Report!WellFormed

hazardVars == <<hWired, filed, hQueried, hUnavailable, gathered, ambiguities, settled, screened,
                hChosen>>
recordsVars == <<rWired, archive, rQueried, rUnavailable, snapshots, outstanding,
                 followedThrough, rChosen>>
headVars == <<picture, reported, phase, recalled, collisions, selected, briefing>>
reportVars == <<banked, onScene, latest, bank, evidence, named, tried, examining, resolved,
                examined, letGo, narrative>>
vars == <<driverVars, graph, hazardVars, recordsVars, headVars, reportVars>>

NoHazards == Hazard!Blank /\ hWired = {} /\ filed = None
NoRecords == Records!Blank /\ rWired = {} /\ archive = None
NoHead == Focus!Blank /\ picture = None
NoReport == Report!Blank

Init ==
  \/ graph = "hazard" /\ Hazard!Init /\ NoRecords /\ NoHead /\ NoReport
  \/ graph = "records" /\ Records!Init /\ NoHazards /\ NoHead /\ NoReport
  \/ graph = "head" /\ Focus!Init /\ NoHazards /\ NoRecords /\ NoReport
  \/ graph = "report" /\ Report!Init /\ NoHazards /\ NoRecords /\ NoHead

HazardPass ==
  graph = "hazard" /\ Hazard!Next /\ UNCHANGED <<graph, recordsVars, headVars, reportVars>>
RecordsPass ==
  graph = "records" /\ Records!Next /\ UNCHANGED <<graph, hazardVars, headVars, reportVars>>
HeadPass ==
  graph = "head" /\ Focus!Next /\ UNCHANGED <<graph, hazardVars, recordsVars, reportVars>>
ReportPass ==
  graph = "report" /\ Report!Next /\ UNCHANGED <<graph, hazardVars, recordsVars, headVars>>

Next == HazardPass \/ RecordsPass \/ HeadPass \/ ReportPass

Spec == Init /\ [][Next]_vars /\ WF_vars(Next)

-----------------------------------------------------------------------------
Watches == graph \in {"hazard", "records"}

\* What a pass leaves is true of how it ended, whatever ceiling was reached and
\* wherever.  A watcher's pass that ended early says so and one that closed asks
\* nothing: the questions tell them apart (hazard_watcher.py:418,
\* records_watcher.py:552).  The head briefs the agents on everything it
\* detected, and names every question it recalled: a ceiling or a planner costs
\* the order (graphs/interceptor.py:652-690).  There is a report whatever
\* happened, what it calls settled is answered in the bank for good, and what
\* the recorder answered it calls settled (graphs/recorder.py:764).
SilenceIsClosure ==
  at = "over" =>
    /\ Watches => (threads = {} <=> Outcome = "CLOSED")
    /\ graph = "head" => briefing = Focus!Briefing(Focus!Collisions) /\ threads = recalled
    /\ graph = "report" =>
         /\ narrative # None
         /\ \A q \in Remembered :
              /\ q \in resolved => bank[q] \in {"ours", "theirs"}
              /\ bank[q] = "ours" => q \in resolved

\* UNRESOLVED is only said when every registry or feed was tried, and every
\* reference still out had its turn, or hides behind one that ends like it.  An
\* agent of the incident never says it.
UnresolvedTriedAll ==
  stop = "UNRESOLVED" =>
    /\ Watches
    /\ graph = "hazard" => Hazard!Untried = {}
    /\ graph = "records" => Records!Untried = {} /\ \A f \in outstanding : Records!Tried(f)

\* A watcher's pass that closed has an answer or a refusal from everything it
\* was given, has settled every identity in what it read before the sweep, and
\* has read every filing that anything it read cites.  A briefing that closed
\* selected everything in collision, and a report left no question of the
\* briefing unexamined that it could have examined.
ClosedLeavesNothing ==
  stop = "CLOSED" =>
    /\ graph = "hazard" =>
         /\ hWired = hQueried \cup hUnavailable /\ hQueried \cap hUnavailable = {}
         /\ \A q \in Hazard!Detected([r \in Registries |-> IF r \in screened THEN gathered[r] ELSE {}]) :
              Hazard!Key(q) \in settled
    /\ graph = "records" =>
         /\ rWired = rQueried \cup rUnavailable
         /\ Records!Cited \subseteq Records!Published
    /\ graph = "head" => selected = Focus!Collisions
    /\ graph = "report" /\ banked => named = examined \cup letGo

\* The buildings the rows of a street were bound to.
BoundTo(street) ==
  {row.building : row \in {x \in UNION {gathered[r] \ filed[r] : r \in Registries} : x.street = street}}

\* A street nobody placed is bound to one building of the district, in however
\* many registries it is filed, unless a registry refused: after a refusal the
\* identities are not screened again, and one that was settled is put to the
\* next registry as if it were open.
OneBuildingPerStreet ==
  graph = "hazard" =>
    \A street \in {q[3] : q \in settled} :
      /\ BoundTo(street) \subseteq Addresses
      /\ hUnavailable = {} => Cardinality(BoundTo(street)) <= 1

\* The loops converge: a pass with a step more than its lookups can take is
\* never stopped for its steps.
LookupSteps ==
  CASE graph = "hazard" -> 3 * Cardinality(hWired)
    [] graph = "records" -> 3 * Cardinality(rWired) + 2 * Cardinality(Filings) + 1
    [] graph = "head" -> 3 + MaxCollisions
    [] graph = "report" -> 2 + Cardinality(Remembered)

ConvergesInSteps == ceiling > LookupSteps => stop # "OUT_OF_STEPS"
=============================================================================
