--------------------------- MODULE QuestionProofs ---------------------------
(***************************************************************************)
(* Theorems about the two parts that ask questions of the world: the       *)
(* bounded reasoning graphs (WatcherGraphs) and the memory bank that keeps *)
(* the questions they leave open (MemoryBank).  First the graphs: one      *)
(* inductive invariant per graph, put together in GraphInv, the properties *)
(* it implies, then the two stronger invariants about the rows of the      *)
(* records graph and about the steps a pass can take.  Then the bank.      *)
(***************************************************************************)
EXTENDS WatcherGraphs, MemoryBank, FiniteSetTheorems, WellFoundedInduction, TLAPS

\* The driver is in order: a pass that goes on has spent no more than its
\* ceiling, and one that is over says why.
DriverOK ==
  /\ ceiling \in Nat \ {0} /\ steps \in Nat /\ late \in BOOLEAN /\ stop \in Stops \cup {None}
  /\ stop = None => steps <= ceiling
  /\ at = "over" => stop # None

\* What a hazard pass had read when it last screened, and that all of it is settled.
Seen == [r \in Registries |-> IF r \in screened THEN gathered[r] ELSE {}]
SeenSettled == \A q \in Hazard!Detected(Seen) : Hazard!Key(q) \in settled

\* What was tried and what was chosen.
HazardTried ==
  /\ hWired \subseteq Registries /\ filed \in Districts
  /\ hQueried \cup hUnavailable \subseteq hWired /\ hQueried \cap hUnavailable = {}
  /\ screened \subseteq hQueried
  /\ hQueried \cup hUnavailable = {} => ambiguities = {}
  /\ hChosen # None => hChosen \in Hazard!Untried /\ ambiguities # {}

\* What was read is finite, and nothing was read of what was not queried.
HazardRows ==
  /\ gathered = [r \in Registries |-> gathered[r]]
  /\ \A r \in Registries : IsFiniteSet(gathered[r]) /\ (r \notin hQueried => gathered[r] = {})
  /\ IsFiniteSet(ambiguities)

\* How the pass ended, and what it asked.
HazardEnds ==
  /\ stop = "CLOSED" => ambiguities = {} /\ Hazard!Untried = {}
  /\ stop = "UNRESOLVED" => Hazard!Untried = {}
  /\ at = "over" => (threads = {} <=> stop = "CLOSED")

HazardInv ==
  /\ at \notin {"over", "failed"} => at = Hazard!Router
  /\ HazardTried /\ HazardRows /\ HazardEnds
  /\ ambiguities = {} => SeenSettled

USE CeilingsAssumption DEF Stops

-----------------------------------------------------------------------------
\* A set of natural numbers has a least one.
LEMMA LeastOf ==
  ASSUME NEW S \in SUBSET Nat, S # {}
  PROVE  \E m \in S : \A n \in S : m <= n
<1> DEFINE T == {0..n : n \in S}
<1>1. T \subseteq FiniteSubsetsOf(Nat) /\ T # {}
  <2>1. ASSUME NEW n \in S PROVE 0..n \subseteq Nat /\ IsFiniteSet(0..n)
    <3>1. n \in Int /\ 0 \in Int /\ 0..n \subseteq Nat
      OBVIOUS
    <3> QED
      BY <3>1, FS_Interval
  <2> QED
    BY <2>1 DEF FiniteSubsetsOf
<1>2. \E x \in T : \A y \in T : <<y, x>> \notin StrictSubsetOrdering(Nat)
  BY <1>1, FS_StrictSubsetOrderingWellFounded, WFMin
<1>3. PICK m \in S : \A n \in S : <<0..n, 0..m>> \notin StrictSubsetOrdering(Nat)
  BY <1>2
<1>4. ASSUME NEW n \in S, n < m PROVE FALSE
  <2>1. 0..n \subseteq 0..m /\ m \in 0..m /\ m \notin 0..n /\ 0..n \subseteq Nat /\ 0..m \subseteq Nat
    BY <1>4
  <2>2. <<0..n, 0..m>> \in StrictSubsetOrdering(Nat)
    BY <2>1 DEF StrictSubsetOrdering
  <2> QED
    BY <1>3, <1>4, <2>2
<1> QED
  BY <1>4

\* The image of a finite set is finite.
LEMMA ImageIsFinite ==
  ASSUME NEW S, IsFiniteSet(S), NEW f PROVE IsFiniteSet({f[x] : x \in S})
<1> DEFINE T == {f[x] : x \in S}
           g == [x \in S |-> f[x]]
<1>1. g \in Surjection(S, T)
  BY DEF Surjection
<1> QED
  BY <1>1, FS_Surjection

\* Each instance has its own copy of the standard operators.
LEMMA SameFinite ==
  ASSUME NEW S
  PROVE  /\ Hazard!IsFiniteSet(S) = IsFiniteSet(S) /\ Hazard!Cardinality(S) = Cardinality(S)
         /\ Records!IsFiniteSet(S) = IsFiniteSet(S) /\ Records!Cardinality(S) = Cardinality(S)
         /\ Focus!IsFiniteSet(S) = IsFiniteSet(S) /\ Focus!Cardinality(S) = Cardinality(S)
         /\ Report!IsFiniteSet(S) = IsFiniteSet(S)
<1>1. Hazard!IsFiniteSet(S) = IsFiniteSet(S)
  BY DEF Hazard!IsFiniteSet, IsFiniteSet
<1>2. Records!IsFiniteSet(S) = IsFiniteSet(S)
  BY DEF Records!IsFiniteSet, IsFiniteSet
<1>3. Focus!IsFiniteSet(S) = IsFiniteSet(S)
  BY DEF Focus!IsFiniteSet, IsFiniteSet
<1>4. Report!IsFiniteSet(S) = IsFiniteSet(S)
  BY DEF Report!IsFiniteSet, IsFiniteSet
<1>5. Hazard!Cardinality(S) = Cardinality(S)
  BY DEF Hazard!Cardinality, Cardinality
<1>6. Records!Cardinality(S) = Cardinality(S)
  BY DEF Records!Cardinality, Cardinality
<1>7. Focus!Cardinality(S) = Cardinality(S)
  BY DEF Focus!Cardinality, Cardinality
<1> QED
  BY <1>1, <1>2, <1>3, <1>4, <1>5, <1>6, <1>7

-----------------------------------------------------------------------------
\* The anchor is one of the registries that were not tried.
LEMMA FirstIsOne ==
  ASSUME NEW S \in SUBSET Registries, S # {} PROVE Hazard!First(S) \in S
<1>1. {Order[r] : r \in S} \in SUBSET Nat /\ {Order[r] : r \in S} # {}
  BY HazardAssumption DEF Hazard!WellFormed
<1>2. \E m \in {Order[r] : r \in S} : \A n \in {Order[r] : r \in S} : m <= n
  BY <1>1, LeastOf
<1>3. \E r \in S : \A q \in S : Order[r] <= Order[q]
  BY <1>2
<1> QED
  BY <1>3 DEF Hazard!First

\* Finitely many rows leave finitely many identities open.
LEMMA DetectedIsFinite ==
  ASSUME NEW held, \A r \in Registries : IsFiniteSet(held[r])
  PROVE  IsFiniteSet(Hazard!Detected(held))
<1> DEFINE rows == Hazard!Rows(held)
<1>1. IsFiniteSet(rows)
  <2>1. IsFiniteSet(Registries)
    BY HazardAssumption, SameFinite DEF Hazard!WellFormed
  <2>2. IsFiniteSet({held[r] : r \in Registries})
    BY <2>1, ImageIsFinite
  <2> QED
    BY <2>2, FS_UNION DEF Hazard!Rows
<1> HIDE DEF rows
<1>2. IsFiniteSet(Hazard!Unplaced(held))
  <2> DEFINE here == {x \in rows : x.building = None}
             streetOf == [row \in here |-> row.street]
             streets == {streetOf[row] : row \in here}
             asked == streets \ {None}
             open == [s \in asked |-> [kind |-> "UNPLACED", reference |-> s, building |-> None,
                                       candidates |-> Addresses]]
  <2>1. IsFiniteSet(here)
    BY <1>1, FS_Subset
  <2>2. IsFiniteSet(streets)
    BY <2>1, ImageIsFinite
  <2>3. IsFiniteSet(asked)
    BY <2>2, FS_Difference
  <2> HIDE DEF asked, open
  <2>4. IsFiniteSet({open[s] : s \in asked})
    BY <2>3, ImageIsFinite
  <2>5. Hazard!Unplaced(held) = {open[s] : s \in asked}
    BY DEF Hazard!Unplaced, rows, asked, open
  <2> QED
    BY <2>4, <2>5
<1>3. IsFiniteSet(Hazard!Aliased(held))
  <2> DEFINE aliased == {x \in rows : /\ x.building # None /\ x.name # None
                       /\ Hazard!Cardinality(Hazard!NamesAt(held, x.building, NormalForm[x.name])) > 1}
             open == [row \in aliased |->
                       [kind |-> "ALIASED", reference |-> NormalForm[row.name], building |-> row.building,
                        candidates |-> Hazard!NamesAt(held, row.building, NormalForm[row.name])]]
  <2>1. IsFiniteSet(aliased)
    BY <1>1, FS_Subset
  <2>2. IsFiniteSet({open[row] : row \in aliased})
    BY <2>1, ImageIsFinite
  <2>3. Hazard!Aliased(held) = {open[row] : row \in aliased}
    BY DEF Hazard!Aliased, rows
  <2> QED
    BY <2>2, <2>3
<1> QED
  BY <1>2, <1>3, FS_Union DEF Hazard!Detected

\* Where nothing was read nothing is detected.
LEMMA NothingDetected ==
  ASSUME NEW held, \A r \in Registries : held[r] = {} PROVE Hazard!Detected(held) = {}
<1>1. Hazard!Rows(held) = {}
  BY DEF Hazard!Rows
<1> QED
  BY <1>1 DEF Hazard!Detected, Hazard!Unplaced, Hazard!Aliased

LEMMA HazardAt ==
  ASSUME DriverOK, HazardInv
  PROVE  /\ at \in {"survey", "screen", "plan", "cross_check", "sweep"} =>
              stop = None /\ steps < ceiling /\ ~ late /\ at = Hazard!NextNode
         /\ at = "park" => stop = None /\ (late \/ steps >= ceiling \/ Hazard!NextNode = "park")
         /\ at = STOP => stop # None
         /\ at \in {"survey", "screen", "plan", "cross_check", "sweep", "park", STOP, "over", "failed"}
BY DEF DriverOK, HazardInv, Hazard!Router, Hazard!Routed, Hazard!NextNode, Hazard!Exhausted,
       Hazard!MaxIterations, Hazard!STOP, STOP

LEMMA HazardCharged ==
  ASSUME DriverOK, NEW node, Hazard!Charge(node)
  PROVE  /\ at = node /\ steps' = steps + 1 /\ ceiling' = ceiling /\ threads' = threads
         /\ late' \in BOOLEAN /\ (late => late')
<1>1. late \in BOOLEAN /\ late' \in {late, TRUE}
  BY DEF DriverOK, Hazard!Charge
<1>2. late' \in BOOLEAN /\ (late => late')
  BY <1>1, Zenon
<1> QED
  BY <1>2 DEF Hazard!Charge

\* A node that runs within its budget leaves the driver in order.
LEMMA HazardDriver ==
  ASSUME DriverOK, HazardInv, Hazard!Next PROVE DriverOK'
<1>1. ASSUME NEW node \in {"survey", "screen", "plan", "cross_check", "sweep"}, Hazard!Charge(node),
             stop' \in {stop, "CLOSED"}, at' = Hazard!Router'
      PROVE  DriverOK'
  <2>1. at = node /\ steps' = steps + 1 /\ late' \in BOOLEAN /\ ceiling' = ceiling
    BY <1>1, HazardCharged
  <2>2. steps < ceiling /\ stop = None
    BY <2>1, HazardAt
  <2>3. at' # "over"
    BY <1>1 DEF Hazard!Router, Hazard!Routed, Hazard!NextNode, Hazard!STOP
  <2> QED
    BY <1>1, <2>1, <2>2, <2>3 DEF DriverOK
<1>2. CASE Hazard!Survey
  BY <1>1, <1>2 DEF Hazard!Survey, Hazard!Goes
<1>3. CASE Hazard!Screen
  BY <1>1, <1>3 DEF Hazard!Screen, Hazard!Goes
<1>4. CASE Hazard!Plan
  BY <1>1, <1>4 DEF Hazard!Plan, Hazard!Goes
<1>5. CASE Hazard!CrossCheck
  BY <1>1, <1>5 DEF Hazard!CrossCheck, Hazard!Goes
<1>6. CASE Hazard!Sweep
  BY <1>1, <1>6 DEF Hazard!Sweep, Hazard!Goes
<1>7. CASE Hazard!Park
  <2>1. at = "park" /\ steps' = steps + 1 /\ late' \in BOOLEAN /\ ceiling' = ceiling
    BY <1>7, HazardCharged DEF Hazard!Park
  <2>2. stop' \in Stops
    BY <1>7 DEF Hazard!Park, Hazard!Parks, Hazard!Exhausted
  <2>3. at' # "over"
    BY <2>2, <1>7 DEF Hazard!Park, Hazard!Goes, Hazard!Router, Hazard!Routed, Hazard!STOP
  <2> QED
    BY <2>1, <2>2, <2>3 DEF DriverOK
<1>8. CASE Hazard!AskPeople \/ Hazard!BankRefuses
  BY <1>8, HazardAt DEF DriverOK, Hazard!AskPeople, Hazard!BankRefuses, Hazard!PollRaises, Hazard!budgetVars, Hazard!STOP, STOP
<1>9. CASE Hazard!NextPass
  <2>1. at' = "survey" /\ stop' = None /\ steps' = 0 /\ ceiling' = ceiling
    BY <1>9 DEF Hazard!NextPass, Hazard!BeginsAgain
  <2>2. late' \in BOOLEAN
    BY <1>9, Zenon DEF Hazard!NextPass, Hazard!BeginsAgain
  <2> QED
    BY <2>1, <2>2 DEF DriverOK
<1> QED
  BY <1>2, <1>3, <1>4, <1>5, <1>6, <1>7, <1>8, <1>9 DEF Hazard!Next

-----------------------------------------------------------------------------
\* Nothing was read before the first pass and before the next.
LEMMA NothingSeen ==
  ASSUME \A r \in Registries : Seen[r] = {} PROVE SeenSettled
BY NothingDetected DEF SeenSettled

LEMMA HazardBegins == ASSUME Hazard!Init PROVE DriverOK /\ HazardInv
<1>1. /\ at = "survey" /\ stop = None /\ steps = 0 /\ ceiling \in Nat \ {0} /\ ~ late
      /\ hQueried = {} /\ hUnavailable = {} /\ gathered = [r \in Registries |-> {}]
      /\ ambiguities = {} /\ screened = {} /\ hChosen = None
      /\ hWired \subseteq Registries /\ filed \in Districts
  BY DEF Hazard!Init, Hazard!Begins, Hazard!Blank
<1>2. DriverOK
  <2>1. late \in BOOLEAN
    BY Zenon DEF Hazard!Init, Hazard!Begins
  <2> QED
    BY <1>1, <2>1 DEF DriverOK
<1>3. at = Hazard!Router
  BY <1>1 DEF Hazard!Router, Hazard!Routed, Hazard!NextNode, Hazard!Exhausted, Hazard!MaxIterations
<1>4. SeenSettled
  BY <1>1, NothingSeen DEF Seen
<1> QED
  BY <1>1, <1>2, <1>3, <1>4, FS_EmptySet DEF HazardInv, HazardTried, HazardRows, HazardEnds

\* A pass that begins again begins as the first did.
LEMMA NextPassKeeps == ASSUME DriverOK, HazardInv, Hazard!NextPass PROVE HazardInv'
<1>1. /\ at' = "survey" /\ stop' = None /\ steps' = 0 /\ ceiling' = ceiling /\ ~ late'
      /\ hQueried' = {} /\ hUnavailable' = {} /\ gathered' = [r \in Registries |-> {}]
      /\ ambiguities' = {} /\ screened' = {} /\ hChosen' = None
      /\ hWired' = hWired /\ filed' = filed
  BY DEF Hazard!NextPass, Hazard!BeginsAgain
<1>2. ceiling \in Nat \ {0}
  BY DEF DriverOK
<1>3. at' = Hazard!Router'
  BY <1>1, <1>2 DEF Hazard!Router, Hazard!Routed, Hazard!NextNode, Hazard!Exhausted, Hazard!MaxIterations
<1>4. SeenSettled'
  <2>1. \A r \in Registries : Seen'[r] = {}
    BY <1>1 DEF Seen
  <2> QED
    BY <2>1, NothingDetected DEF SeenSettled
<1> QED
  BY <1>1, <1>3, <1>4, FS_EmptySet DEF HazardInv, HazardTried, HazardRows, HazardEnds

LEMMA SurveyKeeps == ASSUME DriverOK, HazardInv, Hazard!Survey PROVE HazardInv'
<1>1. /\ at = "survey" /\ stop = None /\ at = Hazard!NextNode
  BY HazardAt DEF Hazard!Survey, Hazard!Charge
<1>2. /\ hQueried = {} /\ hUnavailable = {} /\ ambiguities = {} /\ screened = {} /\ hChosen = None
      /\ Hazard!Untried = hWired
  BY <1>1 DEF Hazard!NextNode, HazardInv, HazardTried, Hazard!Untried
<1>3. UNCHANGED <<ambiguities, settled, screened, hChosen, hWired, filed>> /\ at' = Hazard!Router'
  BY DEF Hazard!Survey, Hazard!Goes
<1>4. at' # "over"
  BY <1>3 DEF Hazard!Router, Hazard!Routed, Hazard!NextNode, Hazard!STOP
<1>5. SeenSettled'
  <2>1. \A r \in Registries : Seen'[r] = {}
    BY <1>2, <1>3 DEF Seen
  <2> QED
    BY <2>1, NothingDetected DEF SeenSettled
<1>6. CASE hWired = {} /\ stop' = "CLOSED" /\ UNCHANGED <<hQueried, hUnavailable, gathered>>
  BY <1>2, <1>3, <1>4, <1>5, <1>6 DEF HazardInv, HazardTried, HazardRows, HazardEnds, Hazard!Untried
<1>7. CASE hWired # {} /\ stop' = stop
  <2> DEFINE anchor == Hazard!First(hWired)
  <2>1. anchor \in hWired
    BY <1>7, FirstIsOne DEF HazardInv, HazardTried
  <2>2. \/ hQueried' = {anchor} /\ hUnavailable' = {} /\ gathered' = [gathered EXCEPT ![anchor] = filed[anchor]]
        \/ hUnavailable' = {anchor} /\ hQueried' = {} /\ gathered' = gathered
    BY <1>2, <1>7 DEF Hazard!Survey, Hazard!Read, Hazard!Refused
  <2> HIDE DEF anchor
  <2>3. \A r \in Registries : IsFiniteSet(filed[r])
    BY HazardAssumption, SameFinite DEF Hazard!WellFormed, HazardInv, HazardTried
  <2>4. HazardTried'
    BY <1>2, <1>3, <2>1, <2>2 DEF HazardInv, HazardTried
  <2>5. HazardRows'
    BY <1>2, <1>3, <2>1, <2>2, <2>3 DEF HazardInv, HazardTried, HazardRows
  <2> QED
    BY <1>1, <1>3, <1>4, <1>5, <1>7, <2>4, <2>5 DEF HazardInv, HazardEnds
<1> QED
  BY <1>2, <1>6, <1>7 DEF Hazard!Survey

LEMMA ScreenKeeps == ASSUME DriverOK, HazardInv, Hazard!Screen PROVE HazardInv'
<1>1. /\ at = "screen" /\ stop = None /\ at = Hazard!NextNode
  BY HazardAt DEF Hazard!Screen, Hazard!Charge
<1>2. hQueried \cup hUnavailable # {} /\ hChosen = None
  BY <1>1 DEF Hazard!NextNode
<1>3. /\ ambiguities' = Hazard!StillOpen /\ screened' = hQueried
      /\ UNCHANGED <<stop, hQueried, hUnavailable, gathered, settled, hChosen, hWired, filed>>
      /\ at' = Hazard!Router'
  BY DEF Hazard!Screen, Hazard!Goes
<1>4. at' # "over"
  BY <1>3 DEF Hazard!Router, Hazard!Routed, Hazard!NextNode, Hazard!STOP
<1>5. IsFiniteSet(Hazard!StillOpen)
  <2>1. IsFiniteSet(Hazard!Detected(gathered))
    BY DetectedIsFinite DEF HazardInv, HazardRows
  <2> QED
    BY <2>1, FS_Subset DEF Hazard!StillOpen
<1>6. Seen' = gathered
  BY <1>3 DEF Seen, HazardInv, HazardRows
<1>7. ambiguities' = {} => SeenSettled'
  BY <1>3, <1>6 DEF SeenSettled, Hazard!StillOpen, Hazard!Key
<1> QED
  BY <1>1, <1>2, <1>3, <1>4, <1>5, <1>7
     DEF HazardInv, HazardTried, HazardRows, HazardEnds, Hazard!Untried

LEMMA PlanKeeps == ASSUME DriverOK, HazardInv, Hazard!Plan PROVE HazardInv'
<1>1. /\ at = "plan" /\ stop = None /\ at = Hazard!NextNode
  BY HazardAt DEF Hazard!Plan, Hazard!Charge
<1>2. ambiguities # {}
  BY <1>1 DEF Hazard!NextNode
<1>3. /\ hChosen' \in Hazard!Untried
      /\ UNCHANGED <<stop, hQueried, hUnavailable, gathered, ambiguities, settled, screened, hWired, filed>>
      /\ at' = Hazard!Router'
  BY DEF Hazard!Plan, Hazard!Goes
<1>4. at' # "over"
  BY <1>3 DEF Hazard!Router, Hazard!Routed, Hazard!NextNode, Hazard!STOP
<1> QED
  BY <1>1, <1>2, <1>3, <1>4 DEF HazardInv, HazardTried, HazardRows, HazardEnds, Hazard!Untried

LEMMA SweepKeeps == ASSUME DriverOK, HazardInv, Hazard!Sweep PROVE HazardInv'
<1>1. /\ at = "sweep" /\ stop = None /\ at = Hazard!NextNode
  BY HazardAt DEF Hazard!Sweep, Hazard!Charge
<1>2. ambiguities = {} /\ hChosen = None /\ hQueried \cup hUnavailable # {}
  BY <1>1 DEF Hazard!NextNode
<1>3. PICK up \in SUBSET Hazard!Untried :
        /\ hQueried' = hQueried \cup up
        /\ hUnavailable' = hUnavailable \cup (Hazard!Untried \ up)
        /\ gathered' = [r \in Registries |-> IF r \in up THEN filed[r] ELSE gathered[r]]
  BY DEF Hazard!Sweep, Hazard!RefusedInSweep
<1>4. stop' = "CLOSED" /\ UNCHANGED <<ambiguities, settled, screened, hChosen, hWired, filed>> /\ at' = Hazard!Router'
  BY DEF Hazard!Sweep, Hazard!Goes
<1>5. at' # "over"
  BY <1>4 DEF Hazard!Router, Hazard!Routed, Hazard!NextNode, Hazard!STOP
<1>6. HazardTried' /\ Hazard!Untried' = {}
  BY <1>2, <1>3, <1>4 DEF HazardInv, HazardTried, Hazard!Untried
<1>7. HazardRows'
  <2>1. \A r \in Registries : IsFiniteSet(filed[r])
    BY HazardAssumption, SameFinite DEF Hazard!WellFormed, HazardInv, HazardTried
  <2> QED
    BY <1>3, <1>4, <2>1 DEF HazardInv, HazardRows
<1>8. Seen' = Seen
  BY <1>3, <1>4 DEF Seen, HazardInv, HazardTried, Hazard!Untried
<1>9. SeenSettled'
  BY <1>2, <1>4, <1>8 DEF SeenSettled, HazardInv, Hazard!Key
<1> QED
  BY <1>2, <1>4, <1>5, <1>6, <1>7, <1>9 DEF HazardInv, HazardEnds

LEMMA CrossCheckKeeps == ASSUME DriverOK, HazardInv, Hazard!CrossCheck PROVE HazardInv'
<1>1. /\ at = "cross_check" /\ stop = None /\ at = Hazard!NextNode
  BY HazardAt DEF Hazard!CrossCheck, Hazard!Charge
<1>2. hChosen \in Hazard!Untried /\ ambiguities # {}
  BY <1>1 DEF Hazard!NextNode, HazardInv, HazardTried
<1>3. PICK rows \in {filed[hChosen], {}},
           answer \in [ambiguities -> Hazard!Buildings \cup DOMAIN NormalForm \cup {None}] :
        /\ \/ hQueried' = hQueried \cup {hChosen} /\ hUnavailable' = hUnavailable /\ rows = filed[hChosen]
           \/ hUnavailable' = hUnavailable \cup {hChosen} /\ hQueried' = hQueried /\ rows = {}
        /\ gathered' = [r \in Registries |->
             {Hazard!Bound(row, answer) : row \in IF r = hChosen THEN rows ELSE gathered[r]}]
  BY DEF Hazard!CrossCheck, Hazard!Read, Hazard!Refused
<1>4. /\ hChosen' = None /\ UNCHANGED <<stop, ambiguities, screened, hWired, filed>> /\ at' = Hazard!Router'
  BY DEF Hazard!CrossCheck, Hazard!Goes
<1>5. at' # "over"
  BY <1>4 DEF Hazard!Router, Hazard!Routed, Hazard!NextNode, Hazard!STOP
<1>6. HazardTried'
  BY <1>2, <1>3, <1>4 DEF HazardInv, HazardTried, Hazard!Untried
<1>7. HazardRows'
  <2>1. \A r \in Registries : IsFiniteSet(filed[r])
    BY HazardAssumption, SameFinite DEF Hazard!WellFormed, HazardInv, HazardTried
  <2>2. ASSUME NEW r \in Registries
        PROVE  IsFiniteSet(gathered'[r]) /\ (r \notin hQueried' => gathered'[r] = {})
    <3> DEFINE before == IF r = hChosen THEN rows ELSE gathered[r]
               bind == [row \in before |-> Hazard!Bound(row, answer)]
    <3>1. IsFiniteSet(before) /\ (r \notin hQueried' => before = {})
      BY <1>2, <1>3, <2>1, FS_EmptySet DEF HazardInv, HazardRows, Hazard!Untried
    <3>2. gathered'[r] = {bind[row] : row \in before}
      BY <1>3
    <3> HIDE DEF before, bind
    <3> QED
      BY <3>1, <3>2, ImageIsFinite
  <2> QED
    BY <1>3, <1>4, <2>2 DEF HazardInv, HazardRows
<1> QED
  BY <1>1, <1>2, <1>4, <1>5, <1>6, <1>7 DEF HazardInv, HazardEnds

LEMMA ParkKeeps == ASSUME DriverOK, HazardInv, Hazard!Park PROVE HazardInv'
<1>1. /\ at = "park" /\ steps' = steps + 1 /\ ceiling' = ceiling /\ (late => late')
  BY HazardCharged DEF Hazard!Park
<1>2. stop = None /\ (late \/ steps >= ceiling \/ Hazard!NextNode = "park")
  BY <1>1, HazardAt
<1>3. /\ UNCHANGED <<hQueried, hUnavailable, gathered, ambiguities, settled, screened, hChosen, hWired, filed>>
      /\ at' = Hazard!Router' /\ Hazard!Parks
  BY DEF Hazard!Park, Hazard!Goes, Hazard!graphVars
<1>4. stop' # None /\ stop' # "CLOSED"
  BY <1>3 DEF Hazard!Parks, Hazard!Exhausted
<1>5. stop' = "UNRESOLVED" => Hazard!Untried' = {}
  <2>1. stop' = "UNRESOLVED" => ~ late' /\ steps' < ceiling'
    BY <1>1, <1>3 DEF Hazard!Parks, Hazard!Exhausted, DriverOK
  <2>2. stop' = "UNRESOLVED" => Hazard!NextNode = "park"
    BY <1>1, <1>2, <2>1 DEF DriverOK
  <2>3. Hazard!NextNode = "park" => Hazard!Untried = {}
    BY DEF Hazard!NextNode
  <2> QED
    BY <1>3, <2>2, <2>3 DEF Hazard!Untried
<1>6. at' # "over"
  BY <1>3 DEF Hazard!Router, Hazard!Routed, Hazard!NextNode, Hazard!STOP
<1>7. ambiguities' = {} => SeenSettled'
  BY <1>3 DEF HazardInv, SeenSettled, Seen, Hazard!Key
<1> QED
  BY <1>3, <1>4, <1>5, <1>6, <1>7 DEF HazardInv, HazardTried, HazardRows, HazardEnds, Hazard!Untried

\* The questions are one for each identity left open, as far as the bound goes:
\* none only if none was open and the pass closed.
LEMMA AskPeopleKeeps == ASSUME DriverOK, HazardInv, Hazard!AskPeople PROVE HazardInv'
<1>1. at = STOP /\ at' = "over" /\ stop # None
  BY HazardAt DEF Hazard!AskPeople, Hazard!STOP, STOP
<1>2. UNCHANGED <<stop, hQueried, hUnavailable, gathered, ambiguities, settled, screened, hChosen, hWired, filed>>
  BY DEF Hazard!AskPeople, Hazard!hazardVars, Hazard!graphVars
<1>3. PICK asked \in SUBSET ambiguities :
        /\ Cardinality(asked) = IF Cardinality(ambiguities) < MaxQuestions THEN Cardinality(ambiguities) ELSE MaxQuestions
        /\ threads' = Hazard!Questions(asked)
  BY SameFinite DEF Hazard!AskPeople
<1>4. asked = {} => ambiguities = {}
  <2>1. MaxQuestions \in Nat \ {0} /\ IsFiniteSet(ambiguities)
    BY HazardAssumption DEF Hazard!WellFormed, HazardInv, HazardRows
  <2> QED
    BY <1>3, <2>1, FS_EmptySet
<1>5. Hazard!Outcome = stop
  BY <1>1 DEF Hazard!Outcome
<1>6. stop = "CLOSED" => ambiguities = {}
  BY DEF HazardInv, HazardEnds
<1>7. threads' = {} <=> stop = "CLOSED"
  BY <1>3, <1>4, <1>5, <1>6 DEF Hazard!Questions
<1>8. ambiguities' = {} => SeenSettled'
  BY <1>2 DEF HazardInv, SeenSettled, Seen, Hazard!Key
<1> QED
  BY <1>1, <1>2, <1>7, <1>8 DEF HazardInv, HazardTried, HazardRows, HazardEnds, Hazard!Untried

LEMMA HazardKeeps == ASSUME DriverOK, HazardInv, Hazard!Next PROVE HazardInv'
<1>1. CASE Hazard!BankRefuses
  <2>1. at' = "failed" /\ UNCHANGED <<stop, hQueried, hUnavailable, gathered, ambiguities, settled, screened, hChosen, hWired, filed>>
    BY <1>1 DEF Hazard!BankRefuses, Hazard!PollRaises, Hazard!hazardVars, Hazard!graphVars
  <2>2. ambiguities' = {} => SeenSettled'
    BY <2>1 DEF HazardInv, SeenSettled, Seen, Hazard!Key
  <2> QED
    BY <2>1, <2>2 DEF HazardInv, HazardTried, HazardRows, HazardEnds, Hazard!Untried
<1> QED
  BY <1>1, SurveyKeeps, ScreenKeeps, PlanKeeps, CrossCheckKeeps, SweepKeeps, ParkKeeps, AskPeopleKeeps, NextPassKeeps
     DEF Hazard!Next

LEMMA HazardIdle ==
  ASSUME DriverOK, HazardInv, UNCHANGED vars PROVE DriverOK' /\ HazardInv'
<1>1. UNCHANGED <<at, stop, steps, ceiling, late, threads, hazardVars>>
  BY DEF vars, driverVars, budgetVars
<1>2. DriverOK'
  BY <1>1 DEF DriverOK
<1>3. Hazard!Router' = Hazard!Router /\ Hazard!Untried' = Hazard!Untried /\ Seen' = Seen
  BY <1>1 DEF hazardVars, Hazard!Router, Hazard!Routed, Hazard!NextNode, Hazard!Exhausted, Hazard!MaxIterations, Hazard!Untried, Seen
<1>4. SeenSettled' <=> SeenSettled
  BY <1>1, <1>3 DEF hazardVars, SeenSettled, Hazard!Key
<1> QED
  BY <1>1, <1>2, <1>3, <1>4 DEF hazardVars, HazardInv, HazardTried, HazardRows, HazardEnds

-----------------------------------------------------------------------------
\* What a retrieval tried, and what it holds.
RecordsTried ==
  /\ rWired \subseteq Feeds /\ archive \in Archives
  /\ rQueried \cup rUnavailable \subseteq rWired
  /\ rChosen # None => rChosen \in Records!Untried

\* What it read: pulls of the feeds it was given, and what they cite and lack.
RecordsRead ==
  /\ snapshots \in Seq([feed : rWired, extent : {"window", "whole"}])
  /\ outstanding \subseteq Records!Cited
  /\ followedThrough = Len(snapshots) /\ outstanding = {} => Records!Cited \subseteq Records!Published
  /\ followedThrough = Len(snapshots) => outstanding \cap Records!Published = {}
  /\ followedThrough \in Nat /\ followedThrough <= Len(snapshots)

RecordsEnds ==
  /\ stop = "CLOSED" => outstanding = {} /\ Records!Untried = {} /\ Records!Cited \subseteq Records!Published
  /\ stop = "UNRESOLVED" => Records!Untried = {} /\ Records!Chaseable = {}
  /\ at = "over" => (threads = {} <=> stop = "CLOSED")

\* A pass that was given no feed plans once all the same.
PlansInVain ==
  /\ at = "plan" /\ stop = None /\ ~ late /\ steps = 0
  /\ rWired = {} /\ rChosen = None /\ snapshots = <<>> /\ followedThrough = 0 /\ outstanding = {}

RecordsInv ==
  /\ at \notin {"over", "failed"} => at = Records!Router \/ PlansInVain
  /\ RecordsTried /\ RecordsRead /\ RecordsEnds

LEMMA RecordsAt ==
  ASSUME DriverOK, RecordsInv
  PROVE  /\ at \in {"fetch", "follow", "chase", "close"} =>
              stop = None /\ steps < ceiling /\ ~ late /\ at = Records!NextNode
         /\ at = "plan" =>
              stop = None /\ steps < ceiling /\ ~ late /\ (at = Records!NextNode \/ PlansInVain)
         /\ at = "park" => stop = None /\ (late \/ steps >= ceiling \/ Records!NextNode = "park")
         /\ at = STOP => stop # None
BY DEF DriverOK, RecordsInv, PlansInVain, Records!Router, Records!Routed, Records!NextNode, Records!Exhausted,
       Records!MaxIterations, Records!STOP, STOP

LEMMA RecordsCharged ==
  ASSUME DriverOK, NEW node, Records!Charge(node)
  PROVE  /\ at = node /\ steps' = steps + 1 /\ ceiling' = ceiling /\ threads' = threads
         /\ late' \in BOOLEAN /\ (late => late')
<1>1. late \in BOOLEAN /\ late' \in {late, TRUE}
  BY DEF DriverOK, Records!Charge
<1>2. late' \in BOOLEAN /\ (late => late')
  BY <1>1, Zenon
<1> QED
  BY <1>2 DEF Records!Charge

LEMMA RecordsDriver ==
  ASSUME DriverOK, RecordsInv, Records!Next PROVE DriverOK'
<1>1. ASSUME NEW node \in {"plan", "fetch", "follow", "chase", "close"}, Records!Charge(node),
             stop' \in {stop, "CLOSED"}, at' = Records!Router'
      PROVE  DriverOK'
  <2>1. at = node /\ steps' = steps + 1 /\ late' \in BOOLEAN /\ ceiling' = ceiling
    BY <1>1, RecordsCharged
  <2>2. steps < ceiling /\ stop = None
    BY <2>1, RecordsAt
  <2>3. at' # "over"
    BY <1>1 DEF Records!Router, Records!Routed, Records!NextNode, Records!STOP
  <2> QED
    BY <1>1, <2>1, <2>2, <2>3 DEF DriverOK
<1>2. CASE Records!Plan
  BY <1>1, <1>2 DEF Records!Plan, Records!Goes
<1>3. CASE Records!Fetch
  BY <1>1, <1>3 DEF Records!Fetch, Records!Goes
<1>4. CASE Records!Follow
  BY <1>1, <1>4 DEF Records!Follow, Records!Goes
<1>5. CASE Records!Chase
  BY <1>1, <1>5 DEF Records!Chase, Records!Goes
<1>6. CASE Records!Close
  BY <1>1, <1>6 DEF Records!Close, Records!Goes
<1>7. CASE Records!Park
  <2>1. at = "park" /\ steps' = steps + 1 /\ late' \in BOOLEAN /\ ceiling' = ceiling
    BY <1>7, RecordsCharged DEF Records!Park
  <2>2. stop' \in Stops
    BY <1>7 DEF Records!Park, Records!Parks, Records!Exhausted
  <2>3. at' # "over"
    BY <2>2, <1>7 DEF Records!Park, Records!Goes, Records!Router, Records!Routed, Records!STOP
  <2> QED
    BY <2>1, <2>2, <2>3 DEF DriverOK
<1>8. CASE Records!AskPeople \/ Records!BankRefuses
  BY <1>8, RecordsAt DEF DriverOK, Records!AskPeople, Records!BankRefuses, Records!PollRaises, Records!budgetVars, Records!STOP, STOP
<1>9. CASE Records!NextPass
  <2>1. at' = "plan" /\ stop' = None /\ steps' = 0 /\ ceiling' = ceiling
    BY <1>9 DEF Records!NextPass, Records!BeginsAgain
  <2>2. late' \in BOOLEAN
    BY <1>9, Zenon DEF Records!NextPass, Records!BeginsAgain
  <2> QED
    BY <2>1, <2>2 DEF DriverOK
<1> QED
  BY <1>2, <1>3, <1>4, <1>5, <1>6, <1>7, <1>8, <1>9 DEF Records!Next

-----------------------------------------------------------------------------
\* Every pull is of a feed the pass was given, in its window or whole.
LEMMA PullsAre ==
  ASSUME RecordsRead, NEW i \in DOMAIN snapshots
  PROVE  snapshots[i].feed \in rWired /\ snapshots[i].extent \in {"window", "whole"}
<1> DEFINE pulls == [feed : rWired, extent : {"window", "whole"}]
<1>1. snapshots \in Seq(pulls)
  BY DEF RecordsRead
<1> HIDE DEF pulls
<1>2. snapshots[i] \in pulls
  BY <1>1
<1> QED
  BY <1>2 DEF pulls

\* Whatever is cited is a filing number.
LEMMA CitedAreFilings ==
  ASSUME RecordsTried, RecordsRead PROVE Records!Cited \subseteq Filings /\ Records!Published \subseteq Filings
<1>1. \A i \in DOMAIN snapshots : Records!Held(snapshots[i]) \subseteq Filings
  <2> SUFFICES ASSUME NEW i \in DOMAIN snapshots PROVE Records!Held(snapshots[i]) \subseteq Filings
    OBVIOUS
  <2>1. snapshots[i].feed \in Feeds /\ snapshots[i].extent \in {"window", "whole"}
    BY PullsAre DEF RecordsTried
  <2>2. archive \in [Feeds -> [window : SUBSET Filings, whole : SUBSET Filings]]
    BY RecordsAssumption DEF RecordsTried, Records!WellFormed
  <2> QED
    BY <2>1, <2>2 DEF Records!Held
<1>2. Records!Published \subseteq Filings
  BY <1>1 DEF Records!Published
<1> QED
  BY <1>2, RecordsAssumption DEF Records!Cited, Records!WellFormed

\* The first few of a set are some of it, and one at least if there is any.
LEMMA LowestOf ==
  ASSUME NEW S \in SUBSET Filings, NEW n \in Nat \ {0}
  PROVE  Records!Lowest(S, n) \subseteq S /\ (Records!Lowest(S, n) = {} => S = {})
<1>1. ASSUME S # {} PROVE Records!Lowest(S, n) # {}
  <2>1. {Number[f] : f \in S} \in SUBSET Nat /\ {Number[f] : f \in S} # {}
    BY <1>1, RecordsAssumption DEF Records!WellFormed
  <2>2. PICK m \in {Number[f] : f \in S} : \A k \in {Number[f] : f \in S} : m <= k
    BY <2>1, LeastOf
  <2>3. PICK f \in S : m = Number[f]
    BY <2>2
  <2>4. {g \in S : Number[g] < Number[f]} = {}
    BY <2>1, <2>2, <2>3
  <2>5. Records!Cardinality({g \in S : Number[g] < Number[f]}) < n
    BY <2>4, FS_EmptySet, SameFinite
  <2> QED
    BY <2>5 DEF Records!Lowest
<1> QED
  BY <1>1 DEF Records!Lowest

\* A reference still out is cited by a pull of one of the feeds.
LEMMA CitingFeedIsWired ==
  ASSUME RecordsTried, RecordsRead, NEW f \in outstanding PROVE Records!CitingFeed(f) \in rWired
<1> DEFINE citing == {i \in DOMAIN snapshots : \E g \in Records!Held(snapshots[i]) : f \in Cites[g]}
<1>1. citing # {}
  BY DEF RecordsRead, Records!Cited, Records!Published
<1>2. citing \in SUBSET Nat
  BY DEF RecordsRead
<1>3. \E i \in citing : \A j \in citing : i <= j
  BY <1>1, <1>2, LeastOf
<1>4. (CHOOSE i \in citing : \A j \in citing : i <= j) \in DOMAIN snapshots
  BY <1>3
<1> HIDE DEF citing
<1>5. Records!CitingFeed(f) = snapshots[CHOOSE i \in citing : \A j \in citing : i <= j].feed
  BY DEF Records!CitingFeed, citing
<1> QED
  BY <1>4, <1>5, PullsAre

\* With one more pull, what was cited and published stays so.
LEMMA PullsGrow ==
  ASSUME RecordsRead, archive' = archive, NEW s \in [feed : rWired, extent : {"window", "whole"}],
         snapshots' = Append(snapshots, s)
  PROVE  /\ Records!Cited \subseteq Records!Cited' /\ Records!Published \subseteq Records!Published'
         /\ Records!Held(s) \subseteq Records!Published'
         /\ Len(snapshots') = Len(snapshots) + 1 /\ Len(snapshots) \in Nat
         /\ snapshots' \in Seq([feed : rWired, extent : {"window", "whole"}])
<1>1. /\ Len(snapshots) \in Nat /\ DOMAIN snapshots = 1..Len(snapshots) /\ DOMAIN snapshots' = 1..(Len(snapshots) + 1)
      /\ \A i \in DOMAIN snapshots : i \in DOMAIN snapshots' /\ snapshots'[i] = snapshots[i]
      /\ snapshots'[Len(snapshots) + 1] = s /\ Len(snapshots) + 1 \in DOMAIN snapshots'
  BY DEF RecordsRead
<1>2. Records!Published \subseteq Records!Published' /\ Records!Held(s) \subseteq Records!Published'
  BY <1>1 DEF Records!Published, Records!Held
<1>3. Records!Cited \subseteq Records!Cited'
  BY <1>2 DEF Records!Cited
<1>4. Len(snapshots') = Len(snapshots) + 1 /\ snapshots' \in Seq([feed : rWired, extent : {"window", "whole"}])
  BY DEF RecordsRead
<1> QED
  BY <1>1, <1>2, <1>3, <1>4

-----------------------------------------------------------------------------
LEMMA RecordsBegins == ASSUME Records!Init PROVE DriverOK /\ RecordsInv
<1>1. /\ at = "plan" /\ stop = None /\ steps = 0 /\ ceiling \in Nat \ {0} /\ ~ late
      /\ rQueried = {} /\ rUnavailable = {} /\ snapshots = <<>> /\ outstanding = {}
      /\ followedThrough = 0 /\ rChosen = None /\ rWired \subseteq Feeds /\ archive \in Archives
  BY DEF Records!Init, Records!Begins, Records!Blank
<1>2. DriverOK
  <2>1. late \in BOOLEAN
    BY Zenon DEF Records!Init, Records!Begins
  <2> QED
    BY <1>1, <2>1 DEF DriverOK
<1>3. at = Records!Router \/ PlansInVain
  BY <1>1 DEF Records!Router, Records!Routed, Records!NextNode, Records!Exhausted, Records!MaxIterations,
     Records!Untried, PlansInVain
<1>4. Records!Cited = {} /\ Records!Published = {}
  BY <1>1 DEF Records!Cited, Records!Published
<1> QED
  BY <1>1, <1>2, <1>3, <1>4 DEF RecordsInv, RecordsTried, RecordsRead, RecordsEnds

LEMMA RetrievesAnew == ASSUME DriverOK, RecordsInv, Records!NextPass PROVE RecordsInv'
<1>1. /\ at' = "plan" /\ stop' = None /\ steps' = 0 /\ ceiling' = ceiling /\ ~ late'
      /\ rQueried' = {} /\ rUnavailable' = {} /\ snapshots' = <<>> /\ outstanding' = {}
      /\ followedThrough' = 0 /\ rChosen' = None /\ rWired' = rWired /\ archive' = archive
  BY DEF Records!NextPass, Records!BeginsAgain
<1>2. ceiling \in Nat \ {0}
  BY DEF DriverOK
<1>3. (at = Records!Router \/ PlansInVain)'
  BY <1>1, <1>2 DEF Records!Router, Records!Routed, Records!NextNode, Records!Exhausted, Records!MaxIterations,
     Records!Untried, PlansInVain
<1>4. Records!Cited' = {} /\ Records!Published' = {}
  BY <1>1 DEF Records!Cited, Records!Published
<1> QED
  BY <1>1, <1>3, <1>4 DEF RecordsInv, RecordsTried, RecordsRead, RecordsEnds

\* Where no pull is made, what is cited and published stays as it is.
LEMMA PullsStay ==
  ASSUME snapshots' = snapshots, archive' = archive
  PROVE  /\ Records!Cited' = Records!Cited /\ Records!Published' = Records!Published
BY DEF Records!Cited, Records!Published, Records!Held

LEMMA RecordsPlanKeeps == ASSUME DriverOK, RecordsInv, Records!Plan PROVE RecordsInv'
<1>1. stop = None /\ (Records!NextNode = "plan" \/ PlansInVain)
  BY RecordsAt DEF Records!Plan, Records!Charge
<1>2. /\ UNCHANGED <<stop, rQueried, rUnavailable, snapshots, outstanding, followedThrough, rWired, archive>>
      /\ rChosen' = rChosen \/ rChosen' \in Records!Untried
      /\ at' = Records!Router'
  BY DEF Records!Plan, Records!Goes
<1>3. at' # "over"
  BY <1>2 DEF Records!Router, Records!Routed, Records!NextNode, Records!STOP
<1> QED
  BY <1>1, <1>2, <1>3, PullsStay DEF RecordsInv, RecordsTried, RecordsRead, RecordsEnds, Records!Untried

LEMMA FetchKeeps == ASSUME DriverOK, RecordsInv, Records!Fetch PROVE RecordsInv'
<1>1. stop = None /\ Records!NextNode = "fetch"
  BY RecordsAt DEF Records!Fetch, Records!Charge
<1>2. rChosen \in Records!Untried
  BY <1>1 DEF Records!NextNode, RecordsInv, RecordsTried
<1>3. /\ UNCHANGED <<stop, outstanding, followedThrough, rWired, archive>> /\ rChosen' = None
      /\ at' = Records!Router'
  BY DEF Records!Fetch, Records!Goes
<1>4. at' # "over"
  BY <1>3 DEF Records!Router, Records!Routed, Records!NextNode, Records!STOP
<1>5. CASE rUnavailable' = rUnavailable \cup {rChosen} /\ UNCHANGED <<rQueried, snapshots>>
  BY <1>1, <1>2, <1>3, <1>4, <1>5, PullsStay DEF RecordsInv, RecordsTried, RecordsRead, RecordsEnds, Records!Untried
<1>6. CASE /\ rQueried' = rQueried \cup {rChosen} /\ UNCHANGED rUnavailable
           /\ snapshots' = Append(snapshots, [feed |-> rChosen, extent |-> "window"])
  <2>1. [feed |-> rChosen, extent |-> "window"] \in [feed : rWired, extent : {"window", "whole"}]
    BY <1>2 DEF Records!Untried
  <2>2. /\ Records!Cited \subseteq Records!Cited' /\ Len(snapshots') = Len(snapshots) + 1 /\ Len(snapshots) \in Nat
        /\ snapshots' \in Seq([feed : rWired, extent : {"window", "whole"}])
    BY <1>3, <1>6, <2>1, PullsGrow DEF RecordsInv
  <2>3. followedThrough' # Len(snapshots')
    BY <1>3, <2>2 DEF RecordsInv, RecordsRead
  <2> QED
    BY <1>1, <1>2, <1>3, <1>4, <1>6, <2>2, <2>3 DEF RecordsInv, RecordsTried, RecordsRead, RecordsEnds, Records!Untried
<1> QED
  BY <1>5, <1>6 DEF Records!Fetch

LEMMA FollowKeeps == ASSUME DriverOK, RecordsInv, Records!Follow PROVE RecordsInv'
<1>1. stop = None /\ Records!NextNode = "follow"
  BY RecordsAt DEF Records!Follow, Records!Charge
<1>2. /\ outstanding' = Records!Lowest(Records!Cited \ Records!Published, MaxReferences)
      /\ followedThrough' = Len(snapshots)
      /\ UNCHANGED <<stop, rQueried, rUnavailable, snapshots, rChosen, rWired, archive>>
      /\ at' = Records!Router'
  BY DEF Records!Follow, Records!Goes
<1>3. at' # "over"
  BY <1>2 DEF Records!Router, Records!Routed, Records!NextNode, Records!STOP
<1>4. /\ outstanding' \subseteq Records!Cited \ Records!Published
      /\ outstanding' = {} => Records!Cited \subseteq Records!Published
  <2>1. Records!Cited \subseteq Filings
    BY CitedAreFilings DEF RecordsInv
  <2>2. MaxReferences \in Nat \ {0}
    BY RecordsAssumption DEF Records!WellFormed
  <2>3. /\ outstanding' \subseteq Records!Cited \ Records!Published
        /\ outstanding' = {} => Records!Cited \ Records!Published = {}
    BY <1>2, <2>1, <2>2, LowestOf
  <2> QED
    BY <2>3
<1>5. followedThrough' \in Nat /\ followedThrough' <= Len(snapshots')
  <2>1. Len(snapshots) \in Nat
    BY DEF RecordsInv, RecordsRead
  <2> QED
    BY <1>2, <2>1
<1> QED
  BY <1>1, <1>2, <1>3, <1>4, <1>5, PullsStay DEF RecordsInv, RecordsTried, RecordsRead, RecordsEnds, Records!Untried

LEMMA ChaseKeeps == ASSUME DriverOK, RecordsInv, Records!Chase PROVE RecordsInv'
<1>1. stop = None /\ Records!NextNode = "chase"
  BY RecordsAt DEF Records!Chase, Records!Charge
<1>2. rChosen = None /\ followedThrough = Len(snapshots)
  BY <1>1 DEF Records!NextNode
<1>3. /\ UNCHANGED <<stop, rQueried, rUnavailable, followedThrough, rChosen, rWired, archive>>
      /\ at' = Records!Router'
  BY DEF Records!Chase, Records!Goes
<1>4. at' # "over"
  BY <1>3 DEF Records!Router, Records!Routed, Records!NextNode, Records!STOP
<1>5. Records!Chaseable \subseteq Filings
  BY CitedAreFilings DEF RecordsInv, RecordsRead, Records!Chaseable
<1>6. PICK f \in Records!Lowest(Records!Chaseable, 1) :
        \/ /\ snapshots' = Append(snapshots, [feed |-> Records!CitingFeed(f), extent |-> "whole"])
           /\ outstanding' = outstanding \ {f}
        \/ UNCHANGED <<snapshots, outstanding>>
  BY DEF Records!Chase
<1>7. f \in outstanding
  <2>1. Records!Lowest(Records!Chaseable, 1) \subseteq Records!Chaseable
    BY <1>5, LowestOf
  <2> QED
    BY <1>6, <2>1 DEF Records!Chaseable
<1>8. CASE UNCHANGED <<snapshots, outstanding>>
  BY <1>1, <1>3, <1>4, <1>8, PullsStay DEF RecordsInv, RecordsTried, RecordsRead, RecordsEnds, Records!Untried
<1>9. CASE /\ snapshots' = Append(snapshots, [feed |-> Records!CitingFeed(f), extent |-> "whole"])
           /\ outstanding' = outstanding \ {f}
  <2>1. [feed |-> Records!CitingFeed(f), extent |-> "whole"] \in [feed : rWired, extent : {"window", "whole"}]
    BY <1>7, CitingFeedIsWired DEF RecordsInv
  <2>2. /\ Records!Cited \subseteq Records!Cited' /\ Len(snapshots') = Len(snapshots) + 1 /\ Len(snapshots) \in Nat
        /\ snapshots' \in Seq([feed : rWired, extent : {"window", "whole"}])
    BY <1>3, <1>9, <2>1, PullsGrow DEF RecordsInv
  <2>3. followedThrough' # Len(snapshots')
    BY <1>2, <1>3, <2>2
  <2> QED
    BY <1>1, <1>2, <1>3, <1>4, <1>9, <2>2, <2>3 DEF RecordsInv, RecordsTried, RecordsRead, RecordsEnds, Records!Untried
<1> QED
  BY <1>6, <1>8, <1>9

LEMMA RecordsParkKeeps == ASSUME DriverOK, RecordsInv, Records!Park PROVE RecordsInv'
<1>1. /\ at = "park" /\ steps' = steps + 1 /\ ceiling' = ceiling /\ (late => late')
  BY RecordsCharged DEF Records!Park
<1>2. stop = None /\ (late \/ steps >= ceiling \/ Records!NextNode = "park")
  BY <1>1, RecordsAt
<1>3. /\ UNCHANGED <<ruledOut, rQueried, rUnavailable, snapshots, outstanding, followedThrough, rChosen, rWired, archive>>
      /\ at' = Records!Router' /\ Records!Parks
  BY DEF Records!Park, Records!Goes, Records!graphVars
<1>4. stop' # None /\ stop' # "CLOSED"
  BY <1>3 DEF Records!Parks, Records!Exhausted
<1>5. stop' = "UNRESOLVED" => Records!Untried' = {} /\ Records!Chaseable' = {}
  <2>1. stop' = "UNRESOLVED" => ~ late' /\ steps' < ceiling'
    BY <1>1, <1>3 DEF Records!Parks, Records!Exhausted, DriverOK
  <2>2. stop' = "UNRESOLVED" => Records!NextNode = "park"
    BY <1>1, <1>2, <2>1 DEF DriverOK
  <2>3. Records!NextNode = "park" => Records!Untried = {} /\ Records!Chaseable = {}
    BY DEF Records!NextNode
  <2> QED
    BY <1>3, <2>2, <2>3 DEF Records!Untried, Records!Chaseable, Records!Tried
<1>6. at' # "over"
  BY <1>3 DEF Records!Router, Records!Routed, Records!NextNode, Records!STOP
<1> QED
  BY <1>3, <1>4, <1>5, <1>6, PullsStay DEF RecordsInv, RecordsTried, RecordsRead, RecordsEnds, Records!Untried

LEMMA RecordsCloseKeeps == ASSUME DriverOK, RecordsInv, Records!Close PROVE RecordsInv'
<1>1. Records!NextNode = "close"
  BY RecordsAt DEF Records!Close, Records!Charge
<1>2. /\ followedThrough = Len(snapshots) /\ Records!Untried = {} /\ outstanding = {}
  BY <1>1 DEF Records!NextNode
<1>3. /\ UNCHANGED <<rQueried, rUnavailable, snapshots, outstanding, followedThrough, rChosen, rWired, archive>>
      /\ at' = Records!Router' /\ stop' = "CLOSED"
  BY DEF Records!Close, Records!Goes, Records!graphVars
<1>4. at' # "over"
  BY <1>3 DEF Records!Router, Records!Routed, Records!NextNode, Records!STOP
<1> QED
  BY <1>2, <1>3, <1>4, PullsStay DEF RecordsInv, RecordsTried, RecordsRead, RecordsEnds, Records!Untried

LEMMA RecordsKeeps == ASSUME DriverOK, RecordsInv, Records!Next PROVE RecordsInv'
<1>1. CASE Records!AskPeople
  <2>1. at = STOP /\ at' = "over" /\ stop # None
    BY <1>1, RecordsAt DEF Records!AskPeople, Records!STOP, STOP
  <2>2. UNCHANGED <<stop, ruledOut, rQueried, rUnavailable, snapshots, outstanding, followedThrough, rChosen, rWired, archive>>
    BY <1>1 DEF Records!AskPeople, Records!recordsVars, Records!graphVars
  <2>3. threads' = {} <=> stop = "CLOSED"
    <3>1. threads' = Records!Questions
      BY <1>1 DEF Records!AskPeople
    <3>2. stop = "CLOSED" => outstanding = {}
      BY DEF RecordsInv, RecordsEnds
    <3> QED
      BY <2>1, <3>1, <3>2 DEF Records!Questions, Records!Outcome
  <2> QED
    BY <2>1, <2>2, <2>3, PullsStay
       DEF RecordsInv, RecordsTried, RecordsRead, RecordsEnds, Records!Untried, Records!Chaseable, Records!Tried
<1>2. CASE Records!BankRefuses
  <2>1. at' = "failed" /\ UNCHANGED <<stop, ruledOut, rQueried, rUnavailable, snapshots, outstanding, followedThrough, rChosen, rWired, archive>>
    BY <1>2 DEF Records!BankRefuses, Records!PollRaises, Records!recordsVars, Records!graphVars
  <2> QED
    BY <2>1, PullsStay
       DEF RecordsInv, RecordsTried, RecordsRead, RecordsEnds, Records!Untried, Records!Chaseable, Records!Tried
<1> QED
  BY <1>1, <1>2, RecordsPlanKeeps, FetchKeeps, FollowKeeps, ChaseKeeps, RecordsParkKeeps, RecordsCloseKeeps, RetrievesAnew
     DEF Records!Next

LEMMA RecordsIdle == ASSUME RecordsInv, UNCHANGED vars PROVE RecordsInv'
<1>1. UNCHANGED <<at, stop, steps, ceiling, late, ruledOut, threads, recordsVars>>
  BY DEF vars, driverVars, budgetVars
<1>2. /\ Records!Router' = Records!Router /\ Records!Untried' = Records!Untried /\ Records!Chaseable' = Records!Chaseable
      /\ (PlansInVain' <=> PlansInVain)
  BY <1>1 DEF recordsVars, Records!Router, Records!Routed, Records!NextNode, Records!Exhausted, Records!MaxIterations,
     Records!Untried, Records!Chaseable, Records!Tried, PlansInVain
<1> QED
  BY <1>1, <1>2, PullsStay DEF recordsVars, RecordsInv, RecordsTried, RecordsRead, RecordsEnds
-----------------------------------------------------------------------------
\* What the head read, and what it made of it so far.
HeadRead ==
  /\ picture \in Pictures /\ recalled \subseteq Remembered
  /\ phase \in {"new", "gathered", "recalled", "collided"}
  /\ phase = "collided" => collisions = Focus!Collisions
  /\ phase # "collided" => collisions = {}
  /\ selected \subseteq collisions

\* How the briefing ended, and what became of it.
HeadEnds ==
  /\ stop # "UNRESOLVED"
  /\ stop = "CLOSED" => phase = "collided" /\ selected = collisions
  /\ at = "over" => briefing = Focus!Briefing(Focus!Collisions) /\ threads = recalled

HeadInv ==
  /\ at \notin {"over", "failed"} => at = Focus!Routed(Focus!NextNode)
  /\ HeadRead /\ HeadEnds

LEMMA HeadAt ==
  ASSUME DriverOK, HeadInv
  PROVE  /\ at \in {"gather", "recall", "collide", "select", "close"} =>
              stop = None /\ steps < ceiling /\ ~ late /\ at = Focus!NextNode
         /\ at = "park" => stop = None /\ (late \/ steps >= ceiling)
         /\ at = STOP => stop # None
         /\ at \in {"gather", "recall", "collide", "select", "close", "park", STOP, "over", "failed"}
BY DEF DriverOK, HeadInv, Focus!Routed, Focus!NextNode, Focus!Exhausted, Focus!MaxIterations, Focus!STOP, STOP

LEMMA HeadCharged ==
  ASSUME DriverOK, NEW node, Focus!Charge(node)
  PROVE  /\ at = node /\ steps' = steps + 1 /\ ceiling' = ceiling /\ threads' = threads
         /\ late' \in BOOLEAN /\ (late => late')
<1>1. late \in BOOLEAN /\ late' \in {late, TRUE}
  BY DEF DriverOK, Focus!Charge
<1>2. late' \in BOOLEAN /\ (late => late')
  BY <1>1, Zenon
<1> QED
  BY <1>2 DEF Focus!Charge

LEMMA HeadDriver == ASSUME DriverOK, HeadInv, Focus!Next PROVE DriverOK'
<1>1. ASSUME NEW node \in {"gather", "recall", "collide", "select", "close"}, Focus!Charge(node),
             stop' \in {stop, "CLOSED"}, at' = Focus!Routed(Focus!NextNode)'
      PROVE  DriverOK'
  <2>1. at = node /\ steps' = steps + 1 /\ late' \in BOOLEAN /\ ceiling' = ceiling
    BY <1>1, HeadCharged
  <2>2. steps < ceiling /\ stop = None
    BY <2>1, HeadAt
  <2>3. at' # "over"
    BY <1>1 DEF Focus!Routed, Focus!NextNode, Focus!STOP
  <2> QED
    BY <1>1, <2>1, <2>2, <2>3 DEF DriverOK
<1>2. CASE Focus!Gather
  BY <1>1, <1>2 DEF Focus!Gather, Focus!Goes
<1>3. CASE Focus!Recall
  BY <1>1, <1>3 DEF Focus!Recall, Focus!Goes
<1>4. CASE Focus!Collide
  BY <1>1, <1>4 DEF Focus!Collide, Focus!Goes
<1>5. CASE Focus!Select
  BY <1>1, <1>5 DEF Focus!Select, Focus!Goes
<1>6. CASE Focus!Close
  BY <1>1, <1>6 DEF Focus!Close, Focus!Goes
<1>7. CASE Focus!Park
  <2>1. at = "park" /\ steps' = steps + 1 /\ late' \in BOOLEAN /\ ceiling' = ceiling
    BY <1>7, HeadCharged DEF Focus!Park
  <2>2. stop' \in Stops
    BY <1>7 DEF Focus!Park, Focus!Parks, Focus!Exhausted
  <2>3. at' # "over"
    BY <2>2, <1>7 DEF Focus!Park, Focus!Goes, Focus!Routed, Focus!STOP
  <2> QED
    BY <2>1, <2>2, <2>3 DEF DriverOK
<1>8. CASE Focus!ComesApart \/ Focus!Record \/ Focus!LogRefuses
  BY <1>8, HeadAt
     DEF DriverOK, Focus!ComesApart, Focus!Record, Focus!LogRefuses, Focus!PollRaises, Focus!budgetVars, Focus!STOP, STOP
<1>9. CASE Focus!NextPass
  <2>1. at' = "gather" /\ stop' = None /\ steps' = 0 /\ ceiling' = ceiling
    BY <1>9 DEF Focus!NextPass, Focus!BeginsAgain
  <2>2. late' \in BOOLEAN
    BY <1>9, Zenon DEF Focus!NextPass, Focus!BeginsAgain
  <2> QED
    BY <2>1, <2>2 DEF DriverOK
<1> QED
  BY <1>2, <1>3, <1>4, <1>5, <1>6, <1>7, <1>8, <1>9 DEF Focus!Next

-----------------------------------------------------------------------------
\* The first few of a finite set that is totally ordered are a few.
LEMMA LeadersAreFew ==
  ASSUME NEW S, IsFiniteSet(S), NEW n \in Nat, NEW before,
         \A x \in S : before[x] \subseteq S /\ x \notin before[x],
         \A x, y \in S : x # y => x \in before[y] \/ y \in before[x],
         \A x, y \in S : x \in before[y] => before[x] \subseteq before[y],
         NEW L, L = {x \in S : Cardinality(before[x]) < n}
  PROVE  IsFiniteSet(L) /\ Cardinality(L) <= n
<1>1. L \subseteq S /\ \A x \in L : Cardinality(before[x]) < n
  OBVIOUS
<1>2. IsFiniteSet(L)
  BY <1>1, FS_Subset
<1>3. ASSUME NEW x \in S PROVE IsFiniteSet(before[x]) /\ Cardinality(before[x]) \in Nat
  <2>1. IsFiniteSet(before[x])
    BY FS_Subset
  <2> QED
    BY <2>1, FS_CardinalityType
<1>4. CASE L = {}
  BY <1>2, <1>4, FS_EmptySet
<1>5. CASE L # {}
  <2> DEFINE room == {n - Cardinality(before[x]) : x \in L}
  <2>1. room \in SUBSET Nat /\ room # {}
    BY <1>1, <1>3, <1>5
  <2>2. PICK m \in room : \A k \in room : m <= k
    <3> HIDE DEF room
    <3> QED
      BY <2>1, LeastOf
  <2>3. PICK x \in L : m = n - Cardinality(before[x])
    BY <2>2
  <2>4. ASSUME NEW y \in L, y # x PROVE y \in before[x]
    <3>1. CASE x \in before[y]
      <4>1. before[x] \subseteq before[y] /\ x \notin before[x]
        BY <1>1, <3>1
      <4>2. /\ Cardinality(before[x]) <= Cardinality(before[y])
            /\ Cardinality(before[x]) = Cardinality(before[y]) => before[x] = before[y]
        BY <1>1, <1>3, <4>1, FS_Subset
      <4>3. Cardinality(before[x]) # Cardinality(before[y])
        BY <3>1, <4>1, <4>2
      <4>4. m <= n - Cardinality(before[y])
        BY <2>2
      <4> QED
        BY <1>1, <1>3, <2>3, <4>2, <4>3, <4>4
    <3> QED
      BY <1>1, <2>4, <3>1
  <2>5. L \subseteq before[x] \cup {x}
    BY <2>4
  <2>6. x \notin before[x] /\ Cardinality(before[x]) < n
    BY <1>1
  <2>7. IsFiniteSet(before[x]) /\ Cardinality(before[x]) \in Nat
    BY <1>1, <1>3
  <2>8. IsFiniteSet(before[x] \cup {x}) /\ Cardinality(before[x] \cup {x}) = Cardinality(before[x]) + 1
    BY <2>6, <2>7, FS_AddElement
  <2>9. Cardinality(L) <= Cardinality(before[x] \cup {x}) /\ Cardinality(L) \in Nat
    BY <1>2, <2>5, <2>8, FS_Subset, FS_CardinalityType
  <2> QED
    BY <1>2, <2>6, <2>7, <2>8, <2>9
<1> QED
  BY <1>4, <1>5

\* The collisions have ranks, and no two the same.
LEMMA RanksAreTotal ==
  ASSUME HeadRead
  PROVE  /\ Focus!Detected \subseteq Keys \cup Remembered
         /\ \A s \in Focus!Detected : Focus!Priority(s) \in Int /\ Focus!Severity(s) \in Int /\ IdOrder[s] \in Int
         /\ \A s, t \in Focus!Detected : IdOrder[s] = IdOrder[t] => s = t
<1>1. Focus!Detected \subseteq Keys \cup Remembered
  <2>1. \A c \in picture.conflicts : c.key \in Keys
    BY HeadAssumption DEF Focus!WellFormed, HeadRead
  <2>2. Focus!Filed \subseteq Keys /\ \A q : Focus!Anchors(q) \subseteq Keys
    BY DEF Focus!Filed, Focus!Anchors
  <2>3. /\ {c.key : c \in picture.conflicts} \subseteq Keys
        /\ UNION {Focus!Anchors(q) : q \in recalled} \subseteq Keys
        /\ {q \in recalled : Focus!Anchors(q) = {}} \subseteq Remembered
    BY <2>1, <2>2 DEF HeadRead
  <2>4. ASSUME NEW s \in Focus!Detected PROVE s \in Keys \cup Remembered
    <3>1. \/ s \in {c.key : c \in picture.conflicts}
          \/ s \in UNION {Focus!Anchors(q) : q \in recalled}
          \/ s \in Focus!Filed
          \/ s \in {q \in recalled : Focus!Anchors(q) = {}}
      BY Zenon DEF Focus!Detected
    <3> QED
      BY <2>2, <2>3, <3>1, Zenon
  <2> QED
    BY <2>4
<1>2. ASSUME NEW s PROVE Focus!Severity(s) \in Int
  <2> DEFINE found == {c.severity : c \in Focus!Conflicts(s)}
  <2>1. found \subseteq 1..5
    BY HeadAssumption DEF Focus!WellFormed, HeadRead, Focus!Conflicts
  <2>2. CASE Focus!Conflicts(s) = {}
    BY <2>2 DEF Focus!Severity
  <2>3. CASE Focus!Conflicts(s) # {}
    <3> DEFINE short == {5 - v : v \in found}
    <3>1. short \in SUBSET Nat /\ short # {}
      <4>1. found # {}
        BY <2>3
      <4>2. ASSUME NEW v \in found PROVE 5 - v \in Nat
        <5>1. v \in 1..5
          BY <2>1
        <5> QED
          BY <5>1
      <4> HIDE DEF found
      <4> QED
        BY <4>1, <4>2
    <3>2. PICK m \in short : \A k \in short : m <= k
      <4> HIDE DEF short
      <4> QED
        BY <3>1, LeastOf
    <3>3. PICK v \in found : m = 5 - v
      BY <3>2
    <3>4. \A w \in found : w <= v
      <4>1. \A w \in found : m <= 5 - w
        BY <3>2
      <4> HIDE DEF found, short
      <4> QED
        BY <2>1, <3>3, <4>1
    <3>5. \E w \in found : \A c \in Focus!Conflicts(s) : c.severity <= w
      BY <3>4
    <3>6. Focus!Severity(s) = CHOOSE w \in found : \A c \in Focus!Conflicts(s) : c.severity <= w
      BY <2>3 DEF Focus!Severity
    <3>7. Focus!Severity(s) \in found
      <4> HIDE DEF found
      <4> QED
        BY <3>5, <3>6, Zenon
    <3> QED
      BY <2>1, <3>7
  <2> QED
    BY <2>2, <2>3
<1>3. ASSUME NEW s PROVE Focus!Priority(s) \in Int
  BY DEF Focus!Priority
<1>4. /\ \A s \in Keys \cup Remembered : s \in DOMAIN IdOrder /\ IdOrder[s] \in Int
      /\ \A i, j \in DOMAIN IdOrder : IdOrder[i] = IdOrder[j] => i = j
  BY HeadAssumption DEF Focus!WellFormed
<1> QED
  BY <1>1, <1>2, <1>3, <1>4

LEMMA CollisionsAreFew ==
  ASSUME HeadRead PROVE IsFiniteSet(Focus!Collisions) /\ Cardinality(Focus!Collisions) <= MaxCollisions
<1> DEFINE S == Focus!Detected
           before == [x \in S |-> {y \in S : Focus!Ranked(y, x)}]
           L == {x \in S : Cardinality(before[x]) < MaxCollisions}
<1>1. IsFiniteSet(S)
  <2>1. IsFiniteSet(Keys) /\ IsFiniteSet(Remembered)
    BY HeadAssumption, SameFinite DEF Focus!WellFormed
  <2>2. IsFiniteSet(Keys \cup Remembered)
    BY <2>1, FS_Union
  <2> QED
    BY <2>2, RanksAreTotal, FS_Subset
<1>2. Focus!Collisions = L
  <2>1. Focus!Collisions = {x \in S : Focus!Cardinality({y \in S : Focus!Ranked(y, x)}) < MaxCollisions}
    BY Zenon DEF Focus!Collisions, Focus!Leading
  <2>2. \A x \in S : Focus!Cardinality({y \in S : Focus!Ranked(y, x)}) = Cardinality(before[x])
    BY SameFinite, Zenon
  <2> QED
    BY <2>1, <2>2, Zenon
<1>3. ASSUME NEW x \in S PROVE before[x] = {y \in S : Focus!Ranked(y, x)}
  OBVIOUS
<1>4. /\ \A x \in S : ~ Focus!Ranked(x, x)
      /\ \A x, y, z \in S : Focus!Ranked(x, y) /\ Focus!Ranked(y, z) => Focus!Ranked(x, z)
      /\ \A x, y \in S : x # y => Focus!Ranked(x, y) \/ Focus!Ranked(y, x)
  <2> HIDE DEF S
  <2>1. /\ \A s \in S : Focus!Priority(s) \in Int /\ Focus!Severity(s) \in Int /\ IdOrder[s] \in Int
        /\ \A s, t \in S : IdOrder[s] = IdOrder[t] => s = t
    BY RanksAreTotal DEF S
  <2> QED
    BY <2>1 DEF Focus!Ranked
<1> HIDE DEF S, before
<1>5. /\ \A x \in S : before[x] \subseteq S /\ x \notin before[x]
      /\ \A x, y \in S : x # y => x \in before[y] \/ y \in before[x]
      /\ \A x, y \in S : x \in before[y] => before[x] \subseteq before[y]
  BY <1>3, <1>4
<1>6. MaxCollisions \in Nat
  BY HeadAssumption DEF Focus!WellFormed
<1>7. IsFiniteSet(L) /\ Cardinality(L) <= MaxCollisions
  BY <1>1, <1>5, <1>6, LeadersAreFew
<1> QED
  BY <1>2, <1>7

\* The briefing is a function of what was read.
LEMMA BriefingStays ==
  ASSUME UNCHANGED <<picture, reported, recalled>>
  PROVE  /\ Focus!Collisions' = Focus!Collisions
         /\ Focus!Briefing(Focus!Collisions)' = Focus!Briefing(Focus!Collisions)
BY SMTT(30) DEF
       Focus!Collisions, Focus!Detected, Focus!Anchors, Focus!Filed, Focus!Bearing, Focus!Leading, Focus!Ranked,
       Focus!Priority, Focus!Severity, Focus!Conflicts, Focus!Asking,
       Focus!Briefing, Focus!Loudest, Focus!Pointers, Focus!Standing, Focus!FactsOf, Focus!Urgent, Focus!Holds,
       Focus!MayAct, Focus!Interest, Focus!KindOrder, Focus!Pointer, Focus!LessUrgent

-----------------------------------------------------------------------------
LEMMA HeadBegins == ASSUME Focus!Init PROVE DriverOK /\ HeadInv
<1>1. /\ at = "gather" /\ stop = None /\ steps = 0 /\ ceiling \in Nat \ {0} /\ ~ late
      /\ picture \in Pictures /\ phase = "new" /\ recalled = {} /\ collisions = {} /\ selected = {}
  BY DEF Focus!Init, Focus!Begins
<1>2. DriverOK
  <2>1. late \in BOOLEAN
    BY Zenon DEF Focus!Init, Focus!Begins
  <2> QED
    BY <1>1, <2>1 DEF DriverOK
<1> QED
  BY <1>1, <1>2 DEF HeadInv, HeadRead, HeadEnds, Focus!Routed, Focus!NextNode, Focus!Exhausted, Focus!MaxIterations

LEMMA HeadKeeps == ASSUME DriverOK, HeadInv, Focus!Next PROVE HeadInv'
<1>0. ASSUME at' = Focus!Routed(Focus!NextNode)' PROVE at' # "over"
  BY <1>0 DEF Focus!Routed, Focus!NextNode, Focus!STOP
<1>1. CASE Focus!Gather
  <2>1. stop = None /\ phase = "new"
    BY <1>1, HeadAt DEF Focus!Gather, Focus!Charge, Focus!NextNode
  <2> QED
    BY <1>0, <1>1, <2>1 DEF Focus!Gather, Focus!Goes, HeadInv, HeadRead, HeadEnds
<1>2. CASE Focus!Recall
  <2>1. stop = None /\ phase = "gathered"
    BY <1>2, HeadAt DEF Focus!Recall, Focus!Charge, Focus!NextNode
  <2> QED
    BY <1>0, <1>2, <2>1 DEF Focus!Recall, Focus!Goes, HeadInv, HeadRead, HeadEnds
<1>3. CASE Focus!Collide
  <2>1. stop = None /\ phase = "recalled"
    BY <1>3, HeadAt DEF Focus!Collide, Focus!Charge, Focus!NextNode
  <2>2. UNCHANGED <<picture, reported, recalled>> /\ collisions' = Focus!Collisions
    BY <1>3 DEF Focus!Collide, Focus!Goes
  <2>3. collisions' = Focus!Collisions'
    BY <2>2, BriefingStays
  <2> QED
    BY <1>0, <1>3, <2>1, <2>3 DEF Focus!Collide, Focus!Goes, HeadInv, HeadRead, HeadEnds
<1>4. CASE Focus!Select
  <2>1. stop = None /\ phase = "collided"
    BY <1>4, HeadAt DEF Focus!Select, Focus!Charge, Focus!NextNode, HeadInv, HeadRead
  <2>2. /\ UNCHANGED <<picture, reported, recalled, phase, collisions, stop>> /\ selected' \subseteq collisions
        /\ at' = Focus!Routed(Focus!NextNode)'
    BY <1>4 DEF Focus!Select, Focus!Goes, HeadInv, HeadRead
  <2>3. Focus!Collisions' = Focus!Collisions
    BY <2>2, BriefingStays
  <2> QED
    BY <1>0, <2>1, <2>2, <2>3 DEF HeadInv, HeadRead, HeadEnds
<1>5. CASE Focus!Close
  <2>1. stop = None /\ Focus!NextNode = "close"
    BY <1>5, HeadAt DEF Focus!Close, Focus!Charge
  <2>2. phase = "collided" /\ (collisions \subseteq selected \/ ~ Focus!Cardinality(selected) < MaxCollisions)
    BY <2>1 DEF Focus!NextNode, Focus!SelectsOn, HeadInv, HeadRead
  <2>3. selected = collisions
    <3>1. /\ selected \subseteq collisions /\ IsFiniteSet(collisions) /\ Cardinality(collisions) <= MaxCollisions
      BY <2>2, CollisionsAreFew DEF HeadInv, HeadRead
    <3>2. /\ Cardinality(selected) <= Cardinality(collisions)
          /\ Cardinality(selected) = Cardinality(collisions) => selected = collisions
          /\ Cardinality(selected) \in Nat /\ Cardinality(collisions) \in Nat
      BY <3>1, FS_Subset, FS_CardinalityType
    <3>3. MaxCollisions \in Nat
      BY HeadAssumption DEF Focus!WellFormed
    <3>4. Focus!Cardinality(selected) = Cardinality(selected)
      BY SameFinite
    <3>5. CASE collisions \subseteq selected
      BY <3>1, <3>5, Zenon
    <3>6. CASE ~ Cardinality(selected) < MaxCollisions
      BY <3>1, <3>2, <3>3, <3>6
    <3> QED
      BY <2>2, <3>4, <3>5, <3>6
  <2>4. /\ UNCHANGED <<picture, reported, recalled, phase, collisions, selected>> /\ stop' = "CLOSED"
        /\ at' = Focus!Routed(Focus!NextNode)'
    BY <1>5 DEF Focus!Close, Focus!Goes
  <2>5. Focus!Collisions' = Focus!Collisions
    BY <2>4, BriefingStays
  <2> QED
    BY <1>0, <2>2, <2>3, <2>4, <2>5 DEF HeadInv, HeadRead, HeadEnds
<1>6. CASE Focus!Park
  <2>1. stop = None /\ (late \/ steps >= ceiling) /\ steps' = steps + 1 /\ ceiling' = ceiling /\ (late => late')
    BY <1>6, HeadAt, HeadCharged DEF Focus!Park
  <2>2. stop' \in {"OUT_OF_TIME", "OUT_OF_STEPS"}
    BY <1>6, <2>1 DEF Focus!Park, Focus!Parks, Focus!Exhausted, DriverOK
  <2>3. /\ UNCHANGED <<picture, reported, recalled, phase, collisions, selected>>
        /\ at' = Focus!Routed(Focus!NextNode)'
    BY <1>6 DEF Focus!Park, Focus!Goes
  <2>4. Focus!Collisions' = Focus!Collisions
    BY <2>3, BriefingStays
  <2> QED
    BY <1>0, <2>2, <2>3, <2>4 DEF HeadInv, HeadRead, HeadEnds
<1>7. CASE Focus!ComesApart
  <2>1. /\ UNCHANGED <<picture, reported, recalled, phase, collisions, selected>> /\ stop' = "RAISED" /\ at' = STOP
    BY <1>7 DEF Focus!ComesApart, Focus!focusVars, Focus!graphVars, Focus!STOP, STOP
  <2>2. Focus!Collisions' = Focus!Collisions
    BY <2>1, BriefingStays
  <2>3. at' = Focus!Routed(Focus!NextNode)'
    BY <2>1 DEF Focus!Routed, Focus!STOP, STOP
  <2> QED
    BY <2>1, <2>2, <2>3 DEF HeadInv, HeadRead, HeadEnds, STOP
<1>8. CASE Focus!Record
  <2>1. stop # None
    BY <1>8, HeadAt DEF Focus!Record, Focus!STOP, STOP
  <2>2. /\ UNCHANGED <<picture, reported, recalled, phase, collisions, selected, stop>> /\ at' = "over"
        /\ briefing' = Focus!Briefing(IF stop = "CLOSED" THEN selected ELSE Focus!Collisions) /\ threads' = recalled
    BY <1>8, <2>1 DEF Focus!Record, Focus!graphVars, Focus!Composed, Focus!Outcome
  <2>3. briefing' = Focus!Briefing(Focus!Collisions)
    BY <2>2 DEF HeadInv, HeadRead, HeadEnds
  <2>4. Focus!Collisions' = Focus!Collisions /\ Focus!Briefing(Focus!Collisions)' = Focus!Briefing(Focus!Collisions)
    BY <2>2, BriefingStays
  <2> QED
    BY <2>2, <2>3, <2>4 DEF HeadInv, HeadRead, HeadEnds
<1>9. CASE Focus!LogRefuses
  <2>1. /\ UNCHANGED <<picture, reported, recalled, phase, collisions, selected, stop>> /\ at' = "failed"
    BY <1>9 DEF Focus!LogRefuses, Focus!PollRaises, Focus!focusVars, Focus!graphVars
  <2>2. Focus!Collisions' = Focus!Collisions
    BY <2>1, BriefingStays
  <2> QED
    BY <2>1, <2>2 DEF HeadInv, HeadRead, HeadEnds
<1>10. CASE Focus!NextPass
  <2>1. /\ at' = "gather" /\ stop' = None /\ steps' = 0 /\ ceiling' = ceiling /\ ~ late' /\ picture' = picture
        /\ phase' = "new" /\ recalled' = {} /\ collisions' = {} /\ selected' = {}
    BY <1>10 DEF Focus!NextPass, Focus!BeginsAgain
  <2>2. ceiling \in Nat \ {0}
    BY DEF DriverOK
  <2>3. at' = Focus!Routed(Focus!NextNode)'
    BY <2>1, <2>2 DEF Focus!Routed, Focus!NextNode, Focus!Exhausted, Focus!MaxIterations
  <2> QED
    BY <2>1, <2>3 DEF HeadInv, HeadRead, HeadEnds
<1> QED
  BY <1>1, <1>2, <1>3, <1>4, <1>5, <1>6, <1>7, <1>8, <1>9, <1>10 DEF Focus!Next

LEMMA HeadIdle == ASSUME HeadInv, UNCHANGED vars PROVE HeadInv'
<1>1. UNCHANGED <<at, stop, steps, ceiling, late, threads, headVars>>
  BY DEF vars, driverVars, budgetVars
<1>2. Focus!Routed(Focus!NextNode)' = Focus!Routed(Focus!NextNode)
  BY <1>1 DEF headVars, Focus!Routed, Focus!NextNode, Focus!Exhausted, Focus!MaxIterations, Focus!SelectsOn
<1>3. Focus!Collisions' = Focus!Collisions /\ Focus!Briefing(Focus!Collisions)' = Focus!Briefing(Focus!Collisions)
  BY <1>1, BriefingStays DEF headVars
<1> QED
  BY <1>1, <1>2, <1>3 DEF headVars, HeadInv, HeadRead, HeadEnds
-----------------------------------------------------------------------------
\* What was named and how far its examination is: of what was taken up, one
\* may be under way, and the others were written or let go.
ReportTried ==
  /\ named = None \/ named \subseteq Remembered
  /\ latest = None \/ latest \subseteq Remembered
  /\ IF named = None THEN tried = {} ELSE tried \subseteq named
  /\ at \notin {"examining", "failed"} => examining = None
  /\ at = "examining" => stop = None /\ named # None /\ examining \in named
  /\ at # "failed" /\ banked => tried = examined \cup letGo \cup (IF at = "examining" THEN {examining} ELSE {})

\* The bank and the report agree on what is answered.
ReportBank ==
  /\ bank \in [Remembered -> {"OPEN", "ABANDONED", "ours", "theirs"}]
  /\ at # "failed" =>
       \A q \in Remembered :
         /\ q \in resolved => bank[q] \in {"ours", "theirs"}
         /\ bank[q] = "ours" => q \in resolved

\* How the synthesis ended, and that it has something to say then.
ReportEnds ==
  /\ stop # "UNRESOLVED"
  /\ stop = None <=> narrative = None
  /\ stop = "CLOSED" => named # None /\ named \subseteq tried
  /\ at = "failed" => stop = None

ReportInv ==
  /\ at \notin {"over", "failed", "examining"} => at = Report!Routed(Report!NextNode)
  /\ ReportTried /\ ReportBank /\ ReportEnds

LEMMA ReportAt ==
  ASSUME DriverOK, ReportInv
  PROVE  /\ at \in {"assemble", "focus", "answer", "draft"} =>
              stop = None /\ steps < ceiling /\ ~ late /\ at = Report!NextNode
         /\ at = "park" => stop = None /\ (late \/ steps >= ceiling)
         /\ at = STOP => stop # None
         /\ at \in {"assemble", "focus", "answer", "examining", "draft", "park", STOP, "over", "failed"}
BY DEF DriverOK, ReportInv, ReportEnds, Report!Routed, Report!NextNode, Report!Exhausted, Report!MaxIterations,
       Report!STOP, STOP

LEMMA ReportCharged ==
  ASSUME DriverOK, NEW node, Report!Charge(node)
  PROVE  /\ at = node /\ steps' = steps + 1 /\ ceiling' = ceiling /\ threads' = threads
         /\ late' \in BOOLEAN /\ (late => late')
<1>1. late \in BOOLEAN /\ late' \in {late, TRUE}
  BY DEF DriverOK, Report!Charge
<1>2. late' \in BOOLEAN /\ (late => late')
  BY <1>1, Zenon
<1> QED
  BY <1>2 DEF Report!Charge

\* Where the router leads.
LEMMA ReportGoes ==
  ASSUME Report!Goes
  PROVE  at' \in {"assemble", "focus", "answer", "draft", "park", STOP}
BY DEF Report!Goes, Report!Routed, Report!NextNode, Report!STOP, STOP

LEMMA ReportDriver == ASSUME DriverOK, ReportInv, Report!Next PROVE DriverOK'
<1>1. ASSUME NEW node \in {"assemble", "focus", "answer", "draft"}, Report!Charge(node),
             stop' \in {stop, "CLOSED"}, at' # "over"
      PROVE  DriverOK'
  <2>1. at = node /\ steps' = steps + 1 /\ late' \in BOOLEAN /\ ceiling' = ceiling
    BY <1>1, ReportCharged
  <2>2. steps < ceiling /\ stop = None
    BY <2>1, ReportAt
  <2> QED
    BY <1>1, <2>1, <2>2 DEF DriverOK
<1>2. CASE Report!Assemble
  BY <1>1, <1>2, ReportGoes DEF Report!Assemble, STOP
<1>3. CASE Report!ReadBriefing
  BY <1>1, <1>3, ReportGoes DEF Report!ReadBriefing, STOP
<1>4. CASE Report!Answer
  <2>1. at' # "over"
    BY <1>4, ReportGoes DEF Report!Answer, STOP
  <2> QED
    BY <1>1, <1>4, <2>1 DEF Report!Answer
<1>5. CASE Report!Draft
  BY <1>1, <1>5, ReportGoes DEF Report!Draft, STOP
<1>6. CASE Report!Park
  <2>1. at = "park" /\ steps' = steps + 1 /\ late' \in BOOLEAN /\ ceiling' = ceiling
    BY <1>6, ReportCharged DEF Report!Park
  <2>2. stop' \in Stops
    BY <1>6 DEF Report!Park, Report!Exhausted
  <2>3. at' # "over"
    BY <1>6, ReportGoes DEF Report!Park, STOP
  <2> QED
    BY <2>1, <2>2, <2>3 DEF DriverOK
<1>7. CASE Report!Resolve \/ Report!RuleOut \/ Report!Refused
  <2>1. UNCHANGED <<stop, steps, ceiling, late>> /\ Report!Goes
    BY <1>7 DEF Report!Resolve, Report!RuleOut, Report!Refused, Report!Written, Report!budgetVars
  <2> QED
    BY <2>1, ReportGoes DEF DriverOK, STOP
<1>8. CASE Report!Report \/ Report!Breaks
  BY <1>8, ReportAt DEF DriverOK, Report!Report, Report!Breaks, Report!budgetVars, Report!STOP, STOP
<1>9. CASE Report!Others \/ Report!LogGrows
  BY <1>9 DEF DriverOK, Report!Others, Report!LogGrows, Report!driverVars, Report!budgetVars
<1>10. CASE Report!NextPass
  <2>1. at' = "assemble" /\ stop' = None /\ steps' = 0 /\ ceiling' = ceiling
    BY <1>10 DEF Report!NextPass, Report!BeginsAgain
  <2>2. late' \in BOOLEAN
    BY <1>10, Zenon DEF Report!NextPass, Report!BeginsAgain
  <2> QED
    BY <2>1, <2>2 DEF DriverOK
<1> QED
  BY <1>2, <1>3, <1>4, <1>5, <1>6, <1>7, <1>8, <1>9, <1>10 DEF Report!Next

-----------------------------------------------------------------------------
LEMMA ReportBegins == ASSUME Report!Init PROVE DriverOK /\ ReportInv
<1>1. /\ at = "assemble" /\ stop = None /\ steps = 0 /\ ceiling \in Nat \ {0} /\ ~ late
      /\ evidence = None /\ named = None /\ tried = {} /\ examining = None /\ resolved = {}
      /\ examined = {} /\ letGo = {} /\ narrative = None /\ bank = [q \in Remembered |-> "OPEN"]
      /\ latest = None \/ latest \subseteq Remembered
  BY DEF Report!Init, Report!Begins, Report!Fresh
<1>2. DriverOK
  <2>1. late \in BOOLEAN
    BY Zenon DEF Report!Init, Report!Begins
  <2> QED
    BY <1>1, <2>1 DEF DriverOK
<1> QED
  BY <1>1, <1>2
     DEF ReportInv, ReportTried, ReportBank, ReportEnds, Report!Routed, Report!NextNode, Report!Exhausted, Report!MaxIterations

\* Where the bank stays as it is, it agrees as it did.
LEMMA BankAgrees ==
  ASSUME ReportBank, UNCHANGED <<bank, resolved>>, at # "failed"
  PROVE  ReportBank'
BY DEF ReportBank

LEMMA AnswerKeeps == ASSUME DriverOK, ReportInv, Report!Answer PROVE ReportInv'
<1>1. at = "answer" /\ stop = None /\ at = Report!NextNode
  BY ReportAt DEF Report!Answer, Report!Charge
<1>2. named # None /\ named \subseteq Remembered /\ Report!Pending = named \ tried /\ tried \subseteq named
  BY <1>1, ReportAssumption DEF Report!NextNode, Report!Pending, ReportInv, ReportTried
<1>3. examining = None /\ (latest = None \/ latest \subseteq Remembered)
  BY <1>1 DEF ReportInv, ReportTried
<1>4. UNCHANGED <<stop, banked, latest, bank, named, resolved, examined, narrative>>
  BY DEF Report!Answer
<1>5. ReportBank'
  BY <1>1, <1>4, BankAgrees DEF ReportInv
<1>6. ReportEnds' \/ at' = "failed"
  BY <1>1, <1>4 DEF ReportInv, ReportEnds
<1>7. CASE ~ banked /\ tried' = named /\ UNCHANGED <<examining, letGo>> /\ Report!Goes
  <2>1. ReportTried'
    BY <1>2, <1>3, <1>4, <1>7, ReportGoes DEF ReportTried, STOP
  <2> QED
    BY <1>5, <1>6, <1>7, <2>1, ReportGoes DEF ReportInv, Report!Goes, STOP
<1>8. CASE banked /\ \E q \in Report!Pending :
             /\ tried' = tried \cup {q}
             /\ IF Report!WorthExamining(q)
                  THEN examining' = q /\ at' = "examining" /\ UNCHANGED letGo
                  ELSE letGo' = letGo \cup {q} /\ UNCHANGED examining /\ Report!Goes
  <2>1. PICK q \in Report!Pending :
             /\ tried' = tried \cup {q}
             /\ \/ examining' = q /\ at' = "examining" /\ UNCHANGED letGo
                \/ letGo' = letGo \cup {q} /\ UNCHANGED examining /\ Report!Goes
    BY <1>8
  <2>2. tried = examined \cup letGo
    BY <1>1, <1>8 DEF ReportInv, ReportTried
  <2>3. CASE examining' = q /\ at' = "examining" /\ UNCHANGED letGo
    <3>1. ReportTried'
      BY <1>1, <1>2, <1>3, <1>4, <2>1, <2>2, <2>3 DEF ReportTried
    <3> QED
      BY <1>5, <1>6, <2>3, <3>1 DEF ReportInv
  <2>4. CASE letGo' = letGo \cup {q} /\ UNCHANGED examining /\ Report!Goes
    <3>1. ReportTried'
      BY <1>1, <1>2, <1>3, <1>4, <2>1, <2>2, <2>4, ReportGoes DEF ReportTried, STOP
    <3> QED
      BY <1>5, <1>6, <2>4, <3>1, ReportGoes DEF ReportInv, Report!Goes, STOP
  <2> QED
    BY <2>1, <2>3, <2>4
<1> QED
  BY <1>7, <1>8 DEF Report!Answer

\* What a write leaves is named, written, and under way no more.
LEMMA WrittenKeeps ==
  ASSUME DriverOK, ReportInv, at = "examining", ReportBank', Report!Goes, examining' = None,
         \/ examined' = examined \cup {examining} /\ UNCHANGED letGo
         \/ letGo' = letGo \cup {examining} /\ UNCHANGED examined,
         UNCHANGED <<stop, banked, latest, named, tried, narrative>>
  PROVE  ReportInv'
<1>1. at' \in {"assemble", "focus", "answer", "draft", "park", STOP}
  BY ReportGoes
<1>2. ReportTried'
  BY <1>1 DEF ReportInv, ReportTried, STOP
<1>3. ReportEnds'
  BY <1>1 DEF ReportInv, ReportTried, ReportEnds, STOP
<1> QED
  BY <1>2, <1>3 DEF ReportInv, Report!Goes

LEMMA ReportKeeps == ASSUME DriverOK, ReportInv, Report!Next PROVE ReportInv'
<1>1. CASE Report!Assemble
  <2>1. stop = None /\ at = "assemble"
    BY <1>1, ReportAt DEF Report!Assemble, Report!Charge
  <2>2. /\ UNCHANGED <<stop, banked, latest, bank, named, tried, examining, resolved, examined, letGo, narrative>>
        /\ Report!Goes
    BY <1>1 DEF Report!Assemble
  <2>3. at' \in {"assemble", "focus", "answer", "draft", "park", STOP}
    BY <2>2, ReportGoes
  <2>4. ReportBank' /\ ReportTried' /\ ReportEnds'
    BY <2>1, <2>2, <2>3, BankAgrees DEF ReportInv, ReportTried, ReportEnds, STOP
  <2> QED
    BY <2>2, <2>4 DEF ReportInv, Report!Goes
<1>2. CASE Report!ReadBriefing
  <2>1. stop = None /\ at = "focus" /\ named = None
    BY <1>2, ReportAt DEF Report!ReadBriefing, Report!Charge, Report!NextNode, Report!STOP
  <2>2. /\ UNCHANGED <<stop, banked, latest, bank, tried, examining, resolved, examined, letGo, narrative>>
        /\ Report!Goes /\ named' \in {IF latest = None THEN {} ELSE latest, {}}
    BY <1>2 DEF Report!ReadBriefing
  <2>3. at' \in {"assemble", "focus", "answer", "draft", "park", STOP}
    BY <2>2, ReportGoes
  <2>4. ReportBank' /\ ReportEnds'
    BY <2>1, <2>2, <2>3, BankAgrees DEF ReportInv, ReportEnds, STOP
  <2>5. ReportTried'
    BY <2>1, <2>2, <2>3 DEF ReportInv, ReportTried, STOP
  <2> QED
    BY <2>2, <2>4, <2>5 DEF ReportInv, Report!Goes
<1>3. CASE Report!Resolve
  <2>1. at = "examining" /\ bank' = [bank EXCEPT ![examining] = "ours"] /\ resolved' = resolved \cup {examining}
    BY <1>3 DEF Report!Resolve, Report!Resolved
  <2>2. at' # "failed" /\ Report!Goes
    BY <1>3, ReportGoes DEF Report!Resolve, Report!Written, STOP
  <2>3. ReportBank'
    BY <2>1, <2>2 DEF ReportInv, ReportBank
  <2> QED
    BY <1>3, <2>1, <2>3, WrittenKeeps DEF Report!Resolve, Report!Written
<1>4. CASE Report!RuleOut
  <2>1. /\ at = "examining" /\ UNCHANGED resolved
        /\ bank' = bank \/ (bank[examining] = "ABANDONED" /\ bank' = [bank EXCEPT ![examining] = "OPEN"])
    BY <1>4 DEF Report!RuleOut, Report!RuledOut
  <2>2. at' # "failed" /\ Report!Goes
    BY <1>4, ReportGoes DEF Report!RuleOut, Report!Written, STOP
  <2>3. ReportBank'
    BY <2>1, <2>2 DEF ReportInv, ReportBank
  <2> QED
    BY <1>4, <2>1, <2>3, WrittenKeeps DEF Report!RuleOut, Report!Written
<1>5. CASE Report!Refused
  <2>1. ReportBank'
    BY <1>5, BankAgrees DEF ReportInv, Report!Refused
  <2> QED
    BY <1>5, <2>1, WrittenKeeps DEF Report!Refused
<1>6. CASE Report!Draft
  <2>1. stop = None /\ at = "draft" /\ Report!NextNode = "draft"
    BY <1>6, ReportAt DEF Report!Draft, Report!Charge
  <2>2. named # None /\ named \subseteq tried
    BY <2>1 DEF Report!NextNode, Report!Pending
  <2>3. /\ UNCHANGED <<banked, latest, bank, named, tried, examining, resolved, examined, letGo>>
        /\ Report!Goes /\ narrative' \in Report!Narratives /\ stop' = "CLOSED"
    BY <1>6 DEF Report!Draft
  <2>4. at' \in {"assemble", "focus", "answer", "draft", "park", STOP}
    BY <2>3, ReportGoes
  <2>5. ReportBank' /\ ReportTried'
    BY <2>1, <2>3, <2>4, BankAgrees DEF ReportInv, ReportTried, STOP
  <2>6. ReportEnds'
    BY <2>2, <2>3, <2>4, ReportAssumption DEF ReportEnds, STOP, Report!WellFormed, Report!Narratives
  <2> QED
    BY <2>3, <2>5, <2>6 DEF ReportInv, Report!Goes
<1>7. CASE Report!Park
  <2>1. stop = None /\ at = "park" /\ (late \/ steps >= ceiling) /\ steps' = steps + 1 /\ ceiling' = ceiling
        /\ (late => late')
    BY <1>7, ReportAt, ReportCharged DEF Report!Park
  <2>2. stop' \in {"OUT_OF_TIME", "OUT_OF_STEPS"} /\ narrative' = "deterministic"
    BY <1>7, <2>1 DEF Report!Park, Report!Exhausted, DriverOK
  <2>3. UNCHANGED <<banked, latest, bank, named, tried, examining, resolved, examined, letGo>> /\ Report!Goes
    BY <1>7 DEF Report!Park
  <2>4. at' \in {"assemble", "focus", "answer", "draft", "park", STOP}
    BY <2>3, ReportGoes
  <2>5. ReportBank' /\ ReportTried'
    BY <2>1, <2>3, <2>4, BankAgrees DEF ReportInv, ReportTried, STOP
  <2>6. ReportEnds'
    BY <2>2, <2>4, ReportAssumption DEF ReportEnds, STOP, Report!WellFormed, Report!Narratives
  <2> QED
    BY <2>3, <2>5, <2>6 DEF ReportInv, Report!Goes
<1>8. CASE Report!Report
  <2>1. at = STOP /\ stop # None /\ at' = "over"
        /\ UNCHANGED <<stop, banked, latest, bank, named, tried, examining, resolved, examined, letGo, narrative>>
    BY <1>8, ReportAt DEF Report!Report, Report!reportVars, Report!graphVars, Report!STOP, STOP
  <2> QED
    BY <2>1, BankAgrees DEF ReportInv, ReportTried, ReportEnds, STOP
<1>9. CASE Report!Breaks
  <2>1. at \in {"assemble", "answer", "examining"} /\ at' = "failed" /\ stop = None
        /\ UNCHANGED <<stop, banked, latest, named, tried, examining, resolved, examined, letGo, narrative>>
    BY <1>9, ReportAt DEF Report!Breaks, Report!graphVars, ReportInv, ReportTried
  <2>2. bank' = bank \/ bank' = [bank EXCEPT ![examining] = "ours"] \/ bank' = [bank EXCEPT ![examining] = "OPEN"]
    BY <1>9 DEF Report!Breaks, Report!Resolved, Report!RuledOut
  <2>3. ReportBank'
    BY <2>1, <2>2 DEF ReportInv, ReportBank
  <2> QED
    BY <2>1, <2>3 DEF ReportInv, ReportTried, ReportEnds
<1>10. CASE Report!Others
  <2>1. UNCHANGED <<at, stop, steps, ceiling, late, banked, latest, named, tried, examining, resolved, examined, letGo, evidence, narrative>>
    BY <1>10 DEF Report!Others, Report!driverVars, Report!budgetVars, Report!graphVars
  <2>2. \E q \in Remembered :
          \/ bank' = [bank EXCEPT ![q] = "theirs"]
          \/ bank[q] = "OPEN" /\ bank' = [bank EXCEPT ![q] = "ABANDONED"]
          \/ bank[q] = "ABANDONED" /\ bank' = [bank EXCEPT ![q] = "OPEN"]
    BY <1>10 DEF Report!Others
  <2>3. ReportBank'
    BY <2>1, <2>2 DEF ReportInv, ReportBank
  <2>4. Report!Routed(Report!NextNode)' = Report!Routed(Report!NextNode)
    BY <2>1 DEF Report!Routed, Report!NextNode, Report!Pending, Report!Exhausted, Report!MaxIterations
  <2> QED
    BY <2>1, <2>3, <2>4 DEF ReportInv, ReportTried, ReportEnds
<1>11. CASE Report!LogGrows
  <2>1. UNCHANGED <<at, stop, steps, ceiling, late, banked, bank, named, tried, examining, resolved, examined, letGo, evidence, narrative>>
    BY <1>11 DEF Report!LogGrows, Report!driverVars, Report!budgetVars, Report!graphVars
  <2>2. Report!Routed(Report!NextNode)' = Report!Routed(Report!NextNode)
    BY <2>1 DEF Report!Routed, Report!NextNode, Report!Pending, Report!Exhausted, Report!MaxIterations
  <2>3. latest' = latest \/ latest' \subseteq Remembered
    BY <1>11 DEF Report!LogGrows
  <2> QED
    BY <2>1, <2>2, <2>3 DEF ReportInv, ReportTried, ReportBank, ReportEnds
<1>12. CASE Report!NextPass
  <2>1. /\ at' = "assemble" /\ stop' = None /\ steps' = 0 /\ ceiling' = ceiling /\ ~ late'
        /\ evidence' = None /\ named' = None /\ tried' = {} /\ examining' = None /\ resolved' = {}
        /\ examined' = {} /\ letGo' = {} /\ narrative' = None
        /\ bank' = [q \in Remembered |-> IF bank[q] = "ours" THEN "theirs" ELSE bank[q]]
        /\ latest' = None \/ latest' \subseteq Remembered
    BY <1>12 DEF Report!NextPass, Report!BeginsAgain
  <2>2. ReportBank'
    BY <2>1 DEF ReportInv, ReportBank
  <2>3. at' = Report!Routed(Report!NextNode)'
    BY <2>1 DEF DriverOK, Report!Routed, Report!NextNode, Report!Exhausted, Report!MaxIterations
  <2> QED
    BY <2>1, <2>2, <2>3 DEF ReportInv, ReportTried, ReportEnds
<1> QED
  BY <1>1, <1>2, <1>3, <1>4, <1>5, <1>6, <1>7, <1>8, <1>9, <1>10, <1>11, <1>12, AnswerKeeps DEF Report!Next

LEMMA ReportIdle == ASSUME ReportInv, UNCHANGED vars PROVE ReportInv'
<1>1. UNCHANGED <<at, stop, steps, ceiling, late, reportVars>>
  BY DEF vars, driverVars, budgetVars
<1>2. Report!Routed(Report!NextNode)' = Report!Routed(Report!NextNode)
  BY <1>1 DEF reportVars, Report!Routed, Report!NextNode, Report!Pending, Report!Exhausted, Report!MaxIterations
<1> QED
  BY <1>1, <1>2 DEF reportVars, ReportInv, ReportTried, ReportBank, ReportEnds
-----------------------------------------------------------------------------
\* The passes of one agent: its own invariant holds.
GraphInv ==
  /\ DriverOK /\ graph \in {"hazard", "records", "head", "report"}
  /\ graph = "hazard" => HazardInv
  /\ graph = "records" => RecordsInv
  /\ graph = "head" => HeadInv
  /\ graph = "report" => ReportInv

LEMMA GraphBegins == Init => GraphInv
BY HazardBegins, RecordsBegins, HeadBegins, ReportBegins DEF Init, GraphInv

LEMMA GraphKeeps == GraphInv /\ [Next]_vars => GraphInv'
<1> SUFFICES ASSUME GraphInv, [Next]_vars PROVE GraphInv'
  OBVIOUS
<1>1. CASE HazardPass
  BY <1>1, HazardDriver, HazardKeeps DEF HazardPass, GraphInv
<1>2. CASE RecordsPass
  BY <1>2, RecordsDriver, RecordsKeeps DEF RecordsPass, GraphInv
<1>3. CASE HeadPass
  BY <1>3, HeadDriver, HeadKeeps DEF HeadPass, GraphInv
<1>4. CASE ReportPass
  BY <1>4, ReportDriver, ReportKeeps DEF ReportPass, GraphInv
<1>5. CASE UNCHANGED vars
  <2>1. DriverOK' /\ graph' = graph
    BY <1>5 DEF vars, driverVars, budgetVars, GraphInv, DriverOK
  <2> QED
    BY <1>5, <2>1, HazardIdle, RecordsIdle, HeadIdle, ReportIdle DEF GraphInv
<1> QED
  BY <1>1, <1>2, <1>3, <1>4, <1>5 DEF Next

LEMMA GraphSafe == Spec => Init /\ [][Next]_vars
BY PTL DEF Spec

LEMMA GraphHolds == Spec => []GraphInv
BY GraphBegins, GraphKeeps, GraphSafe, PTL

-----------------------------------------------------------------------------
\* UNRESOLVED is only said when every registry or feed was tried and every
\* reference still out had its turn, whichever planner picks and wherever the
\* ceilings fall: _park() of graphs/hazard.py and graphs/records.py.
THEOREM UnresolvedIsEarned == Spec => []UnresolvedTriedAll
<1>1. GraphInv => UnresolvedTriedAll
  <2> SUFFICES ASSUME GraphInv, stop = "UNRESOLVED" PROVE UnresolvedTriedAll
    BY DEF UnresolvedTriedAll
  <2>1. CASE graph = "hazard"
    BY <2>1 DEF UnresolvedTriedAll, Watches, GraphInv, HazardInv, HazardEnds
  <2>2. CASE graph = "records"
    BY <2>2 DEF UnresolvedTriedAll, Watches, GraphInv, RecordsInv, RecordsEnds, Records!Chaseable
  <2>3. CASE graph \in {"head", "report"}
    BY <2>3 DEF GraphInv, HeadInv, HeadEnds, ReportInv, ReportEnds
  <2> QED
    BY <2>1, <2>2, <2>3 DEF GraphInv
<1> QED
  BY <1>1, GraphHolds, PTL

\* What is called closed leaves nothing, for every district, archive, picture
\* and bank: the closing nodes of the four graphs.
THEOREM ClosureIsComplete == Spec => []ClosedLeavesNothing
<1>1. GraphInv => ClosedLeavesNothing
  <2> SUFFICES ASSUME GraphInv, stop = "CLOSED" PROVE ClosedLeavesNothing
    BY DEF ClosedLeavesNothing
  <2>1. CASE graph = "hazard"
    <3>1. hWired = hQueried \cup hUnavailable /\ hQueried \cap hUnavailable = {}
      BY <2>1 DEF GraphInv, HazardInv, HazardTried, HazardEnds, Hazard!Untried
    <3>2. SeenSettled
      BY <2>1 DEF GraphInv, HazardInv, HazardEnds
    <3> QED
      BY <2>1, <3>1, <3>2 DEF ClosedLeavesNothing, SeenSettled, Seen
  <2>2. CASE graph = "records"
    BY <2>2 DEF ClosedLeavesNothing, GraphInv, RecordsInv, RecordsTried, RecordsEnds, Records!Untried
  <2>3. CASE graph = "head"
    BY <2>3 DEF ClosedLeavesNothing, GraphInv, HeadInv, HeadRead, HeadEnds
  <2>4. CASE graph = "report"
    <3>1. banked => named = examined \cup letGo
      BY <2>4 DEF GraphInv, ReportInv, ReportTried, ReportEnds
    <3> QED
      BY <2>4, <3>1 DEF ClosedLeavesNothing
  <2> QED
    BY <2>1, <2>2, <2>3, <2>4 DEF GraphInv
<1> QED
  BY <1>1, GraphHolds, PTL

\* A watcher is silent only when it closed, the head briefs on everything it
\* detected, and a report and the bank agree on what is answered, whatever
\* ceiling was reached and whatever other passes write: hazard_watcher.py,
\* records_watcher.py, graphs/interceptor.py and graphs/recorder.py.
THEOREM SilenceMeansClosed == Spec => []SilenceIsClosure
<1>1. GraphInv => SilenceIsClosure
  <2> SUFFICES ASSUME GraphInv, at = "over" PROVE SilenceIsClosure
    BY DEF SilenceIsClosure
  <2>1. stop # None /\ Outcome = stop
    BY DEF GraphInv, DriverOK, Outcome
  <2>2. CASE graph = "hazard"
    BY <2>1, <2>2 DEF SilenceIsClosure, Watches, GraphInv, HazardInv, HazardEnds
  <2>3. CASE graph = "records"
    BY <2>1, <2>3 DEF SilenceIsClosure, Watches, GraphInv, RecordsInv, RecordsEnds
  <2>4. CASE graph = "head"
    BY <2>1, <2>4 DEF SilenceIsClosure, Watches, GraphInv, HeadInv, HeadEnds
  <2>5. CASE graph = "report"
    BY <2>1, <2>5 DEF SilenceIsClosure, Watches, GraphInv, ReportInv, ReportBank, ReportEnds
  <2> QED
    BY <2>2, <2>3, <2>4, <2>5 DEF GraphInv
<1> QED
  BY <1>1, GraphHolds, PTL

-----------------------------------------------------------------------------
\* What a row was bound to is a building of the district, and its street is
\* settled; an identity that is open is not, where everything was screened.
Bound(r, row) == r \in Registries /\ row \in gathered[r] \ filed[r]

RowsBound ==
  /\ \A q \in ambiguities : q.kind = "UNPLACED" => q.building = None /\ q.candidates = Addresses
  /\ \A r \in Registries : \A row \in gathered[r] :
       row = [street |-> row.street, building |-> row.building, name |-> row.name]
  /\ \A r, row : Bound(r, row) =>
       row.building \in Addresses /\ <<"UNPLACED", None, row.street>> \in settled
  /\ hChosen # None => screened = hQueried
  /\ hUnavailable = {} =>
       /\ screened = hQueried => \A q \in ambiguities : Hazard!Key(q) \notin settled
       /\ \A r, q, x, y : Bound(r, x) /\ Bound(q, y) /\ x.street = y.street => x.building = y.building

\* Identities are open under no building where nobody placed a street.
LEMMA UnplacedAre ==
  ASSUME NEW held, NEW q \in Hazard!Detected(held), q.kind = "UNPLACED"
  PROVE  q.building = None /\ q.candidates = Addresses
<1>1. q \in Hazard!Unplaced(held) \/ q \in Hazard!Aliased(held)
  BY DEF Hazard!Detected
<1>2. q \notin Hazard!Aliased(held)
  BY DEF Hazard!Aliased
<1> QED
  BY <1>1, <1>2 DEF Hazard!Unplaced

\* Where no row is bound anew and no identity is opened, the rows stay bound.
LEMMA RowsStay ==
  ASSUME RowsBound, UNCHANGED <<ambiguities, settled, filed, screened>>,
         \A r \in Registries : gathered'[r] = gathered[r] \/ gathered'[r] \subseteq filed[r],
         filed \in Districts,
         hChosen' # None => screened' = hQueried',
         \/ ambiguities = {}
         \/ hUnavailable' = {} => hUnavailable = {} /\ hQueried' = hQueried,
         hUnavailable' = {} => hUnavailable = {}
  PROVE  RowsBound'
<1>1. \A r, row : Bound(r, row)' => Bound(r, row)
  BY DEF Bound
<1>2. \A r \in Registries : \A row \in gathered'[r] :
         row = [street |-> row.street, building |-> row.building, name |-> row.name]
  BY HazardAssumption DEF Hazard!WellFormed, RowsBound
<1>3. \A r, row : Bound(r, row)' => row.building \in Addresses /\ <<"UNPLACED", None, row.street>> \in settled
  BY <1>1 DEF RowsBound
<1>4. hUnavailable' = {} =>
        \A r, q, x, y : Bound(r, x)' /\ Bound(q, y)' /\ x.street = y.street => x.building = y.building
  BY <1>1 DEF RowsBound
<1>5. hUnavailable' = {} /\ screened' = hQueried' => \A q \in ambiguities : Hazard!Key(q) \notin settled
  BY DEF RowsBound
<1> QED
  BY <1>2, <1>3, <1>4, <1>5 DEF RowsBound, Hazard!Key

LEMMA RowsAreRead == ASSUME Hazard!Init PROVE RowsBound
<1>1. /\ hQueried = {} /\ hUnavailable = {} /\ gathered = [r \in Registries |-> {}]
      /\ ambiguities = {} /\ screened = {} /\ hChosen = None
  BY DEF Hazard!Init, Hazard!Blank
<1>2. \A r, row : ~ Bound(r, row)
  BY <1>1 DEF Bound
<1> QED
  BY <1>1, <1>2 DEF RowsBound

LEMMA RowsAreReadAnew == ASSUME Hazard!NextPass PROVE RowsBound'
<1>1. /\ hQueried' = {} /\ hUnavailable' = {} /\ gathered' = [r \in Registries |-> {}]
      /\ ambiguities' = {} /\ screened' = {} /\ hChosen' = None
  BY DEF Hazard!NextPass
<1>2. \A r, row : ~ Bound(r, row)'
  BY <1>1 DEF Bound
<1> QED
  BY <1>1, <1>2 DEF RowsBound

\* A row that an answer binds, and the identity it answers.
LEMMA BindsOpenStreets ==
  ASSUME NEW rows, NEW answer \in [ambiguities -> Hazard!Buildings \cup DOMAIN NormalForm \cup {None}],
         RowsBound, \A q \in ambiguities : answer[q] \in Hazard!Answers(q, rows),
         NEW row, row = [street |-> row.street, building |-> row.building, name |-> row.name]
  PROVE  LET b == Hazard!Bound(row, answer)
             mine == {q \in ambiguities : q.kind = "UNPLACED" /\ q.reference = row.street} IN
         /\ b = [street |-> b.street, building |-> b.building, name |-> b.name] /\ b.street = row.street
         /\ b = row \/
              /\ b.building = answer[CHOOSE q \in mine : TRUE] /\ b.building \in Addresses
              /\ (CHOOSE q \in mine : TRUE) \in mine
              /\ Hazard!Key(CHOOSE q \in mine : TRUE) = <<"UNPLACED", None, row.street>>
<1> DEFINE mine == {q \in ambiguities : q.kind = "UNPLACED" /\ q.reference = row.street}
           o == CHOOSE q \in mine : TRUE
           b == Hazard!Bound(row, answer)
<1>1. b = IF row.building = None /\ mine # {} THEN [row EXCEPT !.building = answer[o]] ELSE row
  BY DEF Hazard!Bound
<1>2. CASE ~ (row.building = None /\ mine # {})
  BY <1>1, <1>2
<1>3. CASE row.building = None /\ mine # {}
  <2>1. o \in mine
    BY <1>3
  <2>2. b = [street |-> row.street, building |-> answer[o], name |-> row.name]
    BY <1>1, <1>3
  <2>3. o.kind = "UNPLACED" /\ o.building = None /\ o.reference = row.street /\ o.candidates = Addresses
        /\ answer[o] \in Hazard!Answers(o, rows)
    BY <2>1 DEF RowsBound
  <2>4. answer[o] \in Addresses \cup {None}
    BY <2>3 DEF Hazard!Answers, Hazard!SettledLocally, Hazard!Grounded
  <2>5. Hazard!Key(o) = <<"UNPLACED", None, row.street>>
    BY <2>3 DEF Hazard!Key
  <2>6. answer[o] = None => b = row
    BY <1>3, <2>2
  <2> HIDE DEF mine, o, b
  <2>7. b.building = answer[o] /\ b.street = row.street /\ b.name = row.name
    BY <2>2
  <2>8. b = [street |-> b.street, building |-> b.building, name |-> b.name]
    BY <2>2, <2>7
  <2>9. b = row \/ b.building \in Addresses
    BY <2>4, <2>6, <2>7
  <2> QED
    BY <2>1, <2>5, <2>7, <2>8, <2>9 DEF mine, o, b
<1> QED
  BY <1>2, <1>3

LEMMA RowsAreBound == ASSUME DriverOK, HazardInv, RowsBound, Hazard!CrossCheck PROVE RowsBound'
<1>1. hChosen \in Hazard!Untried
  <2>1. at = Hazard!NextNode /\ at = "cross_check"
    BY HazardAt DEF Hazard!CrossCheck, Hazard!Charge
  <2> QED
    BY <2>1 DEF Hazard!NextNode, HazardInv, HazardTried
<1>2. PICK rows \in {filed[hChosen], {}},
           answer \in [ambiguities -> Hazard!Buildings \cup DOMAIN NormalForm \cup {None}] :
        /\ \A q \in ambiguities : answer[q] \in Hazard!Answers(q, rows)
        /\ \/ hQueried' = hQueried \cup {hChosen} /\ hUnavailable' = hUnavailable
           \/ hUnavailable' = hUnavailable \cup {hChosen} /\ hQueried' = hQueried
        /\ settled' = settled \cup {Hazard!Key(q) : q \in {x \in ambiguities : answer[x] # None}}
        /\ gathered' = [r \in Registries |->
             {Hazard!Bound(row, answer) : row \in IF r = hChosen THEN rows ELSE gathered[r]}]
  BY DEF Hazard!CrossCheck, Hazard!Read, Hazard!Refused
<1>3. hChosen' = None /\ UNCHANGED <<ambiguities, screened, filed>>
  BY DEF Hazard!CrossCheck, Hazard!Goes
<1>4. hChosen \in Registries /\ hChosen \notin hQueried /\ screened = hQueried /\ filed \in Districts /\ hChosen # None
  BY <1>1, HazardAssumption DEF HazardInv, HazardTried, Hazard!Untried, RowsBound, Hazard!WellFormed
<1> DEFINE before(r) == IF r = hChosen THEN rows ELSE gathered[r]
           mine(row) == {q \in ambiguities : q.kind = "UNPLACED" /\ q.reference = row.street}
           open(row) == CHOOSE q \in mine(row) : TRUE
           Anew(row) == /\ row.building = answer[open(row)] /\ row.building \in Addresses
                        /\ open(row) \in ambiguities
                        /\ Hazard!Key(open(row)) = <<"UNPLACED", None, row.street>>
<1>5. ASSUME NEW r \in Registries, NEW b \in gathered'[r]
      PROVE  /\ b = [street |-> b.street, building |-> b.building, name |-> b.name]
             /\ Bound(r, b)' => Bound(r, b) \/ Anew(b)
  <2>1. PICK row \in before(r) : b = Hazard!Bound(row, answer)
    BY <1>2
  <2>2. row = [street |-> row.street, building |-> row.building, name |-> row.name]
    BY <1>2, <1>4, HazardAssumption DEF Hazard!WellFormed, RowsBound
  <2>3. /\ b = [street |-> b.street, building |-> b.building, name |-> b.name] /\ b.street = row.street
        /\ b = row \/
             /\ b.building = answer[open(row)] /\ b.building \in Addresses
             /\ open(row) \in mine(row)
             /\ Hazard!Key(open(row)) = <<"UNPLACED", None, row.street>>
    BY <1>2, <2>1, <2>2, BindsOpenStreets
  <2>4. mine(b) = mine(row) /\ open(b) = open(row)
    BY <2>3
  <2>5. CASE b = row
    BY <1>2, <1>3, <2>1, <2>3, <2>5 DEF Bound
  <2>6. CASE b # row
    BY <2>3, <2>4, <2>6
  <2> QED
    BY <2>3, <2>5, <2>6
<1>6. \A r, row : Bound(r, row)' => Bound(r, row) \/ Anew(row)
  BY <1>5 DEF Bound
<1>7. \A row : Anew(row) => <<"UNPLACED", None, row.street>> \in settled'
  <2>1. ASSUME NEW row, Anew(row) PROVE <<"UNPLACED", None, row.street>> \in settled'
    <3>1. answer[open(row)] # None /\ open(row) \in ambiguities
      BY <2>1, HazardAssumption DEF Hazard!WellFormed, Hazard!Buildings
    <3>2. \A q \in ambiguities : answer[q] # None => Hazard!Key(q) \in settled'
      BY <1>2, Zenon
    <3> HIDE DEF open
    <3>3. Hazard!Key(open(row)) \in settled'
      BY <3>1, <3>2
    <3> QED
      BY <2>1, <3>3
  <2> QED
    BY <2>1
<1>8. \A r, row : Bound(r, row)' => row.building \in Addresses /\ <<"UNPLACED", None, row.street>> \in settled'
  BY <1>2, <1>6, <1>7 DEF RowsBound
<1>9. ASSUME hUnavailable' = {} PROVE hUnavailable = {} /\ hQueried' # screened'
  BY <1>2, <1>3, <1>4, <1>9
<1>10. ASSUME hUnavailable' = {}, NEW r, NEW q, NEW x, NEW y, Bound(r, x)', Bound(q, y)', x.street = y.street
       PROVE  x.building = y.building
  <2>1. \A row : Anew(row) => <<"UNPLACED", None, row.street>> \notin settled
    BY <1>4, <1>9, <1>10 DEF RowsBound
  <2>2. CASE Anew(x) /\ Anew(y)
    <3>1. mine(x) = mine(y)
      BY <1>10
    <3>2. open(x) = open(y)
      BY <3>1
    <3> QED
      BY <2>2, <3>2
  <2>3. CASE Bound(r, x) /\ Bound(q, y)
    BY <1>9, <1>10, <2>3 DEF RowsBound
  <2>4. CASE Anew(x) /\ Bound(q, y)
    BY <1>10, <2>1, <2>4 DEF RowsBound
  <2>5. CASE Bound(r, x) /\ Anew(y)
    BY <1>10, <2>1, <2>5 DEF RowsBound
  <2> QED
    BY <1>6, <1>10, <2>2, <2>3, <2>4, <2>5
<1>11. \A q \in ambiguities' : q.kind = "UNPLACED" => q.building = None /\ q.candidates = Addresses
  BY <1>3 DEF RowsBound
<1>12. \A r \in Registries : \A row \in gathered'[r] :
         row = [street |-> row.street, building |-> row.building, name |-> row.name]
  BY <1>5
<1> HIDE DEF before, mine, open, Anew
<1> QED
  BY <1>3, <1>8, <1>9, <1>10, <1>11, <1>12 DEF RowsBound

LEMMA RowsStayBound == ASSUME DriverOK, HazardInv, RowsBound, [Hazard!Next]_hazardVars PROVE RowsBound'
<1>0. filed \in Districts
  BY DEF HazardInv, HazardTried
<1>1. CASE Hazard!Survey
  <2>1. hQueried \cup hUnavailable = {} /\ ambiguities = {}
    BY <1>1, HazardAt DEF Hazard!Survey, Hazard!Charge, Hazard!NextNode, HazardInv, HazardTried
  <2>2. hChosen = None
    BY <2>1 DEF HazardInv, HazardTried
  <2>3. UNCHANGED <<ambiguities, settled, filed, screened, hChosen>>
    BY <1>1 DEF Hazard!Survey, Hazard!Goes
  <2>4. \A r \in Registries : gathered'[r] = gathered[r] \/ gathered'[r] \subseteq filed[r]
    BY <1>1 DEF Hazard!Survey, HazardInv, HazardRows
  <2>5. hUnavailable' = {} => hUnavailable = {}
    BY <1>1 DEF Hazard!Survey, Hazard!Read, Hazard!Refused
  <2> QED
    BY <1>0, <2>1, <2>2, <2>3, <2>4, <2>5, RowsStay
<1>2. CASE Hazard!Screen
  <2>1. hChosen = None /\ at = Hazard!NextNode
    BY <1>2, HazardAt DEF Hazard!Screen, Hazard!Charge, Hazard!NextNode
  <2>2. /\ ambiguities' = Hazard!StillOpen /\ screened' = hQueried
        /\ UNCHANGED <<hQueried, hUnavailable, gathered, settled, hChosen, filed>>
    BY <1>2 DEF Hazard!Screen, Hazard!Goes
  <2>3. \A q \in ambiguities' : q.kind = "UNPLACED" => q.building = None /\ q.candidates = Addresses
    BY <2>2, UnplacedAre DEF Hazard!StillOpen
  <2>4. \A q \in ambiguities' : Hazard!Key(q) \notin settled
    BY <2>2 DEF Hazard!StillOpen
  <2>5. \A r, row : Bound(r, row)' <=> Bound(r, row)
    BY <2>2 DEF Bound
  <2> QED
    BY <2>1, <2>2, <2>3, <2>4, <2>5 DEF RowsBound, Hazard!Key
<1>3. CASE Hazard!Plan
  <2>1. hChosen = None /\ screened = hQueried
    BY <1>3, HazardAt DEF Hazard!Plan, Hazard!Charge, Hazard!NextNode
  <2>2. UNCHANGED <<hQueried, hUnavailable, gathered, ambiguities, settled, screened, filed>>
    BY <1>3 DEF Hazard!Plan, Hazard!Goes
  <2> QED
    BY <1>0, <2>1, <2>2, RowsStay
<1>4. CASE Hazard!Sweep
  <2>1. ambiguities = {} /\ hChosen = None
    BY <1>4, HazardAt DEF Hazard!Sweep, Hazard!Charge, Hazard!NextNode
  <2>2. PICK up \in SUBSET Hazard!Untried :
          /\ hUnavailable' = hUnavailable \cup Hazard!RefusedInSweep(up)
          /\ gathered' = [r \in Registries |-> IF r \in up THEN filed[r] ELSE gathered[r]]
    BY <1>4 DEF Hazard!Sweep
  <2>3. UNCHANGED <<ambiguities, settled, filed, screened, hChosen>>
    BY <1>4 DEF Hazard!Sweep, Hazard!Goes
  <2> QED
    BY <1>0, <2>1, <2>2, <2>3, RowsStay
<1>5. CASE Hazard!Park \/ Hazard!AskPeople \/ Hazard!BankRefuses \/ UNCHANGED hazardVars
  <2>1. UNCHANGED <<hQueried, hUnavailable, gathered, ambiguities, settled, screened, hChosen, filed>>
    BY <1>5 DEF Hazard!Park, Hazard!Goes, Hazard!AskPeople, Hazard!BankRefuses, Hazard!graphVars,
       Hazard!hazardVars, hazardVars
  <2> QED
    BY <1>0, <2>1, RowsStay DEF RowsBound
<1> QED
  BY <1>1, <1>2, <1>3, <1>4, <1>5, RowsAreBound, RowsAreReadAnew DEF Hazard!Next

-----------------------------------------------------------------------------
LEMMA RowsHold == Spec => [](graph = "hazard" => RowsBound)
<1>1. Init => (graph = "hazard" => RowsBound)
  BY RowsAreRead DEF Init
<1>2. GraphInv /\ (graph = "hazard" => RowsBound) /\ [Next]_vars => (graph = "hazard" => RowsBound)'
  <2> SUFFICES ASSUME GraphInv, graph = "hazard" => RowsBound, [Next]_vars, graph' = "hazard" PROVE RowsBound'
    OBVIOUS
  <2>1. graph = "hazard" /\ (Hazard!Next \/ UNCHANGED hazardVars)
    BY DEF Next, HazardPass, RecordsPass, HeadPass, ReportPass, vars
  <2> QED
    BY <2>1, RowsStayBound DEF GraphInv
<1> QED
  BY <1>1, <1>2, GraphHolds, GraphSafe, PTL

\* A street nobody placed is bound to one building of the district, in however
\* many registries it is filed, unless a registry refused: _bind_street() of
\* graphs/hazard.py, for every district and whatever the grounding service says.
THEOREM StreetsAreBoundOnce == Spec => []OneBuildingPerStreet
<1>1. GraphInv /\ (graph = "hazard" => RowsBound) => OneBuildingPerStreet
  <2> SUFFICES ASSUME GraphInv, graph = "hazard", RowsBound, NEW street
               PROVE  /\ BoundTo(street) \subseteq Addresses
                      /\ hUnavailable = {} => Cardinality(BoundTo(street)) <= 1
    BY DEF OneBuildingPerStreet
  <2>1. ASSUME NEW b \in BoundTo(street) PROVE \E r, row : Bound(r, row) /\ row.street = street /\ row.building = b
    <3>1. PICK row \in {x \in UNION {gathered[r] \ filed[r] : r \in Registries} : x.street = street} : b = row.building
      BY DEF BoundTo
    <3>2. PICK r \in Registries : row \in gathered[r] \ filed[r]
      BY <3>1
    <3> QED
      BY <3>1, <3>2 DEF Bound
  <2>2. BoundTo(street) \subseteq Addresses
    <3>1. ASSUME NEW b \in BoundTo(street) PROVE b \in Addresses
      <4>1. PICK r, row : Bound(r, row) /\ row.building = b
        BY <2>1
      <4> QED
        BY <4>1 DEF RowsBound
    <3> QED
      BY <3>1
  <2>3. ASSUME hUnavailable = {} PROVE Cardinality(BoundTo(street)) <= 1
    <3>1. \A b, c \in BoundTo(street) : b = c
      BY <2>1, <2>3 DEF RowsBound
    <3>2. CASE BoundTo(street) = {}
      BY <3>2, FS_EmptySet
    <3>3. CASE BoundTo(street) # {}
      <4>1. PICK b : BoundTo(street) = {b}
        BY <3>1, <3>3
      <4>2. Cardinality({b}) = 1
        BY FS_Singleton
      <4> QED
        BY <4>1, <4>2
    <3> QED
      BY <3>2, <3>3
  <2> QED
    BY <2>2, <2>3
<1> QED
  BY <1>1, RowsHold, GraphHolds, PTL

-----------------------------------------------------------------------------
\* What a pass may have spent by now, from what it tried and looked for.
HazardSpent ==
  LET n == Cardinality(hQueried \cup hUnavailable) IN
    IF n = 0 THEN 0 ELSE IF hChosen # None THEN 3 * n
    ELSE IF screened # hQueried THEN 3 * n - 2 ELSE 3 * n - 1

LookedFor == {f \in Filings : f \in Records!Published \/ \E token \in ruledOut : token[2] = f}

RecordsBase == 3 * Cardinality(rQueried \cup rUnavailable) + 2 * Cardinality(LookedFor)

RecordsSpent ==
  IF rChosen # None THEN RecordsBase + 1
  ELSE IF followedThrough # Len(snapshots) THEN RecordsBase - 1
  ELSE IF Records!NextNode = "close" THEN RecordsBase + 1 ELSE RecordsBase

HeadSpent ==
  CASE phase = "new" -> 0 [] phase = "gathered" -> 1 [] phase = "recalled" -> 2
    [] phase = "collided" -> 3 + Cardinality(selected)

ReportSpent == IF evidence = None THEN 0 ELSE IF named = None THEN 1 ELSE 2 + Cardinality(tried)

Spends(spent) ==
  /\ stop = None => steps <= spent
  /\ stop = "OUT_OF_STEPS" => ceiling <= LookupSteps

StepsInv ==
  /\ graph = "hazard" => Spends(HazardSpent)
  /\ graph = "records" => Spends(RecordsSpent)
  /\ graph = "head" => Spends(HeadSpent)
  /\ graph = "report" => Spends(ReportSpent)

\* The size of what was tried of a finite set.
LEMMA CountsOf ==
  ASSUME NEW W, IsFiniteSet(W), NEW T \in SUBSET W
  PROVE  /\ IsFiniteSet(T) /\ Cardinality(T) \in Nat /\ Cardinality(W) \in Nat /\ Cardinality(T) <= Cardinality(W)
         /\ Cardinality(T) = 0 <=> T = {}
         /\ \A x \in W \ T : Cardinality(T \cup {x}) = Cardinality(T) + 1
<1>1. IsFiniteSet(T) /\ Cardinality(T) <= Cardinality(W) /\ Cardinality(T) \in Nat /\ Cardinality(W) \in Nat
  BY FS_Subset, FS_CardinalityType
<1>2. Cardinality(T) = 0 <=> T = {}
  BY <1>1, FS_EmptySet
<1>3. \A x \in W \ T : Cardinality(T \cup {x}) = Cardinality(T) + 1
  BY <1>1, FS_AddElement
<1> QED
  BY <1>1, <1>2, <1>3

\* A park node reached for the steps was reached by a ceiling no higher than
\* what the pass spent.
LEMMA ParksInTime ==
  ASSUME DriverOK, stop = None, NEW spent \in Int, steps <= spent, NEW bound \in Int,
         late \/ steps >= ceiling \/ spent < bound, spent <= bound,
         steps' = steps + 1, ceiling' = ceiling, late => late',
         stop' = "OUT_OF_STEPS" => ~ late' /\ steps' >= ceiling'
  PROVE  stop' = "OUT_OF_STEPS" => ceiling' <= bound
BY DEF DriverOK

LEMMA HazardCounts ==
  ASSUME HazardInv
  PROVE  LET T == hQueried \cup hUnavailable IN
         /\ IsFiniteSet(T) /\ Cardinality(T) \in Nat /\ Cardinality(hWired) \in Nat
         /\ Cardinality(T) <= Cardinality(hWired) /\ (Cardinality(T) = 0 <=> T = {})
         /\ \A r \in Hazard!Untried : Cardinality(T \cup {r}) = Cardinality(T) + 1
<1>1. IsFiniteSet(Registries)
  BY HazardAssumption, SameFinite DEF Hazard!WellFormed
<1>2. IsFiniteSet(hWired) /\ hQueried \cup hUnavailable \in SUBSET hWired
  BY <1>1, FS_Subset DEF HazardInv, HazardTried
<1> QED
  BY <1>2, CountsOf DEF Hazard!Untried

LEMMA HazardSpends ==
  ASSUME DriverOK, HazardInv, graph = "hazard", graph' = graph, Spends(HazardSpent), [Hazard!Next]_<<at, stop, steps, ceiling, hazardVars>>
  PROVE  Spends(HazardSpent)'
<1> DEFINE n == Cardinality(hQueried \cup hUnavailable)
           w == Cardinality(hWired)
<1>0. /\ n \in Nat /\ w \in Nat /\ n <= w /\ (n = 0 <=> hQueried \cup hUnavailable = {})
      /\ \A r \in Hazard!Untried : Cardinality((hQueried \cup hUnavailable) \cup {r}) = n + 1
  BY HazardCounts
<1>1. LookupSteps = 3 * w /\ LookupSteps' = 3 * Cardinality(hWired')
  BY DEF LookupSteps
<1>2. HazardSpent = IF n = 0 THEN 0 ELSE IF hChosen # None THEN 3 * n
                    ELSE IF screened # hQueried THEN 3 * n - 2 ELSE 3 * n - 1
  BY DEF HazardSpent
<1>3. HazardSpent' = IF n' = 0 THEN 0 ELSE IF hChosen' # None THEN 3 * n'
                     ELSE IF screened' # hQueried' THEN 3 * n' - 2 ELSE 3 * n' - 1
  BY DEF HazardSpent
<1>4. stop = None => steps <= HazardSpent
  BY DEF Spends
<1>5. steps \in Nat /\ ceiling \in Nat
  BY DEF DriverOK
<1> HIDE DEF n, w
<1>6. CASE Hazard!Survey
  <2>1. at = "survey" /\ stop = None /\ Hazard!NextNode = "survey" /\ steps' = steps + 1
    BY <1>6, HazardAt, HazardCharged DEF Hazard!Survey, Hazard!Charge
  <2>2. hQueried \cup hUnavailable = {} /\ hChosen = None /\ screened = {}
    BY <2>1 DEF Hazard!NextNode, HazardInv, HazardTried, Hazard!Untried
  <2>3. steps' = 1 /\ hChosen' = None /\ screened' = {}
    BY <1>0, <1>2, <1>4, <1>5, <1>6, <2>1, <2>2 DEF Hazard!Survey
  <2>4. CASE stop' = "CLOSED"
    BY <2>4 DEF Spends
  <2>5. CASE stop' = stop /\ Hazard!Untried # {}
    <3>1. Hazard!First(Hazard!Untried) \in Hazard!Untried
      BY <2>5, FirstIsOne DEF HazardInv, HazardTried, Hazard!Untried
    <3>2. hQueried' \cup hUnavailable' = (hQueried \cup hUnavailable) \cup {Hazard!First(Hazard!Untried)}
          /\ (hQueried' = {} \/ hQueried' # screened')
      BY <1>6, <2>2, <2>3, <2>5 DEF Hazard!Survey, Hazard!Read, Hazard!Refused
    <3>3. n' = 1
      BY <1>0, <2>2, <3>1, <3>2 DEF n
    <3>4. HazardSpent' >= 1
      BY <1>3, <2>3, <3>3
    <3> QED
      BY <2>1, <2>3, <2>5, <3>3, <3>4, <1>3 DEF Spends
  <2> QED
    BY <1>6, <2>4, <2>5 DEF Hazard!Survey
<1>7. CASE Hazard!Screen
  <2>1. at = "screen" /\ stop = None /\ Hazard!NextNode = "screen" /\ steps' = steps + 1
    BY <1>7, HazardAt, HazardCharged DEF Hazard!Screen, Hazard!Charge
  <2>2. n # 0 /\ hChosen = None /\ screened # hQueried
    BY <1>0, <2>1 DEF Hazard!NextNode
  <2>3. screened' = hQueried' /\ hChosen' = None /\ stop' = None /\ n' = n
    BY <1>7, <2>1, <2>2 DEF Hazard!Screen, n
  <2> QED
    BY <1>0, <1>2, <1>3, <1>4, <1>5, <2>1, <2>2, <2>3 DEF Spends
<1>8. CASE Hazard!Plan
  <2>1. at = "plan" /\ stop = None /\ Hazard!NextNode = "plan" /\ steps' = steps + 1
    BY <1>8, HazardAt, HazardCharged DEF Hazard!Plan, Hazard!Charge
  <2>2. n # 0 /\ hChosen = None /\ screened = hQueried
    BY <1>0, <2>1 DEF Hazard!NextNode
  <2>3. screened' = hQueried' /\ hChosen' # None /\ stop' = None /\ n' = n
    <3>1. None \notin Hazard!Untried
      BY HazardAssumption DEF Hazard!WellFormed, HazardInv, HazardTried, Hazard!Untried
    <3> QED
      BY <1>8, <2>1, <2>2, <3>1 DEF Hazard!Plan, n
  <2> QED
    BY <1>0, <1>2, <1>3, <1>4, <1>5, <2>1, <2>2, <2>3 DEF Spends
<1>9. CASE Hazard!CrossCheck
  <2>1. at = "cross_check" /\ stop = None /\ Hazard!NextNode = "cross_check" /\ steps' = steps + 1
    BY <1>9, HazardAt, HazardCharged DEF Hazard!CrossCheck, Hazard!Charge
  <2>2. n # 0 /\ hChosen # None /\ hChosen \in Hazard!Untried
    BY <1>0, <2>1 DEF Hazard!NextNode, HazardInv, HazardTried
  <2>3. hQueried' \cup hUnavailable' = (hQueried \cup hUnavailable) \cup {hChosen} /\ hChosen' = None /\ stop' = None
    BY <1>9, <2>1 DEF Hazard!CrossCheck, Hazard!Read, Hazard!Refused
  <2>4. n' = n + 1
    BY <1>0, <2>2, <2>3 DEF n
  <2> QED
    BY <1>0, <1>2, <1>3, <1>4, <1>5, <2>1, <2>2, <2>3, <2>4 DEF Spends
<1>10. CASE Hazard!Sweep
  BY <1>10 DEF Hazard!Sweep, Spends
<1>11. CASE Hazard!Park
  <2>1. /\ at = "park" /\ stop = None /\ (late \/ steps >= ceiling \/ Hazard!NextNode = "park")
        /\ steps' = steps + 1 /\ ceiling' = ceiling /\ (late => late')
    BY <1>11, HazardAt, HazardCharged DEF Hazard!Park
  <2>2. stop' # None /\ (stop' = "OUT_OF_STEPS" => ~ late' /\ steps' >= ceiling') /\ hWired' = hWired
    BY <1>11 DEF Hazard!Park, Hazard!Parks, Hazard!Exhausted, Hazard!Goes
  <2>3. HazardSpent \in Int /\ HazardSpent <= 3 * w
    BY <1>0, <1>2
  <2>4. Hazard!NextNode = "park" => HazardSpent < 3 * w
    BY <1>0, <1>2 DEF Hazard!NextNode
  <2>5. stop' = "OUT_OF_STEPS" => ceiling' <= 3 * w
    BY <1>0, <1>4, <2>1, <2>2, <2>3, <2>4, ParksInTime
  <2> QED
    BY <1>1, <2>2, <2>5 DEF Spends, w
<1>12. CASE Hazard!AskPeople \/ Hazard!BankRefuses
  <2>1. stop # None /\ UNCHANGED <<stop, ceiling, hWired>>
    BY <1>12, HazardAt
       DEF Hazard!AskPeople, Hazard!BankRefuses, Hazard!PollRaises, Hazard!hazardVars, Hazard!budgetVars, Hazard!STOP, STOP
  <2> QED
    BY <1>1, <2>1 DEF Spends, w
<1>13. CASE Hazard!NextPass
  <2>1. stop' = None /\ steps' = 0 /\ hQueried' \cup hUnavailable' = {}
    BY <1>13 DEF Hazard!NextPass, Hazard!BeginsAgain
  <2>2. n' = 0
    BY <2>1, FS_EmptySet DEF n
  <2> QED
    BY <1>3, <2>1, <2>2 DEF Spends
<1>14. CASE UNCHANGED <<at, stop, steps, ceiling, hazardVars>>
  BY <1>1, <1>2, <1>3, <1>14 DEF Spends, hazardVars, n, w
<1> QED
  BY <1>6, <1>7, <1>8, <1>9, <1>10, <1>11, <1>12, <1>13, <1>14 DEF Hazard!Next

-----------------------------------------------------------------------------
\* The references that were looked for and found, or tried.
LEMMA RecordsCounts ==
  ASSUME RecordsInv
  PROVE  LET T == rQueried \cup rUnavailable IN
         /\ Cardinality(T) \in Nat /\ Cardinality(rWired) \in Nat /\ Cardinality(T) <= Cardinality(rWired)
         /\ \A f \in Records!Untried : Cardinality(T \cup {f}) = Cardinality(T) + 1
         /\ IsFiniteSet(LookedFor) /\ Cardinality(LookedFor) \in Nat /\ Cardinality(Filings) \in Nat
         /\ Cardinality(LookedFor) <= Cardinality(Filings)
         /\ \A f \in Filings \ LookedFor : Cardinality(LookedFor \cup {f}) = Cardinality(LookedFor) + 1
<1>1. IsFiniteSet(Feeds) /\ IsFiniteSet(Filings)
  BY RecordsAssumption, SameFinite DEF Records!WellFormed
<1>2. IsFiniteSet(rWired) /\ rQueried \cup rUnavailable \in SUBSET rWired /\ LookedFor \in SUBSET Filings
  BY <1>1, FS_Subset DEF RecordsInv, RecordsTried, LookedFor
<1> HIDE DEF LookedFor
<1>3. \A f \in Filings \ LookedFor : Cardinality(LookedFor \cup {f}) = Cardinality(LookedFor) + 1
  BY <1>1, <1>2, CountsOf
<1>4. IsFiniteSet(LookedFor) /\ Cardinality(LookedFor) \in Nat /\ Cardinality(Filings) \in Nat
      /\ Cardinality(LookedFor) <= Cardinality(Filings)
  BY <1>1, <1>2, CountsOf
<1> QED
  BY <1>2, <1>3, <1>4, CountsOf DEF Records!Untried

\* What was looked for is never forgotten in a pass.
LEMMA LookedForGrows ==
  ASSUME RecordsInv, RecordsInv', Records!Published \subseteq Records!Published', ruledOut \subseteq ruledOut'
  PROVE  LookedFor \subseteq LookedFor' /\ Cardinality(LookedFor) <= Cardinality(LookedFor')
<1>1. LookedFor \subseteq LookedFor'
  BY DEF LookedFor
<1>2. IsFiniteSet(LookedFor')
  <2>1. IsFiniteSet(Filings)
    BY RecordsAssumption, SameFinite DEF Records!WellFormed
  <2> QED
    BY <2>1, FS_Subset DEF LookedFor
<1> QED
  BY <1>1, <1>2, FS_Subset

LEMMA ChaseLooks ==
  ASSUME DriverOK, RecordsInv, RecordsInv', Records!Chase
  PROVE  Cardinality(LookedFor') >= Cardinality(LookedFor) + 1
<1>1. at = "chase" /\ Records!NextNode = "chase"
  BY RecordsAt DEF Records!Chase, Records!Charge
<1>2. followedThrough = Len(snapshots)
  BY <1>1 DEF Records!NextNode
<1>3. Records!Chaseable \subseteq Filings
  BY CitedAreFilings DEF RecordsInv, RecordsRead, Records!Chaseable
<1>4. PICK f \in Records!Lowest(Records!Chaseable, 1) :
        \/ /\ f \in archive[Records!CitingFeed(f)].whole /\ ruledOut' = ruledOut
           /\ snapshots' = Append(snapshots, [feed |-> Records!CitingFeed(f), extent |-> "whole"])
        \/ ruledOut' = ruledOut \cup {<<Records!CitingFeed(f), f>>} /\ UNCHANGED snapshots
  BY DEF Records!Chase
<1>5. f \in Records!Chaseable /\ f \in outstanding /\ f \in Filings
  BY <1>3, <1>4, LowestOf DEF Records!Chaseable
<1>6. f \notin LookedFor
  <2>1. f \notin Records!Published
    BY <1>2, <1>5 DEF RecordsInv, RecordsRead
  <2>2. ~ \E token \in ruledOut : f \in Tails[token[2]]
    BY <1>5 DEF Records!Chaseable, Records!Tried
  <2>3. f \in Tails[f]
    BY <1>5, RecordsAssumption DEF Records!WellFormed
  <2> QED
    BY <2>1, <2>2, <2>3 DEF LookedFor
<1>7. archive' = archive
  BY DEF Records!Chase, Records!Goes
<1>8. Records!Published \subseteq Records!Published' /\ ruledOut \subseteq ruledOut' /\ f \in LookedFor'
  <2>1. CASE /\ f \in archive[Records!CitingFeed(f)].whole /\ ruledOut' = ruledOut
             /\ snapshots' = Append(snapshots, [feed |-> Records!CitingFeed(f), extent |-> "whole"])
    <3> DEFINE s == [feed |-> Records!CitingFeed(f), extent |-> "whole"]
    <3>1. s \in [feed : rWired, extent : {"window", "whole"}]
      BY <1>5, CitingFeedIsWired DEF RecordsInv
    <3>2. Records!Published \subseteq Records!Published' /\ Records!Held(s) \subseteq Records!Published'
      <4> HIDE DEF s
      <4>1. snapshots' = Append(snapshots, s)
        BY <2>1 DEF s
      <4> QED
        BY <1>7, <3>1, <4>1, PullsGrow DEF RecordsInv
    <3>3. f \in Records!Held(s)
      BY <2>1 DEF Records!Held
    <3> QED
      BY <1>5, <2>1, <3>2, <3>3 DEF LookedFor
  <2>2. CASE ruledOut' = ruledOut \cup {<<Records!CitingFeed(f), f>>} /\ UNCHANGED snapshots
    <3>1. Records!Published' = Records!Published
      BY <1>7, <2>2, PullsStay
    <3>2. <<Records!CitingFeed(f), f>> \in ruledOut' /\ <<Records!CitingFeed(f), f>>[2] = f
      BY <2>2
    <3> QED
      BY <1>5, <2>2, <3>1, <3>2 DEF LookedFor
  <2> QED
    BY <1>4, <2>1, <2>2
<1>9. LookedFor \cup {f} \subseteq LookedFor'
  BY <1>8, LookedForGrows
<1>10. IsFiniteSet(LookedFor')
  <2>1. IsFiniteSet(Filings)
    BY RecordsAssumption, SameFinite DEF Records!WellFormed
  <2> QED
    BY <2>1, FS_Subset DEF LookedFor
<1>11. Cardinality(LookedFor \cup {f}) <= Cardinality(LookedFor') /\ Cardinality(LookedFor') \in Nat
  BY <1>9, <1>10, FS_Subset, FS_CardinalityType
<1>12. Cardinality(LookedFor \cup {f}) = Cardinality(LookedFor) + 1 /\ Cardinality(LookedFor) \in Nat
  BY <1>5, <1>6, RecordsCounts
<1> QED
  BY <1>11, <1>12

LEMMA RecordsSpends ==
  ASSUME DriverOK, RecordsInv, RecordsInv', graph = "records", graph' = graph, Spends(RecordsSpent),
         [Records!Next]_<<at, stop, steps, ceiling, ruledOut, recordsVars>>
  PROVE  Spends(RecordsSpent)'
<1>0. PICK n \in Nat, w \in Nat, d \in Nat, F \in Nat :
        /\ n = Cardinality(rQueried \cup rUnavailable) /\ w = Cardinality(rWired)
        /\ d = Cardinality(LookedFor) /\ F = Cardinality(Filings) /\ n <= w /\ d <= F
        /\ \A f \in Records!Untried : Cardinality((rQueried \cup rUnavailable) \cup {f}) = n + 1
  BY RecordsCounts
<1>1. PICK m \in Nat, e \in Nat :
        m = Cardinality(rQueried' \cup rUnavailable') /\ e = Cardinality(LookedFor')
  <2>1. IsFiniteSet(Feeds) /\ IsFiniteSet(Filings)
    BY RecordsAssumption, SameFinite DEF Records!WellFormed
  <2>2. rQueried' \cup rUnavailable' \subseteq Feeds /\ LookedFor' \subseteq Filings
    BY DEF RecordsInv, RecordsTried, LookedFor
  <2>3. IsFiniteSet(rQueried' \cup rUnavailable') /\ IsFiniteSet(LookedFor')
    BY <2>1, <2>2, FS_Subset
  <2> QED
    BY <2>3, FS_CardinalityType
<1>2. LookupSteps = 3 * w + 2 * F + 1 /\ (rWired' = rWired => LookupSteps' = 3 * w + 2 * F + 1)
  BY <1>0 DEF LookupSteps
<1>3. PICK spent \in Int :
        /\ spent = RecordsSpent
        /\ spent = IF rChosen # None THEN 3 * n + 2 * d + 1
                   ELSE IF followedThrough # Len(snapshots) THEN 3 * n + 2 * d - 1
                   ELSE IF Records!NextNode = "close" THEN 3 * n + 2 * d + 1 ELSE 3 * n + 2 * d
  <2>1. RecordsBase = 3 * n + 2 * d
    BY <1>0 DEF RecordsBase
  <2> QED
    BY <2>1 DEF RecordsSpent
<1>4. PICK allowed \in Int :
        /\ allowed = RecordsSpent'
        /\ allowed = IF rChosen' # None THEN 3 * m + 2 * e + 1
                     ELSE IF followedThrough' # Len(snapshots') THEN 3 * m + 2 * e - 1
                     ELSE IF Records!NextNode' = "close" THEN 3 * m + 2 * e + 1 ELSE 3 * m + 2 * e
  <2>1. RecordsBase' = 3 * m + 2 * e
    BY <1>1 DEF RecordsBase
  <2> QED
    BY <2>1 DEF RecordsSpent
<1>5. steps \in Nat /\ ceiling \in Nat /\ (stop = None => steps <= spent)
  BY <1>3 DEF DriverOK, Spends
<1>6. UNCHANGED snapshots /\ archive' = archive /\ ruledOut' = ruledOut => e = d
  <2>1. UNCHANGED snapshots /\ archive' = archive /\ ruledOut' = ruledOut => LookedFor' = LookedFor
    BY PullsStay DEF LookedFor
  <2> QED
    BY <1>0, <1>1, <2>1
<1>7. ASSUME stop' = None, steps' <= allowed PROVE Spends(RecordsSpent)'
  BY <1>4, <1>7 DEF Spends
<1>8. CASE Records!Plan
  <2>1. /\ at = "plan" /\ stop = None /\ steps' = steps + 1 /\ ~ late
        /\ rChosen = None /\ followedThrough = Len(snapshots)
        /\ (Records!NextNode = "plan" \/ PlansInVain)
    BY <1>8, RecordsAt, RecordsCharged DEF Records!Plan, Records!Charge, Records!NextNode, PlansInVain
  <2>2. UNCHANGED <<stop, rQueried, rUnavailable, snapshots, outstanding, followedThrough, ruledOut, rWired, archive>>
    BY <1>8 DEF Records!Plan, Records!Goes
  <2>3. m = n /\ e = d
    BY <1>0, <1>1, <1>6, <2>2
  <2>4. CASE Records!NextNode = "plan"
    <3>1. Records!Untried # {}
      BY <2>1, <2>4 DEF Records!NextNode
    <3>2. rChosen' # None
      BY <1>8, <3>1, RecordsAssumption DEF Records!Plan, Records!WellFormed, RecordsInv, RecordsTried, Records!Untried
    <3>3. spent = 3 * n + 2 * d /\ allowed = 3 * n + 2 * d + 1
      BY <1>3, <1>4, <2>1, <2>3, <2>4, <3>2
    <3> QED
      BY <1>5, <1>7, <2>1, <2>2, <3>3
  <2>5. CASE PlansInVain
    <3>1. Records!Untried = {} /\ Records!Untried' = {} /\ outstanding' = {} /\ rChosen' = None /\ steps = 0
      BY <1>8, <2>2, <2>5 DEF Records!Plan, PlansInVain, Records!Untried
    <3>2. Records!NextNode' = "close"
      BY <2>1, <2>2, <3>1 DEF Records!NextNode, Records!Chaseable
    <3>3. allowed = 3 * m + 2 * e + 1
      BY <1>4, <2>1, <2>2, <3>1, <3>2
    <3> QED
      BY <1>7, <2>1, <2>2, <3>1, <3>3
  <2> QED
    BY <2>1, <2>4, <2>5
<1>9. CASE Records!Fetch
  <2>1. at = "fetch" /\ stop = None /\ Records!NextNode = "fetch" /\ steps' = steps + 1
    BY <1>9, RecordsAt, RecordsCharged DEF Records!Fetch, Records!Charge
  <2>2. rChosen # None /\ rChosen \in Records!Untried
    BY <2>1 DEF Records!NextNode, RecordsInv, RecordsTried
  <2>3. /\ rQueried' \cup rUnavailable' = (rQueried \cup rUnavailable) \cup {rChosen} /\ rChosen' = None /\ stop' = None
        /\ ruledOut' = ruledOut /\ archive' = archive
    BY <1>9, <2>1 DEF Records!Fetch, Records!Goes
  <2>4. m = n + 1
    BY <1>0, <1>1, <2>2, <2>3
  <2>5. Records!Published \subseteq Records!Published'
    <3>1. CASE UNCHANGED snapshots
      BY <2>3, <3>1, PullsStay
    <3>2. CASE snapshots' = Append(snapshots, [feed |-> rChosen, extent |-> "window"])
      <4>1. [feed |-> rChosen, extent |-> "window"] \in [feed : rWired, extent : {"window", "whole"}]
        BY <2>2 DEF Records!Untried
      <4> QED
        BY <2>3, <3>2, <4>1, PullsGrow DEF RecordsInv
    <3> QED
      BY <1>9, <3>1, <3>2 DEF Records!Fetch
  <2>6. d <= e
    BY <1>0, <1>1, <2>3, <2>5, LookedForGrows
  <2>7. spent = 3 * n + 2 * d + 1 /\ allowed >= 3 * m + 2 * e - 1
    BY <1>3, <1>4, <2>2
  <2>8. steps' <= allowed
    BY <1>5, <2>1, <2>4, <2>6, <2>7
  <2> QED
    BY <1>7, <2>3, <2>8
<1>10. CASE Records!Follow
  <2>1. at = "follow" /\ stop = None /\ Records!NextNode = "follow" /\ steps' = steps + 1
    BY <1>10, RecordsAt, RecordsCharged DEF Records!Follow, Records!Charge
  <2>2. rChosen = None /\ followedThrough # Len(snapshots)
    BY <2>1 DEF Records!NextNode
  <2>3. /\ UNCHANGED <<stop, rQueried, rUnavailable, snapshots, rChosen, ruledOut, archive>>
        /\ followedThrough' = Len(snapshots')
    BY <1>10 DEF Records!Follow, Records!Goes
  <2>4. m = n /\ e = d
    BY <1>0, <1>1, <1>6, <2>3
  <2>5. spent = 3 * n + 2 * d - 1 /\ allowed >= 3 * n + 2 * d
    BY <1>3, <1>4, <2>2, <2>3, <2>4
  <2>6. steps' <= allowed
    BY <1>5, <2>1, <2>5
  <2> QED
    BY <1>7, <2>1, <2>3, <2>6
<1>11. CASE Records!Chase
  <2>1. at = "chase" /\ stop = None /\ Records!NextNode = "chase" /\ steps' = steps + 1
    BY <1>11, RecordsAt, RecordsCharged DEF Records!Chase, Records!Charge
  <2>2. rChosen = None /\ followedThrough = Len(snapshots)
    BY <2>1 DEF Records!NextNode
  <2>3. UNCHANGED <<stop, rQueried, rUnavailable, rChosen>>
    BY <1>11 DEF Records!Chase
  <2>4. m = n /\ e >= d + 1
    BY <1>0, <1>1, <1>11, <2>3, ChaseLooks
  <2>5. spent = 3 * n + 2 * d /\ allowed >= 3 * m + 2 * e - 1
    BY <1>3, <1>4, <2>1, <2>2
  <2>6. steps' <= allowed
    BY <1>5, <2>1, <2>4, <2>5
  <2> QED
    BY <1>7, <2>1, <2>3, <2>6
<1>12. CASE Records!Park
  <2>1. /\ at = "park" /\ stop = None /\ (late \/ steps >= ceiling \/ Records!NextNode = "park")
        /\ steps' = steps + 1 /\ ceiling' = ceiling /\ (late => late')
    BY <1>12, RecordsAt, RecordsCharged DEF Records!Park
  <2>2. stop' # None /\ (stop' = "OUT_OF_STEPS" => ~ late' /\ steps' >= ceiling') /\ rWired' = rWired
    BY <1>12 DEF Records!Park, Records!Parks, Records!Exhausted, Records!Goes
  <2>3. /\ spent <= 3 * n + 2 * d + 1
        /\ Records!NextNode = "park" => spent < 3 * n + 2 * d + 1
    BY <1>3 DEF Records!NextNode
  <2>4. 3 * n + 2 * d + 1 <= 3 * w + 2 * F + 1
    <3>1. n <= w /\ d <= F
      BY <1>0
    <3> QED
      BY <3>1
  <2>5. stop' = "OUT_OF_STEPS" => ceiling' <= 3 * w + 2 * F + 1
    BY <1>5, <2>1, <2>2, <2>3, <2>4, ParksInTime
  <2> QED
    BY <1>2, <2>2, <2>5 DEF Spends
<1>13. CASE Records!Close
  BY <1>13 DEF Records!Close, Spends
<1>14. CASE Records!AskPeople \/ Records!BankRefuses
  <2>1. stop # None /\ UNCHANGED <<stop, ceiling, rWired>>
    BY <1>14, RecordsAt
       DEF Records!AskPeople, Records!BankRefuses, Records!PollRaises, Records!recordsVars, Records!budgetVars, Records!STOP, STOP
  <2> QED
    BY <1>2, <2>1 DEF Spends
<1>15. CASE Records!NextPass
  <2>1. stop' = None /\ steps' = 0 /\ rChosen' = None /\ followedThrough' = Len(snapshots')
    BY <1>15 DEF Records!NextPass, Records!BeginsAgain
  <2>2. allowed >= 0
    BY <1>4, <2>1
  <2> QED
    BY <1>7, <2>1, <2>2
<1>16. CASE UNCHANGED <<at, stop, steps, ceiling, ruledOut, recordsVars>>
  <2>1. UNCHANGED <<rWired, archive, rQueried, rUnavailable, snapshots, outstanding, followedThrough, rChosen, ruledOut>>
    BY <1>16 DEF recordsVars
  <2>2. Records!NextNode' = Records!NextNode /\ m = n /\ e = d
    BY <1>0, <1>1, <1>6, <2>1 DEF Records!NextNode, Records!Untried, Records!Chaseable, Records!Tried
  <2>3. allowed = spent
    BY <1>3, <1>4, <2>1, <2>2
  <2> QED
    BY <1>2, <1>3, <1>4, <1>16, <2>1, <2>3 DEF Spends
<1> QED
  BY <1>8, <1>9, <1>10, <1>11, <1>12, <1>13, <1>14, <1>15, <1>16 DEF Records!Next

-----------------------------------------------------------------------------
\* A briefing selects no more than there are collisions, and those are few.
LEMMA HeadCounts ==
  ASSUME HeadInv
  PROVE  /\ IsFiniteSet(selected) /\ Cardinality(selected) \in Nat /\ Cardinality(selected) <= MaxCollisions
         /\ MaxCollisions \in Nat
<1>1. MaxCollisions \in Nat
  BY HeadAssumption DEF Focus!WellFormed
<1>2. CASE phase = "collided"
  <2>1. selected \subseteq Focus!Collisions
    BY <1>2 DEF HeadInv, HeadRead
  <2>2. IsFiniteSet(Focus!Collisions) /\ Cardinality(Focus!Collisions) <= MaxCollisions
    BY CollisionsAreFew DEF HeadInv
  <2>3. Cardinality(Focus!Collisions) \in Nat
    BY <2>2, FS_CardinalityType
  <2>4. IsFiniteSet(selected) /\ Cardinality(selected) <= Cardinality(Focus!Collisions)
    BY <2>1, <2>2, FS_Subset
  <2>5. Cardinality(selected) \in Nat
    BY <2>4, FS_CardinalityType
  <2> QED
    BY <1>1, <2>2, <2>3, <2>4, <2>5
<1>3. CASE phase # "collided"
  <2>1. selected = {}
    BY <1>3 DEF HeadInv, HeadRead
  <2> QED
    BY <1>1, <2>1, FS_EmptySet
<1> QED
  BY <1>2, <1>3

LEMMA HeadSpends ==
  ASSUME DriverOK, HeadInv, graph = "head", graph' = graph, Spends(HeadSpent),
         [Focus!Next]_<<at, stop, steps, ceiling, headVars>>
  PROVE  Spends(HeadSpent)'
<1>0. PICK n \in Nat, w \in Nat : n = Cardinality(selected) /\ w = MaxCollisions /\ n <= w
  BY HeadCounts
<1>1. LookupSteps = 3 + w /\ LookupSteps' = 3 + w
  BY <1>0 DEF LookupSteps
<1>2. PICK spent \in Int :
        /\ spent = HeadSpent /\ spent <= 3 + w
        /\ phase = "new" => spent = 0
        /\ phase = "gathered" => spent = 1
        /\ phase = "recalled" => spent = 2
        /\ phase = "collided" => spent = 3 + n
  <2>1. phase \in {"new", "gathered", "recalled", "collided"}
    BY DEF HeadInv, HeadRead
  <2>2. HeadSpent \in Int
    BY <1>0, <2>1 DEF HeadSpent
  <2>3. /\ phase = "new" => HeadSpent = 0
        /\ phase = "gathered" => HeadSpent = 1
        /\ phase = "recalled" => HeadSpent = 2
        /\ phase = "collided" => HeadSpent = 3 + n
    BY <1>0, <2>1 DEF HeadSpent
  <2> QED
    BY <1>0, <2>1, <2>2, <2>3
<1>3. steps \in Nat /\ ceiling \in Nat /\ (stop = None => steps <= spent)
  BY <1>2 DEF DriverOK, Spends
<1>4. CASE Focus!Gather
  <2>1. phase = "new" /\ stop = None /\ steps' = steps + 1
    BY <1>4, HeadAt, HeadCharged DEF Focus!Gather, Focus!Charge, Focus!NextNode, HeadInv, HeadRead
  <2>2. stop' = None /\ HeadSpent' = 1
    BY <1>4, <2>1 DEF Focus!Gather, HeadSpent
  <2> QED
    BY <1>2, <1>3, <2>1, <2>2 DEF Spends
<1>5. CASE Focus!Recall
  <2>1. phase = "gathered" /\ stop = None /\ steps' = steps + 1
    BY <1>5, HeadAt, HeadCharged DEF Focus!Recall, Focus!Charge, Focus!NextNode, HeadInv, HeadRead
  <2>2. stop' = None /\ HeadSpent' = 2
    BY <1>5, <2>1 DEF Focus!Recall, HeadSpent
  <2> QED
    BY <1>2, <1>3, <2>1, <2>2 DEF Spends
<1>6. CASE Focus!Collide
  <2>1. phase = "recalled" /\ stop = None /\ steps' = steps + 1
    BY <1>6, HeadAt, HeadCharged DEF Focus!Collide, Focus!Charge, Focus!NextNode, HeadInv, HeadRead
  <2>2. stop' = None /\ HeadSpent' = 3 + n
    BY <1>0, <1>6, <2>1 DEF Focus!Collide, HeadSpent
  <2> QED
    BY <1>2, <1>3, <2>1, <2>2 DEF Spends
<1>7. CASE Focus!Select
  <2>1. phase = "collided" /\ stop = None /\ steps' = steps + 1
    BY <1>7, HeadAt, HeadCharged DEF Focus!Select, Focus!Charge, Focus!NextNode, HeadInv, HeadRead
  <2>2. PICK s \in collisions \ selected : selected' = selected \cup {s}
    BY <1>7 DEF Focus!Select
  <2>3. Cardinality(selected') = n + 1
    BY <1>0, <2>2, HeadCounts, FS_AddElement
  <2>4. stop' = None /\ HeadSpent' = 3 + (n + 1)
    BY <1>7, <2>1, <2>3 DEF Focus!Select, HeadSpent
  <2> QED
    BY <1>2, <1>3, <2>1, <2>4 DEF Spends
<1>8. CASE Focus!Close
  BY <1>8 DEF Focus!Close, Spends
<1>9. CASE Focus!Park
  <2>1. /\ at = "park" /\ stop = None /\ (late \/ steps >= ceiling)
        /\ steps' = steps + 1 /\ ceiling' = ceiling /\ (late => late')
    BY <1>9, HeadAt, HeadCharged DEF Focus!Park
  <2>2. stop' # None /\ (stop' = "OUT_OF_STEPS" => ~ late' /\ steps' >= ceiling')
    BY <1>9 DEF Focus!Park, Focus!Parks, Focus!Exhausted
  <2>3. stop' = "OUT_OF_STEPS" => ceiling' <= 3 + w
    BY <1>2, <1>3, <2>1, <2>2, ParksInTime
  <2> QED
    BY <1>1, <2>2, <2>3 DEF Spends
<1>10. CASE Focus!ComesApart
  BY <1>10 DEF Focus!ComesApart, Spends
<1>11. CASE Focus!Record \/ Focus!LogRefuses
  <2>1. stop # None /\ UNCHANGED <<stop, ceiling>>
    BY <1>11, HeadAt DEF Focus!Record, Focus!LogRefuses, Focus!PollRaises, Focus!budgetVars, Focus!STOP, STOP
  <2> QED
    BY <1>1, <2>1 DEF Spends
<1>12. CASE Focus!NextPass
  <2>1. stop' = None /\ steps' = 0 /\ phase' = "new"
    BY <1>12 DEF Focus!NextPass, Focus!BeginsAgain
  <2> QED
    BY <2>1 DEF Spends, HeadSpent
<1>13. CASE UNCHANGED <<at, stop, steps, ceiling, headVars>>
  BY <1>1, <1>13 DEF Spends, HeadSpent, headVars
<1> QED
  BY <1>4, <1>5, <1>6, <1>7, <1>8, <1>9, <1>10, <1>11, <1>12, <1>13 DEF Focus!Next

-----------------------------------------------------------------------------
\* What is assembled and named is something, if only nothing at all.
ObservationsAre == onScene \subseteq Observable

LEMMA ReportCounts ==
  ASSUME ReportInv
  PROVE  /\ IsFiniteSet(tried) /\ Cardinality(tried) \in Nat /\ Cardinality(tried) <= Cardinality(Remembered)
         /\ Cardinality(Remembered) \in Nat
         /\ named # None => IsFiniteSet(named) /\ Cardinality(named) <= Cardinality(Remembered)
<1>1. IsFiniteSet(Remembered)
  BY ReportAssumption, SameFinite DEF Report!WellFormed
<1>2. tried \subseteq Remembered
  BY DEF ReportInv, ReportTried
<1>3. named # None => named \subseteq Remembered
  BY DEF ReportInv, ReportTried
<1> QED
  BY <1>1, <1>2, <1>3, FS_Subset, FS_CardinalityType

LEMMA ReportSpends ==
  ASSUME DriverOK, ReportInv, ObservationsAre, graph = "report", graph' = graph, Spends(ReportSpent),
         [Report!Next]_<<at, stop, steps, ceiling, reportVars>>
  PROVE  Spends(ReportSpent)'
<1>0. PICK n \in Nat, w \in Nat : n = Cardinality(tried) /\ w = Cardinality(Remembered) /\ n <= w
  BY ReportCounts
<1>1. LookupSteps = 2 + w /\ LookupSteps' = 2 + w
  BY <1>0 DEF LookupSteps
<1>2. PICK spent \in Int :
        /\ spent = ReportSpent /\ spent <= 2 + w
        /\ spent = IF evidence = None THEN 0 ELSE IF named = None THEN 1 ELSE 2 + n
  <2>1. ReportSpent = IF evidence = None THEN 0 ELSE IF named = None THEN 1 ELSE 2 + n
    BY <1>0 DEF ReportSpent
  <2> QED
    BY <1>0, <2>1
<1>3. steps \in Nat /\ ceiling \in Nat /\ (stop = None => steps <= spent)
  BY <1>2 DEF DriverOK, Spends
<1>4. CASE Report!Assemble
  <2>1. evidence = None /\ stop = None /\ steps' = steps + 1
    BY <1>4, ReportAt, ReportCharged DEF Report!Assemble, Report!Charge, Report!NextNode, Report!STOP
  <2>2. stop' = None /\ evidence' # None /\ tried' = tried
    BY <1>4, <2>1, ReportAssumption DEF Report!Assemble, Report!WellFormed, ObservationsAre
  <2>3. ReportSpent' = IF named' = None THEN 1 ELSE 2 + n
    BY <1>0, <2>2 DEF ReportSpent
  <2> QED
    BY <1>2, <1>3, <2>1, <2>2, <2>3 DEF Spends
<1>5. CASE Report!ReadBriefing
  <2>1. evidence # None /\ named = None /\ stop = None /\ steps' = steps + 1
    BY <1>5, ReportAt, ReportCharged DEF Report!ReadBriefing, Report!Charge, Report!NextNode, Report!STOP
  <2>2. stop' = None /\ evidence' = evidence /\ tried' = tried
    BY <1>5, <2>1 DEF Report!ReadBriefing
  <2>3. named' # None
    BY <1>5, ReportAssumption DEF Report!ReadBriefing, Report!WellFormed, ReportInv, ReportTried
  <2>4. ReportSpent' = 2 + n
    BY <1>0, <2>1, <2>2, <2>3 DEF ReportSpent
  <2> QED
    BY <1>2, <1>3, <2>1, <2>2, <2>4 DEF Spends
<1>6. CASE Report!Answer
  <2>1. evidence # None /\ named # None /\ stop = None /\ steps' = steps + 1 /\ Report!NextNode = "answer"
    BY <1>6, ReportAt, ReportCharged DEF Report!Answer, Report!Charge, Report!NextNode, Report!STOP
  <2>2. Report!Pending = named \ tried /\ Report!Pending # {}
    BY <2>1 DEF Report!NextNode, Report!Pending, Report!STOP
  <2>3. UNCHANGED <<stop, evidence, named>>
    BY <1>6 DEF Report!Answer
  <2>4. PICK q \in named \ tried : tried \cup {q} \subseteq tried' /\ IsFiniteSet(tried')
    <3>1. CASE tried' = named
      <4>1. tried \subseteq named /\ IsFiniteSet(named)
        BY <2>1, ReportCounts DEF ReportInv, ReportTried
      <4> QED
        BY <2>2, <3>1, <4>1
    <3>2. CASE \E q \in Report!Pending : tried' = tried \cup {q}
      <4>1. PICK q \in Report!Pending : tried' = tried \cup {q}
        BY <3>2
      <4>2. IsFiniteSet(tried')
        BY <4>1, ReportCounts, FS_AddElement
      <4> QED
        BY <2>2, <4>1, <4>2
    <3> QED
      BY <1>6, <3>1, <3>2 DEF Report!Answer
  <2>5. Cardinality(tried \cup {q}) = n + 1
    BY <1>0, <2>4, ReportCounts, FS_AddElement
  <2>6. PICK m \in Nat : m = Cardinality(tried') /\ n + 1 <= m
    <3>1. Cardinality(tried') \in Nat /\ Cardinality(tried \cup {q}) <= Cardinality(tried')
      BY <2>4, FS_Subset, FS_CardinalityType
    <3> QED
      BY <2>5, <3>1
  <2>7. ReportSpent' = 2 + m
    BY <2>1, <2>3, <2>6 DEF ReportSpent
  <2>8. spent = 2 + n
    BY <1>2, <2>1
  <2>9. steps' <= 2 + m
    BY <1>3, <2>1, <2>6, <2>8
  <2> QED
    BY <2>1, <2>3, <2>7, <2>9 DEF Spends
<1>7. CASE Report!Draft
  BY <1>7 DEF Report!Draft, Spends
<1>8. CASE Report!Park
  <2>1. /\ at = "park" /\ stop = None /\ (late \/ steps >= ceiling)
        /\ steps' = steps + 1 /\ ceiling' = ceiling /\ (late => late')
    BY <1>8, ReportAt, ReportCharged DEF Report!Park
  <2>2. stop' # None /\ (stop' = "OUT_OF_STEPS" => ~ late' /\ steps' >= ceiling')
    BY <1>8 DEF Report!Park, Report!Exhausted
  <2>3. stop' = "OUT_OF_STEPS" => ceiling' <= 2 + w
    BY <1>2, <1>3, <2>1, <2>2, ParksInTime
  <2> QED
    BY <1>1, <2>2, <2>3 DEF Spends
<1>9. CASE \/ Report!Resolve \/ Report!RuleOut \/ Report!Refused \/ Report!Report \/ Report!Breaks
           \/ Report!Others \/ Report!LogGrows \/ UNCHANGED <<at, stop, steps, ceiling, reportVars>>
  <2>1. UNCHANGED <<stop, steps, ceiling, evidence, named, tried>>
    BY <1>9 DEF Report!Resolve, Report!RuleOut, Report!Refused, Report!Written, Report!Report, Report!Breaks,
       Report!Others, Report!LogGrows, Report!driverVars, Report!budgetVars, Report!reportVars, Report!graphVars,
       reportVars
  <2> QED
    BY <1>1, <2>1 DEF Spends, ReportSpent
<1>10. CASE Report!NextPass
  <2>1. stop' = None /\ steps' = 0 /\ evidence' = None
    BY <1>10 DEF Report!NextPass, Report!BeginsAgain
  <2> QED
    BY <2>1 DEF Spends, ReportSpent
<1> QED
  BY <1>4, <1>5, <1>6, <1>7, <1>8, <1>9, <1>10 DEF Report!Next

LEMMA ObservationsStay ==
  ASSUME ObservationsAre, [Report!Next]_reportVars PROVE ObservationsAre'
<1>1. CASE Report!LogGrows \/ Report!NextPass
  BY <1>1 DEF ObservationsAre, Report!LogGrows, Report!NextPass
<1>2. CASE ~ (Report!LogGrows \/ Report!NextPass)
  <2>1. onScene' = onScene
    BY <1>2 DEF Report!Next, Report!Assemble, Report!ReadBriefing, Report!Answer, Report!Resolve, Report!RuleOut,
       Report!Refused, Report!Written, Report!Draft, Report!Park, Report!Report, Report!Breaks, Report!Others,
       Report!reportVars, reportVars
  <2> QED
    BY <2>1 DEF ObservationsAre
<1> QED
  BY <1>1, <1>2

-----------------------------------------------------------------------------
LEMMA StepsBegin == Init => StepsInv /\ (graph = "report" => ObservationsAre)
<1> SUFFICES ASSUME Init PROVE StepsInv /\ (graph = "report" => ObservationsAre)
  OBVIOUS
<1>1. stop = None /\ steps = 0
  BY DEF Init, Hazard!Init, Hazard!Begins, Records!Init, Records!Begins, Focus!Init, Focus!Begins, Report!Init, Report!Begins
<1>2. ASSUME graph = "hazard" PROVE Spends(HazardSpent)
  <2>1. hQueried \cup hUnavailable = {}
    BY <1>2 DEF Init, Hazard!Init, Hazard!Blank
  <2>2. HazardSpent = 0
    BY <2>1, FS_EmptySet DEF HazardSpent
  <2> QED
    BY <1>1, <2>2 DEF Spends
<1>3. ASSUME graph = "records" PROVE Spends(RecordsSpent)
  <2>1. rChosen = None /\ followedThrough = Len(snapshots)
    BY <1>3 DEF Init, Records!Init, Records!Blank
  <2>2. RecordsInv
    BY <1>3, RecordsBegins DEF Init
  <2>3. RecordsBase \in Nat
    BY <2>2, RecordsCounts DEF RecordsBase
  <2> QED
    BY <1>1, <2>1, <2>3 DEF Spends, RecordsSpent
<1>4. ASSUME graph = "head" PROVE Spends(HeadSpent)
  BY <1>1, <1>4 DEF Init, Focus!Init, Spends, HeadSpent
<1>5. ASSUME graph = "report" PROVE Spends(ReportSpent) /\ ObservationsAre
  BY <1>1, <1>5 DEF Init, Report!Init, Report!Fresh, Spends, ReportSpent, ObservationsAre
<1> QED
  BY <1>2, <1>3, <1>4, <1>5 DEF StepsInv

LEMMA StepsKeep ==
  ASSUME GraphInv, GraphInv', StepsInv, graph = "report" => ObservationsAre, [Next]_vars
  PROVE  StepsInv' /\ (graph' = "report" => ObservationsAre')
<1>1. graph' = graph /\ graph \in {"hazard", "records", "head", "report"}
  BY DEF Next, HazardPass, RecordsPass, HeadPass, ReportPass, vars, GraphInv
<1>2. CASE graph = "hazard"
  <2>1. [Hazard!Next]_<<at, stop, steps, ceiling, hazardVars>>
    BY <1>2 DEF Next, HazardPass, RecordsPass, HeadPass, ReportPass, vars, driverVars, budgetVars
  <2> QED
    BY <1>1, <1>2, <2>1, HazardSpends DEF StepsInv, GraphInv
<1>3. CASE graph = "records"
  <2>1. [Records!Next]_<<at, stop, steps, ceiling, ruledOut, recordsVars>>
    BY <1>3 DEF Next, HazardPass, RecordsPass, HeadPass, ReportPass, vars, driverVars, budgetVars
  <2> QED
    BY <1>1, <1>3, <2>1, RecordsSpends DEF StepsInv, GraphInv
<1>4. CASE graph = "head"
  <2>1. [Focus!Next]_<<at, stop, steps, ceiling, headVars>>
    BY <1>4 DEF Next, HazardPass, RecordsPass, HeadPass, ReportPass, vars, driverVars, budgetVars
  <2> QED
    BY <1>1, <1>4, <2>1, HeadSpends DEF StepsInv, GraphInv
<1>5. CASE graph = "report"
  <2>1. [Report!Next]_<<at, stop, steps, ceiling, reportVars>> /\ [Report!Next]_reportVars
    BY <1>5 DEF Next, HazardPass, RecordsPass, HeadPass, ReportPass, vars, driverVars, budgetVars
  <2> QED
    BY <1>1, <1>5, <2>1, ReportSpends, ObservationsStay DEF StepsInv, GraphInv
<1> QED
  BY <1>1, <1>2, <1>3, <1>4, <1>5

\* A pass whose ceiling leaves a step more than its lookups can take is never
\* stopped for its steps, whatever the planners pick: the loops of graphs/hazard.py,
\* graphs/records.py, graphs/interceptor.py and graphs/recorder.py converge.
THEOREM LoopsConverge == Spec => []ConvergesInSteps
<1>1. GraphInv /\ GraphInv' /\ StepsInv /\ (graph = "report" => ObservationsAre) /\ [Next]_vars
        => StepsInv' /\ (graph = "report" => ObservationsAre)'
  BY StepsKeep
<1>2. GraphInv /\ StepsInv => ConvergesInSteps
  <2> SUFFICES ASSUME GraphInv, StepsInv, ceiling > LookupSteps, stop = "OUT_OF_STEPS" PROVE FALSE
    BY DEF ConvergesInSteps
  <2>1. ceiling <= LookupSteps
    BY DEF StepsInv, Spends, GraphInv
  <2>2. LookupSteps \in Nat
    <3>1. graph \in {"hazard", "records", "head", "report"}
      BY DEF GraphInv
    <3>2. CASE graph = "hazard"
      <4>1. LookupSteps = 3 * Cardinality(hWired)
        BY <3>2 DEF LookupSteps
      <4>2. HazardInv
        BY <3>2 DEF GraphInv
      <4> QED
        BY <4>1, <4>2, HazardCounts
    <3>3. CASE graph = "records"
      <4>1. LookupSteps = 3 * Cardinality(rWired) + 2 * Cardinality(Filings) + 1
        BY <3>3 DEF LookupSteps
      <4>2. RecordsInv
        BY <3>3 DEF GraphInv
      <4> QED
        BY <4>1, <4>2, RecordsCounts
    <3>4. CASE graph = "head"
      <4>1. LookupSteps = 3 + MaxCollisions
        BY <3>4 DEF LookupSteps
      <4>2. HeadInv
        BY <3>4 DEF GraphInv
      <4> QED
        BY <4>1, <4>2, HeadCounts
    <3>5. CASE graph = "report"
      <4>1. LookupSteps = 2 + Cardinality(Remembered)
        BY <3>5 DEF LookupSteps
      <4>2. ReportInv
        BY <3>5 DEF GraphInv
      <4> QED
        BY <4>1, <4>2, ReportCounts
    <3> QED
      BY <3>1, <3>2, <3>3, <3>4, <3>5
  <2>3. ceiling \in Nat
    BY DEF GraphInv, DriverOK
  <2> QED
    BY <2>1, <2>2, <2>3
<1> QED
  BY <1>1, <1>2, StepsBegin, GraphHolds, GraphSafe, PTL

-----------------------------------------------------------------------------

HIDE CeilingsAssumption DEF Stops

\* A call that is about to close a question read it while it could be closed,
\* and no closed question lacks the call that closed it.
ReadsAllow ==
  \A c \in Closers : call[c].pc = "read" => call[c].copy # Absent /\ MayClose(call[c].copy, c)

\* Copies are records as they were stored.
CopiesMatch ==
  \A c \in Calls : call[c].copy # Absent => (call[c].copy.status = "OPEN" <=> call[c].copy.closedBy = Absent)

\* A call that holds no copy and is about to act is a pass that found nothing.
OnlyOpensFindNothing ==
  \A c \in Calls : call[c].pc = "read" /\ call[c].copy = Absent => c \in Opens

\* The pointer is there once a pass has written it, unless one was removed.
PointerKept ==
  Indexable /\ ~ indexed => (\A c \in Opens : call[c].pc # "done") \/ (Forgets /\ \E c \in Closers : call[c].pc = "done")

\* Ruling out does not reach the index.
SavedByOthers == \A c \in RuleOuts : call[c].pc # "saved"

BankInv == TypeOK /\ ReadsAllow /\ CopiesMatch /\ OnlyOpensFindNothing /\ PointerKept /\ SavedByOthers

-----------------------------------------------------------------------------
\* The next version of a record a call may act on is a record again, and it
\* continues the one it was made from.
LEMMA NextVersionContinues ==
  ASSUME NEW c \in Calls, NEW q \in Question,
         q.status = "OPEN" <=> q.closedBy = Absent,
         c \in Closers => MayClose(q, c)
  PROVE  /\ NextVersion(q, c) \in Question
         /\ NextVersion(q, c).status = "OPEN" <=> NextVersion(q, c).closedBy = Absent
         /\ Continues(q, NextVersion(q, c))
<1>0. Absent \notin Closers /\ c \in Opens \cup RuleOuts \cup Closers
  BY BankAssumption DEF Calls
<1>q. /\ q.status \in Status /\ q.ruledOut \in SUBSET RuleOuts
      /\ q.count \in Nat \ {0} /\ q.closedBy \in Closers \cup {Absent}
      /\ q = [status |-> q.status, ruledOut |-> q.ruledOut, count |-> q.count, closedBy |-> q.closedBy]
  BY DEF Question
<1>n. q.count + 1 \in Nat \ {0}
  BY <1>q
<1>e. Examined(q) = [status |-> q.status, ruledOut |-> q.ruledOut, count |-> q.count + 1, closedBy |-> q.closedBy]
  BY <1>q DEF Examined
<1>1. CASE c \in Opens
  <2>1. NextVersion(q, c) = [status |-> q.status, ruledOut |-> q.ruledOut, count |-> q.count + 1,
                             closedBy |-> q.closedBy]
    BY <1>1, <1>e DEF NextVersion
  <2> QED
    BY <2>1, <1>q, <1>n DEF Question, Continues
<1>2. CASE c \in RuleOuts /\ c \notin Opens
  <2>1. NextVersion(q, c) = [status |-> q.status, ruledOut |-> q.ruledOut \cup {c},
                             count |-> q.count + 1, closedBy |-> q.closedBy]
    <3>1. NextVersion(q, c) = RuledOut(q, c)
      BY <1>2 DEF NextVersion
    <3> QED
      BY <3>1, <1>e DEF RuledOut
  <2>2. q.ruledOut \cup {c} \in SUBSET RuleOuts
    BY <1>2, <1>q
  <2> QED
    BY <2>1, <2>2, <1>q, <1>n DEF Question, Continues
<1>3. CASE c \in Closers
  <2> DEFINE status == IF c \in Resolves THEN "RESOLVED" ELSE "ABANDONED"
  <2>1. c \notin Opens /\ c \notin RuleOuts
    BY <1>3, BankAssumption
  <2>2. NextVersion(q, c) = [status |-> status, ruledOut |-> q.ruledOut,
                             count |-> q.count + 1, closedBy |-> c]
    <3>1. NextVersion(q, c) = ClosedAs(q, status, c)
      BY <2>1 DEF NextVersion
    <3> HIDE DEF status
    <3> QED
      BY <3>1, <1>e DEF ClosedAs
  <2>3. status \in Status /\ status # "OPEN"
    BY DEF Status
  <2>4. q.status # "RESOLVED"
    BY <1>3 DEF MayClose
  <2> HIDE DEF status
  <2> QED
    BY <2>2, <2>3, <2>4, <1>0, <1>3, <1>q, <1>n DEF Question, Continues
<1> QED
  BY <1>0, <1>1, <1>2, <1>3

\* What ending a call leaves of the table of calls.
LEMMA EndKeepsCalls ==
  ASSUME NEW c \in Calls, NEW how \in {"lost", "saved", "done", "missed", "refused"},
         call \in [Calls -> Call], Ends(c, how)
  PROVE  /\ call' \in [Calls -> Call]
         /\ call'[c].pc = how /\ call'[c].copy = Absent
         /\ \A d \in Calls : d # c => call'[d] = call[d]
BY DEF Ends, Call

-----------------------------------------------------------------------------
LEMMA BankBegins == BankInit => BankInv
<1> SUFFICES ASSUME BankInit PROVE BankInv
  OBVIOUS
<1>1. call \in [Calls -> Call]
  BY DEF BankInit, Call
<1>2. 0 \in 0..MaxMisses
  BY BankAssumption
<1>3. TypeOK
  BY <1>1, <1>2 DEF BankInit, TypeOK
<1>4. \A c \in Calls : call[c].pc = "idle" /\ call[c].copy = Absent
  BY DEF BankInit
<1> QED
  BY <1>3, <1>4 DEF BankInv, ReadsAllow, CopiesMatch, OnlyOpensFindNothing, PointerKept, SavedByOthers, Calls

LEMMA ReadKeeps == ASSUME BankInv, NEW c \in Calls, Read(c) PROVE BankInv'
<1> USE DEF BankInv
<1>1. CASE c \in Closers /\ ~ MayClose(question, c)
  <2>1. Ends(c, "refused")
    BY <1>1 DEF Read
  <2>2. /\ call' \in [Calls -> Call]
        /\ call'[c].pc = "refused" /\ call'[c].copy = Absent
        /\ \A d \in Calls : d # c => call'[d] = call[d]
    BY <2>1, EndKeepsCalls DEF TypeOK
  <2>3. call[c].pc \in {"idle", "lost"}
    BY DEF Read
  <2>4. TypeOK'
    BY <2>2 DEF TypeOK, Read
  <2> QED
    BY <2>2, <2>3, <2>4 DEF Read, ReadsAllow, CopiesMatch, OnlyOpensFindNothing, PointerKept, SavedByOthers, Calls, MayClose
<1>2. CASE ~ (c \in Closers /\ ~ MayClose(question, c))
  <2>1. call' = [call EXCEPT ![c] = [pc |-> "read", copy |-> question]]
    BY <1>2 DEF Read
  <2>2. [pc |-> "read", copy |-> question] \in Call
    BY DEF TypeOK, Call
  <2>3. /\ call' \in [Calls -> Call]
        /\ call'[c].pc = "read" /\ call'[c].copy = question
        /\ \A d \in Calls : d # c => call'[d] = call[d]
    BY <2>1, <2>2 DEF TypeOK
  <2>4. call[c].pc \in {"idle", "lost"} /\ (c \in Opens \/ question # Absent)
    BY DEF Read
  <2>5. TypeOK'
    BY <2>3 DEF TypeOK, Read
  <2>6. c \in Closers => c \notin Opens
    BY BankAssumption
  <2>7. ReadsAllow'
    BY <1>2, <2>3, <2>4, <2>6 DEF ReadsAllow, MayClose, Calls
  <2>8. CopiesMatch' /\ OnlyOpensFindNothing'
    BY <2>3, <2>4 DEF CopiesMatch, OnlyOpensFindNothing, TypeOK
  <2>9. PointerKept' /\ SavedByOthers'
    BY <2>3, <2>4 DEF PointerKept, SavedByOthers, Read, Calls
  <2> QED
    BY <2>5, <2>7, <2>8, <2>9
<1> QED
  BY <1>1, <1>2

LEMMA CreateKeeps == ASSUME BankInv, NEW c \in Calls, Create(c) PROVE BankInv'
<1> USE DEF BankInv
<1> DEFINE how == IF question = Absent THEN "saved" ELSE "lost"
<1>1. Ends(c, how)
  BY DEF Create
<1>2. how \in {"lost", "saved"}
  OBVIOUS
<1> HIDE DEF how
<1>3. /\ call' \in [Calls -> Call]
      /\ call'[c].pc = how /\ call'[c].copy = Absent
      /\ \A d \in Calls : d # c => call'[d] = call[d]
  BY <1>1, <1>2, EndKeepsCalls DEF TypeOK
<1>4. Asked \in Question /\ Asked.status = "OPEN" /\ Asked.closedBy = Absent
  BY DEF Asked, Question, Status
<1>5. question' \in {question, Asked} /\ call[c].pc = "read" /\ c \in Opens
  BY DEF Create
<1>6. TypeOK'
  BY <1>3, <1>4, <1>5 DEF TypeOK, Create
<1> QED
  BY <1>2, <1>3, <1>5, <1>6, BankAssumption DEF Create, ReadsAllow, CopiesMatch, OnlyOpensFindNothing, PointerKept, SavedByOthers, Calls, MayClose

\* What a call saves continues what it read.
LEMMA SaveContinues ==
  ASSUME BankInv, NEW c \in Calls, Save(c)
  PROVE  /\ call[c].pc = "read" /\ call[c].copy # Absent /\ call[c].copy \in Question
         /\ NextVersion(call[c].copy, c) \in Question
         /\ NextVersion(call[c].copy, c).status = "OPEN" <=> NextVersion(call[c].copy, c).closedBy = Absent
         /\ Continues(call[c].copy, NextVersion(call[c].copy, c))
<1> DEFINE q == call[c].copy
<1>1. call[c].pc = "read" /\ q # Absent
  BY DEF Save
<1>2. call[c] \in Call
  BY DEF BankInv, TypeOK
<1>3. q \in Question
  BY <1>1, <1>2 DEF Call
<1>4. (q.status = "OPEN" <=> q.closedBy = Absent) /\ (c \in Closers => MayClose(q, c))
  BY <1>1 DEF BankInv, CopiesMatch, ReadsAllow
<1> HIDE DEF q
<1>5. /\ NextVersion(q, c) \in Question
      /\ NextVersion(q, c).status = "OPEN" <=> NextVersion(q, c).closedBy = Absent
      /\ Continues(q, NextVersion(q, c))
  BY <1>3, <1>4, NextVersionContinues
<1> QED
  BY <1>1, <1>3, <1>5 DEF q

LEMMA SaveKeeps == ASSUME BankInv, NEW c \in Calls, Save(c) PROVE BankInv'
<1> DEFINE next == NextVersion(call[c].copy, c)
           how == IF Saves(next) THEN (IF c \in RuleOuts THEN "done" ELSE "saved") ELSE "refused"
<1>1. Ends(c, how) /\ question' \in {question, next}
  BY DEF Save
<1>2. how \in {"done", "saved", "refused"} /\ (how = "done" => c \in RuleOuts) /\ (how = "saved" => c \notin RuleOuts)
  OBVIOUS
<1>3. call[c].pc = "read" /\ next \in Question /\ (next.status = "OPEN" <=> next.closedBy = Absent)
  BY SaveContinues
<1>4. UNCHANGED <<expired, indexed, checkpoints, misses>>
  BY DEF Save
<1> HIDE DEF how, next
<1>5. /\ call' \in [Calls -> Call]
      /\ call'[c].pc = how /\ call'[c].copy = Absent
      /\ \A d \in Calls : d # c => call'[d] = call[d]
  BY <1>1, <1>2, EndKeepsCalls DEF BankInv, TypeOK
<1>6. TypeOK'
  BY <1>1, <1>3, <1>4, <1>5 DEF BankInv, TypeOK
<1>7. c \in RuleOuts => c \notin Opens /\ c \notin Closers
  BY BankAssumption
<1>8. PointerKept'
  BY <1>2, <1>3, <1>4, <1>5, <1>7 DEF BankInv, PointerKept, Calls
<1>9. ReadsAllow' /\ CopiesMatch' /\ OnlyOpensFindNothing' /\ SavedByOthers'
  BY <1>2, <1>5 DEF BankInv, ReadsAllow, CopiesMatch, OnlyOpensFindNothing, SavedByOthers, MayClose, Calls
<1> QED
  BY <1>6, <1>8, <1>9 DEF BankInv

LEMMA IndexKeeps == ASSUME BankInv, NEW c \in Calls, Index(c) \/ MissIndex(c) PROVE BankInv'
<1> USE DEF BankInv
<1> DEFINE how == IF Index(c) THEN "done" ELSE "missed"
<1>1. Ends(c, how) /\ call[c].pc = "saved"
  BY DEF Index, MissIndex
<1>2. how \in {"done", "missed"}
  OBVIOUS
<1>3. misses' \in 0..MaxMisses
  BY BankAssumption DEF Index, MissIndex, TypeOK
<1>4. UNCHANGED <<question, expired, checkpoints>> /\ indexed' \in BOOLEAN
  BY BankAssumption DEF Index, MissIndex, PointsTo, TypeOK
<1>5. /\ how = "done" /\ c \in Opens => (Indexable => indexed')
      /\ how = "missed" => indexed' = indexed
      /\ how = "done" => indexed' = PointsTo(c)
  BY DEF Index, MissIndex, PointsTo
<1> HIDE DEF how
<1>6. /\ call' \in [Calls -> Call]
      /\ call'[c].pc = how /\ call'[c].copy = Absent
      /\ \A d \in Calls : d # c => call'[d] = call[d]
  BY <1>1, <1>2, EndKeepsCalls DEF TypeOK
<1>7. TypeOK'
  BY <1>3, <1>4, <1>6 DEF TypeOK
<1>8. ReadsAllow' /\ CopiesMatch' /\ OnlyOpensFindNothing' /\ SavedByOthers'
  BY <1>2, <1>6 DEF ReadsAllow, CopiesMatch, OnlyOpensFindNothing, SavedByOthers, MayClose, Calls
<1>9. PointerKept'
  <2>1. CASE how = "missed"
    BY <1>1, <1>5, <1>6, <2>1 DEF PointerKept, Calls
  <2>2. CASE how = "done" /\ c \in Closers
    <3>1. call'[c].pc = "done"
      BY <1>6, <2>2
    <3>2. CASE Forgets
      BY <2>2, <3>1, <3>2 DEF PointerKept
    <3>3. CASE ~ Forgets
      <4>1. indexed' = indexed /\ c \notin Opens
        BY <1>5, <2>2, <3>3, BankAssumption DEF PointsTo, TypeOK
      <4>2. \A o \in Opens : call'[o].pc = call[o].pc
        BY <1>6, <4>1 DEF Calls
      <4> QED
        BY <3>3, <4>1, <4>2 DEF PointerKept
    <3> QED
      BY <3>2, <3>3
  <2>3. CASE how = "done" /\ c \in Opens
    BY <1>5, <2>3 DEF PointerKept
  <2>4. CASE how = "done" /\ c \in RuleOuts
    BY <1>1, <2>4 DEF SavedByOthers
  <2> QED
    BY <1>2, <2>1, <2>2, <2>3, <2>4 DEF Calls
<1> QED
  BY <1>7, <1>8, <1>9

LEMMA BankKeeps == BankInv /\ [BankNext]_bankVars => BankInv'
<1> SUFFICES ASSUME BankInv, [BankNext]_bankVars PROVE BankInv'
  OBVIOUS
<1>1. ASSUME NEW c \in Calls, Read(c) \/ Create(c) \/ Save(c) \/ Index(c) \/ MissIndex(c) PROVE BankInv'
  BY <1>1, ReadKeeps, CreateKeeps, SaveKeeps, IndexKeeps
<1>2. ASSUME NEW k \in Checkpoints, Checkpoint(k) PROVE BankInv'
  BY <1>2 DEF Checkpoint, BankInv, TypeOK, ReadsAllow, CopiesMatch, OnlyOpensFindNothing, PointerKept, SavedByOthers, MayClose
<1>3. CASE Expire
  BY <1>3 DEF Expire, BankInv, TypeOK, ReadsAllow, CopiesMatch, OnlyOpensFindNothing, PointerKept, SavedByOthers, MayClose
<1>4. CASE UNCHANGED bankVars
  BY <1>4 DEF bankVars, BankInv, TypeOK, ReadsAllow, CopiesMatch, OnlyOpensFindNothing, PointerKept, SavedByOthers, MayClose
<1> QED
  BY <1>1, <1>2, <1>3, <1>4 DEF BankNext

LEMMA BankHolds == BankSpec => []BankInv
BY BankBegins, BankKeeps, PTL DEF BankSpec

-----------------------------------------------------------------------------
\* Every reachable state has its types, and a question is open exactly as long
\* as nobody has closed it.
THEOREM QuestionTyped == BankSpec => []TypeOK
<1>1. BankInv => TypeOK
  BY DEF BankInv
<1> QED
  BY <1>1, BankHolds, PTL

\* However many calls there are, an open question that some pass has put into
\* the index is found there, unless a closing call removed the pointer.
THEOREM OpenQuestionsAreFindable == BankSpec => []OpenIsFindable
<1>1. BankInv => OpenIsFindable
  BY DEF BankInv, PointerKept, OpenIsFindable
<1> QED
  BY <1>1, BankHolds, PTL

\* What a step stores: the first version, or one that continues a copy.
LEMMA StoredContinues ==
  ASSUME BankInv, [BankNext]_bankVars, question # Absent, question' # question
  PROVE  \E c \in Calls : /\ Save(c) /\ question' = NextVersion(call[c].copy, c)
                          /\ Saves(question') /\ call[c].pc = "read" /\ call[c].copy # Absent
                          /\ Continues(call[c].copy, question')
<1>1. PICK c \in Calls : Save(c)
  BY DEF BankNext, bankVars, Read, Create, Index, MissIndex, Checkpoint, Expire
<1>2. question' = NextVersion(call[c].copy, c) /\ Saves(question')
  BY <1>1 DEF Save
<1> QED
  BY <1>1, <1>2, SaveContinues

\* No interleaving of reads and writes, of any number of calls, takes an answer
\* back.
THEOREM AnswersStay == BankSpec => AnsweredStaysAnswered
<1>1. ASSUME BankInv, [BankNext]_bankVars
      PROVE  [question # Absent /\ question.status = "RESOLVED" => (question # Absent /\ question.status = "RESOLVED")']_bankVars
  <2> SUFFICES ASSUME question # Absent, question.status = "RESOLVED"
               PROVE  (question # Absent /\ question.status = "RESOLVED")'
    OBVIOUS
  <2>1. CASE question' = question
    BY <2>1
  <2>2. CASE question' # question
    <3>1. PICK c \in Calls : Save(c) /\ question' = NextVersion(call[c].copy, c) /\ Saves(question')
      BY <1>1, <2>2, StoredContinues
    <3>2. question' \in Question
      BY <1>1, <3>1, SaveContinues
    <3>3. Absent \notin Question
      BY BankAssumption
    <3> QED
      BY <3>1, <3>2, <3>3 DEF Saves
  <2> QED
    BY <2>1, <2>2
<1> QED
  BY <1>1, BankHolds, PTL DEF BankSpec, AnsweredStaysAnswered

\* Whatever a stored version takes back was recorded after the call that saves
\* it had read the question.
THEOREM LossNeedsStaleness == BankSpec => OnlyStaleWritesLose
<1>1. ASSUME BankInv, [BankNext]_bankVars
      PROVE  [question # Absent /\ question' # question =>
                \E c \in Calls : call[c].pc = "read" /\ call[c].copy # Absent /\ Continues(call[c].copy, question')]_bankVars
  BY <1>1, StoredContinues
<1> QED
  BY <1>1, BankHolds, PTL DEF BankSpec, OnlyStaleWritesLose
=============================================================================
