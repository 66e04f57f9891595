-------------------------- MODULE ReportSynthesis --------------------------
(***************************************************************************)
(* The recorder's synthesis (agents/graphs/recorder.py), run by            *)
(* neris_draft() while an incident is closed: the questions the head's     *)
(* briefing names are examined one by one, and answered in the memory bank *)
(* where the incident observed an identifier the question names; then the  *)
(* report is drafted.  Other passes write to the bank, and the incident's  *)
(* log still grows.  A question's own life is MemoryBank's: here it is     *)
(* open, abandoned or answered, and an answer is not taken back. Tallies,  *)
(* leads and the checks of the model's wording are not modelled.           *)
(***************************************************************************)
EXTENDS GraphDriver

CONSTANTS Remembered,  \* questions of the slow loop
          Names,       \* the identifiers each of them names
          Observable,  \* identifiers a crew may observe or settle
          Here,        \* the questions about the incident's building
          Readable     \* the questions the recorder may read

\* Who wrote the narrative of the report.
Narratives == {"deterministic", "model"}

WellFormed ==
  /\ IsFiniteSet(Remembered) /\ DOMAIN Names = Remembered
  /\ None \notin Remembered \cup Narratives
  /\ (\A S \in SUBSET Remembered : S # None) /\ \A S \in SUBSET Observable : S # None
  /\ Here \cup Readable \subseteq Remembered

VARIABLES banked,      \* a memory bank is wired
          onScene,     \* what the log says was observed
          latest,      \* the questions of the latest briefing in the log
          bank,        \* each question: open, abandoned, or who answered it
          evidence, named, tried, \* what the graph read, and examined so far
          examining,   \* the question that was read and is about to be written
          resolved, examined, narrative, \* what comes of it
          letGo      \* what was found closed, elsewhere or withheld, or refused

graphVars == <<evidence, named, tried, examining, resolved, examined, letGo,
               narrative>>
reportVars == <<banked, onScene, latest, bank, graphVars>>

Fresh ==
  /\ evidence = None /\ named = None /\ tried = {} /\ examining = None
  /\ resolved = {} /\ examined = {} /\ letGo = {} /\ narrative = None

Blank ==
  /\ Fresh /\ banked = FALSE /\ onScene = {} /\ latest = None
  /\ bank = [q \in Remembered |-> "OPEN"]

Init ==
  /\ Begins("assemble") /\ Fresh /\ banked \in BOOLEAN
  /\ onScene \in SUBSET Observable /\ latest \in {None} \cup SUBSET Remembered
  /\ bank = [q \in Remembered |-> "OPEN"]

-----------------------------------------------------------------------------
Pending == IF named = None THEN {} ELSE named \ tried

NextNode ==
  IF evidence = None THEN "assemble" ELSE IF named = None THEN "focus"
  ELSE IF Pending # {} THEN "answer" ELSE IF narrative = None THEN "draft" ELSE STOP

Goes == at' = Routed(NextNode)'

Assemble ==
  /\ Charge("assemble") /\ evidence' = onScene
  /\ UNCHANGED <<stop, ruledOut, banked, onScene, latest, bank, named, tried, examining,
                 resolved, examined, letGo, narrative>>
  /\ Goes

\* read_leads(): a briefing that cannot be read is none.
ReadBriefing ==
  /\ Charge("focus") /\ named' \in {IF latest = None THEN {} ELSE latest, {}}
  /\ UNCHANGED <<stop, ruledOut, banked, onScene, latest, bank, evidence, tried, examining,
                 resolved, examined, letGo, narrative>>
  /\ Goes

\* _examine() reads the question: one that is closed, elsewhere or withheld is
\* let go.
WorthExamining(q) == q \in Readable \cap Here /\ bank[q] = "OPEN"

Answer ==
  /\ Charge("answer")
  /\ UNCHANGED <<stop, ruledOut, banked, onScene, latest, bank, evidence, named, resolved,
                 examined, narrative>>
  /\ \/ ~ banked /\ tried' = named /\ UNCHANGED <<examining, letGo>> /\ Goes
     \/ banked /\ \E q \in Pending :
          /\ tried' = tried \cup {q}
          /\ IF WorthExamining(q)
               THEN examining' = q /\ at' = "examining" /\ UNCHANGED letGo
               ELSE letGo' = letGo \cup {q} /\ UNCHANGED examining /\ Goes

\* answered_by().
Answers(q) == Names[q] \cap evidence

Matched == examining # None /\ Answers(examining) # {}
Missed == examining # None /\ Answers(examining) = {}

\* resolve(): an answer another pass gave since the question was read is
\* replaced, if the bank has not seen it first (Refused).
Resolved == [bank EXCEPT ![examining] = "ours"]

\* rule_out(): a question abandoned since then may be written back open.
RuledOut ==
  {bank} \cup (IF bank[examining] = "ABANDONED" THEN {[bank EXCEPT ![examining] = "OPEN"]} ELSE {})

Written ==
  /\ examined' = examined \cup {examining} /\ examining' = None
  /\ UNCHANGED <<stop, budgetVars, threads, banked, onScene, latest, evidence, named, tried,
                 letGo, narrative>>
  /\ Goes

Resolve ==
  /\ at = "examining" /\ Matched
  /\ bank' = Resolved /\ resolved' = resolved \cup {examining}
  /\ UNCHANGED ruledOut /\ Written

RuleOut ==
  /\ at = "examining" /\ Missed
  /\ bank' \in RuledOut /\ ruledOut' = ruledOut \cup {"incident"}
  /\ UNCHANGED resolved /\ Written

\* The bank refuses the write: another pass has answered the question, or there
\* are too many writers.
Refused ==
  /\ at = "examining" /\ letGo' = letGo \cup {examining} /\ examining' = None
  /\ UNCHANGED <<stop, budgetVars, ruledOut, threads, banked, onScene, latest, bank, evidence,
                 named, tried, resolved, examined, narrative>>
  /\ Goes

\* The floor ships, or what the model made of it.
Draft ==
  /\ Charge("draft") /\ narrative' \in Narratives /\ stop' = "CLOSED"
  /\ UNCHANGED <<ruledOut, banked, onScene, latest, bank, evidence, named, tried, examining,
                 resolved, examined, letGo>>
  /\ Goes

Park ==
  /\ Charge("park") /\ narrative' = "deterministic"
  /\ stop' = IF Exhausted' # None THEN Exhausted' ELSE "OUT_OF_TIME"
  /\ UNCHANGED <<ruledOut, banked, onScene, latest, bank, evidence, named, tried, examining,
                 resolved, examined, letGo>>
  /\ Goes

Report ==
  /\ at = STOP /\ at' = "over"
  /\ UNCHANGED <<stop, budgetVars, ruledOut, threads, reportVars>>

\* A log that cannot be read, or a bank that breaks in a read or a write, ends
\* the close before the log is sealed; the write may have been made.
Breaks ==
  /\ at \in {"assemble", "answer", "examining"} /\ at' = "failed"
  /\ bank' \in {bank} \cup (IF at # "examining" THEN {} ELSE IF Matched THEN {Resolved} ELSE RuledOut)
  /\ UNCHANGED <<stop, budgetVars, ruledOut, threads, banked, onScene, latest, graphVars>>

-----------------------------------------------------------------------------
Running == at \notin {"over", "failed"}

\* Another pass answers a question, gives it up, or writes it back open after
\* that; an answer gives way only to another one.
Others ==
  /\ Running
  /\ \E q \in Remembered :
       \/ bank' = [bank EXCEPT ![q] = "theirs"]
       \/ bank[q] = "OPEN" /\ bank' = [bank EXCEPT ![q] = "ABANDONED"]
       \/ bank[q] = "ABANDONED" /\ bank' = [bank EXCEPT ![q] = "OPEN"]
  /\ UNCHANGED <<driverVars, banked, onScene, latest, graphVars>>

\* What was under way when the close began is still recorded.
LogGrows ==
  /\ Running
  /\ \/ \E o \in Observable \ onScene : onScene' = onScene \cup {o} /\ UNCHANGED latest
     \/ latest' \in SUBSET Remembered /\ UNCHANGED onScene
  /\ UNCHANGED <<driverVars, banked, bank, graphVars>>

\* The next incident at the building, which finds the answers of this one.
NextPass ==
  /\ BeginsAgain("assemble")
  /\ evidence' = None /\ named' = None /\ tried' = {} /\ examining' = None
  /\ resolved' = {} /\ examined' = {} /\ letGo' = {} /\ narrative' = None
  /\ onScene' \in SUBSET Observable /\ latest' \in {None} \cup SUBSET Remembered
  /\ bank' = [q \in Remembered |-> IF bank[q] = "ours" THEN "theirs" ELSE bank[q]]
  /\ UNCHANGED banked

Next ==
  \/ Assemble \/ ReadBriefing \/ Answer \/ Resolve \/ RuleOut \/ Refused \/ Draft \/ Park
  \/ Report \/ Breaks \/ Others \/ LogGrows \/ NextPass
=============================================================================
