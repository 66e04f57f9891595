---------------------- MODULE IncidentLifecycleProofs ----------------------
(***************************************************************************)
(* What IncidentLifecycle guarantees for any number of concurrent calls,   *)
(* failures and outages of the records system.                             *)
(***************************************************************************)
EXTENDS IncidentLifecycle, SequenceTheorems, TLAPS

\* A call that is about to save holds an incident it has read.
HoldsIncident ==
  \A a \in Savers : pc[a] \in {"close", "save"} => copy[a] \in Incident

\* A call that has not raised has an attempt left.
AttemptsLeft == \A a \in Writers : a \notin raised => attempt[a] < MaxAttempts

TypeInv == TypeOK /\ HoldsIncident /\ AttemptsLeft

LEMMA InitType == Init => TypeInv
<1> SUFFICES ASSUME Init PROVE TypeInv
  OBVIOUS
<1> USE IncidentAssumption
<1>1. header \in Header /\ docs \in [DOMAIN docs -> Entry] /\ DOMAIN docs \subseteq Nat
  BY DEF Init, LogInit, Header, Entry
<1>2. pc \in [Calls -> Steps]
  BY DEF Init, FirstStep, Steps
<1>3. rms \in [DOMAIN rms -> Lines] /\ DOMAIN rms \subseteq Nat
  BY DEF Init
<1>4. HoldsIncident
  BY DEF Init, HoldsIncident, FirstStep, Calls, Writers, Savers
<1>5. AttemptsLeft
  BY DEF Init, AttemptsLeft
<1> QED
  BY <1>1, <1>2, <1>3, <1>4, <1>5 DEF Init, TypeInv, TypeOK

\* Steps that leave the incident and every held copy alone.
LEMMA HoldsIncidentKept ==
  ASSUME TypeInv, NEW a \in Calls, NEW step, step \notin {"close", "save"},
         UNCHANGED copy, Goto(a, step)
  PROVE  HoldsIncident'
  BY DEF Goto, TypeInv, TypeOK, HoldsIncident, Savers, Writers, Calls

LEMMA OpeningType == TypeInv /\ (Mint \/ Create) => TypeInv'
<1> SUFFICES ASSUME TypeInv, Mint \/ Create PROVE TypeInv'
  OBVIOUS
<1>0. Opener \in Savers /\ Opener \in Calls
  BY DEF Savers, Writers, Calls
<1>1. CASE Mint
  <2>1. HoldsIncident'
    BY <1>0, <1>1, HoldsIncidentKept DEF Mint, locals
  <2> QED
    BY <1>0, <1>1, <2>1 DEF Mint, Goto, TypeInv, TypeOK, AttemptsLeft, Steps, locals, LogVars
<1>2. CASE Create
  <2>1. incident' \in Incident
    BY <1>2 DEF Create, Incident
  <2>2. copy' \in [Savers -> Incident \cup {NoIncident}]
    BY <1>0, <1>2, <2>1 DEF Create, TypeInv, TypeOK
  <2>3. HoldsIncident'
    BY <1>0, <1>2, <2>1 DEF Create, Goto, TypeInv, TypeOK, HoldsIncident, Savers, Writers, Calls
  <2>4. pc' \in [Calls -> Steps] /\ raised' \subseteq Calls
    BY <1>0, <1>2 DEF Create, Goto, TypeInv, TypeOK, Steps
  <2>5. AttemptsLeft'
    BY <1>2 DEF Create, Goto, TypeInv, AttemptsLeft
  <2> QED
    BY <1>2, <2>1, <2>2, <2>3, <2>4, <2>5 DEF Create, TypeInv, TypeOK, LogVars
<1> QED
  BY <1>1, <1>2

LEMMA LoadType ==
  ASSUME TypeInv, NEW a \in Calls, Load(a) PROVE TypeInv'
<1>1. a \in Savers /\ incident \in Incident
  BY DEF Load, Savers, TypeInv, TypeOK
<1>2. pc' \in [Calls -> Steps] /\ raised' \subseteq Calls
  BY DEF Load, Goto, TypeInv, TypeOK, Steps
<1>3. HoldsIncident'
  BY <1>1 DEF Load, Goto, TypeInv, TypeOK, HoldsIncident, Savers, Writers, Calls
<1> QED
  BY <1>1, <1>2, <1>3 DEF Load, Goto, TypeInv, TypeOK, AttemptsLeft, world, LogVars

LEMMA SaveClosedType ==
  ASSUME TypeInv, NEW a \in Calls, SaveClosed(a) PROVE TypeInv'
<1>1. a \in Savers /\ copy[a] \in Incident
  BY DEF SaveClosed, Running, Savers, TypeInv, HoldsIncident
<1>2. copy'[a] = [copy[a] EXCEPT !.status = "CLOSED"]
  BY <1>1 DEF SaveClosed, TypeInv, TypeOK
<1>3. copy'[a] \in Incident
  BY <1>1, <1>2 DEF Incident
<1>4. incident' \in Incident /\ copy' \in [Savers -> Incident \cup {NoIncident}]
  BY <1>1, <1>3 DEF SaveClosed, TypeInv, TypeOK
<1>5. pc' \in [Calls -> Steps] /\ raised' \subseteq Calls
  BY DEF SaveClosed, Goto, TypeInv, TypeOK, Steps
<1>6. HoldsIncident'
  BY <1>1, <1>3 DEF SaveClosed, Goto, TypeInv, TypeOK, HoldsIncident, Savers, Writers, Calls
<1> QED
  BY <1>4, <1>5, <1>6 DEF SaveClosed, Goto, TypeInv, TypeOK, AttemptsLeft, LogVars

LEMMA SaveBenchmarkType ==
  ASSUME TypeInv, NEW a \in Calls, SaveBenchmark(a) PROVE TypeInv'
<1>1. a \in Savers /\ copy[a] \in Incident
  BY DEF SaveBenchmark, Running, TypeInv, HoldsIncident
<1>2. incident' \in Incident
  BY <1>1 DEF SaveBenchmark, Incident
<1>3. pc' \in [Calls -> Steps] /\ raised' \subseteq Calls
  BY DEF SaveBenchmark, Goto, TypeInv, TypeOK, Steps
<1>4. HoldsIncident'
  BY <1>1 DEF SaveBenchmark, Goto, TypeInv, TypeOK, HoldsIncident, Savers, Writers, Calls
<1> QED
  BY <1>2, <1>3, <1>4 DEF SaveBenchmark, Goto, TypeInv, TypeOK, AttemptsLeft, LogVars

LEMMA AppendType ==
  ASSUME TypeInv, NEW a \in Calls, CommitEntry(a) PROVE TypeInv'
<1>1. a \in Writers /\ a \in Lines /\ sequence[a] \in Nat
  BY IncidentAssumption DEF CommitEntry, TypeInv, TypeOK
<1>2. header' \in Header
  BY DEF CommitEntry, AppendEntry, TypeInv, TypeOK, Header
<1>3. /\ docs' \in [DOMAIN docs' -> Entry]
      /\ DOMAIN docs' = DOMAIN docs \cup {sequence[a]}
      /\ DOMAIN docs' \subseteq Nat
  BY <1>1 DEF CommitEntry, AppendEntry, TypeInv, TypeOK, Entry
<1>4. AfterAppend(a) \in Steps /\ AfterAppend(a) \notin {"close", "save"}
  BY DEF AfterAppend, Steps
<1>5. pc' \in [Calls -> Steps] /\ raised' \subseteq Calls
  BY <1>4 DEF CommitEntry, Goto, TypeInv, TypeOK
<1>6. HoldsIncident'
  BY <1>4, HoldsIncidentKept DEF CommitEntry
<1>7. pending' \in [Calls -> SUBSET DOMAIN docs']
  BY <1>3 DEF CommitEntry, TypeInv, TypeOK
<1>8. sequence' \in [Writers -> Nat] /\ attempt' \in [Writers -> 0..MaxAttempts]
  BY IncidentAssumption DEF CommitEntry, TypeInv, TypeOK
<1>9. AttemptsLeft'
  BY IncidentAssumption DEF CommitEntry, Goto, TypeInv, TypeOK, AttemptsLeft
<1> QED
  BY <1>2, <1>3, <1>5, <1>6, <1>7, <1>8, <1>9 DEF CommitEntry, TypeInv, TypeOK, world

LEMMA CommitType ==
  ASSUME TypeInv, NEW a \in Calls,
         ReadSequence(a) \/ LoseRace(a) \/ RefuseSealed(a) \/ Show(a)
  PROVE  TypeInv'
<1>1. CASE ReadSequence(a)
  <2>1. HoldsIncident'
    BY <1>1, HoldsIncidentKept DEF ReadSequence
  <2> QED
    BY <1>1, <2>1 DEF ReadSequence, Goto, TypeInv, TypeOK, AttemptsLeft, Steps, Header, world, LogVars
<1>2. CASE LoseRace(a)
  <2>1. a \in Writers /\ attempt[a] \in 0..MaxAttempts
    BY <1>2 DEF LoseRace, TypeInv, TypeOK
  <2>2. CASE attempt[a] + 1 < MaxAttempts
    <3>1. Goto(a, "read")
      BY <1>2, <2>2 DEF LoseRace, AfterLostRace
    <3>2. HoldsIncident'
      BY <1>2, <3>1, HoldsIncidentKept DEF LoseRace
    <3> QED
      BY <1>2, <2>1, <2>2, <3>1, <3>2, IncidentAssumption
         DEF LoseRace, Goto, TypeInv, TypeOK, AttemptsLeft, Steps, world, LogVars
  <2>3. CASE ~(attempt[a] + 1 < MaxAttempts)
    <3>1. RaiseIn(a)
      BY <1>2, <2>3 DEF LoseRace, AfterLostRace
    <3>2. attempt' \in [Writers -> 0..MaxAttempts]
      <4>1. attempt[a] < MaxAttempts
        BY <1>2, <2>1 DEF LoseRace, Running, TypeInv, AttemptsLeft
      <4> QED
        BY <1>2, <2>1, <4>1, IncidentAssumption DEF LoseRace, TypeInv, TypeOK
    <3> QED
      BY <1>2, <3>1, <3>2 DEF LoseRace, RaiseIn, TypeInv, TypeOK, HoldsIncident, AttemptsLeft, world, LogVars
  <2> QED
    BY <2>2, <2>3
<1>3. CASE RefuseSealed(a)
  BY <1>3 DEF RefuseSealed, RaiseIn, TypeInv, TypeOK, HoldsIncident, AttemptsLeft, world, locals, LogVars
<1>4. CASE Show(a)
  <2>1. HoldsIncident'
    BY <1>4, HoldsIncidentKept DEF Show, locals
  <2> QED
    BY <1>4, <2>1 DEF Show, Goto, TypeInv, TypeOK, AttemptsLeft, Steps, locals, LogVars
<1> QED
  BY <1>1, <1>2, <1>3, <1>4

LEMMA FlushType ==
  ASSUME TypeInv, NEW a \in Calls,
         ListUnflushed(a) \/ DeferFlush(a) \/ \E s \in pending[a] : Execute(a, s) \/ Mark(a, s)
  PROVE  TypeInv'
<1>0. AfterDrain(a) \in Steps /\ AfterDrain(a) \notin {"close", "save"}
  BY DEF AfterDrain, Steps
<1>1. CASE ListUnflushed(a)
  <2> DEFINE step == IF Unflushed = {} THEN AfterDrain(a) ELSE "execute"
  <2>1. step \in Steps /\ step \notin {"close", "save"}
    BY <1>0 DEF Steps
  <2>2. Goto(a, step)
    BY <1>1 DEF ListUnflushed
  <2>3. HoldsIncident'
    BY <1>1, <2>1, <2>2, HoldsIncidentKept DEF ListUnflushed
  <2>4. pending' \in [Calls -> SUBSET DOMAIN docs]
    BY <1>1 DEF ListUnflushed, Unflushed, TypeInv, TypeOK
  <2> QED
    BY <1>1, <2>1, <2>2, <2>3, <2>4
       DEF ListUnflushed, Goto, TypeInv, TypeOK, AttemptsLeft, world, LogVars
<1>2. CASE DeferFlush(a)
  <2>1. HoldsIncident'
    BY <1>0, <1>2, HoldsIncidentKept DEF DeferFlush
  <2>2. pending' \in [Calls -> SUBSET DOMAIN docs]
    BY <1>2 DEF DeferFlush, TypeInv, TypeOK
  <2> QED
    BY <1>0, <1>2, <2>1, <2>2 DEF DeferFlush, Goto, TypeInv, TypeOK, AttemptsLeft, world, LogVars
<1>3. ASSUME NEW s \in pending[a], Execute(a, s) PROVE TypeInv'
  <2>1. s \in DOMAIN docs /\ s \in Nat /\ docs[s].line \in Lines
    BY <1>3 DEF TypeInv, TypeOK, Entry
  <2>2. rms' \in [DOMAIN rms' -> Lines] /\ DOMAIN rms' \subseteq Nat
    BY <1>3, <2>1 DEF Execute, TypeInv, TypeOK
  <2>3. HoldsIncident'
    BY <1>3, HoldsIncidentKept DEF Execute, locals
  <2> QED
    BY <1>3, <2>2, <2>3 DEF Execute, Goto, TypeInv, TypeOK, AttemptsLeft, Steps, locals, LogVars
<1>4. ASSUME NEW s \in pending[a], Mark(a, s) PROVE TypeInv'
  <2> DEFINE step == IF pending[a] = {s} THEN AfterDrain(a) ELSE "execute"
  <2>1. step \in Steps /\ step \notin {"close", "save"} /\ Goto(a, step)
    BY <1>0, <1>4 DEF Steps, Mark
  <2>2. s \in DOMAIN docs
    BY DEF TypeInv, TypeOK
  <2>3. docs' \in [DOMAIN docs -> Entry] /\ DOMAIN docs' = DOMAIN docs
    <3>1. docs[s] \in Entry /\ [docs[s] EXCEPT !.written = TRUE] \in Entry
      BY <2>2 DEF TypeInv, TypeOK, Entry
    <3>2. docs' = [docs EXCEPT ![s] = [docs[s] EXCEPT !.written = TRUE]]
      BY <1>4 DEF Mark, MarkWrittenToRms
    <3> QED
      BY <2>2, <3>1, <3>2 DEF TypeInv, TypeOK
  <2>4. pending' \in [Calls -> SUBSET DOMAIN docs]
    BY <1>4 DEF Mark, TypeInv, TypeOK
  <2>5. HoldsIncident'
    BY <1>4, <2>1, HoldsIncidentKept DEF Mark
  <2> QED
    BY <1>4, <2>1, <2>3, <2>4, <2>5
       DEF Mark, MarkWrittenToRms, Goto, TypeInv, TypeOK, AttemptsLeft, world
<1> QED
  BY <1>1, <1>2, <1>3, <1>4

LEMMA CloseType ==
  ASSUME TypeInv, NEW a \in Calls, Revoke(a) \/ Draft(a) \/ Seal(a) PROVE TypeInv'
<1>1. CASE Revoke(a)
  <2>1. HoldsIncident'
    BY <1>1, HoldsIncidentKept DEF Revoke, locals
  <2> QED
    BY <1>1, <2>1 DEF Revoke, Goto, TypeInv, TypeOK, AttemptsLeft, Steps, locals, LogVars
<1>2. CASE Draft(a)
  <2>1. HoldsIncident'
    BY <1>2, HoldsIncidentKept DEF Draft, locals
  <2> QED
    BY <1>2, <2>1 DEF Draft, Goto, TypeInv, TypeOK, AttemptsLeft, Steps, world, locals, LogVars
<1>3. CASE Seal(a)
  <2>1. HoldsIncident'
    BY <1>3, HoldsIncidentKept DEF Seal, locals
  <2>2. header' \in Header
    BY <1>3 DEF Seal, SealLog, TypeInv, TypeOK, Header
  <2> QED
    BY <1>3, <2>1, <2>2
       DEF Seal, SealLog, Goto, TypeInv, TypeOK, AttemptsLeft, Steps, world, locals
<1> QED
  BY <1>1, <1>2, <1>3

LEMMA EnvironmentType ==
  ASSUME TypeInv, RmsFails \/ RmsRecovers \/ \E a \in Calls : Raise(a) PROVE TypeInv'
<1>1. CASE RmsFails
  <2>1. outages' \in 0..MaxOutages
    BY <1>1, IncidentAssumption DEF RmsFails, TypeInv, TypeOK
  <2> QED
    BY <1>1, <2>1 DEF RmsFails, TypeInv, TypeOK, HoldsIncident, AttemptsLeft, locals, LogVars
<1>3. CASE RmsRecovers
  BY <1>3 DEF RmsRecovers, TypeInv, TypeOK, HoldsIncident, AttemptsLeft, locals, LogVars
<1>2. ASSUME NEW a \in Calls, Raise(a) PROVE TypeInv'
  BY <1>2, IncidentAssumption
     DEF Raise, RaiseIn, TypeInv, TypeOK, HoldsIncident, AttemptsLeft, locals, LogVars
<1> QED
  BY <1>1, <1>2, <1>3

LEMMA NextType == TypeInv /\ [Next]_vars => TypeInv'
<1> SUFFICES ASSUME TypeInv, [Next]_vars PROVE TypeInv'
  OBVIOUS
<1>1. ASSUME NEW a \in Calls, Step(a) PROVE TypeInv'
  BY <1>1, OpeningType, LoadType, SaveClosedType, SaveBenchmarkType, AppendType, CommitType,
     FlushType, CloseType DEF Step
<1>2. CASE UNCHANGED vars
  BY <1>2 DEF vars, TypeInv, TypeOK, HoldsIncident, AttemptsLeft
<1> QED
  BY <1>1, <1>2, EnvironmentType DEF Next

\* Every variable keeps its type, whatever the calls and their number.
THEOREM TypeCorrect == Spec => []TypeOK
<1>1. TypeInv => TypeOK
  BY DEF TypeInv
<1> QED
  BY <1>1, InitType, NextType, PTL DEF Spec

-----------------------------------------------------------------------------
(***************************************************************************)
(* The log.  Only three steps touch it.                                    *)
(***************************************************************************)
LogStep == \/ \E a \in Calls : CommitEntry(a)
           \/ \E a \in Calls, s \in Nat : s \in pending[a] /\ Mark(a, s)
           \/ \E c \in Closers : Seal(c)

LEMMA LogSteps == TypeInv /\ [Next]_vars => LogStep \/ UNCHANGED LogVars
<1> SUFFICES ASSUME TypeInv, [Next]_vars PROVE LogStep \/ UNCHANGED LogVars
  OBVIOUS
<1>1. ASSUME NEW a \in Calls, Step(a) PROVE LogStep \/ UNCHANGED LogVars
  <2>1. CASE CommitEntry(a) \/ Seal(a)
    BY <2>1 DEF LogStep, Seal
  <2>2. ASSUME NEW s \in pending[a], Mark(a, s) PROVE LogStep
    BY <2>2 DEF LogStep, TypeInv, TypeOK
  <2> QED
    BY <1>1, <2>1, <2>2
       DEF Step, Mint, Create, Load, SaveClosed, SaveBenchmark, ReadSequence, LoseRace,
           RefuseSealed, Show, ListUnflushed, DeferFlush, Execute, Revoke, Draft
<1>2. ASSUME NEW a \in Calls, Raise(a) PROVE UNCHANGED LogVars
  BY <1>2 DEF Raise
<1>3. CASE RmsFails \/ RmsRecovers
  BY <1>3 DEF RmsFails, RmsRecovers
<1>4. CASE UNCHANGED vars
  BY <1>4 DEF vars, LogVars
<1> QED
  BY <1>1, <1>2, <1>3, <1>4 DEF Next

\* What an append, a mark and a seal do to the documents.
LEMMA CommitEffect ==
  ASSUME TypeInv, Gapless, NEW a \in Calls, CommitEntry(a)
  PROVE  /\ a \in Writers /\ pc[a] = "append" /\ ~header.sealed
         /\ header.next \in Nat /\ header.next \notin DOMAIN docs
         /\ header'.next = header.next + 1 /\ header'.sealed = header.sealed
         /\ DOMAIN docs' = DOMAIN docs \cup {header.next}
         /\ docs'[header.next].line = a /\ docs'[header.next].written = FALSE
         /\ \A s \in DOMAIN docs : docs'[s] = docs[s]
         /\ \A s \in DOMAIN docs : docs'[s].line = docs[s].line
         /\ Recorded' = Recorded \cup {a}
<1>1. /\ a \in Writers /\ pc[a] = "append" /\ ~header.sealed /\ sequence[a] = header.next
      /\ header.next \in Nat
  BY DEF CommitEntry, AppendEntry, Running, Sealed, InSequence, TypeInv, TypeOK, Header
<1>2. header.next \notin DOMAIN docs
  BY <1>1 DEF Gapless
<1>3. header'.next = header.next + 1 /\ header'.sealed = header.sealed
  BY DEF CommitEntry, AppendEntry, TypeInv, TypeOK, Header
<1>4. docs' = [s \in DOMAIN docs \cup {header.next} |->
                 IF s = header.next THEN [line |-> a, written |-> FALSE] ELSE docs[s]]
  BY <1>1 DEF CommitEntry, AppendEntry
<1>5. /\ DOMAIN docs' = DOMAIN docs \cup {header.next}
      /\ docs'[header.next] = [line |-> a, written |-> FALSE]
      /\ \A s \in DOMAIN docs : docs'[s] = docs[s]
  BY <1>2, <1>4
<1>7. docs'[header.next].line = a /\ docs'[header.next].written = FALSE
  BY <1>5
<1>8. \A s \in DOMAIN docs : docs'[s].line = docs[s].line
  BY <1>5
<1>6. Recorded' = Recorded \cup {a}
  BY <1>5, <1>7, <1>8 DEF Recorded
<1> QED
  BY <1>1, <1>2, <1>3, <1>5, <1>6, <1>7, <1>8

LEMMA MarkEffect ==
  ASSUME TypeInv, NEW a \in Calls, NEW s \in pending[a], Mark(a, s)
  PROVE  /\ s \in DOMAIN docs /\ header' = header
         /\ DOMAIN docs' = DOMAIN docs
         /\ \A t \in DOMAIN docs : docs'[t].line = docs[t].line
         /\ \A t \in DOMAIN docs : docs'[t].written <=> docs[t].written \/ t = s
         /\ Recorded' = Recorded
<1>1. s \in DOMAIN docs
  BY DEF TypeInv, TypeOK
<1>2. docs' = [docs EXCEPT ![s] = [docs[s] EXCEPT !.written = TRUE]] /\ header' = header
  BY DEF Mark, MarkWrittenToRms
<1>3. /\ DOMAIN docs' = DOMAIN docs
      /\ \A t \in DOMAIN docs : t # s => docs'[t] = docs[t]
      /\ docs'[s] = [docs[s] EXCEPT !.written = TRUE]
  BY <1>1, <1>2 DEF TypeInv, TypeOK
<1>4. docs[s] \in Entry
  BY <1>1 DEF TypeInv, TypeOK
<1>5. docs'[s].line = docs[s].line /\ docs'[s].written = TRUE
  BY <1>3, <1>4 DEF Entry
<1>6. /\ \A t \in DOMAIN docs : docs'[t].line = docs[t].line
      /\ \A t \in DOMAIN docs : docs'[t].written <=> docs[t].written \/ t = s
  BY <1>3, <1>5
<1>7. Recorded' = Recorded
  BY <1>3, <1>6 DEF Recorded
<1> QED
  BY <1>1, <1>2, <1>3, <1>6, <1>7

LEMMA SealEffect ==
  ASSUME TypeInv, NEW c \in Closers, Seal(c)
  PROVE  /\ header'.next = header.next /\ header'.sealed /\ docs' = docs
         /\ Recorded' = Recorded
  BY DEF Seal, SealLog, TypeInv, TypeOK, Header, Recorded

LEMMA GaplessStep == TypeInv /\ Gapless /\ [Next]_vars => Gapless'
<1> SUFFICES ASSUME TypeInv, Gapless, [Next]_vars PROVE Gapless'
  OBVIOUS
<1>1. ASSUME NEW a \in Calls, CommitEntry(a) PROVE Gapless'
  <2>1. /\ header.next \in Nat /\ header'.next = header.next + 1
        /\ DOMAIN docs' = DOMAIN docs \cup {header.next}
    BY <1>1, CommitEffect
  <2>2. 0..(header.next - 1) \cup {header.next} = 0..(header.next + 1 - 1)
    BY <2>1
  <2> QED
    BY <2>1, <2>2 DEF Gapless
<1>2. ASSUME NEW a \in Calls, NEW s \in pending[a], Mark(a, s) PROVE Gapless'
  BY <1>2, MarkEffect DEF Gapless
<1>3. ASSUME NEW c \in Closers, Seal(c) PROVE Gapless'
  BY <1>3, SealEffect DEF Gapless
<1>4. CASE UNCHANGED LogVars
  BY <1>4 DEF LogVars, Gapless
<1> QED
  BY <1>1, <1>2, <1>3, <1>4, LogSteps DEF LogStep

\* The counter and the documents agree for ever, so the log can be read back.
THEOREM LogIsGapless == Spec => []Gapless
<1>1. Init => Gapless
  BY DEF Init, LogInit, Gapless
<1> QED
  BY <1>1, InitType, NextType, GaplessStep, PTL DEF Spec

-----------------------------------------------------------------------------
(***************************************************************************)
(* Acknowledged calls and recorded entries are the same.                   *)
(***************************************************************************)
LogInv == TypeInv /\ Gapless /\ AcknowledgedIsRecorded

\* But for the append, no step takes a call past it.
LEMMA PhaseKept ==
  ASSUME TypeInv, [Next]_vars, ~ \E a \in Calls : CommitEntry(a)
  PROVE  \A w \in Writers : pc'[w] \in BeforeAppend <=> pc[w] \in BeforeAppend
<1> USE DEF BeforeAppend
<1>1. ASSUME NEW a \in Calls, NEW from, NEW to, pc[a] = from, Goto(a, to),
             from \in BeforeAppend <=> to \in BeforeAppend
      PROVE  \A w \in Writers : pc'[w] \in BeforeAppend <=> pc[w] \in BeforeAppend
  BY <1>1 DEF Goto, TypeInv, TypeOK
<1>2. ASSUME NEW a \in Calls, Step(a)
      PROVE  \A w \in Writers : pc'[w] \in BeforeAppend <=> pc[w] \in BeforeAppend
  <2>1. CASE a = Opener /\ (Mint \/ Create)
    BY <1>1, <2>1 DEF Mint, Create, Running
  <2>2. CASE Load(a) \/ SaveClosed(a) \/ SaveBenchmark(a) \/ ReadSequence(a)
    BY <1>1, <2>2 DEF Load, SaveClosed, SaveBenchmark, ReadSequence, Running
  <2>3. CASE LoseRace(a)
    BY <1>1, <2>3 DEF LoseRace, AfterLostRace, RaiseIn, Running
  <2>4. CASE RefuseSealed(a)
    BY <2>4 DEF RefuseSealed, RaiseIn
  <2>5. CASE Show(a) \/ ListUnflushed(a) \/ DeferFlush(a)
    BY <1>1, <2>5 DEF Show, ListUnflushed, DeferFlush, AfterDrain, Running
  <2>6. ASSUME NEW s \in pending[a], Execute(a, s) \/ Mark(a, s)
        PROVE  \A w \in Writers : pc'[w] \in BeforeAppend <=> pc[w] \in BeforeAppend
    BY <1>1, <2>6 DEF Execute, Mark, AfterDrain, Running
  <2>7. CASE Revoke(a) \/ Draft(a) \/ Seal(a)
    BY <1>1, <2>7 DEF Revoke, Draft, Seal, Running
  <2> QED
    BY <1>2, <2>1, <2>2, <2>3, <2>4, <2>5, <2>6, <2>7 DEF Step
<1>3. ASSUME pc' = pc
      PROVE  \A w \in Writers : pc'[w] \in BeforeAppend <=> pc[w] \in BeforeAppend
  BY <1>3
<1>4. ASSUME NEW a \in Calls, Raise(a) PROVE pc' = pc
  BY <1>4 DEF Raise, RaiseIn
<1>5. CASE RmsFails \/ RmsRecovers \/ UNCHANGED vars
  BY <1>3, <1>5 DEF RmsFails, RmsRecovers, vars
<1> QED
  BY <1>2, <1>3, <1>4, <1>5 DEF Next

\* A brief is shown by the step that follows its append.
LEMMA ShownAfterAppend ==
  ASSUME TypeInv, [Next]_vars, NEW e \in shown', e \notin shown
  PROVE  e \in Emitters /\ pc[e] = "show"
<1>1. ASSUME NEW a \in Calls, Step(a), ~Show(a) PROVE shown' = shown
  <2>1. CASE \/ a = Opener /\ (Mint \/ Create)
             \/ Load(a) \/ SaveClosed(a) \/ SaveBenchmark(a)
    BY <2>1 DEF Mint, Create, Load, SaveClosed, SaveBenchmark, world
  <2>2. CASE ReadSequence(a) \/ CommitEntry(a) \/ LoseRace(a) \/ RefuseSealed(a)
    BY <2>2 DEF ReadSequence, CommitEntry, LoseRace, RefuseSealed, world
  <2>3. CASE \/ ListUnflushed(a) \/ DeferFlush(a)
             \/ \E s \in pending[a] : Execute(a, s) \/ Mark(a, s)
    BY <2>3 DEF ListUnflushed, DeferFlush, Execute, Mark, world
  <2>4. CASE Revoke(a) \/ Draft(a) \/ Seal(a)
    BY <2>4 DEF Revoke, Draft, Seal, world
  <2> QED
    BY <1>1, <2>1, <2>2, <2>3, <2>4 DEF Step
<1>2. ASSUME NEW a \in Calls, Raise(a) PROVE shown' = shown
  BY <1>2 DEF Raise
<1>3. CASE RmsFails \/ RmsRecovers \/ UNCHANGED vars
  BY <1>3 DEF RmsFails, RmsRecovers, vars
<1>4. ASSUME NEW a \in Calls, Show(a) PROVE e \in Emitters /\ pc[e] = "show"
  BY <1>4 DEF Show, Running
<1> QED
  BY <1>1, <1>2, <1>3, <1>4 DEF Next

LEMMA AcknowledgedStep == LogInv /\ [Next]_vars => AcknowledgedIsRecorded'
<1> SUFFICES ASSUME LogInv, [Next]_vars PROVE AcknowledgedIsRecorded'
  OBVIOUS
<1> USE DEF LogInv
<1>1. ASSUME NEW a \in Calls, CommitEntry(a) PROVE AcknowledgedIsRecorded'
  <2>1. pc' = [pc EXCEPT ![a] = AfterAppend(a)] /\ AfterAppend(a) \notin BeforeAppend
    BY <1>1 DEF CommitEntry, Goto, AfterAppend, BeforeAppend
  <2>2. a \notin Recorded
    BY <1>1, CommitEffect DEF AcknowledgedIsRecorded, BeforeAppend
  <2>6. /\ Recorded' = Recorded \cup {a}
        /\ DOMAIN docs' = DOMAIN docs \cup {header.next}
        /\ docs'[header.next].line = a
        /\ \A s \in DOMAIN docs : docs'[s].line = docs[s].line
    BY <1>1, CommitEffect
  <2>8. \A s \in DOMAIN docs : docs[s].line # a
    BY <2>2 DEF Recorded
  <2>7. /\ \A w \in Writers : w # a => pc'[w] = pc[w]
        /\ pc'[a] = AfterAppend(a)
    BY <1>1, <2>1 DEF TypeInv, TypeOK, Calls
  <2>3. \A w \in Writers : pc'[w] \notin BeforeAppend <=> w \in Recorded'
    BY <2>1, <2>6, <2>7 DEF AcknowledgedIsRecorded
  <2>4. \A s, t \in DOMAIN docs' : docs'[s].line = docs'[t].line => s = t
    BY <2>6, <2>8 DEF AcknowledgedIsRecorded
  <2>5. shown' \subseteq Recorded'
    BY <1>1, CommitEffect DEF AcknowledgedIsRecorded, CommitEntry, world
  <2> QED
    BY <2>3, <2>4, <2>5 DEF AcknowledgedIsRecorded
<1>2. CASE ~ \E a \in Calls : CommitEntry(a)
  <2>1. /\ Recorded' = Recorded /\ DOMAIN docs' = DOMAIN docs
        /\ \A t \in DOMAIN docs : docs'[t].line = docs[t].line
    <3>1. ASSUME NEW a \in Calls, NEW s \in pending[a], Mark(a, s)
          PROVE  /\ Recorded' = Recorded /\ DOMAIN docs' = DOMAIN docs
                 /\ \A t \in DOMAIN docs : docs'[t].line = docs[t].line
      BY <3>1, MarkEffect
    <3>2. ASSUME NEW c \in Closers, Seal(c)
          PROVE  /\ Recorded' = Recorded /\ DOMAIN docs' = DOMAIN docs
                 /\ \A t \in DOMAIN docs : docs'[t].line = docs[t].line
      BY <3>2, SealEffect
    <3> QED
      BY <1>2, <3>1, <3>2, LogSteps DEF LogStep, LogVars, Recorded
  <2>2. shown' \subseteq Recorded
    BY ShownAfterAppend DEF AcknowledgedIsRecorded, BeforeAppend, Writers
  <2> QED
    BY <1>2, <2>1, <2>2, PhaseKept DEF AcknowledgedIsRecorded
<1> QED
  BY <1>1, <1>2

LEMMA InitLogInv == Init => LogInv
<1> SUFFICES ASSUME Init PROVE LogInv
  OBVIOUS
<1>1. Gapless /\ Recorded = {}
  BY DEF Init, LogInit, Gapless, Recorded
<1>2. \A a \in Writers : pc[a] \in BeforeAppend
  BY IncidentAssumption DEF Init, FirstStep, BeforeAppend, Writers, Savers, Calls
<1>3. AcknowledgedIsRecorded
  BY <1>1, <1>2 DEF AcknowledgedIsRecorded, Init, LogInit
<1> QED
  BY <1>1, <1>3, InitType DEF LogInv

LEMMA LogInvStep == LogInv /\ [Next]_vars => LogInv'
  BY NextType, GaplessStep, AcknowledgedStep DEF LogInv

\* Exactly the calls that got past their append have an entry, one each; every
\* brief on a stream is among them.
THEOREM PersistBeforeTransmit == Spec => []AcknowledgedIsRecorded
<1>1. LogInv => AcknowledgedIsRecorded
  BY DEF LogInv
<1> QED
  BY <1>1, InitLogInv, LogInvStep, PTL DEF Spec

-----------------------------------------------------------------------------
(***************************************************************************)
(* The log keeps the contract of AppendOnlyRecord.                         *)
(***************************************************************************)
LEMMA FunctionIsSequence ==
  ASSUME NEW S, NEW n \in Nat, NEW f \in [1..n -> S]
  PROVE  f \in Seq(S) /\ Len(f) = n
  OBVIOUS

LEMMA LinedIsSequence ==
  ASSUME TypeInv, Gapless
  PROVE  /\ header.next \in Nat
         /\ Lined \in Seq(Lines) /\ Len(Lined) = header.next
         /\ \A i \in 1..header.next : i - 1 \in DOMAIN docs /\ Lined[i] = docs[i - 1].line
<1>1. header.next \in Nat
  BY DEF TypeInv, TypeOK, Header
<1>2. \A i \in 1..header.next : i - 1 \in DOMAIN docs /\ docs[i - 1].line \in Lines
  BY <1>1 DEF Gapless, TypeInv, TypeOK, Entry
<1>3. Lined \in [1..header.next -> Lines]
  BY <1>2 DEF Lined
<1> QED
  BY <1>1, <1>2, <1>3, FunctionIsSequence DEF Lined

LEMMA CommitIsAdd ==
  ASSUME LogInv, TypeInv', Gapless', NEW a \in Calls, CommitEntry(a)
  PROVE  a \in Lines /\ Contract!Add(a)
<1> DEFINE n == header.next
<1>1. /\ ~header.sealed /\ header'.sealed = header.sealed
      /\ n \in Nat /\ header'.next = n + 1 /\ docs'[n].line = a
      /\ \A s \in DOMAIN docs : docs'[s].line = docs[s].line
  BY CommitEffect DEF LogInv
<1>2. /\ Lined \in Seq(Lines) /\ Len(Lined) = n
      /\ \A i \in 1..n : i - 1 \in DOMAIN docs /\ Lined[i] = docs[i - 1].line
  BY LinedIsSequence DEF LogInv
<1>3. a \in Lines /\ a \notin Recorded
  BY CommitEffect, IncidentAssumption DEF LogInv, AcknowledgedIsRecorded, BeforeAppend
<1>4. ~Contract!Written(a)
  BY <1>2, <1>3 DEF Contract!Written, Recorded
<1>5. /\ Lined' \in Seq(Lines) /\ Len(Lined') = n + 1
      /\ \A i \in 1..(n + 1) : Lined'[i] = docs'[i - 1].line
  <2>1. /\ header'.next \in Nat
        /\ Lined' \in Seq(Lines) /\ Len(Lined') = header'.next
        /\ \A i \in 1..header'.next :
              i - 1 \in DOMAIN docs' /\ Lined'[i] = docs'[i - 1].line
    <3>1. header'.next \in Nat
      BY DEF TypeInv, TypeOK, Header
    <3>2. \A i \in 1..header'.next : i - 1 \in DOMAIN docs' /\ docs'[i - 1].line \in Lines
      BY <3>1 DEF Gapless, TypeInv, TypeOK, Entry
    <3>3. Lined' \in [1..header'.next -> Lines]
      BY <3>2 DEF Lined
    <3> QED
      BY <3>1, <3>2, <3>3, FunctionIsSequence DEF Lined
  <2> QED
    BY <1>1, <2>1
<1>6. /\ Append(Lined, a) \in Seq(Lines) /\ Len(Append(Lined, a)) = n + 1
      /\ \A i \in 1..n : Append(Lined, a)[i] = Lined[i]
      /\ Append(Lined, a)[n + 1] = a
  BY <1>2, <1>3, AppendProperties
<1>7. ASSUME NEW i \in 1..(n + 1) PROVE Lined'[i] = Append(Lined, a)[i]
  <2>3. i = n + 1 \/ i \in 1..n
    BY <1>1
  <2>1. CASE i = n + 1
    BY <1>1, <1>5, <1>6, <2>1
  <2>2. CASE i \in 1..n
    BY <1>1, <1>2, <1>5, <1>6, <2>2
  <2> QED
    BY <2>1, <2>2, <2>3
<1>8. Lined' = Append(Lined, a)
  BY <1>5, <1>6, <1>7, SeqEqual
<1> QED
  BY <1>1, <1>3, <1>4, <1>8 DEF Contract!Add

LEMMA ContractStep ==
  LogInv /\ LogInv' /\ [Next]_vars => Contract!Next \/ UNCHANGED <<Lined, header.sealed>>
<1> SUFFICES ASSUME LogInv, LogInv', [Next]_vars
             PROVE  Contract!Next \/ UNCHANGED <<Lined, header.sealed>>
  OBVIOUS
<1>1. ASSUME NEW a \in Calls, CommitEntry(a) PROVE Contract!Next
  BY <1>1, CommitIsAdd DEF Contract!Next, LogInv
<1>2. ASSUME NEW a \in Calls, NEW s \in pending[a], Mark(a, s)
      PROVE  UNCHANGED <<Lined, header.sealed>>
  <2>1. header' = header /\ \A t \in DOMAIN docs : docs'[t].line = docs[t].line
    BY <1>2, MarkEffect DEF LogInv
  <2>2. \A i \in 1..header.next : docs'[i - 1].line = docs[i - 1].line
    BY <2>1, LinedIsSequence DEF LogInv
  <2> QED
    BY <2>1, <2>2 DEF Lined
<1>3. ASSUME NEW c \in Closers, Seal(c) PROVE Contract!Next
  <2>1. header'.next = header.next /\ header'.sealed = TRUE /\ docs' = docs
    BY <1>3 DEF LogInv, Seal, SealLog, TypeInv, TypeOK, Header
  <2>2. Lined' = Lined
    BY <2>1 DEF Lined
  <2> QED
    BY <2>1, <2>2 DEF Contract!Next, Contract!Close
<1>4. CASE UNCHANGED LogVars
  BY <1>4 DEF LogVars, Lined
<1> QED
  BY <1>1, <1>2, <1>3, <1>4, LogSteps DEF LogStep, LogInv

\* The repository, written to by any number of racing calls, implements an
\* append-only record that takes each line once and none once it is closed.
THEOREM LogImplementsRecord == Spec => KeepsContract
<1>1. Init => Contract!Init
  <2> SUFFICES ASSUME Init PROVE Contract!Init
    OBVIOUS
  <2>1. header.next = 0 /\ header.sealed = FALSE
    BY DEF Init, LogInit
  <2>2. Lined = <<>>
    BY <2>1, 1..0 = {} DEF Lined
  <2> QED
    BY <2>1, <2>2 DEF Contract!Init
<1>2. LogInv /\ LogInv' /\ [Next]_vars => [Contract!Next]_<<Lined, header.sealed>>
  BY ContractStep
<1> QED
  BY <1>1, <1>2, InitLogInv, LogInvStep, PTL DEF Spec, KeepsContract, Contract!Spec

-----------------------------------------------------------------------------
(***************************************************************************)
(* Authority ends before the log is sealed.  The grant is minted before    *)
(* there is an incident to close, and never again.                         *)
(***************************************************************************)
Past == pc[Opener] \notin {"mint", "create"}

\* Whoever can read the incident finds its grant minted.
MintedFirst ==
  incident # NoIncident \/ (\E a \in Markers \cup Closers : pc[a] # "load") => Past

Revoking == {"list", "execute", "mark", "draft", "seal", "done"}

RevokedByClose == \A c \in Closers : pc[c] \in Revoking => grant = "revoked"

\* A sealed log is one whose incident was closed on the record and whose grant
\* is gone.
SealFollowsRevoke == header.sealed => grant = "revoked" /\ Closers \cap Recorded # {}

\* Only a seal lets a close answer, and what a close raises has a cause.
DoneIsSealed == \A c \in Closers : pc[c] = "done" => header.sealed

RaisedHasCause ==
  \A c \in Closers : c \in raised => header.sealed \/ c \in broken \/ attempt[c] = MaxAttempts

CloseInv == /\ LogInv /\ MintedFirst /\ RevokedByClose /\ SealFollowsRevoke
            /\ DoneIsSealed /\ RaisedHasCause

\* Where a step takes its call.
LEMMA StepTarget ==
  ASSUME TypeInv, NEW a \in Calls, Step(a)
  PROVE  \/ pc' = pc
         \/ a = Opener /\ Mint
         \/ \E to \in Steps \ {"mint", "create", "load"} : Goto(a, to)
<1> USE DEF Steps
<1>1. CASE a = Opener /\ (Mint \/ Create)
  BY <1>1 DEF Create
<1>2. CASE Load(a) \/ SaveClosed(a) \/ SaveBenchmark(a) \/ ReadSequence(a)
  BY <1>2 DEF Load, SaveClosed, SaveBenchmark, ReadSequence
<1>3. CASE CommitEntry(a)
  BY <1>3 DEF CommitEntry, AfterAppend
<1>4. CASE LoseRace(a) \/ RefuseSealed(a)
  BY <1>4 DEF LoseRace, AfterLostRace, RefuseSealed, RaiseIn
<1>5. CASE Show(a) \/ ListUnflushed(a) \/ DeferFlush(a)
  BY <1>5 DEF Show, ListUnflushed, DeferFlush, AfterDrain
<1>6. CASE \E s \in pending[a] : Execute(a, s) \/ Mark(a, s)
  BY <1>6 DEF Execute, Mark, AfterDrain
<1>7. CASE Revoke(a) \/ Draft(a) \/ Seal(a)
  BY <1>7 DEF Revoke, Draft, Seal
<1> QED
  BY <1>1, <1>2, <1>3, <1>4, <1>5, <1>6, <1>7 DEF Step

\* The steps that are not a call's leave the program counters alone.
LEMMA OtherSteps ==
  ASSUME [Next]_vars, ~ \E a \in Calls : Step(a)
  PROVE  UNCHANGED <<pc, grant, incident, header, docs>>
  BY DEF Next, Raise, RaiseIn, RmsFails, RmsRecovers, vars, LogVars

LEMMA PastStep == TypeInv /\ Past /\ [Next]_vars => Past'
<1> SUFFICES ASSUME TypeInv, Past, [Next]_vars PROVE Past'
  OBVIOUS
<1>1. Opener \in Calls
  BY DEF Calls, Writers, Savers
<1>2. ASSUME NEW a \in Calls, Step(a) PROVE Past'
  <2>1. ~Mint
    BY DEF Mint, Running, Past
  <2>2. ASSUME NEW to \in Steps \ {"mint", "create", "load"}, Goto(a, to) PROVE Past'
    BY <1>1, <2>2 DEF Goto, Past, TypeInv, TypeOK
  <2>3. CASE pc' = pc
    BY <2>3 DEF Past
  <2> QED
    BY <1>2, <2>1, <2>2, <2>3, StepTarget
<1> QED
  BY <1>2, OtherSteps DEF Past

LEMMA IncidentAppears ==
  ASSUME NEW a \in Calls, Step(a), incident' # incident
  PROVE  (a = Opener /\ Create) \/ (a \in Savers /\ pc[a] \in {"close", "save"})
<1>1. CASE SaveClosed(a) \/ SaveBenchmark(a)
  BY <1>1 DEF SaveClosed, SaveBenchmark, Running, Savers
<1>2. CASE \E s \in pending[a] : Execute(a, s) \/ Mark(a, s)
  BY <1>2 DEF Execute, Mark, world
<1>3. CASE Show(a) \/ ListUnflushed(a) \/ DeferFlush(a) \/ Revoke(a) \/ Draft(a) \/ Seal(a)
  BY <1>3 DEF Show, ListUnflushed, DeferFlush, Revoke, Draft, Seal, world
<1>4. CASE Load(a) \/ ReadSequence(a) \/ CommitEntry(a) \/ LoseRace(a) \/ RefuseSealed(a)
  BY <1>4 DEF Load, ReadSequence, CommitEntry, LoseRace, RefuseSealed, world
<1> QED
  BY <1>1, <1>2, <1>3, <1>4 DEF Step, Mint

LEMMA OnlyLoadLeavesLoad ==
  ASSUME NEW a \in Markers \cup Closers, Step(a), pc[a] = "load"
  PROVE  Load(a)
  BY IncidentAssumption
     DEF Step, SaveClosed, SaveBenchmark, ReadSequence, CommitEntry, LoseRace,
         RefuseSealed, Show, ListUnflushed, DeferFlush, Execute, Mark, Revoke, Draft, Seal, Running

LEMMA MintedFirstStep == TypeInv /\ MintedFirst /\ [Next]_vars => MintedFirst'
<1> SUFFICES ASSUME TypeInv, MintedFirst, [Next]_vars,
                    incident' # NoIncident \/ \E b \in Markers \cup Closers : pc'[b] # "load"
             PROVE  Past'
  BY DEF MintedFirst
<1>1. CASE Past
  BY <1>1, PastStep
<1>2. CASE ~Past
  <2>1. incident = NoIncident /\ \A b \in Markers \cup Closers : pc[b] = "load"
    BY <1>2 DEF MintedFirst
  <2>2. PICK a \in Calls : Step(a)
    BY <2>1, OtherSteps
  <2>3. CASE incident' # NoIncident
    <3>1. (a = Opener /\ Create) \/ (a \in Savers /\ pc[a] \in {"close", "save"})
      BY <2>1, <2>2, <2>3, IncidentAppears
    <3>2. CASE a = Opener /\ Create
      BY <3>2, <2>2 DEF Create, Goto, Past, TypeInv, TypeOK
    <3> QED
      BY <1>2, <2>1, <3>1, <3>2 DEF Past, Savers
  <2>4. ASSUME NEW b \in Markers \cup Closers, pc'[b] # "load" PROVE FALSE
    <3>1. b = a
      <4>1. b \in Calls
        BY DEF Calls, Writers, Savers
      <4>2. \/ pc' = pc
            \/ a = Opener /\ Mint
            \/ \E to \in Steps \ {"mint", "create", "load"} : Goto(a, to)
        BY <2>2, StepTarget, Zenon
      <4> QED
        BY <2>1, <2>4, <4>1, <4>2 DEF Mint, Goto, TypeInv, TypeOK
    <3>2. Load(a)
      BY <2>1, <2>2, <3>1, OnlyLoadLeavesLoad
    <3> QED
      BY <2>1, <3>2 DEF Load
  <2> QED
    BY <2>3, <2>4
<1> QED
  BY <1>1, <1>2

\* A close passes from its append to the steps after it through the revocation.
LEMMA OnlyRevokeRevokes ==
  ASSUME TypeInv, NEW a \in Calls, Step(a), NEW c \in Closers, pc'[c] \in Revoking
  PROVE  pc[c] \in Revoking \/ Revoke(c)
<1> USE DEF Revoking
<1>1. c \in Calls /\ c # Opener /\ c \notin Emitters
  BY IncidentAssumption DEF Calls, Writers, Savers
<1>2. CASE c # a
  <2>1. pc' = pc \/ Mint \/ \E to \in Steps : Goto(a, to)
    BY StepTarget
  <2> QED
    BY <1>1, <1>2, <2>1 DEF Mint, Goto, TypeInv, TypeOK
<1>3. CASE c = a
  <2>1. CASE Load(c) \/ SaveClosed(c) \/ SaveBenchmark(c) \/ ReadSequence(c)
    BY <1>1, <2>1 DEF Load, SaveClosed, SaveBenchmark, ReadSequence, Goto, TypeInv, TypeOK
  <2>2. CASE CommitEntry(c)
    BY <1>1, <2>2 DEF CommitEntry, AfterAppend, Goto, TypeInv, TypeOK
  <2>3. CASE LoseRace(c) \/ RefuseSealed(c)
    BY <1>1, <2>3 DEF LoseRace, AfterLostRace, RefuseSealed, RaiseIn, Goto, TypeInv, TypeOK
  <2>4. CASE ListUnflushed(c) \/ DeferFlush(c) \/ \E s \in pending[c] : Execute(c, s) \/ Mark(c, s)
    BY <2>4 DEF ListUnflushed, DeferFlush, Execute, Mark, Running
  <2>5. CASE Draft(c) \/ Seal(c)
    BY <2>5 DEF Draft, Seal, Running
  <2> QED
    BY <1>1, <1>3, <2>1, <2>2, <2>3, <2>4, <2>5 DEF Step, Show
<1> QED
  BY <1>2, <1>3

LEMMA GrantStep ==
  ASSUME [Next]_vars, grant' # grant
  PROVE  Mint \/ \E c \in Closers : Revoke(c)
<1>1. ASSUME NEW a \in Calls, Step(a), ~Mint, ~Revoke(a) PROVE grant' = grant
  <2>1. CASE \/ a = Opener /\ Create
             \/ Load(a) \/ SaveClosed(a) \/ SaveBenchmark(a)
    BY <2>1 DEF Create, Load, SaveClosed, SaveBenchmark, world
  <2>2. CASE ReadSequence(a) \/ CommitEntry(a) \/ LoseRace(a) \/ RefuseSealed(a) \/ Show(a)
    BY <2>2 DEF ReadSequence, CommitEntry, LoseRace, RefuseSealed, Show, world
  <2>3. CASE \/ ListUnflushed(a) \/ DeferFlush(a)
             \/ \E s \in pending[a] : Execute(a, s) \/ Mark(a, s)
    BY <2>3 DEF ListUnflushed, DeferFlush, Execute, Mark, world
  <2>4. CASE Draft(a) \/ Seal(a)
    BY <2>4 DEF Draft, Seal, world
  <2> QED
    BY <1>1, <2>1, <2>2, <2>3, <2>4 DEF Step
<1>2. ASSUME NEW a \in Calls, Raise(a) PROVE grant' = grant
  BY <1>2 DEF Raise
<1>3. CASE RmsFails \/ RmsRecovers \/ UNCHANGED vars
  BY <1>3 DEF RmsFails, RmsRecovers, vars
<1>4. ASSUME NEW a \in Calls, Revoke(a) PROVE a \in Closers
  BY <1>4 DEF Revoke
<1> QED
  BY <1>1, <1>2, <1>3, <1>4 DEF Next

LEMMA RevokedStep == TypeInv /\ MintedFirst /\ RevokedByClose /\ [Next]_vars => RevokedByClose'
<1> SUFFICES ASSUME TypeInv, MintedFirst, RevokedByClose, [Next]_vars,
                    NEW c \in Closers, pc'[c] \in Revoking
             PROVE  grant' = "revoked"
  BY DEF RevokedByClose
<1>1. pc[c] \in Revoking \/ Revoke(c)
  BY OnlyRevokeRevokes, OtherSteps
<1>2. CASE Revoke(c)
  BY <1>2 DEF Revoke
<1>3. CASE pc[c] \in Revoking
  <2>1. grant = "revoked" /\ Past
    BY <1>3 DEF RevokedByClose, MintedFirst, Revoking
  <2>2. ~Mint
    BY <2>1 DEF Mint, Running, Past
  <2> QED
    BY <2>1, <2>2, GrantStep DEF Revoke
<1> QED
  BY <1>1, <1>2, <1>3

LEMMA RecordedKept == LogInv /\ [Next]_vars => Recorded \subseteq Recorded'
<1> SUFFICES ASSUME LogInv, [Next]_vars PROVE Recorded \subseteq Recorded'
  OBVIOUS
<1>1. ASSUME NEW a \in Calls, CommitEntry(a) PROVE Recorded \subseteq Recorded'
  BY <1>1, CommitEffect DEF LogInv
<1>2. ASSUME NEW a \in Calls, NEW s \in pending[a], Mark(a, s) PROVE Recorded' = Recorded
  BY <1>2, MarkEffect DEF LogInv
<1>3. ASSUME NEW c \in Closers, Seal(c) PROVE Recorded' = Recorded
  BY <1>3, SealEffect DEF LogInv
<1>4. CASE UNCHANGED LogVars
  BY <1>4 DEF LogVars, Recorded
<1> QED
  BY <1>1, <1>2, <1>3, <1>4, LogSteps DEF LogStep, LogInv

LEMMA SealedStep == CloseInv /\ [Next]_vars => SealFollowsRevoke'
<1> SUFFICES ASSUME CloseInv, [Next]_vars, header'.sealed
             PROVE  grant' = "revoked" /\ Closers \cap Recorded' # {}
  BY DEF SealFollowsRevoke
<1>1. Recorded \subseteq Recorded'
  BY RecordedKept DEF CloseInv
<1>2. CASE header.sealed
  <2>1. grant = "revoked" /\ Closers \cap Recorded # {}
    BY <1>2 DEF CloseInv, SealFollowsRevoke
  <2>2. PICK c \in Closers : c \in Recorded
    BY <2>1
  <2>3. pc[c] # "load"
    BY <2>2 DEF CloseInv, LogInv, AcknowledgedIsRecorded, BeforeAppend, Writers, Savers
  <2>4. ~Mint
    BY <2>3 DEF CloseInv, MintedFirst, Past, Mint, Running
  <2> QED
    BY <1>1, <2>1, <2>2, <2>4, GrantStep DEF Revoke
<1>3. ASSUME NEW c \in Closers, Seal(c) PROVE grant' = "revoked" /\ Closers \cap Recorded' # {}
  <2>1. pc[c] = "seal" /\ grant' = grant
    BY <1>3 DEF Seal, Running, world
  <2>2. grant = "revoked" /\ c \in Recorded
    BY <2>1 DEF CloseInv, LogInv, RevokedByClose, Revoking, AcknowledgedIsRecorded,
                BeforeAppend, Writers, Savers
  <2> QED
    BY <1>1, <2>1, <2>2
<1>4. CASE ~ \E c \in Closers : Seal(c)
  <2>1. ASSUME NEW a \in Calls, CommitEntry(a) PROVE header'.sealed = header.sealed
    BY <2>1, CommitEffect DEF CloseInv, LogInv
  <2>2. ASSUME NEW a \in Calls, NEW s \in pending[a], Mark(a, s) PROVE header' = header
    BY <2>2 DEF Mark, MarkWrittenToRms
  <2>3. header'.sealed = header.sealed
    BY <1>4, <2>1, <2>2, LogSteps DEF LogStep, LogVars, CloseInv, LogInv
  <2> QED
    BY <1>2, <2>3
<1> QED
  BY <1>3, <1>4

\* A seal is for good.
LEMMA SealKept == LogInv /\ [Next]_vars /\ header.sealed => header'.sealed
<1> SUFFICES ASSUME LogInv, [Next]_vars, header.sealed PROVE header'.sealed
  OBVIOUS
<1>1. ASSUME NEW a \in Calls, CommitEntry(a) PROVE header'.sealed
  BY <1>1, CommitEffect DEF LogInv
<1>2. ASSUME NEW a \in Calls, NEW s \in pending[a], Mark(a, s) PROVE header'.sealed
  BY <1>2 DEF Mark, MarkWrittenToRms
<1>3. ASSUME NEW c \in Closers, Seal(c) PROVE header'.sealed
  BY <1>3 DEF Seal, SealLog, LogInv, TypeInv, TypeOK, Header
<1>4. CASE UNCHANGED LogVars
  BY <1>4 DEF LogVars
<1> QED
  BY <1>1, <1>2, <1>3, <1>4, LogSteps DEF LogStep, LogInv

\* A close ends by its seal alone.
LEMMA OnlySealEnds ==
  ASSUME TypeInv, NEW a \in Calls, Step(a), NEW c \in Closers, pc'[c] = "done"
  PROVE  pc[c] = "done" \/ Seal(c)
<1>1. c \in Calls /\ c # Opener /\ c \notin Emitters
  BY IncidentAssumption DEF Calls, Writers, Savers
<1>2. CASE c # a
  <2>1. pc' = pc \/ Mint \/ \E to \in Steps : Goto(a, to)
    BY StepTarget
  <2> QED
    BY <1>1, <1>2, <2>1 DEF Mint, Goto, TypeInv, TypeOK
<1>3. CASE c = a
  <2>1. CASE Load(c) \/ SaveClosed(c) \/ SaveBenchmark(c) \/ ReadSequence(c) \/ Revoke(c) \/ Draft(c)
    BY <1>1, <2>1
       DEF Load, SaveClosed, SaveBenchmark, ReadSequence, Revoke, Draft, Goto, TypeInv, TypeOK
  <2>2. CASE CommitEntry(c)
    BY <1>1, <2>2 DEF CommitEntry, AfterAppend, Goto, TypeInv, TypeOK
  <2>3. CASE LoseRace(c) \/ RefuseSealed(c)
    BY <1>1, <2>3 DEF LoseRace, AfterLostRace, RefuseSealed, RaiseIn, Goto, TypeInv, TypeOK
  <2>4. CASE ListUnflushed(c) \/ DeferFlush(c)
    BY <1>1, <2>4 DEF ListUnflushed, DeferFlush, AfterDrain, Goto, TypeInv, TypeOK
  <2>5. ASSUME NEW s \in pending[c], Execute(c, s) \/ Mark(c, s) PROVE pc'[c] # "done"
    BY <1>1, <2>5 DEF Execute, Mark, AfterDrain, Goto, TypeInv, TypeOK
  <2> QED
    BY <1>1, <1>3, <2>1, <2>2, <2>3, <2>4, <2>5 DEF Step, Show
<1> QED
  BY <1>2, <1>3

LEMMA DoneStep == CloseInv /\ [Next]_vars => DoneIsSealed'
<1> SUFFICES ASSUME CloseInv, [Next]_vars, NEW c \in Closers, pc'[c] = "done"
             PROVE  header'.sealed
  BY DEF DoneIsSealed
<1>1. TypeInv /\ LogInv
  BY DEF CloseInv, LogInv
<1>2. pc[c] = "done" \/ Seal(c)
  BY <1>1, OnlySealEnds, OtherSteps
<1>3. CASE pc[c] = "done"
  BY <1>1, <1>3, SealKept DEF CloseInv, DoneIsSealed
<1>4. CASE Seal(c)
  BY <1>1, <1>4 DEF Seal, SealLog, TypeInv, TypeOK, Header
<1> QED
  BY <1>2, <1>3, <1>4

\* A call that has raised takes no step: its lost races stay counted.
LEMMA RaisedStaysPut ==
  ASSUME TypeInv, [Next]_vars, NEW c \in Closers, c \in raised
  PROVE  attempt'[c] = attempt[c] /\ broken \subseteq broken'
<1>1. ASSUME NEW a \in Calls, Step(a) PROVE attempt'[c] = attempt[c] /\ broken' = broken
  <2>0. c \in Calls /\ c \in Writers
    BY DEF Calls, Writers, Savers
  <2>1. CASE \/ a = Opener /\ (Mint \/ Create)
             \/ Load(a) \/ SaveClosed(a) \/ SaveBenchmark(a) \/ ReadSequence(a) \/ RefuseSealed(a) \/ Show(a)
    BY <2>1 DEF Mint, Create, Load, SaveClosed, SaveBenchmark, ReadSequence, RefuseSealed, Show,
                world, locals
  <2>2. CASE CommitEntry(a) \/ LoseRace(a)
    <3>1. a # c
      BY <2>2 DEF CommitEntry, LoseRace, Running
    <3> QED
      BY <2>0, <2>2, <3>1 DEF CommitEntry, LoseRace, world, TypeInv, TypeOK
  <2>3. CASE \/ ListUnflushed(a) \/ DeferFlush(a)
             \/ \E s \in pending[a] : Execute(a, s) \/ Mark(a, s)
    BY <2>3 DEF ListUnflushed, DeferFlush, Execute, Mark, world, locals
  <2>4. CASE Revoke(a) \/ Draft(a) \/ Seal(a)
    BY <2>4 DEF Revoke, Draft, Seal, world, locals
  <2> QED
    BY <1>1, <2>1, <2>2, <2>3, <2>4 DEF Step
<1>2. ASSUME NEW a \in Calls, Raise(a) PROVE attempt' = attempt /\ broken \subseteq broken'
  BY <1>2 DEF Raise, locals
<1>3. CASE RmsFails \/ RmsRecovers \/ UNCHANGED vars
  BY <1>3 DEF RmsFails, RmsRecovers, vars, locals
<1> QED
  BY <1>1, <1>2, <1>3 DEF Next

LEMMA RaisedStep == CloseInv /\ [Next]_vars => RaisedHasCause'
<1> SUFFICES ASSUME CloseInv, [Next]_vars, NEW c \in Closers, c \in raised'
             PROVE  header'.sealed \/ c \in broken' \/ attempt'[c] = MaxAttempts
  BY DEF RaisedHasCause
<1>0. TypeInv /\ LogInv /\ c \in Writers /\ c \in Calls
  BY DEF CloseInv, LogInv, Writers, Savers, Calls
<1>1. CASE c \in raised
  <2>1. header.sealed \/ c \in broken \/ attempt[c] = MaxAttempts
    BY <1>1 DEF CloseInv, RaisedHasCause
  <2> QED
    BY <1>0, <1>1, <2>1, SealKept, RaisedStaysPut
<1>2. CASE c \notin raised
  <2>1. ASSUME NEW a \in Calls, Step(a) PROVE c = a /\ (LoseRace(a) \/ RefuseSealed(a))
    <3>1. CASE LoseRace(a) \/ RefuseSealed(a)
      BY <1>2, <3>1 DEF LoseRace, AfterLostRace, RefuseSealed, RaiseIn, Goto
    <3>2. CASE ~(LoseRace(a) \/ RefuseSealed(a))
      BY <1>2, <2>1, <3>2
         DEF Step, Mint, Create, Load, SaveClosed, SaveBenchmark, ReadSequence, CommitEntry, Show,
             ListUnflushed, DeferFlush, Execute, Mark, Revoke, Draft, Seal, Goto
    <3> QED
      BY <3>1, <3>2
  <2>2. CASE LoseRace(c)
    <3>1. attempt[c] \in 0..MaxAttempts /\ attempt[c] < MaxAttempts
      BY <1>0, <1>2 DEF TypeInv, TypeOK, AttemptsLeft
    <3>2. ~(attempt[c] + 1 < MaxAttempts)
      BY <1>2, <2>2 DEF LoseRace, AfterLostRace, Goto
    <3>3. attempt'[c] = attempt[c] + 1
      BY <1>0, <2>2 DEF LoseRace, TypeInv, TypeOK
    <3> QED
      BY <3>1, <3>2, <3>3, IncidentAssumption
  <2>3. CASE RefuseSealed(c)
    BY <2>3 DEF RefuseSealed, Sealed, LogVars
  <2>4. ASSUME NEW a \in Calls, Raise(a) PROVE c \in broken'
    BY <1>2, <2>4 DEF Raise, RaiseIn
  <2>5. ~(RmsFails \/ RmsRecovers \/ UNCHANGED vars)
    BY <1>2 DEF RmsFails, RmsRecovers, vars
  <2> QED
    BY <2>1, <2>2, <2>3, <2>4, <2>5 DEF Next
<1> QED
  BY <1>1, <1>2

\* A close that is over leaves its grant revoked and its log sealed, unless
\* something raised in it or its entry lost every race, for any number of
\* racing closes, benchmarks and briefs.
THEOREM ClosesAreAccounted == Spec => []CloseIsAccounted
<1>1. Init => CloseInv
  <2> SUFFICES ASSUME Init PROVE CloseInv
    OBVIOUS
  <2>1. MintedFirst
    BY IncidentAssumption DEF Init, MintedFirst, Past, FirstStep, Calls, Writers, Savers
  <2>2. RevokedByClose /\ DoneIsSealed
    BY IncidentAssumption DEF Init, RevokedByClose, DoneIsSealed, Revoking, FirstStep, Calls, Writers, Savers
  <2>3. SealFollowsRevoke /\ RaisedHasCause
    BY DEF Init, LogInit, SealFollowsRevoke, RaisedHasCause
  <2> QED
    BY <2>1, <2>2, <2>3, InitLogInv DEF CloseInv
<1>2. CloseInv /\ [Next]_vars => CloseInv'
  BY LogInvStep, MintedFirstStep, RevokedStep, SealedStep, DoneStep, RaisedStep DEF CloseInv, LogInv
<1>3. CloseInv => CloseIsAccounted
  BY DEF CloseInv, RevokedByClose, Revoking, SealFollowsRevoke, DoneIsSealed, RaisedHasCause,
         CloseIsAccounted
<1> QED
  BY <1>1, <1>2, <1>3, PTL DEF Spec

-----------------------------------------------------------------------------
(***************************************************************************)
(* The records system.  A flush works through a list that is complete      *)
(* below each of its entries, so what it delivers leaves no hole.          *)
(***************************************************************************)
PendingComplete ==
  \A a \in Calls : \A s \in pending[a], t \in DOMAIN docs :
      (t < s /\ t \notin pending[a]) => docs[t].written

\* The entry about to be marked is in the records system.
Executed ==
  \A a \in Calls : \A s \in pending[a] :
      (pc[a] = "mark" /\ NextPending(a, s)) => s \in DOMAIN rms

RmsInv == LogInv /\ RmsFaithful /\ PendingComplete /\ Executed

FlushStep(a) ==
  ListUnflushed(a) \/ DeferFlush(a) \/ \E s \in pending[a] : Execute(a, s) \/ Mark(a, s)

\* Other steps neither touch what a flush works on nor enter its middle.
LEMMA OutsideFlush ==
  ASSUME TypeInv, [Next]_vars, ~ \E a \in Calls : FlushStep(a)
  PROVE  /\ UNCHANGED <<rms, pending>>
         /\ \A a \in Calls : pc'[a] = "mark" => pc[a] = "mark"
<1> DEFINE Quiet == UNCHANGED <<rms, pending>> /\ \A b \in Calls : pc'[b] = "mark" => pc[b] = "mark"
<1>1. ASSUME NEW a \in Calls, NEW to, Goto(a, to), to # "mark", UNCHANGED <<rms, pending>>
      PROVE  Quiet
  BY <1>1 DEF Goto, TypeInv, TypeOK
<1>2. ASSUME pc' = pc, UNCHANGED <<rms, pending>> PROVE Quiet
  BY <1>2
<1> HIDE DEF Quiet
<1>3. ASSUME NEW a \in Calls, Step(a) PROVE Quiet
  <2>1. CASE a = Opener /\ (Mint \/ Create)
    BY <1>1, <2>1 DEF Mint, Create, locals
  <2>2. CASE Load(a) \/ SaveClosed(a) \/ SaveBenchmark(a) \/ ReadSequence(a)
    BY <1>1, <2>2 DEF Load, SaveClosed, SaveBenchmark, ReadSequence, world
  <2>3. CASE CommitEntry(a)
    BY <1>1, <2>3 DEF CommitEntry, AfterAppend, world
  <2>4. CASE LoseRace(a)
    BY <1>1, <1>2, <2>4 DEF LoseRace, AfterLostRace, RaiseIn, world
  <2>5. CASE RefuseSealed(a)
    BY <1>2, <2>5 DEF RefuseSealed, RaiseIn, world, locals
  <2>6. CASE Show(a) \/ Revoke(a) \/ Draft(a) \/ Seal(a)
    BY <1>1, <2>6 DEF Show, Revoke, Draft, Seal, world, locals
  <2> QED
    BY <1>3, <2>1, <2>2, <2>3, <2>4, <2>5, <2>6 DEF Step, FlushStep
<1>4. ASSUME NEW a \in Calls, Raise(a) PROVE Quiet
  BY <1>2, <1>4 DEF Raise, RaiseIn, locals
<1>5. ASSUME RmsFails \/ RmsRecovers \/ UNCHANGED vars PROVE Quiet
  BY <1>2, <1>5 DEF RmsFails, RmsRecovers, vars, locals
<1>6. Quiet
  BY <1>3, <1>4, <1>5 DEF Next
<1> QED
  BY <1>6 DEF Quiet

\* An append leaves the records system behind, never ahead.
LEMMA RmsAppend ==
  ASSUME RmsInv, NEW a \in Calls, CommitEntry(a)
  PROVE  RmsFaithful' /\ PendingComplete' /\ Executed'
<1> DEFINE n == header.next
<1>1. /\ n \in Nat /\ n \notin DOMAIN docs /\ DOMAIN docs' = DOMAIN docs \cup {n}
      /\ docs'[n].written = FALSE
      /\ \A s \in DOMAIN docs : docs'[s] = docs[s]
  BY CommitEffect DEF RmsInv, LogInv
<1>2. \A s \in DOMAIN docs : s \in Nat /\ s < n
  BY <1>1 DEF RmsInv, LogInv, Gapless
<1>3. rms' = rms /\ pending' = pending /\ \A b \in Calls : pc'[b] = "mark" => pc[b] = "mark"
  BY DEF CommitEntry, world, Goto, AfterAppend, RmsInv, LogInv, TypeInv, TypeOK
<1>4. \A b \in Calls : pending[b] \subseteq DOMAIN docs
  BY DEF RmsInv, LogInv, TypeInv, TypeOK
<1>5. DOMAIN rms \subseteq DOMAIN docs
  BY DEF RmsInv, RmsFaithful
<1>6. RmsFaithful'
  <2>1. DOMAIN rms' \subseteq DOMAIN docs'
    BY <1>1, <1>3, <1>5
  <2>2. \A s \in DOMAIN rms' : rms'[s] = docs'[s].line
    BY <1>1, <1>3, <1>5 DEF RmsInv, RmsFaithful
  <2>3. \A s \in DOMAIN rms', t \in DOMAIN docs' : t <= s => t \in DOMAIN rms'
    <3> SUFFICES ASSUME NEW s \in DOMAIN rms, NEW t \in DOMAIN docs', t <= s
                 PROVE  t \in DOMAIN rms
      BY <1>3
    <3>1. t # n
      BY <1>1, <1>2, <1>5
    <3> QED
      BY <1>1, <3>1 DEF RmsInv, RmsFaithful
  <2>4. \A s \in DOMAIN docs' : docs'[s].written => s \in DOMAIN rms'
    BY <1>1, <1>3 DEF RmsInv, RmsFaithful
  <2> QED
    BY <2>1, <2>2, <2>3, <2>4 DEF RmsFaithful
<1>7. PendingComplete'
  <2> SUFFICES ASSUME NEW b \in Calls, NEW s \in pending[b], NEW t \in DOMAIN docs',
                      t < s, t \notin pending[b]
               PROVE  docs'[t].written
    BY <1>3 DEF PendingComplete
  <2>1. t # n /\ s \in DOMAIN docs
    BY <1>1, <1>2, <1>4
  <2> QED
    BY <1>1, <2>1 DEF RmsInv, PendingComplete
<1>8. Executed'
  BY <1>3 DEF RmsInv, Executed, NextPending
<1> QED
  BY <1>6, <1>7, <1>8

\* A delivery takes the lowest entry of a list that is complete below it.
LEMMA RmsExecute ==
  ASSUME RmsInv, NEW a \in Calls, NEW s \in pending[a], Execute(a, s)
  PROVE  RmsFaithful' /\ PendingComplete' /\ Executed'
<1>1. UNCHANGED <<docs, pending>>
  BY DEF Execute, LogVars, locals
<1>2. s \in DOMAIN docs /\ \A t \in DOMAIN docs : t \in Nat
  BY DEF RmsInv, LogInv, TypeInv, TypeOK
<1>3. \A t \in pending[a] : s <= t /\ t \in Nat
  BY DEF Execute, NextPending, RmsInv, LogInv, TypeInv, TypeOK
<1>4. /\ DOMAIN rms' = DOMAIN rms \cup {s}
      /\ \A k \in DOMAIN rms : rms'[k] = rms[k]
      /\ s \notin DOMAIN rms => rms'[s] = docs[s].line
  BY DEF Execute
<1>5. \A t \in DOMAIN docs : t < s => t \in DOMAIN rms
  BY <1>2, <1>3 DEF RmsInv, PendingComplete, RmsFaithful
<1>6. RmsFaithful'
  <2>1. \A k \in DOMAIN rms', t \in DOMAIN docs' : t <= k => t \in DOMAIN rms'
    BY <1>1, <1>2, <1>4, <1>5 DEF RmsInv, RmsFaithful
  <2>2. \A k \in DOMAIN rms' : rms'[k] = docs'[k].line
    BY <1>1, <1>4 DEF RmsInv, RmsFaithful
  <2> QED
    BY <1>1, <1>2, <1>4, <2>1, <2>2 DEF RmsInv, RmsFaithful
<1>7. PendingComplete'
  BY <1>1 DEF RmsInv, PendingComplete
<1>8. Executed'
  <2> SUFFICES ASSUME NEW b \in Calls, NEW k \in pending[b], pc'[b] = "mark",
                      \A t \in pending[b] : k <= t
               PROVE  k \in DOMAIN rms'
    BY <1>1 DEF Executed, NextPending
  <2>1. CASE b = a
    BY <1>2, <1>3, <1>4, <2>1 DEF RmsInv, LogInv, TypeInv, TypeOK
  <2>2. CASE b # a
    BY <1>4, <2>2 DEF Execute, Goto, RmsInv, Executed, NextPending, LogInv, TypeInv, TypeOK
  <2> QED
    BY <2>1, <2>2
<1> QED
  BY <1>6, <1>7, <1>8

LEMMA RmsMark ==
  ASSUME RmsInv, NEW a \in Calls, NEW s \in pending[a], Mark(a, s)
  PROVE  RmsFaithful' /\ PendingComplete' /\ Executed'
<1>1. /\ s \in DOMAIN docs /\ DOMAIN docs' = DOMAIN docs
      /\ \A t \in DOMAIN docs : docs'[t].line = docs[t].line
      /\ \A t \in DOMAIN docs : docs'[t].written <=> (docs[t].written \/ t = s)
  BY MarkEffect DEF RmsInv, LogInv
<1>2. rms' = rms /\ s \in DOMAIN rms
  BY DEF Mark, world, Running, RmsInv, Executed
<1>3. \A b \in Calls : pending'[b] = IF b = a THEN pending[b] \ {s} ELSE pending[b]
  BY DEF Mark, RmsInv, LogInv, TypeInv, TypeOK
<1>4. \A b \in Calls : pc'[b] = "mark" => (b # a /\ pc[b] = "mark")
  BY DEF Mark, Goto, AfterDrain, RmsInv, LogInv, TypeInv, TypeOK
<1>5. RmsFaithful'
  BY <1>1, <1>2 DEF RmsInv, RmsFaithful
<1>6. PendingComplete'
  BY <1>1, <1>3 DEF RmsInv, PendingComplete
<1>7. Executed'
  BY <1>2, <1>3, <1>4 DEF RmsInv, Executed, NextPending
<1> QED
  BY <1>5, <1>6, <1>7

LEMMA RmsList ==
  ASSUME RmsInv, NEW a \in Calls, ListUnflushed(a) \/ DeferFlush(a)
  PROVE  RmsFaithful' /\ PendingComplete' /\ Executed'
<1>1. UNCHANGED <<docs, rms>>
  BY DEF ListUnflushed, DeferFlush, world, LogVars
<1>2. /\ \A b \in Calls \ {a} : pending'[b] = pending[b]
      /\ pending'[a] = Unflushed \/ pending'[a] = {}
  BY DEF ListUnflushed, DeferFlush, RmsInv, LogInv, TypeInv, TypeOK
<1>3. \A b \in Calls : pc'[b] = "mark" => (b # a /\ pc[b] = "mark")
  BY DEF ListUnflushed, DeferFlush, Goto, AfterDrain, RmsInv, LogInv, TypeInv, TypeOK
<1>4. RmsFaithful'
  BY <1>1 DEF RmsInv, RmsFaithful
<1>5. PendingComplete'
  BY <1>1, <1>2 DEF RmsInv, PendingComplete, Unflushed
<1>6. Executed'
  BY <1>1, <1>2, <1>3 DEF RmsInv, Executed, NextPending
<1> QED
  BY <1>4, <1>5, <1>6

LEMMA RmsStep == RmsInv /\ [Next]_vars => RmsInv'
<1> SUFFICES ASSUME RmsInv, [Next]_vars PROVE RmsFaithful' /\ PendingComplete' /\ Executed'
  BY LogInvStep DEF RmsInv
<1>1. ASSUME NEW a \in Calls, FlushStep(a) PROVE RmsFaithful' /\ PendingComplete' /\ Executed'
  BY <1>1, RmsExecute, RmsMark, RmsList DEF FlushStep
<1>2. ASSUME NEW a \in Calls, CommitEntry(a)
      PROVE  RmsFaithful' /\ PendingComplete' /\ Executed'
  BY <1>2, RmsAppend
<1>3. CASE ~ (\E a \in Calls : FlushStep(a)) /\ ~ (\E a \in Calls : CommitEntry(a))
  <2>1. /\ UNCHANGED <<rms, pending>>
        /\ \A a \in Calls : pc'[a] = "mark" => pc[a] = "mark"
    BY <1>3, OutsideFlush DEF RmsInv, LogInv
  <2>2. docs' = docs
    <3>1. LogStep \/ UNCHANGED LogVars
      BY LogSteps DEF RmsInv, LogInv
    <3> QED
      BY <1>3, <3>1 DEF LogStep, LogVars, FlushStep, Seal, SealLog
  <2> QED
    BY <2>1, <2>2 DEF RmsInv, RmsFaithful, PendingComplete, Executed, NextPending
<1> QED
  BY <1>1, <1>2, <1>3

\* The records system holds a hole-free copy of the log's beginning, with
\* everything marked as written in it, for any number of flushes and outages.
THEOREM RecordsSystemIsFaithful == Spec => []RmsFaithful
<1>1. Init => RmsInv
  <2> SUFFICES ASSUME Init PROVE RmsInv
    OBVIOUS
  <2>1. RmsFaithful /\ PendingComplete /\ Executed
    BY DEF Init, LogInit, RmsFaithful, PendingComplete, Executed
  <2> QED
    BY <2>1, InitLogInv DEF RmsInv
<1>2. RmsInv => RmsFaithful
  BY DEF RmsInv
<1> QED
  BY <1>1, <1>2, RmsStep, PTL DEF Spec
=============================================================================
