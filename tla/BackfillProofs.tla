--------------------------- MODULE BackfillProofs ---------------------------
(***************************************************************************)
(* Nothing is skipped by a chain of interrupted backfills, for every       *)
(* number of sources, pages and runs and any lists of sources they are     *)
(* given.  The invariant is about one run at a time: what it covered are   *)
(* pages before its position, unless the chain began again, and what of    *)
(* its list is before its position was covered or is known to be missing.  *)
(***************************************************************************)
EXTENDS Backfill, TLAPS

\* Where a run or a checkpoint stands, before page p of source s: all of the
\* list before it is accounted for, and nothing from there on is covered but
\* what will be redone.
StandsAt(list, s, p, covered, missed, redone) ==
  /\ Listed(list) \cap Before(s, p) \subseteq covered \cup missed
  /\ covered \subseteq Before(s, p) \cup redone

JobStandsAt(j, s, p) == StandsAt(j.list, s, p, j.covered, j.missed, j.redone)

CheckpointOK(cp) ==
  /\ cp.list \in Lists /\ Places(cp.list, cp.source) # {}
  /\ cp.cursor # 0 => cp.cursor \in 1..Pages[cp.source]
  /\ StandsAt(cp.list, IF cp.cursor # 0 THEN cp.source ELSE cp.source + 1,
              IF cp.cursor # 0 THEN cp.cursor ELSE 1, cp.processed, cp.missed, cp.redone)

\* What is not in the run's checkpoint belongs to the source it is at.
AtRisk(rec, j) ==
  \A page \in j.covered :
    page[1] = j.list[j.index] \/ (rec.checkpoint # None /\ page \in rec.checkpoint.processed)

RunOK(rec, j) ==
  /\ rec.checkpoint # None => CheckpointOK(rec.checkpoint)
  /\ j.pc \in {"fetch", "checkpoint"} =>
       j.list \in Lists /\ j.index \in DOMAIN j.list /\ AtRisk(rec, j)
  /\ j.pc = "fetch" =>
       j.next \in 1..Pages[j.list[j.index]] /\ JobStandsAt(j, j.list[j.index], j.next)
  /\ j.pc = "checkpoint" =>
       /\ CheckpointOK(CheckpointOf(j))
       /\ ~ Reached(j.limit, j.total) => Rest(j.list[j.index], 1) \subseteq j.covered \cup j.missed
  /\ j.pc = "complete" => Listed(j.list) \subseteq j.covered \cup j.missed
  /\ rec.status = "COMPLETED" => j.pc = "done" /\ Listed(j.list) \subseteq j.covered \cup j.missed

IInv == TypeOK /\ \A r \in Runs : RunOK(record[r], job[r])

-----------------------------------------------------------------------------
(* Pages and positions *)

LEMMA PageIs ==
  ASSUME NEW page \in AllPages
  PROVE  page[1] \in Sources /\ page[2] \in 1..Pages[page[1]] /\ page = <<page[1], page[2]>>
  BY DEF AllPages

LEMMA IsPage ==
  ASSUME NEW s \in Sources, NEW p \in 1..Pages[s]
  PROVE  <<s, p>> \in AllPages
  BY DEF AllPages

LEMMA Numbers ==
  /\ NumSources \in Nat /\ \A s \in Sources : s \in Nat /\ Pages[s] \in Nat \ {0} /\ 1 \in 1..Pages[s]
  BY BackfillAssumption DEF Sources

LEMMA InList ==
  ASSUME NEW list \in Lists
  PROVE  /\ list \in Seq(Sources) /\ Len(list) \in Nat /\ DOMAIN list = 1..Len(list)
         /\ \A i \in DOMAIN list : list[i] \in Sources /\ list[i] \in Nat
         /\ \A i, k \in DOMAIN list : i < k => list[i] < list[k]
         /\ Listed(list) \subseteq AllPages
<1>1. list \in Seq(Sources) /\ \A i, k \in DOMAIN list : i < k => list[i] < list[k]
  BY BackfillAssumption
<1>2. \A i \in DOMAIN list : list[i] \in Sources
  BY <1>1
<1> QED BY <1>1, <1>2, Numbers DEF Listed

\* Past the last source is all.
LEMMA End == Before(NumSources + 1, 1) = AllPages
<1>1. \A page \in AllPages : page[1] \in Sources
  BY PageIs
<1>2. \A page \in AllPages : page[1] \in Nat /\ page[1] < NumSources + 1
  BY <1>1, Numbers DEF Sources
<1> QED BY <1>2, Numbers DEF Before

\* Of a list there is nothing before its first source.
LEMMA ListBegins ==
  ASSUME NEW list \in Lists
  PROVE  Listed(list) \cap Before(SourceAt(list, 1), 1) = {}
<1>1. \A page \in AllPages : page[1] \in Nat /\ page[2] \in Nat /\ page[2] >= 1
  BY PageIs, Numbers DEF Sources
<1> SUFFICES ASSUME NEW page \in Listed(list), page \in Before(SourceAt(list, 1), 1) PROVE FALSE
  OBVIOUS
<1>2. PICK i \in DOMAIN list : page[1] = list[i]
  BY DEF Listed
<1>3. 1 \in DOMAIN list /\ i >= 1 /\ SourceAt(list, 1) = list[1] /\ list[1] <= list[i]
  <2>1. i \in 1..Len(list) /\ Len(list) \in Nat /\ DOMAIN list = 1..Len(list)
    BY <1>2, InList
  <2>2. 1 \in DOMAIN list /\ i >= 1
    BY <2>1
  <2>3. i = 1 \/ list[1] < list[i]
    BY <2>1, <2>2, InList
  <2> QED BY <2>1, <2>2, <2>3, InList DEF SourceAt
<1>4. page \in AllPages
  BY DEF Before
<1> QED BY <1>1, <1>2, <1>3, <1>4, InList DEF Before

\* Of a list there is nothing between a source and the next.
LEMMA ListGap ==
  ASSUME NEW list \in Lists, NEW i \in DOMAIN list
  PROVE  /\ SourceAt(list, i) = list[i] /\ list[i] < SourceAt(list, i + 1) /\ SourceAt(list, i + 1) \in Nat
         /\ Before(list[i] + 1, 1) \subseteq Before(SourceAt(list, i + 1), 1)
         /\ Listed(list) \cap Before(SourceAt(list, i + 1), 1) \subseteq Before(list[i] + 1, 1)
<1>1. \A page \in AllPages : page[1] \in Nat /\ page[2] \in Nat /\ page[2] >= 1 /\ page[1] < NumSources + 1
  <2>1. \A page \in AllPages : page[1] \in Sources /\ page[2] \in 1..Pages[page[1]]
    BY PageIs
  <2> QED BY <2>1, Numbers DEF Sources
<1>2. /\ DOMAIN list = 1..Len(list) /\ Len(list) \in Nat /\ i \in Nat /\ i + 1 > i
      /\ \A k \in DOMAIN list : list[k] \in Nat /\ list[k] < NumSources + 1
      /\ \A k, l \in DOMAIN list : k < l => list[k] < list[l]
  BY InList, Numbers DEF Sources
<1>3. SourceAt(list, i) = list[i] /\ list[i] < SourceAt(list, i + 1) /\ SourceAt(list, i + 1) \in Nat
  <2>1. CASE i + 1 \in DOMAIN list
    BY <1>2, <2>1 DEF SourceAt
  <2>2. CASE i + 1 \notin DOMAIN list
    BY <1>2, <2>2, Numbers DEF SourceAt
  <2> QED BY <2>1, <2>2
<1>4. Before(list[i] + 1, 1) \subseteq Before(SourceAt(list, i + 1), 1)
  BY <1>1, <1>2, <1>3 DEF Before
<1>5. ASSUME NEW page \in Listed(list), page \in Before(SourceAt(list, i + 1), 1)
      PROVE  page \in Before(list[i] + 1, 1)
  <2>1. PICK k \in DOMAIN list : page[1] = list[k]
    BY DEF Listed
  <2>2. page \in AllPages /\ page[1] < SourceAt(list, i + 1)
    BY <1>1, <1>3, <1>5 DEF Before
  <2>3. k <= i
    <3>1. CASE i + 1 \in DOMAIN list
      <4>1. list[k] < list[i + 1]
        BY <2>1, <2>2, <3>1 DEF SourceAt
      <4>2. k \in Nat /\ (k > i + 1 => list[i + 1] < list[k])
        BY <1>2, <3>1
      <4> QED BY <1>2, <3>1, <4>1, <4>2
    <3>2. CASE i + 1 \notin DOMAIN list
      BY <1>2, <3>2
    <3> QED BY <3>1, <3>2
  <2>4. list[k] <= list[i]
    BY <1>2, <2>3
  <2> QED BY <1>1, <1>2, <2>1, <2>2, <2>4 DEF Before
<1> QED BY <1>3, <1>4, <1>5

\* What comes before the next source is what comes before a page and the rest
\* of its source.
LEMMA NextSource ==
  ASSUME NEW s \in Sources, NEW p \in Nat
  PROVE  Before(s + 1, 1) = Before(s, p) \cup Rest(s, p)
<1>1. \A page \in AllPages : page[1] \in Nat /\ page[2] \in Nat /\ page[2] >= 1
  BY PageIs, Numbers DEF Sources
<1> QED BY <1>1, Numbers DEF Before, Rest

\* The page after p is after p and what came before p.
LEMMA NextPage ==
  ASSUME NEW s \in Sources, NEW p \in 1..Pages[s]
  PROVE  Before(s, p + 1) = Before(s, p) \cup {<<s, p>>} /\ <<s, p>> \notin Before(s, p)
<1>1. \A page \in AllPages : page[1] \in Nat /\ page[2] \in Nat /\ page = <<page[1], page[2]>>
  BY PageIs, Numbers DEF Sources
<1>2. <<s, p>> \in AllPages /\ s \in Nat /\ p \in Nat
  BY IsPage, Numbers DEF Sources
<1> QED BY <1>1, <1>2 DEF Before

\* Past the last page of a source the next source begins.
LEMMA LastPage ==
  ASSUME NEW s \in Sources
  PROVE  Before(s + 1, 1) = Before(s, Pages[s] + 1)
<1>1. \A page \in AllPages : page[1] \in Nat /\ page[2] \in Nat /\ page[2] >= 1 /\ page[2] <= Pages[page[1]]
  BY PageIs, Numbers DEF Sources
<1> QED BY <1>1, Numbers DEF Before

\* Where a run resumes under any list, it stands: what the checkpoint had not
\* accounted for is of a source listed too late, and if it begins again, what
\* was processed will be redone.
LEMMA Resumes ==
  ASSUME NEW cp \in Checkpoint, CheckpointOK(cp), NEW list \in Lists
  PROVE  LET at == ResumePosition(cp, list)
             redone == IF Places(list, cp.source) = {} THEN cp.processed ELSE cp.redone IN
         /\ at.index \in Nat /\ at.page \in Nat
         /\ at.index \in DOMAIN list => at.page \in 1..Pages[list[at.index]]
         /\ at.index \notin DOMAIN list => at.page = 1
         /\ StandsAt(list, SourceAt(list, at.index), at.page, cp.processed,
                     cp.missed \cup ListedTooLate(cp, list, at), redone)
<1> DEFINE at == ResumePosition(cp, list)
           i == PlaceOf(list, cp.source)
           late == ListedTooLate(cp, list, at)
<1>1. /\ cp.source \in Nat /\ cp.cursor \in Nat
      /\ cp.list \in Lists /\ Places(cp.list, cp.source) # {}
      /\ cp.cursor # 0 => cp.cursor \in 1..Pages[cp.source]
  BY Numbers DEF Checkpoint, CheckpointOK
<1>2. \A page \in AllPages : page[1] \in Nat /\ page[2] \in Nat
  BY PageIs, Numbers DEF Sources
<1>3. CASE Places(list, cp.source) = {}
  <2>1. at.index = 1 /\ at.page = 1
    BY <1>3 DEF ResumePosition
  <2>2. 1 \in DOMAIN list => 1 \in 1..Pages[list[1]]
    BY InList, Numbers
  <2>3. StandsAt(list, SourceAt(list, at.index), at.page, cp.processed, cp.missed \cup late, cp.processed)
    BY <2>1, ListBegins DEF StandsAt
  <2> QED BY <1>3, <2>1, <2>2, <2>3
<1>4. CASE Places(list, cp.source) # {}
  <2>1. i \in DOMAIN list /\ list[i] = cp.source /\ i \in Nat
    <3>1. i \in Places(list, cp.source)
      BY <1>4 DEF PlaceOf
    <3> QED BY <3>1, InList DEF Places
  <2>2. ASSUME NEW page \in Listed(list), page \notin Listed(cp.list), page[1] < SourceAt(list, at.index)
        PROVE  page \in late
    BY <2>2 DEF ListedTooLate
  <2>3. \A page \in AllPages : page[1] = cp.source => page \in Listed(cp.list)
    BY <1>1 DEF Places, Listed
  <2>4. CASE cp.cursor # 0
    <3>1. at.index = i /\ at.page = cp.cursor /\ SourceAt(list, at.index) = cp.source
      BY <1>4, <2>1, <2>4 DEF ResumePosition, SourceAt
    <3>2. /\ Listed(cp.list) \cap Before(cp.source, cp.cursor) \subseteq cp.processed \cup cp.missed
          /\ cp.processed \subseteq Before(cp.source, cp.cursor) \cup cp.redone
      BY <2>4 DEF CheckpointOK, StandsAt
    <3>3. ASSUME NEW page \in Listed(list), page \in Before(cp.source, cp.cursor)
          PROVE  page \in cp.processed \cup cp.missed \cup late
      <4>1. page \in AllPages /\ (page[1] < cp.source \/ page[1] = cp.source)
        BY <3>3 DEF Before
      <4> QED BY <2>2, <2>3, <3>1, <3>2, <3>3, <4>1
    <3> HIDE DEF at, late
    <3>4. StandsAt(list, SourceAt(list, at.index), at.page, cp.processed, cp.missed \cup late, cp.redone)
      BY <3>1, <3>2, <3>3 DEF StandsAt
    <3> QED BY <1>1, <1>4, <2>1, <2>4, <3>1, <3>4 DEF at, late
  <2>5. CASE cp.cursor = 0
    <3>1. at.index = i + 1 /\ at.page = 1
      BY <1>4, <2>5 DEF ResumePosition
    <3>2. /\ Listed(cp.list) \cap Before(cp.source + 1, 1) \subseteq cp.processed \cup cp.missed
          /\ cp.processed \subseteq Before(cp.source + 1, 1) \cup cp.redone
      BY <2>5 DEF CheckpointOK, StandsAt
    <3>3. /\ Before(cp.source + 1, 1) \subseteq Before(SourceAt(list, i + 1), 1)
          /\ Listed(list) \cap Before(SourceAt(list, i + 1), 1) \subseteq Before(cp.source + 1, 1)
          /\ cp.source < SourceAt(list, i + 1) /\ SourceAt(list, i + 1) \in Nat
      BY <2>1, ListGap
    <3>4. ASSUME NEW page \in Listed(list), page \in Before(cp.source + 1, 1)
          PROVE  page \in cp.processed \cup cp.missed \cup late
      <4>1. page \in AllPages /\ page[1] \in Nat /\ page[2] \in Nat /\ page[2] >= 1
        BY <3>4, PageIs, Numbers DEF Before, Sources
      <4>2. page[1] < cp.source + 1
        BY <1>1, <3>4, <4>1 DEF Before
      <4>3. page[1] < SourceAt(list, at.index)
        BY <1>1, <3>1, <3>3, <4>1, <4>2
      <4> QED BY <2>2, <3>2, <3>4, <4>3
    <3>5. i + 1 \in DOMAIN list => 1 \in 1..Pages[list[i + 1]]
      BY InList, Numbers
    <3> HIDE DEF at, late
    <3>6. StandsAt(list, SourceAt(list, at.index), at.page, cp.processed, cp.missed \cup late, cp.redone)
      BY <3>1, <3>2, <3>3, <3>4 DEF StandsAt
    <3> QED BY <1>4, <2>1, <3>1, <3>5, <3>6 DEF at, late
  <2> QED BY <1>1, <2>4, <2>5
<1> QED BY <1>3, <1>4

-----------------------------------------------------------------------------
(* The steps *)

LEMMA StartOK ==
  ASSUME IInv, NEW r \in Runs, NEW list \in Lists, NEW limit \in Limits \cup {None},
         NEW previous \in Runs \cup {None}, Start(r, list, limit, previous)
  PROVE  TypeOK' /\ RunOK(record'[r], job'[r])
<1> DEFINE cp == IF previous = None THEN None ELSE record[previous].checkpoint
           at == IF cp = None THEN [index |-> 1, page |-> 1] ELSE ResumePosition(cp, list)
           again == cp # None /\ Places(list, cp.source) = {}
           covered == IF cp = None THEN {} ELSE cp.processed
           missed == IF cp = None THEN {} ELSE cp.missed \cup ListedTooLate(cp, list, at)
           redone == IF cp = None THEN {} ELSE IF again THEN cp.processed ELSE cp.redone
           rec == [status |-> "RUNNING", checkpoint |-> cp]
           j == [pc |-> IF at.index \in DOMAIN list THEN "fetch" ELSE "complete",
                 list |-> list, index |-> at.index, next |-> at.page, pages |-> 0, total |-> 0,
                 limit |-> limit, covered |-> covered, missed |-> missed, redone |-> redone]
<1>1. record' = [record EXCEPT ![r] = rec] /\ job' = [job EXCEPT ![r] = j]
  BY DEF Start
<1>2. record \in [Runs -> Record] /\ job \in [Runs -> Job]
  BY DEF IInv, TypeOK
<1>3. cp # None => cp \in Checkpoint /\ CheckpointOK(cp)
  BY <1>2, BackfillAssumption DEF IInv, RunOK, Record
<1>4. /\ at.index \in Nat /\ at.page \in Nat
      /\ at.index \in DOMAIN list => at.page \in 1..Pages[list[at.index]]
      /\ at.index \notin DOMAIN list => at.page = 1
      /\ StandsAt(list, SourceAt(list, at.index), at.page, covered, missed, redone)
  <2>1. CASE cp = None
    <3>1. at.index = 1 /\ at.page = 1 /\ covered = {} /\ missed = {} /\ redone = {}
      BY <2>1
    <3>2. 1 \in DOMAIN list => 1 \in 1..Pages[list[1]]
      BY InList, Numbers
    <3> HIDE DEF at, covered, missed, redone
    <3>3. StandsAt(list, SourceAt(list, at.index), at.page, covered, missed, redone)
      BY <3>1, ListBegins DEF StandsAt
    <3> QED BY <3>1, <3>2, <3>3
  <2>2. CASE cp # None
    <3>1. at = ResumePosition(cp, list) /\ covered = cp.processed /\ missed = cp.missed \cup ListedTooLate(cp, list, at)
          /\ redone = IF Places(list, cp.source) = {} THEN cp.processed ELSE cp.redone
      BY <2>2
    <3> HIDE DEF at, covered, missed, redone, cp
    <3> QED BY <1>3, <2>2, <3>1, Resumes
  <2> QED BY <2>1, <2>2
<1>5. covered \in SUBSET AllPages /\ missed \in SUBSET AllPages /\ redone \in SUBSET AllPages
  BY <1>3, InList DEF Checkpoint, ListedTooLate
<1>6. rec \in Record /\ cp \in Checkpoint \cup {None}
  BY <1>3 DEF Record, Status
<1>7. \A page \in covered : cp # None /\ page \in cp.processed
  OBVIOUS
<1> HIDE DEF covered, missed, redone, at, cp
<1>8. j \in Job
  BY <1>4, <1>5 DEF Job
<1>9. TypeOK'
  BY <1>1, <1>2, <1>6, <1>8 DEF TypeOK
<1>10. record'[r] = rec /\ job'[r] = j
  BY <1>1, <1>2
<1>11. at.index \notin DOMAIN list => Listed(list) \subseteq covered \cup missed
  BY <1>4, End, InList DEF StandsAt, SourceAt
<1>12. AtRisk(rec, j)
  BY <1>7 DEF AtRisk
<1>13. at.index \in DOMAIN list => JobStandsAt(j, j.list[j.index], j.next)
  BY <1>4 DEF JobStandsAt, SourceAt
<1>14. RunOK(rec, j)
  BY <1>3, <1>4, <1>11, <1>12, <1>13 DEF RunOK
<1> QED BY <1>9, <1>10, <1>14

LEMMA FetchPageOK ==
  ASSUME IInv, NEW r \in Runs, FetchPage(r)
  PROVE  TypeOK' /\ RunOK(record'[r], job'[r])
<1> DEFINE j == job[r]
           rec == record[r]
           source == j.list[j.index]
           following == IF j.next = Pages[source] THEN 0 ELSE j.next + 1
           reached == Reached(j.limit, j.total + 1)
           full == j.pages + 1 >= MaxPages
           covered == j.covered \cup {<<source, j.next>>}
           missed == IF following # 0 /\ full /\ ~ reached
                       THEN j.missed \cup Rest(source, following) ELSE j.missed
           k == [pc |-> IF following = 0 \/ reached \/ full THEN "checkpoint" ELSE "fetch",
                 list |-> j.list, index |-> j.index, next |-> following, pages |-> j.pages + 1,
                 total |-> j.total + 1, limit |-> j.limit,
                 covered |-> covered, missed |-> missed, redone |-> j.redone]
<1>1. record \in [Runs -> Record] /\ job \in [Runs -> Job] /\ rec \in Record /\ j \in Job
  BY DEF IInv, TypeOK
<1>2. record' = record /\ job' = [job EXCEPT ![r] = k] /\ j.pc = "fetch"
  BY DEF FetchPage
<1>3. /\ j.list \in Lists /\ j.index \in DOMAIN j.list /\ source \in Sources /\ source \in Nat
      /\ j.next \in 1..Pages[source] /\ JobStandsAt(j, source, j.next)
      /\ AtRisk(rec, j) /\ (rec.checkpoint # None => CheckpointOK(rec.checkpoint))
      /\ rec.status # "COMPLETED"
  BY <1>2, InList DEF IInv, RunOK
<1>4. /\ j.next \in Nat /\ j.pages \in Nat /\ j.total \in Nat /\ following \in Nat
      /\ j.limit \in Limits \cup {None} /\ j.covered \subseteq AllPages /\ j.missed \subseteq AllPages
      /\ j.redone \subseteq AllPages /\ j.index \in Nat
      /\ following # 0 => following = j.next + 1 /\ following \in 1..Pages[source]
      /\ following = 0 => j.next = Pages[source]
  BY <1>1, <1>3, Numbers DEF Job
<1>5. <<source, j.next>> \in AllPages /\ Rest(source, following) \subseteq AllPages
  BY <1>3, IsPage DEF Rest
<1>6. covered \subseteq AllPages /\ missed \subseteq AllPages
  BY <1>4, <1>5
<1>7. covered = j.covered \cup {<<source, j.next>>} /\ j.missed \subseteq missed
      /\ (following # 0 /\ full /\ ~ reached => Rest(source, following) \subseteq missed)
  OBVIOUS
<1> HIDE DEF covered, missed
<1>8. StandsAt(j.list, source, j.next + 1, covered, missed, j.redone)
  <2>1. /\ Listed(j.list) \cap Before(source, j.next) \subseteq j.covered \cup j.missed
        /\ j.covered \subseteq Before(source, j.next) \cup j.redone
    BY <1>3 DEF JobStandsAt, StandsAt
  <2> HIDE DEF source, j
  <2> QED BY <1>3, <1>7, <2>1, NextPage DEF StandsAt
<1>9. k.list = j.list /\ k.index = j.index /\ k.next = following /\ k.covered = covered /\ k.missed = missed
      /\ k.redone = j.redone /\ k.pages = j.pages + 1 /\ k.limit = j.limit /\ k.total = j.total + 1
      /\ k.pc = IF following = 0 \/ reached \/ full THEN "checkpoint" ELSE "fetch"
  OBVIOUS
<1>10. k \in Job
  BY <1>3, <1>4, <1>6 DEF Job
<1> HIDE DEF k
<1>11. TypeOK'
  BY <1>1, <1>2, <1>10 DEF TypeOK
<1>12. AtRisk(rec, k)
  BY <1>3, <1>7, <1>9 DEF AtRisk
<1>13. ASSUME following # 0 PROVE JobStandsAt(k, source, k.next)
  BY <1>4, <1>8, <1>9, <1>13 DEF JobStandsAt
<1>14. CheckpointOK(CheckpointOf(k))
  <2>1. CursorOf(k) = following
    BY <1>4, <1>9 DEF CursorOf
  <2>2. CheckpointOf(k) = [source |-> source, cursor |-> following, processed |-> covered,
                           list |-> j.list, missed |-> missed, redone |-> j.redone]
    BY <1>9, <2>1 DEF CheckpointOf
  <2>3. Places(j.list, source) # {}
    BY <1>3 DEF Places
  <2> HIDE DEF source, following, j
  <2>4. CASE following # 0
    BY <1>3, <1>4, <1>8, <2>2, <2>3, <2>4 DEF CheckpointOK
  <2>5. CASE following = 0
    <3>1. Before(source + 1, 1) = Before(source, j.next + 1)
      BY <1>3, <1>4, <2>5, LastPage
    <3>2. StandsAt(j.list, source + 1, 1, covered, missed, j.redone)
      BY <1>8, <3>1 DEF StandsAt
    <3> QED BY <1>3, <2>2, <2>3, <2>5, <3>2 DEF CheckpointOK
  <2> QED BY <2>4, <2>5
<1>15. ASSUME k.pc = "checkpoint", ~ Reached(k.limit, k.total)
       PROVE  Rest(source, 1) \subseteq k.covered \cup k.missed
  <2>1. ~ reached /\ (following = 0 \/ full)
    BY <1>9, <1>15
  <2>2. Before(source + 1, 1) = Before(source, 1) \cup Rest(source, 1)
    BY <1>3, NextSource
  <2>3. Rest(source, 1) \subseteq Listed(j.list)
    BY <1>3 DEF Rest, Listed
  <2>4. Listed(j.list) \cap Before(source, j.next + 1) \subseteq covered \cup missed
    BY <1>8 DEF StandsAt
  <2>5. Rest(source, 1) \subseteq covered \cup missed
    <3>1. CASE following = 0
      <4>1. Before(source + 1, 1) = Before(source, j.next + 1)
        BY <1>3, <1>4, <3>1, LastPage
      <4> QED BY <2>2, <2>3, <2>4, <4>1
    <3>2. CASE following # 0
      <4>1. Before(source + 1, 1) = Before(source, following) \cup Rest(source, following)
        BY <1>3, <1>4, NextSource
      <4> QED BY <1>4, <1>7, <2>1, <2>2, <2>3, <2>4, <3>2, <4>1
    <3> QED BY <3>1, <3>2
  <2> QED BY <1>9, <2>5
<1>16. RunOK(rec, k)
  BY <1>3, <1>4, <1>9, <1>12, <1>13, <1>14, <1>15 DEF RunOK
<1> QED BY <1>1, <1>2, <1>11, <1>16

LEMMA FetchFailsOK ==
  ASSUME IInv, NEW r \in Runs, FetchFails(r)
  PROVE  TypeOK' /\ RunOK(record'[r], job'[r])
<1> DEFINE j == job[r]
           rec == record[r]
           source == j.list[j.index]
           missed == j.missed \cup Rest(source, j.next)
           k == [j EXCEPT !.pc = "checkpoint", !.missed = missed]
<1>1. record \in [Runs -> Record] /\ job \in [Runs -> Job] /\ rec \in Record /\ j \in Job
  BY DEF IInv, TypeOK
<1>2. record' = record /\ job' = [job EXCEPT ![r] = k] /\ j.pc = "fetch"
  BY DEF FetchFails
<1>3. /\ j.list \in Lists /\ j.index \in DOMAIN j.list /\ source \in Sources /\ source \in Nat
      /\ j.next \in 1..Pages[source] /\ JobStandsAt(j, source, j.next)
      /\ AtRisk(rec, j) /\ (rec.checkpoint # None => CheckpointOK(rec.checkpoint))
      /\ rec.status # "COMPLETED"
  BY <1>2, InList DEF IInv, RunOK
<1>4. j.next \in Nat /\ j.next # 0 /\ j.missed \subseteq missed /\ Rest(source, j.next) \subseteq missed
      /\ missed \subseteq AllPages
  BY <1>1, <1>3, Numbers DEF Job, Rest
<1>5. k \in Job
  BY <1>1, <1>4 DEF Job
<1>6. k.list = j.list /\ k.index = j.index /\ k.next = j.next /\ k.pages = j.pages /\ k.covered = j.covered
      /\ k.missed = missed /\ k.redone = j.redone /\ k.pc = "checkpoint"
  BY <1>1 DEF Job
<1> HIDE DEF missed, k
<1>7. TypeOK'
  BY <1>1, <1>2, <1>5 DEF TypeOK
<1>8. /\ Listed(j.list) \cap Before(source, j.next) \subseteq j.covered \cup j.missed
      /\ j.covered \subseteq Before(source, j.next) \cup j.redone
  BY <1>3 DEF JobStandsAt, StandsAt
<1>9. /\ Before(source + 1, 1) = Before(source, j.next) \cup Rest(source, j.next)
      /\ Before(source + 1, 1) = Before(source, 1) \cup Rest(source, 1)
      /\ Rest(source, 1) \subseteq Listed(j.list)
  BY <1>3, <1>4, NextSource DEF Rest, Listed
<1>10. CheckpointOK(CheckpointOf(k))
  <2>1. CheckpointOf(k) = [source |-> source, cursor |-> CursorOf(k), processed |-> j.covered,
                           list |-> j.list, missed |-> missed, redone |-> j.redone]
    BY <1>6 DEF CheckpointOf
  <2>2. Places(j.list, source) # {}
    BY <1>3 DEF Places
  <2> HIDE DEF source
  <2>3. CASE j.pages = 0
    <3>1. CursorOf(k) = 0
      BY <1>6, <2>3 DEF CursorOf
    <3>2. StandsAt(j.list, source + 1, 1, j.covered, missed, j.redone)
      BY <1>4, <1>8, <1>9 DEF StandsAt
    <3> QED BY <1>3, <2>1, <2>2, <3>1, <3>2 DEF CheckpointOK
  <2>4. CASE j.pages # 0
    <3>1. CursorOf(k) = j.next
      BY <1>6, <2>4 DEF CursorOf
    <3>2. StandsAt(j.list, source, j.next, j.covered, missed, j.redone)
      BY <1>4, <1>8 DEF StandsAt
    <3> QED BY <1>3, <1>4, <2>1, <2>2, <3>1, <3>2 DEF CheckpointOK
  <2> QED BY <2>3, <2>4
<1>11. Rest(source, 1) \subseteq k.covered \cup k.missed
  BY <1>4, <1>6, <1>8, <1>9
<1>12. AtRisk(rec, k)
  BY <1>3, <1>6 DEF AtRisk
<1>13. RunOK(rec, k)
  BY <1>3, <1>6, <1>10, <1>11, <1>12 DEF RunOK
<1> QED BY <1>1, <1>2, <1>7, <1>13

LEMMA TakeCheckpointOK ==
  ASSUME IInv, NEW r \in Runs, TakeCheckpoint(r)
  PROVE  TypeOK' /\ RunOK(record'[r], job'[r])
<1> DEFINE j == job[r]
           cp == CheckpointOf(j)
           source == j.list[j.index]
           stops == Reached(j.limit, j.total)
           last == j.index = Len(j.list)
           rec == [status |-> record[r].status, checkpoint |-> cp]
           k == [pc |-> IF stops THEN "interrupted" ELSE IF last THEN "complete" ELSE "fetch",
                 list |-> j.list, index |-> IF stops THEN j.index ELSE j.index + 1,
                 next |-> IF stops THEN j.next ELSE 1, pages |-> 0, total |-> j.total,
                 limit |-> j.limit, covered |-> j.covered, missed |-> j.missed, redone |-> j.redone]
<1>1. record \in [Runs -> Record] /\ job \in [Runs -> Job] /\ record[r] \in Record /\ j \in Job
  BY DEF IInv, TypeOK
<1>2. record' = [record EXCEPT ![r] = rec] /\ job' = [job EXCEPT ![r] = k] /\ j.pc = "checkpoint"
  <2>1. [record[r] EXCEPT !.checkpoint = cp] = rec
    BY <1>1 DEF Record
  <2>2. record' = [record EXCEPT ![r] = [record[r] EXCEPT !.checkpoint = cp]]
    BY <1>1 DEF TakeCheckpoint
  <2>3. job' = [job EXCEPT ![r] = k]
    BY DEF TakeCheckpoint
  <2> QED BY <2>1, <2>2, <2>3 DEF TakeCheckpoint
<1>3. /\ j.list \in Lists /\ j.index \in DOMAIN j.list /\ source \in Sources /\ source \in Nat
      /\ CheckpointOK(cp) /\ AtRisk(record[r], j) /\ record[r].status # "COMPLETED"
      /\ ~ stops => Rest(source, 1) \subseteq j.covered \cup j.missed
  BY <1>2, InList DEF IInv, RunOK
<1>4. /\ j.next \in Nat /\ j.covered \subseteq AllPages /\ j.missed \subseteq AllPages /\ j.redone \subseteq AllPages
      /\ j.limit \in Limits \cup {None} /\ j.total \in Nat /\ CursorOf(j) \in Nat /\ j.index \in Nat
      /\ j.list \in Lists \cup {<<>>}
  BY <1>1 DEF Job, CursorOf
<1>5. cp = [source |-> source, cursor |-> CursorOf(j), processed |-> j.covered,
            list |-> j.list, missed |-> j.missed, redone |-> j.redone]
  BY DEF CheckpointOf
<1> HIDE DEF source
<1>6. cp \in Checkpoint /\ cp # None
  BY <1>3, <1>4, <1>5, CheckpointAssumption DEF Checkpoint
<1>7. rec \in Record /\ k \in Job
  BY <1>1, <1>4, <1>6 DEF Record, Job
<1>8. TypeOK'
  BY <1>1, <1>2, <1>7 DEF TypeOK
<1>9. ASSUME ~ stops
      PROVE  StandsAt(j.list, SourceAt(j.list, j.index + 1), 1, j.covered, j.missed, j.redone)
  <2>1. /\ Before(source + 1, 1) = Before(source, 1) \cup Rest(source, 1)
        /\ \A p \in Nat : Before(source + 1, 1) = Before(source, p) \cup Rest(source, p)
    BY <1>3, NextSource
  <2>2. \A p \in Nat : p >= 1 => Before(source, 1) \subseteq Before(source, p)
    <3>1. \A page \in AllPages : page[1] \in Nat /\ page[2] \in Nat
      BY PageIs, Numbers DEF Sources
    <3> QED BY <1>3, <3>1 DEF Before
  <2>3. /\ Listed(j.list) \cap Before(source + 1, 1) \subseteq j.covered \cup j.missed
        /\ j.covered \subseteq Before(source + 1, 1) \cup j.redone
    <3>1. CASE CursorOf(j) = 0
      <4>1. StandsAt(j.list, source + 1, 1, j.covered, j.missed, j.redone)
        BY <1>3, <1>5, <3>1 DEF CheckpointOK
      <4> QED BY <4>1 DEF StandsAt
    <3>2. CASE CursorOf(j) # 0
      <4>1. StandsAt(j.list, source, CursorOf(j), j.covered, j.missed, j.redone)
        BY <1>3, <1>5, <3>2 DEF CheckpointOK
      <4>2. CursorOf(j) >= 1
        BY <1>4, <3>2
      <4> QED BY <1>3, <1>4, <1>9, <2>1, <2>2, <4>1, <4>2 DEF StandsAt
    <3> QED BY <3>1, <3>2
  <2>4. /\ Before(source + 1, 1) \subseteq Before(SourceAt(j.list, j.index + 1), 1)
        /\ Listed(j.list) \cap Before(SourceAt(j.list, j.index + 1), 1) \subseteq Before(source + 1, 1)
    BY <1>3, ListGap DEF source
  <2> QED BY <2>3, <2>4 DEF StandsAt
<1>10. j.index + 1 \in Nat /\ (~ last => j.index + 1 \in DOMAIN j.list) /\ (last => j.index + 1 \notin DOMAIN j.list)
  BY <1>3, <1>4, InList
<1>11. k.pc = "complete" => Listed(k.list) \subseteq k.covered \cup k.missed
  <2>1. ~ stops /\ last => Listed(j.list) \subseteq j.covered \cup j.missed
    BY <1>3, <1>9, <1>10, End, InList DEF StandsAt, SourceAt
  <2> QED BY <2>1
<1>12. k.pc = "fetch" => /\ k.list \in Lists /\ k.index \in DOMAIN k.list
                        /\ k.next \in 1..Pages[k.list[k.index]] /\ JobStandsAt(k, k.list[k.index], k.next)
  <2> SUFFICES ASSUME k.pc = "fetch"
               PROVE  /\ k.list \in Lists /\ k.index \in DOMAIN k.list
                      /\ k.next \in 1..Pages[k.list[k.index]] /\ JobStandsAt(k, k.list[k.index], k.next)
    OBVIOUS
  <2>1. ~ stops /\ ~ last /\ k.index = j.index + 1 /\ k.next = 1 /\ k.list = j.list
        /\ k.covered = j.covered /\ k.missed = j.missed /\ k.redone = j.redone
    OBVIOUS
  <2> HIDE DEF k
  <2>2. k.list \in Lists /\ k.index \in DOMAIN k.list /\ SourceAt(j.list, j.index + 1) = k.list[k.index]
    BY <1>3, <1>10, <2>1 DEF SourceAt
  <2>3. 1 \in 1..Pages[k.list[k.index]]
    BY <2>2, InList, Numbers
  <2> QED BY <1>9, <2>1, <2>2, <2>3 DEF JobStandsAt
<1>13. AtRisk(rec, k)
  <2>1. rec.checkpoint = cp /\ cp.processed = j.covered /\ k.covered = j.covered
    BY <1>5
  <2> HIDE DEF rec, k, cp
  <2> QED BY <1>6, <2>1 DEF AtRisk
<1>14. rec.checkpoint = cp /\ rec.status = record[r].status /\ k.pc # "checkpoint"
  OBVIOUS
<1> HIDE DEF k, rec
<1>15. RunOK(rec, k)
  BY <1>3, <1>11, <1>12, <1>13, <1>14 DEF RunOK
<1> QED BY <1>1, <1>2, <1>8, <1>15

LEMMA FinishOK ==
  ASSUME IInv, NEW r \in Runs, Finish(r)
  PROVE  TypeOK' /\ RunOK(record'[r], job'[r])
<1> DEFINE j == job[r]
           rec == [record[r] EXCEPT !.status = IF j.pc = "complete" THEN "COMPLETED" ELSE "TIMED_OUT"]
           k == [j EXCEPT !.pc = "done"]
<1>1. record \in [Runs -> Record] /\ job \in [Runs -> Job] /\ record[r] \in Record /\ j \in Job
      /\ RunOK(record[r], j)
  BY DEF IInv, TypeOK
<1>2. record' = [record EXCEPT ![r] = rec] /\ job' = [job EXCEPT ![r] = k]
      /\ j.pc \in {"interrupted", "complete"}
  BY DEF Finish
<1>3. rec \in Record /\ k \in Job /\ k.pc = "done" /\ k.list = j.list /\ k.covered = j.covered
      /\ k.missed = j.missed /\ rec.checkpoint = record[r].checkpoint /\ (rec.status = "COMPLETED" => j.pc = "complete")
  BY <1>1 DEF Record, Job, Status
<1> HIDE DEF k, rec
<1>4. TypeOK'
  BY <1>1, <1>2, <1>3 DEF TypeOK
<1>5. RunOK(rec, k)
  BY <1>1, <1>3 DEF RunOK
<1> QED BY <1>1, <1>2, <1>4, <1>5

LEMMA DiesOK ==
  ASSUME IInv, NEW r \in Runs, Dies(r)
  PROVE  TypeOK' /\ RunOK(record'[r], job'[r])
<1> DEFINE k == NoJob("gone")
<1>1. record \in [Runs -> Record] /\ job \in [Runs -> Job] /\ record[r] \in Record /\ job[r] \in Job
      /\ RunOK(record[r], job[r])
  BY DEF IInv, TypeOK
<1>2. record' = record /\ job' = [job EXCEPT ![r] = k]
      /\ job[r].pc \in {"fetch", "checkpoint", "interrupted", "complete"}
  BY DEF Dies
<1>3. k \in Job /\ k.pc = "gone"
  BY DEF Job, NoJob
<1> HIDE DEF k
<1>4. TypeOK'
  BY <1>1, <1>2, <1>3 DEF TypeOK
<1>5. RunOK(record[r], k)
  BY <1>1, <1>2, <1>3 DEF RunOK
<1> QED BY <1>1, <1>2, <1>4, <1>5

-----------------------------------------------------------------------------
\* A step is one run's, and leaves the others as they are.
LEMMA OthersKept ==
  ASSUME TypeOK, NEW r \in Runs, NEW s \in Runs \ {r},
         \/ \E list \in Lists, limit \in Limits \cup {None}, previous \in Runs \cup {None} :
                Start(r, list, limit, previous)
         \/ FetchPage(r) \/ FetchFails(r) \/ TakeCheckpoint(r) \/ Finish(r) \/ Dies(r)
  PROVE  record'[s] = record[s] /\ job'[s] = job[s]
  BY DEF TypeOK, Start, FetchPage, FetchFails, TakeCheckpoint, Finish, Dies

LEMMA InitIInv == Init => IInv
<1> SUFFICES ASSUME Init PROVE IInv
  OBVIOUS
<1> DEFINE j == NoJob("off")
           rec == [status |-> "unknown", checkpoint |-> None]
<1>1. j \in Job /\ rec \in Record
  BY DEF Job, Record, Status, NoJob
<1>2. TypeOK
  BY <1>1 DEF Init, TypeOK
<1>3. RunOK(rec, j)
  BY DEF RunOK, NoJob
<1> QED BY <1>2, <1>3 DEF Init, IInv

LEMMA NextIInv == IInv /\ [Next]_vars => IInv'
<1> SUFFICES ASSUME IInv, [Next]_vars PROVE IInv'
  OBVIOUS
<1>1. CASE UNCHANGED vars
  BY <1>1 DEF IInv, TypeOK, vars
<1>2. ASSUME NEW r \in Runs,
             \/ \E list \in Lists, limit \in Limits \cup {None}, previous \in Runs \cup {None} :
                Start(r, list, limit, previous)
             \/ FetchPage(r) \/ FetchFails(r) \/ TakeCheckpoint(r) \/ Finish(r) \/ Dies(r)
      PROVE  IInv'
  <2>1. TypeOK' /\ RunOK(record'[r], job'[r])
    BY <1>2, StartOK, FetchPageOK, FetchFailsOK, TakeCheckpointOK, FinishOK, DiesOK
  <2>2. \A s \in Runs \ {r} : record'[s] = record[s] /\ job'[s] = job[s]
    BY <1>2, OthersKept DEF IInv
  <2>3. \A s \in Runs : RunOK(record'[s], job'[s])
    BY <2>1, <2>2 DEF IInv
  <2> QED BY <2>1, <2>3 DEF IInv
<1> QED BY <1>1, <1>2 DEF Next

LEMMA Invariance == Spec => []IInv
  BY InitIInv, NextIInv, PTL DEF Spec

\* Every variable of Backfill keeps its type.
THEOREM TypeCorrect == Spec => []TypeOK
<1>1. IInv => TypeOK
  BY DEF IInv
<1> QED BY <1>1, Invariance, PTL

\* For any number of sources, pages and runs, whatever lists they are given and
\* however they are interrupted and taken up again, no page of a run's list that
\* comes before its position was skipped unless a fetch of it failed, the page
\* limit cut it off or its source was listed too late.
THEOREM ChainsSkipNothing == Spec => []NothingSkipped
<1>1. ASSUME IInv PROVE NothingSkipped
  <2> SUFFICES ASSUME NEW r \in Runs, job[r].pc \in {"fetch", "complete"}
               PROVE  Listed(job[r].list) \cap Before(SourceAt(job[r].list, job[r].index), job[r].next)
                        \subseteq job[r].covered \cup job[r].missed
    BY DEF NothingSkipped
  <2>1. RunOK(record[r], job[r])
    BY <1>1 DEF IInv
  <2>2. CASE job[r].pc = "fetch"
    BY <2>1, <2>2 DEF RunOK, JobStandsAt, StandsAt, SourceAt
  <2>3. CASE job[r].pc = "complete"
    BY <2>1, <2>3 DEF RunOK
  <2> QED BY <2>2, <2>3
<1> QED BY <1>1, Invariance, PTL

\* A run that completes has, with those it continues, been through every page
\* of its list but for failing fetches, the page limit and late sources.
THEOREM CompletedRunsAreWhole == Spec => []CompletedIsWhole
<1>1. IInv => CompletedIsWhole
  BY DEF IInv, RunOK, CompletedIsWhole
<1> QED BY <1>1, Invariance, PTL

\* No run asks for a page that it or the checkpoint it began with has processed,
\* unless the chain began again after that page: its checkpoint's source had
\* left the list.
THEOREM PagesAreNotPulledAgain == Spec => []NothingPulledAgain
<1>1. ASSUME IInv PROVE NothingPulledAgain
  <2> SUFFICES ASSUME NEW r \in Runs, job[r].pc = "fetch"
               PROVE  <<job[r].list[job[r].index], job[r].next>> \notin job[r].covered \ job[r].redone
    BY DEF NothingPulledAgain
  <2> DEFINE s == job[r].list[job[r].index]
  <2>1. /\ job[r].list \in Lists /\ job[r].index \in DOMAIN job[r].list
        /\ job[r].next \in 1..Pages[s]
        /\ job[r].covered \subseteq Before(s, job[r].next) \cup job[r].redone
    BY <1>1 DEF IInv, RunOK, JobStandsAt, StandsAt
  <2>2. s \in Sources
    BY <2>1, InList
  <2> HIDE DEF s
  <2>3. <<s, job[r].next>> \notin Before(s, job[r].next)
    BY <2>1, <2>2, NextPage
  <2> QED BY <2>1, <2>3 DEF s
<1> QED BY <1>1, Invariance, PTL

\* The death of a run's process loses pages of one source at most.
THEOREM DeathsCostOneSource == Spec => []DeathCostsOneSource
<1>1. IInv => DeathCostsOneSource
  BY DEF IInv, RunOK, AtRisk, DeathCostsOneSource
<1> QED BY <1>1, Invariance, PTL
=============================================================================
