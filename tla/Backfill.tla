------------------------------ MODULE Backfill ------------------------------
(***************************************************************************)
(* Polling a district source by source and page by page (sources/          *)
(* backfill.py, with the run records of domain/runs.py).  A run stores a   *)
(* checkpoint after each source; a process that is replaced takes what it  *)
(* pulled since then with it, and a later run starts from the checkpoint.  *)
(* Any number of runs may be on their way at once, and each is given its   *)
(* own list of sources: one may have left the configuration, or joined it. *)
(***************************************************************************)
EXTENDS Naturals, Sequences

CONSTANTS NumSources, \* the sources, numbered in the order they are configured in
          Lists,      \* the lists of sources a run may be given, in that order
          Pages,      \* how many pages each of them has
          MaxPages,   \* max_pages_per_source
          Runs,       \* run ids
          Limits,     \* values of interrupt_after_pages, besides none
          None        \* no run, no checkpoint, no limit

Sources == 1..NumSources

ASSUME BackfillAssumption ==
  /\ NumSources \in Nat /\ Pages \in [Sources -> Nat \ {0}] /\ MaxPages \in Nat \ {0}
  /\ Limits \subseteq Nat /\ None \notin Nat \cup Runs
  /\ Lists \subseteq Seq(Sources)
  /\ \A list \in Lists : \A i, k \in DOMAIN list : i < k => list[i] < list[k]

AllPages == UNION {{s} \X (1..Pages[s]) : s \in Sources}

\* The pages of the sources in a list, and the source at a place in it.
Listed(list) == {page \in AllPages : \E i \in DOMAIN list : page[1] = list[i]}
SourceAt(list, i) == IF i \in DOMAIN list THEN list[i] ELSE NumSources + 1

\* The pages that come before page p of source s, and the rest of s from it.
Before(s, p) == {page \in AllPages : page[1] < s \/ (page[1] = s /\ page[2] < p)}
Rest(s, p) == {page \in AllPages : page[1] = s /\ page[2] >= p}

\* A checkpoint: the source it was taken after, its cursor (0 when the source
\* had no further page) and what was processed.  The rest is history: the list
\* it was taken under; missed, the pages that were left out on the way here by a
\* failing fetch, by the page limit, or for their source was listed too late;
\* and redone, what was processed when a run began at the first source again.
Checkpoint == [source: Sources, cursor: Nat, processed: SUBSET AllPages,
               list: Lists, missed: SUBSET AllPages, redone: SUBSET AllPages]
ASSUME CheckpointAssumption == None \notin Checkpoint

Status == {"unknown", "RUNNING", "TIMED_OUT", "COMPLETED"}

VARIABLES record, \* the stored run: its status and its last checkpoint
          job     \* the process that works on it

vars == <<record, job>>

Record == [status: Status, checkpoint: Checkpoint \cup {None}]
Job == [pc: {"off", "fetch", "checkpoint", "interrupted", "complete", "done", "gone"},
        list: Lists \cup {<<>>}, index: Nat, next: Nat, pages: Nat, total: Nat,
        limit: Limits \cup {None},
        covered: SUBSET AllPages, missed: SUBSET AllPages, redone: SUBSET AllPages]

NoJob(pc) == [pc |-> pc, list |-> <<>>, index |-> 1, next |-> 1, pages |-> 0, total |-> 0,
              limit |-> None, covered |-> {}, missed |-> {}, redone |-> {}]

TypeOK == record \in [Runs -> Record] /\ job \in [Runs -> Job]

Init ==
  /\ record = [r \in Runs |-> [status |-> "unknown", checkpoint |-> None]]
  /\ job = [r \in Runs |-> NoJob("off")]

-----------------------------------------------------------------------------
Reached(limit, total) == limit # None /\ total >= limit

Places(list, source) == {i \in DOMAIN list : list[i] = source}
PlaceOf(list, source) == CHOOSE i \in Places(list, source) : TRUE

\* Mutant: a cursor is taken for the page that was pulled last.
PageAfter(cp, list) ==
  IF Places(list, cp.source) = {} THEN [index |-> 1, page |-> 1]
  ELSE IF cp.cursor # 0 THEN [index |-> PlaceOf(list, cp.source), page |-> cp.cursor + 1]
  ELSE [index |-> PlaceOf(list, cp.source) + 1, page |-> 1]

\* Mutant: a source with a checkpoint is started again.
TopOfSource(cp, list) ==
  IF Places(list, cp.source) = {} THEN [index |-> 1, page |-> 1]
  ELSE IF cp.cursor # 0 THEN [index |-> PlaceOf(list, cp.source), page |-> 1]
  ELSE [index |-> PlaceOf(list, cp.source) + 1, page |-> 1]

\* _resume_position(): the very page a source stopped on, or the source after
\* it; and the first source when the one of the checkpoint is not in the list.
ResumePosition(cp, list) ==
  IF Places(list, cp.source) = {} THEN [index |-> 1, page |-> 1]
  ELSE IF cp.cursor # 0 THEN [index |-> PlaceOf(list, cp.source), page |-> cp.cursor]
  ELSE [index |-> PlaceOf(list, cp.source) + 1, page |-> 1]

\* The pages that a run with this list will not come to any more, since their
\* source was in no list when the checkpoint's run went by.
ListedTooLate(cp, list, at) ==
  {page \in Listed(list) \ Listed(cp.list) : page[1] < SourceAt(list, at.index)}

\* A new run begins, from the last checkpoint of another when it is given one
\* that has any.  Nothing asks whether that other run still works.
Start(r, list, limit, previous) ==
  /\ job[r].pc = "off"
  /\ LET cp == IF previous = None THEN None ELSE record[previous].checkpoint
         at == IF cp = None THEN [index |-> 1, page |-> 1] ELSE ResumePosition(cp, list)
         again == cp # None /\ Places(list, cp.source) = {} IN
       /\ record' = [record EXCEPT ![r] = [status |-> "RUNNING", checkpoint |-> cp]]
       /\ job' = [job EXCEPT ![r] =
            [pc |-> IF at.index \in DOMAIN list THEN "fetch" ELSE "complete",
             list |-> list, index |-> at.index, next |-> at.page, pages |-> 0, total |-> 0,
             limit |-> limit,
             covered |-> IF cp = None THEN {} ELSE cp.processed,
             missed |-> IF cp = None THEN {} ELSE cp.missed \cup ListedTooLate(cp, list, at),
             redone |-> IF cp = None THEN {} ELSE IF again THEN cp.processed ELSE cp.redone]]

\* One page arrives.  The source is left when it has no further one, at the
\* interruption, or at the page limit, which leaves the rest out.
FetchPage(r) ==
  /\ job[r].pc = "fetch"
  /\ LET j == job[r]
         source == j.list[j.index]
         following == IF j.next = Pages[source] THEN 0 ELSE j.next + 1
         reached == Reached(j.limit, j.total + 1)
         full == j.pages + 1 >= MaxPages IN
       job' = [job EXCEPT ![r] =
         [pc |-> IF following = 0 \/ reached \/ full THEN "checkpoint" ELSE "fetch",
          list |-> j.list, index |-> j.index, next |-> following, pages |-> j.pages + 1,
          total |-> j.total + 1, limit |-> j.limit,
          covered |-> j.covered \cup {<<source, j.next>>},
          missed |-> IF following # 0 /\ full /\ ~ reached
                       THEN j.missed \cup Rest(source, following) ELSE j.missed,
          redone |-> j.redone]]
  /\ UNCHANGED record

\* The source is unavailable: down, its circuit open, or never configured.
FetchFails(r) ==
  /\ job[r].pc = "fetch"
  /\ LET j == job[r] IN
       job' = [job EXCEPT ![r] = [j EXCEPT
         !.pc = "checkpoint", !.missed = j.missed \cup Rest(j.list[j.index], j.next)]]
  /\ UNCHANGED record

\* The cursor of the last page that arrived in this pull, if one did.
CursorOf(j) == IF j.pages = 0 THEN 0 ELSE j.next

\* Mutant: only what this source contributed.
CheckpointOfSource(j) ==
  [source |-> j.list[j.index], cursor |-> CursorOf(j), list |-> j.list,
   missed |-> j.missed, redone |-> j.redone,
   processed |-> {page \in j.covered : page[1] = j.list[j.index]}]

CheckpointOf(j) ==
  [source |-> j.list[j.index], cursor |-> CursorOf(j), processed |-> j.covered,
   list |-> j.list, missed |-> j.missed, redone |-> j.redone]

\* The checkpoint is stored, and the run stops where it is, goes on to the
\* next source, or has been through all of them.
TakeCheckpoint(r) ==
  /\ job[r].pc = "checkpoint"
  /\ LET j == job[r]
         stops == Reached(j.limit, j.total)
         last == j.index = Len(j.list) IN
       /\ record' = [record EXCEPT ![r].checkpoint = CheckpointOf(j)]
       /\ job' = [job EXCEPT ![r] =
            [pc |-> IF stops THEN "interrupted" ELSE IF last THEN "complete" ELSE "fetch",
             list |-> j.list, index |-> IF stops THEN j.index ELSE j.index + 1,
             next |-> IF stops THEN j.next ELSE 1, pages |-> 0, total |-> j.total, limit |-> j.limit,
             covered |-> j.covered, missed |-> j.missed, redone |-> j.redone]]

Finish(r) ==
  /\ job[r].pc \in {"interrupted", "complete"}
  /\ record' = [record EXCEPT ![r].status = IF job[r].pc = "complete" THEN "COMPLETED" ELSE "TIMED_OUT"]
  /\ job' = [job EXCEPT ![r].pc = "done"]

\* The instance is replaced, or the store refuses a write and the exception
\* ends the run, and what it knew is lost.  Its record stays RUNNING.
Dies(r) ==
  /\ job[r].pc \in {"fetch", "checkpoint", "interrupted", "complete"}
  /\ job' = [job EXCEPT ![r] = NoJob("gone")]
  /\ UNCHANGED record

Next == \E r \in Runs :
  \/ \E list \in Lists, limit \in Limits \cup {None}, previous \in Runs \cup {None} :
       Start(r, list, limit, previous)
  \/ FetchPage(r) \/ FetchFails(r) \/ TakeCheckpoint(r) \/ Finish(r) \/ Dies(r)

Spec == Init /\ [][Next]_vars

-----------------------------------------------------------------------------
(* Properties *)

\* Through any chain of runs that died or were interrupted and were taken up
\* from their last checkpoint, and whatever list each was given, no page of a
\* run's sources that comes before the one it asks for next is skipped, nor any
\* at all once it is through: it was processed, or a fetch of it failed, or the
\* page limit cut it off, or its source was not listed when the chain went by
\* (backfill.py: a resumed run "does not skip the page it was on").
NothingSkipped == \A r \in Runs : job[r].pc \in {"fetch", "complete"} =>
  LET j == job[r] IN
    Listed(j.list) \cap Before(SourceAt(j.list, j.index), j.next) \subseteq j.covered \cup j.missed

\* A completed run, with the runs it continues, has been through every page of
\* every source in its list, but for the failing fetches, the page limit and
\* the sources that were listed too late.
CompletedIsWhole == \A r \in Runs :
  record[r].status = "COMPLETED" => Listed(job[r].list) \subseteq job[r].covered \cup job[r].missed

\* A run asks again for a page that it, or the checkpoint it started from, has
\* processed only if the chain once began at the first source again, its
\* checkpoint's source having left the list, and that page was processed before
\* (backfill.py: it "does not restart the district").
NothingPulledAgain == \A r \in Runs : job[r].pc = "fetch" =>
  <<job[r].list[job[r].index], job[r].next>> \notin job[r].covered \ job[r].redone

\* What a run would lose if its process went away now is pages of the one
\* source it is at.
DeathCostsOneSource == \A r \in Runs : job[r].pc \in {"fetch", "checkpoint"} =>
  \A page \in job[r].covered :
    \/ page[1] = job[r].list[job[r].index]
    \/ record[r].checkpoint # None /\ page \in record[r].checkpoint.processed
=============================================================================
