----------------------------- MODULE MemoryBank -----------------------------
(***************************************************************************)
(* One question the fleet carries from pass to pass (services/             *)
(* memory_bank.py, domain/memory.py and the two stores of                  *)
(* adapters/*/memory_bank.py).  Its id is derived from the question, so    *)
(* every call about it meets in this one record.  A call reads the record, *)
(* makes the next version of what it read and saves that whole; in between *)
(* other calls may have saved theirs.  The pointer in the recall index is  *)
(* written afterwards, and may be missed.                                  *)
(***************************************************************************)
EXTENDS Integers

CONSTANTS Opens,      \* calls of open(): a pass asks the question
          RuleOuts,   \* calls of rule_out(), each with one candidate
          Resolves,   \* calls of resolve()
          Abandons,   \* calls of abandon()
          Sweeps,     \* calls of abandon_expired()
          Checkpoints,\* calls of checkpoint()
          Absent,     \* no record
          Indexable,  \* the question's classification may be indexed
          Forgets,    \* the index drops a pointer: in memory it does, Vertex keeps it
          MaxMisses   \* how many index writes may fail

Closers == Resolves \cup Abandons \cup Sweeps
Calls == Opens \cup RuleOuts \cup Closers

Status == {"OPEN", "RESOLVED", "ABANDONED"}

\* The record: what was ruled out, and who closed it.
Question == [status: Status, ruledOut: SUBSET RuleOuts, count: Nat \ {0}, closedBy: Closers \cup {Absent}]
ASSUME BankAssumption ==
  /\ Opens \cap (RuleOuts \cup Closers) = {} /\ RuleOuts \cap Closers = {}
  /\ Resolves \cap (Abandons \cup Sweeps) = {} /\ Abandons \cap Sweeps = {}
  /\ Absent \notin Calls \cup Question /\ {Indexable, Forgets} \subseteq BOOLEAN /\ MaxMisses \in Nat

VARIABLES question,    \* the stored record
          expired,     \* its window is over
          indexed,     \* the recall index points to it
          checkpoints, \* the agent states stored for it
          call,        \* each call: where it is, what it read
          misses       \* bounded by MaxMisses

bankVars == <<question, expired, indexed, checkpoints, call, misses>>

Call == [pc: {"idle", "read", "lost", "saved", "done", "missed", "refused"},
         copy: Question \cup {Absent}]

TypeOK ==
  /\ question \in Question \cup {Absent} /\ expired \in BOOLEAN /\ indexed \in BOOLEAN
  /\ checkpoints \subseteq Checkpoints /\ call \in [Calls -> Call] /\ misses \in 0..MaxMisses
  /\ question # Absent => (question.status = "OPEN" <=> question.closedBy = Absent)

BankInit ==
  /\ question = Absent /\ expired = FALSE /\ indexed = FALSE /\ checkpoints = {}
  /\ call = [c \in Calls |-> [pc |-> "idle", copy |-> Absent]] /\ misses = 0

-----------------------------------------------------------------------------
\* The next versions of a question (domain/memory.py).
Asked == [status |-> "OPEN", ruledOut |-> {}, count |-> 1, closedBy |-> Absent]

Examined(q) == [q EXCEPT !.count = @ + 1]
RuledOut(q, c) == [Examined(q) EXCEPT !.ruledOut = @ \cup {c}]
ClosedAs(q, status, c) ==
  [status |-> status, ruledOut |-> q.ruledOut, count |-> Examined(q).count, closedBy |-> c]

\* Mutant: anything can be resolved.
ResolvesAgain(q, c) == c \in Resolves \/ q.status = "OPEN"

\* A question that is answered is not resolved again, and only an open one
\* abandoned.
MayClose(q, c) == IF c \in Resolves THEN q.status # "RESOLVED" ELSE q.status = "OPEN"

NextVersion(q, c) ==
  IF c \in Opens THEN Examined(q)
  ELSE IF c \in RuleOuts THEN RuledOut(q, c)
  ELSE ClosedAs(q, IF c \in Resolves THEN "RESOLVED" ELSE "ABANDONED", c)

\* Mutant: the store does not look at what it replaces.
SavesAnything(q) == TRUE

\* save(): an answer is not taken back by a stale write.
Saves(q) == question.status = "RESOLVED" => q.status = "RESOLVED"

-----------------------------------------------------------------------------
Ends(c, how) == call' = [call EXCEPT ![c] = [pc |-> how, copy |-> Absent]]

\* A call reads the record; only open() goes on without one.  The sweep reads
\* the open records and takes those whose window is over.
Read(c) ==
  /\ call[c].pc \in {"idle", "lost"}
  /\ c \in Opens \/ question # Absent
  /\ c \in Sweeps => expired /\ question.status = "OPEN"
  /\ IF c \in Closers /\ ~ MayClose(question, c)
       THEN Ends(c, "refused")
       ELSE call' = [call EXCEPT ![c] = [pc |-> "read", copy |-> question]]
  /\ UNCHANGED <<question, expired, indexed, checkpoints, misses>>

\* open() found nothing and creates the record, or finds that another call has.
Create(c) ==
  /\ c \in Opens /\ call[c].pc = "read" /\ call[c].copy = Absent
  /\ IF question = Absent THEN question' = Asked /\ Ends(c, "saved")
                        ELSE UNCHANGED question /\ Ends(c, "lost")
  /\ UNCHANGED <<expired, indexed, checkpoints, misses>>

\* The next version of what the call read goes into the store, or is refused.
\* rule_out() ends there; the others have the index to see to.
Save(c) ==
  /\ call[c].pc = "read" /\ call[c].copy # Absent
  /\ LET next == NextVersion(call[c].copy, c) IN
       IF Saves(next) THEN question' = next /\ Ends(c, IF c \in RuleOuts THEN "done" ELSE "saved")
                      ELSE UNCHANGED question /\ Ends(c, "refused")
  /\ UNCHANGED <<expired, indexed, checkpoints, misses>>

\* Mutant: only a question asked for the first time is put into the index.
PointsToNew(c) == IF c \in Opens THEN indexed \/ (Indexable /\ question.count = 1) ELSE indexed /\ ~ Forgets

\* _remember() and _forget(), which a managed index may make nothing of.
PointsTo(c) == IF c \in Opens THEN indexed \/ Indexable ELSE indexed /\ ~ Forgets

Index(c) ==
  /\ call[c].pc = "saved"
  /\ indexed' = PointsTo(c) /\ Ends(c, "done")
  /\ UNCHANGED <<question, expired, checkpoints, misses>>

\* The index fails, or the process ends before it is reached.
MissIndex(c) ==
  /\ call[c].pc = "saved" /\ misses < MaxMisses /\ misses' = misses + 1
  /\ Ends(c, "missed")
  /\ UNCHANGED <<question, expired, indexed, checkpoints>>

Checkpoint(k) ==
  /\ k \in Checkpoints /\ question # Absent
  /\ checkpoints' = checkpoints \cup {k}
  /\ UNCHANGED <<question, expired, indexed, call, misses>>

Expire ==
  /\ ~ expired /\ expired' = TRUE
  /\ UNCHANGED <<question, indexed, checkpoints, call, misses>>

BankNext ==
  \/ \E c \in Calls : Read(c) \/ Create(c) \/ Save(c) \/ Index(c) \/ MissIndex(c)
  \/ \E k \in Checkpoints : Checkpoint(k)
  \/ Expire

BankSpec == BankInit /\ [][BankNext]_bankVars

-----------------------------------------------------------------------------
\* An answered question stays answered, however old the copy a pass, a sweep or
\* an abandonment writes back (save() of both stores).
AnsweredStaysAnswered ==
  [][question # Absent /\ question.status = "RESOLVED" => (question # Absent /\ question.status = "RESOLVED")']_bankVars

\* p is what becomes of q without anything on record taken back.
Continues(q, p) ==
  /\ p.count = q.count + 1 /\ q.ruledOut \subseteq p.ruledOut
  /\ q.status # "OPEN" => p.status # "OPEN"
  /\ q.status = "RESOLVED" => p.status = "RESOLVED" /\ p.closedBy = q.closedBy

\* Every version that is stored continues one that a call had read: what is
\* lost -- an elimination, an abandonment, the first of two answers -- was
\* recorded after that read, and never by a call that had seen it (the
\* transitions of OpenQuestion and the read-then-save of every operation).
OnlyStaleWritesLose ==
  [][question # Absent /\ question' # question =>
       \E c \in Calls : call[c].pc = "read" /\ call[c].copy # Absent /\ Continues(call[c].copy, question')]_bankVars

\* An open question can be recalled by its prose: once any pass that asked it
\* has had its index write, the index points to it, unless the index forgets and
\* a call that closed it has removed the pointer before a stale write opened it
\* again (_remember on every path of open()).
OpenIsFindable ==
  question # Absent /\ question.status = "OPEN" /\ Indexable /\ ~ indexed =>
    \/ \A c \in Opens : call[c].pc # "done"
    \/ Forgets /\ \E c \in Closers : call[c].pc = "done"
=============================================================================
