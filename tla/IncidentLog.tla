---------------------------- MODULE IncidentLog ----------------------------
(***************************************************************************)
(* The incident log repository: one header document holding the next free  *)
(* sequence and the seal, and one document per entry, stored under its     *)
(* sequence.  Each operation below is one transaction (one lock section of *)
(* the in-memory store).  An entry is known by the call that wrote it, and *)
(* carries the mark that the records system has it.                        *)
(***************************************************************************)
EXTENDS Naturals

CONSTANT Lines       \* the entries that may be written

VARIABLES header,    \* the next free sequence, and whether the log is sealed
          docs       \* the entry documents, by sequence

LogVars == <<header, docs>>

Header == [next: Nat, sealed: BOOLEAN]
Entry == [line: Lines, written: BOOLEAN]

LogInit ==
  /\ header = [next |-> 0, sealed |-> FALSE]
  /\ docs = [s \in {} |-> 0]

Recorded == {docs[s].line : s \in DOMAIN docs}

Unflushed == {s \in DOMAIN docs : ~docs[s].written}

InSequence(sequence) == sequence = header.next

\* Mutant: the seal is not looked at.
NeverSealed == FALSE

Sealed == header.sealed

AppendEntry(line, sequence) ==
  /\ ~Sealed
  /\ InSequence(sequence)
  /\ docs' = [s \in DOMAIN docs \cup {sequence} |->
                IF s = sequence THEN [line |-> line, written |-> FALSE] ELSE docs[s]]
  /\ header' = [header EXCEPT !.next = @ + 1]

SealLog ==
  /\ header' = [header EXCEPT !.sealed = TRUE]
  /\ UNCHANGED docs

MarkWrittenToRms(sequence) ==
  /\ docs' = [docs EXCEPT ![sequence].written = TRUE]
  /\ UNCHANGED header

-----------------------------------------------------------------------------
(***************************************************************************)
(* The log as a reader sees it: the entry documents in sequence.           *)
(***************************************************************************)
Lined == [i \in 1..header.next |-> docs[i - 1].line]

Contract == INSTANCE AppendOnlyRecord WITH record <- Lined, closed <- header.sealed

\* The log keeps its contract whatever its writers race for: AppendOnlyLog and
\* the transactional append of the Firestore repository.
KeepsContract == Contract!Spec

\* The header's counter and the entry documents agree, so that the log can be
\* read back: AppendOnlyLog refuses to be built from a sequence with a gap.
Gapless == DOMAIN docs = 0..(header.next - 1)
=============================================================================
