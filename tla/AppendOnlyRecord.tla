-------------------------- MODULE AppendOnlyRecord --------------------------
(***************************************************************************)
(* What an incident's record promises its readers: lines are added at the  *)
(* end, each once; none is changed or taken away; and once the record is   *)
(* closed it stays as it is.                                               *)
(***************************************************************************)
EXTENDS Sequences, Naturals

CONSTANT Lines

VARIABLES record, closed

Init == record = <<>> /\ closed = FALSE

Written(line) == \E i \in 1..Len(record) : record[i] = line

Add(line) ==
  /\ ~closed
  /\ ~Written(line)
  /\ record' = Append(record, line)
  /\ UNCHANGED closed

Close ==
  /\ closed' = TRUE
  /\ UNCHANGED record

Next == Close \/ \E line \in Lines : Add(line)

Spec == Init /\ [][Next]_<<record, closed>>
=============================================================================
