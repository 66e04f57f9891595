-------------------------- MODULE MCEntryPackages --------------------------
(***************************************************************************)
(* Instances of EntryPackages for TLC: a sweep's hook, the deadline and a  *)
(* request that compose; and a few people who sign and send.               *)
(***************************************************************************)
EXTENDS EntryPackages, TLC

\* Which of several like calls it is makes no difference.
Alike == Permutations(Taps) \cup Permutations(Sends)
=============================================================================
