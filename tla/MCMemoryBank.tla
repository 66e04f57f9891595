---------------------------- MODULE MCMemoryBank ----------------------------
(***************************************************************************)
(* Instances of MemoryBank for TLC: two passes that ask, one that rules    *)
(* out, two answers, an abandonment and the sweep.                         *)
(***************************************************************************)
EXTENDS MemoryBank

=============================================================================
