----------------------------- MODULE MCBackfill -----------------------------
(***************************************************************************)
(* An instance of Backfill for TLC: three sources, the last of them longer *)
(* than the page limit, all in one list and two missing from the other,    *)
(* and three runs that may continue one another.                           *)
(***************************************************************************)
EXTENDS Backfill, TLC

MCPages == <<1, 1, 3>>
MCLists == {<<1, 2, 3>>, <<2>>}
RunSymmetry == Permutations(Runs)
=============================================================================
