--------------------------- MODULE MCSurveyActions ---------------------------
(***************************************************************************)
(* Instances of SurveyActions for TLC: two dispatches, to two different    *)
(* companies, two people at the card; one call is cut off or out of time,  *)
(* and the queue ranked anew, the structure surveyed or a claim expired.   *)
(***************************************************************************)
EXTENDS SurveyActions, TLC

\* Who they are makes no difference.
Alike == Permutations(Dispatches) \cup Permutations(Approvers) \cup Permutations(Companies)
=============================================================================
