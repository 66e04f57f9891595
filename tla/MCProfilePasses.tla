-------------------------- MODULE MCProfilePasses --------------------------
(***************************************************************************)
(* Small addresses for TLC: two facts that disagree, and two that settle   *)
(* the disagreement.                                                       *)
(***************************************************************************)
EXTENDS ProfilePasses, TLC

CONSTANTS f1, f2, f3, f4, c1, w1, w2, s1, s2, a1, a2

\* The engine finds c1 between f1 and f2.
MCFindings == [known \in SUBSET Facts |-> IF {f1, f2} \subseteq known THEN {c1} ELSE {}]

\* Each of two watchers comes with one side.
MCReads == (w1 :> {f1}) @@ (w2 :> {f2})

\* One watcher comes with both sides, each survey with a fact that settles c1.
MCSurveyReads == (w1 :> {f1, f2}) @@ (s1 :> {f3}) @@ (s2 :> {f4})

MCSettles == [s \in Surveyors |-> {c1}]

\* records-watcher and hazard-watcher.
MCOwnOwner == [w \in Watchers |-> IF w = w1 THEN a1 ELSE a2]
=============================================================================
