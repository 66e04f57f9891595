------------------------ MODULE MCIncidentLifecycle ------------------------
(***************************************************************************)
(* Instances of IncidentLifecycle for TLC: one opening call and a few      *)
(* markers, emitters, closers and flushers.                                *)
(***************************************************************************)
EXTENDS IncidentLifecycle

=============================================================================
