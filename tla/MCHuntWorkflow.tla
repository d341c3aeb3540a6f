--------------------------- MODULE MCHuntWorkflow ---------------------------
(***************************************************************************)
(* Two runs of two shards, one of them re-run once: enough for a wave to   *)
(* overtake another, for a re-run after the pool moved, for a run that is  *)
(* replaced by a newer one and for one that is replaced by a re-run.       *)
(***************************************************************************)
EXTENDS HuntWorkflow
=============================================================================
