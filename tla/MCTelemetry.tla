---------------------------- MODULE MCTelemetry ----------------------------
(***************************************************************************)
(* Three processes, two at a time: a second generation, and claims that    *)
(* race.  MAX_JOBS equals the parallelism, as it does in the code (8).     *)
(***************************************************************************)
EXTENDS Telemetry, TLC

Symmetry == Permutations(Procs)
=============================================================================
