----------------------------- MODULE MCShardJob -----------------------------
(* Two surfaces, one of which packages its counters, and two artifacts, so   *)
(* that an ambiguous set of artifacts occurs.  A status of every class: clean, *)
(* ASan's own, the entry point's, libFuzzer's findings and its interrupt, the  *)
(* telemetry's, the two of a kill, and Docker's.                               *)
EXTENDS ShardJob

MCHarnesses == {"general", "r4_tn"}
MCContainerExits == {0, 1, 64, 69, 70, 71, 72, 77, 86, 124, 125, 126, 127, 137}
MCArtifacts == {"crash", "slow"}
=============================================================================
