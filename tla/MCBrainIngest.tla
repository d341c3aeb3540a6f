--------------------------- MODULE MCBrainIngest ---------------------------
(***************************************************************************)
(* Small instance of BrainIngest: two surfaces, two waves (run 1 with two  *)
(* shards, run 2 with one), overlapping invocations of both scripts, and   *)
(* branches that the scripts did not write.                                *)
(***************************************************************************)
EXTENDS BrainIngest, TLC

CONSTANTS u1, u2, u3, enc, doc1, doc3, noBlob, special, noJob, noTree

MCHarnesses == {"online", "dual"}
MCLaneHarness == [cmp_general |-> "online", cmp_dual |-> "dual"]
MCLanes == DOMAIN MCLaneHarness

J1 == [run |-> 1, attempt |-> 1, harness |-> "online", shard |-> 0]
J2 == [run |-> 1, attempt |-> 1, harness |-> "online", shard |-> 1]
J3 == [run |-> 2, attempt |-> 1, harness |-> "dual", shard |-> 0]
J4 == [run |-> 2, attempt |-> 1, harness |-> "online", shard |-> 0]

MCJobs == {J1, J2, J4}
MCSurfaceJobs == {J1, J3}

MCNames == {"n1", "n2", "n3", "nx"}
MCBlobs == {u1, u2, u3, enc, doc1, doc3}
MCSha1 == u1 :> "n1" @@ u2 :> "n2" @@ u3 :> "n3"
             @@ [b \in {enc, doc1, doc3} |-> "nx"]
MCSize == [b \in MCBlobs |-> 1]

\* A unit that the shard's own limit admits and the pool's does not.
MCForeignSize == u3 :> 3 @@ MCSize

MCEvidence == doc1 :> J1 @@ doc3 :> J3 @@ [b \in MCBlobs |-> noJob]
MCWaveEvidence == doc1 :> J1 @@ doc3 :> J4 @@ [b \in MCBlobs |-> noJob]
MCBucket == "n1" :> "0" @@ "n2" :> "0" @@ "n3" :> "1" @@ "nx" :> "1"

Empty == [x \in Paths |-> noBlob]
With(files) == files @@ Empty
Unit(h, n, b) == corpus_unit_for(h, n) :> b

MCInitialPool == With(Unit("online", "n1", u1))

\* One unit that the pool has, one that it lacks, and a third that exceeds
\* the capacity once the second is in.
MCCorpora == {{<<"n1", u1>>, <<"n2", u2>>}, {<<"n3", u3>>}}

\* A unit under a name that is not its hash; one in the other surface; a
\* file outside every canonical path; a document of another job; a symlink;
\* a changed copy of a unit that the pool has; and a harmless tree.
MCForeignTrees ==
    {With(Unit("online", "n3", u2)), With(Unit("dual", "n2", u2)),
     With(StrayPath :> u2), With(telemetry_for(J1) :> doc3),
     With(Unit("online", "n2", special)), With(Unit("online", "n1", u2)),
     With(Unit("online", "n2", u2))}

MCForeignRefs == {branch_for(J1), LegacyRef(J1), MalformedRef}
MCNoForeign == {}
MCBundles == {enc}
MCTelemetry == {doc1, noBlob}
MCNoTelemetry == {noBlob}

Symmetry == Permutations(Publishers) \cup Permutations(Aggregators)
=============================================================================
