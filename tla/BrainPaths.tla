----------------------------- MODULE BrainPaths -----------------------------
(***************************************************************************)
(* The path authority of the private "brain" repository                    *)
(* (scripts/brain_paths.sh) and the trees that git keeps under it.         *)
(*                                                                         *)
(* A path is the record of the fields the authority formats into it, so    *)
(* "is this the path the authority would have generated" is equality.      *)
(* A git tree is a function from paths to entries.                         *)
(***************************************************************************)
EXTENDS Naturals, FiniteSets, FiniteSetsExt

CONSTANTS
    Harnesses,        \* BRAIN_HARNESSES, the fuzzed surfaces
    LegacyHarness,    \* the harness a ref without harness segment belongs to
    Lanes,            \* execution lanes an operator may select
    LaneHarness,      \* the closed lane -> harness mapping
    Jobs,             \* the (run, attempt, harness, shard) tuples considered
    Names,            \* SHA-1 names
    Blobs,            \* file contents
    Sha1,             \* content -> name
    Size,             \* content -> bytes
    Evidence,         \* content -> the job whose canonical telemetry it is
    NoBlob,           \* the path is absent from the tree
    Special,          \* an entry that is not a 100644 blob
    NoJob             \* content that is no telemetry document; a failed parse

ASSUME PathConstants ==
    /\ LegacyHarness \in Harnesses
    /\ LaneHarness \in [Lanes -> Harnesses]
    /\ \A j \in Jobs : j = [run |-> j.run, attempt |-> j.attempt,
                            harness |-> j.harness, shard |-> j.shard]
    /\ \A j \in Jobs : j.harness \in Harnesses
    /\ Sha1 \in [Blobs -> Names]
    /\ Size \in [Blobs -> Nat]
    /\ Evidence \in [Blobs -> Jobs \cup {NoJob}]
    /\ NoBlob \notin Blobs /\ Special \notin Blobs /\ NoBlob # Special
    /\ NoJob \notin Jobs

(***************************************************************************)
(* Derived paths.                                                          *)
(***************************************************************************)
corpus_unit_for(h, n) == [kind |-> "corpus", harness |-> h, name |-> n]
incident_for(j)       == [kind |-> "incident", job |-> j]
telemetry_for(j)      == [kind |-> "telemetry", job |-> j]

\* A path no function of the authority generates.
StrayPath == [kind |-> "stray"]

Paths ==
    {corpus_unit_for(h, n) : h \in Harnesses, n \in Names}
        \cup {incident_for(j) : j \in Jobs}
        \cup {telemetry_for(j) : j \in Jobs}
        \cup {StrayPath}

Trees == [Paths -> Blobs \cup {NoBlob, Special}]

(***************************************************************************)
(* Refs under ingest/.  branch_for generates the canonical form only; the  *)
(* legacy form has no harness segment, and anything else does not parse.   *)
(***************************************************************************)
branch_for(j) == [form |-> "canonical", run |-> j.run, attempt |-> j.attempt,
                  harness |-> j.harness, shard |-> j.shard]
LegacyRef(j)  == [form |-> "legacy", run |-> j.run, attempt |-> j.attempt,
                  shard |-> j.shard]
MalformedRef  == [form |-> "malformed"]

Refs == {branch_for(j) : j \in Jobs}
           \cup {LegacyRef(j) : j \in {i \in Jobs : i.harness = LegacyHarness}}
           \cup {MalformedRef}

\* parse_branch, else parse_branch_legacy; NoJob when both refuse the ref.
parse_ref(r) ==
    IF r.form = "malformed" THEN NoJob
    ELSE [run |-> r.run, attempt |-> r.attempt,
          harness |-> IF r.form = "legacy" THEN LegacyHarness ELSE r.harness,
          shard |-> r.shard]

(***************************************************************************)
(* The capacity the shard reader can consume, per harness directory.       *)
(***************************************************************************)
CONSTANTS
    Bucket,           \* name -> its two-digit prefix
    MaxUnitBytes, MaxTotalFiles, MaxTotalBytes,
    MaxBucketFiles, MaxBucketBytes

ASSUME CapacityConstants ==
    /\ DOMAIN Bucket = Names
    /\ {MaxUnitBytes, MaxTotalFiles, MaxTotalBytes,
        MaxBucketFiles, MaxBucketBytes} \subseteq Nat

UnitNames(tree, h) ==
    {n \in Names : tree[corpus_unit_for(h, n)] # NoBlob}

BytesOf(tree, h, ns) ==
    MapThenSumSet(LAMBDA n : Size[tree[corpus_unit_for(h, n)]], ns)

\* validate_pool_capacity.py over the directory of every harness.
CapacityOK(tree) ==
    \A h \in Harnesses :
        LET all == UnitNames(tree, h)
            in(b) == {n \in all : Bucket[n] = b}
        IN /\ \A n \in all : tree[corpus_unit_for(h, n)] # Special
           /\ \A n \in all : Size[tree[corpus_unit_for(h, n)]] <= MaxUnitBytes
           /\ Cardinality(all) <= MaxTotalFiles
           /\ BytesOf(tree, h, all) <= MaxTotalBytes
           /\ \A b \in {Bucket[n] : n \in all} :
                 /\ Cardinality(in(b)) <= MaxBucketFiles
                 /\ BytesOf(tree, h, in(b)) <= MaxBucketBytes

(***************************************************************************)
(* A pool revision that the shard readers can consume and trust.           *)
(***************************************************************************)

\* Every corpus unit is named by the SHA-1 of its content.
ContentAddressed(tree) ==
    \A h \in Harnesses, n \in Names :
        LET b == tree[corpus_unit_for(h, n)]
        IN b # NoBlob => b \in Blobs /\ Sha1[b] = n

\* Every telemetry document describes the job whose path it sits at.
EvidenceInPlace(tree) ==
    \A j \in Jobs :
        LET b == tree[telemetry_for(j)]
        IN b # NoBlob => b \in Blobs /\ Evidence[b] = j

Healthy(tree) ==
    /\ CapacityOK(tree)
    /\ ContentAddressed(tree)
    /\ EvidenceInPlace(tree)

\* The part of the tree that job j may contribute to.
Owns(j, x) == \/ \E n \in Names : x = corpus_unit_for(j.harness, n)
              \/ x = incident_for(j)
              \/ x = telemetry_for(j)
=============================================================================
