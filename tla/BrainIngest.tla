---------------------------- MODULE BrainIngest ----------------------------
(***************************************************************************)
(* How fuzzing results reach the private brain: every shard runs           *)
(* publish_ingest.sh, which pushes its corpus units, its encrypted         *)
(* incident and its telemetry to an ingest branch of its own; one          *)
(* aggregate_ingest.sh per (run, attempt) folds those branches into the    *)
(* shared branch corpus-pool.                                              *)
(*                                                                         *)
(* Both scripts work on a private clone: they fetch, stage, commit and     *)
(* push without force, and any command may fail (set -e, network, runner   *)
(* loss, job timeout).  Any number of invocations may overlap: nothing in  *)
(* the scripts themselves excludes another wave, an operator's retry or a  *)
(* second publisher of the same shard.                                     *)
(***************************************************************************)
EXTENDS BrainPaths

CONSTANTS
    Publishers,       \* invocations of publish_ingest.sh
    Aggregators,      \* invocations of aggregate_ingest.sh
    LocalCorpora,     \* corpus directories a shard may hold: sets of
                      \* <<file name, content>>
    Bundles,          \* encrypted incident bundles
    LocalTelemetry,   \* telemetry files a shard may pass; NoBlob for none
    LocalUnitLimit,   \* unit limit of materialize_corpus.py (4 MiB)
    LocalFileLimit,   \* file limit of materialize_corpus.py (100000)
    MaxShards,        \* shards are 0 .. MaxShards - 1
    InitialPool,      \* corpus-pool before the behaviour starts
    ForeignRefs,      \* ingest refs that these scripts did not write,
    ForeignTrees,     \* and the trees found there
    NoTree            \* the ref does not exist

ASSUME IngestConstants ==
    /\ LocalCorpora \subseteq SUBSET (Names \X Blobs)
    /\ \A c \in LocalCorpora : \A e, f \in c : e[1] = f[1] => e = f
    /\ Bundles \subseteq Blobs
    /\ LocalTelemetry \subseteq Blobs \cup {NoBlob}
    /\ {LocalUnitLimit, LocalFileLimit, MaxShards} \subseteq Nat
    /\ \A j \in Jobs : j.shard \in Nat
    /\ InitialPool \in Trees /\ Healthy(InitialPool)
    /\ ForeignRefs \subseteq Refs /\ ForeignTrees \subseteq Trees
    /\ NoTree \notin Trees

VARIABLES
    pool,    \* tree at the head of corpus-pool
    rev,     \* identity of that head: pushes so far
    refs,    \* ingest refs: the commit (parent revision and tree) or absent
    pub,     \* publisher invocations
    agg      \* aggregator invocations

remote == <<pool, rev, refs>>
vars   == <<pool, rev, refs, pub, agg>>

Commits == [parent : Nat, tree : Trees]
NoRef   == [parent |-> 0, tree |-> NoTree]

Exists(r) == refs[r].tree # NoTree

IdlePub == [st |-> "idle", job |-> NoJob, commit |-> NoRef]
IdleAgg == [st |-> "idle", run |-> NoJob, attempt |-> NoJob, base |-> 0,
            baseTree |-> InitialPool, stage |-> InitialPool,
            todo |-> {}, merged |-> {}]

Init ==
    /\ pool = InitialPool
    /\ rev = 0
    /\ refs = [r \in Refs |-> NoRef]
    /\ pub = [p \in Publishers |-> IdlePub]
    /\ agg = [g \in Aggregators |-> IdleAgg]

(***************************************************************************)
(* publish_ingest.sh                                                       *)
(***************************************************************************)

\* materialize_corpus.py: names are the SHA-1 of the contents, sizes bounded.
CorpusValid(corpus) ==
    /\ Cardinality(corpus) <= LocalFileLimit
    /\ \A f \in corpus : Sha1[f[2]] = f[1] /\ Size[f[2]] <= LocalUnitLimit

\* The tree that the publisher commits on top of the pool it fetched.
PublishedTree(base, j, corpus, bundle, tel) ==
    [x \in Paths |->
        IF x = incident_for(j) THEN bundle
        ELSE IF x = telemetry_for(j) /\ tel # NoBlob THEN tel
        ELSE IF \E f \in corpus : x = corpus_unit_for(j.harness, f[1])
             THEN (CHOOSE f \in corpus : x = corpus_unit_for(j.harness, f[1]))[2]
        ELSE base[x]]

\* Every write is an addition: a unit already in the pool must be identical,
\* incident and telemetry must be new.
StageAllowed(base, j, corpus, tel) ==
    /\ \A f \in corpus :
          base[corpus_unit_for(j.harness, f[1])] \in {NoBlob, f[2]}
    /\ base[incident_for(j)] = NoBlob
    /\ tel # NoBlob => /\ Evidence[tel] = j
                       /\ base[telemetry_for(j)] = NoBlob

\* Validate the inputs, fetch corpus-pool, stage and commit.
PublishPrepare(p, lane, j, corpus, bundle, tel) ==
    /\ pub[p].st = "idle"
    /\ j.harness = LaneHarness[lane]
    /\ j.shard < MaxShards
    /\ CorpusValid(corpus)
    /\ StageAllowed(pool, j, corpus, tel)
    /\ pub' = [pub EXCEPT ![p] =
                 [st |-> "committed", job |-> j,
                  commit |-> [parent |-> rev,
                              tree |-> PublishedTree(pool, j, corpus,
                                                     bundle, tel)]]]
    /\ UNCHANGED <<remote, agg>>

\* Mutant: the push is forced.
PublishPush_Forced(p) ==
    /\ pub[p].st = "committed"
    /\ refs' = [refs EXCEPT ![branch_for(pub[p].job)] = pub[p].commit]
    /\ \E st \in {"done", "failed"} : pub' = [pub EXCEPT ![p].st = st]
    /\ UNCHANGED <<pool, rev, agg>>

\* git push without force: the ref must be absent, or already hold this
\* very commit.  The acknowledgement may be lost after the ref was written.
PublishPush(p) ==
    LET r == branch_for(pub[p].job)
    IN /\ pub[p].st = "committed"
       /\ ~Exists(r) \/ refs[r] = pub[p].commit
       /\ refs' = [refs EXCEPT ![r] = pub[p].commit]
       /\ \E st \in {"done", "failed"} : pub' = [pub EXCEPT ![p].st = st]
       /\ UNCHANGED <<pool, rev, agg>>

\* Any command fails, or the push is rejected: nothing reaches the remote.
\* (An invocation that fails before its commit is one that never started.)
PublishFail(p) ==
    /\ pub[p].st = "committed"
    /\ pub' = [pub EXCEPT ![p].st = "failed"]
    /\ UNCHANGED <<remote, agg>>

(***************************************************************************)
(* aggregate_ingest.sh                                                     *)
(***************************************************************************)

\* Fetch corpus-pool; its head is BASE.
AggregateFetch(g, run, attempt) ==
    /\ agg[g].st = "idle"
    /\ agg' = [agg EXCEPT ![g] =
                 [st |-> "fetched", run |-> run, attempt |-> attempt,
                  base |-> rev, baseTree |-> pool, stage |-> pool,
                  todo |-> {}, merged |-> {}]]
    /\ UNCHANGED <<remote, pub>>

\* Mutant: the run is not compared.
Matches_AttemptOnly(a, r) == parse_ref(r).attempt = a.attempt

Matches(a, r) == /\ parse_ref(r).run = a.run
                 /\ parse_ref(r).attempt = a.attempt

\* ls-remote: one ref that does not parse closes the aggregation (exit 65);
\* the refs of other runs and attempts are skipped.
AggregateList(g) ==
    LET listed == {r \in Refs : Exists(r)}
    IN /\ agg[g].st = "fetched"
       /\ \A r \in listed : parse_ref(r) # NoJob
       /\ agg' = [agg EXCEPT ![g].st = "merging",
                             ![g].todo = {r \in listed : Matches(agg[g], r)}]
       /\ UNCHANGED <<remote, pub>>

\* Mutant: the name is not recomputed from the content.
CorpusEntryOK_Unhashed(x, b, stage, j) ==
    \E n \in Names : /\ x = corpus_unit_for(j.harness, n)
                     /\ stage[x] \in {NoBlob, b}

\* Mutant: any surface's directory is accepted.
CorpusEntryOK_AnySurface(x, b, stage, j) ==
    \E h \in Harnesses, n \in Names :
        /\ x = corpus_unit_for(h, n)
        /\ Sha1[b] = n
        /\ stage[x] \in {NoBlob, b}

CorpusEntryOK(x, b, stage, j) ==
    \E n \in Names : /\ x = corpus_unit_for(j.harness, n)
                     /\ Sha1[b] = n
                     /\ stage[x] \in {NoBlob, b}

TelemetryEntryOK(x, b, stage, j) ==
    /\ x = telemetry_for(j)
    /\ stage[x] = NoBlob
    /\ Size[b] > 0
    /\ Evidence[b] = j

IncidentEntryOK(x, b, stage, j) ==
    /\ x = incident_for(j)
    /\ stage[x] = NoBlob
    /\ Size[b] > 0

\* Every entry of the branch is in BASE with the same oid, or is a new file
\* that the authority would have placed there.
MergeAllowed(base, stage, tree, j) ==
    \A x \in {y \in Paths : tree[y] # NoBlob} :
        /\ tree[x] # Special
        /\ \/ base[x] = tree[x]
           \/ /\ base[x] = NoBlob
              /\ \/ CorpusEntryOK(x, tree[x], stage, j)
                 \/ TelemetryEntryOK(x, tree[x], stage, j)
                 \/ IncidentEntryOK(x, tree[x], stage, j)

Merge(base, stage, tree) ==
    [x \in Paths |-> IF base[x] = NoBlob /\ tree[x] # NoBlob
                     THEN tree[x] ELSE stage[x]]

\* One turn of the loop: fetch a matching branch and stage its contribution.
\* Two branches of one tuple would share a tracking ref: the second fetch is
\* no fast-forward and fails, unless they are at the same commit.
AggregateMerge(g, r) ==
    LET a == agg[g]
        j == parse_ref(r)
        tree == refs[r].tree
    IN /\ a.st = "merging"
       /\ r \in a.todo
       /\ \A m \in a.merged : parse_ref(m) = j => refs[m] = refs[r]
       /\ MergeAllowed(a.baseTree, a.stage, tree, j)
       /\ agg' = [agg EXCEPT ![g].stage = Merge(a.baseTree, a.stage, tree),
                             ![g].todo = a.todo \ {r},
                             ![g].merged = a.merged \cup {r}]
       /\ UNCHANGED <<remote, pub>>

\* Mutant: the commit does not wait for the last branch.
AggregateCommit_Early(g) ==
    /\ agg[g].st = "merging"
    /\ CapacityOK(agg[g].stage)
    /\ agg[g].stage # agg[g].baseTree
    /\ agg' = [agg EXCEPT ![g].st = "committed"]
    /\ UNCHANGED <<remote, pub>>

\* Mutant: no capacity gate.
AggregateCommit_Ungated(g) ==
    /\ agg[g].st = "merging"
    /\ agg[g].todo = {}
    /\ agg[g].stage # agg[g].baseTree
    /\ agg' = [agg EXCEPT ![g].st = "committed"]
    /\ UNCHANGED <<remote, pub>>

\* Capacity gate, then commit; git refuses a commit that changes nothing.
AggregateCommit(g) ==
    /\ agg[g].st = "merging"
    /\ agg[g].todo = {}
    /\ CapacityOK(agg[g].stage)
    /\ agg[g].stage # agg[g].baseTree
    /\ agg' = [agg EXCEPT ![g].st = "committed"]
    /\ UNCHANGED <<remote, pub>>

\* Mutant: the push is forced.
AggregatePush_Forced(g) ==
    /\ agg[g].st = "committed"
    /\ pool' = agg[g].stage
    /\ rev' = rev + 1
    /\ \E st \in {"done", "failed"} : agg' = [agg EXCEPT ![g].st = st]
    /\ UNCHANGED <<refs, pub>>

\* git push without force: only onto the head that was fetched.  The
\* acknowledgement may be lost after the head moved.
AggregatePush(g) ==
    /\ agg[g].st = "committed"
    /\ rev = agg[g].base
    /\ pool' = agg[g].stage
    /\ rev' = rev + 1
    /\ \E st \in {"done", "failed"} : agg' = [agg EXCEPT ![g].st = st]
    /\ UNCHANGED <<refs, pub>>

\* Any command fails, a check exits 65, the commit is empty, or the push is
\* rejected: nothing reaches the remote.
AggregateFail(g) ==
    /\ agg[g].st \in {"fetched", "merging", "committed"}
    /\ agg' = [agg EXCEPT ![g].st = "failed"]
    /\ UNCHANGED <<remote, pub>>

(***************************************************************************)
(* Refs that these scripts did not write: branches of the time before the  *)
(* lanes, and whatever else a holder of the write token pushed there.      *)
(***************************************************************************)
ForeignPush(r, tree) ==
    /\ ~Exists(r)
    /\ refs' = [refs EXCEPT ![r] = [parent |-> 0, tree |-> tree]]
    /\ UNCHANGED <<pool, rev, pub, agg>>

PublisherStep(p) ==
    \/ \E lane \in Lanes, j \in Jobs, corpus \in LocalCorpora,
          bundle \in Bundles, tel \in LocalTelemetry :
             PublishPrepare(p, lane, j, corpus, bundle, tel)
    \/ PublishPush(p)
    \/ PublishFail(p)

AggregatorStep(g) ==
    \/ \E j \in Jobs : AggregateFetch(g, j.run, j.attempt)
    \/ AggregateList(g)
    \/ \E r \in Refs : AggregateMerge(g, r)
    \/ AggregateCommit(g)
    \/ AggregatePush(g)
    \/ AggregateFail(g)

Next ==
    \/ \E p \in Publishers : PublisherStep(p)
    \/ \E g \in Aggregators : AggregatorStep(g)
    \/ \E r \in ForeignRefs, tree \in ForeignTrees : ForeignPush(r, tree)

Spec == Init /\ [][Next]_vars

-----------------------------------------------------------------------------
(***************************************************************************)
(* Properties                                                              *)
(***************************************************************************)
Runs     == {j.run : j \in Jobs}
Attempts == {j.attempt : j \in Jobs}

PubStates ==
    [st : {"idle", "committed", "done", "failed"},
     job : Jobs \cup {NoJob}, commit : Commits \cup {NoRef}]

AggStates ==
    [st : {"idle", "fetched", "merging", "committed", "done", "failed"},
     run : Runs \cup {NoJob}, attempt : Attempts \cup {NoJob},
     base : Nat, baseTree : Trees, stage : Trees,
     todo : SUBSET Refs, merged : SUBSET Refs]

\* The type invariant of the remote and of both scripts.
TypeOK ==
    /\ pool \in Trees
    /\ rev \in Nat
    /\ refs \in [Refs -> Commits \cup {NoRef}]
    /\ pub \in [Publishers -> PubStates]
    /\ agg \in [Aggregators -> AggStates]

\* Whatever the ingest branches hold and however aggregations overlap, every
\* revision of corpus-pool is within the reader's capacity, is content
\* addressed and carries telemetry only at the path of its own job
\* (aggregate_ingest.sh:104-161).
PoolHealthy == Healthy(pool)

\* A file reaches the pool only out of a published branch, and only into the
\* subtree of that branch's own surface, run, attempt and shard
\* (aggregate_ingest.sh:104-145): lanes and waves never cross.
SurfaceSeparation ==
    \A x \in Paths :
        pool[x] \in {NoBlob, InitialPool[x]} \/
        \E r \in Refs : /\ Exists(r)
                        /\ parse_ref(r) # NoJob
                        /\ Owns(parse_ref(r), x)
                        /\ refs[r].tree[x] = pool[x]

\* An aggregation that reports success has put everything that its branches
\* hold into the pool, and it is still there (aggregate_ingest.sh:56-168).
DoneMeansMerged ==
    \A g \in Aggregators : agg[g].st = "done" =>
        \A r \in agg[g].todo \cup agg[g].merged, x \in Paths :
            refs[r].tree[x] \in {NoBlob, pool[x]}

\* A publication that reports success is on its branch, unchanged, whatever
\* other publishers of the same shard did (publish_ingest.sh:140-146).
DoneMeansPublished ==
    \A p \in Publishers :
        pub[p].st = "done" => refs[branch_for(pub[p].job)] = pub[p].commit

\* No push loses or replaces a file of the pool: a concurrent aggregation
\* that was staged on an older head is refused (aggregate_ingest.sh:168).
PoolAppendOnly ==
    [][\A x \in Paths : pool[x] # NoBlob => pool'[x] = pool[x]]_vars

\* Aggregating again what is already merged makes no new revision
\* (aggregate_ingest.sh:163-168).
NoEmptyRevision == [][rev' # rev => pool' # pool]_vars

\* The inductive invariant.  BASE is a past head, and the present one if no
\* push happened since; a stage is BASE plus what the merged branches hold;
\* what was committed passed the gate; what was reported done is in the pool.
InFlight(g) == agg[g].st \in {"fetched", "merging", "committed"}

BaseIsPast ==
    \A g \in Aggregators : InFlight(g) =>
        /\ agg[g].base <= rev
        /\ agg[g].base = rev => agg[g].baseTree = pool

SoundStage(a) ==
    /\ \A r \in a.todo \cup a.merged :
          Exists(r) /\ parse_ref(r) # NoJob /\ Matches(a, r)
    /\ ContentAddressed(a.stage) /\ EvidenceInPlace(a.stage)
    /\ \A x \in Paths :
          /\ a.baseTree[x] \in {NoBlob, a.stage[x]}
          /\ \A r \in a.merged : refs[r].tree[x] \in {NoBlob, a.stage[x]}
          /\ \/ a.stage[x] = a.baseTree[x]
             \/ \E r \in a.merged : /\ refs[r].tree[x] = a.stage[x]
                                     /\ Owns(parse_ref(r), x)

StageIsSound ==
    \A g \in Aggregators :
        InFlight(g) \/ agg[g].st = "done" => SoundStage(agg[g])

CommitIsChecked ==
    \A g \in Aggregators : agg[g].st = "committed" =>
        /\ CapacityOK(agg[g].stage)
        /\ agg[g].stage # agg[g].baseTree
        /\ agg[g].todo = {}

DoneIsInPool ==
    \A g \in Aggregators : agg[g].st = "done" =>
        /\ agg[g].todo = {}
        /\ \A x \in Paths : agg[g].stage[x] \in {NoBlob, pool[x]}

CommitIsTyped ==
    \A p \in Publishers : pub[p].st \in {"committed", "done"} =>
        pub[p].job \in Jobs /\ pub[p].commit \in Commits

\* The pipeline's inductive invariant: a stage is always its base plus its
\* branches, and the base of a push is the head it replaces
\* (aggregate_ingest.sh:37-168).
IngestInv ==
    /\ TypeOK
    /\ PoolHealthy
    /\ BaseIsPast
    /\ StageIsSound
    /\ CommitIsChecked
    /\ DoneIsInPool
    /\ CommitIsTyped
    /\ SurfaceSeparation
    /\ DoneMeansPublished

SameWave(r, s) ==
    /\ parse_ref(r) # NoJob /\ parse_ref(s) # NoJob
    /\ parse_ref(r).run = parse_ref(s).run
    /\ parse_ref(r).attempt = parse_ref(s).attempt

\* The pool and the branches as an abstract store: every push to corpus-pool
\* is one atomic consolidation of published branches of one run and attempt
\* (aggregate_ingest.sh:37-168).
AtomicPool == INSTANCE BrainPool WITH branch <- [r \in Refs |-> refs[r].tree]
ImplementsAtomicPool == AtomicPool!Spec
=============================================================================
