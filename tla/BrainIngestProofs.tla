------------------------- MODULE BrainIngestProofs -------------------------
(***************************************************************************)
(* Proofs about the ingest pipeline, for every set of jobs, invocations,   *)
(* contents and foreign branches.                                          *)
(***************************************************************************)
EXTENDS BrainIngest, TLAPS

(***************************************************************************)
(* Paths and refs.                                                         *)
(***************************************************************************)

\* What the authority generates is a path.
LEMMA PathsContain ==
    /\ \A h \in Harnesses, n \in Names : corpus_unit_for(h, n) \in Paths
    /\ \A j \in Jobs : incident_for(j) \in Paths /\ telemetry_for(j) \in Paths
BY DEF Paths

\* The authority never gives two files one path.
LEMMA PathsDisjoint ==
    ASSUME NEW h, NEW n, NEW i, NEW j
    PROVE  /\ corpus_unit_for(h, n) # incident_for(j)
           /\ corpus_unit_for(h, n) # telemetry_for(j)
           /\ incident_for(i) # telemetry_for(j)
           /\ telemetry_for(i) = telemetry_for(j) => i = j
BY DEF corpus_unit_for, incident_for, telemetry_for

\* A corpus path determines its surface and its name.
LEMMA CorpusPathInjective ==
    ASSUME NEW g, NEW h, NEW m, NEW n,
           corpus_unit_for(g, m) = corpus_unit_for(h, n)
    PROVE  g = h /\ m = n
BY DEF corpus_unit_for

\* Parsing inverts branch_for and the legacy form.
LEMMA ParseInverts ==
    /\ \A j \in Jobs : branch_for(j) \in Refs /\ parse_ref(branch_for(j)) = j
    /\ \A r \in Refs : parse_ref(r) \in Jobs \cup {NoJob}
<1>1. ASSUME NEW j \in Jobs PROVE parse_ref(branch_for(j)) = j
  BY PathConstants DEF parse_ref, branch_for
<1>2. ASSUME NEW j \in Jobs, j.harness = LegacyHarness
      PROVE  parse_ref(LegacyRef(j)) = j
  BY <1>2, PathConstants DEF parse_ref, LegacyRef
<1>3. parse_ref(MalformedRef) = NoJob
  BY DEF parse_ref, MalformedRef
<1>4. ASSUME NEW r \in Refs PROVE parse_ref(r) \in Jobs \cup {NoJob}
  BY <1>1, <1>2, <1>3 DEF Refs
<1>5. QED
  BY <1>1, <1>4 DEF Refs

(***************************************************************************)
(* Merging one branch.                                                     *)
(***************************************************************************)

\* A permitted merge keeps BASE and the stage, contains the branch, adds
\* only files the branch's job owns, and keeps names and evidence right.
LEMMA MergeIsSound ==
    ASSUME NEW base \in Trees, NEW stage \in Trees, NEW tree \in Trees,
           NEW j \in Jobs,
           MergeAllowed(base, stage, tree, j),
           \A x \in Paths : base[x] \in {NoBlob, stage[x]},
           ContentAddressed(stage), EvidenceInPlace(stage)
    PROVE  /\ Merge(base, stage, tree) \in Trees
           /\ ContentAddressed(Merge(base, stage, tree))
           /\ EvidenceInPlace(Merge(base, stage, tree))
           /\ \A x \in Paths :
                /\ base[x] \in {NoBlob, Merge(base, stage, tree)[x]}
                /\ stage[x] \in {NoBlob, Merge(base, stage, tree)[x]}
                /\ tree[x] \in {NoBlob, Merge(base, stage, tree)[x]}
                /\ \/ Merge(base, stage, tree)[x] = stage[x]
                   \/ /\ tree[x] = Merge(base, stage, tree)[x]
                      /\ Owns(j, x)
<1> DEFINE new == Merge(base, stage, tree)
<1>1. new \in Trees
  BY DEF Merge, Trees
<1>2. \A x \in Paths : new[x] = IF base[x] = NoBlob /\ tree[x] # NoBlob
                                THEN tree[x] ELSE stage[x]
  BY DEF Merge
<1>3. ASSUME NEW x \in Paths, base[x] = NoBlob, tree[x] # NoBlob
      PROVE  /\ tree[x] \in Blobs
             /\ \/ CorpusEntryOK(x, tree[x], stage, j)
                \/ TelemetryEntryOK(x, tree[x], stage, j)
                \/ IncidentEntryOK(x, tree[x], stage, j)
  BY <1>3 DEF MergeAllowed, Trees
<1>4. ASSUME NEW x \in Paths
      PROVE  /\ base[x] \in {NoBlob, new[x]}
             /\ stage[x] \in {NoBlob, new[x]}
             /\ tree[x] \in {NoBlob, new[x]}
             /\ new[x] = stage[x] \/ (tree[x] = new[x] /\ Owns(j, x))
  <2>1. CASE base[x] = NoBlob /\ tree[x] # NoBlob
    BY <1>2, <1>3, <2>1
       DEF Owns, CorpusEntryOK, TelemetryEntryOK, IncidentEntryOK
  <2>2. CASE base[x] # NoBlob
    <3>1. new[x] = stage[x] /\ base[x] = stage[x]
      BY <1>2, <2>2
    <3>2. tree[x] \in {NoBlob, base[x]}
      BY <2>2 DEF MergeAllowed
    <3>3. QED
      BY <3>1, <3>2
  <2>3. CASE base[x] = NoBlob /\ tree[x] = NoBlob
    BY <1>2, <2>3
  <2>4. QED
    BY <2>1, <2>2, <2>3
<1>5. ContentAddressed(new)
  <2> SUFFICES ASSUME NEW h \in Harnesses, NEW n \in Names,
                      new[corpus_unit_for(h, n)] # NoBlob
               PROVE  /\ new[corpus_unit_for(h, n)] \in Blobs
                      /\ Sha1[new[corpus_unit_for(h, n)]] = n
    BY DEF ContentAddressed
  <2> DEFINE x == corpus_unit_for(h, n)
  <2>1. x \in Paths
    BY PathsContain
  <2>2. CASE new[x] = stage[x]
    BY <2>2 DEF ContentAddressed
  <2>3. CASE base[x] = NoBlob /\ tree[x] # NoBlob
    <3>1. new[x] = tree[x] /\ tree[x] \in Blobs
      BY <1>2, <1>3, <2>1, <2>3
    <3>2. PICK m \in Names : /\ x = corpus_unit_for(j.harness, m)
                             /\ Sha1[tree[x]] = m
      BY <1>3, <2>1, <2>3, PathsDisjoint
         DEF CorpusEntryOK, TelemetryEntryOK, IncidentEntryOK
    <3>3. m = n
      BY <3>2, CorpusPathInjective
    <3>4. QED
      BY <3>1, <3>2, <3>3
  <2>4. QED
    BY <1>2, <2>1, <2>2, <2>3
<1>6. EvidenceInPlace(new)
  <2> SUFFICES ASSUME NEW i \in Jobs, new[telemetry_for(i)] # NoBlob
               PROVE  /\ new[telemetry_for(i)] \in Blobs
                      /\ Evidence[new[telemetry_for(i)]] = i
    BY DEF EvidenceInPlace
  <2> DEFINE x == telemetry_for(i)
  <2>1. x \in Paths
    BY PathsContain
  <2>2. CASE new[x] = stage[x]
    BY <2>2 DEF EvidenceInPlace
  <2>3. CASE base[x] = NoBlob /\ tree[x] # NoBlob
    <3>1. new[x] = tree[x] /\ tree[x] \in Blobs
      BY <1>2, <1>3, <2>1, <2>3
    <3>2. x = telemetry_for(j) /\ Evidence[tree[x]] = j
      BY <1>3, <2>1, <2>3, PathsDisjoint
         DEF CorpusEntryOK, TelemetryEntryOK, IncidentEntryOK
    <3>3. QED
      BY <3>1, <3>2, PathsDisjoint
  <2>4. QED
    BY <1>2, <2>1, <2>2, <2>3
<1>7. QED
  BY <1>1, <1>4, <1>5, <1>6

(***************************************************************************)
(* The inductive invariant.                                                *)
(***************************************************************************)

\* What the publisher commits is a tree.
LEMMA PublishedTreeType ==
    ASSUME NEW base \in Trees, NEW j \in Jobs, NEW corpus \in LocalCorpora,
           NEW bundle \in Bundles, NEW tel \in LocalTelemetry
    PROVE  PublishedTree(base, j, corpus, bundle, tel) \in Trees
<1>1. ASSUME NEW x \in Paths,
             \E f \in corpus : x = corpus_unit_for(j.harness, f[1])
      PROVE  (CHOOSE f \in corpus : x = corpus_unit_for(j.harness, f[1]))[2]
                \in Blobs
  <2> DEFINE c == CHOOSE f \in corpus : x = corpus_unit_for(j.harness, f[1])
  <2>1. c \in corpus
    BY <1>1
  <2>2. corpus \in SUBSET (Names \X Blobs)
    BY IngestConstants
  <2> HIDE DEF c
  <2>3. c[2] \in Blobs
    BY <2>1, <2>2
  <2>4. QED
    BY <2>3 DEF c
<1>2. bundle \in Blobs /\ (tel # NoBlob => tel \in Blobs)
  BY IngestConstants
<1>3. QED
  BY <1>1, <1>2 DEF PublishedTree, Trees

\* The pipeline starts in its invariant.
LEMMA InitInv == Init => IngestInv
<1> SUFFICES ASSUME Init PROVE IngestInv
  OBVIOUS
<1>1. InitialPool \in Trees /\ Healthy(InitialPool)
  BY IngestConstants
<1>2. TypeOK
  BY <1>1 DEF Init, TypeOK, PubStates, AggStates, IdlePub, IdleAgg
<1>3. PoolHealthy /\ SurfaceSeparation
  BY <1>1 DEF Init, PoolHealthy, SurfaceSeparation
<1>4. /\ BaseIsPast /\ StageIsSound /\ CommitIsChecked
      /\ DoneIsInPool /\ CommitIsTyped /\ DoneMeansPublished
  BY DEF Init, BaseIsPast, StageIsSound, CommitIsChecked, DoneIsInPool,
         CommitIsTyped, DoneMeansPublished, InFlight, IdleAgg, IdlePub
<1>5. QED
  BY <1>2, <1>3, <1>4 DEF IngestInv

\* Steps that leave corpus-pool and the aggregators alone and write no
\* existing ref keep every part of the invariant that is about them.
LEMMA RefsOnlyGrow ==
    ASSUME IngestInv, UNCHANGED <<pool, rev, agg>>,
           refs' \in [Refs -> Commits \cup {NoRef}],
           \A r \in Refs : Exists(r) => refs'[r] = refs[r]
    PROVE  /\ PoolHealthy' /\ BaseIsPast' /\ StageIsSound'
           /\ CommitIsChecked' /\ DoneIsInPool' /\ SurfaceSeparation'
<1>1. PoolHealthy' /\ BaseIsPast' /\ CommitIsChecked' /\ DoneIsInPool'
  BY DEF IngestInv, PoolHealthy, BaseIsPast, CommitIsChecked, DoneIsInPool,
         InFlight
<1>2. StageIsSound'
  <2> SUFFICES ASSUME NEW g \in Aggregators,
                      InFlight(g) \/ agg[g].st = "done"
               PROVE  SoundStage(agg[g])'
    BY DEF StageIsSound, InFlight
  <2>1. SoundStage(agg[g])
    BY DEF IngestInv, StageIsSound
  <2>2. \A r \in agg[g].todo \cup agg[g].merged : r \in Refs /\ Exists(r)
    BY <2>1 DEF SoundStage, IngestInv, TypeOK, AggStates
  <2>3. QED
    BY <2>1, <2>2 DEF SoundStage, Exists, Matches
<1>3. SurfaceSeparation'
  BY DEF IngestInv, SurfaceSeparation, Exists
<1>4. QED
  BY <1>1, <1>2, <1>3

\* Publishers keep the invariant.
LEMMA PublisherKeepsInv ==
    ASSUME IngestInv, NEW p \in Publishers, PublisherStep(p)
    PROVE  IngestInv'
<1> USE DEF IngestInv
<1>1. ASSUME NEW lane \in Lanes, NEW j \in Jobs, NEW corpus \in LocalCorpora,
             NEW bundle \in Bundles, NEW tel \in LocalTelemetry,
             PublishPrepare(p, lane, j, corpus, bundle, tel)
      PROVE  IngestInv'
  <2> DEFINE c == [parent |-> rev,
                   tree |-> PublishedTree(pool, j, corpus, bundle, tel)]
  <2>1. c \in Commits
    BY PublishedTreeType DEF Commits, TypeOK
  <2> HIDE DEF c
  <2>2. pub' = [pub EXCEPT ![p] = [st |-> "committed", job |-> j, commit |-> c]]
    BY <1>1 DEF PublishPrepare, c
  <2>3. UNCHANGED <<pool, rev, refs, agg>>
    BY <1>1 DEF PublishPrepare, remote
  <2>4. TypeOK'
    BY <2>1, <2>2, <2>3 DEF TypeOK, PubStates
  <2>5. CommitIsTyped' /\ DoneMeansPublished'
    BY <2>1, <2>2, <2>3 DEF CommitIsTyped, DoneMeansPublished, TypeOK
  <2>6. QED
    BY <2>3, <2>4, <2>5, RefsOnlyGrow DEF TypeOK
<1>2. CASE PublishPush(p)
  <2> DEFINE r == branch_for(pub[p].job)
  <2>1. pub[p].job \in Jobs /\ pub[p].commit \in Commits
    BY <1>2 DEF PublishPush, CommitIsTyped
  <2>2. r \in Refs
    BY <2>1, ParseInverts
  <2>3. PICK st \in {"done", "failed"} : pub' = [pub EXCEPT ![p].st = st]
    BY <1>2 DEF PublishPush
  <2>4. /\ refs' = [refs EXCEPT ![r] = pub[p].commit]
        /\ ~Exists(r) \/ refs[r] = pub[p].commit
        /\ UNCHANGED <<pool, rev, agg>>
    BY <1>2 DEF PublishPush
  <2>5. TypeOK'
    <3>1. refs' \in [Refs -> Commits \cup {NoRef}]
      BY <2>1, <2>2, <2>4 DEF TypeOK
    <3>2. pub' \in [Publishers -> PubStates]
      BY <2>3 DEF TypeOK, PubStates
    <3>3. QED
      BY <2>4, <3>1, <3>2 DEF TypeOK
  <2>6. \A q \in Refs : Exists(q) => refs'[q] = refs[q]
    BY <2>2, <2>4 DEF TypeOK
  <2>7. CommitIsTyped'
    BY <2>1, <2>3 DEF CommitIsTyped, TypeOK, PubStates
  <2>8. DoneMeansPublished'
    <3> SUFFICES ASSUME NEW q \in Publishers, pub'[q].st = "done"
                 PROVE  refs'[branch_for(pub'[q].job)] = pub'[q].commit
      BY DEF DoneMeansPublished
    <3>1. CASE q = p
      BY <2>2, <2>3, <2>4, <3>1 DEF TypeOK, PubStates
    <3>2. CASE q # p
      <4>1. pub'[q] = pub[q]
        BY <2>3, <3>2 DEF TypeOK
      <4>2. /\ refs[branch_for(pub[q].job)] = pub[q].commit
            /\ pub[q].job \in Jobs /\ pub[q].commit \in Commits
        BY <4>1 DEF DoneMeansPublished, CommitIsTyped
      <4>3. branch_for(pub[q].job) \in Refs /\ Exists(branch_for(pub[q].job))
        BY <4>2, ParseInverts, IngestConstants DEF Exists, Commits
      <4>4. QED
        BY <2>6, <4>1, <4>2, <4>3
    <3>3. QED
      BY <3>1, <3>2
  <2>9. QED
    BY <2>4, <2>5, <2>6, <2>7, <2>8, RefsOnlyGrow DEF TypeOK
<1>3. CASE PublishFail(p)
  <2>1. /\ pub' = [pub EXCEPT ![p].st = "failed"]
        /\ UNCHANGED <<pool, rev, refs, agg>>
    BY <1>3 DEF PublishFail, remote
  <2>2. TypeOK' /\ CommitIsTyped' /\ DoneMeansPublished'
    BY <2>1 DEF TypeOK, PubStates, CommitIsTyped, DoneMeansPublished
  <2>3. QED
    BY <2>1, <2>2, RefsOnlyGrow DEF TypeOK
<1>4. QED
  BY <1>1, <1>2, <1>3 DEF PublisherStep

\* Foreign refs keep the invariant.
LEMMA ForeignKeepsInv ==
    ASSUME IngestInv, NEW r \in ForeignRefs, NEW tree \in ForeignTrees,
           ForeignPush(r, tree)
    PROVE  IngestInv'
<1> USE DEF IngestInv
<1>1. r \in Refs /\ tree \in Trees
  BY IngestConstants
<1>2. /\ ~Exists(r)
      /\ refs' = [refs EXCEPT ![r] = [parent |-> 0, tree |-> tree]]
      /\ UNCHANGED <<pool, rev, pub, agg>>
  BY DEF ForeignPush
<1>3. TypeOK'
  BY <1>1, <1>2 DEF TypeOK, Commits
<1>4. \A q \in Refs : Exists(q) => refs'[q] = refs[q]
  BY <1>2 DEF TypeOK
<1>5. CommitIsTyped'
  BY <1>2 DEF CommitIsTyped
<1>6. DoneMeansPublished'
  <2> SUFFICES ASSUME NEW q \in Publishers, pub[q].st = "done"
               PROVE  refs'[branch_for(pub[q].job)] = pub[q].commit
    BY <1>2 DEF DoneMeansPublished
  <2>1. /\ refs[branch_for(pub[q].job)] = pub[q].commit
        /\ pub[q].job \in Jobs /\ pub[q].commit \in Commits
    BY DEF DoneMeansPublished, CommitIsTyped
  <2>2. branch_for(pub[q].job) \in Refs /\ Exists(branch_for(pub[q].job))
    BY <2>1, ParseInverts, IngestConstants DEF Exists, Commits
  <2>3. QED
    BY <1>4, <2>1, <2>2
<1>7. QED
  BY <1>2, <1>3, <1>4, <1>5, <1>6, RefsOnlyGrow DEF TypeOK

\* A step that only moves aggregator g to record n keeps the invariant if n
\* satisfies the parts that are about one aggregator.
LEMMA AggregatorLocal ==
    ASSUME IngestInv, NEW g \in Aggregators, NEW n \in AggStates,
           agg' = [agg EXCEPT ![g] = n], UNCHANGED <<pool, rev, refs, pub>>,
           n.st # "done",
           n.st \in {"fetched", "merging", "committed"} =>
               /\ n.base <= rev
               /\ n.base = rev => n.baseTree = pool
               /\ SoundStage(n),
           n.st = "committed" => /\ CapacityOK(n.stage)
                                 /\ n.stage # n.baseTree
                                 /\ n.todo = {}
    PROVE  IngestInv'
<1> USE DEF IngestInv
<1>1. agg' \in [Aggregators -> AggStates]
  BY DEF TypeOK
<1>2. \A h \in Aggregators : agg'[h] = IF h = g THEN n ELSE agg[h]
  BY DEF TypeOK
<1>3. TypeOK' /\ PoolHealthy' /\ CommitIsTyped' /\ SurfaceSeparation'
      /\ DoneMeansPublished'
  BY <1>1 DEF TypeOK, PoolHealthy, CommitIsTyped, SurfaceSeparation,
              DoneMeansPublished, Exists
<1>4. BaseIsPast' /\ CommitIsChecked' /\ DoneIsInPool'
  BY <1>2 DEF BaseIsPast, CommitIsChecked, DoneIsInPool, InFlight
<1>5. StageIsSound'
  <2> SUFFICES ASSUME NEW h \in Aggregators,
                      InFlight(h)' \/ agg'[h].st = "done"
               PROVE  SoundStage(agg[h])'
    BY DEF StageIsSound
  <2>1. SoundStage(IF h = g THEN n ELSE agg[h])
    BY <1>2 DEF StageIsSound, InFlight
  <2>2. QED
    BY <1>2, <2>1 DEF SoundStage, Exists, Matches
<1>6. QED
  BY <1>3, <1>4, <1>5

\* The steps of an aggregator before its push keep the invariant.
LEMMA AggregatorKeepsInv ==
    ASSUME IngestInv, NEW g \in Aggregators,
           AggregatorStep(g), ~AggregatePush(g)
    PROVE  IngestInv'
<1> USE DEF IngestInv
<1> DEFINE a == agg[g]
<1>0. a \in AggStates
  BY DEF TypeOK
<1>1. ASSUME NEW j \in Jobs, AggregateFetch(g, j.run, j.attempt)
      PROVE  IngestInv'
  <2> DEFINE n == [st |-> "fetched", run |-> j.run, attempt |-> j.attempt,
                   base |-> rev, baseTree |-> pool, stage |-> pool,
                   todo |-> {}, merged |-> {}]
  <2>1. n \in AggStates
    BY DEF TypeOK, AggStates, Runs, Attempts
  <2>2. SoundStage(n)
    BY DEF SoundStage, PoolHealthy, Healthy
  <2>3. agg' = [agg EXCEPT ![g] = n] /\ UNCHANGED <<pool, rev, refs, pub>>
    BY <1>1 DEF AggregateFetch, remote
  <2>4. n.base <= rev
    BY DEF TypeOK
  <2>5. /\ n.st = "fetched" /\ n.base = rev /\ n.baseTree = pool
    OBVIOUS
  <2> HIDE DEF n
  <2>6. QED
    BY <2>1, <2>2, <2>3, <2>4, <2>5, AggregatorLocal
<1>2. CASE AggregateList(g)
  <2> DEFINE listed == {r \in Refs : Exists(r)}
             n == [a EXCEPT !.st = "merging",
                            !.todo = {r \in listed : Matches(a, r)}]
  <2>1. a.st = "fetched" /\ \A r \in listed : parse_ref(r) # NoJob
    BY <1>2 DEF AggregateList
  <2>2. agg' = [agg EXCEPT ![g] = n] /\ UNCHANGED <<pool, rev, refs, pub>>
    BY <1>2 DEF AggregateList, remote
  <2>3. n \in AggStates
    BY <1>0 DEF AggStates
  <2>4. /\ n.st = "merging" /\ n.todo = {r \in listed : Matches(a, r)}
        /\ n.merged = a.merged /\ n.stage = a.stage
        /\ n.baseTree = a.baseTree /\ n.base = a.base
        /\ n.run = a.run /\ n.attempt = a.attempt
    BY <1>0 DEF AggStates
  <2>5. SoundStage(a) /\ a.base <= rev /\ (a.base = rev => a.baseTree = pool)
    BY <2>1 DEF StageIsSound, BaseIsPast, InFlight
  <2> HIDE DEF n
  <2>6. SoundStage(n)
    BY <2>1, <2>4, <2>5 DEF SoundStage, Matches
  <2>7. QED
    BY <2>2, <2>3, <2>4, <2>5, <2>6, AggregatorLocal
<1>3. ASSUME NEW r \in Refs, AggregateMerge(g, r)
      PROVE  IngestInv'
  <2> DEFINE j == parse_ref(r)
             tree == refs[r].tree
             new == Merge(a.baseTree, a.stage, tree)
             n == [a EXCEPT !.stage = new, !.todo = a.todo \ {r},
                            !.merged = a.merged \cup {r}]
  <2>1. /\ a.st = "merging" /\ r \in a.todo
        /\ MergeAllowed(a.baseTree, a.stage, tree, j)
        /\ agg' = [agg EXCEPT ![g] = n] /\ UNCHANGED <<pool, rev, refs, pub>>
    BY <1>3 DEF AggregateMerge, remote
  <2>2. SoundStage(a) /\ a.base <= rev /\ (a.base = rev => a.baseTree = pool)
    BY <2>1 DEF StageIsSound, BaseIsPast, InFlight
  <2>3. Exists(r) /\ j \in Jobs /\ Matches(a, r)
    BY <2>1, <2>2, ParseInverts DEF SoundStage
  <2>4. tree \in Trees
    <3>1. refs[r] \in Commits \cup {NoRef}
      BY DEF TypeOK
    <3>2. refs[r] # NoRef
      BY <2>3 DEF Exists, NoRef
    <3>3. QED
      BY <3>1, <3>2 DEF Commits
  <2>5. a.baseTree \in Trees /\ a.stage \in Trees
    BY <1>0 DEF AggStates
  <2>6. /\ new \in Trees /\ ContentAddressed(new) /\ EvidenceInPlace(new)
        /\ \A x \in Paths :
              /\ a.baseTree[x] \in {NoBlob, new[x]}
              /\ a.stage[x] \in {NoBlob, new[x]}
              /\ tree[x] \in {NoBlob, new[x]}
              /\ new[x] = a.stage[x] \/ (tree[x] = new[x] /\ Owns(j, x))
    BY <2>1, <2>2, <2>3, <2>4, <2>5, MergeIsSound DEF SoundStage
  <2> HIDE DEF new
  <2>7. n \in AggStates
    BY <1>0, <2>6 DEF AggStates
  <2>8. /\ n.st = "merging" /\ n.todo = a.todo \ {r}
        /\ n.merged = a.merged \cup {r} /\ n.stage = new
        /\ n.baseTree = a.baseTree /\ n.base = a.base
        /\ n.run = a.run /\ n.attempt = a.attempt
    BY <1>0, <2>1 DEF AggStates
  <2> HIDE DEF n
  <2>9. SoundStage(n)
    <3>1. \A q \in n.todo \cup n.merged :
             Exists(q) /\ parse_ref(q) # NoJob /\ Matches(n, q)
      BY <2>1, <2>2, <2>8 DEF SoundStage, Matches
    <3>2. ASSUME NEW x \in Paths
          PROVE  /\ n.baseTree[x] \in {NoBlob, n.stage[x]}
                 /\ \A q \in n.merged : refs[q].tree[x] \in {NoBlob, n.stage[x]}
                 /\ \/ n.stage[x] = n.baseTree[x]
                    \/ \E q \in n.merged : /\ refs[q].tree[x] = n.stage[x]
                                            /\ Owns(parse_ref(q), x)
      BY <2>2, <2>6, <2>8 DEF SoundStage
    <3>3. QED
      BY <2>6, <2>8, <3>1, <3>2 DEF SoundStage
  <2>10. QED
    BY <2>1, <2>2, <2>7, <2>8, <2>9, AggregatorLocal
<1>4. CASE AggregateCommit(g)
  <2> DEFINE n == [a EXCEPT !.st = "committed"]
  <2>1. /\ a.st = "merging" /\ a.todo = {} /\ CapacityOK(a.stage)
        /\ a.stage # a.baseTree
        /\ agg' = [agg EXCEPT ![g] = n] /\ UNCHANGED <<pool, rev, refs, pub>>
    BY <1>4 DEF AggregateCommit, remote
  <2>2. SoundStage(a) /\ a.base <= rev /\ (a.base = rev => a.baseTree = pool)
    BY <2>1 DEF StageIsSound, BaseIsPast, InFlight
  <2>3. /\ n \in AggStates /\ n.st = "committed" /\ n.todo = a.todo
        /\ n.merged = a.merged /\ n.stage = a.stage
        /\ n.baseTree = a.baseTree /\ n.base = a.base
        /\ n.run = a.run /\ n.attempt = a.attempt
    BY <1>0 DEF AggStates
  <2> HIDE DEF n
  <2>4. SoundStage(n)
    BY <2>2, <2>3 DEF SoundStage, Matches
  <2>5. QED
    BY <2>1, <2>2, <2>3, <2>4, AggregatorLocal
<1>5. CASE AggregateFail(g)
  <2> DEFINE n == [a EXCEPT !.st = "failed"]
  <2>1. agg' = [agg EXCEPT ![g] = n] /\ UNCHANGED <<pool, rev, refs, pub>>
    BY <1>5 DEF AggregateFail, remote
  <2>2. n \in AggStates /\ n.st = "failed"
    BY <1>0 DEF AggStates
  <2> HIDE DEF n
  <2>3. QED
    BY <2>1, <2>2, AggregatorLocal
<1>6. QED
  BY <1>1, <1>2, <1>3, <1>4, <1>5 DEF AggregatorStep

\* A push replaces the very head its stage was built on: it keeps every file
\* of the pool and the invariant.
LEMMA PushKeepsInv ==
    ASSUME IngestInv, NEW g \in Aggregators, AggregatePush(g)
    PROVE  /\ IngestInv'
           /\ \A x \in Paths : pool[x] \in {NoBlob, pool'[x]}
           /\ pool' # pool
<1> USE DEF IngestInv
<1> DEFINE a == agg[g]
<1>0. a \in AggStates
  BY DEF TypeOK
<1>1. a.st = "committed" /\ rev = a.base /\ pool' = a.stage /\ rev' = rev + 1
      /\ UNCHANGED <<refs, pub>>
  BY DEF AggregatePush
<1>2. PICK st \in {"done", "failed"} : agg' = [agg EXCEPT ![g].st = st]
  BY DEF AggregatePush
<1>3. /\ a.baseTree = pool /\ SoundStage(a) /\ CapacityOK(a.stage)
      /\ a.stage # a.baseTree /\ a.todo = {}
  BY <1>1 DEF BaseIsPast, StageIsSound, CommitIsChecked, InFlight
<1>4. \A x \in Paths : pool[x] \in {NoBlob, pool'[x]}
  BY <1>1, <1>3 DEF SoundStage
<1>5. pool' # pool
  BY <1>1, <1>3
<1>6. \A h \in Aggregators :
         /\ agg'[h] \in AggStates
         /\ h # g => agg'[h] = agg[h]
         /\ agg'[g].st \in {"done", "failed"}
         /\ agg'[g].stage = a.stage /\ agg'[g].todo = {}
         /\ agg'[g].merged = a.merged /\ agg'[g].baseTree = a.baseTree
         /\ agg'[g].run = a.run /\ agg'[g].attempt = a.attempt
  BY <1>2, <1>3 DEF TypeOK, AggStates
<1>7. TypeOK'
  <2>1. a.stage \in Trees
    BY <1>0 DEF AggStates
  <2>2. agg' \in [Aggregators -> AggStates]
    BY <1>2, <1>6 DEF TypeOK
  <2>3. QED
    BY <1>1, <2>1, <2>2 DEF TypeOK
<1>8. PoolHealthy'
  BY <1>1, <1>3 DEF PoolHealthy, Healthy, SoundStage
<1>9. BaseIsPast' /\ CommitIsChecked'
  <2>1. \A h \in Aggregators : InFlight(h)' => h # g /\ InFlight(h)
    BY <1>6 DEF InFlight
  <2>2. \A h \in Aggregators : InFlight(h) => agg[h].base < rev'
    BY <1>1 DEF BaseIsPast, TypeOK, AggStates
  <2>3. BaseIsPast'
    <3> SUFFICES ASSUME NEW h \in Aggregators, InFlight(h)'
                 PROVE  agg'[h].base <= rev' /\ agg'[h].base # rev'
      BY DEF BaseIsPast
    <3>1. agg'[h] = agg[h] /\ agg[h].base < rev' /\ agg[h].base \in Nat
      BY <1>6, <2>1, <2>2 DEF TypeOK, AggStates
    <3>2. QED
      BY <1>1, <3>1 DEF TypeOK
  <2>4. CommitIsChecked'
    BY <1>6 DEF CommitIsChecked
  <2>5. QED
    BY <2>3, <2>4
<1>10. DoneIsInPool'
  BY <1>1, <1>4, <1>6 DEF DoneIsInPool
<1>11. StageIsSound'
  <2> SUFFICES ASSUME NEW h \in Aggregators,
                      InFlight(h)' \/ agg'[h].st = "done"
               PROVE  SoundStage(agg[h])'
    BY DEF StageIsSound
  <2>1. CASE h = g
    BY <1>1, <1>3, <1>6, <2>1 DEF SoundStage, Exists, Matches
  <2>2. CASE h # g
    <3>1. agg'[h] = agg[h] /\ SoundStage(agg[h])
      BY <1>6, <2>2 DEF StageIsSound, InFlight
    <3>2. QED
      BY <1>1, <3>1 DEF SoundStage, Exists, Matches
  <2>3. QED
    BY <2>1, <2>2
<1>12. SurfaceSeparation'
  <2> SUFFICES ASSUME NEW x \in Paths, pool'[x] \notin {NoBlob, InitialPool[x]}
               PROVE  \E r \in Refs : /\ Exists(r) /\ parse_ref(r) # NoJob
                                      /\ Owns(parse_ref(r), x)
                                      /\ refs[r].tree[x] = pool'[x]
    BY <1>1 DEF SurfaceSeparation, Exists
  <2>1. CASE pool'[x] = pool[x]
    BY <2>1 DEF SurfaceSeparation
  <2>2. CASE pool'[x] # pool[x]
    <3>1. PICK r \in a.merged : /\ refs[r].tree[x] = a.stage[x]
                                /\ Owns(parse_ref(r), x)
      BY <1>1, <1>3, <2>2 DEF SoundStage
    <3>2. r \in Refs /\ Exists(r) /\ parse_ref(r) # NoJob
      BY <1>0, <1>3, <3>1 DEF SoundStage, AggStates
    <3>3. QED
      BY <1>1, <3>1, <3>2
  <2>3. QED
    BY <2>1, <2>2
<1>13. CommitIsTyped' /\ DoneMeansPublished'
  BY <1>1 DEF CommitIsTyped, DoneMeansPublished
<1>14. QED
  BY <1>4, <1>5, <1>7, <1>8, <1>9, <1>10, <1>11, <1>12, <1>13

(***************************************************************************)
(* Theorems.                                                               *)
(***************************************************************************)

\* Every step of the pipeline keeps the inductive invariant.
LEMMA NextKeepsInv == IngestInv /\ [Next]_vars => IngestInv'
<1> SUFFICES ASSUME IngestInv, [Next]_vars PROVE IngestInv'
  OBVIOUS
<1>1. ASSUME NEW p \in Publishers, PublisherStep(p) PROVE IngestInv'
  BY <1>1, PublisherKeepsInv
<1>2. ASSUME NEW g \in Aggregators, AggregatorStep(g) PROVE IngestInv'
  BY <1>2, AggregatorKeepsInv, PushKeepsInv
<1>3. ASSUME NEW r \in ForeignRefs, NEW tree \in ForeignTrees,
             ForeignPush(r, tree)
      PROVE  IngestInv'
  BY <1>3, ForeignKeepsInv
<1>4. CASE UNCHANGED vars
  BY <1>4 DEF vars, IngestInv, TypeOK, PoolHealthy, BaseIsPast, StageIsSound,
              SoundStage, CommitIsChecked, DoneIsInPool, CommitIsTyped,
              SurfaceSeparation, DoneMeansPublished, InFlight, Exists, Matches
<1>5. QED
  BY <1>1, <1>2, <1>3, <1>4 DEF Next

\* The inductive invariant holds in every behaviour of both scripts
\* (publish_ingest.sh, aggregate_ingest.sh), whatever else is pushed.
THEOREM IngestInvariance == Spec => []IngestInv
<1>1. QED
  BY InitInv, NextKeepsInv, PTL DEF Spec

\* The variables keep their types.
THEOREM TypeCorrect == Spec => []TypeOK
<1>1. IngestInv => TypeOK
  BY DEF IngestInv
<1>2. QED
  BY <1>1, IngestInvariance, PTL

\* Every revision of corpus-pool is within capacity, content addressed and
\* has its telemetry in place, even if the branches hold anything at all and
\* aggregations overlap (aggregate_ingest.sh:98-161).
THEOREM PoolAlwaysHealthy == Spec => []PoolHealthy
<1>1. IngestInv => PoolHealthy
  BY DEF IngestInv
<1>2. QED
  BY <1>1, IngestInvariance, PTL

\* Surfaces, runs, attempts and shards never cross in the pool.
THEOREM SurfacesStaySeparate == Spec => []SurfaceSeparation
<1>1. IngestInv => SurfaceSeparation
  BY DEF IngestInv
<1>2. QED
  BY <1>1, IngestInvariance, PTL

\* A publication that reports success stays on its branch.
THEOREM PublishedStays == Spec => []DoneMeansPublished
<1>1. IngestInv => DoneMeansPublished
  BY DEF IngestInv
<1>2. QED
  BY <1>1, IngestInvariance, PTL

\* What a successful aggregation merged is in the pool and stays there.
THEOREM MergedStays == Spec => []DoneMeansMerged
<1>1. IngestInv => DoneMeansMerged
  <2> SUFFICES ASSUME IngestInv, NEW g \in Aggregators, agg[g].st = "done",
                      NEW r \in agg[g].todo \cup agg[g].merged,
                      NEW x \in Paths
               PROVE  refs[r].tree[x] \in {NoBlob, pool[x]}
    BY DEF DoneMeansMerged
  <2>1. /\ agg[g].todo = {}
        /\ agg[g].stage[x] \in {NoBlob, pool[x]}
    BY DEF IngestInv, DoneIsInPool
  <2>2. refs[r].tree[x] \in {NoBlob, agg[g].stage[x]}
    BY <2>1 DEF IngestInv, StageIsSound, SoundStage
  <2>3. QED
    BY <2>1, <2>2
<1>2. QED
  BY <1>1, IngestInvariance, PTL

\* Only the push of an aggregator writes corpus-pool.
LEMMA OnlyPushWritesPool ==
    ASSUME IngestInv, [Next]_vars
    PROVE  \/ UNCHANGED <<pool, rev>>
           \/ \E g \in Aggregators : AggregatePush(g)
BY DEF Next, vars, remote, PublisherStep, AggregatorStep, PublishPrepare,
       PublishPush, PublishFail, AggregateFetch, AggregateList,
       AggregateMerge, AggregateCommit, AggregateFail, ForeignPush

\* No step removes or replaces a file of the pool, and no revision is empty:
\* overlapping aggregations never lose an update.
THEOREM PoolOnlyGrows == Spec => PoolAppendOnly /\ NoEmptyRevision
<1>1. IngestInv /\ [Next]_vars =>
         /\ [\A x \in Paths : pool[x] # NoBlob => pool'[x] = pool[x]]_vars
         /\ [rev' # rev => pool' # pool]_vars
  <2> SUFFICES ASSUME IngestInv, [Next]_vars
               PROVE  /\ \A x \in Paths : pool[x] # NoBlob => pool'[x] = pool[x]
                      /\ rev' # rev => pool' # pool
    OBVIOUS
  <2>1. CASE UNCHANGED <<pool, rev>>
    BY <2>1
  <2>2. CASE \E g \in Aggregators : AggregatePush(g)
    BY <2>2, PushKeepsInv
  <2>3. QED
    BY <2>1, <2>2, OnlyPushWritesPool
<1>2. QED
  BY <1>1, IngestInvariance, PTL DEF Spec, PoolAppendOnly, NoEmptyRevision

\* The pipeline implements the atomic store: fetching, staging and pushing
\* with any interleaving looks like one consolidation per push.
THEOREM PipelineIsAtomic == Spec => ImplementsAtomicPool
<1> DEFINE branch == [r \in Refs |-> refs[r].tree]
<1>1. Init => AtomicPool!Init
  BY DEF Init, AtomicPool!Init, NoRef
<1>2. ASSUME IngestInv, NEW r \in Refs, NEW c \in Commits,
             ~Exists(r) \/ refs[r] = c,
             refs' = [refs EXCEPT ![r] = c], UNCHANGED pool
      PROVE  [AtomicPool!Next]_<<pool, branch>>
  <2>1. CASE refs[r] = c
    <3>1. refs' = refs
      BY <1>2, <2>1 DEF IngestInv, TypeOK
    <3>2. QED
      BY <1>2, <3>1
  <2>2. CASE ~Exists(r)
    <3>1. branch[r] = NoTree /\ branch'[r] \in Trees
      BY <1>2, <2>2 DEF Exists, IngestInv, TypeOK, Commits
    <3>2. branch' = [branch EXCEPT ![r] = branch'[r]]
      BY <1>2 DEF IngestInv, TypeOK
    <3>3. AtomicPool!Publish
      BY <1>2, <3>1, <3>2 DEF AtomicPool!Publish
    <3>4. QED
      BY <3>3 DEF AtomicPool!Next
  <2>3. QED
    BY <1>2, <2>1, <2>2
<1>3. ASSUME IngestInv, NEW g \in Aggregators, AggregatePush(g)
      PROVE  AtomicPool!Next
  <2> DEFINE W == agg[g].merged
  <2>1. /\ pool' = agg[g].stage /\ pool = agg[g].baseTree
        /\ UNCHANGED refs /\ SoundStage(agg[g])
        /\ W \in SUBSET Refs
    BY <1>3 DEF AggregatePush, IngestInv, BaseIsPast, StageIsSound, InFlight,
                TypeOK, AggStates
  <2>2. pool' # pool /\ Healthy(pool')
    BY <1>3, PushKeepsInv DEF IngestInv, PoolHealthy
  <2>3. \A r, s \in W : SameWave(r, s)
    BY <2>1 DEF SoundStage, Matches, SameWave
  <2>4. \A r \in W : branch[r] # NoTree
    BY <2>1 DEF SoundStage, Exists
  <2>5. \A x \in Paths :
           /\ pool[x] # NoBlob => pool'[x] = pool[x]
           /\ \A r \in W : branch[r][x] \in {NoBlob, pool'[x]}
           /\ pool'[x] = pool[x] \/ \E r \in W : branch[r][x] = pool'[x]
    BY <2>1 DEF SoundStage
  <2>6. W # {}
    <3> SUFFICES ASSUME W = {} PROVE FALSE
      OBVIOUS
    <3>1. \A x \in Paths : pool'[x] = pool[x]
      BY <2>5
    <3>2. pool \in Trees /\ pool' \in Trees
      BY <2>1, <1>3 DEF IngestInv, TypeOK, AggStates
    <3>3. QED
      BY <2>2, <3>1, <3>2 DEF Trees
  <2>7. UNCHANGED branch
    BY <2>1
  <2>8. AtomicPool!Consolidate(W)
    BY <2>2, <2>3, <2>4, <2>5, <2>6, <2>7 DEF AtomicPool!Consolidate
  <2>9. QED
    BY <2>1, <2>8 DEF AtomicPool!Next
<1>4. IngestInv /\ [Next]_vars => [AtomicPool!Next]_<<pool, branch>>
  <2> SUFFICES ASSUME IngestInv, [Next]_vars
               PROVE  [AtomicPool!Next]_<<pool, branch>>
    OBVIOUS
  <2>1. ASSUME NEW p \in Publishers, PublishPush(p)
        PROVE  [AtomicPool!Next]_<<pool, branch>>
    <3>1. pub[p].job \in Jobs /\ pub[p].commit \in Commits
      BY <2>1 DEF PublishPush, IngestInv, CommitIsTyped
    <3>2. branch_for(pub[p].job) \in Refs
      BY <3>1, ParseInverts
    <3>3. QED
      BY <1>2, <2>1, <3>1, <3>2 DEF PublishPush
  <2>2. ASSUME NEW r \in ForeignRefs, NEW tree \in ForeignTrees,
               ForeignPush(r, tree)
        PROVE  [AtomicPool!Next]_<<pool, branch>>
    <3>1. r \in Refs /\ [parent |-> 0, tree |-> tree] \in Commits
      BY IngestConstants DEF Commits
    <3>2. QED
      BY <1>2, <2>2, <3>1 DEF ForeignPush
  <2>3. CASE \E g \in Aggregators : AggregatePush(g)
    BY <1>3, <2>3
  <2>4. CASE UNCHANGED <<pool, refs>>
    BY <2>4
  <2>5. QED
    BY <2>1, <2>2, <2>3, <2>4
       DEF Next, vars, remote, PublisherStep, AggregatorStep, PublishPrepare,
           PublishFail, AggregateFetch, AggregateList, AggregateMerge,
           AggregateCommit, AggregateFail
<1>5. QED
  BY <1>1, <1>4, IngestInvariance, PTL
     DEF Spec, ImplementsAtomicPool, AtomicPool!Spec
=============================================================================
