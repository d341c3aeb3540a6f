SPECIFICATION Spec
CONSTANTS
    u1 = u1  u2 = u2  u3 = u3  enc = enc  doc1 = doc1  doc3 = doc3
    noBlob = noBlob  special = special  noJob = noJob  noTree = noTree
    NoBlob = noBlob  Special = special  NoJob = noJob  NoTree = noTree
    Harnesses <- MCHarnesses
    LegacyHarness = "online"
    Lanes <- MCLanes
    LaneHarness <- MCLaneHarness
    Names <- MCNames
    Blobs <- MCBlobs
    Sha1 <- MCSha1
    Size <- MCForeignSize
    Bucket <- MCBucket
    MaxUnitBytes = 2
    MaxTotalFiles = 2
    MaxTotalBytes = 4
    MaxBucketFiles = 2
    MaxBucketBytes = 2
    LocalCorpora <- MCCorpora
    Bundles <- MCBundles
    LocalUnitLimit = 4
    LocalFileLimit = 4
    MaxShards = 2
    InitialPool <- MCInitialPool
    Jobs <- MCSurfaceJobs
    Evidence <- MCEvidence
    LocalTelemetry <- MCTelemetry
    ForeignRefs <- MCForeignRefs
    ForeignTrees <- MCForeignTrees
    Publishers = {p1}
    Aggregators = {g1}
INVARIANTS
    PoolHealthy
    SurfaceSeparation
CHECK_DEADLOCK FALSE
