SPECIFICATION Spec
CONSTANTS
    Harnesses <- MCHarnesses
    TelemetryHarness = "r4_tn"
    Artifacts <- MCArtifacts
    ContainerExits <- MCContainerExits
CHECK_DEADLOCK FALSE
INVARIANTS
    TypeOK
    NoPlaintextLeft
    PublishedIsSound
    GreenMeansClean
    PublicLineIsTrue
