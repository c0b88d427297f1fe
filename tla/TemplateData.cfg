\* What a round reads and computes.
SPECIFICATION FairSpec
CONSTANTS
    Clusters <- MCClusters
    Names = {"monitoring", "app"}
    Monitoring = "monitoring"
    MaxChanges = 2
\* Without a timer the controller waits for events.
CHECK_DEADLOCK FALSE
INVARIANTS
    TypeOK
    ExportersOrderFree
    NewestCOOVersion
    ImageNewEnough
    CurvesKeepPreference
    OneLocationOneKey
    SecretScopeCurrent
PROPERTIES
    InferenceFollowed
    StatusSettles
