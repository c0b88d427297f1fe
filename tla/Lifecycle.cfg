SPECIFICATION FairSpec
CONSTANTS
  s1 = s1
  s2 = s2
  l1 = l1
  l2 = l2
  NoSecret = NoSecret
  Secrets = {s1, s2}
  Locations = {l1, l2}
  Specs <- LifecycleSpecs
  Stores <- FixedStores
  OperatorSets <- AllOperators
  CRDSets <- AllCRDs
  Disturbances = {"delete", "drift", "stackFails"}
  MaxFaults = 2
INVARIANTS NothingLeftBehind ReadyIsHonest
PROPERTIES DeletionCompletes CustodyKept
