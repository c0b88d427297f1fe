SPECIFICATION FairSpec
CONSTANTS
  s1 = s1
  s2 = s2
  l1 = l1
  l2 = l2
  NoSecret = NoSecret
  Secrets = {s1, s2}
  Locations = {l1, l2}
  Specs <- ConvergenceSpecs
  Stores <- ConflictStores
  OperatorSets <- AllOperators
  CRDSets <- AllCRDs
  Disturbances = {"credential"}
  MaxFaults = 1
PROPERTIES Converges ConflictReported
