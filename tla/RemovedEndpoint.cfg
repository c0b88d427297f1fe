SPECIFICATION Spec
CONSTANTS
  s1 = s1
  s2 = s2
  l1 = l1
  l2 = l2
  NoSecret = NoSecret
  Secrets = {s1, s2}
  Locations = {l1, l2}
  Specs <- RemovalSpecs
  Stores <- FixedStores
  OperatorSets <- AllOperators
  CRDSets <- AllCRDs
  Disturbances = {}
  MaxFaults = 0
INVARIANTS PublishedEndpointHasStack
