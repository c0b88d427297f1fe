SPECIFICATION Spec
CONSTANTS
  s1 = s1
  s2 = s2
  l1 = l1
  l2 = l2
  NoSecret = NoSecret
  Secrets = {s1, s2}
  Locations = {l1, l2}
  Specs <- MetricsSpecs
  Stores <- FixedStores
  OperatorSets <- AllOperators
  CRDSets <- QuerierCRDComesAndGoes
  Disturbances = {"ca"}
  MaxFaults = 0
INVARIANTS BothMetricsConditionsFalse
