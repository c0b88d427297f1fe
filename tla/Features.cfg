SPECIFICATION FairSpec
CONSTANTS
  v1 = v1
  NoVersion = NoVersion
  Versions = {v1}
  Specs <- FeatureSpecs
  OperatorSets <- AllOrNone
  CRDSets <- CRDsComeAndGo
  Leftovers = {"ours"}
  MaxChanges = 2
INVARIANTS TypeOK PlatformVersionEarned LegacyTokenGoneFirst
PROPERTIES ForeignKept ReadinessReported FeaturesConverge
CHECK_DEADLOCK FALSE
