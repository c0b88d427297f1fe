SPECIFICATION Spec
CONSTANTS
  s1 = s1
  s2 = s2
  l1 = l1
  l2 = l2
  NoSecret = NoSecret
  Secrets = {s1, s2}
  Locations = {l1, l2}
  Specs <- PipelineSpecs
  Stores <- OneStore
  OperatorSets <- AllOperators
  CRDSets <- AllCRDs
  Disturbances = {"upgrade"}
  MaxFaults = 2
INVARIANTS TypeOK QuiescentNoLeftovers
PROPERTIES WithheldPipelineFrozen NoSharedBucketAfterSweep ClaimedStackNeverSwept EndpointWithdrawnOnlyWhenConfirmed
