SPECIFICATION FairSpec
CONSTANTS
  MaxPolls = 2
  MaxFaults = 3
INVARIANT TypeOK
PROPERTIES SuccessProvesAdmission OutageReported HealthReported
