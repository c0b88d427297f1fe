SPECIFICATION FairSpec
CONSTANTS
  Profiles = {"Intermediate", "Modern"}
  Invalid = "Invalid"
  NoAPIServer = NoAPIServer
  MaxCrashes = 2
INVARIANTS TypeOK NoSilentStaleness
PROPERTIES FollowsCluster
