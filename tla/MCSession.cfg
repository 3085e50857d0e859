SPECIFICATION FairSpec
CONSTANTS
  FaultKinds = {"damage", "late", "disk"}
  MaxFaults = 3
  MaxRetries = 3
  NFiles = 3
  Policies = {{}, {1}, {1, 2}, {1, 2, 3}}
INVARIANTS TypeOK Unmixed ReportsTrue
PROPERTIES Terminates
