SPECIFICATION FairSpec
CONSTANTS
  FaultKinds = {"damage"}
  MaxFaults = 2
  MaxRetries = 3
  NFiles = 3
  Policies = {{}, {1}, {2}, {3}, {1, 2}, {1, 3}, {2, 3}, {1, 2, 3}}
INVARIANTS SenderExitTrue
