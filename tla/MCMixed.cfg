SPECIFICATION FairSpec
CONSTANTS
  FaultKinds = {"late"}
  MaxFaults = 1
  MaxRetries = 3
  NFiles = 3
  Policies = {{2, 3}}
INVARIANTS ReceiverExitTrue
