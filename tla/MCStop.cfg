SPECIFICATION FairSpec
CONSTANTS
  FaultKinds = {"damage", "late"}
  MaxFaults = 2
  MaxRetries = 3
  FileLen = 6
  MinBlock = 1
  BlockLen = 2
  MaxBlock = 4
  Window = 0
  RecvBuffer = 3
  NonStreaming = FALSE
  CanFdx = TRUE
  CanOvio = FALSE
  LineCap = 4
  Partial = {0, 1}
INVARIANTS TypeOK Intact Complete
PROPERTIES PromiseKept Terminates Survives
