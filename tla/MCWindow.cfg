SPECIFICATION FairSpec
CONSTANTS
  FaultKinds = {"damage", "late", "disk"}
  MaxFaults = 2
  MaxRetries = 3
  FileLen = 9
  MinBlock = 1
  BlockLen = 1
  MaxBlock = 2
  Window = 8
  RecvBuffer = 7
  NonStreaming = FALSE
  CanFdx = TRUE
  CanOvio = TRUE
  LineCap = 5
  Partial = {0, 1}
INVARIANTS IInv AcknowledgedIsStored WithinWindow
PROPERTIES PromiseKept Terminates
