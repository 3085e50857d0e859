SPECIFICATION FairSpec
CONSTANTS
  FaultKinds = {"damage"}
  MaxFaults = 1
  MaxRetries = 3
  FileLen = 6
  MinBlock = 1
  BlockLen = 1
  MaxBlock = 1
  Window = 0
  RecvBuffer = 0
  NonStreaming = FALSE
  CanFdx = TRUE
  CanOvio = TRUE
  LineCap = 5
  Partial = {0}
PROPERTIES Resynchronizes
