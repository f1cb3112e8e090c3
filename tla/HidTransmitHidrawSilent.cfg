CONSTANTS
  MaxChunk = 2
  Byte <- MCByte
  RecvMod = 16
  Apdus <- MCApdus
  Resps <- MCResps
  MaxLost = 0
  MaxBusy = 4
  BlockingRead = TRUE
SPECIFICATION Spec
PROPERTY Returns
