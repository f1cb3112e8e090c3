CONSTANTS
  MaxChunk = 2
  Byte <- MCByte
  RecvMod = 16
  Apdus <- MCApdus
  Resps <- MCResps
  MaxLost = 15
  MaxBusy = 4
  BlockingRead = FALSE
SPECIFICATION Spec
INVARIANTS TypeOK CommandIsWhole AnswerIsWhole PromptOnce
PROPERTIES Returns ImplementsExchange
