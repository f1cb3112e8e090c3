CONSTANTS
  Requests <- MCRequests
  Contents <- MCContents
  MaxText = 2
  MaxSeed = 5
  CardChunk = 20
  MaxChunks = 3
  MaxBytes = 18
  MaxRefusals = 2
SPECIFICATION AppletSpec
INVARIANTS TypeOK ReplyIsWhole FailsBeyondLimits CommandIsUnderstood AnswerIsRead CutPageAddsNothing
PROPERTIES Returns ImplementsExchange
