CONSTANTS
  Sessions <- Two
  NReaders = 2
  Kinds = {"empty", "token2", "mute"}
  Profiles = {p1, p2}
  Ifaces = {"Auto", "Nfc", "Named"}
  Ops = {"load", "list", "info", "read", "write", "delete", "erase", "readers"}
  PageSize = 1
  Capacity = 2
  MaxFaults = 1
  DropResets = TRUE
SPECIFICATION MCSpec
INVARIANTS TypeOK OnOtpApplet OpensFirstKeyAlone DiscoversKeys SerialConfirmed ListIsComplete FailsForAReason WritesLast
PROPERTY EveryOperationReturns
