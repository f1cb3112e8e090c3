CONSTANTS
  Sessions <- Two
  NReaders = 2
  Kinds = {"token2"}
  Profiles = {p1}
  Ifaces = {"Nfc"}
  Ops = {"load"}
  PageSize = 1
  Capacity = 1
  MaxFaults = 0
  DropResets = FALSE
SPECIFICATION Spec
INVARIANT OpensFirstKey
