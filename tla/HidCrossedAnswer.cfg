CONSTANTS
  Sessions <- Two
  Ops = {"read", "erase"}
SPECIFICATION Spec
INVARIANT EraseIsConfirmed
