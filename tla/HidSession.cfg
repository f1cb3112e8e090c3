CONSTANTS
  Sessions <- Two
  Ops = {"load", "info", "read", "delete", "erase"}
SPECIFICATION MCSpec
INVARIANTS TypeOK AloneReportsItsOwn
PROPERTIES OpenReturns SessionReturns
