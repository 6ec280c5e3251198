SPECIFICATION FairSpec
CONSTANTS
  MaxTyped = 2
  MaxPrinted = 3
  MaxPiece = 2
  MaxInbox = 2
  Faults = {"exec", "wait", "gone"}
INVARIANTS TypeOK InputInOrder OutputInOrder
PROPERTIES HandlerReturns NothingLeft
CHECK_DEADLOCK FALSE
