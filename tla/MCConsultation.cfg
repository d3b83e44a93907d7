SPECIFICATION Spec
CONSTANTS
  Feed <- MCFeed
  Slot <- MCSlot
  AssertedDates <- MCAsserted
  MaxItems = 2
  MaxDay = 2
  MaxChain = 3
  MaxChanges = 3
INVARIANTS
  TypeOK
  LogReplaysState
  SupersessionIsLinear
  LatestRowDecides
  DocumentHasOneRow
