SPECIFICATION Spec
CONSTANTS
  Feed <- MCFeed
  Slot <- MCSlot
  AssertedDates = {}
  MaxItems = 3
  MaxDay = 3
  MaxChain = 3
  MaxChanges = 4
INVARIANTS
  LogReplaysState
  ResolvedIsSuperseded
  RootsNeverSpliced
PROPERTY
  ImplementsItemLife
