SPECIFICATION Spec
CONSTANTS
  Feed <- TwoRulemakings
  Slot <- MCSlot
  AssertedDates = {}
  MaxItems = 2
  MaxDay = 1
  MaxChain = 2
  MaxChanges = 2
INVARIANT
  RootsNeverSpliced
