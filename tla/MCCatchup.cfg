SPECIFICATION FairSpec
CONSTANTS
  Sources <- MCSources
  Windowed = {"federal_register"}
  Daily <- MCDaily
  WeekdayOf <- MCWeekdayOf
  Overlap <- MCOverlap
  Week = 2
  WindowDays = 1
  Depths = {1, 2}
  FirstDay = 3
  MaxDay = 5
  MaxLost = 1
  MaxResets = 1
INVARIANTS CursorNeverSkips RearmRestarts OverlapCoversMisses
PROPERTY CatchupFinishes
