SPECIFICATION Spec
CONSTANTS
  Sources <- MCSources
  Windowed = {"federal_register"}
  Daily <- MCDaily
  WeekdayOf <- MCWeekdayOf
  Overlap <- MCOverlap
  Week = 2
  WindowDays = 1
  Depths = {5}
  FirstDay = 6
  MaxDay = 7
  MaxLost = 0
  MaxResets = 0
INVARIANT CatchupLeavesNoGap
