SPECIFICATION Spec
CONSTANTS
  Editions <- MCEditions
  Appears <- MCAppears
  Follows <- MCFollows
  Stated <- MCStated
  Window = 1
  MaxDay = 3
CHECK_DEADLOCK FALSE
INVARIANTS
  TickNeverObjects
  SourceNeverObjects
  HistoryDoesNotShow
  DocumentKeepsItsItem
  StatusesAreKnown
PROPERTIES
  ClosedWindowsAreNoticed
