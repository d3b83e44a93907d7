SPECIFICATION FairSpec
CONSTANTS
  Item = {i1}
  ItemState = {"comment_open", "effective"}
  Wanted <- MCWanted
  Since <- MCSince
  Process = {p1, p2}
  BatchSize = 1
  MaxEvents = 2
  MaxEdits = 1
  MaxLost = 1
INVARIANTS AtMostOnceWhenAlone LoggedWasSent RepeatsHaveCauses
PROPERTIES SilenceIsKept UnfilteredHearsAll
