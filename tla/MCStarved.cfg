SPECIFICATION FairSpec
CONSTANTS
  Item = {i1, i2}
  ItemState = {"comment_open", "effective"}
  Wanted <- MCOpenOnly
  Since <- MCFromStart
  Process = {p1}
  BatchSize = 1
  MaxEvents = 2
  MaxEdits = 0
  MaxLost = 0
PROPERTY MatchingIsDelivered
