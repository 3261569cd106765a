SPECIFICATION FairSpec
CONSTANTS
  Writers = {w1}
  Readers = {r1}
  Loops = {l1, l2}
  SendBound = 3
  MaxLen = 1
INVARIANTS  RecentAfterEnd
PROPERTIES IsBroadcastLog ValuesAreRead
CHECK_DEADLOCK FALSE
