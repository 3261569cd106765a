SPECIFICATION FairSpec
CONSTANTS
  Tags = {o1, o2}
  InputCount = 3
  EmitBound = 2
INVARIANTS   NewestTracked
PROPERTIES ReturnedIsReported
CHECK_DEADLOCK FALSE
