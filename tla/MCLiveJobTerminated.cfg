SPECIFICATION Spec
CONSTANTS
  Tags = {o1}
  InputCount = 3
  EmitBound = 3
INVARIANTS NothingAfterEnd
CHECK_DEADLOCK FALSE
