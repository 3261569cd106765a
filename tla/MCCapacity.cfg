SPECIFICATION MCSpec
CONSTANTS
  TheInstance = i1
  TheSpec = s1
  TheCall = c1
  Instances = {i1, i2}
  Specs = {s1, s2}
  Calls = {c1, c2}
INVARIANTS ProvisionFindsDef FailsForCause
PROPERTIES CallEndsUnlessOrphaned
CHECK_DEADLOCK FALSE
