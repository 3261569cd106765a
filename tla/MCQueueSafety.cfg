SPECIFICATION Spec
CONSTANTS
  Jobs = {j1, j2}
  Workers = {w1, w2}
  Calls = {c1, c2}
  NoJob = NoJob
SYMMETRY Symmetry
INVARIANTS Custody OneConnectedRunner
CHECK_DEADLOCK FALSE
