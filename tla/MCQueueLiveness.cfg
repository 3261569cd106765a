SPECIFICATION MCSpec
CONSTANTS
  TheJob = j1
  TheCall = c1
  TheWorker = w1
  Jobs = {j1, j2}
  Workers = {w1, w2}
  Calls = {c1, c2}
  NoJob = NoJob
INVARIANTS NeverUnderProvisioned
PROPERTIES  DisconnectReleasesJob
CHECK_DEADLOCK FALSE
