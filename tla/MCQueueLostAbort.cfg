SPECIFICATION FairSpec
CONSTANTS
  Jobs = {j1}
  Workers = {w1}
  Calls = {c1}
  NoJob = NoJob
PROPERTIES DisconnectedJobFails
CHECK_DEADLOCK FALSE
