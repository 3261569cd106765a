SPECIFICATION MCSpec
CONSTANTS
  Messages = {a, b}
  Terminate = Terminate
  Rejection = Rejection
  NoResult = NoResult
  NumPumps = 3
  MaxFed = 4
  NumTries = 5
  NumParallel = 3
  InputCount = 4
  HasFallback = TRUE
  ChunkSize = 2
  PieceSizes = {1, 3}
  MaxInputs = 3
INVARIANTS NoLostWakeup SuccessDecides ResultOfAll 
PROPERTIES IsLossyChannel Decides FollowedIsEmitted
CHECK_DEADLOCK FALSE
