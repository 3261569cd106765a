CONSTANTS
  Pages <- MCPages
  Jobs <- MCJobs
  NoJob = "nojob"
  InputTags <- MCInputTags
  Keys <- MCKeys
  PageOf <- MCPageOf
  Hooks <- MCHooks
  KeyOf <- MCKeyOf
  AskedJob <- MCAskedJob
  ConnBound = 3
  Visits <- MCVisits
SPECIFICATION Spec
INVARIANTS OneJobPerKey CreatorKeepsJob SubsCounted
PROPERTIES SessionsLeave  
CHECK_DEADLOCK FALSE
