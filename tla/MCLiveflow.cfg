SPECIFICATION FairSpec
CONSTANTS
  A = A
  B = B
  C = C
  l = l
  d = d
  p = p
  q = q
  r = r
  Tags = {d}
  Labels = {l, NoLabel}
  NoLabel = NoLabel
  AnySpec = AnySpec
  Group = Group
  Inputs <- MCInputs
  Outputs <- MCOutputs
  Flows <- MCFlows
  Procs = {p, q, r}
  Homes <- MCHomes
INVARIANTS WiredAsConnected NoCrossTalk AliasReachesChild
PROPERTIES FlowComesUp
CHECK_DEADLOCK FALSE
