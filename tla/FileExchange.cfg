SPECIFICATION FairSpec
CONSTANTS
  c1 = c1
  c2 = c2
  Client = {c1, c2}
  NoClient = NoClient
  Workers = 2
  Path = {f}
  Depth = 2
  MaxCalls <- MCCalls
  Sizes = {1}
  Ops <- MCOps
  Reads <- MCReads
INVARIANTS
  ViewIsSnapshot
  TakesEffect
  FailureHasCause
PROPERTIES
  EveryCallEnds
