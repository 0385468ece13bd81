CONSTANTS
  s1 = s1
  s2 = s2
  m = m
  c = c
  d = d
  k = k
  w = w
  Node <- Nodes
  Program <- AllPrograms
SPECIFICATION FairSpec
INVARIANTS
  SanitizersHold
  TaintIsJustified
  OrderIndependent
  TaintedSinkReported
  OneSourceExact
PROPERTIES
  Terminates
CHECK_DEADLOCK FALSE
