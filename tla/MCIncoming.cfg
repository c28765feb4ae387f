SPECIFICATION FairSpec
CONSTANTS
  Shapes <- MCShapes
  Policies <- MCPolicies
  Capacities <- MCCapacities
  RoutingCapacity = 2
  Counts <- MCCounts
  MaxMessages = 2
  MaxObjects = 2
  MaxErrors = 1
CHECK_DEADLOCK FALSE
INVARIANTS
  TypeOK
  OneMessage
  NothingLost
  TerminalAccurate
  EnvelopeApart
PROPERTIES
  EndsAtBoundary
  NeedsNoPeer
