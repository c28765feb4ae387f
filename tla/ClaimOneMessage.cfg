SPECIFICATION Spec
CONSTANTS
  Shapes <- ClaimShapes
  Policies <- ClaimPolicies
  Capacities <- ClaimCapacities
  RoutingCapacity = 3
  Counts <- ClaimCounts
  MaxMessages = 2
  MaxObjects = 1
  MaxErrors = 0
CHECK_DEADLOCK FALSE
INVARIANT PartsOfOneMessage
