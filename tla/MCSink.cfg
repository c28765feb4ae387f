SPECIFICATION Spec
CONSTANTS
  OptionSets <- AllOptions
  Envelopes <- MCEnvelopes
  Linked <- MCLinked
  MaxParts = 4
  MaxNotified = 4
  Faults = {"error", "term", "reuse", "early"}
CHECK_DEADLOCK FALSE
INVARIANTS
  TypeOK
  NeverSplit
  Framing
  InOrder
  BoundaryAtEnd
  ObserverExact
PROPERTIES
  NoOrphan
