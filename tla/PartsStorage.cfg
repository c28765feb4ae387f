SPECIFICATION Spec
CONSTANTS
  Capacity = 1
  Block = {b1, b2, b3}
  NoBlock = NoBlock
  Raw = Raw
  Invalid = Invalid
  Gone = Gone
  MaxParts = 5
CHECK_DEADLOCK FALSE
INVARIANTS
  TypeOK
  MemorySound
  OnePlace
PROPERTY Implements
