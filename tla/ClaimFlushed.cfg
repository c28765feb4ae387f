SPECIFICATION Spec
CONSTANTS
  OptionSets <- HandledOptions
  Envelopes <- ClaimEnvelopes
  Linked <- ClaimLinked
  MaxParts = 4
  MaxNotified = 4
  Faults = {}
CHECK_DEADLOCK FALSE
INVARIANT FlushedIsDelivered
