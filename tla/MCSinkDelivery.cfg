SPECIFICATION FairSpec
CONSTANTS
  OptionSets <- HandledOptions
  Envelopes <- MCEnvelopes
  Linked <- MCLinked
  MaxParts = 5
  MaxNotified = 5
  Faults = {}
CHECK_DEADLOCK FALSE
PROPERTIES
  Implements
  DecidedInTheEnd
