SPECIFICATION ReplySpec
CONSTANTS
  OptionSets <- MCOptionSets
  Envelopes <- MCEnvelopes
  Linked <- MCLinked
  Tails <- MCTails
  MaxParts = 3
  MaxNotified = 2
  MaxReplies = 2
  MaxReleases = 1
  Faults = {"error", "term"}
CHECK_DEADLOCK FALSE
INVARIANTS
  ReplyTypeOK
  WholeReplies
  EnvelopeFirst
  OnePlace
  Observed
  RelayStops
