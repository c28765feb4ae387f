SPECIFICATION ReplySpec
CONSTANTS
  OptionSets <- ClaimOptionSets
  Envelopes <- ClaimEnvelopes
  Linked <- ClaimLinked
  Tails <- ClaimTails
  MaxParts = 3
  MaxNotified = 2
  MaxReplies = 1
  MaxReleases = 0
  Faults = {}
CHECK_DEADLOCK FALSE
INVARIANT RoutingNotObserved
