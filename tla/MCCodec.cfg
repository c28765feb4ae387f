SPECIFICATION Spec
CONSTANTS
  Strings <- MCStrings
  Numbers <- MCNumbers
  Addresses <- MCAddresses
  MaxParts = 2
  MaxReads = 2
  IntLimit = 2
CHECK_DEADLOCK FALSE
INVARIANTS
  RoundTrip
  MsgcmpOrders
