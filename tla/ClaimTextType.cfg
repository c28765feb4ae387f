SPECIFICATION Spec
CONSTANTS
  Strings <- ClaimStrings
  Numbers <- ClaimNumbers
  Addresses <- ClaimAddresses
  MaxParts = 2
  MaxReads = 1
  IntLimit = 2
CHECK_DEADLOCK FALSE
INVARIANT TextTypeIsText
