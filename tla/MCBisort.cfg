SPECIFICATION Spec
CONSTANTS
  Item = {"9", "38", "100"}
  Extra <- MCExtra
  Rank <- MCRank
  MaxItems = 3
  Rounds = 2
INVARIANTS
  TypeOK
  AnswerIsSorted
  LockStep
  LeavesOnStop
PROPERTY Terminates
