CONSTANTS
  Byte = 4
  Calls <- MCCalls

SPECIFICATION FairSpec

INVARIANTS
  TypeOK
  TroubleExplained
  NumbersRight
  Parentheses
  FlagsExplained

PROPERTY Ends

\* The printer returns, or comes to grief.
CHECK_DEADLOCK FALSE
