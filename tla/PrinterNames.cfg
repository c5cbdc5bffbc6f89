CONSTANTS
  Byte = 4
  Calls <- MCCalls

SPECIFICATION FairSpec

INVARIANT NamesOfTheirValues

\* The printer returns, or comes to grief.
CHECK_DEADLOCK FALSE
