CONSTANTS
  Texts <- MCTexts
  Bases = {"S", "I", "A", "X"}
  Dicts <- MCDicts
  MaxRuns = 1
  NONE = NONE

SPECIFICATION Spec

INVARIANT ArgumentTypesAsInDictionary

\* No execution is left to start.
CHECK_DEADLOCK FALSE
