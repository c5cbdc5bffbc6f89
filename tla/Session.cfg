CONSTANTS
  Texts <- MCTexts
  Bases = {"S", "I", "A", "X"}
  Dicts <- TwoDicts
  MaxRuns = 3
  NONE = NONE
  Asked = {"Get"}
  MaxFaults = 1

SPECIFICATION SessionSpec

INVARIANTS
  NeverStale
  AllOrNothing
  ValuesBeforeArguments
  RivalsExplained

\* The call ends, and no execution is left to start.
CHECK_DEADLOCK FALSE
