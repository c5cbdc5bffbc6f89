SPECIFICATION ResultSpec
CONSTANTS
  NONE = NONE
  NULL = NULL
  WILD = WILD
  TypeNames <- MCTypeNames
  Texts <- MCTexts
  Databases <- MCDatabases
  MaxDepth = 4
  MaxFaults = 1
\* The call ends.
CHECK_DEADLOCK FALSE
INVARIANTS
  ConnectionsReleased
