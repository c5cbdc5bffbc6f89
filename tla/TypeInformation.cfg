SPECIFICATION FairSpec
CONSTANTS
  NONE = NONE
  NULL = NULL
  WILD = WILD
  TypeNames <- MCTypeNames
  Texts <- MCTexts
  Databases <- MCDatabases
  MaxDepth = 4
  MaxFaults = 2
\* The call ends.
CHECK_DEADLOCK FALSE
INVARIANTS
  TypeOK
  ConnectionsOfFrames
  WildOnlyUnopened
  DefectsAreFaults
  DestructionExact
  DepthDecides
PROPERTY
  Terminates
