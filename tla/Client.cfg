SPECIFICATION FairClientSpec
CONSTANTS
  NONE = NONE
  FunctionNames <- MCFunctionNames
  TypeNames <- MCTypeNames
  Texts <- MCTexts
  Databases <- MCDatabases
  MaxFaults = 2
\* The program ends.
CHECK_DEADLOCK FALSE
INVARIANTS
  PartOfAnswer
  WholeAnswer
  NothingLeftOpen
  ClientTypeOK
  DatabaseDecides
  NothingLeaks
PROPERTY ReadsAsBefore
