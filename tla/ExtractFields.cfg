SPECIFICATION Spec
CONSTANTS
  NONE = NONE
  FunctionNames <- MCFunctionNames
  TypeNames <- MCTypeNames
  Texts <- MCTexts
  Databases <- MCDatabases
  MaxFaults = 0
\* The call ends.
CHECK_DEADLOCK FALSE
INVARIANTS
  FieldsAsInDatabase
