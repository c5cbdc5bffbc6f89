CONSTANTS
  Texts <- MCTexts
  Bases = {"S", "I", "A", "W", "E", "H", "L", "X"}
  NONE = NONE
  Folders <- MCFolders

SPECIFICATION Spec

INVARIANTS
  TypeOK
  FunctionsAsDeclared
  TypesAsDeclared

\* The reader returns.
CHECK_DEADLOCK FALSE
