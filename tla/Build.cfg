CONSTANTS
  Texts <- MCTexts
  Bases = {"S", "I", "A", "X"}
  Dicts <- MCDicts
  MaxRuns = 3
  NONE = NONE

SPECIFICATION BuildFairSpec

INVARIANTS
  ReferentialIntegrity
  FirstNamesakeOwns
  WholeBatches
  OneWrongRowPerName
  DeclaredWins
  BuildTypeOK
  NoHalfCatalogue

PROPERTIES
  TypesSettle
  OrphansOnlyByCrash
  ExecutionEnds
  LostBuildStaysEmpty
