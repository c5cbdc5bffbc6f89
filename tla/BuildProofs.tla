----------------------------- MODULE BuildProofs -----------------------------
(* Theorems about creating_bd.py beside filling_bd.py, with proofs: the       *)
(* tables have histories of Fill, so what is proved about the filler alone    *)
(* holds of both scripts.                                                     *)
EXTENDS Build, FillProofs

-----------------------------------------------------------------------------
(* Refinement                                                              *)

\* Whichever script moves, the tables and the memory of the filler take a step
\* of the filler, or none.
LEMMA BuildStepRefines == [BuildNext]_buildVars => [Next]_vars
BY DEF BuildNext, StartSchema, CreateTable, TableExists, KillSchema,
   StartFiller, FillerStep, NoSuchTable, KillFiller, Next, buildVars

\* creating_bd.py, and the tables it has not created yet, show the tables
\* nothing that the filler alone, killed often enough, would not show them.
LEMMA BuildImplementsFill == BuildSpec => Spec
<1>1. BuildInit => Init
  BY DEF BuildInit
<1> QED
  BY <1>1, BuildStepRefines, PTL DEF BuildSpec, Spec

\* No committed row refers to a row that is not committed, whichever script
\* runs when and wherever it dies.
THEOREM BuildForeignKeys == BuildSpec => []ReferentialIntegrity
BY BuildImplementsFill, ForeignKeysHold, PTL

\* Nor does a schema script that comes between the executions, or a filler that
\* finds a table missing, make a part of a batch, a second wrong row for a name,
\* an argument of a later namesake or a row in the place of a declaration.
THEOREM BuildTablesHold ==
  BuildSpec => [](/\ WholeBatches /\ OneWrongRowPerName
                  /\ FirstNamesakeOwns /\ DeclaredWins)
BY BuildImplementsFill, WholeBatchesHold, OneWrongRowHolds, OnlyTheFirstNamesakeOwns,
   DeclarationsWin, PTL

-----------------------------------------------------------------------------
(* The schema                                                              *)

SchemaOK ==
  /\ created \in 0 .. Len(Schema) /\ making \in 0 .. Len(Schema)
  /\ making > 1 => created = making - 1

\* Tables come to be one by one, in the order of the script.
LEMMA SchemaOKNext == SchemaOK /\ [BuildNext]_buildVars => SchemaOK'
<1> SUFFICES ASSUME SchemaOK, [BuildNext]_buildVars PROVE SchemaOK'
  OBVIOUS
<1>1. Len(Schema) = 7
  BY DEF Schema
<1>2. CASE CreateTable
  BY <1>1, <1>2 DEF CreateTable, SchemaOK
<1>3. CASE StartSchema \/ TableExists \/ KillSchema
  BY <1>1, <1>3 DEF StartSchema, TableExists, KillSchema, SchemaOK
<1>4. CASE StartFiller \/ FillerStep \/ NoSuchTable \/ KillFiller
           \/ UNCHANGED buildVars
  BY <1>1, <1>4 DEF StartFiller, FillerStep, NoSuchTable, KillFiller, SchemaOK,
     buildVars
<1> QED
  BY <1>2, <1>3, <1>4 DEF BuildNext

\* So it is in every history of both scripts.
LEMMA SchemaOKInvariance == BuildSpec => []SchemaOK
<1>1. BuildInit => SchemaOK
  BY DEF BuildInit, SchemaOK, Schema
<1> QED
  BY <1>1, SchemaOKNext, PTL DEF BuildSpec

\* The type invariant of both scripts, for every set of dictionaries.
THEOREM BuildTypeCorrectness == BuildSpec => []BuildTypeOK
<1>1. TypeOK /\ SchemaOK => BuildTypeOK
  BY DEF SchemaOK, BuildTypeOK
<1> QED
  BY <1>1, BuildImplementsFill, TypeCorrectness, SchemaOKInvariance, PTL

\* The table of fields is the last one.
LEMMA FieldsLast ==
  ASSUME SchemaOK, "Fields" \in Existing
  PROVE  created = Len(Schema)
BY DEF SchemaOK, Existing, Schema

\* What is behind NoHalfCatalogue: an execution that has passed the commit of
\* the fields has seen the last table.
CompleteInv ==
  /\ NoHalfCatalogue
  /\ phase \in {"catalog", "functions", "arguments"} => created = Len(Schema)

\* A step of the filler over an unfinished schema leaves those tables alone.
LEMMA EarlyPhases ==
  ASSUME TypeOK, SchemaOK, CompleteInv, created # Len(Schema), FillerStep
  PROVE  /\ UNCHANGED <<apis, dlls, values, fields, functions, arguments>>
         /\ phase' \in {"fields"} /\ UNCHANGED created
<1>1. phase \notin {"catalog", "functions", "arguments"}
  BY DEF CompleteInv
<1>2. ~InsertFields
  <2>1. SUFFICES ASSUME InsertFields PROVE FALSE
    OBVIOUS
  <2>2. phase = "fields" /\ ~(i <= Len(dict.types))
    BY <2>1, DictType, SeqElement DEF InsertFields
  <2>3. "Fields" \in Needed
    BY <2>2 DEF Needed
  <2> QED
    BY <2>3, FieldsLast DEF FillerStep
<1>3. InsertTypes \/ VisitType \/ ResolveField
  BY <1>1, <1>2 DEF FillerStep, Step, InsertCatalog, ResolveFunction,
     InsertFunctions, VisitFunction, ResolveArgument, InsertArguments
<1> QED
  BY <1>3 DEF FillerStep, InsertTypes, VisitType, ResolveField, tables, Enter

\* An execution that has passed the commit of the fields has met all tables.
LEMMA CompleteNext ==
  ASSUME TypeOK, SchemaOK, CompleteInv, [BuildNext]_buildVars
  PROVE  CompleteInv'
<1>1. Len(Schema) = 7
  BY DEF Schema
<1>2. CASE FillerStep /\ created # Len(Schema)
  BY <1>2, EarlyPhases DEF CompleteInv, NoHalfCatalogue
<1>3. CASE FillerStep /\ created = Len(Schema)
  BY <1>3, <1>1 DEF FillerStep, CompleteInv, NoHalfCatalogue, Schema
<1>4. CASE StartFiller \/ NoSuchTable \/ KillFiller
  BY <1>4 DEF StartFiller, NoSuchTable, KillFiller, RunScript, Crash, Enter,
     tables, CompleteInv, NoHalfCatalogue, Schema
<1>5. CASE CreateTable
  <2>1. created # Len(Schema)
    BY <1>1, <1>5 DEF CreateTable, SchemaOK
  <2> QED
    BY <1>5, <2>1 DEF CreateTable, CompleteInv, NoHalfCatalogue, vars, tables,
       memory
<1>6. CASE StartSchema \/ TableExists \/ KillSchema \/ UNCHANGED buildVars
  BY <1>6 DEF StartSchema, TableExists, KillSchema, buildVars, CompleteInv,
     NoHalfCatalogue, vars, tables, memory, Schema
<1> QED
  BY <1>2, <1>3, <1>4, <1>5, <1>6 DEF BuildNext

\* So it is in every history of both scripts.
LEMMA CompleteInvariance == BuildSpec => []CompleteInv
<1>1. BuildInit => CompleteInv
  BY DEF BuildInit, Init, CompleteInv, NoHalfCatalogue
<1> QED
  BY <1>1, CompleteNext, SchemaOKInvariance, BuildImplementsFill,
     TypeCorrectness, PTL DEF BuildSpec

\* A row that refers to another one is only committed into a complete schema.
THEOREM NoHalfCatalogueHolds == BuildSpec => []NoHalfCatalogue
<1>1. CompleteInv => NoHalfCatalogue
  BY DEF CompleteInv
<1> QED
  BY <1>1, CompleteInvariance, PTL

-----------------------------------------------------------------------------
(* A schema script that died                                               *)

\* The schema is unfinished, and the script stands before its first table if
\* it runs at all.
Stuck == created \in 1 .. Len(Schema) - 1 /\ making <= 1

\* A schema that lacks a table never gets it: the script dies of the first one
\* that exists.
LEMMA StuckNext ==
  ASSUME SchemaOK, Stuck, [BuildNext]_buildVars
  PROVE  Stuck'
<1>1. making \in 0 .. 1 /\ created > 0
  BY DEF SchemaOK, Stuck, Schema
<1>2. ~CreateTable
  BY <1>1 DEF CreateTable, Stuck, Schema
<1>3. CASE StartSchema \/ TableExists \/ KillSchema
  BY <1>1, <1>3 DEF StartSchema, TableExists, KillSchema, Stuck, Schema
<1>4. CASE StartFiller \/ FillerStep \/ NoSuchTable \/ KillFiller
           \/ UNCHANGED buildVars
  BY <1>4 DEF StartFiller, FillerStep, NoSuchTable, KillFiller, buildVars,
     Stuck, Schema
<1> QED
  BY <1>2, <1>3, <1>4 DEF BuildNext

\* A schema script that died between two tables has lost the file: no
\* execution of either script ever brings a function into it.
THEOREM LostBuildIsLost == BuildSpec => LostBuildStaysEmpty
<1>1. LostBuild => Stuck
  BY DEF LostBuild, Stuck, Schema
<1>2. Stuck /\ NoHalfCatalogue => functions = << >>
  BY DEF Stuck, NoHalfCatalogue, Schema
<1>3. SchemaOK /\ [BuildNext]_buildVars => (Stuck => Stuck')
  BY StuckNext
<1> QED
  BY <1>1, <1>2, <1>3, SchemaOKInvariance, NoHalfCatalogueHolds, PTL
     DEF BuildSpec, LostBuildStaysEmpty
=============================================================================
