-------------------------------- MODULE Build --------------------------------
(***************************************************************************)
(* creating_bd.py beside filling_bd.py: the schema of ApiMonitor.db is     *)
(* made by seven CREATE TABLE, each of them committed on its own, and the  *)
(* filler runs over whatever tables there are.  Both scripts are started   *)
(* by hand, in any order, and either may die at any point.                 *)
(*                                                                         *)
(* For the tables, a statement that finds no table is a death of the       *)
(* filler, so that whatever holds of Fill holds of both scripts.           *)
(***************************************************************************)
EXTENDS Fill

VARIABLES
  created,  \* how many of the tables exist: they are created in one order
  making    \* the table creating_bd.py creates next; 0 when it does not run

buildVars == <<vars, created, making>>

\* Mutant: Functions is created after the tables that refer to it.
SchemaFunctionsLast ==
  <<"API_Categories", "DLLs", "Types", "Arguments", "Def_Values", "Fields",
    "Functions">>

Schema == <<"API_Categories", "DLLs", "Types", "Functions", "Arguments",
            "Def_Values", "Fields">>

BuildInit == Init /\ created = 0 /\ making = 0

-----------------------------------------------------------------------------
(* creating_bd.py                                                          *)

StartSchema ==
  /\ making = 0 /\ making' = 1
  /\ UNCHANGED <<vars, created>>

CreateTable ==
  /\ making > created
  /\ created' = making
  /\ making' = IF making < Len(Schema) THEN making + 1 ELSE 0
  /\ UNCHANGED vars

\* Mutant: CREATE TABLE IF NOT EXISTS.
PassOverTable ==
  /\ making \in 1 .. created
  /\ making' = IF making < Len(Schema) THEN making + 1 ELSE 0
  /\ UNCHANGED <<vars, created>>

\* sqlite3.OperationalError: table ... already exists.
TableExists ==
  /\ making \in 1 .. created
  /\ making' = 0
  /\ UNCHANGED <<vars, created>>

\* The process dies; the tables it has created stay.
KillSchema ==
  /\ making > 0 /\ making' = 0
  /\ UNCHANGED <<vars, created>>

-----------------------------------------------------------------------------
(* filling_bd.py over the tables there are                                 *)

\* The tables named by the statements of the next step: a statement is
\* compiled, and fails, even where it is executed for an empty list.
Needed ==
  CASE phase = "types" -> {"Types"}
    [] phase = "fields" /\ i <= Len(dict.types) -> {"Types"}
    [] phase = "fields" -> {"Def_Values", "Fields"}
    [] phase = "catalog" -> {"API_Categories", "DLLs"}
    [] phase = "functions" /\ i <= Len(dict.functions) ->
         {"API_Categories", "DLLs", "Types"}
    [] phase = "functions" -> {"Functions"}
    [] phase = "arguments" /\ i <= Len(dict.functions) -> {"Functions", "Types"}
    [] phase = "arguments" -> {"Arguments"}
    [] OTHER -> {}

Existing == {Schema[k] : k \in 1 .. created}

StartFiller == RunScript /\ UNCHANGED <<created, making>>

FillerStep == Needed \subseteq Existing /\ Step /\ UNCHANGED <<created, making>>

\* sqlite3.OperationalError: no such table.  The with statement rolls back.
NoSuchTable ==
  /\ ~(Needed \subseteq Existing)
  /\ Crash
  /\ UNCHANGED <<created, making>>

KillFiller == Crash /\ UNCHANGED <<created, making>>

BuildNext ==
  \/ StartSchema \/ CreateTable \/ TableExists \/ KillSchema
  \/ StartFiller \/ FillerStep \/ NoSuchTable \/ KillFiller

BuildSpec == BuildInit /\ [][BuildNext]_buildVars

\* A filler that was started goes on until it ends, dies or finds no table.
BuildFairSpec == BuildSpec /\ WF_buildVars(FillerStep \/ NoSuchTable)

-----------------------------------------------------------------------------
(* Properties                                                              *)

\* The shape of the variables of both scripts; a schema script that has got
\* past its first table is the one that creates the tables, and has created all
\* before the next.
BuildTypeOK ==
  /\ TypeOK
  /\ created \in 0 .. Len(Schema) /\ making \in 0 .. Len(Schema)
  /\ making > 1 => created = making - 1

\* A row that refers to another one is only ever committed into a complete
\* schema, whichever script runs first and wherever either dies.
NoHalfCatalogue ==
  (\/ apis # {} \/ dlls # {} \/ values # << >> \/ fields # << >>
   \/ functions # << >> \/ arguments # << >>) => created = Len(Schema)

\* When creating_bd.py dies between two tables the file is lost: starting it
\* again stops at the first table, and no execution of the filler ever brings
\* a function into it.
LostBuild == making = 0 /\ created \in 1 .. Len(Schema) - 1

LostBuildStaysEmpty == [](LostBuild => [](functions = << >>))
=============================================================================
