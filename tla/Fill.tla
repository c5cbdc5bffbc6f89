-------------------------------- MODULE Fill --------------------------------
(***************************************************************************)
(* filling_bd.py: the script that copies the dictionaries read from the    *)
(* API XML files into ApiMonitor.db.  One behaviour is a history of the    *)
(* database over several executions of the script, each of which may be    *)
(* killed between two commits and started again.                           *)
(*                                                                         *)
(* Every step is one transaction, or a stretch of code between two         *)
(* commits; what a killed execution had not committed is not in the        *)
(* tables, so the tables below are the durable state and everything else   *)
(* is memory of the Python process.                                        *)
(*                                                                         *)
(* A row of Types, API_Categories or DLLs is named by its UNIQUE name      *)
(* instead of its rowid, which the script never uses for anything but to   *)
(* refer to the row.  Rows of the other tables have no unique column:      *)
(* those tables are sequences and a row is named by its position.          *)
(***************************************************************************)
EXTENDS Dictionary, SequencesExt, FiniteSetsExt

CONSTANTS
  Dicts,   \* the pairs of dictionaries parse_all_file may return
  MaxRuns  \* bound: how often the script is started

-----------------------------------------------------------------------------
(* Type names                                                              *)

\* while name[-1] == '*': name = name[:-1]
Root(n) == [n EXCEPT !.stars = 0]

\* Mutants: a loop that misses the name it starts from, and one that stops a
\* star early.
StarredLate(n) == {[n EXCEPT !.stars = k] : k \in 1 .. n.stars - 1}
StarredShort(n) == {[n EXCEPT !.stars = k] : k \in 2 .. n.stars}

\* The names that loop visits before it reaches the root.
Starred(n) == {[n EXCEPT !.stars = k] : k \in 1 .. n.stars}

ASSUME DictsAssumption == Dicts \subseteq Dictionaries

ASSUME TextsAssumption == {"Pointer", "Unknown", "NOT INDICATED"} \subseteq Texts

ASSUME RunsAssumption == MaxRuns \in Nat

\* The two values of Module/@Name that are not the name of a DLL.
NoDll == {"none", "*"}

-----------------------------------------------------------------------------
VARIABLES
  dict,        \* what the XML files say
  types,       \* Types: name -> row
  apis, dlls,  \* API_Categories and DLLs: sets of names
  functions, arguments, values, fields,  \* the other tables
  phase,       \* which part of the script is running
  i, j,        \* entry of the outer loop, element of the inner one (0: none yet)
  missing,     \* between the commits of lines 63 and 69: an Unknown is due
  newTypes,    \* new_types_list: the names it holds
  rows,        \* fields_list, functions_list or arguments_list
  valuesList,  \* values_list
  runs         \* executions started so far

tables == <<types, apis, dlls, functions, arguments, values, fields>>
memory == <<phase, i, j, missing, newTypes, rows, valuesList>>
vars == <<dict, tables, memory, runs>>

TypeRows == [kind : Texts, base : Names \cup {NONE}]
Rows == [name : Texts, order : Nat, struct : Names, type : Names]
FunctionRows == [name : Texts, api : Texts \cup {NONE},
                 dll : Texts \cup {NONE}, ret : Names]
ArgumentRows == [name : Texts, order : Nat, func : Nat, type : Names]
ValueRows == [name : Texts, type : Names]

\* The rows of Types, by name.
TypeTable(table) ==
  DOMAIN table \subseteq Names /\ table \in [DOMAIN table -> TypeRows]

Phases == {"idle", "types", "fields", "catalog", "functions", "arguments",
           "done"}

Init ==
  /\ dict \in Dicts
  /\ types = << >> /\ apis = {} /\ dlls = {}
  /\ functions = << >> /\ arguments = << >> /\ values = << >> /\ fields = << >>
  /\ phase = "idle" /\ i = 1 /\ j = 0 /\ missing = FALSE
  /\ newTypes = {} /\ rows = << >> /\ valuesList = << >>
  /\ runs = 0

-----------------------------------------------------------------------------
(* INSERT OR IGNORE INTO Types, and the lookup of a type                   *)

\* Mutant: INSERT OR REPLACE.
MergeReplacing(table, batch) ==
  [n \in DOMAIN table \cup DOMAIN batch |->
     IF n \in DOMAIN batch THEN batch[n] ELSE table[n]]

\* A batch of rows whose name is already present is ignored row by row.
Merge(table, batch) ==
  [n \in DOMAIN table \cup DOMAIN batch |->
     IF n \in DOMAIN table THEN table[n] ELSE batch[n]]

\* The batch of lines 11-20: of several entries of one name the first is kept.
Declared ==
  LET names == {dict.types[k].name : k \in DOMAIN dict.types}
      entry(n) == dict.types[Min({k \in DOMAIN dict.types :
                                    dict.types[k].name = n})]
  IN  [n \in names |-> [kind |-> entry(n).kind, base |-> entry(n).base]]

PointerRows(names) ==
  [n \in names |-> [kind |-> "Pointer",
                    base |-> [n EXCEPT !.stars = n.stars - 1]]]

\* Mutant: the stripped name is not inserted.
NoUnknownRow(n) == << >>

UnknownRow(n) == [m \in {n} |-> [kind |-> "Unknown", base |-> NONE]]

\* The search for n fails: the stars are stripped one by one, the pointer
\* types met on the way are inserted and committed.
Strip(n) ==
  /\ ~missing /\ n \notin DOMAIN types
  /\ newTypes' = newTypes \cup Starred(n)
  /\ types' = Merge(types, PointerRows(newTypes'))

\* Mutant: the second failure is not acted upon.
StrandUnnoticed(n) ==
  /\ Strip(n)
  /\ Root(n) \notin DOMAIN types'
  /\ UNCHANGED missing

\* ... and the second search, for what is left of the name, fails too.
Strand(n) ==
  /\ Strip(n)
  /\ Root(n) \notin DOMAIN types'
  /\ missing' = TRUE

\* The search for n ends with the row of t.
Resolve(n, t) ==
  \/ /\ ~missing /\ n \in DOMAIN types /\ t = n
     /\ UNCHANGED <<types, newTypes, missing>>
  \/ /\ Strip(n) /\ Root(n) \in DOMAIN types' /\ t = Root(n)
     /\ UNCHANGED missing
  \/ /\ missing /\ t = Root(n)
     /\ types' = Merge(types, UnknownRow(Root(n)))
     /\ missing' = FALSE
     /\ UNCHANGED newTypes

\* Mutant: the inner loop leaves out its last element.
AdvanceEarly(len) ==
  IF j + 1 < len THEN i' = i /\ j' = j + 1 ELSE i' = i + 1 /\ j' = 0

\* Next element of the inner loop over len elements, or next entry.
Advance(len) ==
  IF j < len THEN i' = i /\ j' = j + 1 ELSE i' = i + 1 /\ j' = 0

\* One search and, when it ends, the tuple appended to the list; row[t] is
\* that tuple for the type t, as a sequence: empty when a column that must
\* not be NULL is None, since INSERT OR IGNORE will drop it.
ResolveRow(n, len, row) ==
  \/ Strand(n) /\ UNCHANGED <<rows, i, j>>
  \/ \E t \in {n, Root(n)} :
       /\ Resolve(n, t)
       /\ rows' = rows \o row[t]
       /\ Advance(len)

\* A loop starts over an empty list.
Enter(p) ==
  /\ phase' = p /\ i' = 1 /\ j' = 0
  /\ newTypes' = {} /\ rows' = << >> /\ valuesList' = << >>

-----------------------------------------------------------------------------
(* The script, part by part                                                *)

\* Mutant: the tables that were filled before are cleared.
RunScriptClears ==
  /\ phase \in {"idle", "done"} /\ runs < MaxRuns
  /\ runs' = runs + 1
  /\ Enter("types")
  /\ arguments' = << >>
  /\ UNCHANGED <<dict, types, apis, dlls, functions, values, fields, missing>>

\* parse_all_file and an open connection.
RunScript ==
  /\ phase \in {"idle", "done"} /\ runs < MaxRuns
  /\ runs' = runs + 1
  /\ Enter("types")
  /\ UNCHANGED <<dict, tables, missing>>

InsertTypes ==
  /\ phase = "types"
  /\ types' = Merge(types, Declared)
  /\ Enter("fields")
  /\ UNCHANGED <<dict, apis, dlls, functions, arguments, values, fields,
                 missing, runs>>

\* The head of the loop over the types: its id and its values.
VisitType ==
  /\ phase = "fields" /\ i <= Len(dict.types) /\ j = 0
  /\ LET e == dict.types[i]
     IN  /\ valuesList' = IF e.name \in DOMAIN types
                          THEN valuesList \o [k \in 1 .. Len(e.defs) |->
                                 [name |-> e.defs[k], type |-> e.name]]
                          ELSE valuesList
         /\ Advance(Len(e.fields))
  /\ UNCHANGED <<dict, tables, phase, missing, newTypes, rows, runs>>

\* if not field_name: the column must not be empty.
FieldName(name) == IF name = "" THEN "NOT INDICATED" ELSE name

ResolveField ==
  /\ phase = "fields" /\ j > 0
  /\ LET e == dict.types[i]
         f == e.fields[j]
     IN  ResolveRow(f.type, Len(e.fields), [t \in {f.type, Root(f.type)} |->
           IF e.name \in DOMAIN types
           THEN <<[name |-> FieldName(f.name), order |-> j - 1, struct |-> e.name,
                   type |-> t]>>
           ELSE << >>])
  /\ UNCHANGED <<dict, apis, dlls, functions, arguments, values, fields,
                 phase, valuesList, runs>>

\* Mutant: the list of values is cleared too early.
InsertFieldsCleared ==
  /\ phase = "fields" /\ i > Len(dict.types)
  /\ fields' = fields \o rows
  /\ Enter("catalog")
  /\ UNCHANGED <<dict, types, apis, dlls, functions, arguments, values, missing,
                 runs>>

\* Values and fields are committed together.
InsertFields ==
  /\ phase = "fields" /\ i > Len(dict.types)
  /\ values' = values \o valuesList
  /\ fields' = fields \o rows
  /\ Enter("catalog")
  /\ UNCHANGED <<dict, types, apis, dlls, functions, arguments, missing, runs>>

\* A function without a DLL is passed over before its category is looked at.
InsertCatalog ==
  /\ phase = "catalog"
  /\ LET listed == {k \in DOMAIN dict.functions :
                      dict.functions[k].dll \notin NoDll}
     IN  /\ dlls' = dlls \cup {dict.functions[k].dll : k \in listed}
         /\ apis' = apis \cup
              ({dict.functions[k].category : k \in listed} \ {"none"})
  /\ Enter("functions")
  /\ UNCHANGED <<dict, types, functions, arguments, values, fields, missing,
                 runs>>

\* SELECT of a category or DLL by name: None when there is no such row.
NameOrNone(name, table) == IF name \in table THEN name ELSE NONE

ResolveFunction ==
  /\ phase = "functions" /\ i <= Len(dict.functions)
  /\ LET e == dict.functions[i]
     IN  ResolveRow(e.ret, 0, [t \in {e.ret, Root(e.ret)} |->
           <<[name |-> e.name, api |-> NameOrNone(e.category, apis),
              dll |-> NameOrNone(e.dll, dlls), ret |-> t]>>])
  /\ UNCHANGED <<dict, apis, dlls, functions, arguments, values, fields,
                 phase, valuesList, runs>>

\* A plain INSERT: an execution adds every function again.
InsertFunctions ==
  /\ phase = "functions" /\ i > Len(dict.functions)
  /\ functions' = functions \o rows
  /\ Enter("arguments")
  /\ UNCHANGED <<dict, types, apis, dlls, arguments, values, fields, missing,
                 runs>>

FunctionsNamed(name) == {k \in 1 .. Len(functions) : functions[k].name = name}

\* Mutant: the last function of the name.
LastFunction(name) == Max(FunctionsNamed(name))

\* SELECT func_id ... WHERE func_name = ?; fetchone() returns the first row.
FirstFunction(name) == Min(FunctionsNamed(name))

VisitFunction ==
  /\ phase = "arguments" /\ i <= Len(dict.functions) /\ j = 0
  /\ Advance(Len(dict.functions[i].params))
  /\ UNCHANGED <<dict, tables, phase, missing, newTypes, rows, valuesList,
                 runs>>

ResolveArgument ==
  /\ phase = "arguments" /\ j > 0
  /\ LET e == dict.functions[i]
         a == e.params[j]
     IN  ResolveRow(a.type, Len(e.params), [t \in {a.type, Root(a.type)} |->
           IF FunctionsNamed(e.name) # {}
           THEN <<[name |-> a.name, order |-> j - 1,
                   func |-> FirstFunction(e.name), type |-> t]>>
           ELSE << >>])
  /\ UNCHANGED <<dict, apis, dlls, functions, arguments, values, fields,
                 phase, valuesList, runs>>

\* Mutant: every row is a transaction of its own.
InsertArgumentsSingly ==
  /\ phase = "arguments" /\ i > Len(dict.functions)
  /\ IF rows = << >> THEN Enter("done") /\ UNCHANGED arguments
     ELSE /\ arguments' = Append(arguments, Head(rows)) /\ rows' = Tail(rows)
          /\ UNCHANGED <<phase, i, j, newTypes, valuesList>>
  /\ UNCHANGED <<dict, types, apis, dlls, functions, values, fields, missing,
                 runs>>

\* The commit is the one of the with statement.
InsertArguments ==
  /\ phase = "arguments" /\ i > Len(dict.functions)
  /\ arguments' = arguments \o rows
  /\ Enter("done")
  /\ UNCHANGED <<dict, types, apis, dlls, functions, values, fields, missing,
                 runs>>

\* Mutant: a handler saves the arguments collected so far.
CrashSavingRows ==
  /\ phase \notin {"idle", "done"}
  /\ arguments' = IF phase = "arguments" THEN arguments \o rows ELSE arguments
  /\ Enter("idle")
  /\ missing' = FALSE
  /\ UNCHANGED <<dict, types, apis, dlls, functions, values, fields, runs>>

\* The process dies; the tables keep what was committed.
Crash ==
  /\ phase \notin {"idle", "done"}
  /\ Enter("idle")
  /\ missing' = FALSE
  /\ UNCHANGED <<dict, tables, runs>>

Step ==
  \/ InsertTypes \/ VisitType \/ ResolveField \/ InsertFields
  \/ InsertCatalog \/ ResolveFunction \/ InsertFunctions
  \/ VisitFunction \/ ResolveArgument \/ InsertArguments

Next == RunScript \/ Step \/ Crash

Spec == Init /\ [][Next]_vars

-----------------------------------------------------------------------------
(* The rows a dictionary stands for                                        *)

EntryFields(e) ==
  [k \in DOMAIN e.fields |->
     [name |-> FieldName(e.fields[k].name), order |-> k - 1, struct |-> e.name,
      type |-> e.fields[k].type]]

EntryValues(e) == [k \in DOMAIN e.defs |-> [name |-> e.defs[k], type |-> e.name]]

EntryArguments(e) ==
  [k \in DOMAIN e.params |->
     [name |-> e.params[k].name, order |-> k - 1, owner |-> e.name,
      type |-> e.params[k].type]]

DictFields == FlattenSeq([k \in DOMAIN dict.types |-> EntryFields(dict.types[k])])

DictValues == FlattenSeq([k \in DOMAIN dict.types |-> EntryValues(dict.types[k])])

DictArguments ==
  FlattenSeq([k \in DOMAIN dict.functions |-> EntryArguments(dict.functions[k])])

\* The element of the dictionary that row k of a table was made from.
Source(s, k) == s[((k - 1) % Len(s)) + 1]

Copies(n, s, c) == n = c * Len(s)

\* A table holds whole copies of its dictionary, in order; values and fields
\* the same number of copies; functions at most as many, arguments at most as
\* many as functions; and no table more than there were executions.  No mix of
\* executions that died, repeated or finished produces a part of a batch.
WholeBatches ==
  \E c, d, e \in 0 .. runs :
    /\ e <= d /\ d <= c
    /\ Copies(Len(values), DictValues, c)
    /\ Copies(Len(fields), DictFields, c)
    /\ Copies(Len(functions), dict.functions, d)
    /\ Copies(Len(arguments), DictArguments, e)
    /\ \A k \in DOMAIN values : values[k] = Source(DictValues, k)
    /\ \A k \in DOMAIN fields :
         /\ fields[k].name = Source(DictFields, k).name
         /\ fields[k].order = Source(DictFields, k).order
         /\ fields[k].struct = Source(DictFields, k).struct
    /\ \A k \in DOMAIN functions :
         functions[k].name = Source(dict.functions, k).name
    /\ \A k \in DOMAIN arguments :
         /\ arguments[k].name = Source(DictArguments, k).name
         /\ arguments[k].order = Source(DictArguments, k).order
         /\ functions[arguments[k].func].name = Source(DictArguments, k).owner

\* The committed places where the type recorded for the name n is not n.
Wrong(n) ==
  {<<"fields", k>> : k \in {m \in DOMAIN fields :
      Source(DictFields, m).type = n /\ fields[m].type # n}}
  \cup {<<"functions", k>> : k \in {m \in DOMAIN functions :
      Source(dict.functions, m).ret = n /\ functions[m].ret # n}}
  \cup {<<"arguments", k>> : k \in {m \in DOMAIN arguments :
      Source(DictArguments, m).type = n /\ arguments[m].type # n}}

NamesUsed ==
  {DictFields[k].type : k \in DOMAIN DictFields}
  \cup {dict.functions[k].ret : k \in DOMAIN dict.functions}
  \cup {DictArguments[k].type : k \in DOMAIN DictArguments}

\* Lines 58-72, 124-138 and 165-179 record the stripped type when a search
\* fails.  The damage is bounded: the search for a name fails at most once in
\* the life of the database, so at most one row is wrong for each name, in all
\* tables and over all executions, and it holds the name without its stars.
OneWrongRowPerName ==
  \A n \in NamesUsed :
    /\ \A x, y \in Wrong(n) : x = y
    /\ n.stars = 0 => Wrong(n) = {}
    /\ \A k \in DOMAIN fields : <<"fields", k>> \in Wrong(n) =>
         fields[k].type = Root(n)
    /\ \A k \in DOMAIN functions : <<"functions", k>> \in Wrong(n) =>
         functions[k].ret = Root(n)
    /\ \A k \in DOMAIN arguments : <<"arguments", k>> \in Wrong(n) =>
         arguments[k].type = Root(n)

-----------------------------------------------------------------------------
(* Properties                                                              *)

\* The shape of the tables and of the script's memory.
TypeOK ==
  /\ dict \in Dicts
  /\ TypeTable(types)
  /\ apis \subseteq Texts /\ dlls \subseteq Texts
  /\ functions \in Seq(FunctionRows)
  /\ arguments \in Seq(ArgumentRows)
  /\ values \in Seq(ValueRows)
  /\ fields \in Seq(Rows)
  /\ phase \in Phases
  /\ i \in Nat \ {0} /\ j \in Nat
  /\ missing \in BOOLEAN
  /\ newTypes \subseteq Names
  /\ phase = "fields" => rows \in Seq(Rows)
  /\ phase = "functions" => rows \in Seq(FunctionRows)
  /\ phase = "arguments" => rows \in Seq(ArgumentRows)
  /\ valuesList \in Seq(ValueRows)
  /\ runs \in 0 .. MaxRuns

\* The name being searched for.
Wanted ==
  CASE phase = "fields" -> dict.types[i].fields[j].type
    [] phase = "functions" -> dict.functions[i].ret
    [] phase = "arguments" -> dict.functions[i].params[j].type

\* The foreign keys of the schema, which SQLite does not enforce for this
\* connection: every id in a committed row is the id of a committed row, after
\* every commit of every execution, whatever the executions that died left.
ReferentialIntegrity ==
  /\ \A k \in DOMAIN fields :
       fields[k].struct \in DOMAIN types /\ fields[k].type \in DOMAIN types
  /\ \A k \in DOMAIN values : values[k].type \in DOMAIN types
  /\ \A k \in DOMAIN functions :
       /\ functions[k].ret \in DOMAIN types
       /\ functions[k].api \in apis \cup {NONE}
       /\ functions[k].dll \in dlls \cup {NONE}
  /\ \A k \in DOMAIN arguments :
       /\ arguments[k].func \in DOMAIN functions
       /\ arguments[k].type \in DOMAIN types

\* func_id is the first function of its name: however often the functions
\* are inserted again, and whatever module a namesake comes from, no later row
\* of that name ever owns an argument.
FirstNamesakeOwns ==
  \A k \in DOMAIN arguments : \A m \in 1 .. arguments[k].func - 1 :
    functions[m].name # functions[arguments[k].func].name

\* What is declared of a type is what the catalogue says of it: the rows that
\* the script makes up for the names it strips, in whichever execution, never
\* stand in the place of a declaration, not even of one like VOID*, an alias
\* that is stripped like a pointer on the way from VOID**.
DeclaredWins ==
  types # << >> \/ phase \notin {"idle", "types"} =>
    \A n \in DOMAIN Declared : n \in DOMAIN types /\ types[n] = Declared[n]

\* Once an execution has reached its end the catalogue of types is final:
\* executions that follow, complete or not, find every name they look for.
TypesSettle == [][arguments # << >> => types' = types]_vars

\* Pointer types the script made up whose base is in no row, nor about to be.
Orphans ==
  {n \in DOMAIN types :
     /\ \A k \in DOMAIN dict.types : dict.types[k].name # n
     /\ types[n].base # NONE
     /\ types[n].base \notin DOMAIN types
     /\ ~(missing /\ types[n].base = Root(Wanted))}

\* The chain of a made-up pointer type ends in a row of Types, unless the
\* script died between the commits of lines 63 and 69: then the pointers are
\* there, their base is not, and no later search misses them.
OrphansOnlyByCrash ==
  [][Orphans' \subseteq Orphans \/ (missing /\ phase' = "idle")]_vars

\* An execution ends, or dies: none of its loops runs forever.
ExecutionEnds == phase = "types" ~> phase \in {"idle", "done"}
=============================================================================
