------------------------------- MODULE SQLFunc -------------------------------
(***************************************************************************)
(* extract_from_db and typeDisclosure with their callbacks (SQLFunc.cpp),  *)
(* the queries by which both generations of the library read a function    *)
(* and the members of its arguments out of ApiMonitor.db.  Every call of   *)
(* SQLite is a step and may fail.                                          *)
(*                                                                         *)
(* No action says what becomes of the database between two queries: db is  *)
(* left to the module that knows who else writes it.                       *)
(***************************************************************************)
EXTENDS Integers, Sequences, SequencesExt

CONSTANTS
  FunctionNames,
  TypeNames,
  Texts,      \* kinds, categories, DLLs, names of arguments, fields, values
  MaxFaults,  \* bound: how many calls of SQLite fail
  NONE        \* NULL in a column, the empty string in C++

\* The tables, ids replaced by what they stand for: names of types, categories
\* and DLLs, positions of functions.
TypeRow == [kind : Texts, base : TypeNames \cup {NONE}]
FunctionRow == [name : FunctionNames, api : Texts \cup {NONE},
                dll : Texts \cup {NONE}, ret : TypeNames]
ArgumentRow == [name : Texts, order : Nat, func : Nat, type : TypeNames]
FieldRow == [struct : TypeNames, type : TypeNames, name : Texts, order : Nat]
ValueRow == [type : TypeNames, name : Texts]

IsDatabase(d) ==
  /\ DOMAIN d.types \subseteq TypeNames
  /\ d.types \in [DOMAIN d.types -> TypeRow]
  /\ d.functions \in Seq(FunctionRow)
  /\ d.arguments \in Seq(ArgumentRow)
  /\ d.fields \in Seq(FieldRow)
  /\ d.values \in Seq(ValueRow)
  \* the foreign keys, which the filler keeps
  /\ \A r \in ToSet(d.functions) : r.ret \in DOMAIN d.types
  /\ \A r \in ToSet(d.arguments) :
       r.type \in DOMAIN d.types /\ r.func \in DOMAIN d.functions
  /\ \A r \in ToSet(d.fields) : {r.type, r.struct} \subseteq DOMAIN d.types
  /\ \A r \in ToSet(d.values) : r.type \in DOMAIN d.types

ASSUME BoundAssumption == MaxFaults \in Nat

-----------------------------------------------------------------------------
VARIABLES
  db,        \* the database
  name,      \* functionName
  pc,        \* the call that is made next
  func,      \* function: what extract_from_db has found
  members,   \* the fields or the values typeDisclosure has found
  handles,   \* connections open
  unclosed,  \* connections whose opening failed, and which nobody closes
  faults     \* failed calls so far

\* Function function, before it is filled in.
NoFunction == [api |-> NONE, dll |-> NONE, ret |-> NONE, arguments |-> << >>]

QueryInit ==
  /\ name \in FunctionNames
  /\ pc = "open"
  /\ func = NoFunction /\ members = << >>
  /\ handles = 0 /\ unclosed = 0 /\ faults = 0

-----------------------------------------------------------------------------
(* The queries                                                             *)

IsStruct(kind) == kind \in {"Struct", "Union"}

\* ... WHERE column = value, or the join of a table on it.
Where(rows, column, value) ==
  FoldLeft(LAMBDA found, r : IF r[column] = value THEN Append(found, r) ELSE found,
           << >>, rows)

\* Functions ... WHERE func_name = name.
FunctionsNamed(n) == Where(db.functions, "name", n)

\* class Argument, as its constructor leaves it when order is NULL.
Argument(n, order, type) ==
  [name |-> n, order |-> order, typeName |-> type,
   kind |-> db.types[type].kind, baseTypeName |-> db.types[type].base]

NoArgument == [name |-> NONE, order |-> -1, typeName |-> NONE, kind |-> NONE,
               baseTypeName |-> NONE]

\* Mutant: no WHERE.
AllArgumentRows(n) ==
  [k \in DOMAIN db.arguments |->
     Argument(db.arguments[k].name, db.arguments[k].order, db.arguments[k].type)]

\* Functions LEFT JOIN Arguments: function by function, each with its rows in
\* the order of their ids; one row of NULLs for a function that has none.
ArgumentRows(n) ==
  FlattenSeq([k \in DOMAIN db.functions |->
    LET own == Where(db.arguments, "func", k)
    IN  IF db.functions[k].name # n THEN << >>
        ELSE IF own = << >> THEN <<NoArgument>>
        ELSE [m \in DOMAIN own |->
                Argument(own[m].name, own[m].order, own[m].type)]])

\* What SetCallback takes for a field: the query has the columns base_name, tn,
\* kind, fields_order, field_name, field_type_id of the structure and type_id,
\* type_name, kind, base_name of the field's type, 0 to 9, and the callback
\* reads its five values from columns 5, 4, 8, 9 and 10: the id (here the name)
\* of the type as name, atoi of a field's name, 0, as order, the kind as type
\* name, the base name as kind; and the pointer after the last column is NULL.
FieldArguments(type) ==
  LET own == Where(db.fields, "struct", type)
  IN  [m \in DOMAIN own |->
         [name |-> own[m].type, order |-> 0,
          typeName |-> db.types[own[m].type].kind,
          kind |-> db.types[own[m].type].base, baseTypeName |-> NONE]]

ValueNames(type) ==
  LET own == Where(db.values, "type", type)
  IN  [m \in DOMAIN own |-> own[m].name]

-----------------------------------------------------------------------------
(* The callbacks                                                           *)

\* Mutant of TakeArgument: the list is not sorted.
TakeUnsorted(list, a) ==
  IF a \in ToSet(list) \/ a.order = -1 THEN list ELSE Append(list, a)

\* ARG_callback and SetCallback: a row that is not there already, and whose
\* order is not NULL, is pushed back and the list sorted.  list::sort is
\* stable and the list was sorted before, so the row goes behind its equals.
TakeArgument(list, a) ==
  IF a \in ToSet(list) \/ a.order = -1 THEN list
  ELSE InsertAt(list, Max({k \in DOMAIN list : list[k].order <= a.order} \cup {0}) + 1, a)

\* Mutant of TakeValue: every row is taken.
TakeEveryValue(list, v) == Append(list, v)

\* DefValueCallback.
TakeValue(list, v) == IF v \in ToSet(list) THEN list ELSE Append(list, v)

\* sqlite3_exec: the callback gets every row, or the rows before a failure.
Exec(rows) ==
  {[rows |-> rows, failed |-> 0]} \cup
  {[rows |-> SubSeq(rows, 1, k), failed |-> 1] :
     k \in IF faults < MaxFaults THEN 0 .. Len(rows) ELSE {}}

-----------------------------------------------------------------------------
(* extract_from_db                                                         *)

Goto(next) == pc' = next

OpenDatabase ==
  /\ pc = "open"
  /\ handles' = handles + 1 /\ Goto("check")
  /\ UNCHANGED <<name, func, members, unclosed, faults>>

\* The function is returned as it is, with nothing but its name.
OpenDatabaseFails ==
  /\ pc = "open" /\ faults < MaxFaults
  /\ faults' = faults + 1 /\ unclosed' = unclosed + 1 /\ Goto("copy")
  /\ UNCHANGED <<name, func, members, handles>>

\* Mutant of CheckName: the early return forgets the connection.
CheckNameLeaks ==
  /\ pc = "check"
  /\ \/ FunctionsNamed(name) # << >> /\ Goto("function") /\ UNCHANGED faults
     \/ FunctionsNamed(name) = << >> /\ Goto("copy") /\ UNCHANGED faults
     \/ faults < MaxFaults /\ faults' = faults + 1 /\ Goto("copy")
  /\ UNCHANGED <<name, func, members, unclosed, handles>>

\* Check_function_callback makes the query fail when the count is 0: a name
\* that is not there is not told from an error.
CheckName ==
  /\ pc = "check"
  /\ \/ /\ FunctionsNamed(name) # << >> /\ Goto("function")
        /\ UNCHANGED <<handles, faults>>
     \/ /\ FunctionsNamed(name) = << >> /\ Goto("copy")
        /\ handles' = handles - 1 /\ UNCHANGED faults
     \/ /\ faults < MaxFaults /\ faults' = faults + 1
        /\ Goto("copy") /\ handles' = handles - 1
  /\ UNCHANGED <<name, func, members, unclosed>>

\* DAR_callback overwrites: the last row stays.
SelectFunction ==
  /\ pc = "function"
  /\ \E got \in Exec(FunctionsNamed(name)) :
       /\ func' = IF got.rows = << >> THEN func
                  ELSE LET r == Last(got.rows)
                       IN  [func EXCEPT !.api = r.api, !.dll = r.dll,
                                        !.ret = r.ret]
       /\ faults' = faults + got.failed
  /\ Goto("arguments")
  /\ UNCHANGED <<name, members, handles, unclosed>>

\* The last query, and the connection is closed.
SelectArguments ==
  /\ pc = "arguments"
  /\ \E got \in Exec(ArgumentRows(name)) :
       /\ func' = [func EXCEPT !.arguments =
                     FoldLeft(TakeArgument, << >>, got.rows)]
       /\ faults' = faults + got.failed
  /\ handles' = handles - 1 /\ Goto("copy")
  /\ UNCHANGED <<name, members, unclosed>>

ExtractFromDb ==
  \/ OpenDatabase \/ OpenDatabaseFails \/ CheckName \/ SelectFunction
  \/ SelectArguments

-----------------------------------------------------------------------------
(* typeDisclosure: a connection, and at most one query for the argument a  *)

OpenType ==
  /\ pc = "disclose"
  /\ handles' = handles + 1 /\ Goto("select")
  /\ UNCHANGED <<name, func, members, unclosed, faults>>

OpenTypeFails ==
  /\ pc = "disclose" /\ faults < MaxFaults
  /\ faults' = faults + 1 /\ unclosed' = unclosed + 1
  /\ members' = << >> /\ Goto("members")
  /\ UNCHANGED <<name, func, handles>>

SelectMembers(a) ==
  /\ pc = "select"
  /\ \/ /\ IsStruct(a.kind)
        /\ \E got \in Exec(FieldArguments(a.typeName)) :
             /\ members' = FoldLeft(TakeArgument, << >>, got.rows)
             /\ faults' = faults + got.failed
     \/ /\ a.kind = "Alias"
        /\ \E got \in Exec(ValueNames(a.typeName)) :
             /\ members' = FoldLeft(TakeValue, << >>, got.rows)
             /\ faults' = faults + got.failed
     \/ /\ ~IsStruct(a.kind) /\ a.kind # "Alias"
        /\ members' = << >> /\ UNCHANGED faults
  /\ handles' = handles - 1 /\ Goto("members")
  /\ UNCHANGED <<name, func, unclosed>>

TypeDisclosure(a) == OpenType \/ OpenTypeFails \/ SelectMembers(a)

-----------------------------------------------------------------------------
(* What the modules that use the queries say of them                       *)

Arguments == [name : Texts \cup {NONE}, order : Nat,
              typeName : TypeNames \cup {NONE}, kind : Texts \cup {NONE},
              baseTypeName : TypeNames \cup {NONE}]

\* The shape of the variables; no argument without a place is ever kept.
QueryTypeOK ==
  /\ IsDatabase(db) /\ name \in FunctionNames
  /\ pc \in {"open", "check", "function", "arguments", "copy", "base",
             "disclose", "select", "members", "returned"}
  /\ func.api \in Texts \cup {NONE} /\ func.dll \in Texts \cup {NONE}
  /\ func.ret \in TypeNames \cup {NONE}
  /\ func.arguments \in Seq(Arguments)
  /\ handles \in 0 .. 1 /\ unclosed \in Nat
  /\ faults \in 0 .. MaxFaults

\* The arguments that the rows of the table give to functions called n.
ArgumentsNamed(n) ==
  {Argument(r.name, r.order, r.type) :
     r \in {r \in ToSet(db.arguments) : db.functions[r.func].name = n}}

\* Whatever fails, what has been read of the arguments is right: no argument
\* is there twice although the table holds it as often as it was filled, and
\* they are in the order of the declaration although namesakes and repeated
\* fills mix their rows.
FoundInOrder ==
  /\ IsInjective(func.arguments)
  /\ \A k \in DOMAIN func.arguments :
       /\ func.arguments[k] \in ArgumentsNamed(name)
       /\ \A m \in 1 .. k : func.arguments[m].order <= func.arguments[k].order
=============================================================================
