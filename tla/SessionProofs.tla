---------------------------- MODULE SessionProofs ----------------------------
(***************************************************************************)
(* What the reader takes for granted of the tables, from what is proved of *)
(* the filler, and what holds of its answer while the filler writes: the   *)
(* reader's steps as they are proved of in ExtractProofs, for tables that  *)
(* grow between them.                                                      *)
(***************************************************************************)
EXTENDS Session, FillProofs

\* The filler does not notice that it is read.
THEOREM SessionFills == SessionSpec => Spec
<1>1. SessionInit => Init
  BY DEF SessionInit
<1>2. [SessionNext]_sessionVars => [Next]_vars
  BY DEF SessionNext, Reading, Writing, sessionVars
<1> QED
  BY <1>1, <1>2, PTL DEF SessionSpec, Spec

\* At every moment between two commits, of an execution that goes on as of one
\* that died, the tables are what the queries take for granted: their joins find
\* the type, the base and the function of every row.
AlwaysADatabase == Reader!IsDatabase(Committed)

\* The shape of the tables and their foreign keys are all that IsDatabase asks.
LEMMA TablesAreADatabase == TypeOK /\ ReferentialIntegrity => AlwaysADatabase
<1> SUFFICES ASSUME TypeOK, ReferentialIntegrity PROVE AlwaysADatabase
  OBVIOUS
<1>1. /\ DOMAIN types \subseteq Names
      /\ types \in [DOMAIN types -> Reader!TypeRow]
  BY DEF TypeOK, TypeTable, TypeRows, Reader!TypeRow
<1>2. /\ functions \in Seq(Reader!FunctionRow)
      /\ arguments \in Seq(Reader!ArgumentRow)
      /\ fields \in Seq(Reader!FieldRow)
      /\ values \in Seq(Reader!ValueRow)
  <2>1. /\ FunctionRows = Reader!FunctionRow /\ ArgumentRows = Reader!ArgumentRow
        /\ Rows = Reader!FieldRow /\ ValueRows = Reader!ValueRow
    BY DEF FunctionRows, ArgumentRows, Rows, ValueRows, Reader!FunctionRow,
           Reader!ArgumentRow, Reader!FieldRow, Reader!ValueRow
  <2> QED
    BY <2>1 DEF TypeOK
<1>3. /\ \A r \in Reader!ToSet(functions) : r.ret \in DOMAIN types
      /\ \A r \in Reader!ToSet(arguments) :
           r.type \in DOMAIN types /\ r.func \in DOMAIN functions
      /\ \A r \in Reader!ToSet(fields) : {r.type, r.struct} \subseteq DOMAIN types
      /\ \A r \in Reader!ToSet(values) : r.type \in DOMAIN types
  BY DEF ReferentialIntegrity, Reader!ToSet
<1> QED
  BY <1>1, <1>2, <1>3 DEF AlwaysADatabase, Reader!IsDatabase, Committed

\* Whatever the dictionaries, however often the script is started and dies: a
\* query of the reader meets tables in which every reference finds its row.
THEOREM AlwaysADatabaseHolds == SessionSpec => []AlwaysADatabase
BY SessionFills, TypeCorrectness, ForeignKeysHold, TablesAreADatabase, PTL

-----------------------------------------------------------------------------
(* The reader                                                              *)

\* What is proved of the call over one database.
Alone == INSTANCE ExtractProofs WITH
           db <- Committed, FunctionNames <- Texts, TypeNames <- Names,
           Databases <- {}, made <- 0, deleted <- 0, turn <- 0, stage <- 0,
           outcome <- 0

\* The two instances of the reader's module are one: its queries,
LEMMA SameWhere ==
  ASSUME NEW table, NEW column, NEW value
  PROVE  Reader!Where(table, column, value) = Alone!Where(table, column, value)
BY DEF Reader!Where, Alone!Where, Reader!FoldLeft, Alone!FoldLeft,
       Reader!MapThenFoldSet, Alone!MapThenFoldSet, Reader!Max, Alone!Max

LEMMA SameFlatten ==
  ASSUME NEW ss
  PROVE  Reader!FlattenSeq(ss) = Alone!FlattenSeq(ss)
BY DEF Reader!FlattenSeq, Alone!FlattenSeq

LEMMA SameTaken ==
  ASSUME NEW got
  PROVE  /\ Reader!FoldLeft(Reader!TakeArgument, << >>, got) =
              Alone!FoldLeft(Alone!TakeArgument, << >>, got)
         /\ Reader!FoldLeft(Reader!TakeValue, << >>, got) =
              Alone!FoldLeft(Alone!TakeValue, << >>, got)
<1>1. Reader!FoldLeft(Reader!TakeArgument, << >>, got) =
        Alone!FoldLeft(Alone!TakeArgument, << >>, got)
  BY DEF Reader!FoldLeft, Alone!FoldLeft, Reader!MapThenFoldSet,
         Alone!MapThenFoldSet, Reader!Max, Alone!Max, Reader!TakeArgument,
         Alone!TakeArgument, Reader!ToSet, Alone!ToSet, Reader!InsertAt,
         Alone!InsertAt
<1>2. Reader!FoldLeft(Reader!TakeValue, << >>, got) =
        Alone!FoldLeft(Alone!TakeValue, << >>, got)
  BY DEF Reader!FoldLeft, Alone!FoldLeft, Reader!MapThenFoldSet,
         Alone!MapThenFoldSet, Reader!Max, Alone!Max, Reader!TakeValue,
         Alone!TakeValue, Reader!ToSet, Alone!ToSet
<1> QED
  BY <1>1, <1>2

LEMMA SameQueries ==
  ASSUME NEW n
  PROVE  /\ Reader!FunctionsNamed(n) = Alone!FunctionsNamed(n)
         /\ Reader!ArgumentRows(n) = Alone!ArgumentRows(n)
         /\ Reader!FieldArguments(n) = Alone!FieldArguments(n)
         /\ Reader!ValueNames(n) = Alone!ValueNames(n)
         /\ Reader!ArgumentsNamed(n) = Alone!ArgumentsNamed(n)
         /\ Reader!Exec(n) = Alone!Exec(n)
<1>1. Reader!FunctionsNamed(n) = Alone!FunctionsNamed(n)
  BY SameWhere DEF Reader!FunctionsNamed, Alone!FunctionsNamed
<1>2. Reader!ArgumentRows(n) = Alone!ArgumentRows(n)
  BY SameWhere, SameFlatten DEF Reader!ArgumentRows, Alone!ArgumentRows, Reader!Argument,
     Alone!Argument, Reader!NoArgument, Alone!NoArgument
<1>3. Reader!FieldArguments(n) = Alone!FieldArguments(n)
  BY SameWhere DEF Reader!FieldArguments, Alone!FieldArguments
<1>4. Reader!ValueNames(n) = Alone!ValueNames(n)
  BY SameWhere DEF Reader!ValueNames, Alone!ValueNames
<1>5. Reader!ArgumentsNamed(n) = Alone!ArgumentsNamed(n)
  BY DEF Reader!ArgumentsNamed, Alone!ArgumentsNamed, Reader!Argument,
         Alone!Argument, Reader!ToSet, Alone!ToSet
<1>6. Reader!Exec(n) = Alone!Exec(n)
  BY DEF Reader!Exec, Alone!Exec
<1> QED
  BY <1>1, <1>2, <1>3, <1>4, <1>5, <1>6

\* ... its actions,
LEMMA SameStep == Reader!Step => Alone!Step
<1> USE DEF Reader!Goto, Alone!Goto
<1>1. Reader!OpenDatabase => Alone!OpenDatabase
  BY DEF Reader!OpenDatabase, Alone!OpenDatabase
<1>2. Reader!OpenDatabaseFails => Alone!OpenDatabaseFails
  BY DEF Reader!OpenDatabaseFails, Alone!OpenDatabaseFails
<1>3. Reader!CheckName => Alone!CheckName
  BY SameQueries DEF Reader!CheckName, Alone!CheckName
<1>4. Reader!SelectFunction => Alone!SelectFunction
  BY SameQueries DEF Reader!SelectFunction, Alone!SelectFunction, Reader!Last, Alone!Last
<1>5. Reader!SelectArguments => Alone!SelectArguments
  BY SameQueries, SameTaken DEF Reader!SelectArguments, Alone!SelectArguments
<1>6. ASSUME NEW a, Reader!TypeDisclosure(a) PROVE Alone!TypeDisclosure(a)
  <2>1. Reader!OpenType => Alone!OpenType
    BY DEF Reader!OpenType, Alone!OpenType
  <2>2. Reader!OpenTypeFails => Alone!OpenTypeFails
    BY DEF Reader!OpenTypeFails, Alone!OpenTypeFails
  <2>3. Reader!SelectMembers(a) => Alone!SelectMembers(a)
    BY SameQueries, SameTaken DEF Reader!SelectMembers, Alone!SelectMembers,
       Reader!IsStruct, Alone!IsStruct
  <2> QED
    BY <1>6, <2>1, <2>2, <2>3 DEF Reader!TypeDisclosure, Alone!TypeDisclosure
<1>7. Reader!CopyFunction => Alone!CopyFunction
  BY DEF Reader!CopyFunction, Alone!CopyFunction
<1>8. Reader!CopyArgument => Alone!CopyArgument
  BY DEF Reader!CopyArgument, Alone!CopyArgument, Reader!Turn, Alone!Turn,
         Reader!NoArg, Alone!NoArg, Reader!TypeInformation, Alone!TypeInformation
<1>9. Reader!CopyField => Alone!CopyField
  BY DEF Reader!CopyField, Alone!CopyField, Reader!IsStruct, Alone!IsStruct,
         Reader!TypeInformation, Alone!TypeInformation
<1>10. Reader!PushArgument => Alone!PushArgument
  BY DEF Reader!PushArgument, Alone!PushArgument, Reader!IsStruct, Alone!IsStruct
<1>11. Reader!Return => Alone!Return
  BY DEF Reader!Return, Alone!Return, Reader!Turn, Alone!Turn
<1>12. Reader!Disclose => Alone!Disclose
  BY <1>6 DEF Reader!Disclose, Alone!Disclose, Reader!Turn, Alone!Turn
<1> QED
  BY <1>1, <1>2, <1>3, <1>4, <1>5, <1>7, <1>8, <1>9, <1>10, <1>11, <1>12
  DEF Reader!Step, Alone!Step, Reader!ExtractFromDb, Alone!ExtractFromDb

\* ... what it takes for granted, and what is said of it.
LEMMA SameDatabase == AlwaysADatabase <=> Alone!IsDatabase(Committed)
BY DEF AlwaysADatabase, Reader!IsDatabase, Alone!IsDatabase, Reader!ToSet, Alone!ToSet,
       Reader!TypeRow, Alone!TypeRow, Reader!FunctionRow, Alone!FunctionRow,
       Reader!ArgumentRow, Alone!ArgumentRow, Reader!FieldRow, Alone!FieldRow,
       Reader!ValueRow, Alone!ValueRow

LEMMA SameFound == NeverStale <=> Alone!FoundInOrder
BY SameQueries DEF NeverStale, Reader!FoundInOrder, Alone!FoundInOrder,
   Reader!IsInjective, Alone!IsInjective

\* No step of the script removes a row or changes one that a query may have
\* given to the reader.
LEMMA TypesStay ==
  ASSUME [Next]_vars
  PROVE  \A n \in DOMAIN types : n \in DOMAIN types' /\ types'[n] = types[n]
<1>1. types' = types \/ \E batch : types' = Merge(types, batch)
  BY DEF Next, Step, InsertTypes, VisitType, ResolveField, InsertFields, InsertCatalog,
         ResolveFunction, InsertFunctions, VisitFunction, ResolveArgument,
         InsertArguments, RunScript, Crash, ResolveRow, Strand, Resolve, Strip, vars,
         tables
<1> SUFFICES ASSUME NEW n \in DOMAIN types
             PROVE  n \in DOMAIN types' /\ types'[n] = types[n]
  OBVIOUS
<1>2. CASE types' = types
  BY <1>2
<1>3. ASSUME NEW batch, types' = Merge(types, batch)
      PROVE  n \in DOMAIN types' /\ types'[n] = types[n]
  BY <1>3 DEF Merge
<1> QED
  BY <1>1, <1>2, <1>3

LEMMA PrefixStays ==
  ASSUME TypeInv, [Next]_vars
  PROVE  /\ \A k \in DOMAIN functions : k \in DOMAIN functions' /\ functions'[k] = functions[k]
         /\ \A k \in DOMAIN arguments : k \in DOMAIN arguments' /\ arguments'[k] = arguments[k]
<1>0. /\ functions \in Seq(FunctionRows) /\ arguments \in Seq(ArgumentRows)
  BY DEF TypeInv, TypeOK
<1>1. ASSUME NEW S, NEW s \in Seq(S), NEW u \in Seq(S)
      PROVE  \A k \in DOMAIN s : k \in DOMAIN (s \o u) /\ (s \o u)[k] = s[k]
  OBVIOUS
<1>2. functions' = functions \/ (phase = "functions" /\ functions' = functions \o rows)
  BY DEF Next, Step, InsertTypes, VisitType, ResolveField, InsertFields, InsertCatalog,
         ResolveFunction, InsertFunctions, VisitFunction, ResolveArgument,
         InsertArguments, RunScript, Crash, vars, tables
<1>3. arguments' = arguments \/ (phase = "arguments" /\ arguments' = arguments \o rows)
  BY DEF Next, Step, InsertTypes, VisitType, ResolveField, InsertFields, InsertCatalog,
         ResolveFunction, InsertFunctions, VisitFunction, ResolveArgument,
         InsertArguments, RunScript, Crash, vars, tables
<1>4. /\ phase = "functions" => rows \in Seq(FunctionRows)
      /\ phase = "arguments" => rows \in Seq(ArgumentRows)
  BY DEF TypeInv, TypeOK
<1>5. \A k \in DOMAIN functions : k \in DOMAIN functions' /\ functions'[k] = functions[k]
  BY <1>0, <1>1, <1>2, <1>4
<1>6. \A k \in DOMAIN arguments : k \in DOMAIN arguments' /\ arguments'[k] = arguments[k]
  BY <1>0, <1>1, <1>3, <1>4
<1> QED
  BY <1>5, <1>6

\* So an argument of a function, once it is there, stays one.
LEMMA ArgumentsStay ==
  ASSUME TypeInv, AlwaysADatabase, [Next]_vars, UNCHANGED name
  PROVE  Alone!ArgumentsNamed(name) \subseteq Alone!ArgumentsNamed(name)'
<1> DEFINE A(f, g, h, n) ==
      {[name |-> r.name, order |-> r.order, typeName |-> r.type,
        kind |-> h[r.type].kind, baseTypeName |-> h[r.type].base] :
         r \in {r \in {g[k] : k \in DOMAIN g} : f[r.func].name = n}}
<1>1. /\ Alone!ArgumentsNamed(name) = A(functions, arguments, types, name)
      /\ Alone!ArgumentsNamed(name)' = A(functions', arguments', types', name')
  BY DEF Alone!ArgumentsNamed, Alone!Argument, Alone!ToSet, Committed
<1>2. ASSUME NEW r \in {arguments[k] : k \in DOMAIN arguments}
      PROVE  /\ r \in {arguments'[k] : k \in DOMAIN arguments'}
             /\ functions'[r.func] = functions[r.func]
             /\ types'[r.type] = types[r.type]
  <2>1. r.type \in DOMAIN types /\ r.func \in DOMAIN functions
    BY DEF AlwaysADatabase, Reader!IsDatabase, Reader!ToSet, Committed
  <2>2. PICK k \in DOMAIN arguments : r = arguments[k]
    OBVIOUS
  <2>3. /\ k \in DOMAIN arguments' /\ arguments'[k] = arguments[k]
    BY PrefixStays
  <2>4. functions'[r.func] = functions[r.func]
    BY <2>1, PrefixStays
  <2>5. types'[r.type] = types[r.type]
    <3>1. \A n \in DOMAIN types : types'[n] = types[n]
      BY TypesStay
    <3> QED
      BY <2>1, <3>1
  <2> QED
    BY <2>2, <2>3, <2>4, <2>5
<1>3. A(functions, arguments, types, name) \subseteq
        A(functions', arguments', types', name')
  BY <1>2
<1> QED
  BY <1>1, <1>3

ReaderInv == Alone!CallInv

\* What the reader holds is kept by its own steps, over tables that stay as they
\* are, and by those of the script, which it does not see.
LEMMA ReaderNext ==
  ASSUME TypeInv, AlwaysADatabase, ReaderInv, [SessionNext]_sessionVars
  PROVE  ReaderInv'
<1>0. \A d \in {} : Alone!IsDatabase(d)
  OBVIOUS
<1>1. CASE Reading
  <2>1. Alone!Next
    BY <1>1, SameStep DEF Reading, Alone!Next, vars, tables, Committed
  <2> QED
    BY <1>0, <2>1, SameDatabase, Alone!CallNext, ReaderAssumption
    DEF ReaderInv, Reader!Trees, Alone!Trees
<1>2. CASE UNCHANGED call /\ [Next]_vars
  <2>1. UNCHANGED <<name, pc, func, arg, members, result, handles, unclosed, faults>>
    BY <1>2 DEF call
  <2>2. (Alone!ConnectionInv /\ Alone!Shapes /\ Alone!Copied)'
    BY <2>1 DEF ReaderInv, Alone!CallInv, Alone!ConnectionInv, Alone!Shapes,
                Alone!Copied, Alone!Based, Alone!Turn
  <2>3. Alone!FoundInOrder'
    <3>1. Alone!ArgumentsNamed(name) \subseteq Alone!ArgumentsNamed(name)'
      BY <1>2, <2>1, ArgumentsStay
    <3> QED
      BY <2>1, <3>1 DEF ReaderInv, Alone!CallInv, Alone!FoundInOrder, Alone!IsInjective
  <2> QED
    BY <2>2, <2>3 DEF ReaderInv, Alone!CallInv
<1> QED
  BY <1>1, <1>2 DEF SessionNext, Writing, sessionVars

LEMMA ReaderInvHolds == SessionSpec => []ReaderInv
<1>1. SessionInit => ReaderInv
  <2> SUFFICES ASSUME SessionInit PROVE ReaderInv
    OBVIOUS
  <2>1. Alone!CallInit
    BY DEF SessionInit, Reader!CallInit, Reader!QueryInit, Reader!NoArg,
           Reader!NoFunction, Alone!CallInit, Alone!QueryInit, Alone!NoArg,
           Alone!NoFunction
  <2>2. \A d \in {} : Alone!IsDatabase(d)
    OBVIOUS
  <2> QED
    BY <2>1, <2>2, Alone!CallInitInv, ReaderAssumption
    DEF ReaderInv, Reader!Trees, Alone!Trees
<1>2. TypeInv /\ AlwaysADatabase /\ ReaderInv /\ [SessionNext]_sessionVars => ReaderInv'
  BY ReaderNext
<1> QED
  BY <1>1, <1>2, SessionFills, TypeInvariance, AlwaysADatabaseHolds, PTL
  DEF SessionSpec

\* What a call has found is in the tables for good, in the order of the declaration
\* and once, whatever any number of executions commit after it was read, and
\* wherever they die.
THEOREM NeverStaleHolds == SessionSpec => []NeverStale
<1>1. ReaderInv => NeverStale
  BY SameFound DEF ReaderInv, Alone!CallInv
<1> QED
  BY <1>1, ReaderInvHolds, PTL

-----------------------------------------------------------------------------
(* What is committed together                                              *)

\* The row r of Arguments is made from parameter m of entry k, which the search
\* may have deprived of the stars of its type.
Gives(k, m, r) ==
  LET p == dict.functions[k].params[m]
  IN  /\ functions[r.func].name = dict.functions[k].name
      /\ r.name = p.name /\ r.order = m - 1 /\ r.type \in {p.type, Root(p.type)}

\* The loop that stands at element b of entry a has passed parameter m of k.
Past(k, m, a, b) == k < a \/ (k = a /\ m < b)

\* Every row of the list is made from a parameter that was passed ...
Explained(s, a, b) ==
  \A x \in DOMAIN s :
    \E k \in DOMAIN dict.functions : \E m \in DOMAIN dict.functions[k].params :
      Past(k, m, a, b) /\ Gives(k, m, s[x])

\* ... and every one that was passed has its row.
Complete(s, a, b) ==
  \A k \in DOMAIN dict.functions : \A m \in DOMAIN dict.functions[k].params :
    Past(k, m, a, b) => \E x \in DOMAIN s : Gives(k, m, s[x])

Tells(k, r) == \E m \in DOMAIN dict.functions[k].params : Gives(k, m, r)

AllTold == \A x \in DOMAIN arguments : \E k \in DOMAIN dict.functions : Tells(k, arguments[x])

AllGiven == Complete(arguments, Len(dict.functions) + 1, 0)

\* Two rows for one place are made from two entries.
Apart(s) ==
  \A x, y \in DOMAIN s :
    /\ x # y /\ s[x].order = s[y].order
    /\ functions[s[x].func].name = functions[s[y].func].name
    => \E k, m \in DOMAIN dict.functions : k # m /\ Tells(k, s[x]) /\ Tells(m, s[y])

\* The functions the loop has passed are among those to be inserted, and those
\* inserted among the rows of the table.
NamesInv ==
  /\ phase = "functions" =>
       \A k \in DOMAIN dict.functions :
         k < i => \E x \in DOMAIN rows : rows[x].name = dict.functions[k].name
  /\ phase = "arguments" =>
       \A k \in DOMAIN dict.functions : FunctionsNamed(dict.functions[k].name) # {}

\* The lists of parameters are collected entry by entry and committed whole.
ListsInv ==
  /\ AllTold
  /\ arguments # << >> => AllGiven
  /\ phase = "arguments" => Explained(rows, i, j) /\ Complete(rows, i, j) /\ Apart(rows)

\* The first execution makes one row of every parameter.
FirstRunInv ==
  /\ runs = 0 => phase = "idle"
  /\ runs <= 1 => Apart(arguments) /\ (phase # "done" => arguments = << >>)

\* The rows of a concatenation are those of its parts.
LEMMA Parts ==
  ASSUME NEW S, NEW s \in Seq(S), NEW u \in Seq(S)
  PROVE  /\ DOMAIN s = 1 .. Len(s) /\ DOMAIN u = 1 .. Len(u)
         /\ Len(s) \in Nat /\ Len(u) \in Nat
         /\ DOMAIN (s \o u) = 1 .. Len(s) + Len(u)
         /\ \A x \in DOMAIN s : x \in DOMAIN (s \o u) /\ (s \o u)[x] = s[x]
         /\ \A x \in DOMAIN u : /\ Len(s) + x \in DOMAIN (s \o u)
                                /\ (s \o u)[Len(s) + x] = u[x]
         /\ \A x \in DOMAIN (s \o u) :
              x \in DOMAIN s \/ \E y \in DOMAIN u : x = Len(s) + y
<1>1. /\ DOMAIN s = 1 .. Len(s) /\ DOMAIN u = 1 .. Len(u)
      /\ Len(s) \in Nat /\ Len(u) \in Nat
      /\ DOMAIN (s \o u) = 1 .. Len(s) + Len(u)
  OBVIOUS
<1>2. ASSUME NEW x \in DOMAIN (s \o u), x \notin DOMAIN s
      PROVE  \E y \in DOMAIN u : x = Len(s) + y
  <2>1. x - Len(s) \in DOMAIN u /\ x = Len(s) + (x - Len(s))
    BY <1>1, <1>2
  <2> QED
    BY <2>1
<1>3. \A x \in DOMAIN s : x \in DOMAIN (s \o u) /\ (s \o u)[x] = s[x]
  BY <1>1
<1>4. \A x \in DOMAIN u : Len(s) + x \in DOMAIN (s \o u) /\ (s \o u)[Len(s) + x] = u[x]
  BY <1>1
<1> QED
  BY <1>1, <1>2, <1>3, <1>4

\* A list that gets one more row.
LEMMA OneMoreRow ==
  ASSUME NEW S, NEW s \in Seq(S), NEW r \in S
  PROVE  /\ DOMAIN (s \o <<r>>) = DOMAIN s \cup {Len(s) + 1}
         /\ (s \o <<r>>)[Len(s) + 1] = r /\ Len(s) + 1 \notin DOMAIN s
         /\ \A x \in DOMAIN s : (s \o <<r>>)[x] = s[x]
OBVIOUS

\* Entry k and its parameter m are somewhere, as the loops count.
LEMMA Somewhere ==
  ASSUME TypeInv, NEW k \in DOMAIN dict.functions
  PROVE  /\ k \in Nat /\ k > 0 /\ k <= Len(dict.functions) /\ Len(dict.functions) \in Nat
         /\ dict.functions[k].params \in Seq(Params)
         /\ Len(dict.functions[k].params) \in Nat
         /\ \A m \in DOMAIN dict.functions[k].params :
              m \in Nat /\ m > 0 /\ m <= Len(dict.functions[k].params)
<1>1. k \in 1 .. Len(dict.functions) /\ dict.functions[k] \in FunctionEntry
      /\ Len(dict.functions) \in Nat
  BY DictType, LenProperties, SeqElement DEF TypeInv
<1>2. dict.functions[k].params \in Seq(Params)
  BY <1>1 DEF FunctionEntry
<1>3. Len(dict.functions[k].params) \in Nat
      /\ DOMAIN dict.functions[k].params = 1 .. Len(dict.functions[k].params)
  BY <1>2, LenProperties
<1> QED
  BY <1>1, <1>2, <1>3

\* The loops go on to the next element, or to the next entry.
LEMMA GoesOn ==
  ASSUME TypeInv, NEW len \in Nat, j <= len, Advance(len)
  PROVE  /\ i' \in Nat /\ j' \in Nat
         /\ \/ i' = i /\ j' = j + 1
            \/ i' = i + 1 /\ j' = 0 /\ j = len
<1>1. i \in Nat /\ i > 0 /\ j \in Nat
  BY DictType DEF TypeInv
<1>2. /\ i' \in Nat /\ j' \in Nat
      /\ \/ i' = i /\ j' = j + 1
         \/ i' = i + 1 /\ j' = 0 /\ len <= j
  BY <1>1, AdvanceFacts
<1>3. len <= j => j = len
  BY <1>1
<1> QED
  BY <1>2, <1>3

\* What the search for the type of a parameter adds to the list of rows: none,
\* or the one of that parameter, for every function was inserted before.
LEMMA ArgumentSearched ==
  ASSUME TypeInv, NamesInv, ResolveArgument
  PROVE  /\ phase = "arguments" /\ phase' = "arguments"
         /\ i \in DOMAIN dict.functions /\ j \in DOMAIN dict.functions[i].params
         /\ i \in Nat /\ j \in Nat /\ i' \in Nat /\ j' \in Nat
         /\ UNCHANGED <<dict, functions, arguments, runs>>
         /\ \/ UNCHANGED <<rows, i, j>>
            \/ /\ \/ i' = i /\ j' = j + 1
                  \/ i' = i + 1 /\ j' = 0 /\ j = Len(dict.functions[i].params)
               /\ \E r \in ArgumentRows : Gives(i, j, r) /\ rows' = rows \o <<r>>
<1> DEFINE e == dict.functions[i]
           a == e.params[j]
           row == [t \in {a.type, Root(a.type)} |->
                    IF FunctionsNamed(e.name) # {}
                    THEN <<[name |-> a.name, order |-> j - 1,
                            func |-> FirstFunction(e.name), type |-> t]>>
                    ELSE << >>]
<1>1. /\ phase = "arguments" /\ j > 0
      /\ i <= Len(dict.functions) /\ j <= Len(e.params)
  BY DEF TypeInv, PositionOK, ResolveArgument
<1>2. /\ i \in DOMAIN dict.functions /\ i \in Nat /\ j \in Nat
  BY <1>1, DictType DEF TypeInv
<1>3. j \in DOMAIN e.params /\ Len(e.params) \in Nat
  BY <1>1, <1>2, Somewhere
<1>4. a.type \in Names /\ a.name \in Texts
  BY <1>1, FunctionType DEF TypeInv
<1>5. ResolveRow(a.type, Len(e.params), row) /\ UNCHANGED <<dict, functions, arguments, phase, runs>>
  BY DEF ResolveArgument
<1>6. Wanted = a.type
  BY <1>1 DEF Wanted
<1>7. \/ UNCHANGED <<rows, i, j>>
      \/ /\ Advance(Len(e.params))
         /\ \E t \in {a.type, Root(a.type)} : rows' = rows \o row[t]
  BY <1>4, <1>5, <1>6, ResolveRowFacts DEF TypeInv, WantedOK
<1>8. i' \in Nat /\ j' \in Nat
  <2> HIDE DEF row
  <2> QED
    BY <1>1, <1>2, <1>3, <1>7, GoesOn
<1>9. ASSUME Advance(Len(e.params)),
             NEW t \in {a.type, Root(a.type)}, rows' = rows \o row[t]
      PROVE  /\ \/ i' = i /\ j' = j + 1
                \/ i' = i + 1 /\ j' = 0 /\ j = Len(e.params)
             /\ \E r \in ArgumentRows : Gives(i, j, r) /\ rows' = rows \o <<r>>
  <2> DEFINE r == [name |-> a.name, order |-> j - 1,
                   func |-> FirstFunction(e.name), type |-> t]
  <2>1. FunctionsNamed(e.name) # {}
    BY <1>1, <1>2 DEF NamesInv
  <2>2. /\ FirstFunction(e.name) \in 1 .. Len(functions)
        /\ functions[FirstFunction(e.name)].name = e.name
    BY <2>1, FirstFunctionFacts DEF TypeInv
  <2>3. t \in Names
    BY <1>4, RootType
  <2>4. r \in ArgumentRows
    <3>1. j - 1 \in Nat /\ FirstFunction(e.name) \in Nat
      BY <1>1, <1>2, <2>2
    <3> QED
      BY <1>4, <2>3, <3>1 DEF ArgumentRows
  <2>5. Gives(i, j, r)
    BY <2>2 DEF Gives
  <2>6. rows' = rows \o <<r>>
    BY <1>9, <2>1
  <2>7. (i' = i /\ j' = j + 1) \/ (i' = i + 1 /\ j' = 0 /\ j = Len(e.params))
    BY <1>1, <1>3, <1>9, GoesOn
  <2> HIDE DEF r
  <2> QED
    BY <2>4, <2>5, <2>6, <2>7
<1> HIDE DEF row
<1> QED
  BY <1>1, <1>2, <1>3, <1>5, <1>7, <1>8, <1>9

\* The row of one more parameter, where the loop goes on.
LEMMA OneMoreGiven ==
  ASSUME TypeInv, NEW s \in Seq(ArgumentRows), NEW r \in ArgumentRows,
         NEW k \in DOMAIN dict.functions, NEW m \in DOMAIN dict.functions[k].params,
         Gives(k, m, r), NEW a \in Nat, NEW b \in Nat,
         \/ a = k /\ b = m + 1
         \/ a = k + 1 /\ b = 0 /\ m = Len(dict.functions[k].params),
         Explained(s, k, m), Complete(s, k, m), Apart(s)
  PROVE  Explained(s \o <<r>>, a, b) /\ Complete(s \o <<r>>, a, b) /\ Apart(s \o <<r>>)
<1> DEFINE u == s \o <<r>>
<1>1. /\ DOMAIN u = DOMAIN s \cup {Len(s) + 1}
      /\ u[Len(s) + 1] = r /\ Len(s) + 1 \notin DOMAIN s
      /\ \A x \in DOMAIN s : u[x] = s[x]
  BY OneMoreRow
<1> HIDE DEF u
<1>2. ASSUME NEW c \in DOMAIN dict.functions, NEW d \in DOMAIN dict.functions[c].params
      PROVE  Past(c, d, a, b) <=> Past(c, d, k, m) \/ (c = k /\ d = m)
  <2>1. /\ c \in Nat /\ d \in Nat /\ k \in Nat /\ m \in Nat /\ d > 0 /\ m > 0
        /\ d <= Len(dict.functions[c].params) /\ Len(dict.functions[c].params) \in Nat
    BY Somewhere
  <2>2. CASE a = k /\ b = m + 1
    BY <2>1, <2>2 DEF Past
  <2>3. CASE a = k + 1 /\ b = 0 /\ m = Len(dict.functions[k].params)
    BY <2>1, <2>3 DEF Past
  <2> QED
    BY <2>2, <2>3
<1>3. ~ Past(k, m, k, m)
  BY Somewhere DEF Past
<1>4. Explained(u, a, b)
  <2> SUFFICES ASSUME NEW x \in DOMAIN u
               PROVE  \E c \in DOMAIN dict.functions :
                        \E d \in DOMAIN dict.functions[c].params :
                          Past(c, d, a, b) /\ Gives(c, d, u[x])
    BY DEF Explained
  <2>1. CASE x \in DOMAIN s
    <3>1. PICK c \in DOMAIN dict.functions : \E d \in DOMAIN dict.functions[c].params :
            Past(c, d, k, m) /\ Gives(c, d, s[x])
      BY <2>1 DEF Explained
    <3> QED
      BY <1>1, <1>2, <2>1, <3>1
  <2>2. CASE x = Len(s) + 1
    BY <1>1, <1>2, <2>2
  <2> QED
    BY <1>1, <2>1, <2>2
<1>5. Complete(u, a, b)
  <2> SUFFICES ASSUME NEW c \in DOMAIN dict.functions,
                      NEW d \in DOMAIN dict.functions[c].params, Past(c, d, a, b)
               PROVE  \E x \in DOMAIN u : Gives(c, d, u[x])
    BY DEF Complete
  <2>1. CASE Past(c, d, k, m)
    <3>1. PICK x \in DOMAIN s : Gives(c, d, s[x])
      BY <2>1 DEF Complete
    <3> QED
      BY <1>1, <3>1
  <2>2. CASE c = k /\ d = m
    BY <1>1, <2>2
  <2> QED
    BY <1>2, <2>1, <2>2
<1>6. Apart(u)
  <2>1. ASSUME NEW x \in DOMAIN s, s[x].order = r.order,
               functions[s[x].func].name = functions[r.func].name
        PROVE  \E c \in DOMAIN dict.functions : c # k /\ Tells(c, s[x]) /\ Tells(k, r)
    <3>1. PICK c \in DOMAIN dict.functions : \E d \in DOMAIN dict.functions[c].params :
            Past(c, d, k, m) /\ Gives(c, d, s[x])
      BY DEF Explained
    <3>2. PICK d \in DOMAIN dict.functions[c].params :
            Past(c, d, k, m) /\ Gives(c, d, s[x])
      BY <3>1
    <3>3. d \in Nat /\ m \in Nat
      BY Somewhere
    <3>4. d - 1 = m - 1
      BY <2>1, <3>2 DEF Gives
    <3>5. c # k
      BY <1>3, <3>2, <3>3, <3>4
    <3> QED
      BY <3>2, <3>5 DEF Tells
  <2> SUFFICES ASSUME NEW x \in DOMAIN u, NEW y \in DOMAIN u,
                      x # y, u[x].order = u[y].order,
                      functions[u[x].func].name = functions[u[y].func].name
               PROVE  \E c, d \in DOMAIN dict.functions :
                        c # d /\ Tells(c, u[x]) /\ Tells(d, u[y])
    BY DEF Apart
  <2>2. CASE x \in DOMAIN s /\ y \in DOMAIN s
    BY <1>1, <2>2 DEF Apart
  <2>3. CASE x \in DOMAIN s /\ y = Len(s) + 1
    BY <1>1, <2>1, <2>3
  <2>4. CASE x = Len(s) + 1 /\ y \in DOMAIN s
    BY <1>1, <2>1, <2>4
  <2> QED
    BY <1>1, <2>2, <2>3, <2>4
<1> QED
  BY <1>4, <1>5, <1>6 DEF u

\* The dictionary is read once, and no row is taken back: what is said of the
\* committed rows stays true while none is added.
LEMMA OwnersStay ==
  ASSUME TypeInv, ReferencesInv, [Next]_vars
  PROVE  /\ dict' = dict
         /\ \A k \in DOMAIN arguments :
              functions'[arguments[k].func] = functions[arguments[k].func]
<1>1. dict' = dict
  BY KnownStays
<1>2. ASSUME NEW k \in DOMAIN arguments
      PROVE  functions'[arguments[k].func] = functions[arguments[k].func]
  <2>1. arguments[k].func \in DOMAIN functions
    BY ReferencesImplied DEF ReferentialIntegrity
  <2> QED
    BY <2>1, PrefixStays
<1> QED
  BY <1>1, <1>2

LEMMA CommittedStays ==
  ASSUME TypeInv, ReferencesInv, [Next]_vars, UNCHANGED arguments
  PROVE  /\ AllTold => AllTold'
         /\ AllGiven => AllGiven'
         /\ Apart(arguments) => Apart(arguments)'
<1>1. /\ dict' = dict /\ arguments' = arguments
      /\ \A k \in DOMAIN arguments :
           functions'[arguments[k].func] = functions[arguments[k].func]
  BY OwnersStay
<1>2. AllTold => AllTold'
  BY <1>1 DEF AllTold, Tells, Gives
<1>3. AllGiven => AllGiven'
  BY <1>1 DEF AllGiven, Complete, Past, Gives
<1>4. Apart(arguments) => Apart(arguments)'
  BY <1>1 DEF Apart, Tells, Gives
<1> QED
  BY <1>2, <1>3, <1>4

\* No list is open before the loop over the functions begins, and none after it
\* has ended.
LEMMA NothingPast ==
  ASSUME TypeInv, NEW k \in DOMAIN dict.functions, NEW m \in DOMAIN dict.functions[k].params
  PROVE  ~ Past(k, m, 1, 0) /\ Past(k, m, Len(dict.functions) + 1, 0)
BY Somewhere DEF Past

LEMMA EmptyList ==
  TypeInv => Explained(<< >>, 1, 0) /\ Complete(<< >>, 1, 0) /\ Apart(<< >>)
<1>1. DOMAIN << >> = {}
  OBVIOUS
<1> QED
  BY <1>1, NothingPast DEF Explained, Complete, Apart

\* A loop that stands after its last entry has passed every parameter.
LEMMA AllPast ==
  ASSUME TypeInv, NEW s, Explained(s, i, j), Complete(s, i, j), i > Len(dict.functions)
  PROVE  /\ \A x \in DOMAIN s : \E k \in DOMAIN dict.functions : Tells(k, s[x])
         /\ Complete(s, Len(dict.functions) + 1, 0)
<1>1. ASSUME NEW k \in DOMAIN dict.functions, NEW m \in DOMAIN dict.functions[k].params
      PROVE  Past(k, m, i, j)
  <2>1. k \in Nat /\ Len(dict.functions) \in Nat /\ k <= Len(dict.functions) /\ i \in Nat
    BY Somewhere, DictType DEF TypeInv
  <2> QED
    BY <2>1 DEF Past
<1> QED
  BY <1>1 DEF Explained, Complete, Tells

\* The head of the loop over the functions passes no parameter.
LEMMA VisitPasses ==
  ASSUME TypeInv, VisitFunction
  PROVE  /\ UNCHANGED <<dict, functions, rows, arguments, phase, runs>>
         /\ phase = "arguments"
         /\ \A k \in DOMAIN dict.functions : \A m \in DOMAIN dict.functions[k].params :
              Past(k, m, i, j) <=> Past(k, m, i', j')
<1>1. /\ i \in DOMAIN dict.functions /\ j = 0 /\ i \in Nat
      /\ Advance(Len(dict.functions[i].params))
  BY DictType DEF VisitFunction, TypeInv
<1>2. Len(dict.functions[i].params) \in Nat
  BY <1>1, Somewhere
<1>3. \/ i' = i /\ j' = 1
      \/ i' = i + 1 /\ j' = 0 /\ Len(dict.functions[i].params) = 0
  BY <1>1, <1>2, GoesOn
<1>4. ASSUME NEW k \in DOMAIN dict.functions, NEW m \in DOMAIN dict.functions[k].params
      PROVE  Past(k, m, i, j) <=> Past(k, m, i', j')
  <2>1. /\ k \in Nat /\ m \in Nat /\ m > 0 /\ m <= Len(dict.functions[k].params)
        /\ Len(dict.functions[k].params) \in Nat
    BY Somewhere
  <2>2. CASE i' = i /\ j' = 1
    BY <1>1, <2>1, <2>2 DEF Past
  <2>3. CASE i' = i + 1 /\ j' = 0 /\ Len(dict.functions[i].params) = 0
    <3>1. k # i
      BY <2>1, <2>3
    <3> QED
      BY <1>1, <2>1, <2>3, <3>1 DEF Past
  <2> QED
    BY <1>3, <2>2, <2>3
<1> QED
  BY <1>4 DEF VisitFunction, tables

\* The list of rows while it is collected.
LEMMA RowsNext ==
  ASSUME TypeInv, ReferencesInv, NamesInv, ListsInv, [Next]_vars, phase' = "arguments"
  PROVE  (Explained(rows, i, j) /\ Complete(rows, i, j) /\ Apart(rows))'
<1>0. dict' = dict
  BY KnownStays
<1>1. CASE InsertFunctions
  <2>1. i' = 1 /\ j' = 0 /\ rows' = << >>
    BY <1>1 DEF InsertFunctions, Enter
  <2>2. TypeInv'
    BY TypeNext
  <2>3. (Explained(<< >>, 1, 0) /\ Complete(<< >>, 1, 0) /\ Apart(<< >>))'
    BY <2>2, EmptyList, PTL
  <2> QED
    BY <2>1, <2>3 DEF Explained, Complete, Apart
<1>2. CASE VisitFunction
  BY <1>2, VisitPasses DEF ListsInv, Explained, Complete, Apart, Tells, Gives
<1>3. CASE ResolveArgument
  <2>1. /\ phase = "arguments" /\ rows \in Seq(ArgumentRows)
        /\ i \in DOMAIN dict.functions /\ j \in DOMAIN dict.functions[i].params
        /\ i' \in Nat /\ j' \in Nat
        /\ UNCHANGED <<dict, functions>>
    BY <1>3, ArgumentSearched DEF TypeInv, TypeOK
  <2>2. CASE UNCHANGED <<rows, i, j>>
    BY <2>1, <2>2 DEF ListsInv, Explained, Complete, Apart, Tells, Gives, Past
  <2>3. ASSUME NEW r \in ArgumentRows, Gives(i, j, r), rows' = rows \o <<r>>,
               \/ i' = i /\ j' = j + 1
               \/ i' = i + 1 /\ j' = 0 /\ j = Len(dict.functions[i].params)
        PROVE  (Explained(rows, i, j) /\ Complete(rows, i, j) /\ Apart(rows))'
    <3> SUFFICES ASSUME NEW a \in Nat, a = i', NEW b \in Nat, b = j', NEW u, u = rows'
                 PROVE  (Explained(u, a, b) /\ Complete(u, a, b) /\ Apart(u))'
      BY <2>1 DEF Explained, Complete, Apart
    <3>1. Explained(u, a, b) /\ Complete(u, a, b) /\ Apart(u)
      BY <2>1, <2>3, OneMoreGiven DEF ListsInv
    <3> QED
      BY <2>1, <3>1 DEF Explained, Complete, Apart, Tells, Gives, Past
  <2> QED
    BY <1>3, <2>2, <2>3, ArgumentSearched
<1>4. CASE UNCHANGED vars
  BY <1>4 DEF vars, tables, memory, ListsInv, Explained, Complete, Apart, Tells, Gives, Past
<1> QED
  BY <1>1, <1>2, <1>3, <1>4 DEF Next, Step, RunScript, InsertTypes, VisitType,
     ResolveField, InsertFields, InsertCatalog, ResolveFunction, InsertArguments, Crash,
     Enter

LEMMA ListsNext ==
  ASSUME TypeInv, ReferencesInv, NamesInv, ListsInv, [Next]_vars
  PROVE  ListsInv'
<1>0. dict' = dict
  BY KnownStays
<1>1. (phase = "arguments" => Explained(rows, i, j) /\ Complete(rows, i, j) /\ Apart(rows))'
  BY RowsNext
<1>2. CASE UNCHANGED arguments
  BY <1>1, <1>2, CommittedStays DEF ListsInv
<1>3. CASE InsertArguments
  <2>1. /\ phase = "arguments" /\ i > Len(dict.functions)
        /\ arguments' = arguments \o rows
        /\ UNCHANGED <<dict, functions>>
    BY <1>3, Somewhere, DictType DEF InsertArguments, TypeInv
  <2>2. arguments \in Seq(ArgumentRows) /\ rows \in Seq(ArgumentRows)
    BY <2>1 DEF TypeInv, TypeOK
  <2> DEFINE u == arguments \o rows
  <2>3. /\ \A x \in DOMAIN arguments : x \in DOMAIN u /\ u[x] = arguments[x]
        /\ \A x \in DOMAIN rows : /\ Len(arguments) + x \in DOMAIN u
                                  /\ u[Len(arguments) + x] = rows[x]
        /\ \A x \in DOMAIN u :
             x \in DOMAIN arguments \/ \E y \in DOMAIN rows : x = Len(arguments) + y
    BY <2>2, Parts
  <2>4. /\ \A x \in DOMAIN rows : \E k \in DOMAIN dict.functions : Tells(k, rows[x])
        /\ Complete(rows, Len(dict.functions) + 1, 0)
    BY <2>1, AllPast DEF ListsInv
  <2>5. arguments' = u
    BY <2>1
  <2> HIDE DEF u
  <2>6. \A x \in DOMAIN u : \E k \in DOMAIN dict.functions : Tells(k, u[x])
    BY <2>3, <2>4 DEF ListsInv, AllTold
  <2>7. Complete(u, Len(dict.functions) + 1, 0)
    BY <2>3, <2>4 DEF Complete
  <2>8. AllTold' /\ AllGiven'
    BY <2>1, <2>5, <2>6, <2>7 DEF AllTold, AllGiven, Complete, Past, Tells, Gives
  <2> QED
    BY <1>1, <2>8 DEF ListsInv
<1> QED
  BY <1>2, <1>3 DEF Next, Step, RunScript, InsertTypes, VisitType, ResolveField,
     InsertFields, InsertCatalog, ResolveFunction, InsertFunctions, VisitFunction,
     ResolveArgument, Crash, vars, tables

LEMMA FirstRunNext ==
  ASSUME TypeInv, ReferencesInv, ListsInv, FirstRunInv, [Next]_vars
  PROVE  FirstRunInv'
<1>0. runs \in Nat
  BY RunsAssumption DEF TypeInv, TypeOK
<1>1. CASE RunScript
  <2>1. runs' = runs + 1 /\ phase' = "types" /\ UNCHANGED arguments
        /\ phase \in {"idle", "done"}
    BY <1>1 DEF RunScript, Enter, tables
  <2>2. runs' <= 1 => runs = 0 /\ phase = "idle" /\ arguments = << >>
    BY <1>0, <2>1 DEF FirstRunInv
  <2> QED
    BY <1>0, <2>1, <2>2, CommittedStays DEF FirstRunInv
<1>2. CASE InsertArguments
  <2>1. /\ phase = "arguments" /\ phase' = "done" /\ runs' = runs
        /\ arguments' = arguments \o rows /\ UNCHANGED <<dict, functions>>
    BY <1>2 DEF InsertArguments, Enter
  <2>2. ASSUME runs <= 1 PROVE Apart(arguments)'
    <3>1. arguments = << >> /\ rows \in Seq(ArgumentRows)
      BY <2>1, <2>2 DEF FirstRunInv, TypeInv, TypeOK
    <3>2. arguments' = rows
      BY <2>1, <3>1
    <3>3. Apart(rows)
      BY <2>1 DEF ListsInv
    <3> QED
      BY <2>1, <3>2, <3>3 DEF Apart, Tells, Gives
  <2> QED
    BY <1>0, <2>1, <2>2 DEF FirstRunInv
<1>3. CASE /\ UNCHANGED <<arguments, runs>>
           /\ phase \notin {"idle", "done"} \/ UNCHANGED phase
           /\ phase' # "done" \/ UNCHANGED phase
  <2>1. Apart(arguments) => Apart(arguments)'
    BY <1>3, CommittedStays
  <2> QED
    BY <1>0, <1>3, <2>1 DEF FirstRunInv
<1>4. CASE UNCHANGED vars
  BY <1>3, <1>4 DEF vars, tables, memory
<1> QED
  <2>1. Step /\ ~ InsertArguments =>
          /\ UNCHANGED <<arguments, runs>>
          /\ phase \notin {"idle", "done"} /\ phase' # "done"
    BY DEF Step, InsertTypes, VisitType, ResolveField, InsertFields, InsertCatalog,
       ResolveFunction, InsertFunctions, VisitFunction, ResolveArgument, Enter, tables
  <2>2. Crash =>
          /\ UNCHANGED <<arguments, runs>>
          /\ phase \notin {"idle", "done"} /\ phase' # "done"
    BY DEF Crash, Enter, tables
  <2> QED
    BY <1>1, <1>2, <1>3, <1>4, <2>1, <2>2 DEF Next

\* The functions whose arguments are looked up are all there.
LEMMA NamesNext ==
  ASSUME TypeInv, NamesInv, [Next]_vars
  PROVE  NamesInv'
<1>0. dict' = dict
  BY KnownStays
<1>1. CASE InsertCatalog
  <2>1. phase' = "functions" /\ i' = 1
    BY <1>1 DEF InsertCatalog, Enter
  <2>2. \A k \in DOMAIN dict.functions : ~ (k < 1)
    BY Somewhere
  <2> QED
    BY <1>0, <2>1, <2>2 DEF NamesInv
<1>2. CASE ResolveFunction
  <2> DEFINE e == dict.functions[i]
             row == [t \in {e.ret, Root(e.ret)} |->
                      <<[name |-> e.name, api |-> NameOrNone(e.category, apis),
                         dll |-> NameOrNone(e.dll, dlls), ret |-> t]>>]
  <2>1. /\ phase = "functions" /\ phase' = "functions" /\ i \in DOMAIN dict.functions
        /\ i \in Nat /\ j = 0
        /\ ResolveRow(e.ret, 0, row)
    BY <1>2, DictType DEF ResolveFunction, TypeInv, PositionOK
  <2>2. e.ret \in Names /\ Wanted = e.ret
    BY <2>1, FunctionType DEF TypeInv, Wanted, ResolveFunction
  <2>3. \/ UNCHANGED <<rows, i, j>>
        \/ /\ Advance(0)
           /\ \E t \in {e.ret, Root(e.ret)} : rows' = rows \o row[t]
    BY <2>1, <2>2, ResolveRowFacts DEF TypeInv, WantedOK
  <2>4. CASE UNCHANGED <<rows, i, j>>
    BY <1>0, <2>1, <2>4 DEF NamesInv
  <2>5. ASSUME Advance(0), NEW t \in {e.ret, Root(e.ret)}, rows' = rows \o row[t]
        PROVE  NamesInv'
    <3> DEFINE r == [name |-> e.name, api |-> NameOrNone(e.category, apis),
                     dll |-> NameOrNone(e.dll, dlls), ret |-> t]
    <3> HIDE DEF row
    <3>1. i' = i + 1
      <4>1. ~ (j < 0)
        BY <2>1
      <4> QED
        BY <2>5, <4>1 DEF Advance
    <3> USE DEF row
    <3>2. rows' = rows \o <<r>> /\ r.name = e.name
      BY <2>5
    <3> HIDE DEF r
    <3>3. rows \in Seq(FunctionRows \cup {r})
      BY <2>1 DEF TypeInv, TypeOK
    <3>4. /\ DOMAIN rows' = DOMAIN rows \cup {Len(rows) + 1}
          /\ rows'[Len(rows) + 1] = r
          /\ \A x \in DOMAIN rows : rows'[x] = rows[x]
      BY <3>2, <3>3, OneMoreRow
    <3>5. ASSUME NEW k \in DOMAIN dict.functions, k < i + 1
          PROVE  \E x \in DOMAIN rows' : rows'[x].name = dict.functions[k].name
      <4>1. k < i \/ k = i
        BY <2>1, <3>5, Somewhere
      <4>2. CASE k < i
        <5>1. PICK x \in DOMAIN rows : rows[x].name = dict.functions[k].name
          BY <2>1, <4>2 DEF NamesInv
        <5> QED
          BY <3>4, <5>1
      <4>3. CASE k = i
        BY <3>2, <3>4, <4>3
      <4> QED
        BY <4>1, <4>2, <4>3
    <3> QED
      BY <1>0, <2>1, <3>1, <3>5 DEF NamesInv
  <2> HIDE DEF row
  <2> QED
    BY <2>3, <2>4, <2>5
<1>3. CASE InsertFunctions
  <2>1. /\ phase = "functions" /\ phase' = "arguments" /\ i > Len(dict.functions)
        /\ functions' = functions \o rows /\ i \in Nat
    BY <1>3, DictType DEF InsertFunctions, Enter, TypeInv
  <2>2. functions \in Seq(FunctionRows) /\ rows \in Seq(FunctionRows)
    BY <2>1 DEF TypeInv, TypeOK
  <2> DEFINE u == functions'
  <2>7. SUFFICES ASSUME NEW k \in DOMAIN dict.functions
                 PROVE  {x \in 1 .. Len(u) : u[x].name = dict.functions[k].name} # {}
    <3>1. phase' = "arguments" /\ dict' = dict
      BY <1>0, <2>1
    <3> QED
      BY <3>1 DEF NamesInv, FunctionsNamed
  <2>3. k < i
    BY <2>1, Somewhere
  <2>4. PICK x \in DOMAIN rows : rows[x].name = dict.functions[k].name
    BY <2>1, <2>3 DEF NamesInv
  <2>5. /\ Len(functions) + x \in DOMAIN u /\ u[Len(functions) + x] = rows[x]
    BY <2>1, <2>2, Parts
  <2>6. DOMAIN u = 1 .. Len(u)
    BY <2>1, <2>2, ConcatProperties, LenProperties
  <2> QED
    BY <2>4, <2>5, <2>6
<1>4. CASE VisitFunction \/ ResolveArgument
  BY <1>0, <1>4 DEF VisitFunction, ResolveArgument, tables, NamesInv, FunctionsNamed
<1>5. CASE UNCHANGED vars
  BY <1>5 DEF vars, tables, memory, NamesInv, FunctionsNamed
<1>6. CASE phase' \notin {"functions", "arguments"}
  BY <1>6 DEF NamesInv
<1> QED
  BY <1>1, <1>2, <1>3, <1>4, <1>5, <1>6 DEF Next, Step, RunScript, InsertTypes, VisitType,
     ResolveField, InsertFields, InsertArguments, Crash, Enter

-----------------------------------------------------------------------------
(* The values that are committed before them                               *)

\* The entry the loop over the types comes to next, seen from its head.
Ahead == IF j = 0 THEN i ELSE i + 1

\* The rows of values are those of the entries before a.
ValuesAre(s, a) ==
  /\ \A x \in DOMAIN s : \E k \in DOMAIN dict.types :
       /\ k < a /\ s[x].type = dict.types[k].name
       /\ \E m \in DOMAIN dict.types[k].defs : s[x].name = dict.types[k].defs[m]
  /\ \A k \in DOMAIN dict.types : \A m \in DOMAIN dict.types[k].defs :
       k < a => \E x \in DOMAIN s :
                  s[x].type = dict.types[k].name /\ s[x].name = dict.types[k].defs[m]

AllValues == ValuesAre(values, Len(dict.types) + 1)

\* The values are committed whole, and before the functions.
ValuesInv ==
  /\ values # << >> => AllValues
  /\ phase \in {"catalog", "functions", "arguments"} \/ functions # << >> => AllValues
  /\ phase = "fields" => ValuesAre(valuesList, Ahead)

LEMMA TypePlace ==
  ASSUME TypeInv, NEW k \in DOMAIN dict.types
  PROVE  /\ k \in Nat /\ k > 0 /\ k <= Len(dict.types) /\ Len(dict.types) \in Nat
         /\ dict.types[k].name \in Names /\ dict.types[k].defs \in Seq(Texts)
         /\ dict.types[k].fields \in Seq(Params)
<1>1. k \in 1 .. Len(dict.types) /\ dict.types[k] \in TypeEntry /\ Len(dict.types) \in Nat
  BY DictType, LenProperties, SeqElement DEF TypeInv
<1> QED
  BY <1>1 DEF TypeEntry

\* Two lists of values, of the entries before a and of those from a to b.
LEMMA ValuesConcat ==
  ASSUME NEW S, NEW s \in Seq(S), NEW u \in Seq(S), NEW a, ValuesAre(s, a), NEW b,
         \A k \in DOMAIN dict.types : k < a => k < b,
         \A x \in DOMAIN u : \E k \in DOMAIN dict.types :
           /\ k < b /\ u[x].type = dict.types[k].name
           /\ \E m \in DOMAIN dict.types[k].defs : u[x].name = dict.types[k].defs[m],
         \A k \in DOMAIN dict.types : \A m \in DOMAIN dict.types[k].defs :
           k < b /\ ~ (k < a) =>
             \E x \in DOMAIN u :
               u[x].type = dict.types[k].name /\ u[x].name = dict.types[k].defs[m]
  PROVE  ValuesAre(s \o u, b)
<1> DEFINE t == s \o u
<1>1. /\ \A x \in DOMAIN s : x \in DOMAIN t /\ t[x] = s[x]
      /\ \A x \in DOMAIN u : Len(s) + x \in DOMAIN t /\ t[Len(s) + x] = u[x]
      /\ \A x \in DOMAIN t : x \in DOMAIN s \/ \E y \in DOMAIN u : x = Len(s) + y
  BY Parts
<1> HIDE DEF t
<1>2. ASSUME NEW x \in DOMAIN t
      PROVE  \E k \in DOMAIN dict.types :
               /\ k < b /\ t[x].type = dict.types[k].name
               /\ \E m \in DOMAIN dict.types[k].defs : t[x].name = dict.types[k].defs[m]
  <2>1. CASE x \in DOMAIN s
    <3>1. PICK k \in DOMAIN dict.types :
            /\ k < a /\ s[x].type = dict.types[k].name
            /\ \E m \in DOMAIN dict.types[k].defs : s[x].name = dict.types[k].defs[m]
      BY <2>1 DEF ValuesAre
    <3> QED
      BY <1>1, <2>1, <3>1
  <2>2. ASSUME NEW y \in DOMAIN u, x = Len(s) + y
        PROVE  \E k \in DOMAIN dict.types :
                 /\ k < b /\ t[x].type = dict.types[k].name
                 /\ \E m \in DOMAIN dict.types[k].defs : t[x].name = dict.types[k].defs[m]
    BY <1>1, <2>2
  <2> QED
    BY <1>1, <2>1, <2>2
<1>3. ASSUME NEW k \in DOMAIN dict.types, NEW m \in DOMAIN dict.types[k].defs, k < b
      PROVE  \E x \in DOMAIN t :
               t[x].type = dict.types[k].name /\ t[x].name = dict.types[k].defs[m]
  <2>1. CASE k < a
    <3>1. PICK x \in DOMAIN s :
            s[x].type = dict.types[k].name /\ s[x].name = dict.types[k].defs[m]
      BY <2>1 DEF ValuesAre
    <3> QED
      BY <1>1, <3>1
  <2>2. CASE ~ (k < a)
    <3>1. PICK x \in DOMAIN u :
            u[x].type = dict.types[k].name /\ u[x].name = dict.types[k].defs[m]
      BY <1>3, <2>2
    <3>2. Len(s) + x \in DOMAIN t /\ t[Len(s) + x] = u[x]
      BY <1>1
    <3> QED
      BY <3>1, <3>2
  <2> QED
    BY <2>1, <2>2
<1> QED
  BY <1>2, <1>3 DEF ValuesAre, t

\* The head of the loop over the types takes the values of its entry, whose type
\* is in the table.
LEMMA ValuesVisitType ==
  ASSUME TypeInv, VisitedInv, ValuesInv, VisitType
  PROVE  ValuesAre(valuesList, Ahead)'
<1> DEFINE e == dict.types[i]
           u == [k \in 1 .. Len(e.defs) |-> [name |-> e.defs[k], type |-> e.name]]
<1>1. /\ phase = "fields" /\ i \in DOMAIN dict.types /\ i \in Nat /\ j = 0
      /\ Advance(Len(e.fields)) /\ dict' = dict
  BY DictType DEF VisitType, TypeInv
<1>2. /\ e.name \in Names /\ e.defs \in Seq(Texts) /\ e.fields \in Seq(Params)
      /\ e.name \in DOMAIN types
  BY <1>1, TypePlace DEF VisitedInv, DeclaredKnown
<1>3. Len(e.fields) \in Nat /\ Len(e.defs) \in Nat /\ DOMAIN e.defs = 1 .. Len(e.defs)
  BY <1>2
<1>4. Ahead = i
  BY <1>1 DEF Ahead
<1>5. Ahead' = i + 1
  <2>1. (i' = i /\ j' = 1) \/ (i' = i + 1 /\ j' = 0)
    BY <1>1, <1>3, GoesOn
  <2> QED
    BY <2>1 DEF Ahead
<1>6. valuesList' = valuesList \o u
  BY <1>2 DEF VisitType
<1>7. u \in Seq(ValueRows) /\ DOMAIN u = DOMAIN e.defs
  <2>1. \A k \in 1 .. Len(e.defs) : e.defs[k] \in Texts
    BY <1>2
  <2>2. \A k \in 1 .. Len(e.defs) : [name |-> e.defs[k], type |-> e.name] \in ValueRows
    BY <1>2, <2>1 DEF ValueRows
  <2> QED
    BY <1>3, <2>2
<1>8. \A k \in DOMAIN e.defs : u[k].type = e.name /\ u[k].name = e.defs[k]
  BY <1>3
<1> HIDE DEF u
<1>9. ValuesAre(valuesList \o u, i + 1)
  <2>1. ValuesAre(valuesList, i) /\ valuesList \in Seq(ValueRows)
    BY <1>1, <1>4 DEF ValuesInv, TypeInv, TypeOK
  <2>2. ASSUME NEW k \in DOMAIN dict.types
        PROVE  (k < i => k < i + 1) /\ (k < i + 1 /\ ~ (k < i) => k = i)
    BY <1>1, TypePlace
  <2>3. i < i + 1
    BY <1>1
  <2>4. \A x \in DOMAIN u : \E k \in DOMAIN dict.types :
          /\ k < i + 1 /\ u[x].type = dict.types[k].name
          /\ \E m \in DOMAIN dict.types[k].defs : u[x].name = dict.types[k].defs[m]
    BY <1>1, <1>7, <1>8, <2>3
  <2>5. \A k \in DOMAIN dict.types : \A m \in DOMAIN dict.types[k].defs :
          k < i + 1 /\ ~ (k < i) =>
            \E x \in DOMAIN u :
              u[x].type = dict.types[k].name /\ u[x].name = dict.types[k].defs[m]
    BY <1>7, <1>8, <2>2
  <2> QED
    BY <1>7, <2>1, <2>2, <2>4, <2>5, ValuesConcat
<1>10. SUFFICES ASSUME NEW a, a = Ahead' PROVE ValuesAre(valuesList, a)'
  BY DEF ValuesAre
<1> QED
  BY <1>1, <1>5, <1>6, <1>9, <1>10 DEF ValuesAre

\* The loop over the fields of an entry adds no value.
LEMMA ValuesResolveField ==
  ASSUME TypeInv, ValuesInv, ResolveField
  PROVE  ValuesAre(valuesList, Ahead)'
<1> DEFINE e == dict.types[i]
           f == e.fields[j]
           row == [t \in {f.type, Root(f.type)} |->
                    IF e.name \in DOMAIN types
                    THEN <<[name |-> FieldName(f.name), order |-> j - 1,
                            struct |-> e.name, type |-> t]>>
                    ELSE << >>]
<1>1. /\ phase = "fields" /\ j > 0 /\ i <= Len(dict.types) /\ j <= Len(e.fields)
      /\ i \in DOMAIN dict.types /\ i \in Nat /\ j \in Nat
      /\ ResolveRow(f.type, Len(e.fields), row)
      /\ UNCHANGED <<dict, valuesList>>
  BY DictType DEF ResolveField, TypeInv, PositionOK
<1>2. e.fields \in Seq(Params) /\ f.type \in Names /\ Wanted = f.type
  BY <1>1, TypePlace, EntryType DEF TypeInv, Wanted
<1> HIDE DEF row
<1>3. UNCHANGED <<i, j>> \/ Advance(Len(e.fields))
  BY <1>1, <1>2, ResolveRowFacts DEF TypeInv, WantedOK
<1>4. Ahead' = Ahead
  <2>1. CASE UNCHANGED <<i, j>>
    BY <2>1 DEF Ahead
  <2>2. CASE Advance(Len(e.fields))
    <3>1. \/ i' = i /\ j' = j + 1
          \/ i' = i + 1 /\ j' = 0
      BY <1>1, <1>2, <2>2, GoesOn
    <3> QED
      BY <1>1, <3>1 DEF Ahead
  <2> QED
    BY <1>3, <2>1, <2>2
<1>5. ValuesAre(valuesList, Ahead)
  BY <1>1 DEF ValuesInv
<1>6. SUFFICES ASSUME NEW a, a = Ahead' PROVE ValuesAre(valuesList, a)'
  BY DEF ValuesAre
<1> QED
  BY <1>1, <1>4, <1>5, <1>6 DEF ValuesAre

\* The commit of line 73.
LEMMA ValuesInsertFields ==
  ASSUME TypeInv, ValuesInv, InsertFields
  PROVE  AllValues'
<1>1. /\ phase = "fields" /\ i > Len(dict.types) /\ i \in Nat
      /\ values' = values \o valuesList /\ dict' = dict
  BY DictType DEF InsertFields, TypeInv
<1>2. values \in Seq(ValueRows) /\ valuesList \in Seq(ValueRows) /\ Ahead \in Nat /\ Ahead >= i
  BY <1>1, DictType DEF TypeInv, TypeOK, Ahead
<1> DEFINE b == Len(dict.types) + 1
<1>3. ASSUME NEW k \in DOMAIN dict.types PROVE k < b /\ k < Ahead
  BY <1>1, <1>2, TypePlace
<1>4. ValuesAre(valuesList, b)
  <2>1. ValuesAre(valuesList, Ahead)
    BY <1>1 DEF ValuesInv
  <2> HIDE DEF b
  <2> QED
    BY <1>3, <2>1 DEF ValuesAre
<1>5. ValuesAre(values \o valuesList, b)
  <2>1. CASE values = << >>
    <3>1. values \o valuesList = valuesList
      BY <1>2, <2>1
    <3> QED
      BY <1>4, <3>1
  <2>2. CASE values # << >>
    <3>1. ValuesAre(values, b)
      BY <2>2 DEF ValuesInv, AllValues
    <3>2. \A x \in DOMAIN valuesList : \E k \in DOMAIN dict.types :
            /\ k < b /\ valuesList[x].type = dict.types[k].name
            /\ \E m \in DOMAIN dict.types[k].defs :
                 valuesList[x].name = dict.types[k].defs[m]
      BY <1>4 DEF ValuesAre
    <3> HIDE DEF b
    <3> QED
      BY <1>2, <3>1, <3>2, ValuesConcat
  <2> QED
    BY <2>1, <2>2
<1> QED
  BY <1>1, <1>5 DEF AllValues, ValuesAre

LEMMA ValuesNext ==
  ASSUME TypeInv, VisitedInv, ValuesInv, [Next]_vars
  PROVE  ValuesInv'
<1>0. dict' = dict
  BY KnownStays
<1>1. CASE UNCHANGED values
  <2>1. AllValues => AllValues'
    BY <1>0, <1>1 DEF AllValues, ValuesAre
  <2>2. (values # << >> => AllValues)'
    BY <1>1, <2>1 DEF ValuesInv
  <2>3. (phase \in {"catalog", "functions", "arguments"} \/ functions # << >> => AllValues)'
    <3>1. CASE phase' = phase /\ functions' = functions
      BY <2>1, <3>1 DEF ValuesInv
    <3>2. CASE InsertFunctions \/ InsertCatalog
      BY <2>1, <3>2 DEF InsertFunctions, InsertCatalog, ValuesInv
    <3>3. CASE functions' = functions /\ phase' \notin {"catalog", "functions", "arguments"}
      BY <2>1, <3>3 DEF ValuesInv
    <3>4. CASE InsertFields
      BY <3>4, ValuesInsertFields
    <3> QED
      BY <3>1, <3>2, <3>3, <3>4 DEF Next, Step, RunScript, InsertTypes, VisitType,
         ResolveField, ResolveFunction, VisitFunction, ResolveArgument, InsertArguments,
         Crash, Enter, vars, tables, memory
  <2>4. (phase = "fields" => ValuesAre(valuesList, Ahead))'
    <3>1. CASE VisitType
      BY <3>1, ValuesVisitType
    <3>2. CASE ResolveField
      BY <3>2, ValuesResolveField
    <3>3. CASE InsertTypes
      <4>1. i' = 1 /\ j' = 0 /\ valuesList' = << >> /\ DOMAIN << >> = {}
        BY <3>3 DEF InsertTypes, Enter
      <4>2. Ahead' = 1
        BY <4>1 DEF Ahead
      <4>3. \A k \in DOMAIN dict.types : ~ (k < 1)
        BY TypePlace
      <4>4. SUFFICES ASSUME NEW a, a = Ahead' PROVE ValuesAre(valuesList, a)'
        BY DEF ValuesAre
      <4> QED
        BY <1>0, <4>1, <4>2, <4>3, <4>4 DEF ValuesAre
    <3>4. CASE phase' # "fields"
      BY <3>4
    <3>5. CASE UNCHANGED vars
      BY <3>5 DEF vars, tables, memory, ValuesInv, ValuesAre, Ahead
    <3> QED
      BY <3>1, <3>2, <3>3, <3>4, <3>5 DEF Next, Step, RunScript, InsertFields,
         InsertCatalog, InsertFunctions, ResolveFunction, VisitFunction, ResolveArgument,
         InsertArguments, Crash, Enter
  <2> QED
    BY <2>2, <2>3, <2>4 DEF ValuesInv
<1>2. CASE InsertFields
  <2>1. phase' = "catalog"
    BY <1>2 DEF InsertFields, Enter
  <2> QED
    BY <1>2, <2>1, ValuesInsertFields DEF ValuesInv
<1> QED
  BY <1>1, <1>2 DEF Next, Step, RunScript, InsertTypes, VisitType, ResolveField,
     InsertCatalog, InsertFunctions, ResolveFunction, VisitFunction, ResolveArgument,
     InsertArguments, Crash, vars, tables

\* All of it, for every history of the database.
FillerInv == VisitedInv /\ NamesInv /\ ListsInv /\ FirstRunInv /\ ValuesInv

LEMMA FillerInvHolds == SessionSpec => [](TypeInv /\ ReferencesInv /\ FillerInv)
<1>1. Init => FillerInv
  <2> SUFFICES ASSUME Init PROVE FillerInv
    OBVIOUS
  <2>1. /\ phase = "idle" /\ runs = 0 /\ arguments = << >> /\ values = << >>
        /\ functions = << >> /\ DOMAIN << >> = {}
    BY DEF Init
  <2>2. VisitedInv /\ NamesInv /\ ListsInv /\ FirstRunInv
    BY <2>1 DEF VisitedInv, NamesInv, ListsInv, FirstRunInv, AllTold, Apart
  <2>3. ValuesInv
    BY <2>1 DEF ValuesInv
  <2> QED
    BY <2>2, <2>3 DEF FillerInv
<1>2. TypeInv /\ ReferencesInv /\ FillerInv /\ [Next]_vars => FillerInv'
  BY VisitedNext, NamesNext, ListsNext, FirstRunNext, ValuesNext DEF FillerInv
<1> QED
  BY <1>1, <1>2, SessionFills, TypeInvariance, ReferencesInvariance, PTL DEF Spec

-----------------------------------------------------------------------------
(* What a reader meets of them                                             *)

\* The arguments and the values of the tables, as a query finds them.
LEMMA ArgumentsNow ==
  ASSUME NEW n
  PROVE  Alone!ArgumentsNamed(n) =
           {[name |-> r.name, order |-> r.order, typeName |-> r.type,
             kind |-> types[r.type].kind, baseTypeName |-> types[r.type].base] :
              r \in {r \in {arguments[k] : k \in DOMAIN arguments} :
                       functions[r.func].name = n}}
BY DEF Alone!ArgumentsNamed, Alone!Argument, Alone!ToSet, Committed

LEMMA ArgumentOfRow ==
  ASSUME NEW n, NEW a \in Alone!ArgumentsNamed(n)
  PROVE  \E x \in DOMAIN arguments :
           /\ functions[arguments[x].func].name = n
           /\ a = [name |-> arguments[x].name, order |-> arguments[x].order,
                   typeName |-> arguments[x].type,
                   kind |-> types[arguments[x].type].kind,
                   baseTypeName |-> types[arguments[x].type].base]
BY ArgumentsNow

Placed(s) == {<<a.name, a.order>> : a \in s}

AskedFor == UNION {NamesOf(k) : k \in Declarations}

\* A query finds all the parameters of the entries of a name, or none.
LEMMA WholeLists ==
  ASSUME TypeInv, ListsInv
  PROVE  Placed(Alone!ArgumentsNamed(name)) \in {{}, AskedFor}
<1> DEFINE A == Alone!ArgumentsNamed(name)
<1>1. CASE arguments = << >>
  <2>1. DOMAIN arguments = {}
    BY <1>1
  <2>2. A = {}
    BY <2>1, ArgumentOfRow
  <2> QED
    BY <2>2 DEF Placed
<1>2. CASE arguments # << >>
  <2>1. ASSUME NEW a \in A PROVE <<a.name, a.order>> \in AskedFor
    <3>1. PICK x \in DOMAIN arguments :
            /\ functions[arguments[x].func].name = name
            /\ a = [name |-> arguments[x].name, order |-> arguments[x].order,
                    typeName |-> arguments[x].type,
                    kind |-> types[arguments[x].type].kind,
                    baseTypeName |-> types[arguments[x].type].base]
      BY <2>1, ArgumentOfRow
    <3>2. PICK k \in DOMAIN dict.functions : Tells(k, arguments[x])
      BY DEF ListsInv, AllTold
    <3>3. PICK m \in DOMAIN dict.functions[k].params : Gives(k, m, arguments[x])
      BY <3>2 DEF Tells
    <3>4. k \in Declarations
      BY <3>1, <3>3 DEF Gives, Declarations
    <3>5. a.name = dict.functions[k].params[m].name /\ a.order = m - 1
      BY <3>1, <3>3 DEF Gives
    <3>6. <<a.name, a.order>> \in NamesOf(k)
      BY <3>5 DEF NamesOf
    <3> QED
      BY <3>4, <3>6 DEF AskedFor
  <2>2. ASSUME NEW p \in AskedFor PROVE p \in Placed(A)
    <3>1. PICK k \in Declarations : p \in NamesOf(k)
      BY DEF AskedFor
    <3>2. PICK m \in DOMAIN dict.functions[k].params :
            p = <<dict.functions[k].params[m].name, m - 1>>
      BY <3>1 DEF NamesOf
    <3>3. k \in DOMAIN dict.functions /\ dict.functions[k].name = name
      BY DEF Declarations
    <3>4. PICK x \in DOMAIN arguments : Gives(k, m, arguments[x])
      BY <1>2, <3>3, NothingPast DEF ListsInv, AllGiven, Complete
    <3> DEFINE r == arguments[x]
               a == [name |-> r.name, order |-> r.order, typeName |-> r.type,
                     kind |-> types[r.type].kind, baseTypeName |-> types[r.type].base]
    <3>5. a \in A
      BY <3>3, <3>4, ArgumentsNow DEF Gives
    <3>6. p = <<a.name, a.order>>
      BY <3>2, <3>4 DEF Gives
    <3> HIDE DEF a, A
    <3> QED
      BY <3>5, <3>6 DEF Placed
  <2>3. Placed(A) = AskedFor
    <3> HIDE DEF A
    <3> QED
      BY <2>1, <2>2 DEF Placed
  <2> QED
    BY <2>3
<1> QED
  BY <1>1, <1>2

\* Two arguments in one place.
LEMMA RivalsImplied ==
  ASSUME TypeInv, ListsInv, FirstRunInv, NeverStale
  PROVE  RivalsExplained
<1> SUFFICES ASSUME NEW a \in Reader!ToSet(func.arguments),
                    NEW b \in Reader!ToSet(func.arguments),
                    a.order = b.order, a # b
             PROVE  \/ \E k, m \in Declarations :
                         /\ k # m
                         /\ <<a.name, a.order>> \in NamesOf(k)
                         /\ <<b.name, b.order>> \in NamesOf(m)
                    \/ /\ runs > 1 /\ a.name = b.name
                       /\ a.typeName = Root(b.typeName) \/ b.typeName = Root(a.typeName)
  BY DEF RivalsExplained
<1>0. runs \in Nat
  BY RunsAssumption DEF TypeInv, TypeOK
<1>1. a \in Alone!ArgumentsNamed(name) /\ b \in Alone!ArgumentsNamed(name)
  BY SameFound DEF Alone!FoundInOrder, Reader!ToSet
<1>2. PICK x \in DOMAIN arguments :
        /\ functions[arguments[x].func].name = name
        /\ a = [name |-> arguments[x].name, order |-> arguments[x].order,
                typeName |-> arguments[x].type,
                kind |-> types[arguments[x].type].kind,
                baseTypeName |-> types[arguments[x].type].base]
  BY <1>1, ArgumentOfRow
<1>3. PICK y \in DOMAIN arguments :
        /\ functions[arguments[y].func].name = name
        /\ b = [name |-> arguments[y].name, order |-> arguments[y].order,
                typeName |-> arguments[y].type,
                kind |-> types[arguments[y].type].kind,
                baseTypeName |-> types[arguments[y].type].base]
  BY <1>1, ArgumentOfRow
<1> DEFINE r == arguments[x]
           s == arguments[y]
<1>4. /\ functions[r.func].name = name /\ functions[s.func].name = name
      /\ a.name = r.name /\ a.order = r.order /\ a.typeName = r.type
      /\ b.name = s.name /\ b.order = s.order /\ b.typeName = s.type
  BY <1>2, <1>3
<1>5. x # y /\ (a.name = b.name => a.typeName # b.typeName)
  BY <1>2, <1>3
<1> HIDE DEF r, s
<1>6. ASSUME NEW k \in DOMAIN dict.functions, NEW m \in DOMAIN dict.functions, k # m,
             Tells(k, r), Tells(m, s)
      PROVE  /\ k \in Declarations /\ m \in Declarations
             /\ <<a.name, a.order>> \in NamesOf(k) /\ <<b.name, b.order>> \in NamesOf(m)
  BY <1>4, <1>6 DEF Tells, Gives, Declarations, NamesOf
<1>7. PICK k \in DOMAIN dict.functions : Tells(k, r)
  BY DEF ListsInv, AllTold, r
<1>8. PICK m \in DOMAIN dict.functions : Tells(m, s)
  BY DEF ListsInv, AllTold, s
<1>9. CASE k # m
  BY <1>6, <1>7, <1>8, <1>9
<1>10. CASE runs <= 1
  <2>1. Apart(arguments)
    BY <1>10 DEF FirstRunInv
  <2>2. r.order = s.order
    BY <1>4
  <2>3. \E c, d \in DOMAIN dict.functions : c # d /\ Tells(c, r) /\ Tells(d, s)
    BY <1>4, <1>5, <2>1, <2>2 DEF Apart, r, s
  <2> QED
    BY <1>6, <2>3
<1>11. CASE k = m /\ runs > 1
  <2>1. PICK c \in DOMAIN dict.functions[k].params : Gives(k, c, r)
    BY <1>7 DEF Tells
  <2>2. PICK d \in DOMAIN dict.functions[k].params : Gives(k, d, s)
    BY <1>8, <1>11 DEF Tells
  <2>3. c \in Nat /\ d \in Nat
    BY Somewhere
  <2>4. c - 1 = d - 1
    BY <1>4, <2>1, <2>2 DEF Gives
  <2>5. c = d
    BY <2>3, <2>4
  <2> DEFINE p == dict.functions[k].params[c]
  <2>6. /\ a.name = p.name /\ b.name = p.name
        /\ a.typeName \in {p.type, Root(p.type)} /\ b.typeName \in {p.type, Root(p.type)}
    BY <1>4, <2>1, <2>2, <2>5 DEF Gives
  <2> HIDE DEF p
  <2>7. a.typeName # b.typeName
    BY <1>5, <2>6
  <2>8. a.typeName = Root(b.typeName) \/ b.typeName = Root(a.typeName)
    BY <2>6, <2>7
  <2> QED
    BY <1>11, <2>6, <2>8
<1> QED
  BY <1>0, <1>9, <1>10, <1>11

\* While nothing fails: what was there at the beginning is still there when the
\* arguments are read, and is read then, with the rest of its list or none.
AnswerInv ==
  faults = 0 =>
    /\ pc = "open" => before = {}
    /\ pc \notin Alone!Later => before \subseteq Alone!ArgumentsNamed(name)
    /\ pc \in Alone!Later =>
         /\ before \subseteq Alone!ToSet(func.arguments)
         /\ Placed(Alone!ToSet(func.arguments)) \in {{}, AskedFor}

LEMMA ReadingNext == Reading => Alone!Next /\ UNCHANGED vars
BY SameStep DEF Reading, Alone!Next, vars, tables, Committed

LEMMA AnswerNext ==
  ASSUME TypeInv, AlwaysADatabase, ReaderInv, ListsInv, AnswerInv,
         [SessionNext]_sessionVars
  PROVE  AnswerInv'
<1> SUFFICES ASSUME faults' = 0
             PROVE  (/\ pc = "open" => before = {}
                     /\ pc \notin Alone!Later => before \subseteq Alone!ArgumentsNamed(name)
                     /\ pc \in Alone!Later =>
                          /\ before \subseteq Alone!ToSet(func.arguments)
                          /\ Placed(Alone!ToSet(func.arguments)) \in {{}, AskedFor})'
  BY DEF AnswerInv
<1>0. \A d \in {} : Alone!IsDatabase(d)
  OBVIOUS
<1>1. CASE Reading
  <2>1. Alone!Next /\ UNCHANGED vars
    BY <1>1, ReadingNext
  <2>2. /\ faults = 0 /\ UNCHANGED name /\ (pc # "open" => pc' # "open")
    BY <1>0, <2>1, Alone!FaultsGrow, ReaderAssumption DEF ReaderInv, Reader!Trees, Alone!Trees
  <2>3. Alone!IsDatabase(Committed)
    BY SameDatabase
  <2>4. /\ Alone!ArgumentsNamed(name)' = Alone!ArgumentsNamed(name)
        /\ AskedFor' = AskedFor
    BY <2>1, <2>2 DEF vars, tables, Alone!ArgumentsNamed, Alone!Argument, Committed,
                      AskedFor, Declarations, NamesOf
  <2>5. before' = IF pc = "open" THEN Alone!ArgumentsNamed(name) ELSE before
    BY <1>1, SameQueries DEF Reading
  <2>6. CASE Alone!OpenDatabase
    <3>1. pc = "open" /\ pc' = "check"
      BY <2>6 DEF Alone!OpenDatabase, Alone!Goto
    <3>2. pc' \notin Alone!Later
      BY <3>1 DEF Alone!Later, Alone!Turned
    <3> QED
      BY <2>4, <2>5, <3>1, <3>2
  <2>7. CASE Alone!OpenDatabaseFails
    BY <1>0, <2>2, <2>7, ReaderAssumption DEF Alone!OpenDatabaseFails
  <2>8. CASE Alone!CheckName
    <3>1. pc = "check" /\ before \subseteq Alone!ArgumentsNamed(name) /\ before' = before
      BY <2>2, <2>5, <2>8 DEF Alone!CheckName, AnswerInv, Alone!Later, Alone!Turned
    <3>2. UNCHANGED func /\ func = Alone!NoFunction
      BY <2>8 DEF Alone!CheckName, ReaderInv, Alone!CallInv, Alone!Copied
    <3>3. CASE Alone!FunctionsNamed(name) = << >>
      <4>1. Alone!ArgumentsNamed(name) = {}
        BY <1>0, <2>3, <3>3, Alone!NobodysArguments, ReaderAssumption DEF Reader!Trees, Alone!Trees
      <4>2. pc' = "copy"
        BY <2>2, <2>8, <3>3 DEF Alone!CheckName, Alone!Goto
      <4>3. Alone!ToSet(func'.arguments) = {}
        BY <3>2 DEF Alone!NoFunction, Alone!ToSet
      <4> QED
        BY <3>1, <4>1, <4>2, <4>3 DEF Alone!Later, Placed, Alone!ToSet
    <3>4. CASE Alone!FunctionsNamed(name) # << >>
      <4>1. pc' = "function"
        BY <1>0, <2>2, <2>8, <3>4, ReaderAssumption DEF Alone!CheckName, Alone!Goto
      <4> QED
        BY <2>4, <3>1, <4>1 DEF Alone!Later, Alone!Turned
    <3> QED
      BY <3>3, <3>4
  <2>9. CASE Alone!SelectFunction
    <3>1. pc = "function" /\ pc' = "arguments"
      BY <2>9 DEF Alone!SelectFunction, Alone!Goto
    <3> QED
      BY <2>2, <2>4, <2>5, <3>1 DEF AnswerInv, Alone!Later, Alone!Turned
  <2>10. CASE Alone!SelectArguments
    <3>1. pc = "arguments" /\ pc' = "copy"
      BY <2>10 DEF Alone!SelectArguments, Alone!Goto
    <3>2. Alone!ToSet(func'.arguments) = Alone!ArgumentsNamed(name)
      BY <1>0, <2>2, <2>3, <2>10, Alone!AllArgumentsTaken, ReaderAssumption
      DEF ReaderInv, Reader!Trees, Alone!Trees
    <3>3. before' \subseteq Alone!ArgumentsNamed(name)
      BY <2>2, <2>5, <3>1 DEF AnswerInv, Alone!Later, Alone!Turned
    <3>4. Placed(Alone!ArgumentsNamed(name)) \in {{}, AskedFor}
      BY WholeLists
    <3>5. Placed(Alone!ToSet(func.arguments))' = Placed(Alone!ArgumentsNamed(name))
      BY <3>2 DEF Placed, Alone!ToSet
    <3> QED
      BY <2>4, <3>1, <3>2, <3>3, <3>4, <3>5 DEF Alone!Later, Alone!ToSet
  <2>11. CASE pc \in Alone!Later /\ pc' \in Alone!Later \ {"copy"} /\ UNCHANGED func
    <3>1. pc # "open"
      BY <2>11 DEF Alone!Later, Alone!Turned
    <3> QED
      BY <2>2, <2>4, <2>5, <2>11, <3>1 DEF AnswerInv, Placed, Alone!ToSet
  <2> QED
    BY <1>0, <2>1, <2>6, <2>7, <2>8, <2>9, <2>10, <2>11, Alone!LaterSteps, ReaderAssumption
    DEF Reader!Trees, Alone!Trees
<1>2. CASE UNCHANGED <<call, before>> /\ [Next]_vars
  <2>1. UNCHANGED <<name, pc, func, faults, before>>
    BY <1>2 DEF call
  <2>2. Alone!ArgumentsNamed(name) \subseteq Alone!ArgumentsNamed(name)'
    BY <1>2, <2>1, ArgumentsStay
  <2>3. AskedFor' = AskedFor
    BY <1>2, <2>1, KnownStays DEF AskedFor, Declarations, NamesOf
  <2> QED
    BY <2>1, <2>2, <2>3 DEF AnswerInv, Placed, Alone!ToSet
<1> QED
  BY <1>1, <1>2 DEF SessionNext, Writing, sessionVars

\* Of every type the values of the tables are those of the dictionary, as soon as
\* there is an argument.
DeclaredValues(t) ==
  UNION {Reader!ToSet(dict.types[k].defs) :
           k \in {k \in DOMAIN dict.types : dict.types[k].name = t}}

ValuesDeclared == \A t : Alone!ToSet(Alone!ValueNames(t)) = DeclaredValues(t)

LEMMA ValuesNow == TypeInv /\ AlwaysADatabase /\ AllValues => ValuesDeclared
<1> SUFFICES ASSUME TypeInv, AlwaysADatabase, AllValues, NEW t
             PROVE  Alone!ToSet(Alone!ValueNames(t)) = DeclaredValues(t)
  BY DEF ValuesDeclared
<1>0. \A d \in {} : Alone!IsDatabase(d)
  OBVIOUS
<1> DEFINE V == {r.name : r \in {r \in {values[x] : x \in DOMAIN values} : r.type = t}}
<1>1. Alone!ToSet(Alone!ValueNames(t)) = V
  <2>1. Alone!IsDatabase(Committed)
    BY SameDatabase
  <2>2. Alone!ToSet(Alone!ValueNames(t)) =
          {r.name : r \in {r \in Alone!ToSet(Committed.values) : r.type = t}}
    BY <1>0, <2>1, Alone!ValueNamesAll, ReaderAssumption DEF Reader!Trees, Alone!Trees
  <2> QED
    BY <2>2 DEF Committed, Alone!ToSet
<1>2. ASSUME NEW v \in V PROVE v \in DeclaredValues(t)
  <2>1. PICK x \in DOMAIN values : values[x].type = t /\ v = values[x].name
    OBVIOUS
  <2>2. PICK k \in DOMAIN dict.types :
          /\ values[x].type = dict.types[k].name
          /\ \E m \in DOMAIN dict.types[k].defs : values[x].name = dict.types[k].defs[m]
    BY DEF AllValues, ValuesAre
  <2> QED
    BY <2>1, <2>2 DEF DeclaredValues, Reader!ToSet
<1>3. ASSUME NEW v \in DeclaredValues(t) PROVE v \in V
  <2>1. PICK k \in DOMAIN dict.types :
          dict.types[k].name = t /\ v \in Reader!ToSet(dict.types[k].defs)
    BY DEF DeclaredValues
  <2>2. PICK m \in DOMAIN dict.types[k].defs : v = dict.types[k].defs[m]
    BY <2>1 DEF Reader!ToSet
  <2>3. k < Len(dict.types) + 1
    BY TypePlace
  <2>4. PICK x \in DOMAIN values :
          values[x].type = dict.types[k].name /\ values[x].name = dict.types[k].defs[m]
    BY <2>3 DEF AllValues, ValuesAre
  <2> QED
    BY <2>1, <2>2, <2>4
<1> QED
  BY <1>1, <1>2, <1>3

\* Where an argument has been found, a function has been committed, and so have
\* all values.
LEMMA FoundAfterValues ==
  TypeInv /\ AlwaysADatabase /\ ReaderInv /\ ValuesInv /\ func.arguments # << >>
    => AllValues
<1> SUFFICES ASSUME TypeInv, AlwaysADatabase, ReaderInv, ValuesInv, func.arguments # << >>
             PROVE  AllValues
  OBVIOUS
<1>1. func.arguments \in Seq(Alone!Arguments)
  BY DEF ReaderInv, Alone!CallInv, Alone!Shapes, Alone!Functions
<1>2. 1 \in DOMAIN func.arguments
  BY <1>1
<1>3. func.arguments[1] \in Alone!ArgumentsNamed(name)
  BY <1>2 DEF ReaderInv, Alone!CallInv, Alone!FoundInOrder
<1>4. PICK x \in DOMAIN arguments : functions[arguments[x].func].name = name
  BY <1>3, ArgumentOfRow
<1>5. arguments[x].func \in DOMAIN functions
  BY DEF AlwaysADatabase, Reader!IsDatabase, Reader!ToSet, Committed
<1>6. functions # << >>
  BY <1>5
<1> QED
  BY <1>6 DEF ValuesInv

AliasInv == faults = 0 => Alone!WholeValues

LEMMA AliasNext ==
  ASSUME TypeInv, AlwaysADatabase, ReaderInv, ValuesInv, AliasInv,
         (TypeInv /\ AlwaysADatabase /\ ReaderInv /\ ValuesInv)',
         [SessionNext]_sessionVars
  PROVE  AliasInv'
<1>0. \A d \in {} : Alone!IsDatabase(d)
  OBVIOUS
<1> SUFFICES ASSUME faults' = 0 PROVE Alone!WholeValues'
  BY DEF AliasInv
<1>1. CASE Reading
  <2>1. Alone!Next /\ Alone!IsDatabase(Committed)
    BY <1>1, ReadingNext, SameDatabase
  <2>2. faults = 0
    BY <1>0, <2>1, Alone!FaultsGrow, ReaderAssumption DEF ReaderInv, Reader!Trees, Alone!Trees
  <2> QED
    BY <1>0, <2>1, <2>2, Alone!WholeValuesNext, ReaderAssumption
    DEF AliasInv, ReaderInv, Reader!Trees, Alone!Trees
<1>2. CASE UNCHANGED <<call, before>> /\ [Next]_vars
  <2>1. UNCHANGED <<pc, func, arg, members, result, faults>> /\ dict' = dict
    BY <1>2, KnownStays DEF call
  <2>2. CASE func.arguments = << >>
    <3>1. Len(result.arguments) = 0 /\ pc # "members"
      <4>1. Len(func.arguments) = 0 /\ Len(result.arguments) \in Nat
        BY <2>2 DEF ReaderInv, Alone!CallInv, Alone!Shapes
      <4> QED
        BY <4>1 DEF ReaderInv, Alone!CallInv, Alone!Copied, Alone!Turned
    <3> QED
      BY <2>1, <3>1 DEF Alone!WholeValues
  <2>3. CASE func.arguments # << >>
    <3>1. AllValues /\ AllValues'
      <4>1. AllValues
        BY <2>3, FoundAfterValues
      <4>2. AllValues'
        <5>1. (func.arguments # << >>)'
          BY <2>1, <2>3
        <5> QED
          BY <5>1, FoundAfterValues, PTL
      <4> QED
        BY <4>1, <4>2
    <3>2. ValuesDeclared'
      BY <3>1, ValuesNow, PTL
    <3>3. ASSUME NEW t
          PROVE  Alone!ToSet(Alone!ValueNames(t))' = Alone!ToSet(Alone!ValueNames(t))
      <4>1. DeclaredValues(t)' = DeclaredValues(t)
        BY <2>1 DEF DeclaredValues, Reader!ToSet
      <4>2. Alone!ToSet(Alone!ValueNames(t)) = DeclaredValues(t)
        BY <3>1, ValuesNow DEF ValuesDeclared
      <4> QED
        BY <3>2, <4>1, <4>2 DEF ValuesDeclared
    <3> QED
      BY <2>1, <3>3 DEF AliasInv, Alone!WholeValues, Alone!ValuesOf, Alone!IsInjective
  <2> QED
    BY <2>2, <2>3
<1> QED
  BY <1>1, <1>2 DEF SessionNext, Writing, sessionVars

ReadingInv ==
  /\ TypeInv /\ ReferencesInv /\ FillerInv /\ AlwaysADatabase
  /\ ReaderInv /\ AnswerInv /\ AliasInv

LEMMA ReadingInvHolds == SessionSpec => []ReadingInv
<1>1. SessionInit => AnswerInv /\ AliasInv
  <2> SUFFICES ASSUME SessionInit PROVE AnswerInv /\ AliasInv
    OBVIOUS
  <2>1. /\ before = {} /\ pc = "open" /\ Len(result.arguments) = 0
    BY DEF SessionInit, Reader!CallInit, Reader!QueryInit, Reader!NoFunction
  <2> QED
    BY <2>1 DEF AnswerInv, AliasInv, Alone!WholeValues, Alone!Later, Alone!Turned
<1>2. /\ TypeInv /\ ReferencesInv /\ FillerInv /\ AlwaysADatabase /\ ReaderInv
      /\ (TypeInv /\ ReferencesInv /\ FillerInv /\ AlwaysADatabase /\ ReaderInv)'
      /\ AnswerInv /\ AliasInv /\ [SessionNext]_sessionVars
      => (AnswerInv /\ AliasInv)'
  BY AnswerNext, AliasNext DEF FillerInv
<1>3. SessionSpec => [](AnswerInv /\ AliasInv)
  BY <1>1, <1>2, FillerInvHolds, AlwaysADatabaseHolds, ReaderInvHolds, PTL DEF SessionSpec
<1> QED
  BY <1>3, FillerInvHolds, AlwaysADatabaseHolds, ReaderInvHolds, PTL DEF ReadingInv

\* Where the filler may be, and die, at every moment of an undisturbed call: of the
\* declarations of the name the call returns all the parameters or none, and those
\* that were there when it began.
THEOREM AllOrNothingHolds == SessionSpec => []AllOrNothing
<1>1. ReadingInv => AllOrNothing
  <2> SUFFICES ASSUME ReadingInv, pc = "returned", faults = 0
               PROVE  /\ before \subseteq Answered
                      /\ Placed(Answered) \in {{}, AskedFor}
    BY DEF AllOrNothing, Undisturbed, Placed, AskedFor
  <2>1. /\ Len(result.arguments) = Len(func.arguments)
        /\ \A k \in 1 .. Len(result.arguments) :
             result.arguments[k].of = func.arguments[k]
        /\ result.arguments \in Seq(Alone!Args) /\ func.arguments \in Seq(Alone!Arguments)
    BY DEF ReadingInv, ReaderInv, Alone!CallInv, Alone!Copied, Alone!Shapes, Alone!Functions
  <2>2. Answered = Alone!ToSet(func.arguments)
    <3>1. /\ DOMAIN result.arguments = 1 .. Len(result.arguments)
          /\ DOMAIN func.arguments = 1 .. Len(result.arguments)
      BY <2>1
    <3>2. Answered = {result.arguments[k].of : k \in DOMAIN result.arguments}
      BY DEF Answered, Reader!ToSet
    <3> QED
      BY <2>1, <3>1, <3>2 DEF Alone!ToSet
  <2> QED
    BY <2>2 DEF ReadingInv, AnswerInv, Alone!Later
<1> QED
  BY <1>1, ReadingInvHolds, PTL

\* An argument whose type is an alias never lacks a value of it, nor has one that
\* is declared of another, although its row was committed by one execution and may
\* be read during the next.
THEOREM ValuesBeforeArgumentsHolds == SessionSpec => []ValuesBeforeArguments
<1>1. ReadingInv => ValuesBeforeArguments
  <2> SUFFICES ASSUME ReadingInv, pc = "returned", faults = 0,
                      NEW a \in Reader!ToSet(result.arguments), a.of.kind = "Alias"
               PROVE  Reader!ToSet(a.defVal) = DeclaredValues(a.of.typeName)
    BY DEF ValuesBeforeArguments, Undisturbed, DeclaredValues
  <2>1. /\ result.arguments \in Seq(Alone!Args) /\ func.arguments \in Seq(Alone!Arguments)
        /\ Len(result.arguments) = Len(func.arguments)
    BY DEF ReadingInv, ReaderInv, Alone!CallInv, Alone!Copied, Alone!Shapes, Alone!Functions
  <2>2. PICK k \in 1 .. Len(result.arguments) : a = result.arguments[k]
    <3>1. DOMAIN result.arguments = 1 .. Len(result.arguments)
      BY <2>1
    <3> QED
      BY <3>1 DEF Reader!ToSet
  <2>3. Alone!ToSet(a.defVal) = Alone!ToSet(Alone!ValueNames(a.of.typeName))
    BY <2>2 DEF ReadingInv, AliasInv, Alone!WholeValues, Alone!ValuesOf
  <2>4. func.arguments # << >>
    BY <2>1, <2>2
  <2>5. AllValues
    BY <2>4, FoundAfterValues DEF ReadingInv, FillerInv
  <2>6. Alone!ToSet(Alone!ValueNames(a.of.typeName)) = DeclaredValues(a.of.typeName)
    BY <2>5, ValuesNow DEF ReadingInv, ValuesDeclared
  <2> QED
    BY <2>3, <2>6 DEF Reader!ToSet, Alone!ToSet
<1> QED
  BY <1>1, ReadingInvHolds, PTL

\* Two arguments that the printer would both print in one place are never an
\* accident of the moment at which the tables were read: they come of two
\* declarations of one name, or of the star that a first execution has lost.
THEOREM RivalsExplainedHolds == SessionSpec => []RivalsExplained
<1>1. ReadingInv /\ NeverStale => RivalsExplained
  BY RivalsImplied DEF ReadingInv, FillerInv
<1> QED
  BY <1>1, ReadingInvHolds, NeverStaleHolds, PTL
====
