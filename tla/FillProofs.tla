----------------------------- MODULE FillProofs -----------------------------
(* Theorems about filling_bd.py for every set of dictionaries, with proofs. *)
EXTENDS Fill, SequenceTheorems, WellFoundedInduction, TLAPS

-----------------------------------------------------------------------------
(* The inductive invariant                                                 *)

\* The loop counters stay inside the dictionary.
PositionOK ==
  /\ phase = "fields" /\ j > 0 =>
       i <= Len(dict.types) /\ j <= Len(dict.types[i].fields)
  /\ phase = "functions" => j = 0
  /\ phase = "arguments" /\ j > 0 =>
       i <= Len(dict.functions) /\ j <= Len(dict.functions[i].params)

\* new_types_list holds starred names only.
NewTypesOK == \A n \in newTypes : n.stars > 0

\* A second search can only fail inside one of the three loops.
MissingOK ==
  missing => /\ phase \in {"fields", "functions", "arguments"}
             /\ phase = "fields" => j > 0
             /\ phase = "functions" => i <= Len(dict.functions)
             /\ phase = "arguments" => j > 0

\* When it does, the pointer types on the way are there already.
WantedOK == missing /\ Wanted.stars > 0 => Wanted \in DOMAIN types

TypeInv == TypeOK /\ PositionOK /\ NewTypesOK /\ MissingOK /\ WantedOK

-----------------------------------------------------------------------------
(* The dictionary                                                          *)

\* The dictionary is one, and the counters are numbers.
LEMMA DictType ==
  ASSUME TypeOK
  PROVE  /\ dict.types \in Seq(TypeEntry)
         /\ dict.functions \in Seq(FunctionEntry)
         /\ i \in Nat /\ i > 0 /\ j \in Nat
BY DictsAssumption DEF TypeOK, Dictionaries

\* The elements of a sequence over S are in S.
LEMMA SeqElement ==
  ASSUME NEW S, NEW s \in Seq(S)
  PROVE  Len(s) \in Nat /\ \A k \in 1 .. Len(s) : s[k] \in S
OBVIOUS

\* The entry of the types the loop of lines 30-72 stands at, and its field.
LEMMA EntryType ==
  ASSUME TypeOK, i <= Len(dict.types)
  PROVE  /\ dict.types[i] \in TypeEntry
         /\ Len(dict.types[i].fields) \in Nat
         /\ j > 0 /\ j <= Len(dict.types[i].fields) =>
              /\ dict.types[i].fields[j].type \in Names
              /\ dict.types[i].fields[j].name \in Texts
<1>1. dict.types[i] \in TypeEntry
  BY DictType, SeqElement
<1>2. dict.types[i].fields \in Seq(Params)
  BY <1>1 DEF TypeEntry
<1>3. j > 0 /\ j <= Len(dict.types[i].fields) =>
        dict.types[i].fields[j] \in Params
  BY <1>2, DictType, SeqElement
<1> QED
  BY <1>1, <1>2, <1>3, SeqElement DEF Params

\* The function the loops of lines 99 and 146 stand at, and its parameter.
LEMMA FunctionType ==
  ASSUME TypeOK, i <= Len(dict.functions)
  PROVE  /\ dict.functions[i] \in FunctionEntry
         /\ dict.functions[i].ret \in Names
         /\ Len(dict.functions[i].params) \in Nat
         /\ j > 0 /\ j <= Len(dict.functions[i].params) =>
              /\ dict.functions[i].params[j].type \in Names
              /\ dict.functions[i].params[j].name \in Texts
<1>1. dict.functions[i] \in FunctionEntry
  BY DictType, SeqElement
<1>2. /\ dict.functions[i].ret \in Names
      /\ dict.functions[i].params \in Seq(Params)
  BY <1>1 DEF FunctionEntry
<1>3. j > 0 /\ j <= Len(dict.functions[i].params) =>
        dict.functions[i].params[j] \in Params
  BY <1>2, DictType, SeqElement
<1> QED
  BY <1>1, <1>2, <1>3, SeqElement DEF Params

-----------------------------------------------------------------------------
(* Types                                                                   *)

\* INSERT OR IGNORE adds the names of the batch and keeps every row.
LEMMA MergeType ==
  ASSUME NEW table, NEW batch, TypeTable(table), TypeTable(batch)
  PROVE  /\ TypeTable(Merge(table, batch))
         /\ DOMAIN Merge(table, batch) = DOMAIN table \cup DOMAIN batch
         /\ \A n \in DOMAIN table : Merge(table, batch)[n] = table[n]
BY DEF TypeTable, Merge

\* The name without its stars is a name, and its own when there are none.
LEMMA RootType ==
  ASSUME NEW n \in Names
  PROVE  /\ Root(n) \in Names
         /\ Root(n).stars = 0
         /\ n.stars = 0 => Root(n) = n
         /\ n.stars \in Nat
BY DEF Names, Root

\* The names met while stars are stripped are starred; the name is one.
LEMMA StarredType ==
  ASSUME NEW n \in Names
  PROVE  /\ Starred(n) \subseteq Names
         /\ \A m \in Starred(n) : m.stars > 0
         /\ n.stars > 0 => n \in Starred(n)
<1>1. \A k \in Nat : [n EXCEPT !.stars = k] \in Names
  BY DEF Names
<1>2. \A k \in Nat : [n EXCEPT !.stars = k].stars = k
  BY DEF Names
<1>3. n.stars \in Nat /\ n = [n EXCEPT !.stars = n.stars]
  BY DEF Names
<1> QED
  BY <1>1, <1>2, <1>3 DEF Starred

\* The rows made for pointer types belong to Types, one for each name.
LEMMA PointerRowsType ==
  ASSUME NEW S, S \subseteq Names, \A n \in S : n.stars > 0
  PROVE  TypeTable(PointerRows(S)) /\ DOMAIN PointerRows(S) = S
<1> DEFINE row(n) == [kind |-> "Pointer",
                      base |-> [n EXCEPT !.stars = n.stars - 1]]
<1>1. ASSUME NEW n \in S
      PROVE  row(n) \in TypeRows
  <2>1. [n EXCEPT !.stars = n.stars - 1] \in Names
    BY DEF Names
  <2> QED
    BY <2>1, TextsAssumption DEF TypeRows, row
<1>2. PointerRows(S) = [n \in S |-> row(n)]
  BY DEF PointerRows, row
<1> HIDE DEF row
<1> QED
  BY <1>1, <1>2 DEF TypeTable

\* The row of line 68 belongs to Types.
LEMMA UnknownRowType ==
  ASSUME NEW n \in Names
  PROVE  TypeTable(UnknownRow(n)) /\ DOMAIN UnknownRow(n) = {n}
<1> DEFINE row == [kind |-> "Unknown", base |-> NONE]
<1>1. row \in TypeRows
  BY TextsAssumption DEF TypeRows, row
<1>2. UnknownRow(n) = [m \in {n} |-> row]
  BY DEF UnknownRow, row
<1> HIDE DEF row
<1> QED
  BY <1>1, <1>2 DEF TypeTable

-----------------------------------------------------------------------------
(* One search                                                              *)

\* A search that fails inserts the pointer types it met (lines 59-63).
LEMMA StripFacts ==
  ASSUME TypeOK, NewTypesOK, NEW n \in Names, Strip(n)
  PROVE  /\ TypeTable(types')
         /\ DOMAIN types' = DOMAIN types \cup newTypes'
         /\ newTypes' \subseteq Names /\ NewTypesOK'
         /\ n \notin DOMAIN types /\ missing = FALSE
         /\ n.stars > 0 => n \in newTypes'
<1>1. newTypes' = newTypes \cup Starred(n)
  BY DEF Strip
<1>2. newTypes' \subseteq Names /\ NewTypesOK'
  BY <1>1, StarredType DEF TypeOK, NewTypesOK
<1>3. TypeTable(PointerRows(newTypes')) /\ DOMAIN PointerRows(newTypes') = newTypes'
  BY <1>2, PointerRowsType DEF NewTypesOK
<1>4. TypeTable(types') /\ DOMAIN types' = DOMAIN types \cup newTypes'
  BY <1>3, MergeType DEF TypeOK, Strip
<1>5. n \notin DOMAIN types /\ missing = FALSE
  BY DEF Strip, TypeOK
<1> QED
  BY <1>1, <1>2, <1>4, <1>5, StarredType

\* When a search ends, both the name and the type recorded for it are in Types,
\* from which nothing has gone.
LEMMA ResolveFacts ==
  ASSUME TypeOK, NewTypesOK, NEW n \in Names, NEW t, Resolve(n, t),
         missing /\ n.stars > 0 => n \in DOMAIN types
  PROVE  /\ TypeTable(types') /\ DOMAIN types \subseteq DOMAIN types'
         /\ newTypes' \subseteq Names /\ NewTypesOK'
         /\ missing' = FALSE
         /\ t \in DOMAIN types' /\ n \in DOMAIN types'
<1>1. CASE ~missing /\ n \in DOMAIN types /\ t = n
           /\ UNCHANGED <<types, newTypes, missing>>
  BY <1>1 DEF TypeOK, NewTypesOK
<1>2. CASE Strip(n) /\ Root(n) \in DOMAIN types' /\ t = Root(n)
           /\ UNCHANGED missing
  <2>1. /\ TypeTable(types') /\ DOMAIN types' = DOMAIN types \cup newTypes'
        /\ newTypes' \subseteq Names /\ NewTypesOK'
        /\ n \notin DOMAIN types /\ missing = FALSE
        /\ n.stars > 0 => n \in newTypes'
    BY <1>2, StripFacts
  <2>2. n.stars = 0 => n \in newTypes'
    BY <1>2, <2>1, RootType
  <2>3. n \in newTypes'
    BY <2>1, <2>2, RootType
  <2> QED
    BY <1>2, <2>1, <2>3
<1>3. CASE missing /\ t = Root(n)
           /\ types' = Merge(types, UnknownRow(Root(n)))
           /\ missing' = FALSE
           /\ UNCHANGED newTypes
  <2>1. TypeTable(types') /\ DOMAIN types' = DOMAIN types \cup {Root(n)}
    <3>1. TypeTable(types)
      BY DEF TypeOK
    <3>2. TypeTable(UnknownRow(Root(n))) /\ DOMAIN UnknownRow(Root(n)) = {Root(n)}
      BY RootType, UnknownRowType
    <3> QED
      BY <1>3, <3>1, <3>2, MergeType
  <2>2. n \in DOMAIN types'
    BY <1>3, <2>1, RootType
  <2>3. newTypes' \subseteq Names /\ NewTypesOK'
    BY <1>3 DEF TypeOK, NewTypesOK
  <2> QED
    BY <1>3, <2>1, <2>2, <2>3
<1> QED
  BY <1>1, <1>2, <1>3 DEF Resolve

\* The loops advance to the next element, or to the next entry after the last.
LEMMA AdvanceFacts ==
  ASSUME i \in Nat, i > 0, j \in Nat, NEW len \in Nat, Advance(len)
  PROVE  /\ i' \in Nat /\ i' > 0 /\ j' \in Nat
         /\ \/ i' = i /\ j' = j + 1 /\ j' <= len
            \/ i' = i + 1 /\ j' = 0 /\ len <= j
BY DEF Advance

\* What one step of a search changes.
LEMMA ResolveRowFacts ==
  ASSUME TypeOK, NewTypesOK, NEW n \in Names, NEW len, NEW row,
         ResolveRow(n, len, row),
         missing /\ n.stars > 0 => n \in DOMAIN types
  PROVE  /\ TypeTable(types') /\ DOMAIN types \subseteq DOMAIN types'
         /\ newTypes' \subseteq Names /\ NewTypesOK'
         /\ n.stars > 0 => n \in DOMAIN types'
         /\ \/ /\ missing' = TRUE
               /\ UNCHANGED <<rows, i, j>>
            \/ /\ missing' = FALSE
               /\ n \in DOMAIN types'
               /\ Advance(len)
               /\ \E t \in {n, Root(n)} : /\ t \in DOMAIN types'
                                          /\ rows' = rows \o row[t]
<1>1. CASE Strand(n) /\ UNCHANGED <<rows, i, j>>
  BY <1>1, StripFacts DEF Strand
<1>2. ASSUME NEW t \in {n, Root(n)}, Resolve(n, t),
             rows' = rows \o row[t], Advance(len)
      PROVE  /\ TypeTable(types') /\ DOMAIN types \subseteq DOMAIN types'
             /\ newTypes' \subseteq Names /\ NewTypesOK'
             /\ missing' = FALSE /\ n \in DOMAIN types' /\ t \in DOMAIN types'
  BY <1>2, ResolveFacts
<1> QED
  BY <1>1, <1>2 DEF ResolveRow

-----------------------------------------------------------------------------
(* Type correctness                                                        *)

\* A set of numbers that is not empty has a least one (fetchone of line 149).
LEMMA MinFacts ==
  ASSUME NEW S, S \subseteq Nat, S # {}
  PROVE  Min(S) \in S /\ \A k \in S : Min(S) <= k
<1> DEFINE less == OpToRel(<, Nat)
<1>1. IsWellFoundedOn(less, Nat)
  BY NatLessThanWellFounded
<1>2. \A x, y \in Nat : y < x => <<y, x>> \in less
  BY DEF OpToRel
<1> HIDE DEF less
<1>3. PICK x \in S : \A y \in S : <<y, x>> \notin less
  BY <1>1, WFMin
<1>4. \A y \in S : x <= y
  <2> SUFFICES ASSUME NEW y \in S PROVE x <= y
    OBVIOUS
  <2>1. ~ (y < x)
    BY <1>2, <1>3
  <2> QED
    BY <2>1
<1> QED
  BY <1>3, <1>4 DEF Min

\* The batch of the declared types is made of entries of the dictionary.
LEMMA DeclaredType ==
  ASSUME TypeOK
  PROVE  /\ TypeTable(Declared)
         /\ DOMAIN Declared = {dict.types[k].name : k \in DOMAIN dict.types}
<1> DEFINE D == DOMAIN dict.types
           names == {dict.types[k].name : k \in D}
           first(n) == Min({k \in D : dict.types[k].name = n})
           row(n) == [kind |-> dict.types[first(n)].kind,
                      base |-> dict.types[first(n)].base]
<1>1. D \subseteq Nat /\ \A k \in D : dict.types[k] \in TypeEntry
  BY DictType, SeqElement
<1>2. \A k \in D : dict.types[k].name \in Names /\ dict.types[k].kind \in Texts
                   /\ dict.types[k].base \in Names \cup {NONE}
  BY <1>1 DEF TypeEntry
<1>3. ASSUME NEW n \in names
      PROVE  first(n) \in D
  <2>1. {k \in D : dict.types[k].name = n} # {}
    OBVIOUS
  <2>2. {k \in D : dict.types[k].name = n} \subseteq Nat
    BY <1>1
  <2> QED
    BY <2>1, <2>2, MinFacts
<1>4. ASSUME NEW n \in names
      PROVE  row(n) \in TypeRows
  BY <1>2, <1>3 DEF TypeRows
<1>5. Declared = [n \in names |-> row(n)]
  BY DEF Declared
<1>6. names \subseteq Names
  BY <1>2
<1> HIDE DEF names, row
<1>7. TypeTable(Declared) /\ DOMAIN Declared = names
  BY <1>4, <1>5, <1>6 DEF TypeTable
<1> QED
  BY <1>7 DEF names

\* Where a loop starts, its lists and counters are what it expects.
LEMMA EnterType ==
  ASSUME NEW p \in Phases, Enter(p), missing' = FALSE
  PROVE  /\ phase' \in Phases
         /\ i' \in Nat \ {0} /\ j' \in Nat
         /\ newTypes' \subseteq Names
         /\ phase' = "fields" => rows' \in Seq(Rows)
         /\ phase' = "functions" => rows' \in Seq(FunctionRows)
         /\ phase' = "arguments" => rows' \in Seq(ArgumentRows)
         /\ valuesList' \in Seq(ValueRows)
         /\ PositionOK' /\ NewTypesOK' /\ MissingOK' /\ WantedOK'
BY DEF Enter, PositionOK, NewTypesOK, MissingOK, WantedOK

\* The empty database, and a script that has not run, satisfy the invariant.
LEMMA TypeInit == Init => TypeInv
<1> SUFFICES ASSUME Init PROVE TypeInv
  OBVIOUS
<1>1. TypeTable(types)
  BY DEF Init, TypeTable
<1>2. runs \in 0 .. MaxRuns
  BY RunsAssumption DEF Init
<1>3. TypeOK
  <2>1. /\ functions \in Seq(FunctionRows) /\ arguments \in Seq(ArgumentRows)
        /\ values \in Seq(ValueRows) /\ fields \in Seq(Rows)
        /\ valuesList \in Seq(ValueRows)
    BY DEF Init
  <2>2. apis \subseteq Texts /\ dlls \subseteq Texts /\ newTypes \subseteq Names
    BY DEF Init
  <2>3. /\ phase # "fields" /\ phase # "functions" /\ phase # "arguments"
        /\ phase \in Phases
        /\ i \in Nat \ {0} /\ j \in Nat
        /\ dict \in Dicts
    BY DEF Init, Phases
  <2>4. missing \in BOOLEAN
    BY DEF Init
  <2> QED
    BY <1>1, <1>2, <2>1, <2>2, <2>3, <2>4, Zenon DEF TypeOK
<1>4. PositionOK /\ NewTypesOK /\ MissingOK /\ WantedOK
  BY DEF Init, PositionOK, NewTypesOK, MissingOK, WantedOK
<1> QED
  BY <1>3, <1>4 DEF TypeInv

\* Starting the script (lines 4-8) preserves the type invariant.
LEMMA TypeRunScript ==
  ASSUME TypeInv, RunScript
  PROVE  TypeInv'
<1>1. missing = FALSE
  BY DEF TypeInv, TypeOK, MissingOK, RunScript
<1>2. Enter("types") /\ missing' = FALSE /\ "types" \in Phases
  BY <1>1 DEF RunScript, Phases
<1>3. runs' \in 0 .. MaxRuns
  <2>1. runs \in 0 .. MaxRuns /\ runs < MaxRuns /\ runs' = runs + 1
    BY DEF TypeInv, TypeOK, RunScript
  <2> QED
    BY <2>1, RunsAssumption
<1>4. TypeOK'
  BY <1>2, <1>3, EnterType DEF TypeInv, TypeOK, RunScript, tables
<1> QED
  BY <1>2, <1>4, EnterType DEF TypeInv

\* The batch of declared types (lines 10-29) preserves the type invariant.
LEMMA TypeInsertTypes ==
  ASSUME TypeInv, InsertTypes
  PROVE  TypeInv'
<1>1. missing = FALSE
  BY DEF TypeInv, TypeOK, MissingOK, InsertTypes
<1>2. Enter("fields") /\ missing' = FALSE /\ "fields" \in Phases
  BY <1>1 DEF InsertTypes, Phases
<1>3. TypeTable(types')
  BY MergeType, DeclaredType DEF InsertTypes, TypeInv, TypeOK
<1>4. TypeOK'
  BY <1>2, <1>3, EnterType DEF TypeInv, TypeOK, InsertTypes
<1> QED
  BY <1>2, <1>4, EnterType DEF TypeInv

\* The head of the loop over types (lines 30-49) preserves it.
LEMMA TypeVisitType ==
  ASSUME TypeInv, VisitType
  PROVE  TypeInv'
<1> DEFINE e == dict.types[i]
           new == [k \in 1 .. Len(e.defs) |->
                     [name |-> e.defs[k], type |-> e.name]]
<1>1. e \in TypeEntry /\ Len(e.fields) \in Nat
  BY EntryType DEF TypeInv, VisitType
<1>2. new \in Seq(ValueRows)
  <2>1. e.defs \in Seq(Texts) /\ e.name \in Names
    BY <1>1 DEF TypeEntry
  <2>2. \A k \in 1 .. Len(e.defs) : e.defs[k] \in Texts
    BY <2>1, SeqElement
  <2>3. \A k \in 1 .. Len(e.defs) : 
          [name |-> e.defs[k], type |-> e.name] \in ValueRows
    BY <2>1, <2>2 DEF ValueRows
  <2>4. Len(e.defs) \in Nat
    BY <2>1, SeqElement
  <2> QED
    BY <2>3, <2>4
<1> HIDE DEF new
<1>3. valuesList' \in Seq(ValueRows)
  BY <1>2, ConcatProperties DEF VisitType, TypeInv, TypeOK, new
<1>4. Advance(Len(e.fields)) /\ phase = "fields" /\ j = 0 /\ i <= Len(dict.types)
  BY DEF VisitType
<1>5. /\ i' \in Nat /\ i' > 0 /\ j' \in Nat
      /\ \/ i' = i /\ j' = j + 1 /\ j' <= Len(e.fields)
         \/ i' = i + 1 /\ j' = 0
  BY <1>1, <1>4, AdvanceFacts, DictType DEF TypeInv
<1>6. missing = FALSE
  BY <1>4 DEF TypeInv, TypeOK, MissingOK
<1>7. TypeOK'
  BY <1>3, <1>5 DEF TypeInv, TypeOK, VisitType, tables
<1>8. PositionOK' /\ NewTypesOK' /\ MissingOK' /\ WantedOK'
  BY <1>4, <1>5, <1>6
  DEF TypeInv, VisitType, PositionOK, NewTypesOK, MissingOK, WantedOK
<1> QED
  BY <1>7, <1>8 DEF TypeInv

\* A step of the search for a field's type (lines 54-72) preserves it.
LEMMA TypeResolveField ==
  ASSUME TypeInv, ResolveField
  PROVE  TypeInv'
<1> DEFINE e == dict.types[i]
           f == e.fields[j]
           row == [t \in {f.type, Root(f.type)} |->
                    IF e.name \in DOMAIN types
                    THEN <<[name |-> FieldName(f.name), order |-> j - 1,
                            struct |-> e.name, type |-> t]>>
                    ELSE << >>]
<1>1. phase = "fields" /\ j > 0 /\ i <= Len(dict.types) /\ j <= Len(e.fields)
  BY DEF TypeInv, PositionOK, ResolveField
<1>2. /\ e.name \in Names /\ Len(e.fields) \in Nat
      /\ f.type \in Names /\ f.name \in Texts
  BY <1>1, EntryType DEF TypeInv, TypeEntry
<1>3. Wanted = f.type
  BY <1>1 DEF Wanted
<1>4. ResolveRow(f.type, Len(e.fields), row)
  BY DEF ResolveField
<1>5. \A t \in {f.type, Root(f.type)} : row[t] \in Seq(Rows)
  <2> SUFFICES ASSUME NEW t \in {f.type, Root(f.type)}
               PROVE  row[t] \in Seq(Rows)
    OBVIOUS
  <2>1. t \in Names
    BY <1>2, RootType
  <2>2. j - 1 \in Nat
    BY <1>1, DictType DEF TypeInv
  <2>3. FieldName(f.name) \in Texts
    BY <1>2, TextsAssumption DEF FieldName
  <2>4. [name |-> FieldName(f.name), order |-> j - 1, struct |-> e.name,
         type |-> t] \in Rows
    BY <1>2, <2>1, <2>2, <2>3 DEF Rows
  <2> QED
    BY <2>4
<1> HIDE DEF e, f, row
<1>6. /\ TypeTable(types')
      /\ newTypes' \subseteq Names /\ NewTypesOK'
      /\ f.type.stars > 0 => f.type \in DOMAIN types'
      /\ \/ missing' = TRUE /\ UNCHANGED <<rows, i, j>>
         \/ /\ missing' = FALSE /\ Advance(Len(e.fields))
            /\ \E t \in {f.type, Root(f.type)} : rows' = rows \o row[t]
  BY <1>2, <1>3, <1>4, ResolveRowFacts DEF TypeInv, WantedOK
<1>7. /\ UNCHANGED <<dict, apis, dlls, functions, arguments, values, fields,
                     phase, valuesList, runs>>
  BY DEF ResolveField
<1>8. CASE missing' = TRUE /\ UNCHANGED <<rows, i, j>>
  <2>1. TypeOK'
    BY <1>6, <1>7, <1>8 DEF TypeInv, TypeOK
  <2>2. PositionOK' /\ MissingOK'
    BY <1>1, <1>7, <1>8 DEF TypeInv, PositionOK, MissingOK
  <2>3. WantedOK'
    BY <1>3, <1>6, <1>7, <1>8 DEF WantedOK, Wanted
  <2> QED
    BY <1>6, <2>1, <2>2, <2>3 DEF TypeInv
<1>9. CASE /\ missing' = FALSE /\ Advance(Len(e.fields))
           /\ \E t \in {f.type, Root(f.type)} : rows' = rows \o row[t]
  <2>1. rows' \in Seq(Rows)
    BY <1>1, <1>5, <1>9, ConcatProperties DEF TypeInv, TypeOK
  <2>2. /\ i' \in Nat /\ i' > 0 /\ j' \in Nat
        /\ \/ i' = i /\ j' = j + 1 /\ j' <= Len(e.fields)
           \/ i' = i + 1 /\ j' = 0
    BY <1>2, <1>9, AdvanceFacts, DictType DEF TypeInv
  <2>3. TypeOK'
    <3>1. missing' \in BOOLEAN
      BY <1>9
    <3> QED
      BY <1>1, <1>6, <1>7, <2>1, <2>2, <3>1 DEF TypeInv, TypeOK
  <2>4. PositionOK' /\ MissingOK' /\ WantedOK'
    BY <1>1, <1>7, <1>9, <2>2
    DEF TypeInv, PositionOK, MissingOK, WantedOK, e
  <2> QED
    BY <1>6, <2>3, <2>4 DEF TypeInv
<1> QED
  BY <1>6, <1>8, <1>9

\* The commit of values and fields (lines 73-75) preserves it.
LEMMA TypeInsertFields ==
  ASSUME TypeInv, InsertFields
  PROVE  TypeInv'
<1>1. missing = FALSE
  <2>1. phase = "fields" /\ i > Len(dict.types)
    BY DEF InsertFields
  <2>2. ~ (j > 0)
    BY <2>1, DictType, SeqElement DEF TypeInv, PositionOK
  <2> QED
    BY <2>1, <2>2 DEF TypeInv, TypeOK, MissingOK
<1>2. Enter("catalog") /\ missing' = FALSE /\ "catalog" \in Phases
  BY <1>1 DEF InsertFields, Phases
<1>3. values' \in Seq(ValueRows) /\ fields' \in Seq(Rows)
  BY ConcatProperties DEF InsertFields, TypeInv, TypeOK
<1>4. TypeOK'
  BY <1>2, <1>3, EnterType DEF TypeInv, TypeOK, InsertFields
<1> QED
  BY <1>2, <1>4, EnterType DEF TypeInv

\* The commit of categories and DLLs (lines 77-93) preserves it.
LEMMA TypeInsertCatalog ==
  ASSUME TypeInv, InsertCatalog
  PROVE  TypeInv'
<1>1. missing = FALSE
  BY DEF TypeInv, TypeOK, MissingOK, InsertCatalog
<1>2. Enter("functions") /\ missing' = FALSE /\ "functions" \in Phases
  BY <1>1 DEF InsertCatalog, Phases
<1>3. \A k \in DOMAIN dict.functions : /\ dict.functions[k].dll \in Texts
                                       /\ dict.functions[k].category \in Texts
  <2>1. \A k \in DOMAIN dict.functions : dict.functions[k] \in FunctionEntry
    BY DictType, SeqElement DEF TypeInv
  <2> QED
    BY <2>1 DEF FunctionEntry
<1>4. apis' \subseteq Texts /\ dlls' \subseteq Texts
  BY <1>3 DEF InsertCatalog, TypeInv, TypeOK
<1>5. TypeOK'
  BY <1>2, <1>4, EnterType DEF TypeInv, TypeOK, InsertCatalog
<1> QED
  BY <1>2, <1>5, EnterType DEF TypeInv

\* A step of the search for a return type (lines 99-138) preserves it.
LEMMA TypeResolveFunction ==
  ASSUME TypeInv, ResolveFunction
  PROVE  TypeInv'
<1> DEFINE e == dict.functions[i]
           row == [t \in {e.ret, Root(e.ret)} |->
                    <<[name |-> e.name, api |-> NameOrNone(e.category, apis),
                       dll |-> NameOrNone(e.dll, dlls), ret |-> t]>>]
<1>1. phase = "functions" /\ j = 0 /\ i <= Len(dict.functions)
  BY DEF TypeInv, PositionOK, ResolveFunction
<1>2. e.name \in Texts /\ e.ret \in Names
  BY <1>1, FunctionType DEF TypeInv, FunctionEntry
<1>3. Wanted = e.ret
  BY <1>1 DEF Wanted
<1>4. ResolveRow(e.ret, 0, row)
  BY DEF ResolveFunction
<1>5. \A t \in {e.ret, Root(e.ret)} : row[t] \in Seq(FunctionRows)
  <2> SUFFICES ASSUME NEW t \in {e.ret, Root(e.ret)}
               PROVE  row[t] \in Seq(FunctionRows)
    OBVIOUS
  <2>1. /\ NameOrNone(e.category, apis) \in Texts \cup {NONE}
        /\ NameOrNone(e.dll, dlls) \in Texts \cup {NONE}
    BY DEF NameOrNone, TypeInv, TypeOK
  <2>2. t \in Names
    BY <1>2, RootType
  <2>3. [name |-> e.name, api |-> NameOrNone(e.category, apis),
         dll |-> NameOrNone(e.dll, dlls), ret |-> t] \in FunctionRows
    BY <1>2, <2>1, <2>2 DEF FunctionRows
  <2> QED
    BY <2>3
<1> HIDE DEF e, row
<1>6. /\ TypeTable(types')
      /\ newTypes' \subseteq Names /\ NewTypesOK'
      /\ e.ret.stars > 0 => e.ret \in DOMAIN types'
      /\ \/ missing' = TRUE /\ UNCHANGED <<rows, i, j>>
         \/ /\ missing' = FALSE /\ Advance(0)
            /\ \E t \in {e.ret, Root(e.ret)} : rows' = rows \o row[t]
  BY <1>2, <1>3, <1>4, ResolveRowFacts DEF TypeInv, WantedOK
<1>7. UNCHANGED <<dict, apis, dlls, functions, arguments, values, fields,
                  phase, valuesList, runs>>
  BY DEF ResolveFunction
<1>8. CASE missing' = TRUE /\ UNCHANGED <<rows, i, j>>
  <2>1. TypeOK'
    BY <1>6, <1>7, <1>8 DEF TypeInv, TypeOK
  <2>2. PositionOK' /\ MissingOK'
    BY <1>1, <1>7, <1>8 DEF TypeInv, PositionOK, MissingOK
  <2>3. WantedOK'
    BY <1>3, <1>6, <1>7, <1>8 DEF WantedOK, Wanted
  <2> QED
    BY <1>6, <2>1, <2>2, <2>3 DEF TypeInv
<1>9. CASE /\ missing' = FALSE /\ Advance(0)
           /\ \E t \in {e.ret, Root(e.ret)} : rows' = rows \o row[t]
  <2>1. rows' \in Seq(FunctionRows)
    BY <1>1, <1>5, <1>9, ConcatProperties DEF TypeInv, TypeOK
  <2>2. i' \in Nat /\ i' > 0 /\ j' = 0
    BY <1>1, <1>9, AdvanceFacts, DictType DEF TypeInv
  <2>3. TypeOK'
    <3>1. missing' \in BOOLEAN
      BY <1>9
    <3> QED
      BY <1>1, <1>6, <1>7, <2>1, <2>2, <3>1 DEF TypeInv, TypeOK
  <2>4. PositionOK' /\ MissingOK' /\ WantedOK'
    BY <1>1, <1>7, <1>9, <2>2 DEF TypeInv, PositionOK, MissingOK, WantedOK
  <2> QED
    BY <1>6, <2>3, <2>4 DEF TypeInv
<1> QED
  BY <1>6, <1>8, <1>9

\* The commit of the functions (lines 139-140) preserves it.
LEMMA TypeInsertFunctions ==
  ASSUME TypeInv, InsertFunctions
  PROVE  TypeInv'
<1>1. missing = FALSE
  <2>1. phase = "functions" /\ ~ (i <= Len(dict.functions))
    BY DictType, SeqElement DEF InsertFunctions, TypeInv
  <2> QED
    BY <2>1 DEF TypeInv, TypeOK, MissingOK
<1>2. Enter("arguments") /\ missing' = FALSE /\ "arguments" \in Phases
  BY <1>1 DEF InsertFunctions, Phases
<1>3. functions' \in Seq(FunctionRows)
  BY ConcatProperties DEF InsertFunctions, TypeInv, TypeOK
<1>4. TypeOK'
  BY <1>2, <1>3, EnterType DEF TypeInv, TypeOK, InsertFunctions
<1> QED
  BY <1>2, <1>4, EnterType DEF TypeInv

\* The head of the loop over arguments (lines 146-158) preserves it.
LEMMA TypeVisitFunction ==
  ASSUME TypeInv, VisitFunction
  PROVE  TypeInv'
<1> DEFINE e == dict.functions[i]
<1>1. /\ Advance(Len(e.params)) /\ phase = "arguments" /\ j = 0
      /\ i <= Len(dict.functions)
  BY DEF VisitFunction
<1>2. Len(e.params) \in Nat
  BY <1>1, FunctionType DEF TypeInv
<1>3. /\ i' \in Nat /\ i' > 0 /\ j' \in Nat
      /\ \/ i' = i /\ j' = j + 1 /\ j' <= Len(e.params)
         \/ i' = i + 1 /\ j' = 0
  BY <1>1, <1>2, AdvanceFacts, DictType DEF TypeInv
<1>4. missing = FALSE
  BY <1>1 DEF TypeInv, TypeOK, MissingOK
<1>5. TypeOK'
  BY <1>3 DEF TypeInv, TypeOK, VisitFunction, tables
<1>6. PositionOK' /\ NewTypesOK' /\ MissingOK' /\ WantedOK'
  BY <1>1, <1>3, <1>4
  DEF TypeInv, VisitFunction, PositionOK, NewTypesOK, MissingOK, WantedOK
<1> QED
  BY <1>5, <1>6 DEF TypeInv

\* The answer to SELECT func_id is the first row of that name.
LEMMA FirstFunctionFacts ==
  ASSUME TypeOK, NEW name, FunctionsNamed(name) # {}
  PROVE  /\ FirstFunction(name) \in 1 .. Len(functions)
         /\ functions[FirstFunction(name)].name = name
         /\ \A m \in 1 .. FirstFunction(name) - 1 : functions[m].name # name
<1>1. Len(functions) \in Nat
  BY SeqElement DEF TypeOK
<1>2. FunctionsNamed(name) \subseteq 1 .. Len(functions)
  BY DEF FunctionsNamed
<1>3. FunctionsNamed(name) \subseteq Nat
  BY <1>1, <1>2
<1>4. /\ FirstFunction(name) \in FunctionsNamed(name)
      /\ \A k \in FunctionsNamed(name) : FirstFunction(name) <= k
  BY <1>3, MinFacts DEF FirstFunction
<1>5. FirstFunction(name) \in 1 .. Len(functions)
  BY <1>2, <1>4
<1>6. ASSUME NEW m \in 1 .. FirstFunction(name) - 1
      PROVE  functions[m].name # name
  <2>1. m \in 1 .. Len(functions) /\ ~ (FirstFunction(name) <= m)
    BY <1>1, <1>5
  <2>2. m \notin FunctionsNamed(name)
    BY <1>4, <2>1
  <2> QED
    BY <2>1, <2>2 DEF FunctionsNamed
<1> QED
  BY <1>4, <1>5, <1>6 DEF FunctionsNamed

\* A step of the search for an argument's type (lines 155-179) preserves it.
LEMMA TypeResolveArgument ==
  ASSUME TypeInv, ResolveArgument
  PROVE  TypeInv'
<1> DEFINE e == dict.functions[i]
           a == e.params[j]
           row == [t \in {a.type, Root(a.type)} |->
                    IF FunctionsNamed(e.name) # {}
                    THEN <<[name |-> a.name, order |-> j - 1,
                            func |-> FirstFunction(e.name), type |-> t]>>
                    ELSE << >>]
<1>1. /\ phase = "arguments" /\ j > 0
      /\ i <= Len(dict.functions) /\ j <= Len(e.params)
  BY DEF TypeInv, PositionOK, ResolveArgument
<1>2. Len(e.params) \in Nat /\ a.type \in Names /\ a.name \in Texts
  BY <1>1, FunctionType DEF TypeInv
<1>3. Wanted = a.type
  BY <1>1 DEF Wanted
<1>4. ResolveRow(a.type, Len(e.params), row)
  BY DEF ResolveArgument
<1>5. \A t \in {a.type, Root(a.type)} : row[t] \in Seq(ArgumentRows)
  <2> SUFFICES ASSUME NEW t \in {a.type, Root(a.type)},
                      FunctionsNamed(e.name) # {}
               PROVE  row[t] \in Seq(ArgumentRows)
    OBVIOUS
  <2>1. t \in Names
    BY <1>2, RootType
  <2>2. j - 1 \in Nat
    BY <1>1, DictType DEF TypeInv
  <2>3. FirstFunction(e.name) \in Nat
    <3>1. FirstFunction(e.name) \in 1 .. Len(functions)
      BY FirstFunctionFacts DEF TypeInv
    <3> QED
      BY <3>1
  <2>4. [name |-> a.name, order |-> j - 1, func |-> FirstFunction(e.name),
         type |-> t] \in ArgumentRows
    BY <1>2, <2>1, <2>2, <2>3 DEF ArgumentRows
  <2> QED
    BY <2>4
<1> HIDE DEF e, a, row
<1>6. /\ TypeTable(types')
      /\ newTypes' \subseteq Names /\ NewTypesOK'
      /\ a.type.stars > 0 => a.type \in DOMAIN types'
      /\ \/ missing' = TRUE /\ UNCHANGED <<rows, i, j>>
         \/ /\ missing' = FALSE /\ Advance(Len(e.params))
            /\ \E t \in {a.type, Root(a.type)} : rows' = rows \o row[t]
  BY <1>2, <1>3, <1>4, ResolveRowFacts DEF TypeInv, WantedOK
<1>7. UNCHANGED <<dict, apis, dlls, functions, arguments, values, fields,
                  phase, valuesList, runs>>
  BY DEF ResolveArgument
<1>8. CASE missing' = TRUE /\ UNCHANGED <<rows, i, j>>
  <2>1. TypeOK'
    BY <1>6, <1>7, <1>8 DEF TypeInv, TypeOK
  <2>2. PositionOK' /\ MissingOK'
    BY <1>1, <1>7, <1>8 DEF TypeInv, PositionOK, MissingOK
  <2>3. WantedOK'
    BY <1>3, <1>6, <1>7, <1>8 DEF WantedOK, Wanted
  <2> QED
    BY <1>6, <2>1, <2>2, <2>3 DEF TypeInv
<1>9. CASE /\ missing' = FALSE /\ Advance(Len(e.params))
           /\ \E t \in {a.type, Root(a.type)} : rows' = rows \o row[t]
  <2>1. rows' \in Seq(ArgumentRows)
    BY <1>1, <1>5, <1>9, ConcatProperties DEF TypeInv, TypeOK
  <2>2. /\ i' \in Nat /\ i' > 0 /\ j' \in Nat
        /\ \/ i' = i /\ j' = j + 1 /\ j' <= Len(e.params)
           \/ i' = i + 1 /\ j' = 0
    BY <1>2, <1>9, AdvanceFacts, DictType DEF TypeInv
  <2>3. TypeOK'
    <3>1. missing' \in BOOLEAN
      BY <1>9
    <3> QED
      BY <1>1, <1>6, <1>7, <2>1, <2>2, <3>1 DEF TypeInv, TypeOK
  <2>4. PositionOK' /\ MissingOK' /\ WantedOK'
    BY <1>1, <1>7, <1>9, <2>2
    DEF TypeInv, PositionOK, MissingOK, WantedOK, e
  <2> QED
    BY <1>6, <2>3, <2>4 DEF TypeInv
<1> QED
  BY <1>6, <1>8, <1>9

\* The commit of the arguments (line 180) preserves it.
LEMMA TypeInsertArguments ==
  ASSUME TypeInv, InsertArguments
  PROVE  TypeInv'
<1>1. missing = FALSE
  <2>1. phase = "arguments" /\ i > Len(dict.functions)
    BY DEF InsertArguments
  <2>2. ~ (j > 0)
    BY <2>1, DictType, SeqElement DEF TypeInv, PositionOK
  <2> QED
    BY <2>1, <2>2 DEF TypeInv, TypeOK, MissingOK
<1>2. Enter("done") /\ missing' = FALSE /\ "done" \in Phases
  BY <1>1 DEF InsertArguments, Phases
<1>3. arguments' \in Seq(ArgumentRows)
  BY ConcatProperties DEF InsertArguments, TypeInv, TypeOK
<1>4. TypeOK'
  BY <1>2, <1>3, EnterType DEF TypeInv, TypeOK, InsertArguments
<1> QED
  BY <1>2, <1>4, EnterType DEF TypeInv

\* The death of the script preserves it: the memory is reset, tables are kept.
LEMMA TypeCrash ==
  ASSUME TypeInv, Crash
  PROVE  TypeInv'
<1>1. Enter("idle") /\ missing' = FALSE /\ "idle" \in Phases
  BY DEF Crash, Phases
<1>2. TypeOK'
  BY <1>1, EnterType DEF TypeInv, TypeOK, Crash, tables
<1> QED
  BY <1>1, <1>2, EnterType DEF TypeInv

\* So does a step that changes nothing.
LEMMA TypeStutter ==
  ASSUME TypeInv, UNCHANGED vars
  PROVE  TypeInv'
<1>1. TypeOK'
  BY DEF TypeInv, TypeOK, vars, tables, memory
<1>2. PositionOK' /\ NewTypesOK' /\ MissingOK'
  BY DEF TypeInv, PositionOK, NewTypesOK, MissingOK, vars, tables, memory
<1>3. WantedOK'
  BY DEF TypeInv, WantedOK, Wanted, vars, tables, memory
<1> QED
  BY <1>1, <1>2, <1>3 DEF TypeInv

\* The type invariant is inductive.
LEMMA TypeNext == TypeInv /\ [Next]_vars => TypeInv'
BY TypeRunScript, TypeInsertTypes, TypeVisitType, TypeResolveField,
   TypeInsertFields, TypeInsertCatalog, TypeResolveFunction,
   TypeInsertFunctions, TypeVisitFunction, TypeResolveArgument,
   TypeInsertArguments, TypeCrash, TypeStutter
DEF Next, Step

\* It holds in every reachable state.
LEMMA TypeInvariance == Spec => []TypeInv
BY TypeInit, TypeNext, PTL DEF Spec

\* The tables and the memory of the script keep their shape, whatever the
\* dictionaries are and however often the script dies and is started again.
THEOREM TypeCorrectness == Spec => []TypeOK
<1>1. TypeInv => TypeOK
  BY DEF TypeInv
<1> QED
  BY <1>1, TypeInvariance, PTL

-----------------------------------------------------------------------------
(* Foreign keys                                                            *)

\* The rows whose ids are ids of committed rows.
KnownFields ==
  {r \in Rows : r.struct \in DOMAIN types /\ r.type \in DOMAIN types}
KnownValues == {r \in ValueRows : r.type \in DOMAIN types}
KnownFunctions ==
  {r \in FunctionRows : /\ r.ret \in DOMAIN types
                        /\ r.api \in apis \cup {NONE}
                        /\ r.dll \in dlls \cup {NONE}}
KnownArguments ==
  {r \in ArgumentRows : r.func \in 1 .. Len(functions) /\ r.type \in DOMAIN types}

\* The rows that wait in memory for their commit satisfy the foreign keys
\* already: that is what makes the property inductive.
CommittedOK ==
  /\ fields \in Seq(KnownFields)
  /\ values \in Seq(KnownValues)
  /\ functions \in Seq(KnownFunctions)
  /\ arguments \in Seq(KnownArguments)

PendingOK ==
  /\ valuesList \in Seq(KnownValues)
  /\ phase = "fields" => rows \in Seq(KnownFields)
  /\ phase = "functions" => rows \in Seq(KnownFunctions)
  /\ phase = "arguments" => rows \in Seq(KnownArguments)

ReferencesInv == CommittedOK /\ PendingOK

\* The invariant about committed and pending rows contains the foreign keys.
LEMMA ReferencesImplied ==
  ASSUME ReferencesInv
  PROVE  ReferentialIntegrity
<1>1. \A k \in DOMAIN fields : fields[k] \in KnownFields
  BY SeqElement DEF ReferencesInv, CommittedOK
<1>2. \A k \in DOMAIN values : values[k] \in KnownValues
  BY SeqElement DEF ReferencesInv, CommittedOK
<1>3. \A k \in DOMAIN functions : functions[k] \in KnownFunctions
  BY SeqElement DEF ReferencesInv, CommittedOK
<1>4. \A k \in DOMAIN arguments : arguments[k] \in KnownArguments
  BY SeqElement DEF ReferencesInv, CommittedOK
<1>5. DOMAIN functions = 1 .. Len(functions)
  BY LenProperties DEF ReferencesInv, CommittedOK
<1> QED
  BY <1>1, <1>2, <1>3, <1>4, <1>5
  DEF ReferentialIntegrity, KnownFields, KnownValues, KnownFunctions,
      KnownArguments

\* The tables other rows refer to only grow.
Growth ==
  /\ DOMAIN types \subseteq DOMAIN types'
  /\ apis \subseteq apis' /\ dlls \subseteq dlls'
  /\ \/ functions' = functions
     \/ \E s \in Seq(FunctionRows) : functions' = functions \o s

\* No step of the script, its death included, removes a row from a table or
\* changes one: INSERT is its only statement.
LEMMA TablesGrow ==
  ASSUME TypeInv, [Next]_vars
  PROVE  Growth
<1>1. CASE ResolveField
  <2>1. /\ i <= Len(dict.types) /\ j > 0 /\ j <= Len(dict.types[i].fields)
        /\ Wanted = dict.types[i].fields[j].type
    BY <1>1 DEF TypeInv, PositionOK, ResolveField, Wanted
  <2>2. Wanted \in Names
    BY <2>1, EntryType DEF TypeInv
  <2>3. DOMAIN types \subseteq DOMAIN types'
    BY <1>1, <2>1, <2>2, ResolveRowFacts DEF TypeInv, WantedOK, ResolveField
  <2> QED
    BY <1>1, <2>3 DEF Growth, ResolveField
<1>2. CASE ResolveFunction
  <2>1. /\ i <= Len(dict.functions)
        /\ Wanted = dict.functions[i].ret
    BY <1>2 DEF ResolveFunction, Wanted
  <2>2. Wanted \in Names
    BY <2>1, FunctionType DEF TypeInv
  <2>3. DOMAIN types \subseteq DOMAIN types'
    BY <1>2, <2>1, <2>2, ResolveRowFacts DEF TypeInv, WantedOK, ResolveFunction
  <2> QED
    BY <1>2, <2>3 DEF Growth, ResolveFunction
<1>3. CASE ResolveArgument
  <2>1. /\ i <= Len(dict.functions) /\ j > 0
        /\ j <= Len(dict.functions[i].params)
        /\ Wanted = dict.functions[i].params[j].type
    BY <1>3 DEF TypeInv, PositionOK, ResolveArgument, Wanted
  <2>2. Wanted \in Names
    BY <2>1, FunctionType DEF TypeInv
  <2>3. DOMAIN types \subseteq DOMAIN types'
    BY <1>3, <2>1, <2>2, ResolveRowFacts DEF TypeInv, WantedOK, ResolveArgument
  <2> QED
    BY <1>3, <2>3 DEF Growth, ResolveArgument
<1>4. CASE InsertTypes
  <2>1. DOMAIN types \subseteq DOMAIN types'
    BY <1>4, MergeType, DeclaredType DEF TypeInv, TypeOK, InsertTypes
  <2> QED
    BY <1>4, <2>1 DEF Growth, InsertTypes
<1>5. CASE InsertCatalog
  BY <1>5 DEF Growth, InsertCatalog
<1>6. CASE InsertFunctions
  <2>1. rows \in Seq(FunctionRows)
    BY <1>6 DEF TypeInv, TypeOK, InsertFunctions
  <2> QED
    BY <1>6, <2>1 DEF Growth, InsertFunctions
<1>7. CASE RunScript \/ VisitType \/ InsertFields \/ VisitFunction
           \/ InsertArguments \/ Crash \/ UNCHANGED vars
  BY <1>7 DEF Growth, RunScript, VisitType, InsertFields, VisitFunction,
              InsertArguments, Crash, vars, tables
<1> QED
  BY <1>1, <1>2, <1>3, <1>4, <1>5, <1>6, <1>7 DEF Next, Step

\* So a row whose references are known once has them known for good.
LEMMA KnownGrow ==
  ASSUME TypeOK, Growth
  PROVE  /\ KnownFields \subseteq KnownFields'
         /\ KnownValues \subseteq KnownValues'
         /\ KnownFunctions \subseteq KnownFunctions'
         /\ KnownArguments \subseteq KnownArguments'
<1>1. Len(functions) \in Nat /\ Len(functions') \in Nat
      /\ Len(functions) <= Len(functions')
  <2>1. functions \in Seq(FunctionRows)
    BY DEF TypeOK
  <2>2. CASE functions' = functions
    BY <2>1, <2>2, SeqElement
  <2>3. ASSUME NEW s \in Seq(FunctionRows), functions' = functions \o s
        PROVE  /\ Len(functions) \in Nat /\ Len(functions') \in Nat
               /\ Len(functions) <= Len(functions')
    BY <2>1, <2>3, ConcatProperties, SeqElement
  <2> QED
    BY <2>2, <2>3 DEF Growth
<1>2. 1 .. Len(functions) \subseteq 1 .. Len(functions')
  BY <1>1
<1>3. KnownArguments \subseteq KnownArguments'
  BY <1>2 DEF Growth, KnownArguments
<1> QED
  BY <1>3 DEF Growth, KnownFields, KnownValues, KnownFunctions

\* Rows stay known, the committed ones and those in memory.
LEMMA KnownKept ==
  ASSUME TypeInv, ReferencesInv, [Next]_vars
  PROVE  /\ fields \in Seq(KnownFields') /\ values \in Seq(KnownValues')
         /\ functions \in Seq(KnownFunctions')
         /\ arguments \in Seq(KnownArguments')
         /\ valuesList \in Seq(KnownValues')
         /\ phase = "fields" => rows \in Seq(KnownFields')
         /\ phase = "functions" => rows \in Seq(KnownFunctions')
         /\ phase = "arguments" => rows \in Seq(KnownArguments')
<1>1. /\ KnownFields \subseteq KnownFields'
      /\ KnownValues \subseteq KnownValues'
      /\ KnownFunctions \subseteq KnownFunctions'
      /\ KnownArguments \subseteq KnownArguments'
  BY TablesGrow, KnownGrow DEF TypeInv
<1> QED
  BY <1>1, SeqMonotonic DEF ReferencesInv, CommittedOK, PendingOK

\* Lists that are empty hold no row with an unknown reference.
LEMMA EnterPending ==
  ASSUME NEW p, Enter(p)
  PROVE  PendingOK'
BY DEF Enter, PendingOK

\* One loop step appends a row for a name that is in Types by then.
LEMMA ReferencesResolveField ==
  ASSUME TypeInv, ReferencesInv, ResolveField
  PROVE  PendingOK'
<1> DEFINE e == dict.types[i]
           f == e.fields[j]
           row == [t \in {f.type, Root(f.type)} |->
                    IF e.name \in DOMAIN types
                    THEN <<[name |-> FieldName(f.name), order |-> j - 1,
                            struct |-> e.name, type |-> t]>>
                    ELSE << >>]
<1>0. [Next]_vars
  BY DEF Next, Step
<1>1. phase = "fields" /\ j > 0 /\ i <= Len(dict.types) /\ j <= Len(e.fields)
  BY DEF TypeInv, PositionOK, ResolveField
<1>2. /\ e.name \in Names
      /\ f.type \in Names /\ f.name \in Texts
  BY <1>1, EntryType DEF TypeInv, TypeEntry
<1>3. Wanted = f.type
  BY <1>1 DEF Wanted
<1>4. ResolveRow(f.type, Len(e.fields), row)
  BY DEF ResolveField
<1>5. /\ DOMAIN types \subseteq DOMAIN types'
      /\ \/ rows' = rows
         \/ \E t \in {f.type, Root(f.type)} : /\ t \in DOMAIN types'
                                              /\ rows' = rows \o row[t]
  BY <1>2, <1>3, <1>4, ResolveRowFacts DEF TypeInv, WantedOK
<1>6. ASSUME NEW t \in {f.type, Root(f.type)}, t \in DOMAIN types'
      PROVE  row[t] \in Seq(KnownFields')
  <2> SUFFICES ASSUME e.name \in DOMAIN types
               PROVE  row[t] \in Seq(KnownFields')
    OBVIOUS
  <2>1. t \in Names
    BY <1>2, RootType
  <2>2. j - 1 \in Nat
    BY <1>1, DictType DEF TypeInv
  <2>3. FieldName(f.name) \in Texts
    BY <1>2, TextsAssumption DEF FieldName
  <2>4. e.name \in DOMAIN types'
    BY <1>5
  <2>5. [name |-> FieldName(f.name), order |-> j - 1, struct |-> e.name,
         type |-> t] \in KnownFields'
    BY <1>2, <1>6, <2>1, <2>2, <2>3, <2>4 DEF Rows, KnownFields
  <2> QED
    BY <2>5
<1> HIDE DEF e, f, row
<1>7. rows \in Seq(KnownFields') /\ valuesList \in Seq(KnownValues')
  BY <1>0, <1>1, KnownKept
<1>8. rows' \in Seq(KnownFields')
  BY <1>5, <1>6, <1>7, ConcatProperties
<1> QED
  BY <1>1, <1>7, <1>8 DEF PendingOK, ResolveField

\* A row appended to functions_list refers to committed rows only.
LEMMA ReferencesResolveFunction ==
  ASSUME TypeInv, ReferencesInv, ResolveFunction
  PROVE  PendingOK'
<1> DEFINE e == dict.functions[i]
           api == NameOrNone(e.category, apis)
           dll == NameOrNone(e.dll, dlls)
           row == [t \in {e.ret, Root(e.ret)} |->
                    <<[name |-> e.name, api |-> api, dll |-> dll, ret |-> t]>>]
<1>0. [Next]_vars
  BY DEF Next, Step
<1>1. phase = "functions" /\ i <= Len(dict.functions)
  BY DEF ResolveFunction
<1>2. e.name \in Texts /\ e.ret \in Names
  BY <1>1, FunctionType DEF TypeInv, FunctionEntry
<1>3. Wanted = e.ret
  BY <1>1 DEF Wanted
<1>4. ResolveRow(e.ret, 0, row)
  BY DEF ResolveFunction
<1>5. /\ \/ rows' = rows
         \/ \E t \in {e.ret, Root(e.ret)} : /\ t \in DOMAIN types'
                                            /\ rows' = rows \o row[t]
  BY <1>2, <1>3, <1>4, ResolveRowFacts DEF TypeInv, WantedOK
<1>6. ASSUME NEW t \in {e.ret, Root(e.ret)}, t \in DOMAIN types'
      PROVE  row[t] \in Seq(KnownFunctions')
  <2>1. t \in Names
    BY <1>2, RootType
  <2>2. api \in apis \cup {NONE} /\ dll \in dlls \cup {NONE}
    BY DEF NameOrNone
  <2>3. api \in Texts \cup {NONE} /\ dll \in Texts \cup {NONE}
    BY <2>2 DEF TypeInv, TypeOK
  <2>4. apis' = apis /\ dlls' = dlls
    BY DEF ResolveFunction
  <2>5. [name |-> e.name, api |-> api, dll |-> dll, ret |-> t]
          \in KnownFunctions'
    BY <1>2, <1>6, <2>1, <2>2, <2>3, <2>4 DEF FunctionRows, KnownFunctions
  <2> QED
    BY <2>5
<1> HIDE DEF e, api, dll, row
<1>7. rows \in Seq(KnownFunctions') /\ valuesList \in Seq(KnownValues')
  BY <1>0, <1>1, KnownKept
<1>8. rows' \in Seq(KnownFunctions')
  BY <1>5, <1>6, <1>7, ConcatProperties
<1> QED
  BY <1>1, <1>7, <1>8 DEF PendingOK, ResolveFunction

\* A row appended to arguments_list refers to committed rows only.
LEMMA ReferencesResolveArgument ==
  ASSUME TypeInv, ReferencesInv, ResolveArgument
  PROVE  PendingOK'
<1> DEFINE e == dict.functions[i]
           a == e.params[j]
           row == [t \in {a.type, Root(a.type)} |->
                    IF FunctionsNamed(e.name) # {}
                    THEN <<[name |-> a.name, order |-> j - 1,
                            func |-> FirstFunction(e.name), type |-> t]>>
                    ELSE << >>]
<1>0. [Next]_vars
  BY DEF Next, Step
<1>1. /\ phase = "arguments" /\ j > 0
      /\ i <= Len(dict.functions) /\ j <= Len(e.params)
  BY DEF TypeInv, PositionOK, ResolveArgument
<1>2. a.type \in Names /\ a.name \in Texts
  BY <1>1, FunctionType DEF TypeInv
<1>3. Wanted = a.type
  BY <1>1 DEF Wanted
<1>4. ResolveRow(a.type, Len(e.params), row)
  BY DEF ResolveArgument
<1>5. \/ rows' = rows
      \/ \E t \in {a.type, Root(a.type)} : /\ t \in DOMAIN types'
                                           /\ rows' = rows \o row[t]
  BY <1>2, <1>3, <1>4, ResolveRowFacts DEF TypeInv, WantedOK
<1>6. ASSUME NEW t \in {a.type, Root(a.type)}, t \in DOMAIN types'
      PROVE  row[t] \in Seq(KnownArguments')
  <2> SUFFICES ASSUME FunctionsNamed(e.name) # {}
               PROVE  row[t] \in Seq(KnownArguments')
    OBVIOUS
  <2>1. t \in Names
    BY <1>2, RootType
  <2>2. j - 1 \in Nat
    BY <1>1, DictType DEF TypeInv
  <2>3. FirstFunction(e.name) \in 1 .. Len(functions)
    BY FirstFunctionFacts DEF TypeInv
  <2>4. FirstFunction(e.name) \in Nat
    BY <2>3
  <2>5. functions' = functions
    BY DEF ResolveArgument
  <2>6. [name |-> a.name, order |-> j - 1, func |-> FirstFunction(e.name),
         type |-> t] \in KnownArguments'
    BY <1>2, <1>6, <2>1, <2>2, <2>3, <2>4, <2>5
    DEF ArgumentRows, KnownArguments
  <2> QED
    BY <2>6
<1> HIDE DEF e, a, row
<1>7. rows \in Seq(KnownArguments') /\ valuesList \in Seq(KnownValues')
  BY <1>0, <1>1, KnownKept
<1>8. rows' \in Seq(KnownArguments')
  BY <1>5, <1>6, <1>7, ConcatProperties
<1> QED
  BY <1>1, <1>7, <1>8 DEF PendingOK, ResolveArgument

\* A row appended to values_list refers to a committed type.
LEMMA ReferencesVisitType ==
  ASSUME TypeInv, ReferencesInv, VisitType
  PROVE  PendingOK'
<1> DEFINE e == dict.types[i]
           new == [k \in 1 .. Len(e.defs) |->
                     [name |-> e.defs[k], type |-> e.name]]
<1>0. [Next]_vars
  BY DEF Next, Step
<1>1. e \in TypeEntry
  BY EntryType DEF TypeInv, VisitType
<1>2. types' = types /\ rows' = rows /\ phase' = phase /\ phase = "fields"
  BY DEF VisitType, tables
<1>3. ASSUME e.name \in DOMAIN types
      PROVE  new \in Seq(KnownValues')
  <2>1. e.defs \in Seq(Texts) /\ e.name \in Names
    BY <1>1 DEF TypeEntry
  <2>2. Len(e.defs) \in Nat /\ \A k \in 1 .. Len(e.defs) : e.defs[k] \in Texts
    BY <2>1, SeqElement
  <2>3. \A k \in 1 .. Len(e.defs) :
          [name |-> e.defs[k], type |-> e.name] \in KnownValues'
    BY <1>2, <1>3, <2>1, <2>2 DEF ValueRows, KnownValues
  <2> QED
    BY <2>2, <2>3
<1> HIDE DEF new
<1>4. valuesList \in Seq(KnownValues') /\ rows \in Seq(KnownFields')
  BY <1>0, <1>2, KnownKept
<1>5. valuesList' = IF e.name \in DOMAIN types
                    THEN valuesList \o new ELSE valuesList
  BY DEF VisitType, new
<1>6. valuesList' \in Seq(KnownValues')
  BY <1>3, <1>4, <1>5, ConcatProperties
<1> QED
  BY <1>2, <1>4, <1>6 DEF PendingOK

\* What a commit adds was collected with its references known.
LEMMA CommittedNext ==
  ASSUME TypeInv, ReferencesInv, [Next]_vars
  PROVE  CommittedOK'
<1>1. CASE InsertFields
  BY <1>1, KnownKept, ConcatProperties DEF CommittedOK, InsertFields
<1>2. CASE InsertFunctions
  BY <1>2, KnownKept, ConcatProperties DEF CommittedOK, InsertFunctions
<1>3. CASE InsertArguments
  BY <1>3, KnownKept, ConcatProperties DEF CommittedOK, InsertArguments
<1>4. CASE RunScript \/ InsertTypes \/ VisitType \/ ResolveField
           \/ InsertCatalog \/ ResolveFunction \/ VisitFunction
           \/ ResolveArgument \/ Crash \/ UNCHANGED vars
  <2>1. UNCHANGED <<fields, values, functions, arguments>>
    BY <1>4 DEF RunScript, InsertTypes, VisitType, ResolveField, InsertCatalog,
                ResolveFunction, VisitFunction, ResolveArgument, Crash, vars,
                tables
  <2> QED
    BY <2>1, KnownKept DEF CommittedOK
<1> QED
  BY <1>1, <1>2, <1>3, <1>4 DEF Next, Step

\* What is collected keeps them known until it is committed.
LEMMA PendingNext ==
  ASSUME TypeInv, ReferencesInv, [Next]_vars
  PROVE  PendingOK'
<1>1. CASE RunScript \/ InsertTypes \/ InsertFields \/ InsertCatalog
           \/ InsertFunctions \/ InsertArguments \/ Crash
  BY <1>1, EnterPending DEF RunScript, InsertTypes, InsertFields,
     InsertCatalog, InsertFunctions, InsertArguments, Crash
<1>2. CASE VisitFunction
  BY <1>2, KnownKept DEF PendingOK, VisitFunction
<1>3. CASE UNCHANGED vars
  BY <1>3, KnownKept DEF PendingOK, vars, memory
<1> QED
  BY <1>1, <1>2, <1>3, ReferencesVisitType, ReferencesResolveField,
     ReferencesResolveFunction, ReferencesResolveArgument DEF Next, Step

\* Committed and pending rows have their references known in every state.
LEMMA ReferencesInvariance == Spec => []ReferencesInv
<1>1. Init => ReferencesInv
  BY DEF Init, ReferencesInv, CommittedOK, PendingOK
<1>2. TypeInv /\ ReferencesInv /\ [Next]_vars => ReferencesInv'
  BY CommittedNext, PendingNext DEF ReferencesInv
<1> QED
  BY <1>1, <1>2, TypeInvariance, PTL DEF Spec

\* No committed row refers to a row that is not committed, although SQLite
\* checks none of the schema's foreign keys for this script.
THEOREM ForeignKeysHold == Spec => []ReferentialIntegrity
BY ReferencesInvariance, ReferencesImplied, PTL

-----------------------------------------------------------------------------
(* The owner of the arguments                                              *)

\* Row k of functions is the first of its name.
FirstOfName(k) == \A m \in 1 .. k - 1 : functions[m].name # functions[k].name

OwnersOK(s) == \A k \in DOMAIN s : /\ s[k].func \in 1 .. Len(functions)
                                   /\ FirstOfName(s[k].func)

NamesakesInv ==
  OwnersOK(arguments) /\ (phase = "arguments" => OwnersOK(rows))

\* Rows that belong to first namesakes, followed by such rows.
LEMMA OwnersConcat ==
  ASSUME NEW S, NEW s \in Seq(S), NEW t \in Seq(S), OwnersOK(s), OwnersOK(t)
  PROVE  OwnersOK(s \o t)
<1>1. /\ DOMAIN s = 1 .. Len(s) /\ DOMAIN t = 1 .. Len(t)
      /\ DOMAIN (s \o t) = 1 .. Len(s) + Len(t)
      /\ Len(s) \in Nat /\ Len(t) \in Nat
  BY ConcatProperties, LenProperties
<1>2. ASSUME NEW k \in DOMAIN (s \o t)
      PROVE  \/ \E m \in DOMAIN s : (s \o t)[k] = s[m]
             \/ \E m \in DOMAIN t : (s \o t)[k] = t[m]
  <2>1. (s \o t)[k] = IF k <= Len(s) THEN s[k] ELSE t[k - Len(s)]
    BY <1>1, ConcatProperties
  <2>2. k \in Nat /\ 1 <= k /\ k <= Len(s) + Len(t)
    BY <1>1
  <2>3. CASE k <= Len(s)
    BY <1>1, <2>1, <2>2, <2>3
  <2>4. CASE ~ (k <= Len(s))
    <3>1. k - Len(s) \in DOMAIN t
      BY <1>1, <2>2, <2>4
    <3> QED
      BY <2>1, <2>4, <3>1
  <2> QED
    BY <2>3, <2>4
<1> QED
  BY <1>2 DEF OwnersOK

\* Rows added to the end take nothing from the first of a name.
LEMMA OwnersKept ==
  ASSUME TypeOK, Growth, NEW s, OwnersOK(s)
  PROVE  \A k \in DOMAIN s :
           /\ s[k].func \in 1 .. Len(functions')
           /\ \A m \in 1 .. s[k].func - 1 :
                functions'[m].name # functions'[s[k].func].name
<1>1. functions \in Seq(FunctionRows) /\ Len(functions) \in Nat
  BY SeqElement DEF TypeOK
<1>2. CASE functions' = functions
  BY <1>2 DEF OwnersOK, FirstOfName
<1>3. ASSUME NEW t \in Seq(FunctionRows), functions' = functions \o t
      PROVE  /\ Len(functions') \in Nat /\ Len(functions) <= Len(functions')
             /\ \A m \in 1 .. Len(functions) : functions'[m] = functions[m]
  <2>1. Len(t) \in Nat /\ Len(functions') = Len(functions) + Len(t)
    BY <1>1, <1>3, ConcatProperties, SeqElement
  <2>2. ASSUME NEW m \in 1 .. Len(functions)
        PROVE  functions'[m] = functions[m]
    <3>1. m \in 1 .. Len(functions) + Len(t) /\ m <= Len(functions)
      BY <1>1, <2>1
    <3> QED
      BY <1>1, <1>3, <3>1, ConcatProperties
  <2> QED
    BY <1>1, <2>1, <2>2
<1>4. ASSUME /\ Len(functions') \in Nat /\ Len(functions) <= Len(functions')
             /\ \A m \in 1 .. Len(functions) : functions'[m] = functions[m],
             NEW k \in DOMAIN s
      PROVE  /\ s[k].func \in 1 .. Len(functions')
             /\ \A m \in 1 .. s[k].func - 1 :
                  functions'[m].name # functions'[s[k].func].name
  <2>1. s[k].func \in 1 .. Len(functions) /\ FirstOfName(s[k].func)
    BY DEF OwnersOK
  <2>2. \A m \in 1 .. s[k].func - 1 : m \in 1 .. Len(functions)
    BY <1>1, <2>1
  <2>3. s[k].func \in 1 .. Len(functions')
    BY <1>1, <1>4, <2>1
  <2> QED
    BY <1>4, <2>1, <2>2, <2>3 DEF FirstOfName
<1> QED
  BY <1>2, <1>3, <1>4 DEF Growth

\* The search of line 148 finds the first row of the function's name.
LEMMA NamesakesResolveArgument ==
  ASSUME TypeInv, OwnersOK(rows), ResolveArgument
  PROVE  OwnersOK(rows')
<1> DEFINE e == dict.functions[i]
           a == e.params[j]
           row == [t \in {a.type, Root(a.type)} |->
                    IF FunctionsNamed(e.name) # {}
                    THEN <<[name |-> a.name, order |-> j - 1,
                            func |-> FirstFunction(e.name), type |-> t]>>
                    ELSE << >>]
<1>1. /\ phase = "arguments" /\ j > 0
      /\ i <= Len(dict.functions) /\ j <= Len(e.params)
  BY DEF TypeInv, PositionOK, ResolveArgument
<1>2. a.type \in Names /\ a.name \in Texts
  BY <1>1, FunctionType DEF TypeInv
<1>3. Wanted = a.type
  BY <1>1 DEF Wanted
<1>4. ResolveRow(a.type, Len(e.params), row)
  BY DEF ResolveArgument
<1>5. \/ rows' = rows
      \/ \E t \in {a.type, Root(a.type)} : rows' = rows \o row[t]
  BY <1>2, <1>3, <1>4, ResolveRowFacts DEF TypeInv, WantedOK
<1>6. ASSUME NEW t \in {a.type, Root(a.type)}
      PROVE  row[t] \in Seq(ArgumentRows) /\ OwnersOK(row[t])
  <2>1. CASE FunctionsNamed(e.name) = {}
    <3>1. row[t] = << >>
      BY <2>1
    <3>2. DOMAIN << >> = {} /\ << >> \in Seq(ArgumentRows)
      BY EmptySeq, LenProperties
    <3>3. OwnersOK(<< >>)
      BY <3>2 DEF OwnersOK
    <3> QED
      BY <3>1, <3>2, <3>3
  <2>2. CASE FunctionsNamed(e.name) # {}
    <3> DEFINE r == [name |-> a.name, order |-> j - 1,
                     func |-> FirstFunction(e.name), type |-> t]
    <3>1. row[t] = <<r>>
      BY <2>2
    <3>2. /\ FirstFunction(e.name) \in 1 .. Len(functions)
          /\ FirstOfName(FirstFunction(e.name))
      BY <2>2, FirstFunctionFacts DEF TypeInv, FirstOfName
    <3>3. t \in Names /\ j - 1 \in Nat /\ FirstFunction(e.name) \in Nat
      <4>1. t \in Names
        BY <1>2, RootType
      <4>2. j - 1 \in Nat
        BY <1>1, DictType DEF TypeInv
      <4>3. FirstFunction(e.name) \in Nat
        BY <3>2
      <4> QED
        BY <4>1, <4>2, <4>3
    <3>4. r \in ArgumentRows /\ r.func = FirstFunction(e.name)
      BY <1>2, <3>3 DEF ArgumentRows
    <3> HIDE DEF r
    <3>5. DOMAIN <<r>> = {1} /\ <<r>>[1] = r /\ <<r>> \in Seq(ArgumentRows)
      BY <3>4
    <3> QED
      BY <3>1, <3>2, <3>4, <3>5 DEF OwnersOK
  <2> QED
    BY <2>1, <2>2
<1> HIDE DEF e, a, row
<1>7. rows \in Seq(ArgumentRows)
  BY <1>1 DEF TypeInv, TypeOK
<1> QED
  BY <1>5, <1>6, <1>7, OwnersConcat

\* Rows inserted later come after the first of their name.
LEMMA NamesakesNext ==
  ASSUME TypeInv, NamesakesInv, [Next]_vars
  PROVE  NamesakesInv'
<1>0. TypeOK /\ Growth
  BY TablesGrow DEF TypeInv
<1>1. OwnersOK(arguments)'
  <2>1. CASE InsertArguments
    <3>1. OwnersOK(arguments) /\ OwnersOK(rows) /\ functions' = functions
          /\ arguments' = arguments \o rows
          /\ arguments \in Seq(ArgumentRows) /\ rows \in Seq(ArgumentRows)
      BY <1>0, <2>1 DEF NamesakesInv, InsertArguments, TypeOK
    <3>2. OwnersOK(arguments')
      BY <3>1, OwnersConcat
    <3> QED
      BY <3>1, <3>2 DEF OwnersOK, FirstOfName
  <2>2. CASE arguments' = arguments
    BY <1>0, <2>2, OwnersKept DEF NamesakesInv, OwnersOK, FirstOfName
  <2>3. InsertArguments \/ arguments' = arguments
    BY DEF Next, Step, RunScript, InsertTypes, VisitType, ResolveField,
           InsertFields, InsertCatalog, ResolveFunction, InsertFunctions,
           VisitFunction, ResolveArgument, Crash, vars, tables
  <2> QED
    BY <2>1, <2>2, <2>3
<1>2. ASSUME phase' = "arguments"
      PROVE  OwnersOK(rows)'
  <2>1. CASE InsertFunctions
    <3>1. rows' = << >>
      BY <2>1 DEF InsertFunctions, Enter
    <3>2. DOMAIN << >> = {}
      BY EmptySeq, LenProperties
    <3> QED
      BY <3>1, <3>2 DEF OwnersOK
  <2>2. CASE ResolveArgument
    <3>1. OwnersOK(rows) /\ functions' = functions
      BY <2>2 DEF NamesakesInv, ResolveArgument
    <3>2. OwnersOK(rows')
      BY <2>2, <3>1, NamesakesResolveArgument
    <3> QED
      BY <3>1, <3>2 DEF OwnersOK, FirstOfName
  <2>3. CASE VisitFunction \/ UNCHANGED vars
    <3>1. phase = "arguments" /\ rows' = rows /\ functions' = functions
      BY <1>2, <2>3 DEF VisitFunction, vars, tables, memory
    <3> QED
      BY <3>1 DEF NamesakesInv, OwnersOK, FirstOfName
  <2>4. InsertFunctions \/ ResolveArgument \/ VisitFunction \/ UNCHANGED vars
    BY <1>2 DEF Next, Step, RunScript, InsertTypes, VisitType, ResolveField,
           InsertFields, InsertCatalog, ResolveFunction, InsertArguments,
           Crash, Enter
  <2> QED
    BY <2>1, <2>2, <2>3, <2>4
<1> QED
  BY <1>1, <1>2 DEF NamesakesInv

\* Every argument of every execution belongs to the first function row of its
\* name: the row of another module, or of a later execution, owns none.
THEOREM OnlyTheFirstNamesakeOwns == Spec => []FirstNamesakeOwns
<1>1. Init => NamesakesInv
  <2>1. DOMAIN << >> = {}
    BY EmptySeq, LenProperties
  <2> QED
    BY <2>1 DEF Init, NamesakesInv, OwnersOK
<1>2. TypeInv /\ NamesakesInv /\ [Next]_vars => NamesakesInv'
  BY NamesakesNext
<1>3. NamesakesInv => FirstNamesakeOwns
  BY DEF NamesakesInv, OwnersOK, FirstOfName, FirstNamesakeOwns
<1> QED
  BY <1>1, <1>2, <1>3, TypeInvariance, PTL DEF Spec

-----------------------------------------------------------------------------
(* The catalogue of types becomes final                                    *)

DeclaredKnown ==
  \A k \in DOMAIN dict.types : dict.types[k].name \in DOMAIN types

\* The fields the loop has passed when it stands at element b of entry a.
FieldsKnown(a, b) ==
  \A k \in DOMAIN dict.types : \A m \in DOMAIN dict.types[k].fields :
    k < a \/ (k = a /\ m < b) => dict.types[k].fields[m].type \in DOMAIN types

ReturnsKnown(a) ==
  \A k \in DOMAIN dict.functions :
    k < a => dict.functions[k].ret \in DOMAIN types

ParamsKnown(a, b) ==
  \A k \in DOMAIN dict.functions : \A m \in DOMAIN dict.functions[k].params :
    k < a \/ (k = a /\ m < b) =>
      dict.functions[k].params[m].type \in DOMAIN types

AllFieldsKnown == FieldsKnown(Len(dict.types) + 1, 0)
AllReturnsKnown == ReturnsKnown(Len(dict.functions) + 1)
AllParamsKnown == ParamsKnown(Len(dict.functions) + 1, 0)

\* A name is in Types once its search has ended.
VisitedInv ==
  /\ phase \in {"fields", "catalog", "functions", "arguments"} => DeclaredKnown
  /\ phase = "fields" => FieldsKnown(i, j)
  /\ phase \in {"catalog", "functions", "arguments"} => AllFieldsKnown
  /\ phase = "functions" => ReturnsKnown(i)
  /\ phase = "arguments" => AllReturnsKnown /\ ParamsKnown(i, j)

SettledInv ==
  arguments # << >> => /\ DeclaredKnown /\ AllFieldsKnown
                       /\ AllReturnsKnown /\ AllParamsKnown
                       /\ missing = FALSE

\* Whatever is known stays known.
LEMMA KnownStays ==
  ASSUME TypeInv, [Next]_vars
  PROVE  /\ dict' = dict
         /\ DOMAIN types \subseteq DOMAIN types'
         /\ DeclaredKnown => DeclaredKnown'
         /\ AllFieldsKnown => AllFieldsKnown'
         /\ AllReturnsKnown => AllReturnsKnown'
         /\ AllParamsKnown => AllParamsKnown'
<1>1. dict' = dict
  BY DEF Next, Step, RunScript, InsertTypes, VisitType, ResolveField,
         InsertFields, InsertCatalog, ResolveFunction, InsertFunctions,
         VisitFunction, ResolveArgument, InsertArguments, Crash, vars
<1>2. DOMAIN types \subseteq DOMAIN types'
  BY TablesGrow DEF Growth
<1> QED
  BY <1>1, <1>2 DEF DeclaredKnown, AllFieldsKnown, AllReturnsKnown,
     AllParamsKnown, FieldsKnown, ReturnsKnown, ParamsKnown

\* Where a field of a type stands.
LEMMA FieldPosition ==
  ASSUME TypeOK, NEW k \in DOMAIN dict.types,
         NEW m \in DOMAIN dict.types[k].fields
  PROVE  /\ k \in Nat /\ k > 0 /\ k <= Len(dict.types)
         /\ m \in Nat /\ m > 0 /\ m <= Len(dict.types[k].fields)
         /\ Len(dict.types) \in Nat
<1>1. k \in 1 .. Len(dict.types) /\ dict.types[k] \in TypeEntry
  BY DictType, LenProperties, SeqElement
<1>2. dict.types[k].fields \in Seq(Params)
  BY <1>1 DEF TypeEntry
<1>3. m \in 1 .. Len(dict.types[k].fields)
  BY <1>2, LenProperties
<1>4. Len(dict.types) \in Nat /\ Len(dict.types[k].fields) \in Nat
  BY <1>2, DictType, SeqElement
<1> QED
  BY <1>1, <1>3, <1>4

\* The loop over fields leaves every type name behind it in Types.
LEMMA VisitedResolveField ==
  ASSUME TypeInv, VisitedInv, ResolveField
  PROVE  FieldsKnown(i, j)'
<1> DEFINE e == dict.types[i]
           f == e.fields[j]
<1>1. phase = "fields" /\ j > 0 /\ i <= Len(dict.types) /\ j <= Len(e.fields)
  BY DEF TypeInv, PositionOK, ResolveField
<1>2. f.type \in Names /\ Len(e.fields) \in Nat
  BY <1>1, EntryType DEF TypeInv
<1>3. Wanted = f.type
  BY <1>1 DEF Wanted
<1>4. /\ DOMAIN types \subseteq DOMAIN types'
      /\ \/ UNCHANGED <<i, j>>
         \/ f.type \in DOMAIN types' /\ Advance(Len(e.fields))
  BY <1>2, <1>3, ResolveRowFacts DEF TypeInv, WantedOK, ResolveField
<1>5. dict' = dict
  BY DEF ResolveField
<1>6. FieldsKnown(i, j)
  BY <1>1 DEF VisitedInv
<1>7. CASE UNCHANGED <<i, j>>
  BY <1>4, <1>5, <1>6, <1>7 DEF FieldsKnown
<1>8. CASE f.type \in DOMAIN types' /\ Advance(Len(e.fields))
  <2>1. \/ i' = i /\ j' = j + 1
        \/ i' = i + 1 /\ j' = 0 /\ Len(e.fields) <= j
    BY <1>2, <1>8, AdvanceFacts, DictType DEF TypeInv
  <2>2. SUFFICES ASSUME NEW k \in DOMAIN dict.types,
                        NEW m \in DOMAIN dict.types[k].fields,
                        k < i' \/ (k = i' /\ m < j')
                 PROVE  dict.types[k].fields[m].type \in DOMAIN types'
    BY <1>5 DEF FieldsKnown
  <2>3. k \in Nat /\ m \in Nat /\ m <= Len(dict.types[k].fields) /\ m > 0
    BY FieldPosition DEF TypeInv
  <2>4. (k < i \/ (k = i /\ m < j)) \/ (k = i /\ m = j)
    BY <1>2, <2>1, <2>2, <2>3, DictType DEF TypeInv
  <2> QED
    BY <1>4, <1>6, <1>8, <2>4 DEF FieldsKnown
<1> QED
  BY <1>4, <1>7, <1>8

\* An entry without fields is passed with nothing to look for.
LEMMA VisitedVisitType ==
  ASSUME TypeInv, VisitedInv, VisitType
  PROVE  FieldsKnown(i, j)'
<1> DEFINE e == dict.types[i]
<1>1. /\ phase = "fields" /\ j = 0 /\ i <= Len(dict.types)
      /\ Advance(Len(e.fields))
  BY DEF VisitType
<1>2. Len(e.fields) \in Nat
  BY <1>1, EntryType DEF TypeInv
<1>3. \/ i' = i /\ j' = 1
      \/ i' = i + 1 /\ j' = 0 /\ Len(e.fields) = 0
  BY <1>1, <1>2, AdvanceFacts, DictType DEF TypeInv
<1>4. FieldsKnown(i, j)
  BY <1>1 DEF VisitedInv
<1>5. dict' = dict /\ types' = types
  BY DEF VisitType, tables
<1>6. SUFFICES ASSUME NEW k \in DOMAIN dict.types,
                      NEW m \in DOMAIN dict.types[k].fields,
                      k < i' \/ (k = i' /\ m < j')
               PROVE  dict.types[k].fields[m].type \in DOMAIN types
  BY <1>5 DEF FieldsKnown
<1>7. k \in Nat /\ m \in Nat /\ m <= Len(dict.types[k].fields) /\ m > 0
  BY FieldPosition DEF TypeInv
<1>8. k < i
  BY <1>2, <1>3, <1>6, <1>7, DictType DEF TypeInv
<1> QED
  BY <1>4, <1>8 DEF FieldsKnown

\* The loop over functions leaves every return type behind it in Types.
LEMMA VisitedResolveFunction ==
  ASSUME TypeInv, VisitedInv, ResolveFunction
  PROVE  ReturnsKnown(i)'
<1> DEFINE n == dict.functions[i].ret
<1>1. phase = "functions" /\ j = 0 /\ i <= Len(dict.functions) /\ dict' = dict
  BY DEF TypeInv, PositionOK, ResolveFunction
<1>2. n \in Names
  BY <1>1, FunctionType DEF TypeInv
<1>3. Wanted = n
  BY <1>1 DEF Wanted
<1>4. /\ DOMAIN types \subseteq DOMAIN types'
      /\ i' = i \/ (n \in DOMAIN types' /\ Advance(0))
  BY <1>2, <1>3, ResolveRowFacts DEF TypeInv, WantedOK, ResolveFunction
<1>5. i' = i \/ (n \in DOMAIN types' /\ i' = i + 1)
  BY <1>1, <1>4, AdvanceFacts, DictType DEF TypeInv
<1>6. ReturnsKnown(i)
  BY <1>1 DEF VisitedInv
<1>7. \A k \in DOMAIN dict.functions : k < i' => k < i \/ (k = i /\ i' = i + 1)
  <2>1. DOMAIN dict.functions \subseteq Nat
    BY DictType, LenProperties DEF TypeInv
  <2> QED
    BY <1>5, <2>1, DictType DEF TypeInv
<1>8. i' = i + 1 => i' # i
  BY DictType DEF TypeInv
<1> QED
  BY <1>1, <1>4, <1>5, <1>6, <1>7, <1>8 DEF ReturnsKnown

\* Where a parameter of a function stands.
LEMMA ParamPosition ==
  ASSUME TypeOK, NEW k \in DOMAIN dict.functions,
         NEW m \in DOMAIN dict.functions[k].params
  PROVE  /\ k \in Nat /\ k > 0 /\ k <= Len(dict.functions)
         /\ m \in Nat /\ m > 0 /\ m <= Len(dict.functions[k].params)
         /\ Len(dict.functions) \in Nat
<1>1. k \in 1 .. Len(dict.functions) /\ dict.functions[k] \in FunctionEntry
  BY DictType, LenProperties, SeqElement
<1>2. dict.functions[k].params \in Seq(Params)
  BY <1>1 DEF FunctionEntry
<1>3. m \in 1 .. Len(dict.functions[k].params)
  BY <1>2, LenProperties
<1>4. Len(dict.functions) \in Nat /\ Len(dict.functions[k].params) \in Nat
  BY <1>2, DictType, SeqElement
<1> QED
  BY <1>1, <1>3, <1>4

\* The loop over arguments leaves every argument type behind it in Types.
LEMMA VisitedResolveArgument ==
  ASSUME TypeInv, VisitedInv, ResolveArgument
  PROVE  ParamsKnown(i, j)'
<1> DEFINE e == dict.functions[i]
           a == e.params[j]
<1>1. /\ phase = "arguments" /\ j > 0
      /\ i <= Len(dict.functions) /\ j <= Len(e.params)
  BY DEF TypeInv, PositionOK, ResolveArgument
<1>2. a.type \in Names /\ Len(e.params) \in Nat
  BY <1>1, FunctionType DEF TypeInv
<1>3. Wanted = a.type
  BY <1>1 DEF Wanted
<1>4. /\ DOMAIN types \subseteq DOMAIN types'
      /\ \/ UNCHANGED <<i, j>>
         \/ a.type \in DOMAIN types' /\ Advance(Len(e.params))
  BY <1>2, <1>3, ResolveRowFacts DEF TypeInv, WantedOK, ResolveArgument
<1>5. dict' = dict
  BY DEF ResolveArgument
<1>6. ParamsKnown(i, j)
  BY <1>1 DEF VisitedInv
<1>7. CASE UNCHANGED <<i, j>>
  BY <1>4, <1>5, <1>6, <1>7 DEF ParamsKnown
<1>8. CASE a.type \in DOMAIN types' /\ Advance(Len(e.params))
  <2>1. \/ i' = i /\ j' = j + 1
        \/ i' = i + 1 /\ j' = 0 /\ Len(e.params) <= j
    BY <1>2, <1>8, AdvanceFacts, DictType DEF TypeInv
  <2>2. SUFFICES ASSUME NEW k \in DOMAIN dict.functions,
                        NEW m \in DOMAIN dict.functions[k].params,
                        k < i' \/ (k = i' /\ m < j')
                 PROVE  dict.functions[k].params[m].type \in DOMAIN types'
    BY <1>5 DEF ParamsKnown
  <2>3. /\ k \in Nat /\ m \in Nat /\ m > 0
        /\ m <= Len(dict.functions[k].params)
    BY ParamPosition DEF TypeInv
  <2>4. (k < i \/ (k = i /\ m < j)) \/ (k = i /\ m = j)
    BY <1>2, <2>1, <2>2, <2>3, DictType DEF TypeInv
  <2> QED
    BY <1>4, <1>6, <1>8, <2>4 DEF ParamsKnown
<1> QED
  BY <1>4, <1>7, <1>8

\* A function without arguments is passed with nothing to look for.
LEMMA VisitedVisitFunction ==
  ASSUME TypeInv, VisitedInv, VisitFunction
  PROVE  ParamsKnown(i, j)'
<1> DEFINE e == dict.functions[i]
<1>1. /\ phase = "arguments" /\ j = 0 /\ i <= Len(dict.functions)
      /\ Advance(Len(e.params))
  BY DEF VisitFunction
<1>2. Len(e.params) \in Nat
  BY <1>1, FunctionType DEF TypeInv
<1>3. \/ i' = i /\ j' = 1
      \/ i' = i + 1 /\ j' = 0 /\ Len(e.params) = 0
  BY <1>1, <1>2, AdvanceFacts, DictType DEF TypeInv
<1>4. ParamsKnown(i, j)
  BY <1>1 DEF VisitedInv
<1>5. dict' = dict /\ types' = types
  BY DEF VisitFunction, tables
<1>6. SUFFICES ASSUME NEW k \in DOMAIN dict.functions,
                      NEW m \in DOMAIN dict.functions[k].params,
                      k < i' \/ (k = i' /\ m < j')
               PROVE  dict.functions[k].params[m].type \in DOMAIN types
  BY <1>5 DEF ParamsKnown
<1>7. /\ k \in Nat /\ m \in Nat /\ m > 0
      /\ m <= Len(dict.functions[k].params)
  BY ParamPosition DEF TypeInv
<1>8. k < i
  BY <1>2, <1>3, <1>6, <1>7, DictType DEF TypeInv
<1> QED
  BY <1>4, <1>8 DEF ParamsKnown

\* A loop that has reached the end of its dictionary has passed everything.
LEMMA PassedFields ==
  ASSUME TypeInv, VisitedInv, InsertFields
  PROVE  AllFieldsKnown
<1>1. FieldsKnown(i, j) /\ i > Len(dict.types)
  BY DEF VisitedInv, InsertFields
<1>2. \A k \in DOMAIN dict.types : \A m \in DOMAIN dict.types[k].fields : k < i
  BY <1>1, FieldPosition, DictType DEF TypeInv
<1> QED
  BY <1>1, <1>2 DEF FieldsKnown, AllFieldsKnown

\* At the commit of the functions every return type is in Types.
LEMMA PassedReturns ==
  ASSUME TypeInv, VisitedInv, InsertFunctions
  PROVE  AllReturnsKnown
<1>1. ReturnsKnown(i) /\ i > Len(dict.functions)
  BY DEF VisitedInv, InsertFunctions
<1>2. DOMAIN dict.functions = 1 .. Len(dict.functions)
      /\ Len(dict.functions) \in Nat
  BY DictType, LenProperties DEF TypeInv
<1>3. \A k \in DOMAIN dict.functions : k < i
  BY <1>1, <1>2, DictType DEF TypeInv
<1> QED
  BY <1>1, <1>3 DEF ReturnsKnown, AllReturnsKnown

\* At the commit of the arguments every argument type is in Types.
LEMMA PassedParams ==
  ASSUME TypeInv, VisitedInv, InsertArguments
  PROVE  AllParamsKnown
<1>1. ParamsKnown(i, j) /\ i > Len(dict.functions)
  BY DEF VisitedInv, InsertArguments
<1>2. \A k \in DOMAIN dict.functions :
        \A m \in DOMAIN dict.functions[k].params : k < i
  BY <1>1, ParamPosition, DictType DEF TypeInv
<1> QED
  BY <1>1, <1>2 DEF ParamsKnown, AllParamsKnown

\* Nothing lies before the first entry.
LEMMA NothingPassed ==
  ASSUME TypeOK
  PROVE  FieldsKnown(1, 0) /\ ReturnsKnown(1) /\ ParamsKnown(1, 0)
<1>1. FieldsKnown(1, 0)
  BY FieldPosition DEF FieldsKnown
<1>2. ParamsKnown(1, 0)
  BY ParamPosition DEF ParamsKnown
<1>3. DOMAIN dict.functions = 1 .. Len(dict.functions)
      /\ Len(dict.functions) \in Nat
  BY DictType, LenProperties
<1>4. ReturnsKnown(1)
  BY <1>3 DEF ReturnsKnown
<1> QED
  BY <1>1, <1>2, <1>4

\* What the loops have passed stays known, to later executions too.
LEMMA VisitedNext ==
  ASSUME TypeInv, VisitedInv, [Next]_vars
  PROVE  VisitedInv'
<1>0. /\ dict' = dict
      /\ DeclaredKnown => DeclaredKnown'
      /\ AllFieldsKnown => AllFieldsKnown'
      /\ AllReturnsKnown => AllReturnsKnown'
  BY KnownStays
<1>1. CASE InsertTypes
  <2>1. DOMAIN types' = DOMAIN types \cup DOMAIN Declared
    BY <1>1, MergeType, DeclaredType DEF TypeInv, TypeOK, InsertTypes
  <2>2. DeclaredKnown'
    BY <1>0, <2>1, DeclaredType DEF DeclaredKnown, TypeInv
  <2>3. phase' = "fields" /\ i' = 1 /\ j' = 0
    BY <1>1 DEF InsertTypes, Enter
  <2>4. TypeOK'
    BY TypeNext DEF TypeInv
  <2>5. (FieldsKnown(1, 0))'
    <3>1. FieldsKnown(1, 0)
      BY NothingPassed DEF TypeInv
    <3> QED
      BY <1>0, <2>1, <3>1 DEF FieldsKnown
  <2>6. FieldsKnown(i, j)'
    BY <2>3, <2>5 DEF FieldsKnown
  <2> QED
    BY <2>2, <2>3, <2>6 DEF VisitedInv
<1>2. CASE VisitType \/ ResolveField
  <2>1. phase = "fields" /\ phase' = "fields"
    BY <1>2 DEF VisitType, ResolveField
  <2>2. FieldsKnown(i, j)'
    BY <1>2, VisitedVisitType, VisitedResolveField
  <2> QED
    BY <1>0, <2>1, <2>2 DEF VisitedInv
<1>3. CASE InsertFields
  <2>1. phase = "fields" /\ phase' = "catalog"
    BY <1>3 DEF InsertFields, Enter
  <2> QED
    BY <1>0, <1>3, <2>1, PassedFields DEF VisitedInv
<1>4. CASE InsertCatalog
  <2>1. phase = "catalog" /\ phase' = "functions" /\ i' = 1 /\ types' = types
    BY <1>4 DEF InsertCatalog, Enter
  <2>2. ReturnsKnown(i)'
    BY <1>0, <2>1, NothingPassed DEF ReturnsKnown, TypeInv
  <2> QED
    BY <1>0, <2>1, <2>2 DEF VisitedInv
<1>5. CASE ResolveFunction
  <2>1. phase = "functions" /\ phase' = "functions"
    BY <1>5 DEF ResolveFunction
  <2> QED
    BY <1>0, <1>5, <2>1, VisitedResolveFunction DEF VisitedInv
<1>6. CASE InsertFunctions
  <2>1. /\ phase = "functions" /\ phase' = "arguments"
        /\ i' = 1 /\ j' = 0 /\ types' = types
    BY <1>6 DEF InsertFunctions, Enter
  <2>2. ParamsKnown(i, j)'
    BY <1>0, <2>1, NothingPassed DEF ParamsKnown, TypeInv
  <2> QED
    BY <1>0, <1>6, <2>1, <2>2, PassedReturns DEF VisitedInv
<1>7. CASE VisitFunction \/ ResolveArgument
  <2>1. phase = "arguments" /\ phase' = "arguments"
    BY <1>7 DEF VisitFunction, ResolveArgument
  <2>2. ParamsKnown(i, j)'
    BY <1>7, VisitedVisitFunction, VisitedResolveArgument
  <2> QED
    BY <1>0, <2>1, <2>2 DEF VisitedInv
<1>8. CASE RunScript \/ InsertArguments \/ Crash
  <2>1. phase' \in {"types", "done", "idle"}
    BY <1>8 DEF RunScript, InsertArguments, Crash, Enter
  <2> QED
    BY <2>1 DEF VisitedInv
<1>9. CASE UNCHANGED vars
  BY <1>9 DEF vars, tables, memory, VisitedInv, DeclaredKnown, AllFieldsKnown,
              AllReturnsKnown, FieldsKnown, ReturnsKnown, ParamsKnown
<1> QED
  BY <1>1, <1>2, <1>3, <1>4, <1>5, <1>6, <1>7, <1>8, <1>9 DEF Next, Step

\* A search for a name that is there finds it and changes nothing.
LEMMA SearchFinds ==
  ASSUME NEW n, NEW len, NEW row, ResolveRow(n, len, row),
         n \in DOMAIN types, missing = FALSE
  PROVE  types' = types /\ missing' = missing
BY DEF ResolveRow, Strand, Strip, Resolve

\* With every name of the dictionary in Types no step changes the table.
LEMMA SettledStep ==
  ASSUME TypeInv, SettledInv, arguments # << >>, [Next]_vars
  PROVE  types' = types /\ missing' = FALSE
<1>0. /\ DeclaredKnown /\ AllFieldsKnown /\ AllReturnsKnown /\ AllParamsKnown
      /\ missing = FALSE
  BY DEF SettledInv
<1>1. CASE InsertTypes
  <2>1. DOMAIN Declared \subseteq DOMAIN types
    BY <1>0, DeclaredType DEF DeclaredKnown, TypeInv
  <2>2. types = [n \in DOMAIN types |-> types[n]]
    BY DEF TypeInv, TypeOK, TypeTable
  <2>3. Merge(types, Declared) = [n \in DOMAIN types |-> types[n]]
    BY <2>1 DEF Merge
  <2> QED
    BY <1>0, <1>1, <2>2, <2>3 DEF InsertTypes
<1>2. CASE ResolveField
  <2>1. /\ i \in DOMAIN dict.types /\ j \in DOMAIN dict.types[i].fields
        /\ i < Len(dict.types) + 1
    <3>1. /\ i \in Nat /\ i > 0 /\ i <= Len(dict.types) /\ j \in Nat /\ j > 0
          /\ j <= Len(dict.types[i].fields) /\ dict.types \in Seq(TypeEntry)
      BY <1>2, DictType DEF TypeInv, PositionOK, ResolveField
    <3>2. dict.types[i].fields \in Seq(Params)
      BY <3>1, EntryType DEF TypeInv, TypeEntry
    <3> QED
      BY <3>1, <3>2, LenProperties
  <2>2. dict.types[i].fields[j].type \in DOMAIN types
    BY <1>0, <2>1 DEF AllFieldsKnown, FieldsKnown
  <2> QED
    BY <1>0, <1>2, <2>2, SearchFinds DEF ResolveField
<1>3. CASE ResolveFunction
  <2>1. i \in DOMAIN dict.functions /\ i < Len(dict.functions) + 1
    <3>1. /\ i \in Nat /\ i > 0 /\ i <= Len(dict.functions)
          /\ dict.functions \in Seq(FunctionEntry)
      BY <1>3, DictType DEF TypeInv, ResolveFunction
    <3> QED
      BY <3>1, LenProperties
  <2>2. dict.functions[i].ret \in DOMAIN types
    BY <1>0, <2>1 DEF AllReturnsKnown, ReturnsKnown
  <2> QED
    BY <1>0, <1>3, <2>2, SearchFinds DEF ResolveFunction
<1>4. CASE ResolveArgument
  <2>1. /\ i \in DOMAIN dict.functions /\ j \in DOMAIN dict.functions[i].params
        /\ i < Len(dict.functions) + 1
    <3>1. /\ i \in Nat /\ i > 0 /\ i <= Len(dict.functions)
          /\ j \in Nat /\ j > 0 /\ j <= Len(dict.functions[i].params)
          /\ dict.functions \in Seq(FunctionEntry)
      BY <1>4, DictType DEF TypeInv, PositionOK, ResolveArgument
    <3>2. dict.functions[i].params \in Seq(Params)
      BY <3>1, FunctionType DEF TypeInv, FunctionEntry
    <3> QED
      BY <3>1, <3>2, LenProperties
  <2>2. dict.functions[i].params[j].type \in DOMAIN types
    BY <1>0, <2>1 DEF AllParamsKnown, ParamsKnown
  <2> QED
    BY <1>0, <1>4, <2>2, SearchFinds DEF ResolveArgument
<1>5. CASE RunScript \/ VisitType \/ InsertFields \/ InsertCatalog
           \/ InsertFunctions \/ VisitFunction \/ InsertArguments \/ Crash
           \/ UNCHANGED vars
  BY <1>0, <1>5 DEF RunScript, VisitType, InsertFields, InsertCatalog,
     InsertFunctions, VisitFunction, InsertArguments, Crash, vars, tables,
     memory
<1> QED
  BY <1>1, <1>2, <1>3, <1>4, <1>5 DEF Next, Step

\* After the first execution that reached its end every name of the dictionary
\* is in Types, and stays there.
LEMMA SettledNext ==
  ASSUME TypeInv, VisitedInv, SettledInv, [Next]_vars
  PROVE  SettledInv'
<1>1. CASE arguments # << >>
  BY <1>1, KnownStays, SettledStep DEF SettledInv
<1>2. CASE arguments = << >> /\ InsertArguments
  <2>1. DeclaredKnown /\ AllFieldsKnown /\ AllReturnsKnown /\ AllParamsKnown
    BY <1>2, PassedParams DEF VisitedInv, InsertArguments
  <2>2. missing = FALSE
    <3>1. phase = "arguments" /\ ~ (j > 0)
      BY <1>2, DictType, SeqElement DEF TypeInv, PositionOK, InsertArguments
    <3> QED
      BY <3>1 DEF TypeInv, TypeOK, MissingOK
  <2> QED
    BY <1>2, <2>1, <2>2, KnownStays DEF SettledInv, InsertArguments
<1>3. CASE arguments = << >> /\ ~ InsertArguments
  <2>1. arguments' = arguments
    BY <1>3 DEF Next, Step, RunScript, InsertTypes, VisitType, ResolveField,
       InsertFields, InsertCatalog, ResolveFunction, InsertFunctions,
       VisitFunction, ResolveArgument, Crash, vars, tables
  <2> QED
    BY <1>3, <2>1 DEF SettledInv
<1> QED
  BY <1>1, <1>2, <1>3

\* After the first execution that reached its end no step of any execution,
\* complete or not, adds or changes a row of Types.
THEOREM TypesBecomeFinal == Spec => TypesSettle
<1>1. Init => VisitedInv /\ SettledInv
  BY DEF Init, VisitedInv, SettledInv
<1>2. TypeInv /\ VisitedInv /\ SettledInv /\ [Next]_vars
        => (VisitedInv /\ SettledInv)'
  BY VisitedNext, SettledNext
<1>3. TypeInv /\ SettledInv /\ [Next]_vars
        => [arguments # << >> => types' = types]_vars
  BY SettledStep
<1> QED
  BY <1>1, <1>2, <1>3, TypeInvariance, PTL DEF Spec, TypesSettle

-----------------------------------------------------------------------------
(* Declarations                                                            *)

\* INSERT OR IGNORE: a row of Types stays as it is.
LEMMA MergeKeeps ==
  ASSUME NEW table, NEW batch
  PROVE  /\ DOMAIN Merge(table, batch) = DOMAIN table \cup DOMAIN batch
         /\ \A n \in DOMAIN table : Merge(table, batch)[n] = table[n]
         /\ \A n \in DOMAIN batch \ DOMAIN table : Merge(table, batch)[n] = batch[n]
BY DEF Merge

\* Of a step: every row of Types is there afterwards, as it was.
RowsStay ==
  \A n \in DOMAIN types : n \in DOMAIN types' /\ types'[n] = types[n]

\* A search adds rows and changes none.
LEMMA ResolveRowKeeps ==
  ASSUME NEW n, NEW len, NEW row, ResolveRow(n, len, row)
  PROVE  RowsStay
<1>1. ASSUME NEW batch, types' = Merge(types, batch) PROVE RowsStay
  <2>1. /\ DOMAIN Merge(types, batch) = DOMAIN types \cup DOMAIN batch
        /\ \A m \in DOMAIN types : Merge(types, batch)[m] = types[m]
    BY MergeKeeps, Zenon
  <2> QED
    BY <1>1, <2>1 DEF RowsStay
<1>2. ASSUME Strip(n) PROVE RowsStay
  BY <1>1, <1>2 DEF Strip
<1>3. ASSUME NEW t, Resolve(n, t) PROVE RowsStay
  <2>1. CASE types' = types
    BY <2>1 DEF RowsStay
  <2> QED
    BY <1>1, <1>2, <1>3, <2>1 DEF Resolve
<1> QED
  BY <1>2, <1>3 DEF ResolveRow, Strand

\* The actions after the commit of the declarations, and those outside of an
\* execution.
LEMMA RowsStayOrInsertTypes ==
  ASSUME [Next]_vars
  PROVE  \/ InsertTypes
         \/ /\ RowsStay /\ dict' = dict
            /\ \/ types' = types /\ phase' \in {"idle", "types"}
               \/ types' = types /\ phase' = phase
               \/ phase \notin {"idle", "types"}
<1>1. CASE ResolveField
  BY <1>1, ResolveRowKeeps DEF ResolveField
<1>2. CASE ResolveFunction
  BY <1>2, ResolveRowKeeps DEF ResolveFunction
<1>3. CASE ResolveArgument
  <2>1. RowsStay
    BY <1>3, ResolveRowKeeps DEF ResolveArgument
  <2> QED
    BY <1>3, <2>1 DEF ResolveArgument
<1>4. CASE RunScript \/ Crash
  BY <1>4 DEF RunScript, Crash, Enter, RowsStay, tables
<1>5. CASE VisitType \/ VisitFunction
  BY <1>5 DEF VisitType, VisitFunction, RowsStay, tables
<1>6. CASE InsertFields \/ InsertCatalog \/ InsertFunctions \/ InsertArguments
  BY <1>6 DEF InsertFields, InsertCatalog, InsertFunctions, InsertArguments,
              Enter, RowsStay
<1>7. CASE UNCHANGED vars
  BY <1>7 DEF vars, tables, memory, RowsStay
<1> QED
  BY <1>1, <1>2, <1>3, <1>4, <1>5, <1>6, <1>7 DEF Next, Step

\* The declarations are the first rows that are committed, and rows stay.
LEMMA DeclaredNext == DeclaredWins /\ [Next]_vars => DeclaredWins'
<1> SUFFICES ASSUME DeclaredWins, [Next]_vars,
                    types' # << >> \/ phase' \notin {"idle", "types"}
             PROVE  \A n \in DOMAIN Declared' :
                      n \in DOMAIN types' /\ types'[n] = Declared'[n]
  BY DEF DeclaredWins
<1>1. CASE InsertTypes
  <2>1. types' = Merge(types, Declared) /\ Declared' = Declared
    BY <1>1 DEF InsertTypes, Declared
  <2>2. /\ DOMAIN Merge(types, Declared) = DOMAIN types \cup DOMAIN Declared
        /\ \A n \in DOMAIN types : Merge(types, Declared)[n] = types[n]
        /\ \A n \in DOMAIN Declared \ DOMAIN types :
             Merge(types, Declared)[n] = Declared[n]
    BY MergeKeeps, Zenon
  <2>3. CASE types = << >>
    <3>1. DOMAIN types = {}
      BY <2>3
    <3> QED
      BY <2>1, <2>2, <3>1
  <2>4. CASE types # << >>
    <3>1. \A n \in DOMAIN Declared : n \in DOMAIN types /\ types[n] = Declared[n]
      BY <2>4 DEF DeclaredWins
    <3> QED
      BY <2>1, <2>2, <3>1
  <2> QED
    BY <2>3, <2>4
<1>2. CASE ~InsertTypes
  <2>1. RowsStay /\ dict' = dict
    BY <1>2, RowsStayOrInsertTypes
  <2>2. types # << >> \/ phase \notin {"idle", "types"}
    BY <1>2, RowsStayOrInsertTypes
  <2>3. \A n \in DOMAIN Declared : n \in DOMAIN types /\ types[n] = Declared[n]
    BY <2>2 DEF DeclaredWins
  <2>4. Declared' = Declared
    BY <2>1 DEF Declared
  <2> QED
    BY <2>1, <2>3, <2>4 DEF RowsStay
<1> QED
  BY <1>1, <1>2

\* Of every dictionary and in every history of executions, what the dictionary
\* declares of a type is what the catalogue says of it.
THEOREM DeclarationsWin == Spec => []DeclaredWins
<1>1. Init => DeclaredWins
  BY DEF Init, DeclaredWins
<1> QED
  BY <1>1, DeclaredNext, PTL DEF Spec

-----------------------------------------------------------------------------
(* Orphans                                                                 *)

\* The names in new_types_list have been committed.
NewKnown == newTypes \subseteq DOMAIN types

\* The stars of a pointer type that is met on the way, and of its base.
LEMMA StarredBase ==
  ASSUME NEW n \in Names, NEW m \in Starred(n)
  PROVE  LET base == [m EXCEPT !.stars = m.stars - 1]
         IN  base = Root(n) \/ base \in Starred(n)
<1>1. PICK k \in 1 .. n.stars : m = [n EXCEPT !.stars = k]
  BY DEF Starred
<1>2. [m EXCEPT !.stars = m.stars - 1] = [n EXCEPT !.stars = k - 1]
  BY <1>1 DEF Names
<1>3. k - 1 = 0 \/ k - 1 \in 1 .. n.stars
  BY <1>1 DEF Names
<1> QED
  BY <1>2, <1>3 DEF Starred, Root

\* A failed search for the name that is wanted: each pointer type it makes up
\* has its base among those it makes up, but for the last, whose base is the
\* name without stars.
LEMMA StripOrphans ==
  ASSUME TypeOK, NewTypesOK, NewKnown, NEW n \in Names, Strip(n), dict' = dict,
         Root(n) \in DOMAIN types' \/ (missing' = TRUE /\ Wanted' = n)
  PROVE  Orphans' \subseteq Orphans /\ NewKnown'
<1>1. /\ missing = FALSE /\ newTypes' = newTypes \cup Starred(n)
      /\ types' = Merge(types, PointerRows(newTypes'))
  BY DEF Strip, TypeOK
<1>2. newTypes' \subseteq Names /\ \A m \in newTypes' : m.stars > 0
  BY <1>1, StarredType DEF TypeOK, NewTypesOK
<1>3. /\ DOMAIN PointerRows(newTypes') = newTypes'
      /\ \A m \in newTypes' : PointerRows(newTypes')[m].base
                                = [m EXCEPT !.stars = m.stars - 1]
  BY DEF PointerRows
<1>4. /\ DOMAIN types' = DOMAIN types \cup newTypes'
      /\ \A m \in DOMAIN types : types'[m] = types[m]
      /\ \A m \in newTypes' \ DOMAIN types :
           types'[m].base = [m EXCEPT !.stars = m.stars - 1]
  <2> DEFINE batch == PointerRows(newTypes')
  <2>1. /\ DOMAIN Merge(types, batch) = DOMAIN types \cup DOMAIN batch
        /\ \A m \in DOMAIN types : Merge(types, batch)[m] = types[m]
        /\ \A m \in DOMAIN batch \ DOMAIN types : Merge(types, batch)[m] = batch[m]
    BY MergeKeeps, Zenon
  <2> QED
    BY <1>1, <1>3, <2>1
<1>5. NewKnown'
  BY <1>4 DEF NewKnown
<1>6. ASSUME NEW m \in Orphans' PROVE m \in Orphans
  <2>1. /\ m \in DOMAIN types' /\ types'[m].base \notin DOMAIN types'
        /\ ~(missing' /\ types'[m].base = Root(Wanted'))
        /\ types'[m].base # NONE
        /\ \A k \in DOMAIN dict.types : dict.types[k].name # m
    BY <1>6 DEF Orphans, Root
  <2>2. CASE m \in DOMAIN types
    BY <1>1, <1>4, <2>1, <2>2 DEF Orphans
  <2>3. CASE m \notin DOMAIN types
    <3>1. m \in Starred(n)
      BY <1>1, <1>4, <2>1, <2>3 DEF NewKnown
    <3>2. types'[m].base = [m EXCEPT !.stars = m.stars - 1]
      BY <1>1, <1>4, <2>3, <3>1
    <3>3. types'[m].base = Root(n) \/ types'[m].base \in Starred(n)
      BY <3>1, <3>2, StarredBase
    <3>4. types'[m].base = Root(n)
      BY <1>1, <1>4, <2>1, <3>3
    <3> QED
      BY <2>1, <3>4
  <2> QED
    BY <2>2, <2>3
<1> QED
  BY <1>5, <1>6

\* A search for the name that is wanted, whichever way it ends.
LEMMA ResolveRowOrphans ==
  ASSUME TypeInv, NewKnown, NEW n \in Names, n = Wanted, NEW len, NEW row,
         ResolveRow(n, len, row), dict' = dict, phase' = phase
  PROVE  Orphans' \subseteq Orphans /\ NewKnown'
<1>1. CASE Strand(n) /\ UNCHANGED <<rows, i, j>>
  <2>1. missing' = TRUE /\ Wanted' = n /\ Strip(n)
    BY <1>1 DEF Strand, Wanted
  <2> QED
    BY <2>1, StripOrphans DEF TypeInv
<1>2. ASSUME NEW t, Resolve(n, t)
      PROVE  Orphans' \subseteq Orphans /\ NewKnown'
  <2>1. CASE UNCHANGED <<types, newTypes, missing>> /\ ~missing
    BY <2>1 DEF Orphans, NewKnown
  <2>2. CASE Strip(n) /\ Root(n) \in DOMAIN types'
    BY <2>2, StripOrphans DEF TypeInv
  <2>3. CASE /\ missing /\ types' = Merge(types, UnknownRow(Root(n)))
             /\ missing' = FALSE /\ newTypes' = newTypes
    <3>1. /\ DOMAIN UnknownRow(Root(n)) = {Root(n)}
          /\ UnknownRow(Root(n))[Root(n)].base = NONE
      BY DEF UnknownRow
    <3>2. /\ DOMAIN types' = DOMAIN types \cup {Root(n)}
          /\ \A m \in DOMAIN types : types'[m] = types[m]
          /\ Root(n) \notin DOMAIN types => types'[Root(n)].base = NONE
      <4> DEFINE batch == UnknownRow(Root(n))
      <4>1. /\ DOMAIN Merge(types, batch) = DOMAIN types \cup DOMAIN batch
            /\ \A m \in DOMAIN types : Merge(types, batch)[m] = types[m]
            /\ \A m \in DOMAIN batch \ DOMAIN types : Merge(types, batch)[m] = batch[m]
        BY MergeKeeps, Zenon
      <4> QED
        BY <2>3, <3>1, <4>1
    <3>3. ASSUME NEW m \in Orphans' PROVE m \in Orphans
      <4>1. /\ m \in DOMAIN types' /\ types'[m].base \notin DOMAIN types'
            /\ types'[m].base # NONE
            /\ \A k \in DOMAIN dict.types : dict.types[k].name # m
        BY <3>3 DEF Orphans
      <4>2. m \in DOMAIN types /\ types'[m].base # Root(Wanted)
        BY <3>2, <4>1
      <4> QED
        BY <3>2, <4>1, <4>2 DEF Orphans
    <3> QED
      BY <2>3, <3>2, <3>3 DEF NewKnown
  <2> QED
    BY <1>2, <2>1, <2>2, <2>3 DEF Resolve
<1> QED
  BY <1>1, <1>2 DEF ResolveRow

\* Outside of the searches and of the batch of declarations Types stays as it
\* is, and nothing is due; but for a death.
LEMMA OrphansNext ==
  ASSUME TypeInv, NewKnown, [Next]_vars
  PROVE  /\ Orphans' \subseteq Orphans \/ (missing /\ phase' = "idle")
         /\ NewKnown'
<1>1. CASE ResolveField
  <2>1. Wanted = dict.types[i].fields[j].type
    BY <1>1 DEF ResolveField, Wanted
  <2>2. Wanted \in Names
    BY <1>1, <2>1, EntryType DEF ResolveField, TypeInv, PositionOK
  <2> QED
    BY <1>1, <2>1, <2>2, ResolveRowOrphans DEF ResolveField
<1>2. CASE ResolveFunction
  <2>1. Wanted = dict.functions[i].ret
    BY <1>2 DEF ResolveFunction, Wanted
  <2>2. Wanted \in Names
    BY <1>2, <2>1, FunctionType DEF ResolveFunction, TypeInv
  <2> QED
    BY <1>2, <2>1, <2>2, ResolveRowOrphans DEF ResolveFunction
<1>3. CASE ResolveArgument
  <2>1. Wanted = dict.functions[i].params[j].type
    BY <1>3 DEF ResolveArgument, Wanted
  <2>2. Wanted \in Names
    BY <1>3, <2>1, FunctionType DEF ResolveArgument, TypeInv, PositionOK
  <2> QED
    BY <1>3, <2>1, <2>2, ResolveRowOrphans DEF ResolveArgument
<1>4. CASE InsertTypes
  <2>1. /\ missing = FALSE /\ dict' = dict /\ newTypes' = {}
        /\ types' = Merge(types, Declared) /\ missing' = missing
    BY <1>4 DEF InsertTypes, Enter, TypeInv, TypeOK, MissingOK
  <2>2. DOMAIN Declared = {dict.types[k].name : k \in DOMAIN dict.types}
    BY DeclaredType DEF TypeInv
  <2>3. /\ DOMAIN types' = DOMAIN types \cup DOMAIN Declared
        /\ \A m \in DOMAIN types : types'[m] = types[m]
    BY <2>1, MergeKeeps
  <2>4. ASSUME NEW m \in Orphans' PROVE m \in Orphans
    <3>1. /\ m \in DOMAIN types' /\ types'[m].base \notin DOMAIN types'
          /\ types'[m].base # NONE
          /\ \A k \in DOMAIN dict.types : dict.types[k].name # m
      BY <2>1, <2>4 DEF Orphans
    <3>2. m \in DOMAIN types
      BY <2>2, <2>3, <3>1
    <3> QED
      BY <2>1, <2>3, <3>1, <3>2 DEF Orphans
  <2> QED
    BY <2>1, <2>4 DEF NewKnown
<1>5. CASE /\ RunScript \/ VisitType \/ InsertFields \/ InsertCatalog
              \/ InsertFunctions \/ VisitFunction \/ InsertArguments
  <2>1. missing = FALSE
    BY <1>5 DEF RunScript, VisitType, InsertFields, InsertCatalog, InsertFunctions,
                VisitFunction, InsertArguments, TypeInv, TypeOK, PositionOK, MissingOK
  <2>2. UNCHANGED <<dict, types, missing>> /\ newTypes' \in {newTypes, {}}
    BY <1>5 DEF RunScript, VisitType, InsertFields, InsertCatalog, InsertFunctions,
                VisitFunction, InsertArguments, Enter, tables
  <2> QED
    BY <2>1, <2>2 DEF Orphans, NewKnown
<1>6. CASE Crash
  <2>1. /\ UNCHANGED <<dict, types>> /\ missing' = FALSE /\ newTypes' = {}
        /\ phase' = "idle" /\ missing \in BOOLEAN
    BY <1>6 DEF Crash, Enter, tables, TypeInv, TypeOK
  <2> QED
    BY <2>1 DEF Orphans, NewKnown
<1>7. CASE UNCHANGED vars
  BY <1>7 DEF vars, tables, memory, Orphans, NewKnown, Wanted
<1> QED
  BY <1>1, <1>2, <1>3, <1>4, <1>5, <1>6, <1>7 DEF Next, Step

\* Over every dictionary and in every history of executions, the only step
\* after which a made-up pointer type lacks its base is a death between the
\* commits of lines 63 and 69.
THEOREM OrphansComeOfCrashes == Spec => OrphansOnlyByCrash
<1>1. Init => NewKnown
  BY DEF Init, NewKnown
<1>2. TypeInv /\ NewKnown /\ [Next]_vars =>
        /\ NewKnown'
        /\ [Orphans' \subseteq Orphans \/ (missing /\ phase' = "idle")]_vars
  BY OrphansNext
<1> QED
  BY <1>1, <1>2, TypeInvariance, PTL DEF Spec, OrphansOnlyByCrash

-----------------------------------------------------------------------------
(* Batches: the rows a dictionary stands for, and their places             *)

Joining == INSTANCE Folding WITH Op <- LAMBDA p, x, y : x

\* The first n elements of g are sequences over S.
EntriesIn(S, g, n) == \A k \in 1 .. n : g[k] \in Seq(S)

\* The sequences up to the n-th, joined.
UpTo(g, n) == FlattenSeq([k \in 1 .. n |-> g[k]])

\* The place of element b of entry a among all the elements; how many elements
\* a loop has behind it that stands there.
Place(g, a, b) == Len(UpTo(g, a - 1)) + (IF b = 0 THEN 0 ELSE b - 1)

LEMMA UpToFacts ==
  ASSUME NEW S, NEW g, NEW n \in Nat, EntriesIn(S, g, n)
  PROVE  /\ UpTo(g, 0) = << >>
         /\ \A a \in 0 .. n : UpTo(g, a) \in Seq(S) /\ Len(UpTo(g, a)) \in Nat
         /\ \A a \in 1 .. n : UpTo(g, a) = UpTo(g, a - 1) \o g[a]
<1>1. \A ss : Joining!FlattenSeq(ss) = FlattenSeq(ss)
  BY DEF Joining!FlattenSeq, FlattenSeq
<1>2. UpTo(g, 0) = << >>
  <2>1. [k \in 1 .. 0 |-> g[k]] = << >>
    OBVIOUS
  <2> QED
    BY <2>1 DEF FlattenSeq, UpTo
<1>3. ASSUME NEW a \in 1 .. n
      PROVE  /\ UpTo(g, a - 1) \in Seq(S)
             /\ UpTo(g, a) = UpTo(g, a - 1) \o g[a]
  <2>1. a - 1 \in Nat /\ (a - 1) + 1 = a /\ \A k \in 1 .. a : g[k] \in Seq(S)
    BY DEF EntriesIn
  <2>2. \A k \in 1 .. (a - 1) + 1 : g[k] \in Seq(S)
    BY <2>1
  <2>3. /\ FlattenSeq([k \in 1 .. a - 1 |-> g[k]]) \in Seq(S)
        /\ FlattenSeq([k \in 1 .. (a - 1) + 1 |-> g[k]]) =
             FlattenSeq([k \in 1 .. a - 1 |-> g[k]]) \o g[(a - 1) + 1]
    BY <1>1, <2>1, <2>2, Joining!FlattenUpTo
  <2> QED
    BY <2>1, <2>3 DEF UpTo
<1>4. \A a \in 0 .. n : UpTo(g, a) \in Seq(S)
  <2>1. \A a \in 1 .. n : UpTo(g, a) \in Seq(S)
    BY <1>3, ConcatProperties DEF EntriesIn
  <2>2. UpTo(g, 0) \in Seq(S)
    <3>1. << >> \in Seq(S)
      OBVIOUS
    <3> QED
      BY <1>2, <3>1
  <2>3. \A a \in 0 .. n : a = 0 \/ a \in 1 .. n
    OBVIOUS
  <2> QED
    BY <2>1, <2>2, <2>3
<1> QED
  BY <1>2, <1>3, <1>4, SeqElement

\* What is joined later does not move an element.
LEMMA PlaceOf ==
  ASSUME NEW S, NEW g, NEW n \in Nat, EntriesIn(S, g, n),
         NEW a \in 1 .. n, NEW b \in 1 .. Len(g[a])
  PROVE  /\ Place(g, a, b) + 1 \in 1 .. Len(UpTo(g, n))
         /\ UpTo(g, n)[Place(g, a, b) + 1] = g[a][b]
<1> DEFINE p == Len(UpTo(g, a - 1)) + b
           D == {k \in Nat : a + k <= n =>
                   p <= Len(UpTo(g, a + k)) /\ UpTo(g, a + k)[p] = g[a][b]}
<1>1. a - 1 \in 0 .. n /\ a \in Nat /\ g[a] \in Seq(S) /\ b \in Nat /\ b > 0
  BY DEF EntriesIn
<1>2. Len(UpTo(g, a - 1)) \in Nat /\ UpTo(g, a - 1) \in Seq(S)
  BY <1>1, UpToFacts
<1>3. p \in Nat /\ p > 0
  BY <1>1, <1>2
<1>4. 0 \in D
  <2>1. UpTo(g, a) = UpTo(g, a - 1) \o g[a]
    BY UpToFacts
  <2>2. /\ Len(UpTo(g, a)) = Len(UpTo(g, a - 1)) + Len(g[a])
        /\ UpTo(g, a)[p] = g[a][b]
    BY <1>1, <1>2, <2>1
  <2>3. a + 0 = a /\ Len(UpTo(g, a - 1)) + b <= Len(UpTo(g, a))
    BY <1>1, <1>2, <2>2
  <2> QED
    BY <2>2, <2>3
<1>5. ASSUME NEW k \in Nat, k \in D PROVE k + 1 \in D
  <2> SUFFICES ASSUME a + (k + 1) <= n
               PROVE  /\ p <= Len(UpTo(g, a + (k + 1)))
                      /\ UpTo(g, a + (k + 1))[p] = g[a][b]
    OBVIOUS
  <2> DEFINE s == UpTo(g, a + k)
             t == g[a + (k + 1)]
  <2>1. /\ a + (k + 1) \in 1 .. n /\ (a + (k + 1)) - 1 = a + k
        /\ a + k \in 0 .. n /\ a + k <= n
    BY <1>1
  <2>2. UpTo(g, a + (k + 1)) = s \o t /\ s \in Seq(S) /\ t \in Seq(S)
    BY <2>1, UpToFacts DEF EntriesIn
  <2>3. p <= Len(s) /\ s[p] = g[a][b]
    BY <1>5, <2>1
  <2> HIDE DEF s, t, p
  <2>4. Len(s \o t) = Len(s) + Len(t) /\ Len(s) \in Nat /\ Len(t) \in Nat
    BY <2>2
  <2>5. p \in 1 .. Len(s)
    BY <1>3, <2>3, <2>4
  <2>6. (s \o t)[p] = s[p]
    BY <2>2, <2>5
  <2> QED
    BY <1>3, <2>2, <2>3, <2>4, <2>6
<1>6. n - a \in Nat /\ a + (n - a) = n
  BY <1>1
<1>7. n - a \in D
  <2> HIDE DEF D
  <2> QED
    BY <1>4, <1>5, <1>6, Joining!Induction
<1>8. p <= Len(UpTo(g, n)) /\ UpTo(g, n)[p] = g[a][b]
  BY <1>6, <1>7
<1>9. Place(g, a, b) + 1 = p
  <2>1. Place(g, a, b) = Len(UpTo(g, a - 1)) + (b - 1)
    BY <1>1 DEF Place
  <2> QED
    BY <1>1, <1>2, <2>1
<1>10. Len(UpTo(g, n)) \in Nat
  BY UpToFacts
<1> HIDE DEF p
<1> QED
  BY <1>3, <1>8, <1>9, <1>10

\* The loop takes one element and advances, or passes the head of an entry.
LEMMA PlaceMoves ==
  ASSUME NEW S, NEW g, NEW n \in Nat, EntriesIn(S, g, n),
         NEW a \in 1 .. n, NEW b \in Nat, b <= Len(g[a]), NEW a2, NEW b2,
         \/ a2 = a /\ b2 = b + 1
         \/ a2 = a + 1 /\ b2 = 0 /\ Len(g[a]) <= b
  PROVE  Place(g, a2, b2) = Place(g, a, b) + (IF b = 0 THEN 0 ELSE 1)
<1>1. a - 1 \in 0 .. n /\ a \in 0 .. n /\ (a + 1) - 1 = a /\ g[a] \in Seq(S)
  BY DEF EntriesIn
<1>2. Len(UpTo(g, a - 1)) \in Nat /\ Len(g[a]) \in Nat
  BY <1>1, UpToFacts
<1>3. Len(UpTo(g, a)) = Len(UpTo(g, a - 1)) + Len(g[a])
  <2>1. UpTo(g, a) = UpTo(g, a - 1) \o g[a] /\ UpTo(g, a - 1) \in Seq(S)
    BY <1>1, UpToFacts
  <2> QED
    BY <1>1, <2>1
<1>4. Place(g, a, b) = Len(UpTo(g, a - 1)) + (IF b = 0 THEN 0 ELSE b - 1)
  BY DEF Place
<1>5. CASE a2 = a /\ b2 = b + 1
  <2>1. Place(g, a2, b2) = Len(UpTo(g, a - 1)) + b
    <3>1. b + 1 # 0 /\ (b + 1) - 1 = b
      OBVIOUS
    <3> QED
      BY <1>5, <3>1 DEF Place
  <2>2. CASE b = 0
    BY <1>2, <1>4, <2>1, <2>2
  <2>3. CASE b # 0
    <3>1. Place(g, a, b) = Len(UpTo(g, a - 1)) + (b - 1)
      BY <1>4, <2>3
    <3> QED
      BY <1>2, <2>1, <2>3, <3>1
  <2> QED
    BY <2>2, <2>3
<1>6. CASE a2 = a + 1 /\ b2 = 0 /\ Len(g[a]) <= b
  <2>1. Place(g, a2, b2) = Len(UpTo(g, a)) /\ Len(g[a]) = b
    BY <1>1, <1>2, <1>6 DEF Place
  <2> QED
    BY <1>2, <1>3, <1>4, <2>1
<1> QED
  BY <1>5, <1>6

LEMMA Remainder ==
  ASSUME NEW n \in Nat \ {0}, NEW c \in Nat, NEW m \in 0 .. n - 1
  PROVE  (c * n + m) % n = m /\ c * n \in Nat
OBVIOUS

\* A sequence repeated: the places of one copy after some others.
LEMMA SourceOfCopy ==
  ASSUME NEW S, NEW s \in Seq(S), NEW c \in Nat, NEW m \in 1 .. Len(s)
  PROVE  Source(s, c * Len(s) + m) = s[m]
<1>1. Len(s) \in Nat \ {0} /\ m - 1 \in 0 .. Len(s) - 1
  OBVIOUS
<1>2. (c * Len(s) + (m - 1)) % Len(s) = m - 1 /\ c * Len(s) \in Nat
  BY <1>1, Remainder
<1>3. (c * Len(s) + m) - 1 = c * Len(s) + (m - 1) /\ (m - 1) + 1 = m
  BY <1>1, <1>2
<1> QED
  BY <1>2, <1>3 DEF Source

LEMMA SourceElement ==
  ASSUME NEW S, NEW s \in Seq(S), Len(s) > 0, NEW k \in Nat \ {0}
  PROVE  Source(s, k) \in S
<1>1. Len(s) \in Nat \ {0} /\ k - 1 \in Nat
  OBVIOUS
<1>2. (k - 1) % Len(s) \in 0 .. Len(s) - 1
  BY <1>1
<1>3. ((k - 1) % Len(s)) + 1 \in 1 .. Len(s)
  BY <1>1, <1>2
<1> QED
  BY <1>3 DEF Source

\* The rows in memory are made from the elements they stand for; M is the set of
\* pairs of a row and an element it may be made from.
Made(list, source, M) ==
  \A k \in 1 .. Len(list) : k <= Len(source) /\ <<list[k], source[k]>> \in M

\* A table holds c copies.
Holds(table, source, M, c) ==
  /\ Len(table) = c * Len(source)
  /\ \A k \in 1 .. Len(table) : <<table[k], Source(source, k)>> \in M

\* A batch is one copy more.
LEMMA BatchAdded ==
  ASSUME NEW S, NEW table \in Seq(S), NEW list \in Seq(S),
         NEW T, NEW source \in Seq(T), NEW M, NEW c \in Nat,
         Holds(table, source, M, c), Made(list, source, M),
         Len(list) = Len(source)
  PROVE  Holds(table \o list, source, M, c + 1)
<1>1. /\ Len(table) \in Nat /\ Len(list) \in Nat /\ Len(source) \in Nat
      /\ Len(table \o list) = Len(table) + Len(list)
  OBVIOUS
<1>2. Len(table) = c * Len(source)
  BY DEF Holds
<1>3. (c + 1) * Len(source) = c * Len(source) + Len(source)
  BY <1>1
<1>4. ASSUME NEW k \in 1 .. Len(table \o list)
      PROVE  <<(table \o list)[k], Source(source, k)>> \in M
  <2>1. CASE k <= Len(table)
    <3>1. k \in 1 .. Len(table)
      BY <1>1, <2>1
    <3>2. (table \o list)[k] = table[k]
      BY <3>1
    <3> QED
      BY <3>1, <3>2 DEF Holds
  <2>2. CASE ~(k <= Len(table))
    <3> DEFINE m == k - Len(table)
    <3>1. m \in 1 .. Len(list) /\ k = Len(table) + m
      BY <1>1, <2>2
    <3>2. (table \o list)[k] = list[m]
      BY <1>1, <3>1
    <3> HIDE DEF m
    <3>3. m \in 1 .. Len(source) /\ k = c * Len(source) + m
      BY <1>2, <3>1
    <3>4. Source(source, k) = source[m]
      BY <3>3, SourceOfCopy
    <3> QED
      BY <3>1, <3>2, <3>4 DEF Made
  <2> QED
    BY <2>1, <2>2
<1> QED
  BY <1>1, <1>2, <1>3, <1>4 DEF Holds

-----------------------------------------------------------------------------
(* The lists a dictionary is made of                                       *)

FieldLists(d) == [k \in DOMAIN d.types |-> EntryFields(d.types[k])]
ValueLists(d) == [k \in DOMAIN d.types |-> EntryValues(d.types[k])]
ArgumentLists(d) == [k \in DOMAIN d.functions |-> EntryArguments(d.functions[k])]

FieldSource(d) == FlattenSeq(FieldLists(d))
ValueSource(d) == FlattenSeq(ValueLists(d))
ArgumentSource(d) == FlattenSeq(ArgumentLists(d))

ArgumentSources == [name : Texts, order : Nat, owner : Texts, type : Names]

\* A row and the element it is made from; the type may have lost its stars.
FieldPairs ==
  {p \in Rows \X Rows :
     /\ p[1].name = p[2].name /\ p[1].order = p[2].order
     /\ p[1].struct = p[2].struct
     /\ p[1].type \in {p[2].type, Root(p[2].type)}}

ValuePairs == {p \in ValueRows \X ValueRows : p[1] = p[2]}

FunctionPairs ==
  {p \in FunctionRows \X FunctionEntry :
     p[1].name = p[2].name /\ p[1].ret \in {p[2].ret, Root(p[2].ret)}}

ArgumentPairs(table) ==
  {p \in ArgumentRows \X ArgumentSources :
     /\ p[1].name = p[2].name /\ p[1].order = p[2].order
     /\ p[1].func \in 1 .. Len(table) /\ table[p[1].func].name = p[2].owner
     /\ p[1].type \in {p[2].type, Root(p[2].type)}}

\* A list of sequences, and the joined sequence.
LEMMA WholeJoined ==
  ASSUME NEW S, NEW n \in Nat, NEW g, g = [k \in 1 .. n |-> g[k]],
         EntriesIn(S, g, n)
  PROVE  FlattenSeq(g) = UpTo(g, n) /\ FlattenSeq(g) \in Seq(S)
<1>1. FlattenSeq(g) = UpTo(g, n)
  BY DEF UpTo
<1>2. n \in 0 .. n
  OBVIOUS
<1>3. UpTo(g, n) \in Seq(S)
  BY <1>2, UpToFacts
<1> QED
  BY <1>1, <1>3

\* The elements of an entry.
LEMMA EntryLists ==
  ASSUME NEW e \in TypeEntry
  PROVE  /\ EntryFields(e) \in Seq(Rows)
         /\ Len(EntryFields(e)) = Len(e.fields) /\ Len(e.fields) \in Nat
         /\ EntryValues(e) \in Seq(ValueRows) /\ Len(EntryValues(e)) = Len(e.defs)
         /\ \A k \in 1 .. Len(e.fields) :
              EntryFields(e)[k] =
                [name |-> FieldName(e.fields[k].name), order |-> k - 1,
                 struct |-> e.name, type |-> e.fields[k].type]
         /\ EntryValues(e) =
              [k \in 1 .. Len(e.defs) |-> [name |-> e.defs[k], type |-> e.name]]
<1>1. e.fields \in Seq(Params) /\ e.defs \in Seq(Texts) /\ e.name \in Names
  BY DEF TypeEntry
<1>2. /\ Len(e.fields) \in Nat /\ DOMAIN e.fields = 1 .. Len(e.fields)
      /\ Len(e.defs) \in Nat /\ DOMAIN e.defs = 1 .. Len(e.defs)
  BY <1>1, LenProperties
<1>3. \A k \in 1 .. Len(e.fields) :
        e.fields[k].type \in Names /\ FieldName(e.fields[k].name) \in Texts
  <2>1. \A k \in 1 .. Len(e.fields) : e.fields[k] \in Params
    BY <1>1, SeqElement
  <2> QED
    BY <2>1, TextsAssumption DEF Params, FieldName
<1>4. \A k \in 1 .. Len(e.defs) : e.defs[k] \in Texts
  BY <1>1, SeqElement
<1>5. EntryFields(e) =
        [k \in 1 .. Len(e.fields) |->
           [name |-> FieldName(e.fields[k].name), order |-> k - 1,
            struct |-> e.name, type |-> e.fields[k].type]]
  BY <1>2 DEF EntryFields
<1>6. EntryValues(e) =
        [k \in 1 .. Len(e.defs) |-> [name |-> e.defs[k], type |-> e.name]]
  BY <1>2 DEF EntryValues
<1>7. \A k \in 1 .. Len(e.fields) :
        [name |-> FieldName(e.fields[k].name), order |-> k - 1,
         struct |-> e.name, type |-> e.fields[k].type] \in Rows
  BY <1>1, <1>2, <1>3 DEF Rows
<1>8. \A k \in 1 .. Len(e.defs) : [name |-> e.defs[k], type |-> e.name] \in ValueRows
  BY <1>1, <1>4 DEF ValueRows
<1>9. EntryFields(e) \in Seq(Rows) /\ Len(EntryFields(e)) = Len(e.fields)
  BY <1>2, <1>5, <1>7
<1>10. EntryValues(e) \in Seq(ValueRows) /\ Len(EntryValues(e)) = Len(e.defs)
  BY <1>2, <1>6, <1>8
<1> QED
  BY <1>2, <1>5, <1>6, <1>9, <1>10

LEMMA FunctionLists ==
  ASSUME NEW e \in FunctionEntry
  PROVE  /\ EntryArguments(e) \in Seq(ArgumentSources)
         /\ Len(EntryArguments(e)) = Len(e.params) /\ Len(e.params) \in Nat
         /\ \A k \in 1 .. Len(e.params) :
              EntryArguments(e)[k] =
                [name |-> e.params[k].name, order |-> k - 1, owner |-> e.name,
                 type |-> e.params[k].type]
<1>1. e.params \in Seq(Params) /\ e.name \in Texts
  BY DEF FunctionEntry
<1>2. Len(e.params) \in Nat /\ DOMAIN e.params = 1 .. Len(e.params)
  BY <1>1, LenProperties
<1>3. \A k \in 1 .. Len(e.params) :
        e.params[k].type \in Names /\ e.params[k].name \in Texts
  <2>1. \A k \in 1 .. Len(e.params) : e.params[k] \in Params
    BY <1>1, SeqElement
  <2> QED
    BY <2>1 DEF Params
<1>4. EntryArguments(e) =
        [k \in 1 .. Len(e.params) |->
           [name |-> e.params[k].name, order |-> k - 1, owner |-> e.name,
            type |-> e.params[k].type]]
  BY <1>2 DEF EntryArguments
<1>5. \A k \in 1 .. Len(e.params) :
        [name |-> e.params[k].name, order |-> k - 1, owner |-> e.name,
         type |-> e.params[k].type] \in ArgumentSources
  BY <1>1, <1>2, <1>3 DEF ArgumentSources
<1>6. EntryArguments(e) \in Seq(ArgumentSources)
      /\ Len(EntryArguments(e)) = Len(e.params)
  BY <1>2, <1>4, <1>5
<1> QED
  BY <1>2, <1>4, <1>6

\* The sources of a dictionary.
LEMMA SourcesOfTypes ==
  ASSUME NEW d \in Dictionaries
  PROVE  /\ Len(d.types) \in Nat
         /\ \A k \in 1 .. Len(d.types) :
              /\ d.types[k] \in TypeEntry
              /\ FieldLists(d)[k] = EntryFields(d.types[k])
              /\ ValueLists(d)[k] = EntryValues(d.types[k])
         /\ EntriesIn(Rows, FieldLists(d), Len(d.types))
         /\ EntriesIn(ValueRows, ValueLists(d), Len(d.types))
         /\ FieldSource(d) = UpTo(FieldLists(d), Len(d.types))
         /\ FieldSource(d) \in Seq(Rows)
         /\ ValueSource(d) = UpTo(ValueLists(d), Len(d.types))
         /\ ValueSource(d) \in Seq(ValueRows)
<1>1. d.types \in Seq(TypeEntry)
  BY DEF Dictionaries
<1>2. /\ Len(d.types) \in Nat /\ DOMAIN d.types = 1 .. Len(d.types)
      /\ \A k \in 1 .. Len(d.types) : d.types[k] \in TypeEntry
  BY <1>1, LenProperties, SeqElement
<1>3. /\ FieldLists(d) = [k \in 1 .. Len(d.types) |-> EntryFields(d.types[k])]
      /\ ValueLists(d) = [k \in 1 .. Len(d.types) |-> EntryValues(d.types[k])]
  BY <1>2 DEF FieldLists, ValueLists
<1>4. /\ EntriesIn(Rows, FieldLists(d), Len(d.types))
      /\ EntriesIn(ValueRows, ValueLists(d), Len(d.types))
  BY <1>2, <1>3, EntryLists DEF EntriesIn
<1>5. /\ FieldLists(d) = [k \in 1 .. Len(d.types) |-> FieldLists(d)[k]]
      /\ ValueLists(d) = [k \in 1 .. Len(d.types) |-> ValueLists(d)[k]]
  BY <1>3
<1>6. /\ FieldSource(d) = UpTo(FieldLists(d), Len(d.types))
      /\ FieldSource(d) \in Seq(Rows)
  BY <1>2, <1>4, <1>5, WholeJoined DEF FieldSource
<1>7. /\ ValueSource(d) = UpTo(ValueLists(d), Len(d.types))
      /\ ValueSource(d) \in Seq(ValueRows)
  BY <1>2, <1>4, <1>5, WholeJoined DEF ValueSource
<1> QED
  BY <1>2, <1>3, <1>4, <1>6, <1>7

LEMMA SourcesOfFunctions ==
  ASSUME NEW d \in Dictionaries
  PROVE  /\ Len(d.functions) \in Nat /\ d.functions \in Seq(FunctionEntry)
         /\ \A k \in 1 .. Len(d.functions) :
              /\ d.functions[k] \in FunctionEntry
              /\ ArgumentLists(d)[k] = EntryArguments(d.functions[k])
         /\ EntriesIn(ArgumentSources, ArgumentLists(d), Len(d.functions))
         /\ ArgumentSource(d) = UpTo(ArgumentLists(d), Len(d.functions))
         /\ ArgumentSource(d) \in Seq(ArgumentSources)
<1>1. d.functions \in Seq(FunctionEntry)
  BY DEF Dictionaries
<1>2. /\ Len(d.functions) \in Nat /\ DOMAIN d.functions = 1 .. Len(d.functions)
      /\ \A k \in 1 .. Len(d.functions) : d.functions[k] \in FunctionEntry
  BY <1>1, LenProperties, SeqElement
<1>3. ArgumentLists(d) =
        [k \in 1 .. Len(d.functions) |-> EntryArguments(d.functions[k])]
  BY <1>2 DEF ArgumentLists
<1>4. EntriesIn(ArgumentSources, ArgumentLists(d), Len(d.functions))
  BY <1>2, <1>3, FunctionLists DEF EntriesIn
<1>5. ArgumentLists(d) = [k \in 1 .. Len(d.functions) |-> ArgumentLists(d)[k]]
  BY <1>3
<1>6. /\ ArgumentSource(d) = UpTo(ArgumentLists(d), Len(d.functions))
      /\ ArgumentSource(d) \in Seq(ArgumentSources)
  BY <1>2, <1>4, <1>5, WholeJoined DEF ArgumentSource
<1> QED
  BY <1>1, <1>2, <1>3, <1>4, <1>6

\* Rows for the elements that come next.
LEMMA MadeMore ==
  ASSUME NEW S, NEW list \in Seq(S), NEW more \in Seq(S), NEW source, NEW M,
         Made(list, source, M), Len(source) \in Nat,
         \A m \in 1 .. Len(more) :
           /\ Len(list) + m <= Len(source)
           /\ <<more[m], source[Len(list) + m]>> \in M
  PROVE  /\ Made(list \o more, source, M)
         /\ Len(list \o more) = Len(list) + Len(more)
<1>1. /\ Len(list) \in Nat /\ Len(more) \in Nat
      /\ Len(list \o more) = Len(list) + Len(more)
  OBVIOUS
<1>2. ASSUME NEW k \in 1 .. Len(list \o more)
      PROVE  k <= Len(source) /\ <<(list \o more)[k], source[k]>> \in M
  <2>1. CASE k <= Len(list)
    <3>1. k \in 1 .. Len(list)
      BY <1>1, <2>1
    <3>2. (list \o more)[k] = list[k]
      BY <3>1
    <3> QED
      BY <3>1, <3>2 DEF Made
  <2>2. CASE ~(k <= Len(list))
    <3> DEFINE m == k - Len(list)
    <3>1. m \in 1 .. Len(more) /\ k = Len(list) + m
      BY <1>1, <2>2
    <3>2. (list \o more)[k] = more[m]
      BY <1>1, <3>1
    <3> HIDE DEF m
    <3> QED
      BY <3>1, <3>2
  <2> QED
    BY <2>1, <2>2
<1> QED
  BY <1>1, <1>2 DEF Made

-----------------------------------------------------------------------------
(* A list that a loop makes                                                *)

\* The list r holds the rows of the elements the loop has behind it when it
\* stands at element b of entry a; g is the list of the n entries.
MadeUpTo(g, n, M, r, a, b) ==
  a <= n + 1 /\ Len(r) = Place(g, a, b) /\ Made(r, UpTo(g, n), M)

\* The loop moves from element b of entry a to element b2 of entry a2.
Moves(a, b, a2, b2, len) ==
  \/ a2 = a /\ b2 = b + 1 /\ b2 <= len
  \/ a2 = a + 1 /\ b2 = 0 /\ len <= b

\* The head of an entry adds nothing.
LEMMA HeadPassed ==
  ASSUME NEW S, NEW g, NEW n \in Nat, EntriesIn(S, g, n),
         NEW a \in 1 .. n, NEW a2, NEW b2, Moves(a, 0, a2, b2, Len(g[a])),
         NEW M, NEW r, MadeUpTo(g, n, M, r, a, 0)
  PROVE  MadeUpTo(g, n, M, r, a2, b2)
<1>1. g[a] \in Seq(S) /\ Len(g[a]) \in Nat
  BY SeqElement DEF EntriesIn
<1>2. /\ \/ a2 = a /\ b2 = 0 + 1
         \/ a2 = a + 1 /\ b2 = 0 /\ Len(g[a]) <= 0
      /\ 0 \in Nat /\ 0 <= Len(g[a]) /\ a2 <= n + 1
  BY <1>1 DEF Moves
<1>3. Place(g, a2, b2) = Place(g, a, 0) + (IF 0 = 0 THEN 0 ELSE 1)
  BY <1>2, PlaceMoves
<1>4. Place(g, a, 0) \in Nat
  <2>1. a - 1 \in 0 .. n
    OBVIOUS
  <2>2. Len(UpTo(g, a - 1)) \in Nat
    BY <2>1, UpToFacts
  <2> QED
    BY <2>2 DEF Place
<1> QED
  BY <1>2, <1>3, <1>4 DEF MadeUpTo

\* The row of an element is put where the element stands.
LEMMA ElementTaken ==
  ASSUME NEW S, NEW g, NEW n \in Nat, EntriesIn(S, g, n),
         NEW a \in 1 .. n, NEW b \in 1 .. Len(g[a]),
         NEW a2, NEW b2, Moves(a, b, a2, b2, Len(g[a])),
         NEW M, NEW R, NEW r \in Seq(R), MadeUpTo(g, n, M, r, a, b),
         NEW x \in R, <<x, g[a][b]>> \in M
  PROVE  MadeUpTo(g, n, M, r \o <<x>>, a2, b2)
<1> DEFINE source == UpTo(g, n)
<1>1. g[a] \in Seq(S) /\ Len(g[a]) \in Nat
  BY SeqElement DEF EntriesIn
<1>2. /\ \/ a2 = a /\ b2 = b + 1
         \/ a2 = a + 1 /\ b2 = 0 /\ Len(g[a]) <= b
      /\ b \in Nat /\ b <= Len(g[a]) /\ b # 0 /\ a2 <= n + 1
  BY <1>1 DEF Moves
<1>3. Place(g, a2, b2) = Place(g, a, b) + 1
  <2>1. Place(g, a2, b2) = Place(g, a, b) + (IF b = 0 THEN 0 ELSE 1)
    BY <1>2, PlaceMoves
  <2> QED
    BY <1>2, <2>1
<1>4. /\ Place(g, a, b) + 1 \in 1 .. Len(source)
      /\ source[Place(g, a, b) + 1] = g[a][b]
  BY PlaceOf
<1>5. Len(source) \in Nat
  <2>1. n \in 0 .. n
    OBVIOUS
  <2> QED
    BY <2>1, UpToFacts
<1>6. Len(r) = Place(g, a, b) /\ Made(r, source, M)
  BY DEF MadeUpTo
<1> HIDE DEF source
<1>7. <<x>> \in Seq(R) /\ Len(<<x>>) = 1 /\ (<<x>>)[1] = x
  OBVIOUS
<1>8. \A m \in 1 .. Len(<<x>>) :
        /\ Len(r) + m <= Len(source)
        /\ <<(<<x>>)[m], source[Len(r) + m]>> \in M
  <2>1. /\ Len(r) + 1 <= Len(source)
        /\ <<(<<x>>)[1], source[Len(r) + 1]>> \in M
    BY <1>4, <1>5, <1>6, <1>7
  <2>2. \A m \in 1 .. Len(<<x>>) : m = 1
    BY <1>7
  <2> QED
    BY <2>1, <2>2
<1>9. /\ Made(r \o <<x>>, source, M)
      /\ Len(r \o <<x>>) = Len(r) + Len(<<x>>)
  BY <1>5, <1>6, <1>7, <1>8, MadeMore
<1> QED
  BY <1>2, <1>3, <1>6, <1>7, <1>9 DEF MadeUpTo, source

\* A loop that starts, and one that has ended.
LEMMA NothingMade ==
  ASSUME NEW S, NEW g, NEW n \in Nat, EntriesIn(S, g, n), NEW M
  PROVE  MadeUpTo(g, n, M, << >>, 1, 0)
<1>1. UpTo(g, 0) = << >>
  BY UpToFacts
<1>2. Place(g, 1, 0) = Len(UpTo(g, 0))
  <2>1. Len(UpTo(g, 0)) \in Nat
    BY <1>1
  <2> QED
    BY <2>1 DEF Place
<1> QED
  BY <1>1, <1>2 DEF MadeUpTo, Made

LEMMA AllMade ==
  ASSUME NEW g, NEW n \in Nat, NEW M, NEW r, NEW S, EntriesIn(S, g, n),
         MadeUpTo(g, n, M, r, n + 1, 0)
  PROVE  Len(r) = Len(UpTo(g, n)) /\ Made(r, UpTo(g, n), M)
<1>1. (n + 1) - 1 = n /\ n \in 0 .. n
  OBVIOUS
<1>2. Len(UpTo(g, n)) \in Nat
  BY <1>1, UpToFacts
<1> QED
  BY <1>1, <1>2 DEF MadeUpTo, Place

\* A whole entry at once.
LEMMA EntryTaken ==
  ASSUME NEW S, NEW g, NEW n \in Nat, EntriesIn(S, g, n),
         NEW a \in 1 .. n, NEW v \in Seq(S),
         Len(v) = Len(UpTo(g, a - 1)), NEW M, Made(v, UpTo(g, n), M),
         \A x \in S : <<x, x>> \in M
  PROVE  Len(v \o g[a]) = Len(UpTo(g, a)) /\ Made(v \o g[a], UpTo(g, n), M)
<1> DEFINE source == UpTo(g, n)
<1>1. g[a] \in Seq(S) /\ Len(g[a]) \in Nat /\ Len(v) \in Nat
  BY SeqElement DEF EntriesIn
<1>2. Len(source) \in Nat
  <2>1. n \in 0 .. n
    OBVIOUS
  <2> QED
    BY <2>1, UpToFacts
<1>3. ASSUME NEW m \in 1 .. Len(g[a])
      PROVE  /\ Len(v) + m <= Len(source)
             /\ <<g[a][m], source[Len(v) + m]>> \in M
  <2>1. /\ Place(g, a, m) + 1 \in 1 .. Len(source)
        /\ source[Place(g, a, m) + 1] = g[a][m]
    BY PlaceOf
  <2>2. m \in Nat /\ m # 0 /\ g[a][m] \in S
    BY <1>1, SeqElement
  <2>3. Place(g, a, m) = Len(v) + (m - 1)
    BY <2>2 DEF Place
  <2>4. Place(g, a, m) + 1 = Len(v) + m
    BY <1>1, <2>2, <2>3
  <2> QED
    BY <1>2, <2>1, <2>2, <2>4
<1> HIDE DEF source
<1>4. /\ Made(v \o g[a], source, M)
      /\ Len(v \o g[a]) = Len(v) + Len(g[a])
  <2>1. Made(v, source, M)
    BY DEF source
  <2> QED
    BY <1>1, <1>2, <1>3, <2>1, MadeMore
<1>5. Len(UpTo(g, a)) = Len(UpTo(g, a - 1)) + Len(g[a])
  <2>1. a - 1 \in 0 .. n
    OBVIOUS
  <2>2. UpTo(g, a) = UpTo(g, a - 1) \o g[a] /\ UpTo(g, a - 1) \in Seq(S)
    BY <2>1, UpToFacts
  <2> QED
    BY <1>1, <2>2
<1> QED
  BY <1>4, <1>5 DEF source

-----------------------------------------------------------------------------
(* What the loops have made, and what has been committed                   *)

\* The rows of the fields that the loop has behind it, and the values of the
\* entries whose head it has passed.
FieldsMade ==
  phase = "fields" =>
    /\ MadeUpTo(FieldLists(dict), Len(dict.types), FieldPairs, rows, i, j)
    /\ Len(valuesList) = Len(UpTo(ValueLists(dict), IF j = 0 THEN i - 1 ELSE i))
    /\ Made(valuesList, ValueSource(dict), ValuePairs)

FunctionsMade ==
  phase = "functions" =>
    /\ i <= Len(dict.functions) + 1 /\ Len(rows) = i - 1
    /\ Made(rows, dict.functions, FunctionPairs)

ArgumentsMade ==
  phase = "arguments" =>
    MadeUpTo(ArgumentLists(dict), Len(dict.functions), ArgumentPairs(functions),
             rows, i, j)

MadeInv == FieldsMade /\ FunctionsMade /\ ArgumentsMade

\* The executions so far have committed c batches of values and fields, d of
\* functions and e of arguments; an execution between two of its commits is
\* ahead in the tables it has passed.
Batches(c, d, e) ==
  /\ e <= d /\ d <= c /\ c <= runs
  /\ phase \in {"types", "fields"} => c < runs
  /\ phase \in {"catalog", "functions"} => d < c
  /\ phase = "arguments" => e < d
  /\ Holds(values, ValueSource(dict), ValuePairs, c)
  /\ Holds(fields, FieldSource(dict), FieldPairs, c)
  /\ Holds(functions, dict.functions, FunctionPairs, d)
  /\ Holds(arguments, ArgumentSource(dict), ArgumentPairs(functions), e)

BatchInv == \E c, d, e \in Nat : Batches(c, d, e)

\* A loop starts over empty lists.
LEMMA MadeEnter ==
  ASSUME TypeOK, dict' = dict, NEW p, Enter(p)
  PROVE  MadeInv'
<1>1. i' = 1 /\ j' = 0 /\ rows' = << >> /\ valuesList' = << >>
  BY DEF Enter
<1>2. dict \in Dictionaries
  BY DictsAssumption DEF TypeOK
<1>3. \A M : MadeUpTo(FieldLists(dict), Len(dict.types), M, << >>, 1, 0)
  BY <1>2, SourcesOfTypes, NothingMade
<1>4. \A M : MadeUpTo(ArgumentLists(dict), Len(dict.functions), M, << >>, 1, 0)
  BY <1>2, SourcesOfFunctions, NothingMade
<1>5. UpTo(ValueLists(dict), 0) = << >>
  BY <1>2, SourcesOfTypes, UpToFacts
<1>6. Len(dict.functions) \in Nat
  BY <1>2, SourcesOfFunctions
<1>7. FieldsMade'
  <2>1. Len(valuesList') = Len(UpTo(ValueLists(dict), 0))
    BY <1>1, <1>5
  <2>2. (IF j' = 0 THEN i' - 1 ELSE i') = 0
    BY <1>1
  <2>3. Made(valuesList', ValueSource(dict), ValuePairs)
    BY <1>1 DEF Made
  <2>4. MadeUpTo(FieldLists(dict), Len(dict.types), FieldPairs, rows', i', j')
    BY <1>1, <1>3
  <2> QED
    BY <2>1, <2>2, <2>3, <2>4 DEF FieldsMade
<1>8. FunctionsMade'
  <2>1. Made(<< >>, dict.functions, FunctionPairs)
    BY DEF Made
  <2> QED
    BY <1>1, <1>6, <2>1 DEF FunctionsMade
<1>9. ArgumentsMade'
  <2>1. MadeUpTo(ArgumentLists(dict), Len(dict.functions),
                 ArgumentPairs(functions'), rows', i', j')
    BY <1>1, <1>4
  <2> QED
    BY <2>1 DEF ArgumentsMade
<1> QED
  BY <1>7, <1>8, <1>9 DEF MadeInv

\* A step of a loop in the terms of the lemmas above.
LEMMA AdvanceMoves ==
  ASSUME i \in Nat, i > 0, j \in Nat, NEW len \in Nat, Advance(len)
  PROVE  Moves(i, j, i', j', len)
BY AdvanceFacts DEF Moves

\* What one step of a search adds to the list, and when the type is not the one
\* that was searched for: only in the one search for the name that fails.
LEMMA SearchStep ==
  ASSUME TypeOK, NewTypesOK, NEW n \in Names, NEW len, NEW row,
         ResolveRow(n, len, row),
         missing /\ n.stars > 0 => n \in DOMAIN types
  PROVE  \/ /\ missing' = TRUE /\ UNCHANGED <<rows, i, j>>
            /\ missing = FALSE /\ n \notin DOMAIN types
         \/ /\ missing' = FALSE /\ n \in DOMAIN types' /\ Advance(len)
            /\ \E t \in {n, Root(n)} :
                 /\ rows' = rows \o row[t]
                 /\ t # n => missing \/ n \notin DOMAIN types
<1>1. CASE Strand(n) /\ UNCHANGED <<rows, i, j>>
  BY <1>1 DEF Strand, Strip, TypeOK
<1>2. ASSUME NEW t \in {n, Root(n)}, Resolve(n, t),
             rows' = rows \o row[t], Advance(len)
      PROVE  /\ missing' = FALSE /\ n \in DOMAIN types'
             /\ t # n => missing \/ n \notin DOMAIN types
  <2>1. missing' = FALSE /\ n \in DOMAIN types'
    BY <1>2, ResolveFacts
  <2>2. t # n => missing \/ n \notin DOMAIN types
    BY <1>2 DEF Resolve, Strip
  <2> QED
    BY <2>1, <2>2
<1> QED
  BY <1>1, <1>2 DEF ResolveRow

\* The head of an entry: its values, and no field.
LEMMA MadeVisitType ==
  ASSUME TypeInv, VisitedInv, MadeInv, VisitType
  PROVE  FieldsMade'
<1> DEFINE e == dict.types[i]
           g == FieldLists(dict)
           h == ValueLists(dict)
           n == Len(dict.types)
<1>1. /\ phase = "fields" /\ j = 0 /\ i <= n
      /\ Advance(Len(e.fields)) /\ dict' = dict /\ rows' = rows
      /\ phase' = phase
  BY DEF VisitType
<1>2. dict \in Dictionaries /\ i \in Nat /\ i > 0 /\ j \in Nat
  BY DictsAssumption, DictType DEF TypeInv, TypeOK
<1>3. /\ i \in 1 .. n /\ n \in Nat /\ e \in TypeEntry
      /\ g[i] = EntryFields(e) /\ h[i] = EntryValues(e)
      /\ EntriesIn(Rows, g, n) /\ EntriesIn(ValueRows, h, n)
      /\ ValueSource(dict) = UpTo(h, n)
  BY <1>1, <1>2, SourcesOfTypes
<1>4. Len(g[i]) = Len(e.fields) /\ Len(e.fields) \in Nat
  BY <1>3, EntryLists
<1>5. valuesList' = valuesList \o h[i]
  <2>1. i \in DOMAIN dict.types
    BY <1>2, <1>3, LenProperties DEF Dictionaries
  <2>2. e.name \in DOMAIN types
    BY <1>1, <2>1 DEF VisitedInv, DeclaredKnown
  <2>3. h[i] = [k \in 1 .. Len(e.defs) |-> [name |-> e.defs[k], type |-> e.name]]
    BY <1>3, EntryLists
  <2>4. valuesList' =
          valuesList \o [k \in 1 .. Len(e.defs) |->
                           [name |-> e.defs[k], type |-> e.name]]
    BY <2>2 DEF VisitType
  <2> QED
    BY <2>3, <2>4
<1>6. /\ MadeUpTo(g, n, FieldPairs, rows, i, j)
      /\ Len(valuesList) = Len(UpTo(h, IF j = 0 THEN i - 1 ELSE i))
      /\ Made(valuesList, ValueSource(dict), ValuePairs)
      /\ valuesList \in Seq(ValueRows)
  BY <1>1 DEF MadeInv, FieldsMade, TypeInv, TypeOK
<1>7. Moves(i, j, i', j', Len(g[i]))
  BY <1>1, <1>2, <1>4, AdvanceMoves
<1> HIDE DEF e, g, h, n
<1>8. MadeUpTo(g, n, FieldPairs, rows, i', j')
  <2>1. Moves(i, 0, i', j', Len(g[i])) /\ MadeUpTo(g, n, FieldPairs, rows, i, 0)
    BY <1>1, <1>6, <1>7
  <2> QED
    BY <1>3, <2>1, HeadPassed
<1>9. /\ Len(valuesList \o h[i]) = Len(UpTo(h, i))
      /\ Made(valuesList \o h[i], UpTo(h, n), ValuePairs)
  <2>1. \A x \in ValueRows : <<x, x>> \in ValuePairs
    BY DEF ValuePairs
  <2>2. Len(valuesList) = Len(UpTo(h, i - 1))
    BY <1>1, <1>6
  <2>3. Made(valuesList, UpTo(h, n), ValuePairs)
    BY <1>3, <1>6
  <2> QED
    BY <1>3, <1>6, <2>1, <2>2, <2>3, EntryTaken
<1>10. (IF j' = 0 THEN i' - 1 ELSE i') = i
  BY <1>1, <1>2, <1>4, <1>7 DEF Moves
<1> QED
  BY <1>1, <1>3, <1>5, <1>8, <1>9, <1>10 DEF FieldsMade, g, h, n

\* One step of the search for the type of a field: the row it adds, if it adds
\* one, is made from that field.
LEMMA FieldStep ==
  ASSUME TypeInv, VisitedInv, ResolveField
  PROVE  LET g == FieldLists(dict)
             n == Len(dict.types)
         IN  /\ dict \in Dictionaries /\ i \in 1 .. n /\ j \in 1 .. Len(g[i])
             /\ i \in Nat /\ j \in Nat /\ j # 0
             /\ n \in Nat /\ EntriesIn(Rows, g, n) /\ rows \in Seq(Rows)
             /\ Wanted \in Names /\ g[i][j].type = Wanted
             /\ \/ /\ missing' = TRUE /\ UNCHANGED <<rows, i, j>>
                   /\ missing = FALSE /\ Wanted \notin DOMAIN types
                \/ /\ missing' = FALSE /\ Wanted \in DOMAIN types'
                   /\ Moves(i, j, i', j', Len(g[i]))
                   /\ \E x \in Rows :
                        /\ rows' = rows \o <<x>> /\ <<x, g[i][j]>> \in FieldPairs
                        /\ x.type # Wanted => missing \/ Wanted \notin DOMAIN types
<1> DEFINE e == dict.types[i]
           f == e.fields[j]
           g == FieldLists(dict)
           n == Len(dict.types)
           tuple(t) == [name |-> FieldName(f.name), order |-> j - 1,
                        struct |-> e.name, type |-> t]
           row == [t \in {f.type, Root(f.type)} |->
                     IF e.name \in DOMAIN types THEN <<tuple(t)>> ELSE << >>]
<1>1. /\ phase = "fields" /\ j > 0 /\ i <= n /\ j <= Len(e.fields)
      /\ ResolveRow(f.type, Len(e.fields), row)
  BY DEF TypeInv, PositionOK, ResolveField
<1>2. dict \in Dictionaries /\ i \in Nat /\ i > 0 /\ j \in Nat
  BY DictsAssumption, DictType DEF TypeInv, TypeOK
<1>3. /\ i \in 1 .. n /\ n \in Nat /\ e \in TypeEntry
      /\ g[i] = EntryFields(e) /\ EntriesIn(Rows, g, n)
  BY <1>1, <1>2, SourcesOfTypes
<1>4. /\ Len(g[i]) = Len(e.fields) /\ Len(e.fields) \in Nat
      /\ j \in 1 .. Len(g[i]) /\ j \in 1 .. Len(e.fields) /\ j # 0
  BY <1>1, <1>2, <1>3, EntryLists
<1>5. f.type \in Names /\ f.name \in Texts /\ e.name \in Names
  BY <1>1, <1>3, EntryType DEF TypeInv, TypeEntry
<1>6. g[i][j] = tuple(f.type)
  <2>1. EntryFields(e)[j] = [name |-> FieldName(e.fields[j].name), order |-> j - 1,
                             struct |-> e.name, type |-> e.fields[j].type]
    <3> HIDE DEF e
    <3> QED
      BY <1>3, <1>4, EntryLists
  <2> QED
    BY <1>3, <2>1
<1>7. \A t \in {f.type, Root(f.type)} : row[t] = <<tuple(t)>>
  <2>1. i \in DOMAIN dict.types
    BY <1>2, <1>3, LenProperties DEF Dictionaries
  <2>2. e.name \in DOMAIN types
    BY <1>1, <2>1 DEF VisitedInv, DeclaredKnown
  <2> QED
    BY <2>2
<1>8. \A t \in {f.type, Root(f.type)} :
        /\ tuple(t) \in Rows /\ <<tuple(t), tuple(f.type)>> \in FieldPairs
        /\ tuple(t).type = t
  <2>1. \A t \in {f.type, Root(f.type)} : t \in Names
    BY <1>5, RootType
  <2>2. FieldName(f.name) \in Texts
    BY <1>5, TextsAssumption DEF FieldName
  <2>3. j - 1 \in Nat
    BY <1>1, <1>2
  <2>4. \A t \in {f.type, Root(f.type)} : tuple(t) \in Rows
    BY <1>5, <2>1, <2>2, <2>3 DEF Rows
  <2> QED
    BY <2>4 DEF FieldPairs
<1>9. Wanted = f.type
  BY <1>1 DEF Wanted
<1>10. rows \in Seq(Rows) /\ g[i][j].type = f.type
  BY <1>1, <1>6 DEF TypeInv, TypeOK
<1> HIDE DEF row, g, n, f, e, tuple
<1>11. \/ /\ missing' = TRUE /\ UNCHANGED <<rows, i, j>>
          /\ missing = FALSE /\ f.type \notin DOMAIN types
       \/ /\ missing' = FALSE /\ f.type \in DOMAIN types'
          /\ Advance(Len(e.fields))
          /\ \E t \in {f.type, Root(f.type)} :
               /\ rows' = rows \o row[t]
               /\ t # f.type => missing \/ f.type \notin DOMAIN types
  BY <1>1, <1>5, <1>9, SearchStep DEF TypeInv, WantedOK
<1>12. ASSUME Advance(Len(e.fields)), NEW t \in {f.type, Root(f.type)},
              rows' = rows \o row[t],
              t # f.type => missing \/ f.type \notin DOMAIN types
       PROVE  /\ Moves(i, j, i', j', Len(g[i]))
              /\ \E x \in Rows :
                   /\ rows' = rows \o <<x>> /\ <<x, g[i][j]>> \in FieldPairs
                   /\ x.type # f.type => missing \/ f.type \notin DOMAIN types
  <2>1. Moves(i, j, i', j', Len(g[i]))
    BY <1>2, <1>4, <1>12, AdvanceMoves
  <2>2. /\ tuple(t) \in Rows /\ <<tuple(t), g[i][j]>> \in FieldPairs
        /\ rows' = rows \o <<tuple(t)>> /\ tuple(t).type = t
    BY <1>6, <1>7, <1>8, <1>12
  <2> QED
    BY <1>12, <2>1, <2>2
<1>13. \/ /\ missing' = TRUE /\ UNCHANGED <<rows, i, j>>
          /\ missing = FALSE /\ Wanted \notin DOMAIN types
       \/ /\ missing' = FALSE /\ Wanted \in DOMAIN types'
          /\ Moves(i, j, i', j', Len(g[i]))
          /\ \E x \in Rows :
               /\ rows' = rows \o <<x>> /\ <<x, g[i][j]>> \in FieldPairs
               /\ x.type # Wanted => missing \/ Wanted \notin DOMAIN types
  BY <1>9, <1>11, <1>12
<1>14. Wanted \in Names /\ g[i][j].type = Wanted
  BY <1>5, <1>9, <1>10
<1> QED
  BY <1>2, <1>3, <1>4, <1>10, <1>13, <1>14 DEF g, n

\* A field: its row, at its place.
LEMMA MadeResolveField ==
  ASSUME TypeInv, VisitedInv, MadeInv, ResolveField
  PROVE  FieldsMade'
<1> DEFINE g == FieldLists(dict)
           n == Len(dict.types)
<1>1. /\ phase = "fields" /\ phase' = phase /\ dict' = dict
      /\ valuesList' = valuesList
  BY DEF ResolveField
<1>2. /\ i \in 1 .. n /\ i \in Nat /\ j \in Nat /\ j # 0 /\ j \in 1 .. Len(g[i])
      /\ n \in Nat /\ EntriesIn(Rows, g, n) /\ rows \in Seq(Rows)
      /\ \/ UNCHANGED <<rows, i, j>>
         \/ /\ Moves(i, j, i', j', Len(g[i]))
            /\ \E x \in Rows :
                 rows' = rows \o <<x>> /\ <<x, g[i][j]>> \in FieldPairs
  BY FieldStep
<1>3. /\ MadeUpTo(g, n, FieldPairs, rows, i, j)
      /\ Len(valuesList) = Len(UpTo(ValueLists(dict), IF j = 0 THEN i - 1 ELSE i))
      /\ Made(valuesList, ValueSource(dict), ValuePairs)
  BY <1>1 DEF MadeInv, FieldsMade
<1> HIDE DEF g, n
<1>4. CASE UNCHANGED <<rows, i, j>>
  BY <1>1, <1>3, <1>4 DEF FieldsMade, g, n
<1>5. ASSUME Moves(i, j, i', j', Len(g[i])),
             NEW x \in Rows, rows' = rows \o <<x>>, <<x, g[i][j]>> \in FieldPairs
      PROVE  FieldsMade'
  <2>1. MadeUpTo(g, n, FieldPairs, rows \o <<x>>, i', j')
    BY <1>2, <1>3, <1>5, ElementTaken
  <2>2. (IF j' = 0 THEN i' - 1 ELSE i') = (IF j = 0 THEN i - 1 ELSE i)
    BY <1>2, <1>5 DEF Moves
  <2> QED
    BY <1>1, <1>3, <1>5, <2>1, <2>2 DEF FieldsMade, g, n
<1> QED
  BY <1>2, <1>4, <1>5

\* One step of the search for a return type.
LEMMA FunctionStep ==
  ASSUME TypeInv, ResolveFunction
  PROVE  LET n == Len(dict.functions)
         IN  /\ dict \in Dictionaries /\ i \in 1 .. n /\ i \in Nat /\ n \in Nat
             /\ rows \in Seq(FunctionRows)
             /\ Wanted \in Names /\ dict.functions[i].ret = Wanted
             /\ \/ /\ missing' = TRUE /\ UNCHANGED <<rows, i, j>>
                   /\ missing = FALSE /\ Wanted \notin DOMAIN types
                \/ /\ missing' = FALSE /\ Wanted \in DOMAIN types' /\ i' = i + 1
                   /\ \E x \in FunctionRows :
                        /\ rows' = rows \o <<x>>
                        /\ <<x, dict.functions[i]>> \in FunctionPairs
                        /\ x.ret # Wanted => missing \/ Wanted \notin DOMAIN types
<1> DEFINE e == dict.functions[i]
           n == Len(dict.functions)
           tuple(t) == [name |-> e.name, api |-> NameOrNone(e.category, apis),
                        dll |-> NameOrNone(e.dll, dlls), ret |-> t]
           row == [t \in {e.ret, Root(e.ret)} |-> <<tuple(t)>>]
<1>1. /\ phase = "functions" /\ j = 0 /\ i <= n /\ ResolveRow(e.ret, 0, row)
  BY DEF TypeInv, PositionOK, ResolveFunction
<1>2. dict \in Dictionaries /\ i \in Nat /\ i > 0
  BY DictsAssumption, DictType DEF TypeInv, TypeOK
<1>3. /\ i \in 1 .. n /\ n \in Nat /\ e \in FunctionEntry
  BY <1>1, <1>2, SourcesOfFunctions
<1>4. /\ e.ret \in Names /\ e.name \in Texts /\ e.category \in Texts
      /\ e.dll \in Texts
  BY <1>3 DEF FunctionEntry
<1>5. \A t \in {e.ret, Root(e.ret)} :
        /\ tuple(t) \in FunctionRows /\ <<tuple(t), e>> \in FunctionPairs
        /\ tuple(t).ret = t
  <2>1. \A t \in {e.ret, Root(e.ret)} : t \in Names
    BY <1>4, RootType
  <2>2. /\ NameOrNone(e.category, apis) \in Texts \cup {NONE}
        /\ NameOrNone(e.dll, dlls) \in Texts \cup {NONE}
    BY <1>4 DEF NameOrNone
  <2>3. \A t \in {e.ret, Root(e.ret)} : tuple(t) \in FunctionRows
    BY <1>4, <2>1, <2>2 DEF FunctionRows
  <2>4. \A t \in {e.ret, Root(e.ret)} :
          tuple(t).name = e.name /\ tuple(t).ret = t
    OBVIOUS
  <2> HIDE DEF tuple
  <2> QED
    BY <1>3, <2>3, <2>4 DEF FunctionPairs
<1>6. Wanted = e.ret
  BY <1>1 DEF Wanted
<1>7. \A t \in {e.ret, Root(e.ret)} : row[t] = <<tuple(t)>>
  OBVIOUS
<1>8. rows \in Seq(FunctionRows)
  BY <1>1 DEF TypeInv, TypeOK
<1> HIDE DEF row, n, e, tuple
<1>9. \/ /\ missing' = TRUE /\ UNCHANGED <<rows, i, j>>
         /\ missing = FALSE /\ e.ret \notin DOMAIN types
      \/ /\ missing' = FALSE /\ e.ret \in DOMAIN types' /\ Advance(0)
         /\ \E t \in {e.ret, Root(e.ret)} :
              /\ rows' = rows \o row[t]
              /\ t # e.ret => missing \/ e.ret \notin DOMAIN types
  BY <1>1, <1>4, <1>6, SearchStep DEF TypeInv, WantedOK
<1>10. ASSUME Advance(0), NEW t \in {e.ret, Root(e.ret)}, rows' = rows \o row[t],
              t # e.ret => missing \/ e.ret \notin DOMAIN types
       PROVE  /\ i' = i + 1
              /\ \E x \in FunctionRows :
                   /\ rows' = rows \o <<x>> /\ <<x, e>> \in FunctionPairs
                   /\ x.ret # e.ret => missing \/ e.ret \notin DOMAIN types
  <2>1. i' = i + 1
    BY <1>1, <1>10 DEF Advance
  <2>2. /\ tuple(t) \in FunctionRows /\ <<tuple(t), e>> \in FunctionPairs
        /\ rows' = rows \o <<tuple(t)>> /\ tuple(t).ret = t
    BY <1>5, <1>7, <1>10
  <2> QED
    BY <1>10, <2>1, <2>2
<1>11. \/ /\ missing' = TRUE /\ UNCHANGED <<rows, i, j>>
          /\ missing = FALSE /\ Wanted \notin DOMAIN types
       \/ /\ missing' = FALSE /\ Wanted \in DOMAIN types' /\ i' = i + 1
          /\ \E x \in FunctionRows :
               /\ rows' = rows \o <<x>> /\ <<x, e>> \in FunctionPairs
               /\ x.ret # Wanted => missing \/ Wanted \notin DOMAIN types
  BY <1>6, <1>9, <1>10
<1> QED
  BY <1>2, <1>3, <1>4, <1>6, <1>8, <1>11 DEF e, n

\* A function: its row.
LEMMA MadeResolveFunction ==
  ASSUME TypeInv, MadeInv, ResolveFunction
  PROVE  FunctionsMade'
<1> DEFINE n == Len(dict.functions)
<1>1. phase = "functions" /\ phase' = phase /\ dict' = dict
  BY DEF ResolveFunction
<1>2. /\ i \in 1 .. n /\ i \in Nat /\ n \in Nat /\ rows \in Seq(FunctionRows)
      /\ \/ UNCHANGED <<rows, i, j>>
         \/ /\ i' = i + 1
            /\ \E x \in FunctionRows :
                 /\ rows' = rows \o <<x>>
                 /\ <<x, dict.functions[i]>> \in FunctionPairs
  BY FunctionStep
<1>3. /\ Len(rows) = i - 1 /\ Made(rows, dict.functions, FunctionPairs)
  BY <1>1 DEF MadeInv, FunctionsMade
<1>4. CASE UNCHANGED <<rows, i, j>>
  BY <1>1, <1>2, <1>3, <1>4 DEF FunctionsMade
<1>5. ASSUME i' = i + 1, NEW x \in FunctionRows, rows' = rows \o <<x>>,
             <<x, dict.functions[i]>> \in FunctionPairs
      PROVE  FunctionsMade'
  <2>1. <<x>> \in Seq(FunctionRows) /\ Len(<<x>>) = 1 /\ (<<x>>)[1] = x
    OBVIOUS
  <2>2. \A m \in 1 .. Len(<<x>>) :
          /\ Len(rows) + m <= Len(dict.functions)
          /\ <<(<<x>>)[m], dict.functions[Len(rows) + m]>> \in FunctionPairs
    <3>1. /\ Len(rows) + 1 <= Len(dict.functions) /\ Len(rows) + 1 = i
      BY <1>2, <1>3
    <3>2. \A m \in 1 .. Len(<<x>>) : m = 1
      BY <2>1
    <3> QED
      BY <1>5, <2>1, <3>1, <3>2
  <2>3. /\ Made(rows \o <<x>>, dict.functions, FunctionPairs)
        /\ Len(rows \o <<x>>) = Len(rows) + 1
    BY <1>2, <1>3, <2>1, <2>2, MadeMore
  <2>4. i' <= n + 1 /\ Len(rows \o <<x>>) = i' - 1
    BY <1>2, <1>3, <1>5, <2>3
  <2> QED
    BY <1>1, <1>5, <2>3, <2>4 DEF FunctionsMade
<1> QED
  BY <1>2, <1>4, <1>5

\* The head of a function adds nothing.
LEMMA MadeVisitFunction ==
  ASSUME TypeInv, MadeInv, VisitFunction
  PROVE  ArgumentsMade'
<1> DEFINE e == dict.functions[i]
           g == ArgumentLists(dict)
           n == Len(dict.functions)
           M == ArgumentPairs(functions)
<1>1. /\ phase = "arguments" /\ j = 0 /\ i <= n /\ Advance(Len(e.params))
      /\ dict' = dict /\ functions' = functions /\ rows' = rows /\ phase' = phase
  BY DEF VisitFunction, tables
<1>2. dict \in Dictionaries /\ i \in Nat /\ i > 0 /\ j \in Nat
  BY DictsAssumption, DictType DEF TypeInv, TypeOK
<1>3. /\ i \in 1 .. n /\ n \in Nat /\ e \in FunctionEntry
      /\ g[i] = EntryArguments(e) /\ EntriesIn(ArgumentSources, g, n)
  BY <1>1, <1>2, SourcesOfFunctions
<1>4. Len(g[i]) = Len(e.params) /\ Len(e.params) \in Nat
  BY <1>3, FunctionLists
<1>5. MadeUpTo(g, n, M, rows, i, 0)
  BY <1>1 DEF MadeInv, ArgumentsMade
<1> HIDE DEF e, g, n, M
<1>6. Moves(i, 0, i', j', Len(g[i]))
  BY <1>1, <1>2, <1>4, AdvanceMoves
<1>7. MadeUpTo(g, n, M, rows, i', j')
  BY <1>3, <1>5, <1>6, HeadPassed
<1> QED
  BY <1>1, <1>7 DEF ArgumentsMade, g, n, M

LEMMA TimesGrows ==
  ASSUME NEW d \in Nat \ {0}, NEW n \in Nat
  PROVE  n <= d * n
OBVIOUS

\* The search for the owner of an argument finds a function: a batch of them
\* has been committed, by this execution.
LEMMA OwnerPresent ==
  ASSUME TypeInv, BatchInv, phase = "arguments", i <= Len(dict.functions)
  PROVE  FunctionsNamed(dict.functions[i].name) # {}
<1> DEFINE n == Len(dict.functions)
<1>1. PICK c, d, e \in Nat : Batches(c, d, e)
  BY DEF BatchInv
<1>2. d # 0 /\ Holds(functions, dict.functions, FunctionPairs, d)
  BY <1>1 DEF Batches
<1>3. dict \in Dictionaries /\ i \in Nat /\ i > 0
  BY DictsAssumption, DictType DEF TypeInv, TypeOK
<1>4. /\ i \in 1 .. n /\ n \in Nat /\ dict.functions \in Seq(FunctionEntry)
  BY <1>3, SourcesOfFunctions
<1>5. i \in 1 .. Len(functions)
  <2>1. n <= d * n
    BY <1>2, <1>4, TimesGrows
  <2>2. Len(functions) = d * n
    BY <1>2 DEF Holds
  <2>3. Len(functions) \in Nat
    BY SeqElement DEF TypeInv, TypeOK
  <2> QED
    BY <1>4, <2>1, <2>2, <2>3
<1>6. Source(dict.functions, i) = dict.functions[i]
  <2>1. Source(dict.functions, 0 * Len(dict.functions) + i) = dict.functions[i]
    BY <1>4, SourceOfCopy
  <2>2. 0 * Len(dict.functions) + i = i
    BY <1>4
  <2> QED
    BY <2>1, <2>2
<1>7. <<functions[i], dict.functions[i]>> \in FunctionPairs
  BY <1>2, <1>5, <1>6 DEF Holds
<1>8. functions[i].name = dict.functions[i].name
  BY <1>7 DEF FunctionPairs
<1> QED
  BY <1>5, <1>8 DEF FunctionsNamed

\* One step of the search for the type of an argument: the row it adds has an
\* owner of the right name.
LEMMA ArgumentStep ==
  ASSUME TypeInv, BatchInv, ResolveArgument
  PROVE  LET g == ArgumentLists(dict)
             n == Len(dict.functions)
             M == ArgumentPairs(functions)
         IN  /\ dict \in Dictionaries /\ i \in 1 .. n /\ j \in 1 .. Len(g[i])
             /\ i \in Nat /\ j \in Nat /\ j # 0
             /\ n \in Nat /\ EntriesIn(ArgumentSources, g, n)
             /\ rows \in Seq(ArgumentRows)
             /\ Wanted \in Names /\ g[i][j].type = Wanted
             /\ \/ /\ missing' = TRUE /\ UNCHANGED <<rows, i, j>>
                   /\ missing = FALSE /\ Wanted \notin DOMAIN types
                \/ /\ missing' = FALSE /\ Wanted \in DOMAIN types'
                   /\ Moves(i, j, i', j', Len(g[i]))
                   /\ \E x \in ArgumentRows :
                        /\ rows' = rows \o <<x>> /\ <<x, g[i][j]>> \in M
                        /\ x.type # Wanted => missing \/ Wanted \notin DOMAIN types
<1> DEFINE e == dict.functions[i]
           f == e.params[j]
           g == ArgumentLists(dict)
           n == Len(dict.functions)
           M == ArgumentPairs(functions)
           tuple(t) == [name |-> f.name, order |-> j - 1,
                        func |-> FirstFunction(e.name), type |-> t]
           row == [t \in {f.type, Root(f.type)} |->
                     IF FunctionsNamed(e.name) # {} THEN <<tuple(t)>> ELSE << >>]
<1>1. /\ phase = "arguments" /\ j > 0 /\ i <= n /\ j <= Len(e.params)
      /\ ResolveRow(f.type, Len(e.params), row)
  BY DEF TypeInv, PositionOK, ResolveArgument
<1>2. dict \in Dictionaries /\ i \in Nat /\ i > 0 /\ j \in Nat
  BY DictsAssumption, DictType DEF TypeInv, TypeOK
<1>3. /\ i \in 1 .. n /\ n \in Nat /\ e \in FunctionEntry
      /\ g[i] = EntryArguments(e) /\ EntriesIn(ArgumentSources, g, n)
  BY <1>1, <1>2, SourcesOfFunctions
<1>4. /\ Len(g[i]) = Len(e.params) /\ Len(e.params) \in Nat
      /\ j \in 1 .. Len(g[i]) /\ j \in 1 .. Len(e.params) /\ j # 0
  BY <1>1, <1>2, <1>3, FunctionLists
<1>5. f.type \in Names /\ f.name \in Texts /\ e.name \in Texts
  BY <1>1, <1>3, FunctionType DEF TypeInv, FunctionEntry
<1>6. g[i][j] = [name |-> f.name, order |-> j - 1, owner |-> e.name,
                 type |-> f.type]
  <2>1. EntryArguments(e)[j] = [name |-> e.params[j].name, order |-> j - 1,
                                owner |-> e.name, type |-> e.params[j].type]
    <3> HIDE DEF e
    <3> QED
      BY <1>3, <1>4, FunctionLists
  <2> QED
    BY <1>3, <2>1
<1>7. FunctionsNamed(e.name) # {}
  BY <1>1, OwnerPresent
<1>8. \A t \in {f.type, Root(f.type)} : row[t] = <<tuple(t)>>
  BY <1>7
<1>9. \A t \in {f.type, Root(f.type)} :
        /\ tuple(t) \in ArgumentRows /\ <<tuple(t), g[i][j]>> \in M
        /\ tuple(t).type = t
  <2>1. \A t \in {f.type, Root(f.type)} : t \in Names
    BY <1>5, RootType
  <2>2. /\ FirstFunction(e.name) \in 1 .. Len(functions)
        /\ functions[FirstFunction(e.name)].name = e.name
    BY <1>7, FirstFunctionFacts DEF TypeInv
  <2>3. j - 1 \in Nat /\ FirstFunction(e.name) \in Nat
    BY <1>1, <1>2, <2>2
  <2>4. \A t \in {f.type, Root(f.type)} : tuple(t) \in ArgumentRows
    BY <1>5, <2>1, <2>3 DEF ArgumentRows
  <2>5. g[i][j] \in ArgumentSources
    BY <1>5, <1>6, <2>3 DEF ArgumentSources
  <2>6. \A t \in {f.type, Root(f.type)} :
          /\ tuple(t).name = f.name /\ tuple(t).order = j - 1
          /\ tuple(t).func = FirstFunction(e.name) /\ tuple(t).type = t
    OBVIOUS
  <2>7. /\ g[i][j].name = f.name /\ g[i][j].order = j - 1
        /\ g[i][j].owner = e.name /\ g[i][j].type = f.type
    BY <1>6
  <2> HIDE DEF tuple, g, e, f
  <2> QED
    BY <2>2, <2>4, <2>5, <2>6, <2>7 DEF ArgumentPairs
<1>10. Wanted = f.type
  BY <1>1 DEF Wanted
<1>11. rows \in Seq(ArgumentRows) /\ g[i][j].type = f.type
  BY <1>1, <1>6 DEF TypeInv, TypeOK
<1> HIDE DEF row, g, n, f, e, tuple, M
<1>12. \/ /\ missing' = TRUE /\ UNCHANGED <<rows, i, j>>
          /\ missing = FALSE /\ f.type \notin DOMAIN types
       \/ /\ missing' = FALSE /\ f.type \in DOMAIN types'
          /\ Advance(Len(e.params))
          /\ \E t \in {f.type, Root(f.type)} :
               /\ rows' = rows \o row[t]
               /\ t # f.type => missing \/ f.type \notin DOMAIN types
  BY <1>1, <1>5, <1>10, SearchStep DEF TypeInv, WantedOK
<1>13. ASSUME Advance(Len(e.params)), NEW t \in {f.type, Root(f.type)},
              rows' = rows \o row[t],
              t # f.type => missing \/ f.type \notin DOMAIN types
       PROVE  /\ Moves(i, j, i', j', Len(g[i]))
              /\ \E x \in ArgumentRows :
                   /\ rows' = rows \o <<x>> /\ <<x, g[i][j]>> \in M
                   /\ x.type # f.type => missing \/ f.type \notin DOMAIN types
  <2>1. Moves(i, j, i', j', Len(g[i]))
    BY <1>2, <1>4, <1>13, AdvanceMoves
  <2>2. /\ tuple(t) \in ArgumentRows /\ <<tuple(t), g[i][j]>> \in M
        /\ rows' = rows \o <<tuple(t)>> /\ tuple(t).type = t
    BY <1>8, <1>9, <1>13
  <2> QED
    BY <1>13, <2>1, <2>2
<1>14. \/ /\ missing' = TRUE /\ UNCHANGED <<rows, i, j>>
          /\ missing = FALSE /\ Wanted \notin DOMAIN types
       \/ /\ missing' = FALSE /\ Wanted \in DOMAIN types'
          /\ Moves(i, j, i', j', Len(g[i]))
          /\ \E x \in ArgumentRows :
               /\ rows' = rows \o <<x>> /\ <<x, g[i][j]>> \in M
               /\ x.type # Wanted => missing \/ Wanted \notin DOMAIN types
  BY <1>10, <1>12, <1>13
<1>15. Wanted \in Names /\ g[i][j].type = Wanted
  BY <1>5, <1>10, <1>11
<1> QED
  BY <1>2, <1>3, <1>4, <1>11, <1>14, <1>15 DEF g, n, M

\* An argument: its row, at its place.
LEMMA MadeResolveArgument ==
  ASSUME TypeInv, BatchInv, MadeInv, ResolveArgument
  PROVE  ArgumentsMade'
<1> DEFINE g == ArgumentLists(dict)
           n == Len(dict.functions)
           M == ArgumentPairs(functions)
<1>1. /\ phase = "arguments" /\ phase' = phase /\ dict' = dict
      /\ functions' = functions
  BY DEF ResolveArgument
<1>2. /\ i \in 1 .. n /\ j \in 1 .. Len(g[i])
      /\ n \in Nat /\ EntriesIn(ArgumentSources, g, n) /\ rows \in Seq(ArgumentRows)
      /\ \/ UNCHANGED <<rows, i, j>>
         \/ /\ Moves(i, j, i', j', Len(g[i]))
            /\ \E x \in ArgumentRows : rows' = rows \o <<x>> /\ <<x, g[i][j]>> \in M
  BY ArgumentStep
<1>3. MadeUpTo(g, n, M, rows, i, j)
  BY <1>1 DEF MadeInv, ArgumentsMade
<1> HIDE DEF g, n, M
<1>4. CASE UNCHANGED <<rows, i, j>>
  BY <1>1, <1>3, <1>4 DEF ArgumentsMade, g, n, M
<1>5. ASSUME Moves(i, j, i', j', Len(g[i])),
             NEW x \in ArgumentRows, rows' = rows \o <<x>>, <<x, g[i][j]>> \in M
      PROVE  ArgumentsMade'
  <2>1. MadeUpTo(g, n, M, rows \o <<x>>, i', j')
    BY <1>2, <1>3, <1>5, ElementTaken
  <2> QED
    BY <1>1, <1>5, <2>1 DEF ArgumentsMade, g, n, M
<1> QED
  BY <1>2, <1>4, <1>5

\* So much for the loops: a step of another part of the script starts one.
LEMMA MadeNext ==
  ASSUME TypeInv, VisitedInv, BatchInv, MadeInv, [Next]_vars
  PROVE  MadeInv'
<1>1. dict' = dict
  BY KnownStays
<1>2. CASE RunScript \/ InsertTypes \/ InsertFields \/ InsertCatalog
           \/ InsertFunctions \/ InsertArguments \/ Crash
  <2>1. \E p : Enter(p)
    BY <1>2 DEF RunScript, InsertTypes, InsertFields, InsertCatalog,
                InsertFunctions, InsertArguments, Crash
  <2> QED
    BY <1>1, <2>1, MadeEnter DEF TypeInv
<1>3. CASE VisitType
  BY <1>3, MadeVisitType DEF MadeInv, FunctionsMade, ArgumentsMade, VisitType
<1>4. CASE ResolveField
  BY <1>4, MadeResolveField DEF MadeInv, FunctionsMade, ArgumentsMade, ResolveField
<1>5. CASE ResolveFunction
  BY <1>5, MadeResolveFunction
  DEF MadeInv, FieldsMade, ArgumentsMade, ResolveFunction
<1>6. CASE VisitFunction
  BY <1>6, MadeVisitFunction DEF MadeInv, FieldsMade, FunctionsMade, VisitFunction
<1>7. CASE ResolveArgument
  BY <1>7, MadeResolveArgument
  DEF MadeInv, FieldsMade, FunctionsMade, ResolveArgument
<1>8. CASE UNCHANGED vars
  BY <1>8 DEF MadeInv, FieldsMade, FunctionsMade, ArgumentsMade, vars, tables,
              memory
<1> QED
  BY <1>2, <1>3, <1>4, <1>5, <1>6, <1>7, <1>8 DEF Next, Step

\* An owner found among the functions stays the function of that name.
LEMMA ArgumentPairsGrow ==
  ASSUME TypeOK, Growth
  PROVE  ArgumentPairs(functions) \subseteq ArgumentPairs(functions')
<1>1. CASE functions' = functions
  BY <1>1
<1>2. ASSUME NEW s \in Seq(FunctionRows), functions' = functions \o s
      PROVE  ArgumentPairs(functions) \subseteq ArgumentPairs(functions')
  <2>1. functions \in Seq(FunctionRows)
    BY DEF TypeOK
  <2>2. /\ Len(functions') = Len(functions) + Len(s)
        /\ Len(functions) \in Nat /\ Len(s) \in Nat
        /\ \A k \in 1 .. Len(functions) : functions'[k] = functions[k]
    BY <1>2, <2>1
  <2>3. \A k \in 1 .. Len(functions) :
          k \in 1 .. Len(functions') /\ functions'[k] = functions[k]
    BY <2>2
  <2> QED
    BY <2>3 DEF ArgumentPairs
<1> QED
  BY <1>1, <1>2 DEF Growth

LEMMA HoldsMore ==
  ASSUME NEW table, NEW source, NEW M, NEW c, Holds(table, source, M, c),
         NEW M2, M \subseteq M2
  PROVE  Holds(table, source, M2, c)
BY DEF Holds

\* At the commit of the fields the lists are complete.
LEMMA FieldsComplete ==
  ASSUME TypeInv, MadeInv, InsertFields
  PROVE  /\ Len(rows) = Len(FieldSource(dict))
         /\ Made(rows, FieldSource(dict), FieldPairs)
         /\ Len(valuesList) = Len(ValueSource(dict))
         /\ Made(valuesList, ValueSource(dict), ValuePairs)
<1> DEFINE n == Len(dict.types)
<1>1. phase = "fields" /\ i > n
  BY DEF InsertFields
<1>2. /\ MadeUpTo(FieldLists(dict), n, FieldPairs, rows, i, j)
      /\ Len(valuesList) = Len(UpTo(ValueLists(dict), IF j = 0 THEN i - 1 ELSE i))
      /\ Made(valuesList, ValueSource(dict), ValuePairs)
  BY <1>1 DEF MadeInv, FieldsMade
<1>3. dict \in Dictionaries /\ i \in Nat /\ j \in Nat
  BY DictsAssumption, DictType DEF TypeInv, TypeOK
<1>4. /\ n \in Nat /\ EntriesIn(Rows, FieldLists(dict), n)
      /\ FieldSource(dict) = UpTo(FieldLists(dict), n)
      /\ ValueSource(dict) = UpTo(ValueLists(dict), n)
  BY <1>3, SourcesOfTypes
<1>5. i = n + 1 /\ j = 0 /\ i - 1 = n
  <2>1. i <= n + 1
    BY <1>2 DEF MadeUpTo
  <2>2. j > 0 => i <= n
    BY <1>1 DEF TypeInv, PositionOK
  <2> QED
    BY <1>1, <1>3, <1>4, <2>1, <2>2
<1> HIDE DEF n
<1>6. MadeUpTo(FieldLists(dict), n, FieldPairs, rows, n + 1, 0)
  BY <1>2, <1>5
<1> QED
  BY <1>2, <1>4, <1>5, <1>6, AllMade

\* At the commit of the functions too, and of the arguments.
LEMMA FunctionsComplete ==
  ASSUME TypeInv, MadeInv, InsertFunctions
  PROVE  /\ Len(rows) = Len(dict.functions)
         /\ Made(rows, dict.functions, FunctionPairs)
<1>1. phase = "functions" /\ i > Len(dict.functions)
  BY DEF InsertFunctions
<1>2. dict \in Dictionaries /\ i \in Nat
  BY DictsAssumption, DictType DEF TypeInv, TypeOK
<1>3. Len(dict.functions) \in Nat
  BY <1>2, SourcesOfFunctions
<1> QED
  BY <1>1, <1>2, <1>3 DEF MadeInv, FunctionsMade

LEMMA ArgumentsComplete ==
  ASSUME TypeInv, MadeInv, InsertArguments
  PROVE  /\ Len(rows) = Len(ArgumentSource(dict))
         /\ Made(rows, ArgumentSource(dict), ArgumentPairs(functions))
<1> DEFINE n == Len(dict.functions)
           M == ArgumentPairs(functions)
<1>1. phase = "arguments" /\ i > n
  BY DEF InsertArguments
<1>2. MadeUpTo(ArgumentLists(dict), n, M, rows, i, j)
  BY <1>1 DEF MadeInv, ArgumentsMade
<1>3. dict \in Dictionaries /\ i \in Nat /\ j \in Nat
  BY DictsAssumption, DictType DEF TypeInv, TypeOK
<1>4. /\ n \in Nat /\ EntriesIn(ArgumentSources, ArgumentLists(dict), n)
      /\ ArgumentSource(dict) = UpTo(ArgumentLists(dict), n)
  BY <1>3, SourcesOfFunctions
<1>5. i = n + 1 /\ j = 0
  <2>1. i <= n + 1
    BY <1>2 DEF MadeUpTo
  <2>2. j > 0 => i <= n
    BY <1>1 DEF TypeInv, PositionOK
  <2> QED
    BY <1>1, <1>3, <1>4, <2>1, <2>2
<1> HIDE DEF n, M
<1>6. MadeUpTo(ArgumentLists(dict), n, M, rows, n + 1, 0)
  BY <1>2, <1>5
<1>7. Len(rows) = Len(ArgumentSource(dict)) /\ Made(rows, ArgumentSource(dict), M)
  BY <1>4, <1>6, AllMade
<1> QED
  BY <1>7 DEF M

\* No row: no copy.
LEMMA BatchInit == Init => BatchInv /\ MadeInv
<1> SUFFICES ASSUME Init PROVE BatchInv /\ MadeInv
  OBVIOUS
<1>1. dict \in Dictionaries
  BY DictsAssumption DEF Init
<1>2. /\ Len(ValueSource(dict)) \in Nat /\ Len(FieldSource(dict)) \in Nat
      /\ Len(dict.functions) \in Nat /\ Len(ArgumentSource(dict)) \in Nat
  BY <1>1, SourcesOfTypes, SourcesOfFunctions, SeqElement
<1>3. \A source, M : Len(source) \in Nat => Holds(<< >>, source, M, 0)
  BY DEF Holds
<1>4. Batches(0, 0, 0)
  BY <1>2, <1>3 DEF Init, Batches
<1>5. 0 \in Nat
  OBVIOUS
<1> QED
  BY <1>4, <1>5 DEF Init, BatchInv, MadeInv, FieldsMade, FunctionsMade,
                    ArgumentsMade

\* A commit adds a batch to the tables it writes, and to no other.
LEMMA BatchNext ==
  ASSUME TypeInv, BatchInv, MadeInv, [Next]_vars
  PROVE  BatchInv'
<1>1. PICK c, d, e \in Nat : Batches(c, d, e)
  BY DEF BatchInv
<1>2. /\ e <= d /\ d <= c /\ c <= runs
      /\ phase \in {"types", "fields"} => c < runs
      /\ phase \in {"catalog", "functions"} => d < c
      /\ phase = "arguments" => e < d
      /\ Holds(values, ValueSource(dict), ValuePairs, c)
      /\ Holds(fields, FieldSource(dict), FieldPairs, c)
      /\ Holds(functions, dict.functions, FunctionPairs, d)
      /\ Holds(arguments, ArgumentSource(dict), ArgumentPairs(functions), e)
  BY <1>1 DEF Batches
<1>3. dict' = dict
  BY KnownStays
<1>4. Holds(arguments, ArgumentSource(dict), ArgumentPairs(functions'), e)
  BY <1>2, TablesGrow, ArgumentPairsGrow, HoldsMore DEF TypeInv
<1>5. dict \in Dictionaries /\ runs \in Nat
  BY DictsAssumption, RunsAssumption DEF TypeInv, TypeOK
<1>6. c + 1 \in Nat /\ d + 1 \in Nat /\ e + 1 \in Nat
  OBVIOUS
<1>7. ASSUME values' = values, fields' = fields, functions' = functions,
             arguments' = arguments, runs \in Nat, runs' \in Nat, runs <= runs',
             phase' \in {"types", "fields"} =>
               runs < runs' \/ phase \in {"types", "fields"},
             phase' \in {"catalog", "functions"} => phase \in {"catalog", "functions"},
             phase' = "arguments" => phase = "arguments"
      PROVE  BatchInv'
  <2>1. /\ c <= runs' /\ (phase' \in {"types", "fields"} => c < runs')
        /\ phase' \in {"catalog", "functions"} => d < c
        /\ phase' = "arguments" => e < d
    BY <1>2, <1>7
  <2>2. Batches(c, d, e)'
    BY <1>2, <1>3, <1>4, <1>7, <2>1 DEF Batches
  <2> QED
    BY <2>2 DEF BatchInv
<1>8. CASE RunScript
  <2>1. runs' = runs + 1 /\ phase' = "types"
    BY <1>8 DEF RunScript, Enter
  <2> QED
    BY <1>5, <1>7, <1>8, <2>1 DEF RunScript, tables
<1>9. CASE InsertTypes
  BY <1>5, <1>7, <1>9 DEF InsertTypes, Enter
<1>10. CASE VisitType \/ ResolveField \/ ResolveFunction \/ VisitFunction
            \/ ResolveArgument \/ UNCHANGED vars
  <2>1. /\ values' = values /\ fields' = fields /\ functions' = functions
        /\ arguments' = arguments /\ runs' = runs /\ phase' = phase
    BY <1>10 DEF VisitType, ResolveField, ResolveFunction, VisitFunction,
                 ResolveArgument, vars, tables, memory
  <2> QED
    BY <1>5, <1>7, <2>1
<1>11. CASE InsertCatalog
  <2>1. phase = "catalog" /\ phase' = "functions" /\ runs' = runs
    BY <1>11 DEF InsertCatalog, Enter
  <2> QED
    BY <1>5, <1>7, <1>11, <2>1 DEF InsertCatalog
<1>12. CASE Crash
  <2>1. phase' = "idle" /\ runs' = runs
    BY <1>12 DEF Crash, Enter
  <2> QED
    BY <1>5, <1>7, <1>12, <2>1 DEF Crash, tables
<1>13. CASE InsertFields
  <2>1. /\ phase = "fields" /\ phase' = "catalog" /\ runs' = runs
        /\ values' = values \o valuesList /\ fields' = fields \o rows
        /\ functions' = functions /\ arguments' = arguments
    BY <1>13 DEF InsertFields, Enter
  <2>2. /\ values \in Seq(ValueRows) /\ valuesList \in Seq(ValueRows)
        /\ fields \in Seq(Rows) /\ rows \in Seq(Rows)
    BY <2>1 DEF TypeInv, TypeOK
  <2>3. ValueSource(dict) \in Seq(ValueRows) /\ FieldSource(dict) \in Seq(Rows)
    BY <1>5, SourcesOfTypes
  <2>4. /\ Len(rows) = Len(FieldSource(dict))
        /\ Made(rows, FieldSource(dict), FieldPairs)
        /\ Len(valuesList) = Len(ValueSource(dict))
        /\ Made(valuesList, ValueSource(dict), ValuePairs)
    BY <1>13, FieldsComplete
  <2>5. Holds(values \o valuesList, ValueSource(dict), ValuePairs, c + 1)
    BY <1>2, <2>2, <2>3, <2>4, BatchAdded
  <2>6. Holds(fields \o rows, FieldSource(dict), FieldPairs, c + 1)
    BY <1>2, <2>2, <2>3, <2>4, BatchAdded
  <2>7. c < runs /\ c + 1 <= runs /\ d < c + 1 /\ d <= c + 1
    BY <1>2, <1>5, <2>1
  <2>8. Batches(c + 1, d, e)'
    BY <1>2, <1>3, <1>4, <2>1, <2>5, <2>6, <2>7 DEF Batches
  <2> QED
    BY <1>6, <2>8 DEF BatchInv
<1>14. CASE InsertFunctions
  <2>1. /\ phase = "functions" /\ phase' = "arguments" /\ runs' = runs
        /\ functions' = functions \o rows
        /\ values' = values /\ fields' = fields /\ arguments' = arguments
    BY <1>14 DEF InsertFunctions, Enter
  <2>2. functions \in Seq(FunctionRows) /\ rows \in Seq(FunctionRows)
    BY <2>1 DEF TypeInv, TypeOK
  <2>3. dict.functions \in Seq(FunctionEntry)
    BY <1>5, SourcesOfFunctions
  <2>4. Holds(functions \o rows, dict.functions, FunctionPairs, d + 1)
    BY <1>2, <1>14, <2>2, <2>3, BatchAdded, FunctionsComplete
  <2>5. d < c /\ d + 1 <= c /\ e < d + 1 /\ e <= d + 1
    BY <1>2, <2>1
  <2>6. Batches(c, d + 1, e)'
    BY <1>2, <1>3, <1>4, <2>1, <2>4, <2>5 DEF Batches
  <2> QED
    BY <1>6, <2>6 DEF BatchInv
<1>15. CASE InsertArguments
  <2>1. /\ phase = "arguments" /\ phase' = "done" /\ runs' = runs
        /\ arguments' = arguments \o rows
        /\ values' = values /\ fields' = fields /\ functions' = functions
    BY <1>15 DEF InsertArguments, Enter
  <2>2. arguments \in Seq(ArgumentRows) /\ rows \in Seq(ArgumentRows)
    BY <2>1 DEF TypeInv, TypeOK
  <2>3. ArgumentSource(dict) \in Seq(ArgumentSources)
    BY <1>5, SourcesOfFunctions
  <2>4. Holds(arguments \o rows, ArgumentSource(dict), ArgumentPairs(functions), e + 1)
    BY <1>2, <1>15, <2>2, <2>3, BatchAdded, ArgumentsComplete
  <2>5. e < d /\ e + 1 <= d
    BY <1>2, <2>1
  <2>6. Batches(c, d, e + 1)'
    BY <1>2, <1>3, <2>1, <2>4, <2>5 DEF Batches
  <2> QED
    BY <1>6, <2>6 DEF BatchInv
<1> QED
  BY <1>8, <1>9, <1>10, <1>11, <1>12, <1>13, <1>14, <1>15 DEF Next, Step

\* What the copies say of the tables, in the words of the property.
LEMMA BatchesWhole ==
  ASSUME TypeOK, BatchInv
  PROVE  WholeBatches
<1>1. PICK c, d, e \in Nat : Batches(c, d, e)
  BY DEF BatchInv
<1>2. /\ e <= d /\ d <= c /\ c <= runs
      /\ Holds(values, ValueSource(dict), ValuePairs, c)
      /\ Holds(fields, FieldSource(dict), FieldPairs, c)
      /\ Holds(functions, dict.functions, FunctionPairs, d)
      /\ Holds(arguments, ArgumentSource(dict), ArgumentPairs(functions), e)
  BY <1>1 DEF Batches
<1>3. /\ DictFields = FieldSource(dict) /\ DictValues = ValueSource(dict)
      /\ DictArguments = ArgumentSource(dict)
  BY DEF DictFields, FieldSource, FieldLists, DictValues, ValueSource, ValueLists,
         DictArguments, ArgumentSource, ArgumentLists
<1>4. /\ DOMAIN values = 1 .. Len(values) /\ DOMAIN fields = 1 .. Len(fields)
      /\ DOMAIN functions = 1 .. Len(functions)
      /\ DOMAIN arguments = 1 .. Len(arguments)
  BY LenProperties DEF TypeOK
<1>5. c \in 0 .. runs /\ d \in 0 .. runs /\ e \in 0 .. runs
  <2>1. runs \in Nat
    BY RunsAssumption DEF TypeOK
  <2> QED
    BY <1>2, <2>1
<1>6. \A k \in DOMAIN values : values[k] = Source(DictValues, k)
  BY <1>2, <1>3, <1>4 DEF Holds, ValuePairs
<1>7. \A k \in DOMAIN fields :
        /\ fields[k].name = Source(DictFields, k).name
        /\ fields[k].order = Source(DictFields, k).order
        /\ fields[k].struct = Source(DictFields, k).struct
  BY <1>2, <1>3, <1>4 DEF Holds, FieldPairs
<1>8. \A k \in DOMAIN functions :
        functions[k].name = Source(dict.functions, k).name
  BY <1>2, <1>4 DEF Holds, FunctionPairs
<1>9. \A k \in DOMAIN arguments :
        /\ arguments[k].name = Source(DictArguments, k).name
        /\ arguments[k].order = Source(DictArguments, k).order
        /\ functions[arguments[k].func].name = Source(DictArguments, k).owner
  BY <1>2, <1>3, <1>4 DEF Holds, ArgumentPairs
<1>10. /\ Copies(Len(values), DictValues, c) /\ Copies(Len(fields), DictFields, c)
       /\ Copies(Len(functions), dict.functions, d)
       /\ Copies(Len(arguments), DictArguments, e)
  BY <1>2, <1>3 DEF Holds, Copies
<1> QED
  BY <1>2, <1>5, <1>6, <1>7, <1>8, <1>9, <1>10 DEF WholeBatches

\* The copies are an invariant together with what the loops have made.
LEMMA BatchInvariance == Spec => [](TypeInv /\ VisitedInv /\ BatchInv /\ MadeInv)
<1>1. Init => VisitedInv
  BY DEF Init, VisitedInv
<1>2. TypeInv /\ (VisitedInv /\ BatchInv /\ MadeInv) /\ [Next]_vars
        => (VisitedInv /\ BatchInv /\ MadeInv)'
  BY VisitedNext, BatchNext, MadeNext
<1> QED
  BY <1>1, <1>2, BatchInit, TypeInvariance, TypeNext, PTL DEF Spec

\* Whatever mix of executions ran to the end, died or was repeated: each table
\* holds a whole number of copies of its dictionary, in the dictionary's order,
\* values and fields the same number, functions no more than these, arguments no
\* more than functions.
THEOREM WholeBatchesHold == Spec => []WholeBatches
<1>1. TypeInv /\ BatchInv => WholeBatches
  BY BatchesWhole DEF TypeInv
<1> QED
  BY <1>1, BatchInvariance, PTL

-----------------------------------------------------------------------------
(* One wrong row for each name                                             *)

\* The pairs of a row and the element it is made from, when the element has the
\* type n and the row has not.
FieldsOff(n) == {p \in Rows \X Rows : p[2].type = n /\ p[1].type # n}
FunctionsOff(n) == {p \in FunctionRows \X FunctionEntry : p[2].ret = n /\ p[1].ret # n}
ArgumentsOff(n) ==
  {p \in ArgumentRows \X ArgumentSources : p[2].type = n /\ p[1].type # n}

\* Where such pairs stand in a table; where those of a list will stand.
InTable(tag, table, source, M) ==
  {<<tag, k>> : k \in {m \in 1 .. Len(table) : <<table[m], Source(source, m)>> \in M}}

InList(tag, table, list, source, M) ==
  {<<tag, Len(table) + k>> :
     k \in {m \in 1 .. Len(list) : <<list[m], source[m]>> \in M}}

\* The places of the wrong rows for n, committed or on their way.
WrongCommitted(n) ==
  InTable("fields", fields, FieldSource(dict), FieldsOff(n))
  \cup InTable("functions", functions, dict.functions, FunctionsOff(n))
  \cup InTable("arguments", arguments, ArgumentSource(dict), ArgumentsOff(n))

WrongWaiting(n) ==
  CASE phase = "fields" ->
         InList("fields", fields, rows, FieldSource(dict), FieldsOff(n))
    [] phase = "functions" ->
         InList("functions", functions, rows, dict.functions, FunctionsOff(n))
    [] phase = "arguments" ->
         InList("arguments", arguments, rows, ArgumentSource(dict), ArgumentsOff(n))
    [] OTHER -> {}

AllWrong(n) == WrongCommitted(n) \cup WrongWaiting(n)

\* There is one at most, and once there is one the name is in Types, so that no
\* further search for it can fail.
OnceWrong(n) ==
  /\ \A x, y \in AllWrong(n) : x = y
  /\ AllWrong(n) # {} => n \in DOMAIN types /\ ~(missing /\ Wanted = n)

WrongInv == \A n \in Names : OnceWrong(n)

\* A batch takes the wrong rows of the list where they were going to stand.
LEMMA BatchWrong ==
  ASSUME NEW S, NEW table \in Seq(S), NEW list \in Seq(S), NEW T,
         NEW source \in Seq(T), NEW c \in Nat, Len(table) = c * Len(source),
         Len(list) = Len(source), NEW M, NEW tag
  PROVE  InTable(tag, table \o list, source, M) \subseteq
           InTable(tag, table, source, M) \cup InList(tag, table, list, source, M)
<1>1. /\ Len(table) \in Nat /\ Len(list) \in Nat /\ Len(source) \in Nat
      /\ Len(table \o list) = Len(table) + Len(list)
  OBVIOUS
<1>2. ASSUME NEW k \in 1 .. Len(table \o list),
             <<(table \o list)[k], Source(source, k)>> \in M
      PROVE  <<tag, k>> \in
               InTable(tag, table, source, M) \cup InList(tag, table, list, source, M)
  <2>1. CASE k <= Len(table)
    <3>1. k \in 1 .. Len(table)
      BY <1>1, <2>1
    <3>2. (table \o list)[k] = table[k]
      BY <3>1
    <3> QED
      BY <1>2, <3>1, <3>2 DEF InTable
  <2>2. CASE ~(k <= Len(table))
    <3> DEFINE m == k - Len(table)
    <3>1. m \in 1 .. Len(list) /\ k = Len(table) + m
      BY <1>1, <2>2
    <3>2. (table \o list)[k] = list[m]
      BY <1>1, <3>1
    <3> HIDE DEF m
    <3>3. m \in 1 .. Len(source) /\ k = c * Len(source) + m
      BY <3>1
    <3>4. Source(source, k) = source[m]
      BY <3>3, SourceOfCopy
    <3> QED
      BY <1>2, <3>1, <3>2, <3>4 DEF InList
  <2> QED
    BY <2>1, <2>2
<1> QED
  BY <1>2 DEF InTable

\* A row that is made right adds no wrong one; any row adds at most one.
LEMMA RowWrong ==
  ASSUME NEW R, NEW list \in Seq(R), NEW x \in R, NEW tag, NEW table, NEW source,
         NEW M
  PROVE  /\ <<x, source[Len(list) + 1]>> \notin M =>
              InList(tag, table, list \o <<x>>, source, M) \subseteq
                InList(tag, table, list, source, M)
         /\ InList(tag, table, list \o <<x>>, source, M) \subseteq
              InList(tag, table, list, source, M)
                \cup {<<tag, Len(table) + (Len(list) + 1)>>}
<1>1. /\ Len(list) \in Nat /\ Len(list \o <<x>>) = Len(list) + 1
      /\ \A k \in 1 .. Len(list) : (list \o <<x>>)[k] = list[k]
      /\ (list \o <<x>>)[Len(list) + 1] = x
  OBVIOUS
<1>2. \A k \in 1 .. Len(list \o <<x>>) : k \in 1 .. Len(list) \/ k = Len(list) + 1
  BY <1>1
<1>3. ASSUME NEW k \in 1 .. Len(list \o <<x>>),
             <<(list \o <<x>>)[k], source[k]>> \in M
      PROVE  \/ <<tag, Len(table) + k>> \in InList(tag, table, list, source, M)
             \/ k = Len(list) + 1 /\ <<x, source[Len(list) + 1]>> \in M
  <2>1. CASE k \in 1 .. Len(list)
    BY <1>1, <1>3, <2>1 DEF InList
  <2>2. CASE k = Len(list) + 1
    BY <1>1, <1>3, <2>2
  <2> QED
    BY <1>2, <2>1, <2>2
<1> QED
  BY <1>3 DEF InList

\* No new wrong row, and no search that fails anew: nothing is lost.
LEMMA WrongKept ==
  ASSUME TypeInv, [Next]_vars, NEW n \in Names, OnceWrong(n),
         AllWrong(n)' \subseteq AllWrong(n),
         \/ missing' = FALSE \/ Wanted' # n
         \/ n \notin DOMAIN types
  PROVE  OnceWrong(n)'
<1>1. DOMAIN types \subseteq DOMAIN types'
  BY KnownStays
<1>2. /\ \A x, y \in AllWrong(n) : x = y
      /\ AllWrong(n) # {} => n \in DOMAIN types
  BY DEF OnceWrong
<1>3. \A x, y \in AllWrong(n)' : x = y
  BY <1>2
<1>4. AllWrong(n)' # {} => n \in DOMAIN types' /\ ~(missing' /\ Wanted' = n)
  BY <1>1, <1>2
<1> QED
  BY <1>3, <1>4 DEF OnceWrong

\* One step of a search, for the name w: a row that is wrong can only be added
\* for w, and only when there was none.
LEMMA WrongSearch ==
  ASSUME TypeInv, WrongInv, [Next]_vars, NEW w \in Names, w = Wanted,
         \/ /\ missing = FALSE /\ w \notin DOMAIN types /\ Wanted' = w
            /\ \A n \in Names : AllWrong(n)' \subseteq AllWrong(n)
         \/ /\ missing' = FALSE
            /\ \A n \in Names \ {w} : AllWrong(n)' \subseteq AllWrong(n)
            /\ \/ AllWrong(w)' \subseteq AllWrong(w)
               \/ /\ missing \/ w \notin DOMAIN types
                  /\ w \in DOMAIN types'
                  /\ \E z : AllWrong(w)' \subseteq AllWrong(w) \cup {z}
  PROVE  WrongInv'
<1>1. SUFFICES ASSUME NEW n \in Names PROVE OnceWrong(n)'
  BY DEF WrongInv
<1>2. OnceWrong(n)
  BY DEF WrongInv
<1>3. CASE /\ missing = FALSE /\ w \notin DOMAIN types /\ Wanted' = w
           /\ \A m \in Names : AllWrong(m)' \subseteq AllWrong(m)
  <2>1. Wanted' # n \/ n \notin DOMAIN types
    BY <1>3
  <2> QED
    BY <1>2, <1>3, <2>1, WrongKept
<1>4. CASE missing' = FALSE /\ AllWrong(n)' \subseteq AllWrong(n)
  BY <1>2, <1>4, WrongKept
<1>5. ASSUME missing' = FALSE, n = w, missing \/ w \notin DOMAIN types,
             w \in DOMAIN types', NEW z, AllWrong(w)' \subseteq AllWrong(w) \cup {z}
      PROVE  OnceWrong(n)'
  <2>1. AllWrong(w) = {}
    BY <1>2, <1>5 DEF OnceWrong, TypeInv, TypeOK
  <2>2. \A x, y \in AllWrong(w)' : x = y
    BY <1>5, <2>1
  <2> QED
    BY <1>5, <2>2 DEF OnceWrong
<1> QED
  BY <1>3, <1>4, <1>5

\* The element that comes next is the one the loop stands at.
LEMMA NextElement ==
  ASSUME NEW S, NEW g, NEW n \in Nat, EntriesIn(S, g, n),
         NEW a \in 1 .. n, NEW b \in 1 .. Len(g[a]), NEW M, NEW r,
         MadeUpTo(g, n, M, r, a, b)
  PROVE  UpTo(g, n)[Len(r) + 1] = g[a][b]
BY PlaceOf DEF MadeUpTo

\* The searches of the three loops.
LEMMA WrongResolveField ==
  ASSUME TypeInv, VisitedInv, MadeInv, WrongInv, ResolveField
  PROVE  WrongInv'
<1> DEFINE g == FieldLists(dict)
           n == Len(dict.types)
           source == FieldSource(dict)
<1>1. /\ phase = "fields" /\ phase' = phase /\ dict' = dict /\ fields' = fields
      /\ functions' = functions /\ arguments' = arguments
  BY DEF ResolveField
<1>2. /\ dict \in Dictionaries /\ i \in 1 .. n /\ j \in 1 .. Len(g[i])
      /\ n \in Nat /\ EntriesIn(Rows, g, n)
      /\ rows \in Seq(Rows) /\ Wanted \in Names /\ g[i][j].type = Wanted
      /\ \/ /\ missing' = TRUE /\ UNCHANGED <<rows, i, j>>
            /\ missing = FALSE /\ Wanted \notin DOMAIN types
         \/ /\ missing' = FALSE /\ Wanted \in DOMAIN types'
            /\ \E x \in Rows :
                 /\ rows' = rows \o <<x>> /\ <<x, g[i][j]>> \in FieldPairs
                 /\ x.type # Wanted => missing \/ Wanted \notin DOMAIN types
  BY FieldStep
<1>3. [Next]_vars
  BY DEF Next, Step
<1>4. /\ MadeUpTo(g, n, FieldPairs, rows, i, j) /\ source = UpTo(g, n)
  BY <1>1, <1>2, SourcesOfTypes DEF MadeInv, FieldsMade
<1> HIDE DEF g, n, source
<1>5. source[Len(rows) + 1] = g[i][j]
  BY <1>2, <1>4, NextElement
<1>6. ASSUME NEW m \in Names
      PROVE  /\ WrongCommitted(m)' = WrongCommitted(m)
             /\ WrongWaiting(m) = InList("fields", fields, rows, source, FieldsOff(m))
             /\ WrongWaiting(m)' = InList("fields", fields, rows', source, FieldsOff(m))
  BY <1>1 DEF WrongCommitted, WrongWaiting, source
<1>7. PICK w \in Names : w = Wanted
  BY <1>2
<1>8. CASE /\ UNCHANGED <<rows, i, j>>
           /\ missing = FALSE /\ Wanted \notin DOMAIN types
  <2>1. Wanted' = Wanted
    BY <1>1, <1>8 DEF Wanted
  <2>2. \A m \in Names : AllWrong(m)' \subseteq AllWrong(m)
    BY <1>6, <1>8 DEF AllWrong
  <2> QED
    BY <1>3, <1>7, <1>8, <2>1, <2>2, WrongSearch
<1>9. ASSUME missing' = FALSE, Wanted \in DOMAIN types',
             NEW x \in Rows, rows' = rows \o <<x>>, <<x, g[i][j]>> \in FieldPairs,
             x.type # Wanted => missing \/ Wanted \notin DOMAIN types
      PROVE  WrongInv'
  <2>1. ASSUME NEW m \in Names, m # w \/ x.type = w
        PROVE  AllWrong(m)' \subseteq AllWrong(m)
    <3>1. <<x, source[Len(rows) + 1]>> \notin FieldsOff(m)
      BY <1>2, <1>5, <1>7, <2>1 DEF FieldsOff
    <3>2. InList("fields", fields, rows \o <<x>>, source, FieldsOff(m)) \subseteq
            InList("fields", fields, rows, source, FieldsOff(m))
      BY <1>2, <3>1, RowWrong
    <3> QED
      BY <1>6, <1>9, <3>2 DEF AllWrong
  <2>2. \E z : AllWrong(w)' \subseteq AllWrong(w) \cup {z}
    <3>1. PICK z : z = <<"fields", Len(fields) + (Len(rows) + 1)>>
      OBVIOUS
    <3>2. InList("fields", fields, rows \o <<x>>, source, FieldsOff(w)) \subseteq
            InList("fields", fields, rows, source, FieldsOff(w)) \cup {z}
      BY <1>2, <3>1, RowWrong
    <3>3. AllWrong(w)' \subseteq AllWrong(w) \cup {z}
      BY <1>6, <1>9, <3>2 DEF AllWrong
    <3> QED
      BY <3>3
  <2>3. \A m \in Names \ {w} : AllWrong(m)' \subseteq AllWrong(m)
    BY <2>1
  <2>4. \/ AllWrong(w)' \subseteq AllWrong(w)
        \/ missing \/ w \notin DOMAIN types
    BY <1>7, <1>9, <2>1
  <2> QED
    BY <1>3, <1>7, <1>9, <2>2, <2>3, <2>4, WrongSearch
<1> QED
  BY <1>2, <1>8, <1>9

LEMMA WrongResolveFunction ==
  ASSUME TypeInv, MadeInv, WrongInv, ResolveFunction
  PROVE  WrongInv'
<1> DEFINE source == dict.functions
<1>1. /\ phase = "functions" /\ phase' = phase /\ dict' = dict /\ fields' = fields
      /\ functions' = functions /\ arguments' = arguments
  BY DEF ResolveFunction
<1>2. /\ dict \in Dictionaries /\ i \in Nat
      /\ rows \in Seq(FunctionRows) /\ Wanted \in Names /\ source[i].ret = Wanted
      /\ \/ /\ missing' = TRUE /\ UNCHANGED <<rows, i, j>>
            /\ missing = FALSE /\ Wanted \notin DOMAIN types
         \/ /\ missing' = FALSE /\ Wanted \in DOMAIN types'
            /\ \E x \in FunctionRows :
                 /\ rows' = rows \o <<x>>
                 /\ x.ret # Wanted => missing \/ Wanted \notin DOMAIN types
  BY FunctionStep
<1>3. [Next]_vars
  BY DEF Next, Step
<1>4. Len(rows) + 1 = i
  BY <1>1, <1>2 DEF MadeInv, FunctionsMade
<1> HIDE DEF source
<1>5. source[Len(rows) + 1].ret = Wanted
  BY <1>2, <1>4
<1>6. ASSUME NEW m \in Names
      PROVE  /\ WrongCommitted(m)' = WrongCommitted(m)
             /\ WrongWaiting(m) =
                  InList("functions", functions, rows, source, FunctionsOff(m))
             /\ WrongWaiting(m)' =
                  InList("functions", functions, rows', source, FunctionsOff(m))
  BY <1>1 DEF WrongCommitted, WrongWaiting, source
<1>7. PICK w \in Names : w = Wanted
  BY <1>2
<1>8. CASE /\ UNCHANGED <<rows, i, j>>
           /\ missing = FALSE /\ Wanted \notin DOMAIN types
  <2>1. Wanted' = Wanted
    BY <1>1, <1>8 DEF Wanted
  <2>2. \A m \in Names : AllWrong(m)' \subseteq AllWrong(m)
    BY <1>6, <1>8 DEF AllWrong
  <2> QED
    BY <1>3, <1>7, <1>8, <2>1, <2>2, WrongSearch
<1>9. ASSUME missing' = FALSE, Wanted \in DOMAIN types',
             NEW x \in FunctionRows, rows' = rows \o <<x>>,
             x.ret # Wanted => missing \/ Wanted \notin DOMAIN types
      PROVE  WrongInv'
  <2>1. ASSUME NEW m \in Names, m # w \/ x.ret = w
        PROVE  AllWrong(m)' \subseteq AllWrong(m)
    <3>1. <<x, source[Len(rows) + 1]>> \notin FunctionsOff(m)
      BY <1>5, <1>7, <2>1 DEF FunctionsOff
    <3>2. InList("functions", functions, rows \o <<x>>, source, FunctionsOff(m))
            \subseteq
          InList("functions", functions, rows, source, FunctionsOff(m))
      BY <1>2, <3>1, RowWrong
    <3> QED
      BY <1>6, <1>9, <3>2 DEF AllWrong
  <2>2. \E z : AllWrong(w)' \subseteq AllWrong(w) \cup {z}
    <3>1. PICK z : z = <<"functions", Len(functions) + (Len(rows) + 1)>>
      OBVIOUS
    <3>2. InList("functions", functions, rows \o <<x>>, source, FunctionsOff(w))
            \subseteq
          InList("functions", functions, rows, source, FunctionsOff(w)) \cup {z}
      BY <1>2, <3>1, RowWrong
    <3>3. AllWrong(w)' \subseteq AllWrong(w) \cup {z}
      BY <1>6, <1>9, <3>2 DEF AllWrong
    <3> QED
      BY <3>3
  <2>3. \A m \in Names \ {w} : AllWrong(m)' \subseteq AllWrong(m)
    BY <2>1
  <2>4. \/ AllWrong(w)' \subseteq AllWrong(w)
        \/ missing \/ w \notin DOMAIN types
    BY <1>7, <1>9, <2>1
  <2> QED
    BY <1>3, <1>7, <1>9, <2>2, <2>3, <2>4, WrongSearch
<1> QED
  BY <1>2, <1>8, <1>9

LEMMA WrongResolveArgument ==
  ASSUME TypeInv, BatchInv, MadeInv, WrongInv, ResolveArgument
  PROVE  WrongInv'
<1> DEFINE g == ArgumentLists(dict)
           n == Len(dict.functions)
           source == ArgumentSource(dict)
           M == ArgumentPairs(functions)
<1>1. /\ phase = "arguments" /\ phase' = phase /\ dict' = dict /\ fields' = fields
      /\ functions' = functions /\ arguments' = arguments
  BY DEF ResolveArgument
<1>2. /\ dict \in Dictionaries /\ i \in 1 .. n /\ j \in 1 .. Len(g[i])
      /\ n \in Nat /\ EntriesIn(ArgumentSources, g, n)
      /\ rows \in Seq(ArgumentRows) /\ Wanted \in Names /\ g[i][j].type = Wanted
      /\ \/ /\ missing' = TRUE /\ UNCHANGED <<rows, i, j>>
            /\ missing = FALSE /\ Wanted \notin DOMAIN types
         \/ /\ missing' = FALSE /\ Wanted \in DOMAIN types'
            /\ \E x \in ArgumentRows :
                 /\ rows' = rows \o <<x>> /\ <<x, g[i][j]>> \in M
                 /\ x.type # Wanted => missing \/ Wanted \notin DOMAIN types
  BY ArgumentStep
<1>3. [Next]_vars
  BY DEF Next, Step
<1>4. /\ MadeUpTo(g, n, M, rows, i, j) /\ source = UpTo(g, n)
  BY <1>1, <1>2, SourcesOfFunctions DEF MadeInv, ArgumentsMade
<1> HIDE DEF g, n, source, M
<1>5. source[Len(rows) + 1] = g[i][j]
  BY <1>2, <1>4, NextElement
<1>6. ASSUME NEW m \in Names
      PROVE  /\ WrongCommitted(m)' = WrongCommitted(m)
             /\ WrongWaiting(m) =
                  InList("arguments", arguments, rows, source, ArgumentsOff(m))
             /\ WrongWaiting(m)' =
                  InList("arguments", arguments, rows', source, ArgumentsOff(m))
  BY <1>1 DEF WrongCommitted, WrongWaiting, source
<1>7. PICK w \in Names : w = Wanted
  BY <1>2
<1>8. CASE /\ UNCHANGED <<rows, i, j>>
           /\ missing = FALSE /\ Wanted \notin DOMAIN types
  <2>1. Wanted' = Wanted
    BY <1>1, <1>8 DEF Wanted
  <2>2. \A m \in Names : AllWrong(m)' \subseteq AllWrong(m)
    BY <1>6, <1>8 DEF AllWrong
  <2> QED
    BY <1>3, <1>7, <1>8, <2>1, <2>2, WrongSearch
<1>9. ASSUME missing' = FALSE, Wanted \in DOMAIN types',
             NEW x \in ArgumentRows, rows' = rows \o <<x>>, <<x, g[i][j]>> \in M,
             x.type # Wanted => missing \/ Wanted \notin DOMAIN types
      PROVE  WrongInv'
  <2>1. ASSUME NEW m \in Names, m # w \/ x.type = w
        PROVE  AllWrong(m)' \subseteq AllWrong(m)
    <3>1. <<x, source[Len(rows) + 1]>> \notin ArgumentsOff(m)
      BY <1>2, <1>5, <1>7, <2>1 DEF ArgumentsOff
    <3>2. InList("arguments", arguments, rows \o <<x>>, source, ArgumentsOff(m))
            \subseteq
          InList("arguments", arguments, rows, source, ArgumentsOff(m))
      BY <1>2, <3>1, RowWrong
    <3> QED
      BY <1>6, <1>9, <3>2 DEF AllWrong
  <2>2. \E z : AllWrong(w)' \subseteq AllWrong(w) \cup {z}
    <3>1. PICK z : z = <<"arguments", Len(arguments) + (Len(rows) + 1)>>
      OBVIOUS
    <3>2. InList("arguments", arguments, rows \o <<x>>, source, ArgumentsOff(w))
            \subseteq
          InList("arguments", arguments, rows, source, ArgumentsOff(w)) \cup {z}
      BY <1>2, <3>1, RowWrong
    <3>3. AllWrong(w)' \subseteq AllWrong(w) \cup {z}
      BY <1>6, <1>9, <3>2 DEF AllWrong
    <3> QED
      BY <3>3
  <2>3. \A m \in Names \ {w} : AllWrong(m)' \subseteq AllWrong(m)
    BY <2>1
  <2>4. \/ AllWrong(w)' \subseteq AllWrong(w)
        \/ missing \/ w \notin DOMAIN types
    BY <1>7, <1>9, <2>1
  <2> QED
    BY <1>3, <1>7, <1>9, <2>2, <2>3, <2>4, WrongSearch
<1> QED
  BY <1>2, <1>8, <1>9

\* Any other step leaves the wrong rows where they are, commits them, or loses
\* those that wait.
LEMMA WrongElsewhere ==
  ASSUME TypeInv, BatchInv, MadeInv, [Next]_vars,
         ~ResolveField, ~ResolveFunction, ~ResolveArgument
  PROVE  /\ \/ missing' = FALSE
            \/ missing' = missing /\ (missing => Wanted' = Wanted)
         /\ \A n \in Names : AllWrong(n)' \subseteq AllWrong(n)
<1>1. dict' = dict
  BY KnownStays
<1>2. CASE RunScript \/ InsertTypes \/ InsertCatalog \/ Crash
  <2>1. /\ fields' = fields /\ functions' = functions /\ arguments' = arguments
        /\ phase' \in {"types", "fields", "functions", "idle"} /\ rows' = << >>
    BY <1>2 DEF RunScript, InsertTypes, InsertCatalog, Crash, Enter, tables
  <2>2. missing' = FALSE
    BY <1>2 DEF RunScript, InsertTypes, InsertCatalog, Crash, TypeInv, MissingOK,
                TypeOK
  <2>3. \A tag, table, source, M : InList(tag, table, << >>, source, M) = {}
    BY DEF InList
  <2>4. ASSUME NEW n \in Names PROVE WrongCommitted(n)' = WrongCommitted(n)
    BY <1>1, <2>1 DEF WrongCommitted
  <2>5. ASSUME NEW n \in Names PROVE WrongWaiting(n)' = {}
    BY <2>1, <2>3 DEF WrongWaiting
  <2> QED
    BY <2>2, <2>4, <2>5 DEF AllWrong
<1>3. CASE VisitType \/ VisitFunction \/ UNCHANGED vars
  <2>1. /\ fields' = fields /\ functions' = functions /\ arguments' = arguments
        /\ phase' = phase /\ rows' = rows /\ missing' = missing
    BY <1>3 DEF VisitType, VisitFunction, vars, tables, memory
  <2>2. missing' = FALSE \/ Wanted' = Wanted
    <3>1. CASE VisitType \/ VisitFunction
      BY <2>1, <3>1 DEF VisitType, VisitFunction, TypeInv, MissingOK, TypeOK
    <3>2. CASE UNCHANGED vars
      BY <3>2 DEF vars, memory, Wanted
    <3> QED
      BY <1>3, <3>1, <3>2
  <2>3. ASSUME NEW n \in Names PROVE AllWrong(n)' = AllWrong(n)
    BY <1>1, <2>1 DEF AllWrong, WrongCommitted, WrongWaiting
  <2> QED
    BY <2>1, <2>2, <2>3
<1>4. PICK c, d, e \in Nat :
        /\ Holds(fields, FieldSource(dict), FieldPairs, c)
        /\ Holds(functions, dict.functions, FunctionPairs, d)
        /\ Holds(arguments, ArgumentSource(dict), ArgumentPairs(functions), e)
  BY DEF BatchInv, Batches
<1>5. dict \in Dictionaries
  BY DictsAssumption DEF TypeInv, TypeOK
<1>6. CASE InsertFields
  <2>1. /\ phase = "fields" /\ fields' = fields \o rows
        /\ functions' = functions /\ arguments' = arguments
        /\ phase' = "catalog" /\ missing' = missing
    BY <1>6 DEF InsertFields, Enter
  <2>2. missing' = FALSE
    BY <1>6, <2>1 DEF InsertFields, TypeInv, MissingOK, PositionOK, TypeOK
  <2>3. /\ fields \in Seq(Rows) /\ rows \in Seq(Rows)
        /\ FieldSource(dict) \in Seq(Rows)
        /\ Len(rows) = Len(FieldSource(dict))
        /\ Len(fields) = c * Len(FieldSource(dict))
    BY <1>4, <1>5, <1>6, <2>1, SourcesOfTypes, FieldsComplete
    DEF TypeInv, TypeOK, Holds
  <2>4. ASSUME NEW n \in Names
        PROVE  AllWrong(n)' \subseteq AllWrong(n)
    <3>1. InTable("fields", fields \o rows, FieldSource(dict), FieldsOff(n)) \subseteq
            InTable("fields", fields, FieldSource(dict), FieldsOff(n))
              \cup InList("fields", fields, rows, FieldSource(dict), FieldsOff(n))
      BY <2>3, BatchWrong
    <3>2. WrongWaiting(n) =
            InList("fields", fields, rows, FieldSource(dict), FieldsOff(n))
      BY <2>1 DEF WrongWaiting
    <3>3. WrongWaiting(n)' = {}
      BY <2>1 DEF WrongWaiting
    <3>4. WrongCommitted(n)' \subseteq WrongCommitted(n) \cup WrongWaiting(n)
      BY <1>1, <2>1, <3>1, <3>2 DEF WrongCommitted
    <3> QED
      BY <3>3, <3>4 DEF AllWrong
  <2> QED
    BY <2>2, <2>4
<1>7. CASE InsertFunctions
  <2>1. /\ phase = "functions" /\ functions' = functions \o rows
        /\ fields' = fields /\ arguments' = arguments
        /\ phase' = "arguments" /\ missing' = missing /\ rows' = << >>
    BY <1>7 DEF InsertFunctions, Enter
  <2>2. missing' = FALSE
    BY <1>7, <2>1, DictType DEF InsertFunctions, TypeInv, MissingOK, TypeOK
  <2>3. /\ functions \in Seq(FunctionRows) /\ rows \in Seq(FunctionRows)
        /\ dict.functions \in Seq(FunctionEntry)
        /\ Len(rows) = Len(dict.functions)
        /\ Len(functions) = d * Len(dict.functions)
    BY <1>4, <1>5, <1>7, <2>1, SourcesOfFunctions, FunctionsComplete
    DEF TypeInv, TypeOK, Holds
  <2>4. ASSUME NEW n \in Names
        PROVE  AllWrong(n)' \subseteq AllWrong(n)
    <3>1. InTable("functions", functions \o rows, dict.functions, FunctionsOff(n))
            \subseteq
          InTable("functions", functions, dict.functions, FunctionsOff(n))
            \cup InList("functions", functions, rows, dict.functions,
                        FunctionsOff(n))
      BY <2>3, BatchWrong
    <3>2. WrongWaiting(n) =
            InList("functions", functions, rows, dict.functions, FunctionsOff(n))
      BY <2>1 DEF WrongWaiting
    <3>3. WrongWaiting(n)' = {}
      <4>1. \A tag, table, source, M : InList(tag, table, << >>, source, M) = {}
        BY DEF InList
      <4> QED
        BY <2>1, <4>1 DEF WrongWaiting
    <3>4. WrongCommitted(n)' \subseteq WrongCommitted(n) \cup WrongWaiting(n)
      BY <1>1, <2>1, <3>1, <3>2 DEF WrongCommitted
    <3> QED
      BY <3>3, <3>4 DEF AllWrong
  <2> QED
    BY <2>2, <2>4
<1>8. CASE InsertArguments
  <2>1. /\ phase = "arguments" /\ arguments' = arguments \o rows
        /\ fields' = fields /\ functions' = functions
        /\ phase' = "done" /\ missing' = missing
    BY <1>8 DEF InsertArguments, Enter
  <2>2. missing' = FALSE
    BY <1>8, <2>1 DEF InsertArguments, TypeInv, MissingOK, PositionOK, TypeOK
  <2>3. /\ arguments \in Seq(ArgumentRows) /\ rows \in Seq(ArgumentRows)
        /\ ArgumentSource(dict) \in Seq(ArgumentSources)
        /\ Len(rows) = Len(ArgumentSource(dict))
        /\ Len(arguments) = e * Len(ArgumentSource(dict))
    BY <1>4, <1>5, <1>8, <2>1, SourcesOfFunctions, ArgumentsComplete
    DEF TypeInv, TypeOK, Holds
  <2>4. ASSUME NEW n \in Names
        PROVE  AllWrong(n)' \subseteq AllWrong(n)
    <3>1. InTable("arguments", arguments \o rows, ArgumentSource(dict),
                  ArgumentsOff(n))
            \subseteq
          InTable("arguments", arguments, ArgumentSource(dict), ArgumentsOff(n))
            \cup InList("arguments", arguments, rows, ArgumentSource(dict),
                        ArgumentsOff(n))
      BY <2>3, BatchWrong
    <3>2. WrongWaiting(n) =
            InList("arguments", arguments, rows, ArgumentSource(dict), ArgumentsOff(n))
      BY <2>1 DEF WrongWaiting
    <3>3. WrongWaiting(n)' = {}
      BY <2>1 DEF WrongWaiting
    <3>4. WrongCommitted(n)' \subseteq WrongCommitted(n) \cup WrongWaiting(n)
      BY <1>1, <2>1, <3>1, <3>2 DEF WrongCommitted
    <3> QED
      BY <3>3, <3>4 DEF AllWrong
  <2> QED
    BY <2>2, <2>4
<1> QED
  BY <1>2, <1>3, <1>6, <1>7, <1>8 DEF Next, Step

LEMMA WrongNext ==
  ASSUME TypeInv, VisitedInv, BatchInv, MadeInv, WrongInv, [Next]_vars
  PROVE  WrongInv'
<1>1. CASE ~ResolveField /\ ~ResolveFunction /\ ~ResolveArgument
  <2> SUFFICES ASSUME NEW n \in Names PROVE OnceWrong(n)'
    BY DEF WrongInv
  <2>1. /\ \/ missing' = FALSE
           \/ missing' = missing /\ (missing => Wanted' = Wanted)
        /\ AllWrong(n)' \subseteq AllWrong(n)
    BY <1>1, WrongElsewhere
  <2>2. OnceWrong(n)
    BY DEF WrongInv
  <2>3. DOMAIN types \subseteq DOMAIN types'
    BY KnownStays
  <2>4. AllWrong(n) # {} => n \in DOMAIN types /\ ~(missing /\ Wanted = n)
    BY <2>2 DEF OnceWrong
  <2>5. AllWrong(n)' # {} => n \in DOMAIN types' /\ ~(missing' /\ Wanted' = n)
    BY <2>1, <2>3, <2>4
  <2>6. \A x, y \in AllWrong(n)' : x = y
    BY <2>1, <2>2 DEF OnceWrong
  <2> QED
    BY <2>5, <2>6 DEF OnceWrong
<1> QED
  BY <1>1, WrongResolveField, WrongResolveFunction, WrongResolveArgument

\* The committed places of the property are among those of the invariant.
LEMMA WrongPlaces ==
  ASSUME TypeOK, BatchInv, NEW n \in Names
  PROVE  /\ Wrong(n) \subseteq WrongCommitted(n)
         /\ n.stars = 0 => Wrong(n) = {}
         /\ \A k \in DOMAIN fields :
              <<"fields", k>> \in Wrong(n) => fields[k].type = Root(n)
         /\ \A k \in DOMAIN functions :
              <<"functions", k>> \in Wrong(n) => functions[k].ret = Root(n)
         /\ \A k \in DOMAIN arguments :
              <<"arguments", k>> \in Wrong(n) => arguments[k].type = Root(n)
<1>1. PICK c, d, e \in Nat :
        /\ Holds(fields, FieldSource(dict), FieldPairs, c)
        /\ Holds(functions, dict.functions, FunctionPairs, d)
        /\ Holds(arguments, ArgumentSource(dict), ArgumentPairs(functions), e)
  BY DEF BatchInv, Batches
<1>2. DictFields = FieldSource(dict) /\ DictArguments = ArgumentSource(dict)
  BY DEF DictFields, FieldSource, FieldLists, DictArguments, ArgumentSource,
         ArgumentLists
<1>3. /\ DOMAIN fields = 1 .. Len(fields)
      /\ DOMAIN functions = 1 .. Len(functions)
      /\ DOMAIN arguments = 1 .. Len(arguments)
  BY LenProperties DEF TypeOK
<1>4. n.stars = 0 => Root(n) = n
  BY RootType
<1>5. \A k \in DOMAIN fields :
        LET p == <<fields[k], Source(DictFields, k)>>
        IN  /\ p \in Rows \X Rows
            /\ p[2].type = n => p[1].type = n \/ p[1].type = Root(n)
  BY <1>1, <1>2, <1>3 DEF Holds, FieldPairs
<1>6. \A k \in DOMAIN functions :
        LET p == <<functions[k], Source(dict.functions, k)>>
        IN  /\ p \in FunctionRows \X FunctionEntry
            /\ p[2].ret = n => p[1].ret = n \/ p[1].ret = Root(n)
  BY <1>1, <1>3 DEF Holds, FunctionPairs
<1>7. \A k \in DOMAIN arguments :
        LET p == <<arguments[k], Source(DictArguments, k)>>
        IN  /\ p \in ArgumentRows \X ArgumentSources
            /\ p[2].type = n => p[1].type = n \/ p[1].type = Root(n)
  BY <1>1, <1>2, <1>3 DEF Holds, ArgumentPairs
<1>8. ASSUME NEW k \in DOMAIN fields, Source(DictFields, k).type = n,
             fields[k].type # n
      PROVE  /\ <<"fields", k>> \in WrongCommitted(n)
             /\ fields[k].type = Root(n) /\ n.stars # 0
  <2>1. <<fields[k], Source(DictFields, k)>> \in FieldsOff(n)
    BY <1>5, <1>8 DEF FieldsOff
  <2>2. <<"fields", k>> \in InTable("fields", fields, FieldSource(dict), FieldsOff(n))
    BY <1>2, <1>3, <2>1 DEF InTable
  <2> QED
    BY <1>4, <1>5, <1>8, <2>2 DEF WrongCommitted
<1>9. ASSUME NEW k \in DOMAIN functions, Source(dict.functions, k).ret = n,
             functions[k].ret # n
      PROVE  /\ <<"functions", k>> \in WrongCommitted(n)
             /\ functions[k].ret = Root(n) /\ n.stars # 0
  <2>1. <<functions[k], Source(dict.functions, k)>> \in FunctionsOff(n)
    BY <1>6, <1>9 DEF FunctionsOff
  <2>2. <<"functions", k>> \in
          InTable("functions", functions, dict.functions, FunctionsOff(n))
    BY <1>3, <2>1 DEF InTable
  <2> QED
    BY <1>4, <1>6, <1>9, <2>2 DEF WrongCommitted
<1>10. ASSUME NEW k \in DOMAIN arguments, Source(DictArguments, k).type = n,
              arguments[k].type # n
       PROVE  /\ <<"arguments", k>> \in WrongCommitted(n)
              /\ arguments[k].type = Root(n) /\ n.stars # 0
  <2>1. <<arguments[k], Source(DictArguments, k)>> \in ArgumentsOff(n)
    BY <1>7, <1>10 DEF ArgumentsOff
  <2>2. <<"arguments", k>> \in
          InTable("arguments", arguments, ArgumentSource(dict), ArgumentsOff(n))
    BY <1>2, <1>3, <2>1 DEF InTable
  <2> QED
    BY <1>4, <1>7, <1>10, <2>2 DEF WrongCommitted
<1>11. "fields" # "functions" /\ "fields" # "arguments" /\ "functions" # "arguments"
  OBVIOUS
<1>12. /\ \A k : <<"fields", k>> \in Wrong(n) =>
                   /\ k \in DOMAIN fields /\ Source(DictFields, k).type = n
                   /\ fields[k].type # n
       /\ \A k : <<"functions", k>> \in Wrong(n) =>
                   /\ k \in DOMAIN functions /\ Source(dict.functions, k).ret = n
                   /\ functions[k].ret # n
       /\ \A k : <<"arguments", k>> \in Wrong(n) =>
                   /\ k \in DOMAIN arguments /\ Source(DictArguments, k).type = n
                   /\ arguments[k].type # n
       /\ \A x \in Wrong(n) : \/ \E k : x = <<"fields", k>>
                              \/ \E k : x = <<"functions", k>>
                              \/ \E k : x = <<"arguments", k>>
  BY <1>11 DEF Wrong
<1> QED
  BY <1>8, <1>9, <1>10, <1>12

\* The names the property is about are names.
LEMMA NamesUsedType ==
  ASSUME TypeOK
  PROVE  NamesUsed \subseteq Names
<1>1. dict \in Dictionaries
  BY DictsAssumption DEF TypeOK
<1>2. DictFields = FieldSource(dict) /\ DictArguments = ArgumentSource(dict)
  BY DEF DictFields, FieldSource, FieldLists, DictArguments, ArgumentSource,
         ArgumentLists
<1>3. /\ DictFields \in Seq(Rows) /\ dict.functions \in Seq(FunctionEntry)
      /\ DictArguments \in Seq(ArgumentSources)
  BY <1>1, <1>2, SourcesOfTypes, SourcesOfFunctions
<1>4. /\ \A k \in DOMAIN DictFields : DictFields[k] \in Rows
      /\ \A k \in DOMAIN dict.functions : dict.functions[k] \in FunctionEntry
      /\ \A k \in DOMAIN DictArguments : DictArguments[k] \in ArgumentSources
  BY <1>3, LenProperties, SeqElement
<1> QED
  BY <1>4 DEF NamesUsed, Rows, FunctionEntry, ArgumentSources

\* The damage of lines 58-72, 124-138 and 165-179 is bounded: over all executions
\* and all tables at most one row has the wrong type for each name, and it has
\* the name without its stars.
THEOREM OneWrongRowHolds == Spec => []OneWrongRowPerName
<1>1. Init => WrongInv
  BY DEF Init, WrongInv, OnceWrong, AllWrong, WrongCommitted, WrongWaiting, InTable
<1>2. TypeInv /\ VisitedInv /\ BatchInv /\ MadeInv /\ WrongInv /\ [Next]_vars
        => WrongInv'
  BY WrongNext
<1>3. TypeInv /\ BatchInv /\ WrongInv => OneWrongRowPerName
  <2> SUFFICES ASSUME TypeOK, BatchInv, WrongInv, NEW n \in NamesUsed
               PROVE  /\ \A x, y \in Wrong(n) : x = y
                      /\ n.stars = 0 => Wrong(n) = {}
                      /\ \A k \in DOMAIN fields :
                           <<"fields", k>> \in Wrong(n) => fields[k].type = Root(n)
                      /\ \A k \in DOMAIN functions :
                           <<"functions", k>> \in Wrong(n) =>
                             functions[k].ret = Root(n)
                      /\ \A k \in DOMAIN arguments :
                           <<"arguments", k>> \in Wrong(n) =>
                             arguments[k].type = Root(n)
    BY DEF OneWrongRowPerName, TypeInv
  <2>1. n \in Names
    BY NamesUsedType
  <2>2. \A x, y \in WrongCommitted(n) : x = y
    BY <2>1 DEF WrongInv, OnceWrong, AllWrong
  <2>3. Wrong(n) \subseteq WrongCommitted(n)
    BY <2>1, WrongPlaces
  <2>4. \A x, y \in Wrong(n) : x = y
    BY <2>2, <2>3
  <2> QED
    BY <2>1, <2>4, WrongPlaces
<1> QED
  BY <1>1, <1>2, <1>3, BatchInvariance, PTL DEF Spec
=============================================================================
