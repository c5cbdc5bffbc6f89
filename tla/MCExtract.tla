------------------------------ MODULE MCExtract ------------------------------
(* Small databases for functionInformation, as filling_bd.py leaves them.    *)
EXTENDS Extract

MCTexts == {"Struct", "Alias", "Pointer", "Integer", "a.dll", "b.dll", "Files",
            "p", "q", "s", "x", "y", "ON", "OFF"}

MCTypeNames == {"I", "P", "A", "S", "X"}

MCFunctionNames == {"Get", "Put"}

Row(kind, base) == [kind |-> kind, base |-> base]
Field(struct, type, n, order) ==
  [struct |-> struct, type |-> type, name |-> n, order |-> order]
Param(n, type) == [name |-> n, type |-> type]

\* A structure of two pointers and a number, an alias, a pointer to a type that
\* nobody declares.
Types ==
  [I |-> Row("Integer", NONE), P |-> Row("Pointer", "X"),
   A |-> Row("Alias", "I"), S |-> Row("Struct", NONE)]

Fields ==
  <<Field("S", "P", "x", 0), Field("S", "I", "y", 1), Field("S", "P", "q", 2)>>

Values == <<[type |-> "A", name |-> "ON"], [type |-> "A", name |-> "OFF"]>>

Times(s, n) == FlattenSeq([k \in 1 .. n |-> s])

\* n fills from a dictionary of functions called Get, one for each list of
\* parameters, every one in a module of its own or in none: their arguments
\* are all attached to the first.
Filled(lists, n) ==
  [types |-> Types,
   functions |-> Times([k \in DOMAIN lists |->
     [name |-> "Get", api |-> IF k = 1 THEN "Files" ELSE NONE,
      dll |-> IF k = 1 THEN "a.dll" ELSE "b.dll", ret |-> "I"]], n),
   arguments |-> Times(FlattenSeq([k \in DOMAIN lists |->
     [m \in DOMAIN lists[k] |->
        [name |-> lists[k][m].name, order |-> m - 1, func |-> 1,
         type |-> lists[k][m].type]]]), n),
   fields |-> Times(Fields, n),
   values |-> Times(Values, n)]

Parameters == {Param("p", "P"), Param("q", "A"), Param("s", "S")}

Lists == {<< >>} \cup {<<a>> : a \in Parameters} \cup
         {<<a, b>> : a, b \in Parameters}

\* The second fill finds the pointer type that the first one had not found yet.
FoundLater ==
  [Filled(<< <<Param("p", "I"), Param("q", "A")>> >>, 2) EXCEPT
     !.arguments[3].type = "P"]

Short == {<< >>, <<Param("q", "A")>>}

MCDatabases ==
  {Filled(<<a, b>>, 1) : a \in Lists,
                         b \in Short \cup {<<Param("s", "S"), Param("p", "P")>>}}
  \cup {Filled(<<a, b>>, 2) : a \in Lists, b \in Short}
  \cup {FoundLater}

-----------------------------------------------------------------------------
(* What the declaration of the callback promises, and SetCallback misreads *)

\* sqlite3.h:379: the callback gets one string for each column.  The fields
\* of an argument that is a structure have the names the table has for them.
FieldsAsInDatabase ==
  pc = "returned" /\ faults = 0 =>
    \A a \in ToSet(result.arguments) : a.of.kind = "Struct" =>
      {f.name : f \in ToSet(a.fields)} =
        {r.name : r \in {r \in ToSet(db.fields) : r.struct = a.of.typeName}}
=============================================================================
