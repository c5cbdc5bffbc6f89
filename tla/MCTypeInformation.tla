--------------------------- MODULE MCTypeInformation ---------------------------
(* Small databases for typeInformation.                                      *)
EXTENDS Result

MCTexts == {"Struct", "Alias", "Pointer", "a", "b", "c", "ON", "OFF"}

Row(kind, base) == [kind |-> kind, base |-> base]
Field(struct, type, name, order) ==
  [struct |-> struct, type |-> type, name |-> name, order |-> order]
Value(type, name) == [type |-> type, name |-> name]

\* Every table of two type names and every list of at most one field between the
\* types it holds: bases that are missing, types that contain themselves, fields
\* of what is no structure.
Rows == [kind : {"Struct", "Pointer"}, base : {"S", "T", NONE}]

FieldLists(D) == {<< >>} \cup {<<Field(s, t, "a", 0)>> : s, t \in D}

SmallDatabases ==
  UNION {[types : [D -> Rows], fields : FieldLists(D), values : {<< >>}] :
           D \in SUBSET {"S", "T"}}

\* A structure with rows inserted twice, pointers that share what they point to,
\* an alias with values, and a base that is declared nowhere.
Shared ==
  [types |-> [S |-> Row("Struct", NONE), P |-> Row("Pointer", "A"),
              A |-> Row("Alias", "X")],
   fields |-> <<Field("S", "P", "a", 0), Field("S", "A", "b", 1),
                Field("S", "P", "a", 0)>>,
   values |-> <<Value("A", "ON"), Value("A", "OFF")>>]

\* A structure inside a structure inside an alias; the pointer to the alias is
\* a frame more than there is room for.
Nested ==
  [types |-> [A |-> Row("Alias", "S"), S |-> Row("Struct", NONE),
              T |-> Row("Struct", "P"), P |-> Row("Pointer", NONE),
              X |-> Row("Pointer", "A")],
   fields |-> <<Field("S", "T", "a", 0), Field("T", "P", "b", 0),
                Field("S", "P", "c", 1)>>,
   values |-> <<Value("A", "ON")>>]

MCTypeNames == {"S", "T", "P", "A", "X"}

MCDatabases == SmallDatabases \cup {Shared, Nested}

-----------------------------------------------------------------------------
(* What sqlite3.h asks for                                                 *)

\* sqlite3.h says that a handle whose opening failed is to be closed too; when
\* the call has returned, none may be left.
ConnectionsReleased == outcome = "returned" => unclosed = 0
=============================================================================
