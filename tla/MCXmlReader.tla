----------------------------- MODULE MCXmlReader -----------------------------
(* A folder of five small files, of every shape that src/API has.             *)
EXTENDS XmlReader

N(b, k) == [base |-> b, stars |-> k]

V(b, kind) ==
  [tag |-> "Variable", name |-> N(b, 0), kind |-> kind, base |-> NONE,
   enums |-> << >>, flags |-> << >>, fields |-> << >>]

Structure(b) == [V(b, "Struct") EXCEPT
  !.fields = <<[type |-> N("I", 1), name |-> "x"]>>]

\* Values of both kinds beside fields: only the first of the three is read.
Flags(b) == [Structure(b) EXCEPT
  !.kind = "Alias", !.base = N("I", 0), !.flags = <<<<"ON", "OFF">>, <<"LATE">>>>]
Enumeration(b) == [Flags(b) EXCEPT !.enums = <<<<"LOW">>>>]

A(n, b) == [tag |-> "Api", name |-> n, ret |-> N("I", 0),
            params |-> <<[type |-> N(b, 1), name |-> "p"]>>]

C(n) == [tag |-> "Category", name |-> n]

If(inner) == [tag |-> "Condition", inner |-> inner]

W(tag, n, c, elems) ==
  [tag |-> tag, name |-> n, category |-> c, elems |-> elems]

\* Functions before the first category, and after the second.
AModule == W("Module", "a.dll", "",
  <<A("Get", "S"), [tag |-> "SourceModule"], C("Files"), A("Put", "A"),
    If(<<V("W", "Integer")>>), C("Disks"), V("I", "Integer"), A("Get", "W")>>)

\* A function and no category of its own.
BModule == W("Module", "b.dll", "",
  <<[tag |-> "ModuleAlias"], Flags("A"), A("Get", "A"),
    [tag |-> "ErrorDecode"]>>)

AnInterface == W("Interface", "IGet", "Shell",
  <<A("Run", "S"), Enumeration("E"), A("Put", "E")>>)

AHeader == W("Headers", "", "",
  <<Structure("S"), If(<<V("H", "Integer"), V("W", "Integer")>>),
    If(<<V("H", "Pointer")>>), V("L", "Integer")>>)



MCFolders ==
  {[a |-> <<AModule>>, b |-> <<BModule>>, i |-> <<AnInterface>>,
    h |-> <<AHeader>>, n |-> << >>],
   [a |-> <<AHeader, AModule>>, i |-> <<AHeader, AnInterface>>,
    h |-> <<AHeader, W("Headers", "", "", <<V("X", "Integer")>>)>>]}

MCTexts == {"", "none", "a.dll", "b.dll", "Get", "Put", "Run", "IGet.Run",
            "IGet.Put", "IGet", "Files", "Disks", "Shell", "Struct", "Alias",
            "Integer", "Pointer", "x", "p", "ON", "OFF", "LATE", "LOW"}
=============================================================================
