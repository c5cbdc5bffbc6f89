------------------------------- MODULE MCFill -------------------------------
(* Small dictionaries for filling_bd.py, and what the comments of the script *)
(* say.                                                                      *)
EXTENDS Fill, FiniteSets

\* "I" is declared, as an Integer; "X" is not declared anywhere.
N(b, k) == [base |-> b, stars |-> k]
P(b, k, name) == [type |-> N(b, k), name |-> name]

Plain(n, kind, base, fs, ds) ==
  [name |-> n, kind |-> kind, base |-> base, fields |-> fs, defs |-> ds]

F(name, dll, category, ret, params) ==
  [name |-> name, dll |-> dll, category |-> category, ret |-> ret,
   params |-> params]

\* A structure whose two fields have the same undeclared pointer type, an
\* alias declared twice with values, and a type that is declared as an alias
\* although its name ends in a star, as VOID* is.
Types1 ==
  << Plain(N("S", 0), "Struct", NONE,
           <<P("X", 2, "a"), P("I", 1, "b"), P("X", 2, "c")>>, << >>),
     Plain(N("I", 0), "Integer", NONE, << >>, << >>),
     Plain(N("A", 0), "Alias", N("I", 0), << >>, <<"ON", "OFF">>),
     Plain(N("A", 0), "Alias", N("S", 1), << >>, <<"ON">>),
     Plain(N("S", 1), "Alias", N("A", 0), << >>, << >>) >>

\* Two functions of one name in two modules, and a method of an interface.
Functions1 ==
  << F("Get", "a.dll", "Files", N("X", 1), <<P("I", 2, "p"), P("A", 0, "q")>>),
     F("Get", "b.dll", "Disks", N("I", 0), <<P("I", 2, "p"), P("X", 3, "r")>>),
     F("IGet.Run", "none", "Shell", N("I", 3), <<P("S", 2, "s")>>),
     F("Put", "a.dll", "none", N("X", 0), << >>) >>

\* Nothing declared: every type name is found by stripping it.
Types2 == << Plain(N("S", 0), "Union", NONE,
                   <<P("I", 1, "a"), P("I", 2, ""), P("I", 0, "c")>>, << >>) >>

Functions2 ==
  << F("Get", "*", "Files", N("X", 0), <<P("X", 1, "p")>>),
     F("Put", "a.dll", "Files", N("X", 1), <<P("X", 2, "p"), P("X", 2, "q")>>) >>

MCTexts == {"Struct", "Union", "Integer", "Alias", "Pointer", "Unknown",
            "a", "b", "c", "p", "q", "r", "s", "", "NOT INDICATED",
            "ON", "OFF", "Get", "Put", "IGet.Run", "a.dll", "b.dll", "none", "*",
            "Files", "Disks", "Shell"}

MCDicts == {[types |-> t, functions |-> f] :
              t \in {Types1, Types2}, f \in {Functions1, Functions2}}

-----------------------------------------------------------------------------
(* What the comments of the script say, and the code does not do           *)

\* filling_bd.py:142: the table is filled with the values of the dictionary.
ArgumentTypesAsInDictionary ==
  phase = "done" /\ runs = 1 =>
    \A k \in DOMAIN arguments :
      arguments[k].type = Source(DictArguments, k).type

\* filling_bd.py:77: API_Categories is filled from the dictionary.
CategoriesOfDictionary ==
  phase = "done" =>
    \A k \in DOMAIN dict.functions :
      dict.functions[k].category \in apis \cup {"none"}

\* filling_bd.py:147: func_id is the function the argument belongs to.
ArgumentsOfTheirFunction ==
  phase = "done" /\ runs = 1 =>
    \A m \in DOMAIN functions :
      Cardinality({k \in DOMAIN arguments : arguments[k].func = m})
        = Len(dict.functions[m].params)
=============================================================================
