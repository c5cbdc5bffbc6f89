------------------------------- MODULE Extract -------------------------------
(***************************************************************************)
(* functionInformation of BeautiFunc (Extract.cpp): what FirstGeneration   *)
(* reads, and behind every base and every field the tree of its type.      *)
(* typeInformation, which has a module of its own, is a call that spoils   *)
(* the tree it returns in at most as many places as calls of SQLite fail   *)
(* in it.                                                                  *)
(***************************************************************************)
EXTENDS SQLFunc

CONSTANT Databases  \* possible contents of ApiMonitor.db

ASSUME DatabasesAssumption ==
  \A d \in Databases : IsDatabase(d)

\* What a call of typeInformation returns: the tree of a type, with flaws.
Trees == [of : TypeNames \cup Texts, flaws : Nat]

\* The null pointer points to no tree.
ASSUME NoTreeAssumption == NONE \notin Trees

VARIABLES
  arg,    \* the Arg being put together
  result  \* the Result

vars == <<db, name, pc, func, arg, members, result, handles, unclosed, faults>>

\* Arg, before it is filled in.
NoArg == [of |-> NONE, base |-> NONE, fields |-> << >>, defVal |-> << >>]

\* functionInformation is called, over whatever database.
CallInit == QueryInit /\ arg = NoArg /\ result = NoFunction

Init == db \in Databases /\ CallInit

\* typeInformation(n): the tree of n with some flaws.
TypeInformation(n) == [of : {n}, flaws : 0 .. MaxFaults - faults]

-----------------------------------------------------------------------------
(* functionInformation                                                     *)

CopyFunction ==
  /\ pc = "copy"
  /\ result' = [func EXCEPT !.arguments = << >>]
  /\ Goto("base")
  /\ UNCHANGED <<name, func, arg, members, handles, unclosed, faults>>

\* The argument whose turn it is.
Turn == Len(result.arguments) + 1

\* Arg arg; its base is a tree of its own.
CopyArgument ==
  /\ pc = "base" /\ Turn <= Len(func.arguments)
  /\ LET a == func.arguments[Turn]
         fresh == [NoArg EXCEPT !.of = a]
     IN  IF a.baseTypeName # NONE
         THEN \E tree \in TypeInformation(a.baseTypeName) :
                /\ arg' = [fresh EXCEPT !.base = tree]
                /\ faults' = faults + tree.flaws
         ELSE arg' = fresh /\ UNCHANGED faults
  /\ Goto("disclose")
  /\ UNCHANGED <<name, func, members, result, handles, unclosed>>

CopyField ==
  /\ pc = "members" /\ IsStruct(arg.of.kind)
  /\ Len(arg.fields) < Len(members)
  /\ LET m == members[Len(arg.fields) + 1]
     IN  \E tree \in TypeInformation(m.typeName) :
           /\ arg' = [arg EXCEPT !.fields =
                Append(@, [name |-> m.name, order |-> m.order, tree |-> tree])]
           /\ faults' = faults + tree.flaws
  /\ UNCHANGED <<name, pc, func, members, result, handles, unclosed>>

\* Mutant of PushArgument: the values are left behind.
PushArgumentBare ==
  /\ pc = "members"
  /\ IsStruct(arg.of.kind) => Len(arg.fields) = Len(members)
  /\ result' = [result EXCEPT !.arguments = Append(@, arg)]
  /\ Goto("base")
  /\ UNCHANGED <<name, func, arg, members, handles, unclosed, faults>>

PushArgument ==
  /\ pc = "members"
  /\ IsStruct(arg.of.kind) => Len(arg.fields) = Len(members)
  /\ LET whole == IF arg.of.kind = "Alias" THEN [arg EXCEPT !.defVal = members]
                  ELSE arg
     IN  result' = [result EXCEPT !.arguments = Append(@, whole)]
  /\ Goto("base")
  /\ UNCHANGED <<name, func, arg, members, handles, unclosed, faults>>

Return ==
  /\ pc = "base" /\ Turn > Len(func.arguments)
  /\ Goto("returned")
  /\ UNCHANGED <<name, func, arg, members, result, handles, unclosed, faults>>

Disclose == TypeDisclosure(func.arguments[Turn])

\* A step of the call, whatever becomes of the database.
Step ==
  \/ (ExtractFromDb \/ Disclose) /\ UNCHANGED <<arg, result>>
  \/ CopyFunction \/ CopyArgument \/ CopyField \/ PushArgument \/ Return

\* Nobody writes the database during the call.
Next == Step /\ UNCHANGED db

Spec == Init /\ [][Next]_vars

-----------------------------------------------------------------------------
(* The first generation                                                    *)

FlawsOf(a) ==
  (IF a.base = NONE THEN 0 ELSE a.base.flaws)
  + FoldLeft(LAMBDA n, f : n + f.tree.flaws, 0, a.fields)

\* The failures outside typeInformation.
OwnFaults ==
  faults - FoldLeft(LAMBDA n, a : n + FlawsOf(a), 0, result.arguments)
         - (IF pc \in {"disclose", "select", "members"} THEN FlawsOf(arg) ELSE 0)

\* An argument without its trees.  The kind of a field is the base of the type
\* the field is named by: what SetCallback took for it.
WithoutTrees(a) ==
  [of |-> a.of,
   fields |-> [k \in DOMAIN a.fields |->
     [name |-> a.fields[k].name, order |-> a.fields[k].order,
      typeName |-> a.fields[k].tree.of,
      kind |-> db.types[a.fields[k].name].base, baseTypeName |-> NONE]],
   defVal |-> a.defVal]

OldResult ==
  [result EXCEPT !.arguments =
     [k \in DOMAIN result.arguments |-> WithoutTrees(result.arguments[k])]]

Old == INSTANCE FirstGeneration WITH result <- OldResult, faults <- OwnFaults

\* The second generation, its trees cut off, is the first one: whatever fails
\* and wherever, the two programs read the same, and return where the other does.
ReadsAsBefore == Old!FairSpec

-----------------------------------------------------------------------------
(* Properties                                                              *)

\* The shape of the variables.
TypeOK ==
  /\ db \in Databases /\ QueryTypeOK
  /\ Len(result.arguments) <= Len(func.arguments)

\* What FoundInOrder says, and each argument that was copied into the Result
\* has the base that belongs to it.
PartOfAnswer ==
  /\ FoundInOrder
  /\ \A k \in DOMAIN result.arguments :
       LET a == result.arguments[k]
       IN  /\ a.of = func.arguments[k]
           /\ IF a.of.baseTypeName = NONE THEN a.base = NONE
              ELSE a.base.of = a.of.baseTypeName

\* An undisturbed call gives the whole answer: every argument that the table
\* has for the name, the module, category and type of one function of the
\* name, every value of every alias once, and trees without flaws; and for a
\* name that is not in the table, nothing.
WholeAnswer ==
  pc = "returned" /\ faults = 0 =>
    /\ {a.of : a \in ToSet(result.arguments)} = ArgumentsNamed(name)
    /\ Len(result.arguments) = Len(func.arguments)
    /\ IF FunctionsNamed(name) = << >> THEN result = NoFunction
       ELSE \E r \in ToSet(FunctionsNamed(name)) :
              /\ result.api = r.api /\ result.dll = r.dll
              /\ result.ret = r.ret
    /\ \A a \in ToSet(result.arguments) :
         /\ a.base # NONE => a.base.flaws = 0
         /\ a.of.kind = "Alias" =>
              /\ IsInjective(a.defVal)
              /\ ToSet(a.defVal) = ToSet(ValueNames(a.of.typeName))

\* functionInformation holds no connection while typeInformation opens its own,
\* and none when it returns, through whichever early return.
NothingLeftOpen ==
  pc \in {"copy", "base", "disclose", "members", "returned"} => handles = 0
=============================================================================
