--------------------------- MODULE FirstGeneration ---------------------------
(***************************************************************************)
(* functionInformation of praktika/praktika (Extract.cpp): the function    *)
(* and its arguments, each with the names of its values or the rows of its *)
(* fields, and nothing about the types behind those.                       *)
(***************************************************************************)
EXTENDS SQLFunc

CONSTANT Databases  \* possible contents of ApiMonitor.db

VARIABLE result  \* the Result

vars == <<db, name, pc, func, members, result, handles, unclosed, faults>>

Init == db \in Databases /\ QueryInit /\ result = NoFunction

-----------------------------------------------------------------------------
CopyFunction ==
  /\ pc = "copy"
  /\ result' = [func EXCEPT !.arguments = << >>]
  /\ Goto("base")
  /\ UNCHANGED <<name, func, members, handles, unclosed, faults>>

\* The argument whose turn it is.
Turn == Len(result.arguments) + 1

\* Its five columns are copied.
CopyArgument ==
  /\ pc = "base" /\ Turn <= Len(func.arguments)
  /\ Goto("disclose")
  /\ UNCHANGED <<name, func, members, result, handles, unclosed, faults>>

\* Two ifs on one kind: at most one list is filled.
PushArgument ==
  /\ pc = "members"
  /\ LET a == func.arguments[Turn]
     IN  result' = [result EXCEPT !.arguments = Append(@,
           [of |-> a,
            fields |-> IF IsStruct(a.kind) THEN members ELSE << >>,
            defVal |-> IF a.kind = "Alias" THEN members ELSE << >>])]
  /\ Goto("base")
  /\ UNCHANGED <<name, func, members, handles, unclosed, faults>>

Return ==
  /\ pc = "base" /\ Turn > Len(func.arguments)
  /\ Goto("returned")
  /\ UNCHANGED <<name, func, members, result, handles, unclosed, faults>>

Disclose == TypeDisclosure(func.arguments[Turn])

\* Nobody writes the database during the call.
Next ==
  /\ \/ (ExtractFromDb \/ Disclose) /\ UNCHANGED result
     \/ CopyFunction \/ CopyArgument \/ PushArgument \/ Return
  /\ UNCHANGED db

Spec == Init /\ [][Next]_vars

\* A single thread that waits for nobody.
FairSpec == Spec /\ WF_vars(Next)
=============================================================================
