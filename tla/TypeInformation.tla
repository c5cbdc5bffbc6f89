--------------------------- MODULE TypeInformation ---------------------------
(***************************************************************************)
(* typeInformation of SQLFunc.cpp: the recursive function that reads the   *)
(* description of a type, of the types it is built from, of theirs, and so *)
(* on, out of ApiMonitor.db.  The recursion goes through a callback of     *)
(* sqlite3_exec, and every level keeps a connection of its own open while  *)
(* the levels below it run; so the stack of C++ frames is a variable here, *)
(* and every call of SQLite a step, which may fail.                        *)
(*                                                                         *)
(* An Arg is a record; the Arg objects created by new are the cells of     *)
(* heap, and a pointer to one is its index.                                *)
(***************************************************************************)
EXTENDS Integers, SequencesExt

CONSTANTS
  TypeNames,  \* names a type may have
  Texts,      \* kinds, names of fields and names of values
  Databases,  \* possible contents of ApiMonitor.db
  MaxDepth,   \* frames of typeInformation the C++ stack has room for
  MaxFaults,  \* bound: how many calls of SQLite fail
  NONE,       \* NULL in a column, the empty string in C++
  NULL,       \* the null pointer
  WILD        \* the value of a pointer nobody initialised

\* The tables Types, Fields and Def_Values; rows refer to types by name here,
\* by type_id in the database.
TypeRow == [kind : Texts, base : TypeNames \cup {NONE}]
FieldRow == [struct : TypeNames, type : TypeNames, name : Texts, order : Nat]
ValueRow == [type : TypeNames, name : Texts]

IsDatabase(d) ==
  /\ DOMAIN d.types \subseteq TypeNames
  /\ d.types \in [DOMAIN d.types -> TypeRow]
  /\ d.fields \in Seq(FieldRow)
  /\ d.values \in Seq(ValueRow)

ASSUME DatabasesAssumption == \A d \in Databases : IsDatabase(d)

ASSUME BoundsAssumption ==
  MaxDepth \in Nat \ {0} /\ MaxFaults \in Nat

ASSUME PointersAssumption == NULL \notin Nat /\ WILD \notin Nat /\ NULL # WILD

\* An empty string is none of the kinds that have members.
ASSUME NoneAssumption == NONE \notin {"Struct", "Union", "Alias"}

-----------------------------------------------------------------------------
VARIABLES
  db,        \* the database; nobody writes it during the call
  root,      \* the argument of the outermost call
  stack,     \* the frames, the innermost last
  heap,      \* the Arg objects made by new
  result,    \* what the outermost call returned
  handles,   \* connections open
  unclosed,  \* connections whose opening failed, and which nobody closes
  faults,    \* failed calls so far
  outcome    \* "running", "returned", or "overflow" of the C++ stack

vars == <<db, root, stack, heap, result, handles, unclosed, faults, outcome>>

\* Arg type; as the compiler leaves it: strings and lists empty, the pointer
\* and the order not initialised.
FreshArg == [name |-> NONE, order |-> NONE, typeName |-> NONE, kind |-> NONE,
             baseTypeName |-> NONE, baseType |-> WILD,
             Fields |-> << >>, defVal |-> << >>]

\* next is the row of the fields that is read next.
Frame(typeName) == [pc |-> "open", name |-> typeName, type |-> FreshArg,
                    next |-> 1]

Top == stack[Len(stack)]

Init ==
  /\ db \in Databases /\ root \in TypeNames
  /\ stack = <<Frame(root)>>
  /\ heap = << >> /\ result = FreshArg
  /\ handles = 0 /\ unclosed = 0 /\ faults = 0
  /\ outcome = "running"

-----------------------------------------------------------------------------
(* The queries                                                             *)

\* SELECT ... WHERE: those of the rows, in the order of their ids.
Select(rows, wanted) ==
  FoldLeft(LAMBDA found, r : IF r \in wanted THEN Append(found, r) ELSE found,
           << >>, rows)

\* SELECT ... FROM Types INNER JOIN Fields ... INNER JOIN Types WHERE tn = n:
\* the rows of Fields, duplicates and all, without those whose type is not in
\* Types.
FieldsOf(n) ==
  Select(db.fields, {r \in ToSet(db.fields) :
                       r.struct = n /\ {n, r.type} \subseteq DOMAIN db.types})

ValuesOf(n) ==
  Select(db.values, {r \in ToSet(db.values) : r.type = n /\ n \in DOMAIN db.types})

\* One more call of SQLite fails.
Fault == faults < MaxFaults /\ faults' = faults + 1

-----------------------------------------------------------------------------
(* Calls and returns                                                       *)

SetTop(frame) == stack' = [stack EXCEPT ![Len(stack)] = frame]

\* Mutant of Call: a frame more than the stack has room for.
CallOneMore(n) ==
  IF Len(stack) <= MaxDepth
  THEN stack' = Append(stack, Frame(n)) /\ UNCHANGED outcome
  ELSE outcome' = "overflow" /\ UNCHANGED stack

\* The top frame calls typeInformation(n).
Call(n) ==
  IF Len(stack) < MaxDepth
  THEN stack' = Append(stack, Frame(n)) /\ UNCHANGED outcome
  ELSE outcome' = "overflow" /\ UNCHANGED stack

\* The caller of the top frame continues as frame.
Resume(frame) == stack' = Append(SubSeq(stack, 1, Len(stack) - 2), frame)

Caller == stack[Len(stack) - 1]

\* return type; in the outermost frame.
ReturnResult(arg) ==
  /\ Len(stack) = 1
  /\ stack' = << >> /\ result' = arg /\ outcome' = "returned"
  /\ UNCHANGED heap

\* Mutant of ReturnBase: the address of the returned value is kept, no copy of
\* it is made.
ReturnTemporary(arg) ==
  /\ Len(stack) > 1 /\ Caller.pc = "base"
  /\ Resume([Caller EXCEPT !.pc = "members", !.type.baseType = Len(heap) + 1])
  /\ UNCHANGED <<heap, result, outcome>>

\* Mutant of ReturnBase: an equal object made before is shared.
ReturnShared(arg) ==
  /\ Len(stack) > 1 /\ Caller.pc = "base"
  /\ heap' = IF \E a \in DOMAIN heap : heap[a] = arg THEN heap
             ELSE Append(heap, arg)
  /\ Resume([Caller EXCEPT !.pc = "members",
                !.type.baseType = CHOOSE a \in DOMAIN heap' : heap'[a] = arg])
  /\ UNCHANGED <<result, outcome>>

\* new Arg(typeInformation(type.baseTypeName)).
ReturnBase(arg) ==
  /\ Len(stack) > 1 /\ Caller.pc = "base"
  /\ heap' = Append(heap, arg)
  /\ Resume([Caller EXCEPT !.pc = "members", !.type.baseType = Len(heap')])
  /\ UNCHANGED <<result, outcome>>

\* Mutant of ReturnField: the first field of a structure is taken for no row.
ReturnFieldPastFirst(arg) ==
  /\ Len(stack) > 1 /\ Caller.pc = "fields"
  /\ LET row == FieldsOf(Caller.name)[Caller.next]
         field == [arg EXCEPT !.name = row.name, !.order = row.order]
     IN  Resume([Caller EXCEPT
                   !.next = @ + 1,
                   !.type.Fields = IF field.order > 0 THEN Append(@, field)
                                   ELSE @])
  /\ UNCHANGED <<heap, result, outcome>>

\* The rest of UnCallback.
ReturnField(arg) ==
  /\ Len(stack) > 1 /\ Caller.pc = "fields"
  /\ LET row == FieldsOf(Caller.name)[Caller.next]
         field == [arg EXCEPT !.name = row.name, !.order = row.order]
     IN  Resume([Caller EXCEPT
                   !.next = @ + 1,
                   !.type.Fields = IF field.order # -1 THEN Append(@, field)
                                   ELSE @])
  /\ UNCHANGED <<heap, result, outcome>>

Return(arg) == ReturnResult(arg) \/ ReturnBase(arg) \/ ReturnField(arg)

-----------------------------------------------------------------------------
(* The body of the function                                                *)

At(pc) == outcome = "running" /\ Top.pc = pc

Open ==
  /\ At("open")
  /\ handles' = handles + 1
  /\ SetTop([Top EXCEPT !.pc = "row", !.type.typeName = Top.name])
  /\ UNCHANGED <<db, root, heap, result, unclosed, faults, outcome>>

\* The connection object exists all the same, and is not closed.
OpenFails ==
  /\ At("open") /\ Fault
  /\ unclosed' = unclosed + 1
  /\ Return(Top.type)
  /\ UNCHANGED <<db, root, handles>>

SelectType ==
  /\ At("row")
  /\ SetTop(IF Top.name \in DOMAIN db.types
            THEN [Top EXCEPT !.pc = "base",
                             !.type.kind = db.types[Top.name].kind,
                             !.type.baseTypeName = db.types[Top.name].base]
            ELSE [Top EXCEPT !.pc = "base"])
  /\ UNCHANGED <<db, root, heap, result, handles, unclosed, faults, outcome>>

\* Mutant of SelectTypeFails: an early return that forgets the connection.
SelectTypeReturns ==
  /\ At("row") /\ Fault
  /\ Return(Top.type)
  /\ UNCHANGED <<db, root, handles, unclosed>>

\* The message is printed and the function goes on with what it has.
SelectTypeFails ==
  /\ At("row") /\ Fault
  /\ SetTop([Top EXCEPT !.pc = "base"])
  /\ UNCHANGED <<db, root, heap, result, handles, unclosed, outcome>>

CallBase ==
  /\ At("base") /\ Top.type.baseTypeName # NONE
  /\ Call(Top.type.baseTypeName)
  /\ UNCHANGED <<db, root, heap, result, handles, unclosed, faults>>

\* Mutant of NoBase: the else branch is missing.
NoBaseUnset ==
  /\ At("base") /\ Top.type.baseTypeName = NONE
  /\ SetTop([Top EXCEPT !.pc = "members"])
  /\ UNCHANGED <<db, root, heap, result, handles, unclosed, faults, outcome>>

NoBase ==
  /\ At("base") /\ Top.type.baseTypeName = NONE
  /\ SetTop([Top EXCEPT !.pc = "members", !.type.baseType = NULL])
  /\ UNCHANGED <<db, root, heap, result, handles, unclosed, faults, outcome>>

SelectMembers ==
  /\ At("members")
  /\ SetTop([Top EXCEPT !.pc = IF Top.type.kind \in {"Struct", "Union"}
                               THEN "fields"
                               ELSE IF Top.type.kind = "Alias" THEN "values"
                               ELSE "close"])
  /\ UNCHANGED <<db, root, heap, result, handles, unclosed, faults, outcome>>

\* UnCallback is called with the next row.
CallField ==
  /\ At("fields") /\ Top.next <= Len(FieldsOf(Top.name))
  /\ Call(FieldsOf(Top.name)[Top.next].type)
  /\ UNCHANGED <<db, root, heap, result, handles, unclosed, faults>>

\* Mutant of FieldsEnd: a row is waited for that does not exist.
FieldsEndLate ==
  /\ At("fields") /\ Top.next > Len(FieldsOf(Top.name)) + 1
  /\ SetTop([Top EXCEPT !.pc = "close"])
  /\ UNCHANGED <<db, root, heap, result, handles, unclosed, faults, outcome>>

FieldsEnd ==
  /\ At("fields") /\ Top.next > Len(FieldsOf(Top.name))
  /\ SetTop([Top EXCEPT !.pc = "close"])
  /\ UNCHANGED <<db, root, heap, result, handles, unclosed, faults, outcome>>

\* The query fails before its first row or between two rows.
FieldsFail ==
  /\ At("fields") /\ Fault
  /\ SetTop([Top EXCEPT !.pc = "close"])
  /\ UNCHANGED <<db, root, heap, result, handles, unclosed, outcome>>

\* AliasCallback takes every row, or the rows before the query fails.
SelectValues ==
  /\ At("values")
  /\ \/ /\ SetTop([Top EXCEPT !.pc = "close", !.type.defVal = ValuesOf(Top.name)])
        /\ UNCHANGED faults
     \/ /\ Fault
        /\ \E k \in 0 .. Len(ValuesOf(Top.name)) :
             SetTop([Top EXCEPT !.pc = "close",
                                !.type.defVal = SubSeq(ValuesOf(Top.name), 1, k)])
  /\ UNCHANGED <<db, root, heap, result, handles, unclosed, outcome>>

Close ==
  /\ At("close")
  /\ handles' = handles - 1
  /\ Return(Top.type)
  /\ UNCHANGED <<db, root, unclosed, faults>>

Next ==
  \/ Open \/ OpenFails \/ SelectType \/ SelectTypeFails \/ CallBase \/ NoBase
  \/ SelectMembers \/ CallField \/ FieldsEnd \/ FieldsFail \/ SelectValues
  \/ Close

Spec == Init /\ [][Next]_vars

-----------------------------------------------------------------------------
(* Properties                                                              *)

\* The shape of the frames, and pointers that point into the heap.
TypeOK ==
  /\ db \in Databases /\ root \in TypeNames
  /\ \A k \in DOMAIN stack :
       /\ stack[k].pc \in {"open", "row", "base", "members", "fields", "values",
                           "close"}
       /\ stack[k].name \in TypeNames
       /\ stack[k].next \in Nat \ {0}
       /\ stack[k].type.kind \in Texts \cup {NONE}
       /\ stack[k].type.baseTypeName \in TypeNames \cup {NONE}
       /\ stack[k].type.baseType \in 1 .. Len(heap) \cup {NULL, WILD}
  /\ handles \in Nat /\ unclosed \in Nat
  /\ faults \in 0 .. MaxFaults
  /\ outcome \in {"running", "returned", "overflow"}

\* Every frame past its sqlite3_open holds one connection and every frame
\* that has returned has closed it, on the paths of failed queries too: the
\* function never returns to its caller with a connection open.
ConnectionsOfFrames ==
  /\ outcome # "returned" =>
       handles = Len(stack) - (IF Top.pc = "open" THEN 1 ELSE 0)
  /\ outcome = "returned" => handles = 0

\* A frame has initialised its pointer before it fills in the members, so a
\* wild pointer leaves the function only after a failed sqlite3_open.
WildOnlyUnopened ==
  /\ \A k \in DOMAIN stack :
       stack[k].type.baseType = WILD =>
         stack[k].pc \in {"open", "row", "base"}
  /\ \A a \in DOMAIN heap :
       heap[a].baseType = WILD => heap[a].typeName = NONE

\* The types that typeInformation is called for in turn when it reads type n.
Parts(n) ==
  IF n \notin DOMAIN db.types THEN {}
  ELSE ({db.types[n].base} \ {NONE})
       \cup (IF db.types[n].kind \in {"Struct", "Union"}
             THEN {FieldsOf(n)[k].type : k \in DOMAIN FieldsOf(n)} ELSE {})

\* Types each of which is a part of the one before.
HasChain(n, length) ==
  \E c \in [1 .. length -> TypeNames] :
    c[1] = n /\ \A k \in 1 .. length - 1 : c[k + 1] \in Parts(c[k])

\* Whether the program dies of a stack overflow is decided by the database: it
\* does only where a chain of types is longer than the stack has room for, a
\* type that contains itself being such a chain, and an undisturbed call that
\* returns has met none.
DepthDecides ==
  /\ outcome = "overflow" => HasChain(root, MaxDepth + 1)
  /\ outcome = "returned" /\ faults = 0 => ~HasChain(root, MaxDepth + 1)
=============================================================================
