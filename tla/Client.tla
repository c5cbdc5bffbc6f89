-------------------------------- MODULE Client --------------------------------
(***************************************************************************)
(* The program of praktika.cpp around functionInformation: it prints the   *)
(* arguments of the Result and deletes it.  typeInformation makes the      *)
(* objects of its trees with new; they belong to the Result, whose         *)
(* destructor is the only one to delete them.                              *)
(***************************************************************************)
EXTENDS Extract

VARIABLES
  made,     \* the calls of typeInformation so far, each of which made a tree
  deleted,  \* the trees distr has been through
  turn,     \* the argument that is printed or destroyed next
  stage,    \* "calling", "printing", "deleting"
  outcome   \* "running", "returned", or "undefined" after a bad access

clientVars == <<made, deleted, turn, stage, outcome>>
allVars == <<vars, clientVars>>

ClientInit ==
  /\ Init
  /\ made = 0 /\ deleted = 0 /\ turn = 1
  /\ stage = "calling" /\ outcome = "running"

Running(s) == outcome = "running" /\ stage = s

-----------------------------------------------------------------------------
TreesOf(a) == (IF a.base = NONE THEN 0 ELSE 1) + Len(a.fields)

\* A step of functionInformation; a tree more where typeInformation is called.
Call ==
  /\ Running("calling") /\ Next
  /\ made' = made +
       (IF pc = "base" /\ pc' = "disclose" THEN TreesOf(arg')
        ELSE IF pc = "members" /\ pc' = "members" THEN TreesOf(arg') - TreesOf(arg)
        ELSE 0)
  /\ UNCHANGED <<deleted, turn, stage, outcome>>

Answered ==
  /\ Running("calling") /\ pc = "returned"
  /\ stage' = "printing"
  /\ UNCHANGED <<vars, made, deleted, turn, outcome>>

InPrint == Running("printing") /\ turn <= Len(result.arguments)

\* Mutant: an argument without a base is printed like the others.
PrintAnyArgument ==
  /\ InPrint
  /\ turn' = turn + 1
  /\ UNCHANGED <<vars, made, deleted, stage, outcome>>

\* i->baseType->kind and what follows it.
PrintArgument ==
  /\ InPrint /\ result.arguments[turn].base # NONE
  /\ turn' = turn + 1
  /\ UNCHANGED <<vars, made, deleted, stage, outcome>>

FollowNull ==
  /\ InPrint /\ result.arguments[turn].base = NONE
  /\ outcome' = "undefined"
  /\ UNCHANGED <<vars, made, deleted, turn, stage>>

\* q->arguments.begin()->name, which an empty list does not have; delete q.
PrintFirst ==
  /\ Running("printing") /\ turn > Len(result.arguments)
  /\ IF result.arguments = << >>
     THEN outcome' = "undefined" /\ UNCHANGED <<stage, turn>>
     ELSE stage' = "deleting" /\ turn' = 1 /\ UNCHANGED outcome
  /\ UNCHANGED <<vars, made, deleted>>

InDelete == Running("deleting") /\ turn <= Len(result.arguments)

\* Mutant: the base is destroyed and not deleted.
DestroyFields ==
  /\ InDelete
  /\ deleted' = deleted + Len(result.arguments[turn].fields)
  /\ turn' = turn + 1
  /\ UNCHANGED <<vars, made, stage, outcome>>

\* Mutant: the iterator is not advanced.
DestroyAgain ==
  /\ InDelete
  /\ deleted' = deleted + TreesOf(result.arguments[turn])
  /\ UNCHANGED <<vars, made, turn, stage, outcome>>

\* i->distr() of ~Result: the base, and each of the fields.
Destroy ==
  /\ InDelete
  /\ deleted' = deleted + TreesOf(result.arguments[turn])
  /\ turn' = turn + 1
  /\ UNCHANGED <<vars, made, stage, outcome>>

\* A flaw of the argument may be a type whose connection was not opened, and
\* its pointer is wild.
FollowWild ==
  /\ InDelete /\ FlawsOf(result.arguments[turn]) > 0
  /\ outcome' = "undefined"
  /\ UNCHANGED <<vars, made, deleted, turn, stage>>

End ==
  /\ Running("deleting") /\ turn > Len(result.arguments)
  /\ outcome' = "returned"
  /\ UNCHANGED <<vars, made, deleted, turn, stage>>

ClientNext ==
  \/ Call \/ Answered
  \/ PrintArgument \/ FollowNull \/ PrintFirst
  \/ Destroy \/ FollowWild \/ End

ClientSpec == ClientInit /\ [][ClientNext]_allVars

\* A single thread that waits for nobody.
FairClientSpec == ClientSpec /\ WF_allVars(ClientNext)

-----------------------------------------------------------------------------
(* Properties                                                              *)

\* The shape of the variables of the call and of the program around it.
ClientTypeOK ==
  /\ TypeOK
  /\ made \in Nat /\ deleted \in 0 .. made
  /\ turn \in 1 .. Len(result.arguments) + 1
  /\ stage \in {"calling", "printing", "deleting"}
  /\ outcome \in {"running", "returned", "undefined"}

\* The program can be asked about the name: there are arguments, and each has
\* a base.
Printable ==
  /\ ArgumentsNamed(name) # {}
  /\ \A a \in ArgumentsNamed(name) : a.baseTypeName # NONE

\* What is in the database decides whether the program dies.  For a name that
\* is not Printable it always does, unless a query fails; for one that is, only
\* if one failed, and then it was all the arguments or a part of a tree that got
\* lost.
DatabaseDecides ==
  /\ outcome = "returned" => Printable \/ faults > 0
  /\ outcome = "undefined" /\ Printable =>
       \/ result.arguments = << >> /\ faults > 0
       \/ \E a \in ToSet(result.arguments) : FlawsOf(a) > 0

\* When the program ends in order every tree that any call of typeInformation
\* made, for bases and for fields, has been deleted; and before, no tree is
\* owned by more than one argument or by none.
NothingLeaks ==
  /\ outcome = "returned" => deleted = made
  /\ made = FoldLeft(LAMBDA n, a : n + TreesOf(a), 0, result.arguments)
            + (IF pc \in {"disclose", "select", "members"} THEN TreesOf(arg) ELSE 0)

=============================================================================
