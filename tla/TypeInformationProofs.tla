------------------------ MODULE TypeInformationProofs ------------------------
(***************************************************************************)
(* The connections, the pointers and the depth of typeInformation: what    *)
(* TLC checks of them over small databases holds over every database, for  *)
(* every depth of the C++ stack and however many queries fail.             *)
(*                                                                         *)
(* The invariants are not inductive.  What a step does to a frame that is  *)
(* not the innermost depends on where that frame waits, so the invariant   *)
(* Frames adds that only the innermost frame can be anywhere else than at  *)
(* its call of typeInformation, and that a frame which has not opened its  *)
(* connection holds the Arg as the compiler made it.  For the depth the    *)
(* frames are a depth-first search of the types: Links says that every     *)
(* frame is for the part that the frame below it waits for, so the stack is*)
(* a chain; Search says what the frames have ruled out so far.             *)
(*                                                                         *)
(* The tree that is returned, and its destruction, come after that.  Every *)
(* step of typeInformation is seen through a set of nodes, the subtrees    *)
(* that are finished: a node is an Arg with the interval of heap objects   *)
(* and the interval of unopened connections that lie between its call and  *)
(* its return.  Closed says that the nodes below a node are in the set and *)
(* how their intervals fill its own; Reads says which part of that each    *)
(* frame has got; Follows says how far distr has got in it.                *)
(***************************************************************************)
EXTENDS Result, SequenceTheorems, FiniteSetTheorems, TLAPS

-----------------------------------------------------------------------------
(* Sequences whose elements are of no particular set                       *)

IsSeq(s) == \E S : s \in Seq(S)

\* The fields of an Arg, and of a frame.
ArgFields == {"name", "order", "typeName", "kind", "baseTypeName", "baseType",
              "Fields", "defVal"}

FrameFields == {"pc", "name", "type", "next"}

\* A frame with an element changed, one more, or two replaced by one: what the
\* operators that build stack' do.
LEMMA LengthNatural ==
  ASSUME NEW s, IsSeq(s)
  PROVE  Len(s) \in Nat
BY DEF IsSeq

\* A call puts a frame on the stack and leaves the others.
LEMMA Pushed ==
  ASSUME NEW s, IsSeq(s), NEW f
  PROVE  LET t == Append(s, f)
         IN  /\ IsSeq(t) /\ Len(t) = Len(s) + 1 /\ t[Len(t)] = f
             /\ \A k \in 1 .. Len(s) : t[k] = s[k]
<1>1. PICK S : s \in Seq(S)  BY DEF IsSeq
<1>2. s \in Seq(S \cup {f})  BY <1>1
<1>3. Append(s, f) \in Seq(S \cup {f})  BY <1>2
<1>. QED  BY <1>2, <1>3 DEF IsSeq

\* A return takes off the frame of the callee and replaces the one below it.
LEMMA Resumed ==
  ASSUME NEW s, IsSeq(s), Len(s) > 1, NEW f
  PROVE  LET t == Append(SubSeq(s, 1, Len(s) - 2), f)
         IN  /\ IsSeq(t) /\ Len(t) = Len(s) - 1 /\ t[Len(t)] = f
             /\ \A k \in 1 .. Len(s) - 2 : t[k] = s[k]
<1>1. PICK S : s \in Seq(S)  BY DEF IsSeq
<1>2. \A k \in 1 .. Len(s) - 2 : s[k] \in S  BY <1>1
<1>3. Len(s) - 2 \in Int /\ Len(s) > 1  BY <1>1
<1> DEFINE u == SubSeq(s, 1, Len(s) - 2)
<1>4. /\ u \in Seq(S) /\ Len(u) = Len(s) - 2
      /\ \A k \in 1 .. Len(s) - 2 : u[k] = s[k]
  <2> DEFINE n == Len(s) - 2
  <2>1. n \in Int /\ n >= 0 /\ \A k \in 1 .. n : s[k] \in S  BY <1>2, <1>3
  <2>. HIDE DEF n
  <2>2. /\ SubSeq(s, 1, n) \in Seq(S)
        /\ Len(SubSeq(s, 1, n)) = IF 1 <= n THEN n - 1 + 1 ELSE 0
        /\ \A k \in 1 .. n - 1 + 1 : SubSeq(s, 1, n)[k] = s[1 + k - 1]
    BY <2>1, SubSeqProperties
  <2>3. /\ SubSeq(s, 1, n) \in Seq(S) /\ Len(SubSeq(s, 1, n)) = n
        /\ \A k \in 1 .. n : SubSeq(s, 1, n)[k] = s[k]
    BY <2>1, <2>2
  <2>. QED  BY <2>3 DEF n
<1>5. IsSeq(u)  BY <1>4 DEF IsSeq
<1>. HIDE DEF u
<1>6. /\ IsSeq(Append(u, f)) /\ Len(Append(u, f)) = Len(u) + 1
      /\ Append(u, f)[Len(Append(u, f))] = f
      /\ \A k \in 1 .. Len(u) : Append(u, f)[k] = u[k]
  BY <1>5, Pushed
<1>7. /\ IsSeq(Append(u, f)) /\ Len(Append(u, f)) = Len(s) - 1
      /\ Append(u, f)[Len(Append(u, f))] = f
      /\ \A k \in 1 .. Len(s) - 2 : Append(u, f)[k] = s[k]
  BY <1>1, <1>3, <1>4, <1>6
<1>. QED  BY <1>7 DEF u

-----------------------------------------------------------------------------
(* The inductive invariant                                                 *)

Places == {"open", "row", "base", "members", "fields", "values", "close"}

\* What can be returned, or is behind a pointer.
IsArg(arg) == arg.baseType = WILD => arg.typeName = NONE

IsFrame(f) ==
  /\ DOMAIN f = FrameFields /\ DOMAIN f.type = ArgFields
  /\ f.pc \in Places
  /\ f.pc = "open" => f.type = FreshArg
  /\ f.type.baseType = WILD => f.pc \in {"open", "row", "base"}

Sequences ==
  /\ IsSeq(stack) /\ IsSeq(heap)
  /\ outcome \in {"running", "returned", "overflow"}
  /\ outcome # "returned" => Len(stack) > 0

Frames ==
  /\ \A k \in 1 .. Len(stack) : IsFrame(stack[k])
  /\ \A k \in 1 .. Len(stack) - 1 : stack[k].pc \in {"base", "fields"}

Objects == \A a \in 1 .. Len(heap) : IsArg(heap[a])

IInv == Sequences /\ Frames /\ Objects /\ ConnectionsOfFrames

\* A call of typeInformation begins before its sqlite3_open.
LEMMA FreshFrame ==
  ASSUME NEW n
  PROVE  IsFrame(Frame(n)) /\ Frame(n).pc = "open" /\ IsArg(FreshArg)
BY DEF IsFrame, Frame, FreshArg, FrameFields, ArgFields, Places, IsArg

\* The first call, over an empty heap, satisfies the invariant.
LEMMA InitIInv == Init => IInv
<1>. SUFFICES ASSUME Init PROVE IInv  OBVIOUS
<1>1. IsSeq(stack) /\ IsSeq(heap) /\ Len(stack) = 1 /\ Len(heap) = 0
      /\ stack[1] = Frame(root)
  <2>1. stack \in Seq({Frame(root)}) /\ heap \in Seq({})  BY DEF Init
  <2>. QED  BY <2>1 DEF Init, IsSeq
<1>2. IsFrame(stack[1]) /\ stack[1].pc = "open"  BY <1>1, FreshFrame
<1>. QED
  BY <1>1, <1>2 DEF Init, IInv, Sequences, Frames, Objects, ConnectionsOfFrames, Top

-----------------------------------------------------------------------------
(* The three things a step does to the stack                               *)

\* The innermost frame goes on.
LEMMA TopGoesOn ==
  ASSUME IInv, outcome = "running", NEW f, SetTop(f), IsFrame(f), f.pc # "open",
         handles' = Len(stack), UNCHANGED <<heap, outcome>>
  PROVE  IInv'
<1>1. IsSeq(stack) /\ Len(stack) > 0 /\ Len(stack) \in Nat
  BY LengthNatural DEF IInv, Sequences
<1>2. /\ IsSeq(stack') /\ Len(stack') = Len(stack) /\ stack'[Len(stack)] = f
      /\ \A k \in 1 .. Len(stack) - 1 : stack'[k] = stack[k]
  <2>1. stack' = [stack EXCEPT ![Len(stack)] = f]  BY DEF SetTop
  <2>2. PICK S : stack \in Seq(S)  BY <1>1 DEF IsSeq
  <2>3. stack \in Seq(S \cup {f})  BY <2>2
  <2>4. stack' \in Seq(S \cup {f})  BY <1>1, <2>1, <2>3, ExceptSeq
  <2>. QED  BY <1>1, <2>1, <2>3, <2>4 DEF IsSeq
<1>3. Sequences'  BY <1>1, <1>2 DEF IInv, Sequences
<1>4. Frames'  BY <1>1, <1>2 DEF IInv, Frames
<1>5. Objects'  BY DEF IInv, Objects
<1>6. ConnectionsOfFrames'  BY <1>1, <1>2 DEF ConnectionsOfFrames, Top
<1>. QED  BY <1>3, <1>4, <1>5, <1>6 DEF IInv

\* It calls typeInformation, or the stack has no room.
LEMMA TopCalls ==
  ASSUME IInv, outcome = "running", NEW n, Call(n), Top.pc \in {"base", "fields"},
         UNCHANGED <<heap, handles>>
  PROVE  IInv'
<1>1. IsSeq(stack) /\ Len(stack) > 0 /\ Len(stack) \in Nat
  BY LengthNatural DEF IInv, Sequences
<1>2. handles = Len(stack)  BY DEF IInv, ConnectionsOfFrames
<1>3. Objects'  BY DEF IInv, Objects
<1>4. CASE Len(stack) < MaxDepth
  <2>1. stack' = Append(stack, Frame(n)) /\ outcome' = outcome
    BY <1>4 DEF Call
  <2>2. /\ IsSeq(stack') /\ Len(stack') = Len(stack) + 1
        /\ stack'[Len(stack')] = Frame(n)
        /\ \A k \in 1 .. Len(stack) : stack'[k] = stack[k]
    BY <2>1, <1>1, Pushed
  <2>3. IsFrame(Frame(n)) /\ Frame(n).pc = "open"  BY FreshFrame
  <2>4. Sequences'  BY <1>1, <2>1, <2>2 DEF IInv, Sequences
  <2>5. Frames'
    <3>1. \A k \in 1 .. Len(stack') : IsFrame(stack'[k])
      BY <1>1, <2>2, <2>3 DEF IInv, Frames
    <3>2. \A k \in 1 .. Len(stack') - 1 : stack'[k].pc \in {"base", "fields"}
      BY <1>1, <2>2 DEF IInv, Frames, Top
    <3>. QED  BY <3>1, <3>2 DEF Frames
  <2>6. ConnectionsOfFrames'
    BY <1>1, <1>2, <2>1, <2>2, <2>3 DEF ConnectionsOfFrames, Top
  <2>. QED  BY <1>3, <2>4, <2>5, <2>6 DEF IInv
<1>5. CASE ~(Len(stack) < MaxDepth)
  <2>1. stack' = stack /\ outcome' = "overflow"  BY <1>5 DEF Call
  <2>2. Sequences' /\ Frames'  BY <2>1, <1>1 DEF IInv, Sequences, Frames
  <2>3. ConnectionsOfFrames'
    BY <2>1, <1>1 DEF IInv, ConnectionsOfFrames, Top
  <2>. QED  BY <1>3, <2>2, <2>3 DEF IInv
<1>. QED  BY <1>4, <1>5

\* It returns arg to the frame below it, or to whoever made the call.
LEMMA TopReturns ==
  ASSUME IInv, outcome = "running", NEW arg, Return(arg), IsArg(arg),
         handles' = Len(stack) - 1
  PROVE  IInv'
<1>1. /\ IsSeq(stack) /\ Len(stack) > 0 /\ Len(stack) \in Nat
      /\ IsSeq(heap) /\ Len(heap) \in Nat
  BY LengthNatural DEF IInv, Sequences
<1>2. CASE ReturnResult(arg)
  <2>1. stack' = << >> /\ outcome' = "returned" /\ heap' = heap /\ Len(stack) = 1
    BY <1>2 DEF ReturnResult
  <2>2. IsSeq(stack') /\ Len(stack') = 0
    <3>1. stack' \in Seq({})  BY <2>1
    <3>. QED  BY <3>1, <2>1 DEF IsSeq
  <2>3. Sequences' /\ Frames' /\ Objects'
    BY <2>1, <2>2, <1>1 DEF IInv, Sequences, Frames, Objects
  <2>4. ConnectionsOfFrames'  BY <2>1, <1>1 DEF ConnectionsOfFrames
  <2>. QED  BY <2>3, <2>4 DEF IInv
\* The frame below, continued as f, at one of two places past "open".
<1>3. ASSUME NEW f, Len(stack) > 1, Resume(f), IsFrame(f), f.pc # "open",
             outcome' = outcome
      PROVE  IsSeq(stack') /\ outcome' # "returned" /\ Len(stack') > 0
             /\ Frames' /\ ConnectionsOfFrames'
  <2>1. /\ IsSeq(stack') /\ Len(stack') = Len(stack) - 1
        /\ stack'[Len(stack')] = f
        /\ \A k \in 1 .. Len(stack) - 2 : stack'[k] = stack[k]
    BY <1>3, <1>1, Resumed DEF Resume
  <2>2. Frames'
    <3>1. \A k \in 1 .. Len(stack') : IsFrame(stack'[k])
      BY <1>1, <1>3, <2>1 DEF IInv, Frames
    <3>2. \A k \in 1 .. Len(stack') - 1 : stack'[k].pc \in {"base", "fields"}
      BY <1>1, <1>3, <2>1 DEF IInv, Frames
    <3>. QED  BY <3>1, <3>2 DEF Frames
  <2>3. ConnectionsOfFrames'
    BY <1>1, <1>3, <2>1 DEF ConnectionsOfFrames, Top
  <2>. QED  BY <1>1, <1>3, <2>1, <2>2, <2>3
<1>4. CASE ReturnBase(arg)
  <2> DEFINE f == [Caller EXCEPT !.pc = "members", !.type.baseType = Len(heap')]
  <2>1. /\ Len(stack) > 1 /\ heap' = Append(heap, arg) /\ Resume(f)
        /\ outcome' = outcome
    BY <1>4 DEF ReturnBase
  <2>2. /\ IsSeq(heap') /\ Len(heap') = Len(heap) + 1 /\ heap'[Len(heap')] = arg
        /\ \A a \in 1 .. Len(heap) : heap'[a] = heap[a]
    BY <2>1, <1>1, Pushed
  <2>3. Objects'  BY <1>1, <2>2 DEF IInv, Objects
  <2>4. IsFrame(Caller)  BY <1>1, <2>1 DEF IInv, Frames, Caller
  <2>5. Len(heap') # WILD  BY <1>1, <2>2, PointersAssumption
  <2>6. IsFrame(f) /\ f.pc # "open"
    BY <2>4, <2>5 DEF IsFrame, FrameFields, ArgFields, Places
  <2>. HIDE DEF f
  <2>. QED  BY <1>3, <2>1, <2>2, <2>3, <2>6 DEF IInv, Sequences
<1>5. CASE ReturnField(arg)
  <2>1. PICK next, fields :
          /\ Len(stack) > 1 /\ Caller.pc = "fields" /\ heap' = heap
          /\ Resume([Caller EXCEPT !.next = next, !.type.Fields = fields])
          /\ outcome' = outcome
    BY <1>5 DEF ReturnField
  <2> DEFINE f == [Caller EXCEPT !.next = next, !.type.Fields = fields]
  <2>2. IsFrame(Caller)  BY <1>1, <2>1 DEF IInv, Frames, Caller
  <2>3. IsFrame(f) /\ f.pc # "open"
    BY <2>1, <2>2 DEF IsFrame, FrameFields, ArgFields, Places
  <2>4. Objects'  BY <2>1 DEF IInv, Objects
  <2>5. Resume(f)  BY <2>1
  <2>. HIDE DEF f
  <2>. QED  BY <1>3, <1>1, <2>1, <2>3, <2>4, <2>5 DEF IInv, Sequences
<1>. QED  BY <1>2, <1>4, <1>5 DEF Return

-----------------------------------------------------------------------------
(* The actions                                                             *)

\* While the call runs there is a frame on top, and its place in the code says
\* how many connections are open.
LEMMA TopFrame ==
  ASSUME IInv, outcome = "running"
  PROVE  /\ IsFrame(Top) /\ Len(stack) > 0 /\ Len(stack) \in Nat
         /\ handles = Len(stack) - (IF Top.pc = "open" THEN 1 ELSE 0)
BY LengthNatural DEF IInv, Sequences, Frames, ConnectionsOfFrames, Top

\* Every step of every level keeps the invariant.
LEMMA NextIInv == IInv /\ [Next]_vars => IInv'
<1>. SUFFICES ASSUME IInv, [Next]_vars PROVE IInv'  OBVIOUS
<1>1. CASE Open
  <2>1. outcome = "running" /\ Top.pc = "open"  BY <1>1 DEF Open, At
  <2>2. IsFrame(Top) /\ Len(stack) \in Nat /\ handles = Len(stack) - 1
    BY <2>1, TopFrame
  <2> DEFINE f == [Top EXCEPT !.pc = "row", !.type.typeName = Top.name]
  <2>3. IsFrame(f) /\ f.pc # "open"
    BY <2>1, <2>2 DEF IsFrame, FrameFields, ArgFields, Places
  <2>4. SetTop(f) /\ handles' = Len(stack) /\ heap' = heap /\ outcome' = outcome
    BY <1>1, <2>2 DEF Open
  <2>. HIDE DEF f
  <2>. QED  BY <2>1, <2>3, <2>4, TopGoesOn
<1>2. CASE OpenFails
  <2>1. outcome = "running" /\ Top.pc = "open" /\ Return(Top.type)
        /\ handles' = handles
    BY <1>2 DEF OpenFails, At
  <2>2. IsFrame(Top) /\ handles = Len(stack) - 1  BY <2>1, TopFrame
  <2>3. IsArg(Top.type)  BY <2>1, <2>2, FreshFrame DEF IsFrame
  <2>. QED  BY <2>1, <2>2, <2>3, TopReturns
<1>3. CASE CallBase \/ CallField
  <2>1. PICK n : Call(n)  BY <1>3 DEF CallBase, CallField
  <2>2. /\ outcome = "running" /\ Top.pc \in {"base", "fields"}
        /\ heap' = heap /\ handles' = handles
    BY <1>3 DEF CallBase, CallField, At
  <2>. QED  BY <2>1, <2>2, TopCalls
<1>4. CASE Close
  <2>1. outcome = "running" /\ Top.pc = "close" /\ Return(Top.type)
        /\ handles' = handles - 1
    BY <1>4 DEF Close, At
  <2>2. IsFrame(Top) /\ Len(stack) \in Nat /\ handles = Len(stack)
    BY <2>1, TopFrame
  <2>3. IsArg(Top.type)  BY <2>1, <2>2 DEF IsFrame, IsArg
  <2>. QED  BY <2>1, <2>2, <2>3, TopReturns
\* In the other actions the frame goes on with the connection it has.
<1>5. ASSUME NEW f, SetTop(f), IsFrame(f), f.pc # "open",
             outcome = "running", Top.pc # "open",
             UNCHANGED <<heap, handles, outcome>>
      PROVE  IInv'
  BY <1>5, TopFrame, TopGoesOn
<1>6. ASSUME outcome = "running"
      PROVE  IsFrame(Top)
  BY <1>6, TopFrame
<1>7. CASE SelectType
  <2> DEFINE f == IF Top.name \in DOMAIN db.types
                  THEN [Top EXCEPT !.pc = "base",
                                   !.type.kind = db.types[Top.name].kind,
                                   !.type.baseTypeName = db.types[Top.name].base]
                  ELSE [Top EXCEPT !.pc = "base"]
  <2>1. /\ outcome = "running" /\ Top.pc = "row" /\ SetTop(f)
        /\ UNCHANGED <<heap, handles, outcome>>
    BY <1>7 DEF SelectType, At
  <2>2. IsFrame(f) /\ f.pc # "open"
    BY <1>6, <2>1 DEF IsFrame, FrameFields, ArgFields, Places
  <2>. HIDE DEF f
  <2>. QED  BY <1>5, <2>1, <2>2
<1>8. CASE SelectTypeFails
  <2> DEFINE f == [Top EXCEPT !.pc = "base"]
  <2>1. /\ outcome = "running" /\ Top.pc = "row" /\ SetTop(f)
        /\ UNCHANGED <<heap, handles, outcome>>
    BY <1>8 DEF SelectTypeFails, At
  <2>2. IsFrame(f) /\ f.pc # "open"
    BY <1>6, <2>1 DEF IsFrame, FrameFields, ArgFields, Places
  <2>. HIDE DEF f
  <2>. QED  BY <1>5, <2>1, <2>2
<1>9. CASE NoBase
  <2> DEFINE f == [Top EXCEPT !.pc = "members", !.type.baseType = NULL]
  <2>1. /\ outcome = "running" /\ Top.pc = "base" /\ SetTop(f)
        /\ UNCHANGED <<heap, handles, outcome>>
    BY <1>9 DEF NoBase, At
  <2>2. IsFrame(f) /\ f.pc # "open"
    BY <1>6, <2>1, PointersAssumption DEF IsFrame, FrameFields, ArgFields, Places
  <2>. HIDE DEF f
  <2>. QED  BY <1>5, <2>1, <2>2
<1>10. CASE SelectMembers \/ FieldsEnd \/ FieldsFail
  <2>1. PICK pc \in {"fields", "values", "close"} :
          /\ outcome = "running" /\ Top.pc \in {"members", "fields"}
          /\ SetTop([Top EXCEPT !.pc = pc])
          /\ UNCHANGED <<heap, handles, outcome>>
    BY <1>10 DEF SelectMembers, FieldsEnd, FieldsFail, At
  <2> DEFINE f == [Top EXCEPT !.pc = pc]
  <2>2. IsFrame(f) /\ f.pc # "open"
    BY <1>6, <2>1 DEF IsFrame, FrameFields, ArgFields, Places
  <2>3. SetTop(f)  BY <2>1
  <2>. HIDE DEF f
  <2>. QED  BY <1>5, <2>1, <2>2, <2>3
<1>11. CASE SelectValues
  <2>1. PICK values :
          /\ outcome = "running" /\ Top.pc = "values"
          /\ SetTop([Top EXCEPT !.pc = "close", !.type.defVal = values])
          /\ UNCHANGED <<heap, handles, outcome>>
    BY <1>11 DEF SelectValues, At
  <2> DEFINE f == [Top EXCEPT !.pc = "close", !.type.defVal = values]
  <2>2. IsFrame(f) /\ f.pc # "open"
    BY <1>6, <2>1 DEF IsFrame, FrameFields, ArgFields, Places
  <2>3. SetTop(f)  BY <2>1
  <2>. HIDE DEF f
  <2>. QED  BY <1>5, <2>1, <2>2, <2>3
<1>12. CASE UNCHANGED vars
  BY <1>12 DEF vars, IInv, Sequences, Frames, Objects, ConnectionsOfFrames, Top
<1>. QED
  BY <1>1, <1>2, <1>3, <1>4, <1>7, <1>8, <1>9, <1>10, <1>11, <1>12 DEF Next

-----------------------------------------------------------------------------
(* The theorems                                                            *)

\* The invariant holds throughout.
LEMMA Invariant == Spec => []IInv
<1>1. Init => IInv  BY InitIInv
<1>2. IInv /\ [Next]_vars => IInv'  BY NextIInv
<1>. QED  BY <1>1, <1>2, PTL DEF Spec

\* No path through typeInformation, an error path or not, leaves with the
\* connection that it opened.
THEOREM ConnectionsOfFramesHold == Spec => []ConnectionsOfFrames
<1>1. IInv => ConnectionsOfFrames  BY DEF IInv
<1>. QED  BY <1>1, Invariant, PTL

\* A pointer nobody set gets out of typeInformation only in an Arg whose
\* connection could not be opened.
THEOREM WildOnlyUnopenedHolds == Spec => []WildOnlyUnopened
<1>1. IInv => WildOnlyUnopened
  <2>. SUFFICES ASSUME IInv PROVE WildOnlyUnopened  OBVIOUS
  <2>1. DOMAIN stack = 1 .. Len(stack) /\ DOMAIN heap = 1 .. Len(heap)
    BY DEF IInv, Sequences, IsSeq
  <2>. QED  BY <2>1 DEF IInv, Frames, Objects, IsFrame, IsArg, WildOnlyUnopened
<1>. QED  BY <1>1, Invariant, PTL

-----------------------------------------------------------------------------
(* The queries, of a database that is a parameter                          *)

F == INSTANCE Folding WITH
       Op <- LAMBDA wanted, found, r : IF r \in wanted THEN Append(found, r) ELSE found

\* Only rows that are wanted are selected.
LEMMA SelectedRows ==
  ASSUME NEW S, NEW rows \in Seq(S), NEW wanted
  PROVE  Select(rows, wanted) \in Seq(S \cap wanted)
<1> DEFINE T == Seq(S \cap wanted)
           I == [k \in 0 .. Len(rows) |-> T]
<1>1. F!IsSequence(rows) /\ Len(rows) \in Nat  BY DEF F!IsSequence
<1>2. << >> \in I[0]  BY <1>1
<1>3. ASSUME NEW k \in 1 .. Len(rows), NEW x \in I[k - 1]
      PROVE  (IF rows[k] \in wanted THEN Append(x, rows[k]) ELSE x) \in I[k]
  <2>1. k - 1 \in 0 .. Len(rows) /\ k \in 0 .. Len(rows)  BY <1>1
  <2>2. x \in T /\ I[k] = T  BY <2>1
  <2>3. CASE rows[k] \in wanted
    <3>1. rows[k] \in S \cap wanted  BY <2>3
    <3>2. Append(x, rows[k]) \in T  BY <2>2, <3>1
    <3>. QED  BY <2>2, <2>3, <3>2
  <2>4. CASE rows[k] \notin wanted  BY <2>2, <2>4
  <2>. QED  BY <2>3, <2>4
<1>4. F!Fold(wanted, << >>, rows) \in I[Len(rows)]
  <2>. HIDE DEF I
  <2>. QED  BY <1>1, <1>2, <1>3, F!FoldInduction
<1>5. I[Len(rows)] = T  BY <1>1
<1>6. Select(rows, wanted) = F!Fold(wanted, << >>, rows)
  BY DEF Select, F!Fold, F!FoldLeft, FoldLeft, F!MapThenFoldSet, MapThenFoldSet,
         F!Max, Max
<1>. QED  BY <1>4, <1>5, <1>6

FieldsIn(d, n) ==
  Select(d.fields, {r \in ToSet(d.fields) :
                      r.struct = n /\ {n, r.type} \subseteq DOMAIN d.types})

PartsIn(d, n) ==
  IF n \notin DOMAIN d.types THEN {}
  ELSE ({d.types[n].base} \ {NONE})
       \cup (IF d.types[n].kind \in {"Struct", "Union"}
             THEN {FieldsIn(d, n)[k].type : k \in DOMAIN FieldsIn(d, n)} ELSE {})

ChainIn(d, n, length) ==
  \E c \in [1 .. length -> TypeNames] :
    c[1] = n /\ \A k \in 1 .. length - 1 : c[k + 1] \in PartsIn(d, c[k])

LEMMA InTheDatabase ==
  ASSUME NEW n, NEW length
  PROVE  /\ FieldsOf(n) = FieldsIn(db, n) /\ Parts(n) = PartsIn(db, n)
         /\ HasChain(n, length) <=> ChainIn(db, n, length)
<1>1. \A m : FieldsOf(m) = FieldsIn(db, m)  BY DEF FieldsOf, FieldsIn
<1>2. \A m : Parts(m) = PartsIn(db, m)  BY <1>1 DEF Parts, PartsIn
<1>. QED  BY <1>1, <1>2 DEF HasChain, ChainIn

\* Fields have types that the database may hold.
LEMMA TypesOfFields ==
  ASSUME NEW d, IsDatabase(d), NEW n
  PROVE  /\ Len(FieldsIn(d, n)) \in Nat
         /\ DOMAIN FieldsIn(d, n) = 1 .. Len(FieldsIn(d, n))
         /\ \A k \in 1 .. Len(FieldsIn(d, n)) : FieldsIn(d, n)[k].type \in TypeNames
<1> DEFINE wanted == {r \in ToSet(d.fields) :
                        r.struct = n /\ {n, r.type} \subseteq DOMAIN d.types}
<1>1. Select(d.fields, wanted) \in Seq(FieldRow \cap wanted)
  <2>. HIDE DEF wanted
  <2>. QED  BY SelectedRows DEF IsDatabase
<1>2. FieldsIn(d, n) = Select(d.fields, wanted)  BY DEF FieldsIn
<1>. HIDE DEF wanted
<1>3. FieldsIn(d, n) \in Seq(FieldRow)
  <2>1. FieldRow \cap wanted \subseteq FieldRow  OBVIOUS
  <2>. QED  BY <1>1, <1>2, <2>1
<1>4. \A r \in FieldRow : r.type \in TypeNames  BY DEF FieldRow
<1>. QED  BY <1>3, <1>4

\* The parts of a type none of which begins a chain of some length leave it
\* without one of a type more.
LEMMA ChainContinues ==
  ASSUME NEW d, NEW n, NEW r \in Nat \ {0}, ChainIn(d, n, r + 1)
  PROVE  \E p \in PartsIn(d, n) : ChainIn(d, p, r)
<1>1. PICK c \in [1 .. r + 1 -> TypeNames] :
        c[1] = n /\ \A k \in 1 .. (r + 1) - 1 : c[k + 1] \in PartsIn(d, c[k])
  BY DEF ChainIn
<1> DEFINE e == [k \in 1 .. r |-> c[k + 1]]
<1>2. e \in [1 .. r -> TypeNames]  OBVIOUS
<1>3. e[1] = c[2] /\ c[2] \in PartsIn(d, n)
  <2>1. 1 \in 1 .. (r + 1) - 1 /\ 1 + 1 = 2 /\ 1 \in 1 .. r  OBVIOUS
  <2>. QED  BY <1>1, <2>1
<1>4. ASSUME NEW k \in 1 .. r - 1 PROVE e[k + 1] \in PartsIn(d, e[k])
  <2>1. k + 1 \in 1 .. (r + 1) - 1 /\ k \in 1 .. r /\ k + 1 \in 1 .. r  OBVIOUS
  <2>. QED  BY <1>1, <2>1
<1>. QED  BY <1>2, <1>3, <1>4 DEF ChainIn

-----------------------------------------------------------------------------
(* What the frames know of the database                                    *)

\* The row of Types that a frame has read, if it has.
Row(d, f) == IF f.name \in DOMAIN d.types THEN d.types[f.name]
             ELSE [kind |-> NONE, base |-> NONE]

HasRead(d, f) ==
  f.type.kind = Row(d, f).kind /\ f.type.baseTypeName = Row(d, f).base

Knows(d, f, size) ==
  /\ f.name \in TypeNames /\ f.next \in Nat \ {0}
  /\ f.type.kind \in Texts \cup {NONE}
  /\ f.type.baseTypeName \in TypeNames \cup {NONE}
  /\ f.type.baseType \in 1 .. size \cup {NULL, WILD}
  /\ \/ HasRead(d, f)
     \/ f.type.kind = NONE /\ f.type.baseTypeName = NONE
  /\ f.pc = "fields" => f.type.kind \in {"Struct", "Union"}
  /\ f.pc = "values" => f.type.kind = "Alias"
  /\ f.pc \in {"open", "row", "base", "members"} => f.next = 1

\* The call a frame is at, and the type it is for.
Waits(d, f) ==
  \/ f.pc = "base" /\ f.type.baseTypeName # NONE
  \/ f.pc = "fields" /\ f.next <= Len(FieldsIn(d, f.name))

Wanted(d, f) == IF f.pc = "base" THEN f.type.baseTypeName
                ELSE FieldsIn(d, f.name)[f.next].type

\* What a frame whose queries have not failed has found: the types that it has
\* had read begin no chain for which the stack below it has no room.
Explored(d, f, room) ==
  /\ f.pc \notin {"open", "row"} => HasRead(d, f)
  /\ /\ f.pc \in {"members", "fields", "values", "close"}
     /\ f.type.baseTypeName # NONE
     => ~ChainIn(d, f.type.baseTypeName, room)
  /\ f.pc = "fields" =>
       \A j \in 1 .. Len(FieldsIn(d, f.name)) :
         j < f.next => ~ChainIn(d, FieldsIn(d, f.name)[j].type, room)
  /\ f.pc = "close" => \A p \in PartsIn(d, f.name) : ~ChainIn(d, p, room)

Numbers ==
  /\ db \in Databases /\ root \in TypeNames
  /\ faults \in 0 .. MaxFaults /\ unclosed \in Nat
  /\ Len(stack) <= MaxDepth

Knowledge == \A k \in 1 .. Len(stack) : Knows(db, stack[k], Len(heap))

Links ==
  /\ Len(stack) > 0 => stack[1].name = root
  /\ \A k \in 1 .. Len(stack) - 1 :
       Waits(db, stack[k]) /\ stack[k + 1].name = Wanted(db, stack[k])

Search ==
  faults = 0 =>
    \A k \in 1 .. Len(stack) : Explored(db, stack[k], MaxDepth + 1 - k)

Decided ==
  /\ outcome = "overflow" => ChainIn(db, root, MaxDepth + 1)
  /\ outcome = "returned" /\ faults = 0 => ~ChainIn(db, root, MaxDepth + 1)

DepthInv == Numbers /\ Knowledge /\ Links /\ Search /\ Decided

\* A frame calls typeInformation for a part of its type.
LEMMA WantedIsPart ==
  ASSUME NEW d \in Databases, NEW f, NEW size, Knows(d, f, size), Waits(d, f)
  PROVE  Wanted(d, f) \in PartsIn(d, f.name) /\ Wanted(d, f) \in TypeNames
<1>0. IsDatabase(d)  BY DatabasesAssumption
<1>1. HasRead(d, f) /\ f.name \in DOMAIN d.types
  <2>1. f.type.kind # NONE \/ f.type.baseTypeName # NONE
    BY NoneAssumption DEF Knows, Waits
  <2>. QED  BY <2>1 DEF Knows, HasRead, Row
<1>2. CASE f.pc = "base"
  BY <1>1, <1>2 DEF Waits, Wanted, PartsIn, HasRead, Row, Knows
<1>3. CASE f.pc = "fields"
  <2>1. f.next \in 1 .. Len(FieldsIn(d, f.name))
    BY <1>0, <1>3, TypesOfFields DEF Waits, Knows
  <2>2. f.next \in DOMAIN FieldsIn(d, f.name)  BY <1>0, <2>1, TypesOfFields
  <2>3. FieldsIn(d, f.name)[f.next].type \in TypeNames
    BY <1>0, <2>1, TypesOfFields
  <2>4. d.types[f.name].kind \in {"Struct", "Union"}
    BY <1>1, <1>3 DEF HasRead, Row, Knows
  <2>. QED  BY <1>1, <1>3, <2>2, <2>3, <2>4 DEF Wanted, PartsIn
<1>. QED  BY <1>2, <1>3 DEF Waits

-----------------------------------------------------------------------------
(* The three things a step does, and what the frames know                  *)

LEMMA Sizes ==
  ASSUME IInv, DepthInv, outcome = "running"
  PROVE  /\ Len(stack) \in 1 .. MaxDepth /\ MaxDepth \in Nat
         /\ Len(heap) \in Nat /\ Top = stack[Len(stack)]
         /\ Knows(db, Top, Len(heap)) /\ IsFrame(Top)
         /\ db \in Databases /\ IsDatabase(db)
<1>1. Len(stack) \in Nat /\ Len(heap) \in Nat /\ Len(stack) > 0
  BY LengthNatural DEF IInv, Sequences
<1>2. Len(stack) \in 1 .. MaxDepth /\ MaxDepth \in Nat
  BY <1>1, BoundsAssumption DEF DepthInv, Numbers
<1>3. db \in Databases /\ IsDatabase(db)
  BY DatabasesAssumption DEF DepthInv, Numbers
<1>4. Len(stack) \in 1 .. Len(stack)  BY <1>1
<1>. QED
  BY <1>1, <1>2, <1>3, <1>4 DEF Top, DepthInv, Knowledge, IInv, Frames

\* The innermost frame goes on.
LEMMA TopLearns ==
  ASSUME IInv, DepthInv, outcome = "running", NEW f, SetTop(f),
         Knows(db, f, Len(heap)), f.name = Top.name, faults' \in 0 .. MaxFaults,
         faults' = 0 => faults = 0 /\ Explored(db, f, MaxDepth + 1 - Len(stack)),
         UNCHANGED <<db, root, heap, unclosed, outcome>>
  PROVE  DepthInv'
<1>1. /\ Len(stack) \in 1 .. MaxDepth /\ MaxDepth \in Nat
      /\ Top = stack[Len(stack)] /\ IsSeq(stack)
  BY Sizes DEF IInv, Sequences
<1>2. /\ Len(stack') = Len(stack) /\ stack'[Len(stack)] = f
      /\ \A k \in 1 .. Len(stack) - 1 : stack'[k] = stack[k]
  <2>1. stack' = [stack EXCEPT ![Len(stack)] = f]  BY DEF SetTop
  <2>2. PICK S : stack \in Seq(S)  BY <1>1 DEF IsSeq
  <2>3. stack \in Seq(S \cup {f})  BY <2>2
  <2>4. stack' \in Seq(S \cup {f})  BY <1>1, <2>1, <2>3, ExceptSeq
  <2>. QED  BY <1>1, <2>1, <2>3, <2>4
<1>3. \A k \in 1 .. Len(stack) : k \in 1 .. Len(stack) - 1 \/ k = Len(stack)
  BY <1>1
<1>4. Numbers'  BY <1>1, <1>2 DEF DepthInv, Numbers
<1>5. Knowledge'  BY <1>1, <1>2, <1>3 DEF DepthInv, Knowledge
<1>6. Links'
  <2>1. \A k \in 1 .. Len(stack) : stack'[k].name = stack[k].name
    BY <1>1, <1>2, <1>3
  <2>2. stack'[1].name = root  BY <1>1, <2>1 DEF DepthInv, Links
  <2>3. ASSUME NEW k \in 1 .. Len(stack) - 1
        PROVE  Waits(db, stack'[k]) /\ stack'[k + 1].name = Wanted(db, stack'[k])
    <3>1. k \in 1 .. Len(stack) /\ k + 1 \in 1 .. Len(stack)  BY <1>1
    <3>. QED  BY <1>2, <2>1, <3>1 DEF DepthInv, Links
  <2>. QED  BY <1>2, <2>2, <2>3 DEF Links
<1>7. Search'  BY <1>1, <1>2, <1>3 DEF DepthInv, Search
<1>8. Decided'  BY DEF Decided
<1>. QED  BY <1>4, <1>5, <1>6, <1>7, <1>8 DEF DepthInv

\* It calls typeInformation for a part of its type; where the stack has no
\* room, the types of the frames are a chain.
LEMMA TopAsks ==
  ASSUME IInv, DepthInv, outcome = "running", Waits(db, Top),
         Call(Wanted(db, Top)), UNCHANGED <<db, root, heap, unclosed, faults>>
  PROVE  DepthInv'
<1> DEFINE n == Wanted(db, Top)
<1>1. /\ Len(stack) \in 1 .. MaxDepth /\ MaxDepth \in Nat
      /\ Top = stack[Len(stack)] /\ IsSeq(stack) /\ Len(heap) \in Nat
  BY Sizes DEF IInv, Sequences
<1>2. n \in PartsIn(db, Top.name) /\ n \in TypeNames
  BY Sizes, WantedIsPart
<1>3. CASE Len(stack) < MaxDepth
  <2>1. stack' = Append(stack, Frame(n)) /\ outcome' = outcome
    BY <1>3 DEF Call
  <2>. HIDE DEF n
  <2>2. /\ Len(stack') = Len(stack) + 1 /\ stack'[Len(stack) + 1] = Frame(n)
        /\ \A k \in 1 .. Len(stack) : stack'[k] = stack[k]
    BY <1>1, <2>1, Pushed
  <2>3. \A k \in 1 .. Len(stack) + 1 : k \in 1 .. Len(stack) \/ k = Len(stack) + 1
    BY <1>1
  <2>4. Knows(db, Frame(n), Len(heap)) /\ Frame(n).name = n
    BY <1>2, PointersAssumption DEF Knows, Frame, FreshArg
  <2>5. \A room : Explored(db, Frame(n), room)
    BY DEF Explored, Frame
  <2>6. Numbers'  BY <1>1, <1>3, <2>2 DEF DepthInv, Numbers
  <2>7. Knowledge'  BY <2>2, <2>3, <2>4 DEF DepthInv, Knowledge
  <2>8. Links'
    <3>1. stack'[1].name = root  BY <1>1, <2>2 DEF DepthInv, Links
    <3>2. ASSUME NEW k \in 1 .. Len(stack)
          PROVE  Waits(db, stack'[k]) /\ stack'[k + 1].name = Wanted(db, stack'[k])
      <4>1. CASE k = Len(stack)
        BY <1>1, <2>2, <2>4, <4>1 DEF n
      <4>2. CASE k # Len(stack)
        <5>1. k \in 1 .. Len(stack) - 1 /\ k + 1 \in 1 .. Len(stack)
          BY <1>1, <4>2
        <5>. QED  BY <2>2, <5>1 DEF DepthInv, Links
      <4>. QED  BY <4>1, <4>2
    <3>3. Len(stack') - 1 = Len(stack)  BY <1>1, <2>2
    <3>. QED  BY <3>1, <3>2, <3>3 DEF Links
  <2>9. Search'  BY <2>2, <2>3, <2>5 DEF DepthInv, Search
  <2>10. Decided'  BY <2>1 DEF Decided
  <2>. QED  BY <2>6, <2>7, <2>8, <2>9, <2>10 DEF DepthInv
<1>4. CASE ~(Len(stack) < MaxDepth)
  <2>1. stack' = stack /\ outcome' = "overflow" /\ Len(stack) = MaxDepth
    BY <1>1, <1>4 DEF Call
  <2> DEFINE c == [k \in 1 .. MaxDepth + 1 |->
                     IF k <= MaxDepth THEN stack[k].name ELSE n]
  <2>2. \A k \in 1 .. MaxDepth : stack[k].name \in TypeNames
    BY <2>1 DEF DepthInv, Knowledge, Knows
  <2>. HIDE DEF n
  <2>3. c \in [1 .. MaxDepth + 1 -> TypeNames]  BY <1>1, <1>2, <2>2
  <2>4. c[1] = root  BY <1>1 DEF DepthInv, Links
  <2>5. ASSUME NEW k \in 1 .. (MaxDepth + 1) - 1 PROVE c[k + 1] \in PartsIn(db, c[k])
    <3>1. k \in 1 .. MaxDepth + 1 /\ k + 1 \in 1 .. MaxDepth + 1 /\ k <= MaxDepth
      BY <1>1
    <3>2. CASE k = MaxDepth
      <4>1. c[k + 1] = n /\ c[k] = Top.name  BY <1>1, <2>1, <3>1, <3>2
      <4>. QED  BY <1>2, <4>1 DEF n
    <3>3. CASE k # MaxDepth
      <4>1. k \in 1 .. Len(stack) - 1 /\ k \in 1 .. Len(stack) /\ k + 1 <= MaxDepth
        BY <1>1, <2>1, <3>3
      <4>2. c[k + 1] = stack[k + 1].name /\ c[k] = stack[k].name
        BY <3>1, <4>1
      <4>3. /\ Waits(db, stack[k]) /\ stack[k + 1].name = Wanted(db, stack[k])
            /\ Knows(db, stack[k], Len(heap))
        BY <4>1 DEF DepthInv, Links, Knowledge
      <4>. QED  BY <4>2, <4>3, Sizes, WantedIsPart
    <3>. QED  BY <3>2, <3>3
  <2>. HIDE DEF c
  <2>6. ChainIn(db, root, MaxDepth + 1)  BY <2>3, <2>4, <2>5 DEF ChainIn
  <2>7. Decided'  BY <2>1, <2>6 DEF Decided
  <2>8. Numbers' /\ Knowledge' /\ Links' /\ Search'
    BY <2>1 DEF DepthInv, Numbers, Knowledge, Links, Search
  <2>. QED  BY <2>7, <2>8 DEF DepthInv
<1>. QED  BY <1>3, <1>4

\* It returns; the frame below it has one of its parts read.
LEMMA TopAnswers ==
  ASSUME IInv, DepthInv, outcome = "running", NEW arg, Return(arg),
         faults' \in 0 .. MaxFaults, unclosed' \in Nat, UNCHANGED <<db, root>>,
         faults' = 0 =>
           faults = 0 /\ ~ChainIn(db, Top.name, MaxDepth + 2 - Len(stack))
  PROVE  DepthInv'
<1>1. /\ Len(stack) \in 1 .. MaxDepth /\ MaxDepth \in Nat
      /\ Top = stack[Len(stack)] /\ IsSeq(stack) /\ IsSeq(heap) /\ Len(heap) \in Nat
  BY Sizes DEF IInv, Sequences
<1>2. CASE ReturnResult(arg)
  <2>1. stack' = << >> /\ outcome' = "returned" /\ heap' = heap /\ Len(stack) = 1
    BY <1>2 DEF ReturnResult
  <2>2. Len(stack') = 0  BY <2>1
  <2>3. Top.name = root /\ MaxDepth + 2 - Len(stack) = MaxDepth + 1
    BY <1>1, <2>1 DEF DepthInv, Links
  <2>4. Decided'  BY <2>1, <2>3 DEF Decided
  <2>5. Numbers' /\ Knowledge' /\ Links' /\ Search'
    BY <1>1, <2>2 DEF DepthInv, Numbers, Knowledge, Links, Search
  <2>. QED  BY <2>4, <2>5 DEF DepthInv
<1>3. ASSUME NEW f, Len(stack) > 1, Resume(f), outcome' = outcome,
             Len(heap') \in Nat, Len(heap') >= Len(heap),
             Knows(db, f, Len(heap')), f.name = Caller.name,
             faults' = 0 => Explored(db, f, MaxDepth + 2 - Len(stack))
      PROVE  DepthInv'
  <2>1. /\ Len(stack') = Len(stack) - 1 /\ stack'[Len(stack) - 1] = f
        /\ \A k \in 1 .. Len(stack) - 2 : stack'[k] = stack[k]
    <3>1. /\ Len(stack') = Len(stack) - 1 /\ stack'[Len(stack')] = f
          /\ \A k \in 1 .. Len(stack) - 2 : stack'[k] = stack[k]
      BY <1>3, <1>1, Resumed DEF Resume
    <3>. QED  BY <3>1
  <2>2. \A k \in 1 .. Len(stack) - 1 :
          k \in 1 .. Len(stack) /\ (k \in 1 .. Len(stack) - 2 \/ k = Len(stack) - 1)
    BY <1>1
  <2>3. Numbers'  BY <1>1, <1>3, <2>1 DEF DepthInv, Numbers
  <2>4. \A k \in 1 .. Len(stack) : Knows(db, stack[k], Len(heap'))
    BY <1>1, <1>3 DEF DepthInv, Knowledge, Knows
  <2>5. Knowledge'  BY <1>3, <2>1, <2>2, <2>4 DEF Knowledge
  <2>6. \A k \in 1 .. Len(stack) - 1 : stack'[k].name = stack[k].name
    BY <1>1, <1>3, <2>1, <2>2 DEF Caller
  <2>7. Links'
    <3>1. stack'[1].name = root
      BY <1>1, <1>3, <2>6 DEF DepthInv, Links
    <3>2. ASSUME NEW k \in 1 .. Len(stack) - 2
          PROVE  Waits(db, stack'[k]) /\ stack'[k + 1].name = Wanted(db, stack'[k])
      <4>1. k \in 1 .. Len(stack) - 1 /\ k + 1 \in 1 .. Len(stack) - 1  BY <1>1
      <4>. QED  BY <2>1, <2>6, <4>1 DEF DepthInv, Links
    <3>3. Len(stack') - 1 = Len(stack) - 2  BY <1>1, <2>1
    <3>. QED  BY <3>1, <3>2, <3>3 DEF Links
  <2>8. Search'
    <3>1. ASSUME faults' = 0, NEW k \in 1 .. Len(stack) - 1
          PROVE  Explored(db, stack'[k], MaxDepth + 1 - k)
      <4>1. CASE k = Len(stack) - 1
        <5>1. MaxDepth + 1 - k = MaxDepth + 2 - Len(stack)  BY <1>1, <4>1
        <5>. QED  BY <1>3, <2>1, <3>1, <4>1, <5>1
      <4>2. CASE k # Len(stack) - 1
        <5>1. k \in 1 .. Len(stack) - 2  BY <2>2, <4>2
        <5>2. k \in 1 .. Len(stack) /\ stack'[k] = stack[k]  BY <2>1, <2>2, <5>1
        <5>. QED  BY <3>1, <5>2 DEF DepthInv, Search
      <4>. QED  BY <4>1, <4>2
    <3>. QED  BY <2>1, <3>1 DEF Search
  <2>9. Decided'  BY <1>3 DEF Decided
  <2>. QED  BY <2>3, <2>5, <2>7, <2>8, <2>9 DEF DepthInv
\* What the frame below is, and what it has asked for.
<1>4. ASSUME Len(stack) > 1
      PROVE  /\ IsFrame(Caller) /\ Knows(db, Caller, Len(heap))
             /\ Waits(db, Caller) /\ Top.name = Wanted(db, Caller)
             /\ faults = 0 => Explored(db, Caller, MaxDepth + 2 - Len(stack))
  <2>1. /\ Len(stack) - 1 \in 1 .. Len(stack) - 1 /\ Len(stack) - 1 \in 1 .. Len(stack)
        /\ (Len(stack) - 1) + 1 = Len(stack)
        /\ MaxDepth + 1 - (Len(stack) - 1) = MaxDepth + 2 - Len(stack)
    BY <1>1, <1>4
  <2>. QED
    BY <1>1, <2>1
    DEF Caller, DepthInv, Links, Knowledge, Search, IInv, Frames
<1>5. CASE ReturnBase(arg)
  <2> DEFINE f == [Caller EXCEPT !.pc = "members", !.type.baseType = Len(heap')]
  <2>1. /\ Len(stack) > 1 /\ heap' = Append(heap, arg) /\ Resume(f)
        /\ outcome' = outcome /\ Caller.pc = "base"
    BY <1>5 DEF ReturnBase
  <2>2. Len(heap') = Len(heap) + 1  BY <2>1, <1>1, Pushed
  <2>3. /\ f.pc = "members" /\ f.name = Caller.name /\ f.next = Caller.next
        /\ f.type.kind = Caller.type.kind
        /\ f.type.baseTypeName = Caller.type.baseTypeName
        /\ f.type.baseType = Len(heap')
    BY <1>4, <2>1 DEF IsFrame, FrameFields, ArgFields
  <2>. HIDE DEF f
  <2>4. Knows(db, f, Len(heap'))
    BY <1>1, <1>4, <2>1, <2>2, <2>3 DEF Knows, HasRead, Row
  <2>5. faults' = 0 => Explored(db, f, MaxDepth + 2 - Len(stack))
    BY <1>4, <2>1, <2>3 DEF Explored, HasRead, Row, Wanted
  <2>. QED  BY <1>1, <1>3, <2>1, <2>2, <2>3, <2>4, <2>5
<1>6. CASE ReturnField(arg)
  <2>1. PICK fields :
          /\ Len(stack) > 1 /\ outcome' = outcome /\ heap' = heap
          /\ Caller.pc = "fields"
          /\ Resume([Caller EXCEPT !.next = @ + 1, !.type.Fields = fields])
    BY <1>6 DEF ReturnField
  <2> DEFINE f == [Caller EXCEPT !.next = @ + 1, !.type.Fields = fields]
  <2>2. /\ f.pc = "fields" /\ f.name = Caller.name /\ f.next = Caller.next + 1
        /\ f.type.kind = Caller.type.kind
        /\ f.type.baseTypeName = Caller.type.baseTypeName
        /\ f.type.baseType = Caller.type.baseType
    BY <1>4, <2>1 DEF IsFrame, FrameFields, ArgFields
  <2>3. Resume(f)  BY <2>1
  <2>. HIDE DEF f
  <2>4. Knows(db, f, Len(heap'))
    BY <1>4, <2>1, <2>2 DEF Knows, HasRead, Row
  <2>5. ASSUME faults' = 0 PROVE Explored(db, f, MaxDepth + 2 - Len(stack))
    <3> DEFINE room == MaxDepth + 2 - Len(stack)
    <3>1. Explored(db, Caller, room) /\ ~ChainIn(db, Top.name, room)
      BY <1>4, <2>1, <2>5
    <3>. HIDE DEF room
    <3>2. Caller.next \in Nat /\ Top.name = FieldsIn(db, Caller.name)[Caller.next].type
      BY <1>4, <2>1 DEF Knows, Wanted
    <3>3. Len(FieldsIn(db, Caller.name)) \in Nat  BY Sizes, TypesOfFields
    <3>4. \A j \in 1 .. Len(FieldsIn(db, f.name)) :
            j < f.next => ~ChainIn(db, FieldsIn(db, f.name)[j].type, room)
      <4>1. \A j \in 1 .. Len(FieldsIn(db, f.name)) :
              j < f.next => j < Caller.next \/ j = Caller.next
        BY <2>2, <3>2, <3>3
      <4>. QED  BY <2>1, <2>2, <3>1, <3>2, <4>1 DEF Explored
    <3>5. HasRead(db, f)  BY <2>1, <2>2, <3>1 DEF Explored, HasRead, Row
    <3>6. f.type.baseTypeName # NONE => ~ChainIn(db, f.type.baseTypeName, room)
      BY <2>1, <2>2, <3>1 DEF Explored
    <3>7. Explored(db, f, room)  BY <2>2, <3>4, <3>5, <3>6 DEF Explored
    <3>. QED  BY <3>7 DEF room
  <2>. QED  BY <1>1, <1>3, <2>1, <2>2, <2>3, <2>4, <2>5
<1>. QED  BY <1>2, <1>5, <1>6 DEF Return

-----------------------------------------------------------------------------
(* The actions, and what the frames know                                   *)

LEMMA InitDepthInv == Init => DepthInv
<1>. SUFFICES ASSUME Init PROVE DepthInv  OBVIOUS
<1>1. Len(stack) = 1 /\ stack[1] = Frame(root) /\ Len(heap) = 0  BY DEF Init
<1>2. Knows(db, Frame(root), 0) /\ Frame(root).name = root
  BY PointersAssumption DEF Init, Knows, Frame, FreshArg
<1>3. Explored(db, Frame(root), MaxDepth)  BY DEF Explored, Frame
<1>4. Numbers  BY <1>1, BoundsAssumption DEF Init, Numbers
<1>5. Knowledge /\ Links  BY <1>1, <1>2 DEF Knowledge, Links
<1>6. Search
  <2>1. MaxDepth + 1 - 1 = MaxDepth  BY BoundsAssumption
  <2>. QED  BY <1>1, <1>3, <2>1 DEF Search
<1>7. Decided  BY DEF Init, Decided
<1>. QED  BY <1>4, <1>5, <1>6, <1>7 DEF DepthInv

LEMMA NextDepthInv == IInv /\ DepthInv /\ [Next]_vars => DepthInv'
<1>. SUFFICES ASSUME IInv, DepthInv, [Next]_vars PROVE DepthInv'  OBVIOUS
<1> DEFINE room == MaxDepth + 1 - Len(stack)
<1>0. ASSUME outcome = "running"
      PROVE  /\ Knows(db, Top, Len(heap)) /\ IsFrame(Top) /\ IsDatabase(db)
             /\ Len(stack) \in 1 .. MaxDepth /\ MaxDepth \in Nat
             /\ faults = 0 => Explored(db, Top, room)
             /\ faults \in 0 .. MaxFaults /\ unclosed \in Nat
  <2>1. Len(stack) \in 1 .. Len(stack)  BY <1>0, Sizes
  <2>. QED  BY <1>0, <2>1, Sizes DEF DepthInv, Search, Numbers
<1>. HIDE DEF room
\* A step of the innermost frame, with the next failure or without.
<1>1. ASSUME NEW f, SetTop(f), outcome = "running", f.name = Top.name,
             Knows(db, f, Len(heap)),
             \/ UNCHANGED faults /\ (faults = 0 => Explored(db, f, room))
             \/ Fault,
             UNCHANGED <<db, root, heap, unclosed, outcome>>
      PROVE  DepthInv'
  <2>1. /\ faults' \in 0 .. MaxFaults
        /\ faults' = 0 => faults = 0 /\ Explored(db, f, room)
    BY <1>0, <1>1, BoundsAssumption DEF Fault
  <2>. QED  BY <1>1, <2>1, TopLearns DEF room
<1>2. CASE Open
  <2> DEFINE f == [Top EXCEPT !.pc = "row", !.type.typeName = Top.name]
  <2>1. /\ outcome = "running" /\ Top.pc = "open" /\ SetTop(f)
        /\ UNCHANGED <<db, root, heap, unclosed, faults, outcome>>
    BY <1>2 DEF Open, At
  <2>2. /\ f.pc = "row" /\ f.name = Top.name /\ f.next = Top.next
        /\ f.type.kind = Top.type.kind
        /\ f.type.baseTypeName = Top.type.baseTypeName
        /\ f.type.baseType = Top.type.baseType
    BY <1>0, <2>1 DEF IsFrame, FrameFields, ArgFields
  <2>. HIDE DEF f
  <2>3. Knows(db, f, Len(heap))  BY <1>0, <2>1, <2>2 DEF Knows, HasRead, Row
  <2>4. Explored(db, f, room)  BY <2>2 DEF Explored
  <2>. QED  BY <1>1, <2>1, <2>2, <2>3, <2>4
<1>3. CASE OpenFails
  <2>1. /\ outcome = "running" /\ Fault /\ unclosed' = unclosed + 1
        /\ Return(Top.type) /\ UNCHANGED <<db, root>>
    BY <1>3 DEF OpenFails, At
  <2>2. faults' \in 0 .. MaxFaults /\ faults' # 0 /\ unclosed' \in Nat
    BY <1>0, <2>1, BoundsAssumption DEF Fault
  <2>. QED  BY <2>1, <2>2, TopAnswers
<1>4. CASE SelectType
  <2> DEFINE f == IF Top.name \in DOMAIN db.types
                  THEN [Top EXCEPT !.pc = "base",
                                   !.type.kind = db.types[Top.name].kind,
                                   !.type.baseTypeName = db.types[Top.name].base]
                  ELSE [Top EXCEPT !.pc = "base"]
  <2>1. /\ outcome = "running" /\ Top.pc = "row" /\ SetTop(f)
        /\ UNCHANGED <<db, root, heap, unclosed, faults, outcome>>
    BY <1>4 DEF SelectType, At
  <2>2. /\ f.pc = "base" /\ f.name = Top.name /\ f.next = Top.next
        /\ f.type.baseType = Top.type.baseType
    BY <1>0, <2>1 DEF IsFrame, FrameFields, ArgFields
  <2>3. CASE Top.name \in DOMAIN db.types
    <3>1. db.types[Top.name] \in TypeRow  BY <1>0, <2>1, <2>3 DEF IsDatabase
    <3>2. /\ f.type.kind = db.types[Top.name].kind
          /\ f.type.baseTypeName = db.types[Top.name].base
      BY <1>0, <2>1, <2>3 DEF IsFrame, FrameFields, ArgFields
    <3>3. HasRead(db, f) /\ f.type.kind \in Texts \cup {NONE}
          /\ f.type.baseTypeName \in TypeNames \cup {NONE}
      BY <2>2, <2>3, <3>1, <3>2 DEF HasRead, Row, TypeRow
    <3>. HIDE DEF f
    <3>4. Knows(db, f, Len(heap))  BY <1>0, <2>1, <2>2, <3>3 DEF Knows
    <3>5. Explored(db, f, room)  BY <2>2, <3>3 DEF Explored
    <3>. QED  BY <1>1, <2>1, <2>2, <3>4, <3>5
  <2>4. CASE Top.name \notin DOMAIN db.types
    <3>1. /\ f.type.kind = Top.type.kind
          /\ f.type.baseTypeName = Top.type.baseTypeName
      BY <1>0, <2>1, <2>4 DEF IsFrame, FrameFields, ArgFields
    <3>. HIDE DEF f
    <3>2. HasRead(db, f)
      BY <1>0, <2>1, <2>2, <2>4, <3>1 DEF Knows, HasRead, Row
    <3>3. Knows(db, f, Len(heap))
      BY <1>0, <2>1, <2>2, <3>1, <3>2 DEF Knows
    <3>4. Explored(db, f, room)  BY <2>2, <3>2 DEF Explored
    <3>. QED  BY <1>1, <2>1, <2>2, <3>3, <3>4
  <2>. QED  BY <2>3, <2>4
<1>5. CASE SelectTypeFails
  <2> DEFINE f == [Top EXCEPT !.pc = "base"]
  <2>1. /\ outcome = "running" /\ Top.pc = "row" /\ SetTop(f) /\ Fault
        /\ UNCHANGED <<db, root, heap, unclosed, outcome>>
    BY <1>5 DEF SelectTypeFails, At
  <2>2. f.pc = "base" /\ f.name = Top.name /\ f.next = Top.next /\ f.type = Top.type
    BY <1>0, <2>1 DEF IsFrame, FrameFields
  <2>. HIDE DEF f
  <2>3. Knows(db, f, Len(heap))  BY <1>0, <2>1, <2>2 DEF Knows, HasRead, Row
  <2>. QED  BY <1>1, <2>1, <2>2, <2>3
<1>6. CASE CallBase
  <2>1. /\ outcome = "running" /\ Top.pc = "base" /\ Top.type.baseTypeName # NONE
        /\ Call(Top.type.baseTypeName)
        /\ UNCHANGED <<db, root, heap, unclosed, faults>>
    BY <1>6 DEF CallBase, At
  <2>2. Waits(db, Top) /\ Wanted(db, Top) = Top.type.baseTypeName
    BY <2>1 DEF Waits, Wanted
  <2>. QED  BY <2>1, <2>2, TopAsks
<1>7. CASE NoBase
  <2> DEFINE f == [Top EXCEPT !.pc = "members", !.type.baseType = NULL]
  <2>1. /\ outcome = "running" /\ Top.pc = "base" /\ Top.type.baseTypeName = NONE
        /\ SetTop(f) /\ UNCHANGED <<db, root, heap, unclosed, faults, outcome>>
    BY <1>7 DEF NoBase, At
  <2>2. /\ f.pc = "members" /\ f.name = Top.name /\ f.next = Top.next
        /\ f.type.kind = Top.type.kind /\ f.type.baseType = NULL
        /\ f.type.baseTypeName = Top.type.baseTypeName
    BY <1>0, <2>1 DEF IsFrame, FrameFields, ArgFields
  <2>. HIDE DEF f
  <2>3. Knows(db, f, Len(heap))  BY <1>0, <2>1, <2>2 DEF Knows, HasRead, Row
  <2>4. faults = 0 => Explored(db, f, room)
    BY <1>0, <2>1, <2>2 DEF Explored, HasRead, Row
  <2>. QED  BY <1>1, <2>1, <2>2, <2>3, <2>4
<1>8. CASE SelectMembers
  <2> DEFINE f == [Top EXCEPT !.pc = IF Top.type.kind \in {"Struct", "Union"}
                                     THEN "fields"
                                     ELSE IF Top.type.kind = "Alias" THEN "values"
                                     ELSE "close"]
  <2>1. /\ outcome = "running" /\ Top.pc = "members" /\ SetTop(f)
        /\ UNCHANGED <<db, root, heap, unclosed, faults, outcome>>
    BY <1>8 DEF SelectMembers, At
  <2>2. /\ f.name = Top.name /\ f.next = Top.next /\ f.type = Top.type
        /\ f.pc = IF Top.type.kind \in {"Struct", "Union"} THEN "fields"
                  ELSE IF Top.type.kind = "Alias" THEN "values" ELSE "close"
    BY <1>0, <2>1 DEF IsFrame, FrameFields
  <2>. HIDE DEF f
  <2>3. Knows(db, f, Len(heap))  BY <1>0, <2>1, <2>2 DEF Knows, HasRead, Row
  <2>4. ASSUME faults = 0 PROVE Explored(db, f, room)
    <3>1. /\ HasRead(db, f) /\ f.next = 1
          /\ f.type.baseTypeName # NONE => ~ChainIn(db, f.type.baseTypeName, room)
      BY <1>0, <2>1, <2>2, <2>4 DEF Explored, Knows, HasRead, Row
    <3>2. \A j \in 1 .. Len(FieldsIn(db, f.name)) : ~(j < f.next)
      BY <1>0, <2>1, <3>1, TypesOfFields
    <3>3. f.pc = "close" => PartsIn(db, f.name) \subseteq {f.type.baseTypeName} \ {NONE}
      BY <2>2, <3>1 DEF PartsIn, HasRead, Row
    <3>. QED  BY <3>1, <3>2, <3>3 DEF Explored
  <2>. QED  BY <1>1, <2>1, <2>2, <2>3, <2>4
<1>9. CASE CallField
  <2>1. /\ outcome = "running" /\ Top.pc = "fields"
        /\ Top.next <= Len(FieldsOf(Top.name))
        /\ Call(FieldsOf(Top.name)[Top.next].type)
        /\ UNCHANGED <<db, root, heap, unclosed, faults>>
    BY <1>9 DEF CallField, At
  <2>2. FieldsOf(Top.name) = FieldsIn(db, Top.name)  BY InTheDatabase
  <2>3. Waits(db, Top) /\ Wanted(db, Top) = FieldsOf(Top.name)[Top.next].type
    BY <2>1, <2>2 DEF Waits, Wanted
  <2>. QED  BY <2>1, <2>3, TopAsks
<1>10. CASE FieldsEnd \/ FieldsFail
  <2> DEFINE f == [Top EXCEPT !.pc = "close"]
  <2>1. /\ outcome = "running" /\ Top.pc = "fields" /\ SetTop(f)
        /\ \/ Fault
           \/ UNCHANGED faults /\ Top.next > Len(FieldsOf(Top.name))
        /\ UNCHANGED <<db, root, heap, unclosed, outcome>>
    BY <1>10 DEF FieldsEnd, FieldsFail, At
  <2>2. f.pc = "close" /\ f.name = Top.name /\ f.next = Top.next /\ f.type = Top.type
    BY <1>0, <2>1 DEF IsFrame, FrameFields
  <2>. HIDE DEF f
  <2>3. Knows(db, f, Len(heap))  BY <1>0, <2>1, <2>2 DEF Knows, HasRead, Row
  <2>4. ASSUME faults = 0, Top.next > Len(FieldsOf(Top.name))
        PROVE  Explored(db, f, room)
    <3>1. FieldsOf(Top.name) = FieldsIn(db, Top.name)  BY InTheDatabase
    <3>2. /\ HasRead(db, Top)
          /\ Top.type.baseTypeName # NONE => ~ChainIn(db, Top.type.baseTypeName, room)
          /\ \A j \in 1 .. Len(FieldsIn(db, Top.name)) :
               j < Top.next => ~ChainIn(db, FieldsIn(db, Top.name)[j].type, room)
      BY <1>0, <2>1, <2>4 DEF Explored
    <3>3. /\ Len(FieldsIn(db, Top.name)) \in Nat /\ Top.next \in Nat
          /\ DOMAIN FieldsIn(db, Top.name) = 1 .. Len(FieldsIn(db, Top.name))
      BY <1>0, <2>1, TypesOfFields DEF Knows
    <3>4. \A j \in DOMAIN FieldsIn(db, Top.name) :
            ~ChainIn(db, FieldsIn(db, Top.name)[j].type, room)
      BY <2>4, <3>1, <3>2, <3>3
    <3>5. \A p \in PartsIn(db, Top.name) : ~ChainIn(db, p, room)
      BY <3>2, <3>4 DEF PartsIn, HasRead, Row
    <3>6. HasRead(db, f)  BY <2>2, <3>2 DEF HasRead, Row
    <3>. QED  BY <2>2, <3>2, <3>5, <3>6 DEF Explored
  <2>. QED  BY <1>1, <2>1, <2>2, <2>3, <2>4
<1>11. CASE SelectValues
  <2>1. PICK values :
          /\ outcome = "running" /\ Top.pc = "values"
          /\ SetTop([Top EXCEPT !.pc = "close", !.type.defVal = values])
          /\ Fault \/ UNCHANGED faults
          /\ UNCHANGED <<db, root, heap, unclosed, outcome>>
    BY <1>11 DEF SelectValues, At
  <2> DEFINE f == [Top EXCEPT !.pc = "close", !.type.defVal = values]
  <2>2. /\ f.pc = "close" /\ f.name = Top.name /\ f.next = Top.next
        /\ f.type.kind = Top.type.kind
        /\ f.type.baseTypeName = Top.type.baseTypeName
        /\ f.type.baseType = Top.type.baseType
    BY <1>0, <2>1 DEF IsFrame, FrameFields, ArgFields
  <2>3. SetTop(f)  BY <2>1
  <2>. HIDE DEF f
  <2>4. Knows(db, f, Len(heap))  BY <1>0, <2>1, <2>2 DEF Knows, HasRead, Row
  <2>5. ASSUME faults = 0 PROVE Explored(db, f, room)
    <3>1. /\ HasRead(db, f) /\ f.type.kind = "Alias"
          /\ f.type.baseTypeName # NONE => ~ChainIn(db, f.type.baseTypeName, room)
      BY <1>0, <2>1, <2>2, <2>5 DEF Explored, Knows, HasRead, Row
    <3>2. PartsIn(db, f.name) \subseteq {f.type.baseTypeName} \ {NONE}
      BY <3>1 DEF PartsIn, HasRead, Row
    <3>. QED  BY <2>2, <3>1, <3>2 DEF Explored
  <2>. QED  BY <1>1, <2>1, <2>2, <2>3, <2>4, <2>5
<1>12. CASE Close
  <2>1. /\ outcome = "running" /\ Top.pc = "close" /\ Return(Top.type)
        /\ UNCHANGED <<db, root, unclosed, faults>>
    BY <1>12 DEF Close, At
  <2>2. ASSUME faults = 0 PROVE ~ChainIn(db, Top.name, MaxDepth + 2 - Len(stack))
    <3>1. \A p \in PartsIn(db, Top.name) : ~ChainIn(db, p, room)
      BY <1>0, <2>1, <2>2 DEF Explored
    <3>2. room \in Nat \ {0} /\ MaxDepth + 2 - Len(stack) = room + 1
      BY <1>0, <2>1 DEF room
    <3>3. ~ChainIn(db, Top.name, room + 1)  BY <3>1, <3>2, ChainContinues
    <3>. QED  BY <3>2, <3>3
  <2>. QED  BY <1>0, <2>1, <2>2, TopAnswers
<1>13. CASE UNCHANGED vars
  BY <1>13 DEF vars, DepthInv, Numbers, Knowledge, Links, Search, Decided
<1>. QED
  BY <1>2, <1>3, <1>4, <1>5, <1>6, <1>7, <1>8, <1>9, <1>10, <1>11, <1>12, <1>13
  DEF Next

LEMMA DepthInvariant == Spec => [](IInv /\ DepthInv)
<1>1. Init => IInv /\ DepthInv  BY InitIInv, InitDepthInv
<1>2. IInv /\ DepthInv /\ [Next]_vars => (IInv /\ DepthInv)'
  BY NextIInv, NextDepthInv
<1>. QED  BY <1>1, <1>2, PTL DEF Spec

\* A pointer of a frame is one into the heap, the null pointer or one that was
\* never set, and every count is a natural number.
THEOREM TypeCorrectness == Spec => []TypeOK
<1>1. IInv /\ DepthInv => TypeOK
  <2>. SUFFICES ASSUME IInv, DepthInv PROVE TypeOK  OBVIOUS
  <2>1. DOMAIN stack = 1 .. Len(stack) /\ Len(stack) \in Nat
    BY LengthNatural DEF IInv, Sequences, IsSeq
  <2>2. handles \in Nat
    BY <2>1 DEF IInv, Sequences, ConnectionsOfFrames
  <2>3. \A k \in DOMAIN stack : Knows(db, stack[k], Len(heap)) /\ IsFrame(stack[k])
    BY <2>1 DEF IInv, Frames, DepthInv, Knowledge
  <2>. QED
    BY <2>2, <2>3
    DEF TypeOK, IInv, Sequences, DepthInv, Numbers, Knows, IsFrame, Places
<1>. QED  BY <1>1, DepthInvariant, PTL

\* Whether typeInformation dies of a stack overflow is decided by the database:
\* it does only where a chain of types is longer than the stack has room for, and
\* when none of its queries fails it returns only where there is none.
THEOREM DepthDecidesHolds == Spec => []DepthDecides
<1>1. DepthInv => DepthDecides
  BY InTheDatabase DEF DepthInv, Decided, DepthDecides
<1>. QED  BY <1>1, DepthInvariant, PTL

-----------------------------------------------------------------------------
(* The tree as a set of nodes                                              *)

\* What the tree depends on.
Env == [db |-> db, heap |-> heap, failed |-> failed, wild |-> unclosed]

\* So many objects have been made, and so many connections could not be opened.
Mark(cell, wild) == [cell |-> cell, wild |-> wild]

Marks == [cell : Nat, wild : Nat]

Upto(m, n) == m.cell <= n.cell /\ m.wild <= n.wild

Reached(e) == Mark(Len(e.heap), e.wild)

\* A node is what typeInformation(name) fills in at a place: how many frames
\* there were for it, where it started, and where it was after its base
\* (marks[0]) and after its k-th field.
Node(place, arg, name, room, start, marks) ==
  [place |-> place, arg |-> arg, name |-> name, room |-> room, start |-> start,
   marks |-> marks]

End(x) == x.marks[Len(x.arg.Fields)]

Shape(e, x) ==
  /\ IsSeq(x.arg.Fields) /\ x.room \in Nat \ {0} /\ x.start \in Marks
  /\ x.marks \in [0 .. Len(x.arg.Fields) -> Marks]
  /\ \A k \in 0 .. Len(x.arg.Fields) :
       Upto(x.start, x.marks[k]) /\ Upto(x.marks[k], Reached(e))

\* Among the nodes W there is one for the base or a field of x.
Child(W, x, k, arg, name, start, end) ==
  \E y \in W :
    /\ y.place = Append(x.place, k) /\ y.arg = arg /\ y.name = name
    /\ y.room = x.room - 1 /\ y.start = start /\ End(y) = end

\* The base is the object made last of those for it.
PointsTo(e, W, x, p) ==
  /\ p \in 1 .. Len(e.heap) /\ x.marks[0].cell = p
  /\ Child(W, x, 0, e.heap[p], x.arg.baseTypeName, x.start,
           Mark(p - 1, x.marks[0].wild))

BaseOf(e, W, x) ==
  \/ x.arg.baseType = NULL /\ x.marks[0] = x.start
  \/ x.arg.baseType = WILD /\ x.marks[0] = Mark(x.start.cell, x.start.wild + 1)
  \/ PointsTo(e, W, x, x.arg.baseType)

FieldOf(e, W, x, k) ==
  /\ k <= Len(FieldsIn(e.db, x.name))
  /\ Child(W, x, k, x.arg.Fields[k], FieldsIn(e.db, x.name)[k].type,
           x.marks[k - 1], x.marks[k])

Whole(e, W, x) ==
  /\ Shape(e, x) /\ BaseOf(e, W, x)
  /\ \A k \in 1 .. Len(x.arg.Fields) : FieldOf(e, W, x, k)

ValuesIn(d, n) ==
  Select(d.values, {r \in ToSet(d.values) : r.type = n /\ n \in DOMAIN d.types})

RowIn(d, n) ==
  IF n \in DOMAIN d.types THEN d.types[n] ELSE [kind |-> NONE, base |-> NONE]

RowsIn(d, arg, n) == IF arg.kind \in {"Struct", "Union"} THEN FieldsIn(d, n) ELSE << >>

NamesIn(d, arg, n) == IF arg.kind = "Alias" THEN ValuesIn(d, n) ELSE << >>

DescribesIn(d, arg, n) ==
  /\ arg.typeName = n
  /\ arg.kind = RowIn(d, n).kind /\ arg.baseTypeName = RowIn(d, n).base
  /\ arg.baseType = NULL <=> arg.baseTypeName = NONE
  /\ IsPrefix(Heads(arg.Fields), Heads(RowsIn(d, arg, n)))
  /\ IsPrefix(arg.defVal, NamesIn(d, arg, n))

CompleteIn(d, arg, n) ==
  Len(arg.Fields) = Len(RowsIn(d, arg, n)) /\ arg.defVal = NamesIn(d, arg, n)

Right(e, x) ==
  \/ DescribesIn(e.db, x.arg, x.name) /\ CompleteIn(e.db, x.arg, x.name)
  \/ /\ x.place \in e.failed
     /\ Unopened(x.arg) \/ Unread(x.arg, x.name) \/ DescribesIn(e.db, x.arg, x.name)

Closed(e, W) == \A x \in W : Right(e, x) /\ Whole(e, W, x)

LEMMA TreeInTheDatabase ==
  ASSUME NEW arg, NEW n
  PROVE  /\ Describes(arg, n) <=> DescribesIn(db, arg, n)
         /\ Complete(arg, n) <=> CompleteIn(db, arg, n)
BY DEF Describes, DescribesIn, Complete, CompleteIn, RowOf, RowIn, RowsOf, RowsIn,
       NamesOf, NamesIn, FieldsOf, FieldsIn, ValuesOf, ValuesIn

\* The heap grows, and so does what has failed.
Grows(e, f) ==
  /\ f.db = e.db /\ e.failed \subseteq f.failed
  /\ Len(e.heap) \in Nat /\ Len(f.heap) \in Nat /\ Len(e.heap) <= Len(f.heap)
  /\ \A p \in 1 .. Len(e.heap) : f.heap[p] = e.heap[p]
  /\ e.wild \in Nat /\ f.wild \in Nat /\ e.wild <= f.wild

LEMMA ShapeStays ==
  ASSUME NEW e, NEW f, Grows(e, f), NEW x, Shape(e, x)
  PROVE  Shape(f, x)
<1>1. ASSUME NEW k \in 0 .. Len(x.arg.Fields) PROVE Upto(x.marks[k], Reached(f))
  <2>1. x.marks[k] \in Marks /\ Upto(x.marks[k], Reached(e))  BY DEF Shape
  <2>. QED  BY <2>1 DEF Upto, Reached, Mark, Marks, Grows
<1>. QED  BY <1>1 DEF Shape

LEMMA WholeStays ==
  ASSUME NEW e, NEW f, Grows(e, f), NEW W, NEW V, W \subseteq V,
         NEW x, Whole(e, W, x)
  PROVE  Whole(f, V, x)
<1>1. Shape(f, x)  BY ShapeStays DEF Whole
<1>2. BaseOf(f, V, x)
  <2>1. ASSUME PointsTo(e, W, x, x.arg.baseType) PROVE PointsTo(f, V, x, x.arg.baseType)
    <3> DEFINE p == x.arg.baseType
               end == Mark(p - 1, x.marks[0].wild)
    <3>1. p \in 1 .. Len(f.heap) /\ f.heap[p] = e.heap[p]
      BY <2>1 DEF PointsTo, Grows
    <3>2. Child(W, x, 0, e.heap[p], x.arg.baseTypeName, x.start, end)
      BY <2>1 DEF PointsTo
    <3>3. Child(V, x, 0, e.heap[p], x.arg.baseTypeName, x.start, end)
      BY <3>2 DEF Child
    <3>. QED  BY <2>1, <3>1, <3>3 DEF PointsTo
  <2>. QED  BY <2>1 DEF Whole, BaseOf
<1>3. ASSUME NEW k \in 1 .. Len(x.arg.Fields) PROVE FieldOf(f, V, x, k)
  <2>1. FieldOf(e, W, x, k) /\ f.db = e.db  BY DEF Whole, Grows
  <2>. QED  BY <2>1 DEF FieldOf, Child
<1>. QED  BY <1>1, <1>2, <1>3 DEF Whole

\* What is true of nodes stays true.
LEMMA ClosedStays ==
  ASSUME NEW e, NEW f, Grows(e, f), NEW W, Closed(e, W)
  PROVE  Closed(f, W)
<1>. SUFFICES ASSUME NEW x \in W PROVE Right(f, x) /\ Whole(f, W, x)
  BY DEF Closed
<1>1. Right(e, x) /\ Whole(e, W, x)  BY DEF Closed
<1>2. Right(f, x)  BY <1>1 DEF Right, Grows
<1>. QED  BY <1>1, <1>2, WholeStays

\* A node more.
LEMMA ClosedWith ==
  ASSUME NEW e, NEW W, Closed(e, W), NEW x, Right(e, x), Whole(e, W, x),
         Len(e.heap) \in Nat, e.wild \in Nat
  PROVE  Closed(e, W \cup {x})
<1>1. Grows(e, e)  BY DEF Grows
<1>. SUFFICES ASSUME NEW y \in W \cup {x} PROVE Right(e, y) /\ Whole(e, W \cup {x}, y)
  BY DEF Closed
<1>2. Right(e, y) /\ Whole(e, W, y)  BY DEF Closed
<1>. QED  BY <1>1, <1>2, WholeStays

\* The node of the whole tree.
IsRoot(e, x, arg, name) ==
  /\ x.place = << >> /\ x.arg = arg /\ x.name = name /\ x.room = MaxDepth
  /\ x.start = Mark(0, 0) /\ End(x) = Reached(e)

-----------------------------------------------------------------------------
(* distr                                                                   *)

WalkFields == {"pc", "arg", "next"}

\* Where a frame of distr is; one that waits, when the call returns.
Where(f, x) ==
  CASE f.pc = "base" -> x.start
    [] f.pc = "delete" -> Mark(x.arg.baseType - 1, x.marks[0].wild)
    [] OTHER -> x.marks[f.next - 1]

Visits(e, W, x, f) ==
  /\ x \in W /\ x.arg = f.arg
  /\ DOMAIN f = WalkFields /\ f.pc \in {"base", "delete", "fields"}
  /\ f.pc = "delete" => PointsTo(e, W, x, f.arg.baseType)
  /\ f.pc = "fields" => f.next \in 1 .. Len(x.arg.Fields) + 1
  /\ f.pc # "fields" => f.next = 1

\* The frames s of distr are at the nodes N, and n objects are deleted.
Follows(e, s, n, W, N) ==
  /\ IsSeq(s) /\ Len(s) > 0
  /\ End(N[1]) = Reached(e)
  /\ \A j \in 1 .. Len(s) :
       Visits(e, W, N[j], s[j]) /\ N[j].room = MaxDepth + 1 - j
  /\ \A j \in 1 .. Len(s) - 1 :
       s[j].pc # "base" /\ End(N[j + 1]) = Where(s[j], N[j])
  /\ Where(s[Len(s)], N[Len(s)]) = Mark(n, 0)

\* The innermost frame goes on.
LEMMA FollowsOn ==
  ASSUME NEW e, NEW s, NEW n, NEW W, NEW N, Follows(e, s, n, W, N),
         NEW f, NEW m, Visits(e, W, N[Len(s)], f), Where(f, N[Len(s)]) = Mark(m, 0)
  PROVE  Follows(e, [s EXCEPT ![Len(s)] = f], m, W, N)
<1> DEFINE t == [s EXCEPT ![Len(s)] = f]
<1>1. Len(s) \in Nat /\ Len(s) > 0  BY LengthNatural DEF Follows
<1>2. /\ IsSeq(t) /\ Len(t) = Len(s) /\ t[Len(s)] = f
      /\ \A k \in 1 .. Len(s) - 1 : t[k] = s[k]
  <2>1. PICK S : s \in Seq(S)  BY DEF Follows, IsSeq
  <2>2. s \in Seq(S \cup {f})  BY <2>1
  <2>3. t \in Seq(S \cup {f})  BY <1>1, <2>2, ExceptSeq
  <2>. QED  BY <1>1, <2>2, <2>3 DEF IsSeq
<1>. HIDE DEF t
<1>3. \A k \in 1 .. Len(s) : k \in 1 .. Len(s) - 1 \/ k = Len(s)  BY <1>1
<1>4. \A j \in 1 .. Len(t) : Visits(e, W, N[j], t[j]) /\ N[j].room = MaxDepth + 1 - j
  BY <1>2, <1>3 DEF Follows
<1>5. Follows(e, t, m, W, N)  BY <1>1, <1>2, <1>4 DEF Follows
<1>. QED  BY <1>5 DEF t

\* It goes on and calls distr for one of the nodes.
LEMMA FollowsInto ==
  ASSUME NEW e, NEW s, NEW n, NEW W, NEW N, Follows(e, s, n, W, N),
         NEW f, Visits(e, W, N[Len(s)], f), f.pc # "base",
         NEW y \in W, y.room = N[Len(s)].room - 1, y.start = Mark(n, 0),
         End(y) = Where(f, N[Len(s)]), MaxDepth \in Nat
  PROVE  \E M : Follows(e, Append([s EXCEPT ![Len(s)] = f], Visit(y.arg)), n, W, M)
<1> DEFINE u == [s EXCEPT ![Len(s)] = f]
           t == Append(u, Visit(y.arg))
           M == [j \in 1 .. Len(s) + 1 |-> IF j <= Len(s) THEN N[j] ELSE y]
<1>1. Len(s) \in Nat /\ Len(s) > 0  BY LengthNatural DEF Follows
<1>2. /\ IsSeq(u) /\ Len(u) = Len(s) /\ u[Len(s)] = f
      /\ \A k \in 1 .. Len(s) - 1 : u[k] = s[k]
  <2>1. PICK S : s \in Seq(S)  BY DEF Follows, IsSeq
  <2>2. s \in Seq(S \cup {f})  BY <2>1
  <2>3. u \in Seq(S \cup {f})  BY <1>1, <2>2, ExceptSeq
  <2>. QED  BY <1>1, <2>2, <2>3 DEF IsSeq
<1>. HIDE DEF u
<1>3. /\ IsSeq(t) /\ Len(t) = Len(s) + 1 /\ t[Len(s) + 1] = Visit(y.arg)
      /\ \A k \in 1 .. Len(s) : t[k] = u[k]
  BY <1>2, Pushed
<1>. HIDE DEF t
<1>4. (\A j \in 1 .. Len(s) : M[j] = N[j]) /\ M[Len(s) + 1] = y
  BY <1>1
<1>. HIDE DEF M
<1>5. \A k \in 1 .. Len(s) : k \in 1 .. Len(s) - 1 \/ k = Len(s)  BY <1>1
<1>6. \A k \in 1 .. Len(s) + 1 : k \in 1 .. Len(s) \/ k = Len(s) + 1  BY <1>1
<1>7. ASSUME NEW j \in 1 .. Len(s)
      PROVE  Visits(e, W, M[j], t[j]) /\ M[j].room = MaxDepth + 1 - j
  BY <1>2, <1>3, <1>4, <1>5 DEF Follows
<1>8. Visits(e, W, y, Visit(y.arg))
  BY DEF Visits, Visit, WalkFields
<1>9. y.room = MaxDepth + 1 - (Len(s) + 1)
  <2>1. N[Len(s)].room = MaxDepth + 1 - Len(s)  BY <1>1 DEF Follows
  <2>. QED  BY <1>1, <2>1
<1>10. ASSUME NEW j \in 1 .. Len(s)
       PROVE  t[j].pc # "base" /\ End(M[j + 1]) = Where(t[j], M[j])
  <2>1. CASE j = Len(s)  BY <1>1, <1>2, <1>3, <1>4, <2>1
  <2>2. CASE j # Len(s)
    <3>1. j \in 1 .. Len(s) - 1 /\ j + 1 \in 1 .. Len(s)  BY <1>1, <2>2
    <3>. QED  BY <1>2, <1>3, <1>4, <3>1 DEF Follows
  <2>. QED  BY <2>1, <2>2
<1>11. Where(t[Len(s) + 1], M[Len(s) + 1]) = Mark(n, 0)
  BY <1>3, <1>4 DEF Where, Visit
<1>12. End(M[1]) = Reached(e)  BY <1>1, <1>4 DEF Follows
<1>13. \A j \in 1 .. Len(t) : Visits(e, W, M[j], t[j]) /\ M[j].room = MaxDepth + 1 - j
  BY <1>3, <1>4, <1>6, <1>7, <1>8, <1>9
<1>14. Len(t) - 1 = Len(s) /\ Len(t) > 0  BY <1>1, <1>3
<1>15. Follows(e, t, n, W, M)
  BY <1>3, <1>10, <1>11, <1>12, <1>13, <1>14 DEF Follows
<1>. QED  BY <1>15 DEF t, u

\* It returns.
LEMMA FollowsBack ==
  ASSUME NEW e, NEW s, NEW n, NEW W, NEW N, Follows(e, s, n, W, N), Len(s) > 1,
         End(N[Len(s)]) = Mark(n, 0)
  PROVE  Follows(e, SubSeq(s, 1, Len(s) - 1), n, W, N)
<1> DEFINE t == SubSeq(s, 1, Len(s) - 1)
<1>1. Len(s) \in Nat  BY LengthNatural DEF Follows
<1>2. /\ IsSeq(t) /\ Len(t) = Len(s) - 1
      /\ \A k \in 1 .. Len(s) - 1 : t[k] = s[k]
  <2>1. PICK S : s \in Seq(S)  BY DEF Follows, IsSeq
  <2>2. \A k \in 1 .. Len(s) - 1 : s[k] \in S  BY <1>1, <2>1
  <2> DEFINE m == Len(s) - 1
  <2>3. m \in Int /\ m >= 1 /\ \A k \in 1 .. m : s[k] \in S  BY <1>1, <2>2
  <2>. HIDE DEF m
  <2>4. /\ SubSeq(s, 1, m) \in Seq(S) /\ Len(SubSeq(s, 1, m)) = m
        /\ \A k \in 1 .. m : SubSeq(s, 1, m)[k] = s[k]
    <3>1. /\ SubSeq(s, 1, m) \in Seq(S)
          /\ Len(SubSeq(s, 1, m)) = IF 1 <= m THEN m - 1 + 1 ELSE 0
          /\ \A k \in 1 .. m - 1 + 1 : SubSeq(s, 1, m)[k] = s[1 + k - 1]
      BY <2>3, SubSeqProperties
    <3>. QED  BY <2>3, <3>1
  <2>. QED  BY <2>4 DEF IsSeq, m
<1>. HIDE DEF t
<1>3. \A j \in 1 .. Len(t) : Visits(e, W, N[j], t[j]) /\ N[j].room = MaxDepth + 1 - j
  BY <1>1, <1>2 DEF Follows
<1>4. ASSUME NEW j \in 1 .. Len(t) - 1
      PROVE  t[j].pc # "base" /\ End(N[j + 1]) = Where(t[j], N[j])
  BY <1>1, <1>2 DEF Follows
<1>5. Where(t[Len(t)], N[Len(t)]) = Mark(n, 0)
  <2>1. Len(s) - 1 \in 1 .. Len(s) - 1 /\ (Len(s) - 1) + 1 = Len(s)  BY <1>1
  <2>. QED  BY <1>2, <2>1 DEF Follows
<1>6. Follows(e, t, n, W, N)  BY <1>1, <1>2, <1>3, <1>4, <1>5 DEF Follows
<1>. QED  BY <1>6 DEF t

\* What was returned is a tree.
Found(e, arg, name) ==
  \E W : Closed(e, W) /\ \E x \in W : IsRoot(e, x, arg, name)

Walk ==
  /\ stage \in {"reading", "deleting", "deleted", "undefined"}
  /\ stage = "reading" => walk = << >> /\ deleted = << >>
  /\ stage # "reading" => outcome = "returned"
  /\ deleted = [k \in 1 .. Len(deleted) |-> k] /\ Len(deleted) \in Nat
  /\ stage = "deleting" =>
       \E W, N : Closed(Env, W) /\ Follows(Env, walk, Len(deleted), W, N)
  /\ stage = "deleted" => Len(deleted) = Len(heap) /\ unclosed = 0
  /\ stage = "undefined" => unclosed > 0
  /\ Len(walk) <= MaxDepth

\* The frames fit where those of typeInformation did.
LEMMA FollowsFits ==
  ASSUME NEW e, NEW s, NEW n, NEW W, NEW N, Follows(e, s, n, W, N), Closed(e, W),
         MaxDepth \in Nat
  PROVE  Len(s) <= MaxDepth
<1>1. Len(s) \in Nat /\ Len(s) > 0  BY LengthNatural DEF Follows
<1>2. N[Len(s)] \in W /\ N[Len(s)].room = MaxDepth + 1 - Len(s)
  BY <1>1 DEF Follows, Visits
<1>3. N[Len(s)].room \in Nat \ {0}  BY <1>2 DEF Closed, Whole, Shape
<1>. QED  BY <1>1, <1>2, <1>3

\* The objects deleted are the first n, and the next is one more.
LEMMA DeletedInOrder ==
  ASSUME NEW s, s = [k \in 1 .. Len(s) |-> k], Len(s) \in Nat
  PROVE  /\ ToSet(s) = 1 .. Len(s)
         /\ LET t == Append(s, Len(s) + 1)
            IN  t = [k \in 1 .. Len(t) |-> k] /\ Len(t) = Len(s) + 1
<1>1. s \in Seq(Nat)
  <2>1. [k \in 1 .. Len(s) |-> k] \in [1 .. Len(s) -> Nat]  OBVIOUS
  <2>. QED  BY <2>1
<1>2. ToSet(s) = 1 .. Len(s)
  <2>1. DOMAIN s = 1 .. Len(s) /\ \A k \in 1 .. Len(s) : s[k] = k  OBVIOUS
  <2>. QED  BY <2>1 DEF ToSet
<1> DEFINE t == Append(s, Len(s) + 1)
<1>3. t \in Seq(Nat) /\ Len(t) = Len(s) + 1 /\ t[Len(s) + 1] = Len(s) + 1
      /\ \A k \in 1 .. Len(s) : t[k] = s[k]
  BY <1>1
<1>4. \A k \in 1 .. Len(s) : s[k] = k  OBVIOUS
<1>. HIDE DEF t
<1>5. \A k \in 1 .. Len(s) + 1 : k \in 1 .. Len(s) \/ k = Len(s) + 1  OBVIOUS
<1>6. \A k \in 1 .. Len(t) : t[k] = k  BY <1>3, <1>4, <1>5
<1>7. t = [k \in 1 .. Len(t) |-> t[k]]  BY <1>3
<1>8. t = [k \in 1 .. Len(t) |-> k]  BY <1>6, <1>7
<1>. QED  BY <1>2, <1>3, <1>8 DEF t

\* The innermost frame of distr.
LEMMA AtNode ==
  ASSUME NEW e, NEW s, NEW n, NEW W, NEW N, Follows(e, s, n, W, N), Closed(e, W)
  PROVE  /\ Visits(e, W, N[Len(s)], s[Len(s)])
         /\ Where(s[Len(s)], N[Len(s)]) = Mark(n, 0)
         /\ Whole(e, W, N[Len(s)]) /\ Len(N[Len(s)].arg.Fields) \in Nat
<1>1. Len(s) \in Nat /\ Len(s) > 0  BY LengthNatural DEF Follows
<1>2. Visits(e, W, N[Len(s)], s[Len(s)]) /\ Where(s[Len(s)], N[Len(s)]) = Mark(n, 0)
  BY <1>1 DEF Follows
<1>3. Whole(e, W, N[Len(s)])  BY <1>2 DEF Closed, Visits
<1>. QED  BY <1>2, <1>3, LengthNatural DEF Whole, Shape

LEMMA DeletingWalk ==
  ASSUME IInv, DepthInv, Walk, Deleting
  PROVE  Walk'
<1>1. stage = "deleting" /\ outcome' = "returned" /\ Env' = Env
      /\ UNCHANGED <<heap, unclosed>>
  BY DEF Deleting, DistrBase, DeleteBase, NothingToDelete, DistrField, DistrReturns,
         BadAccess, In, vars, Env, Walk
<1>2. MaxDepth \in Nat /\ Len(heap) \in Nat /\ unclosed \in Nat
      /\ DOMAIN heap = 1 .. Len(heap)
  BY LengthNatural, BoundsAssumption
  DEF IInv, Sequences, DepthInv, Numbers, IsSeq
<1>3. PICK W, N : Closed(Env, W) /\ Follows(Env, walk, Len(deleted), W, N)
  BY <1>1 DEF Walk
<1> DEFINE x == N[Len(walk)]
           n == Len(deleted)
<1>4. /\ Visits(Env, W, x, This) /\ Where(This, x) = Mark(n, 0)
      /\ Whole(Env, W, x) /\ Len(x.arg.Fields) \in Nat /\ x \in W
  BY <1>3, AtNode DEF This, Visits
<1>5. Env.heap = heap /\ Env.wild = unclosed  BY DEF Env
<1>6. /\ n \in Nat /\ deleted = [k \in 1 .. n |-> k] /\ ToSet(deleted) = 1 .. n
  BY DeletedInOrder DEF Walk
<1>7. ASSUME NEW M, UNCHANGED <<deleted, stage>>, Follows(Env, walk', n, W, M)
      PROVE  Walk'
  <2>1. Len(walk') <= MaxDepth  BY <1>2, <1>3, <1>7, FollowsFits
  <2>. QED  BY <1>1, <1>3, <1>7, <2>1 DEF Walk
<1>. HIDE DEF x
<1>8. CASE DistrBase
  <2>1. /\ This.pc = "base" /\ This.arg.baseType \in 1 .. Len(heap)
        /\ walk' = Append([walk EXCEPT ![Len(walk)].pc = "delete"],
                          Visit(heap[This.arg.baseType]))
        /\ UNCHANGED <<deleted, stage>>
    BY <1>2, <1>8 DEF DistrBase, In, Allocated
  <2>2. PointsTo(Env, W, x, x.arg.baseType) /\ x.arg = This.arg /\ x.start = Mark(n, 0)
    BY <1>4, <2>1, PointersAssumption DEF Whole, BaseOf, Visits, Where
  <2>3. PICK y \in W :
          /\ y.arg = heap[This.arg.baseType] /\ y.room = x.room - 1
          /\ y.start = Mark(n, 0)
          /\ End(y) = Mark(This.arg.baseType - 1, x.marks[0].wild)
    BY <1>5, <2>2 DEF PointsTo, Child
  <2> DEFINE f == [This EXCEPT !.pc = "delete"]
  <2>4. Visits(Env, W, x, f) /\ f.pc = "delete"
    BY <1>4, <2>1, <2>2 DEF Visits, WalkFields
  <2>5. End(y) = Where(f, x)  BY <2>2, <2>3, <2>4 DEF Where
  <2>6. walk' = Append([walk EXCEPT ![Len(walk)] = f], Visit(y.arg))
    BY <2>1, <2>3 DEF This
  <2>. HIDE DEF f
  <2>7. PICK M : Follows(Env, walk', n, W, M)
    BY <1>2, <1>3, <2>3, <2>4, <2>5, <2>6, FollowsInto DEF x
  <2>. QED  BY <1>7, <2>1, <2>7
<1>9. CASE DistrField
  <2>1. /\ This.pc = "fields" /\ This.next <= Len(This.arg.Fields)
        /\ walk' = Append([walk EXCEPT ![Len(walk)].next = @ + 1],
                          Visit(This.arg.Fields[This.next]))
        /\ UNCHANGED <<deleted, stage>>
    BY <1>9 DEF DistrField, In
  <2>2. x.arg = This.arg /\ This.next \in 1 .. Len(x.arg.Fields)
        /\ x.marks[This.next - 1] = Mark(n, 0)
    BY <1>4, <2>1 DEF Visits, Where
  <2>3. PICK y \in W :
          /\ y.arg = This.arg.Fields[This.next] /\ y.room = x.room - 1
          /\ y.start = Mark(n, 0) /\ End(y) = x.marks[This.next]
    BY <1>4, <2>2 DEF Whole, FieldOf, Child
  <2> DEFINE f == [This EXCEPT !.next = @ + 1]
  <2>4. Visits(Env, W, x, f) /\ f.pc = "fields" /\ f.next = This.next + 1
    BY <1>4, <2>1, <2>2 DEF Visits, WalkFields
  <2>5. End(y) = Where(f, x)
    <3>1. f.next - 1 = This.next  BY <2>2, <2>4
    <3>. QED  BY <2>3, <2>4, <3>1 DEF Where
  <2>6. walk' = Append([walk EXCEPT ![Len(walk)] = f], Visit(y.arg))
    BY <2>1, <2>3 DEF This
  <2>. HIDE DEF f
  <2>7. PICK M : Follows(Env, walk', n, W, M)
    BY <1>2, <1>3, <2>3, <2>4, <2>5, <2>6, FollowsInto DEF x
  <2>. QED  BY <1>7, <2>1, <2>7
<1>10. CASE NothingToDelete
  <2>1. /\ This.pc = "base" /\ This.arg.baseType = NULL
        /\ walk' = [walk EXCEPT ![Len(walk)].pc = "fields"]
        /\ UNCHANGED <<deleted, stage>>
    BY <1>10 DEF NothingToDelete, In
  <2>2. x.marks[0] = Mark(n, 0)
    BY <1>4, <1>5, <2>1, PointersAssumption
    DEF Whole, BaseOf, PointsTo, Visits, Where
  <2> DEFINE f == [This EXCEPT !.pc = "fields"]
  <2>3. Visits(Env, W, x, f) /\ f.pc = "fields" /\ f.next = 1
    BY <1>4, <2>1 DEF Visits, WalkFields
  <2>4. Where(f, x) = Mark(n, 0)  BY <2>2, <2>3 DEF Where
  <2>5. walk' = [walk EXCEPT ![Len(walk)] = f]  BY <2>1 DEF This
  <2>. HIDE DEF f
  <2>6. Follows(Env, walk', n, W, N)  BY <1>3, <2>3, <2>4, <2>5, FollowsOn DEF x
  <2>. QED  BY <1>7, <2>1, <2>6
<1>11. CASE DeleteBase
  <2>1. /\ This.pc = "delete" /\ deleted' = Append(deleted, This.arg.baseType)
        /\ walk' = [walk EXCEPT ![Len(walk)].pc = "fields"]
        /\ UNCHANGED stage
    BY <1>11 DEF DeleteBase, In
  <2>2. /\ PointsTo(Env, W, x, This.arg.baseType) /\ x.arg = This.arg
        /\ Mark(This.arg.baseType - 1, x.marks[0].wild) = Mark(n, 0)
        /\ x.marks[0] \in Marks
    BY <1>4, <2>1 DEF Visits, Where, Whole, Shape
  <2>3. This.arg.baseType - 1 = n /\ x.marks[0].wild = 0
        /\ This.arg.baseType \in 1 .. Len(heap) /\ x.marks[0].cell = This.arg.baseType
    BY <1>5, <2>2 DEF Mark, PointsTo
  <2>4. This.arg.baseType = n + 1  BY <1>2, <1>6, <2>3
  <2>5. x.marks[0] = Mark(n + 1, 0)  BY <2>2, <2>3, <2>4 DEF Marks, Mark
  <2>6. /\ Len(deleted') = n + 1 /\ deleted' = [k \in 1 .. n + 1 |-> k]
    BY <1>6, <2>1, <2>4, DeletedInOrder
  <2> DEFINE f == [This EXCEPT !.pc = "fields"]
  <2>7. Visits(Env, W, x, f) /\ f.pc = "fields" /\ f.next = 1
    BY <1>4, <2>1 DEF Visits, WalkFields
  <2>8. Where(f, x) = Mark(n + 1, 0)  BY <2>5, <2>7 DEF Where
  <2>9. walk' = [walk EXCEPT ![Len(walk)] = f]  BY <2>1 DEF This
  <2>. HIDE DEF f
  <2>10. Follows(Env, walk', n + 1, W, N)  BY <1>3, <2>7, <2>8, <2>9, FollowsOn DEF x
  <2>11. Len(walk') <= MaxDepth  BY <1>2, <1>3, <2>10, FollowsFits
  <2>. QED  BY <1>1, <1>3, <1>6, <2>1, <2>6, <2>10, <2>11 DEF Walk
<1>12. CASE DistrReturns
  <2>1. /\ This.pc = "fields" /\ This.next > Len(This.arg.Fields)
        /\ walk' = SubSeq(walk, 1, Len(walk) - 1) /\ UNCHANGED deleted
        /\ stage' = IF Len(walk) = 1 THEN "deleted" ELSE stage
    BY <1>12 DEF DistrReturns, In
  <2>2. End(x) = Mark(n, 0)
    <3>1. This.next - 1 = Len(x.arg.Fields)  BY <1>4, <2>1 DEF Visits
    <3>. QED  BY <1>4, <2>1, <3>1 DEF Where, End
  <2>3. Len(walk) \in Nat /\ Len(walk) > 0  BY <1>3, LengthNatural DEF Follows
  <2>4. CASE Len(walk) > 1
    <3>1. Follows(Env, walk', n, W, N)  BY <1>3, <2>1, <2>2, <2>4, FollowsBack DEF x
    <3>. QED  BY <1>7, <2>1, <2>4, <3>1
  <2>5. CASE Len(walk) = 1
    <3>1. Mark(n, 0) = Reached(Env)  BY <1>3, <2>2, <2>5 DEF Follows, x
    <3>2. n = Len(heap) /\ unclosed = 0  BY <1>5, <3>1 DEF Reached, Mark
    <3>3. Len(walk') = 0  BY <2>1, <2>5
    <3>. QED  BY <1>1, <1>2, <1>6, <2>1, <2>5, <3>2, <3>3 DEF Walk
  <2>6. Len(walk) > 1 \/ Len(walk) = 1
    <3>1. \A k \in Nat : k > 0 => k > 1 \/ k = 1  OBVIOUS
    <3>. QED  BY <2>3, <3>1
  <2>. QED  BY <2>4, <2>5, <2>6
<1>13. CASE BadAccess
  <2>1. /\ This.pc \in {"base", "delete"} /\ This.arg.baseType # NULL
        /\ ~Allocated(This.arg.baseType) /\ stage' = "undefined"
        /\ UNCHANGED <<walk, deleted>>
    BY <1>13 DEF BadAccess, In
  <2>2. x.arg = This.arg /\ BaseOf(Env, W, x)  BY <1>4 DEF Visits, Whole
  <2>3. CASE PointsTo(Env, W, x, x.arg.baseType)
    <3>1. /\ x.arg.baseType \in 1 .. Len(heap)
          /\ ~(x.arg.baseType <= n)
      <4>1. x.arg.baseType \in 1 .. Len(heap)  BY <1>5, <2>3 DEF PointsTo
      <4>2. CASE This.pc = "delete"
        <5>1. x.arg.baseType - 1 = n  BY <1>4, <4>2 DEF Where, Mark
        <5>. QED  BY <1>6, <4>1, <5>1
      <4>3. CASE This.pc = "base"
        <5>1. PICK y \in W : /\ y.start = Mark(n, 0)
                             /\ End(y) = Mark(x.arg.baseType - 1, x.marks[0].wild)
          BY <1>4, <2>3, <4>3 DEF PointsTo, Child, Where
        <5>2. Shape(Env, y)  BY <1>3, <5>1 DEF Closed, Whole
        <5>3. Len(y.arg.Fields) \in 0 .. Len(y.arg.Fields)
          BY <5>2, LengthNatural DEF Shape
        <5>4. Upto(y.start, End(y))  BY <5>2, <5>3 DEF Shape, End
        <5>5. n <= x.arg.baseType - 1  BY <5>1, <5>4 DEF Upto, Mark
        <5>. QED  BY <1>6, <4>1, <5>5
      <4>. QED  BY <2>1, <4>1, <4>2, <4>3
    <3>2. Allocated(x.arg.baseType)  BY <1>2, <1>6, <3>1 DEF Allocated
    <3>. QED  BY <2>1, <2>2, <3>2
  <2>4. CASE x.arg.baseType = WILD /\ x.marks[0] = Mark(x.start.cell, x.start.wild + 1)
    <3>1. x.start \in Marks /\ Upto(x.marks[0], Reached(Env))
      BY <1>4 DEF Whole, Shape
    <3>2. x.start.wild + 1 <= unclosed /\ x.start.wild \in Nat
      BY <1>5, <2>4, <3>1 DEF Upto, Reached, Mark, Marks
    <3>3. unclosed > 0  BY <1>2, <3>2
    <3>. QED  BY <1>1, <2>1, <3>3 DEF Walk
  <2>. QED  BY <2>1, <2>2, <2>3, <2>4 DEF BaseOf
<1>. QED  BY <1>8, <1>9, <1>10, <1>11, <1>12, <1>13 DEF Deleting

-----------------------------------------------------------------------------
(* typeInformation                                                         *)

PlaceIn(s, k) == [m \in 1 .. k - 1 |-> IF s[m].pc = "base" THEN 0 ELSE s[m].next]

\* What is in the Arg of a frame before typeInformation knows its base, and
\* after it.
Asked(e, x, pc) ==
  /\ x.marks[0] = x.start
  /\ pc = "open" => x.arg = FreshArg
  /\ pc = "row" => x.arg = [FreshArg EXCEPT !.typeName = x.name]
  /\ pc = "base" =>
       \/ x.arg = [FreshArg EXCEPT !.typeName = x.name,
                                   !.kind = RowIn(e.db, x.name).kind,
                                   !.baseTypeName = RowIn(e.db, x.name).base]
       \/ x.place \in e.failed /\ x.arg = [FreshArg EXCEPT !.typeName = x.name]

Answered(e, x, pc, next) ==
  /\ DOMAIN x.arg = ArgFields /\ x.arg.name = NONE /\ x.arg.order = NONE
  /\ x.arg.typeName = x.name
  /\ x.arg.baseType # WILD /\ (x.arg.baseType = NULL <=> x.arg.baseTypeName = NONE)
  /\ \/ /\ x.arg.kind = RowIn(e.db, x.name).kind
        /\ x.arg.baseTypeName = RowIn(e.db, x.name).base
     \/ x.place \in e.failed /\ x.arg.kind = NONE /\ x.arg.baseTypeName = NONE
  /\ pc \in {"members", "values"} => x.arg.Fields = << >>
  /\ pc \in {"members", "fields", "values"} => x.arg.defVal = << >>
  /\ pc = "fields" =>
       /\ x.arg.kind \in {"Struct", "Union"} /\ Len(x.arg.Fields) = next - 1
       /\ \A k \in 1 .. Len(x.arg.Fields) :
            /\ x.arg.Fields[k].name = FieldsIn(e.db, x.name)[k].name
            /\ x.arg.Fields[k].order = FieldsIn(e.db, x.name)[k].order
  /\ pc = "values" => x.arg.kind = "Alias"
  /\ pc = "close" => Right(e, x)

Held(e, W, x, f, k) ==
  /\ x.arg = f.type /\ x.name = f.name /\ x.room = MaxDepth + 1 - k
  /\ Shape(e, x)
  /\ IF f.pc \in {"open", "row", "base"} THEN Asked(e, x, f.pc)
     ELSE Whole(e, W, x) /\ Answered(e, x, f.pc, f.next)

\* The frames s are at the nodes N, which end where what was made ends; what has
\* been returned to them are the nodes W.
Reads(e, s, W, N) ==
  /\ Closed(e, W)
  /\ N[1].start = Mark(0, 0) /\ End(N[Len(s)]) = Reached(e)
  /\ \A k \in 1 .. Len(s) - 1 : N[k + 1].start = End(N[k])
  /\ \A k \in 1 .. Len(s) :
       N[k].place = PlaceIn(s, k) /\ Held(e, W, N[k], s[k], k)

\* A frame that waits is not disturbed.
LEMMA HeldStays ==
  ASSUME NEW e, NEW g, Grows(e, g), NEW W, NEW V, W \subseteq V,
         NEW x, NEW f, NEW k, Held(e, W, x, f, k)
  PROVE  Held(g, V, x, f, k)
<1>1. Shape(g, x)  BY ShapeStays DEF Held
<1>2. Asked(e, x, f.pc) => Asked(g, x, f.pc)  BY DEF Asked, Grows
<1>3. Answered(e, x, f.pc, f.next) => Answered(g, x, f.pc, f.next)
  <2>1. Right(e, x) => Right(g, x)  BY DEF Right, Grows
  <2>. QED  BY <2>1 DEF Answered, Grows
<1>4. Whole(e, W, x) => Whole(g, V, x)  BY WholeStays
<1>. QED  BY <1>1, <1>2, <1>3, <1>4 DEF Held

\* The place of a frame is given by the frames below it.
LEMMA PlacesAgree ==
  ASSUME NEW s, NEW t, NEW k \in Nat, \A m \in 1 .. k - 1 : t[m] = s[m]
  PROVE  PlaceIn(t, k) = PlaceIn(s, k)
BY DEF PlaceIn

LEMMA PlaceExtends ==
  ASSUME NEW s, NEW k \in Nat \ {0},
         \A m \in 1 .. k : s[m].next \in Nat
  PROVE  PlaceIn(s, k + 1) =
           Append(PlaceIn(s, k), IF s[k].pc = "base" THEN 0 ELSE s[k].next)
<1> DEFINE g == [m \in 1 .. k |-> IF s[m].pc = "base" THEN 0 ELSE s[m].next]
           p == [m \in 1 .. k - 1 |-> IF s[m].pc = "base" THEN 0 ELSE s[m].next]
<1>1. PlaceIn(s, k + 1) = g /\ PlaceIn(s, k) = p  BY DEF PlaceIn
<1>2. g \in [1 .. k -> Nat] /\ p \in [1 .. k - 1 -> Nat]  OBVIOUS
<1>3. g \in Seq(Nat) /\ p \in Seq(Nat) /\ Len(g) = k /\ Len(p) = k - 1
  BY <1>2
<1>4. g[k] = (IF s[k].pc = "base" THEN 0 ELSE s[k].next) /\ g[k] \in Nat
      /\ \A m \in 1 .. k - 1 : g[m] = p[m]
  BY <1>2
<1>. HIDE DEF g, p
<1>5. /\ Append(p, g[k]) \in Seq(Nat) /\ Len(Append(p, g[k])) = k
      /\ Append(p, g[k])[k] = g[k]
      /\ \A m \in 1 .. k - 1 : Append(p, g[k])[m] = p[m]
  BY <1>3, <1>4
<1>6. \A m \in 1 .. k : m \in 1 .. k - 1 \/ m = k  OBVIOUS
<1>7. \A m \in 1 .. k : Append(p, g[k])[m] = g[m]  BY <1>4, <1>5, <1>6
<1>8. Append(p, g[k]) = g  BY <1>3, <1>5, <1>7
<1>. QED  BY <1>1, <1>4, <1>8

\* The innermost frame goes on.
LEMMA ReadsOn ==
  ASSUME NEW e, NEW s, NEW W, NEW N, Reads(e, s, W, N), IsSeq(s), Len(s) > 0,
         NEW g, Grows(e, g), Reached(g) = Reached(e),
         NEW f, NEW x, x.place = N[Len(s)].place, x.start = N[Len(s)].start,
         End(x) = End(N[Len(s)]), Held(g, W, x, f, Len(s))
  PROVE  \E M : Reads(g, [s EXCEPT ![Len(s)] = f], W, M)
<1> DEFINE t == [s EXCEPT ![Len(s)] = f]
           M == [k \in 1 .. Len(s) |-> IF k = Len(s) THEN x ELSE N[k]]
<1>1. Len(s) \in Nat /\ Len(s) > 0  BY LengthNatural
<1>2. /\ Len(t) = Len(s) /\ t[Len(s)] = f
      /\ \A k \in 1 .. Len(s) - 1 : t[k] = s[k]
  <2>1. PICK S : s \in Seq(S)  BY DEF IsSeq
  <2>2. s \in Seq(S \cup {f})  BY <2>1
  <2>3. t \in Seq(S \cup {f})  BY <1>1, <2>2, ExceptSeq
  <2>. QED  BY <1>1, <2>2, <2>3
<1>. HIDE DEF t
<1>3. M[Len(s)] = x /\ \A k \in 1 .. Len(s) - 1 : M[k] = N[k]  BY <1>1
<1>. HIDE DEF M
<1>4. \A k \in 1 .. Len(s) : k \in 1 .. Len(s) - 1 \/ k = Len(s)  BY <1>1
<1>5. ASSUME NEW k \in 1 .. Len(s)
      PROVE  M[k].place = PlaceIn(t, k) /\ Held(g, W, M[k], t[k], k)
  <2>1. PlaceIn(t, k) = PlaceIn(s, k)
    <3>1. \A m \in 1 .. k - 1 : t[m] = s[m]  BY <1>1, <1>2
    <3>. QED  BY <3>1, PlacesAgree
  <2>2. N[k].place = PlaceIn(s, k) /\ Held(e, W, N[k], s[k], k)  BY DEF Reads
  <2>3. Held(g, W, N[k], s[k], k)  BY <2>2, HeldStays
  <2>. QED  BY <1>2, <1>3, <1>4, <2>1, <2>2, <2>3
<1>6. M[1].start = Mark(0, 0) /\ End(M[Len(s)]) = Reached(g)
  <2>1. M[1].start = N[1].start  BY <1>1, <1>3
  <2>. QED  BY <1>3, <2>1 DEF Reads
<1>7. ASSUME NEW k \in 1 .. Len(s) - 1 PROVE M[k + 1].start = End(M[k])
  <2>1. M[k + 1].start = N[k + 1].start  BY <1>1, <1>3
  <2>. QED  BY <1>3, <2>1 DEF Reads
<1>8. Closed(g, W)  BY ClosedStays DEF Reads
<1>9. Reads(g, t, W, M)  BY <1>2, <1>5, <1>6, <1>7, <1>8 DEF Reads
<1>. QED  BY <1>9 DEF t

\* A frame more, at the next place.
LEMMA ReadsCall ==
  ASSUME NEW e, NEW s, NEW W, NEW N, Reads(e, s, W, N), IsSeq(s), Len(s) > 0,
         Grows(e, e), NEW n, Len(s) < MaxDepth, MaxDepth \in Nat
  PROVE  \E M : Reads(e, Append(s, Frame(n)), W, M)
<1> DEFINE t == Append(s, Frame(n))
           x == Node(PlaceIn(s, Len(s) + 1), FreshArg, n, MaxDepth + 1 - (Len(s) + 1),
                     Reached(e), [k \in 0 .. 0 |-> Reached(e)])
           M == [k \in 1 .. Len(s) + 1 |-> IF k = Len(s) + 1 THEN x ELSE N[k]]
<1>1. Len(s) \in Nat /\ Len(s) > 0  BY LengthNatural
<1>2. /\ Len(t) = Len(s) + 1 /\ t[Len(s) + 1] = Frame(n)
      /\ \A k \in 1 .. Len(s) : t[k] = s[k]
  BY Pushed
<1>. HIDE DEF t
<1>3. M[Len(s) + 1] = x /\ \A k \in 1 .. Len(s) : M[k] = N[k]  BY <1>1
<1>4. /\ x.place = PlaceIn(s, Len(s) + 1) /\ x.arg = FreshArg /\ x.name = n
      /\ x.room = MaxDepth + 1 - (Len(s) + 1) /\ x.start = Reached(e)
      /\ x.marks = [k \in 0 .. 0 |-> Reached(e)]
  BY DEF Node
<1>. HIDE DEF M, x
<1>5. FreshArg.Fields = << >> /\ Len(<< >>) = 0 /\ IsSeq(<< >>)
  <2>1. << >> \in Seq({})  OBVIOUS
  <2>. QED  BY <2>1 DEF FreshArg, IsSeq
<1>6. Reached(e) \in Marks /\ Upto(Reached(e), Reached(e))
  BY DEF Reached, Mark, Marks, Grows, Upto
<1>7. Held(e, W, x, Frame(n), Len(s) + 1) /\ End(x) = Reached(e)
  <2>1. 0 .. 0 = {0} /\ x.marks[0] = Reached(e) /\ x.marks \in [0 .. 0 -> Marks]
    BY <1>4, <1>6
  <2>2. x.room \in Nat \ {0}  BY <1>1, <1>4
  <2>3. Shape(e, x)  BY <1>4, <1>5, <1>6, <2>1, <2>2 DEF Shape
  <2>4. Frame(n).pc = "open" /\ Frame(n).type = FreshArg /\ Frame(n).name = n
    BY DEF Frame
  <2>. QED  BY <1>4, <1>5, <2>1, <2>3, <2>4 DEF Held, Asked, End
<1>8. \A k \in 1 .. Len(s) + 1 : k \in 1 .. Len(s) \/ k = Len(s) + 1  BY <1>1
<1>9. ASSUME NEW k \in 1 .. Len(s) + 1
      PROVE  M[k].place = PlaceIn(t, k) /\ Held(e, W, M[k], t[k], k)
  <2>1. PlaceIn(t, k) = PlaceIn(s, k)
    <3>1. \A m \in 1 .. k - 1 : t[m] = s[m]  BY <1>1, <1>2
    <3>. QED  BY <3>1, PlacesAgree
  <2>2. CASE k = Len(s) + 1  BY <1>2, <1>3, <1>4, <1>7, <2>1, <2>2
  <2>3. CASE k \in 1 .. Len(s)
    BY <1>2, <1>3, <2>1, <2>3 DEF Reads
  <2>. QED  BY <1>8, <2>2, <2>3
<1>10. M[1].start = Mark(0, 0) /\ End(M[Len(s) + 1]) = Reached(e)
  <2>1. M[1] = N[1]  BY <1>1, <1>3
  <2>. QED  BY <1>3, <1>7, <2>1 DEF Reads
<1>11. ASSUME NEW k \in 1 .. Len(s) PROVE M[k + 1].start = End(M[k])
  <2>1. CASE k = Len(s)  BY <1>1, <1>3, <1>4, <2>1 DEF Reads
  <2>2. CASE k # Len(s)
    <3>1. k \in 1 .. Len(s) - 1 /\ k + 1 \in 1 .. Len(s)  BY <1>1, <2>2
    <3>. QED  BY <1>3, <3>1 DEF Reads
  <2>. QED  BY <2>1, <2>2
<1>12. Len(t) - 1 = Len(s)  BY <1>1, <1>2
<1>13. Closed(e, W)  BY DEF Reads
<1>14. Reads(e, t, W, M)  BY <1>2, <1>9, <1>10, <1>11, <1>12, <1>13 DEF Reads
<1>. QED  BY <1>14 DEF t

\* The frame below continues with what was returned.
LEMMA ReadsReturn ==
  ASSUME NEW e, NEW s, NEW W, NEW N, Reads(e, s, W, N), IsSeq(s), Len(s) > 1,
         NEW g, Grows(e, g), NEW V, W \subseteq V, Closed(g, V),
         NEW f, NEW z, z.place = N[Len(s) - 1].place,
         z.start = N[Len(s) - 1].start, End(z) = Reached(g),
         Held(g, V, z, f, Len(s) - 1)
  PROVE  \E M : Reads(g, Append(SubSeq(s, 1, Len(s) - 2), f), V, M)
<1> DEFINE t == Append(SubSeq(s, 1, Len(s) - 2), f)
           n == Len(s) - 1
           M == [k \in 1 .. n |-> IF k = n THEN z ELSE N[k]]
<1>1. Len(s) \in Nat /\ n \in Nat /\ n > 0  BY LengthNatural
<1>2. Len(t) = n /\ t[n] = f /\ \A k \in 1 .. n - 1 : t[k] = s[k]
  <2>1. /\ Len(t) = Len(s) - 1 /\ t[Len(t)] = f
        /\ \A k \in 1 .. Len(s) - 2 : t[k] = s[k]
    BY Resumed
  <2>2. n - 1 = Len(s) - 2  BY <1>1
  <2>. QED  BY <2>1, <2>2
<1>3. M[n] = z /\ \A k \in 1 .. n - 1 : M[k] = N[k]  BY <1>1
<1>4. \A k \in 1 .. n : k \in 1 .. Len(s) /\ (k \in 1 .. n - 1 \/ k = n)  BY <1>1
<1>. HIDE DEF t, M
<1>5. ASSUME NEW k \in 1 .. n
      PROVE  M[k].place = PlaceIn(t, k) /\ Held(g, V, M[k], t[k], k)
  <2>1. PlaceIn(t, k) = PlaceIn(s, k)
    <3>1. \A m \in 1 .. k - 1 : t[m] = s[m]  BY <1>1, <1>2
    <3>. QED  BY <3>1, PlacesAgree
  <2>2. N[k].place = PlaceIn(s, k) /\ Held(e, W, N[k], s[k], k)  BY <1>4 DEF Reads
  <2>3. Held(g, V, N[k], s[k], k)  BY <2>2, HeldStays
  <2>4. CASE k = n  BY <1>2, <1>3, <2>1, <2>2, <2>4
  <2>5. CASE k \in 1 .. n - 1  BY <1>2, <1>3, <2>1, <2>2, <2>3, <2>5
  <2>. QED  BY <1>4, <2>4, <2>5
<1>6. M[1].start = Mark(0, 0) /\ End(M[n]) = Reached(g)
  <2>1. M[1].start = N[1].start  BY <1>1, <1>3
  <2>. QED  BY <1>3, <2>1 DEF Reads
<1>7. ASSUME NEW k \in 1 .. n - 1 PROVE M[k + 1].start = End(M[k])
  <2>1. M[k + 1].start = N[k + 1].start  BY <1>1, <1>3
  <2>2. k \in 1 .. Len(s) - 1  BY <1>1
  <2>. QED  BY <1>3, <2>1, <2>2 DEF Reads
<1>. HIDE DEF n
<1>8. Reads(g, t, V, M)  BY <1>2, <1>5, <1>6, <1>7 DEF Reads
<1>. QED  BY <1>8 DEF t

\* x is what the innermost frame returns.
Yields(e, s, W, N, g, x) ==
  /\ x.place = N[Len(s)].place /\ x.name = s[Len(s)].name
  /\ x.room = MaxDepth + 1 - Len(s) /\ x.start = N[Len(s)].start
  /\ Right(g, x) /\ Whole(g, W, x) /\ End(x) = Mark(Len(e.heap), g.wild)

\* The outermost frame returns.
LEMMA ReadsEnd ==
  ASSUME NEW e, NEW s, NEW W, NEW N, Reads(e, s, W, N), Len(s) = 1,
         NEW g, Grows(e, g), Len(g.heap) = Len(e.heap),
         NEW x, Yields(e, s, W, N, g, x), MaxDepth \in Nat
  PROVE  Found(g, x.arg, s[1].name)
<1>1. Closed(g, W)  BY ClosedStays DEF Reads
<1>2. Closed(g, W \cup {x})  BY <1>1, ClosedWith DEF Yields, Grows
<1>3. x.place = << >>
  <2>1. x.place = PlaceIn(s, 1)  BY DEF Reads, Yields
  <2>2. 1 .. 1 - 1 = {}  OBVIOUS
  <2>. QED  BY <2>1, <2>2 DEF PlaceIn
<1>4. IsRoot(g, x, x.arg, s[1].name)
  BY <1>3 DEF Reads, Yields, IsRoot, Reached
<1>. QED  BY <1>2, <1>4 DEF Found

\* What is known of an Arg before its base is.
LEMMA AskedArg ==
  ASSUME NEW e, NEW x, Asked(e, x, "base")
  PROVE  /\ x.marks[0] = x.start
         /\ x.arg.Fields = << >> /\ x.arg.defVal = << >> /\ x.arg.name = NONE
         /\ x.arg.order = NONE /\ x.arg.typeName = x.name
         /\ \/ /\ x.arg.kind = RowIn(e.db, x.name).kind
               /\ x.arg.baseTypeName = RowIn(e.db, x.name).base
            \/ x.place \in e.failed /\ x.arg.kind = NONE /\ x.arg.baseTypeName = NONE
<1>1. CASE x.arg = [FreshArg EXCEPT !.typeName = x.name,
                                    !.kind = RowIn(e.db, x.name).kind,
                                    !.baseTypeName = RowIn(e.db, x.name).base]
  BY <1>1 DEF Asked, FreshArg
<1>2. CASE x.place \in e.failed /\ x.arg = [FreshArg EXCEPT !.typeName = x.name]
  BY <1>2 DEF Asked, FreshArg
<1>. QED  BY <1>1, <1>2 DEF Asked

LEMMA UptoTransitive ==
  ASSUME NEW m, NEW n \in Marks, NEW o, Upto(m, n), Upto(n, o),
         m \in Marks, o \in Marks
  PROVE  Upto(m, o)
BY DEF Upto, Marks

\* The frame below makes the object that its base is.
LEMMA ReadsBase ==
  ASSUME NEW e, NEW s, NEW W, NEW N, Reads(e, s, W, N), IsSeq(s), Len(s) > 1,
         MaxDepth \in Nat,
         IsFrame(s[Len(s) - 1]), s[Len(s) - 1].pc = "base",
         s[Len(s) - 1].type.baseTypeName = s[Len(s)].name,
         s[Len(s)].name # NONE, s[Len(s) - 1].next \in Nat,
         \A m \in 1 .. Len(s) : s[m].next \in Nat,
         NEW g, Grows(e, g), NEW x, Yields(e, s, W, N, g, x),
         IsSeq(e.heap), g.heap = Append(e.heap, x.arg)
  PROVE  \E V, M :
           Reads(g, Append(SubSeq(s, 1, Len(s) - 2),
                           [s[Len(s) - 1] EXCEPT !.pc = "members",
                                                 !.type.baseType = Len(g.heap)]),
                 V, M)
<1> DEFINE n == Len(s) - 1
           c == s[n]
           y == N[n]
           p == Len(g.heap)
           f == [c EXCEPT !.pc = "members", !.type.baseType = p]
           z == Node(y.place, f.type, y.name, y.room, y.start,
                     [k \in 0 .. 0 |-> Mark(p, g.wild)])
           V == W \cup {x}
<1>1. Len(s) \in Nat /\ n \in Nat /\ n > 0 /\ n \in 1 .. Len(s) /\ n + 1 = Len(s)
      /\ n \in 1 .. Len(s) - 1
  BY LengthNatural
<1>2. p = Len(e.heap) + 1 /\ p \in Nat /\ g.heap[p] = x.arg
      /\ p # NULL /\ p # WILD /\ Len(e.heap) \in Nat
  BY Pushed, PointersAssumption DEF Grows
<1>3. Closed(g, V)
  <2>1. Closed(g, W)  BY ClosedStays DEF Reads
  <2>. QED  BY <2>1, ClosedWith DEF Yields, Grows
<1>4. /\ y.place = PlaceIn(s, n) /\ y.arg = c.type /\ y.name = c.name
      /\ y.room = MaxDepth + 1 - n /\ Shape(g, y)
      /\ Asked(g, y, "base") /\ N[n + 1].start = End(y)
  <2>1. Held(e, W, y, c, n) /\ y.place = PlaceIn(s, n)  BY <1>1 DEF Reads
  <2>2. Held(g, W, y, c, n)  BY <2>1, HeldStays
  <2>3. N[n + 1].start = End(y)  BY <1>1 DEF Reads
  <2>. QED  BY <2>1, <2>2, <2>3 DEF Held
<1>5. c.type.Fields = << >> /\ c.type.defVal = << >> /\ Len(<< >>) = 0
      /\ c.type.name = NONE /\ c.type.order = NONE /\ c.type.typeName = y.name
  BY <1>4, AskedArg
<1>6. /\ DOMAIN f = FrameFields /\ f.pc = "members" /\ f.name = c.name
      /\ f.next = c.next /\ f.type = [c.type EXCEPT !.baseType = p]
  BY DEF IsFrame, FrameFields
<1>7. /\ DOMAIN f.type = ArgFields /\ f.type.baseType = p
      /\ f.type.Fields = << >> /\ f.type.defVal = << >>
      /\ f.type.name = NONE /\ f.type.order = NONE /\ f.type.typeName = y.name
      /\ f.type.kind = c.type.kind /\ f.type.baseTypeName = s[Len(s)].name
      /\ f.type.baseTypeName = c.type.baseTypeName
  BY <1>5, <1>6 DEF IsFrame, ArgFields
<1>8. /\ z.place = y.place /\ z.arg = f.type /\ z.name = y.name /\ z.room = y.room
      /\ z.start = y.start /\ z.marks = [k \in 0 .. 0 |-> Mark(p, g.wild)]
  BY DEF Node
<1>. HIDE DEF z, f, c
<1>9. z.marks[0] = Mark(p, g.wild) /\ 0 .. 0 = {0}  BY <1>8
<1>10. End(y) = y.start /\ y.start \in Marks
  BY <1>4, <1>5 DEF Asked, End, Shape
<1>11. Mark(p, g.wild) \in Marks /\ Mark(p, g.wild) = Reached(g)
       /\ Upto(Reached(g), Reached(g)) /\ Upto(y.start, Reached(g))
  <2>1. Upto(y.start, y.marks[0]) /\ Upto(y.marks[0], Reached(g))
    BY <1>4, <1>5 DEF Shape
  <2>2. y.marks[0] = y.start  BY <1>4 DEF Asked
  <2>. QED  BY <1>2, <2>1, <2>2 DEF Mark, Marks, Reached, Grows, Upto
<1>12. Shape(g, z)
  <2>1. z.marks \in [0 .. 0 -> Marks]  BY <1>8, <1>11
  <2>2. IsSeq(<< >>)
    <3>1. << >> \in Seq({})  OBVIOUS
    <3>. QED  BY <3>1 DEF IsSeq
  <2>. QED  BY <1>4, <1>5, <1>7, <1>8, <1>9, <1>11, <2>1, <2>2 DEF Shape
<1>13. PointsTo(g, V, z, z.arg.baseType)
  <2>1. x.place = Append(z.place, 0)
    <3>1. x.place = PlaceIn(s, n + 1)  BY <1>1 DEF Yields, Reads
    <3>2. \A m \in 1 .. n : s[m].next \in Nat  BY <1>1
    <3>3. PlaceIn(s, n + 1) = Append(PlaceIn(s, n), 0)
      BY <1>1, <3>2, PlaceExtends
    <3>. QED  BY <1>4, <1>8, <3>1, <3>3
  <2>2. x.name = z.arg.baseTypeName /\ x.room = z.room - 1 /\ x.start = z.start
    BY <1>1, <1>4, <1>7, <1>8, <1>10 DEF Yields
  <2>3. End(x) = Mark(p - 1, z.marks[0].wild)
    BY <1>2, <1>9 DEF Yields, Mark
  <2>4. z.arg.baseType = p /\ p \in 1 .. Len(g.heap) /\ z.marks[0].cell = p
    BY <1>2, <1>7, <1>8, <1>9 DEF Mark
  <2>5. x \in V  OBVIOUS
  <2>. QED  BY <1>2, <2>1, <2>2, <2>3, <2>4, <2>5 DEF PointsTo, Child
<1>14. Whole(g, V, z)
  BY <1>5, <1>7, <1>8, <1>12, <1>13 DEF Whole, BaseOf
<1>15. Answered(g, z, "members", f.next)
  <2>1. \/ /\ c.type.kind = RowIn(g.db, y.name).kind
           /\ c.type.baseTypeName = RowIn(g.db, y.name).base
        \/ y.place \in g.failed /\ c.type.kind = NONE /\ c.type.baseTypeName = NONE
    BY <1>4, AskedArg
  <2>. QED  BY <1>2, <1>7, <1>8, <2>1 DEF Answered
<1>16. Held(g, V, z, f, n)
  BY <1>4, <1>6, <1>8, <1>12, <1>14, <1>15 DEF Held
<1>17. End(z) = Reached(g)  BY <1>5, <1>7, <1>8, <1>9, <1>11 DEF End
<1>18. PICK M : Reads(g, Append(SubSeq(s, 1, Len(s) - 2), f), V, M)
  <2>1. W \subseteq V  OBVIOUS
  <2>. HIDE DEF V
  <2>. QED  BY <1>3, <1>8, <1>16, <1>17, <2>1, ReadsReturn
<1>. QED  BY <1>18 DEF f, c

\* The frame below takes it for the next of its fields, with the name and the
\* order of the row.
LEMMA ReadsField ==
  ASSUME NEW e, NEW s, NEW W, NEW N, Reads(e, s, W, N), IsSeq(s), Len(s) > 1,
         MaxDepth \in Nat,
         IsFrame(s[Len(s) - 1]), s[Len(s) - 1].pc = "fields",
         \A m \in 1 .. Len(s) : s[m].next \in Nat,
         NEW row, row = FieldsIn(e.db, s[Len(s) - 1].name)[s[Len(s) - 1].next],
         s[Len(s) - 1].next <= Len(FieldsIn(e.db, s[Len(s) - 1].name)),
         s[Len(s)].name = row.type,
         NEW g, Grows(e, g), NEW x, Yields(e, s, W, N, g, x), g.heap = e.heap,
         DOMAIN x.arg = ArgFields
  PROVE  \E V, M :
           Reads(g, Append(SubSeq(s, 1, Len(s) - 2),
                           [s[Len(s) - 1] EXCEPT
                              !.next = @ + 1,
                              !.type.Fields =
                                Append(@, [x.arg EXCEPT !.name = row.name,
                                                        !.order = row.order])]),
                 V, M)
<1> DEFINE n == Len(s) - 1
           c == s[n]
           y == N[n]
           arg == [x.arg EXCEPT !.name = row.name, !.order = row.order]
           f == [c EXCEPT !.next = @ + 1, !.type.Fields = Append(@, arg)]
           l == Len(c.type.Fields)
           marks == [k \in 0 .. l + 1 |-> IF k = l + 1 THEN Reached(g) ELSE y.marks[k]]
           z == Node(y.place, f.type, y.name, y.room, y.start, marks)
           w == Node(x.place, arg, x.name, x.room, x.start, x.marks)
           V == W \cup {w}
<1>1. Len(s) \in Nat /\ n \in Nat /\ n > 0 /\ n \in 1 .. Len(s) /\ n + 1 = Len(s)
      /\ n \in 1 .. Len(s) - 1
  BY LengthNatural
<1>2. /\ arg.typeName = x.arg.typeName /\ arg.kind = x.arg.kind
      /\ arg.baseTypeName = x.arg.baseTypeName /\ arg.baseType = x.arg.baseType
      /\ arg.Fields = x.arg.Fields /\ arg.defVal = x.arg.defVal
      /\ arg.name = row.name /\ arg.order = row.order
      /\ Bare(arg) = Bare(x.arg)
  BY DEF ArgFields, Bare
<1>3. /\ w.place = x.place /\ w.arg = arg /\ w.name = x.name /\ w.room = x.room
      /\ w.start = x.start /\ w.marks = x.marks
  BY DEF Node
<1>. HIDE DEF arg, w
<1>4. Right(g, w)
  BY <1>2, <1>3
  DEF Yields, Right, DescribesIn, CompleteIn, Unopened, Unread, NamesIn, RowsIn
<1>5. Whole(g, W, w) /\ End(w) = Reached(g)
  <2>1. Whole(g, W, x) /\ End(x) = Reached(g)  BY DEF Yields, Reached
  <2>2. Shape(g, w)  BY <1>2, <1>3, <2>1 DEF Whole, Shape
  <2>3. BaseOf(g, W, w)
    BY <1>2, <1>3, <2>1 DEF Whole, BaseOf, PointsTo, Child
  <2>4. ASSUME NEW k \in 1 .. Len(x.arg.Fields) PROVE FieldOf(g, W, w, k)
    <3>1. FieldOf(g, W, x, k)  BY <2>1 DEF Whole
    <3>. QED  BY <1>2, <1>3, <3>1 DEF FieldOf, Child
  <2>5. End(w) = End(x)  BY <1>2, <1>3 DEF End
  <2>. QED  BY <1>2, <1>3, <2>1, <2>2, <2>3, <2>4, <2>5 DEF Whole
<1>6. Closed(g, V)
  <2>1. Closed(g, W)  BY ClosedStays DEF Reads
  <2>. QED  BY <1>4, <1>5, <2>1, ClosedWith DEF Grows
<1>7. /\ y.place = PlaceIn(s, n) /\ y.arg = c.type /\ y.name = c.name
      /\ y.room = MaxDepth + 1 - n /\ Whole(g, V, y)
      /\ Answered(g, y, "fields", c.next) /\ N[n + 1].start = End(y)
  <2>1. Held(e, W, y, c, n) /\ y.place = PlaceIn(s, n)  BY <1>1 DEF Reads
  <2>2. Held(g, V, y, c, n)  BY <2>1, HeldStays
  <2>3. N[n + 1].start = End(y)  BY <1>1 DEF Reads
  <2>. HIDE DEF V, c, y, n
  <2>4. c.pc = "fields"  BY DEF c, n
  <2>. QED  BY <2>1, <2>2, <2>3, <2>4 DEF Held
<1>8. /\ IsSeq(c.type.Fields) /\ l \in Nat /\ c.next = l + 1 /\ l + 1 \in Nat
  <2>1. IsSeq(c.type.Fields)  BY <1>7 DEF Whole, Shape
  <2>2. l = c.next - 1  BY <1>7 DEF Answered
  <2>3. c.next \in Nat  BY <1>1
  <2>. QED  BY <2>1, <2>2, <2>3, LengthNatural
<1>9. /\ DOMAIN f = FrameFields /\ f.pc = "fields" /\ f.name = c.name
      /\ f.next = c.next + 1
      /\ f.type = [c.type EXCEPT !.Fields = Append(@, arg)]
  BY DEF IsFrame, FrameFields
<1>10. /\ DOMAIN f.type = ArgFields /\ f.type.Fields = Append(c.type.Fields, arg)
       /\ f.type.baseType = c.type.baseType /\ f.type.defVal = c.type.defVal
       /\ f.type.name = c.type.name /\ f.type.order = c.type.order
       /\ f.type.typeName = c.type.typeName /\ f.type.kind = c.type.kind
       /\ f.type.baseTypeName = c.type.baseTypeName
  <2>. HIDE DEF f
  <2>. QED  BY <1>9 DEF IsFrame, ArgFields
<1>11. /\ z.place = y.place /\ z.arg = f.type /\ z.name = y.name /\ z.room = y.room
       /\ z.start = y.start /\ z.marks = marks
  BY DEF Node
<1>12. /\ IsSeq(f.type.Fields) /\ Len(f.type.Fields) = l + 1
       /\ f.type.Fields[l + 1] = arg
       /\ \A k \in 1 .. l : f.type.Fields[k] = c.type.Fields[k]
  <2> DEFINE u == c.type.Fields
  <2>1. IsSeq(u) /\ Len(u) = l /\ f.type.Fields = Append(u, arg)  BY <1>8, <1>10
  <2>. HIDE DEF u, f, l
  <2>2. /\ IsSeq(Append(u, arg)) /\ Len(Append(u, arg)) = Len(u) + 1
        /\ Append(u, arg)[Len(Append(u, arg))] = arg
        /\ \A k \in 1 .. Len(u) : Append(u, arg)[k] = u[k]
    BY <2>1, Pushed
  <2>3. /\ IsSeq(f.type.Fields) /\ Len(f.type.Fields) = l + 1
        /\ f.type.Fields[l + 1] = arg
        /\ \A k \in 1 .. l : f.type.Fields[k] = u[k]
    BY <2>1, <2>2
  <2>. QED  BY <2>3 DEF u
<1>13. marks[l + 1] = Reached(g) /\ \A k \in 0 .. l : marks[k] = y.marks[k]
  BY <1>8
<1>14. \A k \in 0 .. l + 1 : k \in 0 .. l \/ k = l + 1  BY <1>8
<1>15. /\ IsSeq(y.arg.Fields) /\ y.room \in Nat \ {0} /\ y.start \in Marks
       /\ y.marks \in [0 .. l -> Marks]
       /\ \A k \in 0 .. l : Upto(y.start, y.marks[k]) /\ Upto(y.marks[k], Reached(g))
  BY <1>7 DEF Whole, Shape
<1>16. Reached(g) \in Marks /\ Upto(Reached(g), Reached(g)) /\ Upto(y.start, Reached(g))
  <2>1. 0 \in 0 .. l  BY <1>8
  <2>2. Upto(y.start, y.marks[0]) /\ Upto(y.marks[0], Reached(g)) /\ y.marks[0] \in Marks
    BY <1>15, <2>1
  <2>3. Reached(g) \in Marks /\ Upto(Reached(g), Reached(g))
    BY DEF Reached, Mark, Marks, Grows, Upto
  <2>. QED  BY <1>15, <2>2, <2>3, UptoTransitive
<1>17. marks \in [0 .. l + 1 -> Marks]  BY <1>13, <1>14, <1>15, <1>16
<1>. HIDE DEF marks, z, f, l
<1>18. Shape(g, z)
  <2>1. \A k \in 0 .. l + 1 : Upto(y.start, marks[k]) /\ Upto(marks[k], Reached(g))
    BY <1>13, <1>14, <1>15, <1>16
  <2>. QED  BY <1>11, <1>12, <1>15, <1>17, <2>1 DEF Shape
<1>19. BaseOf(g, V, z)
  <2>1. 0 \in 0 .. l  BY <1>8
  <2>2. BaseOf(g, V, y)  BY <1>7 DEF Whole
  <2>3. z.marks[0] = y.marks[0]  BY <1>11, <1>13, <2>1
  <2>4. z.arg.baseType = y.arg.baseType /\ z.arg.baseTypeName = y.arg.baseTypeName
    BY <1>7, <1>10, <1>11
  <2>. HIDE DEF y, V
  <2>. QED  BY <1>11, <2>2, <2>3, <2>4 DEF BaseOf, PointsTo, Child
<1>20. FieldOf(g, V, z, l + 1)
  <2>1. x.place = Append(z.place, l + 1)
    <3>1. x.place = PlaceIn(s, n + 1)  BY <1>1 DEF Yields, Reads
    <3>2. \A m \in 1 .. n : s[m].next \in Nat  BY <1>1
    <3>3. PlaceIn(s, n + 1) = Append(PlaceIn(s, n), c.next)
      <4>1. c.pc # "base" /\ n \in Nat \ {0}  BY <1>1
      <4>. HIDE DEF n
      <4>. QED  BY <3>2, <4>1, PlaceExtends
    <3>. QED  BY <1>7, <1>8, <1>11, <3>1, <3>3
  <2>2. row = FieldsIn(g.db, z.name)[l + 1] /\ l + 1 <= Len(FieldsIn(g.db, z.name))
    BY <1>1, <1>7, <1>8, <1>11 DEF Grows
  <2>3. x.name = row.type /\ x.room = z.room - 1
    BY <1>1, <1>7, <1>11 DEF Yields
  <2>4. x.start = z.marks[(l + 1) - 1]
    <3>1. (l + 1) - 1 = l /\ l \in 0 .. l  BY <1>8
    <3>2. x.start = y.marks[l]  BY <1>1, <1>7 DEF Yields, End, l
    <3>. QED  BY <1>11, <1>13, <3>1, <3>2
  <2>5. w \in V /\ z.arg.Fields[l + 1] = arg /\ End(w) = z.marks[l + 1]
    BY <1>5, <1>11, <1>12, <1>13
  <2>. QED  BY <1>3, <2>1, <2>2, <2>3, <2>4, <2>5 DEF FieldOf, Child
<1>21. Whole(g, V, z)
  <2>1. ASSUME NEW k \in 1 .. l PROVE FieldOf(g, V, z, k)
    <3>1. FieldOf(g, V, y, k)  BY <1>7 DEF Whole, l
    <3>2. k \in 0 .. l /\ k - 1 \in 0 .. l  BY <1>8
    <3>3. z.arg.Fields[k] = y.arg.Fields[k] /\ z.marks[k] = y.marks[k]
          /\ z.marks[k - 1] = y.marks[k - 1]
      BY <1>7, <1>11, <1>12, <1>13, <3>2
    <3>. HIDE DEF y, V
    <3>. QED  BY <1>11, <3>1, <3>3 DEF FieldOf, Child
  <2>2. \A k \in 1 .. l + 1 : k \in 1 .. l \/ k = l + 1  BY <1>8
  <2>. QED  BY <1>11, <1>12, <1>18, <1>19, <1>20, <2>1, <2>2 DEF Whole
<1>22. Answered(g, z, "fields", f.next)
  <2>1. row = FieldsIn(g.db, z.name)[l + 1]
    BY <1>1, <1>7, <1>8, <1>11 DEF Grows
  <2>2. \A k \in 1 .. l + 1 : k \in 1 .. l \/ k = l + 1  BY <1>8
  <2>3. ASSUME NEW k \in 1 .. l + 1
        PROVE  /\ z.arg.Fields[k].name = FieldsIn(g.db, z.name)[k].name
               /\ z.arg.Fields[k].order = FieldsIn(g.db, z.name)[k].order
    <3>1. CASE k = l + 1  BY <1>2, <1>11, <1>12, <2>1, <3>1
    <3>2. CASE k \in 1 .. l
      <4>1. k \in 1 .. Len(y.arg.Fields)  BY <1>7, <3>2 DEF l
      <4>2. /\ y.arg.Fields[k].name = FieldsIn(g.db, y.name)[k].name
            /\ y.arg.Fields[k].order = FieldsIn(g.db, y.name)[k].order
        <5>. HIDE DEF y, c
        <5>. QED  BY <1>7, <4>1 DEF Answered
      <4>3. z.arg.Fields[k] = y.arg.Fields[k] /\ z.name = y.name
        BY <1>7, <1>11, <1>12, <3>2
      <4>. QED  BY <4>2, <4>3
    <3>. QED  BY <2>2, <3>1, <3>2
  <2>4. l + 1 = f.next - 1  BY <1>8, <1>9
  <2>5. /\ DOMAIN z.arg = ArgFields /\ Len(z.arg.Fields) = l + 1
        /\ z.arg.baseType = y.arg.baseType /\ z.arg.defVal = y.arg.defVal
        /\ z.arg.name = y.arg.name /\ z.arg.order = y.arg.order
        /\ z.arg.typeName = y.arg.typeName /\ z.arg.kind = y.arg.kind
        /\ z.arg.baseTypeName = y.arg.baseTypeName
        /\ z.name = y.name /\ z.place = y.place
    BY <1>7, <1>10, <1>11, <1>12
  <2>. HIDE DEF y, c
  <2>. QED  BY <1>7, <2>3, <2>4, <2>5 DEF Answered
<1>23. Held(g, V, z, f, n)
  BY <1>7, <1>9, <1>11, <1>18, <1>21, <1>22 DEF Held
<1>24. End(z) = Reached(g)  BY <1>11, <1>12, <1>13 DEF End
<1>25. PICK M : Reads(g, Append(SubSeq(s, 1, Len(s) - 2), f), V, M)
  <2>1. W \subseteq V  OBVIOUS
  <2>. HIDE DEF V
  <2>. QED  BY <1>6, <1>11, <1>23, <1>24, <2>1, ReadsReturn
<1>. QED  BY <1>25 DEF f, c, arg

-----------------------------------------------------------------------------
(* What is in an Arg when it is returned                                   *)

LEMMA PrefixOf ==
  ASSUME NEW S, NEW s \in Seq(S), NEW t \in Seq(S), Len(s) <= Len(t),
         \A k \in 1 .. Len(s) : s[k] = t[k]
  PROVE  IsPrefix(s, t)
<1> DEFINE m == Len(s)
           u == SubSeq(s, 1, m)
           v == SubSeq(t, 1, m)
<1>1. m \in Nat /\ 1 \in Int /\ m \in Int /\ \A k \in 1 .. m : s[k] \in S /\ t[k] \in S
  OBVIOUS
<1>2. /\ u \in Seq(S) /\ Len(u) = IF 1 <= m THEN m - 1 + 1 ELSE 0
      /\ \A k \in 1 .. m - 1 + 1 : u[k] = s[1 + k - 1]
  BY <1>1, SubSeqProperties
<1>3. /\ v \in Seq(S) /\ Len(v) = IF 1 <= m THEN m - 1 + 1 ELSE 0
      /\ \A k \in 1 .. m - 1 + 1 : v[k] = t[1 + k - 1]
  BY <1>1, SubSeqProperties
<1>. HIDE DEF u, v
<1>4. Len(u) = m /\ Len(v) = m /\ \A k \in 1 .. m : u[k] = s[k] /\ v[k] = t[k]
  <2>. HIDE DEF m
  <2>. QED  BY <1>1, <1>2, <1>3
<1>5. u = v
  <2>1. \A k \in 1 .. m : u[k] = v[k]  BY <1>4
  <2>. QED  BY <1>2, <1>3, <1>4, <2>1
<1>. QED  BY <1>5 DEF IsPrefix, u, v

LEMMA PrefixOfNothing == IsPrefix(<< >>, << >>) /\ Len(<< >>) = 0
BY DEF IsPrefix

LEMMA PrefixOfHeads ==
  ASSUME NEW s, IsSeq(s), NEW t, IsSeq(t), Len(s) <= Len(t),
         \A k \in 1 .. Len(s) : s[k].name = t[k].name /\ s[k].order = t[k].order
  PROVE  IsPrefix(Heads(s), Heads(t))
<1> DEFINE S == {Heads(s)[k] : k \in DOMAIN s} \cup {Heads(t)[k] : k \in DOMAIN t}
<1>1. /\ Len(s) \in Nat /\ DOMAIN s = 1 .. Len(s)
      /\ Len(t) \in Nat /\ DOMAIN t = 1 .. Len(t)
  BY DEF IsSeq
<1>2. Heads(s) \in [1 .. Len(s) -> S] /\ Heads(t) \in [1 .. Len(t) -> S]
  BY <1>1 DEF Heads
<1>3. \A k \in 1 .. Len(s) : k \in 1 .. Len(t)  BY <1>1
<1>4. \A k \in 1 .. Len(s) : Heads(s)[k] = Heads(t)[k]
  BY <1>1, <1>3 DEF Heads
<1>. HIDE DEF S
<1>5. /\ Heads(s) \in Seq(S) /\ Len(Heads(s)) = Len(s)
      /\ Heads(t) \in Seq(S) /\ Len(Heads(t)) = Len(t)
  BY <1>1, <1>2
<1>. QED  BY <1>4, <1>5, PrefixOf

LEMMA RowsAre ==
  ASSUME NEW d, IsDatabase(d), NEW n
  PROVE  /\ FieldsIn(d, n) \in Seq(FieldRow)
         /\ ValuesIn(d, n) \in Seq(ValueRow)
<1> DEFINE fields == {r \in ToSet(d.fields) :
                        r.struct = n /\ {n, r.type} \subseteq DOMAIN d.types}
           values == {r \in ToSet(d.values) : r.type = n /\ n \in DOMAIN d.types}
<1>1. FieldsIn(d, n) = Select(d.fields, fields) /\ ValuesIn(d, n) = Select(d.values, values)
  BY DEF FieldsIn, ValuesIn
<1>. HIDE DEF fields, values
<1>2. /\ Select(d.fields, fields) \in Seq(FieldRow \cap fields)
      /\ Select(d.values, values) \in Seq(ValueRow \cap values)
  BY SelectedRows DEF IsDatabase
<1>3. FieldRow \cap fields \subseteq FieldRow /\ ValueRow \cap values \subseteq ValueRow
  OBVIOUS
<1>. QED  BY <1>1, <1>2, <1>3

\* A frame that closes its connection, with the members that it has.
LEMMA RightWithout ==
  ASSUME NEW e, NEW x, NEW pc \in {"members"}, NEW next, Answered(e, x, pc, next),
         x.arg.kind \notin {"Struct", "Union", "Alias"}
  PROVE  Right(e, x)
<1>1. x.arg.Fields = << >> /\ x.arg.defVal = << >>  BY DEF Answered
<1>2. CASE /\ x.arg.kind = RowIn(e.db, x.name).kind
           /\ x.arg.baseTypeName = RowIn(e.db, x.name).base
  <2>1. RowsIn(e.db, x.arg, x.name) = << >> /\ NamesIn(e.db, x.arg, x.name) = << >>
    BY DEF RowsIn, NamesIn
  <2>2. Heads(<< >>) = << >>  BY DEF Heads
  <2>. QED
    BY <1>1, <1>2, <2>1, <2>2, PrefixOfNothing DEF Answered, Right, DescribesIn, CompleteIn
<1>3. CASE x.place \in e.failed /\ x.arg.kind = NONE /\ x.arg.baseTypeName = NONE
  <2>1. Bare(x.arg) = [FreshArg EXCEPT !.typeName = x.name, !.baseType = NULL]
    <3> DEFINE b == Bare(x.arg)
               r == [FreshArg EXCEPT !.typeName = x.name, !.baseType = NULL]
    <3>1. /\ DOMAIN x.arg = ArgFields /\ x.arg.name = NONE /\ x.arg.order = NONE
          /\ x.arg.typeName = x.name /\ x.arg.baseType = NULL
      BY <1>3 DEF Answered
    <3>2. /\ b = [i \in ArgFields |-> b[i]]
          /\ b.name = NONE /\ b.order = NONE /\ b.typeName = x.name /\ b.kind = NONE
          /\ b.baseTypeName = NONE /\ b.baseType = NULL
          /\ b.Fields = << >> /\ b.defVal = << >>
      BY <1>1, <1>3, <3>1 DEF Bare, ArgFields
    <3>3. /\ r = [i \in ArgFields |-> r[i]]
          /\ r.name = NONE /\ r.order = NONE /\ r.typeName = x.name /\ r.kind = NONE
          /\ r.baseTypeName = NONE /\ r.baseType = NULL
          /\ r.Fields = << >> /\ r.defVal = << >>
      BY DEF FreshArg, ArgFields
    <3>. HIDE DEF b, r
    <3>4. \A i \in ArgFields : b[i] = r[i]  BY <3>2, <3>3 DEF ArgFields
    <3>5. b = r  BY <3>2, <3>3, <3>4
    <3>. QED  BY <3>5 DEF b, r
  <2>. QED  BY <1>3, <2>1 DEF Right, Unread
<1>. QED  BY <1>2, <1>3 DEF Answered

LEMMA RightFields ==
  ASSUME NEW e, IsDatabase(e.db), NEW W, NEW x, NEW next \in Nat, Whole(e, W, x),
         Answered(e, x, "fields", next),
         next > Len(FieldsIn(e.db, x.name)) \/ x.place \in e.failed
  PROVE  Right(e, x)
<1> DEFINE rows == FieldsIn(e.db, x.name)
<1>1. /\ x.arg.kind \in {"Struct", "Union"} /\ x.arg.defVal = << >>
      /\ Len(x.arg.Fields) = next - 1 /\ x.arg.typeName = x.name
      /\ x.arg.baseType = NULL <=> x.arg.baseTypeName = NONE
      /\ \A k \in 1 .. Len(x.arg.Fields) :
           x.arg.Fields[k].name = rows[k].name /\ x.arg.Fields[k].order = rows[k].order
  BY DEF Answered
<1>2. IsSeq(rows) /\ Len(rows) \in Nat  BY RowsAre DEF IsSeq
<1>3. IsSeq(x.arg.Fields) /\ Len(x.arg.Fields) \in Nat
  BY LengthNatural DEF Whole, Shape
<1>4. Len(x.arg.Fields) <= Len(rows)
  <2>1. \A k \in 1 .. Len(x.arg.Fields) : k <= Len(rows)  BY DEF Whole, FieldOf
  <2>. QED  BY <1>2, <1>3, <2>1
<1>5. IsPrefix(Heads(x.arg.Fields), Heads(rows))
  <2>. HIDE DEF rows
  <2>. QED  BY <1>1, <1>2, <1>3, <1>4, PrefixOfHeads
<1>6. RowsIn(e.db, x.arg, x.name) = rows /\ NamesIn(e.db, x.arg, x.name) = << >>
  BY <1>1 DEF RowsIn, NamesIn
<1>7. /\ x.arg.kind = RowIn(e.db, x.name).kind
      /\ x.arg.baseTypeName = RowIn(e.db, x.name).base
  BY <1>1, NoneAssumption DEF Answered
<1>. HIDE DEF rows
<1>8. DescribesIn(e.db, x.arg, x.name)
  BY <1>1, <1>5, <1>6, <1>7, PrefixOfNothing DEF DescribesIn
<1>9. next > Len(rows) => CompleteIn(e.db, x.arg, x.name)
  BY <1>1, <1>2, <1>3, <1>4, <1>6 DEF CompleteIn
<1>. QED  BY <1>8, <1>9 DEF Right, rows

LEMMA RightValues ==
  ASSUME NEW e, IsDatabase(e.db), NEW x, NEW y, NEW next,
         Answered(e, x, "values", next),
         y.place = x.place, y.name = x.name,
         NEW k \in 0 .. Len(ValuesIn(e.db, x.name)),
         y.arg = [x.arg EXCEPT !.defVal = SubSeq(ValuesIn(e.db, x.name), 1, k)],
         k = Len(ValuesIn(e.db, x.name)) \/ x.place \in e.failed
  PROVE  Right(e, y)
<1> DEFINE names == ValuesIn(e.db, x.name)
           first == SubSeq(names, 1, k)
<1>1. /\ x.arg.kind = "Alias" /\ x.arg.Fields = << >> /\ x.arg.typeName = x.name
      /\ x.arg.baseType = NULL <=> x.arg.baseTypeName = NONE
      /\ DOMAIN x.arg = ArgFields
  BY DEF Answered
<1>2. names \in Seq(ValueRow) /\ Len(names) \in Nat  BY RowsAre
<1>3. /\ x.arg.kind = RowIn(e.db, x.name).kind
      /\ x.arg.baseTypeName = RowIn(e.db, x.name).base
  BY <1>1, NoneAssumption DEF Answered
<1>4. /\ y.arg.kind = x.arg.kind /\ y.arg.Fields = << >> /\ y.arg.typeName = x.name
      /\ y.arg.baseType = x.arg.baseType /\ y.arg.baseTypeName = x.arg.baseTypeName
      /\ y.arg.defVal = first
  BY <1>1 DEF ArgFields
<1>5. RowsIn(e.db, y.arg, y.name) = << >> /\ NamesIn(e.db, y.arg, y.name) = names
  BY <1>1, <1>4 DEF RowsIn, NamesIn
<1>6. IsPrefix(first, names) /\ (k = Len(names) => first = names)
  <2>. HIDE DEF names
  <2>1. k \in Nat /\ k <= Len(names)  BY <1>2 DEF names
  <2>2. /\ first \in Seq(ValueRow) /\ Len(first) = k
        /\ \A j \in 1 .. k : first[j] = names[j]
    <3>1. \A j \in 1 .. k : names[j] \in ValueRow  BY <1>2, <2>1
    <3>2. /\ first \in Seq(ValueRow) /\ Len(first) = IF 1 <= k THEN k - 1 + 1 ELSE 0
          /\ \A j \in 1 .. k - 1 + 1 : first[j] = names[1 + j - 1]
      BY <2>1, <3>1, SubSeqProperties
    <3>. HIDE DEF first
    <3>. QED  BY <2>1, <3>2
  <2>. HIDE DEF first
  <2>3. IsPrefix(first, names)  BY <1>2, <2>1, <2>2, PrefixOf
  <2>4. k = Len(names) => first = names  BY <1>2, <2>2
  <2>. QED  BY <2>3, <2>4
<1>7. Heads(<< >>) = << >>  BY DEF Heads
<1>. HIDE DEF names, first
<1>8. DescribesIn(e.db, y.arg, y.name)
  BY <1>1, <1>3, <1>4, <1>5, <1>6, <1>7, PrefixOfNothing DEF DescribesIn
<1>9. k = Len(names) => CompleteIn(e.db, y.arg, y.name)
  BY <1>4, <1>5, <1>6, PrefixOfNothing DEF CompleteIn
<1>. QED  BY <1>8, <1>9 DEF Right, names

\* The node of a frame whose Arg has changed, but not its base or its fields.
Renewed(x, arg) == Node(x.place, arg, x.name, x.room, x.start, x.marks)

LEMMA RenewedNode ==
  ASSUME NEW x, NEW arg, arg.Fields = x.arg.Fields
  PROVE  LET y == Renewed(x, arg)
         IN  /\ y.place = x.place /\ y.arg = arg /\ y.name = x.name
             /\ y.room = x.room /\ y.start = x.start /\ y.marks = x.marks
             /\ End(y) = End(x)
             /\ \A e : Shape(e, x) => Shape(e, y)
             /\ \A e, W : /\ Whole(e, W, x) /\ arg.baseType = x.arg.baseType
                          /\ arg.baseTypeName = x.arg.baseTypeName
                          => Whole(e, W, y)
<1> DEFINE y == Renewed(x, arg)
<1>1. /\ y.place = x.place /\ y.arg = arg /\ y.name = x.name
      /\ y.room = x.room /\ y.start = x.start /\ y.marks = x.marks
  BY DEF Renewed, Node
<1>. HIDE DEF y
<1>2. End(y) = End(x)  BY <1>1 DEF End
<1>3. ASSUME NEW e, Shape(e, x) PROVE Shape(e, y)  BY <1>1, <1>3 DEF Shape
<1>4. ASSUME NEW e, NEW W, Whole(e, W, x), arg.baseType = x.arg.baseType,
             arg.baseTypeName = x.arg.baseTypeName
      PROVE  Whole(e, W, y)
  <2>1. Shape(e, y)  BY <1>3, <1>4 DEF Whole
  <2>2. BaseOf(e, W, y)  BY <1>1, <1>4 DEF Whole, BaseOf, PointsTo, Child
  <2>3. ASSUME NEW k \in 1 .. Len(x.arg.Fields) PROVE FieldOf(e, W, y, k)
    <3>1. FieldOf(e, W, x, k)  BY <1>4 DEF Whole
    <3>. QED  BY <1>1, <3>1 DEF FieldOf, Child
  <2>. QED  BY <1>1, <2>1, <2>2, <2>3 DEF Whole
<1>. QED  BY <1>1, <1>2, <1>3, <1>4 DEF y

-----------------------------------------------------------------------------
(* The steps of typeInformation, and the tree                              *)

Filled ==
  /\ outcome = "running" => \E W, N : Reads(Env, stack, W, N)
  /\ outcome = "returned" => Found(Env, result, root)

\* What a step adds to the history.
Noted == failed' = IF faults' = faults THEN failed ELSE failed \cup {Place}

LEMMA EnvFields ==
  /\ Env.db = db /\ Env.heap = heap /\ Env.failed = failed /\ Env.wild = unclosed
  /\ Reached(Env) = Mark(Len(heap), unclosed)
BY DEF Env, Reached

\* The innermost frame returns the Arg of the node x.
LEMMA Returned ==
  ASSUME IInv, DepthInv, outcome = "running",
         NEW W, NEW N, Reads(Env, stack, W, N), Grows(Env, Env'),
         NEW x, Yields(Env, stack, W, N, Env', x), DOMAIN x.arg = ArgFields,
         Return(x.arg), UNCHANGED <<db, root>>
  PROVE  Filled'
<1>1. /\ Len(stack) \in 1 .. MaxDepth /\ MaxDepth \in Nat /\ Len(stack) \in Nat
      /\ IsSeq(stack) /\ IsSeq(heap) /\ Len(heap) \in Nat /\ IsDatabase(db)
  BY Sizes DEF IInv, Sequences
<1>2. /\ Env'.heap = heap' /\ Env.heap = heap /\ Env.db = db
      /\ Len(Env'.heap) = Len(heap')
  BY DEF Env
<1>3. CASE ReturnResult(x.arg)
  <2>1. Len(stack) = 1 /\ result' = x.arg /\ outcome' = "returned" /\ heap' = heap
    BY <1>3 DEF ReturnResult
  <2>2. stack[1].name = root  BY <2>1 DEF DepthInv, Links
  <2>3. Found(Env', x.arg, stack[1].name)
    BY <1>1, <1>2, <2>1, ReadsEnd
  <2>. QED  BY <2>1, <2>2, <2>3 DEF Filled
<1>4. ASSUME Len(stack) > 1
      PROVE  /\ Caller = stack[Len(stack) - 1] /\ IsFrame(Caller)
             /\ Waits(db, Caller) /\ stack[Len(stack)].name = Wanted(db, Caller)
             /\ Knows(db, Caller, Len(heap))
             /\ \A m \in 1 .. Len(stack) : stack[m].next \in Nat
  <2>1. Len(stack) - 1 \in 1 .. Len(stack) - 1 /\ (Len(stack) - 1) + 1 = Len(stack)
        /\ Len(stack) - 1 \in 1 .. Len(stack)
    BY <1>1, <1>4
  <2>2. Caller = stack[Len(stack) - 1]  BY DEF Caller
  <2>3. IsFrame(Caller)  BY <2>1, <2>2 DEF IInv, Frames
  <2>4. Waits(db, Caller) /\ stack[Len(stack)].name = Wanted(db, Caller)
    BY <2>1, <2>2 DEF DepthInv, Links
  <2>5. \A m \in 1 .. Len(stack) : Knows(db, stack[m], Len(heap))
    BY DEF DepthInv, Knowledge
  <2>6. \A m \in 1 .. Len(stack) : stack[m].next \in Nat  BY <2>5 DEF Knows
  <2>. QED  BY <2>1, <2>2, <2>3, <2>4, <2>5, <2>6
<1>5. CASE ReturnBase(x.arg)
  <2>1. /\ Len(stack) > 1 /\ Caller.pc = "base" /\ heap' = Append(heap, x.arg)
        /\ stack' = Append(SubSeq(stack, 1, Len(stack) - 2),
                           [Caller EXCEPT !.pc = "members",
                                          !.type.baseType = Len(heap')])
        /\ outcome' = "running"
    BY <1>5 DEF ReturnBase, Resume
  <2>2. stack[Len(stack)].name = Caller.type.baseTypeName
        /\ stack[Len(stack)].name # NONE
    BY <1>4, <2>1 DEF Waits, Wanted
  <2>3. \E V, M : Reads(Env', stack', V, M)
    <3> DEFINE c == stack[Len(stack) - 1]
    <3>1. c = Caller  BY <1>4, <2>1
    <3>2. /\ IsFrame(c) /\ c.pc = "base" /\ c.type.baseTypeName = stack[Len(stack)].name
          /\ \A m \in 1 .. Len(stack) : stack[m].next \in Nat
          /\ Len(stack) - 1 \in 1 .. Len(stack)
      BY <1>1, <1>4, <2>1, <2>2, <3>1
    <3>3. c.next \in Nat  BY <3>2
    <3>4. stack' = Append(SubSeq(stack, 1, Len(stack) - 2),
                          [c EXCEPT !.pc = "members",
                                    !.type.baseType = Len(Env'.heap)])
      BY <1>2, <2>1, <3>1
    <3>5. IsSeq(Env.heap) /\ Env'.heap = Append(Env.heap, x.arg)
      BY <1>1, <1>2, <2>1
    <3>6. \E V, M :
            Reads(Env', Append(SubSeq(stack, 1, Len(stack) - 2),
                               [c EXCEPT !.pc = "members",
                                         !.type.baseType = Len(Env'.heap)]), V, M)
      BY <1>1, <2>1, <2>2, <3>2, <3>3, <3>5, ReadsBase
    <3>. QED  BY <3>4, <3>6
  <2>. QED  BY <2>1, <2>3 DEF Filled
<1>6. CASE ReturnField(x.arg)
  <2> DEFINE row == FieldsIn(db, Caller.name)[Caller.next]
             field == [x.arg EXCEPT !.name = row.name, !.order = row.order]
  <2>1. FieldsOf(Caller.name) = FieldsIn(db, Caller.name)  BY InTheDatabase
  <2>2. /\ Len(stack) > 1 /\ Caller.pc = "fields" /\ heap' = heap
        /\ outcome' = "running"
        /\ stack' = Append(SubSeq(stack, 1, Len(stack) - 2),
                      [Caller EXCEPT
                         !.next = @ + 1,
                         !.type.Fields = IF field.order # -1 THEN Append(@, field)
                                         ELSE @])
    BY <1>6, <2>1 DEF ReturnField, Resume
  <2>3. /\ Caller.next <= Len(FieldsIn(db, Caller.name))
        /\ stack[Len(stack)].name = row.type
    BY <1>4, <2>2 DEF Waits, Wanted
  <2>4. row \in FieldRow
    <3>1. Caller.next \in 1 .. Len(FieldsIn(db, Caller.name))
          /\ FieldsIn(db, Caller.name) \in Seq(FieldRow)
      BY <1>1, <1>4, <2>2, <2>3, RowsAre DEF Knows
    <3>. QED  BY <3>1
  <2>5. field.order # -1
    <3>1. row.order \in Nat  BY <2>4 DEF FieldRow
    <3>2. field.order = row.order  BY DEF ArgFields
    <3>. QED  BY <3>1, <3>2
  <2>6. stack' = Append(SubSeq(stack, 1, Len(stack) - 2),
                   [Caller EXCEPT !.next = @ + 1, !.type.Fields = Append(@, field)])
    BY <2>2, <2>5
  <2>7. \E V, M : Reads(Env', stack', V, M)
    <3> DEFINE r == row
    <3>1. r = FieldsIn(Env.db, Caller.name)[Caller.next] /\ Env'.heap = Env.heap
      BY <1>2, <2>2
    <3>2. stack' = Append(SubSeq(stack, 1, Len(stack) - 2),
                     [Caller EXCEPT !.next = @ + 1,
                        !.type.Fields = Append(@, [x.arg EXCEPT !.name = r.name,
                                                               !.order = r.order])])
      BY <2>6
    <3> DEFINE c == stack[Len(stack) - 1]
    <3>3. c = Caller  BY <1>4, <2>2
    <3>4. /\ IsFrame(c) /\ c.pc = "fields" /\ stack[Len(stack)].name = r.type
          /\ \A m \in 1 .. Len(stack) : stack[m].next \in Nat
          /\ r = FieldsIn(Env.db, c.name)[c.next]
          /\ c.next <= Len(FieldsIn(Env.db, c.name))
      BY <1>2, <1>4, <2>2, <2>3, <3>3
    <3>. HIDE DEF r
    <3>5. \E V, M :
            Reads(Env', Append(SubSeq(stack, 1, Len(stack) - 2),
                     [c EXCEPT !.next = @ + 1,
                        !.type.Fields = Append(@, [x.arg EXCEPT !.name = r.name,
                                                               !.order = r.order])]),
                  V, M)
      BY <1>1, <2>2, <3>1, <3>4, ReadsField
    <3>. QED  BY <3>2, <3>3, <3>5
  <2>. QED  BY <2>2, <2>7 DEF Filled
<1>. QED  BY <1>3, <1>5, <1>6 DEF Return

\* Each step of typeInformation keeps the tree so far.
LEMMA NextFilled ==
  ASSUME IInv, DepthInv, Filled, Next, Noted
  PROVE  Filled'
<1>1. outcome = "running"
  BY DEF Next, Open, OpenFails, SelectType, SelectTypeFails, CallBase, NoBase,
         SelectMembers, CallField, FieldsEnd, FieldsFail, SelectValues, Close, At
<1>2. /\ Len(stack) \in 1 .. MaxDepth /\ MaxDepth \in Nat /\ Len(stack) \in Nat
      /\ Len(stack) > 0 /\ IsSeq(stack) /\ Len(heap) \in Nat /\ IsDatabase(db)
      /\ Top = stack[Len(stack)] /\ Knows(db, Top, Len(heap)) /\ IsFrame(Top)
      /\ unclosed \in Nat /\ faults \in Nat
  BY <1>1, Sizes, BoundsAssumption DEF IInv, Sequences, DepthInv, Numbers
<1>3. PICK W, N : Reads(Env, stack, W, N)  BY <1>1 DEF Filled
<1> DEFINE x == N[Len(stack)]
           n == Len(stack)
<1>4. /\ Held(Env, W, x, Top, n) /\ x.place = Place /\ End(x) = Mark(Len(heap), unclosed)
  <2>1. Held(Env, W, x, Top, n) /\ x.place = PlaceIn(stack, n)
    BY <1>2, <1>3 DEF Reads
  <2>2. Place = PlaceIn(stack, n)  BY DEF Place, PlaceIn
  <2>. QED  BY <1>3, <2>1, <2>2, EnvFields DEF Reads
<1>. HIDE DEF x, n
<1>5. failed \subseteq failed' /\ (Fault => x.place \in failed')
  BY <1>2, <1>4 DEF Noted, Fault
<1>6. ASSUME UNCHANGED <<db, heap, unclosed>>
      PROVE  /\ Grows(Env, Env') /\ Reached(Env') = Reached(Env)
             /\ Env'.db = db /\ Env'.failed = failed'
  BY <1>2, <1>5, <1>6 DEF Env, Grows, Reached
\* The frame goes on.
<1>7. ASSUME NEW f, NEW y, SetTop(f), UNCHANGED <<db, heap, unclosed, outcome>>,
             y.place = x.place, y.start = x.start, End(y) = End(x),
             Held(Env', W, y, f, n)
      PROVE  Filled'
  <2>1. Grows(Env, Env') /\ Reached(Env') = Reached(Env)  BY <1>6, <1>7
  <2>2. stack' = [stack EXCEPT ![Len(stack)] = f]  BY <1>7 DEF SetTop
  <2>3. \E M : Reads(Env', stack', W, M)
    BY <1>2, <1>3, <1>7, <2>1, <2>2, ReadsOn DEF x, n
  <2>. QED  BY <1>1, <1>7, <2>3 DEF Filled
\* It calls typeInformation.
<1>8. ASSUME NEW name, Call(name), UNCHANGED <<db, root, heap, unclosed, faults>>
      PROVE  Filled'
  <2>1. CASE Len(stack) < MaxDepth
    <3>1. stack' = Append(stack, Frame(name)) /\ outcome' = "running"
      BY <1>1, <1>8, <2>1 DEF Call
    <3>2. Env' = Env  BY <1>8 DEF Env, Noted
    <3>3. Grows(Env, Env)  BY <1>2 DEF Env, Grows
    <3>4. \E M : Reads(Env', stack', W, M)
      BY <1>2, <1>3, <2>1, <3>1, <3>2, <3>3, ReadsCall
    <3>. QED  BY <3>1, <3>4 DEF Filled
  <2>2. CASE ~(Len(stack) < MaxDepth)
    BY <1>8, <2>2 DEF Call, Filled
  <2>. QED  BY <2>1, <2>2
<1>9. CASE CallBase \/ CallField
  <2>1. PICK name : Call(name)  BY <1>9 DEF CallBase, CallField
  <2>2. UNCHANGED <<db, root, heap, unclosed, faults>>
    BY <1>9 DEF CallBase, CallField
  <2>. QED  BY <1>8, <2>1, <2>2
\* Before the base is known: the strings are set.
<1>10. ASSUME Top.pc \in {"open", "row", "base"}
       PROVE  /\ Asked(Env, x, Top.pc) /\ Shape(Env, x) /\ x.arg = Top.type
              /\ x.name = Top.name /\ x.room = MaxDepth + 1 - n
              /\ Top.type.Fields = << >>
  <2>1. /\ Asked(Env, x, Top.pc) /\ Shape(Env, x) /\ x.arg = Top.type
        /\ x.name = Top.name /\ x.room = MaxDepth + 1 - n
    BY <1>4, <1>10 DEF Held
  <2>2. x.arg.Fields = << >>
    <3>1. Top.pc = "base" => x.arg.Fields = << >>  BY <2>1, AskedArg
    <3>. QED  BY <1>10, <2>1, <3>1 DEF Asked, FreshArg
  <2>. QED  BY <2>1, <2>2
<1>11. ASSUME NEW f, SetTop(f), UNCHANGED <<db, heap, unclosed, outcome>>,
              Top.pc \in {"open", "row", "base"}, f.pc \in {"row", "base"},
              f.name = Top.name, f.type.Fields = << >>,
              f.pc = "row" => f.type = [FreshArg EXCEPT !.typeName = Top.name],
              f.pc = "base" =>
                \/ f.type = [FreshArg EXCEPT !.typeName = Top.name,
                                             !.kind = RowIn(db, Top.name).kind,
                                             !.baseTypeName = RowIn(db, Top.name).base]
                \/ Fault /\ f.type = [FreshArg EXCEPT !.typeName = Top.name]
       PROVE  Filled'
  <2> DEFINE y == Renewed(x, f.type)
  <2>1. /\ Asked(Env, x, Top.pc) /\ Shape(Env, x) /\ x.arg = Top.type
        /\ x.name = Top.name /\ x.room = MaxDepth + 1 - n /\ Top.type.Fields = << >>
    BY <1>10, <1>11
  <2>2. /\ y.place = x.place /\ y.arg = f.type /\ y.name = x.name
        /\ y.room = x.room /\ y.start = x.start /\ y.marks = x.marks
        /\ End(y) = End(x) /\ (Shape(Env, x) => Shape(Env, y))
    BY <1>11, <2>1, RenewedNode
  <2>. HIDE DEF y
  <2>3. Grows(Env, Env') /\ Env'.db = db /\ Env'.failed = failed'  BY <1>6, <1>11
  <2>4. Shape(Env', y)  BY <2>1, <2>2, <2>3, ShapeStays
  <2>5. Asked(Env', y, f.pc)
    <3>1. y.marks[0] = y.start  BY <2>1, <2>2 DEF Asked
    <3>. QED  BY <1>5, <1>11, <2>1, <2>2, <2>3, <3>1 DEF Asked
  <2>6. Held(Env', W, y, f, n)  BY <1>11, <2>1, <2>2, <2>4, <2>5 DEF Held
  <2>. QED  BY <1>7, <1>11, <2>2, <2>6
<1>12. CASE Open
  <2> DEFINE f == [Top EXCEPT !.pc = "row", !.type.typeName = Top.name]
  <2>1. /\ Top.pc = "open" /\ SetTop(f) /\ UNCHANGED <<db, heap, unclosed, outcome>>
    BY <1>12 DEF Open, At
  <2>2. f.pc = "row" /\ f.name = Top.name /\ f.type = [Top.type EXCEPT !.typeName = Top.name]
    BY <1>2 DEF IsFrame, FrameFields
  <2>3. Top.type = FreshArg  BY <1>10, <2>1 DEF Asked
  <2>. HIDE DEF f
  <2>4. f.type.Fields = << >>  BY <2>2, <2>3 DEF FreshArg
  <2>. QED  BY <1>11, <2>1, <2>2, <2>3, <2>4
<1>13. CASE SelectType
  <2> DEFINE f == IF Top.name \in DOMAIN db.types
                  THEN [Top EXCEPT !.pc = "base",
                                   !.type.kind = db.types[Top.name].kind,
                                   !.type.baseTypeName = db.types[Top.name].base]
                  ELSE [Top EXCEPT !.pc = "base"]
  <2>1. /\ Top.pc = "row" /\ SetTop(f) /\ UNCHANGED <<db, heap, unclosed, outcome>>
    BY <1>13 DEF SelectType, At
  <2>2. Top.type = [FreshArg EXCEPT !.typeName = Top.name]
    BY <1>10, <2>1 DEF Asked
  <2>3. f.pc = "base" /\ f.name = Top.name
        /\ f.type = [FreshArg EXCEPT !.typeName = Top.name,
                                     !.kind = RowIn(db, Top.name).kind,
                                     !.baseTypeName = RowIn(db, Top.name).base]
    <3>1. CASE Top.name \in DOMAIN db.types
      <4>1. f.pc = "base" /\ f.name = Top.name
            /\ f.type = [Top.type EXCEPT !.kind = db.types[Top.name].kind,
                                         !.baseTypeName = db.types[Top.name].base]
        BY <1>2, <3>1 DEF IsFrame, FrameFields, ArgFields
      <4>2. RowIn(db, Top.name) = db.types[Top.name]  BY <3>1 DEF RowIn
      <4>. HIDE DEF f
      <4>. QED  BY <2>2, <4>1, <4>2 DEF FreshArg
    <3>2. CASE Top.name \notin DOMAIN db.types
      <4>1. f.pc = "base" /\ f.name = Top.name /\ f.type = Top.type
        BY <1>2, <3>2 DEF IsFrame, FrameFields
      <4>2. RowIn(db, Top.name).kind = NONE /\ RowIn(db, Top.name).base = NONE
        BY <3>2 DEF RowIn
      <4>. HIDE DEF f
      <4>. QED  BY <2>2, <4>1, <4>2 DEF FreshArg
    <3>. QED  BY <3>1, <3>2
  <2>. HIDE DEF f
  <2>4. f.type.Fields = << >>  BY <2>3 DEF FreshArg
  <2>. QED  BY <1>11, <2>1, <2>3, <2>4
<1>14. CASE SelectTypeFails
  <2> DEFINE f == [Top EXCEPT !.pc = "base"]
  <2>1. /\ Top.pc = "row" /\ SetTop(f) /\ Fault /\ UNCHANGED <<db, heap, unclosed, outcome>>
    BY <1>14 DEF SelectTypeFails, At
  <2>2. f.pc = "base" /\ f.name = Top.name /\ f.type = Top.type
    BY <1>2 DEF IsFrame, FrameFields
  <2>3. Top.type = [FreshArg EXCEPT !.typeName = Top.name]
    BY <1>10, <2>1 DEF Asked
  <2>. HIDE DEF f
  <2>4. f.type.Fields = << >>  BY <2>2, <2>3 DEF FreshArg
  <2>. QED  BY <1>11, <2>1, <2>2, <2>3, <2>4
\* There is no base.
<1>15. CASE NoBase
  <2> DEFINE f == [Top EXCEPT !.pc = "members", !.type.baseType = NULL]
             y == Renewed(x, f.type)
  <2>1. /\ Top.pc = "base" /\ Top.type.baseTypeName = NONE /\ SetTop(f)
        /\ UNCHANGED <<db, heap, unclosed, outcome>>
    BY <1>15 DEF NoBase, At
  <2>2. /\ Asked(Env, x, "base") /\ Shape(Env, x) /\ x.arg = Top.type
        /\ x.name = Top.name /\ x.room = MaxDepth + 1 - n
    BY <1>10, <2>1
  <2>3. /\ f.pc = "members" /\ f.name = Top.name /\ f.next = Top.next
        /\ f.type = [Top.type EXCEPT !.baseType = NULL]
    BY <1>2 DEF IsFrame, FrameFields
  <2>4. /\ DOMAIN f.type = ArgFields /\ f.type.baseType = NULL
        /\ f.type.Fields = Top.type.Fields /\ f.type.defVal = Top.type.defVal
        /\ f.type.name = Top.type.name /\ f.type.order = Top.type.order
        /\ f.type.typeName = Top.type.typeName /\ f.type.kind = Top.type.kind
        /\ f.type.baseTypeName = Top.type.baseTypeName
    BY <1>2, <2>3 DEF IsFrame, ArgFields
  <2>. HIDE DEF f
  <2>5. /\ y.place = x.place /\ y.arg = f.type /\ y.name = x.name
        /\ y.room = x.room /\ y.start = x.start /\ y.marks = x.marks
        /\ End(y) = End(x) /\ (Shape(Env, x) => Shape(Env, y))
    BY <2>2, <2>4, RenewedNode
  <2>. HIDE DEF y
  <2>6. /\ x.marks[0] = x.start
        /\ x.arg.Fields = << >> /\ x.arg.defVal = << >> /\ x.arg.name = NONE
        /\ x.arg.order = NONE /\ x.arg.typeName = x.name
        /\ \/ /\ x.arg.kind = RowIn(db, x.name).kind
              /\ x.arg.baseTypeName = RowIn(db, x.name).base
           \/ x.place \in failed /\ x.arg.kind = NONE /\ x.arg.baseTypeName = NONE
    BY <2>2, AskedArg, EnvFields
  <2>7. Grows(Env, Env') /\ Env'.db = db /\ Env'.failed = failed'  BY <1>6, <2>1
  <2>8. Shape(Env', y)  BY <2>2, <2>5, <2>7, ShapeStays
  <2>9. Whole(Env', W, y)
    BY <2>2, <2>4, <2>5, <2>6, <2>8, PrefixOfNothing DEF Whole, BaseOf
  <2>10. Answered(Env', y, "members", f.next)
    <3>1. f.type.baseType # WILD /\ f.type.baseTypeName = NONE
      BY <2>1, <2>4, PointersAssumption
    <3>. QED  BY <1>5, <2>2, <2>4, <2>5, <2>6, <2>7, <3>1 DEF Answered
  <2>11. Held(Env', W, y, f, n)  BY <2>2, <2>3, <2>5, <2>8, <2>9, <2>10 DEF Held
  <2>. QED  BY <1>7, <2>1, <2>5, <2>11
\* Its base is known: the frame reads its members, and closes.
<1>16. ASSUME Top.pc \in {"members", "fields", "values", "close"}
       PROVE  /\ Whole(Env, W, x) /\ Answered(Env, x, Top.pc, Top.next)
              /\ x.arg = Top.type /\ x.name = Top.name /\ x.room = MaxDepth + 1 - n
  BY <1>4, <1>16 DEF Held
<1>17. ASSUME NEW f, NEW y, SetTop(f), UNCHANGED <<db, heap, unclosed, outcome>>,
              Top.pc \in {"members", "fields", "values", "close"},
              f.pc \in {"fields", "values", "close"}, f.name = Top.name,
              y = Renewed(x, f.type), f.type.Fields = x.arg.Fields,
              f.type.baseType = x.arg.baseType,
              f.type.baseTypeName = x.arg.baseTypeName,
              Answered(Env', y, f.pc, f.next)
       PROVE  Filled'
  <2>1. Whole(Env, W, x) /\ x.arg = Top.type /\ x.name = Top.name
        /\ x.room = MaxDepth + 1 - n
    BY <1>16, <1>17
  <2>2. /\ y.place = x.place /\ y.arg = f.type /\ y.name = x.name
        /\ y.room = x.room /\ y.start = x.start /\ End(y) = End(x)
        /\ (Whole(Env, W, x) => Whole(Env, W, y))
    BY <1>17, RenewedNode
  <2>3. Grows(Env, Env')  BY <1>6, <1>17
  <2>4. Whole(Env', W, y)
    <3>1. W \subseteq W  OBVIOUS
    <3>. QED  BY <2>1, <2>2, <2>3, <3>1, WholeStays
  <2>5. Held(Env', W, y, f, n)
    BY <1>17, <2>1, <2>2, <2>4 DEF Held, Whole
  <2>. QED  BY <1>7, <1>17, <2>2, <2>5
<1>18. ASSUME NEW pc, SetTop([Top EXCEPT !.pc = pc]),
              UNCHANGED <<db, heap, unclosed, outcome>>,
              Top.pc \in {"members", "fields", "values", "close"},
              pc \in {"fields", "values", "close"},
              Answered(Env', x, pc, Top.next)
       PROVE  Filled'
  <2> DEFINE f == [Top EXCEPT !.pc = pc]
             y == Renewed(x, f.type)
  <2>1. f.pc = pc /\ f.name = Top.name /\ f.next = Top.next /\ f.type = Top.type
    BY <1>2 DEF IsFrame, FrameFields
  <2>2. x.arg = Top.type  BY <1>16, <1>18
  <2>3. SetTop(f)  BY <1>18
  <2>. HIDE DEF f
  <2>4. /\ y.place = x.place /\ y.arg = x.arg /\ y.name = x.name
    BY <2>1, <2>2, RenewedNode
  <2>5. Answered(Env', y, f.pc, f.next)
    <3>. HIDE DEF y
    <3>1. Right(Env', x) => Right(Env', y)  BY <2>4 DEF Right
    <3>. QED  BY <1>18, <2>1, <2>4, <3>1 DEF Answered
  <2>. QED  BY <1>17, <1>18, <2>1, <2>2, <2>3, <2>5
\* What the frame knows, it still knows.
<1>19. ASSUME UNCHANGED <<db, heap, unclosed>>,
              Top.pc \in {"members", "fields", "values", "close"}
       PROVE  /\ Answered(Env', x, Top.pc, Top.next) /\ Whole(Env', W, x)
              /\ Env'.db = db /\ Env'.failed = failed'
  <2>1. Grows(Env, Env') /\ Env'.db = db /\ Env'.failed = failed'  BY <1>6, <1>19
  <2>2. Held(Env', W, x, Top, n)
    <3>1. W \subseteq W  OBVIOUS
    <3>. QED  BY <1>4, <2>1, <3>1, HeldStays
  <2>. QED  BY <1>19, <2>1, <2>2 DEF Held
<1>20. CASE SelectMembers
  <2> DEFINE pc == IF Top.type.kind \in {"Struct", "Union"} THEN "fields"
                   ELSE IF Top.type.kind = "Alias" THEN "values" ELSE "close"
  <2>1. /\ Top.pc = "members" /\ SetTop([Top EXCEPT !.pc = pc])
        /\ UNCHANGED <<db, heap, unclosed, outcome>>
    BY <1>20 DEF SelectMembers, At
  <2>2. Answered(Env', x, "members", Top.next) /\ x.arg = Top.type
    BY <1>16, <1>19, <2>1
  <2>3. Top.next = 1  BY <1>2, <2>1 DEF Knows
  <2>4. Answered(Env', x, pc, Top.next)
    <3>1. Top.type.kind \notin {"Struct", "Union", "Alias"} => Right(Env', x)
      BY <2>2, RightWithout
    <3>2. pc = "fields" => Len(x.arg.Fields) = Top.next - 1 /\ Len(x.arg.Fields) = 0
      BY <2>2, <2>3, PrefixOfNothing DEF Answered
    <3>3. pc = "fields" => Top.type.kind \in {"Struct", "Union"}  OBVIOUS
    <3>4. pc = "values" => Top.type.kind = "Alias"  OBVIOUS
    <3>5. pc = "close" => Top.type.kind \notin {"Struct", "Union", "Alias"}  OBVIOUS
    <3>6. pc # "members"  OBVIOUS
    <3>. HIDE DEF pc
    <3>. QED  BY <2>2, <3>1, <3>2, <3>3, <3>4, <3>5, <3>6 DEF Answered
  <2>5. pc \in {"fields", "values", "close"}  OBVIOUS
  <2>. HIDE DEF pc
  <2>. QED  BY <1>18, <2>1, <2>4, <2>5
<1>21. CASE FieldsEnd \/ FieldsFail
  <2>1. /\ Top.pc = "fields" /\ SetTop([Top EXCEPT !.pc = "close"])
        /\ UNCHANGED <<db, heap, unclosed, outcome>>
        /\ Fault \/ Top.next > Len(FieldsOf(Top.name))
    BY <1>21 DEF FieldsEnd, FieldsFail, At
  <2>2. /\ Answered(Env', x, "fields", Top.next) /\ Whole(Env', W, x)
        /\ Env'.db = db /\ Env'.failed = failed' /\ x.name = Top.name
    BY <1>16, <1>19, <2>1
  <2>3. Top.next > Len(FieldsIn(Env'.db, x.name)) \/ x.place \in Env'.failed
    BY <1>5, <2>1, <2>2, InTheDatabase
  <2>4. Top.next \in Nat  BY <1>2 DEF Knows
  <2>5. Right(Env', x)  BY <1>2, <2>2, <2>3, <2>4, RightFields
  <2>6. Answered(Env', x, "close", Top.next)  BY <2>2, <2>5 DEF Answered
  <2>. QED  BY <1>18, <2>1, <2>6
<1>22. CASE SelectValues
  <2>1. ValuesOf(Top.name) = ValuesIn(db, Top.name)  BY DEF ValuesOf, ValuesIn
  <2> DEFINE v == ValuesIn(db, Top.name)
  <2>2. v \in Seq(ValueRow) /\ Len(v) \in Nat  BY <1>2, RowsAre
  <2>3. PICK k \in 0 .. Len(v) :
          /\ Top.pc = "values"
          /\ SetTop([Top EXCEPT !.pc = "close", !.type.defVal = SubSeq(v, 1, k)])
          /\ UNCHANGED <<db, heap, unclosed, outcome>>
          /\ k = Len(v) \/ Fault
    <3>1. SubSeq(v, 1, Len(v)) = v /\ Len(v) \in 0 .. Len(v)
      <4>. HIDE DEF v
      <4>. QED  BY <2>2
    <3>. QED  BY <1>22, <2>1, <3>1 DEF SelectValues, At
  <2> DEFINE f == [Top EXCEPT !.pc = "close", !.type.defVal = SubSeq(v, 1, k)]
             y == Renewed(x, f.type)
  <2>4. /\ f.pc = "close" /\ f.name = Top.name /\ f.next = Top.next
        /\ f.type = [Top.type EXCEPT !.defVal = SubSeq(v, 1, k)]
    BY <1>2 DEF IsFrame, FrameFields
  <2>5. /\ Answered(Env', x, "values", Top.next)
        /\ Env'.db = db /\ Env'.failed = failed' /\ x.name = Top.name /\ x.arg = Top.type
    BY <1>16, <1>19, <2>3
  <2>6. SetTop(f)  BY <2>3
  <2>. HIDE DEF f
  <2>7. /\ DOMAIN f.type = ArgFields /\ f.type.baseType = x.arg.baseType
        /\ f.type.Fields = x.arg.Fields
        /\ f.type.name = x.arg.name /\ f.type.order = x.arg.order
        /\ f.type.typeName = x.arg.typeName /\ f.type.kind = x.arg.kind
        /\ f.type.baseTypeName = x.arg.baseTypeName
    BY <1>2, <2>4, <2>5 DEF IsFrame, ArgFields
  <2>8. y.place = x.place /\ y.arg = f.type /\ y.name = x.name
    BY <2>7, RenewedNode
  <2>. HIDE DEF y
  <2>9. Right(Env', y)
    <3>1. y.arg = [x.arg EXCEPT !.defVal = SubSeq(ValuesIn(Env'.db, x.name), 1, k)]
      BY <2>4, <2>5, <2>8
    <3>2. k \in 0 .. Len(ValuesIn(Env'.db, x.name))
          /\ (k = Len(ValuesIn(Env'.db, x.name)) \/ x.place \in Env'.failed)
      BY <1>5, <2>3, <2>5
    <3>3. IsDatabase(Env'.db)  BY <1>2, <2>5
    <3>. HIDE DEF v
    <3>. QED  BY <2>5, <2>8, <3>1, <3>2, <3>3, RightValues
  <2>10. Answered(Env', y, "close", f.next)
    BY <2>5, <2>7, <2>8, <2>9 DEF Answered
  <2>. QED  BY <1>17, <2>3, <2>4, <2>6, <2>7, <2>10 DEF y
\* The frame returns.
<1>23. CASE Close
  <2>1. /\ Top.pc = "close" /\ Return(Top.type) /\ UNCHANGED <<db, root, unclosed, faults>>
    BY <1>23 DEF Close, At
  <2>2. /\ Whole(Env, W, x) /\ Answered(Env, x, "close", Top.next)
        /\ x.arg = Top.type /\ x.name = Top.name /\ x.room = MaxDepth + 1 - n
    BY <1>16, <2>1
  <2>3. Grows(Env, Env') /\ Env'.wild = unclosed
    <3>1. heap' = heap \/ heap' = Append(heap, Top.type)
      BY <2>1 DEF Return, ReturnResult, ReturnBase, ReturnField
    <3>2. Len(heap') \in Nat /\ Len(heap) <= Len(heap')
          /\ \A p \in 1 .. Len(heap) : heap'[p] = heap[p]
      <4>1. IsSeq(heap)  BY DEF IInv, Sequences
      <4>. QED  BY <1>2, <3>1, <4>1, Pushed
    <3>. QED  BY <1>2, <1>5, <2>1, <3>2 DEF Grows, Env
  <2>4. Right(Env', x)  BY <2>2, <2>3 DEF Answered, Right, Grows
  <2>5. Whole(Env', W, x)
    <3>1. W \subseteq W  OBVIOUS
    <3>. QED  BY <2>2, <2>3, <3>1, WholeStays
  <2>6. Yields(Env, stack, W, N, Env', x) /\ DOMAIN x.arg = ArgFields
    BY <1>2, <1>4, <2>2, <2>3, <2>4, <2>5, EnvFields DEF Yields, Answered, x, n
  <2>. QED  BY <1>1, <1>3, <2>1, <2>2, <2>3, <2>6, Returned
<1>24. CASE OpenFails
  <2>1. /\ Top.pc = "open" /\ Fault /\ Return(Top.type) /\ unclosed' = unclosed + 1
        /\ UNCHANGED <<db, root>>
    BY <1>24 DEF OpenFails, At
  <2>2. /\ Asked(Env, x, "open") /\ Shape(Env, x) /\ x.arg = Top.type
        /\ x.name = Top.name /\ x.room = MaxDepth + 1 - n
        /\ Top.type.Fields = << >> /\ Top.type = FreshArg
    <3>1. Top.pc \in {"open", "row", "base"}  BY <2>1
    <3>. QED  BY <1>10, <2>1, <3>1 DEF Asked
  <2>3. Grows(Env, Env') /\ Env'.wild = unclosed + 1 /\ Len(heap) <= Len(heap')
    <3>1. heap' = heap \/ heap' = Append(heap, Top.type)
      BY <2>1 DEF Return, ReturnResult, ReturnBase, ReturnField
    <3>2. Len(heap') \in Nat /\ Len(heap) <= Len(heap')
          /\ \A p \in 1 .. Len(heap) : heap'[p] = heap[p]
      <4>1. IsSeq(heap)  BY DEF IInv, Sequences
      <4>. QED  BY <1>2, <3>1, <4>1, Pushed
    <3>. QED  BY <1>2, <1>5, <2>1, <3>2 DEF Grows, Env
  <2> DEFINE m == Mark(Len(heap), unclosed + 1)
             y == Node(x.place, FreshArg, x.name, x.room, x.start, [k \in 0 .. 0 |-> m])
  <2>4. /\ y.place = x.place /\ y.arg = FreshArg /\ y.name = x.name
        /\ y.room = x.room /\ y.start = x.start /\ y.marks = [k \in 0 .. 0 |-> m]
    BY DEF Node
  <2>. HIDE DEF y
  <2>5. x.start = Mark(Len(heap), unclosed)
    BY <1>4, <2>2, PrefixOfNothing DEF Asked, End
  <2>6. FreshArg.Fields = << >> /\ Len(FreshArg.Fields) = 0 /\ IsSeq(FreshArg.Fields)
        /\ FreshArg.baseType = WILD /\ DOMAIN FreshArg = ArgFields
    <3>1. << >> \in Seq({})  OBVIOUS
    <3>2. IsSeq(<< >>)  BY <3>1 DEF IsSeq
    <3>. QED  BY <3>2, PrefixOfNothing DEF FreshArg, ArgFields
  <2>7. m \in Marks /\ m = Mark(x.start.cell, x.start.wild + 1)
        /\ Upto(x.start, m) /\ Upto(m, Reached(Env'))
    <3>1. Reached(Env') = Mark(Len(heap'), unclosed + 1)  BY <2>3 DEF Reached, Env
    <3>2. Len(heap') \in Nat  BY <2>3 DEF Grows, Env
    <3>. QED  BY <1>2, <2>3, <2>5, <3>1, <3>2 DEF Mark, Marks, Upto
  <2>. HIDE DEF m
  <2>8. 0 .. 0 = {0} /\ y.marks[0] = m /\ y.marks \in [0 .. 0 -> Marks]
    BY <2>4, <2>7
  <2>9. Shape(Env', y)
    BY <2>2, <2>4, <2>6, <2>7, <2>8 DEF Shape
  <2>10. Whole(Env', W, y)
    BY <2>4, <2>6, <2>7, <2>8, <2>9 DEF Whole, BaseOf
  <2>11. Right(Env', y)
    <3>1. x.place \in Env'.failed  BY <1>5, <2>1 DEF Env
    <3>2. Unopened(FreshArg)
      <4> DEFINE b == Bare(FreshArg)
      <4>1. FreshArg = [i \in ArgFields |-> FreshArg[i]] /\ DOMAIN FreshArg = ArgFields
        BY DEF FreshArg, ArgFields
      <4>2. b = [i \in ArgFields |-> b[i]]
        BY <4>1 DEF Bare
      <4>4. FreshArg.name = NONE /\ FreshArg.order = NONE  BY DEF FreshArg
      <4>5. \A i \in ArgFields : b[i] = FreshArg[i]
        BY <4>1, <4>4 DEF Bare
      <4>. HIDE DEF b
      <4>3. b = FreshArg  BY <4>1, <4>2, <4>5
      <4>. QED  BY <4>3 DEF Unopened, b
    <3>. QED  BY <2>4, <3>1, <3>2 DEF Right
  <2>12. Yields(Env, stack, W, N, Env', y)
    <3>1. End(y) = Mark(Len(Env.heap), Env'.wild)
      BY <2>3, <2>4, <2>6, <2>8, EnvFields DEF End, m
    <3>. QED  BY <1>2, <2>2, <2>4, <2>10, <2>11, <3>1 DEF Yields, x, n
  <2>13. Return(y.arg) /\ DOMAIN y.arg = ArgFields  BY <2>1, <2>2, <2>4, <2>6
  <2>. QED  BY <1>1, <1>3, <2>1, <2>3, <2>12, <2>13, Returned
<1>. QED
  BY <1>9, <1>12, <1>13, <1>14, <1>15, <1>20, <1>21, <1>22, <1>23, <1>24 DEF Next

-----------------------------------------------------------------------------
(* The tree of the specification is among the nodes                        *)

G == INSTANCE Folding WITH
       Op <- LAMBDA p, found, level : found \cup UNION {Below(x) : x \in found}

Short(x) == [place |-> x.place, arg |-> x.arg, name |-> x.name]

LEMMA BelowNodes ==
  ASSUME NEW W, Closed(Env, W), IInv, NEW y \in W
  PROVE  Below(Short(y)) \subseteq {Short(v) : v \in W}
<1> DEFINE x == Short(y)
<1>1. x.place = y.place /\ x.arg = y.arg /\ x.name = y.name  BY DEF Short
<1>2. DOMAIN heap = 1 .. Len(heap) /\ Len(heap) \in Nat
  BY LengthNatural DEF IInv, Sequences, IsSeq
<1>3. Whole(Env, W, y) /\ IsSeq(y.arg.Fields)  BY DEF Closed, Whole, Shape
<1>4. DOMAIN y.arg.Fields = 1 .. Len(y.arg.Fields)  BY <1>3 DEF IsSeq
<1>. HIDE DEF x
<1>5. ASSUME NEW p \in {x.arg.baseType} \cap DOMAIN heap
      PROVE  \E v \in W : [place |-> Append(x.place, 0), arg |-> heap[p],
                           name |-> x.arg.baseTypeName] = Short(v)
  <2>1. p = y.arg.baseType /\ p \in 1 .. Len(heap)  BY <1>1, <1>2
  <2>2. PointsTo(Env, W, y, p)
    BY <1>3, <2>1, PointersAssumption DEF Whole, BaseOf
  <2>3. PICK v \in W : /\ v.place = Append(y.place, 0) /\ v.arg = heap[p]
                       /\ v.name = y.arg.baseTypeName
    BY <2>2, EnvFields DEF PointsTo, Child
  <2>. QED  BY <1>1, <2>3 DEF Short
<1>6. ASSUME NEW k \in DOMAIN x.arg.Fields \cap DOMAIN FieldsOf(x.name)
      PROVE  \E v \in W : [place |-> Append(x.place, k), arg |-> x.arg.Fields[k],
                           name |-> FieldsOf(x.name)[k].type] = Short(v)
  <2>1. k \in 1 .. Len(y.arg.Fields)  BY <1>1, <1>4
  <2>2. FieldsOf(x.name) = FieldsIn(Env.db, y.name)
    BY <1>1, InTheDatabase, EnvFields
  <2>3. PICK v \in W : /\ v.place = Append(y.place, k) /\ v.arg = y.arg.Fields[k]
                       /\ v.name = FieldsIn(Env.db, y.name)[k].type
    BY <1>3, <2>1 DEF Whole, FieldOf, Child
  <2>. QED  BY <1>1, <2>2, <2>3 DEF Short
<1>7. ASSUME NEW u \in Below(x) PROVE \E v \in W : u = Short(v)
  <2>1. CASE \E p \in {x.arg.baseType} \cap DOMAIN heap :
               u = [place |-> Append(x.place, 0), arg |-> heap[p],
                    name |-> x.arg.baseTypeName]
    BY <1>5, <2>1
  <2>2. CASE \E k \in DOMAIN x.arg.Fields \cap DOMAIN FieldsOf(x.name) :
               u = [place |-> Append(x.place, k), arg |-> x.arg.Fields[k],
                    name |-> FieldsOf(x.name)[k].type]
    BY <1>6, <2>2
  <2>. QED  BY <2>1, <2>2 DEF Below
<1>. QED  BY <1>7 DEF x

LEMMA TreeNodes ==
  ASSUME IInv, NEW W, Closed(Env, W), NEW y \in W, IsRoot(Env, y, result, root),
         MaxDepth \in Nat
  PROVE  Tree \subseteq {Short(v) : v \in W}
<1> DEFINE P == {Short(v) : v \in W}
           base == {[place |-> << >>, arg |-> result, name |-> root]}
           levels == [level \in 1 .. MaxDepth |-> level]
           I == [k \in 0 .. MaxDepth |-> SUBSET P]
<1>1. G!IsSequence(levels) /\ Len(levels) = MaxDepth
  BY DEF G!IsSequence
<1>2. base \in I[0]
  <2>1. Short(y) = [place |-> << >>, arg |-> result, name |-> root]
    BY DEF Short, IsRoot
  <2>2. base \subseteq P  BY <2>1
  <2>. QED  BY <2>2
<1>3. ASSUME NEW k \in 1 .. Len(levels), NEW S \in I[k - 1]
      PROVE  S \cup UNION {Below(x) : x \in S} \in I[k]
  <2>1. k - 1 \in 0 .. MaxDepth /\ k \in 0 .. MaxDepth  BY <1>1
  <2>2. S \subseteq P /\ I[k] = SUBSET P  BY <2>1
  <2>3. ASSUME NEW x \in S PROVE Below(x) \subseteq P
    BY <2>2, BelowNodes
  <2>. HIDE DEF P, I
  <2>. QED  BY <2>2, <2>3
<1>. HIDE DEF P, base, I, levels
<1>4. G!Fold(0, base, levels) \in I[Len(levels)]
  BY <1>1, <1>2, <1>3, G!FoldInduction
<1>5. I[Len(levels)] = SUBSET P  BY <1>1 DEF I
<1>6. Tree = G!Fold(0, base, levels)
  BY DEF Tree, base, levels, G!Fold, G!FoldLeft, FoldLeft, G!MapThenFoldSet,
         MapThenFoldSet, G!Max, Max
<1>. QED  BY <1>4, <1>5, <1>6 DEF P

-----------------------------------------------------------------------------
(* The inductive invariant of the tree                                     *)

Counted == IsFiniteSet(failed) /\ Cardinality(failed) <= faults

TreeInv == Filled /\ Walk /\ Counted

LEMMA InitTreeInv == ResultInit => TreeInv
<1>. SUFFICES ASSUME ResultInit PROVE TreeInv  OBVIOUS
<1>1. /\ stack = <<Frame(root)>> /\ heap = << >> /\ unclosed = 0 /\ faults = 0
      /\ outcome = "running" /\ failed = {} /\ stage = "reading"
      /\ walk = << >> /\ deleted = << >> /\ Len(stack) = 1 /\ stack[1] = Frame(root)
      /\ MaxDepth \in Nat \ {0}
  BY BoundsAssumption DEF ResultInit, Init
<1> DEFINE x == Node(PlaceIn(stack, 1), FreshArg, root, MaxDepth, Mark(0, 0),
                     [k \in 0 .. 0 |-> Mark(0, 0)])
           N == [k \in 1 .. 1 |-> x]
<1>2. /\ x.place = PlaceIn(stack, 1) /\ x.arg = FreshArg /\ x.name = root
      /\ x.room = MaxDepth /\ x.start = Mark(0, 0)
      /\ x.marks = [k \in 0 .. 0 |-> Mark(0, 0)]
  BY DEF Node
<1>. HIDE DEF x
<1>3. N[1] = x /\ \A k \in 1 .. 1 : k = 1  OBVIOUS
<1>. HIDE DEF N
<1>4. Reached(Env) = Mark(0, 0)  BY <1>1, EnvFields
<1>5. FreshArg.Fields = << >> /\ Len(<< >>) = 0 /\ IsSeq(<< >>)
  <2>1. << >> \in Seq({})  OBVIOUS
  <2>. QED  BY <2>1 DEF FreshArg, IsSeq
<1>6. 0 .. 0 = {0} /\ x.marks[0] = Mark(0, 0) /\ Mark(0, 0) \in Marks
      /\ Upto(Mark(0, 0), Mark(0, 0)) /\ x.marks \in [0 .. 0 -> Marks]
  BY <1>2 DEF Mark, Marks, Upto
<1>7. Held(Env, {}, x, Frame(root), 1)
  <2>1. Shape(Env, x)  BY <1>1, <1>2, <1>4, <1>5, <1>6 DEF Shape
  <2>2. MaxDepth + 1 - 1 = MaxDepth  BY <1>1
  <2>. QED  BY <1>2, <1>6, <2>1, <2>2 DEF Held, Asked, Frame
<1>8. Reads(Env, stack, {}, N)
  <2>1. End(x) = Reached(Env)  BY <1>2, <1>4, <1>5, <1>6 DEF End
  <2>. QED  BY <1>1, <1>2, <1>3, <1>7, <2>1 DEF Reads, Closed
<1>9. Filled  BY <1>1, <1>8 DEF Filled
<1>10. Walk
  <2>1. << >> = [k \in 1 .. 0 |-> k] /\ Len(<< >>) = 0  OBVIOUS
  <2>. QED  BY <1>1, <2>1 DEF Walk
<1>11. Counted  BY <1>1, FS_EmptySet DEF Counted
<1>. QED  BY <1>9, <1>10, <1>11 DEF TreeInv

LEMMA NextTreeInv ==
  IInv /\ DepthInv /\ TreeInv /\ [ResultNext]_resultVars => TreeInv'
<1>. SUFFICES ASSUME IInv, DepthInv, TreeInv, [ResultNext]_resultVars PROVE TreeInv'
  OBVIOUS
<1>1. CASE Reading
  <2>1. Next /\ Noted /\ UNCHANGED <<stage, walk, deleted>>
    BY <1>1 DEF Reading, Noted
  <2>2. Filled'  BY <2>1, NextFilled DEF TreeInv
  <2>3. outcome = "running"
    BY <2>1 DEF Next, Open, OpenFails, SelectType, SelectTypeFails, CallBase, NoBase,
           SelectMembers, CallField, FieldsEnd, FieldsFail, SelectValues, Close, At
  <2>4. Walk'
    <3>1. stage = "reading"  BY <2>3 DEF TreeInv, Walk
    <3>. QED  BY <2>1, <3>1 DEF TreeInv, Walk
  <2>5. faults' = faults \/ faults' = faults + 1
    BY <2>1 DEF Next, Open, OpenFails, SelectType, SelectTypeFails, CallBase, NoBase,
           SelectMembers, CallField, FieldsEnd, FieldsFail, SelectValues, Close, Fault
  <2>6. Counted'
    <3>1. IsFiniteSet(failed) /\ Cardinality(failed) <= faults /\ faults \in Nat
          /\ Cardinality(failed) \in Nat
      BY FS_CardinalityType, BoundsAssumption DEF TreeInv, Counted, DepthInv, Numbers
    <3>2. CASE faults' = faults  BY <2>1, <3>1, <3>2 DEF Noted, Counted
    <3>3. CASE faults' = faults + 1
      <4>1. failed' = failed \cup {Place}  BY <2>1, <3>1, <3>3 DEF Noted
      <4>2. /\ IsFiniteSet(failed \cup {Place})
            /\ Cardinality(failed \cup {Place}) <= Cardinality(failed) + 1
        BY <3>1, FS_AddElement
      <4>. QED  BY <3>1, <3>3, <4>1, <4>2, FS_CardinalityType DEF Counted
    <3>. QED  BY <2>5, <3>2, <3>3
  <2>. QED  BY <2>2, <2>4, <2>6 DEF TreeInv
<1>2. ASSUME UNCHANGED <<vars, failed>> PROVE Filled' /\ Counted' /\ Env' = Env
  <2>1. Env' = Env  BY <1>2 DEF Env, vars
  <2>. QED  BY <1>2, <2>1 DEF vars, TreeInv, Filled, Counted
<1>3. CASE Destroy
  <2>1. /\ stage = "reading" /\ outcome = "returned" /\ stage' = "deleting"
        /\ walk' = <<Visit(result)>> /\ UNCHANGED <<vars, failed, deleted>>
    BY <1>3 DEF Destroy
  <2>2. PICK W, x : Closed(Env, W) /\ x \in W /\ IsRoot(Env, x, result, root)
    BY <2>1 DEF TreeInv, Filled, Found
  <2> DEFINE N == [j \in 1 .. 1 |-> x]
             s == <<Visit(result)>>
  <2>3. IsSeq(s) /\ Len(s) = 1 /\ s[1] = Visit(result) /\ N[1] = x
    <3> DEFINE v == Visit(result)
    <3> HIDE DEF v
    <3>1. <<v>> \in Seq({v}) /\ Len(<<v>>) = 1 /\ <<v>>[1] = v  OBVIOUS
    <3>2. IsSeq(<<v>>)  BY <3>1 DEF IsSeq
    <3>3. N[1] = x  OBVIOUS
    <3>. QED  BY <3>1, <3>2, <3>3 DEF v
  <2>. HIDE DEF N, s
  <2>4. Visits(Env, W, x, Visit(result))
    BY <2>2 DEF Visits, Visit, WalkFields, IsRoot
  <2>5. Where(Visit(result), x) = Mark(0, 0)
    BY <2>2 DEF Where, Visit, IsRoot
  <2>6. MaxDepth \in Nat \ {0}  BY BoundsAssumption
  <2>7. Follows(Env, s, 0, W, N)
    <3>1. \A j \in 1 .. 1 : j = 1  OBVIOUS
    <3>2. x.room = MaxDepth + 1 - 1  BY <2>2, <2>6 DEF IsRoot
    <3>3. End(x) = Reached(Env)  BY <2>2 DEF IsRoot
    <3>. QED  BY <2>3, <2>4, <2>5, <3>1, <3>2, <3>3 DEF Follows
  <2>8. deleted = << >> /\ Len(deleted) = 0 /\ walk' = s
    BY <2>1 DEF TreeInv, Walk, s
  <2>9. Walk'
    BY <1>2, <2>1, <2>2, <2>3, <2>6, <2>7, <2>8 DEF TreeInv, Walk, vars
  <2>. QED  BY <1>2, <2>1, <2>9 DEF TreeInv
<1>4. CASE Deleting
  <2>1. Walk'  BY <1>4, DeletingWalk DEF TreeInv
  <2>2. UNCHANGED <<vars, failed>>
    BY <1>4 DEF Deleting, DistrBase, DeleteBase, NothingToDelete, DistrField,
                DistrReturns, BadAccess
  <2>. QED  BY <1>2, <2>1, <2>2 DEF TreeInv
<1>5. CASE UNCHANGED resultVars
  <2>1. UNCHANGED <<vars, failed>> /\ UNCHANGED <<stage, walk, deleted>>
    BY <1>5 DEF resultVars
  <2>2. Walk'  BY <1>2, <2>1 DEF TreeInv, Walk, vars
  <2>. QED  BY <1>2, <2>1, <2>2 DEF TreeInv
<1>. QED  BY <1>1, <1>3, <1>4, <1>5 DEF ResultNext

\* Nothing that is recorded of typeInformation, and no step of distr, changes
\* what typeInformation does: with its history and the destruction of what it
\* returns it is still the specification of TypeInformation, of which the
\* theorems above are.
THEOREM ResultReads == ResultSpec => Spec
<1>1. ResultInit => Init  BY DEF ResultInit
<1>2. [ResultNext]_resultVars => [Next]_vars
  BY DEF ResultNext, Reading, Destroy, Deleting, DistrBase, DeleteBase,
         NothingToDelete, DistrField, DistrReturns, BadAccess, resultVars
<1>. QED  BY <1>1, <1>2, PTL DEF ResultSpec, Spec

LEMMA TreeInvariant == ResultSpec => [](IInv /\ DepthInv /\ TreeInv)
<1>1. ResultInit => TreeInv  BY InitTreeInv
<1>2. IInv /\ DepthInv /\ TreeInv /\ [ResultNext]_resultVars => TreeInv'
  BY NextTreeInv
<1>3. ResultSpec => [](IInv /\ DepthInv)  BY ResultReads, DepthInvariant, PTL
<1>. QED  BY <1>1, <1>2, <1>3, PTL DEF ResultSpec

\* Whatever the database, whatever the order of the calls and the failures among
\* them: everywhere in the tree but at the places where a call failed is what the
\* database says, and at those something is missing and nothing wrong.
THEOREM DefectsAreFaultsHold == ResultSpec => []DefectsAreFaults
<1>1. IInv /\ DepthInv /\ TreeInv => DefectsAreFaults
  <2>. SUFFICES ASSUME IInv, DepthInv, TreeInv, outcome = "returned"
                PROVE  /\ \A x \in Tree :
                            \/ Describes(x.arg, x.name) /\ Complete(x.arg, x.name)
                            \/ /\ x.place \in failed
                               /\ \/ Unopened(x.arg) \/ Unread(x.arg, x.name)
                                  \/ Describes(x.arg, x.name)
                       /\ Cardinality(failed) <= faults
    BY DEF DefectsAreFaults
  <2>1. PICK W, y : Closed(Env, W) /\ y \in W /\ IsRoot(Env, y, result, root)
    BY DEF TreeInv, Filled, Found
  <2>2. Tree \subseteq {Short(v) : v \in W}
    BY <2>1, TreeNodes, BoundsAssumption
  <2>3. ASSUME NEW x \in Tree
        PROVE  \/ Describes(x.arg, x.name) /\ Complete(x.arg, x.name)
               \/ /\ x.place \in failed
                  /\ \/ Unopened(x.arg) \/ Unread(x.arg, x.name)
                     \/ Describes(x.arg, x.name)
    <3>1. PICK v \in W : x = Short(v)  BY <2>2
    <3>2. x.place = v.place /\ x.arg = v.arg /\ x.name = v.name  BY <3>1 DEF Short
    <3>3. Right(Env, v)  BY <2>1 DEF Closed
    <3>. QED  BY <3>2, <3>3, TreeInTheDatabase, EnvFields DEF Right
  <2>. QED  BY <2>3 DEF TreeInv, Counted
<1>. QED  BY <1>1, TreeInvariant, PTL

\* ~Result deletes every object that typeInformation made, once, in the order in
\* which they were made, and follows no pointer to what is deleted; it meets a
\* pointer that was never set only if a connection could not be opened, and has
\* room for all its frames.
THEOREM DestructionExactHolds == ResultSpec => []DestructionExact
<1>1. TreeInv => DestructionExact  BY DEF TreeInv, Walk, DestructionExact
<1>. QED  BY <1>1, TreeInvariant, PTL
=============================================================================
