------------------------------- MODULE Printer -------------------------------
(***************************************************************************)
(* PrinterFuncInfo (BeautiFunc.cpp): for each argument of the Result it    *)
(* goes down the chain of bases of the type, reads through the pointers on *)
(* the way out of the memory of the process, and puts the text together    *)
(* that explains the value.                                                *)
(*                                                                         *)
(* A string that holds a number stands for the number, which is as wide as *)
(* a pointer.  Memory is bytes, the lowest first; the printer reads an int *)
(* of them, four, wherever it follows a pointer, and eight for a field of  *)
(* a structure.  What the program does after an access to memory that is   *)
(* not there, with a variable that nobody has set, or after writing past   *)
(* the end of a string, is the outcome "undefined".                        *)
(***************************************************************************)
EXTENDS Integers, FiniteSetsExt, SequencesExt

CONSTANTS
  Byte,  \* how many numbers a byte holds
  Calls  \* the calls to be printed: arguments, args and memory

ASSUME ByteAssumption == Byte \in Nat \ {0, 1}

\* How many numbers there are of so many bytes.
Cap(size) ==
  LET word == Byte * Byte
      int  == word * word
  IN  CASE size = 1 -> Byte
        [] size = 2 -> word
        [] size = 4 -> int
        [] OTHER    -> int * int

Half == Cap(4)

Wide == 0 .. Half * Half - 1

\* The number that so many bytes stand for when the highest bit is a sign.
Signed(v, size) == IF 2 * v >= Cap(size) THEN v - Cap(size) ELSE v

\* What is in memory at p, in one, two, four and eight bytes.
Word(memory, p) == memory[p] + Byte * memory[p + 1]
Dword(memory, p) == Word(memory, p) + Cap(2) * Word(memory, p + 2)
Qword(memory, p) == Dword(memory, p) + Half * Dword(memory, p + 4)

At(memory, p, size) ==
  CASE size = 1 -> memory[p]
    [] size = 2 -> Word(memory, p)
    [] size = 4 -> Dword(memory, p)
    [] OTHER    -> Qword(memory, p)

Cells(p, size) == p .. p + size - 1

\* A text of characters of two bytes begins at p, and ends.
TextAt(memory, p) ==
  \E q \in DOMAIN memory :
    /\ q >= p /\ (q - p) % 2 = 0
    /\ Cells(p, q - p + 2) \subseteq DOMAIN memory /\ Word(memory, q) = 0

\* The text of a value: its digits, after 0x or without.
Literals == [hex : BOOLEAN, digits : Seq(0 .. 15)]

\* A type of a chain; the last one has no base.  The database does not have size
\* and signed, which are those of the headers: the printer cannot look at them.
Node == [kind : STRING, base : STRING, size : Nat, signed : BOOLEAN,
         defs : Seq([name : STRING, text : Literals]), fields : Nat]

\* The first type at or below k that is neither an alias nor an array, which
\* lies where its first element does.
Below(c, k) ==
  LET ks == {m \in k .. Len(c) : c[m].kind \notin {"Alias", "Array"}}
  IN  IF ks = {} THEN Len(c) ELSE Min(ks)

NamesOfVoid == {"VOID", "void"}
NoKinds == {"Void", ""}

\* In ApiMonitor.db only these have a base, and VOID and void stand for the type
\* of nothing, or for one that a query has failed to read.
HasShape(c) ==
  \A k \in DOMAIN c :
    /\ c[k].kind = "Integer" => c[k].size \in {1, 2, 4, 8}
    /\ c[k].kind = "Floating" => c[k].size \in {4, 8}
    /\ c[k].kind = "Pointer" => c[k].size = 8
    /\ k < Len(c) =>
         /\ c[k].kind \in {"Alias", "Array", "Pointer"}
         /\ c[k].base \in NamesOfVoid => c[Below(c, k + 1)].kind \in NoKinds
         /\ c[k + 1].kind = "Void" => c[k].base \in NamesOfVoid

\* typeInformation returns an Arg whose base pointer nobody has set only without
\* anything else in it, and never for the argument itself.
UnsetAtEnd(c) ==
  Len(c) > 1 /\ Last(c).kind = "" /\ Last(c).defs = << >> /\ Last(c).fields = 0

\* Arguments with the chains of their types, which are unset where there should
\* be no further base; the strings of the caller, those that are short of 18
\* characters, and the memory.
IsCall(c) ==
  /\ c.arguments \in Seq([order : Nat, chain : Seq(Node) \ {<< >>},
                          unset : BOOLEAN])
  /\ \A k \in DOMAIN c.arguments :
       LET a == c.arguments[k]
       IN  HasShape(a.chain) /\ (a.unset => UnsetAtEnd(a.chain))
  /\ c.args \in Seq(Wide) /\ c.short \subseteq DOMAIN c.args
  /\ DOMAIN c.memory \subseteq Wide \ {0}
  /\ c.memory \in [DOMAIN c.memory -> 0 .. Byte - 1]

ASSUME CallsAssumption == \A c \in Calls : IsCall(c)

-----------------------------------------------------------------------------
VARIABLES
  call,     \* what is printed
  args,     \* args: the strings of the caller, which are written over
  turn,     \* arg: whose turn it is
  pc,       \* "next", "walk" (the while loop) or "end" (what follows it)
  node,     \* baseArg: the place in the chain
  prev,     \* beautiValPrev
  text,     \* beautiVal, as tokens
  pars,     \* countPars
  isFlag, strFlag,
  lines,    \* the texts that were printed
  outcome   \* "running", "returned" or "undefined"

vars == <<call, args, turn, pc, node, prev, text, pars, isFlag, strFlag, lines,
          outcome>>

Init ==
  /\ call \in Calls /\ args = call.args
  /\ turn = 1 /\ pc = "next" /\ node = 0
  /\ prev = <<"name", "">> /\ text = << >> /\ pars = 0
  /\ isFlag = FALSE /\ strFlag = FALSE
  /\ lines = << >> /\ outcome = "running"

-----------------------------------------------------------------------------
Low(v) == v % Half

Number(v) == <<"number", v>>
Name(n) == <<"name", n>>
Open == <<"open">>
Close == <<"close">>

Argument == call.arguments[turn]
Chain == Argument.chain
Here == Chain[node]
Base == Chain[node + 1]

\* The number in str, which is the string args[arg->order].
Raw == args[Argument.order + 1]

\* sscanf "%x": the digits are hexadecimal, whatever they were meant to be.
ReadHex(literal) == FoldLeft(LAMBDA n, d : 16 * n + d, 0, literal.digits)

\* The values of the type that are equal to str in their lower halves.
Hits == {k \in DOMAIN Here.defs : Low(ReadHex(Here.defs[k].text)) = Low(Raw)}

\* Lines 55-67: the values of the type are compared with str.
LookUp ==
  /\ isFlag' = (isFlag \/ Here.defs # << >>)
  /\ strFlag' = (strFlag \/ Hits # {})

Named == IF Hits = {} THEN prev ELSE Name(Here.defs[Min(Hits)].name)

-----------------------------------------------------------------------------
(* The head of the for loop                                                *)

Begin ==
  /\ outcome = "running" /\ pc = "next" /\ turn <= Len(call.arguments)
  /\ Argument.order + 1 \in DOMAIN args
  /\ prev' = Number(Raw) /\ text' = <<Number(Raw)>>
  /\ pars' = 0 /\ node' = 1
  /\ pc' = IF Len(Chain) > 1 THEN "walk" ELSE "end"
  /\ UNCHANGED <<call, args, turn, isFlag, strFlag, lines, outcome>>

\* argc is not looked at: the database may know more arguments than were given.
BeginBeyond ==
  /\ outcome = "running" /\ pc = "next" /\ turn <= Len(call.arguments)
  /\ Argument.order + 1 \notin DOMAIN args
  /\ outcome' = "undefined"
  /\ UNCHANGED <<call, args, turn, pc, node, prev, text, pars, isFlag, strFlag,
                 lines>>

-----------------------------------------------------------------------------
(* One turn of the while loop                                              *)

Walking == outcome = "running" /\ pc = "walk"

\* Mutant: baseArg is not advanced.
DescendNever == node' = node /\ pc' = "walk"

Descend ==
  /\ node' = node + 1
  /\ pc' = IF node + 1 < Len(Chain) THEN "walk" ELSE "end"

PassAlias ==
  /\ Walking /\ Here.kind # "Pointer"
  /\ LookUp /\ prev' = Named
  /\ Descend
  /\ UNCHANGED <<call, args, turn, text, pars, lines, outcome>>

ToObject == Here.kind = "Pointer" /\ Base.kind \in {"TCharacter", "Struct"}
ToVoid == Here.kind = "Pointer" /\ ~ToObject /\ Here.base \in NamesOfVoid

\* The address is kept for what follows the loop.
PassObject ==
  /\ Walking /\ ToObject
  /\ LookUp /\ prev' = Named
  /\ pars' = pars + 1
  /\ Descend
  /\ UNCHANGED <<call, args, turn, text, lines, outcome>>

\* break
StopAtNull ==
  /\ Walking /\ Here.kind = "Pointer" /\ ~ToObject /\ Raw = 0
  /\ LookUp /\ prev' = Name("NULL")
  /\ text' = text \o <<Open, Name("NULL"), Close>>
  /\ pc' = "end"
  /\ UNCHANGED <<call, args, turn, node, pars, lines, outcome>>

\* Mutant: countPars is decremented and the branch left.
PassVoidTwice ==
  /\ Walking /\ ToVoid /\ Raw # 0
  /\ LookUp /\ prev' = Name("VOID")
  /\ pars' = pars - 1
  /\ Descend
  /\ UNCHANGED <<call, args, turn, text, lines, outcome>>

\* --countPars and ++countPars
PassVoid ==
  /\ Walking /\ ToVoid /\ Raw # 0
  /\ LookUp /\ prev' = Name("VOID")
  /\ Descend
  /\ UNCHANGED <<call, args, turn, text, pars, lines, outcome>>

\* Mutant: null is followed as well.
FollowingBlindly == Walking /\ Here.kind = "Pointer" /\ ~ToObject /\ ~ToVoid

Following == Walking /\ Here.kind = "Pointer" /\ ~ToObject /\ ~ToVoid /\ Raw # 0

\* The memory that an int is read from, and the string it is written over.
Readable == Cells(Raw, 4) \subseteq DOMAIN call.memory
Roomy == Argument.order + 1 \notin call.short

\* Mutant: the address is read instead of what is there.
FollowNowhere ==
  /\ Following /\ Readable /\ Roomy
  /\ LookUp
  /\ LET v == Low(Raw)
     IN  /\ args' = [args EXCEPT ![Argument.order + 1] = v]
         /\ prev' = Number(v)
         /\ text' = text \o <<Open, Number(v)>>
  /\ pars' = pars + 1
  /\ Descend
  /\ UNCHANGED <<call, turn, lines, outcome>>

\* An int is read, whatever the type, and printed without its sign over the
\* string of the caller: "0x%016X".
Follow ==
  /\ Following /\ Readable /\ Roomy
  /\ LookUp
  /\ LET v == Dword(call.memory, Raw)
     IN  /\ args' = [args EXCEPT ![Argument.order + 1] = v]
         /\ prev' = Number(v)
         /\ text' = text \o <<Open, Number(v)>>
  /\ pars' = pars + 1
  /\ Descend
  /\ UNCHANGED <<call, turn, lines, outcome>>

\* There is no int at the address, or no room for its 18 characters.
FollowWild ==
  /\ Following /\ ~(Readable /\ Roomy)
  /\ outcome' = "undefined"
  /\ UNCHANGED <<call, args, turn, pc, node, prev, text, pars, isFlag, strFlag,
                 lines>>

-----------------------------------------------------------------------------
(* After the loop                                                          *)

Ending == outcome = "running" /\ pc = "end"

IsNumber == prev[1] = "number"

\* The condition of the loop is a pointer that nobody has set.  It may happen to be
\* null; otherwise the loop goes on with what is not there.
FollowUnset ==
  /\ Ending /\ Argument.unset /\ node = Len(Chain)
  /\ outcome' = "undefined"
  /\ UNCHANGED <<call, args, turn, pc, node, prev, text, pars, isFlag, strFlag,
                 lines>>

\* Mutant: the argument ends without its closing parentheses.
EmitUnclosed(explained) ==
  /\ lines' = Append(lines, text \o explained)
  /\ turn' = turn + 1 /\ pc' = "next" /\ node' = 0
  /\ UNCHANGED <<call, args, prev, text, pars, outcome>>

\* The explanation, the parentheses of the pointers, the line.
Emit(explained) ==
  /\ lines' = Append(lines, text \o explained \o [k \in 1 .. pars |-> Close])
  /\ turn' = turn + 1 /\ pc' = "next" /\ node' = 0
  /\ UNCHANGED <<call, args, prev, text, pars, outcome>>

\* Mutant: the flags are left as they are.
PrintFlagStays ==
  /\ Ending /\ Here.kind = "Integer" /\ isFlag
  /\ Emit(<<Open, IF strFlag THEN prev ELSE Name("NULL"), Close>>)
  /\ UNCHANGED <<isFlag, strFlag>>

PrintFlag ==
  /\ Ending /\ Here.kind = "Integer" /\ isFlag
  /\ Emit(<<Open, IF strFlag THEN prev ELSE Name("NULL"), Close>>)
  /\ isFlag' = FALSE /\ strFlag' = FALSE

\* long long
PrintNumber ==
  /\ Ending /\ Here.kind = "Integer" /\ ~isFlag /\ IsNumber
  /\ Emit(<<Open, Number(Signed(prev[2], 8)), Close>>)
  /\ UNCHANGED <<isFlag, strFlag>>

\* The number is taken for the bits of a double.
Double(v) == <<"double", v>>

PrintDouble ==
  /\ Ending /\ Here.kind = "Floating" /\ IsNumber
  /\ Emit(<<Open, Double(prev[2]), Close>>)
  /\ UNCHANGED <<isFlag, strFlag>>

\* A field is taken to be as wide as a pointer, and printed as an int.
FieldsThere ==
  \/ Here.fields = 0
  \/ IsNumber /\ Cells(prev[2], 8 * Here.fields) \subseteq DOMAIN call.memory

PrintStruct ==
  /\ Ending /\ Here.kind = "Struct" /\ FieldsThere
  /\ Emit(<<Open>>
          \o [k \in 1 .. Here.fields |->
                Number(Signed(Dword(call.memory, prev[2] + 8 * (k - 1)), 4))]
          \o <<Close>>)
  /\ UNCHANGED <<isFlag, strFlag>>

TextThere == IsNumber /\ TextAt(call.memory, prev[2])

PrintText ==
  /\ Ending /\ Here.kind = "TCharacter" /\ TextThere
  /\ Emit(<<Open, <<"text", prev[2]>>, Close>>)
  /\ UNCHANGED <<isFlag, strFlag>>

\* Kinds that nothing is said about, a pointer that is null among them.
PrintBare ==
  /\ Ending /\ Here.kind \notin {"Integer", "Floating", "Struct", "TCharacter"}
  /\ Emit(<< >>)
  /\ UNCHANGED <<isFlag, strFlag>>

\* sscanf fails on a name, and the address or number stays what it was; or
\* the address is not that of anything.
PrintWild ==
  /\ Ending
  /\ \/ Here.kind = "Struct" /\ ~FieldsThere
     \/ Here.kind = "TCharacter" /\ ~TextThere
     \/ Here.kind = "Integer" /\ ~isFlag /\ ~IsNumber
     \/ Here.kind = "Floating" /\ ~IsNumber
  /\ outcome' = "undefined"
  /\ UNCHANGED <<call, args, turn, pc, node, prev, text, pars, isFlag, strFlag,
                 lines>>

Return ==
  /\ outcome = "running" /\ pc = "next" /\ turn > Len(call.arguments)
  /\ outcome' = "returned"
  /\ UNCHANGED <<call, args, turn, pc, node, prev, text, pars, isFlag, strFlag,
                 lines>>

Next ==
  \/ Begin \/ BeginBeyond
  \/ PassAlias \/ PassObject \/ StopAtNull \/ PassVoid \/ Follow \/ FollowWild
  \/ FollowUnset
  \/ PrintFlag \/ PrintNumber \/ PrintDouble \/ PrintStruct \/ PrintText
  \/ PrintBare \/ PrintWild
  \/ Return

Spec == Init /\ [][Next]_vars

\* A single thread.
FairSpec == Spec /\ WF_vars(Next)

-----------------------------------------------------------------------------
(* What a value means                                                      *)

\* How many bytes of a type are its value.  For a type that is no number nobody
\* asks; the first four stand for it.
Width(type) ==
  IF type.kind \in {"Integer", "Floating", "Pointer"} THEN type.size ELSE 4

\* The pointer v at the place k of the chain c leads to such a value: those to
\* structures, text and nothing stand for themselves.
Reads(memory, c, k, v) ==
  LET type == c[Below(c, k + 1)]
  IN  /\ c[k].kind = "Pointer" /\ c[k].base \notin NamesOfVoid
      /\ type.kind \notin {"Struct", "TCharacter", "Void"}
      /\ v # 0 /\ Cells(v, Width(type)) \subseteq DOMAIN memory

\* What the type at each place of the chain has for a value when the argument
\* is v.
Denotes(memory, c, v) ==
  LET f[k \in DOMAIN c] ==
        IF k = 1 THEN v
        ELSE IF Reads(memory, c, k - 1, f[k - 1])
             THEN At(memory, f[k - 1], Width(c[Below(c, k)]))
             ELSE f[k - 1]
  IN  f

Meant(a) == Denotes(call.memory, a.chain, call.args[a.order + 1])

\* A pointer to the type may be p.
Reaches(memory, type, p) ==
  CASE type.kind = "TCharacter" -> TextAt(memory, p)
    [] type.kind = "Void"       -> TRUE
    [] OTHER                    -> Cells(p, type.size) \subseteq DOMAIN memory

\* The pointers of an argument are null or good, to the end of the chain.
Good(memory, c, v) ==
  \A k \in 1 .. Len(c) - 1 :
    LET p == Denotes(memory, c, v)[k]
    IN  c[k].kind = "Pointer" /\ p # 0 => Reaches(memory, c[Below(c, k + 1)], p)

GoodPointers(a) == Good(call.memory, a.chain, call.args[a.order + 1])

-----------------------------------------------------------------------------
(* Properties                                                              *)

\* The shape of the variables; std::string(countPars, ')') gets no negative
\* number.
TypeOK ==
  /\ IsCall(call) /\ args \in [DOMAIN call.args -> Wide]
  /\ turn \in 1 .. Len(call.arguments) + 1
  /\ pc \in {"next", "walk", "end"} /\ node \in Nat /\ pars \in Nat
  /\ isFlag \in BOOLEAN /\ strFlag \in BOOLEAN
  /\ Len(lines) = turn - 1
  /\ outcome \in {"running", "returned", "undefined"}

\* A pointer whose base is a structure, text or nothing behind an alias or in an
\* array: the tests of lines 77, 80 and 89 look one type ahead.
Hidden(a) ==
  \E k \in 1 .. Len(a.chain) - 1 :
    /\ a.chain[k].kind = "Pointer" /\ a.chain[k + 1].kind \in {"Alias", "Array"}
    /\ a.chain[k].base \notin NamesOfVoid
    /\ a.chain[Below(a.chain, k + 1)].kind \in {"Struct", "TCharacter", "Void"}

HasValues(a) == \E k \in 1 .. Len(a.chain) - 1 : a.chain[k].defs # << >>

EndsIn(a, kinds) == Last(a.chain).kind \in kinds

\* A pointer of the argument is null.
NullOnTheWay(a) ==
  \E k \in 1 .. Len(a.chain) - 1 : a.chain[k].kind = "Pointer" /\ Meant(a)[k] = 0

ReadsAt(a, k) == Reads(call.memory, a.chain, k, Meant(a)[k])

\* A number that is read through a pointer and does not fit into an int.
Truncated(a) ==
  \E k \in 1 .. Len(a.chain) - 1 : ReadsAt(a, k) /\ Meant(a)[k + 1] >= Half

\* A pointer leads to less than an int, and is no pointer to a text.
Narrow(a) ==
  \E k \in 1 .. Len(a.chain) - 1 :
    LET type == a.chain[Below(a.chain, k + 1)]
    IN  /\ a.chain[k].kind = "Pointer" /\ type.size < 4
        /\ type.kind \notin {"Struct", "TCharacter", "Void"}

\* A structure is smaller than a pointer for each of its fields.
Packed(a) == Last(a.chain).size < 8 * Last(a.chain).fields

\* The strings of two arguments in one place are one.
HasRival(a) ==
  \E k \in 1 .. turn - 1 : call.arguments[k].order = a.order

\* The printer comes to grief only in these cases: the caller gave fewer
\* arguments than the database has, a pointer that leads nowhere, or a string with
\* no room for what is written over it; a connection could not be opened below
\* the argument; it is the second in its place; an alias or array hides what a
\* pointer points to, which may be less than an int; the upper half of a pointer
\* was lost; a name stands where an address should; a pointer to a structure or
\* text is null, the structure or character is passed by value, or the fields of
\* the structure are smaller than they are taken to be.
TroubleExplained ==
  outcome = "undefined" =>
    \/ Argument.order >= Len(args)
    \/ ~GoodPointers(Argument)
    \/ ~Roomy /\ \E k \in DOMAIN Chain : Chain[k].kind = "Pointer"
    \/ Argument.unset
    \/ HasRival(Argument)
    \/ Hidden(Argument)
    \/ Truncated(Argument)
    \/ Narrow(Argument)
    \/ HasValues(Argument) /\ EndsIn(Argument, {"Struct", "TCharacter", "Floating"})
    \/ EndsIn(Argument, {"Struct"}) /\ Packed(Argument)
    \/ EndsIn(Argument, {"Struct", "TCharacter"})
       /\ \/ Last(Meant(Argument)) = 0
          \/ \A k \in DOMAIN Chain : Chain[k].kind # "Pointer"

\* What the bits v are in a type at the end of a chain, which has the lower ones.
ValueOf(type, v) ==
  LET bits == v % Cap(type.size)
  IN  IF type.kind = "Floating"
      THEN IF type.size = 8 THEN Double(bits) ELSE <<"float", bits>>
      ELSE Number(IF type.signed THEN Signed(bits, type.size) ELSE bits)

\* The bits v of such a type are no long long, or no double, of the same value: a
\* float; a negative number of less than eight bytes; a natural one of eight that
\* looks negative; or more than the type has room for.
Unlike(type, v) ==
  \/ type.kind = "Floating" /\ type.size # 8
  \/ type.kind = "Integer" /\ v >= Cap(type.size)
  \/ type.kind = "Integer" /\ type.signed /\ type.size # 8 /\ 2 * v >= Cap(type.size)
  \/ type.kind = "Integer" /\ ~type.signed /\ 2 * v >= Cap(8)

\* What stands behind the last parenthesis that a line opens.
Explanation(line) == line[Max({m \in DOMAIN line : line[m] = Open}) + 1]

\* An integer or a double is explained by the value of the last type of the chain,
\* if neither the argument nor one before it has values, none before it had its
\* place, its pointers are good and none of them is null, what is read on the way is
\* neither more nor less than an int, and the bits of the value have the same
\* meaning in the type they are printed as.
NumbersRight ==
  \A k \in DOMAIN lines :
    LET a == call.arguments[k]
        v == Last(Meant(a))
    IN  /\ EndsIn(a, {"Integer", "Floating"})
        /\ \A m \in 1 .. k : ~HasValues(call.arguments[m])
        /\ \A m \in 1 .. k - 1 : call.arguments[m].order # a.order
        /\ GoodPointers(a) /\ ~NullOnTheWay(a) /\ ~Truncated(a) /\ ~Narrow(a)
        /\ ~Unlike(Last(a.chain), v)
        => Explanation(lines[k]) = ValueOf(Last(a.chain), v)

Count(line, token) == Cardinality({k \in DOMAIN line : line[k] = token})

\* No parenthesis is left open; at most one too many is closed for each
\* pointer to a structure or text.
Parentheses ==
  \A k \in DOMAIN lines :
    LET c == call.arguments[k].chain
        surplus == Count(lines[k], Close) - Count(lines[k], Open)
    IN  /\ surplus >= 0
        /\ surplus <= Cardinality({m \in 1 .. Len(c) - 1 :
             c[m].kind = "Pointer" /\ c[m + 1].kind \in {"Struct", "TCharacter"}})

\* The flags are up between two arguments only if one that was printed has
\* values and the walk over it did not come to an integer: the type ends in
\* something else, or a pointer is null or leads nowhere, or came to be by an
\* earlier truncation or for an earlier argument in its place.  The next integer is
\* then printed as if it had values.
FlagsExplained ==
  pc = "next" /\ (isFlag \/ strFlag) =>
    \E k \in 1 .. turn - 1 :
      LET a == call.arguments[k]
      IN  /\ HasValues(a)
          /\ \/ ~EndsIn(a, {"Integer"})
             \/ NullOnTheWay(a) \/ ~GoodPointers(a)
             \/ Truncated(a)
             \/ \E m \in 1 .. k - 1 : call.arguments[m].order = a.order

\* Every argument is printed, or the outcome is undefined.
Ends == <>(outcome # "running")
=============================================================================
