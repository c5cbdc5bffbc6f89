---------------------------- MODULE PrinterProofs ----------------------------
(***************************************************************************)
(* PrinterFuncInfo over arguments of every length, types of every shape    *)
(* and memory with any contents: the shape of the variables, the account   *)
(* of the parentheses, what is printed for a number, and why the printer   *)
(* comes to grief.                                                         *)
(***************************************************************************)
EXTENDS Printer, FiniteSetTheorems, TLAPS

F == INSTANCE Folding WITH Op <- LAMBDA p, x, y : x

-----------------------------------------------------------------------------
(* Counting tokens                                                         *)

IsSeq(s) == \E S : s \in Seq(S)

\* The places of a line at which a token stands.
Places(line, token) == {k \in DOMAIN line : line[k] = token}

\* There are finitely many.
LEMMA PlacesFinite ==
  ASSUME NEW s, IsSeq(s), NEW x
  PROVE  /\ IsFiniteSet(Places(s, x)) /\ Places(s, x) \subseteq 1 .. Len(s)
         /\ Count(s, x) = Cardinality(Places(s, x)) /\ Count(s, x) \in Nat
<1>1. PICK S : s \in Seq(S)
  BY DEF IsSeq
<1>2. Len(s) \in Nat /\ DOMAIN s = 1 .. Len(s)
  BY <1>1
<1>3. Places(s, x) \subseteq 1 .. Len(s)
  BY <1>2 DEF Places
<1>4. IsFiniteSet(1 .. Len(s))
  BY <1>2, FS_Interval
<1>5. IsFiniteSet(Places(s, x))
  BY <1>3, <1>4, FS_Subset
<1>6. Count(s, x) = Cardinality(Places(s, x))
  BY DEF Count, Places
<1> QED
  BY <1>3, <1>5, <1>6, FS_CardinalityType

\* The elements of s, and after them those of t.
Join(u, s, t) ==
  /\ Len(u) = Len(s) + Len(t)
  /\ \A k \in 1 .. Len(s) : u[k] = s[k]
  /\ \A k \in 1 .. Len(t) : u[Len(s) + k] = t[k]

\* A sequence that is made of two.
LEMMA Joined ==
  ASSUME NEW X, NEW s \in Seq(X), NEW t \in Seq(X)
  PROVE  s \o t \in Seq(X) /\ Join(s \o t, s, t)
<1>1. s \o t \in Seq(X) /\ Len(s \o t) = Len(s) + Len(t)
  OBVIOUS
<1>2. \A k \in 1 .. Len(s) : (s \o t)[k] = s[k]
  OBVIOUS
<1>3. \A k \in 1 .. Len(t) : (s \o t)[Len(s) + k] = t[k]
  OBVIOUS
<1> QED
  BY <1>1, <1>2, <1>3 DEF Join

\* A line that is made of two has the tokens of both.
LEMMA CountConcat ==
  ASSUME NEW s, NEW t, IsSeq(s), IsSeq(t), NEW x
  PROVE  IsSeq(s \o t) /\ Count(s \o t, x) = Count(s, x) + Count(t, x)
<1> DEFINE A == Places(s, x)
           B == Places(t, x)
           C == {k + Len(s) : k \in B}
           f == [k \in B |-> k + Len(s)]
<1>1. PICK S : s \in Seq(S)
  BY DEF IsSeq
<1>2. PICK T : t \in Seq(T)
  BY DEF IsSeq
<1>3. s \in Seq(S \cup T) /\ t \in Seq(S \cup T)
  BY <1>1, <1>2
<1>4. /\ s \o t \in Seq(S \cup T) /\ Len(s \o t) = Len(s) + Len(t)
      /\ Len(s) \in Nat /\ Len(t) \in Nat
      /\ \A k \in 1 .. Len(s) + Len(t) :
           (s \o t)[k] = IF k <= Len(s) THEN s[k] ELSE t[k - Len(s)]
  BY <1>3
<1>5. DOMAIN (s \o t) = 1 .. Len(s) + Len(t) /\ DOMAIN s = 1 .. Len(s)
      /\ DOMAIN t = 1 .. Len(t)
  BY <1>3, <1>4
<1>6. Places(s \o t, x) = A \cup C
  <2>1. ASSUME NEW k \in Places(s \o t, x) PROVE k \in A \cup C
    <3>1. CASE k <= Len(s)
      BY <2>1, <3>1, <1>4, <1>5 DEF Places
    <3>2. CASE k > Len(s)
      <4>1. k - Len(s) \in B
        BY <2>1, <3>2, <1>4, <1>5 DEF Places
      <4>2. k = (k - Len(s)) + Len(s)
        BY <2>1, <1>4, <1>5 DEF Places
      <4> QED
        BY <4>1, <4>2
    <3> QED
      BY <2>1, <3>1, <3>2, <1>4, <1>5 DEF Places
  <2>2. ASSUME NEW k \in A PROVE k \in Places(s \o t, x)
    BY <2>2, <1>4, <1>5 DEF Places
  <2>3. ASSUME NEW k \in B PROVE k + Len(s) \in Places(s \o t, x)
    BY <2>3, <1>4, <1>5 DEF Places
  <2> QED
    BY <2>1, <2>2, <2>3
<1>7. A \cap C = {}
  BY <1>4, <1>5 DEF Places
<1>8. /\ IsFiniteSet(A) /\ IsFiniteSet(B) /\ B \subseteq Nat
      /\ Count(s, x) = Cardinality(A) /\ Count(t, x) = Cardinality(B)
      /\ Count(s, x) \in Nat /\ Count(t, x) \in Nat
  BY PlacesFinite, <1>4
<1>9. f \in Bijection(B, C)
  <2>1. f \in [B -> C]
    OBVIOUS
  <2>2. \A k, m \in B : f[k] = f[m] => k = m
    BY <1>4, <1>8
  <2>3. \A y \in C : \E k \in B : f[k] = y
    OBVIOUS
  <2> QED
    BY <2>1, <2>2, <2>3 DEF Bijection, Injection, Surjection, IsInjective
<1>10. IsFiniteSet(C) /\ Cardinality(C) = Cardinality(B)
  BY <1>8, <1>9, FS_Bijection DEF ExistsBijection
<1>11. Cardinality(A \cup C) = Cardinality(A) + Cardinality(C)
  <2>1. Cardinality(A \cup C)
          = Cardinality(A) + Cardinality(C) - Cardinality(A \cap C)
    BY <1>8, <1>10, FS_Union
  <2>2. Cardinality(A \cap C) = 0
    BY <1>7, FS_EmptySet, Zenon
  <2>3. Cardinality(A) \in Nat /\ Cardinality(C) \in Nat
    BY <1>8, <1>10, Zenon
  <2> HIDE DEF A, C
  <2> QED
    BY <2>1, <2>2, <2>3
<1>12. IsSeq(s \o t)
  BY <1>4 DEF IsSeq
<1> QED
  BY <1>6, <1>8, <1>10, <1>11, <1>12, PlacesFinite

\* A line of one token.
LEMMA CountOne ==
  ASSUME NEW y, NEW x
  PROVE  IsSeq(<<y>>) /\ Count(<<y>>, x) = IF y = x THEN 1 ELSE 0
<1>1. <<y>> \in Seq({y}) /\ DOMAIN <<y>> = {1} /\ <<y>>[1] = y
  OBVIOUS
<1>2. Places(<<y>>, x) = IF y = x THEN {1} ELSE {}
  BY <1>1 DEF Places
<1>3. Count(<<y>>, x) = Cardinality(Places(<<y>>, x))
  BY DEF Count, Places
<1> QED
  BY <1>1, <1>2, <1>3, FS_Singleton, FS_EmptySet DEF IsSeq

\* A line of equal tokens.
LEMMA CountRow ==
  ASSUME NEW y, NEW n \in Nat, NEW x
  PROVE  LET row == [k \in 1 .. n |-> y]
         IN  IsSeq(row) /\ Count(row, x) = IF y = x THEN n ELSE 0
<1> DEFINE row == [k \in 1 .. n |-> y]
<1>1. row \in Seq({y})
  OBVIOUS
<1>2. Places(row, x) = IF y = x THEN 1 .. n ELSE {}
  BY DEF Places
<1>3. Cardinality(1 .. n) = n
  BY FS_Interval
<1>4. Count(row, x) = Cardinality(Places(row, x))
  BY DEF Count, Places
<1> QED
  BY <1>1, <1>2, <1>3, <1>4, FS_EmptySet DEF IsSeq

\* A line without the token.
LEMMA CountNone ==
  ASSUME NEW s, IsSeq(s), NEW x, \A k \in DOMAIN s : s[k] # x
  PROVE  Count(s, x) = 0
<1>1. Places(s, x) = {}
  BY DEF Places
<1> QED
  BY <1>1, FS_EmptySet DEF Count, Places

-----------------------------------------------------------------------------
(* The invariant                                                           *)

NotPar(token) == token # Open /\ token # Close

\* Above the place k of a chain, the pointers to structures and text.
Objects(chain, k) ==
  {m \in 1 .. k - 1 :
     chain[m].kind = "Pointer" /\ chain[m + 1].kind \in {"Struct", "TCharacter"}}

\* What the walk owes: a parenthesis for each level it has opened and for each
\* object it has passed without opening one.
WalkInv ==
  /\ IsSeq(text) /\ IsSeq(lines) /\ NotPar(prev)
  /\ pc \in {"walk", "end"} =>
       /\ turn <= Len(call.arguments)
       /\ node \in 1 .. Len(Chain)
       /\ pc = "walk" => node < Len(Chain)
       /\ Count(text, Close) + pars
            = Count(text, Open) + Cardinality(Objects(Chain, node))

PrinterInv == TypeOK /\ WalkInv /\ Parentheses

\* A step down passes an object or none.
LEMMA ObjectsStep ==
  ASSUME NEW chain, NEW k \in Nat \ {0}
  PROVE  /\ Cardinality(Objects(chain, 1)) = 0
         /\ Cardinality(Objects(chain, k)) \in Nat
         /\ Cardinality(Objects(chain, k + 1)) =
              Cardinality(Objects(chain, k))
              + (IF /\ chain[k].kind = "Pointer"
                    /\ chain[k + 1].kind \in {"Struct", "TCharacter"}
                 THEN 1 ELSE 0)
<1>1. Objects(chain, 1) = {}
  BY DEF Objects
<1>2. /\ IsFiniteSet(Objects(chain, k))
      /\ Cardinality(Objects(chain, k)) \in Nat
      /\ Cardinality(Objects(chain, 1)) = 0
  <2>1. IsFiniteSet(1 .. k - 1)
    BY FS_Interval
  <2>2. Objects(chain, k) \in SUBSET (1 .. k - 1)
    BY DEF Objects
  <2> QED
    BY <1>1, <2>1, <2>2, FS_Subset, FS_CardinalityType, FS_EmptySet
<1>3. k \notin Objects(chain, k)
  BY DEF Objects
<1>4. CASE chain[k].kind = "Pointer" /\ chain[k + 1].kind \in {"Struct", "TCharacter"}
  <2>1. Objects(chain, k + 1) = Objects(chain, k) \cup {k}
    BY <1>4 DEF Objects
  <2>2. Cardinality(Objects(chain, k) \cup {k}) = Cardinality(Objects(chain, k)) + 1
    BY <1>2, <1>3, FS_AddElement, Zenon
  <2> QED
    BY <1>2, <1>4, <2>1, <2>2
<1>5. CASE ~(chain[k].kind = "Pointer" /\ chain[k + 1].kind \in {"Struct", "TCharacter"})
  <2>1. Objects(chain, k + 1) = Objects(chain, k)
    BY <1>5 DEF Objects
  <2> QED
    BY <1>2, <1>5, <2>1
<1> QED
  BY <1>4, <1>5

\* No more objects are passed than the whole chain has.
LEMMA ObjectsBound ==
  ASSUME NEW chain, Len(chain) \in Nat, NEW k \in 1 .. Len(chain)
  PROVE  /\ Cardinality(Objects(chain, k)) \in Nat
         /\ Cardinality(Objects(chain, Len(chain))) \in Nat
         /\ Cardinality(Objects(chain, k)) <= Cardinality(Objects(chain, Len(chain)))
<1>1. IsFiniteSet(Objects(chain, Len(chain)))
  <2>1. IsFiniteSet(1 .. Len(chain) - 1)
    BY FS_Interval
  <2>2. Objects(chain, Len(chain)) \in SUBSET (1 .. Len(chain) - 1)
    BY DEF Objects
  <2> QED
    BY <2>1, <2>2, FS_Subset
<1>2. Objects(chain, k) \subseteq Objects(chain, Len(chain))
  BY DEF Objects
<1> QED
  BY <1>1, <1>2, FS_Subset, FS_CardinalityType

\* Two digits below n are a number below n * n.
LEMMA PairBound ==
  ASSUME NEW n \in Nat, NEW a \in 0 .. n - 1, NEW b \in 0 .. n - 1
  PROVE  /\ a + n * b \in 0 .. n * n - 1
         /\ a + n * b < n => a + n * b = a
<1>1. n * b \in Nat
  OBVIOUS
<1>2. n * b <= n * (n - 1)
  OBVIOUS
<1>3. n * (n - 1) = n * n - n
  OBVIOUS
<1>4. b # 0 => n * b >= n
  OBVIOUS
<1>5. b = 0 => n * b = 0
  OBVIOUS
<1> QED
  BY <1>1, <1>2, <1>3, <1>4, <1>5

\* The numbers of one, two, four and eight bytes.
LEMMA Caps ==
  /\ Cap(1) = Byte /\ Cap(2) = Byte * Byte
  /\ Cap(4) = Half /\ Half = Cap(2) * Cap(2) /\ Cap(8) = Half * Half
  /\ Byte \in Nat /\ Cap(1) \in Nat /\ Cap(2) \in Nat /\ Half \in Nat /\ Cap(8) \in Nat
  /\ 0 < Cap(1) /\ Cap(1) <= Cap(2) /\ Cap(2) <= Half /\ Half <= Cap(8)
<1>1. Byte \in Nat /\ Byte >= 1
  BY ByteAssumption
<1>2. /\ Cap(1) = Byte /\ Cap(2) = Byte * Byte
      /\ Half = Cap(2) * Cap(2) /\ Cap(8) = Half * Half
  BY DEF Cap, Half
<1>3. ASSUME NEW n \in Nat, n >= 1 PROVE n * n \in Nat /\ n * n >= n /\ n * n >= 1
  <2>1. n * n >= n * 1
    BY <1>3
  <2> QED
    BY <1>3, <2>1
<1>4. Cap(2) \in Nat /\ Cap(2) >= 1 /\ Cap(2) >= Cap(1)
  BY <1>1, <1>2, <1>3
<1>5. Half \in Nat /\ Half >= 1 /\ Half >= Cap(2)
  BY <1>2, <1>3, <1>4
<1>6. Cap(8) \in Nat /\ Cap(8) >= Half
  BY <1>2, <1>3, <1>5
<1> QED
  BY <1>1, <1>2, <1>4, <1>5, <1>6 DEF Half

\* An int that is read from bytes, and what is read from eight of them.
LEMMA Readings ==
  ASSUME NEW memory, memory \in [DOMAIN memory -> 0 .. Byte - 1],
         NEW p \in Nat, Cells(p, 4) \subseteq DOMAIN memory
  PROVE  /\ Dword(memory, p) \in 0 .. Half - 1
         /\ Cells(p, 8) \subseteq DOMAIN memory /\ Qword(memory, p) < Half
              => Qword(memory, p) = Dword(memory, p)
<1>1. \A q \in DOMAIN memory : memory[q] \in 0 .. Byte - 1
  OBVIOUS
<1>2. ASSUME NEW q \in Nat, Cells(q, 2) \subseteq DOMAIN memory
      PROVE  Word(memory, q) \in 0 .. Cap(2) - 1
  <2>1. q \in DOMAIN memory /\ q + 1 \in DOMAIN memory
    BY <1>2 DEF Cells
  <2>2. memory[q] + Byte * memory[q + 1] \in 0 .. Byte * Byte - 1
    BY <1>1, <2>1, Caps, PairBound
  <2> QED
    BY <2>2, Caps DEF Word
<1>3. ASSUME NEW q \in Nat, Cells(q, 4) \subseteq DOMAIN memory
      PROVE  Dword(memory, q) \in 0 .. Half - 1
  <2>1. Cells(q, 2) \subseteq DOMAIN memory /\ Cells(q + 2, 2) \subseteq DOMAIN memory
    BY <1>3 DEF Cells
  <2>2. Word(memory, q) \in 0 .. Cap(2) - 1 /\ Word(memory, q + 2) \in 0 .. Cap(2) - 1
    BY <1>2, <2>1
  <2>3. Word(memory, q) + Cap(2) * Word(memory, q + 2) \in 0 .. Cap(2) * Cap(2) - 1
    BY <2>2, Caps, PairBound
  <2> QED
    BY <2>3, Caps DEF Dword
<1>4. ASSUME Cells(p, 8) \subseteq DOMAIN memory, Qword(memory, p) < Half
      PROVE  Qword(memory, p) = Dword(memory, p)
  <2>1. Cells(p + 4, 4) \subseteq DOMAIN memory
    BY <1>4 DEF Cells
  <2>2. Dword(memory, p) \in 0 .. Half - 1 /\ Dword(memory, p + 4) \in 0 .. Half - 1
    BY <1>3, <2>1
  <2> QED
    BY <1>4, <2>2, Caps, PairBound DEF Qword
<1> QED
  BY <1>3, <1>4

\* What an int can be fits into a string of args.
LEMMA HalfIsWide ==
  ASSUME NEW v \in 0 .. Half - 1
  PROVE  v \in Wide
BY Caps DEF Wide

\* What is closed in order: a token between parentheses, and the opening of a
\* level by itself.
LEMMA CountBracket ==
  ASSUME NEW y, NotPar(y)
  PROVE  /\ IsSeq(<<Open, y, Close>>) /\ IsSeq(<<Open, y>>) /\ IsSeq(<< >>)
         /\ Count(<<Open, y, Close>>, Open) = 1
         /\ Count(<<Open, y, Close>>, Close) = 1
         /\ Count(<<Open, y>>, Open) = 1 /\ Count(<<Open, y>>, Close) = 0
         /\ Count(<< >>, Open) = 0 /\ Count(<< >>, Close) = 0
<1>1. /\ <<Open, y, Close>> \in Seq({Open, y, Close})
      /\ <<Open, y>> \in Seq({Open, y}) /\ << >> \in Seq({})
  OBVIOUS
<1>2. Open # Close
  BY DEF Open, Close
<1>3. /\ Places(<<Open, y, Close>>, Open) = {1}
      /\ Places(<<Open, y, Close>>, Close) = {3}
      /\ Places(<<Open, y>>, Open) = {1} /\ Places(<<Open, y>>, Close) = {}
  BY <1>2 DEF Places, NotPar
<1>4. Places(<< >>, Open) = {} /\ Places(<< >>, Close) = {}
  BY DEF Places
<1>5. \A s, x : Count(s, x) = Cardinality(Places(s, x))
  BY DEF Count, Places
<1> QED
  BY <1>1, <1>3, <1>4, <1>5, FS_Singleton, FS_EmptySet DEF IsSeq

\* The tokens that are not parentheses.
LEMMA OtherTokens ==
  /\ \A v : /\ NotPar(Number(v)) /\ NotPar(Name(v))
            /\ NotPar(Double(v)) /\ NotPar(<<"text", v>>)
  /\ Open # Close
BY DEF NotPar, Number, Name, Double, Open, Close

\* A printed line and the chain it is for.
Balanced(line, chain) ==
  /\ Count(line, Close) - Count(line, Open) >= 0
  /\ Count(line, Close) - Count(line, Open)
       <= Cardinality(Objects(chain, Len(chain)))

\* Parentheses, in these words.
LEMMA ParenthesesAsBalance ==
  Parentheses <=> \A k \in DOMAIN lines : Balanced(lines[k], call.arguments[k].chain)
BY DEF Parentheses, Balanced, Objects

\* The argument that is walked over.
LEMMA TheArgument ==
  ASSUME PrinterInv, turn <= Len(call.arguments)
  PROVE  /\ turn \in 1 .. Len(call.arguments)
         /\ Argument.order \in Nat
         /\ Chain \in Seq(Node) /\ Len(Chain) \in Nat /\ Len(Chain) >= 1
         /\ call.args \in Seq(Wide)
         /\ call.memory \in [DOMAIN call.memory -> 0 .. Byte - 1]
<1>1. IsCall(call) /\ turn \in 1 .. Len(call.arguments) + 1
  BY DEF PrinterInv, TypeOK
<1>2. call.arguments \in Seq([order : Nat, chain : Seq(Node) \ {<< >>},
                               unset : BOOLEAN])
  BY <1>1 DEF IsCall
<1>3. turn \in 1 .. Len(call.arguments)
  BY <1>1, <1>2
<1>4. Argument \in [order : Nat, chain : Seq(Node) \ {<< >>}, unset : BOOLEAN]
  <2>1. \A R : call.arguments \in Seq(R) => call.arguments[turn] \in R
    BY <1>3
  <2> QED
    BY <1>2, <2>1, Zenon DEF Argument
<1>5. Chain \in Seq(Node) /\ Chain # << >>
  BY <1>4 DEF Chain
<1>6. Len(Chain) \in Nat /\ Len(Chain) >= 1
  BY <1>5
<1> QED
  BY <1>1, <1>3, <1>4, <1>5, <1>6 DEF IsCall

\* One turn of the loop, from one type to the next: what it does to the text is
\* what it owes more, and an object that is passed.
LEMMA GoesDown ==
  ASSUME PrinterInv, Walking, Descend,
         UNCHANGED <<call, turn, lines, outcome>>,
         NotPar(prev'), LookUp,
         args' \in [DOMAIN call.args -> Wide],
         IsSeq(text'), pars' \in Nat,
         Count(text', Close) + pars'
           = Count(text', Open) + Cardinality(Objects(Chain, node))
             + (IF ToObject THEN 1 ELSE 0)
  PROVE  PrinterInv'
<1>1. /\ turn <= Len(call.arguments) /\ node \in 1 .. Len(Chain)
      /\ node < Len(Chain)
  BY DEF PrinterInv, WalkInv, Walking
<1>2. Len(Chain) \in Nat
  BY <1>1, TheArgument
<1>3. Chain' = Chain
  BY DEF Chain, Argument
<1>4. /\ node' = node + 1 /\ pc' \in {"walk", "end"}
      /\ pc' = "walk" => node + 1 < Len(Chain)
  BY DEF Descend
<1>5. Cardinality(Objects(Chain, node + 1))
        = Cardinality(Objects(Chain, node)) + (IF ToObject THEN 1 ELSE 0)
  BY <1>1, <1>2, ObjectsStep DEF ToObject, Here, Base
<1>6. isFlag' \in BOOLEAN /\ strFlag' \in BOOLEAN
  BY DEF LookUp
<1>7. TypeOK'
  BY <1>1, <1>2, <1>4, <1>6 DEF PrinterInv, TypeOK
<1>8. Count(text', Open) \in Nat /\ Count(text', Close) \in Nat
  BY PlacesFinite
<1>9. Cardinality(Objects(Chain, node)) \in Nat
  BY <1>1, <1>2, ObjectsStep
<1>10. /\ turn' <= Len(call'.arguments) /\ node' \in 1 .. Len(Chain')
       /\ pc' = "walk" => node' < Len(Chain')
  BY <1>1, <1>2, <1>3, <1>4
<1>11. Count(text', Close) + pars'
         = Count(text', Open) + Cardinality(Objects(Chain', node'))
  BY <1>3, <1>4, <1>5, <1>8, <1>9
<1>12. WalkInv'
  BY <1>10, <1>11 DEF PrinterInv, WalkInv, Count, Open, Close, Objects, NotPar
<1>13. Parentheses'
  BY DEF PrinterInv, Parentheses, Count, Open, Close
<1> QED
  BY <1>7, <1>12, <1>13 DEF PrinterInv

\* The end of an argument: an explanation in which as much is closed as opened,
\* and the parentheses that are owed.
LEMMA Emitted ==
  ASSUME PrinterInv, Ending, NEW explained, Emit(explained),
         IsSeq(explained), Count(explained, Open) = Count(explained, Close),
         isFlag' \in BOOLEAN, strFlag' \in BOOLEAN
  PROVE  PrinterInv'
<1> DEFINE closing == [k \in 1 .. pars |-> Close]
           line == text \o explained \o closing
<1>1. /\ turn <= Len(call.arguments) /\ node \in 1 .. Len(Chain)
      /\ IsSeq(text) /\ IsSeq(lines) /\ pars \in Nat /\ Len(lines) = turn - 1
      /\ Count(text, Close) + pars
           = Count(text, Open) + Cardinality(Objects(Chain, node))
  BY DEF PrinterInv, TypeOK, WalkInv, Ending
<1>2. turn \in 1 .. Len(call.arguments) /\ Len(Chain) \in Nat
  BY <1>1, TheArgument
<1>3. Balanced(line, Chain)
  <2>1. /\ IsSeq(closing) /\ Count(closing, Close) = pars
        /\ Count(closing, Open) = 0
    BY <1>1, CountRow, OtherTokens
  <2> HIDE DEF closing
  <2>2. IsSeq(text \o explained)
    BY <1>1, CountConcat
  <2>3. /\ Count(line, Open) = Count(text, Open) + Count(explained, Open) + 0
        /\ Count(line, Close) = Count(text, Close) + Count(explained, Close) + pars
    BY <1>1, <2>1, <2>2, CountConcat
  <2>4. /\ Count(text, Open) \in Nat /\ Count(text, Close) \in Nat
        /\ Count(explained, Open) \in Nat
    BY <1>1, PlacesFinite
  <2>5. /\ Cardinality(Objects(Chain, node)) \in Nat
        /\ Cardinality(Objects(Chain, Len(Chain))) \in Nat
        /\ Cardinality(Objects(Chain, node)) <= Cardinality(Objects(Chain, Len(Chain)))
    BY <1>1, <1>2, ObjectsBound
  <2>6. Count(line, Close) - Count(line, Open) = Cardinality(Objects(Chain, node))
    <3> DEFINE to == Count(text, Open)
               tc == Count(text, Close)
               e  == Count(explained, Open)
               ob == Cardinality(Objects(Chain, node))
    <3>1. tc + pars = to + ob /\ Count(explained, Close) = e
      BY <1>1
    <3>2. to \in Nat /\ tc \in Nat /\ e \in Nat /\ ob \in Nat /\ pars \in Nat
      BY <1>1, <2>4, <2>5
    <3>3. Count(line, Open) = to + e + 0 /\ Count(line, Close) = tc + e + pars
      BY <2>3, <3>1
    <3> HIDE DEF to, tc, e, ob, line
    <3>4. Count(line, Close) - Count(line, Open) = ob
      BY <3>1, <3>2, <3>3
    <3> QED
      BY <3>4 DEF ob
  <2> HIDE DEF line
  <2> QED
    BY <2>5, <2>6 DEF Balanced
<1> HIDE DEF line, closing
<1>4. /\ lines' = Append(lines, line) /\ turn' = turn + 1 /\ pc' = "next"
      /\ node' = 0 /\ UNCHANGED <<call, args, prev, text, pars, outcome>>
  BY DEF Emit, line, closing
<1>5. /\ IsSeq(lines') /\ Len(lines') = turn
      /\ DOMAIN lines' = 1 .. turn /\ DOMAIN lines = 1 .. turn - 1
      /\ lines'[turn] = line
      /\ \A k \in 1 .. turn - 1 : lines'[k] = lines[k]
  <2>1. PICK S : lines \in Seq(S)
    BY <1>1 DEF IsSeq
  <2>2. lines \in Seq(S \cup {line}) /\ Append(lines, line) \in Seq(S \cup {line})
    BY <2>1
  <2> QED
    BY <1>1, <1>2, <1>4, <2>1, <2>2 DEF IsSeq
<1>6. TypeOK'
  BY <1>2, <1>4, <1>5 DEF PrinterInv, TypeOK
<1>7. WalkInv'
  BY <1>4, <1>5 DEF PrinterInv, WalkInv, NotPar, Open, Close
<1>8. Parentheses'
  <2>1. ASSUME NEW k \in 1 .. turn
        PROVE  Balanced(lines'[k], call.arguments[k].chain)
    <3>1. CASE k = turn
      BY <1>3, <1>5, <3>1 DEF Chain, Argument
    <3>2. CASE k # turn
      <4>1. k \in 1 .. turn - 1
        BY <1>2, <3>2
      <4> QED
        BY <1>5, <4>1, ParenthesesAsBalance DEF PrinterInv
    <3> QED
      BY <3>1, <3>2
  <2>2. \A k \in DOMAIN lines' : Balanced(lines'[k], call'.arguments[k].chain)
    BY <1>4, <1>5, <2>1
  <2> QED
    BY <2>2 DEF Parentheses, Balanced, Objects, Count, Open, Close
<1> QED
  BY <1>6, <1>7, <1>8 DEF PrinterInv

-----------------------------------------------------------------------------
(* The actions                                                             *)

\* A name for the value, or what there was before.
LEMMA NamedIsNoParenthesis == NotPar(prev) => NotPar(Named)
BY OtherTokens DEF Named

\* What is written over a string of the caller fits into it.
LEMMA ReadingIsWide ==
  ASSUME PrinterInv, Walking, Readable
  PROVE  [args EXCEPT ![Argument.order + 1] = Dword(call.memory, Raw)]
           \in [DOMAIN call.args -> Wide]
<1> SUFFICES ASSUME Argument.order + 1 \in DOMAIN args
             PROVE  Dword(call.memory, Raw) \in Wide
  BY DEF PrinterInv, TypeOK
<1>1. call.memory \in [DOMAIN call.memory -> 0 .. Byte - 1]
  BY TheArgument DEF PrinterInv, WalkInv, Walking
<1>2. Raw \in Nat
  BY DEF PrinterInv, TypeOK, Raw, Wide
<1>3. Dword(call.memory, Raw) \in 0 .. Half - 1
  BY <1>1, <1>2, Readings DEF Readable
<1> QED
  BY <1>3, HalfIsWide

\* The head of the for loop: nothing is opened, nothing is owed.
LEMMA BeginKeeps == PrinterInv /\ Begin => PrinterInv'
<1> SUFFICES ASSUME PrinterInv, Begin PROVE PrinterInv'
  OBVIOUS
<1>1. turn <= Len(call.arguments)
  BY DEF Begin
<1>2. Len(Chain) \in Nat /\ Len(Chain) >= 1
  BY <1>1, TheArgument
<1>3. Chain' = Chain
  BY DEF Begin, Chain, Argument
<1>4. /\ IsSeq(<<Number(Raw)>>) /\ NotPar(Number(Raw))
      /\ Count(<<Number(Raw)>>, Open) = 0 /\ Count(<<Number(Raw)>>, Close) = 0
  BY CountOne, OtherTokens DEF NotPar
<1>5. Cardinality(Objects(Chain, 1)) = 0
  BY ObjectsStep
<1>6. /\ prev' = Number(Raw) /\ text' = <<Number(Raw)>> /\ pars' = 0 /\ node' = 1
      /\ pc' \in {"walk", "end"}
      /\ pc' = "walk" => Len(Chain) > 1
      /\ UNCHANGED <<call, args, turn, isFlag, strFlag, lines, outcome>>
  BY DEF Begin
<1>7. TypeOK'
  BY <1>6 DEF PrinterInv, TypeOK
<1>8. WalkInv'
  BY <1>1, <1>2, <1>3, <1>4, <1>5, <1>6
     DEF PrinterInv, WalkInv, NotPar, Count, Open, Close, Objects
<1>9. Parentheses'
  BY <1>6 DEF PrinterInv, Parentheses, Count, Open, Close
<1> QED
  BY <1>7, <1>8, <1>9 DEF PrinterInv

\* The turns of the while loop that leave the text as it is.
LEMMA PassKeeps ==
  PrinterInv /\ (PassAlias \/ PassObject \/ PassVoid) => PrinterInv'
<1> SUFFICES ASSUME PrinterInv, PassAlias \/ PassObject \/ PassVoid PROVE PrinterInv'
  OBVIOUS
<1>1. /\ Walking /\ Descend /\ LookUp
      /\ UNCHANGED <<call, turn, lines, outcome, args, text>>
  BY DEF PassAlias, PassObject, PassVoid
<1>2. NotPar(prev')
  BY NamedIsNoParenthesis, OtherTokens
     DEF PassAlias, PassObject, PassVoid, PrinterInv, WalkInv
<1>3. args' \in [DOMAIN call.args -> Wide]
  BY <1>1 DEF PrinterInv, TypeOK
<1>4. pars \in Nat /\ pars' = pars + (IF ToObject THEN 1 ELSE 0)
  BY DEF PassAlias, PassObject, PassVoid, ToVoid, ToObject, PrinterInv, TypeOK
<1>5. /\ IsSeq(text) /\ Count(text, Close) + pars
           = Count(text, Open) + Cardinality(Objects(Chain, node))
      /\ node \in 1 .. Len(Chain)
  BY <1>1 DEF PrinterInv, WalkInv, Walking
<1>6. /\ Count(text, Open) \in Nat /\ Count(text, Close) \in Nat
      /\ Cardinality(Objects(Chain, node)) \in Nat
  BY <1>5, PlacesFinite, ObjectsStep
<1>7. Count(text, Close) + pars'
        = Count(text, Open) + Cardinality(Objects(Chain, node))
          + (IF ToObject THEN 1 ELSE 0)
  BY <1>4, <1>5, <1>6
<1> QED
  BY <1>1, <1>2, <1>3, <1>4, <1>5, <1>7, GoesDown

\* A level is opened.
LEMMA FollowKeeps == PrinterInv /\ Follow => PrinterInv'
<1> SUFFICES ASSUME PrinterInv, Follow PROVE PrinterInv'
  OBVIOUS
<1> DEFINE v == Dword(call.memory, Raw)
<1>1. /\ Walking /\ Descend /\ LookUp /\ ~ToObject
      /\ UNCHANGED <<call, turn, lines, outcome>>
      /\ args' = [args EXCEPT ![Argument.order + 1] = v]
      /\ prev' = Number(v) /\ text' = text \o <<Open, Number(v)>>
      /\ pars' = pars + 1
  BY DEF Follow, Following
<1>2. args' \in [DOMAIN call.args -> Wide]
  BY <1>1, ReadingIsWide DEF Follow
<1> HIDE DEF v
<1>3. /\ IsSeq(text) /\ Count(text, Close) + pars
           = Count(text, Open) + Cardinality(Objects(Chain, node))
      /\ node \in 1 .. Len(Chain) /\ pars \in Nat
  BY <1>1 DEF PrinterInv, WalkInv, Walking, TypeOK
<1>4. /\ Count(text, Open) \in Nat /\ Count(text, Close) \in Nat
      /\ Cardinality(Objects(Chain, node)) \in Nat
  BY <1>3, PlacesFinite, ObjectsStep
<1>5. NotPar(prev')
  BY <1>1, OtherTokens
<1>6. /\ IsSeq(text') /\ Count(text', Open) = Count(text, Open) + 1
      /\ Count(text', Close) = Count(text, Close) + 0
  <2>1. /\ IsSeq(<<Open, Number(v)>>)
        /\ Count(<<Open, Number(v)>>, Open) = 1
        /\ Count(<<Open, Number(v)>>, Close) = 0
    BY CountBracket, OtherTokens
  <2> QED
    BY <1>1, <1>3, <2>1, CountConcat
<1>7. Count(text', Close) + pars'
        = Count(text', Open) + Cardinality(Objects(Chain, node))
          + (IF ToObject THEN 1 ELSE 0)
  <2>1. (IF ToObject THEN 1 ELSE 0) = 0
    BY <1>1
  <2>2. pars' = pars + 1
    BY <1>1
  <2> QED
    BY <1>3, <1>4, <1>6, <2>1, <2>2
<1> QED
  BY <1>1, <1>2, <1>3, <1>5, <1>6, <1>7, GoesDown

\* The walk that ends at a null pointer has opened and closed one level.
LEMMA StopKeeps == PrinterInv /\ StopAtNull => PrinterInv'
<1> SUFFICES ASSUME PrinterInv, StopAtNull PROVE PrinterInv'
  OBVIOUS
<1>1. /\ Walking /\ LookUp /\ prev' = Name("NULL")
      /\ text' = text \o <<Open, Name("NULL"), Close>> /\ pc' = "end"
      /\ UNCHANGED <<call, args, turn, node, pars, lines, outcome>>
  BY DEF StopAtNull
<1>2. /\ IsSeq(text) /\ Count(text, Close) + pars
           = Count(text, Open) + Cardinality(Objects(Chain, node))
      /\ node \in 1 .. Len(Chain) /\ pars \in Nat /\ IsSeq(lines)
      /\ turn <= Len(call.arguments)
  BY <1>1 DEF PrinterInv, WalkInv, Walking, TypeOK
<1>3. /\ Count(text, Open) \in Nat /\ Count(text, Close) \in Nat
      /\ Cardinality(Objects(Chain, node)) \in Nat
  BY <1>2, PlacesFinite, ObjectsStep
<1>4. /\ IsSeq(text') /\ Count(text', Open) = Count(text, Open) + 1
      /\ Count(text', Close) = Count(text, Close) + 1
  <2>1. /\ IsSeq(<<Open, Name("NULL"), Close>>)
        /\ Count(<<Open, Name("NULL"), Close>>, Open) = 1
        /\ Count(<<Open, Name("NULL"), Close>>, Close) = 1
    BY CountBracket, OtherTokens
  <2> QED
    BY <1>1, <1>2, <2>1, CountConcat
<1>5. Chain' = Chain
  BY <1>1 DEF Chain, Argument
<1>6. isFlag' \in BOOLEAN /\ strFlag' \in BOOLEAN
  BY <1>1 DEF LookUp
<1>7. TypeOK'
  BY <1>1, <1>6 DEF PrinterInv, TypeOK
<1>8. Count(text', Close) + pars'
        = Count(text', Open) + Cardinality(Objects(Chain', node'))
  <2>1. pars' = pars /\ Objects(Chain', node') = Objects(Chain, node)
    BY <1>1, <1>5
  <2> QED
    BY <1>2, <1>3, <1>4, <2>1
<1>9. NotPar(prev')
  BY <1>1, OtherTokens
<1>10. WalkInv'
  BY <1>1, <1>2, <1>4, <1>5, <1>8, <1>9
     DEF WalkInv, NotPar, Count, Open, Close, Objects
<1>11. Parentheses'
  BY <1>1 DEF PrinterInv, Parentheses, Count, Open, Close
<1> QED
  BY <1>7, <1>10, <1>11 DEF PrinterInv

\* Whatever is said of the last type, it opens and closes one level, or none.
LEMMA PrintKeeps ==
  PrinterInv /\ (PrintFlag \/ PrintNumber \/ PrintDouble \/ PrintStruct
                 \/ PrintText \/ PrintBare)
    => PrinterInv'
<1> SUFFICES ASSUME PrinterInv,
                    PrintFlag \/ PrintNumber \/ PrintDouble \/ PrintStruct
                      \/ PrintText \/ PrintBare
             PROVE  PrinterInv'
  OBVIOUS
<1>1. Ending /\ isFlag' \in BOOLEAN /\ strFlag' \in BOOLEAN
  BY DEF PrintFlag, PrintNumber, PrintDouble, PrintStruct, PrintText, PrintBare,
         PrinterInv, TypeOK
<1>2. NotPar(prev)
  BY DEF PrinterInv, WalkInv
<1>3. ASSUME NEW y, NotPar(y), Emit(<<Open, y, Close>>) PROVE PrinterInv'
  <2>1. /\ IsSeq(<<Open, y, Close>>)
        /\ Count(<<Open, y, Close>>, Open) = Count(<<Open, y, Close>>, Close)
    BY <1>3, CountBracket
  <2> QED
    BY <1>1, <1>3, <2>1, Emitted
<1>4. CASE PrintFlag
  <2> DEFINE y == IF strFlag THEN prev ELSE Name("NULL")
  <2>1. NotPar(y)
    BY <1>2, OtherTokens
  <2>2. Emit(<<Open, y, Close>>)
    BY <1>4 DEF PrintFlag
  <2> HIDE DEF y
  <2> QED
    BY <1>3, <2>1, <2>2
<1>5. CASE PrintNumber \/ PrintDouble
  BY <1>3, <1>5, OtherTokens DEF PrintNumber, PrintDouble
<1>6. CASE PrintText
  BY <1>3, <1>6, OtherTokens DEF PrintText
<1>7. CASE PrintBare
  <2>1. Emit(<< >>) /\ IsSeq(<< >>) /\ Count(<< >>, Open) = Count(<< >>, Close)
    BY <1>7, <1>2, CountBracket DEF PrintBare
  <2> QED
    BY <1>1, <2>1, Emitted
<1>8. CASE PrintStruct
  <2> DEFINE values == [k \in 1 .. Here.fields |->
                Number(Signed(Dword(call.memory, prev[2] + 8 * (k - 1)), 4))]
             shown == <<Open>> \o values \o <<Close>>
  <2>1. Here.fields \in Nat
    <3>1. node \in 1 .. Len(Chain) /\ Chain \in Seq(Node)
      BY <1>1, TheArgument DEF PrinterInv, WalkInv, Ending
    <3>2. Here \in Node
      BY <3>1 DEF Here
    <3> QED
      BY <3>2 DEF Node
  <2>2. IsSeq(values)
    <3>1. ASSUME NEW f, NEW n \in Nat, f = [k \in 1 .. n |-> f[k]]
          PROVE  f \in Seq({f[k] : k \in 1 .. n})
      BY <3>1
    <3>2. values = [k \in 1 .. Here.fields |-> values[k]]
      OBVIOUS
    <3> HIDE DEF values
    <3> QED
      BY <2>1, <3>1, <3>2 DEF IsSeq
  <2>3. Count(values, Open) = 0 /\ Count(values, Close) = 0
    <3>1. \A k \in DOMAIN values : values[k] # Open /\ values[k] # Close
      BY OtherTokens DEF NotPar
    <3> HIDE DEF values
    <3> QED
      BY <2>2, <3>1, CountNone
  <2>4. Emit(shown)
    BY <1>8 DEF PrintStruct
  <2> HIDE DEF values
  <2>5. /\ IsSeq(<<Open>>) /\ IsSeq(<<Close>>)
        /\ Count(<<Open>>, Open) = 1 /\ Count(<<Open>>, Close) = 0
        /\ Count(<<Close>>, Open) = 0 /\ Count(<<Close>>, Close) = 1
    BY CountOne, OtherTokens
  <2>6. /\ IsSeq(<<Open>> \o values)
        /\ Count(<<Open>> \o values, Open) = 1 + 0
        /\ Count(<<Open>> \o values, Close) = 0 + 0
    BY <2>2, <2>3, <2>5, CountConcat
  <2>7. /\ IsSeq(shown) /\ Count(shown, Open) = 1 + 0
        /\ Count(shown, Close) = 0 + 1
    BY <2>5, <2>6, CountConcat
  <2> HIDE DEF shown
  <2> QED
    BY <1>1, <2>4, <2>7, Emitted
<1> QED
  BY <1>4, <1>5, <1>6, <1>7, <1>8

\* The end of the function, of an undefined kind or not, changes nothing that
\* was printed.
LEMMA EndKeeps ==
  PrinterInv /\ (BeginBeyond \/ FollowWild \/ FollowUnset \/ PrintWild \/ Return
        \/ UNCHANGED vars)
    => PrinterInv'
<1> SUFFICES ASSUME PrinterInv,
               BeginBeyond \/ FollowWild \/ FollowUnset \/ PrintWild \/ Return
                 \/ UNCHANGED vars
             PROVE  PrinterInv'
  OBVIOUS
<1>1. /\ UNCHANGED <<call, args, turn, pc, node, prev, text, pars, isFlag, strFlag,
                     lines>>
      /\ outcome' \in {outcome, "undefined", "returned"}
  BY DEF BeginBeyond, FollowWild, FollowUnset, PrintWild, Return, vars
<1>2. TypeOK'
  BY <1>1 DEF PrinterInv, TypeOK
<1>3. WalkInv' /\ Parentheses'
  BY <1>1 DEF PrinterInv, WalkInv, Parentheses, NotPar, Count, Open, Close,
              Objects, Chain, Argument
<1> QED
  BY <1>2, <1>3 DEF PrinterInv

\* Nothing is owed at first.
LEMMA InitPrinterInv == Init => PrinterInv
<1> SUFFICES ASSUME Init PROVE PrinterInv
  OBVIOUS
<1>1. IsCall(call)
  BY CallsAssumption DEF Init
<1>2. args \in [DOMAIN call.args -> Wide]
  <2>1. call.args \in Seq(Wide)
    BY <1>1 DEF IsCall
  <2>2. ASSUME NEW S, NEW s \in Seq(S) PROVE s \in [DOMAIN s -> S]
    BY <2>2
  <2> QED
    BY <2>1, <2>2 DEF Init
<1>3. << >> \in Seq({}) /\ Len(<< >>) = 0 /\ DOMAIN << >> = {}
  OBVIOUS
<1>4. Len(call.arguments) \in Nat
  BY <1>1 DEF IsCall
<1>5. TypeOK
  <2>1. /\ turn = 1 /\ pc = "next" /\ node = 0 /\ pars = 0 /\ lines = << >>
        /\ isFlag = FALSE /\ strFlag = FALSE /\ outcome = "running"
    BY DEF Init
  <2>2. turn \in 1 .. Len(call.arguments) + 1
    BY <1>4, <2>1
  <2>3. Len(lines) = turn - 1
    BY <1>3, <2>1
  <2> QED
    BY <1>1, <1>2, <2>1, <2>2, <2>3 DEF TypeOK
<1>6. NotPar(prev)
  BY DEF Init, NotPar, Open, Close
<1>7. WalkInv
  BY <1>3, <1>6 DEF Init, WalkInv, IsSeq
<1>8. Parentheses
  BY <1>3 DEF Init, Parentheses
<1> QED
  BY <1>5, <1>7, <1>8 DEF PrinterInv

\* Every step keeps the account.
LEMMA NextPrinterInv == PrinterInv /\ [Next]_vars => PrinterInv'
BY BeginKeeps, PassKeeps, FollowKeeps, StopKeeps, PrintKeeps, EndKeeps DEF Next

\* The account holds throughout.
LEMMA PrinterInvariance == Spec => []PrinterInv
BY InitPrinterInv, NextPrinterInv, PTL DEF Spec

-----------------------------------------------------------------------------
(* What the types of a chain have for a value                              *)

IsSequence(s) == Len(s) \in Nat /\ DOMAIN s = 1 .. Len(s)

\* A type that is not skipped lies at Below, or the chain ends there.
LEMMA BelowFacts ==
  ASSUME NEW c, IsSequence(c), NEW k \in 1 .. Len(c)
  PROVE  /\ Below(c, k) \in k .. Len(c)
         /\ Below(c, k) < Len(c) => c[Below(c, k)].kind \notin {"Alias", "Array"}
         /\ \A m \in k .. Below(c, k) - 1 : c[m].kind \in {"Alias", "Array"}
         /\ c[k].kind \notin {"Alias", "Array"} => Below(c, k) = k
<1> DEFINE ks == {m \in k .. Len(c) : c[m].kind \notin {"Alias", "Array"}}
<1>1. Below(c, k) = IF ks = {} THEN Len(c) ELSE Min(ks)
  BY DEF Below
<1>2. Len(c) \in Nat
  BY DEF IsSequence
<1>3. CASE ks = {}
  BY <1>1, <1>2, <1>3
<1>4. CASE ks # {}
  <2>1. PICK x \in ks : \A y \in ks : x <= y
    <3>1. ks \subseteq Nat
      BY <1>2
    <3> QED
      BY <1>4, <3>1, F!Least
  <2>2. Min(ks) \in ks /\ \A y \in ks : Min(ks) <= y
    BY <2>1 DEF Min
  <2>3. Below(c, k) = Min(ks)
    BY <1>1, <1>4
  <2>4. \A m \in k .. Min(ks) - 1 : m \notin ks
    BY <1>2, <2>2
  <2> HIDE DEF ks
  <2>5. /\ \A m \in ks : m \in k .. Len(c) /\ c[m].kind \notin {"Alias", "Array"}
        /\ \A m \in k .. Len(c) : m \notin ks => c[m].kind \in {"Alias", "Array"}
    BY DEF ks
  <2>6. Min(ks) \in k .. Len(c) /\ c[Min(ks)].kind \notin {"Alias", "Array"}
    BY <2>2, <2>5
  <2>7. \A m \in k .. Min(ks) - 1 : c[m].kind \in {"Alias", "Array"}
    <3> SUFFICES ASSUME NEW m \in k .. Min(ks) - 1
                 PROVE  c[m].kind \in {"Alias", "Array"}
      OBVIOUS
    <3>1. m \in k .. Len(c)
      BY <1>2, <2>6
    <3> QED
      BY <2>4, <2>5, <3>1
  <2>8. c[k].kind \notin {"Alias", "Array"} => Min(ks) = k
    <3>1. ASSUME Min(ks) # k PROVE k \in k .. Min(ks) - 1
      BY <1>2, <2>6, <3>1
    <3> QED
      BY <2>7, <3>1
  <2> QED
    BY <2>3, <2>6, <2>7, <2>8
<1> QED
  BY <1>3, <1>4

\* What Below finds before the end is a pointer.
LEMMA BelowIsLast ==
  ASSUME NEW c, IsSequence(c), HasShape(c), NEW k \in 1 .. Len(c),
         c[Below(c, k)].kind # "Pointer"
  PROVE  Below(c, k) = Len(c)
<1>1. /\ Below(c, k) \in k .. Len(c)
      /\ Below(c, k) < Len(c) => c[Below(c, k)].kind \notin {"Alias", "Array"}
  BY BelowFacts
<1>2. Below(c, k) \in DOMAIN c
  BY <1>1 DEF IsSequence
<1>3. Below(c, k) < Len(c) => c[Below(c, k)].kind \in {"Alias", "Array", "Pointer"}
  BY <1>2 DEF HasShape
<1> QED
  BY <1>1, <1>3 DEF IsSequence

\* What is skipped makes no difference to what lies below.
LEMMA BelowSkips ==
  ASSUME NEW c, IsSequence(c), NEW k \in 1 .. Len(c) - 1,
         c[k].kind \in {"Alias", "Array"}
  PROVE  Below(c, k) = Below(c, k + 1)
<1>1. Len(c) \in Nat /\ k \in 1 .. Len(c) /\ k + 1 \in 1 .. Len(c)
  BY DEF IsSequence
<1> DEFINE b == Below(c, k)
           d == Below(c, k + 1)
<1>2. /\ b < Len(c) => c[b].kind \notin {"Alias", "Array"}
      /\ \A m \in k .. b - 1 : c[m].kind \in {"Alias", "Array"}
      /\ d < Len(c) => c[d].kind \notin {"Alias", "Array"}
      /\ \A m \in k + 1 .. d - 1 : c[m].kind \in {"Alias", "Array"}
  BY <1>1, BelowFacts
<1>3. b \in k .. Len(c) /\ d \in k + 1 .. Len(c)
  BY <1>1, BelowFacts
<1> HIDE DEF b, d
<1>9. b # k
  BY <1>1, <1>2, <1>3
<1>4. ~(b < d)
  <2> SUFFICES ASSUME b < d PROVE FALSE
    OBVIOUS
  <2>1. b \in k + 1 .. d - 1 /\ b < Len(c)
    BY <1>1, <1>3, <1>9
  <2> QED
    BY <1>2, <2>1
<1>5. ~(d < b)
  <2> SUFFICES ASSUME d < b PROVE FALSE
    OBVIOUS
  <2>1. d \in k .. b - 1 /\ d < Len(c)
    BY <1>1, <1>3
  <2> QED
    BY <1>2, <2>1
<1>6. b = d
  BY <1>1, <1>3, <1>4, <1>5
<1> QED
  BY <1>6 DEF b, d

\* The recursive function inside Denotes.
Values(g, memory, c, v, n) ==
  g = [k \in 1 .. n |->
         IF k = 1 THEN v
         ELSE IF Reads(memory, c, k - 1, g[k - 1])
              THEN At(memory, g[k - 1], Width(c[Below(c, k)]))
              ELSE g[k - 1]]

\* That function exists.
LEMMA ValuesExist ==
  ASSUME NEW memory, NEW c, NEW v, NEW n \in Nat
  PROVE  \E g : Values(g, memory, c, v, n)
<1> DEFINE Step(x, k) == IF Reads(memory, c, k - 1, x)
                         THEN At(memory, x, Width(c[Below(c, k)])) ELSE x
           D == {m \in Nat : \E g : Values(g, memory, c, v, m)}
<1> HIDE DEF Step
<1>0. ASSUME NEW g, NEW m \in Nat
      PROVE  Values(g, memory, c, v, m)
               <=> g = [k \in 1 .. m |-> IF k = 1 THEN v ELSE Step(g[k - 1], k)]
  BY DEF Values, Step
<1>1. 0 \in D
  <2> DEFINE g == [k \in 1 .. 0 |-> v]
  <2>1. g = [k \in 1 .. 0 |-> IF k = 1 THEN v ELSE Step(g[k - 1], k)]
    OBVIOUS
  <2>2. Values(g, memory, c, v, 0)
    BY <1>0, <2>1
  <2> QED
    BY <2>2
<1>2. ASSUME NEW m \in Nat, m \in D PROVE m + 1 \in D
  <2>1. PICK f : Values(f, memory, c, v, m)
    BY <1>2
  <2>2. f = [k \in 1 .. m |-> IF k = 1 THEN v ELSE Step(f[k - 1], k)]
    BY <1>0, <2>1
  <2> DEFINE g == [k \in 1 .. m + 1 |->
                     IF k = 1 THEN v ELSE Step(f[k - 1], k)]
  <2>3. \A k \in 1 .. m : g[k] = f[k]
    BY <2>2
  <2>4. ASSUME NEW k \in 1 .. m + 1
        PROVE  g[k] = IF k = 1 THEN v ELSE Step(g[k - 1], k)
    <3>1. g[k] = IF k = 1 THEN v ELSE Step(f[k - 1], k)
      OBVIOUS
    <3>2. k # 1 => k - 1 \in 1 .. m
      OBVIOUS
    <3> HIDE DEF g
    <3> QED
      BY <2>3, <3>1, <3>2
  <2>5. g = [k \in 1 .. m + 1 |-> IF k = 1 THEN v ELSE Step(g[k - 1], k)]
    <3>1. g = [k \in 1 .. m + 1 |-> g[k]]
      OBVIOUS
    <3> HIDE DEF g
    <3> QED
      BY <2>4, <3>1
  <2>6. Values(g, memory, c, v, m + 1)
    <3>1. m + 1 \in Nat
      OBVIOUS
    <3> HIDE DEF g
    <3> QED
      BY <1>0, <2>5, <3>1
  <2> QED
    BY <2>6
<1>3. Nat \subseteq D
  BY <1>1, <1>2, F!Induction
<1> QED
  BY <1>3

\* The value at a place follows from the one before.
LEMMA DenotesSteps ==
  ASSUME NEW memory, NEW c, IsSequence(c), Len(c) >= 1, NEW v
  PROVE  /\ DOMAIN Denotes(memory, c, v) = 1 .. Len(c)
         /\ Denotes(memory, c, v)[1] = v
         /\ \A k \in 1 .. Len(c) - 1 :
              Denotes(memory, c, v)[k + 1] =
                IF Reads(memory, c, k, Denotes(memory, c, v)[k])
                THEN At(memory, Denotes(memory, c, v)[k], Width(c[Below(c, k + 1)]))
                ELSE Denotes(memory, c, v)[k]
<1>1. Len(c) \in Nat /\ DOMAIN c = 1 .. Len(c)
  BY DEF IsSequence
<1>2. Denotes(memory, c, v) = CHOOSE g : Values(g, memory, c, v, Len(c))
  BY <1>1 DEF Denotes, Values
<1>3. Values(Denotes(memory, c, v), memory, c, v, Len(c))
  BY <1>1, <1>2, ValuesExist
<1> DEFINE f == Denotes(memory, c, v)
<1> HIDE DEF f
<1>4. f = [k \in 1 .. Len(c) |->
             IF k = 1 THEN v
             ELSE IF Reads(memory, c, k - 1, f[k - 1])
                  THEN At(memory, f[k - 1], Width(c[Below(c, k)]))
                  ELSE f[k - 1]]
  BY <1>3 DEF Values, f
<1>5. DOMAIN f = 1 .. Len(c) /\ f[1] = v
  BY <1>1, <1>4
<1>6. ASSUME NEW k \in 1 .. Len(c) - 1
      PROVE  f[k + 1] = IF Reads(memory, c, k, f[k])
                        THEN At(memory, f[k], Width(c[Below(c, k + 1)]))
                        ELSE f[k]
  <2>1. k + 1 \in 1 .. Len(c) /\ k + 1 # 1 /\ (k + 1) - 1 = k
    BY <1>1
  <2> QED
    BY <1>4, <2>1
<1> QED
  BY <1>5, <1>6 DEF f

LEMMA DenotesFirst ==
  ASSUME NEW memory, NEW c, IsSequence(c), Len(c) >= 1, NEW v
  PROVE  Denotes(memory, c, v)[1] = v
BY DenotesSteps

-----------------------------------------------------------------------------
(* The explanation on a line                                               *)

\* It is the token after the last parenthesis that is opened.
LEMMA ExplanationOfLine ==
  ASSUME NEW s, IsSeq(s), NEW y, NotPar(y), NEW n \in Nat
  PROVE  Explanation(s \o <<Open, y, Close>> \o [k \in 1 .. n |-> Close]) = y
<1> DEFINE closing == [k \in 1 .. n |-> Close]
           line == s \o <<Open, y, Close>> \o closing
           M == {m \in DOMAIN line : line[m] = Open}
<1>1. PICK S : s \in Seq(S)
  BY DEF IsSeq
<1> DEFINE X == S \cup {Open, y, Close}
<1>2. s \in Seq(X) /\ <<Open, y, Close>> \in Seq(X) /\ closing \in Seq(X)
  BY <1>1
<1>3. Len(s) \in Nat /\ Len(<<Open, y, Close>>) = 3 /\ Len(closing) = n
  BY <1>2
<1>4. \A k \in 1 .. n : closing[k] = Close
  OBVIOUS
<1> HIDE DEF closing, X
<1>5. /\ s \o <<Open, y, Close>> \in Seq(X)
      /\ Len(s \o <<Open, y, Close>>) = Len(s) + 3
      /\ (s \o <<Open, y, Close>>)[Len(s) + 1] = Open
      /\ (s \o <<Open, y, Close>>)[Len(s) + 2] = y
      /\ (s \o <<Open, y, Close>>)[Len(s) + 3] = Close
  BY <1>2, <1>3
<1>6. /\ line \in Seq(X) /\ Len(line) = Len(s) + 3 + n
      /\ \A k \in 1 .. Len(s) + 3 : line[k] = (s \o <<Open, y, Close>>)[k]
      /\ \A k \in 1 .. n : line[Len(s) + 3 + k] = closing[k]
  <2> DEFINE head == s \o <<Open, y, Close>>
  <2>1. head \in Seq(X) /\ Len(head) = Len(s) + 3
    BY <1>5
  <2>2. line = head \o closing
    OBVIOUS
  <2> HIDE DEF head, line
  <2>3. line \in Seq(X) /\ Join(line, head, closing)
    BY <1>2, <2>1, <2>2, Joined
  <2>4. /\ line \in Seq(X) /\ Len(line) = Len(s) + 3 + n
        /\ \A k \in 1 .. Len(s) + 3 : line[k] = head[k]
        /\ \A k \in 1 .. n : line[Len(s) + 3 + k] = closing[k]
    BY <1>3, <2>1, <2>3 DEF Join
  <2> QED
    BY <2>4 DEF head
<1> HIDE DEF line
<1>7. line[Len(s) + 1] = Open /\ line[Len(s) + 2] = y /\ line[Len(s) + 3] = Close
  <2>1. \A k \in {1, 2, 3} : Len(s) + k \in 1 .. Len(s) + 3
    BY <1>3
  <2>2. \A k \in {1, 2, 3} : line[Len(s) + k] = (s \o <<Open, y, Close>>)[Len(s) + k]
    BY <1>6, <2>1
  <2> QED
    BY <1>5, <2>2
<1>8. DOMAIN line = 1 .. Len(s) + 3 + n
  BY <1>6
<1>9. Len(s) + 1 \in M
  BY <1>3, <1>7, <1>8
<1>10. \A m \in M : m <= Len(s) + 1
  <2> SUFFICES ASSUME NEW m \in M, m > Len(s) + 1 PROVE FALSE
    BY <1>3, <1>8
  <2>1. m \in 1 .. Len(s) + 3 + n /\ line[m] = Open
    BY <1>8
  <2>2. line[m] # Open
    <3>1. CASE m \in {Len(s) + 2, Len(s) + 3}
      BY <1>7, <3>1, OtherTokens DEF NotPar
    <3>2. CASE m > Len(s) + 3
      <4>1. m - (Len(s) + 3) \in 1 .. n /\ m = Len(s) + 3 + (m - (Len(s) + 3))
        BY <1>3, <2>1, <3>2
      <4>2. line[m] = Close
        BY <1>4, <1>6, <4>1
      <4> QED
        BY <4>2, OtherTokens
    <3> QED
      BY <1>3, <2>1, <3>1, <3>2
  <2> QED
    BY <2>1, <2>2
<1>11. M \in SUBSET (1 .. Len(s) + 3 + n) /\ Len(s) + 3 + n \in Nat
  BY <1>3, <1>8
<1> HIDE DEF M
<1>12. Max(M) \in M /\ Max(M) >= Len(s) + 1
  BY <1>9, <1>11, F!MaxOfInterval DEF Max, F!Max
<1>13. Max(M) = Len(s) + 1
  <2>1. Max(M) <= Len(s) + 1
    BY <1>10, <1>12
  <2>2. Max(M) \in 1 .. Len(s) + 3 + n
    BY <1>11, <1>12
  <2> HIDE DEF M
  <2> QED
    BY <1>3, <1>12, <2>1, <2>2
<1>14. line[Max(M) + 1] = y
  BY <1>3, <1>7, <1>13
<1> QED
  BY <1>14 DEF Explanation, line, closing, M

\* What bits that are not unlike are printed as is what they are.
LEMMA LikeItsValue ==
  ASSUME NEW type, NEW v \in Wide, ~Unlike(type, v),
         type.kind = "Integer" => type.size \in {1, 2, 4, 8}
  PROVE  /\ type.kind = "Integer" => Number(Signed(v, 8)) = ValueOf(type, v)
         /\ type.kind = "Floating" => Double(v) = ValueOf(type, v)
<1>1. v \in Nat /\ v < Cap(8)
  BY Caps DEF Wide
<1>2. ASSUME NEW n \in Nat, v < n PROVE v % n = v
  BY <1>1, <1>2
<1>3. CASE type.kind = "Floating"
  <2>1. type.size = 8
    BY <1>3 DEF Unlike
  <2>2. v % Cap(8) = v
    BY <1>1, <1>2, Caps
  <2> QED
    BY <1>3, <2>1, <2>2 DEF ValueOf
<1>4. CASE type.kind = "Integer"
  <2> DEFINE n == Cap(type.size)
  <2>1. n \in Nat /\ n <= Cap(8) /\ v < n
    <3>1. type.size \in {1, 2, 4, 8} /\ ~(v >= n)
      BY <1>4 DEF Unlike
    <3>2. n \in Nat /\ n <= Cap(8)
      BY <3>1, Caps
    <3> HIDE DEF n
    <3> QED
      BY <1>1, <3>1, <3>2
  <2>2. v % n = v
    BY <1>2, <2>1
  <2>3. ValueOf(type, v)
          = Number(IF type.signed THEN Signed(v, type.size) ELSE v)
    BY <1>4, <2>2 DEF ValueOf
  <2>4. CASE type.signed /\ type.size = 8
    BY <1>4, <2>3, <2>4
  <2>5. CASE type.signed /\ type.size # 8
    <3>1. ~(2 * v >= n)
      BY <1>4, <2>5 DEF Unlike
    <3>2. ~(2 * v >= Cap(8))
      <4> HIDE DEF n
      <4> QED
        BY <1>1, <2>1, <3>1, Caps
    <3> QED
      BY <1>4, <2>3, <2>5, <3>1, <3>2 DEF Signed
  <2>6. CASE ~type.signed
    <3>1. ~(2 * v >= Cap(8))
      BY <1>4, <2>6 DEF Unlike
    <3> QED
      BY <1>4, <2>3, <2>6, <3>1 DEF Signed
  <2> QED
    BY <2>4, <2>5, <2>6
<1> QED
  BY <1>3, <1>4

-----------------------------------------------------------------------------
(* What the printer holds on its way                                       *)

OnTheWay == pc \in {"walk", "end"}
Started == IF pc = "next" THEN turn - 1 ELSE turn

\* The walk was left at a null pointer.
Stopped == node < Len(Chain) /\ Here.kind = "Pointer" /\ Raw = 0

\* What may come between an argument and its meaning.
Excused ==
  \/ HasRival(Argument) \/ Hidden(Argument) \/ Truncated(Argument)
  \/ ~GoodPointers(Argument)

\* More may have been read than there is of a type, which is no pointer.
Blurred(k) == Narrow(Argument) /\ Chain[Below(Chain, k)].kind # "Pointer"

\* A string is the caller's until an argument in its place is begun.
StringsInv ==
  \A k \in DOMAIN args :
    \/ args[k] = call.args[k]
    \/ \E m \in 1 .. Started : call.arguments[m].order + 1 = k

\* The string is what the type that is reached has for a value, and it is the
\* explanation unless a name has taken its place.
PlaceInv ==
  OnTheWay =>
    /\ Argument.order + 1 \in DOMAIN args
    /\ pc = "end" => node = Len(Chain) \/ Stopped
    /\ Excused \/ Blurred(node) \/ Raw = Meant(Argument)[node]
    /\ \/ prev = Number(Raw)
       \/ isFlag /\ HasValues(Argument)
       \/ Last(Chain).kind \in NoKinds
       \/ pc = "end" /\ Stopped

\* The argument k leaves the flags up.
Raises(k) ==
  LET a == call.arguments[k]
  IN  /\ HasValues(a)
      /\ \/ ~EndsIn(a, {"Integer"})
         \/ NullOnTheWay(a) \/ ~GoodPointers(a)
         \/ Truncated(a)
         \/ \E m \in 1 .. k - 1 : call.arguments[m].order = a.order

FlagInv ==
  /\ strFlag => isFlag
  /\ isFlag => \/ \E k \in 1 .. turn - 1 : Raises(k)
               \/ OnTheWay /\ HasValues(Argument)

ExplainInv == StringsInv /\ PlaceInv /\ FlagInv /\ NumbersRight /\ TroubleExplained

\* The chain that is walked over.
LEMMA TheChain ==
  ASSUME PrinterInv, turn <= Len(call.arguments)
  PROVE  /\ IsSequence(Chain) /\ Len(Chain) >= 1 /\ HasShape(Chain)
         /\ turn \in 1 .. Len(call.arguments) /\ Argument.order \in Nat
         /\ call.memory \in [DOMAIN call.memory -> 0 .. Byte - 1]
<1>1. /\ turn \in 1 .. Len(call.arguments) /\ Argument.order \in Nat
      /\ Chain \in Seq(Node) /\ Len(Chain) >= 1
      /\ call.memory \in [DOMAIN call.memory -> 0 .. Byte - 1]
  BY TheArgument
<1>2. IsCall(call)
  BY DEF PrinterInv, TypeOK
<1>3. HasShape(Chain)
  <2>1. turn \in DOMAIN call.arguments
    <3>1. call.arguments \in Seq([order : Nat, chain : Seq(Node) \ {<< >>},
                                   unset : BOOLEAN])
      BY <1>2 DEF IsCall
    <3> QED
      BY <1>1, <3>1
  <2>2. \A k \in DOMAIN call.arguments : HasShape(call.arguments[k].chain)
    BY <1>2 DEF IsCall
  <2> QED
    BY <2>1, <2>2 DEF Chain, Argument
<1>4. IsSequence(Chain)
  <2>1. Len(Chain) \in Nat /\ DOMAIN Chain = 1 .. Len(Chain)
    BY <1>1
  <2> QED
    BY <2>1 DEF IsSequence
<1> QED
  BY <1>1, <1>3, <1>4

\* What an alias hides is what the chain ends in.
LEMMA HiddenEnd ==
  ASSUME NEW a, IsSequence(a.chain), HasShape(a.chain), Hidden(a)
  PROVE  Last(a.chain).kind \in {"Struct", "TCharacter", "Void"}
<1>1. PICK k \in 1 .. Len(a.chain) - 1 :
        a.chain[Below(a.chain, k + 1)].kind \in {"Struct", "TCharacter", "Void"}
  BY DEF Hidden
<1>2. k + 1 \in 1 .. Len(a.chain)
  BY DEF IsSequence
<1>3. Below(a.chain, k + 1) = Len(a.chain)
  BY <1>1, <1>2, BelowIsLast
<1> QED
  BY <1>1, <1>3 DEF Last

\* What is named as nothing is the last one, or was not read.
LEMMA VoidEnd ==
  ASSUME NEW c, IsSequence(c), HasShape(c), NEW k \in 1 .. Len(c) - 1,
         c[k].base \in NamesOfVoid
  PROVE  Last(c).kind \in NoKinds
<1>1. k \in DOMAIN c /\ k < Len(c) /\ k + 1 \in 1 .. Len(c)
  BY DEF IsSequence
<1>2. c[Below(c, k + 1)].kind \in NoKinds
  BY <1>1 DEF HasShape
<1>3. c[Below(c, k + 1)].kind # "Pointer"
  BY <1>2 DEF NoKinds
<1>4. Below(c, k + 1) = Len(c)
  BY <1>1, <1>3, BelowIsLast
<1> QED
  BY <1>2, <1>4 DEF Last

\* How the value goes on below a place of the chain.
LEMMA MeantSteps ==
  ASSUME PrinterInv, turn <= Len(call.arguments), NEW k \in 1 .. Len(Chain) - 1
  PROVE  /\ Meant(Argument)[1] = call.args[Argument.order + 1]
         /\ Meant(Argument)[k + 1] =
              IF Reads(call.memory, Chain, k, Meant(Argument)[k])
              THEN At(call.memory, Meant(Argument)[k],
                      Width(Chain[Below(Chain, k + 1)]))
              ELSE Meant(Argument)[k]
<1>1. IsSequence(Chain) /\ Len(Chain) >= 1
  BY TheChain
<1>2. Meant(Argument) = Denotes(call.memory, Chain, call.args[Argument.order + 1])
  BY DEF Meant, Chain
<1> QED
  BY <1>1, <1>2, DenotesSteps

\* Where the printer does not read, there is nothing to be read.
LEMMA PassingMeans ==
  ASSUME PrinterInv, Walking, Here.kind # "Pointer" \/ ToObject \/ ToVoid
  PROVE  /\ Meant(Argument)[node + 1] = Meant(Argument)[node]
         /\ Blurred(node) => Blurred(node + 1)
<1>1. /\ turn <= Len(call.arguments) /\ node \in 1 .. Len(Chain)
      /\ node < Len(Chain)
  BY DEF PrinterInv, WalkInv, Walking
<1>2. IsSequence(Chain) /\ HasShape(Chain) /\ Len(Chain) \in Nat
  BY <1>1, TheChain DEF IsSequence
<1>3. node \in 1 .. Len(Chain) - 1 /\ node + 1 \in 1 .. Len(Chain)
  BY <1>1, <1>2
<1>4. ~Reads(call.memory, Chain, node, Meant(Argument)[node])
  <2>1. CASE Here.kind # "Pointer"
    BY <2>1 DEF Reads, Here
  <2>2. CASE ToObject
    <3>1. Base.kind \in {"TCharacter", "Struct"}
      BY <2>2 DEF ToObject
    <3>2. Chain[node + 1].kind \notin {"Alias", "Array"}
      BY <3>1 DEF Base
    <3>3. Below(Chain, node + 1) = node + 1
      BY <1>2, <1>3, <3>2, BelowFacts
    <3> QED
      BY <3>1, <3>3 DEF Reads, Base
  <2>3. CASE ToVoid
    BY <2>3 DEF Reads, ToVoid, Here
  <2> QED
    BY <2>1, <2>2, <2>3
<1>5. Blurred(node) => Blurred(node + 1)
  <2>1. CASE Here.kind = "Pointer"
    <3>1. Chain[node].kind \notin {"Alias", "Array"}
      BY <2>1 DEF Here
    <3>2. Below(Chain, node) = node
      BY <1>1, <1>2, <3>1, BelowFacts
    <3> QED
      BY <2>1, <3>2 DEF Blurred, Here
  <2>2. CASE Here.kind # "Pointer"
    <3>1. Chain[node].kind \in {"Alias", "Array"}
      BY <1>1, <1>2, <2>2 DEF HasShape, IsSequence, Here
    <3>2. Below(Chain, node) = Below(Chain, node + 1)
      BY <1>2, <1>3, <3>1, BelowSkips
    <3> QED
      BY <3>2 DEF Blurred
  <2> QED
    BY <2>1, <2>2
<1> QED
  BY <1>1, <1>3, <1>4, <1>5, MeantSteps

\* What a pointer that is followed leads to has a number.
LEMMA FollowingReads ==
  ASSUME PrinterInv, Following, ~Hidden(Argument)
  PROVE  Chain[Below(Chain, node + 1)].kind \notin {"Struct", "TCharacter", "Void"}
<1>1. /\ turn <= Len(call.arguments) /\ node \in 1 .. Len(Chain)
      /\ node < Len(Chain)
  BY DEF PrinterInv, WalkInv, Following, Walking
<1>2. IsSequence(Chain) /\ HasShape(Chain) /\ Len(Chain) \in Nat
  BY <1>1, TheChain DEF IsSequence
<1>3. node \in 1 .. Len(Chain) - 1 /\ node + 1 \in 1 .. Len(Chain)
  BY <1>1, <1>2
<1>4. /\ Chain[node].kind = "Pointer"
      /\ Chain[node + 1].kind \notin {"TCharacter", "Struct"}
      /\ Chain[node].base \notin NamesOfVoid
  BY DEF Following, ToObject, ToVoid, Here, Base
<1> SUFFICES ASSUME Chain[Below(Chain, node + 1)].kind
                      \in {"Struct", "TCharacter", "Void"}
             PROVE  FALSE
  OBVIOUS
<1>5. CASE Chain[node + 1].kind \in {"Alias", "Array"}
  <2>1. Hidden(Argument)
    BY <1>3, <1>4, <1>5 DEF Hidden, Chain
  <2> QED
    BY <2>1
<1>6. CASE Chain[node + 1].kind \notin {"Alias", "Array"}
  <2>1. Below(Chain, node + 1) = node + 1
    BY <1>2, <1>3, <1>6, BelowFacts
  <2>2. Chain[node + 1].kind = "Void"
    BY <1>4, <2>1
  <2>3. Chain[node].base \in NamesOfVoid
    BY <1>1, <1>2, <1>3, <2>2 DEF HasShape, IsSequence
  <2> QED
    BY <1>4, <2>3
<1> QED
  BY <1>5, <1>6

\* A pointer to a number has its eight bytes, an integer or a double what it has.
LEMMA TargetSize ==
  ASSUME PrinterInv, turn <= Len(call.arguments), NEW k \in 1 .. Len(Chain) - 1
  PROVE  LET type == Chain[Below(Chain, k + 1)]
         IN  /\ Below(Chain, k + 1) \in 1 .. Len(Chain) /\ type.size \in Nat
             /\ Width(type) \in {1, 2, 4, 8}
             /\ type.kind \in {"Integer", "Floating", "Pointer"}
                  => Width(type) = type.size
             /\ type.kind \notin {"Integer", "Floating", "Pointer"} => Width(type) = 4
             /\ type.kind = "Pointer" => Width(type) = 8
<1>1. IsSequence(Chain) /\ HasShape(Chain) /\ Len(Chain) \in Nat
  BY TheChain DEF IsSequence
<1>2. Chain \in Seq(Node)
  BY TheArgument
<1> DEFINE b == Below(Chain, k + 1)
<1>3. b \in 1 .. Len(Chain)
  <2>1. k + 1 \in 1 .. Len(Chain)
    BY <1>1
  <2>2. b \in k + 1 .. Len(Chain)
    BY <1>1, <2>1, BelowFacts
  <2> HIDE DEF b
  <2> QED
    BY <1>1, <2>2
<1> HIDE DEF b
<1>4. Chain[b] \in Node
  BY <1>2, <1>3
<1>5. Chain[b].size \in Nat
  BY <1>4 DEF Node
<1>6. /\ Chain[b].kind = "Integer" => Chain[b].size \in {1, 2, 4, 8}
      /\ Chain[b].kind = "Floating" => Chain[b].size \in {4, 8}
      /\ Chain[b].kind = "Pointer" => Chain[b].size = 8
  BY <1>1, <1>3 DEF HasShape, IsSequence
<1>7. /\ Width(Chain[b]) \in {1, 2, 4, 8}
      /\ Chain[b].kind \in {"Integer", "Floating", "Pointer"}
           => Width(Chain[b]) = Chain[b].size
      /\ Chain[b].kind \notin {"Integer", "Floating", "Pointer"}
           => Width(Chain[b]) = 4
      /\ Chain[b].kind = "Pointer" => Width(Chain[b]) = 8
  BY <1>6 DEF Width
<1> QED
  BY <1>3, <1>5, <1>7 DEF b

\* What a good pointer leads to.
LEMMA GoodReach ==
  ASSUME GoodPointers(Argument), NEW k \in 1 .. Len(Chain) - 1,
         Chain[k].kind = "Pointer", Meant(Argument)[k] # 0
  PROVE  Reaches(call.memory, Chain[Below(Chain, k + 1)], Meant(Argument)[k])
BY DEF GoodPointers, Good, Meant, Chain

\* The string of the argument is a number.
LEMMA RawIsNumber ==
  ASSUME PrinterInv, ExplainInv, OnTheWay
  PROVE  Raw \in Nat /\ Raw \in Wide
<1>1. Argument.order + 1 \in DOMAIN args
  BY DEF ExplainInv, PlaceInv
<1>2. args \in [DOMAIN call.args -> Wide]
  BY DEF PrinterInv, TypeOK
<1>3. Raw \in Wide
  BY <1>1, <1>2 DEF Raw
<1> QED
  BY <1>3 DEF Wide

\* What the printer reads is what is meant, unless that is hidden, truncated or
\* less than an int.
LEMMA FollowingMeans ==
  ASSUME PrinterInv, ExplainInv, Following, Readable, ~Excused
  PROVE  Blurred(node + 1) \/ Dword(call.memory, Raw) = Meant(Argument)[node + 1]
<1> DEFINE type == Chain[Below(Chain, node + 1)]
<1>1. /\ turn <= Len(call.arguments) /\ node \in 1 .. Len(Chain)
      /\ node < Len(Chain) /\ OnTheWay
      /\ Here.kind = "Pointer" /\ Raw # 0
  BY DEF PrinterInv, WalkInv, Following, Walking, OnTheWay
<1>2. /\ IsSequence(Chain) /\ Len(Chain) \in Nat
      /\ call.memory \in [DOMAIN call.memory -> 0 .. Byte - 1]
  BY <1>1, TheChain DEF IsSequence
<1>3. node \in 1 .. Len(Chain) - 1
  BY <1>1, <1>2
<1>4. Raw \in Nat
  BY <1>1, RawIsNumber
<1>5. Raw = Meant(Argument)[node]
  <2>1. Below(Chain, node) = node
    BY <1>1, <1>2, BelowFacts DEF Here
  <2>2. ~Blurred(node)
    BY <1>1, <2>1 DEF Blurred, Here
  <2> QED
    BY <1>1, <2>2 DEF ExplainInv, PlaceInv
<1>6. type.kind \notin {"Struct", "TCharacter", "Void"}
  BY FollowingReads DEF Excused
<1>7. /\ type.size \in Nat /\ Width(type) \in {1, 2, 4, 8}
      /\ type.kind \in {"Integer", "Floating", "Pointer"} => Width(type) = type.size
      /\ type.kind \notin {"Integer", "Floating", "Pointer"} => Width(type) = 4
      /\ type.kind = "Pointer" => Width(type) = 8
  BY <1>1, <1>3, TargetSize
<1> HIDE DEF type
<1>8. Cells(Raw, Width(type)) \subseteq DOMAIN call.memory
  <2>1. Reaches(call.memory, type, Raw)
    BY <1>1, <1>3, <1>5, GoodReach DEF Excused, Here, type
  <2>2. Cells(Raw, type.size) \subseteq DOMAIN call.memory
    BY <1>6, <2>1 DEF Reaches
  <2> QED
    BY <1>7, <2>2 DEF Readable
<1>9. Reads(call.memory, Chain, node, Meant(Argument)[node])
  BY <1>1, <1>5, <1>6, <1>8 DEF Reads, Following, ToVoid, Here, type
<1>10. Meant(Argument)[node + 1] = At(call.memory, Raw, Width(type))
  BY <1>1, <1>3, <1>5, <1>9, MeantSteps DEF type
<1>11. CASE Width(type) = 4
  BY <1>10, <1>11 DEF At
<1>12. CASE Width(type) = 8
  <2>1. Meant(Argument)[node + 1] = Qword(call.memory, Raw)
    BY <1>10, <1>12 DEF At
  <2>2. ~(Meant(Argument)[node + 1] >= Half)
    BY <1>3, <1>9 DEF Excused, Truncated, ReadsAt, Chain
  <2>3. Cells(Raw, 8) \subseteq DOMAIN call.memory
    BY <1>8, <1>12
  <2>4. Qword(call.memory, Raw) \in Nat
    <3>1. Dword(call.memory, Raw) \in 0 .. Half - 1
      BY <1>2, <1>4, Readings DEF Readable
    <3>2. Cells(Raw + 4, 4) \subseteq DOMAIN call.memory /\ Raw + 4 \in Nat
      BY <1>4, <2>3 DEF Cells
    <3>3. Dword(call.memory, Raw + 4) \in 0 .. Half - 1
      BY <1>2, <3>2, Readings
    <3>4. Half * Dword(call.memory, Raw + 4) \in Nat
      BY <3>3, Caps
    <3> QED
      BY <3>1, <3>4 DEF Qword
  <2>5. Qword(call.memory, Raw) < Half
    BY <2>1, <2>2, <2>4, Caps
  <2> QED
    BY <1>2, <1>4, <2>1, <2>3, <2>5, Readings DEF Readable
<1>13. CASE Width(type) \in {1, 2}
  <2>1. type.kind # "Pointer" /\ type.size < 4
    BY <1>7, <1>13
  <2>2. Narrow(Argument)
    BY <1>1, <1>3, <1>6, <2>1 DEF Narrow, Here, Chain, type
  <2> QED
    BY <2>1, <2>2 DEF Blurred, type
<1> QED
  BY <1>7, <1>11, <1>12, <1>13

\* Nothing can have come between the argument k and its number.
Plain(k) ==
  LET a == call.arguments[k]
  IN  /\ EndsIn(a, {"Integer", "Floating"})
      /\ \A m \in 1 .. k : ~HasValues(call.arguments[m])
      /\ \A m \in 1 .. k - 1 : call.arguments[m].order # a.order
      /\ GoodPointers(a) /\ ~NullOnTheWay(a) /\ ~Truncated(a) /\ ~Narrow(a)
      /\ ~Unlike(Last(a.chain), Last(Meant(a)))

\* What explains it.
Worthy(k) == ValueOf(Last(call.arguments[k].chain), Last(Meant(call.arguments[k])))

LEMMA NumbersRightPlain ==
  NumbersRight <=>
    \A k \in DOMAIN lines : Plain(k) => Explanation(lines[k]) = Worthy(k)
BY DEF NumbersRight, Plain, Worthy

\* The meaning of an argument is the call's, and stays.
LEMMA SameMeaning ==
  ASSUME UNCHANGED call
  PROVE  /\ \A k : Raises(k)' <=> Raises(k)
         /\ \A k : Plain(k)' <=> Plain(k)
         /\ UNCHANGED turn =>
              /\ Argument' = Argument /\ Chain' = Chain
              /\ Meant(Argument)' = Meant(Argument)
              /\ Excused' <=> Excused
              /\ \A k : Blurred(k)' <=> Blurred(k)
<1>1. \A k : Raises(k)' <=> Raises(k)
  BY DEF Raises, Truncated, ReadsAt, NullOnTheWay, GoodPointers, Meant
<1>2. \A k : Plain(k)' <=> Plain(k)
  BY DEF Plain, Truncated, ReadsAt, NullOnTheWay, GoodPointers, Narrow, Meant
<1>3. ASSUME UNCHANGED turn
      PROVE  /\ Argument' = Argument /\ Chain' = Chain
             /\ Meant(Argument)' = Meant(Argument)
             /\ Excused' <=> Excused
             /\ \A k : Blurred(k)' <=> Blurred(k)
  <2>1. Argument' = Argument /\ Chain' = Chain
    BY <1>3 DEF Argument, Chain
  <2>2. Meant(Argument)' = Meant(Argument)
    BY <1>3, <2>1 DEF Meant
  <2>3. Excused' <=> Excused
    BY <1>3, <2>1, <2>2
    DEF Excused, HasRival, Hidden, Truncated, ReadsAt, GoodPointers, Meant
  <2>4. \A k : Blurred(k)' <=> Blurred(k)
    BY <1>3, <2>1, <2>2 DEF Blurred, Narrow, Chain
  <2> QED
    BY <2>1, <2>2, <2>3, <2>4
<1> QED
  BY <1>1, <1>2, <1>3

\* What has been printed stays.
LEMMA SameNumbers == UNCHANGED <<call, lines>> /\ NumbersRight => NumbersRight'
BY Zenon DEF NumbersRight, Truncated, ReadsAt, NullOnTheWay, GoodPointers, Narrow, Meant

\* A value of the type gives the number its name.
LEMMA NamedByValues ==
  ASSUME Walking, PrinterInv, LookUp
  PROVE  /\ Named = prev \/ (isFlag' /\ HasValues(Argument))
         /\ isFlag' => isFlag \/ HasValues(Argument)
         /\ isFlag => isFlag'
         /\ strFlag' => strFlag \/ isFlag'
<1>1. node \in 1 .. Len(Chain) /\ node < Len(Chain) /\ turn <= Len(call.arguments)
  BY DEF PrinterInv, WalkInv, Walking
<1>2. node \in 1 .. Len(Chain) - 1
  BY <1>1, TheChain DEF IsSequence
<1>3. Here.defs # << >> => HasValues(Argument)
  BY <1>2 DEF HasValues, Here, Chain
<1>4. Hits # {} => Here.defs # << >>
  BY DEF Hits
<1> QED
  BY <1>3, <1>4 DEF LookUp, Named

\* One turn of the loop, from one type to the next.
LEMMA DescendExplains ==
  ASSUME PrinterInv, ExplainInv, Walking, LookUp, Descend,
         UNCHANGED <<call, turn, lines, outcome>>,
         NEW r, args' = [args EXCEPT ![Argument.order + 1] = r],
         Excused \/ Blurred(node + 1) \/ r = Meant(Argument)[node + 1],
         \/ prev' = Number(r)
         \/ isFlag' /\ HasValues(Argument)
         \/ Last(Chain).kind \in NoKinds
  PROVE  ExplainInv'
<1>1. /\ node \in 1 .. Len(Chain) /\ node < Len(Chain) /\ pc = "walk"
      /\ outcome = "running" /\ turn <= Len(call.arguments)
  BY DEF PrinterInv, WalkInv, Walking
<1>2. Len(Chain) \in Nat /\ turn \in Nat
  BY <1>1, TheChain DEF IsSequence
<1>3. /\ Argument' = Argument /\ Chain' = Chain /\ (Excused' <=> Excused)
      /\ Meant(Argument)' = Meant(Argument)
      /\ \A k : (Raises(k)' <=> Raises(k)) /\ (Blurred(k)' <=> Blurred(k))
  BY SameMeaning
<1>4. Argument.order + 1 \in DOMAIN args
  BY <1>1 DEF ExplainInv, PlaceInv, OnTheWay
<1>5. Raw' = r /\ DOMAIN args' = DOMAIN args
      /\ \A k \in DOMAIN args : k # Argument.order + 1 => args'[k] = args[k]
  BY <1>3, <1>4 DEF Raw
<1>6. /\ pc' \in {"walk", "end"} /\ node' = node + 1
      /\ pc' = "end" => node + 1 = Len(Chain)
  BY <1>1, <1>2 DEF Descend
<1>7. StringsInv'
  <2>1. Started = turn /\ Started' = turn
    BY <1>1, <1>6 DEF Started
  <2> SUFFICES ASSUME NEW k \in DOMAIN args
               PROVE  \/ args'[k] = call.args[k]
                      \/ \E m \in 1 .. turn : call.arguments[m].order + 1 = k
    BY <1>5, <2>1 DEF StringsInv
  <2>2. CASE k = Argument.order + 1
    <3>1. turn \in 1 .. turn
      BY <1>1, TheChain
    <3> QED
      BY <2>2, <3>1 DEF Argument
  <2>3. CASE k # Argument.order + 1
    BY <1>5, <2>1, <2>3 DEF ExplainInv, StringsInv
  <2> QED
    BY <2>2, <2>3
<1>8. PlaceInv'
  <2>1. HasValues(Argument') <=> HasValues(Argument)
    BY <1>3
  <2>2. /\ Argument'.order + 1 \in DOMAIN args'
        /\ pc' = "end" => node' = Len(Chain')
        /\ Excused' \/ Blurred(node)' \/ Raw' = Meant(Argument)'[node']
        /\ \/ prev' = Number(Raw')
           \/ isFlag' /\ HasValues(Argument')
           \/ Last(Chain').kind \in NoKinds
    <3>1. Blurred(node)' <=> Blurred(node + 1)
      BY <1>3, <1>6 DEF Blurred, Narrow
    <3> QED
      BY <1>3, <1>4, <1>5, <1>6, <3>1
  <2> QED
    BY <2>2 DEF PlaceInv
<1>9. FlagInv'
  <2>1. OnTheWay'
    BY <1>6 DEF OnTheWay
  <2>2. /\ strFlag' => isFlag'
        /\ isFlag' => \/ \E k \in 1 .. turn - 1 : Raises(k)
                      \/ HasValues(Argument)
    BY NamedByValues DEF ExplainInv, FlagInv
  <2>3. turn' = turn /\ (HasValues(Argument') <=> HasValues(Argument))
    BY <1>3
  <2> QED
    BY <1>3, <2>1, <2>2, <2>3 DEF FlagInv
<1>10. NumbersRight'
  BY SameNumbers DEF ExplainInv
<1>11. TroubleExplained'
  BY <1>1 DEF TroubleExplained
<1> QED
  BY <1>7, <1>8, <1>9, <1>10, <1>11 DEF ExplainInv

\* The turns that leave the string and the text as they are.
LEMMA PassExplains ==
  PrinterInv /\ ExplainInv /\ (PassAlias \/ PassObject \/ PassVoid) => ExplainInv'
<1> SUFFICES ASSUME PrinterInv, ExplainInv, PassAlias \/ PassObject \/ PassVoid
             PROVE  ExplainInv'
  OBVIOUS
<1>1. /\ Walking /\ Descend /\ LookUp
      /\ UNCHANGED <<call, turn, lines, outcome, args, text>>
  BY DEF PassAlias, PassObject, PassVoid
<1>2. Here.kind # "Pointer" \/ ToObject \/ ToVoid
  BY DEF PassAlias, PassObject, PassVoid
<1>3. /\ node \in 1 .. Len(Chain) /\ node < Len(Chain) /\ pc = "walk"
      /\ turn <= Len(call.arguments)
  BY <1>1 DEF PrinterInv, WalkInv, Walking
<1>4. /\ Argument.order + 1 \in DOMAIN args
      /\ Excused \/ Blurred(node) \/ Raw = Meant(Argument)[node]
      /\ \/ prev = Number(Raw)
         \/ isFlag /\ HasValues(Argument)
         \/ Last(Chain).kind \in NoKinds
  BY <1>3 DEF ExplainInv, PlaceInv, OnTheWay
<1>5. args' = [args EXCEPT ![Argument.order + 1] = Raw]
  <2>1. args = [k \in DOMAIN args |-> args[k]]
    BY DEF PrinterInv, TypeOK
  <2> QED
    BY <1>1, <2>1 DEF Raw
<1>6. Excused \/ Blurred(node + 1) \/ Raw = Meant(Argument)[node + 1]
  BY <1>1, <1>2, <1>4, PassingMeans
<1>7. ToVoid => Last(Chain).kind \in NoKinds
  <2> SUFFICES ASSUME ToVoid PROVE Last(Chain).kind \in NoKinds
    OBVIOUS
  <2>1. Chain[node].base \in NamesOfVoid
    BY DEF ToVoid, Here
  <2>2. IsSequence(Chain) /\ HasShape(Chain) /\ node \in 1 .. Len(Chain) - 1
    BY <1>3, TheChain DEF IsSequence
  <2> QED
    BY <2>1, <2>2, VoidEnd
<1>8. \/ prev' = Number(Raw)
      \/ isFlag' /\ HasValues(Argument)
      \/ Last(Chain).kind \in NoKinds
  <2>1. /\ Named = prev \/ (isFlag' /\ HasValues(Argument))
        /\ isFlag => isFlag'
    BY <1>1, NamedByValues
  <2>2. CASE PassAlias \/ PassObject
    BY <1>4, <2>1, <2>2 DEF PassAlias, PassObject
  <2>3. CASE PassVoid
    BY <1>7, <2>3 DEF PassVoid
  <2> QED
    BY <2>2, <2>3
<1> QED
  BY <1>1, <1>4, <1>5, <1>6, <1>8, DescendExplains

\* What is read is what the base has for a value.
LEMMA FollowExplains == PrinterInv /\ ExplainInv /\ Follow => ExplainInv'
<1> SUFFICES ASSUME PrinterInv, ExplainInv, Follow PROVE ExplainInv'
  OBVIOUS
<1> DEFINE v == Dword(call.memory, Raw)
<1>1. /\ Walking /\ Following /\ Descend /\ LookUp /\ Readable
      /\ UNCHANGED <<call, turn, lines, outcome>>
      /\ args' = [args EXCEPT ![Argument.order + 1] = v] /\ prev' = Number(v)
  BY DEF Follow, Following
<1>2. Excused \/ Blurred(node + 1) \/ v = Meant(Argument)[node + 1]
  BY <1>1, FollowingMeans
<1> HIDE DEF v
<1> QED
  BY <1>1, <1>2, DescendExplains

\* The walk is left at null.
LEMMA StopExplains == PrinterInv /\ ExplainInv /\ StopAtNull => ExplainInv'
<1> SUFFICES ASSUME PrinterInv, ExplainInv, StopAtNull PROVE ExplainInv'
  OBVIOUS
<1>1. /\ Walking /\ LookUp /\ Here.kind = "Pointer" /\ Raw = 0
      /\ pc' = "end"
      /\ UNCHANGED <<call, args, turn, node, pars, lines, outcome>>
  BY DEF StopAtNull
<1>2. /\ node < Len(Chain) /\ pc = "walk" /\ outcome = "running"
  BY <1>1 DEF PrinterInv, WalkInv, Walking
<1>3. /\ Argument' = Argument /\ Chain' = Chain /\ (Excused' <=> Excused)
      /\ Meant(Argument)' = Meant(Argument)
      /\ \A k : (Raises(k)' <=> Raises(k)) /\ (Blurred(k)' <=> Blurred(k))
  BY <1>1, SameMeaning
<1>4. Raw' = Raw /\ Stopped'
  BY <1>1, <1>2, <1>3 DEF Raw, Stopped, Here
<1>5. StringsInv'
  BY <1>1, <1>2 DEF ExplainInv, StringsInv, Started
<1>6. PlaceInv'
  <2>1. /\ Argument.order + 1 \in DOMAIN args
        /\ Excused \/ Blurred(node) \/ Raw = Meant(Argument)[node]
    BY <1>2 DEF ExplainInv, PlaceInv, OnTheWay
  <2>2. Blurred(node)' <=> Blurred(node)
    BY <1>1, <1>3 DEF Blurred, Narrow
  <2>3. /\ Argument'.order + 1 \in DOMAIN args'
        /\ Excused' \/ Blurred(node)' \/ Raw' = Meant(Argument)'[node']
        /\ pc' = "end"
    BY <1>1, <1>3, <1>4, <2>1, <2>2
  <2> QED
    BY <1>4, <2>3 DEF PlaceInv
<1>7. FlagInv'
  <2>1. OnTheWay'
    BY <1>1 DEF OnTheWay
  <2>2. /\ strFlag' => isFlag'
        /\ isFlag' => \/ \E k \in 1 .. turn - 1 : Raises(k)
                      \/ HasValues(Argument)
    BY <1>1, NamedByValues DEF ExplainInv, FlagInv
  <2>3. turn' = turn /\ (HasValues(Argument') <=> HasValues(Argument))
    BY <1>1, <1>3
  <2> QED
    BY <1>3, <2>1, <2>2, <2>3 DEF FlagInv
<1>8. NumbersRight'
  BY <1>1, SameNumbers DEF ExplainInv
<1>9. TroubleExplained'
  BY <1>1, <1>2 DEF TroubleExplained
<1> QED
  BY <1>5, <1>6, <1>7, <1>8, <1>9 DEF ExplainInv

\* An argument is begun: its string is the caller's if it is the first in its
\* place.
LEMMA BeginExplains == PrinterInv /\ ExplainInv /\ Begin => ExplainInv'
<1> SUFFICES ASSUME PrinterInv, ExplainInv, Begin PROVE ExplainInv'
  OBVIOUS
<1>1. /\ turn <= Len(call.arguments) /\ pc = "next" /\ outcome = "running"
      /\ Argument.order + 1 \in DOMAIN args
      /\ prev' = Number(Raw) /\ text' = <<Number(Raw)>> /\ node' = 1
      /\ pc' = IF Len(Chain) > 1 THEN "walk" ELSE "end"
      /\ UNCHANGED <<call, args, turn, isFlag, strFlag, lines, outcome>>
  BY DEF Begin
<1>2. /\ IsSequence(Chain) /\ Len(Chain) >= 1 /\ Len(Chain) \in Nat
      /\ turn \in Nat /\ turn >= 1 /\ Argument.order \in Nat
  BY <1>1, TheChain DEF IsSequence
<1>3. /\ Argument' = Argument /\ Chain' = Chain /\ (Excused' <=> Excused)
      /\ Meant(Argument)' = Meant(Argument)
      /\ \A k : (Raises(k)' <=> Raises(k)) /\ (Blurred(k)' <=> Blurred(k))
  BY <1>1, SameMeaning
<1>4. Raw' = Raw
  BY <1>1, <1>3 DEF Raw
<1>5. /\ pc' \in {"walk", "end"} /\ pc' # "next"
      /\ pc' = "end" => Len(Chain) = 1
  <2>1. CASE Len(Chain) > 1
    <3>1. pc' = "walk"
      BY <1>1, <2>1
    <3> QED
      BY <3>1
  <2>2. CASE ~(Len(Chain) > 1)
    <3>1. pc' = "end"
      BY <1>1, <2>2
    <3>2. Len(Chain) = 1
      BY <1>2, <2>2
    <3> QED
      BY <3>1, <3>2
  <2> QED
    BY <2>1, <2>2
<1>6. Started = turn - 1 /\ Started' = turn
  BY <1>1, <1>5 DEF Started
<1>7. StringsInv'
  <2>1. 1 .. turn - 1 \subseteq 1 .. turn
    BY <1>2
  <2> QED
    BY <1>1, <1>6, <2>1 DEF ExplainInv, StringsInv
<1>8. Excused \/ Raw = Meant(Argument)[1]
  <2>1. \/ Raw = call.args[Argument.order + 1]
        \/ \E m \in 1 .. turn - 1 : call.arguments[m].order + 1 = Argument.order + 1
    BY <1>1, <1>6 DEF ExplainInv, StringsInv, Raw
  <2>2. CASE Raw = call.args[Argument.order + 1]
    <3>1. Meant(Argument) = Denotes(call.memory, Chain, call.args[Argument.order + 1])
      BY DEF Meant, Chain
    <3>2. Denotes(call.memory, Chain, Raw)[1] = Raw
      BY <1>2, DenotesFirst
    <3> QED
      BY <2>2, <3>1, <3>2
  <2>3. ASSUME NEW m \in 1 .. turn - 1,
               call.arguments[m].order + 1 = Argument.order + 1
        PROVE  Excused
    <3>1. call.arguments[m].order \in Nat
      <4>1. m \in 1 .. Len(call.arguments)
        BY <1>1, TheChain
      <4>2. call.arguments \in Seq([order : Nat, chain : Seq(Node) \ {<< >>},
                                     unset : BOOLEAN])
        BY DEF PrinterInv, TypeOK, IsCall
      <4>3. call.arguments[m] \in [order : Nat, chain : Seq(Node) \ {<< >>},
                                    unset : BOOLEAN]
        <5>1. \A R : call.arguments \in Seq(R) => call.arguments[m] \in R
          BY <4>1
        <5> QED
          BY <4>2, <5>1, Zenon
      <4> QED
        BY <4>3
    <3>2. call.arguments[m].order = Argument.order
      BY <1>2, <2>3, <3>1
    <3> QED
      BY <3>2 DEF Excused, HasRival
  <2> QED
    BY <2>1, <2>2, <2>3
<1>9. PlaceInv'
  <2>1. /\ Argument'.order + 1 \in DOMAIN args'
        /\ pc' = "end" => node' = Len(Chain')
        /\ Excused' \/ Raw' = Meant(Argument)'[node']
        /\ prev' = Number(Raw')
    BY <1>1, <1>3, <1>4, <1>5, <1>8
  <2> QED
    BY <2>1 DEF PlaceInv
<1>10. FlagInv'
  BY <1>1, <1>3 DEF ExplainInv, FlagInv, OnTheWay
<1>11. NumbersRight'
  BY <1>1, SameNumbers DEF ExplainInv
<1>12. TroubleExplained'
  BY <1>1 DEF TroubleExplained
<1> QED
  BY <1>7, <1>9, <1>10, <1>11, <1>12 DEF ExplainInv

\* The last place of a chain has the last value.
LEMMA MeantEnd ==
  ASSUME NEW memory, NEW c, IsSequence(c), Len(c) >= 1, NEW v
  PROVE  Last(Denotes(memory, c, v)) = Denotes(memory, c, v)[Len(c)]
<1>1. DOMAIN Denotes(memory, c, v) = 1 .. Len(c) /\ Len(c) \in Nat
  BY DenotesSteps DEF IsSequence
<1>2. Len(Denotes(memory, c, v)) = Len(c)
  BY <1>1
<1> QED
  BY <1>2 DEF Last

\* The walk has come to where the value of the last type is.
LEMMA EndMeans ==
  ASSUME PrinterInv, ExplainInv, Ending, ~Excused, ~Narrow(Argument),
         node = Len(Chain)
  PROVE  Raw = Last(Meant(Argument))
<1>1. pc = "end" /\ turn <= Len(call.arguments)
  BY DEF PrinterInv, WalkInv, Ending
<1>2. IsSequence(Chain) /\ Len(Chain) >= 1
  BY <1>1, TheChain
<1>3. Raw = Meant(Argument)[node]
  BY <1>1 DEF ExplainInv, PlaceInv, OnTheWay, Blurred
<1>4. Last(Meant(Argument)) = Meant(Argument)[Len(Chain)]
  BY <1>2, MeantEnd DEF Meant, Chain
<1> QED
  BY <1>3, <1>4

\* The flags that stay up have a reason in the argument that is printed.
LEMMA FlagsStay ==
  ASSUME PrinterInv, ExplainInv, Ending, isFlag, Here.kind # "Integer"
  PROVE  \E k \in 1 .. turn : Raises(k)
<1>1. pc = "end" /\ turn <= Len(call.arguments) /\ node \in 1 .. Len(Chain)
  BY DEF PrinterInv, WalkInv, Ending
<1>2. /\ IsSequence(Chain) /\ HasShape(Chain) /\ Len(Chain) \in Nat
      /\ turn \in 1 .. Len(call.arguments)
  BY <1>1, TheChain DEF IsSequence
<1>3. CASE \E k \in 1 .. turn - 1 : Raises(k)
  BY <1>2, <1>3
<1>4. CASE HasValues(Argument)
  <2> SUFFICES ASSUME ~Raises(turn) PROVE FALSE
    BY <1>2
  <2>1. /\ EndsIn(Argument, {"Integer"}) /\ ~NullOnTheWay(Argument)
        /\ ~Truncated(Argument) /\ GoodPointers(Argument)
        /\ ~\E m \in 1 .. turn - 1 : call.arguments[m].order = Argument.order
    BY <1>4 DEF Raises, Argument
  <2>2. Last(Chain).kind = "Integer"
    BY <2>1 DEF EndsIn, Chain
  <2>3. ~Hidden(Argument)
    BY <1>2, <2>2, HiddenEnd DEF Chain
  <2>4. ~Excused
    BY <2>1, <2>3 DEF Excused, HasRival
  <2>5. node # Len(Chain)
    BY <2>2 DEF Here, Last
  <2>6. Stopped /\ Raw = Meant(Argument)[node]
    <3>1. Stopped
      BY <1>1, <2>5 DEF ExplainInv, PlaceInv, OnTheWay
    <3>2. Below(Chain, node) = node
      BY <1>1, <1>2, <3>1, BelowFacts DEF Stopped, Here
    <3>3. ~Blurred(node)
      BY <3>1, <3>2 DEF Blurred, Stopped, Here
    <3> QED
      BY <1>1, <2>4, <3>1, <3>3 DEF ExplainInv, PlaceInv, OnTheWay
  <2>7. NullOnTheWay(Argument)
    <3>1. node \in 1 .. Len(Chain) - 1
      BY <1>1, <1>2, <2>5
    <3> QED
      BY <2>6, <3>1 DEF NullOnTheWay, Stopped, Here, Chain
  <2> QED
    BY <2>1, <2>7
<1> QED
  BY <1>3, <1>4 DEF ExplainInv, FlagInv

\* The walk over such an argument ends with its value, and the flags are down.
LEMMA PlainMeans ==
  ASSUME PrinterInv, ExplainInv, Ending, Plain(turn)
  PROVE  /\ ~isFlag /\ Raw = Last(Meant(Argument)) /\ prev = Number(Raw)
         /\ Here = Last(Chain) /\ Here.kind \in {"Integer", "Floating"}
<1>1. pc = "end" /\ turn <= Len(call.arguments) /\ node \in 1 .. Len(Chain)
  BY DEF PrinterInv, WalkInv, Ending
<1>2. /\ IsSequence(Chain) /\ HasShape(Chain) /\ Len(Chain) \in Nat
      /\ turn \in 1 .. Len(call.arguments)
  BY <1>1, TheChain DEF IsSequence
<1>3. Last(Chain).kind \in {"Integer", "Floating"}
  BY DEF Plain, EndsIn, Argument, Chain
<1>4. /\ ~Excused /\ ~Narrow(Argument) /\ ~NullOnTheWay(Argument)
      /\ \A m \in 1 .. turn : ~HasValues(call.arguments[m])
  <2>1. ~Hidden(Argument)
    BY <1>2, <1>3, HiddenEnd DEF Chain
  <2> QED
    BY <2>1 DEF Plain, Excused, HasRival, Argument
<1>5. ~HasValues(Argument)
  <2>1. turn \in 1 .. turn
    BY <1>2
  <2> QED
    BY <1>4, <2>1 DEF Argument
<1>6. ~isFlag
  <2>1. 1 .. turn - 1 \subseteq 1 .. turn
    BY <1>2
  <2>2. ~\E k \in 1 .. turn - 1 : Raises(k)
    BY <1>4, <2>1 DEF Raises
  <2> QED
    BY <1>5, <2>2 DEF ExplainInv, FlagInv
<1>7. ~Stopped
  <2> SUFFICES ASSUME Stopped PROVE FALSE
    OBVIOUS
  <2>1. node \in 1 .. Len(Chain) - 1
    BY <1>1, <1>2 DEF Stopped
  <2>2. Raw = Meant(Argument)[node]
    BY <1>1, <1>4 DEF ExplainInv, PlaceInv, OnTheWay, Blurred
  <2>3. NullOnTheWay(Argument)
    BY <2>1, <2>2 DEF NullOnTheWay, Stopped, Here, Chain
  <2> QED
    BY <1>4, <2>3
<1>8. node = Len(Chain) /\ prev = Number(Raw)
  <2>1. Last(Chain).kind \notin NoKinds
    BY <1>3 DEF NoKinds
  <2> QED
    BY <1>1, <1>5, <1>7, <2>1 DEF ExplainInv, PlaceInv, OnTheWay
<1>9. Raw = Last(Meant(Argument))
  BY <1>4, <1>8, EndMeans
<1> QED
  BY <1>3, <1>6, <1>8, <1>9 DEF Here, Last

\* The line of an argument: the flags that stay up have a reason, and the number
\* that explains it is right.
LEMMA EmitExplains ==
  ASSUME PrinterInv, ExplainInv, Ending, NEW explained, Emit(explained),
         IsSeq(explained),
         \/ isFlag' = FALSE /\ strFlag' = FALSE
         \/ UNCHANGED <<isFlag, strFlag>> /\ (isFlag => Here.kind # "Integer"),
         Plain(turn) => \E y : /\ explained = <<Open, y, Close>> /\ NotPar(y)
                               /\ y = Worthy(turn)
  PROVE  ExplainInv'
<1> DEFINE closing == [k \in 1 .. pars |-> Close]
           line == text \o explained \o closing
<1>1. /\ pc = "end" /\ turn <= Len(call.arguments) /\ outcome = "running"
      /\ IsSeq(text) /\ IsSeq(lines) /\ pars \in Nat /\ Len(lines) = turn - 1
  BY DEF PrinterInv, TypeOK, WalkInv, Ending
<1>2. turn \in 1 .. Len(call.arguments) /\ turn \in Nat
  BY <1>1, TheChain
<1>3. /\ lines' = Append(lines, line) /\ turn' = turn + 1 /\ pc' = "next"
      /\ UNCHANGED <<call, args, outcome>>
  BY DEF Emit
<1>4. Plain(turn) => Explanation(line) = Worthy(turn)
  <2> SUFFICES ASSUME Plain(turn) PROVE Explanation(line) = Worthy(turn)
    OBVIOUS
  <2>1. PICK y : /\ explained = <<Open, y, Close>> /\ NotPar(y)
                 /\ y = Worthy(turn)
    OBVIOUS
  <2> QED
    BY <1>1, <2>1, ExplanationOfLine
<1> HIDE DEF line, closing
<1>6. /\ DOMAIN lines' = 1 .. turn /\ DOMAIN lines = 1 .. turn - 1
      /\ lines'[turn] = line
      /\ \A k \in 1 .. turn - 1 : lines'[k] = lines[k]
  <2>1. PICK S : lines \in Seq(S)
    BY <1>1 DEF IsSeq
  <2>2. lines \in Seq(S \cup {line}) /\ Append(lines, line) \in Seq(S \cup {line})
    BY <2>1
  <2> QED
    BY <1>1, <1>2, <1>3, <2>1, <2>2
<1>7. StringsInv'
  <2>1. Started = turn /\ Started' = turn
    BY <1>1, <1>2, <1>3 DEF Started
  <2> QED
    BY <1>3, <2>1 DEF ExplainInv, StringsInv
<1>8. PlaceInv'
  BY <1>3 DEF PlaceInv, OnTheWay
<1>9. FlagInv'
  <2>1. /\ strFlag' => isFlag'
        /\ isFlag' => \E k \in 1 .. turn : Raises(k)
    BY FlagsStay DEF ExplainInv, FlagInv
  <2>2. /\ turn' - 1 = turn /\ \A k : Raises(k)' <=> Raises(k)
    BY <1>2, <1>3, SameMeaning
  <2> QED
    BY <2>1, <2>2 DEF FlagInv
<1>10. NumbersRight'
  <2>1. ASSUME NEW k \in 1 .. turn, Plain(k)
        PROVE  Explanation(lines'[k]) = Worthy(k)
    <3>1. CASE k = turn
      BY <1>4, <1>6, <2>1, <3>1
    <3>2. CASE k # turn
      <4>1. k \in 1 .. turn - 1
        BY <1>2, <3>2
      <4> QED
        BY <1>6, <2>1, <4>1, NumbersRightPlain DEF ExplainInv
    <3> QED
      BY <3>1, <3>2
  <2>2. \A k : Plain(k)' <=> Plain(k)
    BY <1>3, SameMeaning
  <2>3. \A k : Worthy(k)' = Worthy(k)
    BY <1>3 DEF Worthy, Meant
  <2>4. \A k \in DOMAIN lines' : Plain(k)' => Explanation(lines'[k]) = Worthy(k)'
    BY <1>6, <2>1, <2>2, <2>3
  <2> QED
    BY <2>4 DEF NumbersRight, Plain, Worthy, Explanation, Open
<1>11. TroubleExplained'
  BY <1>1, <1>3 DEF TroubleExplained
<1> QED
  BY <1>7, <1>8, <1>9, <1>10, <1>11 DEF ExplainInv

\* Each way to explain a value.
LEMMA PrintExplains ==
  PrinterInv /\ ExplainInv
    /\ (PrintFlag \/ PrintNumber \/ PrintDouble \/ PrintStruct \/ PrintText
        \/ PrintBare)
    => ExplainInv'
<1> SUFFICES ASSUME PrinterInv, ExplainInv,
                    PrintFlag \/ PrintNumber \/ PrintDouble \/ PrintStruct
                      \/ PrintText \/ PrintBare
             PROVE  ExplainInv'
  OBVIOUS
<1>1. Ending /\ NotPar(prev)
  BY DEF PrintFlag, PrintNumber, PrintDouble, PrintStruct, PrintText, PrintBare,
         PrinterInv, WalkInv
<1>2. Plain(turn) =>
        /\ ~isFlag /\ prev = Number(Raw)
        /\ Here.kind \in {"Integer", "Floating"}
        /\ Here.kind = "Integer" => Number(Signed(Raw, 8)) = Worthy(turn)
        /\ Here.kind = "Floating" => Double(Raw) = Worthy(turn)
  <2> SUFFICES ASSUME Plain(turn)
               PROVE  /\ ~isFlag /\ prev = Number(Raw)
                      /\ Here.kind \in {"Integer", "Floating"}
                      /\ Here.kind = "Integer" => Number(Signed(Raw, 8)) = Worthy(turn)
                      /\ Here.kind = "Floating" => Double(Raw) = Worthy(turn)
    OBVIOUS
  <2>1. /\ ~isFlag /\ Raw = Last(Meant(Argument)) /\ prev = Number(Raw)
        /\ Here = Last(Chain) /\ Here.kind \in {"Integer", "Floating"}
    BY <1>1, PlainMeans
  <2>2. Raw \in Wide
    BY <1>1, RawIsNumber DEF Ending, OnTheWay
  <2>3. ~Unlike(Here, Raw) /\ Worthy(turn) = ValueOf(Here, Raw)
    BY <2>1 DEF Plain, Worthy, Argument, Chain
  <2>4. Here.kind = "Integer" => Here.size \in {1, 2, 4, 8}
    <3>1. /\ HasShape(Chain) /\ IsSequence(Chain) /\ node \in 1 .. Len(Chain)
      BY <1>1, TheChain DEF PrinterInv, WalkInv, Ending
    <3> QED
      BY <3>1 DEF HasShape, IsSequence, Here
  <2> QED
    BY <2>1, <2>2, <2>3, <2>4, LikeItsValue
<1>3. CASE PrintFlag
  <2> DEFINE y == IF strFlag THEN prev ELSE Name("NULL")
  <2>1. NotPar(y)
    BY <1>1, OtherTokens
  <2>2. Emit(<<Open, y, Close>>) /\ isFlag /\ isFlag' = FALSE /\ strFlag' = FALSE
    BY <1>3 DEF PrintFlag
  <2> HIDE DEF y
  <2>3. IsSeq(<<Open, y, Close>>)
    BY <2>1, CountBracket
  <2> QED
    BY <1>1, <1>2, <2>2, <2>3, EmitExplains
<1>4. CASE PrintNumber
  <2> DEFINE y == Number(Signed(prev[2], 8))
  <2>1. /\ Emit(<<Open, y, Close>>) /\ UNCHANGED <<isFlag, strFlag>>
        /\ ~isFlag /\ Here.kind = "Integer" /\ NotPar(y)
    BY <1>4, OtherTokens DEF PrintNumber
  <2>2. Plain(turn) => y = Worthy(turn)
    BY <1>2, <2>1 DEF Number
  <2> HIDE DEF y
  <2>3. IsSeq(<<Open, y, Close>>)
    BY <2>1, CountBracket
  <2> QED
    BY <1>1, <2>1, <2>2, <2>3, EmitExplains
<1>8. CASE PrintDouble
  <2> DEFINE y == Double(prev[2])
  <2>1. /\ Emit(<<Open, y, Close>>) /\ UNCHANGED <<isFlag, strFlag>>
        /\ Here.kind = "Floating" /\ NotPar(y)
    BY <1>8, OtherTokens DEF PrintDouble
  <2>2. Plain(turn) => y = Worthy(turn)
    BY <1>2, <2>1 DEF Number
  <2> HIDE DEF y
  <2>3. IsSeq(<<Open, y, Close>>) /\ Here.kind # "Integer"
    BY <2>1, CountBracket
  <2> QED
    BY <1>1, <2>1, <2>2, <2>3, EmitExplains
<1>5. CASE PrintBare
  <2>1. /\ Emit(<< >>) /\ UNCHANGED <<isFlag, strFlag>> /\ Here.kind # "Integer"
        /\ Here.kind # "Floating"
    BY <1>5 DEF PrintBare
  <2>2. IsSeq(<< >>) /\ ~Plain(turn)
    BY <1>1, <1>2, <2>1, CountBracket
  <2> QED
    BY <1>1, <2>1, <2>2, EmitExplains
<1>6. CASE PrintText
  <2> DEFINE y == <<"text", prev[2]>>
  <2>1. /\ Emit(<<Open, y, Close>>) /\ UNCHANGED <<isFlag, strFlag>>
        /\ Here.kind = "TCharacter"
    BY <1>6 DEF PrintText
  <2>2. NotPar(y)
    BY OtherTokens
  <2> HIDE DEF y
  <2>3. IsSeq(<<Open, y, Close>>)
    BY <2>2, CountBracket
  <2>4. ~Plain(turn) /\ Here.kind # "Integer"
    BY <1>2, <2>1
  <2> QED
    BY <1>1, <2>1, <2>3, <2>4, EmitExplains
<1>7. CASE PrintStruct
  <2> DEFINE values == [k \in 1 .. Here.fields |->
                Number(Signed(Dword(call.memory, prev[2] + 8 * (k - 1)), 4))]
             shown == <<Open>> \o values \o <<Close>>
  <2>1. /\ Emit(shown) /\ UNCHANGED <<isFlag, strFlag>> /\ Here.kind = "Struct"
    BY <1>7 DEF PrintStruct
  <2>2. Here.fields \in Nat
    <3>1. node \in 1 .. Len(Chain) /\ Chain \in Seq(Node)
      BY <1>1, TheArgument DEF PrinterInv, WalkInv, Ending
    <3>2. Here \in Node
      BY <3>1 DEF Here
    <3> QED
      BY <3>2 DEF Node
  <2>3. IsSeq(values)
    <3>1. ASSUME NEW f, NEW n \in Nat, f = [k \in 1 .. n |-> f[k]]
          PROVE  f \in Seq({f[k] : k \in 1 .. n})
      BY <3>1
    <3>2. values = [k \in 1 .. Here.fields |-> values[k]]
      OBVIOUS
    <3> HIDE DEF values
    <3> QED
      BY <2>2, <3>1, <3>2 DEF IsSeq
  <2> HIDE DEF values
  <2>4. IsSeq(<<Open>>) /\ IsSeq(<<Close>>)
    BY CountOne
  <2>5. IsSeq(<<Open>> \o values)
    BY <2>3, <2>4, CountConcat
  <2>6. IsSeq(shown)
    BY <2>4, <2>5, CountConcat
  <2> HIDE DEF shown
  <2>7. ~Plain(turn) /\ Here.kind # "Integer"
    BY <1>2, <2>1
  <2> QED
    BY <1>1, <2>1, <2>6, <2>7, EmitExplains
<1> QED
  BY <1>3, <1>4, <1>5, <1>6, <1>7, <1>8

-----------------------------------------------------------------------------
(* Why the printer comes to grief                                          *)

\* The cases of TroubleExplained.
Explained ==
  \/ Argument.order >= Len(args)
  \/ ~Roomy /\ \E k \in DOMAIN Chain : Chain[k].kind = "Pointer"
  \/ Argument.unset
  \/ Excused
  \/ Narrow(Argument)
  \/ HasValues(Argument) /\ EndsIn(Argument, {"Struct", "TCharacter", "Floating"})
  \/ EndsIn(Argument, {"Struct"}) /\ Packed(Argument)
  \/ EndsIn(Argument, {"Struct", "TCharacter"})
     /\ \/ Last(Meant(Argument)) = 0
        \/ \A k \in DOMAIN Chain : Chain[k].kind # "Pointer"

LEMMA TroubleAsExplained == TroubleExplained <=> (outcome = "undefined" => Explained)
BY DEF TroubleExplained, Explained, Excused

\* There is no string for the argument.
LEMMA BeyondExplained == PrinterInv /\ BeginBeyond => Explained
<1> SUFFICES ASSUME PrinterInv, BeginBeyond PROVE Argument.order >= Len(args)
  BY DEF Explained
<1>1. turn <= Len(call.arguments) /\ Argument.order + 1 \notin DOMAIN args
  BY DEF BeginBeyond
<1>2. Argument.order \in Nat /\ call.args \in Seq(Wide)
  BY <1>1, TheArgument
<1>3. args \in [1 .. Len(call.args) -> Wide] /\ Len(call.args) \in Nat
  <2>1. DOMAIN call.args = 1 .. Len(call.args) /\ Len(call.args) \in Nat
    BY <1>2
  <2> QED
    BY <2>1 DEF PrinterInv, TypeOK
<1>4. Len(args) = Len(call.args) /\ DOMAIN args = 1 .. Len(call.args)
  BY <1>3
<1> QED
  BY <1>1, <1>2, <1>3, <1>4

\* The printer follows a pointer that leads nowhere, or has no room for what it
\* reads there.
LEMMA WildExplained == PrinterInv /\ ExplainInv /\ FollowWild => Explained
<1> SUFFICES ASSUME PrinterInv, ExplainInv, FollowWild, ~Explained PROVE FALSE
  OBVIOUS
<1> DEFINE type == Chain[Below(Chain, node + 1)]
<1>1. /\ Following /\ Raw # 0 /\ ~(Readable /\ Roomy) /\ pc = "walk"
      /\ Here.kind = "Pointer"
  BY DEF FollowWild, Following, Walking
<1>2. /\ turn <= Len(call.arguments) /\ node \in 1 .. Len(Chain)
      /\ node < Len(Chain)
  BY <1>1 DEF PrinterInv, WalkInv
<1>3. IsSequence(Chain) /\ node \in 1 .. Len(Chain) - 1
  BY <1>2, TheChain DEF IsSequence
<1>4. ~Excused /\ ~Narrow(Argument)
  BY DEF Explained
<1>5. ~Readable
  <2>1. Roomy
    BY <1>1, <1>2, <1>3 DEF Explained, Here, IsSequence
  <2> QED
    BY <1>1, <2>1
<1>6. Raw = Meant(Argument)[node] /\ Raw \in Nat
  BY <1>1, <1>4, RawIsNumber DEF ExplainInv, PlaceInv, OnTheWay, Blurred
<1>7. type.kind \notin {"Struct", "TCharacter", "Void"} /\ type.size \in Nat
  BY <1>1, <1>2, <1>3, <1>4, FollowingReads, TargetSize DEF Excused
<1>8. Reaches(call.memory, type, Raw)
  BY <1>1, <1>3, <1>4, <1>6, GoodReach DEF Excused, Here
<1>9. ~(type.size < 4)
  BY <1>1, <1>3, <1>4, <1>7 DEF Narrow, Here, Chain
<1> HIDE DEF type
<1>10. Cells(Raw, type.size) \subseteq DOMAIN call.memory
  BY <1>7, <1>8 DEF Reaches
<1>11. Cells(Raw, 4) \subseteq Cells(Raw, type.size)
  BY <1>6, <1>7, <1>9 DEF Cells
<1> QED
  BY <1>5, <1>10, <1>11 DEF Readable

\* Of a type that ends in a structure or text, the last pointer is the one that
\* leads there.
LEMMA LastPointer ==
  ASSUME NEW a, IsSequence(a.chain), HasShape(a.chain), ~Hidden(a),
         Last(a.chain).kind \in {"Struct", "TCharacter"},
         NEW j \in DOMAIN a.chain, a.chain[j].kind = "Pointer"
  PROVE  /\ Len(a.chain) - 1 \in 1 .. Len(a.chain) - 1
         /\ a.chain[Len(a.chain) - 1].kind = "Pointer"
<1> DEFINE c == a.chain
           P == {k \in DOMAIN c : c[k].kind = "Pointer"}
<1>1. /\ Len(c) \in Nat /\ DOMAIN c = 1 .. Len(c)
      /\ c[Len(c)].kind \in {"Struct", "TCharacter"}
  BY DEF IsSequence, Last
<1>2. P \in SUBSET (1 .. Len(c)) /\ P # {}
  BY <1>1
<1>3. PICK k \in P : \A m \in P : k >= m
  <2>1. Max(P) \in P /\ \A m \in P : Max(P) >= m
    BY <1>1, <1>2, F!MaxOfInterval DEF Max, F!Max
  <2> QED
    BY <2>1
<1>4. /\ k \in 1 .. Len(c) - 1 /\ k + 1 \in 1 .. Len(c) /\ c[k].kind = "Pointer"
      /\ \A m \in k + 1 .. Len(c) : c[m].kind # "Pointer"
  <2>1. k \in 1 .. Len(c) /\ k # Len(c) /\ c[k].kind = "Pointer"
    BY <1>1
  <2>2. ASSUME NEW m \in k + 1 .. Len(c) PROVE c[m].kind # "Pointer"
    <3>1. m \in DOMAIN c /\ ~ (k >= m)
      BY <1>1, <2>1
    <3> QED
      BY <1>3, <3>1
  <2> QED
    BY <1>1, <2>1, <2>2
<1>5. Below(c, k + 1) = Len(c)
  <2>1. Below(c, k + 1) \in k + 1 .. Len(c)
    BY <1>4, BelowFacts
  <2>2. c[Below(c, k + 1)].kind # "Pointer"
    BY <1>4, <2>1
  <2> QED
    BY <1>4, <2>2, BelowIsLast
<1>6. k + 1 = Len(c)
  <2> SUFFICES ASSUME k + 1 # Len(c) PROVE FALSE
    OBVIOUS
  <2>1. k + 1 \in k + 1 .. Below(c, k + 1) - 1
    BY <1>1, <1>4, <1>5
  <2>2. c[k + 1].kind \in {"Alias", "Array"}
    BY <1>4, <2>1, BelowFacts
  <2>3. c[k].base \in NamesOfVoid
    BY <1>1, <1>4, <1>5, <2>2 DEF Hidden
  <2>4. Last(c).kind \in NoKinds
    BY <1>4, <2>3, VoidEnd
  <2>5. Last(c).kind \notin {"Struct", "TCharacter"}
    BY <2>4 DEF NoKinds
  <2> QED
    BY <2>5
<1> QED
  BY <1>1, <1>4, <1>6

\* Where a name stands for an address, or what is there is not a structure or
\* text.
LEMMA PrintWildExplained == PrinterInv /\ ExplainInv /\ PrintWild => Explained
<1> SUFFICES ASSUME PrinterInv, ExplainInv, PrintWild, ~Explained PROVE FALSE
  OBVIOUS
<1>1. /\ Ending /\ pc = "end" /\ turn <= Len(call.arguments)
      /\ node \in 1 .. Len(Chain)
      /\ Here.kind \in {"Struct", "TCharacter", "Integer", "Floating"}
  BY DEF PrintWild, Ending, PrinterInv, WalkInv
<1>2. /\ IsSequence(Chain) /\ HasShape(Chain) /\ Len(Chain) \in Nat
      /\ Len(Chain) >= 1
  BY <1>1, TheChain DEF IsSequence
<1>3. /\ ~Excused /\ ~Narrow(Argument)
      /\ EndsIn(Argument, {"Struct"}) => ~Packed(Argument)
      /\ HasValues(Argument)
           => ~EndsIn(Argument, {"Struct", "TCharacter", "Floating"})
      /\ EndsIn(Argument, {"Struct", "TCharacter"})
           => /\ Last(Meant(Argument)) # 0
              /\ \E k \in DOMAIN Chain : Chain[k].kind = "Pointer"
  BY DEF Explained
<1>4. node = Len(Chain) /\ Last(Chain) = Here
  BY <1>1 DEF ExplainInv, PlaceInv, OnTheWay, Stopped, Here, Last
<1>5. prev = Number(Raw) \/ (isFlag /\ HasValues(Argument))
  <2>1. Last(Chain).kind \notin NoKinds
    BY <1>1, <1>4 DEF NoKinds
  <2> QED
    BY <1>1, <1>4, <2>1 DEF ExplainInv, PlaceInv, OnTheWay, Stopped
<1>6. Raw = Last(Meant(Argument)) /\ Raw \in Nat
  BY <1>1, <1>3, <1>4, EndMeans, RawIsNumber DEF OnTheWay
<1>7. \A ks : EndsIn(Argument, ks) <=> Here.kind \in ks
  BY <1>4 DEF EndsIn, Chain
<1>8. CASE Here.kind \in {"Integer", "Floating"}
  <2>1. prev # Number(Raw)
    BY <1>8 DEF PrintWild, IsNumber, Number
  <2>2. isFlag /\ HasValues(Argument)
    BY <1>5, <2>1
  <2>3. Here.kind = "Integer"
    BY <1>3, <1>7, <1>8, <2>2
  <2> QED
    BY <2>2, <2>3 DEF PrintWild
<1>9. CASE Here.kind \in {"Struct", "TCharacter"}
  <2> DEFINE n == Len(Chain) - 1
  <2>1. prev = Number(Raw) /\ IsNumber /\ prev[2] = Raw
    BY <1>3, <1>5, <1>7, <1>9 DEF IsNumber, Number
  <2>2. Raw # 0 /\ \E k \in DOMAIN Chain : Chain[k].kind = "Pointer"
    BY <1>3, <1>6, <1>7, <1>9
  <2>3. n \in 1 .. Len(Chain) - 1 /\ Chain[n].kind = "Pointer"
    BY <1>2, <1>3, <1>4, <1>9, <2>2, LastPointer DEF Excused, Chain
  <2>4. n + 1 = Len(Chain) /\ Below(Chain, n + 1) = n + 1 /\ Chain[n + 1] = Here
    <3>1. n + 1 = Len(Chain)
      BY <1>2
    <3>2. Chain[n + 1] = Here
      BY <1>4, <3>1 DEF Here
    <3>3. n + 1 \in 1 .. Len(Chain) /\ Chain[n + 1].kind \notin {"Alias", "Array"}
      BY <1>2, <1>9, <3>1, <3>2
    <3> QED
      BY <1>2, <3>1, <3>2, <3>3, BelowFacts
  <2> HIDE DEF n
  <2>5. Meant(Argument)[n] = Raw
    <3>1. ~Reads(call.memory, Chain, n, Meant(Argument)[n])
      BY <1>9, <2>4 DEF Reads
    <3>2. Meant(Argument)[n + 1] = Meant(Argument)[n]
      BY <1>1, <2>3, <3>1, MeantSteps
    <3>3. Last(Meant(Argument)) = Meant(Argument)[Len(Chain)]
      BY <1>2, MeantEnd DEF Meant, Chain
    <3> QED
      BY <1>6, <2>4, <3>2, <3>3
  <2>6. Reaches(call.memory, Here, Raw)
    BY <1>3, <2>2, <2>3, <2>4, <2>5, GoodReach DEF Excused
  <2>8. CASE Here.kind = "Struct"
    <3>1. ~(Here.size < 8 * Here.fields)
      BY <1>3, <1>4, <1>7, <2>8 DEF Packed, Chain
    <3>2. Here \in Node
      BY <1>1, TheArgument DEF Here
    <3>3. Here.size \in Nat /\ Here.fields \in Nat
      BY <3>2 DEF Node
    <3>4. Cells(Raw, Here.size) \subseteq DOMAIN call.memory
      BY <2>6, <2>8 DEF Reaches
    <3>5. Cells(Raw, 8 * Here.fields) \subseteq Cells(Raw, Here.size)
      BY <1>6, <3>1, <3>3 DEF Cells
    <3>6. FieldsThere
      BY <2>1, <3>4, <3>5 DEF FieldsThere
    <3> QED
      BY <2>8, <3>6 DEF PrintWild
  <2>9. CASE Here.kind = "TCharacter"
    BY <2>1, <2>6, <2>9 DEF PrintWild, Reaches, TextThere
  <2> QED
    BY <1>9, <2>8, <2>9
<1> QED
  BY <1>1, <1>8, <1>9

\* The pointer that the loop looks at was never set.
LEMMA UnsetExplained == FollowUnset => Explained
BY DEF FollowUnset, Explained

\* The end of the function keeps what was known.
LEMMA EndExplains ==
  PrinterInv /\ ExplainInv
    /\ (BeginBeyond \/ FollowWild \/ FollowUnset \/ PrintWild \/ Return
        \/ UNCHANGED vars)
    => ExplainInv'
<1> SUFFICES ASSUME PrinterInv, ExplainInv,
               BeginBeyond \/ FollowWild \/ FollowUnset \/ PrintWild \/ Return
                 \/ UNCHANGED vars
             PROVE  ExplainInv'
  OBVIOUS
<1>1. UNCHANGED <<call, args, turn, pc, node, prev, text, pars, isFlag, strFlag,
                  lines>>
  BY DEF BeginBeyond, FollowWild, FollowUnset, PrintWild, Return, vars
<1>2. /\ Argument' = Argument /\ Chain' = Chain /\ (Excused' <=> Excused)
      /\ Meant(Argument)' = Meant(Argument)
      /\ \A k : (Raises(k)' <=> Raises(k)) /\ (Blurred(k)' <=> Blurred(k))
  BY <1>1, SameMeaning
<1>3. Raw' = Raw /\ (Stopped' <=> Stopped) /\ (OnTheWay' <=> OnTheWay)
      /\ Started' = Started
  BY <1>1, <1>2 DEF Raw, Stopped, Here, OnTheWay, Started
<1>4. StringsInv'
  BY <1>1, <1>3 DEF ExplainInv, StringsInv
<1>5. PlaceInv'
  <2>1. PlaceInv
    BY DEF ExplainInv
  <2>2. Blurred(node)' <=> Blurred(node)
    BY <1>1, <1>2 DEF Blurred, Narrow
  <2> QED
    BY <1>1, <1>2, <1>3, <2>1, <2>2 DEF PlaceInv
<1>6. FlagInv'
  BY <1>1, <1>2, <1>3 DEF ExplainInv, FlagInv
<1>7. NumbersRight'
  BY <1>1, SameNumbers DEF ExplainInv
<1>8. TroubleExplained'
  <2>1. outcome' = "undefined" => Explained
    <3>1. CASE BeginBeyond \/ FollowWild \/ FollowUnset \/ PrintWild
      BY <3>1, BeyondExplained, WildExplained, UnsetExplained, PrintWildExplained
    <3>2. CASE Return
      BY <3>2 DEF Return
    <3>3. CASE UNCHANGED vars
      BY <3>3, TroubleAsExplained DEF vars, ExplainInv
    <3> QED
      BY <3>1, <3>2, <3>3
  <2>2. Explained' <=> Explained
    BY <1>1, <1>2 DEF Explained, Roomy, Narrow
  <2>3. TroubleExplained' <=> (outcome' = "undefined" => Explained')
    BY <1>1, <1>2 DEF TroubleExplained, Explained, Excused, HasRival, GoodPointers, Roomy,
                      Argument, Chain
  <2> QED
    BY <2>1, <2>2, <2>3
<1> QED
  BY <1>4, <1>5, <1>6, <1>7, <1>8 DEF ExplainInv

\* Nothing needs an explanation at first.
LEMMA InitExplainInv == Init => ExplainInv
<1> SUFFICES ASSUME Init PROVE ExplainInv
  OBVIOUS
<1>1. /\ args = call.args /\ turn = 1 /\ pc = "next" /\ isFlag = FALSE
      /\ strFlag = FALSE /\ lines = << >> /\ outcome = "running"
  BY DEF Init
<1>2. StringsInv /\ PlaceInv /\ FlagInv
  BY <1>1 DEF StringsInv, PlaceInv, FlagInv, OnTheWay
<1>3. NumbersRight
  <2>1. DOMAIN << >> = {}
    OBVIOUS
  <2> QED
    BY <1>1, <2>1 DEF NumbersRight
<1>4. TroubleExplained
  BY <1>1 DEF TroubleExplained
<1> QED
  BY <1>2, <1>3, <1>4 DEF ExplainInv

\* Every step keeps it.
LEMMA NextExplainInv == PrinterInv /\ ExplainInv /\ [Next]_vars => ExplainInv'
BY BeginExplains, PassExplains, FollowExplains, StopExplains, PrintExplains,
   EndExplains DEF Next

\* What the printer holds can be explained throughout.
LEMMA ExplainInvariance == Spec => []ExplainInv
<1>1. Init => PrinterInv /\ ExplainInv
  BY InitPrinterInv, InitExplainInv
<1>2. PrinterInv /\ ExplainInv /\ [Next]_vars => (PrinterInv /\ ExplainInv)'
  BY NextPrinterInv, NextExplainInv
<1> QED
  BY <1>1, <1>2, PTL DEF Spec

-----------------------------------------------------------------------------
\* The walk keeps to the types it is given, std::string(countPars, ')') never
\* gets a negative number, and what is printed over a string of the caller is a
\* number that fits into it.
THEOREM TypeCorrectness == Spec => []TypeOK
<1>1. PrinterInv => TypeOK
  BY DEF PrinterInv
<1> QED
  BY <1>1, PrinterInvariance, PTL

\* Whatever the types of the arguments, their number and the memory behind
\* them: no line leaves a parenthesis open, and it closes at most one too many
\* for each pointer to a structure or to text in the type of its argument.
THEOREM ParenthesesHold == Spec => []Parentheses
<1>1. PrinterInv => Parentheses
  BY DEF PrinterInv
<1> QED
  BY <1>1, PrinterInvariance, PTL

\* Whatever the types, the arguments, the strings and the bytes of the memory, with
\* a base that was never set among them: when the printer touches what is not there
\* or writes beyond a string, it is for one of the reasons that are named.
THEOREM TroubleExplainedHolds == Spec => []TroubleExplained
<1>1. ExplainInv => TroubleExplained
  BY DEF ExplainInv
<1> QED
  BY <1>1, ExplainInvariance, PTL

\* What is printed for an integer or a double is its value if no value of a type and
\* no earlier argument in its place comes between, its pointers are good and not
\* null, an int is what there is to be read, and the bits mean the same in a long
\* long or a double.
THEOREM NumbersRightHolds == Spec => []NumbersRight
<1>1. ExplainInv => NumbersRight
  BY DEF ExplainInv
<1> QED
  BY <1>1, ExplainInvariance, PTL

\* The flags that a later integer would take for its own come from an argument
\* with values whose walk did not come to an integer.
THEOREM FlagsExplainedHolds == Spec => []FlagsExplained
<1>1. ExplainInv => FlagsExplained
  BY DEF ExplainInv, FlagInv, FlagsExplained, OnTheWay, Raises
<1> QED
  BY <1>1, ExplainInvariance, PTL
=============================================================================
