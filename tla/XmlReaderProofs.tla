--------------------------- MODULE XmlReaderProofs ---------------------------
(***************************************************************************)
(* Proofs about xml_reader.py, for every folder: what parse_all_file       *)
(* returns has the shape the filler takes for granted, and is, file by     *)
(* file and element by element, what the files declare.                    *)
(***************************************************************************)
EXTENDS XmlReader, TLAPS

F == INSTANCE Folding WITH Op <- LAMBDA p, x, y : x

Elements == Variables \cup Apis \cup Categories \cup Conditions \cup Others

-----------------------------------------------------------------------------
(* The elements and what is made of them                                   *)

\* A set of positions that is not empty has a first and a last one.
LEMMA FirstPosition ==
  ASSUME NEW n \in Nat, NEW S \in SUBSET (1 .. n), S # {}
  PROVE  Min(S) \in S /\ \A k \in S : Min(S) <= k
<1>1. S \subseteq Nat
  OBVIOUS
<1>2. \E x \in S : \A y \in S : x <= y
  BY <1>1, F!Least
<1> QED
  BY <1>2 DEF Min

LEMMA LastPosition ==
  ASSUME NEW n \in Nat, NEW S \in SUBSET (1 .. n), S # {}
  PROVE  Max(S) \in S /\ \A k \in S : Max(S) >= k
BY F!MaxOfInterval DEF F!Max, Max

\* find gives an element of the root with the tag, or None.
LEMMA FindFacts ==
  ASSUME NEW root \in Seq(Wrappers), NEW tag
  PROVE  Find(root, tag) = NONE \/ (Find(root, tag) \in Wrappers /\
           \E k \in DOMAIN root : Find(root, tag) = root[k])
<1> DEFINE ks == {k \in DOMAIN root : root[k].tag = tag}
<1>1. CASE ks = {}
  BY <1>1 DEF Find
<1>2. CASE ks # {}
  <2>1. ks \in SUBSET (1 .. Len(root)) /\ Len(root) \in Nat
    OBVIOUS
  <2>2. Min(ks) \in ks
    BY <1>2, <2>1, FirstPosition
  <2>3. Find(root, tag) = root[Min(ks)]
    BY <1>2 DEF Find
  <2>4. Min(ks) \in DOMAIN root
    BY <2>2
  <2> HIDE DEF ks
  <2>5. root[Min(ks)] \in Wrappers
    BY <2>4
  <2> QED
    BY <2>3, <2>4, <2>5
<1> QED
  BY <1>1, <1>2

LEMMA ChosenFacts ==
  ASSUME NEW root \in Seq(Wrappers)
  PROVE  Chosen(root) = NONE \/ (Chosen(root) \in Wrappers /\
           \E k \in DOMAIN root : Chosen(root) = root[k])
BY FindFacts DEF Chosen

\* A wrapper has a name, a category and elements of the five kinds; Headers have
\* no functions and no categories among them.
LEMMA WrapperShape ==
  ASSUME NEW w \in Wrappers
  PROVE  /\ w.tag \in {"Module", "Interface", "Headers"}
         /\ w.name \in Texts /\ w.category \in Texts
         /\ w.elems \in Seq(Elements)
         /\ w.tag = "Headers" =>
              \A k \in DOMAIN w.elems : w.elems[k] \in Variables \cup Conditions
<1>1. CASE w \in [tag : {"Module", "Interface"}, name : Texts, category : Texts,
                  elems : Seq(Variables \cup Apis \cup Categories \cup Conditions \cup Others)]
  BY <1>1 DEF Elements
<1>2. CASE w \in [tag : {"Headers"}, name : Texts, category : Texts,
                  elems : Seq(Variables \cup Conditions)]
  <2>1. Seq(Variables \cup Conditions) \subseteq Seq(Elements)
    BY DEF Elements
  <2> QED
    BY <1>2, <2>1
<1> QED
  BY <1>1, <1>2 DEF Wrappers

\* The tag of an element tells what it is.
LEMMA ElementShape ==
  ASSUME NEW x \in Elements
  PROVE  /\ x.tag = "Variable" => x \in Variables
         /\ x.tag = "Api" => x \in Apis
         /\ x.tag = "Category" => x.name \in Texts
         /\ x.tag = "Condition" => x.inner \in Seq(Variables)
         /\ x \in Variables => x.tag = "Variable"
         /\ x \in Conditions => x.tag = "Condition"
BY DEF Elements, Variables, Apis, Categories, Conditions, Others

\* What parse_variable returns is an entry of the list of types.
LEMMA ParseVariableType ==
  ASSUME NEW v \in Variables
  PROVE  ParseVariable(v) \in TypeEntry
<1>1. /\ v.name \in Names /\ v.kind \in Texts /\ v.base \in Names \cup {NONE}
      /\ v.enums \in Seq(Seq(Texts)) /\ v.flags \in Seq(Seq(Texts))
      /\ v.fields \in Seq(Params)
  BY DEF Variables
<1> DEFINE lists == v.enums \o v.flags
<1>2. lists \in Seq(Seq(Texts))
  BY <1>1
<1> HIDE DEF lists
<1>3. lists # << >> => Head(lists) \in Seq(Texts)
  BY <1>2
<1>4. << >> \in Seq(Params) /\ << >> \in Seq(Texts)
  OBVIOUS
<1> DEFINE fields == IF lists = << >> THEN v.fields ELSE << >>
           defs == IF lists = << >> THEN << >> ELSE Head(lists)
<1>5. fields \in Seq(Params) /\ defs \in Seq(Texts)
  BY <1>1, <1>3, <1>4
<1> HIDE DEF fields, defs
<1>6. ParseVariable(v) = [name |-> v.name, kind |-> v.kind, base |-> v.base,
                          fields |-> fields, defs |-> defs]
  BY DEF ParseVariable, fields, defs, lists
<1> QED
  BY <1>1, <1>5, <1>6 DEF TypeEntry

\* What a sequence and another behind it are.
LEMMA Joined ==
  ASSUME NEW S, NEW a \in Seq(S), NEW b \in Seq(S), NEW c \in Seq(S),
         Len(c) = Len(a) + Len(b),
         \A k \in 1 .. Len(a) : c[k] = a[k],
         \A k \in 1 .. Len(b) : c[Len(a) + k] = b[k]
  PROVE  c = a \o b
<1>1. /\ a \o b \in Seq(S) /\ Len(a \o b) = Len(a) + Len(b)
      /\ \A k \in 1 .. Len(a) : (a \o b)[k] = a[k]
      /\ \A k \in Len(a) + 1 .. Len(a) + Len(b) : (a \o b)[k] = b[k - Len(a)]
  OBVIOUS
<1>2. ASSUME NEW k \in 1 .. Len(c) PROVE c[k] = (a \o b)[k]
  <2>1. CASE k \in 1 .. Len(a)
    BY <1>1, <2>1
  <2>2. CASE k \notin 1 .. Len(a)
    <3>1. /\ k \in Len(a) + 1 .. Len(a) + Len(b) /\ k - Len(a) \in 1 .. Len(b)
          /\ Len(a) + (k - Len(a)) = k
      BY <2>2
    <3> QED
      BY <1>1, <3>1
  <2> QED
    BY <2>1, <2>2
<1> QED
  BY <1>1, <1>2

\* The variables of two sequences are parsed one after the other.
LEMMA ParseVariablesJoined ==
  ASSUME NEW s \in Seq(Variables), NEW u \in Seq(Variables)
  PROVE  /\ ParseVariables(s) \in Seq(TypeEntry)
         /\ ParseVariables(s \o u) = ParseVariables(s) \o ParseVariables(u)
<1>1. /\ s \o u \in Seq(Variables) /\ Len(s \o u) = Len(s) + Len(u)
      /\ \A k \in 1 .. Len(s) : (s \o u)[k] = s[k]
      /\ \A k \in 1 .. Len(u) : (s \o u)[Len(s) + k] = u[k]
  OBVIOUS
<1>2. ASSUME NEW z \in Seq(Variables)
      PROVE  /\ ParseVariables(z) \in Seq(TypeEntry) /\ Len(ParseVariables(z)) = Len(z)
             /\ \A k \in 1 .. Len(z) : ParseVariables(z)[k] = ParseVariable(z[k])
  BY ParseVariableType DEF ParseVariables
<1> DEFINE a == ParseVariables(s)
           b == ParseVariables(u)
           c == ParseVariables(s \o u)
<1>3. /\ a \in Seq(TypeEntry) /\ b \in Seq(TypeEntry) /\ c \in Seq(TypeEntry)
      /\ Len(a) = Len(s) /\ Len(b) = Len(u) /\ Len(c) = Len(s) + Len(u)
  BY <1>1, <1>2
<1>4. /\ \A k \in 1 .. Len(s) : a[k] = ParseVariable(s[k])
      /\ \A k \in 1 .. Len(u) : b[k] = ParseVariable(u[k])
      /\ \A k \in 1 .. Len(s) + Len(u) : c[k] = ParseVariable((s \o u)[k])
  BY <1>1, <1>2
<1>5. /\ \A k \in 1 .. Len(s) : k \in 1 .. Len(s) + Len(u)
      /\ \A k \in 1 .. Len(u) : Len(s) + k \in 1 .. Len(s) + Len(u)
  OBVIOUS
<1> HIDE DEF a, b, c
<1>6. /\ Len(c) = Len(a) + Len(b)
      /\ \A k \in 1 .. Len(a) : c[k] = a[k]
      /\ \A k \in 1 .. Len(b) : c[Len(a) + k] = b[k]
  BY <1>1, <1>3, <1>4, <1>5
<1>7. c = a \o b
  BY <1>3, <1>6, Joined
<1> QED
  BY <1>3, <1>7 DEF a, b, c

\* What the reader makes of an Api is an entry of the list of functions.
LEMMA ParseApiType ==
  ASSUME NEW w \in Wrappers, NEW a \in Apis, NEW c \in Texts,
         w.tag = "Interface" => w.name \o "." \o a.name \in Texts
  PROVE  ParseApi(w, a, c) \in FunctionEntry
<1>1. /\ a.name \in Texts /\ a.ret \in Names /\ a.params \in Seq(Params)
  BY DEF Apis
<1>2. w.name \in Texts /\ "none" \in Texts
  BY WrapperShape, FoldersAssumption
<1> DEFINE name == IF w.tag = "Interface" /\ w.name # "" THEN w.name \o "." \o a.name
                   ELSE a.name
           dll == IF w.tag = "Module" THEN w.name ELSE "none"
<1>3. name \in Texts /\ dll \in Texts
  BY <1>1, <1>2
<1>4. ParseApi(w, a, c) =
        [name |-> name, dll |-> dll, category |-> c, ret |-> a.ret, params |-> a.params]
  BY DEF ParseApi
<1> HIDE DEF name, dll
<1> QED
  BY <1>1, <1>3, <1>4 DEF FunctionEntry

-----------------------------------------------------------------------------
(* What a wrapper declares above a place in it                             *)

\* Its functions have names that are texts.
Named(w) ==
  \A k \in DOMAIN w.elems :
    w.tag = "Interface" /\ w.elems[k].tag = "Api" =>
      w.name \o "." \o w.elems[k].name \in Texts

\* The functions and the declarations at one place, and at the first n.
FunctionsAt(w, k) ==
  IF w.elems[k].tag = "Api" THEN <<ParseApi(w, w.elems[k], CategoryAbove(w, k))>>
  ELSE << >>

Open(w, k) == w.tag = "Headers" /\ k = Min(Positions(w, "Condition"))

DeclarationsAt(w, k) ==
  CASE w.elems[k].tag = "Variable" -> <<w.elems[k]>>
    [] w.elems[k].tag = "Condition" /\ Open(w, k) -> w.elems[k].inner
    [] OTHER -> << >>

FunctionsUpTo(w, n) == FlattenSeq([k \in 1 .. n |-> FunctionsAt(w, k)])

DeclarationsUpTo(w, n) == FlattenSeq([k \in 1 .. n |-> DeclarationsAt(w, k)])

\* An empty sequence, or one of a single element, behind another.
LEMMA JoinedFew ==
  ASSUME NEW S, NEW s \in Seq(S), NEW x \in S
  PROVE  s \o << >> = s /\ << >> \o s = s /\ s \o <<x>> = Append(s, x)
OBVIOUS

\* The beginnings of a sequence of sequences, joined.
LEMMA FlattenUpTo ==
  ASSUME NEW S, NEW n \in Nat, NEW f, \A k \in 1 .. n + 1 : f[k] \in Seq(S)
  PROVE  /\ FlattenSeq([k \in 1 .. n |-> f[k]]) \in Seq(S)
         /\ FlattenSeq([k \in 1 .. n + 1 |-> f[k]]) =
              FlattenSeq([k \in 1 .. n |-> f[k]]) \o f[n + 1]
<1>1. \A ss : F!FlattenSeq(ss) = FlattenSeq(ss)
  BY DEF F!FlattenSeq, FlattenSeq
<1> QED
  BY <1>1, F!FlattenUpTo

\* The category at a place: that of the wrapper at first, another one behind
\* each Category.
LEMMA CategoryFacts ==
  ASSUME NEW w \in Wrappers
  PROVE  /\ CategoryAbove(w, 1) = FirstCategory(w)
         /\ \A n \in DOMAIN w.elems :
              CategoryAbove(w, n + 1) =
                IF w.elems[n].tag = "Category" THEN w.elems[n].name
                ELSE CategoryAbove(w, n)
         /\ \A n \in 1 .. Len(w.elems) + 1 : CategoryAbove(w, n) \in Texts
<1> DEFINE all == Positions(w, "Category")
           above(n) == {m \in all : m < n}
           end == Len(w.elems)
<1>1. end \in Nat /\ DOMAIN w.elems = 1 .. end /\ w.elems \in Seq(Elements)
  BY WrapperShape
<1>2. all \subseteq 1 .. end /\ \A k \in 1 .. end : k \in all <=> w.elems[k].tag = "Category"
  BY <1>1 DEF Positions
<1>3. \A n : CategoryAbove(w, n) =
        IF above(n) = {} THEN FirstCategory(w) ELSE w.elems[Max(above(n))].name
  BY DEF CategoryAbove
<1> HIDE DEF all, end
<1>4. CategoryAbove(w, 1) = FirstCategory(w)
  <2>1. above(1) = {}
    <3>1. \A m \in 1 .. end : ~(m < 1)
      BY <1>1
    <3> QED
      BY <1>2, <3>1
  <2> QED
    BY <1>3, <2>1
<1>5. ASSUME NEW n \in 1 .. end
      PROVE  CategoryAbove(w, n + 1) =
               IF w.elems[n].tag = "Category" THEN w.elems[n].name
               ELSE CategoryAbove(w, n)
  <2>1. CASE w.elems[n].tag = "Category"
    <3>1. n \in above(n + 1) /\ \A m \in above(n + 1) : m <= n
      BY <1>1, <1>2, <2>1
    <3>2. above(n + 1) \in SUBSET (1 .. end) /\ above(n + 1) # {}
      BY <1>2, <3>1
    <3>3. Max(above(n + 1)) \in above(n + 1) /\ Max(above(n + 1)) >= n
      <4> HIDE DEF above
      <4> QED
        BY <1>1, <3>1, <3>2, LastPosition
    <3>4. Max(above(n + 1)) \in 1 .. end
      BY <3>2, <3>3
    <3>5. Max(above(n + 1)) = n
      <4> HIDE DEF above
      <4> QED
        BY <1>1, <3>1, <3>3, <3>4
    <3> QED
      BY <1>3, <2>1, <3>1, <3>5
  <2>2. CASE w.elems[n].tag # "Category"
    <3>1. above(n + 1) = above(n)
      <4>1. n \notin all
        BY <1>2, <2>2
      <4>2. \A m \in 1 .. end : m # n => (m < n + 1 <=> m < n)
        BY <1>1
      <4> QED
        BY <1>2, <4>1, <4>2
    <3> QED
      BY <1>3, <2>2, <3>1
  <2> QED
    BY <2>1, <2>2
<1>6. ASSUME NEW n \in 1 .. end + 1 PROVE CategoryAbove(w, n) \in Texts
  <2>1. CASE above(n) = {}
    <3>1. FirstCategory(w) \in Texts
      BY WrapperShape, FoldersAssumption DEF FirstCategory
    <3> QED
      BY <1>3, <2>1, <3>1
  <2>2. CASE above(n) # {}
    <3>1. above(n) \subseteq all
      OBVIOUS
    <3>0. above(n) \in SUBSET (1 .. end)
      BY <1>2, <3>1
    <3>2. Max(above(n)) \in above(n)
      <4> HIDE DEF above
      <4> QED
        BY <1>1, <2>2, <3>0, LastPosition
    <3>3. Max(above(n)) \in 1 .. end /\ Max(above(n)) \in all
      <4> HIDE DEF above
      <4> QED
        BY <3>0, <3>1, <3>2
    <3>4. w.elems[Max(above(n))].tag = "Category" /\ w.elems[Max(above(n))] \in Elements
      BY <1>1, <1>2, <3>3
    <3> QED
      BY <1>3, <2>2, <3>4, ElementShape
  <2> QED
    BY <2>1, <2>2
<1> QED
  BY <1>1, <1>4, <1>5, <1>6 DEF end

\* Sequences of sequences, joined.
LEMMA FlattenType ==
  ASSUME NEW S, NEW n \in Nat, NEW f, \A k \in 1 .. n : f[k] \in Seq(S)
  PROVE  FlattenSeq([k \in 1 .. n |-> f[k]]) \in Seq(S)
<1>1. \A ss : F!FlattenSeq(ss) = FlattenSeq(ss)
  BY DEF F!FlattenSeq, FlattenSeq
<1>2. [k \in 1 .. n |-> f[k]] \in Seq(Seq(S))
  OBVIOUS
<1> QED
  BY <1>1, <1>2, F!FlattenElements

LEMMA FlattenNone ==
  ASSUME NEW f
  PROVE  FlattenSeq([k \in 1 .. 0 |-> f[k]]) = << >>
<1>1. [k \in 1 .. 0 |-> f[k]] = << >>
  OBVIOUS
<1> QED
  BY <1>1 DEF FlattenSeq

\* What one element gives.
LEMMA FunctionsAtType ==
  ASSUME NEW w \in Wrappers, Named(w), NEW k \in 1 .. Len(w.elems)
  PROVE  FunctionsAt(w, k) \in Seq(FunctionEntry)
<1>1. DOMAIN w.elems = 1 .. Len(w.elems) /\ w.elems \in Seq(Elements)
  BY WrapperShape
<1>2. w.elems[k] \in Elements
  BY <1>1
<1>3. CASE w.elems[k].tag = "Api"
  <2>1. w.elems[k] \in Apis
    BY <1>2, <1>3, ElementShape
  <2>2. CategoryAbove(w, k) \in Texts
    BY CategoryFacts
  <2>3. ParseApi(w, w.elems[k], CategoryAbove(w, k)) \in FunctionEntry
    BY <1>1, <1>3, <2>1, <2>2, ParseApiType DEF Named
  <2> QED
    BY <1>3, <2>3 DEF FunctionsAt
<1>4. CASE w.elems[k].tag # "Api"
  BY <1>4 DEF FunctionsAt
<1> QED
  BY <1>3, <1>4

LEMMA DeclarationsAtType ==
  ASSUME NEW w \in Wrappers, NEW k \in 1 .. Len(w.elems)
  PROVE  DeclarationsAt(w, k) \in Seq(Variables)
<1>1. DOMAIN w.elems = 1 .. Len(w.elems) /\ w.elems \in Seq(Elements)
  BY WrapperShape
<1>2. w.elems[k] \in Elements
  BY <1>1
<1>3. CASE w.elems[k].tag = "Variable"
  <2>1. w.elems[k] \in Variables /\ DeclarationsAt(w, k) = <<w.elems[k]>>
    BY <1>2, <1>3, ElementShape DEF DeclarationsAt
  <2> QED
    BY <2>1
<1>4. CASE w.elems[k].tag = "Condition" /\ Open(w, k)
  BY <1>2, <1>4, ElementShape DEF DeclarationsAt
<1>5. CASE w.elems[k].tag # "Variable" /\ ~(w.elems[k].tag = "Condition" /\ Open(w, k))
  BY <1>5 DEF DeclarationsAt
<1> QED
  BY <1>3, <1>4, <1>5

\* What the first n of them give, and one element further.
LEMMA FunctionsFacts ==
  ASSUME NEW w \in Wrappers, Named(w), NEW n \in 0 .. Len(w.elems)
  PROVE  /\ FunctionsUpTo(w, n) \in Seq(FunctionEntry)
         /\ FunctionsUpTo(w, 0) = << >>
         /\ n < Len(w.elems) =>
              FunctionsUpTo(w, n + 1) = FunctionsUpTo(w, n) \o FunctionsAt(w, n + 1)
<1> DEFINE f == [k \in 1 .. Len(w.elems) |-> FunctionsAt(w, k)]
<1>1. Len(w.elems) \in Nat /\ n \in Nat
  BY WrapperShape
<1>2. \A k \in 1 .. Len(w.elems) : f[k] = FunctionsAt(w, k) /\ f[k] \in Seq(FunctionEntry)
  BY FunctionsAtType
<1>3. \A m \in 0 .. Len(w.elems) : FunctionsUpTo(w, m) = FlattenSeq([k \in 1 .. m |-> f[k]])
  <2> SUFFICES ASSUME NEW m \in 0 .. Len(w.elems)
               PROVE  FunctionsUpTo(w, m) = FlattenSeq([k \in 1 .. m |-> f[k]])
    OBVIOUS
  <2>1. \A k \in 1 .. m : k \in 1 .. Len(w.elems)
    BY <1>1
  <2> HIDE DEF f
  <2>2. [k \in 1 .. m |-> f[k]] = [k \in 1 .. m |-> FunctionsAt(w, k)]
    BY <1>2, <2>1
  <2> QED
    BY <2>2 DEF FunctionsUpTo
<1>4. \A k \in 1 .. n : k \in 1 .. Len(w.elems)
  BY <1>1
<1>5. n < Len(w.elems) => /\ n + 1 \in 1 .. Len(w.elems) /\ n + 1 \in 0 .. Len(w.elems)
                          /\ \A k \in 1 .. n + 1 : k \in 1 .. Len(w.elems)
  BY <1>1
<1>6. 0 \in 0 .. Len(w.elems)
  BY <1>1
<1> HIDE DEF f
<1>7. FlattenSeq([k \in 1 .. n |-> f[k]]) \in Seq(FunctionEntry)
  BY <1>1, <1>2, <1>4, FlattenType
<1>8. FlattenSeq([k \in 1 .. 0 |-> f[k]]) = << >>
  BY FlattenNone
<1>9. ASSUME n < Len(w.elems)
      PROVE  FlattenSeq([k \in 1 .. n + 1 |-> f[k]]) =
               FlattenSeq([k \in 1 .. n |-> f[k]]) \o f[n + 1]
  BY <1>1, <1>2, <1>5, <1>9, FlattenUpTo
<1> QED
  BY <1>2, <1>3, <1>5, <1>6, <1>7, <1>8, <1>9

LEMMA DeclarationsFacts ==
  ASSUME NEW w \in Wrappers, NEW n \in 0 .. Len(w.elems)
  PROVE  /\ DeclarationsUpTo(w, n) \in Seq(Variables)
         /\ DeclarationsUpTo(w, 0) = << >>
         /\ n < Len(w.elems) =>
              DeclarationsUpTo(w, n + 1) = DeclarationsUpTo(w, n) \o DeclarationsAt(w, n + 1)
<1> DEFINE f == [k \in 1 .. Len(w.elems) |-> DeclarationsAt(w, k)]
<1>1. Len(w.elems) \in Nat /\ n \in Nat
  BY WrapperShape
<1>2. \A k \in 1 .. Len(w.elems) : f[k] = DeclarationsAt(w, k) /\ f[k] \in Seq(Variables)
  BY DeclarationsAtType
<1>3. \A m \in 0 .. Len(w.elems) : DeclarationsUpTo(w, m) = FlattenSeq([k \in 1 .. m |-> f[k]])
  <2> SUFFICES ASSUME NEW m \in 0 .. Len(w.elems)
               PROVE  DeclarationsUpTo(w, m) = FlattenSeq([k \in 1 .. m |-> f[k]])
    OBVIOUS
  <2>1. \A k \in 1 .. m : k \in 1 .. Len(w.elems)
    BY <1>1
  <2> HIDE DEF f
  <2>2. [k \in 1 .. m |-> f[k]] = [k \in 1 .. m |-> DeclarationsAt(w, k)]
    BY <1>2, <2>1
  <2> QED
    BY <2>2 DEF DeclarationsUpTo
<1>4. \A k \in 1 .. n : k \in 1 .. Len(w.elems)
  BY <1>1
<1>5. n < Len(w.elems) => /\ n + 1 \in 1 .. Len(w.elems) /\ n + 1 \in 0 .. Len(w.elems)
                          /\ \A k \in 1 .. n + 1 : k \in 1 .. Len(w.elems)
  BY <1>1
<1>6. 0 \in 0 .. Len(w.elems)
  BY <1>1
<1> HIDE DEF f
<1>7. FlattenSeq([k \in 1 .. n |-> f[k]]) \in Seq(Variables)
  BY <1>1, <1>2, <1>4, FlattenType
<1>8. FlattenSeq([k \in 1 .. 0 |-> f[k]]) = << >>
  BY FlattenNone
<1>9. ASSUME n < Len(w.elems)
      PROVE  FlattenSeq([k \in 1 .. n + 1 |-> f[k]]) =
               FlattenSeq([k \in 1 .. n |-> f[k]]) \o f[n + 1]
  BY <1>1, <1>2, <1>5, <1>9, FlattenUpTo
<1> QED
  BY <1>2, <1>3, <1>5, <1>6, <1>7, <1>8, <1>9


-----------------------------------------------------------------------------
(* The invariant                                                           *)

\* The shape of the variables.
ShapeInv ==
  /\ folder \in Folders /\ walked \in Seq(DOMAIN folder)
  /\ wrapper \in Wrappers \cup {NONE} /\ e \in Nat
  /\ category \in Texts /\ condFlag \in BOOLEAN /\ returned \in BOOLEAN
  /\ found \in Dictionaries /\ read \in Dictionaries

\* The file that is read: what has been found is what its wrapper declares in
\* the first e elements, and the category is the one that stands above the next.
FileInv ==
  wrapper # NONE =>
    /\ walked # << >> /\ wrapper = Chosen(folder[walked[Len(walked)]])
    /\ Named(wrapper) /\ e <= Len(wrapper.elems)
    /\ category = CategoryAbove(wrapper, e + 1)
    /\ InHeaders =>
         (condFlag <=> \E k \in 1 .. e : wrapper.elems[k].tag = "Condition")
    /\ found.functions = FunctionsUpTo(wrapper, e)
    /\ found.types = ParseVariables(DeclarationsUpTo(wrapper, e))

\* How many files have been read to the end.
Finished == IF wrapper = NONE THEN Len(walked) ELSE Len(walked) - 1

\* What the first n files of s give.
FunctionsIn(d, s, n) == FlattenSeq([k \in 1 .. n |-> FunctionsOf(d[s[k]])])

DeclarationsIn(d, s, n) == FlattenSeq([k \in 1 .. n |-> DeclarationsOf(d[s[k]])])

\* The files before are in the lists, one behind the other.
ReadInv ==
  /\ read.functions = FunctionsIn(folder, walked, Finished)
  /\ read.types = ParseVariables(DeclarationsIn(folder, walked, Finished))
  /\ returned => wrapper = NONE

Inv == ShapeInv /\ FileInv /\ ReadInv

\* A root, and what FunctionsOf and DeclarationsOf say of it.
LEMMA RootFacts ==
  ASSUME NEW root \in Seq(Wrappers)
  PROVE  LET w == Chosen(root)
         IN  IF w = NONE
             THEN FunctionsOf(root) = << >> /\ DeclarationsOf(root) = << >>
             ELSE /\ w \in Wrappers
                  /\ FunctionsOf(root) = FunctionsUpTo(w, Len(w.elems))
                  /\ DeclarationsOf(root) = DeclarationsUpTo(w, Len(w.elems))
<1> DEFINE w == Chosen(root)
<1>1. w = NONE \/ w \in Wrappers
  BY ChosenFacts
<1>2. CASE w = NONE
  BY <1>2 DEF FunctionsOf, DeclarationsOf
<1>3. CASE w # NONE
  <2>1. w \in Wrappers /\ DOMAIN w.elems = 1 .. Len(w.elems)
    BY <1>1, <1>3, WrapperShape
  <2>2. FunctionsOf(root) =
          FlattenSeq([k \in DOMAIN w.elems |->
             IF w.elems[k].tag = "Api"
             THEN <<ParseApi(w, w.elems[k], CategoryAbove(w, k))>> ELSE << >>])
    BY <1>3 DEF FunctionsOf
  <2>3. DeclarationsOf(root) =
          FlattenSeq([k \in DOMAIN w.elems |-> DeclarationsAt(w, k)])
    BY <1>3 DEF DeclarationsOf, DeclarationsAt, Open
  <2> HIDE DEF w
  <2>4. FunctionsOf(root) = FunctionsUpTo(w, Len(w.elems))
    BY <2>1, <2>2 DEF FunctionsUpTo, FunctionsAt
  <2>5. DeclarationsOf(root) = DeclarationsUpTo(w, Len(w.elems))
    BY <2>1, <2>3 DEF DeclarationsUpTo
  <2> QED
    BY <1>3, <2>1, <2>4, <2>5 DEF w
<1> QED
  BY <1>2, <1>3

\* Files of a folder.
LEMMA FileFacts ==
  ASSUME NEW d \in Folders, NEW f \in DOMAIN d
  PROVE  /\ d[f] \in Seq(Wrappers)
         /\ Chosen(d[f]) # NONE => Chosen(d[f]) \in Wrappers /\ Named(Chosen(d[f]))
         /\ FunctionsOf(d[f]) \in Seq(FunctionEntry)
         /\ DeclarationsOf(d[f]) \in Seq(Variables)
<1>1. d[f] \in Seq(Wrappers)
  BY FoldersAssumption
<1> DEFINE w == Chosen(d[f])
<1>2. w # NONE => w \in Wrappers /\ \E n \in DOMAIN d[f] : w = d[f][n]
  BY <1>1, ChosenFacts
<1>3. \A n \in DOMAIN d[f] : Named(d[f][n])
  BY FoldersAssumption DEF Named
<1>4. w # NONE => w \in Wrappers /\ Named(w)
  BY <1>2, <1>3
<1>5. CASE w = NONE
  <2>1. FunctionsOf(d[f]) = << >> /\ DeclarationsOf(d[f]) = << >>
    BY <1>1, <1>5, RootFacts
  <2>2. << >> \in Seq(FunctionEntry) /\ << >> \in Seq(Variables)
    OBVIOUS
  <2> QED
    BY <1>1, <1>5, <2>1, <2>2
<1>6. CASE w # NONE
  <2>1. w \in Wrappers /\ Named(w) /\ Len(w.elems) \in 0 .. Len(w.elems)
    BY <1>4, <1>6, WrapperShape
  <2>2. FunctionsOf(d[f]) = FunctionsUpTo(w, Len(w.elems)) /\ DeclarationsOf(d[f]) = DeclarationsUpTo(w, Len(w.elems))
    BY <1>1, <1>6, RootFacts
  <2> HIDE DEF w
  <2>3. FunctionsUpTo(w, Len(w.elems)) \in Seq(FunctionEntry) /\ DeclarationsUpTo(w, Len(w.elems)) \in Seq(Variables)
    BY <2>1, FunctionsFacts, DeclarationsFacts
  <2> QED
    BY <1>1, <2>1, <2>2, <2>3 DEF w
<1> QED
  BY <1>1, <1>5, <1>6

\* The lists, and what is added to one of them.
LEMMA DictionaryFacts ==
  ASSUME NEW d \in Dictionaries, NEW x \in FunctionEntry, NEW y \in TypeEntry,
         NEW s \in Seq(TypeEntry), NEW z \in Dictionaries
  PROVE  /\ d.types \in Seq(TypeEntry) /\ d.functions \in Seq(FunctionEntry)
         /\ [d EXCEPT !.functions = Append(@, x)] \in Dictionaries
         /\ [d EXCEPT !.types = Append(@, y)] \in Dictionaries
         /\ [d EXCEPT !.types = @ \o s] \in Dictionaries
         /\ [types |-> d.types \o z.types,
             functions |-> d.functions \o z.functions] \in Dictionaries
<1>1. /\ d.types \in Seq(TypeEntry) /\ d.functions \in Seq(FunctionEntry)
      /\ z.types \in Seq(TypeEntry) /\ z.functions \in Seq(FunctionEntry)
      /\ d = [types |-> d.types, functions |-> d.functions]
  BY DEF Dictionaries
<1>2. /\ Append(d.functions, x) \in Seq(FunctionEntry)
      /\ Append(d.types, y) \in Seq(TypeEntry)
      /\ d.types \o s \in Seq(TypeEntry)
      /\ d.types \o z.types \in Seq(TypeEntry)
      /\ d.functions \o z.functions \in Seq(FunctionEntry)
  BY <1>1
<1> QED
  BY <1>1, <1>2 DEF Dictionaries

-----------------------------------------------------------------------------
(* The steps                                                               *)

\* The element that is read, and what the invariant says of the wrapper.
LEMMA AtFacts ==
  ASSUME Inv, NEW t, At(t)
  PROVE  /\ wrapper \in Wrappers /\ wrapper # NONE /\ Named(wrapper)
         /\ e \in Nat /\ e + 1 \in 1 .. Len(wrapper.elems) /\ e < Len(wrapper.elems)
         /\ e \in 0 .. Len(wrapper.elems)
         /\ Elem = wrapper.elems[e + 1] /\ Elem \in Elements /\ Elem.tag = t
         /\ e' = e + 1 /\ wrapper' = wrapper /\ walked' = walked
         /\ folder' = folder /\ read' = read /\ returned' = returned
<1>1. /\ wrapper \in Wrappers /\ wrapper # NONE /\ Named(wrapper)
      /\ e \in Nat /\ e < Len(wrapper.elems)
  BY DEF Inv, ShapeInv, FileInv, At
<1>2. Len(wrapper.elems) \in Nat /\ wrapper.elems \in Seq(Elements)
  BY <1>1, WrapperShape
<1>3. e + 1 \in 1 .. Len(wrapper.elems) /\ e \in 0 .. Len(wrapper.elems)
  BY <1>1, <1>2
<1>4. wrapper.elems[e + 1] \in Elements
  BY <1>2, <1>3
<1> QED
  BY <1>1, <1>3, <1>4 DEF At, Elem

\* An element is read: the lists grow by what it gives, and the category is the
\* one above the next.
LEMMA ElementRead ==
  ASSUME Inv, NEW t, At(t), category' \in Texts, condFlag' \in BOOLEAN,
         found' \in Dictionaries,
         category' = IF t = "Category" THEN Elem.name ELSE category,
         InHeaders => (condFlag' <=> condFlag \/ t = "Condition"),
         found'.functions = found.functions \o FunctionsAt(wrapper, e + 1),
         found'.types = found.types \o ParseVariables(DeclarationsAt(wrapper, e + 1))
  PROVE  Inv'
<1>1. /\ wrapper \in Wrappers /\ wrapper # NONE /\ Named(wrapper)
      /\ e \in Nat /\ e + 1 \in 1 .. Len(wrapper.elems) /\ e < Len(wrapper.elems)
      /\ e \in 0 .. Len(wrapper.elems)
      /\ Elem = wrapper.elems[e + 1] /\ Elem \in Elements /\ Elem.tag = t
      /\ e' = e + 1 /\ wrapper' = wrapper /\ walked' = walked
      /\ folder' = folder /\ read' = read /\ returned' = returned
  BY AtFacts
<1>2. ShapeInv'
  BY <1>1 DEF Inv, ShapeInv
<1>3. FileInv'
  <2>1. /\ walked # << >> /\ wrapper = Chosen(folder[walked[Len(walked)]])
        /\ category = CategoryAbove(wrapper, e + 1)
        /\ InHeaders =>
             (condFlag <=> \E k \in 1 .. e : wrapper.elems[k].tag = "Condition")
        /\ found.functions = FunctionsUpTo(wrapper, e)
        /\ found.types = ParseVariables(DeclarationsUpTo(wrapper, e))
    BY <1>1 DEF Inv, FileInv
  <2>2. category' = CategoryAbove(wrapper, (e + 1) + 1)
    <3>1. DOMAIN wrapper.elems = 1 .. Len(wrapper.elems)
      BY <1>1, WrapperShape
    <3>2. CategoryAbove(wrapper, (e + 1) + 1) =
            IF wrapper.elems[e + 1].tag = "Category" THEN wrapper.elems[e + 1].name
            ELSE CategoryAbove(wrapper, e + 1)
      BY <1>1, <3>1, CategoryFacts
    <3> QED
      BY <1>1, <2>1, <3>2
  <2>3. InHeaders =>
          (condFlag' <=> \E k \in 1 .. e + 1 : wrapper.elems[k].tag = "Condition")
    <3>1. 1 .. e + 1 = (1 .. e) \cup {e + 1}
      BY <1>1
    <3> QED
      BY <1>1, <2>1, <3>1
  <2>4. found'.functions = FunctionsUpTo(wrapper, e + 1)
    BY <1>1, <2>1, FunctionsFacts
  <2>5. found'.types = ParseVariables(DeclarationsUpTo(wrapper, e + 1))
    <3>1. /\ DeclarationsUpTo(wrapper, e) \in Seq(Variables)
          /\ DeclarationsUpTo(wrapper, e + 1) =
               DeclarationsUpTo(wrapper, e) \o DeclarationsAt(wrapper, e + 1)
      BY <1>1, DeclarationsFacts
    <3>2. DeclarationsAt(wrapper, e + 1) \in Seq(Variables)
      BY <1>1, DeclarationsAtType
    <3> QED
      BY <2>1, <3>1, <3>2, ParseVariablesJoined
  <2>6. e + 1 <= Len(wrapper.elems)
    BY <1>1
  <2> QED
    BY <1>1, <2>1, <2>2, <2>3, <2>4, <2>5, <2>6 DEF FileInv, InHeaders
<1>4. ReadInv'
  <2>1. Finished' = Finished
    BY <1>1 DEF Finished
  <2> QED
    BY <1>1, <2>1 DEF Inv, ReadInv
<1> QED
  BY <1>2, <1>3, <1>4 DEF Inv

\* What is found so far, and nothing more.
LEMMA FoundFacts ==
  ASSUME Inv
  PROVE  /\ found \in Dictionaries /\ found.types \in Seq(TypeEntry)
         /\ found.functions \in Seq(FunctionEntry)
         /\ found.types \o << >> = found.types
         /\ found.functions \o << >> = found.functions
         /\ ParseVariables(<< >>) = << >>
         /\ category \in Texts /\ condFlag \in BOOLEAN
<1>1. /\ found \in Dictionaries /\ found.types \in Seq(TypeEntry)
      /\ found.functions \in Seq(FunctionEntry)
      /\ category \in Texts /\ condFlag \in BOOLEAN
  BY DEF Inv, ShapeInv, Dictionaries
<1>2. \A S : \A s \in Seq(S) : s \o << >> = s
  OBVIOUS
<1>3. ParseVariables(<< >>) = << >>
  BY DEF ParseVariables
<1> QED
  BY <1>1, <1>2, <1>3

LEMMA ReadApiInv == Inv /\ ReadApi => Inv'
<1> SUFFICES ASSUME Inv, ReadApi PROVE Inv'
  OBVIOUS
<1>1. At("Api")
  BY DEF ReadApi
<1>2. /\ wrapper \in Wrappers /\ wrapper # NONE /\ Named(wrapper)
      /\ e + 1 \in 1 .. Len(wrapper.elems)
      /\ Elem = wrapper.elems[e + 1] /\ Elem \in Elements /\ Elem.tag = "Api"
  BY <1>1, AtFacts
<1>3. category = CategoryAbove(wrapper, e + 1)
  BY <1>2 DEF Inv, FileInv
<1> DEFINE x == ParseApi(wrapper, Elem, category)
<1>4. FunctionsAt(wrapper, e + 1) = <<x>>
  BY <1>2, <1>3 DEF FunctionsAt
<1>5. DeclarationsAt(wrapper, e + 1) = << >>
  BY <1>2 DEF DeclarationsAt
<1>6. x \in FunctionEntry
  <2>1. Elem \in Apis /\ category \in Texts
    BY <1>2, ElementShape, FoundFacts
  <2>2. DOMAIN wrapper.elems = 1 .. Len(wrapper.elems)
    BY <1>2, WrapperShape
  <2>3. wrapper.tag = "Interface" => wrapper.name \o "." \o Elem.name \in Texts
    BY <1>2, <2>2 DEF Named
  <2> QED
    BY <1>2, <2>1, <2>3, ParseApiType
<1>7. found' = [found EXCEPT !.functions = Append(@, x)]
  BY DEF ReadApi
<1> HIDE DEF x
<1>8. /\ found' \in Dictionaries /\ found'.types = found.types
      /\ found'.functions = Append(found.functions, x)
  <2>1. found \in Dictionaries /\ found = [types |-> found.types, functions |-> found.functions]
    BY FoundFacts DEF Dictionaries
  <2>2. /\ found'.types = found.types
        /\ found'.functions = Append(found.functions, x)
    BY <1>7, <2>1
  <2>3. Append(found.functions, x) \in Seq(FunctionEntry)
    BY <1>6, FoundFacts
  <2>4. found' = [types |-> found.types, functions |-> Append(found.functions, x)]
    BY <1>7, <2>1
  <2> QED
    BY <2>2, <2>3, <2>4, FoundFacts DEF Dictionaries
<1>9. found.functions \o <<x>> = Append(found.functions, x)
  BY <1>6, FoundFacts, JoinedFew
<1>10. /\ category' \in Texts /\ condFlag' \in BOOLEAN /\ category' = category
       /\ condFlag' = condFlag
  BY FoundFacts DEF ReadApi
<1>11. /\ found'.functions = found.functions \o FunctionsAt(wrapper, e + 1)
       /\ found'.types = found.types \o ParseVariables(DeclarationsAt(wrapper, e + 1))
  BY <1>4, <1>5, <1>8, <1>9, FoundFacts
<1> QED
  BY <1>1, <1>8, <1>10, <1>11, ElementRead

LEMMA ReadCategoryInv == Inv /\ ReadCategory => Inv'
<1> SUFFICES ASSUME Inv, ReadCategory PROVE Inv'
  OBVIOUS
<1>1. At("Category")
  BY DEF ReadCategory
<1>2. Elem = wrapper.elems[e + 1] /\ Elem \in Elements /\ Elem.tag = "Category"
  BY <1>1, AtFacts
<1>3. FunctionsAt(wrapper, e + 1) = << >> /\ DeclarationsAt(wrapper, e + 1) = << >>
  BY <1>2 DEF FunctionsAt, DeclarationsAt
<1>4. /\ category' = Elem.name /\ condFlag' = condFlag /\ found' = found
      /\ category' \in Texts /\ condFlag' \in BOOLEAN
  BY <1>2, ElementShape, FoundFacts DEF ReadCategory
<1>5. /\ found'.functions = found.functions \o FunctionsAt(wrapper, e + 1)
      /\ found'.types = found.types \o ParseVariables(DeclarationsAt(wrapper, e + 1))
      /\ found' \in Dictionaries
  BY <1>3, <1>4, FoundFacts
<1> QED
  BY <1>1, <1>4, <1>5, ElementRead

\* The list of types, with more behind it.
LEMMA TypesFound ==
  ASSUME Inv, NEW s \in Seq(Variables),
         found' = [found EXCEPT !.types = @ \o ParseVariables(s)]
  PROVE  /\ found' \in Dictionaries /\ found'.functions = found.functions
         /\ found'.types = found.types \o ParseVariables(s)
<1>1. found = [types |-> found.types, functions |-> found.functions]
  BY FoundFacts DEF Dictionaries
<1>2. /\ found'.types = found.types \o ParseVariables(s)
      /\ found'.functions = found.functions
      /\ found' = [types |-> found.types \o ParseVariables(s), functions |-> found.functions]
  BY <1>1
<1>3. ParseVariables(s) \in Seq(TypeEntry)
  BY ParseVariablesJoined
<1>4. found.types \o ParseVariables(s) \in Seq(TypeEntry)
  BY <1>3, FoundFacts
<1> QED
  BY <1>2, <1>4, FoundFacts DEF Dictionaries

LEMMA ReadVariableInv == Inv /\ ReadVariable => Inv'
<1> SUFFICES ASSUME Inv, ReadVariable PROVE Inv'
  OBVIOUS
<1>1. At("Variable")
  BY DEF ReadVariable
<1>2. Elem = wrapper.elems[e + 1] /\ Elem \in Elements /\ Elem.tag = "Variable"
  BY <1>1, AtFacts
<1>3. FunctionsAt(wrapper, e + 1) = << >> /\ DeclarationsAt(wrapper, e + 1) = <<Elem>>
  BY <1>2 DEF FunctionsAt, DeclarationsAt
<1>4. Elem \in Variables /\ <<Elem>> \in Seq(Variables)
  BY <1>2, ElementShape
<1>5. ParseVariables(<<Elem>>) = <<ParseVariable(Elem)>> /\ ParseVariable(Elem) \in TypeEntry
  BY <1>4, ParseVariableType DEF ParseVariables
<1>6. found' = [found EXCEPT !.types = @ \o ParseVariables(<<Elem>>)]
  <2>1. found.types \o <<ParseVariable(Elem)>> = Append(found.types, ParseVariable(Elem))
    BY <1>5, FoundFacts, JoinedFew
  <2> QED
    BY <1>5, <2>1 DEF ReadVariable
<1>7. /\ found' \in Dictionaries /\ found'.functions = found.functions
      /\ found'.types = found.types \o ParseVariables(<<Elem>>)
  BY <1>4, <1>6, TypesFound
<1>8. /\ category' \in Texts /\ condFlag' \in BOOLEAN /\ category' = category
      /\ condFlag' = condFlag
  BY FoundFacts DEF ReadVariable
<1>9. /\ found'.functions = found.functions \o FunctionsAt(wrapper, e + 1)
      /\ found'.types = found.types \o ParseVariables(DeclarationsAt(wrapper, e + 1))
  BY <1>3, <1>7, FoundFacts
<1> QED
  BY <1>1, <1>7, <1>8, <1>9, ElementRead

\* The Condition that is open is the one that finds the flag down.
LEMMA OpenFacts ==
  ASSUME Inv, At("Condition")
  PROVE  Open(wrapper, e + 1) <=> InHeaders /\ ~condFlag
<1> DEFINE all == Positions(wrapper, "Condition")
<1>1. /\ wrapper \in Wrappers /\ wrapper # NONE /\ e \in Nat
      /\ e + 1 \in 1 .. Len(wrapper.elems)
      /\ wrapper.elems[e + 1].tag = "Condition"
  BY AtFacts
<1>2. Len(wrapper.elems) \in Nat /\ DOMAIN wrapper.elems = 1 .. Len(wrapper.elems)
  BY <1>1, WrapperShape
<1>3. /\ all \in SUBSET (1 .. Len(wrapper.elems)) /\ e + 1 \in all
      /\ \A k \in 1 .. Len(wrapper.elems) : k \in all <=> wrapper.elems[k].tag = "Condition"
  BY <1>1, <1>2 DEF Positions
<1>4. Open(wrapper, e + 1) <=> InHeaders /\ e + 1 = Min(all)
  BY DEF Open, InHeaders
<1>5. InHeaders => (condFlag <=> \E k \in 1 .. e : wrapper.elems[k].tag = "Condition")
  BY <1>1 DEF Inv, FileInv
<1> HIDE DEF all
<1>6. Min(all) \in all /\ \A k \in all : Min(all) <= k
  BY <1>2, <1>3, FirstPosition
<1>7. e + 1 = Min(all) <=> ~ \E k \in 1 .. e : wrapper.elems[k].tag = "Condition"
  <2>1. ASSUME e + 1 = Min(all), NEW k \in 1 .. e, wrapper.elems[k].tag = "Condition"
        PROVE  FALSE
    <3>1. k \in 1 .. Len(wrapper.elems) /\ k < e + 1
      BY <1>1, <1>2
    <3>2. k \in all
      BY <1>3, <2>1, <3>1
    <3> QED
      BY <1>1, <1>6, <2>1, <3>1, <3>2
  <2>2. ASSUME e + 1 # Min(all)
        PROVE  \E k \in 1 .. e : wrapper.elems[k].tag = "Condition"
    <3>1. Min(all) \in 1 .. Len(wrapper.elems) /\ Min(all) <= e + 1
      BY <1>3, <1>6
    <3>2. Min(all) \in 1 .. e
      BY <1>1, <1>2, <2>2, <3>1
    <3> QED
      BY <1>3, <1>6, <3>1, <3>2
  <2> QED
    BY <2>1, <2>2
<1> QED
  BY <1>4, <1>5, <1>7

LEMMA ReadConditionInv == Inv /\ ReadCondition => Inv'
<1> SUFFICES ASSUME Inv, ReadCondition PROVE Inv'
  OBVIOUS
<1>1. At("Condition") /\ InHeaders /\ ~condFlag
  BY DEF ReadCondition
<1>2. Elem = wrapper.elems[e + 1] /\ Elem \in Elements /\ Elem.tag = "Condition"
  BY <1>1, AtFacts
<1>3. Open(wrapper, e + 1)
  BY <1>1, OpenFacts
<1>4. FunctionsAt(wrapper, e + 1) = << >> /\ DeclarationsAt(wrapper, e + 1) = Elem.inner
  BY <1>2, <1>3 DEF FunctionsAt, DeclarationsAt
<1>5. Elem.inner \in Seq(Variables)
  BY <1>2, ElementShape
<1>6. found' = [found EXCEPT !.types = @ \o ParseVariables(Elem.inner)]
  BY DEF ReadCondition
<1>7. /\ found' \in Dictionaries /\ found'.functions = found.functions
      /\ found'.types = found.types \o ParseVariables(Elem.inner)
  BY <1>5, <1>6, TypesFound
<1>8. category' \in Texts /\ category' = category /\ condFlag' = TRUE
  BY FoundFacts DEF ReadCondition
<1>9. /\ found'.functions = found.functions \o FunctionsAt(wrapper, e + 1)
      /\ found'.types = found.types \o ParseVariables(DeclarationsAt(wrapper, e + 1))
  BY <1>4, <1>7, FoundFacts
<1> QED
  BY <1>1, <1>7, <1>8, <1>9, ElementRead

LEMMA PassOverInv == Inv /\ PassOver => Inv'
<1> SUFFICES ASSUME Inv, PassOver PROVE Inv'
  OBVIOUS
<1>1. /\ category' = category /\ condFlag' = condFlag /\ found' = found
      /\ category' \in Texts /\ condFlag' \in BOOLEAN /\ found' \in Dictionaries
  BY FoundFacts DEF PassOver
<1>2. ASSUME NEW t, At(t), t \notin {"Api", "Category", "Variable"},
             t = "Condition" => (InHeaders => condFlag)
      PROVE  Inv'
  <2>1. Elem = wrapper.elems[e + 1] /\ Elem.tag = t
    BY <1>2, AtFacts
  <2>2. t = "Condition" => ~Open(wrapper, e + 1)
    BY <1>2, OpenFacts
  <2>3. FunctionsAt(wrapper, e + 1) = << >> /\ DeclarationsAt(wrapper, e + 1) = << >>
    BY <1>2, <2>1, <2>2 DEF FunctionsAt, DeclarationsAt
  <2>4. /\ found'.functions = found.functions \o FunctionsAt(wrapper, e + 1)
        /\ found'.types = found.types \o ParseVariables(DeclarationsAt(wrapper, e + 1))
    BY <1>1, <2>3, FoundFacts
  <2>5. InHeaders => (condFlag' <=> condFlag \/ t = "Condition")
    BY <1>1, <1>2
  <2>6. category' = IF t = "Category" THEN Elem.name ELSE category
    BY <1>1, <1>2
  <2> QED
    BY <1>1, <1>2, <2>4, <2>5, <2>6, ElementRead
<1>3. CASE At("Condition") /\ (InHeaders => condFlag)
  BY <1>2, <1>3
<1>4. CASE \E t \in {"SourceModule", "ModuleAlias", "ErrorDecode"} : At(t)
  BY <1>2, <1>4
<1> QED
  BY <1>3, <1>4 DEF PassOver

-----------------------------------------------------------------------------
(* From file to file                                                       *)

LEMMA FunctionsInFacts ==
  ASSUME NEW d \in Folders, NEW s \in Seq(DOMAIN d), NEW n \in 0 .. Len(s)
  PROVE  /\ FunctionsIn(d, s, n) \in Seq(FunctionEntry)
         /\ FunctionsIn(d, s, 0) = << >>
         /\ n < Len(s) =>
              FunctionsIn(d, s, n + 1) = FunctionsIn(d, s, n) \o FunctionsOf(d[s[n + 1]])
<1> DEFINE f == [k \in 1 .. Len(s) |-> FunctionsOf(d[s[k]])]
<1>1. Len(s) \in Nat /\ n \in Nat /\ 0 \in 0 .. Len(s)
  OBVIOUS
<1>2. \A k \in 1 .. Len(s) : f[k] = FunctionsOf(d[s[k]]) /\ f[k] \in Seq(FunctionEntry)
  <2>1. \A k \in 1 .. Len(s) : s[k] \in DOMAIN d
    OBVIOUS
  <2> QED
    BY <2>1, FileFacts
<1>3. \A m \in 0 .. Len(s) : FunctionsIn(d, s, m) = FlattenSeq([k \in 1 .. m |-> f[k]])
  <2> SUFFICES ASSUME NEW m \in 0 .. Len(s)
               PROVE  FunctionsIn(d, s, m) = FlattenSeq([k \in 1 .. m |-> f[k]])
    OBVIOUS
  <2>1. \A k \in 1 .. m : k \in 1 .. Len(s)
    BY <1>1
  <2> HIDE DEF f
  <2>2. [k \in 1 .. m |-> f[k]] = [k \in 1 .. m |-> FunctionsOf(d[s[k]])]
    BY <1>2, <2>1
  <2> QED
    BY <2>2 DEF FunctionsIn
<1>4. \A k \in 1 .. n : k \in 1 .. Len(s)
  BY <1>1
<1>5. n < Len(s) => /\ n + 1 \in 1 .. Len(s) /\ n + 1 \in 0 .. Len(s)
                    /\ \A k \in 1 .. n + 1 : k \in 1 .. Len(s)
  BY <1>1
<1> HIDE DEF f
<1>6. FlattenSeq([k \in 1 .. n |-> f[k]]) \in Seq(FunctionEntry)
  BY <1>1, <1>2, <1>4, FlattenType
<1>7. FlattenSeq([k \in 1 .. 0 |-> f[k]]) = << >>
  BY FlattenNone
<1>8. ASSUME n < Len(s)
      PROVE  FlattenSeq([k \in 1 .. n + 1 |-> f[k]]) =
               FlattenSeq([k \in 1 .. n |-> f[k]]) \o f[n + 1]
  BY <1>1, <1>2, <1>5, <1>8, FlattenUpTo
<1> QED
  BY <1>1, <1>2, <1>3, <1>5, <1>6, <1>7, <1>8

LEMMA DeclarationsInFacts ==
  ASSUME NEW d \in Folders, NEW s \in Seq(DOMAIN d), NEW n \in 0 .. Len(s)
  PROVE  /\ DeclarationsIn(d, s, n) \in Seq(Variables)
         /\ DeclarationsIn(d, s, 0) = << >>
         /\ n < Len(s) =>
              DeclarationsIn(d, s, n + 1) =
                DeclarationsIn(d, s, n) \o DeclarationsOf(d[s[n + 1]])
<1> DEFINE f == [k \in 1 .. Len(s) |-> DeclarationsOf(d[s[k]])]
<1>1. Len(s) \in Nat /\ n \in Nat /\ 0 \in 0 .. Len(s)
  OBVIOUS
<1>2. \A k \in 1 .. Len(s) : f[k] = DeclarationsOf(d[s[k]]) /\ f[k] \in Seq(Variables)
  <2>1. \A k \in 1 .. Len(s) : s[k] \in DOMAIN d
    OBVIOUS
  <2> QED
    BY <2>1, FileFacts
<1>3. \A m \in 0 .. Len(s) : DeclarationsIn(d, s, m) = FlattenSeq([k \in 1 .. m |-> f[k]])
  <2> SUFFICES ASSUME NEW m \in 0 .. Len(s)
               PROVE  DeclarationsIn(d, s, m) = FlattenSeq([k \in 1 .. m |-> f[k]])
    OBVIOUS
  <2>1. \A k \in 1 .. m : k \in 1 .. Len(s)
    BY <1>1
  <2> HIDE DEF f
  <2>2. [k \in 1 .. m |-> f[k]] = [k \in 1 .. m |-> DeclarationsOf(d[s[k]])]
    BY <1>2, <2>1
  <2> QED
    BY <2>2 DEF DeclarationsIn
<1>4. \A k \in 1 .. n : k \in 1 .. Len(s)
  BY <1>1
<1>5. n < Len(s) => /\ n + 1 \in 1 .. Len(s) /\ n + 1 \in 0 .. Len(s)
                    /\ \A k \in 1 .. n + 1 : k \in 1 .. Len(s)
  BY <1>1
<1> HIDE DEF f
<1>6. FlattenSeq([k \in 1 .. n |-> f[k]]) \in Seq(Variables)
  BY <1>1, <1>2, <1>4, FlattenType
<1>7. FlattenSeq([k \in 1 .. 0 |-> f[k]]) = << >>
  BY FlattenNone
<1>8. ASSUME n < Len(s)
      PROVE  FlattenSeq([k \in 1 .. n + 1 |-> f[k]]) =
               FlattenSeq([k \in 1 .. n |-> f[k]]) \o f[n + 1]
  BY <1>1, <1>2, <1>5, <1>8, FlattenUpTo
<1> QED
  BY <1>1, <1>2, <1>3, <1>5, <1>6, <1>7, <1>8

\* A file more does not change what the ones before give.
LEMMA SameFiles ==
  ASSUME NEW d, NEW s, NEW u, NEW n, \A k \in 1 .. n : u[k] = s[k]
  PROVE  /\ FunctionsIn(d, u, n) = FunctionsIn(d, s, n)
         /\ DeclarationsIn(d, u, n) = DeclarationsIn(d, s, n)
<1>1. /\ [k \in 1 .. n |-> FunctionsOf(d[u[k]])] = [k \in 1 .. n |-> FunctionsOf(d[s[k]])]
      /\ [k \in 1 .. n |-> DeclarationsOf(d[u[k]])] = [k \in 1 .. n |-> DeclarationsOf(d[s[k]])]
  OBVIOUS
<1> QED
  BY <1>1 DEF FunctionsIn, DeclarationsIn

LEMMA OpenFileInv ==
  ASSUME Inv, NEW f \in DOMAIN folder, OpenFile(f)
  PROVE  Inv'
<1>1. /\ folder \in Folders /\ walked \in Seq(DOMAIN folder)
      /\ category \in Texts /\ returned = FALSE /\ wrapper = NONE
      /\ read \in Dictionaries /\ Len(walked) \in Nat
  BY DEF Inv, ShapeInv, OpenFile
<1>2. /\ walked' = Append(walked, f) /\ wrapper' = Chosen(folder[f]) /\ e' = 0
      /\ category' = IF wrapper' = NONE THEN category ELSE FirstCategory(wrapper')
      /\ found' = Nothing /\ condFlag' = FALSE
      /\ folder' = folder /\ read' = read /\ returned' = returned
  BY DEF OpenFile
<1>3. /\ walked' \in Seq(DOMAIN folder) /\ Len(walked') = Len(walked) + 1
      /\ walked'[Len(walked')] = f /\ walked' # << >>
      /\ \A k \in 1 .. Len(walked) : walked'[k] = walked[k]
  BY <1>1, <1>2
<1>4. /\ folder[f] \in Seq(Wrappers)
      /\ wrapper' # NONE => wrapper' \in Wrappers /\ Named(wrapper')
  BY <1>1, <1>2, FileFacts
<1>5. found' \in Dictionaries /\ found'.types = << >> /\ found'.functions = << >>
  BY <1>2 DEF Nothing, Dictionaries
<1>6. wrapper' # NONE =>
        /\ category' = CategoryAbove(wrapper', 1) /\ category' \in Texts
        /\ FunctionsUpTo(wrapper', 0) = << >> /\ DeclarationsUpTo(wrapper', 0) = << >>
        /\ 0 <= Len(wrapper'.elems)
  <2> SUFFICES ASSUME NEW w, w = wrapper', w # NONE
               PROVE  /\ category' = CategoryAbove(w, 1) /\ category' \in Texts
                      /\ FunctionsUpTo(w, 0) = << >> /\ DeclarationsUpTo(w, 0) = << >>
                      /\ 0 <= Len(w.elems)
    OBVIOUS
  <2>1. w \in Wrappers /\ Named(w) /\ Len(w.elems) \in Nat
    BY <1>4, WrapperShape
  <2>2. 0 \in 0 .. Len(w.elems) /\ 1 \in 1 .. Len(w.elems) + 1
    BY <2>1
  <2> QED
    BY <1>2, <2>1, <2>2, CategoryFacts, FunctionsFacts, DeclarationsFacts
<1>7. ShapeInv'
  <2>1. category' \in Texts
    BY <1>1, <1>2, <1>6
  <2> QED
    BY <1>1, <1>2, <1>3, <1>4, <1>5, <2>1 DEF ShapeInv
<1>8. FileInv'
  <2> SUFFICES ASSUME wrapper' # NONE
               PROVE  /\ walked' # << >> /\ wrapper' = Chosen(folder'[walked'[Len(walked')]])
                      /\ Named(wrapper') /\ e' <= Len(wrapper'.elems)
                      /\ category' = CategoryAbove(wrapper', e' + 1)
                      /\ condFlag' <=> \E k \in 1 .. e' : wrapper'.elems[k].tag = "Condition"
                      /\ found'.functions = FunctionsUpTo(wrapper', e')
                      /\ found'.types = ParseVariables(DeclarationsUpTo(wrapper', e'))
    BY DEF FileInv
  <2>1. 0 + 1 = 1 /\ 1 .. 0 = {}
    OBVIOUS
  <2> QED
    BY <1>2, <1>3, <1>4, <1>5, <1>6, <2>1, FoundFacts
<1>9. ReadInv'
  <2>1. /\ read.functions = FunctionsIn(folder, walked, Len(walked))
        /\ read.types = ParseVariables(DeclarationsIn(folder, walked, Len(walked)))
    BY <1>1 DEF Inv, ReadInv, Finished
  <2>2. /\ FunctionsIn(folder, walked', Len(walked)) = FunctionsIn(folder, walked, Len(walked))
        /\ DeclarationsIn(folder, walked', Len(walked)) = DeclarationsIn(folder, walked, Len(walked))
    BY <1>3, SameFiles
  <2>3. CASE wrapper' # NONE
    <3>1. Finished' = Len(walked)
      BY <1>1, <1>3, <2>3 DEF Finished
    <3> QED
      BY <1>1, <1>2, <2>1, <2>2, <3>1 DEF ReadInv
  <2>4. CASE wrapper' = NONE
    <3>1. Finished' = Len(walked) + 1
      BY <1>1, <1>3, <2>4 DEF Finished
    <3>2. FunctionsOf(folder[f]) = << >> /\ DeclarationsOf(folder[f]) = << >>
      BY <1>2, <1>4, <2>4, RootFacts
    <3>3. Len(walked) \in 0 .. Len(walked') /\ Len(walked) < Len(walked')
      BY <1>1, <1>3
    <3> DEFINE fs == FunctionsIn(folder, walked', Len(walked))
               ds == DeclarationsIn(folder, walked', Len(walked))
    <3>4. /\ fs \in Seq(FunctionEntry)
          /\ FunctionsIn(folder, walked', Len(walked) + 1) = fs \o FunctionsOf(folder[f])
      <4> SUFFICES ASSUME NEW s, s = walked'
                   PROVE  /\ FunctionsIn(folder, s, Len(walked)) \in Seq(FunctionEntry)
                          /\ FunctionsIn(folder, s, Len(walked) + 1) =
                               FunctionsIn(folder, s, Len(walked)) \o FunctionsOf(folder[f])
        OBVIOUS
      <4> QED
        BY <1>1, <1>3, <3>3, FunctionsInFacts
    <3>5. /\ ds \in Seq(Variables)
          /\ DeclarationsIn(folder, walked', Len(walked) + 1) = ds \o DeclarationsOf(folder[f])
      <4> SUFFICES ASSUME NEW s, s = walked'
                   PROVE  /\ DeclarationsIn(folder, s, Len(walked)) \in Seq(Variables)
                          /\ DeclarationsIn(folder, s, Len(walked) + 1) =
                               DeclarationsIn(folder, s, Len(walked)) \o DeclarationsOf(folder[f])
        OBVIOUS
      <4> QED
        BY <1>1, <1>3, <3>3, DeclarationsInFacts
    <3> HIDE DEF fs, ds
    <3>6. fs \o << >> = fs /\ ds \o << >> = ds
      BY <3>4, <3>5
    <3>7. /\ FunctionsIn(folder, walked', Len(walked) + 1) = read.functions
          /\ ParseVariables(DeclarationsIn(folder, walked', Len(walked) + 1)) = read.types
      BY <2>1, <2>2, <3>2, <3>4, <3>5, <3>6 DEF fs, ds
    <3> QED
      BY <1>1, <1>2, <2>4, <3>1, <3>7 DEF ReadInv
  <2> QED
    BY <2>3, <2>4
<1> QED
  BY <1>7, <1>8, <1>9 DEF Inv

LEMMA EndFileInv == Inv /\ EndFile => Inv'
<1> SUFFICES ASSUME Inv, EndFile PROVE Inv'
  OBVIOUS
<1>1. /\ wrapper \in Wrappers /\ wrapper # NONE /\ e = Len(wrapper.elems)
      /\ folder \in Folders /\ walked \in Seq(DOMAIN folder) /\ walked # << >>
      /\ wrapper = Chosen(folder[walked[Len(walked)]])
      /\ found.functions = FunctionsUpTo(wrapper, e)
      /\ found.types = ParseVariables(DeclarationsUpTo(wrapper, e))
      /\ found \in Dictionaries /\ read \in Dictionaries
      /\ read.functions = FunctionsIn(folder, walked, Len(walked) - 1)
      /\ read.types = ParseVariables(DeclarationsIn(folder, walked, Len(walked) - 1))
  BY DEF Inv, ShapeInv, FileInv, ReadInv, Finished, EndFile
<1>2. /\ wrapper' = NONE /\ folder' = folder /\ walked' = walked /\ e' = e
      /\ category' = category /\ condFlag' = condFlag /\ found' = found
      /\ returned' = returned
      /\ read' = [types |-> read.types \o found.types,
                  functions |-> read.functions \o found.functions]
  BY DEF EndFile
<1> DEFINE n == Len(walked) - 1
           file == folder[walked[Len(walked)]]
<1>3. /\ n \in 0 .. Len(walked) /\ n < Len(walked) /\ n + 1 = Len(walked)
      /\ walked[n + 1] \in DOMAIN folder
  BY <1>1
<1>4. /\ file \in Seq(Wrappers)
      /\ FunctionsOf(file) = found.functions
      /\ ParseVariables(DeclarationsOf(file)) = found.types
      /\ DeclarationsOf(file) \in Seq(Variables)
  BY <1>1, <1>3, FileFacts, RootFacts
<1>5. FunctionsIn(folder, walked, Len(walked)) = read.functions \o found.functions
  BY <1>1, <1>3, <1>4, FunctionsInFacts
<1>6. ParseVariables(DeclarationsIn(folder, walked, Len(walked))) = read.types \o found.types
  <2>1. /\ DeclarationsIn(folder, walked, n) \in Seq(Variables)
        /\ DeclarationsIn(folder, walked, Len(walked)) =
             DeclarationsIn(folder, walked, n) \o DeclarationsOf(file)
    BY <1>1, <1>3, DeclarationsInFacts
  <2> QED
    BY <1>1, <1>4, <2>1, ParseVariablesJoined
<1>7. read' \in Dictionaries
  <2>1. read.types \in Seq(TypeEntry) /\ found.types \in Seq(TypeEntry)
        /\ read.functions \in Seq(FunctionEntry) /\ found.functions \in Seq(FunctionEntry)
    BY <1>1 DEF Dictionaries
  <2>2. /\ read.types \o found.types \in Seq(TypeEntry)
        /\ read.functions \o found.functions \in Seq(FunctionEntry)
    BY <2>1
  <2> QED
    BY <1>2, <2>2 DEF Dictionaries
<1>8. ShapeInv'
  BY <1>1, <1>2, <1>7 DEF Inv, ShapeInv
<1>9. FileInv'
  BY <1>2 DEF FileInv
<1>10. ReadInv'
  <2>1. Finished' = Len(walked)
    BY <1>2 DEF Finished
  <2> QED
    BY <1>2, <1>5, <1>6, <2>1 DEF ReadInv
<1> QED
  BY <1>8, <1>9, <1>10 DEF Inv

LEMMA ReturnInv == Inv /\ (Return \/ UNCHANGED vars) => Inv'
<1> SUFFICES ASSUME Inv, Return \/ UNCHANGED vars PROVE Inv'
  OBVIOUS
<1>1. /\ wrapper' = wrapper /\ folder' = folder /\ walked' = walked /\ e' = e
      /\ category' = category /\ condFlag' = condFlag /\ found' = found
      /\ read' = read /\ returned' \in BOOLEAN
      /\ returned' => wrapper = NONE
  <2>1. CASE Return
    BY <2>1 DEF Return
  <2>2. CASE UNCHANGED vars
    BY <2>2 DEF Inv, ShapeInv, ReadInv, vars
  <2> QED
    BY <2>1, <2>2
<1>2. Finished' = Finished
  BY <1>1 DEF Finished
<1> QED
  BY <1>1, <1>2 DEF Inv, ShapeInv, FileInv, ReadInv, InHeaders

-----------------------------------------------------------------------------
(* The theorems                                                            *)

LEMMA InvInit == Init => Inv
<1> SUFFICES ASSUME Init PROVE Inv
  OBVIOUS
<1>1. /\ folder \in Folders /\ walked = << >> /\ wrapper = NONE /\ e = 0
      /\ category = "none" /\ condFlag = FALSE /\ found = Nothing /\ read = Nothing
      /\ returned = FALSE
  BY DEF Init
<1>2. Nothing \in Dictionaries /\ Nothing.types = << >> /\ Nothing.functions = << >>
  BY DEF Nothing, Dictionaries
<1>3. walked \in Seq(DOMAIN folder) /\ Len(walked) = 0 /\ 0 \in 0 .. Len(walked)
  BY <1>1
<1>4. ShapeInv
  BY <1>1, <1>2, <1>3, FoldersAssumption DEF ShapeInv
<1>5. FileInv
  BY <1>1 DEF FileInv
<1>6. ReadInv
  <2>1. Finished = 0
    BY <1>1, <1>3 DEF Finished
  <2>2. FunctionsIn(folder, walked, 0) = << >> /\ DeclarationsIn(folder, walked, 0) = << >>
    BY <1>1, <1>3, FunctionsInFacts, DeclarationsInFacts
  <2>3. ParseVariables(<< >>) = << >>
    BY DEF ParseVariables
  <2> QED
    BY <1>1, <1>2, <2>1, <2>2, <2>3 DEF ReadInv
<1> QED
  BY <1>4, <1>5, <1>6 DEF Inv

LEMMA InvHolds == Spec => []Inv
<1>1. Inv /\ [Next]_vars => Inv'
  BY OpenFileInv, ReadApiInv, ReadCategoryInv, ReadVariableInv, ReadConditionInv,
     PassOverInv, EndFileInv, ReturnInv DEF Next
<1> QED
  BY InvInit, <1>1, PTL DEF Spec

\* In every folder, whatever files are in it and in which order they come, what
\* parse_all_file has gathered is always a dictionary as the filler takes it.
THEOREM TypeCorrectness == Spec => []TypeOK
<1>1. Inv => TypeOK
  BY DEF Inv, ShapeInv, TypeOK, ToSet
<1> QED
  BY InvHolds, <1>1, PTL

\* The list of functions that is returned is that of the files in the order of
\* the walk: no function is lost, none comes twice, and each has the module and
\* the category of its own place.
THEOREM FunctionsAsDeclaredHolds == Spec => []FunctionsAsDeclared
<1>1. Inv => FunctionsAsDeclared
  <2> SUFFICES ASSUME Inv, returned PROVE read.functions = Walked(FunctionsOf)
    BY DEF FunctionsAsDeclared
  <2>1. read.functions = FunctionsIn(folder, walked, Len(walked))
    BY DEF Inv, ReadInv, Finished
  <2>2. DOMAIN walked = 1 .. Len(walked)
    BY DEF Inv, ShapeInv
  <2> QED
    BY <2>1, <2>2 DEF FunctionsIn, Walked
<1> QED
  BY InvHolds, <1>1, PTL

\* The list of types that is returned is that of all the declarations the files
\* have open to the reader, in the order of the walk.
THEOREM TypesAsDeclaredHolds == Spec => []TypesAsDeclared
<1>1. Inv => TypesAsDeclared
  <2> SUFFICES ASSUME Inv, returned
               PROVE  read.types = ParseVariables(Walked(DeclarationsOf))
    BY DEF TypesAsDeclared
  <2>1. read.types = ParseVariables(DeclarationsIn(folder, walked, Len(walked)))
    BY DEF Inv, ReadInv, Finished
  <2>2. DOMAIN walked = 1 .. Len(walked)
    BY DEF Inv, ShapeInv
  <2> QED
    BY <2>1, <2>2 DEF DeclarationsIn, Walked
<1> QED
  BY InvHolds, <1>1, PTL
=============================================================================
