------------------------------ MODULE Folding ------------------------------
(***************************************************************************)
(* What FoldLeft and FlattenSeq compute: they are recursive functions, and *)
(* the values they go through are an induction's.                          *)
(***************************************************************************)
EXTENDS Integers, SequencesExt, WellFoundedInduction, TLAPS

\* What is folded: a parameter, what the elements so far have given, an element.
CONSTANT Op(_, _, _)

Fold(p, base, s) == FoldLeft(LAMBDA x, y : Op(p, x, y), base, s)

IsSequence(s) == Len(s) \in Nat /\ DOMAIN s = 1 .. Len(s)

\* A set of numbers that is not empty has a least one.
LEMMA Least ==
  ASSUME NEW S, S \subseteq Nat, S # {}
  PROVE  \E x \in S : \A y \in S : x <= y
<1> DEFINE less == OpToRel(<, Nat)
<1>1. IsWellFoundedOn(less, Nat)
  BY NatLessThanWellFounded
<1>2. \A x, y \in Nat : y < x => <<y, x>> \in less
  BY DEF OpToRel
<1> HIDE DEF less
<1>3. PICK x \in S : \A y \in S : <<y, x>> \notin less
  BY <1>1, WFMin
<1>4. \A y \in S : x <= y
  <2> SUFFICES ASSUME NEW y \in S PROVE x <= y
    OBVIOUS
  <2>1. ~ (y < x)
    BY <1>2, <1>3
  <2> QED
    BY <2>1
<1> QED
  BY <1>3, <1>4

\* Induction, for a set in the place of a predicate.
LEMMA Induction ==
  ASSUME NEW S, 0 \in S, \A n \in Nat : n \in S => n + 1 \in S
  PROVE  Nat \subseteq S
<1> SUFFICES ASSUME Nat \ S # {} PROVE FALSE
  OBVIOUS
<1>1. PICK n \in Nat \ S : \A k \in Nat \ S : n <= k
  BY Least
<1>2. n - 1 \in Nat /\ n - 1 \in S
  BY <1>1
<1> QED
  BY <1>1, <1>2

\* The greatest element of a set of positions, which FoldLeft takes next.
LEMMA MaxOfInterval ==
  ASSUME NEW n \in Nat, NEW S \in SUBSET (1 .. n), S # {}
  PROVE  Max(S) \in S /\ \A k \in S : Max(S) >= k
<1> DEFINE T == {n - k : k \in S}
<1>0. S \subseteq Int /\ \A k \in S : k <= n
  OBVIOUS
<1>1. \A k \in S : n - k \in Nat
  BY <1>0
<1>5. T \subseteq Nat /\ T # {}
  BY <1>1
<1>2. PICK x \in T : \A y \in T : x <= y
  BY <1>5, Least
<1>3. PICK k \in S : x = n - k
  OBVIOUS
<1>4. \A j \in S : k >= j
  <2> SUFFICES ASSUME NEW j \in S PROVE k >= j
    OBVIOUS
  <2>1. n - j \in T
    OBVIOUS
  <2> QED
    BY <1>0, <1>2, <1>3, <2>1
<1> QED
  BY <1>4 DEF Max

\* The recursive function inside FoldLeft.
Defines(g, p, base, s, m) ==
  g = [S \in SUBSET (1 .. m) |->
         IF S = {} THEN base ELSE Op(p, g[S \ {Max(S)}], s[Max(S)])]

\* That function exists.
LEMMA Definable ==
  ASSUME NEW p, NEW base, NEW s, NEW n \in Nat
  PROVE  \E g : Defines(g, p, base, s, n)
<1> DEFINE D == {m \in Nat : \E g : Defines(g, p, base, s, m)}
<1>1. 0 \in D
  <2> DEFINE g == [S \in {{}} |-> base]
  <2>1. SUBSET (1 .. 0) = {{}}
    OBVIOUS
  <2>2. Defines(g, p, base, s, 0)
    BY <2>1 DEF Defines
  <2> QED
    BY <2>2
<1>2. ASSUME NEW m \in Nat, m \in D PROVE m + 1 \in D
  <2>1. PICK f : Defines(f, p, base, s, m)
    BY <1>2
  <2> DEFINE g == [S \in SUBSET (1 .. m + 1) |->
                     IF m + 1 \in S THEN Op(p, f[S \ {m + 1}], s[m + 1]) ELSE f[S]]
  <2>2. ASSUME NEW S \in SUBSET (1 .. m + 1)
        PROVE  g[S] = IF S = {} THEN base ELSE Op(p, g[S \ {Max(S)}], s[Max(S)])
    <3>1. CASE m + 1 \in S
      <4>1. Max(S) = m + 1
        <5>1. m + 1 \in Nat /\ S # {}
          BY <3>1
        <5>2. Max(S) \in S /\ Max(S) >= m + 1
          BY <3>1, <5>1, MaxOfInterval
        <5>3. Max(S) \in 1 .. m + 1
          BY <5>2
        <5> QED
          BY <5>2, <5>3
      <4>2. S \ {m + 1} \in SUBSET (1 .. m + 1) /\ m + 1 \notin S \ {m + 1}
        OBVIOUS
      <4>3. g[S \ {m + 1}] = f[S \ {m + 1}]
        BY <4>2
      <4> QED
        BY <3>1, <4>1, <4>3
    <3>2. CASE m + 1 \notin S
      <4>1. S \in SUBSET (1 .. m)
        BY <3>2
      <4>2. f[S] = IF S = {} THEN base ELSE Op(p, f[S \ {Max(S)}], s[Max(S)])
        BY <2>1, <4>1 DEF Defines
      <4>3. S \ {Max(S)} \in SUBSET (1 .. m + 1) /\ m + 1 \notin S \ {Max(S)}
        BY <3>2
      <4> QED
        BY <3>2, <4>2, <4>3
    <3> QED
      BY <3>1, <3>2
  <2>3. Defines(g, p, base, s, m + 1)
    <3> HIDE DEF g
    <3>1. g = [S \in SUBSET (1 .. m + 1) |-> g[S]]
      BY DEF g
    <3> QED
      BY <2>2, <3>1 DEF Defines
  <2> QED
    BY <2>3
<1>3. Nat \subseteq D
  <2> HIDE DEF D
  <2> QED
    BY <1>1, <1>2, Induction
<1> QED
  BY <1>3

\* The values that FoldLeft goes through.
Trace(t, p, base, s) ==
  /\ t = [k \in 0 .. Len(s) |-> t[k]]
  /\ t[0] = base
  /\ \A k \in 1 .. Len(s) : t[k] = Op(p, t[k - 1], s[k])

LEMMA FoldTrace ==
  ASSUME NEW p, NEW base, NEW s, Len(s) \in Nat, DOMAIN s = 1 .. Len(s)
  PROVE  \E t : Trace(t, p, base, s) /\ Fold(p, base, s) = t[Len(s)]
<1> DEFINE n == Len(s)
           iter == CHOOSE g : Defines(g, p, base, s, n)
           t == [k \in 0 .. n |-> iter[1 .. k]]
<1>1. Defines(iter, p, base, s, n)
  BY Definable
<1>2. Fold(p, base, s) = iter[1 .. n]
  BY Zenon DEF Fold, FoldLeft, MapThenFoldSet, Defines
<1>3. \A S \in SUBSET (1 .. n) :
        iter[S] = IF S = {} THEN base ELSE Op(p, iter[S \ {Max(S)}], s[Max(S)])
  BY <1>1 DEF Defines
<1> HIDE DEF iter
<1>4. t[0] = base
  <2>1. 1 .. 0 = {} /\ 0 \in 0 .. n
    OBVIOUS
  <2>2. {} \in SUBSET (1 .. n)
    OBVIOUS
  <2>3. iter[{}] = base
    BY <1>3, <2>2
  <2> QED
    BY <2>1, <2>3
<1>5. ASSUME NEW k \in 1 .. n PROVE t[k] = Op(p, t[k - 1], s[k])
  <2>1. 1 .. k \in SUBSET (1 .. n) /\ k \in 1 .. k
    OBVIOUS
  <2>2. Max(1 .. k) = k
    <3>1. Max(1 .. k) \in 1 .. k /\ Max(1 .. k) >= k
      BY <2>1, MaxOfInterval
    <3> QED
      BY <3>1
  <2>3. (1 .. k) \ {k} = 1 .. k - 1
    OBVIOUS
  <2>4. iter[1 .. k] = Op(p, iter[1 .. k - 1], s[k])
    BY <1>3, <2>1, <2>2, <2>3
  <2>5. k \in 0 .. n /\ k - 1 \in 0 .. n
    OBVIOUS
  <2> QED
    BY <2>4, <2>5
<1>6. Trace(t, p, base, s)
  BY <1>4, <1>5 DEF Trace
<1>7. Fold(p, base, s) = t[n]
  BY <1>2
<1> QED
  BY <1>6, <1>7

\* What holds of the base, and is kept by every element in its turn, holds of
\* the whole.
LEMMA FoldInduction ==
  ASSUME NEW p, NEW base, NEW s, IsSequence(s), NEW I, base \in I[0],
         \A k \in 1 .. Len(s) : \A x \in I[k - 1] : Op(p, x, s[k]) \in I[k]
  PROVE  Fold(p, base, s) \in I[Len(s)]
<1>1. PICK t : Trace(t, p, base, s) /\ Fold(p, base, s) = t[Len(s)]
  BY FoldTrace DEF IsSequence
<1> DEFINE J == {k \in Nat : k <= Len(s) => t[k] \in I[k]}
<1>2. 0 \in J
  BY <1>1 DEF Trace
<1>3. ASSUME NEW k \in Nat, k \in J PROVE k + 1 \in J
  <2> SUFFICES ASSUME k + 1 <= Len(s) PROVE t[k + 1] \in I[k + 1]
    OBVIOUS
  <2>1. k + 1 \in 1 .. Len(s) /\ (k + 1) - 1 = k
    BY DEF IsSequence
  <2>2. t[k] \in I[k]
    BY <1>3, <2>1
  <2>3. t[k + 1] = Op(p, t[k], s[k + 1])
    BY <1>1, <2>1 DEF Trace
  <2> QED
    BY <2>1, <2>2, <2>3
<1>4. Len(s) \in J
  <2> HIDE DEF J
  <2> QED
    BY <1>2, <1>3, Induction DEF IsSequence
<1> QED
  BY <1>1, <1>4 DEF IsSequence

\* Nothing to fold.
LEMMA FoldEmpty ==
  ASSUME NEW p, NEW base
  PROVE  Fold(p, base, << >>) = base
<1>1. IsSequence(<< >>) /\ Len(<< >>) = 0
  BY DEF IsSequence
<1> QED
  BY <1>1, FoldTrace DEF Trace, IsSequence

\* An element more.
LEMMA FoldAppend ==
  ASSUME NEW p, NEW base, NEW s, IsSequence(s), NEW u, IsSequence(u),
         Len(u) = Len(s) + 1, \A k \in 1 .. Len(s) : u[k] = s[k]
  PROVE  Fold(p, base, u) = Op(p, Fold(p, base, s), u[Len(u)])
<1>1. PICK t : Trace(t, p, base, s) /\ Fold(p, base, s) = t[Len(s)]
  BY FoldTrace DEF IsSequence
<1>2. PICK v : Trace(v, p, base, u) /\ Fold(p, base, u) = v[Len(u)]
  BY FoldTrace DEF IsSequence
<1> DEFINE J == {k \in Nat : k <= Len(s) => t[k] = v[k]}
<1>3. 0 \in J
  BY <1>1, <1>2 DEF Trace
<1>4. ASSUME NEW k \in Nat, k \in J PROVE k + 1 \in J
  <2> SUFFICES ASSUME k + 1 <= Len(s) PROVE t[k + 1] = v[k + 1]
    OBVIOUS
  <2>1. k + 1 \in 1 .. Len(s) /\ (k + 1) - 1 = k /\ k + 1 \in 1 .. Len(u)
    BY DEF IsSequence
  <2>2. t[k] = v[k]
    BY <1>4, <2>1
  <2>3. t[k + 1] = Op(p, t[k], s[k + 1]) /\ v[k + 1] = Op(p, v[k], u[k + 1])
    BY <1>1, <1>2, <2>1 DEF Trace
  <2> QED
    BY <2>1, <2>2, <2>3
<1>5. Len(s) \in J
  <2> HIDE DEF J
  <2> QED
    BY <1>3, <1>4, Induction DEF IsSequence
<1>6. Len(u) \in 1 .. Len(u) /\ Len(u) - 1 = Len(s)
  BY DEF IsSequence
<1>7. v[Len(u)] = Op(p, v[Len(s)], u[Len(u)])
  BY <1>2, <1>6 DEF Trace
<1> QED
  BY <1>1, <1>2, <1>5, <1>7 DEF IsSequence

-----------------------------------------------------------------------------
(* FlattenSeq, which is a recursive function of its own                    *)

Joins(g, ss, m) ==
  g = [k \in 1 .. m |-> IF k = 1 THEN ss[k] ELSE g[k - 1] \o ss[k]]

\* That function exists.
LEMMA Joinable ==
  ASSUME NEW ss, NEW n \in Nat
  PROVE  \E g : Joins(g, ss, n)
<1> DEFINE D == {m \in Nat : \E g : Joins(g, ss, m)}
<1>1. 0 \in D
  <2>1. Joins([k \in {} |-> 0], ss, 0)
    BY DEF Joins
  <2> QED
    BY <2>1
<1>2. ASSUME NEW m \in Nat, m \in D PROVE m + 1 \in D
  <2>1. PICK f : Joins(f, ss, m)
    BY <1>2
  <2> DEFINE g == [k \in 1 .. m + 1 |->
                     IF k <= m THEN f[k]
                     ELSE IF k = 1 THEN ss[k] ELSE f[k - 1] \o ss[k]]
  <2>2. ASSUME NEW k \in 1 .. m + 1
        PROVE  g[k] = IF k = 1 THEN ss[k] ELSE g[k - 1] \o ss[k]
    <3>1. k # 1 => k - 1 \in 1 .. m /\ k - 1 \in 1 .. m + 1
      OBVIOUS
    <3>2. k # 1 => g[k - 1] = f[k - 1]
      BY <3>1
    <3>3. CASE k <= m
      <4>1. k \in 1 .. m
        BY <3>3
      <4>2. f[k] = IF k = 1 THEN ss[k] ELSE f[k - 1] \o ss[k]
        BY <2>1, <4>1 DEF Joins
      <4> QED
        BY <3>2, <3>3, <4>2
    <3>4. CASE ~(k <= m)
      BY <3>2, <3>4
    <3> QED
      BY <3>3, <3>4
  <2>3. g = [k \in 1 .. m + 1 |-> g[k]]
    OBVIOUS
  <2> HIDE DEF g
  <2>4. Joins(g, ss, m + 1)
    BY <2>2, <2>3 DEF Joins
  <2> QED
    BY <2>4
<1>3. Nat \subseteq D
  <2> HIDE DEF D
  <2> QED
    BY <1>1, <1>2, Induction
<1> QED
  BY <1>3

\* A sequence more; the sequences so far are not changed by what follows.
LEMMA FlattenTrace ==
  ASSUME NEW ss, IsSequence(ss), Len(ss) > 0
  PROVE  \E t : /\ t[1] = ss[1]
                /\ \A k \in 2 .. Len(ss) : t[k] = t[k - 1] \o ss[k]
                /\ FlattenSeq(ss) = t[Len(ss)]
<1> DEFINE n == Len(ss)
           t == CHOOSE g : Joins(g, ss, n)
<1>1. Joins(t, ss, n)
  BY Joinable DEF IsSequence
<1>2. FlattenSeq(ss) = t[n]
  BY DEF FlattenSeq, Joins, IsSequence
<1> HIDE DEF t
<1>3. \A k \in 1 .. n : t[k] = IF k = 1 THEN ss[k] ELSE t[k - 1] \o ss[k]
  BY <1>1 DEF Joins
<1>4. 1 \in 1 .. n /\ \A k \in 2 .. n : k \in 1 .. n /\ k # 1
  BY DEF IsSequence
<1>5. t[1] = ss[1] /\ \A k \in 2 .. n : t[k] = t[k - 1] \o ss[k]
  BY <1>3, <1>4
<1> QED
  BY <1>2, <1>5

\* The elements of a sequence and of another behind it.
LEMMA JoinedElements ==
  ASSUME NEW S, NEW s \in Seq(S), NEW u \in Seq(S)
  PROVE  s \o u \in Seq(S) /\ ToSet(s \o u) = ToSet(s) \cup ToSet(u)
<1>1. s \o u \in Seq(S) /\ Len(s \o u) = Len(s) + Len(u)
  OBVIOUS
<1>2. \A k \in 1 .. Len(s) : (s \o u)[k] = s[k]
  OBVIOUS
<1>3. \A k \in 1 .. Len(u) : (s \o u)[Len(s) + k] = u[k] /\ Len(s) + k \in 1 .. Len(s \o u)
  OBVIOUS
<1>4. \A k \in 1 .. Len(s \o u) :
        \/ k \in 1 .. Len(s)
        \/ k - Len(s) \in 1 .. Len(u) /\ Len(s) + (k - Len(s)) = k
  BY <1>1
<1>5. \A k \in 1 .. Len(s \o u) : (s \o u)[k] \in ToSet(s) \cup ToSet(u)
  BY <1>2, <1>3, <1>4 DEF ToSet
<1>0. DOMAIN s = 1 .. Len(s) /\ DOMAIN u = 1 .. Len(u) /\ DOMAIN (s \o u) = 1 .. Len(s \o u)
  BY <1>1
<1>6. ToSet(s) \subseteq ToSet(s \o u)
  <2>1. \A k \in 1 .. Len(s) : k \in 1 .. Len(s \o u)
    BY <1>1
  <2> QED
    BY <1>0, <1>2, <2>1, Zenon DEF ToSet
<1>7. ToSet(u) \subseteq ToSet(s \o u)
  BY <1>0, <1>3, Zenon DEF ToSet
<1>8. ToSet(s \o u) \subseteq ToSet(s) \cup ToSet(u)
  BY <1>0, <1>5, Zenon DEF ToSet
<1> QED
  BY <1>1, <1>6, <1>7, <1>8

\* What is joined has the elements of all the sequences, and no others.
LEMMA FlattenElements ==
  ASSUME NEW S, NEW ss \in Seq(Seq(S))
  PROVE  /\ FlattenSeq(ss) \in Seq(S)
         /\ ToSet(FlattenSeq(ss)) = UNION {ToSet(ss[k]) : k \in DOMAIN ss}
<1>1. CASE Len(ss) = 0
  BY <1>1 DEF FlattenSeq, ToSet
<1>2. CASE Len(ss) > 0
  <2>1. PICK t : /\ t[1] = ss[1]
                 /\ \A k \in 2 .. Len(ss) : t[k] = t[k - 1] \o ss[k]
                 /\ FlattenSeq(ss) = t[Len(ss)]
    <3>1. IsSequence(ss)
      BY DEF IsSequence
    <3> QED
      BY <1>2, <3>1, FlattenTrace
  <2> DEFINE J == {k \in Nat : k + 1 <= Len(ss) =>
                     /\ t[k + 1] \in Seq(S)
                     /\ ToSet(t[k + 1]) = UNION {ToSet(ss[j]) : j \in 1 .. k + 1}}
  <2>2. 0 \in J
    <3>1. t[1] \in Seq(S)
      BY <1>2, <2>1
    <3>2. 1 .. 1 = {1}
      OBVIOUS
    <3>3. UNION {ToSet(ss[j]) : j \in 1 .. 1} = ToSet(ss[1])
      BY <3>2
    <3> QED
      BY <2>1, <3>1, <3>3
  <2>3. ASSUME NEW k \in Nat, k \in J PROVE k + 1 \in J
    <3> SUFFICES ASSUME (k + 1) + 1 <= Len(ss)
                 PROVE  /\ t[(k + 1) + 1] \in Seq(S)
                        /\ ToSet(t[(k + 1) + 1]) = UNION {ToSet(ss[j]) : j \in 1 .. (k + 1) + 1}
      OBVIOUS
    <3>1. (k + 1) + 1 \in 2 .. Len(ss) /\ ((k + 1) + 1) - 1 = k + 1
      OBVIOUS
    <3>2. t[(k + 1) + 1] = t[k + 1] \o ss[(k + 1) + 1]
      BY <2>1, <3>1
    <3>3. /\ t[k + 1] \in Seq(S)
          /\ ToSet(t[k + 1]) = UNION {ToSet(ss[j]) : j \in 1 .. k + 1}
      BY <2>3, <3>1
    <3>4. ss[(k + 1) + 1] \in Seq(S)
      BY <3>1
    <3>5. 1 .. (k + 1) + 1 = (1 .. k + 1) \cup {(k + 1) + 1}
      OBVIOUS
    <3>6. UNION {ToSet(ss[j]) : j \in 1 .. (k + 1) + 1} =
            (UNION {ToSet(ss[j]) : j \in 1 .. k + 1}) \cup ToSet(ss[(k + 1) + 1])
      <4> DEFINE E(j) == ToSet(ss[j])
      <4>1. ASSUME NEW A, NEW x
            PROVE  UNION {E(j) : j \in A \cup {x}} = (UNION {E(j) : j \in A}) \cup E(x)
        <5> HIDE DEF E
        <5>1. \A y : y \in UNION {E(j) : j \in A \cup {x}} <=>
                       y \in (UNION {E(j) : j \in A}) \/ y \in E(x)
          OBVIOUS
        <5> QED
          BY <5>1
      <4> QED
        BY <3>5, <4>1
    <3>7. /\ t[k + 1] \o ss[(k + 1) + 1] \in Seq(S)
          /\ ToSet(t[k + 1] \o ss[(k + 1) + 1]) = ToSet(t[k + 1]) \cup ToSet(ss[(k + 1) + 1])
      BY <3>3, <3>4, JoinedElements
    <3> QED
      BY <3>2, <3>3, <3>6, <3>7, Zenon
  <2>4. Len(ss) - 1 \in J
    <3>1. Len(ss) - 1 \in Nat
      BY <1>2
    <3> HIDE DEF J
    <3> QED
      BY <2>2, <2>3, <3>1, Induction
  <2>5. (Len(ss) - 1) + 1 = Len(ss) /\ DOMAIN ss = 1 .. Len(ss)
    OBVIOUS
  <2> QED
    BY <2>1, <2>4, <2>5
<1> QED
  BY <1>1, <1>2

\* Of no sequences there is nothing; one more is joined at the end.
LEMMA FlattenAppend ==
  ASSUME NEW S, NEW ss \in Seq(Seq(S)), NEW x \in Seq(S)
  PROVE  FlattenSeq(Append(ss, x)) = FlattenSeq(ss) \o x
<1> DEFINE u == Append(ss, x)
<1>1. /\ Len(u) = Len(ss) + 1 /\ u[Len(u)] = x
      /\ \A k \in 1 .. Len(ss) : u[k] = ss[k]
      /\ IsSequence(u) /\ IsSequence(ss) /\ Len(u) > 0
  BY DEF IsSequence
<1> HIDE DEF u
<1>2. PICK v : /\ v[1] = u[1]
               /\ \A k \in 2 .. Len(u) : v[k] = v[k - 1] \o u[k]
               /\ FlattenSeq(u) = v[Len(u)]
  BY <1>1, FlattenTrace
<1>3. CASE Len(ss) = 0
  <2>1. FlattenSeq(ss) = << >>
    BY <1>3 DEF FlattenSeq
  <2>2. FlattenSeq(u) = x
    BY <1>1, <1>2, <1>3
  <2>3. << >> \o x = x
    OBVIOUS
  <2> QED
    BY <2>1, <2>2, <2>3 DEF u
<1>4. CASE Len(ss) # 0
  <2>0. Len(ss) > 0
    BY <1>4
  <2>1. PICK t : /\ t[1] = ss[1]
                 /\ \A k \in 2 .. Len(ss) : t[k] = t[k - 1] \o ss[k]
                 /\ FlattenSeq(ss) = t[Len(ss)]
    BY <1>1, <2>0, FlattenTrace
  <2> DEFINE J == {k \in Nat : k + 1 <= Len(ss) => t[k + 1] = v[k + 1]}
  <2>2. 0 \in J
    <3>1. 1 \in 1 .. Len(ss)
      BY <2>0
    <3> QED
      BY <1>1, <1>2, <2>1, <3>1
  <2>3. ASSUME NEW k \in Nat, k \in J PROVE k + 1 \in J
    <3> SUFFICES ASSUME (k + 1) + 1 <= Len(ss) PROVE t[(k + 1) + 1] = v[(k + 1) + 1]
      OBVIOUS
    <3>1. /\ (k + 1) + 1 \in 2 .. Len(ss) /\ (k + 1) + 1 \in 2 .. Len(u)
          /\ (k + 1) + 1 \in 1 .. Len(ss) /\ ((k + 1) + 1) - 1 = k + 1
      BY <1>1
    <3>2. t[k + 1] = v[k + 1]
      BY <2>3
    <3> QED
      BY <1>1, <1>2, <2>1, <3>1, <3>2
  <2>4. Len(ss) - 1 \in J
    <3>1. Len(ss) - 1 \in Nat
      BY <2>0
    <3> HIDE DEF J
    <3> QED
      BY <2>2, <2>3, <3>1, Induction
  <2>5. (Len(ss) - 1) + 1 = Len(ss)
    OBVIOUS
  <2>6. t[Len(ss)] = v[Len(ss)]
    BY <2>4, <2>5
  <2>7. Len(u) \in 2 .. Len(u) /\ Len(u) - 1 = Len(ss)
    BY <1>1, <2>0
  <2>8. v[Len(u)] = v[Len(ss)] \o x
    BY <1>1, <1>2, <2>7
  <2> QED
    BY <1>2, <2>1, <2>6, <2>8 DEF u
<1> QED
  BY <1>3, <1>4

\* The same for the beginnings of a sequence of sequences.
LEMMA FlattenUpTo ==
  ASSUME NEW S, NEW n \in Nat, NEW f, \A k \in 1 .. n + 1 : f[k] \in Seq(S)
  PROVE  /\ FlattenSeq([k \in 1 .. n |-> f[k]]) \in Seq(S)
         /\ FlattenSeq([k \in 1 .. n + 1 |-> f[k]]) =
              FlattenSeq([k \in 1 .. n |-> f[k]]) \o f[n + 1]
<1> DEFINE ss == [k \in 1 .. n |-> f[k]]
           u == [k \in 1 .. n + 1 |-> f[k]]
<1>1. ss \in Seq(Seq(S)) /\ f[n + 1] \in Seq(S)
  OBVIOUS
<1>2. u = Append(ss, f[n + 1])
  <2>1. u \in Seq(Seq(S)) /\ Len(u) = n + 1 /\ Len(ss) = n
    OBVIOUS
  <2>2. Append(ss, f[n + 1]) \in Seq(Seq(S)) /\ Len(Append(ss, f[n + 1])) = n + 1
    BY <1>1, <2>1
  <2>3. \A k \in 1 .. n + 1 : u[k] = Append(ss, f[n + 1])[k]
    OBVIOUS
  <2> HIDE DEF u, ss
  <2> QED
    BY <2>1, <2>2, <2>3
<1> HIDE DEF u, ss
<1>3. FlattenSeq(Append(ss, f[n + 1])) = FlattenSeq(ss) \o f[n + 1]
  BY <1>1, FlattenAppend
<1>4. FlattenSeq(ss) \in Seq(S)
  BY <1>1, FlattenElements
<1> QED
  BY <1>2, <1>3, <1>4 DEF u, ss
=============================================================================
