---------------------------- MODULE ExtractProofs ----------------------------
(***************************************************************************)
(* Proofs about functionInformation and the program around it, for every   *)
(* database that keeps the foreign keys and any number of failing calls:   *)
(* what the answer holds when something failed and when nothing did, that  *)
(* the second generation of the library does what the first one does, and  *)
(* that what the program does with the answer follows from the rows.       *)
(***************************************************************************)
EXTENDS Client, TLAPS

Selecting == INSTANCE Folding WITH
               Op <- LAMBDA p, x, y : IF y[p[1]] = p[2] THEN Append(x, y) ELSE x
Listing == INSTANCE Folding WITH Op <- LAMBDA p, x, y : TakeArgument(x, y)
Gathering == INSTANCE Folding WITH Op <- LAMBDA p, x, y : TakeValue(x, y)

\* The calls of SQLite that are made over an open connection.
Connected == {"check", "function", "arguments", "select"}

\* The connection is a matter of the place in the code, and each one that could
\* not be opened was a failed call.
ConnectionInv ==
  /\ pc \in Connected \cup {"open", "copy", "base", "disclose", "members", "returned"}
  /\ handles = IF pc \in Connected THEN 1 ELSE 0
  /\ faults \in Nat /\ unclosed \in Nat /\ unclosed <= faults

\* A query that fails costs a fault, one that does not costs none.
LEMMA ExecFaults ==
  ASSUME NEW rows, NEW got \in Exec(rows)
  PROVE  got.failed \in {0, 1}
BY DEF Exec

\* A step of extract_from_db, through whichever of its returns.
LEMMA ExtractFromDbConnection ==
  ASSUME ConnectionInv, ExtractFromDb
  PROVE  ConnectionInv'
<1>1. CASE OpenDatabase
  BY <1>1 DEF ConnectionInv, OpenDatabase, Goto, Connected
<1>2. CASE OpenDatabaseFails
  BY <1>2 DEF ConnectionInv, OpenDatabaseFails, Goto, Connected
<1>3. CASE CheckName
  BY <1>3 DEF ConnectionInv, CheckName, Goto, Connected
<1>4. CASE SelectFunction
  <2>1. PICK got \in Exec(FunctionsNamed(name)) : faults' = faults + got.failed
    BY <1>4 DEF SelectFunction
  <2> QED
    BY <1>4, <2>1, ExecFaults DEF ConnectionInv, SelectFunction, Goto, Connected
<1>5. CASE SelectArguments
  <2>1. PICK got \in Exec(ArgumentRows(name)) : faults' = faults + got.failed
    BY <1>5 DEF SelectArguments
  <2> QED
    BY <1>5, <2>1, ExecFaults DEF ConnectionInv, SelectArguments, Goto, Connected
<1> QED
  BY <1>1, <1>2, <1>3, <1>4, <1>5 DEF ExtractFromDb

\* A step of typeDisclosure: whatever the kind of the type, and whether or not
\* there is a query for it, the connection is closed.
LEMMA TypeDisclosureConnection ==
  ASSUME NEW a, ConnectionInv, TypeDisclosure(a)
  PROVE  ConnectionInv'
<1>1. CASE OpenType
  BY <1>1 DEF ConnectionInv, OpenType, Goto, Connected
<1>2. CASE OpenTypeFails
  BY <1>2 DEF ConnectionInv, OpenTypeFails, Goto, Connected
<1>3. CASE SelectMembers(a)
  <2>1. /\ faults' \in {faults, faults + 1}
    BY <1>3, ExecFaults DEF SelectMembers, ConnectionInv
  <2> QED
    BY <1>3, <2>1 DEF ConnectionInv, SelectMembers, Goto, Connected
<1> QED
  BY <1>1, <1>2, <1>3 DEF TypeDisclosure

\* A tree that typeInformation returns has cost a fault for each of its flaws.
LEMMA FlawsNatural ==
  ASSUME NEW n, ConnectionInv, NEW tree \in TypeInformation(n)
  PROVE  tree.flaws \in Nat
BY BoundAssumption DEF TypeInformation, ConnectionInv

\* Every step of the call keeps the balance.
LEMMA ConnectionNext == ConnectionInv /\ [Next]_vars => ConnectionInv'
<1> SUFFICES ASSUME ConnectionInv, [Next]_vars PROVE ConnectionInv'
  OBVIOUS
<1>1. CASE ExtractFromDb
  BY <1>1, ExtractFromDbConnection
<1>2. CASE Disclose
  BY <1>2, TypeDisclosureConnection DEF Disclose
<1>3. CASE CopyFunction
  BY <1>3 DEF ConnectionInv, CopyFunction, Goto, Connected
<1>4. CASE CopyArgument
  <2>1. faults' \in Nat /\ faults' >= faults
    <3>1. CASE UNCHANGED faults
      BY <3>1 DEF ConnectionInv
    <3>2. ASSUME NEW n, NEW tree \in TypeInformation(n), faults' = faults + tree.flaws
          PROVE  faults' \in Nat /\ faults' >= faults
      BY <3>2, FlawsNatural DEF ConnectionInv
    <3> QED
      BY <1>4, <3>1, <3>2 DEF CopyArgument
  <2>2. pc = "base" /\ pc' = "disclose" /\ UNCHANGED <<handles, unclosed>>
    BY <1>4 DEF CopyArgument, Goto
  <2> QED
    BY <2>1, <2>2 DEF ConnectionInv, Connected
<1>5. CASE CopyField
  <2>1. PICK n, tree :
          tree \in TypeInformation(n) /\ faults' = faults + tree.flaws
    BY <1>5 DEF CopyField
  <2>2. faults' \in Nat /\ faults' >= faults
    BY <2>1, FlawsNatural DEF ConnectionInv
  <2> QED
    BY <1>5, <2>2 DEF ConnectionInv, CopyField, Connected
<1>6. CASE PushArgument
  BY <1>6 DEF ConnectionInv, PushArgument, Goto, Connected
<1>7. CASE Return
  BY <1>7 DEF ConnectionInv, Return, Goto, Connected
<1>8. CASE UNCHANGED vars
  BY <1>8 DEF ConnectionInv, vars
<1> QED
  BY <1>1, <1>2, <1>3, <1>4, <1>5, <1>6, <1>7, <1>8 DEF Next, Step

-----------------------------------------------------------------------------
\* The three folds of the queries.
LEMMA WhereFolds ==
  ASSUME NEW rows, NEW column, NEW value
  PROVE  Where(rows, column, value) = Selecting!Fold(<<column, value>>, << >>, rows)
BY DEF Where, Selecting!Fold, Selecting!FoldLeft, FoldLeft,
       Selecting!MapThenFoldSet, MapThenFoldSet, Selecting!Max, Max

LEMMA ArgumentsFold ==
  ASSUME NEW rows
  PROVE  FoldLeft(TakeArgument, << >>, rows) = Listing!Fold(0, << >>, rows)
BY DEF Listing!Fold, Listing!FoldLeft, FoldLeft, Listing!MapThenFoldSet,
       MapThenFoldSet, Listing!Max, Max

LEMMA ValuesFold ==
  ASSUME NEW rows
  PROVE  FoldLeft(TakeValue, << >>, rows) = Gathering!Fold(0, << >>, rows)
BY DEF Gathering!Fold, Gathering!FoldLeft, FoldLeft, Gathering!MapThenFoldSet,
       MapThenFoldSet, Gathering!Max, Max

\* A sequence and its elements, one more.
LEMMA OneMore ==
  ASSUME NEW S, NEW s \in Seq(S), NEW e \in S
  PROVE  /\ Append(s, e) \in Seq(S)
         /\ ToSet(Append(s, e)) = ToSet(s) \cup {e}
<1>1. /\ Append(s, e) \in Seq(S) /\ Len(Append(s, e)) = Len(s) + 1
      /\ \A k \in 1 .. Len(s) : Append(s, e)[k] = s[k]
      /\ Append(s, e)[Len(s) + 1] = e
      /\ 1 .. Len(s) + 1 = (1 .. Len(s)) \cup {Len(s) + 1}
  OBVIOUS
<1>2. DOMAIN s = 1 .. Len(s) /\ DOMAIN Append(s, e) = (1 .. Len(s)) \cup {Len(s) + 1}
  BY <1>1
<1>3. \A x : (\E k \in DOMAIN Append(s, e) : x = Append(s, e)[k]) <=>
               (\E k \in DOMAIN s : x = s[k]) \/ x = e
  BY <1>1, <1>2, Zenon
<1> QED
  BY <1>1, <1>3 DEF ToSet

\* The elements up to a place, when it moves on.
LEMMA UpTo ==
  ASSUME NEW s, NEW k \in Nat \ {0}
  PROVE  {s[j] : j \in 1 .. k} = {s[j] : j \in 1 .. k - 1} \cup {s[k]}
<1>1. 1 .. k = (1 .. k - 1) \cup {k}
  OBVIOUS
<1> QED
  BY <1>1

\* What a WHERE selects: the rows that have the value, and no others.
LEMMA WhereSelects ==
  ASSUME NEW S, NEW rows \in Seq(S), NEW column, NEW value
  PROVE  /\ Where(rows, column, value) \in Seq(S)
         /\ ToSet(Where(rows, column, value)) = {r \in ToSet(rows) : r[column] = value}
<1> DEFINE p == <<column, value>>
           I == [k \in 0 .. Len(rows) |->
                  {x \in Seq(S) : ToSet(x) =
                     {r \in {rows[j] : j \in 1 .. k} : r[column] = value}}]
<1>1. Selecting!IsSequence(rows)
  BY DEF Selecting!IsSequence
<1>2. << >> \in I[0]
  <2>1. 1 .. 0 = {} /\ ToSet(<< >>) = {}
    BY DEF ToSet
  <2> QED
    BY <2>1
<1>3. ASSUME NEW k \in 1 .. Len(rows), NEW x \in I[k - 1]
      PROVE  (IF rows[k][column] = value THEN Append(x, rows[k]) ELSE x) \in I[k]
  <2>1. k - 1 \in 0 .. Len(rows) /\ k \in 0 .. Len(rows) /\ k \in Nat \ {0}
    OBVIOUS
  <2>2. x \in Seq(S) /\ ToSet(x) = {r \in {rows[j] : j \in 1 .. k - 1} : r[column] = value}
    BY <2>1
  <2>3. {rows[j] : j \in 1 .. k} = {rows[j] : j \in 1 .. k - 1} \cup {rows[k]}
    BY <2>1, UpTo
  <2>4. rows[k] \in S
    OBVIOUS
  <2>5. CASE rows[k][column] = value
    <3>1. Append(x, rows[k]) \in Seq(S) /\ ToSet(Append(x, rows[k])) = ToSet(x) \cup {rows[k]}
      BY <2>2, <2>4, OneMore
    <3>2. ToSet(Append(x, rows[k])) = {r \in {rows[j] : j \in 1 .. k} : r[column] = value}
      BY <2>2, <2>3, <2>5, <3>1
    <3> QED
      BY <2>1, <2>5, <3>1, <3>2
  <2>6. CASE rows[k][column] # value
    <3>1. ToSet(x) = {r \in {rows[j] : j \in 1 .. k} : r[column] = value}
      BY <2>2, <2>3, <2>6
    <3> QED
      BY <2>1, <2>2, <2>6, <3>1
  <2> QED
    BY <2>5, <2>6
<1>4. Selecting!Fold(p, << >>, rows) \in I[Len(rows)]
  <2> HIDE DEF I
  <2>1. \A k \in 1 .. Len(rows) : \A x \in I[k - 1] :
          (IF rows[k][p[1]] = p[2] THEN Append(x, rows[k]) ELSE x) \in I[k]
    BY <1>3
  <2> HIDE DEF p
  <2> QED
    BY <1>1, <1>2, <2>1, Selecting!FoldInduction
<1>5. {rows[j] : j \in 1 .. Len(rows)} = ToSet(rows)
  BY DEF ToSet
<1> QED
  BY <1>4, <1>5, WhereFolds

-----------------------------------------------------------------------------
(* The lists of arguments                                                  *)

InOrder(list) ==
  \A k \in DOMAIN list : \A m \in 1 .. k : list[m].order <= list[k].order

\* t is s with e at the place i.
IsInsertion(t, s, i, e) ==
  /\ Len(t) = Len(s) + 1
  /\ \A k \in 1 .. i - 1 : t[k] = s[k]
  /\ t[i] = e
  /\ \A k \in i + 1 .. Len(s) + 1 : t[k] = s[k - 1]

\* An element more, before the place that is given.
LEMMA Inserted ==
  ASSUME NEW S, NEW s \in Seq(S), NEW i \in 1 .. Len(s) + 1, NEW e \in S,
         NEW t, t = InsertAt(s, i, e)
  PROVE  t \in Seq(S) /\ IsInsertion(t, s, i, e)
<1> DEFINE a == SubSeq(s, 1, i - 1)
           b == SubSeq(s, i, Len(s))
<1>1. /\ a \in Seq(S) /\ Len(a) = i - 1 /\ \A k \in 1 .. i - 1 : a[k] = s[k]
  OBVIOUS
<1>2. /\ b \in Seq(S) /\ Len(b) = Len(s) - i + 1
      /\ \A k \in 1 .. Len(b) : b[k] = s[k + i - 1]
  OBVIOUS
<1> HIDE DEF a, b
<1>3. /\ a \o <<e>> \in Seq(S) /\ Len(a \o <<e>>) = i
      /\ \A k \in 1 .. i - 1 : (a \o <<e>>)[k] = s[k]
      /\ (a \o <<e>>)[i] = e
  BY <1>1
<1> DEFINE c == a \o <<e>>
<1> HIDE DEF c
<1>7. Len(c) = i /\ c \in Seq(S)
  BY <1>3 DEF c
<1>4. /\ c \o b \in Seq(S) /\ Len(c \o b) = Len(s) + 1
      /\ \A k \in 1 .. i : (c \o b)[k] = c[k]
      /\ \A k \in i + 1 .. Len(s) + 1 : (c \o b)[k] = b[k - i]
  BY <1>2, <1>7
<1>5. \A k \in i + 1 .. Len(s) + 1 : b[k - i] = s[k - 1]
  <2> SUFFICES ASSUME NEW k \in i + 1 .. Len(s) + 1 PROVE b[k - i] = s[k - 1]
    OBVIOUS
  <2>1. k - i \in 1 .. Len(b) /\ (k - i) + i - 1 = k - 1
    BY <1>2
  <2> QED
    BY <1>2, <2>1
<1>6. t = c \o b
  BY DEF InsertAt, a, b, c
<1>8. /\ \A k \in 1 .. i - 1 : k \in 1 .. i /\ c[k] = s[k]
      /\ i \in 1 .. i /\ c[i] = e
  BY <1>3 DEF c
<1> QED
  BY <1>4, <1>5, <1>6, <1>8 DEF IsInsertion

\* ARG_callback and SetCallback keep the list without repetitions and in order,
\* and add the row to it unless it has no place.
LEMMA TakenInOrder ==
  ASSUME NEW S, \A x \in S : x.order \in Int,
         NEW list \in Seq(S), IsInjective(list), InOrder(list), NEW a \in S
  PROVE  /\ TakeArgument(list, a) \in Seq(S)
         /\ IsInjective(TakeArgument(list, a)) /\ InOrder(TakeArgument(list, a))
         /\ ToSet(TakeArgument(list, a)) =
              ToSet(list) \cup (IF a.order = -1 THEN {} ELSE {a})
<1>1. CASE a \in ToSet(list) \/ a.order = -1
  BY <1>1 DEF TakeArgument
<1>2. CASE ~(a \in ToSet(list) \/ a.order = -1)
  <2> DEFINE n == Len(list)
             P == {k \in DOMAIN list : list[k].order <= a.order} \cup {0}
             i == Max(P) + 1
             t == InsertAt(list, i, a)
  <2>1. TakeArgument(list, a) = t
    BY <1>2 DEF TakeArgument
  <2>2. DOMAIN list = 1 .. n /\ n \in Nat
    OBVIOUS
  <2>3. /\ i \in 1 .. n + 1
        /\ i - 1 \in P
        /\ \A k \in P : k <= i - 1
    <3> DEFINE Q == {n + 1 - k : k \in P}
    <3>1. P \in SUBSET (0 .. n) /\ P # {}
      BY <2>2
    <3> HIDE DEF P
    <3>2. \E m \in P : \A k \in P : m >= k
      <4>1. Q \subseteq Nat /\ Q # {}
        BY <2>2, <3>1
      <4>2. PICK x \in Q : \A y \in Q : x <= y
        BY <4>1, Listing!Least
      <4>3. PICK m \in P : x = n + 1 - m
        OBVIOUS
      <4>4. \A k \in P : m >= k
        <5> SUFFICES ASSUME NEW k \in P PROVE m >= k
          OBVIOUS
        <5>1. n + 1 - k \in Q
          OBVIOUS
        <5>2. n + 1 - m <= n + 1 - k
          BY <4>2, <4>3, <5>1
        <5>3. k \in Nat /\ m \in Nat
          BY <2>2, <3>1
        <5> QED
          BY <2>2, <5>2, <5>3
      <4> QED
        BY <4>4
    <3>3. Max(P) \in P /\ \A k \in P : Max(P) >= k
      BY <3>2 DEF Max
    <3>4. Max(P) \in 0 .. n
      BY <3>1, <3>3
    <3>5. i - 1 = Max(P) /\ i \in 1 .. n + 1
      BY <2>2, <3>4
    <3>6. \A k \in P : k \in Int /\ k <= Max(P)
      BY <3>1, <3>3, <3>4
    <3> QED
      BY <3>3, <3>5, <3>6
  <2> HIDE DEF i
  <2>4. \A k \in 1 .. n : list[k].order \in Int /\ a.order \in Int
    OBVIOUS
  <2>5. \A k \in 1 .. i - 1 : list[k].order <= a.order
    <3> SUFFICES ASSUME NEW k \in 1 .. i - 1 PROVE list[k].order <= a.order
      OBVIOUS
    <3>1. i - 1 \in DOMAIN list /\ list[i - 1].order <= a.order
      BY <2>2, <2>3
    <3>2. list[k].order <= list[i - 1].order
      BY <3>1 DEF InOrder
    <3> QED
      BY <2>2, <2>3, <2>4, <3>1, <3>2
  <2>6. \A k \in i .. n : list[k].order > a.order
    <3> SUFFICES ASSUME NEW k \in i .. n, ~(list[k].order > a.order) PROVE FALSE
      OBVIOUS
    <3>1. k \in P
      BY <2>2, <2>3, <2>4
    <3> QED
      BY <2>2, <2>3, <3>1
  <2>7. /\ t \in Seq(S) /\ Len(t) = n + 1
        /\ \A k \in 1 .. i - 1 : t[k] = list[k]
        /\ t[i] = a
        /\ \A k \in i + 1 .. n + 1 : t[k] = list[k - 1]
    <3> HIDE DEF P
    <3>1. i \in 1 .. Len(list) + 1
      BY <2>3
    <3>2. t = InsertAt(list, i, a)
      OBVIOUS
    <3> HIDE DEF n, t
    <3>3. t \in Seq(S) /\ IsInsertion(t, list, i, a)
      BY <3>1, <3>2, Inserted
    <3> QED
      BY <3>3 DEF IsInsertion, n
  <2> HIDE DEF t, P
  <2>8. DOMAIN t = 1 .. n + 1
    BY <2>7
  \* where an element of the new list was in the old one
  <2> DEFINE was(k) == IF k < i THEN k ELSE k - 1
  <2>9. \A k \in (1 .. n + 1) \ {i} : was(k) \in 1 .. n /\ t[k] = list[was(k)]
    BY <2>2, <2>3, <2>7
  <2>10. InOrder(t)
    <3> SUFFICES ASSUME NEW k \in 1 .. n + 1, NEW m \in 1 .. k
                 PROVE  t[m].order <= t[k].order
      BY <2>8 DEF InOrder
    <3>1. \A x \in 1 .. n : \A y \in 1 .. x : list[y].order <= list[x].order
      BY <2>2 DEF InOrder
    <3>2. CASE k # i /\ m # i
      <4>1. was(k) \in 1 .. n /\ t[k] = list[was(k)] /\ was(m) \in 1 .. was(k) /\ t[m] = list[was(m)]
        BY <2>2, <2>3, <2>9, <3>2
      <4> QED
        BY <3>1, <4>1
    <3>3. CASE k = i /\ m # i
      <4>1. m \in 1 .. i - 1
        BY <2>2, <2>3, <3>3
      <4> QED
        BY <2>5, <2>7, <3>3, <4>1
    <3>4. CASE k # i /\ m = i
      <4>1. k \in i + 1 .. n + 1 /\ k - 1 \in i .. n
        BY <2>2, <2>3, <3>4
      <4>2. list[k - 1].order > a.order /\ k - 1 \in 1 .. n
        BY <2>2, <2>3, <2>6, <4>1
      <4> QED
        BY <2>4, <2>7, <3>4, <4>1, <4>2
    <3>5. CASE k = i /\ m = i
      BY <2>2, <2>4, <2>7, <3>5
    <3> QED
      BY <3>2, <3>3, <3>4, <3>5
  <2>11. \A k \in 1 .. n : list[k] # a
    BY <1>2, <2>2 DEF ToSet
  <2>12. IsInjective(t)
    <3> SUFFICES ASSUME NEW k \in 1 .. n + 1, NEW m \in 1 .. n + 1, t[k] = t[m]
                 PROVE  k = m
      BY <2>8 DEF IsInjective
    <3>1. CASE k # i /\ m # i
      <4>1. was(k) = was(m)
        BY <2>2, <2>9, <3>1 DEF IsInjective
      <4> QED
        BY <2>2, <2>3, <3>1, <4>1
    <3>2. CASE k = i /\ m # i
      <4>1. t[m] # a
        BY <2>9, <2>11, <3>2
      <4> QED
        BY <2>7, <3>2, <4>1
    <3>3. CASE k # i /\ m = i
      <4>1. t[k] # a
        BY <2>9, <2>11, <3>3
      <4> QED
        BY <2>7, <3>3, <4>1
    <3>4. CASE k = i /\ m = i
      BY <3>4
    <3> QED
      BY <3>1, <3>2, <3>3, <3>4
  <2>13. ToSet(t) = ToSet(list) \cup {a}
    <3>1. ASSUME NEW k \in 1 .. n + 1 PROVE t[k] \in ToSet(list) \cup {a}
      BY <2>2, <2>7, <2>9 DEF ToSet
    <3>2. a \in ToSet(t)
      BY <2>3, <2>7, <2>8 DEF ToSet
    <3>3. ASSUME NEW k \in 1 .. n PROVE list[k] \in ToSet(t)
      <4>1. CASE k < i
        <5>1. k \in 1 .. i - 1 /\ k \in 1 .. n + 1
          BY <2>2, <2>3, <4>1
        <5> QED
          BY <2>7, <2>8, <5>1 DEF ToSet
      <4>2. CASE ~(k < i)
        <5>1. k + 1 \in i + 1 .. n + 1 /\ k + 1 \in 1 .. n + 1 /\ (k + 1) - 1 = k
          BY <2>2, <2>3, <4>2
        <5> QED
          BY <2>7, <2>8, <5>1 DEF ToSet
      <4> QED
        BY <4>1, <4>2
    <3> QED
      BY <2>2, <2>8, <3>1, <3>2, <3>3 DEF ToSet
  <2> QED
    BY <1>2, <2>1, <2>7, <2>10, <2>12, <2>13
<1> QED
  BY <1>1, <1>2

\* The list that the callbacks make of the rows they get.
LEMMA ArgumentsTaken ==
  ASSUME NEW S, \A x \in S : x.order \in Int, NEW rows \in Seq(S)
  PROVE  LET found == FoldLeft(TakeArgument, << >>, rows)
         IN  /\ found \in Seq(S) /\ IsInjective(found) /\ InOrder(found)
             /\ ToSet(found) = {a \in ToSet(rows) : a.order # -1}
<1> DEFINE I == [k \in 0 .. Len(rows) |->
                  {x \in Seq(S) : /\ IsInjective(x) /\ InOrder(x)
                                  /\ ToSet(x) = {a \in {rows[j] : j \in 1 .. k} :
                                                   a.order # -1}}]
<1>1. Listing!IsSequence(rows)
  BY DEF Listing!IsSequence
<1>2. << >> \in I[0]
  <2>1. 1 .. 0 = {} /\ ToSet(<< >>) = {} /\ IsInjective(<< >>) /\ InOrder(<< >>)
    BY DEF ToSet, IsInjective, InOrder
  <2> QED
    BY <2>1
<1>3. ASSUME NEW k \in 1 .. Len(rows), NEW x \in I[k - 1]
      PROVE  TakeArgument(x, rows[k]) \in I[k]
  <2>1. k - 1 \in 0 .. Len(rows) /\ k \in 0 .. Len(rows) /\ k \in Nat \ {0}
    OBVIOUS
  <2>2. /\ x \in Seq(S) /\ IsInjective(x) /\ InOrder(x)
        /\ ToSet(x) = {a \in {rows[j] : j \in 1 .. k - 1} : a.order # -1}
    BY <2>1
  <2>3. {rows[j] : j \in 1 .. k} = {rows[j] : j \in 1 .. k - 1} \cup {rows[k]}
    BY <2>1, UpTo
  <2>4. rows[k] \in S
    OBVIOUS
  <2> DEFINE y == TakeArgument(x, rows[k])
  <2>5. /\ y \in Seq(S) /\ IsInjective(y) /\ InOrder(y)
        /\ ToSet(y) = ToSet(x) \cup (IF rows[k].order = -1 THEN {} ELSE {rows[k]})
    <3> DEFINE a == rows[k]
    <3>1. x \in Seq(S) /\ IsInjective(x) /\ InOrder(x) /\ a \in S
      BY <2>2, <2>4
    <3> HIDE DEF I, a
    <3>2. /\ TakeArgument(x, a) \in Seq(S)
          /\ IsInjective(TakeArgument(x, a)) /\ InOrder(TakeArgument(x, a))
          /\ ToSet(TakeArgument(x, a)) =
               ToSet(x) \cup (IF a.order = -1 THEN {} ELSE {a})
      BY <3>1, TakenInOrder
    <3> QED
      BY <3>2 DEF a
  <2> HIDE DEF y
  <2>6. ToSet(y) = {a \in {rows[j] : j \in 1 .. k} : a.order # -1}
    BY <2>2, <2>3, <2>5
  <2>7. y \in I[k]
    BY <2>1, <2>5, <2>6
  <2> QED
    BY <2>7 DEF y
<1>4. Listing!Fold(0, << >>, rows) \in I[Len(rows)]
  <2> HIDE DEF I
  <2> QED
    BY <1>1, <1>2, <1>3, Listing!FoldInduction
<1>5. {rows[j] : j \in 1 .. Len(rows)} = ToSet(rows)
  BY DEF ToSet
<1> QED
  BY <1>4, <1>5, ArgumentsFold

\* Every value once.
LEMMA ValuesTaken ==
  ASSUME NEW S, NEW rows \in Seq(S)
  PROVE  LET found == FoldLeft(TakeValue, << >>, rows)
         IN  found \in Seq(S) /\ IsInjective(found) /\ ToSet(found) = ToSet(rows)
<1> DEFINE I == [k \in 0 .. Len(rows) |->
                  {x \in Seq(S) : IsInjective(x) /\ ToSet(x) = {rows[j] : j \in 1 .. k}}]
<1>1. Gathering!IsSequence(rows)
  BY DEF Gathering!IsSequence
<1>2. << >> \in I[0]
  <2>1. 1 .. 0 = {} /\ ToSet(<< >>) = {} /\ IsInjective(<< >>)
    BY DEF ToSet, IsInjective
  <2> QED
    BY <2>1
<1>3. ASSUME NEW k \in 1 .. Len(rows), NEW x \in I[k - 1]
      PROVE  TakeValue(x, rows[k]) \in I[k]
  <2>1. k - 1 \in 0 .. Len(rows) /\ k \in 0 .. Len(rows) /\ k \in Nat \ {0}
    OBVIOUS
  <2>2. x \in Seq(S) /\ IsInjective(x) /\ ToSet(x) = {rows[j] : j \in 1 .. k - 1}
    BY <2>1
  <2>3. {rows[j] : j \in 1 .. k} = {rows[j] : j \in 1 .. k - 1} \cup {rows[k]}
    BY <2>1, UpTo
  <2>4. rows[k] \in S
    OBVIOUS
  <2>5. CASE rows[k] \in ToSet(x)
    BY <2>1, <2>2, <2>3, <2>5 DEF TakeValue
  <2>6. CASE rows[k] \notin ToSet(x)
    <3> DEFINE y == Append(x, rows[k])
    <3>1. y \in Seq(S) /\ ToSet(y) = ToSet(x) \cup {rows[k]}
      BY <2>2, <2>4, OneMore
    <3>2. IsInjective(y)
      <4>1. /\ DOMAIN y = 1 .. Len(x) + 1 /\ y[Len(x) + 1] = rows[k]
            /\ \A m \in 1 .. Len(x) : y[m] = x[m] /\ x[m] # rows[k] /\ m \in DOMAIN x
        BY <2>2, <2>6 DEF ToSet
      <4> QED
        BY <2>2, <4>1 DEF IsInjective
    <3> HIDE DEF y
    <3>3. y \in I[k]
      BY <2>1, <2>2, <2>3, <3>1, <3>2
    <3> QED
      BY <2>6, <3>3 DEF TakeValue, y
  <2> QED
    BY <2>5, <2>6
<1>4. Gathering!Fold(0, << >>, rows) \in I[Len(rows)]
  <2> HIDE DEF I
  <2> QED
    BY <1>1, <1>2, <1>3, Gathering!FoldInduction
<1>5. {rows[j] : j \in 1 .. Len(rows)} = ToSet(rows)
  BY DEF ToSet
<1> QED
  BY <1>4, <1>5, ValuesFold

\* What a callback is given of the rows, and what a failure costs.
LEMMA ExecRows ==
  ASSUME NEW S, NEW rows \in Seq(S), NEW got \in Exec(rows)
  PROVE  /\ got.rows \in Seq(S) /\ ToSet(got.rows) \subseteq ToSet(rows)
         /\ got.failed \in {0, 1} /\ (got.failed = 1 => faults < MaxFaults)
         /\ got.failed = 0 => got.rows = rows
<1>1. CASE got = [rows |-> rows, failed |-> 0]
  BY <1>1
<1>2. ASSUME NEW k \in 0 .. Len(rows), faults < MaxFaults,
             got = [rows |-> SubSeq(rows, 1, k), failed |-> 1]
      PROVE  /\ got.rows \in Seq(S) /\ ToSet(got.rows) \subseteq ToSet(rows)
             /\ got.failed = 1 /\ faults < MaxFaults
  <2>1. /\ SubSeq(rows, 1, k) \in Seq(S) /\ Len(SubSeq(rows, 1, k)) = k
        /\ \A j \in 1 .. k : SubSeq(rows, 1, k)[j] = rows[j] /\ j \in DOMAIN rows
    OBVIOUS
  <2>2. ToSet(SubSeq(rows, 1, k)) \subseteq ToSet(rows)
    BY <2>1 DEF ToSet
  <2> QED
    BY <1>2, <2>1, <2>2
<1> QED
  BY <1>1, <1>2 DEF Exec

\* A sequence is one of whatever its elements are.
LEMMA SequenceOf ==
  ASSUME NEW S, NEW s \in Seq(S), NEW T, ToSet(s) \subseteq T
  PROVE  s \in Seq(T)
<1>1. \A k \in 1 .. Len(s) : s[k] \in T
  BY DEF ToSet
<1> QED
  BY <1>1

-----------------------------------------------------------------------------
(* What the queries find                                                   *)

\* The argument of a row of the table, whose type the foreign key finds.
LEMMA RowArgument ==
  ASSUME IsDatabase(db), NEW r \in ToSet(db.arguments)
  PROVE  Argument(r.name, r.order, r.type) \in Arguments
<1>1. r \in ArgumentRow /\ r.type \in DOMAIN db.types
  BY DEF IsDatabase, ToSet
<1>2. r.type \in TypeNames /\ db.types[r.type] \in TypeRow
  BY <1>1 DEF IsDatabase
<1> QED
  BY <1>1, <1>2 DEF Argument, Arguments, ArgumentRow, TypeRow

\* The join finds the arguments that the rows give to functions of the name, and
\* a row of NULLs for such a function that has none.
LEMMA ArgumentRowsFound ==
  ASSUME IsDatabase(db), NEW n
  PROVE  /\ ArgumentsNamed(n) \subseteq Arguments
         /\ ArgumentRows(n) \in Seq(Arguments \cup {NoArgument})
         /\ {a \in ToSet(ArgumentRows(n)) : a.order # -1} = ArgumentsNamed(n)
<1> DEFINE own(k) == Where(db.arguments, "func", k)
           of(k) == IF db.functions[k].name # n THEN << >>
                    ELSE IF own(k) = << >> THEN <<NoArgument>>
                    ELSE [m \in DOMAIN own(k) |->
                            Argument(own(k)[m].name, own(k)[m].order, own(k)[m].type)]
           S == Arguments \cup {NoArgument}
           ss == [k \in DOMAIN db.functions |-> of(k)]
<1>1. ArgumentRows(n) = FlattenSeq(ss)
  BY DEF ArgumentRows
<1>2. \A k : /\ own(k) \in Seq(ArgumentRow)
             /\ ToSet(own(k)) = {r \in ToSet(db.arguments) : r.func = k}
  <2>1. db.arguments \in Seq(ArgumentRow)
    BY DEF IsDatabase
  <2>2. \A r : r.func = r["func"]
    OBVIOUS
  <2> QED
    BY <2>1, <2>2, WhereSelects
<1> HIDE DEF own
<1>3. ArgumentsNamed(n) \subseteq Arguments
  BY RowArgument DEF ArgumentsNamed
<1>4. ASSUME NEW k \in DOMAIN db.functions
      PROVE  /\ of(k) \in Seq(S)
             /\ {a \in ToSet(of(k)) : a.order # -1} =
                  {Argument(r.name, r.order, r.type) :
                     r \in {r \in ToSet(db.arguments) :
                              r.func = k /\ db.functions[k].name = n}}
  <2>1. CASE db.functions[k].name # n
    BY <2>1 DEF ToSet
  <2>2. CASE db.functions[k].name = n /\ own(k) = << >>
    <3>1. {r \in ToSet(db.arguments) : r.func = k} = {}
      BY <1>2, <2>2 DEF ToSet
    <3>2. of(k) = <<NoArgument>> /\ ToSet(<<NoArgument>>) = {NoArgument}
      BY <2>2 DEF ToSet
    <3>3. NoArgument.order = -1
      BY DEF NoArgument
    <3> QED
      BY <2>2, <3>1, <3>2, <3>3
  <2>3. CASE db.functions[k].name = n /\ own(k) # << >>
    <3> DEFINE arg_(m) == Argument(own(k)[m].name, own(k)[m].order, own(k)[m].type)
    <3>1. of(k) = [m \in 1 .. Len(own(k)) |-> arg_(m)]
      BY <1>2, <2>3
    <3>2. \A m \in 1 .. Len(own(k)) : own(k)[m] \in {r \in ToSet(db.arguments) : r.func = k}
      <4>1. DOMAIN own(k) = 1 .. Len(own(k))
        BY <1>2
      <4>2. \A m \in 1 .. Len(own(k)) : own(k)[m] \in ToSet(own(k))
        BY <4>1 DEF ToSet
      <4> QED
        BY <1>2, <4>2, Zenon
    <3>3. \A m \in 1 .. Len(own(k)) : arg_(m) \in Arguments
      BY <3>2, RowArgument
    <3>4. of(k) \in Seq(S)
      <4> HIDE DEF arg_, of
      <4> QED
        BY <1>2, <3>1, <3>3
    <3>5. ToSet(of(k)) = {Argument(r.name, r.order, r.type) :
                            r \in {r \in ToSet(db.arguments) : r.func = k}}
      <4>1. ToSet(of(k)) = {arg_(m) : m \in 1 .. Len(own(k))}
        <5> HIDE DEF arg_, of
        <5> QED
          BY <1>2, <3>1 DEF ToSet
      <4>2. {own(k)[m] : m \in 1 .. Len(own(k))} = {r \in ToSet(db.arguments) : r.func = k}
        <5>1. DOMAIN own(k) = 1 .. Len(own(k))
          BY <1>2
        <5> QED
          BY <1>2, <5>1, Zenon DEF ToSet
      <4> HIDE DEF of
      <4> QED
        BY <4>1, <4>2
    <3>6. \A a \in ToSet(of(k)) : a.order # -1
      <4>1. \A a \in Arguments : a.order # -1
        BY DEF Arguments
      <4> HIDE DEF of
      <4> QED
        BY <3>5, <4>1, RowArgument
    <3> HIDE DEF of
    <3> QED
      BY <2>3, <3>4, <3>5, <3>6
  <2> HIDE DEF of
  <2> QED
    BY <2>1, <2>2, <2>3
<1>5. ss \in Seq(Seq(S)) /\ DOMAIN ss = DOMAIN db.functions
  <2>1. db.functions \in Seq(FunctionRow)
    BY DEF IsDatabase
  <2> HIDE DEF of
  <2>2. ss \in [1 .. Len(db.functions) -> Seq(S)]
    BY <1>4, <2>1
  <2> QED
    BY <2>1, <2>2
<1>6. /\ FlattenSeq(ss) \in Seq(S)
      /\ ToSet(FlattenSeq(ss)) = UNION {ToSet(of(k)) : k \in DOMAIN db.functions}
  <2>1. \A s : FlattenSeq(s) = Listing!FlattenSeq(s) /\ ToSet(s) = Listing!ToSet(s)
    BY DEF FlattenSeq, Listing!FlattenSeq, ToSet, Listing!ToSet
  <2>2. /\ FlattenSeq(ss) \in Seq(S)
        /\ ToSet(FlattenSeq(ss)) = UNION {ToSet(ss[k]) : k \in DOMAIN ss}
    <3> HIDE DEF ss
    <3> QED
      BY <1>5, <2>1, Listing!FlattenElements
  <2> HIDE DEF of
  <2> QED
    BY <1>5, <2>2
<1>7. {a \in ToSet(ArgumentRows(n)) : a.order # -1} =
        UNION {{a \in ToSet(of(k)) : a.order # -1} : k \in DOMAIN db.functions}
  <2> HIDE DEF of, ss
  <2> QED
    BY <1>1, <1>6
<1>8. \A r \in ToSet(db.arguments) : r.func \in DOMAIN db.functions
  BY DEF IsDatabase
<1>9. {a \in ToSet(ArgumentRows(n)) : a.order # -1} = ArgumentsNamed(n)
  <2> HIDE DEF of, ss
  <2>1. \A x : x \in {a \in ToSet(ArgumentRows(n)) : a.order # -1} <=>
                 \E k \in DOMAIN db.functions : \E r \in ToSet(db.arguments) :
                   /\ r.func = k /\ db.functions[k].name = n
                   /\ x = Argument(r.name, r.order, r.type)
    BY <1>4, <1>7
  <2> QED
    BY <1>8, <2>1 DEF ArgumentsNamed
<1> QED
  BY <1>1, <1>3, <1>6, <1>9

\* The names of the values that a type has in the table.
LEMMA ValueNamesFound ==
  ASSUME IsDatabase(db), NEW n
  PROVE  ValueNames(n) \in Seq(Texts)
<1> DEFINE own == Where(db.values, "type", n)
<1>1. own \in Seq(ValueRow)
  BY WhereSelects DEF IsDatabase
<1> HIDE DEF own
<1>2. \A m \in DOMAIN own : own[m].name \in Texts
  <2>1. \A m \in DOMAIN own : own[m] \in ValueRow
    BY <1>1
  <2> QED
    BY <2>1 DEF ValueRow
<1>3. [m \in DOMAIN own |-> own[m].name] \in Seq(Texts)
  BY <1>1, <1>2
<1> QED
  BY <1>3 DEF ValueNames, own

\* They are the names that its rows have.
LEMMA ValueNamesAll ==
  ASSUME IsDatabase(db), NEW n
  PROVE  ToSet(ValueNames(n)) = {r.name : r \in {r \in ToSet(db.values) : r.type = n}}
<1> DEFINE own == Where(db.values, "type", n)
<1>1. \A r : r.type = r["type"]
  OBVIOUS
<1>2. ToSet(own) = {r \in ToSet(db.values) : r.type = n}
  BY <1>1, WhereSelects DEF IsDatabase
<1>3. ValueNames(n) = [m \in DOMAIN own |-> own[m].name]
  BY DEF ValueNames
<1> HIDE DEF own
<1>4. ToSet(ValueNames(n)) = {r.name : r \in ToSet(own)}
  BY <1>3 DEF ToSet
<1> QED
  BY <1>2, <1>4

\* What SetCallback makes of the rows of a structure.
FieldsTaken == [name : TypeNames, order : {0}, typeName : Texts,
                kind : TypeNames \cup {NONE}, baseTypeName : {NONE}]

LEMMA FieldArgumentsFound ==
  ASSUME IsDatabase(db), NEW n
  PROVE  FieldArguments(n) \in Seq(FieldsTaken)
<1> DEFINE own == Where(db.fields, "struct", n)
<1>1. own \in Seq(FieldRow) /\ ToSet(own) \subseteq ToSet(db.fields)
  BY WhereSelects DEF IsDatabase
<1> HIDE DEF own
<1> DEFINE took(m) == [name |-> own[m].type, order |-> 0,
                       typeName |-> db.types[own[m].type].kind,
                       kind |-> db.types[own[m].type].base, baseTypeName |-> NONE]
<1>2. ASSUME NEW m \in DOMAIN own PROVE took(m) \in FieldsTaken
  <2>1. own[m] \in FieldRow /\ own[m] \in ToSet(db.fields)
    <3>1. own[m] \in ToSet(own)
      BY DEF ToSet
    <3> QED
      BY <1>1, <3>1
  <2>3. own[m].type \in DOMAIN db.types
    BY <2>1 DEF IsDatabase
  <2>2. db.types[own[m].type] \in TypeRow /\ own[m].type \in TypeNames
    BY <2>1, <2>3 DEF IsDatabase
  <2> QED
    BY <2>1, <2>2 DEF FieldsTaken, FieldRow, TypeRow
<1>3. [m \in DOMAIN own |-> took(m)] \in Seq(FieldsTaken)
  <2> HIDE DEF took
  <2> QED
    BY <1>1, <1>2
<1> QED
  BY <1>3 DEF FieldArguments, own

-----------------------------------------------------------------------------
(* What the call has read, as long as the rows stay where they are         *)

Functions == [api : Texts \cup {NONE}, dll : Texts \cup {NONE},
              ret : TypeNames \cup {NONE}, arguments : Seq(Arguments)]
FieldTrees == [name : TypeNames, order : {0}, tree : Trees]
Args == [of : Arguments, base : Trees \cup {NONE}, fields : Seq(FieldTrees),
         defVal : Seq(Texts)]

\* The places in the code at which an argument is put together.
Turned == {"disclose", "select", "members"}

\* An argument has the base that belongs to it.
Based(a) ==
  IF a.of.baseTypeName = NONE THEN a.base = NONE
  ELSE /\ a.base \in Trees /\ a.base.of = a.of.baseTypeName
       /\ a.base.flaws <= faults

Shapes ==
  /\ name \in FunctionNames /\ faults \in 0 .. MaxFaults
  /\ func \in Functions
  /\ result \in [api : Texts \cup {NONE}, dll : Texts \cup {NONE},
                 ret : TypeNames \cup {NONE}, arguments : Seq(Args)]
  /\ pc \in Turned => arg \in Args
  /\ pc = "members" =>
       IF IsStruct(arg.of.kind) THEN members \in Seq(FieldsTaken)
       ELSE members \in Seq(Texts)

\* The Result holds the arguments that have been found as far as it goes.
Copied ==
  /\ pc \in {"open", "check", "function"} => func = NoFunction
  /\ pc \in {"open", "check", "function", "arguments", "copy"} => result = NoFunction
  /\ pc \in Turned \cup {"base", "returned"} =>
       result.api = func.api /\ result.dll = func.dll /\ result.ret = func.ret
  /\ Len(result.arguments) <= Len(func.arguments)
  /\ pc \in Turned =>
       /\ Len(result.arguments) < Len(func.arguments)
       /\ arg.of = func.arguments[Turn] /\ Based(arg)
  /\ pc = "returned" => Len(result.arguments) = Len(func.arguments)
  /\ \A k \in 1 .. Len(result.arguments) :
       result.arguments[k].of = func.arguments[k] /\ Based(result.arguments[k])

CallInv == ConnectionInv /\ Shapes /\ FoundInOrder /\ Copied

\* Without a failure it is the whole of what the tables have.
WholeFunction ==
  /\ pc \in {"function", "arguments"} => FunctionsNamed(name) # << >>
  /\ pc \notin {"open", "check", "function"} =>
       IF FunctionsNamed(name) = << >> THEN func = NoFunction
       ELSE \E r \in ToSet(FunctionsNamed(name)) :
              func.api = r.api /\ func.dll = r.dll /\ func.ret = r.ret
  /\ pc \notin {"open", "check", "function", "arguments"} =>
       ToSet(func.arguments) = ArgumentsNamed(name)

ValuesOf(list, a) ==
  a.kind = "Alias" =>
    IsInjective(list) /\ ToSet(list) = ToSet(ValueNames(a.typeName))

WholeValues ==
  /\ pc = "members" => ValuesOf(members, arg.of)
  /\ \A k \in 1 .. Len(result.arguments) :
       ValuesOf(result.arguments[k].defVal, result.arguments[k].of)

WholeInv == faults = 0 => WholeFunction /\ WholeValues

\* What is found stays found while nobody writes.
LEMMA FoundStays ==
  ASSUME FoundInOrder, UNCHANGED <<db, name>>, func'.arguments = func.arguments
  PROVE  FoundInOrder'
BY DEF FoundInOrder, ArgumentsNamed, Argument

\* An argument keeps its base, whatever else fails.
LEMMA BasedStays ==
  ASSUME NEW a, Based(a), faults \in Nat, faults' \in Nat, faults' >= faults
  PROVE  Based(a)'
<1>1. CASE a.of.baseTypeName = NONE
  BY <1>1 DEF Based
<1>2. CASE a.of.baseTypeName # NONE
  <2>1. a.base.flaws \in Nat
    BY <1>2 DEF Based, Trees
  <2> QED
    BY <1>2, <2>1 DEF Based
<1> QED
  BY <1>1, <1>2

\* The arguments of the Result stay as they are.
LEMMA CopiesStay ==
  ASSUME Shapes, Copied, Shapes', UNCHANGED result, faults' >= faults,
         func'.arguments = func.arguments
  PROVE  \A k \in 1 .. Len(result'.arguments) :
           result'.arguments[k].of = func'.arguments[k] /\ Based(result.arguments[k])'
<1>1. faults \in Nat /\ faults' \in Nat
  BY BoundAssumption DEF Shapes
<1>2. \A k \in 1 .. Len(result.arguments) :
        result.arguments[k].of = func.arguments[k] /\ Based(result.arguments[k])
  BY DEF Copied
<1>3. ASSUME NEW k \in 1 .. Len(result.arguments) PROVE Based(result.arguments[k])'
  <2> DEFINE a == result.arguments[k]
  <2>1. Based(a)
    BY <1>2
  <2>2. a' = a
    OBVIOUS
  <2> QED
    BY <1>1, <2>1, <2>2 DEF Based, Trees
<1> QED
  BY <1>2, <1>3

\* A step of extract_from_db up to its last query: there is no argument yet.
LEMMA EarlyCall ==
  ASSUME CallInv, UNCHANGED <<db, arg, result>>,
         OpenDatabase \/ OpenDatabaseFails \/ CheckName
  PROVE  (Shapes /\ FoundInOrder /\ Copied)'
<1>1. /\ pc \in {"open", "check"} /\ pc' \in {"check", "function", "copy"}
      /\ UNCHANGED <<name, func, members>>
      /\ faults' \in {faults, faults + 1} /\ (faults' = faults + 1 => faults < MaxFaults)
  <2>1. CASE OpenDatabase
    BY <2>1 DEF OpenDatabase, Goto, CallInv, Shapes
  <2>2. CASE OpenDatabaseFails
    BY <2>2 DEF OpenDatabaseFails, Goto
  <2>3. CASE CheckName
    BY <2>3, BoundAssumption DEF CheckName, Goto, CallInv, Shapes
  <2> QED
    BY <2>1, <2>2, <2>3
<1>2. faults' \in 0 .. MaxFaults
  BY <1>1, BoundAssumption DEF CallInv, Shapes
<1>3. Shapes'
  BY <1>1, <1>2 DEF CallInv, Shapes, Turned
<1>4. FoundInOrder'
  BY <1>1, FoundStays DEF CallInv
<1>5. Copied'
  <2>1. func = NoFunction /\ result = NoFunction
    BY <1>1 DEF CallInv, Copied
  <2>2. Len(NoFunction.arguments) = 0
    BY DEF NoFunction
  <2> QED
    BY <1>1, <2>1, <2>2 DEF Copied, Turned
<1> QED
  BY <1>3, <1>4, <1>5

\* What DAR_callback leaves is a row, the last that came.
LEMMA FunctionFound ==
  ASSUME IsDatabase(db), NEW n
  PROVE  /\ FunctionsNamed(n) \in Seq(FunctionRow)
         /\ ToSet(FunctionsNamed(n)) = {r \in ToSet(db.functions) : r.name = n}
<1>1. \A r : r.name = r["name"]
  OBVIOUS
<1> QED
  BY <1>1, WhereSelects DEF FunctionsNamed, IsDatabase

LEMMA SelectFunctionCall ==
  ASSUME IsDatabase(db), CallInv, UNCHANGED <<db, arg, result>>, SelectFunction
  PROVE  (Shapes /\ FoundInOrder /\ Copied)'
<1>1. PICK got \in Exec(FunctionsNamed(name)) :
        /\ func' = IF got.rows = << >> THEN func
                   ELSE LET r == Last(got.rows)
                        IN  [func EXCEPT !.api = r.api, !.dll = r.dll, !.ret = r.ret]
        /\ faults' = faults + got.failed
  BY DEF SelectFunction
<1>2. /\ got.rows \in Seq(FunctionRow)
      /\ got.failed \in {0, 1} /\ (got.failed = 1 => faults < MaxFaults)
  BY FunctionFound, ExecRows
<1>3. pc = "function" /\ pc' = "arguments" /\ UNCHANGED <<name, members>>
  BY DEF SelectFunction, Goto
<1>4. func' \in Functions /\ func'.arguments = func.arguments
  <2>1. CASE got.rows = << >>
    BY <1>1, <2>1 DEF CallInv, Shapes
  <2>2. CASE got.rows # << >>
    <3>1. Last(got.rows) \in FunctionRow
      BY <1>2, <2>2 DEF Last
    <3> QED
      BY <1>1, <2>2, <3>1 DEF CallInv, Shapes, Functions, FunctionRow
  <2> QED
    BY <2>1, <2>2
<1>5. faults' \in 0 .. MaxFaults
  BY <1>1, <1>2, BoundAssumption DEF CallInv, Shapes
<1>6. Shapes'
  BY <1>3, <1>4, <1>5 DEF CallInv, Shapes, Turned
<1>7. FoundInOrder'
  BY <1>3, <1>4, FoundStays DEF CallInv
<1>8. Copied'
  <2>1. func = NoFunction /\ result = NoFunction
    BY <1>3 DEF CallInv, Copied
  <2>2. Len(NoFunction.arguments) = 0
    BY DEF NoFunction
  <2> QED
    BY <1>3, <1>4, <2>1, <2>2 DEF Copied, Turned
<1> QED
  BY <1>6, <1>7, <1>8

\* The list of arguments is put together from the rows that came.
LEMMA SelectArgumentsCall ==
  ASSUME IsDatabase(db), CallInv, UNCHANGED <<db, arg, result>>, SelectArguments
  PROVE  (Shapes /\ FoundInOrder /\ Copied)'
<1>1. PICK got \in Exec(ArgumentRows(name)) :
        /\ func' = [func EXCEPT !.arguments = FoldLeft(TakeArgument, << >>, got.rows)]
        /\ faults' = faults + got.failed
  BY DEF SelectArguments
<1> DEFINE found == FoldLeft(TakeArgument, << >>, got.rows)
           S == Arguments \cup {NoArgument}
<1>2. /\ got.rows \in Seq(S) /\ ToSet(got.rows) \subseteq ToSet(ArgumentRows(name))
      /\ got.failed \in {0, 1} /\ (got.failed = 1 => faults < MaxFaults)
  BY ArgumentRowsFound, ExecRows
<1>3. pc = "arguments" /\ pc' = "copy" /\ UNCHANGED <<name, members>>
  BY DEF SelectArguments, Goto
<1>4. \A x \in S : x.order \in Int
  BY DEF Arguments, NoArgument
<1>5. /\ found \in Seq(S) /\ IsInjective(found) /\ InOrder(found)
      /\ ToSet(found) = {a \in ToSet(got.rows) : a.order # -1}
  BY <1>2, <1>4, ArgumentsTaken
<1> HIDE DEF found, S
<1>6. ToSet(found) \subseteq ArgumentsNamed(name)
  BY <1>2, <1>5, ArgumentRowsFound
<1>7. found \in Seq(Arguments)
  BY <1>5, <1>6, ArgumentRowsFound, SequenceOf
<1>8. func' \in Functions /\ func'.arguments = found
  BY <1>1, <1>7 DEF CallInv, Shapes, Functions, found
<1>9. faults' \in 0 .. MaxFaults
  BY <1>1, <1>2, BoundAssumption DEF CallInv, Shapes
<1>10. Shapes'
  BY <1>3, <1>8, <1>9 DEF CallInv, Shapes, Turned
<1>11. FoundInOrder'
  <2>1. \A k \in DOMAIN found : found[k] \in ArgumentsNamed(name)
    BY <1>6 DEF ToSet
  <2>2. ArgumentsNamed(name)' = ArgumentsNamed(name)
    BY <1>3 DEF ArgumentsNamed, Argument
  <2> QED
    BY <1>5, <1>8, <2>1, <2>2 DEF FoundInOrder, InOrder
<1>12. Copied'
  <2>1. result = NoFunction
    BY <1>3 DEF CallInv, Copied
  <2>2. Len(NoFunction.arguments) = 0
    BY DEF NoFunction
  <2>3. Len(found) \in Nat
    BY <1>7
  <2> QED
    BY <1>3, <1>8, <2>1, <2>2, <2>3 DEF Copied, Turned
<1> QED
  BY <1>10, <1>11, <1>12

\* A step of typeDisclosure for the argument whose turn it is.
LEMMA DiscloseCall ==
  ASSUME IsDatabase(db), CallInv, UNCHANGED <<db, arg, result>>, Disclose
  PROVE  (Shapes /\ FoundInOrder /\ Copied)'
<1> DEFINE a == func.arguments[Turn]
<1>0. /\ pc \in {"disclose", "select"} /\ pc' \in Turned
      /\ UNCHANGED <<name, func>>
  BY DEF Disclose, TypeDisclosure, OpenType, OpenTypeFails, SelectMembers, Goto, Turned
<1>1. arg \in Args /\ arg.of = a /\ a \in Arguments
  <2>1. arg \in Args /\ arg.of = a
    BY <1>0 DEF CallInv, Shapes, Copied, Turned
  <2> QED
    BY <2>1 DEF Args
<1>2. /\ faults' \in {faults, faults + 1} /\ (faults' = faults + 1 => faults < MaxFaults)
      /\ pc' = "members" => IF IsStruct(a.kind) THEN members' \in Seq(FieldsTaken)
                            ELSE members' \in Seq(Texts)
  <2>0. faults \in Nat
    BY BoundAssumption DEF CallInv, Shapes
  <2>1. CASE OpenType
    BY <2>0, <2>1 DEF OpenType, Goto
  <2>2. CASE OpenTypeFails
    BY <2>2 DEF OpenTypeFails, Goto
  <2>3. CASE SelectMembers(a) /\ IsStruct(a.kind)
    <3>1. PICK got \in Exec(FieldArguments(a.typeName)) :
            /\ members' = FoldLeft(TakeArgument, << >>, got.rows)
            /\ faults' = faults + got.failed
      BY <2>3 DEF SelectMembers, IsStruct
    <3>2. /\ got.rows \in Seq(FieldsTaken)
          /\ got.failed \in {0, 1} /\ (got.failed = 1 => faults < MaxFaults)
      BY FieldArgumentsFound, ExecRows
    <3>3. \A x \in FieldsTaken : x.order \in Int
      BY DEF FieldsTaken
    <3>4. members' \in Seq(FieldsTaken)
      BY <3>1, <3>2, <3>3, ArgumentsTaken
    <3> QED
      BY <2>0, <2>3, <3>1, <3>2, <3>4
  <2>4. CASE SelectMembers(a) /\ a.kind = "Alias"
    <3>1. PICK got \in Exec(ValueNames(a.typeName)) :
            /\ members' = FoldLeft(TakeValue, << >>, got.rows)
            /\ faults' = faults + got.failed
      BY <2>4 DEF SelectMembers, IsStruct
    <3>2. /\ got.rows \in Seq(Texts)
          /\ got.failed \in {0, 1} /\ (got.failed = 1 => faults < MaxFaults)
      BY ValueNamesFound, ExecRows
    <3>3. members' \in Seq(Texts)
      BY <3>1, <3>2, ValuesTaken
    <3> QED
      BY <2>0, <2>4, <3>1, <3>2, <3>3 DEF IsStruct
  <2>5. CASE SelectMembers(a) /\ ~IsStruct(a.kind) /\ a.kind # "Alias"
    <3>1. members' = << >> /\ faults' = faults
      BY <2>5 DEF SelectMembers
    <3>2. << >> \in Seq(Texts)
      OBVIOUS
    <3> QED
      BY <2>0, <2>5, <3>1, <3>2
  <2> HIDE DEF a
  <2> QED
    BY <2>1, <2>2, <2>3, <2>4, <2>5 DEF Disclose, TypeDisclosure, a
<1>3. faults' \in 0 .. MaxFaults /\ faults' >= faults
  BY <1>2, BoundAssumption DEF CallInv, Shapes
<1>4. Shapes'
  BY <1>0, <1>1, <1>2, <1>3 DEF CallInv, Shapes, Turned
<1>5. FoundInOrder'
  BY <1>0, FoundStays DEF CallInv
<1>6. Copied'
  <2>1. Based(arg)'
    BY <1>0, <1>3, BasedStays, BoundAssumption DEF CallInv, Shapes, Copied, Turned
  <2>2. \A k \in 1 .. Len(result'.arguments) :
          result'.arguments[k].of = func'.arguments[k] /\ Based(result.arguments[k])'
    BY <1>0, <1>3, <1>4, CopiesStay DEF CallInv
  <2> QED
    BY <1>0, <2>1, <2>2 DEF CallInv, Copied, Turned, Turn
<1> QED
  BY <1>4, <1>5, <1>6

\* An undisturbed copy of the function, before its arguments.
LEMMA CopyFunctionCall ==
  ASSUME CallInv, UNCHANGED db, CopyFunction
  PROVE  (Shapes /\ FoundInOrder /\ Copied)'
<1>1. /\ pc = "copy" /\ pc' = "base" /\ result' = [func EXCEPT !.arguments = << >>]
      /\ UNCHANGED <<name, func, arg, members, faults>>
  BY DEF CopyFunction, Goto
<1>2. /\ result' \in [api : Texts \cup {NONE}, dll : Texts \cup {NONE},
                      ret : TypeNames \cup {NONE}, arguments : Seq(Args)]
      /\ result'.api = func.api /\ result'.dll = func.dll /\ result'.ret = func.ret
      /\ Len(result'.arguments) = 0
  <2>1. result' = [api |-> func.api, dll |-> func.dll, ret |-> func.ret, arguments |-> << >>]
    BY <1>1 DEF CallInv, Shapes, Functions
  <2>2. << >> \in Seq(Args) /\ Len(<< >>) = 0
    OBVIOUS
  <2> QED
    BY <2>1, <2>2 DEF CallInv, Shapes, Functions
<1>3. Shapes'
  BY <1>1, <1>2 DEF CallInv, Shapes, Turned
<1>4. FoundInOrder'
  BY <1>1, FoundStays DEF CallInv
<1>5. Copied'
  <2>1. Len(func.arguments) \in Nat
    BY DEF CallInv, Shapes, Functions
  <2> QED
    BY <1>1, <1>2, <2>1 DEF Copied, Turned
<1> QED
  BY <1>3, <1>4, <1>5

\* A flaw costs a fault at least; typeInformation never gives back a failure.
LEMMA TreeGiven ==
  ASSUME Shapes, NEW n \in TypeNames \cup Texts, NEW tree \in TypeInformation(n),
         faults' = faults + tree.flaws
  PROVE  /\ tree \in Trees /\ tree.of = n /\ tree.flaws <= faults'
         /\ faults' \in 0 .. MaxFaults /\ faults' >= faults
<1>1. tree.of = n /\ tree.flaws \in 0 .. MaxFaults - faults
      /\ tree = [of |-> n, flaws |-> tree.flaws]
  BY DEF TypeInformation
<1>2. faults \in 0 .. MaxFaults /\ MaxFaults \in Nat
  BY BoundAssumption DEF Shapes
<1> QED
  BY <1>1, <1>2 DEF Trees

\* The argument whose turn it is, and the tree of its base.
LEMMA CopyArgumentCall ==
  ASSUME CallInv, UNCHANGED db, CopyArgument
  PROVE  (Shapes /\ FoundInOrder /\ Copied)'
<1> DEFINE a == func.arguments[Turn]
           fresh == [NoArg EXCEPT !.of = a]
<1>1. /\ pc = "base" /\ pc' = "disclose" /\ Turn <= Len(func.arguments)
      /\ UNCHANGED <<name, func, members, result>>
  BY DEF CopyArgument, Goto
<1>2. /\ Len(result.arguments) \in Nat /\ Len(func.arguments) \in Nat
      /\ Turn \in 1 .. Len(func.arguments) /\ a \in Arguments
  <2>1. Len(result.arguments) \in Nat /\ func.arguments \in Seq(Arguments)
    BY DEF CallInv, Shapes, Functions
  <2>2. Turn \in 1 .. Len(func.arguments)
    BY <1>1, <2>1 DEF Turn
  <2> QED
    BY <2>1, <2>2
<1>3. fresh = [of |-> a, base |-> NONE, fields |-> << >>, defVal |-> << >>]
  BY DEF NoArg
<1> HIDE DEF a, fresh
<1>4. /\ arg' \in Args /\ arg'.of = a /\ Based(arg)'
      /\ faults' \in 0 .. MaxFaults /\ faults' >= faults
  <2>1. CASE a.baseTypeName = NONE
    <3>1. arg' = fresh /\ faults' = faults
      BY <2>1 DEF CopyArgument, a, fresh
    <3>2. faults \in 0 .. MaxFaults /\ MaxFaults \in Nat
      BY BoundAssumption DEF CallInv, Shapes
    <3>3. fresh \in Args
      BY <1>2, <1>3 DEF Args
    <3> QED
      BY <1>3, <2>1, <3>1, <3>2, <3>3 DEF Based
  <2>2. CASE a.baseTypeName # NONE
    <3>1. PICK tree \in TypeInformation(a.baseTypeName) :
            /\ arg' = [fresh EXCEPT !.base = tree]
            /\ faults' = faults + tree.flaws
      BY <2>2 DEF CopyArgument, a, fresh
    <3>2. a.baseTypeName \in TypeNames
      BY <1>2, <2>2 DEF Arguments
    <3>3. /\ tree \in Trees /\ tree.of = a.baseTypeName /\ tree.flaws <= faults'
          /\ faults' \in 0 .. MaxFaults /\ faults' >= faults
      BY <3>1, <3>2, TreeGiven DEF CallInv
    <3>4. arg' = [of |-> a, base |-> tree, fields |-> << >>, defVal |-> << >>]
      BY <1>3, <3>1
    <3>5. arg' \in Args
      BY <1>2, <3>3, <3>4 DEF Args
    <3> QED
      BY <2>2, <3>3, <3>4, <3>5 DEF Based
  <2> QED
    BY <2>1, <2>2
<1>5. Shapes'
  BY <1>1, <1>4 DEF CallInv, Shapes, Turned
<1>6. FoundInOrder'
  BY <1>1, FoundStays DEF CallInv
<1>7. Copied'
  <2>1. \A k \in 1 .. Len(result'.arguments) :
          result'.arguments[k].of = func'.arguments[k] /\ Based(result.arguments[k])'
    BY <1>1, <1>4, <1>5, CopiesStay DEF CallInv
  <2>2. Len(result.arguments) < Len(func.arguments)
    BY <1>1, <1>2 DEF Turn
  <2> QED
    BY <1>1, <1>4, <2>1, <2>2 DEF CallInv, Copied, Turned, Turn, a
<1> QED
  BY <1>5, <1>6, <1>7

\* A field more, and the tree of its type.
LEMMA CopyFieldCall ==
  ASSUME CallInv, UNCHANGED db, CopyField
  PROVE  (Shapes /\ FoundInOrder /\ Copied)'
<1> DEFINE m == members[Len(arg.fields) + 1]
<1>1. /\ pc = "members" /\ IsStruct(arg.of.kind) /\ Len(arg.fields) < Len(members)
      /\ UNCHANGED <<name, pc, func, members, result>>
  BY DEF CopyField
<1>2. /\ arg \in Args /\ arg.fields \in Seq(FieldTrees) /\ m \in FieldsTaken
  <2>1. arg \in Args /\ members \in Seq(FieldsTaken)
    BY <1>1 DEF CallInv, Shapes, Turned
  <2>2. arg.fields \in Seq(FieldTrees)
    BY <2>1 DEF Args
  <2>3. Len(arg.fields) + 1 \in 1 .. Len(members)
    BY <1>1, <2>1, <2>2
  <2> QED
    BY <2>1, <2>2, <2>3
<1>3. PICK tree \in TypeInformation(m.typeName) :
        /\ arg' = [arg EXCEPT !.fields =
             Append(@, [name |-> m.name, order |-> m.order, tree |-> tree])]
        /\ faults' = faults + tree.flaws
  BY DEF CopyField
<1> HIDE DEF m
<1>4. /\ tree \in Trees /\ faults' \in 0 .. MaxFaults /\ faults' >= faults
  <2>1. m.typeName \in TypeNames \cup Texts
    BY <1>2 DEF FieldsTaken
  <2> QED
    BY <1>3, <2>1, TreeGiven DEF CallInv
<1>5. arg' \in Args /\ arg'.of = arg.of /\ arg'.base = arg.base
  <2>1. [name |-> m.name, order |-> m.order, tree |-> tree] \in FieldTrees
    BY <1>2, <1>4 DEF FieldsTaken, FieldTrees
  <2>2. Append(arg.fields, [name |-> m.name, order |-> m.order, tree |-> tree]) \in Seq(FieldTrees)
    BY <1>2, <2>1
  <2> QED
    BY <1>2, <1>3, <2>2 DEF Args
<1>6. Shapes'
  BY <1>1, <1>4, <1>5 DEF CallInv, Shapes, Turned
<1>7. FoundInOrder'
  BY <1>1, FoundStays DEF CallInv
<1>8. Copied'
  <2>1. Based(arg)'
    <3>1. Based(arg)
      BY <1>1 DEF CallInv, Copied, Turned
    <3>2. faults \in Nat
      BY BoundAssumption DEF CallInv, Shapes
    <3> QED
      BY <1>4, <1>5, <3>1, <3>2 DEF Based, Trees
  <2>2. \A k \in 1 .. Len(result'.arguments) :
          result'.arguments[k].of = func'.arguments[k] /\ Based(result.arguments[k])'
    BY <1>1, <1>4, <1>6, CopiesStay DEF CallInv
  <2> QED
    BY <1>1, <1>5, <2>1, <2>2 DEF CallInv, Copied, Turned, Turn
<1> QED
  BY <1>6, <1>7, <1>8

\* The argument goes to the end of the Result.
LEMMA PushArgumentCall ==
  ASSUME CallInv, UNCHANGED db, PushArgument
  PROVE  (Shapes /\ FoundInOrder /\ Copied)'
<1> DEFINE whole == IF arg.of.kind = "Alias" THEN [arg EXCEPT !.defVal = members] ELSE arg
<1>1. /\ pc = "members" /\ pc' = "base"
      /\ result' = [result EXCEPT !.arguments = Append(@, whole)]
      /\ UNCHANGED <<name, func, arg, members, faults>>
  BY DEF PushArgument, Goto
<1>2. whole \in Args /\ whole.of = arg.of /\ whole.base = arg.base
  <2>1. arg \in Args
    BY <1>1 DEF CallInv, Shapes, Turned
  <2>2. CASE arg.of.kind = "Alias"
    <3>1. members \in Seq(Texts)
      BY <1>1, <2>2 DEF CallInv, Shapes, IsStruct
    <3> QED
      BY <2>1, <2>2, <3>1 DEF Args
  <2>3. CASE arg.of.kind # "Alias"
    BY <2>1, <2>3
  <2> QED
    BY <2>2, <2>3
<1> HIDE DEF whole
<1>3. /\ result.arguments \in Seq(Args) /\ Len(func.arguments) \in Nat
      /\ result'.arguments = Append(result.arguments, whole)
      /\ result'.api = result.api /\ result'.dll = result.dll /\ result'.ret = result.ret
      /\ result' \in [api : Texts \cup {NONE}, dll : Texts \cup {NONE},
                      ret : TypeNames \cup {NONE}, arguments : Seq(Args)]
  <2>1. result.arguments \in Seq(Args) /\ func.arguments \in Seq(Arguments)
    BY DEF CallInv, Shapes, Functions
  <2>2. result' = [api |-> result.api, dll |-> result.dll, ret |-> result.ret,
                   arguments |-> Append(result.arguments, whole)]
    BY <1>1 DEF CallInv, Shapes
  <2>3. Append(result.arguments, whole) \in Seq(Args)
    BY <1>2, <2>1
  <2> QED
    BY <2>1, <2>2, <2>3 DEF CallInv, Shapes
<1>4. Shapes'
  BY <1>1, <1>3 DEF CallInv, Shapes, Turned
<1>5. FoundInOrder'
  BY <1>1, FoundStays DEF CallInv
<1>6. Copied'
  <2>1. /\ Len(result.arguments) < Len(func.arguments)
        /\ arg.of = func.arguments[Len(result.arguments) + 1] /\ Based(arg)
    BY <1>1 DEF CallInv, Copied, Turned, Turn
  <2>2. /\ Len(result'.arguments) = Len(result.arguments) + 1
        /\ Len(result'.arguments) <= Len(func.arguments)
    BY <1>3, <2>1
  <2>3. ASSUME NEW k \in 1 .. Len(result'.arguments)
        PROVE  result'.arguments[k].of = func.arguments[k] /\ Based(result'.arguments[k])
    <3>1. CASE k = Len(result.arguments) + 1
      BY <1>2, <1>3, <2>1, <3>1 DEF Based
    <3>2. CASE k # Len(result.arguments) + 1
      <4>1. k \in 1 .. Len(result.arguments) /\ result'.arguments[k] = result.arguments[k]
        BY <1>3, <2>2, <3>2
      <4> QED
        BY <4>1 DEF CallInv, Copied
    <3> QED
      BY <3>1, <3>2
  <2>4. \A k \in 1 .. Len(result'.arguments) :
          result'.arguments[k].of = func'.arguments[k] /\ Based(result.arguments[k])'
    BY <1>1, <2>3 DEF Based
  <2> QED
    BY <1>1, <1>3, <2>2, <2>4 DEF CallInv, Copied, Turned
<1> QED
  BY <1>4, <1>5, <1>6

\* The last argument has been copied.
LEMMA ReturnCall ==
  ASSUME CallInv, UNCHANGED db, Return
  PROVE  (Shapes /\ FoundInOrder /\ Copied)'
<1>1. /\ pc = "base" /\ pc' = "returned" /\ Turn > Len(func.arguments)
      /\ UNCHANGED <<name, func, arg, members, result, faults>>
  BY DEF Return, Goto
<1>2. Len(result.arguments) \in Nat /\ Len(func.arguments) \in Nat
  BY DEF CallInv, Shapes, Functions
<1>3. Len(result.arguments) = Len(func.arguments)
  BY <1>1, <1>2 DEF CallInv, Copied, Turn
<1>4. Shapes'
  BY <1>1 DEF CallInv, Shapes, Turned
<1>5. FoundInOrder'
  BY <1>1, FoundStays DEF CallInv
<1>6. Copied'
  BY <1>1, <1>3 DEF CallInv, Copied, Turned, Based
<1> QED
  BY <1>4, <1>5, <1>6

\* Every step of the call keeps what it has read.
LEMMA CallNext ==
  ASSUME IsDatabase(db), CallInv, Next
  PROVE  CallInv'
<1>1. ConnectionInv'
  BY ConnectionNext DEF CallInv
<1>2. (Shapes /\ FoundInOrder /\ Copied)'
  <2>1. CASE ExtractFromDb /\ UNCHANGED <<arg, result>>
    BY <2>1, EarlyCall, SelectFunctionCall, SelectArgumentsCall DEF ExtractFromDb, Next
  <2>2. CASE Disclose /\ UNCHANGED <<arg, result>>
    BY <2>2, DiscloseCall DEF Next
  <2> QED
    BY <2>1, <2>2, CopyFunctionCall, CopyArgumentCall, CopyFieldCall,
       PushArgumentCall, ReturnCall DEF Next, Step
<1> QED
  BY <1>1, <1>2 DEF CallInv

-----------------------------------------------------------------------------
(* What an undisturbed call has read                                       *)

\* The tables answer as before while nobody writes them.
LEMMA TablesStay ==
  ASSUME UNCHANGED <<db, name>>
  PROVE  /\ FunctionsNamed(name)' = FunctionsNamed(name)
         /\ ArgumentsNamed(name)' = ArgumentsNamed(name)
         /\ \A list, a : ValuesOf(list, a)' = ValuesOf(list, a)
BY DEF FunctionsNamed, ArgumentsNamed, Argument, ValuesOf, ValueNames

\* A call that is undisturbed was so before.
LEMMA FaultsGrow ==
  ASSUME CallInv, Next
  PROVE  /\ UNCHANGED <<db, name>> /\ (faults' = 0 => faults = 0)
         /\ pc # "open" => pc' # "open"
<1>0. faults \in 0 .. MaxFaults /\ MaxFaults \in Nat
  BY BoundAssumption DEF CallInv, Shapes
<1>1. CASE ExtractFromDb
  <2>1. CASE OpenDatabase
    BY <2>1 DEF OpenDatabase, Next, Goto
  <2>2. CASE OpenDatabaseFails
    BY <1>0, <2>2 DEF OpenDatabaseFails, Next, Goto
  <2>3. CASE CheckName
    BY <1>0, <2>3 DEF CheckName, Next, Goto
  <2>4. CASE SelectFunction
    BY <1>0, <2>4, ExecFaults DEF SelectFunction, Next, Goto
  <2>5. CASE SelectArguments
    BY <1>0, <2>5, ExecFaults DEF SelectArguments, Next, Goto
  <2> QED
    BY <1>1, <2>1, <2>2, <2>3, <2>4, <2>5 DEF ExtractFromDb
<1>2. CASE Disclose
  <2> DEFINE a == func.arguments[Turn]
  <2>1. CASE OpenType
    BY <2>1 DEF OpenType, Next, Goto
  <2>2. CASE OpenTypeFails
    BY <1>0, <2>2 DEF OpenTypeFails, Next, Goto
  <2> HIDE DEF a
  <2>3. CASE SelectMembers(a)
    BY <1>0, <2>3, ExecFaults DEF SelectMembers, Next, Goto
  <2> QED
    BY <1>2, <2>1, <2>2, <2>3 DEF Disclose, TypeDisclosure, a
<1>3. CASE CopyFunction
  BY <1>3 DEF CopyFunction, Next, Goto
<1>4. CASE CopyArgument
  <2>1. \/ faults' = faults
        \/ \E n : \E tree \in TypeInformation(n) : faults' = faults + tree.flaws
    BY <1>4 DEF CopyArgument
  <2>2. \A n : \A tree \in TypeInformation(n) : tree.flaws \in Nat
    BY <1>0 DEF TypeInformation
  <2>3. CASE \E n : \E tree \in TypeInformation(n) : faults' = faults + tree.flaws
    <3>1. PICK n : \E tree \in TypeInformation(n) : faults' = faults + tree.flaws
      BY <2>3
    <3>2. faults' = 0 => faults = 0
      BY <1>0, <2>2, <3>1
    <3> QED
      BY <1>4, <3>2 DEF CopyArgument, Next, Goto
  <2>4. CASE faults' = faults
    BY <1>4, <2>4 DEF CopyArgument, Next, Goto
  <2> QED
    BY <2>1, <2>3, <2>4
<1>5. CASE CopyField
  <2>1. \E n : \E tree \in TypeInformation(n) : faults' = faults + tree.flaws
    BY <1>5 DEF CopyField
  <2>2. \A n : \A tree \in TypeInformation(n) : tree.flaws \in Nat
    BY <1>0 DEF TypeInformation
  <2> QED
    BY <1>0, <1>5, <2>1, <2>2 DEF CopyField, Next, Goto
<1>6. CASE PushArgument
  BY <1>6 DEF PushArgument, Next, Goto
<1>7. CASE Return
  BY <1>7 DEF Return, Next, Goto
<1> QED
  BY <1>1, <1>2, <1>3, <1>4, <1>5, <1>6, <1>7 DEF Next, Step

\* A name that is in no row of Functions has no arguments.
LEMMA NobodysArguments ==
  ASSUME IsDatabase(db), FunctionsNamed(name) = << >>
  PROVE  ArgumentsNamed(name) = {}
<1>1. ToSet(FunctionsNamed(name)) = {}
  BY DEF ToSet
<1>2. {r \in ToSet(db.functions) : r.name = name} = {}
  BY <1>1, FunctionFound
<1>3. ASSUME NEW r \in ToSet(db.arguments) PROVE db.functions[r.func].name # name
  <2>1. r.func \in DOMAIN db.functions
    BY <1>3 DEF IsDatabase
  <2>2. db.functions[r.func] \in ToSet(db.functions)
    BY <2>1 DEF ToSet
  <2> QED
    BY <1>2, <2>2
<1> QED
  BY <1>3 DEF ArgumentsNamed

\* The last query of extract_from_db, when it does not fail, leaves none out.
LEMMA AllArgumentsTaken ==
  ASSUME IsDatabase(db), CallInv, SelectArguments, faults = 0, faults' = 0
  PROVE  ToSet(func'.arguments) = ArgumentsNamed(name)
<1>1. PICK got \in Exec(ArgumentRows(name)) :
        /\ func' = [func EXCEPT !.arguments = FoldLeft(TakeArgument, << >>, got.rows)]
        /\ faults' = faults + got.failed
  BY DEF SelectArguments
<1>2. got.rows = ArgumentRows(name)
  <2>1. got.failed = 0
    BY <1>1, ArgumentRowsFound, ExecRows
  <2> QED
    BY <2>1, ArgumentRowsFound, ExecRows
<1>3. \A x \in Arguments \cup {NoArgument} : x.order \in Int
  BY DEF Arguments, NoArgument
<1>4. ToSet(FoldLeft(TakeArgument, << >>, ArgumentRows(name))) =
        {a \in ToSet(ArgumentRows(name)) : a.order # -1}
  BY <1>3, ArgumentRowsFound, ArgumentsTaken
<1> QED
  BY <1>1, <1>2, <1>4, ArgumentRowsFound DEF CallInv, Shapes, Functions

\* Nor does the query of typeDisclosure leave out a value of an alias.
LEMMA AllValuesTaken ==
  ASSUME IsDatabase(db), CallInv, Disclose, pc' = "members", faults = 0, faults' = 0
  PROVE  arg.of = func.arguments[Turn] /\ ValuesOf(members', arg.of)
<1> DEFINE a == func.arguments[Turn]
<1>1. arg.of = a
  BY DEF Disclose, TypeDisclosure, OpenType, OpenTypeFails, SelectMembers, CallInv,
         Copied, Turned
<1> HIDE DEF a
<1>2. SelectMembers(a)
  BY DEF Disclose, TypeDisclosure, OpenType, OpenTypeFails, Goto, a
<1>3. ValuesOf(members', a)
  <2> SUFFICES ASSUME a.kind = "Alias"
               PROVE  /\ IsInjective(members')
                      /\ ToSet(members') = ToSet(ValueNames(a.typeName))
    BY DEF ValuesOf
  <2>1. PICK got \in Exec(ValueNames(a.typeName)) :
          /\ members' = FoldLeft(TakeValue, << >>, got.rows)
          /\ faults' = faults + got.failed
    BY <1>2 DEF SelectMembers, IsStruct
  <2>2. got.rows = ValueNames(a.typeName)
    <3>1. got.failed = 0
      BY <2>1, ValueNamesFound, ExecRows
    <3> QED
      BY <3>1, ValueNamesFound, ExecRows
  <2> QED
    BY <2>1, <2>2, ValueNamesFound, ValuesTaken
<1> QED
  BY <1>1, <1>3 DEF a

\* The steps of extract_from_db, and those that leave to the function what it has
\* found.
Later == {"copy", "base", "returned"} \cup Turned

LEMMA LaterSteps ==
  ASSUME Next
  PROVE  \/ OpenDatabase \/ OpenDatabaseFails \/ CheckName \/ SelectFunction
         \/ SelectArguments
         \/ pc \in Later /\ pc' \in Later \ {"copy"} /\ UNCHANGED func
<1>1. CASE ExtractFromDb
  BY <1>1 DEF ExtractFromDb
<1>2. CASE Disclose
  BY <1>2 DEF Disclose, TypeDisclosure, OpenType, OpenTypeFails, SelectMembers, Goto,
              Turned, Later
<1>3. CASE CopyFunction
  BY <1>3 DEF CopyFunction, Goto, Later
<1>4. CASE CopyArgument
  BY <1>4 DEF CopyArgument, Goto, Turned, Later
<1>5. CASE CopyField
  BY <1>5 DEF CopyField, Turned, Later
<1>6. CASE PushArgument
  BY <1>6 DEF PushArgument, Goto, Turned, Later
<1>7. CASE Return
  BY <1>7 DEF Return, Goto, Later
<1> QED
  BY <1>1, <1>2, <1>3, <1>4, <1>5, <1>6, <1>7 DEF Next, Step

\* The function and its list of arguments are those of the tables.
LEMMA WholeFunctionNext ==
  ASSUME IsDatabase(db), CallInv, WholeFunction, Next, faults = 0, faults' = 0
  PROVE  WholeFunction'
<1>0. /\ UNCHANGED <<db, name>>
      /\ FunctionsNamed(name)' = FunctionsNamed(name)
      /\ ArgumentsNamed(name)' = ArgumentsNamed(name)
  BY FaultsGrow, TablesStay
<1>1. CASE OpenDatabase
  BY <1>1 DEF OpenDatabase, Goto, WholeFunction
<1>2. CASE OpenDatabaseFails
  BY <1>2 DEF OpenDatabaseFails
<1>3. CASE CheckName
  <2>1. UNCHANGED func /\ func = NoFunction
    BY <1>3 DEF CheckName, CallInv, Copied
  <2>2. CASE FunctionsNamed(name) # << >>
    <3>1. pc' = "function"
      BY <1>3, <2>2 DEF CheckName, Goto
    <3> QED
      BY <1>0, <2>2, <3>1 DEF WholeFunction
  <2>3. CASE FunctionsNamed(name) = << >>
    <3>1. pc' = "copy"
      BY <1>3, <2>3 DEF CheckName, Goto
    <3>2. ArgumentsNamed(name) = {}
      BY <2>3, NobodysArguments
    <3>3. ToSet(NoFunction.arguments) = {}
      BY DEF NoFunction, ToSet
    <3> QED
      BY <1>0, <2>1, <2>3, <3>1, <3>2, <3>3 DEF WholeFunction
  <2> QED
    BY <2>2, <2>3
<1>4. CASE SelectFunction
  <2>1. PICK got \in Exec(FunctionsNamed(name)) :
          /\ func' = IF got.rows = << >> THEN func
                     ELSE LET r == Last(got.rows)
                          IN  [func EXCEPT !.api = r.api, !.dll = r.dll, !.ret = r.ret]
          /\ faults' = faults + got.failed
    BY <1>4 DEF SelectFunction
  <2>2. pc = "function" /\ pc' = "arguments"
    BY <1>4 DEF SelectFunction, Goto
  <2>3. got.rows = FunctionsNamed(name) /\ FunctionsNamed(name) # << >>
    <3>1. got.failed = 0
      BY <2>1, FunctionFound, ExecRows
    <3> QED
      BY <2>2, <3>1, FunctionFound, ExecRows DEF WholeFunction
  <2> DEFINE r == Last(FunctionsNamed(name))
  <2>4. r \in ToSet(FunctionsNamed(name))
    BY <2>3, FunctionFound DEF Last, ToSet
  <2>5. func'.api = r.api /\ func'.dll = r.dll /\ func'.ret = r.ret
    BY <2>1, <2>3 DEF CallInv, Shapes, Functions
  <2> HIDE DEF r
  <2> QED
    BY <1>0, <2>2, <2>3, <2>4, <2>5 DEF WholeFunction
<1>5. CASE SelectArguments
  <2>1. PICK got \in Exec(ArgumentRows(name)) :
          /\ func' = [func EXCEPT !.arguments = FoldLeft(TakeArgument, << >>, got.rows)]
          /\ faults' = faults + got.failed
    BY <1>5 DEF SelectArguments
  <2>2. pc = "arguments" /\ pc' = "copy"
    BY <1>5 DEF SelectArguments, Goto
  <2>4. ToSet(func'.arguments) = ArgumentsNamed(name)
    BY <1>5, AllArgumentsTaken
  <2>5. func'.api = func.api /\ func'.dll = func.dll /\ func'.ret = func.ret
    BY <2>1 DEF CallInv, Shapes, Functions
  <2> QED
    BY <1>0, <2>2, <2>4, <2>5 DEF WholeFunction
<1>6. CASE pc \in Later /\ pc' \in Later \ {"copy"} /\ UNCHANGED func
  BY <1>0, <1>6 DEF WholeFunction, Turned, Later
<1> QED
  BY <1>1, <1>2, <1>3, <1>4, <1>5, <1>6, LaterSteps

\* The values of an alias are those of the table, each once.
LEMMA WholeValuesNext ==
  ASSUME IsDatabase(db), CallInv, WholeValues, Next, faults = 0, faults' = 0
  PROVE  WholeValues'
<1>0. /\ UNCHANGED <<db, name>>
      /\ \A list, a : ValuesOf(list, a)' = ValuesOf(list, a)
  BY FaultsGrow, TablesStay
<1>1. CASE pc' # "members" /\ UNCHANGED result
  BY <1>0, <1>1 DEF WholeValues, ValuesOf, ValueNames
<1>2. CASE CopyFunction
  <2>1. pc' = "base" /\ Len(result'.arguments) = 0
    BY <1>2 DEF CopyFunction, Goto, CallInv, Shapes, Functions
  <2> QED
    BY <2>1 DEF WholeValues
<1>3. CASE CopyField
  <2>1. UNCHANGED <<pc, members, result>> /\ arg'.of = arg.of
    <3>1. arg \in Args
      BY <1>3 DEF CopyField, CallInv, Shapes, Turned
    <3> QED
      BY <1>3, <3>1 DEF CopyField, Args
  <2> QED
    BY <1>0, <2>1 DEF WholeValues, ValuesOf, ValueNames
<1>4. CASE PushArgument
  <2> DEFINE whole == IF arg.of.kind = "Alias" THEN [arg EXCEPT !.defVal = members] ELSE arg
  <2>1. /\ pc = "members" /\ pc' = "base"
        /\ result' = [result EXCEPT !.arguments = Append(@, whole)]
    BY <1>4 DEF PushArgument, Goto
  <2>2. arg \in Args
    BY <2>1 DEF CallInv, Shapes, Turned
  <2>3. ValuesOf(whole.defVal, whole.of)
    <3>1. ValuesOf(members, arg.of)
      BY <2>1 DEF WholeValues
    <3>2. CASE arg.of.kind = "Alias"
      BY <2>2, <3>1, <3>2 DEF Args
    <3>3. CASE arg.of.kind # "Alias"
      BY <3>3 DEF ValuesOf
    <3> QED
      BY <3>2, <3>3
  <2> HIDE DEF whole
  <2>4. result.arguments \in Seq(Args) /\ result'.arguments = Append(result.arguments, whole)
    BY <2>1 DEF CallInv, Shapes
  <2>5. ASSUME NEW k \in 1 .. Len(result'.arguments)
        PROVE  ValuesOf(result'.arguments[k].defVal, result'.arguments[k].of)
    <3>1. CASE k = Len(result.arguments) + 1
      BY <2>3, <2>4, <3>1
    <3>2. CASE k # Len(result.arguments) + 1
      <4>1. k \in 1 .. Len(result.arguments) /\ result'.arguments[k] = result.arguments[k]
        BY <2>4, <3>2
      <4> QED
        BY <4>1 DEF WholeValues
    <3> QED
      BY <3>1, <3>2
  <2> QED
    BY <1>0, <2>1, <2>5 DEF WholeValues, ValuesOf, ValueNames
<1>5. CASE Disclose /\ pc' = "members" /\ UNCHANGED <<arg, result>>
  <2>1. ValuesOf(members', arg.of)
    BY <1>5, AllValuesTaken
  <2> QED
    BY <1>0, <1>5, <2>1 DEF WholeValues, ValuesOf, ValueNames
<1>6. \/ pc' # "members" /\ UNCHANGED result
      \/ CopyFunction \/ CopyField \/ PushArgument
      \/ Disclose /\ pc' = "members" /\ UNCHANGED <<arg, result>>
  <2>1. CASE ExtractFromDb /\ UNCHANGED <<arg, result>>
    BY <2>1 DEF ExtractFromDb, OpenDatabase, OpenDatabaseFails, CheckName,
                SelectFunction, SelectArguments, Goto
  <2>2. CASE CopyArgument
    BY <2>2 DEF CopyArgument, Goto
  <2>3. CASE Return
    BY <2>3 DEF Return, Goto
  <2> QED
    BY <2>1, <2>2, <2>3 DEF Next, Step
<1> QED
  BY <1>1, <1>2, <1>3, <1>4, <1>5, <1>6

-----------------------------------------------------------------------------
(* The theorems about functionInformation                                  *)

Inv == db \in Databases /\ CallInv /\ WholeInv

\* A call begins with nothing.
LEMMA CallInitInv == CallInit => CallInv /\ WholeInv
<1> SUFFICES ASSUME CallInit PROVE CallInv /\ WholeInv
  OBVIOUS
<1>1. ConnectionInv
  BY DEF CallInit, QueryInit, ConnectionInv, Connected
<1>2. func = NoFunction /\ result = NoFunction /\ pc = "open" /\ faults = 0
  BY DEF CallInit, QueryInit
<1>3. /\ NoFunction \in Functions /\ Len(NoFunction.arguments) = 0
      /\ NoFunction \in [api : Texts \cup {NONE}, dll : Texts \cup {NONE},
                         ret : TypeNames \cup {NONE}, arguments : Seq(Args)]
      /\ DOMAIN NoFunction.arguments = {}
  <2>1. << >> \in Seq(Args) /\ << >> \in Seq(Arguments) /\ Len(<< >>) = 0
    OBVIOUS
  <2> QED
    BY <2>1 DEF NoFunction, Functions
<1>4. Shapes
  BY <1>2, <1>3, BoundAssumption DEF Shapes, Turned, CallInit, QueryInit
<1>5. FoundInOrder
  BY <1>2, <1>3 DEF FoundInOrder, IsInjective
<1>6. Copied
  BY <1>2, <1>3 DEF Copied, Turned
<1>7. WholeInv
  BY <1>2, <1>3 DEF WholeInv, WholeFunction, WholeValues
<1> QED
  BY <1>1, <1>4, <1>5, <1>6, <1>7 DEF CallInv

LEMMA InvNext == Inv /\ [Next]_vars => Inv'
<1> SUFFICES ASSUME Inv, [Next]_vars PROVE Inv'
  OBVIOUS
<1>0. IsDatabase(db)
  BY DatabasesAssumption DEF Inv
<1>1. CASE Next
  <2>1. CallInv' /\ db' = db
    BY <1>0, <1>1, CallNext DEF Inv, Next
  <2>2. WholeInv'
    BY <1>0, <1>1, FaultsGrow, WholeFunctionNext, WholeValuesNext DEF Inv, WholeInv
  <2> QED
    BY <2>1, <2>2 DEF Inv
<1>2. CASE UNCHANGED vars
  BY <1>2 DEF vars, Inv, CallInv, ConnectionInv, Shapes, FoundInOrder, Copied, Based,
              WholeInv, WholeFunction, WholeValues, FunctionsNamed, ArgumentsNamed,
              Argument, ValuesOf, ValueNames, Turn
<1> QED
  BY <1>1, <1>2

LEMMA InvHolds == Spec => []Inv
<1>1. Init => Inv
  BY CallInitInv DEF Init, Inv
<1> QED
  BY <1>1, InvNext, PTL DEF Spec

\* The shape of the variables, over every database the foreign keys allow.
THEOREM TypeCorrectness == Spec => []TypeOK
<1>1. Inv => TypeOK
  <2> SUFFICES ASSUME Inv PROVE TypeOK
    OBVIOUS
  <2>1. IsDatabase(db)
    BY DatabasesAssumption DEF Inv
  <2> QED
    BY <2>1, BoundAssumption DEF Inv, CallInv, ConnectionInv, Connected, Shapes,
                                 Functions, Copied, TypeOK, QueryTypeOK
<1> QED
  BY <1>1, InvHolds, PTL

\* Whatever fails: no argument is read twice although the table may hold it any
\* number of times, the list is in the order of the declaration, nothing is in it
\* that the table does not give to the name, and what has been copied into the
\* Result is a beginning of that list, each argument with its own base.
THEOREM PartOfAnswerHolds == Spec => []PartOfAnswer
<1>1. Inv => PartOfAnswer
  <2> SUFFICES ASSUME Inv PROVE PartOfAnswer
    OBVIOUS
  <2>1. DOMAIN result.arguments = 1 .. Len(result.arguments)
    BY DEF Inv, CallInv, Shapes
  <2> QED
    BY <2>1 DEF Inv, CallInv, Copied, Based, PartOfAnswer
<1> QED
  BY <1>1, InvHolds, PTL

\* A call in which nothing fails returns all the arguments that the table has for
\* the name, once, a function of the name if there is one, all the values of every
\* alias, and trees without flaws.
THEOREM WholeAnswerHolds == Spec => []WholeAnswer
<1>1. Inv => WholeAnswer
  <2> SUFFICES ASSUME Inv, pc = "returned", faults = 0
               PROVE  /\ {a.of : a \in ToSet(result.arguments)} = ArgumentsNamed(name)
                      /\ Len(result.arguments) = Len(func.arguments)
                      /\ IF FunctionsNamed(name) = << >> THEN result = NoFunction
                         ELSE \E r \in ToSet(FunctionsNamed(name)) :
                                /\ result.api = r.api /\ result.dll = r.dll
                                /\ result.ret = r.ret
                      /\ \A a \in ToSet(result.arguments) :
                           /\ a.base # NONE => a.base.flaws = 0
                           /\ a.of.kind = "Alias" =>
                                /\ IsInjective(a.defVal)
                                /\ ToSet(a.defVal) = ToSet(ValueNames(a.of.typeName))
    BY DEF WholeAnswer
  <2>0. /\ result.arguments \in Seq(Args) /\ func.arguments \in Seq(Arguments)
        /\ DOMAIN result.arguments = 1 .. Len(result.arguments)
        /\ DOMAIN func.arguments = 1 .. Len(func.arguments)
    BY DEF Inv, CallInv, Shapes, Functions
  <2>1. /\ Len(result.arguments) = Len(func.arguments)
        /\ result.api = func.api /\ result.dll = func.dll /\ result.ret = func.ret
        /\ \A k \in 1 .. Len(result.arguments) :
             result.arguments[k].of = func.arguments[k] /\ Based(result.arguments[k])
    BY DEF Inv, CallInv, Copied
  <2>2. WholeFunction /\ WholeValues
    BY DEF Inv, WholeInv
  <2>3. {a.of : a \in ToSet(result.arguments)} = ArgumentsNamed(name)
    <3>1. {a.of : a \in ToSet(result.arguments)} =
            {result.arguments[k].of : k \in 1 .. Len(result.arguments)}
      BY <2>0 DEF ToSet
    <3>2. {func.arguments[k] : k \in 1 .. Len(func.arguments)} = ArgumentsNamed(name)
      BY <2>0, <2>2 DEF WholeFunction, ToSet
    <3> QED
      BY <2>1, <3>1, <3>2
  <2>4. CASE FunctionsNamed(name) = << >>
    <3>1. func = NoFunction
      BY <2>2, <2>4 DEF WholeFunction
    <3>2. result.arguments = << >>
      BY <2>0, <2>1, <3>1 DEF NoFunction
    <3>3. result = NoFunction
      BY <2>1, <3>1, <3>2 DEF NoFunction, Inv, CallInv, Shapes
    <3>4. ToSet(result.arguments) = {}
      BY <3>2 DEF ToSet
    <3> QED
      BY <2>1, <2>3, <2>4, <3>3, <3>4
  <2>5. CASE FunctionsNamed(name) # << >>
    <3>1. \E r \in ToSet(FunctionsNamed(name)) :
            result.api = r.api /\ result.dll = r.dll /\ result.ret = r.ret
      BY <2>1, <2>2, <2>5 DEF WholeFunction
    <3>2. ASSUME NEW k \in 1 .. Len(result.arguments)
          PROVE  LET a == result.arguments[k]
                 IN  /\ a.base # NONE => a.base.flaws = 0
                     /\ a.of.kind = "Alias" =>
                          /\ IsInjective(a.defVal)
                          /\ ToSet(a.defVal) = ToSet(ValueNames(a.of.typeName))
      BY <2>1, <2>2 DEF Based, Trees, WholeValues, ValuesOf
    <3>3. \A a \in ToSet(result.arguments) : \E k \in 1 .. Len(result.arguments) :
            a = result.arguments[k]
      BY <2>0 DEF ToSet
    <3> QED
      BY <2>1, <2>3, <2>5, <3>1, <3>2, <3>3
  <2> QED
    BY <2>4, <2>5
<1> QED
  BY <1>1, InvHolds, PTL

\* functionInformation holds a connection only between the calls of SQLite that
\* need it: none while typeInformation opens its own, none at any of the
\* returns.
THEOREM NothingLeftOpenHolds == Spec => []NothingLeftOpen
<1>1. Inv => NothingLeftOpen
  BY DEF Inv, CallInv, ConnectionInv, NothingLeftOpen, Connected
<1> QED
  BY <1>1, InvHolds, PTL

-----------------------------------------------------------------------------
(* The first generation                                                    *)

FlawAdding == INSTANCE Folding WITH Op <- LAMBDA p, x, y : x + y.tree.flaws
FlawSumming == INSTANCE Folding WITH Op <- LAMBDA p, x, y : x + FlawsOf(y)

\* The flaws of all the trees of some arguments.
Flaws(list) == FoldLeft(LAMBDA n, a : n + FlawsOf(a), 0, list)

\* The two sums of flaws.
LEMMA FlawsOfFold ==
  ASSUME NEW s
  PROVE  FoldLeft(LAMBDA n, f : n + f.tree.flaws, 0, s) = FlawAdding!Fold(0, 0, s)
BY DEF FlawAdding!Fold, FlawAdding!FoldLeft, FoldLeft, FlawAdding!MapThenFoldSet,
       MapThenFoldSet, FlawAdding!Max, Max

LEMMA FlawsFold ==
  ASSUME NEW s
  PROVE  Flaws(s) = FlawSumming!Fold(0, 0, s)
BY DEF Flaws, FlawSumming!Fold, FlawSumming!FoldLeft, FoldLeft,
       FlawSumming!MapThenFoldSet, MapThenFoldSet, FlawSumming!Max, Max

\* They are natural numbers.
LEMMA FieldFlawsNatural ==
  ASSUME NEW s \in Seq(FieldTrees)
  PROVE  FlawAdding!Fold(0, 0, s) \in Nat
<1> DEFINE I == [k \in 0 .. Len(s) |-> Nat]
<1>1. \A k \in 1 .. Len(s) : s[k].tree.flaws \in Nat
  <2>1. \A k \in 1 .. Len(s) : s[k] \in FieldTrees
    OBVIOUS
  <2> QED
    BY <2>1 DEF FieldTrees, Trees
<1>2. FlawAdding!IsSequence(s) /\ 0 \in I[0]
  BY DEF FlawAdding!IsSequence
<1>3. \A k \in 1 .. Len(s) : \A x \in I[k - 1] : x + s[k].tree.flaws \in I[k]
  BY <1>1
<1>4. FlawAdding!Fold(0, 0, s) \in I[Len(s)]
  <2> HIDE DEF I
  <2> QED
    BY <1>2, <1>3, FlawAdding!FoldInduction
<1> QED
  BY <1>4

LEMMA FlawsOfNatural ==
  ASSUME NEW a \in Args
  PROVE  FlawsOf(a) \in Nat
<1> DEFINE own == IF a.base = NONE THEN 0 ELSE a.base.flaws
<1>1. a.fields \in Seq(FieldTrees) /\ own \in Nat
  BY DEF Args, Trees
<1>2. FlawsOf(a) = own + FlawAdding!Fold(0, 0, a.fields)
  BY FlawsOfFold DEF FlawsOf
<1> HIDE DEF own
<1> QED
  BY <1>1, <1>2, FieldFlawsNatural

LEMMA FlawsNaturals ==
  ASSUME NEW s \in Seq(Args)
  PROVE  Flaws(s) \in Nat
<1> DEFINE I == [k \in 0 .. Len(s) |-> Nat]
<1>1. FlawSumming!Fold(0, 0, s) \in I[Len(s)]
  <2>1. FlawSumming!IsSequence(s) /\ 0 \in I[0]
    BY DEF FlawSumming!IsSequence
  <2>2. \A k \in 1 .. Len(s) : FlawsOf(s[k]) \in Nat
    BY FlawsOfNatural
  <2>3. \A k \in 1 .. Len(s) : \A x \in I[k - 1] : x + FlawsOf(s[k]) \in I[k]
    BY <2>2
  <2> HIDE DEF I
  <2> QED
    BY <2>1, <2>3, FlawSumming!FoldInduction
<1> QED
  BY <1>1, FlawsFold

\* An argument, and a field of it, more.
LEMMA FlawsAppend ==
  ASSUME NEW s \in Seq(Args), NEW a \in Args
  PROVE  Flaws(Append(s, a)) = Flaws(s) + FlawsOf(a)
<1> DEFINE u == Append(s, a)
<1>1. /\ FlawSumming!IsSequence(s) /\ FlawSumming!IsSequence(u)
      /\ Len(u) = Len(s) + 1 /\ u[Len(u)] = a
      /\ \A k \in 1 .. Len(s) : u[k] = s[k]
  BY DEF FlawSumming!IsSequence
<1> HIDE DEF u
<1>2. FlawSumming!Fold(0, 0, u) = FlawSumming!Fold(0, 0, s) + FlawsOf(u[Len(u)])
  BY <1>1, FlawSumming!FoldAppend
<1> QED
  BY <1>1, <1>2, FlawsFold DEF u

LEMMA FlawsOfField ==
  ASSUME NEW a \in Args, NEW f \in FieldTrees
  PROVE  FlawsOf([a EXCEPT !.fields = Append(@, f)]) = FlawsOf(a) + f.tree.flaws
<1> DEFINE s == a.fields
           u == Append(s, f)
           b == [a EXCEPT !.fields = Append(@, f)]
<1>0. s \in Seq(FieldTrees) /\ b.fields = u /\ b.base = a.base /\ b \in Args
  <2>1. s \in Seq(FieldTrees)
    BY DEF Args
  <2>2. Append(s, f) \in Seq(FieldTrees)
    BY <2>1
  <2> QED
    BY <2>1, <2>2 DEF Args
<1>1. /\ FlawAdding!IsSequence(s) /\ FlawAdding!IsSequence(u)
      /\ Len(u) = Len(s) + 1 /\ u[Len(u)] = f
      /\ \A k \in 1 .. Len(s) : u[k] = s[k]
  BY <1>0 DEF FlawAdding!IsSequence
<1> HIDE DEF u, b, s
<1>2. FlawAdding!Fold(0, 0, u) = FlawAdding!Fold(0, 0, s) + u[Len(u)].tree.flaws
  BY <1>1, FlawAdding!FoldAppend
<1> DEFINE own == IF a.base = NONE THEN 0 ELSE a.base.flaws
<1>3. /\ FlawsOf(a) = own + FlawAdding!Fold(0, 0, s)
      /\ FlawsOf(b) = own + FlawAdding!Fold(0, 0, u)
  BY <1>0, FlawsOfFold DEF FlawsOf, s
<1>4. own \in Nat /\ f.tree.flaws \in Nat
  BY DEF Args, Trees, FieldTrees
<1>5. FlawAdding!Fold(0, 0, s) \in Nat
  BY <1>0, FieldFlawsNatural
<1> HIDE DEF own
<1> QED
  BY <1>1, <1>2, <1>3, <1>4, <1>5 DEF b

\* The two programs share the queries and the callbacks.
LEMMA OldWhere ==
  ASSUME NEW rows, NEW column, NEW value
  PROVE  Old!Where(rows, column, value) = Where(rows, column, value)
BY DEF Old!Where, Where, Old!FoldLeft, FoldLeft, Old!MapThenFoldSet, MapThenFoldSet,
       Old!Max, Max

LEMMA OldFlatten ==
  ASSUME NEW ss
  PROVE  Old!FlattenSeq(ss) = FlattenSeq(ss)
BY DEF Old!FlattenSeq, FlattenSeq

LEMMA OldArgumentsTaken ==
  ASSUME NEW rows
  PROVE  Old!FoldLeft(Old!TakeArgument, << >>, rows) = FoldLeft(TakeArgument, << >>, rows)
BY DEF Old!TakeArgument, TakeArgument, Old!FoldLeft, FoldLeft, Old!MapThenFoldSet,
       MapThenFoldSet, Old!Max, Max, Old!ToSet, ToSet, Old!InsertAt, InsertAt

LEMMA OldValuesTaken ==
  ASSUME NEW rows
  PROVE  Old!FoldLeft(Old!TakeValue, << >>, rows) = FoldLeft(TakeValue, << >>, rows)
BY DEF Old!TakeValue, TakeValue, Old!FoldLeft, FoldLeft, Old!MapThenFoldSet,
       MapThenFoldSet, Old!Max, Max, Old!ToSet, ToSet

LEMMA OldQueries ==
  /\ \A n : Old!FunctionsNamed(n) = FunctionsNamed(n)
  /\ \A n : Old!ArgumentRows(n) = ArgumentRows(n)
  /\ \A n : Old!FieldArguments(n) = FieldArguments(n)
  /\ \A n : Old!ValueNames(n) = ValueNames(n)
<1>1. \A n : Old!FunctionsNamed(n) = FunctionsNamed(n)
  BY OldWhere DEF Old!FunctionsNamed, FunctionsNamed
<1>2. \A n : Old!ArgumentRows(n) = ArgumentRows(n)
  BY OldWhere, OldFlatten DEF Old!ArgumentRows, ArgumentRows, Old!Argument, Argument,
     Old!NoArgument, NoArgument
<1>3. \A n : Old!FieldArguments(n) = FieldArguments(n)
  BY OldWhere DEF Old!FieldArguments, FieldArguments
<1>4. \A n : Old!ValueNames(n) = ValueNames(n)
  BY OldWhere DEF Old!ValueNames, ValueNames
<1> QED
  BY <1>1, <1>2, <1>3, <1>4

\* A field takes its kind from the type it is named by: what SetCallback took.
FieldsRead == {f \in FieldsTaken : f.kind = db.types[f.name].base}

LEMMA FieldArgumentsRead ==
  ASSUME IsDatabase(db), NEW n
  PROVE  FieldArguments(n) \in Seq(FieldsRead)
<1>1. FieldArguments(n) \in Seq(FieldsTaken)
  BY FieldArgumentsFound
<1>2. \A m \in DOMAIN FieldArguments(n) :
        FieldArguments(n)[m].kind = db.types[FieldArguments(n)[m].name].base
  BY DEF FieldArguments
<1>3. \A m \in 1 .. Len(FieldArguments(n)) : FieldArguments(n)[m] \in FieldsRead
  <2> DEFINE s == FieldArguments(n)
  <2>1. s \in Seq(FieldsTaken) /\ \A m \in DOMAIN s : s[m].kind = db.types[s[m].name].base
    BY <1>1, <1>2
  <2> HIDE DEF s
  <2>2. \A m \in 1 .. Len(s) : s[m] \in FieldsRead
    BY <2>1 DEF FieldsRead
  <2> QED
    BY <2>2 DEF s
<1> QED
  BY <1>1, <1>3

\* The fields that have been copied are those that were read, tree by tree.
Fitted ==
  pc \in Turned =>
    /\ arg.defVal = << >>
    /\ pc # "members" \/ ~IsStruct(arg.of.kind) => arg.fields = << >>
    /\ pc = "members" /\ IsStruct(arg.of.kind) =>
         /\ members \in Seq(FieldsRead) /\ Len(arg.fields) <= Len(members)
         /\ \A k \in 1 .. Len(arg.fields) :
              /\ arg.fields[k].name = members[k].name
              /\ arg.fields[k].tree.of = members[k].typeName

LEMMA FittedNext ==
  ASSUME Inv, Fitted, Next
  PROVE  Fitted'
<1>0. IsDatabase(db) /\ db' = db
  BY DatabasesAssumption DEF Inv, Next
<1>1. CASE pc' \notin Turned
  BY <1>1 DEF Fitted
<1>2. CASE Disclose /\ UNCHANGED <<arg, result>>
  <2> DEFINE a == func.arguments[Turn]
  <2>1. pc \in {"disclose", "select"} /\ pc' \in {"select", "members"}
    BY <1>2 DEF Disclose, TypeDisclosure, OpenType, OpenTypeFails, SelectMembers, Goto
  <2>2. arg.defVal = << >> /\ arg.fields = << >> /\ arg.of = a
    BY <2>1 DEF Fitted, Turned, Inv, CallInv, Copied
  <2>3. pc' = "members" /\ IsStruct(a.kind) => members' \in Seq(FieldsRead)
    <3>1. CASE OpenType
      BY <3>1 DEF OpenType, Goto
    <3>2. CASE OpenTypeFails
      BY <3>2 DEF OpenTypeFails
    <3>3. CASE SelectMembers(a) /\ IsStruct(a.kind)
      <4>1. PICK got \in Exec(FieldArguments(a.typeName)) :
              members' = FoldLeft(TakeArgument, << >>, got.rows)
        BY <3>3 DEF SelectMembers, IsStruct
      <4>2. got.rows \in Seq(FieldsRead)
        BY <1>0, <4>1, FieldArgumentsRead, ExecRows
      <4>3. \A x \in FieldsRead : x.order \in Int
        BY DEF FieldsRead, FieldsTaken
      <4> QED
        BY <4>1, <4>2, <4>3, ArgumentsTaken
    <3> HIDE DEF a
    <3> QED
      BY <1>2, <3>1, <3>2, <3>3 DEF Disclose, TypeDisclosure, a
  <2> HIDE DEF a
  <2>4. members' \in Seq(FieldsRead)' <=> members' \in Seq(FieldsRead)
    BY <1>0 DEF FieldsRead
  <2>5. members' \in Seq(FieldsRead) => 0 <= Len(members')
    OBVIOUS
  <2> QED
    BY <1>2, <2>1, <2>2, <2>3, <2>4, <2>5 DEF Fitted, Turned
<1>3. CASE CopyArgument
  <2>1. /\ pc' = "disclose" /\ arg'.fields = << >> /\ arg'.defVal = << >>
    BY <1>3 DEF CopyArgument, Goto, NoArg
  <2> QED
    BY <2>1 DEF Fitted, Turned
<1>4. CASE CopyField
  <2> DEFINE m == members[Len(arg.fields) + 1]
  <2>1. /\ pc = "members" /\ IsStruct(arg.of.kind) /\ Len(arg.fields) < Len(members)
        /\ UNCHANGED <<pc, members>>
    BY <1>4 DEF CopyField
  <2>2. /\ arg \in Args /\ arg.fields \in Seq(FieldTrees) /\ arg.defVal = << >>
        /\ members \in Seq(FieldsRead)
        /\ \A k \in 1 .. Len(arg.fields) :
              /\ arg.fields[k].name = members[k].name
              /\ arg.fields[k].tree.of = members[k].typeName
    BY <2>1 DEF Fitted, Turned, Inv, CallInv, Shapes, Args
  <2>3. PICK tree \in TypeInformation(m.typeName) :
          arg' = [arg EXCEPT !.fields =
             Append(@, [name |-> m.name, order |-> m.order, tree |-> tree])]
    BY <1>4 DEF CopyField
  <2>4. tree.of = m.typeName
    BY DEF TypeInformation
  <2> DEFINE f == [name |-> m.name, order |-> m.order, tree |-> tree]
  <2>5. arg'.fields = Append(arg.fields, f) /\ arg'.of = arg.of /\ arg'.defVal = << >>
    BY <2>2, <2>3 DEF Args
  <2>6. f.name = m.name /\ f.tree.of = m.typeName
    BY <2>4
  <2> HIDE DEF f
  <2>7. /\ Len(arg'.fields) = Len(arg.fields) + 1
        /\ Len(arg'.fields) <= Len(members)
        /\ \A k \in 1 .. Len(arg.fields) : arg'.fields[k] = arg.fields[k]
        /\ arg'.fields[Len(arg.fields) + 1] = f
    BY <2>1, <2>2, <2>5
  <2>8. ASSUME NEW k \in 1 .. Len(arg'.fields)
        PROVE  /\ arg'.fields[k].name = members[k].name
               /\ arg'.fields[k].tree.of = members[k].typeName
    <3>1. CASE k = Len(arg.fields) + 1
      BY <2>6, <2>7, <3>1
    <3>2. CASE k # Len(arg.fields) + 1
      <4>1. k \in 1 .. Len(arg.fields)
        BY <2>2, <2>7, <3>2
      <4> QED
        BY <2>2, <2>7, <4>1
    <3> QED
      BY <3>1, <3>2
  <2>9. members' \in Seq(FieldsRead)'
    BY <1>0, <2>1, <2>2 DEF FieldsRead
  <2> QED
    BY <2>1, <2>5, <2>7, <2>8, <2>9 DEF Fitted
<1>5. pc' \notin Turned \/ CopyArgument \/ CopyField \/ (Disclose /\ UNCHANGED <<arg, result>>)
  <2>1. CASE ExtractFromDb
    BY <2>1 DEF ExtractFromDb, OpenDatabase, OpenDatabaseFails, CheckName,
                SelectFunction, SelectArguments, Goto, Turned
  <2>2. CASE CopyFunction
    BY <2>2 DEF CopyFunction, Goto, Turned
  <2>3. CASE PushArgument
    BY <2>3 DEF PushArgument, Goto, Turned
  <2>4. CASE Return
    BY <2>4 DEF Return, Goto, Turned
  <2> QED
    BY <2>1, <2>2, <2>3, <2>4 DEF Next, Step
<1> QED
  BY <1>1, <1>2, <1>3, <1>4, <1>5

\* The failures outside typeInformation, before a step and after it.
LEMMA OwnFaultsNow ==
  OwnFaults = faults - Flaws(result.arguments)
                     - (IF pc \in Turned THEN FlawsOf(arg) ELSE 0)
BY DEF OwnFaults, Flaws, Turned

LEMMA OwnFaultsNext ==
  OwnFaults' = faults' - Flaws(result'.arguments)
                       - (IF pc' \in Turned THEN FlawsOf(arg') ELSE 0)
<1>1. (OwnFaults = faults - Flaws(result.arguments)
                          - (IF pc \in Turned THEN FlawsOf(arg) ELSE 0))'
  BY OwnFaultsNow, PTL
<1> QED
  BY <1>1 DEF Turned

\* The failures outside typeInformation are some of the failures.
LEMMA OwnFaultsSum ==
  ASSUME Inv
  PROVE  /\ OwnFaults = faults - Flaws(result.arguments)
                          - (IF pc \in Turned THEN FlawsOf(arg) ELSE 0)
         /\ OwnFaults \in Int /\ OwnFaults <= faults
         /\ faults \in Nat /\ Flaws(result.arguments) \in Nat
         /\ pc \in Turned => FlawsOf(arg) \in Nat
<1>1. faults \in Nat /\ result.arguments \in Seq(Args) /\ (pc \in Turned => arg \in Args)
  BY BoundAssumption DEF Inv, CallInv, Shapes
<1>2. Flaws(result.arguments) \in Nat /\ (pc \in Turned => FlawsOf(arg) \in Nat)
  BY <1>1, FlawsNaturals, FlawsOfNatural
<1>3. OwnFaults = faults - Flaws(result.arguments)
                    - (IF pc \in Turned THEN FlawsOf(arg) ELSE 0)
  BY OwnFaultsNow
<1> QED
  BY <1>1, <1>2, <1>3

\* A query that may fail for this program may fail for the other.
LEMMA OldExec ==
  ASSUME Inv, NEW rows
  PROVE  Exec(rows) \subseteq Old!Exec(rows)
<1>1. OwnFaults \in Int /\ OwnFaults <= faults /\ faults \in Nat /\ MaxFaults \in Nat
  BY OwnFaultsSum, BoundAssumption
<1>2. faults < MaxFaults => OwnFaults < MaxFaults
  BY <1>1
<1>3. CASE faults < MaxFaults
  BY <1>2, <1>3 DEF Exec, Old!Exec
<1>4. CASE ~(faults < MaxFaults)
  BY <1>4 DEF Exec, Old!Exec
<1> QED
  BY <1>3, <1>4

\* The Result without its trees, as long as nothing is added to it.
LEMMA OldResultStays ==
  ASSUME Inv, UNCHANGED <<db, result>>
  PROVE  UNCHANGED OldResult
BY DEF OldResult, WithoutTrees

LEMMA OldArguments ==
  ASSUME Inv
  PROVE  /\ OldResult.api = result.api /\ OldResult.dll = result.dll
         /\ OldResult.ret = result.ret
         /\ OldResult.arguments = [k \in 1 .. Len(result.arguments) |->
                                     WithoutTrees(result.arguments[k])]
         /\ OldResult = [api |-> result.api, dll |-> result.dll, ret |-> result.ret,
                         arguments |-> OldResult.arguments]
         /\ Len(OldResult.arguments) = Len(result.arguments)
         /\ Old!Turn = Turn
<1>1. /\ result \in [api : Texts \cup {NONE}, dll : Texts \cup {NONE},
                     ret : TypeNames \cup {NONE}, arguments : Seq(Args)]
      /\ DOMAIN result.arguments = 1 .. Len(result.arguments)
      /\ Len(result.arguments) \in Nat
  BY DEF Inv, CallInv, Shapes
<1>2. /\ OldResult.api = result.api /\ OldResult.dll = result.dll
      /\ OldResult.ret = result.ret
      /\ OldResult.arguments = [k \in 1 .. Len(result.arguments) |->
                                  WithoutTrees(result.arguments[k])]
      /\ OldResult = [api |-> result.api, dll |-> result.dll, ret |-> result.ret,
                      arguments |-> OldResult.arguments]
  <2> DEFINE cut == [k \in DOMAIN result.arguments |-> WithoutTrees(result.arguments[k])]
  <2>1. OldResult = [result EXCEPT !.arguments = cut]
    BY DEF OldResult
  <2>2. cut = [k \in 1 .. Len(result.arguments) |-> WithoutTrees(result.arguments[k])]
    BY <1>1
  <2> HIDE DEF cut
  <2>3. OldResult = [api |-> result.api, dll |-> result.dll, ret |-> result.ret,
                     arguments |-> cut]
    BY <1>1, <2>1
  <2> QED
    BY <2>2, <2>3
<1>3. Len(OldResult.arguments) = Len(result.arguments)
  BY <1>1, <1>2
<1> QED
  BY <1>2, <1>3 DEF Old!Turn, Turn

\* A step of the queries is one of the same queries.
LEMMA OldExtractFromDb ==
  ASSUME Inv, ExtractFromDb, UNCHANGED <<db, arg, result>>
  PROVE  Old!Next
<1>0. UNCHANGED OldResult
  BY OldResultStays
<1>1. ASSUME faults' \in Nat, pc \notin Turned, pc' \notin Turned
      PROVE  OwnFaults' = OwnFaults + (faults' - faults)
  <2>1. OwnFaults' = faults' - Flaws(result.arguments)
    <3>1. Flaws(result.arguments) \in Nat
      BY OwnFaultsSum
    <3> QED
      BY <1>1, <3>1, OwnFaultsNext
  <2> QED
    BY <1>1, <2>1, OwnFaultsSum
<1>2. faults \in Nat /\ OwnFaults \in Int /\ (faults < MaxFaults => OwnFaults < MaxFaults)
  BY OwnFaultsSum, BoundAssumption
<1>3. CASE OpenDatabase
  <2>1. OwnFaults' = OwnFaults
    BY <1>1, <1>2, <1>3 DEF OpenDatabase, Goto, Turned
  <2> QED
    BY <1>0, <1>3, <2>1 DEF OpenDatabase, Goto, Old!OpenDatabase, Old!Goto,
                            Old!ExtractFromDb, Old!Next
<1>4. CASE OpenDatabaseFails
  <2>1. OwnFaults' = OwnFaults + 1
    BY <1>1, <1>2, <1>4 DEF OpenDatabaseFails, Goto, Turned
  <2> QED
    BY <1>0, <1>2, <1>4, <2>1 DEF OpenDatabaseFails, Goto, Old!OpenDatabaseFails,
                                  Old!Goto, Old!ExtractFromDb, Old!Next
<1>5. CASE CheckName
  <2>1. pc = "check" /\ pc' \in {"function", "copy"} /\ faults' \in {faults, faults + 1}
    BY <1>2, <1>5 DEF CheckName, Goto
  <2>2. OwnFaults' = OwnFaults + (faults' - faults)
    BY <1>1, <1>2, <2>1 DEF Turned
  <2>3. Old!FunctionsNamed(name) = FunctionsNamed(name)
    BY OldQueries
  <2>4. faults' = faults => OwnFaults' = OwnFaults
    BY <1>2, <2>2
  <2>5. faults' = faults + 1 => OwnFaults' = OwnFaults + 1
    BY <1>2, <2>2
  <2>6. Old!CheckName
    BY <1>2, <1>5, <2>3, <2>4, <2>5 DEF CheckName, Goto, Old!CheckName, Old!Goto
  <2> QED
    BY <1>0, <2>6 DEF Old!ExtractFromDb, Old!Next
<1>6. CASE SelectFunction
  <2>1. PICK got \in Exec(FunctionsNamed(name)) :
          /\ func' = IF got.rows = << >> THEN func
                     ELSE LET r == Last(got.rows)
                          IN  [func EXCEPT !.api = r.api, !.dll = r.dll, !.ret = r.ret]
          /\ faults' = faults + got.failed
    BY <1>6 DEF SelectFunction
  <2>2. got.failed \in Nat
    BY ExecFaults
  <2>3. pc = "function" /\ pc' = "arguments" /\ UNCHANGED <<name, members, handles, unclosed>>
    BY <1>6 DEF SelectFunction, Goto
  <2>4. OwnFaults' = OwnFaults + got.failed
    BY <1>1, <1>2, <2>1, <2>2, <2>3 DEF Turned
  <2>5. got \in Old!Exec(Old!FunctionsNamed(name))
    BY OldExec, OldQueries
  <2>6. Old!SelectFunction
    BY <2>1, <2>3, <2>4, <2>5 DEF Old!SelectFunction, Old!Goto, Old!Last, Last
  <2> QED
    BY <1>0, <2>6 DEF Old!ExtractFromDb, Old!Next
<1>7. CASE SelectArguments
  <2>1. PICK got \in Exec(ArgumentRows(name)) :
          /\ func' = [func EXCEPT !.arguments = FoldLeft(TakeArgument, << >>, got.rows)]
          /\ faults' = faults + got.failed
    BY <1>7 DEF SelectArguments
  <2>2. got.failed \in Nat
    BY ExecFaults
  <2>3. /\ pc = "arguments" /\ pc' = "copy" /\ handles' = handles - 1
        /\ UNCHANGED <<name, members, unclosed>>
    BY <1>7 DEF SelectArguments, Goto
  <2>4. OwnFaults' = OwnFaults + got.failed
    BY <1>1, <1>2, <2>1, <2>2, <2>3 DEF Turned
  <2>5. got \in Old!Exec(Old!ArgumentRows(name))
    BY OldExec, OldQueries
  <2>6. func' = [func EXCEPT !.arguments =
                   Old!FoldLeft(Old!TakeArgument, << >>, got.rows)]
    BY <2>1, OldArgumentsTaken
  <2>7. Old!SelectArguments
    BY <2>3, <2>4, <2>5, <2>6 DEF Old!SelectArguments, Old!Goto
  <2> QED
    BY <1>0, <2>7 DEF Old!ExtractFromDb, Old!Next
<1> QED
  BY <1>3, <1>4, <1>5, <1>6, <1>7 DEF ExtractFromDb

LEMMA OldDisclose ==
  ASSUME Inv, Disclose, UNCHANGED <<db, arg, result>>
  PROVE  Old!Next
<1> DEFINE a == func.arguments[Turn]
<1>0. UNCHANGED OldResult /\ Old!Turn = Turn
  BY OldResultStays, OldArguments
<1>1. ASSUME faults' \in Nat, pc \in Turned, pc' \in Turned
      PROVE  OwnFaults' = OwnFaults + (faults' - faults)
  <2>1. OwnFaults' = faults' - Flaws(result.arguments) - FlawsOf(arg)
    BY <1>1, OwnFaultsNext
  <2> QED
    BY <1>1, <2>1, OwnFaultsSum
<1>2. faults \in Nat /\ OwnFaults \in Int /\ (faults < MaxFaults => OwnFaults < MaxFaults)
  BY OwnFaultsSum, BoundAssumption
<1> HIDE DEF a
<1>3. CASE OpenType
  <2>1. OwnFaults' = OwnFaults
    BY <1>1, <1>2, <1>3 DEF OpenType, Goto, Turned
  <2>2. Old!OpenType
    BY <1>3, <2>1 DEF OpenType, Goto, Old!OpenType, Old!Goto
  <2> QED
    BY <1>0, <2>2 DEF Old!TypeDisclosure, Old!Disclose, Old!Next
<1>4. CASE OpenTypeFails
  <2>1. OwnFaults' = OwnFaults + 1
    BY <1>1, <1>2, <1>4 DEF OpenTypeFails, Goto, Turned
  <2>2. Old!OpenTypeFails
    BY <1>2, <1>4, <2>1 DEF OpenTypeFails, Goto, Old!OpenTypeFails, Old!Goto
  <2> QED
    BY <1>0, <2>2 DEF Old!TypeDisclosure, Old!Disclose, Old!Next
<1>5. CASE SelectMembers(a)
  <2>1. /\ pc = "select" /\ pc' = "members" /\ handles' = handles - 1
        /\ UNCHANGED <<name, func, unclosed>>
    BY <1>5 DEF SelectMembers, Goto
  <2>2. CASE IsStruct(a.kind)
    <3>1. PICK got \in Exec(FieldArguments(a.typeName)) :
            /\ members' = FoldLeft(TakeArgument, << >>, got.rows)
            /\ faults' = faults + got.failed
      BY <1>5, <2>2 DEF SelectMembers, IsStruct
    <3>2. OwnFaults' = OwnFaults + got.failed
      BY <1>1, <1>2, <2>1, <3>1, ExecFaults DEF Turned
    <3>3. got \in Old!Exec(Old!FieldArguments(a.typeName))
      BY OldExec, OldQueries
    <3>4. members' = Old!FoldLeft(Old!TakeArgument, << >>, got.rows)
      BY <3>1, OldArgumentsTaken
    <3>5. Old!IsStruct(a.kind)
      BY <2>2 DEF IsStruct, Old!IsStruct
    <3> QED
      BY <1>0, <2>1, <3>2, <3>3, <3>4, <3>5
      DEF Old!SelectMembers, Old!Goto, Old!TypeDisclosure, Old!Disclose, Old!Next, a
  <2>3. CASE a.kind = "Alias"
    <3>1. PICK got \in Exec(ValueNames(a.typeName)) :
            /\ members' = FoldLeft(TakeValue, << >>, got.rows)
            /\ faults' = faults + got.failed
      BY <1>5, <2>3 DEF SelectMembers, IsStruct
    <3>2. OwnFaults' = OwnFaults + got.failed
      BY <1>1, <1>2, <2>1, <3>1, ExecFaults DEF Turned
    <3>3. got \in Old!Exec(Old!ValueNames(a.typeName))
      BY OldExec, OldQueries
    <3>4. members' = Old!FoldLeft(Old!TakeValue, << >>, got.rows)
      BY <3>1, OldValuesTaken
    <3> QED
      BY <1>0, <2>1, <2>3, <3>2, <3>3, <3>4
      DEF Old!SelectMembers, Old!Goto, Old!TypeDisclosure, Old!Disclose, Old!Next, a
  <2>4. CASE ~IsStruct(a.kind) /\ a.kind # "Alias"
    <3>1. members' = << >> /\ faults' = faults
      BY <1>5, <2>4 DEF SelectMembers
    <3>2. OwnFaults' = OwnFaults
      BY <1>1, <1>2, <2>1, <3>1 DEF Turned
    <3>3. ~Old!IsStruct(a.kind)
      BY <2>4 DEF IsStruct, Old!IsStruct
    <3> QED
      BY <1>0, <2>1, <2>4, <3>1, <3>2, <3>3
      DEF Old!SelectMembers, Old!Goto, Old!TypeDisclosure, Old!Disclose, Old!Next, a
  <2> QED
    BY <2>2, <2>3, <2>4
<1> QED
  BY <1>3, <1>4, <1>5 DEF Disclose, TypeDisclosure, a

LEMMA OldCopyFunction ==
  ASSUME Inv, CopyFunction, UNCHANGED db
  PROVE  Old!Next
<1>1. /\ pc = "copy" /\ pc' = "base" /\ result' = [func EXCEPT !.arguments = << >>]
      /\ UNCHANGED <<name, func, members, handles, unclosed, faults>>
  BY DEF CopyFunction, Goto
<1>2. result'.arguments = << >> /\ OldResult' = result'
  <2>1. result' = [api |-> func.api, dll |-> func.dll, ret |-> func.ret, arguments |-> << >>]
    BY <1>1 DEF Inv, CallInv, Shapes, Functions
  <2>2. [k \in DOMAIN << >> |-> WithoutTrees(<< >>[k])]' = << >>
    OBVIOUS
  <2> QED
    BY <2>1, <2>2 DEF OldResult
<1>3. OwnFaults' = OwnFaults
  <2>1. result = NoFunction /\ result.arguments = result'.arguments
    BY <1>1, <1>2 DEF Inv, CallInv, Copied, NoFunction
  <2> QED
    BY <1>1, <2>1, OwnFaultsNow, OwnFaultsNext DEF Turned
<1> QED
  BY <1>1, <1>2, <1>3 DEF Old!CopyFunction, Old!Goto, Old!Next

LEMMA OldCopyArgument ==
  ASSUME Inv, Inv', CopyArgument, UNCHANGED db
  PROVE  Old!Next
<1>1. /\ pc = "base" /\ pc' = "disclose" /\ Turn <= Len(func.arguments)
      /\ UNCHANGED <<name, func, members, result, handles, unclosed>>
  BY DEF CopyArgument, Goto
<1>2. UNCHANGED OldResult /\ Old!Turn = Turn
  BY <1>1, OldResultStays, OldArguments
<1>3. faults' = faults + FlawsOf(arg')
  <2> DEFINE a == func.arguments[Turn]
  <2>1. arg' \in Args /\ faults \in Nat
    BY <1>1, BoundAssumption DEF Inv, CallInv, Shapes, Turned
  <2>2. arg'.fields = << >>
    BY DEF CopyArgument, NoArg
  <2>3. FlawsOf(arg') = IF arg'.base = NONE THEN 0 ELSE arg'.base.flaws
    <3> DEFINE b == arg'
    <3>1. b.fields = << >> /\ (IF b.base = NONE THEN 0 ELSE b.base.flaws) \in Int
      BY <2>1, <2>2 DEF Args, Trees
    <3> HIDE DEF b
    <3>2. FlawsOf(b) = (IF b.base = NONE THEN 0 ELSE b.base.flaws)
                       + FlawAdding!Fold(0, 0, b.fields)
      BY FlawsOfFold DEF FlawsOf
    <3>3. FlawsOf(b) = IF b.base = NONE THEN 0 ELSE b.base.flaws
      BY <3>1, <3>2, FlawAdding!FoldEmpty
    <3> QED
      BY <3>3 DEF b
  <2>4. CASE a.baseTypeName = NONE
    <3>1. arg'.base = NONE /\ faults' = faults
      BY <2>4 DEF CopyArgument, NoArg
    <3> QED
      BY <2>1, <2>3, <3>1
  <2>5. CASE a.baseTypeName # NONE
    <3>1. PICK tree \in TypeInformation(a.baseTypeName) :
            arg'.base = tree /\ faults' = faults + tree.flaws
      BY <2>5 DEF CopyArgument, NoArg
    <3>2. tree \in Trees
      <4>1. /\ Turn \in 1 .. Len(func.arguments) /\ func.arguments \in Seq(Arguments)
        BY <1>1 DEF Inv, CallInv, Shapes, Functions, Turn
      <4>2. a \in Arguments
        BY <4>1
      <4>3. a.baseTypeName \in TypeNames
        BY <2>5, <4>2 DEF Arguments
      <4> QED
        BY <3>1, <4>3, TreeGiven DEF Inv, CallInv
    <3>3. tree # NONE
      BY <3>2, NoTreeAssumption
    <3> QED
      BY <2>3, <3>1, <3>3
  <2> QED
    BY <2>4, <2>5
<1>4. OwnFaults' = OwnFaults
  <2>1. OwnFaults = faults - Flaws(result.arguments) - 0
    BY <1>1, OwnFaultsSum DEF Turned
  <2>2. OwnFaults' = faults' - Flaws(result.arguments) - FlawsOf(arg')
    BY <1>1, OwnFaultsNext DEF Turned
  <2>3. FlawsOf(arg') \in Nat
    <3>1. arg' \in Args
      BY <1>1 DEF Inv, CallInv, Shapes, Turned
    <3> QED
      BY <3>1, FlawsOfNatural
  <2> QED
    BY <1>3, <2>1, <2>2, <2>3, OwnFaultsSum
<1> QED
  BY <1>1, <1>2, <1>4 DEF Old!CopyArgument, Old!Goto, Old!Next

\* The first generation does not look at the fields one by one.
LEMMA OldCopyField ==
  ASSUME Inv, CopyField, UNCHANGED db
  PROVE  UNCHANGED Old!vars
<1> DEFINE m == members[Len(arg.fields) + 1]
<1>1. /\ pc = "members" /\ UNCHANGED <<name, pc, func, members, result, handles, unclosed>>
  BY DEF CopyField
<1>2. PICK tree \in TypeInformation(m.typeName) :
        /\ arg' = [arg EXCEPT !.fields =
             Append(@, [name |-> m.name, order |-> m.order, tree |-> tree])]
        /\ faults' = faults + tree.flaws
  BY DEF CopyField
<1>3. arg \in Args /\ m \in FieldsTaken
  <2>1. arg \in Args /\ members \in Seq(FieldsTaken)
    BY <1>1 DEF CopyField, Inv, CallInv, Shapes, Turned
  <2>2. Len(arg.fields) + 1 \in 1 .. Len(members)
    BY <2>1 DEF CopyField, Args
  <2> QED
    BY <2>1, <2>2
<1> HIDE DEF m
<1> DEFINE f == [name |-> m.name, order |-> m.order, tree |-> tree]
<1>4. f \in FieldTrees /\ f.tree = tree /\ tree.flaws \in Nat
  <2>1. m.typeName \in TypeNames \cup Texts
    BY <1>3 DEF FieldsTaken
  <2>2. tree \in Trees
    BY <1>2, <2>1, TreeGiven DEF Inv, CallInv
  <2> QED
    BY <1>3, <2>2 DEF FieldTrees, FieldsTaken, Trees
<1>5. FlawsOf(arg') = FlawsOf(arg) + tree.flaws
  <2>1. arg' = [arg EXCEPT !.fields = Append(@, f)]
    BY <1>2
  <2> HIDE DEF f
  <2> QED
    BY <1>3, <1>4, <2>1, FlawsOfField
<1>6. OwnFaults' = OwnFaults
  <2>1. OwnFaults = faults - Flaws(result.arguments) - FlawsOf(arg)
    BY <1>1, OwnFaultsSum DEF Turned
  <2>2. OwnFaults' = faults' - Flaws(result.arguments) - FlawsOf(arg')
    BY <1>1, OwnFaultsNext DEF Turned
  <2>3. FlawsOf(arg) \in Nat
    BY <1>3, FlawsOfNatural
  <2> QED
    BY <1>2, <1>4, <1>5, <2>1, <2>2, <2>3, OwnFaultsSum
<1>7. UNCHANGED OldResult
  BY <1>1, OldResultStays
<1> QED
  BY <1>1, <1>6, <1>7 DEF Old!vars

\* What is pushed is, but for the trees, the members that were read.
LEMMA OldPushArgument ==
  ASSUME Inv, Inv', Fitted, PushArgument, UNCHANGED db
  PROVE  Old!Next
<1> DEFINE whole == IF arg.of.kind = "Alias" THEN [arg EXCEPT !.defVal = members] ELSE arg
           a == func.arguments[Turn]
           old == [of |-> a,
                   fields |-> IF IsStruct(a.kind) THEN members ELSE << >>,
                   defVal |-> IF a.kind = "Alias" THEN members ELSE << >>]
<1>1. /\ pc = "members" /\ pc' = "base"
      /\ IsStruct(arg.of.kind) => Len(arg.fields) = Len(members)
      /\ result' = [result EXCEPT !.arguments = Append(@, whole)]
      /\ UNCHANGED <<name, func, arg, members, handles, unclosed, faults>>
  BY DEF PushArgument, Goto
<1>2. /\ arg \in Args /\ arg.of = a /\ arg.defVal = << >>
      /\ arg.fields \in Seq(FieldTrees)
      /\ ~IsStruct(arg.of.kind) => arg.fields = << >>
      /\ IsStruct(arg.of.kind) =>
           /\ members \in Seq(FieldsRead)
           /\ \A k \in 1 .. Len(arg.fields) :
                /\ arg.fields[k].name = members[k].name
                /\ arg.fields[k].tree.of = members[k].typeName
  BY <1>1 DEF Fitted, Turned, Inv, CallInv, Shapes, Copied, Args
<1>3. /\ whole.of = a /\ whole.fields = arg.fields /\ whole.base = arg.base
      /\ whole.defVal = IF a.kind = "Alias" THEN members ELSE << >>
      /\ whole \in Args
  <2>1. a.kind = "Alias" => members \in Seq(Texts)
    BY <1>1, <1>2 DEF Inv, CallInv, Shapes, IsStruct
  <2> QED
    BY <1>2, <2>1 DEF Args
<1> HIDE DEF a, whole
<1>4. WithoutTrees(whole) = old
  <2>1. WithoutTrees(whole).fields = old.fields
    <3>1. CASE IsStruct(a.kind)
      <4>1. /\ Len(arg.fields) = Len(members) /\ members \in Seq(FieldsRead)
            /\ DOMAIN arg.fields = 1 .. Len(members)
        BY <1>1, <1>2, <3>1
      <4>2. ASSUME NEW k \in 1 .. Len(members)
            PROVE  members[k] = [name |-> arg.fields[k].name, order |-> arg.fields[k].order,
                                 typeName |-> arg.fields[k].tree.of,
                                 kind |-> db.types[arg.fields[k].name].base,
                                 baseTypeName |-> NONE]
        <5>1. members[k] \in FieldsTaken /\ members[k].kind = db.types[members[k].name].base
          <6>1. members[k] \in FieldsRead
            BY <4>1
          <6> QED
            BY <6>1 DEF FieldsRead
        <5>2. members[k] = [name |-> members[k].name, order |-> 0,
                            typeName |-> members[k].typeName, kind |-> members[k].kind,
                            baseTypeName |-> NONE]
          BY <5>1 DEF FieldsTaken
        <5>3. arg.fields[k].order = 0
          <6>1. arg.fields[k] \in FieldTrees
            BY <1>2, <4>1
          <6> QED
            BY <6>1 DEF FieldTrees
        <5>4. /\ arg.fields[k].name = members[k].name
              /\ arg.fields[k].tree.of = members[k].typeName
          BY <1>2, <3>1, <4>1
        <5> QED
          BY <5>1, <5>2, <5>3, <5>4
      <4>3. members = [k \in 1 .. Len(members) |-> members[k]]
        BY <4>1
      <4> QED
        BY <1>3, <3>1, <4>1, <4>2, <4>3 DEF WithoutTrees
    <3>2. CASE ~IsStruct(a.kind)
      BY <1>2, <1>3, <3>2 DEF WithoutTrees
    <3> QED
      BY <3>1, <3>2
  <2> QED
    BY <1>3, <2>1 DEF WithoutTrees
<1> HIDE DEF old
<1>5. OldResult' = [OldResult EXCEPT !.arguments = Append(@, old)]
  <2>1. /\ result.arguments \in Seq(Args) /\ Len(result.arguments) \in Nat
        /\ result'.arguments = Append(result.arguments, whole)
        /\ result'.api = result.api /\ result'.dll = result.dll /\ result'.ret = result.ret
    BY <1>1 DEF Inv, CallInv, Shapes
  <2>2. /\ OldResult' = [api |-> result.api, dll |-> result.dll, ret |-> result.ret,
                         arguments |-> OldResult'.arguments]
        /\ OldResult'.arguments = [k \in 1 .. Len(result'.arguments) |->
                                     WithoutTrees(result'.arguments[k])]
    <3>1. /\ OldResult' = [api |-> result'.api, dll |-> result'.dll, ret |-> result'.ret,
                           arguments |-> OldResult'.arguments]
          /\ OldResult'.arguments = [k \in 1 .. Len(result'.arguments) |->
                                       WithoutTrees(result.arguments[k])']
      <4> DEFINE cut == [k \in DOMAIN result'.arguments |-> WithoutTrees(result.arguments[k])']
      <4>1. OldResult' = [result' EXCEPT !.arguments = cut]
        BY DEF OldResult
      <4>2. /\ DOMAIN result'.arguments = 1 .. Len(result'.arguments)
            /\ result' \in [api : Texts \cup {NONE}, dll : Texts \cup {NONE},
                            ret : TypeNames \cup {NONE}, arguments : Seq(Args)]
        BY DEF Inv, CallInv, Shapes
      <4>3. cut = [k \in 1 .. Len(result'.arguments) |-> WithoutTrees(result.arguments[k])']
        BY <4>2
      <4> HIDE DEF cut
      <4> QED
        BY <4>1, <4>2, <4>3
    <3>2. \A k \in 1 .. Len(result'.arguments) :
            WithoutTrees(result.arguments[k])' = WithoutTrees(result'.arguments[k])
      BY DEF WithoutTrees
    <3> QED
      BY <2>1, <3>1, <3>2
  <2>3. OldResult'.arguments = Append(OldResult.arguments, old)
    <3> DEFINE n == Len(result.arguments)
               cut == [k \in 1 .. n |-> WithoutTrees(result.arguments[k])]
    <3>1. OldResult.arguments = cut
      BY OldArguments
    <3>2. Len(result'.arguments) = n + 1
      BY <2>1
    <3>3. \A k \in 1 .. n + 1 : result'.arguments[k] =
            IF k = n + 1 THEN whole ELSE result.arguments[k]
      BY <2>1
    <3>4. OldResult'.arguments = [k \in 1 .. n + 1 |->
            IF k = n + 1 THEN old ELSE cut[k]]
      BY <1>4, <2>1, <2>2, <3>2, <3>3
    <3>5. /\ DOMAIN cut = 1 .. n /\ n \in Nat /\ Len(cut) = n
      BY <2>1
    <3>6. Append(cut, old) = [k \in 1 .. n + 1 |-> IF k = n + 1 THEN old ELSE cut[k]]
      <4>1. cut \in Seq({cut[k] : k \in 1 .. n} \cup {old})
        BY <3>5
      <4> HIDE DEF cut, n
      <4>2. /\ Append(cut, old) \in Seq({cut[k] : k \in 1 .. n} \cup {old})
            /\ Len(Append(cut, old)) = n + 1
            /\ \A k \in 1 .. n : Append(cut, old)[k] = cut[k]
            /\ Append(cut, old)[n + 1] = old
        BY <3>5, <4>1
      <4>3. Append(cut, old) = [k \in 1 .. n + 1 |-> Append(cut, old)[k]]
        <5> DEFINE u == Append(cut, old)
        <5>1. u \in Seq({cut[k] : k \in 1 .. n} \cup {old}) /\ Len(u) = n + 1
          BY <4>2
        <5> HIDE DEF u
        <5>2. u = [k \in 1 .. Len(u) |-> u[k]]
          BY <5>1
        <5> QED
          BY <5>1, <5>2 DEF u
      <4>4. \A k \in 1 .. n + 1 : k # n + 1 => k \in 1 .. n
        BY <3>5
      <4> QED
        BY <4>2, <4>3, <4>4
    <3> QED
      BY <3>1, <3>4, <3>6
  <2> QED
    BY <2>2, <2>3, OldArguments
<1>6. OwnFaults' = OwnFaults
  <2>1. OwnFaults = faults - Flaws(result.arguments) - FlawsOf(arg)
    BY <1>1, OwnFaultsSum DEF Turned
  <2>2. OwnFaults' = faults' - Flaws(result'.arguments) - 0
    BY <1>1, OwnFaultsNext DEF Turned
  <2>3. Flaws(result'.arguments) = Flaws(result.arguments) + FlawsOf(whole)
    BY <1>1, <1>3, FlawsAppend DEF Inv, CallInv, Shapes
  <2>4. FlawsOf(whole) = FlawsOf(arg) /\ FlawsOf(arg) \in Nat
    BY <1>2, <1>3, FlawsOfNatural DEF FlawsOf
  <2> QED
    BY <1>1, <2>1, <2>2, <2>3, <2>4, OwnFaultsSum
<1>7. Old!Turn = Turn /\ (Old!IsStruct(a.kind) <=> IsStruct(a.kind))
  BY OldArguments DEF Old!IsStruct, IsStruct
<1>8. Old!PushArgument
  BY <1>1, <1>5, <1>6, <1>7 DEF Old!PushArgument, Old!Goto, old, a
<1> QED
  BY <1>8 DEF Old!Next

LEMMA OldReturn ==
  ASSUME Inv, Return, UNCHANGED db
  PROVE  Old!Next
<1>1. /\ pc = "base" /\ pc' = "returned" /\ Turn > Len(func.arguments)
      /\ UNCHANGED <<name, func, members, result, handles, unclosed, faults>>
  BY DEF Return, Goto
<1>2. UNCHANGED OldResult /\ Old!Turn = Turn
  BY <1>1, OldResultStays, OldArguments
<1>3. OwnFaults' = faults - Flaws(result.arguments) - 0
  BY <1>1, OwnFaultsNext DEF Turned
<1>4. OwnFaults' = OwnFaults
  BY <1>1, <1>3, OwnFaultsNow DEF Turned
<1> QED
  BY <1>1, <1>2, <1>4 DEF Old!Return, Old!Goto, Old!Next

\* The second generation of the library, the trees that only it builds cut off
\* and the failures inside typeInformation not counted, does what the first one
\* does: step by step, through every failure.
THEOREM ReadsAsTheFirstGeneration == Spec => Old!Spec
<1> DEFINE J == Inv /\ Fitted
<1>1. Init => J
  <2>1. Init => Inv
    BY CallInitInv DEF Init, Inv
  <2>2. Init => Fitted
    BY DEF Init, CallInit, QueryInit, Fitted, Turned
  <2> QED
    BY <2>1, <2>2
<1>2. J /\ [Next]_vars => J'
  <2> SUFFICES ASSUME J, [Next]_vars PROVE J'
    OBVIOUS
  <2>1. Inv'
    BY InvNext
  <2>2. CASE Next
    BY <2>1, <2>2, FittedNext
  <2>3. CASE UNCHANGED vars
    BY <2>1, <2>3 DEF vars, Fitted, FieldsRead
  <2> QED
    BY <2>2, <2>3
<1>3. Init => Old!Init
  <2> SUFFICES ASSUME Init PROVE Old!Init
    OBVIOUS
  <2>1. /\ db \in Databases /\ name \in FunctionNames /\ pc = "open"
        /\ func = NoFunction /\ members = << >> /\ result = NoFunction
        /\ handles = 0 /\ unclosed = 0 /\ faults = 0
    BY DEF Init, CallInit, QueryInit
  <2>2. OldResult = NoFunction
    <3>1. [k \in DOMAIN << >> |-> WithoutTrees(<< >>[k])] = << >>
      OBVIOUS
    <3> QED
      BY <2>1, <3>1 DEF OldResult, NoFunction
  <2>3. OwnFaults = 0
    <3>1. Flaws(<< >>) = 0
      BY FlawsFold, FlawSumming!FoldEmpty
    <3> QED
      BY <2>1, <3>1, OwnFaultsNow DEF NoFunction, Turned
  <2> QED
    BY <2>1, <2>2, <2>3 DEF Old!Init, Old!QueryInit, Old!NoFunction, NoFunction
<1>4. J /\ J' /\ [Next]_vars => [Old!Next]_(Old!vars)
  <2> SUFFICES ASSUME J, J', [Next]_vars PROVE Old!Next \/ UNCHANGED Old!vars
    OBVIOUS
  <2>1. CASE Next
    <3>1. CASE ExtractFromDb /\ UNCHANGED <<arg, result>>
      BY <2>1, <3>1, OldExtractFromDb DEF Next
    <3>2. CASE Disclose /\ UNCHANGED <<arg, result>>
      BY <2>1, <3>2, OldDisclose DEF Next
    <3> QED
      BY <2>1, <3>1, <3>2, OldCopyFunction, OldCopyArgument, OldCopyField,
         OldPushArgument, OldReturn DEF Next, Step
  <2>2. CASE UNCHANGED vars
    <3>1. UNCHANGED <<db, result>> /\ UNCHANGED OwnFaults
      BY <2>2, OwnFaultsNow, OwnFaultsNext DEF vars
    <3>2. UNCHANGED OldResult
      BY <3>1, OldResultStays
    <3> QED
      BY <2>2, <3>1, <3>2 DEF vars, Old!vars
  <2> QED
    BY <2>1, <2>2
<1> HIDE DEF J
<1> QED
  BY <1>1, <1>2, <1>3, <1>4, PTL DEF Spec, Old!Spec

-----------------------------------------------------------------------------
(* The program around the call                                             *)

Counting == INSTANCE Folding WITH Op <- LAMBDA p, x, y : x + TreesOf(y)

\* The trees of some arguments.
Counted(list) == FoldLeft(LAMBDA n, a : n + TreesOf(a), 0, list)

\* The sum, and its terms.
LEMMA CountedFold ==
  ASSUME NEW s
  PROVE  Counted(s) = Counting!Fold(0, 0, s)
BY DEF Counted, Counting!Fold, Counting!FoldLeft, FoldLeft, Counting!MapThenFoldSet,
       MapThenFoldSet, Counting!Max, Max

LEMMA TreesNatural ==
  ASSUME NEW a \in Args
  PROVE  TreesOf(a) \in Nat
<1>1. Len(a.fields) \in Nat
  BY DEF Args
<1>2. (IF a.base = NONE THEN 0 ELSE 1) \in Nat
  OBVIOUS
<1> DEFINE own == IF a.base = NONE THEN 0 ELSE 1
<1>3. TreesOf(a) = own + Len(a.fields)
  BY DEF TreesOf
<1> HIDE DEF own
<1>4. own \in Nat
  BY <1>2 DEF own
<1> QED
  BY <1>1, <1>3, <1>4

LEMMA NothingCounted == Counted(<< >>) = 0
BY CountedFold, Counting!FoldEmpty

LEMMA CountedNatural ==
  ASSUME NEW s \in Seq(Args)
  PROVE  Counted(s) \in Nat
<1> DEFINE I == [k \in 0 .. Len(s) |-> Nat]
<1>1. Counting!Fold(0, 0, s) \in I[Len(s)]
  <2>1. Counting!IsSequence(s) /\ 0 \in I[0]
    BY DEF Counting!IsSequence
  <2>2. \A k \in 1 .. Len(s) : TreesOf(s[k]) \in Nat
    BY TreesNatural
  <2>3. \A k \in 1 .. Len(s) : \A x \in I[k - 1] : x + TreesOf(s[k]) \in I[k]
    BY <2>2
  <2> HIDE DEF I
  <2> QED
    BY <2>1, <2>3, Counting!FoldInduction
<1> QED
  BY <1>1, CountedFold

LEMMA CountedAppend ==
  ASSUME NEW s \in Seq(Args), NEW a \in Args
  PROVE  Counted(Append(s, a)) = Counted(s) + TreesOf(a)
<1> DEFINE u == Append(s, a)
<1>1. /\ Counting!IsSequence(s) /\ Counting!IsSequence(u)
      /\ Len(u) = Len(s) + 1 /\ u[Len(u)] = a
      /\ \A k \in 1 .. Len(s) : u[k] = s[k]
  BY DEF Counting!IsSequence
<1> HIDE DEF u
<1>2. Counting!Fold(0, 0, u) = Counting!Fold(0, 0, s) + TreesOf(u[Len(u)])
  BY <1>1, Counting!FoldAppend
<1> QED
  BY <1>1, <1>2, CountedFold DEF u

\* An argument more of those that are destroyed.
LEMMA CountedUpTo ==
  ASSUME NEW s \in Seq(Args), NEW k \in 1 .. Len(s)
  PROVE  Counted(SubSeq(s, 1, k)) = Counted(SubSeq(s, 1, k - 1)) + TreesOf(s[k])
<1> DEFINE u == SubSeq(s, 1, k)
           v == SubSeq(s, 1, k - 1)
<1>1. /\ u \in Seq(Args) /\ v \in Seq(Args) /\ Len(u) = k /\ Len(v) = k - 1
      /\ \A m \in 1 .. k : u[m] = s[m]
      /\ \A m \in 1 .. k - 1 : v[m] = s[m]
  OBVIOUS
<1> HIDE DEF u, v
<1>2. /\ Counting!IsSequence(u) /\ Counting!IsSequence(v)
      /\ Len(u) = Len(v) + 1 /\ u[Len(u)] = s[k]
      /\ \A m \in 1 .. Len(v) : u[m] = v[m]
  BY <1>1 DEF Counting!IsSequence
<1>3. Counting!Fold(0, 0, u) = Counting!Fold(0, 0, v) + TreesOf(u[Len(u)])
  BY <1>2, Counting!FoldAppend
<1> QED
  BY <1>2, <1>3, CountedFold DEF u, v

\* Those destroyed so far are not more than there are.
LEMMA CountedPart ==
  ASSUME NEW s \in Seq(Args), NEW k \in 0 .. Len(s)
  PROVE  Counted(SubSeq(s, 1, k)) \in Nat /\ Counted(SubSeq(s, 1, k)) <= Counted(s)
<1> DEFINE n == Len(s)
           J == {j \in Nat : j <= n => Counted(SubSeq(s, 1, n - j)) <= Counted(s)}
<1>1. 0 \in J
  <2>1. SubSeq(s, 1, n - 0) = s
    OBVIOUS
  <2>2. Counted(SubSeq(s, 1, n - 0)) = Counted(s)
    BY <2>1
  <2>3. Counted(s) \in Nat
    BY CountedNatural
  <2> QED
    BY <2>2, <2>3
<1>2. ASSUME NEW j \in Nat, j \in J PROVE j + 1 \in J
  <2> SUFFICES ASSUME j + 1 <= n
               PROVE  Counted(SubSeq(s, 1, n - (j + 1))) <= Counted(s)
    OBVIOUS
  <2>1. n - j \in 1 .. n /\ (n - j) - 1 = n - (j + 1) /\ j <= n
    OBVIOUS
  <2>2. Counted(SubSeq(s, 1, n - j)) =
          Counted(SubSeq(s, 1, n - (j + 1))) + TreesOf(s[n - j])
    BY <2>1, CountedUpTo
  <2>3. /\ SubSeq(s, 1, n - (j + 1)) \in Seq(Args) /\ s[n - j] \in Args
    BY <2>1
  <2>4. /\ Counted(SubSeq(s, 1, n - (j + 1))) \in Nat /\ TreesOf(s[n - j]) \in Nat
        /\ Counted(s) \in Nat
    BY <2>3, CountedNatural, TreesNatural
  <2>5. Counted(SubSeq(s, 1, n - j)) <= Counted(s)
    BY <1>2, <2>1
  <2> QED
    BY <2>2, <2>4, <2>5
<1>3. n - k \in J
  <2>1. n - k \in Nat
    OBVIOUS
  <2> HIDE DEF J, n
  <2> QED
    BY <1>1, <1>2, <2>1, Counting!Induction
<1>4. n - (n - k) = k /\ n - k <= n
  OBVIOUS
<1>5. SubSeq(s, 1, k) \in Seq(Args)
  OBVIOUS
<1> QED
  BY <1>3, <1>4, <1>5, CountedNatural

\* The program goes through the arguments in their order: it prints them all, each
\* with a base, before it destroys the first; every tree there is hangs on one of
\* them or on the one that is put together; and a bad access has a cause.
ClientInv ==
  /\ stage \in {"calling", "printing", "deleting"}
  /\ outcome \in {"running", "returned", "undefined"}
  /\ turn \in 1 .. Len(result.arguments) + 1
  /\ stage = "calling" => turn = 1 /\ outcome = "running"
  /\ stage # "calling" => pc = "returned"
  /\ stage = "printing" => \A k \in 1 .. turn - 1 : result.arguments[k].base # NONE
  /\ stage = "deleting" =>
       /\ result.arguments # << >>
       /\ \A k \in 1 .. Len(result.arguments) : result.arguments[k].base # NONE
  /\ made = Counted(result.arguments) + (IF pc \in Turned THEN TreesOf(arg) ELSE 0)
  /\ deleted = IF stage = "deleting"
               THEN Counted(SubSeq(result.arguments, 1, turn - 1)) ELSE 0
  /\ outcome = "returned" => stage = "deleting" /\ turn = Len(result.arguments) + 1
  /\ outcome = "undefined" =>
       \/ result.arguments = << >>
       \/ \E k \in 1 .. Len(result.arguments) :
            \/ result.arguments[k].base = NONE
            \/ FlawsOf(result.arguments[k]) > 0

\* A step of the call: a tree more wherever typeInformation is called.
LEMMA CallMakes ==
  ASSUME Inv, Inv', ClientInv, Call
  PROVE  ClientInv'
<1>1. /\ stage = "calling" /\ turn = 1 /\ outcome = "running" /\ deleted = 0
      /\ UNCHANGED <<deleted, turn, stage, outcome>>
  BY DEF ClientInv, Call, Running
<1>2. /\ result.arguments \in Seq(Args) /\ result'.arguments \in Seq(Args)
      /\ pc \in Turned => arg \in Args
      /\ pc' \in Turned => arg' \in Args
      /\ pc = "copy" => result.arguments = << >>
  <2>1. result.arguments \in Seq(Args) /\ (pc \in Turned => arg \in Args)
    BY DEF Inv, CallInv, Shapes
  <2>2. result'.arguments \in Seq(Args) /\ (pc' \in Turned => arg' \in Args)
    BY DEF Inv, CallInv, Shapes, Turned
  <2> QED
    BY <2>1, <2>2 DEF Inv, CallInv, Copied, NoFunction
<1>3. turn' \in 1 .. Len(result'.arguments) + 1
  <2>1. Len(result'.arguments) \in Nat
    BY <1>2
  <2> QED
    BY <1>1, <2>1
<1>4. made' = Counted(result'.arguments) + (IF pc' \in Turned THEN TreesOf(arg') ELSE 0)
  <2> DEFINE more == IF pc = "base" /\ pc' = "disclose" THEN TreesOf(arg')
                     ELSE IF pc = "members" /\ pc' = "members"
                          THEN TreesOf(arg') - TreesOf(arg) ELSE 0
  <2>0. /\ made' = made + more
        /\ made = Counted(result.arguments) + (IF pc \in Turned THEN TreesOf(arg) ELSE 0)
        /\ Counted(result.arguments) \in Nat /\ Counted(result'.arguments) \in Nat
        /\ pc \in Turned => TreesOf(arg) \in Nat
        /\ pc' \in Turned => TreesOf(arg') \in Nat
    BY <1>2, CountedNatural, TreesNatural DEF ClientInv, Call
  <2>1. CASE ExtractFromDb /\ UNCHANGED <<arg, result>>
    <3>1. pc \notin Turned \cup {"base"} /\ pc' \notin Turned
      BY <2>1 DEF ExtractFromDb, OpenDatabase, OpenDatabaseFails, CheckName,
                  SelectFunction, SelectArguments, Goto, Turned
    <3> QED
      BY <2>0, <2>1, <3>1 DEF Turned
  <2>2. CASE Disclose /\ UNCHANGED <<arg, result>>
    <3>1. pc \in {"disclose", "select"} /\ pc' \in Turned
      BY <2>2 DEF Disclose, TypeDisclosure, OpenType, OpenTypeFails, SelectMembers,
                  Goto, Turned
    <3> QED
      BY <2>0, <2>2, <3>1 DEF Turned
  <2>3. CASE CopyFunction
    <3>1. pc = "copy" /\ pc' = "base" /\ result'.arguments = << >>
      BY <2>3 DEF CopyFunction, Goto, Inv, CallInv, Shapes, Functions
    <3> QED
      BY <1>2, <2>0, <3>1 DEF Turned
  <2>4. CASE CopyArgument
    <3>1. pc = "base" /\ pc' = "disclose" /\ result' = result
      BY <2>4 DEF CopyArgument, Goto
    <3> QED
      BY <2>0, <3>1 DEF Turned
  <2>5. CASE CopyField
    <3>1. pc = "members" /\ pc' = "members" /\ result' = result
      BY <2>5 DEF CopyField
    <3> QED
      BY <2>0, <3>1 DEF Turned
  <2>6. CASE PushArgument
    <3> DEFINE whole == IF arg.of.kind = "Alias" THEN [arg EXCEPT !.defVal = members] ELSE arg
    <3>1. /\ pc = "members" /\ pc' = "base"
          /\ result' = [result EXCEPT !.arguments = Append(@, whole)]
      BY <2>6 DEF PushArgument, Goto
    <3>2. whole \in Args /\ whole.base = arg.base /\ whole.fields = arg.fields
      <4>1. arg \in Args
        BY <1>2, <3>1 DEF Turned
      <4>2. arg.of.kind = "Alias" => members \in Seq(Texts)
        BY <3>1 DEF Inv, CallInv, Shapes, IsStruct
      <4> QED
        BY <4>1, <4>2 DEF Args
    <3>3. TreesOf(whole) = TreesOf(arg)
      BY <3>2 DEF TreesOf
    <3> HIDE DEF whole
    <3>4. result'.arguments = Append(result.arguments, whole)
      BY <3>1 DEF Inv, CallInv, Shapes
    <3>5. Counted(result'.arguments) = Counted(result.arguments) + TreesOf(whole)
      BY <1>2, <3>2, <3>4, CountedAppend
    <3> QED
      BY <2>0, <3>1, <3>3, <3>5 DEF Turned
  <2>7. CASE Return
    <3>1. pc = "base" /\ pc' = "returned" /\ result' = result
      BY <2>7 DEF Return, Goto
    <3> QED
      BY <2>0, <3>1 DEF Turned
  <2> QED
    BY <2>1, <2>2, <2>3, <2>4, <2>5, <2>6, <2>7 DEF Call, Next, Step
<1>5. (Counted(result.arguments) + (IF pc \in Turned THEN TreesOf(arg) ELSE 0))' =
        Counted(result'.arguments) + (IF pc' \in Turned THEN TreesOf(arg') ELSE 0)
  BY DEF Turned
<1> QED
  BY <1>1, <1>3, <1>4, <1>5 DEF ClientInv

\* The steps of the program itself, over the Result that was returned.
LEMMA ClientInvNext ==
  ASSUME Inv, Inv', ClientInv, [ClientNext]_allVars
  PROVE  ClientInv'
<1> DEFINE list == result.arguments
<1>0. /\ list \in Seq(Args) /\ Len(list) \in Nat /\ turn \in 1 .. Len(list) + 1
  BY DEF Inv, CallInv, Shapes, ClientInv
<1>1. CASE Call
  BY <1>1, CallMakes
<1>2. CASE Answered
  <2>1. \A k \in 1 .. turn - 1 : FALSE
    BY <1>2 DEF Answered, Running, ClientInv
  <2> QED
    BY <1>2, <2>1 DEF Answered, Running, ClientInv, vars, Turned
<1>3. CASE PrintArgument
  <2>1. /\ turn' \in 1 .. Len(list) + 1
        /\ \A k \in 1 .. turn' - 1 : k \in 1 .. turn - 1 \/ k = turn
    BY <1>0, <1>3 DEF PrintArgument, InPrint
  <2>2. \A k \in 1 .. turn' - 1 : list[k].base # NONE
    BY <1>3, <2>1 DEF PrintArgument, InPrint, Running, ClientInv
  <2> QED
    BY <1>3, <2>1, <2>2 DEF PrintArgument, InPrint, Running, ClientInv, vars, Turned
<1>4. CASE FollowNull
  <2>1. turn \in 1 .. Len(list) /\ list[turn].base = NONE
    BY <1>0, <1>4 DEF FollowNull, InPrint
  <2> QED
    BY <1>4, <2>1 DEF FollowNull, InPrint, Running, ClientInv, vars, Turned
<1>5. CASE PrintFirst
  <2>1. CASE list = << >>
    BY <1>5, <2>1 DEF PrintFirst, Running, ClientInv, vars, Turned
  <2>2. CASE list # << >>
    <3>1. /\ turn = Len(list) + 1 /\ turn' = 1 /\ stage' = "deleting"
          /\ stage = "printing" /\ outcome = "running"
          /\ UNCHANGED <<vars, made, deleted, outcome>>
      BY <1>0, <1>5, <2>2 DEF PrintFirst, Running
    <3>2. \A k \in 1 .. Len(list) : list[k].base # NONE
      BY <1>0, <3>1 DEF ClientInv
    <3>3. SubSeq(list, 1, 0) = << >>
      OBVIOUS
    <3>4. deleted' = Counted(SubSeq(list, 1, turn' - 1))
      <4>1. turn' - 1 = 0 /\ deleted' = 0
        BY <3>1 DEF ClientInv
      <4>2. SubSeq(list, 1, turn' - 1) = << >>
        BY <3>3, <4>1
      <4> QED
        BY <4>1, <4>2, NothingCounted
    <3>5. turn' \in 1 .. Len(list) + 1
      BY <1>0, <3>1
    <3> QED
      BY <2>2, <3>1, <3>2, <3>4, <3>5 DEF ClientInv, vars, Turned
  <2> QED
    BY <2>1, <2>2
<1>6. CASE Destroy
  <2>1. /\ turn \in 1 .. Len(list) /\ turn' = turn + 1
        /\ turn' \in 1 .. Len(list) + 1 /\ turn' - 1 = turn
        /\ deleted' = deleted + TreesOf(list[turn])
        /\ stage = "deleting" /\ outcome = "running"
        /\ UNCHANGED <<vars, made, stage, outcome>>
    BY <1>0, <1>6 DEF Destroy, InDelete, Running
  <2>2. deleted' = Counted(SubSeq(list, 1, turn' - 1))
    BY <1>0, <2>1, CountedUpTo DEF ClientInv
  <2> QED
    BY <2>1, <2>2 DEF ClientInv, vars, Turned
<1>7. CASE FollowWild
  <2>1. turn \in 1 .. Len(list) /\ FlawsOf(list[turn]) > 0
    BY <1>0, <1>7 DEF FollowWild, InDelete
  <2> QED
    BY <1>7, <2>1 DEF FollowWild, InDelete, Running, ClientInv, vars, Turned
<1>8. CASE End
  <2>1. turn = Len(list) + 1
    BY <1>0, <1>8 DEF End
  <2> QED
    BY <1>8, <2>1 DEF End, Running, ClientInv, vars, Turned
<1>9. CASE UNCHANGED allVars
  BY <1>9 DEF allVars, clientVars, ClientInv, vars, Turned
<1> QED
  BY <1>1, <1>2, <1>3, <1>4, <1>5, <1>6, <1>7, <1>8, <1>9 DEF ClientNext

\* The program runs functionInformation as it is.
THEOREM ClientRunsTheCall == ClientSpec => Spec
<1>1. ClientInit => Init
  BY DEF ClientInit
<1>2. [ClientNext]_allVars => [Next]_vars
  BY DEF ClientNext, Call, Answered, PrintArgument, FollowNull, PrintFirst, Destroy,
         FollowWild, End, allVars
<1> QED
  BY <1>1, <1>2, PTL DEF ClientSpec, Spec

LEMMA ClientInvHolds == ClientSpec => [](Inv /\ ClientInv)
<1>1. ClientInit => ClientInv
  <2> SUFFICES ASSUME ClientInit PROVE ClientInv
    OBVIOUS
  <2>1. /\ result = NoFunction /\ pc = "open" /\ made = 0 /\ deleted = 0 /\ turn = 1
        /\ stage = "calling" /\ outcome = "running"
    BY DEF ClientInit, Init, CallInit, QueryInit
  <2>2. result.arguments = << >> /\ Len(<< >>) = 0
    BY <2>1 DEF NoFunction
  <2> QED
    BY <2>1, <2>2, NothingCounted DEF ClientInv, Turned
<1>2. Inv /\ Inv' /\ ClientInv /\ [ClientNext]_allVars => ClientInv'
  BY ClientInvNext
<1>3. ClientSpec => []Inv
  BY ClientRunsTheCall, InvHolds, PTL
<1> QED
  BY <1>1, <1>2, <1>3, PTL DEF ClientSpec

\* The shape of the variables of the call and of the program around it; no more
\* trees are deleted than were made.
THEOREM ClientTypeCorrectness == ClientSpec => []ClientTypeOK
<1>1. Inv /\ ClientInv /\ TypeOK => ClientTypeOK
  <2> SUFFICES ASSUME Inv, ClientInv, TypeOK PROVE ClientTypeOK
    OBVIOUS
  <2>1. result.arguments \in Seq(Args) /\ (pc \in Turned => arg \in Args)
    BY DEF Inv, CallInv, Shapes
  <2>2. Counted(result.arguments) \in Nat /\ (pc \in Turned => TreesOf(arg) \in Nat)
    BY <2>1, CountedNatural, TreesNatural
  <2>3. made \in Nat /\ Counted(result.arguments) <= made
    BY <2>2 DEF ClientInv
  <2>4. deleted \in Nat /\ deleted <= Counted(result.arguments)
    <3>1. turn - 1 \in 0 .. Len(result.arguments)
      BY <2>1 DEF ClientInv
    <3>2. /\ Counted(SubSeq(result.arguments, 1, turn - 1)) \in Nat
          /\ Counted(SubSeq(result.arguments, 1, turn - 1)) <= Counted(result.arguments)
      BY <2>1, <3>1, CountedPart
    <3> QED
      BY <2>2, <3>2 DEF ClientInv
  <2>5. deleted \in 0 .. made
    BY <2>2, <2>3, <2>4
  <2> QED
    BY <2>3, <2>5 DEF ClientInv, ClientTypeOK
<1> QED
  BY <1>1, ClientInvHolds, ClientRunsTheCall, TypeCorrectness, PTL

\* Every tree that typeInformation made, for a base or for a field and whatever
\* failed, hangs on exactly one argument, and a program that ends in order has
\* deleted all of them.
THEOREM NothingLeaksHolds == ClientSpec => []NothingLeaks
<1>1. Inv /\ ClientInv => NothingLeaks
  <2> SUFFICES ASSUME Inv, ClientInv PROVE NothingLeaks
    OBVIOUS
  <2>1. outcome = "returned" => deleted = made
    <3> SUFFICES ASSUME outcome = "returned" PROVE deleted = made
      OBVIOUS
    <3>1. /\ stage = "deleting" /\ turn = Len(result.arguments) + 1 /\ pc = "returned"
      BY DEF ClientInv
    <3>2. result.arguments \in Seq(Args)
      BY DEF Inv, CallInv, Shapes
    <3>3. SubSeq(result.arguments, 1, turn - 1) = result.arguments
      BY <3>1, <3>2
    <3>4. Counted(result.arguments) \in Nat
      BY <3>2, CountedNatural
    <3>5. made = Counted(result.arguments) + 0
      BY <3>1 DEF ClientInv, Turned
    <3>6. deleted = Counted(SubSeq(result.arguments, 1, turn - 1))
      BY <3>1 DEF ClientInv
    <3>7. deleted = Counted(result.arguments)
      BY <3>3, <3>6
    <3> QED
      BY <3>4, <3>5, <3>7
  <2> QED
    BY <2>1 DEF ClientInv, NothingLeaks, Counted, Turned
<1> QED
  BY <1>1, ClientInvHolds, PTL

\* The rows of the name decide whether the program dies: one that cannot be printed
\* is never survived unless a query failed, and one that can is, unless a failure
\* took all the arguments or spoiled a tree.
THEOREM DatabaseDecidesHolds == ClientSpec => []DatabaseDecides
<1>1. Inv /\ ClientInv /\ WholeAnswer => DatabaseDecides
  <2> SUFFICES ASSUME Inv, ClientInv, WholeAnswer PROVE DatabaseDecides
    OBVIOUS
  <2>0. /\ result.arguments \in Seq(Args) /\ faults \in Nat
        /\ DOMAIN result.arguments = 1 .. Len(result.arguments)
        /\ \A k \in 1 .. Len(result.arguments) :
             /\ result.arguments[k] \in ToSet(result.arguments)
             /\ result.arguments[k].of = func.arguments[k] /\ Based(result.arguments[k])
    BY DEF Inv, CallInv, ConnectionInv, Shapes, Copied, ToSet
  <2>1. ASSUME outcome = "returned", faults = 0 PROVE Printable
    <3>1. /\ pc = "returned" /\ result.arguments # << >>
          /\ \A k \in 1 .. Len(result.arguments) : result.arguments[k].base # NONE
      BY <2>1 DEF ClientInv
    <3>2. {a.of : a \in ToSet(result.arguments)} = ArgumentsNamed(name)
      BY <2>1, <3>1 DEF WholeAnswer
    <3>3. Len(result.arguments) > 0
      BY <2>0, <3>1
    <3>4. result.arguments[1] \in ToSet(result.arguments)
      BY <2>0, <3>3
    <3>5. ASSUME NEW a \in ToSet(result.arguments) PROVE a.of.baseTypeName # NONE
      <4>1. PICK k \in 1 .. Len(result.arguments) : a = result.arguments[k]
        BY <2>0 DEF ToSet
      <4> QED
        BY <2>0, <3>1, <4>1 DEF Based
    <3> QED
      BY <3>2, <3>4, <3>5 DEF Printable
  <2>2. ASSUME outcome = "undefined", Printable,
               ~ \E a \in ToSet(result.arguments) : FlawsOf(a) > 0
        PROVE  result.arguments = << >> /\ faults > 0
    <3>1. \A k \in 1 .. Len(result.arguments) : ~ (FlawsOf(result.arguments[k]) > 0)
      BY <2>0, <2>2
    <3>2. ASSUME NEW k \in 1 .. Len(result.arguments) PROVE result.arguments[k].base # NONE
      <4>1. Len(result.arguments) <= Len(func.arguments) /\ func.arguments \in Seq(Arguments)
        BY DEF Inv, CallInv, Copied, Shapes, Functions
      <4>2. k \in DOMAIN func.arguments
        BY <2>0, <4>1
      <4>3. func.arguments[k] \in ArgumentsNamed(name)
        BY <4>2 DEF Inv, CallInv, FoundInOrder
      <4>4. result.arguments[k].of.baseTypeName # NONE
        BY <2>0, <2>2, <4>3 DEF Printable
      <4> QED
        BY <2>0, <4>4, NoTreeAssumption DEF Based
    <3>3. result.arguments = << >>
      BY <2>2, <3>1, <3>2 DEF ClientInv
    <3>4. pc = "returned"
      BY <2>2 DEF ClientInv
    <3>5. faults # 0
      <4> SUFFICES ASSUME faults = 0 PROVE FALSE
        OBVIOUS
      <4>1. {a.of : a \in ToSet(result.arguments)} = ArgumentsNamed(name)
        BY <3>4 DEF WholeAnswer
      <4>2. ToSet(result.arguments) = {}
        BY <3>3 DEF ToSet
      <4> QED
        BY <2>2, <4>1, <4>2 DEF Printable
    <3> QED
      BY <2>0, <3>3, <3>5
  <2> QED
    BY <2>0, <2>1, <2>2 DEF DatabaseDecides
<1> QED
  BY <1>1, ClientInvHolds, ClientRunsTheCall, WholeAnswerHolds, PTL
=============================================================================
