------------------------ MODULE TreeConstruction_proofs ------------------------
(* Proofs about TreeConstruction, for every set of tag names, every length of the  *)
(* lists and every room for dispatches inside each other: the types, and what ties *)
(* the stack of open elements and the list of active formatting elements together. *)
(*                                                                                 *)
(* A handler calls the dispatcher, which calls the handlers.  So each handler is   *)
(* shown to keep the lists as they should be if the dispatcher that it is given    *)
(* does (Keeps), and then the dispatcher with room for n dispatches does for every *)
(* n, since there is no least n for which it does not.                             *)
EXTENDS TreeConstruction, SequenceTheorems, FiniteSetTheorems, WellFoundedInduction, TLAPS

-------------------------------------------------------------------------------
(* The dispatcher at every depth *)

\* Of the intervals that end in the set, one is within all the others.
LEMMA Least ==
    ASSUME NEW I \in SUBSET Nat, I # {}
    PROVE  Min(I) \in I /\ \A i \in I : Min(I) <= i
<1> DEFINE T == {0 .. i : i \in I}
<1>1. T \subseteq FiniteSubsetsOf(Nat) /\ T # {}
  <2>1. \A i \in I : 0 .. i \in FiniteSubsetsOf(Nat)
    BY FS_Interval DEF FiniteSubsetsOf
  <2> QED BY <2>1
<1>2. PICK X \in T : \A Y \in T : <<Y, X>> \notin StrictSubsetOrdering(Nat)
  BY <1>1, FS_StrictSubsetOrderingWellFounded, WFMin
<1>3. PICK x \in I : X = 0 .. x
  OBVIOUS
<1>4. ASSUME NEW y \in I PROVE x <= y
  <2>1. CASE y < x
    <3>1. 0 .. y \in T /\ 0 .. y \subseteq 0 .. x /\ x \notin 0 .. y /\ x \in 0 .. x
      BY <2>1
    <3>2. <<0 .. y, X>> \in StrictSubsetOrdering(Nat)
      BY <1>3, <3>1 DEF StrictSubsetOrdering
    <3> QED BY <1>2, <3>1, <3>2
  <2> QED BY <2>1
<1> QED BY <1>4 DEF Min

\* What the dispatcher with room for one more dispatch does.
Unbounded == [s \in Trees |-> [t \in Tokens |-> Fail(s, "overflow")]]

Approximates(f, n) ==
    /\ DOMAIN f = 0 .. n
    /\ f[0] = Unbounded
    /\ \A m \in 1 .. n : f[m] = Dispatched(f[m - 1])

\* The definition of DispatchedWithin holds of some function up to every depth
LEMMA ApproximationExists ==
    ASSUME NEW n \in Nat
    PROVE  \E f : Approximates(f, n)
<1> DEFINE S == {m \in Nat : ~ \E f : Approximates(f, m)}
<1> SUFFICES ASSUME S # {} PROVE FALSE
  OBVIOUS
<1>1. PICK m \in S : \A k \in S : m <= k
  BY Least
<1>2. Approximates([k \in 0 .. 0 |-> Unbounded], 0)
  BY DEF Approximates
<1>3. m # 0
  BY <1>2
<1>4. m - 1 \in Nat /\ m - 1 \notin S
  BY <1>1, <1>3
<1>5. PICK f : Approximates(f, m - 1)
  BY <1>4
<1>6. PICK d : d = Dispatched(f[m - 1])
  OBVIOUS
<1> DEFINE g == [k \in 0 .. m |-> IF k = m THEN d ELSE f[k]]
<1>7. Approximates(g, m)
  <2>1. DOMAIN g = 0 .. m /\ g[0] = Unbounded
    BY <1>5, <1>4, <1>3 DEF Approximates
  <2>2. ASSUME NEW k \in 1 .. m PROVE g[k] = Dispatched(g[k - 1])
    <3>1. k - 1 \in 0 .. m - 1 /\ g[k - 1] = f[k - 1]
      BY <1>4
    <3>2. CASE k = m
      BY <3>1, <3>2, <1>6
    <3>3. CASE k # m
      <4>1. k \in 1 .. m - 1 /\ g[k] = f[k]
        BY <3>3, <1>4
      <4> QED
        BY <4>1, <3>1, <1>5 DEF Approximates
    <3> QED
      BY <3>2, <3>3
  <2> QED
    BY <2>1, <2>2 DEF Approximates
<1> QED
  BY <1>7

\* and of two such functions as far as both go.
LEMMA ApproximationsAgree ==
    ASSUME NEW f, NEW g, NEW n \in Nat, NEW k \in Nat, Approximates(f, n), Approximates(g, k)
    PROVE  \A m \in Nat : m <= n /\ m <= k => f[m] = g[m]
<1> DEFINE S == {m \in Nat : m <= n /\ m <= k /\ f[m] # g[m]}
<1> SUFFICES ASSUME S # {} PROVE FALSE
  OBVIOUS
<1>1. PICK m \in S : \A j \in S : m <= j
  BY Least
<1>2. m # 0
  BY DEF Approximates
<1>3. m - 1 \in Nat /\ m - 1 \notin S
  BY <1>1, <1>2
<1>4. f[m - 1] = g[m - 1]
  BY <1>3
<1>5. f[m] = Dispatched(f[m - 1]) /\ g[m] = Dispatched(g[m - 1])
  <2>1. m \in Nat /\ m # 0 /\ m <= n /\ m <= k
    BY <1>1, <1>2
  <2> QED BY <2>1, SMTT(20) DEF Approximates
<1> QED
  BY <1>4, <1>5

\* So DispatchedWithin is what its definition says, at every depth.
LEMMA DispatchedWithinRoom ==
    /\ DispatchedWithin[0] = Unbounded
    /\ \A n \in Nat \ {0} : DispatchedWithin[n] = Dispatched(DispatchedWithin[n - 1])
<1> DEFINE F == [n \in Nat |-> (CHOOSE f : Approximates(f, n))[n]]
           Def(f) == f = [n \in Nat |-> IF n = 0 THEN Unbounded ELSE Dispatched(f[n - 1])]
<1>1. ASSUME NEW n \in Nat PROVE Approximates(CHOOSE f : Approximates(f, n), n)
  BY ApproximationExists
<1>2. F[0] = Unbounded
  BY <1>1 DEF Approximates
<1>3. ASSUME NEW n \in Nat, n # 0 PROVE F[n] = Dispatched(F[n - 1])
  <2>1. PICK f : f = CHOOSE h : Approximates(h, n)
    OBVIOUS
  <2>2. PICK g : g = CHOOSE h : Approximates(h, n - 1)
    OBVIOUS
  <2>3. Approximates(f, n) /\ Approximates(g, n - 1)
    BY <2>1, <2>2, <1>1, <1>3
  <2>4. f[n - 1] = g[n - 1]
    BY <2>3, <1>3, ApproximationsAgree
  <2>5. f[n] = Dispatched(f[n - 1])
    BY <2>3, <1>3 DEF Approximates
  <2>6. F[n] = f[n] /\ F[n - 1] = g[n - 1]
    BY <2>1, <2>2, <1>3
  <2> QED
    BY <2>4, <2>5, <2>6
<1> HIDE DEF F
<1>4. F = [n \in Nat |-> F[n]]
  BY DEF F
<1>5. Def(F)
  <2>1. ASSUME NEW n \in Nat
        PROVE  F[n] = IF n = 0 THEN Unbounded ELSE Dispatched(F[n - 1])
    BY <1>2, <1>3
  <2> QED
    BY <1>4, <2>1
<1>6. DispatchedWithin = CHOOSE f : Def(f)
  BY DEF DispatchedWithin, Unbounded
<1>7. Def(DispatchedWithin)
  BY <1>5, <1>6
<1> QED
  BY <1>7

-------------------------------------------------------------------------------
(* Positions and parts of a list *)

\* A set of numbers up to n that is not empty has a greatest.
LEMMA Greatest ==
    ASSUME NEW n \in Nat, NEW I \in SUBSET (0 .. n), I # {}
    PROVE  Max(I) \in I /\ \A i \in I : i <= Max(I)
<1> DEFINE J == {j \in 0 .. n : n - j \in I}
<1>1. J \in SUBSET Nat
  OBVIOUS
<1>2. \A i \in I : n - i \in J
  OBVIOUS
<1>3. J # {}
  BY <1>2
<1> HIDE DEF J
<1>4. Min(J) \in J /\ \A j \in J : Min(J) <= j
  BY <1>1, <1>3, Least
<1>5. PICK m : m = Min(J)
  OBVIOUS
<1>6. m \in 0 .. n /\ n - m \in I
  BY <1>4, <1>5 DEF J
<1>7. ASSUME NEW k \in I PROVE n - m >= k
  <2>1. k \in 0 .. n /\ n - k \in J
    BY <1>2
  <2>2. m <= n - k
    BY <2>1, <1>4, <1>5
  <2> QED BY <2>1, <2>2, <1>6
<1> QED BY <1>6, <1>7 DEF Max

\* The greatest member of a set of positions, 0 when there is none.
LEMMA LastOf ==
    ASSUME NEW n \in Nat, NEW I \in SUBSET (1 .. n), NEW i, i = Max({0} \cup I)
    PROVE  /\ i \in 0 .. n
           /\ i > 0 => i \in I
           /\ \A k \in 1 .. n : k > i => k \notin I
           /\ i = 0 => I = {}
<1>1. {0} \cup I \in SUBSET (0 .. n) /\ {0} \cup I # {}
  OBVIOUS
<1>2. i \in {0} \cup I /\ \A k \in {0} \cup I : k <= i
  BY <1>1, Greatest
<1> QED BY <1>2

\* The last open element of the names.
LEMMA LastNamedIs ==
    ASSUME NEW s, NEW names, s.open \in Seq(Elements), NEW i, i = LastNamed(s, names)
    PROVE  /\ i \in 0 .. Len(s.open)
           /\ i > 0 => s.open[i].name \in names
           /\ \A k \in i + 1 .. Len(s.open) : s.open[k].name \notin names
<1> DEFINE I == {k \in DOMAIN s.open : s.open[k].name \in names}
<1>1. DOMAIN s.open = 1 .. Len(s.open) /\ Len(s.open) \in Nat
  OBVIOUS
<1>2. i = Max({0} \cup I) /\ I \in SUBSET (1 .. Len(s.open))
  BY <1>1 DEF LastNamed
<1>3. /\ i \in 0 .. Len(s.open)
      /\ i > 0 => i \in I
      /\ \A k \in 1 .. Len(s.open) : k > i => k \notin I
  BY <1>1, <1>2, LastOf
<1> QED BY <1>1, <1>3

\* The first position of an entry.
LEMMA PositionIs ==
    ASSUME NEW S, NEW list \in Seq(S), NEW e, NEW i, i = Position(list, e)
    PROVE  /\ i \in 0 .. Len(list)
           /\ i > 0 => list[i] = e /\ \A k \in 1 .. i - 1 : list[k] # e
           /\ i = 0 => \A k \in 1 .. Len(list) : list[k] # e
<1> DEFINE I == {k \in DOMAIN list : list[k] = e}
<1>1. DOMAIN list = 1 .. Len(list) /\ Len(list) \in Nat
  OBVIOUS
<1>2. i = IF I = {} THEN 0 ELSE Min(I)
  BY DEF Position
<1>3. CASE I = {}
  BY <1>1, <1>2, <1>3
<1>4. CASE I # {}
  <2>1. I \in SUBSET Nat
    BY <1>1
  <2>2. Min(I) \in I /\ \A k \in I : Min(I) <= k
    BY <2>1, <1>4, Least
  <2>3. i = Min(I) /\ i \in I
    BY <1>2, <1>4, <2>2
  <2>4. i \in 1 .. Len(list) /\ list[i] = e
    BY <2>3, <1>1
  <2>5. ASSUME NEW k \in 1 .. i - 1 PROVE list[k] # e
    <3>1. k \in 1 .. Len(list) /\ ~(i <= k)
      BY <2>4, <1>1
    <3>2. k \notin I
      BY <3>1, <2>2, <2>3
    <3> QED BY <3>1, <3>2, <1>1
  <2> QED BY <2>4, <2>5
<1> QED BY <1>3, <1>4

\* The last marker of the list of active formatting elements.
LEMMA LastMarkerIs ==
    ASSUME NEW s, s.formatting \in Seq(Elements), NEW i, i = LastMarker(s)
    PROVE  /\ i \in 0 .. Len(s.formatting)
           /\ i > 0 => s.formatting[i] = Marker
           /\ \A k \in i + 1 .. Len(s.formatting) : s.formatting[k] # Marker
<1> DEFINE I == {k \in DOMAIN s.formatting : s.formatting[k] = Marker}
<1>1. DOMAIN s.formatting = 1 .. Len(s.formatting) /\ Len(s.formatting) \in Nat
  OBVIOUS
<1>2. i = Max({0} \cup I) /\ I \in SUBSET (1 .. Len(s.formatting))
  BY <1>1 DEF LastMarker
<1>3. /\ i \in 0 .. Len(s.formatting)
      /\ i > 0 => i \in I
      /\ \A k \in 1 .. Len(s.formatting) : k > i => k \notin I
  BY <1>1, <1>2, LastOf
<1> QED BY <1>1, <1>3

\* The entries up to the n-th.
LEMMA FrontIs ==
    ASSUME NEW S, NEW list \in Seq(S), NEW n \in 0 .. Len(list), NEW r, r = SubSeq(list, 1, n)
    PROVE  r \in Seq(S) /\ Len(r) = n /\ \A k \in 1 .. n : r[k] = list[k]
BY SubSeqProperties

\* The entries from the i-th on.
LEMMA TailIs ==
    ASSUME NEW S, NEW list \in Seq(S), NEW i \in 1 .. Len(list) + 1,
           NEW r, r = SubSeq(list, i, Len(list))
    PROVE  /\ r \in Seq(S) /\ Len(r) = Len(list) - i + 1
           /\ \A k \in 1 .. Len(r) : r[k] = list[i + k - 1]
<1>1. Len(list) \in Nat /\ i \in Nat /\ \A k \in 1 .. Len(list) : list[k] \in S
  OBVIOUS
<1>2. \A k \in i .. Len(list) : list[k] \in S
  BY <1>1
<1>3. /\ r \in Seq(S) /\ Len(r) = IF i <= Len(list) THEN Len(list) - i + 1 ELSE 0
      /\ \A k \in 1 .. Len(list) - i + 1 : r[k] = list[i + k - 1]
  BY <1>1, <1>2, SubSeqProperties
<1>4. Len(r) = Len(list) - i + 1
  BY <1>1, <1>3
<1> QED BY <1>3, <1>4

\* The entries of one list after those of another.
LEMMA ConcatIs ==
    ASSUME NEW S, NEW a \in Seq(S), NEW b \in Seq(S), NEW r, r = a \o b
    PROVE  /\ r \in Seq(S) /\ Len(r) = Len(a) + Len(b)
           /\ \A k \in 1 .. Len(r) : r[k] = IF k <= Len(a) THEN a[k] ELSE b[k - Len(a)]
<1>1. /\ r \in Seq(S) /\ Len(r) = Len(a) + Len(b)
      /\ \A k \in 1 .. Len(a) + Len(b) : r[k] = IF k <= Len(a) THEN a[k] ELSE b[k - Len(a)]
  BY ConcatProperties
<1> QED BY <1>1

\* A list without its i-th entry.
LEMMA RemoveAtIs ==
    ASSUME NEW S, NEW list \in Seq(S), NEW i \in 1 .. Len(list), NEW r, r = RemoveAt(list, i)
    PROVE  /\ r \in Seq(S) /\ Len(r) = Len(list) - 1
           /\ \A k \in 1 .. Len(r) : r[k] = IF k < i THEN list[k] ELSE list[k + 1]
<1>1. PICK a : a = SubSeq(list, 1, i - 1)
  OBVIOUS
<1>2. PICK b : b = SubSeq(list, i + 1, Len(list))
  OBVIOUS
<1>3. a \in Seq(S) /\ Len(a) = i - 1 /\ \A k \in 1 .. i - 1 : a[k] = list[k]
  BY <1>1
<1>4. b \in Seq(S) /\ Len(b) = Len(list) - i /\ \A k \in 1 .. Len(list) - i : b[k] = list[i + k]
  <2>1. i + 1 \in 1 .. Len(list) + 1 /\ Len(list) \in Nat
    OBVIOUS
  <2>2. /\ b \in Seq(S) /\ Len(b) = Len(list) - (i + 1) + 1
        /\ \A k \in 1 .. Len(b) : b[k] = list[(i + 1) + k - 1]
    BY <1>2, <2>1, TailIs
  <2> QED BY <2>1, <2>2
<1>5. r = a \o b
  BY <1>1, <1>2 DEF RemoveAt
<1>6. /\ r \in Seq(S) /\ Len(r) = Len(a) + Len(b)
      /\ \A k \in 1 .. Len(r) : r[k] = IF k <= Len(a) THEN a[k] ELSE b[k - Len(a)]
  <2>1. a \in Seq(S) /\ b \in Seq(S)
    BY <1>3, <1>4
  <2> QED BY <2>1, <1>5, ConcatIs
<1>7. ASSUME NEW k \in 1 .. Len(r) PROVE r[k] = IF k < i THEN list[k] ELSE list[k + 1]
  <2>1. CASE k < i
    BY <1>3, <1>6, <2>1
  <2>2. CASE k >= i
    <3>1. r[k] = b[k - (i - 1)]
      BY <1>3, <1>6, <2>2
    <3>2. k - (i - 1) \in 1 .. Len(list) - i /\ i + (k - (i - 1)) = k + 1
      BY <1>3, <1>4, <1>6, <2>2
    <3> QED BY <3>1, <3>2, <1>4, <2>2
  <2> QED BY <2>1, <2>2
<1> QED BY <1>3, <1>4, <1>6, <1>7

\* A list with one more entry, the i-th.
LEMMA InsertAtIs ==
    ASSUME NEW S, NEW list \in Seq(S), NEW i \in 1 .. Len(list) + 1, NEW e \in S,
           NEW r, r = InsertAt(list, i, e)
    PROVE  /\ r \in Seq(S) /\ Len(r) = Len(list) + 1
           /\ \A k \in 1 .. Len(r) :
                 r[k] = IF k < i THEN list[k] ELSE IF k = i THEN e ELSE list[k - 1]
<1>1. PICK a : a = SubSeq(list, 1, i - 1)
  OBVIOUS
<1>2. PICK b : b = SubSeq(list, i, Len(list))
  OBVIOUS
<1>3. a \in Seq(S) /\ Len(a) = i - 1 /\ \A k \in 1 .. i - 1 : a[k] = list[k]
  BY <1>1
<1>4. /\ b \in Seq(S) /\ Len(b) = Len(list) - i + 1
      /\ \A k \in 1 .. Len(b) : b[k] = list[i + k - 1]
  BY <1>2, TailIs
<1>5. PICK c : c = a \o <<e>>
  OBVIOUS
<1>6. /\ c \in Seq(S) /\ Len(c) = i
      /\ \A k \in 1 .. i : c[k] = IF k < i THEN list[k] ELSE e
  BY <1>3, <1>5
<1>7. r = c \o b
  BY <1>1, <1>2, <1>5 DEF InsertAt
<1>8. /\ r \in Seq(S) /\ Len(r) = Len(c) + Len(b)
      /\ \A k \in 1 .. Len(r) : r[k] = IF k <= Len(c) THEN c[k] ELSE b[k - Len(c)]
  <2>1. c \in Seq(S) /\ b \in Seq(S)
    BY <1>4, <1>6
  <2> QED BY <2>1, <1>7, ConcatIs
<1>9. ASSUME NEW k \in 1 .. Len(r)
      PROVE  r[k] = IF k < i THEN list[k] ELSE IF k = i THEN e ELSE list[k - 1]
  <2>1. CASE k <= i
    BY <1>6, <1>8, <2>1
  <2>2. CASE k > i
    <3>1. r[k] = b[k - i]
      BY <1>6, <1>8, <2>2
    <3>2. k - i \in 1 .. Len(b) /\ i + (k - i) - 1 = k - 1
      BY <1>4, <1>6, <1>8, <2>2
    <3> QED BY <3>1, <3>2, <1>4, <2>2
  <2> QED BY <2>1, <2>2
<1> QED BY <1>4, <1>6, <1>8, <1>9

-------------------------------------------------------------------------------
(* Identities *)

\* A list holds finitely many identities
LEMMA IdentitiesFinite ==
    ASSUME NEW list \in Seq(Elements)
    PROVE  IsFiniteSet({list[i].id : i \in DOMAIN list})
<1> DEFINE n == Len(list)
           f == [i \in 1 .. n |-> list[i].id]
           I == {list[i].id : i \in DOMAIN list}
<1>1. n \in Nat /\ DOMAIN list = 1 .. n
  OBVIOUS
<1>2. f \in Surjection(1 .. n, I)
  <2>1. f \in [1 .. n -> I]
    BY <1>1
  <2>2. \A y \in I : \E x \in 1 .. n : f[x] = y
    BY <1>1
  <2> QED BY <2>1, <2>2 DEF Surjection
<1>3. IsFiniteSet(1 .. n)
  BY <1>1, FS_Interval
<1> HIDE DEF f, I, n
<1>4. IsFiniteSet(I)
  BY <1>2, <1>3, FS_Surjection
<1> QED BY <1>4 DEF I

\* and so do the lists and pointers of the constructor.
LEMMA UsedFinite ==
    ASSUME NEW s \in Trees
    PROVE  IsFiniteSet(Used(s))
<1>1. s.open \in Seq(Elements) /\ s.formatting \in Seq(Elements)
  BY DEF Trees
<1> DEFINE A == {s.head.id, s.form.id}
           B == {s.open[i].id : i \in DOMAIN s.open}
           C == {s.formatting[i].id : i \in DOMAIN s.formatting}
<1>2. IsFiniteSet(B) /\ IsFiniteSet(C)
  BY <1>1, IdentitiesFinite
<1>3. IsFiniteSet({} \cup {s.head.id})
  BY FS_EmptySet, FS_AddElement
<1>4. IsFiniteSet(({} \cup {s.head.id}) \cup {s.form.id})
  BY <1>3, FS_AddElement
<1>5. A = ({} \cup {s.head.id}) \cup {s.form.id}
  OBVIOUS
<1>6. Used(s) = (A \cup B) \cup C
  BY DEF Used
<1> HIDE DEF A, B, C
<1>7. IsFiniteSet(A \cup B)
  BY <1>2, <1>4, <1>5, FS_Union
<1> QED BY <1>2, <1>6, <1>7, FS_Union

\* There is always one more number outside of a finite set.
LEMMA NthOutside ==
    ASSUME NEW U, IsFiniteSet(U), NEW n \in Nat, n > 0
    PROVE  \E m \in 1 .. Cardinality(U) + n : m \notin U /\ Cardinality((1 .. m) \ U) = n
<1> DEFINE k == Cardinality(U)
           T == {m \in Nat : Cardinality((1 .. m) \ U) >= n}
<1>1. k \in Nat
  BY FS_CardinalityType
<1>2. ASSUME NEW m \in Nat
      PROVE  /\ IsFiniteSet((1 .. m) \ U) /\ Cardinality((1 .. m) \ U) \in Nat
             /\ Cardinality((1 .. m) \ U) >= m - k
  <2> DEFINE A == (1 .. m) \ U
             B == (1 .. m) \cap U
  <2>1. IsFiniteSet(1 .. m) /\ Cardinality(1 .. m) = m
    BY FS_Interval
  <2>2. A \subseteq 1 .. m /\ B \subseteq U /\ A \cup B = 1 .. m /\ A \cap B = {}
    OBVIOUS
  <2>3. IsFiniteSet(A) /\ IsFiniteSet(B) /\ Cardinality(B) <= k
    BY <2>1, <2>2, FS_Subset
  <2>4. Cardinality(A) \in Nat /\ Cardinality(B) \in Nat
    BY <2>3, FS_CardinalityType
  <2> HIDE DEF A, B, k
  <2>5. Cardinality(A \cup B) = Cardinality(A) + Cardinality(B) - Cardinality(A \cap B)
    BY <2>3, FS_Union
  <2>6. Cardinality(A \cap B) = 0
    BY <2>2, FS_EmptySet
  <2>9. Cardinality(A \cup B) = m
    BY <2>1, <2>2
  <2>7. m = Cardinality(A) + Cardinality(B)
    BY <2>4, <2>5, <2>6, <2>9
  <2>8. Cardinality(A) >= m - k
    BY <2>3, <2>4, <2>7, <1>1
  <2> QED BY <2>3, <2>4, <2>8 DEF A
<1>3. k + n \in T
  BY <1>1, <1>2
<1>4. T \in SUBSET Nat /\ T # {}
  BY <1>3
<1> HIDE DEF k
<1>5. PICK m : m = Min(T)
  OBVIOUS
<1>6. m \in T /\ \A i \in T : m <= i
  BY <1>4, <1>5, Least
<1>7. m \in Nat /\ Cardinality((1 .. m) \ U) >= n /\ m <= k + n
  BY <1>3, <1>6
<1>8. m # 0
  <2>1. SUFFICES ASSUME m = 0 PROVE FALSE
    OBVIOUS
  <2>2. (1 .. m) \ U = {}
    BY <2>1
  <2>3. Cardinality((1 .. m) \ U) = 0
    BY <2>2, FS_EmptySet
  <2> QED BY <1>7, <2>3
<1>9. m - 1 \in Nat /\ m - 1 \notin T
  BY <1>6, <1>7, <1>8
<1>10. Cardinality((1 .. m - 1) \ U) \in Nat /\ Cardinality((1 .. m - 1) \ U) < n
  BY <1>2, <1>9
<1>11. m \notin U
  <2>1. SUFFICES ASSUME m \in U PROVE FALSE
    OBVIOUS
  <2>2. (1 .. m) \ U = (1 .. m - 1) \ U
    BY <2>1, <1>7, <1>8
  <2>3. Cardinality((1 .. m) \ U) = Cardinality((1 .. m - 1) \ U)
    BY <2>2
  <2>4. PICK x : x = Cardinality((1 .. m) \ U)
    OBVIOUS
  <2>5. PICK y : y = Cardinality((1 .. m - 1) \ U)
    OBVIOUS
  <2>6. x >= n /\ y \in Nat /\ y < n
    BY <2>4, <2>5, <1>7, <1>10
  <2>7. x = y
    BY <2>3, <2>4, <2>5
  <2> QED BY <2>6, <2>7
<1>12. Cardinality((1 .. m) \ U) = Cardinality((1 .. m - 1) \ U) + 1
  <2>1. (1 .. m) \ U = ((1 .. m - 1) \ U) \cup {m}
    BY <1>7, <1>8, <1>11
  <2>2. m \notin (1 .. m - 1) \ U
    BY <1>7
  <2>3. PICK A : A = (1 .. m - 1) \ U
    OBVIOUS
  <2>4. IsFiniteSet(A) /\ m \notin A /\ (1 .. m) \ U = A \cup {m}
    BY <2>1, <2>2, <2>3, <1>2, <1>9
  <2>5. Cardinality(A \cup {m}) = Cardinality(A) + 1
    BY <2>4, FS_AddElement
  <2> QED BY <2>3, <2>4, <2>5
<1>13. Cardinality((1 .. m) \ U) = n
  <2>1. PICK x : x = Cardinality((1 .. m) \ U)
    OBVIOUS
  <2>2. PICK y : y = Cardinality((1 .. m - 1) \ U)
    OBVIOUS
  <2>3. x >= n /\ y \in Nat /\ y < n /\ x = y + 1
    BY <2>1, <2>2, <1>7, <1>10, <1>12
  <2>4. x = n
    BY <2>3
  <2> QED BY <2>1, <2>4
<1>14. m \in 1 .. k + n
  BY <1>1, <1>7, <1>8
<1> QED BY <1>11, <1>13, <1>14 DEF k

\* So there is an n-th identity that nothing has.
LEMMA UnusedIs ==
    ASSUME NEW s \in Trees, NEW n \in Nat, n > 0, NEW id, id = Unused(s, n)
    PROVE  id \in Nat /\ id > 0 /\ id \notin Used(s) /\ Cardinality((1 .. id) \ Used(s)) = n
<1> DEFINE P(m) == m \notin Used(s) /\ Cardinality((1 .. m) \ Used(s)) = n
           R == 1 .. Cardinality(Used(s)) + n
<1>1. \E m \in R : P(m)
  BY UsedFinite, NthOutside
<1>2. id = CHOOSE m \in R : P(m)
  BY DEF Unused
<1>3. id \in R /\ P(id)
  BY <1>1, <1>2
<1>4. Cardinality(Used(s)) \in Nat
  BY UsedFinite, FS_CardinalityType
<1> QED BY <1>3, <1>4

\* A created element is in neither list, nor the head, nor a marker.
LEMMA CreatedIs ==
    ASSUME NEW s \in Trees, NEW name \in Names, NEW n \in Nat, n > 0,
           NEW e, e = [name |-> name, id |-> Unused(s, n)]
    PROVE  /\ e \in Elements /\ e.name = name /\ e.id > 0 /\ e # Marker
           /\ \A i \in DOMAIN s.open : s.open[i] # e
           /\ \A i \in DOMAIN s.formatting : s.formatting[i] # e
<1>1. PICK id : id = Unused(s, n)
  OBVIOUS
<1>2. id \in Nat /\ id > 0 /\ id \notin Used(s)
  BY <1>1, UnusedIs
<1>3. e = [name |-> name, id |-> id]
  BY <1>1
<1>4. e.id = id
  BY <1>3
<1>5. e \in Elements /\ e.name = name /\ e # Marker
  BY <1>2, <1>3 DEF Elements, Marker
<1>6. ASSUME NEW i \in DOMAIN s.open PROVE s.open[i].id # id
  BY <1>2 DEF Used
<1>7. ASSUME NEW i \in DOMAIN s.formatting PROVE s.formatting[i].id # id
  BY <1>2 DEF Used
<1> QED BY <1>2, <1>4, <1>5, <1>6, <1>7

-------------------------------------------------------------------------------
(* How many of a kind a list has *)

At(list, X) == {i \in DOMAIN list : list[i] \in X}

\* A list has a number of entries of a kind.
LEMMA CountIsNat ==
    ASSUME NEW S, NEW list \in Seq(S), NEW X
    PROVE  IsFiniteSet(At(list, X)) /\ Cardinality(At(list, X)) \in Nat
<1>1. IsFiniteSet(1 .. Len(list))
  BY FS_Interval
<1>2. At(list, X) \in SUBSET (1 .. Len(list))
  BY DEF At
<1> QED BY <1>1, <1>2, FS_Subset, FS_CardinalityType

\* One more entry counts once when it is of the kind.
LEMMA CountAppend ==
    ASSUME NEW S, NEW list \in Seq(S), NEW e \in S, NEW X
    PROVE  Cardinality(At(Append(list, e), X)) =
               Cardinality(At(list, X)) + IF e \in X THEN 1 ELSE 0
<1>1. PICK r : r = Append(list, e)
  OBVIOUS
<1>2. /\ DOMAIN r = 1 .. Len(list) + 1 /\ DOMAIN list = 1 .. Len(list) /\ Len(list) \in Nat
      /\ \A i \in 1 .. Len(list) : r[i] = list[i]
      /\ r[Len(list) + 1] = e
  BY <1>1
<1>3. PICK n : n = Len(list) + 1
  OBVIOUS
<1>4. n \notin At(list, X)
  BY <1>2, <1>3 DEF At
<1>5. CASE e \in X
  <2>1. At(r, X) = At(list, X) \cup {n}
    BY <1>2, <1>3, <1>5 DEF At
  <2> QED BY <2>1, <1>1, <1>4, <1>5, CountIsNat, FS_AddElement
<1>6. CASE e \notin X
  <2>1. At(r, X) = At(list, X)
    BY <1>2, <1>3, <1>6 DEF At
  <2> QED BY <2>1, <1>1, <1>6, CountIsNat
<1> QED BY <1>5, <1>6

\* A front of a list has no more of a kind, and one less when it is cut just before one.
LEMMA CountFront ==
    ASSUME NEW S, NEW list \in Seq(S), NEW n \in 0 .. Len(list), NEW X
    PROVE  /\ Cardinality(At(SubSeq(list, 1, n), X)) <= Cardinality(At(list, X))
           /\ (\E i \in n + 1 .. Len(list) : list[i] \in X) =>
                  Cardinality(At(SubSeq(list, 1, n), X)) <= Cardinality(At(list, X)) - 1
           /\ n < Len(list) /\ (\A i \in n + 2 .. Len(list) : list[i] \notin X) =>
                  Cardinality(At(SubSeq(list, 1, n), X)) >= Cardinality(At(list, X)) - 1
<1>1. PICK r : r = SubSeq(list, 1, n)
  OBVIOUS
<1>2. r \in Seq(S) /\ Len(r) = n /\ \A k \in 1 .. n : r[k] = list[k]
  BY <1>1, FrontIs
<1>3. /\ DOMAIN r = 1 .. n /\ DOMAIN list = 1 .. Len(list) /\ Len(list) \in Nat
  BY <1>2
<1>4. At(r, X) \subseteq At(list, X)
  BY <1>2, <1>3 DEF At
<1>5. IsFiniteSet(At(list, X)) /\ Cardinality(At(list, X)) \in Nat /\ Cardinality(At(r, X)) \in Nat
  BY <1>2, CountIsNat
<1>6. Cardinality(At(r, X)) <= Cardinality(At(list, X))
  BY <1>4, <1>5, FS_Subset
<1>7. ASSUME NEW i \in n + 1 .. Len(list), list[i] \in X
      PROVE  Cardinality(At(r, X)) <= Cardinality(At(list, X)) - 1
  <2>1. i \in At(list, X) /\ i \notin At(r, X)
    BY <1>3, <1>7 DEF At
  <2>2. At(r, X) \subseteq At(list, X) \ {i}
    BY <1>4, <2>1
  <2>3. IsFiniteSet(At(list, X) \ {i}) /\ Cardinality(At(list, X) \ {i}) = Cardinality(At(list, X)) - 1
    BY <1>5, <2>1, FS_RemoveElement
  <2> QED BY <2>2, <2>3, FS_Subset
<1>8. ASSUME n < Len(list), \A i \in n + 2 .. Len(list) : list[i] \notin X
      PROVE  Cardinality(At(r, X)) >= Cardinality(At(list, X)) - 1
  <2>1. At(list, X) \ {n + 1} \subseteq At(r, X)
    <3>1. ASSUME NEW i \in At(list, X), i # n + 1 PROVE i \in At(r, X)
      <4>1. i \in 1 .. Len(list) /\ list[i] \in X
        BY <1>3, <3>1 DEF At
      <4>2. i \in 1 .. n
        BY <4>1, <3>1, <1>8, <1>3
      <4> QED BY <4>1, <4>2, <1>2, <1>3 DEF At
    <3> QED BY <3>1
  <2>2. IsFiniteSet(At(list, X) \ {n + 1}) /\ Cardinality(At(list, X) \ {n + 1}) >= Cardinality(At(list, X)) - 1
    <3>1. PICK A : A = At(list, X)
      OBVIOUS
    <3>2. PICK x : x = n + 1
      OBVIOUS
    <3>3. /\ IsFiniteSet(A \ {x})
          /\ Cardinality(A \ {x}) = IF x \in A THEN Cardinality(A) - 1 ELSE Cardinality(A)
      BY <1>5, <3>1, FS_RemoveElement
    <3>4. Cardinality(A \ {x}) >= Cardinality(A) - 1
      BY <3>1, <3>3, <1>5
    <3> QED BY <3>1, <3>2, <3>3, <3>4
  <2>3. IsFiniteSet(At(r, X)) /\ Cardinality(At(list, X) \ {n + 1}) \in Nat
    BY <1>2, <2>2, CountIsNat, FS_CardinalityType
  <2>4. Cardinality(At(list, X) \ {n + 1}) <= Cardinality(At(r, X))
    BY <2>1, <2>3, FS_Subset
  <2> QED BY <2>2, <2>3, <2>4, <1>5
<1> QED BY <1>1, <1>6, <1>7, <1>8

-------------------------------------------------------------------------------
(* What the two lists always are *)

Listable == FormattingNames \cup {"a", "nobr"}

Kinds(open, list) ==
    /\ open \in Seq(Elements) /\ list \in Seq(Elements)
    /\ \A i \in 1 .. Len(open) : open[i] # Marker
    /\ \A i \in 1 .. Len(list) :
          list[i] = Marker \/ (list[i].id > 0 /\ list[i].name \in Listable)

\* A marker stands between two entries.
Apart(list, i, j) == \E m \in 1 .. Len(list) : list[m] = Marker /\ i < m /\ m < j

Nested(open, list) ==
    \A i, j \in 1 .. Len(list), p, q \in 1 .. Len(open) :
        Apart(list, i, j) /\ open[p] = list[i] /\ open[q] = list[j] => p < q

\* Two elements of one name with no marker between them.
Alike(list, i, j) ==
    /\ list[i] # Marker /\ list[j] # Marker /\ list[i].name = list[j].name
    /\ \A m \in 1 .. Len(list) : list[m] = Marker => (m < i <=> m < j)

Four(list, a, b, c, d) ==
    /\ a # b /\ a # c /\ a # d /\ b # c /\ b # d /\ c # d
    /\ Alike(list, a, b) /\ Alike(list, a, c) /\ Alike(list, a, d)

Ark(list) == \A a, b, c, d \in 1 .. Len(list) : ~Four(list, a, b, c, d)

Lists(open, list) == Kinds(open, list) /\ Nested(open, list) /\ Ark(list)

\* A list whose entries come one to one from another has no four like each other either.
LEMMA ArkEmbedded ==
    ASSUME NEW list, NEW r, Ark(list), NEW h \in [1 .. Len(r) -> 1 .. Len(list)],
           \A i, j \in 1 .. Len(r) : h[i] = h[j] => i = j,
           \A i, j \in 1 .. Len(r) : Alike(r, i, j) => Alike(list, h[i], h[j])
    PROVE  Ark(r)
<1> SUFFICES ASSUME NEW a \in 1 .. Len(r), NEW b \in 1 .. Len(r), NEW c \in 1 .. Len(r),
                    NEW d \in 1 .. Len(r), Four(r, a, b, c, d)
             PROVE  FALSE
  BY DEF Ark
<1>1. Four(list, h[a], h[b], h[c], h[d])
  BY DEF Four
<1> QED BY <1>1 DEF Ark

\* Elements leave the stack, the others keep their order.
LEMMA ListsThinned ==
    ASSUME NEW open, NEW list, Lists(open, list), NEW r \in Seq(Elements),
           NEW h \in [1 .. Len(r) -> 1 .. Len(open)],
           \A p \in 1 .. Len(r) : r[p] = open[h[p]],
           \A p, q \in 1 .. Len(r) : h[p] < h[q] => p < q
    PROVE  Lists(r, list)
<1>1. Kinds(r, list)
  BY DEF Lists, Kinds
<1>2. Nested(r, list)
  BY DEF Lists, Nested
<1> QED BY <1>1, <1>2 DEF Lists

\* The last elements leave the stack.
LEMMA ListsShrunk ==
    ASSUME NEW open, NEW list, Lists(open, list), NEW n \in 0 .. Len(open)
    PROVE  Lists(SubSeq(open, 1, n), list)
<1>1. PICK r : r = SubSeq(open, 1, n)
  OBVIOUS
<1>2. open \in Seq(Elements)
  BY DEF Lists, Kinds
<1>3. r \in Seq(Elements) /\ Len(r) = n /\ \A k \in 1 .. n : r[k] = open[k]
  BY <1>1, <1>2, FrontIs
<1> DEFINE h == [k \in 1 .. n |-> k]
<1>4. /\ h \in [1 .. Len(r) -> 1 .. Len(open)]
      /\ \A p \in 1 .. Len(r) : r[p] = open[h[p]]
      /\ \A p, q \in 1 .. Len(r) : h[p] < h[q] => p < q
  BY <1>2, <1>3
<1> HIDE DEF h
<1> QED BY <1>1, <1>3, <1>4, ListsThinned

\* One element leaves the stack.
LEMMA ListsWithout ==
    ASSUME NEW open, NEW list, Lists(open, list), NEW i \in 1 .. Len(open)
    PROVE  Lists(RemoveAt(open, i), list)
<1>1. PICK r : r = RemoveAt(open, i)
  OBVIOUS
<1>2. open \in Seq(Elements)
  BY DEF Lists, Kinds
<1>3. /\ r \in Seq(Elements) /\ Len(r) = Len(open) - 1
      /\ \A k \in 1 .. Len(r) : r[k] = IF k < i THEN open[k] ELSE open[k + 1]
  BY <1>1, <1>2, RemoveAtIs
<1> DEFINE h == [k \in 1 .. Len(r) |-> IF k < i THEN k ELSE k + 1]
<1>4. /\ h \in [1 .. Len(r) -> 1 .. Len(open)]
      /\ \A p \in 1 .. Len(r) : r[p] = open[h[p]]
      /\ \A p, q \in 1 .. Len(r) : h[p] < h[q] => p < q
  <2>1. Len(open) \in Nat /\ Len(r) \in Nat /\ Len(r) = Len(open) - 1
    BY <1>2, <1>3
  <2>2. \A k \in 1 .. Len(r) : h[k] = IF k < i THEN k ELSE k + 1
    OBVIOUS
  <2>3. ASSUME NEW k \in 1 .. Len(r) PROVE h[k] \in 1 .. Len(open) /\ r[k] = open[h[k]]
    BY <2>1, <2>2, <1>3
  <2>4. ASSUME NEW p \in 1 .. Len(r), NEW q \in 1 .. Len(r), h[p] < h[q] PROVE p < q
    BY <2>1, <2>2, <2>4
  <2>5. h \in [1 .. Len(r) -> 1 .. Len(open)]
    BY <2>3
  <2> QED BY <2>3, <2>4, <2>5
<1> HIDE DEF h
<1>5. Lists(r, list)
  <2>1. r \in Seq(Elements)
    BY <1>3
  <2> QED BY <2>1, <1>4, ListsThinned
<1> QED BY <1>1, <1>5

\* An element that is not listed is opened.
LEMMA ListsPushed ==
    ASSUME NEW open, NEW list, Lists(open, list), NEW e \in Elements, e # Marker,
           \A i \in 1 .. Len(list) : list[i] # e
    PROVE  Lists(Append(open, e), list)
<1>1. PICK r : r = Append(open, e)
  OBVIOUS
<1>2. open \in Seq(Elements) /\ list \in Seq(Elements)
  BY DEF Lists, Kinds
<1>3. /\ r \in Seq(Elements) /\ Len(r) = Len(open) + 1 /\ Len(open) \in Nat
      /\ \A k \in 1 .. Len(open) : r[k] = open[k]
      /\ r[Len(open) + 1] = e
  BY <1>1, <1>2
<1>4. Kinds(r, list)
  BY <1>3 DEF Lists, Kinds
<1>5. Nested(r, list)
  <2> SUFFICES ASSUME NEW i \in 1 .. Len(list), NEW j \in 1 .. Len(list),
                      NEW p \in 1 .. Len(r), NEW q \in 1 .. Len(r),
                      Apart(list, i, j), r[p] = list[i], r[q] = list[j]
               PROVE  p < q
    BY DEF Nested
  <2>1. p \in 1 .. Len(open) /\ q \in 1 .. Len(open)
    BY <1>3
  <2> QED BY <2>1, <1>3 DEF Lists, Nested
<1> QED BY <1>1, <1>4, <1>5 DEF Lists

\* An element leaves the list, no marker.
LEMMA ListsForgotten ==
    ASSUME NEW open, NEW list, Lists(open, list), NEW k \in 1 .. Len(list), list[k] # Marker
    PROVE  Lists(open, RemoveAt(list, k))
<1>1. PICK r : r = RemoveAt(list, k)
  OBVIOUS
<1>2. list \in Seq(Elements)
  BY DEF Lists, Kinds
<1>3. /\ r \in Seq(Elements) /\ Len(r) = Len(list) - 1 /\ Len(list) \in Nat
      /\ \A i \in 1 .. Len(r) : r[i] = IF i < k THEN list[i] ELSE list[i + 1]
  BY <1>1, <1>2, RemoveAtIs
<1> DEFINE h == [i \in 1 .. Len(r) |-> IF i < k THEN i ELSE i + 1]
<1>4. /\ h \in [1 .. Len(r) -> 1 .. Len(list)]
      /\ \A i \in 1 .. Len(r) : r[i] = list[h[i]]
      /\ \A i, j \in 1 .. Len(r) : h[i] < h[j] <=> i < j
      /\ \A i, j \in 1 .. Len(r) : h[i] = h[j] => i = j
  BY <1>3
<1>5. \A m \in 1 .. Len(list) : m # k => \E i \in 1 .. Len(r) : h[i] = m
  <2> SUFFICES ASSUME NEW m \in 1 .. Len(list), m # k PROVE \E i \in 1 .. Len(r) : h[i] = m
    OBVIOUS
  <2>1. CASE m < k
    BY <1>3, <2>1
  <2>2. CASE m > k
    <3>1. m - 1 \in 1 .. Len(r) /\ h[m - 1] = m
      BY <1>3, <2>2
    <3> QED BY <3>1
  <2> QED BY <2>1, <2>2
<1> HIDE DEF h
<1>6. Kinds(open, r)
  BY <1>3, <1>4 DEF Lists, Kinds
<1>7. Nested(open, r)
  <2> SUFFICES ASSUME NEW i \in 1 .. Len(r), NEW j \in 1 .. Len(r),
                      NEW p \in 1 .. Len(open), NEW q \in 1 .. Len(open),
                      Apart(r, i, j), open[p] = r[i], open[q] = r[j]
               PROVE  p < q
    BY DEF Nested
  <2>1. Apart(list, h[i], h[j])
    BY <1>4 DEF Apart
  <2>2. /\ h[i] \in 1 .. Len(list) /\ h[j] \in 1 .. Len(list)
        /\ open[p] = list[h[i]] /\ open[q] = list[h[j]]
    BY <1>4
  <2>3. Nested(open, list)
    BY DEF Lists
  <2> QED BY <2>1, <2>2, <2>3 DEF Nested
<1>8. ASSUME NEW i \in 1 .. Len(r), NEW j \in 1 .. Len(r), Alike(r, i, j)
      PROVE  Alike(list, h[i], h[j])
  <2>1. ASSUME NEW m \in 1 .. Len(list), list[m] = Marker PROVE m < h[i] <=> m < h[j]
    <3>1. PICK n \in 1 .. Len(r) : h[n] = m
      BY <1>5, <2>1
    <3>2. n < i <=> n < j
      BY <1>4, <1>8, <2>1, <3>1 DEF Alike
    <3> QED BY <3>1, <3>2, <1>4
  <2> QED BY <2>1, <1>4, <1>8 DEF Alike
<1>9. Ark(r)
  BY <1>4, <1>8, ArkEmbedded DEF Lists
<1> QED BY <1>1, <1>6, <1>7, <1>9 DEF Lists

\* The end of the list goes.
LEMMA ListsCut ==
    ASSUME NEW open, NEW list, Lists(open, list), NEW n \in 0 .. Len(list)
    PROVE  Lists(open, SubSeq(list, 1, n))
<1>1. PICK r : r = SubSeq(list, 1, n)
  OBVIOUS
<1>2. list \in Seq(Elements)
  BY DEF Lists, Kinds
<1>3. /\ r \in Seq(Elements) /\ Len(r) = n /\ Len(list) \in Nat
      /\ \A k \in 1 .. n : r[k] = list[k]
  BY <1>1, <1>2, FrontIs
<1>4. Kinds(open, r)
  <2>1. Kinds(open, list)
    BY DEF Lists
  <2>2. \A i \in 1 .. Len(r) : i \in 1 .. Len(list) /\ r[i] = list[i]
    BY <1>3
  <2> QED BY <2>1, <2>2, <1>3 DEF Kinds
<1>5. Nested(open, r)
  <2> SUFFICES ASSUME NEW i \in 1 .. Len(r), NEW j \in 1 .. Len(r),
                      NEW p \in 1 .. Len(open), NEW q \in 1 .. Len(open),
                      Apart(r, i, j), open[p] = r[i], open[q] = r[j]
               PROVE  p < q
    BY DEF Nested
  <2>1. Apart(list, i, j)
    BY <1>3 DEF Apart
  <2> QED BY <2>1, <1>3 DEF Lists, Nested
<1> DEFINE h == [k \in 1 .. n |-> k]
<1>6. /\ h \in [1 .. Len(r) -> 1 .. Len(list)]
      /\ \A i \in 1 .. Len(r) : h[i] = i
  BY <1>2, <1>3
<1> HIDE DEF h
<1>7. ASSUME NEW i \in 1 .. Len(r), NEW j \in 1 .. Len(r), Alike(r, i, j)
      PROVE  Alike(list, i, j)
  <2>1. ASSUME NEW m \in 1 .. Len(list), list[m] = Marker PROVE m < i <=> m < j
    <3>1. CASE m <= n
      BY <1>3, <1>7, <2>1, <3>1 DEF Alike
    <3>2. CASE m > n
      BY <1>3, <3>2
    <3> QED BY <3>1, <3>2
  <2> QED BY <2>1, <1>3, <1>7 DEF Alike
<1>8. Ark(r)
  BY <1>6, <1>7, ArkEmbedded DEF Lists
<1> QED BY <1>1, <1>4, <1>5, <1>8 DEF Lists

-------------------------------------------------------------------------------
(* Markers, clones and new entries *)

\* What the rules make up has a name.
LEMMA NamesHave ==
    {"", "none", "marker", "html", "head", "body", "br", "button", "caption", "colgroup",
     "form", "hr", "img", "label", "li", "a", "nobr", "noscript", "optgroup", "option",
     "p", "select", "table", "tbody", "td", "th", "tr"} \subseteq Names
BY DEF Names

\* A marker is an element.
LEMMA MarkerIs == Marker \in Elements
<1>1. "marker" \in Names
  BY NamesHave
<1> QED BY <1>1 DEF Marker, Elements

\* A marker ends the list.
LEMMA ListsMarked ==
    ASSUME NEW open, NEW list, Lists(open, list)
    PROVE  Lists(open, Append(list, Marker))
<1>1. PICK r : r = Append(list, Marker)
  OBVIOUS
<1>2. open \in Seq(Elements) /\ list \in Seq(Elements) /\ Marker \in Elements
  <2>1. Marker \in Elements
    BY MarkerIs
  <2>2. open \in Seq(Elements) /\ list \in Seq(Elements)
    BY DEF Lists, Kinds
  <2> QED BY <2>1, <2>2
<1>3. /\ r \in Seq(Elements) /\ Len(r) = Len(list) + 1 /\ Len(list) \in Nat
      /\ \A k \in 1 .. Len(list) : r[k] = list[k]
      /\ r[Len(list) + 1] = Marker
  BY <1>1, <1>2
<1>4. Kinds(open, r)
  <2>1. Kinds(open, list)
    BY DEF Lists
  <2>2. ASSUME NEW k \in 1 .. Len(r)
        PROVE  r[k] = Marker \/ (r[k].id > 0 /\ r[k].name \in Listable)
    <3>1. CASE k \in 1 .. Len(list)
      <4>1. r[k] = list[k]
        BY <3>1, <1>3
      <4>2. list[k] = Marker \/ (list[k].id > 0 /\ list[k].name \in Listable)
        BY <3>1, <2>1 DEF Kinds
      <4> QED BY <4>1, <4>2
    <3>2. CASE k \notin 1 .. Len(list)
      BY <3>2, <1>3
    <3> QED BY <3>1, <3>2
  <2>3. open \in Seq(Elements) /\ \A i \in 1 .. Len(open) : open[i] # Marker
    BY <2>1 DEF Kinds
  <2> QED BY <2>2, <2>3, <1>3 DEF Kinds
<1>5. Nested(open, r)
  <2> SUFFICES ASSUME NEW i \in 1 .. Len(r), NEW j \in 1 .. Len(r),
                      NEW p \in 1 .. Len(open), NEW q \in 1 .. Len(open),
                      Apart(r, i, j), open[p] = r[i], open[q] = r[j]
               PROVE  p < q
    BY DEF Nested
  <2>1. open[p] # Marker /\ open[q] # Marker
    BY DEF Lists, Kinds
  <2>2. i \in 1 .. Len(list) /\ j \in 1 .. Len(list)
    BY <2>1, <1>3
  <2>3. Apart(list, i, j)
    BY <2>2, <1>3 DEF Apart
  <2>4. open[p] = list[i] /\ open[q] = list[j]
    BY <2>2, <1>3
  <2>5. Nested(open, list)
    BY DEF Lists
  <2> QED BY <2>2, <2>3, <2>4, <2>5 DEF Nested
<1>6. Ark(r)
  <2> SUFFICES ASSUME NEW a \in 1 .. Len(r), NEW b \in 1 .. Len(r), NEW c \in 1 .. Len(r),
                      NEW d \in 1 .. Len(r), Four(r, a, b, c, d)
               PROVE  FALSE
    BY DEF Ark
  <2>1. ASSUME NEW i \in 1 .. Len(r), NEW j \in 1 .. Len(r), Alike(r, i, j)
        PROVE  i \in 1 .. Len(list) /\ j \in 1 .. Len(list) /\ Alike(list, i, j)
    <3>1. i \in 1 .. Len(list) /\ j \in 1 .. Len(list)
      BY <2>1, <1>3 DEF Alike
    <3> QED BY <3>1, <2>1, <1>3 DEF Alike
  <2>2. /\ a \in 1 .. Len(list) /\ b \in 1 .. Len(list)
        /\ c \in 1 .. Len(list) /\ d \in 1 .. Len(list)
        /\ Four(list, a, b, c, d)
    BY <2>1 DEF Four
  <2>3. Ark(list)
    BY DEF Lists
  <2> QED BY <2>2, <2>3 DEF Ark
<1> QED BY <1>1, <1>4, <1>5, <1>6 DEF Lists

\* Entries are renewed where they are, with the open elements that they are.
LEMMA ListsRenewed ==
    ASSUME NEW open, NEW list, Lists(open, list), NEW o, NEW r, Kinds(o, r),
           Len(r) = Len(list), Len(o) = Len(open),
           \A i \in 1 .. Len(list) : r[i] = Marker <=> list[i] = Marker,
           \A i \in 1 .. Len(list) : r[i].name = list[i].name,
           \A i \in 1 .. Len(list), p \in 1 .. Len(open) : o[p] = r[i] => open[p] = list[i]
    PROVE  Lists(o, r)
<1>1. Nested(o, r)
  BY DEF Lists, Nested, Apart
<1> DEFINE h == [i \in 1 .. Len(r) |-> i]
<1>2. h \in [1 .. Len(r) -> 1 .. Len(list)] /\ \A i \in 1 .. Len(r) : h[i] = i
  OBVIOUS
<1> HIDE DEF h
<1>3. \A i, j \in 1 .. Len(r) : Alike(r, i, j) => Alike(list, h[i], h[j])
  BY <1>2 DEF Alike
<1>4. Ark(list) /\ \A i, j \in 1 .. Len(r) : h[i] = h[j] => i = j
  BY <1>2 DEF Lists
<1>5. Ark(r)
  BY <1>2, <1>3, <1>4, ArkEmbedded
<1> QED BY <1>1, <1>5 DEF Lists

\* An entry after all markers.
Latest(list, i) ==
    list[i] # Marker /\ \A m \in 1 .. Len(list) : list[m] = Marker => m < i

\* Among those, no three have the name.
Space(list, name) ==
    \A a, b, c \in 1 .. Len(list) :
        a # b /\ a # c /\ b # c /\ Latest(list, a) /\ Latest(list, b) /\ Latest(list, c)
        => ~(list[a].name = name /\ list[b].name = name /\ list[c].name = name)

\* When one of the latest entries goes, there is space for another of its name.
LEMMA SpaceOfForgotten ==
    ASSUME NEW list \in Seq(Elements), Ark(list), NEW k \in 1 .. Len(list), Latest(list, k)
    PROVE  Space(RemoveAt(list, k), list[k].name)
<1>1. PICK r : r = RemoveAt(list, k)
  OBVIOUS
<1>2. /\ r \in Seq(Elements) /\ Len(r) = Len(list) - 1 /\ Len(list) \in Nat
      /\ \A i \in 1 .. Len(r) : r[i] = IF i < k THEN list[i] ELSE list[i + 1]
  BY <1>1, RemoveAtIs
<1> DEFINE h == [i \in 1 .. Len(r) |-> IF i < k THEN i ELSE i + 1]
<1>3. /\ h \in [1 .. Len(r) -> 1 .. Len(list)]
      /\ \A i \in 1 .. Len(r) : r[i] = list[h[i]] /\ h[i] # k
      /\ \A i, j \in 1 .. Len(r) : h[i] = h[j] => i = j
  BY <1>2
<1>4. ASSUME NEW i \in 1 .. Len(r), Latest(r, i) PROVE Latest(list, h[i])
  <2>1. ASSUME NEW m \in 1 .. Len(list), list[m] = Marker PROVE m < h[i]
    <3>1. m < k
      BY <2>1 DEF Latest
    <3>2. m \in 1 .. Len(r) /\ r[m] = Marker
      BY <3>1, <2>1, <1>2
    <3>3. m < i
      BY <3>2, <1>4 DEF Latest
    <3> QED BY <3>3
  <2> HIDE DEF h
  <2> QED BY <2>1, <1>3, <1>4 DEF Latest
<1> HIDE DEF h
<1>5. SUFFICES ASSUME NEW a \in 1 .. Len(r), NEW b \in 1 .. Len(r), NEW c \in 1 .. Len(r),
                      a # b, a # c, b # c, Latest(r, a), Latest(r, b), Latest(r, c),
                      r[a].name = list[k].name, r[b].name = list[k].name,
                      r[c].name = list[k].name
               PROVE  FALSE
  BY <1>1 DEF Space
<1>6. /\ h[a] \in 1 .. Len(list) /\ h[b] \in 1 .. Len(list) /\ h[c] \in 1 .. Len(list)
      /\ Latest(list, h[a]) /\ Latest(list, h[b]) /\ Latest(list, h[c])
      /\ list[h[a]].name = list[k].name /\ list[h[b]].name = list[k].name
      /\ list[h[c]].name = list[k].name
      /\ h[a] # k /\ h[b] # k /\ h[c] # k /\ h[a] # h[b] /\ h[a] # h[c] /\ h[b] # h[c]
  BY <1>3, <1>4, <1>5
<1>7. Four(list, k, h[a], h[b], h[c])
  <2>1. ASSUME NEW i \in 1 .. Len(list), Latest(list, i), list[i].name = list[k].name
        PROVE  Alike(list, k, i)
    BY <2>1 DEF Latest, Alike
  <2> QED BY <2>1, <1>6 DEF Four
<1> QED BY <1>6, <1>7 DEF Ark

\* The sequence r is the list with an entry at a place of its own.
Inserted(list, r, x, e) ==
    /\ r \in Seq(Elements) /\ Len(r) = Len(list) + 1
    /\ \A k \in 1 .. Len(r) :
          r[k] = IF k < x THEN list[k] ELSE IF k = x THEN e ELSE list[k - 1]

\* The open elements that are listed before a marker are below the place.
Outer(open, list, y) ==
    \A a, m \in 1 .. Len(list), p \in 1 .. Len(open) :
        list[m] = Marker /\ a < m /\ open[p] = list[a] => p < y

\* A new element is listed after all markers and opened inside of what they hold off.
LEMMA ListsInserted ==
    ASSUME NEW open, NEW list, Lists(open, list), NEW e \in Elements, e # Marker, e.id > 0,
           e.name \in Listable, \A i \in 1 .. Len(list) : list[i] # e,
           \A i \in 1 .. Len(open) : open[i] # e,
           NEW x \in 1 .. Len(list) + 1, \A m \in 1 .. Len(list) : list[m] = Marker => m < x,
           NEW y \in 1 .. Len(open) + 1, Outer(open, list, y), Space(list, e.name),
           NEW r, Inserted(list, r, x, e), NEW o, Inserted(open, o, y, e)
    PROVE  Lists(o, r)
<1>1. /\ list \in Seq(Elements) /\ Len(list) \in Nat /\ Len(r) = Len(list) + 1
      /\ open \in Seq(Elements) /\ Len(open) \in Nat /\ Len(o) = Len(open) + 1
      /\ o \in Seq(Elements) /\ r \in Seq(Elements)
  BY DEF Lists, Kinds, Inserted
<1> DEFINE h == [i \in 1 .. Len(r) |-> IF i < x THEN i ELSE i - 1]
           g == [i \in 1 .. Len(o) |-> IF i < y THEN i ELSE i - 1]
<1>2. \A i \in 1 .. Len(r) : i # x => h[i] \in 1 .. Len(list) /\ r[i] = list[h[i]]
  BY <1>1 DEF Inserted
<1>3. \A i, j \in 1 .. Len(r) : i # x /\ j # x => (h[i] < h[j] <=> i < j) /\ (h[i] = h[j] => i = j)
  BY <1>1
<1>4. r[x] = e
  BY <1>1 DEF Inserted
<1>5. \A i \in 1 .. Len(o) : i # y => g[i] \in 1 .. Len(open) /\ o[i] = open[g[i]]
  BY <1>1 DEF Inserted
<1>6. \A i, j \in 1 .. Len(o) : i # y /\ j # y => (g[i] < g[j] => i < j)
  BY <1>1
<1>7. o[y] = e
  BY <1>1 DEF Inserted
<1>8. \A i \in 1 .. Len(o) : i # y /\ g[i] < y => i < y
  BY <1>1
<1>9. ASSUME NEW i \in 1 .. Len(r), r[i] = Marker PROVE i < x /\ h[i] = i
  <2>1. i # x
    BY <1>4, <1>9
  <2>2. h[i] \in 1 .. Len(list) /\ list[h[i]] = Marker
    BY <2>1, <1>2, <1>9
  <2>3. h[i] < x
    BY <2>2
  <2> QED BY <2>1, <2>3, <1>1
<1>10. \A m \in 1 .. Len(list) : list[m] = Marker => m < x /\ m \in 1 .. Len(r) /\ r[m] = Marker
  BY <1>1 DEF Inserted
<1> HIDE DEF h, g
<1>11. Kinds(o, r)
  <2>1. Kinds(open, list)
    BY DEF Lists
  <2>2. \A i \in 1 .. Len(o) : o[i] # Marker
    BY <2>1, <1>5, <1>7 DEF Kinds
  <2>3. ASSUME NEW i \in 1 .. Len(r)
        PROVE  r[i] = Marker \/ (r[i].id > 0 /\ r[i].name \in Listable)
    BY <2>1, <1>2, <1>4 DEF Kinds
  <2> QED BY <2>2, <2>3, <1>1 DEF Kinds
<1>12. Nested(o, r)
  <2> SUFFICES ASSUME NEW i \in 1 .. Len(r), NEW j \in 1 .. Len(r),
                      NEW p \in 1 .. Len(o), NEW q \in 1 .. Len(o),
                      Apart(r, i, j), o[p] = r[i], o[q] = r[j]
               PROVE  p < q
    BY DEF Nested
  <2>1. PICK m \in 1 .. Len(r) : r[m] = Marker /\ i < m /\ m < j
    BY DEF Apart
  <2>2. m < x /\ h[m] = m /\ m # x /\ i # x
    BY <2>1, <1>9
  <2>3. h[i] < m /\ h[i] \in 1 .. Len(list) /\ m \in 1 .. Len(list) /\ list[m] = Marker
    BY <2>1, <2>2, <1>2, <1>3
  <2>4. o[p] = list[h[i]]
    BY <2>2, <1>2
  <2>5. p # y
    BY <2>3, <2>4, <1>7
  <2>6. g[p] \in 1 .. Len(open) /\ open[g[p]] = list[h[i]]
    BY <2>4, <2>5, <1>5
  <2>7. g[p] < y
    BY <2>3, <2>6 DEF Outer
  <2>8. p < y
    BY <2>5, <2>7, <1>8
  <2>9. CASE q = y
    BY <2>8, <2>9
  <2>10. CASE q # y
    <3>1. g[q] \in 1 .. Len(open) /\ o[q] = open[g[q]]
      BY <2>10, <1>5
    <3>2. j # x
      BY <3>1, <1>4
    <3>3. h[j] \in 1 .. Len(list) /\ m < h[j] /\ r[j] = list[h[j]]
      BY <3>2, <2>1, <2>2, <1>2, <1>3
    <3>4. Apart(list, h[i], h[j])
      BY <2>3, <3>3 DEF Apart
    <3>5. g[p] < g[q]
      <4>1. open[g[q]] = list[h[j]]
        BY <3>1, <3>3
      <4>2. Nested(open, list)
        BY DEF Lists
      <4> QED BY <4>1, <4>2, <3>1, <3>3, <3>4, <2>3, <2>6 DEF Nested
    <3> QED BY <3>5, <2>5, <2>10, <1>6
  <2> QED BY <2>9, <2>10
<1>13. Ark(r)
  <2> SUFFICES ASSUME NEW a \in 1 .. Len(r), NEW b \in 1 .. Len(r), NEW c \in 1 .. Len(r),
                      NEW d \in 1 .. Len(r), Four(r, a, b, c, d)
               PROVE  FALSE
    BY DEF Ark
  <2>1. ASSUME NEW i \in 1 .. Len(r), NEW j \in 1 .. Len(r), i # x, j # x, Alike(r, i, j)
        PROVE  Alike(list, h[i], h[j])
    <3>1. r[i] = list[h[i]] /\ r[j] = list[h[j]]
      BY <2>1, <1>2
    <3>2. ASSUME NEW m \in 1 .. Len(list), list[m] = Marker PROVE m < h[i] <=> m < h[j]
      <4>1. m < x /\ m # x /\ m \in 1 .. Len(r) /\ r[m] = Marker
        BY <3>2, <1>10
      <4>2. h[m] = m
        BY <4>1, <1>9
      <4>3. (m < i <=> m < h[i]) /\ (m < j <=> m < h[j])
        BY <4>1, <4>2, <2>1, <1>3
      <4> QED BY <4>1, <4>3, <2>1 DEF Alike
    <3> QED BY <3>1, <3>2, <2>1 DEF Alike
  <2>2. ASSUME NEW i \in 1 .. Len(r), i # x, Alike(r, i, x) \/ Alike(r, x, i)
        PROVE  h[i] \in 1 .. Len(list) /\ Latest(list, h[i]) /\ list[h[i]].name = e.name
    <3>1. r[i] = list[h[i]] /\ h[i] \in 1 .. Len(list)
      BY <2>2, <1>2
    <3>2. ASSUME NEW m \in 1 .. Len(list), list[m] = Marker PROVE m < h[i]
      <4>1. m < x /\ m # x /\ m \in 1 .. Len(r) /\ r[m] = Marker
        BY <3>2, <1>10
      <4>2. h[m] = m
        BY <4>1, <1>9
      <4>3. m < i <=> m < h[i]
        BY <4>1, <4>2, <2>2, <1>3
      <4>4. m < i
        BY <4>1, <2>2 DEF Alike
      <4> QED BY <4>3, <4>4
    <3> QED BY <3>1, <3>2, <2>2, <1>4 DEF Alike, Latest
  <2>3. ASSUME NEW i \in 1 .. Len(r), NEW j \in 1 .. Len(r), NEW k \in 1 .. Len(r),
               i # j, i # k, j # k, i # x, j # x, k # x,
               Alike(r, i, x) \/ Alike(r, x, i), Alike(r, j, x) \/ Alike(r, x, j),
               Alike(r, k, x) \/ Alike(r, x, k)
        PROVE  FALSE
    <3>1. /\ h[i] \in 1 .. Len(list) /\ Latest(list, h[i]) /\ list[h[i]].name = e.name
          /\ h[j] \in 1 .. Len(list) /\ Latest(list, h[j]) /\ list[h[j]].name = e.name
          /\ h[k] \in 1 .. Len(list) /\ Latest(list, h[k]) /\ list[h[k]].name = e.name
      BY <2>2, <2>3
    <3>2. h[i] # h[j] /\ h[i] # h[k] /\ h[j] # h[k]
      BY <2>3, <1>3
    <3> QED BY <3>1, <3>2 DEF Space
  <2>4. ASSUME NEW i \in 1 .. Len(r), NEW j \in 1 .. Len(r), Alike(r, a, i), Alike(r, a, j)
        PROVE  Alike(r, i, j) /\ Alike(r, j, i) /\ Alike(r, i, a)
    BY <2>4 DEF Alike
  <2>5. CASE a = x
    BY <2>5, <2>3 DEF Four
  <2>6. CASE b = x
    <3>1. Alike(r, a, b) /\ Alike(r, c, b) /\ Alike(r, d, b)
      BY <2>4 DEF Four
    <3> QED BY <3>1, <2>6, <2>3 DEF Four
  <2>7. CASE c = x
    <3>1. Alike(r, a, c) /\ Alike(r, b, c) /\ Alike(r, d, c)
      BY <2>4 DEF Four
    <3> QED BY <3>1, <2>7, <2>3 DEF Four
  <2>8. CASE d = x
    <3>1. Alike(r, a, d) /\ Alike(r, b, d) /\ Alike(r, c, d)
      BY <2>4 DEF Four
    <3> QED BY <3>1, <2>8, <2>3 DEF Four
  <2>9. CASE a # x /\ b # x /\ c # x /\ d # x
    <3>1. Four(list, h[a], h[b], h[c], h[d])
      <4>1. /\ h[a] # h[b] /\ h[a] # h[c] /\ h[a] # h[d]
            /\ h[b] # h[c] /\ h[b] # h[d] /\ h[c] # h[d]
        BY <2>9, <1>3 DEF Four
      <4>2. Alike(list, h[a], h[b]) /\ Alike(list, h[a], h[c]) /\ Alike(list, h[a], h[d])
        BY <2>9, <2>1 DEF Four
      <4> QED BY <4>1, <4>2 DEF Four
    <3>2. /\ h[a] \in 1 .. Len(list) /\ h[b] \in 1 .. Len(list)
          /\ h[c] \in 1 .. Len(list) /\ h[d] \in 1 .. Len(list)
      BY <2>9, <1>2
    <3>3. Ark(list)
      BY DEF Lists
    <3> QED BY <3>1, <3>2, <3>3 DEF Ark
  <2> QED BY <2>5, <2>6, <2>7, <2>8, <2>9
<1> QED BY <1>11, <1>12, <1>13 DEF Lists

\* An entry at the end is one inserted after all others.
LEMMA AppendInserts ==
    ASSUME NEW list \in Seq(Elements), NEW e \in Elements
    PROVE  Inserted(list, Append(list, e), Len(list) + 1, e)
<1>1. PICK r : r = Append(list, e)
  OBVIOUS
<1>2. /\ r \in Seq(Elements) /\ Len(r) = Len(list) + 1 /\ Len(list) \in Nat
      /\ \A k \in 1 .. Len(list) : r[k] = list[k]
      /\ r[Len(list) + 1] = e
  BY <1>1
<1> QED BY <1>1, <1>2 DEF Inserted

\* An entry inserted at a position is inserted there.
LEMMA InsertAtInserts ==
    ASSUME NEW list \in Seq(Elements), NEW e \in Elements, NEW x \in 1 .. Len(list) + 1
    PROVE  Inserted(list, InsertAt(list, x, e), x, e)
BY InsertAtIs DEF Inserted

\* The entries since the last marker.
LEMMA SinceMarkerIs ==
    ASSUME NEW s, s.formatting \in Seq(Elements), NEW k
    PROVE  k \in SinceMarker(s) <=>
               k \in 1 .. Len(s.formatting) /\ Latest(s.formatting, k)
<1>1. PICK list : list = s.formatting
  OBVIOUS
<1>2. PICK i : i = LastMarker(s)
  OBVIOUS
<1>3. /\ i \in 0 .. Len(list)
      /\ i > 0 => list[i] = Marker
      /\ \A m \in i + 1 .. Len(list) : list[m] # Marker
  BY <1>1, <1>2, LastMarkerIs
<1>4. SinceMarker(s) = i + 1 .. Len(list) /\ Len(list) \in Nat
  BY <1>1, <1>2 DEF SinceMarker
<1>5. ASSUME k \in i + 1 .. Len(list) PROVE k \in 1 .. Len(list) /\ Latest(list, k)
  <2>1. ASSUME NEW m \in 1 .. Len(list), list[m] = Marker PROVE m < k
    <3>1. m \notin i + 1 .. Len(list)
      BY <1>3, <2>1
    <3> QED BY <3>1, <1>3, <1>4, <1>5
  <2>2. k \in 1 .. Len(list) /\ list[k] # Marker
    BY <1>3, <1>4, <1>5
  <2> QED BY <2>1, <2>2 DEF Latest
<1>6. ASSUME k \in 1 .. Len(list), Latest(list, k) PROVE k \in i + 1 .. Len(list)
  <2>1. CASE i = 0
    BY <1>6, <2>1
  <2>2. CASE i > 0
    <3>1. i < k
      BY <2>2, <1>3, <1>6 DEF Latest
    <3> QED BY <3>1, <1>3, <1>6
  <2> QED BY <2>1, <2>2, <1>3
<1> QED BY <1>1, <1>4, <1>5, <1>6

\* What was not listed is not listed when something else is gone.
LEMMA RemoveAtNotAdds ==
    ASSUME NEW list \in Seq(Elements), NEW k \in 1 .. Len(list), NEW e,
           \A i \in 1 .. Len(list) : list[i] # e
    PROVE  \A i \in 1 .. Len(RemoveAt(list, k)) : RemoveAt(list, k)[i] # e
<1>1. PICK r : r = RemoveAt(list, k)
  OBVIOUS
<1>2. /\ Len(r) = Len(list) - 1 /\ Len(list) \in Nat
      /\ \A i \in 1 .. Len(r) : r[i] = IF i < k THEN list[i] ELSE list[i + 1]
  BY <1>1, RemoveAtIs
<1>3. ASSUME NEW i \in 1 .. Len(r) PROVE r[i] # e
  <2>1. i \in 1 .. Len(list) /\ i + 1 \in 1 .. Len(list)
    BY <1>2
  <2> QED BY <2>1, <1>2
<1> QED BY <1>1, <1>3

\* Of the Noah's Ark clause: what it keeps has room for one more.
LEMMA NoahKeeps ==
    ASSUME NEW open, NEW list, Lists(open, list), NEW name, NEW like,
           \A i : i \in like <=> i \in 1 .. Len(list) /\ Latest(list, i) /\ list[i].name = name,
           NEW kept, Cardinality(like) = 3 => kept = RemoveAt(list, Min(like)),
           Cardinality(like) # 3 => kept = list
    PROVE  /\ Lists(open, kept) /\ Space(kept, name)
           /\ \A e : (\A i \in 1 .. Len(list) : list[i] # e) =>
                        \A i \in 1 .. Len(kept) : kept[i] # e
<1>1. list \in Seq(Elements) /\ Len(list) \in Nat /\ Ark(list)
  BY DEF Lists, Kinds
<1>2. \A i : i \in like <=> i \in 1 .. Len(list) /\ Latest(list, i) /\ list[i].name = name
  OBVIOUS
<1>3. CASE Cardinality(like) = 3
  <2>1. like # {}
    <3>1. SUFFICES ASSUME like = {} PROVE FALSE
      OBVIOUS
    <3>2. Cardinality(like) = 0
      BY <3>1, FS_EmptySet
    <3>3. PICK n : n = Cardinality(like)
      OBVIOUS
    <3>4. n = 0 /\ n = 3
      BY <3>2, <3>3, <1>3
    <3> QED BY <3>4
  <2>2. like \in SUBSET Nat
    BY <1>2
  <2>3. PICK k : k = Min(like)
    OBVIOUS
  <2>4. k \in like
    BY <2>1, <2>2, <2>3, Least
  <2>5. k \in 1 .. Len(list) /\ Latest(list, k) /\ list[k].name = name
    BY <2>4, <1>2
  <2>6. kept = RemoveAt(list, k)
    BY <1>3, <2>3
  <2>7. Lists(open, kept)
    BY <2>5, <2>6, ListsForgotten DEF Latest
  <2>8. Space(kept, name)
    BY <2>5, <2>6, <1>1, SpaceOfForgotten
  <2>9. ASSUME NEW e, \A i \in 1 .. Len(list) : list[i] # e
        PROVE  \A i \in 1 .. Len(kept) : kept[i] # e
    <3>1. list \in Seq(Elements) /\ k \in 1 .. Len(list)
      BY <1>1, <2>5
    <3>2. \A i \in 1 .. Len(RemoveAt(list, k)) : RemoveAt(list, k)[i] # e
      BY <3>1, <2>9, RemoveAtNotAdds
    <3> QED BY <3>2, <2>6
  <2> QED BY <2>7, <2>8, <2>9
<1>4. CASE Cardinality(like) # 3
  <2>1. kept = list
    BY <1>4
  <2>2. Space(list, name)
    <3> SUFFICES ASSUME NEW a \in 1 .. Len(list), NEW b \in 1 .. Len(list), NEW c \in 1 .. Len(list),
                        a # b, a # c, b # c, Latest(list, a), Latest(list, b), Latest(list, c),
                        list[a].name = name, list[b].name = name, list[c].name = name
                 PROVE  FALSE
      BY DEF Space
    <3>1. a \in like /\ b \in like /\ c \in like
      BY <1>2
    <3>2. ASSUME NEW d \in like PROVE d \in {a, b, c}
      <4>1. d \in 1 .. Len(list) /\ Latest(list, d) /\ list[d].name = name
        BY <1>2
      <4>2. ~Four(list, d, a, b, c)
        BY <4>1, <1>1 DEF Ark
      <4>3. ASSUME NEW i \in {a, b, c} PROVE Alike(list, d, i)
        <5>1. Latest(list, i) /\ list[i].name = name
          OBVIOUS
        <5> QED BY <5>1, <4>1 DEF Alike, Latest
      <4> QED BY <4>2, <4>3 DEF Four
    <3>3. PICK A : A = {a}
      OBVIOUS
    <3>4. PICK B : B = A \cup {b}
      OBVIOUS
    <3>5. PICK C : C = B \cup {c}
      OBVIOUS
    <3>6. like = C
      BY <3>1, <3>2, <3>3, <3>4, <3>5
    <3>7. IsFiniteSet(A) /\ Cardinality(A) = 1
      BY <3>3, FS_Singleton
    <3>8. IsFiniteSet(B) /\ Cardinality(B) = Cardinality(A) + 1
      <4>1. b \notin A
        BY <3>3
      <4> QED BY <4>1, <3>4, <3>7, FS_AddElement
    <3>9. Cardinality(C) = Cardinality(B) + 1
      <4>1. c \notin B
        BY <3>3, <3>4
      <4> QED BY <4>1, <3>5, <3>8, FS_AddElement
    <3>10. Cardinality(C) = 3
      <4>1. PICK x : x = Cardinality(B)
        OBVIOUS
      <4>2. x = 2
        <5>1. PICK y : y = Cardinality(A)
          OBVIOUS
        <5>2. y = 1
          BY <5>1, <3>7
        <5>3. x = y + 1
          BY <5>1, <4>1, <3>8
        <5> QED BY <5>2, <5>3
      <4>3. PICK z : z = Cardinality(C)
        OBVIOUS
      <4>4. z = x + 1
        BY <4>1, <4>3, <3>9
      <4>5. z = 3
        BY <4>2, <4>4
      <4> QED BY <4>3, <4>5
    <3> QED BY <3>6, <3>10, <1>4
  <2> QED BY <2>1, <2>2
<1> QED BY <1>3, <1>4

\* The last n entries are opened again.
LEMMA ListsReopened ==
    ASSUME NEW open, NEW list, Lists(open, list), NEW from \in 0 .. Len(list),
           \A i \in from + 1 .. Len(list) : list[i] # Marker,
           NEW new \in Seq(Elements), Len(new) = Len(list) - from,
           \A i \in 1 .. Len(new) : new[i].name = list[from + i].name /\ new[i].id > 0,
           \A i \in 1 .. Len(new) : \A j \in 1 .. Len(list) : new[i] # list[j],
           \A i \in 1 .. Len(new) : \A j \in 1 .. Len(open) : new[i] # open[j]
    PROVE  Lists(open \o new, SubSeq(list, 1, from) \o new)
<1>1. PICK front : front = SubSeq(list, 1, from)
  OBVIOUS
<1>2. PICK o : o = open \o new
  OBVIOUS
<1>3. PICK r : r = front \o new
  OBVIOUS
<1>4. Kinds(open, list) /\ Nested(open, list) /\ Ark(list)
  BY DEF Lists
<1>5. /\ open \in Seq(Elements) /\ list \in Seq(Elements)
      /\ Len(open) \in Nat /\ Len(list) \in Nat /\ Len(new) \in Nat
  BY <1>4 DEF Kinds
<1>6. front \in Seq(Elements) /\ Len(front) = from /\ \A k \in 1 .. from : front[k] = list[k]
  BY <1>1, <1>5, FrontIs
<1>7. /\ o \in Seq(Elements) /\ Len(o) = Len(open) + Len(new)
      /\ \A k \in 1 .. Len(o) : o[k] = IF k <= Len(open) THEN open[k] ELSE new[k - Len(open)]
  <2>1. open \in Seq(Elements) /\ new \in Seq(Elements)
    BY <1>5
  <2> QED BY <2>1, <1>2, ConcatIs
<1>8. /\ r \in Seq(Elements) /\ Len(r) = from + Len(new)
      /\ \A k \in 1 .. Len(r) : r[k] = IF k <= from THEN front[k] ELSE new[k - from]
  <2>1. /\ r \in Seq(Elements) /\ Len(r) = Len(front) + Len(new)
        /\ \A k \in 1 .. Len(r) : r[k] = IF k <= Len(front) THEN front[k] ELSE new[k - Len(front)]
    BY <1>3, <1>6, ConcatIs
  <2> QED BY <2>1, <1>6
<1>9. Len(r) = Len(list) /\ \A k \in 1 .. from : k \in 1 .. Len(r) /\ r[k] = list[k]
  BY <1>5, <1>6, <1>8
<1>10. ASSUME NEW k \in 1 .. Len(r), k > from
       PROVE  /\ k - from \in 1 .. Len(new) /\ r[k] = new[k - from]
              /\ k \in from + 1 .. Len(list)
              /\ r[k].name = list[k].name /\ r[k].id > 0 /\ r[k] # Marker
              /\ \A j \in 1 .. Len(list) : r[k] # list[j]
              /\ \A j \in 1 .. Len(open) : r[k] # open[j]
  <2>1. k - from \in 1 .. Len(new) /\ r[k] = new[k - from] /\ k \in from + 1 .. Len(list)
    BY <1>5, <1>8, <1>9, <1>10
  <2>2. from + (k - from) = k
    BY <2>1
  <2>3. r[k].name = list[k].name /\ r[k].id > 0
    BY <2>1, <2>2
  <2>4. r[k] # Marker
    BY <2>3 DEF Marker
  <2> QED BY <2>1, <2>3, <2>4
<1>11. ASSUME NEW p \in 1 .. Len(o), p > Len(open)
       PROVE  /\ p - Len(open) \in 1 .. Len(new) /\ o[p] = new[p - Len(open)]
              /\ o[p].id > 0 /\ o[p] # Marker
              /\ \A j \in 1 .. Len(list) : o[p] # list[j]
  <2>1. p - Len(open) \in 1 .. Len(new) /\ o[p] = new[p - Len(open)]
    BY <1>5, <1>7, <1>11
  <2>2. o[p].id > 0
    BY <2>1
  <2>3. o[p] # Marker
    BY <2>2 DEF Marker
  <2> QED BY <2>1, <2>2, <2>3
<1>12. ASSUME NEW p \in 1 .. Len(open) PROVE p \in 1 .. Len(o) /\ o[p] = open[p]
  <2>1. p \in 1 .. Len(o) /\ p <= Len(open)
    BY <1>5, <1>7
  <2> QED BY <2>1, <1>7
<1>13. \A k \in 1 .. Len(r) : r[k] = Marker <=> list[k] = Marker
  BY <1>5, <1>9, <1>10
<1>14. \A k \in 1 .. Len(r) : r[k].name = list[k].name
  BY <1>5, <1>9, <1>10
<1>15. Kinds(o, r)
  <2>1. ASSUME NEW p \in 1 .. Len(o) PROVE o[p] # Marker
    <3>1. CASE p \in 1 .. Len(open)
      BY <3>1, <1>4, <1>12 DEF Kinds
    <3>2. CASE p \notin 1 .. Len(open)
      BY <3>2, <1>5, <1>11
    <3> QED BY <3>1, <3>2
  <2>2. ASSUME NEW k \in 1 .. Len(r)
        PROVE  r[k] = Marker \/ (r[k].id > 0 /\ r[k].name \in Listable)
    <3>1. list[k] = Marker \/ (list[k].id > 0 /\ list[k].name \in Listable)
      BY <1>4, <1>9 DEF Kinds
    <3>2. CASE k <= from
      BY <3>1, <3>2, <1>9
    <3>3. CASE k > from
      <4>1. list[k] # Marker
        BY <3>3, <1>10
      <4> QED BY <4>1, <3>1, <3>3, <1>10
    <3> QED BY <3>2, <3>3
  <2> QED BY <2>1, <2>2, <1>7, <1>8 DEF Kinds
<1>16. Nested(o, r)
  <2> SUFFICES ASSUME NEW i \in 1 .. Len(r), NEW j \in 1 .. Len(r),
                      NEW p \in 1 .. Len(o), NEW q \in 1 .. Len(o),
                      Apart(r, i, j), o[p] = r[i], o[q] = r[j]
               PROVE  p < q
    BY DEF Nested
  <2>1. PICK m \in 1 .. Len(r) : r[m] = Marker /\ i < m /\ m < j
    BY DEF Apart
  <2>2. m <= from
    BY <2>1, <1>5, <1>10
  <2>3. i \in 1 .. Len(list) /\ j \in 1 .. Len(list) /\ m \in 1 .. Len(list) /\ r[i] = list[i] /\ list[m] = Marker
    BY <2>1, <2>2, <1>9, <1>13
  <2>4. p \in 1 .. Len(open) /\ open[p] = list[i]
    <3>1. p <= Len(open)
      <4>1. SUFFICES ASSUME p > Len(open) PROVE FALSE
        BY <1>5
      <4>2. o[p] # list[i]
        BY <4>1, <2>3, <1>11
      <4> QED BY <4>2, <2>3
    <3>2. p \in 1 .. Len(open)
      BY <3>1, <1>5
    <3> QED BY <3>2, <2>3, <1>12
  <2>5. CASE q > Len(open)
    BY <2>4, <2>5
  <2>6. CASE q <= Len(open)
    <3>1. q \in 1 .. Len(open) /\ open[q] = r[j]
      BY <2>6, <1>5, <1>12
    <3>2. j <= from
      BY <3>1, <1>5, <1>10
    <3>3. open[q] = list[j] /\ Apart(list, i, j)
      BY <3>1, <3>2, <2>1, <2>3, <1>9 DEF Apart
    <3> QED BY <3>1, <3>3, <2>3, <2>4, <1>4 DEF Nested
  <2> QED BY <2>5, <2>6, <1>5
<1>17. Ark(r)
  <2> DEFINE h == [i \in 1 .. Len(r) |-> i]
  <2>1. h \in [1 .. Len(r) -> 1 .. Len(list)] /\ \A i \in 1 .. Len(r) : h[i] = i
    BY <1>9
  <2> HIDE DEF h
  <2>2. \A i, j \in 1 .. Len(r) : Alike(r, i, j) => Alike(list, h[i], h[j])
    BY <2>1, <1>9, <1>13, <1>14 DEF Alike
  <2>3. \A i, j \in 1 .. Len(r) : h[i] = h[j] => i = j
    BY <2>1
  <2> QED BY <2>1, <2>2, <2>3, <1>4, ArkEmbedded
<1> QED BY <1>1, <1>2, <1>3, <1>15, <1>16, <1>17 DEF Lists

-------------------------------------------------------------------------------
(* Markers and what they cover *)

\* A list whose entries of a kind map one to one to those of another has no more of
\* them.
LEMMA CountMapped ==
    ASSUME NEW S, NEW a \in Seq(S), NEW b \in Seq(S), NEW X,
           NEW h \in [At(a, X) -> At(b, X)], \A i, j \in At(a, X) : h[i] = h[j] => i = j
    PROVE  Cardinality(At(a, X)) <= Cardinality(At(b, X))
<1>1. h \in Injection(At(a, X), At(b, X))
  BY DEF Injection, IsInjective
<1> QED BY <1>1, CountIsNat, FS_Injection

\* An entry that goes counts once when it is of the kind.
LEMMA CountRemoved ==
    ASSUME NEW S, NEW list \in Seq(S), NEW k \in 1 .. Len(list), NEW X
    PROVE  /\ Cardinality(At(RemoveAt(list, k), X)) <= Cardinality(At(list, X))
           /\ list[k] \notin X =>
                  Cardinality(At(list, X)) <= Cardinality(At(RemoveAt(list, k), X))
<1>1. PICK r : r = RemoveAt(list, k)
  OBVIOUS
<1>2. /\ r \in Seq(S) /\ Len(r) = Len(list) - 1 /\ Len(list) \in Nat
      /\ \A i \in 1 .. Len(r) : r[i] = IF i < k THEN list[i] ELSE list[i + 1]
  BY <1>1, RemoveAtIs
<1>3. \A i : i \in At(list, X) <=> i \in 1 .. Len(list) /\ list[i] \in X
  BY DEF At
<1>4. \A i : i \in At(r, X) <=> i \in 1 .. Len(r) /\ r[i] \in X
  BY <1>2 DEF At
<1>5. Cardinality(At(r, X)) <= Cardinality(At(list, X))
  <2> DEFINE h == [i \in At(r, X) |-> IF i < k THEN i ELSE i + 1]
  <2>1. h \in [At(r, X) -> At(list, X)]
    <3>1. ASSUME NEW i \in At(r, X) PROVE (IF i < k THEN i ELSE i + 1) \in At(list, X)
      <4>1. i \in 1 .. Len(r) /\ r[i] \in X
        BY <1>4
      <4>2. CASE i < k
        BY <4>1, <4>2, <1>2, <1>3
      <4>3. CASE ~(i < k)
        BY <4>1, <4>3, <1>2, <1>3
      <4> QED BY <4>2, <4>3
    <3> QED BY <3>1
  <2>2. \A i, j \in At(r, X) : h[i] = h[j] => i = j
    BY <1>2, <1>4
  <2> HIDE DEF h
  <2> QED BY <2>1, <2>2, <1>2, CountMapped
<1>6. ASSUME list[k] \notin X PROVE Cardinality(At(list, X)) <= Cardinality(At(r, X))
  <2> DEFINE h == [i \in At(list, X) |-> IF i < k THEN i ELSE i - 1]
  <2>1. ASSUME NEW i \in At(list, X) PROVE h[i] \in At(r, X)
    <3>1. i \in 1 .. Len(list) /\ i # k /\ list[i] \in X
      BY <1>3, <1>6
    <3>2. CASE i < k
      BY <3>1, <3>2, <1>2, <1>4
    <3>3. CASE i > k
      <4>1. i - 1 \in 1 .. Len(r) /\ ~(i - 1 < k) /\ (i - 1) + 1 = i
        BY <3>1, <3>3, <1>2
      <4>2. r[i - 1] = list[i]
        BY <4>1, <1>2
      <4> QED BY <4>1, <4>2, <3>1, <3>3, <1>4
    <3> QED BY <3>1, <3>2, <3>3
  <2>2. \A i, j \in At(list, X) : i # k /\ j # k /\ (h[i] = h[j] => i = j)
    BY <1>2, <1>3, <1>6
  <2>3. h \in [At(list, X) -> At(r, X)]
    BY <2>1
  <2> HIDE DEF h
  <2> QED BY <2>2, <2>3, <1>2, CountMapped
<1> QED BY <1>1, <1>5, <1>6

\* One more entry anywhere counts once when it is of the kind.
LEMMA CountInserted ==
    ASSUME NEW list \in Seq(Elements), NEW r, NEW x \in 1 .. Len(list) + 1, NEW e,
           Inserted(list, r, x, e), NEW X, e \notin X
    PROVE  /\ Cardinality(At(r, X)) <= Cardinality(At(list, X))
           /\ Cardinality(At(list, X)) <= Cardinality(At(r, X))
<1>1. /\ r \in Seq(Elements) /\ Len(r) = Len(list) + 1 /\ Len(list) \in Nat
      /\ \A k \in 1 .. Len(r) :
            r[k] = IF k < x THEN list[k] ELSE IF k = x THEN e ELSE list[k - 1]
  BY DEF Inserted
<1>3. \A i : i \in At(list, X) <=> i \in 1 .. Len(list) /\ list[i] \in X
  BY DEF At
<1>4. \A i : i \in At(r, X) <=> i \in 1 .. Len(r) /\ r[i] \in X
  BY <1>1 DEF At
<1>5. Cardinality(At(r, X)) <= Cardinality(At(list, X))
  <2> DEFINE h == [i \in At(r, X) |-> IF i < x THEN i ELSE i - 1]
  <2>1. \A i \in At(r, X) : i # x
    BY <1>1, <1>4
  <2>2. ASSUME NEW i \in At(r, X) PROVE h[i] \in At(list, X)
    <3>1. i \in 1 .. Len(r) /\ i # x /\ r[i] \in X
      BY <2>1, <1>4
    <3>2. CASE i < x
      <4>1. i \in 1 .. Len(list) /\ r[i] = list[i]
        BY <3>1, <3>2, <1>1
      <4> QED BY <4>1, <3>1, <3>2, <1>3
    <3>3. CASE i > x
      <4>1. i - 1 \in 1 .. Len(list) /\ r[i] = list[i - 1]
        BY <3>1, <3>3, <1>1
      <4> QED BY <4>1, <3>1, <3>3, <1>3
    <3> QED BY <3>1, <3>2, <3>3
  <2>3. \A i, j \in At(r, X) : h[i] = h[j] => i = j
    BY <2>1, <1>1, <1>4
  <2>4. h \in [At(r, X) -> At(list, X)]
    BY <2>2
  <2> HIDE DEF h
  <2> QED BY <2>3, <2>4, <1>1, CountMapped
<1>6. Cardinality(At(list, X)) <= Cardinality(At(r, X))
  <2> DEFINE h == [i \in At(list, X) |-> IF i < x THEN i ELSE i + 1]
  <2>1. ASSUME NEW i \in At(list, X) PROVE h[i] \in At(r, X)
    <3>1. i \in 1 .. Len(list) /\ list[i] \in X
      BY <1>3
    <3>2. CASE i < x
      BY <3>1, <3>2, <1>1, <1>4
    <3>3. CASE i >= x
      <4>1. i + 1 \in 1 .. Len(r) /\ ~(i + 1 < x) /\ i + 1 # x /\ (i + 1) - 1 = i
        BY <3>1, <3>3, <1>1
      <4>2. r[i + 1] = list[i]
        BY <4>1, <1>1
      <4> QED BY <4>1, <4>2, <3>1, <3>3, <1>4
    <3> QED BY <3>1, <3>2, <3>3
  <2>2. \A i, j \in At(list, X) : h[i] = h[j] => i = j
    BY <1>1, <1>3
  <2>3. h \in [At(list, X) -> At(r, X)]
    BY <2>1
  <2> HIDE DEF h
  <2> QED BY <2>2, <2>3, <1>1, CountMapped
<1> QED BY <1>5, <1>6

\* Entries that are not of the kind do not count.
LEMMA CountConcat ==
    ASSUME NEW S, NEW a \in Seq(S), NEW b \in Seq(S), NEW X, \A i \in 1 .. Len(b) : b[i] \notin X
    PROVE  Cardinality(At(a \o b, X)) = Cardinality(At(a, X))
<1>1. PICK r : r = a \o b
  OBVIOUS
<1>2. /\ r \in Seq(S) /\ Len(r) = Len(a) + Len(b)
      /\ \A k \in 1 .. Len(r) : r[k] = IF k <= Len(a) THEN a[k] ELSE b[k - Len(a)]
  BY <1>1, ConcatIs
<1>3. At(r, X) = At(a, X)
  <2>1. ASSUME NEW i \in At(r, X) PROVE i \in At(a, X)
    <3>1. i \in 1 .. Len(r) /\ r[i] \in X
      BY <1>2 DEF At
    <3>2. CASE i <= Len(a)
      BY <3>1, <3>2, <1>2 DEF At
    <3>3. CASE i > Len(a)
      <4>1. i - Len(a) \in 1 .. Len(b) /\ r[i] = b[i - Len(a)]
        BY <3>1, <3>3, <1>2
      <4> QED BY <4>1, <3>1
    <3> QED BY <3>1, <3>2, <3>3
  <2>2. ASSUME NEW i \in At(a, X) PROVE i \in At(r, X)
    <3>1. i \in 1 .. Len(a) /\ a[i] \in X
      BY DEF At
    <3>2. i \in 1 .. Len(r) /\ r[i] = a[i]
      BY <3>1, <1>2
    <3> QED BY <3>1, <3>2, <1>2 DEF At
  <2> QED BY <2>1, <2>2
<1> QED BY <1>1, <1>3

\* The names of the elements that put a marker into the list.
Coverings == Embedded \cup Cells \cup {"caption"}

Covering == {e \in Elements : e.name \in Coverings}

Covers(open) == Cardinality(At(open, Covering))
Markers(list) == Cardinality(At(list, {Marker}))

Covered(open, list) == Covers(open) <= Markers(list)

\* The counts are numbers.
LEMMA CoversIsNat ==
    ASSUME NEW open \in Seq(Elements)
    PROVE  Covers(open) \in Nat /\ Markers(open) \in Nat
BY CountIsNat DEF Covers, Markers

\* What is listed puts no marker into the list.
LEMMA ListableCoversNot == Listable \cap Coverings = {}
BY DEF Listable, FormattingNames, Coverings, Embedded, Cells

-------------------------------------------------------------------------------
(* The constructor is sane, and each operation keeps it so *)

Whole(s) ==
    /\ s \in Trees
    /\ Lists(s.open, s.formatting)
    /\ s.head.name \in {"none", "head"}

Sane(s) == Whole(s) /\ (s.failure = "none" => Covered(s.open, s.formatting))

\* What is whole has lists
LEMMA WholeIs ==
    ASSUME NEW s, Whole(s)
    PROVE  /\ s \in Trees /\ s.open \in Seq(Elements) /\ s.formatting \in Seq(Elements)
           /\ Len(s.open) \in Nat /\ Len(s.formatting) \in Nat
           /\ s.failure \in Failures /\ s.head \in Elements
           /\ Lists(s.open, s.formatting)
<1>1. s \in Trees /\ Lists(s.open, s.formatting)
  BY DEF Whole
<1>2. /\ s.open \in Seq(Elements) /\ s.formatting \in Seq(Elements)
      /\ s.failure \in Failures /\ s.head \in Elements
  BY <1>1 DEF Trees
<1>3. Len(s.open) \in Nat /\ Len(s.formatting) \in Nat
  BY <1>2
<1> QED BY <1>1, <1>2, <1>3

\* and so has what is sane.
LEMMA SaneIs ==
    ASSUME NEW s, Sane(s)
    PROVE  /\ s \in Trees /\ s.open \in Seq(Elements) /\ s.formatting \in Seq(Elements)
           /\ Len(s.open) \in Nat /\ Len(s.formatting) \in Nat
           /\ s.failure \in Failures /\ s.head \in Elements
           /\ Lists(s.open, s.formatting)
           /\ Whole(s)
BY WholeIs DEF Sane

\* Nothing of the lists changes.
LEMMA SaneFrame ==
    ASSUME NEW s, Sane(s), NEW r \in Trees, r.open = s.open, r.formatting = s.formatting,
           r.head = s.head, r.failure = s.failure
    PROVE  Sane(r)
BY DEF Sane, Whole

\* A failure ends what is asked of the markers.
LEMMA FailSane ==
    ASSUME NEW s, Whole(s), NEW why \in Failures, why # "none"
    PROVE  Sane(Fail(s, why)) /\ Fail(s, why).failure # "none"
<1>1. PICK r : r = Fail(s, why)
  OBVIOUS
<1>2. /\ r \in Trees /\ r.open = s.open /\ r.formatting = s.formatting /\ r.head = s.head
      /\ r.failure # "none"
  <2>1. s \in Trees /\ s.failure \in Failures
    BY WholeIs
  <2>2. PICK f : f = IF s.failure = "none" THEN why ELSE s.failure
    OBVIOUS
  <2>3. f \in Failures /\ f # "none" /\ r = [s EXCEPT !.failure = f]
    BY <2>1, <2>2, <1>1 DEF Fail
  <2> QED BY <2>1, <2>3 DEF Trees
<1> QED BY <1>1, <1>2 DEF Sane, Whole

\* The stack alone is changed.
LEMMA OpenTree ==
    ASSUME NEW s \in Trees, NEW o \in Seq(Elements), NEW r, r = [s EXCEPT !.open = o]
    PROVE  /\ r \in Trees /\ r.open = o /\ r.formatting = s.formatting /\ r.head = s.head
           /\ r.failure = s.failure /\ r.form = s.form
BY DEF Trees

\* The list of active formatting elements alone is changed.
LEMMA FormattingTree ==
    ASSUME NEW s \in Trees, NEW l \in Seq(Elements), NEW r, r = [s EXCEPT !.formatting = l]
    PROVE  /\ r \in Trees /\ r.formatting = l /\ r.open = s.open /\ r.head = s.head
           /\ r.failure = s.failure /\ r.form = s.form
BY DEF Trees

\* The stack is cut down to n elements, and the rest had some that cover.
LEMMA ShrunkSane ==
    ASSUME NEW s, Sane(s), NEW n \in 0 .. Len(s.open), NEW r, r = Shrunk(s, n)
    PROVE  /\ Sane(r) /\ r.failure = s.failure /\ r.formatting = s.formatting /\ Len(r.open) = n
           /\ \A k \in 1 .. n : r.open[k] = s.open[k]
           /\ r.form = s.form
<1>1. PICK o : o = SubSeq(s.open, 1, n)
  OBVIOUS
<1>2. o \in Seq(Elements) /\ Len(o) = n /\ \A k \in 1 .. n : o[k] = s.open[k]
  BY <1>1, SaneIs, FrontIs
<1>3. r = [s EXCEPT !.open = o]
  BY <1>1 DEF Shrunk
<1>4. /\ r \in Trees /\ r.open = o /\ r.formatting = s.formatting /\ r.head = s.head
      /\ r.failure = s.failure /\ r.form = s.form
  BY <1>2, <1>3, SaneIs, OpenTree
<1>5. Lists(o, s.formatting)
  BY <1>1, SaneIs, ListsShrunk
<1>6. Covers(o) <= Covers(s.open)
  BY <1>1, SaneIs, CountFront DEF Covers
<1>7. s.failure = "none" => Covered(o, s.formatting)
  <2>1. Covers(o) \in Nat /\ Covers(s.open) \in Nat /\ Markers(s.formatting) \in Nat
    BY <1>2, SaneIs, CoversIsNat
  <2> QED BY <2>1, <1>6 DEF Sane, Covered
<1> QED BY <1>2, <1>4, <1>5, <1>7 DEF Sane, Whole

\* The failures that the handlers name.
LEMMA FailuresHave ==
    \A why \in {"empty", "null", "range", "bookmark", "no marker", "overflow", "passed",
                 "astray"} :
        why \in Failures /\ why # "none"
BY DEF Failures

\* Pop closes an element, or fails.
LEMMA PopSane ==
    ASSUME NEW s, Sane(s)
    PROVE  Sane(Pop(s)) /\ Pop(s).formatting = s.formatting
<1>1. CASE s.open = <<>>
  <2>1. Pop(s) = Fail(s, "empty")
    BY <1>1 DEF Pop
  <2>2. Fail(s, "empty").formatting = s.formatting
    <3>1. s \in Trees
      BY SaneIs
    <3> QED BY <3>1 DEF Fail, Trees
  <2> QED BY <2>1, <2>2, SaneIs, FailSane, FailuresHave
<1>2. CASE s.open # <<>>
  <2>1. Len(s.open) - 1 \in 0 .. Len(s.open)
    BY <1>2, SaneIs
  <2>2. Pop(s) = Shrunk(s, Len(s.open) - 1)
    BY <1>2 DEF Pop
  <2> QED BY <2>1, <2>2, ShrunkSane
<1> QED BY <1>1, <1>2

\* The last open element of the names, of a sane constructor.
LEMMA LastNamedSane ==
    ASSUME NEW s, Sane(s), NEW names, NEW i, i = LastNamed(s, names)
    PROVE  /\ i \in 0 .. Len(s.open)
           /\ i > 0 => s.open[i].name \in names
           /\ \A k \in i + 1 .. Len(s.open) : s.open[k].name \notin names
BY SaneIs, LastNamedIs

\* A search that closes everything fails.
LEMMA NothingSane ==
    ASSUME NEW s, Sane(s), NEW why \in Failures, why # "none"
    PROVE  /\ Sane(Fail(Shrunk(s, 0), why)) /\ Fail(Shrunk(s, 0), why).failure # "none"
<1>1. 0 \in 0 .. Len(s.open)
  BY SaneIs
<1>2. Sane(Shrunk(s, 0))
  BY <1>1, ShrunkSane
<1> QED BY <1>2, FailSane, SaneIs

\* Closing down to an element of the names.
LEMMA PopToSane ==
    ASSUME NEW s, Sane(s), NEW names
    PROVE  Sane(PopTo(s, names))
<1>1. PICK i : i = LastNamed(s, names)
  OBVIOUS
<1>2. i \in 0 .. Len(s.open)
  BY <1>1, LastNamedSane
<1>3. PopTo(s, names) = IF i = 0 THEN Fail(Shrunk(s, 0), "null") ELSE Shrunk(s, i)
  BY <1>1 DEF PopTo
<1> QED BY <1>2, <1>3, ShrunkSane, NothingSane, FailuresHave

\* Closing what may be left out.
LEMMA ImpliedSane ==
    ASSUME NEW s, Sane(s), NEW except
    PROVE  Sane(generate_implied_end_tags(s, except))
<1> DEFINE I == {n \in DOMAIN s.open : s.open[n].name \notin ImpliedEnd \ except}
<1>1. PICK i : i = Max({0} \cup I)
  OBVIOUS
<1>2. s.open \in Seq(Elements) /\ Len(s.open) \in Nat
  BY SaneIs
<1>3. I \in SUBSET (1 .. Len(s.open))
  BY <1>2
<1>4. generate_implied_end_tags(s, except) =
          IF i = 0 THEN Fail(Shrunk(s, 0), "null") ELSE Shrunk(s, i)
  BY <1>1 DEF generate_implied_end_tags
<1> HIDE DEF I
<1>5. i \in 0 .. Len(s.open)
  BY <1>1, <1>2, <1>3, LastOf
<1> QED BY <1>4, <1>5, ShrunkSane, NothingSane, FailuresHave

\* Of the names that cover, one is gone.
LEMMA PopThroughSane ==
    ASSUME NEW s, Sane(s), NEW names, NEW r, r = PopThrough(s, names)
    PROVE  /\ Sane(r)
           /\ names \subseteq Coverings /\ r.failure = "none" =>
                  Covers(r.open) + 1 <= Markers(r.formatting)
<1>1. PICK i : i = LastNamed(s, names)
  OBVIOUS
<1>2. i \in 0 .. Len(s.open) /\ (i > 0 => s.open[i].name \in names)
  BY <1>1, LastNamedSane
<1>3. r = IF i = 0 THEN Fail(Shrunk(s, 0), "empty") ELSE Shrunk(s, i - 1)
  BY <1>1 DEF PopThrough
<1>4. CASE i = 0
  BY <1>3, <1>4, NothingSane, FailuresHave
<1>5. CASE i # 0
  <2>1. i - 1 \in 0 .. Len(s.open) /\ r = Shrunk(s, i - 1) /\ i \in (i - 1) + 1 .. Len(s.open)
    BY <1>2, <1>3, <1>5
  <2>2. Sane(r) /\ r.failure = s.failure /\ r.formatting = s.formatting
    BY <2>1, ShrunkSane
  <2>3. ASSUME names \subseteq Coverings, r.failure = "none"
        PROVE  Covers(r.open) + 1 <= Markers(r.formatting)
    <3>1. s.open[i] \in Covering
      BY <2>3, <1>2, <1>5, SaneIs DEF Covering
    <3>2. r.open = SubSeq(s.open, 1, i - 1)
      <4>1. r = [s EXCEPT !.open = SubSeq(s.open, 1, i - 1)] /\ s \in Trees
        BY <2>1, SaneIs DEF Shrunk
      <4> QED BY <4>1 DEF Trees
    <3>3. s.open \in Seq(Elements)
      BY SaneIs
    <3>4. Cardinality(At(SubSeq(s.open, 1, i - 1), Covering)) <= Cardinality(At(s.open, Covering)) - 1
      BY <2>1, <3>1, <3>3, CountFront
    <3>5. Covers(r.open) <= Covers(s.open) - 1
      BY <3>2, <3>4 DEF Covers
    <3>6. Covers(s.open) <= Markers(s.formatting)
      BY <2>2, <2>3 DEF Sane, Covered
    <3>7. Covers(r.open) \in Nat /\ Covers(s.open) \in Nat /\ Markers(s.formatting) \in Nat
      BY <2>2, SaneIs, CoversIsNat
    <3> QED BY <3>5, <3>6, <3>7, <2>2
  <2> QED BY <2>2, <2>3
<1> QED BY <1>4, <1>5

\* Closing what may be left out and then down through an element of the names: when that
\* is one that put a marker into the list, a marker is left over.
LEMMA EndThroughSane ==
    ASSUME NEW s, Sane(s), NEW names, NEW implied, NEW r, r = EndThrough(s, names, implied)
    PROVE  /\ Sane(r)
           /\ names \subseteq Coverings /\ r.failure = "none" =>
                  Covers(r.open) + 1 <= Markers(r.formatting)
<1>1. PICK g : g = generate_implied_end_tags(s, implied)
  OBVIOUS
<1>2. Sane(g) /\ r = PopThrough(g, names)
  BY <1>1, ImpliedSane DEF EndThrough
<1> QED BY <1>2, PopThroughSane

\* Clearing takes one marker away.
LEMMA ClearSane ==
    ASSUME NEW s, Sane(s), s.failure = "none" => Covers(s.open) + 1 <= Markers(s.formatting)
    PROVE  Sane(clear_the_list_of_active_formatting_elements_up_to_the_last_marker(s))
<1>1. PICK i : i = LastMarker(s)
  OBVIOUS
<1>2. PICK r : r = clear_the_list_of_active_formatting_elements_up_to_the_last_marker(s)
  OBVIOUS
<1>3. /\ s \in Trees /\ s.formatting \in Seq(Elements) /\ Len(s.formatting) \in Nat
      /\ Lists(s.open, s.formatting)
  BY SaneIs
<1>4. /\ i \in 0 .. Len(s.formatting)
      /\ \A k \in i + 1 .. Len(s.formatting) : s.formatting[k] # Marker
  BY <1>1, <1>3, LastMarkerIs
<1>5. CASE i = 0
  <2>1. PICK l : l = SubSeq(s.formatting, 1, 0)
    OBVIOUS
  <2>2. 0 \in 0 .. Len(s.formatting)
    BY <1>3
  <2>3. l \in Seq(Elements) /\ Len(l) = 0
    BY <2>1, <2>2, <1>3, FrontIs
  <2>10. Lists(s.open, l)
    BY <2>1, <2>2, <1>3, ListsCut
  <2>7. l = <<>>
    BY <2>3, EmptySeq
  <2>11. l \in Seq(Elements)
    BY <2>3
  <2>9. PICK e : e = [s EXCEPT !.formatting = l]
    OBVIOUS
  <2>4. e \in Trees /\ e.formatting = l /\ e.open = s.open /\ e.head = s.head
    BY <2>11, <2>9, <1>3, FormattingTree
  <2>5. Whole(e)
    BY <2>10, <2>4 DEF Whole, Sane
  <2>6. r = Fail(e, "no marker")
    BY <1>1, <1>2, <1>5, <2>7, <2>9 DEF clear_the_list_of_active_formatting_elements_up_to_the_last_marker
  <2> QED BY <1>2, <2>5, <2>6, FailSane, FailuresHave
<1>6. CASE i # 0
  <2>1. PICK l : l = SubSeq(s.formatting, 1, i - 1)
    OBVIOUS
  <2>2. i - 1 \in 0 .. Len(s.formatting) /\ i - 1 < Len(s.formatting)
    BY <1>3, <1>4, <1>6
  <2>3. l \in Seq(Elements) /\ Lists(s.open, l)
    BY <2>1, <2>2, <1>3, FrontIs, ListsCut
  <2>4. r = [s EXCEPT !.formatting = l]
    BY <1>1, <1>2, <1>6, <2>1 DEF clear_the_list_of_active_formatting_elements_up_to_the_last_marker
  <2>5. /\ r \in Trees /\ r.formatting = l /\ r.open = s.open /\ r.head = s.head
        /\ r.failure = s.failure
    BY <2>3, <2>4, <1>3, FormattingTree
  <2>6. Markers(l) >= Markers(s.formatting) - 1
    <3>1. \A k \in (i - 1) + 2 .. Len(s.formatting) : s.formatting[k] \notin {Marker}
      BY <1>3, <1>4
    <3>2. Cardinality(At(SubSeq(s.formatting, 1, i - 1), {Marker}))
              >= Cardinality(At(s.formatting, {Marker})) - 1
      BY <3>1, <2>2, <1>3, CountFront
    <3> QED BY <3>2, <2>1 DEF Markers
  <2>7. Covers(s.open) \in Nat /\ Markers(l) \in Nat /\ Markers(s.formatting) \in Nat
    BY <2>3, SaneIs, CoversIsNat
  <2>8. s.failure = "none" => Covered(s.open, l)
    BY <2>6, <2>7 DEF Covered
  <2> QED BY <1>2, <2>3, <2>5, <2>8 DEF Sane, Whole
<1> QED BY <1>5, <1>6

\* An element more is covered, or one less, than there are markers.
Slack(s) == s.failure = "none" => Covers(s.open) + 1 <= Markers(s.formatting)
Short(s) == Whole(s) /\ (s.failure = "none" => Covers(s.open) <= Markers(s.formatting) + 1)

\* Writing to the current node changes no list.
LEMMA WriteSane ==
    ASSUME NEW s, Sane(s), NEW r, r = Write(s)
    PROVE  /\ Sane(r) /\ r.open = s.open /\ r.formatting = s.formatting /\ r.head = s.head
           /\ r.failure = "none" => s.failure = "none"
<1>1. CASE s.open = <<>>
  <2>1. r = Fail(s, "null") /\ s \in Trees
    BY <1>1, SaneIs DEF Write
  <2>2. r.open = s.open /\ r.formatting = s.formatting /\ r.head = s.head
    BY <2>1 DEF Fail, Trees
  <2>3. Sane(r) /\ r.failure # "none"
    BY <2>1, SaneIs, FailSane, FailuresHave
  <2> QED BY <2>2, <2>3
<1>2. CASE s.open # <<>>
  BY <1>2 DEF Write
<1> QED BY <1>1, <1>2

\* An element that is not listed is opened.
LEMMA PushIs ==
    ASSUME NEW s, Sane(s), NEW e \in Elements, e # Marker,
           \A i \in 1 .. Len(s.formatting) : s.formatting[i] # e,
           NEW r, r = Push(s, e)
    PROVE  /\ Whole(r) /\ r.formatting = s.formatting /\ r.failure = s.failure
           /\ r.open = Append(s.open, e) /\ Covers(r.open) <= Covers(s.open) + 1
           /\ r.open # <<>> /\ Last(r.open) = e
           /\ e.name \notin Coverings => Covers(r.open) = Covers(s.open)
           /\ r.head = s.head
<1>1. s \in Trees /\ s.open \in Seq(Elements) /\ Len(s.open) \in Nat
  BY SaneIs
<1>2. PICK o : o = Append(s.open, e)
  OBVIOUS
<1>3. /\ o \in Seq(Elements) /\ Len(o) = Len(s.open) + 1 /\ o[Len(s.open) + 1] = e
  BY <1>1, <1>2
<1>4. o # <<>> /\ Last(o) = e
  BY <1>1, <1>3 DEF Last
<1>5. r = [s EXCEPT !.open = o]
  BY <1>2 DEF Push
<1>6. /\ r \in Trees /\ r.open = o /\ r.formatting = s.formatting /\ r.head = s.head
      /\ r.failure = s.failure
  BY <1>1, <1>3, <1>5, OpenTree
<1>7. Lists(o, s.formatting)
  BY <1>2, SaneIs, ListsPushed
<1>8. Covers(o) = Covers(s.open) + IF e \in Covering THEN 1 ELSE 0
  BY <1>1, <1>2, CountAppend DEF Covers
<1>9. Covers(s.open) \in Nat
  BY <1>1, CoversIsNat
<1>10. Covers(o) <= Covers(s.open) + 1
  BY <1>8, <1>9
<1>11. e.name \notin Coverings => Covers(o) = Covers(s.open)
  BY <1>8, <1>9 DEF Covering
<1>12. Whole(r)
  BY <1>6, <1>7 DEF Whole, Sane
<1> QED BY <1>2, <1>4, <1>6, <1>10, <1>11, <1>12

\* A created element is new to both lists.
LEMMA CreateIs ==
    ASSUME NEW s \in Trees, NEW name \in Names, NEW e, e = create_an_element_for_a_token(s, name)
    PROVE  /\ e \in Elements /\ e.name = name /\ e.id > 0 /\ e # Marker
           /\ \A i \in 1 .. Len(s.open) : s.open[i] # e
           /\ \A i \in 1 .. Len(s.formatting) : s.formatting[i] # e
<1>1. e = [name |-> name, id |-> Unused(s, 1)]
  BY DEF create_an_element_for_a_token
<1>2. /\ e \in Elements /\ e.name = name /\ e.id > 0 /\ e # Marker
      /\ \A i \in DOMAIN s.open : s.open[i] # e
      /\ \A i \in DOMAIN s.formatting : s.formatting[i] # e
  BY <1>1, CreatedIs
<1>3. s.open \in Seq(Elements) /\ s.formatting \in Seq(Elements)
  BY DEF Trees
<1> QED BY <1>2, <1>3

\* A created element is opened, with the others below it.
LEMMA InsertIs ==
    ASSUME NEW s, Sane(s), NEW name \in Names, NEW r, r = insert_an_HTML_element(s, name),
           NEW e, e = create_an_element_for_a_token(s, name)
    PROVE  /\ Whole(r) /\ r.formatting = s.formatting
           /\ r.failure = "none" => s.failure = "none"
           /\ r.open = Append(s.open, e) /\ Covers(r.open) <= Covers(s.open) + 1
           /\ r.open # <<>> /\ Last(r.open) = e /\ e.name = name
           /\ name \notin Coverings => Covers(r.open) = Covers(s.open)
<1>1. PICK w : w = Write(s)
  OBVIOUS
<1>2. /\ Sane(w) /\ w.open = s.open /\ w.formatting = s.formatting /\ w.head = s.head
      /\ w.failure = "none" => s.failure = "none"
  BY <1>1, WriteSane
<1>3. r = Push(w, e)
  BY <1>1 DEF insert_an_HTML_element
<1>4. /\ e \in Elements /\ e.name = name /\ e # Marker
      /\ \A i \in 1 .. Len(s.formatting) : s.formatting[i] # e
  BY SaneIs, CreateIs
<1>5. /\ Whole(r) /\ r.formatting = w.formatting /\ r.failure = w.failure
      /\ r.open = Append(w.open, e) /\ Covers(r.open) <= Covers(w.open) + 1
      /\ r.open # <<>> /\ Last(r.open) = e
      /\ e.name \notin Coverings => Covers(r.open) = Covers(w.open)
  BY <1>2, <1>3, <1>4, PushIs
<1> QED BY <1>2, <1>4, <1>5

\* It may be one that puts a marker into the list if the marker is there already;
LEMMA InsertSane ==
    ASSUME NEW s, Sane(s), NEW name \in Names, name \notin Coverings \/ Slack(s)
    PROVE  Sane(insert_an_HTML_element(s, name))
<1>1. PICK r : r = insert_an_HTML_element(s, name)
  OBVIOUS
<1>2. /\ Whole(r) /\ r.formatting = s.formatting
      /\ r.failure = "none" => s.failure = "none"
      /\ Covers(r.open) <= Covers(s.open) + 1
      /\ name \notin Coverings => Covers(r.open) = Covers(s.open)
  BY <1>1, InsertIs
<1>3. /\ Covers(s.open) \in Nat /\ Covers(r.open) \in Nat /\ Markers(s.formatting) \in Nat
  BY <1>2, SaneIs, WholeIs, CoversIsNat
<1>4. ASSUME r.failure = "none" PROVE Covered(r.open, r.formatting)
  <2>1. Covers(s.open) <= Markers(s.formatting)
    BY <1>2, <1>4 DEF Sane, Covered
  <2>2. CASE name \notin Coverings
    BY <2>1, <2>2, <1>2 DEF Covered
  <2>3. CASE Slack(s)
    BY <2>3, <1>2, <1>3, <1>4 DEF Covered, Slack
  <2> QED BY <2>2, <2>3
<1> QED BY <1>1, <1>2, <1>4 DEF Sane

\* otherwise one marker is missing.
LEMMA InsertShort ==
    ASSUME NEW s, Sane(s), NEW name \in Names
    PROVE  Short(insert_an_HTML_element(s, name))
<1>1. PICK r : r = insert_an_HTML_element(s, name)
  OBVIOUS
<1>2. /\ Whole(r) /\ r.formatting = s.formatting
      /\ r.failure = "none" => s.failure = "none"
      /\ Covers(r.open) <= Covers(s.open) + 1
  BY <1>1, InsertIs
<1>3. /\ Covers(s.open) \in Nat /\ Covers(r.open) \in Nat /\ Markers(s.formatting) \in Nat
  BY <1>2, SaneIs, WholeIs, CoversIsNat
<1>4. ASSUME r.failure = "none" PROVE Covers(r.open) <= Markers(r.formatting) + 1
  <2>1. Covers(s.open) <= Markers(s.formatting)
    BY <1>2, <1>4 DEF Sane, Covered
  <2> QED BY <2>1, <1>2, <1>3
<1> QED BY <1>1, <1>2, <1>4 DEF Short

\* An element pushed and popped may have any name.
LEMMA InsertAndPopSane ==
    ASSUME NEW s, Sane(s), NEW name \in Names, name \notin Coverings
    PROVE  Sane(InsertAndPop(s, name))
BY InsertSane, PopSane DEF InsertAndPop

\* A marker more.
LEMMA MarkedIs ==
    ASSUME NEW s, Whole(s), NEW r, r = Marked(s)
    PROVE  /\ Whole(r) /\ r.open = s.open /\ r.failure = s.failure
           /\ Markers(r.formatting) = Markers(s.formatting) + 1
<1>1. PICK l : l = Append(s.formatting, Marker)
  OBVIOUS
<1>2. s \in Trees /\ s.formatting \in Seq(Elements) /\ Marker \in Elements
  BY WholeIs, MarkerIs
<1>3. l \in Seq(Elements)
  BY <1>1, <1>2
<1>4. r = [s EXCEPT !.formatting = l]
  BY <1>1 DEF Marked
<1>5. /\ r \in Trees /\ r.formatting = l /\ r.open = s.open /\ r.head = s.head
      /\ r.failure = s.failure
  BY <1>2, <1>3, <1>4, FormattingTree
<1>6. Lists(s.open, l)
  BY <1>1, WholeIs, ListsMarked
<1>7. Markers(l) = Markers(s.formatting) + 1
  BY <1>1, <1>2, CountAppend DEF Markers
<1> QED BY <1>5, <1>6, <1>7 DEF Whole

\* It makes up for the one that is missing
LEMMA MarkedSane ==
    ASSUME NEW s, Short(s)
    PROVE  Sane(Marked(s))
<1>1. PICK r : r = Marked(s)
  OBVIOUS
<1>2. /\ Whole(r) /\ r.open = s.open /\ r.failure = s.failure
      /\ Markers(r.formatting) = Markers(s.formatting) + 1
  BY <1>1, MarkedIs DEF Short
<1> QED BY <1>1, <1>2 DEF Short, Sane, Covered

\* or is there before its element.
LEMMA MarkedSlack ==
    ASSUME NEW s, Sane(s)
    PROVE  Sane(Marked(s)) /\ Slack(Marked(s))
<1>1. PICK r : r = Marked(s)
  OBVIOUS
<1>2. /\ Whole(r) /\ r.open = s.open /\ r.failure = s.failure
      /\ Markers(r.formatting) = Markers(s.formatting) + 1
  BY <1>1, MarkedIs DEF Sane
<1>3. Covers(s.open) \in Nat /\ Markers(s.formatting) \in Nat
  BY SaneIs, CoversIsNat
<1>4. ASSUME r.failure = "none" PROVE Covers(r.open) + 1 <= Markers(r.formatting)
  <2>1. Covers(s.open) <= Markers(s.formatting)
    BY <1>2, <1>4 DEF Sane, Covered
  <2> QED BY <2>1, <1>2, <1>3
<1>5. Slack(r)
  BY <1>4 DEF Slack
<1>6. r.failure = "none" => Covered(r.open, r.formatting)
  BY <1>2, <1>3, <1>4 DEF Covered
<1> QED BY <1>1, <1>2, <1>5, <1>6 DEF Sane

\* An element leaves the stack.
LEMMA RemoveOpenSane ==
    ASSUME NEW s, Sane(s), NEW e
    PROVE  Sane(remove_node_from_the_stack_of_open_elements(s, e))
<1>1. PICK i : i = Position(s.open, e)
  OBVIOUS
<1>2. PICK r : r = remove_node_from_the_stack_of_open_elements(s, e)
  OBVIOUS
<1>3. /\ s \in Trees /\ s.open \in Seq(Elements) /\ Len(s.open) \in Nat
  BY SaneIs
<1>4. i \in 0 .. Len(s.open)
  BY <1>1, <1>3, PositionIs
<1>5. r = IF i = 0 THEN s ELSE [s EXCEPT !.open = RemoveAt(s.open, i)]
  BY <1>1, <1>2 DEF remove_node_from_the_stack_of_open_elements
<1>6. CASE i # 0
  <2>1. PICK o : o = RemoveAt(s.open, i)
    OBVIOUS
  <2>2. i \in 1 .. Len(s.open)
    BY <1>3, <1>4, <1>6
  <2>3. o \in Seq(Elements)
    BY <2>1, <2>2, <1>3, RemoveAtIs
  <2>4. Lists(o, s.formatting)
    BY <2>1, <2>2, SaneIs, ListsWithout
  <2>5. Covers(o) <= Covers(s.open)
    BY <2>1, <2>2, <1>3, CountRemoved DEF Covers
  <2>6. r = [s EXCEPT !.open = o]
    BY <1>5, <1>6, <2>1
  <2>7. /\ r \in Trees /\ r.open = o /\ r.formatting = s.formatting /\ r.head = s.head
        /\ r.failure = s.failure
    BY <2>3, <2>6, <1>3, OpenTree
  <2>8. Covers(o) \in Nat /\ Covers(s.open) \in Nat /\ Markers(s.formatting) \in Nat
    BY <2>3, SaneIs, CoversIsNat
  <2>9. s.failure = "none" => Covered(o, s.formatting)
    BY <2>5, <2>8 DEF Sane, Covered
  <2> QED BY <1>2, <2>4, <2>7, <2>9 DEF Sane, Whole
<1> QED BY <1>2, <1>5, <1>6

\* An entry leaves the list of active formatting elements.
LEMMA ForgetSane ==
    ASSUME NEW s, Sane(s), NEW k \in 1 .. Len(s.formatting), s.formatting[k] # Marker,
           NEW r, r = [s EXCEPT !.formatting = RemoveAt(s.formatting, k)]
    PROVE  Sane(r) /\ r.open = s.open
<1>1. /\ s \in Trees /\ s.formatting \in Seq(Elements) /\ Len(s.formatting) \in Nat
  BY SaneIs
<1>2. PICK l : l = RemoveAt(s.formatting, k)
  OBVIOUS
<1>3. l \in Seq(Elements)
  BY <1>1, <1>2, RemoveAtIs
<1>4. Lists(s.open, l)
  BY <1>2, SaneIs, ListsForgotten
<1>5. Markers(s.formatting) <= Markers(l)
  <2>1. s.formatting[k] \notin {Marker}
    OBVIOUS
  <2> QED BY <2>1, <1>1, <1>2, CountRemoved DEF Markers
<1>6. r = [s EXCEPT !.formatting = l]
  BY <1>2
<1>7. /\ r \in Trees /\ r.formatting = l /\ r.open = s.open /\ r.head = s.head
      /\ r.failure = s.failure
  <2>1. PICK q : q = [s EXCEPT !.formatting = l]
    OBVIOUS
  <2>2. s \in Trees /\ l \in Seq(Elements)
    BY <1>1, <1>3
  <2>3. /\ q \in Trees /\ q.formatting = l /\ q.open = s.open /\ q.head = s.head
        /\ q.failure = s.failure
    BY <2>1, <2>2, FormattingTree
  <2>4. r = q
    BY <2>1, <1>6
  <2> QED BY <2>3, <2>4
<1>8. Covers(s.open) \in Nat /\ Markers(l) \in Nat /\ Markers(s.formatting) \in Nat
  BY <1>3, SaneIs, CoversIsNat
<1>9. s.failure = "none" => Covered(s.open, l)
  BY <1>5, <1>8 DEF Sane, Covered
<1> QED BY <1>4, <1>7, <1>9 DEF Sane, Whole

\* The first such entry leaves it.
LEMMA RemoveListedSane ==
    ASSUME NEW s, Sane(s), NEW e, e # Marker
    PROVE  Sane(remove_node_from_the_list_of_active_formatting_elements(s, e))
<1>1. PICK i : i = Position(s.formatting, e)
  OBVIOUS
<1>2. /\ s.formatting \in Seq(Elements) /\ Len(s.formatting) \in Nat
  BY SaneIs
<1>3. i \in 0 .. Len(s.formatting) /\ (i > 0 => s.formatting[i] = e)
  BY <1>1, <1>2, PositionIs
<1>4. remove_node_from_the_list_of_active_formatting_elements(s, e) =
          IF i = 0 THEN s ELSE [s EXCEPT !.formatting = RemoveAt(s.formatting, i)]
  BY <1>1 DEF remove_node_from_the_list_of_active_formatting_elements
<1>5. CASE i # 0
  <2>1. i \in 1 .. Len(s.formatting) /\ s.formatting[i] # Marker
    BY <1>2, <1>3, <1>5
  <2> QED BY <2>1, <1>4, <1>5, ForgetSane
<1> QED BY <1>4, <1>5

-------------------------------------------------------------------------------
(* Formatting elements, listed and opened again *)

\* A function on 1 .. n is a sequence.
LEMMA SequenceOf ==
    ASSUME NEW S, NEW n \in Nat, NEW f \in [1 .. n -> S]
    PROVE  f \in Seq(S) /\ Len(f) = n
<1>1. f \in Seq(S)
  BY SeqDef
<1>2. Len(f) \in Nat /\ DOMAIN f = 1 .. Len(f) /\ DOMAIN f = 1 .. n
  BY <1>1, LenProperties
<1> QED BY <1>1, <1>2

\* No name of the list of active formatting elements is one of these.
LEMMA ListableNames == "marker" \notin Listable /\ "none" \notin Listable /\ "head" \notin Listable
BY DEF Listable, FormattingNames

\* The entries that are closed are opened again.
LEMMA ReconstructSane ==
    ASSUME NEW s, Sane(s)
    PROVE  Sane(reconstruct_the_active_formatting_elements(s))
<1> DEFINE I == {i \in DOMAIN s.formatting :
                    s.formatting[i] = Marker
                    \/ is_in_the_stack_of_open_elements(s, s.formatting[i])}
<1>1. /\ s \in Trees /\ s.open \in Seq(Elements) /\ s.formatting \in Seq(Elements)
      /\ Len(s.open) \in Nat /\ Len(s.formatting) \in Nat /\ Lists(s.open, s.formatting)
      /\ DOMAIN s.formatting = 1 .. Len(s.formatting) /\ DOMAIN s.open = 1 .. Len(s.open)
  BY SaneIs
<1>2. PICK from : from = Reopened(s)
  OBVIOUS
<1>3. I \in SUBSET (1 .. Len(s.formatting))
  BY <1>1
<1>4. from = Max({0} \cup I)
  BY <1>2 DEF Reopened
<1> HIDE DEF I
<1>5. from \in 0 .. Len(s.formatting) /\ \A k \in 1 .. Len(s.formatting) : k > from => k \notin I
  BY <1>1, <1>3, <1>4, LastOf
<1>6. ASSUME NEW k \in from + 1 .. Len(s.formatting)
      PROVE  /\ k \in 1 .. Len(s.formatting) /\ s.formatting[k] # Marker
             /\ s.formatting[k].name \in Names /\ s.formatting[k].name \in Listable
  <2>1. k \in 1 .. Len(s.formatting) /\ k \notin I
    BY <1>1, <1>5
  <2>2. s.formatting[k] # Marker
    BY <2>1, <1>1 DEF I
  <2>3. s.formatting[k].name \in Names
    <3>1. s.formatting[k] \in Elements
      BY <2>1, <1>1
    <3> QED BY <3>1 DEF Elements
  <2>4. s.formatting[k].name \in Listable
    BY <2>1, <2>2, <1>1 DEF Lists, Kinds
  <2> QED BY <2>1, <2>2, <2>3, <2>4
<1>7. PICK n : n = Len(s.formatting) - from
  OBVIOUS
<1>8. n \in Nat /\ \A i \in 1 .. n : from + i \in from + 1 .. Len(s.formatting)
  BY <1>1, <1>5, <1>7
<1>9. PICK new : new = [i \in 1 .. n |-> [name |-> s.formatting[from + i].name,
                                          id   |-> Unused(s, i)]]
  OBVIOUS
<1>10. ASSUME NEW i \in 1 .. n
       PROVE  /\ new[i] \in Elements /\ new[i].name = s.formatting[from + i].name
              /\ new[i].name \in Listable /\ new[i].id > 0
              /\ \A j \in 1 .. Len(s.open) : new[i] # s.open[j]
              /\ \A j \in 1 .. Len(s.formatting) : new[i] # s.formatting[j]
  <2>1. PICK m : m = s.formatting[from + i].name
    OBVIOUS
  <2>2. m \in Names /\ m \in Listable
    BY <2>1, <1>6, <1>8
  <2>3. PICK e : e = [name |-> m, id |-> Unused(s, i)]
    OBVIOUS
  <2>4. new[i] = e
    BY <2>1, <2>3, <1>9
  <2>5. i \in Nat /\ i > 0
    OBVIOUS
  <2>6. /\ e \in Elements /\ e.name = m /\ e.id > 0
        /\ \A j \in DOMAIN s.open : s.open[j] # e
        /\ \A j \in DOMAIN s.formatting : s.formatting[j] # e
    BY <2>2, <2>3, <2>5, <1>1, CreatedIs
  <2> QED BY <2>1, <2>2, <2>4, <2>6, <1>1
<1>11. new \in Seq(Elements) /\ Len(new) = n
  <2>1. new \in [1 .. n -> Elements]
    BY <1>9, <1>10
  <2> QED BY <2>1, <1>8, SequenceOf
<1>12. PICK o : o = s.open \o new
  OBVIOUS
<1>13. PICK l : l = SubSeq(s.formatting, 1, from) \o new
  OBVIOUS
<1>14. Lists(o, l)
  <2>1. \A i \in from + 1 .. Len(s.formatting) : s.formatting[i] # Marker
    BY <1>6
  <2>2. \A i \in 1 .. Len(new) : new[i].name = s.formatting[from + i].name /\ new[i].id > 0
    BY <1>10, <1>11
  <2>3. \A i \in 1 .. Len(new) : \A j \in 1 .. Len(s.formatting) : new[i] # s.formatting[j]
    BY <1>10, <1>11
  <2>4. \A i \in 1 .. Len(new) : \A j \in 1 .. Len(s.open) : new[i] # s.open[j]
    BY <1>10, <1>11
  <2>5. Len(new) = Len(s.formatting) - from
    BY <1>7, <1>11
  <2> QED BY <2>1, <2>2, <2>3, <2>4, <2>5, <1>1, <1>5, <1>11, <1>12, <1>13, ListsReopened
<1>15. o \in Seq(Elements) /\ l \in Seq(Elements)
  BY <1>14 DEF Lists, Kinds
<1>16. Covers(o) = Covers(s.open)
  <2>1. ASSUME NEW i \in 1 .. Len(new) PROVE new[i] \notin Covering
    BY <1>10, <1>11, ListableCoversNot DEF Covering
  <2> QED BY <2>1, <1>1, <1>11, <1>12, CountConcat DEF Covers
<1>17. Markers(s.formatting) <= Markers(l)
  <2>1. \A k \in 1 .. Len(s.formatting) : s.formatting[k] = Marker => k <= from
    BY <1>1, <1>5, <1>6
  <2>2. PICK front : front = SubSeq(s.formatting, 1, from)
    OBVIOUS
  <2>3. front \in Seq(Elements) /\ Len(front) = from /\ \A k \in 1 .. from : front[k] = s.formatting[k]
    BY <2>2, <1>1, <1>5, FrontIs
  <2>4. /\ Len(l) = Len(front) + Len(new)
        /\ \A k \in 1 .. Len(l) : l[k] = IF k <= Len(front) THEN front[k] ELSE new[k - Len(front)]
    BY <2>2, <2>3, <1>11, <1>13, ConcatIs
  <2>5. Len(l) = Len(s.formatting) /\ \A k \in 1 .. from : l[k] = s.formatting[k]
    <3>1. Len(l) = Len(s.formatting) /\ Len(l) \in Nat /\ from \in Nat /\ from <= Len(l)
      BY <2>3, <2>4, <1>1, <1>5, <1>7, <1>11
    <3> QED BY <3>1, <2>3, <2>4
  <2>6. At(s.formatting, {Marker}) \subseteq At(l, {Marker})
    <3>1. ASSUME NEW k \in At(s.formatting, {Marker}) PROVE k \in At(l, {Marker})
      <4>1. k \in 1 .. Len(s.formatting) /\ s.formatting[k] = Marker
        BY <1>1 DEF At
      <4>2. k \in 1 .. from
        BY <4>1, <2>1, <1>1, <1>5
      <4>3. l[k] = Marker /\ k \in 1 .. Len(l)
        BY <4>1, <4>2, <2>5
      <4> QED BY <4>3, <1>15 DEF At
    <3> QED BY <3>1
  <2>7. IsFiniteSet(At(l, {Marker}))
    BY <1>15, CountIsNat
  <2> QED BY <2>6, <2>7, FS_Subset DEF Markers
<1>18. PICK w : w = Write(s)
  OBVIOUS
<1>19. /\ Sane(w) /\ w.open = s.open /\ w.formatting = s.formatting /\ w.head = s.head
       /\ w.failure = "none" => s.failure = "none"
  BY <1>18, WriteSane
<1>20. PICK r : r = [w EXCEPT !.open = o, !.formatting = l]
  OBVIOUS
<1>21. Sane(r)
  <2>1. /\ r \in Trees /\ r.open = o /\ r.formatting = l /\ r.head = w.head
        /\ r.failure = w.failure
    <3>1. w \in Trees
      BY <1>19, SaneIs
    <3> QED BY <3>1, <1>15, <1>20 DEF Trees
  <2>2. Covers(s.open) \in Nat /\ Markers(s.formatting) \in Nat /\ Markers(l) \in Nat
    BY <1>1, <1>15, CoversIsNat
  <2>3. s.failure = "none" => Covered(o, l)
    BY <2>2, <1>16, <1>17 DEF Sane, Covered
  <2> QED BY <2>1, <2>3, <1>14, <1>19 DEF Sane, Whole
<1>22. reconstruct_the_active_formatting_elements(s) = IF new = <<>> THEN s ELSE r
  <2>1. new = [i \in 1 .. Len(s.formatting) - from |->
                  [name |-> s.formatting[from + i].name, id |-> Unused(s, i)]]
    BY <1>7, <1>9
  <2>2. r = [w EXCEPT !.open = w.open \o new,
                      !.formatting = SubSeq(w.formatting, 1, from) \o new]
    BY <1>12, <1>13, <1>19, <1>20
  <2>3. from = Reopened(s) /\ w = Write(s)
    BY <1>2, <1>18
  <2> QED BY <2>1, <2>2, <2>3 DEF reconstruct_the_active_formatting_elements
<1> QED BY <1>21, <1>22

\* A formatting element is opened and listed, with Noah's Ark clause.
LEMMA InsertFormattingSane ==
    ASSUME NEW s, Sane(s), NEW name \in Names, name \in Listable
    PROVE  Sane(InsertFormatting(s, name))
<1>1. PICK e : e = create_an_element_for_a_token(s, name)
  OBVIOUS
<1>2. PICK w : w = insert_an_HTML_element(s, name)
  OBVIOUS
<1>3. /\ Whole(w) /\ w.formatting = s.formatting /\ w.open = Append(s.open, e)
      /\ w.failure = "none" => s.failure = "none"
      /\ Last(w.open) = e /\ e.name = name
      /\ name \notin Coverings => Covers(w.open) = Covers(s.open)
  BY <1>1, <1>2, InsertIs
<1>4. /\ e \in Elements /\ e.id > 0 /\ e # Marker
      /\ \A i \in 1 .. Len(s.open) : s.open[i] # e
      /\ \A i \in 1 .. Len(s.formatting) : s.formatting[i] # e
  BY <1>1, SaneIs, CreateIs
<1>5. PICK list : list = s.formatting
  OBVIOUS
<1>6. PICK like : like = {i \in SinceMarker(w) : list[i].name = name}
  OBVIOUS
<1>7. PICK kept : kept = IF Cardinality(like) = 3 THEN RemoveAt(list, Min(like)) ELSE list
  OBVIOUS
<1>8. PICK open : open = s.open
  OBVIOUS
<1>9. Lists(open, list) /\ list = w.formatting
  BY <1>3, <1>5, <1>8, SaneIs
<1>10. /\ Lists(open, kept) /\ Space(kept, name)
       /\ \A x : (\A i \in 1 .. Len(list) : list[i] # x) =>
                    \A i \in 1 .. Len(kept) : kept[i] # x
  <2>1. \A i : i \in SinceMarker(w) <=> i \in 1 .. Len(list) /\ Latest(list, i)
    BY <1>5, <1>9, SaneIs, SinceMarkerIs
  <2>2. Lists(open, list)
    BY <1>9
  <2>3. \A i : i \in like <=> i \in 1 .. Len(list) /\ Latest(list, i) /\ list[i].name = name
    BY <2>1, <1>6
  <2>4. Cardinality(like) = 3 => kept = RemoveAt(list, Min(like))
    BY <1>7
  <2>5. Cardinality(like) # 3 => kept = list
    BY <1>7
  <2> QED BY <2>2, <2>3, <2>4, <2>5, NoahKeeps
<1>11. \A i \in 1 .. Len(kept) : kept[i] # e
  BY <1>4, <1>5, <1>10
<1>12. kept \in Seq(Elements) /\ Len(kept) \in Nat /\ open \in Seq(Elements) /\ Len(open) \in Nat
  BY <1>10 DEF Lists, Kinds
<1>13. PICK l : l = Append(kept, e)
  OBVIOUS
<1>14. PICK o : o = Append(open, e)
  OBVIOUS
<1>15. Inserted(kept, l, Len(kept) + 1, e) /\ Inserted(open, o, Len(open) + 1, e)
  BY <1>4, <1>12, <1>13, <1>14, AppendInserts
<1>16. Lists(o, l)
  <2>1. PICK x : x = Len(kept) + 1
    OBVIOUS
  <2>2. PICK y : y = Len(open) + 1
    OBVIOUS
  <2>3. x \in 1 .. Len(kept) + 1 /\ \A m \in 1 .. Len(kept) : kept[m] = Marker => m < x
    BY <2>1, <1>12
  <2>4. y \in 1 .. Len(open) + 1 /\ Outer(open, kept, y)
    BY <2>2, <1>12 DEF Outer
  <2>5. Inserted(kept, l, x, e) /\ Inserted(open, o, y, e) /\ Space(kept, e.name)
    BY <2>1, <2>2, <1>3, <1>10, <1>15
  <2>6. \A i \in 1 .. Len(open) : open[i] # e
    BY <1>4, <1>8
  <2> QED BY <2>3, <2>4, <2>5, <2>6, <1>3, <1>4, <1>10, <1>11, ListsInserted
<1>17. Markers(list) <= Markers(l)
  <2>1. Markers(list) <= Markers(kept)
    <3>1. CASE Cardinality(like) # 3
      <4>1. kept = list
        BY <3>1, <1>7
      <4>2. Markers(list) \in Nat
        BY <1>5, SaneIs, CoversIsNat
      <4> QED BY <4>1, <4>2
    <3>2. CASE Cardinality(like) = 3
      <4>1. PICK k : k = Min(like)
        OBVIOUS
      <4>2. like # {}
        <5>1. SUFFICES ASSUME like = {} PROVE FALSE
          OBVIOUS
        <5>2. Cardinality(like) = 0
          BY <5>1, FS_EmptySet
        <5>3. PICK n : n = Cardinality(like)
          OBVIOUS
        <5>4. n = 0 /\ n = 3
          BY <5>2, <5>3, <3>2
        <5> QED BY <5>4
      <4>3. \A i : i \in SinceMarker(w) <=> i \in 1 .. Len(list) /\ Latest(list, i)
        BY <1>9, SaneIs, <1>5, SinceMarkerIs
      <4>4. \A i \in like : i \in 1 .. Len(list) /\ Latest(list, i)
        BY <4>3, <1>6
      <4>5. like \in SUBSET Nat
        BY <4>4
      <4>6. k \in like
        BY <4>1, <4>2, <4>5, Least
      <4>7. k \in 1 .. Len(list) /\ list[k] \notin {Marker}
        BY <4>4, <4>6 DEF Latest
      <4>8. kept = RemoveAt(list, k)
        BY <3>2, <4>1, <1>7
      <4>9. list \in Seq(Elements)
        BY <1>5, SaneIs
      <4> QED BY <4>7, <4>8, <4>9, CountRemoved DEF Markers
    <3> QED BY <3>1, <3>2
  <2>2. Markers(kept) <= Markers(l)
    <3>1. e \notin {Marker} /\ Len(kept) + 1 \in 1 .. Len(kept) + 1
      BY <1>4, <1>12
    <3> QED BY <3>1, <1>12, <1>15, CountInserted DEF Markers
  <2>3. Markers(list) \in Nat /\ Markers(kept) \in Nat /\ Markers(l) \in Nat
    <3>1. list \in Seq(Elements) /\ l \in Seq(Elements)
      BY <1>9, <1>16 DEF Lists, Kinds
    <3> QED BY <3>1, <1>12, CoversIsNat
  <2> QED BY <2>1, <2>2, <2>3
<1>18. PICK r : r = [w EXCEPT !.formatting = l]
  OBVIOUS
<1>19. InsertFormatting(s, name) = r
  <2>1. InsertFormatting(s, name) =
            push_onto_the_list_of_active_formatting_elements(w, e)
    BY <1>2, <1>3 DEF InsertFormatting
  <2>2. like = {i \in SinceMarker(w) : w.formatting[i].name = e.name}
    BY <1>3, <1>6, <1>9
  <2>3. kept = IF Cardinality(like) = 3 THEN RemoveAt(w.formatting, Min(like)) ELSE w.formatting
    BY <1>7, <1>9
  <2>4. l = Append(kept, e)
    BY <1>13
  <2> QED BY <2>1, <2>2, <2>3, <2>4, <1>18
      DEF push_onto_the_list_of_active_formatting_elements
<1>20. /\ r \in Trees /\ r.formatting = l /\ r.open = w.open /\ r.head = w.head
       /\ r.failure = w.failure
  <2>1. l \in Seq(Elements) /\ w \in Trees
    BY <1>3, <1>16 DEF Lists, Kinds, Whole
  <2> QED BY <2>1, <1>18, FormattingTree
<1>21. w.open = o
  BY <1>3, <1>8, <1>14
<1>22. name \notin Coverings
  BY ListableCoversNot
<1>23. r.failure = "none" => Covered(o, l)
  <2>1. Covers(s.open) \in Nat /\ Markers(list) \in Nat /\ Markers(l) \in Nat
    <3>1. list \in Seq(Elements) /\ l \in Seq(Elements)
      BY <1>9, <1>16 DEF Lists, Kinds
    <3> QED BY <3>1, SaneIs, CoversIsNat
  <2>2. SUFFICES ASSUME r.failure = "none" PROVE Covered(o, l)
    OBVIOUS
  <2>3. s.failure = "none"
    BY <2>2, <1>3, <1>20
  <2>4. Covers(s.open) <= Markers(list)
    BY <2>3, <1>5 DEF Sane, Covered
  <2> QED BY <2>1, <2>4, <1>3, <1>17, <1>21, <1>22 DEF Covered
<1> QED BY <1>3, <1>16, <1>19, <1>20, <1>21, <1>23 DEF Sane, Whole

\* An element whose end is not implied stays open, and what is below it.
LEMMA ImpliedKeeps ==
    ASSUME NEW s, Sane(s), NEW except, NEW k \in 1 .. Len(s.open),
           s.open[k].name \notin ImpliedEnd \ except
    PROVE  k <= Len(generate_implied_end_tags(s, except).open)
<1> DEFINE I == {n \in DOMAIN s.open : s.open[n].name \notin ImpliedEnd \ except}
<1>1. PICK i : i = Max({0} \cup I)
  OBVIOUS
<1>2. s.open \in Seq(Elements) /\ Len(s.open) \in Nat /\ DOMAIN s.open = 1 .. Len(s.open)
  BY SaneIs
<1>3. I \in SUBSET (1 .. Len(s.open)) /\ k \in I
  BY <1>2
<1>4. generate_implied_end_tags(s, except) =
          IF i = 0 THEN Fail(Shrunk(s, 0), "null") ELSE Shrunk(s, i)
  BY <1>1 DEF generate_implied_end_tags
<1> HIDE DEF I
<1>5. i \in 0 .. Len(s.open) /\ (\A m \in 1 .. Len(s.open) : m > i => m \notin I)
  BY <1>1, <1>2, <1>3, LastOf
<1>6. k <= i
  BY <1>2, <1>3, <1>5
<1>7. generate_implied_end_tags(s, except) = Shrunk(s, i)
  BY <1>4, <1>5, <1>6
<1>8. Len(Shrunk(s, i).open) = i
  BY <1>5, ShrunkSane
<1> QED BY <1>6, <1>7, <1>8

\* Ignoring a token changes no list.
LEMMA IgnoredSane ==
    ASSUME NEW s, Sane(s)
    PROVE  Sane(Ignored(s))
<1>1. PICK r : r = Ignored(s)
  OBVIOUS
<1>2. /\ r \in Trees /\ r.open = s.open /\ r.formatting = s.formatting /\ r.head = s.head
      /\ r.failure = s.failure
  <2>1. s \in Trees
    BY SaneIs
  <2> QED BY <2>1, <1>1 DEF Ignored, Trees
<1> QED BY <1>1, <1>2, SaneFrame

\* Any other end tag closes down to its element or is ignored.
LEMMA AnyOtherEndSane ==
    ASSUME NEW s, Sane(s), NEW t
    PROVE  Sane(any_other_end_tag_in_body(s, t))
<1>1. PICK i : i = LastNamed(s, {t.name} \cup is_special)
  OBVIOUS
<1>2. i \in 0 .. Len(s.open)
  BY <1>1, LastNamedSane
<1>3. any_other_end_tag_in_body(s, t) =
          IF i = 0 THEN Fail(s, "range")
          ELSE IF s.open[i].name = t.name
               THEN Shrunk(generate_implied_end_tags(s, {t.name}), i - 1)
               ELSE Ignored(s)
  BY <1>1 DEF any_other_end_tag_in_body
<1>4. CASE i = 0
  BY <1>3, <1>4, SaneIs, FailSane, FailuresHave
<1>5. CASE i # 0 /\ s.open[i].name = t.name
  <2>1. PICK g : g = generate_implied_end_tags(s, {t.name})
    OBVIOUS
  <2>2. Sane(g)
    BY <2>1, ImpliedSane
  <2>3. i \in 1 .. Len(s.open) /\ s.open[i].name \notin ImpliedEnd \ {t.name}
    BY <1>2, <1>5
  <2>4. i <= Len(g.open)
    BY <2>1, <2>3, ImpliedKeeps
  <2>5. i - 1 \in 0 .. Len(g.open)
    BY <2>2, <2>3, <2>4, SaneIs
  <2> QED BY <1>3, <1>5, <2>1, <2>2, <2>5, ShrunkSane
<1>6. CASE i # 0 /\ s.open[i].name # t.name
  BY <1>3, <1>6, IgnoredSane
<1> QED BY <1>4, <1>5, <1>6

-------------------------------------------------------------------------------
(* The adoption agency algorithm *)

\* An element is renewed on both lists.
LEMMA ClonedSane ==
    ASSUME NEW s, Sane(s), NEW p \in 1 .. Len(s.open), NEW k \in 1 .. Len(s.formatting),
           s.open[p] = s.formatting[k],
           NEW r \in Trees, r.head = s.head, r.failure = s.failure,
           Len(r.open) = Len(s.open), Len(r.formatting) = Len(s.formatting),
           r.open[p] = create_an_element_for_a_token(s, s.open[p].name),
           r.formatting[k] = r.open[p],
           \A q \in 1 .. Len(s.open) : q # p => r.open[q] = s.open[q],
           \A i \in 1 .. Len(s.formatting) : i # k => r.formatting[i] = s.formatting[i]
    PROVE  Sane(r)
<1>1. /\ s \in Trees /\ s.open \in Seq(Elements) /\ s.formatting \in Seq(Elements)
      /\ Len(s.open) \in Nat /\ Len(s.formatting) \in Nat
      /\ Kinds(s.open, s.formatting)
  BY SaneIs DEF Lists
<1>2. PICK name : name = s.open[p].name
  OBVIOUS
<1>7. PICK clone : clone = r.open[p]
  OBVIOUS
<1>8. PICK o : o = r.open
  OBVIOUS
<1>17. PICK l : l = r.formatting
  OBVIOUS
<1>3. s.open[p] \in Elements
  BY <1>1
<1>4. name \in Names
  BY <1>2, <1>3 DEF Elements
<1>5. s.formatting[k] # Marker /\ name \in Listable
  <2>1. s.formatting[k] # Marker
    BY <1>1 DEF Kinds
  <2>2. s.formatting[k].name \in Listable
    BY <2>1, <1>1 DEF Kinds
  <2> QED BY <2>1, <2>2, <1>2
<1>6. /\ clone \in Elements /\ clone.name = name /\ clone.id > 0 /\ clone # Marker
      /\ \A i \in 1 .. Len(s.open) : s.open[i] # clone
      /\ \A i \in 1 .. Len(s.formatting) : s.formatting[i] # clone
  <2>1. clone = create_an_element_for_a_token(s, name)
    BY <1>2, <1>7
  <2> QED BY <2>1, <1>1, <1>4, CreateIs
<1>9. /\ o \in Seq(Elements) /\ Len(o) = Len(s.open) /\ o[p] = clone
      /\ \A q \in 1 .. Len(s.open) : q # p => o[q] = s.open[q]
  BY <1>7, <1>8 DEF Trees
<1>10. /\ l \in Seq(Elements) /\ Len(l) = Len(s.formatting) /\ l[k] = clone
       /\ \A i \in 1 .. Len(s.formatting) : i # k => l[i] = s.formatting[i]
  BY <1>7, <1>17 DEF Trees
<1>11. /\ r \in Trees /\ r.open = o /\ r.formatting = l /\ r.head = s.head
       /\ r.failure = s.failure
  BY <1>8, <1>17
<1>12. Kinds(o, l)
  <2>1. ASSUME NEW q \in 1 .. Len(o) PROVE o[q] # Marker
    BY <1>1, <1>6, <1>9 DEF Kinds
  <2>2. ASSUME NEW i \in 1 .. Len(l)
        PROVE  l[i] = Marker \/ (l[i].id > 0 /\ l[i].name \in Listable)
    <3>1. CASE i = k
      BY <3>1, <1>5, <1>6, <1>10
    <3>2. CASE i # k
      <4>1. i \in 1 .. Len(s.formatting) /\ l[i] = s.formatting[i]
        BY <3>2, <1>10
      <4>2. s.formatting[i] = Marker \/ (s.formatting[i].id > 0 /\ s.formatting[i].name \in Listable)
        BY <4>1, <1>1 DEF Kinds
      <4> QED BY <4>1, <4>2
    <3> QED BY <3>1, <3>2
  <2> QED BY <2>1, <2>2, <1>9, <1>10 DEF Kinds
<1>13. Lists(o, l)
  <2>1. \A i \in 1 .. Len(s.formatting) : l[i] = Marker <=> s.formatting[i] = Marker
    BY <1>5, <1>6, <1>10
  <2>2. \A i \in 1 .. Len(s.formatting) : l[i].name = s.formatting[i].name
    BY <1>2, <1>6, <1>10
  <2>3. \A i \in 1 .. Len(s.formatting), q \in 1 .. Len(s.open) :
            o[q] = l[i] => s.open[q] = s.formatting[i]
    BY <1>6, <1>9, <1>10
  <2>4. Lists(s.open, s.formatting)
    BY SaneIs
  <2> QED BY <2>1, <2>2, <2>3, <2>4, <1>9, <1>10, <1>12, ListsRenewed
<1>14. At(o, Covering) = At(s.open, Covering)
  <2>1. s.open[p] \in Covering <=> clone \in Covering
    BY <1>2, <1>3, <1>6 DEF Covering
  <2>2. DOMAIN o = 1 .. Len(s.open) /\ DOMAIN s.open = 1 .. Len(s.open)
    BY <1>1, <1>9
  <2>3. \A q \in 1 .. Len(s.open) : o[q] \in Covering <=> s.open[q] \in Covering
    BY <2>1, <1>9
  <2> QED BY <2>2, <2>3 DEF At
<1>15. At(l, {Marker}) = At(s.formatting, {Marker})
  <2>1. DOMAIN l = 1 .. Len(s.formatting) /\ DOMAIN s.formatting = 1 .. Len(s.formatting)
    BY <1>1, <1>10
  <2>2. \A q \in 1 .. Len(s.formatting) : l[q] \in {Marker} <=> s.formatting[q] \in {Marker}
    BY <1>5, <1>6, <1>10
  <2> QED BY <2>1, <2>2 DEF At
<1>16. s.failure = "none" => Covered(o, l)
  BY <1>14, <1>15 DEF Sane, Covered, Covers, Markers
<1> QED BY <1>6, <1>9, <1>10, <1>11, <1>13, <1>16 DEF Sane, Whole

\* A listed element, the latest of its kind, and where an element may be put instead of
\* it: after all markers, and not further out.
Movable(s, k, i, x, y) ==
    /\ Sane(s)
    /\ k \in 1 .. Len(s.formatting) /\ Latest(s.formatting, k)
    /\ i \in 1 .. Len(s.open) /\ s.open[i] = s.formatting[k]
    /\ x \in 1 .. Len(s.formatting)
    /\ \A m \in 1 .. Len(s.formatting) : s.formatting[m] = Marker => m < x
    /\ y \in i .. Len(s.open)

\* An element moves on both lists, to places after all markers and not further out.
LEMMA MovedSane ==
    ASSUME NEW s, NEW k, NEW i, NEW x, NEW y, NEW e, NEW r,
           Movable(s, k, i, x, y),
           e = create_an_element_for_a_token(s, s.formatting[k].name),
           r = [s EXCEPT !.formatting = InsertAt(RemoveAt(s.formatting, k), x, e),
                         !.open = InsertAt(RemoveAt(s.open, i), y, e)]
    PROVE  Sane(r)
<1>s. Sane(s)
  BY DEF Movable
<1>k. k \in 1 .. Len(s.formatting) /\ Latest(s.formatting, k)
  BY DEF Movable
<1>i. i \in 1 .. Len(s.open)
  BY DEF Movable
<1>m. s.open[i] = s.formatting[k]
  BY DEF Movable
<1>x. /\ x \in 1 .. Len(s.formatting)
      /\ \A m \in 1 .. Len(s.formatting) : s.formatting[m] = Marker => m < x
  BY DEF Movable
<1>y. y \in i .. Len(s.open)
  BY DEF Movable
<1>1. /\ s \in Trees /\ s.open \in Seq(Elements) /\ s.formatting \in Seq(Elements)
      /\ Len(s.open) \in Nat /\ Len(s.formatting) \in Nat
      /\ Lists(s.open, s.formatting)
      /\ Kinds(s.open, s.formatting) /\ Nested(s.open, s.formatting) /\ Ark(s.formatting)
  BY <1>s, SaneIs DEF Lists
<1>2. PICK list : list = RemoveAt(s.formatting, k)
  OBVIOUS
<1>3. PICK open : open = RemoveAt(s.open, i)
  OBVIOUS
<1>4. PICK name : name = s.formatting[k].name
  OBVIOUS
<1>5. s.formatting[k] # Marker /\ name \in Names /\ name \in Listable
  <2>1. s.formatting[k] \in Elements /\ s.formatting[k] # Marker
    BY <1>k, <1>1 DEF Latest
  <2>2. name \in Names
    BY <1>k, <2>1, <1>4 DEF Elements
  <2>3. name \in Listable
    BY <1>k, <2>1, <1>1, <1>4 DEF Kinds
  <2> QED BY <1>k, <2>1, <2>2, <2>3
<1>6. /\ e \in Elements /\ e.name = name /\ e.id > 0 /\ e # Marker
      /\ \A q \in 1 .. Len(s.open) : s.open[q] # e
      /\ \A q \in 1 .. Len(s.formatting) : s.formatting[q] # e
  BY <1>s, <1>1, <1>4, <1>5, CreateIs
<1>7. /\ list \in Seq(Elements) /\ Len(list) = Len(s.formatting) - 1 /\ Len(list) \in Nat
      /\ \A q \in 1 .. Len(list) : list[q] = IF q < k THEN s.formatting[q] ELSE s.formatting[q + 1]
  <2>1. s.formatting \in Seq(Elements)
    BY <1>k, <1>1
  <2>2. /\ list \in Seq(Elements) /\ Len(list) = Len(s.formatting) - 1
        /\ \A q \in 1 .. Len(list) :
              list[q] = IF q < k THEN s.formatting[q] ELSE s.formatting[q + 1]
    BY <1>k, <2>1, <1>2, RemoveAtIs
  <2> QED BY <1>k, <2>2
<1>8. /\ open \in Seq(Elements) /\ Len(open) = Len(s.open) - 1 /\ Len(open) \in Nat
      /\ \A q \in 1 .. Len(open) : open[q] = IF q < i THEN s.open[q] ELSE s.open[q + 1]
  <2>1. s.open \in Seq(Elements)
    BY <1>i, <1>1
  <2>2. /\ open \in Seq(Elements) /\ Len(open) = Len(s.open) - 1
        /\ \A q \in 1 .. Len(open) : open[q] = IF q < i THEN s.open[q] ELSE s.open[q + 1]
    BY <1>i, <2>1, <1>3, RemoveAtIs
  <2> QED BY <1>i, <2>2
<1>9. Lists(open, list)
  <2>1. Lists(s.open, list)
    BY <1>s, <1>k, <1>i, <1>m, <1>1, <1>2, <1>5, ListsForgotten
  <2> QED BY <1>s, <1>k, <1>i, <1>m, <2>1, <1>3, ListsWithout
<1>10. Space(list, name)
  BY <1>s, <1>k, <1>1, <1>2, <1>4, SpaceOfForgotten
<1>11. (\A q \in 1 .. Len(open) : open[q] # e) /\ (\A q \in 1 .. Len(list) : list[q] # e)
  <2>1. ASSUME NEW q \in 1 .. Len(open) PROVE open[q] # e
    <3>1. q \in 1 .. Len(s.open) /\ q + 1 \in 1 .. Len(s.open)
      BY <1>k, <1>i, <1>1, <1>8
    <3> QED BY <1>k, <1>i, <3>1, <1>6, <1>8
  <2>2. ASSUME NEW q \in 1 .. Len(list) PROVE list[q] # e
    <3>1. q \in 1 .. Len(s.formatting) /\ q + 1 \in 1 .. Len(s.formatting)
      BY <1>k, <1>i, <1>1, <1>7
    <3> QED BY <1>k, <1>i, <3>1, <1>6, <1>7
  <2> QED BY <1>k, <1>i, <2>1, <2>2
<1>12. x \in 1 .. Len(list) + 1 /\ y \in 1 .. Len(open) + 1
  BY <1>x, <1>y, <1>i, <1>k, <1>1, <1>7, <1>8
<1>13. ASSUME NEW m \in 1 .. Len(list), list[m] = Marker
       PROVE  m < x /\ m < k /\ m \in 1 .. Len(s.formatting) /\ s.formatting[m] = Marker
  <2>1. CASE m < k
    <3>1. m \in 1 .. Len(s.formatting) /\ s.formatting[m] = Marker
      BY <1>k, <1>x, <2>1, <1>1, <1>7, <1>13
    <3> QED BY <1>k, <1>x, <3>1, <2>1
  <2>2. CASE m >= k
    <3>1. m + 1 \in 1 .. Len(s.formatting) /\ s.formatting[m + 1] = Marker
      BY <1>k, <1>x, <2>2, <1>1, <1>7, <1>13
    <3>2. m + 1 < k
      BY <1>k, <1>x, <3>1 DEF Latest
    <3> QED BY <1>k, <1>x, <3>2, <2>2
  <2> QED BY <1>k, <1>x, <2>1, <2>2
<1>14. Outer(open, list, y)
  <2> SUFFICES ASSUME NEW a \in 1 .. Len(list), NEW m \in 1 .. Len(list),
                      NEW p \in 1 .. Len(open),
                      list[m] = Marker, a < m, open[p] = list[a]
               PROVE  p < y
    BY <1>k, <1>i, <1>m, <1>y DEF Outer
  <2>1. m < k /\ m \in 1 .. Len(s.formatting) /\ s.formatting[m] = Marker
    BY <1>k, <1>i, <1>m, <1>y, <1>13
  <2>2. a < k /\ a \in 1 .. Len(s.formatting) /\ list[a] = s.formatting[a]
    BY <1>k, <1>i, <1>m, <1>y, <2>1, <1>1, <1>7
  <2>3. Apart(s.formatting, a, k)
    BY <1>k, <1>i, <1>m, <1>y, <2>1 DEF Apart
  <2>4. PICK q \in 1 .. Len(s.open) : s.open[q] = open[p] /\ (q < i => p = q)
    <3>1. CASE p < i
      <4>1. p \in 1 .. Len(s.open) /\ s.open[p] = open[p]
        BY <1>k, <1>i, <1>m, <1>y, <3>1, <1>1, <1>8
      <4> QED BY <1>k, <1>i, <1>m, <1>y, <4>1
    <3>2. CASE p >= i
      <4>1. p + 1 \in 1 .. Len(s.open) /\ ~(p + 1 < i) /\ ~(p < i)
        <5>1. Len(open) = Len(s.open) - 1 /\ Len(s.open) \in Nat
          BY <1>k, <1>i, <1>m, <1>y, <1>1, <1>8
        <5>2. i \in Nat /\ p \in Nat /\ p >= 1 /\ p <= Len(open)
          BY <1>k, <1>i, <1>m, <1>y, <5>1
        <5> QED BY <1>k, <1>i, <1>m, <1>y, <5>1, <5>2, <3>2
      <4>2. s.open[p + 1] = open[p]
        BY <1>k, <1>i, <1>m, <1>y, <4>1, <1>8
      <4> QED BY <1>k, <1>i, <1>m, <1>y, <4>1, <4>2
    <3> QED BY <1>k, <1>i, <1>m, <1>y, <3>1, <3>2
  <2>5. s.open[q] = s.formatting[a]
    BY <1>k, <1>i, <1>m, <1>y, <2>2, <2>4
  <2>6. q < i
    BY <1>k, <1>i, <1>m, <1>y, <2>2, <2>3, <2>5, <1>1 DEF Nested
  <2> QED BY <1>k, <1>i, <1>m, <1>y, <2>4, <2>6, <1>1
<1>15. PICK l : l = InsertAt(list, x, e)
  OBVIOUS
<1>16. PICK o : o = InsertAt(open, y, e)
  OBVIOUS
<1>17. Inserted(list, l, x, e)
  BY <1>6, <1>7, <1>12, <1>15, InsertAtInserts
<1>18. Inserted(open, o, y, e)
  BY <1>6, <1>8, <1>12, <1>16, InsertAtInserts
<1>19. Lists(o, l)
  <2>1. \A m \in 1 .. Len(list) : list[m] = Marker => m < x
    BY <1>13
  <2>2. Space(list, e.name) /\ e.name \in Listable
    BY <1>5, <1>6, <1>10
  <2> QED BY <2>1, <2>2, <1>6, <1>9, <1>11, <1>12, <1>14, <1>17, <1>18, ListsInserted
<1>20. o \in Seq(Elements) /\ l \in Seq(Elements)
  BY <1>17, <1>18 DEF Inserted
<1>21. /\ r \in Trees /\ r.open = o /\ r.formatting = l /\ r.head = s.head
       /\ r.failure = s.failure
  <2>1. PICK q : q = [s EXCEPT !.formatting = l, !.open = o]
    OBVIOUS
  <2>2. /\ q \in Trees /\ q.open = o /\ q.formatting = l /\ q.head = s.head
        /\ q.failure = s.failure
    <3>1. s \in Trees /\ o \in Seq(Elements) /\ l \in Seq(Elements)
      BY <1>1, <1>20
    <3> QED BY <3>1, <2>1 DEF Trees
  <2>3. r = q
    BY <2>1, <1>2, <1>3, <1>15, <1>16
  <2> QED BY <2>2, <2>3
<1>22. Covers(o) <= Covers(s.open)
  <2>1. Covers(open) <= Covers(s.open)
    BY <1>i, <1>1, <1>3, CountRemoved DEF Covers
  <2>2. e \notin Covering
    BY <1>i, <1>5, <1>6, ListableCoversNot DEF Covering
  <2>3. Covers(o) <= Covers(open)
    BY <1>i, <2>2, <1>8, <1>12, <1>18, CountInserted DEF Covers
  <2>4. Covers(o) \in Nat /\ Covers(open) \in Nat /\ Covers(s.open) \in Nat
    BY <1>i, <1>1, <1>8, <1>20, CoversIsNat
  <2> QED BY <1>i, <2>1, <2>3, <2>4
<1>23. Markers(s.formatting) <= Markers(l)
  <2>1. s.formatting[k] \notin {Marker} /\ e \notin {Marker}
    BY <1>k, <1>5, <1>6
  <2>2. Markers(s.formatting) <= Markers(list)
    BY <1>k, <2>1, <1>1, <1>2, CountRemoved DEF Markers
  <2>3. Markers(list) <= Markers(l)
    BY <1>k, <2>1, <1>7, <1>12, <1>17, CountInserted DEF Markers
  <2>4. Markers(list) \in Nat /\ Markers(l) \in Nat /\ Markers(s.formatting) \in Nat
    BY <1>k, <1>1, <1>7, <1>20, CoversIsNat
  <2> QED BY <1>k, <2>2, <2>3, <2>4
<1>24. s.failure = "none" => Covered(o, l)
  <2>1. /\ Covers(o) \in Nat /\ Covers(s.open) \in Nat
        /\ Markers(s.formatting) \in Nat /\ Markers(l) \in Nat
    BY <1>s, <1>1, <1>20, CoversIsNat
  <2> QED BY <1>s, <2>1, <1>22, <1>23 DEF Sane, Covered
<1> QED BY <1>s, <1>19, <1>21, <1>24 DEF Sane, Whole

\* One round of the adoption agency algorithm that finds a furthest block.
LEMMA AdoptedSane ==
    ASSUME NEW s, NEW k, NEW i, NEW j
    PROVE  /\ Sane(s)
           /\ k \in 1 .. Len(s.formatting) /\ Latest(s.formatting, k)
           /\ i \in 1 .. Len(s.open) /\ s.open[i] = s.formatting[k]
           /\ j \in i + 1 .. Len(s.open)
           => Sane(Adopted(s, k, i, j))
<1>0. SUFFICES ASSUME Sane(s),
                      k \in 1 .. Len(s.formatting), Latest(s.formatting, k),
                      i \in 1 .. Len(s.open), s.open[i] = s.formatting[k],
                      j \in i + 1 .. Len(s.open)
               PROVE  Sane(Adopted(s, k, i, j))
  OBVIOUS
<1>1. /\ s \in Trees /\ s.open \in Seq(Elements) /\ s.formatting \in Seq(Elements)
      /\ Len(s.open) \in Nat /\ Len(s.formatting) \in Nat
      /\ Kinds(s.open, s.formatting) /\ Nested(s.open, s.formatting)
  BY <1>0, SaneIs DEF Lists
<1>2. PICK above : above = s.open[j - 1]
  OBVIOUS
<1>3. PICK listed : listed = Position(s.formatting, above)
  OBVIOUS
<1>4. PICK clone : clone = create_an_element_for_a_token(s, above.name)
  OBVIOUS
<1>5. PICK u : u = IF listed = 0
                   THEN [s EXCEPT !.open = RemoveAt(s.open, j - 1)]
                   ELSE IF above = s.formatting[k] THEN s
                   ELSE [s EXCEPT !.open[j - 1] = clone, !.formatting[listed] = clone]
  OBVIOUS
<1>6. PICK mark : mark = IF listed = 0 \/ above = s.formatting[k] THEN k - 1 ELSE listed
  OBVIOUS
<1>7. PICK x : x = IF mark < k THEN mark + 1 ELSE mark
  OBVIOUS
<1>8. PICK e : e = create_an_element_for_a_token(u, s.formatting[k].name)
  OBVIOUS
<1>9. PICK y : y = Len(RemoveAt(u.open, i)) - (Len(s.open) - j) + 1
  OBVIOUS
<1>10. Adopted(s, k, i, j) =
           [u EXCEPT !.formatting = InsertAt(RemoveAt(u.formatting, k), x, e),
                     !.open = InsertAt(RemoveAt(u.open, i), y, e)]
  BY <1>0, <1>2, <1>3, <1>4, <1>5, <1>6, <1>7, <1>8, <1>9 DEF Adopted
<1>11. j - 1 \in 1 .. Len(s.open) /\ j - 1 >= i /\ j - 1 \in Nat
  BY <1>0, <1>1
<1>12. /\ listed \in 0 .. Len(s.formatting)
       /\ listed > 0 => s.formatting[listed] = above
       /\ listed = 0 => \A q \in 1 .. Len(s.formatting) : s.formatting[q] # above
  BY <1>0, <1>1, <1>3, PositionIs
<1>13. /\ Sane(u) /\ Len(u.formatting) = Len(s.formatting) /\ u.formatting[k] = s.formatting[k]
       /\ i \in 1 .. Len(u.open) /\ u.open[i] = s.formatting[k]
       /\ Latest(u.formatting, k)
       /\ \A m \in 1 .. Len(s.formatting) : u.formatting[m] = Marker => s.formatting[m] = Marker
       /\ y \in i .. Len(u.open)
  <2>1. ASSUME Sane(u), i \in 1 .. Len(u.open)
        PROVE  Len(RemoveAt(u.open, i)) = Len(u.open) - 1
    <3>1. u.open \in Seq(Elements)
      BY <1>0, <2>1, SaneIs
    <3> QED BY <1>0, <3>1, <2>1, RemoveAtIs
  <2>2. CASE listed = 0
    <3>1. PICK o : o = RemoveAt(s.open, j - 1)
      OBVIOUS
    <3>2. above # s.formatting[k]
      BY <1>0, <2>2, <1>12
    <3>3. j - 1 # i
      BY <1>0, <3>2, <1>2
    <3>4. /\ o \in Seq(Elements) /\ Len(o) = Len(s.open) - 1
          /\ \A q \in 1 .. Len(o) : o[q] = IF q < j - 1 THEN s.open[q] ELSE s.open[q + 1]
      <4>1. PICK m \in 1 .. Len(s.open) : m = j - 1
        BY <1>0, <1>11
      <4>2. s.open \in Seq(Elements)
        BY <1>0, <1>1
      <4>3. o = RemoveAt(s.open, m)
        BY <1>0, <4>1, <3>1
      <4>4. /\ o \in Seq(Elements) /\ Len(o) = Len(s.open) - 1
            /\ \A q \in 1 .. Len(o) : o[q] = IF q < m THEN s.open[q] ELSE s.open[q + 1]
        <5>1. m \in 1 .. Len(s.open)
          BY <1>0, <4>1
        <5> QED BY <5>1, <4>2, <4>3, RemoveAtIs
      <4> QED BY <1>0, <4>1, <4>4
    <3>5. i \in 1 .. Len(o) /\ i < j - 1
      BY <1>0, <3>3, <3>4, <1>1, <1>11
    <3>6. o[i] = s.open[i]
      BY <1>0, <3>4, <3>5
    <3>7. u = [s EXCEPT !.open = o]
      BY <1>0, <2>2, <3>1, <1>5
    <3>8. /\ u \in Trees /\ u.open = o /\ u.formatting = s.formatting /\ u.head = s.head
          /\ u.failure = s.failure
      BY <1>0, <3>4, <3>7, <1>1, OpenTree
    <3>9. Sane(u)
      <4>1. Lists(o, s.formatting)
        BY <1>0, <3>1, <1>11, SaneIs, ListsWithout
      <4>2. Covers(o) <= Covers(s.open)
        BY <1>0, <3>1, <1>1, <1>11, CountRemoved DEF Covers
      <4>3. Covers(o) \in Nat /\ Covers(s.open) \in Nat /\ Markers(s.formatting) \in Nat
        BY <1>0, <3>4, <1>1, CoversIsNat
      <4>4. s.failure = "none" => Covered(o, s.formatting)
        BY <1>0, <4>2, <4>3 DEF Sane, Covered
      <4> QED BY <1>0, <3>8, <4>1, <4>4 DEF Sane, Whole
    <3>10. y = j - 1 /\ Len(u.open) = Len(s.open) - 1
      <4>1. Len(RemoveAt(u.open, i)) = Len(u.open) - 1
        BY <1>0, <2>1, <3>5, <3>8, <3>9
      <4>2. Len(u.open) = Len(s.open) - 1
        BY <1>0, <3>4, <3>8
      <4>3. PICK n : n = Len(RemoveAt(u.open, i))
        OBVIOUS
      <4>4. y = n - (Len(s.open) - j) + 1
        BY <1>0, <4>3, <1>9
      <4>5. n = Len(s.open) - 2
        BY <1>0, <4>1, <4>2, <4>3, <1>1
      <4> QED BY <1>0, <4>2, <4>4, <4>5, <1>1
    <3>11. y \in i .. Len(u.open)
      BY <1>0, <3>5, <3>10, <1>1, <1>11
    <3> QED BY <1>0, <3>5, <3>6, <3>8, <3>9, <3>11
  <2>3. CASE listed # 0 /\ above = s.formatting[k]
    <3>1. u = s
      BY <1>0, <2>3, <1>5
    <3>2. y = j
      BY <1>0, <2>1, <3>1, <1>1, <1>9
    <3> QED BY <1>0, <3>1, <3>2, <1>1
  <2>4. CASE listed # 0 /\ above # s.formatting[k]
    <3>1. listed \in 1 .. Len(s.formatting) /\ s.formatting[listed] = above /\ listed # k
      BY <1>0, <2>4, <1>1, <1>12
    <3>2. u = [s EXCEPT !.open[j - 1] = clone, !.formatting[listed] = clone]
      BY <1>0, <2>4, <1>5
    <3>3. /\ Sane(u)
          /\ Len(u.open) = Len(s.open) /\ Len(u.formatting) = Len(s.formatting)
          /\ \A q \in 1 .. Len(s.open) : q # j - 1 => u.open[q] = s.open[q]
          /\ \A q \in 1 .. Len(s.formatting) : q # listed => u.formatting[q] = s.formatting[q]
          /\ u.formatting[listed] # Marker
      <4>1. PICK m : m = j - 1
        OBVIOUS
      <4>2. s.open[m] = s.formatting[listed]
        BY <4>1, <3>1, <1>2
      <4>3. clone = create_an_element_for_a_token(s, s.open[m].name)
        BY <1>0, <4>1, <1>2, <1>4
      <4>4. u = [s EXCEPT !.open[m] = clone, !.formatting[listed] = clone]
        BY <1>0, <4>1, <3>2
      <4>5. listed \in 1 .. Len(s.formatting)
        BY <1>0, <3>1
      <4>6. /\ Sane(u)
            /\ Len(u.open) = Len(s.open) /\ Len(u.formatting) = Len(s.formatting)
            /\ \A q \in 1 .. Len(s.open) : q # m => u.open[q] = s.open[q]
            /\ \A q \in 1 .. Len(s.formatting) : q # listed => u.formatting[q] = s.formatting[q]
            /\ u.formatting[listed] # Marker
        <5>1. m \in 1 .. Len(s.open)
          BY <4>1, <1>11
        <5>2. clone \in Elements /\ clone # Marker
          <6>1. s.open[m] \in Elements
            BY <1>1, <5>1
          <6>2. s.open[m].name \in Names
            BY <6>1 DEF Elements
          <6> QED BY <6>2, <4>3, <1>1, CreateIs
        <5>3. PICK o : o = [s.open EXCEPT ![m] = clone]
          OBVIOUS
        <5>4. PICK l : l = [s.formatting EXCEPT ![listed] = clone]
          OBVIOUS
        <5>5. /\ o \in Seq(Elements) /\ Len(o) = Len(s.open) /\ o[m] = clone
              /\ \A q \in 1 .. Len(s.open) : q # m => o[q] = s.open[q]
          BY <1>1, <5>1, <5>2, <5>3
        <5>6. /\ l \in Seq(Elements) /\ Len(l) = Len(s.formatting) /\ l[listed] = clone
              /\ \A q \in 1 .. Len(s.formatting) : q # listed => l[q] = s.formatting[q]
          BY <1>1, <4>5, <5>2, <5>4
        <5>7. /\ u \in Trees /\ u.open = o /\ u.formatting = l /\ u.head = s.head
              /\ u.failure = s.failure
          BY <1>1, <5>3, <5>4, <5>5, <5>6, <4>4 DEF Trees
        <5>8. Sane(s)
          BY <1>0
        <5>9. /\ Len(u.open) = Len(s.open) /\ Len(u.formatting) = Len(s.formatting)
              /\ u.open[m] = create_an_element_for_a_token(s, s.open[m].name)
              /\ u.formatting[listed] = u.open[m]
              /\ \A q \in 1 .. Len(s.open) : q # m => u.open[q] = s.open[q]
              /\ \A q \in 1 .. Len(s.formatting) :
                     q # listed => u.formatting[q] = s.formatting[q]
          BY <4>3, <5>5, <5>6, <5>7
        <5>10. u \in Trees /\ u.head = s.head /\ u.failure = s.failure
          BY <5>7
        <5>11. Sane(u)
          BY <5>1, <5>8, <5>9, <5>10, <4>2, <4>5, ClonedSane
        <5> QED BY <5>1, <5>2, <5>5, <5>6, <5>7, <5>11
      <4> QED BY <1>0, <4>1, <4>6
    <3>4. i # j - 1
      BY <1>0, <2>4, <1>2
    <3>5. u.open[i] = s.formatting[k] /\ u.formatting[k] = s.formatting[k]
      BY <1>0, <3>1, <3>3, <3>4
    <3>6. y = j
      <4>1. Len(RemoveAt(u.open, i)) = Len(s.open) - 1
        BY <1>0, <2>1, <3>3
      <4>2. PICK n : n = Len(RemoveAt(u.open, i))
        OBVIOUS
      <4>3. y = n - (Len(s.open) - j) + 1
        BY <1>0, <4>2, <1>9
      <4> QED BY <1>0, <4>1, <4>2, <4>3, <1>1
    <3>7. \A m \in 1 .. Len(s.formatting) : u.formatting[m] = Marker => s.formatting[m] = Marker
      BY <1>0, <3>3
    <3>8. Latest(u.formatting, k)
      BY <1>0, <3>3, <3>5, <3>7 DEF Latest
    <3> QED BY <1>0, <3>3, <3>5, <3>6, <3>7, <3>8, <1>1
  <2> QED BY <1>0, <2>2, <2>3, <2>4
<1>14. x \in 1 .. Len(s.formatting)
  BY <1>0, <1>1, <1>6, <1>7, <1>12
<1>15. ASSUME NEW m \in 1 .. Len(s.formatting), s.formatting[m] = Marker
       PROVE  m < x
  <2>1. m < k
    BY <1>0, <1>15 DEF Latest
  <2>2. CASE listed = 0 \/ above = s.formatting[k]
    <3>1. x = k
      BY <1>0, <2>2, <1>6, <1>7
    <3> QED BY <1>0, <2>1, <3>1
  <2>3. CASE listed # 0 /\ above # s.formatting[k]
    <3>1. /\ listed \in 1 .. Len(s.formatting) /\ s.formatting[listed] = above
          /\ s.open[j - 1] = s.formatting[listed]
      BY <1>0, <2>3, <1>1, <1>2, <1>12
    <3>2. above # Marker
      BY <1>0, <1>1, <1>2, <1>11 DEF Kinds
    <3>3. listed # m
      BY <1>0, <3>1, <3>2, <1>15
    <3>4. ~(listed < m)
      <4>1. SUFFICES ASSUME listed < m PROVE FALSE
        OBVIOUS
      <4>2. Apart(s.formatting, listed, k)
        BY <1>0, <4>1, <2>1, <1>15 DEF Apart
      <4>3. j - 1 < i
        BY <1>0, <4>2, <3>1, <1>1, <1>11 DEF Nested
      <4> QED BY <1>0, <4>3, <1>11
    <3>5. m < listed
      BY <1>0, <3>1, <3>3, <3>4
    <3>6. mark = listed /\ x >= listed
      BY <1>0, <2>3, <3>1, <1>6, <1>7
    <3> QED BY <1>0, <3>1, <3>5, <3>6, <1>14
  <2> QED BY <1>0, <2>2, <2>3
<1>16. e = create_an_element_for_a_token(u, u.formatting[k].name)
  BY <1>0, <1>8, <1>13
<1>17. \A m \in 1 .. Len(u.formatting) : u.formatting[m] = Marker => m < x
  BY <1>0, <1>13, <1>15
<1>18. PICK r : r = [u EXCEPT !.formatting = InsertAt(RemoveAt(u.formatting, k), x, e),
                              !.open = InsertAt(RemoveAt(u.open, i), y, e)]
  OBVIOUS
<1>19. Sane(r)
  <2>1. /\ k \in 1 .. Len(u.formatting) /\ x \in 1 .. Len(u.formatting)
        /\ u.open[i] = u.formatting[k]
    BY <1>0, <1>13, <1>14
  <2>2. Movable(u, k, i, x, y)
    BY <2>1, <1>13, <1>17 DEF Movable
  <2> QED BY <2>2, <1>16, <1>18, MovedSane
<1> QED BY <1>10, <1>18, <1>19

\* One round of the adoption agency algorithm.
LEMMA RoundSane ==
    ASSUME NEW s, Sane(s), NEW t
    PROVE  Sane(Round(s, t).tree)
<1>1. PICK list : list = s.formatting
  OBVIOUS
<1>2. PICK named : named = {k \in SinceMarker(s) : s.formatting[k].name = t.name}
  OBVIOUS
<1>3. PICK k : k = Max(named)
  OBVIOUS
<1>4. PICK i : i = Position(s.open, s.formatting[k])
  OBVIOUS
<1>5. PICK blocks : blocks = {n \in i + 1 .. Len(s.open) : s.open[n].name \in is_special}
  OBVIOUS
<1>6. PICK forget : forget = [s EXCEPT !.formatting = RemoveAt(s.formatting, k)]
  OBVIOUS
<1>7. PICK j : j = Min(blocks)
  OBVIOUS
<1>8. PICK r : r = Round(s, t)
  OBVIOUS
<1>9. r = IF named = {} THEN [tree |-> any_other_end_tag_in_body(s, t), more |-> FALSE]
          ELSE IF i = 0 THEN [tree |-> forget, more |-> FALSE]
          ELSE IF ~has_element_in_scope(s, {s.formatting[k].name})
               THEN [tree |-> Ignored(s), more |-> FALSE]
          ELSE IF blocks = {} THEN [tree |-> Shrunk(forget, i - 1), more |-> FALSE]
          ELSE IF k = 1 THEN [tree |-> Fail(s, "bookmark"), more |-> FALSE]
          ELSE [tree |-> Adopted(s, k, i, j), more |-> TRUE]
  BY <1>2, <1>3, <1>4, <1>5, <1>6, <1>7, <1>8 DEF Round
<1>10. /\ s.open \in Seq(Elements) /\ s.formatting \in Seq(Elements)
       /\ Len(s.open) \in Nat /\ Len(s.formatting) \in Nat
  BY SaneIs
<1>11. CASE named = {}
  <2>1. r.tree = any_other_end_tag_in_body(s, t)
    BY <1>9, <1>11
  <2> QED BY <2>1, <1>8, AnyOtherEndSane
<1>12. CASE named # {}
  <2>1. \A q : q \in SinceMarker(s) <=> q \in 1 .. Len(s.formatting) /\ Latest(s.formatting, q)
    BY <1>10, SinceMarkerIs
  <2>2. named \in SUBSET (0 .. Len(s.formatting))
    BY <2>1, <1>2
  <2>3. k \in named
    BY <2>2, <1>3, <1>10, <1>12, Greatest
  <2>4. k \in 1 .. Len(s.formatting) /\ Latest(s.formatting, k)
    BY <2>1, <2>3, <1>2
  <2>5. Sane(forget) /\ forget.open = s.open
    BY <2>4, <1>6, ForgetSane DEF Latest
  <2>6. i \in 0 .. Len(s.open) /\ (i > 0 => s.open[i] = s.formatting[k])
    BY <1>4, <1>10, PositionIs
  <2>7. CASE i = 0
    <3>1. r.tree = forget
      BY <1>9, <1>12, <2>7
    <3> QED BY <3>1, <2>5, <1>8
  <2>8. CASE i # 0 /\ ~has_element_in_scope(s, {s.formatting[k].name})
    <3>1. r.tree = Ignored(s)
      BY <1>9, <1>12, <2>8
    <3> QED BY <3>1, <1>8, IgnoredSane
  <2>9. CASE i # 0 /\ has_element_in_scope(s, {s.formatting[k].name}) /\ blocks = {}
    <3>1. r.tree = Shrunk(forget, i - 1)
      BY <1>9, <1>12, <2>9
    <3>2. i - 1 \in 0 .. Len(forget.open)
      BY <2>5, <2>6, <2>9, <1>10
    <3> QED BY <3>1, <3>2, <2>5, <1>8, ShrunkSane
  <2>10. CASE i # 0 /\ has_element_in_scope(s, {s.formatting[k].name}) /\ blocks # {} /\ k = 1
    <3>1. r.tree = Fail(s, "bookmark")
      BY <1>9, <1>12, <2>10
    <3> QED BY <3>1, <1>8, SaneIs, FailSane, FailuresHave
  <2>11. CASE i # 0 /\ has_element_in_scope(s, {s.formatting[k].name}) /\ blocks # {} /\ k # 1
    <3>1. r.tree = Adopted(s, k, i, j)
      BY <1>9, <1>12, <2>11
    <3>2. i \in 1 .. Len(s.open) /\ s.open[i] = s.formatting[k]
      BY <2>6, <2>11, <1>10
    <3>3. blocks \in SUBSET Nat
      BY <3>2, <1>5, <1>10
    <3>4. j \in blocks
      BY <3>3, <2>11, <1>7, Least
    <3>5. j \in i + 1 .. Len(s.open)
      BY <3>4, <1>5
    <3>6. Sane(Adopted(s, k, i, j))
      BY <3>2, <3>5, <2>4, AdoptedSane
    <3> QED BY <3>1, <3>6, <1>8
  <2> QED BY <2>7, <2>8, <2>9, <2>10, <2>11
<1> QED BY <1>11, <1>12

\* All its rounds.
LEMMA AdoptionSane ==
    ASSUME NEW s, Sane(s), NEW t
    PROVE  Sane(adoption_agency_algorithm(s, t))
<1>1. ASSUME NEW r, Sane(r.tree) PROVE Sane(OneRound(r, t).tree)
  BY <1>1, RoundSane DEF OneRound
<1>2. ASSUME NEW r, Sane(r.tree) PROVE Sane(TwoRounds(r, t).tree)
  BY <1>1, <1>2 DEF TwoRounds
<1>3. ASSUME NEW r, Sane(r.tree) PROVE Sane(FourRounds(r, t).tree)
  BY <1>2, <1>3 DEF FourRounds
<1>4. PICK r : r = [tree |-> s, more |-> TRUE]
  OBVIOUS
<1>5. Sane(FourRounds(FourRounds(r, t), t).tree)
  <2>1. Sane(r.tree)
    BY <1>4
  <2>2. Sane(FourRounds(r, t).tree)
    BY <2>1, <1>3
  <2> QED BY <2>2, <1>3
<1> QED BY <1>4, <1>5 DEF adoption_agency_algorithm

-------------------------------------------------------------------------------
(* Modes, flags and tokens *)

\* The dispatcher D leaves the lists as they should be.
Keeps(D) == \A s \in Trees, t \in Tokens : Sane(s) => Sane(D[s][t])

\* Another insertion mode
LEMMA SwitchSane ==
    ASSUME NEW s, Sane(s), NEW m \in Modes
    PROVE  Sane(switch_the_insertion_mode(s, m))
<1>1. PICK r : r = switch_the_insertion_mode(s, m)
  OBVIOUS
<1>2. s \in Trees
  BY SaneIs
<1>3. /\ r \in Trees /\ r.open = s.open /\ r.formatting = s.formatting /\ r.head = s.head
      /\ r.failure = s.failure
  BY <1>1, <1>2 DEF switch_the_insertion_mode, Trees
<1> QED BY <1>1, <1>3, SaneFrame

\* which may also come between an element and its marker.
LEMMA SwitchShort ==
    ASSUME NEW s, Short(s), NEW m \in Modes
    PROVE  Short(switch_the_insertion_mode(s, m))
<1>1. PICK r : r = switch_the_insertion_mode(s, m)
  OBVIOUS
<1>2. s \in Trees
  BY DEF Short, Whole
<1>3. /\ r \in Trees /\ r.open = s.open /\ r.formatting = s.formatting /\ r.head = s.head
      /\ r.failure = s.failure
  BY <1>1, <1>2 DEF switch_the_insertion_mode, Trees
<1> QED BY <1>1, <1>3 DEF Short, Whole

\* Flags of the constructor
LEMMA FlagsSane ==
    ASSUME NEW s, Sane(s), NEW b \in BOOLEAN
    PROVE  /\ Sane([s EXCEPT !.frameset_ok = b])
           /\ Sane([s EXCEPT !.ignore_line_feed = b])
           /\ Sane([s EXCEPT !.quirks = b])
           /\ Sane([s EXCEPT !.ignored = b])
           /\ Sane([s EXCEPT !.reprocess = b])
<1>1. s \in Trees
  BY SaneIs
<1>2. ASSUME NEW r, r = [s EXCEPT !.frameset_ok = b] PROVE Sane(r)
  <2>1. /\ r \in Trees /\ r.open = s.open /\ r.formatting = s.formatting /\ r.head = s.head
        /\ r.failure = s.failure
    BY <1>1, <1>2 DEF Trees
  <2> QED BY <2>1, SaneFrame
<1>3. ASSUME NEW r, r = [s EXCEPT !.ignore_line_feed = b] PROVE Sane(r)
  <2>1. /\ r \in Trees /\ r.open = s.open /\ r.formatting = s.formatting /\ r.head = s.head
        /\ r.failure = s.failure
    BY <1>1, <1>3 DEF Trees
  <2> QED BY <2>1, SaneFrame
<1>4. ASSUME NEW r, r = [s EXCEPT !.quirks = b] PROVE Sane(r)
  <2>1. /\ r \in Trees /\ r.open = s.open /\ r.formatting = s.formatting /\ r.head = s.head
        /\ r.failure = s.failure
    BY <1>1, <1>4 DEF Trees
  <2> QED BY <2>1, SaneFrame
<1>5. ASSUME NEW r, r = [s EXCEPT !.ignored = b] PROVE Sane(r)
  <2>1. /\ r \in Trees /\ r.open = s.open /\ r.formatting = s.formatting /\ r.head = s.head
        /\ r.failure = s.failure
    BY <1>1, <1>5 DEF Trees
  <2> QED BY <2>1, SaneFrame
<1>6. ASSUME NEW r, r = [s EXCEPT !.reprocess = b] PROVE Sane(r)
  <2>1. /\ r \in Trees /\ r.open = s.open /\ r.formatting = s.formatting /\ r.head = s.head
        /\ r.failure = s.failure
    BY <1>1, <1>6 DEF Trees
  <2> QED BY <2>1, SaneFrame
<1> QED BY <1>2, <1>3, <1>4, <1>5, <1>6

\* the content the tokenizer is asked for,
LEMMA ContentSane ==
    ASSUME NEW s, Sane(s), NEW c \in TS!Contents
    PROVE  Sane([s EXCEPT !.content = c])
<1>1. PICK r : r = [s EXCEPT !.content = c]
  OBVIOUS
<1>2. s \in Trees
  BY SaneIs
<1>3. /\ r \in Trees /\ r.open = s.open /\ r.formatting = s.formatting /\ r.head = s.head
      /\ r.failure = s.failure
  BY <1>1, <1>2 DEF Trees
<1> QED BY <1>1, <1>3, SaneFrame

\* the form element pointer,
LEMMA FormSane ==
    ASSUME NEW s, Sane(s), NEW e \in Elements
    PROVE  Sane([s EXCEPT !.form = e])
<1>1. PICK r : r = [s EXCEPT !.form = e]
  OBVIOUS
<1>2. s \in Trees
  BY SaneIs
<1>3. /\ r \in Trees /\ r.open = s.open /\ r.formatting = s.formatting /\ r.head = s.head
      /\ r.failure = s.failure
  BY <1>1, <1>2 DEF Trees
<1> QED BY <1>1, <1>3, SaneFrame

\* the pending characters
LEMMA PendingSane ==
    ASSUME NEW s, Sane(s), NEW p \in SUBSET {"space", "line feed", "text"}
    PROVE  Sane([s EXCEPT !.pending = p])
<1>1. PICK r : r = [s EXCEPT !.pending = p]
  OBVIOUS
<1>2. s \in Trees
  BY SaneIs
<1>3. /\ r \in Trees /\ r.open = s.open /\ r.formatting = s.formatting /\ r.head = s.head
      /\ r.failure = s.failure
  BY <1>1, <1>2 DEF Trees
<1> QED BY <1>1, <1>3, SaneFrame

\* and the head element pointer are no lists.
LEMMA HeadSane ==
    ASSUME NEW s, Sane(s), NEW e \in Elements, e.name = "head"
    PROVE  Sane([s EXCEPT !.head = e])
<1>1. PICK r : r = [s EXCEPT !.head = e]
  OBVIOUS
<1>2. s \in Trees
  BY SaneIs
<1>3. /\ r \in Trees /\ r.open = s.open /\ r.formatting = s.formatting /\ r.head = e
      /\ r.failure = s.failure
  BY <1>1, <1>2 DEF Trees
<1> QED BY <1>1, <1>3 DEF Sane, Whole

\* Nor is what becomes of the token.
LEMMA AgainSane ==
    ASSUME NEW s, Sane(s)
    PROVE  Sane(Again(s)) /\ Sane(OnBehalf(s)) /\ Sane(AgainUnlessIgnored(s))
<1>1. Sane(Again(s)) /\ Sane(OnBehalf(s))
  BY FlagsSane DEF Again, OnBehalf
<1>2. (~s.ignored) \in BOOLEAN
  OBVIOUS
<1>3. PICK u : u = [s EXCEPT !.ignored = FALSE]
  OBVIOUS
<1>4. Sane(u)
  BY <1>3, FlagsSane
<1>5. Sane([u EXCEPT !.reprocess = ~s.ignored])
  BY <1>2, <1>4, FlagsSane
<1>6. AgainUnlessIgnored(s) = [u EXCEPT !.reprocess = ~s.ignored]
  BY <1>3, SaneIs DEF AgainUnlessIgnored, Trees
<1> QED BY <1>1, <1>5, <1>6

\* Stopping closes every element.
LEMMA StopSane ==
    ASSUME NEW s, Sane(s)
    PROVE  Sane(stop_parsing(s))
<1>1. PICK u : u = Shrunk(s, 0)
  OBVIOUS
<1>2. 0 \in 0 .. Len(s.open)
  BY SaneIs
<1>3. Sane(u) /\ Len(u.open) = 0
  BY <1>1, <1>2, ShrunkSane
<1>4. u.open = <<>>
  BY <1>3, SaneIs
<1>5. PICK r : r = stop_parsing(s)
  OBVIOUS
<1>6. s \in Trees /\ u \in Trees
  BY <1>3, SaneIs
<1>7. /\ r \in Trees /\ r.open = u.open /\ r.formatting = u.formatting /\ r.head = u.head
      /\ r.failure = u.failure
  BY <1>1, <1>4, <1>5, <1>6 DEF stop_parsing, Shrunk, Trees
<1> QED BY <1>3, <1>5, <1>7, SaneFrame

\* Resetting the insertion mode changes no list.
LEMMA ResetSane ==
    ASSUME NEW s, Sane(s)
    PROVE  Sane(reset_the_insertion_mode_appropriately(s))
<1>1. PICK i : i = LastNamed(s, Resetting)
  OBVIOUS
<1>2. i \in 0 .. Len(s.open)
  BY <1>1, LastNamedSane
<1>3. Sane(Fail(s, "null"))
  BY SaneIs, FailSane, FailuresHave
<1>4. \A name : ResetMode(name) \in Modes
  BY DEF ResetMode, Modes
<1>5. PICK m : m = ResetMode(s.open[i].name)
  OBVIOUS
<1>6. PICK r : r = [s EXCEPT !.mode = m]
  OBVIOUS
<1>7. Sane(r)
  <2>1. m \in Modes /\ s \in Trees
    BY <1>4, <1>5, SaneIs
  <2>2. /\ r \in Trees /\ r.open = s.open /\ r.formatting = s.formatting /\ r.head = s.head
        /\ r.failure = s.failure
    BY <1>6, <2>1 DEF Trees
  <2> QED BY <2>2, SaneFrame
<1> QED BY <1>1, <1>3, <1>5, <1>6, <1>7 DEF reset_the_insertion_mode_appropriately

\* The tokens that are made up are tokens.
LEMMA TagsAre ==
    ASSUME NEW name \in Names
    PROVE  StartTag(name) \in Tokens /\ EndTag(name) \in Tokens
BY DEF StartTag, EndTag, Tokens

\* A token has a type and a name.
LEMMA TokenIs ==
    ASSUME NEW t \in Tokens
    PROVE  /\ t.name \in Names
           /\ t.type \in {"start", "end", "comment", "doctype", "eof", "character"}
           /\ t.type = "character" => t.name \in Characters
           /\ t.type = "start" => [t EXCEPT !.name = "img"] \in Tokens
<1>1. Characters \subseteq Names
  BY DEF Names
<1>2. "img" \in Names
  BY NamesHave
<1> QED BY <1>1, <1>2 DEF Tokens

\* A token that is made up is dispatched.
LEMMA MadeUpSane ==
    ASSUME NEW D, Keeps(D), NEW s, Sane(s), NEW name \in Names
    PROVE  /\ Sane(act_as_if_a_start_tag_token_had_been_seen(D, s, name))
           /\ Sane(act_as_if_an_end_tag_token_had_been_seen(D, s, name))
           /\ Sane(EndThenAgain(D, s, name))
<1>1. ASSUME NEW r, Sane(r) PROVE Sane([r EXCEPT !.ignored = FALSE, !.reprocess = FALSE])
  <2>1. PICK u : u = [r EXCEPT !.ignored = FALSE]
    OBVIOUS
  <2>2. Sane(u)
    BY <1>1, <2>1, FlagsSane
  <2>3. Sane([u EXCEPT !.reprocess = FALSE])
    BY <2>2, FlagsSane
  <2>4. [r EXCEPT !.ignored = FALSE, !.reprocess = FALSE] = [u EXCEPT !.reprocess = FALSE]
    BY <1>1, <2>1, SaneIs DEF Trees
  <2> QED BY <2>3, <2>4
<1>2. Sane(D[s][StartTag(name)]) /\ Sane(D[s][EndTag(name)])
  BY TagsAre, SaneIs DEF Keeps
<1>3. Sane(act_as_if_a_start_tag_token_had_been_seen(D, s, name))
  BY <1>1, <1>2 DEF act_as_if_a_start_tag_token_had_been_seen
<1>4. Sane(act_as_if_an_end_tag_token_had_been_seen(D, s, name))
  BY <1>1, <1>2 DEF act_as_if_an_end_tag_token_had_been_seen
<1>5. Sane(EndThenAgain(D, s, name))
  BY <1>2, AgainSane DEF EndThenAgain
<1> QED BY <1>3, <1>4, <1>5

\* An element of text is opened.
LEMMA GenericSane ==
    ASSUME NEW s, Sane(s), NEW name \in Names, name \notin Coverings, NEW c \in TS!Contents
    PROVE  Sane(generic_element_parsing_algorithm(s, name, c))
<1>1. PICK r : r = insert_an_HTML_element(s, name)
  OBVIOUS
<1>2. Sane(r)
  BY <1>1, InsertSane
<1>3. PICK u : u = [r EXCEPT !.content = c]
  OBVIOUS
<1>4. Sane(u)
  BY <1>2, <1>3, ContentSane
<1>5. "text" \in Modes
  BY DEF Modes
<1>6. Sane(switch_the_insertion_mode(u, "text"))
  BY <1>4, <1>5, SwitchSane
<1> QED BY <1>1, <1>3, <1>6 DEF generic_element_parsing_algorithm

-------------------------------------------------------------------------------
(* The modes before the body *)

\* The rules of the mode initial.
LEMMA InitialSane ==
    ASSUME NEW s, Sane(s), NEW t \in Tokens
    PROVE  Sane(initial(s, t))
<1>1. "before_html" \in Modes
  BY DEF Modes
<1>2. PICK r : r = switch_the_insertion_mode(s, "before_html")
  OBVIOUS
<1>3. Sane(r)
  BY <1>1, <1>2, SwitchSane
<1>4. Sane([r EXCEPT !.quirks = t.name # "html"])
  <2>1. (t.name # "html") \in BOOLEAN
    OBVIOUS
  <2> QED BY <2>1, <1>3, FlagsSane
<1>5. Sane(Again([r EXCEPT !.quirks = TRUE]))
  BY <1>3, FlagsSane, AgainSane
<1>6. Sane(Ignored(s))
  BY IgnoredSane
<1> QED BY <1>2, <1>4, <1>5, <1>6 DEF initial

\* The html element is opened.
LEMMA HtmlOpenedSane ==
    ASSUME NEW s, Sane(s)
    PROVE  Sane(HtmlOpened(s))
<1>1. PICK e : e = create_an_element_for_a_token(s, "html")
  OBVIOUS
<1>2. s \in Trees /\ "html" \in Names
  BY SaneIs, NamesHave
<1>3. /\ e \in Elements /\ e.name = "html" /\ e # Marker
      /\ \A i \in 1 .. Len(s.formatting) : s.formatting[i] # e
  BY <1>1, <1>2, CreateIs
<1>4. PICK r : r = Push(s, e)
  OBVIOUS
<1>5. /\ Whole(r) /\ r.formatting = s.formatting /\ r.failure = s.failure
      /\ e.name \notin Coverings => Covers(r.open) = Covers(s.open)
  BY <1>3, <1>4, PushIs
<1>6. e.name \notin Coverings
  BY <1>3 DEF Coverings, Embedded, Cells
<1>7. Sane(r)
  BY <1>5, <1>6 DEF Sane, Covered
<1>8. "before_head" \in Modes
  BY DEF Modes
<1> QED BY <1>1, <1>4, <1>7, <1>8, SwitchSane DEF HtmlOpened

\* The rules of the mode before_html.
LEMMA BeforeHtmlSane ==
    ASSUME NEW s, Sane(s), NEW t \in Tokens
    PROVE  Sane(before_html(s, t))
<1>1. Sane(HtmlOpened(s)) /\ Sane(Again(HtmlOpened(s))) /\ Sane(Ignored(s))
  BY HtmlOpenedSane, AgainSane, IgnoredSane
<1> QED BY <1>1 DEF before_html

\* The rules of the mode before_head.
LEMMA BeforeHeadSane ==
    ASSUME NEW D, Keeps(D), NEW s, Sane(s), NEW t \in Tokens
    PROVE  Sane(before_head(D, s, t))
<1>1. Sane(Write(s)) /\ Sane(Ignored(s)) /\ Sane(HtmlStartTagInBody(s))
  BY WriteSane, IgnoredSane DEF HtmlStartTagInBody
<1>2. "head" \in Names /\ "head" \notin Coverings
  BY NamesHave DEF Coverings, Embedded, Cells
<1>3. Sane(Again(act_as_if_a_start_tag_token_had_been_seen(D, s, "head")))
  BY <1>2, MadeUpSane, AgainSane
<1>4. PICK r : r = insert_an_HTML_element(s, "head")
  OBVIOUS
<1>5. Sane(r) /\ Last(r.open) \in Elements /\ Last(r.open).name = "head"
  <2>1. PICK e : e = create_an_element_for_a_token(s, "head")
    OBVIOUS
  <2>2. Sane(r)
    BY <1>2, <1>4, InsertSane
  <2>3. Last(r.open) = e
    BY <1>2, <1>4, <2>1, InsertIs
  <2>4. s \in Trees
    BY SaneIs
  <2>5. e \in Elements /\ e.name = "head"
    BY <1>2, <2>1, <2>4, CreateIs
  <2> QED BY <2>2, <2>3, <2>5
<1>6. Sane(switch_the_insertion_mode([r EXCEPT !.head = Last(r.open)], "in_head"))
  <2>1. "in_head" \in Modes
    BY DEF Modes
  <2>2. Sane([r EXCEPT !.head = Last(r.open)])
    BY <1>5, HeadSane
  <2> QED BY <2>1, <2>2, SwitchSane
<1> QED BY <1>1, <1>3, <1>4, <1>6 DEF before_head

\* The rules of the mode in_head.
LEMMA InHeadSane ==
    ASSUME NEW D, Keeps(D), NEW s, Sane(s), NEW t \in Tokens
    PROVE  Sane(in_head(D, s, t))
<1>1. t.name \in Names
  BY TokenIs
<1>2. Sane(Write(s)) /\ Sane(Ignored(s)) /\ Sane(HtmlStartTagInBody(s))
  BY WriteSane, IgnoredSane DEF HtmlStartTagInBody
<1>3. ASSUME IsStart(t, {"base", "basefont", "bgsound", "link", "meta"})
      PROVE  Sane(InsertAndPop(s, t.name))
  <2>1. t.name \notin Coverings
    BY <1>3 DEF IsStart, Coverings, Embedded, Cells
  <2> QED BY <1>1, <2>1, InsertAndPopSane
<1>4. ASSUME NEW c, c \in {"RCDATA", "RAWTEXT", "script_data"},
             IsStart(t, {"title", "noframes", "style", "script"})
      PROVE  Sane(generic_element_parsing_algorithm(s, t.name, c))
  <2>1. t.name \notin Coverings
    BY <1>4 DEF IsStart, Coverings, Embedded, Cells
  <2>2. c \in TS!Contents
    BY <1>4 DEF TS!Contents
  <2> QED BY <1>1, <2>1, <2>2, GenericSane
<1>5. /\ IsStart(t, {"title"}) => Sane(generic_element_parsing_algorithm(s, t.name, "RCDATA"))
      /\ IsStart(t, {"noframes", "style"}) =>
             Sane(generic_element_parsing_algorithm(s, t.name, "RAWTEXT"))
      /\ IsStart(t, {"script"}) =>
             Sane(generic_element_parsing_algorithm(s, t.name, "script_data"))
  BY <1>4 DEF IsStart
<1>6. ASSUME IsStart(t, {"noscript"})
      PROVE  Sane(switch_the_insertion_mode(insert_an_HTML_element(s, t.name),
                                            "in_head_noscript"))
  <2>1. t.name \notin Coverings
    BY <1>6 DEF IsStart, Coverings, Embedded, Cells
  <2>2. Sane(insert_an_HTML_element(s, t.name))
    BY <1>1, <2>1, InsertSane
  <2>3. "in_head_noscript" \in Modes
    BY DEF Modes
  <2> QED BY <2>2, <2>3, SwitchSane
<1>7. Sane(switch_the_insertion_mode(Pop(s), "after_head"))
  <2>1. "after_head" \in Modes
    BY DEF Modes
  <2> QED BY <2>1, PopSane, SwitchSane
<1>8. Sane(Again(act_as_if_an_end_tag_token_had_been_seen(D, s, "head")))
  <2>1. "head" \in Names
    BY NamesHave
  <2> QED BY <2>1, MadeUpSane, AgainSane
<1> QED BY <1>2, <1>3, <1>5, <1>6, <1>7, <1>8 DEF in_head

\* The rules of the mode in_head_noscript.
LEMMA InHeadNoscriptSane ==
    ASSUME NEW D, Keeps(D), NEW s, Sane(s), NEW t \in Tokens
    PROVE  Sane(in_head_noscript(D, s, t))
<1>1. Sane(Ignored(s)) /\ Sane(HtmlStartTagInBody(s))
  BY IgnoredSane DEF HtmlStartTagInBody
<1>2. Sane(OnBehalf(in_head(D, s, t)))
  BY InHeadSane, AgainSane
<1>3. Sane(switch_the_insertion_mode(Pop(s), "in_head"))
  <2>1. "in_head" \in Modes
    BY DEF Modes
  <2> QED BY <2>1, PopSane, SwitchSane
<1>4. Sane(Again(act_as_if_an_end_tag_token_had_been_seen(D, s, "noscript")))
  <2>1. "noscript" \in Names
    BY NamesHave
  <2> QED BY <2>1, MadeUpSane, AgainSane
<1> QED BY <1>1, <1>2, <1>3, <1>4 DEF in_head_noscript

\* The head element is opened again for a tag that belongs into it.
LEMMA HeadAgainSane ==
    ASSUME NEW s, Sane(s)
    PROVE  Sane(Push(s, s.head))
<1>1. s.head \in Elements /\ s.head.name \in {"none", "head"} /\ Kinds(s.open, s.formatting)
  BY SaneIs DEF Lists, Sane, Whole
<1>2. s.head # Marker
  BY <1>1 DEF Marker
<1>3. ASSUME NEW i \in 1 .. Len(s.formatting) PROVE s.formatting[i] # s.head
  <2>1. s.formatting[i] = Marker \/ s.formatting[i].name \in Listable
    BY <1>1 DEF Kinds
  <2> QED BY <2>1, <1>1, <1>2, ListableNames
<1>4. PICK e : e = s.head
  OBVIOUS
<1>5. PICK r : r = Push(s, e)
  OBVIOUS
<1>6. /\ Whole(r) /\ r.formatting = s.formatting /\ r.failure = s.failure
      /\ e.name \notin Coverings => Covers(r.open) = Covers(s.open)
  <2>1. e \in Elements /\ e # Marker
    BY <1>1, <1>2, <1>4
  <2>2. \A i \in 1 .. Len(s.formatting) : s.formatting[i] # e
    BY <1>3, <1>4
  <2> QED BY <2>1, <2>2, <1>5, PushIs
<1>7. e.name \notin Coverings
  BY <1>1, <1>4 DEF Coverings, Embedded, Cells
<1> QED BY <1>4, <1>5, <1>6, <1>7 DEF Sane, Covered

\* The rules of the mode after_head.
LEMMA AfterHeadSane ==
    ASSUME NEW D, Keeps(D), NEW s, Sane(s), NEW t \in Tokens
    PROVE  Sane(after_head(D, s, t))
<1>1. t.name \in Names
  BY TokenIs
<1>2. Sane(Write(s)) /\ Sane(Ignored(s)) /\ Sane(HtmlStartTagInBody(s))
  BY WriteSane, IgnoredSane DEF HtmlStartTagInBody
<1>3. ASSUME NEW m \in Modes, IsStart(t, {"body", "frameset"})
      PROVE  Sane(switch_the_insertion_mode(insert_an_HTML_element(s, t.name), m))
  <2>1. t.name \notin Coverings
    BY <1>3 DEF IsStart, Coverings, Embedded, Cells
  <2>2. Sane(insert_an_HTML_element(s, t.name))
    BY <1>1, <2>1, InsertSane
  <2> QED BY <2>2, SwitchSane
<1>4. ASSUME IsStart(t, {"body"})
      PROVE  Sane([switch_the_insertion_mode(insert_an_HTML_element(s, t.name), "in_body")
                      EXCEPT !.frameset_ok = FALSE])
  <2>1. "in_body" \in Modes
    BY DEF Modes
  <2>2. IsStart(t, {"body", "frameset"})
    BY <1>4 DEF IsStart
  <2>3. Sane(switch_the_insertion_mode(insert_an_HTML_element(s, t.name), "in_body"))
    BY <2>1, <2>2, <1>3
  <2> QED BY <2>3, FlagsSane
<1>5. ASSUME IsStart(t, {"frameset"})
      PROVE  Sane(switch_the_insertion_mode(insert_an_HTML_element(s, t.name), "in_frameset"))
  <2>1. "in_frameset" \in Modes
    BY DEF Modes
  <2>2. IsStart(t, {"body", "frameset"})
    BY <1>5 DEF IsStart
  <2> QED BY <2>1, <2>2, <1>3
<1>6. Sane(remove_node_from_the_stack_of_open_elements(
               OnBehalf(in_head(D, Push(s, s.head), t)), s.head))
  <2>1. Sane(OnBehalf(in_head(D, Push(s, s.head), t)))
    BY HeadAgainSane, InHeadSane, AgainSane
  <2> QED BY <2>1, RemoveOpenSane
<1>7. Sane(Again([act_as_if_a_start_tag_token_had_been_seen(D, s, "body")
                     EXCEPT !.frameset_ok = TRUE]))
  <2>1. "body" \in Names
    BY NamesHave
  <2>2. Sane(act_as_if_a_start_tag_token_had_been_seen(D, s, "body"))
    BY <2>1, MadeUpSane
  <2> QED BY <2>2, FlagsSane, AgainSane
<1> QED BY <1>2, <1>4, <1>5, <1>6, <1>7 DEF after_head

-------------------------------------------------------------------------------
(* The body: start tags *)

\* Closing a p element for another start tag.
LEMMA ClosePSane ==
    ASSUME NEW D, Keeps(D), NEW s, Sane(s)
    PROVE  Sane(CloseP(D, s))
<1>1. "p" \in Names
  BY NamesHave
<1> QED BY <1>1, MadeUpSane DEF CloseP

\* The start tags of StructureStart.
LEMMA StructureStartSane ==
    ASSUME NEW D, Keeps(D), NEW s, Sane(s), NEW t \in Tokens
    PROVE  Sane(StructureStart(D, s, t))
<1>1. Sane(HtmlStartTagInBody(s)) /\ Sane(OnBehalf(in_head(D, s, t))) /\ Sane(Ignored(s))
  BY InHeadSane, AgainSane, IgnoredSane DEF HtmlStartTagInBody
<1>2. Sane(Fail(s, "empty"))
  BY SaneIs, FailSane, FailuresHave
<1>3. Sane([s EXCEPT !.frameset_ok = FALSE])
  BY FlagsSane
<1> QED BY <1>1, <1>2, <1>3 DEF StructureStart

\* Start tags of blocks; none of them puts a marker into the list.
LEMMA BlockStartSane ==
    ASSUME NEW D, Keeps(D), NEW s, Sane(s), NEW t \in Tokens, t.name \notin Coverings,
           t.name \in Blocks \cup Headings \cup {"p", "pre", "listing", "plaintext", "hr"}
    PROVE  Sane(BlockStart(D, s, t))
<1>1. t.name \in Names
  BY TokenIs
<1>2. PICK closed : closed = CloseP(D, s)
  OBVIOUS
<1>3. Sane(closed)
  BY <1>2, ClosePSane
<1>4. Sane(insert_an_HTML_element(closed, t.name))
  BY <1>1, <1>3, InsertSane
<1>5. Sane(insert_an_HTML_element(
               IF CurrentIs(closed, Headings) THEN Pop(closed) ELSE closed, t.name))
  <2>1. Sane(insert_an_HTML_element(Pop(closed), t.name))
    BY <1>1, <1>3, PopSane, InsertSane
  <2> QED BY <2>1, <1>4
<1>6. Sane([insert_an_HTML_element(closed, t.name) EXCEPT !.ignore_line_feed = TRUE,
                                                          !.frameset_ok = FALSE])
  <2>1. PICK r : r = insert_an_HTML_element(closed, t.name)
    OBVIOUS
  <2>2. PICK u : u = [r EXCEPT !.ignore_line_feed = TRUE]
    OBVIOUS
  <2>3. Sane(r)
    BY <2>1, <1>4
  <2>4. Sane(u)
    BY <2>2, <2>3, FlagsSane
  <2>5. Sane([u EXCEPT !.frameset_ok = FALSE])
    BY <2>4, FlagsSane
  <2>6. [r EXCEPT !.ignore_line_feed = TRUE, !.frameset_ok = FALSE] =
            [u EXCEPT !.frameset_ok = FALSE]
    BY <2>2, <2>3, SaneIs DEF Trees
  <2> QED BY <2>1, <2>5, <2>6
<1>7. Sane([insert_an_HTML_element(closed, t.name) EXCEPT !.content = "PLAINTEXT"])
  <2>1. "PLAINTEXT" \in TS!Contents
    BY DEF TS!Contents
  <2> QED BY <2>1, <1>4, ContentSane
<1>8. Sane([InsertAndPop(closed, t.name) EXCEPT !.frameset_ok = FALSE])
  BY <1>1, <1>3, InsertAndPopSane, FlagsSane
<1> QED BY <1>2, <1>4, <1>5, <1>6, <1>7, <1>8 DEF BlockStart

\* What is inserted for a tag is an element, to which a pointer may be kept.
LEMMA InsertFormSane ==
    ASSUME NEW s, Sane(s), NEW name \in Names, name \notin Coverings,
           NEW r, r = insert_an_HTML_element(s, name)
    PROVE  Sane([r EXCEPT !.form = Last(r.open)])
<1>1. PICK e : e = create_an_element_for_a_token(s, name)
  OBVIOUS
<1>2. Sane(r)
  BY InsertSane
<1>3. Last(r.open) = e
  BY <1>1, InsertIs
<1>4. s \in Trees
  BY SaneIs
<1>5. e \in Elements
  BY <1>1, <1>4, CreateIs
<1> QED BY <1>2, <1>3, <1>5, FormSane

\* The start tags of FormStart.
LEMMA FormStartSane ==
    ASSUME NEW D, Keeps(D), NEW s, Sane(s), NEW t \in Tokens, t.name \notin Coverings
    PROVE  Sane(FormStart(D, s, t))
<1>1. t.name \in Names
  BY TokenIs
<1>2. PICK r : r = insert_an_HTML_element(CloseP(D, s), t.name)
  OBVIOUS
<1>3. Sane([r EXCEPT !.form = Last(r.open)])
  BY <1>1, <1>2, ClosePSane, InsertFormSane
<1> QED BY <1>2, <1>3, IgnoredSane DEF FormStart

\* The start tags of ItemStart.
LEMMA ItemStartSane ==
    ASSUME NEW D, Keeps(D), NEW s, Sane(s), NEW t \in Tokens, t.name \notin Coverings
    PROVE  Sane(ItemStart(D, s, t))
<1>1. t.name \in Names /\ "li" \in Names
  BY TokenIs, NamesHave
<1>2. Sane(act_as_if_an_end_tag_token_had_been_seen(D, s, "li"))
  BY <1>1, MadeUpSane
<1>3. ASSUME NEW r, Sane(r)
      PROVE  Sane([insert_an_HTML_element(CloseP(D, r), t.name) EXCEPT !.frameset_ok = FALSE])
  BY <1>1, <1>3, ClosePSane, InsertSane, FlagsSane
<1> QED BY <1>2, <1>3 DEF ItemStart

\* Elements are popped that nobody looked at.
LEMMA PopUnseenSane ==
    ASSUME NEW s, Sane(s), NEW n \in 0 .. Len(s.open)
    PROVE  Sane(PopUnseen(s, n))
<1>1. Sane(Shrunk(s, n))
  BY ShrunkSane
<1>2. Sane(Fail(Shrunk(s, n), "astray")) /\ Sane(Fail(Shrunk(s, 0), "passed"))
  BY <1>1, SaneIs, FailSane, NothingSane, FailuresHave
<1> QED BY <1>1, <1>2 DEF PopUnseen

\* What is left after a pop has a last element of a name among those of before.
LEMMA LeftIsLess ==
    ASSUME NEW s, Sane(s), NEW names
    PROVE  LastNamed(Pop(s), names) \in 0 .. Len(s.open)
<1>1. PICK p : p = Pop(s)
  OBVIOUS
<1>2. Sane(p) /\ Len(s.open) \in Nat
  BY <1>1, PopSane, SaneIs
<1>3. LastNamed(p, names) \in 0 .. Len(p.open) /\ Len(p.open) \in Nat
  BY <1>2, LastNamedSane, SaneIs
<1>4. Len(p.open) <= Len(s.open)
  <2>1. CASE s.open = <<>>
    <3>1. s \in Trees
      BY SaneIs
    <3>2. p.open = s.open
      BY <2>1, <3>1, <1>1 DEF Pop, Fail, Trees
    <3> QED BY <3>2, <1>2
  <2>2. CASE s.open # <<>>
    <3>1. Len(s.open) - 1 \in 0 .. Len(s.open) /\ p = Shrunk(s, Len(s.open) - 1)
      BY <2>2, <1>1, SaneIs DEF Pop
    <3>2. Len(p.open) = Len(s.open) - 1
      BY <3>1, ShrunkSane
    <3> QED BY <3>2, <1>2
  <2> QED BY <2>1, <2>2
<1> QED BY <1>1, <1>2, <1>3, <1>4

\* An element is closed down to the next of its name.
LEMMA PopBeforeSane ==
    ASSUME NEW s, Sane(s), NEW name
    PROVE  Sane(PopBefore(s, name))
<1>1. PICK r : r = generate_implied_end_tags(s, {name})
  OBVIOUS
<1>2. Sane(r)
  BY <1>1, ImpliedSane
<1>3. LastNamed(Pop(r), {name}) \in 0 .. Len(r.open)
  BY <1>2, LeftIsLess
<1> QED BY <1>1, <1>2, <1>3, PopUnseenSane DEF PopBefore

\* The start tags of DefinitionStart.
LEMMA DefinitionStartSane ==
    ASSUME NEW s, Sane(s), NEW t \in Tokens, t.name \notin Coverings
    PROVE  Sane(DefinitionStart(s, t))
<1>1. t.name \in Names
  BY TokenIs
<1>2. PICK i : i = LastNamed(s, Bounding)
  OBVIOUS
<1>3. PICK closed : closed = IF i > 0 /\ s.open[i].name \in {"dd", "dt"}
                             THEN PopBefore(s, s.open[i].name)
                             ELSE s
  OBVIOUS
<1>4. Sane(closed)
  BY <1>3, PopBeforeSane
<1>5. PICK no_p : no_p = IF has_element_in_button_scope(closed, "p")
                         THEN close_a_p_element(closed)
                         ELSE closed
  OBVIOUS
<1>6. Sane(no_p)
  BY <1>4, <1>5, PopBeforeSane DEF close_a_p_element
<1>7. Sane([insert_an_HTML_element(no_p, t.name) EXCEPT !.frameset_ok = FALSE])
  BY <1>1, <1>6, InsertSane, FlagsSane
<1> QED BY <1>2, <1>3, <1>5, <1>7 DEF DefinitionStart

\* The formatting elements are opened again before most tags.
LEMMA ReopenedInsertSane ==
    ASSUME NEW s, Sane(s), NEW name \in Names, name \notin Coverings
    PROVE  /\ Sane(insert_an_HTML_element(reconstruct_the_active_formatting_elements(s), name))
           /\ Sane(InsertAndPop(reconstruct_the_active_formatting_elements(s), name))
BY ReconstructSane, InsertSane, InsertAndPopSane

\* The start tags of ButtonStart.
LEMMA ButtonStartSane ==
    ASSUME NEW D, Keeps(D), NEW s, Sane(s), NEW t \in Tokens, t.name \notin Coverings
    PROVE  Sane(ButtonStart(D, s, t))
<1>1. t.name \in Names /\ "button" \in Names
  BY TokenIs, NamesHave
<1>2. Sane(Again(act_as_if_an_end_tag_token_had_been_seen(D, s, "button")))
  BY <1>1, MadeUpSane, AgainSane
<1>3. Sane([insert_an_HTML_element(reconstruct_the_active_formatting_elements(s), t.name)
               EXCEPT !.frameset_ok = FALSE])
  BY <1>1, ReopenedInsertSane, FlagsSane
<1> QED BY <1>2, <1>3 DEF ButtonStart

\* The start tags of AnchorStart.
LEMMA AnchorStartSane ==
    ASSUME NEW D, Keeps(D), NEW s, Sane(s), NEW t \in Tokens, t.name \in Listable
    PROVE  Sane(AnchorStart(D, s, t))
<1>1. t.name \in Names /\ "a" \in Names
  BY TokenIs, NamesHave
<1>2. PICK named : named = {i \in SinceMarker(s) : s.formatting[i].name = "a"}
  OBVIOUS
<1>3. PICK last : last = CHOOSE i \in named : \A j \in named : j <= i
  OBVIOUS
<1>4. PICK a : a = s.formatting[last]
  OBVIOUS
<1>5. PICK ended : ended = act_as_if_an_end_tag_token_had_been_seen(D, s, "a")
  OBVIOUS
<1>6. PICK closed : closed =
          IF named = {} THEN s
          ELSE remove_node_from_the_stack_of_open_elements(
                   remove_node_from_the_list_of_active_formatting_elements(ended, a), a)
  OBVIOUS
<1>7. Sane(ended)
  BY <1>1, <1>5, MadeUpSane
<1>8. CASE named = {}
  BY <1>1, <1>2, <1>6, <1>8, ReconstructSane, InsertFormattingSane DEF AnchorStart
<1>9. CASE named # {}
  <2>1. s.formatting \in Seq(Elements) /\ Len(s.formatting) \in Nat
    BY SaneIs
  <2>2. \A i : i \in SinceMarker(s) => i \in 1 .. Len(s.formatting)
    BY <2>1, SinceMarkerIs
  <2>3. named \in SUBSET (0 .. Len(s.formatting))
    BY <2>2, <2>1, <1>2
  <2>4. \E i \in named : \A j \in named : j <= i
    BY <2>1, <2>3, <1>9, Greatest
  <2>5. last \in named
    BY <2>4, <1>3
  <2>6. a.name = "a"
    BY <2>5, <1>2, <1>4
  <2>7. a # Marker
    BY <2>6 DEF Marker
  <2>8. Sane(closed)
    BY <2>7, <1>6, <1>7, <1>9, RemoveListedSane, RemoveOpenSane
  <2>9. Sane(InsertFormatting(reconstruct_the_active_formatting_elements(closed), t.name))
    BY <2>8, <1>1, ReconstructSane, InsertFormattingSane
  <2> QED BY <2>9, <1>2, <1>3, <1>4, <1>5, <1>6 DEF AnchorStart
<1> QED BY <1>8, <1>9

\* The start tags of FormattingStart.
LEMMA FormattingStartSane ==
    ASSUME NEW D, Keeps(D), NEW s, Sane(s), NEW t \in Tokens, t.name \in Listable
    PROVE  Sane(FormattingStart(D, s, t))
<1>1. t.name \in Names /\ "nobr" \in Names
  BY TokenIs, NamesHave
<1>2. PICK r : r = reconstruct_the_active_formatting_elements(s)
  OBVIOUS
<1>3. Sane(r)
  BY <1>2, ReconstructSane
<1>4. Sane(reconstruct_the_active_formatting_elements(
               act_as_if_an_end_tag_token_had_been_seen(D, r, "nobr")))
  BY <1>1, <1>3, MadeUpSane, ReconstructSane
<1>5. ASSUME NEW u, Sane(u) PROVE Sane(InsertFormatting(u, t.name))
  BY <1>1, <1>5, InsertFormattingSane
<1> QED BY <1>2, <1>3, <1>4, <1>5 DEF FormattingStart

\* The start tags of EmbeddedStart.
LEMMA EmbeddedStartSane ==
    ASSUME NEW s, Sane(s), NEW t \in Tokens
    PROVE  Sane(EmbeddedStart(s, t))
<1>1. t.name \in Names
  BY TokenIs
<1>2. Sane(Marked(insert_an_HTML_element(
               reconstruct_the_active_formatting_elements(s), t.name)))
  BY <1>1, ReconstructSane, InsertShort, MarkedSane
<1> QED BY <1>2, FlagsSane DEF EmbeddedStart

\* The start tags of TableStart.
LEMMA TableStartSane ==
    ASSUME NEW D, Keeps(D), NEW s, Sane(s), NEW t \in Tokens, t.name \notin Coverings
    PROVE  Sane(TableStart(D, s, t))
<1>1. t.name \in Names
  BY TokenIs
<1>2. PICK r : r = IF s.quirks THEN s ELSE CloseP(D, s)
  OBVIOUS
<1>3. Sane(r)
  BY <1>2, ClosePSane
<1>4. Sane([insert_an_HTML_element(r, t.name) EXCEPT !.frameset_ok = FALSE])
  BY <1>1, <1>3, InsertSane, FlagsSane
<1>5. "in_table" \in Modes
  BY DEF Modes
<1> QED BY <1>2, <1>4, <1>5, SwitchSane DEF TableStart

\* The start tags of VoidStart.
LEMMA VoidStartSane ==
    ASSUME NEW s, Sane(s), NEW t \in Tokens, t.name \notin Coverings
    PROVE  Sane(VoidStart(s, t))
<1>1. t.name \in Names
  BY TokenIs
<1>2. Sane(InsertAndPop(s, t.name))
  BY <1>1, InsertAndPopSane
<1>3. Sane([InsertAndPop(reconstruct_the_active_formatting_elements(s), t.name)
               EXCEPT !.frameset_ok = FALSE])
  BY <1>1, ReopenedInsertSane, FlagsSane
<1> QED BY <1>2, <1>3 DEF VoidStart

\* The start tags of IsIndexStart.
LEMMA IsIndexStartSane ==
    ASSUME NEW D, Keeps(D), NEW s, Sane(s)
    PROVE  Sane(IsIndexStart(D, s))
<1>1. "form" \in Names /\ "hr" \in Names /\ "label" \in Names
  BY NamesHave
<1>2. ASSUME NEW r, Sane(r)
      PROVE  /\ Sane(act_as_if_a_start_tag_token_had_been_seen(D, r, "form"))
             /\ Sane(act_as_if_a_start_tag_token_had_been_seen(D, r, "hr"))
             /\ Sane(act_as_if_a_start_tag_token_had_been_seen(D, r, "label"))
             /\ Sane(act_as_if_an_end_tag_token_had_been_seen(D, r, "label"))
             /\ Sane(act_as_if_an_end_tag_token_had_been_seen(D, r, "form"))
  BY <1>1, <1>2, MadeUpSane
<1> QED BY <1>2, IgnoredSane DEF IsIndexStart

\* The start tags of TextStart.
LEMMA TextStartSane ==
    ASSUME NEW D, Keeps(D), NEW s, Sane(s), NEW t \in Tokens, t.name \notin Coverings,
           t.name \in {"textarea", "xmp", "iframe", "noembed"}
    PROVE  Sane(TextStart(D, s, t))
<1>1. t.name \in Names /\ "RCDATA" \in TS!Contents /\ "RAWTEXT" \in TS!Contents
  BY TokenIs DEF TS!Contents
<1>2. PICK r : r = [s EXCEPT !.frameset_ok = FALSE]
  OBVIOUS
<1>3. Sane(r)
  BY <1>2, FlagsSane
<1>4. Sane([generic_element_parsing_algorithm(r, t.name, "RCDATA")
               EXCEPT !.ignore_line_feed = TRUE])
  BY <1>1, <1>3, GenericSane, FlagsSane
<1>5. Sane(generic_element_parsing_algorithm(
               reconstruct_the_active_formatting_elements(
                   [CloseP(D, s) EXCEPT !.frameset_ok = FALSE]), t.name, "RAWTEXT"))
  BY <1>1, ClosePSane, FlagsSane, ReconstructSane, GenericSane
<1>6. Sane(generic_element_parsing_algorithm(r, t.name, "RAWTEXT"))
  BY <1>1, <1>3, GenericSane
<1>7. Sane(generic_element_parsing_algorithm(s, t.name, "RAWTEXT"))
  BY <1>1, GenericSane
<1> QED BY <1>2, <1>4, <1>5, <1>6, <1>7 DEF TextStart

\* The start tags of SelectStart.
LEMMA SelectStartSane ==
    ASSUME NEW s, Sane(s), NEW t \in Tokens, t.name \notin Coverings
    PROVE  Sane(SelectStart(s, t))
<1>1. t.name \in Names
  BY TokenIs
<1>2. PICK r : r = insert_an_HTML_element(reconstruct_the_active_formatting_elements(s), t.name)
  OBVIOUS
<1>3. Sane([r EXCEPT !.frameset_ok = FALSE])
  BY <1>1, <1>2, ReopenedInsertSane, FlagsSane
<1>4. "in_select_in_table" \in Modes /\ "in_select" \in Modes
  BY DEF Modes
<1> QED BY <1>2, <1>3, <1>4, SwitchSane DEF SelectStart

\* The start tags of OtherStart.
LEMMA OtherStartSane ==
    ASSUME NEW D, Keeps(D), NEW s, Sane(s), NEW t \in Tokens, t.name \notin Embedded
    PROVE  Sane(OtherStart(D, s, t))
<1>1. t.name \in Names /\ "option" \in Names
  BY TokenIs, NamesHave
<1>2. ASSUME t.name \in {"optgroup", "option"} PROVE Sane(OptionStart(D, s, t))
  <2>1. t.name \notin Coverings
    BY <1>2 DEF Coverings, Embedded, Cells
  <2>2. Sane(act_as_if_an_end_tag_token_had_been_seen(D, s, "option"))
    BY <1>1, MadeUpSane
  <2> QED BY <2>1, <2>2, <1>1, ReopenedInsertSane DEF OptionStart
<1>3. ASSUME t.name \in {"rp", "rt"} PROVE Sane(RubyStart(s, t))
  <2>1. t.name \notin Coverings
    BY <1>3 DEF Coverings, Embedded, Cells
  <2>2. Sane(generate_implied_end_tags(s, {}))
    BY ImpliedSane
  <2> QED BY <2>1, <2>2, <1>1, InsertSane DEF RubyStart
<1>4. Sane(ForeignStart(s, t))
  <2>1. PICK r : r = reconstruct_the_active_formatting_elements(s)
    OBVIOUS
  <2>2. Sane(r) /\ Sane(Pop(r))
    BY <2>1, ReconstructSane, PopSane
  <2>3. Sane(Fail(Pop(r), "astray"))
    BY <2>2, SaneIs, FailSane, FailuresHave
  <2> QED BY <2>1, <2>2, <2>3 DEF ForeignStart
<1>5. ASSUME t.name \notin Columns \cup Sections \cup Cells \cup {"frame", "head", "tr"}
      PROVE  Sane(insert_an_HTML_element(reconstruct_the_active_formatting_elements(s), t.name))
  <2>1. t.name \notin Coverings
    BY <1>5 DEF Coverings, Columns
  <2> QED BY <2>1, <1>1, ReopenedInsertSane
<1> QED BY <1>2, <1>3, <1>4, <1>5, IgnoredSane DEF OtherStart

-------------------------------------------------------------------------------
(* The body: end tags, text and tables *)

\* The start tags of InBodyStart.
LEMMA InBodyStartSane ==
    ASSUME NEW D, Keeps(D), NEW s, Sane(s), NEW t \in Tokens, t.type = "start"
    PROVE  Sane(InBodyStart(D, s, t))
<1>1. Sane(StructureStart(D, s, t))
  BY StructureStartSane
<1>2. ASSUME t.name \in Blocks \cup Headings \cup {"p", "pre", "listing", "plaintext", "hr"}
      PROVE  Sane(BlockStart(D, s, t))
  <2>1. t.name \notin Coverings
    BY <1>2 DEF Coverings, Embedded, Cells, Blocks, Headings
  <2> QED BY <1>2, <2>1, BlockStartSane
<1>3. ASSUME t.name \in {"form", "li", "dd", "dt", "button", "table", "area", "br", "embed",
                         "img", "keygen", "wbr", "input", "menuitem", "param", "source",
                         "track", "select", "textarea", "xmp", "iframe", "noembed"}
      PROVE  t.name \notin Coverings
  BY <1>3 DEF Coverings, Embedded, Cells
<1>4. /\ t.name = "form" => Sane(FormStart(D, s, t))
      /\ t.name = "li" => Sane(ItemStart(D, s, t))
      /\ t.name \in {"dd", "dt"} => Sane(DefinitionStart(s, t))
      /\ t.name = "button" => Sane(ButtonStart(D, s, t))
      /\ t.name = "table" => Sane(TableStart(D, s, t))
      /\ t.name = "select" => Sane(SelectStart(s, t))
  BY <1>3, FormStartSane, ItemStartSane, DefinitionStartSane, ButtonStartSane, TableStartSane,
     SelectStartSane
<1>5. /\ t.name = "a" => Sane(AnchorStart(D, s, t))
      /\ t.name \in FormattingNames \cup {"nobr"} => Sane(FormattingStart(D, s, t))
  BY AnchorStartSane, FormattingStartSane DEF Listable
<1>6. Sane(EmbeddedStart(s, t)) /\ Sane(IsIndexStart(D, s))
  BY EmbeddedStartSane, IsIndexStartSane
<1>7. t.name \in {"area", "br", "embed", "img", "keygen", "wbr", "input", "menuitem",
                  "param", "source", "track"} => Sane(VoidStart(s, t))
  BY <1>3, VoidStartSane
<1>8. t.name \in {"textarea", "xmp", "iframe", "noembed"} => Sane(TextStart(D, s, t))
  BY <1>3, TextStartSane
<1>9. Sane(ImageStart(D, s, t))
  BY TokenIs, SaneIs DEF Keeps, ImageStart
<1>10. t.name \notin Embedded => Sane(OtherStart(D, s, t))
  BY OtherStartSane
<1> QED BY <1>1, <1>2, <1>4, <1>5, <1>6, <1>7, <1>8, <1>9, <1>10 DEF InBodyStart

\* The end tags of StructureEnd.
LEMMA StructureEndSane ==
    ASSUME NEW D, Keeps(D), NEW s, Sane(s), NEW t \in Tokens
    PROVE  Sane(StructureEnd(D, s, t))
<1>1. "body" \in Names /\ "after_body" \in Modes
  BY NamesHave DEF Modes
<1> QED BY <1>1, MadeUpSane, SwitchSane DEF StructureEnd

\* Closing an element that put a marker into the list clears the list up to it.
LEMMA EndedAndClearedSane ==
    ASSUME NEW s, Sane(s), NEW names, names \subseteq Coverings, NEW implied
    PROVE  Sane(clear_the_list_of_active_formatting_elements_up_to_the_last_marker(
                    EndThrough(s, names, implied)))
<1>1. PICK r : r = EndThrough(s, names, implied)
  OBVIOUS
<1>2. Sane(r) /\ (r.failure = "none" => Covers(r.open) + 1 <= Markers(r.formatting))
  BY <1>1, EndThroughSane
<1>3. Sane(clear_the_list_of_active_formatting_elements_up_to_the_last_marker(r))
  BY <1>2, ClearSane
<1> QED BY <1>1, <1>3

\* The end tags of BlockEnd.
LEMMA BlockEndSane ==
    ASSUME NEW D, Keeps(D), NEW s, Sane(s), NEW t \in Tokens,
           t.name \in Blocks \cup Headings \cup Embedded
               \cup {"button", "listing", "pre", "p", "li", "dd", "dt"}
    PROVE  Sane(BlockEnd(D, s, t))
<1>1. ASSUME NEW names, NEW implied PROVE Sane(EndThrough(s, names, implied))
  BY EndThroughSane
<1>2. Sane(Again(act_as_if_a_start_tag_token_had_been_seen(D, s, "p")))
  <2>1. "p" \in Names
    BY NamesHave
  <2> QED BY <2>1, MadeUpSane, AgainSane
<1>3. ASSUME t.name \in Embedded
      PROVE  Sane(clear_the_list_of_active_formatting_elements_up_to_the_last_marker(
                      EndThrough(s, {t.name}, {})))
  <2>1. {t.name} \subseteq Coverings
    BY <1>3 DEF Coverings
  <2> QED BY <2>1, EndedAndClearedSane
<1>4. Sane(Ignored(s))
  BY IgnoredSane
<1> QED BY <1>1, <1>2, <1>3, <1>4 DEF BlockEnd

\* The end tags of FormEnd.
LEMMA FormEndSane ==
    ASSUME NEW s, Sane(s)
    PROVE  Sane(FormEnd(s))
<1>1. NoElement \in Elements
  <2>1. "none" \in Names
    BY NamesHave
  <2> QED BY <2>1 DEF NoElement, Elements
<1>2. PICK r : r = [s EXCEPT !.form = NoElement]
  OBVIOUS
<1>3. Sane(r)
  BY <1>1, <1>2, FormSane
<1>4. Sane(remove_node_from_the_stack_of_open_elements(
               generate_implied_end_tags(r, {}), s.form))
  BY <1>3, ImpliedSane, RemoveOpenSane
<1> QED BY <1>2, <1>3, <1>4, IgnoredSane DEF FormEnd

\* The end tags of InBodyEnd.
LEMMA InBodyEndSane ==
    ASSUME NEW D, Keeps(D), NEW s, Sane(s), NEW t \in Tokens
    PROVE  Sane(InBodyEnd(D, s, t))
<1>1. Sane(StructureEnd(D, s, t)) /\ Sane(FormEnd(s))
  BY StructureEndSane, FormEndSane
<1>2. t.name \in Blocks \cup Headings \cup Embedded
          \cup {"button", "listing", "pre", "p", "li", "dd", "dt"} => Sane(BlockEnd(D, s, t))
  BY BlockEndSane
<1>3. Sane(adoption_agency_algorithm(s, t)) /\ Sane(any_other_end_tag_in_body(s, t))
  BY AdoptionSane, AnyOtherEndSane
<1>4. Sane(Ignored(act_as_if_a_start_tag_token_had_been_seen(D, s, "br")))
  <2>1. "br" \in Names
    BY NamesHave
  <2> QED BY <2>1, MadeUpSane, IgnoredSane
<1> QED BY <1>1, <1>2, <1>3, <1>4 DEF InBodyEnd

\* The rules of the mode in_body.
LEMMA InBodySane ==
    ASSUME NEW D, Keeps(D), NEW s, Sane(s), NEW t \in Tokens
    PROVE  Sane(in_body(D, s, t))
<1>1. t.type \in {"start", "end", "comment", "doctype", "eof", "character"}
  BY TokenIs
<1>2. Sane(Ignored(s)) /\ Sane(Write(s)) /\ Sane(stop_parsing(s))
  BY IgnoredSane, WriteSane, StopSane
<1>3. PICK r : r = Write(reconstruct_the_active_formatting_elements(s))
  OBVIOUS
<1>4. Sane(r) /\ Sane([r EXCEPT !.frameset_ok = FALSE])
  BY <1>3, ReconstructSane, WriteSane, FlagsSane
<1>5. t.type = "start" => Sane(InBodyStart(D, s, t))
  BY InBodyStartSane
<1>6. Sane(InBodyEnd(D, s, t))
  BY InBodyEndSane
<1> QED BY <1>1, <1>2, <1>3, <1>4, <1>5, <1>6 DEF in_body, IsSpace

\* The rules of the mode text.
LEMMA TextSane ==
    ASSUME NEW s, Sane(s), NEW t \in Tokens
    PROVE  Sane(text(s, t))
<1>1. s.original \in Modes
  <2>1. s \in Trees
    BY SaneIs
  <2> QED BY <2>1 DEF Trees
<1>2. Sane(switch_the_insertion_mode(Pop(s), s.original))
  BY <1>1, PopSane, SwitchSane
<1> QED BY <1>2, AgainSane, WriteSane DEF text

\* The rules of the mode in_table.
LEMMA InTableSane ==
    ASSUME NEW D, Keeps(D), NEW s, Sane(s), NEW t \in Tokens
    PROVE  Sane(in_table(D, s, t))
<1>1. t.name \in Names /\ "colgroup" \in Names /\ "tbody" \in Names /\ "table" \in Names
  BY TokenIs, NamesHave
<1>2. PICK cleared : cleared = PopTo(s, {"table", "html"})
  OBVIOUS
<1>3. Sane(cleared)
  BY <1>2, PopToSane
<1>4. Sane(Write(s)) /\ Sane(Ignored(s)) /\ Sane(stop_parsing(s))
  BY WriteSane, IgnoredSane, StopSane
<1>5. Sane(Again(switch_the_insertion_mode([s EXCEPT !.pending = {}], "in_table_text")))
  <2>1. "in_table_text" \in Modes
    BY DEF Modes
  <2>2. Sane([s EXCEPT !.pending = {}])
    BY PendingSane
  <2> QED BY <2>1, <2>2, SwitchSane, AgainSane
<1>6. Sane(switch_the_insertion_mode(
               insert_an_HTML_element(Marked(cleared), t.name), "in_caption"))
  <2>1. "in_caption" \in Modes
    BY DEF Modes
  <2>2. Sane(Marked(cleared)) /\ Slack(Marked(cleared))
    BY <1>3, MarkedSlack
  <2>3. Sane(insert_an_HTML_element(Marked(cleared), t.name))
    BY <2>2, <1>1, InsertSane
  <2> QED BY <2>1, <2>3, SwitchSane
<1>7. ASSUME NEW m \in Modes, t.name \notin Coverings
      PROVE  Sane(switch_the_insertion_mode(insert_an_HTML_element(cleared, t.name), m))
  BY <1>1, <1>3, <1>7, InsertSane, SwitchSane
<1>8. IsStart(t, {"colgroup"}) =>
          Sane(switch_the_insertion_mode(insert_an_HTML_element(cleared, t.name),
                                         "in_column_group"))
  <2>1. "in_column_group" \in Modes
    BY DEF Modes
  <2>2. IsStart(t, {"colgroup"}) => t.name \notin Coverings
    BY DEF IsStart, Coverings, Embedded, Cells
  <2> QED BY <2>1, <2>2, <1>7
<1>9. IsStart(t, Sections) =>
          Sane(switch_the_insertion_mode(insert_an_HTML_element(cleared, t.name),
                                         "in_table_body"))
  <2>1. "in_table_body" \in Modes
    BY DEF Modes
  <2>2. IsStart(t, Sections) => t.name \notin Coverings
    BY DEF IsStart, Coverings, Embedded, Cells, Sections
  <2> QED BY <2>1, <2>2, <1>7
<1>10. /\ Sane(Again(act_as_if_a_start_tag_token_had_been_seen(D, s, "colgroup")))
       /\ Sane(Again(act_as_if_a_start_tag_token_had_been_seen(D, s, "tbody")))
       /\ Sane(EndThenAgain(D, s, "table"))
  BY <1>1, MadeUpSane, AgainSane
<1>11. Sane(OnBehalf(in_head(D, s, t)))
  BY InHeadSane, AgainSane
<1>12. IsStart(t, {"input"}) => Sane(InsertAndPop(s, t.name))
  <2>1. IsStart(t, {"input"}) => t.name \notin Coverings
    BY DEF IsStart, Coverings, Embedded, Cells
  <2> QED BY <2>1, <1>1, InsertAndPopSane
<1>13. PICK r : r = insert_an_HTML_element(s, t.name)
  OBVIOUS
<1>14. IsStart(t, {"form"}) => Sane(Pop([r EXCEPT !.form = Last(r.open)]))
  <2>1. IsStart(t, {"form"}) => t.name \notin Coverings
    BY DEF IsStart, Coverings, Embedded, Cells
  <2> QED BY <2>1, <1>1, <1>13, InsertFormSane, PopSane
<1>15. Sane(reset_the_insertion_mode_appropriately(PopThrough(s, {"table"})))
  BY PopThroughSane, ResetSane
<1> QED BY <1>2, <1>4, <1>5, <1>6, <1>8, <1>9, <1>10, <1>11, <1>12, <1>13, <1>14, <1>15
        DEF in_table, in_table_insertion_mode_anything_else

\* The rules of the mode in_table_text.
LEMMA InTableTextSane ==
    ASSUME NEW s, Sane(s), NEW t \in Tokens
    PROVE  Sane(in_table_text(s, t))
<1>1. s.original \in Modes /\ s.pending \in SUBSET {"space", "line feed", "text"}
  <2>1. s \in Trees
    BY SaneIs
  <2> QED BY <2>1 DEF Trees
<1>2. ~IsNull(t) /\ t.type = "character" => Sane([s EXCEPT !.pending = s.pending \cup {t.name}])
  <2>1. ASSUME ~IsNull(t), t.type = "character"
        PROVE  s.pending \cup {t.name} \in SUBSET {"space", "line feed", "text"}
    <3>1. t.name \in Characters
      BY <2>1, TokenIs
    <3> QED BY <3>1, <2>1, <1>1 DEF IsNull, Characters
  <2> QED BY <2>1, PendingSane
<1>3. ASSUME NEW r, Sane(r) PROVE Sane(Again(switch_the_insertion_mode(r, s.original)))
  BY <1>1, <1>3, SwitchSane, AgainSane
<1>4. Sane(Write(s)) /\ Sane(Ignored(s))
  BY WriteSane, IgnoredSane
<1>5. Sane(Again(switch_the_insertion_mode(
               IF s.pending \subseteq {"space", "line feed"} /\ s.pending # {}
               THEN Write(s)
               ELSE in_table_insertion_mode_anything_else(s), s.original)))
  BY <1>3, <1>4 DEF in_table_insertion_mode_anything_else
<1>6. CASE IsNull(t)
  BY <1>4, <1>6 DEF in_table_text
<1>7. CASE ~IsNull(t) /\ t.type = "character"
  <2>1. in_table_text(s, t) = [s EXCEPT !.pending = s.pending \cup {t.name}]
    BY <1>7 DEF in_table_text
  <2> QED BY <2>1, <1>2, <1>7
<1>8. CASE ~IsNull(t) /\ t.type # "character"
  BY <1>5, <1>8 DEF in_table_text
<1> QED BY <1>6, <1>7, <1>8

\* The rules of the mode in_caption.
LEMMA InCaptionSane ==
    ASSUME NEW D, Keeps(D), NEW s, Sane(s), NEW t \in Tokens
    PROVE  Sane(in_caption(D, s, t))
<1>1. Sane(switch_the_insertion_mode(
               clear_the_list_of_active_formatting_elements_up_to_the_last_marker(
                   EndThrough(s, {"caption"}, {})), "in_table"))
  <2>1. {"caption"} \subseteq Coverings /\ "in_table" \in Modes
    BY DEF Coverings, Modes
  <2> QED BY <2>1, EndedAndClearedSane, SwitchSane
<1>2. Sane(EndThenAgain(D, s, "caption"))
  <2>1. "caption" \in Names
    BY NamesHave
  <2> QED BY <2>1, MadeUpSane
<1>3. Sane(OnBehalf(in_body(D, s, t))) /\ Sane(Ignored(s))
  BY InBodySane, AgainSane, IgnoredSane
<1> QED BY <1>1, <1>2, <1>3 DEF in_caption

\* The rules of the mode in_column_group.
LEMMA InColumnGroupSane ==
    ASSUME NEW D, Keeps(D), NEW s, Sane(s), NEW t \in Tokens
    PROVE  Sane(in_column_group(D, s, t))
<1>1. t.name \in Names /\ "colgroup" \in Names /\ "in_table" \in Modes
  BY TokenIs, NamesHave DEF Modes
<1>2. /\ Sane(Write(s)) /\ Sane(Ignored(s)) /\ Sane(stop_parsing(s))
      /\ Sane(HtmlStartTagInBody(s))
  BY WriteSane, IgnoredSane, StopSane DEF HtmlStartTagInBody
<1>3. IsStart(t, {"col"}) => Sane(InsertAndPop(s, t.name))
  <2>1. IsStart(t, {"col"}) => t.name \notin Coverings
    BY DEF IsStart, Coverings, Embedded, Cells
  <2> QED BY <2>1, <1>1, InsertAndPopSane
<1>4. Sane(switch_the_insertion_mode(Pop(s), "in_table"))
  BY <1>1, PopSane, SwitchSane
<1>5. Sane(EndThenAgain(D, s, "colgroup"))
  BY <1>1, MadeUpSane
<1> QED BY <1>2, <1>3, <1>4, <1>5 DEF in_column_group

\* The rules of the mode in_table_body.
LEMMA InTableBodySane ==
    ASSUME NEW D, Keeps(D), NEW s, Sane(s), NEW t \in Tokens
    PROVE  Sane(in_table_body(D, s, t))
<1>1. t.name \in Names /\ "tr" \in Names /\ "in_table" \in Modes /\ "in_row" \in Modes
  BY TokenIs, NamesHave DEF Modes
<1>2. PICK cleared : cleared = PopTo(s, Sections \cup {"html"})
  OBVIOUS
<1>3. Sane(cleared) /\ Sane(Ignored(s))
  BY <1>2, PopToSane, IgnoredSane
<1>4. IsStart(t, {"tr"}) =>
          Sane(switch_the_insertion_mode(insert_an_HTML_element(cleared, t.name), "in_row"))
  <2>1. IsStart(t, {"tr"}) => t.name \notin Coverings
    BY DEF IsStart, Coverings, Embedded, Cells
  <2> QED BY <2>1, <1>1, <1>3, InsertSane, SwitchSane
<1>5. Sane(Again(act_as_if_a_start_tag_token_had_been_seen(D, s, "tr")))
  BY <1>1, MadeUpSane, AgainSane
<1>6. cleared.open # <<>> =>
          Sane(Again(act_as_if_an_end_tag_token_had_been_seen(D, cleared,
                         Last(cleared.open).name)))
  <2>1. ASSUME cleared.open # <<>> PROVE Last(cleared.open).name \in Names
    <3>1. cleared.open \in Seq(Elements)
      BY <1>3, SaneIs
    <3>2. Last(cleared.open) \in Elements
      BY <2>1, <3>1 DEF Last
    <3> QED BY <3>2 DEF Elements
  <2> QED BY <2>1, <1>3, MadeUpSane, AgainSane
<1>7. Sane(switch_the_insertion_mode(Pop(cleared), "in_table"))
  BY <1>1, <1>3, PopSane, SwitchSane
<1>8. Sane(OnBehalf(in_table(D, s, t)))
  BY InTableSane, AgainSane
<1> QED BY <1>2, <1>3, <1>4, <1>5, <1>6, <1>7, <1>8 DEF in_table_body

\* The rules of the mode in_row.
LEMMA InRowSane ==
    ASSUME NEW D, Keeps(D), NEW s, Sane(s), NEW t \in Tokens
    PROVE  Sane(in_row(D, s, t))
<1>1. /\ t.name \in Names /\ "tr" \in Names /\ "in_cell" \in Modes
      /\ "in_table_body" \in Modes
  BY TokenIs, NamesHave DEF Modes
<1>2. PICK cleared : cleared = PopTo(s, {"tr", "html"})
  OBVIOUS
<1>3. Sane(cleared) /\ Sane(Ignored(s))
  BY <1>2, PopToSane, IgnoredSane
<1>4. Sane(Marked(switch_the_insertion_mode(
               insert_an_HTML_element(cleared, t.name), "in_cell")))
  BY <1>1, <1>3, InsertShort, SwitchShort, MarkedSane
<1>5. /\ Sane(EndThenAgain(D, s, "tr"))
      /\ Sane(Again(act_as_if_an_end_tag_token_had_been_seen(D, s, "tr")))
  BY <1>1, MadeUpSane, AgainSane
<1>6. Sane(switch_the_insertion_mode(Pop(cleared), "in_table_body"))
  BY <1>1, <1>3, PopSane, SwitchSane
<1>7. Sane(OnBehalf(in_table(D, s, t)))
  BY InTableSane, AgainSane
<1> QED BY <1>2, <1>3, <1>4, <1>5, <1>6, <1>7 DEF in_row

\* Closing the cell.
LEMMA CloseTheCellSane ==
    ASSUME NEW D, Keeps(D), NEW s, Sane(s)
    PROVE  Sane(close_the_cell(D, s))
<1>1. "td" \in Names /\ "th" \in Names
  BY NamesHave
<1> QED BY <1>1, MadeUpSane DEF close_the_cell

\* The rules of the mode in_cell.
LEMMA InCellSane ==
    ASSUME NEW D, Keeps(D), NEW s, Sane(s), NEW t \in Tokens
    PROVE  Sane(in_cell(D, s, t))
<1>1. Sane(Again(close_the_cell(D, s))) /\ Sane(Ignored(s))
  BY CloseTheCellSane, AgainSane, IgnoredSane
<1>2. IsEnd(t, Cells) =>
          Sane(switch_the_insertion_mode(
                   clear_the_list_of_active_formatting_elements_up_to_the_last_marker(
                       EndThrough(s, {t.name}, {})), "in_row"))
  <2>1. "in_row" \in Modes
    BY DEF Modes
  <2>2. IsEnd(t, Cells) => {t.name} \subseteq Coverings
    BY DEF IsEnd, Coverings
  <2> QED BY <2>1, <2>2, EndedAndClearedSane, SwitchSane
<1>3. Sane(OnBehalf(in_body(D, s, t)))
  BY InBodySane, AgainSane
<1> QED BY <1>1, <1>2, <1>3 DEF in_cell

-------------------------------------------------------------------------------
(* Selects, frames and the dispatcher *)

\* The rules of the mode in_select.
LEMMA InSelectSane ==
    ASSUME NEW D, Keeps(D), NEW s, Sane(s), NEW t \in Tokens
    PROVE  Sane(in_select(D, s, t))
<1>1. t.name \in Names /\ "option" \in Names /\ "optgroup" \in Names /\ "select" \in Names
  BY TokenIs, NamesHave
<1>2. PICK no_option : no_option = IF CurrentIs(s, {"option"})
                           THEN act_as_if_an_end_tag_token_had_been_seen(D, s, "option")
                           ELSE s
  OBVIOUS
<1>3. Sane(no_option)
  BY <1>1, <1>2, MadeUpSane
<1>4. /\ Sane(Ignored(s)) /\ Sane(Write(s)) /\ Sane(HtmlStartTagInBody(s))
      /\ Sane(stop_parsing(s)) /\ Sane(Pop(s))
  BY IgnoredSane, WriteSane, StopSane, PopSane DEF HtmlStartTagInBody
<1>5. IsStart(t, {"option"}) => Sane(insert_an_HTML_element(no_option, t.name))
  <2>1. IsStart(t, {"option"}) => t.name \notin Coverings
    BY DEF IsStart, Coverings, Embedded, Cells
  <2> QED BY <2>1, <1>1, <1>3, InsertSane
<1>6. IsStart(t, {"optgroup"}) =>
          Sane(insert_an_HTML_element(
                   IF CurrentIs(no_option, {"optgroup"})
                   THEN act_as_if_an_end_tag_token_had_been_seen(D, no_option, "optgroup")
                   ELSE no_option, t.name))
  <2>1. IsStart(t, {"optgroup"}) => t.name \notin Coverings
    BY DEF IsStart, Coverings, Embedded, Cells
  <2>2. Sane(act_as_if_an_end_tag_token_had_been_seen(D, no_option, "optgroup"))
    BY <1>1, <1>3, MadeUpSane
  <2> QED BY <2>1, <2>2, <1>1, <1>3, InsertSane
<1>7. Sane(act_as_if_an_end_tag_token_had_been_seen(D, s, "select"))
  BY <1>1, MadeUpSane
<1>8. Sane(Again(act_as_if_an_end_tag_token_had_been_seen(D, s, "select")))
  BY <1>7, AgainSane
<1>9. Sane(OnBehalf(in_head(D, s, t)))
  BY InHeadSane, AgainSane
<1>10. ASSUME NEW closed, closed \in {no_option, s}
       PROVE  Sane(IF CurrentIs(closed, {"optgroup"}) THEN Pop(closed) ELSE Ignored(closed))
  BY <1>3, <1>10, PopSane, IgnoredSane
<1>11. Sane(reset_the_insertion_mode_appropriately(PopThrough(s, {"select"})))
  BY PopThroughSane, ResetSane
<1>12. PICK before : before = Len(s.open) - 1
  OBVIOUS
<1>13. PICK closed : closed = IF before >= 1 /\ s.open[before].name = "optgroup"
                              THEN no_option ELSE s
  OBVIOUS
<1>14. Sane(IF CurrentIs(closed, {"optgroup"}) THEN Pop(closed) ELSE Ignored(closed))
  BY <1>10, <1>13
<1> QED BY <1>2, <1>4, <1>5, <1>6, <1>7, <1>8, <1>9, <1>11, <1>12, <1>13, <1>14 DEF in_select

\* The rules of the mode in_select_in_table.
LEMMA InSelectInTableSane ==
    ASSUME NEW D, Keeps(D), NEW s, Sane(s), NEW t \in Tokens
    PROVE  Sane(in_select_in_table(D, s, t))
<1>1. Sane(Again(act_as_if_an_end_tag_token_had_been_seen(D, s, "select")))
  <2>1. "select" \in Names
    BY NamesHave
  <2> QED BY <2>1, MadeUpSane, AgainSane
<1>2. Sane(OnBehalf(in_select(D, s, t))) /\ Sane(Ignored(s))
  BY InSelectSane, AgainSane, IgnoredSane
<1> QED BY <1>1, <1>2 DEF in_select_in_table

\* The rules of the modes after the body.
LEMMA AfterBodySane ==
    ASSUME NEW D, Keeps(D), NEW s, Sane(s), NEW t \in Tokens
    PROVE  Sane(after_body(D, s, t)) /\ Sane(after_after_body(D, s, t))
<1>1. Sane(OnBehalf(in_body(D, s, t)))
  BY InBodySane, AgainSane
<1>2. /\ Sane(Ignored(s)) /\ Sane(Write(s)) /\ Sane(HtmlStartTagInBody(s))
      /\ Sane(stop_parsing(s))
  BY IgnoredSane, WriteSane, StopSane DEF HtmlStartTagInBody
<1>3. "after_after_body" \in Modes /\ "in_body" \in Modes
  BY DEF Modes
<1>4. /\ Sane(switch_the_insertion_mode(s, "after_after_body"))
      /\ Sane(Again(switch_the_insertion_mode(s, "in_body")))
  BY <1>3, SwitchSane, AgainSane
<1>5. Sane(after_body(D, s, t))
  BY <1>1, <1>2, <1>4 DEF after_body
<1>6. Sane(after_after_body(D, s, t))
  BY <1>1, <1>2, <1>4 DEF after_after_body
<1> QED BY <1>5, <1>6

\* The rules of the mode in_frameset.
LEMMA InFramesetSane ==
    ASSUME NEW D, Keeps(D), NEW s, Sane(s), NEW t \in Tokens
    PROVE  Sane(in_frameset(D, s, t))
<1>1. t.name \in Names /\ "after_frameset" \in Modes
  BY TokenIs DEF Modes
<1>2. /\ Sane(Ignored(s)) /\ Sane(Write(s)) /\ Sane(HtmlStartTagInBody(s))
      /\ Sane(stop_parsing(s)) /\ Sane(Pop(s))
  BY IgnoredSane, WriteSane, StopSane, PopSane DEF HtmlStartTagInBody
<1>3. /\ IsStart(t, {"frameset"}) => Sane(insert_an_HTML_element(s, t.name))
      /\ IsStart(t, {"frame"}) => Sane(InsertAndPop(s, t.name))
  <2>1. IsStart(t, {"frameset"}) \/ IsStart(t, {"frame"}) => t.name \notin Coverings
    BY DEF IsStart, Coverings, Embedded, Cells
  <2> QED BY <2>1, <1>1, InsertSane, InsertAndPopSane
<1>4. Sane(OnBehalf(in_head(D, s, t)))
  BY InHeadSane, AgainSane
<1>5. PICK r : r = IF Len(s.open) = 1 THEN Ignored(s) ELSE Pop(s)
  OBVIOUS
<1>6. Sane(r) /\ Sane(switch_the_insertion_mode(r, "after_frameset"))
  BY <1>1, <1>2, <1>5, SwitchSane
<1> QED BY <1>2, <1>3, <1>4, <1>5, <1>6 DEF in_frameset

\* The rules of the modes after the frameset.
LEMMA AfterFramesetSane ==
    ASSUME NEW D, Keeps(D), NEW s, Sane(s), NEW t \in Tokens
    PROVE  Sane(after_frameset(D, s, t)) /\ Sane(after_after_frameset(D, s, t))
<1>1. /\ Sane(Ignored(s)) /\ Sane(Write(s)) /\ Sane(HtmlStartTagInBody(s))
      /\ Sane(stop_parsing(s))
  BY IgnoredSane, WriteSane, StopSane DEF HtmlStartTagInBody
<1>2. Sane(OnBehalf(in_head(D, s, t))) /\ Sane(OnBehalf(in_body(D, s, t)))
  BY InHeadSane, InBodySane, AgainSane
<1>3. Sane(switch_the_insertion_mode(s, "after_after_frameset"))
  <2>1. "after_after_frameset" \in Modes
    BY DEF Modes
  <2> QED BY <2>1, SwitchSane
<1>4. Sane(after_frameset(D, s, t))
  BY <1>1, <1>2, <1>3 DEF after_frameset
<1>5. Sane(after_after_frameset(D, s, t))
  BY <1>1, <1>2 DEF after_after_frameset
<1> QED BY <1>4, <1>5

\* The rules of whichever mode.
LEMMA RulesSane ==
    ASSUME NEW D, Keeps(D), NEW s, Sane(s), NEW t \in Tokens
    PROVE  Sane(Rules(D, s, t))
<1>1. s.mode \in Modes
  <2>1. s \in Trees
    BY SaneIs
  <2> QED BY <2>1 DEF Trees
<1>2. /\ Sane(initial(s, t)) /\ Sane(before_html(s, t)) /\ Sane(before_head(D, s, t))
      /\ Sane(in_head(D, s, t)) /\ Sane(in_head_noscript(D, s, t)) /\ Sane(after_head(D, s, t))
  BY InitialSane, BeforeHtmlSane, BeforeHeadSane, InHeadSane, InHeadNoscriptSane, AfterHeadSane
<1>3. /\ Sane(in_body(D, s, t)) /\ Sane(text(s, t)) /\ Sane(in_table(D, s, t))
      /\ Sane(in_table_text(s, t)) /\ Sane(in_caption(D, s, t))
      /\ Sane(in_column_group(D, s, t))
  BY InBodySane, TextSane, InTableSane, InTableTextSane, InCaptionSane, InColumnGroupSane
<1>4. /\ Sane(in_table_body(D, s, t)) /\ Sane(in_row(D, s, t)) /\ Sane(in_cell(D, s, t))
      /\ Sane(in_select(D, s, t)) /\ Sane(in_select_in_table(D, s, t))
  BY InTableBodySane, InRowSane, InCellSane, InSelectSane, InSelectInTableSane
<1>5. /\ Sane(after_body(D, s, t)) /\ Sane(in_frameset(D, s, t))
      /\ Sane(after_frameset(D, s, t)) /\ Sane(after_after_body(D, s, t))
      /\ Sane(after_after_frameset(D, s, t))
  BY AfterBodySane, InFramesetSane, AfterFramesetSane
<1> QED BY <1>1, <1>2, <1>3, <1>4, <1>5 DEF Rules, Modes

\* Dropping a line feed, or the rules.
LEMMA AppliedSane ==
    ASSUME NEW D, Keeps(D), NEW s, Sane(s), NEW t \in Tokens
    PROVE  Sane(apply_the_rules_for(D, s, t))
<1>1. PICK a : a = [s EXCEPT !.ignored = FALSE]
  OBVIOUS
<1>2. PICK b : b = [a EXCEPT !.reprocess = FALSE]
  OBVIOUS
<1>3. PICK c : c = [b EXCEPT !.ignore_line_feed = FALSE]
  OBVIOUS
<1>4. Sane(a)
  BY <1>1, FlagsSane
<1>5. Sane(b)
  BY <1>2, <1>4, FlagsSane
<1>6. Sane(c)
  BY <1>3, <1>5, FlagsSane
<1>7. c = [s EXCEPT !.ignored = FALSE, !.reprocess = FALSE, !.ignore_line_feed = FALSE]
  <2>1. s \in Trees
    BY SaneIs
  <2> QED BY <2>1, <1>1, <1>2, <1>3 DEF Trees
<1>8. Sane(Rules(D, c, t)) /\ Sane(Ignored(c))
  BY <1>6, RulesSane, IgnoredSane
<1> QED BY <1>7, <1>8 DEF apply_the_rules_for

\* If the dispatches inside it keep the lists so, a dispatch does.
LEMMA DispatchedKeeps ==
    ASSUME NEW D, Keeps(D)
    PROVE  Keeps(Dispatched(D))
<1>1. SUFFICES ASSUME NEW s \in Trees, NEW t \in Tokens, Sane(s)
               PROVE  Sane(Dispatched(D)[s][t])
  BY DEF Keeps
<1>2. PICK r : r = apply_the_rules_for(D, s, t)
  OBVIOUS
<1>3. Sane(r)
  BY <1>1, <1>2, AppliedSane
<1>4. Sane(Reprocessed(D, r, t))
  BY <1>3, SaneIs DEF Reprocessed, Keeps
<1>5. Dispatched(D)[s][t] = IF s.failure # "none" THEN s ELSE Reprocessed(D, r, t)
  BY <1>2 DEF Dispatched
<1> QED BY <1>1, <1>4, <1>5

\* A dispatch without room fails.
LEMMA UnboundedKeeps == Keeps(Unbounded)
<1>1. SUFFICES ASSUME NEW s \in Trees, NEW t \in Tokens, Sane(s)
               PROVE  Sane(Unbounded[s][t])
  BY DEF Keeps
<1>2. Unbounded[s][t] = Fail(s, "overflow")
  BY DEF Unbounded
<1> QED BY <1>1, <1>2, SaneIs, FailSane, FailuresHave

\* However deep the dispatches nest, each leaves the lists as they should be.
LEMMA WithinKeeps == \A n \in Nat : Keeps(DispatchedWithin[n])
<1>1. SUFFICES ASSUME NEW n \in Nat, ~Keeps(DispatchedWithin[n]) PROVE FALSE
  OBVIOUS
<1>2. PICK I : I = {k \in Nat : ~Keeps(DispatchedWithin[k])}
  OBVIOUS
<1>3. I \in SUBSET Nat /\ I # {}
  BY <1>1, <1>2
<1>4. PICK k : k = Min(I)
  OBVIOUS
<1>5. k \in I /\ \A i \in I : k <= i
  BY <1>3, <1>4, Least
<1>6. k \in Nat /\ ~Keeps(DispatchedWithin[k])
  BY <1>2, <1>5
<1>7. k # 0
  BY <1>6, UnboundedKeeps, DispatchedWithinRoom
<1>8. k - 1 \in Nat /\ k - 1 \notin I
  BY <1>5, <1>6, <1>7
<1>9. Keeps(DispatchedWithin[k - 1])
  BY <1>2, <1>8
<1>10. DispatchedWithin[k] = Dispatched(DispatchedWithin[k - 1])
  BY <1>6, <1>7, DispatchedWithinRoom
<1> QED BY <1>6, <1>9, <1>10, DispatchedKeeps

\* So the dispatcher keeps the lists, with any room.
LEMMA DispatcherSane ==
    ASSUME NEW s, Sane(s), NEW t \in Tokens
    PROVE  Sane(tree_construction_dispatcher(s, t))
<1>1. Keeps(DispatchedWithin[MaxDispatch])
  BY WithinKeeps, DispatchAssumption
<1> QED BY <1>1, SaneIs DEF Keeps, tree_construction_dispatcher

\* What the tokenizer is told, and tells, changes no list.
LEMMA ConstructedSane ==
    ASSUME NEW s, Sane(s), NEW t \in Tokens, tree \in Trees
    PROVE  Sane(Constructed(s, t))
<1>1. s \in Trees
  BY SaneIs
<1>2. PICK given : given = TS!Given(Stream, TS!Token(t.type, t.name, s.content))
  OBVIOUS
<1>3. given.content \in TS!Contents /\ given.last \in Names /\ given.ended \in BOOLEAN
  <2>1. /\ s.content \in TS!Contents /\ tree.content \in TS!Contents /\ tree.last \in Names
        /\ tree.ended \in BOOLEAN
    BY <1>1 DEF Trees
  <2>2. t.name \in Names
    BY TokenIs
  <2>3. "data" \in TS!Contents
    BY DEF TS!Contents
  <2> QED BY <2>1, <2>2, <2>3, <1>2 DEF TS!Given, TS!Token, Stream
<1>4. PICK r : r = Constructed(s, t)
  OBVIOUS
<1>5. r = [s EXCEPT !.ignored = FALSE, !.reprocess = FALSE, !.content = given.content,
                    !.last = given.last, !.ended = given.ended]
  BY <1>2, <1>4 DEF Constructed
<1>6. /\ r \in Trees /\ r.open = s.open /\ r.formatting = s.formatting /\ r.head = s.head
      /\ r.failure = s.failure
  BY <1>1, <1>3, <1>5 DEF Trees
<1> QED BY <1>4, <1>6, SaneFrame

-------------------------------------------------------------------------------
(* The theorems *)

IInv == Sane(tree) /\ vocabulary \in Vocabularies

\* Nothing is open at first.
LEMMA InitSane == Init => IInv
<1>1. SUFFICES ASSUME Init PROVE IInv
  OBVIOUS
<1>2. PICK nothing : nothing = <<>>
  OBVIOUS
<1>3. nothing \in Seq(Elements) /\ Len(nothing) = 0
  BY <1>2
<1>4. NoElement \in Elements /\ NoElement.name = "none"
  <2>1. "none" \in Names
    BY NamesHave
  <2> QED BY <2>1 DEF NoElement, Elements
<1>5. tree = [mode |-> "initial", original |-> "initial", open |-> nothing,
              formatting |-> nothing, head |-> NoElement, form |-> NoElement,
              frameset_ok |-> TRUE, ignore_line_feed |-> FALSE, pending |-> {},
              quirks |-> FALSE, content |-> "data", last |-> "none", ended |-> FALSE,
              stopped |-> FALSE, ignored |-> FALSE, reprocess |-> FALSE, failure |-> "none"]
  BY <1>1, <1>2 DEF Init
<1>6. tree \in Trees
  <2>1. /\ "initial" \in Modes /\ "data" \in TS!Contents /\ "none" \in Names
        /\ "none" \in Failures
    BY NamesHave DEF Modes, TS!Contents, Failures
  <2> QED BY <2>1, <1>3, <1>4, <1>5 DEF Trees
<1>7. /\ tree.open = nothing /\ tree.formatting = nothing /\ tree.head.name = "none"
  BY <1>4, <1>5
<1>8. Lists(nothing, nothing)
  BY <1>3 DEF Lists, Kinds, Nested, Ark
<1>9. Covered(nothing, nothing)
  <2>1. At(nothing, Covering) = {} /\ At(nothing, {Marker}) = {}
    BY <1>2 DEF At
  <2>2. Cardinality({}) \in Nat
    BY FS_EmptySet
  <2> QED BY <2>1, <2>2 DEF Covered, Covers, Markers
<1>10. vocabulary \in Vocabularies
  BY <1>1 DEF Init
<1> QED BY <1>6, <1>7, <1>8, <1>9, <1>10 DEF IInv, Sane, Whole

\* One token.
LEMMA WriteElementSane ==
    ASSUME NEW t \in Tokens, IInv, write_element(t)
    PROVE  IInv'
<1>1. Sane(tree) /\ vocabulary' \in Vocabularies
  BY DEF IInv, write_element
<1>2. tree \in Trees
  BY <1>1, SaneIs
<1>3. PICK r : r = Constructed(tree_construction_dispatcher(tree, t), t)
  OBVIOUS
<1>4. Sane(r)
  BY <1>1, <1>2, <1>3, DispatcherSane, ConstructedSane
<1>5. tree' = r
  BY <1>3 DEF write_element
<1>6. Sane(tree')
  BY <1>4, <1>5
<1>7. Sane(tree)'
  BY <1>6 DEF Sane, Whole
<1> QED BY <1>1, <1>7 DEF IInv

\* Every step writes one token, or none.
LEMMA NextTakesToken ==
    ASSUME IInv, [Next]_vars
    PROVE  \E t \in Tokens : write_element(t) \/ UNCHANGED vars
<1>1. tree.last \in Names /\ vocabulary \in Vocabularies
  <2>1. tree \in Trees
    BY SaneIs DEF IInv
  <2> QED BY <2>1 DEF IInv, Trees
<1>2. vocabulary.start \subseteq Names /\ vocabulary.end \subseteq Names
  <2>1. vocabulary.start \cup vocabulary.end \in {v.start \cup v.end : v \in Vocabularies}
    BY <1>1
  <2> QED BY <2>1 DEF Names
<1>3. DocTypes \subseteq Names /\ "" \in Names
  BY DEF Names
<1>4. CASE Start
  <2>1. PICK name \in vocabulary.start, self \in BOOLEAN :
            write_element([type |-> "start", name |-> name, self |-> self])
    BY <1>4 DEF Start
  <2>2. [type |-> "start", name |-> name, self |-> self] \in Tokens
    BY <2>1, <1>2 DEF Tokens
  <2> QED BY <2>1, <2>2
<1>5. CASE End
  <2>1. PICK name \in vocabulary.end \cup {tree.last} : write_element(EndTag(name))
    BY <1>5 DEF End
  <2>2. EndTag(name) \in Tokens
    BY <2>1, <1>1, <1>2, TagsAre
  <2> QED BY <2>1, <2>2
<1>6. CASE Character
  <2>1. PICK c \in Characters : write_element([type |-> "character", name |-> c, self |-> FALSE])
    BY <1>6 DEF Character
  <2>2. [type |-> "character", name |-> c, self |-> FALSE] \in Tokens
    BY <2>1 DEF Tokens
  <2> QED BY <2>1, <2>2
<1>7. CASE Comment
  <2>1. [type |-> "comment", name |-> "", self |-> FALSE] \in Tokens
    BY <1>3 DEF Tokens
  <2> QED BY <2>1, <1>7 DEF Comment
<1>8. CASE Doctype
  <2>1. PICK d \in DocTypes : write_element([type |-> "doctype", name |-> d, self |-> FALSE])
    BY <1>8 DEF Doctype
  <2>2. [type |-> "doctype", name |-> d, self |-> FALSE] \in Tokens
    BY <2>1, <1>3 DEF Tokens
  <2> QED BY <2>1, <2>2
<1>9. CASE EndOfFile
  <2>1. [type |-> "eof", name |-> "", self |-> FALSE] \in Tokens
    BY <1>3 DEF Tokens
  <2> QED BY <2>1, <1>9 DEF EndOfFile
<1>10. CASE UNCHANGED vars
  <2>1. [type |-> "comment", name |-> "", self |-> FALSE] \in Tokens
    BY <1>3 DEF Tokens
  <2> QED BY <2>1, <1>10
<1> QED BY <1>4, <1>5, <1>6, <1>7, <1>8, <1>9, <1>10 DEF Next

\* Every step keeps the invariant.
LEMMA NextSane == IInv /\ [Next]_vars => IInv'
<1>1. SUFFICES ASSUME IInv, [Next]_vars PROVE IInv'
  OBVIOUS
<1>2. PICK t \in Tokens : write_element(t) \/ UNCHANGED vars
  BY <1>1, NextTakesToken
<1>3. CASE write_element(t)
  BY <1>1, <1>3, WriteElementSane
<1>4. CASE UNCHANGED vars
  BY <1>1, <1>4 DEF vars, IInv, Sane, Whole
<1> QED BY <1>2, <1>3, <1>4

\* The lists are always as the inductive invariant says, whatever the document.
THEOREM TreeSafety == Spec => []IInv
BY InitSane, NextSane, PTL DEF Spec

\* Modes, lists and pointers of the constructor keep their types: reprocessing, the made-up
\* tokens and the adoption agency never leave anything in a list that is no element.
THEOREM TreeTypes == Spec => []TypeOK
<1>1. IInv => TypeOK
  BY SaneIs DEF IInv, TypeOK
<1> QED BY <1>1, TreeSafety, PTL

\* Of two open formatting elements the one listed before a marker stays outside of the one
\* listed after it, through every clone, move and reopening.
THEOREM TreeContexts == Spec => []ContextsNest
<1>1. IInv => ContextsNest
  <2>1. SUFFICES ASSUME IInv,
                        NEW i \in DOMAIN tree.formatting, NEW j \in DOMAIN tree.formatting,
                        NEW p \in DOMAIN tree.open, NEW q \in DOMAIN tree.open,
                        NEW m \in i + 1 .. j - 1, tree.formatting[m] = Marker,
                        tree.open[p] = tree.formatting[i], tree.open[q] = tree.formatting[j]
                 PROVE  p < q
    BY DEF ContextsNest
  <2>2. /\ tree.open \in Seq(Elements) /\ tree.formatting \in Seq(Elements)
        /\ Nested(tree.open, tree.formatting)
    BY <2>1, SaneIs DEF IInv, Lists
  <2>3. DOMAIN tree.formatting = 1 .. Len(tree.formatting) /\ DOMAIN tree.open = 1 .. Len(tree.open)
    BY <2>2
  <2>4. Apart(tree.formatting, i, j)
    <3>1. i \in 1 .. Len(tree.formatting) /\ j \in 1 .. Len(tree.formatting)
      BY <2>3
    <3>2. m \in 1 .. Len(tree.formatting) /\ i < m /\ m < j
      BY <3>1, <2>2
    <3> QED BY <3>2, <2>1 DEF Apart
  <2> QED BY <2>1, <2>2, <2>3, <2>4 DEF Nested
<1> QED BY <1>1, TreeSafety, PTL

\* A finite set without four different members has three at most.
LEMMA ThreeAtMost ==
    ASSUME NEW S, IsFiniteSet(S),
           \A a, b, c, d \in S : ~(a # b /\ a # c /\ a # d /\ b # c /\ b # d /\ c # d)
    PROVE  Cardinality(S) <= 3
<1>1. SUFFICES ASSUME Cardinality(S) > 3 PROVE FALSE
  BY FS_CardinalityType
<1>2. ASSUME NEW T, IsFiniteSet(T), NEW n \in Nat, Cardinality(T) > n
      PROVE  \E a \in T : IsFiniteSet(T \ {a}) /\ Cardinality(T \ {a}) > n - 1
  <2>1. Cardinality(T) \in Nat
    BY <1>2, FS_CardinalityType
  <2>2. T # {}
    BY <1>2, <2>1, FS_EmptySet
  <2>3. PICK a : a \in T
    BY <2>2
  <2>4. IsFiniteSet(T \ {a}) /\ Cardinality(T \ {a}) = Cardinality(T) - 1
    BY <1>2, <2>3, FS_RemoveElement
  <2>5. Cardinality(T) - 1 > n - 1
    BY <1>2, <2>1
  <2>6. Cardinality(T \ {a}) > n - 1
    BY <2>4, <2>5
  <2> QED BY <2>3, <2>4, <2>6
<1>3. PICK a \in S : IsFiniteSet(S \ {a}) /\ Cardinality(S \ {a}) > 2
  BY <1>1, <1>2
<1>4. PICK b \in S \ {a} : IsFiniteSet((S \ {a}) \ {b}) /\ Cardinality((S \ {a}) \ {b}) > 1
  BY <1>2, <1>3
<1>5. PICK c \in (S \ {a}) \ {b} : /\ IsFiniteSet(((S \ {a}) \ {b}) \ {c})
                                   /\ Cardinality(((S \ {a}) \ {b}) \ {c}) > 0
  BY <1>2, <1>4
<1>6. PICK d : d \in ((S \ {a}) \ {b}) \ {c}
  BY <1>5, FS_EmptySet
<1> QED BY <1>3, <1>4, <1>5, <1>6

\* At most three like elements are listed with no marker between them.
THEOREM TreeNoahsArk == Spec => []NoahsArk
<1>1. IInv => NoahsArk
  <2>1. SUFFICES ASSUME IInv, NEW i \in DOMAIN tree.formatting,
                        NEW like, like = {j \in i .. Len(tree.formatting) :
                            /\ tree.formatting[j].name = tree.formatting[i].name
                            /\ \A m \in i .. j : tree.formatting[m] # Marker}
                 PROVE  Cardinality(like) <= 3
    BY DEF NoahsArk
  <2>2. /\ tree.formatting \in Seq(Elements) /\ Len(tree.formatting) \in Nat
        /\ Ark(tree.formatting)
    BY <2>1, SaneIs DEF IInv, Lists
  <2>3. i \in 1 .. Len(tree.formatting)
    BY <2>2
  <2>4. \A j \in like : /\ j \in 1 .. Len(tree.formatting) /\ i <= j
                        /\ tree.formatting[j].name = tree.formatting[i].name
                        /\ \A m \in i .. j : tree.formatting[m] # Marker
    BY <2>1, <2>2, <2>3
  <2>5. IsFiniteSet(like)
    <3>1. IsFiniteSet(1 .. Len(tree.formatting))
      BY <2>2, FS_Interval
    <3>2. like \subseteq 1 .. Len(tree.formatting)
      BY <2>4
    <3> QED BY <3>1, <3>2, FS_Subset
  <2>6. ASSUME NEW a \in like, NEW b \in like PROVE Alike(tree.formatting, a, b)
    <3>1. tree.formatting[a] # Marker /\ tree.formatting[b] # Marker
      BY <2>3, <2>4
    <3>2. tree.formatting[a].name = tree.formatting[b].name
      BY <2>4
    <3>3. ASSUME NEW m \in 1 .. Len(tree.formatting), tree.formatting[m] = Marker
          PROVE  m < a <=> m < b
      <4>1. ~(m \in i .. a) /\ ~(m \in i .. b)
        BY <3>3, <2>4
      <4> QED BY <4>1, <2>2, <2>3, <2>4
    <3> QED BY <3>1, <3>2, <3>3 DEF Alike
  <2>7. ASSUME NEW a \in like, NEW b \in like, NEW c \in like, NEW d \in like,
               a # b /\ a # c /\ a # d /\ b # c /\ b # d /\ c # d
        PROVE  FALSE
    <3>1. Four(tree.formatting, a, b, c, d)
      BY <2>6, <2>7 DEF Four
    <3> QED BY <3>1, <2>2, <2>4 DEF Ark
  <2> QED BY <2>5, <2>7, ThreeAtMost
<1> QED BY <1>1, TreeSafety, PTL

\* While the parsing runs there is a marker for every open cell, caption and embedded object.
THEOREM TreeMarkers == Spec => []MarkersCover
<1>1. IInv => MarkersCover
  <2>1. SUFFICES ASSUME IInv, Running
                 PROVE  Cardinality({i \in DOMAIN tree.formatting : tree.formatting[i] = Marker})
                        >= Cardinality({i \in DOMAIN tree.open :
                               tree.open[i].name \in Embedded \cup Cells \cup {"caption"}})
    BY DEF MarkersCover
  <2>2. /\ tree.open \in Seq(Elements) /\ tree.formatting \in Seq(Elements)
        /\ Covers(tree.open) <= Markers(tree.formatting)
    BY <2>1, SaneIs DEF IInv, Sane, Covered, Running
  <2>3. At(tree.formatting, {Marker}) = {i \in DOMAIN tree.formatting : tree.formatting[i] = Marker}
    BY DEF At
  <2>4. At(tree.open, Covering) = {i \in DOMAIN tree.open :
            tree.open[i].name \in Embedded \cup Cells \cup {"caption"}}
    <3>1. \A i \in DOMAIN tree.open : tree.open[i] \in Elements
      BY <2>2
    <3> QED BY <3>1 DEF At, Covering, Coverings
  <2>5. Covers(tree.open) \in Nat /\ Markers(tree.formatting) \in Nat
    BY <2>2, CoversIsNat
  <2>6. Markers(tree.formatting) >= Covers(tree.open)
    BY <2>2, <2>5
  <2> QED BY <2>3, <2>4, <2>6 DEF Markers, Covers
<1> QED BY <1>1, TreeSafety, PTL

-------------------------------------------------------------------------------
(* The end of the file *)

\* What becomes of the end of the file: the parsing stops, fails, or goes on with it.
Ends(r) == r.stopped \/ r.failure # "none" \/ r.reprocess

\* A dispatcher stops at the end of the file, and closes a column group when it is told to.
StopsAtEof(D) ==
    \A s \in Trees, t \in Tokens : Sane(s) =>
        /\ t.type = "eof" => D[s][t].stopped \/ D[s][t].failure # "none"
        /\ s.mode = "in_column_group" /\ t = EndTag("colgroup") /\ Len(s.open) # 1 =>
               D[s][t].failure # "none" \/ ~D[s][t].ignored

\* What stops the parsing, whoever asks for it, or has the token reprocessed ends it.
LEMMA StopEnds ==
    ASSUME NEW s, s \in Trees
    PROVE  Ends(stop_parsing(s)) /\ Ends(OnBehalf(stop_parsing(s))) /\ Ends(Again(s))
           /\ Ends(OnBehalf(OnBehalf(stop_parsing(s))))
BY DEF Ends, stop_parsing, OnBehalf, Again, Trees

\* The end of the file is no tag and no character.
LEMMA EofTag ==
    ASSUME NEW t, t.type = "eof"
    PROVE  /\ \A names : ~IsStart(t, names) /\ ~IsEnd(t, names)
           /\ ~IsSpace(t) /\ ~IsNull(t)
BY DEF IsStart, IsEnd, IsSpace, IsNull

\* The modes before the body have the end of the file reprocessed.
LEMMA HeadEnds ==
    ASSUME NEW D, Keeps(D), NEW s, Sane(s), NEW t \in Tokens, t.type = "eof"
    PROVE  /\ Ends(initial(s, t)) /\ Ends(before_html(s, t)) /\ Ends(before_head(D, s, t))
           /\ Ends(in_head(D, s, t)) /\ Ends(in_head_noscript(D, s, t))
           /\ Ends(after_head(D, s, t))
<1>1. s \in Trees
  BY SaneIs
<1>2. /\ \A names : ~IsStart(t, names) /\ ~IsEnd(t, names)
      /\ ~IsSpace(t) /\ ~IsNull(t)
  BY EofTag
<1>3. ASSUME NEW r, Sane(r) PROVE Ends(Again(r))
  BY <1>3, SaneIs, StopEnds
<1>4. Ends(initial(s, t))
  <2>1. PICK r : r = switch_the_insertion_mode(s, "before_html")
    OBVIOUS
  <2>2. r \in Trees
    BY <2>1, <1>1, SwitchSane, SaneIs DEF Modes
  <2>3. initial(s, t) = Again([r EXCEPT !.quirks = TRUE])
    BY <1>2, <2>1 DEF initial
  <2> QED BY <2>2, <2>3 DEF Ends, Again, Trees
<1>5. Ends(before_html(s, t))
  <2>1. before_html(s, t) = Again(HtmlOpened(s))
    BY <1>2 DEF before_html
  <2>2. Sane(HtmlOpened(s))
    BY HtmlOpenedSane
  <2> QED BY <2>1, <2>2, <1>3
<1>6. /\ Sane(act_as_if_a_start_tag_token_had_been_seen(D, s, "head"))
      /\ Sane(act_as_if_an_end_tag_token_had_been_seen(D, s, "head"))
      /\ Sane(act_as_if_an_end_tag_token_had_been_seen(D, s, "noscript"))
      /\ Sane(act_as_if_a_start_tag_token_had_been_seen(D, s, "body"))
  BY MadeUpSane, NamesHave
<1>7. Ends(before_head(D, s, t))
  <2>1. before_head(D, s, t) = Again(act_as_if_a_start_tag_token_had_been_seen(D, s, "head"))
    BY <1>2 DEF before_head
  <2> QED BY <2>1, <1>3, <1>6
<1>8. Ends(in_head(D, s, t))
  <2>1. in_head(D, s, t) = Again(act_as_if_an_end_tag_token_had_been_seen(D, s, "head"))
    BY <1>2 DEF in_head
  <2> QED BY <2>1, <1>3, <1>6
<1>9. Ends(in_head_noscript(D, s, t))
  <2>1. in_head_noscript(D, s, t) =
            Again(act_as_if_an_end_tag_token_had_been_seen(D, s, "noscript"))
    BY <1>2 DEF in_head_noscript
  <2> QED BY <2>1, <1>3, <1>6
<1>10. Ends(after_head(D, s, t))
  <2>1. PICK r : r = act_as_if_a_start_tag_token_had_been_seen(D, s, "body")
    OBVIOUS
  <2>2. after_head(D, s, t) = Again([r EXCEPT !.frameset_ok = TRUE])
    BY <1>2, <2>1 DEF after_head
  <2>3. r \in Trees
    BY <1>6, <2>1, SaneIs
  <2> QED BY <2>2, <2>3 DEF Ends, Again, Trees
<1> QED BY <1>4, <1>5, <1>7, <1>8, <1>9, <1>10

\* The modes of the body stop at it, or go back to another mode with it.
LEMMA BodyEnds ==
    ASSUME NEW D, Keeps(D), NEW s, Sane(s), NEW t \in Tokens, t.type = "eof"
    PROVE  /\ in_body(D, s, t) = stop_parsing(s) /\ in_table(D, s, t) = stop_parsing(s)
           /\ in_select(D, s, t) = stop_parsing(s)
           /\ Ends(text(s, t)) /\ Ends(in_table_text(s, t))
<1>1. s \in Trees
  BY SaneIs
<1>2. /\ \A names : ~IsStart(t, names) /\ ~IsEnd(t, names)
      /\ ~IsSpace(t) /\ ~IsNull(t)
  BY EofTag
<1>3. in_body(D, s, t) = stop_parsing(s)
  BY <1>2 DEF in_body
<1>4. in_table(D, s, t) = stop_parsing(s)
  BY <1>2 DEF in_table
<1>5. in_select(D, s, t) = stop_parsing(s)
  BY <1>2 DEF in_select
<1>6. s.original \in Modes
  BY <1>1 DEF Trees
<1>7. Ends(text(s, t))
  <2>1. text(s, t) = Again(switch_the_insertion_mode(Pop(s), s.original))
    BY <1>2 DEF text
  <2>2. Sane(switch_the_insertion_mode(Pop(s), s.original))
    BY <1>6, PopSane, SwitchSane
  <2> QED BY <2>1, <2>2, SaneIs, StopEnds
<1>8. Ends(in_table_text(s, t))
  <2>1. PICK r : r = IF s.pending \subseteq {"space", "line feed"} /\ s.pending # {}
                     THEN Write(s)
                     ELSE in_table_insertion_mode_anything_else(s)
    OBVIOUS
  <2>2. in_table_text(s, t) = Again(switch_the_insertion_mode(r, s.original))
    BY <1>2, <2>1 DEF in_table_text
  <2>3. Sane(r)
    BY <2>1, WriteSane DEF in_table_insertion_mode_anything_else
  <2>4. Sane(switch_the_insertion_mode(r, s.original))
    BY <1>6, <2>3, SwitchSane
  <2> QED BY <2>2, <2>4, SaneIs, StopEnds
<1> QED BY <1>3, <1>4, <1>5, <1>7, <1>8

\* A column group stops at it or is closed by a made-up end tag, which may not be
\* ignored.
LEMMA ColumnGroupEnds ==
    ASSUME NEW D, Keeps(D), StopsAtEof(D), NEW s, Sane(s), s.mode = "in_column_group",
           NEW t \in Tokens, t.type = "eof"
    PROVE  Ends(in_column_group(D, s, t))
<1>1. s \in Trees
  BY SaneIs
<1>2. /\ \A names : ~IsStart(t, names) /\ ~IsEnd(t, names)
      /\ ~IsSpace(t) /\ ~IsNull(t)
  BY EofTag
<1>3. CASE s.open # <<>> /\ Len(s.open) = 1
  <2>1. in_column_group(D, s, t) = stop_parsing(s)
    BY <1>2, <1>3 DEF in_column_group
  <2> QED BY <2>1, <1>1, StopEnds
<1>4. CASE ~(s.open # <<>> /\ Len(s.open) = 1)
  <2>1. PICK r : r = D[s][EndTag("colgroup")]
    OBVIOUS
  <2>2. in_column_group(D, s, t) = AgainUnlessIgnored(r)
    BY <1>2, <1>4, <2>1 DEF in_column_group, EndThenAgain
  <2>3. EndTag("colgroup") \in Tokens
    BY TagsAre, NamesHave
  <2>4. Len(s.open) # 1
    <3>1. CASE s.open = <<>>
      <4>1. Len(<<>>) = 0
        OBVIOUS
      <4>2. Len(s.open) = 0
        BY <3>1, <4>1, Zenon
      <4> QED BY <4>2
    <3>2. CASE Len(s.open) # 1
      BY <3>2
    <3> QED BY <3>1, <3>2, <1>4, Zenon
  <2>5. r.failure # "none" \/ ~r.ignored
    BY <1>1, <2>1, <2>3, <2>4 DEF StopsAtEof
  <2>6. r \in Trees
    <3>1. Sane(r)
      BY <1>1, <2>1, <2>3 DEF Keeps
    <3> QED BY <3>1, SaneIs
  <2> QED BY <2>2, <2>5, <2>6 DEF AgainUnlessIgnored, Ends, Trees
<1> QED BY <1>3, <1>4

\* The modes inside a table and after the body stop at it as in_body or in_table do.
LEMMA TableEnds ==
    ASSUME NEW D, Keeps(D), NEW s, Sane(s), NEW t \in Tokens, t.type = "eof"
    PROVE  /\ Ends(in_caption(D, s, t)) /\ Ends(in_table_body(D, s, t))
           /\ Ends(in_row(D, s, t)) /\ Ends(in_cell(D, s, t))
           /\ Ends(in_select_in_table(D, s, t)) /\ Ends(after_body(D, s, t))
           /\ Ends(in_frameset(D, s, t)) /\ Ends(after_frameset(D, s, t))
           /\ Ends(after_after_body(D, s, t)) /\ Ends(after_after_frameset(D, s, t))
<1>1. s \in Trees
  BY SaneIs
<1>2. /\ \A names : ~IsStart(t, names) /\ ~IsEnd(t, names)
      /\ ~IsSpace(t) /\ ~IsNull(t)
  BY EofTag
<1>3. /\ in_body(D, s, t) = stop_parsing(s) /\ in_table(D, s, t) = stop_parsing(s)
      /\ in_select(D, s, t) = stop_parsing(s)
  BY BodyEnds
<1>4. Ends(stop_parsing(s)) /\ Ends(OnBehalf(stop_parsing(s)))
  BY <1>1, StopEnds
<1>5. Ends(in_caption(D, s, t)) /\ Ends(in_cell(D, s, t))
  BY <1>2, <1>3, <1>4 DEF in_caption, in_cell
<1>6. Ends(in_table_body(D, s, t)) /\ Ends(in_row(D, s, t))
  BY <1>2, <1>3, <1>4 DEF in_table_body, in_row
<1>7. Ends(in_select_in_table(D, s, t))
  BY <1>2, <1>3, <1>4 DEF in_select_in_table
<1>8. Ends(after_body(D, s, t)) /\ Ends(in_frameset(D, s, t))
  BY <1>2, <1>4 DEF after_body, in_frameset
<1>9. Ends(after_frameset(D, s, t)) /\ Ends(after_after_body(D, s, t))
  BY <1>2, <1>4 DEF after_frameset, after_after_body
<1>10. Ends(after_after_frameset(D, s, t))
  BY <1>2, <1>4 DEF after_after_frameset
<1> QED BY <1>5, <1>6, <1>7, <1>8, <1>9, <1>10

\* So the rules of every mode end it.
LEMMA RulesEnd ==
    ASSUME NEW D, Keeps(D), StopsAtEof(D), NEW s, Sane(s), NEW t \in Tokens, t.type = "eof"
    PROVE  Ends(Rules(D, s, t))
<1>1. s \in Trees /\ s.mode \in Modes
  <2>1. s \in Trees
    BY SaneIs
  <2> QED BY <2>1 DEF Trees
<1>2. Ends(stop_parsing(s))
  BY <1>1, StopEnds
<1>3. /\ Ends(in_body(D, s, t)) /\ Ends(in_table(D, s, t)) /\ Ends(in_select(D, s, t))
      /\ Ends(text(s, t)) /\ Ends(in_table_text(s, t))
  BY <1>2, BodyEnds
<1>4. s.mode = "in_column_group" => Ends(in_column_group(D, s, t))
  BY ColumnGroupEnds
<1> QED BY <1>1, <1>3, <1>4, HeadEnds, TableEnds DEF Rules, Modes

\* A dispatcher of which each reprocessing stops at the end of the file stops there too.
LEMMA DispatchedStops ==
    ASSUME NEW D, Keeps(D), StopsAtEof(D)
    PROVE  StopsAtEof(Dispatched(D))
<1>1. SUFFICES ASSUME NEW s \in Trees, NEW t \in Tokens, Sane(s)
               PROVE  /\ t.type = "eof" => \/ Dispatched(D)[s][t].stopped
                                           \/ Dispatched(D)[s][t].failure # "none"
                      /\ s.mode = "in_column_group" /\ t = EndTag("colgroup")
                            /\ Len(s.open) # 1 =>
                             \/ Dispatched(D)[s][t].failure # "none"
                             \/ ~Dispatched(D)[s][t].ignored
  BY DEF StopsAtEof
<1>2. PICK r : r = apply_the_rules_for(D, s, t)
  OBVIOUS
<1>3. Sane(r) /\ r \in Trees
  BY <1>1, <1>2, AppliedSane, SaneIs
<1>4. Dispatched(D)[s][t] = IF s.failure # "none" THEN s ELSE Reprocessed(D, r, t)
  BY <1>2 DEF Dispatched
<1>5. PICK u : u = [s EXCEPT !.ignored = FALSE, !.reprocess = FALSE, !.ignore_line_feed = FALSE]
  OBVIOUS
<1>6. Sane(u) /\ u.mode = s.mode /\ u.open = s.open /\ ~u.ignored /\ ~u.reprocess
  <2>1. PICK a : a = [s EXCEPT !.ignored = FALSE]
    OBVIOUS
  <2>2. PICK b : b = [a EXCEPT !.reprocess = FALSE]
    OBVIOUS
  <2>3. PICK c : c = [b EXCEPT !.ignore_line_feed = FALSE]
    OBVIOUS
  <2>4. Sane(a)
    BY <1>1, <2>1, FlagsSane
  <2>5. Sane(b)
    BY <2>2, <2>4, FlagsSane
  <2>6. Sane(c)
    BY <2>3, <2>5, FlagsSane
  <2>7. c = u
    BY <1>1, <1>5, <2>1, <2>2, <2>3 DEF Trees
  <2>8. u.mode = s.mode /\ u.open = s.open /\ ~u.ignored /\ ~u.reprocess
    BY <1>1, <1>5 DEF Trees
  <2> QED BY <2>6, <2>7, <2>8
<1>7. t.type # "character" => r = Rules(D, u, t)
  BY <1>2, <1>5 DEF apply_the_rules_for
<1>8. ASSUME t.type = "eof", s.failure = "none"
      PROVE  Dispatched(D)[s][t].stopped \/ Dispatched(D)[s][t].failure # "none"
  <2>1. Ends(r)
    BY <1>6, <1>7, <1>8, RulesEnd
  <2>2. CASE r.reprocess
    <3>1. Dispatched(D)[s][t] = D[r][t]
      BY <1>4, <1>8, <2>2 DEF Reprocessed
    <3> QED BY <3>1, <1>3, <1>8 DEF StopsAtEof
  <2>3. CASE ~r.reprocess
    <3>1. Dispatched(D)[s][t] = r
      BY <1>4, <1>8, <2>3 DEF Reprocessed
    <3> QED BY <3>1, <2>1, <2>3 DEF Ends
  <2> QED BY <2>2, <2>3
<1>9. ASSUME s.mode = "in_column_group", t = EndTag("colgroup"), Len(s.open) # 1,
             s.failure = "none"
      PROVE  ~Dispatched(D)[s][t].ignored
  <2>1. t.type = "end" /\ t.name = "colgroup"
    BY <1>9 DEF EndTag
  <2>2. r = Rules(D, u, t)
    BY <1>7, <2>1
  <2>3. r = in_column_group(D, u, t)
    BY <2>2, <1>6, <1>9 DEF Rules
  <2>4. r = u \/ r = switch_the_insertion_mode(Pop(u), "in_table")
    BY <2>1, <2>3, <1>6, <1>9 DEF in_column_group, IsStart, IsEnd, IsSpace
  <2>5. u \in Trees
    BY <1>6, SaneIs
  <2>6. ~r.ignored /\ ~r.reprocess
    <3>1. CASE r = u
      BY <3>1, <1>6
    <3>2. CASE r = switch_the_insertion_mode(Pop(u), "in_table")
      <4>1. PICK w : w = Pop(u)
        OBVIOUS
      <4>2. w \in Trees
        BY <4>1, <1>6, PopSane, SaneIs
      <4>3. ~w.ignored /\ ~w.reprocess
        BY <4>1, <2>5, <1>6 DEF Pop, Fail, Shrunk, Trees
      <4> QED BY <3>2, <4>1, <4>2, <4>3 DEF switch_the_insertion_mode, Trees
    <3> QED BY <2>4, <3>1, <3>2
  <2>7. Dispatched(D)[s][t] = r
    BY <1>4, <1>9, <2>6 DEF Reprocessed
  <2> QED BY <2>6, <2>7
<1> QED BY <1>4, <1>8, <1>9

\* Without room it fails
LEMMA UnboundedStops == StopsAtEof(Unbounded)
<1>1. SUFFICES ASSUME NEW s \in Trees, NEW t \in Tokens
               PROVE  Unbounded[s][t].failure # "none"
  BY DEF StopsAtEof
<1>2. Unbounded[s][t] = Fail(s, "overflow")
  BY DEF Unbounded
<1> QED BY <1>2 DEF Fail, Trees

\* and so with any room it stops or fails.
LEMMA WithinStops == \A n \in Nat : StopsAtEof(DispatchedWithin[n])
<1>1. SUFFICES ASSUME NEW n \in Nat, ~StopsAtEof(DispatchedWithin[n]) PROVE FALSE
  OBVIOUS
<1>2. PICK I : I = {k \in Nat : ~StopsAtEof(DispatchedWithin[k])}
  OBVIOUS
<1>3. I \in SUBSET Nat /\ I # {}
  BY <1>1, <1>2
<1>4. PICK k : k = Min(I)
  OBVIOUS
<1>5. k \in I /\ \A i \in I : k <= i
  BY <1>3, <1>4, Least
<1>6. k \in Nat /\ ~StopsAtEof(DispatchedWithin[k])
  BY <1>2, <1>5
<1>7. k # 0
  BY <1>6, UnboundedStops, DispatchedWithinRoom
<1>8. k - 1 \in Nat /\ k - 1 \notin I
  BY <1>5, <1>6, <1>7
<1>9. StopsAtEof(DispatchedWithin[k - 1])
  BY <1>2, <1>8
<1>10. DispatchedWithin[k] = Dispatched(DispatchedWithin[k - 1])
  BY <1>6, <1>7, DispatchedWithinRoom
<1> QED BY <1>6, <1>8, <1>9, <1>10, WithinKeeps, DispatchedStops

\* The stream ends with the token that stops the parsing.
LEMMA WriteElementStops ==
    ASSUME NEW t \in Tokens, IInv, EofStops, write_element(t)
    PROVE  EofStops'
<1>1. Sane(tree) /\ tree \in Trees
  BY SaneIs DEF IInv
<1>2. PICK s : s = tree_construction_dispatcher(tree, t)
  OBVIOUS
<1>3. s \in Trees
  BY <1>1, <1>2, DispatcherSane, SaneIs
<1>4. PICK given : given = TS!Given(Stream, TS!Token(t.type, t.name, s.content))
  OBVIOUS
<1>5. given.ended = (tree.ended \/ t.type = "eof") /\ ~tree.ended
  BY <1>4 DEF TS!Given, TS!Token, TS!Legal, Stream, write_element
<1>6. tree' = [s EXCEPT !.ignored = FALSE, !.reprocess = FALSE, !.content = given.content,
                        !.last = given.last, !.ended = given.ended]
  BY <1>2, <1>4 DEF Constructed, write_element
<1>7. tree'.ended = given.ended /\ tree'.stopped = s.stopped /\ tree'.failure = s.failure
  BY <1>3, <1>6 DEF Trees
<1>8. t.type = "eof" => s.stopped \/ s.failure # "none"
  <2>1. StopsAtEof(DispatchedWithin[MaxDispatch])
    BY WithinStops, DispatchAssumption
  <2> QED BY <2>1, <1>1, <1>2 DEF StopsAtEof, tree_construction_dispatcher
<1> QED BY <1>5, <1>7, <1>8 DEF EofStops

\* The end of the file always ends the parsing: every mode answers it by stopping, or changes
\* the mode and has it reprocessed, and a column group that cannot be closed stops as well.
THEOREM TreeStops == Spec => []EofStops
<1>1. Init => EofStops
  BY DEF Init, EofStops
<1>2. ASSUME IInv, EofStops, [Next]_vars PROVE EofStops'
  <2>1. PICK t \in Tokens : write_element(t) \/ UNCHANGED vars
    BY <1>2, NextTakesToken
  <2>2. CASE write_element(t)
    BY <1>2, <2>2, WriteElementStops
  <2>3. CASE UNCHANGED vars
    BY <1>2, <2>3 DEF vars, EofStops
  <2> QED BY <2>1, <2>2, <2>3
<1> QED BY <1>1, <1>2, TreeSafety, PTL DEF Spec

-------------------------------------------------------------------------------
(* Text and markup *)

\* The modes that remember another one, to go back to it.
Remembering == {"text", "in_table_text"}

\* The contents in which the tokenizer finds tags of its own accord, and after plaintext nothing.
Markup == {"data", "PLAINTEXT"}

HasModes(s) == {"mode", "original", "content", "failure"} \subseteq DOMAIN s

\* Between two tags of markup, where the mode is one that the rules for a tag may be in.
Settled(s) ==
    /\ HasModes(s)
    /\ s.failure = "none" =>
           s.content \in Markup /\ s.mode \notin Remembering /\ s.original \notin Remembering

\* In markup, and maybe among the characters of a table.
InMarkup(s) ==
    /\ HasModes(s)
    /\ s.failure = "none" =>
           s.content \in Markup /\ s.mode # "text" /\ s.original \notin Remembering

\* In the text of an element, which the tokenizer has been told of.
InText(s) ==
    /\ HasModes(s)
    /\ s.failure = "none" =>
           s.content \notin Markup /\ s.mode = "text" /\ s.original \notin Remembering

\* Back in the mode that text was remembered for, before the tokenizer goes back to markup.
AfterText(s) ==
    /\ HasModes(s)
    /\ s.failure = "none" => s.mode \notin Remembering /\ s.original \notin Remembering

\* The start tags of the elements that have only text in them.
OpensText(t) ==
    IsStart(t, {"title", "noframes", "style", "script", "textarea", "xmp", "iframe", "noembed"})

Tag(t) == t.type \in {"start", "end"}

\* What the rules make of a token in markup: markup, or text after a start tag for it.
Results(r, t) ==
    \/ Settled(r)
    \/ InMarkup(r) /\ ~Tag(t)
    \/ InText(r) /\ OpensText(t)

\* A dispatcher keeps text and markup apart.
KeepsText(D) ==
    \A s \in Trees, t \in Tokens : Sane(s) /\ t.type # "eof" =>
        /\ InMarkup(s) => Results(D[s][t], t)
        /\ InText(s) /\ t.type # "end" => InText(D[s][t])
        /\ InText(s) /\ t.type = "end" => AfterText(D[s][t])

\* What is sane has modes.
LEMMA SaneHasModes ==
    ASSUME NEW s, Sane(s)
    PROVE  HasModes(s)
<1>1. s \in Trees
  BY SaneIs
<1> QED BY <1>1 DEF Trees, HasModes

\* What is not a mode or a content may change.
LEMMA FieldsSettled ==
    ASSUME NEW s, Settled(s), NEW x
    PROVE  /\ Settled([s EXCEPT !.open = x])
           /\ Settled([s EXCEPT !.formatting = x])
           /\ Settled([s EXCEPT !.head = x])
           /\ Settled([s EXCEPT !.form = x])
           /\ Settled([s EXCEPT !.frameset_ok = x])
           /\ Settled([s EXCEPT !.ignore_line_feed = x])
           /\ Settled([s EXCEPT !.pending = x])
           /\ Settled([s EXCEPT !.quirks = x])
           /\ Settled([s EXCEPT !.ignored = x])
           /\ Settled([s EXCEPT !.reprocess = x])
           /\ Settled([s EXCEPT !.stopped = x])
BY DEF Settled, HasModes

\* A failure settles everything
LEMMA FailSettled ==
    ASSUME NEW s, Settled(s), NEW why
    PROVE  Settled(Fail(s, why))
<1>1. PICK r : r = Fail(s, why)
  OBVIOUS
<1>2. r = [s EXCEPT !.failure = IF s.failure = "none" THEN why ELSE s.failure]
  BY <1>1 DEF Fail
<1>3. /\ HasModes(r) /\ r.content = s.content /\ r.mode = s.mode /\ r.original = s.original
      /\ r.failure = IF s.failure = "none" THEN why ELSE s.failure
  BY <1>2 DEF Settled, HasModes
<1> QED BY <1>1, <1>3 DEF Settled

\* and opening and closing elements keeps what is settled.
LEMMA StackSettled ==
    ASSUME NEW s, Settled(s)
    PROVE  /\ \A n : Settled(Shrunk(s, n))
           /\ Settled(Pop(s)) /\ Settled(Write(s)) /\ Settled(Ignored(s))
           /\ \A e : Settled(Push(s, e))
           /\ \A names : Settled(PopThrough(s, names)) /\ Settled(PopTo(s, names))
           /\ \A except : Settled(generate_implied_end_tags(s, except))
<1>1. ASSUME NEW n PROVE Settled(Shrunk(s, n))
  BY FieldsSettled DEF Shrunk
<1>2. Settled(Pop(s)) /\ Settled(Write(s)) /\ Settled(Ignored(s))
  BY <1>1, FailSettled, FieldsSettled DEF Pop, Write, Ignored
<1>3. ASSUME NEW e PROVE Settled(Push(s, e))
  BY FieldsSettled DEF Push
<1>4. ASSUME NEW names PROVE Settled(PopThrough(s, names)) /\ Settled(PopTo(s, names))
  BY <1>1, FailSettled DEF PopThrough, PopTo
<1>5. ASSUME NEW except PROVE Settled(generate_implied_end_tags(s, except))
  BY <1>1, FailSettled DEF generate_implied_end_tags
<1> QED BY <1>1, <1>2, <1>3, <1>4, <1>5

\* So does an inserted element
LEMMA InsertSettled ==
    ASSUME NEW s, Settled(s), NEW name
    PROVE  Settled(insert_an_HTML_element(s, name)) /\ Settled(InsertAndPop(s, name))
<1>1. Settled(Write(s))
  BY StackSettled
<1>2. Settled(insert_an_HTML_element(s, name))
  BY <1>1, StackSettled DEF insert_an_HTML_element
<1> QED BY <1>2, StackSettled DEF InsertAndPop

\* and what is done to one of the lists
LEMMA ListSettled ==
    ASSUME NEW s, Settled(s)
    PROVE  /\ \A e : /\ Settled(remove_node_from_the_stack_of_open_elements(s, e))
                     /\ Settled(remove_node_from_the_list_of_active_formatting_elements(s, e))
                     /\ Settled(push_onto_the_list_of_active_formatting_elements(s, e))
           /\ Settled(Marked(s))
           /\ Settled(clear_the_list_of_active_formatting_elements_up_to_the_last_marker(s))
<1>1. ASSUME NEW e
      PROVE  /\ Settled(remove_node_from_the_stack_of_open_elements(s, e))
             /\ Settled(remove_node_from_the_list_of_active_formatting_elements(s, e))
             /\ Settled(push_onto_the_list_of_active_formatting_elements(s, e))
  BY FieldsSettled DEF remove_node_from_the_stack_of_open_elements,
     remove_node_from_the_list_of_active_formatting_elements,
     push_onto_the_list_of_active_formatting_elements
<1>2. Settled(Marked(s))
  BY FieldsSettled DEF Marked
<1>3. Settled(clear_the_list_of_active_formatting_elements_up_to_the_last_marker(s))
  BY FieldsSettled, FailSettled
     DEF clear_the_list_of_active_formatting_elements_up_to_the_last_marker
<1> QED BY <1>1, <1>2, <1>3

\* or to both.
LEMMA BothListsSettled ==
    ASSUME NEW s, Settled(s), NEW x, NEW y
    PROVE  /\ Settled([s EXCEPT !.open = x, !.formatting = y])
           /\ Settled([s EXCEPT !.formatting = x, !.open = y])
<1>1. PICK u : u = [s EXCEPT !.open = x, !.formatting = y]
  OBVIOUS
<1>2. PICK v : v = [s EXCEPT !.formatting = x, !.open = y]
  OBVIOUS
<1>3. Settled(u) /\ Settled(v)
  BY <1>1, <1>2 DEF Settled, HasModes
<1> QED BY <1>1, <1>2, <1>3

\* Formatting elements are opened again
LEMMA ReconstructSettled ==
    ASSUME NEW s, Settled(s)
    PROVE  Settled(reconstruct_the_active_formatting_elements(s))
<1>1. PICK from : from = Reopened(s)
  OBVIOUS
<1>2. PICK new : new = [i \in 1 .. Len(s.formatting) - from |->
                           [name |-> s.formatting[from + i].name, id |-> Unused(s, i)]]
  OBVIOUS
<1>3. PICK w : w = Write(s)
  OBVIOUS
<1>4. PICK r : r = [w EXCEPT !.open = w.open \o new,
                             !.formatting = SubSeq(w.formatting, 1, from) \o new]
  OBVIOUS
<1>5. Settled(w)
  BY <1>3, StackSettled
<1>6. Settled(r)
  BY <1>4, <1>5, BothListsSettled
<1>7. reconstruct_the_active_formatting_elements(s) = IF new = <<>> THEN s ELSE r
  BY <1>1, <1>2, <1>3, <1>4 DEF reconstruct_the_active_formatting_elements
<1> QED BY <1>6, <1>7

\* or newly listed.
LEMMA InsertFormattingSettled ==
    ASSUME NEW s, Settled(s), NEW name
    PROVE  Settled(InsertFormatting(s, name))
BY InsertSettled, ListSettled DEF InsertFormatting

\* An end tag without rules of its own closes elements only
LEMMA AnyOtherEndSettled ==
    ASSUME NEW s, Settled(s), NEW t
    PROVE  Settled(any_other_end_tag_in_body(s, t))
<1>1. Settled(generate_implied_end_tags(s, {t.name})) /\ Settled(Ignored(s))
  BY StackSettled
<1>2. ASSUME NEW n PROVE Settled(Shrunk(generate_implied_end_tags(s, {t.name}), n))
  BY <1>1, StackSettled
<1> QED BY <1>1, <1>2, FailSettled DEF any_other_end_tag_in_body

\* and the adoption agency moves them
LEMMA AdoptedSettled ==
    ASSUME NEW s, Settled(s), NEW k, NEW i, NEW j
    PROVE  Settled(Adopted(s, k, i, j))
<1>1. PICK above : above = s.open[j - 1]
  OBVIOUS
<1>2. PICK listed : listed = Position(s.formatting, above)
  OBVIOUS
<1>3. PICK clone : clone = create_an_element_for_a_token(s, above.name)
  OBVIOUS
<1>4. PICK inner : inner = IF listed = 0
                           THEN [s EXCEPT !.open = RemoveAt(s.open, j - 1)]
                           ELSE IF above = s.formatting[k] THEN s
                           ELSE [s EXCEPT !.open[j - 1] = clone, !.formatting[listed] = clone]
  OBVIOUS
<1>5. Settled(inner)
  <2>1. Settled([s EXCEPT !.open = RemoveAt(s.open, j - 1)])
    BY FieldsSettled
  <2>2. Settled([s EXCEPT !.open[j - 1] = clone, !.formatting[listed] = clone])
    <3>1. PICK u : u = [s EXCEPT !.open[j - 1] = clone, !.formatting[listed] = clone]
      OBVIOUS
    <3>2. u = [s EXCEPT !.open = [s.open EXCEPT ![j - 1] = clone],
                        !.formatting = [s.formatting EXCEPT ![listed] = clone]]
      BY <3>1
    <3> QED BY <3>1, <3>2, BothListsSettled
  <2> QED BY <2>1, <2>2, <1>4
<1>6. PICK mark : mark = IF listed = 0 \/ above = s.formatting[k] THEN k - 1 ELSE listed
  OBVIOUS
<1>7. PICK new : new = create_an_element_for_a_token(inner, s.formatting[k].name)
  OBVIOUS
<1>8. PICK x : x = InsertAt(RemoveAt(inner.formatting, k), IF mark < k THEN mark + 1 ELSE mark, new)
  OBVIOUS
<1>9. PICK open : open = RemoveAt(inner.open, i)
  OBVIOUS
<1>10. PICK y : y = InsertAt(open, Len(open) - (Len(s.open) - j) + 1, new)
  OBVIOUS
<1>11. PICK r : r = [inner EXCEPT !.formatting = x, !.open = y]
  OBVIOUS
<1>12. Settled(r)
  BY <1>5, <1>11, BothListsSettled
<1>13. Adopted(s, k, i, j) = r
  BY <1>1, <1>2, <1>3, <1>4, <1>6, <1>7, <1>8, <1>9, <1>10, <1>11 DEF Adopted
<1> QED BY <1>12, <1>13

\* in each round
LEMMA RoundSettled ==
    ASSUME NEW s, Settled(s), NEW t
    PROVE  Settled(Round(s, t).tree)
<1>1. Settled(any_other_end_tag_in_body(s, t)) /\ Settled(Ignored(s))
  BY AnyOtherEndSettled, StackSettled
<1>2. ASSUME NEW x, NEW n PROVE Settled(Shrunk([s EXCEPT !.formatting = x], n))
  BY FieldsSettled, StackSettled
<1>3. Settled(Fail(s, "bookmark"))
  BY FailSettled
<1>4. ASSUME NEW k, NEW i, NEW j PROVE Settled(Adopted(s, k, i, j))
  BY AdoptedSettled
<1>5. ASSUME NEW x PROVE Settled([s EXCEPT !.formatting = x])
  BY FieldsSettled
<1> QED BY <1>1, <1>2, <1>3, <1>4, <1>5 DEF Round

\* and in all of them.
LEMMA AdoptionSettled ==
    ASSUME NEW s, Settled(s), NEW t
    PROVE  Settled(adoption_agency_algorithm(s, t))
<1>1. ASSUME NEW r, Settled(r.tree) PROVE Settled(OneRound(r, t).tree)
  BY <1>1, RoundSettled DEF OneRound
<1>2. ASSUME NEW r, Settled(r.tree) PROVE Settled(TwoRounds(r, t).tree)
  BY <1>1, <1>2 DEF TwoRounds
<1>3. ASSUME NEW r, Settled(r.tree) PROVE Settled(FourRounds(r, t).tree)
  BY <1>2, <1>3 DEF FourRounds
<1>4. Settled([tree |-> s, more |-> TRUE].tree)
  OBVIOUS
<1> QED BY <1>3, <1>4 DEF adoption_agency_algorithm

\* A switch to a mode that remembers no other.
LEMMA SwitchSettled ==
    ASSUME NEW s, Settled(s), NEW m, m \notin Remembering
    PROVE  Settled(switch_the_insertion_mode(s, m))
<1>1. PICK r : r = switch_the_insertion_mode(s, m)
  OBVIOUS
<1>2. r = [s EXCEPT !.mode = m, !.original = s.original]
  BY <1>1 DEF switch_the_insertion_mode, Remembering
<1>3. /\ HasModes(r) /\ r.content = s.content /\ r.mode = m /\ r.original = s.original
      /\ r.failure = s.failure
  BY <1>2 DEF Settled, HasModes
<1> QED BY <1>1, <1>3 DEF Settled

\* The mode that is found by looking at the stack is none that remembers another.
LEMMA ResetSettled ==
    ASSUME NEW s, Settled(s)
    PROVE  Settled(reset_the_insertion_mode_appropriately(s))
<1>1. \A name : ResetMode(name) \notin Remembering
  BY DEF ResetMode, Remembering
<1>2. ASSUME NEW m, m \notin Remembering PROVE Settled([s EXCEPT !.mode = m])
  <2>1. PICK r : r = [s EXCEPT !.mode = m]
    OBVIOUS
  <2>2. /\ HasModes(r) /\ r.content = s.content /\ r.mode = m /\ r.original = s.original
        /\ r.failure = s.failure
    BY <2>1 DEF Settled, HasModes
  <2> QED BY <1>2, <2>1, <2>2 DEF Settled
<1> QED BY <1>1, <1>2, FailSettled DEF reset_the_insertion_mode_appropriately

\* The flags may change.
LEMMA AgainSettled ==
    ASSUME NEW s, Settled(s)
    PROVE  /\ Settled(Again(s)) /\ Settled(OnBehalf(s)) /\ Settled(AgainUnlessIgnored(s))
           /\ Settled([s EXCEPT !.ignored = FALSE, !.reprocess = FALSE])
           /\ Settled(stop_parsing(s))
           /\ Settled([s EXCEPT !.ignore_line_feed = TRUE, !.frameset_ok = FALSE])
<1>1. Settled(Again(s)) /\ Settled(OnBehalf(s))
  BY FieldsSettled DEF Again, OnBehalf
<1>2. ASSUME NEW x, NEW y PROVE Settled([s EXCEPT !.ignored = x, !.reprocess = y])
  <2>1. PICK r : r = [s EXCEPT !.ignored = x, !.reprocess = y]
    OBVIOUS
  <2>2. Settled(r)
    BY <2>1 DEF Settled, HasModes
  <2> QED BY <2>1, <2>2
<1>3. Settled(AgainUnlessIgnored(s))
  BY <1>2 DEF AgainUnlessIgnored
<1>4. Settled(stop_parsing(s))
  <2>1. PICK r : r = stop_parsing(s)
    OBVIOUS
  <2>2. Settled(r)
    BY <2>1 DEF Settled, HasModes, stop_parsing
  <2> QED BY <2>1, <2>2
<1>5. Settled([s EXCEPT !.ignore_line_feed = TRUE, !.frameset_ok = FALSE])
  <2>1. PICK r : r = [s EXCEPT !.ignore_line_feed = TRUE, !.frameset_ok = FALSE]
    OBVIOUS
  <2>2. Settled(r)
    BY <2>1 DEF Settled, HasModes
  <2> QED BY <2>1, <2>2
<1> QED BY <1>1, <1>2, <1>3, <1>4, <1>5

\* What is settled is markup, and so may be the result of any token.
LEMMA SettledIsMarkup ==
    ASSUME NEW s, Settled(s)
    PROVE  InMarkup(s) /\ \A t : Results(s, t)
BY DEF Settled, InMarkup, Results, Remembering

\* The tokens made up by the rules open no text.
LEMMA MadeUpSettled ==
    ASSUME NEW D, Keeps(D), KeepsText(D), NEW s, Sane(s), Settled(s), NEW name \in Names
    PROVE  /\ Settled(act_as_if_an_end_tag_token_had_been_seen(D, s, name))
           /\ Settled(EndThenAgain(D, s, name))
           /\ ~OpensText(StartTag(name)) =>
                  Settled(act_as_if_a_start_tag_token_had_been_seen(D, s, name))
<1>1. s \in Trees /\ InMarkup(s)
  BY SaneIs, SettledIsMarkup
<1>2. StartTag(name) \in Tokens /\ EndTag(name) \in Tokens
  BY TagsAre
<1>3. /\ StartTag(name).type = "start" /\ EndTag(name).type = "end"
      /\ Tag(StartTag(name)) /\ Tag(EndTag(name)) /\ ~OpensText(EndTag(name))
  BY DEF StartTag, EndTag, Tag, OpensText, IsStart
<1>4. Settled(D[s][EndTag(name)])
  <2>1. Results(D[s][EndTag(name)], EndTag(name))
    BY <1>1, <1>2, <1>3 DEF KeepsText
  <2> QED BY <2>1, <1>3 DEF Results
<1>5. ~OpensText(StartTag(name)) => Settled(D[s][StartTag(name)])
  <2>1. Results(D[s][StartTag(name)], StartTag(name))
    BY <1>1, <1>2, <1>3 DEF KeepsText
  <2> QED BY <2>1, <1>3 DEF Results
<1>6. Settled(act_as_if_an_end_tag_token_had_been_seen(D, s, name))
  BY <1>4, AgainSettled DEF act_as_if_an_end_tag_token_had_been_seen
<1>7. Settled(EndThenAgain(D, s, name))
  BY <1>4, AgainSettled DEF EndThenAgain
<1>8. ~OpensText(StartTag(name)) =>
          Settled(act_as_if_a_start_tag_token_had_been_seen(D, s, name))
  BY <1>5, AgainSettled DEF act_as_if_a_start_tag_token_had_been_seen
<1> QED BY <1>6, <1>7, <1>8

\* The start tags that the rules make up.
LEMMA StartMadeUp ==
    ASSUME NEW name \in {"head", "body", "p", "br", "colgroup", "tbody", "tr", "form", "hr",
                         "label"}
    PROVE  name \in Names /\ ~OpensText(StartTag(name))
<1>1. name \in Names
  BY NamesHave
<1>2. ~OpensText(StartTag(name))
  BY DEF OpensText, IsStart, StartTag
<1> QED BY <1>1, <1>2

\* The generic parsing algorithm opens text.
LEMMA GenericText ==
    ASSUME NEW s, Settled(s), NEW name, NEW c, c \notin Markup
    PROVE  InText(generic_element_parsing_algorithm(s, name, c))
<1>1. PICK r : r = insert_an_HTML_element(s, name)
  OBVIOUS
<1>2. Settled(r)
  BY <1>1, InsertSettled
<1>3. PICK u : u = [r EXCEPT !.content = c]
  OBVIOUS
<1>4. /\ HasModes(u) /\ u.content = c /\ u.mode = r.mode /\ u.original = r.original
      /\ u.failure = r.failure
  BY <1>2, <1>3 DEF Settled, HasModes
<1>5. PICK v : v = switch_the_insertion_mode(u, "text")
  OBVIOUS
<1>6. v = [u EXCEPT !.mode = "text", !.original = u.mode]
  BY <1>5 DEF switch_the_insertion_mode
<1>7. /\ HasModes(v) /\ v.content = c /\ v.mode = "text" /\ v.original = u.mode
      /\ v.failure = u.failure
  BY <1>4, <1>6 DEF HasModes
<1>8. InText(v)
  BY <1>2, <1>4, <1>7 DEF InText, Settled
<1>9. generic_element_parsing_algorithm(s, name, c) = v
  BY <1>1, <1>3, <1>5 DEF generic_element_parsing_algorithm
<1> QED BY <1>8, <1>9

\* What the text modes leave alone.
LEMMA FieldsText ==
    ASSUME NEW s, InText(s), NEW x
    PROVE  /\ InText([s EXCEPT !.open = x])
           /\ InText([s EXCEPT !.ignored = x])
           /\ InText([s EXCEPT !.ignore_line_feed = x])
           /\ InText([s EXCEPT !.reprocess = x])
BY DEF InText, HasModes

\* What is not a mode or a content may change in markup too.
LEMMA FieldsMarkup ==
    ASSUME NEW s, InMarkup(s), NEW x
    PROVE  /\ InMarkup([s EXCEPT !.ignored = x])
           /\ InMarkup([s EXCEPT !.pending = x])
           /\ InMarkup([s EXCEPT !.ignore_line_feed = x])
           /\ InMarkup([s EXCEPT !.reprocess = x])
BY DEF InMarkup, HasModes

\* Rules applied on behalf of another mode.
LEMMA BehalfResults ==
    ASSUME NEW s, NEW t, Results(s, t)
    PROVE  /\ Results(OnBehalf(s), t)
           /\ Tag(t) => \A e : Results(remove_node_from_the_stack_of_open_elements(s, e), t)
<1>1. Results(OnBehalf(s), t)
  BY FieldsText, FieldsMarkup, AgainSettled DEF Results, OnBehalf
<1>2. ASSUME Tag(t), NEW e
      PROVE  Results(remove_node_from_the_stack_of_open_elements(s, e), t)
  <2>1. CASE Settled(s)
    BY <2>1, ListSettled DEF Results
  <2>2. CASE InText(s) /\ OpensText(t)
    <3>1. InText(remove_node_from_the_stack_of_open_elements(s, e))
      BY <2>2, FieldsText DEF remove_node_from_the_stack_of_open_elements
    <3> QED BY <3>1, <2>2 DEF Results
  <2> QED BY <1>2, <2>1, <2>2 DEF Results
<1> QED BY <1>1, <1>2

\* The modes initial and before_html.
LEMMA InitialText ==
    ASSUME NEW s, Settled(s), NEW t
    PROVE  Settled(initial(s, t)) /\ Settled(before_html(s, t))
<1>1. \A m \in {"before_html", "before_head"} : m \notin Remembering
  BY DEF Remembering
<1>2. PICK r : r = switch_the_insertion_mode(s, "before_html")
  OBVIOUS
<1>3. Settled(r)
  BY <1>1, <1>2, SwitchSettled
<1>4. \A x : Settled([r EXCEPT !.quirks = x]) /\ Settled(Again([r EXCEPT !.quirks = x]))
  BY <1>3, FieldsSettled, AgainSettled
<1>5. Settled(Ignored(s))
  BY StackSettled
<1>6. Settled(initial(s, t))
  BY <1>2, <1>4, <1>5 DEF initial
<1>7. Settled(HtmlOpened(s))
  <2>1. Settled(Push(s, create_an_element_for_a_token(s, "html")))
    BY StackSettled
  <2> QED BY <2>1, <1>1, SwitchSettled DEF HtmlOpened
<1>8. Settled(before_html(s, t))
  BY <1>5, <1>7, AgainSettled DEF before_html
<1> QED BY <1>6, <1>8

\* The rules of the mode before_head.
LEMMA BeforeHeadText ==
    ASSUME NEW D, Keeps(D), KeepsText(D), NEW s, Sane(s), Settled(s), NEW t
    PROVE  Settled(before_head(D, s, t))
<1>1. Settled(Write(s)) /\ Settled(Ignored(s)) /\ Settled(HtmlStartTagInBody(s))
  BY StackSettled DEF HtmlStartTagInBody
<1>2. PICK r : r = insert_an_HTML_element(s, "head")
  OBVIOUS
<1>3. Settled(switch_the_insertion_mode([r EXCEPT !.head = Last(r.open)], "in_head"))
  <2>1. Settled([r EXCEPT !.head = Last(r.open)])
    BY <1>2, InsertSettled, FieldsSettled
  <2>2. "in_head" \notin Remembering
    BY DEF Remembering
  <2> QED BY <2>1, <2>2, SwitchSettled
<1>4. Settled(Again(act_as_if_a_start_tag_token_had_been_seen(D, s, "head")))
  BY StartMadeUp, MadeUpSettled, AgainSettled
<1> QED BY <1>1, <1>2, <1>3, <1>4 DEF before_head

\* The rules of the mode in_head.
LEMMA InHeadText ==
    ASSUME NEW D, Keeps(D), KeepsText(D), NEW s, Sane(s), Settled(s), NEW t
    PROVE  Results(in_head(D, s, t), t)
<1>1. Settled(Write(s)) /\ Settled(Ignored(s)) /\ Settled(HtmlStartTagInBody(s))
  BY StackSettled DEF HtmlStartTagInBody
<1>2. ASSUME IsStart(t, {"title", "noframes", "style", "script"}),
             NEW c \in {"RCDATA", "RAWTEXT", "script_data"}
      PROVE  Results(generic_element_parsing_algorithm(s, t.name, c), t)
  <2>1. c \notin Markup /\ OpensText(t)
    BY <1>2 DEF Markup, OpensText, IsStart
  <2> QED BY <2>1, GenericText DEF Results
<1>3. /\ IsStart(t, {"title"}) => Results(generic_element_parsing_algorithm(s, t.name, "RCDATA"), t)
      /\ IsStart(t, {"noframes", "style"}) =>
             Results(generic_element_parsing_algorithm(s, t.name, "RAWTEXT"), t)
      /\ IsStart(t, {"script"}) =>
             Results(generic_element_parsing_algorithm(s, t.name, "script_data"), t)
  BY <1>2 DEF IsStart
<1>4. /\ Settled(InsertAndPop(s, t.name))
      /\ Settled(switch_the_insertion_mode(insert_an_HTML_element(s, t.name), "in_head_noscript"))
      /\ Settled(switch_the_insertion_mode(Pop(s), "after_head"))
  <2>1. "in_head_noscript" \notin Remembering /\ "after_head" \notin Remembering
    BY DEF Remembering
  <2>2. Settled(insert_an_HTML_element(s, t.name)) /\ Settled(InsertAndPop(s, t.name))
    BY InsertSettled
  <2>3. Settled(Pop(s))
    BY StackSettled
  <2> QED BY <2>1, <2>2, <2>3, SwitchSettled
<1>5. Settled(Again(act_as_if_an_end_tag_token_had_been_seen(D, s, "head")))
  <2>1. "head" \in Names
    BY NamesHave
  <2> QED BY <2>1, MadeUpSettled, AgainSettled
<1>6. \A r : Settled(r) => Results(r, t)
  BY SettledIsMarkup
<1> QED BY <1>1, <1>3, <1>4, <1>5, <1>6 DEF in_head

\* The mode in_head_noscript.
LEMMA InHeadNoscriptText ==
    ASSUME NEW D, Keeps(D), KeepsText(D), NEW s, Sane(s), Settled(s), NEW t
    PROVE  Results(in_head_noscript(D, s, t), t)
<1>1. Settled(Ignored(s)) /\ Settled(HtmlStartTagInBody(s))
  BY StackSettled DEF HtmlStartTagInBody
<1>2. Results(OnBehalf(in_head(D, s, t)), t)
  BY InHeadText, BehalfResults
<1>3. Settled(switch_the_insertion_mode(Pop(s), "in_head"))
  <2>1. "in_head" \notin Remembering
    BY DEF Remembering
  <2>2. Settled(Pop(s))
    BY StackSettled
  <2> QED BY <2>1, <2>2, SwitchSettled
<1>4. Settled(Again(act_as_if_an_end_tag_token_had_been_seen(D, s, "noscript")))
  <2>1. "noscript" \in Names
    BY NamesHave
  <2> QED BY <2>1, MadeUpSettled, AgainSettled
<1>5. \A r : Settled(r) => Results(r, t)
  BY SettledIsMarkup
<1> QED BY <1>1, <1>2, <1>3, <1>4, <1>5 DEF in_head_noscript

\* The rules of the mode after_head.
LEMMA AfterHeadText ==
    ASSUME NEW D, Keeps(D), KeepsText(D), NEW s, Sane(s), Settled(s), NEW t
    PROVE  Results(after_head(D, s, t), t)
<1>1. Settled(Write(s)) /\ Settled(Ignored(s)) /\ Settled(HtmlStartTagInBody(s))
  BY StackSettled DEF HtmlStartTagInBody
<1>2. ASSUME NEW m \in {"in_body", "in_frameset"}
      PROVE  Settled(switch_the_insertion_mode(insert_an_HTML_element(s, t.name), m))
  <2>1. m \notin Remembering
    BY <1>2 DEF Remembering
  <2> QED BY <2>1, InsertSettled, SwitchSettled
<1>3. Settled([switch_the_insertion_mode(insert_an_HTML_element(s, t.name), "in_body")
                  EXCEPT !.frameset_ok = FALSE])
  BY <1>2, FieldsSettled
<1>4. IsStart(t, HeadContent) =>
          Results(remove_node_from_the_stack_of_open_elements(
                      OnBehalf(in_head(D, Push(s, s.head), t)), s.head), t)
  <2>1. PICK u : u = Push(s, s.head)
    OBVIOUS
  <2>2. Sane(u) /\ Settled(u)
    BY <2>1, HeadAgainSane, StackSettled
  <2>3. Results(OnBehalf(in_head(D, u, t)), t)
    BY <2>2, InHeadText, BehalfResults
  <2>4. IsStart(t, HeadContent) => Tag(t)
    BY DEF IsStart, Tag
  <2> QED BY <2>1, <2>3, <2>4, BehalfResults
<1>5. Settled(Again([act_as_if_a_start_tag_token_had_been_seen(D, s, "body")
                        EXCEPT !.frameset_ok = TRUE]))
  <2>1. Settled(act_as_if_a_start_tag_token_had_been_seen(D, s, "body"))
    BY StartMadeUp, MadeUpSettled
  <2> QED BY <2>1, FieldsSettled, AgainSettled
<1>6. \A r : Settled(r) => Results(r, t)
  BY SettledIsMarkup
<1> QED BY <1>1, <1>2, <1>3, <1>4, <1>5, <1>6 DEF after_head

\* A p element is closed.
LEMMA ClosePText ==
    ASSUME NEW D, Keeps(D), KeepsText(D), NEW s, Sane(s), Settled(s)
    PROVE  Settled(CloseP(D, s))
<1>1. "p" \in Names
  BY NamesHave
<1> QED BY <1>1, MadeUpSettled DEF CloseP

\* The start tags of StructureStart.
LEMMA StructureStartText ==
    ASSUME NEW D, Keeps(D), KeepsText(D), NEW s, Sane(s), Settled(s), NEW t
    PROVE  Results(StructureStart(D, s, t), t)
<1>1. Settled(HtmlStartTagInBody(s)) /\ Settled(Ignored(s)) /\ Settled(s)
  BY StackSettled DEF HtmlStartTagInBody
<1>2. Settled(Fail(s, "empty")) /\ Settled([s EXCEPT !.frameset_ok = FALSE])
  BY FailSettled, FieldsSettled
<1>3. Results(OnBehalf(in_head(D, s, t)), t)
  BY InHeadText, BehalfResults
<1>4. \A r : Settled(r) => Results(r, t)
  BY SettledIsMarkup
<1> QED BY <1>1, <1>2, <1>3, <1>4 DEF StructureStart

\* The start tags of BlockStart.
LEMMA BlockStartText ==
    ASSUME NEW D, Keeps(D), KeepsText(D), NEW s, Sane(s), Settled(s), NEW t,
           t.name \in Blocks \cup Headings \cup {"p", "pre", "listing", "plaintext", "hr"}
    PROVE  Settled(BlockStart(D, s, t))
<1>1. PICK closed : closed = CloseP(D, s)
  OBVIOUS
<1>2. Settled(closed)
  BY <1>1, ClosePText
<1>3. PICK r : r = insert_an_HTML_element(closed, t.name)
  OBVIOUS
<1>4. Settled(r)
  BY <1>2, <1>3, InsertSettled
<1>5. Settled(insert_an_HTML_element(
                  IF CurrentIs(closed, Headings) THEN Pop(closed) ELSE closed, t.name))
  BY <1>2, StackSettled, InsertSettled
<1>6. Settled([r EXCEPT !.ignore_line_feed = TRUE, !.frameset_ok = FALSE])
  BY <1>4, AgainSettled
<1>7. Settled([r EXCEPT !.content = "PLAINTEXT"])
  <2>1. PICK u : u = [r EXCEPT !.content = "PLAINTEXT"]
    OBVIOUS
  <2>2. /\ HasModes(u) /\ u.content = "PLAINTEXT" /\ u.mode = r.mode /\ u.original = r.original
        /\ u.failure = r.failure
    BY <2>1, <1>4 DEF Settled, HasModes
  <2>3. Settled(u)
    BY <2>2, <1>4 DEF Settled, Markup
  <2> QED BY <2>1, <2>3
<1>8. Settled([InsertAndPop(closed, t.name) EXCEPT !.frameset_ok = FALSE])
  BY <1>2, InsertSettled, FieldsSettled
<1> QED BY <1>1, <1>3, <1>4, <1>5, <1>6, <1>7, <1>8 DEF BlockStart

\* The start tags of FormStart.
LEMMA FormStartText ==
    ASSUME NEW D, Keeps(D), KeepsText(D), NEW s, Sane(s), Settled(s), NEW t
    PROVE  Settled(FormStart(D, s, t))
<1>1. PICK r : r = insert_an_HTML_element(CloseP(D, s), t.name)
  OBVIOUS
<1>2. Settled([r EXCEPT !.form = Last(r.open)])
  BY <1>1, ClosePText, InsertSettled, FieldsSettled
<1> QED BY <1>1, <1>2, StackSettled DEF FormStart

\* The start tags of ItemStart.
LEMMA ItemStartText ==
    ASSUME NEW D, Keeps(D), KeepsText(D), NEW s, Sane(s), Settled(s), NEW t
    PROVE  Settled(ItemStart(D, s, t))
<1>1. PICK li : li = act_as_if_an_end_tag_token_had_been_seen(D, s, "li")
  OBVIOUS
<1>2. Settled(li) /\ Sane(li)
  <2>1. "li" \in Names
    BY NamesHave
  <2> QED BY <2>1, <1>1, MadeUpSettled, MadeUpSane
<1>3. ASSUME NEW r, Sane(r), Settled(r)
      PROVE  Settled([insert_an_HTML_element(CloseP(D, r), t.name) EXCEPT !.frameset_ok = FALSE])
  BY <1>3, ClosePText, InsertSettled, FieldsSettled
<1> QED BY <1>1, <1>2, <1>3 DEF ItemStart

\* Closing down to an element of a name.
LEMMA PopBeforeText ==
    ASSUME NEW s, Settled(s), NEW name
    PROVE  Settled(PopBefore(s, name))
<1>1. Settled(generate_implied_end_tags(s, {name}))
  BY StackSettled
<1>2. ASSUME NEW r, Settled(r), NEW n PROVE Settled(PopUnseen(r, n))
  BY <1>2, StackSettled, FailSettled DEF PopUnseen
<1> QED BY <1>1, <1>2 DEF PopBefore

\* The start tags of DefinitionStart.
LEMMA DefinitionStartText ==
    ASSUME NEW s, Settled(s), NEW t
    PROVE  Settled(DefinitionStart(s, t))
<1>1. PICK i : i = LastNamed(s, Bounding)
  OBVIOUS
<1>2. PICK closed : closed = IF i > 0 /\ s.open[i].name \in {"dd", "dt"}
                             THEN PopBefore(s, s.open[i].name)
                             ELSE s
  OBVIOUS
<1>3. Settled(closed)
  BY <1>2, PopBeforeText
<1>4. PICK no_p : no_p = IF has_element_in_button_scope(closed, "p")
                         THEN close_a_p_element(closed)
                         ELSE closed
  OBVIOUS
<1>5. Settled(no_p)
  BY <1>3, <1>4, PopBeforeText DEF close_a_p_element
<1>6. Settled([insert_an_HTML_element(no_p, t.name) EXCEPT !.frameset_ok = FALSE])
  BY <1>5, InsertSettled, FieldsSettled
<1> QED BY <1>1, <1>2, <1>4, <1>6 DEF DefinitionStart

\* The start tags of ButtonStart.
LEMMA ButtonStartText ==
    ASSUME NEW D, Keeps(D), KeepsText(D), NEW s, Sane(s), Settled(s), NEW t
    PROVE  Settled(ButtonStart(D, s, t))
<1>1. Settled(Again(act_as_if_an_end_tag_token_had_been_seen(D, s, "button")))
  <2>1. "button" \in Names
    BY NamesHave
  <2> QED BY <2>1, MadeUpSettled, AgainSettled
<1>2. Settled([insert_an_HTML_element(reconstruct_the_active_formatting_elements(s), t.name)
                  EXCEPT !.frameset_ok = FALSE])
  BY ReconstructSettled, InsertSettled, FieldsSettled
<1> QED BY <1>1, <1>2 DEF ButtonStart

\* The start tags of AnchorStart.
LEMMA AnchorStartText ==
    ASSUME NEW D, Keeps(D), KeepsText(D), NEW s, Sane(s), Settled(s), NEW t
    PROVE  Settled(AnchorStart(D, s, t))
<1>1. PICK named : named = {i \in SinceMarker(s) : s.formatting[i].name = "a"}
  OBVIOUS
<1>2. PICK last : last = CHOOSE i \in named : \A j \in named : j <= i
  OBVIOUS
<1>3. PICK a : a = s.formatting[last]
  OBVIOUS
<1>4. PICK ended : ended = act_as_if_an_end_tag_token_had_been_seen(D, s, "a")
  OBVIOUS
<1>5. PICK closed : closed =
          IF named = {} THEN s
          ELSE remove_node_from_the_stack_of_open_elements(
                   remove_node_from_the_list_of_active_formatting_elements(ended, a), a)
  OBVIOUS
<1>6. Settled(ended)
  <2>1. "a" \in Names
    BY NamesHave
  <2> QED BY <2>1, <1>4, MadeUpSettled
<1>7. Settled(closed)
  <2>1. Settled(remove_node_from_the_list_of_active_formatting_elements(ended, a))
    BY <1>6, ListSettled
  <2> QED BY <2>1, <1>5, ListSettled
<1>8. Settled(InsertFormatting(reconstruct_the_active_formatting_elements(closed), t.name))
  BY <1>7, ReconstructSettled, InsertFormattingSettled
<1> QED BY <1>1, <1>2, <1>3, <1>4, <1>5, <1>8 DEF AnchorStart

\* The start tags of FormattingStart.
LEMMA FormattingStartText ==
    ASSUME NEW D, Keeps(D), KeepsText(D), NEW s, Sane(s), Settled(s), NEW t
    PROVE  Settled(FormattingStart(D, s, t))
<1>1. PICK r : r = reconstruct_the_active_formatting_elements(s)
  OBVIOUS
<1>2. Sane(r) /\ Settled(r)
  BY <1>1, ReconstructSane, ReconstructSettled
<1>3. Settled(reconstruct_the_active_formatting_elements(
                  act_as_if_an_end_tag_token_had_been_seen(D, r, "nobr")))
  <2>1. "nobr" \in Names
    BY NamesHave
  <2> QED BY <2>1, <1>2, MadeUpSettled, ReconstructSettled
<1>4. ASSUME NEW u, Settled(u) PROVE Settled(InsertFormatting(u, t.name))
  BY <1>4, InsertFormattingSettled
<1> QED BY <1>1, <1>2, <1>3, <1>4 DEF FormattingStart

\* The start tags for which nothing is made up.
LEMMA PlainStartText ==
    ASSUME NEW s, Settled(s), NEW t
    PROVE  /\ Settled(EmbeddedStart(s, t)) /\ Settled(VoidStart(s, t))
           /\ Settled(SelectStart(s, t))
<1>1. PICK u : u = reconstruct_the_active_formatting_elements(s)
  OBVIOUS
<1>2. PICK r : r = insert_an_HTML_element(u, t.name)
  OBVIOUS
<1>3. Settled(r) /\ Settled(InsertAndPop(u, t.name)) /\ Settled(InsertAndPop(s, t.name))
  BY <1>1, <1>2, ReconstructSettled, InsertSettled
<1>4. Settled(EmbeddedStart(s, t))
  <2>1. Settled(Marked(r))
    BY <1>3, ListSettled
  <2> QED BY <2>1, <1>1, <1>2, FieldsSettled DEF EmbeddedStart
<1>5. Settled(VoidStart(s, t))
  <2>1. Settled([InsertAndPop(u, t.name) EXCEPT !.frameset_ok = FALSE])
    BY <1>3, FieldsSettled
  <2> QED BY <2>1, <1>1, <1>3 DEF VoidStart
<1>6. Settled(SelectStart(s, t))
  <2>1. Settled([r EXCEPT !.frameset_ok = FALSE])
    BY <1>3, FieldsSettled
  <2>2. "in_select_in_table" \notin Remembering /\ "in_select" \notin Remembering
    BY DEF Remembering
  <2> QED BY <2>1, <2>2, <1>1, <1>2, SwitchSettled DEF SelectStart
<1> QED BY <1>4, <1>5, <1>6

\* The start tags of TableStart.
LEMMA TableStartText ==
    ASSUME NEW D, Keeps(D), KeepsText(D), NEW s, Sane(s), Settled(s), NEW t
    PROVE  Settled(TableStart(D, s, t))
<1>1. PICK r : r = IF s.quirks THEN s ELSE CloseP(D, s)
  OBVIOUS
<1>2. Settled(r)
  BY <1>1, ClosePText
<1>3. Settled([insert_an_HTML_element(r, t.name) EXCEPT !.frameset_ok = FALSE])
  BY <1>2, InsertSettled, FieldsSettled
<1>4. "in_table" \notin Remembering
  BY DEF Remembering
<1> QED BY <1>1, <1>3, <1>4, SwitchSettled DEF TableStart

\* The start tags of IsIndexStart.
LEMMA IsIndexStartText ==
    ASSUME NEW D, Keeps(D), KeepsText(D), NEW s, Sane(s), Settled(s)
    PROVE  Settled(IsIndexStart(D, s))
<1>1. ASSUME NEW r, Sane(r), Settled(r), NEW name \in {"form", "hr", "label"}
      PROVE  /\ Sane(act_as_if_a_start_tag_token_had_been_seen(D, r, name))
             /\ Settled(act_as_if_a_start_tag_token_had_been_seen(D, r, name))
             /\ Sane(act_as_if_an_end_tag_token_had_been_seen(D, r, name))
             /\ Settled(act_as_if_an_end_tag_token_had_been_seen(D, r, name))
  BY <1>1, StartMadeUp, MadeUpSane, MadeUpSettled
<1>2. PICK a : a = act_as_if_a_start_tag_token_had_been_seen(D, s, "form")
  OBVIOUS
<1>3. PICK b : b = act_as_if_a_start_tag_token_had_been_seen(D, a, "hr")
  OBVIOUS
<1>4. PICK c : c = act_as_if_a_start_tag_token_had_been_seen(D, b, "label")
  OBVIOUS
<1>5. PICK d : d = act_as_if_an_end_tag_token_had_been_seen(D, c, "label")
  OBVIOUS
<1>6. PICK e : e = act_as_if_a_start_tag_token_had_been_seen(D, d, "hr")
  OBVIOUS
<1>7. PICK f : f = act_as_if_an_end_tag_token_had_been_seen(D, e, "form")
  OBVIOUS
<1>8. Sane(a) /\ Settled(a)
  BY <1>1, <1>2
<1>9. Sane(b) /\ Settled(b)
  BY <1>1, <1>3, <1>8
<1>10. Sane(c) /\ Settled(c)
  BY <1>1, <1>4, <1>9
<1>11. Sane(d) /\ Settled(d)
  BY <1>1, <1>5, <1>10
<1>12. Sane(e) /\ Settled(e)
  BY <1>1, <1>6, <1>11
<1>13. Settled(f)
  BY <1>1, <1>7, <1>12
<1>14. Settled(Ignored(s))
  BY StackSettled
<1> QED BY <1>2, <1>3, <1>4, <1>5, <1>6, <1>7, <1>13, <1>14 DEF IsIndexStart

\* The start tags of textarea, xmp, iframe and noembed open text.
LEMMA TextStartText ==
    ASSUME NEW D, Keeps(D), KeepsText(D), NEW s, Sane(s), Settled(s), NEW t,
           t.type = "start", t.name \in {"textarea", "xmp", "iframe", "noembed"}
    PROVE  Results(TextStart(D, s, t), t)
<1>1. "RCDATA" \notin Markup /\ "RAWTEXT" \notin Markup /\ OpensText(t)
  BY DEF Markup, OpensText, IsStart
<1>2. PICK r : r = [s EXCEPT !.frameset_ok = FALSE]
  OBVIOUS
<1>3. Settled(r)
  BY <1>2, FieldsSettled
<1>4. InText([generic_element_parsing_algorithm(r, t.name, "RCDATA")
                 EXCEPT !.ignore_line_feed = TRUE])
  BY <1>1, <1>3, GenericText, FieldsText
<1>5. InText(generic_element_parsing_algorithm(
                 reconstruct_the_active_formatting_elements(
                     [CloseP(D, s) EXCEPT !.frameset_ok = FALSE]), t.name, "RAWTEXT"))
  <2>1. Settled([CloseP(D, s) EXCEPT !.frameset_ok = FALSE])
    BY ClosePText, FieldsSettled
  <2> QED BY <2>1, <1>1, ReconstructSettled, GenericText
<1>6. /\ InText(generic_element_parsing_algorithm(r, t.name, "RAWTEXT"))
      /\ InText(generic_element_parsing_algorithm(s, t.name, "RAWTEXT"))
  BY <1>1, <1>3, GenericText
<1>7. InText(TextStart(D, s, t))
  BY <1>2, <1>4, <1>5, <1>6 DEF TextStart
<1> QED BY <1>1, <1>7 DEF Results

\* The start tags of OtherStart.
LEMMA OtherStartText ==
    ASSUME NEW D, Keeps(D), KeepsText(D), NEW s, Sane(s), Settled(s), NEW t
    PROVE  Settled(OtherStart(D, s, t))
<1>1. Settled(OptionStart(D, s, t))
  <2>1. "option" \in Names
    BY NamesHave
  <2>2. Settled(act_as_if_an_end_tag_token_had_been_seen(D, s, "option"))
    BY <2>1, MadeUpSettled
  <2> QED BY <2>2, ReconstructSettled, InsertSettled DEF OptionStart
<1>2. Settled(RubyStart(s, t))
  BY StackSettled, InsertSettled DEF RubyStart
<1>3. Settled(ForeignStart(s, t))
  BY ReconstructSettled, StackSettled, FailSettled DEF ForeignStart
<1>4. Settled(insert_an_HTML_element(reconstruct_the_active_formatting_elements(s), t.name))
  BY ReconstructSettled, InsertSettled
<1>5. Settled(Ignored(s))
  BY StackSettled
<1> QED BY <1>1, <1>2, <1>3, <1>4, <1>5 DEF OtherStart

\* The start tags of InBodyStart.
LEMMA InBodyStartText ==
    ASSUME NEW D, Keeps(D), KeepsText(D), NEW s, Sane(s), Settled(s), NEW t \in Tokens,
           t.type = "start"
    PROVE  Results(InBodyStart(D, s, t), t)
<1>1. Results(StructureStart(D, s, t), t)
  BY StructureStartText
<1>2. t.name \in Blocks \cup Headings \cup {"p", "pre", "listing", "plaintext", "hr"} =>
          Settled(BlockStart(D, s, t))
  BY BlockStartText
<1>3. /\ Settled(FormStart(D, s, t)) /\ Settled(ItemStart(D, s, t))
      /\ Settled(DefinitionStart(s, t)) /\ Settled(ButtonStart(D, s, t))
  BY FormStartText, ItemStartText, DefinitionStartText, ButtonStartText
<1>4. /\ Settled(AnchorStart(D, s, t)) /\ Settled(FormattingStart(D, s, t))
      /\ Settled(EmbeddedStart(s, t)) /\ Settled(VoidStart(s, t)) /\ Settled(SelectStart(s, t))
  BY AnchorStartText, FormattingStartText, PlainStartText
<1>5. /\ Settled(TableStart(D, s, t)) /\ Settled(IsIndexStart(D, s))
      /\ Settled(OtherStart(D, s, t))
  BY TableStartText, IsIndexStartText, OtherStartText
<1>6. Settled(ImageStart(D, s, t))
  <2>1. PICK u : u = [t EXCEPT !.name = "img"]
    OBVIOUS
  <2>2. u \in Tokens
    BY <2>1, TokenIs
  <2>3. u.type = "start" /\ u.name = "img"
    BY <2>1 DEF Tokens
  <2>4. s \in Trees /\ InMarkup(s)
    BY SaneIs, SettledIsMarkup
  <2>5. Results(D[s][u], u)
    BY <2>2, <2>3, <2>4 DEF KeepsText
  <2>6. Settled(D[s][u])
    BY <2>3, <2>5 DEF Results, Tag, OpensText, IsStart
  <2> QED BY <2>1, <2>6 DEF ImageStart
<1>7. t.name \in {"textarea", "xmp", "iframe", "noembed"} => Results(TextStart(D, s, t), t)
  BY TextStartText
<1>8. \A r : Settled(r) => Results(r, t)
  BY SettledIsMarkup
<1> QED BY <1>1, <1>2, <1>3, <1>4, <1>5, <1>6, <1>7, <1>8 DEF InBodyStart

\* Closing down through an element, and clearing the list after it.
LEMMA EndThroughText ==
    ASSUME NEW s, Settled(s), NEW names, NEW implied
    PROVE  /\ Settled(EndThrough(s, names, implied))
           /\ Settled(clear_the_list_of_active_formatting_elements_up_to_the_last_marker(
                          EndThrough(s, names, implied)))
<1>1. Settled(generate_implied_end_tags(s, implied))
  BY StackSettled
<1>2. Settled(EndThrough(s, names, implied))
  BY <1>1, StackSettled DEF EndThrough
<1> QED BY <1>2, ListSettled

\* The end tags of BlockEnd.
LEMMA BlockEndText ==
    ASSUME NEW D, Keeps(D), KeepsText(D), NEW s, Sane(s), Settled(s), NEW t,
           t.name \in Blocks \cup Headings \cup Embedded
               \cup {"button", "listing", "pre", "p", "li", "dd", "dt"}
    PROVE  Settled(BlockEnd(D, s, t))
<1>1. \A names, implied :
          /\ Settled(EndThrough(s, names, implied))
          /\ Settled(clear_the_list_of_active_formatting_elements_up_to_the_last_marker(
                         EndThrough(s, names, implied)))
  BY EndThroughText
<1>2. Settled(Again(act_as_if_a_start_tag_token_had_been_seen(D, s, "p")))
  BY StartMadeUp, MadeUpSettled, AgainSettled
<1>3. Settled(Ignored(s))
  BY StackSettled
<1> QED BY <1>1, <1>2, <1>3 DEF BlockEnd

\* The end tags of FormEnd.
LEMMA FormEndText ==
    ASSUME NEW s, Settled(s)
    PROVE  Settled(FormEnd(s))
<1>1. PICK r : r = [s EXCEPT !.form = NoElement]
  OBVIOUS
<1>2. Settled(r)
  BY <1>1, FieldsSettled
<1>3. Settled(generate_implied_end_tags(r, {})) /\ Settled(Ignored(r))
  BY <1>2, StackSettled
<1>4. Settled(remove_node_from_the_stack_of_open_elements(
                  generate_implied_end_tags(r, {}), s.form))
  BY <1>3, ListSettled
<1> QED BY <1>1, <1>3, <1>4 DEF FormEnd

\* The end tags of InBodyEnd.
LEMMA InBodyEndText ==
    ASSUME NEW D, Keeps(D), KeepsText(D), NEW s, Sane(s), Settled(s), NEW t
    PROVE  Settled(InBodyEnd(D, s, t))
<1>1. Settled(StructureEnd(D, s, t))
  <2>1. "body" \in Names /\ "after_body" \notin Remembering
    BY NamesHave DEF Remembering
  <2> QED BY <2>1, MadeUpSettled, SwitchSettled DEF StructureEnd
<1>2. t.name \in Blocks \cup Headings \cup Embedded
          \cup {"button", "listing", "pre", "p", "li", "dd", "dt"} => Settled(BlockEnd(D, s, t))
  BY BlockEndText
<1>3. /\ Settled(FormEnd(s)) /\ Settled(adoption_agency_algorithm(s, t))
      /\ Settled(any_other_end_tag_in_body(s, t))
  BY FormEndText, AdoptionSettled, AnyOtherEndSettled
<1>4. Settled(Ignored(act_as_if_a_start_tag_token_had_been_seen(D, s, "br")))
  BY StartMadeUp, MadeUpSettled, StackSettled
<1> QED BY <1>1, <1>2, <1>3, <1>4 DEF InBodyEnd

\* The rules of the mode in_body.
LEMMA InBodyText ==
    ASSUME NEW D, Keeps(D), KeepsText(D), NEW s, Sane(s), Settled(s), NEW t \in Tokens
    PROVE  Results(in_body(D, s, t), t)
<1>1. t.type \in {"start", "end", "comment", "doctype", "eof", "character"}
  BY TokenIs
<1>2. Settled(Ignored(s)) /\ Settled(Write(s)) /\ Settled(stop_parsing(s))
  BY StackSettled, AgainSettled
<1>3. PICK r : r = Write(reconstruct_the_active_formatting_elements(s))
  OBVIOUS
<1>4. Settled(r) /\ Settled([r EXCEPT !.frameset_ok = FALSE])
  BY <1>3, ReconstructSettled, StackSettled, FieldsSettled
<1>5. t.type = "start" => Results(InBodyStart(D, s, t), t)
  BY InBodyStartText
<1>6. Settled(InBodyEnd(D, s, t))
  BY InBodyEndText
<1>7. \A u : Settled(u) => Results(u, t)
  BY SettledIsMarkup
<1> QED BY <1>1, <1>2, <1>3, <1>4, <1>5, <1>6, <1>7 DEF in_body, IsSpace

\* The rules of the mode in_table.
LEMMA InTableToText ==
    ASSUME NEW D, Keeps(D), KeepsText(D), NEW s, Sane(s), Settled(s), NEW t
    PROVE  Results(in_table(D, s, t), t)
<1>1. PICK cleared : cleared = PopTo(s, {"table", "html"})
  OBVIOUS
<1>2. Settled(cleared) /\ Settled(Marked(cleared))
  BY <1>1, StackSettled, ListSettled
<1>3. Settled(Write(s)) /\ Settled(Ignored(s)) /\ Settled(stop_parsing(s)) /\ Settled(s)
  BY StackSettled, AgainSettled
<1>4. t.type = "character" =>
          Results(Again(switch_the_insertion_mode([s EXCEPT !.pending = {}], "in_table_text")), t)
  <2>1. PICK u : u = [s EXCEPT !.pending = {}]
    OBVIOUS
  <2>2. Settled(u)
    BY <2>1, FieldsSettled
  <2>3. PICK v : v = switch_the_insertion_mode(u, "in_table_text")
    OBVIOUS
  <2>4. v = [u EXCEPT !.mode = "in_table_text", !.original = u.mode]
    BY <2>3 DEF switch_the_insertion_mode
  <2>5. /\ HasModes(v) /\ v.content = u.content /\ v.mode = "in_table_text"
        /\ v.original = u.mode /\ v.failure = u.failure
    BY <2>2, <2>4 DEF Settled, HasModes
  <2>6. InMarkup(v)
    BY <2>2, <2>5 DEF InMarkup, Settled
  <2>7. InMarkup(Again(v))
    BY <2>6, FieldsMarkup DEF Again
  <2>8. t.type = "character" => ~Tag(t)
    BY DEF Tag
  <2> QED BY <2>1, <2>3, <2>7, <2>8 DEF Results
<1>5. ASSUME NEW m \in {"in_caption", "in_column_group", "in_table_body"}, NEW r, Settled(r)
      PROVE  Settled(switch_the_insertion_mode(insert_an_HTML_element(r, t.name), m))
  <2>1. m \notin Remembering
    BY <1>5 DEF Remembering
  <2> QED BY <2>1, <1>5, InsertSettled, SwitchSettled
<1>6. /\ Settled(switch_the_insertion_mode(
                     insert_an_HTML_element(Marked(cleared), t.name), "in_caption"))
      /\ Settled(switch_the_insertion_mode(
                     insert_an_HTML_element(cleared, t.name), "in_column_group"))
      /\ Settled(switch_the_insertion_mode(
                     insert_an_HTML_element(cleared, t.name), "in_table_body"))
  BY <1>2, <1>5
<1>7. /\ Settled(Again(act_as_if_a_start_tag_token_had_been_seen(D, s, "colgroup")))
      /\ Settled(Again(act_as_if_a_start_tag_token_had_been_seen(D, s, "tbody")))
  BY StartMadeUp, MadeUpSettled, AgainSettled
<1>8. Settled(EndThenAgain(D, s, "table"))
  <2>1. "table" \in Names
    BY NamesHave
  <2> QED BY <2>1, MadeUpSettled
<1>9. Results(OnBehalf(in_head(D, s, t)), t)
  BY InHeadText, BehalfResults
<1>10. PICK r : r = insert_an_HTML_element(s, t.name)
  OBVIOUS
<1>11. Settled(InsertAndPop(s, t.name)) /\ Settled(Pop([r EXCEPT !.form = Last(r.open)]))
  BY <1>10, InsertSettled, FieldsSettled, StackSettled
<1>12. Settled(reset_the_insertion_mode_appropriately(PopThrough(s, {"table"})))
  BY StackSettled, ResetSettled
<1>13. \A u : Settled(u) => Results(u, t)
  BY SettledIsMarkup
<1> QED BY <1>1, <1>3, <1>4, <1>6, <1>7, <1>8, <1>9, <1>10, <1>11, <1>12, <1>13
        DEF in_table, in_table_insertion_mode_anything_else

\* The characters of a table are left with the token that is no character.
LEMMA InTableTextText ==
    ASSUME NEW s, Sane(s), InMarkup(s), NEW t
    PROVE  Results(in_table_text(s, t), t)
<1>1. CASE t.type = "character"
  <2>1. PICK r : r = [s EXCEPT !.pending = s.pending \cup {t.name}]
    OBVIOUS
  <2>2. InMarkup(in_table_text(s, t))
    <3>1. InMarkup(r) /\ InMarkup(Ignored(s))
      BY <2>1, FieldsMarkup DEF Ignored
    <3>2. in_table_text(s, t) = Ignored(s) \/ in_table_text(s, t) = r
      BY <1>1, <2>1 DEF in_table_text
    <3> QED BY <3>1, <3>2
  <2>3. ~Tag(t)
    BY <1>1 DEF Tag
  <2> QED BY <2>2, <2>3 DEF Results
<1>2. CASE t.type # "character"
  <2>1. PICK w : w = IF s.pending \subseteq {"space", "line feed"} /\ s.pending # {}
                     THEN Write(s)
                     ELSE in_table_insertion_mode_anything_else(s)
    OBVIOUS
  <2>2. w = s \/ w = Fail(s, "null")
    BY <2>1 DEF Write, in_table_insertion_mode_anything_else
  <2>3. /\ HasModes(w) /\ w.content = s.content /\ w.mode = s.mode /\ w.original = s.original
        /\ w.failure = "none" => s.failure = "none"
    <3>1. CASE w = s
      BY <3>1 DEF InMarkup
    <3>2. CASE w = Fail(s, "null")
      <4>1. w = [s EXCEPT !.failure = IF s.failure = "none" THEN "null" ELSE s.failure]
        BY <3>2 DEF Fail
      <4> QED BY <4>1 DEF InMarkup, HasModes
    <3> QED BY <2>2, <3>1, <3>2
  <2>4. PICK r : r = switch_the_insertion_mode(w, s.original)
    OBVIOUS
  <2>5. Settled(r)
    <3>1. r = [w EXCEPT !.mode = s.original,
                        !.original = IF s.original \in Remembering THEN w.mode ELSE w.original]
      BY <2>4 DEF switch_the_insertion_mode, Remembering
    <3>2. /\ HasModes(r) /\ r.content = w.content /\ r.mode = s.original
          /\ r.original = IF s.original \in Remembering THEN w.mode ELSE w.original
          /\ r.failure = w.failure
      BY <2>3, <3>1 DEF HasModes
    <3> QED BY <2>3, <3>2 DEF Settled, InMarkup
  <2>6. in_table_text(s, t) = Again(r)
    BY <1>2, <2>1, <2>4 DEF in_table_text, IsNull
  <2> QED BY <2>5, <2>6, AgainSettled DEF Results
<1> QED BY <1>1, <1>2

\* The rules of the mode in_caption.
LEMMA InCaptionText ==
    ASSUME NEW D, Keeps(D), KeepsText(D), NEW s, Sane(s), Settled(s), NEW t \in Tokens
    PROVE  Results(in_caption(D, s, t), t)
<1>1. Settled(switch_the_insertion_mode(
                  clear_the_list_of_active_formatting_elements_up_to_the_last_marker(
                      EndThrough(s, {"caption"}, {})), "in_table"))
  <2>1. "in_table" \notin Remembering
    BY DEF Remembering
  <2> QED BY <2>1, EndThroughText, SwitchSettled
<1>2. Settled(EndThenAgain(D, s, "caption")) /\ Settled(Ignored(s))
  <2>1. "caption" \in Names
    BY NamesHave
  <2> QED BY <2>1, MadeUpSettled, StackSettled
<1>3. Results(OnBehalf(in_body(D, s, t)), t)
  BY InBodyText, BehalfResults
<1>4. \A u : Settled(u) => Results(u, t)
  BY SettledIsMarkup
<1> QED BY <1>1, <1>2, <1>3, <1>4 DEF in_caption

\* The rules of the mode in_column_group.
LEMMA InColumnGroupText ==
    ASSUME NEW D, Keeps(D), KeepsText(D), NEW s, Sane(s), Settled(s), NEW t
    PROVE  Settled(in_column_group(D, s, t))
<1>1. /\ Settled(Write(s)) /\ Settled(Ignored(s)) /\ Settled(HtmlStartTagInBody(s))
      /\ Settled(stop_parsing(s)) /\ Settled(Pop(s)) /\ Settled(s)
  BY StackSettled, AgainSettled DEF HtmlStartTagInBody
<1>2. Settled(InsertAndPop(s, t.name))
  BY InsertSettled
<1>3. Settled(switch_the_insertion_mode(Pop(s), "in_table"))
  <2>1. "in_table" \notin Remembering
    BY DEF Remembering
  <2> QED BY <2>1, <1>1, SwitchSettled
<1>4. Settled(EndThenAgain(D, s, "colgroup"))
  <2>1. "colgroup" \in Names
    BY NamesHave
  <2> QED BY <2>1, MadeUpSettled
<1> QED BY <1>1, <1>2, <1>3, <1>4 DEF in_column_group

\* The rules of the mode in_table_body.
LEMMA InTableBodyText ==
    ASSUME NEW D, Keeps(D), KeepsText(D), NEW s, Sane(s), Settled(s), NEW t
    PROVE  Results(in_table_body(D, s, t), t)
<1>1. PICK cleared : cleared = PopTo(s, Sections \cup {"html"})
  OBVIOUS
<1>2. Sane(cleared) /\ Settled(cleared) /\ Settled(Ignored(s))
  BY <1>1, PopToSane, StackSettled
<1>3. "in_row" \notin Remembering /\ "in_table" \notin Remembering
  BY DEF Remembering
<1>4. Settled(switch_the_insertion_mode(insert_an_HTML_element(cleared, t.name), "in_row"))
  BY <1>2, <1>3, InsertSettled, SwitchSettled
<1>5. Settled(Again(act_as_if_a_start_tag_token_had_been_seen(D, s, "tr")))
  BY StartMadeUp, MadeUpSettled, AgainSettled
<1>6. cleared.open # <<>> =>
          Settled(Again(act_as_if_an_end_tag_token_had_been_seen(D, cleared,
                            Last(cleared.open).name)))
  <2>1. ASSUME cleared.open # <<>> PROVE Last(cleared.open).name \in Names
    <3>1. cleared.open \in Seq(Elements)
      BY <1>2, SaneIs
    <3>2. Last(cleared.open) \in Elements
      BY <2>1, <3>1 DEF Last
    <3> QED BY <3>2 DEF Elements
  <2> QED BY <2>1, <1>2, MadeUpSettled, AgainSettled
<1>7. Settled(switch_the_insertion_mode(Pop(cleared), "in_table"))
  BY <1>2, <1>3, StackSettled, SwitchSettled
<1>8. Results(OnBehalf(in_table(D, s, t)), t)
  BY InTableToText, BehalfResults
<1>9. \A u : Settled(u) => Results(u, t)
  BY SettledIsMarkup
<1> QED BY <1>1, <1>2, <1>4, <1>5, <1>6, <1>7, <1>8, <1>9 DEF in_table_body

\* The rules of the mode in_row.
LEMMA InRowText ==
    ASSUME NEW D, Keeps(D), KeepsText(D), NEW s, Sane(s), Settled(s), NEW t
    PROVE  Results(in_row(D, s, t), t)
<1>1. PICK cleared : cleared = PopTo(s, {"tr", "html"})
  OBVIOUS
<1>2. Settled(cleared) /\ Settled(Pop(cleared)) /\ Settled(Ignored(s))
  BY <1>1, StackSettled
<1>3. "in_cell" \notin Remembering /\ "in_table_body" \notin Remembering /\ "tr" \in Names
  BY NamesHave DEF Remembering
<1>4. Settled(Marked(switch_the_insertion_mode(
                  insert_an_HTML_element(cleared, t.name), "in_cell")))
  BY <1>2, <1>3, InsertSettled, SwitchSettled, ListSettled
<1>5. /\ Settled(EndThenAgain(D, s, "tr"))
      /\ Settled(Again(act_as_if_an_end_tag_token_had_been_seen(D, s, "tr")))
  BY <1>3, MadeUpSettled, AgainSettled
<1>6. Settled(switch_the_insertion_mode(Pop(cleared), "in_table_body"))
  BY <1>2, <1>3, SwitchSettled
<1>7. Results(OnBehalf(in_table(D, s, t)), t)
  BY InTableToText, BehalfResults
<1>8. \A u : Settled(u) => Results(u, t)
  BY SettledIsMarkup
<1> QED BY <1>1, <1>2, <1>4, <1>5, <1>6, <1>7, <1>8 DEF in_row

\* The rules of the mode in_cell.
LEMMA InCellText ==
    ASSUME NEW D, Keeps(D), KeepsText(D), NEW s, Sane(s), Settled(s), NEW t \in Tokens
    PROVE  Results(in_cell(D, s, t), t)
<1>1. Settled(Again(close_the_cell(D, s))) /\ Settled(Ignored(s))
  <2>1. "td" \in Names /\ "th" \in Names
    BY NamesHave
  <2>2. Settled(close_the_cell(D, s))
    BY <2>1, MadeUpSettled DEF close_the_cell
  <2> QED BY <2>2, AgainSettled, StackSettled
<1>2. Settled(switch_the_insertion_mode(
                  clear_the_list_of_active_formatting_elements_up_to_the_last_marker(
                      EndThrough(s, {t.name}, {})), "in_row"))
  <2>1. "in_row" \notin Remembering
    BY DEF Remembering
  <2> QED BY <2>1, EndThroughText, SwitchSettled
<1>3. Results(OnBehalf(in_body(D, s, t)), t)
  BY InBodyText, BehalfResults
<1>4. \A u : Settled(u) => Results(u, t)
  BY SettledIsMarkup
<1> QED BY <1>1, <1>2, <1>3, <1>4 DEF in_cell

\* The rules of the mode in_select.
LEMMA InSelectText ==
    ASSUME NEW D, Keeps(D), KeepsText(D), NEW s, Sane(s), Settled(s), NEW t
    PROVE  Results(in_select(D, s, t), t)
<1>1. "option" \in Names /\ "optgroup" \in Names /\ "select" \in Names
  BY NamesHave
<1>2. PICK no_option : no_option = IF CurrentIs(s, {"option"})
                           THEN act_as_if_an_end_tag_token_had_been_seen(D, s, "option")
                           ELSE s
  OBVIOUS
<1>3. Sane(no_option) /\ Settled(no_option)
  BY <1>1, <1>2, MadeUpSane, MadeUpSettled
<1>4. /\ Settled(Ignored(s)) /\ Settled(Write(s)) /\ Settled(HtmlStartTagInBody(s))
      /\ Settled(stop_parsing(s)) /\ Settled(Pop(s)) /\ Settled(s)
  BY StackSettled, AgainSettled DEF HtmlStartTagInBody
<1>5. Settled(insert_an_HTML_element(no_option, t.name))
  BY <1>3, InsertSettled
<1>6. Settled(insert_an_HTML_element(
                  IF CurrentIs(no_option, {"optgroup"})
                  THEN act_as_if_an_end_tag_token_had_been_seen(D, no_option, "optgroup")
                  ELSE no_option, t.name))
  <2>1. Settled(act_as_if_an_end_tag_token_had_been_seen(D, no_option, "optgroup"))
    BY <1>1, <1>3, MadeUpSettled
  <2> QED BY <2>1, <1>3, InsertSettled
<1>7. Settled(act_as_if_an_end_tag_token_had_been_seen(D, s, "select"))
  BY <1>1, MadeUpSettled
<1>8. Settled(Again(act_as_if_an_end_tag_token_had_been_seen(D, s, "select")))
  BY <1>7, AgainSettled
<1>9. Results(OnBehalf(in_head(D, s, t)), t)
  BY InHeadText, BehalfResults
<1>10. PICK closed : closed = IF Len(s.open) - 1 >= 1 /\ s.open[Len(s.open) - 1].name = "optgroup"
                              THEN no_option ELSE s
  OBVIOUS
<1>11. Settled(IF CurrentIs(closed, {"optgroup"}) THEN Pop(closed) ELSE Ignored(closed))
  BY <1>3, <1>10, StackSettled
<1>12. Settled(reset_the_insertion_mode_appropriately(PopThrough(s, {"select"})))
  BY StackSettled, ResetSettled
<1>13. \A u : Settled(u) => Results(u, t)
  BY SettledIsMarkup
<1> QED BY <1>2, <1>4, <1>5, <1>6, <1>7, <1>8, <1>9, <1>10, <1>11, <1>12, <1>13 DEF in_select

\* The rules of the mode in_select_in_table.
LEMMA InSelectInTableText ==
    ASSUME NEW D, Keeps(D), KeepsText(D), NEW s, Sane(s), Settled(s), NEW t
    PROVE  Results(in_select_in_table(D, s, t), t)
<1>1. Settled(Again(act_as_if_an_end_tag_token_had_been_seen(D, s, "select")))
  <2>1. "select" \in Names
    BY NamesHave
  <2> QED BY <2>1, MadeUpSettled, AgainSettled
<1>2. Results(OnBehalf(in_select(D, s, t)), t)
  BY InSelectText, BehalfResults
<1>3. Settled(Ignored(s))
  BY StackSettled
<1>4. \A u : Settled(u) => Results(u, t)
  BY SettledIsMarkup
<1> QED BY <1>1, <1>2, <1>3, <1>4 DEF in_select_in_table

\* The rules of the modes after the body.
LEMMA AfterBodyText ==
    ASSUME NEW D, Keeps(D), KeepsText(D), NEW s, Sane(s), Settled(s), NEW t \in Tokens
    PROVE  Results(after_body(D, s, t), t) /\ Results(after_after_body(D, s, t), t)
<1>1. Results(OnBehalf(in_body(D, s, t)), t)
  BY InBodyText, BehalfResults
<1>2. /\ Settled(Ignored(s)) /\ Settled(Write(s)) /\ Settled(HtmlStartTagInBody(s))
      /\ Settled(stop_parsing(s)) /\ Settled(s)
  BY StackSettled, AgainSettled DEF HtmlStartTagInBody
<1>3. /\ Settled(switch_the_insertion_mode(s, "after_after_body"))
      /\ Settled(Again(switch_the_insertion_mode(s, "in_body")))
  <2>1. "after_after_body" \notin Remembering /\ "in_body" \notin Remembering
    BY DEF Remembering
  <2> QED BY <2>1, SwitchSettled, AgainSettled
<1>4. \A u : Settled(u) => Results(u, t)
  BY SettledIsMarkup
<1>5. Results(after_body(D, s, t), t)
  BY <1>1, <1>2, <1>3, <1>4 DEF after_body
<1>6. Results(after_after_body(D, s, t), t)
  BY <1>1, <1>2, <1>3, <1>4 DEF after_after_body
<1> QED BY <1>5, <1>6

\* The modes of a frameset.
LEMMA FramesetText ==
    ASSUME NEW D, Keeps(D), KeepsText(D), NEW s, Sane(s), Settled(s), NEW t \in Tokens
    PROVE  /\ Results(in_frameset(D, s, t), t) /\ Results(after_frameset(D, s, t), t)
           /\ Results(after_after_frameset(D, s, t), t)
<1>1. /\ Settled(Ignored(s)) /\ Settled(Write(s)) /\ Settled(HtmlStartTagInBody(s))
      /\ Settled(stop_parsing(s)) /\ Settled(Pop(s)) /\ Settled(s)
  BY StackSettled, AgainSettled DEF HtmlStartTagInBody
<1>2. Settled(insert_an_HTML_element(s, t.name)) /\ Settled(InsertAndPop(s, t.name))
  BY InsertSettled
<1>3. Results(OnBehalf(in_head(D, s, t)), t) /\ Results(OnBehalf(in_body(D, s, t)), t)
  BY InHeadText, InBodyText, BehalfResults
<1>4. "after_frameset" \notin Remembering /\ "after_after_frameset" \notin Remembering
  BY DEF Remembering
<1>5. PICK r : r = IF Len(s.open) = 1 THEN Ignored(s) ELSE Pop(s)
  OBVIOUS
<1>6. Settled(r) /\ Settled(switch_the_insertion_mode(r, "after_frameset"))
  BY <1>1, <1>4, <1>5, SwitchSettled
<1>7. Settled(switch_the_insertion_mode(s, "after_after_frameset"))
  BY <1>4, SwitchSettled
<1>8. \A u : Settled(u) => Results(u, t)
  BY SettledIsMarkup
<1>9. Results(in_frameset(D, s, t), t)
  BY <1>1, <1>2, <1>3, <1>5, <1>6, <1>8 DEF in_frameset
<1>10. Results(after_frameset(D, s, t), t)
  BY <1>1, <1>3, <1>7, <1>8 DEF after_frameset
<1>11. Results(after_after_frameset(D, s, t), t)
  BY <1>1, <1>3, <1>8 DEF after_after_frameset
<1> QED BY <1>9, <1>10, <1>11

\* So the rules of every mode but text turn markup into markup, or into text.
LEMMA RulesText ==
    ASSUME NEW D, Keeps(D), KeepsText(D), NEW s, Sane(s), InMarkup(s), s.failure = "none",
           NEW t \in Tokens
    PROVE  Results(Rules(D, s, t), t)
<1>1. s.mode \in Modes /\ s.mode # "text"
  <2>1. s \in Trees
    BY SaneIs
  <2> QED BY <2>1 DEF Trees, InMarkup
<1>2. CASE s.mode = "in_table_text"
  <2>1. Rules(D, s, t) = in_table_text(s, t)
    BY <1>2 DEF Rules
  <2> QED BY <2>1, InTableTextText
<1>3. CASE s.mode # "in_table_text"
  <2>1. Settled(s)
    BY <1>1, <1>3 DEF Settled, InMarkup, Remembering
  <2>2. /\ Settled(initial(s, t)) /\ Settled(before_html(s, t)) /\ Settled(before_head(D, s, t))
        /\ Settled(in_column_group(D, s, t))
    BY <2>1, InitialText, BeforeHeadText, InColumnGroupText
  <2>3. /\ Results(initial(s, t), t) /\ Results(before_html(s, t), t)
        /\ Results(before_head(D, s, t), t) /\ Results(in_column_group(D, s, t), t)
    BY <2>2, SettledIsMarkup
  <2>4. /\ Results(in_head(D, s, t), t) /\ Results(in_head_noscript(D, s, t), t)
        /\ Results(after_head(D, s, t), t) /\ Results(in_body(D, s, t), t)
        /\ Results(in_table(D, s, t), t) /\ Results(in_caption(D, s, t), t)
    BY <2>1, InHeadText, InHeadNoscriptText, AfterHeadText, InBodyText, InTableToText,
       InCaptionText
  <2>5. /\ Results(in_table_body(D, s, t), t) /\ Results(in_row(D, s, t), t)
        /\ Results(in_cell(D, s, t), t) /\ Results(in_select(D, s, t), t)
        /\ Results(in_select_in_table(D, s, t), t)
    BY <2>1, InTableBodyText, InRowText, InCellText, InSelectText, InSelectInTableText
  <2>6. /\ Results(after_body(D, s, t), t) /\ Results(after_after_body(D, s, t), t)
        /\ Results(in_frameset(D, s, t), t) /\ Results(after_frameset(D, s, t), t)
        /\ Results(after_after_frameset(D, s, t), t)
    BY <2>1, AfterBodyText, FramesetText
  <2> QED BY <1>1, <1>3, <2>3, <2>4, <2>5, <2>6 DEF Rules, Modes
<1> QED BY <1>2, <1>3

\* The rules of the text mode: characters stay in it, and an end tag goes back.
LEMMA TextRules ==
    ASSUME NEW s, s \in Trees, InText(s), ~s.reprocess, NEW t, t.type # "eof"
    PROVE  /\ ~text(s, t).reprocess
           /\ t.type # "end" => InText(text(s, t))
           /\ t.type = "end" => AfterText(text(s, t))
<1>1. PICK f : f = Fail(s, "null")
  OBVIOUS
<1>2. f = [s EXCEPT !.failure = IF s.failure = "none" THEN "null" ELSE s.failure]
  BY <1>1 DEF Fail
<1>3. f.failure # "none" /\ ~f.reprocess /\ HasModes(f)
  BY <1>2 DEF Trees, HasModes
<1>4. InText(f)
  BY <1>3 DEF InText
<1>5. CASE t.type # "end"
  <2>1. text(s, t) = s \/ text(s, t) = f
    BY <1>1, <1>5 DEF text, Write
  <2> QED BY <2>1, <1>3, <1>4, <1>5
<1>6. CASE t.type = "end"
  <2>1. PICK w : w = Pop(s)
    OBVIOUS
  <2>2. /\ HasModes(w) /\ w.original = s.original /\ ~w.reprocess
        /\ w.failure = "none" => s.failure = "none"
    <3>1. CASE s.open = <<>>
      <4>1. w = [s EXCEPT !.failure = IF s.failure = "none" THEN "empty" ELSE s.failure]
        BY <2>1, <3>1 DEF Pop, Fail
      <4> QED BY <4>1 DEF Trees, HasModes
    <3>2. CASE s.open # <<>>
      <4>1. w = [s EXCEPT !.open = SubSeq(s.open, 1, Len(s.open) - 1)]
        BY <2>1, <3>2 DEF Pop, Shrunk
      <4> QED BY <4>1 DEF Trees, HasModes
    <3> QED BY <3>1, <3>2
  <2>3. PICK r : r = switch_the_insertion_mode(w, s.original)
    OBVIOUS
  <2>4. r = [w EXCEPT !.mode = s.original,
                      !.original = IF s.original \in Remembering THEN w.mode ELSE w.original]
    BY <2>3 DEF switch_the_insertion_mode, Remembering
  <2>5. "reprocess" \in DOMAIN w
    BY <2>1 DEF Pop, Shrunk, Fail, Trees
  <2>6. /\ HasModes(r) /\ r.mode = s.original /\ ~r.reprocess /\ r.failure = w.failure
        /\ r.original = IF s.original \in Remembering THEN w.mode ELSE w.original
    BY <2>2, <2>4, <2>5 DEF HasModes
  <2>7. AfterText(r)
    BY <2>2, <2>6 DEF AfterText, InText
  <2>8. text(s, t) = r
    BY <1>6, <2>1, <2>3 DEF text
  <2> QED BY <1>6, <2>6, <2>7, <2>8
<1> QED BY <1>5, <1>6

\* A dispatcher of which each reprocessing keeps text and markup apart does so too.
LEMMA DispatchedText ==
    ASSUME NEW D, Keeps(D), KeepsText(D)
    PROVE  KeepsText(Dispatched(D))
<1>1. SUFFICES ASSUME NEW s \in Trees, NEW t \in Tokens, Sane(s), t.type # "eof"
               PROVE  /\ InMarkup(s) => Results(Dispatched(D)[s][t], t)
                      /\ InText(s) /\ t.type # "end" => InText(Dispatched(D)[s][t])
                      /\ InText(s) /\ t.type = "end" => AfterText(Dispatched(D)[s][t])
  BY DEF KeepsText
<1>2. PICK r : r = apply_the_rules_for(D, s, t)
  OBVIOUS
<1>3. Sane(r) /\ r \in Trees
  BY <1>1, <1>2, AppliedSane, SaneIs
<1>4. Dispatched(D)[s][t] = IF s.failure # "none" THEN s ELSE Reprocessed(D, r, t)
  BY <1>2 DEF Dispatched
<1>5. CASE s.failure # "none"
  <2>1. Dispatched(D)[s][t] = s
    BY <1>4, <1>5
  <2>2. HasModes(s)
    BY <1>1, SaneHasModes
  <2> QED BY <2>1, <2>2, <1>5 DEF InMarkup, InText, Results, Settled, AfterText
<1>6. PICK u : u = [s EXCEPT !.ignored = FALSE, !.reprocess = FALSE, !.ignore_line_feed = FALSE]
  OBVIOUS
<1>7. /\ u \in Trees /\ u.mode = s.mode /\ u.original = s.original /\ u.content = s.content
      /\ u.failure = s.failure /\ ~u.reprocess /\ ~u.ignored
  BY <1>6 DEF Trees
<1>8. Sane(u)
  <2>1. u.open = s.open /\ u.formatting = s.formatting /\ u.head = s.head
    BY <1>6 DEF Trees
  <2> QED BY <1>1, <1>7, <2>1, SaneFrame
<1>9. HasModes(u) /\ (InMarkup(s) => InMarkup(u)) /\ (InText(s) => InText(u))
  <2>1. HasModes(u)
    BY <1>8, SaneHasModes
  <2> QED BY <1>7, <2>1 DEF InMarkup, InText
<1>10. (r = Ignored(u) /\ t.type = "character") \/ r = Rules(D, u, t)
  BY <1>2, <1>6 DEF apply_the_rules_for
<1>11. PICK g : g = Ignored(u)
  OBVIOUS
<1>12. g = [u EXCEPT !.ignored = TRUE] /\ ~g.reprocess
  BY <1>7, <1>11 DEF Ignored, Trees
<1>13. ASSUME s.failure = "none", InMarkup(s) PROVE Results(Dispatched(D)[s][t], t)
  <2>1. Results(r, t)
    <3>1. CASE r = g /\ t.type = "character"
      <4>1. InMarkup(g)
        BY <1>9, <1>12, <1>13, FieldsMarkup
      <4> QED BY <3>1, <4>1 DEF Results, Tag
    <3>2. CASE r = Rules(D, u, t)
      BY <3>2, <1>7, <1>8, <1>9, <1>13, RulesText
    <3> QED BY <3>1, <3>2, <1>10, <1>11
  <2>2. CASE ~r.reprocess
    <3>1. Dispatched(D)[s][t] = r
      BY <1>4, <1>13, <2>2 DEF Reprocessed
    <3> QED BY <2>1, <3>1
  <2>3. CASE r.reprocess
    <3>1. Dispatched(D)[s][t] = D[r][t]
      BY <1>4, <1>13, <2>3 DEF Reprocessed
    <3>2. CASE InMarkup(r)
      BY <3>1, <3>2, <1>1, <1>3 DEF KeepsText
    <3>3. CASE InText(r) /\ OpensText(t)
      <4>1. t.type # "end"
        BY <3>3 DEF OpensText, IsStart
      <4>2. InText(D[r][t])
        BY <3>3, <4>1, <1>1, <1>3 DEF KeepsText
      <4> QED BY <3>1, <3>3, <4>2 DEF Results
    <3> QED BY <2>1, <3>2, <3>3, SettledIsMarkup DEF Results
  <2> QED BY <2>2, <2>3
<1>14. ASSUME s.failure = "none", InText(s)
       PROVE  /\ t.type # "end" => InText(Dispatched(D)[s][t])
              /\ t.type = "end" => AfterText(Dispatched(D)[s][t])
  <2>1. Rules(D, u, t) = text(u, t)
    <3>1. u.mode = "text"
      BY <1>7, <1>14 DEF InText
    <3> QED BY <3>1 DEF Rules
  <2>2. /\ ~r.reprocess
        /\ t.type # "end" => InText(r)
        /\ t.type = "end" => AfterText(r)
    <3>1. CASE r = g /\ t.type = "character"
      <4>1. InText(g)
        BY <1>9, <1>12, <1>14, FieldsText
      <4> QED BY <3>1, <4>1, <1>12
    <3>2. CASE r = text(u, t)
      BY <3>2, <1>1, <1>7, <1>9, <1>14, TextRules
    <3> QED BY <3>1, <3>2, <1>10, <1>11, <2>1
  <2>3. Dispatched(D)[s][t] = r
    BY <1>4, <1>14, <2>2 DEF Reprocessed
  <2> QED BY <2>2, <2>3
<1> QED BY <1>5, <1>13, <1>14

\* Without room it fails
LEMMA UnboundedText == KeepsText(Unbounded)
<1>1. SUFFICES ASSUME NEW s \in Trees, NEW t \in Tokens
               PROVE  Unbounded[s][t].failure # "none" /\ HasModes(Unbounded[s][t])
  BY DEF KeepsText, Results, Settled, InText, AfterText
<1>2. Unbounded[s][t] = Fail(s, "overflow")
  BY DEF Unbounded
<1> QED BY <1>2 DEF Fail, Trees, HasModes

\* and so with any room it keeps them apart.
LEMMA WithinText == \A n \in Nat : KeepsText(DispatchedWithin[n])
<1>1. SUFFICES ASSUME NEW n \in Nat, ~KeepsText(DispatchedWithin[n]) PROVE FALSE
  OBVIOUS
<1>2. PICK I : I = {k \in Nat : ~KeepsText(DispatchedWithin[k])}
  OBVIOUS
<1>3. I \in SUBSET Nat /\ I # {}
  BY <1>1, <1>2
<1>4. PICK k : k = Min(I)
  OBVIOUS
<1>5. k \in I /\ \A i \in I : k <= i
  BY <1>3, <1>4, Least
<1>6. k \in Nat /\ ~KeepsText(DispatchedWithin[k])
  BY <1>2, <1>5
<1>7. k # 0
  BY <1>6, UnboundedText, DispatchedWithinRoom
<1>8. k - 1 \in Nat /\ k - 1 \notin I
  BY <1>5, <1>6, <1>7
<1>9. KeepsText(DispatchedWithin[k - 1])
  BY <1>2, <1>8
<1>10. DispatchedWithin[k] = Dispatched(DispatchedWithin[k - 1])
  BY <1>6, <1>7, DispatchedWithinRoom
<1> QED BY <1>6, <1>8, <1>9, <1>10, WithinKeeps, DispatchedText

\* Until the document has ended, the constructor and the tokenizer agree on text and markup.
Agreed == tree.ended \/ InMarkup(tree) \/ InText(tree)

\* A token keeps the agreement, by the content that the stream goes on with.
LEMMA WriteElementAgreed ==
    ASSUME NEW t \in Tokens, IInv, Agreed, write_element(t)
    PROVE  Agreed'
<1>1. Sane(tree) /\ tree \in Trees
  BY SaneIs DEF IInv
<1>2. PICK s : s = tree_construction_dispatcher(tree, t)
  OBVIOUS
<1>3. Sane(s) /\ s \in Trees
  BY <1>1, <1>2, DispatcherSane, SaneIs
<1>4. PICK given : given = TS!Given(Stream, TS!Token(t.type, t.name, s.content))
  OBVIOUS
<1>5. /\ given.ended = (tree.ended \/ t.type = "eof")
      /\ given.content = CASE t.type = "start" -> s.content
                           [] t.type = "end"   -> "data"
                           [] OTHER            -> tree.content
  BY <1>4 DEF TS!Given, TS!Token, Stream
<1>6. /\ ~tree.ended
      /\ t.type \in {"start", "comment", "doctype"} => tree.content = "data"
  BY DEF TS!Legal, Stream, write_element
<1>7. tree' = [s EXCEPT !.ignored = FALSE, !.reprocess = FALSE, !.content = given.content,
                        !.last = given.last, !.ended = given.ended]
  BY <1>2, <1>4 DEF Constructed, write_element
<1>8. /\ tree'.ended = given.ended /\ tree'.mode = s.mode /\ tree'.original = s.original
      /\ tree'.content = given.content /\ tree'.failure = s.failure /\ HasModes(tree')
  BY <1>3, <1>7 DEF Trees, HasModes
<1>9. CASE t.type = "eof"
  BY <1>5, <1>8, <1>9 DEF Agreed
<1>10. CASE t.type # "eof" /\ s.failure # "none"
  BY <1>8, <1>10 DEF Agreed, InMarkup
<1>11. CASE t.type # "eof" /\ s.failure = "none" /\ InMarkup(tree)
  <2>1. Results(s, t)
    <3>1. KeepsText(DispatchedWithin[MaxDispatch])
      BY WithinText, DispatchAssumption
    <3> QED BY <3>1, <1>1, <1>2, <1>11 DEF KeepsText, tree_construction_dispatcher
  <2>2. "data" \in Markup
    BY DEF Markup
  <2>3. tree.failure = "none" /\ tree.content \in Markup
    BY <1>11 DEF InMarkup, write_element
  <2>4. CASE InMarkup(s)
    <3>1. given.content \in Markup
      BY <1>5, <1>11, <2>2, <2>3, <2>4 DEF InMarkup
    <3>2. InMarkup(tree')
      BY <3>1, <1>8, <1>11, <2>4 DEF InMarkup
    <3> QED BY <3>2 DEF Agreed, InMarkup
  <2>5. CASE InText(s) /\ OpensText(t)
    <3>1. given.content = s.content
      BY <1>5, <2>5 DEF OpensText, IsStart
    <3>2. InText(tree')
      BY <3>1, <1>8, <1>11, <2>5 DEF InText
    <3> QED BY <3>2 DEF Agreed, InText
  <2> QED BY <2>1, <2>4, <2>5, SettledIsMarkup DEF Results
<1>12. CASE t.type # "eof" /\ s.failure = "none" /\ InText(tree)
  <2>1. KeepsText(DispatchedWithin[MaxDispatch])
    BY WithinText, DispatchAssumption
  <2>2. tree.failure = "none" /\ tree.content \notin Markup
    BY <1>12 DEF InText, write_element
  <2>3. CASE t.type = "end"
    <3>1. AfterText(s)
      BY <2>1, <2>3, <1>1, <1>2, <1>12 DEF KeepsText, tree_construction_dispatcher
    <3>2. given.content = "data"
      BY <1>5, <2>3
    <3>3. InMarkup(tree')
      BY <3>1, <3>2, <1>8, <1>12 DEF InMarkup, AfterText, Markup, Remembering
    <3> QED BY <3>3 DEF Agreed, InMarkup
  <2>4. CASE t.type # "end"
    <3>1. InText(s)
      BY <2>1, <2>4, <1>1, <1>2, <1>12 DEF KeepsText, tree_construction_dispatcher
    <3>2. t.type # "start"
      BY <1>6, <2>2 DEF Markup
    <3>3. given.content = tree.content
      BY <1>5, <2>4, <3>2
    <3>4. InText(tree')
      BY <3>1, <3>3, <1>8, <1>12, <2>2 DEF InText
    <3> QED BY <3>4 DEF Agreed, InText
  <2> QED BY <2>3, <2>4
<1> QED BY <1>6, <1>9, <1>10, <1>11, <1>12 DEF Agreed

\* The mode is text exactly while the tokenizer reads text, whatever is dispatched inside
\* another: a text element is only opened for a tag of the document, and the end tag that the
\* tokenizer waits for is the next one that the constructor gets.
THEOREM TreeTextMode == Spec => []TextMode
<1>1. Init => Agreed
  <2>1. SUFFICES ASSUME Init PROVE InMarkup(tree)
    BY DEF Agreed
  <2>2. /\ tree.mode = "initial" /\ tree.original = "initial" /\ tree.content = "data"
        /\ HasModes(tree)
    BY <2>1 DEF Init, HasModes
  <2> QED BY <2>2 DEF InMarkup, Markup, Remembering
<1>2. ASSUME IInv, Agreed, [Next]_vars PROVE Agreed'
  <2>1. PICK t \in Tokens : write_element(t) \/ UNCHANGED vars
    BY <1>2, NextTakesToken
  <2>2. CASE write_element(t)
    BY <1>2, <2>2, WriteElementAgreed
  <2>3. CASE UNCHANGED vars
    BY <1>2, <2>3 DEF vars, Agreed, InMarkup, InText, HasModes
  <2> QED BY <2>1, <2>2, <2>3
<1>3. Agreed /\ EofStops => TextMode
  BY DEF Agreed, EofStops, TextMode, Running, InMarkup, InText, Markup
<1> QED BY <1>1, <1>2, <1>3, TreeSafety, TreeStops, PTL DEF Spec

===============================================================================
