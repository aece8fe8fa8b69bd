------------------------------ MODULE SumsProofs ------------------------------
(***************************************************************************)
(* What SumOver does to a sum of naturals over a finite set.               *)
(***************************************************************************)
EXTENDS Sums, FiniteSetTheorems, TLAPS

(* Which pairs are units. *)
LEMMA UnitsMembers ==
  ASSUME NEW S, NEW a \in [S -> Nat]
  PROVE  /\ \A x \in S, i \in Nat : <<x, i>> \in Units(a) <=> i \in 1 .. a[x]
         /\ \A u \in Units(a) : \E x \in S, i \in Nat : i \in 1 .. a[x] /\ u = <<x, i>>
  BY DEF Units

(* The units of one argument, between two values. *)
LEMMA UnitsOfOne ==
  ASSUME NEW x, NEW I, IsFiniteSet(I)
  PROVE  IsFiniteSet({x} \X I) /\ Cardinality({x} \X I) = Cardinality(I)
<1>1. IsFiniteSet({x}) /\ Cardinality({x}) = 1
  BY FS_Singleton
<1>2. IsFiniteSet({x} \X I) /\ Cardinality({x} \X I) = Cardinality({x}) * Cardinality(I)
  BY <1>1, FS_Product
<1>3. Cardinality(I) \in Nat
  BY FS_CardinalityType
<1>4. Cardinality({x} \X I) = Cardinality(I)
  BY <1>1, <1>2, <1>3
<1> QED BY <1>2, <1>4

LEMMA IntervalSize ==
  ASSUME NEW m \in Nat, NEW n \in Nat
  PROVE  IsFiniteSet((m + 1) .. (m + n)) /\ Cardinality((m + 1) .. (m + n)) = n
<1> DEFINE lo == m + 1
           hi == m + n
<1>1. lo \in Int /\ hi \in Int /\ n = IF lo > hi THEN 0 ELSE hi - lo + 1
  OBVIOUS
<1>2. IsFiniteSet(lo .. hi) /\ Cardinality(lo .. hi) = n
  <2> HIDE DEF lo, hi
  <2> QED BY <1>1, FS_Interval
<1> QED BY <1>2

LEMMA SizeUpTo ==
  ASSUME NEW n \in Nat
  PROVE  IsFiniteSet(1 .. n) /\ Cardinality(1 .. n) = n
<1>1. IsFiniteSet((0 + 1) .. (0 + n)) /\ Cardinality((0 + 1) .. (0 + n)) = n
  BY IntervalSize
<1> QED BY <1>1

(* A sum of finitely many naturals is a natural. *)
LEMMA SumType ==
  ASSUME NEW S, IsFiniteSet(S), NEW a \in [S -> Nat]
  PROVE  IsFiniteSet(Units(a)) /\ SumOver(a) \in Nat
<1> DEFINE f == [x \in S |-> {x} \X (1 .. a[x])]
           T == {{x} \X (1 .. a[x]) : x \in S}
<1>1. f \in Surjection(S, T)
  BY DEF Surjection
<1>2. IsFiniteSet(T)
  BY <1>1, FS_Surjection
<1>3. ASSUME NEW t \in T PROVE IsFiniteSet(t)
  <2>1. PICK x \in S : t = {x} \X (1 .. a[x])
    OBVIOUS
  <2> DEFINE I == 1 .. a[x]
  <2>2. IsFiniteSet(I)
    BY SizeUpTo
  <2> HIDE DEF I
  <2>3. IsFiniteSet({x} \X I)
    BY <2>2, UnitsOfOne
  <2> QED BY <2>1, <2>3 DEF I
<1>4. Units(a) = UNION T
  BY DEF Units
<1>5. IsFiniteSet(Units(a))
  BY <1>2, <1>3, <1>4, FS_UNION
<1> QED BY <1>5, FS_CardinalityType DEF SumOver

(* Nothing but zeros. *)
LEMMA SumOfZeros ==
  ASSUME NEW S, NEW a \in [S -> Nat], \A x \in S : a[x] = 0
  PROVE  SumOver(a) = 0
<1>1. Units(a) = {}
  BY DEF Units
<1> QED BY <1>1, FS_EmptySet DEF SumOver

(* Fewer and smaller values have a smaller sum. *)
LEMMA SumMonotone ==
  ASSUME NEW S, IsFiniteSet(S), NEW a \in [S -> Nat],
         NEW T \in SUBSET S, NEW b \in [T -> Nat], \A x \in T : b[x] <= a[x]
  PROVE  SumOver(b) <= SumOver(a)
<1>1. Units(b) \subseteq Units(a)
  <2> SUFFICES ASSUME NEW u \in Units(b) PROVE u \in Units(a)
    OBVIOUS
  <2>1. PICK x \in T, i \in Nat : i \in 1 .. b[x] /\ u = <<x, i>>
    BY UnitsMembers
  <2>2. i \in 1 .. a[x] /\ x \in S
    BY <2>1
  <2> QED BY <2>1, <2>2, UnitsMembers
<1>2. IsFiniteSet(Units(a))
  BY SumType
<1> QED BY <1>1, <1>2, FS_Subset DEF SumOver

(* No value is larger than the sum. *)
LEMMA SumHoldsEach ==
  ASSUME NEW S, IsFiniteSet(S), NEW a \in [S -> Nat], NEW x \in S
  PROVE  a[x] <= SumOver(a)
<1> DEFINE I == 1 .. a[x]
           U == {x} \X I
<1>3. Cardinality(U) = a[x]
  <2>1. IsFiniteSet(I) /\ Cardinality(I) = a[x]
    BY SizeUpTo
  <2> HIDE DEF I
  <2> QED BY <2>1, UnitsOfOne
<1>4. U \subseteq Units(a)
  BY DEF Units
<1>5. IsFiniteSet(Units(a))
  BY SumType
<1> QED BY <1>3, <1>4, <1>5, FS_Subset DEF SumOver

(* One value grows, and the sum grows with it. *)
LEMMA SumGrows ==
  ASSUME NEW S, IsFiniteSet(S), NEW a \in [S -> Nat], NEW b \in [S -> Nat],
         NEW x \in S, NEW n \in Nat, b[x] = a[x] + n, \A y \in S \ {x} : b[y] = a[y]
  PROVE  SumOver(b) = SumOver(a) + n
<1> DEFINE I == (a[x] + 1) .. (a[x] + n)
           U == {x} \X I
<1>3. IsFiniteSet(U) /\ Cardinality(U) = n
  <2>1. IsFiniteSet(I) /\ Cardinality(I) = n
    <3> DEFINE m == a[x]
    <3>1. m \in Nat
      OBVIOUS
    <3>2. IsFiniteSet((m + 1) .. (m + n)) /\ Cardinality((m + 1) .. (m + n)) = n
      <4> HIDE DEF m
      <4> QED BY <3>1, IntervalSize
    <3> QED BY <3>2
  <2> HIDE DEF I
  <2> QED BY <2>1, UnitsOfOne
<1>4. Units(b) = Units(a) \union U
  <2>1. ASSUME NEW u \in Units(b) PROVE u \in Units(a) \union U
    <3>1. PICK y \in S, i \in Nat : i \in 1 .. b[y] /\ u = <<y, i>>
      BY UnitsMembers
    <3>2. CASE y # x
      BY <3>1, <3>2, UnitsMembers
    <3>3. CASE y = x
      <4>1. i \in 1 .. a[x] \/ i \in I
        BY <3>1, <3>3
      <4> QED BY <3>1, <3>3, <4>1, UnitsMembers
    <3> QED BY <3>2, <3>3
  <2>2. ASSUME NEW u \in Units(a) PROVE u \in Units(b)
    <3>1. PICK y \in S, i \in Nat : i \in 1 .. a[y] /\ u = <<y, i>>
      BY UnitsMembers
    <3>2. i \in 1 .. b[y]
      BY <3>1
    <3> QED BY <3>1, <3>2, UnitsMembers
  <2>3. ASSUME NEW u \in U PROVE u \in Units(b)
    <3>1. PICK i \in I : u = <<x, i>>
      OBVIOUS
    <3>2. i \in 1 .. b[x]
      BY <3>1
    <3> QED BY <3>1, <3>2, UnitsMembers
  <2> QED BY <2>1, <2>2, <2>3
<1>5. Units(a) \intersect U = {}
  BY UnitsMembers
<1>6. IsFiniteSet(Units(a)) /\ SumOver(a) \in Nat
  BY SumType
<1>7. Cardinality(Units(b)) = Cardinality(Units(a)) + Cardinality(U) - Cardinality({})
  BY <1>3, <1>4, <1>5, <1>6, FS_Union
<1> QED BY <1>3, <1>6, <1>7, FS_EmptySet DEF SumOver

(* One value changes, and the sum by as much. *)
LEMMA SumChanges ==
  ASSUME NEW S, IsFiniteSet(S), NEW a \in [S -> Nat], NEW b \in [S -> Nat],
         NEW x \in S, \A y \in S \ {x} : b[y] = a[y]
  PROVE  SumOver(b) + a[x] = SumOver(a) + b[x]
<1>1. SumOver(a) \in Nat /\ SumOver(b) \in Nat
  BY SumType
<1>2. CASE a[x] <= b[x]
  <2> DEFINE n == b[x] - a[x]
  <2>1. n \in Nat /\ b[x] = a[x] + n
    BY <1>2
  <2> HIDE DEF n
  <2>2. SumOver(b) = SumOver(a) + n
    BY <2>1, SumGrows
  <2> QED BY <1>1, <2>1, <2>2
<1>3. CASE b[x] < a[x]
  <2> DEFINE n == a[x] - b[x]
  <2>1. n \in Nat /\ a[x] = b[x] + n
    BY <1>3
  <2> HIDE DEF n
  <2>2. SumOver(a) = SumOver(b) + n
    BY <2>1, SumGrows
  <2> QED BY <1>1, <2>1, <2>2
<1> QED BY <1>2, <1>3

==============================================================================
