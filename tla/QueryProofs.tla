------------------------------ MODULE QueryProofs ------------------------------
(***************************************************************************)
(* Proofs about TrafficQuery, for every finite set of keys, every bound of *)
(* the calendar and all lengths of windows and pages.                      *)
(***************************************************************************)
EXTENDS TrafficQuery, SumsProofs, FiniteSetTheorems, TLAPS

(* The order of the totals is strict and total. *)
LEMMA BeforeFacts ==
  ASSUME NEW a \in Keys, NEW b \in Keys, NEW c \in Keys
  PROVE  /\ ~Before(a, a)
         /\ a # b => Before(a, b) \/ Before(b, a)
         /\ Before(a, b) /\ Before(b, c) => Before(a, c)
<1>1. a \in Nat \X Nat /\ b \in Nat \X Nat /\ c \in Nat \X Nat
  BY KeysAssumption
<1>2. /\ a[1] \in Nat /\ a[2] \in Nat /\ b[1] \in Nat /\ b[2] \in Nat
      /\ c[1] \in Nat /\ c[2] \in Nat
  BY <1>1
<1>3. a[1] = b[1] /\ a[2] = b[2] => a = b
  BY <1>1
<1> QED BY <1>2, <1>3 DEF Before

LEMMA KeySets ==
  ASSUME NEW S \in SUBSET Keys
  PROVE  /\ IsFiniteSet(S) /\ Cardinality(S) \in Nat
         /\ \A T \in SUBSET S : Cardinality(T) <= Cardinality(S)
<1>1. IsFiniteSet(S)
  BY KeysAssumption, FS_Subset
<1> QED BY <1>1, FS_CardinalityType, FS_Subset

(* Whatever is added to a set of keys, a key of it only moves back. *)
LEMMA PlaceGrows ==
  ASSUME NEW T \in SUBSET Keys, NEW S \in SUBSET T, NEW k \in Keys
  PROVE  Place(S, k) \in Nat /\ Place(T, k) \in Nat /\ Place(S, k) <= Place(T, k)
<1> DEFINE A == {j \in S : Before(j, k)}
           B == {j \in T : Before(j, k)}
<1>1. A \in SUBSET B /\ B \in SUBSET Keys /\ A \in SUBSET Keys
  OBVIOUS
<1>2. Cardinality(A) \in Nat /\ Cardinality(B) \in Nat /\ Cardinality(A) <= Cardinality(B)
  <2> HIDE DEF A, B
  <2> QED BY <1>1, KeySets
<1> QED BY <1>2 DEF Place

(* The places of the keys of a set are the positions in a list of it. *)
LEMMA PlaceIsPosition ==
  ASSUME NEW S \in SUBSET Keys
  PROVE  [k \in S |-> Place(S, k)] \in Bijection(S, 0 .. (Cardinality(S) - 1))
<1> DEFINE f == [k \in S |-> Place(S, k)]
           n == Cardinality(S)
<1>1. IsFiniteSet(S) /\ n \in Nat
  BY KeySets
<1>2. ASSUME NEW k \in S PROVE Place(S, k) \in 0 .. (n - 1)
  <2> DEFINE A == {j \in S : Before(j, k)}
  <2>1. A \in SUBSET (S \ {k})
    BY BeforeFacts
  <2>2. IsFiniteSet(S \ {k}) /\ Cardinality(S \ {k}) = n - 1
    BY <1>1, FS_RemoveElement
  <2>3. Cardinality(A) <= n - 1 /\ IsFiniteSet(A)
    <3> HIDE DEF A
    <3> QED BY <2>1, <2>2, FS_Subset
  <2>4. Cardinality(A) \in Nat
    <3> HIDE DEF A
    <3> QED BY <2>3, FS_CardinalityType
  <2> QED BY <1>1, <2>3, <2>4 DEF Place
<1>3. ASSUME NEW j \in S, NEW k \in S, Before(j, k) PROVE Place(S, j) < Place(S, k)
  <2> DEFINE A == {i \in S : Before(i, j)}
             B == {i \in S : Before(i, k)}
  <2>1. A \in SUBSET B
    BY <1>3, BeforeFacts
  <2>2. j \in B /\ j \notin A
    BY <1>3, BeforeFacts
  <2>3. B \in SUBSET S /\ A \in SUBSET S
    OBVIOUS
  <2> HIDE DEF A, B
  <2>4. IsFiniteSet(B) /\ Cardinality(A) \in Nat /\ Cardinality(B) \in Nat
    BY <2>3, KeySets
  <2>5. Cardinality(A) <= Cardinality(B) /\ (Cardinality(B) = Cardinality(A) => A = B)
    BY <2>1, <2>4, FS_Subset
  <2>6. Cardinality(A) < Cardinality(B)
    BY <2>2, <2>4, <2>5
  <2> QED BY <2>6 DEF A, B, Place
<1>4. ASSUME NEW j \in S, NEW k \in S, j # k PROVE Place(S, j) # Place(S, k)
  <2>1. Place(S, j) \in Nat /\ Place(S, k) \in Nat
    BY PlaceGrows
  <2>2. Before(j, k) \/ Before(k, j)
    BY <1>4, BeforeFacts
  <2> QED BY <1>3, <2>1, <2>2
<1>5. f \in Injection(S, 0 .. (n - 1))
  BY <1>2, <1>4 DEF Injection, IsInjective
<1>6. IsFiniteSet(0 .. (n - 1)) /\ Cardinality(0 .. (n - 1)) = n
  <2> DEFINE m == n - 1
  <2>1. 0 \in Int /\ m \in Int /\ n = IF 0 > m THEN 0 ELSE m - 0 + 1
    BY <1>1
  <2> HIDE DEF m, n
  <2>2. IsFiniteSet(0 .. m) /\ Cardinality(0 .. m) = n
    BY <2>1, FS_Interval
  <2> QED BY <2>2 DEF m
<1>7. f \in Surjection(S, 0 .. (n - 1))
  <2> HIDE DEF f
  <2> QED BY <1>5, <1>6, FS_Injection DEF n
<1> QED BY <1>5, <1>7 DEF Bijection

(* A page has at most n of the listed keys, and n of them if one is left. *)
LEMMA PageSize ==
  ASSUME NEW S \in SUBSET Keys, NEW order \in Bijection(S, 0 .. (Cardinality(S) - 1)),
         NEW lo \in Nat, NEW n \in Nat,
         NEW P, P = {k \in S : order[k] >= lo /\ order[k] < lo + n}
  PROVE  /\ Cardinality(P) \in Nat /\ Cardinality(P) <= n
         /\ (\E k \in S : order[k] >= lo + n) => Cardinality(P) = n
<1> DEFINE m == Cardinality(S)
           I == lo .. (lo + n - 1)
           f == [k \in P |-> order[k]]
<1>0. m \in Nat /\ P \in SUBSET Keys
  BY KeySets
<1>1. /\ order \in [S -> 0 .. (m - 1)]
      /\ \A j, k \in S : order[j] = order[k] => j = k
      /\ \A i \in 0 .. (m - 1) : \E k \in S : order[k] = i
  BY DEF Bijection, Injection, Surjection, IsInjective
<1>2. \A k \in S : order[k] \in Int
  BY <1>0, <1>1
<1>3. IsFiniteSet(I) /\ Cardinality(I) = n
  <2> DEFINE hi == lo + n - 1
  <2>1. lo \in Int /\ hi \in Int /\ n = IF lo > hi THEN 0 ELSE hi - lo + 1
    OBVIOUS
  <2> HIDE DEF hi
  <2>2. IsFiniteSet(lo .. hi) /\ Cardinality(lo .. hi) = n
    BY <2>1, FS_Interval
  <2> QED BY <2>2 DEF hi
<1>4. f \in Injection(P, I)
  BY <1>1, <1>2 DEF Injection, IsInjective
<1>5. IsFiniteSet(P) /\ Cardinality(P) \in Nat /\ Cardinality(P) <= n
  <2>1. IsFiniteSet(P) /\ Cardinality(P) \in Nat
    BY <1>0, KeySets
  <2>2. Cardinality(P) <= Cardinality(I)
    <3> HIDE DEF f, I
    <3> QED BY <1>3, <1>4, FS_Injection
  <2> QED BY <1>3, <2>1, <2>2
<1>6. ASSUME NEW k \in S, order[k] >= lo + n PROVE Cardinality(P) = n
  <2>1. \A i \in I : i \in 0 .. (m - 1)
    BY <1>0, <1>1, <1>6
  <2>2. ASSUME NEW i \in I PROVE \E j \in P : f[j] = i
    <3>1. PICK j \in S : order[j] = i
      BY <1>1, <2>1
    <3>2. i >= lo /\ i < lo + n
      OBVIOUS
    <3>3. j \in P
      BY <3>1, <3>2
    <3> QED BY <3>1, <3>3
  <2>3. f \in Surjection(P, I)
    BY <1>4, <2>2 DEF Injection, Surjection
  <2>4. Cardinality(I) <= Cardinality(P)
    <3> HIDE DEF f, I
    <3> QED BY <1>5, <2>3, FS_Surjection
  <2> QED BY <1>3, <1>5, <2>4
<1> QED BY <1>5, <1>6

(* Totals are listed in one order and the others in any: in both cases     *)
(* every record has a position of its own.                                 *)
LEMMA OrdersArePositions ==
  ASSUME NEW S \in SUBSET Keys, NEW order \in Orders(S)
  PROVE  /\ order \in Bijection(S, 0 .. (Cardinality(S) - 1))
         /\ req.window = "all" => \A k \in S : order[k] = Place(S, k)
<1>1. CASE req.window = "all"
  <2>1. order = [k \in S |-> Place(S, k)]
    BY <1>1 DEF Orders
  <2> QED BY <2>1, PlaceIsPosition
<1>2. CASE req.window # "all"
  BY <1>2 DEF Orders
<1> QED BY <1>1, <1>2

-------------------------------------------------------------------------------
(* The rows and their sums. *)

LEMMA RowSets ==
  ASSUME NEW rows \in SUBSET (Keys \X Dates)
  PROVE  IsFiniteSet(rows)
<1>1. IsFiniteSet(Dates)
  <2>1. 0 \in Int /\ MaxDay \in Int
    BY LedgerAssumption
  <2> QED BY <2>1, FS_Interval DEF Dates
<1>2. IsFiniteSet(Keys \X Dates)
  BY <1>1, KeysAssumption, FS_Product
<1> QED BY <1>2, FS_Subset

LEMMA SumOfFacts ==
  ASSUME DataTypes, NEW rows \in SUBSET (Keys \X Dates)
  PROVE  /\ SumOf(rows) \in Block
         /\ \A r \in rows : AtLeast(SumOf(rows), daily[r[1]][r[2]])
         /\ \A part \in SUBSET rows : AtLeast(SumOf(rows), SumOf(part))
<1>0. IsFiniteSet(rows)
  BY RowSets
<1>1. \A r \in rows : daily[r[1]][r[2]] \in [Fields -> Nat]
  BY DEF DataTypes, Block
<1>2. ASSUME NEW f \in Fields
      PROVE  /\ SumOf(rows)[f] \in Nat
             /\ \A r \in rows : SumOf(rows)[f] >= daily[r[1]][r[2]][f]
             /\ \A part \in SUBSET rows : SumOf(rows)[f] >= SumOf(part)[f]
  <2> DEFINE a == [r \in rows |-> daily[r[1]][r[2]][f]]
  <2>1. a \in [rows -> Nat]
    BY <1>1
  <2>2. SumOf(rows)[f] = SumOver(a)
    BY DEF SumOf
  <2>3. SumOver(a) \in Nat
    <3> HIDE DEF a
    <3> QED BY <1>0, <2>1, SumType
  <2>4. ASSUME NEW r \in rows PROVE SumOver(a) >= daily[r[1]][r[2]][f]
    <3>1. a[r] <= SumOver(a)
      <4> HIDE DEF a
      <4> QED BY <1>0, <2>1, SumHoldsEach
    <3>2. a[r] = daily[r[1]][r[2]][f] /\ a[r] \in Nat
      BY <2>1
    <3> QED BY <2>3, <3>1, <3>2
  <2>5. ASSUME NEW part \in SUBSET rows PROVE SumOver(a) >= SumOf(part)[f]
    <3> DEFINE b == [r \in part |-> daily[r[1]][r[2]][f]]
    <3>1. b \in [part -> Nat] /\ \A r \in part : b[r] <= a[r]
      BY <1>1
    <3>2. IsFiniteSet(part)
      BY <1>0, FS_Subset
    <3>3. SumOver(b) <= SumOver(a) /\ SumOver(b) \in Nat
      <4> HIDE DEF a, b
      <4> QED BY <1>0, <2>1, <3>1, <3>2, SumMonotone, SumType
    <3>4. SumOf(part)[f] = SumOver(b)
      BY DEF SumOf
    <3> HIDE DEF a, b
    <3> QED BY <2>3, <3>3, <3>4
  <2> QED BY <2>2, <2>3, <2>4, <2>5
<1> QED BY <1>2 DEF SumOf, Block, AtLeast

(* The key of an aggregated record is that of its rows. *)
LEMMA AggregatedRecords ==
  Aggregated = [k \in {r[1] : r \in ListDaily} |-> SumOf({r \in ListDaily : r[1] = k})]
<1> DEFINE keys == {r[1] : r \in ListDaily}
           first == {k \in keys : \A j \in keys : j = k => ~Before(j, k)}
<1>1. \A k \in keys : k \in Keys
  BY DEF ListDaily
<1>2. first = keys
  BY <1>1, BeforeFacts
<1>3. Aggregated = [k \in first |-> SumOf({r \in ListDaily : r[1] = k})]
  BY DEF Aggregated, AggKey
<1> QED BY <1>2, <1>3

(* No record says more than the total of its key. *)
LEMMA RecordsFacts ==
  ASSUME DataTypes, TotalsCover
  PROVE  /\ DOMAIN AllRecords \in SUBSET Keys
         /\ \A k \in DOMAIN AllRecords :
              AllRecords[k] \in Block /\ AtLeast(totals[k], AllRecords[k])
<1>1. CASE req.window = "all"
  <2>1. AllRecords = [k \in ListTotals |-> totals[k]]
    BY <1>1 DEF AllRecords
  <2>2. \A k \in ListTotals : k \in Keys
    BY DEF ListTotals
  <2> QED BY <2>1, <2>2 DEF DataTypes, Block, AtLeast
<1>2. CASE req.window # "all"
  <2> DEFINE keys == {r[1] : r \in ListDaily}
  <2>1. AllRecords = [k \in keys |-> SumOf({r \in ListDaily : r[1] = k})]
    BY <1>2, AggregatedRecords DEF AllRecords
  <2>2. \A k \in keys : k \in Keys
    BY DEF ListDaily
  <2>3. ASSUME NEW k \in keys
        PROVE  AllRecords[k] \in Block /\ AtLeast(totals[k], AllRecords[k])
    <3> DEFINE part == {r \in ListDaily : r[1] = k}
               rows == {k} \X Dates
    <3>1. k \in Keys /\ rows \in SUBSET (Keys \X Dates)
      BY <2>2
    <3>2. part \in SUBSET rows
      BY DEF ListDaily
    <3>3. part \in SUBSET (Keys \X Dates)
      BY <3>1, <3>2
    <3>4. AllRecords[k] = SumOf(part)
      BY <2>1
    <3> HIDE DEF part, rows
    <3>5. SumOf(part) \in Block /\ SumOf(rows) \in Block
      BY <3>1, <3>3, SumOfFacts
    <3>6. AtLeast(SumOf(rows), SumOf(part))
      BY <3>1, <3>2, SumOfFacts
    <3>7. AtLeast(totals[k], SumOf(rows)) /\ totals[k] \in Block
      BY <3>1 DEF TotalsCover, DataTypes, rows
    <3> QED BY <3>4, <3>5, <3>6, <3>7 DEF AtLeast, Block
  <2> QED BY <2>1, <2>2, <2>3
<1> QED BY <1>1, <1>2

-------------------------------------------------------------------------------
(* The steps of the ledger. *)

(* A credit puts into the total what it puts into the day. *)
LEMMA CreditKeepsCover ==
  ASSUME DataTypes, TotalsCover, UNCHANGED told, NEW k \in Keys, NEW d \in Dates,
         NEW amount \in Amounts, Credit(k, d, amount)
  PROVE  DataTypes' /\ TotalsCover' /\ \A j \in Keys : AtLeast(totals'[j], totals[j])
<1>1. /\ totals \in [Keys -> [Fields -> Nat]] /\ daily \in [Keys -> [Dates -> [Fields -> Nat]]]
      /\ told \in [Keys -> [Fields -> Nat]] /\ today' = today /\ today \in Dates
  BY DEF DataTypes, Block, Credit
<1>2. amount \in [Fields -> Nat]
  BY HalfAssumption DEF Amounts, Counter, Uint, Word
<1>3. /\ totals' = [totals EXCEPT ![k] = Plus(totals[k], amount)]
      /\ daily' = [daily EXCEPT ![k] = [daily[k] EXCEPT ![d] = Plus(daily[k][d], amount)]]
  BY DEF Credit
<1>4. Plus(totals[k], amount) \in [Fields -> Nat] /\ Plus(daily[k][d], amount) \in [Fields -> Nat]
  BY <1>1, <1>2 DEF Plus
<1>5. DataTypes'
  BY <1>1, <1>3, <1>4 DEF DataTypes, Block
<1>6. ASSUME NEW j \in Keys
      PROVE  /\ AtLeast(totals'[j], totals[j])
             /\ AtLeast(totals'[j], SumOf({j} \X Dates)')
             /\ AtLeast(totals'[j], told[j])
  <2> DEFINE S == {j} \X Dates
  <2>0. S \in SUBSET (Keys \X Dates) /\ IsFiniteSet(S)
    BY RowSets
  <2>1. AtLeast(totals[j], SumOf(S)) /\ AtLeast(totals[j], told[j])
    BY DEF TotalsCover
  <2>2. ASSUME NEW f \in Fields
        PROVE  /\ totals'[j][f] >= totals[j][f]
               /\ totals'[j][f] >= SumOf({j} \X Dates)'[f]
               /\ totals'[j][f] >= told[j][f]
    <3> DEFINE a == [r \in S |-> daily[r[1]][r[2]][f]]
               b == [r \in S |-> daily'[r[1]][r[2]][f]]
    <3>1. a \in [S -> Nat] /\ b \in [S -> Nat]
      <4>1. daily' \in [Keys -> [Dates -> [Fields -> Nat]]]
        BY <1>5 DEF DataTypes, Block
      <4>2. \A r \in S : daily[r[1]][r[2]] \in [Fields -> Nat] /\ daily'[r[1]][r[2]] \in [Fields -> Nat]
        BY <1>1, <2>0, <4>1
      <4> QED BY <4>2
    <3>2. SumOf(S)[f] = SumOver(a) /\ SumOf({j} \X Dates)'[f] = SumOver(b)
      BY DEF SumOf
    <3>3. /\ totals[j][f] \in Nat /\ told[j][f] \in Nat /\ amount[f] \in Nat
          /\ totals[j][f] >= SumOver(a) /\ totals[j][f] >= told[j][f]
      BY <1>1, <1>2, <2>1, <3>2 DEF AtLeast
    <3>4. CASE j = k
      <4>1. totals'[j][f] = totals[j][f] + amount[f]
        BY <1>1, <1>3, <3>4 DEF Plus
      <4>2. <<k, d>> \in S /\ \A r \in S \ {<<k, d>>} : r[1] = k /\ r[2] \in Dates \ {d}
        BY <3>4
      <4>3. b[<<k, d>>] = a[<<k, d>>] + amount[f]
        BY <1>1, <1>3, <4>2 DEF Plus
      <4>4. \A r \in S \ {<<k, d>>} : b[r] = a[r]
        BY <1>1, <1>3, <4>2
      <4> HIDE DEF a, b, S
      <4>5. SumOver(b) = SumOver(a) + amount[f]
        BY <2>0, <3>1, <3>3, <4>2, <4>3, <4>4, SumGrows
      <4>6. SumOver(a) \in Nat
        BY <2>0, <3>1, SumType
      <4> QED BY <3>2, <3>3, <4>1, <4>5, <4>6
    <3>5. CASE j # k
      <4>1. totals'[j] = totals[j] /\ daily'[j] = daily[j]
        BY <1>1, <1>3, <3>5
      <4>2. b = a
        BY <4>1
      <4> HIDE DEF a, b, S
      <4> QED BY <3>2, <3>3, <4>1, <4>2
    <3> QED BY <3>4, <3>5
  <2> QED BY <2>2 DEF AtLeast
<1>7. TotalsCover'
  BY <1>6 DEF TotalsCover
<1> QED BY <1>5, <1>6, <1>7

(* To forget a day takes from the days only. *)
LEMMA ForgetKeepsCover ==
  ASSUME DataTypes, TotalsCover, UNCHANGED told, NEW cutoff \in Dates, Forget(cutoff)
  PROVE  DataTypes' /\ TotalsCover'
<1>1. /\ totals \in [Keys -> [Fields -> Nat]] /\ daily \in [Keys -> [Dates -> [Fields -> Nat]]]
      /\ told \in [Keys -> [Fields -> Nat]] /\ totals' = totals /\ today' = today
  BY DEF DataTypes, Block, Forget
<1>2. Zero \in [Fields -> Nat]
  BY DEF Zero
<1>3. /\ daily' \in [Keys -> [Dates -> [Fields -> Nat]]]
      /\ \A k \in Keys, d \in Dates : daily'[k][d] = Zero \/ daily'[k][d] = daily[k][d]
  BY <1>1, <1>2 DEF Forget
<1>4. DataTypes'
  BY <1>1, <1>3 DEF DataTypes, Block
<1>5. ASSUME NEW j \in Keys, NEW f \in Fields PROVE totals[j][f] >= SumOf({j} \X Dates)'[f]
  <2> DEFINE S == {j} \X Dates
             a == [r \in S |-> daily[r[1]][r[2]][f]]
             b == [r \in S |-> daily'[r[1]][r[2]][f]]
  <2>0. S \in SUBSET (Keys \X Dates) /\ IsFiniteSet(S)
    BY RowSets
  <2>1. ASSUME NEW r \in S PROVE a[r] \in Nat /\ b[r] \in Nat /\ b[r] <= a[r]
    <3>1. r[1] \in Keys /\ r[2] \in Dates
      BY <2>0
    <3>2. daily[r[1]][r[2]][f] \in Nat
      BY <1>1, <3>1
    <3>3. daily'[r[1]][r[2]][f] = 0 \/ daily'[r[1]][r[2]][f] = daily[r[1]][r[2]][f]
      BY <1>3, <3>1 DEF Zero
    <3> QED BY <3>2, <3>3
  <2>2. a \in [S -> Nat] /\ b \in [S -> Nat] /\ S \in SUBSET S
    BY <2>1
  <2>3. SumOf(S)[f] = SumOver(a) /\ SumOf({j} \X Dates)'[f] = SumOver(b)
    BY DEF SumOf
  <2>4. totals[j][f] >= SumOver(a) /\ totals[j][f] \in Nat
    BY <1>1, <2>3 DEF TotalsCover, AtLeast
  <2> HIDE DEF a, b, S
  <2>5. SumOver(b) <= SumOver(a) /\ SumOver(a) \in Nat /\ SumOver(b) \in Nat
    BY <2>0, <2>1, <2>2, SumMonotone, SumType
  <2> QED BY <2>3, <2>4, <2>5
<1>6. TotalsCover'
  BY <1>1, <1>5 DEF TotalsCover, AtLeast
<1> QED BY <1>4, <1>6

(* In any step of the ledger the totals only grow, and a day passes at     *)
(* most.                                                                   *)
LEMMA WriterKeepsCover ==
  ASSUME DataTypes, TotalsCover, WriterStep
  PROVE  /\ DataTypes' /\ TotalsCover'
         /\ \A j \in Keys : AtLeast(totals'[j], totals[j])
         /\ today' = today \/ today' = today + 1
<1>1. UNCHANGED told /\ LedgerNext
  BY DEF WriterStep
<1>2. ASSUME NEW k \in Keys, NEW d \in Dates, NEW amount \in Amounts, Credit(k, d, amount)
      PROVE  /\ DataTypes' /\ TotalsCover'
             /\ \A j \in Keys : AtLeast(totals'[j], totals[j])
             /\ today' = today
  <2>1. today' = today
    BY <1>2 DEF Credit
  <2> QED BY <1>1, <1>2, <2>1, CreditKeepsCover
<1>3. \A j \in Keys : AtLeast(totals[j], totals[j])
  BY DEF DataTypes, Block, AtLeast
<1>4. ASSUME NEW cutoff \in Dates, Forget(cutoff)
      PROVE  /\ DataTypes' /\ TotalsCover'
             /\ \A j \in Keys : AtLeast(totals'[j], totals[j])
             /\ today' = today
  <2>1. today' = today /\ totals' = totals
    BY <1>4 DEF Forget
  <2> QED BY <1>1, <1>3, <1>4, <2>1, ForgetKeepsCover
<1>5. CASE Midnight
  <2>1. totals' = totals /\ daily' = daily /\ told' = told /\ today' = today + 1 /\ today < MaxDay
    BY <1>1, <1>5 DEF Midnight
  <2>2. DataTypes'
    BY <2>1, LedgerAssumption DEF DataTypes, Dates
  <2>3. TotalsCover'
    BY <2>1 DEF TotalsCover, SumOf
  <2> QED BY <1>3, <2>1, <2>2, <2>3
<1> QED BY <1>1, <1>2, <1>4, <1>5 DEF LedgerNext

-------------------------------------------------------------------------------
(* The steps of the handler. *)

(* What is stored does not depend on the handler. *)
LEMMA StoredStays ==
  ASSUME DataTypes, TotalsCover, UNCHANGED <<totals, daily, today, told>>
  PROVE  DataTypes' /\ TotalsCover' /\ Rows' = Rows
<1>1. \A k \in Keys : SumOf({k} \X Dates)' = SumOf({k} \X Dates)
  BY DEF SumOf
<1> QED BY <1>1 DEF DataTypes, TotalsCover, Rows

LEMMA LimitInRange ==
  ASSUME NEW n
  PROVE  LimitOf(n) \in 1 .. MaxLimit
  BY QueryAssumption DEF LimitOf

(* A request is parsed, or answered at once. *)
LEMMA ReceiveStep ==
  ASSUME QueryInv, NEW q, Receive(q),
         q \in [window : Windows \union {"other"}, iface : IfaceFilters \union {Nil},
                mac : MacFilters \union {Nil}, limit : Limits, offset : Int]
  PROVE  DataTypes' /\ HandlerPlace' /\ WindowPlace' /\ AnswerOK' /\ TotalsCover' /\ Rows' = Rows
<1>0. DataTypes /\ HandlerPlace /\ WindowPlace /\ TotalsCover /\ today \in Dates
  BY DEF QueryInv, DataTypes
<1>1. /\ UNCHANGED <<totals, daily, today, told>> /\ from' = from /\ to' = to
      /\ step = "idle" /\ answer = Nil
  BY <1>0 DEF Receive, ledger, HandlerPlace
<1>2. DataTypes' /\ TotalsCover' /\ Rows' = Rows
  BY <1>0, <1>1, StoredStays
<1>3. CASE ValidRequest(q)
  <2>1. /\ req' = [q EXCEPT !.limit = LimitOf(q.limit), !.offset = OffsetOf(q.offset)]
        /\ step' = IF q.window = "all" THEN "select" ELSE "first"
        /\ arrived' = today /\ answer' = Nil
    BY <1>1, <1>3 DEF Receive
  <2>2. LimitOf(q.limit) \in 1 .. MaxLimit
    BY LimitInRange
  <2>3. OffsetOf(q.offset) \in Nat
    BY DEF OffsetOf
  <2>4. q.window \in Windows
    BY <1>3 DEF ValidRequest
  <2>5. req' \in Parsed /\ req'.window = q.window
    BY <2>1, <2>2, <2>3, <2>4 DEF Parsed
  <2>6. today \in Nat
    BY <1>0, LedgerAssumption DEF Dates
  <2>7. HandlerPlace'
    BY <1>0, <1>1, <2>1, <2>5, <2>6 DEF HandlerPlace
  <2>8. WindowPlace'
    BY <1>0, <1>1, <2>1, <2>5 DEF WindowPlace
  <2>9. AnswerOK'
    BY <2>1 DEF AnswerOK
  <2> QED BY <1>2, <2>7, <2>8, <2>9
<1>4. CASE ~ValidRequest(q)
  <2>1. /\ step' = "answered"
        /\ answer' = [status |-> 400, limit |-> DefaultLimit, records |-> NoRecords]
    BY <1>4 DEF Receive
  <2>2. HandlerPlace' /\ WindowPlace'
    BY <1>0, <1>1, <2>1 DEF HandlerPlace, WindowPlace
  <2>3. AnswerOK'
    <3>1. answer'.status = 400 /\ answer'.limit = DefaultLimit /\ DOMAIN answer'.records = {}
      BY <2>1 DEF NoRecords
    <3>2. Cardinality(DOMAIN answer'.records) = 0 /\ DefaultLimit \in 1 .. MaxLimit
      BY <3>1, FS_EmptySet, QueryAssumption
    <3> QED BY <3>1, <3>2 DEF AnswerOK
  <2> QED BY <1>2, <2>2, <2>3
<1> QED BY <1>3, <1>4

(* Where no walk is under way, there is nothing to keep for one. *)
LEMMA NoWalk ==
  ASSUME walk = Nil, walk' = walk
  PROVE  WalkPlace'
  BY DEF WalkPlace

LEMMA AskStep ==
  ASSUME QueryInv, Ask
  PROVE  QueryInv'
<1>1. PICK q \in Requests : Receive(q)
  BY DEF Ask
<1>2. \A o \in Offsets : o \in Int
  BY QueryAssumption
<1>3. q \in [window : Windows \union {"other"}, iface : IfaceFilters \union {Nil},
             mac : MacFilters \union {Nil}, limit : Limits, offset : Int]
  BY <1>2 DEF Requests
<1>4. WalkPlace'
  BY NoWalk DEF Ask
<1> QED BY <1>1, <1>3, <1>4, ReceiveStep DEF QueryInv

(* The first of a month is not after the day. *)
LEMMA MonthStart ==
  ASSUME NEW day \in Nat
  PROVE  FirstOfMonth(day) \in Int /\ FirstOfMonth(day) <= day
<1>1. MonthLen \in Nat /\ MonthLen > 0
  BY QueryAssumption
<1>2. day % MonthLen \in 0 .. (MonthLen - 1)
  BY <1>1
<1> QED BY <1>1, <1>2 DEF FirstOfMonth

LEMMA ReadClockStep ==
  ASSUME QueryInv, ReadClock
  PROVE  QueryInv'
<1>0. DataTypes /\ HandlerPlace /\ WindowPlace /\ TotalsCover /\ WalkPlace
  BY DEF QueryInv
<1>1. /\ UNCHANGED <<totals, daily, today, told, req, arrived, answer, walk>>
      /\ step = "first" /\ clock1' = today
  BY DEF ReadClock, ledger
<1>2. /\ req \in Parsed /\ arrived \in Dates /\ arrived <= today /\ today <= arrived + 1
      /\ req.window # "all" /\ answer = Nil /\ today \in Dates
  BY <1>0, <1>1 DEF HandlerPlace, DataTypes
<1>3. arrived \in Nat /\ today \in Nat
  BY <1>2, LedgerAssumption DEF Dates
<1>4. DataTypes' /\ TotalsCover'
  BY <1>0, <1>1, StoredStays
<1>5. WalkPlace'
  BY <1>0, <1>1, NoWalk DEF WalkPlace
<1>6. CASE req.window = "today"
  <2>1. from' = today /\ to' = today /\ step' = "select"
    BY <1>6 DEF ReadClock
  <2>2. HandlerPlace' /\ AnswerOK'
    BY <1>1, <1>2, <2>1 DEF HandlerPlace, AnswerOK
  <2>3. WindowPlace'
    BY <1>1, <1>2, <1>3, <1>6, <2>1 DEF WindowPlace
  <2> QED BY <1>4, <1>5, <2>2, <2>3 DEF QueryInv
<1>7. CASE req.window # "today"
  <2>1. step' = "second"
    BY <1>7 DEF ReadClock
  <2>2. HandlerPlace' /\ AnswerOK'
    BY <1>1, <1>2, <1>7, <2>1 DEF HandlerPlace, AnswerOK
  <2>3. CASE ReadsEndFirst(req.window)
    <3>1. to' = today /\ from' = from
      BY <1>7, <2>3 DEF ReadClock
    <3>2. WindowPlace'
      BY <1>0, <1>1, <1>2, <1>3, <2>1, <2>3, <3>1 DEF WindowPlace, ReadsEndFirst
    <3> QED BY <1>4, <1>5, <2>2, <3>2 DEF QueryInv
  <2>4. CASE ~ReadsEndFirst(req.window)
    <3>1. req.window = "month"
      BY <1>2, <1>7, <2>4 DEF Parsed, Windows, ReadsEndFirst
    <3>2. from' = FirstOfMonth(today) /\ to' = to
      BY <1>7, <2>4, <3>1 DEF ReadClock, StartOf
    <3>3. from' \in Int /\ from' <= today
      BY <1>3, <3>2, MonthStart
    <3>4. WindowPlace'
      BY <1>0, <1>1, <1>2, <1>3, <2>1, <2>4, <3>2, <3>3 DEF WindowPlace, ReadsEndFirst
    <3> QED BY <1>4, <1>5, <2>2, <3>4 DEF QueryInv
  <2> QED BY <2>3, <2>4
<1> QED BY <1>6, <1>7

LEMMA ReadClockAgainStep ==
  ASSUME QueryInv, ReadClockAgain
  PROVE  QueryInv'
<1>0. DataTypes /\ HandlerPlace /\ WindowPlace /\ TotalsCover /\ WalkPlace
  BY DEF QueryInv
<1>1. /\ UNCHANGED <<totals, daily, today, told, req, arrived, clock1, answer, walk>>
      /\ step = "second" /\ step' = "select"
  BY DEF ReadClockAgain, ledger
<1>2. /\ req \in Parsed /\ arrived \in Dates /\ arrived <= today /\ today <= arrived + 1
      /\ req.window \notin {"all", "today"} /\ answer = Nil /\ today \in Dates
  BY <1>0, <1>1 DEF HandlerPlace, DataTypes
<1>3. clock1 \in Dates /\ arrived <= clock1 /\ clock1 <= today
  BY <1>0, <1>1 DEF WindowPlace
<1>4. arrived \in Nat /\ today \in Nat /\ clock1 \in Nat
  BY <1>2, <1>3, LedgerAssumption DEF Dates
<1>5. DataTypes' /\ TotalsCover'
  BY <1>0, <1>1, StoredStays
<1>6. WalkPlace'
  BY <1>0, <1>1, NoWalk DEF WalkPlace
<1>7. HandlerPlace' /\ AnswerOK'
  BY <1>1, <1>2 DEF HandlerPlace, AnswerOK
<1>8. CASE ReadsEndFirst(req.window)
  <2>1. req.window \in {"7days", "30days"}
    BY <1>8 DEF ReadsEndFirst
  <2>2. from' = today - NDays(req.window) + 1 /\ to' = to /\ to = clock1
    <3>1. StartOf(req.window) = today - NDays(req.window) + 1
      BY <2>1 DEF StartOf
    <3> QED BY <1>0, <1>1, <1>8, <3>1 DEF ReadClockAgain, WindowPlace
  <2>3. NDays(req.window) \in Nat /\ NDays(req.window) >= 2
    BY QueryAssumption DEF NDays
  <2>4. from' \in Int /\ from' <= clock1 /\ to' - from' < NDays(req.window)
    BY <1>2, <1>3, <1>4, <2>2, <2>3
  <2>5. clock1 <= to'
    BY <1>4, <2>2
  <2>6. WindowPlace'
    BY <1>1, <1>2, <1>3, <2>2, <2>4, <2>5 DEF WindowPlace, NDays
  <2> QED BY <1>5, <1>6, <1>7, <2>6 DEF QueryInv
<1>9. CASE ~ReadsEndFirst(req.window)
  <2>1. req.window \notin {"7days", "30days"}
    BY <1>9 DEF ReadsEndFirst
  <2>2. from' = from /\ to' = today /\ from \in Int /\ from <= clock1
    BY <1>0, <1>1, <1>9 DEF ReadClockAgain, WindowPlace
  <2>3. WindowPlace'
    BY <1>1, <1>2, <1>3, <2>1, <2>2 DEF WindowPlace
  <2> QED BY <1>5, <1>6, <1>7, <2>3 DEF QueryInv
<1> QED BY <1>8, <1>9

(* What is in an answer: the records of one page. *)
LEMMA AnswerIsPage ==
  ASSUME QueryInv, Respond
  PROVE  \E order \in Orders(DOMAIN AllRecords) :
           /\ order \in Bijection(DOMAIN AllRecords, 0 .. (Cardinality(DOMAIN AllRecords) - 1))
           /\ req.window = "all" =>
                \A k \in DOMAIN AllRecords : order[k] = Place(DOMAIN AllRecords, k)
           /\ answer'.status = 200 /\ answer'.limit = req.limit
           /\ DOMAIN answer'.records =
                {k \in DOMAIN AllRecords :
                   order[k] >= req.offset /\ order[k] < req.offset + req.limit}
           /\ \A k \in DOMAIN answer'.records : answer'.records[k] = AllRecords[k]
           /\ Cardinality(DOMAIN answer'.records) \in Nat
           /\ Cardinality(DOMAIN answer'.records) <= req.limit
           /\ (\E k \in DOMAIN AllRecords : order[k] >= req.offset + req.limit) =>
                Cardinality(DOMAIN answer'.records) = req.limit
<1> DEFINE S == DOMAIN AllRecords
<1>0. /\ DataTypes /\ TotalsCover
      /\ req.offset \in Nat /\ req.limit \in Nat
  BY QueryAssumption DEF QueryInv, HandlerPlace, Parsed, Respond
<1>1. S \in SUBSET Keys
  BY <1>0, RecordsFacts
<1>2. PICK order \in Orders(S) :
        answer' = [status |-> 200, limit |-> req.limit,
                   records |-> [k \in Page(order) |-> AllRecords[k]]]
  BY DEF Respond
<1> HIDE DEF S
<1>3. /\ order \in Bijection(S, 0 .. (Cardinality(S) - 1))
      /\ req.window = "all" => \A k \in S : order[k] = Place(S, k)
  BY <1>1, <1>2, OrdersArePositions
<1>4. DOMAIN order = S
  BY <1>3 DEF Bijection, Injection
<1> DEFINE P == {k \in S : order[k] >= req.offset /\ order[k] < req.offset + req.limit}
<1>5. /\ answer'.status = 200 /\ answer'.limit = req.limit
      /\ DOMAIN answer'.records = P
      /\ \A k \in P : answer'.records[k] = AllRecords[k]
  BY <1>2, <1>4 DEF Page
<1>6. /\ Cardinality(P) \in Nat /\ Cardinality(P) <= req.limit
      /\ (\E k \in S : order[k] >= req.offset + req.limit) => Cardinality(P) = req.limit
  BY <1>0, <1>1, <1>3, PageSize
<1> QED BY <1>2, <1>3, <1>5, <1>6 DEF S

(* Of a request that leaves nothing out every record is in the answer. *)
LEMMA EverythingIsAnswered ==
  ASSUME QueryInv, Respond, Everything
  PROVE  DOMAIN answer'.records = DOMAIN AllRecords
<1> DEFINE S == DOMAIN AllRecords
<1>1. PICK order \in Orders(S) :
        /\ order \in Bijection(S, 0 .. (Cardinality(S) - 1))
        /\ DOMAIN answer'.records =
             {k \in S : order[k] >= req.offset /\ order[k] < req.offset + req.limit}
  BY AnswerIsPage
<1>2. req.offset = 0 /\ req.limit >= Cardinality(S) /\ req.limit \in Nat
  BY QueryAssumption DEF Everything, QueryInv, HandlerPlace, Parsed, Respond
<1>3. S \in SUBSET Keys
  BY RecordsFacts DEF QueryInv
<1> HIDE DEF S
<1>4. Cardinality(S) \in Nat
  BY <1>3, KeySets
<1>5. order \in [S -> 0 .. (Cardinality(S) - 1)]
  BY <1>1 DEF Bijection, Injection
<1>6. \A k \in S : order[k] >= 0 /\ order[k] < req.limit
  BY <1>2, <1>4, <1>5
<1>7. \A k \in S : order[k] >= req.offset /\ order[k] < req.offset + req.limit
  BY <1>2, <1>6
<1>8. DOMAIN answer'.records = S
  BY <1>1, <1>7
<1> QED BY <1>8 DEF S

LEMMA RespondStep ==
  ASSUME QueryInv, Respond
  PROVE  QueryInv'
<1>0. /\ DataTypes /\ HandlerPlace /\ TotalsCover /\ WalkPlace
      /\ step = "select" /\ step' = "answered" /\ from' = Nil /\ to' = Nil
      /\ UNCHANGED <<totals, daily, today, walk>>
      /\ req \in Parsed /\ req.limit \in 1 .. MaxLimit /\ req.offset \in Nat
  BY DEF QueryInv, Respond, Done, ledger, HandlerPlace, Parsed
<1> DEFINE S == DOMAIN AllRecords
           P == DOMAIN answer'.records
<1>1. PICK order \in Orders(S) :
        /\ req.window = "all" => \A k \in S : order[k] = Place(S, k)
        /\ answer'.status = 200 /\ answer'.limit = req.limit
        /\ P = {k \in S : order[k] >= req.offset /\ order[k] < req.offset + req.limit}
        /\ \A k \in P : answer'.records[k] = AllRecords[k]
        /\ Cardinality(P) \in Nat /\ Cardinality(P) <= req.limit
        /\ (\E k \in S : order[k] >= req.offset + req.limit) => Cardinality(P) = req.limit
  BY AnswerIsPage
<1>2. /\ S \in SUBSET Keys
      /\ \A k \in S : AllRecords[k] \in Block /\ AtLeast(totals[k], AllRecords[k])
  BY <1>0, RecordsFacts
<1>3. P \subseteq S
  BY <1>1
<1>4. AnswerOK'
  BY <1>0, <1>1, <1>2, <1>3 DEF AnswerOK
<1>5. HandlerPlace' /\ WindowPlace'
  BY <1>0 DEF HandlerPlace, WindowPlace
<1>6. ASSUME NEW k \in Keys
      PROVE  told'[k] \in Block /\ AtLeast(totals[k], told'[k])
  <2>1. told[k] \in Block /\ totals[k] \in Block /\ AtLeast(totals[k], told[k])
    BY <1>0 DEF DataTypes, TotalsCover
  <2>2. told'[k] = IF req.window # "all" /\ k \in P
                     THEN Larger(told[k], answer'.records[k]) ELSE told[k]
    BY DEF Respond
  <2>3. ASSUME k \in P
        PROVE  /\ Larger(told[k], answer'.records[k]) \in Block
               /\ AtLeast(totals[k], Larger(told[k], answer'.records[k]))
    <3>1. answer'.records[k] \in Block /\ AtLeast(totals[k], answer'.records[k])
      BY <1>1, <1>2, <1>3, <2>3
    <3> HIDE DEF P
    <3> QED BY <2>1, <3>1 DEF Larger, Block, AtLeast
  <2> QED BY <2>1, <2>2, <2>3
<1>7. DataTypes'
  <2>1. told' \in [Keys -> Block]
    BY <1>6 DEF Respond
  <2> QED BY <1>0, <2>1 DEF DataTypes
<1>8. TotalsCover'
  <2>1. \A k \in Keys : SumOf({k} \X Dates)' = SumOf({k} \X Dates)
    BY <1>0 DEF SumOf
  <2> QED BY <1>0, <1>6, <2>1 DEF TotalsCover
<1>9. WalkPlace'
  <2> SUFFICES ASSUME walk # Nil PROVE WalkPlace'
    BY <1>0, NoWalk
  <2>1. /\ walk \in Walks /\ req = WalkRequest /\ ~walk.over /\ walk.goal \subseteq Rows
        /\ \A k \in walk.goal \ walk.seen : walk.offset <= Place(Rows, k)
    BY <1>0 DEF WalkPlace
  <2>2. /\ req.window = "all" /\ req.iface = Nil /\ req.mac = Nil
        /\ req.offset = walk.offset
    BY <2>1 DEF WalkRequest
  <2>3. S = Rows
    BY <2>2 DEF AllRecords, ListTotals, Matches, Rows
  <2>4. Rows' = Rows /\ Rows \subseteq Keys
    BY <1>0 DEF Rows
  <2>5. ASSUME NEW k \in walk.goal \ (walk.seen \union P)
        PROVE  walk.offset + req.limit <= Place(Rows, k) /\ Cardinality(P) = req.limit
    <3>1. k \in Rows /\ walk.offset <= Place(Rows, k) /\ k \notin P
      BY <2>1
    <3>2. order[k] = Place(Rows, k) /\ Place(Rows, k) \in Nat
      BY <1>1, <2>2, <2>3, <2>4, <3>1, PlaceGrows
    <3>3. order[k] >= req.offset + req.limit
      BY <1>0, <1>1, <2>2, <2>3, <3>1, <3>2
    <3>4. Cardinality(P) = req.limit
      BY <1>1, <2>3, <3>1, <3>3
    <3> QED BY <1>0, <2>2, <3>2, <3>3, <3>4
  <2>6. Unseen' = walk.goal \ (walk.seen \union P)
    BY <1>0 DEF Unseen
  <2>7. /\ \A k \in Unseen' : walk.offset + answer'.limit <= Place(Rows, k)
        /\ Cardinality(P) < answer'.limit => Unseen' = {}
    BY <1>0, <1>1, <2>5, <2>6
  <2> QED BY <1>0, <2>1, <2>4, <2>7 DEF WalkPlace
<1> QED BY <1>4, <1>5, <1>7, <1>8, <1>9 DEF QueryInv

LEMMA RespondErrorStep ==
  ASSUME QueryInv, RespondError
  PROVE  QueryInv'
<1>0. /\ DataTypes /\ HandlerPlace /\ TotalsCover /\ WalkPlace
      /\ step = "select" /\ step' = "answered" /\ from' = Nil /\ to' = Nil
      /\ UNCHANGED <<totals, daily, today, told, walk>>
      /\ answer' = [status |-> 500, limit |-> req.limit, records |-> NoRecords]
      /\ req.limit \in 1 .. MaxLimit
  BY DEF QueryInv, RespondError, Done, ledger, HandlerPlace, Parsed
<1>1. DataTypes' /\ TotalsCover' /\ Rows' = Rows
  BY <1>0, StoredStays
<1>2. HandlerPlace' /\ WindowPlace'
  BY <1>0 DEF HandlerPlace, WindowPlace
<1>3. answer'.status = 500 /\ answer'.limit = req.limit /\ DOMAIN answer'.records = {}
  BY <1>0 DEF NoRecords
<1>4. AnswerOK'
  <2>1. Cardinality(DOMAIN answer'.records) = 0
    BY <1>3, FS_EmptySet
  <2> QED BY <1>0, <1>3, <2>1 DEF AnswerOK
<1>5. WalkPlace'
  BY <1>0, <1>1, <1>3 DEF WalkPlace
<1> QED BY <1>1, <1>2, <1>4, <1>5 DEF QueryInv

-------------------------------------------------------------------------------
(* The steps of the clients, and those of the ledger. *)

LEMMA StartWalkStep ==
  ASSUME QueryInv, StartWalk
  PROVE  QueryInv'
<1>0. /\ UNCHANGED <<totals, daily, today, told>>
      /\ UNCHANGED <<step, req, arrived, clock1, from, to, answer>>
      /\ step = "idle"
  BY DEF StartWalk, ledger, handler
<1>1. DataTypes' /\ TotalsCover' /\ Rows' = Rows
  BY <1>0, StoredStays DEF QueryInv
<1>2. HandlerPlace' /\ WindowPlace' /\ AnswerOK'
  BY <1>0 DEF QueryInv, HandlerPlace, WindowPlace, AnswerOK
<1>3. PICK n \in Limits : walk' = [goal |-> Rows, seen |-> {}, limit |-> n, offset |-> 0,
                                   over |-> FALSE]
  BY DEF StartWalk, Rows
<1>4. Rows \in SUBSET Keys
  BY DEF Rows
<1>5. /\ walk' \in Walks /\ walk'.goal = Rows /\ walk'.seen = {} /\ walk'.offset = 0
      /\ walk'.over = FALSE
  BY <1>3, <1>4 DEF Walks
<1>6. \A k \in Rows : 0 <= Place(Rows, k)
  BY <1>4, PlaceGrows
<1>7. WalkPlace'
  BY <1>0, <1>1, <1>5, <1>6 DEF WalkPlace
<1> QED BY <1>1, <1>2, <1>7 DEF QueryInv

LEMMA AskPageStep ==
  ASSUME QueryInv, AskPage
  PROVE  QueryInv'
<1> DEFINE q == [window |-> "all", iface |-> Nil, mac |-> Nil, limit |-> walk.limit,
                 offset |-> walk.offset]
<1>0. walk # Nil /\ ~walk.over /\ Receive(q) /\ walk' = walk
  BY DEF AskPage
<1>1. /\ walk \in Walks /\ walk.goal \subseteq Rows
      /\ \A k \in walk.goal \ walk.seen : walk.offset <= Place(Rows, k)
  BY <1>0 DEF QueryInv, WalkPlace
<1>2. walk.limit \in Limits /\ walk.offset \in Nat
  BY <1>1 DEF Walks
<1>3. q \in [window : Windows \union {"other"}, iface : IfaceFilters \union {Nil},
             mac : MacFilters \union {Nil}, limit : Limits, offset : Int]
  BY <1>2 DEF Windows
<1>4. DataTypes' /\ HandlerPlace' /\ WindowPlace' /\ AnswerOK' /\ TotalsCover' /\ Rows' = Rows
  <2> HIDE DEF q
  <2> QED BY <1>0, <1>3, ReceiveStep
<1>5. ValidRequest(q)
  BY NilIsNoDate DEF ValidRequest, Windows, InvalidMac
<1>6. /\ step' = "select"
      /\ req' = [q EXCEPT !.limit = LimitOf(q.limit), !.offset = OffsetOf(q.offset)]
  BY <1>0, <1>5 DEF Receive
<1>7. OffsetOf(walk.offset) = walk.offset
  BY <1>2 DEF OffsetOf
<1>8. req' = [window |-> "all", iface |-> Nil, mac |-> Nil,
              limit |-> LimitOf(walk.limit), offset |-> walk.offset]
  BY <1>6, <1>7
<1>9. req' = WalkRequest'
  BY <1>0, <1>8 DEF WalkRequest, LimitOf
<1>10. WalkPlace'
  BY <1>0, <1>1, <1>4, <1>6, <1>9 DEF WalkPlace
<1> QED BY <1>4, <1>10 DEF QueryInv

LEMMA GetAnswerStep ==
  ASSUME QueryInv, GetAnswer
  PROVE  QueryInv'
<1>0. /\ UNCHANGED <<totals, daily, today, told, from, to>>
      /\ step = "answered" /\ step' = "idle" /\ answer' = Nil
  BY DEF GetAnswer, ledger
<1>1. DataTypes' /\ TotalsCover' /\ Rows' = Rows
  BY <1>0, StoredStays DEF QueryInv
<1>2. HandlerPlace' /\ WindowPlace' /\ AnswerOK'
  BY <1>0 DEF QueryInv, HandlerPlace, WindowPlace, AnswerOK
<1>3. CASE walk = Nil
  <2>1. walk' = walk
    BY <1>3 DEF GetAnswer
  <2> QED BY <1>1, <1>2, <1>3, <2>1, NoWalk DEF QueryInv
<1>4. CASE walk # Nil /\ answer.status # 200
  <2>1. walk' = walk
    BY <1>4 DEF GetAnswer
  <2>2. WalkPlace'
    BY <1>0, <1>1, <1>4, <2>1 DEF QueryInv, WalkPlace
  <2> QED BY <1>1, <1>2, <2>2 DEF QueryInv
<1>5. CASE walk # Nil /\ answer.status = 200
  <2> DEFINE P == DOMAIN answer.records
  <2>1. /\ walk \in Walks /\ walk.goal \subseteq Rows
        /\ \A k \in Unseen : walk.offset + answer.limit <= Place(Rows, k)
        /\ Cardinality(P) < answer.limit => Unseen = {}
    BY <1>0, <1>5 DEF QueryInv, WalkPlace
  <2>2. P \subseteq Keys /\ answer.limit \in 1 .. MaxLimit
    BY <1>0 DEF QueryInv, AnswerOK
  <2>3. answer.limit \in Nat /\ walk.offset \in Nat
    BY <2>1, <2>2 DEF Walks
  <2>4. walk' = [walk EXCEPT !.seen = walk.seen \union P,
                             !.offset = walk.offset + answer.limit,
                             !.over = Cardinality(P) < answer.limit]
    BY <1>5 DEF GetAnswer
  <2>5. /\ walk'.goal = walk.goal /\ walk'.seen = walk.seen \union P
        /\ walk'.offset = walk.offset + answer.limit
        /\ walk'.over = (Cardinality(P) < answer.limit)
    BY <2>1, <2>4 DEF Walks
  <2>6. walk' \in Walks
    <3>1. walk.seen \union P \in SUBSET Keys
      BY <2>1, <2>2 DEF Walks
    <3>2. walk.offset + answer.limit \in Nat
      BY <2>3
    <3>3. (Cardinality(P) < answer.limit) \in BOOLEAN
      OBVIOUS
    <3> HIDE DEF P
    <3> QED BY <2>1, <2>4, <3>1, <3>2, <3>3 DEF Walks
  <2>7. Unseen = walk'.goal \ walk'.seen
    BY <2>5 DEF Unseen
  <2>8. walk'.over => walk'.goal \subseteq walk'.seen
    BY <2>1, <2>5, <2>7
  <2>9. \A k \in walk'.goal \ walk'.seen : walk'.offset <= Place(Rows, k)
    BY <2>1, <2>5, <2>7
  <2>10. WalkPlace'
    BY <1>0, <1>1, <2>1, <2>5, <2>6, <2>8, <2>9 DEF WalkPlace
  <2> QED BY <1>1, <1>2, <2>10 DEF QueryInv
<1> QED BY <1>3, <1>4, <1>5

LEMMA EndWalkStep ==
  ASSUME QueryInv, EndWalk
  PROVE  QueryInv'
<1>0. /\ UNCHANGED <<totals, daily, today, told>>
      /\ UNCHANGED <<step, req, arrived, clock1, from, to, answer>>
      /\ walk' = Nil
  BY DEF EndWalk, ledger, handler
<1>1. DataTypes' /\ TotalsCover'
  BY <1>0, StoredStays DEF QueryInv
<1>2. HandlerPlace' /\ WindowPlace' /\ AnswerOK' /\ WalkPlace'
  BY <1>0 DEF QueryInv, HandlerPlace, WindowPlace, AnswerOK, WalkPlace
<1> QED BY <1>1, <1>2 DEF QueryInv

(* An insert moves no row forward, so it hides none from a walk. *)
LEMMA WriterStepKeeps ==
  ASSUME QueryInv, WriterStep
  PROVE  QueryInv'
<1>0. /\ UNCHANGED <<step, req, arrived, clock1, from, to, answer, walk, told>>
      /\ today' # today /\ arrived # Nil => today = arrived
      /\ DataTypes /\ HandlerPlace /\ WindowPlace /\ AnswerOK /\ TotalsCover /\ WalkPlace
  BY DEF WriterStep, handler, QueryInv
<1>1. /\ DataTypes' /\ TotalsCover'
      /\ \A j \in Keys : AtLeast(totals'[j], totals[j])
      /\ today' = today \/ today' = today + 1
  BY <1>0, WriterKeepsCover
<1>2. today \in Nat /\ today' \in Nat /\ today <= today'
  BY <1>0, <1>1, LedgerAssumption DEF DataTypes, Dates
<1>3. HandlerPlace'
  <2>1. ASSUME step \in {"first", "second", "select"}
        PROVE  arrived <= today' /\ today' <= arrived + 1
    <3>1. arrived \in Dates /\ arrived <= today /\ today <= arrived + 1
      BY <1>0, <2>1 DEF HandlerPlace
    <3>2. arrived \in Nat /\ arrived # Nil
      BY <3>1, LedgerAssumption, NilIsNoDate DEF Dates
    <3> QED BY <1>0, <1>1, <1>2, <3>1, <3>2
  <2> QED BY <1>0, <2>1 DEF HandlerPlace
<1>4. WindowPlace'
  <2>1. ASSUME clock1 \in Dates, clock1 <= today PROVE clock1 <= today'
    BY <1>2, <2>1, LedgerAssumption DEF Dates
  <2> QED BY <1>0, <2>1 DEF WindowPlace, ReadsEndFirst, NDays
<1>5. AnswerOK'
  BY <1>0 DEF AnswerOK
<1>6. Rows \subseteq Rows' /\ Rows' \subseteq Keys
  <2>1. ASSUME NEW k \in Rows PROVE totals'[k] # Zero /\ k \in Keys
    <3>1. k \in Keys /\ totals[k] # Zero
      BY DEF Rows
    <3>2. totals[k] \in [Fields -> Nat] /\ totals'[k] \in [Fields -> Nat]
      BY <1>0, <1>1, <3>1 DEF DataTypes, Block
    <3>3. PICK f \in Fields : totals[k][f] # 0
      BY <3>1, <3>2 DEF Zero
    <3>4. totals'[k][f] >= totals[k][f]
      BY <1>1, <3>1 DEF AtLeast
    <3>5. totals'[k][f] # 0
      BY <3>2, <3>3, <3>4
    <3> QED BY <3>1, <3>5 DEF Zero
  <2> QED BY <2>1 DEF Rows
<1>7. \A k \in Keys : /\ Place(Rows, k) \in Nat /\ Place(Rows', k) \in Nat
                      /\ Place(Rows, k) <= Place(Rows', k)
  BY <1>6, PlaceGrows
<1>8. WalkPlace'
  <2> SUFFICES ASSUME walk # Nil PROVE WalkPlace'
    BY <1>0, NoWalk
  <2>1. /\ walk \in Walks
        /\ step \in {"idle", "select", "answered"}
        /\ step = "select" => req = WalkRequest
        /\ step # "idle" => ~walk.over
        /\ walk.goal \subseteq Rows
        /\ walk.over => walk.goal \subseteq walk.seen
        /\ \A k \in walk.goal \ walk.seen : walk.offset <= Place(Rows, k)
        /\ step = "answered" /\ answer.status = 200 =>
             /\ \A k \in Unseen : walk.offset + answer.limit <= Place(Rows, k)
             /\ Cardinality(DOMAIN answer.records) < answer.limit => Unseen = {}
    BY <1>0 DEF WalkPlace
  <2>2. Unseen' = Unseen /\ WalkRequest' = WalkRequest /\ Unseen \subseteq walk.goal
    BY <1>0 DEF Unseen, WalkRequest
  <2>3. walk.offset \in Nat /\ walk.goal \subseteq Keys
    BY <2>1 DEF Walks
  <2>4. \A k \in walk.goal \ walk.seen : walk.offset <= Place(Rows', k)
    BY <1>7, <2>1, <2>3
  <2>5. ASSUME step = "answered", answer.status = 200
        PROVE  \A k \in Unseen : walk.offset + answer.limit <= Place(Rows', k)
    <3>1. answer.limit \in Nat
      BY <1>0, <2>5 DEF AnswerOK
    <3> QED BY <1>7, <2>1, <2>2, <2>3, <2>5, <3>1
  <2> QED BY <1>0, <1>6, <2>1, <2>2, <2>4, <2>5 DEF WalkPlace
<1> QED BY <1>1, <1>3, <1>4, <1>5, <1>8 DEF QueryInv

-------------------------------------------------------------------------------
LEMMA QueryStart ==
  ASSUME QueryInit
  PROVE  QueryInv
<1>1. Zero \in Block /\ today = 0 /\ 0 \in Dates
  BY LedgerAssumption DEF QueryInit, LedgerInit, Zero, Block, Dates
<1>2. DataTypes
  BY <1>1 DEF QueryInit, LedgerInit, DataTypes
<1>3. HandlerPlace /\ WindowPlace /\ AnswerOK /\ WalkPlace
  BY DEF QueryInit, HandlerPlace, WindowPlace, AnswerOK, WalkPlace
<1>4. ASSUME NEW k \in Keys, NEW f \in Fields
      PROVE  totals[k][f] >= SumOf({k} \X Dates)[f] /\ totals[k][f] >= told[k][f]
  <2>1. totals[k][f] = 0 /\ told[k][f] = 0
    BY DEF QueryInit, LedgerInit, Zero
  <2> DEFINE S == {k} \X Dates
             a == [r \in S |-> daily[r[1]][r[2]][f]]
  <2>2. a \in [S -> Nat] /\ \A r \in S : a[r] = 0
    BY DEF QueryInit, LedgerInit, Zero
  <2>3. SumOver(a) = 0
    <3> HIDE DEF a, S
    <3> QED BY <2>2, SumOfZeros
  <2>4. SumOf(S)[f] = SumOver(a)
    BY DEF SumOf
  <2> QED BY <2>1, <2>3, <2>4
<1>5. TotalsCover
  BY <1>4 DEF TotalsCover, AtLeast
<1> QED BY <1>2, <1>3, <1>5 DEF QueryInv

LEMMA QueryStep ==
  ASSUME QueryInv, [QueryNext]_qvars
  PROVE  QueryInv'
<1>1. CASE UNCHANGED qvars
  <2>1. /\ UNCHANGED <<totals, daily, today, told>>
        /\ UNCHANGED <<step, req, arrived, clock1, from, to, answer, walk>>
    BY <1>1 DEF qvars, ledger, handler
  <2>2. DataTypes' /\ TotalsCover' /\ Rows' = Rows
    BY <2>1, StoredStays DEF QueryInv
  <2>3. HandlerPlace' /\ WindowPlace' /\ AnswerOK'
    BY <2>1 DEF QueryInv, HandlerPlace, WindowPlace, AnswerOK, ReadsEndFirst, NDays
  <2>4. Unseen' = Unseen /\ WalkRequest' = WalkRequest
    BY <2>1 DEF Unseen, WalkRequest
  <2>5. WalkPlace'
    BY <2>1, <2>2, <2>4 DEF QueryInv, WalkPlace
  <2> QED BY <2>2, <2>3, <2>5 DEF QueryInv
<1> QED
  BY <1>1, AskStep, ReadClockStep, ReadClockAgainStep, RespondStep, RespondErrorStep,
     StartWalkStep, AskPageStep, GetAnswerStep, EndWalkStep, WriterStepKeeps
     DEF QueryNext

(***************************************************************************)
(* The inductive invariant of the queries: what a handler knows at each of *)
(* its steps, that the totals cover the days and the answers, and that a   *)
(* walk has everything it has not seen ahead of it.                        *)
(***************************************************************************)
THEOREM QueryInvariant == QuerySpec => []QueryInv
<1>1. QueryInit => QueryInv
  BY QueryStart
<1>2. QueryInv /\ [QueryNext]_qvars => QueryInv'
  BY QueryStep
<1> QED BY <1>1, <1>2, PTL DEF QuerySpec

(***************************************************************************)
(* Whatever is asked for, handleTraffic answers with a known status, a     *)
(* limit in range and at most that many records.                           *)
(***************************************************************************)
THEOREM QueryTypes == QuerySpec => []QueryTypeOK
<1>1. ASSUME QueryInv PROVE QueryTypeOK
  <2>1. /\ step \in {"idle", "first", "second", "select", "answered"}
        /\ from \in Int \union {Nil} /\ to \in Dates \union {Nil}
        /\ told \in [Keys -> Block]
    BY <1>1 DEF QueryInv, HandlerPlace, WindowPlace, DataTypes
  <2>2. ASSUME answer # Nil
        PROVE  /\ answer.status \in {200, 400, 500}
               /\ answer.limit \in 1 .. MaxLimit
               /\ DOMAIN answer.records \subseteq Keys
               /\ Cardinality(DOMAIN answer.records) <= MaxLimit
               /\ \A k \in DOMAIN answer.records : answer.records[k] \in Block
    <3>1. step = "answered"
      BY <1>1, <2>2 DEF QueryInv, HandlerPlace
    <3>2. /\ answer.status \in {200, 400, 500}
          /\ answer.limit \in 1 .. MaxLimit
          /\ DOMAIN answer.records \in SUBSET Keys
          /\ Cardinality(DOMAIN answer.records) <= answer.limit
          /\ \A k \in DOMAIN answer.records : answer.records[k] \in Block
      BY <1>1, <3>1 DEF QueryInv, AnswerOK
    <3>3. Cardinality(DOMAIN answer.records) \in Nat
      BY <3>2, KeySets
    <3>4. Cardinality(DOMAIN answer.records) <= MaxLimit
      BY <3>2, <3>3, QueryAssumption
    <3> QED BY <3>2, <3>4
  <2> QED BY <2>1, <2>2 DEF QueryTypeOK
<1> QED BY <1>1, QueryInvariant, PTL

(***************************************************************************)
(* A client that walks through all pages of window=all misses no key that  *)
(* had traffic when it set out, however many rows flushes insert meanwhile *)
(* and whatever limit it asks for.                                         *)
(***************************************************************************)
THEOREM WalksMissNothing == QuerySpec => []AllPagesMissNothing
<1>1. QueryInv => AllPagesMissNothing
  BY DEF QueryInv, WalkPlace, AllPagesMissNothing
<1> QED BY <1>1, QueryInvariant, PTL

(***************************************************************************)
(* A window holds the day its handler read first, also when midnight comes *)
(* between the two readings, and one of n days never holds more than n.    *)
(***************************************************************************)
THEOREM WindowsHoldTheirDay == QuerySpec => WindowHoldsItsDay
<1>1. ASSUME QueryInv, Respond, req.window # "all", Everything,
             NEW k \in Keys, daily[k][clock1] # Zero
      PROVE  k \in DOMAIN answer'.records /\ AtLeast(answer'.records[k], daily[k][clock1])
  <2>0. step = "select"
    BY <1>1 DEF Respond
  <2>1. /\ clock1 \in Dates /\ from \in Int /\ to \in Dates
        /\ from <= clock1 /\ clock1 <= to
    BY <1>1, <2>0 DEF QueryInv, WindowPlace
  <2>2. Matches(k)
    BY <1>1 DEF Everything, Matches
  <2>3. clock1 >= from
    BY <2>1, LedgerAssumption DEF Dates
  <2> DEFINE row == <<k, clock1>>
             rows == {r \in ListDaily : r[1] = k}
  <2>4. row \in Keys \X Dates /\ row[1] = k /\ row[2] = clock1
    BY <2>1
  <2>5. row \in ListDaily
    BY <1>1, <2>1, <2>2, <2>3, <2>4 DEF ListDaily
  <2>6. AllRecords = [j \in {r[1] : r \in ListDaily} |-> SumOf({r \in ListDaily : r[1] = j})]
    BY <1>1, AggregatedRecords DEF AllRecords
  <2>7. k \in DOMAIN AllRecords /\ AllRecords[k] = SumOf(rows)
    BY <2>4, <2>5, <2>6
  <2>8. AtLeast(SumOf(rows), daily[k][clock1])
    <3>1. rows \in SUBSET (Keys \X Dates) /\ row \in rows
      BY <2>4, <2>5 DEF ListDaily
    <3>2. \A r \in rows : AtLeast(SumOf(rows), daily[r[1]][r[2]])
      <4> HIDE DEF rows
      <4> QED BY <1>1, <3>1, SumOfFacts DEF QueryInv
    <3> QED BY <2>4, <3>1, <3>2
  <2>9. DOMAIN answer'.records = DOMAIN AllRecords
    BY <1>1, EverythingIsAnswered
  <2>10. \A j \in DOMAIN answer'.records : answer'.records[j] = AllRecords[j]
    BY <1>1, AnswerIsPage
  <2> QED BY <2>7, <2>8, <2>9, <2>10
<1>2. ASSUME QueryInv, Respond, req.window \in {"7days", "30days"}
      PROVE  to - from < NDays(req.window)
  BY <1>2 DEF QueryInv, WindowPlace, Respond
<1>3. QueryInv /\ [QueryNext]_qvars =>
        [/\ Respond /\ req.window # "all" /\ Everything =>
              \A k \in Keys : daily[k][clock1] # Zero =>
                /\ k \in DOMAIN answer'.records
                /\ AtLeast(answer'.records[k], daily[k][clock1])
         /\ Respond /\ req.window \in {"7days", "30days"} =>
              to - from < NDays(req.window)]_qvars
  BY <1>1, <1>2
<1> QED BY <1>3, QueryInvariant, PTL DEF QuerySpec, WindowHoldsItsDay

(***************************************************************************)
(* What window=all says of a key is never less than any windowed answer    *)
(* has said of it before, whatever was pruned in between.                  *)
(***************************************************************************)
THEOREM AllCoversWindows == QuerySpec => AllCoversEveryWindow
<1>1. ASSUME QueryInv, Respond, req.window = "all", NEW k \in Keys
      PROVE  /\ k \in DOMAIN answer'.records => AtLeast(answer'.records[k], told[k])
             /\ Everything /\ told[k] # Zero => k \in DOMAIN answer'.records
  <2>1. AllRecords = [j \in ListTotals |-> totals[j]]
    BY <1>1 DEF AllRecords
  <2>2. AtLeast(totals[k], told[k]) /\ totals[k] \in [Fields -> Nat] /\ told[k] \in [Fields -> Nat]
    BY <1>1 DEF QueryInv, TotalsCover, DataTypes, Block
  <2>3. DOMAIN answer'.records \subseteq DOMAIN AllRecords
        /\ \A j \in DOMAIN answer'.records : answer'.records[j] = AllRecords[j]
    BY <1>1, AnswerIsPage
  <2>4. ASSUME k \in DOMAIN answer'.records PROVE AtLeast(answer'.records[k], told[k])
    BY <2>1, <2>2, <2>3, <2>4
  <2>5. ASSUME Everything, told[k] # Zero PROVE k \in DOMAIN answer'.records
    <3>1. PICK f \in Fields : told[k][f] # 0
      BY <2>2, <2>5 DEF Zero
    <3>2. totals[k][f] # 0
      BY <2>2, <3>1 DEF AtLeast
    <3>3. totals[k] # Zero
      BY <3>1, <3>2 DEF Zero
    <3>4. k \in ListTotals
      BY <2>5, <3>3 DEF ListTotals, Matches, Everything
    <3> QED BY <1>1, <2>1, <2>5, <3>4, EverythingIsAnswered
  <2> QED BY <2>4, <2>5
<1>2. QueryInv /\ [QueryNext]_qvars =>
        [Respond /\ req.window = "all" =>
           \A k \in Keys :
             /\ k \in DOMAIN answer'.records => AtLeast(answer'.records[k], told[k])
             /\ Everything /\ told[k] # Zero => k \in DOMAIN answer'.records]_qvars
  BY <1>1
<1> QED BY <1>2, QueryInvariant, PTL DEF QuerySpec, AllCoversEveryWindow

==============================================================================
