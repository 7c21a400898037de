--------------------------- MODULE Retrieval_proofs ---------------------------
(***************************************************************************)
(* Theorems about Retrieval, for every store, every filter, every ranking  *)
(* the indexes return and every reply of a reranker.                       *)
(*                                                                         *)
(* Whatever the request does to a list is a finite set put in a strict     *)
(* total order, or the beginning of such a list.  So the lemmas say what   *)
(* InOrder returns, that ties broken by a total order leave a total order, *)
(* and what is kept of the order of a list that is narrowed or cut; the    *)
(* fused scores are exact fractions, compared by multiplying out.          *)
(***************************************************************************)
EXTENDS Retrieval, TLAPS, FiniteSetTheorems, SequenceTheorems

\* What a comparison is that may leave ties, and one that leaves none.
IsWeak(S, R) ==
  /\ \A x, y \in S : <<x, y>> \in R => <<y, x>> \notin R
  /\ \A x, y, z \in S : <<x, z>> \in R => <<x, y>> \in R \/ <<y, z>> \in R

IsTotal(S, R) ==
  /\ \A x, y \in S : <<x, y>> \in R => <<y, x>> \notin R
  /\ \A x, y, z \in S : <<x, y>> \in R /\ <<y, z>> \in R => <<x, z>> \in R
  /\ \A x, y \in S : x # y => <<x, y>> \in R \/ <<y, x>> \in R

\* A list of elements of S without a repetition.
IsListing(s, S) == s \in Seq(S) /\ IsInjective(s)

-----------------------------------------------------------------------------
(* Finite sets in an order.                                                *)

\* A comparison whose ties a total order breaks is a total order.
LEMMA Ties ==
  ASSUME NEW S, NEW R, NEW T, IsWeak(S, R), IsTotal(S, T)
  PROVE  IsTotal(S, ThenBy(R, T))
<1> DEFINE B == ThenBy(R, T)
<1>1. \A x, y : <<x, y>> \in B <=> <<x, y>> \in R \/ (<<x, y>> \in T /\ <<y, x>> \notin R)
  BY DEF ThenBy
<1> HIDE DEF B
<1>2. \A x, y \in S : <<x, y>> \in B => <<y, x>> \notin B
  BY <1>1 DEF IsWeak, IsTotal
<1>3. ASSUME NEW x \in S, NEW y \in S, NEW z \in S, <<x, y>> \in B, <<y, z>> \in B
      PROVE  <<x, z>> \in B
  BY <1>1, <1>3 DEF IsWeak, IsTotal
<1>4. \A x, y \in S : x # y => <<x, y>> \in B \/ <<y, x>> \in B
  BY <1>1 DEF IsTotal
<1>5. QED
  BY <1>2, <1>3, <1>4 DEF IsTotal, B

\* Numbers ascend in a total order.
LEMMA AscendingIsTotal ==
  ASSUME NEW S, S \subseteq Nat
  PROVE  IsTotal(S, Ascending(S))
BY DEF IsTotal, Ascending

\* What InOrder returns: the set, each element once, in the order it was given.
LEMMA Listing ==
  ASSUME NEW S, IsFiniteSet(S), NEW R, IsTotal(S, R)
  PROVE  /\ IsListing(InOrder(S, R), S)
         /\ Len(InOrder(S, R)) = Cardinality(S)
         /\ ToSet(InOrder(S, R)) = S
         /\ \A i, j \in DOMAIN InOrder(S, R) :
              i < j <=> <<InOrder(S, R)[i], InOrder(S, R)[j]>> \in R
<1> DEFINE n == Cardinality(S)
           below(x) == {y \in S : <<y, x>> \in R}
           count == [x \in S |-> Cardinality(below(x))]
           list == InOrder(S, R)
<1>1. n \in Nat
  BY FS_CardinalityType
<1>2. ASSUME NEW x \in S
      PROVE  IsFiniteSet(below(x)) /\ count[x] \in 0..(n - 1)
  <2>1. below(x) \in SUBSET (S \ {x}) /\ count[x] = Cardinality(below(x))
    BY DEF IsTotal
  <2> HIDE DEF below, count
  <2>2. IsFiniteSet(S \ {x}) /\ Cardinality(S \ {x}) = n - 1
    BY FS_RemoveElement
  <2>3. IsFiniteSet(below(x)) /\ Cardinality(below(x)) <= n - 1
    BY <2>1, <2>2, FS_Subset
  <2>4. Cardinality(below(x)) \in Nat
    BY <2>3, FS_CardinalityType
  <2>5. QED
    BY <1>1, <2>1, <2>3, <2>4
<1>3. ASSUME NEW x \in S, NEW y \in S, <<x, y>> \in R
      PROVE  count[x] < count[y]
  <2>1. /\ below(x) \in SUBSET below(y) /\ x \in below(y) /\ x \notin below(x)
        /\ count[x] = Cardinality(below(x)) /\ count[y] = Cardinality(below(y))
    BY <1>3 DEF IsTotal
  <2> HIDE DEF below, count
  <2>2. IsFiniteSet(below(y)) /\ count[x] \in Nat /\ count[y] \in Nat
    BY <1>1, <1>2
  <2>3. Cardinality(below(x)) <= Cardinality(below(y))
        /\ Cardinality(below(y)) # Cardinality(below(x))
    BY <2>1, <2>2, FS_Subset
  <2>4. QED
    BY <2>1, <2>2, <2>3
<1>4. count \in [S -> 0..(n - 1)] /\ \A x \in S : count[x] = Cardinality(below(x))
  BY <1>2
<1>5. list = [i \in 1..n |-> CHOOSE x \in S : Cardinality(below(x)) = i - 1]
  BY DEF InOrder
<1> HIDE DEF n, below, count, list
<1>6. count \in Surjection(S, 0..(n - 1))
  <2>1. \A x, y \in S : count[x] = count[y] => x = y
    <3>1. SUFFICES ASSUME NEW x \in S, NEW y \in S, count[x] = count[y], x # y
                   PROVE  FALSE
      OBVIOUS
    <3>2. count[x] < count[y] \/ count[y] < count[x]
      BY <1>3, <3>1 DEF IsTotal
    <3>3. count[x] \in Nat /\ count[y] \in Nat
      BY <1>1, <1>2
    <3>4. QED
      BY <3>1, <3>2, <3>3
  <2>2. count \in Injection(S, 0..(n - 1))
    BY <1>4, <2>1 DEF Injection, IsInjective
  <2>3. IsFiniteSet(0..(n - 1)) /\ Cardinality(0..(n - 1)) = n
    BY <1>1, FS_Interval
  <2>4. QED
    BY <2>2, <2>3, FS_Injection DEF n
<1>7. \A i \in 1..n : list[i] \in S /\ count[list[i]] = i - 1
  <2>1. SUFFICES ASSUME NEW i \in 1..n
                 PROVE  list[i] \in S /\ count[list[i]] = i - 1
    OBVIOUS
  <2>2. i - 1 \in 0..(n - 1)
    BY <1>1
  <2>3. PICK x \in S : count[x] = i - 1
    BY <1>6, <2>2 DEF Surjection
  <2>4. Cardinality(below(x)) = i - 1
    BY <1>4, <2>3
  <2>5. list[i] = CHOOSE y \in S : Cardinality(below(y)) = i - 1
    BY <1>5
  <2>6. list[i] \in S /\ Cardinality(below(list[i])) = i - 1
    BY <2>4, <2>5
  <2>7. QED
    BY <1>4, <2>6
<1>8. DOMAIN list = 1..n /\ list \in [1..n -> S]
  <2> DEFINE pick(i) == CHOOSE x \in S : Cardinality(below(x)) = i - 1
  <2>1. list = [i \in 1..n |-> pick(i)]
    BY <1>5
  <2> HIDE DEF pick
  <2>2. QED
    BY <1>7, <2>1
<1>9. \A i \in 1..n : \A j \in 1..n : i < j <=> <<list[i], list[j]>> \in R
  <2>1. SUFFICES ASSUME NEW i \in 1..n, NEW j \in 1..n
                 PROVE  i < j <=> <<list[i], list[j]>> \in R
    OBVIOUS
  <2>2. /\ list[i] \in S /\ list[j] \in S
        /\ count[list[i]] = i - 1 /\ count[list[j]] = j - 1
    BY <1>7
  <2>3. CASE i < j
    <3>1. ~(count[list[j]] < count[list[i]]) /\ list[i] # list[j]
      BY <1>1, <2>2, <2>3
    <3>2. QED
      BY <1>3, <2>2, <2>3, <3>1 DEF IsTotal
  <2>4. CASE ~(i < j)
    <3>1. ~(count[list[i]] < count[list[j]])
      BY <1>1, <2>2, <2>4
    <3>2. QED
      BY <1>3, <2>2, <2>4, <3>1
  <2>5. QED
    BY <2>3, <2>4
<1>10. \A x \in S : \E i \in 1..n : list[i] = x
  <2>1. SUFFICES ASSUME NEW x \in S
                 PROVE  \E i \in 1..n : list[i] = x
    OBVIOUS
  <2>2. count[x] \in 0..(n - 1)
    BY <1>2
  <2>3. PICK i \in 1..n : i - 1 = count[x]
    <3>1. PICK m \in 0..(n - 1) : m = count[x]
      BY <2>2
    <3>2. m + 1 \in 1..n /\ (m + 1) - 1 = m
      BY <1>1
    <3>3. QED
      BY <3>1, <3>2
  <2>4. list[i] \in S /\ ~(count[list[i]] < count[x]) /\ ~(count[x] < count[list[i]])
    BY <1>1, <1>7, <2>3
  <2>5. QED
    BY <1>3, <2>4 DEF IsTotal
<1>11. IsInjective(list)
  <2>1. SUFFICES ASSUME NEW i \in 1..n, NEW j \in 1..n, list[i] = list[j]
                 PROVE  i = j
    BY <1>8 DEF IsInjective
  <2>2. i - 1 = j - 1
    BY <1>7, <2>1
  <2>3. QED
    BY <2>2
<1>12. list \in Seq(S) /\ Len(list) = n
  BY <1>1, <1>8, SeqDef
<1>13. ToSet(list) = S
  BY <1>8, <1>10 DEF ToSet
<1>14. QED
  BY <1>8, <1>9, <1>11, <1>12, <1>13 DEF IsListing, list, n

-----------------------------------------------------------------------------
(* Lists without repetition.                                               *)

\* The place of an element in its list.
LEMMA RankOfListing ==
  ASSUME NEW S, NEW s, IsListing(s, S)
  PROVE  /\ Len(s) \in Nat /\ DOMAIN s = 1..Len(s) /\ ToSet(s) \subseteq S
         /\ \A k : RankIn(s, k) \in 0..Len(s)
         /\ \A k : RankIn(s, k) # 0 <=> k \in ToSet(s)
         /\ \A k \in ToSet(s) : RankIn(s, k) \in DOMAIN s /\ s[RankIn(s, k)] = k
         /\ \A i \in DOMAIN s : s[i] \in S /\ s[i] \in ToSet(s) /\ RankIn(s, s[i]) = i
<1>1. Len(s) \in Nat /\ DOMAIN s = 1..Len(s) /\ s \in [1..Len(s) -> S]
  BY LenProperties DEF IsListing
<1>2. ToSet(s) \subseteq S /\ \A i \in DOMAIN s : s[i] \in S /\ s[i] \in ToSet(s)
  BY <1>1 DEF ToSet
<1>3. \A k \in ToSet(s) : RankIn(s, k) \in DOMAIN s /\ s[RankIn(s, k)] = k
  <2>1. SUFFICES ASSUME NEW k \in ToSet(s)
                 PROVE  RankIn(s, k) \in DOMAIN s /\ s[RankIn(s, k)] = k
    OBVIOUS
  <2>2. \E i \in DOMAIN s : s[i] = k
    BY DEF ToSet
  <2>3. RankIn(s, k) = CHOOSE i \in DOMAIN s : s[i] = k
    BY DEF RankIn
  <2>4. QED
    BY <2>2, <2>3
<1>4. \A k : k \notin ToSet(s) => RankIn(s, k) = 0
  BY DEF RankIn
<1>5. \A k : RankIn(s, k) \in 0..Len(s) /\ (RankIn(s, k) # 0 <=> k \in ToSet(s))
  BY <1>1, <1>3, <1>4
<1>6. \A i \in DOMAIN s : RankIn(s, s[i]) = i
  BY <1>2, <1>3 DEF IsListing, IsInjective
<1>7. QED
  BY <1>1, <1>2, <1>3, <1>5, <1>6

\* The elements of a list are finitely many, and as many as it is long.
LEMMA LengthOfListing ==
  ASSUME NEW S, NEW s, IsListing(s, S)
  PROVE  IsFiniteSet(ToSet(s)) /\ Cardinality(ToSet(s)) = Len(s)
<1>1. Len(s) \in Nat /\ DOMAIN s = 1..Len(s) /\ s \in [1..Len(s) -> S]
  BY LenProperties DEF IsListing
<1>2. s \in Surjection(1..Len(s), ToSet(s)) /\ s \in Injection(1..Len(s), ToSet(s))
  BY <1>1 DEF Surjection, Injection, ToSet, IsListing
<1>3. IsFiniteSet(1..Len(s)) /\ Cardinality(1..Len(s)) = Len(s)
  BY <1>1, FS_Interval
<1>4. QED
  BY <1>2, <1>3, FS_Surjection

\* A list says in which order its elements are.
LEMMA OrderOfIsTotal ==
  ASSUME NEW S, NEW s, IsListing(s, S), NEW T \in SUBSET ToSet(s)
  PROVE  IsTotal(T, OrderOf(s))
<1>1. \A x, y \in T : <<x, y>> \in OrderOf(s) <=> RankIn(s, x) < RankIn(s, y)
  BY DEF OrderOf
<1>2. \A x \in T : RankIn(s, x) \in Nat /\ s[RankIn(s, x)] = x
  BY RankOfListing
<1>3. QED
  BY <1>1, <1>2 DEF IsTotal

\* Of the beginning of a list: how long it is, what is in it, and where.
LEMMA Beginning ==
  ASSUME NEW S, NEW s, IsListing(s, S), NEW n \in Nat
  PROVE  /\ IsListing(FirstOf(s, n), ToSet(s))
         /\ Len(FirstOf(s, n)) = IF n < Len(s) THEN n ELSE Len(s)
         /\ \A k : RankIn(FirstOf(s, n), k) = IF RankIn(s, k) <= n THEN RankIn(s, k) ELSE 0
<1> DEFINE f == FirstOf(s, n)
           m == IF n < Len(s) THEN n ELSE Len(s)
<1>1. Len(s) \in Nat /\ DOMAIN s = 1..Len(s) /\ \A i \in DOMAIN s : s[i] \in ToSet(s)
  BY RankOfListing
<1>2. m \in Nat /\ m <= Len(s) /\ m <= n /\ (m = n \/ m = Len(s))
  BY <1>1
<1> DEFINE length == Len(s)
<1>3. 1..m \subseteq DOMAIN s
  <2>1. length \in Nat /\ m <= length /\ DOMAIN s = 1..length
    BY <1>1, <1>2
  <2> HIDE DEF length, m
  <2>2. QED
    BY <1>2, <2>1
<1>4. f = SubSeq(s, 1, m)
  BY DEF FirstOf
<1> HIDE DEF f, m
<1>5. /\ f \in Seq(ToSet(s)) /\ Len(f) = m
      /\ \A i \in 1..m : f[i] = s[i]
  <2>1. \A i \in 1..m : s[i] \in ToSet(s)
    BY <1>3, <1>1
  <2>2. /\ f \in Seq(ToSet(s)) /\ Len(f) = IF 1 <= m THEN m - 1 + 1 ELSE 0
        /\ \A i \in 1..(m - 1 + 1) : f[i] = s[1 + i - 1]
    BY <1>2, <1>4, <2>1, SubSeqProperties
  <2>3. m - 1 + 1 = m /\ \A i \in 1..m : 1 + i - 1 = i
    BY <1>2
  <2>4. QED
    BY <1>2, <2>2, <2>3
<1>6. DOMAIN f = 1..m
  BY <1>5, LenProperties
<1>7. IsListing(f, ToSet(s))
  BY <1>3, <1>1, <1>5, <1>6 DEF IsListing, IsInjective
<1>8. \A k : RankIn(f, k) = IF RankIn(s, k) <= n THEN RankIn(s, k) ELSE 0
  <2>1. SUFFICES ASSUME NEW k
                 PROVE  RankIn(f, k) = IF RankIn(s, k) <= n THEN RankIn(s, k) ELSE 0
    OBVIOUS
  <2>2. RankIn(s, k) \in 0..Len(s) /\ RankIn(f, k) \in 0..m /\ RankIn(s, k) \in Nat
    <3>1. RankIn(s, k) \in 0..length /\ RankIn(f, k) \in 0..m /\ length \in Nat
      BY <1>5, <1>7, RankOfListing
    <3> HIDE DEF length
    <3>2. RankIn(s, k) \in Nat
      BY <3>1
    <3>3. QED
      BY <3>1, <3>2 DEF length
  <2>3. CASE RankIn(f, k) # 0
    <3>1. RankIn(f, k) \in 1..m /\ f[RankIn(f, k)] = k
      BY <1>5, <1>6, <1>7, <2>3, RankOfListing
    <3>2. RankIn(f, k) \in DOMAIN s /\ s[RankIn(f, k)] = k
      BY <1>3, <1>5, <3>1
    <3>3. RankIn(s, k) = RankIn(f, k)
      BY <3>2, RankOfListing
    <3>4. QED
      BY <1>2, <2>2, <3>1, <3>3
  <2>4. CASE RankIn(f, k) = 0 /\ RankIn(s, k) # 0
    <3>1. RankIn(s, k) \in DOMAIN s /\ s[RankIn(s, k)] = k
      BY <2>4, RankOfListing
    <3>2. ~(RankIn(s, k) <= m)
      <4>1. SUFFICES ASSUME RankIn(s, k) <= m
                     PROVE  FALSE
        OBVIOUS
      <4>2. RankIn(s, k) \in 1..m
        BY <1>2, <2>2, <2>4, <4>1
      <4>3. RankIn(s, k) \in DOMAIN f /\ f[RankIn(s, k)] = k
        BY <1>5, <1>6, <3>1, <4>2
      <4>4. RankIn(f, k) = RankIn(s, k)
        BY <1>7, <4>3, RankOfListing
      <4>5. QED
        BY <2>4, <4>4
    <3>3. QED
      BY <1>2, <2>2, <2>4, <3>2
  <2>5. CASE RankIn(f, k) = 0 /\ RankIn(s, k) = 0
    BY <2>5
  <2>6. QED
    BY <2>3, <2>4, <2>5
<1>9. QED
  BY <1>5, <1>7, <1>8 DEF f, m

\* The places of two elements in a set that was put in order.
LEMMA PlacesInOrder ==
  ASSUME NEW S, IsFiniteSet(S), NEW R, IsTotal(S, R), NEW k \in S, NEW l \in S
  PROVE  RankIn(InOrder(S, R), k) < RankIn(InOrder(S, R), l) <=> <<k, l>> \in R
<1> DEFINE r == InOrder(S, R)
<1>1. /\ IsListing(r, S) /\ ToSet(r) = S
      /\ \A i, j \in DOMAIN r : i < j <=> <<r[i], r[j]>> \in R
  BY Listing
<1> HIDE DEF r
<1>2. /\ RankIn(r, k) \in DOMAIN r /\ r[RankIn(r, k)] = k
      /\ RankIn(r, l) \in DOMAIN r /\ r[RankIn(r, l)] = l
  BY <1>1, RankOfListing
<1>3. QED
  BY <1>1, <1>2 DEF r

\* What is left of a list stands in its old order.
LEMMA Narrowed ==
  ASSUME NEW S, NEW s, IsListing(s, S), NEW T
  PROVE  /\ IsListing(Restricted(s, T), ToSet(s))
         /\ ToSet(Restricted(s, T)) = ToSet(s) \cap T
         /\ \A k, l \in ToSet(s) \cap T :
              RankIn(Restricted(s, T), k) < RankIn(Restricted(s, T), l)
                <=> RankIn(s, k) < RankIn(s, l)
<1> DEFINE U == ToSet(s) \cap T
           r == Restricted(s, T)
<1>1. IsTotal(U, OrderOf(s))
  BY OrderOfIsTotal
<1>2. IsFiniteSet(U)
  BY LengthOfListing, FS_Intersection
<1>3. r = InOrder(U, OrderOf(s))
  BY DEF Restricted
<1>4. U \subseteq ToSet(s) /\ \A k \in U : k \in ToSet(s)
  OBVIOUS
<1> HIDE DEF U, r
<1>5. IsListing(r, U) /\ ToSet(r) = U
  BY <1>1, <1>2, <1>3, Listing
<1>6. IsListing(r, ToSet(s))
  BY <1>4, <1>5, SeqMonotonic DEF IsListing
<1>7. ASSUME NEW k \in U, NEW l \in U
      PROVE  RankIn(r, k) < RankIn(r, l) <=> RankIn(s, k) < RankIn(s, l)
  <2>1. RankIn(r, k) < RankIn(r, l) <=> <<k, l>> \in OrderOf(s)
    BY <1>1, <1>2, <1>3, PlacesInOrder
  <2>2. QED
    BY <1>4, <2>1 DEF OrderOf
<1>8. QED
  BY <1>5, <1>6, <1>7 DEF U, r

\* A stable sort returns the same elements, in the order of its comparison.
LEMMA StableSort ==
  ASSUME NEW S, NEW s, IsListing(s, S), NEW R, IsWeak(ToSet(s), R)
  PROVE  /\ IsListing(Sorted(s, R), ToSet(s))
         /\ ToSet(Sorted(s, R)) = ToSet(s)
         /\ \A i, j \in DOMAIN Sorted(s, R) :
              i < j => <<Sorted(s, R)[i], Sorted(s, R)[j]>> \in ThenBy(R, OrderOf(s))
<1>1. IsTotal(ToSet(s), ThenBy(R, OrderOf(s)))
  BY OrderOfIsTotal, Ties
<1>2. IsFiniteSet(ToSet(s))
  BY LengthOfListing
<1>3. QED
  BY <1>1, <1>2, Listing DEF Sorted

-----------------------------------------------------------------------------
(* Exact fractions.                                                        *)

Fractions == Nat \X (Nat \ {0})

LEMMA ProductOrder ==
  ASSUME NEW a \in Nat, NEW b \in Nat, NEW c \in Nat
  PROVE  /\ a * c \in Nat
         /\ a <= b => a * c <= b * c
         /\ a < b /\ c # 0 => a * c < b * c
<1>1. a * c \in Nat
  OBVIOUS
<1>2. ASSUME a <= b
      PROVE  a * c <= b * c
  <2>1. PICK d \in Nat : b = a + d
    <3>1. b - a \in Nat /\ b = a + (b - a)
      BY <1>2
    <3>2. QED
      BY <3>1
  <2>2. b * c = a * c + d * c /\ d * c \in Nat
    BY <2>1
  <2>3. QED
    BY <2>2
<1>3. ASSUME a < b, c # 0
      PROVE  a * c < b * c
  <2>1. PICK d \in Nat \ {0} : b = a + d
    <3>1. b - a \in Nat \ {0} /\ b = a + (b - a)
      BY <1>3
    <3>2. QED
      BY <3>1
  <2>2. b * c = a * c + d * c /\ d * c \in Nat \ {0}
    BY <1>3, <2>1
  <2>3. QED
    BY <2>2
<1>4. QED
  BY <1>1, <1>2, <1>3

\* Of fractions, Above is a comparison: it has no cycles of two, and what is
\* above another is above everything that is not.
LEMMA AboveIsWeak ==
  ASSUME NEW u \in Fractions, NEW v \in Fractions, NEW w \in Fractions
  PROVE  /\ Above(u, v) => ~Above(v, u)
         /\ Above(u, w) => Above(u, v) \/ Above(v, w)
<1> DEFINE a == u[1]
           b == u[2]
           c == v[1]
           d == v[2]
           e == w[1]
           f == w[2]
<1>1. /\ a \in Nat /\ b \in Nat /\ b # 0 /\ c \in Nat /\ d \in Nat /\ d # 0
      /\ e \in Nat /\ f \in Nat /\ f # 0
  BY DEF Fractions
<1>2. /\ Above(u, v) <=> a * d > c * b
      /\ Above(v, u) <=> c * b > a * d
      /\ Above(v, w) <=> c * f > e * d
      /\ Above(u, w) <=> a * f > e * b
  BY DEF Above
<1> HIDE DEF a, b, c, d, e, f
<1>3. a * d \in Nat /\ c * b \in Nat /\ c * f \in Nat /\ e * d \in Nat /\ a * f \in Nat /\ e * b \in Nat
  BY <1>1
<1>4. ASSUME a * d <= c * b, c * f <= e * d
      PROVE  a * f <= e * b
  <2>1. (a * d) * f <= (c * b) * f
    BY <1>1, <1>3, <1>4, ProductOrder
  <2>2. (c * f) * b <= (e * d) * b
    BY <1>1, <1>3, <1>4, ProductOrder
  <2>3. (a * d) * f = (a * f) * d /\ (c * b) * f = (c * f) * b /\ (e * d) * b = (e * b) * d
    BY <1>1
  <2>4. (a * f) * d <= (e * b) * d
    <3>1. (a * f) * d \in Nat /\ (c * f) * b \in Nat /\ (e * b) * d \in Nat
      BY <1>1, <1>3
    <3>2. QED
      BY <2>1, <2>2, <2>3, <3>1
  <2>5. ~(e * b < a * f)
    <3>1. e * b < a * f => (e * b) * d < (a * f) * d
      BY <1>1, <1>3, ProductOrder
    <3>2. (a * f) * d \in Nat /\ (e * b) * d \in Nat
      BY <1>1, <1>3
    <3>3. QED
      BY <2>4, <3>1, <3>2
  <2>6. QED
    BY <1>3, <2>5
<1>5. Above(u, v) => ~Above(v, u)
  BY <1>2, <1>3
<1>6. Above(u, w) => Above(u, v) \/ Above(v, w)
  BY <1>2, <1>3, <1>4
<1>7. QED
  BY <1>5, <1>6

\* A sum is above another whose terms are not above its own, one of them below.
LEMMA PlusKeepsOrder ==
  ASSUME NEW u \in Fractions, NEW v \in Fractions, NEW x \in Fractions, NEW y \in Fractions,
         ~Above(v, u), ~Above(y, x), Above(u, v) \/ Above(x, y)
  PROVE  Above(Plus(u, x), Plus(v, y))
<1> DEFINE a == u[1]
           b == u[2]
           c == v[1]
           d == v[2]
           e == x[1]
           f == x[2]
           g == y[1]
           h == y[2]
<1>1. /\ a \in Nat /\ b \in Nat /\ b # 0 /\ c \in Nat /\ d \in Nat /\ d # 0
      /\ e \in Nat /\ f \in Nat /\ f # 0 /\ g \in Nat /\ h \in Nat /\ h # 0
  BY DEF Fractions
<1>2. a * d \in Nat /\ c * b \in Nat /\ e * h \in Nat /\ g * f \in Nat
  BY <1>1
<1>3. c * b <= a * d /\ g * f <= e * h /\ (c * b < a * d \/ g * f < e * h)
  BY <1>2 DEF Above
<1>4. Above(Plus(u, x), Plus(v, y)) <=> (a * f + e * b) * (d * h) > (c * h + g * d) * (b * f)
  BY DEF Above, Plus
<1> HIDE DEF a, b, c, d, e, f, g, h
<1>5. f * h \in Nat /\ f * h # 0 /\ b * d \in Nat /\ b * d # 0
  BY <1>1
<1>6. /\ (c * b) * (f * h) <= (a * d) * (f * h)
      /\ (g * f) * (b * d) <= (e * h) * (b * d)
      /\ (c * b) * (f * h) < (a * d) * (f * h) \/ (g * f) * (b * d) < (e * h) * (b * d)
  BY <1>2, <1>3, <1>5, ProductOrder
<1>7. /\ (a * f + e * b) * (d * h) = (a * d) * (f * h) + (e * h) * (b * d)
      /\ (c * h + g * d) * (b * f) = (c * b) * (f * h) + (g * f) * (b * d)
  BY <1>1
<1>8. /\ (c * b) * (f * h) \in Nat /\ (a * d) * (f * h) \in Nat
      /\ (g * f) * (b * d) \in Nat /\ (e * h) * (b * d) \in Nat
  BY <1>2, <1>5
<1>9. QED
  BY <1>4, <1>6, <1>7, <1>8

-----------------------------------------------------------------------------
(* Searching and fusing.                                                   *)

\* That a list has a before b, which may not be there.
Before(s, a, b) == RankIn(s, b) # 0 => RankIn(s, a) # 0 /\ RankIn(s, a) < RankIn(s, b)

\* A shorter beginning of a list has no element before another that the list
\* does not have before it.
LEMMA BeginningKeepsBefore ==
  ASSUME NEW S, NEW s, IsListing(s, S), NEW n \in Nat, NEW a, NEW b, Before(s, a, b)
  PROVE  Before(FirstOf(s, n), a, b)
<1>1. RankIn(s, a) \in Nat /\ RankIn(s, b) \in Nat
  <2> DEFINE length == Len(s)
  <2>1. length \in Nat /\ RankIn(s, a) \in 0..length /\ RankIn(s, b) \in 0..length
    BY RankOfListing
  <2> HIDE DEF length
  <2>2. QED
    BY <2>1
<1>2. /\ RankIn(FirstOf(s, n), a) = IF RankIn(s, a) <= n THEN RankIn(s, a) ELSE 0
      /\ RankIn(FirstOf(s, n), b) = IF RankIn(s, b) <= n THEN RankIn(s, b) ELSE 0
  BY Beginning
<1>3. QED
  BY <1>1, <1>2 DEF Before

\* Nor has what is left of it.
LEMMA NarrowedKeepsBefore ==
  ASSUME NEW S, NEW s, IsListing(s, S), NEW T, NEW a \in T, NEW b \in T, Before(s, a, b)
  PROVE  Before(Restricted(s, T), a, b)
<1> DEFINE r == Restricted(s, T)
<1>1. /\ IsListing(r, ToSet(s)) /\ ToSet(r) = ToSet(s) \cap T
      /\ \A k, l \in ToSet(s) \cap T : RankIn(r, k) < RankIn(r, l) <=> RankIn(s, k) < RankIn(s, l)
  BY Narrowed
<1> HIDE DEF r
<1>2. \A k : /\ RankIn(r, k) # 0 <=> k \in ToSet(r)
             /\ RankIn(s, k) # 0 <=> k \in ToSet(s)
  BY <1>1, RankOfListing
<1>3. QED
  BY <1>1, <1>2 DEF Before, r

\* A search returns a list, in the order its index ranks what the allow-list
\* leaves.
LEMMA SearchFacts ==
  ASSUME NEW s, IsListing(s, Keys), NEW allow, NEW limit \in Nat
  PROVE  /\ IsListing(Search(s, allow, limit), Keys)
         /\ Len(Search(s, allow, limit)) <= limit
         /\ ToSet(Search(s, allow, limit)) \subseteq ToSet(s) \cap Within(allow)
         /\ \/ Len(Search(s, allow, limit)) = limit
            \/ ToSet(Search(s, allow, limit)) = ToSet(s) \cap Within(allow)
         /\ \A a, b \in Within(allow) :
              Before(s, a, b) => Before(Search(s, allow, limit), a, b)
<1> DEFINE r == Restricted(s, Within(allow))
           h == Search(s, allow, limit)
           length == Len(r)
<1>1. IsListing(r, ToSet(s)) /\ ToSet(r) = ToSet(s) \cap Within(allow) /\ length \in Nat
  BY Narrowed, RankOfListing
<1>2. h = FirstOf(r, limit)
  BY DEF Search
<1>3. \A a, b \in Within(allow) : Before(s, a, b) => Before(r, a, b)
  BY NarrowedKeepsBefore
<1> HIDE DEF r, h
<1>4. /\ IsListing(h, ToSet(r)) /\ Len(h) = IF limit < length THEN limit ELSE length
      /\ \A k : RankIn(h, k) = IF RankIn(r, k) <= limit THEN RankIn(r, k) ELSE 0
  BY <1>1, <1>2, Beginning
<1>5. ToSet(h) \subseteq ToSet(r)
  BY <1>4, RankOfListing
<1>6. ToSet(s) \subseteq Keys
  BY RankOfListing
<1>7. IsListing(h, Keys)
  <2>1. ToSet(r) \subseteq Keys
    BY <1>1, <1>6
  <2>2. QED
    BY <1>4, <2>1, SeqMonotonic DEF IsListing
<1>8. ASSUME ~(limit < length)
      PROVE  ToSet(h) = ToSet(r)
  <2>1. ASSUME NEW k \in ToSet(r)
        PROVE  k \in ToSet(h)
    <3>1. RankIn(r, k) # 0 /\ RankIn(r, k) \in 0..length
      BY <1>1, RankOfListing
    <3> HIDE DEF length
    <3>2. RankIn(r, k) <= limit
      BY <1>1, <1>8, <3>1
    <3>3. RankIn(h, k) # 0
      BY <1>4, <3>1, <3>2
    <3>4. QED
      BY <1>4, <3>3, RankOfListing
  <2>2. QED
    BY <1>5, <2>1
<1>9. \A a, b \in Within(allow) : Before(s, a, b) => Before(h, a, b)
  BY <1>1, <1>2, <1>3, BeginningKeepsBefore
<1> HIDE DEF length
<1>10. Len(h) <= limit /\ (Len(h) = limit \/ ~(limit < length))
  BY <1>1, <1>4
<1>11. QED
  BY <1>1, <1>5, <1>7, <1>8, <1>9, <1>10 DEF h

\* The terms of two ranks, the one before the other or that one missing.
LEMMA TermOrder ==
  ASSUME NEW r \in Nat, NEW q \in Nat, q # 0 => r # 0 /\ r < q
  PROVE  /\ ~Above(Term(q), Term(r))
         /\ q # 0 => Above(Term(r), Term(q))
<1>1. RrfK \in Nat
  BY RetrievalAssumption
<1>2. CASE q = 0 /\ r = 0
  BY <1>1, <1>2 DEF Above, Term
<1>3. CASE q = 0 /\ r # 0
  BY <1>1, <1>3 DEF Above, Term
<1>4. CASE q # 0
  BY <1>1, <1>4 DEF Above, Term
<1>5. QED
  BY <1>2, <1>3, <1>4

LEMMA TermType ==
  ASSUME NEW r \in Nat
  PROVE  Term(r) \in Fractions
BY RetrievalAssumption DEF Term, Fractions

LEMMA PlusType ==
  ASSUME NEW v \in Fractions, NEW t \in Fractions
  PROVE  Plus(v, t) \in Fractions
<1>1. v[1] \in Nat /\ v[2] \in Nat \ {0} /\ t[1] \in Nat /\ t[2] \in Nat \ {0}
  BY DEF Fractions
<1>2. v[1] * t[2] \in Nat /\ t[1] * v[2] \in Nat /\ v[2] * t[2] \in Nat \ {0}
  BY <1>1
<1>3. QED
  BY <1>2 DEF Plus, Fractions

\* What has a pair of lists of keys to fuse.
Lists(lists) == IsListing(lists["vector"], Keys) /\ IsListing(lists["bm25"], Keys)

LEMMA RanksAreNumbers ==
  ASSUME NEW S, NEW s, IsListing(s, S), NEW k
  PROVE  RankIn(s, k) \in Nat
<1> DEFINE length == Len(s)
<1>1. length \in Nat /\ RankIn(s, k) \in 0..length
  BY RankOfListing
<1> HIDE DEF length
<1>2. QED
  BY <1>1

LEMMA ScoreType ==
  ASSUME NEW lists, Lists(lists), NEW k
  PROVE  Score(lists, k) \in Fractions
<1>1. RankIn(lists["vector"], k) \in Nat /\ RankIn(lists["bm25"], k) \in Nat
  BY RanksAreNumbers DEF Lists
<1>2. QED
  BY <1>1, TermType, PlusType DEF Score

\* A key that both lists have before another, which one of them returned, has
\* the higher score, strictly.
LEMMA ScoreOrder ==
  ASSUME NEW lists, Lists(lists), NEW a, NEW b,
         Before(lists["vector"], a, b), Before(lists["bm25"], a, b),
         b \in ToSet(lists["vector"]) \cup ToSet(lists["bm25"])
  PROVE  Above(Score(lists, a), Score(lists, b))
<1> DEFINE va == RankIn(lists["vector"], a)
           vb == RankIn(lists["vector"], b)
           ta == RankIn(lists["bm25"], a)
           tb == RankIn(lists["bm25"], b)
<1>1. va \in Nat /\ vb \in Nat /\ ta \in Nat /\ tb \in Nat
  BY RanksAreNumbers DEF Lists
<1>2. vb # 0 \/ tb # 0
  BY RankOfListing DEF Lists
<1>3. /\ vb # 0 => va # 0 /\ va < vb
      /\ tb # 0 => ta # 0 /\ ta < tb
  BY DEF Before
<1>4. /\ Score(lists, a) = Plus(Term(va), Term(ta))
      /\ Score(lists, b) = Plus(Term(vb), Term(tb))
  BY DEF Score
<1> HIDE DEF va, vb, ta, tb
<1>5. /\ ~Above(Term(vb), Term(va)) /\ ~Above(Term(tb), Term(ta))
      /\ Above(Term(va), Term(vb)) \/ Above(Term(ta), Term(tb))
  BY <1>1, <1>2, <1>3, TermOrder
<1>6. Term(va) \in Fractions /\ Term(vb) \in Fractions /\ Term(ta) \in Fractions /\ Term(tb) \in Fractions
  BY <1>1, TermType
<1>7. QED
  BY <1>4, <1>5, <1>6, PlusKeepsOrder

\* What fuseByRrf returns: what one of the searches returned, the higher score
\* before the lower.
LEMMA Fused ==
  ASSUME NEW lists, Lists(lists)
  PROVE  /\ IsListing(FuseByRrf(lists), Keys)
         /\ ToSet(FuseByRrf(lists)) = ToSet(lists["vector"]) \cup ToSet(lists["bm25"])
         /\ \A a, b \in ToSet(FuseByRrf(lists)) :
              Above(Score(lists, a), Score(lists, b)) =>
                RankIn(FuseByRrf(lists), a) < RankIn(FuseByRrf(lists), b)
<1> DEFINE found == ToSet(lists["vector"]) \cup ToSet(lists["bm25"])
           score == [k \in found |-> Score(lists, k)]
           higher == {p \in found \X found : Above(score[p[1]], score[p[2]])}
           order == ThenBy(higher, Ascending(found))
           fused == FuseByRrf(lists)
<1>1. found \subseteq Keys /\ IsFiniteSet(found)
  <2>1. ToSet(lists["vector"]) \subseteq Keys /\ ToSet(lists["bm25"]) \subseteq Keys
    BY RankOfListing DEF Lists
  <2>2. IsFiniteSet(ToSet(lists["vector"])) /\ IsFiniteSet(ToSet(lists["bm25"]))
    BY LengthOfListing DEF Lists
  <2>3. QED
    BY <2>1, <2>2, FS_Union
<1>2. fused = InOrder(found, order)
  BY DEF FuseByRrf
<1>3. \A a, b \in found : <<a, b>> \in higher <=> Above(Score(lists, a), Score(lists, b))
  <2>1. SUFFICES ASSUME NEW a \in found, NEW b \in found
                 PROVE  <<a, b>> \in higher <=> Above(Score(lists, a), Score(lists, b))
    OBVIOUS
  <2>2. <<a, b>> \in higher <=> Above(score[a], score[b])
    OBVIOUS
  <2>3. score[a] = Score(lists, a) /\ score[b] = Score(lists, b)
    OBVIOUS
  <2>4. QED
    BY <2>2, <2>3
<1>4. order = ThenBy(higher, Ascending(found))
  OBVIOUS
<1> HIDE DEF found, score, higher, order, fused
<1>5. IsWeak(found, higher)
  <2>1. \A a \in found : Score(lists, a) \in Fractions
    BY ScoreType
  <2>2. \A x, y \in found : <<x, y>> \in higher => <<y, x>> \notin higher
    BY <1>3, <2>1, AboveIsWeak
  <2>3. ASSUME NEW x \in found, NEW y \in found, NEW z \in found, <<x, z>> \in higher
        PROVE  <<x, y>> \in higher \/ <<y, z>> \in higher
    BY <1>3, <2>1, <2>3, AboveIsWeak
  <2>4. QED
    BY <2>2, <2>3 DEF IsWeak
<1>6. IsTotal(found, order)
  <2>1. found \subseteq Nat
    BY <1>1, RetrievalAssumption
  <2>2. QED
    BY <1>4, <1>5, <2>1, AscendingIsTotal, Ties
<1>7. IsListing(fused, found) /\ ToSet(fused) = found
  BY <1>1, <1>2, <1>6, Listing
<1>8. IsListing(fused, Keys)
  BY <1>1, <1>7, SeqMonotonic DEF IsListing
<1>9. ASSUME NEW a \in found, NEW b \in found, Above(Score(lists, a), Score(lists, b))
      PROVE  RankIn(fused, a) < RankIn(fused, b)
  <2>1. <<a, b>> \in order
    BY <1>3, <1>4, <1>9 DEF ThenBy
  <2>2. QED
    BY <1>1, <1>2, <1>6, <2>1, PlacesInOrder
<1>10. QED
  BY <1>7, <1>8, <1>9 DEF fused, found

-----------------------------------------------------------------------------
(* Reranking.                                                              *)

\* What a reranker may make of the candidates: all of them, each once.
Permutes(r, s) == IsListing(r, Keys) /\ Len(r) = Len(s) /\ ToSet(r) = ToSet(s)

\* An enumeration of a finite set lists all of it.
LEMMA Enumeration ==
  ASSUME NEW S, IsFiniteSet(S), NEW s \in SetToSeqs(S)
  PROVE  IsListing(s, S) /\ ToSet(s) = S
<1> DEFINE n == Cardinality(S)
<1>1. n \in Nat /\ s \in [1..n -> S] /\ \A i, j \in 1..n : i # j => s[i] # s[j]
  BY FS_CardinalityType DEF SetToSeqs
<1>2. IsFiniteSet(S) /\ Cardinality(S) = n
  OBVIOUS
<1> HIDE DEF n
<1>3. s \in Seq(S) /\ IsInjective(s)
  BY <1>1, SeqDef DEF IsInjective
<1>4. IsFiniteSet(1..n) /\ Cardinality(1..n) = n
  BY <1>1, FS_Interval
<1>5. s \in Injection(1..n, S)
  BY <1>1, <1>3 DEF Injection
<1>6. s \in Surjection(1..n, S)
  BY <1>2, <1>4, <1>5, FS_Injection
<1>7. ToSet(s) = S
  BY <1>1, <1>6 DEF Surjection, ToSet
<1>8. QED
  BY <1>3, <1>7 DEF IsListing

\* A list looked up in a table that has nothing twice.
LEMMA LookedUp ==
  ASSUME NEW T, NEW named, IsListing(named, T), NEW U, NEW table,
         \A x \in T : table[x] \in U,
         \A x, y \in T : table[x] = table[y] => x = y
  PROVE  IsListing([j \in DOMAIN named |-> table[named[j]]], U)
<1> DEFINE list == [j \in DOMAIN named |-> table[named[j]]]
           n == Len(named)
<1>1. n \in Nat /\ DOMAIN named = 1..n /\ \A j \in 1..n : named[j] \in T
  BY RankOfListing
<1>2. list = [j \in 1..n |-> table[named[j]]]
  BY <1>1
<1> HIDE DEF list, n
<1>3. list \in [1..n -> U]
  BY <1>1, <1>2
<1>4. list \in Seq(U)
  BY <1>1, <1>3, SeqDef
<1>5. IsInjective(list)
  BY <1>1, <1>2 DEF IsInjective, IsListing
<1>6. QED
  BY <1>4, <1>5 DEF IsListing, list

\* What was not named is appended, and so nothing is lost; nor is anything
\* repeated that was not named twice.
LEMMA CompletedPermutes ==
  ASSUME NEW s, IsListing(s, Keys), NEW o \in Seq(ToSet(s))
  PROVE  /\ Completed(s, o) \in Seq(Keys) /\ ToSet(Completed(s, o)) = ToSet(s)
         /\ IsInjective(o) => Permutes(Completed(s, o), s)
<1> DEFINE r == Restricted(s, Keys \ ToSet(o))
           c == Completed(s, o)
           m == Len(o)
           n == Len(r)
<1>1. /\ ToSet(s) \subseteq Keys /\ ToSet(o) \subseteq ToSet(s)
      /\ m \in Nat /\ DOMAIN o = 1..m
      /\ \A i \in 1..m : o[i] \in ToSet(s) /\ o[i] \in ToSet(o)
  <2>1. m \in Nat /\ DOMAIN o = 1..m /\ o \in [1..m -> ToSet(s)]
    BY LenProperties
  <2> HIDE DEF m
  <2>2. ToSet(o) \subseteq ToSet(s) /\ \A i \in 1..m : o[i] \in ToSet(s) /\ o[i] \in ToSet(o)
    BY <2>1 DEF ToSet
  <2>3. QED
    BY <2>1, <2>2, RankOfListing
<1>2. IsListing(r, ToSet(s)) /\ ToSet(r) = ToSet(s) \ ToSet(o)
  BY <1>1, Narrowed
<1>3. c = o \o r
  BY DEF Completed
<1> HIDE DEF r, c
<1>4. n \in Nat /\ DOMAIN r = 1..n /\ \A i \in 1..n : r[i] \in ToSet(r)
  BY <1>2, RankOfListing
<1>5. /\ c \in Seq(ToSet(s)) /\ Len(c) = m + n
      /\ \A i \in 1..(m + n) : c[i] = IF i <= m THEN o[i] ELSE r[i - m]
  BY <1>2, <1>3, ConcatProperties DEF IsListing
<1>6. DOMAIN c = 1..(m + n)
  BY <1>5, LenProperties
<1> HIDE DEF m, n
<1>7. ASSUME NEW i \in 1..(m + n), i <= m
      PROVE  i \in 1..m /\ c[i] = o[i] /\ c[i] \in ToSet(o)
  BY <1>1, <1>4, <1>5, <1>7
<1>8. ASSUME NEW i \in 1..(m + n), ~(i <= m)
      PROVE  i - m \in 1..n /\ c[i] = r[i - m] /\ c[i] \in ToSet(r)
  <2>1. i - m \in 1..n
    BY <1>1, <1>4, <1>8
  <2>2. QED
    BY <1>1, <1>4, <1>5, <1>8, <2>1
<1>9. ASSUME IsInjective(o)
      PROVE  IsInjective(c)
  <2>1. SUFFICES ASSUME NEW i \in 1..(m + n), NEW j \in 1..(m + n), c[i] = c[j]
                 PROVE  i = j
    BY <1>6 DEF IsInjective
  <2>2. CASE i <= m /\ j <= m
    <3>1. i \in DOMAIN o /\ j \in DOMAIN o /\ o[i] = o[j]
      BY <1>1, <1>4, <1>7, <2>1, <2>2
    <3>2. QED
      BY <1>9, <3>1 DEF IsInjective
  <2>3. CASE ~(i <= m) /\ ~(j <= m)
    <3>1. i - m \in DOMAIN r /\ j - m \in DOMAIN r /\ r[i - m] = r[j - m]
      BY <1>4, <1>8, <2>1, <2>3
    <3>2. i - m = j - m
      BY <1>2, <3>1 DEF IsListing, IsInjective
    <3>3. QED
      BY <1>1, <1>4, <3>2
  <2>4. CASE i <= m /\ ~(j <= m)
    BY <1>2, <1>7, <1>8, <2>1, <2>4
  <2>5. CASE ~(i <= m) /\ j <= m
    BY <1>2, <1>7, <1>8, <2>1, <2>5
  <2>6. QED
    BY <2>2, <2>3, <2>4, <2>5
<1>10. ToSet(c) = ToSet(s)
  <2>1. ToSet(c) \subseteq ToSet(s)
    BY <1>5, <1>6, ElementOfSeq DEF ToSet
  <2>2. ASSUME NEW k \in ToSet(o)
        PROVE  k \in ToSet(c)
    <3>1. PICK i \in 1..m : o[i] = k
      BY <1>1, <1>4 DEF ToSet
    <3>2. i \in 1..(m + n) /\ i <= m
      BY <1>1, <1>4
    <3>3. c[i] = k
      BY <1>5, <3>1, <3>2
    <3>4. QED
      BY <1>6, <3>2, <3>3 DEF ToSet
  <2>3. ASSUME NEW k \in ToSet(r)
        PROVE  k \in ToSet(c)
    <3>1. PICK i \in 1..n : r[i] = k
      BY <1>1, <1>4 DEF ToSet
    <3>2. i + m \in 1..(m + n) /\ ~(i + m <= m) /\ (i + m) - m = i
      BY <1>1, <1>4
    <3>3. c[i + m] = k
      BY <1>5, <3>1, <3>2
    <3>4. QED
      BY <1>6, <3>2, <3>3 DEF ToSet
  <2>4. QED
    BY <1>1, <1>2, <2>1, <2>2, <2>3
<1>11. c \in Seq(Keys)
  BY <1>1, <1>5, SeqMonotonic
<1>12. ASSUME IsInjective(o)
       PROVE  Permutes(c, s)
  <2>1. IsListing(c, Keys)
    BY <1>9, <1>11, <1>12 DEF IsListing
  <2>2. Len(c) = Len(s)
    BY <1>10, <2>1, LengthOfListing
  <2>3. QED
    BY <1>10, <2>1, <2>2 DEF Permutes
<1>13. QED
  BY <1>10, <1>11, <1>12 DEF c

\* The model's reply: every index that is one, the first time it is named.
LEMMA PickedIsListing ==
  ASSUME NEW s, IsListing(s, Keys), NEW reply \in Replies(s)
  PROVE  IsListing(Picked(s, reply), ToSet(s))
<1> DEFINE first == {i \in DOMAIN reply :
                       reply[i] \in DOMAIN s /\ \A j \in 1..(i - 1) : reply[j] # reply[i]}
           named == InOrder(first, Ascending(first))
           table == [i \in first |-> s[reply[i]]]
<1>1. PICK n \in 0..MaxReply : reply \in [1..n -> 1..(Len(s) + 1)]
  BY DEF Replies
<1>2. n \in Nat /\ DOMAIN reply = 1..n
  BY <1>1, RetrievalAssumption
<1>3. first \subseteq 1..n /\ first \subseteq Nat
  BY <1>2
<1>4. IsFiniteSet(first)
  <2>1. IsFiniteSet(1..n)
    BY <1>2, FS_Interval
  <2>2. QED
    BY <1>3, <2>1, FS_Subset
<1>5. \A i \in first : reply[i] \in DOMAIN s /\ \A j \in 1..(i - 1) : reply[j] # reply[i]
  OBVIOUS
<1>6. Picked(s, reply) = [j \in DOMAIN named |-> s[reply[named[j]]]]
  BY DEF Picked
<1> HIDE DEF first
<1>7. IsListing(named, first)
  BY <1>3, <1>4, AscendingIsTotal, Listing
<1> HIDE DEF named
<1>8. \A i \in first : table[i] = s[reply[i]] /\ table[i] \in ToSet(s)
  BY <1>5, RankOfListing
<1>9. \A i, j \in first : table[i] = table[j] => i = j
  <2>1. SUFFICES ASSUME NEW i \in first, NEW j \in first, table[i] = table[j], i < j
                 PROVE  FALSE
    BY <1>3
  <2>2. reply[i] = reply[j]
    BY <1>5, <1>8, <2>1 DEF IsListing, IsInjective
  <2>3. i \in 1..(j - 1)
    BY <1>3, <2>1
  <2>4. QED
    BY <1>5, <2>2, <2>3
<1>10. \A j \in DOMAIN named : named[j] \in first
  BY <1>7, RankOfListing
<1>11. Picked(s, reply) = [j \in DOMAIN named |-> table[named[j]]]
  BY <1>6, <1>8, <1>10
<1> HIDE DEF table
<1>12. QED
  BY <1>7, <1>8, <1>9, <1>11, LookedUp

\* Cohere's reply: the candidates its rows are of, each as often as it is named.
LEMMA ByRelevanceIsOfCandidates ==
  ASSUME NEW s, IsListing(s, Keys), NEW results \in Results(s),
         NEW order \in SortedRows(s, results)
  PROVE  /\ ByRelevance(s, results, order) \in Seq(ToSet(s))
         /\ ~Repeats(s, results) => IsInjective(ByRelevance(s, results, order))
<1> DEFINE sent == OfCandidates(s, results)
           list == ByRelevance(s, results, order)
           n == Len(order)
<1>1. PICK m \in 0..MaxReply : results \in [1..m -> [index : 1..(Len(s) + 1), relevance : 1..2]]
  BY DEF Results
<1>2. IsFiniteSet(sent)
  <2>1. IsFiniteSet(1..m) /\ sent \in SUBSET (1..m)
    BY <1>1, RetrievalAssumption, FS_Interval DEF OfCandidates
  <2> HIDE DEF sent
  <2>2. QED
    BY <2>1, FS_Subset
<1>3. order \in SetToSeqs(sent)
  BY DEF SortedRows
<1>4. \A i \in sent : results[i].index \in DOMAIN s
  BY DEF OfCandidates
<1>5. ~Repeats(s, results) => \A i, j \in sent : results[i].index = results[j].index => i = j
  BY DEF Repeats
<1> HIDE DEF sent
<1>6. IsListing(order, sent)
  BY <1>2, <1>3, Enumeration
<1>7. n \in Nat /\ DOMAIN order = 1..n /\ \A j \in 1..n : order[j] \in sent
  BY <1>6, RankOfListing
<1>8. list = [j \in DOMAIN order |-> s[results[order[j]].index]]
  BY DEF ByRelevance
<1> HIDE DEF list, n
<1>9. \A j \in 1..n : list[j] = s[results[order[j]].index] /\ list[j] \in ToSet(s)
  BY <1>4, <1>7, <1>8, RankOfListing
<1>10. list \in Seq(ToSet(s)) /\ DOMAIN list = 1..n
  BY <1>7, <1>8, <1>9, SeqDef
<1>11. ASSUME ~Repeats(s, results), NEW i \in 1..n, NEW j \in 1..n, list[i] = list[j]
       PROVE  i = j
  <2>1. results[order[i]].index = results[order[j]].index
    BY <1>4, <1>7, <1>9, <1>11 DEF IsListing, IsInjective
  <2>2. order[i] = order[j]
    BY <1>5, <1>7, <1>11, <2>1
  <2>3. QED
    BY <1>6, <1>7, <2>2 DEF IsListing, IsInjective
<1>12. QED
  BY <1>10, <1>11 DEF list, IsInjective

\* The candidates of a list as the authority's reranker wants them.
InAuthorityOrder(r, s) ==
  \A i, j \in DOMAIN r : i < j =>
    \/ Higher(r[i], r[j])
    \/ /\ LevelOf[DocOf[r[i]]] = LevelOf[DocOf[r[j]]]
       /\ RankIn(s, r[i]) < RankIn(s, r[j])

LEMMA ByAuthorityPermutes ==
  ASSUME NEW s, IsListing(s, Keys)
  PROVE  Permutes(ByAuthority(s), s) /\ InAuthorityOrder(ByAuthority(s), s)
<1> DEFINE order == {p \in Keys \X Keys : Higher(p[1], p[2])}
           r == ByAuthority(s)
<1>1. ToSet(s) \subseteq Keys
  BY RankOfListing
<1>2. \A k \in Keys : LevelOf[DocOf[k]] \in Nat
  BY RetrievalAssumption
<1>3. \A k, l \in Keys : <<k, l>> \in order <=> LevelOf[DocOf[k]] < LevelOf[DocOf[l]]
  BY DEF Higher
<1>4. r = Sorted(s, order)
  BY DEF ByAuthority
<1> HIDE DEF order, r
<1>5. IsWeak(ToSet(s), order)
  <2>1. \A x, y \in ToSet(s) : <<x, y>> \in order => <<y, x>> \notin order
    BY <1>1, <1>2, <1>3
  <2>2. \A x, y, z \in ToSet(s) : <<x, z>> \in order => <<x, y>> \in order \/ <<y, z>> \in order
    BY <1>1, <1>2, <1>3
  <2>3. QED
    BY <2>1, <2>2 DEF IsWeak
<1>6. /\ IsListing(r, ToSet(s)) /\ ToSet(r) = ToSet(s)
      /\ \A i, j \in DOMAIN r : i < j => <<r[i], r[j]>> \in ThenBy(order, OrderOf(s))
  BY <1>4, <1>5, StableSort
<1>7. Permutes(r, s)
  <2>1. IsListing(r, Keys)
    BY <1>1, <1>6, SeqMonotonic DEF IsListing
  <2>2. Len(r) = Len(s)
    BY <1>6, <2>1, LengthOfListing
  <2>3. QED
    BY <1>6, <2>1, <2>2 DEF Permutes
<1>8. ASSUME NEW i \in DOMAIN r, NEW j \in DOMAIN r, i < j
      PROVE  \/ Higher(r[i], r[j])
             \/ /\ LevelOf[DocOf[r[i]]] = LevelOf[DocOf[r[j]]]
                /\ RankIn(s, r[i]) < RankIn(s, r[j])
  <2>1. r[i] \in ToSet(s) /\ r[j] \in ToSet(s) /\ r[i] \in Keys /\ r[j] \in Keys
    BY <1>1, <1>6, RankOfListing
  <2>2. \/ <<r[i], r[j]>> \in order
        \/ <<r[i], r[j]>> \in OrderOf(s) /\ <<r[j], r[i]>> \notin order
    BY <1>6, <1>8 DEF ThenBy
  <2>3. <<r[i], r[j]>> \in OrderOf(s) => RankIn(s, r[i]) < RankIn(s, r[j])
    BY DEF OrderOf
  <2>4. QED
    BY <1>2, <1>3, <2>1, <2>2, <2>3 DEF Higher
<1>9. QED
  BY <1>7, <1>8 DEF InAuthorityOrder, r

-----------------------------------------------------------------------------
(* The inductive invariant.  TypeOK bounds what the stages returned, and   *)
(* the other invariants relate the candidates to the rankings behind them: *)
(* so IInv says that a stage returned its search of the ranking it read,   *)
(* and that the candidates are what fusing these returned gives.           *)

SearchesOK ==
  /\ DOMAIN hits = DOMAIN ranking /\ DOMAIN hits \subseteq Stages
  /\ \A s \in DOMAIN hits :
       /\ IsListing(ranking[s], Keys)
       /\ hits[s] = Search(ranking[s], Allow(request), PerStageK(request))
  /\ "vector" \in DOMAIN hits => ToSet(ranking["vector"]) = Keys

CandidatesOK ==
  /\ IsListing(candidates, Keys) /\ Len(candidates) <= request.topK
  /\ phase = "fused" =>
       /\ DOMAIN hits = Stages
       /\ candidates = Cut(request, Restricted(FuseByRrf(hits), Guarded(request)))

OutcomeOK ==
  /\ ranked \in Seq(Keys) /\ provider \in Providers /\ repeated \in BOOLEAN
  /\ phase # "done" => provider = "off" /\ ~repeated
  /\ phase = "done" =>
       /\ ToSet(ranked) = ToSet(candidates)
       /\ Permutes(ranked, candidates) \/ (provider = "cohere" /\ repeated)
       /\ provider = "authority" => InAuthorityOrder(ranked, candidates)

IInv ==
  /\ phase \in {"asked", "searching", "fused", "reranking", "done", "failed"}
  /\ request \in Requests
  /\ SearchesOK /\ CandidatesOK /\ OutcomeOK

LEMMA RequestType ==
  ASSUME NEW q \in Requests
  PROVE  /\ q.topK \in Nat \ {0} /\ q.factor \in Nat \ {0}
         /\ PerStageK(q) \in Nat /\ q.topK <= PerStageK(q)
         /\ q.filtered \in BOOLEAN
<1>1. q \in Asked /\ <<q.topK, q.factor>> \in Windows
  BY DEF Requests
<1>2. q.topK \in Nat \ {0} /\ q.factor \in Nat \ {0}
  BY <1>1, RetrievalAssumption
<1>3. q.filtered \in BOOLEAN
  BY <1>1 DEF Asked
<1>4. PerStageK(q) = q.topK * q.factor
  BY DEF PerStageK
<1>5. \A a \in Nat \ {0} : \A b \in Nat \ {0} : a * b \in Nat /\ a <= a * b
  <2>1. SUFFICES ASSUME NEW a \in Nat \ {0}, NEW b \in Nat \ {0}
                 PROVE  a * b \in Nat /\ a <= a * b
    OBVIOUS
  <2>2. 1 * a <= b * a
    BY ProductOrder
  <2>3. QED
    BY <2>2
<1>6. QED
  BY <1>2, <1>3, <1>4, <1>5

\* What fusing, guarding and cutting two lists of keys gives.
LEMMA FuseType ==
  ASSUME NEW lists, Lists(lists), NEW q \in Requests
  PROVE  /\ IsListing(Cut(q, Restricted(FuseByRrf(lists), Guarded(q))), Keys)
         /\ Len(Cut(q, Restricted(FuseByRrf(lists), Guarded(q)))) <= q.topK
<1> DEFINE f == FuseByRrf(lists)
           g == Restricted(f, Guarded(q))
           c == Cut(q, g)
           length == Len(g)
<1>1. IsListing(f, Keys) /\ ToSet(f) \subseteq Keys
  BY Fused, RankOfListing
<1> HIDE DEF f
<1>2. IsListing(g, ToSet(f)) /\ ToSet(g) \subseteq Keys /\ length \in Nat
  BY <1>1, Narrowed, RankOfListing
<1>3. q.topK \in Nat
  BY RequestType
<1>4. c = FirstOf(g, q.topK)
  BY DEF Cut
<1> HIDE DEF g, c
<1>5. IsListing(c, ToSet(g)) /\ Len(c) = IF q.topK < length THEN q.topK ELSE length
  BY <1>2, <1>3, <1>4, Beginning
<1>6. IsListing(c, Keys)
  BY <1>2, <1>5, SeqMonotonic DEF IsListing
<1> HIDE DEF length
<1>7. Len(c) <= q.topK
  BY <1>2, <1>3, <1>5
<1>8. QED
  BY <1>6, <1>7 DEF c, g, f

\* With both stages in, there is a pair of lists of keys to fuse.
LEMMA HitsAreLists ==
  ASSUME request \in Requests, SearchesOK, DOMAIN hits = Stages
  PROVE  Lists(hits)
<1>1. PerStageK(request) \in Nat
  BY RequestType
<1>2. \A s \in Stages : IsListing(hits[s], Keys)
  <2>1. SUFFICES ASSUME NEW s \in Stages
                 PROVE  IsListing(hits[s], Keys)
    OBVIOUS
  <2>2. IsListing(ranking[s], Keys) /\ hits[s] = Search(ranking[s], Allow(request), PerStageK(request))
    BY DEF SearchesOK
  <2>3. QED
    BY <1>1, <2>2, SearchFacts
<1>3. QED
  BY <1>2 DEF Lists, Stages

\* An index ranks its keys once each, and the vector index ranks them all.
LEMMA RankingsAreLists ==
  /\ \A whole \in Rankings : IsListing(whole, Keys) /\ ToSet(whole) = Keys
  /\ \A whole \in TextRankings : IsListing(whole, Keys)
<1>1. IsFiniteSet(Keys)
  BY RetrievalAssumption
<1>2. \A whole \in Rankings : IsListing(whole, Keys) /\ ToSet(whole) = Keys
  BY <1>1, Enumeration DEF Rankings
<1>3. ASSUME NEW whole \in TextRankings
      PROVE  IsListing(whole, Keys)
  <2>1. PICK found \in SUBSET Keys : whole \in SetToSeqs(found)
    BY DEF TextRankings
  <2>2. IsFiniteSet(found)
    BY <1>1, FS_Subset
  <2>3. IsListing(whole, found)
    BY <2>1, <2>2, Enumeration
  <2>4. QED
    BY <2>3, SeqMonotonic DEF IsListing
<1>4. QED
  BY <1>2, <1>3

LEMMA EmptyListing == IsListing(<<>>, Keys) /\ Len(<<>>) = 0
<1>1. <<>> \in Seq(Keys) /\ Len(<<>>) = 0 /\ DOMAIN <<>> = {}
  BY EmptySeq
<1>2. QED
  BY <1>1 DEF IsListing, IsInjective

LEMMA SamePermutes ==
  ASSUME NEW s, IsListing(s, Keys)
  PROVE  Permutes(s, s)
BY DEF Permutes

LEMMA InitInv == Init => IInv
<1>1. SUFFICES ASSUME Init
               PROVE  IInv
  OBVIOUS
<1>2. DOMAIN Nothing = {}
  BY DEF Nothing
<1>3. SearchesOK
  BY <1>1, <1>2 DEF Init, SearchesOK
<1>4. CandidatesOK
  <2>1. request.topK \in Nat
    BY <1>1, RequestType DEF Init
  <2>2. QED
    BY <1>1, <2>1, EmptyListing DEF Init, CandidatesOK
<1>5. OutcomeOK
  BY <1>1, EmptyListing DEF Init, OutcomeOK, Providers, IsListing
<1>6. QED
  BY <1>1, <1>3, <1>4, <1>5 DEF Init, IInv

\* A stage answers.
LEMMA AnswerInv ==
  ASSUME IInv, NEW stage \in Stages, NEW whole, IsListing(whole, Keys),
         stage = "vector" => ToSet(whole) = Keys, Answer(stage, whole)
  PROVE  IInv'
<1> DEFINE found == Search(whole, Allow(request), PerStageK(request))
<1>1. /\ phase = "searching" /\ stage \notin DOMAIN hits
      /\ ranking' = Extended(ranking, stage, whole) /\ hits' = Extended(hits, stage, found)
      /\ UNCHANGED <<phase, request, candidates, ranked, provider, repeated>>
  BY DEF Answer
<1>2. DOMAIN hits = DOMAIN ranking
  BY DEF IInv, SearchesOK
<1> HIDE DEF found
<1>3. /\ DOMAIN hits' = DOMAIN hits \cup {stage}
      /\ hits'[stage] = found /\ \A s \in DOMAIN hits : hits'[s] = hits[s]
  BY <1>1 DEF Extended
<1>4. /\ DOMAIN ranking' = DOMAIN ranking \cup {stage}
      /\ ranking'[stage] = whole /\ \A s \in DOMAIN ranking : ranking'[s] = ranking[s]
  BY <1>1, <1>2 DEF Extended
<1>5. SearchesOK'
  <2>1. DOMAIN hits' = DOMAIN ranking' /\ DOMAIN hits' \subseteq Stages
    BY <1>2, <1>3, <1>4 DEF IInv, SearchesOK
  <2>2. ASSUME NEW s \in DOMAIN hits'
        PROVE  /\ IsListing(ranking'[s], Keys)
               /\ hits'[s] = Search(ranking'[s], Allow(request'), PerStageK(request'))
    <3>1. CASE s = stage
      BY <1>1, <1>3, <1>4, <3>1 DEF found
    <3>2. CASE s \in DOMAIN hits
      BY <1>1, <1>2, <1>3, <1>4, <3>2 DEF IInv, SearchesOK
    <3>3. QED
      BY <1>3, <2>2, <3>1, <3>2
  <2>3. "vector" \in DOMAIN hits' => ToSet(ranking'["vector"]) = Keys
    BY <1>2, <1>3, <1>4 DEF IInv, SearchesOK
  <2>4. QED
    BY <2>1, <2>2, <2>3 DEF SearchesOK
<1>6. CandidatesOK' /\ OutcomeOK'
  BY <1>1 DEF IInv, CandidatesOK, OutcomeOK
<1>7. QED
  BY <1>1, <1>5, <1>6 DEF IInv

\* A reranker loses none of the candidates and, unless it is Cohere's, repeats none.
LEMMA RerankedInv ==
  ASSUME IInv, NEW by \in Providers, NEW s \in Seq(Keys), NEW again \in BOOLEAN,
         ToSet(s) = ToSet(candidates),
         Permutes(s, candidates) \/ (by = "cohere" /\ again),
         by = "authority" => InAuthorityOrder(s, candidates), Reranked(by, s, again)
  PROVE  IInv'
<1>1. /\ phase' = "done" /\ ranked' = s /\ provider' = by /\ repeated' = again
      /\ UNCHANGED <<request, ranking, hits, candidates>>
  BY DEF Reranked
<1>2. SearchesOK'
  BY <1>1 DEF IInv, SearchesOK
<1>3. CandidatesOK'
  BY <1>1 DEF IInv, CandidatesOK
<1>4. OutcomeOK'
  BY <1>1 DEF OutcomeOK
<1>5. QED
  BY <1>1, <1>2, <1>3, <1>4 DEF IInv

LEMMA StepInv == IInv /\ [Next]_vars => IInv'
<1>1. SUFFICES ASSUME IInv, [Next]_vars
               PROVE  IInv'
  OBVIOUS
<1>2. IsListing(candidates, Keys) /\ request \in Requests
  BY <1>1 DEF IInv, CandidatesOK
<1>3. DOMAIN Nothing = {}
  BY DEF Nothing
<1>4. CASE Embed
  <2>1. /\ phase = "asked" /\ phase' = "searching"
        /\ UNCHANGED <<request, ranking, hits, candidates, ranked, provider, repeated>>
    BY <1>4 DEF Embed
  <2>2. SearchesOK' /\ CandidatesOK' /\ OutcomeOK'
    BY <1>1, <2>1 DEF IInv, SearchesOK, CandidatesOK, OutcomeOK
  <2>3. QED
    BY <1>2, <2>1, <2>2 DEF IInv
<1>5. CASE VectorSearch
  <2>1. PICK whole \in Rankings : Answer("vector", whole)
    BY <1>5 DEF VectorSearch
  <2>2. QED
    BY <1>1, <2>1, AnswerInv, RankingsAreLists DEF Stages
<1>6. CASE TextSearch
  <2>1. PICK whole \in TextRankings : Answer("bm25", whole)
    BY <1>6 DEF TextSearch
  <2>2. QED
    BY <1>1, <2>1, AnswerInv, RankingsAreLists DEF Stages
<1>7. CASE Fuse
  <2>1. /\ phase = "searching" /\ DOMAIN hits = Stages /\ phase' = "fused"
        /\ candidates' = Cut(request, Restricted(FuseByRrf(hits), Guarded(request)))
        /\ UNCHANGED <<request, ranking, hits, ranked, provider, repeated>>
    BY <1>7 DEF Fuse
  <2>2. Lists(hits)
    BY <1>1, <2>1, HitsAreLists DEF IInv
  <2>3. SearchesOK'
    BY <1>1, <2>1 DEF IInv, SearchesOK
  <2>4. CandidatesOK'
    <3>1. IsListing(candidates', Keys) /\ Len(candidates') <= request.topK
      BY <1>2, <2>1, <2>2, FuseType
    <3>2. QED
      BY <2>1, <3>1 DEF CandidatesOK
  <2>5. OutcomeOK'
    BY <1>1, <2>1 DEF IInv, OutcomeOK
  <2>6. QED
    BY <1>2, <2>1, <2>3, <2>4, <2>5 DEF IInv
<1>8. CASE Return
  <2>1. /\ phase = "fused" /\ phase' = IF request.caller = "agent" THEN "reranking" ELSE "done"
        /\ ranking' = Nothing /\ hits' = Nothing
        /\ ranked' = IF request.caller = "agent" THEN <<>> ELSE candidates
        /\ UNCHANGED <<request, candidates, provider, repeated>>
    BY <1>8 DEF Return
  <2>2. SearchesOK'
    BY <1>3, <2>1 DEF SearchesOK
  <2>3. CandidatesOK'
    BY <1>1, <2>1 DEF IInv, CandidatesOK
  <2>4. OutcomeOK'
    <3>1. provider = "off" /\ provider' = "off" /\ ~repeated' /\ repeated' \in BOOLEAN
      BY <1>1, <2>1 DEF IInv, OutcomeOK
    <3>2. ranked' \in Seq(Keys)
      BY <1>2, <2>1, EmptyListing DEF IsListing
    <3>3. phase' = "done" => Permutes(ranked', candidates') /\ ToSet(ranked') = ToSet(candidates')
      BY <1>2, <2>1, SamePermutes
    <3>4. QED
      BY <3>1, <3>2, <3>3 DEF OutcomeOK, Providers
  <2>5. QED
    BY <1>2, <2>1, <2>2, <2>3, <2>4 DEF IInv
<1>9. CASE RerankOff
  <2>1. Reranked("off", candidates, FALSE)
    BY <1>9 DEF RerankOff
  <2>2. QED
    BY <1>1, <1>2, <2>1, SamePermutes, RerankedInv DEF Providers, Permutes, IsListing
<1>10. CASE RerankByAuthority
  <2>1. Reranked("authority", ByAuthority(candidates), FALSE)
    BY <1>10 DEF RerankByAuthority
  <2>2. QED
    BY <1>1, <1>2, <2>1, ByAuthorityPermutes, RerankedInv DEF Providers, Permutes, IsListing
<1>11. CASE RerankByModel
  <2>1. PICK reply \in Replies(candidates) :
          Reranked("llm", Completed(candidates, Picked(candidates, reply)), FALSE)
    BY <1>11 DEF RerankByModel
  <2>2. Permutes(Completed(candidates, Picked(candidates, reply)), candidates)
    BY <1>2, PickedIsListing, CompletedPermutes DEF IsListing
  <2>3. QED
    BY <1>1, <2>1, <2>2, RerankedInv DEF Providers, Permutes, IsListing
<1>12. CASE RerankByCohere
  <2>1. PICK results \in Results(candidates) : \E order \in SortedRows(candidates, results) :
          Reranked("cohere", Completed(candidates, ByRelevance(candidates, results, order)),
                   Repeats(candidates, results))
    BY <1>12 DEF RerankByCohere
  <2>2. PICK order \in SortedRows(candidates, results) :
          Reranked("cohere", Completed(candidates, ByRelevance(candidates, results, order)),
                   Repeats(candidates, results))
    BY <2>1
  <2> DEFINE left == Completed(candidates, ByRelevance(candidates, results, order))
             again == Repeats(candidates, results)
  <2>3. again \in BOOLEAN
    BY DEF Repeats
  <2>4. /\ left \in Seq(Keys) /\ ToSet(left) = ToSet(candidates)
        /\ Permutes(left, candidates) \/ again
    BY <1>2, ByRelevanceIsOfCandidates, CompletedPermutes
  <2>5. Reranked("cohere", left, again)
    BY <2>2
  <2> HIDE DEF left, again
  <2>6. QED
    BY <1>1, <2>3, <2>4, <2>5, RerankedInv DEF Providers
<1>13. CASE Fail
  <2>1. /\ phase \in {"asked", "searching", "reranking"} /\ phase' = "failed"
        /\ ranking' = Nothing /\ hits' = Nothing /\ candidates' = <<>>
        /\ UNCHANGED <<request, ranked, provider, repeated>>
    BY <1>13 DEF Fail
  <2>2. SearchesOK'
    BY <1>3, <2>1 DEF SearchesOK
  <2>3. CandidatesOK'
    <3>1. request.topK \in Nat
      BY <1>2, RequestType
    <3>2. QED
      BY <2>1, <3>1, EmptyListing DEF CandidatesOK
  <2>4. OutcomeOK'
    BY <1>1, <2>1 DEF IInv, OutcomeOK
  <2>5. QED
    BY <1>2, <2>1, <2>2, <2>3, <2>4 DEF IInv
<1>14. CASE UNCHANGED vars
  BY <1>1, <1>14 DEF vars, IInv, SearchesOK, CandidatesOK, OutcomeOK
<1>15. QED
  BY <1>1, <1>4, <1>5, <1>6, <1>7, <1>8, <1>9, <1>10, <1>11, <1>12, <1>13, <1>14 DEF Next

THEOREM Invariance == Spec => []IInv
<1>1. QED
  BY InitInv, StepInv, PTL DEF Spec

-----------------------------------------------------------------------------
(* What the invariant says of the candidates.                              *)

\* Every variable has its type: no list a search, fusion or the guard returns
\* has a key twice, and none is longer than was asked for.
THEOREM TypeCorrect == Spec => []TypeOK
<1>1. IInv => TypeOK
  <2>1. SUFFICES ASSUME IInv
                 PROVE  TypeOK
    OBVIOUS
  <2>2. PerStageK(request) \in Nat
    BY <2>1, RequestType DEF IInv
  <2>3. ASSUME NEW s \in DOMAIN hits
        PROVE  ListOf(hits[s]) /\ ListOf(ranking[s]) /\ Len(hits[s]) <= PerStageK(request)
    <3>1. IsListing(ranking[s], Keys) /\ hits[s] = Search(ranking[s], Allow(request), PerStageK(request))
      BY <2>1 DEF IInv, SearchesOK
    <3>2. IsListing(hits[s], Keys) /\ Len(hits[s]) <= PerStageK(request)
      BY <2>2, <3>1, SearchFacts
    <3>3. QED
      BY <3>1, <3>2 DEF ListOf, IsListing
  <2>4. QED
    BY <2>1, <2>3 DEF IInv, SearchesOK, CandidatesOK, OutcomeOK, TypeOK, ListOf, IsListing
<1>2. QED
  BY <1>1, Invariance, PTL

\* What is in the candidates: all that passed the guard, or as many as asked
\* for from the front of it.
LEMMA CandidatesFacts ==
  ASSUME IInv, phase = "fused"
  PROVE  /\ Lists(hits)
         /\ IsListing(FuseByRrf(hits), Keys)
         /\ LET g == Restricted(FuseByRrf(hits), Guarded(request))
            IN /\ IsListing(g, Keys) /\ ToSet(g) = ToSet(FuseByRrf(hits)) \cap Guarded(request)
               /\ candidates = FirstOf(g, request.topK) /\ request.topK \in Nat
<1> DEFINE f == FuseByRrf(hits)
           g == Restricted(f, Guarded(request))
<1>1. Lists(hits)
  BY HitsAreLists DEF IInv, CandidatesOK
<1>2. IsListing(f, Keys) /\ ToSet(f) \subseteq Keys
  BY <1>1, Fused, RankOfListing
<1>3. candidates = FirstOf(g, request.topK)
  BY DEF IInv, CandidatesOK, Cut
<1> HIDE DEF f
<1>4. IsListing(g, ToSet(f)) /\ ToSet(g) = ToSet(f) \cap Guarded(request)
  BY <1>2, Narrowed
<1> HIDE DEF g
<1>5. IsListing(g, Keys)
  BY <1>2, <1>4, SeqMonotonic DEF IsListing
<1>6. request.topK \in Nat
  BY RequestType DEF IInv
<1>7. QED
  BY <1>1, <1>2, <1>3, <1>4, <1>5, <1>6 DEF f, g

\* Fusion, the guard and the windows never turn around what both stages agree
\* on: the terms of an eligible chunk that both rank above another are never
\* below the other's and one of them is above, so its score is higher.
THEOREM FusionIsMonotone == Spec => []FusionRespectsBothRankings
<1>1. IInv => FusionRespectsBothRankings
  <2>1. SUFFICES ASSUME IInv, phase = "fused", NEW a \in Eligible, NEW b \in Eligible,
                        Dominates(a, b), b \in ToSet(candidates)
                 PROVE  a \in ToSet(candidates) /\ RankIn(candidates, a) < RankIn(candidates, b)
    BY DEF FusionRespectsBothRankings
  <2> DEFINE f == FuseByRrf(hits)
             g == Restricted(f, Guarded(request))
  <2>2. /\ Lists(hits) /\ IsListing(f, Keys) /\ IsListing(g, Keys)
        /\ ToSet(g) = ToSet(f) \cap Guarded(request)
        /\ candidates = FirstOf(g, request.topK) /\ request.topK \in Nat
    BY <2>1, CandidatesFacts
  <2>3. a \in Within(Allow(request)) /\ b \in Within(Allow(request))
        /\ a \in Guarded(request) /\ b \in Guarded(request)
    BY <2>1 DEF Eligible
  <2>4. ASSUME NEW s \in Stages
        PROVE  Before(hits[s], a, b)
    <3>1. Before(ranking[s], a, b)
      BY <2>1 DEF Dominates, Before, Stages
    <3>2. IsListing(ranking[s], Keys) /\ hits[s] = Search(ranking[s], Allow(request), PerStageK(request))
      BY <2>1 DEF IInv, CandidatesOK, SearchesOK
    <3>3. PerStageK(request) \in Nat
      BY <2>1, RequestType DEF IInv
    <3>4. QED
      BY <2>3, <3>1, <3>2, <3>3, SearchFacts
  <2>5. IsListing(candidates, Keys)
    BY <2>1 DEF IInv, CandidatesOK
  <2> HIDE DEF g
  <2>6. b \in ToSet(g)
    <3>1. RankIn(candidates, b) # 0
      BY <2>1, <2>5, RankOfListing
    <3>2. RankIn(g, b) # 0
      BY <2>2, <3>1, Beginning
    <3>3. QED
      BY <2>2, <3>2, RankOfListing
  <2>7. b \in ToSet(hits["vector"]) \cup ToSet(hits["bm25"])
    BY <2>2, <2>6, Fused
  <2>8. Above(Score(hits, a), Score(hits, b))
    BY <2>2, <2>4, <2>7, ScoreOrder DEF Stages
  <2>9. a \in ToSet(hits["vector"]) \cup ToSet(hits["bm25"])
    <3>1. /\ a \in ToSet(hits["vector"]) <=> RankIn(hits["vector"], a) # 0
          /\ b \in ToSet(hits["vector"]) <=> RankIn(hits["vector"], b) # 0
          /\ a \in ToSet(hits["bm25"]) <=> RankIn(hits["bm25"], a) # 0
          /\ b \in ToSet(hits["bm25"]) <=> RankIn(hits["bm25"], b) # 0
      BY <2>2, RankOfListing DEF Lists
    <3>2. QED
      BY <2>4, <2>7, <3>1 DEF Before, Stages
  <2>10. Before(f, a, b)
    <3>1. ToSet(f) = ToSet(hits["vector"]) \cup ToSet(hits["bm25"])
      BY <2>2, Fused
    <3>2. RankIn(f, a) < RankIn(f, b)
      BY <2>2, <2>7, <2>8, <2>9, <3>1, Fused
    <3>3. RankIn(f, a) # 0
      BY <2>2, <2>9, <3>1, RankOfListing
    <3>4. QED
      BY <3>2, <3>3 DEF Before
  <2> HIDE DEF f
  <2>11. Before(candidates, a, b)
    BY <2>2, <2>3, <2>10, NarrowedKeepsBefore, BeginningKeepsBefore DEF g
  <2>12. RankIn(candidates, b) # 0
    BY <2>1, <2>5, RankOfListing
  <2>13. QED
    BY <2>5, <2>11, <2>12, RankOfListing DEF Before
<1>2. QED
  BY <1>1, Invariance, PTL

\* A filter is honoured whatever the allow-list resolves to, and nothing that
\* it leaves out takes a place: unless the vector search was cut, it returned
\* all that is eligible; and when it was, what it returned passes the guard
\* and fills the candidates.
THEOREM FilterIsKept == Spec => []FilterIsHonoured
<1>1. IInv => FilterIsHonoured
  <2>1. SUFFICES ASSUME IInv, phase = "fused"
                 PROVE  FilterIsHonoured
    BY DEF FilterIsHonoured
  <2> DEFINE f == FuseByRrf(hits)
             g == Restricted(f, Guarded(request))
             allow == Allow(request)
             k == request.topK
             v == hits["vector"]
             length == Len(g)
  <2>2. /\ Lists(hits) /\ IsListing(f, Keys) /\ IsListing(g, Keys)
        /\ ToSet(g) = ToSet(f) \cap Guarded(request)
        /\ candidates = FirstOf(g, k) /\ k \in Nat
    BY <2>1, CandidatesFacts
  <2>3. /\ Len(candidates) = IF k < length THEN k ELSE length
        /\ \A x : RankIn(candidates, x) = IF RankIn(g, x) <= k THEN RankIn(g, x) ELSE 0
        /\ length \in Nat
    <3> HIDE DEF g, k
    <3>1. QED
      BY <2>2, Beginning, RankOfListing
  <2>4. ToSet(f) = ToSet(v) \cup ToSet(hits["bm25"])
    BY <2>2, Fused
  <2>5. IsListing(candidates, Keys)
    BY <2>1 DEF IInv, CandidatesOK
  <2>6. ASSUME NEW x \in ToSet(candidates)
        PROVE  x \in Guarded(request)
    <3>1. RankIn(candidates, x) # 0
      BY <2>5, RankOfListing
    <3>2. RankIn(g, x) # 0
      BY <2>3, <3>1
    <3>3. x \in ToSet(g)
      BY <2>2, <3>2, RankOfListing
    <3>4. QED
      BY <2>2, <3>3
  <2>7. request.filtered => \A x \in ToSet(candidates) : LevelOf[DocOf[x]] \in request.levels
    BY <2>6 DEF Guarded, Guard
  <2>8. ASSUME ~request.filtered \/ {d \in request.known : LevelOf[d] \in request.levels} # {}
        PROVE  Len(candidates) = k \/ Eligible \subseteq ToSet(candidates)
    <3>1. SUFFICES ASSUME length < k
                   PROVE  Eligible \subseteq ToSet(candidates)
      BY <2>2, <2>3
    <3>2. Within(allow) \subseteq Guarded(request)
      <4>1. request.filtered \in BOOLEAN
        BY <2>1, RequestType DEF IInv
      <4>2. CASE ~request.filtered
        BY <4>2 DEF Within, Guarded, Guard
      <4>3. CASE request.filtered
        <5>1. allow = {d \in request.known : LevelOf[d] \in request.levels} /\ allow # {}
          BY <2>8, <4>3 DEF Allow
        <5>2. QED
          BY <4>3, <5>1 DEF Within, Guarded, Guard
      <4>4. QED
        BY <4>1, <4>2, <4>3
    <3>3. /\ IsListing(v, Keys) /\ ToSet(v) \subseteq Within(allow)
          /\ Len(v) = PerStageK(request) \/ ToSet(v) = Within(allow)
      <4>1. /\ IsListing(ranking["vector"], Keys) /\ ToSet(ranking["vector"]) = Keys
            /\ v = Search(ranking["vector"], allow, PerStageK(request))
        BY <2>1 DEF IInv, CandidatesOK, SearchesOK, Stages
      <4>2. PerStageK(request) \in Nat
        BY <2>1, RequestType DEF IInv
      <4>3. Keys \cap Within(allow) = Within(allow)
        BY DEF Within
      <4> HIDE DEF v
      <4>4. QED
        BY <4>1, <4>2, <4>3, SearchFacts
    <3>4. ToSet(v) \subseteq ToSet(g)
      BY <2>2, <2>4, <3>2, <3>3
    <3>5. Len(v) \in Nat /\ Len(v) <= length
      <4> HIDE DEF g, v
      <4>1. /\ IsFiniteSet(ToSet(g)) /\ Cardinality(ToSet(g)) = Len(g)
            /\ Cardinality(ToSet(v)) = Len(v) /\ Len(v) \in Nat
        BY <2>2, <3>3, LengthOfListing, RankOfListing
      <4>2. Cardinality(ToSet(v)) <= Cardinality(ToSet(g))
        BY <3>4, <4>1, FS_Subset
      <4>3. QED
        BY <4>1, <4>2
    <3>6. ToSet(v) = Within(allow)
      <4>1. PerStageK(request) \in Nat /\ k <= PerStageK(request)
        BY <2>1, RequestType DEF IInv
      <4> HIDE DEF g, v, k, length
      <4>2. Len(v) # PerStageK(request)
        BY <2>2, <2>3, <3>1, <3>5, <4>1
      <4>3. QED
        BY <3>3, <4>2
    <3>7. ASSUME NEW x \in Eligible
          PROVE  x \in ToSet(candidates)
      <4>1. x \in ToSet(g)
        BY <3>4, <3>6 DEF Eligible
      <4> HIDE DEF g, length, k
      <4>2. RankIn(g, x) # 0 /\ RankIn(g, x) \in 0..length
        BY <2>2, <4>1, RankOfListing DEF length
      <4>3. RankIn(g, x) <= k
        BY <2>2, <2>3, <3>1, <4>2
      <4>4. RankIn(candidates, x) # 0
        BY <2>3, <4>2, <4>3
      <4>5. QED
        BY <2>5, <4>4, RankOfListing
    <3>8. QED
      BY <3>7
  <2>9. QED
    BY <2>7, <2>8 DEF FilterIsHonoured
<1>2. QED
  BY <1>1, Invariance, PTL

\* No reranker loses a candidate, whatever it replies; none repeats one, unless
\* Cohere's reply names an index twice; and the authority's keeps the order of
\* the scores within a level.
THEOREM RerankersPermute == Spec => []RerankLosesNothing
<1>1. IInv => RerankLosesNothing
  BY DEF IInv, OutcomeOK, Permutes, InAuthorityOrder, RerankLosesNothing
<1>2. QED
  BY <1>1, Invariance, PTL

-----------------------------------------------------------------------------

\* What the fusion cuts off scored no better than what it keeps: of all that
\* either stage returned and the guard lets through, the candidates are the
\* best, the better one first.  The cut comes after the guard, so that nothing
\* filtered out takes a place (hybrid-retrieve.ts).
KeepsTheBest ==
  phase = "fused" =>
    LET found == ToSet(hits["vector"]) \cup ToSet(hits["bm25"]) IN
    \A a, b \in found \cap Guarded(request) :
      Above(Score(hits, a), Score(hits, b)) /\ b \in ToSet(candidates) =>
        a \in ToSet(candidates) /\ RankIn(candidates, a) < RankIn(candidates, b)

\* The cut drops no candidate for one that scored worse.
THEOREM FusionKeepsTheBest == Spec => []KeepsTheBest
<1>1. IInv => KeepsTheBest
  <2> DEFINE found == ToSet(hits["vector"]) \cup ToSet(hits["bm25"])
             f == FuseByRrf(hits)
             g == Restricted(f, Guarded(request))
  <2>1. SUFFICES ASSUME IInv, phase = "fused", NEW a \in found \cap Guarded(request),
                        NEW b \in found \cap Guarded(request),
                        Above(Score(hits, a), Score(hits, b)), b \in ToSet(candidates)
                 PROVE  a \in ToSet(candidates) /\ RankIn(candidates, a) < RankIn(candidates, b)
    BY DEF KeepsTheBest
  <2>2. /\ Lists(hits) /\ IsListing(f, Keys) /\ IsListing(g, Keys)
        /\ candidates = FirstOf(g, request.topK) /\ request.topK \in Nat
    BY <2>1, CandidatesFacts
  <2>3. IsListing(candidates, Keys)
    BY <2>1 DEF IInv, CandidatesOK
  <2>4. ToSet(f) = found
    BY <2>2, Fused
  <2>5. RankIn(f, a) < RankIn(f, b) /\ RankIn(f, a) # 0
    BY <2>1, <2>2, <2>4, Fused, RankOfListing
  <2>6. Before(f, a, b)
    BY <2>5 DEF Before
  <2> HIDE DEF f, found
  <2>7. Before(candidates, a, b)
    BY <2>1, <2>2, <2>6, NarrowedKeepsBefore, BeginningKeepsBefore DEF g
  <2>8. RankIn(candidates, b) # 0
    BY <2>1, <2>3, RankOfListing
  <2>9. QED
    BY <2>3, <2>7, <2>8, RankOfListing DEF Before
<1>2. QED
  BY <1>1, Invariance, PTL
=============================================================================
