----------------------------- MODULE Kernels_proofs -----------------------------
(***************************************************************************)
(* Proofs about the pure algorithms of Kernels: what a filter leaves of a  *)
(* list, what a merge makes of a composition and of a baseline. And about  *)
(* the parts of Parts that rest on such a filter: SourceOps, and the lines *)
(* that ProjectInit keeps in AGENTS.md.                                    *)
(***************************************************************************)
EXTENDS Kernels, Filters, FiniteSetTheorems, WellFoundedInduction, TLAPS

-----------------------------------------------------------------------------
(***************************************************************************)
(* Filters.                                                                *)
(***************************************************************************)
\* Two lists, one after the other.
LEMMA Concatenated ==
    ASSUME NEW Item, NEW s \in Seq(Item), NEW t \in Seq(Item)
    PROVE  /\ s \o t \in Seq(Item) /\ Len(s \o t) = Len(s) + Len(t)
           /\ Len(s) \in Nat /\ DOMAIN s = 1 .. Len(s) /\ Len(t) \in Nat /\ DOMAIN t = 1 .. Len(t)
           /\ DOMAIN (s \o t) = 1 .. Len(s) + Len(t)
           /\ \A j \in 1 .. Len(s) : (s \o t)[j] = s[j]
           /\ \A j \in 1 .. Len(t) : (s \o t)[Len(s) + j] = t[j]
<1>1. s \o t \in Seq(Item)
  OBVIOUS
<1>2. Len(s \o t) = Len(s) + Len(t)
  OBVIOUS
<1>3. Len(s) \in Nat /\ DOMAIN s = 1 .. Len(s)
  OBVIOUS
<1>4. Len(t) \in Nat /\ DOMAIN t = 1 .. Len(t)
  OBVIOUS
<1>5. \A j \in 1 .. Len(s) : (s \o t)[j] = s[j]
  OBVIOUS
<1>6. ASSUME NEW j \in 1 .. Len(t) PROVE (s \o t)[Len(s) + j] = t[j]
  <2>1. Len(s) + j \in 1 .. Len(s) + Len(t) /\ ~ (Len(s) + j <= Len(s)) /\ (Len(s) + j) - Len(s) = j
    BY <1>3, <1>4
  <2> QED BY <2>1
<1>7. DOMAIN (s \o t) = 1 .. Len(s) + Len(t)
  BY <1>1, <1>2
<1> QED BY <1>1, <1>2, <1>3, <1>4, <1>5, <1>6, <1>7

\* A set of numbers has a least one.
LEMMA LeastNatural ==
    ASSUME NEW Picked \in SUBSET Nat, Picked # {}
    PROVE  \E m \in Picked : \A k \in Picked : m <= k
<1>1. PICK m \in Picked : \A k \in Picked : <<k, m>> \notin OpToRel(<, Nat)
  BY WFMin, NatLessThanWellFounded
<1>2. \A i, k \in Nat : i < k => <<i, k>> \in OpToRel(<, Nat)
  BY DEF OpToRel
<1>3. \A k \in Picked : k \in Nat
  OBVIOUS
<1>4. \A k \in Picked : ~ (k < m)
  BY <1>1, <1>2, <1>3
<1> QED BY <1>3, <1>4

\* The ranks of a finite set of numbers run through 1 .. n.
LEMMA RankOrder ==
    ASSUME NEW Picked \in SUBSET Nat, IsFiniteSet(Picked)
    PROVE  /\ \A i \in Picked : Rank(Picked, i) \in 1 .. Cardinality(Picked)
           /\ \A i, j \in Picked : i < j => Rank(Picked, i) < Rank(Picked, j)
<1> DEFINE Upto(i) == {j \in Picked : j <= i}
<1>1. \A i \in Picked : /\ IsFiniteSet(Upto(i)) /\ Cardinality(Upto(i)) \in Nat
                        /\ Cardinality(Upto(i)) <= Cardinality(Picked)
  BY FS_Subset, FS_CardinalityType
<1>2. ASSUME NEW i \in Picked PROVE Cardinality(Upto(i)) # 0
  BY <1>1, FS_EmptySet
<1>3. ASSUME NEW i \in Picked, NEW j \in Picked, i < j PROVE Cardinality(Upto(i)) < Cardinality(Upto(j))
  <2>1. Upto(i) \subseteq Upto(j) /\ j \in Upto(j) /\ j \notin Upto(i)
    <3>1. i \in Nat /\ j \in Nat /\ \A a \in Picked : a \in Nat
      OBVIOUS
    <3>2. \A a \in Picked : a <= i => a <= j
      BY <1>3, <3>1
    <3>3. j <= j /\ ~ (j <= i)
      BY <1>3, <3>1
    <3> QED BY <3>2, <3>3
  <2>2. /\ Cardinality(Upto(i)) <= Cardinality(Upto(j))
        /\ Cardinality(Upto(i)) = Cardinality(Upto(j)) => Upto(i) = Upto(j)
    BY <1>1, <2>1, FS_Subset
  <2> QED BY <1>1, <2>1, <2>2
<1>4. Cardinality(Picked) \in Nat
  BY FS_CardinalityType
<1> QED BY <1>1, <1>2, <1>3, <1>4 DEF Rank

LEMMA NthIsThere ==
    ASSUME NEW Picked \in SUBSET Nat, IsFiniteSet(Picked)
    PROVE  /\ \A k \in 1 .. Cardinality(Picked) : Nth(Picked, k) \in Picked /\ Rank(Picked, Nth(Picked, k)) = k
           /\ \A i \in Picked : Nth(Picked, Rank(Picked, i)) = i
<1> DEFINE n == Cardinality(Picked)
           f == [i \in Picked |-> Rank(Picked, i)]
<1>1. n \in Nat
  BY FS_CardinalityType
<1>2. f \in Injection(Picked, 1 .. n)
  BY RankOrder DEF Injection, IsInjective
<1>3. IsFiniteSet(1 .. n) /\ Cardinality(1 .. n) = n
  BY <1>1, FS_Interval
<1>4. f \in Surjection(Picked, 1 .. n)
  BY <1>2, <1>3, FS_Injection
<1>5. \A k \in 1 .. n : \E i \in Picked : Rank(Picked, i) = k
  BY <1>4 DEF Surjection
<1>6. \A i, j \in Picked : Rank(Picked, i) = Rank(Picked, j) => i = j
  BY RankOrder, <1>1
<1> QED BY <1>5, <1>6, RankOrder DEF Nth

\* The k-th number of a set is what any list of its numbers in order has in place k.
LEMMA NthOfList ==
    ASSUME NEW Picked \in SUBSET Nat, IsFiniteSet(Picked), NEW n \in Nat, NEW f \in [1 .. n -> Picked],
           \A j, k \in 1 .. n : j < k => f[j] < f[k],
           \A i \in Picked : \E k \in 1 .. n : f[k] = i
    PROVE  /\ Cardinality(Picked) = n
           /\ \A k \in 1 .. n : Nth(Picked, k) = f[k]
<1>1. \A j, k \in 1 .. n : f[j] \in Nat /\ f[k] \in Nat /\ (f[j] <= f[k] <=> j <= k)
  <2> TAKE j, k \in 1 .. n
  <2>1. f[j] \in Picked /\ f[k] \in Picked
    OBVIOUS
  <2>2. f[j] \in Nat /\ f[k] \in Nat
    BY <2>1
  <2>3. (j < k => f[j] < f[k]) /\ (k < j => f[k] < f[j])
    OBVIOUS
  <2>4. j = k => f[j] = f[k]
    OBVIOUS
  <2> QED BY <2>2, <2>3, <2>4
<1>2. ASSUME NEW k \in 0 .. n
      PROVE  Cardinality({f[j] : j \in 1 .. k}) = k
  <2> DEFINE g == [j \in 1 .. k |-> f[j]]
             R == {f[j] : j \in 1 .. k}
  <2>1. g \in Bijection(1 .. k, R)
    <3>1. g \in [1 .. k -> R]
      OBVIOUS
    <3>2. \A i, j \in 1 .. k : g[i] = g[j] => i = j
      BY <1>1
    <3>3. \A r \in R : \E j \in 1 .. k : g[j] = r
      OBVIOUS
    <3> QED BY <3>1, <3>2, <3>3 DEF Bijection, Injection, Surjection, IsInjective
  <2>2. IsFiniteSet(1 .. k) /\ Cardinality(1 .. k) = k
    <3>1. 1 \in Int /\ k \in Int
      OBVIOUS
    <3> QED BY <3>1, FS_Interval
  <2>3. ExistsBijection(1 .. k, R)
    BY <2>1 DEF ExistsBijection
  <2> HIDE DEF R
  <2>4. Cardinality(R) = Cardinality(1 .. k)
    BY <2>2, <2>3, FS_Bijection
  <2> QED BY <2>2, <2>4 DEF R
<1>3. Cardinality(Picked) = n
  <2>1. Picked = {f[j] : j \in 1 .. n}
    OBVIOUS
  <2>2. n \in 0 .. n
    OBVIOUS
  <2> QED BY <1>2, <2>1, <2>2
<1>4. ASSUME NEW k \in 1 .. n PROVE Rank(Picked, f[k]) = k
  <2>1. {j \in Picked : j <= f[k]} = {f[j] : j \in 1 .. k}
    <3>1. \A j \in Picked : j <= f[k] => j \in {f[i] : i \in 1 .. k}
      <4> TAKE j \in Picked
      <4>1. PICK i \in 1 .. n : f[i] = j
        OBVIOUS
      <4>2. j <= f[k] => i <= k
        BY <1>1, <4>1
      <4> QED BY <4>1, <4>2
    <3>2. \A i \in 1 .. k : f[i] \in Picked /\ f[i] <= f[k]
      BY <1>1
    <3> QED BY <3>1, <3>2
  <2>2. k \in 0 .. n
    OBVIOUS
  <2> QED BY <1>2, <2>1, <2>2 DEF Rank
<1>5. ASSUME NEW k \in 1 .. n PROVE Nth(Picked, k) = f[k]
  <2>1. f[k] \in Picked
    OBVIOUS
  <2>2. Nth(Picked, Rank(Picked, f[k])) = f[k]
    BY <2>1, NthIsThere
  <2> QED BY <1>4, <2>2
<1> QED BY <1>3, <1>5

\* What a selection holds.
LEMMA SelectHolds ==
    ASSUME NEW list, NEW Picked \in SUBSET (1 .. Len(list)), Len(list) \in Nat, NEW Item, list \in Seq(Item)
    PROVE  /\ Select(list, Picked) \in Seq(Item) /\ Len(Select(list, Picked)) = Cardinality(Picked)
           /\ \A k \in 1 .. Cardinality(Picked) : \E i \in Picked : Select(list, Picked)[k] = list[i]
           /\ \A i \in Picked : \E k \in 1 .. Cardinality(Picked) : Select(list, Picked)[k] = list[i]
<1>1. Picked \in SUBSET Nat /\ IsFiniteSet(Picked)
  <2>1. IsFiniteSet(1 .. Len(list))
    <3>1. 1 \in Int /\ Len(list) \in Int
      OBVIOUS
    <3> QED BY <3>1, FS_Interval
  <2>2. Picked \in SUBSET (1 .. Len(list))
    OBVIOUS
  <2>3. IsFiniteSet(Picked)
    BY <2>1, <2>2, FS_Subset
  <2> QED BY <2>2, <2>3
<1>2. Cardinality(Picked) \in Nat
  BY <1>1, FS_CardinalityType
<1>3. \A k \in 1 .. Cardinality(Picked) : Nth(Picked, k) \in Picked
  BY <1>1, NthIsThere
<1>4. \A i \in Picked : Rank(Picked, i) \in 1 .. Cardinality(Picked) /\ Nth(Picked, Rank(Picked, i)) = i
  BY <1>1, NthIsThere, RankOrder
<1>5. \A i \in Picked : list[i] \in Item
  OBVIOUS
<1> DEFINE n == Cardinality(Picked)
           s == Select(list, Picked)
<1>6. s = [k \in 1 .. n |-> list[Nth(Picked, k)]]
  BY DEF Select
<1>7. s \in Seq(Item) /\ Len(s) = n
  <2>1. \A k \in 1 .. n : list[Nth(Picked, k)] \in Item
    BY <1>3, <1>5
  <2>2. s \in [1 .. n -> Item]
    BY <1>6, <2>1
  <2>3. DOMAIN s = 1 .. n
    BY <1>6
  <2> QED BY <1>2, <2>2, <2>3
<1>8. \A k \in 1 .. n : s[k] = list[Nth(Picked, k)]
  BY <1>6
<1> QED BY <1>3, <1>4, <1>7, <1>8

\* Places of a list are a finite set of numbers, and are counted in order.
LEMMA PlacesAreCounted ==
    ASSUME NEW n \in Nat, NEW Picked \in SUBSET (1 .. n)
    PROVE  /\ Picked \in SUBSET Nat /\ IsFiniteSet(Picked) /\ Cardinality(Picked) \in Nat
           /\ \A k \in 1 .. Cardinality(Picked) : Nth(Picked, k) \in Picked /\ Rank(Picked, Nth(Picked, k)) = k
           /\ \A i \in Picked : Rank(Picked, i) \in 1 .. Cardinality(Picked) /\ Nth(Picked, Rank(Picked, i)) = i
           /\ \A i, j \in Picked : i < j => Rank(Picked, i) < Rank(Picked, j)
           /\ \A j, k \in 1 .. Cardinality(Picked) : j < k => Nth(Picked, j) < Nth(Picked, k)
<1>1. Picked \in SUBSET Nat /\ IsFiniteSet(Picked)
  <2>1. IsFiniteSet(1 .. n)
    <3>1. 1 \in Int /\ n \in Int
      OBVIOUS
    <3> QED BY <3>1, FS_Interval
  <2>2. IsFiniteSet(Picked)
    BY <2>1, FS_Subset
  <2> QED BY <2>2
<1>2. Cardinality(Picked) \in Nat
  BY <1>1, FS_CardinalityType
<1>3. /\ \A k \in 1 .. Cardinality(Picked) : Nth(Picked, k) \in Picked /\ Rank(Picked, Nth(Picked, k)) = k
      /\ \A i \in Picked : Nth(Picked, Rank(Picked, i)) = i
  BY <1>1, NthIsThere
<1>4. /\ \A i \in Picked : Rank(Picked, i) \in 1 .. Cardinality(Picked)
      /\ \A i, j \in Picked : i < j => Rank(Picked, i) < Rank(Picked, j)
  BY <1>1, RankOrder
<1>5. ASSUME NEW j \in 1 .. Cardinality(Picked), NEW k \in 1 .. Cardinality(Picked), j < k
      PROVE  Nth(Picked, j) < Nth(Picked, k)
  <2> DEFINE a == Nth(Picked, j)
             b == Nth(Picked, k)
  <2>1. a \in Picked /\ b \in Picked /\ Rank(Picked, a) = j /\ Rank(Picked, b) = k
    BY <1>3
  <2> HIDE DEF a, b
  <2>2. a \in Nat /\ b \in Nat
    BY <1>1, <2>1
  <2>3. ~ (b < a) /\ b # a
    <3>1. b < a => k < j
      BY <1>4, <2>1
    <3> QED BY <1>2, <1>5, <2>1, <3>1
  <2>4. a < b
    BY <2>2, <2>3
  <2> QED BY <2>4 DEF a, b
<1> QED BY <1>1, <1>2, <1>3, <1>4, <1>5

\* A filter of what a filter left is a filter of the list.
LEMMA SelectTwice ==
    ASSUME NEW list, Len(list) \in Nat, NEW Picked \in SUBSET (1 .. Len(list)), NEW U \in SUBSET Picked
    PROVE  Select(Select(list, Picked), {k \in 1 .. Cardinality(Picked) : Nth(Picked, k) \in U}) = Select(list, U)
<1> DEFINE s == Cardinality(Picked)
           u == Cardinality(U)
           V == {k \in 1 .. s : Nth(Picked, k) \in U}
           f == [k \in 1 .. u |-> Rank(Picked, Nth(U, k))]
<1>1. /\ Picked \in SUBSET Nat /\ IsFiniteSet(Picked) /\ s \in Nat
      /\ \A k \in 1 .. s : Nth(Picked, k) \in Picked /\ Rank(Picked, Nth(Picked, k)) = k
      /\ \A i \in Picked : Rank(Picked, i) \in 1 .. s /\ Nth(Picked, Rank(Picked, i)) = i
      /\ \A i, j \in Picked : i < j => Rank(Picked, i) < Rank(Picked, j)
  BY PlacesAreCounted
<1>2. /\ u \in Nat
      /\ \A k \in 1 .. u : Nth(U, k) \in U /\ Rank(U, Nth(U, k)) = k
      /\ \A i \in U : Rank(U, i) \in 1 .. u /\ Nth(U, Rank(U, i)) = i
      /\ \A j, k \in 1 .. u : j < k => Nth(U, j) < Nth(U, k)
  <2>1. U \in SUBSET (1 .. Len(list))
    OBVIOUS
  <2> QED BY <2>1, PlacesAreCounted
<1>3. V \in SUBSET Nat /\ IsFiniteSet(V)
  <2>1. V \in SUBSET (1 .. s)
    OBVIOUS
  <2> HIDE DEF V, s
  <2> QED BY <1>1, <2>1, PlacesAreCounted
<1>4. f \in [1 .. u -> V]
  BY <1>1, <1>2
<1>5. \A k \in 1 .. u : f[k] = Rank(Picked, Nth(U, k))
  OBVIOUS
<1>6. \A j, k \in 1 .. u : j < k => f[j] < f[k]
  BY <1>1, <1>2, <1>5
<1>7. \A i \in V : \E k \in 1 .. u : f[k] = i
  <2> TAKE i \in V
  <2>1. i \in 1 .. s /\ Nth(Picked, i) \in U
    OBVIOUS
  <2>2. f[Rank(U, Nth(Picked, i))] = i
    BY <1>1, <1>2, <1>5, <2>1
  <2>3. Rank(U, Nth(Picked, i)) \in 1 .. u
    BY <1>2, <2>1
  <2> QED BY <2>2, <2>3
<1> HIDE DEF f, u
<1>8. Cardinality(V) = u /\ \A k \in 1 .. u : Nth(V, k) = f[k]
  <2> HIDE DEF V
  <2> QED BY <1>2, <1>3, <1>4, <1>6, <1>7, NthOfList
<1>9. \A k \in 1 .. u : Select(list, Picked)[Nth(V, k)] = list[Nth(U, k)]
  <2> TAKE k \in 1 .. u
  <2>1. Nth(V, k) = Rank(Picked, Nth(U, k)) /\ Nth(U, k) \in Picked
    BY <1>2, <1>5, <1>8
  <2>2. Rank(Picked, Nth(U, k)) \in 1 .. s /\ Nth(Picked, Rank(Picked, Nth(U, k))) = Nth(U, k)
    BY <1>1, <2>1
  <2>3. \A r \in 1 .. s : Select(list, Picked)[r] = list[Nth(Picked, r)]
    BY DEF Select
  <2> QED BY <2>1, <2>2, <2>3
<1>10. Select(Select(list, Picked), V) = [k \in 1 .. u |-> Select(list, Picked)[Nth(V, k)]]
  BY <1>8 DEF Select
<1>11. Select(list, U) = [k \in 1 .. u |-> list[Nth(U, k)]]
  BY DEF Select, u
<1> HIDE DEF V
<1>12. Select(Select(list, Picked), V) = Select(list, U)
  BY <1>9, <1>10, <1>11
<1> QED BY <1>12 DEF V

\* The first elements of a selection are those at the first places.
LEMMA SelectFront ==
    ASSUME NEW n \in Nat, NEW Picked \in SUBSET (1 .. n), NEW U \in SUBSET Picked,
           \A i \in U, j \in Picked : j <= i => j \in U
    PROVE  /\ Cardinality(U) <= Cardinality(Picked)
           /\ \A k \in 1 .. Cardinality(U) : Nth(Picked, k) = Nth(U, k)
<1>1. /\ Picked \in SUBSET Nat /\ IsFiniteSet(Picked) /\ Cardinality(Picked) \in Nat
      /\ \A i \in Picked : Nth(Picked, Rank(Picked, i)) = i
  BY PlacesAreCounted
<1>2. /\ Cardinality(U) \in Nat /\ \A k \in 1 .. Cardinality(U) : Nth(U, k) \in U /\ Rank(U, Nth(U, k)) = k
  <2>1. U \in SUBSET (1 .. n)
    OBVIOUS
  <2> QED BY <2>1, PlacesAreCounted
<1>3. Cardinality(U) <= Cardinality(Picked)
  BY <1>1, FS_Subset
<1>4. \A i \in U : Rank(Picked, i) = Rank(U, i)
  <2> TAKE i \in U
  <2>1. {j \in Picked : j <= i} = {j \in U : j <= i}
    OBVIOUS
  <2> QED BY <2>1 DEF Rank
<1>5. \A k \in 1 .. Cardinality(U) : Nth(Picked, k) = Nth(U, k)
  <2> TAKE k \in 1 .. Cardinality(U)
  <2>1. Nth(U, k) \in U /\ Rank(Picked, Nth(U, k)) = k
    BY <1>2, <1>4
  <2> QED BY <1>1, <2>1
<1> QED BY <1>3, <1>5

\* A filter that lets everything through.
LEMMA SelectAll ==
    ASSUME NEW Item, NEW list \in Seq(Item)
    PROVE  Select(list, DOMAIN list) = list
<1> DEFINE n == Len(list)
           f == [k \in 1 .. n |-> k]
<1>1. n \in Nat /\ DOMAIN list = 1 .. n /\ list = [k \in 1 .. n |-> list[k]]
  OBVIOUS
<1>2. (1 .. n) \in SUBSET Nat /\ IsFiniteSet(1 .. n)
  BY <1>1, PlacesAreCounted
<1>3. f \in [1 .. n -> 1 .. n] /\ \A k \in 1 .. n : f[k] = k
  OBVIOUS
<1> HIDE DEF f
<1>4. Cardinality(1 .. n) = n /\ \A k \in 1 .. n : Nth(1 .. n, k) = f[k]
  <2>1. \A j, k \in 1 .. n : j < k => f[j] < f[k]
    BY <1>3
  <2>2. \A i \in 1 .. n : \E k \in 1 .. n : f[k] = i
    BY <1>3
  <2> QED BY <1>1, <1>2, <1>3, <2>1, <2>2, NthOfList
<1>5. Select(list, 1 .. n) = [k \in 1 .. n |-> list[Nth(1 .. n, k)]]
  BY <1>4 DEF Select
<1>6. \A k \in 1 .. n : list[Nth(1 .. n, k)] = list[k]
  BY <1>3, <1>4
<1> HIDE DEF n
<1> QED BY <1>1, <1>5, <1>6

\* Places that move in order leave the same selection.
LEMMA SelectMoved ==
    ASSUME NEW Picked \in SUBSET Nat, IsFiniteSet(Picked), NEW Others \in SUBSET Nat, IsFiniteSet(Others),
           NEW move \in [Picked -> Others],
           \A i, j \in Picked : i < j => move[i] < move[j],
           \A j \in Others : \E i \in Picked : move[i] = j,
           NEW s, NEW t, \A i \in Picked : t[move[i]] = s[i]
    PROVE  Select(s, Picked) = Select(t, Others)
<1> DEFINE n == Cardinality(Picked)
           f == [k \in 1 .. n |-> move[Nth(Picked, k)]]
<1>1. n \in Nat
  BY FS_CardinalityType
<1>2. \A k \in 1 .. n : Nth(Picked, k) \in Picked /\ Rank(Picked, Nth(Picked, k)) = k
  BY NthIsThere
<1>3. ASSUME NEW j \in 1 .. n, NEW k \in 1 .. n, j < k
      PROVE  Nth(Picked, j) < Nth(Picked, k)
  <2> DEFINE a == Nth(Picked, j)
             b == Nth(Picked, k)
  <2>1. a \in Picked /\ b \in Picked /\ Rank(Picked, a) = j /\ Rank(Picked, b) = k
    BY <1>2
  <2>2. b < a => Rank(Picked, b) < Rank(Picked, a)
    BY <2>1, RankOrder
  <2> HIDE DEF a, b, n
  <2>3. a \in Nat /\ b \in Nat /\ j \in Nat /\ k \in Nat
    <3>1. \A x \in Picked : x \in Nat
      OBVIOUS
    <3>2. a \in Nat /\ b \in Nat
      BY <2>1, <3>1
    <3> QED BY <1>1, <3>2
  <2>4. a < b
    <3>1. ~ (b < a)
      <4>1. b < a => k < j
        BY <2>1, <2>2
      <4> QED BY <1>3, <2>3, <4>1
    <3>2. a # b
      BY <1>3, <2>1, <2>3
    <3> QED BY <2>3, <3>1, <3>2
  <2> QED BY <2>4 DEF a, b
<1>4. f \in [1 .. n -> Others]
  BY <1>2
<1>5. \A j, k \in 1 .. n : j < k => f[j] < f[k]
  BY <1>2, <1>3
<1>6. ASSUME NEW o \in Others PROVE \E k \in 1 .. n : f[k] = o
  <2>1. PICK i \in Picked : move[i] = o
    OBVIOUS
  <2>2. Rank(Picked, i) \in 1 .. n /\ Nth(Picked, Rank(Picked, i)) = i
    BY RankOrder, NthIsThere
  <2> QED BY <2>1, <2>2
<1>7. Cardinality(Others) = n /\ \A k \in 1 .. n : Nth(Others, k) = f[k]
  <2> HIDE DEF f, n
  <2> QED BY <1>1, <1>4, <1>5, <1>6, NthOfList
<1>8. \A k \in 1 .. n : t[Nth(Others, k)] = s[Nth(Picked, k)]
  BY <1>2, <1>7
<1> QED BY <1>7, <1>8 DEF Select

\* The instances count and filter with the same operators.
LEMMA SameCardinality ==
    ASSUME NEW Picked
    PROVE  /\ O!Cardinality(Picked) = Cardinality(Picked) /\ B!Cardinality(Picked) = Cardinality(Picked)
           /\ I!Cardinality(Picked) = Cardinality(Picked)
  BY DEF O!Cardinality, B!Cardinality, I!Cardinality, Cardinality

LEMMA SameSelect ==
    ASSUME NEW list, NEW Picked
    PROVE  /\ O!Select(list, Picked) = Select(list, Picked) /\ B!Select(list, Picked) = Select(list, Picked)
           /\ I!Select(list, Picked) = Select(list, Picked)
<1>1. \A i : O!Rank(Picked, i) = Rank(Picked, i) /\ B!Rank(Picked, i) = Rank(Picked, i) /\ I!Rank(Picked, i) = Rank(Picked, i)
  BY SameCardinality DEF O!Rank, B!Rank, I!Rank, Rank
<1>2. \A k : O!Nth(Picked, k) = Nth(Picked, k)
  BY <1>1 DEF O!Nth, Nth
<1>3. \A k : B!Nth(Picked, k) = Nth(Picked, k)
  BY <1>1 DEF B!Nth, Nth
<1>4. \A k : I!Nth(Picked, k) = Nth(Picked, k)
  BY <1>1 DEF I!Nth, Nth
<1> QED BY <1>2, <1>3, <1>4, SameCardinality DEF O!Select, B!Select, I!Select, Select

-----------------------------------------------------------------------------
(***************************************************************************)
(* CompositionMerge: what a delta makes of the screens.                    *)
(***************************************************************************)
\* What a delta makes of screens.
DeltaMakes(f, added, modified, removed) ==
    C!Overlay(C!Overlay(C!Restrict(f, DOMAIN f \ removed), added), modified)

\* What the screens are after it: those it does not remove for good, and its own.
DeltaLeaves(f, added, modified, removed) ==
    LET new == C!Overlay(added, modified)
    IN  C!Overlay([s \in DOMAIN f \ (removed \ DOMAIN new) |-> f[s]], new)

\* A delta: what it makes of a baseline, and of that again.
LEMMA DeltaIsKept ==
    ASSUME NEW old, NEW added, NEW modified, NEW removed
    PROVE  /\ DeltaMakes(old, added, modified, removed) = DeltaLeaves(old, added, modified, removed)
           /\ DeltaMakes(DeltaMakes(old, added, modified, removed), added, modified, removed) =
                DeltaMakes(old, added, modified, removed)
<1> DEFINE new == C!Overlay(added, modified)
           Over(f) == DeltaMakes(f, added, modified, removed)
           made == Over(old)
           other == C!Overlay([s \in DOMAIN old \ (removed \ DOMAIN new) |-> old[s]], new)
<1>1. \A f : Over(f) = [s \in (DOMAIN f \ removed) \cup DOMAIN added \cup DOMAIN modified |->
                          IF s \in DOMAIN modified THEN modified[s]
                          ELSE IF s \in DOMAIN added THEN added[s] ELSE f[s]]
  BY DEF C!Overlay, C!Restrict, DeltaMakes
<1>2. /\ DOMAIN new = DOMAIN added \cup DOMAIN modified
      /\ \A s \in DOMAIN new : new[s] = IF s \in DOMAIN modified THEN modified[s] ELSE added[s]
  BY DEF C!Overlay
<1>3. made = other
  <2>1. other = [s \in (DOMAIN old \ (removed \ DOMAIN new)) \cup DOMAIN new |->
                   IF s \in DOMAIN new THEN new[s] ELSE old[s]]
    BY DEF C!Overlay
  <2>2. made = [s \in (DOMAIN old \ removed) \cup DOMAIN added \cup DOMAIN modified |->
                          IF s \in DOMAIN modified THEN modified[s]
                          ELSE IF s \in DOMAIN added THEN added[s] ELSE old[s]]
    BY <1>1
  <2> HIDE DEF made, other, new
  <2>3. DOMAIN made = DOMAIN other
    BY <1>2, <2>1, <2>2
  <2>4. \A s \in DOMAIN made : made[s] = other[s]
    BY <1>2, <2>1, <2>2
  <2> QED BY <2>1, <2>2, <2>3, <2>4
<1>4. Over(made) = made
  <2>1. made = [s \in (DOMAIN old \ removed) \cup DOMAIN added \cup DOMAIN modified |->
                          IF s \in DOMAIN modified THEN modified[s]
                          ELSE IF s \in DOMAIN added THEN added[s] ELSE old[s]]
    BY <1>1
  <2> HIDE DEF made
  <2>2. Over(made) = [s \in (DOMAIN made \ removed) \cup DOMAIN added \cup DOMAIN modified |->
                          IF s \in DOMAIN modified THEN modified[s]
                          ELSE IF s \in DOMAIN added THEN added[s] ELSE made[s]]
    BY <1>1
  <2> DEFINE again == Over(made)
  <2> HIDE DEF Over
  <2>3. DOMAIN again = DOMAIN made
    BY <2>1, <2>2
  <2>4. \A s \in DOMAIN made : again[s] = made[s]
    BY <2>1, <2>2
  <2> HIDE DEF again
  <2>5. again = [s \in DOMAIN again |-> again[s]]
    BY <2>2 DEF again
  <2>6. again = made
    BY <2>1, <2>3, <2>4, <2>5
  <2> QED BY <2>6 DEF again
<1> QED BY <1>3, <1>4 DEF DeltaLeaves

\* A document that is refused or holds the screens themselves.
LEMMA PromotedIsKept ==
    ASSUME NEW baseline, NEW doc, NEW merged \in C!Promote(baseline, doc, FALSE),
           merged \notin {None, Malformed},
           doc.delta = None /\ doc.screens \notin {None, Malformed} =>
              doc.screens = [s \in DOMAIN doc.screens |-> doc.screens[s]]
    PROVE  LET old == IF baseline \in {None, Malformed} THEN C!NoScreens ELSE baseline
               new == IF doc.delta # None
                      THEN C!Overlay(doc.delta.added, doc.delta.modified)
                      ELSE doc.screens
               gone == IF doc.delta # None THEN doc.delta.removed \ DOMAIN new ELSE {}
           IN  /\ merged = C!Overlay([s \in DOMAIN old \ gone |-> old[s]], new)
               /\ C!Promote(merged, doc, FALSE) \subseteq {merged}
<1> DEFINE old == IF baseline \in {None, Malformed} THEN C!NoScreens ELSE baseline
<1>0. merged \in C!Merge(baseline, doc) /\ C!Gate(baseline, doc, FALSE)
  BY DEF C!Promote
<1>1. CASE doc.delta # None
  <2> DEFINE d == doc.delta
             Over(f) == DeltaMakes(f, d.added, d.modified, d.removed)
  <2>1. \A b : C!Merge(b, doc) = C!MergeDelta(b, d)
    BY <1>1 DEF C!Merge
  <2>2. \A b : \A t \in C!MergeDelta(b, d) : \E s \in C!Screens(b) : t = Over(s)
    BY DEF C!MergeDelta, DeltaMakes
  <2>3. \A s \in C!Screens(baseline) : s = old
    BY DEF C!Screens
  <2>4. merged = Over(old)
    BY <1>0, <2>1, <2>2, <2>3
  <2>5. C!Screens(merged) = {merged}
    BY DEF C!Screens
  <2> HIDE DEF old, d
  <2>6. Over(old) = DeltaLeaves(old, d.added, d.modified, d.removed)
    BY DeltaIsKept
  <2>7. Over(Over(old)) = Over(old)
    BY DeltaIsKept
  <2>8. \A t \in C!Promote(merged, doc, FALSE) : t = merged
    <3>1. \A t \in C!Promote(merged, doc, FALSE) : t \in C!MergeDelta(merged, d)
      BY <2>1 DEF C!Promote
    <3> HIDE DEF Over
    <3> QED BY <2>2, <2>4, <2>5, <2>7, <3>1
  <2> HIDE DEF Over
  <2> QED BY <1>1, <2>4, <2>6, <2>8 DEF old, d, DeltaLeaves
<1>2. CASE doc.delta = None
  <2>1. \A b : C!Merge(b, doc) \subseteq {doc.screens}
    BY <1>2 DEF C!Merge
  <2>2. merged = doc.screens /\ doc.screens # None
    BY <1>0, <1>2, <2>1 DEF C!Merge
  <2>3. old = C!NoScreens
    BY <1>0, <1>2, <2>2 DEF C!Gate, C!IsReplacement, C!NonEmpty
  <2>4. DOMAIN old = {}
    BY <2>3 DEF C!NoScreens
  <2> HIDE DEF old
  <2>5. C!Overlay([s \in DOMAIN old \ {} |-> old[s]], merged) = [s \in DOMAIN merged |-> merged[s]]
    BY <2>4 DEF C!Overlay
  <2>6. C!Promote(merged, doc, FALSE) \subseteq {merged}
    BY <2>1, <2>2 DEF C!Promote
  <2> QED BY <1>2, <2>2, <2>5, <2>6 DEF old
<1> QED BY <1>1, <1>2

(***************************************************************************)
(* No merge without --allow-composition-replace loses or changes a screen  *)
(* the slice does not name, whatever the baseline and the slice hold, and  *)
(* merging again is refused or changes nothing.                            *)
(***************************************************************************)
THEOREM NoScreenIsLost == AllSpec => []CompositionKept
<1> DEFINE Inv == kase.kind = "composition" => kase.in \in CompositionInputs
<1>1. AllInit => Inv
  BY DEF AllInit, KernelsOff, Init
<1>2. Inv /\ [AllNext]_<<allVars, kase, baselineVars>> => Inv'
  <2> SUFFICES ASSUME Inv, [AllNext]_<<allVars, kase, baselineVars>> PROVE Inv'
    OBVIOUS
  <2>1. CASE UNCHANGED kase
    BY <2>1
  <2>2. CASE Next
    BY <2>2 DEF Next, Synthesize, Compose, ShowJournal, RunLint
  <2> QED BY <2>1, <2>2 DEF AllNext
<1>3. Inv => CompositionKept
  <2> SUFFICES ASSUME kase.kind = "composition", kase.in \in CompositionInputs PROVE CompositionKept
    BY DEF CompositionKept
  <2> DEFINE in == kase.in
  <2> HIDE DEF in
  <2>1. ASSUME NEW merged \in C!Promote(in.baseline, in.doc, FALSE), merged # Malformed
        PROVE  /\ merged # None
               /\ in.doc.delta = None /\ in.doc.screens \notin {None, Malformed} =>
                    in.doc.screens = [s \in DOMAIN in.doc.screens |-> in.doc.screens[s]]
    BY <2>1, CompositionAssumption DEF in
  <2>2. ASSUME NEW merged \in C!Promote(in.baseline, in.doc, FALSE), merged # Malformed
        PROVE  LET old == IF in.baseline \in {None, Malformed} THEN C!NoScreens ELSE in.baseline
                   new == IF in.doc.delta # None
                          THEN C!Overlay(in.doc.delta.added, in.doc.delta.modified)
                          ELSE in.doc.screens
                   gone == IF in.doc.delta # None THEN in.doc.delta.removed \ DOMAIN new ELSE {}
               IN  /\ merged = C!Overlay([s \in DOMAIN old \ gone |-> old[s]], new)
                   /\ C!Promote(merged, in.doc, FALSE) \subseteq {merged}
    BY <2>1, <2>2, PromotedIsKept
  <2> QED BY <2>2 DEF CompositionKept, in
<1> QED BY <1>1, <1>2, <1>3, PTL DEF AllSpec

-----------------------------------------------------------------------------
(***************************************************************************)
(* SourceOps: the lanes of operations, and the leads of surveys.           *)
(***************************************************************************)
\* A behaviour of this part is one of SourceOps.
LEMMA SourcesPart ==
    /\ PartsInit /\ part = "sources" => O!Init
    /\ [PartsNext]_allVars => part' = part /\ (part = "sources" => [O!Next]_(O!vars))
<1>1. CASE UNCHANGED allVars
  BY <1>1 DEF PartsInit, allVars, sourceVars, O!vars
<1>2. CASE PartsNext
  BY <1>2 DEF PartsInit, PartsNext
<1>3. CASE ~ [PartsNext]_allVars
  BY <1>3 DEF PartsInit
<1> QED BY <1>1, <1>2, <1>3

\* The shapes of the state: lanes are those of the adapters that are bound.
SourcesTyped ==
    /\ adapter \in Bindings
    /\ DOMAIN lanes = O!Range(adapter) \X (Slices \cup {Survey})
    /\ \A l \in DOMAIN lanes : DOMAIN lanes[l] = {"survey", "extract"}
    /\ DOMAIN evidence = O!Extracts /\ DOMAIN committed = O!Ops /\ DOMAIN job = O!Ops
    /\ \A o \in O!Ops : DOMAIN job[o] = {"pc", "round", "wrote", "read", "copy"}

\* Nobody else is at work in the lane of a busy operation, so what is in it for the
\* operation is what its agent wrote, or nothing.
LanesAreOwn ==
    /\ \A o, p \in O!Ops : O!Interfere(o, p) => job[o].pc = "idle" \/ job[p].pc = "idle"
    /\ \A o \in O!Ops : /\ job[o].pc # "idle" => O!Staged(o) \in {None, job[o].wrote}
                        /\ job[o].pc = "merge" => o.kind = "survey"

SourcesInv == SourcesTyped /\ LanesAreOwn /\ O!EvidenceIsOwn

LEMMA OpsHaveLanes ==
    ASSUME SourcesTyped, NEW o \in O!Ops
    PROVE  /\ O!Lane(o) \in DOMAIN lanes
           /\ o.kind \in {"survey", "extract"}
           /\ o.kind = "extract" => o \in O!Extracts
<1>1. o.source \in Sources /\ o.segment \in Slices \cup {Survey} /\ o.kind \in {"survey", "extract"}
      /\ (o.kind = "extract" => o \in O!Extracts)
  BY DEF O!Ops, O!Surveys, O!Extracts
<1>2. adapter[o.source] \in O!Range(adapter)
  BY <1>1, SourceOpsAssumption DEF O!Range, SourcesTyped
<1> QED BY <1>1, <1>2 DEF O!Lane, SourcesTyped

LEMMA SourcesInit == O!Init => SourcesInv
<1> SUFFICES ASSUME O!Init PROVE SourcesInv
  OBVIOUS
<1>1. SourcesTyped
  BY DEF O!Init, SourcesTyped, O!EmptyLane, O!IdleJob
<1>2. LanesAreOwn /\ O!EvidenceIsOwn
  BY DEF O!Init, LanesAreOwn, O!EvidenceIsOwn, O!IdleJob, O!Extracts, O!Ops
<1> QED BY <1>1, <1>2 DEF SourcesInv

LEMMA SourcesStepTyped ==
    ASSUME SourcesInv, NEW o \in O!Ops,
           \/ O!Prepare(o) \/ O!AgentWrites(o) \/ O!Refuse(o)
           \/ O!CommitEvidence(o) \/ O!LoadDiscovery(o) \/ O!SaveDiscovery(o)
    PROVE  SourcesTyped'
<1>0. SourcesTyped
  BY DEF SourcesInv
<1>1. CASE O!Prepare(o)
  BY <1>0, <1>1, OpsHaveLanes DEF SourcesTyped, O!Prepare, O!EmptyLane, O!IdleJob
<1>2. CASE O!AgentWrites(o)
  BY <1>0, <1>2, OpsHaveLanes DEF SourcesTyped, O!AgentWrites
<1>3. CASE O!Refuse(o)
  BY <1>0, <1>3 DEF SourcesTyped, O!Refuse, O!Return, O!IdleJob
<1>4. CASE O!CommitEvidence(o)
  BY <1>0, <1>4 DEF SourcesTyped, O!CommitEvidence, O!Return, O!Commit, O!IdleJob
<1>5. CASE O!LoadDiscovery(o)
  BY <1>0, <1>5 DEF SourcesTyped, O!LoadDiscovery
<1>6. CASE O!SaveDiscovery(o)
  BY <1>0, <1>6 DEF SourcesTyped, O!SaveDiscovery, O!Return, O!Commit, O!IdleJob
<1> QED BY <1>1, <1>2, <1>3, <1>4, <1>5, <1>6

\* What an operation does in its lane, no other one notices.
LEMMA LanesStayOwn ==
    ASSUME SourcesInv, Disciplined, NEW o \in O!Ops,
           \/ O!Prepare(o) \/ O!AgentWrites(o) \/ O!Refuse(o)
           \/ O!CommitEvidence(o) \/ O!LoadDiscovery(o) \/ O!SaveDiscovery(o)
    PROVE  LanesAreOwn'
<1>0. SourcesTyped /\ LanesAreOwn
  BY DEF SourcesInv
<1>1. \A p, q \in O!Ops : O!Interfere(p, q)' <=> O!Interfere(p, q)
  BY DEF O!Interfere, O!Lane, O!Prepare, O!AgentWrites, O!Refuse, O!CommitEvidence, O!LoadDiscovery, O!SaveDiscovery
<1>2. \A p \in O!Ops : p # o => job'[p] = job[p]
  BY <1>0 DEF O!Prepare, O!AgentWrites, O!Refuse, O!CommitEvidence, O!LoadDiscovery, O!SaveDiscovery, O!Return, SourcesTyped
<1>3. job[o].pc # "idle" \/ O!Alone(o) \/ job'[o].pc = "idle"
  BY DEF O!Prepare, O!AgentWrites, O!Refuse, O!CommitEvidence, O!LoadDiscovery, O!SaveDiscovery
<1>4. \A p, q \in O!Ops : O!Interfere(p, q) => job'[p].pc = "idle" \/ job'[q].pc = "idle"
  <2>1. \A p \in O!Ops : O!Interfere(o, p) => job[p].pc = "idle" \/ job'[o].pc = "idle"
    BY <1>0, <1>3 DEF LanesAreOwn, O!Alone
  <2> QED BY <1>0, <1>2, <2>1 DEF LanesAreOwn, O!Interfere
<1>5. \A p \in O!Ops : O!Lane(p)' = O!Lane(p)
  BY DEF O!Lane, O!Prepare, O!AgentWrites, O!Refuse, O!CommitEvidence, O!LoadDiscovery, O!SaveDiscovery
<1>6. ASSUME NEW p \in O!Ops, p # o
      PROVE  /\ job'[p].pc # "idle" => O!Staged(p)' \in {None, job'[p].wrote}
             /\ job'[p].pc = "merge" => p.kind = "survey"
  <2>1. CASE job[p].pc = "idle"
    BY <1>2, <1>6, <2>1
  <2>2. CASE job[p].pc # "idle" /\ O!Lane(p) # O!Lane(o)
    <3>1. lanes'[O!Lane(p)] = lanes[O!Lane(p)]
      BY <1>0, <2>2, OpsHaveLanes DEF O!Prepare, O!AgentWrites, O!Refuse, O!CommitEvidence, O!LoadDiscovery, O!SaveDiscovery, SourcesTyped
    <3> QED BY <1>0, <1>2, <1>5, <1>6, <3>1 DEF LanesAreOwn, O!Staged
  <2>3. CASE job[p].pc # "idle" /\ O!Lane(p) = O!Lane(o)
    <3>1. O!Interfere(o, p)
      BY <1>6, <2>3 DEF O!Interfere
    <3>2. job[o].pc = "idle" /\ ~ O!Alone(o)
      BY <1>0, <2>3, <3>1 DEF LanesAreOwn, O!Alone
    <3> QED BY <3>2 DEF O!Prepare, O!AgentWrites, O!Refuse, O!CommitEvidence, O!LoadDiscovery, O!SaveDiscovery
  <2> QED BY <2>1, <2>2, <2>3
<1>7. /\ job'[o].pc # "idle" => O!Staged(o)' \in {None, job'[o].wrote}
      /\ job'[o].pc = "merge" => o.kind = "survey"
  <2>1. CASE O!Prepare(o)
    BY <1>0, <1>5, <2>1, OpsHaveLanes DEF O!Prepare, O!Staged, O!EmptyLane, O!IdleJob, SourcesTyped
  <2>2. CASE O!AgentWrites(o)
    <3>1. job'[o].pc = "written" /\ O!Staged(o) \in {None, job[o].wrote}
      BY <1>0, <2>2 DEF O!AgentWrites, SourcesTyped, LanesAreOwn
    <3>2. ASSUME job' = [job EXCEPT ![o].pc = "written"], UNCHANGED lanes
          PROVE  O!Staged(o)' \in {None, job'[o].wrote}
      BY <1>0, <1>5, <3>1, <3>2 DEF O!Staged, SourcesTyped
    <3>3. ASSUME NEW art, lanes' = [lanes EXCEPT ![O!Lane(o)][o.kind] = art],
                 job' = [job EXCEPT ![o].pc = "written", ![o].wrote = art]
          PROVE  O!Staged(o)' = job'[o].wrote
      BY <1>0, <1>5, <3>3, OpsHaveLanes DEF O!Staged, SourcesTyped
    <3> QED BY <2>2, <3>1, <3>2, <3>3 DEF O!AgentWrites
  <2>3. CASE O!Refuse(o) \/ O!CommitEvidence(o) \/ O!LoadDiscovery(o) \/ O!SaveDiscovery(o)
    <3>1. O!Staged(o)' = O!Staged(o) /\ O!Staged(o) \in {None, job[o].wrote}
      BY <1>0, <1>5, <2>3 DEF O!Refuse, O!CommitEvidence, O!LoadDiscovery, O!SaveDiscovery, O!Staged, LanesAreOwn
    <3>2. job'[o].pc = "idle" \/ job'[o].wrote = job[o].wrote
      BY <1>0, <2>3 DEF O!Refuse, O!CommitEvidence, O!LoadDiscovery, O!SaveDiscovery, O!Return, O!IdleJob, SourcesTyped
    <3>3. job'[o].pc = "merge" => o.kind = "survey"
      BY <1>0, <2>3 DEF O!Refuse, O!CommitEvidence, O!LoadDiscovery, O!SaveDiscovery, O!Return, O!IdleJob, SourcesTyped
    <3> QED BY <3>1, <3>2, <3>3
  <2> QED BY <2>1, <2>2, <2>3
<1> QED BY <1>1, <1>4, <1>6, <1>7 DEF LanesAreOwn

LEMMA SourcesStep == Disciplined /\ SourcesInv /\ [O!Next]_(O!vars) => SourcesInv'
<1> SUFFICES ASSUME Disciplined, SourcesInv, [O!Next]_(O!vars) PROVE SourcesInv'
  OBVIOUS
<1>1. CASE UNCHANGED O!vars
  BY <1>1 DEF O!vars, SourcesInv, SourcesTyped, LanesAreOwn, O!EvidenceIsOwn, O!Interfere, O!Lane, O!Staged
<1>2. ASSUME NEW o \in O!Ops,
             \/ O!Prepare(o) \/ O!AgentWrites(o) \/ O!Refuse(o)
             \/ O!CommitEvidence(o) \/ O!LoadDiscovery(o) \/ O!SaveDiscovery(o)
      PROVE  SourcesInv'
  <2>1. O!EvidenceIsOwn'
    <3>0. SourcesTyped /\ LanesAreOwn /\ O!EvidenceIsOwn
      BY DEF SourcesInv
    <3>1. CASE O!CommitEvidence(o)
      <4>1. O!Staged(o) = job[o].wrote
        BY <3>0, <3>1 DEF O!CommitEvidence, O!Valid, LanesAreOwn
      <4> QED BY <3>0, <3>1, <4>1 DEF O!CommitEvidence, O!Commit, O!EvidenceIsOwn, SourcesTyped, O!Ops
    <3>2. CASE O!SaveDiscovery(o)
      <4>1. o \notin O!Extracts
        BY <3>0, <3>2 DEF O!SaveDiscovery, LanesAreOwn, O!Extracts
      <4> QED BY <3>0, <3>2, <4>1 DEF O!SaveDiscovery, O!Commit, O!EvidenceIsOwn, SourcesTyped
    <3>3. CASE O!Prepare(o) \/ O!AgentWrites(o) \/ O!Refuse(o) \/ O!LoadDiscovery(o)
      BY <3>0, <3>3 DEF O!Prepare, O!AgentWrites, O!Refuse, O!LoadDiscovery, O!EvidenceIsOwn
    <3> QED BY <1>2, <3>1, <3>2, <3>3
  <2> QED BY <1>2, <2>1, SourcesStepTyped, LanesStayOwn DEF SourcesInv
<1> QED BY <1>1, <1>2 DEF O!Next

(***************************************************************************)
(* As long as callers run one operation of a lane at a time, the evidence  *)
(* of a slice is what the agent of that source wrote in the last round     *)
(* whose finalize committed, be it that the journal then failed it:        *)
(* prepare empties the lane, so finalize finds in it what this agent left  *)
(* or nothing, never the file of another source of the same adapter.       *)
(***************************************************************************)
THEOREM StagedEvidenceIsOwn ==
    ASSUME Disciplined
    PROVE  PartsSpec => []EvidenceIsOwn
<1> DEFINE Inv == part = "sources" => SourcesInv
<1>1. PartsInit => Inv
  BY SourcesPart, SourcesInit
<1>2. Inv /\ [PartsNext]_allVars => Inv'
  BY SourcesPart, SourcesStep
<1>3. Inv => EvidenceIsOwn
  BY DEF SourcesInv, EvidenceIsOwn
<1> QED BY <1>1, <1>2, <1>3, PTL DEF PartsSpec

(***************************************************************************)
(* What a lookup in the inventory finds: the first block of a source with  *)
(* an id.                                                                  *)
(***************************************************************************)
Is(l, source, id) == l.source = source /\ l.lead = id
At(d, j, source, id) == /\ j \in 1 .. Len(d) /\ Is(d[j], source, id)
                        /\ \A k \in 1 .. j - 1 : ~ Is(d[k], source, id)

First(d, source, id) == O!SelectInSeq(d, LAMBDA l : l.source = source /\ l.lead = id)

LEMMA FirstThere ==
    ASSUME NEW d, Len(d) \in Nat, NEW source, NEW id
    PROVE  \/ First(d, source, id) = 0 /\ \A k \in 1 .. Len(d) : ~ Is(d[k], source, id)
           \/ First(d, source, id) # 0 /\ At(d, First(d, source, id), source, id)
<1> DEFINE Hits == {k \in 1 .. Len(d) : Is(d[k], source, id)}
           j == First(d, source, id)
<1>1. j = IF Hits # {} THEN O!Min(Hits) ELSE 0
  BY DEF First, O!SelectInSeq, Is
<1>2. CASE Hits = {}
  BY <1>1, <1>2
<1>3. CASE Hits # {}
  <2>1. Hits \in SUBSET Nat
    OBVIOUS
  <2>2. PICK m \in Hits : \A k \in Hits : m <= k
    BY <1>3, <2>1, LeastNatural
  <2>3. O!Min(Hits) = CHOOSE x \in Hits : \A y \in Hits : x <= y
    BY DEF O!Min
  <2>5. O!Min(Hits) \in Hits /\ \A k \in Hits : O!Min(Hits) <= k
    BY <2>2, <2>3
  <2>6. j \in Hits /\ \A k \in Hits : j <= k
    BY <1>1, <1>3, <2>5
  <2> HIDE DEF j
  <2>7. \A k \in 1 .. j - 1 : k \in 1 .. Len(d) /\ ~ (j <= k)
    BY <2>6
  <2>8. j # 0 /\ At(d, j, source, id)
    BY <2>6, <2>7 DEF At
  <2> QED BY <2>8 DEF j
<1> QED BY <1>2, <1>3

(***************************************************************************)
(* After a merge, a lookup of a lead of the source that was surveyed finds *)
(* what the survey says of it, and a lookup for another source finds what  *)
(* it found before.                                                        *)
(***************************************************************************)
LEMMA MergeFinds ==
    ASSUME NEW Item, NEW prior \in Seq(Item), NEW new \in Seq(Item), NEW source,
           \A i \in DOMAIN new : new[i].source = source,
           \A i, j \in DOMAIN new : new[i].lead = new[j].lead => new[i] = new[j]
    PROVE  LET d == O!MergeSurvey(prior, source, new)
           IN  /\ d \in Seq(Item)
               /\ \A i \in DOMAIN new : \E j : At(d, j, source, new[i].lead) /\ d[j] = new[i]
               /\ \A s, id, j : s # source /\ At(prior, j, s, id) => At(d, j, s, id) /\ d[j] = prior[j]
<1> DEFINE Block(id) == First(prior, source, id)
           Slot(id) == O!SelectInSeq(new, LAMBDA l : l.lead = id)
           Replaced(i) == Block(prior[i].lead) = i /\ Slot(prior[i].lead) # 0
           Used(j) == Slot(new[j].lead) = j /\ Block(new[j].lead) # 0
           Left == {j \in DOMAIN new : ~ Used(j)}
           front == [i \in DOMAIN prior |-> IF Replaced(i) THEN new[Slot(prior[i].lead)] ELSE prior[i]]
           rest == Select(new, Left)
           n == Len(prior)
<1>1. O!MergeSurvey(prior, source, new) = front \o rest
  <2>1. O!MergeSurvey(prior, source, new) = front \o O!Select(new, Left)
    BY DEF O!MergeSurvey, First
  <2> HIDE DEF Left, front
  <2> QED BY <2>1, SameSelect
<1>2. n \in Nat /\ DOMAIN prior = 1 .. n /\ Len(new) \in Nat /\ DOMAIN new = 1 .. Len(new)
  OBVIOUS
<1>3. \A id : \/ Block(id) = 0 /\ \A k \in 1 .. n : ~ Is(prior[k], source, id)
              \/ Block(id) # 0 /\ At(prior, Block(id), source, id)
  BY <1>2, FirstThere
<1>4. \A id : \/ Slot(id) = 0 /\ \A k \in DOMAIN new : new[k].lead # id
              \/ Slot(id) \in DOMAIN new /\ Slot(id) # 0 /\ new[Slot(id)].lead = id
  <2> TAKE id
  <2> DEFINE Hits == {k \in 1 .. Len(new) : new[k].lead = id}
  <2>1. Slot(id) = IF Hits # {} THEN O!Min(Hits) ELSE 0
    BY DEF O!SelectInSeq
  <2>2. CASE Hits = {}
    BY <1>2, <2>1, <2>2
  <2>3. CASE Hits # {}
    <3>1. Hits \in SUBSET Nat
      OBVIOUS
    <3>2. PICK m \in Hits : \A k \in Hits : m <= k
      BY <2>3, <3>1, LeastNatural
    <3>3. O!Min(Hits) = CHOOSE x \in Hits : \A y \in Hits : x <= y
      BY DEF O!Min
    <3>4. O!Min(Hits) \in Hits
      BY <3>2, <3>3
    <3>5. Slot(id) \in Hits
      BY <2>1, <2>3, <3>4
    <3> HIDE DEF Slot
    <3> QED BY <1>2, <3>5
  <2> QED BY <2>2, <2>3
<1> HIDE DEF Block, Slot
<1>5. front \in Seq(Item) /\ Len(front) = n /\ \A i \in 1 .. n : front[i] = IF Replaced(i) THEN new[Slot(prior[i].lead)] ELSE prior[i]
  <2>1. \A i \in 1 .. n : Replaced(i) => new[Slot(prior[i].lead)] \in Item
    BY <1>4
  <2>2. front \in [1 .. n -> Item]
    BY <1>2, <2>1
  <2> QED BY <1>2, <2>2
<1>6. \A i \in 1 .. n : /\ front[i].lead = prior[i].lead
                        /\ front[i].source = prior[i].source
                        /\ front[i] # prior[i] => prior[i].source = source
  <2> TAKE i \in 1 .. n
  <2>1. CASE Replaced(i)
    <3>1. At(prior, i, source, prior[i].lead)
      BY <1>3, <2>1
    <3>2. Slot(prior[i].lead) \in DOMAIN new /\ new[Slot(prior[i].lead)].lead = prior[i].lead
      BY <1>4, <2>1
    <3> QED BY <1>5, <2>1, <3>1, <3>2 DEF At, Is
  <2>2. CASE ~ Replaced(i)
    BY <1>5, <2>2
  <2> QED BY <2>1, <2>2
<1>7. /\ rest \in Seq(Item) /\ \A k \in DOMAIN rest : \E i \in Left : rest[k] = new[i]
      /\ \A i \in Left : \E k \in DOMAIN rest : rest[k] = new[i]
  <2>1. Left \in SUBSET (1 .. Len(new))
    BY <1>2
  <2> HIDE DEF Left
  <2>2. /\ rest \in Seq(Item) /\ Len(rest) = Cardinality(Left)
        /\ \A k \in 1 .. Cardinality(Left) : \E i \in Left : rest[k] = new[i]
        /\ \A i \in Left : \E k \in 1 .. Cardinality(Left) : rest[k] = new[i]
    BY <1>2, <2>1, SelectHolds
  <2> QED BY <2>2
<1> DEFINE d == front \o rest
           m == Len(rest)
<1> HIDE DEF front, rest
<1>8. /\ d \in Seq(Item) /\ Len(d) = n + m /\ m \in Nat /\ DOMAIN rest = 1 .. m
      /\ \A j \in 1 .. n : d[j] = front[j]
      /\ \A j \in 1 .. m : d[n + j] = rest[j]
  <2>1. front \in Seq(Item) /\ rest \in Seq(Item) /\ Len(front) = n
    BY <1>5, <1>7
  <2>2. /\ d \in Seq(Item) /\ Len(d) = Len(front) + Len(rest)
        /\ Len(rest) \in Nat /\ DOMAIN rest = 1 .. Len(rest)
    BY <2>1, Concatenated
  <2>3. \A j \in 1 .. Len(front) : d[j] = front[j]
    BY <2>1, Concatenated
  <2>4. \A j \in 1 .. Len(rest) : d[Len(front) + j] = rest[j]
    BY <2>1, Concatenated
  <2> HIDE DEF d
  <2> QED BY <2>1, <2>2, <2>3, <2>4
<1> HIDE DEF d
<1>9. ASSUME NEW i \in DOMAIN new PROVE \E j : At(d, j, source, new[i].lead) /\ d[j] = new[i]
  <2> DEFINE id == new[i].lead
             p == Block(id)
  <2>1. CASE p # 0
    <3>1. At(prior, p, source, id)
      BY <1>3, <2>1
    <3>2. Slot(id) \in DOMAIN new /\ Slot(id) # 0 /\ new[Slot(id)] = new[i]
      BY <1>4
    <3>3. p \in 1 .. n /\ prior[p].lead = id /\ Replaced(p)
      BY <2>1, <3>1, <3>2 DEF At, Is
    <3>4. d[p] = new[i]
      BY <1>5, <1>8, <3>2, <3>3
    <3>5. At(d, p, source, id)
      <4>1. \A k \in 1 .. p - 1 : k \in 1 .. n
        BY <1>2, <3>3
      <4>2. ASSUME NEW k \in 1 .. p - 1 PROVE ~ Is(d[k], source, id)
        <5>1. k \in 1 .. n /\ ~ Is(prior[k], source, id)
          BY <3>1, <4>1 DEF At
        <5>2. d[k].source = prior[k].source /\ d[k].lead = prior[k].lead
          BY <1>6, <1>8, <5>1
        <5> QED BY <5>1, <5>2 DEF Is
      <4>3. p \in 1 .. Len(d)
        BY <1>2, <1>8, <3>3
      <4> QED BY <3>4, <4>2, <4>3 DEF At, Is
    <3> QED BY <3>4, <3>5
  <2>2. CASE p = 0
    <3>1. \A k \in 1 .. n : ~ Is(d[k], source, id)
      BY <1>3, <1>6, <1>8, <2>2 DEF Is
    <3>2. \A k \in DOMAIN new : new[k].lead = id => k \in Left
      BY <2>2
    <3> DEFINE Hits == {j \in 1 .. Len(d) : Is(d[j], source, id)}
    <3>3. Hits # {} /\ Hits \in SUBSET Nat
      <4>1. PICK k \in DOMAIN rest : rest[k] = new[i]
        BY <1>7, <3>2
      <4>2. n + k \in Hits
        BY <1>2, <1>8, <4>1 DEF Is
      <4> QED BY <4>2
    <3>4. PICK j \in Hits : \A k \in Hits : j <= k
      BY <3>3, LeastNatural
    <3>5. At(d, j, source, id)
      <4>1. \A k \in 1 .. j - 1 : k \in 1 .. Len(d) /\ ~ (j <= k)
        BY <1>8, <1>2, <3>4
      <4> QED BY <3>4, <4>1 DEF At
    <3>6. PICK k \in 1 .. m : j = n + k
      <4>1. j \notin 1 .. n /\ j \in 1 .. n + m
        BY <1>8, <3>1, <3>4
      <4>2. j - n \in 1 .. m /\ j = n + (j - n)
        BY <1>2, <1>8, <4>1
      <4> QED BY <4>2
    <3>7. PICK k2 \in Left : rest[k] = new[k2]
      BY <1>7, <1>8, <3>6
    <3>8. d[j] = new[i]
      BY <1>8, <3>4, <3>6, <3>7 DEF Is
    <3> QED BY <3>5, <3>8
  <2> QED BY <2>1, <2>2
<1>10. ASSUME NEW s, NEW id, NEW j, s # source, At(prior, j, s, id)
       PROVE  At(d, j, s, id) /\ d[j] = prior[j]
  <2>1. j \in 1 .. n /\ prior[j].source = s /\ d[j] = prior[j]
    BY <1>6, <1>8, <1>10 DEF At, Is
  <2>2. \A k \in 1 .. j - 1 : k \in 1 .. n
    BY <1>2, <2>1
  <2>3. j \in 1 .. Len(d)
    BY <1>2, <1>8, <2>1
  <2>4. \A k \in 1 .. j - 1 : ~ Is(d[k], s, id)
    BY <1>6, <1>8, <1>10, <2>2 DEF At, Is
  <2> QED BY <1>10, <2>1, <2>3, <2>4 DEF At, Is
<1>11. d = O!MergeSurvey(prior, source, new)
  BY <1>1 DEF d
<1> QED BY <1>8, <1>9, <1>10, <1>11

\* What a block of discovery.md is made of.
Leadings == UNION {{b[i] : i \in DOMAIN b} : b \in LeadSets}
BlockType == [source : Sources, lead : Leadings, round : 1 .. MaxRounds]

\* The copy a survey merges into is the inventory as it still is, and what it merges is
\* what its agent wrote in this round.
CopiesAreFresh ==
    /\ discovery \in Seq(BlockType)
    /\ \A o \in O!Ops : /\ job[o].round \in 0 .. MaxRounds
                        /\ job[o].pc # "idle" => job[o].round # 0
                        /\ job[o].pc # "idle" =>
                              job[o].wrote \in O!Artifact \/ O!Staged(o) = None
    /\ \A o \in O!Surveys :
         job[o].pc = "merge" => /\ job[o].copy = discovery
                                /\ job[o].read = job[o].wrote
                                /\ job[o].wrote \in O!Artifact /\ job[o].wrote.body \in LeadSets

\* A lookup finds each lead of a finalized survey.
LeadsAreFound ==
    \A o \in O!Surveys : committed[o] # None =>
        /\ committed[o] \in O!Artifact /\ committed[o].body \in LeadSets
        /\ LET new == O!Leads(o.source, committed[o])
           IN  \A i \in DOMAIN new :
                 \E j : At(discovery, j, o.source, new[i].lead) /\ discovery[j] = new[i]

LeadsInv == SourcesInv /\ CopiesAreFresh /\ LeadsAreFound

\* The leads of an artifact the schema accepts: blocks of the source, one for an id.
LEMMA LeadsAreBlocks ==
    ASSUME NEW o \in O!Surveys, NEW art \in O!Artifact, art.body \in LeadSets
    PROVE  LET new == O!Leads(o.source, art)
           IN  /\ new \in Seq(BlockType)
               /\ \A i \in DOMAIN new : new[i].source = o.source
               /\ \A i, j \in DOMAIN new : new[i].lead = new[j].lead => new[i] = new[j]
<1> DEFINE new == O!Leads(o.source, art)
           b == art.body
<1>1. b \in Seq({b[i] : i \in 1 .. Len(b)})
  BY SourceOpsAssumption
<1>2. Len(b) \in Nat /\ DOMAIN b = 1 .. Len(b)
  BY <1>1
<1>3. o.source \in Sources /\ art.round \in 1 .. MaxRounds
  BY DEF O!Surveys, O!Artifact
<1>4. new = [i \in 1 .. Len(b) |-> [source |-> o.source, lead |-> b[i], round |-> art.round]]
  BY <1>2 DEF O!Leads
<1>5. \A i \in 1 .. Len(b) : b[i] \in Leadings
  BY <1>2 DEF Leadings
<1>6. \A i \in 1 .. Len(b) : [source |-> o.source, lead |-> b[i], round |-> art.round] \in BlockType
  BY <1>3, <1>5 DEF BlockType
<1> HIDE DEF b
<1>7. new \in Seq(BlockType) /\ DOMAIN new = 1 .. Len(b)
  BY <1>2, <1>4, <1>6
<1>8. \A i \in 1 .. Len(b) : new[i] = [source |-> o.source, lead |-> b[i], round |-> art.round]
  BY <1>4
<1> HIDE DEF new
<1>9. \A i \in 1 .. Len(b) : new[i].source = o.source /\ new[i].lead = b[i] /\ new[i].round = art.round
  <2> TAKE i \in 1 .. Len(b)
  <2>1. new[i] = [source |-> o.source, lead |-> b[i], round |-> art.round]
    BY <1>8
  <2> QED BY <2>1
<1>10. \A i, j \in 1 .. Len(b) : new[i].lead = new[j].lead => new[i] = new[j]
  BY <1>8, <1>9
<1> QED BY <1>7, <1>9, <1>10 DEF new

\* Surveys of different lanes are of different sources.
LEMMA SurveysBySource ==
    ASSUME NEW o \in O!Surveys, NEW p \in O!Surveys, o # p
    PROVE  o.source # p.source /\ O!Interfere(o, p) /\ o \in O!Ops /\ p \in O!Ops
  BY DEF O!Surveys, O!Interfere, O!Ops

LEMMA LeadsInit == O!Init => LeadsInv
<1> SUFFICES ASSUME O!Init PROVE LeadsInv
  OBVIOUS
<1>1. SourcesInv
  BY SourcesInit
<1>2. CopiesAreFresh
  <2>1. discovery \in Seq(BlockType)
    BY DEF O!Init
  <2>2. \A o \in O!Ops : job[o] = O!IdleJob
    BY DEF O!Init
  <2>3. O!Surveys \subseteq O!Ops
    BY DEF O!Ops
  <2> QED BY <2>1, <2>2, <2>3, SourceOpsAssumption DEF CopiesAreFresh, O!IdleJob
<1>3. LeadsAreFound
  BY DEF O!Init, LeadsAreFound, O!Ops
<1> QED BY <1>1, <1>2, <1>3 DEF LeadsInv

\* No step but a save touches the inventory; and nobody saves beside a survey at work.
LEMMA CopiesStayFresh ==
    ASSUME Disciplined, LeadsInv, SourcesInv', NEW o \in O!Ops,
           \/ O!Prepare(o) \/ O!AgentWrites(o) \/ O!Refuse(o)
           \/ O!CommitEvidence(o) \/ O!LoadDiscovery(o) \/ O!SaveDiscovery(o)
    PROVE  CopiesAreFresh'
<1>0. SourcesTyped /\ LanesAreOwn /\ CopiesAreFresh /\ SourcesTyped' /\ LanesAreOwn'
  BY DEF SourcesInv, LeadsInv
<1>1. \A p \in O!Ops : p # o => job'[p] = job[p]
  BY <1>0 DEF O!Prepare, O!AgentWrites, O!Refuse, O!CommitEvidence, O!LoadDiscovery, O!SaveDiscovery, O!Return, SourcesTyped
<1>2. \A p \in O!Ops : O!Lane(p)' = O!Lane(p)
  BY DEF O!Lane, O!Prepare, O!AgentWrites, O!Refuse, O!CommitEvidence, O!LoadDiscovery, O!SaveDiscovery
<1>3. discovery' \in Seq(BlockType)
  <2>1. CASE O!SaveDiscovery(o)
    <3> DEFINE new == O!Leads(o.source, job[o].read)
    <3>1. o \in O!Surveys
      BY <1>0, <2>1 DEF O!SaveDiscovery, LanesAreOwn, O!Ops, O!Surveys, O!Extracts
    <3>2. job[o].copy \in Seq(BlockType) /\ job[o].read \in O!Artifact /\ job[o].read.body \in LeadSets
      BY <1>0, <2>1, <3>1 DEF O!SaveDiscovery, CopiesAreFresh
    <3>3. /\ new \in Seq(BlockType)
          /\ \A i \in DOMAIN new : new[i].source = o.source
          /\ \A i, j \in DOMAIN new : new[i].lead = new[j].lead => new[i] = new[j]
      BY <3>1, <3>2, LeadsAreBlocks
    <3> HIDE DEF new
    <3>4. O!MergeSurvey(job[o].copy, o.source, new) \in Seq(BlockType)
      BY <3>2, <3>3, MergeFinds
    <3> QED BY <2>1, <3>4 DEF O!SaveDiscovery, new
  <2>2. CASE ~ O!SaveDiscovery(o)
    BY <1>0, <2>2 DEF CopiesAreFresh, O!Prepare, O!AgentWrites, O!Refuse, O!CommitEvidence, O!LoadDiscovery
  <2> QED BY <2>1, <2>2
<1>4. ASSUME NEW p \in O!Ops
      PROVE  /\ job'[p].round \in 0 .. MaxRounds
             /\ job'[p].pc # "idle" => job'[p].round # 0
             /\ job'[p].pc # "idle" => job'[p].wrote \in O!Artifact \/ O!Staged(p)' = None
  <2>1. CASE p # o
    <3>1. job'[p] = job[p]
      BY <1>1, <2>1
    <3>2. CASE job[p].pc # "idle"
      <4>1. O!Staged(p)' \in {None, job[p].wrote}
        BY <1>0, <3>1, <3>2 DEF LanesAreOwn
      <4>2. O!Lane(p) # O!Lane(o) => O!Staged(p)' = O!Staged(p)
        <5>1. UNCHANGED adapter /\ (\/ UNCHANGED lanes
                                  \/ lanes' = [lanes EXCEPT ![O!Lane(o)] = O!EmptyLane]
                                  \/ \E art : lanes' = [lanes EXCEPT ![O!Lane(o)][o.kind] = art])
          BY <1>2 DEF O!Prepare, O!AgentWrites, O!Refuse, O!CommitEvidence, O!LoadDiscovery, O!SaveDiscovery
        <5>2. O!Lane(p)' = O!Lane(p)
          BY <5>1 DEF O!Lane
        <5>3. O!Lane(p) \in DOMAIN lanes
          BY <1>0, OpsHaveLanes
        <5>4. O!Lane(p) # O!Lane(o) => lanes'[O!Lane(p)] = lanes[O!Lane(p)]
          BY <5>1, <5>3
        <5> QED BY <5>2, <5>4 DEF O!Staged
      <4>3. O!Lane(p) = O!Lane(o) => O!Staged(p)' = O!Staged(p)
        <5> HAVE O!Lane(p) = O!Lane(o)
        <5>1. O!Interfere(o, p)
          BY <2>1 DEF O!Interfere
        <5>2. job[o].pc = "idle" /\ ~ O!Alone(o)
          BY <1>0, <3>2, <5>1 DEF LanesAreOwn, O!Alone
        <5> QED BY <5>2 DEF O!Prepare, O!AgentWrites, O!Refuse, O!CommitEvidence, O!LoadDiscovery, O!SaveDiscovery
      <4>4. job[p].wrote \in O!Artifact \/ O!Staged(p) = None
        BY <1>0, <3>2 DEF CopiesAreFresh
      <4> QED BY <1>0, <3>1, <4>2, <4>3, <4>4 DEF CopiesAreFresh
    <3>3. CASE job[p].pc = "idle"
      BY <1>0, <3>1, <3>3 DEF CopiesAreFresh
    <3> QED BY <3>2, <3>3
  <2>2. CASE p = o
    <3>0. job[o].round \in 0 .. MaxRounds /\ (job[o].pc # "idle" => job[o].round # 0) /\ MaxRounds \in Nat
      BY <1>0, SourceOpsAssumption DEF CopiesAreFresh
    <3>1. CASE O!Prepare(o)
      <4>1. job'[o].round = job[o].round + 1 /\ job[o].round < MaxRounds /\ job'[o].pc \in {"handed", "idle"}
        BY <1>0, <3>1 DEF O!Prepare, SourcesTyped, O!IdleJob
      <4>2. O!Staged(o)' = None
        BY <1>0, <1>2, <3>1, OpsHaveLanes DEF O!Prepare, O!Staged, O!EmptyLane, SourcesTyped
      <4> QED BY <2>2, <3>0, <4>1, <4>2
    <3>2. CASE O!AgentWrites(o)
      <4>0. job[o].pc = "handed" /\ job[o].round # 0
        BY <3>0, <3>2 DEF O!AgentWrites
      <4>1. job'[o].round = job[o].round /\ job[o].round # 0 /\ job[o].pc = "handed"
        <5>1. \/ \E art : job' = [job EXCEPT ![o].pc = "written", ![o].wrote = art]
              \/ job' = [job EXCEPT ![o].pc = "written"]
          BY <3>2 DEF O!AgentWrites
        <5>2. DOMAIN job = O!Ops /\ "round" \in DOMAIN job[o] /\ "pc" # "round" /\ "wrote" # "round"
          BY <1>0 DEF SourcesTyped
        <5>3. ASSUME job' = [job EXCEPT ![o].pc = "written"] PROVE job'[o].round = job[o].round
          BY <5>2, <5>3
        <5>4. ASSUME NEW art, job' = [job EXCEPT ![o].pc = "written", ![o].wrote = art]
              PROVE  job'[o].round = job[o].round
          BY <5>2, <5>4
        <5> QED BY <4>0, <5>1, <5>3, <5>4
      <4>2. job[o].wrote \in O!Artifact \/ O!Staged(o) = None
        BY <1>0, <4>1 DEF CopiesAreFresh
      <4>3. job'[o].wrote \in O!Artifact \/ O!Staged(o)' = None
        <5>1. ASSUME job' = [job EXCEPT ![o].pc = "written"], UNCHANGED lanes
              PROVE  job'[o].wrote = job[o].wrote /\ O!Staged(o)' = O!Staged(o)
          BY <1>0, <1>2, <5>1 DEF O!Staged, SourcesTyped
        <5>2. ASSUME NEW b \in LeadSets \cup {Invalid},
                     job' = [job EXCEPT ![o].pc = "written", ![o].wrote = [by |-> o, round |-> job[o].round, body |-> b]]
              PROVE  job'[o].wrote \in O!Artifact
          <6>1. job'[o].wrote = [by |-> o, round |-> job[o].round, body |-> b]
            BY <1>0, <5>2 DEF SourcesTyped
          <6>2. job[o].round \in 1 .. MaxRounds
            BY <3>0, <4>1
          <6> QED BY <6>1, <6>2 DEF O!Artifact
        <5> QED BY <3>2, <4>2, <5>1, <5>2 DEF O!AgentWrites
      <4> QED BY <2>2, <3>0, <4>1, <4>3
    <3>3. CASE O!Refuse(o) \/ O!CommitEvidence(o) \/ O!LoadDiscovery(o) \/ O!SaveDiscovery(o)
      <4>1. job[o].pc # "idle"
        BY <3>3 DEF O!Refuse, O!CommitEvidence, O!LoadDiscovery, O!SaveDiscovery
      <4>2. \/ job'[o].round = job[o].round
            \/ job[o].round < MaxRounds /\ job'[o].round = job[o].round + 1
        BY <1>0, <3>3 DEF O!Refuse, O!CommitEvidence, O!LoadDiscovery, O!SaveDiscovery, O!Return, O!IdleJob, SourcesTyped
      <4>3. job'[o].pc = "idle" \/ job'[o].wrote = job[o].wrote
        BY <1>0, <3>3 DEF O!Refuse, O!CommitEvidence, O!LoadDiscovery, O!SaveDiscovery, O!Return, O!IdleJob, SourcesTyped
      <4>4. O!Staged(o)' = O!Staged(o)
        BY <1>2, <3>3 DEF O!Refuse, O!CommitEvidence, O!LoadDiscovery, O!SaveDiscovery, O!Staged
      <4>5. job[o].wrote \in O!Artifact \/ O!Staged(o) = None
        BY <1>0, <4>1 DEF CopiesAreFresh
      <4> QED BY <2>2, <3>0, <4>1, <4>2, <4>3, <4>4, <4>5
    <3> QED BY <3>1, <3>2, <3>3
  <2> QED BY <2>1, <2>2
<1>5. ASSUME NEW p \in O!Surveys, job'[p].pc = "merge"
      PROVE  /\ job'[p].copy = discovery'
             /\ job'[p].read = job'[p].wrote
             /\ job'[p].wrote \in O!Artifact /\ job'[p].wrote.body \in LeadSets
  <2>0. p \in O!Ops
    BY DEF O!Ops
  <2>1. CASE p # o
    <3>1. job'[p] = job[p] /\ job[p].pc = "merge"
      BY <1>1, <1>5, <2>0, <2>1
    <3>2. ~ O!SaveDiscovery(o)
      <4> SUFFICES ASSUME O!SaveDiscovery(o) PROVE FALSE
        OBVIOUS
      <4>1. o \in O!Surveys /\ job[o].pc = "merge"
        BY <1>0 DEF O!SaveDiscovery, LanesAreOwn, O!Ops, O!Surveys, O!Extracts
      <4>2. O!Interfere(o, p)
        BY <2>1, <4>1, SurveysBySource
      <4> QED BY <1>0, <2>0, <3>1, <4>1, <4>2 DEF LanesAreOwn
    <3>3. discovery' = discovery
      BY <3>2 DEF O!Prepare, O!AgentWrites, O!Refuse, O!CommitEvidence, O!LoadDiscovery
    <3> QED BY <1>0, <3>1, <3>3 DEF CopiesAreFresh
  <2>2. CASE p = o
    <3>1. O!LoadDiscovery(o)
      <4>0. o \in DOMAIN job /\ DOMAIN job[o] = {"pc", "round", "wrote", "read", "copy"}
        BY <1>0 DEF SourcesTyped
      <4>1. O!AgentWrites(o) => job'[o].pc = "written"
        BY <4>0 DEF O!AgentWrites
      <4>2. O!Prepare(o) => job'[o].pc \in {"handed", "idle"}
        BY <1>0 DEF O!Prepare, O!IdleJob, SourcesTyped
      <4>3. O!Refuse(o) \/ O!CommitEvidence(o) \/ O!SaveDiscovery(o) => job'[o].pc \in {"handed", "idle"}
        BY <1>0 DEF O!Refuse, O!CommitEvidence, O!SaveDiscovery, O!Return, O!IdleJob, SourcesTyped
      <4> QED BY <1>5, <2>2, <4>1, <4>2, <4>3
    <3>2. /\ job'[o].copy = discovery /\ discovery' = discovery
          /\ job'[o].read = O!Staged(o) /\ job'[o].wrote = job[o].wrote
          /\ job[o].pc = "written" /\ O!Staged(o) # None /\ O!Staged(o).body # Invalid
      BY <1>0, <3>1 DEF O!LoadDiscovery, O!Valid, SourcesTyped
    <3>3. O!Staged(o) = job[o].wrote /\ job[o].wrote \in O!Artifact
      BY <1>0, <3>2 DEF LanesAreOwn, CopiesAreFresh
    <3>4. job[o].wrote.body \in LeadSets
      BY <3>2, <3>3 DEF O!Artifact
    <3> QED BY <2>2, <3>2, <3>3, <3>4
  <2> QED BY <2>1, <2>2
<1> QED BY <1>3, <1>4, <1>5 DEF CopiesAreFresh

LEMMA LeadsStayFound ==
    ASSUME Disciplined, LeadsInv, NEW o \in O!Ops,
           \/ O!Prepare(o) \/ O!AgentWrites(o) \/ O!Refuse(o)
           \/ O!CommitEvidence(o) \/ O!LoadDiscovery(o) \/ O!SaveDiscovery(o)
    PROVE  LeadsAreFound'
<1>0. SourcesTyped /\ LanesAreOwn /\ CopiesAreFresh /\ LeadsAreFound
  BY DEF SourcesInv, LeadsInv
<1>1. CASE O!SaveDiscovery(o)
  <2> DEFINE new == O!Leads(o.source, job[o].wrote)
  <2>1. o \in O!Surveys
    BY <1>0, <1>1 DEF O!SaveDiscovery, LanesAreOwn, O!Ops, O!Surveys, O!Extracts
  <2>2. /\ job[o].copy = discovery /\ job[o].read = job[o].wrote /\ discovery \in Seq(BlockType)
        /\ job[o].wrote \in O!Artifact /\ job[o].wrote.body \in LeadSets
    BY <1>0, <1>1, <2>1 DEF O!SaveDiscovery, CopiesAreFresh
  <2>3. /\ new \in Seq(BlockType)
        /\ \A i \in DOMAIN new : new[i].source = o.source
        /\ \A i, j \in DOMAIN new : new[i].lead = new[j].lead => new[i] = new[j]
    BY <2>1, <2>2, LeadsAreBlocks
  <2>4. discovery' = O!MergeSurvey(discovery, o.source, new)
    BY <1>1, <2>2 DEF O!SaveDiscovery
  <2>5. committed' = [committed EXCEPT ![o] = job[o].wrote]
    BY <1>1 DEF O!SaveDiscovery, O!Commit
  <2> HIDE DEF new
  <2>6. /\ \A i \in DOMAIN new : \E j : At(discovery', j, o.source, new[i].lead) /\ discovery'[j] = new[i]
        /\ \A s, id, j : s # o.source /\ At(discovery, j, s, id) => At(discovery', j, s, id) /\ discovery'[j] = discovery[j]
    BY <2>2, <2>3, <2>4, MergeFinds
  <2>7. ASSUME NEW p \in O!Surveys, committed'[p] # None
        PROVE  /\ committed'[p] \in O!Artifact /\ committed'[p].body \in LeadSets
               /\ LET brought == O!Leads(p.source, committed'[p])
                  IN  \A i \in DOMAIN brought :
                        \E j : At(discovery', j, p.source, brought[i].lead) /\ discovery'[j] = brought[i]
    <3>1. CASE p = o
      <4>1. committed'[p] = job[o].wrote
        BY <1>0, <2>5, <3>1 DEF SourcesTyped
      <4> QED BY <2>2, <2>6, <3>1, <4>1 DEF new
    <3>2. CASE p # o
      <4>1. committed'[p] = committed[p] /\ p.source # o.source
        BY <1>0, <2>1, <2>5, <3>2, SurveysBySource DEF SourcesTyped
      <4> QED BY <1>0, <2>6, <2>7, <4>1 DEF LeadsAreFound
    <3> QED BY <3>1, <3>2
  <2> QED BY <2>7 DEF LeadsAreFound
<1>2. CASE O!CommitEvidence(o)
  <2>1. \A p \in O!Surveys : committed'[p] = committed[p]
    BY <1>0, <1>2 DEF O!CommitEvidence, O!Commit, O!Surveys, SourcesTyped, O!Ops
  <2>2. discovery' = discovery
    BY <1>2 DEF O!CommitEvidence
  <2> QED BY <1>0, <2>1, <2>2 DEF LeadsAreFound
<1>3. CASE O!Prepare(o) \/ O!AgentWrites(o) \/ O!Refuse(o) \/ O!LoadDiscovery(o)
  <2>1. discovery' = discovery /\ committed' = committed
    BY <1>3 DEF O!Prepare, O!AgentWrites, O!Refuse, O!LoadDiscovery
  <2> QED BY <1>0, <2>1 DEF LeadsAreFound
<1> QED BY <1>1, <1>2, <1>3

LEMMA LeadsStep == Disciplined /\ LeadsInv /\ [O!Next]_(O!vars) => LeadsInv'
<1> SUFFICES ASSUME Disciplined, LeadsInv, [O!Next]_(O!vars) PROVE LeadsInv'
  OBVIOUS
<1>1. SourcesInv'
  BY SourcesStep DEF LeadsInv
<1>2. CASE UNCHANGED O!vars
  BY <1>1, <1>2 DEF O!vars, LeadsInv, CopiesAreFresh, LeadsAreFound, O!Lane, O!Staged
<1>3. ASSUME NEW o \in O!Ops,
             \/ O!Prepare(o) \/ O!AgentWrites(o) \/ O!Refuse(o)
             \/ O!CommitEvidence(o) \/ O!LoadDiscovery(o) \/ O!SaveDiscovery(o)
      PROVE  LeadsInv'
  BY <1>1, <1>3, CopiesStayFresh, LeadsStayFound DEF LeadsInv
<1> QED BY <1>2, <1>3 DEF O!Next

LEMMA LeadsHold == LeadsInv => O!LeadsAreKept
<1> SUFFICES ASSUME LeadsInv, NEW o \in O!Surveys, committed[o] # None
             PROVE  /\ committed[o] # Nothing
                    /\ LET new == O!Leads(o.source, committed[o])
                       IN  \A i \in DOMAIN new :
                             LET j == First(discovery, o.source, new[i].lead)
                             IN  j # 0 /\ discovery[j] = new[i]
  BY DEF O!LeadsAreKept, First
<1>1. committed[o] \in O!Artifact /\ discovery \in Seq(BlockType)
  BY DEF LeadsInv, LeadsAreFound, CopiesAreFresh
<1>2. committed[o] # Nothing
  BY <1>1, SourceOpsAssumption
<1> DEFINE new == O!Leads(o.source, committed[o])
<1>3. ASSUME NEW i \in DOMAIN new
      PROVE  LET j == First(discovery, o.source, new[i].lead) IN j # 0 /\ discovery[j] = new[i]
  <2> DEFINE f == First(discovery, o.source, new[i].lead)
  <2>1. PICK j : At(discovery, j, o.source, new[i].lead) /\ discovery[j] = new[i]
    BY <1>3 DEF LeadsInv, LeadsAreFound
  <2> HIDE DEF new
  <2>2. Len(discovery) \in Nat
    BY <1>1
  <2>3. \/ f = 0 /\ \A k \in 1 .. Len(discovery) : ~ Is(discovery[k], o.source, new[i].lead)
        \/ f # 0 /\ At(discovery, f, o.source, new[i].lead)
    BY <2>2, FirstThere
  <2> HIDE DEF f
  <2>4. f # 0 /\ At(discovery, f, o.source, new[i].lead)
    BY <2>1, <2>3 DEF At
  <2>5. f = j
    <3>1. j \in 1 .. Len(discovery) /\ f \in 1 .. Len(discovery)
      BY <2>1, <2>4 DEF At
    <3>2. ~ (f < j) /\ ~ (j < f)
      <4>1. f < j => f \in 1 .. j - 1
        BY <2>2, <3>1
      <4>2. j < f => j \in 1 .. f - 1
        BY <2>2, <3>1
      <4> QED BY <2>1, <2>4, <4>1, <4>2 DEF At
    <3> QED BY <2>2, <3>1, <3>2
  <2> QED BY <2>1, <2>4, <2>5 DEF f
<1> QED BY <1>2, <1>3

(***************************************************************************)
(* As long as callers run one operation of a lane and one survey at a      *)
(* time, discovery.md holds for every source each lead of its last survey  *)
(* whose finalize wrote it, as that survey has it: no merge of another     *)
(* source loses or changes one, whatever ids the sources share, and no     *)
(* finalize that fails before the write does.                              *)
(***************************************************************************)
THEOREM NoLeadIsLost ==
    ASSUME Disciplined
    PROVE  PartsSpec => []LeadsAreKept
<1> DEFINE Inv == part = "sources" => LeadsInv
<1>1. PartsInit => Inv
  BY SourcesPart, LeadsInit
<1>2. Inv /\ [PartsNext]_allVars => Inv'
  BY SourcesPart, LeadsStep
<1>3. Inv => LeadsAreKept
  BY LeadsHold DEF LeadsAreKept
<1> QED BY <1>1, <1>2, <1>3, PTL DEF PartsSpec

-----------------------------------------------------------------------------
(***************************************************************************)
(* SpecBaseline: deltas merged into one baseline.                          *)
(***************************************************************************)
\* The elements of a list are of its type.
LEMMA ElementsTyped ==
    ASSUME NEW Item, NEW list \in Seq(Item)
    PROVE  /\ Len(list) \in Nat /\ DOMAIN list = 1 .. Len(list)
           /\ \A i \in DOMAIN list : list[i] \in Item
OBVIOUS

\* A list of entries finds the last one of an id, if it has one.
LEMMA LastThere ==
    ASSUME NEW Item, NEW list \in Seq(Item), NEW id, \E i \in DOMAIN list : list[i].id = id
    PROVE  /\ B!LastIndex(list, id) \in DOMAIN list
           /\ list[B!LastIndex(list, id)].id = id
           /\ \A j \in DOMAIN list : list[j].id = id => j <= B!LastIndex(list, id)
<1> DEFINE n == Len(list)
           Hits == {n - i : i \in {k \in 1 .. n : list[k].id = id}}
<1>1. n \in Nat /\ DOMAIN list = 1 .. n
  OBVIOUS
<1>2. Hits \in SUBSET Nat /\ Hits # {}
  BY <1>1
<1>3. PICK m \in Hits : \A k \in Hits : m <= k
  BY <1>2, LeastNatural
<1>4. PICK i \in {k \in 1 .. n : list[k].id = id} : m = n - i
  BY <1>3
<1>5. i \in DOMAIN list /\ list[i].id = id
  BY <1>1, <1>4
<1>6. \A j \in DOMAIN list : list[j].id = id => j <= i
  <2> TAKE j \in DOMAIN list
  <2> HAVE list[j].id = id
  <2>1. n - j \in Hits /\ j \in Nat /\ i \in Nat
    BY <1>1, <1>4
  <2>2. n - i <= n - j
    BY <1>3, <1>4, <2>1
  <2> QED BY <1>1, <2>1, <2>2
<1> QED BY <1>5, <1>6 DEF B!LastIndex

\* What a delta makes of a block.
Edit(r, d) ==
    IF B!Has(d.modified, r.id) THEN B!Last(d.modified, r.id)
    ELSE IF B!Has(d.renamed, r.id) THEN [r EXCEPT !.name = B!Last(d.renamed, r.id).name]
    ELSE r

\* It is a block of the same id; the last one that says what it is, for good.
LEMMA EditKeepsId ==
    ASSUME NEW d \in B!DeltaSpec, NEW r \in B!Requirement
    PROVE  /\ Edit(r, d) \in B!Requirement /\ Edit(r, d).id = r.id
           /\ Edit(Edit(r, d), d) = Edit(r, d)
           /\ ~ B!Has(d.modified, r.id) /\ ~ B!Has(d.renamed, r.id) => Edit(r, d) = r
<1>0. d.modified \in Seq(B!Requirement) /\ d.renamed \in Seq([id : Ids, name : ReqNames])
  BY DEF B!DeltaSpec
<1>1. CASE B!Has(d.modified, r.id)
  <2>1. B!LastIndex(d.modified, r.id) \in DOMAIN d.modified /\ B!Last(d.modified, r.id).id = r.id
    BY <1>0, <1>1, LastThere DEF B!Has, B!Last
  <2>2. B!Last(d.modified, r.id) \in B!Requirement
    BY <1>0, <2>1 DEF B!Last
  <2> QED BY <1>1, <2>1, <2>2 DEF Edit
<1>2. CASE ~ B!Has(d.modified, r.id) /\ B!Has(d.renamed, r.id)
  <2> DEFINE x == B!Last(d.renamed, r.id).name
             q == [r EXCEPT !.name = x]
  <2>1. B!LastIndex(d.renamed, r.id) \in DOMAIN d.renamed
    BY <1>0, <1>2, LastThere DEF B!Has
  <2>2. x \in ReqNames
    <3>1. \A i \in DOMAIN d.renamed : d.renamed[i] \in [id : Ids, name : ReqNames]
      BY <1>0, ElementsTyped
    <3>2. \A i \in DOMAIN d.renamed : d.renamed[i].name \in ReqNames
      BY <3>1
    <3> QED BY <2>1, <3>2 DEF B!Last
  <2>3. Edit(r, d) = q
    BY <1>2 DEF Edit
  <2>4. q \in B!Requirement /\ q.id = r.id /\ [q EXCEPT !.name = x] = q
    <3> HIDE DEF x
    <3> QED BY <2>2 DEF B!Requirement
  <2>5. Edit(q, d) = [q EXCEPT !.name = B!Last(d.renamed, q.id).name]
    <3> HIDE DEF q
    <3> QED BY <1>2, <2>4 DEF Edit
  <2> HIDE DEF q
  <2> QED BY <1>2, <2>3, <2>4, <2>5
<1>3. CASE ~ B!Has(d.modified, r.id) /\ ~ B!Has(d.renamed, r.id)
  BY <1>3 DEF Edit
<1> QED BY <1>1, <1>2, <1>3

\* The blocks a merge filters: those there were, edited, and those that are added.
Line(b, d) == [i \in DOMAIN b |-> Edit(b[i], d)] \o d.added
Staying(b, d) == {i \in DOMAIN Line(b, d) : ~ B!Has(d.removed, Line(b, d)[i].id)}

LEMMA AppliedIs ==
    ASSUME NEW s \in B!Spec, B!Coherent(s), NEW d \in B!DeltaSpec
    PROVE  LET b == s.blocks
               n == Len(b)
               m == Len(d.added)
           IN  /\ B!Applied(b, d) = Select(Line(b, d), Staying(b, d))
               /\ n \in Nat /\ m \in Nat /\ DOMAIN b = 1 .. n /\ DOMAIN d.added = 1 .. m
               /\ Line(b, d) \in Seq(B!Requirement) /\ Len(Line(b, d)) = n + m
               /\ \A i \in 1 .. n : Line(b, d)[i] = Edit(b[i], d) /\ b[i] \in B!Requirement
               /\ \A i \in 1 .. m : Line(b, d)[n + i] = d.added[i]
               /\ Staying(b, d) \in SUBSET (1 .. n + m)
<1> DEFINE b == s.blocks
           e == [i \in DOMAIN b |-> Edit(b[i], d)]
<1>1. b \in Seq(B!Requirement) /\ d.added \in Seq(B!Requirement)
  BY DEF B!Spec, B!DeltaSpec
<1>2. Len(b) \in Nat /\ DOMAIN b = 1 .. Len(b) /\ \A i \in DOMAIN b : b[i] \in B!Requirement
  BY <1>1
<1>3. e = [i \in DOMAIN b |-> B!Edited(b, d, i)]
  <2>1. \A i \in DOMAIN b : b[i].id # NoId /\ B!LastIndex(b, b[i].id) = i
    <3> TAKE i \in DOMAIN b
    <3>1. b[i].id \in Ids
      BY DEF B!Coherent
    <3>2. B!LastIndex(b, b[i].id) \in DOMAIN b /\ b[B!LastIndex(b, b[i].id)].id = b[i].id
      BY <1>1, LastThere
    <3>3. \A j, k \in DOMAIN b : j < k => b[j].id # b[k].id
      BY DEF B!Coherent
    <3> DEFINE l == B!LastIndex(b, b[i].id)
    <3>4. l \in 1 .. Len(b) /\ i \in 1 .. Len(b) /\ ~ (l < i) /\ ~ (i < l)
      BY <1>2, <3>2, <3>3
    <3> HIDE DEF l
    <3>5. l = i
      BY <1>2, <3>4
    <3> QED BY <3>1, <3>5, SpecBaselineAssumption DEF l
  <2>2. \A i \in DOMAIN b : B!Edited(b, d, i) = Edit(b[i], d)
    BY <2>1 DEF B!Edited, Edit
  <2> HIDE DEF b
  <2> QED BY <2>2
<1>4. e \in Seq(B!Requirement) /\ Len(e) = Len(b) /\ \A i \in 1 .. Len(b) : e[i] = Edit(b[i], d)
  <2>1. \A i \in DOMAIN b : Edit(b[i], d) \in B!Requirement
    BY <1>2, EditKeepsId
  <2> HIDE DEF b
  <2>2. e \in [1 .. Len(b) -> B!Requirement]
    BY <1>2, <2>1
  <2>3. \A i \in 1 .. Len(b) : e[i] = Edit(b[i], d)
    BY <1>2
  <2>4. e \in Seq(B!Requirement) /\ Len(e) = Len(b)
    BY <1>2, <2>2
  <2> QED BY <2>3, <2>4
<1>5. Line(b, d) = e \o d.added
  BY DEF Line
<1>6. B!Applied(b, d) = Select(Line(b, d), Staying(b, d))
  <2>1. B!Applied(b, d) = B!Select(Line(b, d), Staying(b, d))
    BY <1>3, <1>5 DEF B!Applied, B!Filtered, Staying
  <2> QED BY <2>1, SameSelect
<1> HIDE DEF e, b
<1>7. /\ Line(b, d) \in Seq(B!Requirement) /\ Len(Line(b, d)) = Len(e) + Len(d.added)
      /\ Len(d.added) \in Nat /\ DOMAIN d.added = 1 .. Len(d.added)
      /\ DOMAIN Line(b, d) = 1 .. Len(e) + Len(d.added)
      /\ \A j \in 1 .. Len(e) : Line(b, d)[j] = e[j]
      /\ \A j \in 1 .. Len(d.added) : Line(b, d)[Len(e) + j] = d.added[j]
  <2>1. e \in Seq(B!Requirement)
    BY <1>4
  <2>2. /\ e \o d.added \in Seq(B!Requirement) /\ Len(e \o d.added) = Len(e) + Len(d.added)
        /\ Len(d.added) \in Nat /\ DOMAIN d.added = 1 .. Len(d.added)
        /\ DOMAIN (e \o d.added) = 1 .. Len(e) + Len(d.added)
    BY <1>1, <2>1, Concatenated
  <2>3. \A j \in 1 .. Len(e) : (e \o d.added)[j] = e[j]
    BY <1>1, <2>1, Concatenated
  <2>4. \A j \in 1 .. Len(d.added) : (e \o d.added)[Len(e) + j] = d.added[j]
    BY <1>1, <2>1, Concatenated
  <2> QED BY <1>5, <2>2, <2>3, <2>4
<1>8. Staying(b, d) \in SUBSET (1 .. Len(b) + Len(d.added))
  BY <1>4, <1>7 DEF Staying
<1> QED BY <1>2, <1>4, <1>6, <1>7, <1>8 DEF b

Elements(list) == {list[i] : i \in DOMAIN list}
Gone(d, id) == B!Has(d.removed, id)

(***************************************************************************)
(* A merge into a baseline that holds something, as sets of blocks.        *)
(***************************************************************************)
LEMMA MergedIs ==
    ASSUME NEW s \in B!Spec, B!Coherent(s), s # B!EmptySpec, NEW d \in B!DeltaSpec, NEW t \in B!Merged(s, d)
    PROVE  /\ t \in B!Spec /\ B!Coherent(t) /\ ~ B!Conflicts(s.blocks, d)
           /\ t.preamble = s.preamble
           /\ t.blocks = Select(Line(s.blocks, d), Staying(s.blocks, d))
           /\ B!Blocks(t) = {Edit(r, d) : r \in {q \in B!Blocks(s) : ~ Gone(d, q.id)}}
                            \cup {a \in Elements(d.added) : ~ Gone(d, a.id)}
<1> DEFINE b == s.blocks
           n == Len(b)
           m == Len(d.added)
           line == Line(b, d)
           Picked == Staying(b, d)
<1>1. /\ B!Applied(b, d) = Select(line, Picked)
      /\ n \in Nat /\ m \in Nat /\ DOMAIN b = 1 .. n /\ DOMAIN d.added = 1 .. m
      /\ line \in Seq(B!Requirement) /\ Len(line) = n + m
      /\ \A i \in 1 .. n : line[i] = Edit(b[i], d) /\ b[i] \in B!Requirement
      /\ \A i \in 1 .. m : line[n + i] = d.added[i]
      /\ Picked \in SUBSET (1 .. n + m)
  BY AppliedIs
<1> HIDE DEF n, m
<1>n. n \in Nat /\ m \in Nat
  BY <1>1
<1>s. Picked \in SUBSET (1 .. n + m)
  BY <1>1
<1>l. DOMAIN line = 1 .. n + m
  <2> HIDE DEF line
  <2>1. line \in Seq(B!Requirement) /\ Len(line) = n + m
    BY <1>1
  <2> QED BY <2>1
<1>2. B!Coherent(t) /\ ~ B!Conflicts(b, d) /\ t = [s EXCEPT !.blocks = B!Applied(b, d)]
  BY DEF B!Merged, B!Merge
<1>3. /\ Select(line, Picked) \in Seq(B!Requirement) /\ Len(Select(line, Picked)) = Cardinality(Picked)
      /\ \A k \in 1 .. Cardinality(Picked) : \E i \in Picked : Select(line, Picked)[k] = line[i]
      /\ \A i \in Picked : \E k \in 1 .. Cardinality(Picked) : Select(line, Picked)[k] = line[i]
  <2> HIDE DEF line, Picked
  <2>0. line \in Seq(B!Requirement) /\ Len(line) = n + m
    BY <1>1
  <2>1. Len(line) \in Nat /\ Picked \in SUBSET (1 .. Len(line))
    BY <1>n, <1>s, <2>0
  <2> QED BY <2>0, <2>1, SelectHolds
<1>4. s \in [preamble : BOOLEAN, blocks : Seq(B!Requirement)]
  BY DEF B!Spec
<1>5. t.blocks = Select(line, Picked) /\ t.preamble = s.preamble /\ t \in B!Spec
  <2> HIDE DEF line, Picked
  <2>1. t = [s EXCEPT !.blocks = Select(line, Picked)]
    BY <1>1, <1>2
  <2> QED BY <1>3, <1>4, <2>1 DEF B!Spec
<1>6. B!Blocks(t) = {line[i] : i \in Picked}
  <2> HIDE DEF line, Picked
  <2>1. DOMAIN t.blocks = 1 .. Cardinality(Picked)
    BY <1>3, <1>5
  <2> DEFINE u == Select(line, Picked)
  <2>2. /\ \A k \in 1 .. Cardinality(Picked) : \E i \in Picked : u[k] = line[i]
        /\ \A i \in Picked : \E k \in 1 .. Cardinality(Picked) : u[k] = line[i]
    BY <1>3
  <2>3. B!Blocks(t) = {u[k] : k \in 1 .. Cardinality(Picked)}
    BY <1>5, <2>1 DEF B!Blocks
  <2> HIDE DEF u
  <2> QED BY <2>2, <2>3
<1>7. \A i \in 1 .. n + m : i \in Picked <=> ~ Gone(d, line[i].id)
  BY <1>l DEF Staying, Gone
<1>8. \A i \in 1 .. n : line[i].id = b[i].id
  BY <1>1, EditKeepsId
<1> DEFINE Old == {Edit(r, d) : r \in {q \in B!Blocks(s) : ~ Gone(d, q.id)}}
           New == {a \in Elements(d.added) : ~ Gone(d, a.id)}
<1>9. \A x \in {line[i] : i \in Picked} : x \in Old \cup New
  <2> HIDE DEF line, Picked
  <2> TAKE x \in {line[i] : i \in Picked}
  <2>1. PICK i \in Picked : x = line[i]
    OBVIOUS
  <2>2. CASE i \in 1 .. n
    BY <1>1, <1>7, <1>8, <2>1, <2>2 DEF B!Blocks
  <2>3. CASE i \notin 1 .. n
    <3>1. i - n \in 1 .. m /\ i = n + (i - n) /\ i \in 1 .. n + m
      BY <1>n, <1>s, <2>3
    <3>2. x = d.added[i - n] /\ ~ Gone(d, x.id)
      BY <1>1, <1>7, <2>1, <3>1
    <3>3. x \in Elements(d.added)
      BY <1>1, <3>1, <3>2 DEF Elements
    <3> QED BY <3>2, <3>3
  <2> QED BY <2>2, <2>3
<1>10. \A x \in Old \cup New : x \in {line[i] : i \in Picked}
  <2> HIDE DEF line, Picked
  <2>1. ASSUME NEW x \in Old PROVE x \in {line[i] : i \in Picked}
    <3>1. PICK r \in B!Blocks(s) : ~ Gone(d, r.id) /\ x = Edit(r, d)
      OBVIOUS
    <3>2. PICK i \in 1 .. n : r = b[i]
      BY <1>1, <3>1 DEF B!Blocks
    <3>3. i \in 1 .. n + m
      BY <1>n
    <3>4. i \in Picked /\ x = line[i]
      BY <1>1, <1>7, <1>8, <3>1, <3>2, <3>3
    <3> QED BY <3>4
  <2>2. ASSUME NEW x \in New PROVE x \in {line[i] : i \in Picked}
    <3>1. PICK i \in 1 .. m : x = d.added[i]
      BY <1>1 DEF Elements
    <3>2. n + i \in 1 .. n + m
      BY <1>n
    <3>3. n + i \in Picked /\ x = line[n + i]
      BY <1>1, <1>7, <3>1, <3>2
    <3> QED BY <3>3
  <2> QED BY <2>1, <2>2
<1>11. B!Blocks(t) = Old \cup New
  <2> HIDE DEF Old, New, line, Picked
  <2> QED BY <1>6, <1>9, <1>10
<1> QED BY <1>2, <1>5, <1>11

\* A merge into an empty baseline, by sections.
LEMMA MergedFirst ==
    ASSUME NEW d \in B!DeltaSpec, NEW t \in B!Merged(B!EmptySpec, d)
    PROVE  /\ t \in B!Spec /\ B!Coherent(t)
           /\ d.headers => t = [B!EmptySpec EXCEPT !.blocks = d.added] /\ t.preamble = FALSE
                           /\ t.blocks = d.added /\ B!Blocks(t) = Elements(d.added)
           /\ ~ d.headers => t = d.plain
<1>1. B!Coherent(t) /\ t = IF d.headers THEN [B!EmptySpec EXCEPT !.blocks = d.added] ELSE d.plain
  BY DEF B!Merged, B!Merge
<1>2. d.added \in Seq(B!Requirement) /\ d.plain \in B!Spec
  BY DEF B!DeltaSpec
<1>3. CASE d.headers
  <2>1. t = [B!EmptySpec EXCEPT !.blocks = d.added]
    BY <1>1, <1>3
  <2>2. t.preamble = FALSE /\ t.blocks = d.added /\ t = [preamble |-> FALSE, blocks |-> d.added]
    BY <2>1 DEF B!EmptySpec
  <2>3. t \in B!Spec
    BY <1>2, <2>2 DEF B!Spec
  <2>4. B!Blocks(t) = Elements(d.added)
    BY <2>2 DEF B!Blocks, Elements
  <2> QED BY <1>1, <1>3, <2>1, <2>2, <2>3, <2>4
<1>4. CASE ~ d.headers
  BY <1>1, <1>2, <1>4
<1> QED BY <1>3, <1>4

\* A spec is empty if it has no prose and no block.
LEMMA EmptyIs ==
    ASSUME NEW s \in B!Spec
    PROVE  s = B!EmptySpec <=> ~ s.preamble /\ B!Blocks(s) = {}
<1>1. s \in [preamble : BOOLEAN, blocks : Seq(B!Requirement)]
  BY DEF B!Spec
<1>2. B!Blocks(s) = {} <=> s.blocks = <<>>
  <2>1. s.blocks \in Seq(B!Requirement)
    BY <1>1
  <2>2. ASSUME NEW q \in Seq(B!Requirement) PROVE DOMAIN q = {} <=> q = <<>>
    <3>1. Len(q) \in Nat /\ DOMAIN q = 1 .. Len(q)
      OBVIOUS
    <3>2. DOMAIN q = {} => Len(q) = 0
      BY <3>1
    <3>3. Len(q) = 0 => q = <<>>
      OBVIOUS
    <3> QED BY <3>1, <3>2, <3>3
  <2>3. DOMAIN s.blocks = {} <=> s.blocks = <<>>
    BY <2>1, <2>2
  <2> QED BY <2>3 DEF B!Blocks
<1>3. s = [preamble |-> s.preamble, blocks |-> s.blocks]
  BY <1>1
<1>4. s = B!EmptySpec <=> s.preamble = FALSE /\ s.blocks = <<>>
  BY <1>3 DEF B!EmptySpec
<1> QED BY <1>1, <1>2, <1>4

\* What blocks and deltas are made of.
LEMMA PartsTyped ==
    /\ \A s \in B!Spec : B!Blocks(s) \subseteq B!Requirement
    /\ \A d \in B!DeltaSpec : Elements(d.added) \subseteq B!Requirement
<1>1. ASSUME NEW s \in B!Spec PROVE B!Blocks(s) \subseteq B!Requirement
  <2>1. s.blocks \in Seq(B!Requirement)
    BY DEF B!Spec
  <2> QED BY <2>1, ElementsTyped DEF B!Blocks
<1>2. ASSUME NEW d \in B!DeltaSpec PROVE Elements(d.added) \subseteq B!Requirement
  <2>1. d.added \in Seq(B!Requirement)
    BY DEF B!DeltaSpec
  <2> QED BY <2>1, ElementsTyped DEF Elements
<1> QED BY <1>1, <1>2

\* A delta leaves alone what it does not name.
LEMMA UnnamedStays ==
    ASSUME NEW d \in B!DeltaSpec, NEW r \in B!Requirement, r.id \notin B!Named(d)
    PROVE  ~ Gone(d, r.id) /\ Edit(r, d) = r
<1>1. ~ B!Has(d.removed, r.id) /\ ~ B!Has(d.modified, r.id) /\ ~ B!Has(d.renamed, r.id)
  BY DEF B!Named, B!IdsOf, B!Has
<1> QED BY <1>1, EditKeepsId DEF Gone

\* What it adds it names, and what it removes.
LEMMA NamedAre ==
    ASSUME NEW d
    PROVE  /\ \A a \in Elements(d.added) : a.id \in B!Named(d)
           /\ \A id : Gone(d, id) => id \in B!Named(d)
  BY DEF B!Named, B!IdsOf, B!Has, Gone, Elements

\* What it removes is in the baseline, or it is refused.
LEMMA GoneWasThere ==
    ASSUME NEW s, NEW d, ~ B!Conflicts(s.blocks, d), NEW id, Gone(d, id)
    PROVE  \E r \in B!Blocks(s) : r.id = id
<1>1. PICK i \in DOMAIN d.removed : d.removed[i].id = id
  BY DEF Gone, B!Has
<1>2. B!Has(s.blocks, d.removed[i].id)
  BY DEF B!Conflicts
<1> QED BY <1>1, <1>2 DEF B!Has, B!Blocks

\* What is left of the added blocks, and of the others after two deltas.
Adds(d) == {a \in Elements(d.added) : ~ Gone(d, a.id)}
Both(s, d, e) ==
    {Edit(Edit(r, d), e) : r \in {q \in B!Blocks(s) : ~ Gone(d, q.id) /\ ~ Gone(e, q.id)}}

LEMMA BothCommute ==
    ASSUME NEW s \in B!Spec, NEW d \in B!DeltaSpec, NEW e \in B!DeltaSpec, B!Named(d) \cap B!Named(e) = {}
    PROVE  Both(s, d, e) = Both(s, e, d)
<1>1. ASSUME NEW r \in B!Blocks(s) PROVE Edit(Edit(r, d), e) = Edit(Edit(r, e), d)
  <2>0. r \in B!Requirement
    BY PartsTyped
  <2>1. /\ Edit(r, d) \in B!Requirement /\ Edit(r, d).id = r.id
        /\ Edit(r, e) \in B!Requirement /\ Edit(r, e).id = r.id
    BY <2>0, EditKeepsId
  <2>2. CASE r.id \notin B!Named(d)
    <3>1. Edit(r, d) = r
      BY <2>0, <2>2, UnnamedStays
    <3>2. Edit(Edit(r, e), d) = Edit(r, e)
      BY <2>1, <2>2, UnnamedStays
    <3> QED BY <3>1, <3>2
  <2>3. CASE r.id \notin B!Named(e)
    <3>1. Edit(r, e) = r
      BY <2>0, <2>3, UnnamedStays
    <3>2. Edit(Edit(r, d), e) = Edit(r, d)
      BY <2>1, <2>3, UnnamedStays
    <3> QED BY <3>1, <3>2
  <2> QED BY <2>2, <2>3
<1> DEFINE R == {q \in B!Blocks(s) : ~ Gone(d, q.id) /\ ~ Gone(e, q.id)}
<1>2. R = {q \in B!Blocks(s) : ~ Gone(e, q.id) /\ ~ Gone(d, q.id)}
  OBVIOUS
<1>3. \A r \in R : Edit(Edit(r, d), e) = Edit(Edit(r, e), d)
  BY <1>1
<1>4. Both(s, d, e) = {Edit(Edit(r, d), e) : r \in R} /\ Both(s, e, d) = {Edit(Edit(r, e), d) : r \in R}
  BY <1>2 DEF Both
<1> HIDE DEF R
<1> QED BY <1>3, <1>4

(***************************************************************************)
(* Two merges into a baseline that holds something.                        *)
(***************************************************************************)
LEMMA TwoMerges ==
    ASSUME NEW s \in B!Spec, B!Coherent(s), s # B!EmptySpec,
           NEW d \in B!DeltaSpec, NEW e \in B!DeltaSpec, e.headers, B!Named(d) \cap B!Named(e) = {},
           ~ B!Conflicts(s.blocks, e),
           NEW t1 \in B!Merged(s, d), NEW t \in B!Merged(t1, e)
    PROVE  B!Blocks(t) = Both(s, d, e) \cup Adds(d) \cup Adds(e)
<1>1. /\ t1 \in B!Spec /\ B!Coherent(t1)
      /\ B!Blocks(t1) = {Edit(r, d) : r \in {q \in B!Blocks(s) : ~ Gone(d, q.id)}} \cup Adds(d)
  BY MergedIs DEF Adds
<1>2. \A a \in Adds(d) : a \in B!Requirement /\ ~ Gone(e, a.id) /\ Edit(a, e) = a
  <2> TAKE a \in Adds(d)
  <2>1. a \in Elements(d.added) /\ a \in B!Requirement
    BY PartsTyped DEF Adds
  <2>2. a.id \notin B!Named(e)
    BY <2>1, NamedAre
  <2> QED BY <2>1, <2>2, UnnamedStays
<1>3. \A r \in B!Blocks(s) : Edit(r, d).id = r.id
  BY PartsTyped, EditKeepsId
<1>4. CASE t1 # B!EmptySpec
  <2>1. B!Blocks(t) = {Edit(r, e) : r \in {q \in B!Blocks(t1) : ~ Gone(e, q.id)}} \cup Adds(e)
    BY <1>1, <1>4, MergedIs DEF Adds
  <2> DEFINE Made == {Edit(r, e) : r \in {q \in B!Blocks(t1) : ~ Gone(e, q.id)}}
  <2>2. \A x \in Made : x \in Both(s, d, e) \cup Adds(d)
    <3> TAKE x \in Made
    <3>1. PICK q \in B!Blocks(t1) : ~ Gone(e, q.id) /\ x = Edit(q, e)
      OBVIOUS
    <3>2. CASE q \in Adds(d)
      BY <1>2, <3>1, <3>2
    <3>3. CASE q \notin Adds(d)
      <4>1. PICK r \in B!Blocks(s) : ~ Gone(d, r.id) /\ q = Edit(r, d)
        BY <1>1, <3>3
      <4>2. ~ Gone(e, r.id)
        BY <1>3, <3>1, <4>1
      <4> QED BY <3>1, <4>1, <4>2 DEF Both
    <3> QED BY <3>2, <3>3
  <2>3. \A x \in Adds(d) : x \in Made
    BY <1>1, <1>2
  <2>4. \A x \in Both(s, d, e) : x \in Made
    <3> TAKE x \in Both(s, d, e)
    <3>1. PICK r \in B!Blocks(s) : ~ Gone(d, r.id) /\ ~ Gone(e, r.id) /\ x = Edit(Edit(r, d), e)
      BY DEF Both
    <3>2. Edit(r, d) \in B!Blocks(t1) /\ ~ Gone(e, Edit(r, d).id)
      BY <1>1, <1>3, <3>1
    <3> QED BY <3>1, <3>2
  <2> HIDE DEF Made
  <2>5. Made = Both(s, d, e) \cup Adds(d)
    BY <2>2, <2>3, <2>4
  <2> QED BY <2>1, <2>5 DEF Made
<1>5. CASE t1 = B!EmptySpec
  <2>1. B!Blocks(t1) = {}
    BY <1>1, <1>5, EmptyIs
  <2>2. B!Blocks(t) = Elements(e.added)
    BY <1>5, MergedFirst
  <2>3. \A r \in B!Blocks(s) : Gone(d, r.id)
    BY <1>1, <2>1
  <2>4. Both(s, d, e) = {} /\ Adds(d) = {}
    BY <1>1, <2>1, <2>3 DEF Both
  <2>5. \A id : ~ Gone(e, id)
    BY <2>3, GoneWasThere, NamedAre
  <2>6. Adds(e) = Elements(e.added)
    BY <2>5 DEF Adds
  <2> QED BY <2>2, <2>4, <2>6
<1> QED BY <1>4, <1>5

\* Two merges into an empty baseline.
LEMMA TwoMergesFirst ==
    ASSUME NEW d \in B!DeltaSpec, NEW e \in B!DeltaSpec, d.headers, e.headers, B!Named(d) \cap B!Named(e) = {},
           NEW t1 \in B!Merged(B!EmptySpec, d), NEW t \in B!Merged(t1, e)
    PROVE  B!Blocks(t) = Elements(d.added) \cup Elements(e.added)
<1>1. t1 \in B!Spec /\ B!Coherent(t1) /\ B!Blocks(t1) = Elements(d.added)
  BY MergedFirst
<1>2. CASE t1 = B!EmptySpec
  <2>1. Elements(d.added) = {}
    BY <1>1, <1>2, EmptyIs
  <2>2. B!Blocks(t) = Elements(e.added)
    BY <1>2, MergedFirst
  <2> QED BY <2>1, <2>2
<1>3. CASE t1 # B!EmptySpec
  <2>1. /\ ~ B!Conflicts(t1.blocks, e)
        /\ B!Blocks(t) = {Edit(r, e) : r \in {q \in B!Blocks(t1) : ~ Gone(e, q.id)}} \cup Adds(e)
    BY <1>1, <1>3, MergedIs DEF Adds
  <2>2. \A q \in B!Blocks(t1) : q \in B!Requirement /\ q.id \in B!Named(d)
    BY <1>1, PartsTyped, NamedAre
  <2>3. \A q \in B!Blocks(t1) : ~ Gone(e, q.id) /\ Edit(q, e) = q
    BY <2>2, UnnamedStays
  <2>4. \A id : ~ Gone(e, id)
    BY <2>1, <2>2, GoneWasThere, NamedAre
  <2>5. Adds(e) = Elements(e.added)
    BY <2>4 DEF Adds
  <2>6. {Edit(r, e) : r \in {q \in B!Blocks(t1) : ~ Gone(e, q.id)}} = B!Blocks(t1)
    BY <2>3
  <2> QED BY <1>1, <2>1, <2>5, <2>6
<1> QED BY <1>2, <1>3

(***************************************************************************)
(* The orders agree.                                                       *)
(***************************************************************************)
LEMMA OrdersAgree ==
    ASSUME NEW s \in B!Spec, B!Coherent(s), NEW d \in B!DeltaSpec, NEW e \in B!DeltaSpec,
           d.headers, e.headers, B!Named(d) \cap B!Named(e) = {},
           NEW t \in B!After(s, d, e), NEW u \in B!After(s, e, d)
    PROVE  B!Blocks(t) = B!Blocks(u)
<1>1. PICK t1 \in B!Merged(s, d) : t \in B!Merged(t1, e)
  BY DEF B!After
<1>2. PICK u1 \in B!Merged(s, e) : u \in B!Merged(u1, d)
  BY DEF B!After
<1>3. B!Named(e) \cap B!Named(d) = {}
  OBVIOUS
<1>4. CASE s = B!EmptySpec
  <2>1. B!Blocks(t) = Elements(d.added) \cup Elements(e.added)
    BY <1>1, <1>4, TwoMergesFirst
  <2>2. B!Blocks(u) = Elements(e.added) \cup Elements(d.added)
    BY <1>2, <1>3, <1>4, TwoMergesFirst
  <2> QED BY <2>1, <2>2
<1>5. CASE s # B!EmptySpec
  <2>1. ~ B!Conflicts(s.blocks, d) /\ ~ B!Conflicts(s.blocks, e)
    BY <1>1, <1>2, <1>5, MergedIs
  <2>2. B!Blocks(t) = Both(s, d, e) \cup Adds(d) \cup Adds(e)
    BY <1>1, <1>5, <2>1, TwoMerges
  <2>3. B!Blocks(u) = Both(s, e, d) \cup Adds(e) \cup Adds(d)
    BY <1>2, <1>3, <1>5, <2>1, TwoMerges
  <2> QED BY <2>2, <2>3, BothCommute
<1> QED BY <1>4, <1>5

LEMMA EmptyList ==
    ASSUME NEW Item, NEW list \in Seq(Item), DOMAIN list = {}
    PROVE  list = <<>>
<1>1. Len(list) \in Nat /\ DOMAIN list = 1 .. Len(list)
  OBVIOUS
<1>2. Len(list) = 0
  BY <1>1
<1> QED BY <1>2

\* Blocks of a coherent spec have ids.
LEMMA BlocksHaveIds ==
    ASSUME NEW s, B!Coherent(s)
    PROVE  /\ \A r \in B!Blocks(s) : r.id # NoId /\ B!Has(s.blocks, r.id)
           /\ \A id : B!Has(s.blocks, id) => \E r \in B!Blocks(s) : r.id = id
<1>1. \A i \in DOMAIN s.blocks : s.blocks[i].id \in Ids
  BY DEF B!Coherent
<1> QED BY <1>1, SpecBaselineAssumption DEF B!Blocks, B!Has

\* A delta of disjoint sections removes nothing it adds.
LEMMA AddedStays ==
    ASSUME NEW d, B!Disjoint(d)
    PROVE  /\ \A a \in Elements(d.added) : ~ Gone(d, a.id)
           /\ Adds(d) = Elements(d.added)
<1>1. B!IdsOf(d.removed) \cap B!IdsOf(d.added) = {}
  <2>1. B!IdsOf(d["removed"]) \cap B!IdsOf(d["added"]) = {}
    BY DEF B!Disjoint
  <2> QED BY <2>1
<1>2. \A a \in Elements(d.added) : ~ Gone(d, a.id)
  BY <1>1 DEF B!IdsOf, Elements, Gone, B!Has
<1> QED BY <1>2 DEF Adds

\* What was added before is not added again, and what was removed is not there.
LEMMA EntriesAreRefused ==
    ASSUME NEW t \in B!Spec, B!Coherent(t), NEW d \in B!DeltaSpec, ~ B!Conflicts(t.blocks, d),
           \A a \in Elements(d.added) : a \in B!Blocks(t) /\ ~ Gone(d, a.id),
           \A r \in B!Blocks(t) : ~ Gone(d, r.id)
    PROVE  d.added = <<>> /\ d.removed = <<>>
<1>0. d.added \in Seq(B!Requirement) /\ d.removed \in Seq(B!Requirement)
  BY DEF B!DeltaSpec
<1>1. ASSUME NEW i \in DOMAIN d.added PROVE FALSE
  <2>1. d.added[i] \in B!Blocks(t) /\ ~ Gone(d, d.added[i].id)
    BY DEF Elements
  <2>2. B!Has(t.blocks, d.added[i].id)
    BY <2>1, BlocksHaveIds
  <2> QED BY <2>1, <2>2 DEF B!Conflicts, Gone
<1>2. ASSUME NEW i \in DOMAIN d.removed PROVE FALSE
  <2>1. B!Has(t.blocks, d.removed[i].id)
    BY DEF B!Conflicts
  <2>2. PICK r \in B!Blocks(t) : r.id = d.removed[i].id
    BY <2>1, BlocksHaveIds
  <2>3. Gone(d, r.id)
    BY <2>1, <2>2 DEF Gone, B!Has
  <2> QED BY <2>3
<1>3. DOMAIN d.added = {} /\ DOMAIN d.removed = {}
  BY <1>1, <1>2
<1> QED BY <1>0, <1>3, EmptyList

\* A delta that adds and removes nothing, and edits no block there is.
LEMMA NothingToDo ==
    ASSUME NEW s \in B!Spec, B!Coherent(s), s # B!EmptySpec, NEW d \in B!DeltaSpec,
           d.added = <<>>, d.removed = <<>>, \A r \in B!Blocks(s) : Edit(r, d) = r
    PROVE  B!Merged(s, d) \subseteq {s}
<1> SUFFICES ASSUME NEW t \in B!Merged(s, d) PROVE t = s
  OBVIOUS
<1> DEFINE b == s.blocks
           line == Line(b, d)
<1>1. b \in Seq(B!Requirement) /\ s \in [preamble : BOOLEAN, blocks : Seq(B!Requirement)]
  BY DEF B!Spec
<1>2. line = b
  <2>1. [i \in DOMAIN b |-> Edit(b[i], d)] = [i \in DOMAIN b |-> b[i]]
    BY DEF B!Blocks
  <2>2. [i \in DOMAIN b |-> b[i]] = b
    <3> HIDE DEF b
    <3> QED BY <1>1
  <2>3. b \o <<>> = b
    <3> HIDE DEF b
    <3> QED BY <1>1
  <2> QED BY <2>1, <2>2, <2>3 DEF Line
<1>3. Staying(b, d) = DOMAIN b
  BY <1>2 DEF Staying, B!Has
<1>4. Select(line, Staying(b, d)) = b
  BY <1>1, <1>2, <1>3, SelectAll
<1>5. t = [s EXCEPT !.blocks = B!Applied(b, d)]
  BY DEF B!Merged, B!Merge
<1>6. B!Applied(b, d) = b
  BY <1>4, AppliedIs
<1>7. t = [s EXCEPT !.blocks = b]
  BY <1>5, <1>6
<1> QED BY <1>1, <1>7

(***************************************************************************)
(* A delta of disjoint sections that was just merged is refused, or it     *)
(* changes nothing.                                                        *)
(***************************************************************************)
LEMMA NeverTwice ==
    ASSUME NEW s \in B!Spec, B!Coherent(s), NEW d \in B!DeltaSpec, B!Disjoint(d),
           ~ d.headers => /\ d.renamed = <<>> /\ d.removed = <<>>
                          /\ d.modified = <<>> /\ d.added = <<>>,
           NEW t \in B!Merged(s, d)
    PROVE  B!Merged(t, d) \subseteq {t}
<1> SUFFICES ASSUME NEW y \in B!Merged(t, d) PROVE y = t
  OBVIOUS
<1>1. ASSUME NEW x \in B!Spec, B!Coherent(x), x # B!EmptySpec, ~ d.headers
      PROVE  B!Merged(x, d) \subseteq {x}
  <2>1. \A r : Edit(r, d) = r
    BY <1>1 DEF Edit, B!Has
  <2> QED BY <1>1, <2>1, NothingToDo
<1>2. CASE s = B!EmptySpec
  <2>1. /\ t \in B!Spec /\ B!Coherent(t)
        /\ d.headers => t = [B!EmptySpec EXCEPT !.blocks = d.added] /\ B!Blocks(t) = Elements(d.added)
        /\ ~ d.headers => t = d.plain
    BY <1>2, MergedFirst
  <2>2. CASE t = B!EmptySpec
    <3>1. /\ d.headers => y = [B!EmptySpec EXCEPT !.blocks = d.added]
          /\ ~ d.headers => y = d.plain
      BY <2>2, MergedFirst
    <3> QED BY <2>1, <3>1
  <2>3. CASE t # B!EmptySpec /\ ~ d.headers
    BY <1>1, <2>1, <2>3
  <2>4. CASE t # B!EmptySpec /\ d.headers
    <3>1. ~ B!Conflicts(t.blocks, d)
      BY <2>1, <2>4, MergedIs
    <3>2. \A a \in Elements(d.added) : a \in B!Blocks(t) /\ ~ Gone(d, a.id)
      BY <2>1, <2>4, AddedStays
    <3>3. Elements(d.added) = {}
      BY <2>1, <2>4, <3>1, <3>2, EntriesAreRefused DEF Elements
    <3>4. ~ t.preamble
      BY <1>2, <2>4, MergedFirst
    <3> QED BY <2>1, <2>4, <3>3, <3>4, EmptyIs
  <2> QED BY <2>2, <2>3, <2>4
<1>3. CASE s # B!EmptySpec
  <2>1. /\ t \in B!Spec /\ B!Coherent(t)
        /\ B!Blocks(t) = {Edit(r, d) : r \in {q \in B!Blocks(s) : ~ Gone(d, q.id)}} \cup Adds(d)
    BY <1>3, MergedIs DEF Adds
  <2>2. CASE ~ d.headers
    BY <1>1, <1>3, <2>2
  <2>3. CASE d.headers /\ t = B!EmptySpec
    <3>1. y = [B!EmptySpec EXCEPT !.blocks = d.added]
      BY <2>3, MergedFirst
    <3>2. Elements(d.added) = {}
      BY <2>1, <2>3, AddedStays, EmptyIs
    <3>3. d.added = <<>>
      <4>1. d.added \in Seq(B!Requirement) /\ DOMAIN d.added = {}
        BY <3>2 DEF B!DeltaSpec, Elements
      <4> QED BY <4>1, EmptyList
    <3> QED BY <2>3, <3>1, <3>3 DEF B!EmptySpec
  <2>4. CASE d.headers /\ t # B!EmptySpec
    <3>1. ~ B!Conflicts(t.blocks, d)
      BY <2>1, <2>4, MergedIs
    <3>2. \A a \in Elements(d.added) : a \in B!Blocks(t) /\ ~ Gone(d, a.id)
      BY <2>1, AddedStays
    <3>3. \A r \in B!Blocks(s) : Edit(r, d).id = r.id /\ Edit(Edit(r, d), d) = Edit(r, d)
      BY PartsTyped, EditKeepsId
    <3>4. \A r \in B!Blocks(t) : ~ Gone(d, r.id)
      BY <2>1, <3>3 DEF Adds
    <3>5. d.added = <<>> /\ d.removed = <<>>
      BY <2>1, <3>1, <3>2, <3>4, EntriesAreRefused
    <3>6. Adds(d) = {}
      BY <3>5 DEF Adds, Elements
    <3>7. \A r \in B!Blocks(t) : Edit(r, d) = r
      BY <2>1, <3>3, <3>6
    <3> QED BY <2>1, <2>4, <3>5, <3>7, NothingToDo
  <2> QED BY <2>2, <2>3, <2>4
<1> QED BY <1>2, <1>3

\* The ids of the sections of a delta, where they are disjoint and it is not refused.
LEMMA SectionsApart ==
    ASSUME NEW s \in B!Spec, B!Coherent(s), NEW d, B!Disjoint(d), ~ B!Conflicts(s.blocks, d), NEW r \in B!Blocks(s)
    PROVE  /\ B!Has(d.modified, r.id) <=> r.id \in B!IdsOf(d.modified)
           /\ B!Has(d.renamed, r.id) <=> r.id \in B!IdsOf(d.renamed)
           /\ Gone(d, r.id) <=> r.id \in B!IdsOf(d.removed)
           /\ B!Has(d.modified, r.id) => ~ Gone(d, r.id) /\ ~ B!Has(d.renamed, r.id)
           /\ B!Has(d.renamed, r.id) => ~ Gone(d, r.id)
           /\ r.id \notin B!IdsOf(d.added)
<1>1. r.id # NoId /\ B!Has(s.blocks, r.id)
  BY BlocksHaveIds
<1>2. /\ B!Has(d.modified, r.id) <=> r.id \in B!IdsOf(d.modified)
      /\ B!Has(d.renamed, r.id) <=> r.id \in B!IdsOf(d.renamed)
      /\ Gone(d, r.id) <=> r.id \in B!IdsOf(d.removed)
  BY <1>1 DEF B!Has, B!IdsOf, Gone
<1>3. /\ B!IdsOf(d["modified"]) \cap B!IdsOf(d["removed"]) = {}
      /\ B!IdsOf(d["modified"]) \cap B!IdsOf(d["renamed"]) = {}
      /\ B!IdsOf(d["renamed"]) \cap B!IdsOf(d["removed"]) = {}
      /\ B!IdsOf(d["added"]) \cap B!IdsOf(d["removed"]) = {}
  BY DEF B!Disjoint
<1>4. r.id \notin B!IdsOf(d.added)
  <2> SUFFICES ASSUME NEW i \in DOMAIN d.added, d.added[i].id = r.id PROVE FALSE
    BY DEF B!IdsOf
  <2>1. r.id \in B!IdsOf(d.added)
    BY DEF B!IdsOf
  <2>2. ~ B!Has(d.removed, d.added[i].id)
    BY <1>2, <1>3, <2>1 DEF Gone
  <2> QED BY <1>1, <2>2 DEF B!Conflicts
<1> QED BY <1>2, <1>3, <1>4

\* What a merge leaves, as an update of a map.
LEMMA FollowsReference ==
    ASSUME NEW s \in B!Spec, B!Coherent(s), s # B!EmptySpec, NEW d \in B!DeltaSpec, B!Disjoint(d), NEW t \in B!Merged(s, d)
    PROVE  B!Blocks(t) = B!Reference(s, d)
<1> DEFINE Old == {r \in B!Blocks(s) : r.id \notin B!Named(d)}
           Mod == {B!Last(d.modified, id) : id \in B!IdsOf(d.modified)}
           Ren == {[r EXCEPT !.name = B!Last(d.renamed, r.id).name] :
                      r \in {b \in B!Blocks(s) : b.id \in B!IdsOf(d.renamed)}}
           Add == Elements(d.added)
<1>1. /\ ~ B!Conflicts(s.blocks, d)
      /\ B!Blocks(t) = {Edit(r, d) : r \in {q \in B!Blocks(s) : ~ Gone(d, q.id)}} \cup Adds(d)
  BY MergedIs DEF Adds
<1>2. B!Reference(s, d) = Old \cup Mod \cup Ren \cup Add
  BY DEF B!Reference, Elements
<1>3. Adds(d) = Add
  BY AddedStays
<1>4. ASSUME NEW r \in B!Blocks(s), ~ Gone(d, r.id) PROVE Edit(r, d) \in Old \cup Mod \cup Ren
  <2>1. CASE B!Has(d.modified, r.id)
    BY <1>1, <2>1, SectionsApart DEF Edit
  <2>2. CASE ~ B!Has(d.modified, r.id) /\ B!Has(d.renamed, r.id)
    BY <1>1, <2>2, SectionsApart DEF Edit
  <2>3. CASE ~ B!Has(d.modified, r.id) /\ ~ B!Has(d.renamed, r.id)
    <3>1. r.id \notin B!Named(d)
      BY <1>1, <1>4, <2>3, SectionsApart DEF B!Named
    <3> QED BY <2>3, <3>1 DEF Edit
  <2> QED BY <2>1, <2>2, <2>3
<1>5. ASSUME NEW r \in Old PROVE ~ Gone(d, r.id) /\ Edit(r, d) = r
  BY PartsTyped, UnnamedStays
<1>6. ASSUME NEW x \in Mod PROVE \E r \in B!Blocks(s) : ~ Gone(d, r.id) /\ x = Edit(r, d)
  <2>1. PICK i \in DOMAIN d.modified : x = B!Last(d.modified, d.modified[i].id)
    BY DEF B!IdsOf
  <2>2. B!Has(s.blocks, d.modified[i].id)
    BY <1>1 DEF B!Conflicts
  <2>3. PICK r \in B!Blocks(s) : r.id = d.modified[i].id
    BY <2>2, BlocksHaveIds
  <2>4. B!Has(d.modified, r.id)
    BY <2>2, <2>3 DEF B!Has
  <2>5. ~ Gone(d, r.id)
    BY <1>1, <2>4, SectionsApart
  <2> QED BY <2>1, <2>3, <2>4, <2>5 DEF Edit
<1>7. ASSUME NEW x \in Ren PROVE \E r \in B!Blocks(s) : ~ Gone(d, r.id) /\ x = Edit(r, d)
  <2>1. PICK r \in B!Blocks(s) : r.id \in B!IdsOf(d.renamed) /\ x = [r EXCEPT !.name = B!Last(d.renamed, r.id).name]
    OBVIOUS
  <2>2. B!Has(d.renamed, r.id) /\ ~ B!Has(d.modified, r.id) /\ ~ Gone(d, r.id)
    BY <1>1, <2>1, SectionsApart
  <2> QED BY <2>1, <2>2 DEF Edit
<1> HIDE DEF Old, Mod, Ren, Add
<1>8. \A x \in Old : \E r \in B!Blocks(s) : ~ Gone(d, r.id) /\ x = Edit(r, d)
  BY <1>5 DEF Old
<1> DEFINE Made == {Edit(r, d) : r \in {q \in B!Blocks(s) : ~ Gone(d, q.id)}}
<1>9. Made = Old \cup Mod \cup Ren
  <2>1. \A x \in Made : x \in Old \cup Mod \cup Ren
    BY <1>4
  <2>2. \A x \in Old \cup Mod \cup Ren : x \in Made
    BY <1>6, <1>7, <1>8
  <2> HIDE DEF Made
  <2> QED BY <2>1, <2>2
<1> QED BY <1>1, <1>2, <1>3, <1>9

(***************************************************************************)
(* The blocks a delta does not name stay as they are and in their order,   *)
(* and where nothing is edited they stay in front.                         *)
(***************************************************************************)
LEMMA OrderIsKept ==
    ASSUME NEW s \in B!Spec, B!Coherent(s), s # B!EmptySpec, NEW d \in B!DeltaSpec, B!Disjoint(d), NEW t \in B!Merged(s, d)
    PROVE  LET kept == B!Untouched(s, d)
           IN  /\ B!Untouched(t, d) = kept
               /\ d.modified = <<>> /\ d.renamed = <<>> => SubSeq(t.blocks, 1, Len(kept)) = kept
<1> DEFINE b == s.blocks
           n == Len(b)
           m == Len(d.added)
           line == Line(b, d)
           Picked == Staying(b, d)
           U == {i \in 1 .. n : b[i].id \notin B!Named(d)}
           u == Cardinality(U)
<1>1. /\ n \in Nat /\ m \in Nat /\ DOMAIN b = 1 .. n /\ DOMAIN d.added = 1 .. m
      /\ line \in Seq(B!Requirement) /\ Len(line) = n + m
      /\ \A i \in 1 .. n : line[i] = Edit(b[i], d) /\ b[i] \in B!Requirement
      /\ \A i \in 1 .. m : line[n + i] = d.added[i]
      /\ Picked \in SUBSET (1 .. n + m)
  BY AppliedIs
<1>2. ~ B!Conflicts(b, d) /\ t.blocks = Select(line, Picked)
  BY MergedIs
<1>3. /\ \A i \in 1 .. n : line[i].id = b[i].id
      /\ \A i \in 1 .. n : b[i].id \notin B!Named(d) => line[i] = b[i] /\ ~ Gone(d, b[i].id)
  BY <1>1, EditKeepsId, UnnamedStays
<1>4. \A i \in 1 .. m : line[n + i].id \in B!Named(d)
  <2>1. \A i \in 1 .. m : d.added[i] \in Elements(d.added)
    BY <1>1 DEF Elements
  <2> QED BY <1>1, <2>1, NamedAre
<1> HIDE DEF n, m
<1>n. n \in Nat /\ m \in Nat
  BY <1>1
<1>l. DOMAIN line = 1 .. n + m
  <2> HIDE DEF line
  <2>1. line \in Seq(B!Requirement) /\ Len(line) = n + m
    BY <1>1
  <2> QED BY <2>1
<1>5. \A i \in 1 .. n + m : i \in Picked <=> ~ Gone(d, line[i].id)
  BY <1>l DEF Staying, Gone
<1> HIDE DEF b, line, Picked
<1>6. Picked \in SUBSET (1 .. n + m) /\ n + m \in Nat
  BY <1>1, <1>n
<1>7. U \subseteq Picked
  <2> SUFFICES ASSUME NEW i \in U PROVE i \in Picked
    OBVIOUS
  <2>0. i \in 1 .. n /\ b[i].id \notin B!Named(d)
    OBVIOUS
  <2> HIDE DEF U
  <2>1. i \in 1 .. n + m
    BY <1>n, <2>0
  <2>2. ~ Gone(d, line[i].id)
    BY <1>3, <2>0
  <2> QED BY <1>5, <2>1, <2>2
<1>8. \A i \in 1 .. n + m : i \in U <=> line[i].id \notin B!Named(d)
  <2> TAKE i \in 1 .. n + m
  <2>1. CASE i \in 1 .. n
    BY <1>3, <2>1
  <2>2. CASE i \notin 1 .. n
    <3>1. i - n \in 1 .. m /\ n + (i - n) = i
      BY <1>n, <2>2
    <3>2. line[n + (i - n)].id \in B!Named(d)
      BY <1>4, <3>1
    <3> QED BY <2>2, <3>1, <3>2
  <2> QED BY <2>1, <2>2
<1>9. /\ Cardinality(Picked) \in Nat /\ u \in Nat
      /\ \A k \in 1 .. Cardinality(Picked) : Nth(Picked, k) \in Picked
      /\ \A k \in 1 .. u : Nth(U, k) \in U
  <2>1. U \in SUBSET (1 .. n)
    OBVIOUS
  <2> HIDE DEF U
  <2> QED BY <1>6, <1>n, <2>1, PlacesAreCounted
<1>10. B!Untouched(s, d) = Select(b, U)
  <2>1. B!Untouched(s, d) = B!Select(b, U)
    BY <1>1 DEF B!Untouched, B!Filtered, b
  <2> HIDE DEF U
  <2> QED BY <2>1, SameSelect
<1> DEFINE V == {k \in 1 .. Cardinality(Picked) : Nth(Picked, k) \in U}
<1>11. B!Untouched(t, d) = Select(Select(line, Picked), V)
  <2> DEFINE left == {k \in DOMAIN Select(line, Picked) : Select(line, Picked)[k].id \notin B!Named(d)}
  <2>0. B!Untouched(t, d) = B!Select(Select(line, Picked), left)
    BY <1>2 DEF B!Untouched, B!Filtered
  <2>1. B!Untouched(t, d) = Select(Select(line, Picked), left)
    <3> HIDE DEF left
    <3> QED BY <2>0, SameSelect
  <2>2. DOMAIN Select(line, Picked) = 1 .. Cardinality(Picked) /\ \A k \in 1 .. Cardinality(Picked) : Select(line, Picked)[k] = line[Nth(Picked, k)]
    BY DEF Select
  <2>3. \A k \in 1 .. Cardinality(Picked) : Nth(Picked, k) \in U <=> line[Nth(Picked, k)].id \notin B!Named(d)
    BY <1>6, <1>8, <1>9
  <2> HIDE DEF U
  <2>4. {k \in DOMAIN Select(line, Picked) : Select(line, Picked)[k].id \notin B!Named(d)} = V
    BY <2>2, <2>3
  <2> QED BY <2>1, <2>4
<1>12. Select(line, U) = Select(b, U)
  <2>1. Select(line, U) = [k \in 1 .. u |-> line[Nth(U, k)]] /\ Select(b, U) = [k \in 1 .. u |-> b[Nth(U, k)]]
    BY DEF Select
  <2>2. \A k \in 1 .. u : line[Nth(U, k)] = b[Nth(U, k)]
    BY <1>3, <1>9
  <2> HIDE DEF u
  <2> QED BY <2>1, <2>2
<1>13. B!Untouched(t, d) = B!Untouched(s, d)
  <2>1. Len(line) = n + m
    BY <1>1
  <2> HIDE DEF U
  <2>2. Select(Select(line, Picked), V) = Select(line, U)
    BY <1>6, <1>7, <2>1, SelectTwice
  <2> HIDE DEF V
  <2> QED BY <1>10, <1>11, <1>12, <2>2
<1>14. ASSUME d.modified = <<>>, d.renamed = <<>>
       PROVE  SubSeq(t.blocks, 1, u) = Select(b, U)
  <2>1. \A i \in U, j \in Picked : j <= i => j \in U
    <3> SUFFICES ASSUME NEW i \in U, NEW j \in Picked, j <= i PROVE j \in U
      OBVIOUS
    <3>0. i \in 1 .. n
      OBVIOUS
    <3>1. j \in 1 .. n /\ j \in 1 .. n + m
      BY <1>6, <1>n, <3>0
    <3>2. ~ Gone(d, b[j].id)
      BY <1>3, <1>5, <3>1
    <3>3. b[j] \in B!Blocks(s)
      BY <1>1, <3>1 DEF B!Blocks, b
    <3>4. b[j].id \notin B!IdsOf(d.added) /\ (Gone(d, b[j].id) <=> b[j].id \in B!IdsOf(d.removed))
      BY <1>2, <3>3, SectionsApart DEF b
    <3>5. B!IdsOf(d.modified) = {} /\ B!IdsOf(d.renamed) = {}
      BY <1>14 DEF B!IdsOf
    <3>6. b[j].id \notin B!Named(d)
      BY <3>2, <3>4, <3>5 DEF B!Named
    <3> QED BY <3>1, <3>6
  <2>2. u <= Cardinality(Picked) /\ \A k \in 1 .. u : Nth(Picked, k) = Nth(U, k)
    <3> HIDE DEF U
    <3> QED BY <1>6, <1>7, <2>1, SelectFront
  <2>3. /\ Select(line, Picked) = [k \in 1 .. Cardinality(Picked) |-> line[Nth(Picked, k)]]
        /\ Select(line, U) = [k \in 1 .. u |-> line[Nth(U, k)]]
    BY DEF Select
  <2> HIDE DEF u, U
  <2>4. SubSeq(Select(line, Picked), 1, u) = [k \in 1 .. u |-> Select(line, Picked)[k]]
    <3>0. DOMAIN Select(line, Picked) = 1 .. Cardinality(Picked)
      BY <2>3
    <3> DEFINE sel == Select(line, Picked)
    <3>1. sel \in Seq(B!Requirement)
      <4>1. Len(line) \in Nat /\ Len(line) = n + m /\ line \in Seq(B!Requirement)
        BY <1>1, <1>n
      <4>2. Picked \in SUBSET (1 .. Len(line))
        BY <1>6, <4>1
      <4> QED BY <4>1, <4>2, SelectHolds
    <3> HIDE DEF sel
    <3>2. SubSeq(sel, 1, u) = [k \in 1 .. u |-> sel[k]]
      BY <1>9, <3>1
    <3> QED BY <3>2 DEF sel
  <2>5. \A k \in 1 .. u : Select(line, Picked)[k] = line[Nth(U, k)]
    BY <1>9, <2>2, <2>3
  <2>6. SubSeq(Select(line, Picked), 1, u) = Select(line, U)
    BY <2>3, <2>4, <2>5
  <2> QED BY <1>2, <1>12, <2>6
<1>15. Len(Select(b, U)) = u
  <2> HIDE DEF U
  <2>1. DOMAIN Select(b, U) = 1 .. u
    BY DEF Select
  <2>2. b \in Seq(B!Requirement) /\ Len(b) \in Nat /\ U \in SUBSET (1 .. Len(b))
    BY <1>1, <1>n DEF B!Spec, b, n, U
  <2> QED BY <2>2, SelectHolds
<1> QED BY <1>10, <1>13, <1>14, <1>15

\* The two together.
LEMMA MergeUpdates ==
    ASSUME spec \in B!Spec, B!Coherent(spec), delta' \in B!DeltaSpec, spec' \in B!Merged(spec, delta')
    PROVE  B!UpdatesAsMap
  BY FollowsReference, OrderIsKept DEF B!UpdatesAsMap

-----------------------------------------------------------------------------
\* The baseline stays coherent, and the delta it was merged with last changes nothing.
BaselineInv ==
    /\ spec \in B!Spec /\ B!Coherent(spec)
    /\ B!NeverAppliedTwice

\* A delta that is merged is one a slice can stage.
LEMMA DeltaTyped ==
    /\ \A d \in Deltas :
         /\ d \in B!DeltaSpec
         /\ ~ d.headers => /\ d.renamed = <<>> /\ d.removed = <<>>
                           /\ d.modified = <<>> /\ d.added = <<>>
    /\ B!EmptyDelta \in B!DeltaSpec
<1>1. B!EmptySpec \in B!Spec
  BY DEF B!EmptySpec, B!Spec
<1>2. <<>> \in Seq(B!Requirement) /\ <<>> \in Seq([id : Ids, name : ReqNames])
  OBVIOUS
<1>3. B!EmptyDelta \in B!DeltaSpec
  BY <1>1, <1>2 DEF B!EmptyDelta, B!DeltaSpec
<1>4. \A d \in Deltas : d \in B!DeltaSpec
  BY SpecBaselineAssumption
<1> QED BY <1>3, <1>4, SpecBaselineAssumption

\* What a merge writes is a spec.
LEMMA MergedTyped ==
    ASSUME NEW s \in B!Spec, B!Coherent(s), NEW d \in B!DeltaSpec, NEW t \in B!Merged(s, d)
    PROVE  t \in B!Spec /\ B!Coherent(t)
<1>1. CASE s = B!EmptySpec
  BY <1>1, MergedFirst
<1>2. CASE s # B!EmptySpec
  BY <1>2, MergedIs
<1> QED BY <1>1, <1>2

LEMMA BaselineInit == B!Init => BaselineInv
<1> SUFFICES ASSUME B!Init PROVE BaselineInv
  OBVIOUS
<1>1. spec \in B!Spec /\ B!Coherent(spec)
  BY SpecBaselineAssumption DEF B!Init
<1>2. delta = B!EmptyDelta
  BY DEF B!Init
<1>3. CASE spec = B!EmptySpec
  <2>1. \A t \in B!Merged(spec, B!EmptyDelta) : t = spec
    BY <1>3 DEF B!Merged, B!Merge, B!EmptyDelta, B!EmptySpec
  <2> QED BY <1>1, <1>2, <2>1 DEF BaselineInv, B!NeverAppliedTwice
<1>4. CASE spec # B!EmptySpec
  <2>1. B!EmptyDelta.added = <<>> /\ B!EmptyDelta.removed = <<>> /\ \A r : Edit(r, B!EmptyDelta) = r
    BY DEF B!EmptyDelta, Edit, B!Has
  <2>2. B!Merged(spec, B!EmptyDelta) \subseteq {spec}
    BY <1>1, <1>4, <2>1, DeltaTyped, NothingToDo
  <2> QED BY <1>1, <1>2, <2>2 DEF BaselineInv, B!NeverAppliedTwice
<1> QED BY <1>3, <1>4

\* Merging a delta keeps that, and updates the baseline as a map.
LEMMA BaselineStep == BaselineInv /\ B!Next => BaselineInv' /\ B!UpdatesAsMap
<1> SUFFICES ASSUME BaselineInv, NEW d \in Deltas, B!MergeDelta(d)
             PROVE  BaselineInv' /\ B!UpdatesAsMap
  BY DEF B!Next
<1>1. spec \in B!Spec /\ B!Coherent(spec) /\ spec' \in B!Merged(spec, d) /\ delta' = d
  BY DEF BaselineInv, B!MergeDelta
<1>2. /\ d \in B!DeltaSpec
      /\ ~ d.headers => /\ d.renamed = <<>> /\ d.removed = <<>>
                        /\ d.modified = <<>> /\ d.added = <<>>
  BY DeltaTyped
<1>3. spec' \in B!Spec /\ B!Coherent(spec')
  BY <1>1, <1>2, MergedTyped
<1>4. B!Disjoint(d) => B!Merged(spec', d) \subseteq {spec'}
  BY <1>1, <1>2, NeverTwice
<1>5. B!NeverAppliedTwice'
  BY <1>1, <1>4 DEF B!NeverAppliedTwice
<1>6. B!UpdatesAsMap
  BY <1>1, <1>2, MergeUpdates
<1> QED BY <1>3, <1>5, <1>6 DEF BaselineInv

LEMMA BaselineHolds == BaselineInv => B!OrderIrrelevant
<1> SUFFICES ASSUME BaselineInv, NEW p \in DeltaPairs, p[1].headers, p[2].headers,
                    B!Named(p[1]) \cap B!Named(p[2]) = {},
                    NEW t \in B!After(spec, p[1], p[2]), NEW u \in B!After(spec, p[2], p[1])
             PROVE  B!Blocks(t) = B!Blocks(u)
  BY DEF B!OrderIrrelevant
<1>1. p[1] \in B!DeltaSpec /\ p[2] \in B!DeltaSpec
  BY SpecBaselineAssumption
<1> QED BY <1>1, OrdersAgree DEF BaselineInv

\* A behaviour of SpecBaseline is of nothing else.
BaselineAlone == spec # Off => BaselineInv /\ part = "none" /\ kase.kind = "off"

LEMMA BaselineIsAlone ==
    /\ AllInit => BaselineAlone
    /\ BaselineAlone /\ [AllNext]_<<allVars, kase, baselineVars>> =>
          BaselineAlone' /\ [spec # Off => B!UpdatesAsMap]_<<allVars, kase, baselineVars>>
<1>1. AllInit => BaselineAlone
  BY BaselineInit DEF AllInit, KernelsOff, BaselineOff, BaselineAlone
<1>2. ASSUME BaselineAlone, [AllNext]_<<allVars, kase, baselineVars>>
      PROVE  BaselineAlone' /\ [spec # Off => B!UpdatesAsMap]_<<allVars, kase, baselineVars>>
  <2>1. CASE UNCHANGED <<allVars, kase, baselineVars>>
    <3>1. UNCHANGED <<part, kase, spec, delta>>
      BY <2>1 DEF allVars, baselineVars
    <3>2. BaselineInv' <=> BaselineInv
      BY <3>1 DEF BaselineInv, B!NeverAppliedTwice
    <3> QED BY <1>2, <2>1, <3>1, <3>2 DEF BaselineAlone
  <2>2. CASE PartsNext /\ UNCHANGED <<kase, baselineVars>>
    <3>1. part # "none"
      BY <2>2 DEF PartsNext
    <3>2. spec = Off /\ spec' = Off
      BY <1>2, <2>2, <3>1 DEF BaselineAlone, baselineVars
    <3> QED BY <3>2 DEF BaselineAlone
  <2>3. CASE Next /\ UNCHANGED <<allVars, baselineVars>>
    <3>1. spec = Off /\ spec' = Off
      BY <1>2, <2>3 DEF BaselineAlone, baselineVars, Next
    <3> QED BY <3>1 DEF BaselineAlone
  <2>4. CASE spec # Off /\ B!Next /\ UNCHANGED <<allVars, kase>>
    <3>1. BaselineInv' /\ B!UpdatesAsMap
      BY <1>2, <2>4, BaselineStep DEF BaselineAlone
    <3>2. part' = part /\ kase' = kase
      BY <2>4 DEF allVars
    <3> QED BY <1>2, <2>4, <3>1, <3>2 DEF BaselineAlone
  <2> QED BY <1>2, <2>1, <2>2, <2>3, <2>4 DEF AllNext
<1> QED BY <1>1, <1>2

(***************************************************************************)
(* A delta that was just merged into a baseline is refused when it is      *)
(* merged again, or it changes nothing, unless it names a requirement in   *)
(* two sections: `slice merge` run again does a baseline no harm.          *)
(***************************************************************************)
THEOREM DeltasApplyOnce == AllSpec => []NeverAppliedTwice
<1>1. BaselineAlone => NeverAppliedTwice
  BY DEF BaselineAlone, BaselineInv, NeverAppliedTwice
<1> QED BY <1>1, BaselineIsAlone, PTL DEF AllSpec

(***************************************************************************)
(* Two slices that name different requirements may be merged into a        *)
(* baseline in either order: they leave the same requirements.             *)
(***************************************************************************)
THEOREM OrderOfMergesIsFree == AllSpec => []OrderIrrelevant
<1>1. BaselineAlone => OrderIrrelevant
  BY BaselineHolds DEF BaselineAlone, OrderIrrelevant
<1> QED BY <1>1, BaselineIsAlone, PTL DEF AllSpec

(***************************************************************************)
(* Every merge of a delta whose sections are disjoint updates the baseline *)
(* as it would a map from ids to requirements, and leaves what the delta   *)
(* does not name as it was and in its order.                               *)
(***************************************************************************)
THEOREM MergesFollowReference == AllSpec => MatchesReference
<1> QED BY BaselineIsAlone, PTL DEF AllSpec, MatchesReference

-----------------------------------------------------------------------------
(***************************************************************************)
(* ProjectInit: the operator's lines in AGENTS.md.                         *)
(***************************************************************************)
\* None stands for a file that is not there, and a file is a list of lines.
NoneIsNoList == \A Lines : None \notin Seq(Lines)

\* A document that is there is a list.
LEMMA ListTyped ==
    ASSUME NEW doc, I!IsDocument(doc)
    PROVE  Len(doc) \in Nat /\ DOMAIN doc = 1 .. Len(doc)
BY DEF I!IsDocument

\* A document whose fences are found: where they are.
FencesAt(doc, f) ==
    /\ f.open \in 1 .. Len(doc) /\ f.close \in 1 .. Len(doc) /\ f.open < f.close
    /\ doc[f.open].kind \in {"open", "mention"} /\ doc[f.close].kind = "close"
    /\ \A i \in 1 .. Len(doc) : doc[i].kind \in {"open", "mention"} => i = f.open
    /\ \A i \in 1 .. Len(doc) : doc[i].kind = "close" => i <= f.close

LEMMA FencesFound ==
    ASSUME NEW doc, I!IsDocument(doc), I!Parsed(doc) \notin {None, Malformed}
    PROVE  FencesAt(doc, I!Parsed(doc))
<1> DEFINE f == I!Parsed(doc)
           opens == I!At(doc, {"open", "mention"})
           open == CHOOSE i \in opens : TRUE
           ends == {i \in I!At(doc, {"-->"}) : i > open}
           end == CHOOSE i \in ends : \A j \in ends : i <= j
           keys == {<<i, doc[i].value>> : i \in open + 1 .. end - 1}
           closes == {i \in I!At(doc, {"close"}) : i > end}
           bad == \/ I!Cardinality(opens) > 1
                  \/ doc[open].kind = "mention" \/ ends = {}
                  \/ keys = {} \/ I!Cardinality({k[2] : k \in keys}) < I!Cardinality(keys)
                  \/ \E i \in open + 1 .. end - 1 : doc[i].kind # "meta"
                  \/ I!Cardinality(closes) # 1
           close == CHOOSE i \in closes : TRUE
<1>1. Len(doc) \in Nat /\ DOMAIN doc = 1 .. Len(doc)
  BY ListTyped
<1>2. /\ opens = {i \in 1 .. Len(doc) : doc[i].kind \in {"open", "mention"}}
      /\ ends = {i \in 1 .. Len(doc) : doc[i].kind = "-->" /\ i > open}
      /\ closes = {i \in 1 .. Len(doc) : doc[i].kind = "close" /\ i > end}
  BY <1>1 DEF I!At
<1>3. I!Parsed(doc) = IF opens = {} THEN IF I!At(doc, {"close"}) = {} THEN None ELSE Malformed
                      ELSE IF bad THEN Malformed ELSE [open |-> open, end |-> end, close |-> close]
  BY DEF I!Parsed
<1> HIDE DEF f, opens, open, ends, end, keys, closes, close
<1>4. opens # {} /\ ~ bad /\ f = [open |-> open, end |-> end, close |-> close]
  BY <1>3 DEF f
<1>5. f.open = open /\ f.close = close
  BY <1>4
<1>6. open \in opens
  BY <1>4 DEF open
<1>7. IsFiniteSet(1 .. Len(doc))
  BY <1>1, FS_Interval
<1>8. ASSUME NEW i \in opens PROVE i = open
  <2>1. IsFiniteSet(opens) /\ I!Cardinality(opens) = Cardinality(opens) /\ Cardinality(opens) \in Nat
    BY <1>2, <1>7, FS_Subset, FS_CardinalityType, SameCardinality
  <2>2. Cardinality(opens) # 0
    BY <2>1, <1>6, FS_EmptySet
  <2>3. Cardinality(opens) = 1
    BY <2>1, <2>2, <1>4
  <2> QED BY <2>1, <2>3, <1>6, FS_Singleton
<1>9. PICK c : closes = {c}
  <2>1. IsFiniteSet(closes) /\ I!Cardinality(closes) = Cardinality(closes)
    BY <1>2, <1>7, FS_Subset, SameCardinality
  <2> QED BY <2>1, <1>4, FS_Singleton
<1>10. close \in closes /\ close = c
  BY <1>9 DEF close
<1>11. end \in ends
  <2>1. ends \in SUBSET Nat /\ ends # {}
    BY <1>1, <1>2, <1>4
  <2>2. \E m \in ends : \A k \in ends : m <= k
    BY <2>1, LeastNatural
  <2> QED BY <2>2 DEF end
<1>12. open \in Nat /\ end \in Nat /\ close \in Nat /\ open < end /\ end < close
  BY <1>1, <1>2, <1>6, <1>10, <1>11
<1>13. ASSUME NEW i \in 1 .. Len(doc), doc[i].kind = "close" PROVE i <= close
  <2>1. i > end => i = close
    BY <1>2, <1>9, <1>10, <1>13
  <2> QED BY <2>1, <1>1, <1>12
<1>14. /\ f.open \in 1 .. Len(doc) /\ f.close \in 1 .. Len(doc) /\ f.open < f.close
       /\ doc[f.open].kind \in {"open", "mention"} /\ doc[f.close].kind = "close"
  BY <1>1, <1>2, <1>5, <1>6, <1>10, <1>12
<1>15. \A i \in 1 .. Len(doc) : doc[i].kind \in {"open", "mention"} => i = f.open
  BY <1>2, <1>5, <1>8
<1> QED BY <1>5, <1>13, <1>14, <1>15 DEF FencesAt, f

\* What is generated has its fences, and no line of the operator.
IsBlock(g) ==
    /\ I!IsDocument(g) /\ Len(g) = 7 /\ DOMAIN g = 1 .. 7
    /\ g[2].kind = "open" /\ g[7].kind = "close"
    /\ \A i \in 1 .. 7 : g[i].kind # "note"
    /\ I!Parsed(g).open = 2 /\ I!Parsed(g).close = 7

\* A list is one of its own items.
LEMMA OwnItems ==
    ASSUME NEW Item, NEW s \in Seq(Item)
    PROVE  s \in Seq({s[i] : i \in 1 .. Len(s)})
  OBVIOUS

LEMMA SevenItems ==
    ASSUME NEW c1, NEW c2, NEW c3, NEW c4, NEW c5, NEW c6, NEW c7,
           NEW s, s = <<c1, c2, c3, c4, c5, c6, c7>>
    PROVE  /\ s \in Seq({c1, c2, c3, c4, c5, c6, c7}) /\ Len(s) = 7 /\ DOMAIN s = 1 .. 7
           /\ s[1] = c1 /\ s[2] = c2 /\ s[3] = c3 /\ s[4] = c4 /\ s[5] = c5 /\ s[6] = c6 /\ s[7] = c7
<1>1. /\ Len(s) = 7 /\ DOMAIN s = 1 .. 7
      /\ s[1] = c1 /\ s[2] = c2 /\ s[3] = c3 /\ s[4] = c4 /\ s[5] = c5 /\ s[6] = c6 /\ s[7] = c7
  OBVIOUS
<1>2. s \in Seq({c1, c2, c3, c4, c5, c6, c7})
  OBVIOUS
<1> QED BY <1>1, <1>2

LEMMA GeneratedLines ==
    ASSUME NEW config, NEW g, g = I!Generated(config)
    PROVE  /\ I!IsDocument(g) /\ Len(g) = 7 /\ DOMAIN g = 1 .. 7
           /\ g[1].kind = "title" /\ g[2].kind = "open" /\ g[3].kind = "meta" /\ g[4].kind = "meta"
           /\ g[5].kind = "-->" /\ g[6].kind = "body" /\ g[7].kind = "close"
           /\ g[3].value = "fingerprint" /\ g[4].value = "generated-by"
<1>1. g = <<I!Line("title", None), I!Line("open", None), I!Line("meta", "fingerprint"),
            I!Line("meta", "generated-by"), I!Line("-->", None), I!Line("body", config.adapter),
            I!Line("close", None)>>
  BY DEF I!Generated
<1>2. \A kind, value : I!Line(kind, value).kind = kind /\ I!Line(kind, value).value = value
  BY DEF I!Line
<1>3. /\ Len(g) = 7 /\ DOMAIN g = 1 .. 7
      /\ g[1] = I!Line("title", None) /\ g[2] = I!Line("open", None) /\ g[3] = I!Line("meta", "fingerprint")
      /\ g[4] = I!Line("meta", "generated-by") /\ g[5] = I!Line("-->", None)
      /\ g[6] = I!Line("body", config.adapter) /\ g[7] = I!Line("close", None)
  BY <1>1, SevenItems
<1>4. g \in Seq({g[i] : i \in 1 .. Len(g)})
  BY <1>1, SevenItems, OwnItems
<1> QED BY <1>2, <1>3, <1>4 DEF I!IsDocument

LEMMA GeneratedParses ==
    ASSUME NEW config
    PROVE  IsBlock(I!Generated(config))
<1> DEFINE g == I!Generated(config)
<1>1. /\ g[1].kind = "title" /\ g[2].kind = "open" /\ g[3].kind = "meta" /\ g[4].kind = "meta"
      /\ g[5].kind = "-->" /\ g[6].kind = "body" /\ g[7].kind = "close"
      /\ g[3].value = "fingerprint" /\ g[4].value = "generated-by"
  BY GeneratedLines
<1>2. I!IsDocument(g) /\ Len(g) = 7 /\ DOMAIN g = 1 .. 7
  BY GeneratedLines
<1> HIDE DEF g
<1>3. \A i \in 1 .. 7 : i = 1 \/ i = 2 \/ i = 3 \/ i = 4 \/ i = 5 \/ i = 6 \/ i = 7
  OBVIOUS
<1>4. /\ \A i \in 1 .. 7 : g[i].kind # "note"
      /\ \A i \in 1 .. 7 : g[i].kind \in {"open", "mention"} <=> i = 2
      /\ \A i \in 1 .. 7 : g[i].kind = "close" <=> i = 7
      /\ \A i \in 1 .. 7 : g[i].kind = "-->" <=> i = 5
  BY <1>1, <1>3
<1> DEFINE opens == I!At(g, {"open", "mention"})
           open == CHOOSE i \in opens : TRUE
           ends == {i \in I!At(g, {"-->"}) : i > open}
           end == CHOOSE i \in ends : \A j \in ends : i <= j
           keys == {<<i, g[i].value>> : i \in open + 1 .. end - 1}
           closes == {i \in I!At(g, {"close"}) : i > end}
           bad == \/ I!Cardinality(opens) > 1
                  \/ g[open].kind = "mention" \/ ends = {}
                  \/ keys = {} \/ I!Cardinality({k[2] : k \in keys}) < I!Cardinality(keys)
                  \/ \E i \in open + 1 .. end - 1 : g[i].kind # "meta"
                  \/ I!Cardinality(closes) # 1
           close == CHOOSE i \in closes : TRUE
<1>5. I!Parsed(g) = IF opens = {} THEN IF I!At(g, {"close"}) = {} THEN None ELSE Malformed
                    ELSE IF bad THEN Malformed ELSE [open |-> open, end |-> end, close |-> close]
  BY DEF I!Parsed
<1>6. opens = {2}
  BY <1>2, <1>4 DEF I!At
<1>7. open = 2
  BY <1>6
<1>8. ends = {5}
  BY <1>2, <1>4, <1>7 DEF I!At
<1>9. end = 5
  <2> HIDE DEF ends
  <2> QED BY <1>8
<1>10. closes = {7}
  <2>1. closes = {i \in 1 .. 7 : g[i].kind = "close" /\ i > 5}
    BY <1>2, <1>9 DEF I!At
  <2> HIDE DEF closes
  <2> QED BY <1>4, <2>1
<1>11. close = 7
  BY <1>10
<1>12. keys = {<<3, "fingerprint">>, <<4, "generated-by">>}
  <2>1. 2 + 1 .. 5 - 1 = {3, 4}
    OBVIOUS
  <2>2. keys = {<<i, g[i].value>> : i \in {3, 4}}
    BY <1>7, <1>9, <2>1
  <2> HIDE DEF keys
  <2> QED BY <2>2, <1>1
<1> HIDE DEF opens, open, ends, end, keys, closes, close
<1>13. I!Cardinality(opens) = 1 /\ I!Cardinality(closes) = 1
  BY <1>6, <1>10, FS_Singleton, SameCardinality
<1>14. I!Cardinality({k[2] : k \in keys}) = 2 /\ I!Cardinality(keys) = 2
  <2>1. \A a, b : a # b => Cardinality({a, b}) = 2
    <3> TAKE a, b
    <3>1. IsFiniteSet({a}) /\ Cardinality({a}) = 1
      BY FS_Singleton
    <3>2. {a, b} = {a} \cup {b}
      OBVIOUS
    <3> QED BY <3>1, <3>2, FS_AddElement
  <2>2. {k[2] : k \in keys} = {"fingerprint", "generated-by"}
    BY <1>12
  <2>3. <<3, "fingerprint">> # <<4, "generated-by">> /\ "fingerprint" # "generated-by"
    OBVIOUS
  <2>4. Cardinality(keys) = 2 /\ Cardinality({k[2] : k \in keys}) = 2
    BY <1>12, <2>1, <2>2, <2>3
  <2> QED BY <2>4, SameCardinality
<1>15. ~ bad
  <2>1. g[open].kind # "mention" /\ ends # {} /\ keys # {}
    BY <1>1, <1>7, <1>8, <1>12
  <2>2. \A i \in open + 1 .. end - 1 : g[i].kind = "meta"
    BY <1>1, <1>7, <1>9
  <2>3. ~ (I!Cardinality(opens) > 1) /\ ~ (I!Cardinality({k[2] : k \in keys}) < I!Cardinality(keys))
    BY <1>13, <1>14
  <2> QED BY <2>1, <2>2, <2>3, <1>13
<1>16. I!Parsed(g) = [open |-> 2, end |-> 5, close |-> 7]
  BY <1>5, <1>6, <1>7, <1>9, <1>11, <1>15
<1> QED BY <1>1, <1>2, <1>4, <1>16 DEF IsBlock, g

\* The document as it is planned: the block is new, what is around it is old.
Framed(doc, f, g, q, a, b) ==
    /\ a \in Nat /\ b \in Nat /\ f.open = a + 1 /\ f.close \in Nat /\ a + 1 < f.close /\ Len(doc) = f.close + b
    /\ I!IsDocument(q) /\ Len(q) = a + 6 + b
    /\ \A i \in 1 .. a : q[i] = doc[i]
    /\ \A i \in 1 .. 6 : q[a + i] = g[i + 1]
    /\ \A i \in 1 .. b : q[a + 6 + i] = doc[f.close + i]

\* One list after another: where the items of both are.
Joins(u, s, t) ==
    /\ Len(s) \in Nat /\ Len(t) \in Nat /\ Len(u) = Len(s) + Len(t)
    /\ \A j \in 1 .. Len(s) : u[j] = s[j]
    /\ \A j \in 1 .. Len(t) : u[Len(s) + j] = t[j]

LEMMA Joined ==
    ASSUME NEW Item, NEW s \in Seq(Item), NEW t \in Seq(Item), NEW u, u = s \o t
    PROVE  u \in Seq(Item) /\ Joins(u, s, t)
<1>1. /\ s \o t \in Seq(Item) /\ Len(s \o t) = Len(s) + Len(t) /\ Len(s) \in Nat /\ Len(t) \in Nat
      /\ \A j \in 1 .. Len(s) : (s \o t)[j] = s[j]
      /\ \A j \in 1 .. Len(t) : (s \o t)[Len(s) + j] = t[j]
  <2>1. \A j \in 1 .. Len(s) : (s \o t)[j] = s[j]
    BY Concatenated
  <2>2. \A j \in 1 .. Len(t) : (s \o t)[Len(s) + j] = t[j]
    BY Concatenated
  <2> QED BY <2>1, <2>2
<1> DEFINE v == s \o t
<1>2. v = u
  OBVIOUS
<1> HIDE DEF v
<1>3. /\ v \in Seq(Item) /\ Len(v) = Len(s) + Len(t) /\ Len(s) \in Nat /\ Len(t) \in Nat
      /\ \A j \in 1 .. Len(s) : v[j] = s[j]
      /\ \A j \in 1 .. Len(t) : v[Len(s) + j] = t[j]
  BY <1>1 DEF v
<1> QED BY <1>2, <1>3 DEF Joins

\* Three lists, one after the other.
InThree(q, front, block, rest, a, b) ==
    /\ Len(q) = a + 6 + b
    /\ \A i \in 1 .. a : q[i] = front[i]
    /\ \A i \in 1 .. 6 : q[a + i] = block[i]
    /\ \A i \in 1 .. b : q[a + 6 + i] = rest[i]

LEMMA ThreeLists ==
    ASSUME NEW Item, NEW front \in Seq(Item), NEW block \in Seq(Item), NEW rest \in Seq(Item),
           NEW a \in Nat, NEW b \in Nat, Len(front) = a, Len(block) = 6, Len(rest) = b,
           NEW q, q = front \o block \o rest
    PROVE  q \in Seq(Item) /\ InThree(q, front, block, rest, a, b)
<1> DEFINE most == front \o block
<1>1. most = front \o block /\ q = most \o rest
  OBVIOUS
<1> HIDE DEF most
<1>2. most \in Seq(Item) /\ Joins(most, front, block)
  BY <1>1, Joined
<1>3. q \in Seq(Item) /\ Joins(q, most, rest)
  BY <1>1, <1>2, Joined
<1>4. /\ Len(most) = a + 6
      /\ \A i \in 1 .. a : most[i] = front[i]
      /\ \A i \in 1 .. 6 : most[a + i] = block[i]
  BY <1>2 DEF Joins
<1>5. /\ Len(q) = (a + 6) + b
      /\ \A i \in 1 .. a + 6 : q[i] = most[i]
      /\ \A i \in 1 .. b : q[(a + 6) + i] = rest[i]
  BY <1>3, <1>4 DEF Joins
<1>6. ASSUME NEW i \in 1 .. a PROVE q[i] = front[i]
  <2>1. i \in 1 .. a + 6
    OBVIOUS
  <2> QED BY <2>1, <1>4, <1>5
<1>7. ASSUME NEW i \in 1 .. 6 PROVE q[a + i] = block[i]
  <2>1. a + i \in 1 .. a + 6
    OBVIOUS
  <2> QED BY <2>1, <1>4, <1>5
<1> QED BY <1>3, <1>5, <1>6, <1>7 DEF InThree

\* A part of a list: k items, from the one behind place m.
Cuts(u, s, m, k) == Len(u) = k /\ \A i \in 1 .. k : u[i] = s[m + i]

LEMMA PartOfList ==
    ASSUME NEW Item, NEW s \in Seq(Item), NEW m \in Nat, NEW k \in Nat, m + k <= Len(s),
           NEW u, u = SubSeq(s, m + 1, m + k)
    PROVE  u \in Seq(Item) /\ Cuts(u, s, m, k)
<1>1. Len(s) \in Nat /\ DOMAIN s = 1 .. Len(s)
  OBVIOUS
<1>2. u \in Seq(Item)
  <2>1. \A i \in m + 1 .. m + k : s[i] \in Item
    BY <1>1
  <2> QED BY <2>1
<1>3. Len(u) = k
  BY <1>1
<1>4. \A i \in 1 .. k : u[i] = s[m + i]
  BY <1>1, <1>3
<1> QED BY <1>2, <1>3, <1>4 DEF Cuts

LEMMA PlannedLines ==
    ASSUME NEW doc, I!IsDocument(doc), doc # None, I!Parsed(doc) \notin {None, Malformed}, NEW g, IsBlock(g),
           NEW f, f = I!Parsed(doc), NEW q, q = I!Planned(doc, g)
    PROVE  Framed(doc, f, g, q, f.open - 1, Len(doc) - f.close)
<1> DEFINE Item == {doc[i] : i \in 1 .. Len(doc)} \cup {g[i] : i \in 1 .. Len(g)}
           a == f.open - 1
           b == Len(doc) - f.close
           front == SubSeq(doc, 1, a)
           block == SubSeq(g, 2, 7)
           rest == SubSeq(doc, f.close + 1, Len(doc))
<1>1. /\ Len(doc) \in Nat
      /\ f.open \in 1 .. Len(doc) /\ f.close \in 1 .. Len(doc) /\ f.open < f.close
  BY FencesFound, ListTyped DEF FencesAt
<1>2. /\ a \in Nat /\ b \in Nat /\ f.open = a + 1 /\ f.close \in Nat /\ f.close <= Len(doc)
      /\ a + 1 < f.close /\ Len(doc) = f.close + b /\ a <= Len(doc)
  BY <1>1
<1>3. Len(g) = 7 /\ I!Parsed(g).open = 2 /\ I!Parsed(g).close = 7
  BY DEF IsBlock
<1>4. doc \in Seq(Item) /\ g \in Seq(Item)
  <2>1. doc \in Seq({doc[i] : i \in 1 .. Len(doc)}) /\ g \in Seq({g[i] : i \in 1 .. Len(g)})
    BY DEF IsBlock, I!IsDocument
  <2> QED BY <2>1
<1>5. q = front \o block \o rest
  BY <1>3 DEF I!Planned
<1> HIDE DEF Item, front, block, rest, a, b
<1>6. front \in Seq(Item) /\ Len(front) = a /\ \A i \in 1 .. a : front[i] = doc[i]
  <2>1. front = SubSeq(doc, 0 + 1, 0 + a) /\ 0 \in Nat /\ 0 + a <= Len(doc)
    BY <1>1, <1>2 DEF front
  <2>2. front \in Seq(Item) /\ Cuts(front, doc, 0, a)
    BY <1>2, <1>4, <2>1, PartOfList
  <2>3. \A i \in 1 .. a : 0 + i = i
    BY <1>2
  <2> QED BY <2>2, <2>3 DEF Cuts
<1>7. block \in Seq(Item) /\ Len(block) = 6 /\ \A i \in 1 .. 6 : block[i] = g[i + 1]
  <2>1. block = SubSeq(g, 1 + 1, 1 + 6) /\ 1 + 6 <= Len(g) /\ 1 \in Nat /\ 6 \in Nat
    BY <1>3 DEF block
  <2>2. block \in Seq(Item) /\ Cuts(block, g, 1, 6)
    BY <1>4, <2>1, PartOfList
  <2>3. \A i \in 1 .. 6 : 1 + i = i + 1
    OBVIOUS
  <2> QED BY <2>2, <2>3 DEF Cuts
<1>8. rest \in Seq(Item) /\ Len(rest) = b /\ \A i \in 1 .. b : rest[i] = doc[f.close + i]
  <2>1. rest = SubSeq(doc, f.close + 1, f.close + b) /\ f.close + b <= Len(doc)
    BY <1>1, <1>2 DEF rest
  <2>2. rest \in Seq(Item) /\ Cuts(rest, doc, f.close, b)
    BY <1>2, <1>4, <2>1, PartOfList
  <2> QED BY <2>2 DEF Cuts
<1>9. /\ q \in Seq(Item) /\ Len(q) = a + 6 + b
      /\ \A i \in 1 .. a : q[i] = front[i]
      /\ \A i \in 1 .. 6 : q[a + i] = block[i]
      /\ \A i \in 1 .. b : q[a + 6 + i] = rest[i]
  <2>1. q \in Seq(Item) /\ InThree(q, front, block, rest, a, b)
    BY <1>2, <1>5, <1>6, <1>7, <1>8, ThreeLists
  <2> QED BY <2>1 DEF InThree
<1>10. I!IsDocument(q)
  <2>1. q \in Seq(Item)
    BY <1>9
  <2> QED BY <2>1 DEF I!IsDocument
<1>11. /\ \A i \in 1 .. a : q[i] = doc[i]
       /\ \A i \in 1 .. 6 : q[a + i] = g[i + 1]
       /\ \A i \in 1 .. b : q[a + 6 + i] = doc[f.close + i]
  <2>1. \A i \in 1 .. a : q[i] = doc[i]
    BY <1>6, <1>9
  <2>2. \A i \in 1 .. 6 : q[a + i] = g[i + 1]
    BY <1>7, <1>9
  <2>3. \A i \in 1 .. b : q[a + 6 + i] = doc[f.close + i]
    BY <1>8, <1>9
  <2> QED BY <2>1, <2>2, <2>3
<1>12. Framed(doc, f, g, q, a, b)
  BY <1>2, <1>9, <1>10, <1>11 DEF Framed
<1> QED BY <1>12 DEF a, b

\* The fences of what is planned are those of the new block.
LEMMA PlannedFences ==
    ASSUME NEW doc, NEW f, NEW g, NEW q, NEW h, NEW a, NEW b,
           I!IsDocument(doc), IsBlock(g), FencesAt(doc, f), Framed(doc, f, g, q, a, b), FencesAt(q, h)
    PROVE  h.open = a + 1 /\ h.close = a + 6
<1>1. /\ a \in Nat /\ b \in Nat /\ f.close \in Nat /\ Len(doc) = f.close + b /\ Len(q) = a + 6 + b
  BY DEF Framed
<1>2. h.close \in 1 .. Len(q) /\ q[h.close].kind = "close"
  BY DEF FencesAt
<1>3. 1 \in 1 .. 6 /\ 6 \in 1 .. 6 /\ 1 + 1 = 2 /\ 6 + 1 = 7
  OBVIOUS
<1>4. q[a + 1] = g[2] /\ q[a + 6] = g[7]
  BY <1>3 DEF Framed
<1>5. a + 1 \in 1 .. Len(q) /\ a + 6 \in 1 .. Len(q)
  BY <1>1
<1>6. q[a + 1].kind = "open" /\ q[a + 6].kind = "close"
  BY <1>4 DEF IsBlock
<1>7. h.open = a + 1
  BY <1>5, <1>6 DEF FencesAt
<1>8. a + 6 <= h.close
  <2>1. \A i \in 1 .. Len(q) : q[i].kind = "close" => i <= h.close
    BY DEF FencesAt
  <2> QED BY <1>5, <1>6, <2>1
<1>9. ~ (a + 6 < h.close)
  <2> SUFFICES ASSUME a + 6 < h.close PROVE FALSE
    OBVIOUS
  <2> DEFINE k == h.close - (a + 6)
  <2>0. h.close \in Nat /\ h.close <= a + 6 + b
    BY <1>1, <1>2
  <2>k. k \in 1 .. b /\ h.close = a + 6 + k
    BY <1>1, <2>0
  <2> HIDE DEF k
  <2>1. f.close + k \in 1 .. Len(doc) /\ ~ (f.close + k <= f.close)
    BY <1>1, <2>k
  <2>2. q[a + 6 + k] = doc[f.close + k]
    BY <2>k DEF Framed
  <2>3. doc[f.close + k].kind = "close"
    BY <1>2, <2>k, <2>2
  <2> QED BY <2>1, <2>3 DEF FencesAt
<1>10. h.close \in Nat
  BY <1>1, <1>2
<1> QED BY <1>1, <1>7, <1>8, <1>9, <1>10

\* In what is planned, too, no line between the fences is the operator's.
LEMMA PlannedFenced ==
    ASSUME NEW doc, I!Fenced(doc), NEW config, NEW q, q = I!Planned(doc, I!Generated(config)), q # Malformed
    PROVE  I!Fenced(q)
<1> DEFINE g == I!Generated(config)
<1>0. IsBlock(g)
  BY GeneratedParses
<1>1. CASE doc = None
  <2>1. q = g
    BY <1>1 DEF I!Planned
  <2> HIDE DEF g
  <2>2. \A i \in 2 .. 7 : i \in 1 .. 7
    OBVIOUS
  <2>3. I!IsDocument(g) /\ \A i \in I!Parsed(g).open .. I!Parsed(g).close : g[i].kind # "note"
    BY <1>0, <2>2 DEF IsBlock
  <2> QED BY <2>1, <2>3 DEF I!Fenced
<1>2. CASE doc # None
  <2> DEFINE f == I!Parsed(doc)
             h == I!Parsed(q)
             a == f.open - 1
             b == Len(doc) - f.close
  <2>1. I!IsDocument(doc) /\ f \notin {None, Malformed}
    BY <1>2 DEF I!Fenced, I!Planned
  <2> HIDE DEF g
  <2>2. FencesAt(doc, f)
    BY <2>1, FencesFound
  <2>3. q = I!Planned(doc, g)
    BY DEF g
  <2>4. Framed(doc, f, g, q, a, b)
    BY <1>0, <1>2, <2>1, <2>3, PlannedLines
  <2> HIDE DEF a, b, f
  <2>5. I!IsDocument(q)
    BY <2>4 DEF Framed
  <2>6. ASSUME h \notin {None, Malformed}, NEW i \in h.open .. h.close
        PROVE  q[i].kind # "note"
    <3>1. FencesAt(q, h)
      BY <2>5, <2>6, FencesFound
    <3> HIDE DEF h
    <3>2. h.open = a + 1 /\ h.close = a + 6
      BY <1>0, <2>1, <2>2, <2>4, <3>1, PlannedFences
    <3>3. a \in Nat
      BY <2>4 DEF Framed
    <3> DEFINE k == i - a
    <3>4. k \in 1 .. 6 /\ i = a + k /\ k + 1 \in 1 .. 7
      BY <2>6, <3>2, <3>3
    <3> HIDE DEF k
    <3>5. q[a + k] = g[k + 1]
      BY <2>4, <3>4 DEF Framed
    <3> QED BY <1>0, <3>4, <3>5 DEF IsBlock
  <2> QED BY <2>5, <2>6 DEF I!Fenced
<1> QED BY <1>1, <1>2

\* The lines of the operator, with their places before and after.
LEMMA NotesMove ==
    ASSUME NEW doc, NEW f, NEW g, NEW q, NEW a, NEW b,
           I!IsDocument(doc), IsBlock(g), FencesAt(doc, f), Framed(doc, f, g, q, a, b),
           \A i \in f.open .. f.close : doc[i].kind # "note"
    PROVE  Select(doc, {i \in DOMAIN doc : doc[i].kind = "note"}) = Select(q, {i \in DOMAIN q : q[i].kind = "note"})
<1> DEFINE Picked == {i \in DOMAIN doc : doc[i].kind = "note"}
           Others == {i \in DOMAIN q : q[i].kind = "note"}
           Before(i) == i \in 1 .. a
           Behind(i) == i - f.close \in 1 .. b /\ i \in Nat
           move == [i \in Picked |-> IF i < f.open THEN i ELSE a + 6 + (i - f.close)]
<1>1. /\ a \in Nat /\ b \in Nat /\ f.open = a + 1 /\ f.close \in Nat /\ a + 1 < f.close
      /\ Len(doc) = f.close + b /\ Len(q) = a + 6 + b
  BY DEF Framed
<1>2. DOMAIN doc = 1 .. f.close + b /\ DOMAIN q = 1 .. a + 6 + b
  <2>1. I!IsDocument(q)
    BY DEF Framed
  <2> QED BY <1>1, <2>1, ListTyped
<1>3. \A i \in Picked : i \in 1 .. f.close + b /\ doc[i].kind = "note"
  BY <1>2
<1>4. \A i \in Others : i \in 1 .. a + 6 + b /\ q[i].kind = "note"
  BY <1>2
<1>5. ASSUME NEW i \in Picked PROVE Before(i) \/ Behind(i)
  <2>1. i \in 1 .. f.close + b /\ i \notin f.open .. f.close
    BY <1>3
  <2> HIDE DEF Picked
  <2> QED BY <1>1, <2>1
<1>6. ASSUME NEW i \in Picked, Before(i)
      PROVE  move[i] = i /\ q[i] = doc[i] /\ i \in Others
  <2>1. i < f.open /\ i \in 1 .. a + 6 + b
    BY <1>1, <1>6
  <2>2. q[i] = doc[i]
    BY <1>6 DEF Framed
  <2>3. move[i] = i
    BY <2>1
  <2>4. q[i].kind = "note"
    BY <1>3, <2>2
  <2>5. i \in Others
    BY <1>2, <2>1, <2>4
  <2> QED BY <2>2, <2>3, <2>5
<1>7. ASSUME NEW i \in Picked, Behind(i)
      PROVE  move[i] = a + 6 + (i - f.close) /\ q[a + 6 + (i - f.close)] = doc[i] /\ a + 6 + (i - f.close) \in Others
  <2> DEFINE k == i - f.close
  <2>0. k \in 1 .. b /\ i \in Nat
    BY <1>7
  <2>1. k \in 1 .. b /\ ~ (i < f.open) /\ f.close + k = i /\ a + 6 + k \in 1 .. a + 6 + b
    <3>1. f.close + k = i
      BY <1>1, <2>0
    <3> HIDE DEF k
    <3>2. f.close < i /\ a + 6 + k \in 1 .. a + 6 + b
      BY <1>1, <2>0, <3>1
    <3> QED BY <1>1, <2>0, <3>1, <3>2
  <2>2. move[i] = a + 6 + k
    BY <2>1
  <2> HIDE DEF k, move
  <2>3. q[a + 6 + k] = doc[f.close + k]
    BY <2>1 DEF Framed
  <2>4. q[a + 6 + k].kind = "note"
    BY <1>3, <2>1, <2>3
  <2> QED BY <1>2, <2>1, <2>2, <2>3, <2>4 DEF k
<1>8. ASSUME NEW j \in Others PROVE \E i \in Picked : move[i] = j
  <2>1. j \in 1 .. a + 6 + b /\ q[j].kind = "note"
    BY <1>4
  <2>2. CASE j <= a
    <3>1. j \in 1 .. a /\ j \in 1 .. f.close + b
      BY <1>1, <2>1, <2>2
    <3>2. q[j] = doc[j]
      BY <3>1 DEF Framed
    <3>3. j \in Picked
      <4>1. doc[j].kind = "note"
        BY <2>1, <3>2
      <4> QED BY <1>2, <3>1, <4>1
    <3> HIDE DEF Picked, Others, move
    <3> QED BY <1>6, <3>1, <3>3
  <2>3. CASE a < j /\ j <= a + 6
    <3> DEFINE k == j - a
    <3>0. j \in Nat /\ a \in Nat
      BY <1>1, <2>1
    <3>1. k \in 1 .. 6 /\ a + k = j
      BY <2>3, <3>0
    <3> HIDE DEF k
    <3>4. k + 1 \in 1 .. 7
      BY <3>1
    <3>2. q[a + k] = g[k + 1]
      BY <3>1 DEF Framed
    <3>3. g[k + 1].kind # "note"
      BY <3>4 DEF IsBlock
    <3> QED BY <2>1, <3>1, <3>2, <3>3
  <2>4. CASE a + 6 < j
    <3> DEFINE k == j - (a + 6)
               i == f.close + k
    <3>1. /\ k \in 1 .. b /\ a + 6 + k = j /\ i \in 1 .. f.close + b
          /\ i - f.close = k /\ i \in Nat
      BY <1>1, <2>1, <2>4
    <3>2. q[a + 6 + k] = doc[f.close + k]
      BY <3>1 DEF Framed
    <3>3. i \in Picked
      <4>1. doc[i].kind = "note"
        BY <2>1, <3>1, <3>2
      <4> HIDE DEF i
      <4> QED BY <1>2, <3>1, <4>1
    <3> HIDE DEF i, k, Picked, Others, move
    <3>4. Behind(i)
      BY <3>1
    <3>5. move[i] = j
      BY <1>7, <3>1, <3>3, <3>4
    <3> QED BY <3>3, <3>5
  <2>5. j <= a \/ (a < j /\ j <= a + 6) \/ a + 6 < j
    BY <1>1, <2>1
  <2> QED BY <2>2, <2>3, <2>4, <2>5
<1> HIDE DEF move
<1>9. ASSUME NEW i \in Picked, NEW j \in Picked, i < j PROVE move[i] < move[j]
  <2>1. (Before(i) /\ move[i] = i) \/ (Behind(i) /\ move[i] = a + 6 + (i - f.close))
    BY <1>5, <1>6, <1>7
  <2>2. (Before(j) /\ move[j] = j) \/ (Behind(j) /\ move[j] = a + 6 + (j - f.close))
    BY <1>5, <1>6, <1>7
  <2> HIDE DEF Picked
  <2>3. CASE Before(i) /\ Before(j)
    BY <1>6, <1>9, <2>3
  <2>4. CASE Before(i) /\ Behind(j)
    <3>1. i \in 1 .. a /\ j - f.close \in 1 .. b /\ j \in Nat
      BY <2>4
    <3>2. move[i] = i
      BY <1>6, <2>4
    <3>3. move[j] = a + 6 + (j - f.close)
      BY <1>7, <2>4
    <3> QED BY <1>1, <3>1, <3>2, <3>3
  <2>5. CASE Behind(i) /\ Before(j)
    BY <1>1, <1>9, <2>5
  <2>6. CASE Behind(i) /\ Behind(j)
    <3>1. i \in Nat /\ j \in Nat
      BY <2>6
    <3>2. move[i] = a + 6 + (i - f.close) /\ move[j] = a + 6 + (j - f.close)
      BY <1>7, <2>6
    <3> QED BY <1>1, <1>9, <3>1, <3>2
  <2> QED BY <2>1, <2>2, <2>3, <2>4, <2>5, <2>6
<1>10. \A i \in Picked : move[i] \in Others /\ q[move[i]] = doc[i]
  <2> HIDE DEF Picked, Others, Before, Behind
  <2> QED BY <1>5, <1>6, <1>7
<1>11. move \in [Picked -> Others]
  <2>1. move = [i \in Picked |-> move[i]]
    BY DEF move
  <2> HIDE DEF Picked, Others
  <2> QED BY <1>10, <2>1
<1>12. Picked \in SUBSET Nat /\ IsFiniteSet(Picked) /\ Others \in SUBSET Nat /\ IsFiniteSet(Others)
  <2>1. Picked \in SUBSET (1 .. f.close + b) /\ Others \in SUBSET (1 .. a + 6 + b)
    BY <1>2
  <2>2. 1 \in Int /\ f.close + b \in Int /\ a + 6 + b \in Int
    BY <1>1
  <2>3. IsFiniteSet(1 .. f.close + b) /\ IsFiniteSet(1 .. a + 6 + b)
    BY <2>2, FS_Interval
  <2> HIDE DEF Picked, Others
  <2>4. IsFiniteSet(Picked)
    BY <2>1, <2>3, FS_Subset
  <2>5. IsFiniteSet(Others)
    BY <2>1, <2>3, FS_Subset
  <2>6. 1 .. f.close + b \in SUBSET Nat /\ 1 .. a + 6 + b \in SUBSET Nat
    BY <2>2
  <2> QED BY <2>1, <2>4, <2>5, <2>6
<1> HIDE DEF Picked, Others
<1>13. Select(doc, Picked) = Select(q, Others)
  BY <1>8, <1>9, <1>10, <1>11, <1>12, SelectMoved
<1> QED BY <1>13 DEF Picked, Others

\* A write of AGENTS.md that is planned keeps the lines of the operator.
LEMMA NotesStay ==
    ASSUME NEW doc, I!Fenced(doc), NEW config, NEW q, q = I!Planned(doc, I!Generated(config)), q # Malformed,
           NoneIsNoList
    PROVE  I!Notes(q) = I!Notes(doc)
<1> DEFINE g == I!Generated(config)
           Picked == {i \in DOMAIN doc : doc[i].kind = "note"}
           Others == {i \in DOMAIN q : q[i].kind = "note"}
<1>0. IsBlock(g)
  BY GeneratedParses
<1>1. q # None => I!Notes(q) = Select(q, Others)
  <2>1. q # None => I!Notes(q) = I!Select(q, Others)
    BY DEF I!Notes, I!Filtered
  <2> HIDE DEF Others
  <2> QED BY <2>1, SameSelect
<1>2. CASE doc = None
  <2>1. q = g
    BY <1>2 DEF I!Planned
  <2> HIDE DEF g
  <2>2. Others = {}
    BY <1>0, <2>1 DEF IsBlock
  <2> HIDE DEF Others
  <2>3. Select(q, Others) = << >>
    BY <2>2, FS_EmptySet DEF Select
  <2>4. I!Notes(doc) = << >> /\ (q = None => I!Notes(q) = << >>)
    BY <1>2 DEF I!Notes
  <2> QED BY <1>1, <2>3, <2>4
<1>3. CASE doc # None
  <2> DEFINE f == I!Parsed(doc)
             a == f.open - 1
             b == Len(doc) - f.close
  <2>1. I!IsDocument(doc) /\ f \notin {None, Malformed}
    BY <1>3 DEF I!Fenced, I!Planned
  <2>2. \A i \in f.open .. f.close : doc[i].kind # "note"
    BY <1>3, <2>1 DEF I!Fenced
  <2>3. q = I!Planned(doc, g)
    OBVIOUS
  <2> HIDE DEF g
  <2>4. FencesAt(doc, f)
    BY <2>1, FencesFound
  <2>5. Framed(doc, f, g, q, a, b)
    BY <1>0, <1>3, <2>1, <2>3, PlannedLines
  <2> HIDE DEF a, b, f
  <2>6. Select(doc, Picked) = Select(q, Others)
    BY <1>0, <2>1, <2>2, <2>4, <2>5, NotesMove
  <2>7. I!Notes(doc) = Select(doc, Picked)
    <3>1. I!Notes(doc) = I!Select(doc, Picked)
      BY <1>3 DEF I!Notes, I!Filtered
    <3> HIDE DEF Picked
    <3> QED BY <3>1, SameSelect
  <2>8. q # None
    BY <2>5 DEF NoneIsNoList, Framed, I!IsDocument
  <2> QED BY <1>1, <2>6, <2>7, <2>8
<1> QED BY <1>2, <1>3

\* A behaviour of this part is one of ProjectInit.
LEMMA SetupPart ==
    /\ PartsInit /\ part = "init" => I!Init
    /\ [PartsNext]_allVars => part' = part /\ (part = "init" => [I!Next]_(I!initVars))
<1>1. CASE UNCHANGED allVars
  BY <1>1 DEF PartsInit, allVars, initVars, I!initVars
<1>2. CASE PartsNext
  BY <1>2 DEF PartsInit, PartsNext
<1>3. CASE ~ [PartsNext]_allVars
  BY <1>3 DEF PartsInit
<1> QED BY <1>1, <1>2, <1>3

\* A run that is about to write AGENTS.md writes what it planned for what it saw.
PlannedFrom(mem) ==
    /\ I!Fenced(mem.seen) /\ mem.agents # Malformed
    /\ \E config : mem.agents = I!Planned(mem.seen, I!Generated(config))

NotesInv ==
    /\ "agents" \in DOMAIN project /\ I!Fenced(project.agents)
    /\ inits = [p \in Processes |-> inits[p]]
    /\ \A p \in Processes :
        /\ {"at", "mem", "was"} \subseteq DOMAIN inits[p]
        /\ inits[p].at = "write" => PlannedFrom(inits[p].mem)

\* Only the write itself takes a run on from there.
WritesOnly ==
    \A p \in Processes :
        inits[p].at = "write" => inits'[p].at \in {"write", "killed"} \/ I!WriteAgents(p)

LEMMA NotesInit == I!Init => NotesInv
<1> SUFFICES ASSUME I!Init PROVE NotesInv
  OBVIOUS
<1>1. "agents" \in DOMAIN project
  <2>1. project \in Projects
    BY DEF I!Init
  <2>2. project = [dir |-> project.dir, config |-> project.config, dirs |-> project.dirs, stamp |-> project.stamp,
                   agents |-> project.agents, lock |-> project.lock, wasm |-> project.wasm, ignore |-> project.ignore,
                   registry |-> project.registry, slot |-> project.slot]
    BY <2>1, ProjectInitAssumption
  <2> QED BY <2>2
<1>2. I!Fenced(project.agents)
  BY DocumentsAssumption DEF I!Init
<1>3. \A p \in Processes : inits[p] = I!Idle
  BY DEF I!Init
<1>4. I!Idle.at = "idle" /\ {"at", "mem", "was"} \subseteq DOMAIN I!Idle
  BY DEF I!Idle
<1>5. inits = [p \in Processes |-> inits[p]]
  BY DEF I!Init
<1> QED BY <1>1, <1>2, <1>3, <1>4, <1>5 DEF NotesInv

\* A step that is not about AGENTS.md.
LEMMA NotesKeep ==
    ASSUME NotesInv, NEW p \in Processes, NEW r, inits' = [inits EXCEPT ![p] = r],
           {"at", "mem", "was"} \subseteq DOMAIN r,
           inits[p].at # "write" \/ r.at = "killed", r.at # "write" \/ PlannedFrom(r.mem),
           "agents" \in DOMAIN project', project'.agents = project.agents
    PROVE  NotesInv' /\ WritesOnly
<1>1. inits' = [q \in Processes |-> inits'[q]] /\ inits'[p] = r
      /\ \A q \in Processes : q # p => inits'[q] = inits[q]
  BY DEF NotesInv
<1>2. I!Fenced(project'.agents)
  BY DEF NotesInv
<1>3. ASSUME NEW q \in Processes
      PROVE  /\ {"at", "mem", "was"} \subseteq DOMAIN inits'[q]
             /\ inits'[q].at = "write" => PlannedFrom(inits'[q].mem)
             /\ inits[q].at = "write" => inits'[q].at \in {"write", "killed"}
  BY <1>1 DEF NotesInv
<1> QED BY <1>1, <1>2, <1>3 DEF NotesInv, WritesOnly, I!Fenced, PlannedFrom

\* A record of a run with other values has the fields it had.
LEMMA OtherValues ==
    ASSUME NotesInv, NEW p \in Processes, NEW at
    PROVE  /\ {"at", "mem", "was"} \subseteq DOMAIN [inits[p] EXCEPT !.at = at]
           /\ [inits[p] EXCEPT !.at = at].at = at
           /\ \A mem : /\ {"at", "mem", "was"} \subseteq DOMAIN [inits[p] EXCEPT !.at = at, !.mem = mem]
                       /\ [inits[p] EXCEPT !.at = at, !.mem = mem].at = at
                       /\ [inits[p] EXCEPT !.at = at, !.mem = mem].mem = mem
BY DEF NotesInv

LEMMA StepKeeps ==
    ASSUME NotesInv, NEW p \in Processes, NEW at, I!Step(p, at), inits[p].at # "write", at # "write",
           "agents" \in DOMAIN project', project'.agents = project.agents
    PROVE  NotesInv' /\ WritesOnly
<1>1. inits' = [inits EXCEPT ![p] = [inits[p] EXCEPT !.at = at]]
  BY DEF I!Step, I!Become
<1> QED BY <1>1, OtherValues, NotesKeep

LEMMA KeepKeeps ==
    ASSUME NotesInv, NEW p \in Processes, NEW at, NEW mem, I!Keep(p, at, mem), inits[p].at # "write",
           at # "write" \/ PlannedFrom(mem),
           "agents" \in DOMAIN project', project'.agents = project.agents
    PROVE  NotesInv' /\ WritesOnly
<1>1. inits' = [inits EXCEPT ![p] = [inits[p] EXCEPT !.at = at, !.mem = mem]]
  BY DEF I!Keep, I!Become
<1> QED BY <1>1, OtherValues, NotesKeep

LEMMA PutKeeps ==
    ASSUME NotesInv
    PROVE  /\ \A dir, files : "agents" \in DOMAIN I!Put(dir, files) /\ I!Put(dir, files).agents = project.agents
           /\ "agents" \in DOMAIN project
BY DEF NotesInv, I!Put

LEMMA BecomeKeeps ==
    ASSUME NotesInv, NEW p \in Processes, inits[p].at # "write",
           "agents" \in DOMAIN project', project'.agents = project.agents,
           NEW r, I!Become(p, r), r.at # "write", DOMAIN r = DOMAIN inits[p]
    PROVE  NotesInv' /\ WritesOnly
<1>1. inits' = [inits EXCEPT ![p] = r] /\ {"at", "mem", "was"} \subseteq DOMAIN r
  BY DEF I!Become, NotesInv
<1> QED BY <1>1, NotesKeep

\* The steps that set another field of the run as well.
Turn(p, at) ==
    \/ \E dir : I!Become(p, [inits[p] EXCEPT !.at = at, !.into = dir])
    \/ \E left : I!Become(p, [inits[p] EXCEPT !.at = at, !.left = left])
    \/ \E left : I!Become(p, [inits[p] EXCEPT !.left = left, !.mem = None, !.at = at])
    \/ \E from, mem : I!Become(p, [inits[p] EXCEPT !.at = at, !.origin = from, !.mem = mem])

LEMMA TurnKeeps ==
    ASSUME NotesInv, NEW p \in Processes, inits[p].at # "write", NEW at, at # "write", Turn(p, at),
           "agents" \in DOMAIN project', project'.agents = project.agents
    PROVE  NotesInv' /\ WritesOnly
<1>1. "at" \in DOMAIN inits[p]
  BY DEF NotesInv
<1>2. ASSUME NEW dir, I!Become(p, [inits[p] EXCEPT !.at = at, !.into = dir]) PROVE NotesInv' /\ WritesOnly
  <2> DEFINE r == [inits[p] EXCEPT !.at = at, !.into = dir]
  <2>1. r.at = at /\ DOMAIN r = DOMAIN inits[p] /\ I!Become(p, r)
    BY <1>1, <1>2
  <2> HIDE DEF r
  <2> QED BY <2>1, BecomeKeeps
<1>3. ASSUME NEW left, I!Become(p, [inits[p] EXCEPT !.at = at, !.left = left]) PROVE NotesInv' /\ WritesOnly
  <2> DEFINE r == [inits[p] EXCEPT !.at = at, !.left = left]
  <2>1. r.at = at /\ DOMAIN r = DOMAIN inits[p] /\ I!Become(p, r)
    BY <1>1, <1>3
  <2> HIDE DEF r
  <2> QED BY <2>1, BecomeKeeps
<1>4. ASSUME NEW left, I!Become(p, [inits[p] EXCEPT !.left = left, !.mem = None, !.at = at])
      PROVE  NotesInv' /\ WritesOnly
  <2> DEFINE r == [inits[p] EXCEPT !.left = left, !.mem = None, !.at = at]
  <2>1. r.at = at /\ DOMAIN r = DOMAIN inits[p] /\ I!Become(p, r)
    BY <1>1, <1>4
  <2> HIDE DEF r
  <2> QED BY <2>1, BecomeKeeps
<1>5. ASSUME NEW from, NEW mem, I!Become(p, [inits[p] EXCEPT !.at = at, !.origin = from, !.mem = mem])
      PROVE  NotesInv' /\ WritesOnly
  <2> DEFINE r == [inits[p] EXCEPT !.at = at, !.origin = from, !.mem = mem]
  <2>1. r.at = at /\ DOMAIN r = DOMAIN inits[p] /\ I!Become(p, r)
    BY <1>1, <1>5
  <2> HIDE DEF r
  <2> QED BY <2>1, BecomeKeeps
<1> QED BY <1>2, <1>3, <1>4, <1>5 DEF Turn

LEMMA StillKeeps ==
    ASSUME NotesInv, UNCHANGED inits, "agents" \in DOMAIN project', project'.agents = project.agents
    PROVE  NotesInv' /\ WritesOnly
BY DEF NotesInv, WritesOnly, PlannedFrom, I!Fenced

\* Runs that something has come between.
LEMMA Interrupted ==
    ASSUME NotesInv, NEW p \in Processes
    PROVE  /\ [inits[p] EXCEPT !.was = None].at = inits[p].at
           /\ [inits[p] EXCEPT !.was = None].mem = inits[p].mem
           /\ {"at", "mem", "was"} \subseteq DOMAIN [inits[p] EXCEPT !.was = None]
BY DEF NotesInv

LEMMA BeginKeeps ==
    ASSUME NotesInv, NEW p \in Processes, I!Begin(p)
    PROVE  NotesInv' /\ WritesOnly
<1>1. PICK ask \in Asks : inits' = I!Alone(p, [I!Idle EXCEPT
            !.at = IF ask.verb \in {"regular", "workspace"} THEN "dirs" ELSE "load",
            !.ask = ask, !.origin = ask.origin,
            !.was = IF \E q \in Processes : I!Running(q) THEN None ELSE project])
  BY DEF I!Begin
<1> DEFINE r == [I!Idle EXCEPT
            !.at = IF ask.verb \in {"regular", "workspace"} THEN "dirs" ELSE "load",
            !.ask = ask, !.origin = ask.origin,
            !.was = IF \E q \in Processes : I!Running(q) THEN None ELSE project]
<1>2. r.at # "write" /\ {"at", "mem", "was"} \subseteq DOMAIN r
  BY DEF I!Idle
<1> HIDE DEF r
<1>3. inits' = [q \in Processes |-> IF q = p THEN r ELSE [inits[q] EXCEPT !.was = None]]
  BY <1>1 DEF I!Alone, r
<1>4. project' = project /\ inits[p].at # "write"
  BY DEF I!Begin
<1>5. inits' = [q \in Processes |-> inits'[q]]
  BY <1>3
<1>6. ASSUME NEW q \in Processes
      PROVE  /\ {"at", "mem", "was"} \subseteq DOMAIN inits'[q]
             /\ inits'[q].at = "write" => PlannedFrom(inits'[q].mem)
             /\ inits[q].at = "write" => inits'[q].at = "write"
  <2>1. CASE q = p
    BY <1>2, <1>3, <1>4, <2>1
  <2>2. CASE q # p
    <3>1. inits'[q] = [inits[q] EXCEPT !.was = None]
      BY <1>3, <2>2
    <3>2. inits'[q].at = inits[q].at /\ inits'[q].mem = inits[q].mem /\ {"at", "mem", "was"} \subseteq DOMAIN inits'[q]
      BY <3>1, Interrupted
    <3> QED BY <3>2 DEF NotesInv
  <2> QED BY <2>1, <2>2
<1> QED BY <1>4, <1>5, <1>6 DEF NotesInv, WritesOnly, PlannedFrom, I!Fenced

LEMMA AssembleKeeps ==
    ASSUME NotesInv, NEW p \in Processes, I!Assemble(p)
    PROVE  NotesInv' /\ WritesOnly
<1> DEFINE config == inits[p].mem
           generated == I!Generated(config)
           planned == I!Planned(project.agents, generated)
           lock == I!Body(generated, I!Parsed(generated))
           mem == [agents |-> planned, lock |-> lock, seen |-> project.agents, relock |-> lock # project.lock]
<1>1. inits[p].at # "write" /\ project' = project /\ "agents" \in DOMAIN project
  BY DEF I!Assemble, NotesInv
<1>2. \/ I!Step(p, "refused")
      \/ planned # Malformed /\ \E at : I!Keep(p, at, mem)
  BY DEF I!Assemble
<1>3. CASE I!Step(p, "refused")
  BY <1>1, <1>3, StepKeeps
<1>4. ASSUME planned # Malformed, NEW at, I!Keep(p, at, mem)
      PROVE  NotesInv' /\ WritesOnly
  <2>1. mem.agents = planned /\ mem.seen = project.agents
    OBVIOUS
  <2> HIDE DEF mem
  <2>2. PlannedFrom(mem)
    BY <1>4, <2>1 DEF PlannedFrom, NotesInv
  <2> QED BY <1>1, <1>4, <2>2, KeepKeeps
<1> QED BY <1>2, <1>3, <1>4

LEMMA WriteKeeps ==
    ASSUME NotesInv, NEW p \in Processes, I!WriteAgents(p)
    PROVE  NotesInv' /\ WritesOnly
<1> DEFINE at == IF inits[p].mem.relock THEN "lock" ELSE "ok"
<1>1. /\ project' = [project EXCEPT !.agents = inits[p].mem.agents]
      /\ inits[p].at = "write" /\ inits' = [inits EXCEPT ![p] = [inits[p] EXCEPT !.at = at]]
  BY DEF I!WriteAgents, I!Step, I!Become
<1>2. "agents" \in DOMAIN project' /\ project'.agents = inits[p].mem.agents
  BY <1>1 DEF NotesInv
<1>3. PlannedFrom(inits[p].mem)
  BY <1>1 DEF NotesInv
<1>4. I!Fenced(project'.agents)
  BY <1>2, <1>3, PlannedFenced DEF PlannedFrom
<1>5. at # "write"
  OBVIOUS
<1> HIDE DEF at
<1>6. /\ inits' = [q \in Processes |-> inits'[q]] /\ inits'[p] = [inits[p] EXCEPT !.at = at]
      /\ \A q \in Processes : q # p => inits'[q] = inits[q]
  BY <1>1 DEF NotesInv
<1>7. inits'[p].at # "write" /\ {"at", "mem", "was"} \subseteq DOMAIN inits'[p]
  BY <1>5, <1>6, OtherValues
<1>8. ASSUME NEW q \in Processes
      PROVE  /\ {"at", "mem", "was"} \subseteq DOMAIN inits'[q]
             /\ inits'[q].at = "write" => PlannedFrom(inits'[q].mem)
             /\ inits[q].at = "write" => inits'[q].at = "write" \/ q = p
  BY <1>6, <1>7 DEF NotesInv
<1> QED BY <1>2, <1>4, <1>6, <1>8 DEF NotesInv, WritesOnly, PlannedFrom, I!Fenced

LEMMA TouchKeeps ==
    ASSUME NotesInv, I!Touch
    PROVE  NotesInv' /\ WritesOnly
<1>1. inits' = [p \in Processes |-> [inits[p] EXCEPT !.was = None]]
  BY DEF I!Touch
<1>2. "agents" \in DOMAIN project' /\ (project'.agents = project.agents \/ project'.agents \in Documents)
  BY DEF I!Touch, NotesInv
<1>3. I!Fenced(project'.agents)
  BY <1>2, DocumentsAssumption DEF NotesInv
<1>4. ASSUME NEW q \in Processes
      PROVE  /\ {"at", "mem", "was"} \subseteq DOMAIN inits'[q]
             /\ inits'[q].at = "write" => PlannedFrom(inits'[q].mem)
             /\ inits[q].at = "write" => inits'[q].at = "write"
  <2>1. inits'[q] = [inits[q] EXCEPT !.was = None]
    BY <1>1
  <2>2. inits'[q].at = inits[q].at /\ inits'[q].mem = inits[q].mem /\ {"at", "mem", "was"} \subseteq DOMAIN inits'[q]
    BY <2>1, Interrupted
  <2> QED BY <2>2 DEF NotesInv
<1>5. inits' = [p \in Processes |-> inits'[p]]
  BY <1>1
<1> QED BY <1>2, <1>3, <1>4, <1>5 DEF NotesInv, WritesOnly, PlannedFrom, I!Fenced

LEMMA SetupStep ==
    ASSUME NotesInv, [I!Next]_(I!initVars)
    PROVE  NotesInv' /\ WritesOnly
<1> DEFINE Same == "agents" \in DOMAIN project' /\ project'.agents = project.agents
<1>1. UNCHANGED project => Same
  BY DEF NotesInv
<1>2. CASE UNCHANGED I!initVars
  <2>1. UNCHANGED <<project, inits>>
    BY <1>2 DEF I!initVars
  <2> QED BY <1>1, <2>1, StillKeeps
<1>3. ASSUME NEW p \in Processes, I!Begin(p) PROVE NotesInv' /\ WritesOnly
  BY <1>3, BeginKeeps
<1>4. ASSUME NEW p \in Processes, I!Dirs(p) PROVE NotesInv' /\ WritesOnly
  <2>1. inits[p].at # "write"
    BY <1>4 DEF I!Dirs
  <2>2. Same
    BY <1>4 DEF I!Dirs, I!Refuse, NotesInv
  <2>3. \/ I!Step(p, "fetch") \/ I!Keep(p, "truncate", I!Minted(inits[p].ask)) \/ I!Step(p, "refused")
    BY <1>4 DEF I!Dirs, I!Refuse
  <2> QED BY <2>1, <2>2, <2>3, StepKeeps, KeepKeeps
<1>5. ASSUME NEW p \in Processes, I!Fetch(p) PROVE NotesInv' /\ WritesOnly
  <2>1. inits[p].at # "write" /\ Same
    BY <1>1, <1>5 DEF I!Fetch
  <2>2. I!Step(p, "refused") \/ I!Step(p, "ok") \/ Turn(p, "clear")
    BY <1>5 DEF I!Fetch, Turn
  <2> QED BY <2>1, <2>2, StepKeeps, TurnKeeps
<1>6. ASSUME NEW p \in Processes, I!Clear(p) PROVE NotesInv' /\ WritesOnly
  <2>1. inits[p].at # "write" /\ Same
    BY <1>1, <1>6, PutKeeps DEF I!Clear
  <2>2. UNCHANGED inits \/ Turn(p, "make")
    BY <1>6 DEF I!Clear, Turn
  <2> QED BY <2>1, <2>2, TurnKeeps, StillKeeps
<1>7. ASSUME NEW p \in Processes, I!Make(p) PROVE NotesInv' /\ WritesOnly
  <2>1. inits[p].at # "write" /\ Same /\ I!Step(p, "copy")
    BY <1>7, PutKeeps DEF I!Make
  <2> QED BY <2>1, StepKeeps
<1>8. ASSUME NEW p \in Processes, I!Open(p) PROVE NotesInv' /\ WritesOnly
  <2>1. inits[p].at # "write" /\ Same /\ \E f : I!Keep(p, "fill", f)
    BY <1>8, PutKeeps DEF I!Open
  <2> QED BY <2>1, KeepKeeps
<1>9. ASSUME NEW p \in Processes, I!Fill(p) PROVE NotesInv' /\ WritesOnly
  <2>1. inits[p].at # "write" /\ Same
    BY <1>1, <1>9, PutKeeps DEF I!Fill
  <2>2. Turn(p, "stamp") \/ Turn(p, "copy")
    BY <1>9 DEF I!Fill, Turn
  <2> QED BY <2>1, <2>2, TurnKeeps
<1>10. ASSUME NEW p \in Processes, I!Stumble(p) PROVE NotesInv' /\ WritesOnly
  <2>1. inits[p].at # "write" /\ Same /\ I!Step(p, "refused")
    BY <1>1, <1>10 DEF I!Stumble, I!Refuse
  <2> QED BY <2>1, StepKeeps
<1>11. ASSUME NEW p \in Processes, I!Stamp(p) PROVE NotesInv' /\ WritesOnly
  <2>1. inits[p].at # "write"
    BY <1>11 DEF I!Stamp
  <2>2. Same
    BY <1>11, PutKeeps DEF I!Stamp, NotesInv
  <2>3. I!Step(p, "ok") \/ I!Step(p, "resolve") \/ Turn(p, "clear")
    BY <1>11 DEF I!Stamp, Turn
  <2> QED BY <2>1, <2>2, <2>3, StepKeeps, TurnKeeps
<1>12. ASSUME NEW p \in Processes, I!Load(p) PROVE NotesInv' /\ WritesOnly
  <2>1. inits[p].at # "write" /\ Same
    BY <1>1, <1>12 DEF I!Load
  <2>2. \/ I!Step(p, "refused") \/ \E config : I!Keep(p, "context", config) \/ I!Keep(p, "truncate", config)
        \/ Turn(p, "fetch") \/ Turn(p, "resolve")
    BY <1>12 DEF I!Load, I!Bump, Turn
  <2> QED BY <2>1, <2>2, StepKeeps, KeepKeeps, TurnKeeps
<1>13. ASSUME NEW p \in Processes, I!Resolve(p) PROVE NotesInv' /\ WritesOnly
  <2>1. inits[p].at # "write" /\ Same
    BY <1>1, <1>13 DEF I!Resolve
  <2>2. \/ I!Step(p, "refused") \/ \E config : I!Keep(p, "context", config) \/ I!Keep(p, "truncate", config)
    BY <1>13 DEF I!Resolve, I!Bump
  <2> QED BY <2>1, <2>2, StepKeeps, KeepKeeps
<1>14. ASSUME NEW p \in Processes, I!Truncate(p) PROVE NotesInv' /\ WritesOnly
  <2>1. inits[p].at # "write" /\ Same /\ I!Step(p, "save")
    BY <1>14 DEF I!Truncate, NotesInv
  <2> QED BY <2>1, StepKeeps
<1>15. ASSUME NEW p \in Processes, I!Save(p) PROVE NotesInv' /\ WritesOnly
  <2>1. inits[p].at # "write" /\ Same /\ (I!Keep(p, "context", None) \/ I!Keep(p, "wasm", None))
    BY <1>15 DEF I!Save, NotesInv
  <2> QED BY <2>1, KeepKeeps
<1>16. ASSUME NEW p \in Processes, I!Wasm(p) \/ I!WasmWrite(p) PROVE NotesInv' /\ WritesOnly
  <2>1. inits[p].at # "write" /\ Same /\ \E at : at \in {"wasm-write", "registry", "ignore"} /\ I!Step(p, at)
    BY <1>1, <1>16 DEF I!Wasm, I!WasmWrite, I!AfterWasm, NotesInv
  <2> QED BY <2>1, StepKeeps
<1>17. ASSUME NEW p \in Processes, I!EmptyRegistry(p) PROVE NotesInv' /\ WritesOnly
  <2>1. inits[p].at # "write" /\ Same /\ (I!Step(p, "registry-write") \/ I!Step(p, "ignore"))
    BY <1>17 DEF I!EmptyRegistry, NotesInv
  <2> QED BY <2>1, StepKeeps
<1>18. ASSUME NEW p \in Processes, I!Ignore(p) PROVE NotesInv' /\ WritesOnly
  <2>1. inits[p].at # "write" /\ Same
    BY <1>1, <1>18 DEF I!Ignore, NotesInv
  <2>2. \/ \E mem : I!Keep(p, "context", mem) \/ I!Keep(p, "ignore-empty", mem)
        \/ I!Step(p, "ignore-write") \/ I!Step(p, "context")
    BY <1>18 DEF I!Ignore
  <2> QED BY <2>1, <2>2, StepKeeps, KeepKeeps
<1>19. ASSUME NEW p \in Processes, I!Context(p) PROVE NotesInv' /\ WritesOnly
  <2>1. inits[p].at # "write" /\ Same
    BY <1>1, <1>19 DEF I!Context
  <2>2. I!Step(p, "ok") \/ I!Step(p, "refused") \/ I!Keep(p, "assemble", project.config)
    BY <1>19 DEF I!Context
  <2> QED BY <2>1, <2>2, StepKeeps, KeepKeeps
<1>20. ASSUME NEW p \in Processes, I!Assemble(p) PROVE NotesInv' /\ WritesOnly
  BY <1>20, AssembleKeeps
<1>21. ASSUME NEW p \in Processes, I!WriteAgents(p) PROVE NotesInv' /\ WritesOnly
  BY <1>21, WriteKeeps
<1>22. ASSUME NEW p \in Processes, I!SaveLock(p) PROVE NotesInv' /\ WritesOnly
  <2>1. inits[p].at # "write" /\ Same /\ I!Step(p, "ok")
    BY <1>22 DEF I!SaveLock, NotesInv
  <2> QED BY <2>1, StepKeeps
<1>23. ASSUME NEW p \in Processes, I!Kill(p) PROVE NotesInv' /\ WritesOnly
  <2>1. Same /\ inits' = [inits EXCEPT ![p] = [I!Idle EXCEPT !.at = "killed"]]
    BY <1>1, <1>23 DEF I!Kill
  <2>2. /\ {"at", "mem", "was"} \subseteq DOMAIN [I!Idle EXCEPT !.at = "killed"]
        /\ [I!Idle EXCEPT !.at = "killed"].at = "killed"
    BY DEF I!Idle
  <2> QED BY <2>1, <2>2, NotesKeep
<1>24. CASE I!Touch
  BY <1>24, TouchKeeps
<1> QED BY <1>2, <1>3, <1>4, <1>5, <1>6, <1>7, <1>8, <1>9, <1>10, <1>11, <1>12, <1>13, <1>14, <1>15, <1>16,
           <1>17, <1>18, <1>19, <1>20, <1>21, <1>22, <1>23, <1>24 DEF I!Next

(***************************************************************************)
(* A run that writes AGENTS.md keeps the lines in it that are not between  *)
(* the fences, in their order, if nobody changed the file since it read    *)
(* it, whatever else happened to the project.                              *)
(***************************************************************************)
THEOREM OperatorsLinesAreKept ==
    ASSUME NoneIsNoList
    PROVE  PartsSpec => NotesKept
<1> DEFINE Inv == part = "init" => NotesInv
           Kept == part = "init" => I!NotesKept
<1>1. PartsInit => Inv
  BY SetupPart, NotesInit
<1>2. Inv /\ [PartsNext]_allVars => Inv'
  BY SetupPart, SetupStep
<1>3. Inv /\ [PartsNext]_allVars => [Kept]_allVars
  <2> SUFFICES ASSUME NotesInv, [I!Next]_(I!initVars) PROVE I!NotesKept
    BY SetupPart
  <2> SUFFICES ASSUME NEW p \in Processes, inits[p].at = "write", inits'[p].at \in {"lock", "ok"},
                      project.agents = inits[p].mem.seen
               PROVE  I!Notes(project'.agents) = I!Notes(project.agents)
    BY DEF I!NotesKept
  <2>1. I!WriteAgents(p)
    BY SetupStep DEF WritesOnly
  <2>2. PlannedFrom(inits[p].mem)
    BY DEF NotesInv
  <2>3. project'.agents = inits[p].mem.agents
    BY <2>1 DEF I!WriteAgents, NotesInv
  <2> QED BY <2>2, <2>3, NotesStay DEF PlannedFrom
<1> QED BY <1>1, <1>2, <1>3, PTL DEF PartsSpec, NotesKept

=================================================================================
