-------------------------- MODULE LadderQueue_proofs --------------------------
(***************************************************************************)
(* Proofs about the ladder queue: its books, its tiers and its order, and  *)
(* that it implements EventPool.                                           *)
(***************************************************************************)
EXTENDS LadderQueue, FiniteSetTheorems, SequenceTheorems, TLAPS

\* The entries a client may push, as PoolSpec names them.
Pushable == [arrival : Times, gid : 1 .. MaxPushes]

-----------------------------------------------------------------------------
(* Sorting.  A list sorted by SortList is determined by the ranks of its   *)
(* elements.                                                               *)

Earlier(S, e) == {f \in S : Before(f, e)}

Rank(S, e) == Cardinality(Earlier(S, e))

\* Entries that Before orders totally.
Sortable(S) == /\ IsFiniteSet(S)
               /\ \A e \in S : e.arrival \in Nat /\ e.gid \in Nat
               /\ \A e, f \in S : e.gid = f.gid => e = f

\* Rank numbers a set from 0, in the order of Before.
LEMMA RankIsNumbering ==
    ASSUME NEW S, Sortable(S)
    PROVE  /\ Cardinality(S) \in Nat
           /\ \A e \in S : Rank(S, e) \in 0 .. Cardinality(S) - 1
           /\ \A e, f \in S : Rank(S, e) = Rank(S, f) => e = f
           /\ \A i \in 1 .. Cardinality(S) : \E e \in S : Rank(S, e) = i - 1
<1> DEFINE n == Cardinality(S)
<1>1. n \in Nat
  BY FS_CardinalityType DEF Sortable
<1>2. ASSUME NEW e \in S
      PROVE  IsFiniteSet(Earlier(S, e)) /\ Rank(S, e) \in 0 .. n - 1
  <2>1. Earlier(S, e) \in SUBSET S /\ e \notin Earlier(S, e)
    BY DEF Earlier, Before, Sortable
  <2>2. /\ IsFiniteSet(Earlier(S, e)) /\ Rank(S, e) <= n /\ Rank(S, e) # n
    BY <2>1, FS_Subset DEF Rank, Sortable
  <2>3. Rank(S, e) \in Nat
    BY <2>2, FS_CardinalityType DEF Rank
  <2> HIDE DEF n
  <2> QED  BY <1>1, <2>2, <2>3
<1>3. ASSUME NEW e \in S, NEW f \in S, Before(e, f)
      PROVE  Rank(S, e) # Rank(S, f)
  <2>1. Earlier(S, e) \in SUBSET Earlier(S, f)
    BY <1>3 DEF Earlier, Before, Sortable
  <2>2. e \in Earlier(S, f) /\ e \notin Earlier(S, e)
    BY <1>3 DEF Earlier, Before, Sortable
  <2> QED
    BY <1>2, <2>1, <2>2, FS_Subset DEF Rank
<1>4. \A e, f \in S : e # f => Before(e, f) \/ Before(f, e)
  BY DEF Before, Sortable
<1>5. \A e, f \in S : Rank(S, e) = Rank(S, f) => e = f
  BY <1>3, <1>4
<1>6. \A i \in 1 .. n : \E e \in S : Rank(S, e) = i - 1
  <2> DEFINE r == [e \in S |-> Rank(S, e) + 1]
  <2>1. r \in [S -> 1 .. n]
    <3> HIDE DEF n
    <3> QED  BY <1>1, <1>2
  <2>2. \A e, f \in S : r[e] = r[f] => e = f
    <3> HIDE DEF n
    <3> QED  BY <1>1, <1>2, <1>5
  <2>3. r \in Injection(S, 1 .. n)
    <3> HIDE DEF r
    <3> QED  BY <2>1, <2>2 DEF Injection, IsInjective
  <2>4. IsFiniteSet(1 .. n) /\ Cardinality(1 .. n) = n
    <3> HIDE DEF n
    <3>1. IsFiniteSet(1 .. n) /\ Cardinality(1 .. n) = IF 1 > n THEN 0 ELSE n - 1 + 1
      BY <1>1, FS_Interval
    <3> QED  BY <1>1, <3>1
  <2>5. r \in Surjection(S, 1 .. n)
    <3> HIDE DEF r
    <3> QED  BY <2>3, <2>4, FS_Injection
  <2>6. ASSUME NEW i \in 1 .. n
        PROVE  \E e \in S : Rank(S, e) = i - 1
    <3>1. PICK e \in S : r[e] = i
      <4> HIDE DEF r
      <4> QED  BY <2>5 DEF Surjection
    <3>2. Rank(S, e) + 1 = i /\ Rank(S, e) \in Int
      <4> HIDE DEF n
      <4> QED  BY <1>1, <1>2, <3>1
    <3> QED  BY <3>2
  <2> QED  BY <2>6
<1> QED
  BY <1>1, <1>2, <1>5, <1>6

\* SortList puts the entry of rank i - 1 in place i.
LEMMA SortListRank ==
    ASSUME NEW S, Sortable(S)
    PROVE  /\ DOMAIN SortList(S) = 1 .. Cardinality(S)
           /\ SortList(S) \in Seq(S) /\ Len(SortList(S)) = Cardinality(S)
           /\ \A i \in 1 .. Cardinality(S) :
                SortList(S)[i] \in S /\ Rank(S, SortList(S)[i]) = i - 1
           /\ \A e \in S, i \in 1 .. Cardinality(S) :
                Rank(S, e) = i - 1 => SortList(S)[i] = e
<1> DEFINE n == Cardinality(S)
           Place_(i) == CHOOSE e \in S : Rank(S, e) = i - 1
<1>1. SortList(S) = [i \in 1 .. n |-> Place_(i)]
  BY DEF SortList, Rank, Earlier
<1>2. ASSUME NEW i \in 1 .. n
      PROVE  Place_(i) \in S /\ Rank(S, Place_(i)) = i - 1
  BY RankIsNumbering
<1>3. n \in Nat
  BY RankIsNumbering
<1> HIDE DEF n, Place_
<1>4. /\ DOMAIN SortList(S) = 1 .. n
      /\ \A i \in 1 .. n : SortList(S)[i] \in S /\ Rank(S, SortList(S)[i]) = i - 1
  BY <1>1, <1>2
<1>5. SortList(S) \in Seq(S) /\ Len(SortList(S)) = n
  BY <1>1, <1>2, <1>3
<1>6. \A e \in S, i \in 1 .. n : Rank(S, e) = i - 1 => SortList(S)[i] = e
  BY <1>4, RankIsNumbering
<1> QED
  BY <1>4, <1>5, <1>6 DEF n

-----------------------------------------------------------------------------
(* The ends of a set, and the order of a list.                             *)

\* Before is an order.
LEMMA BeforeIsOrder ==
    ASSUME NEW S, Sortable(S)
    PROVE  /\ \A e, f \in S : e # f => Before(e, f) \/ Before(f, e)
           /\ \A e, f \in S : Before(e, f) => ~ Before(f, e) /\ e # f
           /\ \A e, f, g \in S : Before(e, f) /\ Before(f, g) => Before(e, g)
  BY DEF Before, Sortable

LEMMA FirstAndLast ==
    ASSUME NEW S, Sortable(S), S # {}
    PROVE  /\ \E e \in S : \A f \in S \ {e} : Before(e, f)
           /\ \E e \in S : \A f \in S \ {e} : Before(f, e)
<1> DEFINE n == Cardinality(S)
<1>1. n \in Nat /\ n # 0 /\ IsFiniteSet(S)
  BY RankIsNumbering, FS_EmptySet DEF Sortable
<1>2. PICK e \in S : Rank(S, e) = 1 - 1
  <2>1. 1 \in 1 .. n
    <3> HIDE DEF n
    <3> QED  BY <1>1
  <2> QED  BY <2>1, RankIsNumbering
<1>3. ASSUME NEW f \in S \ {e}
      PROVE  Before(e, f)
  <2>1. Earlier(S, e) = {}
    <3>1. IsFiniteSet(Earlier(S, e))
      BY <1>1, FS_Subset DEF Earlier
    <3> QED  BY <1>2, <3>1, FS_EmptySet DEF Rank
  <2>2. ~ Before(f, e)
    BY <2>1 DEF Earlier
  <2> QED  BY <2>2, BeforeIsOrder
<1>4. PICK g \in S : Rank(S, g) = n - 1
  <2>1. n \in 1 .. n
    <3> HIDE DEF n
    <3> QED  BY <1>1
  <2> QED  BY <2>1, RankIsNumbering
<1>5. ASSUME NEW f \in S \ {g}
      PROVE  Before(f, g)
  <2>1. Earlier(S, g) \subseteq S \ {g}
    BY BeforeIsOrder DEF Earlier
  <2>2. IsFiniteSet(S \ {g}) /\ Cardinality(S \ {g}) = n - 1
    BY <1>1, FS_RemoveElement
  <2>3. Earlier(S, g) = S \ {g}
    BY <1>4, <2>1, <2>2, FS_Subset DEF Rank
  <2> QED  BY <2>3 DEF Earlier
<1> QED  BY <1>2, <1>3, <1>4, <1>5

\* The entry that arrives at k, with k as its number too.
Twin(k) == [arrival |-> k, gid |-> k]

\* A finite set of numbers has a least and a greatest.
LEMMA LeastAndGreatest ==
    ASSUME NEW N \in SUBSET Nat, IsFiniteSet(N), N # {}
    PROVE  /\ \E m \in N : \A k \in N : m <= k
           /\ \E m \in N : \A k \in N : k <= m
<1> DEFINE S == {Twin(k) : k \in N}
           twins == [k \in N |-> Twin(k)]
<1>1. \A k : Twin(k).arrival = k /\ Twin(k).gid = k
  BY DEF Twin
<1>2. Sortable(S)
  <2>1. twins \in Surjection(N, S)
    BY DEF Surjection
  <2>2. IsFiniteSet(S)
    BY <2>1, FS_Surjection
  <2> QED  BY <1>1, <2>2 DEF Sortable
<1>3. S # {}
  OBVIOUS
<1>4. \A k \in N : Twin(k) \in S
  OBVIOUS
<1>5. \A e \in S : \E k \in N : e = Twin(k)
  OBVIOUS
<1> HIDE DEF S
<1>6. PICK e \in S : \A f \in S \ {e} : Before(e, f)
  BY <1>2, <1>3, FirstAndLast
<1>7. PICK g \in S : \A f \in S \ {g} : Before(f, g)
  BY <1>2, <1>3, FirstAndLast
<1>8. PICK m \in N : e = Twin(m)
  BY <1>5
<1>9. PICK n \in N : g = Twin(n)
  BY <1>5
<1>10. ASSUME NEW j \in N
       PROVE  m <= j /\ j <= n
  <2>1. Twin(j) = e \/ Before(e, Twin(j))
    BY <1>4, <1>6
  <2>2. Twin(j) = g \/ Before(Twin(j), g)
    BY <1>4, <1>7
  <2>3. m = j \/ m < j \/ m = j
    BY <1>1, <1>8, <2>1 DEF Before
  <2>4. j = n \/ j < n \/ j = n
    BY <1>1, <1>9, <2>2 DEF Before
  <2> QED  BY <2>3, <2>4
<1> QED  BY <1>10

\* A sorted list holds its set, in order.
LEMMA SortListFacts ==
    ASSUME NEW S, Sortable(S)
    PROVE  /\ SortList(S) \in Seq(S) /\ Len(SortList(S)) = Cardinality(S)
           /\ Entries(SortList(S)) = S /\ Sorted(SortList(S))
           /\ S # {} => SortList(S) # <<>>
<1> DEFINE n == Cardinality(S)
           list == SortList(S)
<1>1. /\ DOMAIN list = 1 .. n /\ list \in Seq(S) /\ Len(list) = n
      /\ \A i \in 1 .. n : list[i] \in S /\ Rank(S, list[i]) = i - 1
      /\ \A e \in S, i \in 1 .. n : Rank(S, e) = i - 1 => list[i] = e
  BY SortListRank
<1>2. /\ n \in Nat /\ \A e \in S : Rank(S, e) \in 0 .. n - 1
  BY RankIsNumbering
<1>3. IsFiniteSet(S)
  BY DEF Sortable
<1>4. Entries(list) = S
  <2>1. ASSUME NEW e \in S
        PROVE  e \in Entries(list)
    <3> DEFINE i == Rank(S, e) + 1
    <3>1. i \in 1 .. n /\ Rank(S, e) = i - 1
      <4> HIDE DEF n
      <4> QED  BY <1>2
    <3> HIDE DEF i, list, n
    <3>2. list[i] = e
      BY <1>1, <3>1
    <3> QED  BY <1>1, <3>1, <3>2 DEF Entries
  <2> HIDE DEF list, n
  <2> QED  BY <1>1, <2>1 DEF Entries
<1>5. Sorted(list)
  <2>1. ASSUME NEW i \in 1 .. n, NEW j \in 1 .. n, i < j
        PROVE  Before(list[i], list[j])
    <3>1. /\ list[i] \in S /\ list[j] \in S
          /\ Rank(S, list[i]) = i - 1 /\ Rank(S, list[j]) = j - 1
      BY <1>1
    <3> DEFINE x == list[i]
               y == list[j]
    <3>2. x \in S /\ y \in S /\ Rank(S, x) < Rank(S, y)
      <4> HIDE DEF list, n
      <4> QED  BY <1>2, <2>1, <3>1 DEF x, y
    <3> HIDE DEF x, y
    <3>3. ~ Before(y, x) /\ x # y
      <4>1. x # y
        BY <1>2, <3>2
      <4>2. Before(y, x) => Earlier(S, y) \subseteq Earlier(S, x)
        BY <3>2, BeforeIsOrder DEF Earlier
      <4>3. IsFiniteSet(Earlier(S, x))
        BY <1>3, FS_Subset DEF Earlier
      <4>4. Before(y, x) => Rank(S, y) <= Rank(S, x)
        BY <4>2, <4>3, FS_Subset DEF Rank
      <4>5. Rank(S, x) \in Nat /\ Rank(S, y) \in Nat
        BY <1>2, <3>2
      <4> QED  BY <3>2, <4>1, <4>4, <4>5
    <3> QED  BY <3>2, <3>3, BeforeIsOrder DEF x, y
  <2> HIDE DEF list, n
  <2> QED  BY <1>1, <2>1 DEF Sorted
<1>6. S # {} => list # <<>>
  <2>1. S # {} => n # 0
    BY <1>3, FS_EmptySet
  <2> HIDE DEF list, n
  <2> QED  BY <1>1, <2>1
<1> QED  BY <1>1, <1>4, <1>5, <1>6

\* A sorted list holds every entry once.
LEMMA SortedEntries ==
    ASSUME NEW S, Sortable(S), NEW list \in Seq(S), Sorted(list)
    PROVE  /\ Entries(list) \subseteq S
           /\ IsFiniteSet(Entries(list)) /\ Cardinality(Entries(list)) = Len(list)
           /\ list = <<>> <=> Entries(list) = {}
           /\ list # <<>> => /\ list[1] \in Entries(list)
                             /\ list[Len(list)] \in Entries(list)
                             /\ \A e \in Entries(list) :
                                   /\ list[1].arrival <= e.arrival
                                   /\ e.arrival <= list[Len(list)].arrival
<1> DEFINE n == Len(list)
<1>1. n \in Nat /\ DOMAIN list = 1 .. n /\ \A i \in 1 .. n : list[i] \in S
  OBVIOUS
<1> HIDE DEF n
<1>2. list \in Surjection(1 .. n, Entries(list))
  <2>1. list = [i \in 1 .. n |-> list[i]]
    BY <1>1
  <2>2. \A i \in 1 .. n : list[i] \in Entries(list)
    BY <1>1 DEF Entries
  <2>3. \A e \in Entries(list) : \E i \in 1 .. n : list[i] = e
    BY <1>1 DEF Entries
  <2>4. list \in [1 .. n -> Entries(list)]
    BY <2>1, <2>2
  <2> QED  BY <2>3, <2>4 DEF Surjection
<1>3. list \in Injection(1 .. n, Entries(list))
  <2>1. ASSUME NEW i \in 1 .. n, NEW j \in 1 .. n, i # j
        PROVE  list[i] # list[j]
    <3>1. i < j \/ j < i
      BY <1>1, <2>1
    <3>2. Before(list[i], list[j]) \/ Before(list[j], list[i])
      BY <1>1, <3>1 DEF Sorted
    <3> QED  BY <1>1, <3>2, BeforeIsOrder
  <2> QED
    BY <1>2, <2>1 DEF Surjection, Injection, IsInjective
<1>4. IsFiniteSet(1 .. n) /\ Cardinality(1 .. n) = n
  <2>1. IsFiniteSet(1 .. n) /\ Cardinality(1 .. n) = IF 1 > n THEN 0 ELSE n - 1 + 1
    BY <1>1, FS_Interval
  <2> QED  BY <1>1, <2>1
<1>5. IsFiniteSet(Entries(list)) /\ Cardinality(Entries(list)) = n
  BY <1>2, <1>3, <1>4, FS_Surjection
<1>6. Entries(list) \subseteq S
  BY <1>1 DEF Entries
<1>7. list = <<>> <=> n = 0
  BY EmptySeq DEF n
<1>8. list = <<>> <=> Entries(list) = {}
  BY <1>5, <1>7, FS_EmptySet
<1>9. ASSUME list # <<>>
      PROVE  /\ list[1] \in Entries(list) /\ list[n] \in Entries(list)
             /\ \A e \in Entries(list) :
                  list[1].arrival <= e.arrival /\ e.arrival <= list[n].arrival
  <2>1. 1 \in 1 .. n /\ n \in 1 .. n
    BY <1>1, <1>7, <1>9
  <2>2. ASSUME NEW i \in 1 .. n
        PROVE  list[1].arrival <= list[i].arrival /\ list[i].arrival <= list[n].arrival
    <3>1. list[1] \in S /\ list[i] \in S /\ list[n] \in S
      BY <1>1, <2>1
    <3>2. (1 = i \/ 1 < i) /\ (i = n \/ i < n)
      BY <1>1
    <3>3. (1 = i \/ Before(list[1], list[i])) /\ (i = n \/ Before(list[i], list[n]))
      BY <1>1, <2>1, <3>2 DEF Sorted
    <3> QED  BY <3>1, <3>3 DEF Before, Sortable
  <2> QED  BY <1>1, <2>1, <2>2 DEF Entries
<1> QED  BY <1>5, <1>6, <1>8, <1>9 DEF n

\* A new entry, which has the largest number, goes behind those that are not
\* later than it.
LEMMA InsertFacts ==
    ASSUME NEW S, Sortable(S), NEW list \in Seq(S), Sorted(list),
           NEW e \in S, \A f \in Entries(list) : f.gid < e.gid
    PROVE  /\ Insert(list, e) \in Seq(S) /\ Len(Insert(list, e)) = Len(list) + 1
           /\ Entries(Insert(list, e)) = Entries(list) \cup {e}
           /\ Sorted(Insert(list, e))
<1> DEFINE n == Len(list)
           NotLater == {i \in DOMAIN list : list[i].arrival <= e.arrival}
           k == CHOOSE i \in NotLater \cup {0} : \A j \in NotLater : j <= i
           new == Insert(list, e)
           Place_(i) == IF i <= k THEN list[i] ELSE IF i = k + 1 THEN e ELSE list[i - 1]
<1>1. n \in Nat /\ DOMAIN list = 1 .. n /\ \A i \in 1 .. n : list[i] \in S
  OBVIOUS
<1>2. new = [i \in 1 .. n + 1 |-> Place_(i)]
  BY DEF Insert
<1> HIDE DEF n, new
<1>3. /\ k \in 0 .. n /\ \A j \in NotLater : j <= k
      /\ k # 0 => list[k].arrival <= e.arrival
  <2>1. NotLater \cup {0} \in SUBSET Nat
    BY <1>1
  <2>2. IsFiniteSet(NotLater \cup {0})
    <3>1. IsFiniteSet(1 .. n) /\ NotLater \in SUBSET (1 .. n)
      BY <1>1, FS_Interval
    <3>2. IsFiniteSet(NotLater)
      <4> HIDE DEF NotLater
      <4> QED  BY <3>1, FS_Subset
    <3> HIDE DEF NotLater
    <3> QED  BY <3>2, FS_AddElement
  <2>3. \E m \in NotLater \cup {0} : \A j \in NotLater \cup {0} : j <= m
    <3> HIDE DEF NotLater
    <3> QED  BY <2>1, <2>2, LeastAndGreatest
  <2>4. k \in NotLater \cup {0} /\ \A j \in NotLater : j <= k
    <3> HIDE DEF NotLater
    <3> QED  BY <2>3
  <2> HIDE DEF k
  <2> QED  BY <1>1, <2>4
<1> HIDE DEF k
<1>4. ASSUME NEW i \in 1 .. k
      PROVE  i \in 1 .. n /\ Before(list[i], e)
  <2>1. i \in 1 .. n /\ k \in 1 .. n /\ (i < k \/ i = k)
    BY <1>1, <1>3
  <2>2. list[i] \in S /\ list[k] \in S /\ list[k].arrival <= e.arrival
    BY <1>1, <1>3, <2>1
  <2>3. i = k \/ Before(list[i], list[k])
    BY <1>1, <2>1 DEF Sorted
  <2>4. list[i].arrival <= e.arrival
    BY <2>2, <2>3 DEF Before, Sortable
  <2>5. list[i].gid < e.gid
    BY <1>1, <2>1 DEF Entries
  <2> QED  BY <2>1, <2>2, <2>4, <2>5 DEF Before, Sortable
<1>5. ASSUME NEW i \in k + 1 .. n
      PROVE  i \in 1 .. n /\ Before(e, list[i])
  <2>1. i \in 1 .. n /\ ~ (i <= k)
    BY <1>1, <1>3
  <2>2. ~ (list[i].arrival <= e.arrival)
    BY <1>1, <1>3, <2>1
  <2>3. list[i] \in S
    BY <1>1, <2>1
  <2> QED  BY <2>1, <2>2, <2>3 DEF Before, Sortable
<1>6. \A i \in 1 .. n + 1 : \/ i \in 1 .. k
                            \/ i = k + 1
                            \/ i - 1 \in k + 1 .. n /\ ~ (i <= k) /\ i # k + 1
  BY <1>1, <1>3
<1>7. \A i \in 1 .. n + 1 : /\ i \in 1 .. k => new[i] = list[i]
                            /\ i = k + 1 => new[i] = e
                            /\ i - 1 \in k + 1 .. n => new[i] = list[i - 1]
  BY <1>1, <1>2, <1>3
<1>8. ASSUME NEW i \in 1 .. n + 1
      PROVE  new[i] \in S /\ new[i] \in Entries(list) \cup {e}
  <2>1. CASE i \in 1 .. k
    BY <1>1, <1>4, <1>7, <2>1 DEF Entries
  <2>2. CASE i = k + 1
    BY <1>7, <2>2
  <2>3. CASE i - 1 \in k + 1 .. n
    BY <1>1, <1>5, <1>7, <2>3 DEF Entries
  <2> QED  BY <1>6, <2>1, <2>2, <2>3
<1>9. new \in Seq(S) /\ Len(new) = n + 1 /\ DOMAIN new = 1 .. n + 1
  <2>1. DOMAIN new = 1 .. n + 1 /\ new = [i \in 1 .. n + 1 |-> new[i]]
    <3> HIDE DEF Place_
    <3> QED  BY <1>2
  <2> QED  BY <1>1, <1>8, <2>1
<1>10. Entries(new) = Entries(list) \cup {e}
  <2>1. Entries(new) \subseteq Entries(list) \cup {e}
    BY <1>8, <1>9 DEF Entries
  <2>2. e \in Entries(new)
    <3>1. k + 1 \in 1 .. n + 1 /\ new[k + 1] = e
      BY <1>1, <1>3, <1>7
    <3> QED  BY <1>9, <3>1 DEF Entries
  <2>3. ASSUME NEW i \in 1 .. n
        PROVE  list[i] \in Entries(new)
    <3>1. CASE i <= k
      <4>1. i \in 1 .. n + 1 /\ i \in 1 .. k
        BY <1>1, <1>3, <3>1
      <4> QED  BY <1>7, <1>9, <4>1 DEF Entries
    <3>2. CASE i > k
      <4>1. i + 1 \in 1 .. n + 1 /\ (i + 1) - 1 \in k + 1 .. n /\ (i + 1) - 1 = i
        BY <1>1, <1>3, <3>2
      <4>2. new[i + 1] = list[i]
        BY <1>7, <4>1
      <4> QED  BY <1>9, <4>1, <4>2 DEF Entries
    <3> QED  BY <1>1, <1>3, <3>1, <3>2
  <2>4. Entries(list) \subseteq Entries(new)
    BY <1>1, <2>3 DEF Entries
  <2> QED  BY <2>1, <2>2, <2>4
<1>11. Sorted(new)
  <2> SUFFICES ASSUME NEW i \in 1 .. n + 1, NEW j \in 1 .. n + 1, i < j
               PROVE  Before(new[i], new[j])
    BY <1>9 DEF Sorted
  <2>1. CASE i \in 1 .. k
    <3>1. i \in 1 .. n /\ list[i] \in S /\ Before(list[i], e) /\ new[i] = list[i]
      BY <1>1, <1>4, <1>7, <2>1
    <3>2. CASE j \in 1 .. k
      BY <1>1, <1>4, <1>7, <3>1, <3>2 DEF Sorted
    <3>3. CASE j = k + 1
      BY <1>7, <3>1, <3>3
    <3>4. CASE j - 1 \in k + 1 .. n
      <4>1. j - 1 \in 1 .. n /\ Before(e, list[j - 1]) /\ new[j] = list[j - 1]
        BY <1>5, <1>7, <3>4
      <4>2. list[j - 1] \in S
        BY <1>1, <4>1
      <4> QED  BY <3>1, <4>1, <4>2, BeforeIsOrder
    <3> QED  BY <1>6, <3>2, <3>3, <3>4
  <2>2. CASE i = k + 1
    <3>1. j - 1 \in k + 1 .. n
      BY <1>1, <1>3, <2>2
    <3> QED  BY <1>5, <1>7, <2>2, <3>1
  <2>3. CASE i - 1 \in k + 1 .. n
    <3>1. j - 1 \in k + 1 .. n /\ i - 1 < j - 1
      BY <1>1, <1>3, <2>3
    <3>2. i - 1 \in 1 .. n /\ j - 1 \in 1 .. n
      BY <1>5, <2>3, <3>1
    <3>3. Before(list[i - 1], list[j - 1])
      BY <1>1, <3>1, <3>2 DEF Sorted
    <3> QED  BY <1>7, <2>3, <3>1, <3>3
  <2> QED  BY <1>6, <2>1, <2>2, <2>3
<1> QED  BY <1>9, <1>10, <1>11 DEF n, new

\* Without its head a sorted list stays sorted.
LEMMA TailFacts ==
    ASSUME NEW S, Sortable(S), NEW list \in Seq(S), Sorted(list), list # <<>>
    PROVE  /\ Tail(list) \in Seq(S) /\ Len(Tail(list)) = Len(list) - 1
           /\ Head(list) = list[1] /\ Head(list) \in Entries(list)
           /\ Entries(Tail(list)) = Entries(list) \ {Head(list)}
           /\ Sorted(Tail(list))
           /\ \A e \in Entries(list) : Head(list).arrival <= e.arrival
<1> DEFINE n == Len(list)
           tail == Tail(list)
<1>1. n \in Nat /\ DOMAIN list = 1 .. n /\ \A i \in 1 .. n : list[i] \in S
  OBVIOUS
<1>2. n # 0
  BY EmptySeq
<1>3. /\ Head(list) = list[1] /\ tail \in Seq(S) /\ Len(tail) = n - 1
      /\ \A i \in 1 .. Len(tail) : tail[i] = list[i + 1]
  BY HeadTailProperties
<1>4. DOMAIN tail = 1 .. n - 1
  BY <1>3
<1> HIDE DEF n, tail
<1>5. \A i \in 1 .. n - 1 : tail[i] = list[i + 1] /\ i + 1 \in 1 .. n
  BY <1>1, <1>3
<1>6. \A i \in 1 .. n : i # 1 => Before(list[1], list[i])
  BY <1>1, <1>2 DEF Sorted
<1>7. \A i \in 1 .. n : i # 1 => list[1] # list[i]
  BY <1>1, <1>2, <1>6, BeforeIsOrder
<1>8. Entries(tail) = Entries(list) \ {list[1]}
  <2>1. Entries(tail) \subseteq Entries(list) \ {list[1]}
    <3>1. \A i \in 1 .. n - 1 : i + 1 # 1
      BY <1>1
    <3> QED  BY <1>1, <1>4, <1>5, <1>7, <3>1 DEF Entries
  <2>2. ASSUME NEW i \in 1 .. n, i # 1
        PROVE  list[i] \in Entries(tail)
    <3>1. i - 1 \in 1 .. n - 1 /\ (i - 1) + 1 = i
      BY <1>1, <2>2
    <3>2. tail[i - 1] = list[i]
      BY <1>5, <3>1
    <3> QED  BY <1>4, <3>1, <3>2 DEF Entries
  <2> QED  BY <1>1, <2>1, <2>2 DEF Entries
<1>9. Sorted(tail)
  <2> SUFFICES ASSUME NEW i \in 1 .. n - 1, NEW j \in 1 .. n - 1, i < j
               PROVE  Before(tail[i], tail[j])
    BY <1>4 DEF Sorted
  <2>1. i + 1 \in 1 .. n /\ j + 1 \in 1 .. n /\ i + 1 < j + 1
    BY <1>1
  <2> QED  BY <1>1, <1>5, <2>1 DEF Sorted
<1>10. list[1] \in Entries(list) /\ \A e \in Entries(list) : list[1].arrival <= e.arrival
  BY SortedEntries
<1> QED  BY <1>3, <1>8, <1>9, <1>10 DEF n, tail

-----------------------------------------------------------------------------
(* Widths.                                                                 *)

\* The finest width of every rung, from ExactWidths.
FinestWidths(fine) ==
    /\ fine \in [Rungs -> 1 .. Unit]
    /\ \A r \in Rungs : r + 1 \in Rungs => fine[r] = (Thres - 1) * fine[r + 1]
    /\ Unit % fine[0] = 0
    /\ \A s, t \in Times, n \in 1 .. MaxPushes : s < t => (t - s) % (n * fine[0]) = 0

Fine == CHOOSE fine : FinestWidths(fine)

\* A width rung r can have without rounding.
Fits(w, r) == \E k \in Nat \ {0} : w = k * Fine[r]

LEMMA Parameters ==
    /\ Unit \in Nat \ {0} /\ DblMax \in Nat /\ MaxPushes \in Nat
    /\ Thres \in Nat /\ Thres >= 2
    /\ MAX_RUNGS \in Nat /\ MAX_RUNGS >= 1
    /\ Times \in SUBSET Nat /\ \A t \in Times : t <= DblMax
    /\ 0 \in Rungs
    /\ \A r \in Rungs : r \in Nat /\ r < MAX_RUNGS
    /\ \A r \in Nat : r < MAX_RUNGS => r \in Rungs
  BY LadderAssumption DEF Rungs

LEMMA PushableFacts ==
    \A e \in Pushable : /\ e.arrival \in Times /\ e.arrival \in Nat /\ e.arrival \in Int
                        /\ e.gid \in 1 .. MaxPushes /\ e.gid \in Nat
<1>1. \A t \in Times : t \in Nat /\ t \in Int
  BY Parameters
<1>2. \A n \in 1 .. MaxPushes : n \in Nat
  BY Parameters
<1> QED  BY <1>1, <1>2 DEF Pushable

LEMMA FineFacts ==
    /\ \A r \in Rungs : Fine[r] \in Nat \ {0}
    /\ \A r \in Rungs : r + 1 \in Rungs => Fine[r] = (Thres - 1) * Fine[r + 1]
    /\ Unit % Fine[0] = 0
    /\ \A s, t \in Times, n \in 1 .. MaxPushes : s < t => (t - s) % (n * Fine[0]) = 0
<1>1. FinestWidths(Fine)
  BY ExactWidths DEF Fine, FinestWidths
<1> QED  BY <1>1 DEF FinestWidths

\* Products of numbers, for the solver.
LEMMA Products ==
    /\ \A a, b \in Nat \ {0} : a * b \in Nat \ {0}
    /\ \A a, b, c \in Int : a * (b * c) = b * (a * c) /\ (a * b) * c = a * (b * c)
    /\ \A a, b, c \in Int : (a + b) * c = a * c + b * c
    /\ \A a, b, c \in Int : c >= 0 /\ a <= b => a * c <= b * c
  OBVIOUS

LEMMA Quotients ==
    ASSUME NEW a \in Int, NEW b \in Nat \ {0}
    PROVE  /\ a \div b \in Int /\ a = b * (a \div b) + (a % b) /\ 0 <= a % b /\ a % b < b
  OBVIOUS

\* The quotient of a multiple.
LEMMA QuotientOfMultiple ==
    ASSUME NEW k \in Int, NEW b \in Nat \ {0}
    PROVE  (b * k) \div b = k /\ (k * b) \div b = k
  OBVIOUS

LEMMA QuotientBound ==
    ASSUME NEW a \in Int, NEW b \in Nat \ {0}, NEW c \in Int, c * b <= a
    PROVE  c <= a \div b
  OBVIOUS
LEMMA FitsPositive ==
    ASSUME NEW r \in Rungs, NEW w, Fits(w, r)
    PROVE  w \in Nat \ {0}
  BY FineFacts, Products DEF Fits

\* A rung divides the width of the one above it.
LEMMA FitsNext ==
    ASSUME NEW r \in Rungs, r + 1 \in Rungs, NEW w, Fits(w, r)
    PROVE  /\ Fits(w \div (Thres - 1), r + 1)
           /\ w = (Thres - 1) * (w \div (Thres - 1))
<1> DEFINE m == Thres - 1
           f == Fine[r + 1]
<1>1. PICK k \in Nat \ {0} : w = k * Fine[r]
  BY DEF Fits
<1>2. m \in Nat \ {0} /\ f \in Nat \ {0} /\ Fine[r] = m * f
  BY Parameters, FineFacts
<1> HIDE DEF m, f
<1>3. w = m * (k * f) /\ k * f \in Int
  BY <1>1, <1>2, Products
<1>4. w \div m = k * f
  BY <1>2, <1>3, QuotientOfMultiple
<1>5. Fits(w \div m, r + 1)
  BY <1>1, <1>4 DEF Fits, f
<1> QED  BY <1>3, <1>4, <1>5 DEF m

\* The width of an epoch fits the first rung, and its buckets are its entries.
LEMMA EpochWidth ==
    ASSUME NEW s \in Times, NEW t \in Times, s <= t, NEW n \in 1 .. MaxPushes
    PROVE  /\ Fits(bucketwidth(t, s, n), 0)
           /\ (t - s) \div bucketwidth(t, s, n) = IF s = t THEN 0 ELSE n
<1> DEFINE f == Fine[0]
<1>1. /\ f \in Nat \ {0} /\ Unit \in Nat \ {0} /\ s \in Nat /\ t \in Nat
      /\ n \in Nat \ {0}
  BY Parameters, FineFacts
<1>2. Unit % f = 0 /\ (s < t => (t - s) % (n * f) = 0)
  BY FineFacts
<1> HIDE DEF f
<1>3. CASE s = t
  <2>1. Unit = f * (Unit \div f) /\ Unit \div f \in Int
    BY <1>1, <1>2, Quotients
  <2>2. Unit \div f \in Nat \ {0} /\ Unit = (Unit \div f) * f
    BY <1>1, <2>1
  <2>3. Fits(Unit, 0)
    BY <2>2 DEF Fits, f
  <2>4. (t - s) \div Unit = 0
    BY <1>1, <1>3
  <2> QED  BY <1>3, <2>3, <2>4 DEF bucketwidth
<1>4. CASE s < t
  <2> DEFINE q == (t - s) \div (n * f)
  <2>1. n * f \in Nat \ {0} /\ t - s \in Nat \ {0}
    BY <1>1, <1>4, Products
  <2>2. q \in Int /\ t - s = (n * f) * q
    <3> DEFINE D == n * f
               x == t - s
    <3>1. D \in Nat \ {0} /\ x \in Int
      BY <2>1
    <3>2. x % D = 0
      BY <1>2, <1>4
    <3> HIDE DEF D, x
    <3>3. x \div D \in Int /\ x = D * (x \div D) + (x % D)
      BY <3>1, Quotients
    <3>4. x = D * (x \div D)
      BY <3>1, <3>2, <3>3
    <3> QED  BY <3>3, <3>4 DEF D, x
  <2> HIDE DEF q
  <2>3. q \in Nat \ {0}
    BY <2>1, <2>2
  <2>4. t - s = n * (q * f) /\ q * f \in Nat \ {0} /\ t - s = (q * f) * n
    BY <1>1, <2>2, <2>3, Products
  <2>5. (t - s) \div n = q * f
    BY <1>1, <2>4, QuotientOfMultiple
  <2>6. bucketwidth(t, s, n) = q * f
    BY <1>1, <1>4, <2>5 DEF bucketwidth
  <2>7. (t - s) \div (q * f) = n
    BY <1>1, <2>4, QuotientOfMultiple
  <2>8. Fits(q * f, 0)
    BY <2>3 DEF Fits, f
  <2>9. ~ (s = t)
    BY <1>1, <1>4
  <2> QED  BY <2>6, <2>7, <2>8, <2>9
<1> QED  BY <1>1, <1>3, <1>4

-----------------------------------------------------------------------------
(* The parts of a ladder.                                                  *)

Arrays == UNION {[0 .. n - 1 -> SUBSET Pushable] : n \in Nat \ {0}}

Ladders ==
    [lowest : Rungs, NBC : Int, events : [Rungs -> Int], cur : [Rungs -> Int],
     width : [Rungs -> Int], RCur : [Rungs -> Int], RStart : [Rungs -> Int],
     rungs : [Rungs -> Arrays]]

LEMMA FieldTypes ==
    ASSUME NEW L \in Ladders
    PROVE  /\ L.lowest \in Rungs /\ L.NBC \in Int
           /\ L.events \in [Rungs -> Int] /\ L.cur \in [Rungs -> Int]
           /\ L.width \in [Rungs -> Int] /\ L.RCur \in [Rungs -> Int]
           /\ L.RStart \in [Rungs -> Int] /\ L.rungs \in [Rungs -> Arrays]
  BY DEF Ladders

\* The ladder with these fields.
LadderOf(lowest, NBC, events, cur, width, RCur, RStart, rungs) ==
    [lowest |-> lowest, NBC |-> NBC, events |-> events, cur |-> cur,
     width |-> width, RCur |-> RCur, RStart |-> RStart, rungs |-> rungs]

LEMMA BucketsFacts ==
    ASSUME NEW L \in Ladders, NEW r \in Rungs
    PROVE  /\ Buckets(L, r) \in Nat \ {0}
           /\ DOMAIN L.rungs[r] = 0 .. Buckets(L, r) - 1
           /\ L.rungs[r] \in [0 .. Buckets(L, r) - 1 -> SUBSET Pushable]
<1> L.rungs[r] \in Arrays
  BY FieldTypes
<1>1. PICK n \in Nat \ {0} : L.rungs[r] \in [0 .. n - 1 -> SUBSET Pushable]
  BY DEF Arrays
<1>2. DOMAIN L.rungs[r] = 0 .. n - 1
  BY <1>1
<1>3. Cardinality(0 .. n - 1) = n
  <2>1. Cardinality(0 .. n - 1) = IF 0 > n - 1 THEN 0 ELSE (n - 1) - 0 + 1
    BY <1>1, FS_Interval
  <2> QED  BY <2>1
<1> QED  BY <1>1, <1>2, <1>3 DEF Buckets

\* An entry that does not lie behind the current bucket goes into it.
LEMMA BucketIsCurrent ==
    ASSUME NEW L \in Ladders, NEW r \in Rungs, NEW ts \in Int,
           L.width[r] \in Nat \ {0}, L.cur[r] \in 0 .. Buckets(L, r) - 1,
           \/ L.cur[r] = 0
           \/ ts >= L.RStart[r] + L.cur[r] * L.width[r]
    PROVE  bucket(L, ts, r) = L.cur[r]
<1> DEFINE c == L.cur[r]
           w == L.width[r]
           start == L.RStart[r]
           n == Buckets(L, r)
           exact == IF ts <= start THEN 0 ELSE (ts - start) \div w
<1>1. c \in Nat /\ w \in Nat \ {0} /\ start \in Int /\ n \in Nat \ {0} /\ c <= n - 1
      /\ (c = 0 \/ ts >= start + c * w)
  <2>1. n \in Nat \ {0} /\ start \in Int /\ w \in Nat \ {0}
    BY BucketsFacts, FieldTypes
  <2>2. c \in 0 .. n - 1 /\ (c = 0 \/ ts >= start + c * w)
    OBVIOUS
  <2> HIDE DEF c, w, start, n
  <2> QED  BY <2>1, <2>2
<1>2. bucket(L, ts, r) =
        LET raised == IF exact < c THEN exact + 1 ELSE exact
            capped == IF raised >= n THEN n - 1 ELSE raised
        IN  IF capped > c THEN c ELSE capped
  BY DEF bucket
<1> HIDE DEF c, w, start, n
<1>3. exact \in Int /\ c <= exact
  <2>1. CASE ts <= start
    <3>1. c # 0 => c * w \in Nat \ {0}
      BY <1>1, Products
    <3>2. c * w \in Int
      BY <1>1
    <3> QED  BY <1>1, <2>1, <3>1, <3>2
  <2>2. CASE ts > start
    <3>1. c * w <= ts - start
      <4>1. c = 0 => c * w = 0
        BY <1>1
      <4>2. c * w \in Int
        BY <1>1
      <4> QED  BY <1>1, <2>2, <4>1, <4>2
    <3>2. c <= (ts - start) \div w /\ (ts - start) \div w \in Int
      BY <1>1, <3>1, QuotientBound, Quotients
    <3> QED  BY <1>1, <2>2, <3>2
  <2> QED  BY <1>1, <2>1, <2>2
<1> HIDE DEF exact
<1>4. bucket(L, ts, r) = c
  BY <1>1, <1>2, <1>3
<1> QED  BY <1>4 DEF c

\* The entries of a rung all lie in its current bucket.
InCurrent(L) ==
    \A r \in Rungs : \A b \in DOMAIN L.rungs[r] : L.rungs[r][b] # {} => b = L.cur[r]

LEMMA CurrentIsRung ==
    ASSUME NEW L \in Ladders, InCurrent(L), NEW r \in Rungs
    PROVE  /\ RungEvents(L, r) \in SUBSET Pushable
           /\ L.cur[r] \in 0 .. Buckets(L, r) - 1 =>
                RungEvents(L, r) = L.rungs[r][L.cur[r]]
           /\ RungEvents(L, r) # {} => L.cur[r] \in 0 .. Buckets(L, r) - 1
<1> DEFINE n == Buckets(L, r)
           a == L.rungs[r]
           c == L.cur[r]
<1>1. DOMAIN a = 0 .. n - 1 /\ a \in [0 .. n - 1 -> SUBSET Pushable]
  BY BucketsFacts
<1>2. \A b \in 0 .. n - 1 : a[b] # {} => b = c
  BY <1>1 DEF InCurrent
<1>3. RungEvents(L, r) = UNION {a[b] : b \in 0 .. n - 1}
  BY <1>1 DEF RungEvents
<1> HIDE DEF a, c, n
<1>4. RungEvents(L, r) \in SUBSET Pushable
  BY <1>1, <1>3
<1>5. c \in 0 .. n - 1 => RungEvents(L, r) = a[c]
  BY <1>2, <1>3
<1>6. RungEvents(L, r) # {} => c \in 0 .. n - 1
  BY <1>2, <1>3
<1> QED  BY <1>4, <1>5, <1>6 DEF a, c, n

\* M is L with the entries of S on rung r.
PutOn(L, M, r, S) ==
    /\ M \in Ladders /\ InCurrent(M)
    /\ M.lowest = L.lowest /\ M.cur = L.cur /\ M.width = L.width
    /\ M.RCur = L.RCur /\ M.RStart = L.RStart
    /\ M.NBC = L.NBC + Cardinality(S)
    /\ M.events[r] = L.events[r] + Cardinality(S)
    /\ \A q \in Rungs \ {r} : M.events[q] = L.events[q]
    /\ \A q \in Rungs : Buckets(M, q) = Buckets(L, q)
    /\ RungEvents(M, r) = RungEvents(L, r) \cup S
    /\ \A q \in Rungs \ {r} : RungEvents(M, q) = RungEvents(L, q)

\* What PutAll does when every entry goes into the current bucket.
LEMMA PutAllFacts ==
    ASSUME NEW L \in Ladders, InCurrent(L), NEW r \in Rungs, NEW S \in SUBSET Pushable,
           IsFiniteSet(S), L.cur[r] \in 0 .. Buckets(L, r) - 1,
           \A e \in S : bucket(L, e.arrival, r) = L.cur[r]
    PROVE  PutOn(L, PutAll(L, r, S), r, S)
<1> DEFINE M == PutAll(L, r, S)
<1> DEFINE n == Buckets(L, r)
           a == L.rungs[r]
           c == L.cur[r]
           a2 == [b \in DOMAIN a |-> a[b] \cup {e \in S : bucket(L, e.arrival, r) = b}]
<1>1. /\ n \in Nat \ {0} /\ DOMAIN a = 0 .. n - 1 /\ a \in [0 .. n - 1 -> SUBSET Pushable]
      /\ c \in 0 .. n - 1
  BY BucketsFacts
<1>2. Cardinality(S) \in Nat
  BY FS_CardinalityType
<1>3. a2 = [b \in 0 .. n - 1 |-> IF b = c THEN a[b] \cup S ELSE a[b]]
  <2>1. \A b \in 0 .. n - 1 :
          {e \in S : bucket(L, e.arrival, r) = b} = IF b = c THEN S ELSE {}
    OBVIOUS
  <2>2. \A b \in 0 .. n - 1 :
          a[b] \cup {e \in S : bucket(L, e.arrival, r) = b} =
            IF b = c THEN a[b] \cup S ELSE a[b]
    BY <2>1
  <2> QED  BY <1>1, <2>2
<1> HIDE DEF n, a
<1>4. a2 \in [0 .. n - 1 -> SUBSET Pushable] /\ DOMAIN a2 = 0 .. n - 1
      /\ \A b \in 0 .. n - 1 : a2[b] = IF b = c THEN a[b] \cup S ELSE a[b]
  <2> HIDE DEF c
  <2> HIDE DEF a2
  <2> QED  BY <1>1, <1>3
<1>5. M = [L EXCEPT !.rungs[r] = a2, !.events[r] = @ + Cardinality(S),
                    !.NBC = @ + Cardinality(S)]
  BY DEF PutAll, a
<1> HIDE DEF M, a2, c
<1>6. a2 \in Arrays
  BY <1>1, <1>4 DEF Arrays
<1>7. /\ M \in Ladders
      /\ M.lowest = L.lowest /\ M.cur = L.cur /\ M.width = L.width
      /\ M.RCur = L.RCur /\ M.RStart = L.RStart
      /\ M.NBC = L.NBC + Cardinality(S)
      /\ M.events = [L.events EXCEPT ![r] = @ + Cardinality(S)]
      /\ M.rungs = [L.rungs EXCEPT ![r] = a2]
  <2> DEFINE NBC2 == L.NBC + Cardinality(S)
             events2 == [L.events EXCEPT ![r] = @ + Cardinality(S)]
             rungs2 == [L.rungs EXCEPT ![r] = a2]
  <2>1. M = LadderOf(L.lowest, NBC2, events2, L.cur, L.width, L.RCur, L.RStart, rungs2)
    BY <1>5 DEF LadderOf, Ladders
  <2>2. NBC2 \in Int /\ events2 \in [Rungs -> Int] /\ rungs2 \in [Rungs -> Arrays]
    BY <1>2, <1>6, FieldTypes
  <2>3. /\ L.lowest \in Rungs /\ L.cur \in [Rungs -> Int] /\ L.width \in [Rungs -> Int]
        /\ L.RCur \in [Rungs -> Int] /\ L.RStart \in [Rungs -> Int]
    BY FieldTypes
  <2> HIDE DEF NBC2, events2, rungs2
  <2>4. /\ M \in Ladders
        /\ M.lowest = L.lowest /\ M.NBC = NBC2 /\ M.events = events2 /\ M.cur = L.cur
        /\ M.width = L.width /\ M.RCur = L.RCur /\ M.RStart = L.RStart /\ M.rungs = rungs2
    BY <2>1, <2>2, <2>3 DEF LadderOf, Ladders
  <2> QED  BY <2>4 DEF NBC2, events2, rungs2
<1>8. M.rungs[r] = a2 /\ \A q \in Rungs \ {r} : M.rungs[q] = L.rungs[q]
  BY <1>7, FieldTypes
<1>9. \A q \in Rungs \ {r} : Buckets(M, q) = Buckets(L, q) /\ RungEvents(M, q) = RungEvents(L, q)
  BY <1>8 DEF Buckets, RungEvents
<1>10. Buckets(M, r) = Buckets(L, r)
  BY <1>1, <1>4, <1>8 DEF Buckets, a
<1>11. RungEvents(M, r) = RungEvents(L, r) \cup S
  <2>1. RungEvents(L, r) = UNION {a[b] : b \in 0 .. n - 1}
    BY <1>1 DEF RungEvents, a
  <2>2. RungEvents(M, r) = UNION {a2[b] : b \in 0 .. n - 1}
    BY <1>4, <1>8 DEF RungEvents
  <2> QED  BY <1>1, <1>4, <2>1, <2>2
<1>12. InCurrent(M)
  <2>1. \A b \in 0 .. n - 1 : a[b] # {} => b = c
    BY <1>1 DEF InCurrent, a, c
  <2>2. \A b \in DOMAIN M.rungs[r] : M.rungs[r][b] # {} => b = M.cur[r]
    BY <1>4, <1>7, <1>8, <2>1 DEF c
  <2> QED  BY <1>7, <1>8, <2>2 DEF InCurrent
<1>13. M.events[r] = L.events[r] + Cardinality(S)
       /\ \A q \in Rungs \ {r} : M.events[q] = L.events[q]
  BY <1>7, FieldTypes
<1>14. PutOn(L, M, r, S)
  BY <1>7, <1>9, <1>10, <1>11, <1>12, <1>13 DEF PutOn
<1> QED  BY <1>14 DEF M

-----------------------------------------------------------------------------
(* The invariant of a ladder.                                              *)

\* The first rung may be enlarged, the others never are.
Sizes(L) ==
    \A r \in Rungs : Buckets(L, r) >= Thres /\ (r # 0 => Buckets(L, r) = Thres)

\* The counters are the numbers of entries.
Counters(L) ==
    /\ IsFiniteSet(LadderEvents(L))
    /\ \A r \in Rungs : L.events[r] = Cardinality(RungEvents(L, r))
    /\ \A q, r \in Rungs : q # r => RungEvents(L, q) \cap RungEvents(L, r) = {}
    /\ L.NBC = Cardinality(LadderEvents(L))

\* The rungs below the lowest are empty.  The first rung is dequeued as a whole:
\* while the ladder holds an entry, its dequeue has not begun.
Shape(L) ==
    /\ \A r \in Rungs : r > L.lowest => RungEvents(L, r) = {}
    /\ L.NBC # 0 => RungEvents(L, 0) # {} /\ L.cur[0] = 0

\* A rung covers the bucket of the rung above that precedes its m_RCur, and an
\* entry was pushed to it only while it was earlier than that m_RCur.
RungFits(L, r) ==
    /\ Fits(L.width[r], r)
    /\ L.cur[r] >= 0
    /\ L.RCur[r] = L.RStart[r] + L.cur[r] * L.width[r]
    /\ r # 0 => /\ L.RCur[r - 1] = L.RStart[r] + (Thres - 1) * L.width[r]
                /\ L.cur[r] <= Thres - 1
                /\ RungEvents(L, r) # {} => L.cur[r] <= Thres - 2

Sound(L) ==
    /\ L \in Ladders
    /\ Sizes(L) /\ InCurrent(L) /\ Counters(L) /\ Shape(L)
    /\ L.NBC # 0 => \A r \in 0 .. L.lowest : RungFits(L, r)

\* The numbers of a union of two disjoint sets.
LEMMA DisjointUnion ==
    ASSUME NEW S, NEW T, IsFiniteSet(S), IsFiniteSet(T), S \cap T = {}
    PROVE  /\ IsFiniteSet(S \cup T)
           /\ Cardinality(S \cup T) = Cardinality(S) + Cardinality(T)
           /\ Cardinality(S) \in Nat /\ Cardinality(T) \in Nat
<1>1. /\ IsFiniteSet(S \cup T)
      /\ Cardinality(S \cup T) = Cardinality(S) + Cardinality(T) - Cardinality(S \cap T)
  BY FS_Union
<1>2. Cardinality(S \cap T) = 0
  BY FS_EmptySet
<1>3. Cardinality(S) \in Nat /\ Cardinality(T) \in Nat
  BY FS_CardinalityType
<1> QED  BY <1>1, <1>2, <1>3

\* The entries of a ladder whose rung r has changed.
LEMMA LadderEventsSplit ==
    ASSUME NEW L, NEW r \in Rungs
    PROVE  LadderEvents(L) = RungEvents(L, r) \cup UNION {RungEvents(L, q) : q \in Rungs \ {r}}
  BY DEF LadderEvents

LEMMA RungInLadder ==
    ASSUME NEW L, NEW r \in Rungs
    PROVE  RungEvents(L, r) \subseteq LadderEvents(L)
  BY DEF LadderEvents

\* Entries that are new to the ladder are put on rung r.
LEMMA CountersAdd ==
    ASSUME NEW L \in Ladders, NEW M, Counters(L), NEW r \in Rungs, NEW S, IsFiniteSet(S),
           S \cap LadderEvents(L) = {},
           PutOn(L, M, r, S)
    PROVE  Counters(M) /\ LadderEvents(M) = LadderEvents(L) \cup S
<1>1. LadderEvents(M) = LadderEvents(L) \cup S
  <2>1. /\ RungEvents(M, r) = RungEvents(L, r) \cup S
        /\ \A q \in Rungs \ {r} : RungEvents(M, q) = RungEvents(L, q)
    BY DEF PutOn
  <2> QED  BY <2>1, LadderEventsSplit
<1>2. IsFiniteSet(LadderEvents(M)) /\ M.NBC = Cardinality(LadderEvents(M))
  <2>1. /\ IsFiniteSet(LadderEvents(L)) /\ LadderEvents(L) \cap S = {}
        /\ L.NBC = Cardinality(LadderEvents(L))
    BY DEF Counters
  <2>2. /\ IsFiniteSet(LadderEvents(L) \cup S)
        /\ Cardinality(LadderEvents(L) \cup S) = Cardinality(LadderEvents(L)) + Cardinality(S)
    BY <2>1, DisjointUnion
  <2> QED  BY <1>1, <2>1, <2>2 DEF PutOn
<1>3. M.events[r] = Cardinality(RungEvents(M, r))
  <2>1. IsFiniteSet(RungEvents(L, r)) /\ RungEvents(L, r) \cap S = {}
    BY RungInLadder, FS_Subset DEF Counters
  <2>2. Cardinality(RungEvents(L, r) \cup S) = Cardinality(RungEvents(L, r)) + Cardinality(S)
    BY <2>1, DisjointUnion
  <2>3. L.events[r] = Cardinality(RungEvents(L, r))
    BY DEF Counters
  <2>4. M.events[r] = L.events[r] + Cardinality(S)
    BY DEF PutOn
  <2> QED  BY <2>2, <2>3, <2>4 DEF PutOn
<1>4. \A q \in Rungs \ {r} : M.events[q] = Cardinality(RungEvents(M, q))
  BY DEF Counters, PutOn
<1>5. \A q \in Rungs \ {r} : RungEvents(M, q) \cap RungEvents(M, r) = {}
  BY RungInLadder DEF Counters, PutOn
<1>6. \A p, q \in Rungs : p # q => RungEvents(M, p) \cap RungEvents(M, q) = {}
  BY <1>5 DEF Counters, PutOn
<1> QED  BY <1>1, <1>2, <1>3, <1>4, <1>6 DEF Counters

\* Rung r is emptied.
LEMMA CountersRemove ==
    ASSUME NEW L \in Ladders, NEW M, Counters(L), NEW r \in Rungs,
           M.NBC = L.NBC - Cardinality(RungEvents(L, r)),
           M.events = [L.events EXCEPT ![r] = 0],
           RungEvents(M, r) = {},
           \A q \in Rungs \ {r} : RungEvents(M, q) = RungEvents(L, q)
    PROVE  /\ Counters(M)
           /\ LadderEvents(M) = LadderEvents(L) \ RungEvents(L, r)
<1>1. LadderEvents(M) = LadderEvents(L) \ RungEvents(L, r)
  <2>1. LadderEvents(M) = UNION {RungEvents(L, q) : q \in Rungs \ {r}}
    BY LadderEventsSplit
  <2>2. \A q \in Rungs \ {r} : RungEvents(L, q) \cap RungEvents(L, r) = {}
    BY DEF Counters
  <2> QED  BY <2>1, <2>2, LadderEventsSplit
<1>2. IsFiniteSet(LadderEvents(M)) /\ M.NBC = Cardinality(LadderEvents(M))
  <2> DEFINE S == LadderEvents(M)
             T == RungEvents(L, r)
  <2>1. /\ IsFiniteSet(S) /\ IsFiniteSet(T) /\ S \cap T = {}
        /\ LadderEvents(L) = S \cup T
    BY <1>1, RungInLadder, FS_Subset DEF Counters
  <2>2. L.NBC = Cardinality(S \cup T) /\ M.NBC = L.NBC - Cardinality(T)
    BY <2>1 DEF Counters
  <2> HIDE DEF S, T
  <2>3. /\ Cardinality(S \cup T) = Cardinality(S) + Cardinality(T)
        /\ Cardinality(S) \in Nat /\ Cardinality(T) \in Nat
    BY <2>1, DisjointUnion
  <2>4. IsFiniteSet(S) /\ M.NBC = Cardinality(S)
    BY <2>1, <2>2, <2>3
  <2> QED  BY <2>4 DEF S
<1>3. ASSUME NEW q \in Rungs
      PROVE  M.events[q] = Cardinality(RungEvents(M, q))
  <2>1. L.events \in [Rungs -> Int] /\ L.events[q] = Cardinality(RungEvents(L, q))
    BY FieldTypes DEF Counters
  <2>2. CASE q = r
    <3>1. M.events[q] = 0
      BY <2>1, <2>2
    <3>2. RungEvents(M, q) = {}
      BY <2>2
    <3> QED  BY <3>1, <3>2, FS_EmptySet
  <2>3. CASE q # r
    <3>1. M.events[q] = L.events[q]
      BY <2>1, <2>3
    <3>2. RungEvents(M, q) = RungEvents(L, q)
      BY <2>3
    <3> QED  BY <2>1, <3>1, <3>2
  <2> QED  BY <2>2, <2>3
<1> QED  BY <1>1, <1>2, <1>3 DEF Counters

\* A number chosen as the least or the greatest is the least or the greatest.
LEMMA MinAndMax ==
    ASSUME NEW n \in Nat, NEW N \in SUBSET (0 .. n), N # {}
    PROVE  /\ Min(N) \in N /\ \A k \in N : Min(N) <= k
           /\ Max(N) \in N /\ \A k \in N : Max(N) >= k
<1>1. N \in SUBSET Nat
  OBVIOUS
<1>2. IsFiniteSet(N)
  <2>1. IsFiniteSet(0 .. n)
    BY FS_Interval
  <2> QED  BY <2>1, FS_Subset
<1>3. PICK m \in N : \A k \in N : m <= k
  BY <1>1, <1>2, LeastAndGreatest
<1>4. PICK g \in N : \A k \in N : k <= g
  BY <1>1, <1>2, LeastAndGreatest
<1>5. \A k \in N : g >= k
  BY <1>1, <1>4
<1> QED  BY <1>3, <1>5 DEF Min, Max

LEMMA FindRungFacts ==
    ASSUME NEW L \in Ladders, NEW ts
    PROVE  /\ FindRung(L, ts) \in 0 .. L.lowest
           /\ ts >= L.RCur[FindRung(L, ts)] \/ FindRung(L, ts) = L.lowest
           /\ \A q \in 0 .. L.lowest : q < FindRung(L, ts) => ~ (ts >= L.RCur[q])
<1> DEFINE N == {r \in 0 .. L.lowest : ts >= L.RCur[r] \/ r = L.lowest}
<1>1. L.lowest \in Nat
  BY FieldTypes, Parameters
<1>2. N \in SUBSET (0 .. L.lowest) /\ L.lowest \in N
  BY <1>1
<1>3. Min(N) \in N /\ \A k \in N : Min(N) <= k
  <2> HIDE DEF N
  <2> QED  BY <1>1, <1>2, MinAndMax
<1>4. \A q \in 0 .. L.lowest : q < Min(N) => q \notin N
  <2> HIDE DEF N
  <2>1. Min(N) \in 0 .. L.lowest
    BY <1>2, <1>3
  <2> QED  BY <1>1, <1>3, <2>1
<1>5. FindRung(L, ts) = Min(N)
  BY DEF FindRung
<1> QED  BY <1>3, <1>4, <1>5

LEMMA Upto ==
    ASSUME NEW L \in Ladders, NEW r \in 0 .. L.lowest
    PROVE  /\ r \in Rungs /\ r \in Nat /\ L.lowest \in Rungs /\ L.lowest \in Nat
           /\ r # 0 => r - 1 \in 0 .. L.lowest /\ r - 1 \in Rungs /\ r - 1 < r
<1>1. L.lowest \in Rungs /\ L.lowest \in Nat /\ L.lowest < MAX_RUNGS
  BY FieldTypes, Parameters
<1>2. r \in Nat /\ r < MAX_RUNGS /\ (r # 0 => r - 1 \in Nat /\ r - 1 < MAX_RUNGS)
  BY <1>1, Parameters
<1> QED  BY <1>1, <1>2, Parameters

\* A ladder that differs in the entries of rung r, which has room for them.
LEMMA RungFitsAfterPut ==
    ASSUME NEW L \in Ladders, NEW M, NEW q \in Rungs, NEW r \in Rungs, RungFits(L, q),
           M.width = L.width, M.cur = L.cur, M.RCur = L.RCur, M.RStart = L.RStart,
           q # r => RungEvents(M, q) = RungEvents(L, q),
           q = r /\ r # 0 => L.cur[r] <= Thres - 2
    PROVE  RungFits(M, q)
  BY DEF RungFits

\* Ladder::push(Entry) keeps the ladder sound: the rung it finds has room.
LEMMA PushEntrySound ==
    ASSUME NEW L, Sound(L), NEW e \in Pushable, e \notin LadderEvents(L),
           Accepts(L, e.arrival), NEW M, M = PushEntry(L, e)
    PROVE  /\ Sound(M)
           /\ LadderEvents(M) = LadderEvents(L) \cup {e}
           /\ M.lowest = L.lowest /\ M.RCur = L.RCur
           /\ M.NBC = L.NBC + 1
<1> DEFINE r == FindRung(L, e.arrival)
           ts == e.arrival
<1>1. L \in Ladders /\ L.NBC # 0 /\ ts \in Nat
  BY Parameters DEF Sound, Accepts, Pushable
<1>2. r \in 0 .. L.lowest /\ ts >= L.RCur[r]
      /\ \A q \in 0 .. L.lowest : q < r => ~ (ts >= L.RCur[q])
  BY <1>1, FindRungFacts DEF Accepts
<1> HIDE DEF r, ts
<1>3. r \in Rungs /\ r \in Nat /\ (r # 0 => r - 1 \in 0 .. L.lowest /\ r - 1 \in Rungs /\ r - 1 < r)
  BY <1>1, <1>2, Upto
<1>4. RungFits(L, r)
  BY <1>1, <1>2 DEF Sound
<1>5. /\ L.width[r] \in Nat \ {0} /\ L.cur[r] \in Nat /\ L.RStart[r] \in Int
      /\ L.RCur[r] = L.RStart[r] + L.cur[r] * L.width[r]
  BY <1>1, <1>3, <1>4, FieldTypes, FitsPositive DEF RungFits
<1>6. r # 0 => L.cur[r] <= Thres - 2
  <2> SUFFICES ASSUME r # 0
               PROVE  L.cur[r] <= Thres - 2
    OBVIOUS
  <2> DEFINE c == L.cur[r]
             w == L.width[r]
             start == L.RStart[r]
             m == Thres - 1
  <2>1. L.RCur[r - 1] = start + m * w /\ m \in Int /\ L.RCur[r] = start + c * w
    BY <1>4, <1>5, Parameters DEF RungFits
  <2>2. ~ (ts >= L.RCur[r - 1])
    BY <1>2, <1>3
  <2>3. ts >= start + c * w /\ ~ (ts >= start + m * w)
    BY <1>2, <2>1, <2>2
  <2>4. c \in Int /\ w \in Nat \ {0} /\ start \in Int /\ m \in Int /\ ts \in Int
    BY <1>1, <1>5, <2>1
  <2> HIDE DEF c, w, start, m
  <2>5. m <= c => m * w <= c * w
    BY <2>4, Products
  <2>6. m * w \in Int /\ c * w \in Int
    BY <2>4
  <2>7. c < m
    BY <2>3, <2>4, <2>5, <2>6
  <2> QED  BY <2>4, <2>7, Parameters DEF c, m
<1>7. L.cur[r] \in 0 .. Buckets(L, r) - 1
  <2>1. r # 0 => Buckets(L, r) = Thres
    BY <1>3 DEF Sound, Sizes
  <2>2. r = 0 => L.cur[r] = 0 /\ Buckets(L, r) \in Nat \ {0}
    BY <1>1, <1>3, BucketsFacts DEF Sound, Shape
  <2> QED  BY <1>5, <1>6, <2>1, <2>2, Parameters
<1>8. bucket(L, ts, r) = L.cur[r]
  <2>1. ts >= L.RStart[r] + L.cur[r] * L.width[r] /\ ts \in Int
    BY <1>1, <1>2, <1>5
  <2> QED  BY <1>1, <1>3, <1>5, <1>7, <2>1, BucketIsCurrent
<1>9. /\ IsFiniteSet({e}) /\ Cardinality({e}) = 1 /\ {e} \in SUBSET Pushable
      /\ {e} \cap LadderEvents(L) = {}
  BY FS_Singleton
<1>10. PutOn(L, M, r, {e})
  <2>1. M = PutAll(L, r, {e}) /\ InCurrent(L)
    BY DEF PushEntry, r, Sound
  <2>2. \A f \in {e} : bucket(L, f.arrival, r) = L.cur[r]
    BY <1>8 DEF ts
  <2> QED  BY <1>1, <1>3, <1>7, <1>9, <2>1, <2>2, PutAllFacts
<1>11. Counters(M) /\ LadderEvents(M) = LadderEvents(L) \cup {e}
  BY <1>1, <1>3, <1>9, <1>10, CountersAdd DEF Sound
<1>12. Sizes(M)
  BY <1>10 DEF Sound, Sizes, PutOn
<1>13. Shape(M)
  <2>1. r <= L.lowest
    BY <1>2, <1>3
  <2>2. \A q \in Rungs : q > M.lowest => q # r
    BY <1>1, <1>3, <1>10, <2>1, Parameters, Upto DEF PutOn
  <2>3. \A q \in Rungs : q > M.lowest => RungEvents(M, q) = {}
    BY <1>10, <2>2 DEF Sound, Shape, PutOn
  <2>4. RungEvents(M, 0) # {} /\ M.cur[0] = 0
    BY <1>1, <1>10, Parameters DEF Sound, Shape, PutOn
  <2> QED  BY <2>3, <2>4 DEF Shape
<1>14. \A q \in 0 .. M.lowest : RungFits(M, q)
  <2> SUFFICES ASSUME NEW q \in 0 .. L.lowest
               PROVE  RungFits(M, q)
    BY <1>10 DEF PutOn
  <2>1. q \in Rungs /\ RungFits(L, q)
    BY <1>1, Upto DEF Sound
  <2>2. q # r => RungEvents(M, q) = RungEvents(L, q)
    BY <1>10, <2>1 DEF PutOn
  <2> QED  BY <1>1, <1>3, <1>6, <1>10, <2>1, <2>2, RungFitsAfterPut DEF PutOn
<1> QED  BY <1>9, <1>10, <1>11, <1>12, <1>13, <1>14 DEF Sound, PutOn

\* What the new rung of spawn looks like.
LEMMA AddRungFacts ==
    ASSUME NEW L \in Ladders, CanSpawn(L)
    PROVE  LET p == L.lowest
               M == AddRung(L)
           IN  /\ p \in Rungs /\ p + 1 \in Rungs /\ M \in Ladders
               /\ M.lowest = p + 1 /\ M.NBC = L.NBC
               /\ M.events = L.events /\ M.rungs = L.rungs
               /\ M.width[p + 1] = L.width[p] \div (Thres - 1)
               /\ M.RStart[p + 1] = L.RCur[p] - L.width[p]
               /\ M.RCur[p + 1] = L.RCur[p] - L.width[p]
               /\ M.cur[p + 1] = 0
               /\ \A r \in Rungs \ {p + 1} :
                    /\ M.width[r] = L.width[r] /\ M.RStart[r] = L.RStart[r]
                    /\ M.RCur[r] = L.RCur[r] /\ M.cur[r] = L.cur[r]
<1> DEFINE p == L.lowest
           M == AddRung(L)
           w == L.width[p] \div (Thres - 1)
           start == L.RCur[p] - L.width[p]
<1>1. p \in Rungs /\ p + 1 \in Rungs
  BY FieldTypes, Parameters DEF CanSpawn
<1>2. w \in Int /\ start \in Int /\ 0 \in Int
  <2>1. Thres - 1 \in Nat \ {0} /\ L.width[p] \in Int /\ L.RCur[p] \in Int
    <3> HIDE DEF p
    <3> QED  BY <1>1, FieldTypes, Parameters
  <2>2. L.width[p] \div (Thres - 1) \in Int
    <3> HIDE DEF p
    <3> QED  BY <2>1, Quotients
  <2> HIDE DEF p
  <2> QED  BY <2>1, <2>2
<1> DEFINE width2 == [L.width EXCEPT ![p + 1] = w]
           RStart2 == [L.RStart EXCEPT ![p + 1] = start]
           RCur2 == [L.RCur EXCEPT ![p + 1] = start]
           cur2 == [L.cur EXCEPT ![p + 1] = 0]
<1>3. M = LadderOf(p + 1, L.NBC, L.events, cur2, width2, RCur2, RStart2, L.rungs)
  <2> HIDE DEF p
  <2>1. M = [L EXCEPT !.lowest = p + 1, !.width[p + 1] = w, !.RStart[p + 1] = start,
                      !.RCur[p + 1] = start, !.cur[p + 1] = 0]
    BY DEF AddRung, p
  <2> HIDE DEF M, w, start
  <2> QED  BY <2>1 DEF LadderOf, Ladders
<1> HIDE DEF M, p, w, start
<1>4. /\ width2 \in [Rungs -> Int] /\ RStart2 \in [Rungs -> Int]
      /\ RCur2 \in [Rungs -> Int] /\ cur2 \in [Rungs -> Int]
      /\ width2[p + 1] = w /\ RStart2[p + 1] = start /\ RCur2[p + 1] = start
      /\ cur2[p + 1] = 0
      /\ \A r \in Rungs \ {p + 1} :
           /\ width2[r] = L.width[r] /\ RStart2[r] = L.RStart[r]
           /\ RCur2[r] = L.RCur[r] /\ cur2[r] = L.cur[r]
  BY <1>1, <1>2, FieldTypes
<1> HIDE DEF width2, RStart2, RCur2, cur2
<1>5. /\ L.NBC \in Int /\ L.events \in [Rungs -> Int] /\ L.rungs \in [Rungs -> Arrays]
  BY FieldTypes
<1>6. /\ M \in Ladders /\ M.lowest = p + 1 /\ M.NBC = L.NBC
      /\ M.events = L.events /\ M.rungs = L.rungs
      /\ M.width = width2 /\ M.RStart = RStart2 /\ M.RCur = RCur2 /\ M.cur = cur2
  BY <1>1, <1>3, <1>4, <1>5 DEF LadderOf, Ladders
<1> QED  BY <1>1, <1>4, <1>6 DEF M, p, w, start

\* Ladder::pushBack keeps the ladder sound: the new rung covers the bucket that
\* was dequeued last.
LEMMA PushBackSound ==
    ASSUME NEW L, Sound(L), L.NBC # 0, CanSpawn(L),
           NEW S \in SUBSET Pushable, IsFiniteSet(S), LadderEvents(L) \cap S = {},
           NEW M, M = PushBack(L, S)
    PROVE  /\ Sound(M)
           /\ LadderEvents(M) = LadderEvents(L) \cup S
           /\ M.NBC = L.NBC + Cardinality(S)
<1> DEFINE p == L.lowest
           r == L.lowest + 1
           N == AddRung(L)
<1>1. L \in Ladders
  BY DEF Sound
<1>2. /\ p \in Rungs /\ r \in Rungs /\ N \in Ladders
      /\ N.lowest = r /\ N.NBC = L.NBC
      /\ N.events = L.events /\ N.rungs = L.rungs
      /\ N.width[r] = L.width[p] \div (Thres - 1)
      /\ N.RStart[r] = L.RCur[p] - L.width[p]
      /\ N.RCur[r] = L.RCur[p] - L.width[p]
      /\ N.cur[r] = 0
      /\ \A q \in Rungs \ {r} :
           /\ N.width[q] = L.width[q] /\ N.RStart[q] = L.RStart[q]
           /\ N.RCur[q] = L.RCur[q] /\ N.cur[q] = L.cur[q]
  BY <1>1, AddRungFacts
<1>3. M = PutAll(N, r, S)
  BY <1>2 DEF PushBack
<1>4. r = p + 1 /\ p \in Nat
  BY <1>2, Parameters
<1> HIDE DEF N, p, r
<1>5. \A q \in Rungs : RungEvents(N, q) = RungEvents(L, q) /\ Buckets(N, q) = Buckets(L, q)
  BY <1>2 DEF RungEvents, Buckets
<1>6. RungEvents(L, r) = {}
  <2>1. r > L.lowest
    BY <1>4 DEF p
  <2> QED  BY <1>2, <2>1 DEF Sound, Shape
<1>7. InCurrent(N)
  <2> SUFFICES ASSUME NEW q \in Rungs, NEW b \in DOMAIN N.rungs[q], N.rungs[q][b] # {}
               PROVE  b = N.cur[q]
    BY DEF InCurrent
  <2>1. b \in DOMAIN L.rungs[q] /\ L.rungs[q][b] # {}
    BY <1>2
  <2>2. L.rungs[q][b] \subseteq RungEvents(L, q)
    BY <2>1 DEF RungEvents
  <2>3. q # r
    BY <1>6, <2>1, <2>2
  <2> QED  BY <1>2, <2>1, <2>3 DEF Sound, InCurrent
<1>8. Counters(N) /\ LadderEvents(N) = LadderEvents(L)
  <2>1. LadderEvents(N) = LadderEvents(L)
    BY <1>5 DEF LadderEvents
  <2>2. Counters(L)
    BY DEF Sound
  <2> QED  BY <1>2, <1>5, <2>1, <2>2 DEF Counters
<1>9. Fits(L.width[p], p)
  BY <1>2, <1>4 DEF Sound, RungFits, p
<1>10. Fits(N.width[r], r) /\ L.width[p] = (Thres - 1) * N.width[r]
  BY <1>2, <1>4, <1>9, FitsNext
<1>11. N.width[r] \in Nat \ {0}
  BY <1>2, <1>10, FitsPositive
<1>12. N.cur[r] \in 0 .. Buckets(N, r) - 1
  BY <1>2, BucketsFacts
<1>13. \A e \in S : bucket(N, e.arrival, r) = N.cur[r]
  <2>1. \A e \in S : e.arrival \in Int
    BY PushableFacts
  <2> QED  BY <1>2, <1>11, <1>12, <2>1, BucketIsCurrent
<1>14. PutOn(N, M, r, S)
  BY <1>2, <1>3, <1>7, <1>12, <1>13, PutAllFacts
<1>15. Counters(M) /\ LadderEvents(M) = LadderEvents(L) \cup S
  <2>1. S \cap LadderEvents(N) = {}
    BY <1>8
  <2>2. Counters(M) /\ LadderEvents(M) = LadderEvents(N) \cup S
    BY <1>2, <1>8, <1>14, <2>1, CountersAdd
  <2> QED  BY <1>8, <2>2
<1>16. Sizes(M)
  BY <1>5, <1>14 DEF Sound, Sizes, PutOn
<1>17. Shape(M)
  <2>1. \A q \in Rungs : q > r => q # r /\ q > L.lowest
    BY <1>4, Parameters DEF p
  <2>2. \A q \in Rungs : q > M.lowest => RungEvents(M, q) = {}
    BY <1>2, <1>5, <1>14, <2>1 DEF Sound, Shape, PutOn
  <2>3. 0 \in Rungs /\ 0 # r
    BY <1>4, Parameters
  <2>4. RungEvents(M, 0) # {} /\ M.cur[0] = 0
    BY <1>2, <1>5, <1>14, <2>3 DEF Sound, Shape, PutOn
  <2> QED  BY <2>2, <2>4 DEF Shape
<1>18. \A q \in 0 .. M.lowest : RungFits(M, q)
  <2> SUFFICES ASSUME NEW q \in 0 .. r
               PROVE  RungFits(M, q)
    BY <1>2, <1>14 DEF PutOn
  <2>1. CASE q = r
    <3>1. /\ M.width[r] = N.width[r] /\ M.cur[r] = 0
          /\ M.RCur[r] = L.RCur[p] - L.width[p] /\ M.RStart[r] = L.RCur[p] - L.width[p]
          /\ M.RCur[p] = L.RCur[p]
      BY <1>2, <1>4, <1>14 DEF PutOn
    <3>2. /\ M.RCur[r] \in Int /\ M.RStart[r] \in Int /\ M.width[r] \in Int
          /\ L.RCur[p] \in Int /\ L.width[p] \in Int
      BY <1>1, <1>2, <1>14, FieldTypes DEF PutOn
    <3>3. M.RCur[r] = M.RStart[r] + M.cur[r] * M.width[r]
      BY <3>1, <3>2
    <3>4. M.RCur[r - 1] = M.RStart[r] + (Thres - 1) * M.width[r]
      <4>1. r - 1 = p
        BY <1>4
      <4>2. (Thres - 1) * M.width[r] = L.width[p]
        BY <1>10, <3>1
      <4> QED  BY <3>1, <3>2, <4>1, <4>2
    <3>5. M.cur[r] >= 0 /\ M.cur[r] <= Thres - 1 /\ M.cur[r] <= Thres - 2
      BY <3>1, Parameters
    <3> QED  BY <1>10, <2>1, <3>1, <3>3, <3>4, <3>5 DEF RungFits
  <2>2. CASE q # r
    <3>1. q \in 0 .. L.lowest /\ q \in Rungs /\ q - 1 # r
      BY <1>2, <1>4, <2>2, Parameters DEF p
    <3>2. q # 0 => q - 1 \in Rungs \ {r}
      BY <1>1, <3>1, Upto
    <3>3. RungFits(L, q)
      BY <3>1 DEF Sound
    <3> QED
      BY <1>2, <1>5, <1>14, <2>2, <3>1, <3>2, <3>3 DEF RungFits, PutOn
  <2> QED  BY <2>1, <2>2
<1>19. M \in Ladders /\ InCurrent(M) /\ M.NBC = L.NBC + Cardinality(S)
  BY <1>2, <1>14 DEF PutOn
<1> QED  BY <1>15, <1>16, <1>17, <1>18, <1>19 DEF Sound

\* A ladder that holds nothing holds nothing on any rung.
LEMMA EmptyLadder ==
    ASSUME NEW L, Counters(L)
    PROVE  /\ L.NBC \in Nat
           /\ L.NBC = 0 <=> LadderEvents(L) = {}
           /\ L.NBC = 0 => \A r \in Rungs : RungEvents(L, r) = {} /\ L.events[r] = 0
<1>1. L.NBC \in Nat /\ (L.NBC = 0 <=> LadderEvents(L) = {})
  BY FS_EmptySet, FS_CardinalityType DEF Counters
<1>2. ASSUME L.NBC = 0, NEW r \in Rungs
      PROVE  RungEvents(L, r) = {} /\ L.events[r] = 0
  <2>1. RungEvents(L, r) = {}
    BY <1>1, <1>2, RungInLadder
  <2> QED  BY <2>1, FS_EmptySet DEF Counters
<1> QED  BY <1>1, <1>2

\* The ladder an epoch starts with, of n buckets or more and width w.
EpochBase(L, w, n, min) ==
    LET L1 == [L EXCEPT !.lowest = 0, !.width[0] = w,
                        !.RStart[0] = min, !.RCur[0] = min,
                        !.cur = [r \in Rungs |-> 0]]
    IN  IF n >= Buckets(L, 0) THEN resizeFirstRung(L1, n) ELSE L1

LEMMA EpochBaseFacts ==
    ASSUME NEW L \in Ladders, Sizes(L), Counters(L), L.NBC = 0,
           NEW w \in Int, NEW n \in Nat, NEW min \in Int
    PROVE  LET M == EpochBase(L, w, n, min)
           IN  /\ M \in Ladders /\ Sizes(M) /\ InCurrent(M) /\ Counters(M)
               /\ M.lowest = 0 /\ M.NBC = 0
               /\ M.width[0] = w /\ M.RStart[0] = min /\ M.RCur[0] = min /\ M.cur[0] = 0
               /\ \A r \in Rungs : RungEvents(M, r) = {}
<1> DEFINE M == EpochBase(L, w, n, min)
           size == IF n >= Buckets(L, 0) THEN 2 * n ELSE Buckets(L, 0)
           first == IF n >= Buckets(L, 0) THEN [b \in 0 .. 2 * n - 1 |-> {}] ELSE L.rungs[0]
           width2 == [L.width EXCEPT ![0] = w]
           RStart2 == [L.RStart EXCEPT ![0] = min]
           RCur2 == [L.RCur EXCEPT ![0] = min]
           cur2 == [r \in Rungs |-> 0]
           rungs2 == [L.rungs EXCEPT ![0] = first]
<1>1. 0 \in Rungs
  BY Parameters
<1>2. /\ Buckets(L, 0) \in Nat \ {0} /\ Buckets(L, 0) >= Thres
      /\ L.rungs[0] \in [0 .. Buckets(L, 0) - 1 -> SUBSET Pushable]
  BY <1>1, BucketsFacts DEF Sizes
<1>3. size \in Nat \ {0} /\ size >= Thres
  BY <1>2, Parameters
<1>4. \A r \in Rungs : RungEvents(L, r) = {} /\ L.events[r] = 0
  BY EmptyLadder
<1>5. \A b \in 0 .. Buckets(L, 0) - 1 : L.rungs[0][b] = {}
  <2>1. RungEvents(L, 0) = {} /\ DOMAIN L.rungs[0] = 0 .. Buckets(L, 0) - 1
    BY <1>1, <1>4, BucketsFacts
  <2> QED  BY <2>1 DEF RungEvents
<1>6. first = [b \in 0 .. size - 1 |-> {}]
  <2>1. CASE n >= Buckets(L, 0)
    BY <2>1
  <2>2. CASE ~ (n >= Buckets(L, 0))
    BY <1>2, <1>5, <2>2
  <2> QED  BY <2>1, <2>2
<1>7. first \in Arrays
  <2> HIDE DEF first
  <2>1. first \in [0 .. size - 1 -> SUBSET Pushable]
    <3> HIDE DEF size
    <3> QED  BY <1>6
  <2> HIDE DEF size
  <2> QED  BY <1>3, <2>1 DEF Arrays
<1>8. M = LadderOf(0, L.NBC, L.events, cur2, width2, RCur2, RStart2, rungs2)
  <2>1. CASE n >= Buckets(L, 0)
    <3> DEFINE empty == [b \in 0 .. 2 * n - 1 |-> {}]
    <3>1. M = [L EXCEPT !.lowest = 0, !.width[0] = w, !.RStart[0] = min,
                        !.RCur[0] = min, !.cur = cur2, !.rungs[0] = empty]
      BY <2>1 DEF EpochBase, resizeFirstRung
    <3>2. first = empty
      BY <2>1
    <3> HIDE DEF first, empty, cur2, M
    <3> QED  BY <3>1, <3>2 DEF LadderOf, Ladders
  <2>2. CASE ~ (n >= Buckets(L, 0))
    <3>1. M = [L EXCEPT !.lowest = 0, !.width[0] = w, !.RStart[0] = min,
                        !.RCur[0] = min, !.cur = cur2]
      BY <2>2 DEF EpochBase
    <3>2. rungs2 = L.rungs
      <4>1. first = L.rungs[0]
        BY <2>2
      <4> HIDE DEF first
      <4> QED  BY <1>1, <4>1, FieldTypes
    <3> HIDE DEF rungs2, cur2, M
    <3> QED  BY <3>1, <3>2 DEF LadderOf, Ladders
  <2> QED  BY <2>1, <2>2
<1> HIDE DEF M, first, size
<1>9. /\ width2 \in [Rungs -> Int] /\ RStart2 \in [Rungs -> Int]
      /\ RCur2 \in [Rungs -> Int] /\ cur2 \in [Rungs -> Int]
      /\ rungs2 \in [Rungs -> Arrays]
      /\ width2[0] = w /\ RStart2[0] = min /\ RCur2[0] = min /\ cur2[0] = 0
      /\ rungs2[0] = first /\ \A r \in Rungs \ {0} : rungs2[r] = L.rungs[r]
  BY <1>1, <1>7, FieldTypes
<1> HIDE DEF width2, RStart2, RCur2, cur2, rungs2
<1>10. L.NBC \in Int /\ L.events \in [Rungs -> Int]
  BY FieldTypes
<1>11. /\ M \in Ladders /\ M.lowest = 0 /\ M.NBC = L.NBC /\ M.events = L.events
       /\ M.width = width2 /\ M.RStart = RStart2 /\ M.RCur = RCur2 /\ M.cur = cur2
       /\ M.rungs = rungs2
  BY <1>1, <1>8, <1>9, <1>10 DEF LadderOf, Ladders
<1>12. \A r \in Rungs : RungEvents(M, r) = {}
  <2>1. RungEvents(M, 0) = {}
    <3>1. M.rungs[0] = first
      BY <1>9, <1>11
    <3>2. \A b \in DOMAIN first : first[b] = {}
      BY <1>6
    <3> QED  BY <3>1, <3>2 DEF RungEvents
  <2>2. \A r \in Rungs \ {0} : RungEvents(M, r) = RungEvents(L, r)
    BY <1>9, <1>11 DEF RungEvents
  <2> QED  BY <1>4, <2>1, <2>2
<1>13. Sizes(M)
  <2>1. Buckets(M, 0) = size
    <3>1. DOMAIN M.rungs[0] = 0 .. size - 1
      BY <1>6, <1>9, <1>11
    <3>2. Cardinality(0 .. size - 1) = IF 0 > size - 1 THEN 0 ELSE (size - 1) - 0 + 1
      BY <1>3, FS_Interval
    <3>3. Cardinality(0 .. size - 1) = size
      BY <1>3, <3>2
    <3> QED  BY <3>1, <3>3 DEF Buckets
  <2>2. \A r \in Rungs \ {0} : Buckets(M, r) = Buckets(L, r)
    BY <1>9, <1>11 DEF Buckets
  <2> QED  BY <1>3, <2>1, <2>2 DEF Sizes
<1>14. InCurrent(M)
  <2>1. \A r \in Rungs : \A b \in DOMAIN M.rungs[r] : M.rungs[r][b] = {}
    BY <1>12 DEF RungEvents
  <2> QED  BY <2>1 DEF InCurrent
<1>15. Counters(M)
  <2>1. LadderEvents(M) = {}
    BY <1>12 DEF LadderEvents
  <2> QED  BY <1>4, <1>11, <1>12, <2>1, FS_EmptySet DEF Counters
<1> QED  BY <1>9, <1>11, <1>12, <1>13, <1>14, <1>15 DEF M

\* M holds the list S as an epoch that starts at min.
StartsEpoch(M, S, min) ==
    /\ Sound(M) /\ M.NBC = Cardinality(S) /\ M.NBC # 0
    /\ LadderEvents(M) = S
    /\ M.lowest = 0 /\ M.RCur[0] = min

\* Ladder::push(list, max, min) starts a sound ladder.
LEMMA NewEpochSound ==
    ASSUME NEW L, Sound(L), L.NBC = 0,
           NEW S \in SUBSET Pushable, S # {}, IsFiniteSet(S), Cardinality(S) <= MaxPushes,
           NEW max \in Times, NEW min \in Times, min <= max
    PROVE  StartsEpoch(NewEpoch(L, S, max, min), S, min)
<1> DEFINE k == Cardinality(S)
           w == bucketwidth(max, min, k)
           n == (max - min) \div w
           N == EpochBase(L, w, n, min)
           M == NewEpoch(L, S, max, min)
<1>1. k \in 1 .. MaxPushes /\ k \in Nat /\ k # 0
  <2>1. k \in Nat /\ k # 0
    BY FS_EmptySet, FS_CardinalityType
  <2> HIDE DEF k
  <2>2. k <= MaxPushes
    BY DEF k
  <2> QED  BY <2>1, <2>2, Parameters
<1>2. Fits(w, 0) /\ n = IF min = max THEN 0 ELSE k
  <2> HIDE DEF k
  <2> QED  BY <1>1, EpochWidth
<1>3. w \in Nat \ {0} /\ n \in Nat /\ min \in Int
  <2>1. w \in Nat \ {0}
    <3> HIDE DEF w
    <3> QED  BY <1>2, FitsPositive, Parameters
  <2>2. n \in Nat
    <3> HIDE DEF n, k
    <3> QED  BY <1>1, <1>2
  <2>3. min \in Int
    BY Parameters
  <2> QED  BY <2>1, <2>2, <2>3
<1>4. M = PutAll(N, 0, S)
  BY DEF NewEpoch, EpochBase
<1> HIDE DEF k, w, n, M
<1>5. /\ N \in Ladders /\ Sizes(N) /\ InCurrent(N) /\ Counters(N)
      /\ N.lowest = 0 /\ N.NBC = 0
      /\ N.width[0] = w /\ N.RStart[0] = min /\ N.RCur[0] = min /\ N.cur[0] = 0
      /\ \A r \in Rungs : RungEvents(N, r) = {}
  <2>1. L \in Ladders /\ Sizes(L) /\ Counters(L) /\ L.NBC = 0
    BY DEF Sound
  <2>2. w \in Int /\ n \in Nat /\ min \in Int
    BY <1>3
  <2> QED  BY <2>1, <2>2, EpochBaseFacts
<1> HIDE DEF N
<1>6. 0 \in Rungs /\ N.cur[0] \in 0 .. Buckets(N, 0) - 1
  <2>1. 0 \in Rungs
    BY Parameters
  <2>2. Buckets(N, 0) \in Nat \ {0}
    BY <1>5, <2>1, BucketsFacts
  <2> QED  BY <1>5, <2>1, <2>2
<1>7. \A e \in S : bucket(N, e.arrival, 0) = N.cur[0]
  <2>1. \A e \in S : e.arrival \in Int
    BY PushableFacts
  <2> QED  BY <1>3, <1>5, <1>6, <2>1, BucketIsCurrent
<1>8. PutOn(N, M, 0, S)
  BY <1>4, <1>5, <1>6, <1>7, PutAllFacts
<1>9. LadderEvents(N) = {}
  BY <1>5 DEF LadderEvents
<1>10. Counters(M) /\ LadderEvents(M) = S
  <2>1. S \cap LadderEvents(N) = {}
    BY <1>9
  <2>2. Counters(M) /\ LadderEvents(M) = LadderEvents(N) \cup S
    BY <1>5, <1>6, <1>8, <2>1, CountersAdd
  <2> QED  BY <1>9, <2>2
<1>11. M.NBC = k /\ M.NBC # 0 /\ M.lowest = 0 /\ M.RCur[0] = min
  <2>1. M.NBC = 0 + k
    BY <1>5, <1>8 DEF PutOn, k
  <2> QED  BY <1>1, <1>5, <1>8, <2>1 DEF PutOn
<1>12. Sizes(M)
  BY <1>5, <1>8 DEF Sizes, PutOn
<1>13. Shape(M)
  <2>1. \A q \in Rungs : q > M.lowest => q \in Rungs \ {0}
    BY <1>11, Parameters
  <2>2. \A q \in Rungs : q > M.lowest => RungEvents(M, q) = {}
    BY <1>5, <1>8, <2>1 DEF PutOn
  <2>3. RungEvents(M, 0) # {} /\ M.cur[0] = 0
    BY <1>5, <1>8 DEF PutOn
  <2> QED  BY <2>2, <2>3 DEF Shape
<1>14. RungFits(M, 0)
  <2>1. M.width[0] = w /\ M.cur[0] = 0 /\ M.RCur[0] = min /\ M.RStart[0] = min
    BY <1>5, <1>8 DEF PutOn
  <2>2. min = min + 0 * w /\ 0 >= 0
    BY <1>3
  <2> QED  BY <1>2, <2>1, <2>2 DEF RungFits
<1>15. \A q \in 0 .. M.lowest : RungFits(M, q)
  <2>1. \A q \in 0 .. 0 : q = 0
    OBVIOUS
  <2> QED  BY <1>11, <1>14, <2>1
<1>16. M \in Ladders /\ InCurrent(M)
  BY <1>8 DEF PutOn
<1> QED  BY <1>10, <1>11, <1>12, <1>13, <1>15, <1>16 DEF Sound, StartsEpoch, k, M

-----------------------------------------------------------------------------
(* Delisting: a ladder gives its lowest entries as a whole rung.           *)

\* The places of rung r are the same in both ladders.
SamePlaces(L, M, r) ==
    /\ M.width[r] = L.width[r] /\ M.RStart[r] = L.RStart[r]
    /\ M.RCur[r] = L.RCur[r] /\ M.cur[r] = L.cur[r]

\* The lowest rung that holds entries is p.
LowestHolding(L, p) ==
    /\ p \in 0 .. L.lowest
    /\ RungEvents(L, p) # {}
    /\ \A r \in Rungs : r > p => RungEvents(L, r) = {}

LEMMA CurrentBucketIsRung ==
    ASSUME NEW L \in Ladders, InCurrent(L)
    PROVE  CurrentBucket(L) = RungEvents(L, L.lowest)
<1> DEFINE r == L.lowest
<1>1. r \in Rungs /\ DOMAIN L.rungs[r] = 0 .. Buckets(L, r) - 1
  BY FieldTypes, BucketsFacts
<1>2. CurrentBucket(L) = IF L.cur[r] \in DOMAIN L.rungs[r] THEN L.rungs[r][L.cur[r]] ELSE {}
  BY DEF CurrentBucket
<1> HIDE DEF r
<1>3. CurrentBucket(L) = RungEvents(L, r)
  BY <1>1, <1>2, CurrentIsRung
<1> QED  BY <1>3 DEF r

\* M is L with l as its lowest rung, and other places for the rungs of R.
Leaves(L, M, R, l) ==
    /\ M \in Ladders /\ M.lowest = l
    /\ M.NBC = L.NBC /\ M.events = L.events /\ M.width = L.width
    /\ M.rungs = L.rungs
    /\ \A r \in Rungs \ R : SamePlaces(L, M, r)

LEMMA ResetRungsFacts ==
    ASSUME NEW L \in Ladders, NEW R, NEW l \in Rungs
    PROVE  Leaves(L, [ResetRungs(L, R) EXCEPT !.lowest = l], R, l)
<1> DEFINE M == [ResetRungs(L, R) EXCEPT !.lowest = l]
           RCur2 == [r \in Rungs |-> IF r \in R THEN DblMax ELSE L.RCur[r]]
           RStart2 == [r \in Rungs |-> IF r \in R THEN DblMax ELSE L.RStart[r]]
           cur2 == [r \in Rungs |-> IF r \in R THEN 0 ELSE L.cur[r]]
<1>1. M = LadderOf(l, L.NBC, L.events, cur2, L.width, RCur2, RStart2, L.rungs)
  <2>1. ResetRungs(L, R) = [L EXCEPT !.RCur = RCur2, !.RStart = RStart2, !.cur = cur2]
    BY DEF ResetRungs
  <2>2. M = [[L EXCEPT !.RCur = RCur2, !.RStart = RStart2, !.cur = cur2] EXCEPT !.lowest = l]
    BY <2>1
  <2> HIDE DEF M, RCur2, RStart2, cur2
  <2> QED  BY <2>2 DEF LadderOf, Ladders
<1>2. /\ RCur2 \in [Rungs -> Int] /\ RStart2 \in [Rungs -> Int] /\ cur2 \in [Rungs -> Int]
      /\ \A r \in Rungs \ R : RCur2[r] = L.RCur[r] /\ RStart2[r] = L.RStart[r]
                              /\ cur2[r] = L.cur[r]
  <2>1. DblMax \in Int
    BY Parameters
  <2> QED  BY <2>1, FieldTypes
<1> HIDE DEF M, RCur2, RStart2, cur2
<1>3. /\ L.NBC \in Int /\ L.events \in [Rungs -> Int] /\ L.width \in [Rungs -> Int]
      /\ L.rungs \in [Rungs -> Arrays]
  BY FieldTypes
<1>4. /\ M \in Ladders /\ M.lowest = l /\ M.NBC = L.NBC /\ M.events = L.events
      /\ M.width = L.width /\ M.rungs = L.rungs
      /\ M.RCur = RCur2 /\ M.RStart = RStart2 /\ M.cur = cur2
  BY <1>1, <1>2, <1>3 DEF LadderOf, Ladders
<1>5. Leaves(L, M, R, l)
  BY <1>2, <1>4 DEF SamePlaces, Leaves
<1> QED  BY <1>5 DEF M

\* advanceDequeueBucket finds that rung, and there is no bucket to step over.
LEMMA AdvanceFacts ==
    ASSUME NEW L \in Ladders, InCurrent(L), Counters(L), NEW p, LowestHolding(L, p)
    PROVE  LET M == Advance(L)
           IN  /\ M \in Ladders /\ InCurrent(M) /\ M.lowest = p
               /\ M.NBC = L.NBC /\ M.events = L.events /\ M.rungs = L.rungs
               /\ \A r \in Rungs : r <= p => SamePlaces(L, M, r)
<1> DEFINE D == DropEmptyRungs(L)
           M == Advance(L)
<1>1. /\ p \in Rungs /\ p \in Nat /\ L.lowest \in Nat /\ p <= L.lowest
      /\ \A r \in 0 .. L.lowest : r \in Rungs
  BY Upto DEF LowestHolding
<1>2. Max({r \in 0 .. L.lowest : L.events[r] # 0 \/ r = 0}) = p
  <2> DEFINE N == {r \in 0 .. L.lowest : L.events[r] # 0 \/ r = 0}
  <2>1. L.events[p] # 0
    <3>1. IsFiniteSet(RungEvents(L, p))
      BY <1>1, RungInLadder, FS_Subset DEF Counters
    <3> QED  BY <1>1, <3>1, FS_EmptySet DEF Counters, LowestHolding
  <2>2. p \in N /\ N \in SUBSET (0 .. L.lowest)
    BY <2>1 DEF LowestHolding
  <2>3. ASSUME NEW r \in N
        PROVE  r <= p
    <3>1. r \in Rungs /\ r \in Nat
      BY <1>1
    <3>2. CASE r > p
      <4>1. RungEvents(L, r) = {}
        BY <3>1, <3>2 DEF LowestHolding
      <4>2. L.events[r] = 0
        BY <3>1, <4>1, FS_EmptySet DEF Counters
      <4>3. r = 0
        BY <4>2
      <4> QED  BY <1>1, <3>2, <4>3
    <3> QED  BY <1>1, <3>1, <3>2
  <2> HIDE DEF N
  <2>4. Max(N) \in N /\ \A k \in N : Max(N) >= k
    BY <1>1, <2>2, MinAndMax
  <2>5. Max(N) <= p /\ Max(N) >= p /\ Max(N) \in 0 .. L.lowest
    BY <2>2, <2>3, <2>4
  <2>6. Max(N) = p
    BY <1>1, <2>5
  <2> QED  BY <2>6 DEF N
<1>3. D = [ResetRungs(L, p + 1 .. L.lowest) EXCEPT !.lowest = p]
  BY <1>2 DEF DropEmptyRungs
<1>4. /\ D \in Ladders /\ D.lowest = p
      /\ D.NBC = L.NBC /\ D.events = L.events /\ D.width = L.width /\ D.rungs = L.rungs
      /\ \A r \in Rungs \ (p + 1 .. L.lowest) : SamePlaces(L, D, r)
  <2> HIDE DEF D
  <2> QED  BY <1>1, <1>3, ResetRungsFacts DEF Leaves
<1> HIDE DEF D
<1>5. \A r \in Rungs : r <= p => SamePlaces(L, D, r)
  <2>1. \A r \in Rungs : r <= p => r \notin p + 1 .. L.lowest
    BY <1>1, Parameters
  <2> QED  BY <1>4, <2>1
<1>6. \A r \in Rungs : RungEvents(D, r) = RungEvents(L, r)
  BY <1>4 DEF RungEvents
<1>7. InCurrent(D)
  <2> SUFFICES ASSUME NEW q \in Rungs, NEW b \in DOMAIN D.rungs[q], D.rungs[q][b] # {}
               PROVE  b = D.cur[q]
    BY DEF InCurrent
  <2>1. b \in DOMAIN L.rungs[q] /\ L.rungs[q][b] # {}
    BY <1>4
  <2>2. L.rungs[q][b] \subseteq RungEvents(L, q)
    BY <2>1 DEF RungEvents
  <2>3. q <= p
    <3>1. ~ (q > p)
      BY <2>1, <2>2 DEF LowestHolding
    <3> QED  BY <1>1, <3>1, Parameters
  <2> QED  BY <1>5, <2>1, <2>3 DEF InCurrent, SamePlaces
<1>8. D.cur[p] \in 0 .. Buckets(D, p) - 1
      /\ D.rungs[p][D.cur[p]] # {} /\ DOMAIN D.rungs[p] = 0 .. Buckets(D, p) - 1
  <2>1. RungEvents(D, p) # {}
    BY <1>1, <1>6 DEF LowestHolding
  <2> QED  BY <1>1, <1>4, <1>7, <2>1, CurrentIsRung, BucketsFacts
<1>9. NonEmptyFrom(D, p) = {D.cur[p]}
  <2>1. NonEmptyFrom(D, p) \subseteq {D.cur[p]}
    BY <1>1, <1>7 DEF NonEmptyFrom, InCurrent
  <2>2. D.cur[p] >= D.cur[p]
    BY <1>8
  <2> QED  BY <1>8, <2>1, <2>2 DEF NonEmptyFrom
<1>10. Min({D.cur[p]}) = D.cur[p]
  <2>1. D.cur[p] <= D.cur[p]
    BY <1>8
  <2> QED  BY <2>1 DEF Min
<1>11. M = [D EXCEPT !.cur[p] = D.cur[p],
                     !.RCur[p] = @ + D.width[p] * (D.cur[p] - D.cur[p])]
  BY <1>4, <1>9, <1>10 DEF Advance, SkipEmptyBuckets, D
<1> HIDE DEF M
<1>12. M = D
  <2>1. D.RCur[p] \in Int /\ D.width[p] \in Int /\ D.cur[p] \in Int
    BY <1>1, <1>4, FieldTypes
  <2>2. D.RCur[p] + D.width[p] * (D.cur[p] - D.cur[p]) = D.RCur[p]
    BY <2>1
  <2>3. [D.cur EXCEPT ![p] = D.cur[p]] = D.cur /\ [D.RCur EXCEPT ![p] = D.RCur[p]] = D.RCur
    BY <1>4, FieldTypes
  <2>4. M = [D EXCEPT !.cur = [D.cur EXCEPT ![p] = D.cur[p]],
                      !.RCur = [D.RCur EXCEPT ![p] = D.RCur[p]]]
    BY <1>11, <2>2 DEF Ladders
  <2>5. M = [D EXCEPT !.cur = D.cur, !.RCur = D.RCur]
    BY <2>3, <2>4
  <2> QED  BY <1>4, <2>5 DEF Ladders
<1> QED  BY <1>4, <1>5, <1>7, <1>12 DEF M

\* M is L without the entries of rung p.
Emptied(L, M, p) ==
    /\ Counters(M) /\ InCurrent(M)
    /\ LadderEvents(M) = LadderEvents(L) \ RungEvents(L, p)
    /\ RungEvents(M, p) = {}
    /\ \A q \in Rungs \ {p} : RungEvents(M, q) = RungEvents(L, q)
    /\ \A q \in Rungs : Buckets(M, q) = Buckets(L, q)

\* The array of rung p without its current bucket.
Without(L, p) == [b \in DOMAIN L.rungs[p] |-> IF b = L.cur[p] THEN {} ELSE L.rungs[p][b]]

LEMMA WithoutFacts ==
    ASSUME NEW L \in Ladders, InCurrent(L), NEW p \in Rungs
    PROVE  /\ Without(L, p) \in Arrays
           /\ DOMAIN Without(L, p) = DOMAIN L.rungs[p]
           /\ \A b \in DOMAIN L.rungs[p] : Without(L, p)[b] = {}
<1> DEFINE a == L.rungs[p]
           n == Buckets(L, p)
<1>1. n \in Nat \ {0} /\ DOMAIN a = 0 .. n - 1
  BY BucketsFacts
<1>2. \A b \in DOMAIN a : a[b] # {} => b = L.cur[p]
  BY DEF InCurrent
<1>3. Without(L, p) = [b \in DOMAIN a |-> {}]
  BY <1>2 DEF Without
<1> HIDE DEF a, n
<1>4. Without(L, p) \in [0 .. n - 1 -> SUBSET Pushable]
  BY <1>1, <1>3
<1>5. Without(L, p) \in Arrays
  BY <1>1, <1>4 DEF Arrays
<1>6. DOMAIN Without(L, p) = DOMAIN a /\ \A b \in DOMAIN a : Without(L, p)[b] = {}
  BY <1>3
<1> QED  BY <1>5, <1>6 DEF a

\* What delist() and spawn(true) do to the array and the counters of rung p.
TakesCurrent(L, M, p) ==
    /\ M.rungs = [L.rungs EXCEPT ![p] = Without(L, p)]
    /\ M.NBC = L.NBC - Cardinality(RungEvents(L, p))
    /\ M.events = [L.events EXCEPT ![p] = L.events[p] - Cardinality(RungEvents(L, p))]
    /\ \A q \in Rungs \ {p} : M.cur[q] = L.cur[q] \/ RungEvents(L, q) = {}

LEMMA EmptyRung ==
    ASSUME NEW L \in Ladders, InCurrent(L), Counters(L), NEW p \in Rungs, NEW M \in Ladders,
           TakesCurrent(L, M, p)
    PROVE  Emptied(L, M, p) /\ M.events[p] = 0
<1>1. M.rungs[p] = Without(L, p) /\ \A q \in Rungs \ {p} : M.rungs[q] = L.rungs[q]
  BY FieldTypes DEF TakesCurrent
<1>2. \A q \in Rungs \ {p} : RungEvents(M, q) = RungEvents(L, q) /\ Buckets(M, q) = Buckets(L, q)
  BY <1>1 DEF RungEvents, Buckets
<1>3. RungEvents(M, p) = {} /\ Buckets(M, p) = Buckets(L, p)
  BY <1>1, WithoutFacts DEF RungEvents, Buckets
<1>4. L.events[p] = Cardinality(RungEvents(L, p)) /\ L.events[p] \in Int
  BY FieldTypes DEF Counters
<1>5. M.events = [L.events EXCEPT ![p] = 0] /\ M.events[p] = 0
  <2>1. L.events[p] - Cardinality(RungEvents(L, p)) = 0
    BY <1>4
  <2> QED  BY <2>1, FieldTypes DEF TakesCurrent
<1>6. Counters(M) /\ LadderEvents(M) = LadderEvents(L) \ RungEvents(L, p)
  BY <1>2, <1>3, <1>5, CountersRemove DEF TakesCurrent
<1>7. InCurrent(M)
  <2> SUFFICES ASSUME NEW q \in Rungs, NEW b \in DOMAIN M.rungs[q], M.rungs[q][b] # {}
               PROVE  b = M.cur[q]
    BY DEF InCurrent
  <2>1. M.rungs[q][b] \subseteq RungEvents(M, q)
    BY DEF RungEvents
  <2>2. q # p
    BY <1>3, <2>1
  <2>3. M.rungs[q] = L.rungs[q] /\ RungEvents(L, q) # {}
    BY <1>1, <1>2, <2>1, <2>2
  <2> QED  BY <2>2, <2>3 DEF InCurrent, TakesCurrent
<1> QED  BY <1>2, <1>3, <1>5, <1>6, <1>7 DEF Emptied

\* What delist() does with the ladder that advanceDequeueBucket left.
Take(L) ==
    LET r  == L.lowest
        S  == CurrentBucket(L)
        L2 == [L EXCEPT !.events[r] = @ - Cardinality(S),
                        !.NBC = @ - Cardinality(S),
                        !.rungs[r] = [b \in DOMAIN @ |-> IF b = L.cur[r] THEN {} ELSE @[b]],
                        !.RCur[r] = @ + L.width[r],
                        !.cur[r] = @ + 1]
    IN  IF r > 0 /\ L2.events[r] = 0
        THEN [ResetRungs(L2, {r}) EXCEPT !.lowest = r - 1]
        ELSE L2

LEMMA TakeFacts ==
    ASSUME NEW L \in Ladders, InCurrent(L), Counters(L)
    PROVE  LET p == L.lowest
               M == Take(L)
           IN  /\ M \in Ladders
               /\ M.lowest = IF p > 0 THEN p - 1 ELSE 0
               /\ Emptied(L, M, p)
               /\ \A r \in Rungs \ {p} : SamePlaces(L, M, r)
<1> DEFINE p == L.lowest
           S == RungEvents(L, p)
           k == Cardinality(S)
           NBC2 == L.NBC - k
           events2 == [L.events EXCEPT ![p] = L.events[p] - k]
           rungs2 == [L.rungs EXCEPT ![p] = Without(L, p)]
           RCur2 == [L.RCur EXCEPT ![p] = L.RCur[p] + L.width[p]]
           cur2 == [L.cur EXCEPT ![p] = L.cur[p] + 1]
           N == LadderOf(p, NBC2, events2, cur2, L.width, RCur2, L.RStart, rungs2)
           M == Take(L)
<1>1. p \in Rungs /\ p \in Nat
  BY FieldTypes, Parameters
<1>2. CurrentBucket(L) = S
  BY CurrentBucketIsRung
<1>3. k \in Nat
  <2>1. IsFiniteSet(S)
    BY <1>1, RungInLadder, FS_Subset DEF Counters
  <2> QED  BY <2>1, FS_CardinalityType
<1>4. M = IF p > 0 /\ N.events[p] = 0 THEN [ResetRungs(N, {p}) EXCEPT !.lowest = p - 1] ELSE N
  <2> DEFINE L2 == [L EXCEPT !.events[p] = @ - Cardinality(CurrentBucket(L)),
                        !.NBC = @ - Cardinality(CurrentBucket(L)),
                        !.rungs[p] = [b \in DOMAIN @ |-> IF b = L.cur[p] THEN {} ELSE @[b]],
                        !.RCur[p] = @ + L.width[p],
                        !.cur[p] = @ + 1]
  <2>1. L2 = [L EXCEPT !.events = events2, !.NBC = NBC2, !.rungs = rungs2,
                       !.RCur = RCur2, !.cur = cur2]
    BY <1>2 DEF Without
  <2>2. L2 = N
    <3> HIDE DEF L2, p, events2, NBC2, rungs2, RCur2, cur2
    <3> QED  BY <2>1 DEF LadderOf, Ladders, p
  <2>3. M = IF p > 0 /\ L2.events[p] = 0 THEN [ResetRungs(L2, {p}) EXCEPT !.lowest = p - 1] ELSE L2
    BY DEF Take
  <2> HIDE DEF L2, M, N
  <2> QED  BY <2>2, <2>3
<1>5. /\ NBC2 \in Int /\ events2 \in [Rungs -> Int] /\ rungs2 \in [Rungs -> Arrays]
      /\ RCur2 \in [Rungs -> Int] /\ cur2 \in [Rungs -> Int]
      /\ \A r \in Rungs \ {p} : RCur2[r] = L.RCur[r] /\ cur2[r] = L.cur[r]
  <2> HIDE DEF p, k
  <2> QED  BY <1>1, <1>3, FieldTypes, WithoutFacts
<1> HIDE DEF M, N, NBC2, events2, rungs2, RCur2, cur2
<1>6. L.width \in [Rungs -> Int] /\ L.RStart \in [Rungs -> Int]
  BY FieldTypes
<1>7. /\ N \in Ladders /\ N.lowest = p /\ N.NBC = NBC2 /\ N.events = events2
      /\ N.width = L.width /\ N.RStart = L.RStart /\ N.RCur = RCur2 /\ N.cur = cur2
      /\ N.rungs = rungs2
  <2> HIDE DEF p, k, S
  <2> QED  BY <1>1, <1>5, <1>6 DEF N, LadderOf, Ladders
<1>8. Emptied(L, N, p) /\ N.events[p] = 0
  <2>1. \A q \in Rungs \ {p} : N.cur[q] = L.cur[q]
    BY <1>5, <1>7
  <2>2. N.rungs = [L.rungs EXCEPT ![p] = Without(L, p)]
    BY <1>7 DEF rungs2
  <2>3. /\ N.NBC = L.NBC - Cardinality(RungEvents(L, p))
        /\ N.events = [L.events EXCEPT ![p] = L.events[p] - Cardinality(RungEvents(L, p))]
    BY <1>7 DEF NBC2, events2
  <2>4. TakesCurrent(L, N, p)
    BY <2>1, <2>2, <2>3 DEF TakesCurrent
  <2> HIDE DEF p, k, S
  <2> QED  BY <1>1, <1>7, <2>4, EmptyRung
<1>9. \A r \in Rungs \ {p} : SamePlaces(L, N, r)
  BY <1>5, <1>7 DEF SamePlaces
<1>10. CASE p = 0
  <2> HIDE DEF p
  <2>1. M = N
    BY <1>4, <1>10
  <2> QED  BY <1>7, <1>8, <1>9, <1>10, <2>1 DEF p, M
<1>11. CASE p # 0
  <2> HIDE DEF p, k, S
  <2>1. p > 0 /\ p - 1 \in Rungs
    BY <1>1, <1>11, Parameters
  <2>2. M = [ResetRungs(N, {p}) EXCEPT !.lowest = p - 1]
    BY <1>4, <1>8, <2>1
  <2>3. /\ M \in Ladders /\ M.lowest = p - 1
        /\ M.NBC = N.NBC /\ M.events = N.events /\ M.width = N.width /\ M.rungs = N.rungs
        /\ \A r \in Rungs \ {p} : SamePlaces(N, M, r)
    <3>1. Leaves(N, [ResetRungs(N, {p}) EXCEPT !.lowest = p - 1], {p}, p - 1)
      BY <1>7, <2>1, ResetRungsFacts
    <3> HIDE DEF M, N
    <3> QED  BY <2>2, <3>1 DEF Leaves
  <2>4. \A r \in Rungs : RungEvents(M, r) = RungEvents(N, r) /\ Buckets(M, r) = Buckets(N, r)
    BY <2>3 DEF RungEvents, Buckets
  <2>5. LadderEvents(M) = LadderEvents(N)
    BY <2>4 DEF LadderEvents
  <2>6. Counters(M)
    BY <1>8, <2>3, <2>4, <2>5 DEF Counters, Emptied
  <2>7. InCurrent(M)
    <3> SUFFICES ASSUME NEW q \in Rungs, NEW b \in DOMAIN M.rungs[q], M.rungs[q][b] # {}
                 PROVE  b = M.cur[q]
      BY DEF InCurrent
    <3>1. M.rungs[q][b] \subseteq RungEvents(M, q)
      BY DEF RungEvents
    <3>2. q # p
      BY <1>8, <2>4, <3>1 DEF Emptied
    <3>3. M.cur[q] = N.cur[q] /\ M.rungs[q] = N.rungs[q]
      BY <2>3, <3>2 DEF SamePlaces
    <3> QED  BY <1>8, <3>3 DEF InCurrent, Emptied
  <2>8. Emptied(L, M, p)
    <3>1. /\ LadderEvents(N) = LadderEvents(L) \ RungEvents(L, p)
          /\ RungEvents(N, p) = {}
          /\ \A q \in Rungs \ {p} : RungEvents(N, q) = RungEvents(L, q)
          /\ \A q \in Rungs : Buckets(N, q) = Buckets(L, q)
      BY <1>8 DEF Emptied
    <3>2. /\ LadderEvents(M) = LadderEvents(L) \ RungEvents(L, p)
          /\ RungEvents(M, p) = {}
          /\ \A q \in Rungs \ {p} : RungEvents(M, q) = RungEvents(L, q)
          /\ \A q \in Rungs : Buckets(M, q) = Buckets(L, q)
      BY <1>1, <2>4, <2>5, <3>1
    <3> QED  BY <2>6, <2>7, <3>2 DEF Emptied
  <2>9. \A r \in Rungs \ {p} : SamePlaces(L, M, r)
    BY <1>9, <2>3 DEF SamePlaces
  <2> QED  BY <2>1, <2>3, <2>8, <2>9 DEF p, M
<1> QED  BY <1>10, <1>11

\* M is L with the entries of its lowest rung moved to a new rung below it.
Spawned(L, M) ==
    LET p == L.lowest IN
    /\ M \in Ladders /\ InCurrent(M) /\ Counters(M)
    /\ M.lowest = p + 1 /\ p + 1 \in Rungs
    /\ LadderEvents(M) = LadderEvents(L)
    /\ RungEvents(M, p) = {} /\ RungEvents(M, p + 1) = RungEvents(L, p)
    /\ \A q \in Rungs \ {p, p + 1} :
         RungEvents(M, q) = RungEvents(L, q) /\ SamePlaces(L, M, q)
    /\ \A q \in Rungs : Buckets(M, q) = Buckets(L, q)
    /\ M.width[p] = L.width[p] /\ M.RStart[p] = L.RStart[p] /\ M.RCur[p] = L.RCur[p]
    /\ M.cur[p] = L.cur[p] + 1

LEMMA SpawnFacts ==
    ASSUME NEW L \in Ladders, InCurrent(L), Counters(L), CanSpawn(L),
           RungEvents(L, L.lowest) # {}, RungEvents(L, L.lowest + 1) = {},
           Fits(L.width[L.lowest], L.lowest)
    PROVE  Spawned(L, SpawnEnlist(L))
<1> DEFINE p == L.lowest
           r == L.lowest + 1
           c == L.cur[p]
           S == L.rungs[p][c]
           k == Cardinality(S)
           N == AddRung(L)
           NBC2 == L.NBC - k
           events2 == [L.events EXCEPT ![p] = L.events[p] - k]
           rungs2 == [L.rungs EXCEPT ![p] = Without(L, p)]
           cur2 == [N.cur EXCEPT ![p] = N.cur[p] + 1]
           B == LadderOf(r, NBC2, events2, cur2, N.width, N.RCur, N.RStart, rungs2)
           M == SpawnEnlist(L)
<1>1. /\ p \in Rungs /\ r \in Rungs /\ N \in Ladders
      /\ N.lowest = r /\ N.NBC = L.NBC
      /\ N.events = L.events /\ N.rungs = L.rungs
      /\ N.width[r] = L.width[p] \div (Thres - 1)
      /\ N.RStart[r] = L.RCur[p] - L.width[p]
      /\ N.RCur[r] = L.RCur[p] - L.width[p]
      /\ N.cur[r] = 0
      /\ \A q \in Rungs \ {r} :
           /\ N.width[q] = L.width[q] /\ N.RStart[q] = L.RStart[q]
           /\ N.RCur[q] = L.RCur[q] /\ N.cur[q] = L.cur[q]
  BY AddRungFacts
<1>2. p \in Nat /\ r # p
  BY <1>1, Parameters
<1>3. c \in DOMAIN L.rungs[p] /\ S = RungEvents(L, p)
  <2>1. c \in 0 .. Buckets(L, p) - 1 /\ RungEvents(L, p) = L.rungs[p][c]
    BY <1>1, CurrentIsRung
  <2> QED  BY <1>1, <2>1, BucketsFacts
<1>4. IsFiniteSet(S) /\ k \in Nat /\ S \in SUBSET Pushable
  <2>1. IsFiniteSet(RungEvents(L, p))
    BY <1>1, RungInLadder, FS_Subset DEF Counters
  <2>2. IsFiniteSet(S) /\ S \in SUBSET Pushable
    BY <1>1, <1>3, <2>1, CurrentIsRung
  <2> QED  BY <2>2, FS_CardinalityType
<1>5. [L.rungs[p] EXCEPT ![c] = {}] = Without(L, p)
  BY <1>3 DEF Without
<1>6. M = PutAll([N EXCEPT !.cur[p] = @ + 1, !.rungs[p][c] = {}, !.events[p] = @ - k,
                           !.NBC = @ - k], r, S)
  BY DEF SpawnEnlist
<1> HIDE DEF N, c, S, k, M
<1>7. [N EXCEPT !.cur[p] = @ + 1, !.rungs[p][c] = {}, !.events[p] = @ - k, !.NBC = @ - k] = B
  <2>1. N.rungs[p] = L.rungs[p]
    BY <1>1
  <2>2. [N EXCEPT !.cur[p] = @ + 1, !.rungs[p][c] = {}, !.events[p] = @ - k, !.NBC = @ - k]
          = [N EXCEPT !.cur = cur2, !.rungs = [N.rungs EXCEPT ![p] = [N.rungs[p] EXCEPT ![c] = {}]],
                      !.events = [N.events EXCEPT ![p] = N.events[p] - k], !.NBC = N.NBC - k]
    BY <1>1 DEF Ladders
  <2>3. [N EXCEPT !.cur = cur2, !.rungs = [N.rungs EXCEPT ![p] = [N.rungs[p] EXCEPT ![c] = {}]],
                  !.events = [N.events EXCEPT ![p] = N.events[p] - k], !.NBC = N.NBC - k]
          = [N EXCEPT !.cur = cur2, !.rungs = rungs2, !.events = events2, !.NBC = NBC2]
    BY <1>1, <1>5, <2>1
  <2>4. N.lowest = r
    BY <1>1
  <2> HIDE DEF cur2, rungs2, events2, NBC2, p, r
  <2>5. [N EXCEPT !.cur = cur2, !.rungs = rungs2, !.events = events2, !.NBC = NBC2] = B
    <3> DEFINE X == [N EXCEPT !.cur = cur2, !.rungs = rungs2, !.events = events2, !.NBC = NBC2]
    <3>1. X = [N EXCEPT !.cur = cur2, !.rungs = rungs2, !.events = events2, !.NBC = NBC2]
      OBVIOUS
    <3> HIDE DEF X
    <3>2. X = LadderOf(N.lowest, NBC2, events2, cur2, N.width, N.RCur, N.RStart, rungs2)
      BY <1>1, <3>1 DEF LadderOf, Ladders
    <3> QED  BY <2>4, <3>2 DEF X
  <2> QED  BY <2>2, <2>3, <2>5
<1>8. M = PutAll(B, r, S)
  BY <1>6, <1>7
<1>9. /\ NBC2 \in Int /\ events2 \in [Rungs -> Int] /\ rungs2 \in [Rungs -> Arrays]
      /\ cur2 \in [Rungs -> Int] /\ cur2[p] = L.cur[p] + 1
      /\ \A q \in Rungs \ {p} : cur2[q] = N.cur[q]
  <2> HIDE DEF p, r
  <2>1. N.cur[p] = L.cur[p]
    BY <1>1, <1>2
  <2> QED  BY <1>1, <1>4, <2>1, FieldTypes, WithoutFacts
<1> HIDE DEF NBC2, events2, rungs2, cur2, B
<1>10. /\ N.width \in [Rungs -> Int] /\ N.RCur \in [Rungs -> Int] /\ N.RStart \in [Rungs -> Int]
  BY <1>1, FieldTypes
<1>11. /\ B \in Ladders /\ B.lowest = r /\ B.NBC = NBC2 /\ B.events = events2
       /\ B.width = N.width /\ B.RStart = N.RStart /\ B.RCur = N.RCur /\ B.cur = cur2
       /\ B.rungs = rungs2
  <2> HIDE DEF p, r
  <2> QED  BY <1>1, <1>9, <1>10 DEF B, LadderOf, Ladders
<1>12. Emptied(L, B, p)
  <2>1. \A q \in Rungs \ {p} : B.cur[q] = L.cur[q] \/ RungEvents(L, q) = {}
    BY <1>1, <1>9, <1>11
  <2>2. /\ B.rungs = [L.rungs EXCEPT ![p] = Without(L, p)]
        /\ B.NBC = L.NBC - Cardinality(RungEvents(L, p))
        /\ B.events = [L.events EXCEPT ![p] = L.events[p] - Cardinality(RungEvents(L, p))]
    BY <1>3, <1>11 DEF NBC2, events2, rungs2, k
  <2> HIDE DEF p, r
  <2>3. TakesCurrent(L, B, p)
    BY <2>1, <2>2 DEF TakesCurrent
  <2> QED  BY <1>1, <1>11, <2>3, EmptyRung
<1>13. B.width[r] \in Nat \ {0} /\ B.cur[r] = 0
  <2>1. Fits(L.width[p] \div (Thres - 1), r)
    BY <1>1, FitsNext
  <2>2. B.width[r] \in Nat \ {0}
    BY <1>1, <1>11, <2>1, FitsPositive
  <2>3. B.cur[r] = 0
    BY <1>1, <1>2, <1>9, <1>11
  <2> QED  BY <2>2, <2>3
<1>14. B.cur[r] \in 0 .. Buckets(B, r) - 1
  BY <1>1, <1>11, <1>13, BucketsFacts
<1>15. \A e \in S : bucket(B, e.arrival, r) = B.cur[r]
  <2>1. \A e \in S : e.arrival \in Int
    BY <1>4, PushableFacts
  <2> HIDE DEF r
  <2> QED  BY <1>1, <1>11, <1>13, <1>14, <2>1, BucketIsCurrent
<1>16. PutOn(B, M, r, S)
  <2>1. InCurrent(B)
    BY <1>12 DEF Emptied
  <2> HIDE DEF r
  <2> QED  BY <1>1, <1>4, <1>8, <1>11, <1>14, <1>15, <2>1, PutAllFacts
<1> HIDE DEF r, p
<1>17. Counters(M) /\ LadderEvents(M) = LadderEvents(L)
  <2>1. S \subseteq LadderEvents(L) /\ LadderEvents(B) = LadderEvents(L) \ S /\ Counters(B)
    BY <1>1, <1>3, <1>12, RungInLadder DEF Emptied
  <2>2. S \cap LadderEvents(B) = {}
    BY <2>1
  <2>3. Counters(M) /\ LadderEvents(M) = LadderEvents(B) \cup S
    BY <1>1, <1>4, <1>11, <1>16, <2>1, <2>2, CountersAdd
  <2> QED  BY <2>1, <2>3
<1>18. /\ M \in Ladders /\ InCurrent(M) /\ M.lowest = r
       /\ M.width = N.width /\ M.RStart = N.RStart /\ M.RCur = N.RCur /\ M.cur = cur2
  BY <1>11, <1>16 DEF PutOn
<1>19. /\ RungEvents(M, p) = {} /\ RungEvents(M, r) = RungEvents(L, p)
       /\ \A q \in Rungs \ {p, r} : RungEvents(M, q) = RungEvents(L, q)
       /\ \A q \in Rungs : Buckets(M, q) = Buckets(L, q)
  <2>1. RungEvents(B, r) = {}
    BY <1>1, <1>2, <1>12 DEF Emptied, p, r
  <2>2. RungEvents(M, r) = RungEvents(L, p)
    BY <1>3, <1>16, <2>1 DEF PutOn
  <2> QED  BY <1>1, <1>2, <1>12, <1>16, <2>2 DEF PutOn, Emptied
<1>20. \A q \in Rungs \ {p, r} : SamePlaces(L, M, q)
  BY <1>1, <1>9, <1>18 DEF SamePlaces
<1>21. /\ M.width[p] = L.width[p] /\ M.RStart[p] = L.RStart[p] /\ M.RCur[p] = L.RCur[p]
       /\ M.cur[p] = L.cur[p] + 1
  BY <1>1, <1>2, <1>9, <1>18
<1>22. r = L.lowest + 1 /\ p = L.lowest
  BY DEF r, p
<1>23. Spawned(L, M)
  BY <1>1, <1>17, <1>18, <1>19, <1>20, <1>21, <1>22 DEF Spawned
<1> QED  BY <1>23 DEF M

\* The same entries on every rung.
SameEntries(L, M) ==
    \A r \in Rungs : RungEvents(M, r) = RungEvents(L, r) /\ Buckets(M, r) = Buckets(L, r)

\* M is what a dequeue leaves of L whose lowest entries are those of rung p.
Drained(L, M, p) ==
    /\ M \in Ladders /\ Emptied(L, M, p)
    /\ \A r \in Rungs : r < p => SamePlaces(L, M, r)
    /\ \/ p = 0 /\ M.lowest = 0
       \/ p # 0 /\ M.lowest = p - 1
       \/ /\ M.lowest = p
          /\ M.width[p] = L.width[p] /\ M.RStart[p] = L.RStart[p]
          /\ M.RCur[p] = L.RCur[p] + L.width[p] /\ M.cur[p] = L.cur[p] + 1

LEMMA SameEntriesFacts ==
    ASSUME NEW L, NEW A, NEW M, NEW p \in Rungs, SameEntries(L, A)
    PROVE  /\ LadderEvents(A) = LadderEvents(L)
           /\ Emptied(A, M, p) => Emptied(L, M, p)
<1>1. LadderEvents(A) = LadderEvents(L)
  BY DEF SameEntries, LadderEvents
<1>2. Emptied(A, M, p) => Emptied(L, M, p)
  BY <1>1 DEF Emptied, SameEntries
<1> QED  BY <1>1, <1>2

\* M is L with m_RCur of its lowest rung advanced, as spawn finds it.
RCurAdvanced(L, M) ==
    LET p == L.lowest IN
    /\ M \in Ladders /\ InCurrent(M) /\ Counters(M) /\ SameEntries(L, M)
    /\ M.lowest = p /\ M.cur = L.cur
    /\ \A r \in Rungs \ {p} : SamePlaces(L, M, r)
    /\ M.width = L.width /\ M.RStart = L.RStart
    /\ M.RCur[p] = L.RCur[p] + L.width[p]

LEMMA AdvancedRCur ==
    ASSUME NEW L \in Ladders, InCurrent(L), Counters(L)
    PROVE  RCurAdvanced(L, [L EXCEPT !.RCur[L.lowest] = @ + L.width[L.lowest]])
<1> DEFINE p == L.lowest
           M == [L EXCEPT !.RCur[p] = @ + L.width[p]]
<1> DEFINE RCur2 == [L.RCur EXCEPT ![p] = L.RCur[p] + L.width[p]]
<1>1. p \in Rungs
  BY FieldTypes
<1>2. RCur2 \in [Rungs -> Int] /\ RCur2[p] = L.RCur[p] + L.width[p]
      /\ \A r \in Rungs \ {p} : RCur2[r] = L.RCur[r]
  BY <1>1, FieldTypes
<1>3. M = LadderOf(L.lowest, L.NBC, L.events, L.cur, L.width, RCur2, L.RStart, L.rungs)
  BY DEF LadderOf, Ladders
<1> HIDE DEF RCur2, M
<1>4. /\ L.lowest \in Rungs /\ L.NBC \in Int /\ L.events \in [Rungs -> Int]
      /\ L.cur \in [Rungs -> Int] /\ L.width \in [Rungs -> Int]
      /\ L.RStart \in [Rungs -> Int] /\ L.rungs \in [Rungs -> Arrays]
  BY FieldTypes
<1>5. /\ M \in Ladders /\ M.lowest = L.lowest /\ M.NBC = L.NBC /\ M.events = L.events
      /\ M.cur = L.cur /\ M.width = L.width /\ M.RCur = RCur2 /\ M.RStart = L.RStart
      /\ M.rungs = L.rungs
  BY <1>2, <1>3, <1>4 DEF LadderOf, Ladders
<1>6. SameEntries(L, M)
  BY <1>5 DEF SameEntries, RungEvents, Buckets
<1>7. Counters(M)
  BY <1>5, <1>6, SameEntriesFacts, <1>1 DEF Counters, SameEntries
<1>8. InCurrent(M)
  BY <1>5 DEF InCurrent
<1>9. RCurAdvanced(L, M)
  BY <1>2, <1>5, <1>6, <1>7, <1>8 DEF SamePlaces, RCurAdvanced
<1> QED  BY <1>9 DEF M

LEMMA LowestHoldingExists ==
    ASSUME NEW L, Sound(L), L.NBC # 0
    PROVE  \E p \in Rungs : LowestHolding(L, p)
<1> DEFINE N == {r \in Rungs : RungEvents(L, r) # {}}
<1>1. L \in Ladders /\ L.lowest \in Nat /\ L.lowest \in Rungs
  BY FieldTypes, Parameters DEF Sound
<1>2. 0 \in N
  BY Parameters DEF Sound, Shape
<1>3. N \in SUBSET Nat /\ IsFiniteSet(N)
  <2>1. N \in SUBSET Rungs /\ Rungs \in SUBSET Nat
    BY Parameters
  <2>2. IsFiniteSet(Rungs)
    BY FS_Interval, Parameters DEF Rungs
  <2> HIDE DEF N
  <2> QED  BY <2>1, <2>2, FS_Subset
<1>4. PICK p \in N : \A r \in N : r <= p
  <2> HIDE DEF N
  <2> QED  BY <1>2, <1>3, LeastAndGreatest
<1>5. p \in Rungs /\ p \in Nat /\ RungEvents(L, p) # {}
  BY <1>3
<1>6. p <= L.lowest
  <2>1. ~ (p > L.lowest)
    BY <1>5 DEF Sound, Shape
  <2> QED  BY <1>1, <1>5, <2>1
<1>7. \A r \in Rungs : r > p => RungEvents(L, r) = {}
  <2> SUFFICES ASSUME NEW r \in Rungs, r > p, RungEvents(L, r) # {}
               PROVE  FALSE
    OBVIOUS
  <2>1. r <= p
    BY <1>4
  <2> QED  BY <1>5, <2>1, Parameters
<1> QED  BY <1>1, <1>5, <1>6, <1>7 DEF LowestHolding

\* delist() takes the whole lowest rung, whether or not it spawns one first.
LEMMA DelistDrains ==
    ASSUME NEW L, Sound(L), L.NBC # 0, NEW p \in Rungs, LowestHolding(L, p)
    PROVE  /\ Drained(L, AfterDelist(L), p)
           /\ Delisted(L) = RungEvents(L, p)
<1> DEFINE A1 == Advance(L)
           L2 == [A1 EXCEPT !.RCur[A1.lowest] = @ + A1.width[A1.lowest]]
           A == AdvanceAndSpawn(L)
           M == AfterDelist(L)
<1>1. L \in Ladders /\ InCurrent(L) /\ Counters(L) /\ p \in Nat
  BY Parameters DEF Sound
<1>2. /\ A1 \in Ladders /\ InCurrent(A1) /\ A1.lowest = p
      /\ A1.NBC = L.NBC /\ A1.events = L.events /\ A1.rungs = L.rungs
      /\ \A r \in Rungs : r <= p => SamePlaces(L, A1, r)
  BY <1>1, AdvanceFacts
<1>3. M = Take(A) /\ Delisted(L) = CurrentBucket(A)
  BY DEF AfterDelist, Take, Delisted
<1>4. A = IF Cardinality(CurrentBucket(A1)) <= Thres THEN A1
          ELSE Advance(IF CanSpawn(L2) THEN SpawnEnlist(L2) ELSE L2)
  BY DEF AdvanceAndSpawn
<1> HIDE DEF A, A1, L2, M
<1>6. SameEntries(L, A1) /\ Counters(A1)
  <2>1. SameEntries(L, A1)
    BY <1>2 DEF SameEntries, RungEvents, Buckets
  <2> QED  BY <1>1, <1>2, <2>1, SameEntriesFacts DEF Counters, SameEntries
<1>7. /\ L2 \in Ladders /\ InCurrent(L2) /\ Counters(L2) /\ SameEntries(A1, L2)
      /\ L2.lowest = p /\ L2.cur = A1.cur
      /\ \A r \in Rungs \ {p} : SamePlaces(A1, L2, r)
      /\ L2.width = A1.width /\ L2.RStart = A1.RStart
      /\ L2.RCur[p] = A1.RCur[p] + A1.width[p]
  <2>1. RCurAdvanced(A1, [A1 EXCEPT !.RCur[A1.lowest] = @ + A1.width[A1.lowest]])
    BY <1>2, <1>6, AdvancedRCur
  <2>2. RCurAdvanced(A1, L2)
    BY <2>1 DEF L2
  <2> QED  BY <1>2, <2>2 DEF RCurAdvanced
<1>8. SameEntries(L, L2)
  BY <1>6, <1>7 DEF SameEntries
<1>9. /\ RungEvents(L, p) # {} /\ \A r \in Rungs : r > p => RungEvents(L, r) = {}
      /\ p \in 0 .. p
  BY <1>1 DEF LowestHolding
<1>10. \A r \in Rungs : r < p => SamePlaces(L, L2, r)
  <2>1. \A r \in Rungs : r < p => r <= p /\ r # p
    BY <1>1, Parameters
  <2> QED  BY <1>2, <1>7, <2>1 DEF SamePlaces
\* The current bucket is delisted as it is.
<1>11. ASSUME A \in Ladders, InCurrent(A), Counters(A), A.lowest = p, SameEntries(L, A),
              \A r \in Rungs : r < p => SamePlaces(L, A, r)
       PROVE  Drained(L, M, p) /\ Delisted(L) = RungEvents(L, p)
  <2>1. /\ M \in Ladders /\ M.lowest = (IF p > 0 THEN p - 1 ELSE 0)
        /\ Emptied(A, M, p) /\ \A r \in Rungs \ {p} : SamePlaces(A, M, r)
    BY <1>3, <1>11, TakeFacts
  <2>2. Emptied(L, M, p)
    BY <1>11, <2>1, SameEntriesFacts
  <2>3. \A r \in Rungs : r < p => r # p
    BY <1>1, Parameters
  <2>4. \A r \in Rungs : r < p => SamePlaces(L, M, r)
    BY <1>11, <2>1, <2>3 DEF SamePlaces
  <2>5. (p = 0 /\ M.lowest = 0) \/ (p # 0 /\ M.lowest = p - 1)
    BY <1>1, <2>1
  <2>6. Delisted(L) = RungEvents(L, p)
    BY <1>3, <1>11, CurrentBucketIsRung DEF SameEntries
  <2> QED  BY <2>1, <2>2, <2>4, <2>5, <2>6 DEF Drained
<1>12. CASE Cardinality(CurrentBucket(A1)) <= Thres
  <2>1. A = A1
    BY <1>4, <1>12
  <2>2. \A r \in Rungs : r < p => r <= p
    BY <1>1, Parameters
  <2> QED  BY <1>2, <1>6, <1>11, <2>1, <2>2 DEF M
<1>13. CASE ~ (Cardinality(CurrentBucket(A1)) <= Thres) /\ ~ CanSpawn(L2)
  <2>1. A = Advance(L2)
    BY <1>4, <1>13
  <2>2. LowestHolding(L2, p)
    BY <1>7, <1>8, <1>9 DEF LowestHolding, SameEntries
  <2>3. /\ A \in Ladders /\ InCurrent(A) /\ A.lowest = p
        /\ A.NBC = L2.NBC /\ A.events = L2.events /\ A.rungs = L2.rungs
        /\ \A r \in Rungs : r <= p => SamePlaces(L2, A, r)
    BY <1>7, <2>1, <2>2, AdvanceFacts
  <2>4. SameEntries(L2, A)
    BY <2>3 DEF SameEntries, RungEvents, Buckets
  <2>5. Counters(A)
    BY <1>7, <2>3, <2>4, SameEntriesFacts DEF Counters, SameEntries
  <2>6. SameEntries(L, A)
    BY <1>8, <2>4 DEF SameEntries
  <2>7. \A r \in Rungs : r < p => SamePlaces(L, A, r)
    <3>1. \A r \in Rungs : r < p => r <= p
      BY <1>1, Parameters
    <3> QED  BY <1>10, <2>3, <3>1 DEF SamePlaces
  <2> QED  BY <1>11, <2>3, <2>5, <2>6, <2>7 DEF M
<1>14. CASE ~ (Cardinality(CurrentBucket(A1)) <= Thres) /\ CanSpawn(L2)
  <2> DEFINE L3 == SpawnEnlist(L2)
             r == p + 1
  <2>1. A = Advance(L3)
    BY <1>4, <1>14
  <2>2. r \in Rungs /\ r > p /\ r \in Nat /\ r - 1 = p
    BY <1>1, <1>7, <1>14, Parameters DEF CanSpawn
  <2>3. RungEvents(L2, p) = RungEvents(L, p) /\ RungEvents(L2, r) = {}
    BY <1>8, <1>9, <2>2 DEF SameEntries
  <2>4. Fits(L2.width[p], p)
    <3>1. RungFits(L, p)
      BY DEF Sound, LowestHolding
    <3>2. p <= p
      BY <1>1
    <3>3. L2.width[p] = L.width[p]
      BY <1>2, <1>7, <3>2 DEF SamePlaces
    <3> QED  BY <3>1, <3>3 DEF RungFits
  <2>5. Spawned(L2, L3)
    BY <1>7, <1>9, <1>14, <2>3, <2>4, SpawnFacts
  <2> HIDE DEF L3
  <2>6. /\ L3 \in Ladders /\ InCurrent(L3) /\ Counters(L3) /\ L3.lowest = r
        /\ LadderEvents(L3) = LadderEvents(L2)
        /\ RungEvents(L3, p) = {} /\ RungEvents(L3, r) = RungEvents(L2, p)
        /\ \A q \in Rungs \ {p, r} :
             RungEvents(L3, q) = RungEvents(L2, q) /\ SamePlaces(L2, L3, q)
        /\ \A q \in Rungs : Buckets(L3, q) = Buckets(L2, q)
        /\ L3.width[p] = L2.width[p] /\ L3.RStart[p] = L2.RStart[p]
        /\ L3.RCur[p] = L2.RCur[p] /\ L3.cur[p] = L2.cur[p] + 1
    BY <1>7, <2>5 DEF Spawned
  <2>7. LowestHolding(L3, r)
    <3>1. \A q \in Rungs : q > r => q > p /\ q # p /\ q # r
      BY <1>1, <2>2, Parameters
    <3>2. \A q \in Rungs : q > r => RungEvents(L3, q) = {}
      BY <1>8, <1>9, <2>6, <3>1 DEF SameEntries
    <3>3. r \in 0 .. L3.lowest
      BY <2>2, <2>6
    <3> QED  BY <1>9, <2>3, <2>6, <3>2, <3>3 DEF LowestHolding
  <2> HIDE DEF r
  <2>8. /\ A \in Ladders /\ InCurrent(A) /\ A.lowest = r
        /\ A.NBC = L3.NBC /\ A.events = L3.events /\ A.rungs = L3.rungs
        /\ \A q \in Rungs : q <= r => SamePlaces(L3, A, q)
    BY <2>1, <2>6, <2>7, AdvanceFacts
  <2>9. SameEntries(L3, A)
    BY <2>8 DEF SameEntries, RungEvents, Buckets
  <2>10. Counters(A) /\ LadderEvents(A) = LadderEvents(L3)
    BY <2>2, <2>6, <2>8, <2>9, SameEntriesFacts DEF Counters, SameEntries
  <2>11. /\ M \in Ladders /\ M.lowest = (IF r > 0 THEN r - 1 ELSE 0)
         /\ Emptied(A, M, r) /\ \A q \in Rungs \ {r} : SamePlaces(A, M, q)
    BY <1>3, <2>8, <2>10, TakeFacts
  <2>12. M.lowest = p
    BY <1>1, <2>2, <2>11
  <2>13. Emptied(L, M, p)
    <3>1. LadderEvents(M) = LadderEvents(L) \ RungEvents(L, p)
      <4>1. LadderEvents(L2) = LadderEvents(L)
        BY <1>8, SameEntriesFacts, <2>2
      <4>2. RungEvents(A, r) = RungEvents(L, p)
        BY <2>2, <2>3, <2>6, <2>9 DEF SameEntries
      <4> QED  BY <2>6, <2>10, <2>11, <4>1, <4>2 DEF Emptied
    <3>2. RungEvents(M, p) = {}
      BY <1>1, <2>2, <2>6, <2>9, <2>11 DEF Emptied, SameEntries
    <3>3. ASSUME NEW q \in Rungs \ {p}
          PROVE  RungEvents(M, q) = RungEvents(L, q)
      <4>1. CASE q = r
        BY <1>8, <2>2, <2>3, <2>11, <4>1 DEF Emptied, SameEntries
      <4>2. CASE q # r
        BY <1>8, <2>6, <2>9, <2>11, <4>2 DEF Emptied, SameEntries
      <4> QED  BY <4>1, <4>2
    <3>4. \A q \in Rungs : Buckets(M, q) = Buckets(L, q)
      BY <1>8, <2>6, <2>9, <2>11 DEF Emptied, SameEntries
    <3>5. Counters(M) /\ InCurrent(M)
      BY <2>11 DEF Emptied
    <3> QED  BY <3>1, <3>2, <3>3, <3>4, <3>5 DEF Emptied
  <2>14. ASSUME NEW q \in Rungs, q < p
         PROVE  SamePlaces(L, M, q)
    <3>1. q # p /\ q # r /\ q <= r
      BY <1>1, <2>2, <2>14, Parameters
    <3>2. SamePlaces(L, L2, q) /\ SamePlaces(L2, L3, q) /\ SamePlaces(L3, A, q)
          /\ SamePlaces(A, M, q)
      BY <1>10, <2>6, <2>8, <2>11, <2>14, <3>1
    <3> QED  BY <3>2 DEF SamePlaces
  <2>15. /\ M.width[p] = L.width[p] /\ M.RStart[p] = L.RStart[p]
         /\ M.RCur[p] = L.RCur[p] + L.width[p] /\ M.cur[p] = L.cur[p] + 1
    <3>1. p # r /\ p <= r /\ p <= p
      BY <1>1, <2>2
    <3>2. SamePlaces(L3, A, p) /\ SamePlaces(A, M, p) /\ SamePlaces(L, A1, p)
      BY <1>2, <2>8, <2>11, <3>1
    <3> QED  BY <1>7, <2>6, <3>2 DEF SamePlaces
  <2>16. Delisted(L) = RungEvents(L, p)
    <3>1. CurrentBucket(A) = RungEvents(A, r)
      BY <2>8, CurrentBucketIsRung
    <3> QED  BY <1>3, <2>2, <2>3, <2>6, <2>9, <3>1 DEF SameEntries
  <2> QED  BY <2>11, <2>12, <2>13, <2>14, <2>15, <2>16 DEF Drained, M
<1> QED  BY <1>12, <1>13, <1>14 DEF M

\* What a dequeue leaves is sound, and holds every entry it did not take.
LEMMA DelistSound ==
    ASSUME NEW L, Sound(L), L.NBC # 0, NEW M, M = AfterDelist(L)
    PROVE  /\ Sound(M)
           /\ Delisted(L) # {} /\ Delisted(L) \subseteq LadderEvents(L)
           /\ LadderEvents(M) = LadderEvents(L) \ Delisted(L)
           /\ L.lowest = 0 => M.lowest = 0 /\ M.NBC = 0 /\ Delisted(L) = LadderEvents(L)
<1>1. PICK p \in Rungs : LowestHolding(L, p)
  BY LowestHoldingExists
<1>2. Drained(L, M, p) /\ Delisted(L) = RungEvents(L, p)
  BY <1>1, DelistDrains
<1>3. /\ L \in Ladders /\ p \in Nat /\ L.lowest \in Nat /\ p <= L.lowest /\ p \in 0 .. L.lowest
      /\ RungEvents(L, p) # {} /\ \A r \in Rungs : r > p => RungEvents(L, r) = {}
  <2>1. L \in Ladders
    BY DEF Sound
  <2>2. L.lowest \in Nat /\ p \in Nat
    BY <2>1, Parameters, FieldTypes
  <2>3. p \in 0 .. L.lowest
    BY <1>1 DEF LowestHolding
  <2>4. p <= L.lowest
    BY <2>2, <2>3
  <2> QED  BY <1>1, <2>1, <2>2, <2>3, <2>4 DEF LowestHolding
<1>4. M \in Ladders /\ Emptied(L, M, p) /\ \A r \in Rungs : r < p => SamePlaces(L, M, r)
  BY <1>2 DEF Drained
<1>5. /\ Counters(M) /\ InCurrent(M)
      /\ LadderEvents(M) = LadderEvents(L) \ RungEvents(L, p)
      /\ RungEvents(M, p) = {}
      /\ \A q \in Rungs \ {p} : RungEvents(M, q) = RungEvents(L, q)
      /\ \A q \in Rungs : Buckets(M, q) = Buckets(L, q)
  BY <1>4 DEF Emptied
<1>6. /\ M.lowest \in Nat /\ M.lowest \in 0 .. p
      /\ p # 0 => M.lowest = p - 1 \/ M.lowest = p
      /\ p = 0 => M.lowest = 0
  BY <1>2, <1>3 DEF Drained
<1>7. \A r \in Rungs : r >= p => RungEvents(M, r) = {}
  <2>1. \A r \in Rungs : r >= p => r = p \/ r > p
    BY <1>3, Parameters
  <2> QED  BY <1>3, <1>5, <2>1
<1>8. p = 0 => LadderEvents(M) = {} /\ M.NBC = 0
  <2>1. p = 0 => \A r \in Rungs : RungEvents(M, r) = {}
    BY <1>7, Parameters
  <2>2. p = 0 => LadderEvents(M) = {}
    BY <2>1 DEF LadderEvents
  <2> QED  BY <1>5, <2>2, EmptyLadder
<1>9. Sizes(M)
  BY <1>5 DEF Sound, Sizes
<1>10. Shape(M)
  <2>1. ASSUME NEW r \in Rungs, r > M.lowest
        PROVE  RungEvents(M, r) = {}
    <3>1. r >= p
      BY <1>3, <1>6, <2>1, Parameters
    <3> QED  BY <1>7, <3>1
  <2>2. ASSUME M.NBC # 0
        PROVE  RungEvents(M, 0) # {} /\ M.cur[0] = 0
    <3>1. p # 0 /\ 0 \in Rungs /\ 0 < p
      BY <1>3, <1>8, <2>2, Parameters
    <3>2. SamePlaces(L, M, 0) /\ RungEvents(M, 0) = RungEvents(L, 0)
      BY <1>4, <1>5, <3>1
    <3> QED  BY <3>2 DEF SamePlaces, Sound, Shape
  <2> QED  BY <2>1, <2>2 DEF Shape
<1>11. ASSUME M.NBC # 0, NEW q \in 0 .. M.lowest
       PROVE  RungFits(M, q)
  <2>1. /\ p # 0 /\ q \in Rungs /\ q \in Nat /\ q <= p /\ q \in 0 .. L.lowest
        /\ q # 0 => q - 1 \in Rungs /\ q - 1 < p
    BY <1>3, <1>4, <1>6, <1>8, <1>11, Upto
  <2>2. RungFits(L, q)
    BY <2>1 DEF Sound
  <2>3. q # 0 => M.RCur[q - 1] = L.RCur[q - 1]
    BY <1>4, <2>1 DEF SamePlaces
  <2>4. CASE q < p
    <3>1. SamePlaces(L, M, q) /\ RungEvents(M, q) = RungEvents(L, q)
      BY <1>4, <1>5, <2>1, <2>4
    <3> QED  BY <2>2, <2>3, <3>1 DEF RungFits, SamePlaces
  <2>5. CASE q = p
    <3>1. M.lowest = p
      BY <1>3, <1>6, <1>11, <2>5
    <3>2. /\ M.width[p] = L.width[p] /\ M.RStart[p] = L.RStart[p]
          /\ M.RCur[p] = L.RCur[p] + L.width[p] /\ M.cur[p] = L.cur[p] + 1
      BY <1>2, <1>3, <2>1, <3>1 DEF Drained
    <3>3. /\ Fits(L.width[p], p) /\ L.cur[p] >= 0 /\ L.cur[p] <= Thres - 2
          /\ L.RCur[p] = L.RStart[p] + L.cur[p] * L.width[p]
          /\ L.RCur[p - 1] = L.RStart[p] + (Thres - 1) * L.width[p]
      BY <1>3, <2>1, <2>2, <2>5 DEF RungFits
    <3>4. /\ L.width[p] \in Int /\ L.cur[p] \in Int /\ L.RStart[p] \in Int /\ L.RCur[p] \in Int
      BY <1>3, FieldTypes
    <3>5. M.cur[p] >= 0 /\ M.cur[p] <= Thres - 1
      BY <3>2, <3>3, <3>4, Parameters
    <3>6. M.RCur[p] = M.RStart[p] + M.cur[p] * M.width[p]
      <4> DEFINE c == L.cur[p]
                 w == L.width[p]
                 s == L.RStart[p]
      <4>1. c \in Int /\ w \in Int /\ s \in Int
        BY <3>4
      <4>2. M.RCur[p] = (s + c * w) + w /\ M.RStart[p] + M.cur[p] * M.width[p] = s + (c + 1) * w
        BY <3>2, <3>3
      <4> HIDE DEF c, w, s
      <4>3. (c + 1) * w = c * w + w /\ c * w \in Int
        BY <4>1
      <4> QED  BY <4>1, <4>2, <4>3
    <3>7. M.RCur[p - 1] = M.RStart[p] + (Thres - 1) * M.width[p]
      BY <2>1, <2>3, <2>5, <3>2, <3>3
    <3> QED
      BY <1>5, <2>5, <3>2, <3>3, <3>5, <3>6, <3>7 DEF RungFits
  <2> QED  BY <1>3, <2>1, <2>4, <2>5
<1>12. Sound(M)
  BY <1>4, <1>5, <1>9, <1>10, <1>11 DEF Sound
<1>13. L.lowest = 0 => p = 0
  BY <1>3
<1>14. L.lowest = 0 => Delisted(L) = LadderEvents(L)
  BY <1>2, <1>5, <1>8, <1>13, <1>1, RungInLadder
<1>15. Delisted(L) # {} /\ Delisted(L) \subseteq LadderEvents(L)
  BY <1>2, <1>3, RungInLadder
<1> QED  BY <1>2, <1>5, <1>6, <1>8, <1>12, <1>13, <1>14, <1>15

LEMMA InitLadderSound ==
    Sound(InitLadder) /\ InitLadder.NBC = 0 /\ InitLadder.lowest = 0
    /\ LadderEvents(InitLadder) = {}
<1> DEFINE L == InitLadder
           a == [b \in 0 .. Thres - 1 |-> {}]
           zeros == [r \in Rungs |-> 0]
           ends == [r \in Rungs |-> DblMax]
           arrays == [r \in Rungs |-> a]
<1>1. a \in Arrays /\ DOMAIN a = 0 .. Thres - 1 /\ \A b \in DOMAIN a : a[b] = {}
  <2>1. Thres \in Nat \ {0}
    BY Parameters
  <2>2. a \in [0 .. Thres - 1 -> SUBSET Pushable]
    OBVIOUS
  <2>3. a \in Arrays
    <3> HIDE DEF a
    <3> QED  BY <2>1, <2>2 DEF Arrays
  <2> QED  BY <2>3
<1> HIDE DEF a
<1>2. /\ zeros \in [Rungs -> Int] /\ ends \in [Rungs -> Int] /\ arrays \in [Rungs -> Arrays]
      /\ 0 \in Rungs
  BY <1>1, Parameters
<1>3. L = LadderOf(0, 0, zeros, zeros, zeros, ends, ends, arrays)
  BY DEF InitLadder, LadderOf, a
<1>4. /\ \A r \in Rungs : zeros[r] = 0 /\ arrays[r] = a
  OBVIOUS
<1> HIDE DEF L, zeros, ends, arrays
<1>5. /\ L \in Ladders /\ L.lowest = 0 /\ L.NBC = 0 /\ L.events = zeros /\ L.rungs = arrays
  BY <1>2, <1>3 DEF LadderOf, Ladders
<1>6. \A r \in Rungs : RungEvents(L, r) = {}
  <2> SUFFICES ASSUME NEW r \in Rungs
               PROVE  RungEvents(L, r) = {}
    OBVIOUS
  <2>1. L.rungs[r] = a
    BY <1>4, <1>5
  <2>2. RungEvents(L, r) = UNION {a[b] : b \in DOMAIN a}
    BY <2>1 DEF RungEvents
  <2> QED  BY <1>1, <2>2
<1>7. LadderEvents(L) = {}
  BY <1>6 DEF LadderEvents
<1>8. Counters(L)
  BY <1>4, <1>5, <1>6, <1>7, FS_EmptySet DEF Counters
<1>9. InCurrent(L)
  BY <1>1, <1>4, <1>5 DEF InCurrent
<1>10. Sizes(L)
  <2>1. Cardinality(0 .. Thres - 1) = IF 0 > Thres - 1 THEN 0 ELSE (Thres - 1) - 0 + 1
    BY Parameters, FS_Interval
  <2>2. Cardinality(0 .. Thres - 1) = Thres
    BY <2>1, Parameters
  <2>3. \A r \in Rungs : Buckets(L, r) = Thres
    BY <1>1, <1>4, <1>5, <2>2 DEF Buckets
  <2> QED  BY <2>3, Parameters DEF Sizes
<1> QED  BY <1>5, <1>6, <1>7, <1>8, <1>9, <1>10 DEF Sound, Shape, L

-----------------------------------------------------------------------------
(* The queue.                                                              *)

\* The tiers share no entry.
Disjoint ==
    /\ top \cap LadderEvents(ladder) = {}
    /\ top \cap Entries(bottom) = {}
    /\ LadderEvents(ladder) \cap Entries(bottom) = {}

\* The counters of LadderQueue against what the tiers hold.
Books ==
    /\ inEvents \in 0 .. MaxPushes /\ outEvents \in Nat
    /\ Stored \in SUBSET Pushable /\ IsFiniteSet(Stored)
    /\ \A e, f \in Stored : e.gid = f.gid => e = f
    /\ \A e \in Stored : e.gid <= inEvents
    /\ Disjoint
    /\ inEvents - outEvents = Cardinality(Stored)

\* m_maxTS and m_minTS of Top are those of its entries.
TopTimes ==
    /\ top = {} => maxTS = 0 /\ minTS = DblMax
    /\ top # {} => /\ \E e \in top : e.arrival = maxTS
                   /\ \E e \in top : e.arrival = minTS
                   /\ \A e \in top : minTS <= e.arrival /\ e.arrival <= maxTS

\* m_topStart parts Top from the rest.
Epochs ==
    /\ topStart \in Nat
    /\ \A e \in top : topStart <= e.arrival
    /\ \A e \in LadderEvents(ladder) \cup Entries(bottom) : e.arrival <= topStart

QueueInv ==
    /\ Sound(ladder)
    /\ bottom \in Seq(Pushable) /\ Sorted(bottom)
    /\ Books /\ TopTimes /\ Epochs

LEMMA StoredParts ==
    /\ top \subseteq Stored /\ LadderEvents(ladder) \subseteq Stored
    /\ Entries(bottom) \subseteq Stored
    /\ Stored = top \cup LadderEvents(ladder) \cup Entries(bottom)
  BY DEF Stored

\* Every set of stored entries can be sorted.
LEMMA StoredSortable ==
    ASSUME Books, NEW S \in SUBSET Stored
    PROVE  /\ Sortable(S) /\ IsFiniteSet(S) /\ S \in SUBSET Pushable
           /\ Cardinality(S) \in Nat /\ Cardinality(S) <= MaxPushes
<1>1. IsFiniteSet(S) /\ Cardinality(S) <= Cardinality(Stored) /\ S \in SUBSET Pushable
  BY FS_Subset DEF Books
<1>2. Cardinality(S) \in Nat /\ Cardinality(Stored) \in Nat
  BY <1>1, FS_CardinalityType DEF Books
<1>3. Cardinality(Stored) <= MaxPushes
  BY <1>2, Parameters DEF Books
<1>4. Sortable(S)
  BY <1>1, PushableFacts DEF Sortable, Books
<1>5. Cardinality(S) <= MaxPushes
  BY <1>1, <1>2, <1>3, Parameters
<1> QED  BY <1>1, <1>2, <1>4, <1>5

\* An entry that NewEntry makes.
Fresh(e) == e \in Pushable /\ e.gid = inEvents + 1 /\ inEvents < MaxPushes

LEMMA NewEntryIsFresh ==
    ASSUME Books, inEvents < MaxPushes, NEW ts \in Times
    PROVE  Fresh(NewEntry(ts)) /\ NewEntry(ts).arrival = ts
<1>1. inEvents + 1 \in 1 .. MaxPushes
  BY Parameters DEF Books
<1> QED  BY <1>1 DEF Fresh, NewEntry, Pushable

LEMMA FreshFacts ==
    ASSUME Books, NEW e, Fresh(e)
    PROVE  /\ e \notin Stored /\ \A f \in Stored : f.gid < e.gid
           /\ \A S \in SUBSET (Stored \cup {e}) :
                /\ Sortable(S) /\ IsFiniteSet(S) /\ S \in SUBSET Pushable
                /\ Cardinality(S) <= MaxPushes
           /\ Cardinality(Stored \cup {e}) = Cardinality(Stored) + 1
<1>1. /\ inEvents \in Nat /\ inEvents + 1 <= MaxPushes /\ outEvents \in Nat
      /\ \A f \in Stored : f.gid <= inEvents /\ f.gid \in Nat
  BY PushableFacts, Parameters DEF Books, Fresh
<1>2. \A f \in Stored : f.gid < e.gid /\ f.gid # e.gid
  BY <1>1 DEF Fresh
<1>3. e \notin Stored
  BY <1>2
<1> DEFINE T == Stored \cup {e}
<1>4. IsFiniteSet(T) /\ Cardinality(T) = Cardinality(Stored) + 1
  BY <1>3, FS_AddElement DEF Books
<1>5. T \in SUBSET Pushable /\ \A d, f \in T : d.gid = f.gid => d = f
  BY <1>2 DEF Books, Fresh
<1>6. Cardinality(T) <= MaxPushes /\ Cardinality(T) \in Nat
  <2>1. Cardinality(Stored) = inEvents - outEvents
    BY DEF Books
  <2>2. Cardinality(T) = (inEvents - outEvents) + 1
    BY <1>4, <2>1
  <2>3. Cardinality(T) \in Nat
    BY <1>4, FS_CardinalityType
  <2> HIDE DEF T
  <2> QED  BY <1>1, <2>2, <2>3, Parameters
<1> HIDE DEF T
<1>7. ASSUME NEW S \in SUBSET T
      PROVE  Sortable(S) /\ IsFiniteSet(S) /\ S \in SUBSET Pushable /\ Cardinality(S) <= MaxPushes
  <2>1. IsFiniteSet(S) /\ Cardinality(S) <= Cardinality(T)
    BY <1>4, FS_Subset
  <2>2. Cardinality(S) \in Nat
    BY <2>1, FS_CardinalityType
  <2>3. Cardinality(S) <= MaxPushes
    BY <1>6, <2>1, <2>2, Parameters
  <2> QED  BY <1>5, <2>1, <2>3, PushableFacts DEF Sortable
<1> QED  BY <1>2, <1>3, <1>4, <1>7 DEF T

\* A push that is not refused.
LEMMA BooksAfterPush ==
    ASSUME Books, NEW e, Fresh(e), Counted, Stored' = Stored \cup {e}, Disjoint'
    PROVE  Books'
<1>1. /\ e \notin Stored /\ \A f \in Stored : f.gid < e.gid
      /\ Sortable(Stored \cup {e}) /\ IsFiniteSet(Stored \cup {e})
      /\ Stored \cup {e} \in SUBSET Pushable
      /\ Cardinality(Stored \cup {e}) = Cardinality(Stored) + 1
  BY FreshFacts
<1>2. inEvents' = inEvents + 1 /\ outEvents' = outEvents
  BY DEF Counted
<1>3. /\ inEvents' \in 0 .. MaxPushes /\ outEvents' \in Nat
      /\ inEvents' - outEvents' = Cardinality(Stored')
  <2>1. inEvents \in 0 .. MaxPushes /\ inEvents < MaxPushes /\ outEvents \in Nat
        /\ inEvents - outEvents = Cardinality(Stored)
    BY DEF Books, Fresh
  <2>2. Cardinality(Stored') = Cardinality(Stored) + 1
    BY <1>1
  <2> QED  BY <1>2, <2>1, <2>2, Parameters
<1>4. \A f \in Stored' : f.gid <= inEvents'
  <2>1. e.gid <= inEvents'
    BY <1>2 DEF Fresh, Books
  <2>2. \A f \in Stored : f.gid \in Nat /\ f.gid <= inEvents
    BY PushableFacts DEF Books
  <2>3. \A f \in Stored : f.gid <= inEvents'
    BY <1>2, <2>2 DEF Books
  <2> QED  BY <2>1, <2>3
<1>5. \A d, f \in Stored' : d.gid = f.gid => d = f
  BY <1>1 DEF Sortable
<1> QED  BY <1>1, <1>3, <1>4, <1>5 DEF Books

\* A dequeue that returns an entry.
LEMMA BooksAfterPop ==
    ASSUME Books, NEW e \in Stored, inEvents' = inEvents, outEvents' = outEvents + 1,
           Stored' = Stored \ {e}, Disjoint'
    PROVE  Books'
<1>1. IsFiniteSet(Stored \ {e}) /\ Cardinality(Stored \ {e}) = Cardinality(Stored) - 1
  BY FS_RemoveElement DEF Books
<1>2. inEvents - outEvents = Cardinality(Stored) /\ inEvents \in Nat /\ outEvents \in Nat
  BY Parameters DEF Books
<1>3. inEvents' - outEvents' = Cardinality(Stored')
  BY <1>1, <1>2
<1>4. /\ Stored' \in SUBSET Pushable
      /\ \A d, f \in Stored' : d.gid = f.gid => d = f
      /\ \A f \in Stored' : f.gid <= inEvents'
      /\ inEvents' \in 0 .. MaxPushes
  BY DEF Books
<1> QED  BY <1>1, <1>2, <1>3, <1>4 DEF Books

LEMMA MaxMinPair ==
    ASSUME NEW a \in Int, NEW b \in Int
    PROVE  /\ Max({a, b}) = IF a >= b THEN a ELSE b
           /\ Min({a, b}) = IF a <= b THEN a ELSE b
<1>1. \A x \in {a, b} : (\A y \in {a, b} : x >= y) <=> x = IF a >= b THEN a ELSE b
  OBVIOUS
<1>2. \A x \in {a, b} : (\A y \in {a, b} : x <= y) <=> x = IF a <= b THEN a ELSE b
  OBVIOUS
<1>3. (IF a >= b THEN a ELSE b) \in {a, b} /\ (IF a <= b THEN a ELSE b) \in {a, b}
  OBVIOUS
<1> QED  BY <1>1, <1>2, <1>3 DEF Max, Min

\* What every push that is not refused establishes.
Pushed(e) == QueueInv' /\ Stored' = Stored \cup {e}

LEMMA PushTopKept ==
    ASSUME QueueInv, NEW e, Fresh(e), PushTop(e)
    PROVE  Pushed(e)
<1>1. /\ top' = top \cup {e} /\ ladder' = ladder /\ bottom' = bottom
      /\ topStart' = topStart /\ e.arrival >= topStart
      /\ maxTS' = Max({maxTS, e.arrival}) /\ minTS' = Min({minTS, e.arrival})
      /\ Counted
  BY DEF PushTop
<1>2. Stored' = Stored \cup {e}
  BY <1>1 DEF Stored
<1>3. e \notin Stored
  BY FreshFacts DEF QueueInv
<1>4. Disjoint'
  BY <1>1, <1>3 DEF Disjoint, Stored, QueueInv, Books
<1>5. Books'
  BY <1>1, <1>2, <1>4, BooksAfterPush DEF QueueInv
<1>6. /\ e.arrival \in Nat /\ e.arrival <= DblMax /\ DblMax \in Nat
      /\ \A f \in top : f.arrival \in Nat /\ f.arrival <= DblMax
  <2>1. \A f \in top : f \in Pushable
    BY StoredParts DEF QueueInv, Books
  <2> QED  BY <2>1, PushableFacts, Parameters DEF Fresh
<1>7. TopTimes'
  <2>1. /\ maxTS \in Nat /\ minTS \in Nat
        /\ top = {} => maxTS = 0 /\ minTS = DblMax
        /\ top # {} => \A f \in top : minTS <= f.arrival /\ f.arrival <= maxTS
        /\ top # {} => \E f \in top : f.arrival = maxTS
        /\ top # {} => \E f \in top : f.arrival = minTS
    <3>1. CASE top = {}
      BY <1>6, <3>1 DEF QueueInv, TopTimes
    <3>2. CASE top # {}
      BY <1>6, <3>2 DEF QueueInv, TopTimes
    <3> QED  BY <3>1, <3>2
  <2>2. /\ maxTS' = IF maxTS >= e.arrival THEN maxTS ELSE e.arrival
        /\ minTS' = IF minTS <= e.arrival THEN minTS ELSE e.arrival
    <3>1. maxTS \in Int /\ minTS \in Int /\ e.arrival \in Int
      BY <1>6, <2>1
    <3>2. Max({maxTS, e.arrival}) = IF maxTS >= e.arrival THEN maxTS ELSE e.arrival
      BY <3>1, MaxMinPair
    <3>3. Min({minTS, e.arrival}) = IF minTS <= e.arrival THEN minTS ELSE e.arrival
      BY <3>1, MaxMinPair
    <3> QED  BY <1>1, <3>2, <3>3
  <2>3. \A f \in top \cup {e} : minTS' <= f.arrival /\ f.arrival <= maxTS'
    <3>1. minTS' <= e.arrival /\ e.arrival <= maxTS' /\ minTS' <= minTS /\ maxTS <= maxTS'
          /\ minTS' \in Nat /\ maxTS' \in Nat
      BY <1>6, <2>1, <2>2
    <3>2. \A f \in top : minTS' <= f.arrival /\ f.arrival <= maxTS'
      BY <1>6, <2>1, <3>1
    <3> QED  BY <3>1, <3>2
  <2>4. \E f \in top \cup {e} : f.arrival = maxTS'
    <3>1. CASE maxTS >= e.arrival /\ top # {}
      BY <2>1, <2>2, <3>1
    <3>2. CASE ~ (maxTS >= e.arrival)
      BY <2>2, <3>2
    <3>3. CASE maxTS >= e.arrival /\ top = {}
      BY <1>6, <2>1, <2>2, <3>3
    <3> QED  BY <3>1, <3>2, <3>3
  <2>5. \E f \in top \cup {e} : f.arrival = minTS'
    <3>1. CASE minTS <= e.arrival /\ top # {}
      BY <2>1, <2>2, <3>1
    <3>2. CASE ~ (minTS <= e.arrival)
      BY <2>2, <3>2
    <3>3. CASE minTS <= e.arrival /\ top = {}
      BY <1>6, <2>1, <2>2, <3>3
    <3> QED  BY <3>1, <3>2, <3>3
  <2> QED  BY <1>1, <2>3, <2>4, <2>5 DEF TopTimes
<1>8. Epochs'
  BY <1>1, <1>6 DEF QueueInv, Epochs
<1> QED  BY <1>1, <1>2, <1>5, <1>7, <1>8 DEF QueueInv, Pushed

LEMMA PushLadderKept ==
    ASSUME QueueInv, NEW e, Fresh(e), PushLadder(e)
    PROVE  /\ Pushed(e)
           /\ ladder'.lowest = ladder.lowest /\ ladder'.RCur = ladder.RCur
           /\ LadderEvents(ladder') = LadderEvents(ladder) \cup {e}
           /\ Accepts(ladder, e.arrival)
<1>1. /\ ladder' = PushEntry(ladder, e) /\ Accepts(ladder, e.arrival)
      /\ top' = top /\ maxTS' = maxTS /\ minTS' = minTS /\ topStart' = topStart
      /\ bottom' = bottom /\ Counted /\ e.arrival < topStart
  BY DEF PushLadder, ForBottom, topVars
<1>2. e \notin Stored /\ e \notin LadderEvents(ladder) /\ e \in Pushable
  BY FreshFacts, StoredParts DEF QueueInv, Fresh
<1>3. /\ Sound(ladder') /\ LadderEvents(ladder') = LadderEvents(ladder) \cup {e}
      /\ ladder'.lowest = ladder.lowest /\ ladder'.RCur = ladder.RCur
  BY <1>1, <1>2, PushEntrySound DEF QueueInv
<1>4. Stored' = Stored \cup {e}
  BY <1>1, <1>3 DEF Stored
<1>5. Disjoint'
  BY <1>1, <1>2, <1>3 DEF Disjoint, Stored, QueueInv, Books
<1>6. Books'
  BY <1>1, <1>4, <1>5, BooksAfterPush DEF QueueInv
<1>7. Epochs'
  <2>1. e.arrival <= topStart
    BY <1>1, <1>2, PushableFacts DEF QueueInv, Epochs
  <2> QED  BY <1>1, <1>3, <2>1 DEF QueueInv, Epochs
<1>8. TopTimes'
  BY <1>1 DEF QueueInv, TopTimes
<1> QED  BY <1>1, <1>3, <1>4, <1>6, <1>7, <1>8 DEF QueueInv, Pushed

\* A list whose entries are stored.
LEMMA ListOfStored ==
    ASSUME NEW S, NEW T, NEW list \in Seq(T), Entries(list) \subseteq S
    PROVE  list \in Seq(S)
<1>1. \A i \in 1 .. Len(list) : list[i] \in S
  BY DEF Entries
<1>2. Len(list) \in Nat /\ DOMAIN list = 1 .. Len(list)
  OBVIOUS
<1>3. list = [i \in 1 .. Len(list) |-> list[i]]
  OBVIOUS
<1>4. [i \in 1 .. Len(list) |-> list[i]] \in Seq(S)
  BY <1>1, <1>2
<1> QED  BY <1>3, <1>4

\* What Bottom::push(Entry*) makes of the list.
LEMMA BottomWith ==
    ASSUME QueueInv, NEW e, Fresh(e), NEW list, list = Insert(bottom, e)
    PROVE  /\ list \in Seq(Pushable) /\ Sorted(list) /\ list # <<>>
           /\ Entries(list) = Entries(bottom) \cup {e}
           /\ Len(list) = Len(bottom) + 1
           /\ Sortable(Entries(list)) /\ list \in Seq(Entries(list))
           /\ Entries(list) \in SUBSET Pushable /\ IsFiniteSet(Entries(list))
           /\ Cardinality(Entries(list)) <= MaxPushes
<1> DEFINE S == Stored \cup {e}
<1>1. /\ Sortable(S) /\ S \in SUBSET Pushable /\ \A f \in Stored : f.gid < e.gid
  BY FreshFacts DEF QueueInv
<1>2. bottom \in Seq(S) /\ Sorted(bottom) /\ \A f \in Entries(bottom) : f.gid < e.gid
  BY <1>1, StoredParts, ListOfStored DEF QueueInv
<1>3. Entries(bottom) \cup {e} \in SUBSET (Stored \cup {e})
  BY StoredParts
<1>4. \A T \in SUBSET (Stored \cup {e}) :
        /\ Sortable(T) /\ IsFiniteSet(T) /\ T \in SUBSET Pushable
        /\ Cardinality(T) <= MaxPushes
  BY FreshFacts DEF QueueInv
<1>5. e \in S
  OBVIOUS
<1> HIDE DEF S
<1>6. /\ list \in Seq(S) /\ Len(list) = Len(bottom) + 1 /\ Sorted(list)
      /\ Entries(list) = Entries(bottom) \cup {e}
  BY <1>1, <1>2, <1>5, InsertFacts
<1>7. list \in Seq(Pushable) /\ list \in Seq(Entries(list))
  BY <1>1, <1>6, ListOfStored
<1>8. list # <<>>
  <2>1. e \in Entries(list)
    BY <1>6
  <2> QED  BY <2>1 DEF Entries
<1> QED  BY <1>3, <1>4, <1>6, <1>7, <1>8

\* A push that leaves Top alone.
LEMMA BelowTopKept ==
    ASSUME QueueInv, NEW e, Fresh(e), e.arrival < topStart, Counted, UNCHANGED topVars,
           Sound(ladder)', bottom' \in Seq(Pushable), Sorted(bottom)',
           LadderEvents(ladder') \cup Entries(bottom')
             = LadderEvents(ladder) \cup Entries(bottom) \cup {e},
           LadderEvents(ladder') \cap Entries(bottom') = {}
    PROVE  Pushed(e)
<1>1. top' = top /\ maxTS' = maxTS /\ minTS' = minTS /\ topStart' = topStart
  BY DEF topVars
<1>2. Stored' = Stored \cup {e}
  BY <1>1 DEF Stored
<1>3. e \notin Stored /\ e.arrival \in Nat
  BY FreshFacts, PushableFacts DEF QueueInv, Fresh
<1>4. Disjoint'
  BY <1>1, <1>3 DEF Disjoint, Stored, QueueInv, Books
<1>5. Books'
  BY <1>2, <1>4, BooksAfterPush DEF QueueInv
<1>6. Epochs'
  BY <1>1, <1>3 DEF QueueInv, Epochs
<1>7. TopTimes'
  BY <1>1 DEF QueueInv, TopTimes
<1> QED  BY <1>2, <1>5, <1>6, <1>7 DEF QueueInv, Pushed

\* Bottom keeps the new entry: PushBottom and PushBottomOverflow.
LEMMA PushBottomKept ==
    ASSUME QueueInv, NEW e, Fresh(e), e.arrival < topStart, Counted, UNCHANGED topVars,
           ladder' = ladder, bottom' = Insert(bottom, e)
    PROVE  Pushed(e)
<1>1. /\ bottom' \in Seq(Pushable) /\ Sorted(bottom')
      /\ Entries(bottom') = Entries(bottom) \cup {e}
  BY BottomWith
<1>2. e \notin LadderEvents(ladder)
  BY FreshFacts, StoredParts DEF QueueInv
<1>3. LadderEvents(ladder') \cap Entries(bottom') = {}
  BY <1>1, <1>2 DEF QueueInv, Books, Disjoint
<1>4. LadderEvents(ladder') \cup Entries(bottom')
        = LadderEvents(ladder) \cup Entries(bottom) \cup {e}
  BY <1>1
<1>5. Sound(ladder)'
  BY DEF QueueInv
<1> QED  BY <1>1, <1>3, <1>4, <1>5, BelowTopKept

LEMMA EmptyList == Entries(<<>>) = {} /\ Sorted(<<>>) /\ <<>> \in Seq(Pushable)
  BY DEF Entries, Sorted

\* The whole of Bottom starts a new epoch.
LEMMA PushNewEpochKept ==
    ASSUME QueueInv, NEW e, Fresh(e), PushBottomNewEpoch(e)
    PROVE  /\ Pushed(e) /\ bottom' = <<>> /\ ladder'.lowest = 0
           /\ LadderEvents(ladder') = Entries(bottom) \cup {e}
           /\ LadderEvents(ladder) = {}
           /\ ladder'.RCur[0] \in Int
           /\ \E f \in LadderEvents(ladder') : ladder'.RCur[0] = f.arrival
           /\ \A f \in LadderEvents(ladder') : ladder'.RCur[0] <= f.arrival
<1> DEFINE list == Insert(bottom, e)
           S == Entries(list)
           max == list[Len(list)].arrival
           min == list[1].arrival
<1>1. /\ ladder.NBC = 0 /\ bottom' = <<>> /\ UNCHANGED topVars /\ Counted
      /\ e.arrival < topStart
      /\ ladder' = NewEpoch(ladder, S, max, min)
  BY DEF PushBottomNewEpoch, ForBottom
<1>2. /\ list \in Seq(Pushable) /\ Sorted(list) /\ list # <<>>
      /\ S = Entries(bottom) \cup {e}
      /\ Sortable(S) /\ list \in Seq(S)
      /\ S \in SUBSET Pushable /\ IsFiniteSet(S) /\ Cardinality(S) <= MaxPushes
  BY BottomWith
<1> HIDE DEF list
<1>3. /\ list[1] \in S /\ list[Len(list)] \in S
      /\ \A f \in S : list[1].arrival <= f.arrival /\ f.arrival <= list[Len(list)].arrival
  BY <1>2, SortedEntries
<1>4. max \in Times /\ min \in Times /\ min <= max /\ min \in Int /\ S # {}
  <2>1. list[1] \in Pushable /\ list[Len(list)] \in Pushable
    BY <1>2, <1>3
  <2> QED  BY <1>3, <2>1, PushableFacts
<1>5. Sound(ladder)
  BY DEF QueueInv
<1> HIDE DEF S, max, min
<1>6. /\ Sound(ladder') /\ LadderEvents(ladder') = S
      /\ ladder'.lowest = 0 /\ ladder'.RCur[0] = min
  <2>1. StartsEpoch(NewEpoch(ladder, S, max, min), S, min)
    BY <1>1, <1>2, <1>4, <1>5, NewEpochSound
  <2> QED  BY <1>1, <2>1 DEF StartsEpoch
<1>7. LadderEvents(ladder) = {}
  BY <1>1, <1>5, EmptyLadder DEF Sound
<1>8. Entries(bottom') = {} /\ Sorted(bottom') /\ bottom' \in Seq(Pushable)
  BY <1>1, EmptyList
<1>9. Pushed(e)
  BY <1>1, <1>2, <1>6, <1>7, <1>8, BelowTopKept
<1> QED  BY <1>1, <1>2, <1>3, <1>4, <1>6, <1>7, <1>9 DEF min

\* Bottom goes onto a new rung.
LEMMA PushBackKept ==
    ASSUME QueueInv, NEW e, Fresh(e), PushBottomPushBack(e)
    PROVE  Pushed(e) /\ pushedBack'
<1> DEFINE S == Entries(bottom) \cup {e}
<1>1. /\ ladder.NBC # 0 /\ CanSpawn(ladder) /\ bottom' = <<>> /\ UNCHANGED topVars /\ Counted
      /\ e.arrival < topStart /\ pushedBack' = TRUE
      /\ ladder' = PushBack(ladder, S)
  BY DEF PushBottomPushBack, ForBottom
<1>2. e \notin Stored
  BY FreshFacts DEF QueueInv
<1>3. S \in SUBSET (Stored \cup {e})
  BY StoredParts
<1>4. S \in SUBSET Pushable /\ IsFiniteSet(S)
  BY <1>3, FreshFacts DEF QueueInv
<1>5. LadderEvents(ladder) \cap S = {}
  BY <1>2, StoredParts DEF QueueInv, Books, Disjoint
<1> HIDE DEF S
<1>6. Sound(ladder') /\ LadderEvents(ladder') = LadderEvents(ladder) \cup S
  BY <1>1, <1>4, <1>5, PushBackSound DEF QueueInv
<1>7. Entries(bottom') = {} /\ Sorted(bottom') /\ bottom' \in Seq(Pushable)
  BY <1>1, EmptyList
<1>8. Pushed(e)
  BY <1>1, <1>6, <1>7, BelowTopKept DEF S
<1> QED  BY <1>1, <1>8

LEMMA PushKept ==
    ASSUME QueueInv, NEW e, Fresh(e), Push(e)
    PROVE  Pushed(e) /\ result' = result
<1>1. Pushed(e)
  <2>1. CASE PushTop(e)
    BY <2>1, PushTopKept
  <2>2. CASE PushLadder(e)
    BY <2>2, PushLadderKept
  <2>3. CASE PushBottom(e)
    BY <2>3, PushBottomKept DEF PushBottom, ForBottom
  <2>4. CASE PushBottomNewEpoch(e)
    BY <2>4, PushNewEpochKept
  <2>5. CASE PushBottomPushBack(e)
    BY <2>5, PushBackKept
  <2>6. CASE PushBottomOverflow(e)
    BY <2>6, PushBottomKept DEF PushBottomOverflow, ForBottom
  <2> QED  BY <2>1, <2>2, <2>3, <2>4, <2>5, <2>6 DEF Push
<1>2. result' = result
  BY DEF Push, PushTop, PushLadder, PushBottom, PushBottomNewEpoch, PushBottomPushBack,
         PushBottomOverflow, Counted
<1> QED  BY <1>1, <1>2

\* What a dequeue that returns an entry establishes.
Popped == QueueInv' /\ result' \in Stored /\ Stored' = Stored \ {result'}

\* A dequeue from a Bottom that holds the list, which comes from the other tiers.
LEMMA PopKept ==
    ASSUME QueueInv, NEW list, PopFront(list), NEW S \in SUBSET Stored,
           list \in Seq(S), Sorted(list), Entries(list) = S,
           Sound(ladder)', TopTimes', topStart' \in Nat,
           top' \cup LadderEvents(ladder') = Stored \ S,
           top' \cap LadderEvents(ladder') = {},
           \A e \in top' : topStart' <= e.arrival,
           \A e \in LadderEvents(ladder') \cup S : e.arrival <= topStart'
    PROVE  /\ Popped /\ lastEvent' = result'.arrival
           /\ result' \in S /\ Entries(bottom') = S \ {result'}
           /\ \A e \in S : lastEvent' <= e.arrival
<1>1. Sortable(S) /\ S \in SUBSET Pushable
  BY StoredSortable DEF QueueInv
<1>2. /\ list # <<>> /\ bottom' = Tail(list) /\ lastEvent' = Head(list).arrival
      /\ result' = Head(list) /\ outEvents' = outEvents + 1 /\ inEvents' = inEvents
  BY DEF PopFront
<1>3. /\ Tail(list) \in Seq(S) /\ Head(list) \in S
      /\ Entries(Tail(list)) = S \ {Head(list)} /\ Sorted(Tail(list))
      /\ \A e \in S : Head(list).arrival <= e.arrival
  BY <1>1, <1>2, TailFacts
<1>4. /\ bottom' \in Seq(S) /\ Sorted(bottom') /\ Entries(bottom') = S \ {result'}
      /\ result' \in S /\ \A e \in S : lastEvent' <= e.arrival
  BY <1>2, <1>3
<1>5. bottom' \in Seq(Pushable)
  <2>1. Entries(bottom') \subseteq Pushable
    BY <1>1, <1>4
  <2> QED  BY <1>4, <2>1, ListOfStored
<1>6. Stored' = Stored \ {result'} /\ result' \in Stored
  BY <1>4 DEF Stored
<1>7. Disjoint'
  BY <1>4 DEF Disjoint
<1>8. Books'
  BY <1>2, <1>6, <1>7, BooksAfterPop DEF QueueInv
<1>9. Epochs'
  BY <1>4 DEF Epochs
<1>10. QueueInv'
  BY <1>4, <1>5, <1>8, <1>9 DEF QueueInv
<1> QED  BY <1>2, <1>4, <1>6, <1>10 DEF Popped

LEMMA DequeueBottomKept ==
    ASSUME QueueInv, DequeueBottom
    PROVE  /\ Popped /\ lastEvent' = result'.arrival
           /\ result' \in Entries(bottom) /\ Entries(bottom') = Entries(bottom) \ {result'}
           /\ \A e \in Entries(bottom) : lastEvent' <= e.arrival
           /\ top' = top /\ topStart' = topStart /\ ladder' = ladder /\ pushedBack' = pushedBack
<1> DEFINE S == Entries(bottom)
<1>1. /\ PopFront(bottom) /\ top' = top /\ maxTS' = maxTS /\ minTS' = minTS
      /\ topStart' = topStart /\ ladder' = ladder /\ pushedBack' = pushedBack
  BY DEF DequeueBottom, topVars
<1>2. S \in SUBSET Stored /\ bottom \in Seq(S) /\ Sorted(bottom) /\ Entries(bottom) = S
  BY StoredParts, ListOfStored DEF QueueInv
<1>3. /\ top \cup LadderEvents(ladder) = Stored \ S
      /\ top \cap LadderEvents(ladder) = {}
  BY StoredParts DEF QueueInv, Books, Disjoint
<1>4. /\ topStart \in Nat /\ \A e \in top : topStart <= e.arrival
      /\ \A e \in LadderEvents(ladder) \cup S : e.arrival <= topStart
  BY DEF QueueInv, Epochs
<1>5. Sound(ladder)' /\ TopTimes'
  BY <1>1 DEF QueueInv, TopTimes
<1>6. /\ top' \cup LadderEvents(ladder') = Stored \ S
      /\ top' \cap LadderEvents(ladder') = {}
      /\ topStart' \in Nat /\ \A e \in top' : topStart' <= e.arrival
      /\ \A e \in LadderEvents(ladder') \cup S : e.arrival <= topStart'
  BY <1>1, <1>3, <1>4
<1> HIDE DEF S
<1>7. /\ Popped /\ lastEvent' = result'.arrival
      /\ result' \in S /\ Entries(bottom') = S \ {result'}
      /\ \A e \in S : lastEvent' <= e.arrival
  BY <1>1, <1>2, <1>5, <1>6, PopKept
<1> QED  BY <1>1, <1>7 DEF S

LEMMA DequeueLadderKept ==
    ASSUME QueueInv, DequeueLadder
    PROVE  /\ Popped /\ lastEvent' = result'.arrival
           /\ result' \in LadderEvents(ladder)
           /\ top' = top /\ topStart' = topStart /\ pushedBack' = pushedBack
           /\ ladder.lowest = 0 =>
                /\ ladder'.lowest = 0 /\ ladder'.NBC = 0 /\ LadderEvents(ladder') = {}
                /\ Entries(bottom') \subseteq LadderEvents(ladder)
                /\ \A e \in LadderEvents(ladder) : lastEvent' <= e.arrival
<1> DEFINE S == Delisted(ladder)
           list == SortList(S)
<1>1. /\ PopFront(list) /\ top' = top /\ maxTS' = maxTS /\ minTS' = minTS
      /\ topStart' = topStart /\ ladder' = AfterDelist(ladder) /\ pushedBack' = pushedBack
      /\ bottom = <<>> /\ ladder.NBC # 0
  BY DEF DequeueLadder, topVars
<1>2. /\ Sound(ladder') /\ S \subseteq LadderEvents(ladder)
      /\ LadderEvents(ladder') = LadderEvents(ladder) \ S
      /\ ladder.lowest = 0 => /\ ladder'.lowest = 0 /\ ladder'.NBC = 0
                              /\ S = LadderEvents(ladder)
  BY <1>1, DelistSound DEF QueueInv
<1> HIDE DEF S
<1>3. S \in SUBSET Stored
  BY <1>2, StoredParts
<1>4. list \in Seq(S) /\ Sorted(list) /\ Entries(list) = S
  BY <1>3, StoredSortable, SortListFacts DEF QueueInv
<1> HIDE DEF list
<1>5. Entries(bottom) = {}
  BY <1>1, EmptyList
<1>6. /\ top \cup (LadderEvents(ladder) \ S) = Stored \ S
      /\ top \cap (LadderEvents(ladder) \ S) = {}
  BY <1>2, <1>5, StoredParts DEF QueueInv, Books, Disjoint
<1>7. /\ topStart \in Nat /\ \A e \in top : topStart <= e.arrival
      /\ \A e \in LadderEvents(ladder) : e.arrival <= topStart
  BY DEF QueueInv, Epochs
<1>8. Sound(ladder)' /\ TopTimes'
  BY <1>1, <1>2 DEF QueueInv, TopTimes
<1>9. /\ top' \cup LadderEvents(ladder') = Stored \ S
      /\ top' \cap LadderEvents(ladder') = {}
      /\ topStart' \in Nat /\ \A e \in top' : topStart' <= e.arrival
      /\ \A e \in LadderEvents(ladder') \cup S : e.arrival <= topStart'
  BY <1>1, <1>2, <1>6, <1>7
<1>10. /\ Popped /\ lastEvent' = result'.arrival
       /\ result' \in S /\ Entries(bottom') = S \ {result'}
       /\ \A e \in S : lastEvent' <= e.arrival
  BY <1>1, <1>3, <1>4, <1>8, <1>9, PopKept
<1> QED  BY <1>1, <1>2, <1>10

LEMMA NewTopStartFacts ==
    ASSUME QueueInv, top # {}
    PROVE  /\ maxTS \in Times /\ minTS \in Times /\ minTS <= maxTS
           /\ NewTopStart \in Nat /\ maxTS <= NewTopStart
<1>1. top \in SUBSET Pushable /\ IsFiniteSet(top)
  BY StoredParts, StoredSortable DEF QueueInv
<1>2. maxTS \in Times /\ minTS \in Times /\ minTS <= maxTS
  BY <1>1, PushableFacts DEF QueueInv, TopTimes
<1>3. Cardinality(top) \in Nat /\ Cardinality(top) # 0
  BY <1>1, FS_EmptySet, FS_CardinalityType
<1>4. maxTS \in Nat /\ minTS \in Nat
  BY <1>2, Parameters
<1> DEFINE c == Cardinality(top)
           q == (maxTS - minTS) \div c
<1>5. maxTS > minTS => q \in Nat
  <2> SUFFICES ASSUME maxTS > minTS
               PROVE  q \in Nat
    OBVIOUS
  <2>1. maxTS - minTS \in Nat
    BY <1>4
  <2>2. c \in Nat /\ c > 0
    BY <1>3
  <2> HIDE DEF c
  <2> QED  BY <2>1, <2>2
<1>6. NewTopStart = maxTS + IF maxTS > minTS THEN q ELSE 0
  BY DEF NewTopStart
<1> HIDE DEF q
<1> QED  BY <1>2, <1>4, <1>5, <1>6

LEMMA DequeueTopKept ==
    ASSUME QueueInv, DequeueTop
    PROVE  /\ Popped /\ lastEvent' = result'.arrival
           /\ result' \in top /\ top' = {} /\ pushedBack' = pushedBack
           /\ ladder'.lowest = 0 /\ ladder'.NBC = 0 /\ LadderEvents(ladder') = {}
           /\ Entries(bottom') \subseteq top
           /\ \A e \in top : lastEvent' <= e.arrival
<1> DEFINE L == NewEpoch(ladder, top, maxTS, minTS)
           list == SortList(Delisted(L))
<1>1. /\ PopFront(list) /\ top' = {} /\ maxTS' = 0 /\ minTS' = DblMax
      /\ topStart' = NewTopStart /\ ladder' = AfterDelist(L) /\ pushedBack' = pushedBack
      /\ bottom = <<>> /\ ladder.NBC = 0 /\ top # {}
  BY DEF DequeueTop
<1>2. /\ maxTS \in Times /\ minTS \in Times /\ minTS <= maxTS
      /\ NewTopStart \in Nat /\ maxTS <= NewTopStart
  BY <1>1, NewTopStartFacts
<1>3. /\ top \in SUBSET Stored /\ Sortable(top) /\ IsFiniteSet(top) /\ top \in SUBSET Pushable
      /\ Cardinality(top) <= MaxPushes
  BY StoredParts, StoredSortable DEF QueueInv
<1>4. StartsEpoch(L, top, minTS)
  <2> HIDE DEF L
  <2>1. Sound(ladder)
    BY DEF QueueInv
  <2> QED  BY <1>1, <1>2, <1>3, <2>1, NewEpochSound DEF L
<1> HIDE DEF L
<1>5. Sound(L) /\ L.NBC # 0 /\ L.lowest = 0 /\ LadderEvents(L) = top
  BY <1>4 DEF StartsEpoch
<1>6. /\ Sound(ladder') /\ ladder'.lowest = 0 /\ ladder'.NBC = 0
      /\ Delisted(L) = top /\ LadderEvents(ladder') = {}
  BY <1>1, <1>5, DelistSound
<1>7. list \in Seq(top) /\ Sorted(list) /\ Entries(list) = top
  BY <1>3, <1>6, SortListFacts
<1> HIDE DEF list
<1>8. Stored = top
  <2>1. LadderEvents(ladder) = {}
    BY <1>1, EmptyLadder DEF QueueInv, Sound
  <2> QED  BY <1>1, <2>1, EmptyList DEF Stored
<1>9. Sound(ladder)' /\ TopTimes'
  BY <1>1, <1>6 DEF TopTimes
<1>10. /\ top' \cup LadderEvents(ladder') = Stored \ top
       /\ top' \cap LadderEvents(ladder') = {}
       /\ topStart' \in Nat /\ \A e \in top' : topStart' <= e.arrival
  BY <1>1, <1>2, <1>6, <1>8
<1>11. \A e \in LadderEvents(ladder') \cup top : e.arrival <= topStart'
  <2>1. \A e \in top : e.arrival <= maxTS /\ e.arrival \in Nat
    BY <1>3, PushableFacts DEF QueueInv, TopTimes
  <2>2. maxTS \in Nat
    BY <1>2, Parameters
  <2> QED  BY <1>1, <1>2, <1>6, <2>1, <2>2
<1>12. /\ Popped /\ lastEvent' = result'.arrival
       /\ result' \in top /\ Entries(bottom') = top \ {result'}
       /\ \A e \in top : lastEvent' <= e.arrival
  BY <1>1, <1>3, <1>7, <1>9, <1>10, <1>11, PopKept
<1> QED  BY <1>1, <1>6, <1>12

\* Nothing is pending: only the result changes.
LEMMA DequeueEmptyKept ==
    ASSUME QueueInv, DequeueEmpty
    PROVE  QueueInv' /\ Stored' = Stored /\ Stored = {} /\ result' = NULL
<1>1. /\ top' = top /\ maxTS' = maxTS /\ minTS' = minTS /\ topStart' = topStart
      /\ ladder' = ladder /\ bottom' = bottom /\ lastEvent' = lastEvent
      /\ inEvents' = inEvents /\ outEvents' = outEvents
      /\ bottom = <<>> /\ ladder.NBC = 0 /\ top = {} /\ result' = NULL
  BY DEF DequeueEmpty, topVars
<1>2. Stored = {}
  <2>1. LadderEvents(ladder) = {}
    BY <1>1, EmptyLadder DEF QueueInv, Sound
  <2> QED  BY <1>1, <2>1, EmptyList DEF Stored
<1>3. QueueInv'
  BY <1>1 DEF QueueInv, Books, Disjoint, TopTimes, Epochs, Stored
<1>4. Stored' = Stored
  BY <1>1 DEF Stored
<1> QED  BY <1>1, <1>2, <1>3, <1>4

\* Every step is a push of a new entry, a dequeue that returns one, the report
\* of an empty queue or a stutter.
LEMMA StepKinds ==
    ASSUME QueueInv, [Next]_vars
    PROVE  /\ QueueInv'
           /\ \/ \E e \in Pushable : Fresh(e) /\ Stored' = Stored \cup {e} /\ result' = result
              \/ result' \in Stored /\ Stored' = Stored \ {result'}
              \/ Stored = {} /\ Stored' = Stored /\ result' = NULL
              \/ Stored' = Stored /\ result' = result
<1>1. ASSUME NEW ts \in Times, inEvents < MaxPushes, Push(NewEntry(ts))
      PROVE  /\ QueueInv'
             /\ \E e \in Pushable : Fresh(e) /\ Stored' = Stored \cup {e} /\ result' = result
  <2>1. Fresh(NewEntry(ts))
    BY <1>1, NewEntryIsFresh DEF QueueInv
  <2>2. Pushed(NewEntry(ts)) /\ result' = result
    BY <1>1, <2>1, PushKept
  <2> QED  BY <2>1, <2>2 DEF Pushed, Fresh
<1>2. CASE DequeueBottom
  BY <1>2, DequeueBottomKept DEF Popped
<1>3. CASE DequeueLadder
  BY <1>3, DequeueLadderKept DEF Popped
<1>4. CASE DequeueTop
  BY <1>4, DequeueTopKept DEF Popped
<1>5. CASE DequeueEmpty
  BY <1>5, DequeueEmptyKept
<1>6. CASE UNCHANGED vars
  <2>1. QueueInv'
    BY <1>6 DEF vars, QueueInv, Books, Disjoint, TopTimes, Epochs, Stored
  <2>2. Stored' = Stored /\ result' = result
    BY <1>6 DEF vars, Stored
  <2> QED  BY <2>1, <2>2
<1> QED  BY <1>1, <1>2, <1>3, <1>4, <1>5, <1>6 DEF Next, Dequeue

LEMMA InitQueue ==
    ASSUME Init
    PROVE  QueueInv /\ Stored = {}
<1>1. /\ top = {} /\ maxTS = 0 /\ minTS = DblMax /\ topStart = 0 /\ ladder = InitLadder
      /\ bottom = <<>> /\ inEvents = 0 /\ outEvents = 0
  BY DEF Init
<1>2. Sound(ladder) /\ LadderEvents(ladder) = {}
  BY <1>1, InitLadderSound
<1>3. Entries(bottom) = {} /\ Sorted(bottom) /\ bottom \in Seq(Pushable)
  BY <1>1, EmptyList
<1>4. Stored = {}
  BY <1>1, <1>2, <1>3 DEF Stored
<1>5. Books
  <2>1. Disjoint
    BY <1>2, <1>3 DEF Disjoint
  <2>2. inEvents \in 0 .. MaxPushes /\ outEvents \in Nat /\ inEvents - outEvents = 0
    BY <1>1, Parameters
  <2>3. Cardinality(Stored) = 0 /\ IsFiniteSet(Stored)
    BY <1>4, FS_EmptySet
  <2> QED  BY <1>4, <2>1, <2>2, <2>3 DEF Books
<1>6. TopTimes /\ Epochs
  BY <1>1, <1>2, <1>3 DEF TopTimes, Epochs
<1> QED  BY <1>2, <1>3, <1>4, <1>5, <1>6 DEF QueueInv

\* The inductive invariant of the queue: the ladder is sound, Bottom is sorted,
\* the counters tell what the tiers hold, and m_topStart parts Top from them.
THEOREM QueueInvHolds == Spec => []QueueInv
<1>1. Init => QueueInv
  BY InitQueue
<1>2. QueueInv /\ [Next]_vars => QueueInv'
  BY StepKinds
<1> QED  BY <1>1, <1>2, PTL DEF Spec

-----------------------------------------------------------------------------
(* What the runs check, of every instance.                                 *)

\* No bucket that is read or written lies outside its array.
LEMMA CurrentInside ==
    ASSUME NEW L, Sound(L)
    PROVE  /\ \A r \in Rungs : RungEvents(L, r) # {} => L.cur[r] < Buckets(L, r)
           /\ L.NBC # 0 => \A r \in 0 .. L.lowest : L.cur[r] < Buckets(L, r)
<1>1. /\ L \in Ladders /\ Sizes(L) /\ Counters(L) /\ Shape(L)
      /\ L.NBC # 0 => \A r \in 0 .. L.lowest : RungFits(L, r)
  BY DEF Sound
<1>2. /\ \A r \in Rungs : L.cur[r] \in Int /\ Buckets(L, r) \in Nat /\ Buckets(L, r) >= Thres
      /\ L.lowest \in Rungs
  BY <1>1, FieldTypes, BucketsFacts DEF Sizes
<1>3. L.lowest \in Nat /\ Thres \in Nat /\ Thres >= 2 /\ 0 .. L.lowest \subseteq Rungs
  BY <1>2, Parameters
<1>4. ASSUME L.NBC # 0, NEW r \in 0 .. L.lowest
      PROVE  L.cur[r] < Buckets(L, r)
  <2>1. CASE r = 0
    BY <1>1, <1>2, <1>3, <1>4, <2>1 DEF Shape
  <2>2. CASE r # 0
    <3>1. L.cur[r] <= Thres - 1
      BY <1>1, <1>4, <2>2 DEF RungFits
    <3> QED  BY <1>2, <1>3, <3>1
  <2> QED  BY <2>1, <2>2
<1>5. ASSUME NEW r \in Rungs, RungEvents(L, r) # {}
      PROVE  L.NBC # 0 /\ r \in 0 .. L.lowest
  <2>1. L.NBC # 0
    BY <1>1, <1>5, EmptyLadder
  <2>2. ~ r > L.lowest
    BY <1>1, <1>5 DEF Shape
  <2>3. r \in Nat
    BY Parameters
  <2> QED  BY <1>3, <2>1, <2>2, <2>3
<1> QED  BY <1>4, <1>5

LEMMA AccountingFollows == QueueInv => Accounting
<1> SUFFICES ASSUME QueueInv
             PROVE  Accounting
  OBVIOUS
<1>1. Sound(ladder) /\ Books /\ bottom \in Seq(Pushable) /\ Sorted(bottom)
  BY DEF QueueInv
<1>2. /\ ladder \in Ladders /\ InCurrent(ladder) /\ Counters(ladder) /\ Shape(ladder)
  BY <1>1 DEF Sound
<1>3. ASSUME NEW r \in Rungs, ladder.events[r] # 0
      PROVE  r <= ladder.lowest /\ ladder.cur[r] < Buckets(ladder, r)
  <2>1. RungEvents(ladder, r) # {}
    BY <1>2, <1>3, FS_EmptySet DEF Counters
  <2>2. ~ r > ladder.lowest
    BY <1>2, <2>1 DEF Shape
  <2>3. r \in Nat /\ ladder.lowest \in Nat
    BY <1>2, Parameters, FieldTypes
  <2> QED  BY <1>1, <2>1, <2>2, <2>3, CurrentInside
<1>4. ASSUME NEW r \in Rungs, NEW b \in DOMAIN ladder.rungs[r], ladder.rungs[r][b] # {}
      PROVE  b >= ladder.cur[r]
  <2>1. b = ladder.cur[r]
    BY <1>2, <1>4 DEF InCurrent
  <2>2. ladder.cur[r] \in Int
    BY <1>2, FieldTypes
  <2> QED  BY <2>1, <2>2
<1>5. inEvents - outEvents = Cardinality(top) + ladder.NBC + Len(bottom)
  <2>1. IsFiniteSet(top) /\ IsFiniteSet(LadderEvents(ladder)) /\ IsFiniteSet(Entries(bottom))
    BY <1>1, StoredParts, StoredSortable
  <2>2. bottom \in Seq(Entries(bottom)) /\ Sortable(Entries(bottom))
    BY <1>1, StoredParts, StoredSortable, ListOfStored
  <2>3. Cardinality(Entries(bottom)) = Len(bottom)
    BY <1>1, <2>2, SortedEntries
  <2> DEFINE T == top \cup LadderEvents(ladder)
  <2>4. top \cap LadderEvents(ladder) = {} /\ T \cap Entries(bottom) = {}
    BY <1>1 DEF Books, Disjoint
  <2>5. /\ IsFiniteSet(T) /\ Cardinality(T) = Cardinality(top) + Cardinality(LadderEvents(ladder))
    BY <2>1, <2>4, DisjointUnion
  <2> HIDE DEF T
  <2>6. Cardinality(T \cup Entries(bottom)) = Cardinality(T) + Cardinality(Entries(bottom))
    BY <2>1, <2>4, <2>5, DisjointUnion
  <2>7. Stored = T \cup Entries(bottom)
    BY DEF Stored, T
  <2> QED  BY <1>1, <1>2, <2>3, <2>5, <2>6, <2>7 DEF Books, Counters
<1>6. ladder.NBC # 0 => \A r \in 0 .. ladder.lowest : ladder.cur[r] < Buckets(ladder, r)
  BY <1>1, CurrentInside
<1> QED  BY <1>2, <1>3, <1>4, <1>5, <1>6 DEF Accounting, Counters

\* What the ladder keeps by hand tells where its entries are, no bucket outside an
\* array is ever the current one, and size() is what was pushed and not dequeued.
THEOREM AccountingHolds == Spec => []Accounting
  BY QueueInvHolds, AccountingFollows, PTL

\* Nothing in the ladder or in Bottom comes after an entry of Top.
THEOREM EpochSeparationHolds == Spec => []EpochSeparation
<1>1. QueueInv => EpochSeparation
  <2> SUFFICES ASSUME QueueInv,
                      NEW e \in LadderEvents(ladder) \cup Entries(bottom), NEW f \in top
               PROVE  e.arrival <= f.arrival
    BY DEF EpochSeparation
  <2>1. e.arrival \in Nat /\ f.arrival \in Nat
    BY StoredParts, PushableFacts DEF QueueInv, Books
  <2>2. e.arrival <= topStart /\ topStart <= f.arrival /\ topStart \in Nat
    BY DEF QueueInv, Epochs
  <2> QED  BY <2>1, <2>2
<1> QED  BY <1>1, QueueInvHolds, PTL

\* Bottom is sorted by arrival, then by gid.
THEOREM BottomSortedHolds == Spec => []BottomSorted
<1>1. QueueInv => BottomSorted
  BY DEF QueueInv, BottomSorted
<1> QED  BY <1>1, QueueInvHolds, PTL

\* The ladder queue implements the pool of entries: it neither loses nor invents
\* nor repeats one, and reports an empty queue only when it is empty.
THEOREM PoolSpecHolds == Spec => PoolSpec
<1>1. Init => Pool!PoolInit
  BY InitQueue DEF Pool!PoolInit, Init
<1>2. ASSUME QueueInv, [Next]_vars
      PROVE  [Pool!PoolNext]_(Pool!poolVars)
  <2>1. ASSUME NEW e \in Pushable, Fresh(e), Stored' = Stored \cup {e}, result' = result
        PROVE  Pool!PoolNext
    <3>1. e \notin Stored
      BY <1>2, <2>1, FreshFacts DEF QueueInv
    <3>2. Pool!Accept(e)
      BY <2>1, <3>1 DEF Pool!Accept
    <3> QED  BY <3>2 DEF Pool!PoolNext, Pushable
  <2>2. ASSUME result' \in Stored, Stored' = Stored \ {result'}
        PROVE  Pool!PoolNext
    <3>1. result' \in Pushable
      BY <1>2, <2>2 DEF QueueInv, Books
    <3>2. Pool!Remove(result')
      BY <2>2 DEF Pool!Remove
    <3> QED  BY <3>1, <3>2 DEF Pool!PoolNext, Pushable
  <2>3. ASSUME Stored = {}, Stored' = Stored, result' = NULL
        PROVE  Pool!PoolNext
    BY <2>3 DEF Pool!PoolNext, Pool!ReportEmpty
  <2>4. ASSUME Stored' = Stored, result' = result
        PROVE  UNCHANGED Pool!poolVars
    BY <2>4 DEF Pool!poolVars
  <2> QED  BY <1>2, <2>1, <2>2, <2>3, <2>4, StepKinds
<1> QED  BY <1>1, <1>2, QueueInvHolds, PTL DEF Spec, PoolSpec, Pool!PoolSpec

-----------------------------------------------------------------------------
(* The order of the dequeues.                                              *)

\* As long as Bottom has not been pushed back, the ladder has one rung, whose
\* m_RCur parts its entries from Bottom's, and no tier holds an entry that is
\* earlier than the last dequeued one.
Ordered ==
    /\ ladder.lowest = 0
    /\ lastEvent <= topStart
    /\ \A e \in Stored : lastEvent <= e.arrival
    /\ ladder.NBC # 0 =>
         /\ lastEvent <= ladder.RCur[0]
         /\ \A e \in Entries(bottom) : e.arrival <= ladder.RCur[0]
         /\ \A e \in LadderEvents(ladder) : ladder.RCur[0] <= e.arrival

OrderInv == lastEvent \in Nat /\ (~ pushedBack => Ordered)

LEMMA StoredTimes ==
    ASSUME QueueInv
    PROVE  /\ \A e \in Stored : e.arrival \in Nat
           /\ topStart \in Nat /\ ladder.RCur[0] \in Int
<1>1. \A e \in Stored : e.arrival \in Nat
  BY PushableFacts DEF QueueInv, Books
<1>2. ladder.RCur[0] \in Int
  BY Parameters, FieldTypes DEF QueueInv, Sound
<1> QED  BY <1>1, <1>2 DEF QueueInv, Epochs

\* An entry for Bottom is not later than the first bucket of the ladder.
LEMMA ForBottomIsEarly ==
    ASSUME QueueInv, lastEvent \in Nat, Ordered, ladder.NBC # 0, NEW e, Fresh(e), ForBottom(e)
    PROVE  e.arrival <= ladder.RCur[0]
<1>1. e.arrival \in Nat /\ ladder.RCur[0] \in Int
  BY StoredTimes, PushableFacts DEF Fresh
<1>2. CASE ~ Accepts(ladder, e.arrival)
  <2>1. ~ e.arrival >= ladder.RCur[0]
    BY <1>2 DEF Accepts, Ordered
  <2> QED  BY <1>1, <2>1
<1>3. CASE e.arrival <= BottomMaxTS
  <2>1. CASE bottom = <<>>
    <3>1. BottomMaxTS = lastEvent /\ lastEvent <= ladder.RCur[0]
      BY <2>1 DEF BottomMaxTS, Ordered
    <3> QED  BY <1>1, <1>3, <3>1
  <2>2. CASE bottom # <<>>
    <3>1. bottom \in Seq(Entries(bottom)) /\ Sortable(Entries(bottom)) /\ Sorted(bottom)
      BY StoredParts, StoredSortable, ListOfStored DEF QueueInv
    <3>2. bottom[Len(bottom)] \in Entries(bottom)
      BY <2>2, <3>1, SortedEntries
    <3>3. /\ BottomMaxTS = bottom[Len(bottom)].arrival /\ BottomMaxTS \in Nat
          /\ BottomMaxTS <= ladder.RCur[0]
      BY <2>2, <3>2, StoredTimes, StoredParts DEF BottomMaxTS, Ordered
    <3> QED  BY <1>1, <1>3, <3>3
  <2> QED  BY <2>1, <2>2
<1> QED  BY <1>2, <1>3 DEF ForBottom

LEMMA PushTopOrdered ==
    ASSUME QueueInv, lastEvent \in Nat, Ordered, NEW e, Fresh(e), PushTop(e)
    PROVE  Ordered' /\ lastEvent' = lastEvent /\ pushedBack' = pushedBack
<1>1. /\ e.arrival >= topStart /\ topStart' = topStart /\ ladder' = ladder /\ bottom' = bottom
      /\ lastEvent' = lastEvent /\ pushedBack' = pushedBack
  BY DEF PushTop, Counted
<1>2. Stored' = Stored \cup {e}
  BY PushTopKept DEF Pushed
<1>3. lastEvent <= e.arrival
  BY <1>1, StoredTimes, PushableFacts DEF Fresh, Ordered
<1> QED  BY <1>1, <1>2, <1>3 DEF Ordered

LEMMA PushLadderOrdered ==
    ASSUME QueueInv, lastEvent \in Nat, Ordered, NEW e, Fresh(e), PushLadder(e)
    PROVE  Ordered' /\ lastEvent' = lastEvent /\ pushedBack' = pushedBack
<1>1. /\ topStart' = topStart /\ bottom' = bottom
      /\ lastEvent' = lastEvent /\ pushedBack' = pushedBack
  BY DEF PushLadder, Counted, topVars
<1>2. /\ Stored' = Stored \cup {e}
      /\ ladder'.lowest = ladder.lowest /\ ladder'.RCur = ladder.RCur
      /\ LadderEvents(ladder') = LadderEvents(ladder) \cup {e}
      /\ Accepts(ladder, e.arrival)
  BY PushLadderKept DEF Pushed
<1>3. ladder.NBC # 0 /\ ladder.RCur[0] <= e.arrival
  BY <1>2, StoredTimes, PushableFacts DEF Accepts, Ordered, Fresh
<1>4. lastEvent <= e.arrival
  BY <1>3, StoredTimes, PushableFacts DEF Ordered, Fresh
<1> QED  BY <1>1, <1>2, <1>3, <1>4 DEF Ordered

\* PushBottom and PushBottomOverflow.
LEMMA PushBottomOrdered ==
    ASSUME QueueInv, lastEvent \in Nat, Ordered, NEW e, Fresh(e), ForBottom(e), NotPast(e),
           Counted, UNCHANGED <<topVars, ladder, pushedBack>>, bottom' = Insert(bottom, e)
    PROVE  Ordered' /\ lastEvent' = lastEvent /\ pushedBack' = pushedBack
<1>1. /\ topStart' = topStart /\ top' = top /\ ladder' = ladder
      /\ lastEvent' = lastEvent /\ pushedBack' = pushedBack
  BY DEF Counted, topVars
<1>2. Entries(bottom') = Entries(bottom) \cup {e}
  BY BottomWith
<1>3. Stored' = Stored \cup {e}
  BY <1>1, <1>2 DEF Stored
<1>4. lastEvent <= e.arrival
  BY PushableFacts DEF NotPast, Fresh
<1>5. ladder.NBC # 0 => e.arrival <= ladder.RCur[0]
  BY ForBottomIsEarly
<1> QED  BY <1>1, <1>2, <1>3, <1>4, <1>5 DEF Ordered

LEMMA PushNewEpochOrdered ==
    ASSUME QueueInv, lastEvent \in Nat, Ordered, NEW e, Fresh(e), PushBottomNewEpoch(e)
    PROVE  Ordered' /\ lastEvent' = lastEvent /\ pushedBack' = pushedBack
<1>1. /\ topStart' = topStart /\ bottom' = <<>> /\ NotPast(e)
      /\ lastEvent' = lastEvent /\ pushedBack' = pushedBack
  BY DEF PushBottomNewEpoch, Counted, topVars
<1>2. /\ Stored' = Stored \cup {e} /\ ladder'.lowest = 0
      /\ LadderEvents(ladder') \subseteq Stored \cup {e}
      /\ \E f \in LadderEvents(ladder') : ladder'.RCur[0] = f.arrival
      /\ \A f \in LadderEvents(ladder') : ladder'.RCur[0] <= f.arrival
  BY PushNewEpochKept, StoredParts DEF Pushed
<1>3. lastEvent <= e.arrival
  BY <1>1, PushableFacts DEF NotPast, Fresh
<1>4. \A f \in Stored \cup {e} : lastEvent <= f.arrival
  BY <1>3 DEF Ordered
<1>5. lastEvent <= ladder'.RCur[0]
  BY <1>2, <1>4
<1>6. Entries(bottom') = {}
  BY <1>1, EmptyList
<1>7. lastEvent' <= topStart'
  BY <1>1 DEF Ordered
<1> QED  BY <1>1, <1>2, <1>4, <1>5, <1>6, <1>7 DEF Ordered

LEMMA PushOrdered ==
    ASSUME QueueInv, OrderInv, NEW e, Fresh(e), Push(e)
    PROVE  OrderInv' /\ lastEvent' = lastEvent
<1>1. lastEvent \in Nat /\ (~ pushedBack => Ordered)
  BY DEF OrderInv
<1>2. lastEvent' = lastEvent /\ (pushedBack => pushedBack')
  BY DEF Push, PushTop, PushLadder, PushBottom, PushBottomNewEpoch, PushBottomPushBack,
         PushBottomOverflow, Counted
<1>3. ASSUME ~ pushedBack
      PROVE  pushedBack' \/ Ordered'
  <2>1. CASE PushTop(e)
    BY <1>1, <1>3, <2>1, PushTopOrdered
  <2>2. CASE PushLadder(e)
    BY <1>1, <1>3, <2>2, PushLadderOrdered
  <2>3. CASE PushBottom(e)
    <3>1. /\ ForBottom(e) /\ NotPast(e) /\ Counted /\ bottom' = Insert(bottom, e)
          /\ UNCHANGED <<topVars, ladder, pushedBack>>
      BY <2>3 DEF PushBottom
    <3> QED  BY <1>1, <1>3, <3>1, PushBottomOrdered
  <2>4. CASE PushBottomNewEpoch(e)
    BY <1>1, <1>3, <2>4, PushNewEpochOrdered
  <2>5. CASE PushBottomPushBack(e)
    BY <2>5 DEF PushBottomPushBack
  <2>6. CASE PushBottomOverflow(e)
    <3>1. /\ ForBottom(e) /\ NotPast(e) /\ Counted /\ bottom' = Insert(bottom, e)
          /\ UNCHANGED <<topVars, ladder, pushedBack>>
      BY <2>6 DEF PushBottomOverflow
    <3> QED  BY <1>1, <1>3, <3>1, PushBottomOrdered
  <2> QED  BY <2>1, <2>2, <2>3, <2>4, <2>5, <2>6 DEF Push
<1> QED  BY <1>1, <1>2, <1>3 DEF OrderInv

LEMMA DequeueBottomOrdered ==
    ASSUME QueueInv, lastEvent \in Nat, Ordered, DequeueBottom
    PROVE  Ordered' /\ lastEvent' >= lastEvent
<1>1. /\ Stored' = Stored \ {result'} /\ lastEvent' = result'.arrival
      /\ result' \in Entries(bottom) /\ Entries(bottom') = Entries(bottom) \ {result'}
      /\ \A e \in Entries(bottom) : lastEvent' <= e.arrival
      /\ top' = top /\ topStart' = topStart /\ ladder' = ladder
  BY DequeueBottomKept DEF Popped
<1>2. /\ lastEvent' \in Nat /\ lastEvent <= lastEvent' /\ lastEvent' <= topStart
  BY <1>1, StoredTimes, StoredParts DEF QueueInv, Epochs, Ordered
<1>3. ladder.NBC # 0 => lastEvent' <= ladder.RCur[0]
  BY <1>1 DEF Ordered
<1>4. \A e \in LadderEvents(ladder) : lastEvent' <= e.arrival
  <2>1. CASE ladder.NBC = 0
    BY <2>1, EmptyLadder DEF QueueInv, Sound
  <2>2. CASE ladder.NBC # 0
    <3>1. \A e \in LadderEvents(ladder) : ladder.RCur[0] <= e.arrival /\ e.arrival \in Nat
      BY <2>2, StoredTimes, StoredParts DEF Ordered
    <3> QED  BY <1>2, <1>3, <2>2, <3>1, StoredTimes
  <2> QED  BY <2>1, <2>2
<1>5. \A e \in top : lastEvent' <= e.arrival
  <2>1. \A e \in top : topStart <= e.arrival /\ e.arrival \in Nat
    BY StoredTimes, StoredParts DEF QueueInv, Epochs
  <2> QED  BY <1>2, <2>1, StoredTimes
<1>6. \A e \in Stored' : lastEvent' <= e.arrival
  BY <1>1, <1>4, <1>5 DEF Stored
<1>7. lastEvent' >= lastEvent
  BY <1>2
<1> QED  BY <1>1, <1>2, <1>3, <1>6, <1>7 DEF Ordered

LEMMA DequeueLadderOrdered ==
    ASSUME QueueInv, lastEvent \in Nat, Ordered, DequeueLadder
    PROVE  Ordered' /\ lastEvent' >= lastEvent
<1>1. /\ Stored' = Stored \ {result'} /\ lastEvent' = result'.arrival
      /\ result' \in LadderEvents(ladder)
      /\ top' = top /\ topStart' = topStart
      /\ ladder'.lowest = 0 /\ ladder'.NBC = 0 /\ LadderEvents(ladder') = {}
      /\ Entries(bottom') \subseteq LadderEvents(ladder)
      /\ \A e \in LadderEvents(ladder) : lastEvent' <= e.arrival
  BY DequeueLadderKept DEF Popped, Ordered
<1>2. /\ lastEvent' \in Nat /\ lastEvent <= lastEvent' /\ lastEvent' <= topStart
  BY <1>1, StoredTimes, StoredParts DEF QueueInv, Epochs, Ordered
<1>3. \A e \in top : lastEvent' <= e.arrival
  <2>1. \A e \in top : topStart <= e.arrival /\ e.arrival \in Nat
    BY StoredTimes, StoredParts DEF QueueInv, Epochs
  <2> QED  BY <1>2, <2>1, StoredTimes
<1>4. \A e \in Stored' : lastEvent' <= e.arrival
  BY <1>1, <1>3 DEF Stored
<1>5. lastEvent' >= lastEvent
  BY <1>2
<1> QED  BY <1>1, <1>2, <1>4, <1>5 DEF Ordered

LEMMA DequeueTopOrdered ==
    ASSUME QueueInv, lastEvent \in Nat, Ordered, DequeueTop
    PROVE  Ordered' /\ lastEvent' >= lastEvent
<1>1. /\ Stored' = Stored \ {result'} /\ lastEvent' = result'.arrival
      /\ result' \in top /\ top' = {}
      /\ ladder'.lowest = 0 /\ ladder'.NBC = 0 /\ LadderEvents(ladder') = {}
      /\ Entries(bottom') \subseteq top
      /\ \A e \in top : lastEvent' <= e.arrival
  BY DequeueTopKept DEF Popped
<1>2. /\ lastEvent' \in Nat /\ lastEvent <= lastEvent' /\ lastEvent' <= topStart'
  <2>1. lastEvent' \in Nat /\ lastEvent <= lastEvent'
    BY <1>1, StoredTimes, StoredParts DEF Ordered
  <2>2. lastEvent' <= maxTS
    BY <1>1 DEF QueueInv, TopTimes
  <2>3. topStart' = NewTopStart /\ maxTS \in Nat /\ NewTopStart \in Nat /\ maxTS <= NewTopStart
    BY NewTopStartFacts, Parameters DEF DequeueTop
  <2> QED  BY <2>1, <2>2, <2>3
<1>3. \A e \in Stored' : lastEvent' <= e.arrival
  BY <1>1 DEF Stored
<1>4. lastEvent' >= lastEvent
  BY <1>2
<1> QED  BY <1>1, <1>2, <1>3, <1>4 DEF Ordered

LEMMA DequeueOrdered ==
    ASSUME QueueInv, OrderInv, Dequeue
    PROVE  OrderInv' /\ (~ pushedBack => lastEvent' >= lastEvent)
<1>1. lastEvent \in Nat /\ (~ pushedBack => Ordered)
  BY DEF OrderInv
<1>2. lastEvent' \in Nat
  <2>1. ASSUME Popped, lastEvent' = result'.arrival
        PROVE  lastEvent' \in Nat
    BY <2>1, StoredTimes DEF Popped
  <2>2. CASE DequeueEmpty
    BY <1>1, <2>2 DEF DequeueEmpty
  <2> QED  BY <2>1, <2>2, DequeueBottomKept, DequeueLadderKept, DequeueTopKept DEF Dequeue
<1>3. pushedBack' = pushedBack
  BY DEF Dequeue, DequeueBottom, DequeueLadder, DequeueTop, DequeueEmpty
<1>4. ASSUME ~ pushedBack
      PROVE  Ordered' /\ lastEvent' >= lastEvent
  <2>1. CASE DequeueEmpty
    BY <1>1, <1>4, <2>1 DEF DequeueEmpty, Ordered, Stored, topVars
  <2> QED  BY <1>1, <1>4, <2>1, DequeueBottomOrdered, DequeueLadderOrdered, DequeueTopOrdered
           DEF Dequeue
<1> QED  BY <1>2, <1>3, <1>4 DEF OrderInv

LEMMA OrderStep ==
    ASSUME QueueInv, OrderInv, [Next]_vars
    PROVE  OrderInv' /\ (~ pushedBack => lastEvent' >= lastEvent)
<1>1. ASSUME NEW ts \in Times, inEvents < MaxPushes, Push(NewEntry(ts))
      PROVE  OrderInv' /\ lastEvent' >= lastEvent
  <2>1. Fresh(NewEntry(ts))
    BY <1>1, NewEntryIsFresh DEF QueueInv
  <2>2. OrderInv' /\ lastEvent' = lastEvent
    BY <1>1, <2>1, PushOrdered
  <2> QED  BY <2>2 DEF OrderInv
<1>2. CASE Dequeue
  BY <1>2, DequeueOrdered
<1>3. CASE UNCHANGED vars
  <2>1. OrderInv'
    BY <1>3 DEF vars, OrderInv, Ordered, Stored
  <2>2. lastEvent' = lastEvent
    BY <1>3 DEF vars
  <2> QED  BY <2>1, <2>2 DEF OrderInv
<1> QED  BY <1>1, <1>2, <1>3 DEF Next

\* The time of the dequeued entries never runs backwards, whatever a client
\* pushes, as long as Bottom has not been pushed back into the ladder.
THEOREM OrderedUntilPushBackHolds == Spec => OrderedUntilPushBack
<1>1. Init => OrderInv
  <2> SUFFICES ASSUME Init
               PROVE  OrderInv
    OBVIOUS
  <2>1. Stored = {} /\ ladder.NBC = 0 /\ ladder.lowest = 0
    BY InitQueue, InitLadderSound DEF Init
  <2>2. lastEvent = 0 /\ topStart = 0
    BY DEF Init
  <2> QED  BY <2>1, <2>2 DEF OrderInv, Ordered
<1>2. QueueInv /\ OrderInv /\ [Next]_vars => OrderInv'
  BY OrderStep
<1>3. QueueInv /\ OrderInv /\ [Next]_vars => [~ pushedBack => lastEvent' >= lastEvent]_vars
  BY OrderStep
<1> QED  BY <1>1, <1>2, <1>3, QueueInvHolds, PTL DEF Spec, OrderedUntilPushBack

=============================================================================
