-------------------------- MODULE Learning_proofs --------------------------
(***************************************************************************)
(* Proofs about what the servers learn, for every network, configuration   *)
(* and bound: a job has a walk behind it that its acknowledgement follows  *)
(* back, a network is trained with the state of the edge whose reward was  *)
(* observed, along the gradient of its error, what is felt over an edge    *)
(* stays within its range, the weights of a vertex stay a distribution,    *)
(* and values are means of the delays of the jobs.                         *)
(***************************************************************************)
EXTENDS Learning, FiniteSetTheorems, SequenceTheorems, WellFoundedInduction, TLAPS

\* A set of numbers has a least one.
LEMMA Least ==
    ASSUME NEW S, S \subseteq Nat, S # {}
    PROVE  \E m \in S : \A k \in S : m <= k
<1>1. PICK m \in S : \A k \in S : ~ (<<k, m>> \in OpToRel(<, Nat))
  BY NatLessThanWellFounded, WFMin
<1>2. \A k \in S : ~ (k < m)
  BY <1>1 DEF OpToRel
<1> QED  BY <1>2

-----------------------------------------------------------------------------
(* Folds over the subsets of a finite set.                                 *)

Pick(s) == CHOOSE x \in s : TRUE

LEMMA PickIn == \A s : s # {} => Pick(s) \in s
  BY DEF Pick

\* What a set of subsets has to hold to hold all of them.
LEMMA AllSubsets ==
    ASSUME NEW S, IsFiniteSet(S), NEW Good, {} \in Good,
           \A s \in SUBSET S : s # {} /\ s \ {Pick(s)} \in Good => s \in Good
    PROVE  SUBSET S \subseteq Good
<1> DEFINE Bad == {n \in Nat : \E s \in SUBSET S : Cardinality(s) = n /\ s \notin Good}
<1>1. Bad = {}
  <2> SUFFICES ASSUME Bad # {} PROVE FALSE
    OBVIOUS
  <2>1. PICK n \in Bad : \A m \in Bad : n <= m
    BY Least
  <2>2. PICK s \in SUBSET S : Cardinality(s) = n /\ s \notin Good
    OBVIOUS
  <2>3. s # {} /\ Pick(s) \in s
    BY <2>2, PickIn
  <2> DEFINE t == s \ {Pick(s)}
  <2>4. t \in SUBSET S /\ Cardinality(t) = n - 1 /\ Cardinality(t) \in Nat
    <3>1. IsFiniteSet(s)
      BY FS_Subset
    <3>2. IsFiniteSet(t) /\ Cardinality(t) = Cardinality(s) - 1
      BY <3>1, <2>3, FS_RemoveElement
    <3> QED  BY <3>1, <3>2, <2>2, FS_CardinalityType
  <2>5. t \notin Good
    BY <2>2, <2>3
  <2> HIDE DEF t
  <2>6. n - 1 \in Bad
    BY <2>4, <2>5
  <2> QED  BY <2>1, <2>6
<1>2. \A s \in SUBSET S : Cardinality(s) \in Nat
  BY FS_Subset, FS_CardinalityType
<1> QED  BY <1>1, <1>2

\* A function on the subsets that follows the recursion of a fold up to n elements.
FoldsUpTo(it, S, V, base, op, f, n) ==
    /\ it \in [SUBSET S -> V] /\ it[{}] = base
    /\ \A s \in SUBSET S : s # {} /\ Cardinality(s) <= n => it[s] = op[<<f[Pick(s)], it[s \ {Pick(s)}]>>]

IsFold(it, S, V, base, op, f) ==
    /\ it \in [SUBSET S -> V] /\ it[{}] = base
    /\ \A s \in SUBSET S : s # {} => it[s] = op[<<f[Pick(s)], it[s \ {Pick(s)}]>>]

LEMMA FoldExists ==
    ASSUME NEW S, IsFiniteSet(S), NEW V, NEW base \in V, NEW X, NEW f,
           \A x \in S : f[x] \in X, NEW op \in [X \X V -> V]
    PROVE  \E it : IsFold(it, S, V, base, op, f)
<1> DEFINE F(it, n) == FoldsUpTo(it, S, V, base, op, f, n)
           Bad == {n \in Nat : ~ \E it : F(it, n)}
<1>0. \A s \in SUBSET S : IsFiniteSet(s) /\ Cardinality(s) \in Nat /\ (s # {} => Cardinality(s) # 0)
  BY FS_Subset, FS_CardinalityType, FS_EmptySet
<1>1. Bad = {}
  <2> SUFFICES ASSUME Bad # {} PROVE FALSE
    OBVIOUS
  <2>1. PICK n \in Bad : \A m \in Bad : n <= m
    BY Least
  <2>2. n # 0
    <3> DEFINE zero == [s \in SUBSET S |-> base]
    <3>1. F(zero, 0)
      BY <1>0 DEF FoldsUpTo
    <3> QED  BY <3>1
  <2>3. PICK g : F(g, n - 1)
    BY <2>1, <2>2
  <2> DEFINE val(s) == op[<<f[Pick(s)], g[s \ {Pick(s)}]>>]
             h == [s \in SUBSET S |-> IF s # {} THEN val(s) ELSE base]
  <2>4. g \in [SUBSET S -> V] /\ g[{}] = base
    BY <2>3 DEF FoldsUpTo
  <2>5. ASSUME NEW s \in SUBSET S, s # {}
        PROVE  val(s) \in V
    <3>1. f[Pick(s)] \in X /\ g[s \ {Pick(s)}] \in V
      BY <2>4, <2>5, PickIn
    <3> QED  BY <3>1
  <2>6. h \in [SUBSET S -> V] /\ h[{}] = base
    <3> HIDE DEF val
    <3> QED  BY <2>5
  <2>7. ASSUME NEW s \in SUBSET S, s # {}, Cardinality(s) <= n
        PROVE  h[s] = op[<<f[Pick(s)], h[s \ {Pick(s)}]>>]
    <3> DEFINE t == s \ {Pick(s)}
    <3>1. t \in SUBSET S /\ Cardinality(t) <= n - 1
      <4>1. Pick(s) \in s /\ IsFiniteSet(s)
        BY <1>0, <2>7, PickIn
      <4>2. Cardinality(t) = Cardinality(s) - 1
        BY <4>1, FS_RemoveElement
      <4> HIDE DEF t
      <4>3. Cardinality(s) \in Nat
        BY <1>0
      <4> QED  BY <4>2, <4>3, <2>7 DEF t
    <3>2. h[t] = g[t]
      <4>1. CASE t = {}
        BY <4>1, <2>4, <2>6
      <4>2. CASE t # {}
        <5>1. g[t] = val(t)
          BY <3>1, <4>2, <2>3 DEF FoldsUpTo
        <5>2. h[t] = val(t)
          BY <3>1, <4>2
        <5> QED  BY <5>1, <5>2
      <4> QED  BY <4>1, <4>2
    <3>3. h[s] = op[<<f[Pick(s)], g[t]>>]
      BY <2>7
    <3> QED  BY <3>2, <3>3
  <2>8. F(h, n)
    <3> HIDE DEF h
    <3> QED  BY <2>6, <2>7 DEF FoldsUpTo
  <2> HIDE DEF F, h
  <2> QED  BY <2>8
<1>2. Cardinality(S) \in Nat
  BY <1>0
<1>3. PICK it : F(it, Cardinality(S))
  BY <1>1, <1>2
<1>4. \A s \in SUBSET S : Cardinality(s) <= Cardinality(S)
  BY FS_Subset
<1> QED  BY <1>3, <1>4 DEF FoldsUpTo, IsFold

-----------------------------------------------------------------------------
(* Sums of integers.                                                       *)

\* SumFunction adds up one value after the other.
LEMMA SumRecursion ==
    ASSUME NEW f, IsFiniteSet(DOMAIN f), \A x \in DOMAIN f : f[x] \in Int
    PROVE  \E it \in [SUBSET DOMAIN f -> Int] :
              /\ it[{}] = 0 /\ SumFunction(f) = it[DOMAIN f]
              /\ \A s \in SUBSET DOMAIN f : s # {} => it[s] = f[Pick(s)] + it[s \ {Pick(s)}]
<1> DEFINE S == DOMAIN f
           Folds(it) == it = [s \in SUBSET S |-> IF s = {} THEN 0 ELSE f[Pick(s)] + it[s \ {Pick(s)}]]
           fold == CHOOSE it : Folds(it)
           op == [p \in Int \X Int |-> p[1] + p[2]]
<1>1. SumFunction(f) = fold[S]
  BY DEF SumFunction, SumFunctionOnSet, FoldFunctionOnSet, MapThenFoldSet, Pick
<1>2. PICK it : IsFold(it, S, Int, 0, op, f)
  <2>1. op \in [Int \X Int -> Int]
    OBVIOUS
  <2>2. IsFiniteSet(S) /\ 0 \in Int /\ \A x \in S : f[x] \in Int
    OBVIOUS
  <2> HIDE DEF op, S
  <2> QED  BY <2>1, <2>2, FoldExists
<1>3. ASSUME NEW s \in SUBSET S, s # {}
      PROVE  it[s] = f[Pick(s)] + it[s \ {Pick(s)}]
  <2>1. f[Pick(s)] \in Int /\ it[s \ {Pick(s)}] \in Int
    BY <1>2, <1>3, PickIn DEF IsFold
  <2> QED  BY <1>2, <1>3, <2>1 DEF IsFold
<1>4. Folds(it)
  <2> HIDE DEF S
  <2> QED  BY <1>2, <1>3 DEF IsFold
<1>5. Folds(fold)
  <2> HIDE DEF Folds
  <2> QED  BY <1>4
<1> HIDE DEF fold
<1>6. /\ \A s \in SUBSET S : fold[s] = IF s = {} THEN 0 ELSE f[Pick(s)] + fold[s \ {Pick(s)}]
      /\ fold = [s \in SUBSET S |-> fold[s]]
  BY <1>5
<1> DEFINE Good == {s \in SUBSET S : fold[s] \in Int}
<1>7. SUBSET S \subseteq Good
  <2>1. {} \in Good
    <3>1. {} \in SUBSET S /\ fold[{}] = 0
      BY <1>6
    <3> QED  BY <3>1
  <2>2. ASSUME NEW s \in SUBSET S, s # {}, s \ {Pick(s)} \in Good
        PROVE  s \in Good
    <3>1. f[Pick(s)] \in Int
      BY <2>2, PickIn
    <3>2. fold[s] = f[Pick(s)] + fold[s \ {Pick(s)}]
      BY <1>6, <2>2
    <3>3. fold[s \ {Pick(s)}] \in Int
      BY <2>2
    <3>4. fold[s] \in Int
      BY <3>1, <3>2, <3>3
    <3> QED  BY <3>4
  <2> HIDE DEF Good
  <2> QED  BY <2>1, <2>2, AllSubsets
<1>8. fold \in [SUBSET S -> Int]
  BY <1>6, <1>7
<1> HIDE DEF S
<1>9. fold[{}] = 0 /\ \A s \in SUBSET S : s # {} => fold[s] = f[Pick(s)] + fold[s \ {Pick(s)}]
  BY <1>6
<1> QED  BY <1>1, <1>8, <1>9 DEF S

LEMMA SumIsInt ==
    ASSUME NEW f, IsFiniteSet(DOMAIN f), \A x \in DOMAIN f : f[x] \in Int
    PROVE  SumFunction(f) \in Int
<1>1. PICK it \in [SUBSET DOMAIN f -> Int] :
         /\ it[{}] = 0 /\ SumFunction(f) = it[DOMAIN f]
         /\ \A s \in SUBSET DOMAIN f : s # {} => it[s] = f[Pick(s)] + it[s \ {Pick(s)}]
  BY SumRecursion
<1>2. it[DOMAIN f] \in Int
  OBVIOUS
<1> QED  BY <1>1, <1>2

\* A sum of one value.
LEMMA SumOfOne ==
    ASSUME NEW f, DOMAIN f = 1 .. 1, f[1] \in Int
    PROVE  SumFunction(f) = f[1]
<1>1. 1 .. 1 = {1} /\ IsFiniteSet({1})
  <2>1. 1 .. 1 = {1}
    OBVIOUS
  <2> QED  BY <2>1, FS_Singleton
<1>0. DOMAIN f = {1} /\ IsFiniteSet(DOMAIN f) /\ \A x \in DOMAIN f : f[x] \in Int
  BY <1>1
<1>2. PICK it \in [SUBSET DOMAIN f -> Int] :
         /\ it[{}] = 0 /\ SumFunction(f) = it[DOMAIN f]
         /\ \A s \in SUBSET DOMAIN f : s # {} => it[s] = f[Pick(s)] + it[s \ {Pick(s)}]
  BY <1>0, SumRecursion
<1>3. Pick({1}) = 1
  BY PickIn
<1>4. {1} \ {Pick({1})} = {}
  BY <1>3
<1>5. it[{1}] = f[1] + it[{}]
  BY <1>0, <1>2, <1>3, <1>4
<1> QED  BY <1>0, <1>2, <1>5

\* A sum in which one value changes.
LEMMA SumChanges ==
    ASSUME NEW f, NEW g, IsFiniteSet(DOMAIN f), DOMAIN g = DOMAIN f, NEW x \in DOMAIN f,
           \A y \in DOMAIN f : f[y] \in Int /\ g[y] \in Int,
           \A y \in DOMAIN f : y # x => g[y] = f[y]
    PROVE  SumFunction(g) = SumFunction(f) + (g[x] - f[x])
<1> DEFINE S == DOMAIN f
           d == g[x] - f[x]
<1>1. PICK a \in [SUBSET S -> Int] :
         /\ a[{}] = 0 /\ SumFunction(f) = a[S]
         /\ \A s \in SUBSET S : s # {} => a[s] = f[Pick(s)] + a[s \ {Pick(s)}]
  BY SumRecursion
<1>2. PICK b \in [SUBSET S -> Int] :
         /\ b[{}] = 0 /\ SumFunction(g) = b[S]
         /\ \A s \in SUBSET S : s # {} => b[s] = g[Pick(s)] + b[s \ {Pick(s)}]
  <2>1. S = DOMAIN g /\ IsFiniteSet(DOMAIN g) /\ \A y \in DOMAIN g : g[y] \in Int
    OBVIOUS
  <2>2. \E b \in [SUBSET DOMAIN g -> Int] :
            /\ b[{}] = 0 /\ SumFunction(g) = b[DOMAIN g]
            /\ \A s \in SUBSET DOMAIN g : s # {} => b[s] = g[Pick(s)] + b[s \ {Pick(s)}]
    BY <2>1, SumRecursion
  <2> HIDE DEF S
  <2> QED  BY <2>1, <2>2
<1> DEFINE Good == {s \in SUBSET S : b[s] = a[s] + IF x \in s THEN d ELSE 0}
<1>3. {} \in Good
  BY <1>1, <1>2
<1>4. ASSUME NEW s \in SUBSET S, s # {}, s \ {Pick(s)} \in Good
      PROVE  s \in Good
  <2> DEFINE y == Pick(s)
             t == s \ {y}
  <2>1. y \in s /\ y \in S /\ t \in SUBSET S
    BY <1>4, PickIn
  <2>2. a[s] = f[y] + a[t] /\ b[s] = g[y] + b[t] /\ a[t] \in Int /\ b[t] \in Int
    BY <1>1, <1>2, <1>4, <2>1
  <2>3. b[t] = a[t] + IF x \in t THEN d ELSE 0
    BY <1>4
  <2>4. f[y] \in Int /\ g[y] \in Int /\ f[x] \in Int /\ g[x] \in Int
    BY <2>1
  <2>5. CASE y = x
    <3>1. x \notin t /\ x \in s
      BY <2>1, <2>5
    <3> HIDE DEF y, t, S
    <3>2. b[s] = a[s] + d
      BY <2>2, <2>3, <2>4, <2>5, <3>1
    <3> QED  BY <3>1, <3>2
  <2>6. CASE y # x
    <3>1. g[y] = f[y] /\ (x \in t <=> x \in s)
      BY <2>1, <2>6
    <3> HIDE DEF y, t, S
    <3>2. b[s] = a[s] + IF x \in s THEN d ELSE 0
      BY <2>2, <2>3, <2>4, <3>1
    <3> QED  BY <3>2
  <2> QED  BY <2>5, <2>6
<1>5. SUBSET S \subseteq Good
  <2> HIDE DEF Good
  <2> QED  BY <1>3, <1>4, AllSubsets
<1>6. b[S] = a[S] + d
  BY <1>5
<1> QED  BY <1>1, <1>2, <1>6

-----------------------------------------------------------------------------
(* Quotients.                                                              *)

Divides(d, a) == \E k \in Nat : a = d * k
CommonDivisors(a, b) == {d \in Nat : Divides(d, a) /\ Divides(d, b)}

\* The recursion of the greatest common divisor.
IsGcd(g) == g = [p \in Nat \X Nat |-> IF p[2] = 0 THEN p[1] ELSE g[<<p[2], p[1] % p[2]>>]]

LEMMA DivisorsOfRest ==
    ASSUME NEW a \in Nat, NEW b \in Nat \ {0}
    PROVE  a % b \in Nat /\ a % b < b /\ CommonDivisors(a, b) = CommonDivisors(b, a % b)
<1> DEFINE q == a \div b
           r == a % b
<1>1. q \in Nat /\ r \in Nat /\ r < b /\ a = b * q + r
  OBVIOUS
<1> HIDE DEF q, r
<1>2. ASSUME NEW d \in Nat, Divides(d, a), Divides(d, b)
      PROVE  Divides(d, r)
  <2>1. PICK k \in Nat : a = d * k
    BY <1>2 DEF Divides
  <2>2. PICK l \in Nat : b = d * l
    BY <1>2 DEF Divides
  <2>3. d * (k - l * q) = r
    <3>1. d * (k - l * q) = d * k - (d * l) * q
      BY <1>1
    <3>2. (d * l) * q = b * q
      BY <2>2
    <3> QED  BY <1>1, <2>1, <3>1, <3>2
  <2>4. k - l * q \in Int
    BY <1>1
  <2>5. CASE k - l * q >= 0
    BY <2>3, <2>4, <2>5 DEF Divides
  <2>6. CASE k - l * q < 0
    <3> DEFINE m == k - l * q
    <3>1. m \in Int /\ m < 0 /\ d * m = r
      BY <2>3, <2>4, <2>6
    <3> HIDE DEF m
    <3>2. d * m <= 0
      BY <3>1
    <3>3. r = 0 /\ d * 0 = 0
      BY <1>1, <3>1, <3>2
    <3> QED  BY <3>3 DEF Divides
  <2> QED  BY <2>4, <2>5, <2>6
<1>3. ASSUME NEW d \in Nat, Divides(d, b), Divides(d, r)
      PROVE  Divides(d, a)
  <2>1. PICK l \in Nat : b = d * l
    BY <1>3 DEF Divides
  <2>2. PICK k \in Nat : r = d * k
    BY <1>3 DEF Divides
  <2>3. d * (l * q + k) = (d * l) * q + d * k /\ l * q + k \in Nat
    BY <1>1
  <2>4. a = d * (l * q + k)
    BY <1>1, <2>1, <2>2, <2>3
  <2> QED  BY <2>3, <2>4 DEF Divides
<1>4. CommonDivisors(a, b) = CommonDivisors(b, r)
  BY <1>2, <1>3 DEF CommonDivisors
<1> QED  BY <1>1, <1>4 DEF r

LEMMA GcdExists == \E g : IsGcd(g)
<1> DEFINE Top(a, b) == CHOOSE d \in CommonDivisors(a, b) : \A e \in CommonDivisors(a, b) : e <= d
           val(a, b) == IF b = 0 THEN a ELSE Top(a, b)
           g == [p \in Nat \X Nat |-> val(p[1], p[2])]
<1>1. ASSUME NEW a \in Nat \ {0}
      PROVE  Top(a, 0) = a
  <2> DEFINE S == CommonDivisors(a, 0)
  <2>1. a \in S
    <3>1. a = a * 1 /\ 0 = a * 0
      OBVIOUS
    <3> QED  BY <3>1 DEF CommonDivisors, Divides
  <2>2. ASSUME NEW e \in S PROVE e <= a /\ e \in Nat
    <3>1. PICK k \in Nat : a = e * k
      BY DEF CommonDivisors, Divides
    <3>2. e \in Nat
      BY DEF CommonDivisors
    <3>3. k # 0
      BY <3>1, <3>2
    <3> QED  BY <3>1, <3>2, <3>3
  <2> HIDE DEF S
  <2>3. \A d \in S : (\A e \in S : e <= d) <=> d = a
    BY <2>1, <2>2
  <2>4. Top(a, 0) = CHOOSE d \in S : \A e \in S : e <= d
    BY DEF S
  <2> HIDE DEF Top
  <2> QED  BY <2>1, <2>3, <2>4
<1>2. ASSUME NEW a \in Nat, NEW b \in Nat \ {0}
      PROVE  val(a, b) = val(b, a % b)
  <2>1. a % b \in Nat /\ CommonDivisors(a, b) = CommonDivisors(b, a % b)
    BY DivisorsOfRest
  <2>2. val(a, b) = Top(a, b) /\ Top(a, b) = Top(b, a % b)
    BY <2>1
  <2> HIDE DEF Top
  <2>3. val(b, a % b) = Top(b, a % b)
    BY <1>1, <2>1
  <2> QED  BY <2>2, <2>3
<1>3. ASSUME NEW p \in Nat \X Nat
      PROVE  g[p] = IF p[2] = 0 THEN p[1] ELSE g[<<p[2], p[1] % p[2]>>]
  <2> DEFINE a == p[1]
             b == p[2]
  <2>1. a \in Nat /\ b \in Nat
    OBVIOUS
  <2> HIDE DEF Top, a, b
  <2>2. g[p] = val(a, b)
    BY DEF a, b
  <2>3. CASE b = 0
    BY <2>2, <2>3 DEF a, b
  <2>4. CASE b # 0
    <3>1. a % b \in Nat
      BY <2>1, <2>4, DivisorsOfRest
    <3>2. g[<<b, a % b>>] = val(b, a % b)
      BY <2>1, <3>1
    <3>3. val(a, b) = val(b, a % b)
      BY <1>2, <2>1, <2>4
    <3> HIDE DEF val, g
    <3> QED  BY <2>2, <2>4, <3>2, <3>3 DEF a, b
  <2> QED  BY <2>3, <2>4
<1>4. g = [p \in Nat \X Nat |-> g[p]]
  OBVIOUS
<1> HIDE DEF g
<1>5. IsGcd(g)
  BY <1>3, <1>4 DEF IsGcd
<1> QED  BY <1>5

LEMMA GcdIs ==
    ASSUME NEW a \in Nat, NEW b \in Nat
    PROVE  Gcd[<<a, b>>] = IF b = 0 THEN a ELSE Gcd[<<b, a % b>>]
<1>1. Gcd = CHOOSE g : IsGcd(g)
  BY DEF Gcd, IsGcd
<1>2. IsGcd(Gcd)
  BY <1>1, GcdExists
<1> QED  BY <1>2 DEF IsGcd

\* It divides both, and is zero for two zeros only.
LEMMA GcdFacts ==
    ASSUME NEW a \in Nat, NEW b \in Nat
    PROVE  /\ Gcd[<<a, b>>] \in CommonDivisors(a, b)
           /\ a # 0 \/ b # 0 => Gcd[<<a, b>>] # 0
<1> DEFINE P(m, n) == /\ Gcd[<<m, n>>] \in CommonDivisors(m, n)
                      /\ m # 0 \/ n # 0 => Gcd[<<m, n>>] # 0
           Bad == {n \in Nat : \E m \in Nat : ~ P(m, n)}
<1>1. Bad = {}
  <2> SUFFICES ASSUME Bad # {} PROVE FALSE
    OBVIOUS
  <2>1. PICK n \in Bad : \A k \in Bad : n <= k
    BY Least
  <2>2. PICK m \in Nat : ~ P(m, n)
    OBVIOUS
  <2>3. CASE n = 0
    <3>1. Gcd[<<m, 0>>] = m
      BY GcdIs
    <3>2. m = m * 1 /\ 0 = m * 0
      OBVIOUS
    <3>3. P(m, 0)
      BY <3>1, <3>2 DEF CommonDivisors, Divides
    <3> QED  BY <2>2, <2>3, <3>3
  <2>4. CASE n # 0
    <3>1. m % n \in Nat /\ m % n < n /\ CommonDivisors(m, n) = CommonDivisors(n, m % n)
      BY <2>4, DivisorsOfRest
    <3>2. Gcd[<<m, n>>] = Gcd[<<n, m % n>>]
      BY <2>4, GcdIs
    <3>3. ~ P(n, m % n)
      BY <2>2, <2>4, <3>1, <3>2
    <3>4. m % n \in Bad
      BY <3>1, <3>3
    <3> QED  BY <2>1, <3>1, <3>4
  <2> QED  BY <2>3, <2>4
<1> QED  BY <1>1

\* A product with a factor that is not negative, and how a factor is cancelled.
LEMMA Products ==
    /\ \A a \in Int, b \in Int : a * b \in Int
    /\ \A a \in Nat \ {0}, b \in Nat \ {0} : a * b \in Nat \ {0}
    /\ \A a \in Int, b \in Nat \ {0} : (a * b > 0 <=> a > 0) /\ (a * b = 0 <=> a = 0)
  OBVIOUS

LEMMA Quotient ==
    ASSUME NEW k \in Int, NEW g \in Nat \ {0}
    PROVE  (g * k) \div g = k
  OBVIOUS

\* A number reduced: a numerator and a denominator are divided by the same number.
LEMMA ReducedFacts ==
    ASSUME NEW n \in Int, NEW d \in Int \ {0}
    PROVE  \E g \in Nat \ {0}, k \in Int, m \in Nat \ {0} :
              /\ Reduced(n, d) = <<k, m>>
              /\ n = (IF d < 0 THEN -(g * k) ELSE g * k) /\ d = (IF d < 0 THEN -(g * m) ELSE g * m)
<1> DEFINE s == IF d < 0 THEN -1 ELSE 1
           a == Abs(n)
           b == Abs(d)
           g == Gcd[<<a, b>>]
<1>1. a \in Nat /\ (n = a \/ n = -a)
  BY DEF Abs
<1>2. b \in Nat \ {0} /\ s * d = b /\ d = IF d < 0 THEN -b ELSE b
  BY DEF Abs
<1>3. Reduced(n, d) = <<(s * n) \div g, (s * d) \div g>>
  BY DEF Reduced
<1>4. s * n \in Int /\ n = (IF d < 0 THEN -(s * n) ELSE s * n) /\ (s * n = a \/ s * n = -a)
  BY <1>1
<1> HIDE DEF a, b, s
<1>5. g \in CommonDivisors(a, b) /\ g # 0
  BY <1>1, <1>2, GcdFacts
<1> HIDE DEF g
<1>6. g \in Nat \ {0} /\ (\E i \in Nat : a = g * i) /\ \E i \in Nat : b = g * i
  BY <1>5 DEF CommonDivisors, Divides
<1>7. PICK i \in Nat : a = g * i
  BY <1>6
<1>8. PICK m \in Nat : b = g * m
  BY <1>6
<1>9. m # 0
  BY <1>2, <1>6, <1>8
<1>10. PICK k \in Int : s * n = g * k
  <2>1. g * (-i) = -(g * i)
    BY <1>6
  <2>2. i \in Int /\ -i \in Int
    OBVIOUS
  <2> QED  BY <1>4, <1>7, <2>1, <2>2
<1>11. (s * n) \div g = k
  BY <1>6, <1>10, Quotient
<1>12. (s * d) \div g = m
  <2>1. s * d = g * m /\ m \in Int
    BY <1>2, <1>8
  <2> QED  BY <1>6, <2>1, Quotient
<1> QED  BY <1>2, <1>3, <1>4, <1>6, <1>8, <1>9, <1>10, <1>11, <1>12

\* A quotient, and the sign of its numerator over a positive denominator.
LEMMA ReducedSign ==
    ASSUME NEW n \in Int, NEW d \in Nat \ {0}
    PROVE  /\ Reduced(n, d) \in Rationals
           /\ Reduced(n, d)[1] > 0 <=> n > 0
           /\ Reduced(n, d)[1] = 0 <=> n = 0
           /\ Reduced(n, d)[1] * d = n * Reduced(n, d)[2]
<1>1. d \in Int \ {0} /\ ~ (d < 0)
  OBVIOUS
<1>2. PICK g \in Nat \ {0}, k \in Int, m \in Nat \ {0} :
         /\ Reduced(n, d) = <<k, m>>
         /\ n = (IF d < 0 THEN -(g * k) ELSE g * k) /\ d = (IF d < 0 THEN -(g * m) ELSE g * m)
  BY <1>1, ReducedFacts
<1>3. Reduced(n, d) = <<k, m>> /\ n = g * k /\ d = g * m
  BY <1>1, <1>2
<1>4. (n > 0 <=> k > 0) /\ (n = 0 <=> k = 0)
  BY <1>3
<1>5. k * d = n * m
  <2>1. k * (g * m) = (g * k) * m
    OBVIOUS
  <2> QED  BY <1>3, <2>1
<1>6. Reduced(n, d) \in Rationals /\ Reduced(n, d)[1] = k /\ Reduced(n, d)[2] = m
  <2>1. <<k, m>> \in Int \X (Nat \ {0}) /\ <<k, m>>[1] = k /\ <<k, m>>[2] = m
    OBVIOUS
  <2> QED  BY <1>3, <2>1, Zenon DEF Rationals
<1> QED  BY <1>4, <1>5, <1>6

LEMMA ReducedIsRational ==
    ASSUME NEW n \in Int, NEW d \in Int \ {0}
    PROVE  Reduced(n, d) \in Rationals
<1>1. PICK g \in Nat \ {0}, k \in Int, m \in Nat \ {0} :
         /\ Reduced(n, d) = <<k, m>>
         /\ n = (IF d < 0 THEN -(g * k) ELSE g * k) /\ d = (IF d < 0 THEN -(g * m) ELSE g * m)
  BY ReducedFacts
<1>2. <<k, m>> \in Int \X (Nat \ {0})
  OBVIOUS
<1> QED  BY <1>1, <1>2, Zenon DEF Rationals

\* What is known of a quotient.
LEMMA RationalFacts ==
    ASSUME NEW a \in Rationals
    PROVE  a[1] \in Int /\ a[2] \in Nat \ {0} /\ a = <<a[1], a[2]>>
  BY DEF Rationals

LEMMA Wholes ==
    /\ \A n \in Int : Whole(n) \in Rationals /\ Whole(n)[1] = n /\ Whole(n)[2] = 1
    /\ Zero \in Rationals /\ Zero[1] = 0 /\ Zero[2] = 1
    /\ One \in Rationals /\ One[1] = 1 /\ One[2] = 1
  BY DEF Whole, Zero, One, Rationals

\* Arithmetic on quotients yields quotients.
LEMMA Arithmetic ==
    ASSUME NEW a \in Rationals, NEW b \in Rationals
    PROVE  /\ a ++ b \in Rationals /\ a -- b \in Rationals /\ a ** b \in Rationals
           /\ Minus(a) \in Rationals
           /\ b[1] # 0 => a // b \in Rationals
           /\ Greater(a, b) \in Rationals /\ Lesser(a, b) \in Rationals
<1> DEFINE Arguments(n, d) == n \in Int /\ d \in Nat \ {0}
<1>1. \A x \in Rationals : x[1] \in Int /\ x[2] \in Nat \ {0}
  BY RationalFacts
<1>2. ASSUME NEW x \in Rationals, NEW y \in Rationals
      PROVE  x ++ y \in Rationals /\ x ** y \in Rationals
  <2>1. x[1] \in Int /\ x[2] \in Nat \ {0} /\ y[1] \in Int /\ y[2] \in Nat \ {0}
    BY <1>1
  <2>2. x[1] + y[1] \in Int /\ x[1] * y[2] + y[1] * x[2] \in Int /\ x[2] * y[2] \in Nat \ {0}
        /\ x[1] * y[1] \in Int
    BY <2>1, Products
  <2>3. Reduced(x[1] + y[1], x[2]) \in Rationals
        /\ Reduced(x[1] * y[2] + y[1] * x[2], x[2] * y[2]) \in Rationals
        /\ Reduced(x[1] * y[1], x[2] * y[2]) \in Rationals
    BY <2>1, <2>2, ReducedSign
  <2> QED  BY <2>3 DEF ++, **
<1>3. \A x \in Rationals : Minus(x) \in Rationals
  BY <1>1 DEF Minus, Rationals
<1>4. a -- b \in Rationals
  BY <1>2, <1>3 DEF --
<1>5. ASSUME b[1] # 0
      PROVE  a // b \in Rationals
  <2>1. a[1] * b[2] \in Int /\ a[2] * b[1] \in Int \ {0}
    BY <1>1, <1>5
  <2> QED  BY <2>1, ReducedIsRational DEF //
<1> QED  BY <1>2, <1>3, <1>4, <1>5 DEF Greater, Lesser

\* A quotient that is not negative, and one that is not positive.
LEMMA Signs ==
    ASSUME NEW a \in Rationals
    PROVE  /\ AtMost(Zero, a) <=> a[1] >= 0
           /\ AtMost(a, Zero) <=> a[1] <= 0
           /\ Below(Zero, a) <=> a[1] > 0
  BY RationalFacts, Wholes DEF AtMost, Below

\* What a sum is worth, over a common denominator.
LEMMA SumValue ==
    ASSUME NEW a \in Rationals, NEW b \in Rationals
    PROVE  /\ (a ++ b)[1] * (a[2] * b[2]) = (a[1] * b[2] + b[1] * a[2]) * (a ++ b)[2]
           /\ (a ++ b)[1] > 0 <=> a[1] * b[2] + b[1] * a[2] > 0
           /\ (a ++ b)[1] = 0 <=> a[1] * b[2] + b[1] * a[2] = 0
<1>1. a[1] \in Int /\ a[2] \in Nat \ {0} /\ b[1] \in Int /\ b[2] \in Nat \ {0}
  BY RationalFacts
<1> DEFINE n == a[1] * b[2] + b[1] * a[2]
           d == a[2] * b[2]
<1>2. n \in Int /\ d \in Nat \ {0}
  BY <1>1, Products
<1>3. CASE a[2] = b[2]
  <2> DEFINE m == a[1] + b[1]
             r == Reduced(m, a[2])
  <2>1. a ++ b = r
    BY <1>3 DEF ++
  <2>2. m \in Int /\ n = m * a[2] /\ d = a[2] * a[2]
    BY <1>1, <1>3
  <2>3. r \in Rationals /\ (r[1] > 0 <=> m > 0) /\ (r[1] = 0 <=> m = 0) /\ r[1] * a[2] = m * r[2]
    BY <1>1, <2>2, ReducedSign
  <2>4. r[1] \in Int /\ r[2] \in Int
    BY <2>3, RationalFacts
  <2> HIDE DEF r, m, n, d
  <2>5. (n > 0 <=> m > 0) /\ (n = 0 <=> m = 0)
    BY <1>1, <2>2, Products
  <2>6. r[1] * d = n * r[2]
    <3>1. r[1] * (a[2] * a[2]) = (r[1] * a[2]) * a[2] /\ (m * r[2]) * a[2] = (m * a[2]) * r[2]
      BY <1>1, <2>2, <2>4
    <3> QED  BY <2>2, <2>3, <3>1
  <2> QED  BY <2>1, <2>3, <2>5, <2>6 DEF n, d
<1>4. CASE a[2] # b[2]
  <2>1. a ++ b = Reduced(n, d)
    BY <1>4 DEF ++
  <2> HIDE DEF n, d
  <2>2. (a ++ b)[1] * d = n * (a ++ b)[2] /\ ((a ++ b)[1] > 0 <=> n > 0) /\ ((a ++ b)[1] = 0 <=> n = 0)
    BY <1>2, <2>1, ReducedSign
  <2> QED  BY <2>2 DEF n, d
<1> QED  BY <1>3, <1>4

\* The sign of a sum.
LEMMA SumSign ==
    ASSUME NEW a \in Rationals, NEW b \in Rationals
    PROVE  /\ a[1] >= 0 /\ b[1] >= 0 => (a ++ b)[1] >= 0
           /\ a[1] <= 0 /\ b[1] <= 0 => (a ++ b)[1] <= 0
           /\ a[1] > 0 /\ b[1] >= 0 => (a ++ b)[1] > 0
           /\ a[1] >= 0 /\ b[1] > 0 => (a ++ b)[1] > 0
<1>1. a[1] \in Int /\ a[2] \in Nat \ {0} /\ b[1] \in Int /\ b[2] \in Nat \ {0}
  BY RationalFacts
<1>2. (a ++ b)[1] \in Int
  BY Arithmetic, RationalFacts
<1> DEFINE p == a[1] * b[2]
           q == b[1] * a[2]
<1>3. /\ p \in Int /\ (p > 0 <=> a[1] > 0) /\ (p = 0 <=> a[1] = 0)
      /\ q \in Int /\ (q > 0 <=> b[1] > 0) /\ (q = 0 <=> b[1] = 0)
  BY <1>1, Products
<1>4. ((a ++ b)[1] > 0 <=> p + q > 0) /\ ((a ++ b)[1] = 0 <=> p + q = 0)
  BY SumValue
<1> HIDE DEF p, q
<1> QED  BY <1>1, <1>2, <1>3, <1>4

\* A sum with a term that is not positive is at most the other, and vice versa.
LEMMA SumAtMost ==
    ASSUME NEW a \in Rationals, NEW b \in Rationals
    PROVE  /\ b[1] <= 0 => AtMost(a ++ b, a)
           /\ b[1] >= 0 => AtMost(a, a ++ b)
<1> DEFINE c == a ++ b
           n == a[1] * b[2] + b[1] * a[2]
           d == a[2] * b[2]
<1>1. /\ a[1] \in Int /\ a[2] \in Nat \ {0} /\ b[1] \in Int /\ b[2] \in Nat \ {0}
      /\ c[1] \in Int /\ c[2] \in Nat \ {0}
  BY Arithmetic, RationalFacts
<1>2. c[1] * d = n * c[2]
  BY SumValue
<1>3. n \in Int /\ d \in Nat \ {0}
  BY <1>1, Products
<1> DEFINE x == c[1] * a[2]
           y == a[1] * c[2]
           z == b[1] * c[2]
<1>4. x \in Int /\ y \in Int /\ z \in Int /\ (z > 0 <=> b[1] > 0) /\ (z = 0 <=> b[1] = 0)
  <2> HIDE DEF c
  <2> QED  BY <1>1, Products
\* x * b[2] = y * b[2] + z * a[2]
<1>5. (x - y) * b[2] = z * a[2]
  <2>1. c[1] * (a[2] * b[2]) = (a[1] * b[2] + b[1] * a[2]) * c[2]
    BY <1>2
  <2> HIDE DEF c
  <2>2. c[1] * (a[2] * b[2]) = (c[1] * a[2]) * b[2]
    BY <1>1
  <2>3. (a[1] * b[2] + b[1] * a[2]) * c[2] = (a[1] * c[2]) * b[2] + (b[1] * c[2]) * a[2]
    BY <1>1
  <2>4. (x - y) * b[2] = x * b[2] - y * b[2]
    BY <1>1, <1>4
  <2> QED  BY <1>1, <1>4, <2>1, <2>2, <2>3, <2>4
<1> HIDE DEF c, n, d, x, y, z
<1>6. (x - y > 0 <=> z > 0) /\ (x - y = 0 <=> z = 0)
  <2>1. ((x - y) * b[2] > 0 <=> x - y > 0) /\ ((x - y) * b[2] = 0 <=> x - y = 0)
    BY <1>1, <1>4, Products
  <2>2. (z * a[2] > 0 <=> z > 0) /\ (z * a[2] = 0 <=> z = 0)
    BY <1>1, <1>4, Products
  <2> QED  BY <1>5, <2>1, <2>2
<1>7. (b[1] <= 0 => x <= y) /\ (b[1] >= 0 => y <= x)
  BY <1>1, <1>4, <1>6
<1> QED  BY <1>4, <1>7 DEF AtMost, Below, c, x, y

\* The order of quotients.
LEMMA AtMostOrder ==
    ASSUME NEW a \in Rationals, NEW b \in Rationals
    PROVE  /\ AtMost(a, a)
           /\ AtMost(a, b) \/ AtMost(b, a)
           /\ AtMost(Lesser(a, b), a) /\ AtMost(Lesser(a, b), b)
           /\ AtMost(a, Greater(a, b)) /\ AtMost(b, Greater(a, b))
<1>1. a[1] * b[2] \in Int /\ b[1] * a[2] \in Int /\ a[1] * a[2] \in Int /\ b[1] * b[2] \in Int
  <2>1. a[1] \in Int /\ a[2] \in Int /\ b[1] \in Int /\ b[2] \in Int
    BY RationalFacts
  <2> QED  BY <2>1, Products
<1>2. AtMost(a, a) /\ (AtMost(a, b) \/ AtMost(b, a)) /\ AtMost(b, b)
  BY <1>1 DEF AtMost, Below
<1>3. Below(a, b) => AtMost(a, b)
  BY <1>1 DEF AtMost, Below
<1> QED  BY <1>2, <1>3 DEF Greater, Lesser, AtMost

LEMMA AtMostTrans ==
    ASSUME NEW a \in Rationals, NEW b \in Rationals, NEW c \in Rationals, AtMost(a, b), AtMost(b, c)
    PROVE  AtMost(a, c)
<1> DEFINE p == a[1]
           q == a[2]
           r == b[1]
           s == b[2]
           t == c[1]
           u == c[2]
<1>1. p \in Int /\ q \in Nat \ {0} /\ r \in Int /\ s \in Nat \ {0} /\ t \in Int /\ u \in Nat \ {0}
  BY RationalFacts
<1>2. p * s \in Int /\ r * q \in Int /\ r * u \in Int /\ t * s \in Int /\ p * u \in Int /\ t * q \in Int
  BY <1>1
<1>3. p * s <= r * q /\ r * u <= t * s
  BY <1>2 DEF AtMost, Below
<1> HIDE DEF p, q, r, s, t, u
<1>4. (p * s) * u <= (r * q) * u /\ (r * u) * q <= (t * s) * q
  <2>1. (r * q - p * s) \in Nat /\ (t * s - r * u) \in Nat
    BY <1>2, <1>3
  <2>2. (r * q - p * s) * u >= 0 /\ (t * s - r * u) * q >= 0
    BY <1>1, <2>1
  <2>3. (r * q - p * s) * u = (r * q) * u - (p * s) * u /\ (t * s - r * u) * q = (t * s) * q - (r * u) * q
    BY <1>1, <1>2
  <2> QED  BY <1>1, <1>2, <2>2, <2>3
<1>5. (p * u) * s <= (t * q) * s
  <2>1. (p * s) * u = (p * u) * s /\ (r * q) * u = (r * u) * q /\ (t * s) * q = (t * q) * s
    BY <1>1
  <2>2. (p * u) * s \in Int /\ (r * u) * q \in Int /\ (t * q) * s \in Int
    BY <1>1, <1>2
  <2> QED  BY <1>4, <2>1, <2>2
<1>6. p * u <= t * q
  <2>1. (p * u - t * q) \in Int /\ (p * u - t * q) * s = (p * u) * s - (t * q) * s
    BY <1>1, <1>2
  <2>2. (p * u - t * q) * s > 0 <=> (p * u - t * q) > 0
    BY <1>1, <2>1, Products
  <2>3. (p * u) * s \in Int /\ (t * q) * s \in Int
    BY <1>1, <1>2
  <2> QED  BY <1>2, <1>5, <2>1, <2>2, <2>3
<1> QED  BY <1>2, <1>6 DEF AtMost, Below, p, q, r, s, t, u

\* A power of two counts the subsets of a set.
LEMMA PowersOfTwo ==
    ASSUME NEW n \in Nat
    PROVE  2 ^ n \in Nat \ {0}
<1> DEFINE S == 1 .. n
           T == SUBSET S
<1>1. IsFiniteSet(S) /\ Cardinality(S) = n
  <2>1. 1 \in Int /\ n \in Int
    OBVIOUS
  <2>2. IsFiniteSet(1 .. n) /\ Cardinality(1 .. n) = IF 1 > n THEN 0 ELSE n - 1 + 1
    BY <2>1, FS_Interval
  <2> QED  BY <2>2
<1>2. {} \in T
  OBVIOUS
<1> HIDE DEF S
<1>3. IsFiniteSet(T) /\ Cardinality(T) = 2 ^ n
  BY <1>1, FS_SUBSET
<1> HIDE DEF T
<1>4. Cardinality(T) \in Nat /\ Cardinality(T) # 0
  BY <1>2, <1>3, FS_CardinalityType, FS_EmptySet
<1> QED  BY <1>3, <1>4

-----------------------------------------------------------------------------
(* Edges in their order.                                                   *)

LEMMA EdgesAreIndexed ==
    /\ Len(Network) \in Nat /\ DOMAIN Network = 1 .. Len(Network)
    /\ \A n \in DOMAIN Network : Network[n] \in Edges /\ Network[n] \in Nat \X Nat
    /\ IsFiniteSet(DOMAIN Network) /\ IsFiniteSet(Edges)
<1>1. Network \in Seq(Nat \X Nat)
  BY NetworkAssumption
<1>2. Len(Network) \in Nat /\ DOMAIN Network = 1 .. Len(Network)
  BY <1>1
<1>3. \A n \in DOMAIN Network : Network[n] \in Edges /\ Network[n] \in Nat \X Nat
  BY <1>1 DEF Edges
<1>4. IsFiniteSet(1 .. Len(Network))
  BY <1>2, FS_Interval
<1> DEFINE f == [n \in DOMAIN Network |-> Network[n]]
<1>5. f \in Surjection(DOMAIN Network, Edges)
  BY DEF Surjection, Edges
<1> HIDE DEF f
<1>6. IsFiniteSet(Edges)
  BY <1>2, <1>4, <1>5, FS_Surjection
<1> QED  BY <1>2, <1>3, <1>4, <1>6

\* An edge is a pair of numbers, between two vertices, and has an index.
LEMMA EdgeFacts ==
    ASSUME NEW e \in Edges
    PROVE  /\ e[1] \in Vertices /\ e[2] \in Vertices /\ e = <<e[1], e[2]>>
           /\ e[1] \in Nat /\ e[2] \in Nat /\ e[1] # e[2]
           /\ eindex(e) \in DOMAIN Network /\ Network[eindex(e)] = e
<1>1. PICK n \in DOMAIN Network : Network[n] = e
  BY DEF Edges
<1>2. e \in Nat \X Nat
  BY <1>1, EdgesAreIndexed
<1>3. e[1] \in Vertices /\ e[2] \in Vertices
  BY <1>1 DEF Vertices
<1>4. eindex(e) \in DOMAIN Network /\ Network[eindex(e)] = e
  BY <1>1 DEF eindex
<1> QED  BY <1>2, <1>3, <1>4, NetworkAssumption

LEMMA VerticesAreNumbers == Vertices \subseteq Nat
  BY EdgesAreIndexed DEF Vertices

\* Position is a numbering of a set of indices from one.
LEMMA Positions ==
    ASSUME NEW I \in SUBSET DOMAIN Network
    PROVE  /\ Cardinality(I) \in Nat
           /\ \A k \in 1 .. Cardinality(I) :
                 \E n \in I : Cardinality({m \in I : m < n}) = k - 1
           /\ \A n \in I :
                 /\ Cardinality({m \in I : m < n}) + 1 \in 1 .. Cardinality(I)
                 /\ Cardinality({m \in I : m < n}) \in Nat
                 /\ \A k \in I : Cardinality({m \in I : m < k}) = Cardinality({m \in I : m < n}) => k = n
<1> DEFINE c == Cardinality(I)
           below(n) == {m \in I : m < n}
           place == [n \in I |-> Cardinality(below(n)) + 1]
<1>1. IsFiniteSet(I) /\ c \in Nat /\ I \subseteq Nat
  BY EdgesAreIndexed, FS_Subset, FS_CardinalityType
<1>2. ASSUME NEW n \in I
      PROVE  IsFiniteSet(below(n)) /\ Cardinality(below(n)) \in 0 .. c - 1
  <2>1. below(n) \in SUBSET I /\ n \in I \ below(n)
    BY <1>1
  <2> HIDE DEF below
  <2>2. /\ IsFiniteSet(below(n)) /\ Cardinality(below(n)) <= c /\ Cardinality(below(n)) # c
    BY <1>1, <2>1, FS_Subset
  <2>3. Cardinality(below(n)) \in Nat
    BY <2>2, FS_CardinalityType
  <2> HIDE DEF c
  <2> QED  BY <1>1, <2>2, <2>3
<1>3. ASSUME NEW m \in I, NEW n \in I, m < n
      PROVE  Cardinality(below(m)) # Cardinality(below(n))
  <2>1. below(m) \in SUBSET below(n) /\ m \in below(n) \ below(m)
    BY <1>1, <1>3
  <2> HIDE DEF below
  <2> QED  BY <1>2, <2>1, FS_Subset
<1>4. place \in [I -> 1 .. c]
  <2>1. \A n \in I : Cardinality(below(n)) + 1 \in 1 .. c
    <3> HIDE DEF below, c
    <3> QED  BY <1>1, <1>2
  <2> HIDE DEF below, c
  <2> QED  BY <2>1
<1>5. place \in Injection(I, 1 .. c)
  <2>1. ASSUME NEW m \in I, NEW n \in I, m # n
        PROVE  place[m] # place[n]
    <3>1. m < n \/ n < m
      BY <1>1, <2>1
    <3>2. Cardinality(below(m)) # Cardinality(below(n))
      BY <1>3, <3>1
    <3> HIDE DEF below, c
    <3> QED  BY <1>2, <3>2
  <2> HIDE DEF place
  <2> QED  BY <1>4, <2>1 DEF Injection, IsInjective
<1>6. IsFiniteSet(1 .. c) /\ Cardinality(1 .. c) = c
  <2> HIDE DEF c
  <2>1. IsFiniteSet(1 .. c) /\ Cardinality(1 .. c) = IF 1 > c THEN 0 ELSE c - 1 + 1
    BY <1>1, FS_Interval
  <2> QED  BY <1>1, <2>1
<1>7. place \in Surjection(I, 1 .. c)
  <2> HIDE DEF place
  <2> QED  BY <1>1, <1>5, <1>6, FS_Injection
<1>8. ASSUME NEW k \in 1 .. c
      PROVE  \E n \in I : Cardinality(below(n)) = k - 1
  <2>1. PICK n \in I : place[n] = k
    <3> HIDE DEF place
    <3> QED  BY <1>7 DEF Surjection
  <2> HIDE DEF below, c
  <2> QED  BY <1>1, <1>2, <2>1
<1>9. \A n \in I : Cardinality(below(n)) + 1 \in 1 .. c /\ Cardinality(below(n)) \in Nat
  <2> HIDE DEF below, c
  <2> QED  BY <1>1, <1>2
<1>10. ASSUME NEW n \in I, NEW k \in I, Cardinality(below(k)) = Cardinality(below(n))
       PROVE  k = n
  <2>1. k < n \/ n < k \/ k = n
    BY <1>1
  <2> HIDE DEF below
  <2> QED  BY <1>3, <1>10, <2>1
<1> QED  BY <1>1, <1>8, <1>9, <1>10

\* What Listed lists are the edges with these indices.
LEMMA ListedFacts ==
    ASSUME NEW I \in SUBSET DOMAIN Network
    PROVE  /\ DOMAIN Listed(I) = 1 .. Cardinality(I) /\ Cardinality(I) \in Nat
           /\ \A k \in 1 .. Cardinality(I) : \E n \in I : Listed(I)[k] = Network[n]
           /\ \A n \in I : \E k \in 1 .. Cardinality(I) : Listed(I)[k] = Network[n]
           /\ I # {} => Cardinality(I) >= 1
<1>1. Cardinality(I) \in Nat
  BY Positions
<1>2. DOMAIN Listed(I) = 1 .. Cardinality(I)
  BY DEF Listed
<1>3. ASSUME NEW k \in 1 .. Cardinality(I)
      PROVE  \E n \in I : Listed(I)[k] = Network[n]
  <2>0. \E n \in I : Cardinality({m \in I : m < n}) = k - 1
    BY ONLY I \in SUBSET DOMAIN Network, k \in 1 .. Cardinality(I), Positions
  <2> DEFINE n == CHOOSE n \in I : Cardinality({m \in I : m < n}) = k - 1
  <2>1. n \in I
    BY <2>0
  <2>2. Listed(I)[k] = Network[n]
    BY DEF Listed
  <2> QED  BY <2>1, <2>2
<1>4. I # {} => Cardinality(I) # 0
  <2>1. IsFiniteSet(I)
    BY EdgesAreIndexed, FS_Subset
  <2> QED  BY <2>1, FS_EmptySet
<1>5. ASSUME NEW n \in I
      PROVE  \E k \in 1 .. Cardinality(I) : Listed(I)[k] = Network[n]
  <2> DEFINE below(x) == Cardinality({m \in I : m < x})
             k == below(n) + 1
             p == CHOOSE p \in I : Cardinality({m \in I : m < p}) = k - 1
  <2>1. /\ k \in 1 .. Cardinality(I) /\ below(n) \in Nat
        /\ \A x \in I : below(x) = below(n) => x = n
    BY Positions
  <2>2. Listed(I)[k] = Network[p]
    BY <2>1 DEF Listed
  <2>3. p = CHOOSE x \in I : below(x) = k - 1
    OBVIOUS
  <2> HIDE DEF below, p
  <2>4. k - 1 = below(n)
    BY <2>1
  <2>5. p = n
    BY <2>1, <2>3, <2>4
  <2> QED  BY <2>1, <2>2, <2>5
<1> QED  BY <1>1, <1>2, <1>3, <1>4, <1>5

\* The targets of a vertex are those of its edges.
LEMMA TargetsFacts ==
    ASSUME NEW v
    PROVE  /\ Degree(v) \in Nat /\ DOMAIN Targets(v) = 1 .. Degree(v)
           /\ \A n \in 1 .. Degree(v) : <<v, Targets(v)[n]>> \in Edges
           /\ \A e \in Edges : e[1] = v => \E n \in 1 .. Degree(v) : Targets(v)[n] = e[2]
           /\ (\E e \in Edges : e[1] = v) => Degree(v) >= 1
<1> DEFINE I == {n \in DOMAIN Network : Network[n][1] = v}
           out == Listed(I)
           c == Cardinality(I)
<1>1. I \in SUBSET DOMAIN Network
  OBVIOUS
<1>2. /\ DOMAIN out = 1 .. c /\ c \in Nat
      /\ \A k \in 1 .. c : \E n \in I : out[k] = Network[n]
      /\ \A n \in I : \E k \in 1 .. c : out[k] = Network[n]
      /\ I # {} => c >= 1
  BY <1>1, ListedFacts
<1>3. Targets(v) = [n \in DOMAIN out |-> out[n][2]]
  BY DEF Targets
<1> HIDE DEF out, c
<1>4. DOMAIN Targets(v) = 1 .. c /\ Len(Targets(v)) = c
  BY <1>2, <1>3
<1>5. ASSUME NEW k \in 1 .. c
      PROVE  <<v, Targets(v)[k]>> \in Edges
  <2>1. PICK n \in I : out[k] = Network[n]
    BY <1>2
  <2>2. Network[n] \in Edges /\ Network[n][1] = v
    BY <2>1, EdgesAreIndexed
  <2>3. Network[n] = <<v, Network[n][2]>>
    BY <2>2, EdgeFacts
  <2>4. Targets(v)[k] = Network[n][2]
    BY <1>2, <1>3, <2>1
  <2> QED  BY <2>2, <2>3, <2>4
<1>6. (\E e \in Edges : e[1] = v) => I # {}
  BY DEF Edges
<1>7. ASSUME NEW e \in Edges, e[1] = v
      PROVE  \E k \in 1 .. c : Targets(v)[k] = e[2]
  <2>1. PICK n \in I : Network[n] = e
    BY <1>7 DEF Edges
  <2>2. PICK k \in 1 .. c : out[k] = Network[n]
    BY <1>2
  <2>3. Targets(v)[k] = out[k][2]
    BY <1>2, <1>3, <2>2
  <2>4. Targets(v)[k] = e[2]
    BY <2>1, <2>2, <2>3
  <2> QED  BY <2>4
<1> HIDE DEF I
<1> QED  BY <1>2, <1>4, <1>5, <1>6, <1>7 DEF Degree

NetFields ==
    {"inputs", "weights", "hidden", "outputs", "losses", "corrections", "isFirst", "direction", "rate"}

-----------------------------------------------------------------------------
(* The numbers of a network.                                               *)

\* The networks have one input and one output, and a bias in each layer.
LEMMA LayerFacts ==
    /\ NumHidden \in Nat \ {0} /\ InputBias = 2 /\ HiddenBias = NumHidden + 1
    /\ \A i \in 1 .. 2, j \in 1 .. NumHidden : <<"IH", i, j>> \in Weights
    /\ \A j \in 1 .. HiddenBias : <<"HO", j, 1>> \in Weights
    /\ \A s \in Weights : \/ \E i \in 1 .. 2, j \in 1 .. NumHidden : s = <<"IH", i, j>>
                          \/ \E j \in 1 .. HiddenBias : s = <<"HO", j, 1>>
<1>1. NumHidden \in Nat \ {0} /\ InputBias = 2 /\ HiddenBias = NumHidden + 1
  BY LayersAssumption, NetsAssumption DEF InputBias, HiddenBias
<1>2. 1 .. NumOutputs = {1}
  BY NetsAssumption
<1>3. \A i \in 1 .. 2, j \in 1 .. NumHidden : <<"IH", i, j>> \in Weights
  BY <1>1 DEF Weights, InputHidden
<1>4. \A j \in 1 .. HiddenBias : <<"HO", j, 1>> \in Weights
  BY <1>2 DEF Weights, HiddenOutput
<1>5. ASSUME NEW s \in InputHidden
      PROVE  \E i \in 1 .. 2, j \in 1 .. NumHidden : s = <<"IH", i, j>>
  BY <1>1 DEF InputHidden
<1>6. ASSUME NEW s \in HiddenOutput
      PROVE  \E j \in 1 .. HiddenBias : s = <<"HO", j, 1>>
  BY <1>2 DEF HiddenOutput
<1> QED  BY <1>1, <1>3, <1>4, <1>5, <1>6 DEF Weights

\* The activation of the hidden neurons rises with its argument, its derivative is positive.
LEMMA ActivationRises ==
    /\ \A x \in Int : activate(x) \in Int /\ deriv(x) \in Nat \ {0}
    /\ \A x, y \in Int : x <= y => activate(x) <= activate(y)
  BY DEF activate, deriv

\* What the hidden neurons, and the output, are for the input x and the weights w.
HiddenAt(w, x, j) == SumFunction([i \in 1 .. InputBias |-> <<x, 1>>[i] * w[<<"IH", i, j>>]])
HiddenOf(w, x) == [j \in 1 .. HiddenBias |-> IF j = HiddenBias THEN Unit ELSE activate(HiddenAt(w, x, j))]
OutputOf(w, x) == SumFunction([j \in 1 .. HiddenBias |-> HiddenOf(w, x)[j] * w[<<"HO", j, 1>>]])

LEMMA NeuronsAreInts ==
    ASSUME NEW w \in [Weights -> Int], NEW x \in Int
    PROVE  /\ \A j \in 1 .. NumHidden : HiddenAt(w, x, j) \in Int
           /\ HiddenOf(w, x) \in [1 .. HiddenBias -> Int]
           /\ OutputOf(w, x) \in Int
<1>1. ASSUME NEW j \in 1 .. NumHidden
      PROVE  HiddenAt(w, x, j) \in Int
  <2> DEFINE f == [i \in 1 .. InputBias |-> <<x, 1>>[i] * w[<<"IH", i, j>>]]
  <2>1. IsFiniteSet(DOMAIN f)
    <3>1. 1 .. InputBias = 1 .. 2
      BY LayerFacts
    <3>2. IsFiniteSet(1 .. 2)
      <4>1. 1 \in Int /\ 2 \in Int
        OBVIOUS
      <4> QED  BY <4>1, FS_Interval, Zenon
    <3> QED  BY <3>1, <3>2
  <2>2. ASSUME NEW i \in DOMAIN f
        PROVE  f[i] \in Int
    <3>1. i \in 1 .. 2 /\ w[<<"IH", i, j>>] \in Int
      BY LayerFacts
    <3>2. <<x, 1>>[i] \in Int
      BY <3>1
    <3> QED  BY <3>1, <3>2
  <2> HIDE DEF f
  <2>3. SumFunction(f) \in Int
    BY <2>1, <2>2, SumIsInt
  <2> QED  BY <2>3 DEF HiddenAt, f
<1>2. HiddenOf(w, x) \in [1 .. HiddenBias -> Int]
  BY <1>1, LayerFacts, ActivationRises DEF HiddenOf, Unit
<1>3. OutputOf(w, x) \in Int
  <2> DEFINE f == [j \in 1 .. HiddenBias |-> HiddenOf(w, x)[j] * w[<<"HO", j, 1>>]]
  <2>1. IsFiniteSet(DOMAIN f)
    BY LayerFacts, FS_Interval
  <2>2. ASSUME NEW j \in DOMAIN f
        PROVE  f[j] \in Int
    <3>1. j \in 1 .. HiddenBias /\ w[<<"HO", j, 1>>] \in Int /\ HiddenOf(w, x)[j] \in Int
      BY <1>2, LayerFacts
    <3> QED  BY <3>1
  <2> HIDE DEF f
  <2>3. SumFunction(f) \in Int
    BY <2>1, <2>2, SumIsInt
  <2> QED  BY <2>3 DEF OutputOf, f
<1> QED  BY <1>1, <1>2, <1>3

\* A network of integers.
NetOK(net) ==
    /\ DOMAIN net = NetFields
    /\ \E x \in Int : net.inputs = <<x, 1>>
    /\ net.weights \in [Weights -> Int]
    /\ \A j \in 1 .. HiddenBias : net.hidden[j] \in Int
    /\ net.outputs[1] \in Int
    /\ net.corrections \in [Weights -> Int]
    /\ net.direction \in [Weights -> Int]

\* What a network computes of an input.
LEMMA PresentIs ==
    ASSUME NEW net, DOMAIN net = NetFields, NEW x \in Int
    PROVE  LET p == Present(net, <<x>>)
           IN  /\ DOMAIN p = NetFields /\ p.inputs = <<x, 1>>
               /\ \A j \in 1 .. HiddenBias : p.hidden[j] = HiddenOf(net.weights, x)[j]
               /\ p.outputs[1] = OutputOf(net.weights, x)
               /\ \A a \in NetFields \ {"inputs", "hidden", "outputs"} : p[a] = net[a]
<1> DEFINE p == Present(net, <<x>>)
           fed == [net EXCEPT !.inputs = Append(<<x>>, 1)]
           hidden == Append([j \in 1 .. NumHidden |-> activate(HiddenNet(fed, j))], Unit)
           hid == [fed EXCEPT !.hidden = hidden]
           outputs == [k \in 1 .. NumOutputs |-> activateOutput(OutputNet(hid, k))]
<1>1. p = [hid EXCEPT !.outputs = outputs]
  BY DEF Present
<1>2. Append(<<x>>, 1) = <<x, 1>>
  <2> DEFINE all == Append(<<x>>, 1)
  <2>1. <<x>> \in Seq(Int) /\ Len(<<x>>) = 1 /\ <<x>>[1] = x
    OBVIOUS
  <2>2. all \in Seq(Int) /\ Len(all) = 2 /\ all[1] = x /\ all[2] = 1
    BY <2>1, AppendProperties
  <2> HIDE DEF all
  <2>3. all = <<x, 1>>
    BY <2>2
  <2> QED  BY <2>3 DEF all
<1>3. /\ DOMAIN fed = NetFields /\ fed.inputs = <<x, 1>> /\ fed.weights = net.weights
      /\ \A a \in NetFields \ {"inputs"} : fed[a] = net[a]
  BY <1>2 DEF NetFields
<1> HIDE DEF fed
<1>4. ASSUME NEW j \in 1 .. HiddenBias
      PROVE  hidden[j] = HiddenOf(net.weights, x)[j]
  <2> DEFINE g == [k \in 1 .. NumHidden |-> activate(HiddenNet(fed, k))]
  <2>1. g \in Seq({activate(HiddenNet(fed, k)) : k \in 1 .. NumHidden}) /\ Len(g) = NumHidden
    BY LayerFacts
  <2>2. hidden[j] = IF j = HiddenBias THEN Unit ELSE g[j]
    <3> HIDE DEF g
    <3>1. hidden[j] = IF j = Len(g) + 1 THEN Unit ELSE g[j]
      BY <2>1, LayerFacts DEF g
    <3> QED  BY <2>1, <3>1, LayerFacts
  <2>3. CASE j = HiddenBias
    BY <2>2, <2>3 DEF HiddenOf
  <2>4. CASE j # HiddenBias
    <3>1. j \in 1 .. NumHidden
      BY <2>4, LayerFacts
    <3>2. g[j] = activate(HiddenNet(fed, j))
      BY <3>1
    <3>3. HiddenNet(fed, j) = HiddenAt(net.weights, x, j)
      BY <1>3 DEF HiddenNet, HiddenAt
    <3> QED  BY <2>2, <2>4, <3>2, <3>3 DEF HiddenOf
  <2> QED  BY <2>3, <2>4
<1> HIDE DEF hidden
<1>5. /\ DOMAIN hid = NetFields /\ hid.hidden = hidden /\ hid.weights = net.weights /\ hid.inputs = <<x, 1>>
      /\ \A a \in NetFields \ {"inputs", "hidden"} : hid[a] = net[a]
  BY <1>3 DEF NetFields
<1> HIDE DEF hid
<1>6. outputs[1] = OutputOf(net.weights, x)
  <2>1. [j \in 1 .. HiddenBias |-> hid.hidden[j] * hid.weights[<<"HO", j, 1>>]]
        = [j \in 1 .. HiddenBias |-> HiddenOf(net.weights, x)[j] * net.weights[<<"HO", j, 1>>]]
    BY <1>4, <1>5
  <2>2. OutputNet(hid, 1) = OutputOf(net.weights, x)
    BY <2>1 DEF OutputNet, OutputOf
  <2> QED  BY <2>2, NetsAssumption DEF activateOutput
<1> HIDE DEF outputs
<1>7. /\ DOMAIN p = NetFields /\ p.outputs = outputs /\ p.hidden = hidden /\ p.inputs = <<x, 1>>
      /\ \A a \in NetFields \ {"inputs", "hidden", "outputs"} : p[a] = net[a]
  BY <1>1, <1>5 DEF NetFields
<1> HIDE DEF p
<1> QED  BY <1>4, <1>6, <1>7 DEF p

LEMMA PresentOK ==
    ASSUME NEW net, NetOK(net), NEW x \in Int
    PROVE  NetOK(Present(net, <<x>>))
<1> DEFINE p == Present(net, <<x>>)
<1>1. /\ DOMAIN p = NetFields /\ p.inputs = <<x, 1>>
      /\ \A j \in 1 .. HiddenBias : p.hidden[j] = HiddenOf(net.weights, x)[j]
      /\ p.outputs[1] = OutputOf(net.weights, x)
      /\ \A a \in NetFields \ {"inputs", "hidden", "outputs"} : p[a] = net[a]
  BY PresentIs DEF NetOK
<1>2. p.weights = net.weights /\ p.corrections = net.corrections /\ p.direction = net.direction
  BY <1>1 DEF NetFields
<1>3. HiddenOf(net.weights, x) \in [1 .. HiddenBias -> Int] /\ OutputOf(net.weights, x) \in Int
  BY NeuronsAreInts DEF NetOK
<1> HIDE DEF p
<1> QED  BY <1>1, <1>2, <1>3 DEF NetOK, p

\* The inputs a network has are those it was presented.
LEMMA InputNeurons ==
    ASSUME NEW net, NEW x \in Int, net.inputs = <<x, 1>>
    PROVE  getInputNeurons(net) = <<x>>
<1> DEFINE all == <<x, 1>>
           first == SubSeq(all, 1, 1)
<1>1. all \in Seq(Int) /\ Len(all) = 2 /\ all[1] = x
  OBVIOUS
<1> HIDE DEF all
<1>2. first \in Seq(Int) /\ Len(first) = 1 /\ first[1] = x
  BY <1>1, SubSeqProperties
<1> HIDE DEF first
<1>3. first = <<x>>
  BY <1>2
<1> QED  BY <1>3, NetsAssumption DEF getInputNeurons, first, all

\* What the output gains when a weight grows by one.
Gain(w, x, s) ==
    IF s[1] = "HO" THEN HiddenOf(w, x)[s[2]]
    ELSE (activate(HiddenAt(w, x, s[3]) + <<x, 1>>[s[2]]) - activate(HiddenAt(w, x, s[3])))
         * w[<<"HO", s[3], 1>>]

\* What the gradient takes it to gain, by the derivative.
Slope(w, x, s) ==
    IF s[1] = "HO" THEN HiddenOf(w, x)[s[2]]
    ELSE deriv(HiddenAt(w, x, s[3])) * (<<x, 1>>[s[2]] * w[<<"HO", s[3], 1>>])

\* The two have the same sign, where the output changes at all.
SameSign(a, b) == /\ a > 0 => b > 0
                  /\ a < 0 => b < 0

LEMMA SlopeSigns ==
    ASSUME NEW w \in [Weights -> Int], NEW x \in Int, NEW s \in Weights
    PROVE  /\ Slope(w, x, s) \in Int /\ Gain(w, x, s) \in Int
           /\ \A d \in Int : SameSign(d * Gain(w, x, s), d * Slope(w, x, s))
<1>1. CASE \E i \in 1 .. 2, j \in 1 .. NumHidden : s = <<"IH", i, j>>
  <2>1. PICK i \in 1 .. 2, j \in 1 .. NumHidden : s = <<"IH", i, j>>
    BY <1>1
  <2>2. s[1] # "HO" /\ s[2] = i /\ s[3] = j
    BY <2>1
  <2>3. j \in 1 .. HiddenBias
    BY LayerFacts
  <2> DEFINE h == HiddenAt(w, x, j)
             y == <<x, 1>>[i]
             z == w[<<"HO", j, 1>>]
             p == deriv(h)
             q == activate(h + y) - activate(h)
  <2>4. h \in Int /\ y \in Int /\ z \in Int
    <3>1. h \in Int
      BY NeuronsAreInts
    <3>2. y \in Int
      OBVIOUS
    <3>3. z \in Int
      BY <2>3, LayerFacts
    <3> QED  BY <3>1, <3>2, <3>3
  <2>5. Slope(w, x, s) = p * (y * z) /\ Gain(w, x, s) = q * z
    BY <2>2 DEF Slope, Gain
  <2>6. p \in Int /\ q \in Int /\ p > 0 /\ (q > 0 => y > 0) /\ (q < 0 => y < 0)
    <3> HIDE DEF h, y
    <3>1. p \in Int /\ p > 0
      BY <2>4, ActivationRises
    <3>2. h + y \in Int /\ activate(h + y) \in Int /\ activate(h) \in Int
      BY <2>4, ActivationRises
    <3>3. CASE y <= 0 /\ 0 <= y
      <4>1. h + y = h
        BY <2>4, <3>3
      <4> QED  BY <3>1, <3>2, <4>1
    <3>4. CASE y > 0
      <4>1. h <= h + y
        BY <2>4, <3>4
      <4>2. activate(h) <= activate(h + y)
        BY <2>4, <3>2, <4>1, ActivationRises
      <4> QED  BY <2>4, <3>1, <3>2, <3>4, <4>2
    <3>5. CASE y < 0
      <4>1. h + y <= h
        BY <2>4, <3>5
      <4>2. activate(h + y) <= activate(h)
        BY <2>4, <3>2, <4>1, ActivationRises
      <4> QED  BY <2>4, <3>1, <3>2, <3>5, <4>2
    <3> QED  BY <2>4, <3>3, <3>4, <3>5
  <2> HIDE DEF h, y, z, p, q
  <2>7. ASSUME NEW d \in Int
        PROVE  SameSign(d * (q * z), d * (p * (y * z)))
    <3> DEFINE e == d * z
    <3>1. e \in Int /\ d * (q * z) = q * e /\ d * (p * (y * z)) = p * (y * e)
      BY <2>4, <2>6
    <3> HIDE DEF e
    <3>2. q * e > 0 => (q > 0 /\ e > 0) \/ (q < 0 /\ e < 0)
      BY <2>6, <3>1
    <3>3. q * e < 0 => (q > 0 /\ e < 0) \/ (q < 0 /\ e > 0)
      BY <2>6, <3>1
    <3>4. (y > 0 /\ e > 0) \/ (y < 0 /\ e < 0) => y * e > 0
      BY <2>4, <3>1
    <3>5. (y > 0 /\ e < 0) \/ (y < 0 /\ e > 0) => y * e < 0
      BY <2>4, <3>1
    <3> DEFINE n == y * e
    <3>6. n \in Int
      BY <2>4, <3>1
    <3> HIDE DEF n
    <3>7. (n > 0 => p * n > 0) /\ (n < 0 => p * n < 0)
      BY <2>6, <3>6
    <3> QED  BY <2>6, <3>1, <3>2, <3>3, <3>4, <3>5, <3>7 DEF SameSign, n
  <2>8. p * (y * z) \in Int /\ q * z \in Int
    BY <2>4, <2>6
  <2> QED  BY <2>5, <2>7, <2>8
<1>2. CASE \E j \in 1 .. HiddenBias : s = <<"HO", j, 1>>
  <2>1. PICK j \in 1 .. HiddenBias : s = <<"HO", j, 1>>
    BY <1>2
  <2>2. Slope(w, x, s) = HiddenOf(w, x)[j] /\ Gain(w, x, s) = HiddenOf(w, x)[j]
    BY <2>1 DEF Slope, Gain
  <2>3. HiddenOf(w, x)[j] \in Int
    BY NeuronsAreInts
  <2> QED  BY <2>2, <2>3 DEF SameSign
<1> QED  BY <1>1, <1>2, LayerFacts

\* The output changes with a weight as Gain says.
LEMMA OutputGains ==
    ASSUME NEW w \in [Weights -> Int], NEW x \in Int, NEW s \in Weights
    PROVE  OutputOf([w EXCEPT ![s] = w[s] + 1], x) = OutputOf(w, x) + Gain(w, x, s)
<1> DEFINE u == [w EXCEPT ![s] = w[s] + 1]
           f == [j \in 1 .. HiddenBias |-> HiddenOf(w, x)[j] * w[<<"HO", j, 1>>]]
           g == [j \in 1 .. HiddenBias |-> HiddenOf(u, x)[j] * u[<<"HO", j, 1>>]]
<1>1. /\ u \in [Weights -> Int] /\ u[s] = w[s] + 1
      /\ \A t \in Weights : t # s => u[t] = w[t]
  OBVIOUS
<1>2. OutputOf(w, x) = SumFunction(f) /\ OutputOf(u, x) = SumFunction(g)
  BY DEF OutputOf
<1> HIDE DEF u
<1>3. HiddenOf(w, x) \in [1 .. HiddenBias -> Int] /\ HiddenOf(u, x) \in [1 .. HiddenBias -> Int]
  BY <1>1, NeuronsAreInts
<1>4. \A j \in 1 .. HiddenBias : <<"HO", j, 1>> \in Weights
  BY LayerFacts
<1>5. /\ DOMAIN f = 1 .. HiddenBias /\ DOMAIN g = 1 .. HiddenBias
      /\ \A j \in 1 .. HiddenBias : f[j] \in Int /\ g[j] \in Int
  <2>1. ASSUME NEW j \in 1 .. HiddenBias
        PROVE  f[j] \in Int /\ g[j] \in Int
    <3> DEFINE a == HiddenOf(w, x)[j]
               b == w[<<"HO", j, 1>>]
               c == HiddenOf(u, x)[j]
               e == u[<<"HO", j, 1>>]
    <3>1. a \in Int /\ c \in Int
      BY <1>3
    <3>2. b \in Int /\ e \in Int
      BY <1>1, <1>4
    <3>3. f[j] = a * b /\ g[j] = c * e
      OBVIOUS
    <3> HIDE DEF a, b, c, e, f, g
    <3> QED  BY <3>1, <3>2, <3>3
  <2> QED  BY <2>1
<1>6. IsFiniteSet(1 .. HiddenBias)
  <2>1. 1 \in Int /\ HiddenBias \in Int
    BY LayerFacts
  <2> QED  BY <2>1, FS_Interval, Zenon
\* A change of one value of f is one of the output.
<1>7. ASSUME NEW k \in 1 .. HiddenBias, \A j \in 1 .. HiddenBias : j # k => g[j] = f[j],
             g[k] = f[k] + Gain(w, x, s)
      PROVE  SumFunction(g) = SumFunction(f) + Gain(w, x, s)
  <2> HIDE DEF f, g
  <2>1. SumFunction(g) = SumFunction(f) + (g[k] - f[k])
    BY <1>5, <1>6, <1>7, SumChanges
  <2>2. Gain(w, x, s) \in Int
    BY SlopeSigns
  <2>3. f[k] \in Int /\ g[k] - f[k] = Gain(w, x, s)
    BY <1>5, <1>7, <2>2
  <2> QED  BY <2>1, <2>3
<1>8. CASE \E k \in 1 .. HiddenBias : s = <<"HO", k, 1>>
  <2>1. PICK k \in 1 .. HiddenBias : s = <<"HO", k, 1>>
    BY <1>8
  <2>2. \A i, j : u[<<"IH", i, j>>] = w[<<"IH", i, j>>]
    BY <2>1 DEF u
  <2>3. \A j : HiddenAt(u, x, j) = HiddenAt(w, x, j)
    BY <2>2 DEF HiddenAt
  <2>4. HiddenOf(u, x) = HiddenOf(w, x)
    BY <2>3 DEF HiddenOf
  <2>5. \A j \in 1 .. HiddenBias : j # k => u[<<"HO", j, 1>>] = w[<<"HO", j, 1>>]
    BY <1>1, <1>4, <2>1
  <2>6. \A j \in 1 .. HiddenBias : j # k => g[j] = f[j]
    BY <2>4, <2>5
  <2>7. g[k] = f[k] + HiddenOf(w, x)[k]
    <3>1. g[k] = HiddenOf(w, x)[k] * (w[s] + 1) /\ f[k] = HiddenOf(w, x)[k] * w[s]
      BY <1>1, <2>1, <2>4
    <3>2. HiddenOf(w, x)[k] \in Int /\ w[s] \in Int
      BY <1>3
    <3> HIDE DEF f, g
    <3> QED  BY <3>1, <3>2
  <2>8. Gain(w, x, s) = HiddenOf(w, x)[k]
    BY <2>1 DEF Gain
  <2> QED  BY <1>2, <1>7, <2>6, <2>7, <2>8 DEF u
<1>9. CASE \E i \in 1 .. 2, k \in 1 .. NumHidden : s = <<"IH", i, k>>
  <2>1. PICK i \in 1 .. 2, k \in 1 .. NumHidden : s = <<"IH", i, k>>
    BY <1>9
  <2>2. k \in 1 .. HiddenBias /\ k # HiddenBias
    BY LayerFacts
  <2>3. \A j : u[<<"HO", j, 1>>] = w[<<"HO", j, 1>>]
    BY <2>1 DEF u
  <2>4. \A m, j : j # k => u[<<"IH", m, j>>] = w[<<"IH", m, j>>]
    BY <2>1 DEF u
  <2>5. \A j : j # k => HiddenAt(u, x, j) = HiddenAt(w, x, j)
    BY <2>4 DEF HiddenAt
  <2>6. \A j \in 1 .. HiddenBias : j # k => HiddenOf(u, x)[j] = HiddenOf(w, x)[j]
    BY <2>5 DEF HiddenOf
  <2>7. \A j \in 1 .. HiddenBias : j # k => g[j] = f[j]
    BY <2>3, <2>6
  <2>8. HiddenAt(u, x, k) = HiddenAt(w, x, k) + <<x, 1>>[i]
    <3> DEFINE a == [m \in 1 .. InputBias |-> <<x, 1>>[m] * w[<<"IH", m, k>>]]
               b == [m \in 1 .. InputBias |-> <<x, 1>>[m] * u[<<"IH", m, k>>]]
    <3>1. HiddenAt(w, x, k) = SumFunction(a) /\ HiddenAt(u, x, k) = SumFunction(b)
      BY DEF HiddenAt
    <3>2. DOMAIN a = 1 .. 2 /\ DOMAIN b = 1 .. 2
      BY LayerFacts
    <3>3. \A m \in 1 .. 2 : <<x, 1>>[m] \in Int /\ <<"IH", m, k>> \in Weights
      BY LayerFacts
    <3>4. \A m \in 1 .. 2 : w[<<"IH", m, k>>] \in Int /\ u[<<"IH", m, k>>] \in Int
      BY <1>1, <3>3
    <3>5. \A m \in 1 .. 2 : /\ a[m] = <<x, 1>>[m] * w[<<"IH", m, k>>]
                            /\ b[m] = <<x, 1>>[m] * u[<<"IH", m, k>>]
      BY LayerFacts
    <3> HIDE DEF a, b
    <3>6. \A m \in 1 .. 2 : a[m] \in Int /\ b[m] \in Int
      BY <3>3, <3>4, <3>5
    <3>7. \A m \in 1 .. 2 : m # i => b[m] = a[m]
      <4>1. \A m \in 1 .. 2 : m # i => u[<<"IH", m, k>>] = w[<<"IH", m, k>>]
        BY <1>1, <2>1, <3>3
      <4> QED  BY <3>5, <4>1
    <3>8. b[i] = a[i] + <<x, 1>>[i]
      <4>1. a[i] = <<x, 1>>[i] * w[s] /\ b[i] = <<x, 1>>[i] * (w[s] + 1)
        BY <1>1, <2>1, <3>5
      <4>2. w[s] \in Int /\ <<x, 1>>[i] \in Int
        BY <3>3
      <4> DEFINE y == <<x, 1>>[i]
                 z == w[s]
      <4>3. y \in Int /\ z \in Int /\ a[i] = y * z /\ b[i] = y * (z + 1)
        BY <4>1, <4>2
      <4> HIDE DEF y, z
      <4>4. b[i] = a[i] + y
        BY ONLY <4>3
      <4> QED  BY <4>4 DEF y
    <3>9. IsFiniteSet(1 .. 2)
      <4>1. 1 \in Int /\ 2 \in Int
        OBVIOUS
      <4> QED  BY <4>1, FS_Interval, Zenon
    <3>10. SumFunction(b) = SumFunction(a) + (b[i] - a[i])
      BY <3>2, <3>6, <3>7, <3>9, SumChanges
    <3>11. SumFunction(b) = SumFunction(a) + <<x, 1>>[i]
      BY <3>3, <3>6, <3>8, <3>10
    <3> QED  BY <3>1, <3>11
  <2>9. g[k] = f[k] + Gain(w, x, s)
    <3> DEFINE h == activate(HiddenAt(w, x, k))
               q == activate(HiddenAt(w, x, k) + <<x, 1>>[i])
               z == w[<<"HO", k, 1>>]
    <3>1. h \in Int /\ q \in Int /\ z \in Int
      <4>1. HiddenAt(w, x, k) \in Int
        BY NeuronsAreInts
      <4>2. <<x, 1>>[i] \in Int
        OBVIOUS
      <4> DEFINE y == <<x, 1>>[i]
      <4> HIDE DEF y
      <4>3. HiddenAt(w, x, k) + y \in Int
        BY <4>1, <4>2 DEF y
      <4>4. z \in Int
        BY <1>4, <2>2
      <4> HIDE DEF z
      <4> QED  BY <4>1, <4>3, <4>4, ActivationRises DEF y
    <3>2. f[k] = h * z /\ g[k] = q * z
      BY <2>2, <2>3, <2>8 DEF HiddenOf
    <3>3. Gain(w, x, s) = (q - h) * z
      BY <2>1 DEF Gain
    <3> HIDE DEF f, g, h, q, z
    <3>4. q * z = h * z + (q - h) * z
      BY <3>1
    <3> QED  BY <3>2, <3>3, <3>4
  <2> QED  BY <1>2, <1>7, <2>2, <2>7, <2>9 DEF u
<1> QED  BY <1>8, <1>9, LayerFacts

\* The neurons of a network are those of its input and its weights.
IsFresh(net, w, x) == \A j \in 1 .. HiddenBias : net.hidden[j] = HiddenOf(w, x)[j]

HasGradient(net, w, x, t, s) == Gradient(net, <<t>>)[s] = (t - net.outputs[1]) * Slope(w, x, s)

\* The gradient of a network that has its input.
LEMMA GradientIs ==
    ASSUME NEW net, NEW x \in Int, NEW w \in [Weights -> Int], NEW t \in Int, net.weights = w,
           net.inputs = <<x, 1>>, net.outputs[1] \in Int,
           \A j \in 1 .. HiddenBias : net.hidden[j] \in Int, NEW s \in Weights
    PROVE  /\ Gradient(net, <<t>>)[s] \in Int
           /\ IsFresh(net, w, x) => HasGradient(net, w, x, t, s)
<1> DEFINE delta == t - net.outputs[1]
<1>1. OutputDelta(net, <<t>>, 1) = delta /\ delta \in Int
  BY DEF OutputDelta, derivOutput
<1>2. CASE \E k \in 1 .. HiddenBias : s = <<"HO", k, 1>>
  <2>1. PICK k \in 1 .. HiddenBias : s = <<"HO", k, 1>>
    BY <1>2
  <2>2. Gradient(net, <<t>>)[s] = delta * net.hidden[k]
    BY <1>1, <2>1 DEF Gradient
  <2>3. Slope(w, x, s) = HiddenOf(w, x)[k]
    BY <2>1 DEF Slope
  <2> HIDE DEF delta
  <2> QED  BY <1>1, <2>2, <2>3 DEF delta, IsFresh, HasGradient
<1>3. CASE \E i \in 1 .. 2, k \in 1 .. NumHidden : s = <<"IH", i, k>>
  <2>1. PICK i \in 1 .. 2, k \in 1 .. NumHidden : s = <<"IH", i, k>>
    BY <1>3
  <2> DEFINE z == w[<<"HO", k, 1>>]
             y == <<x, 1>>[i]
             p == deriv(HiddenAt(w, x, k))
             f == [m \in 1 .. NumOutputs |-> net.weights[<<"HO", k, m>>] * OutputDelta(net, <<t>>, m)]
  <2>2. z \in Int /\ y \in Int /\ p \in Int
    <3>1. k \in 1 .. HiddenBias
      BY LayerFacts
    <3>2. HiddenAt(w, x, k) \in Int
      BY NeuronsAreInts
    <3>3. p \in Int
      BY <3>2, ActivationRises
    <3> HIDE DEF p
    <3> QED  BY <3>1, <3>3, LayerFacts
  <2>3. DOMAIN f = 1 .. 1 /\ f[1] = z * delta /\ f[1] \in Int
    BY <1>1, <2>2, NetsAssumption
  <2> HIDE DEF f
  <2>4. SumFunction(f) = z * delta
    BY <2>3, SumOfOne
  <2>5. HiddenDelta(net, <<t>>, k) = p * SumFunction(f)
    <3>1. HiddenNet(net, k) = HiddenAt(w, x, k)
      BY DEF HiddenNet, HiddenAt
    <3> QED  BY <3>1 DEF HiddenDelta, f
  <2> HIDE DEF delta, z, p
  <2>6. Gradient(net, <<t>>)[s] = HiddenDelta(net, <<t>>, k) * y
    BY <2>1 DEF Gradient
  <2>7. Gradient(net, <<t>>)[s] = (p * (z * delta)) * y
    BY <2>4, <2>5, <2>6
  <2>8. Slope(w, x, s) = p * (y * z)
    BY <2>1 DEF Slope, z, p
  <2> HIDE DEF y
  <2>9. (p * (z * delta)) * y = delta * (p * (y * z)) /\ (p * (z * delta)) * y \in Int
    BY <1>1, <2>2
  <2> QED  BY <2>7, <2>8, <2>9 DEF delta, HasGradient
<1> QED  BY <1>2, <1>3, LayerFacts

\* The gradient says of every weight whether it should grow or shrink.
LEMMA GradientDescends ==
    ASSUME NEW net, NetOK(net), NEW t \in Int
    PROVE  IsDescent(net, <<t>>)
<1>1. PICK x \in Int : net.inputs = <<x, 1>>
  BY DEF NetOK
<1>2. getInputNeurons(net) = <<x>>
  BY <1>1, InputNeurons
<1> DEFINE w == net.weights
           o == OutputOf(w, x)
           fresh == Present(net, <<x>>)
           moved(s) == Present([net EXCEPT !.weights[s] = net.weights[s] + 1], <<x>>)
           nearer(s) == SumFunction([k \in 1 .. NumOutputs |->
               (<<t>>[k] - fresh.outputs[k]) * (moved(s).outputs[k] - fresh.outputs[k])])
<1>3. w \in [Weights -> Int] /\ DOMAIN net = NetFields /\ o \in Int
  BY NeuronsAreInts DEF NetOK
<1>4. /\ fresh.inputs = <<x, 1>> /\ fresh.outputs[1] = o /\ fresh.weights = w
      /\ \A j \in 1 .. HiddenBias : fresh.hidden[j] = HiddenOf(w, x)[j]
  <2>1. /\ fresh.inputs = <<x, 1>> /\ fresh.outputs[1] = o
        /\ \A j \in 1 .. HiddenBias : fresh.hidden[j] = HiddenOf(w, x)[j]
        /\ \A a \in NetFields \ {"inputs", "hidden", "outputs"} : fresh[a] = net[a]
    BY <1>3, PresentIs
  <2> QED  BY <2>1 DEF NetFields
<1>5. NetOK(fresh)
  BY PresentOK
<1>6. ASSUME NEW s \in Weights
      PROVE  SameSign(nearer(s), Gradient(fresh, <<t>>)[s])
  <2> DEFINE u == [w EXCEPT ![s] = w[s] + 1]
             it == [net EXCEPT !.weights[s] = net.weights[s] + 1]
             f == [k \in 1 .. NumOutputs |->
                     (<<t>>[k] - fresh.outputs[k]) * (moved(s).outputs[k] - fresh.outputs[k])]
  <2>1. DOMAIN it = NetFields /\ it.weights = u
    BY <1>3 DEF NetFields
  <2>2. moved(s) = Present(it, <<x>>)
    OBVIOUS
  <2> HIDE DEF it, moved
  <2>3. moved(s).outputs[1] = OutputOf(u, x)
    BY <2>1, <2>2, PresentIs
  <2>4. OutputOf(u, x) = o + Gain(w, x, s)
    BY <1>3, OutputGains
  <2>5. Gain(w, x, s) \in Int /\ SameSign((t - o) * Gain(w, x, s), (t - o) * Slope(w, x, s))
    <3>1. t - o \in Int
      BY <1>3
    <3> HIDE DEF o, w
    <3> QED  BY <1>3, <3>1, SlopeSigns
  <2>6. fresh.outputs[1] \in Int /\ \A j \in 1 .. HiddenBias : fresh.hidden[j] \in Int
    BY <1>5 DEF NetOK
  <2> HIDE DEF fresh, o, w, u
  <2>7. Gradient(fresh, <<t>>)[s] = (t - o) * Slope(w, x, s)
    <3>1. IsFresh(fresh, w, x)
      BY <1>4 DEF IsFresh
    <3>2. HasGradient(fresh, w, x, t, s)
      BY <1>3, <1>4, <2>6, <3>1, GradientIs
    <3> QED  BY <1>4, <3>2 DEF HasGradient
  <2>8. DOMAIN f = 1 .. 1 /\ f[1] = (t - o) * Gain(w, x, s) /\ f[1] \in Int
    <3>1. moved(s).outputs[1] - fresh.outputs[1] = Gain(w, x, s)
      BY <1>3, <1>4, <2>3, <2>4, <2>5
    <3>2. f[1] = (t - o) * Gain(w, x, s) /\ DOMAIN f = 1 .. 1
      BY <1>4, <3>1, NetsAssumption
    <3> QED  BY <1>3, <2>5, <3>2
  <2>9. nearer(s) = SumFunction(f)
    OBVIOUS
  <2> HIDE DEF f, nearer
  <2>10. nearer(s) = (t - o) * Gain(w, x, s)
    BY <2>8, <2>9, SumOfOne
  <2> QED  BY <2>5, <2>7, <2>10
<1> QED  BY <1>2, <1>6 DEF IsDescent, SameSign

LEMMA ShiftedOK ==
    ASSUME NEW net, NetOK(net), NEW factor \in Int, NEW step \in [Weights -> Int]
    PROVE  NetOK(Shifted(net, factor, step))
<1> DEFINE w == [s \in Weights |-> net.weights[s] + Rounded(factor * step[s])]
           p == [net EXCEPT !.weights = w]
<1>1. Shifted(net, factor, step) = p
  BY DEF Shifted
<1>2. w \in [Weights -> Int]
  <2>1. \A s \in Weights : net.weights[s] \in Int /\ factor * step[s] \in Int
    BY DEF NetOK
  <2>2. \A n \in Int : Rounded(n) \in Int
    BY DEF Rounded, Unit
  <2>3. \A s \in Weights : net.weights[s] + Rounded(factor * step[s]) \in Int
    BY <2>1, <2>2
  <2> QED  BY <2>3
<1> HIDE DEF w
<1>3. /\ DOMAIN p = NetFields /\ p.weights = w /\ p.inputs = net.inputs /\ p.hidden = net.hidden
      /\ p.outputs = net.outputs /\ p.corrections = net.corrections /\ p.direction = net.direction
  BY DEF NetOK, NetFields
<1> HIDE DEF p
<1> QED  BY <1>1, <1>2, <1>3 DEF NetOK

\* A direction along which the weights are searched is one of integers.
LEMMA DirectionsOK ==
    ASSUME NEW net, NetOK(net), NEW g \in [Weights -> Int], NEW d \in Directions(net, g)
    PROVE  d \in [Weights -> Int]
<1> DEFINE straight == [s \in Weights |-> -g[s]]
           ribiere(b) == [s \in Weights |-> b * net.direction[s] - g[s]]
<1>1. d = straight \/ \E b \in Betas : d = ribiere(b)
  BY DEF Directions
<1>2. straight \in [Weights -> Int]
  OBVIOUS
<1>3. ASSUME NEW b \in Betas PROVE ribiere(b) \in [Weights -> Int]
  <2>1. b \in Int
    BY TrainingAssumption
  <2>2. \A s \in Weights : net.direction[s] \in Int
    BY DEF NetOK
  <2>3. \A s \in Weights : b * net.direction[s] - g[s] \in Int
    BY <2>1, <2>2
  <2> QED  BY <2>3
<1> QED  BY <1>1, <1>2, <1>3

LEMMA SearchedOK ==
    ASSUME NEW net, NetOK(net), NEW d \in [Weights -> Int], NEW s, s[1] \in Int, s[2] \in Int
    PROVE  NetOK(Searched(net, d, s))
<1> DEFINE shifted == Shifted(net, s[2], d)
           shown == Present(shifted, getInputNeurons(net))
           tried == [shown EXCEPT !.weights = net.weights]
           left == [tried EXCEPT !.direction = d, !.rate = s[1]]
           found == Shifted(left, s[1], d)
           all == [found EXCEPT !.isFirst = FALSE]
<1>1. NetOK(shifted)
  BY ShiftedOK
<1>2. PICK x \in Int : net.inputs = <<x, 1>>
  BY DEF NetOK
<1>3. getInputNeurons(net) = <<x>>
  BY <1>2, InputNeurons
<1> HIDE DEF shifted
<1>4. NetOK(shown)
  BY <1>1, <1>3, PresentOK
<1> HIDE DEF shown
<1>5. /\ DOMAIN left = NetFields /\ left.weights = net.weights /\ left.inputs = shown.inputs
      /\ left.hidden = shown.hidden /\ left.outputs = shown.outputs
      /\ left.corrections = shown.corrections /\ left.direction = d
  BY <1>4 DEF NetOK, NetFields
<1>6. Searched(net, d, s) = IF s[1] = 0 THEN left ELSE all
  BY DEF Searched, Tried, shown, shifted
<1> HIDE DEF left
<1>7. NetOK(left)
  BY <1>4, <1>5 DEF NetOK
<1>8. NetOK(found)
  BY <1>7, ShiftedOK
<1> HIDE DEF found
<1>9. /\ DOMAIN all = NetFields /\ all.weights = found.weights /\ all.inputs = found.inputs
      /\ all.hidden = found.hidden /\ all.outputs = found.outputs
      /\ all.corrections = found.corrections /\ all.direction = found.direction
  BY <1>8 DEF NetOK, NetFields
<1> HIDE DEF all
<1>10. NetOK(all)
  BY <1>8, <1>9 DEF NetOK
<1> QED  BY <1>6, <1>7, <1>10

\* Both ways of training leave integers.
LEMMA TrainOK ==
    ASSUME NEW net, NetOK(net), NEW t \in Int, NEW sliding, NEW nn_cg,
           NEW r \in Train(net, <<t>>, sliding, nn_cg)
    PROVE  NetOK(r)
<1> DEFINE sampled == AddError(net, <<t>>, sliding)
           g == Gradient(sampled, <<t>>)
<1>1. NetOK(sampled)
  <2> DEFINE losses == AddError(net, <<t>>, sliding).losses
  <2>1. sampled = [net EXCEPT !.losses = losses]
    BY DEF AddError, NetOK, NetFields
  <2> HIDE DEF losses
  <2>2. /\ DOMAIN sampled = NetFields /\ sampled.weights = net.weights /\ sampled.inputs = net.inputs
        /\ sampled.hidden = net.hidden /\ sampled.outputs = net.outputs
        /\ sampled.corrections = net.corrections /\ sampled.direction = net.direction
    BY <2>1 DEF NetOK, NetFields
  <2> HIDE DEF sampled
  <2> QED  BY <2>2 DEF NetOK
<1>2. r = sampled \/ r \in Conjugate(sampled, <<t>>) \/ r \in Backpropagate(sampled, <<t>>)
  BY DEF Train
<1> HIDE DEF sampled
<1>3. g \in [Weights -> Int]
  <2>1. DOMAIN g = Weights /\ g = [s \in Weights |-> g[s]]
    BY DEF Gradient
  <2>2. PICK x \in Int : sampled.inputs = <<x, 1>>
    BY <1>1 DEF NetOK
  <2>3. \A s \in Weights : Gradient(sampled, <<t>>)[s] \in Int
    BY <1>1, <2>2, GradientIs DEF NetOK
  <2> QED  BY <2>1, <2>3
<1>4. CASE r \in Backpropagate(sampled, <<t>>)
  <2> DEFINE c == [s \in Weights |-> g[s] + Momentum * sampled.corrections[s]]
             shifted == Shifted(sampled, 1, c)
  <2>1. r = [shifted EXCEPT !.corrections = c]
    BY <1>4 DEF Backpropagate
  <2>2. c \in [Weights -> Int]
    <3>1. \A s \in Weights : g[s] \in Int /\ sampled.corrections[s] \in Int
      BY <1>1, <1>3 DEF NetOK
    <3>2. Momentum \in Int
      BY TrainingAssumption
    <3> HIDE DEF g
    <3> QED  BY <3>1, <3>2
  <2> HIDE DEF c
  <2>3. NetOK(shifted)
    BY <1>1, <2>2, ShiftedOK
  <2> HIDE DEF shifted
  <2>4. /\ DOMAIN r = NetFields /\ r.weights = shifted.weights /\ r.inputs = shifted.inputs
        /\ r.hidden = shifted.hidden /\ r.outputs = shifted.outputs
        /\ r.corrections = c /\ r.direction = shifted.direction
    BY <2>1, <2>3 DEF NetOK, NetFields
  <2> QED  BY <2>2, <2>3, <2>4 DEF NetOK
<1>5. CASE r \in Conjugate(sampled, <<t>>)
  <2>1. PICK d \in Directions(sampled, g), s \in Searches(sampled) : r = Searched(sampled, d, s)
    BY <1>5 DEF Conjugate
  <2>2. d \in [Weights -> Int]
    BY <1>1, <1>3, <2>1, DirectionsOK
  <2>3. s[1] \in Int /\ s[2] \in Int
    <3>1. CASE s = <<0, 0>>
      BY <3>1
    <3>2. CASE s \in TrainingRates \X TrainingRates
      <4>1. s[1] \in TrainingRates /\ s[2] \in TrainingRates
        BY <3>2
      <4> QED  BY <4>1, TrainingAssumption
    <3>3. s = <<0, 0>> \/ s \in TrainingRates \X TrainingRates
      BY <2>1 DEF Searches
    <3> QED  BY <3>1, <3>2, <3>3
  <2> QED  BY <1>1, <2>1, <2>2, <2>3, SearchedOK
<1> QED  BY <1>1, <1>2, <1>4, <1>5

\* A network as it is made.
LEMMA NewNetOK ==
    ASSUME NEW net \in NewNets
    PROVE  NetOK(net)
<1> DEFINE ws == {[s \in Weights |-> w[Place(s)]] : w \in InitialWeights}
<1>1. /\ DOMAIN net = NetFields
      /\ net.inputs = Append([i \in 1 .. NumInputs |-> 0], 1)
      /\ net.hidden = Append([j \in 1 .. NumHidden |-> 0], Unit)
      /\ net.outputs = [k \in 1 .. NumOutputs |-> 0]
      /\ net.corrections = [s \in Weights |-> 0]
      /\ net.direction = [s \in Weights |-> 0]
      /\ net.weights \in ws
  <2> HIDE DEF ws
  <2> QED  BY DEF NewNets, NetFields, ws
<1>2. PICK w \in InitialWeights : net.weights = [s \in Weights |-> w[Place(s)]]
  BY <1>1
<1>3. w \in Seq(Int) /\ Len(w) = 3 * NumHidden + 1
  BY TrainingAssumption, NetsAssumption, LayersAssumption DEF NumFree
<1>4. ASSUME NEW s \in Weights
      PROVE  Place(s) \in 1 .. (3 * NumHidden + 1)
  <2>1. CASE \E i \in 1 .. 2, j \in 1 .. NumHidden : s = <<"IH", i, j>>
    <3>1. PICK i \in 1 .. 2, j \in 1 .. NumHidden : s = <<"IH", i, j>>
      BY <2>1
    <3>2. Place(s) = (j - 1) * 2 + i
      BY <3>1, LayerFacts DEF Place
    <3> QED  BY <3>2, LayerFacts
  <2>2. CASE \E j \in 1 .. HiddenBias : s = <<"HO", j, 1>>
    <3>1. PICK j \in 1 .. HiddenBias : s = <<"HO", j, 1>>
      BY <2>2
    <3>2. Place(s) = NumHidden * 2 + (1 - 1) * HiddenBias + j
      BY <3>1, LayerFacts DEF Place
    <3> QED  BY <3>2, LayerFacts
  <2> QED  BY <2>1, <2>2, LayerFacts
<1>5. net.weights \in [Weights -> Int]
  BY <1>2, <1>3, <1>4
<1>6. net.inputs = <<0, 1>>
  <2> DEFINE one == [i \in 1 .. NumInputs |-> 0]
  <2>1. one \in Seq(Int) /\ Len(one) = 1 /\ one[1] = 0
    BY NetsAssumption
  <2> DEFINE all == Append(one, 1)
  <2>2. net.inputs = all
    BY <1>1
  <2> HIDE DEF one
  <2>3. all \in Seq(Int) /\ Len(all) = 2 /\ all[1] = 0 /\ all[2] = 1
    <3>1. 0 \in Int /\ 1 \in Int /\ 1 \in 1 .. Len(one)
      BY <2>1
    <3>2. Append(one, 1) \in Seq(Int) /\ Len(Append(one, 1)) = Len(one) + 1
      <4>1. one \in Seq(Int) /\ 1 \in Int
        BY <2>1
      <4> QED  BY ONLY <4>1, AppendProperties
    <3>3. \A i \in 1 .. Len(one) : Append(one, 1)[i] = one[i]
      <4>1. one \in Seq(Int) /\ 1 \in Int
        BY <2>1
      <4> QED  BY ONLY <4>1, AppendProperties
    <3>4. Append(one, 1)[Len(one) + 1] = 1
      <4>1. one \in Seq(Int) /\ 1 \in Int
        BY <2>1
      <4> DEFINE y == Append(one, 1)
      <4>2. y[Len(one) + 1] = 1
        BY ONLY <4>1, AppendProperties
      <4> QED  BY <4>2
    <3>5. Len(all) = 2 /\ all[1] = 0 /\ all[2] = 1
      <4> DEFINE y == Append(one, 1)
      <4>1. Len(y) = 2 /\ y[2] = 1 /\ y[1] = one[1]
        <5> HIDE DEF y
        <5> QED  BY <2>1, <3>1, <3>2, <3>3, <3>4 DEF y
      <4> QED  BY <2>1, <4>1
    <3> QED  BY <3>2, <3>5
  <2> HIDE DEF all
  <2>4. all = <<0, 1>>
    BY <2>3
  <2> QED  BY <2>2, <2>4
<1>7. \A j \in 1 .. HiddenBias : net.hidden[j] \in Int
  <2> DEFINE zeros == [j \in 1 .. NumHidden |-> 0]
  <2>1. zeros \in Seq(Int) /\ Len(zeros) = NumHidden
    BY LayerFacts
  <2> DEFINE all == Append(zeros, Unit)
  <2>2. net.hidden = all
    BY <1>1
  <2> HIDE DEF zeros
  <2>3. all \in Seq(Int) /\ Len(all) = NumHidden + 1
    BY <2>1, AppendProperties DEF Unit
  <2> HIDE DEF all
  <2>4. \A j \in 1 .. HiddenBias : all[j] \in Int
    BY <2>3, LayerFacts
  <2> QED  BY <2>2, <2>4
<1>8. net.outputs[1] \in Int
  BY <1>1, NetsAssumption
<1>9. net.corrections \in [Weights -> Int] /\ net.direction \in [Weights -> Int]
  BY <1>1
<1>10. 0 \in Int
  OBVIOUS
<1>11. DOMAIN net = NetFields
  BY <1>1
<1> QED  BY <1>5, <1>6, <1>7, <1>8, <1>9, <1>10, <1>11 DEF NetOK

-----------------------------------------------------------------------------
(* What a policy chooses.                                                  *)

LEMMA ProjectedDomain ==
    ASSUME NEW w, NEW q \in Projected(w)
    PROVE  DOMAIN q = DOMAIN w
<1>1. PICK p \in projectionDuchi(w, One, Zero) :
         q = scale(Normalised(p), desArgs.epsilon, One -- (Whole(Len(w) - 1) ** desArgs.epsilon))
  BY DEF Projected
<1>2. DOMAIN p = DOMAIN w
  BY DEF projectionDuchi, Cut
<1>3. DOMAIN Normalised(p) = DOMAIN p
  BY DEF Normalised, mult
<1> QED  BY <1>1, <1>2, <1>3 DEF scale

LEMMA StepChoices ==
    ASSUME NEW v, NEW edges, NEW values, NEW gradient, DOMAIN gradient = DOMAIN values,
           NEW c \in Step(v, values, edges, gradient)
    PROVE  \E n \in DOMAIN values : c.action = values[n][1]
<1>1. PICK p \in Projected(gradient) :
         \E i \in DOMAIN p : c = Choice(values[i][1], Weigh(edges, v, values, p))
  BY DEF Step
<1>2. DOMAIN p = DOMAIN values
  BY ProjectedDomain
<1> QED  BY <1>1, <1>2 DEF Choice

\* A policy chooses one of the actions it is given.
LEMMA PolicyChoices ==
    ASSUME NEW v, NEW edges, NEW values, Len(values) \in Nat \ {0},
           DOMAIN values = 1 .. Len(values), NEW c \in m_policy(v, values, edges)
    PROVE  \E n \in DOMAIN values : c.action = values[n][1]
<1>1. CASE Len(values) = 1
  BY <1>1 DEF m_policy, Choice
<1>2. ASSUME NEW d \in EpsilonGreedy(v, values, edges)
      PROVE  \E n \in DOMAIN values : d.action = values[n][1]
  <2> DEFINE w == [i \in 1 .. Len(values) |->
                     IF i = 1 THEN One -- desArgs.epsilon ELSE desArgs.epsilon // Whole(Len(values) - 1)]
  <2>1. d \in {Choice(values[i][1], Weigh(edges, v, s, w)) : i \in 1 .. Len(values), s \in Sorted(values)}
    BY <1>2 DEF EpsilonGreedy
  <2> HIDE DEF w
  <2>2. PICK i \in 1 .. Len(values), s \in Sorted(values) : d = Choice(values[i][1], Weigh(edges, v, s, w))
    BY <2>1
  <2> QED  BY <2>2 DEF Choice
<1>3. ASSUME NEW d \in BoltzmannPolicy(v, values, edges)
      PROVE  \E n \in DOMAIN values : d.action = values[n][1]
  BY <1>3 DEF BoltzmannPolicy, Choice
<1>4. ASSUME NEW d \in WeightedPolicyLearner(v, values, edges)
      PROVE  \E n \in DOMAIN values : d.action = values[n][1]
  BY <1>4, StepChoices DEF WeightedPolicyLearner
<1>5. ASSUME NEW d \in FairActionLearner(v, values, edges)
      PROVE  \E n \in DOMAIN values : d.action = values[n][1]
  BY <1>5, StepChoices DEF FairActionLearner
<1>6. ASSUME NEW d \in GradientPolicyLearner(v, values, edges)
      PROVE  \E n \in DOMAIN values : d.action = values[n][1]
  BY <1>6, StepChoices DEF GradientPolicyLearner
<1>7. CASE Len(values) # 1
  <2>1. \/ c \in EpsilonGreedy(v, values, edges) \/ c \in BoltzmannPolicy(v, values, edges)
        \/ c \in WeightedPolicyLearner(v, values, edges) \/ c \in FairActionLearner(v, values, edges)
        \/ c \in GradientPolicyLearner(v, values, edges)
    BY <1>7 DEF m_policy
  <2> QED  BY <2>1, <1>2, <1>3, <1>4, <1>5, <1>6
<1> QED  BY <1>1, <1>7

\* The values in the order of a hook are those values.
LEMMA HookedFacts ==
    ASSUME NEW v, NEW values, Len(values) \in Nat \ {0}, DOMAIN values = 1 .. Len(values),
           NEW o \in Hooked(v, values)
    PROVE  /\ Len(o) \in Nat \ {0} /\ DOMAIN o = 1 .. Len(o)
           /\ \A n \in DOMAIN o : \E m \in DOMAIN values : o[n] = values[m]
<1> DEFINE S == {values[n] : n \in DOMAIN values}
           f == [n \in DOMAIN values |-> values[n]]
<1>1. IsFiniteSet(S) /\ Cardinality(S) \in Nat \ {0}
  <2>1. f \in Surjection(DOMAIN values, S)
    BY DEF Surjection
  <2>2. IsFiniteSet(DOMAIN values)
    BY FS_Interval
  <2>3. S # {}
    <3>1. 1 \in DOMAIN values
      OBVIOUS
    <3> QED  BY <3>1
  <2> HIDE DEF S, f
  <2>4. IsFiniteSet(S)
    BY <2>1, <2>2, FS_Surjection
  <2> QED  BY <2>3, <2>4, FS_EmptySet, FS_CardinalityType
<1>2. CASE o \in Sorted(values)
  <2>1. o \in [1 .. Cardinality(S) -> S]
    BY <1>2 DEF Sorted, Orders
  <2>2. \A n \in DOMAIN o : o[n] \in S
    BY <2>1
  <2>3. Len(o) = Cardinality(S) /\ DOMAIN o = 1 .. Cardinality(S)
    <3> HIDE DEF S
    <3> QED  BY <2>1, <1>1
  <2> QED  BY <2>2, <2>3, <1>1
<1>3. CASE o = values
  BY <1>3
<1> QED  BY <1>2, <1>3 DEF Hooked

-----------------------------------------------------------------------------
(* The networks that are presented a state.                                *)

\* Networks of integers.
NetsOK(ns) ==
    /\ ns = [i \in DOMAIN ns |-> ns[i]]
    /\ \A i \in DOMAIN ns : NetOK(ns[i])

\* A network that was presented the state of edge e last.
Presented(net, e) == \E x \in Int : fillStateVector(e) = <<x>> /\ net.inputs = <<x, 1>>

\* The state of an edge is one integer.
StatesOK == \A e \in Edges : \E x \in Int : fillStateVector(e) = <<x>>

LEMMA PresentFacts ==
    ASSUME StatesOK, NEW net, NetOK(net), NEW e \in Edges
    PROVE  NetOK(Present(net, fillStateVector(e))) /\ Presented(Present(net, fillStateVector(e)), e)
<1>1. PICK x \in Int : fillStateVector(e) = <<x>>
  BY DEF StatesOK
<1> DEFINE p == Present(net, <<x>>)
<1>2. NetOK(p)
  BY PresentOK
<1>3. p.inputs = <<x, 1>>
  BY PresentIs DEF NetOK
<1> HIDE DEF p
<1>4. Presented(p, e)
  BY <1>1, <1>3 DEF Presented
<1>5. Present(net, fillStateVector(e)) = p
  BY <1>1 DEF p
<1> QED  BY <1>2, <1>4, <1>5

\* The edges of a vertex have networks of their own.
LEMMA NetOfIsInjective ==
    ASSUME NEW v, NEW e \in Out(v), NEW f \in Out(v), NetOf(e) = NetOf(f)
    PROVE  e = f
<1>1. e = <<e[1], e[2]>> /\ f = <<f[1], f[2]>> /\ e[1] = v /\ f[1] = v
  BY EdgeFacts DEF Out
<1>2. Network[eindex(e)] = e /\ Network[eindex(f)] = f
  BY EdgeFacts DEF Out
<1> QED  BY <1>1, <1>2 DEF NetOf

LEMMA FedFacts ==
    ASSUME StatesOK, NEW ns, NetsOK(ns), NEW e \in Edges
    PROVE  /\ NetsOK(Fed(ns, e)) /\ DOMAIN Fed(ns, e) = DOMAIN ns
           /\ NetOf(e) \in DOMAIN ns => Presented(Fed(ns, e)[NetOf(e)], e)
           /\ \A i \in DOMAIN ns : i # NetOf(e) => Fed(ns, e)[i] = ns[i]
<1> DEFINE k == NetOf(e)
           p == Present(ns[k], fillStateVector(e))
<1>1. Fed(ns, e) = [ns EXCEPT ![k] = p]
  BY DEF Fed
<1>2. k \in DOMAIN ns => NetOK(p) /\ Presented(p, e)
  BY PresentFacts DEF NetsOK
<1> HIDE DEF p, k
<1>3. DOMAIN Fed(ns, e) = DOMAIN ns
  BY <1>1
<1>4. \A i \in DOMAIN ns : Fed(ns, e)[i] = IF i = k THEN p ELSE ns[i]
  BY <1>1
<1>5. \A i \in DOMAIN ns : NetOK(Fed(ns, e)[i])
  BY <1>2, <1>4 DEF NetsOK
<1>6. Fed(ns, e) = [i \in DOMAIN Fed(ns, e) |-> Fed(ns, e)[i]]
  BY <1>1
<1> QED  BY <1>2, <1>3, <1>4, <1>5, <1>6 DEF NetsOK, k

\* The networks ns once the edges in s are presented, as long as each has its own.
FedOnce(ns, s) ==
    [i \in DOMAIN ns |->
        IF \E e \in s : NetOf(e) = i THEN Present(ns[i], fillStateVector(CHOOSE e \in s : NetOf(e) = i))
                                     ELSE ns[i]]

\* One edge more.
LEMMA FedOnceStep ==
    ASSUME NEW ns, NetsOK(ns), NEW s, NEW x \in s,
           \A e, f \in s : NetOf(e) = NetOf(f) => e = f
    PROVE  FedOnce(ns, s) = Fed(FedOnce(ns, s \ {x}), x)
<1> DEFINE t == s \ {x}
           a == FedOnce(ns, s)
           b == FedOnce(ns, t)
           k == NetOf(x)
<1>1. /\ DOMAIN a = DOMAIN ns /\ DOMAIN b = DOMAIN ns
      /\ a = [i \in DOMAIN ns |-> a[i]] /\ b = [i \in DOMAIN ns |-> b[i]]
  BY DEF FedOnce
<1>2. ASSUME NEW i \in DOMAIN ns, i = k
      PROVE  a[i] = Present(b[i], fillStateVector(x))
  <2>1. ~ \E e \in t : NetOf(e) = i
    BY <1>2
  <2>2. b[i] = ns[i]
    BY <2>1 DEF FedOnce
  <2>3. \A e \in s : NetOf(e) = i <=> e = x
    BY <1>2
  <2>4. (CHOOSE e \in s : NetOf(e) = i) = x
    BY <2>3
  <2>5. a[i] = Present(ns[i], fillStateVector(CHOOSE e \in s : NetOf(e) = i))
    BY <2>3 DEF FedOnce
  <2> QED  BY <2>2, <2>4, <2>5
<1>3. ASSUME NEW i \in DOMAIN ns, i # k
      PROVE  a[i] = b[i]
  <2>1. \A e \in s : NetOf(e) = i <=> e \in t /\ NetOf(e) = i
    BY <1>3
  <2>2. CASE \E e \in t : NetOf(e) = i
    <3>1. PICK f \in t : NetOf(f) = i
      BY <2>2
    <3>2. (CHOOSE e \in s : NetOf(e) = i) = f /\ (CHOOSE e \in t : NetOf(e) = i) = f
      BY <3>1
    <3> QED  BY <3>1, <3>2 DEF FedOnce
  <2>3. CASE ~ \E e \in t : NetOf(e) = i
    BY <2>1, <2>3 DEF FedOnce
  <2> QED  BY <2>2, <2>3
<1>4. Fed(b, x) = [b EXCEPT ![k] = Present(b[k], fillStateVector(x))]
  BY DEF Fed
<1> HIDE DEF a, b, k
<1>5. /\ DOMAIN Fed(b, x) = DOMAIN ns
      /\ \A i \in DOMAIN ns : Fed(b, x)[i] = a[i]
      /\ Fed(b, x) = [i \in DOMAIN ns |-> Fed(b, x)[i]]
  BY <1>1, <1>2, <1>3, <1>4
<1>6. a = Fed(b, x)
  BY <1>1, <1>5
<1> QED  BY <1>6 DEF a, b

\* The order in which FedAll presents the state does not matter.
LEMMA FedAllIsOnce ==
    ASSUME NEW ns, NetsOK(ns), NEW S, IsFiniteSet(S),
           \A e, f \in S : NetOf(e) = NetOf(f) => e = f
    PROVE  FedAll(ns, S) = FedOnce(ns, S)
<1> DEFINE pick(s) == CHOOSE x \in s : TRUE
           Folds(it) == it = [s \in SUBSET S |-> IF s = {} THEN ns ELSE Fed(it[s \ {pick(s)}], pick(s))]
           fold == CHOOSE it : Folds(it)
           G == [s \in SUBSET S |-> FedOnce(ns, s)]
<1>1. FedAll(ns, S) = fold[S]
  BY DEF FedAll, FoldSet, MapThenFoldSet
<1>2. \A s : s # {} => pick(s) \in s
  OBVIOUS
<1> HIDE DEF pick
<1>3. FedOnce(ns, {}) = ns
  BY DEF FedOnce, NetsOK
<1>4. ASSUME NEW s \in SUBSET S, s # {}
      PROVE  FedOnce(ns, s) = Fed(FedOnce(ns, s \ {pick(s)}), pick(s))
  BY <1>2, <1>4, FedOnceStep
<1>5. Folds(G)
  <2>1. \A s \in SUBSET S : s \ {pick(s)} \in SUBSET S
    OBVIOUS
  <2>2. \A s \in SUBSET S : G[s] = IF s = {} THEN ns ELSE Fed(G[s \ {pick(s)}], pick(s))
    BY <2>1, <1>3, <1>4
  <2> QED  BY <2>2
<1>6. Folds(fold)
  <2> HIDE DEF Folds, G
  <2> QED  BY <1>5
<1> HIDE DEF fold, G
<1>7. \A s \in SUBSET S : fold[s] = IF s = {} THEN ns ELSE Fed(fold[s \ {pick(s)}], pick(s))
  BY <1>6
<1> DEFINE Bad == {n \in Nat : \E s \in SUBSET S : Cardinality(s) = n /\ fold[s] # FedOnce(ns, s)}
<1>8. Bad = {}
  <2> SUFFICES ASSUME Bad # {} PROVE FALSE
    OBVIOUS
  <2>1. PICK n \in Bad : \A m \in Bad : n <= m
    BY Least
  <2>2. PICK s \in SUBSET S : Cardinality(s) = n /\ fold[s] # FedOnce(ns, s)
    OBVIOUS
  <2>3. s # {} /\ pick(s) \in s
    BY <2>2, <1>2, <1>3, <1>7
  <2> DEFINE t == s \ {pick(s)}
  <2>4. t \in SUBSET S /\ IsFiniteSet(s) /\ Cardinality(t) = n - 1 /\ Cardinality(t) \in Nat
    <3>1. IsFiniteSet(s)
      BY FS_Subset
    <3>2. IsFiniteSet(t) /\ Cardinality(t) = Cardinality(s) - 1
      BY <3>1, <2>3, FS_RemoveElement
    <3> QED  BY <3>1, <3>2, <2>2, FS_CardinalityType
  <2>5. fold[t] # FedOnce(ns, t)
    BY <2>2, <2>3, <1>4, <1>7
  <2> HIDE DEF t
  <2>6. n - 1 \in Bad
    BY <2>4, <2>5
  <2> QED  BY <2>1, <2>6
<1>9. \A s \in SUBSET S : Cardinality(s) \in Nat
  BY FS_Subset, FS_CardinalityType
<1>10. fold[S] = FedOnce(ns, S)
  BY <1>8, <1>9
<1> QED  BY <1>1, <1>10

\* Every edge of a set of edges of a vertex finds its own state in its network.
LEMMA FedAllFacts ==
    ASSUME StatesOK, NEW ns, NetsOK(ns), NEW v, NEW S \in SUBSET Out(v)
    PROVE  /\ NetsOK(FedAll(ns, S)) /\ DOMAIN FedAll(ns, S) = DOMAIN ns
           /\ \A e \in S : NetOf(e) \in DOMAIN ns => Presented(FedAll(ns, S)[NetOf(e)], e)
<1> DEFINE all == FedOnce(ns, S)
<1>1. \A e, f \in S : NetOf(e) = NetOf(f) => e = f
  BY NetOfIsInjective
<1>2. IsFiniteSet(S)
  <2>1. S \in SUBSET Edges
    BY DEF Out
  <2> QED  BY <2>1, EdgesAreIndexed, FS_Subset
<1>3. FedAll(ns, S) = all
  BY <1>1, <1>2, FedAllIsOnce
<1>4. DOMAIN all = DOMAIN ns /\ all = [i \in DOMAIN ns |-> all[i]]
  BY DEF FedOnce
<1>5. ASSUME NEW i \in DOMAIN ns
      PROVE  NetOK(all[i])
  <2>1. NetOK(ns[i])
    BY DEF NetsOK
  <2>2. all[i] = ns[i] \/ \E e \in S : all[i] = Present(ns[i], fillStateVector(e))
    BY DEF FedOnce
  <2>3. \A e \in S : NetOK(Present(ns[i], fillStateVector(e)))
    BY <2>1, PresentFacts DEF Out
  <2> HIDE DEF all
  <2> QED  BY <2>1, <2>2, <2>3
<1>6. ASSUME NEW e \in S, NetOf(e) \in DOMAIN ns
      PROVE  Presented(all[NetOf(e)], e)
  <2>1. (CHOOSE f \in S : NetOf(f) = NetOf(e)) = e
    BY <1>1
  <2>2. all[NetOf(e)] = Present(ns[NetOf(e)], fillStateVector(e))
    BY <1>6, <2>1 DEF FedOnce
  <2>3. NetOK(ns[NetOf(e)]) /\ e \in Edges
    BY <1>6 DEF NetsOK, Out
  <2> HIDE DEF all
  <2> QED  BY <2>2, <2>3, PresentFacts
<1> HIDE DEF all
<1> QED  BY <1>3, <1>4, <1>5, <1>6 DEF NetsOK

-----------------------------------------------------------------------------
(* The handlers of a response.                                             *)

VertexFields ==
    {"next_action", "actual_reward", "regret_absolute", "incentive_deviate", "num_events_processed",
     "mean_reward", "expert_normal", "expert_absolute", "expert_positive", "expert_negative",
     "circBuffer", "coeff_var"}

\* An action of v that was decided leads along an edge.
ActionOK(v, action) == action \in Int /\ (Degree(v) > 0 /\ action >= 0 => <<v, action>> \in Edges)

\* The metrics a state may consist of are quotients.
MetricsOK(w) == w.expert_normal \in Rationals /\ w.expert_absolute \in Rationals

VertexOK(properties) ==
    /\ DOMAIN properties = Vertices
    /\ \A v \in Vertices : /\ DOMAIN properties[v] = VertexFields
                           /\ ActionOK(v, properties[v].next_action)
                           /\ MetricsOK(properties[v])

OwnState(p_sample) == ~ desArgs.rl_hybrid => p_sample.inputs = p_sample.state

NetIndices == IF desArgs.rl /\ desArgs.state THEN Indices ELSE {}

\* What a handler is given, and leaves behind.
StateOK(s) ==
    /\ DOMAIN s = {"vertex", "edge", "qStats", "nets", "sample"}
    /\ VertexOK(s.vertex)
    /\ NetsOK(s.nets) /\ DOMAIN s.nets = NetIndices
    /\ OwnState(s.sample)

\* A handler that leaves the networks alone.
LEMMA OtherProperties ==
    ASSUME NEW s, StateOK(s), NEW t, DOMAIN t = DOMAIN s, t.nets = s.nets, t.sample = s.sample,
           NEW v \in Vertices, NEW w, t.vertex = [s.vertex EXCEPT ![v] = w],
           DOMAIN w = VertexFields, ActionOK(v, w.next_action), MetricsOK(w)
    PROVE  StateOK(t)
  BY DEF StateOK, VertexOK

\* What an entry is paid is a whole number.
LEMMA RewardIsWhole ==
    ASSUME now \in Int, NEW top \in Int
    PROVE  Reward(top) \in Rationals /\ Reward(top)[1] \in Int
  BY Wholes, RationalFacts DEF Reward

LEMMA RatedOK ==
    ASSUME now \in Int, NEW s, StateOK(s), NEW v \in Vertices, NEW from, NEW top \in Int
    PROVE  StateOK(Rated(s, v, from, top))
<1> DEFINE reward == Reward(top)
           s1 == ResponseStats(s, v, top)
           s2 == ExpertNormal(s1, v, reward)
           s3 == ExpertAbsolute(s2, v, reward)
           s4 == ExpertPositive(s3, v, from, reward)
           s5 == ExpertNegative(s4, v, from, reward)
<1>0. ASSUME NEW r, StateOK(r)
      PROVE  "vertex" \in DOMAIN r /\ v \in DOMAIN r.vertex /\ DOMAIN r.vertex[v] = VertexFields
             /\ ActionOK(v, r.vertex[v].next_action) /\ MetricsOK(r.vertex[v])
  BY <1>0 DEF StateOK, VertexOK
<1>00. reward \in Rationals
  BY RewardIsWhole
<1>1. StateOK(s1)
  <2> DEFINE size == s.vertex[v].num_events_processed + 1
             x == IF top - now > 0 THEN Whole(top - now) ELSE Zero
             mean == IF size < 2 THEN x ELSE Mean(size + 1, s.vertex[v].mean_reward, x)
             w == [s.vertex[v] EXCEPT !.num_events_processed = size, !.mean_reward = mean]
  <2>1. s1 = [s EXCEPT !.vertex = [s.vertex EXCEPT ![v] = w]]
    BY <1>0 DEF ResponseStats, VertexFields
  <2> HIDE DEF size, x, mean, s1
  <2>2. DOMAIN w = VertexFields /\ w.next_action = s.vertex[v].next_action /\ MetricsOK(w)
    BY <1>0 DEF VertexFields, MetricsOK
  <2> HIDE DEF w
  <2>3. DOMAIN s1 = DOMAIN s /\ s1.nets = s.nets /\ s1.sample = s.sample
        /\ s1.vertex = [s.vertex EXCEPT ![v] = w]
    BY <2>1 DEF StateOK
  <2> QED  BY <1>0, <2>2, <2>3, OtherProperties
<1>2. ASSUME NEW r, StateOK(r)
      PROVE  /\ StateOK(ExpertNormal(r, v, reward)) /\ StateOK(ExpertAbsolute(r, v, reward))
             /\ StateOK(ExpertPositive(r, v, from, reward)) /\ StateOK(ExpertNegative(r, v, from, reward))
  <2>1. ASSUME NEW f \in VertexFields \ {"next_action"}, NEW x, NEW t,
               f \in {"expert_normal", "expert_absolute"} => x \in Rationals,
               t = [r EXCEPT !.vertex = [r.vertex EXCEPT ![v] = [r.vertex[v] EXCEPT ![f] = x]]]
        PROVE  StateOK(t)
    <3> DEFINE w == [r.vertex[v] EXCEPT ![f] = x]
    <3>1. DOMAIN w = VertexFields /\ w.next_action = r.vertex[v].next_action
      BY <1>0, <1>2 DEF VertexFields
    <3>0. MetricsOK(w)
      BY <1>0, <1>2, <2>1 DEF MetricsOK, VertexFields
    <3> HIDE DEF w
    <3>2. DOMAIN t = DOMAIN r /\ t.nets = r.nets /\ t.sample = r.sample
          /\ t.vertex = [r.vertex EXCEPT ![v] = w]
      BY <1>2, <2>1 DEF StateOK, w
    <3> QED  BY <1>0, <1>2, <3>0, <3>1, <3>2, OtherProperties
  <2>2. {"expert_normal", "expert_absolute", "expert_positive", "expert_negative"}
          \subseteq VertexFields \ {"next_action"}
    BY DEF VertexFields
  <2>3. StateOK(ExpertNormal(r, v, reward))
    <3>1. ExpertNormal(r, v, reward)
            = [r EXCEPT !.vertex = [r.vertex EXCEPT ![v] =
                 [r.vertex[v] EXCEPT !["expert_normal"] = r.vertex[v].expert_normal ++ reward]]]
      BY <1>0, <1>2 DEF ExpertNormal
    <3>2. r.vertex[v].expert_normal ++ reward \in Rationals
      BY <1>0, <1>00, <1>2, Arithmetic DEF MetricsOK
    <3> QED  BY <2>1, <2>2, <3>1, <3>2
  <2>4. StateOK(ExpertAbsolute(r, v, reward))
    <3>1. ExpertAbsolute(r, v, reward)
            = [r EXCEPT !.vertex = [r.vertex EXCEPT ![v] =
                 [r.vertex[v] EXCEPT !["expert_absolute"] = r.vertex[v].expert_absolute -- reward]]]
      BY <1>0, <1>2 DEF ExpertAbsolute
    <3>2. r.vertex[v].expert_absolute -- reward \in Rationals
      BY <1>0, <1>00, <1>2, Arithmetic DEF MetricsOK
    <3> QED  BY <2>1, <2>2, <3>1, <3>2
  <2>5. StateOK(ExpertPositive(r, v, from, reward))
    <3> DEFINE x == r.vertex[v].expert_positive ++ Greater(reward -- Expected(r, v, from), Zero)
    <3>1. ExpertPositive(r, v, from, reward)
            = [r EXCEPT !.vertex = [r.vertex EXCEPT ![v] = [r.vertex[v] EXCEPT !["expert_positive"] = x]]]
      BY <1>0, <1>2 DEF ExpertPositive
    <3> HIDE DEF x
    <3> QED  BY <2>1, <2>2, <3>1
  <2>6. StateOK(ExpertNegative(r, v, from, reward))
    <3> DEFINE x == r.vertex[v].expert_negative ++ Greater(Expected(r, v, from) -- reward, Zero)
    <3>1. ExpertNegative(r, v, from, reward)
            = [r EXCEPT !.vertex = [r.vertex EXCEPT ![v] = [r.vertex[v] EXCEPT !["expert_negative"] = x]]]
      BY <1>0, <1>2 DEF ExpertNegative
    <3> HIDE DEF x
    <3> QED  BY <2>1, <2>2, <3>1
  <2> QED  BY <2>3, <2>4, <2>5, <2>6
<1> HIDE DEF reward
<1>3. StateOK(s2)
  BY <1>1, <1>2
<1>4. StateOK(s3)
  BY <1>2, <1>3
<1>5. StateOK(s4)
  BY <1>2, <1>4
<1>6. StateOK(s5)
  BY <1>2, <1>5
<1>7. Rated(s, v, from, top) = IF desArgs.expert THEN s5 ELSE s
  BY DEF Rated, reward
<1> HIDE DEF s5
<1> QED  BY <1>6, <1>7

\* The fields of a vertex, and its decision.
LEMMA VertexOf ==
    ASSUME NEW s, StateOK(s), NEW v \in Vertices
    PROVE  /\ "vertex" \in DOMAIN s /\ v \in DOMAIN s.vertex /\ DOMAIN s.vertex[v] = VertexFields
           /\ ActionOK(v, s.vertex[v].next_action) /\ MetricsOK(s.vertex[v])
  BY DEF StateOK, VertexOK

\* A handler that decides on the next action, and leaves the networks alone.
LEMMA Decides ==
    ASSUME NEW s, StateOK(s), NEW t, DOMAIN t = DOMAIN s, t.nets = s.nets, t.sample = s.sample,
           NEW v \in Vertices, NEW action, ActionOK(v, action),
           t.vertex = [s.vertex EXCEPT ![v] = [s.vertex[v] EXCEPT !.next_action = action]]
    PROVE  StateOK(t)
<1> DEFINE w == [s.vertex[v] EXCEPT !.next_action = action]
<1>1. DOMAIN w = VertexFields /\ w.next_action = action /\ MetricsOK(w)
  BY VertexOf DEF VertexFields, MetricsOK
<1> HIDE DEF w
<1>2. t.vertex = [s.vertex EXCEPT ![v] = w]
  BY DEF w
<1> QED  BY <1>1, <1>2, OtherProperties

LEMMA VariedOK ==
    ASSUME NEW s, StateOK(s), NEW v \in Vertices, NEW from
    PROVE  StateOK(Varied(s, v, from))
<1> SUFFICES ASSUME Varied(s, v, from) # s PROVE StateOK(Varied(s, v, from))
  OBVIOUS
<1>1. PICK b, x : Varied(s, v, from) = [s EXCEPT !.vertex[v].circBuffer = b, !.vertex[v].coeff_var = x]
  BY DEF Varied
<1> DEFINE t == Varied(s, v, from)
           w == [s.vertex[v] EXCEPT !.circBuffer = b, !.coeff_var = x]
<1>2. "vertex" \in DOMAIN s /\ v \in DOMAIN s.vertex /\ DOMAIN s.vertex[v] = VertexFields
      /\ ActionOK(v, s.vertex[v].next_action) /\ MetricsOK(s.vertex[v])
  BY VertexOf
<1>3. t = [s EXCEPT !.vertex = [s.vertex EXCEPT ![v] = w]]
  BY <1>1, <1>2 DEF VertexFields
<1>4. DOMAIN w = VertexFields /\ w.next_action = s.vertex[v].next_action /\ MetricsOK(w)
  BY <1>2 DEF VertexFields, MetricsOK
<1> HIDE DEF t, w
<1>5. DOMAIN t = DOMAIN s /\ t.nets = s.nets /\ t.sample = s.sample
      /\ t.vertex = [s.vertex EXCEPT ![v] = w]
  BY <1>3 DEF StateOK
<1>6. StateOK(t)
  BY <1>2, <1>4, <1>5, OtherProperties
<1> QED  BY <1>6 DEF t

LEMMA OnlyActionOK ==
    ASSUME NEW s, StateOK(s), NEW v \in Vertices, Degree(v) = 1, NEW reward, NEW i
    PROVE  StateOK(OnlyAction(s, v, reward, i))
<1> DEFINE e == <<v, Targets(v)[1]>>
           st == Push(s.qStats[i], reward)
           t == OnlyAction(s, v, reward, i)
<1>1. e \in Edges /\ e[2] = Targets(v)[1]
  BY TargetsFacts
<1>2. ActionOK(v, Targets(v)[1])
  BY <1>1, EdgeFacts DEF ActionOK
<1>3. t = [s EXCEPT !.qStats[i] = st, !.edge[e].q_val = st.mean, !.vertex[v].next_action = e[2]]
  BY DEF OnlyAction
<1> HIDE DEF t, st
<1>4. DOMAIN t = DOMAIN s /\ t.nets = s.nets /\ t.sample = s.sample
      /\ t.vertex = [s.vertex EXCEPT ![v] = [s.vertex[v] EXCEPT !.next_action = Targets(v)[1]]]
  BY <1>1, <1>3 DEF StateOK
<1>5. StateOK(t)
  BY <1>2, <1>4, Decides
<1> QED  BY <1>5 DEF t

LEMMA NoActionOK ==
    ASSUME NEW s, StateOK(s), NEW v \in Vertices, Degree(v) = 0
    PROVE  StateOK(NoAction(s, v))
<1> DEFINE t == NoAction(s, v)
<1>1. ActionOK(v, 0)
  BY DEF ActionOK
<1>2. DOMAIN t = DOMAIN s /\ t.nets = s.nets /\ t.sample = s.sample
      /\ t.vertex = [s.vertex EXCEPT ![v] = [s.vertex[v] EXCEPT !.next_action = 0]]
  BY DEF NoAction, StateOK
<1> HIDE DEF t
<1>3. StateOK(t)
  BY <1>1, <1>2, Decides
<1> QED  BY <1>3 DEF t

LEMMA DefaultResponseOK ==
    ASSUME NEW s, StateOK(s), NEW v, NEW from, NEW top, NEW r \in DefaultResponse(s, v, from, top)
    PROVE  StateOK(r)
<1> DEFINE e == <<v, from>>
           st == Push(s.qStats[eindex(e)], Whole(top - now))
<1>1. r = s \/ r = [s EXCEPT !.qStats[eindex(e)] = st, !.edge[e].q_val = st.mean]
  BY DEF DefaultResponse
<1> HIDE DEF st, e
<1>2. DOMAIN r = DOMAIN s /\ r.nets = s.nets /\ r.sample = s.sample /\ r.vertex = s.vertex
  BY <1>1 DEF StateOK
<1> QED  BY <1>2 DEF StateOK

\* What the policy is asked about: the targets of v, and whatever it chooses is one of them.
LEMMA ChosenTarget ==
    ASSUME NEW v \in Vertices, Degree(v) > 1, NEW x, NEW values,
           values = [n \in 1 .. Degree(v) |-> <<Targets(v)[n], x[n]>>],
           NEW o, o = values \/ o \in Hooked(v, values), NEW edges, NEW c \in m_policy(v, o, edges)
    PROVE  <<v, c.action>> \in Edges /\ ActionOK(v, c.action)
<1>1. Degree(v) \in Nat
  BY TargetsFacts
<1>2. Len(values) \in Nat \ {0} /\ DOMAIN values = 1 .. Len(values) /\ Len(values) = Degree(v)
  BY <1>1
<1>3. /\ Len(o) \in Nat \ {0} /\ DOMAIN o = 1 .. Len(o)
      /\ \A n \in DOMAIN o : \E m \in DOMAIN values : o[n] = values[m]
  <2>1. CASE o = values
    BY <2>1, <1>2
  <2>2. CASE o \in Hooked(v, values)
    BY ONLY <2>2, <1>2, HookedFacts
  <2> QED  BY <2>1, <2>2
<1>4. PICK n \in DOMAIN o : c.action = o[n][1]
  BY <1>3, PolicyChoices
<1>5. PICK m \in DOMAIN values : o[n] = values[m]
  BY <1>3
<1>6. m \in 1 .. Degree(v) /\ c.action = Targets(v)[m]
  BY <1>2, <1>4, <1>5
<1>7. <<v, c.action>> \in Edges
  BY <1>6, TargetsFacts
<1> QED  BY <1>7, EdgeFacts DEF ActionOK

LEMMA RLResponseOK ==
    ASSUME NEW s, StateOK(s), NEW v \in Vertices, NEW from, NEW top, NEW r \in RLResponse(s, v, from, top)
    PROVE  StateOK(r)
<1> DEFINE x == [n \in 1 .. Degree(v) |-> s.edge[<<v, Targets(v)[n]>>].q_val]
           values == [n \in 1 .. Degree(v) |-> <<Targets(v)[n], s.edge[<<v, Targets(v)[n]>>].q_val>>]
<1>1. Degree(v) \in Nat
  BY TargetsFacts
<1>2. CASE Degree(v) = 1
  <2>1. r = OnlyAction(s, v, Reward(top), eindex(<<v, from>>))
    BY <1>2 DEF RLResponse
  <2> QED  BY <2>1, <1>2, OnlyActionOK
<1>3. CASE Degree(v) = 0
  <2>1. r = NoAction(s, v)
    BY <1>3 DEF RLResponse
  <2> QED  BY <2>1, <1>3, NoActionOK
<1>4. CASE Degree(v) > 1
  <2>1. PICK c \in m_policy(v, values, s.edge) : r = RLUpdate(s, v, from, Reward(top), c)
    BY <1>4 DEF RLResponse
  <2>2. values = [n \in 1 .. Degree(v) |-> <<Targets(v)[n], x[n]>>]
    OBVIOUS
  <2> HIDE DEF x, values
  <2>3. ActionOK(v, c.action)
    BY <1>4, <2>2, ChosenTarget
  <2>4. DOMAIN r = DOMAIN s /\ r.nets = s.nets /\ r.sample = s.sample
        /\ r.vertex = [s.vertex EXCEPT ![v] = [s.vertex[v] EXCEPT !.next_action = c.action]]
    BY <2>1 DEF StateOK, RLUpdate
  <2> QED  BY <2>3, <2>4, Decides
<1> QED  BY <1>1, <1>2, <1>3, <1>4

\* What a network predicts is a quotient.
LEMMA Predictions ==
    ASSUME NEW ns, NEW e, Output(ns, e) \in Int
    PROVE  Predicted(ns, e) \in Rationals
<1>1. Unit \in Int \ {0}
  BY DEF Unit
<1> QED  BY <1>1, ReducedIsRational DEF Predicted

\* Its inputs are the state of the edge it was presented last.
LEMMA OwnSample ==
    ASSUME NEW ns, NEW e, Presented(ns[NetOf(e)], e)
    PROVE  Sampled(ns, e).inputs = Sampled(ns, e).state
<1>1. PICK x \in Int : fillStateVector(e) = <<x>> /\ ns[NetOf(e)].inputs = <<x, 1>>
  BY DEF Presented
<1>2. getInputNeurons(ns[NetOf(e)]) = <<x>>
  BY <1>1, InputNeurons
<1> QED  BY <1>1, <1>2 DEF Sampled

LEMMA NetOfIsIndex ==
    ASSUME NEW e \in Edges
    PROVE  NetOf(e) \in Indices
  BY EdgeFacts DEF NetOf, Indices

\* The networks that are left when one of them is trained.
LEMMA TrainedNets ==
    ASSUME desArgs \in Configs, NEW ns, NetsOK(ns), NEW oldE, NetOf(oldE) \in DOMAIN ns,
           NEW newE, NetOf(newE) \in DOMAIN ns, NEW reward \in Int,
           NEW t \in Trained(ns, oldE, newE, reward)
    PROVE  NetsOK([ns EXCEPT ![NetOf(oldE)] = t]) /\ DOMAIN [ns EXCEPT ![NetOf(oldE)] = t] = DOMAIN ns
<1> DEFINE k == NetOf(oldE)
           target == Unit * reward + desArgs.q_lambda[1] * Output(ns, newE)
<1>1. t \in Train(ns[k], <<target>>, desArgs.sliding, desArgs.nn_cg)
  BY DEF Trained
<1>2. target \in Int
  <2>1. Output(ns, newE) \in Int
    BY DEF Output, NetsOK, NetOK
  <2>2. desArgs.q_lambda \in Rationals
    BY ConfigsAssumption
  <2>3. desArgs.q_lambda[1] \in Int
    BY <2>2, RationalFacts
  <2> QED  BY <2>1, <2>3 DEF Unit
<1> HIDE DEF k, target
<1>3. NetOK(ns[k])
  BY DEF NetsOK, k
<1>4. NetOK(t)
  BY <1>1, <1>2, <1>3, TrainOK
<1> QED  BY <1>4 DEF NetsOK

LEMMA DeviatedOK ==
    ASSUME NEW s, StateOK(s), NEW v \in Vertices, NEW reward, NEW o
    PROVE  /\ StateOK(Deviated(s, v, reward, o))
           /\ Deviated(s, v, reward, o).nets = s.nets
<1> DEFINE x == Greater(Zero, o[1][2] -- reward)
           w == [s.vertex[v] EXCEPT !.incentive_deviate = x]
           t == [s EXCEPT !.vertex[v].incentive_deviate = x]
<1>1. t = [s EXCEPT !.vertex = [s.vertex EXCEPT ![v] = w]]
  BY VertexOf
<1>2. DOMAIN w = VertexFields /\ w.next_action = s.vertex[v].next_action /\ MetricsOK(w)
  BY VertexOf DEF VertexFields, MetricsOK
<1>3. Deviated(s, v, reward, o) = IF ~ desArgs.incentive THEN s ELSE t
  BY DEF Deviated
<1> HIDE DEF t, w
<1>4. DOMAIN t = DOMAIN s /\ t.nets = s.nets /\ t.sample = s.sample
      /\ t.vertex = [s.vertex EXCEPT ![v] = w]
  BY <1>1 DEF StateOK
<1>5. StateOK(t)
  BY <1>2, <1>4, OtherProperties, VertexOf
<1> QED  BY <1>3, <1>4, <1>5

LEMMA RegrettedOK ==
    ASSUME NEW s, StateOK(s), NEW v \in Vertices, NEW from, NEW reward, NEW o
    PROVE  /\ StateOK(Regretted(s, v, from, reward, o))
           /\ Regretted(s, v, from, reward, o).nets = s.nets
<1> DEFINE value(u) == o[CHOOSE n \in DOMAIN o : o[n][1] = u][2]
           actual == s.vertex[v].actual_reward ++ reward
           total(e) == s.edge[e].total_reward ++ (IF e[2] = from THEN reward ELSE value(e[2]))
           edges == [e \in Edges |-> IF e[1] = v THEN [s.edge[e] EXCEPT !.total_reward = total(e)] ELSE s.edge[e]]
           x == total(<<v, o[1][1]>>) -- actual
           w == [s.vertex[v] EXCEPT !.actual_reward = actual, !.regret_absolute = x]
           t == [s EXCEPT !.vertex[v].actual_reward = actual, !.vertex[v].regret_absolute = x, !.edge = edges]
<1>1. Regretted(s, v, from, reward, o) = IF ~ desArgs.regret THEN s ELSE t
  BY DEF Regretted
<1> HIDE DEF actual, x, edges
<1>2. t = [s EXCEPT !.vertex = [s.vertex EXCEPT ![v] = w], !.edge = edges]
  BY VertexOf DEF VertexFields
<1>3. DOMAIN w = VertexFields /\ w.next_action = s.vertex[v].next_action /\ MetricsOK(w)
  BY VertexOf DEF VertexFields, MetricsOK
<1> HIDE DEF t, w
<1>4. DOMAIN t = DOMAIN s /\ t.nets = s.nets /\ t.sample = s.sample
      /\ t.vertex = [s.vertex EXCEPT ![v] = w]
  BY <1>2 DEF StateOK
<1>5. StateOK(t)
  BY <1>3, <1>4, OtherProperties, VertexOf
<1> QED  BY <1>1, <1>4, <1>5

\* A handler that trains a network, and decides.
LEMMA Trains ==
    ASSUME NEW s, StateOK(s), NEW t, DOMAIN t = DOMAIN s,
           NetsOK(t.nets), DOMAIN t.nets = DOMAIN s.nets, OwnState(t.sample),
           NEW v \in Vertices, NEW action, ActionOK(v, action),
           t.vertex = [s.vertex EXCEPT ![v] = [s.vertex[v] EXCEPT !.next_action = action]]
    PROVE  StateOK(t)
<1> DEFINE w == [s.vertex[v] EXCEPT !.next_action = action]
<1>1. DOMAIN w = VertexFields /\ w.next_action = action /\ MetricsOK(w)
  BY VertexOf DEF VertexFields, MetricsOK
<1> HIDE DEF w
<1>2. t.vertex = [s.vertex EXCEPT ![v] = w]
  BY DEF w
<1>3. VertexOK(t.vertex)
  BY <1>1, <1>2 DEF VertexOK, StateOK
<1> QED  BY <1>3 DEF StateOK

LEMMA FullUpdateOK ==
    ASSUME StatesOK, desArgs \in Configs, desArgs.rl, desArgs.state, NEW s, StateOK(s), NEW v \in Vertices,
           NEW from, <<v, from>> \in Edges, NEW reward, reward[1] \in Int, NEW o, NEW c, <<v, c.action>> \in Edges,
           NEW r \in FullUpdate(s, v, from, reward, o, c)
    PROVE  StateOK(r)
<1> DEFINE oldE == <<v, from>>
           newE == <<v, c.action>>
           h == Deviated(Regretted(s, v, from, reward, o), v, reward, o)
           all == FedAll(s.nets, Out(v))
           ready == Fed(all, newE)
           edges == [e \in Edges |-> [c.edge[e] EXCEPT !.total_reward = h.edge[e].total_reward]]
           after(t) == Fed([ready EXCEPT ![NetOf(oldE)] = t], oldE)
           left(t) == [edges EXCEPT ![oldE].q_val = Predicted(after(t), oldE)]
           one(t) == [h EXCEPT !.nets = after(t), !.sample = Sampled(ready, oldE),
                               !.vertex[v].next_action = c.action, !.edge = left(t)]
<1>0. FullUpdate(s, v, from, reward, o, c) = {one(t) : t \in Trained(ready, oldE, newE, reward[1])}
  BY Zenon DEF FullUpdate
<1> HIDE DEF one
<1>1. PICK t \in Trained(ready, oldE, newE, reward[1]) : r = one(t)
  BY <1>0
<1>2. StateOK(h) /\ h.nets = s.nets
  BY RegrettedOK, DeviatedOK
<1> HIDE DEF h
<1>3. NetsOK(s.nets) /\ DOMAIN s.nets = Indices
  BY DEF StateOK, NetIndices
<1>4. oldE \in Edges /\ newE \in Edges /\ oldE \in Out(v) /\ newE \in Out(v) /\ NetOf(oldE) \in Indices /\ NetOf(newE) \in Indices
  BY NetOfIsIndex DEF Out
<1>5. ActionOK(v, c.action)
  <2>1. newE[2] \in Int
    BY EdgeFacts
  <2> QED  BY <2>1 DEF ActionOK
<1> HIDE DEF oldE, newE
<1>6. NetsOK(all) /\ DOMAIN all = Indices /\ Presented(all[NetOf(oldE)], oldE)
  BY <1>3, <1>4, FedAllFacts
<1> HIDE DEF all
<1>7. NetsOK(ready) /\ DOMAIN ready = Indices
  BY <1>4, <1>6, FedFacts
<1>8. Presented(ready[NetOf(oldE)], oldE)
  <2>1. CASE NetOf(oldE) = NetOf(newE)
    <3>1. oldE = newE
      BY <1>4, <2>1, NetOfIsInjective
    <3>2. Presented(ready[NetOf(newE)], newE)
      BY <1>4, <1>6, FedFacts
    <3> QED  BY <3>1, <3>2
  <2>2. CASE NetOf(oldE) # NetOf(newE)
    <3>1. ready[NetOf(oldE)] = all[NetOf(oldE)]
      BY <1>4, <1>6, <2>2, FedFacts
    <3> QED  BY <3>1, <1>6
  <2> QED  BY <2>1, <2>2
<1> HIDE DEF ready
<1>9. OwnState(Sampled(ready, oldE))
  BY <1>8, OwnSample DEF OwnState
<1>10. NetsOK(after(t)) /\ DOMAIN after(t) = Indices
  <2> DEFINE mid == [ready EXCEPT ![NetOf(oldE)] = t]
  <2>1. NetsOK(mid) /\ DOMAIN mid = Indices
    BY <1>1, <1>4, <1>7, TrainedNets
  <2> HIDE DEF mid
  <2>2. NetsOK(Fed(mid, oldE)) /\ DOMAIN Fed(mid, oldE) = Indices
    BY <1>4, <2>1, FedFacts
  <2> QED  BY <2>2 DEF mid
<1> HIDE DEF after, left
<1>11. DOMAIN r = DOMAIN h /\ r.nets = after(t) /\ r.sample = Sampled(ready, oldE)
       /\ r.vertex = [h.vertex EXCEPT ![v] = [h.vertex[v] EXCEPT !.next_action = c.action]]
  BY <1>1, <1>2 DEF StateOK, one
<1> QED  BY <1>2, <1>3, <1>5, <1>9, <1>10, <1>11, Trains

LEMMA FullRLResponseOK ==
    ASSUME StatesOK, now \in Int, desArgs \in Configs, desArgs.rl, desArgs.state,
           NEW s, StateOK(s), NEW v \in Vertices,
           NEW from, Degree(v) > 0 => <<v, from>> \in Edges, NEW top \in Int, NEW r \in FullRLResponse(s, v, from, top)
    PROVE  StateOK(r)
<1> DEFINE fed == FedAll(s.nets, Out(v))
           x == [n \in 1 .. Degree(v) |-> Predicted(fed, <<v, Targets(v)[n]>>)]
           values == [n \in 1 .. Degree(v) |-> <<Targets(v)[n], Predicted(fed, <<v, Targets(v)[n]>>)>>]
<1>1. Degree(v) \in Nat
  BY TargetsFacts
<1>2. CASE Degree(v) = 1
  <2>1. r = OnlyAction(s, v, Reward(top), NetOf(<<v, Targets(v)[1]>>))
    BY <1>2 DEF FullRLResponse
  <2> QED  BY <2>1, <1>2, OnlyActionOK
<1>3. CASE Degree(v) = 0
  <2>1. r = NoAction(s, v)
    BY <1>3 DEF FullRLResponse
  <2> QED  BY <2>1, <1>3, NoActionOK
<1>4. CASE Degree(v) > 1
  <2>1. FullRLResponse(s, v, from, top)
          = UNION {UNION {FullUpdate(s, v, from, Reward(top), o, c) : c \in m_policy(v, o, s.edge)} :
                     o \in Hooked(v, values)}
    BY <1>4 DEF FullRLResponse
  <2>2. values = [n \in 1 .. Degree(v) |-> <<Targets(v)[n], x[n]>>]
    OBVIOUS
  <2> HIDE DEF x, values
  <2>3. PICK o \in Hooked(v, values) : \E c \in m_policy(v, o, s.edge) : r \in FullUpdate(s, v, from, Reward(top), o, c)
    BY <2>1
  <2>4. PICK c \in m_policy(v, o, s.edge) : r \in FullUpdate(s, v, from, Reward(top), o, c)
    BY <2>3
  <2>5. <<v, c.action>> \in Edges
    BY <1>4, <2>2, ChosenTarget
  <2>6. <<v, from>> \in Edges
    BY <1>1, <1>4
  <2> QED  BY <2>4, <2>5, <2>6, FullUpdateOK, RewardIsWhole
<1> QED  BY <1>1, <1>2, <1>3, <1>4

\* The hybrid handler promises nothing about the inputs.
LEMMA HybridUpdateOK ==
    ASSUME StatesOK, desArgs \in Configs, desArgs.rl, desArgs.state, desArgs.rl_hybrid,
           NEW s, StateOK(s), NEW v \in Vertices,
           NEW from, <<v, from>> \in Edges, NEW reward, reward[1] \in Int, NEW ns, NetsOK(ns), DOMAIN ns = DOMAIN s.nets,
           NEW c, <<v, c.action>> \in Edges,
           NEW r \in HybridUpdate(s, v, from, reward, ns, c)
    PROVE  StateOK(r)
<1> DEFINE oldE == <<v, from>>
           i == eindex(oldE)
           newE == <<v, c.action>>
           stats == IF WarmUp(s.qStats, oldE) THEN [s.qStats EXCEPT ![i] = Push(@, reward)] ELSE s.qStats
           warm == WarmUp(stats, oldE)
           ready == Fed(ns, newE)
           left(t) == [ready EXCEPT ![i] = t]
           after(t) == IF warm THEN left(t) ELSE Fed(left(t), oldE)
           edges(t) == [c.edge EXCEPT ![oldE].q_val = IF warm THEN stats[i].mean ELSE Predicted(after(t), oldE)]
           one(t) == [s EXCEPT !.qStats = stats, !.nets = after(t), !.sample = Sampled(ready, oldE),
                               !.vertex[v].next_action = c.action, !.edge = edges(t)]
<1>1. HybridUpdate(s, v, from, reward, ns, c) = {one(t) : t \in Trained(ready, oldE, newE, reward[1])}
  BY Zenon DEF HybridUpdate
<1> HIDE DEF one
<1>2. PICK t \in Trained(ready, oldE, newE, reward[1]) : r = one(t)
  BY <1>1
<1>3. NetOf(oldE) = i
  BY DEF NetOf, Outsourced
<1>4. /\ NetsOK(ns) /\ DOMAIN ns = Indices /\ oldE \in Edges /\ newE \in Edges
      /\ NetOf(oldE) \in Indices /\ NetOf(newE) \in Indices
  BY NetOfIsIndex DEF StateOK, NetIndices
<1>5. ActionOK(v, c.action)
  <2>1. newE[2] \in Int
    BY EdgeFacts
  <2> QED  BY <2>1 DEF ActionOK
<1> HIDE DEF oldE, newE, i
<1>6. NetsOK(ready) /\ DOMAIN ready = Indices
  BY <1>4, FedFacts
<1> HIDE DEF ready
<1>7. NetsOK([ready EXCEPT ![NetOf(oldE)] = t]) /\ DOMAIN [ready EXCEPT ![NetOf(oldE)] = t] = Indices
  BY <1>2, <1>4, <1>6, TrainedNets
<1>8. NetsOK(left(t)) /\ DOMAIN left(t) = Indices
  BY <1>3, <1>7
<1> HIDE DEF left, warm
<1>9. NetsOK(after(t)) /\ DOMAIN after(t) = Indices
  BY <1>4, <1>8, FedFacts
<1>10. OwnState(Sampled(ready, oldE))
  BY DEF OwnState
<1> DEFINE a == after(t)
           b == Sampled(ready, oldE)
           e == edges(t)
<1>12. r = [s EXCEPT !.qStats = stats, !.nets = a, !.sample = b,
                     !.vertex[v].next_action = c.action, !.edge = e]
  BY <1>2 DEF one
<1>13. {"vertex", "nets", "sample"} \subseteq DOMAIN s
  BY DEF StateOK
<1> HIDE DEF after, edges, stats, a, b, e
<1>11. DOMAIN r = DOMAIN s /\ r.nets = after(t) /\ r.sample = Sampled(ready, oldE)
       /\ r.vertex = [s.vertex EXCEPT ![v] = [s.vertex[v] EXCEPT !.next_action = c.action]]
  <2>1. DOMAIN r = DOMAIN s /\ r.nets = a /\ r.sample = b
        /\ r.vertex = [s.vertex EXCEPT ![v] = [s.vertex[v] EXCEPT !.next_action = c.action]]
    BY <1>12, <1>13
  <2> QED  BY <2>1 DEF a, b
<1> DEFINE act == c.action
<1>14. NetsOK(r.nets) /\ DOMAIN r.nets = DOMAIN s.nets /\ OwnState(r.sample)
  BY <1>4, <1>9, <1>10, <1>11 DEF StateOK, NetIndices
<1>15. DOMAIN r = DOMAIN s /\ ActionOK(v, act)
       /\ r.vertex = [s.vertex EXCEPT ![v] = [s.vertex[v] EXCEPT !.next_action = act]]
  BY <1>5, <1>11
<1>16. StateOK(s) /\ v \in Vertices
  OBVIOUS
<1> HIDE DEF act
<1> QED  BY ONLY <1>14, <1>15, <1>16, Trains

LEMMA HybridFullRLResponseOK ==
    ASSUME StatesOK, now \in Int, desArgs \in Configs, desArgs.rl, desArgs.state, desArgs.rl_hybrid,
           NEW s, StateOK(s), NEW v \in Vertices,
           NEW from, Degree(v) > 0 => <<v, from>> \in Edges, NEW top \in Int,
           NEW r \in HybridFullRLResponse(s, v, from, top)
    PROVE  StateOK(r)
<1> DEFINE cold == {e \in Out(v) : ~ WarmUp(s.qStats, e)}
           fed == FedAll(s.nets, cold)
           x == [n \in 1 .. Degree(v) |->
                   IF <<v, Targets(v)[n]>> \in cold THEN Predicted(fed, <<v, Targets(v)[n]>>)
                   ELSE s.qStats[eindex(<<v, Targets(v)[n]>>)].mean]
           values == [n \in 1 .. Degree(v) |->
                        LET e == <<v, Targets(v)[n]>>
                        IN  <<e[2], IF e \in cold THEN Predicted(fed, e) ELSE s.qStats[eindex(e)].mean>>]
<1>1. Degree(v) \in Nat
  BY TargetsFacts
<1>2. CASE Degree(v) = 1
  <2>1. r = OnlyAction(s, v, Reward(top), eindex(<<v, Targets(v)[1]>>))
    BY <1>2 DEF HybridFullRLResponse
  <2> QED  BY <2>1, <1>2, OnlyActionOK
<1>3. CASE Degree(v) = 0
  <2>1. r = NoAction(s, v)
    BY <1>3 DEF HybridFullRLResponse
  <2> QED  BY <2>1, <1>3, NoActionOK
<1>4. CASE Degree(v) > 1
  <2> DEFINE U == UNION {HybridUpdate(s, v, from, Reward(top), fed, c) : c \in m_policy(v, values, s.edge)}
  <2>0. HybridFullRLResponse(s, v, from, top)
          = CASE Degree(v) > 1 -> U
              [] Degree(v) = 1 -> {OnlyAction(s, v, Reward(top), eindex(<<v, Targets(v)[1]>>))}
              [] OTHER -> {NoAction(s, v)}
    BY Zenon DEF HybridFullRLResponse
  <2>1. HybridFullRLResponse(s, v, from, top) = U
    <3> HIDE DEF U
    <3> QED  BY <1>1, <1>4, <2>0
  <2>2. values = [n \in 1 .. Degree(v) |-> <<Targets(v)[n], x[n]>>]
    OBVIOUS
  <2>3. NetsOK(fed) /\ DOMAIN fed = DOMAIN s.nets
    <3>1. cold \in SUBSET Out(v) /\ NetsOK(s.nets)
      BY DEF StateOK
    <3> HIDE DEF cold
    <3> QED  BY <3>1, FedAllFacts
  <2> HIDE DEF x, values, fed
  <2>4. PICK c \in m_policy(v, values, s.edge) : r \in HybridUpdate(s, v, from, Reward(top), fed, c)
    BY <2>1
  <2>5. <<v, c.action>> \in Edges
    BY <1>4, <2>2, ChosenTarget
  <2>6. <<v, from>> \in Edges
    BY <1>1, <1>4
  <2> QED  BY <2>3, <2>4, <2>5, <2>6, HybridUpdateOK, RewardIsWhole
<1> QED  BY <1>1, <1>2, <1>3, <1>4

\* Whatever is attached: a network is trained with the state of its edge, and a
\* decision leads along an edge.
LEMMA RespondedOK ==
    ASSUME StatesOK, now \in Int, desArgs \in Configs, NEW s, StateOK(s), NEW v \in Vertices,
           NEW from, Degree(v) > 0 => <<v, from>> \in Edges, NEW top \in Int, NEW r \in Responded(s, v, from, top)
    PROVE  StateOK(r)
<1>1. {desArgs.rl, desArgs.state, desArgs.rl_hybrid} \subseteq BOOLEAN
  BY ConfigsAssumption
<1>2. \/ r \in DefaultResponse(s, v, from, top)
      \/ r \in RLResponse(s, v, from, top)
      \/ desArgs.rl /\ desArgs.state /\ r \in FullRLResponse(s, v, from, top)
      \/ desArgs.rl /\ desArgs.state /\ desArgs.rl_hybrid /\ r \in HybridFullRLResponse(s, v, from, top)
  BY <1>1 DEF Responded
<1>3. r \in RLResponse(s, v, from, top) => StateOK(r)
  BY RLResponseOK
<1>4. desArgs.rl /\ desArgs.state /\ r \in FullRLResponse(s, v, from, top) => StateOK(r)
  BY FullRLResponseOK
<1>5. desArgs.rl /\ desArgs.state /\ desArgs.rl_hybrid /\ r \in HybridFullRLResponse(s, v, from, top)
        => StateOK(r)
  BY HybridFullRLResponseOK
<1> QED  BY <1>2, <1>3, <1>4, <1>5, DefaultResponseOK

-----------------------------------------------------------------------------
(* Jobs on their way, and acknowledgements on their way back.              *)

\* A history is a walk along edges that starts outside and ends at v.
WalkOK(h, v) ==
    /\ h \in Seq(Int \X Int) /\ h # <<>> /\ h[1][1] = EXTERNAL_EVENT
    /\ \A k \in 2 .. Len(h) : <<h[k][1], IF k < Len(h) THEN h[k + 1][1] ELSE v>> \in Edges

JobsOK ==
    /\ \E n \in Nat : Jobs = 1 .. n
    /\ \A j \in Jobs : DOMAIN job[j] = {"history", "trail"}

\* Lines with jobs in J, each of them in one place.
LinesOf(J, lines) ==
    /\ lines \in [Vertices -> Seq(J)]
    /\ \A v, w \in Vertices : \A i \in DOMAIN lines[v], k \in DOMAIN lines[w] :
          lines[v][i] = lines[w][k] => v = w /\ i = k

InNoLine(j, lines) == \A v \in Vertices : \A i \in DOMAIN lines[v] : lines[v][i] # j

\* A job in a line has a walk that leads there.
LinesOK ==
    /\ LinesOf(Jobs, line)
    /\ \A v \in Vertices : \A i \in DOMAIN line[v] : WalkOK(job[line[v][i]].history, v)

AckRecords ==
    [type : {"ACK_EVENT", "ACK_1HOP_EVENT"}, job : Jobs, from : Vertices, at : Vertices, top : Int]

\* An acknowledgement comes back over an edge, unless it is where jobs leave.
AckedOver(a) == Degree(a.at) > 0 => <<a.at, a.from>> \in Edges

\* The acknowledgement of a job that has left the servers, and follows its walk.
Follows(a) == WalkOK(job[a.job].history, a.at) /\ InNoLine(a.job, line)

AcksOK ==
    /\ acks \in Seq(AckRecords)
    /\ \A i \in DOMAIN acks : AckedOver(acks[i]) /\ (acks[i].type = "ACK_EVENT" => Follows(acks[i]))
    /\ \A i, k \in DOMAIN acks : acks[i].type = "ACK_EVENT" /\ acks[k].type = "ACK_EVENT" => i = k

\* What the handlers leave behind.
LearnedOK ==
    /\ VertexOK(vertex)
    /\ NetsOK(nets) /\ DOMAIN nets = NetIndices
    /\ OwnState(sample)

LInv ==
    /\ desArgs \in Configs /\ now \in Nat
    /\ JobsOK /\ LinesOK /\ AcksOK /\ LearnedOK

LEMMA WalkOn ==
    ASSUME NEW h, NEW v, WalkOK(h, v), NEW w, <<v, w>> \in Edges, NEW t \in Int
    PROVE  WalkOK(Append(h, <<v, t>>), w)
<1> DEFINE g == Append(h, <<v, t>>)
           n == Len(h)
<1>1. v \in Int
  <2>1. <<v, w>>[1] \in Nat
    BY EdgeFacts
  <2> QED  BY <2>1
<1>2. h \in Seq(Int \X Int) /\ n \in Nat \ {0} /\ DOMAIN h = 1 .. n
  BY EmptySeq DEF WalkOK
<1>3. /\ g \in Seq(Int \X Int) /\ Len(g) = n + 1 /\ g[n + 1] = <<v, t>>
      /\ \A k \in 1 .. n : g[k] = h[k]
  BY <1>1, <1>2, AppendProperties
<1>4. h[1][1] = EXTERNAL_EVENT /\ \A k \in 2 .. n : <<h[k][1], IF k < n THEN h[k + 1][1] ELSE v>> \in Edges
  BY DEF WalkOK
<1> HIDE DEF g, n
<1>5. g # <<>> /\ g[1][1] = EXTERNAL_EVENT
  BY <1>2, <1>3, <1>4
<1>6. ASSUME NEW k \in 2 .. n + 1
      PROVE  <<g[k][1], IF k < n + 1 THEN g[k + 1][1] ELSE w>> \in Edges
  <2>1. CASE k = n + 1
    <3>1. g[k][1] = v /\ ~ (k < n + 1)
      BY <1>2, <1>3, <2>1
    <3> QED  BY <3>1
  <2>2. CASE k = n
    <3>1. k \in 2 .. n /\ k \in 1 .. n
      BY <1>2, <2>2
    <3>2. <<h[k][1], v>> \in Edges
      BY <1>2, <1>4, <2>2, <3>1
    <3>3. g[k] = h[k] /\ g[k + 1] = <<v, t>> /\ k < n + 1
      BY <1>2, <1>3, <2>2, <3>1
    <3> QED  BY <3>2, <3>3
  <2>3. CASE k < n
    <3>1. k \in 2 .. n /\ k \in 1 .. n /\ k + 1 \in 1 .. n /\ k < n + 1
      BY <1>2, <2>3
    <3>2. <<h[k][1], h[k + 1][1]>> \in Edges
      BY <1>4, <2>3, <3>1
    <3>3. g[k] = h[k] /\ g[k + 1] = h[k + 1]
      BY <1>3, <3>1
    <3> QED  BY <3>1, <3>2, <3>3
  <2> QED  BY <1>2, <2>1, <2>2, <2>3
<1> QED  BY <1>3, <1>5, <1>6 DEF WalkOK, g

LEMMA WalkBack ==
    ASSUME NEW h, NEW v, WalkOK(h, v)
    PROVE  /\ Last(h)[2] \in Int
           /\ Last(h)[1] # EXTERNAL_EVENT =>
                 /\ <<Last(h)[1], v>> \in Edges
                 /\ WalkOK(Front(h), Last(h)[1]) /\ Last(Front(h))[2] \in Int
<1> DEFINE n == Len(h)
           g == Front(h)
<1>1. h \in Seq(Int \X Int) /\ n \in Nat \ {0} /\ DOMAIN h = 1 .. n
  BY EmptySeq DEF WalkOK
<1>2. Last(h) = h[n] /\ g = SubSeq(h, 1, n - 1)
  BY DEF Last, Front
<1>3. \A k \in 1 .. n : h[k] \in Int \X Int
  BY <1>1
<1>4. /\ g \in Seq(Int \X Int) /\ Len(g) = n - 1
      /\ \A k \in 1 .. n - 1 : g[k] = h[k]
  <2> HIDE DEF n
  <2>1. \A k \in 1 .. n - 1 : h[k] \in Int \X Int
    BY <1>1, <1>3
  <2>2. n - 1 \in Int /\ 1 \in Int
    BY <1>1
  <2>3. /\ SubSeq(h, 1, n - 1) \in Seq(Int \X Int)
        /\ Len(SubSeq(h, 1, n - 1)) = IF 1 <= n - 1 THEN n - 1 - 1 + 1 ELSE 0
        /\ \A k \in 1 .. n - 1 - 1 + 1 : SubSeq(h, 1, n - 1)[k] = h[1 + k - 1]
    BY <2>1, <2>2, SubSeqProperties
  <2>4. (IF 1 <= n - 1 THEN n - 1 - 1 + 1 ELSE 0) = n - 1 /\ n - 1 - 1 + 1 = n - 1
    BY <1>1
  <2>5. \A k \in 1 .. n - 1 : 1 + k - 1 = k
    BY <1>1
  <2>6. \A k \in 1 .. n - 1 : SubSeq(h, 1, n - 1)[k] = h[k]
    BY <2>3, <2>4, <2>5
  <2> QED  BY <1>2, <2>3, <2>4, <2>6
<1>5. h[1][1] = EXTERNAL_EVENT /\ \A k \in 2 .. n : <<h[k][1], IF k < n THEN h[k + 1][1] ELSE v>> \in Edges
  BY DEF WalkOK
<1> HIDE DEF n, g
<1>6. Last(h)[2] \in Int
  BY <1>1, <1>2, <1>3
<1>7. ASSUME Last(h)[1] # EXTERNAL_EVENT
      PROVE  <<Last(h)[1], v>> \in Edges /\ WalkOK(g, Last(h)[1]) /\ Last(g)[2] \in Int
  <2>1. n \in 2 .. n /\ n >= 2
    BY <1>1, <1>2, <1>5, <1>7
  <2>2. <<h[n][1], v>> \in Edges
    BY <1>5, <2>1
  <2>3. g # <<>> /\ g[1][1] = EXTERNAL_EVENT
    BY <1>4, <1>5, <2>1
  <2>4. ASSUME NEW k \in 2 .. n - 1
        PROVE  <<g[k][1], IF k < n - 1 THEN g[k + 1][1] ELSE h[n][1]>> \in Edges
    <3>1. k \in 2 .. n /\ k \in 1 .. n - 1 /\ k < n
      BY <1>1
    <3>2. <<h[k][1], h[k + 1][1]>> \in Edges
      BY <1>5, <3>1
    <3>3. CASE k = n - 1
      <4>1. k + 1 = n /\ ~ (k < n - 1)
        BY <1>1, <3>3
      <4> QED  BY <1>4, <3>1, <3>2, <4>1
    <3>4. CASE k < n - 1
      <4>1. k + 1 \in 1 .. n - 1
        BY <1>1, <3>4
      <4> QED  BY <1>4, <3>1, <3>2, <3>4, <4>1
    <3> QED  BY <1>1, <3>3, <3>4
  <2>5. WalkOK(g, h[n][1])
    BY <1>4, <2>3, <2>4 DEF WalkOK
  <2>6. Last(g) = h[n - 1] /\ n - 1 \in 1 .. n
    BY <1>1, <1>4, <2>1 DEF Last
  <2>7. Last(g)[2] \in Int
    BY <1>3, <2>6
  <2> QED  BY <1>2, <2>2, <2>5, <2>7
<1> QED  BY <1>6, <1>7 DEF g

LEMMA LearnedIsState == LearnedOK <=> StateOK(State)
  BY DEF LearnedOK, StateOK, State

\* What an arrival does to the job.
LEMMA ArrivedJob ==
    ASSUME NEW jobs, NEW j, j \in DOMAIN jobs, DOMAIN jobs[j] = {"history", "trail"}, NEW v, NEW from
    PROVE  /\ DOMAIN Arrived(jobs, j, v, from) = DOMAIN jobs
           /\ DOMAIN Arrived(jobs, j, v, from)[j] = {"history", "trail"}
           /\ Arrived(jobs, j, v, from)[j].history = Append(jobs[j].history, <<from, now>>)
           /\ Arrived(jobs, j, v, from)[j].trail = Append(jobs[j].trail, <<v, now>>)
           /\ \A k \in DOMAIN jobs : k # j => Arrived(jobs, j, v, from)[k] = jobs[k]
<1> DEFINE h == Append(jobs[j].history, <<from, now>>)
           t == Append(jobs[j].trail, <<v, now>>)
<1>1. Arrived(jobs, j, v, from) = [jobs EXCEPT ![j].history = h, ![j].trail = t]
  BY DEF Arrived
<1> HIDE DEF h, t
<1>2. Arrived(jobs, j, v, from) = [jobs EXCEPT ![j] = [jobs[j] EXCEPT !.history = h, !.trail = t]]
  BY <1>1
<1> DEFINE b == [jobs[j] EXCEPT !.history = h, !.trail = t]
<1>3. DOMAIN b = {"history", "trail"} /\ b.history = h /\ b.trail = t
  OBVIOUS
<1> HIDE DEF b
<1> QED  BY <1>2, <1>3 DEF b, h, t

\* A job that joins the end of a line.
Joined(l, w, j) == [l EXCEPT ![w] = Append(l[w], j)]

LEMMA Joins ==
    ASSUME NEW J, NEW l, LinesOf(J, l), NEW j \in J, InNoLine(j, l), NEW w \in Vertices
    PROVE  /\ LinesOf(J, Joined(l, w, j))
           /\ \A u \in Vertices : \A i \in DOMAIN Joined(l, w, j)[u] :
                 \/ u = w /\ Joined(l, w, j)[u][i] = j
                 \/ i \in DOMAIN l[u] /\ Joined(l, w, j)[u][i] = l[u][i] /\ Joined(l, w, j)[u][i] # j
<1> DEFINE m == Joined(l, w, j)
<1>0. m = [l EXCEPT ![w] = Append(l[w], j)]
  BY DEF Joined
<1> HIDE DEF m
<1>1. l \in [Vertices -> Seq(J)]
  BY DEF LinesOf
<1> DEFINE g == l[w]
           h == Append(g, j)
<1>2. /\ h \in Seq(J) /\ Len(g) \in Nat /\ DOMAIN g = 1 .. Len(g) /\ DOMAIN h = 1 .. Len(g) + 1
      /\ h[Len(g) + 1] = j /\ \A i \in 1 .. Len(g) : h[i] = g[i]
  <2>1. g \in Seq(J)
    BY <1>1
  <2> HIDE DEF g
  <2> QED  BY <2>1, AppendProperties
<1>3. m[w] = h /\ \A u \in Vertices : u # w => m[u] = l[u]
  BY <1>0, <1>1
<1>4. m \in [Vertices -> Seq(J)]
  BY <1>0, <1>1, <1>2
<1> HIDE DEF h
<1>5. ASSUME NEW u \in Vertices, NEW i \in DOMAIN m[u]
      PROVE  \/ u = w /\ m[u][i] = j /\ i = Len(g) + 1
             \/ i \in DOMAIN l[u] /\ m[u][i] = l[u][i] /\ m[u][i] # j
  <2>1. CASE u # w
    BY <1>3, <2>1 DEF InNoLine
  <2>2. CASE u = w
    <3>1. i \in 1 .. Len(g) + 1 /\ m[u][i] = h[i]
      BY <1>2, <1>3, <2>2
    <3> HIDE DEF g
    <3>2. i = Len(g) + 1 \/ i \in 1 .. Len(g)
      BY <1>2, <3>1
    <3>3. CASE i = Len(g) + 1
      BY <1>2, <2>2, <3>1, <3>3
    <3>4. CASE i \in 1 .. Len(g)
      BY <1>2, <2>2, <3>1, <3>4 DEF InNoLine, g
    <3> QED  BY <3>2, <3>3, <3>4
  <2> QED  BY <2>1, <2>2
<1>6. ASSUME NEW u \in Vertices, NEW x \in Vertices, NEW i \in DOMAIN m[u], NEW k \in DOMAIN m[x],
             m[u][i] = m[x][k]
      PROVE  u = x /\ i = k
  <2>1. CASE m[u][i] = j
    <3>1. u = w /\ i = Len(g) + 1
      BY Zenon, <1>5, <2>1
    <3>2. x = w /\ k = Len(g) + 1
      BY Zenon, <1>5, <1>6, <2>1
    <3> QED  BY <3>1, <3>2
  <2>2. CASE m[u][i] # j
    <3>1. i \in DOMAIN l[u] /\ k \in DOMAIN l[x] /\ l[u][i] = l[x][k]
      BY <1>5, <1>6, <2>2
    <3> QED  BY <3>1 DEF LinesOf
  <2> QED  BY <2>1, <2>2
<1> QED  BY <1>4, <1>5, <1>6 DEF LinesOf, m

\* The first of a line leaves it, and is in none.
Without(l, v) == [l EXCEPT ![v] = Tail(l[v])]

LEMMA Leaves ==
    ASSUME NEW J, NEW l, LinesOf(J, l), NEW v \in Vertices, l[v] # <<>>
    PROVE  /\ LinesOf(J, Without(l, v)) /\ InNoLine(Head(l[v]), Without(l, v))
           /\ 1 \in DOMAIN l[v] /\ Head(l[v]) = l[v][1] /\ Head(l[v]) \in J
           /\ \A u \in Vertices : \A i \in DOMAIN Without(l, v)[u] :
                 \E k \in DOMAIN l[u] : Without(l, v)[u][i] = l[u][k]
<1> DEFINE m == Without(l, v)
<1>0. m = [l EXCEPT ![v] = Tail(l[v])]
  BY DEF Without
<1> HIDE DEF m
<1>1. l \in [Vertices -> Seq(J)]
  BY DEF LinesOf
<1> DEFINE g == l[v]
           h == Tail(g)
<1>2. g \in Seq(J) /\ g # <<>> /\ Len(g) \in Nat \ {0} /\ DOMAIN g = 1 .. Len(g)
  BY <1>1, EmptySeq
<1>3. /\ h \in Seq(J) /\ DOMAIN h = 1 .. Len(g) - 1 /\ \A i \in 1 .. Len(g) - 1 : h[i] = g[i + 1]
      /\ Head(g) = g[1] /\ Head(g) \in J /\ 1 \in DOMAIN g
  <2> HIDE DEF g
  <2> QED  BY <1>2, HeadTailProperties
<1>4. m[v] = h /\ \A u \in Vertices : u # v => m[u] = l[u]
  BY <1>0, <1>1
<1>5. m \in [Vertices -> Seq(J)]
  BY <1>0, <1>1, <1>3
<1> HIDE DEF h
<1> DEFINE old(u, i) == IF u = v THEN i + 1 ELSE i
<1>6. ASSUME NEW u \in Vertices, NEW i \in DOMAIN m[u]
      PROVE  /\ i \in Nat \ {0} /\ old(u, i) \in DOMAIN l[u] /\ m[u][i] = l[u][old(u, i)]
  <2>1. CASE u = v
    <3>1. i \in 1 .. Len(g) - 1 /\ m[u][i] = g[i + 1]
      BY <1>3, <1>4, <2>1
    <3> HIDE DEF g
    <3>2. i \in Nat \ {0} /\ i + 1 \in 1 .. Len(g)
      BY <1>2, <3>1
    <3> QED  BY <1>2, <2>1, <3>1, <3>2 DEF g
  <2>2. CASE u # v
    <3>1. m[u] = l[u] /\ l[u] \in Seq(J)
      BY <1>1, <1>4, <2>2
    <3> QED  BY <2>2, <3>1
  <2> QED  BY <2>1, <2>2
<1>7. ASSUME NEW u \in Vertices, NEW i \in DOMAIN m[u]
      PROVE  m[u][i] # Head(l[v])
  <2> SUFFICES ASSUME m[u][i] = l[v][1] PROVE FALSE
    BY <1>3
  <2>1. u = v /\ old(u, i) = 1
    <3> HIDE DEF old
    <3> QED  BY <1>3, <1>6 DEF LinesOf
  <2> QED  BY <1>6, <2>1
<1>8. ASSUME NEW u \in Vertices, NEW x \in Vertices, NEW i \in DOMAIN m[u], NEW k \in DOMAIN m[x],
             m[u][i] = m[x][k]
      PROVE  u = x /\ i = k
  <2>1. u = x /\ old(u, i) = old(x, k)
    <3> HIDE DEF old
    <3> QED  BY <1>6, <1>8 DEF LinesOf
  <2> QED  BY <1>6, <2>1
<1> HIDE DEF old
<1> QED  BY <1>3, <1>5, <1>6, <1>7, <1>8 DEF LinesOf, InNoLine, m

LEMMA InitIsOK == Init => LInv
<1> SUFFICES ASSUME Init PROVE LInv
  OBVIOUS
<1>1. desArgs \in Configs /\ now \in Nat
  BY DEF Init
<1>2. JobsOK
  <2>1. job = <<>>
    BY DEF Init
  <2>2. DOMAIN job = 1 .. 0
    BY <2>1
  <2> QED  BY <2>2 DEF JobsOK, Jobs
<1>3. LinesOK
  <2>1. \A v \in Vertices : line[v] = <<>> /\ DOMAIN line[v] = {}
    BY DEF Init
  <2>2. line \in [Vertices -> Seq(Jobs)]
    BY DEF Init
  <2> QED  BY <2>1, <2>2 DEF LinesOK, LinesOf
<1>4. AcksOK
  <2>1. acks = <<>> /\ DOMAIN acks = {}
    BY DEF Init
  <2> QED  BY <2>1 DEF AcksOK
<1>5. VertexOK(vertex)
  <2>1. DOMAIN FreshVertex = VertexFields /\ FreshVertex.next_action = -1 /\ MetricsOK(FreshVertex)
    BY Wholes DEF FreshVertex, VertexFields, MetricsOK
  <2>2. \A v \in Vertices : ActionOK(v, -1)
    BY DEF ActionOK
  <2>3. vertex = [v \in Vertices |-> FreshVertex]
    BY DEF Init
  <2> QED  BY <2>1, <2>2, <2>3 DEF VertexOK
<1>6. NetsOK(nets) /\ DOMAIN nets = NetIndices
  <2>1. PICK net \in NewNets : nets = [i \in NetIndices |-> net]
    BY DEF Init, NetIndices
  <2>2. NetOK(net)
    BY NewNetOK
  <2> QED  BY <2>1, <2>2 DEF NetsOK
<1>7. OwnState(sample)
  BY DEF Init, OwnState
<1> QED  BY <1>1, <1>2, <1>3, <1>4, <1>5, <1>6, <1>7 DEF LInv, LearnedOK

\* What the networks and the decisions depend on.
LEMMA LearnedUnchanged ==
    ASSUME LearnedOK, UNCHANGED <<desArgs, vertex, nets, sample>>
    PROVE  LearnedOK'
<1>1. VertexOK(vertex')
  BY DEF LearnedOK
<1>2. NetsOK(nets') /\ DOMAIN nets' = NetIndices'
  BY DEF LearnedOK, NetIndices, Indices, Outsourced
<1>3. OwnState(sample)'
  BY DEF LearnedOK, OwnState
<1> QED  BY <1>1, <1>2, <1>3 DEF LearnedOK, VertexOK, NetsOK

LEMMA TickIsOK ==
    ASSUME LInv, Tick
    PROVE  LInv'
<1>1. /\ UNCHANGED <<desArgs, line, job, acks, vertex, nets, sample>> /\ now' \in Nat
  BY DEF LInv, Tick
<1>2. LearnedOK'
  BY <1>1, LearnedUnchanged DEF LInv
<1>3. JobsOK' /\ LinesOK' /\ AcksOK'
  BY <1>1 DEF LInv, JobsOK, LinesOK, AcksOK, Jobs, AckRecords, Follows
<1> QED  BY <1>1, <1>2, <1>3 DEF LInv

LEMMA StutterIsOK ==
    ASSUME LInv, UNCHANGED vars
    PROVE  LInv'
<1>1. UNCHANGED <<desArgs, now, line, job, acks, vertex, nets, sample>>
  BY DEF vars
<1>2. LearnedOK'
  BY <1>1, LearnedUnchanged DEF LInv
<1>3. JobsOK' /\ LinesOK' /\ AcksOK'
  BY <1>1 DEF LInv, JobsOK, LinesOK, AcksOK, Jobs, AckRecords, Follows
<1> QED  BY <1>1, <1>2, <1>3 DEF LInv

\* A job that enters, and the lines it leaves behind.
Entered(v, j) ==
    /\ \E n \in Nat : Jobs' = 1 .. n
    /\ Jobs' = Jobs \cup {j} /\ \A k \in Jobs : job'[k] = job[k]
    /\ DOMAIN job'[j] = {"history", "trail"}
    /\ job'[j].history = <<<<EXTERNAL_EVENT, now>>>> /\ job'[j].trail = <<<<v, now>>>>
    /\ v \in Vertices /\ acks = <<>> /\ UNCHANGED <<desArgs, now, acks, vertex, nets, sample>>
    /\ LinesOf(Jobs', line')
    /\ \A u \in Vertices : \A i \in DOMAIN line'[u] :
          \/ u = v /\ line'[u][i] = j
          \/ i \in DOMAIN line[u] /\ line'[u][i] = line[u][i] /\ line[u][i] \in Jobs

LEMMA EnterFacts ==
    ASSUME LInv, NEW v \in Entrances, Enter(v)
    PROVE  \E j : Entered(v, j)
<1> DEFINE j == Cardinality(Jobs) + 1
           fresh == [k \in Jobs \cup {j} |-> IF k = j THEN [history |-> <<>>, trail |-> <<>>] ELSE job[k]]
<1>0. /\ v \in Vertices /\ acks = <<>> /\ now \in Nat
      /\ job' = Arrived(fresh, j, v, EXTERNAL_EVENT)
      /\ line' = [line EXCEPT ![v] = Append(line[v], j)]
      /\ UNCHANGED <<desArgs, now, acks, vertex, nets, sample>>
  BY NetworkAssumption DEF Enter, LInv
<1>1. PICK n \in Nat : Jobs = 1 .. n
  BY DEF LInv, JobsOK
<1>2. j = n + 1 /\ Jobs \cup {j} = 1 .. n + 1 /\ j \notin Jobs
  <2>1. Cardinality(1 .. n) = n
    BY FS_Interval, <1>1
  <2> QED  BY <1>1, <2>1
<1>3. DOMAIN fresh = Jobs \cup {j} /\ fresh[j] = [history |-> <<>>, trail |-> <<>>]
      /\ \A k \in Jobs : fresh[k] = job[k]
  BY <1>2
<1> HIDE DEF fresh, j
<1>4. /\ DOMAIN job' = Jobs \cup {j} /\ DOMAIN job'[j] = {"history", "trail"}
      /\ job'[j].history = <<<<EXTERNAL_EVENT, now>>>> /\ job'[j].trail = <<<<v, now>>>>
      /\ \A k \in Jobs : job'[k] = job[k]
  <2>0. fresh[j].history = <<>> /\ fresh[j].trail = <<>>
    BY <1>3
  <2>1. j \in DOMAIN fresh /\ DOMAIN fresh[j] = {"history", "trail"}
    BY <1>3
  <2> DEFINE a == Arrived(fresh, j, v, EXTERNAL_EVENT)
  <2>2. /\ DOMAIN a = DOMAIN fresh /\ DOMAIN a[j] = {"history", "trail"}
        /\ a[j].history = Append(fresh[j].history, <<EXTERNAL_EVENT, now>>)
        /\ a[j].trail = Append(fresh[j].trail, <<v, now>>)
        /\ \A k \in DOMAIN fresh : k # j => a[k] = fresh[k]
    BY ONLY <2>1, ArrivedJob
  <2> HIDE DEF a
  <2>3. job' = a
    BY <1>0 DEF a
  <2>4. Append(<<>>, <<EXTERNAL_EVENT, now>>) = <<<<EXTERNAL_EVENT, now>>>>
        /\ Append(<<>>, <<v, now>>) = <<<<v, now>>>>
    OBVIOUS
  <2>5. a[j].history = <<<<EXTERNAL_EVENT, now>>>> /\ a[j].trail = <<<<v, now>>>>
    BY <2>0, <2>2, <2>4
  <2>6. \A k \in Jobs : k \in DOMAIN fresh /\ k # j
    BY <1>2, <1>3
  <2> QED  BY <1>3, <2>2, <2>3, <2>5, <2>6
<1>5. Jobs' = 1 .. n + 1 /\ Jobs' = Jobs \cup {j} /\ n + 1 \in Nat
  BY <1>2, <1>4 DEF Jobs
<1>6. LinesOf(Jobs', line) /\ InNoLine(j, line) /\ \A u \in Vertices : \A i \in DOMAIN line[u] : line[u][i] \in Jobs
  <2>1. LinesOf(Jobs, line)
    BY DEF LInv, LinesOK
  <2>2. \A u \in Vertices : line[u] \in Seq(Jobs')
    BY <1>5, <2>1, SeqMonotonic DEF LinesOf
  <2>3. \A u \in Vertices : \A i \in DOMAIN line[u] : line[u][i] \in Jobs
    BY <2>1 DEF LinesOf
  <2> QED  BY <1>2, <2>1, <2>2, <2>3 DEF LinesOf, InNoLine
<1>7. /\ LinesOf(Jobs', line')
      /\ \A u \in Vertices : \A i \in DOMAIN line'[u] :
            \/ u = v /\ line'[u][i] = j
            \/ i \in DOMAIN line[u] /\ line'[u][i] = line[u][i] /\ line'[u][i] # j
  <2>1. j \in Jobs' /\ v \in Vertices
    BY <1>0, <1>5
  <2>2. line' = Joined(line, v, j)
    BY <1>0 DEF Joined
  <2> QED  BY <1>6, <2>1, <2>2, Joins
<1>8. Entered(v, j)
  BY <1>0, <1>4, <1>5, <1>6, <1>7 DEF Entered
<1> QED  BY <1>8

LEMMA EnterIsOK ==
    ASSUME LInv, NEW v \in Entrances, Enter(v)
    PROVE  LInv'
<1>1. PICK j : Entered(v, j)
  BY EnterFacts
<1>2. /\ v \in Vertices /\ acks' = <<>> /\ now \in Nat /\ UNCHANGED <<desArgs, now, vertex, nets, sample>>
      /\ \E n \in Nat : Jobs' = 1 .. n
      /\ Jobs' = Jobs \cup {j} /\ \A k \in Jobs : job'[k] = job[k]
      /\ DOMAIN job'[j] = {"history", "trail"} /\ job'[j].history = <<<<EXTERNAL_EVENT, now>>>>
      /\ LinesOf(Jobs', line')
      /\ \A u \in Vertices : \A i \in DOMAIN line'[u] :
            \/ u = v /\ line'[u][i] = j
            \/ i \in DOMAIN line[u] /\ line'[u][i] = line[u][i] /\ line[u][i] \in Jobs
  BY <1>1 DEF Entered, LInv
<1>3. JobsOK'
  <2>1. \A k \in Jobs' : DOMAIN job'[k] = {"history", "trail"}
    BY <1>2 DEF LInv, JobsOK
  <2> QED  BY <1>2, <2>1 DEF JobsOK
<1>4. WalkOK(job'[j].history, v)
  <2> DEFINE h == job'[j].history
             x == <<EXTERNAL_EVENT, now>>
  <2>1. h = <<x>> /\ x \in Int \X Int /\ x[1] = EXTERNAL_EVENT
    BY <1>2 DEF EXTERNAL_EVENT
  <2> HIDE DEF h, x
  <2>2. h \in Seq(Int \X Int) /\ Len(h) = 1 /\ h[1] = x /\ h # <<>>
    BY <2>1
  <2> QED  BY <2>1, <2>2 DEF WalkOK, h
<1>5. ASSUME NEW u \in Vertices, NEW i \in DOMAIN line'[u]
      PROVE  WalkOK(job'[line'[u][i]].history, u)
  <2>1. CASE u = v /\ line'[u][i] = j
    BY <1>4, <2>1
  <2>2. CASE i \in DOMAIN line[u] /\ line'[u][i] = line[u][i] /\ line[u][i] \in Jobs
    <3>1. WalkOK(job[line[u][i]].history, u)
      BY <2>2 DEF LInv, LinesOK
    <3> QED  BY <1>2, <2>2, <3>1
  <2> QED  BY <1>2, <2>1, <2>2
<1>6. LinesOK'
  BY <1>2, <1>5 DEF LinesOK
<1>7. AcksOK'
  <2>1. acks' = <<>> /\ DOMAIN acks' = {}
    BY <1>2
  <2> QED  BY <2>1 DEF AcksOK
<1>8. LearnedOK'
  <2>1. LearnedOK
    BY DEF LInv
  <2> QED  BY <1>2, <2>1, LearnedUnchanged
<1> QED  BY <1>2, <1>3, <1>6, <1>7, <1>8 DEF LInv

\* A job is sent along an edge.
LEMMA SelectionsFacts ==
    ASSUME LearnedOK, NEW v \in Vertices, Degree(v) > 0, NEW c \in Selections(v)
    PROVE  <<v, c.action>> \in Edges
<1> DEFINE x == [n \in 1 .. Degree(v) |-> edge[<<v, Targets(v)[n]>>].q_val]
           values == [n \in 1 .. Degree(v) |-> <<Targets(v)[n], edge[<<v, Targets(v)[n]>>].q_val>>]
<1>1. Degree(v) \in Nat \ {0} /\ \A n \in 1 .. Degree(v) : <<v, Targets(v)[n]>> \in Edges
  BY TargetsFacts
<1>2. CASE \E n \in 1 .. Degree(v) : c.action = Targets(v)[n]
  BY <1>1, <1>2
<1>3. CASE vertex[v].next_action >= 0 /\ c.action = vertex[v].next_action
  BY <1>3 DEF LearnedOK, VertexOK, ActionOK
<1>4. ASSUME c \in m_policy(v, values, edge)
      PROVE  \E n \in 1 .. Degree(v) : c.action = Targets(v)[n]
  <2>1. values = [n \in 1 .. Degree(v) |-> <<Targets(v)[n], x[n]>>]
    OBVIOUS
  <2> HIDE DEF values, x
  <2>2. Len(values) \in Nat \ {0} /\ DOMAIN values = 1 .. Len(values) /\ Len(values) = Degree(v)
    BY <1>1, <2>1
  <2>3. PICK n \in DOMAIN values : c.action = values[n][1]
    BY <1>4, <2>2, PolicyChoices
  <2> QED  BY <2>1, <2>2, <2>3
<1>5. \/ \E n \in 1 .. Degree(v) : c = Choice(Targets(v)[n], edge)
      \/ vertex[v].next_action >= 0 /\ c = Choice(vertex[v].next_action, edge)
      \/ c \in m_policy(v, values, edge)
  BY DEF Selections
<1> HIDE DEF values
<1> QED  BY <1>2, <1>3, <1>4, <1>5 DEF Choice

\* A job that is sent on, and the lines it leaves behind.
Sent(v, w, j) ==
    /\ <<v, w>> \in Edges /\ w \in Vertices
    /\ j \in Jobs /\ WalkOK(job[j].history, v) /\ Last(job[j].trail)[2] < now
    /\ 1 \in DOMAIN line[v] /\ j = line[v][1]
    /\ DOMAIN job' = Jobs /\ DOMAIN job'[j] = {"history", "trail"}
    /\ job'[j].history = Append(job[j].history, <<v, now>>)
    /\ job'[j].trail = Append(job[j].trail, <<w, now>>)
    /\ \A k \in Jobs : k # j => job'[k] = job[k]
    /\ acks = <<>> /\ UNCHANGED <<desArgs, now, acks, vertex, nets, sample>>
    /\ LinesOf(Jobs, line')
    /\ \A u \in Vertices : \A i \in DOMAIN line'[u] :
          \/ u = w /\ line'[u][i] = j
          \/ line'[u][i] \in Jobs \ {j} /\ \E k \in DOMAIN line[u] : line'[u][i] = line[u][k]

LEMMA SendFacts ==
    ASSUME LInv, NEW v \in Vertices, Degree(v) > 0, Depart(v)
    PROVE  \E w, j : Sent(v, w, j)
<1> DEFINE j == Head(line[v])
           l == Without(line, v)
<1>1. /\ acks = <<>> /\ line[v] # <<>> /\ now \in Nat /\ LinesOf(Jobs, line)
      /\ UNCHANGED <<desArgs, now, vertex, nets, sample>> /\ Last(job[j].trail)[2] < now
  BY DEF Depart, LInv, LinesOK
<1>2. /\ LinesOf(Jobs, l) /\ InNoLine(j, l) /\ j \in Jobs
      /\ 1 \in DOMAIN line[v] /\ j = line[v][1]
      /\ \A u \in Vertices : \A i \in DOMAIN l[u] : \E k \in DOMAIN line[u] : l[u][i] = line[u][k]
  BY <1>1, Leaves
<1>3. WalkOK(job[j].history, v) /\ DOMAIN job[j] = {"history", "trail"}
  BY <1>2 DEF LInv, LinesOK, JobsOK
<1>4. PICK c \in Selections(v) :
         /\ job' = Arrived(job, j, c.action, v)
         /\ line' = [line EXCEPT ![v] = Tail(line[v]), ![c.action] = Append(line[c.action], j)]
         /\ UNCHANGED acks
  <2> HIDE DEF j
  <2>1. \E c \in Selections(v) :
           /\ edge' = c.edge
           /\ job' = Arrived(job, j, c.action, v)
           /\ line' = [line EXCEPT ![v] = Tail(@), ![c.action] = Append(@, j)]
           /\ UNCHANGED acks
    BY DEF Depart, j
  <2>2. PICK c \in Selections(v) :
           /\ job' = Arrived(job, j, c.action, v)
           /\ line' = [line EXCEPT ![v] = Tail(@), ![c.action] = Append(@, j)]
           /\ UNCHANGED acks
    BY <2>1
  <2>3. c.action # v
    <3>1. <<v, c.action>> \in Edges
      BY SelectionsFacts DEF LInv
    <3> QED  BY <3>1, EdgeFacts
  <2> QED  BY <2>2, <2>3
<1> HIDE DEF j, l
<1> DEFINE w == c.action
<1>5. <<v, w>> \in Edges /\ w \in Vertices /\ w # v
  <2>1. <<v, w>> \in Edges
    BY SelectionsFacts DEF LInv
  <2> QED  BY <2>1, EdgeFacts
<1> HIDE DEF w
<1>6. line' = Joined(l, w, j)
  <2>1. line \in [Vertices -> Seq(Jobs)]
    BY <1>1 DEF LinesOf
  <2> QED  BY <1>4, <1>5, <2>1 DEF Joined, Without, l, w
<1>7. /\ DOMAIN job' = Jobs /\ DOMAIN job'[j] = {"history", "trail"}
      /\ job'[j].history = Append(job[j].history, <<v, now>>)
      /\ job'[j].trail = Append(job[j].trail, <<w, now>>)
      /\ \A k \in Jobs : k # j => job'[k] = job[k]
  <2> DEFINE a == Arrived(job, j, w, v)
  <2>1. /\ DOMAIN a = DOMAIN job /\ DOMAIN a[j] = {"history", "trail"}
        /\ a[j].history = Append(job[j].history, <<v, now>>)
        /\ a[j].trail = Append(job[j].trail, <<w, now>>)
        /\ \A k \in DOMAIN job : k # j => a[k] = job[k]
    <3>1. j \in DOMAIN job
      BY <1>2 DEF Jobs
    <3> QED  BY ONLY <1>3, <3>1, ArrivedJob
  <2> HIDE DEF a
  <2>2. job' = a
    BY <1>4 DEF a, w
  <2> QED  BY <2>1, <2>2 DEF Jobs
<1>8. /\ LinesOf(Jobs, Joined(l, w, j))
      /\ \A u \in Vertices : \A i \in DOMAIN Joined(l, w, j)[u] :
            \/ u = w /\ Joined(l, w, j)[u][i] = j
            \/ i \in DOMAIN l[u] /\ Joined(l, w, j)[u][i] = l[u][i] /\ Joined(l, w, j)[u][i] # j
  BY <1>2, <1>5, Joins
<1>9. ASSUME NEW u \in Vertices, NEW i \in DOMAIN line'[u], ~ (u = w /\ line'[u][i] = j)
      PROVE  line'[u][i] \in Jobs \ {j} /\ \E k \in DOMAIN line[u] : line'[u][i] = line[u][k]
  <2>1. i \in DOMAIN l[u] /\ line'[u][i] = l[u][i] /\ line'[u][i] # j
    BY <1>6, <1>8, <1>9
  <2>2. l[u][i] \in Jobs
    BY <1>2, <2>1 DEF LinesOf
  <2> QED  BY <1>2, <2>1, <2>2
<1>10. /\ LinesOf(Jobs, line')
       /\ \A u \in Vertices : \A i \in DOMAIN line'[u] :
             \/ u = w /\ line'[u][i] = j
             \/ line'[u][i] \in Jobs \ {j} /\ \E k \in DOMAIN line[u] : line'[u][i] = line[u][k]
  BY <1>6, <1>8, <1>9
<1>11. Sent(v, w, j)
  BY <1>1, <1>2, <1>3, <1>4, <1>5, <1>7, <1>10 DEF Sent
<1> QED  BY <1>11
LEMMA DepartIsOK ==
    ASSUME LInv, NEW v \in Vertices, Depart(v)
    PROVE  LInv'
<1>1. acks = <<>> /\ line[v] # <<>> /\ UNCHANGED <<desArgs, now, vertex, nets, sample>>
  BY DEF Depart
<1>2. LearnedOK'
  <2>1. LearnedOK
    BY DEF LInv
  <2> QED  BY <1>1, <2>1, LearnedUnchanged
<1>3. CASE Degree(v) > 0
  <2>1. PICK w, j : Sent(v, w, j)
    BY <1>3, SendFacts
  <2>2. /\ <<v, w>> \in Edges /\ j \in Jobs /\ WalkOK(job[j].history, v) /\ now \in Nat
        /\ DOMAIN job' = Jobs /\ DOMAIN job'[j] = {"history", "trail"}
        /\ job'[j].history = Append(job[j].history, <<v, now>>)
        /\ \A k \in Jobs : k # j => job'[k] = job[k]
        /\ acks' = <<>> /\ LinesOf(Jobs, line')
        /\ \A u \in Vertices : \A i \in DOMAIN line'[u] :
              \/ u = w /\ line'[u][i] = j
              \/ line'[u][i] \in Jobs \ {j} /\ \E k \in DOMAIN line[u] : line'[u][i] = line[u][k]
    BY <2>1 DEF Sent, LInv
  <2>3. Jobs' = Jobs
    BY <2>2 DEF Jobs
  <2>4. JobsOK'
    BY <2>2, <2>3 DEF LInv, JobsOK
  <2>5. WalkOK(job'[j].history, w)
    BY <2>2, WalkOn
  <2>6. ASSUME NEW u \in Vertices, NEW i \in DOMAIN line'[u]
        PROVE  WalkOK(job'[line'[u][i]].history, u)
    <3>1. CASE u = w /\ line'[u][i] = j
      BY <2>5, <3>1
    <3>2. CASE line'[u][i] \in Jobs \ {j} /\ \E k \in DOMAIN line[u] : line'[u][i] = line[u][k]
      <4>1. PICK k \in DOMAIN line[u] : line'[u][i] = line[u][k]
        BY <3>2
      <4>2. WalkOK(job[line[u][k]].history, u)
        BY DEF LInv, LinesOK
      <4> QED  BY <2>2, <3>2, <4>1, <4>2
    <3> QED  BY <2>2, <3>1, <3>2
  <2>7. LinesOK'
    BY <2>2, <2>3, <2>6 DEF LinesOK
  <2>8. AcksOK'
    <3>1. acks' = <<>> /\ DOMAIN acks' = {}
      BY <2>2
    <3> QED  BY <3>1 DEF AcksOK
  <2> QED  BY <1>1, <1>2, <2>4, <2>7, <2>8 DEF LInv
<1>4. CASE ~ (Degree(v) > 0)
  <2> DEFINE j == Head(line[v])
             l == Without(line, v)
             a == [type |-> "ACK_EVENT", job |-> j, from |-> v, at |-> v, top |-> Last(job[j].history)[2]]
  <2>1. acks' = <<a>> /\ line' = l /\ job' = job /\ LinesOf(Jobs, line)
    BY <1>4 DEF Depart, Without, LInv, LinesOK
  <2>2. /\ LinesOf(Jobs, l) /\ InNoLine(j, l) /\ j \in Jobs
        /\ 1 \in DOMAIN line[v] /\ j = line[v][1]
        /\ \A u \in Vertices : \A i \in DOMAIN l[u] : \E k \in DOMAIN line[u] : l[u][i] = line[u][k]
    BY <1>1, <2>1, Leaves
  <2>3. WalkOK(job[j].history, v)
    BY <2>2 DEF LInv, LinesOK
  <2> HIDE DEF j, l
  <2>4. Jobs' = Jobs
    BY <2>1 DEF Jobs
  <2>5. JobsOK'
    BY <2>1, <2>4 DEF LInv, JobsOK
  <2>6. ASSUME NEW u \in Vertices, NEW i \in DOMAIN l[u]
        PROVE  WalkOK(job[l[u][i]].history, u)
    <3>1. PICK k \in DOMAIN line[u] : l[u][i] = line[u][k]
      BY <2>2
    <3>2. WalkOK(job[line[u][k]].history, u)
      BY DEF LInv, LinesOK
    <3> QED  BY <3>1, <3>2
  <2>7. LinesOK'
    BY <2>1, <2>2, <2>4, <2>6 DEF LinesOK
  <2>8. AcksOK'
    <3>1. a \in AckRecords
      <4>1. Last(job[j].history)[2] \in Int
        BY <2>3, WalkBack
      <4> QED  BY <2>2, <4>1 DEF AckRecords
    <3>2. AckedOver(a)
      BY <1>4 DEF AckedOver
    <3>3. a.type = "ACK_EVENT" /\ a.job = j /\ a.at = v
      OBVIOUS
    <3> HIDE DEF a
    <3>4. WalkOK(job'[a.job].history, a.at) /\ InNoLine(a.job, line')
      BY <2>1, <2>2, <2>3, <3>3
    <3>5. acks' \in Seq(AckRecords') /\ DOMAIN acks' = {1} /\ acks'[1] = a
      <4>1. AckRecords' = AckRecords
        BY <2>4 DEF AckRecords
      <4> QED  BY <2>1, <3>1, <4>1
    <3>6. \A i \in DOMAIN acks' : i = 1 /\ acks'[i] = a
      BY <3>5
    <3> QED  BY <3>2, <3>4, <3>5, <3>6 DEF AcksOK, AckedOver, Follows
  <2> QED  BY <1>1, <1>2, <2>5, <2>7, <2>8 DEF LInv
<1> QED  BY <1>3, <1>4

\* What follows on an acknowledgement: one that goes a step back on the walk,
\* and those of the other servers that send to this one.
LEMMA ForwardedFacts ==
    ASSUME NEW a \in AckRecords, NEW h, a.type = "ACK_EVENT" => WalkOK(h, a.at)
    PROVE  /\ Forwarded(a, h) \in Seq(AckRecords)
           /\ \A i \in DOMAIN Forwarded(a, h) :
                 /\ AckedOver(Forwarded(a, h)[i])
                 /\ Forwarded(a, h)[i].type = "ACK_EVENT" =>
                       /\ i = 1 /\ a.type = "ACK_EVENT" /\ Forwarded(a, h)[i].job = a.job
                       /\ WalkOK(Front(h), Forwarded(a, h)[i].at)
<1> DEFINE to == Last(h)[1]
           top == Last(Front(h))[2]
           ack(type, at) == [type |-> type, job |-> a.job, from |-> a.at, at |-> at, top |-> top]
           I == {n \in DOMAIN Network : Network[n][2] = a.at /\ Network[n][1] # to}
           others == Listed(I)
           rest == IF desArgs.rl_ci THEN [n \in DOMAIN others |-> ack("ACK_1HOP_EVENT", others[n][1])] ELSE <<>>
           f == Forwarded(a, h)
<1>1. f = IF a.type # "ACK_EVENT" \/ to = EXTERNAL_EVENT THEN <<>> ELSE <<ack("ACK_EVENT", to)>> \o rest
  BY DEF Forwarded
<1> HIDE DEF f
<1>2. CASE a.type # "ACK_EVENT" \/ to = EXTERNAL_EVENT
  <2>1. f = <<>>
    BY <1>1, <1>2
  <2> QED  BY <2>1 DEF f
<1>3. CASE ~ (a.type # "ACK_EVENT" \/ to = EXTERNAL_EVENT)
  <2>1. a.type = "ACK_EVENT" /\ <<to, a.at>> \in Edges /\ WalkOK(Front(h), to) /\ top \in Int
    BY <1>3, WalkBack
  <2>2. a.job \in Jobs /\ a.at \in Vertices /\ to \in Vertices
    BY <2>1, EdgeFacts DEF AckRecords
  <2> HIDE DEF to, top
  <2> DEFINE first == ack("ACK_EVENT", to)
  <2>3. first \in AckRecords /\ AckedOver(first) /\ first.job = a.job /\ first.at = to
    BY <2>1, <2>2 DEF AckRecords, AckedOver
  <2>4. ASSUME NEW n \in DOMAIN others
        PROVE  /\ ack("ACK_1HOP_EVENT", others[n][1]) \in AckRecords
               /\ AckedOver(ack("ACK_1HOP_EVENT", others[n][1]))
    <3>1. I \in SUBSET DOMAIN Network
      OBVIOUS
    <3>2. PICK m \in I : others[n] = Network[m]
      <4> HIDE DEF I
      <4> QED  BY <3>1, ListedFacts
    <3>3. others[n] \in Edges /\ others[n][2] = a.at
      BY <3>2, EdgesAreIndexed
    <3> HIDE DEF others
    <3>4. others[n][1] \in Vertices /\ <<others[n][1], a.at>> \in Edges
      BY <3>3, EdgeFacts
    <3> QED  BY <2>1, <2>2, <3>4 DEF AckRecords, AckedOver
  <2>5. DOMAIN others = 1 .. Cardinality(I) /\ Cardinality(I) \in Nat
    <3>1. I \in SUBSET DOMAIN Network
      OBVIOUS
    <3> HIDE DEF I
    <3> QED  BY <3>1, ListedFacts
  <2> HIDE DEF others, I
  <2>6. /\ rest \in Seq(AckRecords)
        /\ \A n \in DOMAIN rest : AckedOver(rest[n]) /\ rest[n].type # "ACK_EVENT"
    <3>1. CASE desArgs.rl_ci
      <4>1. rest = [n \in DOMAIN others |-> ack("ACK_1HOP_EVENT", others[n][1])]
        BY <3>1
      <4>2. \A n \in DOMAIN others : ack("ACK_1HOP_EVENT", others[n][1]).type = "ACK_1HOP_EVENT"
        OBVIOUS
      <4> HIDE DEF rest, ack
      <4> QED  BY <2>4, <2>5, <4>1, <4>2
    <3>2. CASE ~ desArgs.rl_ci
      <4>1. rest = <<>>
        BY <3>2
      <4> HIDE DEF rest
      <4> QED  BY <4>1
    <3> QED  BY <3>1, <3>2
  <2>7. f = <<first>> \o rest
    BY <1>1, <1>3
  <2> HIDE DEF first, rest
  <2>8. <<first>> \in Seq(AckRecords) /\ Len(<<first>>) = 1 /\ <<first>>[1] = first
    BY <2>3
  <2>9. /\ f \in Seq(AckRecords) /\ DOMAIN f = 1 .. Len(rest) + 1 /\ Len(rest) \in Nat
        /\ \A i \in 1 .. Len(rest) + 1 : f[i] = IF i = 1 THEN first ELSE rest[i - 1]
    <3> DEFINE s == <<first>>
    <3>1. s \in Seq(AckRecords) /\ Len(s) = 1 /\ s[1] = first
      BY <2>8
    <3> HIDE DEF s
    <3>2. /\ s \o rest \in Seq(AckRecords) /\ Len(s \o rest) = Len(s) + Len(rest)
          /\ \A i \in 1 .. Len(s) + Len(rest) :
                (s \o rest)[i] = IF i <= Len(s) THEN s[i] ELSE rest[i - Len(s)]
      BY <2>6, <3>1, ConcatProperties
    <3>3. f = s \o rest
      BY <2>7 DEF s
    <3>4. Len(rest) \in Nat /\ Len(f) = Len(rest) + 1 /\ f \in Seq(AckRecords)
      BY <2>6, <3>1, <3>2, <3>3
    <3>5. ASSUME NEW i \in 1 .. Len(rest) + 1
          PROVE  f[i] = IF i = 1 THEN first ELSE rest[i - 1]
      <4>1. i \in 1 .. Len(s) + Len(rest) /\ (i <= Len(s) <=> i = 1) /\ i - Len(s) = i - 1
        BY <3>1, <3>4
      <4> QED  BY <3>1, <3>2, <3>3, <4>1
    <3> QED  BY <3>4, <3>5
  <2>10. ASSUME NEW i \in DOMAIN f
         PROVE  /\ AckedOver(f[i])
                /\ f[i].type = "ACK_EVENT" =>
                     i = 1 /\ a.type = "ACK_EVENT" /\ f[i].job = a.job /\ WalkOK(Front(h), f[i].at)
    <3>1. CASE i = 1
      <4>1. f[i] = first
        BY <2>9, <3>1
      <4> QED  BY <2>1, <2>3, <3>1, <4>1
    <3>2. CASE i # 1
      <4>1. f[i] = rest[i - 1] /\ i - 1 \in 1 .. Len(rest)
        BY <2>9, <3>2
      <4>2. DOMAIN rest = 1 .. Len(rest)
        BY <2>6
      <4> QED  BY <2>6, <4>1, <4>2
    <3> QED  BY <3>1, <3>2
  <2> QED  BY <2>9, <2>10 DEF f
<1> QED  BY <1>2, <1>3

\* The state of an edge: the length of a line, or a metric.
LEMMA StatesAreInts == LInv => StatesOK
<1> SUFFICES ASSUME LInv, NEW e \in Edges PROVE \E x \in Int : fillStateVector(e) = <<x>>
  BY DEF StatesOK
<1>1. e[1] \in Vertices /\ e[2] \in Vertices
  BY EdgeFacts
<1>2. \A v \in Vertices : NumberInQueue(v) \in Int
  <2> SUFFICES ASSUME NEW v \in Vertices PROVE NumberInQueue(v) \in Int
    OBVIOUS
  <2>1. line[v] \in Seq(Jobs)
    BY DEF LInv, LinesOK, LinesOf
  <2>2. Len(line[v]) \in Nat
    BY <2>1
  <2> QED  BY <2>2 DEF NumberInQueue
<1>3. \A v \in Vertices : vertex[v].expert_normal[1] \in Int /\ vertex[v].expert_absolute[1] \in Int
  BY RationalFacts DEF LInv, LearnedOK, VertexOK, MetricsOK
<1>4. desArgs.representation \in {2, 50, 51, 55}
  BY ConfigsAssumption DEF LInv
<1> QED  BY <1>1, <1>2, <1>3, <1>4 DEF fillStateVector

LEMMA AckIsOK ==
    ASSUME LInv, Ack
    PROVE  LInv'
<1> DEFINE a == Head(acks)
           v == a.at
           h == job[a.job].history
           f == Forwarded(a, h)
           t == Tail(acks)
<1>1. /\ acks \in Seq(AckRecords) /\ acks # <<>> /\ a = acks[1] /\ a \in AckRecords
      /\ Len(acks) \in Nat \ {0} /\ DOMAIN acks = 1 .. Len(acks) /\ 1 \in DOMAIN acks
      /\ t \in Seq(AckRecords) /\ Len(t) = Len(acks) - 1 /\ \A i \in 1 .. Len(acks) - 1 : t[i] = acks[i + 1]
  <2>1. acks \in Seq(AckRecords) /\ acks # <<>>
    BY DEF Ack, LInv, AcksOK
  <2> QED  BY <2>1, EmptySeq, HeadTailProperties
<1>2. /\ AckedOver(a)
      /\ a.type = "ACK_EVENT" => Follows(a)
      /\ a.job \in Jobs /\ v \in Vertices /\ a.top \in Int
      /\ \A i \in DOMAIN acks : acks[i].type = "ACK_EVENT" /\ a.type = "ACK_EVENT" => i = 1
  <2> HIDE DEF a
  <2> QED  BY <1>1 DEF LInv, AcksOK, AckRecords
<1>3. /\ acks' = t \o f
      /\ job' = IF a.type = "ACK_EVENT" THEN [job EXCEPT ![a.job].history = Front(h)] ELSE job
      /\ UNCHANGED <<desArgs, now, line>>
  BY DEF Ack
<1>4. \E r \in Responded(Rated(State, v, a.from, a.top), v, a.from, a.top) :
         /\ vertex' = Varied(r, v, a.from).vertex
         /\ nets' = Varied(r, v, a.from).nets
         /\ sample' = Varied(r, v, a.from).sample
  BY DEF Ack
<1> HIDE DEF a, v, h, f, t
<1>5. LearnedOK'
  <2>1. desArgs \in Configs /\ StateOK(State) /\ StatesOK /\ now \in Int
    BY LearnedIsState, StatesAreInts DEF LInv
  <2> DEFINE s == Rated(State, v, a.from, a.top)
  <2>2. StateOK(s)
    BY <1>2, <2>1, RatedOK
  <2> HIDE DEF s
  <2>3. PICK r \in Responded(s, v, a.from, a.top) :
           /\ vertex' = Varied(r, v, a.from).vertex
           /\ nets' = Varied(r, v, a.from).nets
           /\ sample' = Varied(r, v, a.from).sample
    BY <1>4 DEF s
  <2>4. Degree(v) > 0 => <<v, a.from>> \in Edges
    BY <1>2 DEF AckedOver, v
  <2>5. StateOK(r)
    BY <1>2, <2>1, <2>2, <2>4, RespondedOK
  <2> DEFINE z == Varied(r, v, a.from)
  <2>6. StateOK(z)
    BY <1>2, <2>5, VariedOK
  <2> HIDE DEF z
  <2>7. vertex' = z.vertex /\ nets' = z.nets /\ sample' = z.sample
    BY <2>3 DEF z
  <2>8. VertexOK(vertex') /\ NetsOK(nets') /\ DOMAIN nets' = NetIndices /\ OwnState(sample')
    BY <2>6, <2>7 DEF StateOK
  <2>9. NetIndices' = NetIndices /\ (~ desArgs'.rl_hybrid => sample'.inputs = sample'.state)
    BY <1>3, <2>8 DEF NetIndices, Indices, Outsourced, OwnState
  <2> QED  BY <2>8, <2>9 DEF LearnedOK, VertexOK, NetsOK, OwnState
<1>6. /\ Jobs' = Jobs /\ AckRecords' = AckRecords
      /\ \A j \in Jobs : DOMAIN job'[j] = {"history", "trail"}
      /\ \A j \in Jobs : j # a.job => job'[j] = job[j]
      /\ a.type = "ACK_EVENT" => job'[a.job].history = Front(h)
      /\ a.type # "ACK_EVENT" => job' = job
  <2>1. \A j \in Jobs : DOMAIN job[j] = {"history", "trail"}
    BY DEF LInv, JobsOK
  <2>2. DOMAIN job' = DOMAIN job
    BY <1>3
  <2>3. Jobs' = Jobs
    BY <2>2 DEF Jobs
  <2>4. CASE a.type = "ACK_EVENT"
    <3>1. job' = [job EXCEPT ![a.job].history = Front(h)]
      BY <1>3, <2>4
    <3>2. a.job \in DOMAIN job /\ DOMAIN job[a.job] = {"history", "trail"}
      BY <1>2, <2>1 DEF Jobs
    <3>3. job'[a.job].history = Front(h) /\ DOMAIN job'[a.job] = {"history", "trail"}
      BY <3>1, <3>2
    <3>4. \A j \in Jobs : j # a.job => job'[j] = job[j]
      BY <3>1 DEF Jobs
    <3> QED  BY <2>1, <2>3, <2>4, <3>3, <3>4 DEF AckRecords
  <2>5. CASE a.type # "ACK_EVENT"
    <3>1. job' = job
      BY <1>3, <2>5
    <3> QED  BY <2>1, <2>3, <2>5, <3>1 DEF AckRecords
  <2> QED  BY <2>4, <2>5
<1>7. JobsOK'
  BY <1>6 DEF LInv, JobsOK
<1>8. LinesOK'
  <2>1. LinesOf(Jobs, line)
    BY DEF LInv, LinesOK
  <2>2. ASSUME NEW u \in Vertices, NEW i \in DOMAIN line[u]
        PROVE  WalkOK(job'[line[u][i]].history, u)
    <3>1. line[u][i] \in Jobs /\ WalkOK(job[line[u][i]].history, u)
      BY <2>1 DEF LInv, LinesOK, LinesOf
    <3>2. a.type = "ACK_EVENT" => line[u][i] # a.job
      BY <1>2 DEF Follows, InNoLine
    <3> QED  BY <1>6, <3>1, <3>2
  <2> QED  BY <1>3, <1>6, <2>1, <2>2 DEF LinesOK
<1>9. /\ f \in Seq(AckRecords) /\ Len(f) \in Nat /\ DOMAIN f = 1 .. Len(f)
      /\ \A i \in DOMAIN f :
            /\ AckedOver(f[i])
            /\ f[i].type = "ACK_EVENT" =>
                 i = 1 /\ a.type = "ACK_EVENT" /\ f[i].job = a.job /\ WalkOK(Front(h), f[i].at)
  <2>1. a.type = "ACK_EVENT" => WalkOK(h, a.at)
    BY <1>2 DEF Follows, h
  <2> QED  BY <1>1, <2>1, ForwardedFacts DEF f
<1> DEFINE n == Len(acks) - 1
<1>10. /\ acks' \in Seq(AckRecords) /\ n \in Nat
       /\ \A i \in DOMAIN acks' :
             \/ i \in 1 .. n /\ i + 1 \in DOMAIN acks /\ acks'[i] = acks[i + 1]
             \/ i - n \in DOMAIN f /\ acks'[i] = f[i - n] /\ i \in Nat /\ i > n
  <2>1. /\ t \o f \in Seq(AckRecords) /\ Len(t \o f) = Len(t) + Len(f)
        /\ \A i \in 1 .. Len(t) + Len(f) : (t \o f)[i] = IF i <= Len(t) THEN t[i] ELSE f[i - Len(t)]
    BY <1>1, <1>9, ConcatProperties
  <2>2. n \in Nat /\ Len(t) = n /\ DOMAIN (t \o f) = 1 .. n + Len(f)
    BY <1>1, <1>9, <2>1
  <2> HIDE DEF n
  <2>3. ASSUME NEW i \in 1 .. n + Len(f)
        PROVE  \/ i \in 1 .. n /\ acks'[i] = t[i]
               \/ i - n \in 1 .. Len(f) /\ acks'[i] = f[i - n] /\ i \in Nat /\ i > n
    <3>1. i <= n \/ i > n
      BY <2>2
    <3>2. CASE i <= n
      BY <1>3, <2>1, <2>2, <3>2
    <3>3. CASE i > n
      <4>1. i - n \in 1 .. Len(f) /\ ~ (i <= n) /\ i \in Nat
        BY <1>9, <2>2, <3>3
      <4> QED  BY <1>3, <2>1, <2>2, <3>3, <4>1
    <3> QED  BY <3>1, <3>2, <3>3
  <2>4. \A i \in 1 .. n : i + 1 \in DOMAIN acks /\ t[i] = acks[i + 1]
    <3>1. \A i \in 1 .. n : i + 1 \in 1 .. Len(acks)
      BY <1>1 DEF n
    <3> QED  BY <1>1, <3>1 DEF n
  <2> QED  BY <1>3, <1>9, <2>1, <2>2, <2>3, <2>4
<1> HIDE DEF n
<1>11. ASSUME NEW i \in DOMAIN acks', acks'[i].type = "ACK_EVENT"
       PROVE  /\ a.type = "ACK_EVENT" => i = n + 1 /\ acks'[i].job = a.job /\ WalkOK(Front(h), acks'[i].at)
              /\ a.type # "ACK_EVENT" => i \in 1 .. n /\ i + 1 \in DOMAIN acks /\ acks'[i] = acks[i + 1]
  <2>1. CASE i \in 1 .. n /\ i + 1 \in DOMAIN acks /\ acks'[i] = acks[i + 1]
    <3>1. i + 1 # 1
      BY <1>10, <2>1
    <3> QED  BY <1>2, <1>11, <2>1, <3>1
  <2>2. CASE i - n \in DOMAIN f /\ acks'[i] = f[i - n] /\ i \in Nat
    <3>1. i - n = 1 /\ a.type = "ACK_EVENT" /\ acks'[i].job = a.job /\ WalkOK(Front(h), acks'[i].at)
      BY <1>9, <1>11, <2>2
    <3>2. i = n + 1
      BY <1>10, <2>2, <3>1
    <3> QED  BY <3>1, <3>2
  <2> QED  BY <1>10, <2>1, <2>2
<1>12. ASSUME NEW i \in DOMAIN acks'
       PROVE  /\ AckedOver(acks'[i])
              /\ acks'[i].type = "ACK_EVENT" =>
                    WalkOK(job'[acks'[i].job].history, acks'[i].at) /\ InNoLine(acks'[i].job, line')
  <2>1. AckedOver(acks'[i])
    <3>1. CASE i + 1 \in DOMAIN acks /\ acks'[i] = acks[i + 1]
      BY <3>1 DEF LInv, AcksOK
    <3>2. CASE i - n \in DOMAIN f /\ acks'[i] = f[i - n]
      BY <1>9, <3>2
    <3> QED  BY <1>10, <3>1, <3>2
  <2>2. ASSUME acks'[i].type = "ACK_EVENT"
        PROVE  WalkOK(job'[acks'[i].job].history, acks'[i].at) /\ InNoLine(acks'[i].job, line)
    <3>1. CASE a.type = "ACK_EVENT"
      <4>1. acks'[i].job = a.job /\ WalkOK(Front(h), acks'[i].at)
        BY <1>11, <2>2, <3>1
      <4> QED  BY <1>2, <1>6, <3>1, <4>1 DEF Follows
    <3>2. CASE a.type # "ACK_EVENT"
      <4>1. i + 1 \in DOMAIN acks /\ acks'[i] = acks[i + 1] /\ job' = job
        BY <1>6, <1>11, <2>2, <3>2
      <4>2. Follows(acks[i + 1])
        BY <2>2, <4>1 DEF LInv, AcksOK
      <4> QED  BY <4>1, <4>2 DEF Follows
    <3> QED  BY <3>1, <3>2
  <2> QED  BY <1>3, <2>1, <2>2
<1>13. ASSUME NEW i \in DOMAIN acks', NEW k \in DOMAIN acks',
              acks'[i].type = "ACK_EVENT", acks'[k].type = "ACK_EVENT"
       PROVE  i = k
  <2>1. CASE a.type = "ACK_EVENT"
    BY <1>11, <1>13, <2>1
  <2>2. CASE a.type # "ACK_EVENT"
    <3>1. /\ i \in 1 .. n /\ i + 1 \in DOMAIN acks /\ acks[i + 1].type = "ACK_EVENT"
          /\ k \in 1 .. n /\ k + 1 \in DOMAIN acks /\ acks[k + 1].type = "ACK_EVENT"
      BY <1>11, <1>13, <2>2
    <3>2. i + 1 = k + 1
      BY <3>1 DEF LInv, AcksOK
    <3> QED  BY <1>10, <3>1, <3>2
  <2> QED  BY <2>1, <2>2
<1>14. AcksOK'
  BY <1>6, <1>10, <1>12, <1>13 DEF AcksOK, Follows, AckedOver
<1> QED  BY <1>3, <1>5, <1>7, <1>8, <1>14 DEF LInv

-----------------------------------------------------------------------------
\* A job that left the servers is on its way back along the walk it came, one
\* step an acknowledgement, so the edge whose value a response changes is one the
\* job took (AckHandler.cc:69-110), and a network is trained with the state of
\* that edge, whatever was presented to the networks in between
\* (FullRLResponseHandler.cc:186-262).
THEOREM WalksAreFollowedBack == Spec => []LInv
<1>1. LInv /\ [Next]_vars => LInv'
  <2> SUFFICES ASSUME LInv, [Next]_vars PROVE LInv'
    OBVIOUS
  <2>1. CASE \E v \in Entrances : Enter(v)
    BY <2>1, EnterIsOK
  <2>2. CASE \E v \in Vertices : Depart(v)
    BY <2>2, DepartIsOK
  <2>3. CASE Ack
    BY <2>3, AckIsOK
  <2>4. CASE Tick
    BY <2>4, TickIsOK
  <2>5. CASE UNCHANGED vars
    BY <2>5, StutterIsOK
  <2> QED  BY <2>1, <2>2, <2>3, <2>4, <2>5 DEF Next
<1> QED  BY InitIsOK, <1>1, PTL DEF Spec

\* A network is trained with the state of the edge whose reward was observed,
\* unless the hybrid handler is attached (FullRLResponseHandler.cc:186-262).
THEOREM NetworksTrainOnOwnState == Spec => []TrainedOnOwnState
<1>1. LInv => TrainedOnOwnState
  BY DEF LInv, LearnedOK, OwnState, TrainedOnOwnState
<1> QED  BY WalksAreFollowedBack, <1>1, PTL

\* The gradient of a network has the direction of its error, for hidden layers of
\* any size, any weights and any of the targets (MSE.hh:108, MSE.hh:213-239).  Its
\* size, which HTangent.hh:35 takes from another function, is not stated.
THEOREM GradientsDescend == Spec => []GradientIsDescent
<1>1. LInv => GradientIsDescent
  <2> SUFFICES ASSUME LInv, sample.net \in DOMAIN nets, NEW t \in {-Unit, 0, Unit}
               PROVE  IsDescent(nets[sample.net], <<t>>)
    BY DEF GradientIsDescent
  <2>0. t \in Int
    BY DEF Unit
  <2>1. NetOK(nets[sample.net])
    BY DEF LInv, LearnedOK, NetsOK
  <2> QED  BY <2>0, <2>1, GradientDescends
<1> QED  BY WalksAreFollowedBack, <1>1, PTL

-----------------------------------------------------------------------------
(* Sums of quotients.                                                      *)

\* The recursion of SumOf.
IsSum(it, f, S) ==
    /\ it \in [SUBSET S -> Rationals] /\ it[{}] = Zero
    /\ \A s \in SUBSET S : s # {} => it[s] = f[Pick(s)] ++ it[s \ {Pick(s)}]

LEMMA SumOfIs ==
    ASSUME NEW S, IsFiniteSet(S), NEW f, \A x \in S : f[x] \in Rationals
    PROVE  \E it : IsSum(it, f, S) /\ SumOf(f, S) = it[S]
<1> DEFINE Folds(it) == it = [s \in SUBSET S |-> IF s = {} THEN Zero ELSE f[Pick(s)] ++ it[s \ {Pick(s)}]]
           fold == CHOOSE it : Folds(it)
           op == [p \in Rationals \X Rationals |-> p[1] ++ p[2]]
<1>1. SumOf(f, S) = fold[S]
  BY DEF SumOf, FoldFunctionOnSet, MapThenFoldSet, Pick
<1>2. PICK it : IsFold(it, S, Rationals, Zero, op, f)
  <2>1. op \in [Rationals \X Rationals -> Rationals]
    BY Arithmetic
  <2>2. Zero \in Rationals
    BY Wholes
  <2> HIDE DEF op
  <2> QED  BY <2>1, <2>2, FoldExists
<1>3. ASSUME NEW s \in SUBSET S, s # {}
      PROVE  it[s] = f[Pick(s)] ++ it[s \ {Pick(s)}]
  <2>1. f[Pick(s)] \in Rationals /\ it[s \ {Pick(s)}] \in Rationals
    BY <1>2, <1>3, PickIn DEF IsFold
  <2>2. op[<<f[Pick(s)], it[s \ {Pick(s)}]>>] = f[Pick(s)] ++ it[s \ {Pick(s)}]
    BY <2>1
  <2> HIDE DEF op
  <2> QED  BY <1>2, <1>3, <2>2 DEF IsFold
<1>4. Folds(it)
  BY <1>2, <1>3 DEF IsFold
<1>5. Folds(fold)
  <2> HIDE DEF Folds
  <2> QED  BY <1>4
<1> HIDE DEF fold
<1>6. /\ \A s \in SUBSET S : fold[s] = IF s = {} THEN Zero ELSE f[Pick(s)] ++ fold[s \ {Pick(s)}]
      /\ fold = [s \in SUBSET S |-> fold[s]]
  BY <1>5
<1> DEFINE Good == {s \in SUBSET S : fold[s] \in Rationals}
<1>7. SUBSET S \subseteq Good
  <2>1. {} \in Good
    <3>1. {} \in SUBSET S /\ fold[{}] = Zero
      BY <1>6
    <3> QED  BY <3>1, Wholes
  <2>2. ASSUME NEW s \in SUBSET S, s # {}, s \ {Pick(s)} \in Good
        PROVE  s \in Good
    <3>1. f[Pick(s)] \in Rationals
      <4>1. Pick(s) \in S
        BY <2>2, PickIn
      <4> QED  BY <4>1
    <3>2. fold[s] = f[Pick(s)] ++ fold[s \ {Pick(s)}]
      BY <1>6, <2>2
    <3>3. fold[s \ {Pick(s)}] \in Rationals
      BY <2>2
    <3>4. fold[s] \in Rationals
      <4> DEFINE a == f[Pick(s)]
                 b == fold[s \ {Pick(s)}]
      <4>1. a \in Rationals /\ b \in Rationals /\ fold[s] = a ++ b
        BY <3>1, <3>2, <3>3
      <4> HIDE DEF a, b
      <4> QED  BY ONLY <4>1, Arithmetic
    <3> QED  BY <3>4
  <2> HIDE DEF Good
  <2> QED  BY <2>1, <2>2, AllSubsets
<1>8. fold \in [SUBSET S -> Rationals]
  BY <1>6, <1>7
<1>9. fold[{}] = Zero /\ \A s \in SUBSET S : s # {} => fold[s] = f[Pick(s)] ++ fold[s \ {Pick(s)}]
  BY <1>6
<1>10. IsSum(fold, f, S)
  BY <1>8, <1>9 DEF IsSum
<1> QED  BY <1>1, <1>10

\* A sum, and what is left of it without one of its terms.
LEMMA SumOfFacts ==
    ASSUME NEW S, IsFiniteSet(S), NEW f, \A x \in S : f[x] \in Rationals
    PROVE  /\ SumOf(f, S) \in Rationals
           /\ S = {} => SumOf(f, S) = Zero
           /\ S # {} => SumOf(f, S) = f[Pick(S)] ++ SumOf(f, S \ {Pick(S)})
<1>1. PICK it : IsSum(it, f, S) /\ SumOf(f, S) = it[S]
  BY SumOfIs
<1>2. ASSUME S # {}
      PROVE  SumOf(f, S) = f[Pick(S)] ++ SumOf(f, S \ {Pick(S)})
  <2> DEFINE T == S \ {Pick(S)}
  <2>1. T \in SUBSET S /\ IsFiniteSet(T)
    BY FS_Subset
  <2>2. PICK is : IsSum(is, f, T) /\ SumOf(f, T) = is[T]
    <3> HIDE DEF T
    <3> QED  BY <2>1, SumOfIs
  <2> DEFINE Good == {s \in SUBSET T : is[s] = it[s]}
  <2>3. SUBSET T \subseteq Good
    <3> HIDE DEF T
    <3>1. {} \in Good
      BY <1>1, <2>2 DEF IsSum
    <3>2. ASSUME NEW s \in SUBSET T, s # {}, s \ {Pick(s)} \in Good
          PROVE  s \in Good
      <4>1. s \in SUBSET S
        BY <2>1
      <4>2. is[s] = f[Pick(s)] ++ is[s \ {Pick(s)}] /\ it[s] = f[Pick(s)] ++ it[s \ {Pick(s)}]
        BY <1>1, <2>2, <3>2, <4>1 DEF IsSum
      <4> QED  BY <3>2, <4>2
    <3> HIDE DEF Good
    <3> QED  BY <2>1, <3>1, <3>2, AllSubsets
  <2>4. is[T] = it[T]
    BY <2>3
  <2>5. it[S] = f[Pick(S)] ++ it[T]
    BY <1>1, <1>2 DEF IsSum
  <2> QED  BY <1>1, <2>2, <2>4, <2>5
<1> QED  BY <1>1, <1>2 DEF IsSum

\* A sum of values that are not negative.
LEMMA SumOfPositive ==
    ASSUME NEW S, IsFiniteSet(S), NEW f, \A x \in S : f[x] \in Rationals /\ f[x][1] >= 0
    PROVE  /\ SumOf(f, S)[1] >= 0
           /\ (\E x \in S : f[x][1] > 0) => SumOf(f, S)[1] > 0
<1> DEFINE Good == {s \in SUBSET S : /\ SumOf(f, s)[1] >= 0
                                     /\ (\E x \in s : f[x][1] > 0) => SumOf(f, s)[1] > 0}
<1>1. \A s \in SUBSET S : IsFiniteSet(s)
  BY FS_Subset
<1>2. {} \in Good
  <2>1. SumOf(f, {}) = Zero
    BY <1>1, SumOfFacts
  <2> QED  BY <2>1, Wholes
<1>3. ASSUME NEW s \in SUBSET S, s # {}, s \ {Pick(s)} \in Good
      PROVE  s \in Good
  <2> DEFINE a == f[Pick(s)]
             b == SumOf(f, s \ {Pick(s)})
  <2>1. Pick(s) \in s /\ a \in Rationals /\ a[1] >= 0
    BY <1>3, PickIn
  <2>2. b \in Rationals
    BY <1>1, SumOfFacts
  <2>3. SumOf(f, s) = a ++ b
    BY <1>1, <1>3, SumOfFacts
  <2>4. b[1] >= 0 /\ ((\E x \in s \ {Pick(s)} : f[x][1] > 0) => b[1] > 0)
    BY <1>3
  <2>5. (\E x \in s : f[x][1] > 0) => a[1] > 0 \/ b[1] > 0
    BY <2>4
  <2> HIDE DEF a, b
  <2>6. (a ++ b)[1] >= 0 /\ (a[1] > 0 \/ b[1] > 0 => (a ++ b)[1] > 0)
    BY <2>1, <2>2, <2>4, SumSign
  <2> QED  BY <2>3, <2>5, <2>6
<1> HIDE DEF Good
<1>4. SUBSET S \subseteq Good
  BY <1>2, <1>3, AllSubsets
<1> QED  BY <1>4 DEF Good

\* A quotient r that is worth n over d.
Worth(r, n, d) == r \in Rationals /\ n \in Int /\ d \in Nat \ {0} /\ r[1] * d = n * r[2]

\* Two fractions in the same proportion to a third.
LEMMA CrossSame ==
    ASSUME NEW a \in Int, NEW b \in Nat \ {0}, NEW n \in Int, NEW d \in Nat \ {0},
           NEW m \in Int, NEW e \in Nat \ {0}, a * d = n * b
    PROVE  n * e <= m * d <=> a * e <= m * b
<1> DEFINE x == n * e - m * d
           y == a * e - m * b
<1>1. x \in Int /\ y \in Int
  OBVIOUS
<1>2. y * d = x * b
  <2>1. y * d = (a * d) * e - (m * b) * d
    OBVIOUS
  <2>2. x * b = (n * b) * e - (m * b) * d
    OBVIOUS
  <2> QED  BY <2>1, <2>2
<1>3. x > 0 <=> y > 0
  <2> HIDE DEF x, y
  <2> QED  BY <1>1, <1>2, Products
<1>4. (n * e <= m * d <=> ~ (x > 0)) /\ (a * e <= m * b <=> ~ (y > 0))
  <2>1. n * e \in Int /\ m * d \in Int /\ a * e \in Int /\ m * b \in Int
    BY Products
  <2> QED  BY <2>1
<1> QED  BY <1>3, <1>4

LEMMA WorthAtMost ==
    ASSUME NEW r, NEW n, NEW d, Worth(r, n, d), NEW q, NEW m, NEW e, Worth(q, m, e)
    PROVE  AtMost(r, q) <=> n * e <= m * d
<1>1. /\ r[1] \in Int /\ r[2] \in Nat \ {0} /\ q[1] \in Int /\ q[2] \in Nat \ {0}
      /\ n \in Int /\ d \in Nat \ {0} /\ m \in Int /\ e \in Nat \ {0}
      /\ r[1] * d = n * r[2] /\ q[1] * e = m * q[2]
  BY RationalFacts DEF Worth
<1>2. n * e <= m * d <=> r[1] * e <= m * r[2]
  BY <1>1, CrossSame
<1>3. r[1] * e <= m * r[2] <=> r[1] * q[2] <= q[1] * r[2]
  <2>1. (-m) * q[2] = (-q[1]) * e /\ -m \in Int /\ -q[1] \in Int /\ -r[1] \in Int
    <3> DEFINE a == q[1]
               b == q[2]
    <3>1. a \in Int /\ b \in Int /\ e \in Int /\ m \in Int /\ r[1] \in Int /\ a * e = m * b
      BY <1>1
    <3> HIDE DEF a, b
    <3>2. (-m) * b = -(m * b) /\ (-a) * e = -(a * e)
      BY <3>1
    <3>3. -m \in Int /\ -a \in Int /\ -r[1] \in Int
      BY <3>1
    <3> QED  BY <3>1, <3>2, <3>3 DEF a, b
  <2>2. (-q[1]) * r[2] <= (-r[1]) * q[2] <=> (-m) * r[2] <= (-r[1]) * e
    <3> DEFINE a == -q[1]
               b == -r[1]
               c == -m
               u == q[2]
               v == r[2]
    <3>1. a \in Int /\ b \in Int /\ c \in Int /\ u \in Nat \ {0} /\ v \in Nat \ {0} /\ e \in Nat \ {0}
          /\ c * u = a * e
      BY <1>1, <2>1
    <3> HIDE DEF a, b, c, u, v
    <3>2. a * v <= b * u <=> c * v <= b * e
      BY <3>1, CrossSame
    <3> QED  BY <3>2 DEF a, b, c, u, v
  <2>3. (-q[1]) * r[2] = -(q[1] * r[2]) /\ (-r[1]) * q[2] = -(r[1] * q[2])
        /\ (-m) * r[2] = -(m * r[2]) /\ (-r[1]) * e = -(r[1] * e)
    <3>1. \A x, y \in Int : (-x) * y = -(x * y)
      OBVIOUS
    <3>2. q[1] \in Int /\ q[2] \in Int /\ r[1] \in Int /\ r[2] \in Int /\ m \in Int /\ e \in Int
      BY <1>1
    <3> QED  BY ONLY <3>1, <3>2
  <2>4. q[1] * r[2] \in Int /\ r[1] * q[2] \in Int /\ m * r[2] \in Int /\ r[1] * e \in Int
    BY <1>1, Products
  <2> QED  BY <2>2, <2>3, <2>4
<1>4. AtMost(r, q) <=> r[1] * q[2] <= q[1] * r[2]
  <2>1. r[1] * q[2] \in Int /\ q[1] * r[2] \in Int
    BY <1>1, Products
  <2> QED  BY <2>1 DEF AtMost, Below
<1> QED  BY <1>2, <1>3, <1>4

LEMMA WorthItself ==
    /\ \A r \in Rationals : Worth(r, r[1], r[2])
    /\ \A n \in Int : Worth(Whole(n), n, 1)
    /\ Worth(Zero, 0, 1) /\ Worth(One, 1, 1)
<1>1. \A r \in Rationals : Worth(r, r[1], r[2])
  BY RationalFacts DEF Worth
<1> QED  BY <1>1, Wholes

\* What a sum, a product and a difference are worth.
LEMMA WorthReduced ==
    ASSUME NEW n \in Int, NEW d \in Nat \ {0}
    PROVE  Worth(Reduced(n, d), n, d)
  BY ReducedSign DEF Worth

LEMMA SameWorth ==
    ASSUME NEW r, NEW n, NEW d, Worth(r, n, d), NEW m \in Int, NEW e \in Nat \ {0}, n * e = m * d
    PROVE  Worth(r, m, e)
<1>1. /\ r[1] \in Int /\ r[2] \in Nat \ {0} /\ n \in Int /\ d \in Nat \ {0} /\ r[1] * d = n * r[2]
      /\ r \in Rationals
  BY RationalFacts DEF Worth
<1> DEFINE x == r[1] * e - m * r[2]
<1>2. x * d = 0
  <2>1. x * d = (r[1] * d) * e - (m * d) * r[2]
    BY <1>1
  <2>2. (r[1] * d) * e = (n * e) * r[2]
    <3>1. (n * r[2]) * e = (n * e) * r[2]
      BY <1>1
    <3> QED  BY <1>1, <3>1
  <2>3. (n * e) * r[2] = (m * d) * r[2] /\ (m * d) * r[2] \in Int
    BY <1>1
  <2> QED  BY <2>1, <2>2, <2>3
<1>3. x \in Int
  BY <1>1
<1>4. x = 0
  <2> HIDE DEF x
  <2> QED  BY <1>1, <1>2, <1>3, Products
<1>5. r[1] * e = m * r[2]
  <2>1. r[1] * e \in Int /\ m * r[2] \in Int
    BY <1>1, Products
  <2> QED  BY <1>4, <2>1
<1> QED  BY <1>1, <1>5 DEF Worth

LEMMA WorthSum ==
    ASSUME NEW r, NEW n, NEW d, Worth(r, n, d), NEW q, NEW m, NEW e, Worth(q, m, e)
    PROVE  Worth(r ++ q, n * e + m * d, d * e)
<1>1. /\ r[1] \in Int /\ r[2] \in Nat \ {0} /\ q[1] \in Int /\ q[2] \in Nat \ {0}
      /\ n \in Int /\ d \in Nat \ {0} /\ m \in Int /\ e \in Nat \ {0}
      /\ r[1] * d = n * r[2] /\ q[1] * e = m * q[2] /\ r \in Rationals /\ q \in Rationals
  BY RationalFacts DEF Worth
<1> DEFINE k == r[1] * q[2] + q[1] * r[2]
           l == r[2] * q[2]
<1>2. Worth(r ++ q, k, l)
  <2>1. r ++ q \in Rationals
    BY <1>1, Arithmetic
  <2>2. (r ++ q)[1] * l = k * (r ++ q)[2]
    BY <1>1, SumValue
  <2>3. k \in Int /\ l \in Nat \ {0}
    BY <1>1, Products
  <2> QED  BY <2>1, <2>2, <2>3 DEF Worth
<1>3. k * (d * e) = (n * e + m * d) * l
  <2>1. k * (d * e) = (r[1] * d) * (q[2] * e) + (q[1] * e) * (r[2] * d)
    BY <1>1
  <2>2. (n * e + m * d) * l = (n * r[2]) * (q[2] * e) + (m * q[2]) * (r[2] * d)
    BY <1>1
  <2> QED  BY <1>1, <2>1, <2>2
<1>4. n * e + m * d \in Int /\ d * e \in Nat \ {0}
  BY <1>1, Products
<1> HIDE DEF k, l
<1> QED  BY <1>2, <1>3, <1>4, SameWorth

LEMMA WorthProduct ==
    ASSUME NEW r, NEW n, NEW d, Worth(r, n, d), NEW q, NEW m, NEW e, Worth(q, m, e)
    PROVE  Worth(r ** q, n * m, d * e)
<1>1. /\ r[1] \in Int /\ r[2] \in Nat \ {0} /\ q[1] \in Int /\ q[2] \in Nat \ {0}
      /\ n \in Int /\ d \in Nat \ {0} /\ m \in Int /\ e \in Nat \ {0}
      /\ r[1] * d = n * r[2] /\ q[1] * e = m * q[2]
  BY RationalFacts DEF Worth
<1> DEFINE k == r[1] * q[1]
           l == r[2] * q[2]
<1>2. k \in Int /\ l \in Nat \ {0} /\ n * m \in Int /\ d * e \in Nat \ {0}
  BY <1>1, Products
<1>3. Worth(r ** q, k, l)
  <2> HIDE DEF k, l
  <2>1. Worth(Reduced(k, l), k, l)
    BY <1>2, WorthReduced
  <2> QED  BY <2>1 DEF **, k, l
<1>4. k * (d * e) = (n * m) * l
  <2>1. k * (d * e) = (r[1] * d) * (q[1] * e)
    BY <1>1
  <2>2. (n * m) * l = (n * r[2]) * (m * q[2])
    BY <1>1
  <2> QED  BY <1>1, <2>1, <2>2
<1> HIDE DEF k, l
<1> QED  BY <1>2, <1>3, <1>4, SameWorth

LEMMA WorthDifference ==
    ASSUME NEW r, NEW n, NEW d, Worth(r, n, d), NEW q, NEW m, NEW e, Worth(q, m, e)
    PROVE  Worth(r -- q, n * e - m * d, d * e)
<1>1. /\ q[1] \in Int /\ q[2] \in Nat \ {0} /\ q \in Rationals
      /\ n \in Int /\ d \in Nat \ {0} /\ m \in Int /\ e \in Nat \ {0} /\ q[1] * e = m * q[2]
  BY RationalFacts DEF Worth
<1>2. Worth(Minus(q), -m, e)
  <2>1. Minus(q) \in Rationals /\ Minus(q)[1] = -q[1] /\ Minus(q)[2] = q[2]
    BY <1>1, Arithmetic DEF Minus
  <2>2. (-q[1]) * e = (-m) * q[2]
    BY <1>1
  <2> QED  BY <1>1, <2>1, <2>2 DEF Worth
<1>3. Worth(r ++ Minus(q), n * e + (-m) * d, d * e)
  BY <1>2, WorthSum
<1>4. n * e + (-m) * d = n * e - m * d
  BY <1>1
<1> QED  BY <1>3, <1>4 DEF --

\* Over a number that is not zero.
LEMMA WorthQuotient ==
    ASSUME NEW r, NEW n, NEW d, Worth(r, n, d), NEW q, NEW m, NEW e, Worth(q, m, e), m > 0
    PROVE  Worth(r // q, n * e, d * m)
<1>1. /\ r[1] \in Int /\ r[2] \in Nat \ {0} /\ q[1] \in Int /\ q[2] \in Nat \ {0}
      /\ n \in Int /\ d \in Nat \ {0} /\ m \in Int /\ e \in Nat \ {0}
      /\ r[1] * d = n * r[2] /\ q[1] * e = m * q[2]
  BY RationalFacts DEF Worth
<1>2. q[1] \in Nat \ {0}
  <2>1. m * q[2] > 0
    BY <1>1, Products
  <2>2. q[1] > 0
    BY <1>1, <2>1, Products
  <2> QED  BY <1>1, <2>2
<1> DEFINE k == r[1] * q[2]
           l == r[2] * q[1]
<1>3. k \in Int /\ l \in Nat \ {0} /\ n * e \in Int /\ d * m \in Nat \ {0}
  BY <1>1, <1>2, Products
<1>4. Worth(r // q, k, l)
  <2> HIDE DEF k, l
  <2>1. Worth(Reduced(k, l), k, l)
    BY <1>3, WorthReduced
  <2> QED  BY <2>1 DEF //, k, l
<1>5. k * (d * m) = (n * e) * l
  <2>0. ASSUME NEW x \in Int, NEW y \in Int, NEW z \in Int, NEW w \in Int
        PROVE  (x * y) * (z * w) = (x * z) * (w * y)
    OBVIOUS
  <2>1. k * (d * m) = (r[1] * d) * (m * q[2])
    <3>1. r[1] \in Int /\ q[2] \in Int /\ d \in Int /\ m \in Int
      BY <1>1
    <3>2. (r[1] * q[2]) * (d * m) = (r[1] * d) * (m * q[2])
      BY ONLY <2>0, <3>1
    <3> QED  BY <3>2
  <2>2. (n * e) * l = (n * r[2]) * (q[1] * e)
    BY <1>1
  <2> QED  BY <1>1, <2>1, <2>2
<1> HIDE DEF k, l
<1> QED  BY <1>3, <1>4, <1>5, SameWorth

\* A sum grows with its terms.
LEMMA SumGrows ==
    ASSUME NEW a \in Rationals, NEW b \in Rationals, NEW c \in Rationals, NEW d \in Rationals,
           AtMost(a, c), AtMost(b, d)
    PROVE  AtMost(a ++ b, c ++ d)
<1>0. ASSUME NEW x \in Rationals, NEW y \in Rationals, NEW z \in Rationals, AtMost(x, y)
      PROVE  AtMost(x ++ z, y ++ z) /\ AtMost(z ++ x, z ++ y)
  <2> DEFINE i == x[1]
             j == x[2]
             k == y[1]
             l == y[2]
             m == z[1]
             n == z[2]
  <2>1. Worth(x, i, j) /\ Worth(y, k, l) /\ Worth(z, m, n)
    BY WorthItself
  <2>2. i \in Int /\ j \in Nat \ {0} /\ k \in Int /\ l \in Nat \ {0} /\ m \in Int /\ n \in Nat \ {0}
    BY RationalFacts
  <2> HIDE DEF i, j, k, l, m, n
  <2>3. i * l <= k * j
    BY <1>0, <2>1, WorthAtMost
  <2>4. /\ Worth(x ++ z, i * n + m * j, j * n) /\ Worth(y ++ z, k * n + m * l, l * n)
        /\ Worth(z ++ x, m * j + i * n, n * j) /\ Worth(z ++ y, m * l + k * n, n * l)
    BY <2>1, WorthSum
  <2>5. (k * n + m * l) * (j * n) - (i * n + m * j) * (l * n) = (k * j - i * l) * (n * n)
    BY <2>2
  <2>6. (k * j - i * l) * (n * n) >= 0
    <3>1. k * j - i * l \in Nat /\ n * n \in Nat
      BY <2>2, <2>3
    <3> QED  BY <3>1
  <2>7. (i * n + m * j) * (l * n) <= (k * n + m * l) * (j * n)
    <3>1. (i * n + m * j) * (l * n) \in Int /\ (k * n + m * l) * (j * n) \in Int
      BY <2>2
    <3> QED  BY <2>5, <2>6, <3>1
  <2>8. m * j + i * n = i * n + m * j /\ m * l + k * n = k * n + m * l /\ n * l = l * n /\ n * j = j * n
    BY <2>2
  <2>9. (m * j + i * n) * (n * l) <= (m * l + k * n) * (n * j)
    BY <2>7, <2>8
  <2>10. AtMost(x ++ z, y ++ z)
    BY <2>4, <2>7, WorthAtMost
  <2>11. AtMost(z ++ x, z ++ y)
    BY <2>4, <2>9, WorthAtMost
  <2> QED  BY <2>10, <2>11
<1>1. AtMost(a ++ b, c ++ b) /\ AtMost(c ++ b, c ++ d)
  BY <1>0
<1>2. a ++ b \in Rationals /\ c ++ b \in Rationals /\ c ++ d \in Rationals
  BY Arithmetic
<1> QED  BY <1>1, <1>2, AtMostTrans

\* As many values as are summed, each at most t.
LEMMA SumOfAtMost ==
    ASSUME NEW S, IsFiniteSet(S), NEW f, NEW t \in Rationals,
           \A x \in S : f[x] \in Rationals /\ AtMost(f[x], t)
    PROVE  AtMost(SumOf(f, S), Whole(Cardinality(S)) ** t)
<1> DEFINE bound(s) == Whole(Cardinality(s)) ** t
           Good == {s \in SUBSET S : AtMost(SumOf(f, s), bound(s))}
           n == t[1]
           d == t[2]
<1>1. \A s \in SUBSET S : IsFiniteSet(s) /\ Cardinality(s) \in Nat
  BY FS_Subset, FS_CardinalityType
<1>2. n \in Int /\ d \in Nat \ {0} /\ Worth(t, n, d)
  BY RationalFacts, WorthItself
<1> HIDE DEF n, d
<1>3. \A c \in Nat : Worth(Whole(c) ** t, c * n, 1 * d) /\ Whole(c) ** t \in Rationals
  <2> SUFFICES ASSUME NEW c \in Nat PROVE Worth(Whole(c) ** t, c * n, 1 * d)
    BY DEF Worth
  <2>1. Worth(Whole(c), c, 1)
    BY WorthItself
  <2> QED  BY <1>2, <2>1, WorthProduct
<1>4. {} \in Good
  <2>1. SumOf(f, {}) = Zero /\ Cardinality({}) = 0
    BY <1>1, SumOfFacts, FS_EmptySet
  <2>2. 0 * (1 * d) <= (0 * n) * 1
    BY <1>2
  <2>3. Worth(Whole(0) ** t, 0 * n, 1 * d)
    BY <1>3
  <2>4. AtMost(Zero, Whole(0) ** t)
    BY <2>2, <2>3, WorthItself, WorthAtMost
  <2> QED  BY <2>1, <2>4
<1>5. ASSUME NEW s \in SUBSET S, s # {}, s \ {Pick(s)} \in Good
      PROVE  s \in Good
  <2> DEFINE a == f[Pick(s)]
             r == s \ {Pick(s)}
             b == SumOf(f, r)
             c == Cardinality(r)
  <2>1. Pick(s) \in s /\ a \in Rationals /\ AtMost(a, t)
    BY <1>5, PickIn
  <2>2. SumOf(f, s) = a ++ b
    BY <1>1, <1>5, SumOfFacts
  <2>3. b \in Rationals /\ AtMost(b, bound(r))
    BY <1>1, <1>5, SumOfFacts
  <2>4. Cardinality(s) = c + 1 /\ c \in Nat
    <3>1. IsFiniteSet(s) /\ IsFiniteSet(r) /\ c = Cardinality(s) - 1
      BY <1>1, <2>1, FS_RemoveElement
    <3> QED  BY <1>1, <3>1
  <2> HIDE DEF a, b, c, r
  <2>5. bound(r) = Whole(c) ** t /\ bound(s) = Whole(c + 1) ** t
    BY <2>4 DEF c
  <2>6. Worth(Whole(c) ** t, c * n, 1 * d) /\ Worth(Whole(c + 1) ** t, (c + 1) * n, 1 * d)
        /\ Whole(c) ** t \in Rationals /\ Whole(c + 1) ** t \in Rationals
    BY <1>3, <2>4
  <2>7. AtMost(a ++ b, t ++ (Whole(c) ** t))
    BY <2>1, <2>3, <2>5, <2>6, SumGrows
  <2>8. Worth(t ++ (Whole(c) ** t), n * (1 * d) + (c * n) * d, d * (1 * d))
    BY <1>2, <2>6, WorthSum
  <2>9. (n * (1 * d) + (c * n) * d) * (1 * d) <= ((c + 1) * n) * (d * (1 * d))
    <3>1. (n * (1 * d) + (c * n) * d) * (1 * d) = ((c + 1) * n) * (d * (1 * d))
      BY <1>2, <2>4
    <3>2. ((c + 1) * n) * (d * (1 * d)) \in Int
      BY <1>2, <2>4
    <3> QED  BY <3>1, <3>2
  <2>10. AtMost(t ++ (Whole(c) ** t), Whole(c + 1) ** t)
    BY <2>6, <2>8, <2>9, WorthAtMost
  <2>11. AtMost(a ++ b, Whole(c + 1) ** t)
    <3>1. a ++ b \in Rationals /\ t ++ (Whole(c) ** t) \in Rationals
      BY <2>1, <2>3, <2>6, Arithmetic
    <3> QED  BY <2>6, <2>7, <2>10, <3>1, AtMostTrans
  <2> QED  BY <2>2, <2>5, <2>11
<1> HIDE DEF Good
<1>6. SUBSET S \subseteq Good
  BY <1>4, <1>5, AllSubsets
<1> QED  BY <1>6 DEF Good

-----------------------------------------------------------------------------
(* The projection.                                                         *)

\* The recursion of Supports.
Ended(p_vec, p_z, it, U, S) ==
    IF U = {} THEN {S}
    ELSE UNION {IF Accepts(p_vec, p_z, U, S, k) THEN it[<<{i \in U : i < k}, S \cup {i \in U : i >= k}>>]
                                                ELSE it[<<U \ {k}, S>>] : k \in U}

IsEnds(p_vec, p_z, it) ==
    it = [US \in (SUBSET DOMAIN p_vec) \X (SUBSET DOMAIN p_vec) |-> Ended(p_vec, p_z, it, US[1], US[2])]

\* It holds up to a size of the set that is left.
EndsUpTo(p_vec, p_z, it, n) ==
    /\ it = [US \in (SUBSET DOMAIN p_vec) \X (SUBSET DOMAIN p_vec) |-> it[US]]
    /\ \A U, S \in SUBSET DOMAIN p_vec :
          Cardinality(U) <= n => it[<<U, S>>] = Ended(p_vec, p_z, it, U, S)

\* The sets the two branches go on with, of subsets U and S of I.
GoesOn(I, U, S, k) ==
    /\ {i \in U : i < k} \in SUBSET I /\ S \cup {i \in U : i >= k} \in SUBSET I /\ U \ {k} \in SUBSET I
    /\ Cardinality({i \in U : i < k}) < Cardinality(U) /\ Cardinality(U \ {k}) < Cardinality(U)
    /\ Cardinality({i \in U : i < k}) \in Nat /\ Cardinality(U \ {k}) \in Nat /\ Cardinality(U) \in Nat
    /\ k \in {i \in U : i >= k}

LEMMA LessIsLeft ==
    ASSUME NEW I, IsFiniteSet(I), I \subseteq Int, NEW U \in SUBSET I, NEW S \in SUBSET I, NEW k \in U
    PROVE  GoesOn(I, U, S, k)
<1>1. IsFiniteSet(U) /\ k \in Int
  BY FS_Subset
<1>2. ASSUME NEW V \in SUBSET U, k \notin V
      PROVE  Cardinality(V) < Cardinality(U) /\ Cardinality(V) \in Nat /\ Cardinality(U) \in Nat
  <2>1. IsFiniteSet(V) /\ Cardinality(V) <= Cardinality(U) /\ (Cardinality(V) = Cardinality(U) => V = U)
    BY <1>1, FS_Subset
  <2>2. Cardinality(V) \in Nat /\ Cardinality(U) \in Nat
    BY <1>1, <2>1, FS_CardinalityType
  <2> QED  BY <1>2, <2>1, <2>2
<1>3. {i \in U : i < k} \in SUBSET U /\ k \notin {i \in U : i < k}
  BY <1>1
<1>4. U \ {k} \in SUBSET U /\ k \notin U \ {k}
  OBVIOUS
<1>5. Cardinality({i \in U : i < k}) < Cardinality(U) /\ Cardinality({i \in U : i < k}) \in Nat
  BY <1>2, <1>3
<1>6. Cardinality(U \ {k}) < Cardinality(U) /\ Cardinality(U \ {k}) \in Nat /\ Cardinality(U) \in Nat
  BY <1>2, <1>4
<1>7. {i \in U : i < k} \in SUBSET I /\ S \cup {i \in U : i >= k} \in SUBSET I /\ U \ {k} \in SUBSET I
  OBVIOUS
<1>8. k \in {i \in U : i >= k}
  BY <1>1
<1> QED  BY <1>5, <1>6, <1>7, <1>8, Zenon DEF GoesOn

LEMMA EndsExist ==
    ASSUME NEW p_vec, IsFiniteSet(DOMAIN p_vec), DOMAIN p_vec \subseteq Int, NEW p_z
    PROVE  \E it : IsEnds(p_vec, p_z, it)
<1> DEFINE I == DOMAIN p_vec
           P == (SUBSET I) \X (SUBSET I)
           Bad == {n \in Nat : ~ \E it : EndsUpTo(p_vec, p_z, it, n)}
<1>1. Bad = {}
  <2> SUFFICES ASSUME Bad # {} PROVE FALSE
    OBVIOUS
  <2>1. PICK n \in Bad : \A m \in Bad : n <= m
    BY Least
  <2>2. CASE n = 0
    <3> DEFINE it == [US \in P |-> {US[2]}]
    <3>1. it = [US \in P |-> it[US]]
      OBVIOUS
    <3>2. ASSUME NEW U \in SUBSET I, NEW S \in SUBSET I, Cardinality(U) <= 0
          PROVE  it[<<U, S>>] = Ended(p_vec, p_z, it, U, S)
      <4>1. U = {}
        <5>1. IsFiniteSet(U) /\ Cardinality(U) \in Nat
          BY FS_Subset, FS_CardinalityType
        <5> QED  BY <3>2, <5>1, FS_EmptySet
      <4>2. <<U, S>> \in P
        OBVIOUS
      <4>3. it[<<U, S>>] = {S}
        BY <4>2
      <4> QED  BY <4>1, <4>3 DEF Ended
    <3> HIDE DEF it
    <3>3. EndsUpTo(p_vec, p_z, it, 0)
      BY <3>1, <3>2 DEF EndsUpTo
    <3> QED  BY <2>2, <3>3
  <2>3. CASE n # 0
    <3>1. n - 1 \in Nat /\ n - 1 \notin Bad
      BY <2>1, <2>3
    <3>2. PICK is : EndsUpTo(p_vec, p_z, is, n - 1)
      BY <3>1
    <3> DEFINE it == [US \in P |-> Ended(p_vec, p_z, is, US[1], US[2])]
    <3>3. it = [US \in P |-> it[US]]
      OBVIOUS
    <3>4. \A U, S \in SUBSET I : it[<<U, S>>] = Ended(p_vec, p_z, is, U, S)
      <4> TAKE U, S \in SUBSET I
      <4>1. <<U, S>> \in P /\ <<U, S>>[1] = U /\ <<U, S>>[2] = S
        OBVIOUS
      <4> HIDE DEF P
      <4> QED  BY <4>1
    <3> HIDE DEF it
    <3>5. \A U, S \in SUBSET I : Cardinality(U) <= n - 1 => it[<<U, S>>] = is[<<U, S>>]
      <4> TAKE U, S \in SUBSET I
      <4> HAVE Cardinality(U) <= n - 1
      <4>1. is[<<U, S>>] = Ended(p_vec, p_z, is, U, S)
        BY <3>2 DEF EndsUpTo
      <4> QED  BY <3>4, <4>1
    <3>6. ASSUME NEW U \in SUBSET I, NEW S \in SUBSET I, Cardinality(U) <= n
          PROVE  it[<<U, S>>] = Ended(p_vec, p_z, it, U, S)
      <4>1. ASSUME NEW k \in U
            PROVE  /\ it[<<{i \in U : i < k}, S \cup {i \in U : i >= k}>>]
                        = is[<<{i \in U : i < k}, S \cup {i \in U : i >= k}>>]
                   /\ it[<<U \ {k}, S>>] = is[<<U \ {k}, S>>]
        <5>1. GoesOn(I, U, S, k)
          BY LessIsLeft
        <5>2. Cardinality({i \in U : i < k}) <= n - 1 /\ Cardinality(U \ {k}) <= n - 1
          BY <3>6, <5>1 DEF GoesOn
        <5> QED  BY <3>5, <5>1, <5>2 DEF GoesOn
      <4>2. Ended(p_vec, p_z, it, U, S) = Ended(p_vec, p_z, is, U, S)
        BY <4>1 DEF Ended
      <4> QED  BY <3>4, <4>2
    <3>7. EndsUpTo(p_vec, p_z, it, n)
      BY <3>3, <3>6 DEF EndsUpTo
    <3> QED  BY <3>7
  <2> QED  BY <2>2, <2>3
<1>2. Cardinality(I) \in Nat /\ \A U \in SUBSET I : Cardinality(U) <= Cardinality(I)
  BY FS_Subset, FS_CardinalityType
<1>3. PICK it : EndsUpTo(p_vec, p_z, it, Cardinality(I))
  BY <1>1, <1>2
<1>4. \A US \in P : it[US] = Ended(p_vec, p_z, it, US[1], US[2])
  <2> SUFFICES ASSUME NEW U \in SUBSET I, NEW S \in SUBSET I
               PROVE  it[<<U, S>>] = Ended(p_vec, p_z, it, U, S)
    OBVIOUS
  <2> QED  BY <1>2, <1>3 DEF EndsUpTo
<1>5. it = [US \in P |-> it[US]]
  BY <1>3 DEF EndsUpTo
<1>6. IsEnds(p_vec, p_z, it)
  BY <1>4, <1>5 DEF IsEnds
<1> QED  BY <1>6

\* A vector of quotients: a sequence, and not an empty one.
Vector(w) == Len(w) \in Nat \ {0} /\ DOMAIN w = 1 .. Len(w) /\ \A i \in DOMAIN w : w[i] \in Rationals

LEMMA VectorFacts ==
    ASSUME NEW w, Vector(w)
    PROVE  /\ IsFiniteSet(DOMAIN w) /\ DOMAIN w \subseteq Int /\ DOMAIN w # {} /\ 1 \in DOMAIN w
           /\ Cardinality(DOMAIN w) = Len(w)
           /\ \A S \in SUBSET DOMAIN w : IsFiniteSet(S) /\ \A x \in S : w[x] \in Rationals
<1>1. Len(w) \in Nat \ {0} /\ DOMAIN w = 1 .. Len(w) /\ \A i \in DOMAIN w : w[i] \in Rationals
  BY DEF Vector
<1> DEFINE n == Len(w)
<1>2. n \in Int /\ 1 \in Int /\ n >= 1
  BY <1>1
<1> HIDE DEF n
<1>3. IsFiniteSet(1 .. n) /\ Cardinality(1 .. n) = IF 1 > n THEN 0 ELSE n - 1 + 1
  BY <1>2, FS_Interval
<1>4. Cardinality(1 .. n) = n /\ 1 \in 1 .. n /\ 1 .. n \subseteq Int
  BY <1>2, <1>3
<1>5. DOMAIN w = 1 .. n
  BY <1>1 DEF n
<1>6. \A S \in SUBSET (1 .. n) : IsFiniteSet(S)
  BY <1>3, FS_Subset
<1> QED  BY <1>1, <1>3, <1>4, <1>5, <1>6 DEF n

\* A pivot that is alone is taken: its value is not greater than itself and one.
LEMMA SingleAccepted ==
    ASSUME NEW w, NEW k \in Int, w[k] \in Rationals
    PROVE  Accepts(w, One, {k}, {}, k)
<1> DEFINE G == {i \in {k} : i >= k}
           a == w[k]
           n == a[1]
           d == a[2]
<1>1. {} \cup G = {k}
  OBVIOUS
<1>2. IsFiniteSet({k}) /\ Cardinality({k}) = 1
  BY FS_Singleton
<1>3. SumOf(w, {k}) = a ++ Zero
  <2>1. Pick({k}) = k /\ {k} \ {k} = {}
    BY PickIn
  <2>2. SumOf(w, {}) = Zero
    BY SumOfFacts, FS_EmptySet
  <2>3. \A x \in {k} : w[x] \in Rationals
    OBVIOUS
  <2>4. SumOf(w, {k}) = w[Pick({k})] ++ SumOf(w, {k} \ {Pick({k})})
    BY <1>2, <2>3, SumOfFacts
  <2> QED  BY <2>1, <2>2, <2>4
<1>4. n \in Int /\ d \in Nat \ {0} /\ Worth(a, n, d)
  BY RationalFacts, WorthItself
<1> DEFINE u == a ++ Zero
           v == Whole(1) ** a
<1> HIDE DEF n, d, a
<1>5. Worth(u, n * 1 + 0 * d, d * 1)
  BY <1>4, WorthItself, WorthSum
<1>6. Worth(v, 1 * n, 1 * d)
  BY <1>4, WorthItself, WorthProduct
<1> HIDE DEF u, v
<1>7. Worth(u -- v, (n * 1 + 0 * d) * (1 * d) - (1 * n) * (d * 1), (d * 1) * (1 * d))
  BY <1>5, <1>6, WorthDifference
<1>8. ((n * 1 + 0 * d) * (1 * d) - (1 * n) * (d * 1)) * 1 <= 0 * ((d * 1) * (1 * d))
  BY <1>4
<1>9. AtMost(u -- v, Zero)
  BY <1>7, <1>8, WorthItself, WorthAtMost
<1>10. u -- v \in Rationals
  BY <1>7 DEF Worth
<1>11. (u -- v)[1] <= 0 /\ (u -- v)[1] \in Int /\ (u -- v)[2] \in Nat \ {0}
  BY <1>9, <1>10, Signs, RationalFacts
<1>12. Below(u -- v, One)
  BY <1>11, Wholes DEF Below
<1> QED  BY <1>1, <1>2, <1>3, <1>12, Zenon DEF Accepts, u, v, a

\* The loop ends with a support that is not empty.
LEMMA SupportsFacts ==
    ASSUME NEW w, Vector(w), NEW T \in Supports(w, One)
    PROVE  T \in SUBSET DOMAIN w /\ T # {}
<1> DEFINE I == DOMAIN w
           ends == CHOOSE it : IsEnds(w, One, it)
           OK(U, S) == U \cup S # {} => \A t \in ends[<<U, S>>] : t \in SUBSET I /\ t # {}
           Bad == {n \in Nat : \E U, S \in SUBSET I : Cardinality(U) = n /\ ~ OK(U, S)}
<1>1. Supports(w, One) = ends[<<I, {}>>]
  BY DEF Supports, IsEnds, Ended
<1>2. IsFiniteSet(I) /\ I \subseteq Int /\ I # {} /\ \A x \in I : w[x] \in Rationals
  BY VectorFacts
<1>3. IsEnds(w, One, ends)
  BY <1>2, EndsExist
<1> HIDE DEF ends
<1>4. \A U, S \in SUBSET I : ends[<<U, S>>] = Ended(w, One, ends, U, S)
  BY <1>3 DEF IsEnds
<1>5. Bad = {}
  <2> SUFFICES ASSUME Bad # {} PROVE FALSE
    OBVIOUS
  <2>1. PICK n \in Bad : \A m \in Bad : n <= m
    BY Least
  <2>2. PICK U \in SUBSET I, S \in SUBSET I : Cardinality(U) = n /\ ~ OK(U, S)
    OBVIOUS
  <2>3. PICK t \in ends[<<U, S>>] : ~ (t \in SUBSET I /\ t # {})
    BY <2>2
  <2>4. U \cup S # {}
    BY <2>2
  <2>5. t \in Ended(w, One, ends, U, S)
    BY <1>4, <2>3
  <2>6. U # {}
    <3> SUFFICES ASSUME U = {} PROVE FALSE
      OBVIOUS
    <3>1. t = S
      BY <2>5 DEF Ended
    <3> QED  BY <2>3, <2>4, <3>1
  <2>7. PICK k \in U : t \in IF Accepts(w, One, U, S, k)
                             THEN ends[<<{i \in U : i < k}, S \cup {i \in U : i >= k}>>]
                             ELSE ends[<<U \ {k}, S>>]
    BY <2>5, <2>6 DEF Ended
  <2>8. GoesOn(I, U, S, k)
    BY <1>2, LessIsLeft
  <2>9. ASSUME NEW V \in SUBSET I, NEW R \in SUBSET I, Cardinality(V) \in Nat, Cardinality(V) < Cardinality(U)
        PROVE  OK(V, R)
    <3> SUFFICES ASSUME ~ OK(V, R) PROVE FALSE
      OBVIOUS
    <3> HIDE DEF OK
    <3>1. Cardinality(V) \in Bad
      BY <2>9
    <3>2. n <= Cardinality(V) /\ n \in Nat
      BY <2>1, <3>1
    <3> HIDE DEF Bad
    <3> QED  BY <2>2, <2>9, <3>2
  <2>10. CASE Accepts(w, One, U, S, k)
    <3> DEFINE V == {i \in U : i < k}
               R == S \cup {i \in U : i >= k}
    <3>1. t \in ends[<<V, R>>]
      BY <2>7, <2>10
    <3>2. V \in SUBSET I /\ R \in SUBSET I /\ Cardinality(V) \in Nat /\ Cardinality(V) < Cardinality(U)
          /\ k \in R
      BY <2>8 DEF GoesOn
    <3> HIDE DEF V, R
    <3>3. OK(V, R) /\ V \cup R # {}
      BY <2>9, <3>2
    <3> QED  BY <2>3, <3>1, <3>3
  <2>11. CASE ~ Accepts(w, One, U, S, k)
    <3> DEFINE V == U \ {k}
    <3>1. t \in ends[<<V, S>>]
      BY <2>7, <2>11
    <3>2. V \in SUBSET I /\ Cardinality(V) \in Nat /\ Cardinality(V) < Cardinality(U)
      BY <2>8 DEF GoesOn
    <3>3. V \cup S # {}
      <4> SUFFICES ASSUME V \cup S = {} PROVE FALSE
        OBVIOUS
      <4>1. U = {k} /\ S = {} /\ k \in Int /\ w[k] \in Rationals
        BY <1>2
      <4>2. Accepts(w, One, {k}, {}, k)
        BY <4>1, SingleAccepted
      <4> QED  BY <2>11, <4>1, <4>2
    <3> HIDE DEF V
    <3>4. OK(V, S)
      BY <2>9, <3>2
    <3> QED  BY <2>3, <3>1, <3>3, <3>4
  <2> QED  BY <2>10, <2>11
<1>6. OK(I, {})
  <2>1. Cardinality(I) \in Nat /\ Cardinality(I) \notin Bad
    BY <1>2, <1>5, FS_CardinalityType
  <2> HIDE DEF OK
  <2> QED  BY <2>1
<1> QED  BY <1>1, <1>2, <1>6

\* What is cut is not negative, and not all of it is zero.
LEMMA CutFacts ==
    ASSUME NEW w, Vector(w), NEW S \in SUBSET DOMAIN w, S # {}
    PROVE  LET p == Cut(w, One, Zero, S)
           IN  /\ DOMAIN p = DOMAIN w
               /\ \A i \in DOMAIN p : p[i] \in Rationals /\ p[i][1] >= 0
               /\ \E i \in DOMAIN p : p[i][1] > 0
<1> DEFINE c == Cardinality(S)
           s == SumOf(w, S)
           theta == (s -- One) // Whole(c)
           p == Cut(w, One, Zero, S)
           n == s[1]
           d == s[2]
<1>1. p = [i \in DOMAIN w |-> Greater(w[i] -- theta, Zero)]
  BY DEF Cut
<1> HIDE DEF p
<1>2. IsFiniteSet(S) /\ \A x \in S : w[x] \in Rationals
  BY VectorFacts
<1>3. c \in Nat \ {0}
  BY <1>2, FS_CardinalityType, FS_EmptySet
<1>4. s \in Rationals /\ n \in Int /\ d \in Nat \ {0} /\ Worth(s, n, d)
  <2>1. s \in Rationals
    BY <1>2, SumOfFacts
  <2> HIDE DEF s
  <2> QED  BY <2>1, RationalFacts, WorthItself
<1> HIDE DEF c, s, n, d
<1>5. Worth(s -- One, n * 1 - 1 * d, d * 1)
  BY <1>4, WorthItself, WorthDifference
<1>6. Worth(theta, (n * 1 - 1 * d) * 1, (d * 1) * c)
  BY <1>3, <1>5, WorthItself, WorthQuotient
<1> HIDE DEF theta
<1>7. theta \in Rationals
  BY <1>6 DEF Worth
<1>8. ASSUME NEW i \in DOMAIN w
      PROVE  p[i] \in Rationals /\ p[i][1] >= 0 /\ ((w[i] -- theta)[1] > 0 => p[i][1] > 0)
  <2> DEFINE a == w[i] -- theta
  <2>1. a \in Rationals
    BY <1>7, Arithmetic, VectorFacts
  <2>2. p[i] = Greater(a, Zero)
    BY <1>1
  <2> HIDE DEF a
  <2>3. Greater(a, Zero) \in Rationals
    BY <2>1, Arithmetic, Wholes
  <2>4. Below(a, Zero) <=> a[1] < 0
    BY <2>1, RationalFacts, Wholes DEF Below
  <2>5. a[1] \in Int
    BY <2>1, RationalFacts
  <2> QED  BY <2>2, <2>3, <2>4, <2>5, Wholes DEF Greater, a
<1>9. \E i \in S : (w[i] -- theta)[1] > 0
  <2> SUFFICES ASSUME \A i \in S : ~ ((w[i] -- theta)[1] > 0) PROVE FALSE
    OBVIOUS
  <2>1. ASSUME NEW i \in S
        PROVE  AtMost(w[i], theta)
    <3> DEFINE a == w[i]
    <3>1. a \in Rationals /\ a[1] \in Int /\ theta[1] \in Int /\ Worth(a, a[1], a[2]) /\ Worth(theta, theta[1], theta[2])
      BY <1>2, <1>7, RationalFacts, WorthItself
    <3>2. ~ ((a -- theta)[1] > 0) /\ (a -- theta) \in Rationals /\ (a -- theta)[1] \in Int
      BY <1>7, <3>1, Arithmetic, RationalFacts
    <3> HIDE DEF a
    <3>3. AtMost(a -- theta, Zero)
      BY <3>2, Signs
    <3>4. Worth(a -- theta, a[1] * theta[2] - theta[1] * a[2], a[2] * theta[2])
      BY <3>1, WorthDifference
    <3>5. (a[1] * theta[2] - theta[1] * a[2]) * 1 <= 0 * (a[2] * theta[2])
      BY <3>3, <3>4, WorthItself, WorthAtMost
    <3>6. a[2] \in Nat \ {0} /\ theta[2] \in Nat \ {0}
      BY <1>7, <3>1, RationalFacts
    <3>7. a[1] * theta[2] <= theta[1] * a[2]
      BY <3>1, <3>5, <3>6
    <3>8. AtMost(a, theta)
      BY <3>1, <3>7, WorthAtMost
    <3> QED  BY <3>8 DEF a
  <2>2. AtMost(s, Whole(c) ** theta)
    BY <1>2, <1>7, <2>1, SumOfAtMost DEF s, c
  <2>3. Worth(Whole(c) ** theta, c * ((n * 1 - 1 * d) * 1), 1 * ((d * 1) * c))
    <3>1. Worth(Whole(c), c, 1)
      BY <1>3, WorthItself
    <3> QED  BY <1>6, <3>1, WorthProduct
  <2>4. n * (1 * ((d * 1) * c)) <= (c * ((n * 1 - 1 * d) * 1)) * d
    BY <1>4, <2>2, <2>3, WorthAtMost
  <2>5. (c * ((n * 1 - 1 * d) * 1)) * d = n * (1 * ((d * 1) * c)) - c * (d * d)
    BY <1>3, <1>4
  <2>6. c * (d * d) > 0
    <3>1. d * d \in Nat \ {0}
      BY <1>4, Products
    <3> HIDE DEF d
    <3> QED  BY <1>3, <3>1, Products
  <2>7. n * (1 * ((d * 1) * c)) \in Int /\ c * (d * d) \in Int
    BY <1>3, <1>4
  <2> QED  BY <2>4, <2>5, <2>6, <2>7
<1>10. DOMAIN p = DOMAIN w
  BY <1>1
<1>11. \E i \in DOMAIN w : p[i][1] > 0
  BY <1>8, <1>9
<1> QED  BY <1>8, <1>10, <1>11 DEF p

-----------------------------------------------------------------------------
(* Sums of integers over sets, and of quotients over a denominator.        *)

Total(F, S) == SumFunction([x \in S |-> F[x]])

IsTotal(T, F, S) ==
    /\ T \in [SUBSET S -> Int] /\ T[{}] = 0
    /\ \A s \in SUBSET S : s # {} => T[s] = F[Pick(s)] + T[s \ {Pick(s)}]

LEMMA TotalIs ==
    ASSUME NEW S, IsFiniteSet(S), NEW F, \A x \in S : F[x] \in Int
    PROVE  \E T : IsTotal(T, F, S) /\ Total(F, S) = T[S]
<1> DEFINE f == [x \in S |-> F[x]]
<1>1. DOMAIN f = S /\ \A x \in S : f[x] = F[x]
  OBVIOUS
<1> HIDE DEF f
<1>2. PICK it \in [SUBSET DOMAIN f -> Int] :
         /\ it[{}] = 0 /\ SumFunction(f) = it[DOMAIN f]
         /\ \A s \in SUBSET DOMAIN f : s # {} => it[s] = f[Pick(s)] + it[s \ {Pick(s)}]
  <2> DEFINE I == DOMAIN f
  <2>1. IsFiniteSet(I) /\ \A x \in I : f[x] \in Int
    BY <1>1
  <2> QED  BY <2>1, SumRecursion
<1>3. \A s \in SUBSET S : s # {} => it[s] = F[Pick(s)] + it[s \ {Pick(s)}]
  <2> SUFFICES ASSUME NEW s \in SUBSET S, s # {} PROVE it[s] = F[Pick(s)] + it[s \ {Pick(s)}]
    OBVIOUS
  <2>1. Pick(s) \in S
    BY PickIn
  <2>2. f[Pick(s)] = F[Pick(s)]
    BY <1>1, <2>1
  <2>3. it[s] = f[Pick(s)] + it[s \ {Pick(s)}]
    BY <1>1, <1>2
  <2> QED  BY <2>2, <2>3
<1>4. IsTotal(it, F, S)
  BY <1>1, <1>2, <1>3 DEF IsTotal
<1>5. Total(F, S) = it[S]
  BY <1>1, <1>2 DEF Total, f
<1> QED  BY <1>4, <1>5

\* The same recursion serves every subset.
LEMMA TotalOfSubsets ==
    ASSUME NEW S, IsFiniteSet(S), NEW F, \A x \in S : F[x] \in Int, NEW T, IsTotal(T, F, S)
    PROVE  \A s \in SUBSET S : Total(F, s) = T[s]
<1> SUFFICES ASSUME NEW s \in SUBSET S PROVE Total(F, s) = T[s]
  OBVIOUS
<1>1. IsFiniteSet(s) /\ \A x \in s : F[x] \in Int
  BY FS_Subset
<1>2. PICK U : IsTotal(U, F, s) /\ Total(F, s) = U[s]
  BY <1>1, TotalIs
<1> DEFINE Good == {t \in SUBSET s : U[t] = T[t]}
<1>3. {} \in Good
  BY <1>2 DEF IsTotal
<1>4. ASSUME NEW t \in SUBSET s, t # {}, t \ {Pick(t)} \in Good
      PROVE  t \in Good
  <2>1. t \in SUBSET S
    OBVIOUS
  <2>2. U[t] = F[Pick(t)] + U[t \ {Pick(t)}] /\ T[t] = F[Pick(t)] + T[t \ {Pick(t)}]
    BY <1>2, <1>4, <2>1 DEF IsTotal
  <2> QED  BY <1>4, <2>2
<1>5. SUBSET s \subseteq Good
  <2> HIDE DEF Good
  <2> QED  BY <1>1, <1>3, <1>4, AllSubsets
<1> QED  BY <1>2, <1>5

\* Any value may be taken first.
LEMMA AnyFirst ==
    ASSUME NEW S, IsFiniteSet(S), NEW F, \A x \in S : F[x] \in Int, NEW T, IsTotal(T, F, S)
    PROVE  \A s \in SUBSET S : \A y \in s : T[s] = F[y] + T[s \ {y}]
<1> DEFINE OK(s) == \A y \in s : T[s] = F[y] + T[s \ {y}]
           Bad == {n \in Nat : \E s \in SUBSET S : Cardinality(s) = n /\ ~ OK(s)}
<1>0. \A s \in SUBSET S : IsFiniteSet(s) /\ Cardinality(s) \in Nat
  BY FS_Subset, FS_CardinalityType
<1>1. Bad = {}
  <2> SUFFICES ASSUME Bad # {} PROVE FALSE
    OBVIOUS
  <2>1. PICK n \in Bad : \A m \in Bad : n <= m
    BY Least
  <2>2. PICK s \in SUBSET S : Cardinality(s) = n /\ ~ OK(s)
    OBVIOUS
  <2>3. PICK y \in s : T[s] # F[y] + T[s \ {y}]
    BY <2>2
  <2> DEFINE p == Pick(s)
  <2>4. p \in s /\ T[s] = F[p] + T[s \ {p}] /\ p # y
    BY <2>3, PickIn DEF IsTotal
  <2> HIDE DEF p
  <2>5. ASSUME NEW x \in s
        PROVE  OK(s \ {x})
    <3>1. s \ {x} \in SUBSET S
      OBVIOUS
    <3>2. Cardinality(s \ {x}) = Cardinality(s) - 1
      BY <1>0, FS_RemoveElement
    <3>3. Cardinality(s \ {x}) \in Nat
      BY <1>0, <3>1
    <3>4. Cardinality(s \ {x}) \notin Bad
      <4>1. Cardinality(s) \in Nat
        BY <1>0
      <4> DEFINE c == Cardinality(s \ {x})
      <4>2. c < n /\ c \in Nat /\ n \in Nat
        BY <2>2, <3>2, <3>3, <4>1
      <4> HIDE DEF c, Bad
      <4>3. c \notin Bad
        BY <2>1, <4>2
      <4> QED  BY <4>3 DEF c
    <3> HIDE DEF OK
    <3> QED  BY <3>1, <3>3, <3>4
  <2>6. T[s \ {p}] = F[y] + T[(s \ {p}) \ {y}]
    BY <2>4, <2>5
  <2>7. T[s \ {y}] = F[p] + T[(s \ {y}) \ {p}]
    BY <2>4, <2>5
  <2>8. (s \ {p}) \ {y} = (s \ {y}) \ {p} /\ (s \ {y}) \ {p} \in SUBSET S
    OBVIOUS
  <2>9. T[(s \ {y}) \ {p}] \in Int /\ F[p] \in Int /\ F[y] \in Int
    BY <2>4, <2>8 DEF IsTotal
  <2> DEFINE rest == T[(s \ {y}) \ {p}]
             a == F[p]
             b == F[y]
  <2>10. T[s] = a + (b + rest) /\ T[s \ {y}] = a + rest /\ T[s] # b + T[s \ {y}]
    BY <2>3, <2>4, <2>6, <2>7, <2>8
  <2>11. a \in Int /\ b \in Int /\ rest \in Int
    BY <2>9
  <2> HIDE DEF rest, a, b
  <2>12. a + (b + rest) = b + (a + rest)
    BY <2>11
  <2> QED  BY <2>10, <2>12
<1> QED  BY <1>0, <1>1

LEMMA TotalFacts ==
    ASSUME NEW S, IsFiniteSet(S), NEW F, \A x \in S : F[x] \in Int
    PROVE  /\ Total(F, S) \in Int
           /\ Total(F, {}) = 0
           /\ \A x \in S : Total(F, S) = F[x] + Total(F, S \ {x})
<1>1. PICK T : IsTotal(T, F, S) /\ Total(F, S) = T[S]
  BY TotalIs
<1>2. \A s \in SUBSET S : Total(F, s) = T[s]
  BY <1>1, TotalOfSubsets
<1>3. \A x \in S : T[S] = F[x] + T[S \ {x}]
  BY <1>1, AnyFirst
<1>4. T[S] \in Int /\ T[{}] = 0
  BY <1>1 DEF IsTotal
<1> QED  BY <1>2, <1>3, <1>4

\* A property of all the totals of subsets, along the recursion.
LEMMA Totals ==
    ASSUME NEW S, IsFiniteSet(S), NEW F, \A x \in S : F[x] \in Int
    PROVE  \A s \in SUBSET S : /\ IsFiniteSet(s) /\ Total(F, s) \in Int
                               /\ \A x \in s : Total(F, s) = F[x] + Total(F, s \ {x})
  BY FS_Subset, TotalFacts

\* Summands in another order, or under other names.
LEMMA TotalMapped ==
    ASSUME NEW S, IsFiniteSet(S), NEW U, IsFiniteSet(U), NEW h \in [S -> U],
           \A x, y \in S : h[x] = h[y] => x = y, \A u \in U : \E x \in S : h[x] = u,
           NEW F, \A u \in U : F[u] \in Int, NEW G, \A x \in S : G[x] = F[h[x]]
    PROVE  Total(G, S) = Total(F, U)
<1> DEFINE image(s) == {h[x] : x \in s}
           Good == {s \in SUBSET S : Total(G, s) = Total(F, image(s))}
<1>1. \A x \in S : G[x] \in Int
  OBVIOUS
<1>2. {} \in Good
  <2>1. image({}) = {}
    OBVIOUS
  <2>2. Total(G, {}) = 0 /\ Total(F, {}) = 0
    BY <1>1, TotalFacts
  <2> QED  BY <2>1, <2>2
<1>3. ASSUME NEW s \in SUBSET S, s # {}, s \ {Pick(s)} \in Good
      PROVE  s \in Good
  <2> DEFINE p == Pick(s)
  <2>1. p \in s
    BY <1>3, PickIn
  <2> HIDE DEF p
  <2>2. image(s) \in SUBSET U /\ h[p] \in image(s) /\ image(s \ {p}) = image(s) \ {h[p]}
    BY <2>1
  <2>3. Total(G, s) = G[p] + Total(G, s \ {p})
    BY <1>1, <2>1, Totals
  <2>4. Total(F, image(s)) = F[h[p]] + Total(F, image(s) \ {h[p]})
    <3> HIDE DEF image
    <3>1. IsFiniteSet(image(s)) /\ \A u \in image(s) : F[u] \in Int
      BY <2>2, FS_Subset
    <3> DEFINE i == image(s)
               y == h[p]
    <3>2. y \in i /\ IsFiniteSet(i) /\ \A u \in i : F[u] \in Int
      BY <2>2, <3>1
    <3> HIDE DEF i, y
    <3>3. Total(F, i) = F[y] + Total(F, i \ {y})
      BY ONLY <3>2, TotalFacts
    <3> QED  BY <3>3 DEF i, y
  <2>5. Total(G, s \ {p}) = Total(F, image(s \ {p}))
    BY <1>3 DEF p
  <2> HIDE DEF image
  <2>6. Total(G, s) = Total(F, image(s))
    BY <2>1, <2>2, <2>3, <2>4, <2>5
  <2> QED  BY <2>6
<1>4. SUBSET S \subseteq Good
  <2> HIDE DEF Good
  <2> QED  BY <1>2, <1>3, AllSubsets
<1>5. image(S) = U
  OBVIOUS
<1> HIDE DEF image
<1> QED  BY <1>4, <1>5

LEMMA TotalLinear ==
    ASSUME NEW S, IsFiniteSet(S), NEW F, \A x \in S : F[x] \in Int, NEW c \in Int, NEW k \in Int,
           NEW G, \A x \in S : G[x] = c + k * F[x]
    PROVE  Total(G, S) = c * Cardinality(S) + k * Total(F, S)
<1> DEFINE Good == {s \in SUBSET S : Total(G, s) = c * Cardinality(s) + k * Total(F, s)}
<1>1. \A x \in S : G[x] \in Int
  OBVIOUS
<1>2. {} \in Good
  <2>1. Total(G, {}) = 0 /\ Total(F, {}) = 0 /\ Cardinality({}) = 0
    BY <1>1, TotalFacts, FS_EmptySet
  <2> QED  BY <2>1
<1>3. ASSUME NEW s \in SUBSET S, s # {}, s \ {Pick(s)} \in Good
      PROVE  s \in Good
  <2> DEFINE p == Pick(s)
             t == s \ {p}
             m == Cardinality(t)
             a == Total(F, t)
             b == F[p]
  <2>1. p \in s
    BY <1>3, PickIn
  <2>2. Cardinality(s) = m + 1 /\ m \in Nat
    <3> HIDE DEF p
    <3>1. IsFiniteSet(s) /\ IsFiniteSet(t)
      BY FS_Subset
    <3>2. Cardinality(t) = Cardinality(s) - 1 /\ Cardinality(s) \in Nat /\ Cardinality(t) \in Nat
      BY <2>1, <3>1, FS_RemoveElement, FS_CardinalityType
    <3> QED  BY <3>2
  <2>3. Total(G, s) = G[p] + Total(G, t) /\ Total(F, s) = b + a /\ a \in Int
    BY <1>1, <2>1, Totals
  <2>4. Total(G, t) = c * m + k * a
    BY <1>3
  <2>5. G[p] = c + k * b /\ b \in Int
    BY <2>1
  <2> HIDE DEF m, a, b, t, p
  <2>6. (c + k * b) + (c * m + k * a) = c * (m + 1) + k * (b + a)
    BY <2>2, <2>3, <2>5
  <2>7. Total(G, s) = c * Cardinality(s) + k * Total(F, s)
    BY <2>2, <2>3, <2>4, <2>5, <2>6
  <2> QED  BY <2>7
<1>4. SUBSET S \subseteq Good
  <2> HIDE DEF Good
  <2> QED  BY <1>2, <1>3, AllSubsets
<1> QED  BY <1>4

\* A sum of numbers that are not negative is at least each of them.
LEMMA TotalAtLeast ==
    ASSUME NEW S, IsFiniteSet(S), NEW F, \A x \in S : F[x] \in Nat
    PROVE  Total(F, S) \in Nat /\ \A x \in S : F[x] <= Total(F, S)
<1> DEFINE Good == {s \in SUBSET S : Total(F, s) \in Nat}
<1>1. {} \in Good
  BY TotalFacts
<1>2. ASSUME NEW s \in SUBSET S, s # {}, s \ {Pick(s)} \in Good
      PROVE  s \in Good
  <2>1. Pick(s) \in s
    BY <1>2, PickIn
  <2>2. Total(F, s) = F[Pick(s)] + Total(F, s \ {Pick(s)})
    BY <2>1, Totals
  <2> QED  BY <1>2, <2>1, <2>2
<1>3. SUBSET S \subseteq Good
  <2> HIDE DEF Good
  <2> QED  BY <1>1, <1>2, AllSubsets
<1>4. ASSUME NEW x \in S
      PROVE  F[x] <= Total(F, S)
  <2>1. Total(F, S) = F[x] + Total(F, S \ {x})
    BY TotalFacts
  <2>2. Total(F, S \ {x}) \in Nat
    BY <1>3
  <2> QED  BY <2>1, <2>2
<1> QED  BY <1>3, <1>4

\* Quotients over a denominator add up to the total of their numerators over it.
LEMMA SumOfWorth ==
    ASSUME NEW S, IsFiniteSet(S), NEW D \in Nat \ {0}, NEW F, \A x \in S : F[x] \in Int,
           NEW f, \A x \in S : Worth(f[x], F[x], D)
    PROVE  Worth(SumOf(f, S), Total(F, S), D)
<1> DEFINE Good == {s \in SUBSET S : Worth(SumOf(f, s), Total(F, s), D)}
<1>0. \A x \in S : f[x] \in Rationals
  BY DEF Worth
<1>1. {} \in Good
  <2>1. SumOf(f, {}) = Zero /\ Total(F, {}) = 0
    BY <1>0, SumOfFacts, TotalFacts, FS_EmptySet
  <2>2. Worth(Zero, 0, D)
    BY Wholes DEF Worth
  <2> QED  BY <2>1, <2>2
<1>2. ASSUME NEW s \in SUBSET S, s # {}, s \ {Pick(s)} \in Good
      PROVE  s \in Good
  <2> DEFINE p == Pick(s)
             t == s \ {p}
             a == Total(F, t)
             b == F[p]
  <2>1. p \in s /\ IsFiniteSet(s)
    BY <1>2, PickIn, FS_Subset
  <2>2. SumOf(f, s) = f[p] ++ SumOf(f, t)
    BY <1>0, <1>2, <2>1, SumOfFacts
  <2>3. Total(F, s) = b + a /\ a \in Int /\ b \in Int
    BY <2>1, Totals
  <2>4. Worth(SumOf(f, t), a, D)
    BY <1>2
  <2>5. Worth(f[p], b, D)
    BY <2>1
  <2> HIDE DEF a, b, t, p
  <2>6. Worth(f[p] ++ SumOf(f, t), b * D + a * D, D * D)
    BY <2>4, <2>5, WorthSum
  <2>7. (b * D + a * D) * D = (b + a) * (D * D) /\ b + a \in Int
    BY <2>3
  <2>8. Worth(f[p] ++ SumOf(f, t), b + a, D)
    BY ONLY <2>6, <2>7, SameWorth, D \in Nat \ {0}
  <2>9. Worth(SumOf(f, s), Total(F, s), D)
    BY <2>2, <2>3, <2>8
  <2> QED  BY <2>9
<1>3. SUBSET S \subseteq Good
  <2> HIDE DEF Good
  <2> QED  BY <1>1, <1>2, AllSubsets
<1> QED  BY <1>3

\* There is a denominator for all the values.
LEMMA CommonDenominator ==
    ASSUME NEW S, IsFiniteSet(S), NEW f, \A x \in S : f[x] \in Rationals
    PROVE  \E D \in Nat \ {0}, F \in [S -> Int] : \A x \in S : Worth(f[x], F[x], D)
<1> DEFINE Good == {s \in SUBSET S : \E D \in Nat \ {0}, F \in [S -> Int] : \A x \in s : Worth(f[x], F[x], D)}
<1>1. {} \in Good
  <2>1. [x \in S |-> 0] \in [S -> Int] /\ 1 \in Nat \ {0}
    OBVIOUS
  <2> QED  BY <2>1
<1>2. ASSUME NEW s \in SUBSET S, s # {}, s \ {Pick(s)} \in Good
      PROVE  s \in Good
  <2> DEFINE p == Pick(s)
  <2>1. p \in s
    BY <1>2, PickIn
  <2>2. PICK D \in Nat \ {0}, F \in [S -> Int] : \A x \in s \ {p} : Worth(f[x], F[x], D)
    BY <1>2
  <2> HIDE DEF p
  <2> DEFINE n == f[p][1]
             d == f[p][2]
             E == D * d
             G == [x \in S |-> IF x = p THEN n * D ELSE F[x] * d]
  <2>3. n \in Int /\ d \in Nat \ {0} /\ Worth(f[p], n, d)
    BY <2>1, RationalFacts, WorthItself
  <2> HIDE DEF n, d
  <2>4. E \in Nat \ {0}
    BY <2>3, Products
  <2>5. G \in [S -> Int]
    BY <2>3
  <2>6. ASSUME NEW x \in s
        PROVE  Worth(f[x], G[x], E)
    <3>1. CASE x = p
      <4>1. G[x] = n * D /\ n * D \in Int
        BY <2>3, <3>1
      <4>2. n * (D * d) = (n * D) * d
        BY <2>3
      <4>3. Worth(f[p], n * D, D * d)
        BY ONLY <2>3, <2>4, <4>1, <4>2, SameWorth DEF E
      <4> QED  BY <3>1, <4>1, <4>3
    <3>2. CASE x # p
      <4> DEFINE m == F[x]
      <4>0. m \in Int /\ Worth(f[x], m, D)
        BY <2>2, <3>2
      <4>1. G[x] = m * d
        BY <3>2
      <4> HIDE DEF m
      <4>2. m * d \in Int /\ m * (D * d) = (m * d) * D
        BY <2>3, <4>0
      <4>3. Worth(f[x], m * d, D * d)
        BY ONLY <2>4, <4>0, <4>2, SameWorth DEF E
      <4> QED  BY <4>1, <4>3
    <3> QED  BY <3>1, <3>2
  <2> HIDE DEF E, G
  <2> QED  BY <2>4, <2>5, <2>6
<1>3. SUBSET S \subseteq Good
  <2> HIDE DEF Good
  <2> QED  BY <1>1, <1>2, AllSubsets
<1> QED  BY <1>3

\* A sum that is worth one is one: it is reduced.
LEMMA SumIsOne ==
    ASSUME NEW S, IsFiniteSet(S), S # {}, NEW f, \A x \in S : f[x] \in Rationals, Worth(SumOf(f, S), 1, 1)
    PROVE  SumOf(f, S) = One
<1> DEFINE a == f[Pick(S)]
           b == SumOf(f, S \ {Pick(S)})
<1>1. a \in Rationals /\ b \in Rationals /\ SumOf(f, S) = a ++ b
  <2>1. Pick(S) \in S
    BY PickIn
  <2>2. IsFiniteSet(S \ {Pick(S)}) /\ \A x \in S \ {Pick(S)} : f[x] \in Rationals
    BY FS_RemoveElement, FS_Subset
  <2> QED  BY <2>1, <2>2, SumOfFacts
<1> HIDE DEF a, b
<1>2. PICK n \in Int, d \in Nat \ {0} : a ++ b = Reduced(n, d)
  <2>1. a[1] \in Int /\ a[2] \in Nat \ {0} /\ b[1] \in Int /\ b[2] \in Nat \ {0}
    BY <1>1, RationalFacts
  <2>2. a[1] + b[1] \in Int /\ a[1] * b[2] + b[1] * a[2] \in Int /\ a[2] * b[2] \in Nat \ {0}
    BY <2>1, Products
  <2> QED  BY <2>1, <2>2 DEF ++
<1>3. Worth(Reduced(n, d), n, d) /\ Worth(Reduced(n, d), 1, 1)
  BY <1>1, <1>2, WorthReduced
<1>4. n = d
  <2> DEFINE r == Reduced(n, d)
  <2>1. r[1] \in Int /\ r[2] \in Nat \ {0} /\ r[1] * d = n * r[2] /\ r[1] * 1 = 1 * r[2]
    BY <1>3, RationalFacts DEF Worth
  <2> HIDE DEF r
  <2> DEFINE x == r[2]
  <2>2. x * d = n * x /\ x \in Nat \ {0}
    BY <2>1
  <2> HIDE DEF x
  <2>3. x * (d - n) = 0 /\ d - n \in Int
    BY <2>2
  <2> QED  BY <2>2, <2>3
<1>5. n \in Nat \ {0} /\ n % n = 0 /\ n \div n = 1
  BY <1>4
<1>6. Gcd[<<n, n>>] = n
  <2>1. Gcd[<<n, n>>] = Gcd[<<n, 0>>]
    BY <1>5, GcdIs
  <2>2. n \in Nat /\ 0 \in Nat
    BY <1>5
  <2>3. Gcd[<<n, 0>>] = n
    BY ONLY <2>2, GcdIs
  <2> QED  BY <2>1, <2>3
<1>7. Reduced(n, n) = <<1, 1>>
  BY <1>5, <1>6 DEF Reduced, Abs
<1> QED  BY <1>1, <1>2, <1>4, <1>7 DEF One, Whole

-----------------------------------------------------------------------------
(* Shares: quotients that are not negative and add up to one.              *)

Shares(f, S) ==
    \E D \in Nat \ {0}, F \in [S -> Nat] :
        (\A x \in S : Worth(f[x], F[x], D)) /\ Total(F, S) = D

LEMMA WorthSign ==
    ASSUME NEW r, NEW n, NEW d, Worth(r, n, d)
    PROVE  (r[1] >= 0 <=> n >= 0) /\ (r[1] > 0 <=> n > 0)
<1>1. r[1] \in Int /\ r[2] \in Nat \ {0} /\ n \in Int /\ d \in Nat \ {0} /\ r[1] * d = n * r[2]
  BY RationalFacts DEF Worth
<1>2. (r[1] * d > 0 <=> r[1] > 0) /\ (r[1] * d = 0 <=> r[1] = 0)
  BY <1>1, Products
<1>3. (n * r[2] > 0 <=> n > 0) /\ (n * r[2] = 0 <=> n = 0)
  BY <1>1, Products
<1> QED  BY <1>1, <1>2, <1>3

LEMMA SharesFacts ==
    ASSUME NEW S, IsFiniteSet(S), S # {}, NEW f, Shares(f, S)
    PROVE  SumOf(f, S) = One /\ \A x \in S : AtMost(Zero, f[x])
<1>1. PICK D \in Nat \ {0}, F \in [S -> Nat] : (\A x \in S : Worth(f[x], F[x], D)) /\ Total(F, S) = D
  BY DEF Shares
<1>2. \A x \in S : f[x] \in Rationals
  BY <1>1 DEF Worth
<1>3. \A x \in S : F[x] \in Int
  OBVIOUS
<1>4. Worth(SumOf(f, S), D, D)
  BY <1>1, <1>3, SumOfWorth
<1>5. D * 1 = 1 * D /\ 1 \in Int /\ 1 \in Nat \ {0}
  OBVIOUS
<1>6. Worth(SumOf(f, S), 1, 1)
  BY ONLY <1>4, <1>5, SameWorth
<1>7. SumOf(f, S) = One
  BY <1>2, <1>6, SumIsOne
<1>8. ASSUME NEW x \in S
      PROVE  AtMost(Zero, f[x])
  <2>1. F[x] >= 0 /\ Worth(f[x], F[x], D)
    BY <1>1
  <2>2. f[x][1] >= 0
    BY <2>1, WorthSign
  <2> QED  BY <1>2, <2>2, Signs
<1> QED  BY <1>7, <1>8

\* Other names for the shares.
LEMMA SharesMapped ==
    ASSUME NEW S, IsFiniteSet(S), NEW U, IsFiniteSet(U), NEW h \in [S -> U],
           \A x, y \in S : h[x] = h[y] => x = y, \A u \in U : \E x \in S : h[x] = u,
           NEW f, Shares(f, U), NEW g, \A x \in S : g[x] = f[h[x]]
    PROVE  Shares(g, S)
<1>1. PICK D \in Nat \ {0}, F \in [U -> Nat] : (\A u \in U : Worth(f[u], F[u], D)) /\ Total(F, U) = D
  BY DEF Shares
<1> DEFINE G == [x \in S |-> F[h[x]]]
<1>2. G \in [S -> Nat] /\ \A x \in S : G[x] = F[h[x]]
  OBVIOUS
<1> HIDE DEF G
<1>3. \A u \in U : F[u] \in Int
  OBVIOUS
<1>4. Total(G, S) = Total(F, U)
  BY <1>2, <1>3, TotalMapped
<1>5. \A x \in S : Worth(g[x], G[x], D)
  BY <1>1, <1>2
<1> QED  BY <1>1, <1>2, <1>4, <1>5 DEF Shares

\* Equal shares.
LEMMA EqualShares ==
    ASSUME NEW S, IsFiniteSet(S), S # {}, NEW f, \A x \in S : f[x] = One // Whole(Cardinality(S))
    PROVE  Shares(f, S)
<1> DEFINE n == Cardinality(S)
           F == [x \in S |-> 1]
<1>1. n \in Nat \ {0}
  BY FS_CardinalityType, FS_EmptySet
<1>2. F \in [S -> Nat] /\ \A x \in S : F[x] = 1 /\ F[x] = 1 + 0 * F[x]
  OBVIOUS
<1> HIDE DEF n, F
<1>3. Total(F, S) = 1 * Cardinality(S) + 0 * Total(F, S)
  <2>1. \A x \in S : F[x] \in Int /\ F[x] = 1 + 0 * F[x]
    BY <1>2
  <2>2. 0 \in Int /\ 1 \in Int
    OBVIOUS
  <2> QED  BY <2>1, <2>2, TotalLinear
<1>4. Total(F, S) = n
  <2>1. Total(F, S) \in Int
    BY <1>2, TotalFacts
  <2> QED  BY <1>1, <1>3, <2>1 DEF n
<1>5. Worth(One // Whole(n), 1, n)
  <2>1. Worth(One, 1, 1) /\ Worth(Whole(n), n, 1) /\ n > 0
    BY <1>1, WorthItself
  <2>2. Worth(One // Whole(n), 1 * 1, 1 * n)
    BY <2>1, WorthQuotient
  <2>3. 1 * 1 = 1 /\ 1 * n = n
    BY <1>1
  <2> QED  BY <2>2, <2>3
<1>6. \A x \in S : Worth(f[x], F[x], n)
  BY <1>2, <1>5 DEF n
<1> QED  BY <1>1, <1>2, <1>4, <1>6 DEF Shares

\* One gets what exploration leaves, the others share it.
LEMMA ExploringShares ==
    ASSUME NEW k \in Nat, k > 1, NEW x \in Rationals, Below(Zero, x), Below(x, One),
           NEW w, \A i \in 1 .. k : w[i] = IF i = 1 THEN One -- x ELSE x // Whole(k - 1)
    PROVE  Shares(w, 1 .. k)
<1> DEFINE a == x[1]
           b == x[2]
           m == k - 1
           D == b * m
           W == [i \in 1 .. k |-> IF i = 1 THEN (b - a) * m ELSE a]
<1>1. a \in Nat /\ b \in Nat \ {0} /\ a < b /\ Worth(x, a, b)
  <2>1. a > 0
    BY Signs
  <2>2. a * 1 < 1 * b
    BY Wholes DEF Below
  <2> QED  BY <2>1, <2>2, RationalFacts, WorthItself
<1>2. m \in Nat \ {0}
  OBVIOUS
<1> HIDE DEF a, b, m
<1>3. D \in Nat \ {0} /\ b - a \in Nat \ {0} /\ (b - a) * m \in Nat
  BY <1>1, <1>2, Products
<1>4. W \in [1 .. k -> Nat] /\ W[1] = (b - a) * m /\ \A i \in (1 .. k) \ {1} : W[i] = a
  BY <1>1, <1>3
<1> HIDE DEF W
<1>5. IsFiniteSet(1 .. k) /\ Cardinality(1 .. k) = k /\ 1 \in 1 .. k
  <2>1. 1 \in Int /\ k \in Int /\ k >= 1
    OBVIOUS
  <2>2. IsFiniteSet(1 .. k) /\ Cardinality(1 .. k) = IF 1 > k THEN 0 ELSE k - 1 + 1
    BY <2>1, FS_Interval
  <2> QED  BY <2>1, <2>2
<1> DEFINE S == (1 .. k) \ {1}
<1>6. IsFiniteSet(S) /\ Cardinality(S) = m
  BY <1>5, FS_RemoveElement DEF m
<1>7. Total(W, 1 .. k) = (b - a) * m + Total(W, S)
  <2>1. \A i \in 1 .. k : W[i] \in Int
    BY <1>4
  <2>2. Total(W, 1 .. k) = W[1] + Total(W, S)
    BY <1>5, <2>1, TotalFacts
  <2> QED  BY <1>4, <2>2
<1>8. Total(W, S) = a * m
  <2>1. \A i \in S : W[i] \in Int /\ W[i] = a + 0 * W[i]
    BY <1>1, <1>4
  <2>2. a \in Int /\ 0 \in Int
    BY <1>1
  <2> HIDE DEF S
  <2>3. Total(W, S) = a * Cardinality(S) + 0 * Total(W, S)
    BY <1>6, <2>1, <2>2, TotalLinear
  <2>4. Total(W, S) \in Int
    BY <1>6, <2>1, TotalFacts
  <2>5. 0 * Total(W, S) = 0 /\ a * m \in Int
    BY <1>1, <1>2, <2>4
  <2> QED  BY <1>6, <2>3, <2>5
<1>9. (b - a) * m + a * m = b * m
  BY <1>1, <1>2
<1>10. Worth(One -- x, (b - a) * m, D)
  <2>1. Worth(One -- x, 1 * b - a * 1, 1 * b)
    BY <1>1, WorthItself, WorthDifference
  <2>2. 1 * b - a * 1 = b - a /\ 1 * b = b
    BY <1>1
  <2>3. Worth(One -- x, b - a, b)
    BY <2>1, <2>2
  <2>4. (b - a) * (b * m) = ((b - a) * m) * b /\ (b - a) * m \in Int
    BY <1>1, <1>2
  <2> QED  BY ONLY <1>3, <2>3, <2>4, SameWorth DEF D
<1>11. Worth(x // Whole(m), a, D)
  <2>1. Worth(Whole(m), m, 1) /\ m > 0
    BY <1>2, WorthItself
  <2>2. Worth(x // Whole(m), a * 1, b * m)
    BY <1>1, <2>1, WorthQuotient
  <2>3. a * 1 = a
    BY <1>1
  <2> QED  BY <2>2, <2>3
<1>12. \A i \in 1 .. k : Worth(w[i], W[i], D)
  <2> HIDE DEF D
  <2>1. ASSUME NEW i \in 1 .. k
        PROVE  Worth(w[i], W[i], D)
    <3>1. CASE i = 1
      BY <1>4, <1>10, <3>1
    <3>2. CASE i # 1
      <4>1. w[i] = x // Whole(m)
        BY <3>2 DEF m
      <4> QED  BY <1>4, <1>11, <3>2, <4>1
    <3> QED  BY <3>1, <3>2
  <2> QED  BY <2>1
<1>13. Total(W, 1 .. k) = D
  BY <1>7, <1>8, <1>9
<1> HIDE DEF D
<1> QED  BY <1>3, <1>4, <1>12, <1>13 DEF Shares

\* What is left of a vector, normalised, as shares.
LEMMA NormalisedShares ==
    ASSUME NEW S, IsFiniteSet(S), NEW p, DOMAIN p = S, \A i \in S : p[i] \in Rationals /\ p[i][1] >= 0,
           \E i \in S : p[i][1] > 0
    PROVE  Shares(Normalised(p), S)
<1>1. PICK D \in Nat \ {0}, P \in [S -> Int] : \A i \in S : Worth(p[i], P[i], D)
  BY CommonDenominator
<1>2. \A i \in S : P[i] \in Nat
  BY <1>1, WorthSign
<1> DEFINE N == Total(P, S)
           sum == SumOf(p, S)
           r == Normalised(p)
<1>3. N \in Nat \ {0}
  <2>1. PICK i \in S : p[i][1] > 0
    OBVIOUS
  <2>2. P[i] > 0 /\ P[i] \in Nat
    BY <1>1, <1>2, <2>1, WorthSign
  <2>3. N \in Nat /\ P[i] <= N
    BY <1>2, TotalAtLeast
  <2> QED  BY <2>2, <2>3
<1>4. Worth(sum, N, D)
  BY <1>1, SumOfWorth
<1>5. r = IF sum = One THEN p ELSE mult(p, One // sum)
  BY DEF Normalised
<1> HIDE DEF N, sum, r
<1>6. ASSUME NEW i \in S
      PROVE  Worth(r[i], P[i], N)
  <2> DEFINE n == P[i]
  <2>0. n \in Nat /\ Worth(p[i], n, D)
    BY <1>1, <1>2
  <2> HIDE DEF n
  <2>1. CASE sum = One
    <3>1. 1 * D = N * 1
      BY <1>4, <2>1, Wholes DEF Worth
    <3>2. N = D
      BY <1>3, <3>1
    <3> QED  BY <1>5, <2>0, <2>1, <3>2 DEF n
  <2>2. CASE sum # One
    <3>1. r[i] = p[i] ** (One // sum)
      BY <1>5, <2>2 DEF mult
    <3>2. Worth(One // sum, 1 * D, 1 * N)
      <4>1. Worth(One, 1, 1) /\ N > 0
        BY <1>3, WorthItself
      <4> QED  BY ONLY <1>4, <4>1, WorthQuotient
    <3>3. Worth(One // sum, D, N)
      BY <1>3, <3>2
    <3>4. Worth(p[i] ** (One // sum), n * D, D * N)
      BY <2>0, <3>3, WorthProduct
    <3>5. (n * D) * N = n * (D * N) /\ n \in Int
      BY <1>3, <2>0
    <3>6. Worth(p[i] ** (One // sum), n, N)
      BY ONLY <1>3, <3>4, <3>5, SameWorth
    <3> QED  BY <3>1, <3>6 DEF n
  <2> QED  BY <2>1, <2>2
<1>7. P \in [S -> Nat]
  BY <1>2
<1> QED  BY <1>3, <1>6, <1>7 DEF Shares, N, r

\* Shares that are moved away from zero, by no more than what the others leave.
LEMMA ScaledShares ==
    ASSUME NEW S, IsFiniteSet(S), S # {}, NEW r, DOMAIN r = S, Shares(r, S), NEW x \in Rationals, Below(Zero, x),
           AtMost(Whole(Cardinality(S) - 1) ** x, One)
    PROVE  Shares(scale(r, x, One -- (Whole(Cardinality(S) - 1) ** x)), S)
<1> DEFINE n == Cardinality(S)
           a == x[1]
           b == x[2]
           m == (n - 1) * a
           hi == One -- (Whole(n - 1) ** x)
           q == scale(r, x, hi)
<1>1. PICK N \in Nat \ {0}, P \in [S -> Nat] : (\A i \in S : Worth(r[i], P[i], N)) /\ Total(P, S) = N
  BY DEF Shares
<1>2. n \in Nat \ {0}
  BY FS_CardinalityType, FS_EmptySet
<1>3. a \in Nat \ {0} /\ b \in Nat \ {0} /\ Worth(x, a, b)
  BY RationalFacts, WorthItself, Signs
<1> HIDE DEF n, a, b
<1>4. m \in Nat
  <2>1. n - 1 \in Nat
    BY <1>2
  <2> DEFINE o == n - 1
  <2> HIDE DEF o
  <2>2. o \in Nat
    BY <2>1 DEF o
  <2>3. o * a \in Nat
    BY <1>3, <2>2
  <2> QED  BY <2>3 DEF o
<1>5. n * a = m + a
  BY <1>2, <1>3
<1>6. Worth(Whole(n - 1) ** x, m, b)
  <2>1. n - 1 \in Int
    BY <1>2
  <2>2. Worth(Whole(n - 1), n - 1, 1)
    BY <2>1, WorthItself
  <2>3. Worth(Whole(n - 1) ** x, (n - 1) * a, 1 * b)
    BY <1>3, <2>2, WorthProduct
  <2>4. 1 * b = b
    BY <1>3
  <2> QED  BY <2>3, <2>4
<1> HIDE DEF m
<1>7. m <= b
  <2>1. AtMost(Whole(n - 1) ** x, One)
    BY DEF n
  <2>2. m * 1 <= 1 * b
    BY <1>6, <2>1, WorthItself, WorthAtMost
  <2> QED  BY <1>3, <1>4, <2>2
<1> DEFINE k == b - m - a
<1>8. Worth(hi -- x, k, b)
  <2>1. Worth(hi, 1 * b - m * 1, 1 * b)
    BY <1>6, WorthItself, WorthDifference
  <2>2. 1 * b - m * 1 = b - m /\ 1 * b = b
    BY <1>3, <1>4
  <2>3. Worth(hi, b - m, b)
    BY <2>1, <2>2
  <2> HIDE DEF hi
  <2>4. Worth(hi -- x, (b - m) * b - a * b, b * b)
    BY <1>3, <2>3, WorthDifference
  <2>5. ((b - m) * b - a * b) * b = (b - m - a) * (b * b) /\ b - m - a \in Int
    BY <1>3, <1>4
  <2> QED  BY ONLY <1>3, <2>4, <2>5, SameWorth
<1>9. k \in Int /\ k + n * a = b
  BY <1>3, <1>4, <1>5
<1>10. q = [i \in S |-> x ++ ((hi -- x) ** r[i])]
  BY DEF scale
<1> HIDE DEF k, hi, q
<1> DEFINE E == b * N
           Q == [i \in S |-> a * N + k * P[i]]
<1>11. E \in Nat \ {0} /\ a * N \in Nat
  BY <1>1, <1>3, Products
<1>12. ASSUME NEW i \in S
       PROVE  Worth(q[i], Q[i], E) /\ Q[i] \in Nat
  <2> DEFINE p == P[i]
  <2>1. p \in Nat /\ Worth(r[i], p, N) /\ q[i] = x ++ ((hi -- x) ** r[i]) /\ Q[i] = a * N + k * p
    BY <1>1, <1>10
  <2>2. p <= N
    BY <1>1, TotalAtLeast
  <2> HIDE DEF p
  <2>3. Worth((hi -- x) ** r[i], k * p, b * N)
    BY <1>8, <2>1, WorthProduct
  <2>4. Worth(q[i], a * E + (k * p) * b, b * E)
    BY <1>3, <2>1, <2>3, WorthSum
  <2>5. (a * E + (k * p) * b) * E = (a * N + k * p) * (b * E) /\ a * N + k * p \in Int
    <3> DEFINE y == k * p
    <3>1. y \in Int /\ a * N \in Int
      BY <1>9, <1>11, <2>1
    <3> HIDE DEF y
    <3>2. a * E = (a * N) * b
      BY <1>1, <1>3
    <3> DEFINE z == a * N
    <3> HIDE DEF z, E
    <3>3. (z * b + y * b) * E = (z + y) * (b * E)
      BY <1>3, <1>11, <3>1 DEF z
    <3>4. a * E + y * b = z * b + y * b
      BY <3>2 DEF z
    <3> QED  BY <3>1, <3>3, <3>4 DEF y, z
  <2>6. Worth(q[i], a * N + k * p, E)
    <3> HIDE DEF E
    <3> QED  BY ONLY <1>11, <2>4, <2>5, SameWorth
  <2>7. a * N + k * p >= 0
    <3> DEFINE c == N - p
               d == b - m
    <3>1. a * N + k * p = a * c + d * p
      <4>1. k = d - a
        BY <1>3, <1>4 DEF k
      <4> QED  BY <1>1, <1>3, <1>4, <2>1, <4>1
    <3>2. c \in Nat /\ d \in Nat
      BY <1>1, <1>3, <1>4, <1>7, <2>1, <2>2
    <3> HIDE DEF c, d
    <3>3. a * c \in Nat /\ d * p \in Nat
      BY <1>3, <2>1, <3>2
    <3> QED  BY <3>1, <3>3
  <2>8. Worth(q[i], Q[i], E)
    <3> HIDE DEF E
    <3> QED  BY <2>1, <2>6
  <2>9. Q[i] \in Nat
    BY <2>1, <2>5, <2>7
  <2> QED  BY <2>8, <2>9
<1>13. \A i \in S : Q[i] = a * N + k * P[i]
  OBVIOUS
<1>14. DOMAIN Q = S /\ Q = [i \in S |-> Q[i]]
  OBVIOUS
<1> HIDE DEF Q
<1>15. Q \in [S -> Nat]
  BY <1>12, <1>14
<1>16. Total(Q, S) = E
  <2> DEFINE c == a * N
  <2>1. c \in Int /\ k \in Int /\ \A i \in S : Q[i] = c + k * P[i]
    BY <1>9, <1>11, <1>13
  <2>2. \A i \in S : P[i] \in Int
    BY <1>1
  <2> HIDE DEF c
  <2>3. Total(Q, S) = c * n + k * Total(P, S)
    BY <2>1, <2>2, TotalLinear DEF n
  <2>4. Total(Q, S) = (a * N) * n + k * N
    BY <1>1, <2>3 DEF c
  <2>5. (a * N) * n + k * N = (k + n * a) * N
    BY <1>1, <1>2, <1>3, <1>9
  <2> QED  BY <1>9, <2>4, <2>5
<1> HIDE DEF E
<1>17. Shares(q, S)
  BY <1>11, <1>12, <1>15, <1>16 DEF Shares
<1> QED  BY <1>17 DEF q, hi, n

-----------------------------------------------------------------------------
(* Step sizes for which the weights are shares, and the targets of them.   *)

\* The learners leave every action a weight epsilon, and these come to one at most.
SmallSteps ==
    \A c \in Configs, v \in Vertices :
        c.rl_policy \notin {"epsilon greedy", "boltzmann"} => AtMost(Whole(Degree(v) - 1) ** c.epsilon, One)

\* There are no parallel edges, so that a target is listed once.
LEMMA TargetsDiffer ==
    ASSUME NEW v, NEW k \in 1 .. Degree(v), NEW l \in 1 .. Degree(v), Targets(v)[k] = Targets(v)[l]
    PROVE  k = l
<1> DEFINE I == {n \in DOMAIN Network : Network[n][1] = v}
           out == Listed(I)
           c == Cardinality(I)
           below(n) == Cardinality({m \in I : m < n})
           at(j) == CHOOSE n \in I : below(n) = j - 1
<1>1. DOMAIN out = 1 .. c /\ c \in Nat
  BY ListedFacts
<1>2. Targets(v) = [n \in DOMAIN out |-> out[n][2]]
  BY DEF Targets
<1>3. Degree(v) = c
  <2> HIDE DEF out, c
  <2> QED  BY <1>1, <1>2 DEF Degree
<1>4. ASSUME NEW j \in 1 .. c
      PROVE  at(j) \in I /\ below(at(j)) = j - 1 /\ out[j] = Network[at(j)]
  <2>1. \E n \in I : below(n) = j - 1
    BY Positions
  <2>2. out[j] = Network[at(j)]
    BY DEF Listed
  <2> HIDE DEF below
  <2> QED  BY <2>1, <2>2
<1> HIDE DEF out, c, at, below
<1>5. ASSUME NEW j \in 1 .. c
      PROVE  Network[at(j)] = <<v, Targets(v)[j]>>
  <2>1. at(j) \in I /\ Targets(v)[j] = Network[at(j)][2]
    BY <1>1, <1>2, <1>4
  <2>2. Network[at(j)] \in Edges /\ Network[at(j)][1] = v
    BY <2>1, EdgesAreIndexed
  <2> QED  BY <2>1, <2>2, EdgeFacts
<1>6. at(k) = at(l)
  <2>1. Network[at(k)] = Network[at(l)]
    BY <1>3, <1>5
  <2>2. at(k) \in DOMAIN Network /\ at(l) \in DOMAIN Network
    BY <1>3, <1>4
  <2> QED  BY <2>1, <2>2, NetworkAssumption
<1>7. k - 1 = l - 1
  BY <1>3, <1>4, <1>6
<1> QED  BY <1>1, <1>3, <1>7

\* The weights of the edges of v, as shares.
Shared(edges, v) == Shares([e \in Out(v) |-> edges[e].weight], Out(v))

LEMMA OutIsFinite ==
    ASSUME NEW v
    PROVE  IsFiniteSet(Out(v))
  BY EdgesAreIndexed, FS_Subset DEF Out

LEMMA SharedKept ==
    ASSUME NEW a, NEW b, NEW v, Shared(a, v), \A e \in Out(v) : b[e].weight = a[e].weight
    PROVE  Shared(b, v)
<1>1. [e \in Out(v) |-> b[e].weight] = [e \in Out(v) |-> a[e].weight]
  OBVIOUS
<1> QED  BY <1>1 DEF Shared

\* The targets of v, each of them once.
Lists(v, k, x) ==
    /\ \A n \in 1 .. k : <<v, x[n]>> \in Edges
    /\ \A n, m \in 1 .. k : x[n] = x[m] => n = m
    /\ \A e \in Out(v) : \E n \in 1 .. k : x[n] = e[2]

LEMMA TargetShares ==
    ASSUME NEW v, NEW k \in Nat, NEW x, Lists(v, k, x), NEW w, Shares(w, 1 .. k), NEW edges,
           \A n \in 1 .. k : edges[<<v, x[n]>>].weight = w[n]
    PROVE  Shared(edges, v)
<1> DEFINE h == [e \in Out(v) |-> CHOOSE n \in 1 .. k : x[n] = e[2]]
           g == [e \in Out(v) |-> edges[e].weight]
<1>0. /\ \A n \in 1 .. k : <<v, x[n]>> \in Edges
      /\ \A n, m \in 1 .. k : x[n] = x[m] => n = m
      /\ \A e \in Out(v) : \E n \in 1 .. k : x[n] = e[2]
  BY DEF Lists
<1>1. \A e \in Out(v) : h[e] \in 1 .. k /\ x[h[e]] = e[2]
  BY <1>0
<1>2. h = [e \in Out(v) |-> h[e]]
  OBVIOUS
<1> HIDE DEF h
<1>3. h \in [Out(v) -> 1 .. k]
  BY <1>1, <1>2
<1>4. \A e \in Out(v) : e = <<v, e[2]>>
  BY EdgeFacts DEF Out
<1>5. \A e, f \in Out(v) : h[e] = h[f] => e = f
  BY <1>1, <1>4
<1>6. ASSUME NEW n \in 1 .. k
      PROVE  \E e \in Out(v) : h[e] = n
  <2> DEFINE e == <<v, x[n]>>
  <2>1. e \in Out(v) /\ e[2] = x[n]
    BY <1>0 DEF Out
  <2> HIDE DEF e
  <2>2. x[h[e]] = x[n] /\ h[e] \in 1 .. k
    BY <1>1, <2>1
  <2>3. h[e] = n
    BY <1>0, <2>2
  <2> QED  BY <2>1, <2>3
<1>7. ASSUME NEW e \in Out(v)
      PROVE  g[e] = w[h[e]]
  <2>1. edges[<<v, x[h[e]]>>].weight = w[h[e]]
    BY <1>1
  <2>2. <<v, x[h[e]]>> = e
    BY <1>1, <1>4
  <2> QED  BY <2>1, <2>2
<1>8. IsFiniteSet(1 .. k)
  <2>1. 1 \in Int /\ k \in Int
    OBVIOUS
  <2> QED  BY <2>1, FS_Interval
<1> HIDE DEF g
<1>9. Shares(g, Out(v))
  <2>1. IsFiniteSet(Out(v))
    BY OutIsFinite
  <2>2. \A n \in 1 .. k : \E e \in Out(v) : h[e] = n
    BY <1>6
  <2>3. \A e \in Out(v) : g[e] = w[h[e]]
    BY <1>7
  <2>4. Shares(w, 1 .. k)
    OBVIOUS
  <2> DEFINE S == Out(v)
             U == 1 .. k
  <2> HIDE DEF S, U
  <2>5. Shares(g, S)
    BY ONLY <1>3, <1>5, <1>8, <2>1, <2>2, <2>3, <2>4, SharesMapped DEF S, U
  <2> QED  BY <2>5 DEF S
<1> QED  BY <1>9 DEF Shared, g

-----------------------------------------------------------------------------
(* What the policies leave behind on the edges.                            *)

\* What is left of a vector is normalised, and scaled.
LEMMA ProjectedFacts ==
    ASSUME desArgs \in Configs, NEW w, Vector(w), NEW q \in Projected(w)
    PROVE  DOMAIN q = DOMAIN w /\ \A i \in DOMAIN w : q[i] \in Rationals
<1> DEFINE lo == desArgs.epsilon
           hi == One -- (Whole(Len(w) - 1) ** lo)
<1>1. PICK p \in projectionDuchi(w, One, Zero) : q = scale(Normalised(p), lo, hi)
  BY DEF Projected
<1>2. PICK S \in Supports(w, One) : p = Cut(w, One, Zero, S)
  BY DEF projectionDuchi
<1>3. S \in SUBSET DOMAIN w /\ S # {}
  BY SupportsFacts
<1>4. /\ DOMAIN p = DOMAIN w
      /\ \A i \in DOMAIN w : p[i] \in Rationals /\ p[i][1] >= 0
      /\ \E i \in DOMAIN w : p[i][1] > 0
  BY <1>2, <1>3, CutFacts
<1>5. lo \in Rationals /\ hi \in Rationals /\ hi -- lo \in Rationals
  <2>1. lo \in Rationals
    BY ConfigsAssumption
  <2>2. Len(w) - 1 \in Int
    BY DEF Vector
  <2>3. Whole(Len(w) - 1) \in Rationals /\ One \in Rationals
    BY <2>2, Wholes
  <2>4. Whole(Len(w) - 1) ** lo \in Rationals
    BY <2>1, <2>3, Arithmetic
  <2> HIDE DEF lo
  <2>5. hi \in Rationals
    BY <2>3, <2>4, Arithmetic
  <2> HIDE DEF hi
  <2> QED  BY <2>1, <2>5, Arithmetic
<1> HIDE DEF lo, hi
<1> DEFINE sum == SumOf(p, DOMAIN p)
           r == Normalised(p)
<1>6. sum \in Rationals /\ sum[1] # 0
  <2>1. IsFiniteSet(DOMAIN w)
    BY VectorFacts
  <2>2. sum \in Rationals
    BY <1>4, <2>1, SumOfFacts
  <2>3. sum[1] > 0
    BY <1>4, <2>1, SumOfPositive
  <2> HIDE DEF sum
  <2>4. sum[1] \in Int
    BY <2>2, RationalFacts
  <2> QED  BY <2>2, <2>3, <2>4
<1>7. DOMAIN r = DOMAIN w /\ \A i \in DOMAIN w : r[i] \in Rationals
  <2>1. r = IF sum = One THEN p ELSE mult(p, One // sum)
    BY DEF Normalised
  <2>2. One // sum \in Rationals
    <3> HIDE DEF sum
    <3> QED  BY <1>6, Arithmetic, Wholes
  <2> HIDE DEF sum, r
  <2>3. CASE r = p
    BY <1>4, <2>3
  <2>4. CASE r = mult(p, One // sum)
    <3>1. r = [i \in DOMAIN p |-> p[i] ** (One // sum)]
      BY <2>4 DEF mult
    <3>2. \A i \in DOMAIN w : p[i] ** (One // sum) \in Rationals
      BY <1>4, <2>2, Arithmetic
    <3> QED  BY <1>4, <3>1, <3>2
  <2> QED  BY <2>1, <2>3, <2>4
<1>8. q = [i \in DOMAIN r |-> lo ++ ((hi -- lo) ** r[i])]
  BY <1>1 DEF scale
<1> HIDE DEF r
<1>9. \A i \in DOMAIN w : lo ++ ((hi -- lo) ** r[i]) \in Rationals
  <2> SUFFICES ASSUME NEW i \in DOMAIN w PROVE lo ++ ((hi -- lo) ** r[i]) \in Rationals
    OBVIOUS
  <2>1. (hi -- lo) ** r[i] \in Rationals
    BY <1>5, <1>7, Arithmetic
  <2> QED  BY <1>5, <2>1, Arithmetic
<1> QED  BY <1>7, <1>8, <1>9

\* The policies that step along a gradient.
Learner == desArgs.rl_policy \notin {"epsilon greedy", "boltzmann"}

\* They are shares, if steps are small: what is left adds up to one, and scaling keeps that.
LEMMA ProjectedShares ==
    ASSUME desArgs \in Configs, NEW w, Vector(w), AtMost(Whole(Len(w) - 1) ** desArgs.epsilon, One),
           NEW q \in Projected(w)
    PROVE  Shares(q, DOMAIN w)
<1> DEFINE lo == desArgs.epsilon
           hi == One -- (Whole(Len(w) - 1) ** lo)
           I == DOMAIN w
<1>1. PICK p \in projectionDuchi(w, One, Zero) : q = scale(Normalised(p), lo, hi)
  BY DEF Projected
<1>2. PICK S \in Supports(w, One) : p = Cut(w, One, Zero, S)
  BY DEF projectionDuchi
<1>3. S \in SUBSET I /\ S # {}
  BY SupportsFacts
<1>4. /\ DOMAIN p = I
      /\ \A i \in I : p[i] \in Rationals /\ p[i][1] >= 0
      /\ \E i \in I : p[i][1] > 0
  BY <1>2, <1>3, CutFacts
<1>5. IsFiniteSet(I) /\ I # {} /\ Cardinality(I) = Len(w)
  BY VectorFacts
<1>6. lo \in Rationals /\ Below(Zero, lo) /\ AtMost(Whole(Len(w) - 1) ** lo, One)
  BY ConfigsAssumption
<1> DEFINE r == Normalised(p)
<1> HIDE DEF I, lo
<1>7. Shares(r, I)
  BY <1>4, <1>5, NormalisedShares
<1>8. DOMAIN r = I
  BY <1>4 DEF Normalised, mult
<1> HIDE DEF r
<1>9. AtMost(Whole(Cardinality(I) - 1) ** lo, One)
  BY <1>5, <1>6
<1>10. Shares(scale(r, lo, One -- (Whole(Cardinality(I) - 1) ** lo)), I)
  BY ONLY <1>5, <1>6, <1>7, <1>8, <1>9, ScaledShares
<1>11. q = scale(r, lo, One -- (Whole(Cardinality(I) - 1) ** lo))
  BY <1>1, <1>5 DEF r
<1> QED  BY <1>10, <1>11 DEF I

\* A signal that decays keeps its sign.
LEMMA DecayedFacts ==
    ASSUME NEW x \in Rationals, NEW t \in Nat
    PROVE  /\ Decayed(x, t) \in Rationals
           /\ x[1] >= 0 => Decayed(x, t)[1] >= 0
           /\ x[1] <= 0 => Decayed(x, t)[1] <= 0
<1> DEFINE m == 2 ^ t
           n == x[1] * 1
           d == x[2] * m
<1>1. m \in Nat \ {0}
  BY PowersOfTwo
<1>2. x[1] \in Int /\ x[2] \in Nat \ {0}
  BY RationalFacts
<1>3. Decayed(x, t) = Reduced(n, d)
  <2>1. Whole(m)[1] = m /\ Whole(m)[2] = 1
    BY <1>1, Wholes
  <2> QED  BY <2>1 DEF Decayed, //
<1> HIDE DEF m
<1>4. n \in Int /\ d \in Nat \ {0} /\ n = x[1]
  BY <1>1, <1>2, Products
<1> HIDE DEF n, d
<1>5. /\ Reduced(n, d) \in Rationals
      /\ Reduced(n, d)[1] > 0 <=> n > 0
      /\ Reduced(n, d)[1] = 0 <=> n = 0
  BY <1>4, ReducedSign
<1>6. Reduced(n, d)[1] \in Int
  BY <1>5, RationalFacts
<1> QED  BY <1>3, <1>4, <1>5, <1>6

LEMMA SumCommutes ==
    ASSUME NEW a \in Rationals, NEW b \in Rationals
    PROVE  a ++ b = b ++ a
<1>1. a[1] \in Int /\ a[2] \in Int /\ b[1] \in Int /\ b[2] \in Int
  BY RationalFacts
<1>2. a[1] + b[1] = b[1] + a[1] /\ a[1] * b[2] + b[1] * a[2] = b[1] * a[2] + a[1] * b[2] /\ a[2] * b[2] = b[2] * a[2]
  BY <1>1
<1> QED  BY <1>2 DEF ++

EdgeFields ==
    {"weight", "q_val", "total_reward", "emotion", "e_pos", "e_neg", "rmin", "rmax", "lastTime"}

\* What was felt, until time t: the range includes zero, and the emotion is in it.
RangeOK(p, t) ==
    /\ p.emotion \in Rationals /\ p.e_pos \in Rationals /\ p.e_neg \in Rationals
    /\ p.rmin \in Rationals /\ p.rmax \in Rationals
    /\ p.lastTime \in Nat /\ p.lastTime <= t
    /\ p.rmin[1] <= 0 /\ p.rmax[1] >= 0 /\ p.e_pos[1] >= 0 /\ p.e_neg[1] <= 0
    /\ AtMost(p.rmin, p.emotion) /\ AtMost(p.emotion, p.rmax)

EdgeOK(p, t) ==
    /\ DOMAIN p = EdgeFields /\ p.weight \in Rationals /\ p.q_val \in Rationals
    /\ RangeOK(p, t)

EdgesOK(edges, t) ==
    /\ DOMAIN edges = Edges /\ \A e \in Edges : EdgeOK(edges[e], t)
    /\ SmallSteps => \A v \in Vertices : Out(v) # {} => Shared(edges, v)

\* The values of the actions of v: every edge of v has one.
ValuesOK(v, values) ==
    /\ Len(values) \in Nat \ {0} /\ DOMAIN values = 1 .. Len(values)
    /\ \A n \in DOMAIN values : <<v, values[n][1]>> \in Edges /\ values[n][2] \in Rationals
    /\ \A e \in Out(v) : \E n \in DOMAIN values : values[n][1] = e[2]
    /\ Len(values) = Degree(v)
    /\ \A n, m \in DOMAIN values : values[n][1] = values[m][1] => n = m

\* Edges that change without their weights.
LEMMA WeightsAside ==
    ASSUME NEW t, NEW a, EdgesOK(a, t), NEW b, DOMAIN b = Edges,
           \A e \in Edges : EdgeOK(b[e], t) /\ b[e].weight = a[e].weight
    PROVE  EdgesOK(b, t)
<1>1. ASSUME NEW v, Shared(a, v)
      PROVE  Shared(b, v)
  <2>1. \A e \in Out(v) : b[e].weight = a[e].weight
    BY DEF Out
  <2> QED  BY <1>1, <2>1, SharedKept
<1> QED  BY <1>1 DEF EdgesOK

LEMMA FeltOK ==
    ASSUME now \in Nat, NEW edges, NEW e \in Edges, EdgeOK(edges[e], now), NEW signal \in Rationals
    PROVE  EdgeOK(Felt(e, edges, signal), now) /\ Felt(e, edges, signal).weight = edges[e].weight
<1> DEFINE p == edges[e]
           t == now - p.lastTime
           up == Greater(signal, Zero)
           down == Lesser(signal, Zero)
           ePos == Decayed(p.e_pos, t)
           eNeg == Decayed(p.e_neg, t)
           pos == ePos ++ up
           neg == eNeg ++ down
           rmin == Lesser(p.rmin, signal)
           rmax == Greater(p.rmax, signal)
           a == Lesser(pos, rmax)
           b == Greater(neg, rmin)
           f == Felt(e, edges, signal)
<1>1. f = [p EXCEPT !.e_pos = pos, !.e_neg = neg, !.rmin = rmin, !.rmax = rmax,
                    !.emotion = a ++ b, !.lastTime = now]
  BY Zenon DEF Felt
<1>2. /\ DOMAIN p = EdgeFields /\ p.weight \in Rationals /\ p.q_val \in Rationals
      /\ p.e_pos \in Rationals /\ p.e_neg \in Rationals /\ p.rmin \in Rationals /\ p.rmax \in Rationals
      /\ p.rmin[1] <= 0 /\ p.rmax[1] >= 0 /\ p.e_pos[1] >= 0 /\ p.e_neg[1] <= 0
      /\ p.lastTime \in Nat /\ p.lastTime <= now
  BY DEF EdgeOK, RangeOK
<1>3. t \in Nat
  BY <1>2
<1>4. /\ signal[1] \in Int /\ p.rmin[1] \in Int /\ p.rmax[1] \in Int
      /\ up \in Rationals /\ down \in Rationals /\ rmin \in Rationals /\ rmax \in Rationals
  BY <1>2, Arithmetic, Wholes, RationalFacts
<1>5. up[1] >= 0 /\ down[1] <= 0
  <2>1. Below(signal, Zero) <=> signal[1] < 0
    BY RationalFacts, Wholes DEF Below
  <2> QED  BY <1>4, <2>1, Wholes DEF Greater, Lesser
<1>6. ePos \in Rationals /\ ePos[1] >= 0 /\ eNeg \in Rationals /\ eNeg[1] <= 0
  <2> HIDE DEF t, p
  <2> QED  BY <1>2, <1>3, DecayedFacts
<1> HIDE DEF ePos, eNeg, up, down, t
<1>7. pos \in Rationals /\ pos[1] >= 0 /\ neg \in Rationals /\ neg[1] <= 0
  BY <1>4, <1>5, <1>6, Arithmetic, SumSign
<1> HIDE DEF pos, neg
<1>8. rmin[1] <= 0 /\ rmax[1] >= 0
  <2>1. AtMost(rmin, p.rmin) /\ AtMost(p.rmax, rmax)
    <3> HIDE DEF p
    <3> QED  BY <1>2, AtMostOrder
  <2>2. AtMost(p.rmin, Zero) /\ AtMost(Zero, p.rmax)
    <3> HIDE DEF p
    <3> QED  BY <1>2, Signs
  <2> HIDE DEF p, rmin, rmax
  <2>3. AtMost(rmin, Zero) /\ AtMost(Zero, rmax)
    BY <1>2, <1>4, <2>1, <2>2, AtMostTrans, Wholes
  <2> QED  BY <1>4, <2>3, Signs
<1> HIDE DEF rmin, rmax
<1>9. a \in Rationals /\ b \in Rationals /\ AtMost(a, rmax) /\ AtMost(rmin, b)
  BY <1>4, <1>7, Arithmetic, AtMostOrder
<1>10. a[1] >= 0 /\ b[1] <= 0
  BY <1>7, <1>8 DEF Greater, Lesser
<1> HIDE DEF a, b
<1>11. a ++ b \in Rationals /\ AtMost(a ++ b, a) /\ AtMost(b, a ++ b)
  <2>1. AtMost(b, b ++ a)
    BY <1>9, <1>10, SumAtMost
  <2>2. b ++ a = a ++ b
    BY <1>9, SumCommutes
  <2>3. a ++ b \in Rationals /\ AtMost(a ++ b, a)
    BY <1>9, <1>10, Arithmetic, SumAtMost
  <2> QED  BY <2>1, <2>2, <2>3
<1> DEFINE c == a ++ b
<1> HIDE DEF c
<1>12. c \in Rationals /\ AtMost(c, rmax) /\ AtMost(rmin, c)
  <2>1. c \in Rationals /\ AtMost(c, a) /\ AtMost(b, c)
    BY <1>11 DEF c
  <2> QED  BY <1>4, <1>9, <2>1, AtMostTrans
<1>13. /\ DOMAIN f = EdgeFields /\ f.weight = p.weight /\ f.q_val = p.q_val
       /\ f.e_pos = pos /\ f.e_neg = neg /\ f.rmin = rmin /\ f.rmax = rmax
       /\ f.emotion = c /\ f.lastTime = now
  <2>1. f = [p EXCEPT !.e_pos = pos, !.e_neg = neg, !.rmin = rmin, !.rmax = rmax,
                      !.emotion = c, !.lastTime = now]
    BY <1>1 DEF c
  <2> HIDE DEF f, p
  <2> QED  BY <1>2, <2>1 DEF EdgeFields
<1> HIDE DEF f, p
<1>14. EdgeOK(f, now) /\ f.weight = p.weight
  BY <1>2, <1>4, <1>7, <1>8, <1>12, <1>13 DEF EdgeOK, RangeOK
<1> QED  BY <1>14 DEF f, p

\* Weights that are given to the edges of v leave what was felt alone.
LEMMA WeighOK ==
    ASSUME NEW t, NEW edges, EdgesOK(edges, t), NEW v, NEW values, ValuesOK(v, values),
           NEW w, \A n \in DOMAIN values : w[n] \in Rationals, SmallSteps => Shares(w, DOMAIN values)
    PROVE  EdgesOK(Weigh(edges, v, values, w), t)
<1> DEFINE r == Weigh(edges, v, values, w)
           at(e) == CHOOSE n \in DOMAIN values : values[n][1] = e[2]
<1>1. r = [e \in Edges |-> IF e[1] = v THEN [edges[e] EXCEPT !.weight = w[at(e)]] ELSE edges[e]]
  BY DEF Weigh
<1>0. /\ DOMAIN values = 1 .. Len(values) /\ Len(values) \in Nat
      /\ \A n \in DOMAIN values : <<v, values[n][1]>> \in Edges
      /\ \A e \in Out(v) : \E n \in DOMAIN values : values[n][1] = e[2]
      /\ \A n, m \in DOMAIN values : values[n][1] = values[m][1] => n = m
  BY DEF ValuesOK
<1>2. ASSUME NEW e \in Edges, e[1] = v
      PROVE  at(e) \in DOMAIN values /\ values[at(e)][1] = e[2] /\ w[at(e)] \in Rationals
  <2>1. \E n \in DOMAIN values : values[n][1] = e[2]
    BY <1>0, <1>2 DEF Out
  <2>2. at(e) \in DOMAIN values /\ values[at(e)][1] = e[2]
    BY <2>1
  <2> HIDE DEF at
  <2> QED  BY <2>2
<1> HIDE DEF at, r
<1>3. ASSUME NEW e \in Edges
      PROVE  EdgeOK(r[e], t)
  <2> DEFINE p == edges[e]
             x == w[at(e)]
             q == [p EXCEPT !.weight = x]
  <2>1. EdgeOK(p, t)
    BY DEF EdgesOK
  <2>2. CASE e[1] = v
    <3>1. r[e] = q
      BY <1>1, <2>2
    <3>2. x \in Rationals
      BY <1>2, <2>2
    <3> HIDE DEF p, x
    <3>3. /\ DOMAIN q = EdgeFields /\ q.weight = x
          /\ \A f \in EdgeFields \ {"weight"} : q[f] = p[f]
      BY <2>1 DEF EdgeOK, EdgeFields
    <3> HIDE DEF q
    <3>4. EdgeOK(q, t)
      BY <2>1, <3>2, <3>3 DEF EdgeOK, RangeOK, EdgeFields
    <3> QED  BY <3>1, <3>4
  <2>3. CASE e[1] # v
    BY <1>1, <2>1, <2>3
  <2> QED  BY <2>2, <2>3
<1>4. DOMAIN r = Edges
  BY <1>1
<1>5. ASSUME Shares(w, DOMAIN values)
      PROVE  Shared(r, v)
  <2> DEFINE x == [n \in DOMAIN values |-> values[n][1]]
             k == Len(values)
  <2>1. k \in Nat /\ DOMAIN values = 1 .. k
    BY <1>0
  <2>2. \A n \in DOMAIN values : x[n] = values[n][1]
    OBVIOUS
  <2> HIDE DEF x, k
  <2>3. /\ \A n \in 1 .. k : <<v, x[n]>> \in Edges
        /\ \A n, m \in 1 .. k : x[n] = x[m] => n = m
        /\ \A e \in Out(v) : \E n \in 1 .. k : x[n] = e[2]
    <3> DEFINE I == 1 .. k
    <3> HIDE DEF I
    <3>1. DOMAIN values = I
      BY <2>1 DEF I
    <3>2. \A n \in I : <<v, x[n]>> \in Edges
      BY <1>0, <2>2, <3>1
    <3>3. \A n, m \in I : x[n] = x[m] => n = m
      BY <1>0, <2>2, <3>1
    <3>4. \A e \in Out(v) : \E n \in I : x[n] = e[2]
      BY <1>0, <2>2, <3>1
    <3> QED  BY <3>2, <3>3, <3>4 DEF I
  <2>4. ASSUME NEW n \in 1 .. k
        PROVE  r[<<v, x[n]>>].weight = w[n]
    <3> DEFINE e == <<v, x[n]>>
    <3>1. e \in Edges /\ e[1] = v /\ e[2] = x[n]
      BY <2>3
    <3> HIDE DEF e
    <3>2. at(e) \in 1 .. k /\ x[at(e)] = x[n]
      BY <1>2, <2>1, <2>2, <3>1
    <3>3. at(e) = n
      BY <2>3, <3>2
    <3>4. r[e] = [edges[e] EXCEPT !.weight = w[n]]
      BY <1>1, <3>1, <3>3
    <3>5. DOMAIN edges[e] = EdgeFields
      BY <3>1 DEF EdgesOK, EdgeOK
    <3>6. r[e].weight = w[n]
      BY <3>4, <3>5 DEF EdgeFields
    <3> QED  BY <3>6 DEF e
  <2>5. Shares(w, 1 .. k)
    BY <1>5, <2>1
  <2>6. Lists(v, k, x)
    BY <2>3 DEF Lists
  <2> QED  BY ONLY <2>1, <2>4, <2>5, <2>6, TargetShares
<1>6. ASSUME NEW u, u # v, Shared(edges, u)
      PROVE  Shared(r, u)
  <2>1. \A e \in Out(u) : r[e].weight = edges[e].weight
    BY <1>1, <1>6 DEF Out
  <2> QED  BY <1>6, <2>1, SharedKept
<1>7. SmallSteps => \A u \in Vertices : Out(u) # {} => Shared(r, u)
  BY <1>5, <1>6 DEF EdgesOK
<1> QED  BY <1>3, <1>4, <1>7 DEF EdgesOK, r

\* The values in an order, each of them once.
LEMMA SortedFacts ==
    ASSUME NEW v, NEW values, ValuesOK(v, values), NEW o \in Sorted(values)
    PROVE  ValuesOK(v, o)
<1> DEFINE S == {values[n] : n \in DOMAIN values}
           f == [n \in DOMAIN values |-> values[n]]
           c == Cardinality(S)
<1>0. /\ Len(values) \in Nat \ {0} /\ DOMAIN values = 1 .. Len(values)
      /\ \A n \in DOMAIN values : <<v, values[n][1]>> \in Edges /\ values[n][2] \in Rationals
      /\ \A e \in Out(v) : \E n \in DOMAIN values : values[n][1] = e[2]
      /\ Len(values) = Degree(v)
      /\ \A n, m \in DOMAIN values : values[n][1] = values[m][1] => n = m
  BY DEF ValuesOK
<1>1. IsFiniteSet(S) /\ c \in Nat \ {0} /\ c <= Len(values)
  <2>1. f \in Surjection(DOMAIN values, S)
    BY DEF Surjection
  <2>2. IsFiniteSet(DOMAIN values) /\ Cardinality(DOMAIN values) = Len(values)
    <3> DEFINE n == Len(values)
    <3>1. n \in Int /\ 1 \in Int /\ n >= 1
      BY <1>0
    <3> HIDE DEF n
    <3>2. IsFiniteSet(1 .. n) /\ Cardinality(1 .. n) = IF 1 > n THEN 0 ELSE n - 1 + 1
      BY <3>1, FS_Interval
    <3>3. IsFiniteSet(1 .. n) /\ Cardinality(1 .. n) = n
      BY <3>1, <3>2
    <3> QED  BY <1>0, <3>3 DEF n
  <2>3. S # {}
    <3>1. 1 \in DOMAIN values
      BY <1>0
    <3> QED  BY <3>1
  <2> HIDE DEF S, f
  <2>4. IsFiniteSet(S) /\ c <= Cardinality(DOMAIN values)
    BY <2>1, <2>2, FS_Surjection
  <2> QED  BY <2>2, <2>3, <2>4, FS_EmptySet, FS_CardinalityType
<1>2. o \in [1 .. c -> S] /\ \A i, j \in 1 .. c : o[i] = o[j] => i = j
  BY DEF Sorted, Orders
<1>3. \A x \in S : \E n \in 1 .. c : o[n] = x
  <2> HIDE DEF S
  <2>1. o \in Injection(1 .. c, S)
    BY <1>2 DEF Injection, IsInjective
  <2>2. Cardinality(1 .. c) = c
    <3>1. c \in Int /\ 1 \in Int /\ c >= 1
      BY <1>1
    <3> HIDE DEF c
    <3>2. Cardinality(1 .. c) = IF 1 > c THEN 0 ELSE c - 1 + 1
      BY <3>1, FS_Interval
    <3> QED  BY <3>1, <3>2
  <2>3. o \in Surjection(1 .. c, S)
    BY <1>1, <2>1, <2>2, FS_Injection
  <2> HIDE DEF c
  <2> QED  BY <2>3 DEF Surjection
<1>4. Len(o) = c /\ DOMAIN o = 1 .. c
  <2> HIDE DEF S
  <2> QED  BY <1>1, <1>2
<1>5. ASSUME NEW n \in DOMAIN o
      PROVE  <<v, o[n][1]>> \in Edges /\ o[n][2] \in Rationals
  <2>1. o[n] \in S
    <3> HIDE DEF S, c
    <3> QED  BY <1>2, <1>4
  <2>2. PICK m \in DOMAIN values : o[n] = values[m]
    BY <2>1
  <2> QED  BY <1>0, <2>2
<1>6. ASSUME NEW e \in Out(v)
      PROVE  \E n \in DOMAIN o : o[n][1] = e[2]
  <2>1. PICK m \in DOMAIN values : values[m][1] = e[2]
    BY <1>0
  <2>2. values[m] \in S
    OBVIOUS
  <2> HIDE DEF S
  <2>3. PICK n \in 1 .. c : o[n] = values[m]
    BY <1>3, <2>2
  <2> QED  BY <1>4, <2>1, <2>3
<1>7. /\ Len(o) = Len(values)
      /\ \A n, m \in DOMAIN o : o[n][1] = o[m][1] => n = m
  <2>1. f \in Injection(DOMAIN values, S) /\ f \in Surjection(DOMAIN values, S)
    <3>1. \A n, m \in DOMAIN values : f[n] = f[m] => n = m
      BY <1>0
    <3> QED  BY <3>1 DEF Injection, IsInjective, Surjection
  <2>2. IsFiniteSet(DOMAIN values) /\ Cardinality(DOMAIN values) = Len(values)
    <3> DEFINE n == Len(values)
    <3>1. n \in Int /\ 1 \in Int /\ n >= 1
      BY <1>0
    <3> HIDE DEF n
    <3>2. IsFiniteSet(1 .. n) /\ Cardinality(1 .. n) = IF 1 > n THEN 0 ELSE n - 1 + 1
      BY <3>1, FS_Interval
    <3>3. IsFiniteSet(1 .. n) /\ Cardinality(1 .. n) = n
      BY <3>1, <3>2
    <3> QED  BY <1>0, <3>3 DEF n
  <2>3. c = Len(values)
    <3> HIDE DEF f, S
    <3>1. c <= Cardinality(DOMAIN values)
      BY <2>1, <2>2, FS_Surjection
    <3>2. Cardinality(DOMAIN values) <= c
      BY <1>1, <2>1, FS_Injection
    <3> QED  BY <1>0, <1>1, <2>2, <3>1, <3>2
  <2>4. ASSUME NEW n \in DOMAIN o, NEW m \in DOMAIN o, o[n][1] = o[m][1]
        PROVE  n = m
    <3>1. PICK a \in DOMAIN values : o[n] = values[a]
      <4>1. o[n] \in S
        <5> HIDE DEF S, c
        <5> QED  BY <1>2, <1>4
      <4> QED  BY <4>1
    <3>2. PICK b \in DOMAIN values : o[m] = values[b]
      <4>1. o[m] \in S
        <5> HIDE DEF S, c
        <5> QED  BY <1>2, <1>4
      <4> QED  BY <4>1
    <3>3. a = b
      BY <1>0, <2>4, <3>1, <3>2
    <3> HIDE DEF S, c
    <3> QED  BY <1>2, <1>4, <3>1, <3>2, <3>3
  <2> QED  BY <1>4, <2>3, <2>4
<1> HIDE DEF c, S
<1>8. Len(o) = Degree(v)
  BY <1>0, <1>7
<1> QED  BY <1>1, <1>4, <1>5, <1>6, <1>7, <1>8 DEF ValuesOK

\* The difference of a value to their mean.
LEMMA SignalFacts ==
    ASSUME NEW t, NEW edges, EdgesOK(edges, t), NEW v, NEW values, ValuesOK(v, values), NEW n \in DOMAIN values
    PROVE  Signal(v, values, edges, n) \in Rationals /\ Orig(v, values, edges, n) \in Rationals
<1> DEFINE part == [m \in DOMAIN values |-> values[m][2] ** edges[<<v, values[m][1]>>].weight]
<1>1. \A m \in DOMAIN values : values[m][2] \in Rationals /\ edges[<<v, values[m][1]>>].weight \in Rationals
  BY DEF ValuesOK, EdgesOK, EdgeOK
<1>2. \A m \in DOMAIN values : part[m] \in Rationals
  BY <1>1, Arithmetic
<1>3. DOMAIN part = DOMAIN values /\ IsFiniteSet(DOMAIN values)
  <2>1. Len(values) \in Nat /\ DOMAIN values = 1 .. Len(values)
    BY DEF ValuesOK
  <2>2. Len(values) \in Int /\ 1 \in Int
    BY <2>1
  <2>3. IsFiniteSet(1 .. Len(values))
    BY <2>2, FS_Interval
  <2> QED  BY <2>1, <2>3
<1>4. MeanValue(v, values, edges) = SumOf(part, DOMAIN part)
  BY DEF MeanValue
<1> HIDE DEF part
<1>5. SumOf(part, DOMAIN part) \in Rationals
  BY <1>2, <1>3, SumOfFacts
<1> QED  BY <1>1, <1>4, <1>5, Arithmetic DEF Signal, Orig

\* A step along a gradient.
LEMMA StepEdges ==
    ASSUME desArgs \in Configs, Learner, NEW t, NEW edges, EdgesOK(edges, t),
           NEW v, NEW values, ValuesOK(v, values),
           NEW g, DOMAIN g = DOMAIN values, \A n \in DOMAIN values : g[n] \in Rationals,
           NEW c \in Step(v, values, edges, [n \in DOMAIN values |-> g[n]])
    PROVE  EdgesOK(c.edge, t)
<1> DEFINE gradient == [n \in DOMAIN values |-> g[n]]
<1>1. PICK p \in Projected(gradient) :
         \E i \in DOMAIN p : c = Choice(values[i][1], Weigh(edges, v, values, p))
  BY DEF Step
<1>2. DOMAIN gradient = DOMAIN values /\ \A n \in DOMAIN gradient : gradient[n] \in Rationals
  OBVIOUS
<1>3. Len(values) \in Nat \ {0} /\ DOMAIN values = 1 .. Len(values)
  BY DEF ValuesOK
<1>4. Len(gradient) = Len(values)
  BY <1>3
<1> HIDE DEF gradient
<1>5. Vector(gradient)
  BY <1>2, <1>3, <1>4 DEF Vector
<1>6. \A n \in DOMAIN values : p[n] \in Rationals
  BY <1>1, <1>2, <1>5, ProjectedFacts
<1>7. SmallSteps => Shares(p, DOMAIN values)
  <2> SUFFICES ASSUME SmallSteps PROVE Shares(p, DOMAIN values)
    OBVIOUS
  <2>1. v \in Vertices
    <3>1. 1 \in DOMAIN values
      BY <1>3
    <3>2. <<v, values[1][1]>> \in Edges
      BY <3>1 DEF ValuesOK
    <3> QED  BY <3>2, EdgeFacts
  <2>2. Len(gradient) = Degree(v)
    BY <1>4 DEF ValuesOK
  <2>3. AtMost(Whole(Len(gradient) - 1) ** desArgs.epsilon, One)
    BY <2>1, <2>2 DEF SmallSteps, Learner
  <2>4. Shares(p, DOMAIN gradient)
    BY <1>1, <1>5, <2>3, ProjectedShares
  <2> QED  BY <1>2, <2>4
<1>8. EdgesOK(Weigh(edges, v, values, p), t)
  BY <1>6, <1>7, WeighOK
<1> QED  BY <1>1, <1>8 DEF Choice

\* The first gets what exploration leaves, the others share it.
LEMMA EpsilonEdges ==
    ASSUME desArgs \in Configs, NEW t, NEW edges, EdgesOK(edges, t),
           NEW v, NEW values, ValuesOK(v, values), Len(values) # 1,
           NEW c \in EpsilonGreedy(v, values, edges)
    PROVE  EdgesOK(c.edge, t)
<1> DEFINE k == Len(values)
           w == [i \in 1 .. k |-> IF i = 1 THEN One -- desArgs.epsilon ELSE desArgs.epsilon // Whole(k - 1)]
<1>1. c \in {Choice(values[i][1], Weigh(edges, v, s, w)) : i \in 1 .. k, s \in Sorted(values)}
  BY DEF EpsilonGreedy
<1>2. k \in Nat \ {0} /\ k - 1 \in Nat \ {0}
  BY DEF ValuesOK
<1>3. \A i \in 1 .. k : w[i] \in Rationals
  <2>1. desArgs.epsilon \in Rationals
    BY ConfigsAssumption
  <2>2. Whole(k - 1) \in Rationals /\ Whole(k - 1)[1] # 0
    <3> DEFINE m == k - 1
    <3>1. m \in Int /\ m # 0
      BY <1>2
    <3> HIDE DEF m
    <3>2. Whole(m) \in Rationals /\ Whole(m)[1] = m
      BY <3>1, Wholes
    <3> QED  BY <3>1, <3>2 DEF m
  <2>3. One -- desArgs.epsilon \in Rationals /\ desArgs.epsilon // Whole(k - 1) \in Rationals
    BY <2>1, <2>2, Arithmetic, Wholes
  <2> QED  BY <2>3
<1> HIDE DEF w, k
<1>4. PICK i \in 1 .. k, s \in Sorted(values) : c = Choice(values[i][1], Weigh(edges, v, s, w))
  BY <1>1
<1>5. ValuesOK(v, s) /\ Len(s) = k
  BY SortedFacts DEF k, ValuesOK
<1>6. \A n \in DOMAIN s : w[n] \in Rationals
  <2>1. Len(s) \in Nat /\ DOMAIN s = 1 .. Len(s)
    BY <1>5 DEF ValuesOK
  <2> QED  BY <1>2, <1>3, <1>5, <2>1
<1>7. SmallSteps => Shares(w, DOMAIN s)
  <2> SUFFICES ASSUME SmallSteps PROVE Shares(w, DOMAIN s)
    OBVIOUS
  <2>1. DOMAIN s = 1 .. k
    BY <1>5 DEF ValuesOK, k
  <2> DEFINE x == desArgs.epsilon
  <2>2. x \in Rationals /\ Below(Zero, x) /\ Below(x, One)
    BY ConfigsAssumption
  <2>3. \A j \in 1 .. k : w[j] = IF j = 1 THEN One -- x ELSE x // Whole(k - 1)
    BY DEF w
  <2>4. k \in Nat /\ k > 1
    BY <1>2
  <2> HIDE DEF x
  <2>5. Shares(w, 1 .. k)
    BY ONLY <2>2, <2>3, <2>4, ExploringShares
  <2> QED  BY <2>1, <2>5
<1>8. EdgesOK(Weigh(edges, v, s, w), t)
  BY <1>5, <1>6, <1>7, WeighOK
<1> QED  BY <1>4, <1>8 DEF Choice

\* What the gradient learner feels.
LEMMA GradientEdges ==
    ASSUME desArgs \in Configs, Learner,
           now \in Nat, NEW edges, EdgesOK(edges, now), NEW v, NEW values, ValuesOK(v, values),
           NEW c \in GradientPolicyLearner(v, values, edges)
    PROVE  EdgesOK(c.edge, now)
<1> DEFINE at(e) == CHOOSE n \in DOMAIN values : values[n][1] = e[2]
           felt == [e \in Edges |->
                      IF e[1] = v THEN Felt(e, edges, Signal(v, values, edges, at(e))) ELSE edges[e]]
           g == [n \in DOMAIN values |-> Orig(v, values, felt, n) ++ felt[<<v, values[n][1]>>].emotion]
<1>1. c \in Step(v, values, felt, g)
  BY DEF GradientPolicyLearner
<1>2. ASSUME NEW e \in Edges
      PROVE  EdgeOK(felt[e], now) /\ felt[e].weight = edges[e].weight
  <2>1. EdgeOK(edges[e], now)
    BY DEF EdgesOK
  <2>2. CASE e[1] = v
    <3>1. \E n \in DOMAIN values : values[n][1] = e[2]
      BY <2>2 DEF ValuesOK, Out
    <3>2. at(e) \in DOMAIN values
      BY <3>1
    <3> DEFINE x == Signal(v, values, edges, at(e))
    <3>3. felt[e] = Felt(e, edges, x)
      BY <2>2
    <3> HIDE DEF at, felt
    <3>4. x \in Rationals
      BY <3>2, SignalFacts
    <3> HIDE DEF x
    <3> QED  BY <2>1, <3>3, <3>4, FeltOK
  <2>3. CASE e[1] # v
    BY <2>1, <2>3
  <2> QED  BY <2>2, <2>3
<1>3. DOMAIN felt = Edges
  OBVIOUS
<1> HIDE DEF felt
<1>4. EdgesOK(felt, now)
  BY <1>2, <1>3, WeightsAside
<1>5. DOMAIN g = DOMAIN values /\ g = [n \in DOMAIN values |-> g[n]]
  OBVIOUS
<1>6. \A n \in DOMAIN values : g[n] \in Rationals
  <2> SUFFICES ASSUME NEW n \in DOMAIN values PROVE g[n] \in Rationals
    OBVIOUS
  <2>1. Orig(v, values, felt, n) \in Rationals
    BY <1>4, SignalFacts
  <2>2. <<v, values[n][1]>> \in Edges
    BY DEF ValuesOK
  <2>3. felt[<<v, values[n][1]>>].emotion \in Rationals
    BY <1>4, <2>2 DEF EdgesOK, EdgeOK, RangeOK
  <2> QED  BY <2>1, <2>3, Arithmetic
<1> HIDE DEF g
<1>7. c \in Step(v, values, felt, [n \in DOMAIN values |-> g[n]])
  BY <1>1, <1>5
<1> QED  BY <1>4, <1>5, <1>6, <1>7, StepEdges

\* Whatever policy is asked: the emotion of an edge stays in the range of what was felt.
LEMMA PolicyEdges ==
    ASSUME desArgs \in Configs, now \in Nat, NEW edges, EdgesOK(edges, now),
           NEW v, NEW values, ValuesOK(v, values), NEW c \in m_policy(v, values, edges)
    PROVE  EdgesOK(c.edge, now)
<1>1. CASE Len(values) = 1
  BY <1>1 DEF m_policy, Choice
<1>2. ASSUME Learner, c \in WeightedPolicyLearner(v, values, edges)
      PROVE  EdgesOK(c.edge, now)
  <2> DEFINE w(n) == Orig(v, values, edges, n)
             diff(n) == Signal(v, values, edges, n)
             g == [n \in DOMAIN values |-> w(n) ++ (diff(n) ** (IF Below(Zero, diff(n)) THEN One -- w(n) ELSE w(n)))]
  <2>1. c \in Step(v, values, edges, g)
    BY <1>2 DEF WeightedPolicyLearner
  <2>2. \A n \in DOMAIN values : g[n] \in Rationals
    <3> SUFFICES ASSUME NEW n \in DOMAIN values PROVE g[n] \in Rationals
      OBVIOUS
    <3>1. w(n) \in Rationals /\ diff(n) \in Rationals
      BY SignalFacts
    <3> DEFINE x == IF Below(Zero, diff(n)) THEN One -- w(n) ELSE w(n)
    <3>2. g[n] = w(n) ++ (diff(n) ** x)
      OBVIOUS
    <3>3. x \in Rationals
      BY <3>1, Arithmetic, Wholes
    <3> HIDE DEF x, g, w, diff
    <3>4. diff(n) ** x \in Rationals
      BY <3>1, <3>3, Arithmetic
    <3> QED  BY <3>1, <3>2, <3>4, Arithmetic
  <2>3. DOMAIN g = DOMAIN values /\ g = [n \in DOMAIN values |-> g[n]]
    OBVIOUS
  <2> HIDE DEF g
  <2>4. c \in Step(v, values, edges, [n \in DOMAIN values |-> g[n]])
    BY <2>1, <2>3
  <2> QED  BY <1>2, <2>2, <2>3, <2>4, StepEdges
<1>3. ASSUME Learner, c \in FairActionLearner(v, values, edges)
      PROVE  EdgesOK(c.edge, now)
  <2> DEFINE g == [n \in DOMAIN values |-> Orig(v, values, edges, n) ++ Signal(v, values, edges, n)]
  <2>1. c \in Step(v, values, edges, g)
    BY <1>3 DEF FairActionLearner
  <2>2. \A n \in DOMAIN values : g[n] \in Rationals
    BY SignalFacts, Arithmetic
  <2>3. DOMAIN g = DOMAIN values /\ g = [n \in DOMAIN values |-> g[n]]
    OBVIOUS
  <2> HIDE DEF g
  <2>4. c \in Step(v, values, edges, [n \in DOMAIN values |-> g[n]])
    BY <2>1, <2>3
  <2> QED  BY <1>3, <2>2, <2>3, <2>4, StepEdges
<1>4. ASSUME c \in BoltzmannPolicy(v, values, edges)
      PROVE  EdgesOK(c.edge, now)
  BY <1>4 DEF BoltzmannPolicy, Choice
<1>5. ASSUME c \in EpsilonGreedy(v, values, edges), Len(values) # 1
      PROVE  EdgesOK(c.edge, now)
  BY <1>5, EpsilonEdges
<1>6. ASSUME Learner, c \in GradientPolicyLearner(v, values, edges)
      PROVE  EdgesOK(c.edge, now)
  BY <1>6, GradientEdges
<1>7. \/ Len(values) = 1
      \/ Len(values) # 1 /\ c \in EpsilonGreedy(v, values, edges)
      \/ c \in BoltzmannPolicy(v, values, edges)
      \/ Learner /\ c \in WeightedPolicyLearner(v, values, edges)
      \/ Learner /\ c \in FairActionLearner(v, values, edges)
      \/ Learner /\ c \in GradientPolicyLearner(v, values, edges)
  BY DEF m_policy, Learner
<1> QED  BY <1>1, <1>2, <1>3, <1>4, <1>5, <1>6, <1>7

-----------------------------------------------------------------------------
(* The values, and what is felt, when a response is handled.               *)

StatsOK(stats) ==
    /\ DOMAIN stats = Indices
    /\ \A i \in Indices : DOMAIN stats[i] = {"n", "mean"} /\ stats[i].n \in Nat /\ stats[i].mean \in Rationals

\* What the handlers leave behind of the values.
ValuedOK(s) == EdgesOK(s.edge, now) /\ StatsOK(s.qStats)

LEMMA PushOK ==
    ASSUME NEW stats, StatsOK(stats), NEW i \in Indices, NEW x \in Rationals
    PROVE  /\ Push(stats[i], x).mean \in Rationals
           /\ StatsOK([stats EXCEPT ![i] = Push(stats[i], x)])
<1> DEFINE st == stats[i]
           m == st.n + 1
           mean == st.mean ++ ((x -- st.mean) // Whole(m))
           r == Push(st, x)
<1>1. st.n \in Nat /\ st.mean \in Rationals
  BY DEF StatsOK
<1>2. m \in Nat /\ m # 0
  BY <1>1
<1>3. r = [n |-> m, mean |-> mean]
  BY DEF Push
<1> HIDE DEF m
<1>4. Whole(m) \in Rationals /\ Whole(m)[1] # 0
  <2>1. Whole(m) \in Rationals /\ Whole(m)[1] = m
    BY <1>2, Wholes
  <2> QED  BY <1>2, <2>1
<1>5. x -- st.mean \in Rationals
  BY <1>1, Arithmetic
<1>6. (x -- st.mean) // Whole(m) \in Rationals
  BY <1>4, <1>5, Arithmetic
<1>7. mean \in Rationals
  BY <1>1, <1>6, Arithmetic
<1> HIDE DEF mean, r
<1>8. DOMAIN r = {"n", "mean"} /\ r.n \in Nat /\ r.mean \in Rationals
  BY <1>2, <1>3, <1>7
<1>9. StatsOK([stats EXCEPT ![i] = r])
  BY <1>8 DEF StatsOK
<1> QED  BY <1>8, <1>9 DEF r

\* An edge that gets a value, or a total.
LEMMA ValuedEdges ==
    ASSUME NEW t, NEW edges, EdgesOK(edges, t), NEW e \in Edges, NEW x \in Rationals
    PROVE  EdgesOK([edges EXCEPT ![e].q_val = x], t)
<1> DEFINE p == edges[e]
           q == [p EXCEPT !.q_val = x]
           r == [edges EXCEPT ![e].q_val = x]
<1>1. EdgeOK(p, t) /\ DOMAIN edges = Edges
  BY DEF EdgesOK
<1>2. r = [edges EXCEPT ![e] = q]
  OBVIOUS
<1> HIDE DEF p
<1>3. DOMAIN q = EdgeFields /\ q.q_val = x /\ \A f \in EdgeFields \ {"q_val"} : q[f] = p[f]
  BY <1>1 DEF EdgeOK, EdgeFields
<1> HIDE DEF q
<1>4. EdgeOK(q, t) /\ q.weight = p.weight
  BY <1>1, <1>3 DEF EdgeOK, RangeOK, EdgeFields
<1> HIDE DEF r
<1>5. DOMAIN r = Edges /\ \A f \in Edges : r[f] = IF f = e THEN q ELSE edges[f]
  BY <1>1, <1>2
<1>6. DOMAIN r = Edges /\ \A f \in Edges : EdgeOK(r[f], t) /\ r[f].weight = edges[f].weight
  BY <1>4, <1>5 DEF EdgesOK, p
<1>7. EdgesOK(r, t)
  BY <1>6, WeightsAside
<1> QED  BY <1>7 DEF r

LEMMA TotalledEdges ==
    ASSUME NEW t, NEW edges, EdgesOK(edges, t), NEW x
    PROVE  EdgesOK([e \in Edges |-> [edges[e] EXCEPT !.total_reward = x[e]]], t)
<1> DEFINE r == [e \in Edges |-> [edges[e] EXCEPT !.total_reward = x[e]]]
<1>1. ASSUME NEW e \in Edges
      PROVE  EdgeOK(r[e], t) /\ r[e].weight = edges[e].weight
  <2> DEFINE p == edges[e]
             q == [p EXCEPT !.total_reward = x[e]]
  <2>1. r[e] = q /\ EdgeOK(p, t)
    BY DEF EdgesOK
  <2> HIDE DEF p, r
  <2>2. DOMAIN q = EdgeFields /\ \A f \in EdgeFields \ {"total_reward"} : q[f] = p[f]
    BY <2>1 DEF EdgeOK, EdgeFields
  <2> HIDE DEF q
  <2>3. EdgeOK(q, t) /\ q.weight = p.weight
    BY <2>1, <2>2 DEF EdgeOK, RangeOK, EdgeFields
  <2> QED  BY <2>1, <2>3 DEF p
<1>2. DOMAIN r = Edges
  OBVIOUS
<1> HIDE DEF r
<1>3. EdgesOK(r, t)
  BY <1>1, <1>2, WeightsAside
<1> QED  BY <1>3 DEF r

\* The values of the targets of v.
LEMMA TargetValues ==
    ASSUME NEW v, Degree(v) > 0, NEW x, \A n \in 1 .. Degree(v) : x[n] \in Rationals,
           NEW values, values = [n \in 1 .. Degree(v) |-> <<Targets(v)[n], x[n]>>]
    PROVE  ValuesOK(v, values)
<1>1. Degree(v) \in Nat \ {0}
  BY TargetsFacts
<1>2. DOMAIN values = 1 .. Degree(v) /\ Len(values) = Degree(v)
  BY <1>1
<1>3. \A n \in 1 .. Degree(v) : values[n][1] = Targets(v)[n] /\ values[n][2] = x[n]
  OBVIOUS
<1>4. \A n \in 1 .. Degree(v) : <<v, values[n][1]>> \in Edges
  BY <1>3, TargetsFacts
<1>5. \A e \in Out(v) : \E n \in 1 .. Degree(v) : values[n][1] = e[2]
  BY <1>3, TargetsFacts DEF Out
<1>6. \A n, m \in 1 .. Degree(v) : values[n][1] = values[m][1] => n = m
  BY <1>3, TargetsDiffer
<1> QED  BY <1>1, <1>2, <1>3, <1>4, <1>5, <1>6 DEF ValuesOK

LEMMA HookedValues ==
    ASSUME NEW v, NEW values, ValuesOK(v, values), NEW o \in Hooked(v, values)
    PROVE  ValuesOK(v, o)
  BY SortedFacts DEF Hooked

\* Handlers that change the properties of a vertex alone.
LEMMA OtherValues ==
    ASSUME NEW s, ValuedOK(s), NEW t, t.edge = s.edge, t.qStats = s.qStats
    PROVE  ValuedOK(t)
  BY DEF ValuedOK

LEMMA OnlyActionValued ==
    ASSUME NEW s, StateOK(s), ValuedOK(s), NEW v \in Vertices, Degree(v) = 1,
           NEW reward \in Rationals, NEW i \in Indices
    PROVE  ValuedOK(OnlyAction(s, v, reward, i))
<1> DEFINE e == <<v, Targets(v)[1]>>
           st == Push(s.qStats[i], reward)
           t == OnlyAction(s, v, reward, i)
<1>1. e \in Edges
  BY TargetsFacts
<1>2. t = [s EXCEPT !.qStats[i] = st, !.edge[e].q_val = st.mean, !.vertex[v].next_action = e[2]]
  BY DEF OnlyAction
<1>3. st.mean \in Rationals /\ StatsOK([s.qStats EXCEPT ![i] = st])
  BY PushOK DEF ValuedOK
<1> HIDE DEF t, st, e
<1>4. t.edge = [s.edge EXCEPT ![e].q_val = st.mean] /\ t.qStats = [s.qStats EXCEPT ![i] = st]
  BY <1>2 DEF StateOK
<1>5. EdgesOK([s.edge EXCEPT ![e].q_val = st.mean], now)
  BY <1>1, <1>3, ValuedEdges DEF ValuedOK
<1>6. ValuedOK(t)
  BY <1>3, <1>4, <1>5 DEF ValuedOK
<1> QED  BY <1>6 DEF t

LEMMA NoActionValued ==
    ASSUME NEW s, StateOK(s), ValuedOK(s), NEW v
    PROVE  ValuedOK(NoAction(s, v))
<1> DEFINE t == NoAction(s, v)
<1>1. t.edge = s.edge /\ t.qStats = s.qStats
  BY DEF NoAction, StateOK
<1> HIDE DEF t
<1>2. ValuedOK(t)
  BY <1>1, OtherValues
<1> QED  BY <1>2 DEF t

\* Statistics are kept for every edge, unless the full handler outsources.
LEMMA EdgeIndex ==
    ASSUME NEW e \in Edges
    PROVE  NetOf(e) \in Indices /\ (~ Outsourced => eindex(e) \in Indices)
  BY EdgeFacts DEF NetOf, Indices

LEMMA DefaultResponseValued ==
    ASSUME now \in Nat, ~ desArgs.rl, NEW s, StateOK(s), ValuedOK(s), NEW v,
           NEW from, Degree(v) > 0 => <<v, from>> \in Edges, NEW top \in Int,
           NEW r \in DefaultResponse(s, v, from, top)
    PROVE  ValuedOK(r)
<1> DEFINE e == <<v, from>>
           i == eindex(e)
           x == Whole(top - now)
           st == Push(s.qStats[i], x)
<1>1. CASE Degree(v) = 0
  BY <1>1 DEF DefaultResponse
<1>2. CASE Degree(v) # 0
  <2>1. r = [s EXCEPT !.qStats[i] = st, !.edge[e].q_val = st.mean]
    BY <1>2 DEF DefaultResponse
  <2>2. e \in Edges
    BY <1>2, TargetsFacts
  <2>3. i \in Indices
    BY <2>2, EdgeIndex DEF Outsourced
  <2>4. x \in Rationals
    BY Wholes
  <2> HIDE DEF x, i, e
  <2>5. st.mean \in Rationals /\ StatsOK([s.qStats EXCEPT ![i] = st])
    BY <2>3, <2>4, PushOK DEF ValuedOK
  <2> HIDE DEF st
  <2>6. r.edge = [s.edge EXCEPT ![e].q_val = st.mean] /\ r.qStats = [s.qStats EXCEPT ![i] = st]
    BY <2>1 DEF StateOK
  <2>7. EdgesOK([s.edge EXCEPT ![e].q_val = st.mean], now)
    BY <2>2, <2>5, ValuedEdges DEF ValuedOK
  <2> QED  BY <2>5, <2>6, <2>7 DEF ValuedOK
<1> QED  BY <1>1, <1>2

LEMMA RLResponseValued ==
    ASSUME now \in Nat, desArgs \in Configs, ~ desArgs.state, NEW s, StateOK(s), ValuedOK(s),
           NEW v \in Vertices, NEW from, Degree(v) > 0 => <<v, from>> \in Edges, NEW top \in Int,
           NEW r \in RLResponse(s, v, from, top)
    PROVE  ValuedOK(r)
<1> DEFINE x == [n \in 1 .. Degree(v) |-> s.edge[<<v, Targets(v)[n]>>].q_val]
           values == [n \in 1 .. Degree(v) |-> <<Targets(v)[n], s.edge[<<v, Targets(v)[n]>>].q_val>>]
           reward == Reward(top)
<1>1. Degree(v) \in Nat
  BY TargetsFacts
<1>0. reward \in Rationals
  BY RewardIsWhole
<1> HIDE DEF reward
<1>2. CASE Degree(v) = 1
  <2>1. r = OnlyAction(s, v, reward, eindex(<<v, from>>))
    BY <1>2 DEF RLResponse, reward
  <2>2. eindex(<<v, from>>) \in Indices
    BY <1>2, EdgeIndex DEF Outsourced
  <2> QED  BY <1>0, <1>2, <2>1, <2>2, OnlyActionValued
<1>3. CASE Degree(v) = 0
  <2>1. r = NoAction(s, v)
    BY <1>3 DEF RLResponse
  <2> QED  BY <2>1, NoActionValued
<1>4. CASE Degree(v) > 1
  <2>1. PICK c \in m_policy(v, values, s.edge) : r = RLUpdate(s, v, from, reward, c)
    BY <1>4 DEF RLResponse, reward
  <2>2. values = [n \in 1 .. Degree(v) |-> <<Targets(v)[n], x[n]>>]
    OBVIOUS
  <2>3. \A n \in 1 .. Degree(v) : x[n] \in Rationals
    BY TargetsFacts DEF ValuedOK, EdgesOK, EdgeOK
  <2> HIDE DEF x, values
  <2>4. ValuesOK(v, values)
    <3>1. Degree(v) > 0
      BY <1>1, <1>4
    <3> QED  BY ONLY <2>2, <2>3, <3>1, TargetValues
  <2>5. EdgesOK(s.edge, now)
    BY DEF ValuedOK
  <2>6. EdgesOK(c.edge, now)
    BY <2>4, <2>5, PolicyEdges
  <2>7. <<v, c.action>> \in Edges
    BY <1>4, <2>2, ChosenTarget
  <2> DEFINE e == <<v, from>>
             a == desArgs.q_alpha
             l == desArgs.q_lambda
             next == s.edge[<<v, c.action>>].q_val
             old == c.edge[e].q_val
             new == old ++ (a ** reward) ++ ((a ** l ** next) -- (a ** old))
  <2>8. e \in Edges
    BY <1>1, <1>4
  <2>9. next \in Rationals /\ old \in Rationals
    BY <2>5, <2>6, <2>7, <2>8 DEF EdgesOK, EdgeOK
  <2>10. a \in Rationals /\ l \in Rationals
    BY ConfigsAssumption
  <2> HIDE DEF e, a, l, next, old
  <2>11. new \in Rationals
    <3>1. a ** reward \in Rationals /\ a ** l \in Rationals /\ a ** old \in Rationals
      BY <1>0, <2>9, <2>10, Arithmetic
    <3>2. (a ** l) ** next \in Rationals
      BY <2>9, <3>1, Arithmetic
    <3>3. (a ** l ** next) -- (a ** old) \in Rationals /\ old ++ (a ** reward) \in Rationals
      BY <2>9, <3>1, <3>2, Arithmetic
    <3> QED  BY <3>3, Arithmetic
  <2> HIDE DEF new
  <2>12. r = [s EXCEPT !.edge = [c.edge EXCEPT ![e].q_val = new], !.vertex[v].next_action = c.action]
    BY <2>1 DEF RLUpdate, e, a, l, next, old, new
  <2>13. r.edge = [c.edge EXCEPT ![e].q_val = new] /\ r.qStats = s.qStats
    BY <2>12 DEF StateOK
  <2>14. EdgesOK([c.edge EXCEPT ![e].q_val = new], now)
    BY <2>6, <2>8, <2>11, ValuedEdges
  <2> QED  BY <2>13, <2>14 DEF ValuedOK
<1> QED  BY <1>1, <1>2, <1>3, <1>4

\* The full handler: the value of an edge is what its network computes.
LEMMA FullUpdateValued ==
    ASSUME now \in Nat, desArgs.rl, desArgs.state, NEW s, StateOK(s), ValuedOK(s), NEW v \in Vertices,
           NEW from, <<v, from>> \in Edges, NEW reward, NEW o, NEW c, EdgesOK(c.edge, now),
           NEW r \in FullUpdate(s, v, from, reward, o, c), StateOK(r)
    PROVE  ValuedOK(r)
<1> DEFINE oldE == <<v, from>>
           newE == <<v, c.action>>
           h == Deviated(Regretted(s, v, from, reward, o), v, reward, o)
           total == [e \in Edges |-> h.edge[e].total_reward]
           ready == Fed(FedAll(s.nets, Out(v)), newE)
           edges == [e \in Edges |-> [c.edge[e] EXCEPT !.total_reward = h.edge[e].total_reward]]
           after(t) == Fed([ready EXCEPT ![NetOf(oldE)] = t], oldE)
           left(t) == [edges EXCEPT ![oldE].q_val = Predicted(after(t), oldE)]
           one(t) == [h EXCEPT !.nets = after(t), !.sample = Sampled(ready, oldE),
                               !.vertex[v].next_action = c.action, !.edge = left(t)]
<1>0. FullUpdate(s, v, from, reward, o, c) = {one(t) : t \in Trained(ready, oldE, newE, reward[1])}
  BY Zenon DEF FullUpdate
<1> HIDE DEF one
<1>1. PICK t \in Trained(ready, oldE, newE, reward[1]) : r = one(t)
  BY <1>0
<1>2. StateOK(h) /\ h.qStats = s.qStats
  <2> DEFINE g == Regretted(s, v, from, reward, o)
  <2>1. StateOK(g)
    BY RegrettedOK
  <2>2. g.qStats = s.qStats
    BY DEF Regretted, StateOK
  <2> HIDE DEF g
  <2>3. h = Deviated(g, v, reward, o)
    BY DEF g
  <2> HIDE DEF h
  <2>4. StateOK(h)
    BY <2>1, <2>3, DeviatedOK
  <2>5. h.qStats = g.qStats
    BY <2>1, <2>3 DEF Deviated, StateOK
  <2> QED  BY <2>2, <2>4, <2>5
<1> HIDE DEF h, ready
<1>3. edges = [e \in Edges |-> [c.edge[e] EXCEPT !.total_reward = total[e]]]
  OBVIOUS
<1> HIDE DEF total, edges
<1>4. EdgesOK(edges, now)
  BY <1>3, TotalledEdges
<1> DEFINE x == Predicted(after(t), oldE)
<1> HIDE DEF after
<1>5. r.nets = after(t) /\ r.edge = [edges EXCEPT ![oldE].q_val = x] /\ r.qStats = s.qStats
  BY <1>1, <1>2 DEF StateOK, one
<1>6. x \in Rationals
  <2>1. NetOf(oldE) \in DOMAIN after(t) /\ NetsOK(after(t))
    BY <1>5, EdgeIndex DEF StateOK, NetIndices
  <2>2. Output(after(t), oldE) \in Int
    BY <2>1 DEF NetsOK, NetOK, Output
  <2> QED  BY <2>2, Predictions
<1> HIDE DEF x, oldE
<1>7. x \in Rationals /\ oldE \in Edges
  BY <1>6 DEF oldE
<1>8. EdgesOK([edges EXCEPT ![oldE].q_val = x], now)
  BY <1>4, <1>7, ValuedEdges
<1> QED  BY <1>5, <1>8 DEF ValuedOK

LEMMA FullRLResponseValued ==
    ASSUME StatesOK, now \in Nat, desArgs \in Configs, desArgs.rl, desArgs.state,
           NEW s, StateOK(s), ValuedOK(s), NEW v \in Vertices,
           NEW from, Degree(v) > 0 => <<v, from>> \in Edges, NEW top \in Int,
           NEW r \in FullRLResponse(s, v, from, top), StateOK(r)
    PROVE  ValuedOK(r)
<1> DEFINE fed == FedAll(s.nets, Out(v))
           x == [n \in 1 .. Degree(v) |-> Predicted(fed, <<v, Targets(v)[n]>>)]
           values == [n \in 1 .. Degree(v) |-> <<Targets(v)[n], Predicted(fed, <<v, Targets(v)[n]>>)>>]
           reward == Reward(top)
<1>1. Degree(v) \in Nat /\ \A n \in 1 .. Degree(v) : <<v, Targets(v)[n]>> \in Edges
  BY TargetsFacts
<1>0. reward \in Rationals
  BY RewardIsWhole
<1> HIDE DEF reward
<1>2. CASE Degree(v) = 1
  <2>1. r = OnlyAction(s, v, reward, NetOf(<<v, Targets(v)[1]>>))
    BY <1>2 DEF FullRLResponse, reward
  <2>2. NetOf(<<v, Targets(v)[1]>>) \in Indices
    BY <1>1, <1>2, EdgeIndex
  <2> QED  BY <1>0, <1>2, <2>1, <2>2, OnlyActionValued
<1>3. CASE Degree(v) = 0
  <2>1. r = NoAction(s, v)
    BY <1>3 DEF FullRLResponse
  <2> QED  BY <2>1, NoActionValued
<1>4. CASE Degree(v) > 1
  <2>1. FullRLResponse(s, v, from, top)
          = UNION {UNION {FullUpdate(s, v, from, reward, o, c) : c \in m_policy(v, o, s.edge)} :
                     o \in Hooked(v, values)}
    BY <1>4 DEF FullRLResponse, reward
  <2>2. values = [n \in 1 .. Degree(v) |-> <<Targets(v)[n], x[n]>>]
    OBVIOUS
  <2>3. \A n \in 1 .. Degree(v) : x[n] \in Rationals
    <3>1. NetsOK(fed) /\ DOMAIN fed = Indices
      BY FedAllFacts DEF StateOK, NetIndices
    <3> HIDE DEF fed
    <3> SUFFICES ASSUME NEW n \in 1 .. Degree(v) PROVE x[n] \in Rationals
      OBVIOUS
    <3> DEFINE e == <<v, Targets(v)[n]>>
    <3>2. NetOf(e) \in Indices
      BY <1>1, EdgeIndex
    <3>3. x[n] = Predicted(fed, e)
      OBVIOUS
    <3> HIDE DEF x, e
    <3>4. Output(fed, e) \in Int
      BY <3>1, <3>2 DEF NetsOK, NetOK, Output
    <3> QED  BY <3>3, <3>4, Predictions
  <2> HIDE DEF x, values
  <2>4. PICK o \in Hooked(v, values) : \E c \in m_policy(v, o, s.edge) : r \in FullUpdate(s, v, from, reward, o, c)
    BY <2>1
  <2>5. PICK c \in m_policy(v, o, s.edge) : r \in FullUpdate(s, v, from, reward, o, c)
    BY <2>4
  <2>6. ValuesOK(v, values)
    <3>1. Degree(v) > 0
      BY <1>1, <1>4
    <3> QED  BY ONLY <2>2, <2>3, <3>1, TargetValues
  <2>7. ValuesOK(v, o)
    BY <2>4, <2>6, HookedValues
  <2>8. EdgesOK(c.edge, now)
    BY <2>5, <2>7, PolicyEdges DEF ValuedOK
  <2>9. <<v, from>> \in Edges
    BY <1>1, <1>4
  <2> QED  BY <2>5, <2>8, <2>9, FullUpdateValued
<1> QED  BY <1>1, <1>2, <1>3, <1>4

LEMMA HybridUpdateValued ==
    ASSUME desArgs.rl, desArgs.state, desArgs.rl_hybrid, NEW s, StateOK(s), ValuedOK(s),
           NEW v \in Vertices, NEW from, <<v, from>> \in Edges, NEW reward \in Rationals, NEW ns,
           NEW c, EdgesOK(c.edge, now),
           NEW r \in HybridUpdate(s, v, from, reward, ns, c), StateOK(r)
    PROVE  ValuedOK(r)
<1> DEFINE oldE == <<v, from>>
           i == eindex(oldE)
           newE == <<v, c.action>>
           stats == IF WarmUp(s.qStats, oldE) THEN [s.qStats EXCEPT ![i] = Push(@, reward)] ELSE s.qStats
           warm == WarmUp(stats, oldE)
           ready == Fed(ns, newE)
           left(t) == [ready EXCEPT ![i] = t]
           after(t) == IF warm THEN left(t) ELSE Fed(left(t), oldE)
           q(t) == IF warm THEN stats[i].mean ELSE Predicted(after(t), oldE)
           edges(t) == [c.edge EXCEPT ![oldE].q_val = q(t)]
           one(t) == [s EXCEPT !.qStats = stats, !.nets = after(t), !.sample = Sampled(ready, oldE),
                               !.vertex[v].next_action = c.action, !.edge = edges(t)]
<1>1. HybridUpdate(s, v, from, reward, ns, c) = {one(t) : t \in Trained(ready, oldE, newE, reward[1])}
  BY Zenon DEF HybridUpdate
<1> HIDE DEF one
<1>2. PICK t \in Trained(ready, oldE, newE, reward[1]) : r = one(t)
  BY <1>1
<1>3. oldE \in Edges /\ i \in Indices /\ NetOf(oldE) \in Indices
  BY EdgeIndex DEF Outsourced
<1>4. StatsOK(stats)
  <2>1. StatsOK(s.qStats)
    BY DEF ValuedOK
  <2>2. StatsOK([s.qStats EXCEPT ![i] = Push(s.qStats[i], reward)])
    BY <1>3, <2>1, PushOK
  <2> QED  BY <2>1, <2>2
<1> HIDE DEF oldE, i, stats, warm, after, edges, ready
<1>5. r.qStats = stats /\ r.nets = after(t) /\ r.edge = edges(t)
  BY <1>2 DEF one, StateOK
<1>6. Output(after(t), oldE) \in Int
  BY <1>3, <1>5 DEF StateOK, NetsOK, NetOK, NetIndices, Output
<1>7. q(t) \in Rationals
  <2>1. Predicted(after(t), oldE) \in Rationals
    BY <1>6, Predictions
  <2> QED  BY <1>3, <1>4, <2>1 DEF StatsOK
<1> HIDE DEF q
<1>8. EdgesOK(edges(t), now)
  BY <1>3, <1>7, ValuedEdges DEF edges
<1> QED  BY <1>4, <1>5, <1>8 DEF ValuedOK

LEMMA HybridFullRLResponseValued ==
    ASSUME StatesOK, now \in Nat, desArgs \in Configs, desArgs.rl, desArgs.state, desArgs.rl_hybrid,
           NEW s, StateOK(s), ValuedOK(s), NEW v \in Vertices,
           NEW from, Degree(v) > 0 => <<v, from>> \in Edges, NEW top \in Int,
           NEW r \in HybridFullRLResponse(s, v, from, top), StateOK(r)
    PROVE  ValuedOK(r)
<1> DEFINE cold == {e \in Out(v) : ~ WarmUp(s.qStats, e)}
           fed == FedAll(s.nets, cold)
           x == [n \in 1 .. Degree(v) |->
                   IF <<v, Targets(v)[n]>> \in cold THEN Predicted(fed, <<v, Targets(v)[n]>>)
                   ELSE s.qStats[eindex(<<v, Targets(v)[n]>>)].mean]
           values == [n \in 1 .. Degree(v) |->
                        LET e == <<v, Targets(v)[n]>>
                        IN  <<e[2], IF e \in cold THEN Predicted(fed, e) ELSE s.qStats[eindex(e)].mean>>]
           reward == Reward(top)
<1>0. reward \in Rationals
  BY RewardIsWhole
<1> HIDE DEF reward
<1>1. Degree(v) \in Nat /\ \A n \in 1 .. Degree(v) : <<v, Targets(v)[n]>> \in Edges
  BY TargetsFacts
<1>2. CASE Degree(v) = 1
  <2> DEFINE e == <<v, Targets(v)[1]>>
  <2>1. r = OnlyAction(s, v, reward, eindex(e))
    BY <1>2 DEF HybridFullRLResponse, reward
  <2>2. eindex(e) \in Indices
    BY <1>1, <1>2, EdgeIndex DEF Outsourced
  <2> QED  BY <1>0, <1>2, <2>1, <2>2, OnlyActionValued
<1>3. CASE Degree(v) = 0
  <2>1. r = NoAction(s, v)
    BY <1>3 DEF HybridFullRLResponse
  <2> QED  BY <2>1, NoActionValued
<1>4. CASE Degree(v) > 1
  <2> DEFINE U == UNION {HybridUpdate(s, v, from, reward, fed, c) : c \in m_policy(v, values, s.edge)}
  <2>0. HybridFullRLResponse(s, v, from, top)
          = CASE Degree(v) > 1 -> U
              [] Degree(v) = 1 -> {OnlyAction(s, v, reward, eindex(<<v, Targets(v)[1]>>))}
              [] OTHER -> {NoAction(s, v)}
    BY Zenon DEF HybridFullRLResponse, reward
  <2>1. HybridFullRLResponse(s, v, from, top) = U
    <3> HIDE DEF U
    <3> QED  BY <1>1, <1>4, <2>0
  <2>2. values = [n \in 1 .. Degree(v) |-> <<Targets(v)[n], x[n]>>]
    OBVIOUS
  <2>3. NetsOK(fed) /\ DOMAIN fed = Indices
    <3>1. cold \in SUBSET Out(v) /\ NetsOK(s.nets) /\ DOMAIN s.nets = Indices
      BY DEF StateOK, NetIndices
    <3> HIDE DEF cold
    <3> QED  BY <3>1, FedAllFacts
  <2>4. \A n \in 1 .. Degree(v) : x[n] \in Rationals
    <3> HIDE DEF fed
    <3> SUFFICES ASSUME NEW n \in 1 .. Degree(v) PROVE x[n] \in Rationals
      OBVIOUS
    <3> DEFINE e == <<v, Targets(v)[n]>>
    <3>1. NetOf(e) \in Indices /\ eindex(e) \in Indices
      BY <1>1, EdgeIndex DEF Outsourced
    <3>2. x[n] = IF e \in cold THEN Predicted(fed, e) ELSE s.qStats[eindex(e)].mean
      OBVIOUS
    <3> HIDE DEF x, e, cold
    <3>3. Output(fed, e) \in Int
      BY <2>3, <3>1 DEF NetsOK, NetOK, Output
    <3>4. s.qStats[eindex(e)].mean \in Rationals
      BY <3>1 DEF ValuedOK, StatsOK
    <3> QED  BY <3>2, <3>3, <3>4, Predictions
  <2> HIDE DEF x, values, fed
  <2>5. PICK c \in m_policy(v, values, s.edge) : r \in HybridUpdate(s, v, from, reward, fed, c)
    BY <2>1
  <2>6. ValuesOK(v, values)
    <3>1. Degree(v) > 0
      BY <1>1, <1>4
    <3> QED  BY ONLY <2>2, <2>4, <3>1, TargetValues
  <2>7. EdgesOK(c.edge, now)
    BY <2>5, <2>6, PolicyEdges DEF ValuedOK
  <2>8. <<v, from>> \in Edges
    BY <1>1, <1>4
  <2> QED  BY <1>0, <2>5, <2>7, <2>8, HybridUpdateValued
<1> QED  BY <1>1, <1>2, <1>3, <1>4

LEMMA RespondedValued ==
    ASSUME StatesOK, now \in Nat, desArgs \in Configs, NEW s, StateOK(s), ValuedOK(s), NEW v \in Vertices,
           NEW from, Degree(v) > 0 => <<v, from>> \in Edges, NEW top \in Int,
           NEW r \in Responded(s, v, from, top)
    PROVE  ValuedOK(r)
<1>1. {desArgs.rl, desArgs.state, desArgs.rl_hybrid} \subseteq BOOLEAN
  BY ConfigsAssumption
<1>2. StateOK(r)
  BY RespondedOK
<1>3. CASE ~ desArgs.rl
  <2>1. r \in DefaultResponse(s, v, from, top)
    BY <1>3 DEF Responded
  <2> QED  BY <1>3, <2>1, DefaultResponseValued
<1>4. CASE desArgs.rl /\ ~ desArgs.state
  <2>1. r \in RLResponse(s, v, from, top)
    BY <1>4 DEF Responded
  <2> QED  BY <1>4, <2>1, RLResponseValued
<1>5. CASE desArgs.rl /\ desArgs.state /\ ~ desArgs.rl_hybrid
  <2>1. r \in FullRLResponse(s, v, from, top)
    BY <1>5 DEF Responded
  <2> QED  BY <1>2, <1>5, <2>1, FullRLResponseValued
<1>6. CASE desArgs.rl /\ desArgs.state /\ desArgs.rl_hybrid
  <2>1. r \in HybridFullRLResponse(s, v, from, top)
    BY <1>6 DEF Responded
  <2> QED  BY <1>2, <1>6, <2>1, HybridFullRLResponseValued
<1> QED  BY <1>1, <1>3, <1>4, <1>5, <1>6

\* The handlers of the metrics change the properties of a vertex alone.
Beside(s, t) == DOMAIN t = DOMAIN s /\ t.edge = s.edge /\ t.qStats = s.qStats

LEMMA RatedBeside ==
    ASSUME NEW s, {"edge", "qStats"} \subseteq DOMAIN s, NEW v, NEW from, NEW top
    PROVE  Beside(s, Rated(s, v, from, top))
<1> DEFINE reward == Reward(top)
           s1 == ResponseStats(s, v, top)
           s2 == ExpertNormal(s1, v, reward)
           s3 == ExpertAbsolute(s2, v, reward)
           s4 == ExpertPositive(s3, v, from, reward)
           s5 == ExpertNegative(s4, v, from, reward)
<1>1. Beside(s, s1)
  BY DEF Beside, ResponseStats
<1>2. Rated(s, v, from, top) = IF desArgs.expert THEN s5 ELSE s
  BY Zenon DEF Rated
<1> HIDE DEF s1
<1>3. Beside(s, s2)
  BY <1>1 DEF Beside, ExpertNormal
<1> HIDE DEF s2
<1>4. Beside(s, s3)
  BY <1>3 DEF Beside, ExpertAbsolute
<1> HIDE DEF s3
<1>5. Beside(s, s4)
  BY <1>4 DEF Beside, ExpertPositive
<1> HIDE DEF s4
<1>6. Beside(s, s5)
  BY <1>5 DEF Beside, ExpertNegative
<1> HIDE DEF s5
<1> QED  BY <1>2, <1>6 DEF Beside

LEMMA VariedBeside ==
    ASSUME NEW s, {"edge", "qStats"} \subseteq DOMAIN s, NEW v, NEW from
    PROVE  Beside(s, Varied(s, v, from))
<1>1. CASE Varied(s, v, from) = s
  BY <1>1 DEF Beside
<1>2. CASE Varied(s, v, from) # s
  <2>1. PICK b, x : Varied(s, v, from) = [s EXCEPT !.vertex[v].circBuffer = b, !.vertex[v].coeff_var = x]
    BY <1>2 DEF Varied
  <2> DEFINE t == Varied(s, v, from)
  <2>2. t = [s EXCEPT !.vertex[v].circBuffer = b, !.vertex[v].coeff_var = x]
    BY <2>1
  <2> HIDE DEF t
  <2>3. Beside(s, t)
    BY <2>2 DEF Beside
  <2> QED  BY <2>3 DEF t
<1> QED  BY <1>1, <1>2

-----------------------------------------------------------------------------
(* What is felt stays within its range, and the values stay numbers.       *)

EInv == EdgesOK(edge, now) /\ StatsOK(qStats)

LEMMA FreshValues == Init => EInv
<1> SUFFICES ASSUME Init PROVE EInv
  OBVIOUS
<1>1. ASSUME NEW e \in Edges
      PROVE  EdgeOK(FreshEdge(e), 0) /\ FreshEdge(e).weight = One // Whole(Degree(e[1]))
  <2> DEFINE d == Degree(e[1])
             w == One // Whole(d)
             p == FreshEdge(e)
  <2>1. d \in Nat \ {0}
    BY EdgeFacts, TargetsFacts
  <2>2. p = [weight |-> w, q_val |-> Zero, total_reward |-> Zero,
             emotion |-> Zero, e_pos |-> Zero, e_neg |-> Zero, rmin |-> Zero, rmax |-> Zero, lastTime |-> 0]
    BY Zenon DEF FreshEdge
  <2> HIDE DEF d
  <2>3. Whole(d) \in Rationals /\ Whole(d)[1] # 0
    <3>1. Whole(d) \in Rationals /\ Whole(d)[1] = d
      BY <2>1, Wholes
    <3> QED  BY <2>1, <3>1
  <2>4. One \in Rationals /\ Zero \in Rationals /\ Zero[1] = 0
    BY Wholes
  <2>5. w \in Rationals
    BY <2>3, <2>4, Arithmetic
  <2>6. AtMost(Zero, Zero)
    <3>1. Zero[1] = 0 /\ Zero[2] \in Nat
      BY Wholes, RationalFacts
    <3> QED  BY <3>1 DEF AtMost, Below
  <2> HIDE DEF w, p
  <2>7. EdgeOK(p, 0) /\ p.weight = w
    <3> HIDE DEF d
    <3> QED  BY <2>2, <2>4, <2>5, <2>6 DEF EdgeOK, RangeOK, EdgeFields
  <2> QED  BY <2>7 DEF p, w, d
<1>2. edge = [e \in Edges |-> FreshEdge(e)] /\ now = 0
  BY DEF Init
<1>7. ASSUME NEW v \in Vertices, Out(v) # {}
      PROVE  Shared(edge, v)
  <2> DEFINE d == Degree(v)
             x == Targets(v)
             w == [n \in 1 .. d |-> One // Whole(d)]
  <2>1. /\ d \in Nat \ {0}
        /\ \A n \in 1 .. d : <<v, x[n]>> \in Edges
        /\ \A e \in Out(v) : \E n \in 1 .. d : x[n] = e[2]
    <3>1. PICK e \in Edges : e[1] = v
      BY <1>7 DEF Out
    <3>2. Degree(v) \in Nat /\ Degree(v) >= 1
      BY <3>1, TargetsFacts
    <3>3. Degree(v) \in Nat \ {0}
      BY <3>2
    <3> QED  BY <3>3, TargetsFacts DEF Out
  <2>2. \A n, m \in 1 .. d : x[n] = x[m] => n = m
    BY TargetsDiffer
  <2> HIDE DEF x, d
  <2>3. IsFiniteSet(1 .. d) /\ Cardinality(1 .. d) = d /\ 1 .. d # {}
    <3>1. 1 \in Int /\ d \in Int /\ d >= 1
      BY <2>1
    <3>2. IsFiniteSet(1 .. d) /\ Cardinality(1 .. d) = IF 1 > d THEN 0 ELSE d - 1 + 1
      BY <3>1, FS_Interval
    <3> QED  BY <3>1, <3>2
  <2>4. \A n \in 1 .. d : w[n] = One // Whole(Cardinality(1 .. d))
    BY <2>3
  <2>5. \A n \in 1 .. d : edge[<<v, x[n]>>].weight = w[n]
    BY <1>1, <1>2, <2>1 DEF d
  <2> HIDE DEF w
  <2>6. Shares(w, 1 .. d)
    BY ONLY <2>3, <2>4, EqualShares
  <2>7. d \in Nat
    BY <2>1
  <2>8. Lists(v, d, x)
    BY <2>1, <2>2 DEF Lists
  <2> QED  BY ONLY <2>5, <2>6, <2>7, <2>8, TargetShares
<1>3. EdgesOK(edge, now)
  BY <1>1, <1>2, <1>7 DEF EdgesOK
<1>4. qStats = [i \in Indices |-> Cleared]
  BY DEF Init
<1>5. DOMAIN Cleared = {"n", "mean"} /\ Cleared.n \in Nat /\ Cleared.mean \in Rationals
  BY Wholes DEF Cleared
<1>6. StatsOK(qStats)
  BY <1>4, <1>5 DEF StatsOK
<1> QED  BY <1>3, <1>6 DEF EInv

\* Steps that leave the edges and the statistics alone, later or not.
LEMMA ValuesKept ==
    ASSUME EInv, now \in Nat, now' \in Nat, now <= now', UNCHANGED <<desArgs, edge, qStats>>
    PROVE  EInv'
<1>1. Indices' = Indices
  BY DEF Indices, Outsourced
<1>2. \A e \in Edges : EdgeOK(edge[e], now) => EdgeOK(edge[e], now')
  BY DEF EdgeOK, RangeOK
<1>3. EdgesOK(edge, now')
  BY <1>2 DEF EInv, EdgesOK
<1>4. EdgesOK(edge, now)'
  BY <1>3 DEF EdgesOK, EdgeOK, RangeOK, Shared, Shares
<1>5. StatsOK(qStats)'
  BY <1>1 DEF EInv, StatsOK
<1> QED  BY <1>4, <1>5 DEF EInv

\* Steps that leave an edge of a policy, or values of a handler, at the same time.
LEMMA ValuesNow ==
    ASSUME NEW edges, NEW stats, EdgesOK(edges, now), StatsOK(stats), edge' = edges, qStats' = stats,
           UNCHANGED <<desArgs, now>>
    PROVE  EInv'
<1>1. Indices' = Indices
  BY DEF Indices, Outsourced
<1>2. EdgesOK(edge, now)'
  BY DEF EdgesOK, EdgeOK, RangeOK, Shared, Shares
<1>3. StatsOK(qStats)'
  BY <1>1 DEF StatsOK
<1> QED  BY <1>2, <1>3 DEF EInv

LEMMA DepartKeepsValues ==
    ASSUME LInv, EInv, NEW v \in Vertices, Depart(v)
    PROVE  EInv'
<1>1. now \in Nat /\ desArgs \in Configs /\ UNCHANGED <<desArgs, now, qStats>>
  BY DEF Depart, LInv
<1>2. Degree(v) \in Nat
  BY TargetsFacts
<1>3. CASE Degree(v) = 0
  <2>1. UNCHANGED edge
    BY <1>3 DEF Depart
  <2> QED  BY <1>1, <2>1, ValuesKept
<1>4. CASE Degree(v) > 0
  <2>1. PICK c \in Selections(v) : edge' = c.edge
    BY <1>4 DEF Depart
  <2> DEFINE x == [n \in 1 .. Degree(v) |-> edge[<<v, Targets(v)[n]>>].q_val]
             values == [n \in 1 .. Degree(v) |-> <<Targets(v)[n], edge[<<v, Targets(v)[n]>>].q_val>>]
  <2>2. c.edge = edge \/ c \in m_policy(v, values, edge)
    <3>1. Selections(v)
            = IF ~ desArgs.rl
              THEN {Choice(Targets(v)[n], edge) :
                      n \in {m \in 1 .. Degree(v) : Below(Zero, edge[<<v, Targets(v)[m]>>].weight)}}
              ELSE IF vertex[v].next_action >= 0 THEN {Choice(vertex[v].next_action, edge)}
              ELSE m_policy(v, values, edge)
      BY Zenon DEF Selections
    <3> HIDE DEF values
    <3>2. c \in m_policy(v, values, edge) \/ \E n : c = Choice(n, edge)
      BY <2>1, <3>1
    <3> QED  BY <3>2 DEF Choice
  <2>3. values = [n \in 1 .. Degree(v) |-> <<Targets(v)[n], x[n]>>]
    OBVIOUS
  <2>4. \A n \in 1 .. Degree(v) : x[n] \in Rationals
    BY TargetsFacts DEF EInv, EdgesOK, EdgeOK
  <2> HIDE DEF x, values
  <2>5. ValuesOK(v, values)
    BY ONLY <1>4, <2>3, <2>4, TargetValues
  <2>6. EdgesOK(c.edge, now)
    BY <1>1, <2>2, <2>5, PolicyEdges DEF EInv
  <2> QED  BY <1>1, <2>1, <2>6, ValuesNow DEF EInv
<1> QED  BY <1>2, <1>3, <1>4

LEMMA AckKeepsValues ==
    ASSUME LInv, EInv, Ack
    PROVE  EInv'
<1> DEFINE a == Head(acks)
           v == a.at
           s == Rated(State, v, a.from, a.top)
<1>1. AckedOver(a) /\ v \in Vertices /\ a.top \in Int
  <2>1. acks \in Seq(AckRecords) /\ acks # <<>>
    BY DEF Ack, LInv, AcksOK
  <2>2. a \in AckRecords /\ 1 \in DOMAIN acks /\ a = acks[1]
    BY <2>1, EmptySeq, HeadTailProperties
  <2> HIDE DEF a
  <2> QED  BY <2>2 DEF LInv, AcksOK, AckRecords
<1>2. UNCHANGED <<desArgs, now>>
  BY DEF Ack
<1>3. \E r \in Responded(s, v, a.from, a.top) :
         edge' = Varied(r, v, a.from).edge /\ qStats' = Varied(r, v, a.from).qStats
  BY DEF Ack
<1> HIDE DEF a, v, s
<1>4. desArgs \in Configs /\ StateOK(State) /\ StatesOK /\ now \in Nat
  BY LearnedIsState, StatesAreInts DEF LInv
<1>5. ValuedOK(State)
  BY DEF ValuedOK, State, EInv
<1>6. StateOK(s)
  BY <1>1, <1>4, RatedOK DEF s
<1>7. ValuedOK(s)
  <2>1. {"edge", "qStats"} \subseteq DOMAIN State
    BY DEF State
  <2>2. Beside(State, s)
    BY <2>1, RatedBeside DEF s
  <2> QED  BY <1>5, <2>2, OtherValues DEF Beside
<1>8. PICK r \in Responded(s, v, a.from, a.top) :
         edge' = Varied(r, v, a.from).edge /\ qStats' = Varied(r, v, a.from).qStats
  BY <1>3
<1>9. Degree(v) > 0 => <<v, a.from>> \in Edges
  BY <1>1 DEF AckedOver, v
<1>10. StateOK(r)
  BY <1>1, <1>4, <1>6, <1>9, RespondedOK
<1>11. ValuedOK(r)
  BY <1>1, <1>4, <1>6, <1>7, <1>9, RespondedValued
<1> DEFINE z == Varied(r, v, a.from)
<1>12. ValuedOK(z)
  <2>1. {"edge", "qStats"} \subseteq DOMAIN r
    BY <1>10 DEF StateOK
  <2>2. Beside(r, z)
    BY <2>1, VariedBeside
  <2> HIDE DEF z
  <2> QED  BY <1>11, <2>2, OtherValues DEF Beside
<1>13. edge' = z.edge /\ qStats' = z.qStats
  BY <1>8
<1> HIDE DEF z
<1>14. EdgesOK(z.edge, now) /\ StatsOK(z.qStats)
  BY <1>12 DEF ValuedOK
<1> QED  BY ONLY <1>2, <1>13, <1>14, ValuesNow

LEMMA ValuesAreKept ==
    ASSUME LInv, EInv, [Next]_vars
    PROVE  EInv'
<1>0. now \in Nat
  BY DEF LInv
<1>1. ASSUME NEW v \in Entrances, Enter(v)
      PROVE  EInv'
  <2>1. UNCHANGED <<desArgs, now, edge, qStats>>
    BY <1>1 DEF Enter
  <2> QED  BY <1>0, <2>1, ValuesKept
<1>2. CASE \E v \in Vertices : Depart(v)
  BY <1>2, DepartKeepsValues
<1>3. CASE Ack
  BY <1>3, AckKeepsValues
<1>4. CASE Tick
  <2>1. now' = now + 1 /\ UNCHANGED <<desArgs, edge, qStats>>
    BY <1>4 DEF Tick
  <2> QED  BY <1>0, <2>1, ValuesKept
<1>5. CASE UNCHANGED vars
  <2>1. UNCHANGED <<desArgs, now, edge, qStats>>
    BY <1>5 DEF vars
  <2> QED  BY <1>0, <2>1, ValuesKept
<1> QED  BY <1>1, <1>2, <1>3, <1>4, <1>5 DEF Next

\* The value, the weight and the signals of every edge are numbers, and what is
\* felt over it stays in a range that holds zero, whatever rewards come in and
\* whatever policy, handler, network or step size is configured.
THEOREM ValuesAreNumbers == Spec => []EInv
<1>1. LInv /\ EInv /\ [Next]_vars => EInv'
  BY ValuesAreKept
<1> QED  BY WalksAreFollowedBack, FreshValues, <1>1, PTL DEF Spec

\* The signals never leave the range of what was felt, though they decay, and
\* are bounded, at different times (GradientPolicyLearner.cc:128-168).
THEOREM EmotionsAreBounded == Spec => []EmotionBounded
<1>1. EInv => EmotionBounded
  BY DEF EInv, EdgesOK, EdgeOK, RangeOK, EmotionBounded
<1> QED  BY ValuesAreNumbers, <1>1, PTL

LEMMA SharedWeights ==
    ASSUME SmallSteps, EInv
    PROVE  WeightsAreDistribution
<1> SUFFICES ASSUME NEW v \in Vertices, Degree(v) > 0
             PROVE  LET weight == [e \in Out(v) |-> edge[e].weight]
                    IN  SumOf(weight, Out(v)) = One /\ \A e \in Out(v) : AtMost(Zero, weight[e])
  BY DEF WeightsAreDistribution
<1> DEFINE weight == [e \in Out(v) |-> edge[e].weight]
<1>1. Out(v) # {} /\ IsFiniteSet(Out(v))
  <2>1. 1 \in 1 .. Degree(v)
    BY TargetsFacts
  <2>2. <<v, Targets(v)[1]>> \in Edges
    BY <2>1, TargetsFacts
  <2>3. <<v, Targets(v)[1]>> \in Out(v)
    BY <2>2 DEF Out
  <2> QED  BY <2>3, OutIsFinite
<1>2. Shares(weight, Out(v))
  BY <1>1 DEF EInv, EdgesOK, Shared
<1> HIDE DEF weight
<1>3. SumOf(weight, Out(v)) = One /\ \A e \in Out(v) : AtMost(Zero, weight[e])
  BY <1>1, <1>2, SharesFacts
<1> QED  BY <1>3 DEF weight

\* The weights of the edges of a vertex are a distribution, whatever pivots the
\* projection drew and however the policies interleave, for learners whose epsilons
\* come to one at most: beyond that scale() may hand out negative weights
\* (Simplex.cc:35, WeightedPolicyLearner.cc:136-156).
THEOREM WeightsAreShared ==
    ASSUME SmallSteps
    PROVE  Spec => []WeightsAreDistribution
<1>1. EInv => WeightsAreDistribution
  BY SharedWeights
<1> QED  BY ValuesAreNumbers, <1>1, PTL

-----------------------------------------------------------------------------
(* Quotients in lowest terms are equal when they are worth the same.       *)

LEMMA GcdIsGreatest ==
    ASSUME NEW a \in Nat, NEW b \in Nat, NEW d \in CommonDivisors(a, b)
    PROVE  Divides(d, Gcd[<<a, b>>])
<1> DEFINE P(m, n) == \A k \in CommonDivisors(m, n) : Divides(k, Gcd[<<m, n>>])
           Bad == {n \in Nat : \E m \in Nat : ~ P(m, n)}
<1>1. Bad = {}
  <2> SUFFICES ASSUME Bad # {} PROVE FALSE
    OBVIOUS
  <2>1. PICK n \in Bad : \A k \in Bad : n <= k
    BY Least
  <2>2. PICK m \in Nat : ~ P(m, n)
    OBVIOUS
  <2>3. CASE n = 0
    <3>1. Gcd[<<m, 0>>] = m
      BY GcdIs
    <3> QED  BY <2>2, <2>3, <3>1 DEF CommonDivisors
  <2>4. CASE n # 0
    <3>1. m % n \in Nat /\ m % n < n /\ CommonDivisors(m, n) = CommonDivisors(n, m % n)
      BY <2>4, DivisorsOfRest
    <3>2. Gcd[<<m, n>>] = Gcd[<<n, m % n>>]
      BY <2>4, GcdIs
    <3>3. ~ P(n, m % n)
      BY <2>2, <3>1, <3>2
    <3>4. m % n \in Bad
      BY <3>1, <3>3
    <3> QED  BY <2>1, <3>1, <3>4
  <2> QED  BY <2>3, <2>4
<1> QED  BY <1>1

\* One is the only number that divides both.
Lowest(r) ==
    /\ r[1] \in Int /\ r[2] \in Nat \ {0} /\ r = <<r[1], r[2]>>
    /\ \A k \in Nat, i \in Int, m \in Nat : r[1] = k * i /\ r[2] = k * m => k = 1

LEMMA ReducedIsLowest ==
    ASSUME NEW n \in Int, NEW d \in Nat \ {0}
    PROVE  Lowest(Reduced(n, d))
<1> DEFINE a == Abs(n)
           g == Gcd[<<a, d>>]
           r == Reduced(n, d)
<1>1. a \in Nat /\ (n = a \/ n = -a)
  BY DEF Abs
<1>2. r = <<n \div g, d \div g>>
  <2>1. Abs(d) = d /\ 1 * n = n /\ 1 * d = d /\ ~ (d < 0)
    BY DEF Abs
  <2> QED  BY <2>1 DEF Reduced
<1>3. g \in CommonDivisors(a, d) /\ g # 0 /\ \A k \in CommonDivisors(a, d) : Divides(k, g)
  BY <1>1, GcdFacts, GcdIsGreatest
<1> HIDE DEF a, g, r
<1>4. g \in Nat \ {0}
  BY <1>3 DEF CommonDivisors
<1>5. PICK x \in Nat : a = g * x
  BY <1>3 DEF CommonDivisors, Divides
<1>6. PICK y \in Nat : d = g * y
  BY <1>3 DEF CommonDivisors, Divides
<1>7. PICK z \in Int : n = g * z /\ (z = x \/ z = -x)
  <2>1. g * (-x) = -(g * x) /\ -x \in Int /\ x \in Int
    BY <1>4
  <2> QED  BY <1>1, <1>5, <2>1
<1>8. r = <<z, y>>
  <2>1. n \div g = z
    BY <1>4, <1>7, Quotient
  <2>2. d \div g = y
    BY <1>4, <1>6, Quotient
  <2> QED  BY <1>2, <2>1, <2>2
<1>9. y # 0
  BY <1>4, <1>6
<1>10. ASSUME NEW k \in Nat, NEW i \in Int, NEW m \in Nat, z = k * i, y = k * m
       PROVE  k = 1
  <2>1. PICK j \in Nat : x = k * j
    <3>1. k * (-i) = -(k * i)
      OBVIOUS
    <3>2. x = k * i \/ x = k * (-i)
      BY <1>7, <1>10, <3>1
    <3>3. i \in Nat \/ -i \in Nat
      OBVIOUS
    <3>4. CASE i \in Nat
      <4>1. CASE x = k * i
        BY <3>4, <4>1
      <4>2. CASE x = k * (-i)
        <5>1. k * i \in Nat
          BY <3>4
        <5>2. x = -(k * i)
          BY <3>1, <4>2
        <5>3. k * i = x
          BY <5>1, <5>2
        <5> QED  BY <3>4, <5>3
      <4> QED  BY <3>2, <4>1, <4>2
    <3>5. CASE -i \in Nat
      <4> DEFINE l == -i
      <4>0. l \in Nat /\ k * i = -(k * l)
        BY <3>5
      <4>1. CASE x = k * (-i)
        BY <3>5, <4>1
      <4>2. CASE x = k * i
        <5> HIDE DEF l
        <5>1. k * l \in Nat
          BY <4>0
        <5>2. k * l = x
          BY <4>0, <4>2, <5>1
        <5> QED  BY <4>0, <5>2
      <4> QED  BY <3>2, <4>1, <4>2
    <3> QED  BY <3>3, <3>4, <3>5
  <2>2. (g * k) * j = a /\ (g * k) * m = d /\ g * k \in Nat
    <3>1. g * (k * j) = (g * k) * j /\ g * (k * m) = (g * k) * m
      BY <1>4
    <3> QED  BY <1>4, <1>5, <1>6, <1>10, <2>1, <3>1
  <2>3. g * k \in CommonDivisors(a, d)
    BY <2>2 DEF CommonDivisors, Divides
  <2>4. PICK l \in Nat : g = (g * k) * l
    BY <1>3, <2>3 DEF Divides
  <2>5. k * l = 1
    <3>1. g * (k * l - 1) = (g * k) * l - g /\ k * l - 1 \in Int
      BY <1>4
    <3>2. g * (k * l - 1) = 0
      BY <1>4, <2>4, <3>1
    <3>3. k * l - 1 = 0
      BY <1>4, <3>1, <3>2
    <3>4. k * l \in Int
      OBVIOUS
    <3> QED  BY <3>3, <3>4
  <2>6. k # 0
    BY <2>5
  <2>7. l # 0
    BY <2>5
  <2>8. k <= k * l
    BY <2>7
  <2> QED  BY <2>5, <2>6, <2>8
<1>11. z \in Int /\ y \in Nat \ {0}
  BY <1>7, <1>9
<1>12. Lowest(<<z, y>>)
  BY <1>10, <1>11 DEF Lowest
<1> QED  BY <1>8, <1>12 DEF r

\* Every fraction in the proportion is a multiple of the one with the least denominator.
LEMMA LeastFraction ==
    ASSUME NEW n \in Int, NEW d \in Nat \ {0}
    PROVE  \E a \in Int, b \in Nat \ {0} :
              \A x \in Int, y \in Nat \ {0} : x * d = n * y =>
                 \E k \in Nat : x = k * a /\ y = k * b
<1> DEFINE P == {y \in Nat \ {0} : \E x \in Int : x * d = n * y}
<1>1. d \in P
  OBVIOUS
<1>2. PICK b \in P : \A y \in P : b <= y
  <2>1. P \subseteq Nat /\ P # {}
    BY <1>1
  <2> HIDE DEF P
  <2> QED  BY <2>1, Least
<1>3. PICK a \in Int : a * d = n * b
  OBVIOUS
<1>4. b \in Nat \ {0}
  OBVIOUS
<1>5. ASSUME NEW x \in Int, NEW y \in Nat \ {0}, x * d = n * y
      PROVE  \E k \in Nat : x = k * a /\ y = k * b
  <2> DEFINE k == y \div b
             m == y % b
             z == x - k * a
  <2>1. k \in Nat /\ m \in Nat /\ m < b /\ y = b * k + m
    BY <1>4
  <2> HIDE DEF k, m, P
  <2>2. z \in Int
    BY <2>1
  <2>3. z * d = n * m
    <3>1. z * d = x * d - k * (a * d)
      BY <2>1
    <3>2. n * y = n * (b * k) + n * m
      BY <1>4, <2>1
    <3>3. k * (n * b) = n * (b * k)
      BY <1>4, <2>1
    <3>4. n * y \in Int /\ n * m \in Int /\ n * (b * k) \in Int
      BY <1>4, <2>1
    <3> QED  BY <1>3, <1>5, <3>1, <3>2, <3>3, <3>4
  <2> HIDE DEF z
  <2>4. m = 0
    <3> SUFFICES ASSUME m # 0 PROVE FALSE
      OBVIOUS
    <3>1. m \in P
      BY <2>1, <2>2, <2>3 DEF P
    <3> QED  BY <1>2, <1>4, <2>1, <3>1
  <2>5. z = 0
    <3>1. z * d = 0
      BY <2>3, <2>4
    <3> QED  BY <2>2, <3>1, Products
  <2>6. x = k * a
    <3>1. k * a \in Int
      BY <2>1
    <3> QED  BY <2>5, <3>1 DEF z
  <2>7. y = k * b
    BY <1>4, <2>1, <2>4
  <2> QED  BY <2>1, <2>6, <2>7
<1> HIDE DEF P
<1> QED  BY <1>4, <1>5

LEMMA LowestIsUnique ==
    ASSUME NEW r, NEW q, Lowest(r), Lowest(q), NEW n, NEW d, Worth(r, n, d), Worth(q, n, d)
    PROVE  r = q
<1>1. n \in Int /\ d \in Nat \ {0} /\ r[1] * d = n * r[2] /\ q[1] * d = n * q[2]
  BY DEF Worth
<1>2. PICK a \in Int, b \in Nat \ {0} :
         \A x \in Int, y \in Nat \ {0} : x * d = n * y => \E k \in Nat : x = k * a /\ y = k * b
  BY <1>1, LeastFraction
<1>3. ASSUME NEW p, Lowest(p), p[1] * d = n * p[2]
      PROVE  p = <<a, b>>
  <2>1. p[1] \in Int /\ p[2] \in Nat \ {0} /\ p = <<p[1], p[2]>>
    BY <1>3 DEF Lowest
  <2>2. PICK k \in Nat : p[1] = k * a /\ p[2] = k * b
    BY <1>2, <1>3, <2>1
  <2>3. b \in Nat
    OBVIOUS
  <2>4. k = 1
    BY <1>3, <2>2, <2>3 DEF Lowest
  <2>5. p[1] = a /\ p[2] = b
    BY <2>2, <2>4
  <2> QED  BY <2>1, <2>5
<1> QED  BY <1>1, <1>3

\* What sums and quotients by a positive number return is in lowest terms.
LEMMA LowestResults ==
    ASSUME NEW a \in Rationals, NEW b \in Rationals
    PROVE  Lowest(a ++ b) /\ (b[1] > 0 => Lowest(a // b))
<1>1. a[1] \in Int /\ a[2] \in Nat \ {0} /\ b[1] \in Int /\ b[2] \in Nat \ {0}
  BY RationalFacts
<1>2. a[1] + b[1] \in Int /\ a[1] * b[2] + b[1] * a[2] \in Int /\ a[2] * b[2] \in Nat \ {0}
  BY <1>1, Products
<1>3. Lowest(a ++ b)
  BY <1>1, <1>2, ReducedIsLowest DEF ++
<1>4. ASSUME b[1] > 0
      PROVE  Lowest(a // b)
  <2>1. b[1] \in Nat \ {0}
    BY <1>1, <1>4
  <2>2. a[1] * b[2] \in Int /\ a[2] * b[1] \in Nat \ {0}
    BY <1>1, <2>1, Products
  <2> QED  BY <2>2, ReducedIsLowest DEF //
<1> QED  BY <1>3, <1>4

-----------------------------------------------------------------------------
(* The mean of what was observed.                                          *)

Wholly == {Whole(x) : x \in Int}
MeanOf(g) == IF g = <<>> THEN Zero ELSE SumOf(g, DOMAIN g) // Whole(Len(g))

\* What a mean is worth.
MeanWorth(x, t, n) ==
    /\ t \in Int /\ n \in Nat
    /\ n = 0 => t = 0 /\ x = Zero
    /\ n > 0 => Worth(x, t, n) /\ Lowest(x)

LEMMA MeanIs ==
    ASSUME NEW g \in Seq(Wholly)
    PROVE  MeanWorth(MeanOf(g), Total([k \in DOMAIN g |-> g[k][1]], DOMAIN g), Len(g))
<1> DEFINE n == Len(g)
           S == DOMAIN g
           F == [k \in S |-> g[k][1]]
           s == SumOf(g, S)
<1>1. n \in Nat /\ S = 1 .. n /\ IsFiniteSet(S)
  <2>1. n \in Nat /\ S = 1 .. n
    OBVIOUS
  <2> QED  BY <2>1, FS_Interval
<1>2. \A k \in S : g[k] \in Rationals /\ F[k] \in Int /\ Worth(g[k], F[k], 1)
  <2> SUFFICES ASSUME NEW k \in S PROVE g[k] \in Rationals /\ F[k] \in Int /\ Worth(g[k], F[k], 1)
    OBVIOUS
  <2>1. g[k] \in Wholly
    OBVIOUS
  <2>2. PICK x \in Int : g[k] = Whole(x)
    BY <2>1 DEF Wholly
  <2>3. F[k] = x
    BY <2>2, Wholes
  <2> QED  BY <2>2, <2>3, Wholes, WorthItself
<1> HIDE DEF F, s
<1>3. Total(F, S) \in Int
  BY <1>1, <1>2, TotalFacts
<1>4. CASE n = 0
  <2>1. g = <<>> /\ S = {}
    BY <1>1, <1>4
  <2>2. Total(F, S) = 0
    BY <1>1, <1>2, <2>1, TotalFacts
  <2>3. MeanOf(g) = Zero
    BY <2>1 DEF MeanOf
  <2> QED  BY <1>1, <1>4, <2>2, <2>3 DEF MeanWorth, F
<1>5. CASE n > 0
  <2>1. MeanOf(g) = s // Whole(n)
    BY <1>5 DEF MeanOf, s
  <2>2. Worth(s, Total(F, S), 1)
    BY <1>1, <1>2, SumOfWorth DEF s
  <2> DEFINE t == Total(F, S)
             w == Whole(n)
             x == s // w
  <2> HIDE DEF S, n, t
  <2>3. Worth(w, n, 1) /\ w \in Rationals /\ w[1] = n
    BY <1>1, WorthItself, Wholes
  <2> HIDE DEF w
  <2>4. Worth(x, t * 1, 1 * n)
    BY <1>5, <2>2, <2>3, WorthQuotient DEF t
  <2>5. t * 1 = t /\ 1 * n = n
    BY <1>1, <1>3 DEF t
  <2>6. Lowest(x)
    BY <1>5, <2>2, <2>3, LowestResults DEF Worth
  <2>7. MeanWorth(x, t, n)
    <3>1. t \in Int
      BY <1>3 DEF t
    <3>2. Worth(x, t, n)
      BY <2>4, <2>5
    <3> QED  BY <1>1, <1>5, <2>6, <3>1, <3>2 DEF MeanWorth
  <2> QED  BY <2>1, <2>7 DEF t, F, S, n, w
<1> QED  BY <1>1, <1>4, <1>5

LEMMA MeanWorthIsOne ==
    ASSUME NEW x, NEW y, NEW t, NEW n, MeanWorth(x, t, n), MeanWorth(y, t, n)
    PROVE  x = y
<1>1. CASE n = 0
  BY <1>1 DEF MeanWorth
<1>2. CASE n > 0
  BY <1>2, LowestIsUnique DEF MeanWorth
<1> QED  BY <1>1, <1>2 DEF MeanWorth

\* The mean that is updated with a value is that of one value more.
LEMMA MeanMoves ==
    ASSUME NEW mean, NEW t, NEW n, MeanWorth(mean, t, n), NEW x \in Int
    PROVE  MeanWorth(mean ++ ((Whole(x) -- mean) // Whole(n + 1)), t + x, n + 1)
<1> DEFINE m == IF n = 0 THEN 1 ELSE n
           k == n + 1
           w == Whole(x)
           diff == w -- mean
           part == diff // Whole(k)
           sum == mean ++ part
<1>1. t \in Int /\ n \in Nat /\ m \in Nat \ {0} /\ k \in Nat \ {0} /\ k > 0 /\ (n = 0 => t = 0) /\ t + x \in Int
  BY DEF MeanWorth
<1>2. Worth(mean, t, m)
  <2>1. CASE n = 0
    BY <2>1, WorthItself DEF MeanWorth
  <2>2. CASE n # 0
    <3>1. n > 0
      BY <1>1, <2>2
    <3> QED  BY <2>2, <3>1 DEF MeanWorth
  <2> QED  BY <2>1, <2>2
<1>3. Worth(w, x, 1) /\ Worth(Whole(k), k, 1)
  <2>1. k \in Int
    BY <1>1
  <2> HIDE DEF k
  <2> QED  BY <2>1, WorthItself
<1> HIDE DEF w
<1>4. Worth(diff, x * m - t * 1, 1 * m)
  <2> HIDE DEF m
  <2> QED  BY <1>2, <1>3, WorthDifference
<1> DEFINE a == x * m - t
<1>5. a \in Int /\ x * m - t * 1 = a /\ 1 * m = m
  BY <1>1
<1>6. Worth(diff, a, m)
  BY <1>4, <1>5
<1> HIDE DEF diff, a
<1>7. Worth(part, a * 1, m * k)
  <2> HIDE DEF m, k
  <2> QED  BY <1>1, <1>3, <1>6, WorthQuotient
<1>8. a * 1 = a
  BY <1>5
<1> HIDE DEF part
<1>9. Worth(sum, t * (m * k) + a * m, m * (m * k))
  <2>1. Worth(part, a, m * k)
    BY <1>7, <1>8
  <2> DEFINE u == m * k
  <2>2. Worth(part, a, u)
    BY <2>1
  <2> HIDE DEF m, u
  <2>3. Worth(sum, t * u + a * m, m * u)
    BY <1>2, <2>2, WorthSum
  <2> QED  BY <2>3 DEF u
<1>10. (t * (m * k) + a * m) * k = (t + x) * (m * (m * k))
  <2>1. t * k + a = (t + x) * m
    <3>1. CASE n = 0
      BY <1>1, <3>1 DEF a
    <3>2. CASE n # 0
      <4>1. m = n /\ k = n + 1
        BY <3>2
      <4>2. t * (n + 1) = t * n + t
        BY <1>1
      <4>3. (t + x) * n = t * n + x * n
        BY <1>1
      <4>4. t * n \in Int /\ x * n \in Int
        BY <1>1
      <4> QED  BY <1>1, <4>1, <4>2, <4>3, <4>4 DEF a
    <3> QED  BY <3>1, <3>2
  <2> HIDE DEF m, k
  <2>2. (t * (m * k) + a * m) * k = (t * k + a) * (m * k)
    BY <1>1, <1>5
  <2>3. (t + x) * (m * (m * k)) = ((t + x) * m) * (m * k)
    BY <1>1
  <2> QED  BY <2>1, <2>2, <2>3
<1>11. Worth(sum, t + x, k)
  <2> DEFINE b == t * (m * k) + a * m
             c == m * (m * k)
             y == t + x
  <2>1. Worth(sum, b, c) /\ y \in Int /\ k \in Nat \ {0} /\ b * k = y * c
    BY <1>1, <1>9, <1>10
  <2> HIDE DEF b, c, y, k, sum
  <2>2. Worth(sum, y, k)
    BY ONLY <2>1, SameWorth
  <2> QED  BY <2>2 DEF y
<1>12. Lowest(sum)
  BY <1>2, <1>7, LowestResults DEF Worth
<1>13. k # 0 /\ k \in Nat
  BY <1>1
<1>14. MeanWorth(sum, t + x, k)
  <2> HIDE DEF sum, k
  <2> QED  BY <1>1, <1>11, <1>12, <1>13 DEF MeanWorth
<1> QED  BY <1>14 DEF sum, part, diff, w, k

LEMMA MeanAfter ==
    ASSUME NEW g \in Seq(Wholly), NEW x \in Int
    PROVE  /\ Append(g, Whole(x)) \in Seq(Wholly) /\ Len(Append(g, Whole(x))) = Len(g) + 1
           /\ Push([n |-> Len(g), mean |-> MeanOf(g)], Whole(x)).mean = MeanOf(Append(g, Whole(x)))
           /\ Push([n |-> Len(g), mean |-> MeanOf(g)], Whole(x)).n = Len(g) + 1
<1> DEFINE w == Whole(x)
           h == Append(g, w)
           n == Len(g)
           k == n + 1
           F == [i \in DOMAIN g |-> g[i][1]]
           G == [i \in DOMAIN h |-> h[i][1]]
           st == Push([n |-> n, mean |-> MeanOf(g)], w)
<1>1. w \in Wholly /\ w[1] = x
  BY Wholes DEF Wholly
<1> HIDE DEF w
<1>2. /\ h \in Seq(Wholly) /\ Len(h) = k /\ \A i \in 1 .. n : h[i] = g[i]
      /\ h[k] = w /\ n \in Nat /\ DOMAIN g = 1 .. n /\ DOMAIN h = 1 .. k
  <2>1. /\ h \in Seq(Wholly) /\ Len(h) = n + 1 /\ \A i \in 1 .. n : h[i] = g[i]
        /\ h[n + 1] = w
    BY <1>1, AppendProperties
  <2> HIDE DEF h
  <2> QED  BY <2>1
<1> HIDE DEF h
<1>3. Total(G, 1 .. k) = Total(F, 1 .. n) + x
  <2>1. IsFiniteSet(1 .. k) /\ \A i \in 1 .. k : G[i] \in Int
    <3>1. \A i \in 1 .. k : h[i] \in Wholly
      BY <1>2
    <3>2. \A y \in Wholly : y[1] \in Int
      BY Wholes DEF Wholly
    <3> QED  BY <1>2, <3>1, <3>2, FS_Interval
  <2>2. k \in 1 .. k /\ (1 .. k) \ {k} = 1 .. n /\ G[k] = x
    BY <1>1, <1>2
  <2>3. Total(G, 1 .. k) = G[k] + Total(G, (1 .. k) \ {k})
    <3> HIDE DEF G
    <3> QED  BY ONLY <2>1, <2>2, TotalFacts
  <2>4. Total(G, 1 .. n) = Total(F, 1 .. n)
    <3>1. \A i \in 1 .. n : G[i] = F[i]
      BY <1>2
    <3>2. [i \in 1 .. n |-> G[i]] = [i \in 1 .. n |-> F[i]]
      <4> HIDE DEF F, G
      <4> QED  BY <3>1
    <3> HIDE DEF F, G
    <3> QED  BY <3>2 DEF Total
  <2>5. Total(F, 1 .. n) \in Int /\ G[k] = x
    <3>1. \A i \in 1 .. n : F[i] \in Int
      <4>1. \A y \in Wholly : y[1] \in Int
        BY Wholes DEF Wholly
      <4> QED  BY <1>2, <4>1
    <3>2. IsFiniteSet(1 .. n)
      BY <1>2, FS_Interval
    <3>3. Total(F, 1 .. n) \in Int
      <4> HIDE DEF F
      <4> QED  BY ONLY <3>1, <3>2, TotalFacts
    <3> QED  BY <2>2, <3>3
  <2> DEFINE T == Total(F, 1 .. n)
  <2>6. Total(G, 1 .. k) = x + T
    <3> HIDE DEF F, G, k, n
    <3> QED  BY <2>2, <2>3, <2>4
  <2>7. x + T = T + x
    <3> HIDE DEF T
    <3> QED  BY <2>5 DEF T
  <2> HIDE DEF F, G, k, n
  <2> QED  BY <2>6, <2>7
<1>4. MeanWorth(MeanOf(g), Total(F, 1 .. n), n)
  BY <1>2, MeanIs
<1>5. MeanWorth(MeanOf(h), Total(G, 1 .. k), k)
  BY <1>2, MeanIs
<1> DEFINE t == Total(F, 1 .. n)
           sum == MeanOf(g) ++ ((w -- MeanOf(g)) // Whole(k))
<1> HIDE DEF F, G
<1>6. MeanWorth(sum, t + x, k)
  <2>1. MeanWorth(MeanOf(g), t, n)
    BY <1>4
  <2> HIDE DEF t, n
  <2> QED  BY <2>1, MeanMoves DEF w
<1>7. sum = MeanOf(h)
  <2>1. MeanWorth(MeanOf(h), t + x, k)
    BY <1>3, <1>5
  <2> HIDE DEF t, k, sum
  <2> QED  BY <1>6, <2>1, MeanWorthIsOne
<1>8. st.mean = sum /\ st.n = k
  BY DEF Push
<1> HIDE DEF sum, st
<1>9. st.mean = MeanOf(h) /\ st.n = k
  BY <1>7, <1>8
<1> QED  BY <1>2, <1>9 DEF h, w, st

-----------------------------------------------------------------------------
(* The value of an edge whose value is a mean, when a response is handled. *)

Averaged(e) == ~ desArgs.rl \/ (Degree(e[1]) = 1 /\ ~ Outsourced)

\* A response over another edge, and one over this.
Same(e, s, t) == t.edge[e].q_val = s.edge[e].q_val /\ t.qStats[eindex(e)] = s.qStats[eindex(e)]
Pushed(e, s, t, x) ==
    /\ t.qStats[eindex(e)] = Push(s.qStats[eindex(e)], x)
    /\ t.edge[e].q_val = t.qStats[eindex(e)].mean

\* A response at v, from the server it selected.
Responds(e, v, from, s, t, x) == IF e = <<v, from>> THEN Pushed(e, s, t, x) ELSE Same(e, s, t)

\* A policy of v leaves the edges of others alone.
Elsewhere(v, a, b) == DOMAIN b = Edges /\ \A e \in Edges : e[1] # v => b[e] = a[e]

LEMMA StepElsewhere ==
    ASSUME NEW v, NEW edges, NEW felt, Elsewhere(v, edges, felt), NEW values, NEW g, NEW c \in Step(v, values, felt, g)
    PROVE  Elsewhere(v, edges, c.edge)
<1>1. PICK p, i : c = Choice(values[i][1], Weigh(felt, v, values, p))
  BY DEF Step
<1>2. c.edge = Weigh(felt, v, values, p)
  BY <1>1 DEF Choice
<1>3. Elsewhere(v, edges, Weigh(felt, v, values, p))
  BY DEF Elsewhere, Weigh
<1> QED  BY <1>2, <1>3

LEMMA PolicyElsewhere ==
    ASSUME NEW edges, DOMAIN edges = Edges, NEW v, NEW values, NEW c \in m_policy(v, values, edges)
    PROVE  Elsewhere(v, edges, c.edge) /\ (Len(values) = 1 => c.edge = edges)
<1>0. Elsewhere(v, edges, edges)
  BY DEF Elsewhere
<1>1. CASE Len(values) = 1
  BY <1>0, <1>1 DEF m_policy, Choice
<1>2. ASSUME c \in EpsilonGreedy(v, values, edges)
      PROVE  Elsewhere(v, edges, c.edge)
  <2> DEFINE k == Len(values)
             w == [i \in 1 .. k |-> IF i = 1 THEN One -- desArgs.epsilon ELSE desArgs.epsilon // Whole(k - 1)]
  <2>0. c \in {Choice(values[i][1], Weigh(edges, v, s, w)) : i \in 1 .. k, s \in Sorted(values)}
    BY <1>2 DEF EpsilonGreedy
  <2> HIDE DEF w, k
  <2>1. PICK i \in 1 .. k, s \in Sorted(values) : c = Choice(values[i][1], Weigh(edges, v, s, w))
    BY <2>0
  <2>2. c.edge = Weigh(edges, v, s, w)
    BY <2>1 DEF Choice
  <2>3. Elsewhere(v, edges, Weigh(edges, v, s, w))
    BY DEF Elsewhere, Weigh
  <2> QED  BY <2>2, <2>3
<1>3. ASSUME c \in BoltzmannPolicy(v, values, edges)
      PROVE  Elsewhere(v, edges, c.edge)
  BY <1>0, <1>3 DEF BoltzmannPolicy, Choice
<1>4. ASSUME c \in WeightedPolicyLearner(v, values, edges)
      PROVE  Elsewhere(v, edges, c.edge)
  <2>1. PICK g : c \in Step(v, values, edges, g)
    BY <1>4 DEF WeightedPolicyLearner
  <2> QED  BY <1>0, <2>1, StepElsewhere
<1>5. ASSUME c \in FairActionLearner(v, values, edges)
      PROVE  Elsewhere(v, edges, c.edge)
  <2>1. PICK g : c \in Step(v, values, edges, g)
    BY <1>5 DEF FairActionLearner
  <2> QED  BY <1>0, <2>1, StepElsewhere
<1>6. ASSUME c \in GradientPolicyLearner(v, values, edges)
      PROVE  Elsewhere(v, edges, c.edge)
  <2> DEFINE felt == [e \in Edges |->
                        IF e[1] = v
                        THEN Felt(e, edges, Signal(v, values, edges, CHOOSE n \in DOMAIN values : values[n][1] = e[2]))
                        ELSE edges[e]]
             g == [n \in DOMAIN values |-> Orig(v, values, felt, n) ++ felt[<<v, values[n][1]>>].emotion]
  <2>1. c \in Step(v, values, felt, g)
    BY <1>6 DEF GradientPolicyLearner
  <2> HIDE DEF g
  <2>2. Elsewhere(v, edges, felt)
    BY DEF Elsewhere
  <2> HIDE DEF felt
  <2> QED  BY <2>1, <2>2, StepElsewhere
<1>7. \/ Len(values) = 1
      \/ Len(values) # 1 /\ c \in EpsilonGreedy(v, values, edges)
      \/ Len(values) # 1 /\ c \in BoltzmannPolicy(v, values, edges)
      \/ Len(values) # 1 /\ c \in WeightedPolicyLearner(v, values, edges)
      \/ Len(values) # 1 /\ c \in FairActionLearner(v, values, edges)
      \/ Len(values) # 1 /\ c \in GradientPolicyLearner(v, values, edges)
  BY DEF m_policy
<1> QED  BY <1>1, <1>2, <1>3, <1>4, <1>5, <1>6, <1>7

\* The only edge of a vertex.
LEMMA OnlyEdge ==
    ASSUME NEW v, Degree(v) = 1, NEW e \in Edges, e[1] = v
    PROVE  e = <<v, Targets(v)[1]>>
<1>1. PICK n \in 1 .. Degree(v) : Targets(v)[n] = e[2]
  BY TargetsFacts
<1>2. n = 1
  BY <1>1
<1> QED  BY <1>1, <1>2, EdgeFacts

LEMMA IndicesDiffer ==
    ASSUME NEW e \in Edges, NEW f \in Edges, eindex(e) = eindex(f)
    PROVE  e = f
<1>1. Network[eindex(e)] = e /\ Network[eindex(f)] = f
  BY EdgeFacts
<1> QED  BY <1>1

\* Where there is one action, and none.
LEMMA OnlyActionPushes ==
    ASSUME NEW s, StateOK(s), ValuedOK(s), NEW v, Degree(v) = 1, NEW x, NEW e \in Edges, ~ Outsourced,
           NEW from, <<v, from>> \in Edges
    PROVE  Responds(e, v, from, s, OnlyAction(s, v, x, eindex(<<v, from>>)), x)
<1> DEFINE f == <<v, from>>
           i == eindex(f)
           st == Push(s.qStats[i], x)
           r == OnlyAction(s, v, x, i)
<1>1. f \in Edges /\ f = <<v, Targets(v)[1]>>
  BY OnlyEdge
<1>2. r.edge = [s.edge EXCEPT ![f].q_val = st.mean] /\ r.qStats = [s.qStats EXCEPT ![i] = st]
  BY <1>1 DEF OnlyAction, StateOK
<1>3. /\ f \in DOMAIN s.edge /\ i \in DOMAIN s.qStats /\ e \in DOMAIN s.edge /\ eindex(e) \in DOMAIN s.qStats
      /\ DOMAIN s.edge[f] = EdgeFields
  BY <1>1, EdgeIndex DEF ValuedOK, EdgesOK, EdgeOK, StatsOK
<1> HIDE DEF r, st, f
<1>4. CASE e = f
  <2>1. r.qStats[i] = st
    BY <1>2, <1>3
  <2>2. r.edge[f].q_val = st.mean
    <3>1. r.edge[f] = [s.edge[f] EXCEPT !.q_val = st.mean] /\ "q_val" \in DOMAIN s.edge[f]
      BY <1>2, <1>3 DEF EdgeFields
    <3> QED  BY <3>1
  <2>3. Pushed(e, s, r, x)
    BY <1>4, <2>1, <2>2 DEF Pushed, st
  <2> QED  BY <1>4, <2>3 DEF r, f, Responds
<1>5. CASE e # f
  <2>1. eindex(e) # i
    BY <1>1, <1>5, IndicesDiffer
  <2>2. r.qStats[eindex(e)] = s.qStats[eindex(e)] /\ r.edge[e] = s.edge[e]
    BY <1>2, <1>3, <1>5, <2>1
  <2>3. Same(e, s, r)
    BY <2>2 DEF Same
  <2> QED  BY <1>5, <2>3 DEF r, f, Responds
<1> QED  BY <1>4, <1>5

LEMMA NoActionIsSame ==
    ASSUME NEW s, StateOK(s), NEW v, NEW e
    PROVE  Same(e, s, NoAction(s, v))
<1> DEFINE r == NoAction(s, v)
<1>1. r.edge = s.edge /\ r.qStats = s.qStats
  BY DEF NoAction, StateOK
<1> HIDE DEF r
<1>2. Same(e, s, r)
  BY <1>1 DEF Same
<1> QED  BY <1>2 DEF r

\* The default handler, for any edge.
LEMMA DefaultResponds ==
    ASSUME ~ desArgs.rl, NEW s, StateOK(s), ValuedOK(s), NEW v, NEW from,
           Degree(v) > 0 => <<v, from>> \in Edges, NEW top,
           NEW r \in DefaultResponse(s, v, from, top), NEW e \in Edges
    PROVE  Responds(e, v, from, s, r, Whole(top - now))
<1> DEFINE f == <<v, from>>
           i == eindex(f)
           x == Whole(top - now)
           st == Push(s.qStats[i], x)
<1>1. CASE Degree(v) = 0
  <2>1. r = s
    BY <1>1 DEF DefaultResponse
  <2>2. e # <<v, from>>
    <3>1. e[1] # v
      BY <1>1, TargetsFacts
    <3> QED  BY <3>1
  <2> QED  BY <2>1, <2>2 DEF Responds, Same
<1>2. CASE Degree(v) # 0
  <2>1. r = [s EXCEPT !.qStats[i] = st, !.edge[f].q_val = st.mean]
    BY <1>2 DEF DefaultResponse
  <2>2. f \in Edges
    BY <1>2, TargetsFacts
  <2>3. /\ f \in DOMAIN s.edge /\ i \in DOMAIN s.qStats /\ e \in DOMAIN s.edge /\ eindex(e) \in DOMAIN s.qStats
        /\ DOMAIN s.edge[f] = EdgeFields
    BY <2>2, EdgeIndex DEF ValuedOK, EdgesOK, EdgeOK, StatsOK, Outsourced
  <2> HIDE DEF st, f, x
  <2>4. r.edge = [s.edge EXCEPT ![f].q_val = st.mean] /\ r.qStats = [s.qStats EXCEPT ![i] = st]
    BY <2>1 DEF StateOK
  <2>5. CASE e = f
    <3>1. r.qStats[i] = st
      BY <2>3, <2>4
    <3>2. r.edge[f] = [s.edge[f] EXCEPT !.q_val = st.mean] /\ "q_val" \in DOMAIN s.edge[f]
      BY <2>3, <2>4 DEF EdgeFields
    <3>3. r.edge[f].q_val = st.mean
      BY <3>2
    <3>4. Pushed(e, s, r, x)
      BY <2>5, <3>1, <3>3 DEF Pushed, st
    <3> QED  BY <2>5, <3>4 DEF f, x, Responds
  <2>6. CASE e # f
    <3>1. eindex(e) # i
      BY <2>2, <2>6, IndicesDiffer
    <3>2. r.qStats[eindex(e)] = s.qStats[eindex(e)] /\ r.edge[e] = s.edge[e]
      BY <2>3, <2>4, <2>6, <3>1
    <3>3. Same(e, s, r)
      BY <3>2 DEF Same
    <3> QED  BY <2>6, <3>3 DEF f, Responds
  <2> QED  BY <2>5, <2>6
<1> QED  BY <1>1, <1>2

\* The handlers that learn, for the only edge of a vertex: those of others are left alone.
LEMMA RLUpdateIsSame ==
    ASSUME NEW s, StateOK(s), ValuedOK(s), NEW v, NEW from, NEW reward, NEW c, Elsewhere(v, s.edge, c.edge),
           NEW e \in Edges, e[1] # v
    PROVE  Same(e, s, RLUpdate(s, v, from, reward, c))
<1> DEFINE r == RLUpdate(s, v, from, reward, c)
           f == <<v, from>>
<1>1. PICK x : r = [s EXCEPT !.edge = [c.edge EXCEPT ![f].q_val = x], !.vertex[v].next_action = c.action]
  BY DEF RLUpdate
<1> HIDE DEF r
<1>2. r.edge = [c.edge EXCEPT ![f].q_val = x] /\ r.qStats = s.qStats
  BY <1>1 DEF StateOK
<1>3. e # f
  OBVIOUS
<1> HIDE DEF f
<1>4. r.edge[e] = c.edge[e] /\ c.edge[e] = s.edge[e]
  BY <1>2, <1>3 DEF Elsewhere
<1>5. Same(e, s, r)
  BY <1>2, <1>4 DEF Same
<1> QED  BY <1>5 DEF r

LEMMA FullUpdateIsSame ==
    ASSUME NEW s, StateOK(s), ValuedOK(s), NEW v \in Vertices, NEW from, NEW reward, NEW o,
           NEW c, Elsewhere(v, s.edge, c.edge), NEW r \in FullUpdate(s, v, from, reward, o, c),
           NEW e \in Edges, e[1] # v
    PROVE  Same(e, s, r)
<1> DEFINE oldE == <<v, from>>
           newE == <<v, c.action>>
           h == Deviated(Regretted(s, v, from, reward, o), v, reward, o)
           ready == Fed(FedAll(s.nets, Out(v)), newE)
           edges == [f \in Edges |-> [c.edge[f] EXCEPT !.total_reward = h.edge[f].total_reward]]
           after(t) == Fed([ready EXCEPT ![NetOf(oldE)] = t], oldE)
           left(t) == [edges EXCEPT ![oldE].q_val = Predicted(after(t), oldE)]
           one(t) == [h EXCEPT !.nets = after(t), !.sample = Sampled(ready, oldE),
                               !.vertex[v].next_action = c.action, !.edge = left(t)]
<1>0. FullUpdate(s, v, from, reward, o, c) = {one(t) : t \in Trained(ready, oldE, newE, reward[1])}
  BY Zenon DEF FullUpdate
<1> HIDE DEF one
<1>1. PICK t \in Trained(ready, oldE, newE, reward[1]) : r = one(t)
  BY <1>0
<1>2. StateOK(h) /\ h.qStats = s.qStats
  <2> DEFINE g == Regretted(s, v, from, reward, o)
  <2>1. StateOK(g)
    BY RegrettedOK
  <2>2. g.qStats = s.qStats
    BY DEF Regretted, StateOK
  <2> HIDE DEF g
  <2>3. h = Deviated(g, v, reward, o)
    BY DEF g
  <2> HIDE DEF h
  <2>4. StateOK(h)
    BY <2>1, <2>3, DeviatedOK
  <2>5. h.qStats = g.qStats
    BY <2>1, <2>3 DEF Deviated, StateOK
  <2> QED  BY <2>2, <2>4, <2>5
<1> HIDE DEF h, ready, after
<1>3. edges[e].q_val = s.edge[e].q_val /\ e \in DOMAIN edges
  <2>1. c.edge[e] = s.edge[e] /\ DOMAIN s.edge[e] = EdgeFields
    BY DEF Elsewhere, ValuedOK, EdgesOK, EdgeOK
  <2>2. edges[e] = [c.edge[e] EXCEPT !.total_reward = h.edge[e].total_reward] /\ e \in DOMAIN edges
    OBVIOUS
  <2> HIDE DEF edges
  <2> QED  BY <2>1, <2>2 DEF EdgeFields
<1>4. e # oldE
  OBVIOUS
<1> HIDE DEF edges, oldE
<1>5. r.edge = [edges EXCEPT ![oldE].q_val = Predicted(after(t), oldE)] /\ r.qStats = s.qStats
  BY <1>1, <1>2 DEF StateOK, one
<1>6. r.edge[e] = edges[e]
  BY <1>3, <1>4, <1>5
<1> QED  BY <1>3, <1>5, <1>6 DEF Same

LEMMA HybridUpdateIsSame ==
    ASSUME desArgs.rl, desArgs.state, desArgs.rl_hybrid, NEW s, StateOK(s), ValuedOK(s),
           NEW v \in Vertices, NEW from, <<v, from>> \in Edges, NEW reward, NEW ns,
           NEW c, Elsewhere(v, s.edge, c.edge), NEW r \in HybridUpdate(s, v, from, reward, ns, c),
           NEW e \in Edges, e[1] # v
    PROVE  Same(e, s, r)
<1> DEFINE oldE == <<v, from>>
           i == eindex(oldE)
           newE == <<v, c.action>>
           stats == IF WarmUp(s.qStats, oldE) THEN [s.qStats EXCEPT ![i] = Push(@, reward)] ELSE s.qStats
           warm == WarmUp(stats, oldE)
           ready == Fed(ns, newE)
           left(t) == [ready EXCEPT ![i] = t]
           after(t) == IF warm THEN left(t) ELSE Fed(left(t), oldE)
           q(t) == IF warm THEN stats[i].mean ELSE Predicted(after(t), oldE)
           edges(t) == [c.edge EXCEPT ![oldE].q_val = q(t)]
           one(t) == [s EXCEPT !.qStats = stats, !.nets = after(t), !.sample = Sampled(ready, oldE),
                               !.vertex[v].next_action = c.action, !.edge = edges(t)]
<1>1. HybridUpdate(s, v, from, reward, ns, c) = {one(t) : t \in Trained(ready, oldE, newE, reward[1])}
  BY Zenon DEF HybridUpdate
<1> HIDE DEF one
<1>2. PICK t \in Trained(ready, oldE, newE, reward[1]) : r = one(t)
  BY <1>1
<1>3. eindex(e) # i /\ e # oldE
  <2>1. e # oldE
    OBVIOUS
  <2> QED  BY <2>1, IndicesDiffer
<1>4. stats[eindex(e)] = s.qStats[eindex(e)]
  <2>1. eindex(e) \in DOMAIN s.qStats
    BY EdgeIndex DEF Outsourced, ValuedOK, StatsOK
  <2> HIDE DEF i
  <2> QED  BY <1>3, <2>1
<1> HIDE DEF oldE, i, stats, warm, after, edges, ready, q
<1>5. r.qStats = stats /\ r.edge = edges(t)
  BY <1>2 DEF one, StateOK
<1>6. r.edge[e] = c.edge[e] /\ c.edge[e] = s.edge[e]
  BY <1>3, <1>5 DEF edges, Elsewhere
<1> QED  BY <1>4, <1>5, <1>6 DEF Same

LEMMA RewardIsDelay ==
    ASSUME now \in Int, NEW top \in Int, top <= now
    PROVE  Reward(top) = Whole(top - now)
<1>1. CASE top < now
  <2>1. top - now < 0
    BY <1>1
  <2> QED  BY <2>1 DEF Reward
<1>2. CASE top = now
  <2>1. top - now = 0 /\ ~ (top - now < 0)
    BY <1>2
  <2> QED  BY <2>1 DEF Reward, Zero
<1> QED  BY <1>1, <1>2

\* A vertex with one edge has no other, and one with none has none.
LEMMA EdgesAway ==
    ASSUME desArgs.rl, NEW e \in Edges, Averaged(e), NEW v, NEW from
    PROVE  /\ ~ Outsourced /\ Degree(e[1]) = 1
           /\ Degree(v) # 1 => e[1] # v /\ e # <<v, from>>
<1>1. ~ Outsourced /\ Degree(e[1]) = 1
  BY DEF Averaged
<1>2. ASSUME Degree(v) # 1
      PROVE  e[1] # v
  BY <1>1, <1>2
<1> QED  BY <1>1, <1>2

LEMMA RespondedMeans ==
    ASSUME now \in Nat, desArgs \in Configs, NEW s, StateOK(s), ValuedOK(s), NEW v \in Vertices,
           NEW from, Degree(v) > 0 => <<v, from>> \in Edges, NEW top \in Int, top <= now,
           NEW r \in Responded(s, v, from, top), NEW e \in Edges, Averaged(e)
    PROVE  Responds(e, v, from, s, r, Whole(top - now))
<1> DEFINE x == Whole(top - now)
<1>0. {desArgs.rl, desArgs.state, desArgs.rl_hybrid} \subseteq BOOLEAN
  BY ConfigsAssumption
<1>1. Reward(top) = x /\ Degree(v) \in Nat /\ DOMAIN s.edge = Edges
  BY RewardIsDelay, TargetsFacts DEF ValuedOK, EdgesOK
<1>2. CASE ~ desArgs.rl
  <2>1. r \in DefaultResponse(s, v, from, top)
    BY <1>2 DEF Responded
  <2> QED  BY <1>2, <2>1, DefaultResponds
<1> HIDE DEF x
<1>3. CASE desArgs.rl
  <2>0. /\ ~ Outsourced /\ Degree(e[1]) = 1
        /\ Degree(v) # 1 => e[1] # v /\ e # <<v, from>>
    BY <1>3, EdgesAway
  <2>1. \/ ~ desArgs.state /\ r \in RLResponse(s, v, from, top)
        \/ desArgs.state /\ ~ desArgs.rl_hybrid /\ r \in FullRLResponse(s, v, from, top)
        \/ desArgs.state /\ desArgs.rl_hybrid /\ r \in HybridFullRLResponse(s, v, from, top)
    BY <1>0, <1>3 DEF Responded
  <2>2. CASE Degree(v) = 0
    <3>1. r = NoAction(s, v)
      BY <2>1, <2>2 DEF RLResponse, FullRLResponse, HybridFullRLResponse
    <3>2. Same(e, s, r)
      BY <3>1, NoActionIsSame
    <3> QED  BY <2>0, <2>2, <3>2 DEF Responds
  <2>3. CASE Degree(v) = 1
    <3> DEFINE f == <<v, from>>
    <3>1. f \in Edges /\ f = <<v, Targets(v)[1]>> /\ NetOf(f) = eindex(f)
      BY <2>0, <2>3, OnlyEdge DEF NetOf
    <3>2. r = OnlyAction(s, v, x, eindex(f))
      <4>1. \/ r \in {OnlyAction(s, v, Reward(top), eindex(<<v, from>>))}
            \/ r \in {OnlyAction(s, v, Reward(top), NetOf(<<v, Targets(v)[1]>>))}
            \/ r \in {OnlyAction(s, v, Reward(top), eindex(<<v, Targets(v)[1]>>))}
        BY <2>1, <2>3 DEF RLResponse, FullRLResponse, HybridFullRLResponse
      <4> QED  BY <1>1, <3>1, <4>1
    <3>3. Responds(e, v, from, s, OnlyAction(s, v, x, eindex(<<v, from>>)), x)
      BY <2>0, <2>3, <3>1, OnlyActionPushes
    <3> QED  BY <3>2, <3>3 DEF x
  <2>4. CASE Degree(v) > 1
    <3>0. <<v, from>> \in Edges /\ e[1] # v /\ e # <<v, from>>
      BY <1>1, <2>0, <2>4
    <3>1. CASE ~ desArgs.state /\ r \in RLResponse(s, v, from, top)
      <4> DEFINE w == [n \in 1 .. Degree(v) |-> <<Targets(v)[n], s.edge[<<v, Targets(v)[n]>>].q_val>>]
      <4>0. RLResponse(s, v, from, top) = {RLUpdate(s, v, from, Reward(top), c) : c \in m_policy(v, w, s.edge)}
        BY <2>4 DEF RLResponse
      <4> HIDE DEF w
      <4>1. \E values : \E c \in m_policy(v, values, s.edge) : r = RLUpdate(s, v, from, Reward(top), c)
        BY <3>1, <4>0
      <4>2. PICK values, c : c \in m_policy(v, values, s.edge) /\ r = RLUpdate(s, v, from, Reward(top), c)
        BY <4>1
      <4>3. Elsewhere(v, s.edge, c.edge)
        BY <1>1, <4>2, PolicyElsewhere
      <4>4. Same(e, s, r)
        BY <3>0, <4>2, <4>3, RLUpdateIsSame
      <4> QED  BY <3>0, <4>4 DEF Responds
    <3>2. CASE desArgs.state /\ ~ desArgs.rl_hybrid /\ r \in FullRLResponse(s, v, from, top)
      <4> DEFINE fed == FedAll(s.nets, Out(v))
                 w == [n \in 1 .. Degree(v) |-> <<Targets(v)[n], Predicted(fed, <<v, Targets(v)[n]>>)>>]
      <4>0. FullRLResponse(s, v, from, top)
              = UNION {UNION {FullUpdate(s, v, from, Reward(top), o, c) : c \in m_policy(v, o, s.edge)} :
                         o \in Hooked(v, w)}
        BY <2>4 DEF FullRLResponse
      <4> HIDE DEF fed, w
      <4>1. \E o : \E c \in m_policy(v, o, s.edge) : r \in FullUpdate(s, v, from, Reward(top), o, c)
        BY <3>2, <4>0
      <4>2. PICK o, c : c \in m_policy(v, o, s.edge) /\ r \in FullUpdate(s, v, from, Reward(top), o, c)
        BY <4>1
      <4>3. Elsewhere(v, s.edge, c.edge)
        BY <1>1, <4>2, PolicyElsewhere
      <4>4. Same(e, s, r)
        BY <3>0, <4>2, <4>3, FullUpdateIsSame
      <4> QED  BY <3>0, <4>4 DEF Responds
    <3>3. CASE desArgs.state /\ desArgs.rl_hybrid /\ r \in HybridFullRLResponse(s, v, from, top)
      <4> DEFINE cold == {f \in Out(v) : ~ WarmUp(s.qStats, f)}
                 ns == FedAll(s.nets, cold)
                 w == [n \in 1 .. Degree(v) |->
                         LET f == <<v, Targets(v)[n]>>
                         IN  <<f[2], IF f \in cold THEN Predicted(ns, f) ELSE s.qStats[eindex(f)].mean>>]
                 U == UNION {HybridUpdate(s, v, from, Reward(top), ns, c) : c \in m_policy(v, w, s.edge)}
                 O == {OnlyAction(s, v, Reward(top), eindex(<<v, Targets(v)[1]>>))}
                 N == {NoAction(s, v)}
      <4>5. HybridFullRLResponse(s, v, from, top)
              = CASE Degree(v) > 1 -> U [] Degree(v) = 1 -> O [] OTHER -> N
        BY Zenon DEF HybridFullRLResponse
      <4> HIDE DEF O, N
      <4>0. HybridFullRLResponse(s, v, from, top) = U
        <5> HIDE DEF U
        <5> QED  BY <1>1, <2>4, <4>5
      <4> HIDE DEF cold, ns, w
      <4>1. \E values, fed : \E c \in m_policy(v, values, s.edge) :
               r \in HybridUpdate(s, v, from, Reward(top), fed, c)
        BY <3>3, <4>0
      <4>2. PICK values, fed, c : c \in m_policy(v, values, s.edge)
                                  /\ r \in HybridUpdate(s, v, from, Reward(top), fed, c)
        BY <4>1
      <4>3. Elsewhere(v, s.edge, c.edge)
        BY <1>1, <4>2, PolicyElsewhere
      <4>4. Same(e, s, r)
        BY <1>3, <3>0, <3>3, <4>2, <4>3, HybridUpdateIsSame
      <4> QED  BY <3>0, <4>4 DEF Responds
    <3> QED  BY <2>1, <3>1, <3>2, <3>3
  <2> QED  BY <1>1, <2>2, <2>3, <2>4
<1> QED  BY <1>0, <1>2, <1>3

-----------------------------------------------------------------------------
(* The walk of a job, and what its history still tells of it.              *)

\* No set of vertices lets a job travel for ever, as of the networks that are
\* generated: NetworkEvolution, CyclesRemoved.
Acyclic == \A S \in (SUBSET Vertices) \ {{}} : \E u \in S : \A e \in Edges : e[1] = u => e[2] \notin S

\* Numbers that grow along the edges.
Ranks == {rank \in [Vertices -> Nat] : \A e \in Edges : rank[e[1]] < rank[e[2]]}

\* Numbers that fall along the edges within S, and are no more than its vertices.
Falls(S, r) ==
    /\ r \in [S -> Nat] /\ \A x \in S : r[x] <= Cardinality(S)
    /\ \A e \in Edges : e[1] \in S /\ e[2] \in S => r[e[2]] < r[e[1]]

LEMMA FallsFurther ==
    ASSUME NEW S, IsFiniteSet(S), NEW u \in S, \A e \in Edges : e[1] = u => e[2] \notin S,
           NEW r, Falls(S \ {u}, r)
    PROVE  \E q : Falls(S, q)
<1> DEFINE T == S \ {u}
           q == [x \in S |-> IF x = u THEN 0 ELSE r[x] + 1]
           n == Cardinality(S)
           m == Cardinality(T)
<1>1. n \in Nat /\ m \in Nat /\ m + 1 = n
  <2>1. n \in Nat /\ m = n - 1 /\ IsFiniteSet(T)
    BY FS_RemoveElement, FS_CardinalityType
  <2>2. m \in Nat
    BY <2>1, FS_CardinalityType
  <2> HIDE DEF n, m
  <2> QED  BY <2>1, <2>2
<1>2. /\ \A x \in T : r[x] \in Nat /\ r[x] <= m
      /\ \A e \in Edges : e[1] \in T /\ e[2] \in T => r[e[2]] < r[e[1]]
  BY DEF Falls
<1>3. \A x \in S : x = u \/ x \in T
  OBVIOUS
<1>4. DOMAIN q = S /\ q[u] = 0 /\ \A x \in T : q[x] = r[x] + 1
  OBVIOUS
<1>5. u \notin T
  OBVIOUS
<1> HIDE DEF T, n, m
<1>6. ASSUME NEW x \in S
      PROVE  q[x] \in Nat /\ q[x] <= n
  BY <1>1, <1>2, <1>3, <1>4
<1>7. ASSUME NEW e \in Edges, e[1] \in S, e[2] \in S
      PROVE  q[e[2]] < q[e[1]]
  <2>1. e[1] \in T
    BY <1>3, <1>7
  <2>2. CASE e[2] = u
    BY <1>2, <1>4, <2>1, <2>2
  <2>3. CASE e[2] # u
    <3>1. e[2] \in T
      BY <1>3, <1>7, <2>3
    <3>2. r[e[2]] < r[e[1]] /\ r[e[2]] \in Nat /\ r[e[1]] \in Nat
      BY <1>2, <2>1, <3>1
    <3> QED  BY <1>4, <2>1, <3>1, <3>2
  <2> QED  BY <2>2, <2>3
<1>8. q \in [S -> Nat]
  <2>1. q = [x \in S |-> q[x]]
    OBVIOUS
  <2> HIDE DEF q
  <2> QED  BY <1>6, <2>1
<1> HIDE DEF q
<1>9. Falls(S, q)
  BY <1>6, <1>7, <1>8 DEF Falls, n
<1> QED  BY <1>9

\* Without a cycle the vertices are in an order.
LEMMA RanksExist ==
    ASSUME Acyclic
    PROVE  Ranks # {}
<1> DEFINE Bad == {n \in Nat : \E S \in SUBSET Vertices : Cardinality(S) = n /\ ~ \E r : Falls(S, r)}
<1>1. IsFiniteSet(Vertices)
  <2> DEFINE A == {Network[n][1] : n \in DOMAIN Network}
             B == {Network[n][2] : n \in DOMAIN Network}
  <2>1. IsFiniteSet(DOMAIN Network)
    BY EdgesAreIndexed
  <2>2. IsFiniteSet(A) /\ IsFiniteSet(B)
    <3> DEFINE f == [n \in DOMAIN Network |-> Network[n][1]]
               g == [n \in DOMAIN Network |-> Network[n][2]]
    <3>1. f \in Surjection(DOMAIN Network, A) /\ g \in Surjection(DOMAIN Network, B)
      BY DEF Surjection
    <3> HIDE DEF f, g, A, B
    <3> QED  BY <2>1, <3>1, FS_Surjection
  <2>3. Vertices = A \cup B
    BY DEF Vertices
  <2> HIDE DEF A, B
  <2> QED  BY <2>2, <2>3, FS_Union
<1>2. Bad = {}
  <2> SUFFICES ASSUME Bad # {} PROVE FALSE
    OBVIOUS
  <2>1. PICK n \in Bad : \A m \in Bad : n <= m
    BY Least
  <2>2. PICK S \in SUBSET Vertices : Cardinality(S) = n /\ ~ \E r : Falls(S, r)
    OBVIOUS
  <2>3. IsFiniteSet(S) /\ n \in Nat
    BY <1>1, <2>2, FS_Subset
  <2>4. S # {}
    <3> SUFFICES ASSUME S = {} PROVE FALSE
      OBVIOUS
    <3> DEFINE r == [x \in S |-> 0]
    <3>1. r \in [S -> Nat] /\ \A x : x \notin S
      OBVIOUS
    <3> HIDE DEF r
    <3>2. Falls(S, r)
      BY <3>1 DEF Falls
    <3> QED  BY <2>2, <3>2
  <2>5. PICK u \in S : \A e \in Edges : e[1] = u => e[2] \notin S
    BY <2>4 DEF Acyclic
  <2> DEFINE T == S \ {u}
  <2>6. ~ \E r : Falls(T, r)
    BY <2>2, <2>3, <2>5, FallsFurther
  <2>7. Cardinality(T) = n - 1 /\ Cardinality(T) \in Nat /\ T \in SUBSET Vertices
    BY <2>2, <2>3, FS_RemoveElement, FS_CardinalityType
  <2> HIDE DEF T
  <2>8. n - 1 \in Bad
    BY <2>6, <2>7
  <2> QED  BY <2>1, <2>3, <2>8
<1> DEFINE n == Cardinality(Vertices)
<1>3. n \in Nat
  BY <1>1, FS_CardinalityType
<1>4. PICK r : Falls(Vertices, r)
  BY <1>2, <1>3
<1> DEFINE rank == [v \in Vertices |-> n - r[v]]
<1>5. \A v \in Vertices : r[v] \in Nat /\ r[v] <= n
  BY <1>4 DEF Falls
<1> HIDE DEF n
<1>6. rank \in [Vertices -> Nat]
  <2>1. \A v \in Vertices : n - r[v] \in Nat
    BY <1>3, <1>5
  <2> QED  BY <2>1
<1>7. ASSUME NEW e \in Edges
      PROVE  rank[e[1]] < rank[e[2]]
  <2>1. e[1] \in Vertices /\ e[2] \in Vertices
    BY EdgeFacts
  <2>2. r[e[2]] < r[e[1]] /\ rank[e[1]] = n - r[e[1]] /\ rank[e[2]] = n - r[e[2]]
    BY <1>4, <2>1 DEF Falls
  <2> HIDE DEF rank
  <2> QED  BY <1>3, <1>5, <2>1, <2>2
<1> HIDE DEF rank
<1>8. rank \in Ranks
  BY <1>6, <1>7 DEF Ranks
<1> QED  BY <1>8

\* A walk, until now, that comes to no vertex twice.
TrailOK(rank, t, time) ==
    /\ t \in Seq(Vertices \X Nat)
    /\ \A n \in DOMAIN t : t[n][2] <= time
    /\ \A n, m \in DOMAIN t : n < m => rank[t[n][1]] < rank[t[m][1]]

\* The history of a job at v: what it tells of its walk up to there.
OnTrail(h, t, v) ==
    /\ h \in Seq(Int \X Int)
    /\ Len(h) \in DOMAIN t /\ t[Len(h)][1] = v
    /\ \A n \in 1 .. Len(h) : h[n][2] = t[n][2]
    /\ \A n \in 2 .. Len(h) : h[n][1] = t[n - 1][1]

\* When the job was at the server before w.
Timed(t, w, top) == \E n \in 2 .. Len(t) : t[n][1] = w /\ t[n - 1][2] = top

Waits(b, v) == OnTrail(b.history, b.trail, v) /\ Len(b.history) = Len(b.trail)
Returns(b, a) ==
    /\ a.type = "ACK_EVENT" => OnTrail(b.history, b.trail, a.at)
    /\ a.at # a.from => Timed(b.trail, a.from, a.top)

TrailsOK(rank) ==
    /\ \A j \in Jobs : TrailOK(rank, job[j].trail, now)
    /\ \A v \in Vertices : \A i \in DOMAIN line[v] : Waits(job[line[v][i]], v)
    /\ \A i \in DOMAIN acks : Returns(job[acks[i].job], acks[i])

LEMMA TrailOn ==
    ASSUME NEW rank \in Ranks, NEW time \in Nat, NEW h, NEW t, NEW v, TrailOK(rank, t, time),
           OnTrail(h, t, v), Len(h) = Len(t), NEW w, <<v, w>> \in Edges
    PROVE  LET g == Append(h, <<v, time>>)
               u == Append(t, <<w, time>>)
           IN  TrailOK(rank, u, time) /\ OnTrail(g, u, w) /\ Len(g) = Len(u)
<1> DEFINE g == Append(h, <<v, time>>)
           u == Append(t, <<w, time>>)
           n == Len(t)
<1>1. v \in Vertices /\ w \in Vertices /\ rank[v] < rank[w] /\ v \in Int
  <2> DEFINE e == <<v, w>>
  <2>1. e[1] = v /\ e[2] = w /\ e \in Edges
    OBVIOUS
  <2> HIDE DEF e
  <2>2. e[1] \in Vertices /\ e[2] \in Vertices /\ e[1] \in Nat
    BY <2>1, EdgeFacts
  <2>3. rank[e[1]] < rank[e[2]]
    BY <2>1 DEF Ranks
  <2> QED  BY <2>1, <2>2, <2>3
<1>2. /\ t \in Seq(Vertices \X Nat) /\ n \in Nat \ {0} /\ DOMAIN t = 1 .. n /\ n \in 1 .. n
      /\ h \in Seq(Int \X Int) /\ Len(h) = n /\ t[n][1] = v
      /\ \A k \in 1 .. n : h[k][2] = t[k][2] /\ t[k][2] <= time /\ t[k][1] \in Vertices
      /\ \A k \in 2 .. n : h[k][1] = t[k - 1][1]
      /\ \A k, m \in 1 .. n : k < m => rank[t[k][1]] < rank[t[m][1]]
  <2>1. t \in Seq(Vertices \X Nat) /\ Len(h) \in DOMAIN t /\ DOMAIN t = 1 .. n /\ n \in Nat
    BY DEF OnTrail, TrailOK
  <2>2. n \in 1 .. n /\ n # 0
    BY <2>1
  <2> HIDE DEF n
  <2>3. \A k \in 1 .. n : t[k][1] \in Vertices
    BY <2>1
  <2> QED  BY <2>1, <2>2, <2>3 DEF OnTrail, TrailOK, n
<1>3. /\ u \in Seq(Vertices \X Nat) /\ Len(u) = n + 1 /\ u[n + 1] = <<w, time>>
      /\ \A k \in 1 .. n : u[k] = t[k]
  <2>1. <<w, time>> \in Vertices \X Nat
    BY <1>1
  <2> QED  BY <1>2, <2>1, AppendProperties
<1>4. /\ g \in Seq(Int \X Int) /\ Len(g) = n + 1 /\ g[n + 1] = <<v, time>>
      /\ \A k \in 1 .. n : g[k] = h[k]
  <2>1. <<v, time>> \in Int \X Int
    BY <1>1
  <2> QED  BY <1>2, <2>1, AppendProperties
<1> HIDE DEF g, u, n
<1>5. DOMAIN u = 1 .. n + 1 /\ n + 1 \in 1 .. n + 1 /\ n + 1 - 1 = n
  BY <1>2, <1>3
<1>6. TrailOK(rank, u, time)
  <2>1. ASSUME NEW k \in 1 .. n + 1
        PROVE  u[k][2] <= time
    <3>1. CASE k = n + 1
      BY <1>3, <3>1
    <3>2. CASE k # n + 1
      <4>1. k \in 1 .. n
        BY <1>2, <3>2
      <4> QED  BY <1>2, <1>3, <4>1
    <3> QED  BY <3>1, <3>2
  <2>2. ASSUME NEW k \in 1 .. n + 1, NEW m \in 1 .. n + 1, k < m
        PROVE  rank[u[k][1]] < rank[u[m][1]]
    <3>1. k \in 1 .. n /\ u[k] = t[k]
      BY <1>2, <1>3, <2>2
    <3>2. CASE m = n + 1
      <4>1. u[m][1] = w
        BY <1>3, <3>2
      <4>2. CASE k = n
        BY <1>1, <1>2, <3>1, <4>1, <4>2
      <4>3. CASE k # n
        <5>1. k < n
          BY <1>2, <3>1, <4>3
        <5>2. rank[t[k][1]] < rank[v]
          BY <1>2, <3>1, <5>1
        <5>3. rank[t[k][1]] \in Nat /\ rank[v] \in Nat /\ rank[w] \in Nat
          BY <1>1, <1>2, <3>1 DEF Ranks
        <5> QED  BY <1>1, <3>1, <4>1, <5>2, <5>3
      <4> QED  BY <4>2, <4>3
    <3>3. CASE m # n + 1
      <4>1. m \in 1 .. n /\ u[m] = t[m]
        BY <1>2, <1>3, <3>3
      <4> QED  BY <1>2, <2>2, <3>1, <4>1
    <3> QED  BY <3>2, <3>3
  <2> QED  BY <1>3, <1>5, <2>1, <2>2 DEF TrailOK
<1>7. OnTrail(g, u, w)
  <2>1. ASSUME NEW k \in 1 .. n + 1
        PROVE  g[k][2] = u[k][2]
    <3>1. CASE k = n + 1
      BY <1>3, <1>4, <3>1
    <3>2. CASE k # n + 1
      <4>1. k \in 1 .. n
        BY <1>2, <3>2
      <4> QED  BY <1>2, <1>3, <1>4, <4>1
    <3> QED  BY <3>1, <3>2
  <2>2. ASSUME NEW k \in 2 .. n + 1
        PROVE  g[k][1] = u[k - 1][1]
    <3>1. CASE k = n + 1
      <4>1. k - 1 = n /\ u[n] = t[n]
        BY <1>2, <1>3, <3>1
      <4> QED  BY <1>2, <1>4, <3>1, <4>1
    <3>2. CASE k # n + 1
      <4>1. k \in 2 .. n /\ k \in 1 .. n /\ k - 1 \in 1 .. n
        BY <1>2, <3>2
      <4> QED  BY <1>2, <1>3, <1>4, <4>1
    <3> QED  BY <3>1, <3>2
  <2>3. Len(g) \in DOMAIN u /\ u[Len(g)][1] = w
    BY <1>3, <1>4, <1>5
  <2> QED  BY <1>4, <2>1, <2>2, <2>3 DEF OnTrail
<1>8. Len(g) = Len(u)
  BY <1>3, <1>4
<1> QED  BY <1>6, <1>7, <1>8 DEF g, u

LEMMA FrontFacts ==
    ASSUME NEW h \in Seq(Int \X Int), h # <<>>
    PROVE  /\ Len(h) \in Nat \ {0}
           /\ Front(h) \in Seq(Int \X Int) /\ Len(Front(h)) = Len(h) - 1
           /\ \A k \in 1 .. Len(h) - 1 : Front(h)[k] = h[k]
<1> DEFINE n == Len(h)
           m == n - 1
           g == SubSeq(h, 1, m)
<1>1. n \in Nat \ {0} /\ DOMAIN h = 1 .. n
  BY EmptySeq
<1>2. m \in Int /\ m >= 0 /\ \A k \in 1 .. m : h[k] \in Int \X Int
  BY <1>1
<1> HIDE DEF n, m
<1>3. /\ g \in Seq(Int \X Int) /\ Len(g) = IF 1 <= m THEN m - 1 + 1 ELSE 0
      /\ \A k \in 1 .. m - 1 + 1 : g[k] = h[1 + k - 1]
  BY <1>2, SubSeqProperties
<1> HIDE DEF g
<1>4. m - 1 + 1 = m /\ (~ (1 <= m) => m = 0) /\ \A k \in 1 .. m : 1 + k - 1 = k
  BY <1>2
<1>5. Len(g) = m /\ \A k \in 1 .. m : g[k] = h[k]
  BY <1>3, <1>4
<1>6. Front(h) = g
  BY DEF Front, g, m, n
<1> QED  BY <1>1, <1>3, <1>5, <1>6 DEF n, m

\* An acknowledgement goes back one step.
LEMMA TrailBack ==
    ASSUME NEW h, NEW t, NEW v, WalkOK(h, v), OnTrail(h, t, v), t \in Seq(Vertices \X Nat),
           Last(h)[1] # EXTERNAL_EVENT
    PROVE  OnTrail(Front(h), t, Last(h)[1]) /\ Timed(t, v, Last(Front(h))[2])
<1> DEFINE n == Len(h)
           g == Front(h)
<1>1. /\ h \in Seq(Int \X Int) /\ h # <<>> /\ h[1][1] = EXTERNAL_EVENT /\ Last(h) = h[n]
      /\ n \in DOMAIN t /\ t[n][1] = v /\ DOMAIN t = 1 .. Len(t) /\ Len(t) \in Nat
      /\ \A k \in 1 .. n : h[k][2] = t[k][2]
      /\ \A k \in 2 .. n : h[k][1] = t[k - 1][1]
  BY DEF WalkOK, OnTrail, Last
<1>2. n \in Nat \ {0} /\ g \in Seq(Int \X Int) /\ Len(g) = n - 1 /\ \A k \in 1 .. n - 1 : g[k] = h[k]
  BY <1>1, FrontFacts
<1> HIDE DEF n, g
<1>3. n # 1
  BY <1>1
<1>4. n \in 2 .. n /\ n - 1 \in 1 .. n - 1 /\ n - 1 \in DOMAIN t /\ n \in 2 .. Len(t) /\ n - 1 \in 1 .. n
  <2>1. n \in Nat /\ n >= 2 /\ n <= Len(t)
    BY <1>1, <1>2, <1>3
  <2>2. n \in 2 .. n /\ n \in 2 .. Len(t)
    BY <1>1, <2>1
  <2>3. n - 1 \in 1 .. n - 1 /\ n - 1 \in 1 .. n
    BY <2>1
  <2>4. n - 1 \in 1 .. Len(t)
    <3> DEFINE m == Len(t)
    <3>1. m \in Nat /\ n <= m
      BY <1>1, <2>1
    <3> HIDE DEF m
    <3>2. n - 1 \in 1 .. m
      BY <2>1, <3>1
    <3> QED  BY <3>2 DEF m
  <2> QED  BY <1>1, <2>2, <2>3, <2>4
<1>5. Last(g) = h[n - 1]
  BY <1>2, <1>4 DEF Last
<1>6. Timed(t, v, Last(g)[2])
  <2>1. t[n - 1][2] = Last(g)[2]
    BY <1>1, <1>4, <1>5
  <2> QED  BY <1>1, <1>4, <2>1 DEF Timed
<1>7. OnTrail(g, t, h[n][1])
  <2>1. t[n - 1][1] = h[n][1]
    BY <1>1, <1>4
  <2>2. \A k \in 1 .. n - 1 : g[k][2] = t[k][2]
    <3>1. \A k \in 1 .. n - 1 : k \in 1 .. n
      BY <1>2
    <3> QED  BY <1>1, <1>2, <3>1
  <2>3. \A k \in 2 .. n - 1 : g[k][1] = t[k - 1][1]
    <3>1. \A k \in 2 .. n - 1 : k \in 2 .. n /\ k \in 1 .. n - 1
      BY <1>2
    <3> QED  BY <1>1, <1>2, <3>1
  <2> QED  BY <1>2, <1>4, <2>1, <2>2, <2>3 DEF OnTrail
<1> QED  BY <1>1, <1>6, <1>7 DEF g

\* The walk tells when the job was at the server before w, and how long that is ago.
LEMMA DelayIs ==
    ASSUME NEW rank \in Ranks, now \in Nat, NEW j, TrailOK(rank, job[j].trail, now),
           NEW w, NEW top, Timed(job[j].trail, w, top)
    PROVE  Delay(j, w) = now - top /\ top \in Nat /\ top <= now
<1> DEFINE t == job[j].trail
           c == CHOOSE n \in DOMAIN t : t[n][1] = w
<1>1. t \in Seq(Vertices \X Nat) /\ DOMAIN t = 1 .. Len(t) /\ Len(t) \in Nat
  BY DEF TrailOK
<1>2. PICK n \in 2 .. Len(t) : t[n][1] = w /\ t[n - 1][2] = top
  BY DEF Timed
<1>3. Delay(j, w) = now - t[c - 1][2]
  BY DEF Delay
<1>4. \A k, m \in DOMAIN t : k < m => rank[t[k][1]] < rank[t[m][1]]
  BY DEF TrailOK
<1>5. \A k \in DOMAIN t : t[k][2] <= now
  BY DEF TrailOK
<1> HIDE DEF t
<1>6. n \in DOMAIN t /\ n - 1 \in DOMAIN t
  BY <1>1, <1>2
<1>7. c \in DOMAIN t /\ t[c][1] = w
  BY <1>2, <1>6
<1> HIDE DEF c
<1>8. rank[w] \in Nat
  <2>1. w \in Vertices
    <3>1. t[n] \in Vertices \X Nat
      BY <1>1, <1>6
    <3> QED  BY <1>2, <3>1
  <2> QED  BY <2>1 DEF Ranks
<1>9. c = n
  <2>1. ~ (c < n) /\ ~ (n < c)
    BY <1>2, <1>4, <1>6, <1>7, <1>8
  <2>2. c \in Nat /\ n \in Nat
    BY <1>1, <1>2, <1>7
  <2> QED  BY <2>1, <2>2
<1>10. top \in Nat /\ top <= now
  <2>1. t[n - 1] \in Vertices \X Nat
    BY <1>1, <1>6
  <2> QED  BY <1>2, <1>5, <1>6, <2>1
<1> QED  BY <1>2, <1>3, <1>9, <1>10

\* What an acknowledgement that follows tells of the walk.
FollowsOn(b, a, h) ==
    /\ a.type = "ACK_EVENT" /\ Last(h)[1] # EXTERNAL_EVENT
    /\ b.job = a.job /\ b.from = a.at /\ b.top = Last(Front(h))[2]
    /\ b.type = "ACK_EVENT" => b.at = Last(h)[1]

LEMMA ForwardedTimes ==
    ASSUME NEW a, NEW h, NEW i \in DOMAIN Forwarded(a, h)
    PROVE  FollowsOn(Forwarded(a, h)[i], a, h)
<1> DEFINE to == Last(h)[1]
           top == Last(Front(h))[2]
           ack(type, at) == [type |-> type, job |-> a.job, from |-> a.at, at |-> at, top |-> top]
           I == {n \in DOMAIN Network : Network[n][2] = a.at /\ Network[n][1] # to}
           others == Listed(I)
           rest == IF desArgs.rl_ci THEN [n \in DOMAIN others |-> ack("ACK_1HOP_EVENT", others[n][1])] ELSE <<>>
           first == ack("ACK_EVENT", to)
           f == Forwarded(a, h)
<1>1. f = IF a.type # "ACK_EVENT" \/ to = EXTERNAL_EVENT THEN <<>> ELSE <<first>> \o rest
  BY DEF Forwarded
<1>2. i \in DOMAIN f
  OBVIOUS
<1> HIDE DEF f
<1>3. a.type = "ACK_EVENT" /\ to # EXTERNAL_EVENT /\ f = <<first>> \o rest
  <2> HIDE DEF to, first, rest
  <2>1. CASE a.type # "ACK_EVENT" \/ to = EXTERNAL_EVENT
    <3>1. f = <<>>
      BY <1>1, <2>1
    <3> QED  BY <1>2, <3>1
  <2>2. CASE ~ (a.type # "ACK_EVENT" \/ to = EXTERNAL_EVENT)
    BY <1>1, <2>2
  <2> QED  BY <2>1, <2>2
<1>4. FollowsOn(first, a, h)
  BY <1>3 DEF FollowsOn
<1>5. Len(rest) \in Nat /\ \A n \in 1 .. Len(rest) : FollowsOn(rest[n], a, h)
  <2>1. CASE desArgs.rl_ci
    <3>1. rest = [n \in DOMAIN others |-> ack("ACK_1HOP_EVENT", others[n][1])]
      BY <2>1
    <3>2. DOMAIN others = 1 .. Cardinality(I) /\ Cardinality(I) \in Nat
      <4>1. I \in SUBSET DOMAIN Network
        OBVIOUS
      <4> HIDE DEF I
      <4> QED  BY <4>1, ListedFacts
    <3>3. \A x : FollowsOn(ack("ACK_1HOP_EVENT", x), a, h)
      BY <1>3 DEF FollowsOn
    <3> HIDE DEF I, others, rest, ack
    <3> QED  BY <3>1, <3>2, <3>3
  <2>2. CASE ~ desArgs.rl_ci
    <3>1. rest = <<>>
      BY <2>2
    <3> HIDE DEF rest
    <3> QED  BY <3>1
  <2> QED  BY <2>1, <2>2
<1> HIDE DEF first, rest, to
<1>6. i \in 1 .. Len(rest) + 1 /\ f[i] = IF i = 1 THEN first ELSE rest[i - 1]
  BY <1>2, <1>3, <1>5
<1>7. CASE i = 1
  BY <1>4, <1>6, <1>7 DEF f
<1>8. CASE i # 1
  <2>1. i - 1 \in 1 .. Len(rest)
    BY <1>5, <1>6, <1>8
  <2> QED  BY <1>5, <1>6, <1>8, <2>1 DEF f
<1> QED  BY <1>7, <1>8

\* One that waited behind the acknowledgement a.
Remains(b, a) ==
    /\ b \in AckRecords /\ \E k \in DOMAIN acks : b = acks[k]
    /\ b.type = "ACK_EVENT" => a.type # "ACK_EVENT"

\* An acknowledgement that is handled, and those that are left.
Acked(a) ==
    /\ a = Head(acks) /\ a \in AckRecords /\ AckedOver(a) /\ \E k \in DOMAIN acks : a = acks[k]
    /\ a.type = "ACK_EVENT" => Follows(a) /\ job'[a.job].history = Front(job[a.job].history)
    /\ UNCHANGED <<desArgs, now, line>>
    /\ Jobs' = Jobs
    /\ \A j \in Jobs : job'[j].trail = job[j].trail
    /\ \A j \in Jobs : j # a.job \/ a.type # "ACK_EVENT" => job'[j] = job[j]
    /\ \A i \in DOMAIN acks' :
          Remains(acks'[i], a) \/ FollowsOn(acks'[i], a, job[a.job].history)

LEMMA AckFacts ==
    ASSUME LInv, Ack
    PROVE  Acked(Head(acks))
<1> DEFINE a == Head(acks)
           h == job[a.job].history
           f == Forwarded(a, h)
           t == Tail(acks)
           n == Len(acks) - 1
<1>1. /\ acks \in Seq(AckRecords) /\ a = acks[1] /\ a \in AckRecords /\ 1 \in DOMAIN acks
      /\ DOMAIN acks = 1 .. Len(acks) /\ n \in Nat /\ Len(acks) = n + 1
      /\ t \in Seq(AckRecords) /\ Len(t) = n /\ \A i \in 1 .. n : t[i] = acks[i + 1]
  <2>1. acks \in Seq(AckRecords) /\ acks # <<>>
    BY DEF Ack, LInv, AcksOK
  <2>2. /\ a = acks[1] /\ a \in AckRecords /\ Len(acks) \in Nat \ {0} /\ DOMAIN acks = 1 .. Len(acks)
        /\ t \in Seq(AckRecords) /\ Len(t) = Len(acks) - 1 /\ \A i \in 1 .. Len(acks) - 1 : t[i] = acks[i + 1]
    BY <2>1, EmptySeq, HeadTailProperties
  <2> HIDE DEF a, t
  <2> QED  BY <2>1, <2>2
<1>2. /\ AckedOver(a) /\ (a.type = "ACK_EVENT" => Follows(a)) /\ a.job \in Jobs
      /\ \A k \in DOMAIN acks : acks[k].type = "ACK_EVENT" /\ a.type = "ACK_EVENT" => k = 1
  <2> HIDE DEF a
  <2> QED  BY <1>1 DEF LInv, AcksOK, AckRecords
<1>3. /\ acks' = t \o f
      /\ job' = IF a.type = "ACK_EVENT" THEN [job EXCEPT ![a.job].history = Front(h)] ELSE job
      /\ UNCHANGED <<desArgs, now, line>>
  BY DEF Ack
<1> HIDE DEF a, h, f, t, n
<1>4. f \in Seq(AckRecords)
  <2>1. a.type = "ACK_EVENT" => WalkOK(h, a.at)
    BY <1>2 DEF Follows, h
  <2> QED  BY <1>1, <2>1, ForwardedFacts DEF f
<1>5. /\ Jobs' = Jobs
      /\ \A j \in Jobs : job'[j].trail = job[j].trail
      /\ \A j \in Jobs : j # a.job \/ a.type # "ACK_EVENT" => job'[j] = job[j]
      /\ a.type = "ACK_EVENT" => job'[a.job].history = Front(h)
  <2>1. \A j \in Jobs : DOMAIN job[j] = {"history", "trail"}
    BY DEF LInv, JobsOK
  <2>2. DOMAIN job' = DOMAIN job
    BY <1>3
  <2>3. Jobs' = Jobs
    BY <2>2 DEF Jobs
  <2>4. CASE a.type = "ACK_EVENT"
    <3>1. job' = [job EXCEPT ![a.job].history = Front(h)]
      BY <1>3, <2>4
    <3>2. a.job \in DOMAIN job /\ DOMAIN job[a.job] = {"history", "trail"}
      BY <1>2, <2>1 DEF Jobs
    <3>3. job'[a.job].history = Front(h) /\ job'[a.job].trail = job[a.job].trail
      BY <3>1, <3>2
    <3>4. \A j \in Jobs : j # a.job => job'[j] = job[j]
      BY <3>1 DEF Jobs
    <3> QED  BY <2>3, <2>4, <3>3, <3>4
  <2>5. CASE a.type # "ACK_EVENT"
    BY <1>3, <2>3, <2>5
  <2> QED  BY <2>4, <2>5
<1>6. ASSUME NEW i \in DOMAIN acks'
      PROVE  Remains(acks'[i], a) \/ FollowsOn(acks'[i], a, h)
  <2>1. /\ t \o f \in Seq(AckRecords) /\ Len(t \o f) = Len(t) + Len(f)
        /\ \A k \in 1 .. Len(t) + Len(f) : (t \o f)[k] = IF k <= Len(t) THEN t[k] ELSE f[k - Len(t)]
    BY <1>1, <1>4, ConcatProperties
  <2> DEFINE m == Len(f)
  <2>2. m \in Nat /\ DOMAIN f = 1 .. m
    BY <1>4
  <2>3. i \in 1 .. n + m /\ acks'[i] = IF i <= n THEN t[i] ELSE f[i - n]
    <3>1. Len(t \o f) = n + m /\ \A k \in 1 .. n + m : (t \o f)[k] = IF k <= n THEN t[k] ELSE f[k - n]
      BY <1>1, <2>1
    <3> HIDE DEF m
    <3>2. DOMAIN (t \o f) = 1 .. n + m
      BY <2>1, <3>1
    <3> QED  BY <1>3, <3>1, <3>2
  <2> HIDE DEF m
  <2>4. CASE i <= n
    <3>1. i \in 1 .. n /\ i + 1 \in 1 .. n + 1 /\ i + 1 # 1
      BY <1>1, <2>2, <2>3, <2>4
    <3>2. acks'[i] = acks[i + 1] /\ i + 1 \in DOMAIN acks
      BY <1>1, <2>3, <2>4, <3>1
    <3>3. acks[i + 1] \in AckRecords /\ (acks[i + 1].type = "ACK_EVENT" => a.type # "ACK_EVENT")
      BY <1>1, <1>2, <3>1, <3>2
    <3> QED  BY <3>2, <3>3 DEF Remains
  <2>5. CASE ~ (i <= n)
    <3>1. i - n \in 1 .. m /\ acks'[i] = f[i - n]
      BY <1>1, <2>2, <2>3, <2>5
    <3>2. i - n \in DOMAIN Forwarded(a, h) /\ acks'[i] = Forwarded(a, h)[i - n]
      BY <2>2, <3>1 DEF f
    <3>3. FollowsOn(Forwarded(a, h)[i - n], a, h)
      BY ONLY <3>2, ForwardedTimes
    <3> QED  BY <3>2, <3>3
  <2> QED  BY <2>4, <2>5
<1>7. Acked(a)
  <2>1. \E k \in DOMAIN acks : a = acks[k]
    BY <1>1
  <2>2. a = Head(acks)
    BY DEF a
  <2> QED  BY <1>1, <1>2, <1>3, <1>5, <1>6, <2>1, <2>2 DEF Acked, h
<1> QED  BY <1>7 DEF a

-----------------------------------------------------------------------------
(* What the walks tell, after every step.                                  *)

LEMMA InitTrails ==
    ASSUME NEW rank, Init
    PROVE  TrailsOK(rank)
<1>1. Jobs = {} /\ DOMAIN acks = {} /\ \A v \in Vertices : DOMAIN line[v] = {}
  <2>1. job = <<>> /\ acks = <<>> /\ \A v \in Vertices : line[v] = <<>>
    BY DEF Init
  <2>2. DOMAIN job = {}
    BY <2>1
  <2> QED  BY <2>1, <2>2 DEF Jobs
<1> QED  BY <1>1 DEF TrailsOK

LEMMA LaterTrails ==
    ASSUME NEW rank, TrailsOK(rank), now \in Nat, now' \in Nat, now <= now', UNCHANGED <<line, job, acks>>
    PROVE  TrailsOK(rank)'
<1>1. Jobs' = Jobs
  BY DEF Jobs
<1>2. ASSUME NEW j \in Jobs
      PROVE  TrailOK(rank, job[j].trail, now')
  <2> DEFINE t == job[j].trail
  <2>1. TrailOK(rank, t, now)
    BY DEF TrailsOK
  <2> HIDE DEF t
  <2>2. ASSUME NEW n \in DOMAIN t
        PROVE  t[n][2] <= now'
    <3>1. t[n][2] \in Nat /\ t[n][2] <= now
      <4>1. t \in Seq(Vertices \X Nat)
        BY <2>1 DEF TrailOK
      <4>2. t[n] \in Vertices \X Nat
        BY <4>1
      <4> QED  BY <2>1, <4>2 DEF TrailOK
    <3> QED  BY <3>1
  <2> QED  BY <2>1, <2>2 DEF TrailOK, t
<1> QED  BY <1>1, <1>2 DEF TrailsOK

LEMMA EnterTrails ==
    ASSUME NEW rank, TrailsOK(rank), LInv, NEW v, NEW j, Entered(v, j)
    PROVE  TrailsOK(rank)'
<1> DEFINE b == job'[j]
           t == b.trail
           h == b.history
<1>1. /\ now \in Nat /\ now' = now /\ v \in Vertices /\ acks' = <<>> /\ Jobs' = Jobs \cup {j}
      /\ \A k \in Jobs : job'[k] = job[k]
      /\ t = <<<<v, now>>>> /\ h = <<<<EXTERNAL_EVENT, now>>>>
      /\ \A u \in Vertices : \A i \in DOMAIN line'[u] :
            \/ u = v /\ line'[u][i] = j
            \/ i \in DOMAIN line[u] /\ line'[u][i] = line[u][i] /\ line[u][i] \in Jobs
  BY DEF LInv, Entered
<1> HIDE DEF b, t, h
<1>2. /\ t \in Seq(Vertices \X Nat) /\ Len(t) = 1 /\ DOMAIN t = {1} /\ t[1][1] = v /\ t[1][2] = now
      /\ h \in Seq(Int \X Int) /\ Len(h) = 1 /\ h[1][2] = now
  <2>1. <<v, now>> \in Vertices \X Nat /\ <<EXTERNAL_EVENT, now>> \in Int \X Int
    BY <1>1 DEF EXTERNAL_EVENT
  <2> DEFINE x == <<v, now>>
             y == <<EXTERNAL_EVENT, now>>
  <2>2. x[1] = v /\ x[2] = now /\ y[2] = now
    OBVIOUS
  <2> HIDE DEF x, y
  <2>3. t = <<x>> /\ h = <<y>> /\ x \in Vertices \X Nat /\ y \in Int \X Int
    BY <1>1, <2>1 DEF x, y
  <2>4. t \in Seq(Vertices \X Nat) /\ Len(t) = 1 /\ DOMAIN t = {1} /\ t[1] = x
    BY <2>3
  <2>5. h \in Seq(Int \X Int) /\ Len(h) = 1 /\ h[1] = y
    BY <2>3
  <2> QED  BY <2>2, <2>4, <2>5
<1>3. TrailOK(rank, t, now)
  BY <1>1, <1>2 DEF TrailOK
<1>4. Waits(b, v)
  <2>1. OnTrail(h, t, v)
    <3>1. \A n \in 1 .. 1 : n = 1
      OBVIOUS
    <3>2. \A n \in 2 .. 1 : FALSE
      OBVIOUS
    <3> QED  BY <1>2, <3>1, <3>2 DEF OnTrail
  <2> QED  BY <1>2, <2>1 DEF Waits, h, t
<1>5. \A k \in Jobs' : TrailOK(rank, job'[k].trail, now')
  BY <1>1, <1>3 DEF TrailsOK, t, b
<1>6. \A u \in Vertices : \A i \in DOMAIN line'[u] : Waits(job'[line'[u][i]], u)
  BY <1>1, <1>4 DEF TrailsOK, b
<1>7. DOMAIN acks' = {}
  BY <1>1
<1> QED  BY <1>5, <1>6, <1>7 DEF TrailsOK

LEMMA SendTrails ==
    ASSUME NEW rank \in Ranks, TrailsOK(rank), LInv, NEW v \in Vertices, NEW w, NEW j, Sent(v, w, j)
    PROVE  TrailsOK(rank)'
<1> DEFINE t == job[j].trail
           h == job[j].history
           u == Append(t, <<w, now>>)
           g == Append(h, <<v, now>>)
<1>1. /\ now \in Nat /\ now' = now /\ <<v, w>> \in Edges /\ acks' = <<>> /\ Jobs' = Jobs /\ j \in Jobs
      /\ 1 \in DOMAIN line[v] /\ j = line[v][1]
      /\ job'[j].history = g /\ job'[j].trail = u
      /\ \A k \in Jobs : k # j => job'[k] = job[k]
      /\ \A x \in Vertices : \A i \in DOMAIN line'[x] :
            \/ x = w /\ line'[x][i] = j
            \/ line'[x][i] \in Jobs \ {j} /\ \E k \in DOMAIN line[x] : line'[x][i] = line[x][k]
  BY DEF LInv, Sent, Jobs
<1>2. TrailOK(rank, t, now) /\ OnTrail(h, t, v) /\ Len(h) = Len(t)
  <2>1. Waits(job[line[v][1]], v)
    BY <1>1 DEF TrailsOK
  <2> QED  BY <1>1, <2>1 DEF TrailsOK, Waits
<1> HIDE DEF t, h
<1>3. TrailOK(rank, u, now) /\ OnTrail(g, u, w) /\ Len(g) = Len(u)
  <2>1. now \in Nat /\ <<v, w>> \in Edges
    BY <1>1
  <2> QED  BY ONLY <1>2, <2>1, TrailOn, rank \in Ranks
<1> HIDE DEF u, g
<1>4. Waits(job'[j], w)
  BY <1>1, <1>3 DEF Waits
<1>5. \A k \in Jobs' : TrailOK(rank, job'[k].trail, now')
  BY <1>1, <1>3 DEF TrailsOK
<1>6. ASSUME NEW x \in Vertices, NEW i \in DOMAIN line'[x]
      PROVE  Waits(job'[line'[x][i]], x)
  <2>1. CASE x = w /\ line'[x][i] = j
    BY <1>4, <2>1
  <2>2. CASE line'[x][i] \in Jobs \ {j} /\ \E k \in DOMAIN line[x] : line'[x][i] = line[x][k]
    <3>1. PICK k \in DOMAIN line[x] : line'[x][i] = line[x][k]
      BY <2>2
    <3>2. Waits(job[line[x][k]], x)
      BY DEF TrailsOK
    <3> QED  BY <1>1, <2>2, <3>1, <3>2
  <2> QED  BY <1>1, <2>1, <2>2
<1>7. DOMAIN acks' = {}
  BY <1>1
<1> QED  BY <1>5, <1>6, <1>7 DEF TrailsOK

LEMMA LeaveTrails ==
    ASSUME NEW rank, TrailsOK(rank), LInv, NEW v \in Vertices, ~ (Degree(v) > 0), Depart(v)
    PROVE  TrailsOK(rank)'
<1> DEFINE j == Head(line[v])
           l == Without(line, v)
           a == [type |-> "ACK_EVENT", job |-> j, from |-> v, at |-> v, top |-> Last(job[j].history)[2]]
<1>1. /\ line[v] # <<>> /\ now' = now /\ acks' = <<a>> /\ line' = l /\ job' = job /\ LinesOf(Jobs, line)
  BY DEF Depart, Without, LInv, LinesOK
<1>2. /\ 1 \in DOMAIN line[v] /\ j = line[v][1]
      /\ \A u \in Vertices : \A i \in DOMAIN l[u] : \E k \in DOMAIN line[u] : l[u][i] = line[u][k]
  BY <1>1, Leaves
<1>3. a.type = "ACK_EVENT" /\ a.job = j /\ a.at = v /\ a.from = v
  OBVIOUS
<1> HIDE DEF j, l, a
<1>4. Returns(job[j], a)
  <2>1. Waits(job[line[v][1]], v)
    BY <1>2 DEF TrailsOK
  <2> QED  BY <1>2, <1>3, <2>1 DEF Waits, Returns
<1>5. DOMAIN acks' = {1} /\ acks'[1] = a
  BY <1>1
<1>6. \A i \in DOMAIN acks' : Returns(job'[acks'[i].job], acks'[i])
  BY <1>1, <1>3, <1>4, <1>5
<1>7. ASSUME NEW u \in Vertices, NEW i \in DOMAIN line'[u]
      PROVE  Waits(job'[line'[u][i]], u)
  <2>1. PICK k \in DOMAIN line[u] : line'[u][i] = line[u][k]
    BY <1>1, <1>2
  <2>2. Waits(job[line[u][k]], u)
    BY DEF TrailsOK
  <2> QED  BY <1>1, <2>1, <2>2
<1>8. Jobs' = Jobs
  BY <1>1 DEF Jobs
<1> QED  BY <1>1, <1>6, <1>7, <1>8 DEF TrailsOK

LEMMA AckTrails ==
    ASSUME NEW rank, TrailsOK(rank), LInv, NEW a, Acked(a)
    PROVE  TrailsOK(rank)'
<1> DEFINE h == job[a.job].history
           t == job[a.job].trail
<1>1. /\ a \in AckRecords /\ a.job \in Jobs /\ Jobs' = Jobs /\ now' = now /\ line' = line
      /\ \E k \in DOMAIN acks : a = acks[k]
      /\ a.type = "ACK_EVENT" => Follows(a) /\ job'[a.job].history = Front(h)
      /\ \A j \in Jobs : job'[j].trail = job[j].trail
      /\ \A j \in Jobs : j # a.job \/ a.type # "ACK_EVENT" => job'[j] = job[j]
  <2>1. a \in AckRecords
    BY DEF Acked
  <2>2. a.job \in Jobs
    BY <2>1 DEF AckRecords
  <2> QED  BY <2>2 DEF Acked
<1>2. ASSUME NEW i \in DOMAIN acks'
      PROVE  Remains(acks'[i], a) \/ FollowsOn(acks'[i], a, h)
  BY DEF Acked
<1>3. Returns(job[a.job], a)
  BY <1>1 DEF TrailsOK
<1> HIDE DEF h, t
<1>4. \A j \in Jobs' : TrailOK(rank, job'[j].trail, now')
  BY <1>1 DEF TrailsOK
<1>5. ASSUME NEW u \in Vertices, NEW i \in DOMAIN line'[u]
      PROVE  Waits(job'[line'[u][i]], u)
  <2> DEFINE j == line[u][i]
  <2>1. i \in DOMAIN line[u] /\ line'[u][i] = j /\ Waits(job[j], u)
    BY <1>1 DEF TrailsOK
  <2>2. j \in Jobs
    BY <2>1 DEF LInv, LinesOK, LinesOf
  <2>3. a.type = "ACK_EVENT" => j # a.job
    BY <1>1, <2>1 DEF Follows, InNoLine
  <2> HIDE DEF j
  <2>4. job'[j] = job[j]
    BY <1>1, <2>2, <2>3
  <2> QED  BY <2>1, <2>4
<1>6. ASSUME NEW b, Remains(b, a)
      PROVE  Returns(job'[b.job], b)
  <2>0. b \in AckRecords /\ (b.type = "ACK_EVENT" => a.type # "ACK_EVENT") /\ \E k \in DOMAIN acks : b = acks[k]
    BY <1>6 DEF Remains
  <2>1. b.job \in Jobs /\ Returns(job[b.job], b)
    BY <2>0 DEF AckRecords, TrailsOK
  <2>2. CASE a.type = "ACK_EVENT"
    <3>1. job'[b.job].trail = job[b.job].trail /\ b.type # "ACK_EVENT"
      BY <1>1, <2>0, <2>1, <2>2
    <3> QED  BY <2>1, <3>1 DEF Returns
  <2>3. CASE a.type # "ACK_EVENT"
    <3>1. job'[b.job] = job[b.job]
      BY <1>1, <2>1, <2>3
    <3> QED  BY <2>1, <3>1
  <2> QED  BY <2>2, <2>3
<1>7. ASSUME NEW b, FollowsOn(b, a, h)
      PROVE  Returns(job'[b.job], b)
  <2>1. /\ a.type = "ACK_EVENT" /\ Last(h)[1] # EXTERNAL_EVENT
        /\ b.job = a.job /\ b.from = a.at /\ b.top = Last(Front(h))[2]
        /\ b.type = "ACK_EVENT" => b.at = Last(h)[1]
    BY <1>7 DEF FollowsOn
  <2>2. WalkOK(h, a.at) /\ OnTrail(h, t, a.at)
    BY <1>1, <1>3, <2>1 DEF Follows, Returns, h, t
  <2>3. t \in Seq(Vertices \X Nat)
    BY <1>1 DEF TrailsOK, TrailOK, t
  <2>4. OnTrail(Front(h), t, Last(h)[1]) /\ Timed(t, a.at, Last(Front(h))[2])
    BY ONLY <2>1, <2>2, <2>3, TrailBack
  <2>5. job'[b.job].trail = t /\ job'[b.job].history = Front(h)
    BY <1>1, <2>1 DEF t
  <2> QED  BY <2>1, <2>4, <2>5 DEF Returns
<1>8. \A i \in DOMAIN acks' : Returns(job'[acks'[i].job], acks'[i])
  BY <1>2, <1>6, <1>7
<1> QED  BY <1>4, <1>5, <1>8 DEF TrailsOK

LEMMA TrailsAreKept ==
    ASSUME NEW rank \in Ranks, TrailsOK(rank), LInv, [Next]_vars
    PROVE  TrailsOK(rank)'
<1>0. now \in Nat
  BY DEF LInv
<1>1. ASSUME NEW v \in Entrances, Enter(v)
      PROVE  TrailsOK(rank)'
  <2>1. PICK j : Entered(v, j)
    BY <1>1, EnterFacts
  <2> QED  BY <2>1, EnterTrails
<1>2. ASSUME NEW v \in Vertices, Depart(v)
      PROVE  TrailsOK(rank)'
  <2>1. CASE Degree(v) > 0
    <3>1. PICK w, j : Sent(v, w, j)
      BY <1>2, <2>1, SendFacts
    <3> QED  BY <3>1, SendTrails
  <2>2. CASE ~ (Degree(v) > 0)
    BY <1>2, <2>2, LeaveTrails
  <2> QED  BY <2>1, <2>2
<1>3. CASE Ack
  BY <1>3, AckFacts, AckTrails
<1>4. CASE Tick
  <2>1. now' = now + 1 /\ UNCHANGED <<line, job, acks>>
    BY <1>4 DEF Tick
  <2> QED  BY <1>0, <2>1, LaterTrails
<1>5. CASE UNCHANGED vars
  <2>1. UNCHANGED <<now, line, job, acks>>
    BY <1>5 DEF vars
  <2> QED  BY <1>0, <2>1, LaterTrails
<1> QED  BY <1>1, <1>2, <1>3, <1>4, <1>5 DEF Next

-----------------------------------------------------------------------------
(* The values are the means of the delays.                                 *)

\* A value and statistics that are those of what was observed.
MeanAt(p_q, st, g) ==
    /\ g \in Seq(Wholly)
    /\ st = [n |-> Len(g), mean |-> MeanOf(g)]
    /\ p_q = MeanOf(g)

MeansOK ==
    /\ DOMAIN given = Edges
    /\ \A e \in Edges : Averaged(e) => MeanAt(edge[e].q_val, qStats[eindex(e)], given[e])

LEMMA InitMeans ==
    ASSUME Init
    PROVE  MeansOK
<1>1. /\ given = [e \in Edges |-> <<>>] /\ edge = [e \in Edges |-> FreshEdge(e)]
      /\ qStats = [i \in Indices |-> Cleared]
  BY DEF Init
<1>2. ASSUME NEW e \in Edges, Averaged(e)
      PROVE  MeanAt(edge[e].q_val, qStats[eindex(e)], given[e])
  <2>1. eindex(e) \in Indices
    BY <1>2, EdgeIndex DEF Averaged, Outsourced
  <2>2. FreshEdge(e).q_val = Zero
    BY DEF FreshEdge
  <2>3. edge[e].q_val = Zero /\ qStats[eindex(e)] = [n |-> 0, mean |-> Zero] /\ given[e] = <<>>
    BY <1>1, <2>1, <2>2 DEF Cleared
  <2>4. <<>> \in Seq(Wholly) /\ Len(<<>>) = 0 /\ MeanOf(<<>>) = Zero
    BY DEF MeanOf
  <2> QED  BY <2>3, <2>4 DEF MeanAt
<1>3. DOMAIN given = Edges
  BY <1>1
<1> QED  BY <1>2, <1>3 DEF MeansOK

\* The value of an edge that has another observation.
LEMMA MeanOn ==
    ASSUME NEW p_q, NEW st, NEW g, MeanAt(p_q, st, g), NEW x \in Int
    PROVE  MeanAt(Push(st, Whole(x)).mean, Push(st, Whole(x)), Append(g, Whole(x)))
<1> DEFINE h == Append(g, Whole(x))
           u == Push(st, Whole(x))
<1>1. g \in Seq(Wholly) /\ st = [n |-> Len(g), mean |-> MeanOf(g)]
  BY DEF MeanAt
<1>2. /\ h \in Seq(Wholly) /\ Len(h) = Len(g) + 1
      /\ u.mean = MeanOf(h) /\ u.n = Len(g) + 1
  BY <1>1, MeanAfter
<1>3. u = [n |-> u.n, mean |-> u.mean]
  BY DEF Push
<1> HIDE DEF h, u
<1>4. u = [n |-> Len(h), mean |-> MeanOf(h)]
  BY <1>2, <1>3
<1> QED  BY <1>2, <1>4 DEF MeanAt, h, u

\* Steps that leave the values, and what was observed.
LEMMA MeansKept ==
    ASSUME MeansOK, UNCHANGED <<desArgs, qStats, given>>,
           \A e \in Edges : Averaged(e) => edge'[e] = edge[e]
    PROVE  MeansOK'
<1>1. \A e \in Edges : Averaged(e)' <=> Averaged(e)
  BY DEF Averaged, Outsourced
<1> QED  BY <1>1 DEF MeansOK

LEMMA DepartMeans ==
    ASSUME LInv, EInv, MeansOK, NEW v \in Vertices, Depart(v)
    PROVE  MeansOK'
<1>1. UNCHANGED <<desArgs, qStats, given>>
  BY DEF Depart
<1>2. DOMAIN edge = Edges /\ Degree(v) \in Nat
  BY TargetsFacts DEF EInv, EdgesOK
<1>3. CASE Degree(v) = 0
  <2>1. UNCHANGED edge
    BY <1>3 DEF Depart
  <2> QED  BY <1>1, <2>1, MeansKept
<1>4. CASE Degree(v) > 0
  <2>1. PICK c \in Selections(v) : edge' = c.edge
    BY <1>4 DEF Depart
  <2> DEFINE values == [n \in 1 .. Degree(v) |-> <<Targets(v)[n], edge[<<v, Targets(v)[n]>>].q_val>>]
  <2>2. c.edge = edge \/ (desArgs.rl /\ c \in m_policy(v, values, edge))
    <3>1. Selections(v)
            = IF ~ desArgs.rl
              THEN {Choice(Targets(v)[n], edge) :
                      n \in {m \in 1 .. Degree(v) : Below(Zero, edge[<<v, Targets(v)[m]>>].weight)}}
              ELSE IF vertex[v].next_action >= 0 THEN {Choice(vertex[v].next_action, edge)}
              ELSE m_policy(v, values, edge)
      BY Zenon DEF Selections
    <3> HIDE DEF values
    <3>2. (desArgs.rl /\ c \in m_policy(v, values, edge)) \/ \E n : c = Choice(n, edge)
      BY <2>1, <3>1
    <3> QED  BY <3>2 DEF Choice
  <2>3. Len(values) = Degree(v)
    BY <1>2
  <2> HIDE DEF values
  <2>4. ASSUME NEW e \in Edges, Averaged(e)
        PROVE  edge'[e] = edge[e]
    <3>1. CASE c.edge = edge
      BY <2>1, <3>1
    <3>2. CASE desArgs.rl /\ c \in m_policy(v, values, edge)
      <4>1. Elsewhere(v, edge, c.edge) /\ (Len(values) = 1 => c.edge = edge)
        BY <1>2, <3>2, PolicyElsewhere
      <4>2. Degree(e[1]) = 1
        BY <2>4, <3>2 DEF Averaged
      <4>3. CASE e[1] = v
        BY <2>1, <2>3, <4>1, <4>2, <4>3
      <4>4. CASE e[1] # v
        BY <2>1, <4>1, <4>4 DEF Elsewhere
      <4> QED  BY <4>3, <4>4
    <3> QED  BY <2>2, <3>1, <3>2
  <2> QED  BY <1>1, <2>4, MeansKept
<1> QED  BY <1>2, <1>3, <1>4

\* Where jobs leave there is no value to change.
LEMMA NoneRespond ==
    ASSUME NEW s, StateOK(s), NEW v, Degree(v) = 0, NEW from, NEW top, NEW r \in Responded(s, v, from, top)
    PROVE  r.edge = s.edge /\ r.qStats = s.qStats
<1>1. r = s \/ r = NoAction(s, v)
  <2>1. \/ r \in DefaultResponse(s, v, from, top)
        \/ r \in RLResponse(s, v, from, top)
        \/ r \in FullRLResponse(s, v, from, top)
        \/ r \in HybridFullRLResponse(s, v, from, top)
    BY DEF Responded
  <2> QED  BY <2>1 DEF DefaultResponse, RLResponse, FullRLResponse, HybridFullRLResponse
<1>2. NoAction(s, v).edge = s.edge /\ NoAction(s, v).qStats = s.qStats
  BY DEF NoAction, StateOK
<1> QED  BY <1>1, <1>2

LEMMA AckMeans ==
    ASSUME NEW rank \in Ranks, TrailsOK(rank), LInv, EInv, MeansOK, Ack
    PROVE  MeansOK'
<1> DEFINE a == Head(acks)
           v == a.at
           from == a.from
           f == <<v, from>>
           s == Rated(State, v, from, a.top)
           x == -Delay(a.job, from)
<1>1. /\ Acked(a) /\ now \in Nat /\ desArgs \in Configs
      /\ UNCHANGED <<desArgs, now>>
      /\ given' = IF v = from THEN given ELSE [given EXCEPT ![f] = Append(given[f], Whole(x))]
      /\ \E r \in Responded(s, v, from, a.top) :
            edge' = Varied(r, v, from).edge /\ qStats' = Varied(r, v, from).qStats
  BY AckFacts DEF Ack, LInv
<1> HIDE DEF a, x
<1>2. /\ v \in Vertices /\ a.top \in Int /\ AckedOver(a) /\ a.job \in Jobs
      /\ Returns(job[a.job], a) /\ TrailOK(rank, job[a.job].trail, now)
  <2>1. a \in AckRecords /\ AckedOver(a) /\ \E k \in DOMAIN acks : a = acks[k]
    BY <1>1 DEF Acked
  <2>2. a.job \in Jobs /\ v \in Vertices /\ a.top \in Int
    BY <2>1 DEF AckRecords
  <2> QED  BY <2>1, <2>2 DEF TrailsOK
<1>3. Degree(v) > 0 => f \in Edges
  BY <1>2 DEF AckedOver
<1>4. v # from => x = a.top - now /\ x \in Int /\ a.top <= now
  <2> SUFFICES ASSUME v # from PROVE x = a.top - now /\ x \in Int /\ a.top <= now
    OBVIOUS
  <2>1. Timed(job[a.job].trail, from, a.top)
    BY <1>2 DEF Returns
  <2> DEFINE j == a.job
             top == a.top
             d == Delay(j, from)
  <2> HIDE DEF j, top, from
  <2>2. d = now - top /\ top \in Nat /\ top <= now
    <3>1. Timed(job[j].trail, from, top) /\ TrailOK(rank, job[j].trail, now)
      BY <1>2, <2>1 DEF j, top
    <3> QED  BY ONLY <1>1, <3>1, DelayIs, rank \in Ranks
  <2> HIDE DEF d
  <2>3. -d = top - now /\ top - now \in Int
    BY <1>1, <2>2
  <2>4. x = -d
    BY DEF x, d, j
  <2> QED  BY <2>2, <2>3, <2>4 DEF top
<1> HIDE DEF v, from, f, s
<1>5. StateOK(s) /\ ValuedOK(s) /\ s.edge = edge /\ s.qStats = qStats
  <2>1. StateOK(State) /\ now \in Int /\ StatesOK
    BY <1>1, LearnedIsState, StatesAreInts DEF LInv
  <2>2. Beside(State, s)
    <3>1. {"edge", "qStats"} \subseteq DOMAIN State
      BY DEF State
    <3> QED  BY <3>1, RatedBeside DEF s
  <2>3. State.edge = edge /\ State.qStats = qStats
    BY DEF State
  <2>4. ValuedOK(State)
    BY <2>3 DEF ValuedOK, EInv
  <2>5. StateOK(s)
    BY <1>1, <1>2, <2>1, RatedOK DEF s
  <2> QED  BY <2>2, <2>3, <2>4, <2>5, OtherValues DEF Beside
<1>6. PICK r \in Responded(s, v, from, a.top) :
         edge' = Varied(r, v, from).edge /\ qStats' = Varied(r, v, from).qStats
  BY <1>1
<1>7. edge' = r.edge /\ qStats' = r.qStats
  <2>1. StateOK(r)
    BY <1>1, <1>2, <1>3, <1>5, StatesAreInts, RespondedOK DEF f
  <2>2. {"edge", "qStats"} \subseteq DOMAIN r
    BY <2>1 DEF StateOK
  <2>3. Beside(r, Varied(r, v, from))
    BY <2>2, VariedBeside
  <2> QED  BY <1>6, <2>3 DEF Beside
<1>8. ASSUME NEW e \in Edges, Averaged(e)
      PROVE  Responds(e, v, from, s, r, Whole(a.top - now))
  <2>1. CASE v # from
    <3> DEFINE top == a.top
    <3>1. top \in Int /\ top <= now /\ r \in Responded(s, v, from, top)
      BY <1>2, <1>4, <1>6, <2>1
    <3>2. Degree(v) > 0 => <<v, from>> \in Edges
      BY <1>3 DEF f
    <3>3. v \in Vertices
      BY <1>2 DEF v
    <3> HIDE DEF top
    <3>4. Responds(e, v, from, s, r, Whole(top - now))
      BY ONLY <1>1, <1>5, <1>8, <3>1, <3>2, <3>3, e \in Edges, RespondedMeans
    <3> QED  BY <3>4 DEF top
  <2>2. CASE v = from
    <3>1. ~ (Degree(v) > 0) /\ e # <<v, from>>
      <4>1. <<v, from>> \notin Edges
        <5> SUFFICES ASSUME <<v, from>> \in Edges PROVE FALSE
          OBVIOUS
        <5>1. <<v, from>>[1] # <<v, from>>[2]
          BY EdgeFacts
        <5> QED  BY <2>2, <5>1
      <4> QED  BY <1>3, <4>1 DEF f
    <3>2. Degree(v) = 0
      BY <3>1, TargetsFacts
    <3>3. r.edge = s.edge /\ r.qStats = s.qStats
      BY <1>5, <1>6, <3>2, NoneRespond
    <3> QED  BY <3>1, <3>3 DEF Responds, Same
  <2> QED  BY <2>1, <2>2
<1>9. ASSUME NEW e \in Edges, Averaged(e)
      PROVE  MeanAt(edge'[e].q_val, qStats'[eindex(e)], given'[e])
  <2> DEFINE g == given[e]
             i == eindex(e)
  <2>1. MeanAt(edge[e].q_val, qStats[i], g) /\ e \in DOMAIN given
    BY <1>9 DEF MeansOK
  <2>2. CASE e = f
    <3>1. v # from
      BY <2>2, EdgeFacts DEF f
    <3>2. given'[e] = Append(g, Whole(x)) /\ x \in Int /\ x = a.top - now
      BY <1>1, <1>4, <2>1, <2>2, <3>1 DEF f, v, from
    <3>3. Pushed(e, s, r, Whole(x))
      BY <1>8, <1>9, <2>2, <3>2 DEF Responds, f
    <3>4. qStats'[i] = Push(qStats[i], Whole(x)) /\ edge'[e].q_val = Push(qStats[i], Whole(x)).mean
      BY <1>5, <1>7, <3>3 DEF Pushed
    <3> HIDE DEF g, i
    <3>5. MeanAt(Push(qStats[i], Whole(x)).mean, Push(qStats[i], Whole(x)), Append(g, Whole(x)))
      BY <2>1, <3>2, MeanOn
    <3> QED  BY <3>2, <3>4, <3>5 DEF i
  <2>3. CASE e # f
    <3>1. given'[e] = g
      BY <1>1, <2>1, <2>3 DEF f, v, from
    <3>2. Same(e, s, r)
      BY <1>8, <1>9, <2>3 DEF Responds, f
    <3> QED  BY <1>5, <1>7, <2>1, <3>1, <3>2 DEF Same
  <2> QED  BY <2>2, <2>3
<1>10. DOMAIN given' = Edges
  BY <1>1 DEF MeansOK
<1>11. \A e \in Edges : Averaged(e)' <=> Averaged(e)
  BY <1>1 DEF Averaged, Outsourced
<1> QED  BY <1>9, <1>10, <1>11 DEF MeansOK

LEMMA MeansAreKept ==
    ASSUME NEW rank \in Ranks, TrailsOK(rank), LInv, EInv, MeansOK, [Next]_vars
    PROVE  MeansOK'
<1>1. CASE \E v \in Entrances : Enter(v)
  <2>1. UNCHANGED <<desArgs, edge, qStats, given>>
    BY <1>1 DEF Enter
  <2> QED  BY <2>1, MeansKept
<1>2. CASE \E v \in Vertices : Depart(v)
  BY <1>2, DepartMeans
<1>3. CASE Ack
  BY <1>3, AckMeans
<1>4. CASE Tick
  <2>1. UNCHANGED <<desArgs, edge, qStats, given>>
    BY <1>4 DEF Tick
  <2> QED  BY <2>1, MeansKept
<1>5. CASE UNCHANGED vars
  <2>1. UNCHANGED <<desArgs, edge, qStats, given>>
    BY <1>5 DEF vars
  <2> QED  BY <2>1, MeansKept
<1> QED  BY <1>1, <1>2, <1>3, <1>4, <1>5 DEF Next

\* The value of an edge is the mean of what the jobs acknowledged over it took, for
\* the default handler and for the only edge of a vertex, in every network without
\* a cycle, which is what is generated: the time an acknowledgement pops off the
\* history is when the job was at the server before, since it comes to no server
\* twice (DefaultResponseHandler.cc:75-88, RLResponseHandler.cc:138-146,
\* AckHandler.cc:69-110).
THEOREM ValuesAreMeanDelays ==
    ASSUME Acyclic
    PROVE  Spec => []ValueIsMeanDelay
<1>1. PICK rank : rank \in Ranks
  BY RanksExist
<1> DEFINE T == TrailsOK(rank)
<1>2. Init => T /\ MeansOK
  BY InitTrails, InitMeans
<1>3. LInv /\ EInv /\ T /\ MeansOK /\ [Next]_vars => T' /\ MeansOK'
  <2> SUFFICES ASSUME LInv, EInv, T, MeansOK, [Next]_vars PROVE T' /\ MeansOK'
    OBVIOUS
  <2>1. T'
    BY <1>1, TrailsAreKept
  <2>2. MeansOK'
    BY <1>1, MeansAreKept
  <2> QED  BY <2>1, <2>2
<1>4. MeansOK => ValueIsMeanDelay
  BY DEF MeansOK, MeanAt, MeanOf, Averaged, ValueIsMeanDelay
<1> HIDE DEF T
<1> QED  BY WalksAreFollowedBack, ValuesAreNumbers, <1>2, <1>3, <1>4, PTL DEF Spec
=============================================================================
