------------------------- MODULE MasterSlave_proofs -------------------------
(***************************************************************************)
(* Theorems about MasterSlave: the experiment counts as Replications       *)
(* promises, and the books of the master fit the messages.                 *)
(***************************************************************************)
EXTENDS MasterSlave, Allocation_proofs, FiniteSetTheorems, SequenceTheorems, TLAPS

-----------------------------------------------------------------------------
(* Lists of nodes, and counting.                                           *)

LEMMA ImageCardinality ==
    ASSUME NEW S, IsFiniteSet(S), NEW T, NEW f \in [S -> T],
           \A s, t \in S : s # t => f[s] # f[t],
           \A t \in T : \E s \in S : f[s] = t
    PROVE  IsFiniteSet(T) /\ Cardinality(T) = Cardinality(S)
<1>1. f \in Surjection(S, T)
  BY DEF Surjection
<1>2. f \in Injection(S, T)
  BY DEF Injection, IsInjective
<1> QED
  BY <1>1, <1>2, FS_Surjection

\* A list without repetition has as many nodes as places.
LEMMA RangeCardinality ==
    ASSUME NEW S, NEW s \in Seq(S), IsInjective(s)
    PROVE  /\ Range(s) \in SUBSET S
           /\ IsFiniteSet(Range(s)) /\ Cardinality(Range(s)) = Len(s)
<1>1. Len(s) \in Nat /\ s \in [1 .. Len(s) -> S] /\ DOMAIN s = 1 .. Len(s)
  BY LenProperties
<1>2. s \in [1 .. Len(s) -> Range(s)] /\ Range(s) \in SUBSET S
  BY <1>1 DEF Range
<1>3. \A x, y \in 1 .. Len(s) : x # y => s[x] # s[y]
  BY <1>1 DEF IsInjective
<1>4. \A t \in Range(s) : \E x \in 1 .. Len(s) : s[x] = t
  BY <1>1 DEF Range
<1>5. IsFiniteSet(1 .. Len(s)) /\ Cardinality(1 .. Len(s)) = Len(s)
  BY <1>1, FS_Interval
<1> QED  BY <1>2, <1>3, <1>4, <1>5, ImageCardinality

\* The nodes taken from the back and the vector they leave have no node in
\* common.
LEMMA BackFacts ==
    ASSUME NEW S, NEW s \in Seq(S), IsInjective(s), NEW n \in 0 .. Len(s)
    PROVE  /\ PopBack(s, n) \in Seq(S) /\ Len(PopBack(s, n)) = Len(s) - n
           /\ Backs(s, n) \in Seq(S) /\ Len(Backs(s, n)) = n
           /\ IsInjective(PopBack(s, n)) /\ IsInjective(Backs(s, n))
           /\ Range(PopBack(s, n)) \cap Range(Backs(s, n)) = {}
           /\ Range(PopBack(s, n)) \cup Range(Backs(s, n)) = Range(s)
<1>1. Len(s) \in Nat /\ s \in [1 .. Len(s) -> S] /\ DOMAIN s = 1 .. Len(s)
  BY LenProperties
<1> DEFINE m == Len(s) - n
           p == PopBack(s, n)
           b == Backs(s, n)
           t == SubSeq(s, Len(s) - n + 1, Len(s))
<1>2. m \in 0 .. Len(s) /\ n \in Nat /\ Len(s) = m + n
  BY <1>1
<1>3. p \in Seq(S) /\ Len(p) = m /\ DOMAIN p = 1 .. m /\ \A i \in 1 .. m : p[i] = s[i]
  <2> HIDE DEF m
  <2>1. \A i \in 1 .. m : s[i] \in S
    BY <1>1, <1>2
  <2>2. /\ SubSeq(s, 1, m) \in Seq(S) /\ Len(SubSeq(s, 1, m)) = IF 1 <= m THEN m - 1 + 1 ELSE 0
        /\ \A i \in 1 .. m - 1 + 1 : SubSeq(s, 1, m)[i] = s[1 + i - 1]
    BY <1>2, <2>1, SubSeqProperties
  <2>3. SubSeq(s, 1, m) \in Seq(S) /\ Len(SubSeq(s, 1, m)) = m
        /\ \A i \in 1 .. m : SubSeq(s, 1, m)[i] = s[i]
    BY <2>2, <1>2
  <2>4. p = SubSeq(s, 1, m)
    BY DEF PopBack, m
  <2>5. DOMAIN p = 1 .. Len(p)
    BY <2>3, <2>4, LenProperties
  <2> QED  BY <2>3, <2>4, <2>5
<1>4. t \in Seq(S) /\ Len(t) = n /\ \A i \in 1 .. n : t[i] = s[m + i]
  <2> DEFINE k == m + 1
             e == Len(s)
  <2>0. k \in Int /\ e \in Int /\ k \in Nat /\ e - k + 1 = n /\ (k <= e <=> n > 0)
    BY <1>2
  <2>1. \A i \in k .. e : s[i] \in S
    BY <1>1, <1>2
  <2>5. t = SubSeq(s, k, e) /\ k = m + 1
    OBVIOUS
  <2> HIDE DEF k, e
  <2>2. /\ SubSeq(s, k, e) \in Seq(S) /\ Len(SubSeq(s, k, e)) = IF k <= e THEN e - k + 1 ELSE 0
        /\ \A i \in 1 .. e - k + 1 : SubSeq(s, k, e)[i] = s[k + i - 1]
    BY <2>0, <2>1, SubSeqProperties
  <2>3. SubSeq(s, k, e) \in Seq(S) /\ Len(SubSeq(s, k, e)) = n
        /\ \A i \in 1 .. n : SubSeq(s, k, e)[i] = s[k + i - 1]
    BY <2>0, <2>2, <1>2
  <2>4. \A i \in 1 .. n : k + i - 1 = m + i
    BY <2>5, <1>2
  <2> QED  BY <2>3, <2>4, <2>5
<1>5. b \in Seq(S) /\ Len(b) = n /\ DOMAIN b = 1 .. n /\ \A i \in 1 .. n : b[i] = s[Len(s) + 1 - i]
  <2>1. b = [i \in 1 .. n |-> t[(n - i) + 1]]
    BY <1>4 DEF Backs, Reverse
  <2>2. \A i \in 1 .. n : (n - i) + 1 \in 1 .. n /\ m + ((n - i) + 1) = Len(s) + 1 - i
    BY <1>2
  <2>3. \A i \in 1 .. n : t[(n - i) + 1] = s[Len(s) + 1 - i] /\ s[Len(s) + 1 - i] \in S
    <3>1. \A i \in 1 .. n : Len(s) + 1 - i \in 1 .. Len(s)
      BY <1>2
    <3> HIDE DEF t, m
    <3> QED  BY <1>1, <1>4, <2>2, <3>1
  <2> HIDE DEF t
  <2>4. b = [i \in 1 .. n |-> s[Len(s) + 1 - i]]
    BY <2>1, <2>3
  <2> HIDE DEF b
  <2>5. n \in Nat /\ b \in [1 .. n -> S]
    BY <2>3, <2>4, <1>2
  <2>6. b \in Seq(S) /\ Len(b) = n /\ DOMAIN b = 1 .. n
    BY <2>5
  <2> QED  BY <2>4, <2>6
<1> HIDE DEF p, b, t, m
<1>6. \A x, y \in 1 .. Len(s) : s[x] = s[y] => x = y
  BY <1>1 DEF IsInjective
<1>7. IsInjective(p)
  BY <1>2, <1>3, <1>6 DEF IsInjective
<1>8. IsInjective(b)
  <2>1. SUFFICES ASSUME NEW x \in 1 .. n, NEW y \in 1 .. n, b[x] = b[y]
                 PROVE  x = y
    BY <1>5 DEF IsInjective
  <2>2. Len(s) + 1 - x \in 1 .. Len(s) /\ Len(s) + 1 - y \in 1 .. Len(s)
    BY <1>2
  <2>3. s[Len(s) + 1 - x] = s[Len(s) + 1 - y]
    BY <1>5, <2>1
  <2>4. Len(s) + 1 - x = Len(s) + 1 - y
    BY <1>6, <2>2, <2>3
  <2> QED  BY <2>4, <1>2
<1>9. Range(p) = {s[i] : i \in 1 .. m}
  BY <1>3 DEF Range
<1>10. Range(b) = {s[i] : i \in m + 1 .. Len(s)}
  <2>1. ASSUME NEW i \in 1 .. n
        PROVE  b[i] \in {s[j] : j \in m + 1 .. Len(s)}
    <3>1. Len(s) + 1 - i \in m + 1 .. Len(s)
      BY <1>2
    <3> QED  BY <3>1, <1>5
  <2>2. ASSUME NEW j \in m + 1 .. Len(s)
        PROVE  \E i \in 1 .. n : b[i] = s[j]
    <3>1. Len(s) + 1 - j \in 1 .. n /\ Len(s) + 1 - (Len(s) + 1 - j) = j
      BY <1>2
    <3> QED  BY <3>1, <1>5
  <2>3. Range(b) = {b[i] : i \in 1 .. n}
    BY <1>5 DEF Range
  <2> QED  BY <2>1, <2>2, <2>3
<1>11. Range(p) \cap Range(b) = {}
  <2>1. SUFFICES ASSUME NEW i \in 1 .. m, NEW j \in m + 1 .. Len(s), s[i] = s[j]
                 PROVE  FALSE
    BY <1>9, <1>10
  <2>2. i \in 1 .. Len(s) /\ j \in 1 .. Len(s) /\ i # j
    BY <1>2
  <2> QED  BY <2>1, <2>2, <1>6
<1>12. Range(p) \cup Range(b) = Range(s)
  <2>1. Range(s) = {s[i] : i \in 1 .. Len(s)}
    BY <1>1 DEF Range
  <2>2. \A i \in 1 .. Len(s) : i \in 1 .. m \/ i \in m + 1 .. Len(s)
    BY <1>2
  <2>3. \A i \in 1 .. m : i \in 1 .. Len(s)
    BY <1>2
  <2>4. \A i \in m + 1 .. Len(s) : i \in 1 .. Len(s)
    BY <1>2
  <2> QED  BY <2>1, <2>2, <2>3, <2>4, <1>9, <1>10
<1> QED  BY <1>3, <1>5, <1>7, <1>8, <1>11, <1>12 DEF p, b, m

\* Two lists that share no node make one without repetition.
LEMMA ConcatFacts ==
    ASSUME NEW S, NEW s \in Seq(S), NEW t \in Seq(S)
    PROVE  /\ s \o t \in Seq(S) /\ Len(s \o t) = Len(s) + Len(t)
           /\ Range(s \o t) = Range(s) \cup Range(t)
           /\ IsInjective(s) /\ IsInjective(t) /\ Range(s) \cap Range(t) = {}
                => IsInjective(s \o t)
<1>1. /\ Len(s) \in Nat /\ DOMAIN s = 1 .. Len(s) /\ Len(t) \in Nat /\ DOMAIN t = 1 .. Len(t)
  BY LenProperties
<1> DEFINE u == s \o t
<1>2. /\ u \in Seq(S) /\ Len(u) = Len(s) + Len(t)
      /\ \A i \in 1 .. Len(s) + Len(t) : u[i] = IF i <= Len(s) THEN s[i] ELSE t[i - Len(s)]
  BY ConcatProperties
<1>3. DOMAIN u = 1 .. Len(u)
  BY <1>2, LenProperties
<1> HIDE DEF u
<1>4. \A i \in 1 .. Len(s) : i \in 1 .. Len(u) /\ u[i] = s[i]
  BY <1>1, <1>2
<1>5. \A i \in 1 .. Len(t) : Len(s) + i \in 1 .. Len(u) /\ u[Len(s) + i] = t[i]
  <2> TAKE i \in 1 .. Len(t)
  <2>1. Len(s) + i \in 1 .. Len(s) + Len(t) /\ ~ (Len(s) + i <= Len(s)) /\ (Len(s) + i) - Len(s) = i
    BY <1>1
  <2> QED  BY <2>1, <1>2
<1>6. \A i \in 1 .. Len(u) : \/ i \in 1 .. Len(s) /\ u[i] = s[i]
                             \/ i - Len(s) \in 1 .. Len(t) /\ u[i] = t[i - Len(s)]
  BY <1>1, <1>2
<1>7. Range(u) = Range(s) \cup Range(t)
  <2>1. /\ Range(u) = {u[i] : i \in 1 .. Len(u)} /\ Range(s) = {s[i] : i \in 1 .. Len(s)}
        /\ Range(t) = {t[i] : i \in 1 .. Len(t)}
    BY <1>1, <1>3 DEF Range
  <2> QED  BY <2>1, <1>4, <1>5, <1>6
<1>8. ASSUME IsInjective(s), IsInjective(t), Range(s) \cap Range(t) = {}
      PROVE  IsInjective(u)
  <2>1. SUFFICES ASSUME NEW x \in 1 .. Len(u), NEW y \in 1 .. Len(u), u[x] = u[y]
                 PROVE  x = y
    BY <1>3 DEF IsInjective
  <2>2. \A i \in 1 .. Len(s), j \in 1 .. Len(t) : s[i] # t[j]
    BY <1>1, <1>8 DEF Range
  <2>3. /\ \A i, j \in 1 .. Len(s) : s[i] = s[j] => i = j
        /\ \A i, j \in 1 .. Len(t) : t[i] = t[j] => i = j
    BY <1>1, <1>8 DEF IsInjective
  <2>4. CASE x \in 1 .. Len(s) /\ u[x] = s[x]
    BY <2>4, <1>6, <2>1, <2>2, <2>3
  <2>5. CASE x - Len(s) \in 1 .. Len(t) /\ u[x] = t[x - Len(s)]
    <3>1. CASE y \in 1 .. Len(s) /\ u[y] = s[y]
      BY <3>1, <2>5, <2>1, <2>2
    <3>2. CASE y - Len(s) \in 1 .. Len(t) /\ u[y] = t[y - Len(s)]
      <4>1. x - Len(s) = y - Len(s)
        BY <3>2, <2>5, <2>1, <2>3
      <4> QED  BY <4>1, <1>1, <1>2
    <3> QED  BY <3>1, <3>2, <1>6
  <2> QED  BY <2>4, <2>5, <1>6
<1> QED  BY <1>2, <1>7, <1>8 DEF u

LEMMA ReverseFacts ==
    ASSUME NEW S, NEW s \in Seq(S)
    PROVE  /\ Reverse(s) \in Seq(S) /\ Len(Reverse(s)) = Len(s)
           /\ Range(Reverse(s)) = Range(s)
           /\ IsInjective(s) => IsInjective(Reverse(s))
<1>1. Len(s) \in Nat /\ s \in [1 .. Len(s) -> S] /\ DOMAIN s = 1 .. Len(s)
  BY LenProperties
<1> DEFINE n == Len(s)
           u == Reverse(s)
<1>2. u = [i \in 1 .. n |-> s[(n - i) + 1]]
  BY DEF Reverse
<1>3. n \in Nat /\ s \in [1 .. n -> S] /\ DOMAIN s = 1 .. n
  BY <1>1
<1> HIDE DEF n, u
<1>4. \A i \in 1 .. n : (n - i) + 1 \in 1 .. n /\ (n - ((n - i) + 1)) + 1 = i
  BY <1>3
<1>5. u \in Seq(S) /\ Len(u) = n /\ DOMAIN u = 1 .. n
      /\ \A i \in 1 .. n : u[i] = s[(n - i) + 1]
  BY <1>2, <1>3, <1>4
<1>6. Range(u) = Range(s)
  <2>1. Range(u) = {u[i] : i \in 1 .. n} /\ Range(s) = {s[i] : i \in 1 .. n}
    BY <1>3, <1>5 DEF Range
  <2>2. \A i \in 1 .. n : \E j \in 1 .. n : s[i] = u[j]
    <3> TAKE i \in 1 .. n
    <3> DEFINE j == (n - i) + 1
    <3>1. j \in 1 .. n /\ (n - j) + 1 = i
      BY <1>4
    <3> HIDE DEF j
    <3> QED  BY <3>1, <1>5
  <2>3. \A i \in 1 .. n : \E j \in 1 .. n : u[i] = s[j]
    BY <1>4, <1>5
  <2> QED  BY <2>1, <2>2, <2>3
<1>7. ASSUME IsInjective(s) PROVE IsInjective(u)
  <2>1. SUFFICES ASSUME NEW x \in 1 .. n, NEW y \in 1 .. n, u[x] = u[y]
                 PROVE  x = y
    BY <1>5 DEF IsInjective
  <2>2. (n - x) + 1 = (n - y) + 1
    BY <2>1, <1>3, <1>4, <1>5, <1>7 DEF IsInjective
  <2> QED  BY <2>2, <1>3
<1> QED  BY <1>5, <1>6, <1>7 DEF n, u

LEMMA AppendFacts ==
    ASSUME NEW S, NEW s \in Seq(S), NEW r \in S
    PROVE  /\ Append(s, r) \in Seq(S) /\ Len(Append(s, r)) = Len(s) + 1
           /\ Range(Append(s, r)) = Range(s) \cup {r}
           /\ IsInjective(s) /\ r \notin Range(s) => IsInjective(Append(s, r))
<1>1. <<r>> \in Seq(S) /\ Len(<<r>>) = 1 /\ Range(<<r>>) = {r} /\ IsInjective(<<r>>)
  BY DEF Range, IsInjective
<1>2. Append(s, r) = s \o <<r>>
  OBVIOUS
<1>3. /\ s \o <<r>> \in Seq(S) /\ Len(s \o <<r>>) = Len(s) + Len(<<r>>)
      /\ Range(s \o <<r>>) = Range(s) \cup Range(<<r>>)
      /\ IsInjective(s) /\ IsInjective(<<r>>) /\ Range(s) \cap Range(<<r>>) = {}
           => IsInjective(s \o <<r>>)
  BY <1>1, ConcatFacts
<1>4. r \notin Range(s) => Range(s) \cap Range(<<r>>) = {}
  BY <1>1
<1> HIDE DEF Range, IsInjective
<1> QED  BY <1>1, <1>2, <1>3, <1>4

\* When as many nodes leave A as work in team i, the others can be assigned to
\* the other teams so that these keep their sizes.
LEMMA Reassigned ==
    ASSUME NEW A, IsFiniteSet(A), NEW B \in SUBSET A, NEW T, NEW i \in T,
           NEW team \in [A -> T],
           Cardinality(B) + Cardinality({r \in A : team[r] = i}) = Cardinality(A)
    PROVE  \E t \in [B -> T \ {i}] : \A j \in T \ {i} :
              Cardinality({r \in B : t[r] = j}) = Cardinality({r \in A : team[r] = j})
<1> DEFINE M == {r \in A : team[r] = i}
           C == A \ M
<1>1. /\ IsFiniteSet(B) /\ IsFiniteSet(M) /\ IsFiniteSet(C)
      /\ Cardinality(C) = Cardinality(A) - Cardinality(M)
  <2>1. M \in SUBSET A /\ C \in SUBSET A /\ A \cap M = M
    OBVIOUS
  <2> HIDE DEF M
  <2>2. IsFiniteSet(B) /\ IsFiniteSet(M)
    BY <2>1, FS_Subset
  <2> QED  BY <2>1, <2>2, FS_Difference
<1>2. Cardinality(B) = Cardinality(C)
  <2>1. Cardinality(A) \in Nat /\ Cardinality(B) \in Nat /\ Cardinality(M) \in Nat
    BY <1>1, FS_CardinalityType
  <2> QED  BY <2>1, <1>1
<1>3. PICK f \in Bijection(B, C) : TRUE
  BY <1>1, <1>2, FS_SameCardinalityBij DEF ExistsBijection
<1>4. /\ f \in [B -> C]
      /\ \A x, y \in B : x # y => f[x] # f[y]
      /\ \A c \in C : \E x \in B : f[x] = c
  BY <1>3 DEF Bijection, Injection, Surjection, IsInjective
<1> DEFINE t == [r \in B |-> team[f[r]]]
<1>5. t \in [B -> T \ {i}]
  BY <1>4
<1>6. ASSUME NEW j \in T \ {i}
      PROVE  Cardinality({r \in B : t[r] = j}) = Cardinality({r \in A : team[r] = j})
  <2> DEFINE X == {r \in B : t[r] = j}
             Y == {r \in A : team[r] = j}
             g == [r \in X |-> f[r]]
  <2>1. IsFiniteSet(X)
    <3>1. X \in SUBSET B
      OBVIOUS
    <3> QED  BY <3>1, <1>1, FS_Subset
  <2>2. g \in [X -> Y]
    BY <1>4
  <2>3. \A x, y \in X : x # y => g[x] # g[y]
    BY <1>4
  <2>4. \A y \in Y : \E x \in X : g[x] = y
    <3> TAKE y \in Y
    <3>1. y \in C
      OBVIOUS
    <3>2. PICK x \in B : f[x] = y
      BY <3>1, <1>4
    <3>3. x \in X
      BY <3>2
    <3> QED  BY <3>2, <3>3
  <2> HIDE DEF X, Y, g
  <2>5. Cardinality(Y) = Cardinality(X)
    BY <2>1, <2>2, <2>3, <2>4, ImageCardinality
  <2> QED  BY <2>5 DEF X, Y
<1> QED  BY <1>5, <1>6

-----------------------------------------------------------------------------
(* The inductive invariant.                                                *)

\* Rank r has nothing to do and nothing to deliver.
Nothing(r) == inbox[r] = <<>> /\ slave[r] # "running" /\ outbox[r] = <<>>

\* Job j is rank r's only one: on its way, under way, or on its way back.
Has(r, j) ==
    \/ inbox[r] = <<j>> /\ slave[r] = "waiting" /\ outbox[r] = <<>>
    \/ inbox[r] = <<>> /\ slave[r] = "running" /\ current[r] = j /\ outbox[r] = <<>>
    \/ inbox[r] = <<>> /\ slave[r] = "waiting" /\ outbox[r] = <<j>>

Jobs == [tag : Nat, sim_num : Sims, rep_num : Int]

Messages == Jobs \cup {NoJob}

\* The slaves that work for simulation i.
Busy(i) == {r \in Slaves : \E j \in Jobs : j.sim_num = i /\ Has(r, j)}

TypeInv ==
    /\ phase \in {"start", "collecting", "closing", "done", "aborted", "unsent"}
    /\ inbox \in [Slaves -> Seq(Messages)] /\ outbox \in [Slaves -> Seq(Messages)]
    /\ slave \in [Slaves -> {"waiting", "running", "dead"}]
    /\ current \in [Slaves -> Messages]
    /\ jobs \in Nat \ {0} /\ idle \in Seq(Slaves) /\ lazy \in Seq(Slaves)
    /\ simReplications \in [Sims -> Nat] /\ simActiveReplications \in [Sims -> Nat]
    /\ received \in [Sims -> Nat]
    /\ significant \in SUBSET Sims /\ started \in SUBSET (Sims \X Int)

\* A slave has one job at most; the two lists hold each node once at most, and
\* only nodes without a job.
ShapeInv ==
    /\ \A r \in Slaves : Nothing(r) \/ \E j \in Jobs : j.tag < jobs /\ Has(r, j)
    /\ IsInjective(idle) /\ IsInjective(lazy) /\ Range(idle) \cap Range(lazy) = {}
    /\ \A r \in Range(idle) \cup Range(lazy) : Nothing(r) /\ slave[r] = "waiting"

Nobody == \A r \in Slaves : slave[r] # "dead"

\* A slave that is not killed has a job or is in a list.
ListedInv ==
    Nobody /\ FirstJobs = nodes - 1 =>
        \A r \in Slaves : Nothing(r) => r \in Range(idle) \cup Range(lazy)

\* What is under way for a simulation is expected; all of it, if no slave was
\* killed.
Expected(i) == simReplications[i] - received[i]

CountInv ==
    /\ \A i \in Sims : Cardinality(Busy(i)) <= Expected(i)
    /\ \A i \in significant : Expected(i) = 0
    /\ Nobody => \A i \in Sims : Cardinality(Busy(i)) = Expected(i)

\* Idle nodes can be shared out to the simulations so that each has those of its
\* batch that have delivered.
TeamInv ==
    /\ \A i \in Sims : InitReplications[i] <= simActiveReplications[i]
    /\ \E team \in [Range(idle) -> Sims \ significant] :
         \A i \in Sims \ significant :
            Cardinality({r \in Range(idle) : team[r] = i}) + Expected(i)
                = simActiveReplications[i]

\* A replication that was handed out has a number up to what is expected.
NumberInv == \A s \in started : s[2] <= simReplications[s[1]]

\* Before the experiment, and instead of it.
QuietInv ==
    /\ \A r \in Slaves : inbox[r] = <<>> /\ slave[r] = "waiting" /\ outbox[r] = <<>>
    /\ idle = <<>> /\ lazy = <<>> /\ significant = {} /\ started = {} /\ jobs = 1
    /\ received = [i \in Sims |-> 0]

\* After it: nothing is left to do but to be killed.
DrainedInv ==
    /\ \A r \in Slaves :
        /\ outbox[r] = <<>> /\ slave[r] # "running"
        /\ inbox[r] \in {<<>>, <<NoJob>>}
    /\ phase = "done" => \A r \in Slaves : slave[r] = "dead"

IInv ==
    /\ TypeInv
    /\ IsFiniteSet(started) /\ Cardinality(started) = jobs - 1
    /\ phase \in {"start", "aborted", "unsent"} => QuietInv
    /\ phase = "collecting" =>
         ShapeInv /\ ListedInv /\ CountInv /\ TeamInv /\ NumberInv
    /\ phase \in {"closing", "done"} => DrainedInv


LEMMA InitIInv == Init => IInv
<1> SUFFICES ASSUME Init PROVE IInv
  OBVIOUS
<1>1. NoJob \in Messages
  BY DEF Messages
<1>2. init_replications \in Nat
  BY AllocationAssumption
<1>3. TypeInv
  BY <1>1, <1>2 DEF Init, TypeInv
<1>4. IsFiniteSet(started) /\ Cardinality(started) = jobs - 1
  BY FS_EmptySet DEF Init
<1>5. QuietInv
  BY DEF Init, QuietInv
<1> QED  BY <1>3, <1>4, <1>5 DEF IInv, Init

LEMMA NoJobType == NoJob \in Messages /\ Jobs \subseteq Messages
  BY DEF Messages

\* A slave has one job, or none.
LEMMA OneJob ==
    ASSUME NEW r, NEW j, NEW k, Has(r, j)
    PROVE  ~ Nothing(r) /\ (Has(r, k) => j = k)
  BY DEF Has, Nothing

\* Each worker of a batch gets its message.
LEMMA BatchSent ==
    ASSUME NEW workers \in Seq(Slaves), IsInjective(workers),
           NEW batch, SendBatch(workers, batch)
    PROVE  /\ \A k \in 1 .. Len(workers) :
                inbox'[workers[k]] = Append(inbox[workers[k]], batch[k])
           /\ \A q \in Slaves : q \notin Range(workers) => inbox'[q] = inbox[q]
           /\ inbox' = [q \in Slaves |-> inbox'[q]]
<1>1. DOMAIN workers = 1 .. Len(workers) /\ workers \in [1 .. Len(workers) -> Slaves]
  BY LenProperties
<1> DEFINE mine(q) == {k \in DOMAIN workers : workers[k] = q}
<1>2. inbox' = [q \in Slaves |-> IF mine(q) = {} THEN inbox[q]
                                 ELSE Append(inbox[q], batch[CHOOSE k \in mine(q) : TRUE])]
  BY DEF SendBatch
<1>3. ASSUME NEW k \in 1 .. Len(workers)
      PROVE  inbox'[workers[k]] = Append(inbox[workers[k]], batch[k])
  <2> DEFINE q == workers[k]
  <2>1. mine(q) = {k}
    BY <1>1 DEF IsInjective
  <2>2. (CHOOSE m \in mine(q) : TRUE) = k
    BY <2>1
  <2>3. q \in Slaves
    BY <1>1
  <2> QED  BY <1>2, <2>1, <2>2, <2>3
<1>4. ASSUME NEW q \in Slaves, q \notin Range(workers)
      PROVE  inbox'[q] = inbox[q]
  <2>1. mine(q) = {}
    BY <1>4 DEF Range
  <2> QED  BY <1>2, <2>1
<1>5. inbox' = [q \in Slaves |-> inbox'[q]]
  BY <1>2
<1> QED  BY <1>3, <1>4, <1>5

\* Rank r delivers job j of simulation i, and the workers get further jobs of it.
Delivers(r, i, j, workers, batch) ==
    /\ j \in Jobs /\ j.sim_num = i /\ outbox[r] = <<j>> /\ Has(r, j)
    /\ outbox' = [outbox EXCEPT ![r] = Tail(@)] /\ UNCHANGED <<slave, current>>
    /\ workers \in Seq(Slaves) /\ IsInjective(workers)
    /\ Range(workers) \subseteq Range(idle) \cup Range(lazy) \cup {r}
    /\ batch \in [1 .. Len(workers) -> Jobs] /\ SendBatch(workers, batch)
    /\ \A k \in 1 .. Len(workers) : batch[k].sim_num = i

\* What that does to the jobs of the slaves.
LEMMA Delivered ==
    ASSUME TypeInv, ShapeInv,
           NEW r \in Slaves, NEW i \in Sims, NEW j, NEW workers, NEW batch,
           Delivers(r, i, j, workers, batch)
    PROVE  /\ \A k \in 1 .. Len(workers) : Has(workers[k], batch[k])'
           /\ \A q \in Slaves : q \notin Range(workers) /\ q # r =>
                 /\ Nothing(q)' <=> Nothing(q)
                 /\ \A m \in Jobs : Has(q, m)' <=> Has(q, m)
           /\ r \notin Range(workers) => Nothing(r)'
           /\ inbox' \in [Slaves -> Seq(Messages)] /\ outbox' \in [Slaves -> Seq(Messages)]
           /\ slave[r] = "waiting"
<1>1. /\ inbox \in [Slaves -> Seq(Messages)] /\ outbox \in [Slaves -> Seq(Messages)]
      /\ slave \in [Slaves -> {"waiting", "running", "dead"}]
  BY DEF TypeInv
<1> USE DEF Delivers
<1>2. inbox[r] = <<>> /\ slave[r] = "waiting" /\ outbox'[r] = <<>>
  BY <1>1 DEF Has
<1>3. \A q \in Slaves : q # r => outbox'[q] = outbox[q]
  BY <1>1
<1>4. DOMAIN workers = 1 .. Len(workers) /\ workers \in [1 .. Len(workers) -> Slaves]
  BY LenProperties
<1>5. ASSUME NEW k \in 1 .. Len(workers)
      PROVE  /\ Has(workers[k], batch[k])'
             /\ inbox'[workers[k]] = <<batch[k]>>
  <2> DEFINE q == workers[k]
  <2>1. q \in Slaves /\ q \in Range(idle) \cup Range(lazy) \cup {r}
    BY <1>4 DEF Range
  <2>2. inbox'[q] = Append(inbox[q], batch[k])
    BY BatchSent
  <2>3. inbox[q] = <<>> /\ slave[q] = "waiting" /\ outbox'[q] = <<>>
    BY <2>1, <1>2, <1>3 DEF ShapeInv, Nothing
  <2> HIDE DEF q
  <2>4. inbox'[q] = <<batch[k]>>
    BY <2>2, <2>3
  <2>5. Has(q, batch[k])'
    BY <2>3, <2>4 DEF Has
  <2> QED  BY <2>4, <2>5 DEF q
<1>6. ASSUME NEW q \in Slaves, q \notin Range(workers)
      PROVE  inbox'[q] = inbox[q]
  BY <1>6, BatchSent
<1>7. ASSUME NEW q \in Slaves, q \notin Range(workers), q # r
      PROVE  /\ Nothing(q)' <=> Nothing(q)
             /\ \A m \in Jobs : Has(q, m)' <=> Has(q, m)
  BY <1>3, <1>6, <1>7 DEF Nothing, Has
<1>8. r \notin Range(workers) => Nothing(r)'
  BY <1>2, <1>6 DEF Nothing
<1>9. inbox' \in [Slaves -> Seq(Messages)]
  <2>1. ASSUME NEW q \in Slaves
        PROVE  inbox'[q] \in Seq(Messages)
    <3>1. CASE q \in Range(workers)
      <4>1. PICK k \in 1 .. Len(workers) : workers[k] = q
        BY <3>1, <1>4 DEF Range
      <4>2. inbox'[q] = <<batch[k]>> /\ batch[k] \in Messages
        BY <4>1, <1>5, NoJobType
      <4> QED  BY <4>2
    <3>2. CASE q \notin Range(workers)
      BY <3>2, <1>1, <1>6
    <3> QED  BY <3>1, <3>2
  <2> QED  BY <2>1, BatchSent
<1>10. outbox' \in [Slaves -> Seq(Messages)]
  BY <1>1
<1> QED  BY <1>2, <1>5, <1>7, <1>8, <1>9, <1>10

LEMMA SlavesFinite == IsFiniteSet(Slaves) /\ \A i : IsFiniteSet(Busy(i))
<1>1. IsFiniteSet(Slaves)
  BY AllocationAssumption, FS_Interval DEF Slaves
<1>2. \A i : Busy(i) \in SUBSET Slaves
  BY DEF Busy
<1> QED  BY <1>1, <1>2, FS_Subset

\* The slaves that work for the simulation lose r and gain the workers.
LEMMA BusyStep ==
    ASSUME TypeInv, ShapeInv,
           NEW r \in Slaves, NEW i \in Sims, NEW j, NEW workers, NEW batch,
           Delivers(r, i, j, workers, batch)
    PROVE  /\ Cardinality(Busy(i)') = (Cardinality(Busy(i)) - 1) + Len(workers)
           /\ Cardinality(Busy(i)) \in Nat \ {0}
           /\ \A m \in Sims : m # i => Busy(m)' = Busy(m)
<1> DEFINE W == Range(workers)
<1>1. /\ \A q \in W : \E k \in 1 .. Len(workers) : q = workers[k] /\ Has(q, batch[k])'
                        /\ batch[k] \in Jobs /\ batch[k].sim_num = i
      /\ \A q \in Slaves : q \notin W /\ q # r =>
            /\ Nothing(q)' <=> Nothing(q)
            /\ \A m \in Jobs : Has(q, m)' <=> Has(q, m)
      /\ r \notin W => Nothing(r)'
      /\ W \subseteq Range(idle) \cup Range(lazy) \cup {r}
      /\ W \subseteq Slaves /\ IsFiniteSet(W) /\ Cardinality(W) = Len(workers)
      /\ Has(r, j) /\ j \in Jobs /\ j.sim_num = i
  <2>1. workers \in Seq(Slaves) /\ IsInjective(workers)
    BY DEF Delivers
  <2>2. DOMAIN workers = 1 .. Len(workers)
    BY <2>1, LenProperties
  <2>3. /\ \A k \in 1 .. Len(workers) : Has(workers[k], batch[k])'
        /\ \A q \in Slaves : q \notin Range(workers) /\ q # r =>
              /\ Nothing(q)' <=> Nothing(q)
              /\ \A m \in Jobs : Has(q, m)' <=> Has(q, m)
        /\ r \notin Range(workers) => Nothing(r)'
    BY Delivered
  <2>4. \A q \in W : \E k \in 1 .. Len(workers) : q = workers[k]
    BY <2>2 DEF Range
  <2>5. \A k \in 1 .. Len(workers) : batch[k] \in Jobs /\ batch[k].sim_num = i
    BY DEF Delivers
  <2>6. Has(r, j) /\ j \in Jobs /\ j.sim_num = i
        /\ W \subseteq Range(idle) \cup Range(lazy) \cup {r}
    BY DEF Delivers
  <2>7. W \subseteq Slaves /\ IsFiniteSet(W) /\ Cardinality(W) = Len(workers)
    BY <2>1, RangeCardinality
  <2> HIDE DEF W, Jobs
  <2>8. \A q \in W : \E k \in 1 .. Len(workers) : q = workers[k] /\ Has(q, batch[k])'
                        /\ batch[k] \in Jobs /\ batch[k].sim_num = i
    BY <2>3, <2>4, <2>5
  <2> QED  BY <2>3, <2>6, <2>7, <2>8 DEF W
<1> HIDE DEF W
<1>2. r \in Busy(i)
  BY <1>1 DEF Busy
<1>3. \A q \in W : q # r => Nothing(q)
  BY <1>1 DEF ShapeInv
<1>4. Busy(i)' = (Busy(i) \ {r}) \cup W
  <2>1. ASSUME NEW q \in Slaves, q \in W
        PROVE  q \in Busy(i)'
    BY <1>1, <2>1 DEF Busy
  <2>2. ASSUME NEW q \in Slaves, q \notin W, q # r
        PROVE  q \in Busy(i)' <=> q \in Busy(i)
    BY <1>1, <2>2 DEF Busy
  <2>3. ASSUME r \notin W
        PROVE  r \notin Busy(i)'
    BY <1>1, <2>3 DEF Busy, Has, Nothing
  <2>4. Busy(i)' \subseteq Slaves /\ Busy(i) \subseteq Slaves
    BY DEF Busy
  <2> QED  BY <1>1, <2>1, <2>2, <2>3, <2>4
<1>5. ASSUME NEW m \in Sims, m # i
      PROVE  Busy(m)' = Busy(m)
  <2>1. ASSUME NEW q \in Slaves, q \in W
        PROVE  q \notin Busy(m)' /\ q \notin Busy(m)
    <3>1. PICK k \in 1 .. Len(workers) : /\ Has(q, batch[k])'
                                         /\ batch[k] \in Jobs /\ batch[k].sim_num = i
      BY <1>1, <2>1
    <3>2. \A a \in Jobs : Has(q, a)' => a = batch[k]
      BY <3>1 DEF Has
    <3>3. q \notin Busy(m)'
      BY <3>1, <3>2, <1>5 DEF Busy
    <3>4. CASE q = r
      BY <3>3, <3>4, <1>1, <1>5, OneJob DEF Busy
    <3>5. CASE q # r
      <4>1. Nothing(q)
        BY <3>5, <2>1, <1>3
      <4>2. \A a \in Jobs : ~ Has(q, a)
        BY <4>1, OneJob
      <4> QED  BY <3>3, <4>2 DEF Busy
    <3> QED  BY <3>4, <3>5
  <2>2. ASSUME NEW q \in Slaves, q \notin W, q # r
        PROVE  q \in Busy(m)' <=> q \in Busy(m)
    BY <1>1, <2>2 DEF Busy
  <2>3. ASSUME r \notin W
        PROVE  r \notin Busy(m)' /\ r \notin Busy(m)
    <3>1. r \notin Busy(m)'
      <4>1. Nothing(r)'
        BY <1>1, <2>3
      <4>2. \A a : ~ Has(r, a)'
        BY <4>1 DEF Has, Nothing
      <4> QED  BY <4>2 DEF Busy
    <3>2. r \notin Busy(m)
      BY <1>1, <1>5, OneJob DEF Busy
    <3> QED  BY <3>1, <3>2
  <2>4. Busy(m)' \subseteq Slaves /\ Busy(m) \subseteq Slaves
    BY DEF Busy
  <2>5. \A q \in Slaves : q \in Busy(m)' <=> q \in Busy(m)
    BY <2>1, <2>2, <2>3
  <2> QED  BY <2>4, <2>5
<1>6. /\ Cardinality(Busy(i)') = (Cardinality(Busy(i)) - 1) + Len(workers)
      /\ Cardinality(Busy(i)) \in Nat \ {0}
  <2> DEFINE B == Busy(i)
             C == Busy(i) \ {r}
  <2>1. IsFiniteSet(B) /\ IsFiniteSet(W) /\ r \in B
    BY <1>1, <1>2, SlavesFinite
  <2>2. C \cap W = {}
    <3>1. \A q \in W : q # r => q \notin B
      BY <1>3, OneJob DEF Busy
    <3> QED  BY <3>1
  <2> HIDE DEF B
  <2>3. IsFiniteSet(C) /\ Cardinality(C) = Cardinality(B) - 1
    BY <2>1, FS_RemoveElement DEF B
  <2>4. Cardinality(B) \in Nat /\ Cardinality(W) \in Nat /\ Cardinality(B) # 0
        /\ Cardinality(C) \in Nat
    BY <2>1, <2>3, FS_CardinalityType, FS_EmptySet
  <2> HIDE DEF C
  <2>5. Cardinality(C \cup W) = Cardinality(C) + Cardinality(W) - Cardinality(C \cap W)
    BY <2>1, <2>3, FS_Union
  <2>6. Cardinality(C \cap W) = 0
    BY <2>2, FS_EmptySet
  <2>7. Cardinality(C \cup W) = (Cardinality(B) - 1) + Len(workers)
    BY <2>3, <2>4, <2>5, <2>6, <1>1
  <2> QED  BY <2>4, <2>7, <1>4 DEF B, C
<1> QED  BY <1>5, <1>6

\* A rank that delivers was in neither list, and its simulation is not over.
LEMMA Deliverer ==
    ASSUME TypeInv, ShapeInv, CountInv,
           NEW r \in Slaves, NEW i \in Sims, NEW j \in Jobs, j.sim_num = i, Has(r, j)
    PROVE  /\ r \notin Range(idle) \cup Range(lazy)
           /\ i \notin significant /\ Expected(i) \in Nat \ {0}
           /\ Cardinality(Busy(i)) \in Nat
<1>1. r \notin Range(idle) \cup Range(lazy)
  BY OneJob DEF ShapeInv
<1>2. Cardinality(Busy(i)) \in Nat /\ Cardinality(Busy(i)) # 0
  <2>1. r \in Busy(i)
    BY DEF Busy
  <2> QED  BY <2>1, SlavesFinite, FS_CardinalityType, FS_EmptySet
<1>3. Expected(i) \in Int
  BY DEF TypeInv, Expected
<1>4. Cardinality(Busy(i)) <= Expected(i) /\ (i \in significant => Expected(i) = 0)
  BY DEF CountInv
<1> QED  BY <1>1, <1>2, <1>3, <1>4

\* A step of the master that takes the workers from the lists and counts what
\* it sends keeps the books.
LEMMA BooksStep ==
    ASSUME TypeInv, ShapeInv, ListedInv, CountInv,
           NEW r \in Slaves, NEW i \in Sims, NEW j, NEW workers, NEW batch,
           Delivers(r, i, j, workers, batch),
           jobs' \in Nat, jobs' >= jobs,
           \A k \in 1 .. Len(workers) : batch[k].tag < jobs',
           IsInjective(idle'), IsInjective(lazy'), Range(idle') \cap Range(lazy') = {},
           Range(idle') \cup Range(lazy')
             = (Range(idle) \cup Range(lazy) \cup {r}) \ Range(workers),
           received' = [received EXCEPT ![i] = @ + 1],
           simReplications' = [simReplications EXCEPT ![i] = @ + Len(workers)],
           significant' \in SUBSET (significant \cup {i}),
           i \in significant' => Expected(i)' = 0
    PROVE  ShapeInv' /\ ListedInv' /\ CountInv'
<1> DEFINE W == Range(workers)
           L == Range(idle) \cup Range(lazy)
           M == Range(idle') \cup Range(lazy')
<1>1. M = (L \cup {r}) \ W /\ L \subseteq Slaves
  <2>1. M = (L \cup {r}) \ W
    OBVIOUS
  <2>2. idle \in Seq(Slaves) /\ lazy \in Seq(Slaves) /\ IsInjective(idle) /\ IsInjective(lazy)
    BY DEF TypeInv, ShapeInv
  <2>3. Range(idle) \in SUBSET Slaves /\ Range(lazy) \in SUBSET Slaves
    BY <2>2, RangeCardinality
  <2> QED  BY <2>1, <2>3
<1>2. /\ j \in Jobs /\ j.sim_num = i /\ Has(r, j) /\ slave' = slave
      /\ workers \in Seq(Slaves)
      /\ \A k \in 1 .. Len(workers) : batch[k] \in Jobs
  BY DEF Delivers
<1>3. /\ \A k \in 1 .. Len(workers) : Has(workers[k], batch[k])'
      /\ \A q \in Slaves : q \notin W /\ q # r =>
            /\ Nothing(q)' <=> Nothing(q)
            /\ \A m \in Jobs : Has(q, m)' <=> Has(q, m)
      /\ r \notin W => Nothing(r)'
      /\ slave[r] = "waiting"
  BY Delivered
<1>4. \A q \in W : \E k \in 1 .. Len(workers) : q = workers[k]
  BY <1>2, LenProperties DEF Range
<1>5. jobs \in Nat /\ \A m \in Jobs : m.tag \in Nat
  BY DEF TypeInv, Jobs
<1> HIDE DEF W, L
<1>6. ASSUME NEW q \in Slaves
      PROVE  Nothing(q)' \/ \E m \in Jobs : m.tag < jobs' /\ Has(q, m)'
  <2>1. CASE q \in W
    BY <2>1, <1>2, <1>3, <1>4
  <2>2. CASE q \notin W /\ q = r
    BY <2>2, <1>3
  <2>3. CASE q \notin W /\ q # r
    <3>1. Nothing(q) \/ \E m \in Jobs : m.tag < jobs /\ Has(q, m)
      BY DEF ShapeInv
    <3>2. \A m \in Jobs : m.tag < jobs => m.tag < jobs'
      BY <1>5
    <3> QED  BY <2>3, <3>1, <3>2, <1>3
  <2> QED  BY <2>1, <2>2, <2>3
<1>7. ASSUME NEW q \in M
      PROVE  Nothing(q)' /\ slave'[q] = "waiting"
  <2>1. q \in Slaves /\ q \notin W /\ (q \in L \/ q = r)
    BY <1>1
  <2>2. CASE q = r
    BY <2>1, <2>2, <1>2, <1>3
  <2>3. CASE q # r
    <3>1. Nothing(q) /\ slave[q] = "waiting"
      BY <2>1, <2>3 DEF ShapeInv, L
    <3> QED  BY <2>1, <2>3, <3>1, <1>2, <1>3
  <2> QED  BY <2>2, <2>3
<1>8. ShapeInv'
  BY <1>6, <1>7 DEF ShapeInv
<1>9. ListedInv'
  <2> SUFFICES ASSUME Nobody', FirstJobs = nodes - 1, NEW q \in Slaves, Nothing(q)'
               PROVE  q \in M
    BY DEF ListedInv
  <2>1. Nobody
    BY <1>2 DEF Nobody
  <2>2. q \notin W
    <3>1. SUFFICES ASSUME q \in W PROVE FALSE
      OBVIOUS
    <3>2. PICK k \in 1 .. Len(workers) : q = workers[k]
      BY <3>1, <1>4
    <3>3. Has(q, batch[k])'
      BY <3>2, <1>3
    <3> QED  BY <3>3 DEF Has, Nothing
  <2>3. CASE q = r
    BY <2>2, <2>3, <1>1
  <2>4. CASE q # r
    BY <2>1, <2>2, <2>4, <1>1, <1>3 DEF ListedInv, L
  <2> QED  BY <2>3, <2>4
<1>10. CountInv'
  <2>1. /\ Cardinality(Busy(i)') = (Cardinality(Busy(i)) - 1) + Len(workers)
        /\ Cardinality(Busy(i)) \in Nat \ {0}
        /\ \A m \in Sims : m # i => Busy(m)' = Busy(m)
    BY BusyStep
  <2>2. /\ received \in [Sims -> Nat] /\ simReplications \in [Sims -> Nat]
        /\ Len(workers) \in Nat
    BY <1>2, LenProperties DEF TypeInv
  <2>3. /\ Expected(i)' = (Expected(i) - 1) + Len(workers) /\ Expected(i) \in Int
        /\ \A m \in Sims : m # i => Expected(m)' = Expected(m)
    <3> DEFINE n == Len(workers)
    <3>1. /\ received'[i] = received[i] + 1
          /\ simReplications'[i] = simReplications[i] + n
          /\ \A m \in Sims : m # i => /\ received'[m] = received[m]
                                      /\ simReplications'[m] = simReplications[m]
      BY <2>2
    <3>2. \A m : Expected(m)' = simReplications'[m] - received'[m]
      BY DEF Expected
    <3>3. n \in Nat /\ received[i] \in Nat /\ simReplications[i] \in Nat
      BY <2>2
    <3> HIDE DEF n
    <3>4. (simReplications[i] + n) - (received[i] + 1) = (simReplications[i] - received[i] - 1) + n
      BY <3>3
    <3>5. \A m : Expected(m) = simReplications[m] - received[m]
      BY DEF Expected
    <3>6. Expected(i)' = (Expected(i) - 1) + n /\ Expected(i) \in Int
      <4>1. Expected(i)' = simReplications'[i] - received'[i]
        BY <3>2
      <4>2. Expected(i) = simReplications[i] - received[i]
        BY <3>5
      <4> HIDE DEF Expected
      <4> QED  BY <4>1, <4>2, <3>1, <3>3, <3>4
    <3>7. \A m \in Sims : m # i => Expected(m)' = Expected(m)
      BY <3>1, <3>2, <3>5
    <3> QED  BY <3>6, <3>7 DEF n
  <2>4. Nobody' <=> Nobody
    BY <1>2 DEF Nobody
  <2>5. ASSUME NEW m \in Sims
        PROVE  /\ Cardinality(Busy(m))' <= Expected(m)'
               /\ Nobody' => Cardinality(Busy(m))' = Expected(m)'
    <3>1. /\ Cardinality(Busy(m)) <= Expected(m)
          /\ Nobody => Cardinality(Busy(m)) = Expected(m)
      BY DEF CountInv
    <3>2. CASE m = i
      <4>1. /\ Cardinality(Busy(i)) <= Expected(i)
            /\ Nobody => Cardinality(Busy(i)) = Expected(i)
        BY <3>1, <3>2
      <4> HIDE DEF Expected, Busy
      <4>2. /\ Cardinality(Busy(i))' <= Expected(i)'
            /\ Nobody' => Cardinality(Busy(i))' = Expected(i)'
        BY <4>1, <2>1, <2>2, <2>3, <2>4
      <4> QED  BY <3>2, <4>2
    <3>3. CASE m # i
      BY <3>1, <3>3, <2>1, <2>3, <2>4
    <3> QED  BY <3>2, <3>3
  <2>6. ASSUME NEW m \in significant'
        PROVE  Expected(m)' = 0
    <3>1. CASE m = i
      BY <3>1, <2>6
    <3>2. CASE m # i
      <4>1. m \in significant /\ m \in Sims
        BY <3>2, <2>6 DEF TypeInv
      <4> QED  BY <4>1, <3>2, <2>3 DEF CountInv
    <3> QED  BY <3>1, <3>2
  <2> QED  BY <2>5, <2>6 DEF CountInv
<1> QED  BY <1>8, <1>9, <1>10

\* The rank that delivers joins the team of its simulation.
LEMMA TeamJoins ==
    ASSUME TypeInv, ShapeInv, TeamInv,
           NEW r \in Slaves, r \notin Range(idle), NEW i \in Sims \ significant
    PROVE  \E team \in [Range(idle) \cup {r} -> Sims \ significant] :
              \A m \in Sims \ significant :
                 Cardinality({q \in Range(idle) \cup {r} : team[q] = m}) + Expected(m)
                    = simActiveReplications[m] + (IF m = i THEN 1 ELSE 0)
<1> DEFINE A == Range(idle)
           U == Sims \ significant
<1>1. IsFiniteSet(A)
  BY RangeCardinality DEF TypeInv, ShapeInv
<1>2. PICK team \in [A -> U] :
        \A m \in U : Cardinality({q \in A : team[q] = m}) + Expected(m)
                        = simActiveReplications[m]
  BY DEF TeamInv
<1> HIDE DEF A, U
<1> DEFINE t == [q \in A \cup {r} |-> IF q = r THEN i ELSE team[q]]
<1>3. t \in [A \cup {r} -> U]
  BY <1>2 DEF U
<1>4. ASSUME NEW m \in U
      PROVE  Cardinality({q \in A \cup {r} : t[q] = m}) + Expected(m)
                = simActiveReplications[m] + (IF m = i THEN 1 ELSE 0)
  <2> DEFINE X == {q \in A : team[q] = m}
             Y == {q \in A \cup {r} : t[q] = m}
  <2>1. r \notin A
    BY DEF A
  <2>2. IsFiniteSet(X)
    <3>1. X \in SUBSET A
      OBVIOUS
    <3> QED  BY <3>1, <1>1, FS_Subset
  <2>3. Expected(m) \in Int /\ simActiveReplications[m] \in Int
    BY DEF TypeInv, Expected, U
  <2>4. Cardinality(X) + Expected(m) = simActiveReplications[m]
    BY <1>2
  <2>5. CASE m = i
    <3>1. Y = X \cup {r} /\ r \notin X
      BY <2>1, <2>5
    <3> HIDE DEF X, Y
    <3>2. Cardinality(Y) = Cardinality(X) + 1 /\ Cardinality(X) \in Nat
      BY <3>1, <2>2, FS_AddElement, FS_CardinalityType
    <3>3. Cardinality(Y) + Expected(m) = simActiveReplications[m] + 1
      BY <3>2, <2>3, <2>4
    <3> QED  BY <3>3, <2>5 DEF Y
  <2>6. CASE m # i
    <3>1. Y = X
      BY <2>1, <2>6
    <3> HIDE DEF X
    <3>2. Cardinality(X) \in Nat
      BY <2>2, FS_CardinalityType
    <3> HIDE DEF Y
    <3>3. Cardinality(Y) + Expected(m) = simActiveReplications[m] + 0
      BY <3>1, <3>2, <2>3, <2>4
    <3> QED  BY <3>3, <2>6 DEF Y
  <2> QED  BY <2>5, <2>6
<1> QED  BY <1>3, <1>4 DEF A, U

\* When the last result of a batch is in, the batch fits into the idle nodes;
\* taking as many of them leaves the other teams complete.
LEMMA TeamLeaves ==
    ASSUME TypeInv, ShapeInv, TeamInv,
           NEW r \in Slaves, r \notin Range(idle), NEW i \in Sims \ significant,
           Expected(i) = 1
    PROVE  /\ simActiveReplications[i] <= Len(idle) + 1
           /\ \A B \in SUBSET (Range(idle) \cup {r}) :
                Cardinality(B) = Len(idle) + 1 - simActiveReplications[i] =>
                  \E t \in [B -> (Sims \ significant) \ {i}] :
                     \A m \in (Sims \ significant) \ {i} :
                        Cardinality({q \in B : t[q] = m}) + Expected(m)
                           = simActiveReplications[m]
<1> DEFINE A == Range(idle) \cup {r}
           U == Sims \ significant
<1>1. IsFiniteSet(A) /\ Cardinality(A) = Len(idle) + 1 /\ Len(idle) \in Nat
  <2>1. idle \in Seq(Slaves) /\ IsInjective(idle)
    BY DEF TypeInv, ShapeInv
  <2>2. IsFiniteSet(Range(idle)) /\ Cardinality(Range(idle)) = Len(idle)
    BY <2>1, RangeCardinality
  <2> QED  BY <2>1, <2>2, FS_AddElement, LenProperties
<1>2. PICK team \in [A -> U] :
        \A m \in U : Cardinality({q \in A : team[q] = m}) + Expected(m)
                        = simActiveReplications[m] + (IF m = i THEN 1 ELSE 0)
  BY TeamJoins
<1>3. \A m \in U : Expected(m) \in Int /\ simActiveReplications[m] \in Nat
  BY DEF TypeInv, Expected
<1>4. i \in U
  OBVIOUS
<1> HIDE DEF A, U
<1> DEFINE M == {q \in A : team[q] = i}
<1>5. M \in SUBSET A /\ IsFiniteSet(M) /\ Cardinality(M) <= Cardinality(A)
      /\ Cardinality(M) \in Nat
  <2>1. M \in SUBSET A
    OBVIOUS
  <2> HIDE DEF M
  <2> QED  BY <2>1, <1>1, FS_Subset, FS_CardinalityType
<1>6. Cardinality(M) = simActiveReplications[i]
  <2>1. Cardinality(M) + Expected(i) = simActiveReplications[i] + 1
    BY <1>2, <1>4
  <2> HIDE DEF M
  <2> QED  BY <2>1, <1>3, <1>4, <1>5
<1>7. simActiveReplications[i] <= Len(idle) + 1
  BY <1>1, <1>5, <1>6
<1>8. ASSUME NEW B \in SUBSET A, Cardinality(B) = Len(idle) + 1 - simActiveReplications[i]
      PROVE  \E t \in [B -> U \ {i}] : \A m \in U \ {i} :
                Cardinality({q \in B : t[q] = m}) + Expected(m) = simActiveReplications[m]
  <2>1. Cardinality(B) + Cardinality(M) = Cardinality(A)
    BY <1>1, <1>3, <1>4, <1>6, <1>8
  <2>2. PICK t \in [B -> U \ {i}] : \A m \in U \ {i} :
           Cardinality({q \in B : t[q] = m}) = Cardinality({q \in A : team[q] = m})
    <3>1. Cardinality(B) + Cardinality({q \in A : team[q] = i}) = Cardinality(A)
      BY <2>1 DEF M
    <3>2. IsFiniteSet(A) /\ team \in [A -> U]
      BY <1>1, <1>2
    <3> QED  BY ONLY <3>1, <3>2, <1>4, Reassigned, B \in SUBSET A
  <2>3. ASSUME NEW m \in U \ {i}
        PROVE  Cardinality({q \in B : t[q] = m}) + Expected(m) = simActiveReplications[m]
    <3>1. Cardinality({q \in A : team[q] = m}) + Expected(m) = simActiveReplications[m] + 0
      BY <1>2
    <3>2. simActiveReplications[m] + 0 = simActiveReplications[m]
      BY <1>3
    <3> QED  BY <3>1, <3>2, <2>2
  <2> QED  BY <2>2, <2>3
<1> QED  BY <1>7, <1>8 DEF A, U

\* A result is the only job of the rank it comes from, and its simulation is
\* one that the master waits for.
LEMMA ResultIsExpected ==
    ASSUME IInv, NEW r \in Slaves, Receive(r)
    PROVE  \E j \in Jobs :
              /\ outbox[r] = <<j>> /\ Has(r, j) /\ j = Head(outbox[r])
              /\ j.sim_num \in Sims \ significant /\ Expected(j.sim_num) \in Nat \ {0}
              /\ r \notin Range(idle) \cup Range(lazy)
<1>1. phase = "collecting" /\ outbox[r] # <<>>
  BY DEF Receive
<1>2. TypeInv /\ ShapeInv /\ CountInv
  BY <1>1 DEF IInv
<1>3. PICK j \in Jobs : Has(r, j)
  BY <1>1, <1>2 DEF ShapeInv, Nothing
<1>4. outbox[r] = <<j>>
  BY <1>1, <1>3 DEF Has
<1>5. j.sim_num \in Sims
  BY DEF Jobs
<1> QED  BY <1>2, <1>3, <1>4, <1>5, Deliverer

\* Rank r joins the idle nodes.
LEMMA IdleNow ==
    ASSUME TypeInv, ShapeInv, NEW r \in Slaves, r \notin Range(idle) \cup Range(lazy)
    PROVE  /\ Append(idle, r) \in Seq(Slaves) /\ IsInjective(Append(idle, r))
           /\ Len(Append(idle, r)) = Len(idle) + 1 /\ Len(idle) \in Nat
           /\ Range(Append(idle, r)) = Range(idle) \cup {r}
           /\ Range(Append(idle, r)) \cap Range(lazy) = {}
           /\ lazy \in Seq(Slaves) /\ IsInjective(lazy) /\ Len(lazy) \in Nat
<1>1. /\ idle \in Seq(Slaves) /\ IsInjective(idle) /\ lazy \in Seq(Slaves) /\ IsInjective(lazy)
      /\ Range(idle) \cap Range(lazy) = {}
  BY DEF TypeInv, ShapeInv
<1>2. Len(idle) \in Nat /\ Len(lazy) \in Nat
  BY <1>1, LenProperties
<1>3. /\ Append(idle, r) \in Seq(Slaves) /\ Len(Append(idle, r)) = Len(idle) + 1
      /\ Range(Append(idle, r)) = Range(idle) \cup {r}
      /\ IsInjective(Append(idle, r))
  BY <1>1, AppendFacts
<1> HIDE DEF Range, IsInjective
<1> QED  BY <1>1, <1>2, <1>3

\* Nothing is sent: an empty batch.
LEMMA NothingSent ==
    ASSUME TypeInv, ShapeInv,
           NEW r \in Slaves, NEW j \in Jobs, outbox[r] = <<j>>, Has(r, j),
           outbox' = [outbox EXCEPT ![r] = Tail(@)], UNCHANGED <<inbox, slave, current>>
    PROVE  /\ Delivers(r, j.sim_num, j, <<>>, <<>>)
           /\ <<>> \in Seq(Slaves) /\ Len(<<>>) = 0 /\ Range(<<>>) = {}
<1>1. /\ <<>> \in Seq(Slaves) /\ Len(<<>>) = 0 /\ Range(<<>>) = {} /\ IsInjective(<<>>)
      /\ DOMAIN <<>> = {} /\ <<>> \in [1 .. Len(<<>>) -> Jobs]
  BY DEF Range, IsInjective
<1>2. SendBatch(<<>>, <<>>)
  <2>1. \A q : {k \in DOMAIN <<>> : <<>>[k] = q} = {}
    BY <1>1
  <2>2. inbox' = [q \in Slaves |-> inbox[q]]
    BY DEF TypeInv
  <2> QED  BY <2>1, <2>2 DEF SendBatch
<1> QED  BY <1>1, <1>2 DEF Delivers

\* The batch is not over: the rank turns idle.
LEMMA IncompleteStep ==
    ASSUME IInv, NEW r \in Slaves, Receive(r), ~ Complete(Head(outbox[r]).sim_num)
    PROVE  IInv'
<1>1. PICK j \in Jobs :
        /\ outbox[r] = <<j>> /\ Has(r, j) /\ j = Head(outbox[r])
        /\ j.sim_num \in Sims \ significant /\ Expected(j.sim_num) \in Nat \ {0}
        /\ r \notin Range(idle) \cup Range(lazy)
  BY ResultIsExpected
<1> DEFINE i == j.sim_num
<1>2. i \in Sims /\ i \notin significant /\ j.sim_num = i /\ ~ Complete(i)
  BY <1>1
<1> HIDE DEF i
<1>3. /\ phase = "collecting" /\ outbox' = [outbox EXCEPT ![r] = Tail(@)]
      /\ UNCHANGED <<slave, current>>
      /\ received' = [received EXCEPT ![i] = @ + 1]
      /\ idle' = Append(idle, r)
      /\ UNCHANGED <<phase, inbox, jobs, lazy, simReplications,
                     simActiveReplications, significant, started>>
  <2>1. Head(outbox[r]).sim_num = i
    BY <1>1, <1>2
  <2> QED  BY <2>1, <1>2 DEF Receive
<1>4. TypeInv /\ ShapeInv /\ ListedInv /\ CountInv /\ TeamInv /\ NumberInv
      /\ IsFiniteSet(started) /\ Cardinality(started) = jobs - 1
  BY <1>3 DEF IInv
<1>5. /\ Append(idle, r) \in Seq(Slaves) /\ IsInjective(Append(idle, r))
      /\ Range(Append(idle, r)) = Range(idle) \cup {r}
      /\ Range(Append(idle, r)) \cap Range(lazy) = {} /\ IsInjective(lazy)
  BY <1>1, <1>4, IdleNow
<1>6. Delivers(r, i, j, <<>>, <<>>) /\ Len(<<>>) = 0 /\ Range(<<>>) = {}
  BY <1>1, <1>2, <1>3, <1>4, NothingSent
<1>7. inbox' \in [Slaves -> Seq(Messages)] /\ outbox' \in [Slaves -> Seq(Messages)]
  BY <1>2, <1>4, <1>6, Delivered
<1>8. TypeInv'
  <2>1. received' \in [Sims -> Nat]
    <3>1. received \in [Sims -> Nat] /\ received[i] + 1 \in Nat
      BY <1>2, <1>4 DEF TypeInv
    <3> QED  BY <3>1, <1>3
  <2>2. idle' \in Seq(Slaves)
    BY <1>3, <1>5
  <2> QED  BY <2>1, <2>2, <1>3, <1>4, <1>7 DEF TypeInv
<1>9. ShapeInv' /\ ListedInv' /\ CountInv'
  <2>1. simReplications' = [simReplications EXCEPT ![i] = @ + Len(<<>>)]
    BY <1>2, <1>3, <1>4, <1>6 DEF TypeInv
  <2>2. jobs' \in Nat /\ jobs' >= jobs
    BY <1>3, <1>4 DEF TypeInv
  <2>3. significant' \in SUBSET (significant \cup {i}) /\ i \notin significant'
    BY <1>2, <1>3
  <2>4. Range(idle') \cup Range(lazy')
          = (Range(idle) \cup Range(lazy) \cup {r}) \ Range(<<>>)
    BY <1>3, <1>5, <1>6
  <2>5. IsInjective(idle') /\ IsInjective(lazy') /\ Range(idle') \cap Range(lazy') = {}
    BY <1>3, <1>5
  <2>6. \A k \in 1 .. Len(<<>>) : <<>>[k].tag < jobs'
    BY <1>6
  <2> HIDE DEF Delivers, Range, IsInjective
  <2> QED  BY <1>2, <1>3, <1>4, <1>6, <2>1, <2>2, <2>3, <2>4, <2>5, <2>6, BooksStep
<1>10. TeamInv'
  <2>1. PICK team \in [Range(idle) \cup {r} -> Sims \ significant] :
          \A m \in Sims \ significant :
             Cardinality({q \in Range(idle) \cup {r} : team[q] = m}) + Expected(m)
                = simActiveReplications[m] + (IF m = i THEN 1 ELSE 0)
    <3>1. r \notin Range(idle) /\ i \in Sims \ significant
      BY <1>1, <1>2
    <3> QED  BY <3>1, <1>4, TeamJoins
  <2>2. \A m \in Sims : /\ Expected(m) \in Int /\ simActiveReplications[m] \in Nat
                        /\ Expected(m)' = Expected(m) - (IF m = i THEN 1 ELSE 0)
    <3>1. /\ received \in [Sims -> Nat] /\ simReplications \in [Sims -> Nat]
          /\ simActiveReplications \in [Sims -> Nat]
      BY <1>4 DEF TypeInv
    <3>2. received' = [received EXCEPT ![i] = @ + 1] /\ simReplications' = simReplications
      BY <1>3
    <3> QED  BY <3>1, <3>2 DEF Expected
  <2>3. Range(idle') = Range(idle) \cup {r}
    BY <1>3, <1>5
  <2> DEFINE A == Range(idle) \cup {r}
  <2>4. IsFiniteSet(A)
    <3>1. A = Range(Append(idle, r))
      BY <1>5
    <3>2. IsFiniteSet(Range(Append(idle, r)))
      BY <1>5, RangeCardinality
    <3> QED  BY <3>1, <3>2
  <2> HIDE DEF A, Expected
  <2>5. ASSUME NEW m \in Sims \ significant
        PROVE  Cardinality({q \in A : team[q] = m}) + Expected(m)' = simActiveReplications[m]
    <3> DEFINE X == {q \in A : team[q] = m}
    <3>1. Cardinality(X) \in Nat
      <4>1. X \in SUBSET A
        OBVIOUS
      <4> QED  BY <4>1, <2>4, FS_Subset, FS_CardinalityType
    <3>2. Cardinality(X) + Expected(m) = simActiveReplications[m] + (IF m = i THEN 1 ELSE 0)
      BY <2>1 DEF A
    <3> HIDE DEF X
    <3> QED  BY <3>1, <3>2, <2>2 DEF X
  <2>6. \E t \in [Range(idle') -> Sims \ significant'] :
          \A m \in Sims \ significant' :
             Cardinality({q \in Range(idle') : t[q] = m}) + Expected(m)'
                = simActiveReplications'[m]
    BY <2>1, <2>3, <2>5, <1>3 DEF A
  <2> QED  BY <2>6, <1>3, <1>4 DEF TeamInv
<1>11. NumberInv'
  BY <1>3, <1>4 DEF NumberInv
<1> QED  BY <1>3, <1>4, <1>8, <1>9, <1>10, <1>11 DEF IInv

\* When rank r completes a batch of simulation i: the nodes taken from idleNodes,
\* and those that stay.
IdleWith(r) == Append(idle, r)
Taken(r, i) == Backs(IdleWith(r), simActiveReplications[i])
Stay(r, i)  == PopBack(IdleWith(r), simActiveReplications[i])

\* As many nodes are idle then as the batch had, and those that stay are the
\* other teams.
LEMMA LastOfBatch ==
    ASSUME IInv, NEW r \in Slaves, Receive(r),
           NEW i \in Sims \ significant, Complete(i),
           r \notin Range(idle) \cup Range(lazy), Expected(i) \in Nat \ {0}
    PROVE  /\ received[i] + 1 = simReplications[i]
           /\ simActiveReplications[i] \in 0 .. Len(IdleWith(r))
           /\ InitReplications[i] <= simActiveReplications[i]
           /\ Len(IdleWith(r)) \in Nat
           /\ \E t \in [Range(Stay(r, i)) -> (Sims \ significant) \ {i}] :
                 \A m \in (Sims \ significant) \ {i} :
                    Cardinality({q \in Range(Stay(r, i)) : t[q] = m}) + Expected(m)
                       = simActiveReplications[m]
           /\ Stay(r, i) \in Seq(Slaves) /\ Taken(r, i) \in Seq(Slaves)
           /\ Len(Taken(r, i)) = simActiveReplications[i]
           /\ IsInjective(Stay(r, i)) /\ IsInjective(Taken(r, i))
           /\ Range(Stay(r, i)) \cap Range(Taken(r, i)) = {}
           /\ Range(Stay(r, i)) \cup Range(Taken(r, i)) = Range(idle) \cup {r}
<1>1. TypeInv /\ ShapeInv /\ TeamInv
  BY DEF IInv, Receive
<1>2. received[i] + 1 = simReplications[i] /\ Expected(i) = 1
  <2>1. received[i] \in Nat /\ simReplications[i] \in Nat
    BY <1>1 DEF TypeInv
  <2>2. received[i] + 1 >= simReplications[i]
    BY DEF Complete
  <2> QED  BY <2>1, <2>2 DEF Expected
<1> DEFINE n == simActiveReplications[i]
<1>3. /\ IdleWith(r) \in Seq(Slaves) /\ IsInjective(IdleWith(r))
      /\ Len(IdleWith(r)) = Len(idle) + 1 /\ Len(idle) \in Nat
      /\ Range(IdleWith(r)) = Range(idle) \cup {r}
  BY <1>1, IdleNow DEF IdleWith
<1>4. r \notin Range(idle)
  OBVIOUS
<1>5. /\ n <= Len(idle) + 1
      /\ \A B \in SUBSET (Range(idle) \cup {r}) :
           Cardinality(B) = Len(idle) + 1 - n =>
             \E t \in [B -> (Sims \ significant) \ {i}] :
                \A m \in (Sims \ significant) \ {i} :
                   Cardinality({q \in B : t[q] = m}) + Expected(m) = simActiveReplications[m]
  BY <1>1, <1>2, <1>4, TeamLeaves
<1>6. n \in 0 .. Len(IdleWith(r)) /\ InitReplications[i] <= n
  BY <1>1, <1>3, <1>5 DEF TypeInv, TeamInv
<1>7. /\ Stay(r, i) \in Seq(Slaves) /\ Len(Stay(r, i)) = Len(IdleWith(r)) - n
      /\ Taken(r, i) \in Seq(Slaves) /\ Len(Taken(r, i)) = n
      /\ IsInjective(Stay(r, i)) /\ IsInjective(Taken(r, i))
      /\ Range(Stay(r, i)) \cap Range(Taken(r, i)) = {}
      /\ Range(Stay(r, i)) \cup Range(Taken(r, i)) = Range(IdleWith(r))
  BY <1>3, <1>6, BackFacts DEF Stay, Taken
<1> DEFINE B == Range(Stay(r, i))
<1>8. B \in SUBSET (Range(idle) \cup {r})
  BY <1>3, <1>7
<1>9. Cardinality(B) = Len(idle) + 1 - n
  <2>1. Cardinality(B) = Len(Stay(r, i))
    BY <1>7, RangeCardinality
  <2> QED  BY <2>1, <1>3, <1>7
<1>10. \E t \in [B -> (Sims \ significant) \ {i}] :
          \A m \in (Sims \ significant) \ {i} :
             Cardinality({q \in B : t[q] = m}) + Expected(m) = simActiveReplications[m]
  <2> HIDE DEF B, n
  <2> QED  BY <1>5, <1>8, <1>9
<1>11. /\ n \in 0 .. Len(IdleWith(r)) /\ Len(IdleWith(r)) \in Nat
       /\ Range(Stay(r, i)) \cup Range(Taken(r, i)) = Range(idle) \cup {r}
  BY <1>3, <1>6, <1>7
<1> QED  BY <1>2, <1>6, <1>7, <1>10, <1>11, Zenon

\* Not confident: the nodes of the batch and the lazy ones get further jobs.
LEMMA MoreJobsStep ==
    ASSUME IInv, NEW r \in Slaves, Receive(r),
           NEW j \in Jobs, NEW i \in Sims \ significant, j.sim_num = i,
           outbox[r] = <<j>>, Has(r, j), Complete(i),
           Expected(i) \in Nat \ {0}, r \notin Range(idle) \cup Range(lazy),
           received' = [received EXCEPT ![i] = @ + 1],
           NotConfident(i, IdleWith(r))
    PROVE  IInv'
<1> DEFINE n == simActiveReplications[i]
           k == BatchSize(i, IdleWith(r))
           workers == Taken(r, i) \o Reverse(lazy)
           batch == [m \in 1 .. k |->
                       [tag |-> jobs + m - 1, sim_num |-> i, rep_num |-> received[i] + 1 + m]]
<1>1. /\ TypeInv /\ ShapeInv /\ ListedInv /\ CountInv /\ TeamInv /\ NumberInv
      /\ IsFiniteSet(started) /\ Cardinality(started) = jobs - 1 /\ phase = "collecting"
  BY DEF IInv, Receive
<1>2. /\ received[i] + 1 = simReplications[i]
      /\ n \in 0 .. Len(IdleWith(r)) /\ InitReplications[i] <= n
      /\ Len(IdleWith(r)) \in Nat
      /\ \E t \in [Range(Stay(r, i)) -> (Sims \ significant) \ {i}] :
            \A m \in (Sims \ significant) \ {i} :
               Cardinality({q \in Range(Stay(r, i)) : t[q] = m}) + Expected(m)
                  = simActiveReplications[m]
      /\ Stay(r, i) \in Seq(Slaves) /\ Taken(r, i) \in Seq(Slaves)
      /\ Len(Taken(r, i)) = n
      /\ IsInjective(Stay(r, i)) /\ IsInjective(Taken(r, i))
      /\ Range(Stay(r, i)) \cap Range(Taken(r, i)) = {}
      /\ Range(Stay(r, i)) \cup Range(Taken(r, i)) = Range(idle) \cup {r}
  BY LastOfBatch
<1>3. /\ Range(IdleWith(r)) = Range(idle) \cup {r} /\ (Range(idle) \cup {r}) \cap Range(lazy) = {}
      /\ lazy \in Seq(Slaves) /\ IsInjective(lazy) /\ Len(lazy) \in Nat
  BY <1>1, IdleNow DEF IdleWith
<1>4. InitReplications[i] \in Nat
  BY RanksAddUp
<1>5. k = n + Len(lazy) /\ k \in Nat /\ k - Len(lazy) = n
  <2>1. n \in Nat /\ ~ (InitReplications[i] > Len(IdleWith(r)))
    BY <1>2, <1>4
  <2>2. k = n + Len(lazy)
    BY <2>1 DEF BatchSize
  <2> HIDE DEF k, n
  <2> QED  BY <2>1, <2>2, <1>3
<1>6. UNCHANGED <<significant, phase>> /\ MoreJobs(i, IdleWith(r), k)
  <2>1. k - Len(lazy) \in 0 .. Len(IdleWith(r))
    BY <1>2, <1>5
  <2> QED  BY <2>1 DEF NotConfident
<1> HIDE DEF k
<1>7. /\ SendBatch(workers, batch)
      /\ idle' = Stay(r, i) /\ lazy' = <<>>
      /\ simActiveReplications' = [simActiveReplications EXCEPT ![i] = k]
      /\ simReplications' = [simReplications EXCEPT ![i] = @ + k]
      /\ jobs' = jobs + k
      /\ started' = started \cup {<<i, batch[m].rep_num>> : m \in 1 .. k}
  BY <1>5, <1>6 DEF MoreJobs, SendJobs, Stay, Taken
<1>17. k \in Nat /\ jobs' = jobs + k
  BY <1>5, <1>7
<1>18. /\ simActiveReplications' = [simActiveReplications EXCEPT ![i] = k]
       /\ simReplications' = [simReplications EXCEPT ![i] = @ + k]
  BY <1>7
<1>8. /\ workers \in Seq(Slaves) /\ Len(workers) = k /\ IsInjective(workers)
      /\ Range(workers) = Range(Taken(r, i)) \cup Range(lazy)
  <2>1. /\ Reverse(lazy) \in Seq(Slaves) /\ Len(Reverse(lazy)) = Len(lazy)
        /\ Range(Reverse(lazy)) = Range(lazy) /\ IsInjective(Reverse(lazy))
    BY <1>3, ReverseFacts
  <2>2. Range(Taken(r, i)) \cap Range(Reverse(lazy)) = {}
    BY <1>2, <1>3, <2>1
  <2>3. /\ workers \in Seq(Slaves) /\ Len(workers) = Len(Taken(r, i)) + Len(Reverse(lazy))
        /\ Range(workers) = Range(Taken(r, i)) \cup Range(Reverse(lazy))
        /\ IsInjective(workers)
    <3>1. /\ Taken(r, i) \in Seq(Slaves) /\ Reverse(lazy) \in Seq(Slaves)
          /\ IsInjective(Taken(r, i)) /\ IsInjective(Reverse(lazy))
      BY <1>2, <2>1
    <3> QED  BY <3>1, <2>2, ConcatFacts
  <2> QED  BY <2>1, <2>3, <1>2, <1>5
<1>9. /\ batch \in [1 .. Len(workers) -> Jobs]
      /\ \A m \in 1 .. Len(workers) : batch[m].sim_num = i /\ batch[m].tag < jobs'
      /\ \A m \in 1 .. k : batch[m].rep_num = simReplications[i] + m
  <2>1. jobs \in Nat \ {0} /\ received[i] \in Nat /\ simReplications[i] \in Nat
    BY <1>1 DEF TypeInv
  <2>2. ASSUME NEW m \in 1 .. k
        PROVE  /\ batch[m] \in Jobs /\ batch[m].sim_num = i /\ batch[m].tag < jobs'
               /\ batch[m].rep_num = simReplications[i] + m
    <3>1. /\ batch[m].sim_num = i /\ batch[m].tag = jobs + m - 1
          /\ batch[m].rep_num = received[i] + 1 + m
          /\ batch[m] = [tag |-> jobs + m - 1, sim_num |-> i, rep_num |-> received[i] + 1 + m]
      OBVIOUS
    <3> HIDE DEF batch
    <3>2. jobs + m - 1 \in Nat /\ jobs + m - 1 < jobs' /\ received[i] + 1 + m \in Int
      BY <2>1, <1>17
    <3>3. batch[m] \in Jobs
      BY <3>1, <3>2 DEF Jobs
    <3> QED  BY <3>1, <3>2, <3>3, <1>2
  <2>3. DOMAIN batch = 1 .. k /\ batch = [m \in 1 .. k |-> batch[m]]
    OBVIOUS
  <2> HIDE DEF batch
  <2> QED  BY <2>2, <2>3, <1>8
<1> HIDE DEF batch, workers, n
<1>10. /\ outbox' = [outbox EXCEPT ![r] = Tail(@)] /\ UNCHANGED <<slave, current>>
  BY DEF Receive
<1>11. Delivers(r, i, j, workers, batch)
  <2>1. Range(workers) \subseteq Range(idle) \cup Range(lazy) \cup {r}
    BY <1>2, <1>8
  <2> QED  BY <2>1, <1>7, <1>8, <1>9, <1>10 DEF Delivers
<1>12. inbox' \in [Slaves -> Seq(Messages)] /\ outbox' \in [Slaves -> Seq(Messages)]
  BY <1>1, <1>11, Delivered
<1>13. TypeInv'
  <2>1. started' \in SUBSET (Sims \X Int)
    <3>1. \A m \in 1 .. k : batch[m].rep_num \in Int
      BY <1>1, <1>9 DEF TypeInv
    <3> QED  BY <3>1, <1>1, <1>7 DEF TypeInv
  <2>2. /\ jobs' \in Nat \ {0}
        /\ simActiveReplications' \in [Sims -> Nat] /\ simReplications' \in [Sims -> Nat]
        /\ received' \in [Sims -> Nat]
    <3>1. /\ jobs \in Nat \ {0} /\ received \in [Sims -> Nat]
          /\ simActiveReplications \in [Sims -> Nat] /\ simReplications \in [Sims -> Nat]
      BY <1>1 DEF TypeInv
    <3>2. jobs' \in Nat \ {0}
      BY <3>1, <1>17
    <3>3. simActiveReplications' \in [Sims -> Nat]
      BY <3>1, <1>17, <1>18
    <3>5. simReplications' \in [Sims -> Nat]
      <4>1. simReplications[i] + k \in Nat
        BY <3>1, <1>17
      <4> QED  BY <4>1, <3>1, <1>18
    <3>4. received' \in [Sims -> Nat]
      BY <3>1
    <3> QED  BY <3>2, <3>3, <3>4, <3>5
  <2>3. idle' \in Seq(Slaves) /\ lazy' \in Seq(Slaves)
    BY <1>2, <1>7
  <2> QED  BY <2>1, <2>2, <2>3, <1>1, <1>6, <1>10, <1>12 DEF TypeInv
<1>14. ShapeInv' /\ ListedInv' /\ CountInv'
  <2>1. Range(lazy') = {} /\ IsInjective(lazy')
    BY <1>7 DEF Range, IsInjective
  <2>2. Range(idle') \cup Range(lazy')
          = (Range(idle) \cup Range(lazy) \cup {r}) \ Range(workers)
    BY <2>1, <1>2, <1>3, <1>7, <1>8
  <2>3. IsInjective(idle') /\ Range(idle') \cap Range(lazy') = {}
    BY <2>1, <1>2, <1>7
  <2>4. jobs' \in Nat /\ jobs' >= jobs
    <3>1. jobs \in Nat
      BY <1>1 DEF TypeInv
    <3> QED  BY <3>1, <1>17
  <2>5. simReplications' = [simReplications EXCEPT ![i] = @ + Len(workers)]
    BY <1>18, <1>8
  <2>6. significant' \in SUBSET (significant \cup {i}) /\ i \notin significant'
    BY <1>6
  <2>7. \A m \in 1 .. Len(workers) : batch[m].tag < jobs'
    BY <1>9
  <2> QED  BY <2>1, <2>2, <2>3, <2>4, <2>5, <2>6, <2>7, <1>1, <1>11, BooksStep, Zenon
<1>15. TeamInv'
  <2>1. PICK t \in [Range(Stay(r, i)) -> (Sims \ significant) \ {i}] :
          \A m \in (Sims \ significant) \ {i} :
             Cardinality({q \in Range(Stay(r, i)) : t[q] = m}) + Expected(m)
                = simActiveReplications[m]
    BY <1>2
  <2>2. /\ simActiveReplications'[i] = k /\ Expected(i)' = k
        /\ \A m \in Sims : m # i => /\ simActiveReplications'[m] = simActiveReplications[m]
                                    /\ Expected(m)' = Expected(m)
    <3>1. /\ received'[i] = received[i] + 1 /\ simReplications'[i] = simReplications[i] + k
          /\ received[i] \in Nat /\ simReplications[i] \in Nat
      BY <1>1, <1>7 DEF TypeInv
    <3>3. received[i] + 1 = simReplications[i]
      BY <1>2
    <3>2. simReplications'[i] - received'[i] = k
      BY <3>1, <3>3, <1>17
    <3> QED  BY <3>2, <1>1, <1>7 DEF TypeInv, Expected
  <2>3. Cardinality({q \in Range(Stay(r, i)) : t[q] = i}) = 0
    <3>1. {q \in Range(Stay(r, i)) : t[q] = i} = {}
      BY <2>1
    <3> QED  BY <3>1, FS_EmptySet
  <2>4. ASSUME NEW m \in Sims \ significant
        PROVE  Cardinality({q \in Range(Stay(r, i)) : t[q] = m}) + Expected(m)'
                  = simActiveReplications'[m]
    <3>1. CASE m = i
      <4>1. 0 + k = k
        BY <1>5
      <4> QED  BY <4>1, <3>1, <2>2, <2>3
    <3>2. CASE m # i
      BY <3>2, <2>1, <2>2
    <3> QED  BY <3>1, <3>2
  <2>5. \A m \in Sims : InitReplications[m] <= simActiveReplications'[m]
    <3>1. n <= k
      BY <1>2, <1>3, <1>5
    <3>2. \A m \in Sims : InitReplications[m] <= simActiveReplications[m]
      BY <1>1 DEF TeamInv
    <3>3. InitReplications[i] <= k
      BY <3>1, <1>2, <1>4, <1>5
    <3> QED  BY <3>2, <3>3, <2>2
  <2>6. t \in [Range(idle') -> Sims \ significant']
    BY <2>1, <1>6, <1>7
  <2>7. \A m \in Sims \ significant' :
           Cardinality({q \in Range(idle') : t[q] = m}) + Expected(m)' = simActiveReplications'[m]
    BY <2>4, <1>6, <1>7
  <2> QED  BY <2>5, <2>6, <2>7 DEF TeamInv
<1>16. /\ NumberInv' /\ IsFiniteSet(started') /\ Cardinality(started') = jobs' - 1
  <2> DEFINE f == [m \in 1 .. k |-> <<i, batch[m].rep_num>>]
             T == {<<i, batch[m].rep_num>> : m \in 1 .. k}
  <2>1. simReplications[i] \in Nat /\ simReplications'[i] = simReplications[i] + k
        /\ \A m \in Sims : m # i => simReplications'[m] = simReplications[m]
    BY <1>1, <1>7 DEF TypeInv
  <2>0. /\ \A s \in started : /\ s \in Sims \X Int /\ s[1] \in Sims /\ s[2] \in Int
                              /\ s[2] <= simReplications[s[1]]
        /\ jobs \in Nat
    <3>1. started \in SUBSET (Sims \X Int) /\ jobs \in Nat
      BY <1>1 DEF TypeInv
    <3>2. \A s \in Sims \X Int : s[1] \in Sims /\ s[2] \in Int
      OBVIOUS
    <3>3. \A s \in started : s \in Sims \X Int
      BY <3>1
    <3>4. \A s \in started : s[2] <= simReplications[s[1]]
      BY <1>1 DEF NumberInv
    <3> QED  BY <3>1, <3>2, <3>3, <3>4
  <2>2. IsFiniteSet(T) /\ Cardinality(T) = k
    <3>1. f \in [1 .. k -> T] /\ \A t \in T : \E m \in 1 .. k : f[m] = t
      OBVIOUS
    <3>2. \A a, b \in 1 .. k : a # b => f[a] # f[b]
      BY <2>1, <1>9
    <3>3. IsFiniteSet(1 .. k) /\ Cardinality(1 .. k) = k
      BY <1>5, FS_Interval
    <3> HIDE DEF f, T
    <3>4. IsFiniteSet(T) /\ Cardinality(T) = Cardinality(1 .. k)
      BY ONLY <3>1, <3>2, <3>3, ImageCardinality
    <3> QED  BY <3>3, <3>4
  <2>3. \A s \in T : s[1] = i /\ s[2] > simReplications[i] /\ s[2] <= simReplications'[i]
    <3>1. \A m \in 1 .. k : /\ simReplications[i] + m > simReplications[i]
                            /\ simReplications[i] + m <= simReplications'[i]
      BY <2>1, <1>5
    <3> QED  BY <3>1, <1>9
  <2>4. started \cap T = {}
    <3>1. SUFFICES ASSUME NEW s \in started, s \in T PROVE FALSE
      OBVIOUS
    <3> HIDE DEF T
    <3>2. s[1] = i /\ s[2] > simReplications[i]
      BY <3>1, <2>3
    <3>3. s[2] <= simReplications[s[1]] /\ s[2] \in Int
      BY <2>0, <3>1
    <3> QED  BY <3>2, <3>3, <2>1
  <2>5. started' = started \cup T
    BY <1>7
  <2> HIDE DEF T, f
  <2>6. NumberInv'
    <3> SUFFICES ASSUME NEW s \in started'
                 PROVE  s[2] <= simReplications'[s[1]]
      BY DEF NumberInv
    <3>1. CASE s \in T
      BY <3>1, <2>3
    <3>2. CASE s \in started
      <4>1. s[1] \in Sims /\ s[2] \in Int /\ s[2] <= simReplications[s[1]]
        BY <3>2, <2>0
      <4>2. CASE s[1] = i
        BY <4>1, <4>2, <2>1, <1>5
      <4>3. CASE s[1] # i
        BY <4>1, <4>3, <2>1
      <4> QED  BY <4>2, <4>3
    <3> QED  BY <3>1, <3>2, <2>5
  <2>7. IsFiniteSet(started') /\ Cardinality(started') = Cardinality(started) + k
    <3>1. /\ IsFiniteSet(started \cup T)
          /\ Cardinality(started \cup T)
               = Cardinality(started) + Cardinality(T) - Cardinality(started \cap T)
      BY <1>1, <2>2, FS_Union
    <3>2. Cardinality(started \cap T) = 0
      BY <2>4, FS_EmptySet
    <3>3. Cardinality(started) \in Nat
      BY <1>1, FS_CardinalityType
    <3> QED  BY <3>1, <3>2, <3>3, <2>2, <2>5, <1>5
  <2>8. Cardinality(started') = jobs' - 1
    <3>1. Cardinality(started) = jobs - 1 /\ jobs' = jobs + k
      BY <1>1, <1>7
    <3> QED  BY <3>1, <2>0, <2>7, <1>5
  <2> QED  BY <2>6, <2>7, <2>8
<1> QED  BY <1>1, <1>6, <1>13, <1>14, <1>15, <1>16 DEF IInv

\* Confident: the nodes of the batch turn lazy.
LEMMA ConfidentStep ==
    ASSUME IInv, NEW r \in Slaves, Receive(r),
           NEW j \in Jobs, NEW i \in Sims \ significant, j.sim_num = i,
           outbox[r] = <<j>>, Has(r, j), Complete(i),
           Expected(i) \in Nat \ {0}, r \notin Range(idle) \cup Range(lazy),
           received' = [received EXCEPT ![i] = @ + 1],
           Confident(i, IdleWith(r))
    PROVE  IInv'
<1> DEFINE n == simActiveReplications[i]
<1>1. /\ TypeInv /\ ShapeInv /\ ListedInv /\ CountInv /\ TeamInv /\ NumberInv
      /\ IsFiniteSet(started) /\ Cardinality(started) = jobs - 1 /\ phase = "collecting"
  BY DEF IInv, Receive
<1>2. /\ received[i] + 1 = simReplications[i]
      /\ n \in 0 .. Len(IdleWith(r)) /\ Len(IdleWith(r)) \in Nat
      /\ \E t \in [Range(Stay(r, i)) -> (Sims \ significant) \ {i}] :
            \A m \in (Sims \ significant) \ {i} :
               Cardinality({q \in Range(Stay(r, i)) : t[q] = m}) + Expected(m)
                  = simActiveReplications[m]
      /\ Stay(r, i) \in Seq(Slaves) /\ Taken(r, i) \in Seq(Slaves)
      /\ IsInjective(Stay(r, i)) /\ IsInjective(Taken(r, i))
      /\ Range(Stay(r, i)) \cap Range(Taken(r, i)) = {}
      /\ Range(Stay(r, i)) \cup Range(Taken(r, i)) = Range(idle) \cup {r}
  BY LastOfBatch
<1>3. /\ Range(IdleWith(r)) = Range(idle) \cup {r} /\ (Range(idle) \cup {r}) \cap Range(lazy) = {}
      /\ lazy \in Seq(Slaves) /\ IsInjective(lazy)
  BY <1>1, IdleNow DEF IdleWith
<1>4. /\ significant' = significant \cup {i}
      /\ idle' = Stay(r, i) /\ lazy' = lazy \o Taken(r, i)
      /\ UNCHANGED <<phase, inbox, jobs, simReplications, simActiveReplications, started>>
  <2>1. n <= Len(IdleWith(r))
    BY <1>2
  <2> QED  BY <2>1 DEF Confident, Stay, Taken
<1> HIDE DEF n
<1>5. /\ lazy' \in Seq(Slaves) /\ IsInjective(lazy')
      /\ Range(lazy') = Range(lazy) \cup Range(Taken(r, i))
  <2>1. Range(lazy) \cap Range(Taken(r, i)) = {}
    BY <1>2, <1>3
  <2>2. Taken(r, i) \in Seq(Slaves) /\ IsInjective(Taken(r, i))
    BY <1>2
  <2>3. /\ lazy \o Taken(r, i) \in Seq(Slaves) /\ IsInjective(lazy \o Taken(r, i))
        /\ Range(lazy \o Taken(r, i)) = Range(lazy) \cup Range(Taken(r, i))
    BY <1>3, <2>1, <2>2, ConcatFacts
  <2> QED  BY <2>3, <1>4
<1>6. /\ outbox' = [outbox EXCEPT ![r] = Tail(@)] /\ UNCHANGED <<slave, current>>
  BY DEF Receive
<1>7. Delivers(r, i, j, <<>>, <<>>) /\ Len(<<>>) = 0 /\ Range(<<>>) = {}
  BY <1>1, <1>4, <1>6, NothingSent
<1>8. inbox' \in [Slaves -> Seq(Messages)] /\ outbox' \in [Slaves -> Seq(Messages)]
  BY <1>1, <1>7, Delivered
<1>9. TypeInv'
  <2>1. received' \in [Sims -> Nat]
    BY <1>1 DEF TypeInv
  <2>2. idle' \in Seq(Slaves) /\ lazy' \in Seq(Slaves) /\ significant' \in SUBSET Sims
    BY <1>1, <1>2, <1>4, <1>5 DEF TypeInv
  <2> QED  BY <2>1, <2>2, <1>1, <1>4, <1>6, <1>8 DEF TypeInv
<1>10. Expected(i)' = 0 /\ \A m \in Sims : m # i => Expected(m)' = Expected(m)
  <2>1. received'[i] = received[i] + 1 /\ simReplications'[i] = simReplications[i]
        /\ received[i] \in Nat /\ simReplications[i] \in Nat
    BY <1>1, <1>4 DEF TypeInv
  <2>2. simReplications'[i] - received'[i] = 0
    BY <2>1, <1>2
  <2> QED  BY <2>2, <1>1, <1>4 DEF TypeInv, Expected
<1>11. ShapeInv' /\ ListedInv' /\ CountInv'
  <2>1. Range(idle') \cup Range(lazy')
          = (Range(idle) \cup Range(lazy) \cup {r}) \ Range(<<>>)
    BY <1>2, <1>4, <1>5, <1>7
  <2>2. IsInjective(idle') /\ IsInjective(lazy') /\ Range(idle') \cap Range(lazy') = {}
    BY <1>2, <1>3, <1>4, <1>5
  <2>3. jobs' \in Nat /\ jobs' >= jobs
    BY <1>1, <1>4 DEF TypeInv
  <2>4. simReplications' = [simReplications EXCEPT ![i] = @ + Len(<<>>)]
    BY <1>1, <1>4, <1>7 DEF TypeInv
  <2>5. significant' \in SUBSET (significant \cup {i})
    BY <1>4
  <2>6. \A k \in 1 .. Len(<<>>) : <<>>[k].tag < jobs'
    BY <1>7
  <2> HIDE DEF Delivers, Range, IsInjective
  <2> QED  BY <1>1, <1>7, <1>10, <2>1, <2>2, <2>3, <2>4, <2>5, <2>6, BooksStep
<1>12. TeamInv'
  <2>1. PICK t \in [Range(Stay(r, i)) -> (Sims \ significant) \ {i}] :
          \A m \in (Sims \ significant) \ {i} :
             Cardinality({q \in Range(Stay(r, i)) : t[q] = m}) + Expected(m)
                = simActiveReplications[m]
    BY <1>2
  <2>2. Sims \ significant' = (Sims \ significant) \ {i}
    BY <1>4
  <2>3. t \in [Range(idle') -> Sims \ significant']
    BY <2>1, <2>2, <1>4
  <2>4. \A m \in Sims \ significant' :
           Cardinality({q \in Range(idle') : t[q] = m}) + Expected(m)' = simActiveReplications'[m]
    BY <2>1, <2>2, <1>4, <1>10
  <2> QED  BY <2>3, <2>4, <1>1, <1>4 DEF TeamInv
<1>13. NumberInv'
  BY <1>1, <1>4 DEF NumberInv
<1> QED  BY <1>1, <1>4, <1>9, <1>11, <1>12, <1>13 DEF IInv

LEMMA ReceiveStep ==
    ASSUME IInv, NEW r \in Slaves, Receive(r)
    PROVE  IInv'
<1>1. PICK j \in Jobs :
        /\ outbox[r] = <<j>> /\ Has(r, j) /\ j = Head(outbox[r])
        /\ j.sim_num \in Sims \ significant /\ Expected(j.sim_num) \in Nat \ {0}
        /\ r \notin Range(idle) \cup Range(lazy)
  BY ResultIsExpected
<1>2. CASE ~ Complete(j.sim_num)
  <2>1. Head(outbox[r]).sim_num = j.sim_num
    BY <1>1
  <2> QED  BY <1>2, <2>1, IncompleteStep
<1>3. CASE Complete(j.sim_num)
  <2>1. /\ received' = [received EXCEPT ![j.sim_num] = @ + 1]
        /\ \/ NotConfident(j.sim_num, IdleWith(r))
           \/ Confident(j.sim_num, IdleWith(r))
    BY <1>1, <1>3 DEF Receive, IdleWith
  <2> QED  BY <1>1, <1>3, <2>1, MoreJobsStep, ConfidentStep
<1> QED  BY <1>2, <1>3

\* The first jobs: one for each of the first ranks, as many for a simulation as
\* it has initial replications.
LEMMA FirstJobFacts ==
    ASSUME already_run = 0, NEW k \in 1 .. FirstJobs
    PROVE  /\ FirstJob(k) \in Jobs /\ FirstJob(k).tag = k
           /\ FirstJob(k).sim_num = FirstSim(k)
           /\ FirstJob(k).rep_num = k - RanksUpTo(FirstSim(k) - 1)
           /\ FirstSim(k) \in Sims /\ RanksUpTo(FirstSim(k) - 1) \in Nat
           /\ FirstJob(k).rep_num <= InitReplications[FirstSim(k)]
<1> DEFINE i == FirstSim(k)
<1>1. i \in Sims /\ RanksUpTo(i - 1) < k /\ k <= RanksUpTo(i)
  BY FirstSimOfRank
<1> HIDE DEF i
<1>2. i \in 1 .. runs /\ runs \in Nat /\ i - 1 \in 0 .. runs
  BY <1>1, RunsType DEF Sims
<1>3. /\ RanksUpTo(i - 1) \in Nat /\ RanksUpTo(i) = RanksUpTo(i - 1) + InitReplications[i]
      /\ InitReplications[i] \in Nat
  BY <1>1, <1>2, RanksAddUp
<1>4. k \in Nat /\ i + already_run = i
  BY <1>2
<1>5. FirstJob(k) = [tag |-> k, sim_num |-> i, rep_num |-> k - RanksUpTo(i - 1)]
  BY <1>4 DEF FirstJob, i
<1>6. k - RanksUpTo(i - 1) \in Int /\ k - RanksUpTo(i - 1) <= InitReplications[i]
  BY <1>1, <1>3, <1>4
<1> QED  BY <1>1, <1>3, <1>4, <1>5, <1>6 DEF Jobs, i

LEMMA FirstBatchesStep ==
    ASSUME already_run = 0, IInv, phase = "start", FirstBatches,
           UNCHANGED <<outbox, slave, current, idle, lazy, received, significant>>
    PROVE  IInv'
<1> DEFINE n == FirstJobs
           ranks == [k \in 1 .. n |-> k]
           batch == [k \in 1 .. n |-> FirstJob(k)]
<1>1. TypeInv /\ QuietInv /\ IsFiniteSet(started) /\ Cardinality(started) = jobs - 1
  BY DEF IInv
<1>2. /\ \A q \in Slaves : inbox[q] = <<>> /\ slave[q] = "waiting" /\ outbox[q] = <<>>
      /\ idle = <<>> /\ lazy = <<>> /\ significant = {} /\ started = {} /\ jobs = 1
      /\ received = [i \in Sims |-> 0]
  BY <1>1 DEF QuietInv
<1>3. simReplications' = InitReplications /\ simActiveReplications' = InitReplications
      /\ InitReplications \in [Sims -> Nat \ {0}]
  BY RanksAddUp DEF FirstBatches
<1>4. n \in Nat /\ nodes \in Nat \ {0}
  <2>1. runs * init_replications \in Nat
    BY RunsType, AllocationAssumption
  <2> QED  BY <2>1, RanksAddUp, SharesType, AllocationAssumption
<1>5. CASE ~ (FirstJobs < nodes)
  <2>1. phase' = "unsent" /\ UNCHANGED <<inbox, jobs, started>>
    BY <1>5 DEF FirstBatches
  <2>2. TypeInv'
    BY <2>1, <1>1, <1>3 DEF TypeInv
  <2>3. QuietInv'
    BY <2>1, <1>1 DEF QuietInv
  <2> QED  BY <2>1, <2>2, <2>3, <1>1 DEF IInv
<1>6. CASE FirstJobs < nodes
  <2>1. /\ phase' = "collecting" /\ SendBatch(ranks, batch)
        /\ started' = {<<batch[k].sim_num, batch[k].rep_num>> : k \in DOMAIN batch}
        /\ jobs' = jobs + n
    BY <1>6 DEF FirstBatches
  <2>2. /\ \A k \in 1 .. n : ranks[k] = k /\ k \in Slaves
        /\ ranks \in Seq(Slaves) /\ Len(ranks) = n /\ IsInjective(ranks) /\ Range(ranks) = 1 .. n
    <3>1. \A k \in 1 .. n : k \in Slaves
      BY <1>4, <1>6 DEF Slaves
    <3>2. ranks \in [1 .. n -> Slaves] /\ \A k \in 1 .. n : ranks[k] = k
      BY <3>1
    <3>3. DOMAIN ranks = 1 .. n /\ Range(ranks) = 1 .. n
      BY DEF Range
    <3> HIDE DEF ranks, n
    <3>4. ranks \in Seq(Slaves) /\ Len(ranks) = n
      BY <3>2, <1>4
    <3>5. IsInjective(ranks)
      BY <3>2, <3>3 DEF IsInjective
    <3> QED  BY <3>1, <3>2, <3>3, <3>4, <3>5
  <2>3. /\ \A k \in 1 .. n : inbox'[k] = <<FirstJob(k)>>
        /\ \A q \in Slaves : q \notin 1 .. n => inbox'[q] = <<>>
        /\ inbox' = [q \in Slaves |-> inbox'[q]]
    <3>1. \A k \in 1 .. n : batch[k] = FirstJob(k)
      OBVIOUS
    <3> HIDE DEF ranks, batch, n
    <3>2. /\ \A k \in 1 .. Len(ranks) : inbox'[ranks[k]] = Append(inbox[ranks[k]], batch[k])
          /\ \A q \in Slaves : q \notin Range(ranks) => inbox'[q] = inbox[q]
          /\ inbox' = [q \in Slaves |-> inbox'[q]]
      BY <2>1, <2>2, BatchSent
    <3>3. \A k \in 1 .. n : inbox[k] = <<>>
      BY <2>2, <1>2
    <3>4. \A k \in 1 .. n : inbox'[k] = <<FirstJob(k)>>
      <4> TAKE k \in 1 .. n
      <4>1. inbox'[k] = Append(inbox[k], batch[k])
        BY <3>2, <2>2
      <4>2. \A x : Append(<<>>, x) = <<x>>
        OBVIOUS
      <4>3. inbox'[k] = Append(<<>>, FirstJob(k))
        BY <4>1, <3>1, <3>3
      <4> QED  BY <4>2, <4>3
    <3>5. \A q \in Slaves : q \notin 1 .. n => inbox'[q] = <<>>
      BY <3>2, <2>2, <1>2
    <3> QED  BY <3>2, <3>4, <3>5
  <2>4. \A k \in 1 .. n : /\ FirstJob(k) \in Jobs /\ FirstJob(k).tag = k
                          /\ FirstJob(k).sim_num = FirstSim(k)
                          /\ FirstJob(k).rep_num = k - RanksUpTo(FirstSim(k) - 1)
                          /\ FirstSim(k) \in Sims /\ RanksUpTo(FirstSim(k) - 1) \in Nat
                          /\ FirstJob(k).rep_num <= InitReplications[FirstSim(k)]
    BY FirstJobFacts
  <2>5. \A k \in 1 .. n : Has(k, FirstJob(k))' /\ \A m \in Jobs : Has(k, m)' => m = FirstJob(k)
    BY <2>2, <2>3, <1>2 DEF Has
  <2>6. \A q \in Slaves : q \notin 1 .. n => Nothing(q)' /\ \A m \in Jobs : ~ Has(q, m)'
    BY <2>3, <1>2 DEF Has, Nothing
  <2>7. jobs' = n + 1 /\ idle' = <<>> /\ lazy' = <<>> /\ significant' = {}
        /\ Range(idle') = {} /\ Range(lazy') = {} /\ IsInjective(idle') /\ IsInjective(lazy')
    BY <2>1, <1>2, <1>4 DEF Range, IsInjective
  <2>8. started' = {<<FirstJob(k).sim_num, FirstJob(k).rep_num>> : k \in 1 .. n}
    BY <2>1
  <2> HIDE DEF ranks, batch, n
  <2>9. TypeInv'
    <3>1. inbox' \in [Slaves -> Seq(Messages)]
      <4>1. ASSUME NEW q \in Slaves
            PROVE  inbox'[q] \in Seq(Messages)
        <5>1. CASE q \in 1 .. n
          <6>1. FirstJob(q) \in Messages /\ inbox'[q] = <<FirstJob(q)>>
            BY <5>1, <2>3, <2>4, NoJobType
          <6> QED  BY <6>1
        <5>2. CASE q \notin 1 .. n
          <6>1. inbox'[q] = <<>> /\ <<>> \in Seq(Messages)
            BY <5>2, <2>3
          <6> QED  BY <6>1
        <5> QED  BY <5>1, <5>2
      <4> QED  BY <4>1, <2>3
    <3>2. started' \in SUBSET (Sims \X Int)
      <4>1. \A k \in 1 .. n : FirstJob(k).sim_num \in Sims /\ FirstJob(k).rep_num \in Int
        BY <2>4 DEF Jobs
      <4> QED  BY <4>1, <2>8
    <3>3. jobs' \in Nat \ {0}
      BY <2>7, <1>4
    <3>4. simReplications' \in [Sims -> Nat] /\ simActiveReplications' \in [Sims -> Nat]
      BY <1>3
    <3> QED  BY <3>1, <3>2, <3>3, <3>4, <2>1, <1>1 DEF TypeInv
  <2>10. ShapeInv'
    <3>1. ASSUME NEW q \in Slaves
          PROVE  Nothing(q)' \/ \E m \in Jobs : m.tag < jobs' /\ Has(q, m)'
      <4>1. CASE q \in 1 .. n
        <5>1. FirstJob(q).tag < jobs'
          BY <4>1, <2>4, <2>7, <1>4
        <5> QED  BY <5>1, <4>1, <2>4, <2>5
      <4>2. CASE q \notin 1 .. n
        BY <4>2, <2>6
      <4> QED  BY <4>1, <4>2
    <3> QED  BY <3>1, <2>7 DEF ShapeInv
  <2>11. ListedInv'
    <3>1. ASSUME NEW q \in Slaves, FirstJobs = nodes - 1, Nothing(q)'
          PROVE  FALSE
      <4>1. q \in 1 .. n
        BY <3>1 DEF Slaves, n
      <4>2. Has(q, FirstJob(q))'
        BY <4>1, <2>5
      <4> QED  BY <4>2, <3>1 DEF Has, Nothing
    <3> QED  BY <3>1 DEF ListedInv
  <2>12. \A i \in Sims : Expected(i)' = InitReplications[i] /\ InitReplications[i] \in Nat
    BY <1>2, <1>3 DEF Expected
  <2>13. CountInv'
    <3>1. ASSUME NEW i \in Sims
          PROVE  Cardinality(Busy(i))' = InitReplications[i]
      <4>1. Busy(i)' = {k \in 1 .. n : FirstSim(k) = i}
        <5>1. ASSUME NEW q \in Slaves, q \notin 1 .. n
              PROVE  q \notin Busy(i)'
          BY <5>1, <2>6 DEF Busy
        <5>2. ASSUME NEW q \in 1 .. n
              PROVE  q \in Busy(i)' <=> FirstSim(q) = i
          BY <2>2, <2>4, <2>5 DEF Busy
        <5>3. Busy(i)' \subseteq Slaves
          BY DEF Busy
        <5> QED  BY <5>1, <5>2, <5>3
      <4> QED  BY <4>1, RanksPerSim DEF n
    <3>2. ASSUME NEW i \in Sims
          PROVE  /\ Cardinality(Busy(i))' <= Expected(i)'
                 /\ Cardinality(Busy(i))' = Expected(i)'
      BY <3>1, <2>12
    <3> QED  BY <3>2, <2>7 DEF CountInv
  <2>14. TeamInv'
    <3> DEFINE t == [q \in {} |-> 1]
    <3>1. t \in [Range(idle') -> Sims \ significant']
      BY <2>7
    <3>2. ASSUME NEW i \in Sims
          PROVE  /\ Cardinality({q \in Range(idle') : t[q] = i}) + Expected(i)'
                       = simActiveReplications'[i]
                 /\ InitReplications[i] <= simActiveReplications'[i]
      <4>1. {q \in Range(idle') : t[q] = i} = {}
        BY <2>7
      <4>2. Cardinality({q \in Range(idle') : t[q] = i}) = 0
        BY <4>1, FS_EmptySet
      <4>3. 0 + InitReplications[i] = InitReplications[i]
        BY <2>12
      <4> QED  BY <4>2, <4>3, <2>12, <1>3
    <3> HIDE DEF t
    <3> QED  BY <3>1, <3>2 DEF TeamInv
  <2>15. NumberInv'
    BY <2>4, <2>8, <1>3 DEF NumberInv
  <2>16. IsFiniteSet(started') /\ Cardinality(started') = jobs' - 1
    <3> DEFINE f == [k \in 1 .. n |-> <<FirstJob(k).sim_num, FirstJob(k).rep_num>>]
    <3>1. f \in [1 .. n -> started'] /\ \A t \in started' : \E k \in 1 .. n : f[k] = t
      BY <2>8
    <3>2. ASSUME NEW a \in 1 .. n, NEW b \in 1 .. n, f[a] = f[b]
          PROVE  a = b
      <4>1. /\ FirstJob(a).sim_num = FirstJob(b).sim_num
            /\ FirstJob(a).rep_num = FirstJob(b).rep_num
        BY <3>2
      <4>2. FirstSim(a) = FirstSim(b)
        BY <4>1, <2>4
      <4>3. a - RanksUpTo(FirstSim(a) - 1) = b - RanksUpTo(FirstSim(a) - 1)
        BY <4>1, <4>2, <2>4
      <4> QED  BY <4>3, <2>4
    <3>3. IsFiniteSet(1 .. n) /\ Cardinality(1 .. n) = n
      BY <1>4, FS_Interval
    <3> HIDE DEF f
    <3>4. IsFiniteSet(started') /\ Cardinality(started') = n
      <4>1. \A a, b \in 1 .. n : a # b => f[a] # f[b]
        BY <3>2
      <4> DEFINE T == started'
      <4>2. f \in [1 .. n -> T] /\ \A t \in T : \E k \in 1 .. n : f[k] = t
        BY <3>1
      <4> HIDE DEF T
      <4>3. IsFiniteSet(T) /\ Cardinality(T) = Cardinality(1 .. n)
        BY <3>3, <4>1, <4>2, ImageCardinality
      <4> QED  BY <4>3, <3>3 DEF T
    <3> QED  BY <3>4, <2>7, <1>4
  <2> QED
    BY <2>1, <2>9, <2>10, <2>11, <2>13, <2>14, <2>15, <2>16 DEF IInv
<1> QED  BY <1>5, <1>6

\* Rank 0 hands out the first jobs, has nothing to hand out, or gives up.
LEMMA StartStep ==
    ASSUME already_run = 0, IInv, Start
    PROVE  IInv'
<1>1. phase = "start" /\ UNCHANGED <<outbox, slave, current, idle, lazy, received, significant>>
  BY DEF Start
<1>2. CASE EnoughNodes /\ lhs
  BY <1>1, <1>2, FirstBatchesStep DEF Start
<1>3. CASE ~ (EnoughNodes /\ lhs)
  <2>1. /\ phase' \in {"closing", "aborted"}
        /\ UNCHANGED <<inbox, jobs, started, simReplications, simActiveReplications>>
    BY <1>3 DEF Start
  <2>2. TypeInv /\ QuietInv /\ IsFiniteSet(started) /\ Cardinality(started) = jobs - 1
    BY <1>1 DEF IInv
  <2>3. TypeInv'
    BY <2>1, <2>2, <1>1 DEF TypeInv
  <2>4. QuietInv'
    BY <2>1, <2>2, <1>1 DEF QuietInv
  <2>5. phase' = "closing" => DrainedInv'
    BY <2>4 DEF QuietInv, DrainedInv
  <2> QED  BY <2>1, <2>2, <2>3, <2>4, <2>5, <1>1 DEF IInv
<1> QED  BY <1>2, <1>3

-----------------------------------------------------------------------------
(* The steps of the slaves.                                                *)

\* A step of the slaves that leaves every job where it is keeps the books, and
\* so does one that loses the job of a slave that is killed by it.
LEMMA SlavesKeepBooks ==
    ASSUME TypeInv, ShapeInv, ListedInv, CountInv, TeamInv, NumberInv,
           UNCHANGED masterVars,
           \A q \in Slaves, m \in Jobs : Has(q, m)' => Has(q, m),
           \A q \in Slaves : Nothing(q) => Nothing(q)' /\ slave'[q] = slave[q],
           \A q \in Slaves : Nothing(q)' \/ \A m \in Jobs : Has(q, m) => Has(q, m)',
           Nobody' => /\ Nobody
                      /\ \A q \in Slaves : Nothing(q)' => Nothing(q)
                      /\ \A q \in Slaves, m \in Jobs : Has(q, m) => Has(q, m)'
    PROVE  ShapeInv' /\ ListedInv' /\ CountInv' /\ TeamInv' /\ NumberInv'
<1>1. /\ idle' = idle /\ lazy' = lazy /\ jobs' = jobs /\ significant' = significant
      /\ started' = started /\ received' = received /\ simReplications' = simReplications
      /\ simActiveReplications' = simActiveReplications
  BY DEF masterVars, listVars
<1>2. Range(idle) \cup Range(lazy) \subseteq Slaves
  <2>1. idle \in Seq(Slaves) /\ lazy \in Seq(Slaves) /\ IsInjective(idle) /\ IsInjective(lazy)
    BY DEF TypeInv, ShapeInv
  <2>2. Range(idle) \in SUBSET Slaves /\ Range(lazy) \in SUBSET Slaves
    BY <2>1, RangeCardinality
  <2> QED  BY <2>2
<1>3. ShapeInv'
  <2>1. ASSUME NEW q \in Slaves
        PROVE  Nothing(q)' \/ \E j \in Jobs : j.tag < jobs' /\ Has(q, j)'
    <3>1. CASE Nothing(q)
      BY <3>1
    <3>2. CASE ~ Nothing(q)
      <4>1. PICK j \in Jobs : j.tag < jobs /\ Has(q, j)
        BY <3>2 DEF ShapeInv
      <4> QED  BY <4>1, <1>1
    <3> QED  BY <3>1, <3>2
  <2>2. \A q \in Range(idle) \cup Range(lazy) : Nothing(q)' /\ slave'[q] = "waiting"
    BY <1>2 DEF ShapeInv
  <2>3. IsInjective(idle) /\ IsInjective(lazy) /\ Range(idle) \cap Range(lazy) = {}
    BY DEF ShapeInv
  <2> HIDE DEF Range, IsInjective
  <2> QED  BY <2>1, <2>2, <2>3, <1>1 DEF ShapeInv
<1>4. ListedInv'
  BY <1>1 DEF ListedInv
<1>5. \A i \in Sims : Expected(i)' = Expected(i) /\ Expected(i) \in Int
  BY <1>1 DEF Expected, TypeInv
<1>6. \A i \in Sims : Busy(i)' \subseteq Busy(i) /\ (Nobody' => Busy(i)' = Busy(i))
  BY DEF Busy
<1>7. CountInv'
  <2>1. ASSUME NEW i \in Sims
        PROVE  /\ Cardinality(Busy(i))' <= Expected(i)'
               /\ Nobody' => Cardinality(Busy(i))' = Expected(i)'
               /\ i \in significant' => Expected(i)' = 0
    <3> DEFINE B == Busy(i)
               C == Busy(i)'
    <3>1. IsFiniteSet(B) /\ C \subseteq B /\ (Nobody' => C = B)
      BY <1>6, SlavesFinite
    <3>2. /\ Cardinality(B) <= Expected(i) /\ (Nobody => Cardinality(B) = Expected(i))
          /\ i \in significant => Expected(i) = 0
      BY DEF CountInv
    <3> HIDE DEF B, C
    <3>3. Cardinality(C) <= Cardinality(B) /\ Cardinality(B) \in Nat /\ Cardinality(C) \in Nat
      BY <3>1, FS_Subset, FS_CardinalityType
    <3>4. Cardinality(C) <= Expected(i)' /\ (Nobody' => Cardinality(C) = Expected(i)')
      BY <3>1, <3>2, <3>3, <1>5
    <3> QED  BY <3>2, <3>4, <1>1, <1>5 DEF C
  <2>2. significant' \subseteq Sims
    BY <1>1 DEF TypeInv
  <2> QED  BY <2>1, <2>2 DEF CountInv
<1>8. TeamInv'
  <2>1. PICK team \in [Range(idle) -> Sims \ significant] :
           \A i \in Sims \ significant :
              Cardinality({r \in Range(idle) : team[r] = i}) + Expected(i)
                 = simActiveReplications[i]
    BY DEF TeamInv
  <2> HIDE DEF Range
  <2>2. team \in [Range(idle') -> Sims \ significant']
    BY <1>1
  <2>3. \A i \in Sims \ significant' :
           Cardinality({r \in Range(idle') : team[r] = i}) + Expected(i)'
              = simActiveReplications'[i]
    BY <2>1, <1>1, <1>5
  <2>4. \A i \in Sims : InitReplications[i] <= simActiveReplications'[i]
    BY <1>1 DEF TeamInv
  <2> QED  BY <2>2, <2>3, <2>4 DEF TeamInv
<1>9. NumberInv'
  BY <1>1 DEF NumberInv
<1> QED  BY <1>3, <1>4, <1>7, <1>8, <1>9

\* A slave that takes a job, or ends.
LEMMA TakeJobStep ==
    ASSUME IInv, NEW r \in Slaves, Slave(r), TakeJob(r)
    PROVE  IInv'
<1>1. /\ TypeInv /\ IsFiniteSet(started) /\ Cardinality(started) = jobs - 1
      /\ phase \in {"collecting", "closing", "done"} /\ phase' = phase
      /\ UNCHANGED masterVars /\ outbox' = outbox
  <2>1. TypeInv /\ (phase = "start" => inbox[r] = <<>>)
    BY DEF IInv, QuietInv
  <2> QED  BY <2>1 DEF IInv, Slave, Alive, TakeJob, TypeInv
<1>2. /\ inbox[r] \in Seq(Messages) /\ inbox[r] # <<>> /\ slave[r] = "waiting"
      /\ inbox' = [inbox EXCEPT ![r] = Tail(inbox[r])]
  BY <1>1 DEF TakeJob, TypeInv
<1>3. Head(inbox[r]) \in Messages /\ Tail(inbox[r]) \in Seq(Messages)
  BY <1>2, HeadTailProperties
<1>4. \/ /\ Head(inbox[r]).tag = KILL_PILL
         /\ slave' = [slave EXCEPT ![r] = "dead"] /\ current' = current
      \/ /\ slave' = [slave EXCEPT ![r] = "running"]
         /\ current' = [current EXCEPT ![r] = Head(inbox[r])]
         /\ Head(inbox[r]).tag # KILL_PILL
  BY DEF TakeJob
<1>5. TypeInv'
  <2>1. inbox' \in [Slaves -> Seq(Messages)] /\ outbox' \in [Slaves -> Seq(Messages)]
    BY <1>1, <1>2, <1>3 DEF TypeInv
  <2>2. slave' \in [Slaves -> {"waiting", "running", "dead"}]
    BY <1>1, <1>4 DEF TypeInv
  <2>3. current' \in [Slaves -> Messages]
    BY <1>1, <1>3, <1>4 DEF TypeInv
  <2> QED  BY <2>1, <2>2, <2>3, <1>1 DEF TypeInv, masterVars, listVars
<1>6. IsFiniteSet(started') /\ Cardinality(started') = jobs' - 1
  BY <1>1 DEF masterVars, listVars
<1>7. /\ inbox'[r] = Tail(inbox[r])
      /\ \A q \in Slaves : q # r => /\ inbox'[q] = inbox[q] /\ slave'[q] = slave[q]
                                    /\ current'[q] = current[q]
  BY <1>1, <1>2, <1>4 DEF TypeInv
<1>8. CASE phase = "collecting"
  <2>1. ShapeInv /\ ListedInv /\ CountInv /\ TeamInv /\ NumberInv
    BY <1>8 DEF IInv
  <2>2. PICK j \in Jobs : inbox[r] = <<j>> /\ outbox[r] = <<>>
    BY <2>1, <1>2 DEF ShapeInv, Has, Nothing
  <2>3. Head(inbox[r]) = j /\ inbox'[r] = <<>> /\ Has(r, j) /\ ~ Nothing(r)
    <3>1. Head(<<j>>) = j /\ Tail(<<j>>) = <<>>
      OBVIOUS
    <3> QED  BY <2>2, <3>1, <1>2, <1>7 DEF Has, Nothing
  <2>4. \A q \in Slaves : q # r => /\ Nothing(q)' <=> Nothing(q)
                                   /\ \A m \in Jobs : Has(q, m)' <=> Has(q, m)
    BY <1>1, <1>7 DEF Has, Nothing
  <2>5. \/ slave'[r] = "dead"
        \/ slave'[r] = "running" /\ current'[r] = j
    BY <1>1, <1>4, <2>3 DEF TypeInv
  <2>6. \A m \in Jobs : Has(r, m)' => Has(r, m)
    BY <2>2, <2>3, <2>5, <1>1 DEF Has
  <2>7. Nothing(r)' \/ \A m \in Jobs : Has(r, m) => Has(r, m)'
    BY <2>2, <2>3, <2>5, <1>1, <1>2 DEF Has, Nothing
  <2>8. Nobody' => /\ Nobody /\ ~ Nothing(r)'
                   /\ \A m \in Jobs : Has(r, m) => Has(r, m)'
    <3>1. ASSUME Nobody'
          PROVE  slave'[r] = "running" /\ Nobody
      BY <3>1, <2>5, <1>2, <1>7 DEF Nobody
    <3>2. slave'[r] = "running" => ~ Nothing(r)'
      BY DEF Nothing
    <3> QED  BY <3>1, <3>2, <2>7
  <2>9. \A q \in Slaves : Nothing(q) => Nothing(q)' /\ slave'[q] = slave[q]
    BY <2>3, <2>4, <1>7
  <2>10. \A q \in Slaves, m \in Jobs : Has(q, m)' => Has(q, m)
    BY <2>4, <2>6
  <2>11. \A q \in Slaves : Nothing(q)' \/ \A m \in Jobs : Has(q, m) => Has(q, m)'
    BY <2>4, <2>7
  <2>12. Nobody' => /\ Nobody
                    /\ \A q \in Slaves : Nothing(q)' => Nothing(q)
                    /\ \A q \in Slaves, m \in Jobs : Has(q, m) => Has(q, m)'
    BY <2>4, <2>8
  <2>13. ShapeInv' /\ ListedInv' /\ CountInv' /\ TeamInv' /\ NumberInv'
    BY <2>1, <2>9, <2>10, <2>11, <2>12, <1>1, SlavesKeepBooks
  <2> QED  BY <2>13, <1>1, <1>5, <1>6, <1>8 DEF IInv
<1>9. CASE phase \in {"closing", "done"}
  <2>1. DrainedInv /\ inbox[r] = <<NoJob>>
    BY <1>2, <1>9 DEF IInv, DrainedInv
  <2>2. Head(inbox[r]).tag = KILL_PILL /\ inbox'[r] = <<>>
    <3>1. Head(<<NoJob>>) = NoJob /\ Tail(<<NoJob>>) = <<>> /\ NoJob.tag = KILL_PILL
      BY DEF NoJob
    <3> QED  BY <2>1, <3>1, <1>7
  <2>3. slave'[r] = "dead"
    BY <1>1, <1>4, <2>2 DEF TypeInv
  <2>4. ASSUME NEW q \in Slaves
        PROVE  /\ outbox'[q] = <<>> /\ slave'[q] # "running" /\ inbox'[q] \in {<<>>, <<NoJob>>}
               /\ phase' = "done" => slave'[q] = "dead"
    BY <2>1, <2>2, <2>3, <1>1, <1>7 DEF DrainedInv
  <2>5. DrainedInv'
    BY <2>4 DEF DrainedInv
  <2> QED  BY <2>5, <1>1, <1>5, <1>6, <1>9 DEF IInv
<1> QED  BY <1>1, <1>8, <1>9

\* A slave that sends its result still has the job: the master waits for it.
LEMMA SendResultStep ==
    ASSUME IInv, NEW r \in Slaves, Slave(r), SendResult(r)
    PROVE  IInv'
<1>1. /\ TypeInv /\ IsFiniteSet(started) /\ Cardinality(started) = jobs - 1
      /\ phase = "collecting" /\ phase' = phase
      /\ UNCHANGED masterVars /\ inbox' = inbox
  <2>1. /\ TypeInv /\ (phase = "start" => slave[r] = "waiting")
        /\ phase \in {"closing", "done"} => slave[r] # "running"
    BY DEF IInv, QuietInv, DrainedInv
  <2> QED  BY <2>1 DEF IInv, Slave, Alive, SendResult, TypeInv
<1>2. /\ slave[r] = "running" /\ slave' = [slave EXCEPT ![r] = "waiting"]
      /\ outbox' = [outbox EXCEPT ![r] = Append(outbox[r], current[r])]
      /\ current' = [current EXCEPT ![r] = NoJob]
  BY DEF SendResult
<1>3. ShapeInv /\ ListedInv /\ CountInv /\ TeamInv /\ NumberInv
  BY <1>1 DEF IInv
<1>4. PICK j \in Jobs : inbox[r] = <<>> /\ current[r] = j /\ outbox[r] = <<>>
  BY <1>2, <1>3 DEF ShapeInv, Has, Nothing
<1>5. outbox[r] \in Seq(Messages) /\ current[r] \in Messages
  BY <1>1 DEF TypeInv
<1>6. TypeInv'
  <2>1. outbox' \in [Slaves -> Seq(Messages)] /\ inbox' \in [Slaves -> Seq(Messages)]
    BY <1>1, <1>2, <1>5 DEF TypeInv
  <2>2. slave' \in [Slaves -> {"waiting", "running", "dead"}] /\ current' \in [Slaves -> Messages]
    BY <1>1, <1>2, NoJobType DEF TypeInv
  <2> QED  BY <2>1, <2>2, <1>1 DEF TypeInv, masterVars, listVars
<1>7. /\ slave'[r] = "waiting" /\ inbox'[r] = <<>> /\ outbox'[r] = <<j>>
      /\ \A q \in Slaves : q # r => /\ outbox'[q] = outbox[q] /\ slave'[q] = slave[q]
                                    /\ current'[q] = current[q] /\ inbox'[q] = inbox[q]
  <2>1. Append(<<>>, j) = <<j>>
    OBVIOUS
  <2> QED  BY <2>1, <1>1, <1>2, <1>4 DEF TypeInv
<1>8. \A q \in Slaves : q # r => /\ Nothing(q)' <=> Nothing(q)
                                 /\ \A m \in Jobs : Has(q, m)' <=> Has(q, m)
  BY <1>7 DEF Has, Nothing
<1>9. /\ ~ Nothing(r) /\ ~ Nothing(r)'
      /\ \A m \in Jobs : Has(r, m)' <=> Has(r, m)
  BY <1>2, <1>4, <1>7 DEF Has, Nothing
<1>10. Nobody' => Nobody
  BY <1>2, <1>7 DEF Nobody
<1>11. \A q \in Slaves : Nothing(q) => Nothing(q)' /\ slave'[q] = slave[q]
  BY <1>7, <1>8, <1>9
<1>12. /\ \A q \in Slaves, m \in Jobs : Has(q, m)' => Has(q, m)
       /\ \A q \in Slaves : Nothing(q)' \/ \A m \in Jobs : Has(q, m) => Has(q, m)'
       /\ Nobody' => /\ Nobody
                     /\ \A q \in Slaves : Nothing(q)' => Nothing(q)
                     /\ \A q \in Slaves, m \in Jobs : Has(q, m) => Has(q, m)'
  BY <1>8, <1>9, <1>10
<1>13. ShapeInv' /\ ListedInv' /\ CountInv' /\ TeamInv' /\ NumberInv'
  BY <1>1, <1>3, <1>11, <1>12, SlavesKeepBooks
<1>14. IsFiniteSet(started') /\ Cardinality(started') = jobs' - 1
  BY <1>1 DEF masterVars, listVars
<1> QED  BY <1>1, <1>6, <1>13, <1>14 DEF IInv

\* When every simulation is reported nothing is expected, so that no slave has
\* a job when the kill pill is sent.
LEMMA KillStep ==
    ASSUME IInv, Kill
    PROVE  IInv'
<1>1. /\ phase = "collecting" /\ significant = Sims /\ phase' = "closing"
      /\ inbox' = [r \in Slaves |-> Append(inbox[r], NoJob)]
      /\ UNCHANGED <<outbox, slave, current, masterVars>>
  BY DEF Kill, AllSignificant
<1>2. /\ TypeInv /\ IsFiniteSet(started) /\ Cardinality(started) = jobs - 1
      /\ ShapeInv /\ CountInv
  BY <1>1 DEF IInv
<1>3. ASSUME NEW r \in Slaves
      PROVE  Nothing(r)
  <2>1. SUFFICES ASSUME NEW j \in Jobs, Has(r, j)
                 PROVE  FALSE
    BY <1>2 DEF ShapeInv
  <2>2. j.sim_num \in Sims
    BY DEF Jobs
  <2>3. j.sim_num \notin significant
    BY <2>1, <2>2, <1>2, Deliverer
  <2> QED  BY <2>2, <2>3, <1>1
<1>4. \A r \in Slaves : inbox'[r] = <<NoJob>>
  <2>1. \A x : Append(<<>>, x) = <<x>>
    OBVIOUS
  <2>2. \A r \in Slaves : inbox[r] = <<>> /\ inbox'[r] = Append(inbox[r], NoJob)
    BY <1>1, <1>3 DEF Nothing
  <2> QED  BY <2>1, <2>2
<1>5. TypeInv'
  <2>1. \A r \in Slaves : inbox'[r] \in Seq(Messages)
    <3>1. <<NoJob>> \in Seq(Messages)
      BY NoJobType
    <3> QED  BY <3>1, <1>4
  <2>2. inbox' \in [Slaves -> Seq(Messages)]
    BY <2>1, <1>1
  <2> QED  BY <2>2, <1>1, <1>2 DEF TypeInv, masterVars, listVars
<1>6. DrainedInv'
  BY <1>1, <1>3, <1>4 DEF DrainedInv, Nothing
<1> QED  BY <1>1, <1>2, <1>5, <1>6 DEF IInv, masterVars, listVars

\* Rank 0 closes the program after the last slave.
LEMMA CloseStep ==
    ASSUME IInv, Close
    PROVE  IInv'
<1>1. /\ phase = "closing" /\ phase' = "done" /\ \A r \in Slaves : slave[r] = "dead"
      /\ UNCHANGED <<inbox, outbox, slave, current, masterVars>>
  BY DEF Close
<1>2. TypeInv /\ DrainedInv /\ IsFiniteSet(started) /\ Cardinality(started) = jobs - 1
  BY <1>1 DEF IInv
<1>3. TypeInv'
  BY <1>1, <1>2 DEF TypeInv, masterVars, listVars
<1>4. DrainedInv'
  BY <1>1, <1>2 DEF DrainedInv
<1> QED  BY <1>1, <1>2, <1>3, <1>4 DEF IInv, masterVars, listVars

LEMMA StutterStep ==
    ASSUME IInv, UNCHANGED vars
    PROVE  IInv'
<1>1. /\ phase' = phase /\ inbox' = inbox /\ outbox' = outbox /\ slave' = slave
      /\ current' = current /\ jobs' = jobs /\ idle' = idle /\ lazy' = lazy
      /\ simReplications' = simReplications /\ simActiveReplications' = simActiveReplications
      /\ received' = received /\ significant' = significant /\ started' = started
  BY DEF vars, masterVars, listVars
<1>2. TypeInv'
  BY <1>1 DEF IInv, TypeInv
<1>3. phase \in {"start", "aborted", "unsent"} => QuietInv'
  BY <1>1 DEF IInv, QuietInv
<1>4. phase \in {"closing", "done"} => DrainedInv'
  BY <1>1 DEF IInv, DrainedInv
<1>5. CASE phase = "collecting"
  <2>1. TypeInv /\ ShapeInv /\ ListedInv /\ CountInv /\ TeamInv /\ NumberInv
    BY <1>5 DEF IInv
  <2>2. \A q \in Slaves : Nothing(q)' <=> Nothing(q)
    BY <1>1 DEF Nothing
  <2>3. \A q \in Slaves, m \in Jobs : Has(q, m)' <=> Has(q, m)
    BY <1>1 DEF Has
  <2>4. Nobody' => Nobody
    BY <1>1 DEF Nobody
  <2>5. UNCHANGED masterVars
    BY DEF vars
  <2>6. ShapeInv' /\ ListedInv' /\ CountInv' /\ TeamInv' /\ NumberInv'
    BY <2>1, <2>2, <2>3, <2>4, <2>5, <1>1, SlavesKeepBooks
  <2> QED  BY <2>6, <1>1, <1>2, <1>5 DEF IInv
<1> QED  BY <1>1, <1>2, <1>3, <1>4, <1>5 DEF IInv

LEMMA NextIInv ==
    ASSUME already_run = 0, IInv, [Next]_vars
    PROVE  IInv'
<1>1. CASE Start
  BY <1>1, StartStep
<1>2. CASE \E r \in Slaves : Receive(r)
  BY <1>2, ReceiveStep
<1>3. CASE Kill
  BY <1>3, KillStep
<1>4. CASE Close
  BY <1>4, CloseStep
<1>5. CASE \E r \in Slaves : Slave(r)
  BY <1>5, TakeJobStep, SendResultStep DEF Slave
<1>6. CASE UNCHANGED vars
  BY <1>6, StutterStep
<1> QED  BY <1>1, <1>2, <1>3, <1>4, <1>5, <1>6 DEF Next, Master, Ended

-----------------------------------------------------------------------------
(* The theorems.                                                           *)

\* The inductive invariant holds, as long as simulations are numbered from 1.
LEMMA AlwaysIInv ==
    ASSUME already_run = 0
    PROVE  Spec => []IInv
<1>1. Init => IInv
  BY InitIInv
<1>2. IInv /\ [Next]_vars => IInv'
  BY NextIInv
<1> QED  BY <1>1, <1>2, PTL DEF Spec

\* Only a result changes the counts, that of a simulation that is not reported.
LEMMA StepCounts ==
    ASSUME IInv, [Next]_vars
    PROVE  (\E s \in Sims : Experiment!Count(s)) \/ UNCHANGED Experiment!experiment
<1>1. ASSUME NEW r \in Slaves, Receive(r)
      PROVE  \E s \in Sims : Experiment!Count(s)
  <2>1. PICK j \in Jobs : /\ j = Head(outbox[r]) /\ j.sim_num \in Sims \ significant
    BY <1>1, ResultIsExpected
  <2> DEFINE i == j.sim_num
  <2>2. /\ received' = [received EXCEPT ![i] = @ + 1]
        /\ \/ NotConfident(i, Append(idle, r))
           \/ Confident(i, Append(idle, r))
           \/ UNCHANGED significant
    BY <1>1, <2>1 DEF Receive
  <2>3. received'[i] = received[i] + 1
    BY <2>1, <2>2 DEF IInv, TypeInv
  <2> HIDE DEF i
  <2>4. \/ UNCHANGED significant
        \/ received[i] + 1 >= replications /\ significant' = significant \cup {i}
    BY <2>2 DEF NotConfident, Confident, Undefined, listVars
  <2> QED  BY <2>1, <2>2, <2>3, <2>4 DEF Experiment!Count, i
<1>2. CASE Start
  BY <1>2 DEF Start, Experiment!experiment
<1>3. CASE Kill \/ Close
  BY <1>3 DEF Kill, Close, masterVars, listVars, Experiment!experiment
<1>4. CASE \E r \in Slaves : Slave(r)
  BY <1>4 DEF Slave, TakeJob, SendResult, masterVars, listVars, Experiment!experiment
<1>5. CASE UNCHANGED vars
  BY <1>5 DEF vars, masterVars, listVars, Experiment!experiment
<1> QED  BY <1>1, <1>2, <1>3, <1>4, <1>5 DEF Next, Master, Ended

\* The experiment on the cluster counts as Replications promises, for every
\* number of nodes and simulations: every result of the slaves of Simulation.cc
\* is counted once by the master of SimulationMPI.hh, none for a simulation
\* after it is reported, and none is reported below the minimum.
THEOREM ClusterCountsOnce ==
    ASSUME already_run = 0
    PROVE  Spec => ExperimentSpec
<1>1. Init => received = [s \in Sims |-> 0] /\ significant = {}
  BY DEF Init
<1>2. IInv /\ [Next]_vars => [\E s \in Sims : Experiment!Count(s)]_Experiment!experiment
  BY StepCounts
<1>3. Spec => []IInv
  BY AlwaysIInv
<1> QED
  BY <1>1, <1>2, <1>3, PTL DEF Spec, ExperimentSpec, Experiment!ExperimentSpec

\* The master never hands out a replication of a simulation twice: the numbers
\* with which SimulationMPI.hh fills its jobs go on where the batch before ended.
THEOREM ReplicaOnceHolds ==
    ASSUME already_run = 0
    PROVE  Spec => []ReplicaOnce
<1>1. IInv => ReplicaOnce
  BY DEF IInv, ReplicaOnce
<1> QED  BY <1>1, AlwaysIInv, PTL

\* The cluster is not larger than a boost::uint16_t counts, and the nodes that
\* rank 0 verifies are enough for all runs, as they are without an optimal
\* design.
Fits == /\ nodes <= 65536
        /\ EnoughNodes => runs * init_replications + 1 <= nodes

LEMMA EveryNodeHasAJob ==
    ASSUME Fits, EnoughNodes
    PROVE  FirstJobs = nodes - 1
<1> DEFINE m == runs * init_replications
<1>1. m \in Nat
  BY RunsType, AllocationAssumption
<1>2. nodes \in Nat /\ nodes <= 65536 /\ m + 1 <= nodes
  BY AllocationAssumption DEF Fits
<1>3. simNodes = m % 65536 /\ FirstJobs = m + freeNodes
  BY RanksAddUp DEF simNodes
<1> HIDE DEF m
<1>4. simNodes = m
  BY <1>1, <1>2, <1>3
<1>5. freeNodes = nodes - (m + 1)
  <2>1. \A d \in Nat : d < 65536 => d % 65536 = d
    OBVIOUS
  <2> DEFINE d == nodes - (m + 1)
  <2>2. d \in Nat /\ d < 65536
    BY <1>1, <1>2
  <2>3. d % 65536 = d
    BY <2>1, <2>2
  <2> QED  BY <2>3, <1>4 DEF freeNodes
<1> QED  BY <1>1, <1>2, <1>3, <1>5

\* The master never takes a node from an empty vector, its arrays have an entry
\* for every result, and on a cluster that fits every first job of
\* SimulationMPI.hh goes to a rank that exists.
THEOREM NeverUndefinedHolds ==
    ASSUME already_run = 0, Fits
    PROVE  Spec => []NeverUndefined
<1> DEFINE Sent == phase # "unsent"
<1>1. Init => Sent
  BY DEF Init
<1>2. ASSUME IInv, Sent, [Next]_vars
      PROVE  Sent'
  <2>1. CASE Start
    <3>1. CASE EnoughNodes /\ lhs
      <4>1. FirstJobs < nodes
        BY <3>1, EveryNodeHasAJob, AllocationAssumption
      <4> QED  BY <2>1, <3>1, <4>1 DEF Start, FirstBatches
    <3>2. CASE ~ (EnoughNodes /\ lhs)
      BY <2>1, <3>2 DEF Start
    <3> QED  BY <3>1, <3>2
  <2>2. CASE \E r \in Slaves : Receive(r)
    BY <1>2, <2>2 DEF Receive, NotConfident, Confident, Undefined
  <2>3. CASE Kill \/ Close
    BY <2>3 DEF Kill, Close
  <2>4. CASE \E r \in Slaves : Slave(r)
    BY <1>2, <2>4 DEF Slave, TakeJob, SendResult
  <2>5. CASE UNCHANGED vars
    BY <1>2, <2>5 DEF vars
  <2> QED  BY <1>2, <2>1, <2>2, <2>3, <2>4, <2>5 DEF Next, Master, Ended
<1>3. IInv /\ Sent => NeverUndefined
  BY DEF IInv, TypeInv, NeverUndefined
<1>4. IInv /\ Sent /\ [Next]_vars => Sent'
  BY <1>2
<1> QED  BY <1>1, <1>3, <1>4, AlwaysIInv, PTL DEF Spec

\* The tags of the jobs are below the tag that ends a slave.
FewJobs == jobs <= KILL_PILL

\* While the master collects results every slave lives.
StayInv == phase = "collecting" => Nobody /\ EnoughNodes

LEMMA StepKeepsSlaves ==
    ASSUME IInv, FewJobs, StayInv, [Next]_vars
    PROVE  StayInv'
<1>0. EnoughNodes' = EnoughNodes
  BY DEF EnoughNodes
<1>1. CASE Start
  <2>1. \A r \in Slaves : slave'[r] = "waiting"
    BY <1>1 DEF Start, IInv, QuietInv
  <2>2. phase' = "collecting" => EnoughNodes
    BY <1>1 DEF Start
  <2> QED  BY <2>1, <2>2, <1>0 DEF StayInv, Nobody
<1>2. CASE \E r \in Slaves : Receive(r)
  BY <1>0, <1>2 DEF Receive, StayInv, Nobody
<1>3. CASE Kill \/ Close
  BY <1>3 DEF Kill, Close, StayInv
<1>4. ASSUME NEW r \in Slaves, Slave(r), TakeJob(r)
      PROVE  StayInv'
  <2>1. SUFFICES ASSUME phase = "collecting" PROVE StayInv'
    BY <1>4 DEF TakeJob, StayInv
  <2>2. ShapeInv /\ slave \in [Slaves -> {"waiting", "running", "dead"}] /\ inbox[r] # <<>>
    BY <1>4, <2>1 DEF IInv, TypeInv, TakeJob
  <2>3. PICK j \in Jobs : j.tag < jobs /\ inbox[r] = <<j>>
    BY <2>2 DEF ShapeInv, Has, Nothing
  <2>4. Head(inbox[r]).tag # KILL_PILL
    <3>1. j.tag \in Nat /\ jobs \in Nat /\ jobs <= KILL_PILL /\ KILL_PILL \in Nat
      BY MasterAssumption DEF Jobs, FewJobs, IInv, TypeInv
    <3>2. Head(<<j>>) = j
      OBVIOUS
    <3> QED  BY <2>3, <3>1, <3>2
  <2>5. slave' = [slave EXCEPT ![r] = "running"] /\ phase' = phase
    BY <1>4, <2>4 DEF TakeJob
  <2> QED  BY <1>0, <2>1, <2>2, <2>5 DEF StayInv, Nobody
<1>5. ASSUME NEW r \in Slaves, Slave(r), SendResult(r)
      PROVE  StayInv'
  <2>1. /\ slave' = [slave EXCEPT ![r] = "waiting"] /\ phase' = phase
        /\ slave \in [Slaves -> {"waiting", "running", "dead"}]
    BY <1>5 DEF SendResult, IInv, TypeInv
  <2> QED  BY <1>0, <2>1 DEF StayInv, Nobody
<1>6. CASE UNCHANGED vars
  BY <1>0, <1>6 DEF vars, StayInv, Nobody
<1> QED  BY <1>1, <1>2, <1>3, <1>4, <1>5, <1>6 DEF Next, Master, Slave, Ended

LEMMA SlavesStay ==
    ASSUME already_run = 0
    PROVE  Spec /\ []FewJobs => [](IInv /\ StayInv)
<1>1. Init => StayInv
  BY DEF Init, StayInv
<1>2. IInv /\ FewJobs /\ StayInv /\ [Next]_vars => StayInv'
  BY StepKeepsSlaves
<1> QED  BY <1>1, <1>2, AlwaysIInv, PTL DEF Spec

\* The work of a slave is its job.
LEMMA WorkIsJob ==
    ASSUME NEW r \in Slaves
    PROVE  /\ Nothing(r) => Work(r) = <<>>
           /\ \A j : Has(r, j) => Work(r) = <<j>>
<1>1. /\ <<>> \o <<>> = <<>>
      /\ \A j : <<>> \o <<j>> = <<j>> /\ <<j>> \o <<>> = <<j>>
  OBVIOUS
<1>2. ASSUME Nothing(r)
      PROVE  Work(r) = <<>>
  <2>1. Work(r) = (<<>> \o <<>>) \o <<>>
    BY <1>2 DEF Work, Nothing
  <2> QED  BY <1>1, <2>1
<1>3. ASSUME NEW j, Has(r, j)
      PROVE  Work(r) = <<j>>
  <2>1. \/ Work(r) = (<<j>> \o <<>>) \o <<>>
        \/ Work(r) = (<<>> \o <<j>>) \o <<>>
        \/ Work(r) = (<<>> \o <<>>) \o <<j>>
    BY <1>3 DEF Work, Has
  <2> QED  BY <1>1, <2>1
<1> QED  BY <1>2, <1>3

\* As long as no tag is that of the kill pill, what is expected of a simulation
\* and not received is under way: the counters that SimulationMPI.hh compares
\* are exact, and no simulation is reported while a result of it is out.
THEOREM BatchBooksHolds ==
    ASSUME already_run = 0
    PROVE  Spec /\ []FewJobs => []BatchBooks
<1>1. ASSUME IInv, StayInv
      PROVE  BatchBooks
  <2>1. SUFFICES ASSUME phase = "collecting"
                 PROVE  /\ \A i \in Sims :
                             simReplications[i] - received[i] =
                               Cardinality({r \in Slaves : Work(r) # <<>> /\ Work(r)[1].sim_num = i})
                        /\ \A i \in significant : received[i] = simReplications[i]
    BY DEF BatchBooks
  <2>2. TypeInv /\ ShapeInv /\ CountInv /\ Nobody
    BY <1>1, <2>1 DEF IInv, StayInv
  <2>3. ASSUME NEW i \in Sims
        PROVE  simReplications[i] - received[i] =
                 Cardinality({r \in Slaves : Work(r) # <<>> /\ Work(r)[1].sim_num = i})
    <3>1. ASSUME NEW r \in Slaves
          PROVE  Work(r) # <<>> /\ Work(r)[1].sim_num = i <=> r \in Busy(i)
      <4>1. CASE Nothing(r)
        <5>1. Work(r) = <<>>
          BY <4>1, WorkIsJob
        <5>2. r \notin Busy(i)
          BY <4>1, OneJob DEF Busy
        <5> QED  BY <5>1, <5>2
      <4>2. CASE ~ Nothing(r)
        <5>1. PICK j \in Jobs : Has(r, j)
          BY <4>2, <2>2 DEF ShapeInv
        <5>2. Work(r) = <<j>>
          BY <5>1, WorkIsJob
        <5>3. <<j>> # <<>> /\ <<j>>[1] = j
          OBVIOUS
        <5>4. r \in Busy(i) <=> j.sim_num = i
          BY <5>1, OneJob DEF Busy
        <5> QED  BY <5>2, <5>3, <5>4
      <4> QED  BY <4>1, <4>2
    <3>2. {r \in Slaves : Work(r) # <<>> /\ Work(r)[1].sim_num = i} = Busy(i)
      BY <3>1 DEF Busy
    <3>3. Cardinality(Busy(i)) = Expected(i)
      BY <2>2 DEF CountInv
    <3> QED  BY <3>2, <3>3 DEF Expected
  <2>4. ASSUME NEW i \in significant
        PROVE  received[i] = simReplications[i]
    <3>1. simReplications[i] \in Nat /\ received[i] \in Nat /\ simReplications[i] - received[i] = 0
      BY <2>2 DEF TypeInv, CountInv, Expected
    <3> QED  BY <3>1
  <2> QED  BY <2>3, <2>4
<1>2. IInv /\ StayInv => BatchBooks
  BY <1>1
<1> QED  BY <1>2, SlavesStay, PTL

\* On a cluster that fits, every node that has no work is in one of the lists
\* idleNodes and lazyNodes of SimulationMPI.hh, once, and every other has one
\* job: the batches lose no node and give none two jobs.
THEOREM NodeBooksHolds ==
    ASSUME already_run = 0, Fits
    PROVE  Spec /\ []FewJobs => []NodeBooks
<1>1. ASSUME IInv, StayInv
      PROVE  NodeBooks
  <2>1. SUFFICES ASSUME phase = "collecting"
                 PROVE  /\ IsInjective(idle \o lazy)
                        /\ \A r \in Slaves :
                             Len(Work(r)) = IF r \in ToSet(idle \o lazy) THEN 0 ELSE 1
    BY DEF NodeBooks
  <2>2. TypeInv /\ ShapeInv /\ ListedInv /\ Nobody /\ EnoughNodes
    BY <1>1, <2>1 DEF IInv, StayInv
  <2>3. /\ IsInjective(idle \o lazy)
        /\ ToSet(idle \o lazy) = Range(idle) \cup Range(lazy)
    <3>1. /\ idle \in Seq(Slaves) /\ lazy \in Seq(Slaves)
          /\ IsInjective(idle) /\ IsInjective(lazy) /\ Range(idle) \cap Range(lazy) = {}
      BY <2>2 DEF TypeInv, ShapeInv
    <3>2. /\ IsInjective(idle \o lazy)
          /\ Range(idle \o lazy) = Range(idle) \cup Range(lazy)
      BY <3>1, ConcatFacts
    <3>3. ToSet(idle \o lazy) = Range(idle \o lazy)
      BY DEF ToSet, Range
    <3> HIDE DEF Range
    <3> QED  BY <3>2, <3>3
  <2>4. ASSUME NEW r \in Slaves
        PROVE  Len(Work(r)) = IF r \in Range(idle) \cup Range(lazy) THEN 0 ELSE 1
    <3>1. CASE Nothing(r)
      <4>1. FirstJobs = nodes - 1
        BY <2>2, EveryNodeHasAJob
      <4>2. r \in Range(idle) \cup Range(lazy)
        BY <3>1, <4>1, <2>2 DEF ListedInv
      <4>3. Work(r) = <<>> /\ Len(<<>>) = 0
        BY <3>1, WorkIsJob
      <4> QED  BY <4>2, <4>3
    <3>2. CASE ~ Nothing(r)
      <4>1. PICK j \in Jobs : Has(r, j)
        BY <3>2, <2>2 DEF ShapeInv
      <4>2. r \notin Range(idle) \cup Range(lazy)
        BY <3>2, <2>2 DEF ShapeInv
      <4>3. Work(r) = <<j>> /\ Len(<<j>>) = 1
        BY <4>1, WorkIsJob
      <4> QED  BY <4>2, <4>3
    <3> QED  BY <3>1, <3>2
  <2> HIDE DEF Range, IsInjective
  <2> QED  BY <2>3, <2>4
<1>2. IInv /\ StayInv => NodeBooks
  BY <1>1
<1> QED  BY <1>2, SlavesStay, PTL

\* "kill yourself, if job's done": as long as no tag is that of the kill pill,
\* no slave of Simulation.cc ends while the master collects, and rank 0 closes
\* the program with every result received.
THEOREM KilledWhenDoneHolds ==
    ASSUME already_run = 0
    PROVE  Spec /\ []FewJobs => []KilledWhenDone
<1>1. ASSUME IInv, StayInv
      PROVE  KilledWhenDone
  <2>1. (\E r \in Slaves : slave[r] = "dead") => phase \in {"closing", "done"}
    BY <1>1 DEF IInv, TypeInv, QuietInv, StayInv, Nobody
  <2>2. phase = "done" => \A r \in Slaves : outbox[r] = <<>>
    BY <1>1 DEF IInv, DrainedInv
  <2> QED  BY <2>1, <2>2 DEF KilledWhenDone
<1>2. IInv /\ StayInv => KilledWhenDone
  BY <1>1
<1> QED  BY <1>2, SlavesStay, PTL
=============================================================================
