-------------------------- MODULE Allocation_proofs --------------------------
(***************************************************************************)
(* Lemmas about the allocation: RanksUpTo adds up the initial replications *)
(* of the simulations, so that every rank up to FirstJobs is of exactly    *)
(* one, and each has as many as the code computes.                         *)
(***************************************************************************)
EXTENDS Allocation, FiniteSetTheorems, TLAPS

LEMMA Quotient ==
    ASSUME NEW m \in Nat, NEW d \in Nat \ {0}
    PROVE  m \div d \in Nat /\ m % d \in 0 .. d - 1 /\ m = d * (m \div d) + (m % d)
  OBVIOUS

\* runs is 2 ^ simulations + 1 for an optimal design: the power is a natural
\* number, as that of the subsets of a set.
LEMMA RunsType == runs \in Nat \ {0}
<1>1. 2 ^ simulations \in Nat
  <2>1. IsFiniteSet(1 .. simulations) /\ Cardinality(1 .. simulations) = simulations
    BY FS_Interval, AllocationAssumption
  <2>2. /\ IsFiniteSet(SUBSET (1 .. simulations))
        /\ Cardinality(SUBSET (1 .. simulations)) = 2 ^ simulations
    BY <2>1, FS_SUBSET
  <2> QED  BY <2>2, FS_CardinalityType
<1> DEFINE power == 2 ^ simulations
<1>2. power \in Nat
  BY <1>1
<1>3. runs = IF lhs_optimal THEN power + 1 ELSE simulations
  BY DEF runs
<1> HIDE DEF power
<1> QED  BY <1>2, <1>3, AllocationAssumption

\* Every round gives each simulation share nodes, and rest of them are left.
share == init_replications + freeNodes \div runs
rest  == freeNodes % runs

LEMMA SharesType ==
    /\ freeNodes \in Nat /\ simNodes \in Nat
    /\ share \in Nat \ {0} /\ rest \in 0 .. runs - 1
    /\ runs * share + rest = runs * init_replications + freeNodes
<1>1. freeNodes \in Nat /\ simNodes \in Nat
  <2>1. runs * init_replications \in Nat
    BY RunsType, AllocationAssumption
  <2> QED  BY <2>1, AllocationAssumption DEF freeNodes, simNodes
<1> DEFINE q == freeNodes \div runs
<1>2. q \in Nat /\ rest \in 0 .. runs - 1 /\ freeNodes = runs * q + rest
  BY <1>1, RunsType, Quotient DEF rest
<1>3. share = init_replications + q
  BY DEF share
<1> HIDE DEF q
<1>4. share \in Nat \ {0}
  BY <1>2, <1>3, AllocationAssumption
<1>5. runs * share = runs * init_replications + runs * q
  BY <1>2, <1>3, RunsType, AllocationAssumption
<1>6. runs * init_replications \in Nat /\ runs * q \in Nat
  BY <1>2, RunsType, AllocationAssumption
<1>7. runs * share + rest = runs * init_replications + freeNodes
  BY <1>2, <1>5, <1>6, RunsType
<1> QED  BY <1>1, <1>2, <1>4, <1>7

\* RanksUpTo adds up the initial replications.
LEMMA RanksAddUp ==
    /\ InitReplications \in [Sims -> Nat \ {0}]
    /\ RanksUpTo(0) = 0
    /\ \A i \in 0 .. runs : RanksUpTo(i) \in Nat
    /\ \A i \in Sims : RanksUpTo(i) = RanksUpTo(i - 1) + InitReplications[i]
    /\ FirstJobs = runs * init_replications + freeNodes
<1>1. InitReplications = [i \in Sims |-> share + (IF i <= rest THEN 1 ELSE 0)]
  <2>1. \A i \in Sims : init_replications + freeNodes \div runs
                        + (IF i <= freeNodes % runs THEN 1 ELSE 0)
                        = share + (IF i <= rest THEN 1 ELSE 0)
    BY DEF share, rest
  <2> QED  BY <2>1 DEF InitReplications
<1>2. \A i \in 0 .. runs : RanksUpTo(i) = i * share + (IF i <= rest THEN i ELSE rest)
  BY DEF RanksUpTo, share, rest
<1>3. share \in Nat \ {0} /\ rest \in 0 .. runs - 1 /\ runs \in Nat \ {0}
  BY SharesType, RunsType
<1>4. InitReplications \in [Sims -> Nat \ {0}]
  BY <1>1, <1>3
<1>5. RanksUpTo(0) = 0
  BY <1>2, <1>3
<1>6. ASSUME NEW i \in 0 .. runs
      PROVE  RanksUpTo(i) \in Nat
  <2>1. i * share \in Nat
    BY <1>3
  <2> QED  BY <2>1, <1>2, <1>3
<1>7. ASSUME NEW i \in Sims
      PROVE  RanksUpTo(i) = RanksUpTo(i - 1) + InitReplications[i]
  <2>1. i \in 0 .. runs /\ i - 1 \in 0 .. runs /\ i \in 1 .. runs
    BY <1>3 DEF Sims
  <2>2. i * share = (i - 1) * share + share /\ (i - 1) * share \in Nat
    BY <1>3, <2>1
  <2>3. InitReplications[i] = share + (IF i <= rest THEN 1 ELSE 0)
    BY <1>1
  <2>4. /\ RanksUpTo(i) = i * share + (IF i <= rest THEN i ELSE rest)
        /\ RanksUpTo(i - 1) = (i - 1) * share + (IF i - 1 <= rest THEN i - 1 ELSE rest)
    BY <1>2, <2>1
  <2> QED  BY <2>1, <2>2, <2>3, <2>4, <1>3
<1>8. FirstJobs = runs * init_replications + freeNodes
  BY <1>2, <1>3, SharesType DEF FirstJobs
<1> QED  BY <1>4, <1>5, <1>6, <1>7, <1>8

\* Every rank up to FirstJobs is of exactly one simulation.
LEMMA FirstSimOfRank ==
    ASSUME NEW rank \in 1 .. FirstJobs
    PROVE  /\ FirstSim(rank) \in Sims
           /\ RanksUpTo(FirstSim(rank) - 1) < rank
           /\ rank <= RanksUpTo(FirstSim(rank))
<1>1. share \in Nat \ {0} /\ rest \in 0 .. runs - 1 /\ runs \in Nat \ {0}
      /\ rank \in Nat \ {0} /\ rank <= runs * share + rest
  BY SharesType, RunsType, RanksAddUp
<1>2. \A i \in 0 .. runs : RanksUpTo(i) = i * share + (IF i <= rest THEN i ELSE rest)
  BY DEF RanksUpTo, share, rest
<1>3. \E i \in Sims : RanksUpTo(i - 1) < rank /\ rank <= RanksUpTo(i)
  <2>1. CASE rank <= rest * (share + 1)
    <3> DEFINE q == (rank - 1) \div (share + 1)
               s == (rank - 1) % (share + 1)
    <3>1. q \in Nat /\ s \in 0 .. share /\ rank - 1 = (share + 1) * q + s
      <4>1. rank - 1 \in Nat /\ share + 1 \in Nat \ {0} /\ (share + 1) - 1 = share
        BY <1>1
      <4>2. q \in Nat /\ s \in 0 .. (share + 1) - 1 /\ rank - 1 = (share + 1) * q + s
        BY <4>1, Quotient
      <4> QED  BY <4>1, <4>2
    <3> HIDE DEF q, s
    <3>2. q < rest
      <4>1. SUFFICES ASSUME q >= rest PROVE FALSE
        BY <3>1, <1>1
      <4>2. (share + 1) * q >= (share + 1) * rest
        BY <4>1, <3>1, <1>1
      <4>3. (share + 1) * rest = rest * (share + 1) /\ (share + 1) * rest \in Nat
            /\ (share + 1) * q \in Nat
        BY <3>1, <1>1
      <4> QED  BY <4>2, <4>3, <3>1, <2>1, <1>1
    <3>3. q + 1 \in Sims /\ q + 1 \in 0 .. runs /\ q \in 0 .. runs
      BY <3>1, <3>2, <1>1 DEF Sims
    <3>4. RanksUpTo(q) = q * share + q /\ RanksUpTo(q + 1) = (q + 1) * share + (q + 1)
      BY <1>2, <3>1, <3>2, <3>3, <1>1
    <3>5. q * share + q = (share + 1) * q /\ (q + 1) * share = q * share + share
          /\ q * share \in Nat
      BY <3>1, <1>1
    <3>6. RanksUpTo((q + 1) - 1) < rank /\ rank <= RanksUpTo(q + 1)
      <4>1. (q + 1) - 1 = q
        BY <3>1
      <4> QED  BY <4>1, <3>1, <3>4, <3>5, <1>1
    <3> QED  BY <3>3, <3>6
  <2>2. CASE ~ (rank <= rest * (share + 1))
    <3> DEFINE m == rank - 1 - rest * (share + 1)
               q == m \div share
               s == m % share
    <3>0. rest * (share + 1) \in Nat /\ rest * (share + 1) = rest * share + rest
          /\ rest * share \in Nat
      BY <1>1
    <3>1. m \in Nat
      BY <2>2, <3>0, <1>1
    <3>2. q \in Nat /\ s \in 0 .. share - 1 /\ m = share * q + s
      BY <3>1, <1>1, Quotient
    <3>3. rank = m + 1 + rest * share + rest
      BY <3>0, <1>1
    <3> HIDE DEF q, s, m
    <3>4. rest + q < runs
      <4>1. SUFFICES ASSUME rest + q >= runs PROVE FALSE
        BY <3>2, <1>1
      <4>2. q >= runs - rest /\ runs - rest \in Nat
        BY <4>1, <3>2, <1>1
      <4>3. share * q >= share * (runs - rest)
        BY <4>2, <3>2, <1>1
      <4>4. share * (runs - rest) = runs * share - rest * share
            /\ runs * share \in Nat /\ share * q \in Nat
        BY <1>1, <3>2
      <4>5. m <= runs * share - rest * share - 1
        BY <3>0, <3>1, <3>3, <1>1, <4>4
      <4> QED  BY <4>3, <4>4, <4>5, <3>0, <3>1, <3>2, <1>1
    <3> DEFINE i == rest + q
    <3>5. i \in Nat /\ i >= rest /\ i + 1 \in Sims /\ i + 1 \in 0 .. runs /\ i \in 0 .. runs
      BY <3>2, <3>4, <1>1 DEF Sims
    <3>6. i * share = rest * share + share * q /\ (i + 1) * share = i * share + share
          /\ share * q \in Nat
      BY <3>2, <1>1
    <3> HIDE DEF i
    <3>7. RanksUpTo(i) = i * share + rest /\ RanksUpTo(i + 1) = (i + 1) * share + rest
      <4>1. RanksUpTo(i) = i * share + rest
        BY <1>2, <3>5, <1>1
      <4>2. RanksUpTo(i + 1) = (i + 1) * share + rest
        BY <1>2, <3>5, <1>1
      <4> QED  BY <4>1, <4>2
    <3>8. RanksUpTo((i + 1) - 1) < rank /\ rank <= RanksUpTo(i + 1)
      <4>1. (i + 1) - 1 = i
        BY <3>5
      <4> QED  BY <4>1, <3>0, <3>1, <3>2, <3>3, <3>6, <3>7, <1>1
    <3> QED  BY <3>5, <3>8
  <2> QED  BY <2>1, <2>2
<1> QED  BY <1>3 DEF FirstSim

LEMMA RanksGrow ==
    ASSUME NEW i \in 0 .. runs, NEW j \in i .. runs
    PROVE  RanksUpTo(i) \in Nat /\ RanksUpTo(j) \in Nat /\ RanksUpTo(i) <= RanksUpTo(j)
<1>1. share \in Nat \ {0} /\ rest \in 0 .. runs - 1 /\ runs \in Nat \ {0}
  BY SharesType, RunsType
<1>2. j \in 0 .. runs
  BY <1>1
<1>3. /\ RanksUpTo(i) = i * share + (IF i <= rest THEN i ELSE rest)
      /\ RanksUpTo(j) = j * share + (IF j <= rest THEN j ELSE rest)
  BY <1>2 DEF RanksUpTo, share, rest
<1>4. i * share <= j * share /\ i * share \in Nat /\ j * share \in Nat
  BY <1>1, <1>2
<1> QED  BY <1>1, <1>2, <1>3, <1>4

\* The ranks of a simulation are an interval.
LEMMA RanksOfSim ==
    ASSUME NEW i \in Sims
    PROVE  {k \in 1 .. FirstJobs : FirstSim(k) = i} = RanksUpTo(i - 1) + 1 .. RanksUpTo(i)
<1>1. runs \in Nat \ {0} /\ i \in 1 .. runs /\ i - 1 \in 0 .. runs /\ i \in 0 .. runs
  BY RunsType DEF Sims
<1>2. RanksUpTo(i) \in Nat /\ RanksUpTo(i - 1) \in Nat /\ FirstJobs \in Nat
      /\ RanksUpTo(i) <= FirstJobs
  <2>1. runs \in i .. runs
    BY <1>1
  <2> QED  BY <1>1, <2>1, RanksGrow DEF FirstJobs
<1>3. ASSUME NEW k \in 1 .. FirstJobs, FirstSim(k) = i
      PROVE  k \in RanksUpTo(i - 1) + 1 .. RanksUpTo(i)
  <2>1. RanksUpTo(i - 1) < k /\ k <= RanksUpTo(i)
    BY <1>3, FirstSimOfRank
  <2> QED  BY <2>1, <1>2
<1>4. ASSUME NEW k \in RanksUpTo(i - 1) + 1 .. RanksUpTo(i)
      PROVE  k \in 1 .. FirstJobs /\ FirstSim(k) = i
  <2>1. k \in 1 .. FirstJobs /\ RanksUpTo(i - 1) < k /\ k <= RanksUpTo(i)
    BY <1>2
  <2> DEFINE f == FirstSim(k)
  <2>2. f \in 1 .. runs /\ RanksUpTo(f - 1) < k /\ k <= RanksUpTo(f)
    BY <2>1, FirstSimOfRank DEF Sims
  <2> HIDE DEF f
  <2>3. ~ (f < i)
    <3>1. SUFFICES ASSUME f < i PROVE FALSE
      OBVIOUS
    <3>2. f \in 0 .. runs /\ i - 1 \in f .. runs
      BY <3>1, <2>2, <1>1
    <3>3. RanksUpTo(f) <= RanksUpTo(i - 1) /\ RanksUpTo(f) \in Nat
      BY <3>2, RanksGrow
    <3> QED  BY <3>3, <2>1, <2>2, <1>2
  <2>4. ~ (i < f)
    <3>1. SUFFICES ASSUME i < f PROVE FALSE
      OBVIOUS
    <3>2. i \in 0 .. runs /\ f - 1 \in i .. runs
      BY <3>1, <2>2, <1>1
    <3>3. RanksUpTo(i) <= RanksUpTo(f - 1) /\ RanksUpTo(f - 1) \in Nat
      BY <3>2, RanksGrow
    <3> QED  BY <3>3, <2>1, <2>2, <1>2
  <2>5. f = i
    BY <2>2, <2>3, <2>4, <1>1
  <2> QED  BY <2>1, <2>5 DEF f
<1> QED  BY <1>3, <1>4

LEMMA RanksPerSim ==
    ASSUME NEW i \in Sims
    PROVE  Cardinality({k \in 1 .. FirstJobs : FirstSim(k) = i}) = InitReplications[i]
<1>1. runs \in Nat \ {0} /\ i \in 1 .. runs /\ i - 1 \in 0 .. runs /\ i \in 0 .. runs
  BY RunsType DEF Sims
<1>2. /\ RanksUpTo(i) \in Nat /\ RanksUpTo(i - 1) \in Nat
      /\ InitReplications[i] \in Nat \ {0}
      /\ RanksUpTo(i) = RanksUpTo(i - 1) + InitReplications[i]
  BY <1>1, RanksAddUp
<1>3. Cardinality(RanksUpTo(i - 1) + 1 .. RanksUpTo(i)) = InitReplications[i]
  <2> DEFINE a == RanksUpTo(i - 1) + 1
             b == RanksUpTo(i)
  <2>1. a \in Int /\ b \in Int /\ ~ (a > b) /\ b - a + 1 = InitReplications[i]
    BY <1>2
  <2> HIDE DEF a, b
  <2>2. Cardinality(a .. b) = b - a + 1
    BY <2>1, FS_Interval
  <2> QED  BY <2>1, <2>2 DEF a, b
<1> QED  BY <1>3, RanksOfSim
==============================================================================
