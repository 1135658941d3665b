-------------------------- MODULE Experiments_proofs --------------------------
(***************************************************************************)
(* Proofs about the program without a cluster: a line of simulations.dat   *)
(* tells what was run, however often the program was interrupted before,   *)
(* the experiment implements Replications, plain designs are Latin, and    *)
(* with a cluster a simulation is sent the same conditions.                *)
(***************************************************************************)
EXTENDS Experiments, FiniteSetTheorems, SequenceTheorems, WellFoundedInduction, TLAPS

\* The simulations one invocation may add.
Share == MaxSimulations \div MaxInvocations

Idle == pc \in {"off", "done"}

\* A simulation is being repeated.
Active == pc \in {"initial", "more", "confident"}

-----------------------------------------------------------------------------
(* The arguments and the size of a design.                                 *)

LEMMA ArgumentFacts ==
    ASSUME NEW opt \in Options
    PROVE  /\ parse(opt).add_sim = opt.add_sim /\ parse(opt).lhs = opt.lhs
           /\ parse(opt).confidence = (opt.confidence \/ opt.lhs)
           /\ parse(opt).replications \in Nat
           /\ opt.lhs => /\ parse(opt).simulations = opt.simulations % 65536
                         /\ parse(opt).ranges = opt.ranges
                         /\ parse(opt).lhs_optimal = opt.lhs_optimal
<1> DEFINE fields == OfExperiment \cup OfConfidence(opt) \cup OfDesign(opt) \cup OfLearning(opt)
           names == DOMAIN desArgs_t
           own == [d \in ToSet(Dimensions) |->
                        IF d \in Network(opt) \cup Learner(opt) THEN opt.values[d]
                        ELSE desArgs_t.values[d]]
           read == [f \in names |-> IF f \in fields THEN opt[f] ELSE desArgs_t[f]]
           args == [read EXCEPT !.values = own, !.simulations = @ % 2 ^ 16]
<1>1. parse(opt) = [args EXCEPT !.confidence = @ \/ args.lhs]
  BY DEF parse, verify
<1>2. /\ {"add_sim", "lhs", "confidence", "replications", "simulations", "ranges", "lhs_optimal",
          "values"} \subseteq names
      /\ desArgs_t.confidence = FALSE /\ desArgs_t.replications = 0
  BY DEF desArgs_t
<1>3. /\ {"add_sim", "lhs", "confidence"} \subseteq fields
      /\ opt.lhs => {"simulations", "ranges", "lhs_optimal"} \subseteq fields
  BY DEF OfExperiment, OfDesign
<1>4. opt.replications \in Nat /\ opt.lhs \in BOOLEAN /\ opt.confidence \in BOOLEAN
  BY OptionsAssumption
<1> HIDE DEF fields, names, own
<1>5. /\ read.add_sim = opt.add_sim /\ read.lhs = opt.lhs /\ read.confidence = opt.confidence
      /\ read.replications \in Nat
      /\ opt.lhs => /\ read.simulations = opt.simulations /\ read.ranges = opt.ranges
                    /\ read.lhs_optimal = opt.lhs_optimal
  BY <1>2, <1>3, <1>4
<1>6. DOMAIN read = names
  OBVIOUS
<1> HIDE DEF read
<1>7. /\ DOMAIN args = names
      /\ args.add_sim = opt.add_sim /\ args.lhs = opt.lhs /\ args.confidence = opt.confidence
      /\ args.replications = read.replications
      /\ opt.lhs => /\ args.simulations = opt.simulations % 65536
                    /\ args.ranges = opt.ranges /\ args.lhs_optimal = opt.lhs_optimal
  BY <1>2, <1>5, <1>6
<1> HIDE DEF args
<1> QED  BY <1>1, <1>2, <1>5, <1>7

\* A matrix has as many rows as its columns have entries.
LEMMA TransposedLength ==
    ASSUME NEW n \in Nat, NEW cols, 1 \in DOMAIN cols, Len(cols[1]) = n
    PROVE  Len(Transposed(cols)) = n
  BY DEF Transposed

LEMMA Powers ==
    ASSUME NEW m \in 2..8
    PROVE  2 ^ (m - 1) \in Nat /\ 2 ^ m = 2 * 2 ^ (m - 1)
<1>1. m = 2 \/ m = 3 \/ m = 4 \/ m = 5 \/ m = 6 \/ m = 7 \/ m = 8
  OBVIOUS
<1>2. /\ 2 ^ 1 = 2 /\ 2 ^ 2 = 4 /\ 2 ^ 3 = 8 /\ 2 ^ 4 = 16 /\ 2 ^ 5 = 32 /\ 2 ^ 6 = 64
      /\ 2 ^ 7 = 128 /\ 2 ^ 8 = 256
  OBVIOUS
<1>3. /\ 2 - 1 = 1 /\ 3 - 1 = 2 /\ 4 - 1 = 3 /\ 5 - 1 = 4 /\ 6 - 1 = 5 /\ 7 - 1 = 6 /\ 8 - 1 = 7
  OBVIOUS
<1>4. CASE m = 2
  BY <1>2, <1>3, <1>4
<1>5. CASE m = 3
  BY <1>2, <1>3, <1>5
<1>6. CASE m = 4
  BY <1>2, <1>3, <1>6
<1>7. CASE m = 5
  BY <1>2, <1>3, <1>7
<1>8. CASE m = 6
  BY <1>2, <1>3, <1>8
<1>9. CASE m = 7
  BY <1>2, <1>3, <1>9
<1>10. CASE m = 8
  BY <1>2, <1>3, <1>10
<1> QED  BY <1>1, <1>4, <1>5, <1>6, <1>7, <1>8, <1>9, <1>10

LEMMA MirroredLength ==
    ASSUME NEW m \in 2..8, NEW M, 1 \in DOMAIN M
    PROVE  Len(Mirrored(m, M)) = 2 ^ m + 1
<1> DEFINE size == 2 ^ (m - 1)
           cols == [c \in DOMAIN M |-> [k \in 1..size |-> M[c][k] * matrixS(m)[c][k]]]
           T == Transposed(cols)
           centre == [c \in DOMAIN M |-> 0]
           mirror == [k \in 1..size |-> [c \in DOMAIN M |-> - T[k][c]]]
           all == T \o <<centre>> \o mirror
<1>1. size \in Nat /\ 2 ^ m = 2 * size
  BY Powers
<1> HIDE DEF size
<1>2. 1 \in DOMAIN cols /\ Len(cols[1]) = size
  BY <1>1
<1>3. T = [k \in 1..Len(cols[1]) |-> Column(cols, k)]
  BY DEF Transposed
<1> HIDE DEF cols
<1>4. Len(T) = size /\ T \in Seq({T[k] : k \in 1..size})
  BY <1>1, <1>2, <1>3
<1> HIDE DEF T
<1>5. Len(mirror) = size /\ mirror \in Seq({mirror[k] : k \in 1..size})
  BY <1>1
<1> HIDE DEF mirror, centre
<1> DEFINE U == {T[k] : k \in 1..size} \cup {centre} \cup {mirror[k] : k \in 1..size}
<1>6. T \in Seq(U) /\ <<centre>> \in Seq(U) /\ mirror \in Seq(U)
  BY <1>4, <1>5
<1> HIDE DEF U
<1>7. Len(all) = size + 1 + size /\ DOMAIN all = 1..Len(all)
  BY <1>1, <1>4, <1>5, <1>6
<1>8. Mirrored(m, M) = [k \in DOMAIN all |-> [c \in DOMAIN M |-> all[k][c] + size]]
  BY DEF Mirrored, size, all, T, cols, centre, mirror
<1> HIDE DEF all
<1> QED  BY <1>1, <1>7, <1>8

LEMMA ListByIndex ==
    ASSUME NEW n \in Nat, NEW s, s = [k \in 1..n |-> s[k]]
    PROVE  s \in Seq({s[k] : k \in 1..n}) /\ Len(s) = n
  OBVIOUS

LEMMA ColumnsOfMatrix ==
    ASSUME NEW m \in 2..8, NEW e
    PROVE  1 \in DOMAIN matrixM(m, e)
<1> DEFINE s == [k \in 1..(m - 1) |-> Times(Turn(m, k), e)]
           t == [j \in 1..(m - 2) |-> Times(Turn(m, m - 1), Times(Turn(m, j), e))]
<1>1. s \in Seq({s[k] : k \in 1..(m - 1)}) /\ Len(s) = m - 1
  <2>1. s = [k \in 1..(m - 1) |-> s[k]] /\ m - 1 \in Nat
    OBVIOUS
  <2> HIDE DEF s
  <2> QED  BY <2>1, ListByIndex
<1>2. t \in Seq({t[k] : k \in 1..(m - 2)}) /\ Len(t) = m - 2
  <2>1. t = [k \in 1..(m - 2) |-> t[k]] /\ m - 2 \in Nat
    OBVIOUS
  <2> HIDE DEF t
  <2> QED  BY <2>1, ListByIndex
<1>3. matrixM(m, e) = <<e>> \o s \o t
  BY DEF matrixM
<1> DEFINE U == {e} \cup {s[k] : k \in 1..(m - 1)} \cup {t[k] : k \in 1..(m - 2)}
<1> HIDE DEF s, t
<1>4. <<e>> \in Seq(U) /\ s \in Seq(U) /\ t \in Seq(U)
  BY <1>1, <1>2
<1> HIDE DEF U
<1>5. /\ <<e>> \o s \in Seq(U) /\ Len(<<e>> \o s) = 1 + (m - 1)
      /\ Len((<<e>> \o s) \o t) = 1 + (m - 1) + (m - 2) /\ (<<e>> \o s) \o t \in Seq(U)
  <2>1. Len(<<e>>) = 1
    OBVIOUS
  <2>2. <<e>> \o s \in Seq(U) /\ Len(<<e>> \o s) = 1 + (m - 1)
    BY <1>1, <1>4, <2>1, ConcatProperties
  <2> QED  BY <1>2, <1>4, <2>2, ConcatProperties
<1>6. 1 \in 1..Len((<<e>> \o s) \o t)
  BY <1>5
<1> QED  BY <1>3, <1>5, <1>6, LenProperties

LEMMA OptimalLength ==
    ASSUME NEW m \in 2..8, NEW r, NEW d \in Optimal(m, r)
    PROVE  Len(d.rows) = 2 ^ m + 1
<1>1. PICK e : d.rows = Mirrored(m, Best(m, e, r))
  BY DEF Optimal
<1>2. \E p : Best(m, e, r) = matrixM(m, p)
  BY DEF Best
<1>3. 1 \in DOMAIN Best(m, e, r)
  BY <1>2, ColumnsOfMatrix
<1> QED  BY <1>1, <1>3, MirroredLength

LEMMA PlainLength ==
    ASSUME NEW n \in Nat, NEW nvar \in Nat, nvar >= 1, NEW d \in Plain(n, nvar)
    PROVE  Len(d.rows) = n
<1>1. d.rows \in PlainRows(n, nvar)
  BY DEF Plain
<1>2. \A perms, u : 1 \in DOMAIN Strata(n, nvar, perms, u) /\ Len(Strata(n, nvar, perms, u)[1]) = n
  BY DEF Strata
<1>3. \A perms, u : Len(Transposed(Strata(n, nvar, perms, u))) = n
  BY <1>2, TransposedLength
<1>4. \A a \in PlainRows(n, nvar) : Len(a) = n
  BY <1>3 DEF PlainRows
<1> QED  BY <1>1, <1>4

\* The designs SampleDesign may take.
Designs == IF desArgs.lhs_optimal THEN Optimal(desArgs.simulations, desArgs.lhs_r)
           ELSE Plain(desArgs.simulations, Cardinality(Varying))

LEMMA ShareFacts ==
    /\ Share \in Nat /\ MaxInvocations \in Nat \ {0} /\ MaxSimulations \in Nat
    /\ \A n \in Nat : n <= MaxInvocations => n * Share <= MaxSimulations
    /\ \A n \in Nat : n >= 1 => (n - 1) * Share + Share = n * Share /\ (n - 1) * Share \in Nat
    /\ \A n \in Nat : MaxInvocations * n <= MaxSimulations => n <= Share
<1>1. MaxInvocations \in Nat \ {0} /\ MaxSimulations \in Nat
  BY BoundsAssumption
<1>2. /\ Share \in Nat /\ MaxInvocations * Share <= MaxSimulations
      /\ MaxSimulations < MaxInvocations * Share + MaxInvocations
  BY <1>1 DEF Share
<1>3. ASSUME NEW n \in Nat, n <= MaxInvocations
      PROVE  n * Share <= MaxSimulations
  <2>1. n * Share <= MaxInvocations * Share
    BY <1>1, <1>2, <1>3
  <2>2. n * Share \in Nat /\ MaxInvocations * Share \in Nat
    BY <1>1, <1>2
  <2> QED  BY <1>1, <1>2, <2>1, <2>2
<1>4. ASSUME NEW n \in Nat, n >= 1
      PROVE  (n - 1) * Share + Share = n * Share /\ (n - 1) * Share \in Nat
  BY <1>2, <1>4
<1>5. ASSUME NEW n \in Nat, MaxInvocations * n <= MaxSimulations
      PROVE  n <= Share
  <2>1. MaxInvocations * n < MaxInvocations * (Share + 1)
    BY <1>1, <1>2, <1>5
  <2> QED  BY <1>1, <1>2, <2>1
<1> QED  BY <1>1, <1>2, <1>3, <1>4, <1>5

\* What a design is made from.
LEMMA DesignArguments ==
    ASSUME NEW opt \in Options, desArgs = parse(opt), opt.lhs
    PROVE  /\ opt.simulations \in Nat /\ 2 <= opt.simulations /\ opt.simulations <= 65535
           /\ opt.lhs_optimal => opt.simulations <= 8
           /\ desArgs.simulations = opt.simulations
           /\ desArgs.lhs_optimal = opt.lhs_optimal
           /\ Cardinality(Varying) \in Nat /\ Cardinality(Varying) >= 1
<1>1. /\ opt.simulations \in Nat /\ 2 <= opt.simulations /\ opt.simulations <= 65535
      /\ opt.lhs_optimal => opt.simulations <= 8
      /\ DOMAIN opt.ranges # {} /\ DOMAIN opt.ranges \subseteq ToSet(Dimensions)
  BY OptionsAssumption
<1> DEFINE m == opt.simulations
<1>2. desArgs.simulations = m
  <2>1. desArgs.simulations = opt.simulations % 65536
    BY ArgumentFacts
  <2>2. m \in Nat /\ m < 65536
    BY <1>1
  <2>3. desArgs.simulations = m % 65536
    BY <2>1
  <2> HIDE DEF m
  <2> QED  BY <2>2, <2>3
<1>3. desArgs.lhs_optimal = opt.lhs_optimal /\ desArgs.ranges = opt.ranges
  BY ArgumentFacts
<1>4. Cardinality(Varying) \in Nat /\ Cardinality(Varying) >= 1
  <2>1. PICK n \in Nat : DOMAIN Dimensions = 1..n
    BY DEF Dimensions
  <2>2. Varying \in SUBSET (1..n) /\ Varying # {}
    <3>1. PICK d \in DOMAIN opt.ranges : d \in ToSet(Dimensions)
      BY <1>1
    <3>2. PICK k \in DOMAIN Dimensions : Dimensions[k] = d
      BY <3>1 DEF ToSet
    <3>3. k \in Varying
      BY <1>3, <3>1, <3>2 DEF Varying
    <3> QED  BY <2>1, <3>3 DEF Varying
  <2>3. IsFiniteSet(Varying)
    <3>1. IsFiniteSet(1..n)
      BY FS_Interval
    <3> QED  BY <2>2, <3>1, FS_Subset
  <2>4. Cardinality(Varying) \in Nat /\ Cardinality(Varying) # 0
    BY <2>2, <2>3, FS_CardinalityType, FS_EmptySet
  <2> QED  BY <2>4
<1> QED  BY <1>1, <1>2, <1>3, <1>4

\* A simulation without a design is one; a design has no more rows than its share.
LEMMA DesignFits ==
    ASSUME NEW opt \in Options
    PROVE  /\ ~ opt.lhs => 1 <= Share
           /\ desArgs = parse(opt) /\ opt.lhs =>
                \A d \in Designs : Len(d.rows) \in Nat /\ Len(d.rows) <= Share
<1>1. MaxInvocations * Rows(opt) <= MaxSimulations
  BY NumbersAssumption
<1>2. ~ opt.lhs => 1 <= Share
  BY <1>1, ShareFacts DEF Rows
<1>3. ASSUME desArgs = parse(opt), opt.lhs
      PROVE  \A d \in Designs : Len(d.rows) \in Nat /\ Len(d.rows) <= Share
  <2> DEFINE m == opt.simulations
  <2>1. /\ opt.simulations \in Nat /\ 2 <= opt.simulations /\ opt.simulations <= 65535
        /\ opt.lhs_optimal => opt.simulations <= 8
    BY <1>3, DesignArguments
  <2>2. desArgs.simulations = m /\ desArgs.lhs_optimal = opt.lhs_optimal
    BY <1>3, DesignArguments
  <2>3. Cardinality(Varying) \in Nat /\ Cardinality(Varying) >= 1
    BY <1>3, DesignArguments
  <2>4. CASE opt.lhs_optimal
    <3>1. m \in 2..8
      BY <2>1, <2>4
    <3>2. 2 ^ m + 1 \in Nat
      <4> HIDE DEF m
      <4>1. 2 ^ (m - 1) \in Nat /\ 2 ^ m = 2 * 2 ^ (m - 1)
        BY <3>1, Powers
      <4> QED  BY <4>1
    <3>3. Rows(opt) = 2 ^ m + 1
      BY <1>3, <2>4 DEF Rows
    <3>4. \A d \in Designs : Len(d.rows) = 2 ^ m + 1
      <4>1. Designs = Optimal(m, desArgs.lhs_r)
        BY <2>2, <2>4 DEF Designs
      <4> HIDE DEF m
      <4> QED  BY <3>1, <4>1, OptimalLength
    <3> HIDE DEF m
    <3> QED  BY <1>1, <3>2, <3>3, <3>4, ShareFacts
  <2>5. CASE ~ opt.lhs_optimal
    <3>1. Rows(opt) = m
      BY <1>3, <2>5 DEF Rows
    <3>2. \A d \in Designs : Len(d.rows) = m
      <4>1. Designs = Plain(m, Cardinality(Varying))
        BY <2>2, <2>5 DEF Designs
      <4>2. m \in Nat
        BY <2>1
      <4> HIDE DEF m
      <4> QED  BY <2>3, <4>1, <4>2, PlainLength
    <3>3. m \in Nat
      BY <2>1
    <3> HIDE DEF m
    <3> QED  BY <1>1, <3>1, <3>2, <3>3, ShareFacts
  <2> QED  BY <2>4, <2>5
<1> QED  BY <1>2, <1>3

-----------------------------------------------------------------------------
(* The directories.                                                        *)

\* The directories of simulations in D are those of the first n.
NumberedUpTo(D, n) == {d \in D : Len(d) = 1} = {<<s>> : s \in 1..n}

LEMMA CountDirectories ==
    ASSUME NEW n \in Nat
    PROVE  Cardinality({<<s>> : s \in 1..n}) = n
<1> DEFINE S == 1..n
           T == {<<s>> : s \in S}
           f == [s \in S |-> <<s>>]
<1>1. IsFiniteSet(S) /\ Cardinality(S) = n
  BY FS_Interval
<1>2. f \in Bijection(S, T)
  <2>1. f \in [S -> T] /\ \A s, t \in S : f[s] = f[t] => s = t
    OBVIOUS
  <2>2. \A t \in T : \E s \in S : f[s] = t
    OBVIOUS
  <2> HIDE DEF f, T, S
  <2> QED  BY <2>1, <2>2 DEF Bijection, Injection, Surjection, IsInjective
<1> HIDE DEF S, T, f
<1>3. Cardinality(S) = Cardinality(T)
  BY <1>1, <1>2, FS_Bijection DEF ExistsBijection
<1> QED  BY <1>1, <1>3 DEF T, S

\* A directory for a simulation, after those that are there or among them.
LEMMA NewDirectory ==
    ASSUME NEW D, NEW n \in Nat, NumberedUpTo(D, n), NEW s \in 1..(n + 1), NEW r
    PROVE  /\ NumberedUpTo(D \cup {<<s>>}, IF s = n + 1 THEN n + 1 ELSE n)
           /\ NumberedUpTo(D \cup {<<s>>, <<s, r>>}, IF s = n + 1 THEN n + 1 ELSE n)
<1> DEFINE m == IF s = n + 1 THEN n + 1 ELSE n
<1>1. {d \in D \cup {<<s>>} : Len(d) = 1} = {d \in D : Len(d) = 1} \cup {<<s>>}
  OBVIOUS
<1>2. {d \in D \cup {<<s>>, <<s, r>>} : Len(d) = 1} = {d \in D : Len(d) = 1} \cup {<<s>>}
  OBVIOUS
<1>3. {<<t>> : t \in 1..n} \cup {<<s>>} = {<<t>> : t \in 1..m}
  <2>1. 1..m = (1..n) \cup {s}
    OBVIOUS
  <2> HIDE DEF m
  <2> QED  BY <2>1
<1> HIDE DEF m
<1> QED  BY <1>1, <1>2, <1>3 DEF NumberedUpTo, m

LEMMA DirectoriesAfter ==
    ASSUME directories \in Nat, NumberedUpTo(dirs, directories),
           NEW s \in 1..(directories + 1), NEW r,
           dirs' = dirs \cup {<<s>>} \/ dirs' = dirs \cup {<<s>>, <<s, r>>}
    PROVE  /\ NumberedUpTo(dirs', directories') /\ directories' \in Nat
           /\ directories' = IF s = directories + 1 THEN directories + 1 ELSE directories
<1> DEFINE n == directories
           m == IF s = n + 1 THEN n + 1 ELSE n
<1>1. n \in Nat /\ s \in 1..(n + 1) /\ NumberedUpTo(dirs, n)
  OBVIOUS
<1> HIDE DEF n
<1>2. m \in Nat
  BY <1>1
<1>3. NumberedUpTo(dirs', m)
  <2>1. /\ NumberedUpTo(dirs \cup {<<s>>}, m)
        /\ NumberedUpTo(dirs \cup {<<s>>, <<s, r>>}, m)
    BY <1>1, NewDirectory
  <2> HIDE DEF m
  <2>2. CASE dirs' = dirs \cup {<<s>>}
    BY <2>1, <2>2
  <2>3. CASE dirs' = dirs \cup {<<s>>, <<s, r>>}
    BY <2>1, <2>3
  <2> QED  BY <2>2, <2>3
<1> HIDE DEF m
<1>4. directories' = m
  BY <1>2, <1>3, CountDirectories DEF directories, NumberedUpTo
<1> QED  BY <1>2, <1>3, <1>4 DEF m, n

-----------------------------------------------------------------------------
(* Where the program is, and how many simulations there are.               *)

\* The command line of this invocation.
ArgsInv ==
    /\ pc \in {"off", "done", "sample", "row", "ci", "single", "initial", "more", "confident"}
    /\ invocations \in Nat /\ invocations <= MaxInvocations
    /\ ~ Idle =>
         /\ invocations >= 1
         /\ \E opt \in Options : desArgs = parse(opt) /\ (opt.add_sim <=> invocations > 1)
         /\ pc = "single" <=> ~ desArgs.confidence
    /\ pc \in {"sample", "row"} => desArgs.lhs

\* The number of the simulation is that of the last directory, or of the next:
\* the first invocation counts rows, the others count directories.
PlaceInv ==
    /\ directories \in Nat /\ NumberedUpTo(dirs, directories)
    /\ i \in Nat
    /\ invocations = 0 => directories = 0
    /\ invocations = 1 /\ pc \in {"sample", "row", "ci", "single"} => directories = i
    /\ invocations = 1 /\ pc \in {"ci", "single"} => sim_num = i + 1
    /\ Active => sim_num = directories /\ sim_num >= 1 /\ (invocations = 1 => directories = i + 1)
    /\ pc \in {"sample", "single"} => i = 0
    /\ pc = "single" => invocations = 1 /\ rep_num = 1

\* An invocation adds its share at most.
ShareInv ==
    /\ Idle => directories <= invocations * Share
    /\ pc \in {"sample", "row", "ci", "single"} => directories <= (invocations - 1) * Share + i
    /\ Active => directories <= (invocations - 1) * Share + i + 1
    /\ pc = "row" => /\ Len(design.rows) \in Nat /\ i <= Len(design.rows)
                     /\ Len(design.rows) <= Share
    /\ pc \in {"ci", "single"} \/ Active => i + 1 <= Share
    /\ (pc = "ci" \/ Active) /\ desArgs.lhs =>
         /\ Len(design.rows) \in Nat /\ i + 1 <= Len(design.rows)
         /\ Len(design.rows) <= Share

WhereInv == ArgsInv /\ PlaceInv /\ ShareInv

\* What the arguments are while the program runs.
LEMMA RunningFacts ==
    ASSUME ArgsInv, ~ Idle
    PROVE  /\ invocations \in Nat /\ invocations >= 1 /\ invocations <= MaxInvocations
           /\ desArgs.add_sim <=> invocations > 1
           /\ desArgs.replications \in Nat
           /\ pc # "single" => desArgs.confidence
<1>1. PICK opt \in Options : desArgs = parse(opt) /\ (opt.add_sim <=> invocations > 1)
  BY DEF ArgsInv
<1>2. desArgs.add_sim = opt.add_sim /\ desArgs.replications \in Nat
  BY <1>1, ArgumentFacts
<1> QED  BY <1>1, <1>2 DEF ArgsInv

LEMMA Bounded ==
    ASSUME WhereInv, ~ Idle
    PROVE  /\ directories <= invocations * Share
           /\ pc = "single" => directories + 1 <= invocations * Share
           /\ Active => directories <= invocations * Share
           /\ pc = "row" => (invocations - 1) * Share + i <= invocations * Share
<1>1. invocations \in Nat /\ invocations >= 1 /\ directories \in Nat /\ i \in Nat
  BY RunningFacts DEF WhereInv, PlaceInv
<1>2. /\ (invocations - 1) * Share + Share = invocations * Share
      /\ (invocations - 1) * Share \in Nat /\ Share \in Nat
  BY <1>1, ShareFacts
<1> DEFINE before == (invocations - 1) * Share
<1>3. before \in Nat /\ before + Share = invocations * Share
  BY <1>2
<1> HIDE DEF before
<1>4. i <= Share
  <2>1. pc \in {"sample", "row", "ci", "single"} \/ Active
    BY DEF WhereInv, ArgsInv, Idle, Active
  <2>2. CASE pc = "sample"
    BY <1>2, <2>2 DEF WhereInv, PlaceInv
  <2>3. CASE pc = "row"
    BY <1>1, <1>2, <2>3 DEF WhereInv, ShareInv
  <2>4. CASE pc \in {"ci", "single"} \/ Active
    BY <1>1, <1>2, <2>4 DEF WhereInv, ShareInv
  <2> QED  BY <2>1, <2>2, <2>3, <2>4
<1>5. CASE pc \in {"sample", "row", "ci", "single"}
  <2>1. directories <= before + i
    BY <1>5 DEF WhereInv, ShareInv, before
  <2>2. ~ Active
    BY <1>5 DEF Active
  <2>3. pc = "single" => i + 1 <= Share
    BY DEF WhereInv, ShareInv
  <2> QED  BY <1>1, <1>2, <1>3, <1>4, <2>1, <2>2, <2>3 DEF before
<1>6. CASE Active
  <2>1. directories <= before + i + 1 /\ i + 1 <= Share
    BY <1>6 DEF WhereInv, ShareInv, before
  <2>2. pc # "single" /\ pc # "row"
    BY <1>6 DEF Active
  <2> QED  BY <1>1, <1>2, <1>3, <2>1, <2>2
<1> QED  BY <1>5, <1>6 DEF WhereInv, ArgsInv, Idle, Active

LEMMA MainWhere ==
    ASSUME WhereInv, Main
    PROVE  WhereInv'
<1>1. PICK opt \in Options : opt.add_sim = (invocations > 0) /\ desArgs' = parse(opt)
  BY DEF Main
<1>2. /\ Idle /\ invocations < MaxInvocations /\ invocations' = invocations + 1
      /\ pc' = IF desArgs'.lhs /\ desArgs'.confidence THEN "sample"
               ELSE IF desArgs'.confidence THEN "ci" ELSE "single"
      /\ sim_num' = 1 /\ rep_num' = 1 /\ i' = 0 /\ dirs' = dirs
  BY DEF Main, Idle
<1>3. /\ desArgs'.lhs = opt.lhs /\ desArgs'.confidence = (opt.confidence \/ opt.lhs)
  BY <1>1, ArgumentFacts
<1>4. /\ opt.lhs \in BOOLEAN /\ opt.confidence \in BOOLEAN /\ opt.add_sim \in BOOLEAN
      /\ opt.add_sim => opt.lhs \/ opt.confidence
      /\ ~ opt.lhs => 1 <= Share
  BY OptionsAssumption, DesignFits
<1>5. /\ pc' \in {"sample", "ci", "single"}
      /\ pc' = "sample" <=> opt.lhs
      /\ pc' = "single" <=> ~ desArgs'.confidence
      /\ pc' = "single" => ~ opt.add_sim
  BY <1>2, <1>3, <1>4
<1>6. /\ invocations \in Nat /\ directories \in Nat /\ directories <= invocations * Share
      /\ invocations = 0 => directories = 0
      /\ NumberedUpTo(dirs, directories)
  BY <1>2 DEF WhereInv, ArgsInv, PlaceInv, ShareInv
<1>7. directories' = directories
  BY <1>2 DEF directories
<1>8. MaxInvocations \in Nat
  BY ShareFacts
<1>add. opt.add_sim <=> invocations' > 1
  <2>1. invocations > 0 <=> invocations' > 1
    BY <1>2, <1>6
  <2>2. opt.add_sim <=> invocations > 0
    BY ONLY <1>1
  <2> QED  BY ONLY <2>1, <2>2
<1>9. ArgsInv'
  <2>1. invocations' \in Nat /\ invocations' <= MaxInvocations /\ invocations' >= 1
    BY <1>2, <1>6, <1>8
  <2>2. opt.add_sim <=> invocations' > 1
    BY <1>add
  <2>3. ~ Idle' /\ pc' # "row"
    BY <1>5 DEF Idle
  <2>4. desArgs'.lhs <=> opt.lhs
    BY <1>3
  <2> QED  BY <1>1, <1>5, <2>1, <2>2, <2>3, <2>4 DEF ArgsInv
<1>10. ~ Active' /\ ~ Idle' /\ pc' # "row"
  BY <1>5 DEF Active, Idle
<1>11. PlaceInv'
  <2>1. invocations' # 0 /\ (invocations' = 1 => directories' = 0)
    BY <1>2, <1>6, <1>7
  <2>2. pc' = "single" => invocations' = 1
    <3>1. pc' = "single" => ~ (invocations' > 1)
      BY ONLY <1>5, <1>add
    <3>2. invocations' \in Nat /\ invocations' # 0
      BY <1>2, <1>6
    <3> QED  BY <3>1, <3>2
  <2> QED  BY <1>2, <1>6, <1>7, <1>10, <2>1, <2>2 DEF PlaceInv
<1>12. ShareInv'
  <2>1. directories' <= (invocations' - 1) * Share + i'
    <3>1. invocations' - 1 = invocations
      BY <1>2, <1>6
    <3>2. invocations * Share \in Nat
      BY <1>6, ShareFacts
    <3> QED  BY <1>2, <1>6, <1>7, <3>1, <3>2
  <2>2. pc' \in {"ci", "single"} => i' + 1 <= Share /\ ~ desArgs'.lhs
    BY <1>2, <1>3, <1>4, <1>5, ShareFacts
  <2> QED  BY <1>10, <2>1, <2>2 DEF ShareInv, Share
<1> QED  BY <1>9, <1>11, <1>12 DEF WhereInv

LEMMA SampleDesignWhere ==
    ASSUME WhereInv, SampleDesign
    PROVE  WhereInv'
<1>1. /\ pc = "sample" /\ pc' = "row" /\ invocations' = invocations /\ desArgs' = desArgs
      /\ i' = i /\ dirs' = dirs /\ design' \in Designs
  BY DEF SampleDesign, Designs
<1>2. ~ Idle /\ ~ Idle' /\ ~ Active'
  BY <1>1 DEF Idle, Active
<1>3. directories' = directories
  BY <1>1 DEF directories
<1>4. PICK opt \in Options : desArgs = parse(opt) /\ (opt.add_sim <=> invocations > 1)
  BY <1>2 DEF WhereInv, ArgsInv
<1>5. opt.lhs
  BY <1>1, <1>4, ArgumentFacts DEF WhereInv, ArgsInv
<1>6. Len(design'.rows) \in Nat /\ Len(design'.rows) <= Share
  BY <1>1, <1>4, <1>5, DesignFits
<1>7. ArgsInv'
  BY <1>1, <1>2, <1>4 DEF WhereInv, ArgsInv
<1>8. PlaceInv'
  BY <1>1, <1>2, <1>3 DEF WhereInv, PlaceInv
<1>9. ShareInv'
  <2>1. i = 0
    BY <1>1 DEF WhereInv, PlaceInv
  <2>2. directories <= (invocations - 1) * Share + i
    BY <1>1 DEF WhereInv, ShareInv
  <2> QED  BY <1>1, <1>2, <1>3, <1>6, <2>1, <2>2 DEF ShareInv, Share
<1> QED  BY <1>7, <1>8, <1>9 DEF WhereInv

LEMMA NextRowWhere ==
    ASSUME WhereInv, NextRow
    PROVE  WhereInv'
<1>1. /\ pc = "row" /\ invocations' = invocations /\ desArgs' = desArgs
      /\ i' = i /\ dirs' = dirs /\ design' = design
      /\ \/ i < Len(design.rows) /\ sim_num' = i + 1 /\ pc' = "ci"
         \/ i = Len(design.rows) /\ pc' = "done"
  BY DEF NextRow, files
<1>2. ~ Idle /\ ~ Active' /\ (Idle' <=> pc' = "done") /\ pc' # "single"
  BY <1>1 DEF Idle, Active
<1>3. directories' = directories
  BY <1>1 DEF directories
<1>4. ArgsInv'
  BY <1>1, <1>2 DEF WhereInv, ArgsInv
<1>5. PlaceInv'
  BY <1>1, <1>2, <1>3 DEF WhereInv, PlaceInv, ArgsInv
<1>6. ShareInv'
  <2>1. /\ Len(design.rows) \in Nat /\ i <= Len(design.rows) /\ Len(design.rows) <= Share
        /\ directories <= (invocations - 1) * Share + i /\ i \in Nat /\ Share \in Nat
    BY <1>1, ShareFacts DEF WhereInv, ShareInv, PlaceInv
  <2>2. directories <= invocations * Share
    BY <1>2, Bounded
  <2>3. i < Len(design.rows) => i + 1 <= Len(design.rows) /\ i + 1 <= Share
    BY <2>1
  <2> QED  BY <1>1, <1>2, <1>3, <2>1, <2>2, <2>3 DEF ShareInv, Share
<1> QED  BY <1>4, <1>5, <1>6 DEF WhereInv

LEMMA BeginWhere ==
    ASSUME WhereInv, BeginReplications
    PROVE  /\ WhereInv' /\ Active'
           /\ sim_num' = directories + 1 /\ directories' = directories + 1
<1>1. /\ pc = "ci" /\ invocations' = invocations /\ desArgs' = desArgs
      /\ i' = i /\ design' = design /\ rep_num' = 1 /\ values' = 0
      /\ sim_num' = IF desArgs.add_sim THEN directories + 1 ELSE sim_num
      /\ dirs' = dirs \cup {<<sim_num'>>}
      /\ pc' \in {"initial", "more"}
  BY DEF BeginReplications
<1>2. ~ Idle /\ ~ Active /\ ~ Idle' /\ Active'
  BY <1>1 DEF Idle, Active
<1>3. /\ invocations \in Nat /\ invocations >= 1 /\ (desArgs.add_sim <=> invocations > 1)
      /\ desArgs.confidence
  BY <1>1, <1>2, RunningFacts DEF WhereInv
<1>4. /\ directories \in Nat /\ NumberedUpTo(dirs, directories) /\ i \in Nat
      /\ invocations = 1 => sim_num = i + 1 /\ directories = i
      /\ directories <= (invocations - 1) * Share + i
      /\ i + 1 <= Share
      /\ desArgs.lhs => /\ Len(design.rows) \in Nat /\ i + 1 <= Len(design.rows)
                        /\ Len(design.rows) <= Share
  BY <1>1 DEF WhereInv, PlaceInv, ShareInv
<1>5. sim_num' = directories + 1
  <2>1. CASE desArgs.add_sim
    BY <1>1, <2>1
  <2>2. CASE ~ desArgs.add_sim
    <3>1. invocations = 1
      BY <1>3, <2>2
    <3> QED  BY <1>1, <1>4, <2>2, <3>1
  <2> QED  BY <2>1, <2>2
<1>6. /\ NumberedUpTo(dirs', directories') /\ directories' \in Nat
      /\ directories' = directories + 1
  <2> DEFINE s == directories + 1
  <2>1. s \in 1..(directories + 1) /\ dirs' = dirs \cup {<<s>>}
    BY <1>1, <1>4, <1>5
  <2>2. /\ NumberedUpTo(dirs', directories') /\ directories' \in Nat
        /\ directories' = IF s = directories + 1 THEN directories + 1 ELSE directories
    <3> HIDE DEF s
    <3> QED  BY <1>4, <2>1, DirectoriesAfter
  <2> QED  BY <2>2
<1>7. ArgsInv'
  <2>1. PICK opt \in Options : desArgs = parse(opt) /\ (opt.add_sim <=> invocations > 1)
    BY <1>2 DEF WhereInv, ArgsInv
  <2> QED  BY <1>1, <1>3, <2>1 DEF WhereInv, ArgsInv
<1>8. PlaceInv'
  <2>1. sim_num' >= 1 /\ (invocations = 1 => directories' = i + 1)
    BY <1>4, <1>5, <1>6
  <2>2. pc' \notin {"sample", "row", "ci", "single"} /\ invocations' # 0
    BY <1>1, <1>3
  <2> QED  BY <1>1, <1>4, <1>5, <1>6, <2>1, <2>2 DEF PlaceInv
<1>9. ShareInv'
  <2>1. directories' <= (invocations - 1) * Share + i + 1
    <3> DEFINE before == (invocations - 1) * Share
    <3>1. before \in Nat /\ directories <= before + i
      BY <1>3, <1>4, ShareFacts
    <3> HIDE DEF before
    <3>2. directories' <= before + i + 1
      BY <1>4, <1>6, <3>1
    <3> QED  BY <3>2 DEF before
  <2> QED  BY <1>1, <1>2, <1>4, <2>1 DEF ShareInv, Share
<1> QED  BY <1>2, <1>5, <1>6, <1>7, <1>8, <1>9 DEF WhereInv

\* A replication has its directory within that of the simulation.
LEMMA SameDirectories ==
    ASSUME WhereInv, Active, NEW r,
           dirs' = dirs \/ dirs' = dirs \cup {<<sim_num>>, <<sim_num, r>>}
    PROVE  directories' = directories /\ NumberedUpTo(dirs', directories')
<1>1. /\ directories \in Nat /\ NumberedUpTo(dirs, directories)
      /\ sim_num = directories /\ sim_num >= 1
  BY DEF WhereInv, PlaceInv
<1>2. CASE dirs' = dirs
  BY <1>1, <1>2 DEF directories
<1>3. CASE dirs' = dirs \cup {<<sim_num>>, <<sim_num, r>>}
  <2>1. sim_num \in 1..(directories + 1) /\ sim_num # directories + 1
    BY <1>1
  <2>2. /\ NumberedUpTo(dirs', directories') /\ directories' \in Nat
        /\ directories' = IF sim_num = directories + 1 THEN directories + 1 ELSE directories
    BY <1>1, <1>3, <2>1, DirectoriesAfter
  <2> QED  BY <2>1, <2>2
<1> QED  BY <1>2, <1>3

LEMMA ReplicateWhere ==
    ASSUME WhereInv, Replicate
    PROVE  WhereInv' /\ directories' = directories
<1>1. /\ pc \in {"initial", "more"} /\ invocations' = invocations /\ desArgs' = desArgs
      /\ i' = i /\ design' = design /\ sim_num' = sim_num
      /\ dirs' = dirs \cup {<<sim_num>>, <<sim_num, rep_num>>}
  BY DEF Replicate, Simulate
<1>2. pc' \in {"initial", "more", "confident"}
  BY <1>1 DEF Replicate
<1>3. ~ Idle /\ ~ Idle' /\ Active /\ Active'
  BY <1>1, <1>2 DEF Idle, Active
<1>4. directories' = directories /\ NumberedUpTo(dirs', directories')
  BY <1>1, <1>3, SameDirectories
<1>5. pc \notin {"sample", "row", "ci", "single"} /\ pc' \notin {"sample", "row", "ci", "single"}
  BY <1>1, <1>2
<1>6. ArgsInv'
  BY <1>1, <1>2, <1>3, <1>5 DEF WhereInv, ArgsInv
<1>7. PlaceInv'
  BY <1>1, <1>3, <1>4, <1>5 DEF WhereInv, PlaceInv
<1>8. ShareInv'
  <2>1. pc' # "row" /\ pc' # "ci" /\ pc' # "single"
    BY <1>5
  <2> QED  BY <1>1, <1>3, <1>4, <1>5, <2>1 DEF WhereInv, ShareInv, Share
<1> QED  BY <1>4, <1>6, <1>7, <1>8 DEF WhereInv

LEMMA ReportWhere ==
    ASSUME WhereInv, Report
    PROVE  WhereInv'
<1>1. /\ pc = "confident" /\ invocations' = invocations /\ desArgs' = desArgs
      /\ design' = design /\ dirs' = dirs
      /\ IF desArgs.lhs THEN i' = i + 1 /\ pc' = "row" ELSE pc' = "done" /\ i' = i
  BY DEF Report
<1>2. /\ ~ Idle /\ Active /\ ~ Active' /\ (Idle' <=> pc' = "done") /\ pc' \in {"row", "done"}
  BY <1>1 DEF Idle, Active
<1>3. directories' = directories
  BY <1>1 DEF directories
<1>4. /\ i \in Nat /\ directories \in Nat /\ NumberedUpTo(dirs, directories)
      /\ directories <= (invocations - 1) * Share + i + 1
      /\ invocations = 1 => directories = i + 1
      /\ invocations >= 1 /\ invocations \in Nat
      /\ directories <= invocations * Share
      /\ desArgs.lhs => /\ Len(design.rows) \in Nat /\ i + 1 <= Len(design.rows)
                        /\ Len(design.rows) <= Share
  BY <1>2, RunningFacts, Bounded DEF WhereInv, PlaceInv, ShareInv
<1>5. ArgsInv'
  <2>1. pc' = "row" => desArgs.lhs
    BY <1>1
  <2>2. pc' # "single" /\ pc # "single" /\ pc' # "sample"
    BY <1>1, <1>2
  <2> QED  BY <1>1, <1>2, <2>1, <2>2 DEF WhereInv, ArgsInv
<1>6. PlaceInv'
  <2>1. pc' = "row" => i' = i + 1
    BY <1>1
  <2>2. i' \in Nat
    BY <1>1, <1>4
  <2>3. pc' \notin {"sample", "ci", "single"}
    BY <1>2
  <2>4. invocations' # 0 /\ (invocations' = 1 /\ pc' = "row" => directories' = i')
    BY <1>1, <1>3, <1>4, <2>1
  <2>5. directories' \in Nat /\ NumberedUpTo(dirs', directories')
    BY <1>1, <1>3, <1>4
  <2> QED  BY <1>2, <2>2, <2>3, <2>4, <2>5 DEF PlaceInv
<1>7. ShareInv'
  <2>1. pc' = "row" => directories <= (invocations - 1) * Share + i'
    <3> DEFINE before == (invocations - 1) * Share
    <3>1. before \in Nat /\ directories <= before + i + 1
      BY <1>4, ShareFacts
    <3>2. pc' = "row" => i' = i + 1
      BY <1>1
    <3> HIDE DEF before
    <3>3. pc' = "row" => directories <= before + i'
      BY <1>4, <3>1, <3>2
    <3> QED  BY <3>3 DEF before
  <2>2. /\ pc' = "row" => i' <= Len(design.rows) /\ desArgs.lhs
        /\ pc' \notin {"sample", "ci", "single"}
    BY <1>1, <1>2, <1>4
  <2> QED  BY <1>1, <1>2, <1>3, <1>4, <2>1, <2>2 DEF ShareInv, Share
<1> QED  BY <1>5, <1>6, <1>7 DEF WhereInv

\* The directory of the only simulation of an invocation that repeats nothing.
LEMMA OnlyDirectory ==
    ASSUME WhereInv, pc = "single", NEW r,
           dirs' = dirs \/ dirs' = dirs \cup {<<sim_num>>, <<sim_num, r>>}
    PROVE  /\ NumberedUpTo(dirs', directories') /\ directories' \in Nat
           /\ directories' <= invocations * Share
           /\ directories = 0 /\ sim_num = 1 /\ rep_num = 1
           /\ dirs' # dirs => directories' = 1
<1>1. ~ Idle
  BY DEF Idle
<1>2. /\ directories \in Nat /\ NumberedUpTo(dirs, directories) /\ i = 0
      /\ invocations = 1 /\ rep_num = 1 /\ directories = i /\ sim_num = i + 1
  BY DEF WhereInv, PlaceInv
<1>3. directories + 1 <= invocations * Share /\ directories <= invocations * Share
  BY <1>1, Bounded
<1>4. directories = 0 /\ sim_num = 1
  BY <1>2
<1>5. CASE dirs' = dirs
  <2>1. directories' = directories
    BY <1>5 DEF directories
  <2> QED  BY <1>2, <1>3, <1>4, <1>5, <2>1
<1>6. CASE dirs' = dirs \cup {<<sim_num>>, <<sim_num, r>>}
  <2>1. sim_num \in 1..(directories + 1) /\ sim_num = directories + 1
    BY <1>4
  <2>2. /\ NumberedUpTo(dirs', directories') /\ directories' \in Nat
        /\ directories' = IF sim_num = directories + 1 THEN directories + 1 ELSE directories
    BY <1>2, <1>6, <2>1, DirectoriesAfter
  <2> QED  BY <1>2, <1>3, <1>4, <2>1, <2>2
<1> QED  BY <1>5, <1>6

\* The program ends, whatever it was doing.
LEMMA EndsWhere ==
    ASSUME WhereInv, ~ Idle, Idle', NEW r,
           invocations' = invocations,
           dirs' = dirs \/ ( /\ pc \in {"initial", "more", "single"}
                             /\ dirs' = dirs \cup {<<sim_num>>, <<sim_num, r>>} ),
           i' = i, pc' \in {"off", "done"}
    PROVE  WhereInv'
<1>1. /\ invocations \in Nat /\ invocations >= 1 /\ invocations <= MaxInvocations
      /\ directories <= invocations * Share
  BY RunningFacts, Bounded DEF WhereInv
<1>2. /\ NumberedUpTo(dirs', directories') /\ directories' \in Nat
      /\ directories' <= invocations * Share
  <2>1. directories \in Nat /\ NumberedUpTo(dirs, directories)
    BY DEF WhereInv, PlaceInv
  <2>2. CASE dirs' = dirs
    <3>1. directories' = directories
      BY <2>2 DEF directories
    <3> QED  BY <1>1, <2>1, <2>2, <3>1
  <2>3. CASE pc \in {"initial", "more"} /\ dirs' = dirs \cup {<<sim_num>>, <<sim_num, r>>}
    <3>1. Active
      BY <2>3 DEF Active
    <3>2. directories' = directories /\ NumberedUpTo(dirs', directories')
      BY <2>3, <3>1, SameDirectories
    <3> QED  BY <1>1, <2>1, <3>2
  <2>4. CASE pc = "single" /\ dirs' = dirs \cup {<<sim_num>>, <<sim_num, r>>}
    BY <2>4, OnlyDirectory
  <2> QED  BY <2>2, <2>3, <2>4
<1>3. pc' \notin {"sample", "row", "ci", "single", "initial", "more", "confident"} /\ ~ Active'
  BY DEF Active
<1>4. ArgsInv'
  BY <1>1, <1>3 DEF ArgsInv
<1>5. PlaceInv'
  BY <1>1, <1>2, <1>3 DEF WhereInv, PlaceInv
<1>6. ShareInv'
  BY <1>1, <1>2, <1>3 DEF ShareInv, Share
<1> QED  BY <1>4, <1>5, <1>6 DEF WhereInv

LEMMA SingleWhere ==
    ASSUME WhereInv, Single
    PROVE  WhereInv' /\ directories' = 1 /\ directories = 0 /\ sim_num = 1 /\ rep_num = 1
<1>1. /\ pc = "single" /\ pc' = "done" /\ invocations' = invocations /\ i' = i
      /\ dirs' = dirs \cup {<<sim_num>>, <<sim_num, rep_num>>}
  BY DEF Single, Simulate
<1>2. ~ Idle /\ Idle'
  BY <1>1 DEF Idle
<1>3. WhereInv'
  BY <1>1, <1>2, EndsWhere
<1>4. /\ directories = 0 /\ sim_num = 1 /\ rep_num = 1
      /\ dirs' # dirs => directories' = 1
  BY <1>1, OnlyDirectory
<1>5. dirs' # dirs
  <2>1. {d \in dirs : Len(d) = 1} = {}
    <3>1. NumberedUpTo(dirs, 0)
      BY <1>4 DEF WhereInv, PlaceInv
    <3> QED  BY <3>1 DEF NumberedUpTo
  <2>2. <<sim_num>> \notin dirs
    BY <2>1
  <2> QED  BY <1>1, <2>2
<1> QED  BY <1>3, <1>4, <1>5

LEMMA StopsWhere ==
    ASSUME WhereInv, SeedsExhausted \/ Interrupted
    PROVE  WhereInv'
<1>1. /\ ~ Idle /\ pc' = "off" /\ invocations' = invocations /\ i' = i
      /\ \/ dirs' = dirs
         \/ /\ pc \in {"initial", "more", "single"}
            /\ dirs' = dirs \cup {<<sim_num>>, <<sim_num, rep_num>>}
  <2>1. CASE SeedsExhausted
    BY <2>1 DEF SeedsExhausted, Idle
  <2>2. CASE Interrupted
    BY <2>2 DEF Interrupted, Idle
  <2> QED  BY <2>1, <2>2
<1>2. Idle'
  BY <1>1 DEF Idle
<1> QED  BY <1>1, <1>2, EndsWhere

LEMMA InitWhere ==
    ASSUME Init
    PROVE  WhereInv
<1>1. /\ pc = "off" /\ invocations = 0 /\ i = 0 /\ dirs = {}
  BY DEF Init
<1>2. directories = 0 /\ NumberedUpTo(dirs, 0)
  <2>1. {d \in dirs : Len(d) = 1} = {<<s>> : s \in 1..0}
    BY <1>1
  <2>2. Cardinality({<<s>> : s \in 1..0}) = 0
    BY CountDirectories
  <2> QED  BY <2>1, <2>2 DEF directories, NumberedUpTo
<1>3. /\ Idle /\ ~ Active /\ pc \notin {"sample", "row", "ci", "single"}
  BY <1>1 DEF Idle, Active
<1>4. Share \in Nat /\ MaxInvocations \in Nat
  BY ShareFacts
<1>5. 0 <= 0 * Share
  BY <1>4
<1> QED  BY <1>1, <1>2, <1>3, <1>4, <1>5 DEF WhereInv, ArgsInv, PlaceInv, ShareInv, Share

LEMMA StepWhere ==
    ASSUME WhereInv, [Next]_vars
    PROVE  WhereInv'
<1>1. CASE Next
  BY <1>1, MainWhere, SampleDesignWhere, NextRowWhere, BeginWhere, ReplicateWhere, ReportWhere,
     SingleWhere, StopsWhere DEF Next
<1>2. CASE UNCHANGED vars
  BY <1>2 DEF vars, program, files, WhereInv, ArgsInv, PlaceInv, ShareInv, Idle, Active, directories
<1> QED  BY <1>1, <1>2

-----------------------------------------------------------------------------
(* What the history and simulations.dat tell.                              *)

IsList(s) == s \in Seq({s[k] : k \in DOMAIN s})

LEMMA Appended ==
    ASSUME NEW s, IsList(s), NEW e
    PROVE  /\ IsList(Append(s, e)) /\ Len(s) \in Nat
           /\ DOMAIN Append(s, e) = DOMAIN s \cup {Len(s) + 1}
           /\ Append(s, e)[Len(s) + 1] = e
           /\ \A k \in DOMAIN s : Append(s, e)[k] = s[k] /\ k \in Nat /\ k < Len(s) + 1
           /\ ToSet(Append(s, e)) = ToSet(s) \cup {e}
<1> DEFINE U == {s[k] : k \in DOMAIN s} \cup {e}
           t == Append(s, e)
           n == Len(s) + 1
<1>1. s \in Seq(U) /\ e \in U
  BY DEF IsList
<1>2. /\ t \in Seq(U) /\ Len(s) \in Nat /\ DOMAIN t = DOMAIN s \cup {n}
      /\ t[n] = e /\ \A k \in DOMAIN s : t[k] = s[k] /\ k \in Nat /\ k < n
  <2> HIDE DEF U
  <2> QED  BY <1>1
<1>3. {t[k] : k \in DOMAIN t} = U
  <2> HIDE DEF t, n
  <2> QED  BY <1>2
<1>4. IsList(t)
  <2> HIDE DEF t, U
  <2> QED  BY <1>2, <1>3 DEF IsList
<1> QED  BY <1>2, <1>3, <1>4 DEF ToSet

\* The runs of a simulation, and those of them that are repetitions.
RunsOf(h, s) == {k \in DOMAIN h : h[k].sim = s}
Repetitions(h, s) == {k \in DOMAIN h : h[k].sim = s /\ h[k].repeated}

\* The runs of simulation s are its first n replications, in order, under the conditions c.
AreReplications(h, s, n, c) ==
    /\ {h[k].rep : k \in RunsOf(h, s)} = 1..n
    /\ \A j, k \in RunsOf(h, s) : j < k => h[j].rep < h[k].rep
    /\ \A k \in RunsOf(h, s) : h[k].conditions = c

LEMMA OtherRun ==
    ASSUME NEW h, IsList(h), NEW e, NEW s, e.sim # s
    PROVE  /\ Repetitions(Append(h, e), s) = Repetitions(h, s)
           /\ \A n, c : AreReplications(h, s, n, c) => AreReplications(Append(h, e), s, n, c)
<1> DEFINE g == Append(h, e)
           m == Len(h) + 1
<1>1. /\ DOMAIN g = DOMAIN h \cup {m} /\ g[m] = e
      /\ \A k \in DOMAIN h : g[k] = h[k] /\ k \in Nat /\ k < m
  BY Appended
<1> HIDE DEF g, m
<1>2. RunsOf(g, s) = RunsOf(h, s) /\ Repetitions(g, s) = Repetitions(h, s)
  BY <1>1 DEF RunsOf, Repetitions
<1>3. \A k \in RunsOf(h, s) : g[k] = h[k]
  BY <1>1 DEF RunsOf
<1>4. {g[k].rep : k \in RunsOf(h, s)} = {h[k].rep : k \in RunsOf(h, s)}
  BY <1>3
<1>5. ASSUME NEW n, NEW c, AreReplications(h, s, n, c)
      PROVE  AreReplications(g, s, n, c)
  BY <1>2, <1>3, <1>4, <1>5 DEF AreReplications
<1> QED  BY <1>2, <1>5 DEF g

LEMMA OwnRun ==
    ASSUME NEW h, IsList(h), NEW e, NEW n \in Nat, NEW c, NEW s,
           e.sim = s, e.rep = n + 1, e.conditions = c, AreReplications(h, s, n, c)
    PROVE  AreReplications(Append(h, e), s, n + 1, c)
<1> DEFINE g == Append(h, e)
           m == Len(h) + 1
           old == RunsOf(h, s)
<1>1. /\ DOMAIN g = DOMAIN h \cup {m} /\ g[m] = e
      /\ \A k \in DOMAIN h : g[k] = h[k] /\ k \in Nat /\ k < m
      /\ m \in Nat
  BY Appended
<1> HIDE DEF g, m
<1>2. RunsOf(g, s) = old \cup {m}
  BY <1>1 DEF RunsOf
<1>3. \A k \in old : g[k] = h[k] /\ k \in Nat /\ k < m
  BY <1>1 DEF RunsOf
<1>4. /\ {h[k].rep : k \in old} = 1..n
      /\ \A j, k \in old : j < k => h[j].rep < h[k].rep
      /\ \A k \in old : h[k].conditions = c
  BY DEF AreReplications
<1> HIDE DEF old
<1>5. \A k \in old : h[k].rep \in 1..n
  BY <1>4
<1>6. {g[k].rep : k \in old \cup {m}} = 1..(n + 1)
  <2>1. {g[k].rep : k \in old \cup {m}} = {h[k].rep : k \in old} \cup {n + 1}
    BY <1>1, <1>3
  <2>2. 1..(n + 1) = (1..n) \cup {n + 1}
    OBVIOUS
  <2> QED  BY <1>4, <2>1, <2>2
<1>7. ASSUME NEW j \in old \cup {m}, NEW k \in old \cup {m}, j < k
      PROVE  g[j].rep < g[k].rep
  <2>1. j \in old
    BY <1>1, <1>3, <1>7
  <2>2. CASE k \in old
    BY <1>3, <1>4, <1>7, <2>1, <2>2
  <2>3. CASE k = m
    BY <1>1, <1>3, <1>5, <2>1, <2>3
  <2> QED  BY <2>2, <2>3
<1>8. \A k \in old \cup {m} : g[k].conditions = c
  BY <1>1, <1>3, <1>4
<1>9. AreReplications(g, s, n + 1, c)
  BY <1>2, <1>6, <1>7, <1>8 DEF AreReplications
<1> QED  BY <1>9 DEF g

LEMMA CountRun ==
    ASSUME NEW h, IsList(h), NEW e, NEW n \in Nat, NEW s, e.sim = s, e.repeated,
           Cardinality(Repetitions(h, s)) = n
    PROVE  Cardinality(Repetitions(Append(h, e), s)) = n + 1
<1> DEFINE g == Append(h, e)
           m == Len(h) + 1
           old == Repetitions(h, s)
<1>1. /\ DOMAIN g = DOMAIN h \cup {m} /\ g[m] = e
      /\ \A k \in DOMAIN h : g[k] = h[k] /\ k \in Nat /\ k < m
  BY Appended
<1>2. IsFiniteSet(DOMAIN h)
  <2>1. DOMAIN h = 1..Len(h) /\ Len(h) \in Nat
    BY DEF IsList
  <2>2. IsFiniteSet(1..Len(h))
    BY <2>1, FS_Interval
  <2> QED  BY <2>1, <2>2
<1> HIDE DEF g, m
<1>3. Repetitions(g, s) = old \cup {m} /\ m \notin old /\ old \in SUBSET DOMAIN h
  BY <1>1 DEF Repetitions
<1>4. IsFiniteSet(old)
  BY <1>2, <1>3, FS_Subset
<1>5. Cardinality(old) = n
  OBVIOUS
<1> HIDE DEF old
<1>6. Cardinality(old \cup {m}) = n + 1
  BY <1>3, <1>4, <1>5, FS_AddElement
<1> QED  BY <1>3, <1>6 DEF g

LEMMA NoRun ==
    ASSUME NEW h, NEW s, \A k \in DOMAIN h : h[k].sim # s
    PROVE  Cardinality(Repetitions(h, s)) = 0 /\ \A c : AreReplications(h, s, 0, c)
<1>1. RunsOf(h, s) = {} /\ Repetitions(h, s) = {}
  BY DEF RunsOf, Repetitions
<1>2. 1..0 = {}
  OBVIOUS
<1> QED  BY <1>1, <1>2, FS_EmptySet DEF AreReplications

\* Every simulation has a directory, and a line of simulations.dat tells its replications.
PastInv ==
    /\ IsList(runs) /\ IsList(simulations)
    /\ \A k \in DOMAIN runs : runs[k].sim \in 1..directories
    /\ \A line \in ToSet(simulations) :
         /\ line.sim \in 1..directories
         /\ AreReplications(runs, line.sim, line.replications, line.conditions)
    /\ settled \subseteq 1..directories

\* The simulation that is being repeated: its replications, under its conditions, no line yet.
CurrentInv ==
    /\ Active => /\ rep_num \in Nat /\ rep_num >= 1 /\ values = rep_num - 1
                 /\ AreReplications(runs, sim_num, rep_num - 1, conditions)
                 /\ \A line \in ToSet(simulations) : line.sim # sim_num
                 /\ Cardinality(Repetitions(runs, sim_num)) = values
    /\ pc \in {"initial", "more"} => sim_num \notin settled
    /\ pc \in {"more", "confident"} => rep_num > desArgs.replications

ExperimentsInv == WhereInv /\ PastInv /\ CurrentInv

LEMMA DirectoriesKept ==
    ASSUME WhereInv, WhereInv', dirs \subseteq dirs'
    PROVE  1..directories \subseteq 1..directories'
<1> DEFINE n == directories
           m == directories'
           old == {d \in dirs : Len(d) = 1}
           new == {d \in dirs' : Len(d) = 1}
<1>1. /\ n \in Nat /\ m \in Nat
      /\ old = {<<s>> : s \in 1..n}
      /\ new = {<<s>> : s \in 1..m}
  BY DEF WhereInv, PlaceInv, NumberedUpTo
<1>2. old \subseteq new
  OBVIOUS
<1> HIDE DEF n, m, old, new
<1>3. ASSUME NEW s \in 1..n
      PROVE  s \in 1..m
  <2>1. <<s>> \in new
    BY <1>1, <1>2
  <2>2. PICK t \in 1..m : <<s>> = <<t>>
    BY <1>1, <2>1
  <2> QED  BY <2>2
<1> QED  BY <1>3 DEF n, m

\* A step that reports nothing and runs nothing.
LEMMA PastKept ==
    ASSUME WhereInv, WhereInv', PastInv, dirs \subseteq dirs',
           runs' = runs, simulations' = simulations, settled' = settled
    PROVE  PastInv'
<1> DEFINE D == 1..directories
           E == 1..directories'
<1>1. D \subseteq E
  BY DirectoriesKept
<1>2. /\ IsList(runs) /\ IsList(simulations)
      /\ \A k \in DOMAIN runs : runs[k].sim \in D
      /\ \A line \in ToSet(simulations) :
           /\ line.sim \in D
           /\ AreReplications(runs, line.sim, line.replications, line.conditions)
      /\ settled \subseteq D
  BY DEF PastInv
<1> HIDE DEF D, E
<1>3. /\ IsList(runs) /\ IsList(simulations)
      /\ \A k \in DOMAIN runs : runs[k].sim \in E
      /\ \A line \in ToSet(simulations) :
           /\ line.sim \in E
           /\ AreReplications(runs, line.sim, line.replications, line.conditions)
      /\ settled \subseteq E
  BY <1>1, <1>2
<1> QED  BY <1>3 DEF PastInv, E

LEMMA BeginHistory ==
    ASSUME ExperimentsInv, BeginReplications
    PROVE  PastInv' /\ CurrentInv'
<1>1. /\ rep_num' = 1 /\ values' = 0 /\ conditions' = conditions
      /\ desArgs' = desArgs /\ pc = "ci"
      /\ pc' = IF desArgs.replications >= 1 THEN "initial" ELSE "more"
      /\ runs' = runs /\ simulations' = simulations /\ settled' = settled
      /\ dirs \subseteq dirs'
  BY DEF BeginReplications, history
<1>2. /\ WhereInv /\ WhereInv' /\ Active' /\ sim_num' = directories + 1
  BY BeginWhere DEF ExperimentsInv
<1>3. PastInv'
  BY <1>1, <1>2, PastKept DEF ExperimentsInv
<1>4. directories \in Nat
  BY DEF ExperimentsInv, WhereInv, PlaceInv
<1> DEFINE s == sim_num'
<1>5. s \notin 1..directories
  BY <1>2, <1>4
<1>6. /\ \A k \in DOMAIN runs : runs[k].sim # s
      /\ \A line \in ToSet(simulations) : line.sim # s
      /\ s \notin settled
  BY <1>5 DEF ExperimentsInv, PastInv
<1> HIDE DEF s
<1>7. Cardinality(Repetitions(runs, s)) = 0 /\ AreReplications(runs, s, 0, conditions)
  BY <1>6, NoRun
<1>8. desArgs.replications \in Nat
  BY <1>1, <1>2, RunningFacts DEF WhereInv, Idle
<1>9. pc' \in {"more", "confident"} => rep_num' > desArgs'.replications
  BY <1>1, <1>8
<1>10. rep_num' \in Nat /\ rep_num' >= 1 /\ values' = rep_num' - 1 /\ rep_num' - 1 = 0
  BY <1>1
<1>11. CurrentInv'
  BY <1>1, <1>6, <1>7, <1>9, <1>10 DEF CurrentInv, s
<1> QED  BY <1>3, <1>11

\* The replication that is run.
LEMMA RunFields ==
    /\ Run.sim = sim_num /\ Run.rep = rep_num /\ Run.conditions = conditions
    /\ Run.repeated = desArgs.confidence
  BY DEF Run

LEMMA ReplicateHistory ==
    ASSUME ExperimentsInv, Replicate
    PROVE  PastInv' /\ CurrentInv'
<1>1. /\ pc \in {"initial", "more"} /\ conditions' = conditions /\ desArgs' = desArgs
      /\ sim_num' = sim_num /\ simulations' = simulations
      /\ rep_num' = rep_num + 1 /\ values' = values + 1 /\ runs' = Append(runs, Run)
  BY DEF Replicate, Simulate
<1>2. /\ pc' \in {"initial", "more", "confident"}
      /\ settled' \subseteq settled \cup {sim_num}
      /\ pc' \in {"initial", "more"} => settled' = settled
      /\ pc' \in {"more", "confident"} => pc = "more" \/ rep_num' > desArgs.replications
  BY <1>1 DEF Replicate
<1>3. Active /\ Active' /\ ~ Idle /\ pc # "single"
  BY <1>1, <1>2 DEF Active, Idle
<1>4. /\ WhereInv /\ WhereInv' /\ directories' = directories
  BY ReplicateWhere DEF ExperimentsInv
<1>5. /\ desArgs.confidence /\ desArgs.replications \in Nat
      /\ sim_num \in 1..directories
  <2>1. sim_num = directories /\ sim_num >= 1 /\ directories \in Nat
    BY <1>3 DEF ExperimentsInv, WhereInv, PlaceInv
  <2> QED  BY <1>3, <1>4, <2>1, RunningFacts DEF WhereInv
<1> DEFINE D == 1..directories
           s == sim_num
           n == rep_num - 1
           c == conditions
           h == runs
           g == Append(h, Run)
<1>6. /\ IsList(h) /\ IsList(simulations) /\ \A k \in DOMAIN h : h[k].sim \in D
      /\ \A line \in ToSet(simulations) :
           /\ line.sim \in D /\ line.sim # s
           /\ AreReplications(h, line.sim, line.replications, line.conditions)
      /\ settled \subseteq D
      /\ AreReplications(h, s, n, c)
      /\ rep_num \in Nat /\ rep_num >= 1 /\ values = rep_num - 1
      /\ Cardinality(Repetitions(h, s)) = values
      /\ s \notin settled
      /\ pc = "more" => rep_num > desArgs.replications
  BY <1>1, <1>3 DEF ExperimentsInv, PastInv, CurrentInv
<1>7. n \in Nat /\ n + 1 = rep_num /\ values = n
  BY <1>6
<1>8. Run.sim = s /\ Run.rep = n + 1 /\ Run.conditions = c /\ Run.repeated
  BY <1>5, <1>7, RunFields
<1> HIDE DEF n
<1>9. /\ IsList(g) /\ \A k \in DOMAIN g : g[k].sim \in D
  <2>1. /\ IsList(g) /\ DOMAIN g = DOMAIN h \cup {Len(h) + 1} /\ g[Len(h) + 1] = Run
        /\ \A k \in DOMAIN h : g[k] = h[k]
    BY <1>6, Appended
  <2> HIDE DEF g
  <2> QED  BY <1>5, <1>6, <1>8, <2>1
<1>10. AreReplications(g, s, n + 1, c) /\ Cardinality(Repetitions(g, s)) = n + 1
  <2>1. Cardinality(Repetitions(h, s)) = n
    BY <1>6, <1>7
  <2> HIDE DEF h
  <2> QED  BY <1>6, <1>7, <1>8, <2>1, OwnRun, CountRun
<1>11. \A line \in ToSet(simulations) :
         AreReplications(g, line.sim, line.replications, line.conditions)
  <2> SUFFICES ASSUME NEW line \in ToSet(simulations)
               PROVE  AreReplications(g, line.sim, line.replications, line.conditions)
    OBVIOUS
  <2>1. Run.sim # line.sim
    BY <1>6, <1>8
  <2> QED  BY <1>6, <2>1, OtherRun
<1> HIDE DEF g, h
<1>12. PastInv'
  <2>1. directories' = directories /\ runs' = g /\ simulations' = simulations
    BY <1>1, <1>4 DEF g, h
  <2>2. settled' \subseteq D
    BY <1>2, <1>5, <1>6
  <2> QED  BY <1>6, <1>9, <1>11, <2>1, <2>2 DEF PastInv
<1>13. CurrentInv'
  <2>1. /\ rep_num' - 1 = n + 1 /\ rep_num' \in Nat /\ rep_num' >= 1 /\ values' = rep_num' - 1
        /\ values' = n + 1
    BY <1>1, <1>6, <1>7
  <2>2. pc' \in {"more", "confident"} => rep_num' > desArgs.replications
    BY <1>1, <1>2, <1>5, <1>6
  <2>3. pc' \in {"initial", "more"} => s \notin settled'
    BY <1>2, <1>6
  <2>4. runs' = g
    BY <1>1 DEF g, h
  <2> QED  BY <1>1, <1>6, <1>10, <2>1, <2>2, <2>3, <2>4 DEF CurrentInv
<1> QED  BY <1>12, <1>13

LEMMA ReportHistory ==
    ASSUME ExperimentsInv, Report
    PROVE  PastInv' /\ CurrentInv'
<1>1. /\ pc = "confident" /\ simulations' = Append(simulations, Line(Replications))
      /\ desArgs' = desArgs /\ runs' = runs /\ settled' = settled /\ dirs' = dirs
      /\ pc' \in {"row", "done"}
  BY DEF Report, history
<1>2. Active /\ ~ Active' /\ pc' \notin {"initial", "more", "confident"}
  BY <1>1 DEF Active
<1>3. directories' = directories
  BY <1>1 DEF directories
<1>4. sim_num = directories /\ sim_num >= 1 /\ directories \in Nat
  BY <1>2 DEF ExperimentsInv, WhereInv, PlaceInv
<1>5. Replications = rep_num - 1
  BY <1>1 DEF Replications, ExperimentsInv, CurrentInv
<1> DEFINE line == Line(Replications)
<1>6. /\ line.sim = sim_num /\ line.replications = rep_num - 1 /\ line.conditions = conditions
  BY <1>5 DEF Line
<1> HIDE DEF line
<1>7. AreReplications(runs, line.sim, line.replications, line.conditions)
  BY <1>2, <1>6 DEF ExperimentsInv, CurrentInv
<1>8. line.sim \in 1..directories
  BY <1>4, <1>6
<1>9. IsList(simulations') /\ ToSet(simulations') = ToSet(simulations) \cup {line}
  BY <1>1, Appended DEF ExperimentsInv, PastInv, line
<1>10. PastInv'
  BY <1>1, <1>3, <1>7, <1>8, <1>9 DEF ExperimentsInv, PastInv
<1>11. CurrentInv'
  BY <1>2 DEF CurrentInv
<1> QED  BY <1>10, <1>11

LEMMA SingleHistory ==
    ASSUME ExperimentsInv, Single
    PROVE  /\ PastInv' /\ CurrentInv'
           /\ runs' = Append(runs, Run) /\ settled' = settled /\ ~ Run.repeated
<1>1. /\ pc = "single" /\ runs' = Append(runs, Run) /\ settled' = settled
      /\ simulations' = Append(simulations, Line(rep_num)) /\ pc' = "done"
  BY DEF Single, Simulate
<1>2. directories' = 1 /\ directories = 0 /\ sim_num = 1 /\ rep_num = 1
  BY SingleWhere DEF ExperimentsInv
<1>3. ~ Active' /\ pc' \notin {"initial", "more", "confident"} /\ ~ Idle
  BY <1>1 DEF Active, Idle
<1>4. ~ desArgs.confidence
  BY <1>1, <1>3 DEF ExperimentsInv, WhereInv, ArgsInv
<1> DEFINE line == Line(rep_num)
           g == Append(runs, Run)
<1>5. line.sim = 1 /\ line.replications = 1 /\ line.conditions = conditions
  BY <1>2 DEF Line
<1>6. /\ Run.sim = 1 /\ Run.rep = 0 + 1 /\ Run.conditions = conditions
      /\ Run.repeated = desArgs.confidence
  BY <1>2, RunFields
<1>7. /\ IsList(runs) /\ IsList(simulations) /\ DOMAIN runs = {}
      /\ ToSet(simulations) = {} /\ settled = {}
  <2>1. 1..directories = {}
    BY <1>2
  <2> QED  BY <2>1 DEF ExperimentsInv, PastInv
<1> HIDE DEF line
<1>8. /\ IsList(g) /\ DOMAIN g = {Len(runs) + 1} /\ g[Len(runs) + 1] = Run
  <2>1. /\ IsList(g) /\ DOMAIN g = DOMAIN runs \cup {Len(runs) + 1}
        /\ g[Len(runs) + 1] = Run
    BY <1>7, Appended
  <2> HIDE DEF g
  <2> QED  BY <1>7, <2>1
<1>9. /\ IsList(simulations') /\ ToSet(simulations') = {line}
  BY <1>1, <1>7, Appended DEF line
<1>10. AreReplications(g, 1, 1, conditions)
  <2>1. AreReplications(runs, 1, 0, conditions)
    BY <1>7, NoRun
  <2>2. AreReplications(g, 1, 0 + 1, conditions)
    BY <1>6, <1>7, <2>1, OwnRun
  <2> QED  BY <2>2
<1> HIDE DEF g
<1>11. PastInv'
  <2>1. /\ runs' = g /\ \A k \in DOMAIN g : g[k].sim = 1
        /\ 1 \in 1..directories' /\ settled' = {}
    BY <1>1, <1>2, <1>6, <1>7, <1>8 DEF g
  <2>2. \A l \in ToSet(simulations') :
          l.sim \in 1..directories' /\ AreReplications(g, l.sim, l.replications, l.conditions)
    BY <1>5, <1>9, <1>10, <2>1
  <2> QED  BY <1>8, <1>9, <2>1, <2>2 DEF PastInv
<1>12. CurrentInv'
  BY <1>3 DEF CurrentInv
<1> QED  BY <1>1, <1>4, <1>6, <1>11, <1>12

\* The steps between simulations, and those that end the program.
LEMMA OtherHistory ==
    ASSUME ExperimentsInv,
           Main \/ SampleDesign \/ NextRow \/ SeedsExhausted \/ Interrupted
    PROVE  PastInv' /\ CurrentInv' /\ runs' = runs /\ settled' = settled
<1>1. /\ runs' = runs /\ simulations' = simulations /\ settled' = settled
      /\ dirs \subseteq dirs' /\ pc' \in {"off", "done", "sample", "row", "ci", "single"}
  <2>1. CASE Main
    BY <2>1 DEF Main, history
  <2>2. CASE SampleDesign
    BY <2>2 DEF SampleDesign, history
  <2>3. CASE NextRow
    BY <2>3 DEF NextRow, files, history
  <2>4. CASE SeedsExhausted
    BY <2>4 DEF SeedsExhausted, history
  <2>5. CASE Interrupted
    BY <2>5 DEF Interrupted, history
  <2> QED  BY <2>1, <2>2, <2>3, <2>4, <2>5
<1>2. WhereInv /\ WhereInv'
  BY MainWhere, SampleDesignWhere, NextRowWhere, StopsWhere DEF ExperimentsInv
<1>3. PastInv'
  BY <1>1, <1>2, PastKept DEF ExperimentsInv
<1>4. ~ Active' /\ pc' \notin {"initial", "more", "confident"}
  BY <1>1 DEF Active
<1>5. CurrentInv'
  BY <1>4 DEF CurrentInv
<1> QED  BY <1>1, <1>3, <1>5

\* The inductive invariant of the program without a cluster.
THEOREM ExperimentsInvHolds == Spec => []ExperimentsInv
<1>1. Init => ExperimentsInv
  <2>1. ASSUME Init
        PROVE  PastInv /\ CurrentInv
    <3>1. runs = <<>> /\ simulations = <<>> /\ settled = {} /\ pc = "off"
      BY <2>1 DEF Init
    <3>2. IsList(runs) /\ IsList(simulations) /\ DOMAIN runs = {} /\ ToSet(simulations) = {}
      BY <3>1 DEF IsList, ToSet
    <3> QED  BY <3>1, <3>2 DEF PastInv, CurrentInv, Active
  <2> QED  BY <2>1, InitWhere DEF ExperimentsInv
<1>2. ASSUME ExperimentsInv, [Next]_vars
      PROVE  ExperimentsInv'
  <2>1. WhereInv'
    BY <1>2, StepWhere DEF ExperimentsInv
  <2>2. CASE Next
    <3>1. PastInv' /\ CurrentInv'
      BY <1>2, <2>2, BeginHistory, ReplicateHistory, ReportHistory, SingleHistory, OtherHistory
         DEF Next
    <3> QED  BY <2>1, <3>1 DEF ExperimentsInv
  <2>3. CASE UNCHANGED vars
    <3>1. PastInv' /\ CurrentInv'
      BY <1>2, <2>3 DEF vars, program, files, history, ExperimentsInv, PastInv, CurrentInv,
                        Active, directories
    <3> QED  BY <2>1, <3>1 DEF ExperimentsInv
  <2> QED  BY <1>2, <2>2, <2>3
<1> QED  BY <1>1, <1>2, PTL DEF Spec

\* A line of simulations.dat tells what was simulated (SimulationCI, SimulationLHS), however the
\* invocations before it ended: two simulations never share a directory, and no number is run twice.
THEOREM LineTellsRunsHolds == Spec => []LineTellsRuns
<1>1. ExperimentsInv => LineTellsRuns
  <2> SUFFICES ASSUME ExperimentsInv, NEW line \in ToSet(simulations)
               PROVE  LET mine == {k \in DOMAIN runs : runs[k].sim = line.sim} IN
                      /\ {runs[k].rep : k \in mine} = 1..line.replications
                      /\ \A j, k \in mine : j < k => runs[j].rep < runs[k].rep
                      /\ \A k \in mine : runs[k].conditions = line.conditions
    BY DEF LineTellsRuns
  <2>1. AreReplications(runs, line.sim, line.replications, line.conditions)
    BY DEF ExperimentsInv, PastInv
  <2> QED  BY <2>1 DEF AreReplications, RunsOf
<1> QED  BY <1>1, ExperimentsInvHolds, PTL

-----------------------------------------------------------------------------
(* The experiment implements Replications.                                 *)

LEMMA NotRepeated ==
    ASSUME NEW h, IsList(h), NEW e, ~ e.repeated, NEW s
    PROVE  Repetitions(Append(h, e), s) = Repetitions(h, s)
<1> DEFINE g == Append(h, e)
           m == Len(h) + 1
<1>1. /\ DOMAIN g = DOMAIN h \cup {m} /\ g[m] = e
      /\ \A k \in DOMAIN h : g[k] = h[k]
  BY Appended
<1> HIDE DEF g, m
<1>2. Repetitions(g, s) = Repetitions(h, s)
  BY <1>1 DEF Repetitions
<1> QED  BY <1>2 DEF g

\* The results that are counted for each simulation.
CountsOf(h) == [s \in 1..MaxSimulations |-> Cardinality(Repetitions(h, s))]

LEMMA CountedExperiment ==
    ASSUME NEW s \in 1..MaxSimulations, s \notin settled,
           CountsOf(runs') = [CountsOf(runs) EXCEPT ![s] = @ + 1],
           settled' = settled \/ (CountsOf(runs')[s] >= 2 /\ settled' = settled \cup {s})
    PROVE  Experiment!Count(s)
  BY DEF Experiment!Count, CountsOf, Repetitions

LEMMA ReplicateCounts ==
    ASSUME ExperimentsInv, Replicate
    PROVE  sim_num \in 1..MaxSimulations /\ Experiment!Count(sim_num)
<1>1. /\ pc \in {"initial", "more"} /\ values' = values + 1 /\ runs' = Append(runs, Run)
  BY DEF Replicate, Simulate
<1>2. Active /\ ~ Idle /\ pc # "single"
  BY <1>1 DEF Active, Idle
<1>3. sim_num \in 1..MaxSimulations
  <2>1. /\ sim_num = directories /\ sim_num >= 1 /\ directories \in Nat
        /\ invocations \in Nat /\ invocations <= MaxInvocations
        /\ directories <= invocations * Share
    BY <1>2, RunningFacts, Bounded DEF ExperimentsInv, WhereInv, PlaceInv
  <2>2. invocations * Share <= MaxSimulations /\ invocations * Share \in Nat
        /\ MaxSimulations \in Nat
    BY <2>1, ShareFacts
  <2> QED  BY <2>1, <2>2
<1>4. /\ IsList(runs) /\ sim_num \notin settled
      /\ Cardinality(Repetitions(runs, sim_num)) = values /\ values \in Nat
  BY <1>1, <1>2 DEF ExperimentsInv, PastInv, CurrentInv
<1>5. Run.sim = sim_num /\ Run.repeated
  BY <1>2, RunFields, RunningFacts DEF ExperimentsInv, WhereInv
<1> DEFINE c == CountsOf(runs)
           d == CountsOf(runs')
<1>6. /\ Cardinality(Repetitions(runs', sim_num)) = values + 1
      /\ \A s : s # sim_num => Repetitions(runs', s) = Repetitions(runs, s)
  BY <1>1, <1>4, <1>5, CountRun, OtherRun
<1>7. d = [c EXCEPT ![sim_num] = @ + 1] /\ d[sim_num] = values'
  BY <1>1, <1>3, <1>4, <1>6 DEF CountsOf
<1>8. settled' = settled \/ (values' >= 2 /\ settled' = settled \cup {sim_num})
  <2>1. \/ settled' = settled
        \/ TRUE \in isConfidentWithPrecision(values') /\ settled' = settled \cup {sim_num}
    BY DEF Replicate
  <2>2. values' \in Nat
    BY <1>1, <1>4
  <2>3. TRUE \in isConfidentWithPrecision(values') => values' >= 2
    <3>1. ASSUME values' < 2
          PROVE  isConfidentWithPrecision(values') = {FALSE}
      BY <3>1 DEF isConfidentWithPrecision
    <3>2. TRUE \notin {FALSE}
      OBVIOUS
    <3>3. TRUE \in isConfidentWithPrecision(values') => ~ (values' < 2)
      BY <3>1, <3>2, Zenon
    <3> QED  BY <2>2, <3>3
  <2> QED  BY <2>1, <2>3
<1> HIDE DEF c, d
<1>9. settled' = settled \/ (d[sim_num] >= 2 /\ settled' = settled \cup {sim_num})
  BY <1>7, <1>8
<1> QED  BY <1>3, <1>4, <1>7, <1>9, CountedExperiment DEF c, d

\* The experiment without a cluster counts at least two replications of a simulation and none after it
\* was found confident (SimulationCI, CI::isConfidentWithPrecision): the abstract Replications.
THEOREM ExperimentSpecHolds == Spec => ExperimentSpec
<1>1. Init => CountsOf(runs) = [s \in 1..MaxSimulations |-> 0] /\ settled = {}
  <2> SUFFICES ASSUME Init
               PROVE  CountsOf(runs) = [s \in 1..MaxSimulations |-> 0] /\ settled = {}
    OBVIOUS
  <2>1. runs = <<>> /\ settled = {}
    BY DEF Init
  <2>2. \A s : Cardinality(Repetitions(runs, s)) = 0
    BY <2>1, NoRun
  <2> QED  BY <2>1, <2>2 DEF CountsOf
<1>2. ASSUME ExperimentsInv, [Next]_vars
      PROVE  [\E s \in 1..MaxSimulations : Experiment!Count(s)]_(Experiment!experiment)
  <2>1. CASE Replicate
    BY <1>2, <2>1, ReplicateCounts
  <2>2. ASSUME CountsOf(runs') = CountsOf(runs), settled' = settled
        PROVE  UNCHANGED Experiment!experiment
    BY <2>2 DEF Experiment!experiment, CountsOf, Repetitions
  <2>3. CASE Single
    <3>1. runs' = Append(runs, Run) /\ settled' = settled /\ ~ Run.repeated
      BY <1>2, <2>3, SingleHistory
    <3>2. IsList(runs)
      BY <1>2 DEF ExperimentsInv, PastInv
    <3>3. \A s : Repetitions(runs', s) = Repetitions(runs, s)
      BY <3>1, <3>2, NotRepeated
    <3>4. CountsOf(runs') = CountsOf(runs)
      BY <3>3 DEF CountsOf
    <3> QED  BY <2>2, <3>1, <3>4
  <2>4. ASSUME runs' = runs, settled' = settled
        PROVE  UNCHANGED Experiment!experiment
    BY <2>2, <2>4
  <2>5. CASE BeginReplications \/ Report
    BY <2>4, <2>5 DEF BeginReplications, Report, history
  <2>6. CASE Main \/ SampleDesign \/ NextRow \/ SeedsExhausted \/ Interrupted
    BY <1>2, <2>4, <2>6, OtherHistory
  <2>7. CASE UNCHANGED vars
    BY <2>4, <2>7 DEF vars, history
  <2> QED  BY <1>2, <2>1, <2>3, <2>5, <2>6, <2>7 DEF Next
<1>3. Init => /\ [s \in 1..MaxSimulations |->
                    Cardinality({k \in DOMAIN runs : runs[k].sim = s /\ runs[k].repeated})]
                 = [s \in 1..MaxSimulations |-> 0]
              /\ settled = {}
  BY <1>1 DEF CountsOf, Repetitions
<1> QED  BY <1>2, <1>3, ExperimentsInvHolds, PTL
         DEF Spec, ExperimentSpec, Experiment!ExperimentSpec

-----------------------------------------------------------------------------
(* The designs.                                                            *)

\* An order of 1..n has every number somewhere.
LEMMA OrdersAreOnto ==
    ASSUME NEW n \in Nat, NEW p \in Orders(n)
    PROVE  \A k \in 1..n : \E r \in 1..n : p[r] = k
<1>1. IsFiniteSet(1..n)
  <2>1. 1 \in Int /\ n \in Int
    OBVIOUS
  <2> QED  BY <2>1, FS_Interval
<1>2. p \in Injection(1..n, 1..n)
  BY DEF Orders, Injection, IsInjective
<1>3. p \in Surjection(1..n, 1..n)
  BY <1>1, <1>2, FS_Injection
<1> QED  BY <1>3 DEF Surjection

\* The plain sample: whatever the permutations and the draws, a column has one value in every stratum.
LEMMA PlainIsLatin ==
    ASSUME NEW n \in Nat, n >= 1, NEW nvar \in Nat, nvar >= 1, NEW d \in Plain(n, nvar)
    PROVE  Latin(d, FALSE)
<1>1. PICK perms \in [1..nvar -> Orders(n)], u \in [1..nvar -> [1..n -> Jitters]] :
         d.rows = Transposed(Strata(n, nvar, perms, u))
  BY DEF Plain, PlainRows
<1> DEFINE cols == Strata(n, nvar, perms, u)
<1>2. /\ Len(cols) = nvar /\ Len(cols[1]) = n
      /\ \A j \in 1..nvar, r \in 1..n : cols[j][r] = 4 * perms[j][r] - u[j][r]
  BY DEF Strata
<1> HIDE DEF cols
<1>3. d.rows = [r \in 1..n |-> [j \in 1..nvar |-> cols[j][r]]]
  BY <1>1, <1>2 DEF Transposed, Column, cols
<1>4. Len(d.rows) = n /\ DOMAIN d.rows[1] = 1..nvar
  BY <1>3
<1>5. ASSUME NEW j \in 1..nvar
      PROVE  {(x + 3) \div 4 : x \in ToSet(Column(d.rows, j))} = 1..n
  <2> DEFINE c == Column(d.rows, j)
             p == perms[j]
  <2>1. p \in Orders(n) /\ p \in [1..n -> 1..n]
    BY DEF Orders
  <2>2. DOMAIN c = 1..n /\ \A r \in 1..n : c[r] = 4 * p[r] - u[j][r]
    BY <1>2, <1>3, <1>4 DEF Column
  <2>3. \A r \in 1..n : p[r] \in 1..n /\ u[j][r] \in 0..3
    BY <2>1, JittersAssumption
  <2> HIDE DEF c, p
  <2>4. \A r \in 1..n : (c[r] + 3) \div 4 = p[r]
    <3> SUFFICES ASSUME NEW r \in 1..n PROVE (c[r] + 3) \div 4 = p[r]
      OBVIOUS
    <3> DEFINE a == p[r]
               b == u[j][r]
    <3>1. a \in 1..n /\ b \in 0..3
      BY <2>3
    <3>2. c[r] = 4 * a - b
      BY <2>2
    <3> HIDE DEF a, b
    <3>3. a \in Nat
      BY <3>1
    <3>4. (4 * a - b + 3) \div 4 = a
      BY <3>1, <3>3
    <3>5. (c[r] + 3) \div 4 = a
      BY <3>2, <3>4
    <3> QED  BY <3>5 DEF a
  <2>5. {(x + 3) \div 4 : x \in ToSet(c)} = {p[r] : r \in 1..n}
    <3>1. {(x + 3) \div 4 : x \in ToSet(c)} = {(c[r] + 3) \div 4 : r \in 1..n}
      BY <2>2 DEF ToSet
    <3> QED  BY <2>4, <3>1
  <2>6. {p[r] : r \in 1..n} = 1..n
    <3>1. \A k \in 1..n : \E r \in 1..n : p[r] = k
      BY <2>1, OrdersAreOnto
    <3>2. \A r \in 1..n : p[r] \in 1..n
      BY <2>3
    <3>3. {p[r] : r \in 1..n} \subseteq 1..n
      BY <3>2
    <3>4. 1..n \subseteq {p[r] : r \in 1..n}
      BY <3>1
    <3> QED  BY <3>3, <3>4, Zenon
  <2> QED  BY <2>5, <2>6 DEF c
<1> QED  BY <1>4, <1>5 DEF Latin

\* The designs are plain ones.
PlainDesigns == \A opt \in Options : ~ opt.lhs_optimal

\* A plain sample of SimulationLHS has one simulation in every stratum of a dimension, of however many
\* rows and columns it is (LHS::sample).
THEOREM PlainDesignsAreLatin ==
    ASSUME PlainDesigns
    PROVE  Spec => []DesignIsLatin
<1>1. Init => DesignIsLatin
  BY DEF Init, DesignIsLatin
<1>2. ASSUME ExperimentsInv, DesignIsLatin, [Next]_vars
      PROVE  DesignIsLatin'
  <2>1. WhereInv
    BY <1>2 DEF ExperimentsInv
  <2>2. CASE SampleDesign
    <3>1. /\ pc = "sample" /\ desArgs' = desArgs /\ design' \in Designs /\ ~ Idle
      BY <2>2 DEF SampleDesign, Designs, Idle
    <3>2. PICK opt \in Options : desArgs = parse(opt)
      BY <2>1, <3>1 DEF WhereInv, ArgsInv
    <3>3. opt.lhs /\ ~ opt.lhs_optimal
      BY <2>1, <3>1, <3>2, ArgumentFacts DEF WhereInv, ArgsInv, PlainDesigns
    <3> DEFINE n == desArgs.simulations
               nvar == Cardinality(Varying)
    <3>4. n \in Nat /\ n >= 1 /\ nvar \in Nat /\ nvar >= 1 /\ desArgs.lhs_optimal = opt.lhs_optimal
      <4>1. /\ opt.simulations \in Nat /\ 2 <= opt.simulations /\ n = opt.simulations
            /\ nvar \in Nat /\ nvar >= 1 /\ desArgs.lhs_optimal = opt.lhs_optimal
        BY <3>2, <3>3, DesignArguments
      <4> HIDE DEF n, nvar
      <4> QED  BY <4>1
    <3>5. design' \in Plain(n, nvar)
      BY <3>1, <3>3, <3>4 DEF Designs
    <3>6. Latin(design', FALSE)
      <4> HIDE DEF n, nvar
      <4> QED  BY <3>4, <3>5, PlainIsLatin
    <3>7. desArgs.lhs_optimal = FALSE
      BY <2>1, <3>3, <3>4, OptionsAssumption
    <3> QED  BY <3>1, <3>6, <3>7 DEF DesignIsLatin
  <2>3. CASE Report
    <3>1. i' # 0 \/ pc' # "row"
      BY <2>1, <2>3 DEF Report, WhereInv, PlaceInv
    <3> QED  BY <3>1 DEF DesignIsLatin
  <2>4. CASE Main \/ NextRow \/ BeginReplications \/ Replicate \/ Single \/ SeedsExhausted \/ Interrupted
    <3>1. pc' # "row"
      BY <2>4 DEF Main, NextRow, BeginReplications, Replicate, Single, SeedsExhausted, Interrupted
    <3> QED  BY <3>1 DEF DesignIsLatin
  <2>5. CASE UNCHANGED vars
    BY <1>2, <2>5 DEF vars, program, DesignIsLatin
  <2> QED  BY <1>2, <2>2, <2>3, <2>4, <2>5 DEF Next
<1> QED  BY <1>1, <1>2, ExperimentsInvHolds, PTL DEF Spec

-----------------------------------------------------------------------------
(* Quotients in lowest terms.  Learning_proofs, which has other variables, *)
(* proves the same of them.                                                *)

\* A set of numbers has a least one.
LEMMA Least ==
    ASSUME NEW S, S \subseteq Nat, S # {}
    PROVE  \E m \in S : \A k \in S : m <= k
<1>1. PICK m \in S : \A k \in S : ~ (<<k, m>> \in OpToRel(<, Nat))
  BY NatLessThanWellFounded, WFMin
<1>2. \A k \in S : ~ (k < m)
  BY <1>1 DEF OpToRel
<1> QED  BY <1>2

Divides(d, a) == \E k \in Nat : a = d * k
CommonDivisors(a, b) == {d \in Nat : Divides(d, a) /\ Divides(d, b)}

\* The recursion of the greatest common divisor.
IsGcd(g) == g = [p \in Nat \X Nat |-> IF p[2] = 0 THEN p[1] ELSE g[<<p[2], p[1] % p[2]>>]]

LEMMA DivisorsOfRest ==
    ASSUME NEW a \in Nat, NEW b \in Nat \ {0}
    PROVE  a % b \in Nat /\ a % b < b /\ CommonDivisors(a, b) = CommonDivisors(b, a % b)
<1> DEFINE q == a \div b
           r == a % b
<1>1. q \in Nat /\ r \in Nat /\ r < b /\ a = b * q + r
  OBVIOUS
<1> HIDE DEF q, r
<1>2. ASSUME NEW d \in Nat, Divides(d, a), Divides(d, b)
      PROVE  Divides(d, r)
  <2>1. PICK k \in Nat : a = d * k
    BY <1>2 DEF Divides
  <2>2. PICK l \in Nat : b = d * l
    BY <1>2 DEF Divides
  <2>3. d * (k - l * q) = r
    <3>1. d * (k - l * q) = d * k - (d * l) * q
      BY <1>1
    <3>2. (d * l) * q = b * q
      BY <2>2
    <3> QED  BY <1>1, <2>1, <3>1, <3>2
  <2>4. k - l * q \in Int
    BY <1>1
  <2>5. CASE k - l * q >= 0
    BY <2>3, <2>4, <2>5 DEF Divides
  <2>6. CASE k - l * q < 0
    <3> DEFINE m == k - l * q
    <3>1. m \in Int /\ m < 0 /\ d * m = r
      BY <2>3, <2>4, <2>6
    <3> HIDE DEF m
    <3>2. d * m <= 0
      BY <3>1
    <3>3. r = 0 /\ d * 0 = 0
      BY <1>1, <3>1, <3>2
    <3> QED  BY <3>3 DEF Divides
  <2> QED  BY <2>4, <2>5, <2>6
<1>3. ASSUME NEW d \in Nat, Divides(d, b), Divides(d, r)
      PROVE  Divides(d, a)
  <2>1. PICK l \in Nat : b = d * l
    BY <1>3 DEF Divides
  <2>2. PICK k \in Nat : r = d * k
    BY <1>3 DEF Divides
  <2>3. d * (l * q + k) = (d * l) * q + d * k /\ l * q + k \in Nat
    BY <1>1
  <2>4. a = d * (l * q + k)
    BY <1>1, <2>1, <2>2, <2>3
  <2> QED  BY <2>3, <2>4 DEF Divides
<1>4. CommonDivisors(a, b) = CommonDivisors(b, r)
  BY <1>2, <1>3 DEF CommonDivisors
<1> QED  BY <1>1, <1>4 DEF r

LEMMA GcdExists == \E g : IsGcd(g)
<1> DEFINE Top(a, b) == CHOOSE d \in CommonDivisors(a, b) : \A e \in CommonDivisors(a, b) : e <= d
           val(a, b) == IF b = 0 THEN a ELSE Top(a, b)
           g == [p \in Nat \X Nat |-> val(p[1], p[2])]
<1>1. ASSUME NEW a \in Nat \ {0}
      PROVE  Top(a, 0) = a
  <2> DEFINE S == CommonDivisors(a, 0)
  <2>1. a \in S
    <3>1. a = a * 1 /\ 0 = a * 0
      OBVIOUS
    <3> QED  BY <3>1 DEF CommonDivisors, Divides
  <2>2. ASSUME NEW e \in S PROVE e <= a /\ e \in Nat
    <3>1. PICK k \in Nat : a = e * k
      BY DEF CommonDivisors, Divides
    <3>2. e \in Nat
      BY DEF CommonDivisors
    <3>3. k # 0
      BY <3>1, <3>2
    <3> QED  BY <3>1, <3>2, <3>3
  <2> HIDE DEF S
  <2>3. \A d \in S : (\A e \in S : e <= d) <=> d = a
    BY <2>1, <2>2
  <2>4. Top(a, 0) = CHOOSE d \in S : \A e \in S : e <= d
    BY DEF S
  <2> HIDE DEF Top
  <2> QED  BY <2>1, <2>3, <2>4
<1>2. ASSUME NEW a \in Nat, NEW b \in Nat \ {0}
      PROVE  val(a, b) = val(b, a % b)
  <2>1. a % b \in Nat /\ CommonDivisors(a, b) = CommonDivisors(b, a % b)
    BY DivisorsOfRest
  <2>2. val(a, b) = Top(a, b) /\ Top(a, b) = Top(b, a % b)
    BY <2>1
  <2> HIDE DEF Top
  <2>3. val(b, a % b) = Top(b, a % b)
    BY <1>1, <2>1
  <2> QED  BY <2>2, <2>3
<1>3. ASSUME NEW p \in Nat \X Nat
      PROVE  g[p] = IF p[2] = 0 THEN p[1] ELSE g[<<p[2], p[1] % p[2]>>]
  <2> DEFINE a == p[1]
             b == p[2]
  <2>1. a \in Nat /\ b \in Nat
    OBVIOUS
  <2> HIDE DEF Top, a, b
  <2>2. g[p] = val(a, b)
    BY DEF a, b
  <2>3. CASE b = 0
    BY <2>2, <2>3 DEF a, b
  <2>4. CASE b # 0
    <3>1. a % b \in Nat
      BY <2>1, <2>4, DivisorsOfRest
    <3>2. g[<<b, a % b>>] = val(b, a % b)
      BY <2>1, <3>1
    <3>3. val(a, b) = val(b, a % b)
      BY <1>2, <2>1, <2>4
    <3> HIDE DEF val, g
    <3> QED  BY <2>2, <2>4, <3>2, <3>3 DEF a, b
  <2> QED  BY <2>3, <2>4
<1>4. g = [p \in Nat \X Nat |-> g[p]]
  OBVIOUS
<1> HIDE DEF g
<1>5. IsGcd(g)
  BY <1>3, <1>4 DEF IsGcd
<1> QED  BY <1>5

LEMMA GcdIs ==
    ASSUME NEW a \in Nat, NEW b \in Nat
    PROVE  Gcd[<<a, b>>] = IF b = 0 THEN a ELSE Gcd[<<b, a % b>>]
<1>1. Gcd = CHOOSE g : IsGcd(g)
  BY DEF Gcd, IsGcd
<1>2. IsGcd(Gcd)
  BY <1>1, GcdExists
<1> QED  BY <1>2 DEF IsGcd

\* It divides both, and is zero for two zeros only.
LEMMA GcdFacts ==
    ASSUME NEW a \in Nat, NEW b \in Nat
    PROVE  /\ Gcd[<<a, b>>] \in CommonDivisors(a, b)
           /\ a # 0 \/ b # 0 => Gcd[<<a, b>>] # 0
<1> DEFINE P(m, n) == /\ Gcd[<<m, n>>] \in CommonDivisors(m, n)
                      /\ m # 0 \/ n # 0 => Gcd[<<m, n>>] # 0
           Bad == {n \in Nat : \E m \in Nat : ~ P(m, n)}
<1>1. Bad = {}
  <2> SUFFICES ASSUME Bad # {} PROVE FALSE
    OBVIOUS
  <2>1. PICK n \in Bad : \A k \in Bad : n <= k
    BY Least
  <2>2. PICK m \in Nat : ~ P(m, n)
    OBVIOUS
  <2>3. CASE n = 0
    <3>1. Gcd[<<m, 0>>] = m
      BY GcdIs
    <3>2. m = m * 1 /\ 0 = m * 0
      OBVIOUS
    <3>3. P(m, 0)
      BY <3>1, <3>2 DEF CommonDivisors, Divides
    <3> QED  BY <2>2, <2>3, <3>3
  <2>4. CASE n # 0
    <3>1. m % n \in Nat /\ m % n < n /\ CommonDivisors(m, n) = CommonDivisors(n, m % n)
      BY <2>4, DivisorsOfRest
    <3>2. Gcd[<<m, n>>] = Gcd[<<n, m % n>>]
      BY <2>4, GcdIs
    <3>3. ~ P(n, m % n)
      BY <2>2, <2>4, <3>1, <3>2
    <3>4. m % n \in Bad
      BY <3>1, <3>3
    <3> QED  BY <2>1, <3>1, <3>4
  <2> QED  BY <2>3, <2>4
<1> QED  BY <1>1

LEMMA Quotient ==
    ASSUME NEW k \in Int, NEW g \in Nat \ {0}
    PROVE  (g * k) \div g = k
  OBVIOUS

\* A number reduced: a numerator and a denominator are divided by the same number.
LEMMA ReducedFacts ==
    ASSUME NEW n \in Int, NEW d \in Int \ {0}
    PROVE  \E g \in Nat \ {0}, k \in Int, m \in Nat \ {0} :
              /\ Reduced(n, d) = <<k, m>>
              /\ n = (IF d < 0 THEN -(g * k) ELSE g * k) /\ d = (IF d < 0 THEN -(g * m) ELSE g * m)
<1> DEFINE s == IF d < 0 THEN -1 ELSE 1
           a == Abs(n)
           b == Abs(d)
           g == Gcd[<<a, b>>]
<1>1. a \in Nat /\ (n = a \/ n = -a)
  BY DEF Abs
<1>2. b \in Nat \ {0} /\ s * d = b /\ d = IF d < 0 THEN -b ELSE b
  BY DEF Abs
<1>3. Reduced(n, d) = <<(s * n) \div g, (s * d) \div g>>
  BY DEF Reduced
<1>4. s * n \in Int /\ n = (IF d < 0 THEN -(s * n) ELSE s * n) /\ (s * n = a \/ s * n = -a)
  BY <1>1
<1> HIDE DEF a, b, s
<1>5. g \in CommonDivisors(a, b) /\ g # 0
  BY <1>1, <1>2, GcdFacts
<1> HIDE DEF g
<1>6. g \in Nat \ {0} /\ (\E l \in Nat : a = g * l) /\ \E l \in Nat : b = g * l
  BY <1>5 DEF CommonDivisors, Divides
<1>7. PICK l \in Nat : a = g * l
  BY <1>6
<1>8. PICK m \in Nat : b = g * m
  BY <1>6
<1>9. m # 0
  BY <1>2, <1>6, <1>8
<1>10. PICK k \in Int : s * n = g * k
  <2>1. g * (-l) = -(g * l)
    BY <1>6
  <2>2. l \in Int /\ -l \in Int
    OBVIOUS
  <2> QED  BY <1>4, <1>7, <2>1, <2>2
<1>11. (s * n) \div g = k
  BY <1>6, <1>10, Quotient
<1>12. (s * d) \div g = m
  <2>1. s * d = g * m /\ m \in Int
    BY <1>2, <1>8
  <2> QED  BY <1>6, <2>1, Quotient
<1> QED  BY <1>2, <1>3, <1>4, <1>6, <1>8, <1>9, <1>10, <1>11, <1>12

-----------------------------------------------------------------------------
(* The conditions of a simulation, with a cluster and without.             *)

\* The counts are ones of 16 bits, and vary in a plain design only: the size is read into a uint16_t,
\* the maximum of edges into a wider number.
CountsFit ==
    \A opt \in Options : \A d \in Counted :
        opt.lhs /\ d \in DOMAIN opt.ranges =>
            /\ ~ opt.lhs_optimal
            /\ opt.ranges[d][1] \in Nat /\ opt.ranges[d][2] \in Nat /\ opt.ranges[d][2] <= 65535

\* What is not negative and not above a number of 16 bits is rounded to one of 16 bits.
LEMMA RoundedAtMost ==
    ASSUME NEW n \in Nat, NEW den \in Nat \ {0}, NEW hi \in Nat, hi <= 65535, n <= hi * den,
           NEW x, x = Reduced(n, den)
    PROVE  Rounded(x) = Whole((2 * x[1] + x[2]) \div (2 * x[2]))
<1>1. n \in Int
  OBVIOUS
<1>2. den \in Int \ {0} /\ ~ (den < 0)
  OBVIOUS
<1>3. PICK g \in Nat \ {0}, k \in Int, m \in Nat \ {0} :
         /\ Reduced(n, den) = <<k, m>>
         /\ n = (IF den < 0 THEN -(g * k) ELSE g * k) /\ den = (IF den < 0 THEN -(g * m) ELSE g * m)
  BY ONLY <1>1, <1>2, ReducedFacts
<1>4. n = g * k /\ den = g * m /\ x[1] = k /\ x[2] = m
  <2>1. x = <<k, m>>
    BY <1>3
  <2> QED  BY <1>2, <1>3, <2>1
<1>5. k >= 0 /\ k <= hi * m
  <2>1. g * k >= 0 /\ g * k <= hi * (g * m)
    BY <1>4
  <2>2. hi * (g * m) = g * (hi * m) /\ hi * m \in Nat
    OBVIOUS
  <2>3. \A a \in Int, b \in Int : g * a <= g * b => a <= b
    <3> SUFFICES ASSUME NEW a \in Int, NEW b \in Int, g * a <= g * b, a > b PROVE FALSE
      OBVIOUS
    <3> DEFINE c == a - b
    <3>1. c \in Nat \ {0} /\ a = b + c
      OBVIOUS
    <3> HIDE DEF c
    <3>2. g * a = g * b + g * c /\ g * c > 0 /\ g * b \in Int /\ g * c \in Int
      BY <3>1
    <3> QED  BY <3>2
  <2>4. g * 0 = 0 /\ g * 0 <= g * k
    BY <2>1
  <2>5. g * k <= g * (hi * m) /\ hi * m \in Int
    BY <2>1, <2>2
  <2> QED  BY <2>3, <2>4, <2>5
<1> DEFINE q == (2 * k + m) \div (2 * m)
<1>6. q \in Nat /\ q < 65536
  <2>1. 2 * m \in Nat \ {0} /\ 2 * k + m \in Nat
    BY <1>5
  <2>2. 2 * k + m < (2 * m) * (hi + 1)
    <3>1. (2 * m) * (hi + 1) = 2 * (hi * m) + 2 * m /\ hi * m \in Nat
      OBVIOUS
    <3> QED  BY <1>5, <3>1
  <2>3. \A a \in Nat, b \in Nat \ {0}, c \in Nat : a < b * c => a \div b \in Nat /\ a \div b < c
    OBVIOUS
  <2>4. hi + 1 \in Nat
    OBVIOUS
  <2>5. q \in Nat /\ q < hi + 1
    BY <2>1, <2>2, <2>3, <2>4
  <2> HIDE DEF q
  <2> QED  BY <2>5
<1>7. Rounded(x) = Whole(q % 2 ^ 16)
  BY <1>4 DEF Rounded
<1>8. q % 2 ^ 16 = q
  <2> HIDE DEF q
  <2>1. 2 ^ 16 = 65536
    OBVIOUS
  <2> QED  BY <1>6, <2>1
<1> QED  BY <1>4, <1>7, <1>8

\* x is the value of entry v, out of den, in a range of 16 bits.
IsShare(x, lo, hi, den, v) ==
    /\ lo \in Nat /\ hi \in Nat /\ lo <= hi /\ hi <= 65535
    /\ den \in Nat \ {0} /\ v \in 0..den
    /\ x = Reduced(lo * den + (hi - lo) * v, den)

\* A share of a range is not above its maximum.
LEMMA RoundedFits ==
    ASSUME NEW x, NEW lo, NEW hi, NEW den, NEW v, IsShare(x, lo, hi, den, v)
    PROVE  Rounded(x) = Whole((2 * x[1] + x[2]) \div (2 * x[2]))
<1>0. /\ lo \in Nat /\ hi \in Nat /\ lo <= hi /\ hi <= 65535
      /\ den \in Nat \ {0} /\ v \in 0..den
      /\ x = Reduced(lo * den + (hi - lo) * v, den)
  BY DEF IsShare
<1> DEFINE n == lo * den + (hi - lo) * v
<1>1. n \in Nat /\ n <= hi * den
  <2>1. lo * den \in Nat /\ hi * den \in Nat /\ (hi - lo) * v \in Nat /\ (hi - lo) * den \in Nat
    BY <1>0
  <2>2. (hi - lo) * v <= (hi - lo) * den
    <3>1. hi - lo \in Nat /\ v <= den /\ v \in Nat /\ den \in Nat
      BY <1>0
    <3>2. \A a \in Nat, b \in Nat, c \in Nat : b <= c => a * b <= a * c
      OBVIOUS
    <3> QED  BY <3>1, <3>2
  <2>3. (hi - lo) * den = hi * den - lo * den
    BY <1>0
  <2> QED  BY <2>1, <2>2, <2>3
<1>2. x = Reduced(n, den) /\ den \in Nat \ {0} /\ hi \in Nat /\ hi <= 65535
  BY <1>0
<1> HIDE DEF n
<1> QED  BY ONLY <1>1, <1>2, RoundedAtMost

\* The place of a dimension in the sequence of all of them.
PlaceOf(d) == CHOOSE k \in DOMAIN Dimensions : Dimensions[k] = d

LEMMA PlaceFacts ==
    ASSUME NEW d \in ToSet(Dimensions)
    PROVE  PlaceOf(d) \in DOMAIN Dimensions /\ Dimensions[PlaceOf(d)] = d
<1>1. \E k \in DOMAIN Dimensions : Dimensions[k] = d
  BY DEF ToSet
<1> QED  BY <1>1 DEF PlaceOf

\* Every dimension that varies has a column of its own, the others have none.
LEMMA ColumnFacts ==
    /\ \A k \in DOMAIN Dimensions : k \notin Varying => Index(k) = 0
    /\ \A k \in Varying : Index(k) \in 1..Cardinality(Varying)
    /\ \A k \in Varying, l \in Varying : Index(k) = Index(l) => k = l
<1>1. PICK n \in Nat : DOMAIN Dimensions = 1..n
  BY DEF Dimensions
<1>2. Varying \in SUBSET (1..n)
  BY <1>1 DEF Varying
<1>3. IsFiniteSet(Varying)
  <2>1. IsFiniteSet(1..n)
    BY FS_Interval
  <2> QED  BY <1>2, <2>1, FS_Subset
<1> DEFINE upTo(k) == Varying \cap 1..k
<1>4. ASSUME NEW k \in Varying
      PROVE  /\ Index(k) = Cardinality(upTo(k)) /\ upTo(k) \in SUBSET Varying
             /\ IsFiniteSet(upTo(k)) /\ k \in upTo(k) /\ k \in Nat
  <2>1. k \in Nat /\ k >= 1
    BY <1>2
  <2>2. upTo(k) \in SUBSET Varying /\ k \in upTo(k)
    BY <2>1
  <2>3. Index(k) = Cardinality(upTo(k))
    BY DEF Index
  <2>4. IsFiniteSet(upTo(k))
    BY <1>3, <2>2, FS_Subset
  <2> QED  BY <2>1, <2>2, <2>3, <2>4
<1>5. ASSUME NEW k \in Varying
      PROVE  Index(k) \in 1..Cardinality(Varying)
  <2>1. Cardinality(upTo(k)) \in Nat /\ Cardinality(upTo(k)) # 0
    BY <1>4, FS_CardinalityType, FS_EmptySet
  <2>2. Cardinality(upTo(k)) <= Cardinality(Varying) /\ Cardinality(Varying) \in Nat
    BY <1>3, <1>4, FS_Subset, FS_CardinalityType
  <2> QED  BY <1>4, <2>1, <2>2
<1>6. ASSUME NEW k \in Varying, NEW l \in Varying, k < l, Index(k) = Index(l)
      PROVE  FALSE
  <2>1. k \in Nat /\ l \in Nat /\ l \in upTo(l)
    BY <1>4
  <2>2. upTo(k) \in SUBSET upTo(l) /\ l \notin upTo(k)
    <3>1. 1..k \in SUBSET (1..l) /\ l \notin 1..k
      BY <1>6, <2>1
    <3> QED  BY <3>1
  <2>3. Cardinality(upTo(l)) = Cardinality(upTo(k)) /\ IsFiniteSet(upTo(l))
    BY <1>4, <1>6
  <2> HIDE DEF upTo
  <2>4. upTo(l) = upTo(k)
    BY <2>2, <2>3, FS_Subset
  <2> QED  BY <2>1, <2>2, <2>4
<1>7. \A k \in Varying, l \in Varying : Index(k) = Index(l) => k = l
  <2>1. \A k \in Varying : k \in Nat
    BY <1>2
  <2> QED  BY <1>6, <2>1
<1>8. \A k \in DOMAIN Dimensions : k \notin Varying => Index(k) = 0
  BY DEF Index
<1> QED  BY <1>5, <1>7, <1>8

\* cognitive_A_pos varies exactly when cognitive_r_neg does.
AskedAlike ==
    "cognitive_A_pos" \in DOMAIN desArgs.ranges <=> "cognitive_r_neg" \in DOMAIN desArgs.ranges

\* Then the copy of the code finds the limits of every column.
LEMMA LimitsAlike ==
    ASSUME AskedAlike, NEW k \in Varying
    PROVE  /\ Limit(1, Index(k)) = desArgs.ranges[Dimensions[k]][1]
           /\ Limit(2, Index(k)) = desArgs.ranges[Dimensions[k]][2]
           /\ LimitOfCluster(1, Index(k)) = desArgs.ranges[Dimensions[k]][1]
           /\ LimitOfCluster(2, Index(k)) = desArgs.ranges[Dimensions[k]][2]
<1> DEFINE set == {l \in Varying : Index(l) = Index(k)}
           asked == {l \in Varying : Index(l) = Index(k) /\ IndexOf(AskedOf(Dimensions[l])) # 0}
<1>1. set = {k}
  BY ColumnFacts
<1>2. k \in DOMAIN Dimensions /\ Dimensions[k] \in DOMAIN desArgs.ranges
  BY DEF Varying
<1>3. AskedOf(Dimensions[k]) \in DOMAIN desArgs.ranges /\ AskedOf(Dimensions[k]) \in ToSet(Dimensions)
  <2>1. Dimensions[k] \in ToSet(Dimensions)
    BY <1>2 DEF ToSet
  <2>2. "cognitive_A_pos" \in ToSet(Dimensions)
    <3>1. 11 \in DOMAIN Dimensions /\ Dimensions[11] = "cognitive_A_pos"
      BY DEF Dimensions
    <3> QED  BY <3>1 DEF ToSet
  <2> QED  BY <1>2, <2>1, <2>2 DEF AskedOf, AskedAlike
<1>4. IndexOf(AskedOf(Dimensions[k])) # 0
  <2> DEFINE d == AskedOf(Dimensions[k])
  <2>1. PlaceOf(d) \in DOMAIN Dimensions /\ Dimensions[PlaceOf(d)] = d /\ d \in DOMAIN desArgs.ranges
    BY <1>3, PlaceFacts
  <2>2. IndexOf(d) = Index(PlaceOf(d))
    BY DEF IndexOf, PlaceOf
  <2> HIDE DEF d
  <2>3. PlaceOf(d) \in Varying
    BY <2>1 DEF Varying
  <2>4. Index(PlaceOf(d)) \in 1..Cardinality(Varying)
    BY <2>3, ColumnFacts
  <2>5. Index(PlaceOf(d)) # 0
    BY <2>4
  <2> QED  BY <2>2, <2>5 DEF d
<1>5. asked = {k}
  BY <1>1, <1>4
<1>6. k \in Nat
  <2>1. DOMAIN Dimensions = 1..14
    BY DEF Dimensions
  <2> QED  BY <1>2, <2>1
<1>7. Max({k}) = k
  BY <1>6 DEF Max
<1> DEFINE limit(end, s) == IF s = {} THEN 0 ELSE desArgs.ranges[Dimensions[Max(s)]][end]
<1>8. \A end : limit(end, {k}) = desArgs.ranges[Dimensions[k]][end]
  <2>1. {k} # {}
    OBVIOUS
  <2> QED  BY <1>7, <2>1
<1>9. \A end : Limit(end, Index(k)) = limit(end, set) /\ LimitOfCluster(end, Index(k)) = limit(end, asked)
  BY DEF Limit, LimitOfCluster
<1> HIDE DEF limit, set, asked
<1> QED  BY <1>1, <1>5, <1>8, <1>9

\* An entry of a plain design is a share of its denominator.
LEMMA PlainEntries ==
    ASSUME NEW n \in Nat, NEW nvar \in Nat, NEW d \in Plain(n, nvar), NEW row \in 1..Len(d.rows),
           NEW c \in 1..nvar
    PROVE  d.den \in Nat \ {0} /\ d.rows[row][c] \in 0..d.den
<1>1. PICK perms \in [1..nvar -> Orders(n)], u \in [1..nvar -> [1..n -> Jitters]] :
         d.rows = Transposed(Strata(n, nvar, perms, u))
  BY DEF Plain, PlainRows
<1>2. d.den = 4 * n
  BY DEF Plain
<1> DEFINE cols == Strata(n, nvar, perms, u)
<1>3. nvar >= 1 /\ 1 \in 1..nvar
  OBVIOUS
<1>4. /\ Len(cols) = nvar /\ Len(cols[1]) = n
      /\ \A j \in 1..nvar, r \in 1..n : cols[j][r] = 4 * perms[j][r] - u[j][r]
  BY <1>3 DEF Strata
<1> HIDE DEF cols
<1>5. d.rows = [r \in 1..n |-> [j \in 1..nvar |-> cols[j][r]]]
  BY <1>1, <1>4 DEF Transposed, Column, cols
<1>6. row \in 1..n
  <2>1. Len(d.rows) = n
    BY <1>5
  <2> QED  BY <2>1
<1> DEFINE a == perms[c][row]
           b == u[c][row]
<1>7. a \in 1..n /\ b \in 0..3
  <2>1. perms[c] \in [1..n -> 1..n] /\ u[c] \in [1..n -> Jitters]
    BY DEF Orders
  <2>2. a \in 1..n /\ b \in Jitters
    BY <1>6, <2>1
  <2> QED  BY <2>2, JittersAssumption
<1>8. d.rows[row][c] = 4 * a - b
  <2>1. d.rows[row][c] = cols[c][row]
    BY <1>5, <1>6
  <2> QED  BY <1>4, <1>6, <2>1
<1> HIDE DEF a, b
<1>9. 4 * n \in Nat \ {0} /\ 4 * a - b \in 0..(4 * n)
  BY <1>6, <1>7
<1> QED  BY <1>2, <1>8, <1>9

\* What the conditions are while the program runs, and what the design is once it was sampled.
ColumnInv ==
    /\ ~ Idle =>
         /\ DOMAIN conditions = ToSet(Dimensions)
         /\ \A d \in ToSet(Dimensions) \ DOMAIN desArgs.ranges : conditions[d] = desArgs.values[d]
    /\ ~ Idle /\ pc # "sample" /\ desArgs.lhs => design \in Designs

\* What a counted dimension that varies is simulated with fits in its 16 bits.
LEMMA CountFits ==
    ASSUME CountsFit, ColumnInv, NEW opt \in Options, desArgs = parse(opt), opt.lhs, ~ Idle, pc # "sample",
           NEW row \in 1..Len(design.rows), NEW k \in Varying, Dimensions[k] \in Counted, AskedAlike,
           NEW x, x = Sample(row, Index(k))
    PROVE  Rounded(x) = Whole((2 * x[1] + x[2]) \div (2 * x[2]))
<1> DEFINE d == Dimensions[k]
           lo == desArgs.ranges[d][1]
           hi == desArgs.ranges[d][2]
<1>1. desArgs.lhs /\ desArgs.ranges = opt.ranges
  BY ArgumentFacts
<1>2. d \in DOMAIN opt.ranges /\ d \in Counted
  BY <1>1 DEF Varying
<1>3. ~ opt.lhs_optimal /\ lo \in Nat /\ hi \in Nat /\ hi <= 65535 /\ lo <= hi
  BY <1>1, <1>2, OptionsAssumption DEF CountsFit
<1>4. Limit(1, Index(k)) = lo /\ Limit(2, Index(k)) = hi
  BY LimitsAlike
<1> DEFINE n == desArgs.simulations
           nvar == Cardinality(Varying)
<1>5. n \in Nat /\ nvar \in Nat /\ desArgs.lhs_optimal = opt.lhs_optimal
  <2>1. /\ opt.simulations \in Nat /\ n = opt.simulations
        /\ nvar \in Nat /\ desArgs.lhs_optimal = opt.lhs_optimal
    BY DesignArguments
  <2> QED  BY <2>1
<1>6. design \in Plain(n, nvar)
  BY <1>1, <1>3, <1>5 DEF ColumnInv, Designs
<1>7. Index(k) \in 1..nvar
  BY ColumnFacts
<1> HIDE DEF n, nvar
<1> DEFINE den == design.den
           v == design.rows[row][Index(k)]
<1>8. den \in Nat \ {0} /\ v \in 0..den
  BY <1>5, <1>6, <1>7, PlainEntries
<1>9. x = Reduced(lo * den + (hi - lo) * v, den)
  BY <1>4 DEF Sample
<1>10. IsShare(x, lo, hi, den, v)
  BY <1>3, <1>8, <1>9 DEF IsShare
<1> HIDE DEF d, lo, hi, den, v
<1> QED  BY ONLY <1>10, RoundedFits

\* The conditions of a row of the design are the parameters that SimulationMPI sends for it.
LEMMA RowsAlike ==
    ASSUME CountsFit, ColumnInv, NEW opt \in Options, desArgs = parse(opt), opt.lhs, ~ Idle, pc # "sample",
           NEW row \in 1..Len(design.rows), AskedAlike
    PROVE  ExperimentConditions(row) = assignParams(row)
<1>1. DOMAIN conditions = ToSet(Dimensions)
      /\ \A d \in ToSet(Dimensions) \ DOMAIN desArgs.ranges : conditions[d] = desArgs.values[d]
  BY DEF ColumnInv
<1> DEFINE mine(d) == LET k == PlaceOf(d) IN
                      IF Index(k) = 0 THEN conditions[d]
                      ELSE IF d \in Counted THEN Rounded(Sample(row, Index(k))) ELSE Sample(row, Index(k))
           theirs(d) == LET c == IndexOf(d)
                            min == LimitOfCluster(1, c)
                            x == Reduced(min * design.den
                                          + (LimitOfCluster(2, c) - min) * design.rows[row][c], design.den)
                        IN  IF c = 0 THEN desArgs.values[d]
                            ELSE IF d \in Counted THEN Whole((2 * x[1] + x[2]) \div (2 * x[2])) ELSE x
<1>2. ExperimentConditions(row) = [d \in ToSet(Dimensions) |-> mine(d)]
  BY <1>1 DEF ExperimentConditions, PlaceOf
<1>3. assignParams(row) = [d \in ToSet(Dimensions) |-> theirs(d)]
  BY Zenon DEF assignParams
<1>4. ASSUME NEW d \in ToSet(Dimensions)
      PROVE  mine(d) = theirs(d)
  <2> DEFINE k == PlaceOf(d)
  <2>1. k \in DOMAIN Dimensions /\ Dimensions[k] = d
    BY PlaceFacts
  <2>2. IndexOf(d) = Index(k)
    BY DEF IndexOf, PlaceOf
  <2> HIDE DEF k
  <2>3. CASE k \notin Varying
    <3>1. Index(k) = 0 /\ d \notin DOMAIN desArgs.ranges
      BY <2>1, <2>3, ColumnFacts DEF Varying
    <3>2. conditions[d] = desArgs.values[d]
      BY <1>1, <3>1
    <3> QED  BY <2>2, <3>1, <3>2 DEF k
  <2>4. CASE k \in Varying
    <3> DEFINE c == Index(k)
               x == Sample(row, c)
               xTheirs == Reduced(LimitOfCluster(1, c) * design.den
                             + (LimitOfCluster(2, c) - LimitOfCluster(1, c)) * design.rows[row][c], design.den)
    <3>1. c # 0
      <4>1. c \in 1..Cardinality(Varying)
        BY <2>4, ColumnFacts
      <4> HIDE DEF c
      <4> QED  BY <4>1
    <3>2. LimitOfCluster(1, c) = Limit(1, c) /\ LimitOfCluster(2, c) = Limit(2, c)
      BY <2>4, LimitsAlike
    <3>3. xTheirs = x
      <4> HIDE DEF c
      <4> QED  BY <3>2 DEF Sample
    <3>4. d \in Counted => Rounded(x) = Whole((2 * x[1] + x[2]) \div (2 * x[2]))
      BY <2>1, <2>4, CountFits
    <3>5. mine(d) = IF d \in Counted THEN Rounded(x) ELSE x
      BY <3>1 DEF k
    <3>6. theirs(d) = IF d \in Counted THEN Whole((2 * xTheirs[1] + xTheirs[2]) \div (2 * xTheirs[2]))
                      ELSE xTheirs
      BY <2>2, <3>1
    <3> HIDE DEF mine, theirs, x, xTheirs, c
    <3> QED  BY <3>3, <3>4, <3>5, <3>6
  <2> QED  BY <2>3, <2>4
<1> HIDE DEF mine, theirs
<1> QED  BY <1>2, <1>3, <1>4

\* The values of the arguments are those of all dimensions.
LEMMA ValuesOfArguments ==
    ASSUME NEW opt
    PROVE  DOMAIN parse(opt).values = ToSet(Dimensions)
<1> DEFINE fields == OfExperiment \cup OfConfidence(opt) \cup OfDesign(opt) \cup OfLearning(opt)
           names == DOMAIN desArgs_t
           own == [d \in ToSet(Dimensions) |->
                        IF d \in Network(opt) \cup Learner(opt) THEN opt.values[d]
                        ELSE desArgs_t.values[d]]
           read == [f \in names |-> IF f \in fields THEN opt[f] ELSE desArgs_t[f]]
           args == [read EXCEPT !.values = own, !.simulations = @ % 2 ^ 16]
<1>1. parse(opt) = [args EXCEPT !.confidence = @ \/ args.lhs]
  BY DEF parse, verify
<1>2. {"confidence", "simulations", "values"} \subseteq names
  BY DEF desArgs_t
<1>3. DOMAIN own = ToSet(Dimensions)
  OBVIOUS
<1>4. DOMAIN read = names
  OBVIOUS
<1> HIDE DEF fields, names, own, read
<1>5. DOMAIN args = names /\ args.values = own
  BY <1>2, <1>4
<1> HIDE DEF args
<1> QED  BY <1>1, <1>2, <1>3, <1>5

\* What a cluster would send depends on the arguments and the design.
LEMMA ParamsKept ==
    ASSUME UNCHANGED <<desArgs, design, i>>
    PROVE  assignParams(i + 1)' = assignParams(i + 1)
<1>1. Varying' = Varying
  BY DEF Varying
<1>2. ASSUME NEW k PROVE Index(k)' = Index(k)
  BY <1>1 DEF Index
<1>3. ASSUME NEW name PROVE IndexOf(name)' = IndexOf(name)
  BY <1>2 DEF IndexOf
<1>4. ASSUME NEW end, NEW column PROVE LimitOfCluster(end, column)' = LimitOfCluster(end, column)
  <2> DEFINE set == {k \in Varying : Index(k) = column /\ IndexOf(AskedOf(Dimensions[k])) # 0}
             limit(ranges, s) == IF s = {} THEN 0 ELSE ranges[Dimensions[Max(s)]][end]
  <2>1. set' = set
    BY <1>1, <1>2, <1>3
  <2>2. LimitOfCluster(end, column) = limit(desArgs.ranges, set)
        /\ LimitOfCluster(end, column)' = limit(desArgs'.ranges, set')
    BY DEF LimitOfCluster
  <2>3. desArgs' = desArgs
    OBVIOUS
  <2> HIDE DEF set, limit
  <2> QED  BY <2>1, <2>2, <2>3
<1>5. i' + 1 = i + 1
  OBVIOUS
<1> QED  BY <1>3, <1>4, <1>5 DEF assignParams

LEMMA MainColumns ==
    ASSUME Main
    PROVE  ColumnInv' /\ ClusterSendsTheSame'
<1>1. PICK opt \in Options : desArgs' = parse(opt)
  BY DEF Main
<1>2. conditions' = desArgs'.values
  BY DEF Main
<1>3. /\ pc' = IF desArgs'.lhs /\ desArgs'.confidence THEN "sample"
               ELSE IF desArgs'.confidence THEN "ci" ELSE "single"
  BY DEF Main
<1>4. desArgs'.lhs => desArgs'.confidence
  <2>1. desArgs'.lhs = opt.lhs /\ desArgs'.confidence = (opt.confidence \/ opt.lhs)
    BY <1>1, ArgumentFacts
  <2> QED  BY <2>1
<1>5. DOMAIN conditions' = ToSet(Dimensions)
  BY <1>1, <1>2, ValuesOfArguments
<1>6. pc' # "sample" => ~ desArgs'.lhs
  BY <1>3, <1>4
<1>7. pc' = "ci" => pc' # "sample"
  OBVIOUS
<1> QED  BY <1>2, <1>5, <1>6, <1>7 DEF ColumnInv, ClusterSendsTheSame

LEMMA RowColumns ==
    ASSUME CountsFit, WhereInv, ColumnInv, NextRow
    PROVE  ColumnInv' /\ ClusterSendsTheSame'
<1>1. /\ pc = "row" /\ ~ Idle /\ pc # "sample" /\ desArgs.lhs
      /\ UNCHANGED <<desArgs, design, i>>
      /\ i \in Nat /\ Len(design.rows) \in Nat /\ design \in Designs
  BY DEF NextRow, Idle, WhereInv, ArgsInv, PlaceInv, ShareInv, ColumnInv
<1>2. PICK opt \in Options : desArgs = parse(opt)
  BY <1>1 DEF WhereInv, ArgsInv
<1>3. opt.lhs
  BY <1>1, <1>2, ArgumentFacts
<1>4. CASE i < Len(design.rows) /\ conditions' = ExperimentConditions(i + 1) /\ pc' = "ci"
  <2>1. i + 1 \in 1..Len(design.rows)
    BY <1>1, <1>4
  <2>2. DOMAIN conditions' = ToSet(Dimensions)
        /\ \A d \in ToSet(Dimensions) \ DOMAIN desArgs.ranges : conditions'[d] = desArgs.values[d]
    <3>1. DOMAIN conditions = ToSet(Dimensions)
          /\ \A d \in ToSet(Dimensions) \ DOMAIN desArgs.ranges : conditions[d] = desArgs.values[d]
      BY <1>1 DEF ColumnInv
    <3>2. DOMAIN conditions' = ToSet(Dimensions)
      BY <1>4, <3>1 DEF ExperimentConditions
    <3>3. ASSUME NEW d \in ToSet(Dimensions) \ DOMAIN desArgs.ranges
          PROVE  conditions'[d] = conditions[d]
      <4>1. PlaceOf(d) \in DOMAIN Dimensions /\ Dimensions[PlaceOf(d)] = d
        BY PlaceFacts
      <4>2. PlaceOf(d) \notin Varying
        BY <4>1 DEF Varying
      <4>3. Index(PlaceOf(d)) = 0
        BY <4>1, <4>2, ColumnFacts
      <4> QED  BY <1>4, <3>1, <4>3 DEF ExperimentConditions, PlaceOf
    <3> QED  BY <3>1, <3>2, <3>3
  <2>3. ColumnInv'
    <3>1. Designs' = Designs
      BY <1>1 DEF Designs, Varying
    <3> QED  BY <1>1, <2>2, <3>1 DEF ColumnInv
  <2>4. AskedAlike => conditions' = assignParams(i + 1)
    BY <1>1, <1>2, <1>3, <1>4, <2>1, RowsAlike
  <2>5. assignParams(i + 1)' = assignParams(i + 1)
    BY <1>1, ParamsKept
  <2>6. ClusterSendsTheSame'
    BY <1>1, <2>4, <2>5 DEF ClusterSendsTheSame, AskedAlike
  <2> QED  BY <2>3, <2>6
<1>5. CASE pc' = "done"
  BY <1>5 DEF ColumnInv, ClusterSendsTheSame, Idle
<1> QED  BY <1>4, <1>5 DEF NextRow

LEMMA OtherColumns ==
    ASSUME WhereInv, ColumnInv, ClusterSendsTheSame,
           \/ SampleDesign \/ BeginReplications \/ Replicate \/ Report \/ Single
           \/ SeedsExhausted \/ Interrupted \/ UNCHANGED vars
    PROVE  ColumnInv' /\ ClusterSendsTheSame'
<1>1. desArgs' = desArgs /\ conditions' = conditions
  BY DEF SampleDesign, BeginReplications, Replicate, Report, Single, SeedsExhausted, Interrupted,
         vars, program
<1>2. Designs' = Designs
  BY <1>1 DEF Designs, Varying
<1>3. CASE UNCHANGED vars
  <2>1. UNCHANGED <<pc, desArgs, conditions, design, i>>
    BY <1>3 DEF vars, program
  <2>2. ColumnInv'
    BY <1>2, <2>1 DEF ColumnInv, Idle
  <2>3. assignParams(i + 1)' = assignParams(i + 1)
    BY <2>1, ParamsKept
  <2>4. ClusterSendsTheSame'
    BY <2>1, <2>3 DEF ClusterSendsTheSame
  <2> QED  BY <2>2, <2>4
<1>4. CASE SampleDesign
  <2>1. pc = "sample" /\ pc' = "row" /\ design' \in Designs
    BY <1>4 DEF SampleDesign, Designs
  <2> QED  BY <1>1, <1>2, <2>1 DEF ColumnInv, ClusterSendsTheSame, Idle
<1>5. CASE BeginReplications \/ Replicate \/ Report \/ Single \/ SeedsExhausted \/ Interrupted
  <2>1. (design' = design /\ pc # "sample") \/ Idle'
    BY <1>5 DEF BeginReplications, Replicate, Report, Single, SeedsExhausted, Interrupted, Idle
  <2>2. pc' # "ci" /\ (~ Idle' => ~ Idle)
    BY <1>5 DEF BeginReplications, Replicate, Report, Single, SeedsExhausted, Interrupted, Idle
  <2> QED  BY <1>1, <1>2, <2>1, <2>2 DEF ColumnInv, ClusterSendsTheSame
<1> QED  BY <1>3, <1>4, <1>5

\* Without a cluster and with it a simulation runs under the same conditions, whatever the design: the two
\* copies of the code agree (SimulationLHS::simulate, SimulationMPI::assignParams), as long as
\* cognitive_A_pos varies exactly when cognitive_r_neg does.
THEOREM ClusterSendsTheSameHolds ==
    ASSUME CountsFit
    PROVE  Spec => []ClusterSendsTheSame
<1>1. Init => ColumnInv /\ ClusterSendsTheSame
  BY DEF Init, ColumnInv, ClusterSendsTheSame, Idle
<1>2. ASSUME ExperimentsInv, ColumnInv, ClusterSendsTheSame, [Next]_vars
      PROVE  ColumnInv' /\ ClusterSendsTheSame'
  <2>1. WhereInv
    BY <1>2 DEF ExperimentsInv
  <2> QED  BY <1>2, <2>1, MainColumns, RowColumns, OtherColumns DEF Next
<1> QED  BY <1>1, <1>2, ExperimentsInvHolds, PTL DEF Spec

===============================================================================
