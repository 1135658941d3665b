--------------------------- MODULE LatinHypercube ---------------------------
(***************************************************************************)
(* The samples of sampling/lhs.  A design is a matrix, a sequence of rows, *)
(* of whole numbers out of a common denominator: 0 stands for the minimum  *)
(* of a dimension and the denominator for its maximum.                     *)
(***************************************************************************)
EXTENDS Integers, FiniteSets, SequencesExt

CONSTANT Jitters    \* where in its stratum a sample may be, in quarters: the draws of gsl_rng_uniform

ASSUME JittersAssumption == Jitters \subseteq 0..3

Orders(n) == {p \in [1..n -> 1..n] : IsInjective(p)}

Column(A, j) == [i \in 1..Len(A) |-> A[i][j]]
Dot(u, v) == FoldLeftDomain(LAMBDA sum, i : sum + u[i] * v[i], 0, u)
Transposed(cols) == [i \in 1..Len(cols[1]) |-> Column(cols, i)]

(***************************************************************************)
(* The plain sample: the columns are permuted independently, and the value *)
(* of stratum p lies in it by (p + 1 - u) / size, 0 <= u < 1.              *)
(***************************************************************************)
Strata(size, nvar, perms, u) == [j \in 1..nvar |-> [i \in 1..size |-> 4 * perms[j][i] - u[j][i]]]

PlainRows(size, nvar) ==
    {Transposed(Strata(size, nvar, perms, u))
        : perms \in [1..nvar -> Orders(size)], u \in [1..nvar -> [1..size -> Jitters]]}

Plain(size, nvar) == [rows : PlainRows(size, nvar), den : {4 * size}]

(***************************************************************************)
(* The optimal sample, for the exponent m.                                 *)
(***************************************************************************)
kronecker(a, b) ==
    LET rowB == Len(b)  colB == Len(b[1])
    IN  [r \in 1..(Len(a) * rowB) |-> [c \in 1..(Len(a[1]) * colB) |->
            a[((r - 1) \div rowB) + 1][((c - 1) \div colB) + 1]
                * b[((r - 1) % rowB) + 1][((c - 1) % colB) + 1]]]

Kroneckers(factors) == FoldLeft(kronecker, <<<<1>>>>, factors)

Times(A, v) == [i \in 1..Len(A) |-> Dot(A[i], v)]

\* I x ... x I x R x ... x R, with k factors R: it turns every block of 2^k entries round.
Turn(m, k) == Kroneckers([i \in 1..(m - 1) |-> IF i < m - k THEN <<<<1, 0>>, <<0, 1>>>> ELSE <<<<0, 1>>, <<1, 0>>>>])

\* The levels, without their signs: e, its turns, and the turns of the whole of the first m - 2 of them.
matrixM(m, e) ==
    <<e>> \o [k \in 1..(m - 1) |-> Times(Turn(m, k), e)]
          \o [j \in 1..(m - 2) |-> Times(Turn(m, m - 1), Times(Turn(m, j), e))]

\* 1 x ... x B x ... x 1, with B = (-1, 1) at place m - k.
Signs(m, k) == Column(Kroneckers([i \in 1..(m - 1) |-> IF i = m - k THEN <<<<-1>>, <<1>>>> ELSE <<<<1>>, <<1>>>>]), 1)

\* Mutant: the products begin with the second column itself.
matrixSSquared(m) ==
    LET ones == [i \in 1..(2 ^ (m - 1)) |-> 1]
        product(j) == [i \in DOMAIN ones |-> Signs(m, 1)[i] * Signs(m, j)[i]]
    IN  <<ones>> \o [k \in 1..(m - 1) |-> Signs(m, k)] \o [j \in 1..(m - 2) |-> product(j)]

\* The signs: columns m onwards are products of the second with those after it.
matrixS(m) ==
    LET ones == [i \in 1..(2 ^ (m - 1)) |-> 1]
        product(j) == [i \in DOMAIN ones |-> Signs(m, 1)[i] * Signs(m, j + 1)[i]]
    IN  <<ones>> \o [k \in 1..(m - 1) |-> Signs(m, k)] \o [j \in 1..(m - 2) |-> product(j)]

\* The square of the least distance between two columns.
MinDistance(cols) ==
    LET diff(p) == [r \in DOMAIN cols[p[1]] |-> cols[p[1]][r] - cols[p[2]][r]]
    IN  Min({Dot(diff(p), diff(p)) : p \in {q \in (DOMAIN cols) \X (DOMAIN cols) : q[1] < q[2]}})

\* gsl_permutation_next, in lexicographic order; the last permutation stays.
Precedes(p, q) == \E i \in DOMAIN p : p[i] < q[i] /\ \A j \in 1..(i - 1) : p[j] = q[j]
NextOrder(p) ==
    LET later == {q \in Orders(Len(p)) : Precedes(p, q)}
    IN  IF later = {} THEN p ELSE CHOOSE q \in later : \A o \in later \ {q} : Precedes(q, o)

\* The first of r successive permutations whose levels are furthest apart.  The transpositions the
\* code draws in between never reach matrixM, which is given e again.
Best(m, e, r) ==
    LET tried == FoldLeft(LAMBDA s, i : Append(s, NextOrder(s[i])), <<e>>, [i \in 1..(r - 1) |-> i])
        far(i) == MinDistance(matrixM(m, tried[i]))
        i == CHOOSE i \in DOMAIN tried : /\ \A k \in DOMAIN tried : far(k) <= far(i)
                                         /\ \A k \in 1..(i - 1) : far(k) < far(i)
    IN  matrixM(m, tried[i])

\* The signed levels, a row in the centre, and the mirror image, moved up to be positive.
Mirrored(m, M) ==
    LET size == 2 ^ (m - 1)
        T == Transposed([c \in DOMAIN M |-> [i \in 1..size |-> M[c][i] * matrixS(m)[c][i]]])
        centre == [c \in DOMAIN M |-> 0]
        all == T \o <<centre>> \o [i \in 1..size |-> [c \in DOMAIN M |-> - T[i][c]]]
    IN  [i \in DOMAIN all |-> [c \in DOMAIN M |-> all[i][c] + size]]

Optimal(m, r) ==
    [rows : {Mirrored(m, Best(m, e, r)) : e \in Orders(2 ^ (m - 1))}, den : {2 ^ m}]

-----------------------------------------------------------------------------
\* A plain design has one sample in every stratum of a dimension, an optimal one one at every level.
Latin(design, optimal) ==
    \A j \in DOMAIN design.rows[1] :
        LET places == {IF optimal THEN x ELSE (x + 3) \div 4 : x \in ToSet(Column(design.rows, j))}
        IN  places = IF optimal THEN 0..design.den ELSE 1..Len(design.rows)

\* About their centre the columns of an optimal design are orthogonal to one another.
Orthogonal(design) ==
    LET centred(j) == [i \in DOMAIN design.rows |-> 2 * design.rows[i][j] - design.den]
    IN  \A j, k \in DOMAIN design.rows[1] : j < k => Dot(centred(j), centred(k)) = 0
=============================================================================
