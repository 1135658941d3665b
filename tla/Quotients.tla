------------------------------ MODULE Quotients ------------------------------
(***************************************************************************)
(* Rational numbers <<n, d>>, d > 0, in lowest terms: they stand for the   *)
(* doubles of the program, without its rounding.                           *)
(***************************************************************************)
EXTENDS Integers, Sequences, Functions

Rationals == Int \X (Nat \ {0})

\* The greatest common divisor of a pair.
Gcd[p \in Nat \X Nat] == IF p[2] = 0 THEN p[1] ELSE Gcd[<<p[2], p[1] % p[2]>>]

Abs(x) == IF x < 0 THEN -x ELSE x

Reduced(n, d) ==
    LET s == IF d < 0 THEN -1 ELSE 1
        g == Gcd[<<Abs(n), Abs(d)>>]
    IN  <<(s * n) \div g, (s * d) \div g>>

Whole(n) == <<n, 1>>
Zero == Whole(0)
One == Whole(1)

a ++ b == IF a[2] = b[2] THEN Reduced(a[1] + b[1], a[2])
           ELSE Reduced(a[1] * b[2] + b[1] * a[2], a[2] * b[2])
Minus(a) == <<-a[1], a[2]>>
a -- b == a ++ Minus(b)
a ** b == Reduced(a[1] * b[1], a[2] * b[2])
a // b == Reduced(a[1] * b[2], a[2] * b[1])

Below(a, b) == a[1] * b[2] < b[1] * a[2]
AtMost(a, b) == ~ Below(b, a)
Greater(a, b) == IF Below(a, b) THEN b ELSE a
Lesser(a, b) == IF Below(a, b) THEN a ELSE b

\* The sum of f over a finite set of its arguments.
SumOf(f, S) == FoldFunctionOnSet(LAMBDA a, b : a ++ b, Zero, f, S)
=============================================================================
