------------------------------- MODULE Simplex -------------------------------
(***************************************************************************)
(* src/utils/simplex/Simplex.cc: the randomised projectionDuchi the policy *)
(* learners call, and the operations of src/utils/vector/Vector.cc they    *)
(* apply to its result.  A vector is a sequence of quotients.              *)
(***************************************************************************)
EXTENDS Quotients, FiniteSets

\* Whether the pivot k joins the support S, with all that is not below it in
\* U.  The code compares indices where Duchi et al. compare the components.
Accepts(p_vec, p_z, U, S, k) ==
    LET G == {i \in U : i >= k}
        s == SumOf(p_vec, S \cup G)
    IN  Below(s -- (Whole(Cardinality(S \cup G)) ** p_vec[k]), p_z)

\* The supports the loop may end with, over the draws of the pivot.
Supports(p_vec, p_z) ==
    LET I == DOMAIN p_vec
        Ends[US \in (SUBSET I) \X (SUBSET I)] ==
            LET U == US[1]
                S == US[2]
            IN  IF U = {} THEN {S}
                ELSE UNION {IF Accepts(p_vec, p_z, U, S, k)
                            THEN Ends[<<{i \in U : i < k}, S \cup {i \in U : i >= k}>>]
                            ELSE Ends[<<U \ {k}, S>>] : k \in U}
    IN  Ends[<<I, {}>>]

\* What is left of p_vec when theta is taken off, but never less than p_b.
Cut(p_vec, p_z, p_b, S) ==
    LET theta == (SumOf(p_vec, S) -- p_z) // Whole(Cardinality(S))
    IN  [i \in DOMAIN p_vec |-> Greater(p_vec[i] -- theta, p_b)]

projectionDuchi(p_vec, p_z, p_b) ==
    {Cut(p_vec, p_z, p_b, S) : S \in Supports(p_vec, p_z)}

mult(p_vec, p_scalar) == [i \in DOMAIN p_vec |-> p_vec[i] ** p_scalar]

scale(p_vec, p_min, p_max) ==
    [i \in DOMAIN p_vec |-> p_min ++ ((p_max -- p_min) ** p_vec[i])]
=============================================================================
