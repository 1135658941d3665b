----------------------------- MODULE MCLearning -----------------------------
(* A network with every out-degree from three to none, and configurations. *)
EXTENDS Learning

Ramp == <<<<1, 2>>, <<1, 3>>, <<1, 4>>, <<2, 3>>, <<2, 4>>, <<3, 4>>>>

\* Two hidden neurons that differ.
MCWeights == {<<1, 0, -1, 1, 1, -1, 1>>}

MCRates == {-1, 0}

Default ==
    [rl |-> TRUE, rl_policy |-> "epsilon greedy", rl_hybrid |-> FALSE, rl_hybrid_warmup |-> 2, state |-> FALSE, representation |-> 55,
     nn_outsource |-> FALSE, nn_cg |-> FALSE, sliding |-> FALSE, rl_ci |-> FALSE,
     regret |-> FALSE, incentive |-> FALSE, expert |-> FALSE, coefficient_variation |-> FALSE,
     epsilon |-> <<1, 4>>, q_alpha |-> One, q_lambda |-> One]

Simple ==
    {[Default EXCEPT !.rl_policy = p, !.rl_ci = (p \in {"boltzmann", "fal", "gradient"})] : p \in Policies}
    \cup {[Default EXCEPT !.rl = FALSE, !.expert = TRUE, !.coefficient_variation = TRUE],
          [Default EXCEPT !.rl = FALSE, !.rl_ci = TRUE]}

Approximated == {[Default EXCEPT !.state = TRUE, !.nn_outsource = o, !.nn_cg = c, !.sliding = ~ c,
                                 !.regret = o, !.incentive = ~ c, !.expert = o,
                                 !.representation = IF o THEN 51 ELSE 55] : o, c \in BOOLEAN}

Hybrid == {[Default EXCEPT !.state = TRUE, !.rl_hybrid = TRUE]}

MCConfigs == Simple \cup Approximated \cup Hybrid
=============================================================================
