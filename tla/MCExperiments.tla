--------------------------- MODULE MCExperiments ---------------------------
(* Command lines: designs of both kinds, replications of one simulation, and additions to them. *)
EXTENDS Experiments

\* What is not given has its default.
Plainly ==
    [opt_desc EXCEPT !.seeds_filename = TRUE, !.confidence = TRUE, !.rl = TRUE, !.rl_policy = 3,
                     !.values["size"] = Whole(4)]

Varied == [Plainly EXCEPT !.lhs = TRUE, !.simulations = 2, !.lhs_r = 2]

MCOptions ==
    {[Plainly EXCEPT !.add_sim = a, !.replications = 1, !.rl = a] : a \in BOOLEAN}
    \cup {[Plainly EXCEPT !.confidence = FALSE, !.seeds_filename = s] : s \in BOOLEAN}
    \cup {[Varied EXCEPT !.ranges = [size |-> <<4, 9>>, boost_edge |-> <<2, 10>>]],
          [Varied EXCEPT !.confidence = FALSE, !.ranges = [edge_prob |-> <<0, 3>>], !.net_gen = 2, !.rl_policy = 2],
          [Varied EXCEPT !.add_sim = TRUE, !.lhs_optimal = TRUE, !.replications = 3,
                         !.ranges = [max_edges |-> <<10, 15>>, rl_policy_epsilon |-> <<40, 43>>]],
          [Varied EXCEPT !.lhs_optimal = TRUE, !.simulations = 3, !.replications = 3, !.rl_policy = 5, !.seeds_filename = FALSE,
                         !.ranges = [size |-> <<3, 6>>, nn_momentum |-> <<30, 31>>,
                                     cognitive_A_pos |-> <<50, 51>>, cognitive_r_neg |-> <<60, 64>>]]}
============================================================================
