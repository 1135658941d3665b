---------------------------- MODULE CommandLine ----------------------------
(***************************************************************************)
(* The options of core/main/CL.cc and the arguments of the program they    *)
(* become.  A part of the options is read only when another one asks for   *)
(* it; an argument that is not read keeps the value of its constructor.    *)
(***************************************************************************)
EXTENDS Quotients, SequencesExt

\* The parameters an experiment can vary, in the order of the columns of a design.
Dimensions ==
    <<"size", "max_edges", "edge_prob", "boost_arrival", "boost_edge", "rl_q_alpha", "rl_q_lambda",
      "rl_policy_epsilon", "nn_momentum", "rl_policy_wpl_eta", "cognitive_A_pos", "cognitive_A_neg",
      "cognitive_r_pos", "cognitive_r_neg">>

\* They are counted in 16 bits: a design is rounded to whole numbers.
Counted == {"size", "max_edges"}

\* alpha is in percent.  ranges: for some of the dimensions their least and greatest value.
desArgs_t ==
    [add_sim |-> FALSE, seeds_filename |-> FALSE, net_gen |-> 0, confidence |-> FALSE, replications |-> 0,
     init_replications |-> 0, alpha |-> 0, lhs |-> FALSE, lhs_optimal |-> FALSE, simulations |-> 0, lhs_r |-> 10,
     ranges |-> [d \in {} |-> <<0, 0>>], rl |-> FALSE, rl_policy |-> 0,
     values |-> [d \in ToSet(Dimensions) |-> IF d = "nn_momentum" THEN One ELSE Zero]]

\* The options of a command line that gives none; a dimension varies when its least value is given.
\* UINT_MAX is more than TLC counts to.
opt_desc ==
    [add_sim |-> FALSE, seeds_filename |-> FALSE, net_gen |-> 1, confidence |-> FALSE, replications |-> 2,
     init_replications |-> 2, alpha |-> 5, lhs |-> FALSE, lhs_optimal |-> FALSE, simulations |-> 1, lhs_r |-> 100,
     ranges |-> [d \in {} |-> <<0, 0>>], rl |-> FALSE, rl_policy |-> 1,
     values |-> [d \in ToSet(Dimensions) |->
                    CASE d = "size" -> Whole(10)
                      [] d = "max_edges" -> Whole(2 ^ 30)
                      [] d \in {"boost_arrival", "boost_edge", "nn_momentum"} -> One
                      [] d = "edge_prob" -> <<1, 20>>
                      [] d \in {"rl_q_alpha", "rl_q_lambda", "rl_policy_epsilon"} -> <<1, 10>>
                      [] d = "rl_policy_wpl_eta" -> <<1, 1000>>
                      [] OTHER -> Zero]]

OfExperiment == {"add_sim", "seeds_filename", "net_gen", "rl", "confidence", "lhs"}
OfConfidence(opt) == IF opt.confidence THEN {"replications", "init_replications", "alpha"} ELSE {}
OfDesign(opt) == IF opt.lhs THEN {"lhs_optimal", "simulations", "lhs_r", "ranges"} ELSE {}
OfLearning(opt) == IF opt.rl THEN {"rl_policy"} ELSE {}

\* The dimensions whose own value is read.
Network(opt) ==
    {"size", "max_edges", "boost_arrival", "boost_edge"} \cup (IF opt.net_gen = 1 THEN {} ELSE {"edge_prob"})
Learner(opt) ==
    IF ~ opt.rl THEN {}
    ELSE {"rl_q_alpha", "rl_q_lambda", "nn_momentum"}
         \cup (IF opt.rl_policy \in {1, 3, 4, 5} THEN {"rl_policy_epsilon"} ELSE {})
         \cup (IF opt.rl_policy \in {3, 4, 5} THEN {"rl_policy_wpl_eta"} ELSE {})
         \cup (IF opt.rl_policy = 5
               THEN {"cognitive_A_pos", "cognitive_A_neg", "cognitive_r_pos", "cognitive_r_neg"} ELSE {})

verify(args) == [args EXCEPT !.confidence = @ \/ args.lhs]

parse(opt) ==
    LET fields == OfExperiment \cup OfConfidence(opt) \cup OfDesign(opt) \cup OfLearning(opt)
        values == [d \in ToSet(Dimensions) |->
                      IF d \in Network(opt) \cup Learner(opt) THEN opt.values[d] ELSE desArgs_t.values[d]]
        read == [f \in DOMAIN desArgs_t |-> IF f \in fields THEN opt[f] ELSE desArgs_t[f]]
    IN  verify([read EXCEPT !.values = values, !.simulations = @ % 2 ^ 16])
=============================================================================
