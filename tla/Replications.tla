---------------------------- MODULE Replications ----------------------------
(***************************************************************************)
(* What the experiment promises, however it is spread over a cluster: the  *)
(* results of the replications of a simulation are counted one by one, at  *)
(* least Minimum of them, and once it is reported nothing is added to it.  *)
(***************************************************************************)
EXTENDS Naturals

CONSTANTS Simulations, \* the simulations of the experiment
          Minimum      \* the least number of replications

VARIABLES counted,     \* for each simulation, the results counted
          reported     \* the simulations that are reported

experiment == <<counted, reported>>

Count(s) == /\ s \notin reported
            /\ counted' = [counted EXCEPT ![s] = @ + 1]
            /\ \/ UNCHANGED reported
               \/ counted'[s] >= Minimum /\ reported' = reported \cup {s}

ExperimentSpec ==
    /\ counted = [s \in Simulations |-> 0] /\ reported = {}
    /\ [][\E s \in Simulations : Count(s)]_experiment
=============================================================================
