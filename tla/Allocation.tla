----------------------------- MODULE Allocation -----------------------------
(***************************************************************************)
(* How the ranks of MPI_COMM_WORLD are shared out: the communicators that  *)
(* des_main.cc splits off, and the simulation that the master gives each   *)
(* rank first.  Rank 0 is the master, simulations are numbered from 1.     *)
(***************************************************************************)
EXTENDS Integers, FiniteSets

CONSTANTS
    nodes,             \* the size of MPI_COMM_WORLD
    simulations,       \* desArgs_t::simulations
    lhs_optimal,       \* desArgs_t::lhs_optimal
    init_replications  \* desArgs_t::init_replications

ASSUME AllocationAssumption ==
    /\ nodes \in Nat \ {0} /\ simulations \in Nat \ {0}
    /\ init_replications \in Nat \ {0}
    /\ lhs_optimal \in BOOLEAN

Slaves == 1 .. nodes - 1

runs == IF lhs_optimal THEN 2 ^ simulations + 1 ELSE simulations

Sims == 1 .. runs

\* Both are boost::uint16_t.
simNodes  == (runs * init_replications) % 65536
freeNodes == (nodes - (simNodes + 1)) % 65536

\* What rank 0 verifies before it goes on.
EnoughNodes == simulations * init_replications + 1 <= nodes

\* Free nodes are dealt out to the simulations in turn: some full rounds, and
\* one more for the first simulations.
InitReplications ==
    [i \in Sims |-> init_replications + freeNodes \div runs
                     + (IF i <= freeNodes % runs THEN 1 ELSE 0)]

\* The ranks of the first i simulations, which is the sum of their initial
\* replications: jobs go to ranks in their order.
RanksUpTo(i) == i * (init_replications + freeNodes \div runs)
                + (IF i <= freeNodes % runs THEN i ELSE freeNodes % runs)

FirstJobs == RanksUpTo(runs)

FirstSim(rank) == CHOOSE i \in Sims : /\ RanksUpTo(i - 1) < rank
                                      /\ rank <= RanksUpTo(i)

\* Mutant: the ranks of a communicator are not consecutive.
colourInterleaved(rank) == ((rank - 1) % runs) + 1

colour(rank) ==
    IF freeNodes > 0 /\ rank >= simNodes
    THEN LET c == (rank - simNodes) % simulations IN IF c = 0 THEN runs ELSE c
    ELSE (rank - 1) \div init_replications + 1

Group(rank) == {r \in Slaves : colour(r) = colour(rank)}
==============================================================================
