----------------------- MODULE MCNetworkEvolution -----------------------
(* Command lines of wevonet for TLC. *)
EXTENDS NetworkEvolution

MCMaxOutdegree == 99

Plan(gen, size, max, fixed, arrivals, features, format) ==
    [generator |-> gen, size |-> size, max_edges |-> max, edge_fixed |-> fixed,
     arrivals |-> arrivals, features |-> features, format |-> format]

MCPlans ==
    {Plan(1, 4, MCMaxOutdegree, -1, {12, 24}, TRUE, "GRAPHML"),
     Plan(1, 4, 2, -1, {12, 24}, TRUE, "GRAPHVIZ"),
     Plan(1, 3, 2, 2, {12, 24}, FALSE, "GRAPHML"),
     Plan(2, 3, MCMaxOutdegree, -1, {12, 24}, TRUE, "GRAPHML"),
     Plan(2, 4, 6, -1, {12}, TRUE, "GRAPHML")}

\* Vertices lie in memory in the order they were made, or in the opposite order.
MCAddresses == UNION {{[u \in 0 .. n - 1 |-> u], [u \in 0 .. n - 1 |-> n - u]} : n \in {3, 4}}
=============================================================================
