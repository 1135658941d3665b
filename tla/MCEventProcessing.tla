-------------------------- MODULE MCEventProcessing --------------------------
(* Small networks for TLC. *)
EXTENDS EventProcessing

\* Paths of three vertices, and a last vertex with two predecessors.
Fork  == {<<1, 2>>, <<2, 4>>, <<3, 4>>}
Chain == {<<1, 2>>}

MCInterval == [type \in PeriodicTypes |-> IF type = "LOG_GRAPH" THEN 2 ELSE 1]
==============================================================================
