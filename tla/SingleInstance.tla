--------------------------- MODULE SingleInstance ---------------------------
(***************************************************************************)
(* The files the slaves of a cluster share: the graph of a simulation      *)
(* (graph_single) and the multifractal arrivals of the experiment          *)
(* (mfrw_single).  Before it simulates, every rank either finds the file   *)
(* or takes part in generating it, with the ranks of its communicator.     *)
(*                                                                         *)
(* The k-th collective a rank enters on its communicator is matched with   *)
(* the k-th of the others, and completes when all of them have entered it. *)
(* One of a different kind is never matched.                               *)
(***************************************************************************)
EXTENDS Allocation, Sequences

CONSTANTS
    graph_single, \* desArgs_t::graph_single
    mfrw_single,  \* desArgs_t::mfrw and mfrw_single
    SameBoosts,   \* whether all simulations have the same boosts of arrival
                  \* and edges, which name the file of the graph
    mfrw_exists,  \* whether the experiment adds to one that has left mfrw.dat
    MaxJobs       \* bound: how many jobs a rank is given

ASSUME SingleInstanceAssumption ==
    /\ graph_single \in BOOLEAN /\ mfrw_single \in BOOLEAN /\ SameBoosts \in BOOLEAN
    /\ mfrw_exists \in BOOLEAN /\ MaxJobs \in Nat

VARIABLES
    sim,     \* for each rank, the simulation of its job
    jobs,    \* for each rank, how many jobs it was given
    stage,   \* for each rank, the file it looks for: "graph" or "mfrw"
    step,    \* for each rank, where it is in the code of the stage
    entered, \* for each rank, the collectives it entered
    file,    \* for each file, whether it is "absent", "partial" or "complete"
    created, \* history: for each file, how often it was generated
    seen     \* history: the states of files that ranks have read

vars == <<sim, jobs, stage, step, entered, file, created, seen>>

Graphs == {<<"graph", s>> : s \in Sims}
Files == Graphs \cup {<<"mfrw", 0>>}

\* graph_dv<boost>_de<boost>.gml in the repository; mfrw.dat.
File(r) == IF stage[r] = "mfrw" THEN <<"mfrw", 0>>
           ELSE <<"graph", IF SameBoosts THEN 1 ELSE sim[r]>>

\* Mutant: every rank takes itself for the first of its group.
EveryoneMinRank(r) == r

minRank(r) == CHOOSE m \in Group(r) : \A q \in Group(r) : m <= q

\* The last collective that r entered is complete.
Completed(r) ==
    LET k == Len(entered[r])
    IN  \A q \in Group(r) : Len(entered[q]) >= k /\ entered[q][k] = entered[r][k]

Go(r, next) == step' = [step EXCEPT ![r] = next]
Enter(r, kind) ==
    entered' = [entered EXCEPT ![r] = Append(@, kind)]

\* What follows, once the stage of r is over.
Leave(r) ==
    IF stage[r] = "graph" /\ mfrw_single
    THEN stage' = [stage EXCEPT ![r] = "mfrw"] /\ Go(r, "check")
    ELSE UNCHANGED stage /\ Go(r, "idle")

-----------------------------------------------------------------------------
(* The stages of a job.                                                    *)

\* fs::exists, and the reduction that the rank enters if there is no file.
Check(r) ==
    /\ step[r] = "check"
    /\ IF file[File(r)] # "absent"
       THEN Go(r, "read") /\ UNCHANGED entered
       ELSE Go(r, "elect") /\ Enter(r, "allreduce")
    /\ UNCHANGED <<sim, jobs, stage, file, created, seen>>

\* The first rank opens the file for writing, the others go to the barrier.
Elected(r) ==
    /\ step[r] = "elect" /\ Completed(r)
    /\ IF r = minRank(r)
       THEN /\ Go(r, "generate")
            /\ file' = [file EXCEPT ![File(r)] = "partial"]
            /\ created' = [created EXCEPT ![File(r)] = @ + 1]
            /\ UNCHANGED entered
       ELSE /\ Go(r, "barrier") /\ Enter(r, "barrier")
            /\ UNCHANGED <<file, created>>
    /\ UNCHANGED <<sim, jobs, stage, seen>>

Generate(r) ==
    /\ step[r] = "generate"
    /\ file' = [file EXCEPT ![File(r)] = "complete"]
    /\ Go(r, "barrier") /\ Enter(r, "barrier")
    /\ UNCHANGED <<sim, jobs, stage, created, seen>>

\* Mutant: nobody waits for the file.
PassBarrierAtOnce(r) ==
    /\ step[r] = "barrier"
    /\ IF stage[r] = "mfrw" /\ r = minRank(r)
       THEN Leave(r)
       ELSE Go(r, "read") /\ UNCHANGED stage
    /\ UNCHANGED <<sim, jobs, entered, file, created, seen>>

\* The rank that generated the arrivals need not read them.
PassBarrier(r) ==
    /\ step[r] = "barrier" /\ Completed(r)
    /\ IF stage[r] = "mfrw" /\ r = minRank(r)
       THEN Leave(r)
       ELSE Go(r, "read") /\ UNCHANGED stage
    /\ UNCHANGED <<sim, jobs, entered, file, created, seen>>

Read(r) ==
    /\ step[r] = "read"
    /\ seen' = seen \cup {file[File(r)]}
    /\ Leave(r)
    /\ UNCHANGED <<sim, jobs, entered, file, created>>

Prepare(r) == Check(r) \/ Elected(r) \/ Generate(r) \/ PassBarrier(r) \/ Read(r)

-----------------------------------------------------------------------------
(* The jobs the master sends.                                              *)

\* The master starts another batch of a simulation when the first is over.
FirstBatchOver(s) == \A q \in Slaves : FirstSim(q) = s => jobs[q] > 1 \/ step[q] = "idle"

NextJob(r) ==
    /\ step[r] = "idle" /\ jobs[r] < MaxJobs
    /\ \E s \in Sims : FirstBatchOver(s) /\ sim' = [sim EXCEPT ![r] = s]
    /\ jobs' = [jobs EXCEPT ![r] = @ + 1]
    /\ stage' = [stage EXCEPT ![r] = IF graph_single THEN "graph" ELSE "mfrw"]
    /\ Go(r, "check")
    /\ UNCHANGED <<entered, file, created, seen>>

\* Graphs may be there from an earlier experiment.
Init ==
    /\ sim = [r \in Slaves |-> FirstSim(r)] /\ jobs = [r \in Slaves |-> 1]
    /\ stage = [r \in Slaves |-> IF graph_single THEN "graph" ELSE "mfrw"]
    /\ step = [r \in Slaves |-> "check"]
    /\ entered = [r \in Slaves |-> <<>>]
    /\ file \in [Files -> {"absent", "complete"}]
    /\ file[<<"mfrw", 0>>] = IF mfrw_exists THEN "complete" ELSE "absent"
    /\ created = [f \in Files |-> 0]
    /\ seen = {}

Idle == (\A r \in Slaves : step[r] = "idle") /\ UNCHANGED vars

Next == (\E r \in Slaves : Prepare(r) \/ NextJob(r)) \/ Idle

Spec == Init /\ [][Next]_vars

\* Every rank is a process of its own.
FairSpec == Spec /\ \A r \in Slaves : WF_vars(Prepare(r))

-----------------------------------------------------------------------------
(* Properties.                                                             *)

\* "wait for the graph to be serialised", "everyone in the group read the
\* graph": a file that is read is there and complete, even for a rank that finds
\* it without having taken part in generating it.
ReadsComplete == seen \subseteq {"complete"}

\* "generate only a single graph", "use only a single instance": a file is
\* generated once, so that every replication simulates the same.
GeneratedOnce == \A f \in Files : created[f] <= 1

\* Every job gets past the files it needs.
JobsBegin == \A r \in Slaves : step[r] = "check" ~> step[r] = "idle"
==============================================================================
