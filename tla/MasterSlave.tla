----------------------------- MODULE MasterSlave -----------------------------
(***************************************************************************)
(* The experiment on a cluster: the master of SimulationMPI.hh hands       *)
(* replications to the slaves of Simulation.cc until every simulation is   *)
(* confident, and des_main.cc ends the slaves.                             *)
(*                                                                         *)
(* A message is delivered in the order in which its sender sent it to its  *)
(* receiver.  A result carries no figures: whether a simulation is         *)
(* confident is a choice.  A batch of MPI_Send calls is one step: no       *)
(* receive of the master lies between them.                                *)
(***************************************************************************)
EXTENDS Allocation, Sequences, SequencesExt

CONSTANTS
    lhs,          \* desArgs_t::lhs, which turns on confidence as well
    replications, \* desArgs_t::replications, the minimum
    already_run,  \* the number added to sim_num when simulations are added
    KILL_PILL,    \* the tag that ends a slave
    MaxReplicas   \* bound: a simulation with this many results is confident

ASSUME MasterAssumption ==
    /\ lhs \in BOOLEAN /\ replications \in Nat /\ already_run \in Nat
    /\ KILL_PILL \in Nat \ {0} /\ MaxReplicas \in Nat /\ MaxReplicas >= replications

\* A job is a record of its tag, sim_num and rep_num.  The message that carries
\* the kill pill is empty.
NoJob == [tag |-> KILL_PILL, sim_num |-> 0, rep_num |-> 0]

VARIABLES
    phase,       \* where rank 0 is
    inbox,       \* for each slave, the messages it has not received
    outbox,      \* for each slave, its results that are not received
    slave,       \* for each slave: "waiting" for a job, "running" or "dead"
    current,     \* for each slave, the job it runs
    jobs,        \* the tag of the next job
    idle,        \* idleNodes
    lazy,        \* lazyNodes
    simReplications,       \* by simulation, how many results are expected
    simActiveReplications, \* by simulation, the size of its last batch
    received,    \* by simulation, OnlineStats::getNumValues()
    significant, \* areExpsSignificant, as a set
    started      \* history: the replications handed out

listVars == <<jobs, idle, lazy, simReplications, simActiveReplications,
              significant, started>>
masterVars == <<listVars, received>>
vars == <<phase, inbox, outbox, slave, current, masterVars>>

-----------------------------------------------------------------------------
(* Rank 0.                                                                 *)

\* Sends the k-th message of a batch to the k-th rank of workers.
SendBatch(workers, batch) ==
    inbox' = [r \in Slaves |->
                LET mine == {k \in DOMAIN workers : workers[k] = r}
                IN  IF mine = {} THEN inbox[r]
                    ELSE Append(inbox[r], batch[CHOOSE k \in mine : TRUE])]

FirstJob(rank) ==
    [tag |-> rank, sim_num |-> FirstSim(rank) + already_run,
     rep_num |-> rank - RanksUpTo(FirstSim(rank) - 1)]

\* A job for a rank that does not exist ends the program.
FirstBatches ==
    /\ simReplications' = InitReplications
    /\ simActiveReplications' = InitReplications
    /\ IF FirstJobs < nodes
       THEN LET ranks == [k \in 1 .. FirstJobs |-> k]
                batch == [k \in 1 .. FirstJobs |-> FirstJob(k)]
            IN  /\ phase' = "collecting"
                /\ SendBatch(ranks, batch)
                /\ started' = {<<batch[k].sim_num, batch[k].rep_num>> : k \in DOMAIN batch}
                /\ jobs' = jobs + FirstJobs
       ELSE phase' = "unsent" /\ UNCHANGED <<inbox, jobs, started>>

\* Without enough nodes rank 0 aborts the program; without LHS it has no
\* experiment to run, and goes on to close the program.
Start ==
    /\ phase = "start"
    /\ IF EnoughNodes /\ lhs
       THEN FirstBatches
       ELSE /\ phase' = IF EnoughNodes THEN "closing" ELSE "aborted"
            /\ UNCHANGED <<inbox, jobs, started, simReplications, simActiveReplications>>
    /\ UNCHANGED <<outbox, slave, current, idle, lazy, received, significant>>

\* The n nodes that back() and pop_back() take, and the vector they leave.
Backs(seq, n) == Reverse(SubSeq(seq, Len(seq) - n + 1, Len(seq)))
PopBack(seq, n) == SubSeq(seq, 1, Len(seq) - n)

\* The standard library gives no meaning to back() of an empty vector, nor to
\* an index beyond the arrays.
Undefined == phase' = "undefined" /\ UNCHANGED <<inbox, listVars>>

\* Mutant: a batch is complete one result early.
CompleteEarly(i) == received[i] + 2 >= simReplications[i]

\* Mutant: a batch is complete one result late.
CompleteLate(i) == received[i] >= simReplications[i]

Complete(i) == received[i] + 1 >= simReplications[i]

\* A batch of k jobs, numbered on from the replication rep: as many idle nodes
\* as the lazy ones leave over, then the lazy nodes.
SendJobs(i, rep, idleNow, k) ==
    LET fromIdle == k - Len(lazy)
        workers  == Backs(idleNow, fromIdle) \o Reverse(lazy)
        batch == [n \in 1 .. k |->
                    [tag |-> jobs + n - 1, sim_num |-> i, rep_num |-> rep + n]]
    IN  /\ SendBatch(workers, batch)
        /\ idle' = PopBack(idleNow, fromIdle)
        /\ simActiveReplications' = [simActiveReplications EXCEPT ![i] = k]
        /\ simReplications' = [simReplications EXCEPT ![i] = @ + k]
        /\ jobs' = jobs + k
        /\ started' = started \cup {<<i, batch[n].rep_num>> : n \in 1 .. k}

\* Mutant: the lazy nodes stay lazy.
MoreJobsKeepsLazy(i, idleNow, k) ==
    SendJobs(i, received[i] + 1, idleNow, k) /\ UNCHANGED lazy

\* Mutant: the result that completed the batch is not counted.
MoreJobsRenumbered(i, idleNow, k) ==
    SendJobs(i, received[i], idleNow, k) /\ lazy' = <<>>

MoreJobs(i, idleNow, k) ==
    SendJobs(i, received[i] + 1, idleNow, k) /\ lazy' = <<>>

\* Mutant: the lazy nodes are not counted.
BatchSizeWithoutLazy(i, idleNow) == simActiveReplications[i]

BatchSize(i, idleNow) ==
    IF InitReplications[i] > Len(idleNow) THEN Len(idleNow)
    ELSE simActiveReplications[i] + Len(lazy)

\* The comparison with the unsigned lazyNodes.size() wraps below zero.
NotConfident(i, idleNow) ==
    LET k == BatchSize(i, idleNow)
    IN  /\ received[i] + 1 < MaxReplicas
        /\ UNCHANGED significant
        /\ IF k - Len(lazy) \in 0 .. Len(idleNow)
           THEN MoreJobs(i, idleNow, k) /\ UNCHANGED phase
           ELSE Undefined

\* Mutant: a minimum of replications is not required.
ConfidentAtOnce(i, idleNow) ==
    LET k == simActiveReplications[i]
    IN  /\ significant' = significant \cup {i}
        /\ idle' = PopBack(idleNow, k) /\ lazy' = lazy \o Backs(idleNow, k)
        /\ UNCHANGED <<phase, inbox, jobs, simReplications, simActiveReplications, started>>

\* The nodes of the last batch turn lazy.
Confident(i, idleNow) ==
    LET k == simActiveReplications[i]
    IN  /\ received[i] + 1 >= replications
        /\ IF k <= Len(idleNow)
           THEN /\ significant' = significant \cup {i}
                /\ idle' = PopBack(idleNow, k) /\ lazy' = lazy \o Backs(idleNow, k)
                /\ UNCHANGED <<phase, inbox, jobs, simReplications,
                               simActiveReplications, started>>
           ELSE Undefined

\* Mutant: one confident simulation is enough.
AnySignificant == significant # {}

AllSignificant == significant = Sims

\* A result from rank r.
Receive(r) ==
    /\ phase = "collecting" /\ ~ AllSignificant
    /\ outbox[r] # <<>>
    /\ outbox' = [outbox EXCEPT ![r] = Tail(@)]
    /\ UNCHANGED <<slave, current>>
    /\ LET i == Head(outbox[r]).sim_num
           idleNow == Append(idle, r)
       IN  IF i \notin Sims
           THEN Undefined /\ UNCHANGED received
           ELSE /\ received' = [received EXCEPT ![i] = @ + 1]
                /\ IF Complete(i)
                   THEN NotConfident(i, idleNow) \/ Confident(i, idleNow)
                   ELSE /\ idle' = idleNow
                        /\ UNCHANGED <<phase, inbox, jobs, lazy, simReplications,
                                       simActiveReplications, significant, started>>

Kill ==
    /\ phase = "collecting" /\ AllSignificant
    /\ phase' = "closing"
    /\ inbox' = [r \in Slaves |-> Append(inbox[r], NoJob)]
    /\ UNCHANGED <<outbox, slave, current, masterVars>>

\* Closing the shared seed file and MPI_Finalize involve every rank.
Close ==
    /\ phase = "closing"
    /\ \A r \in Slaves : slave[r] = "dead"
    /\ phase' = "done"
    /\ UNCHANGED <<inbox, outbox, slave, current, masterVars>>

Master == Start \/ (\E r \in Slaves : Receive(r)) \/ Kill \/ Close

-----------------------------------------------------------------------------
(* A slave.                                                                *)

Alive == phase \notin {"aborted", "unsent"}   \* MPI_Abort ends every rank

TakeJob(r) ==
    /\ slave[r] = "waiting" /\ inbox[r] # <<>>
    /\ inbox' = [inbox EXCEPT ![r] = Tail(@)]
    /\ IF Head(inbox[r]).tag = KILL_PILL
       THEN slave' = [slave EXCEPT ![r] = "dead"] /\ UNCHANGED current
       ELSE /\ slave' = [slave EXCEPT ![r] = "running"]
            /\ current' = [current EXCEPT ![r] = Head(inbox[r])]
    /\ UNCHANGED <<phase, outbox, masterVars>>

\* The simulation ends and its result is sent with the tag of the job.
SendResult(r) ==
    /\ slave[r] = "running"
    /\ slave' = [slave EXCEPT ![r] = "waiting"]
    /\ outbox' = [outbox EXCEPT ![r] = Append(@, current[r])]
    /\ current' = [current EXCEPT ![r] = NoJob]
    /\ UNCHANGED <<phase, inbox, masterVars>>

Slave(r) == Alive /\ (TakeJob(r) \/ SendResult(r))

-----------------------------------------------------------------------------
Init ==
    /\ phase = "start"
    /\ inbox = [r \in Slaves |-> <<>>] /\ outbox = [r \in Slaves |-> <<>>]
    /\ slave = [r \in Slaves |-> "waiting"]
    /\ current = [r \in Slaves |-> NoJob]
    /\ jobs = 1 /\ idle = <<>> /\ lazy = <<>>
    /\ simReplications = [i \in Sims |-> init_replications]
    /\ simActiveReplications = [i \in Sims |-> init_replications]
    /\ received = [i \in Sims |-> 0]
    /\ significant = {} /\ started = {}

Ended == phase \in {"done", "aborted", "unsent", "undefined"} /\ UNCHANGED vars

Next == Master \/ (\E r \in Slaves : Slave(r)) \/ Ended

Spec == Init /\ [][Next]_vars

\* Every rank is a process of its own, and a simulation ends.
FairSpec == Spec /\ WF_vars(Master) /\ \A r \in Slaves : WF_vars(Slave(r))

-----------------------------------------------------------------------------
(* Properties.                                                             *)

\* What rank r has to do or to deliver.
Work(r) == inbox[r] \o (IF slave[r] = "running" THEN <<current[r]>> ELSE <<>>) \o outbox[r]

\* The master keeps every node that has no work in one of its two lists, once:
\* the batches it takes from the lists neither lose a node nor give one two jobs.
NodeBooks ==
    phase = "collecting" =>
        /\ IsInjective(idle \o lazy)
        /\ \A r \in Slaves :
             Len(Work(r)) = IF r \in ToSet(idle \o lazy) THEN 0 ELSE 1

\* What is expected of a simulation and not received is under way, and a
\* simulation is reported only when nothing of it is: its last batch is over.
BatchBooks ==
    phase = "collecting" =>
        /\ \A i \in Sims :
             simReplications[i] - received[i] =
                 Cardinality({r \in Slaves : Work(r) # <<>> /\ Work(r)[1].sim_num = i})
        /\ \A i \in significant : received[i] = simReplications[i]

\* The results of a replication go to the directory of its numbers: no two jobs
\* have the same.
ReplicaOnce == Cardinality(started) = jobs - 1

\* The master takes no node from an empty list, its arrays have an entry for
\* every result, and every job has a rank to go to.
NeverUndefined == phase \notin {"undefined", "unsent"}

\* "kill yourself, if job's done": no slave ends while the master still has
\* results to collect, and no result is left behind.
KilledWhenDone ==
    /\ (\E r \in Slaves : slave[r] = "dead") => phase \in {"closing", "done"}
    /\ phase = "done" => \A r \in Slaves : outbox[r] = <<>>

\* Each result is counted for its simulation, and none after it is reported.
Experiment == INSTANCE Replications WITH
                Simulations <- Sims, Minimum <- replications,
                counted <- received, reported <- significant
ExperimentSpec == Experiment!ExperimentSpec

\* Every rank ends.
Finishes == <>(phase = "done")
==============================================================================
