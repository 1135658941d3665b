# A verification project for rl-aqs

rl-aqs simulates adaptive queuing networks: jobs travel through an acyclic
network of first-come-first-served servers, the way they take at each server is
chosen at random or learned, and an acknowledgement travels back along it. An
experiment repeats a simulation until its figures are confident, alone or on a
cluster with MPI. This directory holds TLA+ modules of that program, the TLC
configurations that check them, and proofs for TLAPS. Paths below are relative
to `src/src/` of the repository.

## The system

| Component (sources) | State | Operations | Interacts with |
|---|---|---|---|
| Ladder queue (`common/queue`) | Top (unsorted epoch), Ladder (rungs of buckets, `m_RCur`, `m_RStart`, `m_currentBucket`, hand-kept counters), Bottom (sorted list, last event) | `push`, `dequeue`; inside: new epoch, spawn a rung, push Bottom back, advance the dequeue bucket | called by the loop and every handler that schedules |
| Event entries (`common/list`) | times, origin, destination, type, history stack, `Entry::uid` | copy, `delayed`, `service`, `depart`, `acknowledge`, `leave`, push and pop of the history | made by handlers, owned by the queue |
| Event loop (`core/event/EventProcessor`, events, `design/pattern`) | `m_oldTime`, the queue | `process`: dequeue, correct the time, dispatch, stop | calls the handlers synchronously, in the order they were attached in `core/main/Simulation.cc` |
| Job handlers (Arrival, Departure, Ack, Leave, GenerateArrivals, Utilisation, ExpectedAverageEventInQueue, LastEvent, NumEvents) | vertex properties: busy, number in queue, end of service, time integrals | one `update` per event | share the vertex properties of the graph, push into the queue |
| Admin and post handlers (GenerateArrivalsAdmin, SerialiseArrivals, LogGraph, RollingSystemStatsAdmin, Null/UnprocessedEvents, SystemStatistics) | counters of the periodic events | schedule themselves, log, drop what is left | queue, files |
| Response handlers (RL, FullRL, HybridFullRL, Default, Expert*, ResponseStats, CognitiveValue, CoefficientVariation) | Q-values and rewards on edges and vertices | `update(AckEvent)` | read the history of the entry before AckHandler pops it; look up edges |
| Policies and selection (`core/rl`) | weights per edge | choose a successor, learn | called by DepartureHandler and the response handlers |
| Master (`core/main/includes/SimulationMPI.hh`, `des_main.cc`) | idle and lazy nodes, expected and received results, next tag | first jobs, receive, batches, kill pills | messages with each slave |
| Slave (`core/main/Simulation.cc`) | the parameters of its job | receive, simulate, send; shared graph and arrival files | messages with the master, collectives on its communicator, files |
| Sequential experiments (`SimulationCI`, `SimulationLHS`) | running means | repeat until confident, for each row of the design | call the slave's simulation directly |
| Network evolution (`network/evolution`) | the graph | grow, remove cycles, assign strengths | provides the network before the loop starts |
| Neural networks (`nnet`) | weights | forward, gradients, conjugate gradient | used by FullRL and HybridFullRL |
| Sampling (`sampling`), statistics, `utils/simplex` | streams, seeds, means | seeds per rank, latin hypercubes, arrivals, confidence | used everywhere |
| Bus, command line, results, reports, date, tools | — | wiring and output | — |

What is hard, and where:

- *Ordering.* The loop relies on the queue to return times that never decrease,
  and corrects those that do "by epsilon". The queue sorts lazily in three
  tiers, each with its own idea of the present.
- *Long protocols.* A job is one entry at a time, copied by four handlers, whose
  origin, destination and history must fit the handler that reads them next.
- *Bookkeeping on two sides of a queue.* `busy`, `number_in_queue` and
  `time_service_ends` are changed by the arrival now and the departure later.
- *Interleaving of results.* The master takes results in any order and deals
  out nodes from shared vectors without asking whether there are any.
- *Check, then act, on files* that ranks of several communicators share, next to
  collectives that every rank of a communicator must enter.
- *Failure.* An exception in a handler ends the loop half-way; nothing is
  persisted that the program would recover from, except graphs and arrivals.

What makes each component correct:

| Component | Properties |
|---|---|
| Ladder queue | never loses, repeats or invents an entry; counters and bucket indices fit the lists; tiers are epochs in order; entries leave in time order |
| Job handlers | each server is first come, first served; its books agree with the scheduled departures; the time integrals are exact |
| Entries | a job is in the queue once; what it has behind it is a walk of the network that the acknowledgement can take back; it leaves where it came in |
| Event loop | nothing is scheduled into the past; it ends; arrivals neither dry up nor double |
| Master and slaves | no node is lost or works twice; results are counted once and for the right batch; replications have distinct numbers; slaves end after the last result; the program ends |
| Shared files | generated once, read when complete; nobody waits for ever |
| Responses, policies | the value of an edge is what the jobs over it took; networks are trained with the state whose reward was observed; the weights of a vertex stay a distribution, its emotions in the range of what was felt |
| Neural networks | the gradient has, in every weight, the direction in which the error falls |
| Network evolution | no cycle is left; service rates match the traffic; edges are numbered without a gap; features fit |
| Experiments, designs | every stratum of every dimension is simulated once, under the conditions the design says, by either build; a line of the results tells what was run, also after an interruption |

## The modules

| Module | Models | Correspondence |
|---|---|---|
| `Bottom` | `Bottom.cc`, `Entry::operator<` | operators on a list: `Insert`, `SortList` |
| `LadderQueue` | `LadderQueue.cc`, `Ladder.cc`, `Top.cc`, `Bottom.cc` | variables are the members of the three classes; `Push…` and `Dequeue…` are the branches of `push` and `dequeue`, each with everything it calls; the methods of `Ladder` are operators from a ladder to a ladder |
| `EventPool` | the abstract promise of a scheduler | a set that is added to and removed from |
| `EventProcessing` | `EventProcessor::process`, all handlers of jobs and admin events, `Entry` | one step is one iteration of the loop; one action per event type; `Served`, `Departed`, `Acknowledged`, `Leaving` are the methods of `Entry`; `Utilisation`, `EventInQueue` and `LastEvent` are the handlers of the postAny event, `PostAny` their chain |
| `FifoServers` | the abstract promise of the network | one line per server |
| `Allocation` | the split of the ranks in `des_main.cc` and the allocation in `SimulationMPI.hh` | operators named after the variables of the code; 16-bit values wrap |
| `MasterSlave` | the loop of the master, the loop of a slave, kill pills, the end of `main` | `inbox` and `outbox` are the channels; `Receive` is an iteration of the master's loop; `TakeJob` and `SendResult` are the two ends of a slave's |
| `Replications` | the abstract promise of an experiment | counted and reported results |
| `SingleInstance` | `Simulation.cc`: `graph_single` and `mfrw_single` | `Check`, `Elected`, `Generate`, `PassBarrier`, `Read` are the steps of a rank between two points where others can interfere |
| `Learning` | `core/event/*ResponseHandler.cc`, `ResponseStats`, `Expert*`, `CoefficientVariation`; `core/rl` | `Enter`, `Depart`, `Ack` and `Tick` are an arrival, a departure, an acknowledgement with all its handlers, and time; an operator from a state to the states it may leave per handler (`RLResponse`, `FullRLResponse`, `HybridFullRLResponse`, …) and per policy |
| `NeuralNetwork` | `nnet` | a network is a record; `Present`, `Gradient`, `Train` are its methods |
| `Simplex` | `Simplex.cc`, `Vector.cc` | `projectionDuchi` is the set of its results over all draws |
| `Quotients` | — | the numbers `Learning`, `Simplex` and `Experiments` compute with |
| `NetworkEvolution` | `WEvonet.cc`, `enduce_strength.hh`, `epidemic_visit.hh`, `GraphUtil.cc`, `DirectedGraph.hh`, `wevonet_main.cc` | `Advance` and `Grown` are the growth; `VisitRoot`, `ExamineEdge`, `FinishVertex` the depth-first searches; `RemoveCycles`, `Sorted`, `BalanceNext`, `Spread`, `Balanced` what is done with them; `EstablishFeature`, `PrintGraph`, `ReadGraph` the rest |
| `CommandLine` | `CL.cc`, `clconfig.hh` | `opt_desc` are the defaults of the options, `desArgs_t` those of the arguments, `parse` and `verify` the functions |
| `LatinHypercube` | `LHS.cc` | the operators are its functions; `Plain` and `Optimal` are sets of samples over all draws |
| `Experiments` | `SimulationLHS.hh`, `SimulationCI.hh`, `LhsUtils.cc`, `des_main.cc` without MPI, `Seeds.cc`; `SimulationMPI::assignParams` | a step is what happens between two points at which the program may be interrupted; `dirs`, `designDat` and `simulations` are files and survive it |
| `EventProcessing_proofs` | — | theorems about `EventProcessing`: types, servers, histories and entries; then times |
| `LadderQueue_proofs` | — | theorems about `LadderQueue` |
| `Allocation_proofs` | — | lemmas about `Allocation`, shared by the next two |
| `MasterSlave_proofs` | — | theorems about `MasterSlave` |
| `SingleInstance_proofs` | — | theorems about `SingleInstance` |
| `Experiments_proofs` | — | theorems about `Experiments` |
| `NetworkEvolution_proofs` | — | theorems about `NetworkEvolution` |
| `Learning_proofs` | — | theorems about `Learning` |
| `MC…` | — | instances for TLC |

How they compose: `LadderQueue` extends `Bottom` and implements `EventPool`.
`EventProcessing` uses the queue through what `LadderQueue` grants: `EventPool`,
and time order except for `MaxMisorders` dequeues (0 is what the loop expects;
`queue_out_of_order` is why the other case exists). `Learning` is the same walk
of jobs and acknowledgements seen from the responses: servers are plain lines
and the event queue is left to `EventProcessing`; it extends `Simplex` and
`NeuralNetwork`. `NetworkEvolution` makes the networks these two take as given.
`MasterSlave` and `SingleInstance` share `Allocation`; a run of the event loop
is the `running` state of a slave and one `Replicate` or `Single` of
`Experiments`, which extends `CommandLine` and `LatinHypercube`. `MasterSlave`
and `Experiments` implement the same `Replications`: the two builds promise the
same. Definitions marked *Mutant*, or described by what they get wrong, stand
beside the definition they distort; the model never uses them.

Abstractions. Times are integers: in `LadderQueue` in units of 1/840, so that
every division of the instances is exact, in `EventProcessing` so coarse that
epsilon is zero. The lists of Top and the buckets are sets, as their order is
lost when Bottom sorts them. The build is the one with `NDEBUG`; the assertions
of the other build are stated as properties where they say something
(`NoPastSchedule`, `Accounting`). Service times and gaps come
from small sets; in `EventProcessing` a selection is any successor, and means of
delays and rewards, files and figures are left out. In `Learning` values and
weights are exact quotients, a tick is the unit of time, an exponential decay is
a halving per tick, Boltzmann's probabilities are a free choice, and networks
compute integers. The handlers only create `createNNet<HTangent, Identity>`: the
activation of a hidden neuron is that of `HTangent.hh`, rounded to thirds
(`Unit`) and of a sum measured in units of ln 2, so that its exponentials are
powers of two; its derivative is rounded likewise, but for the tail, which
stays above zero; weights are rounded to integers when they are changed; output
neurons use `Identity.hh`. The learning rate is one, and a line search is a
choice of a rate, with what it leaves in the neurons. Four of the sixty state representations stand for those
that look at the source, at the target and at the expert metrics. In
`NetworkEvolution` rates are multiples of what weights divide, and a draw is a
choice: any number of links, any place in the order of rates, any order of equal
rates, any graph. In `Experiments` a sample lies at a whole number of quarters
of its stratum, and an interval with a finite quantile may or may not be
confident. A batch of `MPI_Send` calls is one step: the
sender receives nothing in between, and a message arrives in the order in which
its sender sent it. A collective with unlike ones on the other ranks never
completes, which is one of the outcomes MPI leaves open. `back()` of an empty
vector, and an index beyond an array, lead to a phase `undefined` with no way on.

## The runs

| Run | Bounds | Shows |
|---|---|---|
| `queue` | 3 times, 8 pushes, 2 rungs, threshold 2 (655,312 states) | `Accounting`: the counters kept by hand agree with the lists and no entry lies behind a dequeue bucket, so that the unbounded scan stays in the array. `EpochSeparation`: Top is later than the rest. `BottomSorted`: ties leave in order of creation. `OrderedUntilPushBack`: time order, and no past entry accepted, before the first push-back. `PoolSpec`: refinement of `EventPool` |
| `queue_out_of_order` | 3 rungs, a client that never schedules into the past | finding: after a push-back a later entry leaves before an earlier one |
| `servers` | 4 vertices with paths of three and a shared sink, all admin events, collective intelligence, stop time 4 | the properties of jobs and of the loop listed above; `FifoSpec` refines `FifoServers`; `Termination` |
| `servers_misordered` | 2 vertices, 2 misordered dequeues | the run in which the queue refuses a departure (`Refuse`). `ServerBooks`: `busy` and `number_in_queue` count the scheduled departures, and when the loop has failed one server, and no other, counts on one that never comes. `BusyTimeExact`: the time integral of the busy server survives the correction of time, and the exception, although that skips the handler which counts the time |
| `servers_queue_time` | 2 vertices | finding: the integral of the waiting line counts a job too many at the end of a busy period |
| `cluster` | 4 slaves, 3 simulations, one free node, at most 3 results each (230,506 states) | `NodeBooks`, `BatchBooks`, `ReplicaOnce`, `NeverUndefined`, `KilledWhenDone`; `ExperimentSpec` refines `Replications`; `Finishes` |
| `single_instance` | 2 communicators of 2 ranks, 2 jobs each, each graph there or not, the arrivals there (81,284 states) | `ReadsComplete`, `GeneratedOnce`, `JobsBegin` |
| `single_mfrw_hangs` | the same, one job each, arrivals to be generated | finding: the ranks of a communicator take different branches and wait for ever |
| `evolution` | growth to 3 and 4 vertices with and without a limit of links, with a fixed weight; every random graph of 3 vertices, and of 4 with at most 6 edges; two orders in memory | `CyclesRemoved`: no cycle is left and the sort does not throw. `StrengthIsFlow`: the service rate is the traffic over all paths from all vertices. `EdgesNumbered`: indices are 0 to n - 1. `ChoiceIsCommon`: the choice of a vertex is a feature of its one or two successors |
| `learning` | 2 jobs, 3 ticks, servers with 3, 2, 1 and no successors, 12 configurations | `TrainedOnOwnState`, `ValueIsMeanDelay`, `WeightsAreDistribution`, `EmotionBounded`, `GradientIsDescent` (see the table above) |
| `hybrid_warmup` | the same, the hybrid handler | finding: the warm-up is as long as a variable that nothing initialises says |
| `experiments` | 8 command lines, 2 invocations, 3 replications, 150 seeds, up to 18 simulations; plain designs of 2 rows, optimal ones of 5 and 9 | `DesignIsLatin`: one simulation per stratum, and columns that do not correlate. `ConditionsFromDesign`: each dimension is simulated in each stratum and nowhere else, and design.dat names the columns rightly. `ClusterSendsTheSame`: the copy of that code in `SimulationMPI` agrees. `LineTellsRuns`: a line of simulations.dat counts the runs in its directory, under its conditions, also after interruptions. `ExperimentSpec` refines `Replications` |

Why the bounds are enough. With threshold 2 the third entry of a bucket spawns
a rung and the third entry in Bottom pushes it back; 8 entries fill Top while
two rungs and Bottom hold entries, with a push-back that fails since no rung is
left. Three times give equal, adjacent and distant entries, and more than one
bucket. In `servers` a job passes three servers, a server has a line, a vertex
has two predecessors (so that 1-hop acknowledgements occur), services of length
zero give events at one time, and every admin event renews itself and stops. In
`cluster` one simulation has two initial replications (the free node) and the
others one, so lazy nodes are taken over by simulations with smaller and larger
batches, and there is more than one batch for each. In `single_instance` a
communicator may start its second job while the other one still generates. In
`evolution` the random graphs hold cycles of two, three and four edges that
overlap, and the order in memory decides which edge closes a cycle; four
vertices give two paths of different length to one vertex, so that strength
comes in portions. In `learning` the second job is served while the first is
acknowledged, values differ when a policy weighs them, the projection has
three, two and one pivots to draw, and 1-hop acknowledgements reach servers the
job never passed. In `experiments` the optimal design of nine rows is the first
whose columns are products, 14 dimensions are indexed with none, one, two and
four varying, seeds run out in the second row of a design, and an interruption
falls between any two steps of the first invocation. The last invocation is not
interrupted, as nothing would see it.

What `experiments` assumes of the options: a design varies one dimension at
least (without one, `SimulationLHS` reads a sample nothing initialised), has two
rows or more and, if optimal, an exponent below 9 (from there on the 16-bit
counter of `LHS.cc:130` never reaches its end); `add_sim` comes with replications
or a design (a single simulation would write to directory 1/1 again).

Fairness. `process()` is a thread that runs until it returns: weak fairness of
`Running`. Each rank is an operating-system process, and a simulation ends
(`Termination`): weak fairness of the master and of each slave, and of the
steps of a rank up to the simulation. Receiving a particular message first, the
confidence of a simulation and a further job are not fair. `MaxReplicas` stands
for the fact that a simulation is confident some day, which the statistics make
probable and the code does not guarantee.

Bounds that are not in the code: `MaxPushes` (entries), `MaxMisorders`
(misordered dequeues), `MaxReplicas` (results of a simulation), `MaxJobs` (jobs
of a rank, in `Learning` jobs of a simulation), `MaxTime` (ticks), `MaxWeight`
(weights of a network, beyond which it is not trained again),
`MaxInvocations`, `MaxReplications`, `MaxSimulations` (of an experiment).

`NetworkEvolution`, `Learning` and `Experiments` state no fairness: their
properties say what a step or a state may never be.

## Findings

- `queue_out_of_order`: `Ladder.cc:682` starts the rung of a push-back where the
  rung above is, not at the earliest entry pushed back.
- `servers_queue_time`: `ExpectedAverageEventInQueueHandler.cc:95` adds one to
  the line before every departure, even if nobody waited.
- `single_mfrw_hangs`: `Simulation.cc:485` asks rank by rank whether `mfrw.dat`
  exists, a file that all communicators share.
- `hybrid_warmup`: `m_randomIter` of the hybrid handler is never initialised,
  and the option `rl_hybrid_warmup` is read nowhere.

Other disagreements the modules show when their constants are changed; the
project keeps no run for them:

- `MasterSlave` with `already_run = 1` (option `add_sim`) violates
  `NeverUndefined`: simulation numbers index arrays that are too short.
- `MasterSlave` with `lhs_optimal = TRUE`, `simulations = 1` and three nodes
  violates `NeverUndefined`: the check at `des_main.cc:236` counts
  `simulations`, not the `2^simulations + 1` runs, and `freeNodes` wraps around.
- `MasterSlave` with a small `KILL_PILL` violates `KilledWhenDone`: the tag of
  job 65,535 is the kill pill.
- `MasterSlave` with `lhs = FALSE` violates `Finishes`: rank 0 sends no kill pill.
- `SingleInstance` with `mfrw_exists = FALSE` violates `GeneratedOnce` and
  `ReadsComplete` as well: of the shared arrivals `single_instance`, where they
  are there already, says nothing, and `single_mfrw_hangs` only what goes wrong.
- `SingleInstance` with 5 slaves for 2 simulations of 2 violates
  `ReadsComplete`: the colour of a free node (`des_main.cc:220`) is not the
  simulation the master gives its rank.
- `Ladder::bucket` documents `floor((ts - Rstart) / bucketwidth)`
  (`Ladder.hh:187`); its last correction, `Ladder.cc:209`, puts every entry into
  the current dequeue bucket. Order survives, since Bottom sorts.
- After a push-back the ladder accepts entries earlier than the last dequeued
  one, which `tests/common/queue/LadderQueueTest.cc` expects to be refused.
- `ResponseStatsHandler.cc:79` subtracts the later time from the earlier one: the
  mean of rewards stays 0, and so does what `ExpertPositive` and
  `ExpertNegative` expect at a vertex where jobs leave.
- The hybrid handler trains its network during the warm-up with inputs of
  whichever edge was presented last: `TrainedOnOwnState` without its exception
  is violated. With outsourced networks two vertices whose only successor is the
  same share its mean, which `ValueIsMeanDelay` excludes.
- `Simplex.cc:50` splits by index where the paper it cites compares components
  (`Simplex.hh:54`): the result depends on the pivots, though after
  `Normalised` it is a distribution. The learners of `core/rl` need that step.
- `ConjugateGradient.hh` starts each line search from the last rate: once it is
  zero it stays zero, and the network is not trained any more.
- `HTangent.hh:29` activates with tanh(x/2) and `HTangent.hh:35` differentiates
  tanh(x): what hidden neurons pass back is not the gradient of the error. Both
  derivatives are positive, so that it has its direction in every weight, and
  that is what `GradientIsDescent` states; a property that compared the sizes
  would be violated. No document or test says what the size should be.
- `BoltzmannPolicy.cc:127` takes the logarithm of minus a value: a value that is
  positive, which a network may predict, has none.
- `RLStateHelper` starts a maximum of rewards, which are negative, at
  `std::numeric_limits<double>::min()`, a small positive number.
- `CognitiveValueHandler` is built and never attached (`Simulation.cc:644`).
- `establishFeatures` never empties `t2` (`WEvonet.cc:786`): with three or more
  successors the choice need not be common, although the comment at
  `WEvonet.cc:760` asks for the intersection.
- `StrengthIsFlow` fails if a vertex has no external arrivals:
  `enduce_strength.hh:84` takes a strength of zero for the root of the visit.
- `GraphUtil` reads nothing from a dot file: the call is commented out.
- `LHS.cc` never hands the transposed levels to `matrixM` and measures distances
  between columns, not between simulations: the optimisation has no effect
  within a round.
- With `cognitive_A_pos` varying and `cognitive_r_neg` not, or the reverse,
  `SimulationMPI.hh:238` sets a range at an index that is not there, or leaves
  it at zero: `ClusterSendsTheSame` excludes it. `SimulationLHS` rounds counts
  to 16 bits, `SimulationMPI` to 32.
- `--lhs` alone switches confidence on (`CL.cc:917`) after the options of
  confidence were skipped: `alpha` is 0, so that no simulation is ever
  confident.
- With `add_sim` the file of seeds is read from its start again: added
  simulations repeat the streams of the first ones.
- `rl_policy_wpl_eta` is declared twice among the options (`CL.cc:210`, `:215`).

## The proofs

Each theorem holds for every value of the constants that its assumptions allow.
The assumptions of the modules (`LadderAssumption`, `NetworkAssumption`,
`ConfigAssumption`, `AllocationAssumption`, `MasterAssumption`,
`SingleInstanceAssumption`, `BoundsAssumption`, `PlansAssumption`,
`RatesAssumption`) only give the ranges of the parameters, and
`OptionsAssumption` says which command lines are meant: those that ask for a
design that can be made. `AddressesAssumption` of `NetworkEvolution` says that no
two vertices lie at one address, which is what memory gives. `NetworkAssumption`
of `Learning` asks for edges that join different vertices, as the acyclic
networks the simulator is given do, and for no two that join the same, as
`Graph` keeps them in a set (`DirectedGraph.hh:585`); `NetsAssumption` is
what `FullRLResponseHandler.cc:108` makes of it: a network has an input for every
feature of the state, and the four representations have one feature each, and
one output. `ConfigsAssumption` takes the options of the learners for quotients,
which doubles are, and `TrainingAssumption` the momentum for an integer, as the
weights are. A theorem that needs more names it.
`NumbersAssumption` of `Experiments` makes the bound on the numbers of
simulations as large as all designs together. `ExactWidths` of `LadderQueue` is
a matter of the model: it says that the unit of time is fine enough for every
width to be an integer, where the code divides doubles. Every set of times meets
it once multiplied far enough. The other conditions are the other side of a
finding above.

| Theorem | States | Further assumption |
|---|---|---|
| `QueueInvHolds` | `Spec => []QueueInv`, the inductive invariant of the ladder queue | `ExactWidths` |
| `AccountingHolds`, `EpochSeparationHolds`, `BottomSortedHolds` | `Spec => []` the property | the same |
| `PoolSpecHolds` | `Spec => PoolSpec`: the ladder queue implements `EventPool` | the same |
| `OrderedUntilPushBackHolds` | `Spec => OrderedUntilPushBack` | the same |
| `TypeCorrect`, `ServerBooksHold` | `Spec => []TypeOK`, `[]ServerBooks`, the latter also of a loop that has failed | — |
| `HistoryIsWalkHolds`, `AckFromSuccessorHolds`, `LeavesWhereItEnteredHolds`, `OneEntryPerJobHolds`, `OneArrivalAheadHolds` | `Spec => []` the property | — |
| `BusyTimeExactHolds` | `Spec => []BusyTimeExact`, while the loop runs, when it has failed and when it is done | — |
| `NoPastScheduleHolds`, `FifoSpecHolds` | `Spec => []NoPastSchedule`, `Spec => FifoSpec` | `MaxMisorders = 0`: the queue returns entries in order, which `queue_out_of_order` shows it does not always do |
| `ClusterCountsOnce` | `Spec => ExperimentSpec` | `already_run = 0` (no `add_sim`) |
| `ReplicaOnceHolds` | `Spec => []ReplicaOnce` | the same |
| `NeverUndefinedHolds` | `Spec => []NeverUndefined` | the same, and `Fits`: 16 bits count the nodes, and the nodes that rank 0 verifies are enough for all runs |
| `BatchBooksHolds`, `KilledWhenDoneHolds` | `Spec /\ []FewJobs => []` the property | `already_run = 0`; `FewJobs`: no tag has reached that of the kill pill |
| `NodeBooksHolds` | the same | `already_run = 0`, `Fits`, `FewJobs` |
| `ReadsCompleteHolds`, `GeneratedOnceHolds` | `Spec => []` the property | `NoFreeNode`: des_main.cc and the master agree about groups; `OwnGraphs`: a graph for each communicator, and arrivals that are there |
| `ExperimentsInvHolds` | `Spec => []ExperimentsInv`, the inductive invariant of the program without a cluster | — |
| `LineTellsRunsHolds` | `Spec => []LineTellsRuns` | — |
| `ExperimentSpecHolds` (of `Experiments_proofs`) | `Spec => ExperimentSpec`: the program without a cluster implements `Replications` | — |
| `PlainDesignsAreLatin` | `Spec => []DesignIsLatin` | `PlainDesigns`: no optimal design is asked for |
| `ClusterSendsTheSameHolds` | `Spec => []ClusterSendsTheSame` | `CountsFit`: where the size or the maximum of edges varies, the design is a plain one and the range lies in 16 bits |
| `NetworkInvHolds` | `Spec => []NetworkInv`: the shape of the network and the numbers of its edges | — |
| `CyclesRemovedHolds`, `ChoiceIsCommonHolds` | `Spec => []` the property | — |
| `EdgesNumberedHolds` | `Spec => []EdgesNumbered` | `FewVertices`: at most 256 vertices, so that 16 bits count the edges of any graph |
| `WalksAreFollowedBack` | `Spec => []LInv`: walks of jobs, the one acknowledgement that takes each back, and what the handlers leave in the networks | — |
| `NetworksTrainOnOwnState`, `GradientsDescend` | `Spec => []TrainedOnOwnState`, `[]GradientIsDescent` | — |
| `ValuesAreNumbers` | `Spec => []EInv`: the shape of the edges and statistics, and what is felt over an edge | — |
| `EmotionsAreBounded` | `Spec => []EmotionBounded` | — |
| `WeightsAreShared` | `Spec => []WeightsAreDistribution` | `SmallSteps`: a learner keeps `epsilon` for every action, and less one these come to one at most |
| `ValuesAreMeanDelays` | `Spec => []ValueIsMeanDelay` | `Acyclic`: no cycle in the network, which `CyclesRemovedHolds` shows of those that are generated |

**The ladder queue.** Its clients are any clients: nothing is assumed of the
times they push. `Accounting` is not inductive. A dequeue adds up to what it
took only if the current bucket of the lowest rung is all the rung holds, and
none is lost only if the scan for a bucket finds one. `Sound` says of a ladder

- `InCurrent`: every entry of a rung is in its current bucket, because the last
  correction of `bucket` lowers the index to that of the current bucket whenever
  it is beyond: a rung is one bucket, and `delist` takes all of it;
- `Counters`: `m_NBC` and `m_events` are the numbers of entries, and no two
  rungs share one;
- `Shape`: the rungs below the lowest are empty, and the first rung is at its
  first bucket while the ladder holds an entry;
- `RungFits`: `m_RCur` of a rung follows from its start, its width and its
  current bucket, it ends where the rung above goes on, and its current bucket
  is not its last one while it holds an entry. This is where `ExactWidths` is
  needed: with rounded widths the index of an entry could be past the array.

One lemma per method (`NewEpochSound`, `PushEntrySound`, `PushBackSound`,
`DelistSound`) shows that it leaves a sound ladder and which entries it holds.
`QueueInv` adds that Bottom is sorted, that no entry is in two tiers, that
`in_events - out_events` is their number, that `m_maxTS` and `m_minTS` are those
of Top, and that `m_topStart` parts Top from the rest; its proof has one lemma
per branch of `push` and `dequeue`. For the order, `Ordered` says that before the
first push back the ladder has its first rung only, `m_RCur` of which parts
Bottom from the ladder, and that no entry is earlier than the last one dequeued;
the first push back ends it, and `queue_out_of_order` shows what comes then.

**The event loop.** Neither `TypeOK` nor `ServerBooks` is inductive.
`ServerBooks` needs the departure an arrival pushes to be new to the queue (a
set): `Numbered` says that the queue is finite and every entry has a number up
to `Entry::uid`. `TypeOK` needs the history of an entry not to be empty where it
is read, and its bottom to be the entry from outside, since a job then leaves
with the origin of an acknowledgement at a vertex, which `JobOK` says of every
entry. `ImageCardinality` and `PlaceInRange` count the entries a step pushes;
the quiet steps, which leave servers and departures alone, are treated together
(`QuietPreserves`). A step of a server leaves its books in order while the loop
runs, or one departure short when the push is refused (`ServerMove`), and those
of the other servers as they were.

`BusyTimeExact` holds of a server where nothing happens, however far time goes
(`IdleKeepsStat`), and of one whose event is counted (`Settles`). A refusal
counts nothing although `ArrivalHandler` has marked the server as busy. It is
exact all the same, since only the departure of a server that was busy before can
lie before its own arrival (`ArriveKeepsStat`): the mark changes nothing, and the
time since the last event is still to be counted.

`JInv` adds what an entry says of its past: its
history is a walk that ends where the entry is, the entry below is that of the
vertex before, and of all entries of a job one carries it. Every iteration
replaces the dequeued entry by its offspring (`StepOf`), so that each conjunct
is shown of the offspring of one entry, whatever else is in the queue.
The second half of the module relates times. `TimeInv` says that the departures of a
busy server are at most its end of service, with one at it, and that what is
behind an entry is earlier than the entry. The refinement of `FifoServers` maps
the line of a server to its departures, sorted: `SortList` is defined by rank,
and the lemmas about it show that a departure added behind all others is
appended, and that the earliest is the head.

**The master.** `IInv` holds in all phases; while results are collected it says

- `ShapeInv`: a slave has one job at most, in one of three places, and the two
  lists hold each node once and only nodes without a job;
- `ListedInv`: a node without a job is in a list, unless a slave was killed;
- `CountInv`: what is under way for a simulation is at most what is expected,
  and exactly that if no slave was killed;
- `TeamInv`: the idle nodes can be shared out to the simulations that are not
  reported, so that each has as many as have delivered of its last batch;
- `NumberInv`: replications that were handed out have numbers up to what is
  expected.

`TeamInv` is why `idleNodes` never runs empty: `idle` and `lazy` are common to
all simulations, and that the nodes of a batch are idle when its last result
arrives follows from a count over all of them. It is stated with a function
from nodes to simulations and not with a sum over simulations, because what a
sum yields needs an induction that cannot be stated here; `Reassigned` shows
that a batch may take any nodes, its own or not. For the same reason `Allocation`
states `RanksUpTo` in closed form; `Allocation_proofs` shows that it adds up the
initial replications, that every rank is of one simulation and how many are.
`FewJobs` is a condition on the run, not on the constants: whether tags reach the
kill pill depends on when simulations turn out to be confident. Without it, a
slave that takes a job for the kill pill ends, and `IInv` still holds.

**The shared files.** `RankInv` says which collectives a rank has entered at each
step, and that a rank beyond its first graph left it complete; `GraphInv` that
the graph of a group is absent, partial and complete in turn, that all have
entered the reduction before the first creates it, and that the first enters
the barrier only when it is complete. A rank that is sent to another simulation
finds its graph because the master sends it there only when all ranks that
began with it are done (`NextJobStep`).

**The program without a cluster.** Two ways of numbering meet here: the first
invocation takes the row of the design, a later one (`add_sim`) counts the
directories of the results. That a simulation never gets the directory of
another, whatever was interrupted, is why a line tells its runs. `WhereInv` says
so: the directories of simulations are those numbered from 1 to `directories`
(`NumberedUpTo`); in the first invocation they are as many as rows were begun,
so that both ways give the next number; and an invocation adds a row's worth at
a time and a design's at most, which keeps the number within `MaxSimulations`.
The latter needs the number of rows of a design (`PlainLength`,
`OptimalLength`), from `LHS::sample` and its matrices, and what `parse` and
`verify` leave of the command line (`ArgumentFacts`). `PastInv` says that every run has
a directory and every line its replications, in order and under its conditions;
`CurrentInv` the same of the simulation that is being repeated, which has no
line yet, as many counted results as replications, and is not settled.

`PlainIsLatin` is about the plain sample alone: a permutation of the strata is
onto, and a draw stays in its stratum. The optimal sample is made of products of
matrices, which are folds, and is left to TLC.

`ClusterSendsTheSame` rests on `ColumnInv`: the conditions of what does not vary
are those of the arguments, although every row is written over the one before, and
the rows are those of a design for these arguments. Dimensions that vary have
columns of their own (`ColumnFacts`), so that a column has one pair of limits in
both copies (`LimitsAlike`); that a count of 16 bits is rounded without a loss
follows from a quotient in lowest terms being worth what was divided
(`ReducedFacts`, `RoundedAtMost`) and an entry being a share of its range
(`PlainEntries`).

**The network.** `NetworkInv` holds until the graph is read back: the vertices are
0 to n - 1, edges join different ones and have their properties, those of a grown
network lead to an older vertex, and from the removal of cycles or the end of the
growth on, the number of an edge is that of the edges before it (`Placed`). That
the order of the edges, by source and by address of the target, is total and
leaves no gap is `EdgePlaces`; the lemma it rests on, `Ranking`, also gives the
ordered set of the targets of a vertex. A search is a stack and three colours, and
`SearchOK` is what its three steps keep, one lemma for each (`RootOK`,
`ExamineOK`, `FinishOK`): the vertices on the stack are a path and every gray one
is on it; an edge of theirs is still to be examined, leads back, leads to a vertex
that is finished or is the next of the path (`Path`); and a finished vertex comes
after all it has edges to, other than those that lead back (`FinishedInOrder`).
So when all are finished, of any set of vertices the first to finish has no edge
into the set that is not removed (`VisitedIsAcyclic`), and the second search, of a
graph without cycles, finds no edge back, as the stack from the target on would
be one (`NoEdgeBack`). `CycleInv` adds that the file holds what was written, for
the graph that is read. `ChoiceInv` says that the vertices before the next one
have made their choice, which later steps leave alone while features only become
more; with two targets the code's intersection is the right one, with one target
it is empty, so that a new feature is taken (`IntersectionFacts`).

**The responses.** That a network is trained with the state of the edge whose
reward was observed takes two things. One is that the edge exists:
`RLResponseHandler.cc:115` looks it up without asking, and so do the others. It
does because of `LInv`, which follows a job through the whole walk: a job is in
one line or is followed by one acknowledgement (`LinesOK`, `AcksOK`); its history
starts outside, and each vertex in it has an edge to the next and the last one to
the vertex where the job is (`WalkOK`); an acknowledgement comes from a vertex
its receiver has an edge to, unless jobs leave there (`AckedOver`). The lemmas
`WalkOn` and `WalkBack` are the two directions, a departure and an
acknowledgement.

The other is that a presented state survives until the training. The handler
presents a state to the network of every edge out of the vertex, in the order
of the graph, and hooks the reward to one of them; edges share a network if the
network is outsourced to a vertex elsewhere, never if they leave the same vertex
(`NetOfIsIndex`). `FedAll` is a fold over a set, for which no induction is at
hand; that it equals presenting all states at once is shown from a set of least
size for which it would not. The hook, the policies and the training leave the
inputs of the networks as they are (`DeviatedOK`, `RegrettedOK`, `TrainedNets`,
`OwnSample`), up to the line search of the conjugate gradient, which presents
the same inputs again. The hybrid handler presents states of its own between the
two, which is why the property leaves it out.

`GradientIsDescent` compares the gradient of backpropagation with how the output
changes when a weight grows by one. An output is a sum over neurons each of which
activates a sum over inputs, and `SumChanges` says what changing one term of a
sum does. Thus `OutputGains` says what the output gains (`Gain`), and `GradientIs`
that the delta of the neuron behind the weight is the error times a slope
(`Slope`), which for a hidden neuron has the derivative in the place where the
gain has the difference of two activations. The two agree in sign (`SlopeSigns`), since
the activation rises with its sum and the derivative is positive
(`ActivationRises`); where the activation is rounded the gain may be zero, and
nothing is claimed. The targets and the weights are any integers. That the stored
neurons are those of the stored inputs and weights is not assumed: the gradient is
computed after the sample is presented again.

**What is felt.** `EInv` says of an edge that its value, its weight, its signals and
the extremes of what was felt are quotients (`EdgeOK`), that the two signals
have their signs, and that zero is between the extremes, which hold the emotion
(`RangeOK`). The last two make it inductive: a signal only decays towards zero
(`DecayedFacts`), so that it stays between extremes that only move apart; the
positive part is cut at the larger, the negative at the smaller one, and their
sum is between them because each has its sign (`FeltOK`). Without the signs
it is not, and without zero between the extremes the cut signals are not. The rest
is that nothing divides by zero on the way. The means do not, as a statistic
counts before it divides (`PushOK`). The projection does not:
`ProjectedFacts` needs that the sum of what is left of a vector is positive, thus that the
search for the support ends at a set that is not empty (`SupportsFacts`,
`EndsExist`, `LessIsLeft`), whatever pivots are drawn. The order of a sum makes no
difference to what follows, but to the proof: `SumOf` takes elements by CHOOSE, and
`SumOfIs` gives the recursion that `Worth`, a quotient with what it is worth over
any denominator, follows. The handlers are the same as before, with
what each leaves in the edges and the statistics (`RespondedValued`, over five
lemmas for four handlers); those of the metrics leave both alone (`RatedBeside`,
`VariedBeside`).

`EInv` also says that the weights of a vertex are shares, for
`WeightsAreDistribution`. `Shares` is stronger than a sum of one and weights that
are not negative: there is one denominator over which all of them are natural
numbers that add up to it, so that the order of a sum, which `SumOf` takes
by CHOOSE, plays no part (`Totals`, `TotalMapped`, `TotalLinear`, `SumOfWorth`).
New weights are shares in the three ways the code makes them: equal ones
(`EqualShares`), what exploration leaves (`ExploringShares`), and a projection,
which `Normalised` brings to a sum of one and `scale` moves away from zero
(`NormalisedShares`, `ScaledShares`). That they reach the edges as they were
computed takes that every edge has one value, also after a sort that leaves open
how it orders equal values (`ValuesOK`, `SortedFacts`, `TargetShares`). The last
way needs `SmallSteps`: `scale` leaves every action `epsilon` and the best one
less `epsilon` times the number of others, which is negative for a large
`epsilon` or a vertex with many edges. Nothing in the code checks that, so the
theorem assumes it of the configurations that learn.

**What a value means.** A server is told of a delay by the time on top of the
history that is popped, the job's own record of where it was; `given` is what the
job's walk, which nothing pops, says about it. Two invariants are needed beside
`LInv` and `EInv`. `TrailsOK` relates the two records: while a job waits its history is as
long as its walk, with the same times and the places one back (`OnTrail`);
on the way back the history is a prefix of the walk, and the time in every
acknowledgement is that of the server before the one it comes from (`Timed`),
also when it is an extra one to a server that the job never saw. A walk
without a cycle comes to no server twice, so that time is the only one
(`DelayIs`); in a network with a cycle the two would differ. `Acyclic` has the form that
`NetworkEvolution` promises, that no set of vertices lets a job travel for ever; the order
of the vertices that the proof works with is derived from it (`RanksExist`), and
the network of the runs grows along its edges. `MeansOK` says
of an edge that its statistics count what was given and hold its mean.
It is kept because a mean that is updated is the mean of one value more: both are
in lowest terms, and two quotients in lowest terms that are worth the same are one
(`MeanAfter`, `LowestIsUnique`). That no other step touches the edge is one lemma
per handler and policy (`RespondedMeans`, `PolicyElsewhere`).

A handler that indexes statistics by vertex while its edges are
indexed by number would be a hole, so `Outsourced` is as the code has it: only
`FullRLResponseHandler.cc:66` outsources.

Only model-checked so far: of `NetworkEvolution`, `StrengthIsFlow`, whose `Flow`
is recursive and a sum over all paths; of `Experiments`, `ConditionsFromDesign`,
which counts strata over a whole design, and what the entries of optimal designs
are: they come from folds of Kronecker products, so that `DesignIsLatin` is
proved for plain designs and `ClusterSendsTheSame` for designs in which nothing
that is counted varies and for plain ones. Every invariant of `Learning` that
the runs check is proved, `ValueIsMeanDelay` for networks without a cycle and
`WeightsAreDistribution` for small steps.
Liveness (`Termination`, `Finishes`, `JobsBegin`) stays with TLC: it needs
ENABLED, for which there are no rules here. So does what a recursive definition
computes for every input, as in the flow of `NetworkEvolution`.

## Not modelled

- The bus has no behaviour of its own; output, the date and most of the results
  are files without a decision; merge sort is not called; build files, plots and
  the stand-alone programs other than `wevonet` are not part of the simulator.
- Distributions, quasi-random sequences, the multifractal random walk, quantiles
  and variances compute with real numbers and decide nothing but through their
  value, which the modules leave open.
- Of the handlers of events: the means and counts of delays, and what the admin
  handlers write. Of the state representations all but four. Of the networks the
  line search, the size of the gradient in the hidden layer, and the activations
  other than `HTangent` and `Identity`, which no handler creates.
- A file that is partly written, by a rank or a program that was stopped while
  it wrote: the code cannot tell it from a complete one, and neither `dirs` nor
  the shared graphs are left in that state by any step of the modules.

## The plan

1. Done: `LadderQueue` with `EventPool`; `EventProcessing` with `FifoServers`;
   `MasterSlave` with `Replications`; `SingleInstance`; `Learning` with
   `NeuralNetwork` and `Simplex`; `NetworkEvolution`; `Experiments` with
   `CommandLine` and `LatinHypercube`.
2. Done: the theorems about `LadderQueue`, `EventProcessing`, `MasterSlave`,
   `SingleInstance`, `Experiments`, `NetworkEvolution` and `Learning` above.
3. Theorems still worth proving: `ConditionsFromDesign` of `Experiments` for plain
   designs, and the entries of the optimal ones.
