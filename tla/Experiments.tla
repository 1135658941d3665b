---------------------------- MODULE Experiments ----------------------------
(***************************************************************************)
(* The program built without MPI (main, SimulationLHS, SimulationCI): the  *)
(* simulations of a design, one after the other, each repeated until its   *)
(* results are confident.  What is written to the directory of the results *)
(* outlives an invocation; add_sim lets a later one continue there.  A     *)
(* simulation itself is one step here: see EventProcessing.                *)
(***************************************************************************)
EXTENDS CommandLine, LatinHypercube

CONSTANTS Options,          \* the command lines that may be given
          NumSeeds,         \* the lines of the file of seeds
          MaxInvocations,   \* bound: times the program is started
          MaxReplications,  \* bound: a simulation is confident by then
          MaxSimulations    \* simulations are numbered up to this

ASSUME OptionsAssumption ==
    \A opt \in Options :
        /\ opt.add_sim \in BOOLEAN /\ opt.confidence \in BOOLEAN
        /\ opt.lhs \in BOOLEAN /\ opt.lhs_optimal \in BOOLEAN
        /\ opt.replications \in Nat /\ opt.replications <= 65535
        /\ DOMAIN opt.ranges \subseteq ToSet(Dimensions)
        /\ \A d \in DOMAIN opt.ranges : opt.ranges[d][1] <= opt.ranges[d][2] /\ opt.ranges[d][1] >= 0
        \* a design has rows, of one column at least for each dimension, and the loops over it end
        /\ opt.lhs => /\ DOMAIN opt.ranges # {}
                      /\ opt.simulations \in Nat /\ 2 <= opt.simulations /\ opt.simulations <= 65535
        /\ opt.lhs /\ opt.lhs_optimal => /\ opt.simulations <= 8
                                        /\ Cardinality(DOMAIN opt.ranges) <= 2 * opt.simulations - 2
        \* with add_sim alone the program writes to directory 1/1 again
        /\ opt.add_sim => opt.lhs \/ opt.confidence

\* The rows of the design a command line asks for.
Rows(opt) ==
    IF ~ opt.lhs THEN 1 ELSE IF opt.lhs_optimal THEN 2 ^ opt.simulations + 1 ELSE opt.simulations

ASSUME NumbersAssumption == \A opt \in Options : MaxInvocations * Rows(opt) <= MaxSimulations

\* The first line of the file is there: it seeds the design.
ASSUME BoundsAssumption ==
    {NumSeeds, MaxInvocations, MaxReplications, MaxSimulations} \subseteq Nat \ {0}

VARIABLES pc,          \* where the program is
          invocations, \* times it was started
          desArgs,     \* its arguments
          sim_num, rep_num,
          design,      \* the sample of SimulationLHS, and the rows of it that are done
          i,
          conditions,  \* the values of the dimensions for the next simulation
          values,      \* results that OnlineStats has counted
          seeds,       \* lines of the file of seeds that are not read
          dirs,        \* files: directories, <<sim>> and <<sim, rep>>
          designDat,   \* files: design.dat of this invocation
          simulations, \* files: the lines of simulations.dat
          runs,        \* history: the simulations that ended, in order
          settled      \* history: those that were found confident

program == <<pc, desArgs, sim_num, rep_num, design, i, conditions, values, seeds>>
files == <<dirs, designDat, simulations>>
history == <<runs, settled>>
vars == <<program, files, invocations, history>>

NoDesign == [rows |-> <<>>, den |-> 1]

Init ==
    /\ pc = "off" /\ invocations = 0 /\ desArgs = desArgs_t /\ sim_num = 0 /\ rep_num = 0
    /\ design = NoDesign /\ i = 0 /\ conditions = <<>> /\ values = 0 /\ seeds = 0
    /\ dirs = {} /\ designDat = <<>> /\ simulations = <<>> /\ runs = <<>> /\ settled = {}

-----------------------------------------------------------------------------
(* LhsUtils: which dimensions vary, and the column of each of them (0: none). *)
Varying == {k \in DOMAIN Dimensions : Dimensions[k] \in DOMAIN desArgs.ranges}

\* Mutant: the column of boost_edge is computed without looking at size.
IndexForgetful(k) == IF k \in Varying THEN Cardinality(Varying \cap (IF k = 5 THEN 2..k ELSE 1..k)) ELSE 0

Index(k) == IF k \in Varying THEN Cardinality(Varying \cap 1..k) ELSE 0

\* The vectors min (end = 1) and max (end = 2) of SimulationLHS::simulate.
Limit(end, column) ==
    LET set == {k \in Varying : Index(k) = column} IN
    IF set = {} THEN 0 ELSE desArgs.ranges[Dimensions[Max(set)]][end]

\* The value at a place of the design.
Sample(row, column) ==
    Reduced(Limit(1, column) * design.den
                + (Limit(2, column) - Limit(1, column)) * design.rows[row][column], design.den)

serialiseDesign(d) ==
    [header |-> SelectSeq(Dimensions, LAMBDA name : name \in DOMAIN desArgs.ranges), design |-> d]

\* static_cast<uint16_t>(round(x)) of what is not negative.
Rounded(x) == Whole(((2 * x[1] + x[2]) \div (2 * x[2])) % 2 ^ 16)

ExperimentConditions(row) ==
    [d \in DOMAIN conditions |->
        LET k == CHOOSE k \in DOMAIN Dimensions : Dimensions[k] = d IN
        IF Index(k) = 0 THEN conditions[d]
        ELSE IF d \in Counted THEN Rounded(Sample(row, Index(k))) ELSE Sample(row, Index(k))]

-----------------------------------------------------------------------------
(* SimulationMPI does the same for the jobs it sends, in a copy of the     *)
(* code: the range of cognitive_r_neg is set when cognitive_A_pos varies.  *)
AskedOf(name) == IF name = "cognitive_r_neg" THEN "cognitive_A_pos" ELSE name

IndexOf(name) == Index(CHOOSE k \in DOMAIN Dimensions : Dimensions[k] = name)

\* Mutant: the range of nn_momentum is set when rl_policy_epsilon varies.
LimitOfClusterCopied(end, column) ==
    LET set == {k \in Varying : Index(k) = column /\ IndexOf(AskedOf(Dimensions[k])) # 0
                                 /\ (Dimensions[k] = "nn_momentum" => IndexOf("rl_policy_epsilon") # 0)}
    IN  IF set = {} THEN 0 ELSE desArgs.ranges[Dimensions[Max(set)]][end]

LimitOfCluster(end, column) ==
    LET set == {k \in Varying : Index(k) = column /\ IndexOf(AskedOf(Dimensions[k])) # 0} IN
    IF set = {} THEN 0 ELSE desArgs.ranges[Dimensions[Max(set)]][end]

\* What simulation row is told: rounded without a width, and taken from the arguments if it does not vary.
assignParams(row) ==
    [d \in ToSet(Dimensions) |->
        LET c == IndexOf(d)
            min == LimitOfCluster(1, c)
            x == Reduced(min * design.den + (LimitOfCluster(2, c) - min) * design.rows[row][c], design.den)
        IN  IF c = 0 THEN desArgs.values[d]
            ELSE IF d \in Counted THEN Whole((2 * x[1] + x[2]) \div (2 * x[2])) ELSE x]

-----------------------------------------------------------------------------
(* Seeds and CRN: every stream takes a seed of its own. *)
SeedsOfNetwork == (IF desArgs.net_gen = 1 THEN 3 ELSE 2) + 3 * conditions["size"][1]
SeedsOfPolicy == IF ~ desArgs.rl THEN 0 ELSE IF desArgs.rl_policy = 2 THEN 1 ELSE 2
Drawn(n) == IF desArgs.seeds_filename THEN n ELSE 0

\* Mutant: one value is enough.
isConfidentAtOnce(n) == IF desArgs.alpha = 0 THEN {FALSE} ELSE BOOLEAN

\* CI::isConfidentWithPrecision for n values; with alpha = 0 the quantile is infinite.
isConfidentWithPrecision(n) == IF n < 2 \/ desArgs.alpha = 0 THEN {FALSE} ELSE BOOLEAN

\* main: parse the command line, open the seeds, and choose what to run.
Main ==
    /\ pc \in {"off", "done"} /\ invocations < MaxInvocations /\ invocations' = invocations + 1
    /\ \E opt \in Options :
           /\ opt.add_sim = (invocations > 0)
           /\ desArgs' = parse(opt)
           /\ conditions' = desArgs'.values
    /\ pc' = IF desArgs'.lhs /\ desArgs'.confidence THEN "sample"
             ELSE IF desArgs'.confidence THEN "ci" ELSE "single"
    /\ sim_num' = 1 /\ rep_num' = 1 /\ design' = NoDesign /\ i' = 0 /\ values' = 0 /\ seeds' = NumSeeds
    /\ designDat' = <<>>
    /\ UNCHANGED <<dirs, simulations, history>>

\* SimulationLHS: take a sample, with a stream of its own, and write it down.
SampleDesign ==
    /\ pc = "sample" /\ seeds' = seeds - Drawn(1)
    /\ design' \in IF desArgs.lhs_optimal THEN Optimal(desArgs.simulations, desArgs.lhs_r)
                   ELSE Plain(desArgs.simulations, Cardinality(Varying))
    /\ designDat' = serialiseDesign(design')
    /\ pc' = "row"
    /\ UNCHANGED <<invocations, desArgs, sim_num, rep_num, i, conditions, values, dirs, simulations, history>>

\* SimulationLHS: the conditions of the next row, or the end.
NextRow ==
    /\ pc = "row"
    /\ \/ /\ i < Len(design.rows)
          /\ sim_num' = i + 1 /\ conditions' = ExperimentConditions(i + 1)
          /\ pc' = "ci"
       \/ i = Len(design.rows) /\ pc' = "done" /\ UNCHANGED <<sim_num, conditions>>
    /\ UNCHANGED <<invocations, desArgs, rep_num, design, i, values, seeds, files, history>>

directories == Cardinality({d \in dirs : Len(d) = 1})

\* SimulationCI: a directory for the simulation, after those that are there already.
BeginReplications ==
    /\ pc = "ci"
    /\ sim_num' = IF desArgs.add_sim THEN directories + 1 ELSE sim_num
    /\ dirs' = dirs \cup {<<sim_num'>>}
    /\ rep_num' = 1 /\ values' = 0
    /\ pc' = IF desArgs.replications >= 1 THEN "initial" ELSE "more"
    /\ UNCHANGED <<invocations, desArgs, design, i, conditions, seeds, designDat, simulations, history>>

Run == [sim |-> sim_num, rep |-> rep_num, conditions |-> conditions, invocation |-> invocations,
        repeated |-> desArgs.confidence]

\* Simulation::operator(): the streams, the directory, and the events of one replication.
Simulate ==
    /\ Drawn(SeedsOfNetwork + SeedsOfPolicy) <= seeds
    /\ seeds' = seeds - Drawn(SeedsOfNetwork + SeedsOfPolicy)
    /\ dirs' = dirs \cup {<<sim_num>>, <<sim_num, rep_num>>}
    /\ runs' = Append(runs, Run)

\* SimulationCI: one of the initial replications, after which it does not ask for confidence unless
\* it is the last, or one more of them.
Replicate ==
    /\ pc \in {"initial", "more"} /\ values < MaxReplications
    /\ Simulate
    /\ values' = values + 1 /\ rep_num' = rep_num + 1
    /\ \/ pc = "initial" /\ rep_num' <= desArgs.replications /\ UNCHANGED <<pc, settled>>
       \/ /\ pc = "initial" => rep_num' > desArgs.replications
          /\ \E isConfident \in isConfidentWithPrecision(values') :
                /\ values' = MaxReplications /\ desArgs.alpha # 0 => isConfident
                /\ IF isConfident THEN pc' = "confident" /\ settled' = settled \cup {sim_num}
                   ELSE pc' = "more" /\ UNCHANGED settled
    /\ UNCHANGED <<invocations, desArgs, sim_num, design, i, conditions, designDat, simulations>>

\* Mutant: the number of the replication that was not run any more.
ReplicationsNext == rep_num

\* result.replications of SimulationCI.
Replications == IF rep_num > desArgs.replications THEN rep_num - 1 ELSE rep_num

Line(replications) == [sim |-> sim_num, conditions |-> conditions, replications |-> replications]

\* SimulationLHS, or main without a design: the line of a simulation.
Report ==
    /\ pc = "confident"
    /\ simulations' = Append(simulations, Line(Replications))
    /\ IF desArgs.lhs THEN i' = i + 1 /\ pc' = "row" ELSE pc' = "done" /\ UNCHANGED i
    /\ UNCHANGED <<invocations, desArgs, sim_num, rep_num, design, conditions, values, seeds, dirs, designDat, history>>

\* main: neither a design nor confidence: one simulation, and its line.
Single ==
    /\ pc = "single" /\ Simulate
    /\ simulations' = Append(simulations, Line(rep_num))
    /\ pc' = "done"
    /\ UNCHANGED <<invocations, desArgs, sim_num, rep_num, design, i, conditions, values, designDat, settled>>

\* Seeds::getSeed throws when the file is at its end, which nobody catches: before the simulation
\* has a directory, or, for the seeds of the policy, after it.
SeedsExhausted ==
    /\ pc \in {"initial", "more", "single"} /\ Drawn(SeedsOfNetwork + SeedsOfPolicy) > seeds
    /\ dirs' = IF Drawn(SeedsOfNetwork) > seeds THEN dirs
               ELSE dirs \cup {<<sim_num>>, <<sim_num, rep_num>>}
    /\ pc' = "off"
    /\ UNCHANGED <<invocations, desArgs, sim_num, rep_num, design, i, conditions, values, seeds,
                   designDat, simulations, history>>

\* The program is interrupted, in the middle of a simulation or elsewhere (the last invocation is not:
\* nobody would see it).
Interrupted ==
    /\ pc \notin {"off", "done"} /\ pc' = "off" /\ invocations < MaxInvocations
    /\ \/ UNCHANGED dirs
       \/ pc \in {"initial", "more", "single"} /\ dirs' = dirs \cup {<<sim_num>>, <<sim_num, rep_num>>}
    /\ UNCHANGED <<invocations, desArgs, sim_num, rep_num, design, i, conditions, values, seeds,
                   designDat, simulations, history>>

Next ==
    \/ Main \/ SampleDesign \/ NextRow \/ BeginReplications \/ Replicate \/ Report \/ Single
    \/ SeedsExhausted \/ Interrupted

Spec == Init /\ [][Next]_vars

-----------------------------------------------------------------------------
\* A sample of SimulationLHS has one simulation in every stratum of a dimension, an optimal one ("according
\* to Ye", LHS.hh) one at every level and columns that do not correlate: LHS::sample, matrixM, matrixS.
DesignIsLatin ==
    pc = "row" /\ i = 0 => Latin(design, desArgs.lhs_optimal) /\ (desArgs.lhs_optimal => Orthogonal(design))

\* The part of its range a dimension has in stratum s of n, in whole numbers where it is counted.
Stratum(d, s, n, optimal) ==
    LET at(k) == Reduced(desArgs.ranges[d][1] * n + (desArgs.ranges[d][2] - desArgs.ranges[d][1]) * k, n)
        known(x) == IF d \in Counted THEN Rounded(x) ELSE x
    IN  <<known(at(IF optimal THEN s ELSE s - 1)), known(at(s))>>

\* Once a design is done, every dimension was simulated in each of its strata and nowhere else, those
\* that do not vary as the command line says, and the columns of design.dat carry the right names:
\* the columns LhsUtils computes in three places are the same.
ConditionsFromDesign ==
    pc = "done" /\ desArgs.lhs =>
        LET mine == {r \in ToSet(runs) : r.invocation = invocations}
            rows == Len(design.rows)
            lines == SubSeq(simulations, Len(simulations) - rows + 1, Len(simulations))
            n == IF desArgs.lhs_optimal THEN design.den ELSE rows
            strata(d) == {Stratum(d, s, n, desArgs.lhs_optimal) :
                             s \in (IF desArgs.lhs_optimal THEN 0 ELSE 1)..n}
            in(x, s) == AtMost(s[1], x) /\ AtMost(x, s[2])
        IN  \A d \in ToSet(Dimensions) :
                IF d \notin DOMAIN desArgs.ranges
                THEN \A r \in mine : r.conditions[d] = desArgs.values[d]
                ELSE /\ \A s \in strata(d) : \E r \in mine : in(r.conditions[d], s)
                     /\ \A r \in mine : \E s \in strata(d) : in(r.conditions[d], s)
                     /\ \E c \in DOMAIN designDat.header :
                            /\ designDat.header[c] = d
                            /\ \A k \in 1..rows :
                                   LET x == Reduced(design.rows[k][c] * n, design.den)
                                       below == (x[1] + x[2] - 1) \div x[2]
                                   IN  in(lines[k].conditions[d], Stratum(d, below, n, desArgs.lhs_optimal))

\* A simulation begins, without a cluster, with the conditions SimulationMPI sends to the slaves that
\* run it: the two copies of the code agree, as long as cognitive_A_pos varies exactly when
\* cognitive_r_neg does (SimulationMPI.hh:238 looks at the other index) and the counts fit in 16 bits.
ClusterSendsTheSame ==
    /\ pc = "ci" /\ desArgs.lhs
    /\ ("cognitive_A_pos" \in DOMAIN desArgs.ranges <=> "cognitive_r_neg" \in DOMAIN desArgs.ranges)
    => conditions = assignParams(i + 1)

\* A line of simulations.dat tells what was simulated: as many replications as it says, numbered from one,
\* all of them under its conditions and in its directory, also if invocations before it were interrupted.
LineTellsRuns ==
    \A line \in ToSet(simulations) :
        LET mine == {k \in DOMAIN runs : runs[k].sim = line.sim} IN
        /\ {runs[k].rep : k \in mine} = 1..line.replications
        /\ \A j, k \in mine : j < k => runs[j].rep < runs[k].rep
        /\ \A k \in mine : runs[k].conditions = line.conditions

\* Without a cluster, too, an experiment counts at least two replications of a simulation, and none after
\* it was found confident: SimulationCI and CI::isConfidentWithPrecision.
Experiment ==
    INSTANCE Replications WITH
        Simulations <- 1..MaxSimulations,
        Minimum <- 2,
        counted <- [s \in 1..MaxSimulations |->
                       Cardinality({k \in DOMAIN runs : runs[k].sim = s /\ runs[k].repeated})],
        reported <- settled
ExperimentSpec == Experiment!ExperimentSpec
=============================================================================
