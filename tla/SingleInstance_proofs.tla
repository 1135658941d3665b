------------------------ MODULE SingleInstance_proofs ------------------------
(***************************************************************************)
(* Theorems about SingleInstance: where every communicator has a graph of  *)
(* its own, and the arrivals are there, no rank reads a file that is not   *)
(* complete, and none is generated twice.                                  *)
(***************************************************************************)
EXTENDS SingleInstance, Allocation_proofs, SequenceTheorems, TLAPS

-----------------------------------------------------------------------------
(* The groups.                                                             *)

\* No node is free: des_main.cc and the master then agree about the simulation
\* of every rank, and 16 bits hold the number of the nodes.
NoFreeNode == nodes = runs * init_replications + 1 /\ nodes <= 65536

\* Different simulations have different graphs, and multifractal arrivals are
\* those of an earlier experiment.
OwnGraphs == /\ SameBoosts => runs = 1
             /\ mfrw_exists \/ (graph_single /\ ~ mfrw_single)

LEMMA NobodyFree ==
    ASSUME NoFreeNode
    PROVE  /\ FirstJobs = nodes - 1
           /\ \A i \in 0 .. runs : RanksUpTo(i) = i * init_replications
           /\ \A r : colour(r) = (r - 1) \div init_replications + 1
<1> DEFINE m == runs * init_replications
<1>1. m \in Nat /\ nodes = m + 1 /\ m < 65536
  <2>1. m \in Nat
    BY RunsType, AllocationAssumption
  <2> QED  BY <2>1, AllocationAssumption DEF NoFreeNode
<1>2. simNodes = m % 65536 /\ FirstJobs = m + freeNodes
  BY RanksAddUp DEF simNodes
<1> HIDE DEF m
<1>3. simNodes = m
  BY <1>1, <1>2
<1>4. freeNodes = 0
  <2>1. nodes - (m + 1) = 0 /\ 0 % 65536 = 0
    BY <1>1
  <2> QED  BY <2>1, <1>3 DEF freeNodes
<1>5. 0 \div runs = 0 /\ 0 % runs = 0
  BY RunsType
<1>6. ASSUME NEW i \in 0 .. runs
      PROVE  RanksUpTo(i) = i * init_replications
  <2>1. RanksUpTo(i) = i * (init_replications + 0) + (IF i <= 0 THEN i ELSE 0)
    BY <1>4, <1>5 DEF RanksUpTo
  <2>2. (IF i <= 0 THEN i ELSE 0) = 0 /\ init_replications + 0 = init_replications
    BY RunsType, AllocationAssumption
  <2>3. i * init_replications \in Nat
    BY RunsType, AllocationAssumption
  <2> QED  BY <2>1, <2>2, <2>3
<1>7. \A r : colour(r) = (r - 1) \div init_replications + 1
  BY <1>4 DEF colour
<1> QED  BY <1>1, <1>2, <1>4, <1>6, <1>7

LEMMA UniqueQuotient ==
    ASSUME NEW d \in Nat \ {0}, NEW q \in Nat, NEW s \in 0 .. d - 1
    PROVE  (d * q + s) \div d = q
<1> DEFINE p == (d * q + s) \div d
           t == (d * q + s) % d
<1>1. d * q + s \in Nat /\ d * q \in Nat
  OBVIOUS
<1>2. p \in Nat /\ t \in 0 .. d - 1 /\ d * q + s = d * p + t
  BY <1>1, Quotient
<1> HIDE DEF p, t
<1>3. ~ (p < q)
  <2>1. SUFFICES ASSUME p + 1 <= q PROVE FALSE
    BY <1>2
  <2>2. d * (p + 1) <= d * q
    BY <2>1, <1>2
  <2>3. d * (p + 1) = d * p + d /\ d * p \in Nat
    BY <1>2
  <2> QED  BY <2>2, <2>3, <1>1, <1>2
<1>4. ~ (q < p)
  <2>1. SUFFICES ASSUME q + 1 <= p PROVE FALSE
    BY <1>2
  <2>2. d * (q + 1) <= d * p
    BY <2>1, <1>2
  <2>3. d * (q + 1) = d * q + d /\ d * p \in Nat
    BY <1>2
  <2> QED  BY <2>2, <2>3, <1>1, <1>2
<1> QED  BY <1>2, <1>3, <1>4 DEF p

\* The ranks of a communicator are those the master gives one simulation, and
\* every simulation has some.
LEMMA Groups ==
    ASSUME NoFreeNode
    PROVE  /\ \A r \in Slaves : FirstSim(r) \in Sims /\ colour(r) = FirstSim(r)
           /\ \A s \in Sims : \E m \in Slaves :
                /\ FirstSim(m) = s
                /\ \A r \in Slaves : FirstSim(r) = s => m <= r
<1>1. Slaves = 1 .. FirstJobs /\ FirstJobs \in Nat /\ runs \in Nat \ {0}
      /\ init_replications \in Nat \ {0}
  BY NobodyFree, RunsType, AllocationAssumption DEF Slaves
<1>2. ASSUME NEW r \in Slaves
      PROVE  FirstSim(r) \in Sims /\ colour(r) = FirstSim(r)
  <2> DEFINE i == FirstSim(r)
             d == init_replications
             s == r - 1 - d * (i - 1)
  <2>1. i \in Sims /\ RanksUpTo(i - 1) < r /\ r <= RanksUpTo(i)
    BY <1>1, FirstSimOfRank
  <2>2. i \in Nat \ {0} /\ i - 1 \in 0 .. runs /\ i \in 0 .. runs /\ r \in Nat /\ d \in Nat \ {0}
    BY <1>1, <2>1 DEF Sims
  <2>3. RanksUpTo(i - 1) = (i - 1) * d /\ RanksUpTo(i) = i * d
    BY <2>2, NobodyFree
  <2>4. (i - 1) * d = d * (i - 1) /\ i * d = d * (i - 1) + d /\ d * (i - 1) \in Nat
    BY <2>2
  <2> HIDE DEF i, d
  <2>5. s \in 0 .. d - 1 /\ i - 1 \in Nat
    BY <2>1, <2>2, <2>3, <2>4
  <2>6. d * (i - 1) + s = r - 1
    BY <2>2, <2>4
  <2> HIDE DEF s
  <2>7. (r - 1) \div d = i - 1
    BY <2>2, <2>5, <2>6, UniqueQuotient
  <2>8. colour(r) = (r - 1) \div d + 1
    BY NobodyFree DEF d
  <2> QED  BY <2>1, <2>2, <2>7, <2>8 DEF i
<1>3. ASSUME NEW s \in Sims
      PROVE  \E m \in Slaves : /\ FirstSim(m) = s
                               /\ \A r \in Slaves : FirstSim(r) = s => m <= r
  <2>1. {k \in 1 .. FirstJobs : FirstSim(k) = s} = RanksUpTo(s - 1) + 1 .. RanksUpTo(s)
    BY RanksOfSim
  <2>2. s - 1 \in 0 .. runs /\ s \in 0 .. runs
    BY <1>1 DEF Sims
  <2>3. /\ RanksUpTo(s - 1) \in Nat /\ RanksUpTo(s) = RanksUpTo(s - 1) + InitReplications[s]
        /\ InitReplications[s] \in Nat \ {0}
    BY <2>2, RanksAddUp
  <2> DEFINE m == RanksUpTo(s - 1) + 1
  <2>4. m \in RanksUpTo(s - 1) + 1 .. RanksUpTo(s)
    BY <2>3
  <2>5. \A k \in RanksUpTo(s - 1) + 1 .. RanksUpTo(s) : m <= k
    BY <2>3
  <2> QED  BY <2>1, <2>4, <2>5, <1>1
<1> QED  BY <1>2, <1>3

\* The first rank is the same for all ranks of a communicator.
LEMMA MinRanks ==
    ASSUME NoFreeNode, NEW r \in Slaves
    PROVE  /\ Group(r) = {q \in Slaves : FirstSim(q) = FirstSim(r)}
           /\ minRank(r) \in Group(r) /\ r \in Group(r)
           /\ \A q \in Group(r) : minRank(q) = minRank(r)
<1>1. \A q \in Slaves : FirstSim(q) \in Sims /\ colour(q) = FirstSim(q)
  BY Groups
<1>2. \A p \in Slaves : Group(p) = {q \in Slaves : FirstSim(q) = FirstSim(p)}
  BY <1>1 DEF Group
<1>3. \A q \in Group(r) : minRank(q) = minRank(r)
  BY <1>2 DEF minRank
<1>4. \E m \in Group(r) : \A q \in Group(r) : m <= q
  BY <1>1, <1>2, Groups
<1>5. minRank(r) \in Group(r)
  BY <1>4 DEF minRank
<1> QED  BY <1>2, <1>3, <1>5

-----------------------------------------------------------------------------
(* The inductive invariant.                                                *)

\* The graph of the simulation that rank r is given first.
Own(r) == <<"graph", FirstSim(r)>>

\* Rank r is beyond the graph of its first job.
Past(r) == jobs[r] > 1 \/ stage[r] = "mfrw" \/ step[r] = "idle"

Entered == {<<>>, <<"allreduce">>, <<"allreduce", "barrier">>}

TypeInv ==
    /\ sim \in [Slaves -> Sims] /\ jobs \in [Slaves -> Nat \ {0}]
    /\ stage \in [Slaves -> {"graph", "mfrw"}]
    /\ step \in [Slaves -> {"check", "elect", "generate", "barrier", "read", "idle"}]
    /\ entered \in [Slaves -> Entered]
    /\ file \in [Files -> {"absent", "partial", "complete"}] /\ created \in [Files -> Nat]
    /\ seen \subseteq {"complete"}

NeedsMfrw == mfrw_single \/ ~ graph_single

\* Nobody generates the arrivals.
MfrwInv ==
    /\ created[<<"mfrw", 0>>] = 0
    /\ NeedsMfrw => file[<<"mfrw", 0>>] = "complete"
    /\ \A r \in Slaves : stage[r] = "mfrw" => NeedsMfrw

\* A rank that got past its first graph, or was given another simulation, has
\* left a complete graph behind; up to there it enters one collective after
\* the other.
RankInv(r) ==
    /\ stage[r] = "graph" => graph_single
    /\ jobs[r] = 1 => sim[r] = FirstSim(r)
    /\ Past(r) => step[r] \in {"check", "read", "idle"}
    /\ Past(r) /\ graph_single => file[Own(r)] = "complete"
    /\ jobs[r] > 1 /\ graph_single => file[<<"graph", sim[r]>>] = "complete"
    /\ step[r] = "read" => file[File(r)] = "complete"
    /\ ~ Past(r) /\ step[r] = "check" => entered[r] = <<>>
    /\ step[r] \in {"elect", "generate"} => entered[r] = <<"allreduce">>
    /\ step[r] = "barrier" => entered[r] = <<"allreduce", "barrier">>

\* The graph of a group is absent, partial and complete in turn.  Once the first
\* rank creates it every other has entered the reduction, so that none of them
\* looks for it again before the barrier; and the first enters the barrier when
\* it is complete.
GraphInv(r) ==
    /\ created[Own(r)] <= 1
    /\ file[Own(r)] = "absent" => created[Own(r)] = 0
    /\ file[Own(r)] = "partial" => created[Own(r)] = 1 /\ step[minRank(r)] = "generate"
    /\ file[Own(r)] = "complete" /\ created[Own(r)] = 0 =>
           step[r] \notin {"elect", "generate", "barrier"}
    /\ created[Own(r)] = 1 => entered[r] # <<>>
    /\ step[r] = "generate" => r = minRank(r) /\ file[Own(r)] = "partial"
    /\ step[r] = "elect" /\ r = minRank(r) => created[Own(r)] = 0
    /\ r = minRank(r) /\ entered[r] = <<"allreduce", "barrier">> => file[Own(r)] = "complete"

IInv == TypeInv /\ MfrwInv /\ \A r \in Slaves : RankInv(r) /\ GraphInv(r)

-----------------------------------------------------------------------------
(* The steps of a rank.                                                    *)

\* A graph is named for the simulation of the job.
LEMMA FileNames ==
    ASSUME OwnGraphs, TypeInv, NEW r \in Slaves, RankInv(r)
    PROVE  /\ FirstSim(r) \in Sims => Own(r) \in Files
           /\ stage[r] = "graph" => File(r) = <<"graph", sim[r]>>
           /\ stage[r] = "graph" /\ ~ Past(r) => File(r) = Own(r)
           /\ stage[r] = "mfrw" => File(r) = <<"mfrw", 0>>
           /\ File(r) \in Files /\ <<"mfrw", 0>> \in Files
           /\ \A s \in Sims : <<"graph", s>> \in Files /\ <<"graph", s>> # <<"mfrw", 0>>
           /\ \A s, t : <<"graph", s>> = <<"graph", t>> => s = t
<1>1. /\ <<"mfrw", 0>> \in Files
      /\ \A s \in Sims : <<"graph", s>> \in Files
  BY DEF Files, Graphs
<1>2. \A s : <<"graph", s>> # <<"mfrw", 0>>
  OBVIOUS
<1>3. sim[r] \in Sims /\ stage[r] \in {"graph", "mfrw"}
  BY DEF TypeInv
<1>4. stage[r] = "graph" => File(r) = <<"graph", sim[r]>>
  <2>1. CASE SameBoosts
    <3>1. runs = 1
      BY <2>1 DEF OwnGraphs
    <3>2. sim[r] = 1
      BY <1>3, <3>1 DEF Sims
    <3> QED  BY <3>2 DEF File
  <2>2. CASE ~ SameBoosts
    BY <2>2 DEF File
  <2> QED  BY <2>1, <2>2
<1>5. stage[r] = "mfrw" => File(r) = <<"mfrw", 0>>
  BY DEF File
<1>6. ~ Past(r) => sim[r] = FirstSim(r)
  <2>1. jobs[r] \in Nat \ {0}
    BY DEF TypeInv
  <2> QED  BY <2>1 DEF Past, RankInv
<1> QED  BY <1>1, <1>2, <1>3, <1>4, <1>5, <1>6 DEF Own

\* Files that are complete stay so.
Lasting == \A f \in Files : file[f] = "complete" => file'[f] = "complete"

Same(q) == /\ sim'[q] = sim[q] /\ jobs'[q] = jobs[q] /\ stage'[q] = stage[q]
           /\ step'[q] = step[q] /\ entered'[q] = entered[q]

\* A rank that a step does not concern.
LEMMA RankKept ==
    ASSUME NoFreeNode, OwnGraphs, TypeInv, Lasting,
           NEW q \in Slaves, RankInv(q), Same(q)
    PROVE  RankInv(q)'
<1>1. Own(q) \in Files /\ File(q) \in Files /\ <<"graph", sim[q]>> \in Files
  <2>1. FirstSim(q) \in Sims /\ sim[q] \in Sims
    BY Groups DEF TypeInv
  <2> QED  BY <2>1, FileNames
<1>2. File(q)' = File(q) /\ Own(q)' = Own(q) /\ (Past(q)' <=> Past(q))
  BY DEF File, Own, Past, Same
<1>3. /\ file[Own(q)] = "complete" => file'[Own(q)] = "complete"
      /\ file[File(q)] = "complete" => file'[File(q)] = "complete"
      /\ file[<<"graph", sim[q]>>] = "complete" => file'[<<"graph", sim[q]>>] = "complete"
  BY <1>1 DEF Lasting
<1> HIDE DEF File, Own, Past
<1> QED  BY <1>2, <1>3 DEF RankInv, Same

LEMMA GraphKept ==
    ASSUME NEW q \in Slaves, GraphInv(q), Same(q),
           file'[Own(q)] = file[Own(q)], created'[Own(q)] = created[Own(q)],
           step'[minRank(q)] = step[minRank(q)] \/ file[Own(q)] # "partial"
    PROVE  GraphInv(q)'
<1>1. Own(q)' = Own(q) /\ minRank(q)' = minRank(q)
  BY DEF Own, minRank
<1> HIDE DEF Own, minRank
<1> QED  BY <1>1 DEF GraphInv, Same

\* A step of a rank that neither generates nor changes a file leaves all others
\* alone.
LEMMA OthersKept ==
    ASSUME NoFreeNode, OwnGraphs, IInv, NEW r \in Slaves, step[r] # "generate",
           file' = file, created' = created, \A q \in Slaves \ {r} : Same(q)
    PROVE  \A q \in Slaves \ {r} : RankInv(q)' /\ GraphInv(q)'
<1> SUFFICES ASSUME NEW q \in Slaves \ {r}
             PROVE  RankInv(q)' /\ GraphInv(q)'
  OBVIOUS
<1>1. TypeInv /\ RankInv(q) /\ GraphInv(q) /\ Same(q) /\ Lasting
  BY DEF IInv, Lasting
<1>2. RankInv(q)'
  BY <1>1, RankKept
<1>3. step'[minRank(q)] = step[minRank(q)] \/ file[Own(q)] # "partial"
  <2>1. CASE minRank(q) = r
    BY <2>1, <1>1 DEF GraphInv
  <2>2. CASE minRank(q) # r
    <3>1. minRank(q) \in Slaves
      BY MinRanks DEF Group
    <3> QED  BY <2>2, <3>1 DEF Same
  <2> QED  BY <2>1, <2>2
<1>4. GraphInv(q)'
  BY <1>1, <1>3, GraphKept
<1> QED  BY <1>2, <1>4

\* What a rank is about that takes part in generating its graph.
LEMMA Generating ==
    ASSUME NoFreeNode, OwnGraphs, IInv, NEW r \in Slaves,
           step[r] \in {"elect", "generate", "barrier"}
    PROVE  /\ ~ Past(r) /\ stage[r] = "graph" /\ jobs[r] = 1 /\ graph_single
           /\ sim[r] = FirstSim(r) /\ File(r) = Own(r) /\ Own(r) \in Files
           /\ Own(r) # <<"mfrw", 0>>
<1>1. TypeInv /\ RankInv(r)
  BY DEF IInv
<1>2. ~ Past(r)
  BY <1>1 DEF RankInv
<1>3. stage[r] = "graph" /\ jobs[r] = 1
  BY <1>1, <1>2 DEF Past, TypeInv
<1>4. FirstSim(r) \in Sims
  BY Groups
<1> QED  BY <1>1, <1>2, <1>3, <1>4, FileNames DEF RankInv, Own

LEMMA CheckStep ==
    ASSUME NoFreeNode, OwnGraphs, IInv, NEW r \in Slaves, Check(r)
    PROVE  IInv'
<1>1. /\ step[r] = "check" /\ UNCHANGED <<sim, jobs, stage, file, created, seen>>
      /\ TypeInv /\ MfrwInv /\ RankInv(r) /\ GraphInv(r)
  BY DEF Check, IInv
<1>2. FirstSim(r) \in Sims
  BY Groups
<1>3. /\ Past(r) => file[File(r)] = "complete"
      /\ ~ Past(r) => stage[r] = "graph" /\ File(r) = Own(r) /\ entered[r] = <<>>
  <2>1. stage[r] = "mfrw" => file[File(r)] = "complete"
    BY <1>1, FileNames DEF MfrwInv
  <2>2. stage[r] = "graph" /\ Past(r) => file[File(r)] = "complete"
    <3>1. stage[r] = "graph" /\ Past(r) => jobs[r] > 1 /\ graph_single
      BY <1>1 DEF Past, RankInv
    <3> QED  BY <3>1, <1>1, FileNames DEF RankInv
  <2>3. ~ Past(r) => stage[r] = "graph"
    BY <1>1 DEF Past, TypeInv
  <2> QED  BY <2>1, <2>2, <2>3, <1>1, FileNames DEF RankInv, TypeInv
<1>4. file[File(r)] \in {"absent", "complete"}
  <2>1. file[File(r)] \in {"absent", "partial", "complete"}
    BY <1>1, FileNames DEF TypeInv
  <2>2. ~ Past(r) => file[File(r)] # "partial"
    BY <1>1, <1>3 DEF GraphInv
  <2> QED  BY <2>1, <2>2, <1>3
<1>5. MfrwInv'
  BY <1>1 DEF MfrwInv
<1>6. CASE file[File(r)] = "absent"
  <2>1. /\ step' = [step EXCEPT ![r] = "elect"]
        /\ entered' = [entered EXCEPT ![r] = Append(entered[r], "allreduce")]
    BY <1>6 DEF Check, Go, Enter
  <2>2. ~ Past(r) /\ File(r) = Own(r) /\ stage[r] = "graph"
    BY <1>3, <1>6
  <2>3. step'[r] = "elect" /\ entered'[r] = <<"allreduce">>
    <3>1. Append(<<>>, "allreduce") = <<"allreduce">>
      OBVIOUS
    <3> QED  BY <3>1, <2>1, <2>2, <1>1, <1>3 DEF TypeInv
  <2>4. \A q \in Slaves \ {r} : Same(q)
    BY <1>1, <2>1 DEF Same, TypeInv
  <2>5. TypeInv'
    <3>1. <<"allreduce">> \in Entered
      BY DEF Entered
    <3>2. entered' \in [Slaves -> Entered]
      BY <3>1, <2>1, <2>3, <1>1 DEF TypeInv
    <3>3. step' \in [Slaves -> {"check", "elect", "generate", "barrier", "read", "idle"}]
      BY <2>1, <1>1 DEF TypeInv
    <3> QED  BY <3>2, <3>3, <1>1 DEF TypeInv
  <2>6. RankInv(r)'
    <3>1. ~ Past(r)' /\ Own(r)' = Own(r)
      BY <2>2, <2>3, <1>1 DEF Past, Own
    <3> QED  BY <3>1, <2>3, <1>1 DEF RankInv, Past
  <2>7. GraphInv(r)'
    <3>1. Own(r)' = Own(r) /\ minRank(r)' = minRank(r)
      BY DEF Own, minRank
    <3>2. file[Own(r)] = "absent" /\ created[Own(r)] = 0
      BY <1>1, <1>6, <2>2 DEF GraphInv
    <3>3. <<"allreduce">> # <<"allreduce", "barrier">>
      OBVIOUS
    <3> HIDE DEF Own, minRank
    <3> QED  BY <3>1, <3>2, <3>3, <2>3, <1>1 DEF GraphInv
  <2>8. \A q \in Slaves \ {r} : RankInv(q)' /\ GraphInv(q)'
    BY <2>4, <1>1, OthersKept
  <2> QED  BY <2>5, <2>6, <2>7, <2>8, <1>5 DEF IInv
<1>7. CASE file[File(r)] = "complete"
  <2>1. step' = [step EXCEPT ![r] = "read"] /\ entered' = entered
    BY <1>7 DEF Check, Go
  <2>2. step'[r] = "read"
    BY <2>1, <1>1 DEF TypeInv
  <2>3. \A q \in Slaves \ {r} : Same(q)
    BY <1>1, <2>1 DEF Same, TypeInv
  <2>4. TypeInv'
    BY <2>1, <1>1 DEF TypeInv
  <2>5. RankInv(r)'
    <3>1. (Past(r)' <=> Past(r)) /\ Own(r)' = Own(r) /\ File(r)' = File(r)
      BY <2>2, <1>1 DEF Past, Own, File
    <3> HIDE DEF Past, Own, File
    <3> QED  BY <3>1, <2>1, <2>2, <1>1, <1>7 DEF RankInv
  <2>6. GraphInv(r)'
    <3>1. Own(r)' = Own(r) /\ minRank(r)' = minRank(r)
      BY DEF Own, minRank
    <3>2. minRank(r) = r => file[Own(r)] # "partial"
      BY <1>1 DEF GraphInv
    <3>3. minRank(r) # r => step'[minRank(r)] = step[minRank(r)]
      BY <2>1, <1>1, MinRanks DEF TypeInv, Group
    <3> HIDE DEF Own, minRank
    <3> QED  BY <3>1, <3>2, <3>3, <2>1, <2>2, <1>1 DEF GraphInv
  <2>7. \A q \in Slaves \ {r} : RankInv(q)' /\ GraphInv(q)'
    BY <2>3, <1>1, OthersKept
  <2> QED  BY <2>4, <2>5, <2>6, <2>7, <1>5 DEF IInv
<1> QED  BY <1>4, <1>6, <1>7

\* The two collectives that a rank enters.
LEMMA Collectives ==
    /\ Append(<<"allreduce">>, "barrier") = <<"allreduce", "barrier">>
    /\ Len(<<>>) = 0 /\ Len(<<"allreduce">>) = 1 /\ Len(<<"allreduce", "barrier">>) = 2
    /\ <<"allreduce", "barrier">> # <<>> /\ <<"allreduce">> # <<"allreduce", "barrier">>
    /\ <<"allreduce", "barrier">> \in Entered
<1>1. ASSUME NEW a, NEW b
      PROVE  Append(<<a>>, b) = <<a, b>>
  <2>1. <<a>> \in Seq({a, b}) /\ <<a, b>> \in Seq({a, b}) /\ Len(<<a>>) = 1 /\ <<a>>[1] = a
    OBVIOUS
  <2> DEFINE u == Append(<<a>>, b)
  <2>2. u \in Seq({a, b}) /\ Len(u) = 2 /\ u[1] = a /\ u[2] = b
    BY <2>1, AppendProperties
  <2>3. Len(<<a, b>>) = 2 /\ <<a, b>>[1] = a /\ <<a, b>>[2] = b
    OBVIOUS
  <2> HIDE DEF u
  <2>4. \A i \in 1 .. Len(u) : u[i] = <<a, b>>[i]
    BY <2>2, <2>3
  <2>5. u = <<a, b>>
    BY <2>1, <2>2, <2>3, <2>4, SeqEqual
  <2> QED  BY <2>5 DEF u
<1>2. \A a, b : Len(<<a>>) = 1 /\ Len(<<a, b>>) = 2
  OBVIOUS
<1>3. Len(<<>>) = 0
  OBVIOUS
<1>4. \A a, b : <<a, b>> # <<>> /\ <<a>> # <<a, b>>
  BY <1>2, <1>3
<1>5. <<"allreduce", "barrier">> \in Entered
  BY DEF Entered
<1> QED  BY <1>1, <1>2, <1>3, <1>4, <1>5

\* The first rank creates the file once every rank of its group has entered the
\* reduction; the others go to the barrier.
LEMMA ElectedStep ==
    ASSUME NoFreeNode, OwnGraphs, IInv, NEW r \in Slaves, Elected(r)
    PROVE  IInv'
<1>1. /\ step[r] = "elect" /\ UNCHANGED <<sim, jobs, stage, seen>> /\ Completed(r)
      /\ TypeInv /\ MfrwInv /\ RankInv(r) /\ GraphInv(r)
      /\ entered[r] = <<"allreduce">>
  BY DEF Elected, IInv, RankInv
<1>2. /\ ~ Past(r) /\ stage[r] = "graph" /\ jobs[r] = 1 /\ graph_single
      /\ sim[r] = FirstSim(r) /\ File(r) = Own(r) /\ Own(r) \in Files
      /\ Own(r) # <<"mfrw", 0>>
  BY <1>1, Generating
<1>3. Own(r)' = Own(r) /\ minRank(r)' = minRank(r)
  BY DEF Own, minRank
<1>4. Len(<<"allreduce">>) = 1 /\ <<"allreduce">> # <<"allreduce", "barrier">>
      /\ Append(<<"allreduce">>, "barrier") = <<"allreduce", "barrier">>
      /\ <<"allreduce", "barrier">> # <<>> /\ <<"allreduce", "barrier">> \in Entered
      /\ Len(<<>>) = 0
  BY Collectives
<1>5. CASE r = minRank(r)
  <2>1. /\ step' = [step EXCEPT ![r] = "generate"] /\ entered' = entered
        /\ file' = [file EXCEPT ![Own(r)] = "partial"]
        /\ created' = [created EXCEPT ![Own(r)] = created[Own(r)] + 1]
    BY <1>2, <1>5 DEF Elected, Go
  <2>2. created[Own(r)] = 0 /\ file[Own(r)] = "absent"
    BY <1>1, <1>2, <1>5 DEF GraphInv, TypeInv
  <2>3. /\ step'[r] = "generate" /\ file'[Own(r)] = "partial" /\ created'[Own(r)] = 1
        /\ \A f \in Files : f # Own(r) => file'[f] = file[f] /\ created'[f] = created[f]
    BY <2>1, <2>2, <1>1, <1>2 DEF TypeInv
  <2>4. TypeInv'
    <3>1. created' \in [Files -> Nat]
      <4>1. created[Own(r)] + 1 \in Nat /\ created \in [Files -> Nat]
        BY <2>2, <1>1 DEF TypeInv
      <4> QED  BY <4>1, <2>1
    <3>2. file' \in [Files -> {"absent", "partial", "complete"}]
      BY <2>1, <1>1 DEF TypeInv
    <3>3. step' \in [Slaves -> {"check", "elect", "generate", "barrier", "read", "idle"}]
      BY <2>1, <1>1 DEF TypeInv
    <3> QED  BY <3>1, <3>2, <3>3, <2>1, <1>1 DEF TypeInv
  <2>5. MfrwInv'
    <3>1. <<"mfrw", 0>> \in Files
      BY <1>1, FileNames
    <3> QED  BY <3>1, <2>3, <1>1, <1>2 DEF MfrwInv
  <2>6. \A q \in Slaves \ {r} : Same(q)
    BY <2>1, <1>1 DEF Same, TypeInv
  <2>7. Lasting
    BY <2>2, <2>3 DEF Lasting
  <2>8. RankInv(r)'
    <3>1. ~ Past(r)'
      BY <1>1, <1>2, <2>3 DEF Past
    <3>2. entered'[r] = <<"allreduce">> /\ jobs'[r] = 1
      BY <2>1, <1>1, <1>2
    <3> HIDE DEF Past
    <3> QED  BY <3>1, <3>2, <2>3, <1>1, <1>2 DEF RankInv
  <2>9. GraphInv(r)'
    <3>1. entered'[r] = <<"allreduce">>
      BY <2>1, <1>1
    <3> HIDE DEF Own, minRank
    <3> QED  BY <3>1, <2>3, <1>3, <1>4, <1>5 DEF GraphInv
  <2>10. ASSUME NEW q \in Slaves \ {r}
         PROVE  RankInv(q)' /\ GraphInv(q)'
    <3>1. RankInv(q) /\ GraphInv(q) /\ Same(q)
      BY <2>6 DEF IInv
    <3>2. RankInv(q)'
      BY <3>1, <2>7, <1>1, RankKept
    <3>3. CASE FirstSim(q) = FirstSim(r)
      <4>1. q \in Group(r) /\ minRank(q) = r
        BY <3>3, <1>5, MinRanks
      <4>2. Own(q) = Own(r) /\ Own(q)' = Own(q) /\ minRank(q)' = minRank(q)
        BY <3>3 DEF Own, minRank
      <4>3. entered[q] # <<>>
        BY <4>1, <1>1, <1>4 DEF Completed
      <4>4. step[q] # "generate"
        BY <3>1, <4>1 DEF GraphInv
      <4> HIDE DEF Own, minRank
      <4> QED  BY <3>1, <3>2, <4>1, <4>2, <4>3, <4>4, <2>3 DEF GraphInv, Same
    <3>4. CASE FirstSim(q) # FirstSim(r)
      <4>1. Own(q) # Own(r) /\ Own(q) \in Files
        BY <3>4, <3>1, <1>1, FileNames, Groups DEF Own
      <4>2. minRank(q) \in Slaves \ {r}
        BY <3>4, MinRanks
      <4>3. file'[Own(q)] = file[Own(q)] /\ created'[Own(q)] = created[Own(q)]
        BY <4>1, <2>3
      <4>4. step'[minRank(q)] = step[minRank(q)]
        BY <4>2, <2>6 DEF Same
      <4>5. GraphInv(q)'
        BY <3>1, <4>3, <4>4, GraphKept
      <4> QED  BY <4>5, <3>2
    <3> QED  BY <3>2, <3>3, <3>4
  <2> QED  BY <2>4, <2>5, <2>8, <2>9, <2>10 DEF IInv
<1>6. CASE r # minRank(r)
  <2>1. /\ step' = [step EXCEPT ![r] = "barrier"] /\ UNCHANGED <<file, created>>
        /\ entered' = [entered EXCEPT ![r] = Append(entered[r], "barrier")]
    BY <1>6 DEF Elected, Go, Enter
  <2>2. step'[r] = "barrier" /\ entered'[r] = <<"allreduce", "barrier">>
    BY <2>1, <1>1, <1>4 DEF TypeInv
  <2>3. TypeInv'
    <3>1. entered' \in [Slaves -> Entered]
      BY <2>1, <2>2, <1>1, <1>4 DEF TypeInv
    <3>2. step' \in [Slaves -> {"check", "elect", "generate", "barrier", "read", "idle"}]
      BY <2>1, <1>1 DEF TypeInv
    <3> QED  BY <3>1, <3>2, <2>1, <1>1 DEF TypeInv
  <2>4. MfrwInv'
    BY <2>1, <1>1 DEF MfrwInv
  <2>5. \A q \in Slaves \ {r} : Same(q)
    BY <2>1, <1>1 DEF Same, TypeInv
  <2>6. RankInv(r)'
    <3>1. ~ Past(r)'
      BY <1>1, <1>2, <2>2 DEF Past
    <3>2. jobs'[r] = 1 /\ sim'[r] = sim[r]
      BY <1>1, <1>2
    <3> HIDE DEF Past
    <3> QED  BY <3>1, <3>2, <2>2, <1>1, <1>2 DEF RankInv
  <2>7. GraphInv(r)'
    <3>1. step'[minRank(r)] = step[minRank(r)]
      BY <2>1, <1>1, <1>6, MinRanks DEF TypeInv, Group
    <3>2. ~ (file[Own(r)] = "complete" /\ created[Own(r)] = 0)
      BY <1>1 DEF GraphInv
    <3> HIDE DEF Own, minRank
    <3> QED  BY <3>1, <3>2, <2>1, <2>2, <1>1, <1>3, <1>4, <1>6 DEF GraphInv
  <2>8. \A q \in Slaves \ {r} : RankInv(q)' /\ GraphInv(q)'
    BY <2>1, <2>5, <1>1, OthersKept
  <2> QED  BY <2>3, <2>4, <2>6, <2>7, <2>8 DEF IInv
<1> QED  BY <1>5, <1>6

LEMMA GenerateStep ==
    ASSUME NoFreeNode, OwnGraphs, IInv, NEW r \in Slaves, Generate(r)
    PROVE  IInv'
<1>1. /\ step[r] = "generate" /\ UNCHANGED <<sim, jobs, stage, created, seen>>
      /\ TypeInv /\ MfrwInv /\ RankInv(r) /\ GraphInv(r)
      /\ entered[r] = <<"allreduce">>
  BY DEF Generate, IInv, RankInv
<1>2. /\ ~ Past(r) /\ stage[r] = "graph" /\ jobs[r] = 1 /\ graph_single
      /\ sim[r] = FirstSim(r) /\ File(r) = Own(r) /\ Own(r) \in Files
      /\ Own(r) # <<"mfrw", 0>>
  BY <1>1, Generating
<1>3. Own(r)' = Own(r) /\ minRank(r)' = minRank(r)
  BY DEF Own, minRank
<1>4. r = minRank(r) /\ file[Own(r)] = "partial" /\ created[Own(r)] = 1
  BY <1>1 DEF GraphInv
<1>5. /\ step' = [step EXCEPT ![r] = "barrier"]
      /\ entered' = [entered EXCEPT ![r] = Append(entered[r], "barrier")]
      /\ file' = [file EXCEPT ![Own(r)] = "complete"]
  BY <1>2 DEF Generate, Go, Enter
<1>6. /\ Append(<<"allreduce">>, "barrier") = <<"allreduce", "barrier">>
      /\ <<"allreduce", "barrier">> # <<>> /\ <<"allreduce", "barrier">> \in Entered
  BY Collectives
<1>7. /\ step'[r] = "barrier" /\ entered'[r] = <<"allreduce", "barrier">>
      /\ file'[Own(r)] = "complete" /\ created'[Own(r)] = 1
      /\ \A f \in Files : f # Own(r) => file'[f] = file[f]
  BY <1>1, <1>2, <1>4, <1>5, <1>6 DEF TypeInv
<1>8. TypeInv'
  <2>1. entered' \in [Slaves -> Entered]
    BY <1>1, <1>5, <1>6, <1>7 DEF TypeInv
  <2>2. file' \in [Files -> {"absent", "partial", "complete"}]
    BY <1>1, <1>5 DEF TypeInv
  <2>3. step' \in [Slaves -> {"check", "elect", "generate", "barrier", "read", "idle"}]
    BY <1>1, <1>5 DEF TypeInv
  <2> QED  BY <2>1, <2>2, <2>3, <1>1 DEF TypeInv
<1>9. MfrwInv'
  <2>1. <<"mfrw", 0>> \in Files
    BY <1>1, FileNames
  <2> QED  BY <2>1, <1>1, <1>2, <1>7 DEF MfrwInv
<1>10. \A q \in Slaves \ {r} : Same(q)
  BY <1>1, <1>5 DEF Same, TypeInv
<1>11. Lasting
  BY <1>7 DEF Lasting
<1>12. RankInv(r)'
  <2>1. ~ Past(r)'
    BY <1>1, <1>2, <1>7 DEF Past
  <2>2. jobs'[r] = 1 /\ sim'[r] = sim[r]
    BY <1>1, <1>2
  <2> HIDE DEF Past
  <2> QED  BY <2>1, <2>2, <1>1, <1>2, <1>7 DEF RankInv
<1>13. GraphInv(r)'
  <2> HIDE DEF Own, minRank
  <2> QED  BY <1>3, <1>6, <1>7 DEF GraphInv
<1>14. ASSUME NEW q \in Slaves \ {r}
       PROVE  RankInv(q)' /\ GraphInv(q)'
  <2>1. RankInv(q) /\ GraphInv(q) /\ Same(q)
    BY <1>10 DEF IInv
  <2>2. RankInv(q)'
    BY <2>1, <1>1, <1>11, RankKept
  <2>3. CASE FirstSim(q) = FirstSim(r)
    <3>1. minRank(q) = r
      BY <2>3, <1>4, MinRanks
    <3>2. Own(q) = Own(r) /\ Own(q)' = Own(q) /\ minRank(q)' = minRank(q)
      BY <2>3 DEF Own, minRank
    <3> HIDE DEF Own, minRank
    <3> QED  BY <2>1, <2>2, <3>1, <3>2, <1>4, <1>7 DEF GraphInv, Same
  <2>4. CASE FirstSim(q) # FirstSim(r)
    <3>1. Own(q) # Own(r) /\ Own(q) \in Files
      BY <2>4, <2>1, <1>1, FileNames, Groups DEF Own
    <3>2. minRank(q) \in Slaves \ {r}
      BY <2>4, MinRanks
    <3>3. file'[Own(q)] = file[Own(q)] /\ created'[Own(q)] = created[Own(q)]
      BY <3>1, <1>1, <1>7
    <3>4. step'[minRank(q)] = step[minRank(q)]
      BY <3>2, <1>10 DEF Same
    <3>5. GraphInv(q)'
      BY <2>1, <3>3, <3>4, GraphKept
    <3> QED  BY <3>5, <2>2
  <2> QED  BY <2>3, <2>4
<1> QED  BY <1>8, <1>9, <1>12, <1>13, <1>14 DEF IInv

\* The barrier is complete when the first rank has entered it as well, and then
\* the graph is there.
LEMMA PassBarrierStep ==
    ASSUME NoFreeNode, OwnGraphs, IInv, NEW r \in Slaves, PassBarrier(r)
    PROVE  IInv'
<1>1. /\ step[r] = "barrier" /\ UNCHANGED <<sim, jobs, entered, file, created, seen>>
      /\ Completed(r) /\ TypeInv /\ MfrwInv /\ RankInv(r) /\ GraphInv(r)
      /\ entered[r] = <<"allreduce", "barrier">>
  BY DEF PassBarrier, IInv, RankInv
<1>2. /\ ~ Past(r) /\ stage[r] = "graph" /\ jobs[r] = 1 /\ graph_single
      /\ sim[r] = FirstSim(r) /\ File(r) = Own(r) /\ Own(r) \in Files
  BY <1>1, Generating
<1>3. file[Own(r)] = "complete"
  <2> DEFINE m == minRank(r)
  <2>1. m \in Group(r) /\ m \in Slaves /\ minRank(m) = m /\ FirstSim(m) = FirstSim(r)
    BY MinRanks
  <2>2. Own(m) = Own(r)
    BY <2>1 DEF Own
  <2> HIDE DEF m
  <2>3. /\ Len(<<"allreduce", "barrier">>) = 2 /\ Len(<<>>) = 0
        /\ Len(<<"allreduce">>) = 1
    BY Collectives
  <2>4. Len(entered[m]) >= 2 /\ entered[m] \in Entered
    BY <2>1, <2>3, <1>1 DEF Completed, TypeInv
  <2>5. entered[m] = <<"allreduce", "barrier">>
    <3>1. CASE entered[m] = <<>>
      BY <3>1, <2>3, <2>4
    <3>2. CASE entered[m] = <<"allreduce">>
      BY <3>2, <2>3, <2>4
    <3> QED  BY <3>1, <3>2, <2>4 DEF Entered
  <2>6. GraphInv(m)
    BY <2>1 DEF IInv
  <2> HIDE DEF Own
  <2> QED  BY <2>1, <2>2, <2>5, <2>6 DEF GraphInv
<1>4. step' = [step EXCEPT ![r] = "read"] /\ stage' = stage
  BY <1>2 DEF PassBarrier, Go
<1>5. step'[r] = "read" /\ \A q \in Slaves \ {r} : step'[q] = step[q]
  BY <1>1, <1>4 DEF TypeInv
<1>6. TypeInv' /\ MfrwInv'
  <2>1. step' \in [Slaves -> {"check", "elect", "generate", "barrier", "read", "idle"}]
    BY <1>1, <1>4 DEF TypeInv
  <2> QED  BY <2>1, <1>1, <1>4 DEF TypeInv, MfrwInv
<1>7. \A q \in Slaves \ {r} : Same(q)
  BY <1>1, <1>4, <1>5 DEF Same
<1>8. RankInv(r)'
  <2>1. ~ Past(r)' /\ File(r)' = Own(r)
    BY <1>1, <1>2, <1>4, <1>5 DEF Past, File
  <2>2. jobs'[r] = 1 /\ sim'[r] = sim[r] /\ file'[Own(r)] = "complete"
    BY <1>1, <1>2, <1>3
  <2> HIDE DEF Past, Own, File
  <2> QED  BY <2>1, <2>2, <1>2, <1>4, <1>5 DEF RankInv
<1>9. GraphInv(r)'
  <2>1. Own(r)' = Own(r) /\ minRank(r)' = minRank(r)
    BY DEF Own, minRank
  <2> HIDE DEF Own, minRank
  <2> QED  BY <2>1, <1>1, <1>3, <1>5 DEF GraphInv
<1>10. \A q \in Slaves \ {r} : RankInv(q)' /\ GraphInv(q)'
  BY <1>1, <1>7, OthersKept
<1> QED  BY <1>6, <1>8, <1>9, <1>10 DEF IInv

\* A rank that is beyond its graph, whatever it did before.
LEMMA PastStep ==
    ASSUME NoFreeNode, OwnGraphs, IInv, NEW r \in Slaves,
           step[r] # "generate", file' = file, created' = created, seen' \subseteq {"complete"},
           entered' = entered, TypeInv',
           \A q \in Slaves \ {r} : Same(q),
           Past(r)', step'[r] \in {"check", "idle"},
           graph_single => file[Own(r)] = "complete",
           stage'[r] = "mfrw" => NeedsMfrw,
           stage'[r] = "graph" => graph_single,
           jobs'[r] = 1 => sim'[r] = FirstSim(r),
           jobs'[r] > 1 /\ graph_single => file[<<"graph", sim'[r]>>] = "complete"
    PROVE  IInv'
<1>1. TypeInv /\ MfrwInv /\ RankInv(r) /\ GraphInv(r)
  BY DEF IInv
<1>2. Own(r)' = Own(r) /\ minRank(r)' = minRank(r)
  BY DEF Own, minRank
<1>3. MfrwInv'
  <2>1. \A q \in Slaves \ {r} : stage'[q] = stage[q]
    BY DEF Same
  <2> QED  BY <2>1, <1>1 DEF MfrwInv
<1>4. RankInv(r)'
  <2> HIDE DEF Own, Past
  <2> QED  BY <1>2 DEF RankInv
<1>5. GraphInv(r)'
  <2>1. minRank(r) = r => file[Own(r)] # "partial"
    BY <1>1 DEF GraphInv
  <2>2. minRank(r) # r => step'[minRank(r)] = step[minRank(r)]
    <3>1. minRank(r) \in Slaves
      BY MinRanks DEF Group
    <3> QED  BY <3>1 DEF Same
  <2> HIDE DEF Own, minRank
  <2> QED  BY <2>1, <2>2, <1>1, <1>2 DEF GraphInv
<1>6. \A q \in Slaves \ {r} : RankInv(q)' /\ GraphInv(q)'
  BY OthersKept
<1> QED  BY <1>3, <1>4, <1>5, <1>6 DEF IInv

LEMMA ReadStep ==
    ASSUME NoFreeNode, OwnGraphs, IInv, NEW r \in Slaves, Read(r)
    PROVE  IInv'
<1>1. /\ step[r] = "read" /\ UNCHANGED <<sim, jobs, entered, file, created>>
      /\ TypeInv /\ MfrwInv /\ RankInv(r) /\ Leave(r)
      /\ seen' = seen \cup {file[File(r)]}
  BY DEF Read, IInv
<1>2. file[File(r)] = "complete"
  BY <1>1 DEF RankInv
<1>3. graph_single => file[Own(r)] = "complete"
  <2>1. CASE Past(r)
    BY <2>1, <1>1 DEF RankInv
  <2>2. CASE ~ Past(r)
    <3>1. stage[r] = "graph"
      BY <2>2, <1>1 DEF Past, TypeInv
    <3>2. File(r) = Own(r)
      BY <3>1, <2>2, <1>1, FileNames
    <3> QED  BY <3>2, <1>2
  <2> QED  BY <2>1, <2>2
<1>4. \/ /\ stage[r] = "graph" /\ mfrw_single
         /\ stage' = [stage EXCEPT ![r] = "mfrw"] /\ step' = [step EXCEPT ![r] = "check"]
      \/ stage' = stage /\ step' = [step EXCEPT ![r] = "idle"]
  BY <1>1 DEF Leave, Go
<1>5. /\ \/ stage'[r] = "mfrw" /\ step'[r] = "check" /\ mfrw_single
         \/ stage'[r] = stage[r] /\ step'[r] = "idle"
      /\ \A q \in Slaves \ {r} : stage'[q] = stage[q] /\ step'[q] = step[q]
  BY <1>1, <1>4 DEF TypeInv
<1>6. TypeInv'
  <2>1. step' \in [Slaves -> {"check", "elect", "generate", "barrier", "read", "idle"}]
    BY <1>1, <1>4 DEF TypeInv
  <2>2. stage' \in [Slaves -> {"graph", "mfrw"}]
    BY <1>1, <1>4 DEF TypeInv
  <2> QED  BY <2>1, <2>2, <1>1, <1>2 DEF TypeInv
<1>7. \A q \in Slaves \ {r} : Same(q)
  BY <1>1, <1>5 DEF Same
<1>8. Past(r)' /\ step'[r] \in {"check", "idle"}
  BY <1>5 DEF Past
<1>9. /\ stage'[r] = "mfrw" => NeedsMfrw
      /\ stage'[r] = "graph" => graph_single
  BY <1>1, <1>5 DEF RankInv, MfrwInv, NeedsMfrw
<1>10. /\ jobs'[r] = 1 => sim'[r] = FirstSim(r)
       /\ jobs'[r] > 1 /\ graph_single => file[<<"graph", sim'[r]>>] = "complete"
  BY <1>1 DEF RankInv
<1>11. seen' \subseteq {"complete"}
  BY <1>1, <1>2 DEF TypeInv
<1> HIDE DEF Past, Own, NeedsMfrw
<1> QED  BY <1>1, <1>3, <1>6, <1>7, <1>8, <1>9, <1>10, <1>11, PastStep

\* A rank is given another simulation when every rank that began with it has
\* finished: the graph of that simulation is there.
LEMMA NextJobStep ==
    ASSUME NoFreeNode, OwnGraphs, IInv, NEW r \in Slaves, NextJob(r)
    PROVE  IInv'
<1>1. /\ step[r] = "idle" /\ UNCHANGED <<entered, file, created, seen>>
      /\ TypeInv /\ MfrwInv /\ RankInv(r)
      /\ jobs' = [jobs EXCEPT ![r] = jobs[r] + 1]
      /\ stage' = [stage EXCEPT ![r] = IF graph_single THEN "graph" ELSE "mfrw"]
      /\ step' = [step EXCEPT ![r] = "check"]
  BY DEF NextJob, IInv, Go
<1>2. PICK s \in Sims : FirstBatchOver(s) /\ sim' = [sim EXCEPT ![r] = s]
  BY DEF NextJob
<1>3. graph_single => file[<<"graph", s>>] = "complete"
  <2>1. PICK q \in Slaves : FirstSim(q) = s
    BY Groups
  <2>2. Past(q) /\ RankInv(q)
    BY <2>1, <1>2 DEF FirstBatchOver, Past, IInv
  <2>3. Own(q) = <<"graph", s>>
    BY <2>1 DEF Own
  <2> HIDE DEF Past, Own
  <2> QED  BY <2>2, <2>3 DEF RankInv
<1>4. /\ jobs'[r] = jobs[r] + 1 /\ jobs[r] \in Nat \ {0} /\ step'[r] = "check"
      /\ stage'[r] = (IF graph_single THEN "graph" ELSE "mfrw") /\ sim'[r] = s
  BY <1>1, <1>2 DEF TypeInv
<1>5. TypeInv'
  <2>1. step' \in [Slaves -> {"check", "elect", "generate", "barrier", "read", "idle"}]
    BY <1>1 DEF TypeInv
  <2>2. stage' \in [Slaves -> {"graph", "mfrw"}]
    BY <1>1 DEF TypeInv
  <2>3. jobs' \in [Slaves -> Nat \ {0}]
    BY <1>1, <1>4 DEF TypeInv
  <2>4. sim' \in [Slaves -> Sims]
    BY <1>1, <1>2 DEF TypeInv
  <2> QED  BY <2>1, <2>2, <2>3, <2>4, <1>1 DEF TypeInv
<1>6. \A q \in Slaves \ {r} : Same(q)
  BY <1>1, <1>2 DEF Same, TypeInv
<1>7. Past(r)' /\ step'[r] \in {"check", "idle"}
  BY <1>4 DEF Past
<1>8. graph_single => file[Own(r)] = "complete"
  BY <1>1 DEF RankInv, Past
<1>9. /\ stage'[r] = "mfrw" => NeedsMfrw
      /\ stage'[r] = "graph" => graph_single
  BY <1>4 DEF NeedsMfrw
<1>10. /\ jobs'[r] = 1 => sim'[r] = FirstSim(r)
       /\ jobs'[r] > 1 /\ graph_single => file[<<"graph", sim'[r]>>] = "complete"
  BY <1>3, <1>4
<1>11. seen' \subseteq {"complete"}
  BY <1>1 DEF TypeInv
<1>12. step[r] # "generate"
  BY <1>1
<1> HIDE DEF Past, Own, NeedsMfrw
<1> QED  BY <1>1, <1>5, <1>6, <1>7, <1>8, <1>9, <1>10, <1>11, <1>12, PastStep

LEMMA InitIInv ==
    ASSUME NoFreeNode, OwnGraphs, Init
    PROVE  IInv
<1>1. ASSUME NEW r \in Slaves
      PROVE  /\ FirstSim(r) \in Sims /\ Own(r) \in Files /\ created[Own(r)] = 0
             /\ file[Own(r)] \in {"absent", "complete"}
             /\ sim[r] = FirstSim(r) /\ jobs[r] = 1 /\ step[r] = "check" /\ entered[r] = <<>>
             /\ stage[r] = IF graph_single THEN "graph" ELSE "mfrw"
  <2>1. FirstSim(r) \in Sims
    BY Groups
  <2>2. Own(r) \in Files
    BY <2>1 DEF Own, Files, Graphs
  <2> QED  BY <2>1, <2>2 DEF Init
<1>2. TypeInv
  <2>1. sim \in [Slaves -> Sims]
    BY <1>1 DEF Init
  <2>2. entered \in [Slaves -> Entered] /\ created \in [Files -> Nat]
    BY DEF Init, Entered
  <2>3. file \in [Files -> {"absent", "partial", "complete"}]
    BY DEF Init
  <2>4. stage \in [Slaves -> {"graph", "mfrw"}]
    BY DEF Init
  <2>5. jobs \in [Slaves -> Nat \ {0}] /\ seen \subseteq {"complete"}
        /\ step \in [Slaves -> {"check", "elect", "generate", "barrier", "read", "idle"}]
    BY DEF Init
  <2> QED  BY <2>1, <2>2, <2>3, <2>4, <2>5 DEF TypeInv
<1>3. MfrwInv
  <2>1. created[<<"mfrw", 0>>] = 0
    BY DEF Init, Files
  <2>2. NeedsMfrw => file[<<"mfrw", 0>>] = "complete"
    BY DEF Init, NeedsMfrw, OwnGraphs
  <2>3. \A r \in Slaves : stage[r] = "mfrw" => NeedsMfrw
    BY <1>1 DEF NeedsMfrw
  <2> QED  BY <2>1, <2>2, <2>3 DEF MfrwInv
<1>4. ASSUME NEW r \in Slaves
      PROVE  RankInv(r)
  <2>1. Past(r) => ~ graph_single
    BY <1>1 DEF Past
  <2> QED  BY <2>1, <1>1 DEF RankInv
<1>5. ASSUME NEW r \in Slaves
      PROVE  GraphInv(r)
  <2>1. <<>> # <<"allreduce", "barrier">>
    BY Collectives
  <2> HIDE DEF Own, minRank
  <2> QED  BY <2>1, <1>1 DEF GraphInv
<1> QED  BY <1>2, <1>3, <1>4, <1>5 DEF IInv

LEMMA NextIInv ==
    ASSUME NoFreeNode, OwnGraphs, IInv, [Next]_vars
    PROVE  IInv'
<1>1. ASSUME NEW r \in Slaves, Prepare(r) \/ NextJob(r)
      PROVE  IInv'
  BY <1>1, CheckStep, ElectedStep, GenerateStep, PassBarrierStep, ReadStep, NextJobStep
     DEF Prepare
<1>2. CASE UNCHANGED vars
  <2>1. \A q \in Slaves : Same(q)
    BY <1>2 DEF vars, Same
  <2>2. TypeInv' /\ MfrwInv' /\ Lasting
    BY <1>2 DEF vars, IInv, TypeInv, MfrwInv, Lasting
  <2>3. ASSUME NEW q \in Slaves
        PROVE  RankInv(q)' /\ GraphInv(q)'
    <3>1. TypeInv /\ RankInv(q) /\ GraphInv(q) /\ Same(q)
      BY <2>1 DEF IInv
    <3>2. file' = file /\ created' = created /\ step' = step
      BY <1>2 DEF vars
    <3> QED  BY <2>2, <3>1, <3>2, RankKept, GraphKept
  <2> QED  BY <2>2, <2>3 DEF IInv
<1> QED  BY <1>1, <1>2 DEF Next, Idle

-----------------------------------------------------------------------------
(* The theorems.                                                           *)

\* "wait for the graph to be serialised": on every cluster without free nodes,
\* where each communicator has a graph of its own, no rank of Simulation.cc reads
\* a graph or the arrivals before they are complete, in whatever order the ranks
\* get there.
THEOREM ReadsCompleteHolds ==
    ASSUME NoFreeNode, OwnGraphs
    PROVE  Spec => []ReadsComplete
<1>1. Init => IInv
  BY InitIInv
<1>2. IInv /\ [Next]_vars => IInv'
  BY NextIInv
<1>3. IInv => ReadsComplete
  BY DEF IInv, TypeInv, ReadsComplete
<1> QED  BY <1>1, <1>2, <1>3, PTL DEF Spec

\* "generate only a single graph": on the same clusters Simulation.cc generates
\* no file twice, whichever rank looks for it first.
THEOREM GeneratedOnceHolds ==
    ASSUME NoFreeNode, OwnGraphs
    PROVE  Spec => []GeneratedOnce
<1>1. Init => IInv
  BY InitIInv
<1>2. IInv /\ [Next]_vars => IInv'
  BY NextIInv
<1>3. ASSUME IInv
      PROVE  GeneratedOnce
  <2>1. SUFFICES ASSUME NEW f \in Files
                 PROVE  created[f] <= 1
    BY DEF GeneratedOnce
  <2>2. CASE f = <<"mfrw", 0>>
    BY <2>2, <1>3 DEF IInv, MfrwInv
  <2>3. CASE f \in Graphs
    <3>1. PICK s \in Sims : f = <<"graph", s>>
      BY <2>3 DEF Graphs
    <3>2. PICK m \in Slaves : FirstSim(m) = s
      BY Groups
    <3>3. Own(m) = f
      BY <3>1, <3>2 DEF Own
    <3> QED  BY <3>3, <1>3 DEF IInv, GraphInv
  <2> QED  BY <2>2, <2>3 DEF Files
<1>4. IInv => GeneratedOnce
  BY <1>3
<1> QED  BY <1>1, <1>2, <1>4, PTL DEF Spec
=============================================================================
