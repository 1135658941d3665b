------------------------------ MODULE Learning ------------------------------
(***************************************************************************)
(* What the servers of a simulation learn: the handlers of acknowledgement *)
(* events that Simulation.cc attaches, and the policies by which a server  *)
(* selects the next one (core/event/*ResponseHandler.cc, core/rl).         *)
(*                                                                         *)
(* A job walks through the network, one tick or more at every server, and  *)
(* its acknowledgement walks back at one instant.  How servers and the     *)
(* event queue work is the matter of EventProcessing; here they are queues *)
(* of jobs.  Values and weights are quotients, and so is what a network    *)
(* predicts, in 1 / Unit.                                                  *)
(***************************************************************************)
EXTENDS Simplex, NeuralNetwork

CONSTANTS
    Configs,      \* the configurations (desArgs)
    Network,      \* the edges, pairs of vertices, in the order of their index
    Entrances,    \* vertices with external arrivals
    RandomIters,  \* what the memory of m_randomIter, never initialised, may hold
    MaxJobs, MaxTime, MaxWeight

Vertices == {Network[n][1] : n \in DOMAIN Network} \cup {Network[n][2] : n \in DOMAIN Network}
Edges == {Network[n] : n \in DOMAIN Network}
eindex(e) == CHOOSE n \in DOMAIN Network : Network[n] = e

\* The edges with these indices, in their order.
Listed(I) ==
    [k \in 1 .. Cardinality(I) |-> Network[CHOOSE n \in I : Cardinality({m \in I : m < n}) = k - 1]]

\* The targets of the edges that leave v, in their order.
Targets(v) ==
    LET out == Listed({n \in DOMAIN Network : Network[n][1] = v}) IN [n \in DOMAIN out |-> out[n][2]]
Sources(v) == {e[1] : e \in {f \in Edges : f[2] = v}}
Degree(v) == Len(Targets(v))

Policies == {"epsilon greedy", "boltzmann", "wpl", "fal", "gradient"}

\* Edges are kept in a set, so that no two join the same vertices (DirectedGraph.hh:585).
ASSUME NetworkAssumption ==
    /\ Network \in Seq(Nat \X Nat)
    /\ \A i, j \in DOMAIN Network : Network[i] = Network[j] => i = j
    /\ \A e \in Edges : e[1] # e[2]
    /\ Entrances \subseteq Vertices
\* A network is made with an input for every feature of the state, here one, and one output.
ASSUME NetsAssumption == NumInputs = 1 /\ NumOutputs = 1
ASSUME RandomItersAssumption == RandomIters \subseteq 0 .. 65535
ASSUME ConfigsAssumption == \A c \in Configs :
    /\ {c.rl, c.rl_hybrid, c.state, c.nn_outsource, c.nn_cg, c.sliding, c.rl_ci,
        c.regret, c.incentive, c.expert, c.coefficient_variation} \subseteq BOOLEAN
    /\ c.rl_policy \in Policies
    /\ c.representation \in {2, 50, 51, 55}
    /\ c.rl_hybrid_warmup \in Nat
    /\ {c.epsilon, c.q_alpha, c.q_lambda} \subseteq Rationals
    /\ Below(Zero, c.epsilon) /\ Below(c.epsilon, One)

VARIABLES
    desArgs, randomIter,
    now,
    line,      \* vertex -> the jobs at its server, the first in service
    job,       \* job -> its history, and where and when it arrived
    acks,      \* the acknowledgements of this instant, in order
    vertex,    \* vertex -> its properties
    edge,      \* edge -> its properties
    qStats,    \* index of an edge, or of a vertex -> OnlineStats
    nets,      \* the same -> neural network
    given,     \* edge -> the delays of the jobs acknowledged over it
    sample     \* the network trained last, its inputs, and the state they are of

vars == <<desArgs, randomIter, now, line, job, acks, vertex, edge, qStats, nets, given, sample>>

-----------------------------------------------------------------------------
(* OnlineStats.cc *)
Cleared == [n |-> 0, mean |-> Zero]
Push(st, x) == [n |-> st.n + 1, mean |-> st.mean ++ ((x -- st.mean) // Whole(st.n + 1))]

\* Stats.cc
Mean(n, xbar, x) == xbar ++ ((x -- xbar) // Whole(n))

-----------------------------------------------------------------------------
(* RLStateHelper: the input for a network, a feature of one of the servers *)
(* of the edge that the acknowledgement being handled does not change.     *)
NumberInQueue(v) == IF line[v] = <<>> THEN 0 ELSE Len(line[v]) - 1
fillStateVector(e) ==
    CASE desArgs.representation = 2 -> <<NumberInQueue(e[1])>>
      [] desArgs.representation = 50 -> <<vertex[e[2]].expert_normal[1]>>
      [] desArgs.representation = 51 -> <<vertex[e[2]].expert_absolute[1]>>
      [] desArgs.representation = 55 -> <<NumberInQueue(e[2])>>

\* The full handler may keep one network, and statistics, for a vertex in the
\* place of one for every edge.
Outsourced == desArgs.rl /\ desArgs.state /\ ~ desArgs.rl_hybrid /\ desArgs.nn_outsource

\* One network for all the servers a vertex sends to.
NetOfSource(e) == IF Outsourced THEN e[1] ELSE eindex(e)

\* The network, and the statistics, of an edge.
NetOf(e) == IF Outsourced THEN e[2] ELSE eindex(e)
Indices == IF Outsourced THEN Vertices ELSE DOMAIN Network

-----------------------------------------------------------------------------
(* The policies.  A policy is given the actions with their values, in some *)
(* order, and yields the actions it may choose with the properties of the  *)
(* edges it leaves behind.                                                 *)

Orders(S) == {s \in [1 .. Cardinality(S) -> S] : \A i, j \in DOMAIN s : s[i] = s[j] => i = j}

\* std::sort by val_greater, which leaves open how it orders equal values.
Sorted(values) ==
    {s \in Orders({values[n] : n \in DOMAIN values}) :
        \A i, j \in DOMAIN s : i < j => ~ Below(s[i][2], s[j][2])}

Choice(action, edges) == [edge |-> edges, action |-> action]

Weigh(edges, v, values, w) ==
    [e \in Edges |->
        IF e[1] = v THEN [edges[e] EXCEPT !.weight = w[CHOOSE n \in DOMAIN values : values[n][1] = e[2]]]
                    ELSE edges[e]]

EpsilonGreedy(v, values, edges) ==
    LET n == Len(values)
        w == [i \in 1 .. n |-> IF i = 1 THEN One -- desArgs.epsilon ELSE desArgs.epsilon // Whole(n - 1)]
    IN  {Choice(values[i][1], Weigh(edges, v, s, w)) : i \in 1 .. n, s \in Sorted(values)}

BoltzmannPolicy(v, values, edges) == {Choice(values[i][1], edges) : i \in DOMAIN values}

\* The steps the learners share once they have a gradient.
Normalised(w) ==
    LET sum == SumOf(w, DOMAIN w) IN IF sum = One THEN w ELSE mult(w, One // sum)

\* Learners that forget to bring the projection back to a sum of one.
ProjectedOnly(w) ==
    LET n == Len(w)
    IN  {scale(p, desArgs.epsilon, One -- (Whole(n - 1) ** desArgs.epsilon)) :
            p \in projectionDuchi(w, One, Zero)}

\* Back on the simplex, and away from its faces: no action is given up.
Projected(w) ==
    LET n == Len(w)
    IN  {scale(Normalised(p), desArgs.epsilon, One -- (Whole(n - 1) ** desArgs.epsilon)) :
            p \in projectionDuchi(w, One, Zero)}

Step(v, values, edges, gradient) ==
    UNION {{Choice(values[i][1], Weigh(edges, v, values, p)) :
            i \in {n \in DOMAIN p : Below(Zero, p[n])}} : p \in Projected(gradient)}

MeanValue(v, values, edges) ==
    LET part == [n \in DOMAIN values |-> values[n][2] ** edges[<<v, values[n][1]>>].weight]
    IN  SumOf(part, DOMAIN part)
Signal(v, values, edges, n) == values[n][2] -- MeanValue(v, values, edges)
Orig(v, values, edges, n) == edges[<<v, values[n][1]>>].weight

WeightedPolicyLearner(v, values, edges) ==
    Step(v, values, edges, [n \in DOMAIN values |->
        LET w == Orig(v, values, edges, n)
            diff == Signal(v, values, edges, n)
        IN  w ++ (diff ** (IF Below(Zero, diff) THEN One -- w ELSE w))])

FairActionLearner(v, values, edges) ==
    Step(v, values, edges, [n \in DOMAIN values |->
        Orig(v, values, edges, n) ++ Signal(v, values, edges, n)])

\* A signal halves with every tick.
Decayed(x, ticks) == x // Whole(2 ^ ticks)

\* Signals that add up without a bound.
FeltUnbounded(e, properties, signal) ==
    LET p == properties[e]
        pos == Decayed(p.e_pos, now - p.lastTime) ++ Greater(signal, Zero)
        neg == Decayed(p.e_neg, now - p.lastTime) ++ Lesser(signal, Zero)
    IN  [p EXCEPT !.e_pos = pos, !.e_neg = neg, !.rmin = Lesser(@, signal),
                  !.rmax = Greater(@, signal), !.emotion = pos ++ neg, !.lastTime = now]

\* The two signals decay, take in the difference, and are bounded by what was felt.
Felt(e, properties, signal) ==
    LET p == properties[e]
        pos == Decayed(p.e_pos, now - p.lastTime) ++ Greater(signal, Zero)
        neg == Decayed(p.e_neg, now - p.lastTime) ++ Lesser(signal, Zero)
        rmin == Lesser(p.rmin, signal)
        rmax == Greater(p.rmax, signal)
    IN  [p EXCEPT !.e_pos = pos, !.e_neg = neg, !.rmin = rmin, !.rmax = rmax,
                  !.emotion = Lesser(pos, rmax) ++ Greater(neg, rmin), !.lastTime = now]

GradientPolicyLearner(v, values, edges) ==
    LET felt == [e \in Edges |->
            IF e[1] = v
            THEN Felt(e, edges, Signal(v, values, edges, CHOOSE n \in DOMAIN values : values[n][1] = e[2]))
            ELSE edges[e]]
    IN  Step(v, values, felt, [n \in DOMAIN values |->
            Orig(v, values, felt, n) ++ felt[<<v, values[n][1]>>].emotion])

m_policy(v, values, edges) ==
    IF Len(values) = 1 THEN {Choice(values[1][1], edges)}
    ELSE CASE desArgs.rl_policy = "epsilon greedy" -> EpsilonGreedy(v, values, edges)
           [] desArgs.rl_policy = "boltzmann" -> BoltzmannPolicy(v, values, edges)
           [] desArgs.rl_policy = "wpl" -> WeightedPolicyLearner(v, values, edges)
           [] desArgs.rl_policy = "fal" -> FairActionLearner(v, values, edges)
           [] OTHER -> GradientPolicyLearner(v, values, edges)

-----------------------------------------------------------------------------
(* The handlers of a response at v, from the server v2 it selected, with   *)
(* the reward.  Each yields what it may leave behind.                      *)

State == [vertex |-> vertex, edge |-> edge, qStats |-> qStats, nets |-> nets, sample |-> sample]

\* Entry::getReward: minus the time since the arrival on top of the history.
Reward(top) == IF top - now < 0 THEN Whole(top - now) ELSE Zero

\* ResponseStatsHandler: the time it takes from the top, which is never after now, on top.
ResponseStats(s, v, top) ==
    LET size == s.vertex[v].num_events_processed + 1
        x == IF top - now > 0 THEN Whole(top - now) ELSE Zero
    IN  [s EXCEPT !.vertex[v].num_events_processed = size,
                  !.vertex[v].mean_reward = IF size < 2 THEN x ELSE Mean(size + 1, @, x)]

ExpertNormal(s, v, reward) == [s EXCEPT !.vertex[v].expert_normal = @ ++ reward]

\* A reward is never positive.
ExpertAbsolute(s, v, reward) == [s EXCEPT !.vertex[v].expert_absolute = @ -- reward]

\* What was expected: the value of the edge, or the mean where jobs leave.
Expected(s, v, from) == IF Degree(v) > 0 THEN s.edge[<<v, from>>].q_val ELSE s.vertex[v].mean_reward

ExpertPositive(s, v, from, reward) ==
    [s EXCEPT !.vertex[v].expert_positive = @ ++ Greater(reward -- Expected(s, v, from), Zero)]
ExpertNegative(s, v, from, reward) ==
    [s EXCEPT !.vertex[v].expert_negative = @ ++ Greater(Expected(s, v, from) -- reward, Zero)]

\* The handlers of the expert metrics, in the order in which they are attached.
Rated(s, v, from, top) ==
    LET reward == Reward(top)
        normal == ExpertNormal(ResponseStats(s, v, top), v, reward)
        positive == ExpertPositive(ExpertAbsolute(normal, v, reward), v, from, reward)
    IN  IF desArgs.expert THEN ExpertNegative(positive, v, from, reward) ELSE s

\* The only action of a vertex: its value is the mean of the rewards.
OnlyAction(s, v, reward, i) ==
    LET e == <<v, Targets(v)[1]>>
        st == Push(s.qStats[i], reward)
    IN  [s EXCEPT !.qStats[i] = st, !.edge[e].q_val = st.mean, !.vertex[v].next_action = e[2]]

NoAction(s, v) == [s EXCEPT !.vertex[v].next_action = 0]

DefaultResponse(s, v, from, top) ==
    LET e == <<v, from>>
        st == Push(s.qStats[eindex(e)], Whole(top - now))
    IN  IF Degree(v) = 0 THEN {s}
        ELSE {[s EXCEPT !.qStats[eindex(e)] = st, !.edge[e].q_val = st.mean]}

\* The value of the edge moves towards the reward and the value of the next action.
RLUpdate(s, v, from, reward, c) ==
    LET next == s.edge[<<v, c.action>>].q_val
    IN  [s EXCEPT !.edge = [c.edge EXCEPT ![<<v, from>>].q_val =
                       @ ++ (desArgs.q_alpha ** reward)
                         ++ ((desArgs.q_alpha ** desArgs.q_lambda ** next) -- (desArgs.q_alpha ** @))],
                  !.vertex[v].next_action = c.action]

RLResponse(s, v, from, top) ==
    LET values == [n \in 1 .. Degree(v) |-> <<Targets(v)[n], s.edge[<<v, Targets(v)[n]>>].q_val>>]
    IN  CASE Degree(v) > 1 -> {RLUpdate(s, v, from, Reward(top), c) : c \in m_policy(v, values, s.edge)}
          [] Degree(v) = 1 -> {OnlyAction(s, v, Reward(top), eindex(<<v, from>>))}
          [] OTHER -> {NoAction(s, v)}

-----------------------------------------------------------------------------
Fed(networks, e) == [networks EXCEPT ![NetOf(e)] = Present(@, fillStateVector(e))]
Output(networks, e) == networks[NetOf(e)].outputs[1]
Predicted(networks, e) == Reduced(Output(networks, e), Unit)

Out(v) == {e \in Edges : e[1] = v}

\* The networks of a set of edges, once they are presented the state.
FedAll(networks, S) == FoldSet(LAMBDA e, ns : Fed(ns, e), networks, S)

\* The hooks into total regret and incentive to deviate.
Regretted(s, v, from, reward, ordered) ==
    LET value(w) == ordered[CHOOSE n \in DOMAIN ordered : ordered[n][1] = w][2]
        actual == s.vertex[v].actual_reward ++ reward
        total(e) == s.edge[e].total_reward ++ (IF e[2] = from THEN reward ELSE value(e[2]))
    IN  IF ~ desArgs.regret THEN s
        ELSE [s EXCEPT !.vertex[v].actual_reward = actual,
                       !.vertex[v].regret_absolute = total(<<v, ordered[1][1]>>) -- actual,
                       !.edge = [e \in Edges |-> IF e[1] = v THEN [@[e] EXCEPT !.total_reward = total(e)] ELSE @[e]]]
Deviated(s, v, reward, ordered) ==
    IF ~ desArgs.incentive THEN s
    ELSE [s EXCEPT !.vertex[v].incentive_deviate = Greater(Zero, ordered[1][2] -- reward)]

Hooked(v, values) == IF desArgs.regret \/ desArgs.incentive THEN Sorted(values) ELSE {values}

\* What a training is given: the network with its inputs, and the state they are of.
Sampled(networks, e) ==
    [net |-> NetOf(e), inputs |-> getInputNeurons(networks[NetOf(e)]), state |-> fillStateVector(e)]

\* The network of the old edge, trained towards the reward and the value of the new.
Trained(ready, oldE, newE, reward) ==
    LET target == Unit * reward + desArgs.q_lambda[1] * Output(ready, newE)
    IN  Train(ready[NetOf(oldE)], <<target>>, desArgs.sliding, desArgs.nn_cg)

FullUpdate(s, v, from, reward, ordered, c) ==
    LET oldE == <<v, from>>
        h == Deviated(Regretted(s, v, from, reward, ordered), v, reward, ordered)
        edges == [e \in Edges |-> [c.edge[e] EXCEPT !.total_reward = h.edge[e].total_reward]]
        newE == <<v, c.action>>
        ready == Fed(FedAll(s.nets, Out(v)), newE)
    IN  {LET after == Fed([ready EXCEPT ![NetOf(oldE)] = t], oldE)
         IN  [h EXCEPT !.nets = after, !.sample = Sampled(ready, oldE), !.vertex[v].next_action = c.action,
                       !.edge = [edges EXCEPT ![oldE].q_val = Predicted(after, oldE)]] :
            t \in Trained(ready, oldE, newE, reward[1])}

FullRLResponse(s, v, from, top) ==
    LET fed == FedAll(s.nets, Out(v))
        values == [n \in 1 .. Degree(v) |-> <<Targets(v)[n], Predicted(fed, <<v, Targets(v)[n]>>)>>]
    IN  CASE Degree(v) > 1 ->
               UNION {UNION {FullUpdate(s, v, from, Reward(top), o, c) : c \in m_policy(v, o, s.edge)} :
                        o \in Hooked(v, values)}
          [] Degree(v) = 1 -> {OnlyAction(s, v, Reward(top), NetOf(<<v, Targets(v)[1]>>))}
          [] OTHER -> {NoAction(s, v)}

-----------------------------------------------------------------------------
\* While the mean of an edge has fewer values than m_randomIter it stands for
\* the network, which is trained nevertheless, with the inputs it last had.
WarmUp(stats, e) == stats[eindex(e)].n < randomIter

HybridUpdate(s, v, from, reward, networks, c) ==
    LET oldE == <<v, from>>
        i == eindex(oldE)
        newE == <<v, c.action>>
        stats == IF WarmUp(s.qStats, oldE) THEN [s.qStats EXCEPT ![i] = Push(@, reward)] ELSE s.qStats
        warm == WarmUp(stats, oldE)
        ready == Fed(networks, newE)
    IN  {LET left == [ready EXCEPT ![i] = t]
             after == IF warm THEN left ELSE Fed(left, oldE)
         IN  [s EXCEPT !.qStats = stats, !.nets = after, !.sample = Sampled(ready, oldE),
                       !.vertex[v].next_action = c.action,
                       !.edge = [c.edge EXCEPT ![oldE].q_val =
                                    IF warm THEN stats[i].mean ELSE Predicted(after, oldE)]] :
            t \in Trained(ready, oldE, newE, reward[1])}

HybridFullRLResponse(s, v, from, top) ==
    LET cold == {e \in Out(v) : ~ WarmUp(s.qStats, e)}
        fed == FedAll(s.nets, cold)
        values == [n \in 1 .. Degree(v) |->
            LET e == <<v, Targets(v)[n]>>
            IN  <<e[2], IF e \in cold THEN Predicted(fed, e) ELSE s.qStats[eindex(e)].mean>>]
    IN  CASE Degree(v) > 1 ->
               UNION {HybridUpdate(s, v, from, Reward(top), fed, c) : c \in m_policy(v, values, s.edge)}
          [] Degree(v) = 1 -> {OnlyAction(s, v, Reward(top), eindex(<<v, Targets(v)[1]>>))}
          [] OTHER -> {NoAction(s, v)}

\* Simulation.cc: the one that is attached.
Responded(s, v, from, top) ==
    CASE ~ desArgs.rl -> DefaultResponse(s, v, from, top)
      [] desArgs.rl /\ ~ desArgs.state -> RLResponse(s, v, from, top)
      [] desArgs.rl /\ desArgs.state /\ ~ desArgs.rl_hybrid -> FullRLResponse(s, v, from, top)
      [] OTHER -> HybridFullRLResponse(s, v, from, top)

\* CoefficientVariationHandler, its result squared.
Undefined == <<0, 0>>
Varied(s, v, from) ==
    LET all == Append(s.vertex[v].circBuffer, s.edge[<<v, from>>].q_val)
        b == SubSeq(all, IF Len(all) > 2 THEN 2 ELSE 1, Len(all))
        mu == SumOf(b, DOMAIN b) // Whole(Len(b))
        error == [n \in DOMAIN b |-> (b[n] -- mu) ** (b[n] -- mu)]
    IN  IF ~ desArgs.coefficient_variation \/ Degree(v) = 0 THEN s
        ELSE [s EXCEPT !.vertex[v].circBuffer = b,
                       !.vertex[v].coeff_var =
                            IF mu = Zero THEN Undefined
                            ELSE (SumOf(error, DOMAIN b) // Whole(Len(b))) // (mu ** mu)]

-----------------------------------------------------------------------------
(* The events.                                                             *)

EXTERNAL_EVENT == -1
Jobs == DOMAIN job

\* An arrival pushes where the job comes from, and when, onto its history.
Arrived(jobs, j, v, from) ==
    [jobs EXCEPT ![j].history = Append(@, <<from, now>>), ![j].trail = Append(@, <<v, now>>)]

\* ArrivalHandler, of an external arrival.
Enter(v) ==
    /\ acks = <<>>
    /\ Cardinality(Jobs) < MaxJobs
    /\ LET j == Cardinality(Jobs) + 1
       IN  /\ job' = Arrived([k \in Jobs \cup {j} |->
                                IF k = j THEN [history |-> <<>>, trail |-> <<>>] ELSE job[k]], j, v, EXTERNAL_EVENT)
           /\ line' = [line EXCEPT ![v] = Append(@, j)]
    /\ UNCHANGED <<desArgs, randomIter, now, acks, vertex, edge, qStats, nets, given, sample>>

\* OnPolicySelection, or RandomSelection, which follows the weights.
Selections(v) ==
    LET values == [n \in 1 .. Degree(v) |-> <<Targets(v)[n], edge[<<v, Targets(v)[n]>>].q_val>>]
    IN  IF ~ desArgs.rl
        THEN {Choice(Targets(v)[n], edge) : n \in {m \in 1 .. Degree(v) : Below(Zero, edge[<<v, Targets(v)[m]>>].weight)}}
        ELSE IF vertex[v].next_action >= 0 THEN {Choice(vertex[v].next_action, edge)}
        ELSE m_policy(v, values, edge)

\* DepartureHandler: on to the server selected, or back to the one before.
Depart(v) ==
    /\ acks = <<>>
    /\ line[v] # <<>>
    /\ LET j == Head(line[v])
       IN  /\ Last(job[j].trail)[2] < now
           /\ IF Degree(v) > 0
              THEN \E c \in Selections(v) :
                      /\ edge' = c.edge
                      /\ job' = Arrived(job, j, c.action, v)
                      /\ line' = [line EXCEPT ![v] = Tail(@), ![c.action] = Append(@, j)]
                      /\ UNCHANGED acks
              ELSE /\ acks' = <<[type |-> "ACK_EVENT", job |-> j, from |-> v, at |-> v,
                                 top |-> Last(job[j].history)[2]]>>
                   /\ line' = [line EXCEPT ![v] = Tail(@)]
                   /\ UNCHANGED <<edge, job>>
    /\ UNCHANGED <<desArgs, randomIter, now, vertex, qStats, nets, given, sample>>

\* Entries copied before the history was popped.
ForwardedUnpopped(a, history) ==
    LET to == Last(history)[1]
        ack(type, at) == [type |-> type, job |-> a.job, from |-> a.at, at |-> at, top |-> Last(history)[2]]
        others == Listed({n \in DOMAIN Network : Network[n][2] = a.at /\ Network[n][1] # to})
    IN  IF a.type # "ACK_EVENT" \/ to = EXTERNAL_EVENT THEN <<>>
        ELSE <<ack("ACK_EVENT", to)>>
             \o (IF desArgs.rl_ci THEN [n \in DOMAIN others |-> ack("ACK_1HOP_EVENT", others[n][1])] ELSE <<>>)

\* AckHandler: the acknowledgements that follow on one at v.
Forwarded(a, history) ==
    LET to == Last(history)[1]
        left == Front(history)
        ack(type, at) == [type |-> type, job |-> a.job, from |-> a.at, at |-> at, top |-> Last(left)[2]]
        others == Listed({n \in DOMAIN Network : Network[n][2] = a.at /\ Network[n][1] # to})
    IN  IF a.type # "ACK_EVENT" \/ to = EXTERNAL_EVENT THEN <<>>
        ELSE <<ack("ACK_EVENT", to)>>
             \o (IF desArgs.rl_ci THEN [n \in DOMAIN others |-> ack("ACK_1HOP_EVENT", others[n][1])] ELSE <<>>)

\* The time since the job arrived at the server before w, as its walk tells.
Delay(j, w) ==
    LET t == job[j].trail
    IN  now - t[(CHOOSE n \in DOMAIN t : t[n][1] = w) - 1][2]

\* AckEvent, with the handlers in the order in which they are attached.
Ack ==
    /\ acks # <<>>
    /\ \A i \in DOMAIN nets : \A s \in Weights : Abs(nets[i].weights[s]) <= MaxWeight
    /\ LET a == Head(acks)
           v == a.at
       IN  \E r \in Responded(Rated(State, v, a.from, a.top), v, a.from, a.top) :
               LET s == Varied(r, v, a.from)
               IN  /\ edge' = s.edge
                   /\ vertex' = s.vertex
                   /\ qStats' = s.qStats
                   /\ nets' = s.nets
                   /\ sample' = s.sample
                   /\ acks' = Tail(acks) \o Forwarded(a, job[a.job].history)
                   /\ job' = IF a.type = "ACK_EVENT" THEN [job EXCEPT ![a.job].history = Front(@)] ELSE job
                   /\ given' = IF v = a.from THEN given
                               ELSE [given EXCEPT ![<<v, a.from>>] = Append(@, Whole(-Delay(a.job, a.from)))]
    /\ UNCHANGED <<desArgs, randomIter, now, line>>

Tick ==
    /\ acks = <<>>
    /\ now < MaxTime
    /\ now' = now + 1
    /\ UNCHANGED <<desArgs, randomIter, line, job, acks, vertex, edge, qStats, nets, given, sample>>

\* DirectedGraph.hh: a network as it is made.
FreshVertex ==
    [next_action |-> -1, actual_reward |-> Zero, regret_absolute |-> Zero,
     incentive_deviate |-> Zero, num_events_processed |-> 0, mean_reward |-> Zero,
     expert_normal |-> Zero, expert_absolute |-> Zero, expert_positive |-> Zero,
     expert_negative |-> Zero, circBuffer |-> <<>>, coeff_var |-> Zero]
FreshEdge(e) ==
    [weight |-> One // Whole(Degree(e[1])), q_val |-> Zero, total_reward |-> Zero,
     emotion |-> Zero, e_pos |-> Zero, e_neg |-> Zero, rmin |-> Zero, rmax |-> Zero, lastTime |-> 0]

Init ==
    /\ desArgs \in Configs
    /\ randomIter \in (IF desArgs.rl_hybrid THEN RandomIters ELSE {0})
    /\ now = 0
    /\ line = [v \in Vertices |-> <<>>]
    /\ job = <<>>
    /\ acks = <<>>
    /\ vertex = [v \in Vertices |-> FreshVertex]
    /\ edge = [e \in Edges |-> FreshEdge(e)]
    /\ qStats = [i \in Indices |-> Cleared]
    /\ \E net \in NewNets : nets = [i \in (IF desArgs.rl /\ desArgs.state THEN Indices ELSE {}) |-> net]
    /\ given = [e \in Edges |-> <<>>]
    /\ sample = [net |-> 0, inputs |-> <<>>, state |-> <<>>]

Next == (\E v \in Entrances : Enter(v)) \/ (\E v \in Vertices : Depart(v)) \/ Ack \/ Tick

Spec == Init /\ [][Next]_vars

-----------------------------------------------------------------------------
(* Properties                                                              *)

\* The inputs a network is trained with are the state of the edge whose reward
\* was observed: networks and m_inputs are shared by all the edges presented in
\* between (FullRLResponseHandler.cc:186-262).  The hybrid handler trains with
\* whatever was presented last.
TrainedOnOwnState == ~ desArgs.rl_hybrid => sample.inputs = sample.state

\* The value of an edge is the mean of what the jobs acknowledged over it took,
\* for the default handler (DefaultResponseHandler.cc:75-88) and for the only
\* edge of a vertex (RLResponseHandler.cc:138-146), though the time is popped
\* off the history of an entry that was copied at every server.
ValueIsMeanDelay ==
    \A e \in Edges :
        ~ desArgs.rl \/ (Degree(e[1]) = 1 /\ ~ Outsourced) =>
            LET g == given[e]
            IN  edge[e].q_val = IF g = <<>> THEN Zero ELSE SumOf(g, DOMAIN g) // Whole(Len(g))

\* "Use the mean of past q-values for the warm-up phase, otherwise use the learned
\* NN value": the phase lasts for rl_hybrid_warmup rewards of an edge
\* (HybridFullRLResponseHandler.cc:198-207, CL.cc:179).
WarmupAsConfigured ==
    \A e \in Edges :
        LET g == given[e]
        IN  desArgs.rl_hybrid /\ Degree(e[1]) > 1 /\ Len(g) \in 1 .. desArgs.rl_hybrid_warmup - 1
            => edge[e].q_val = SumOf(g, DOMAIN g) // Whole(Len(g))

\* The weights of the edges of a vertex are a distribution, whatever pivots the
\* projection drew (Simplex.cc:35, WeightedPolicyLearner.cc:136-156).
WeightsAreDistribution ==
    \A v \in Vertices : Degree(v) > 0 =>
        LET weight == [e \in Out(v) |-> edge[e].weight]
        IN  SumOf(weight, Out(v)) = One /\ \A e \in Out(v) : AtMost(Zero, weight[e])

\* The signals of the gradient learner never leave the range of what was felt:
\* they decay, and are bounded, at different times (GradientPolicyLearner.cc:128-168).
EmotionBounded ==
    \A e \in Edges : AtMost(edge[e].rmin, edge[e].emotion) /\ AtMost(edge[e].emotion, edge[e].rmax)

\* The gradient has the direction of the error for every target, whatever
\* weights the training left: deltas of the outputs pass back through the layer
\* they came from (MSE.hh:108, MSE.hh:225).  Its size in the hidden layer is not
\* that of the error, and not stated.
GradientIsDescent ==
    sample.net \in DOMAIN nets =>
        \A t \in {-Unit, 0, Unit} : IsDescent(nets[sample.net], <<t>>)
=============================================================================
