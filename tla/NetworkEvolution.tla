------------------------- MODULE NetworkEvolution -------------------------
(***************************************************************************)
(* network/evolution/WEvonet.cc: how the network of a simulation is grown  *)
(* (Barrat-Barthelemy-Vespignani) or drawn at random and cleared of cycles *)
(* (Erdos-Renyi), how the strength of its servers is balanced, and how     *)
(* features are laid over it; network/main/wevonet_main.cc, which drives   *)
(* it; GraphUtil.cc, which prints and reads the network.                   *)
(*                                                                         *)
(* A depth-first visit goes edge by edge and an epidemic visit vertex by   *)
(* vertex.  Rates are integers, a weight counts in parts of WeightUnit.    *)
(***************************************************************************)
EXTENDS Integers, Sequences, FiniteSets, FiniteSetsExt, SequencesExt

CONSTANTS
    Plans,          \* the command lines: generator, size, max_edges, edge_fixed
    MaxOutdegree,   \* WEvonet::MAX_OUTDEGREE
    Addresses,      \* orders in which memory may hold the vertices
    BoostArrival, BoostEdge

\* wevonet_main.cc: its options, and the values max_arrival lets the draws take.
CommandLines ==
    [generator : {1, 2}, size : Nat \ {0}, max_edges : Nat \ {0},
     edge_fixed : {-1} \cup (Nat \ {0}), arrivals : (SUBSET Nat) \ {{}},
     features : BOOLEAN, format : {"GRAPHVIZ", "GRAPHML"}]

ASSUME PlansAssumption == Plans \subseteq CommandLines

\* No two vertices lie at one address.
ASSUME AddressesAssumption ==
    \A a \in Addresses : \A u, w \in DOMAIN a : a[u] \in Int /\ (a[u] = a[w] => u = w)

ASSUME RatesAssumption == BoostArrival \in Nat \ {0} /\ BoostEdge \in Nat \ {0}

VARIABLES
    plan, address,
    phase,
    vertex,         \* vertex index -> vertex properties
    edge,           \* pair of vertices -> edge properties
    generator,      \* graph_generator
    dfs,            \* the depth-first visit
    epidemic,       \* the epidemic visit
    balance_order,  \* vertices whose strength is still to be balanced
    feature,        \* establishFeatures: the next vertex, num_features
    file            \* what the output file holds

vars == <<plan, address, phase, vertex, edge, generator, dfs, epidemic,
          balance_order, feature, file>>

WeightUnit == 6
UINT16 == 65536

-----------------------------------------------------------------------------
(* DirectedGraph.hh.  The attributes of the statistics are all set to zero *)
(* together, and stand here as one.                                        *)

VertexProperties ==
    [arrival_rate : Nat, service_rate : Nat, statistics : {0}, busy : {FALSE},
     next_action : {-1}, v_features : SUBSET Nat, v_choice : Nat]

EdgeProperties ==
    [weight : 0 .. WeightUnit, eindex : 0 .. UINT16 - 1, statistics : {0}]

Size == Cardinality(DOMAIN vertex)
Edges == DOMAIN edge
Targets(v, E) == {e[2] : e \in {d \in E : d[1] = v}}
OutEdges(v) == {e \in Edges : e[1] = v}
OutDegree(v) == Cardinality(OutEdges(v))

\* The targets of v in the order of their addresses, as an ordered set holds them.
SortedTargets(v, E) ==
    LET targets == Targets(v, E)
    IN  [k \in 1 .. Cardinality(targets) |->
            CHOOSE w \in targets : Cardinality({u \in targets : address[u] < address[w]}) = k - 1]

FreshVertex(arrival) ==
    [arrival_rate |-> arrival, service_rate |-> BoostArrival * arrival,
     statistics |-> 0, busy |-> FALSE, next_action |-> -1,
     v_features |-> {}, v_choice |-> 0]

FreshEdge == [weight |-> 0, eindex |-> 0, statistics |-> 0]

\* Mutant: the edges are not numbered again.
IndexedOnce(edges) == edges

\* The graph is a list of vertices, each with an ordered set of its out edges:
\* edges come in the order of their sources, then of the addresses of their targets.
Earlier(d, e) == \/ d[1] < e[1]
                 \/ d[1] = e[1] /\ address[d[2]] < address[e[2]]

Indexed(edges) ==
    [e \in DOMAIN edges |->
        [edges[e] EXCEPT !.eindex =
            Cardinality({d \in DOMAIN edges : Earlier(d, e)}) % UINT16]]

\* assign_edge_weights
Weighted(edges, S) ==
    [e \in DOMAIN edges |->
        IF e[1] \in S
        THEN [edges[e] EXCEPT !.weight =
                 WeightUnit \div Cardinality({d \in DOMAIN edges : d[1] = e[1]})]
        ELSE edges[e]]

-----------------------------------------------------------------------------
(* balance_vertex_strength: an epidemic visit with the visitor of          *)
(* enduce_strength.hh.  A vertex is pushed again by every edge that        *)
(* reaches it, and passes on what it received since it was last popped.    *)

EpidemicVisit(v, S) ==
    [queue |-> <<v>>, source |-> v, diff |-> [u \in S |-> 0], apply |-> [u \in S |-> 0]]

NoVisit == [queue |-> <<>>, source |-> -1, diff |-> <<>>, apply |-> <<>>]

\* examine_vertex: what u has to pass on.
Apply(u) == IF epidemic.diff[u] = 0
            THEN BoostArrival * vertex[u].arrival_rate
            ELSE epidemic.apply[u]

\* examine_edge: what e passes on.
Update(e) ==
    IF plan.edge_fixed > 0
    THEN Apply(e[1]) * plan.edge_fixed
    ELSE (Apply(e[1]) * edge[e].weight * BoostEdge) \div WeightUnit

Received(u, w) == IF <<u, w>> \in Edges THEN Update(<<u, w>>) ELSE 0

\* Mutant: finish_vertex is not called, so a vertex passes everything on again.
EpidemicKeepsApply ==
    LET u == Head(epidemic.queue)
    IN  epidemic' = [epidemic EXCEPT
            !.queue = Tail(@) \o SortedTargets(u, Edges),
            !.diff = [w \in DOMAIN @ |-> @[w] + Received(u, w)],
            !.apply = [w \in DOMAIN @ |->
                           IF w = u THEN Apply(u) ELSE @[w] + Received(u, w)]]

EpidemicVertex ==
    LET u == Head(epidemic.queue)
    IN  epidemic' = [epidemic EXCEPT
            !.queue = Tail(@) \o SortedTargets(u, Edges),
            !.diff = [w \in DOMAIN @ |-> @[w] + Received(u, w)],
            !.apply = [w \in DOMAIN @ |-> IF w = u THEN 0 ELSE @[w] + Received(u, w)]]

Spread ==
    /\ phase = "balance" /\ epidemic.queue # <<>>
    /\ EpidemicVertex
    /\ UNCHANGED <<plan, address, phase, vertex, edge, generator, dfs,
                   balance_order, feature, file>>

\* breadth_first_visit with apply_enduced_strength_visitor.  Vertices that
\* were not reached have nothing to add.
Strengthened ==
    [u \in DOMAIN vertex |->
        [vertex[u] EXCEPT !.service_rate = @ + epidemic.diff[u]]]

\* The vertex is balanced; the growth goes on, or the next vertex in
\* topological order is balanced.
Balanced ==
    /\ phase = "balance" /\ epidemic # NoVisit /\ epidemic.queue = <<>>
    /\ vertex' = Strengthened
    /\ epidemic' = NoVisit
    /\ phase' = IF plan.generator = 1 THEN "advance" ELSE "balance"
    /\ UNCHANGED <<plan, address, edge, generator, dfs, balance_order, feature, file>>

-----------------------------------------------------------------------------
(* createBBVGraph and advance.                                             *)

\* The number of links a new vertex draws, among n vertices.
NumEdges(n) ==
    IF plan.max_edges = MaxOutdegree THEN {n}
    ELSE IF plan.max_edges > n THEN 1 .. n ELSE 1 .. plan.max_edges

\* service_rate_order: by descending rate, in any order where rates are equal.
RateOrders ==
    {order \in [1 .. Size -> DOMAIN vertex] :
        /\ IsInjective(order)
        /\ \A i, j \in 1 .. Size :
              i < j => vertex[order[i]].service_rate >= vertex[order[j]].service_rate}

\* A uniform number falls on position i of the order, which has a positive rate;
\* the new vertex is linked to the first vertex from there that it is not linked
\* to yet, if there is one.
Link(order, linked, i) ==
    LET free == {j \in i .. Len(order) : order[j] \notin linked}
    IN  linked \cup (IF free = {} THEN {} ELSE {order[Min(free)]})

Positions(order) == {i \in 1 .. Len(order) : vertex[order[i]].service_rate > 0}

NewLinks(order, k) ==
    {links \in SUBSET DOMAIN vertex :
        \E draws \in [1 .. k -> Positions(order)] :
            links = FoldLeft(LAMBDA linked, i : Link(order, linked, i), {}, draws)}

Advance ==
    /\ phase = "advance" /\ Size < plan.size
    /\ \E arrival \in plan.arrivals, order \in RateOrders, k \in NumEdges(Size) :
       \E links \in NewLinks(order, k) :
          LET v == Size
              new == {<<v, w>> : w \in links}
          IN  /\ vertex' = [u \in 0 .. v |->
                               IF u = v THEN FreshVertex(arrival) ELSE vertex[u]]
              /\ edge' = Weighted([e \in Edges \cup new |->
                                      IF e \in new THEN FreshEdge ELSE edge[e]], {v})
              /\ epidemic' = EpidemicVisit(v, 0 .. v)
    /\ phase' = "balance"
    /\ UNCHANGED <<plan, address, generator, dfs, balance_order, feature, file>>

Grown ==
    /\ phase = "advance" /\ Size = plan.size
    /\ edge' = Indexed(edge)
    /\ phase' = "built"
    /\ UNCHANGED <<plan, address, vertex, generator, dfs, epidemic, balance_order,
                   feature, file>>

-----------------------------------------------------------------------------
(* createERGraph: depth_first_search, first to find the edges that close a *)
(* cycle, then inside topological_sort.                                    *)

NewVisit(n) == [color |-> [u \in 0 .. n - 1 |-> "white"], stack |-> <<>>,
                finished |-> <<>>, back |-> {}]

White == {u \in DOMAIN vertex : dfs.color[u] = "white"}

Discover(v, stack) ==
    [dfs EXCEPT !.color = [@ EXCEPT ![v] = "gray"],
                !.stack = Append(stack, [v |-> v, out |-> SortedTargets(v, Edges)])]

Visiting == phase \in {"cycles", "sort"}
Visit == Visiting /\ UNCHANGED <<plan, address, phase, vertex, edge, generator, epidemic,
                                 balance_order, feature, file>>

\* The search starts again at the first vertex in the list not seen yet.
VisitRoot ==
    /\ Visit /\ dfs.stack = <<>> /\ White # {}
    /\ dfs' = Discover(Min(White), <<>>)

TopOfStack == dfs.stack[Len(dfs.stack)]

\* Mutant: only an edge back to the root of the search counts.
BackEdgeToRoot(w) == w = dfs.stack[1].v

\* cycle_detector: an edge to a vertex whose visit has not ended is a back edge.
BackEdge(w) == dfs.color[w] = "gray"

\* What the visit does with the next out edge of the vertex it is at.
ExamineEdge ==
    /\ Visit /\ dfs.stack # <<>> /\ TopOfStack.out # <<>>
    /\ LET v == TopOfStack.v
           w == Head(TopOfStack.out)
           stack == [dfs.stack EXCEPT ![Len(dfs.stack)].out = Tail(@)]
       IN  dfs' = IF BackEdge(w) THEN [dfs EXCEPT !.stack = stack, !.back = @ \cup {<<v, w>>}]
                  ELSE IF dfs.color[w] = "white" THEN Discover(w, stack)
                  ELSE [dfs EXCEPT !.stack = stack]

FinishVertex ==
    /\ Visit /\ dfs.stack # <<>> /\ TopOfStack.out = <<>>
    /\ dfs' = [dfs EXCEPT !.color = [@ EXCEPT ![TopOfStack.v] = "black"],
                          !.stack = Front(@),
                          !.finished = Append(@, TopOfStack.v)]

Visited == Visiting /\ dfs.stack = <<>> /\ White = {}

\* The back edges are removed, vertices and edges made anew.
RemoveCycles ==
    /\ phase = "cycles" /\ Visited
    /\ \E arrival \in [DOMAIN vertex -> plan.arrivals] :
          vertex' = [u \in DOMAIN vertex |-> FreshVertex(arrival[u])]
    /\ edge' = Indexed([e \in Edges \ dfs.back |-> edge[e]])
    /\ dfs' = NewVisit(Size)
    /\ phase' = "sort"
    /\ UNCHANGED <<plan, address, generator, epidemic, balance_order, feature, file>>

\* topological_sort throws not_a_dag when it meets a back edge.
NotADag == phase = "sort" /\ dfs.back # {}

Sorted ==
    /\ phase = "sort" /\ Visited /\ dfs.back = {}
    /\ edge' = Weighted(edge, DOMAIN vertex)
    /\ balance_order' = Reverse(dfs.finished)
    /\ phase' = "balance"
    /\ UNCHANGED <<plan, address, vertex, generator, dfs, epidemic, feature, file>>

\* Vertices without successors are not balanced.
BalanceNext ==
    /\ phase = "balance" /\ plan.generator = 2
    /\ epidemic = NoVisit /\ balance_order # <<>>
    /\ balance_order' = Tail(balance_order)
    /\ epidemic' = IF OutDegree(Head(balance_order)) > 0
                   THEN EpidemicVisit(Head(balance_order), DOMAIN vertex)
                   ELSE NoVisit
    /\ UNCHANGED <<plan, address, phase, vertex, edge, generator, dfs, feature, file>>

AllBalanced ==
    /\ phase = "balance" /\ plan.generator = 2
    /\ epidemic = NoVisit /\ balance_order = <<>>
    /\ phase' = "built"
    /\ UNCHANGED <<plan, address, vertex, edge, generator, dfs, epidemic,
                   balance_order, feature, file>>

-----------------------------------------------------------------------------
(* establishFeatures, one vertex after the other.                          *)

\* Mutant: t1 keeps the features of the first target.
FirstTargetFeatures(v) == vertex[SortedTargets(v, Edges)[1]].v_features

\* The code's intersection of the features of the targets.  The set t2 into
\* which the features of a target are copied is never emptied, and with one
\* target the loop that fills the intersection does not run.
Intersection(v) ==
    LET out == SortedTargets(v, Edges)
        F(i) == vertex[out[i]].v_features
        t2(i) == UNION {F(j) : j \in 2 .. i}
    IN  IF Len(out) = 1 THEN {}
        ELSE {f \in F(1) : \A i \in 2 .. Len(out) : f \in t2(i)}

EstablishFeature ==
    /\ phase = "built" /\ plan.features /\ feature.next < Size
    /\ LET v == feature.next
           new == feature.num_features + 1
       IN  IF OutDegree(v) = 0
           THEN UNCHANGED vertex /\ feature' = [feature EXCEPT !.next = @ + 1]
           ELSE IF Intersection(v) # {}
           THEN /\ \E f \in Intersection(v) : vertex' = [vertex EXCEPT ![v].v_choice = f]
                /\ feature' = [feature EXCEPT !.next = @ + 1]
           ELSE /\ vertex' = [u \in DOMAIN vertex |->
                      IF u = v THEN [vertex[u] EXCEPT !.v_choice = new]
                      ELSE IF <<v, u>> \in Edges
                           THEN [vertex[u] EXCEPT !.v_features = @ \cup {new}]
                           ELSE vertex[u]]
                /\ feature' = [next |-> v + 1, num_features |-> new]
    /\ UNCHANGED <<plan, address, phase, edge, generator, dfs, epidemic,
                   balance_order, file>>

-----------------------------------------------------------------------------
(* GraphUtil.                                                              *)

\* getProperties: what is written of a graph, which is every property set above.
Written == [generator |-> generator, vertex |-> vertex, edge |-> edge]

NoFile == [format |-> "none"]

PrintGraph ==
    /\ phase = "built" /\ (plan.features => feature.next = Size)
    /\ file = NoFile
    /\ file' = [format |-> plan.format, graph |-> Written]
    /\ phase' = "printed"
    /\ UNCHANGED <<plan, address, vertex, edge, generator, dfs, epidemic,
                   balance_order, feature>>

\* Read into an empty graph.  The call that reads a dot file is commented out,
\* so nothing is read from one.
ReadGraph ==
    /\ phase = "printed"
    /\ IF plan.format = "GRAPHML"
       THEN /\ vertex' = file.graph.vertex /\ edge' = file.graph.edge
            /\ generator' = file.graph.generator
       ELSE vertex' = <<>> /\ edge' = <<>> /\ generator' = 0
    /\ phase' = "read"
    /\ UNCHANGED <<plan, address, dfs, epidemic, balance_order, feature, file>>

-----------------------------------------------------------------------------
\* The pairs boost::erdos_renyi_iterator may draw: any, without loops; at most
\* max_edges if that is given.
RandomEdges(n) ==
    LET pairs == {<<u, v>> : u, v \in 0 .. n - 1} \ {<<u, u>> : u \in 0 .. n - 1}
    IN  IF plan.max_edges = MaxOutdegree THEN SUBSET pairs
        ELSE UNION {kSubset(k, pairs) : k \in 0 .. plan.max_edges}

\* The first vertex of createBBVGraph.
Seedling ==
    /\ plan.generator = 1 /\ generator = 1 /\ phase = "advance"
    /\ \E arrival \in plan.arrivals : vertex = [u \in {0} |-> FreshVertex(arrival)]
    /\ edge = <<>>

\* createERGraph up to the removal of cycles.  The rates drawn here are drawn
\* again before anything reads them.
RandomGraph ==
    /\ plan.generator = 2 /\ generator = 2 /\ phase = "cycles"
    /\ vertex = [u \in 0 .. plan.size - 1 |-> FreshVertex(Min(plan.arrivals))]
    /\ \E pairs \in RandomEdges(plan.size) :
          edge = Indexed([e \in pairs |-> FreshEdge])

Init ==
    /\ plan \in Plans
    /\ address \in {a \in Addresses : DOMAIN a = 0 .. plan.size - 1}
    /\ Seedling \/ RandomGraph
    /\ dfs = NewVisit(plan.size)
    /\ epidemic = NoVisit /\ balance_order = <<>>
    /\ feature = [next |-> 0, num_features |-> 0]
    /\ file = NoFile

\* The program has ended.
Ended == phase = "read" /\ UNCHANGED vars

Next ==
    \/ Advance \/ Grown
    \/ VisitRoot \/ ExamineEdge \/ FinishVertex \/ RemoveCycles
    \/ Sorted \/ BalanceNext \/ AllBalanced
    \/ Spread \/ Balanced
    \/ EstablishFeature \/ PrintGraph \/ ReadGraph \/ Ended

Spec == Init /\ [][Next]_vars

-----------------------------------------------------------------------------
(* Properties.                                                             *)

\* No set of vertices lets a job travel for ever: one of them has no edge
\* that stays inside.
Acyclic(E) == \A S \in (SUBSET DOMAIN vertex) \ {{}} :
                 \E u \in S : Targets(u, E) \cap S = {}

\* cycle_detector and remove_edge: once the back edges are removed there is no
\* cycle, whichever graph was drawn and wherever its vertices lie in memory, and
\* topological_sort does not throw.  A network that is grown never has a cycle.
CyclesRemoved == phase # "cycles" => Acyclic(Edges) /\ ~NotADag

\* Flow(s)[k][t]: what reaches t over the paths of k edges from s.
Flow(s) ==
    LET f[k \in 0 .. Size] ==
            IF k = 0
            THEN [t \in DOMAIN vertex |->
                     IF t = s THEN BoostArrival * vertex[s].arrival_rate ELSE 0]
            ELSE [t \in DOMAIN vertex |->
                     MapThenSumSet(LAMBDA e :
                         IF plan.edge_fixed > 0 THEN f[k - 1][e[1]] * plan.edge_fixed
                         ELSE (f[k - 1][e[1]] * edge[e].weight * BoostEdge) \div WeightUnit,
                         {e \in Edges : e[2] = t})]
    IN  f

\* balance_vertex_strength: when a network is grown or built, the service rate
\* of a vertex is the traffic that arrives there from all vertices over all
\* paths, although the epidemic visit passes it on in portions.
StrengthIsFlow ==
    phase \in {"advance", "built"} =>
        \A t \in DOMAIN vertex :
            vertex[t].service_rate =
                MapThenSumSet(LAMBDA s :
                    MapThenSumSet(LAMBDA k : Flow(s)[k][t], 0 .. Size), DOMAIN vertex)

\* createBBVGraph, createERGraph: the index of an edge is its place in the flat
\* arrays of the learners, so the indices of a network that is ready leave no gap.
EdgesNumbered ==
    phase \in {"built", "printed"} =>
        {edge[e].eindex : e \in Edges} = 0 .. Cardinality(Edges) - 1

\* establishFeatures: a choice among one or two targets is a feature all have.
ChoiceIsCommon ==
    \A v \in DOMAIN vertex :
        v < feature.next /\ OutDegree(v) \in 1 .. 2 =>
            \A w \in Targets(v, Edges) : vertex[v].v_choice \in vertex[w].v_features
=============================================================================
