------------------------ MODULE NetworkEvolution_proofs ------------------------
(***************************************************************************)
(* Proofs about the networks of WEvonet, grown or drawn, of any size: no   *)
(* cycle is left once the back edges of a depth-first search are removed,  *)
(* so that the sort that follows does not fail; the edges of a network     *)
(* that is ready are numbered without a gap; and the choice of a vertex is *)
(* a feature of its one or two targets.                                    *)
(***************************************************************************)
EXTENDS NetworkEvolution, FiniteSetTheorems, SequenceTheorems, WellFoundedInduction, TLAPS

-----------------------------------------------------------------------------
(* Orders of finite sets.                                                  *)

\* The numbers of what is below each element of a finite set number it from zero.
LEMMA Ranking ==
    ASSUME NEW S, IsFiniteSet(S), NEW below \in [S -> SUBSET S],
           \A e \in S : e \notin below[e],
           \A e, f \in S : e \in below[f] => below[e] \subseteq below[f],
           \A e, f \in S : e # f => e \in below[f] \/ f \in below[e]
    PROVE  /\ Cardinality(S) \in Nat
           /\ \A e \in S : Cardinality(below[e]) \in 0 .. Cardinality(S) - 1
           /\ \A e, f \in S : Cardinality(below[e]) = Cardinality(below[f]) => e = f
           /\ \A k \in 1 .. Cardinality(S) : \E e \in S : Cardinality(below[e]) = k - 1
<1> DEFINE n == Cardinality(S)
           rank(e) == Cardinality(below[e])
<1>1. n \in Nat
  BY FS_CardinalityType
<1>2. ASSUME NEW e \in S
      PROVE  IsFiniteSet(below[e]) /\ rank(e) \in 0 .. n - 1
  <2>1. below[e] \in SUBSET S /\ below[e] # S
    OBVIOUS
  <2>2. IsFiniteSet(below[e]) /\ rank(e) <= n /\ rank(e) # n
    BY <2>1, FS_Subset
  <2>3. rank(e) \in Nat
    BY <2>2, FS_CardinalityType
  <2> HIDE DEF n, rank
  <2> QED  BY <1>1, <2>2, <2>3
<1>3. ASSUME NEW e \in S, NEW f \in S, e \in below[f]
      PROVE  rank(e) # rank(f)
  <2>1. below[e] \in SUBSET below[f] /\ below[e] # below[f]
    BY <1>3
  <2> QED  BY <1>2, <2>1, FS_Subset
<1>4. \A e, f \in S : rank(e) = rank(f) => e = f
  BY <1>3
<1>5. ASSUME NEW k \in 1 .. n
      PROVE  \E e \in S : rank(e) = k - 1
  <2> DEFINE r == [e \in S |-> rank(e) + 1]
  <2>1. r \in [S -> 1 .. n] /\ \A e, f \in S : r[e] = r[f] => e = f
    <3> HIDE DEF n, rank
    <3> QED  BY <1>1, <1>2, <1>4
  <2>2. r \in Injection(S, 1 .. n)
    <3> HIDE DEF r
    <3> QED  BY <2>1 DEF Injection, IsInjective
  <2>3. IsFiniteSet(1 .. n) /\ Cardinality(1 .. n) = n
    <3> HIDE DEF n
    <3>1. IsFiniteSet(1 .. n) /\ Cardinality(1 .. n) = IF 1 > n THEN 0 ELSE n - 1 + 1
      BY <1>1, FS_Interval
    <3> QED  BY <1>1, <3>1
  <2>4. r \in Surjection(S, 1 .. n)
    <3> HIDE DEF r
    <3> QED  BY <2>2, <2>3, FS_Injection
  <2>5. PICK e \in S : r[e] = k
    <3> HIDE DEF r
    <3> QED  BY <2>4 DEF Surjection
  <2>6. rank(e) + 1 = k /\ rank(e) \in Int
    <3> HIDE DEF n, rank
    <3> QED  BY <1>1, <1>2, <2>5
  <2> QED  BY <2>6
<1> QED  BY <1>1, <1>2, <1>4, <1>5

\* A set of numbers has a least one.
LEMMA Least ==
    ASSUME NEW S, S \subseteq Nat, S # {}
    PROVE  \E m \in S : \A k \in S : m <= k
<1>1. PICK m \in S : \A k \in S : ~ (<<k, m>> \in OpToRel(<, Nat))
  BY NatLessThanWellFounded, WFMin
<1>2. \A k \in S : ~ (k < m)
  BY <1>1 DEF OpToRel
<1> QED  BY <1>2

-----------------------------------------------------------------------------
(* The vertices and the edges.                                             *)

\* No vertices share an address.
Addressed(V) == \A u, w \in V : address[u] \in Int /\ (address[u] = address[w] => u = w)

\* The ordered set of the targets of v holds them all.
LEMMA SortedTargetsFacts ==
    ASSUME NEW v, NEW E, IsFiniteSet(Targets(v, E)), Addressed(Targets(v, E))
    PROVE  /\ SortedTargets(v, E) \in Seq(Targets(v, E))
           /\ Len(SortedTargets(v, E)) = Cardinality(Targets(v, E))
           /\ ToSet(SortedTargets(v, E)) = Targets(v, E)
<1> DEFINE S == Targets(v, E)
           n == Cardinality(S)
           below == [w \in S |-> {u \in S : address[u] < address[w]}]
           place(k) == CHOOSE w \in S : Cardinality({u \in S : address[u] < address[w]}) = k - 1
           list == [k \in 1 .. n |-> place(k)]
<1>1. /\ n \in Nat
      /\ \A w \in S : Cardinality(below[w]) \in 0 .. n - 1
      /\ \A w, u \in S : Cardinality(below[w]) = Cardinality(below[u]) => w = u
      /\ \A k \in 1 .. n : \E w \in S : Cardinality(below[w]) = k - 1
  <2>1. /\ below \in [S -> SUBSET S]
        /\ \A e \in S : e \notin below[e]
        /\ \A e, f \in S : e \in below[f] => below[e] \subseteq below[f]
        /\ \A e, f \in S : e # f => e \in below[f] \/ f \in below[e]
    <3> HIDE DEF S
    <3> QED  BY DEF Addressed, S
  <2> HIDE DEF below, S
  <2> QED  BY <2>1, Ranking DEF S
<1>2. SortedTargets(v, E) = list
  BY DEF SortedTargets
<1>3. \A k \in 1 .. n : place(k) \in S /\ Cardinality(below[place(k)]) = k - 1
  <2>1. \A w \in S : below[w] = {u \in S : address[u] < address[w]}
    OBVIOUS
  <2>2. \A k \in 1 .. n : \E w \in S : Cardinality({u \in S : address[u] < address[w]}) = k - 1
    <3> HIDE DEF below, S, n
    <3> QED  BY <1>1, <2>1
  <2>3. \A k \in 1 .. n : /\ place(k) \in S
                         /\ Cardinality({u \in S : address[u] < address[place(k)]}) = k - 1
    <3> HIDE DEF below, S, n
    <3> QED  BY <2>2
  <2> HIDE DEF below, S, n, place
  <2> QED  BY <2>1, <2>3
<1> HIDE DEF below, S, n
<1> HIDE DEF place
<1>4. list \in Seq(S) /\ Len(list) = n
  BY <1>1, <1>3
<1>5. ASSUME NEW w \in S
      PROVE  \E k \in 1 .. n : list[k] = w
  <2> DEFINE k == Cardinality(below[w]) + 1
  <2>1. k \in 1 .. n /\ Cardinality(below[w]) = k - 1
    BY <1>1
  <2> HIDE DEF k
  <2>2. place(k) = w
    BY <1>1, <1>3, <2>1
  <2> QED  BY <2>1, <2>2
<1>6. ToSet(list) = S
  <2> HIDE DEF list
  <2> QED  BY <1>4, <1>5 DEF ToSet
<1> QED  BY <1>2, <1>4, <1>6 DEF n, S

\* What the code asks of the command line, and where the program may be.
PlanInv ==
    /\ plan \in Plans
    /\ plan.generator = 1 => phase \in {"advance", "balance", "built", "printed", "read"}
    /\ plan.generator = 2 => phase \in {"cycles", "sort", "balance", "built", "printed", "read"}
    /\ address \in Addresses /\ DOMAIN address = 0 .. plan.size - 1

\* The edges join vertices below n; a network is grown towards its first vertex.
Joins(E, n) == \A e \in E : /\ e = <<e[1], e[2]>> /\ e[1] \in 0 .. n - 1 /\ e[2] \in 0 .. n - 1
                            /\ e[1] # e[2] /\ (plan.generator = 1 => e[2] < e[1])

ShapedEdges(g) == \A e \in DOMAIN g : DOMAIN g[e] = {"weight", "eindex", "statistics"}
ShapedVertices(g) ==
    \A u \in DOMAIN g : {"v_choice", "v_features", "service_rate"} \subseteq DOMAIN g[u]

GraphInv ==
    /\ \E n \in 1 .. plan.size :
          /\ DOMAIN vertex = 0 .. n - 1 /\ (plan.generator = 2 => n = plan.size)
          /\ Joins(Edges, n)
    /\ ShapedEdges(edge) /\ ShapedVertices(vertex)

LEMMA VertexSet ==
    ASSUME NEW n \in Nat
    PROVE  IsFiniteSet(0 .. n - 1) /\ Cardinality(0 .. n - 1) = n
<1> DEFINE a == 0
           b == n - 1
<1>1. a \in Int /\ b \in Int
  OBVIOUS
<1>2. IsFiniteSet(a .. b) /\ Cardinality(a .. b) = IF a > b THEN 0 ELSE b - a + 1
  <2> HIDE DEF a, b
  <2> QED  BY <1>1, FS_Interval
<1> QED  BY <1>2

LEMMA PlanFacts ==
    ASSUME PlanInv
    PROVE  /\ plan.size \in Nat /\ plan.size >= 1 /\ plan.generator \in {1, 2}
           /\ Addressed(0 .. plan.size - 1)
<1>1. plan.size \in Nat \ {0} /\ plan.generator \in {1, 2}
  BY PlansAssumption DEF PlanInv, CommandLines
<1>2. Addressed(DOMAIN address)
  BY AddressesAssumption DEF PlanInv, Addressed
<1> QED  BY <1>1, <1>2 DEF PlanInv

LEMMA GraphFacts ==
    ASSUME PlanInv, GraphInv
    PROVE  /\ Size \in Nat /\ Size >= 1 /\ Size <= plan.size /\ DOMAIN vertex = 0 .. Size - 1
           /\ plan.generator = 2 => Size = plan.size
           /\ Joins(Edges, Size) /\ Edges \subseteq (DOMAIN vertex) \X (DOMAIN vertex)
           /\ IsFiniteSet(DOMAIN vertex) /\ Addressed(DOMAIN vertex) /\ DOMAIN vertex \subseteq Nat
<1>1. plan.size \in Nat /\ Addressed(0 .. plan.size - 1)
  BY PlanFacts
<1>2. PICK n \in 1 .. plan.size :
         /\ DOMAIN vertex = 0 .. n - 1 /\ (plan.generator = 2 => n = plan.size)
         /\ Joins(Edges, n)
  BY DEF GraphInv
<1>3. IsFiniteSet(DOMAIN vertex) /\ Size = n
  BY <1>1, <1>2, VertexSet DEF Size
<1>4. DOMAIN vertex \subseteq 0 .. plan.size - 1 /\ n \in Nat /\ n >= 1 /\ n <= plan.size
  BY <1>1, <1>2
<1>5. Addressed(DOMAIN vertex)
  BY <1>1, <1>4 DEF Addressed
<1>6. Edges \subseteq (DOMAIN vertex) \X (DOMAIN vertex)
  <2>1. \A e \in Edges : e = <<e[1], e[2]>> /\ e[1] \in DOMAIN vertex /\ e[2] \in DOMAIN vertex
    BY <1>2 DEF Joins
  <2> QED  BY <2>1
<1> QED  BY <1>2, <1>3, <1>4, <1>5, <1>6

LEMMA TargetFacts ==
    ASSUME PlanInv, GraphInv, NEW v
    PROVE  /\ Targets(v, Edges) \subseteq DOMAIN vertex
           /\ \A w : w \in Targets(v, Edges) <=> <<v, w>> \in Edges
           /\ v \notin Targets(v, Edges)
           /\ SortedTargets(v, Edges) \in Seq(Targets(v, Edges))
           /\ ToSet(SortedTargets(v, Edges)) = Targets(v, Edges)
           /\ Len(SortedTargets(v, Edges)) = Cardinality(Targets(v, Edges))
<1>1. /\ Joins(Edges, Size) /\ DOMAIN vertex = 0 .. Size - 1
      /\ IsFiniteSet(DOMAIN vertex) /\ Addressed(DOMAIN vertex)
  BY GraphFacts
<1> DEFINE T == Targets(v, Edges)
<1>2. /\ T \in SUBSET DOMAIN vertex
      /\ \A w : w \in T <=> <<v, w>> \in Edges
      /\ v \notin T
  BY <1>1 DEF Targets, Joins
<1> HIDE DEF T
<1>3. IsFiniteSet(T) /\ Addressed(T)
  BY <1>1, <1>2, FS_Subset DEF Addressed
<1> QED  BY <1>2, <1>3, SortedTargetsFacts DEF T

-----------------------------------------------------------------------------
(* The numbers of the edges.                                               *)

\* Every edge of g has the number of its place.
Placed(g) ==
    \A e \in DOMAIN g : g[e].eindex = Cardinality({d \in DOMAIN g : Earlier(d, e)}) % UINT16

LEMMA IndexedFacts ==
    ASSUME NEW g, ShapedEdges(g)
    PROVE  DOMAIN Indexed(g) = DOMAIN g /\ ShapedEdges(Indexed(g)) /\ Placed(Indexed(g))
<1> DEFINE h == Indexed(g)
           place(e) == Cardinality({d \in DOMAIN g : Earlier(d, e)}) % UINT16
<1>1. h = [e \in DOMAIN g |-> [g[e] EXCEPT !.eindex = place(e)]]
  BY DEF Indexed
<1> HIDE DEF h, place
<1>2. DOMAIN h = DOMAIN g /\ \A e \in DOMAIN g : h[e] = [g[e] EXCEPT !.eindex = place(e)]
  BY <1>1
<1>3. \A e \in DOMAIN g : /\ DOMAIN h[e] = {"weight", "eindex", "statistics"}
                          /\ h[e].eindex = place(e)
  BY <1>2 DEF ShapedEdges
<1> QED  BY <1>2, <1>3 DEF ShapedEdges, Placed, h, place

LEMMA WeightedFacts ==
    ASSUME NEW g, NEW S, ShapedEdges(g)
    PROVE  /\ DOMAIN Weighted(g, S) = DOMAIN g /\ ShapedEdges(Weighted(g, S))
           /\ Placed(g) => Placed(Weighted(g, S))
<1> DEFINE h == Weighted(g, S)
           share(e) == WeightUnit \div Cardinality({d \in DOMAIN g : d[1] = e[1]})
<1>1. h = [e \in DOMAIN g |-> IF e[1] \in S THEN [g[e] EXCEPT !.weight = share(e)] ELSE g[e]]
  BY DEF Weighted
<1> HIDE DEF h, share
<1>2. DOMAIN h = DOMAIN g
  BY <1>1
<1>3. \A e \in DOMAIN g : h[e] = g[e] \/ h[e] = [g[e] EXCEPT !.weight = share(e)]
  BY <1>1
<1>4. \A e \in DOMAIN g : /\ DOMAIN h[e] = {"weight", "eindex", "statistics"}
                          /\ h[e].eindex = g[e].eindex
  BY <1>3 DEF ShapedEdges
<1> QED  BY <1>2, <1>4 DEF ShapedEdges, Placed, h

\* An index counts the edges of 256 vertices.
FewVertices == \A p \in Plans : p.size <= 256

\* Earlier orders the edges of a network.
LEMMA EdgePlaces ==
    ASSUME PlanInv, GraphInv
    PROVE  /\ IsFiniteSet(Edges) /\ Cardinality(Edges) \in Nat
           /\ Cardinality(Edges) <= Size * Size
           /\ \A e \in Edges :
                 Cardinality({d \in Edges : Earlier(d, e)}) \in 0 .. Cardinality(Edges) - 1
           /\ \A k \in 1 .. Cardinality(Edges) :
                 \E e \in Edges : Cardinality({d \in Edges : Earlier(d, e)}) = k - 1
<1> DEFINE E == Edges
           V == DOMAIN vertex
           below == [e \in E |-> {d \in E : Earlier(d, e)}]
<1>1. /\ E \in SUBSET (V \X V) /\ IsFiniteSet(V) /\ Cardinality(V) \in Nat
      /\ Addressed(V) /\ V \subseteq Nat
  BY GraphFacts DEF Size
<1>2. \A e \in E : /\ e = <<e[1], e[2]>> /\ e[1] \in Nat /\ address[e[2]] \in Int
                   /\ \A d \in E : address[d[2]] = address[e[2]] => d[2] = e[2]
  BY <1>1 DEF Addressed
<1>3. /\ IsFiniteSet(V \X V) /\ Cardinality(V \X V) = Cardinality(V) * Cardinality(V)
  BY <1>1, FS_Product
<1>4. IsFiniteSet(E) /\ Cardinality(E) <= Cardinality(V) * Cardinality(V)
  BY <1>1, <1>3, FS_Subset
<1> HIDE DEF E
<1>5. /\ below \in [E -> SUBSET E]
      /\ \A e \in E : e \notin below[e]
      /\ \A e, f \in E : e \in below[f] => below[e] \subseteq below[f]
      /\ \A e, f \in E : e # f => e \in below[f] \/ f \in below[e]
  <2>1. \A e \in E : ~ Earlier(e, e)
    BY <1>2 DEF Earlier
  <2>2. \A d, e, f \in E : Earlier(d, e) /\ Earlier(e, f) => Earlier(d, f)
    BY <1>2 DEF Earlier
  <2>3. \A e, f \in E : e # f => Earlier(e, f) \/ Earlier(f, e)
    <3> SUFFICES ASSUME NEW e \in E, NEW f \in E, ~ Earlier(e, f), ~ Earlier(f, e)
                 PROVE  e = f
      OBVIOUS
    <3>1. e[1] = f[1] /\ e[2] = f[2]
      BY <1>2 DEF Earlier
    <3>2. e = <<e[1], e[2]>> /\ f = <<f[1], f[2]>>
      BY <1>2
    <3> QED  BY <3>1, <3>2
  <2> QED  BY <2>1, <2>2, <2>3
<1>6. \A e \in E : below[e] = {d \in E : Earlier(d, e)}
  OBVIOUS
<1> HIDE DEF below
<1>7. /\ Cardinality(E) \in Nat
      /\ \A e \in E : Cardinality(below[e]) \in 0 .. Cardinality(E) - 1
      /\ \A k \in 1 .. Cardinality(E) : \E e \in E : Cardinality(below[e]) = k - 1
  BY <1>4, <1>5, Ranking
<1> QED  BY <1>4, <1>6, <1>7 DEF E, Size

\* The indices of a network of at most 256 vertices leave no gap.
LEMMA PlacesAreNumbers ==
    ASSUME PlanInv, GraphInv, FewVertices, Placed(edge)
    PROVE  {edge[e].eindex : e \in Edges} = 0 .. Cardinality(Edges) - 1
<1> DEFINE n == Cardinality(Edges)
           place(e) == Cardinality({d \in Edges : Earlier(d, e)})
<1>1. n <= UINT16 /\ n \in Nat
  <2>1. Size \in Nat /\ Size <= 256
    <3>1. Size \in Nat /\ Size <= plan.size /\ plan.size \in Nat /\ plan.size <= 256
      BY GraphFacts, PlanFacts DEF FewVertices, PlanInv
    <3> QED  BY <3>1
  <2>2. Size * Size <= 65536 /\ Size * Size \in Nat
    <3> DEFINE m == Size
    <3>1. m \in Nat /\ m <= 256
      BY <2>1
    <3> HIDE DEF m
    <3>2. m * m <= 256 * m
      BY <3>1
    <3>3. m * m <= 65536 /\ m * m \in Nat
      BY <3>1, <3>2
    <3> QED  BY <3>3 DEF m
  <2> HIDE DEF n
  <2>3. n \in Nat /\ n <= Size * Size
    BY EdgePlaces DEF n
  <2> QED  BY <2>2, <2>3 DEF UINT16
<1>2. /\ \A e \in Edges : place(e) \in 0 .. n - 1
      /\ \A k \in 1 .. n : \E e \in Edges : place(e) = k - 1
  BY EdgePlaces
<1>3. \A e \in Edges : edge[e].eindex = place(e) % UINT16
  BY DEF Placed, Edges
<1> HIDE DEF n, place
<1>4. \A e \in Edges : edge[e].eindex = place(e)
  BY <1>1, <1>2, <1>3 DEF UINT16
<1>5. \A k \in 0 .. n - 1 : \E e \in Edges : place(e) = k
  <2> SUFFICES ASSUME NEW k \in 0 .. n - 1
               PROVE  \E e \in Edges : place(e) = k
    OBVIOUS
  <2>1. k + 1 \in 1 .. n
    BY <1>1
  <2>2. PICK e \in Edges : place(e) = (k + 1) - 1
    BY <1>2, <2>1
  <2> QED  BY <2>2
<1>6. {edge[e].eindex : e \in Edges} = 0 .. n - 1
  BY <1>2, <1>4, <1>5
<1> QED  BY <1>6 DEF n

-----------------------------------------------------------------------------
(* How a network changes.                                                  *)

IndexInv == plan.generator = 2 \/ phase \in {"built", "printed"} => Placed(edge)

\* Steps that make vertices or edges anew, but no more of them.
LEMMA GraphWith ==
    ASSUME GraphInv, plan' = plan,
           DOMAIN vertex' = DOMAIN vertex, ShapedVertices(vertex'),
           DOMAIN edge' \subseteq DOMAIN edge, ShapedEdges(edge')
    PROVE  GraphInv'
<1>1. PICK n \in 1 .. plan.size :
         /\ DOMAIN vertex = 0 .. n - 1 /\ (plan.generator = 2 => n = plan.size)
         /\ Joins(Edges, n)
  BY DEF GraphInv
<1>2. Edges' \subseteq Edges
  BY DEF Edges
<1>3. \A e \in Edges' : /\ e = <<e[1], e[2]>> /\ e[1] \in 0 .. n - 1 /\ e[2] \in 0 .. n - 1
                        /\ e[1] # e[2] /\ (plan'.generator = 1 => e[2] < e[1])
  BY <1>1, <1>2 DEF Joins
<1> QED  BY <1>1, <1>3 DEF GraphInv, Joins

LEMMA FreshFacts ==
    ASSUME NEW a
    PROVE  {"v_choice", "v_features", "service_rate"} \subseteq DOMAIN FreshVertex(a)
  BY DEF FreshVertex

LEMMA InitGraph ==
    ASSUME Init
    PROVE  PlanInv /\ GraphInv /\ IndexInv
<1>1. /\ plan \in Plans
      /\ address \in Addresses /\ DOMAIN address = 0 .. plan.size - 1
      /\ Seedling \/ RandomGraph
  BY DEF Init
<1>2. PlanInv
  BY <1>1 DEF PlanInv, Seedling, RandomGraph
<1>3. plan.size \in Nat /\ plan.size >= 1
  BY <1>2, PlanFacts
<1>4. CASE Seedling
  <2>1. /\ plan.generator = 1 /\ phase = "advance" /\ edge = <<>>
        /\ DOMAIN vertex = {0} /\ \E a : \A u \in DOMAIN vertex : vertex[u] = FreshVertex(a)
    BY <1>4 DEF Seedling
  <2>2. DOMAIN edge = {} /\ DOMAIN vertex = 0 .. 1 - 1 /\ 1 \in 1 .. plan.size
    BY <1>3, <2>1
  <2>3. GraphInv
    BY <2>1, <2>2, FreshFacts DEF GraphInv, Joins, Edges, ShapedEdges, ShapedVertices
  <2> QED  BY <1>2, <2>1, <2>3 DEF IndexInv
<1>5. CASE RandomGraph
  <2>1. /\ plan.generator = 2 /\ DOMAIN vertex = 0 .. plan.size - 1
        /\ \E a : \A u \in DOMAIN vertex : vertex[u] = FreshVertex(a)
    BY <1>5 DEF RandomGraph
  <2>2. PICK pairs \in RandomEdges(plan.size) : edge = Indexed([e \in pairs |-> FreshEdge])
    BY <1>5 DEF RandomGraph
  <2> DEFINE all == {<<u, v>> : u, v \in 0 .. plan.size - 1}
                        \ {<<u, u>> : u \in 0 .. plan.size - 1}
             g == [e \in pairs |-> FreshEdge]
  <2>3. pairs \subseteq all
    BY DEF RandomEdges, kSubset
  <2>4. DOMAIN g = pairs /\ ShapedEdges(g)
    BY DEF ShapedEdges, FreshEdge
  <2> HIDE DEF g
  <2>5. DOMAIN edge = pairs /\ ShapedEdges(edge) /\ Placed(edge)
    BY <2>2, <2>4, IndexedFacts DEF g
  <2>6. Joins(pairs, plan.size)
    BY <2>1, <2>3 DEF Joins
  <2>7. plan.size \in 1 .. plan.size
    BY <1>3
  <2>8. GraphInv
    BY <2>1, <2>5, <2>6, <2>7, FreshFacts DEF GraphInv, Edges, ShapedVertices
  <2> QED  BY <1>2, <2>5, <2>8 DEF IndexInv
<1> QED  BY <1>1, <1>4, <1>5

\* A vertex is added, and its edges lead to vertices that were there.
LEMMA AdvanceGraph ==
    ASSUME PlanInv, GraphInv, Advance
    PROVE  PlanInv' /\ GraphInv' /\ IndexInv'
<1>1. /\ phase = "advance" /\ phase' = "balance" /\ plan' = plan /\ address' = address
      /\ Size < plan.size
  BY DEF Advance
<1>2. PICK arrival \in plan.arrivals, order \in RateOrders, k \in NumEdges(Size) :
        \E links \in NewLinks(order, k) :
           LET new == {<<Size, w>> : w \in links}
           IN  /\ vertex' = [u \in 0 .. Size |->
                                IF u = Size THEN FreshVertex(arrival) ELSE vertex[u]]
               /\ edge' = Weighted([e \in Edges \cup new |->
                                      IF e \in new THEN FreshEdge ELSE edge[e]], {Size})
  BY DEF Advance
<1>3. PICK links \in NewLinks(order, k) :
           LET new == {<<Size, w>> : w \in links}
           IN  /\ vertex' = [u \in 0 .. Size |->
                                IF u = Size THEN FreshVertex(arrival) ELSE vertex[u]]
               /\ edge' = Weighted([e \in Edges \cup new |->
                                      IF e \in new THEN FreshEdge ELSE edge[e]], {Size})
  BY <1>2
<1>4. links \subseteq DOMAIN vertex
  BY DEF NewLinks
<1> DEFINE n == Size
           new == {<<n, w>> : w \in links}
           g == [e \in Edges \cup new |-> IF e \in new THEN FreshEdge ELSE edge[e]]
<1>5. /\ n \in Nat /\ n >= 1 /\ DOMAIN vertex = 0 .. n - 1 /\ Joins(Edges, n)
      /\ plan.size \in Nat /\ n < plan.size
  BY <1>1, GraphFacts, PlanFacts
<1>6. plan.generator = 1
  BY <1>1, PlanFacts DEF PlanInv
<1>7. /\ vertex' = [u \in 0 .. n |-> IF u = n THEN FreshVertex(arrival) ELSE vertex[u]]
      /\ edge' = Weighted(g, {n})
  BY <1>3
<1> HIDE DEF n
<1>8. DOMAIN g = Edges \cup new /\ ShapedEdges(g)
  BY DEF ShapedEdges, FreshEdge, GraphInv, Edges
<1> HIDE DEF g
<1>9. DOMAIN edge' = Edges \cup new /\ ShapedEdges(edge')
  BY <1>7, <1>8, WeightedFacts
<1>10. Joins(Edges \cup new, n + 1)
  <2>1. \A e \in Edges : /\ e = <<e[1], e[2]>> /\ e[1] \in 0 .. n /\ e[2] \in 0 .. n
                         /\ e[1] # e[2] /\ (plan.generator = 1 => e[2] < e[1])
    BY <1>5 DEF Joins
  <2>2. \A e \in new : /\ e = <<e[1], e[2]>> /\ e[1] \in 0 .. n /\ e[2] \in 0 .. n
                       /\ e[1] # e[2] /\ (plan.generator = 1 => e[2] < e[1])
    BY <1>4, <1>5
  <2>3. 0 .. n = 0 .. (n + 1) - 1
    BY <1>5
  <2> QED  BY <2>1, <2>2, <2>3 DEF Joins
<1> HIDE DEF new
<1>11. GraphInv'
  <2>1. n + 1 \in 1 .. plan.size /\ DOMAIN vertex' = 0 .. (n + 1) - 1
    BY <1>5, <1>7
  <2>2. ShapedVertices(vertex')
    <3>1. \A u \in 0 .. n : vertex'[u] = FreshVertex(arrival)
                            \/ (u \in DOMAIN vertex /\ vertex'[u] = vertex[u])
      BY <1>5, <1>7
    <3>2. DOMAIN vertex' = 0 .. n
      BY <1>7
    <3> QED  BY <3>1, <3>2, FreshFacts DEF GraphInv, ShapedVertices
  <2>3. \A e \in Edges' : /\ e = <<e[1], e[2]>> /\ e[1] \in 0 .. (n + 1) - 1
                           /\ e[2] \in 0 .. (n + 1) - 1 /\ e[1] # e[2]
                           /\ (plan'.generator = 1 => e[2] < e[1])
    BY <1>1, <1>9, <1>10 DEF Joins, Edges
  <2>4. PICK m \in 1 .. plan.size : m = n + 1
    BY <2>1
  <2> QED  BY <1>1, <1>6, <1>9, <2>1, <2>2, <2>3, <2>4 DEF GraphInv, Joins
<1>12. PlanInv' /\ IndexInv'
  BY <1>1, <1>6 DEF PlanInv, IndexInv
<1> QED  BY <1>11, <1>12

LEMMA PlacedNext ==
    ASSUME address' = address, Placed(edge')
    PROVE  Placed(edge)'
  BY DEF Placed, Earlier

\* What holds of the network until it is read again.
NetworkInv == PlanInv /\ (phase # "read" => GraphInv /\ IndexInv)

\* Steps of the searches and visits, and between them.
LEMMA QuietGraph ==
    ASSUME NetworkInv,
           VisitRoot \/ ExamineEdge \/ FinishVertex \/ BalanceNext \/ AllBalanced \/ Spread
               \/ PrintGraph
    PROVE  /\ NetworkInv'
           /\ vertex' = vertex /\ edge' = edge /\ plan' = plan /\ address' = address
           /\ phase # "read" /\ phase' # "read"
<1>1. /\ plan' = plan /\ address' = address /\ vertex' = vertex /\ edge' = edge
      /\ phase \in {"cycles", "sort", "balance", "built"}
      /\ \/ phase' = phase
         \/ phase = "balance" /\ plan.generator = 2 /\ phase' = "built"
         \/ phase = "built" /\ phase' = "printed"
  BY DEF VisitRoot, ExamineEdge, FinishVertex, BalanceNext, AllBalanced, Spread, PrintGraph,
         Visit, Visiting
<1>2. PlanInv /\ GraphInv /\ IndexInv
  BY <1>1 DEF NetworkInv
<1>3. GraphInv'
  BY <1>1, <1>2, GraphWith DEF GraphInv
<1>4. PlanInv'
  BY <1>1, <1>2 DEF PlanInv
<1>5. IndexInv'
  <2>1. plan.generator = 2 \/ phase' \in {"built", "printed"} =>
          plan.generator = 2 \/ phase \in {"built", "printed"}
    BY <1>1
  <2> QED  BY <1>1, <1>2, <2>1, PlacedNext DEF IndexInv
<1> QED  BY <1>1, <1>3, <1>4, <1>5 DEF NetworkInv

\* Steps that make the edges anew, or weigh them.
LEMMA EdgesAnew ==
    ASSUME NetworkInv, Grown \/ RemoveCycles \/ Sorted
    PROVE  NetworkInv'
<1>1. /\ plan' = plan /\ address' = address
      /\ phase \in {"advance", "cycles", "sort"} /\ phase' \in {"built", "sort", "balance"}
      /\ phase = "advance" => phase' = "built"
      /\ phase = "cycles" => phase' = "sort"
      /\ phase = "sort" => phase' = "balance"
  BY DEF Grown, RemoveCycles, Sorted
<1>2. PlanInv /\ GraphInv /\ IndexInv
  BY <1>1 DEF NetworkInv
<1>3. ShapedEdges(edge) /\ ShapedVertices(vertex)
  BY <1>2 DEF GraphInv
<1>4. PlanInv'
  BY <1>1, <1>2, PlanFacts DEF PlanInv
<1>5. CASE Grown
  <2>1. vertex' = vertex /\ edge' = Indexed(edge)
    BY <1>5 DEF Grown
  <2>2. DOMAIN edge' = DOMAIN edge /\ ShapedEdges(edge') /\ Placed(edge')
    BY <1>3, <2>1, IndexedFacts
  <2>3. GraphInv' /\ IndexInv'
    BY <1>1, <1>2, <1>3, <2>1, <2>2, GraphWith, PlacedNext DEF IndexInv
  <2> QED  BY <1>4, <2>3 DEF NetworkInv
<1>6. CASE RemoveCycles
  <2> DEFINE g == [e \in Edges \ dfs.back |-> edge[e]]
  <2>1. /\ edge' = Indexed(g) /\ DOMAIN vertex' = DOMAIN vertex
        /\ \A u \in DOMAIN vertex' : \E a : vertex'[u] = FreshVertex(a)
    BY <1>6 DEF RemoveCycles
  <2>2. DOMAIN g \subseteq DOMAIN edge /\ ShapedEdges(g)
    BY <1>3 DEF ShapedEdges, Edges
  <2> HIDE DEF g
  <2>3. DOMAIN edge' \subseteq DOMAIN edge /\ ShapedEdges(edge') /\ Placed(edge')
    BY <2>1, <2>2, IndexedFacts
  <2>4. ShapedVertices(vertex')
    BY <2>1, FreshFacts DEF ShapedVertices
  <2>5. GraphInv' /\ IndexInv'
    BY <1>1, <1>2, <2>1, <2>3, <2>4, GraphWith, PlacedNext DEF IndexInv
  <2> QED  BY <1>4, <2>5 DEF NetworkInv
<1>7. CASE Sorted
  <2>1. vertex' = vertex /\ edge' = Weighted(edge, DOMAIN vertex) /\ phase = "sort"
    BY <1>7 DEF Sorted
  <2>2. plan.generator = 2
    BY <1>2, <2>1, PlanFacts DEF PlanInv
  <2>3. Placed(edge)
    BY <1>2, <2>2 DEF IndexInv
  <2>4. DOMAIN edge' = DOMAIN edge /\ ShapedEdges(edge') /\ Placed(edge')
    BY <1>3, <2>1, <2>3, WeightedFacts
  <2>5. GraphInv' /\ IndexInv'
    BY <1>1, <1>2, <1>3, <2>1, <2>4, GraphWith, PlacedNext DEF IndexInv
  <2> QED  BY <1>4, <2>5 DEF NetworkInv
<1> QED  BY <1>5, <1>6, <1>7

\* Steps that change the properties of vertices.
LEMMA VerticesAnew ==
    ASSUME NetworkInv, Balanced \/ EstablishFeature
    PROVE  /\ NetworkInv' /\ edge' = edge /\ plan' = plan
           /\ phase # "read" /\ phase' # "read" /\ DOMAIN vertex' = DOMAIN vertex
<1>1. /\ plan' = plan /\ address' = address /\ edge' = edge
      /\ \/ phase = "balance" /\ phase' \in {"advance", "balance"}
            /\ (plan.generator # 1 => phase' = "balance")
         \/ phase = "built" /\ phase' = "built"
  BY DEF Balanced, EstablishFeature
<1>2. PlanInv /\ GraphInv /\ IndexInv
  BY <1>1 DEF NetworkInv
<1>3. PlanInv'
  BY <1>1, <1>2, PlanFacts DEF PlanInv
<1>4. DOMAIN vertex' = DOMAIN vertex /\ ShapedVertices(vertex')
  <2>1. ShapedVertices(vertex)
    BY <1>2 DEF GraphInv
  <2>2. CASE Balanced
    <3>1. vertex' = Strengthened
      BY <2>2 DEF Balanced
    <3> QED  BY <2>1, <3>1 DEF Strengthened, ShapedVertices
  <2>3. CASE EstablishFeature
    BY <2>1, <2>3 DEF EstablishFeature, ShapedVertices
  <2> QED  BY <2>2, <2>3
<1>5. GraphInv'
  BY <1>1, <1>2, <1>4, GraphWith DEF GraphInv
<1>6. IndexInv'
  BY <1>1, <1>2, PlacedNext DEF IndexInv
<1> QED  BY <1>1, <1>3, <1>4, <1>5, <1>6 DEF NetworkInv

LEMMA NetworkStep ==
    ASSUME NetworkInv, [Next]_vars
    PROVE  NetworkInv'
<1>1. CASE Advance
  <2>1. phase # "read"
    BY <1>1 DEF Advance
  <2> QED  BY <1>1, <2>1, AdvanceGraph DEF NetworkInv
<1>2. CASE ReadGraph
  <2>1. plan' = plan /\ address' = address /\ phase' = "read"
    BY <1>2 DEF ReadGraph
  <2> QED  BY <2>1 DEF NetworkInv, PlanInv
<1>3. CASE UNCHANGED vars
  BY <1>3 DEF vars, NetworkInv, PlanInv, GraphInv, IndexInv, Joins, Placed, Earlier, Edges
<1>4. CASE Ended
  BY <1>3, <1>4 DEF Ended
<1> QED  BY <1>1, <1>2, <1>3, <1>4, QuietGraph, EdgesAnew, VerticesAnew DEF Next

THEOREM NetworkInvHolds == Spec => []NetworkInv
<1>1. Init => NetworkInv
  BY InitGraph DEF NetworkInv
<1> QED  BY <1>1, NetworkStep, PTL DEF Spec

\* The edges of a network that is ready are numbered without a gap (createBBVGraph, createERGraph), as
\* long as an index can count them.
THEOREM EdgesNumberedHolds ==
    ASSUME FewVertices
    PROVE  Spec => []EdgesNumbered
<1>1. NetworkInv => EdgesNumbered
  <2> SUFFICES ASSUME NetworkInv, phase \in {"built", "printed"}
               PROVE  {edge[e].eindex : e \in Edges} = 0 .. Cardinality(Edges) - 1
    BY DEF EdgesNumbered
  <2> QED  BY PlacesAreNumbers DEF NetworkInv, IndexInv
<1> QED  BY <1>1, NetworkInvHolds, PTL

-----------------------------------------------------------------------------
(* The depth-first searches.                                               *)

Frames == [v : DOMAIN vertex, out : Seq(DOMAIN vertex)]

SearchShape(d) ==
    /\ DOMAIN d = {"color", "stack", "finished", "back"}
    /\ d.color \in [DOMAIN vertex -> {"white", "gray", "black"}]
    /\ d.stack \in Seq(Frames) /\ d.finished \in Seq(DOMAIN vertex)

\* The vertices on the stack are a path, and each edge of one of them is still to be examined, leads
\* back, to a vertex whose visit has ended, or to the next vertex on the stack.
Path(d) ==
    \A p \in DOMAIN d.stack :
        LET v == d.stack[p].v IN
        /\ ToSet(d.stack[p].out) \subseteq Targets(v, Edges)
        /\ \A w \in Targets(v, Edges) :
              \/ w \in ToSet(d.stack[p].out) \/ <<v, w>> \in d.back \/ d.color[w] = "black"
              \/ p + 1 \in DOMAIN d.stack /\ w = d.stack[p + 1].v
        /\ p + 1 \in DOMAIN d.stack => <<v, d.stack[p + 1].v>> \in Edges

GrayOnStack(d) ==
    \A u \in DOMAIN vertex : d.color[u] = "gray" => \E p \in DOMAIN d.stack : d.stack[p].v = u

\* What has an edge to a vertex, other than one that leads back, is finished after it.
FinishedInOrder(d) ==
    /\ \A u \in DOMAIN vertex :
          d.color[u] = "black" => \E q \in DOMAIN d.finished : d.finished[q] = u
    /\ \A q \in DOMAIN d.finished : \A w \in Targets(d.finished[q], Edges) :
          \/ <<d.finished[q], w>> \in d.back
          \/ \E r \in DOMAIN d.finished : r < q /\ d.finished[r] = w

SearchOK(d) == SearchShape(d) /\ Path(d) /\ GrayOnStack(d) /\ FinishedInOrder(d)

LEMMA NewVisitOK ==
    ASSUME NEW n, DOMAIN vertex = 0 .. n - 1
    PROVE  SearchOK(NewVisit(n)) /\ NewVisit(n).back = {}
<1> DEFINE d == NewVisit(n)
<1>1. /\ DOMAIN d = {"color", "stack", "finished", "back"}
      /\ d.color = [u \in 0 .. n - 1 |-> "white"] /\ d.stack = <<>> /\ d.finished = <<>>
      /\ d.back = {}
  BY DEF NewVisit
<1> HIDE DEF d
<1>2. SearchShape(d)
  BY <1>1 DEF SearchShape
<1>3. Path(d) /\ GrayOnStack(d) /\ FinishedInOrder(d)
  <2>1. DOMAIN d.stack = {} /\ DOMAIN d.finished = {}
    BY <1>1
  <2>2. \A u \in DOMAIN vertex : d.color[u] = "white"
    BY <1>1
  <2> QED  BY <2>1, <2>2 DEF Path, GrayOnStack, FinishedInOrder
<1> QED  BY <1>1, <1>2, <1>3 DEF SearchOK, d

\* A vertex is discovered: st is the stack, less the edge over which it was.
LEMMA DiscoverOK ==
    ASSUME PlanInv, GraphInv, SearchOK(dfs), NEW w \in DOMAIN vertex, dfs.color[w] = "white",
           NEW st \in Seq(Frames), DOMAIN st = DOMAIN dfs.stack,
           \A p \in DOMAIN st : st[p].v = dfs.stack[p].v,
           \A p \in DOMAIN st : ToSet(st[p].out) \subseteq ToSet(dfs.stack[p].out),
           \A p \in DOMAIN st : p # Len(st) => st[p].out = dfs.stack[p].out,
           st # <<>> => /\ w \in Targets(st[Len(st)].v, Edges)
                        /\ ToSet(dfs.stack[Len(st)].out) \subseteq ToSet(st[Len(st)].out) \cup {w}
    PROVE  SearchOK(Discover(w, st)) /\ Discover(w, st).back = dfs.back
<1> DEFINE d == Discover(w, st)
           frame == [v |-> w, out |-> SortedTargets(w, Edges)]
           L == Len(st)
<1>1. /\ Targets(w, Edges) \subseteq DOMAIN vertex
      /\ SortedTargets(w, Edges) \in Seq(DOMAIN vertex)
      /\ ToSet(SortedTargets(w, Edges)) = Targets(w, Edges)
  <2>1. /\ Targets(w, Edges) \subseteq DOMAIN vertex
        /\ SortedTargets(w, Edges) \in Seq(Targets(w, Edges))
        /\ ToSet(SortedTargets(w, Edges)) = Targets(w, Edges)
    BY TargetFacts
  <2> QED  BY <2>1
<1>2. SearchShape(dfs)
  BY DEF SearchOK
<1>3. /\ DOMAIN d = DOMAIN dfs
      /\ d.color = [dfs.color EXCEPT ![w] = "gray"] /\ d.stack = Append(st, frame)
      /\ d.finished = dfs.finished /\ d.back = dfs.back
  BY <1>2 DEF Discover, SearchShape
<1>4. frame \in Frames
  BY <1>1 DEF Frames
<1>5. frame.v = w /\ ToSet(frame.out) = Targets(w, Edges)
  BY <1>1
<1> HIDE DEF d, frame
<1>6. /\ L \in Nat /\ DOMAIN st = 1 .. L /\ DOMAIN d.stack = 1 .. (L + 1)
      /\ d.stack[L + 1] = frame /\ \A p \in 1 .. L : d.stack[p] = st[p]
      /\ d.stack \in Seq(Frames)
  BY <1>3, <1>4
<1>7. SearchShape(d)
  BY <1>2, <1>3, <1>6 DEF SearchShape
<1>8. \A u \in DOMAIN vertex : d.color[u] = IF u = w THEN "gray" ELSE dfs.color[u]
  BY <1>2, <1>3 DEF SearchShape
<1> HIDE DEF L
<1>9. Path(d)
  <2> SUFFICES ASSUME NEW p \in 1 .. (L + 1)
               PROVE  LET v == d.stack[p].v IN
                      /\ ToSet(d.stack[p].out) \subseteq Targets(v, Edges)
                      /\ \A x \in Targets(v, Edges) :
                            \/ x \in ToSet(d.stack[p].out) \/ <<v, x>> \in d.back
                            \/ d.color[x] = "black"
                            \/ p + 1 \in DOMAIN d.stack /\ x = d.stack[p + 1].v
                      /\ p + 1 \in DOMAIN d.stack => <<v, d.stack[p + 1].v>> \in Edges
    BY <1>6 DEF Path
  <2>1. CASE p = L + 1
    <3>1. d.stack[p] = frame /\ p + 1 \notin DOMAIN d.stack
      BY <1>6, <2>1
    <3> QED  BY <1>5, <3>1
  <2>2. CASE p \in 1 .. L
    <3> DEFINE v == st[p].v
    <3>1. /\ d.stack[p] = st[p] /\ p + 1 \in DOMAIN d.stack /\ p \in DOMAIN dfs.stack
          /\ v = dfs.stack[p].v /\ p \in Nat
      BY <1>6, <2>2
    <3>2. /\ ToSet(dfs.stack[p].out) \subseteq Targets(v, Edges)
          /\ \A x \in Targets(v, Edges) :
                \/ x \in ToSet(dfs.stack[p].out) \/ <<v, x>> \in dfs.back
                \/ dfs.color[x] = "black"
                \/ p + 1 \in DOMAIN dfs.stack /\ x = dfs.stack[p + 1].v
          /\ p + 1 \in DOMAIN dfs.stack => <<v, dfs.stack[p + 1].v>> \in Edges
      BY <3>1 DEF SearchOK, Path
    <3>7. d.stack[p].v = v /\ d.stack[p].out = st[p].out
      BY <3>1
    <3>3. \A x \in Targets(v, Edges) : dfs.color[x] = "black" => d.color[x] = "black"
      <4>1. Targets(v, Edges) \subseteq DOMAIN vertex
        BY TargetFacts
      <4> QED  BY <1>8, <4>1
    <3>4. ToSet(st[p].out) \subseteq Targets(v, Edges)
      BY <1>6, <2>2, <3>2
    <3>5. CASE p = L
      <4>1. d.stack[p + 1].v = w /\ p + 1 \notin DOMAIN dfs.stack /\ st # <<>>
        BY <1>5, <1>6, <2>2, <3>5
      <4>2. /\ w \in Targets(v, Edges)
            /\ ToSet(dfs.stack[p].out) \subseteq ToSet(st[p].out) \cup {w}
        BY <3>5, <4>1 DEF L
      <4>3. <<v, w>> \in Edges
        BY <4>2, TargetFacts
      <4> HIDE DEF v
      <4>4. \A x \in Targets(v, Edges) :
               \/ x \in ToSet(st[p].out) \/ <<v, x>> \in d.back
               \/ d.color[x] = "black" \/ x = d.stack[p + 1].v
        BY <1>3, <3>2, <3>3, <4>1, <4>2
      <4> QED  BY <3>1, <3>4, <3>7, <4>1, <4>3, <4>4
    <3>6. CASE p # L
      <4>1. p + 1 \in 1 .. L
        BY <1>6, <2>2, <3>6
      <4>2. p + 1 \in DOMAIN dfs.stack /\ d.stack[p + 1].v = dfs.stack[p + 1].v
        BY <1>6, <4>1
      <4>3. st[p].out = dfs.stack[p].out
        BY <1>6, <2>2, <3>6 DEF L
      <4> HIDE DEF v
      <4>4. \A x \in Targets(v, Edges) :
               \/ x \in ToSet(st[p].out) \/ <<v, x>> \in d.back
               \/ d.color[x] = "black" \/ x = d.stack[p + 1].v
        BY <1>3, <3>2, <3>3, <4>2, <4>3
      <4>5. ToSet(st[p].out) \subseteq Targets(v, Edges) /\ <<v, d.stack[p + 1].v>> \in Edges
        BY <3>2, <4>2, <4>3
      <4> QED  BY <3>1, <3>7, <4>4, <4>5
    <3> QED  BY <3>5, <3>6
  <2> QED  BY <1>6, <2>1, <2>2
<1>10. GrayOnStack(d)
  <2> SUFFICES ASSUME NEW u \in DOMAIN vertex, d.color[u] = "gray"
               PROVE  \E p \in 1 .. (L + 1) : d.stack[p].v = u
    BY <1>6 DEF GrayOnStack
  <2>1. CASE u = w
    BY <1>5, <1>6, <2>1
  <2>2. CASE u # w
    <3>1. PICK p \in DOMAIN dfs.stack : dfs.stack[p].v = u
      BY <1>8, <2>2 DEF SearchOK, GrayOnStack
    <3>2. p \in 1 .. L /\ p \in 1 .. (L + 1) /\ d.stack[p].v = u
      BY <1>6, <3>1
    <3> QED  BY <3>2
  <2> QED  BY <2>1, <2>2
<1>11. FinishedInOrder(d)
  BY <1>3, <1>8 DEF SearchOK, FinishedInOrder
<1> QED  BY <1>3, <1>7, <1>9, <1>10, <1>11 DEF SearchOK, d

\* The search starts at a vertex not seen yet.
LEMMA RootOK ==
    ASSUME PlanInv, GraphInv, SearchOK(dfs), VisitRoot
    PROVE  SearchOK(dfs') /\ dfs'.back = dfs.back
<1>1. White # {} /\ dfs.stack = <<>> /\ dfs' = Discover(Min(White), <<>>)
  BY DEF VisitRoot
<1>2. Min(White) \in White
  <2>1. White \subseteq Nat
    BY GraphFacts DEF White
  <2>2. PICK m \in White : \A k \in White : m <= k
    BY <1>1, <2>1, Least
  <2> QED  BY <2>2 DEF Min
<1>3. Min(White) \in DOMAIN vertex /\ dfs.color[Min(White)] = "white"
  BY <1>2 DEF White
<1> DEFINE st == << >>
<1>4. st \in Seq(Frames) /\ DOMAIN st = {} /\ DOMAIN st = DOMAIN dfs.stack /\ st = <<>>
  BY <1>1
<1> HIDE DEF st
<1>5. SearchOK(Discover(Min(White), st)) /\ Discover(Min(White), st).back = dfs.back
  BY <1>3, <1>4, DiscoverOK
<1> QED  BY <1>1, <1>5 DEF st

\* What a step over an edge does to the stack.
LEMMA TopFacts ==
    ASSUME PlanInv, GraphInv, SearchOK(dfs), dfs.stack # <<>>
    PROVE  /\ Len(dfs.stack) \in DOMAIN dfs.stack /\ Len(dfs.stack) \in Nat \ {0}
           /\ DOMAIN dfs.stack = 1 .. Len(dfs.stack)
           /\ TopOfStack \in Frames /\ TopOfStack.v \in DOMAIN vertex
           /\ TopOfStack.out \in Seq(DOMAIN vertex)
           /\ ToSet(TopOfStack.out) \subseteq Targets(TopOfStack.v, Edges)
           /\ \A w \in Targets(TopOfStack.v, Edges) :
                 \/ w \in ToSet(TopOfStack.out) \/ <<TopOfStack.v, w>> \in dfs.back
                 \/ dfs.color[w] = "black"
<1> DEFINE L == Len(dfs.stack)
<1>1. dfs.stack \in Seq(Frames)
  BY DEF SearchOK, SearchShape
<1>2. L \in Nat \ {0} /\ DOMAIN dfs.stack = 1 .. L /\ L \in DOMAIN dfs.stack
  BY <1>1
<1>3. L + 1 \notin DOMAIN dfs.stack
  <2> HIDE DEF L
  <2> QED  BY <1>2
<1>4. TopOfStack = dfs.stack[L] /\ TopOfStack \in Frames
  BY <1>1, <1>2 DEF TopOfStack
<1>5. TopOfStack.v \in DOMAIN vertex /\ TopOfStack.out \in Seq(DOMAIN vertex)
  BY <1>4 DEF Frames
<1>6. /\ ToSet(TopOfStack.out) \subseteq Targets(TopOfStack.v, Edges)
      /\ \A w \in Targets(TopOfStack.v, Edges) :
                 \/ w \in ToSet(TopOfStack.out) \/ <<TopOfStack.v, w>> \in dfs.back
                 \/ dfs.color[w] = "black"
  <2> HIDE DEF L
  <2> QED  BY <1>2, <1>3, <1>4 DEF SearchOK, Path
<1> QED  BY <1>2, <1>4, <1>5, <1>6

\* The stack once the next edge of the vertex on top has been taken.
Examined == [dfs.stack EXCEPT ![Len(dfs.stack)].out = Tail(@)]

LEMMA ExaminedFacts ==
    ASSUME PlanInv, GraphInv, SearchOK(dfs), dfs.stack # <<>>, TopOfStack.out # <<>>
    PROVE  /\ Head(TopOfStack.out) \in Targets(TopOfStack.v, Edges)
           /\ Examined \in Seq(Frames) /\ DOMAIN Examined = DOMAIN dfs.stack
           /\ Len(Examined) = Len(dfs.stack)
           /\ \A p \in DOMAIN Examined : Examined[p].v = dfs.stack[p].v
           /\ \A p \in DOMAIN Examined : ToSet(Examined[p].out) \subseteq ToSet(dfs.stack[p].out)
           /\ \A p \in DOMAIN Examined : p # Len(dfs.stack) => Examined[p].out = dfs.stack[p].out
           /\ ToSet(TopOfStack.out)
                 \subseteq ToSet(Examined[Len(dfs.stack)].out) \cup {Head(TopOfStack.out)}
<1> DEFINE L == Len(dfs.stack)
           out == TopOfStack.out
           st == Examined
<1>1. /\ dfs.stack \in Seq(Frames) /\ L \in Nat \ {0} /\ DOMAIN dfs.stack = 1 .. L
      /\ out \in Seq(DOMAIN vertex) /\ out # <<>> /\ TopOfStack = dfs.stack[L]
      /\ ToSet(out) \subseteq Targets(TopOfStack.v, Edges)
  BY TopFacts DEF SearchOK, SearchShape, TopOfStack
<1>2. /\ Tail(out) \in Seq(DOMAIN vertex) /\ Head(out) \in ToSet(out)
      /\ ToSet(Tail(out)) \subseteq ToSet(out)
      /\ ToSet(out) \subseteq ToSet(Tail(out)) \cup {Head(out)}
  <2> HIDE DEF out
  <2>1. Tail(out) \in Seq(DOMAIN vertex) /\ Len(out) \in Nat \ {0} /\ DOMAIN out = 1 .. Len(out)
    BY <1>1
  <2>2. Head(out) = out[1] /\ 1 \in DOMAIN out
    BY <2>1
  <2>3. DOMAIN Tail(out) = 1 .. (Len(out) - 1) /\ \A i \in 1 .. (Len(out) - 1) : Tail(out)[i] = out[i + 1]
    BY <1>1, <2>1
  <2>4. ToSet(Tail(out)) \subseteq ToSet(out)
    BY <2>1, <2>3 DEF ToSet
  <2>5. ASSUME NEW x \in ToSet(out), x # Head(out)
        PROVE  x \in ToSet(Tail(out))
    <3>1. PICK i \in 1 .. Len(out) : out[i] = x
      BY <2>1 DEF ToSet
    <3>2. i - 1 \in 1 .. (Len(out) - 1) /\ (i - 1) + 1 = i
      BY <2>1, <2>2, <2>5, <3>1
    <3> QED  BY <2>3, <3>1, <3>2 DEF ToSet
  <2> QED  BY <2>1, <2>2, <2>4, <2>5 DEF ToSet
<1>3. /\ DOMAIN st = 1 .. L
      /\ \A p \in 1 .. L : st[p] = IF p = L THEN [dfs.stack[L] EXCEPT !.out = Tail(@)] ELSE dfs.stack[p]
  BY <1>1 DEF Examined
<1>4. \A p \in 1 .. L : dfs.stack[p] \in Frames
  BY <1>1
<1>5. /\ st[L] \in Frames /\ st[L].v = dfs.stack[L].v /\ st[L].out = Tail(out)
  <2> HIDE DEF st, L
  <2>1. L \in 1 .. L
    BY <1>1
  <2>2. st[L] = [dfs.stack[L] EXCEPT !.out = Tail(@)] /\ dfs.stack[L].out = out /\ dfs.stack[L] \in Frames
    BY <1>1, <1>3, <1>4, <2>1
  <2> HIDE DEF out
  <2> QED  BY <1>2, <2>2 DEF Frames
<1> HIDE DEF st, L, out
<1>6. \A p \in 1 .. L : st[p] \in Frames
  BY <1>3, <1>4, <1>5
<1>7. st \in Seq(Frames) /\ Len(st) = L
  <2>1. st = [p \in 1 .. L |-> st[p]]
    BY <1>1, <1>3 DEF st, Examined, L
  <2> QED  BY <1>1, <1>3, <1>6, <2>1, SeqDef
<1>8. dfs.stack[L].out = out
  BY <1>1 DEF out
<1> QED  BY <1>1, <1>2, <1>3, <1>5, <1>7, <1>8 DEF st, L, out

\* In a graph without cycles no edge leads back.
LEMMA NoEdgeBack ==
    ASSUME PlanInv, GraphInv, SearchOK(dfs), dfs.stack # <<>>, TopOfStack.out # <<>>,
           Acyclic(Edges)
    PROVE  ~ BackEdge(Head(TopOfStack.out))
<1> DEFINE L == Len(dfs.stack)
           w == Head(TopOfStack.out)
<1>1. /\ L \in Nat \ {0} /\ DOMAIN dfs.stack = 1 .. L
      /\ w \in Targets(TopOfStack.v, Edges) /\ w \in DOMAIN vertex
      /\ TopOfStack = dfs.stack[L] /\ dfs.stack \in Seq(Frames)
  BY TopFacts, ExaminedFacts, TargetFacts DEF SearchOK, SearchShape, TopOfStack
<1> SUFFICES ASSUME BackEdge(w) PROVE FALSE
  OBVIOUS
<1>2. dfs.color[w] = "gray"
  BY DEF BackEdge
<1> HIDE DEF L, w
<1>3. PICK p \in 1 .. L : dfs.stack[p].v = w
  BY <1>1, <1>2 DEF SearchOK, GrayOnStack
<1> DEFINE S == {dfs.stack[i].v : i \in p .. L}
<1>4. w \in S /\ S \in (SUBSET DOMAIN vertex) \ {{}}
  <2>1. p \in p .. L /\ p .. L \subseteq 1 .. L
    BY <1>1, <1>3
  <2>2. \A i \in 1 .. L : dfs.stack[i] \in Frames
    BY <1>1
  <2>3. \A i \in 1 .. L : dfs.stack[i].v \in DOMAIN vertex
    BY <2>2 DEF Frames
  <2> QED  BY <1>3, <2>1, <2>3
<1>5. \A u \in S : Targets(u, Edges) \cap S # {}
  <2> SUFFICES ASSUME NEW i \in p .. L
               PROVE  Targets(dfs.stack[i].v, Edges) \cap S # {}
    OBVIOUS
  <2>1. CASE i = L
    BY <1>1, <1>4, <2>1
  <2>2. CASE i # L
    <3>1. i \in 1 .. L /\ i + 1 \in p .. L /\ i + 1 \in 1 .. L
      BY <1>1, <1>3, <2>2
    <3>2. <<dfs.stack[i].v, dfs.stack[i + 1].v>> \in Edges
      BY <1>1, <3>1 DEF SearchOK, Path
    <3>3. dfs.stack[i + 1].v \in Targets(dfs.stack[i].v, Edges)
      BY <3>2, TargetFacts
    <3>4. dfs.stack[i + 1].v \in S
      BY <3>1
    <3> QED  BY <3>3, <3>4
  <2> QED  BY <2>1, <2>2
<1> HIDE DEF S
<1> QED  BY <1>4, <1>5 DEF Acyclic

LEMMA ExamineOK ==
    ASSUME PlanInv, GraphInv, SearchOK(dfs), ExamineEdge
    PROVE  /\ SearchOK(dfs')
           /\ ~ BackEdge(Head(TopOfStack.out)) => dfs'.back = dfs.back
<1> DEFINE L == Len(dfs.stack)
           v == TopOfStack.v
           w == Head(TopOfStack.out)
           st == Examined
<1>1. /\ dfs.stack # <<>> /\ TopOfStack.out # <<>>
      /\ dfs' = IF BackEdge(w) THEN [dfs EXCEPT !.stack = st, !.back = @ \cup {<<v, w>>}]
                ELSE IF dfs.color[w] = "white" THEN Discover(w, st)
                ELSE [dfs EXCEPT !.stack = st]
  BY DEF ExamineEdge, Examined
<1>2. /\ w \in Targets(v, Edges) /\ st \in Seq(Frames) /\ DOMAIN st = DOMAIN dfs.stack /\ Len(st) = L
      /\ \A p \in DOMAIN st : st[p].v = dfs.stack[p].v
      /\ \A p \in DOMAIN st : ToSet(st[p].out) \subseteq ToSet(dfs.stack[p].out)
      /\ \A p \in DOMAIN st : p # L => st[p].out = dfs.stack[p].out
      /\ ToSet(dfs.stack[L].out) \subseteq ToSet(st[L].out) \cup {w}
  BY <1>1, ExaminedFacts DEF TopOfStack
<1>3. /\ w \in DOMAIN vertex /\ L \in Nat \ {0} /\ DOMAIN dfs.stack = 1 .. L
      /\ v = dfs.stack[L].v /\ L \in DOMAIN st /\ st[L].v = v
  BY <1>1, <1>2, TopFacts, TargetFacts DEF TopOfStack
<1>4. SearchShape(dfs) /\ dfs.color[w] \in {"white", "gray", "black"}
  BY <1>3 DEF SearchOK, SearchShape
<1> HIDE DEF L, v, w, st
<1>5. CASE dfs.color[w] = "white"
  <2>1. dfs' = Discover(w, st)
    BY <1>1, <1>5 DEF BackEdge
  <2>2. SearchOK(Discover(w, st)) /\ Discover(w, st).back = dfs.back
    BY <1>2, <1>3, <1>5, DiscoverOK
  <2> QED  BY <2>1, <2>2
<1>6. CASE dfs.color[w] # "white"
  <2> DEFINE new == IF BackEdge(w) THEN dfs.back \cup {<<v, w>>} ELSE dfs.back
  <2>1. /\ DOMAIN dfs' = DOMAIN dfs /\ dfs'.color = dfs.color /\ dfs'.stack = st
        /\ dfs'.finished = dfs.finished /\ dfs'.back = new
    BY <1>1, <1>4, <1>6 DEF SearchShape
  <2>2. /\ dfs.back \subseteq new /\ (~ BackEdge(w) => new = dfs.back)
        /\ <<v, w>> \in new \/ dfs.color[w] = "black"
    BY <1>4, <1>6 DEF BackEdge
  <2> HIDE DEF new
  <2>3. SearchShape(dfs')
    BY <1>2, <1>4, <2>1 DEF SearchShape
  <2>4. Path(dfs')
    <3> SUFFICES ASSUME NEW p \in DOMAIN st
                 PROVE  LET x == st[p].v IN
                        /\ ToSet(st[p].out) \subseteq Targets(x, Edges)
                        /\ \A y \in Targets(x, Edges) :
                              \/ y \in ToSet(st[p].out) \/ <<x, y>> \in new
                              \/ dfs.color[y] = "black"
                              \/ p + 1 \in DOMAIN st /\ y = st[p + 1].v
                        /\ p + 1 \in DOMAIN st => <<x, st[p + 1].v>> \in Edges
      BY <2>1 DEF Path
    <3> DEFINE x == st[p].v
    <3>1. x = dfs.stack[p].v /\ \A q \in DOMAIN st : st[q].v = dfs.stack[q].v
      BY <1>2
    <3>2. /\ ToSet(dfs.stack[p].out) \subseteq Targets(x, Edges)
          /\ \A y \in Targets(x, Edges) :
                \/ y \in ToSet(dfs.stack[p].out) \/ <<x, y>> \in dfs.back
                \/ dfs.color[y] = "black"
                \/ p + 1 \in DOMAIN dfs.stack /\ y = dfs.stack[p + 1].v
          /\ p + 1 \in DOMAIN dfs.stack => <<x, dfs.stack[p + 1].v>> \in Edges
      BY <1>2, <3>1 DEF SearchOK, Path
    <3>3. ToSet(st[p].out) \subseteq Targets(x, Edges)
      BY <1>2, <3>2
    <3>4. CASE p = L
      <4>1. x = v /\ ToSet(dfs.stack[p].out) \subseteq ToSet(st[p].out) \cup {w}
        BY <1>2, <1>3, <3>4
      <4> HIDE DEF x
      <4> QED  BY <1>2, <2>2, <3>1, <3>2, <3>3, <4>1
    <3>5. CASE p # L
      <4>1. st[p].out = dfs.stack[p].out
        BY <1>2, <3>5
      <4> HIDE DEF x
      <4> QED  BY <1>2, <2>2, <3>1, <3>2, <3>3, <4>1
    <3> QED  BY <3>4, <3>5
  <2>5. GrayOnStack(dfs')
    BY <1>2, <2>1 DEF SearchOK, GrayOnStack
  <2>6. FinishedInOrder(dfs')
    BY <2>1, <2>2 DEF SearchOK, FinishedInOrder
  <2> QED  BY <2>1, <2>2, <2>3, <2>4, <2>5, <2>6 DEF SearchOK, w
<1> QED  BY <1>5, <1>6 DEF w

LEMMA FinishOK ==
    ASSUME PlanInv, GraphInv, SearchOK(dfs), FinishVertex
    PROVE  SearchOK(dfs') /\ dfs'.back = dfs.back
<1> DEFINE L == Len(dfs.stack)
           v == TopOfStack.v
           F == Len(dfs.finished)
<1>1. /\ dfs.stack # <<>> /\ TopOfStack.out = <<>>
      /\ dfs' = [dfs EXCEPT !.color = [@ EXCEPT ![v] = "black"], !.stack = Front(@),
                            !.finished = Append(@, v)]
  BY DEF FinishVertex
<1>2. /\ SearchShape(dfs) /\ v \in DOMAIN vertex /\ L \in Nat \ {0}
      /\ DOMAIN dfs.stack = 1 .. L /\ dfs.stack[L].v = v
      /\ \A w \in Targets(v, Edges) :
            \/ w \in ToSet(TopOfStack.out) \/ <<v, w>> \in dfs.back \/ dfs.color[w] = "black"
  BY <1>1, TopFacts DEF SearchOK, TopOfStack
<1>3. ToSet(TopOfStack.out) = {}
  BY <1>1 DEF ToSet
<1>4. /\ DOMAIN dfs' = DOMAIN dfs /\ dfs'.color = [dfs.color EXCEPT ![v] = "black"]
      /\ dfs'.stack = Front(dfs.stack) /\ dfs'.finished = Append(dfs.finished, v)
      /\ dfs'.back = dfs.back
  BY <1>1, <1>2 DEF SearchShape
<1> HIDE DEF v
<1>5. /\ Front(dfs.stack) \in Seq(Frames) /\ DOMAIN Front(dfs.stack) = 1 .. (L - 1)
      /\ \A p \in 1 .. (L - 1) : Front(dfs.stack)[p] = dfs.stack[p]
  <2>1. dfs.stack \in Seq(Frames)
    BY <1>2 DEF SearchShape
  <2> QED  BY <1>2, <2>1 DEF Front
<1>6. /\ F \in Nat /\ DOMAIN dfs.finished = 1 .. F /\ DOMAIN dfs'.finished = 1 .. (F + 1)
      /\ dfs'.finished \in Seq(DOMAIN vertex) /\ dfs'.finished[F + 1] = v
      /\ \A q \in 1 .. F : dfs'.finished[q] = dfs.finished[q]
  <2>1. dfs.finished \in Seq(DOMAIN vertex)
    BY <1>2 DEF SearchShape
  <2> QED  BY <1>2, <1>4, <2>1
<1> HIDE DEF L, F
<1>7. \A u \in DOMAIN vertex : dfs'.color[u] = IF u = v THEN "black" ELSE dfs.color[u]
  BY <1>2, <1>4 DEF SearchShape
<1>8. SearchShape(dfs')
  BY <1>2, <1>4, <1>5, <1>6 DEF SearchShape
<1>9. Path(dfs')
  <2> SUFFICES ASSUME NEW p \in 1 .. (L - 1)
               PROVE  LET x == dfs.stack[p].v IN
                      /\ ToSet(dfs.stack[p].out) \subseteq Targets(x, Edges)
                      /\ \A y \in Targets(x, Edges) :
                            \/ y \in ToSet(dfs.stack[p].out) \/ <<x, y>> \in dfs.back
                            \/ dfs'.color[y] = "black"
                            \/ p + 1 \in 1 .. (L - 1) /\ y = dfs.stack[p + 1].v
                      /\ p + 1 \in 1 .. (L - 1) => <<x, dfs.stack[p + 1].v>> \in Edges
    <3>1. /\ DOMAIN dfs'.stack = 1 .. (L - 1) /\ dfs'.back = dfs.back
          /\ \A p \in 1 .. (L - 1) : dfs'.stack[p] = dfs.stack[p]
      BY <1>4, <1>5
    <3> QED  BY <3>1 DEF Path
  <2> DEFINE x == dfs.stack[p].v
  <2>1. p \in DOMAIN dfs.stack /\ p + 1 \in DOMAIN dfs.stack /\ (p + 1 = L \/ p + 1 \in 1 .. (L - 1))
    BY <1>2
  <2>2. /\ ToSet(dfs.stack[p].out) \subseteq Targets(x, Edges)
        /\ \A y \in Targets(x, Edges) :
              \/ y \in ToSet(dfs.stack[p].out) \/ <<x, y>> \in dfs.back
              \/ dfs.color[y] = "black" \/ y = dfs.stack[p + 1].v
        /\ <<x, dfs.stack[p + 1].v>> \in Edges
    BY <2>1 DEF SearchOK, Path
  <2>3. \A y \in Targets(x, Edges) : dfs.color[y] = "black" \/ y = v => dfs'.color[y] = "black"
    <3>1. Targets(x, Edges) \subseteq DOMAIN vertex
      BY TargetFacts
    <3> QED  BY <1>7, <3>1
  <2> HIDE DEF x
  <2> QED  BY <1>2, <2>1, <2>2, <2>3 DEF x
<1>10. GrayOnStack(dfs')
  <2> SUFFICES ASSUME NEW u \in DOMAIN vertex, dfs'.color[u] = "gray"
               PROVE  \E p \in 1 .. (L - 1) : dfs.stack[p].v = u
    BY <1>4, <1>5 DEF GrayOnStack
  <2>1. u # v /\ dfs.color[u] = "gray"
    BY <1>7
  <2>2. PICK p \in DOMAIN dfs.stack : dfs.stack[p].v = u
    BY <2>1 DEF SearchOK, GrayOnStack
  <2>3. p # L
    BY <1>2, <2>1, <2>2
  <2>4. p \in 1 .. (L - 1)
    BY <1>2, <2>2, <2>3
  <2> QED  BY <2>2, <2>4
<1>11. FinishedInOrder(dfs')
  <2>1. /\ \A u \in DOMAIN vertex :
              dfs.color[u] = "black" => \E q \in 1 .. F : dfs.finished[q] = u
        /\ \A q \in 1 .. F : \A w \in Targets(dfs.finished[q], Edges) :
              \/ <<dfs.finished[q], w>> \in dfs.back
              \/ \E r \in 1 .. F : r < q /\ dfs.finished[r] = w
    BY <1>6 DEF SearchOK, FinishedInOrder
  <2>2. F + 1 \in 1 .. (F + 1) /\ 1 .. F \subseteq 1 .. (F + 1)
    BY <1>6
  <2>3. ASSUME NEW u \in DOMAIN vertex, dfs'.color[u] = "black"
        PROVE  \E q \in 1 .. (F + 1) : dfs'.finished[q] = u
    <3>1. CASE u = v
      BY <1>6, <2>2, <3>1
    <3>2. CASE u # v
      <4>1. PICK q \in 1 .. F : dfs.finished[q] = u
        BY <1>7, <2>1, <2>3, <3>2
      <4> QED  BY <1>6, <2>2, <4>1
    <3> QED  BY <3>1, <3>2
  <2>4. ASSUME NEW q \in 1 .. (F + 1), NEW w \in Targets(dfs'.finished[q], Edges)
        PROVE  \/ <<dfs'.finished[q], w>> \in dfs.back
               \/ \E r \in 1 .. (F + 1) : r < q /\ dfs'.finished[r] = w
    <3>1. CASE q = F + 1
      <4>1. dfs'.finished[q] = v /\ w \in Targets(v, Edges) /\ w \in DOMAIN vertex
        BY <1>6, <2>4, <3>1, TargetFacts
      <4>2. CASE <<v, w>> \in dfs.back
        BY <4>1, <4>2
      <4>3. CASE dfs.color[w] = "black"
        <5>1. PICK r \in 1 .. F : dfs.finished[r] = w
          BY <2>1, <4>1, <4>3
        <5>2. r < q /\ r \in 1 .. (F + 1) /\ dfs'.finished[r] = w
          BY <1>6, <2>2, <3>1, <5>1
        <5> QED  BY <5>2
      <4> QED  BY <1>2, <1>3, <4>1, <4>2, <4>3
    <3>2. CASE q # F + 1
      <4>1. q \in 1 .. F
        BY <1>6, <3>2
      <4>2. dfs'.finished[q] = dfs.finished[q]
        BY <1>6, <4>1
      <4>3. \/ <<dfs.finished[q], w>> \in dfs.back
            \/ \E r \in 1 .. F : r < q /\ dfs.finished[r] = w
        BY <2>1, <2>4, <4>1, <4>2
      <4> QED  BY <1>6, <2>2, <4>2, <4>3
    <3> QED  BY <3>1, <3>2
  <2>5. DOMAIN dfs'.finished = 1 .. (F + 1) /\ dfs'.back = dfs.back
    BY <1>4, <1>6
  <2> QED  BY <2>3, <2>4, <2>5 DEF FinishedInOrder
<1> QED  BY <1>4, <1>8, <1>9, <1>10, <1>11 DEF SearchOK

-----------------------------------------------------------------------------
(* No cycles.                                                              *)

\* A network that is grown: each edge leads to an older vertex.
LEMMA GrownIsAcyclic ==
    ASSUME PlanInv, GraphInv, plan.generator = 1
    PROVE  Acyclic(Edges)
<1> SUFFICES ASSUME NEW S \in (SUBSET DOMAIN vertex) \ {{}}
             PROVE  \E u \in S : Targets(u, Edges) \cap S = {}
  BY DEF Acyclic
<1>1. S \subseteq Nat /\ S # {}
  BY GraphFacts
<1>2. PICK u \in S : \A w \in S : u <= w
  BY <1>1, Least
<1>3. \A w \in S : <<u, w>> \notin Edges
  <2> SUFFICES ASSUME NEW w \in S, <<u, w>> \in Edges PROVE FALSE
    OBVIOUS
  <2>1. <<u, w>>[2] < <<u, w>>[1]
    BY GraphFacts DEF Joins
  <2> QED  BY <1>1, <1>2, <2>1
<1>4. Targets(u, Edges) \cap S = {}
  BY <1>3, TargetFacts
<1> QED  BY <1>4

\* A random graph without the edges that lead back: a vertex is finished after those it leads to.
LEMMA VisitedIsAcyclic ==
    ASSUME PlanInv, GraphInv, SearchOK(dfs), Visited
    PROVE  Acyclic(Edges \ dfs.back)
<1>1. \A u \in DOMAIN vertex : dfs.color[u] = "black"
  <2> SUFFICES ASSUME NEW u \in DOMAIN vertex, dfs.color[u] # "black" PROVE FALSE
    OBVIOUS
  <2>1. dfs.color[u] \in {"white", "gray", "black"}
    BY DEF SearchOK, SearchShape
  <2>2. dfs.color[u] # "white"
    BY DEF Visited, White
  <2>3. DOMAIN dfs.stack = {}
    BY DEF Visited
  <2> QED  BY <2>1, <2>2, <2>3 DEF SearchOK, GrayOnStack
<1> SUFFICES ASSUME NEW S \in (SUBSET DOMAIN vertex) \ {{}}
             PROVE  \E u \in S : Targets(u, Edges \ dfs.back) \cap S = {}
  BY DEF Acyclic
<1> DEFINE Q == {q \in DOMAIN dfs.finished : dfs.finished[q] \in S}
<1>2. Q \subseteq Nat
  <2>1. dfs.finished \in Seq(DOMAIN vertex)
    BY DEF SearchOK, SearchShape
  <2> QED  BY <2>1
<1>3. Q # {}
  <2>1. PICK u \in S : u \in DOMAIN vertex
    OBVIOUS
  <2> QED  BY <1>1, <2>1 DEF SearchOK, FinishedInOrder
<1>4. PICK q \in Q : \A r \in Q : q <= r
  <2> HIDE DEF Q
  <2> QED  BY <1>2, <1>3, Least
<1> DEFINE u == dfs.finished[q]
<1>5. u \in S /\ q \in DOMAIN dfs.finished /\ q \in Nat
  BY <1>2, <1>4
<1>6. ASSUME NEW w \in Targets(u, Edges \ dfs.back), w \in S
      PROVE  FALSE
  <2>1. w \in Targets(u, Edges) /\ <<u, w>> \notin dfs.back
    <3>1. PICK e \in Edges \ dfs.back : e[1] = u /\ e[2] = w
      BY <1>6 DEF Targets
    <3>2. e = <<e[1], e[2]>>
      BY <3>1, GraphFacts DEF Joins
    <3> HIDE DEF u
    <3> QED  BY <3>1, <3>2, TargetFacts
  <2>2. PICK r \in DOMAIN dfs.finished : r < q /\ dfs.finished[r] = w
    BY <1>5, <2>1 DEF SearchOK, FinishedInOrder
  <2>3. r \in Q /\ r \in Nat /\ q \in Nat
    BY <1>2, <1>5, <1>6, <2>2
  <2> HIDE DEF Q
  <2> QED  BY <1>4, <2>2, <2>3
<1> HIDE DEF u
<1> QED  BY <1>5, <1>6

LEMMA AcyclicNext ==
    ASSUME Acyclic(Edges), Edges' = Edges, DOMAIN vertex' = DOMAIN vertex
    PROVE  Acyclic(Edges)'
BY DEF Acyclic

\* The search that is under way, the graphs without cycles, and the file the graph is read from.
CycleInv ==
    /\ Visiting => SearchOK(dfs)
    /\ phase = "sort" => dfs.back = {}
    /\ (plan.generator = 2 /\ phase # "cycles") \/ phase = "read" => Acyclic(Edges)
    /\ phase = "printed" => file.graph = Written

LEMMA InitCycle ==
    ASSUME Init
    PROVE  CycleInv
<1>1. NetworkInv /\ phase \in {"advance", "cycles"}
  BY InitGraph DEF NetworkInv, Init, Seedling, RandomGraph
<1>2. CASE Seedling
  BY <1>2 DEF Seedling, CycleInv, Visiting
<1>3. CASE RandomGraph
  <2>1. /\ phase = "cycles" /\ plan.generator = 2 /\ dfs = NewVisit(plan.size)
        /\ DOMAIN vertex = 0 .. plan.size - 1
    BY <1>3 DEF RandomGraph, Init
  <2> QED  BY <2>1, NewVisitOK DEF CycleInv
<1> QED  BY <1>2, <1>3 DEF Init

LEMMA VisitCycle ==
    ASSUME NetworkInv, CycleInv, VisitRoot \/ ExamineEdge \/ FinishVertex
    PROVE  CycleInv'
<1>1. /\ Visiting /\ plan' = plan /\ phase' = phase /\ vertex' = vertex /\ edge' = edge
      /\ phase \in {"cycles", "sort"}
  BY DEF VisitRoot, ExamineEdge, FinishVertex, Visit, Visiting
<1>2. PlanInv /\ GraphInv /\ SearchOK(dfs) /\ plan.generator = 2
  <2>1. PlanInv /\ GraphInv /\ SearchOK(dfs)
    BY <1>1 DEF NetworkInv, CycleInv
  <2> QED  BY <1>1, <2>1, PlanFacts DEF PlanInv
<1>3. SearchOK(dfs')
  BY <1>2, RootOK, ExamineOK, FinishOK
<1>4. SearchOK(dfs)'
  BY <1>1, <1>3 DEF SearchOK, SearchShape, Path, GrayOnStack, FinishedInOrder, Frames, Edges, Targets
<1>5. phase = "sort" => dfs'.back = {}
  <2> SUFFICES ASSUME phase = "sort" PROVE dfs'.back = {}
    OBVIOUS
  <2>1. Acyclic(Edges) /\ dfs.back = {}
    BY <1>2 DEF CycleInv
  <2>2. CASE ExamineEdge
    <3>1. dfs.stack # <<>> /\ TopOfStack.out # <<>>
      BY <2>2 DEF ExamineEdge
    <3> QED  BY <1>2, <2>1, <2>2, <3>1, NoEdgeBack, ExamineOK
  <2> QED  BY <1>2, <2>1, <2>2, RootOK, FinishOK
<1>6. Edges' = Edges
  BY <1>1 DEF Edges
<1> QED  BY <1>1, <1>4, <1>5, <1>6, AcyclicNext DEF CycleInv

LEMMA RemoveCyclesCycle ==
    ASSUME NetworkInv, CycleInv, RemoveCycles
    PROVE  CycleInv'
<1>1. /\ phase = "cycles" /\ Visited /\ DOMAIN vertex' = DOMAIN vertex /\ phase' = "sort"
      /\ dfs' = NewVisit(Size) /\ edge' = Indexed([e \in Edges \ dfs.back |-> edge[e]])
  BY DEF RemoveCycles
<1>2. PlanInv /\ GraphInv /\ SearchOK(dfs)
  BY <1>1 DEF NetworkInv, CycleInv, Visiting
<1>3. Edges' = Edges \ dfs.back
  BY <1>1 DEF Edges, Indexed
<1>4. Acyclic(Edges)'
  BY <1>1, <1>2, <1>3, VisitedIsAcyclic DEF Acyclic
<1>5. SearchOK(dfs)' /\ dfs'.back = {}
  <2>1. /\ DOMAIN dfs' = {"color", "stack", "finished", "back"}
        /\ dfs'.color = [u \in 0 .. Size - 1 |-> "white"] /\ dfs'.stack = <<>>
        /\ dfs'.finished = <<>> /\ dfs'.back = {}
    BY <1>1 DEF NewVisit
  <2>2. DOMAIN vertex' = 0 .. Size - 1
    BY <1>1, <1>2, GraphFacts
  <2>3. SearchShape(dfs)'
    BY <2>1, <2>2 DEF SearchShape
  <2>4. DOMAIN dfs'.stack = {} /\ DOMAIN dfs'.finished = {}
    BY <2>1
  <2>5. \A u \in DOMAIN vertex' : dfs'.color[u] = "white"
    BY <2>1, <2>2
  <2>6. (Path(dfs) /\ GrayOnStack(dfs) /\ FinishedInOrder(dfs))'
    BY <2>4, <2>5 DEF Path, GrayOnStack, FinishedInOrder
  <2> QED  BY <2>1, <2>3, <2>6 DEF SearchOK
<1> QED  BY <1>1, <1>4, <1>5 DEF CycleInv

LEMMA CycleStep ==
    ASSUME NetworkInv, CycleInv, [Next]_vars
    PROVE  CycleInv'
<1>1. CASE Sorted
  <2>1. /\ vertex' = vertex /\ phase' = "balance" /\ phase = "sort" /\ plan' = plan
        /\ edge' = Weighted(edge, DOMAIN vertex)
    BY <1>1 DEF Sorted
  <2>2. Edges' = Edges /\ plan.generator = 2
    BY <2>1, PlanFacts DEF Edges, Weighted, NetworkInv, PlanInv
  <2> QED  BY <2>1, <2>2, AcyclicNext DEF CycleInv, Visiting
<1>2. CASE Advance \/ Grown
  <2>1. plan' = plan /\ phase = "advance" /\ phase' \in {"balance", "built"}
    BY <1>2 DEF Advance, Grown
  <2>2. plan'.generator # 2
    BY <2>1 DEF NetworkInv, PlanInv
  <2> QED  BY <2>1, <2>2 DEF CycleInv, Visiting
<1>3. CASE BalanceNext \/ AllBalanced \/ Spread \/ Balanced \/ EstablishFeature
  <2>1. /\ plan' = plan /\ edge' = edge /\ phase \in {"balance", "built"}
        /\ phase' \in {"balance", "built", "advance"}
    BY <1>3 DEF BalanceNext, AllBalanced, Spread, Balanced, EstablishFeature
  <2>2. DOMAIN vertex' = DOMAIN vertex
    BY <1>3, VerticesAnew DEF BalanceNext, AllBalanced, Spread
  <2>3. Edges' = Edges
    BY <2>1 DEF Edges
  <2> QED  BY <2>1, <2>2, <2>3, AcyclicNext DEF CycleInv, Visiting
<1>4. CASE PrintGraph
  <2>1. /\ plan' = plan /\ edge' = edge /\ vertex' = vertex /\ generator' = generator
        /\ phase = "built" /\ phase' = "printed" /\ file' = [format |-> plan.format, graph |-> Written]
    BY <1>4 DEF PrintGraph
  <2>2. Edges' = Edges /\ Written' = Written /\ file'.graph = Written
    BY <2>1 DEF Edges, Written
  <2> QED  BY <2>1, <2>2, AcyclicNext DEF CycleInv, Visiting
<1>5. CASE ReadGraph
  <2>1. phase = "printed" /\ phase' = "read"
    BY <1>5 DEF ReadGraph
  <2>2. Acyclic(Edges)'
    <3>1. CASE plan.format = "GRAPHML"
      <4>1. vertex' = vertex /\ edge' = edge
        BY <1>5, <2>1, <3>1 DEF ReadGraph, CycleInv, Written
      <4>2. PlanInv /\ GraphInv
        BY <2>1 DEF NetworkInv
      <4>3. Acyclic(Edges)
        BY <2>1, <4>2, PlanFacts, GrownIsAcyclic DEF CycleInv
      <4> QED  BY <4>1, <4>3, AcyclicNext DEF Edges
    <3>2. CASE plan.format # "GRAPHML"
      <4>1. vertex' = <<>>
        BY <1>5, <3>2 DEF ReadGraph
      <4>2. DOMAIN vertex' = {}
        BY <4>1
      <4> QED  BY <4>2 DEF Acyclic
    <3> QED  BY <3>1, <3>2
  <2> QED  BY <2>1, <2>2 DEF CycleInv, Visiting
<1>6. CASE UNCHANGED vars
  <2>1. /\ plan' = plan /\ edge' = edge /\ vertex' = vertex /\ generator' = generator
        /\ phase' = phase /\ dfs' = dfs /\ file' = file
    BY <1>6 DEF vars
  <2>2. Edges' = Edges /\ Written' = Written
    BY <2>1 DEF Edges, Written
  <2>3. Visiting => SearchOK(dfs)'
    <3> SUFFICES ASSUME SearchOK(dfs) PROVE SearchOK(dfs)'
      BY DEF CycleInv
    <3>1. dfs' = dfs /\ vertex' = vertex /\ edge' = edge
      BY <2>1
    <3>2. SearchOK(dfs')
      BY <3>1
    <3> QED
      BY <3>1, <3>2 DEF SearchOK, SearchShape, Path, GrayOnStack, FinishedInOrder, Frames, Edges, Targets
  <2> QED  BY <2>1, <2>2, <2>3, AcyclicNext DEF CycleInv, Visiting
<1>7. CASE Ended
  BY <1>6, <1>7 DEF Ended
<1> QED  BY <1>1, <1>2, <1>3, <1>4, <1>5, <1>6, <1>7, VisitCycle, RemoveCyclesCycle DEF Next

\* What cycle_detector marks and remove_edge takes away leaves no cycle, whichever graph was drawn and
\* wherever its vertices lie in memory, so that topological_sort does not throw.
THEOREM CyclesRemovedHolds == Spec => []CyclesRemoved
<1>1. Init => CycleInv
  BY InitCycle
<1>2. NetworkInv /\ CycleInv /\ [Next]_vars => CycleInv'
  BY CycleStep
<1>3. NetworkInv /\ CycleInv => CyclesRemoved
  <2> SUFFICES ASSUME NetworkInv, CycleInv, phase # "cycles"
               PROVE  Acyclic(Edges) /\ ~ NotADag
    BY DEF CyclesRemoved
  <2>1. phase # "read" /\ plan.generator # 2 => Acyclic(Edges)
    BY PlanFacts, GrownIsAcyclic DEF NetworkInv
  <2> QED  BY <2>1 DEF CycleInv, NotADag
<1> QED  BY <1>1, <1>2, <1>3, NetworkInvHolds, PTL DEF Spec

-----------------------------------------------------------------------------
(* The choices.                                                            *)

LEMMA OutDegreeFacts ==
    ASSUME PlanInv, GraphInv, NEW v
    PROVE  OutDegree(v) = Cardinality(Targets(v, Edges)) /\ IsFiniteSet(Targets(v, Edges))
<1> DEFINE T == Targets(v, Edges)
           S == OutEdges(v)
           f == [w \in T |-> <<v, w>>]
<1>1. IsFiniteSet(T)
  BY GraphFacts, TargetFacts, FS_Subset
<1>2. \A e \in S : e = <<v, e[2]>> /\ e[2] \in T
  <2> SUFFICES ASSUME NEW e \in S PROVE e = <<v, e[2]>> /\ e[2] \in T
    OBVIOUS
  <2>1. e \in Edges /\ e[1] = v /\ e = <<e[1], e[2]>>
    BY GraphFacts DEF OutEdges, Joins
  <2> QED  BY <2>1, TargetFacts
<1>3. \A w \in T : <<v, w>> \in S
  BY TargetFacts DEF OutEdges
<1> HIDE DEF T, S
<1>4. f \in Bijection(T, S)
  <2>1. f \in [T -> S] /\ \A u, w \in T : f[u] = f[w] => u = w
    BY <1>3
  <2>2. \A e \in S : \E w \in T : f[w] = e
    BY <1>2
  <2> HIDE DEF f
  <2> QED  BY <2>1, <2>2 DEF Bijection, Injection, Surjection, IsInjective
<1>5. ExistsBijection(T, S)
  BY <1>4 DEF ExistsBijection
<1>6. Cardinality(S) = Cardinality(T)
  BY <1>1, <1>5, FS_Bijection
<1> QED  BY <1>1, <1>6 DEF OutDegree, T, S

\* With one target there is no intersection; with two it is what both have.
LEMMA IntersectionFacts ==
    ASSUME PlanInv, GraphInv, NEW v
    PROVE  /\ OutDegree(v) = 1 => Intersection(v) = {}
           /\ OutDegree(v) = 2 => \A f \in Intersection(v) : \A w \in Targets(v, Edges) :
                                     f \in vertex[w].v_features
<1> DEFINE out == SortedTargets(v, Edges)
<1>1. /\ out \in Seq(Targets(v, Edges)) /\ ToSet(out) = Targets(v, Edges)
      /\ Len(out) = OutDegree(v)
  BY TargetFacts, OutDegreeFacts
<1>2. OutDegree(v) = 1 => Intersection(v) = {}
  BY <1>1 DEF Intersection
<1>3. ASSUME OutDegree(v) = 2, NEW f \in Intersection(v), NEW w \in Targets(v, Edges)
      PROVE  f \in vertex[w].v_features
  <2>1. Len(out) = 2 /\ Len(out) # 1
    BY <1>1, <1>3
  <2>2. /\ f \in vertex[out[1]].v_features
        /\ \A i \in 2 .. 2 : f \in UNION {vertex[out[j]].v_features : j \in 2 .. i}
    BY <1>3, <2>1 DEF Intersection
  <2>3. f \in UNION {vertex[out[j]].v_features : j \in 2 .. 2}
    BY <2>2
  <2>4. f \in vertex[out[2]].v_features
    BY <2>3
  <2>5. w = out[1] \/ w = out[2]
    <3>1. PICK i \in DOMAIN out : out[i] = w
      BY <1>1 DEF ToSet
    <3>2. i \in 1 .. 2
      BY <1>1, <2>1, <3>1
    <3>3. i = 1 \/ i = 2
      BY <3>2
    <3> QED  BY <3>1, <3>3
  <2> QED  BY <2>2, <2>4, <2>5
<1> QED  BY <1>2, <1>3

\* The vertices before the next one have their choice; none has before the graph is built.
ChoiceInv ==
    /\ "next" \in DOMAIN feature /\ feature.next \in Nat
    /\ phase \notin {"built", "printed", "read"} => feature.next = 0
    /\ DOMAIN vertex \subseteq Nat
    /\ ChoiceIsCommon

LEMMA FeatureChoice ==
    ASSUME NetworkInv, ChoiceInv, EstablishFeature
    PROVE  ChoiceInv'
<1> DEFINE v == feature.next
           new == feature.num_features + 1
<1>1. /\ phase = "built" /\ phase' = phase /\ edge' = edge /\ v < Size /\ v \in Nat
      /\ PlanInv /\ GraphInv /\ DOMAIN vertex \subseteq Nat
  BY DEF EstablishFeature, NetworkInv, ChoiceInv
<1>2. DOMAIN vertex' = DOMAIN vertex /\ feature'.next = v + 1 /\ "next" \in DOMAIN feature'
  <2>1. DOMAIN vertex' = DOMAIN vertex
    BY VerticesAnew
  <2> HIDE DEF v
  <2>2. feature'.next = v + 1 /\ "next" \in DOMAIN feature'
    <3>1. \/ feature' = [feature EXCEPT !.next = @ + 1]
          \/ feature' = [next |-> v + 1, num_features |-> feature.num_features + 1]
      BY DEF EstablishFeature, v
    <3> QED  BY <3>1 DEF ChoiceInv, v
  <2> QED  BY <2>1, <2>2
<1>3. v \in DOMAIN vertex
  <2>1. Size \in Nat /\ DOMAIN vertex = 0 .. Size - 1
    BY <1>1, GraphFacts
  <2> HIDE DEF v
  <2> QED  BY <1>1, <2>1
<1>4. \A u \in DOMAIN vertex : {"v_choice", "v_features"} \subseteq DOMAIN vertex[u]
  BY <1>1 DEF GraphInv, ShapedVertices
<1>5. \A w : w \in Targets(v, Edges) => w \in DOMAIN vertex /\ w # v
  BY <1>1, TargetFacts
<1>6. \A u \in DOMAIN vertex :
         /\ u # v => vertex'[u].v_choice = vertex[u].v_choice
         /\ vertex[u].v_features \subseteq vertex'[u].v_features
  <2> HIDE DEF v
  <2>1. CASE OutDegree(v) = 0
    BY <2>1 DEF EstablishFeature, v
  <2>2. CASE OutDegree(v) # 0 /\ Intersection(v) # {}
    <3>1. PICK f : vertex' = [vertex EXCEPT ![v].v_choice = f]
      BY <2>2 DEF EstablishFeature, v
    <3> QED  BY <1>3, <1>4, <3>1
  <2>3. CASE OutDegree(v) # 0 /\ Intersection(v) = {}
    <3>1. vertex' = [u \in DOMAIN vertex |->
                        IF u = v THEN [vertex[u] EXCEPT !.v_choice = new]
                        ELSE IF <<v, u>> \in Edges
                             THEN [vertex[u] EXCEPT !.v_features = @ \cup {new}]
                             ELSE vertex[u]]
      BY <2>3 DEF EstablishFeature, v
    <3> HIDE DEF new
    <3> QED  BY <1>4, <3>1
  <2> QED  BY <2>1, <2>2, <2>3
<1>7. OutDegree(v) \in 1 .. 2 => \A w \in Targets(v, Edges) : vertex'[v].v_choice \in vertex'[w].v_features
  <2> SUFFICES ASSUME OutDegree(v) \in 1 .. 2, NEW w \in Targets(v, Edges)
               PROVE  vertex'[v].v_choice \in vertex'[w].v_features
    OBVIOUS
  <2>1. OutDegree(v) # 0 /\ w \in DOMAIN vertex /\ w # v /\ <<v, w>> \in Edges
    BY <1>1, <1>5, TargetFacts
  <2> HIDE DEF v
  <2>2. CASE Intersection(v) # {}
    <3>1. PICK f \in Intersection(v) : vertex' = [vertex EXCEPT ![v].v_choice = f]
      BY <2>1, <2>2 DEF EstablishFeature, v
    <3>2. OutDegree(v) = 2
      BY <1>1, <2>2, IntersectionFacts
    <3>3. f \in vertex[w].v_features
      BY <1>1, <3>2, IntersectionFacts
    <3>4. vertex'[v].v_choice = f
      BY <1>3, <1>4, <3>1
    <3> QED  BY <1>6, <2>1, <3>3, <3>4
  <2>3. CASE Intersection(v) = {}
    <3>1. vertex' = [u \in DOMAIN vertex |->
                        IF u = v THEN [vertex[u] EXCEPT !.v_choice = new]
                        ELSE IF <<v, u>> \in Edges
                             THEN [vertex[u] EXCEPT !.v_features = @ \cup {new}]
                             ELSE vertex[u]]
      BY <2>1, <2>3 DEF EstablishFeature, v
    <3> HIDE DEF new
    <3>2. vertex'[v].v_choice = new
      BY <1>3, <1>4, <3>1
    <3>3. vertex'[w] = [vertex[w] EXCEPT !.v_features = @ \cup {new}]
      BY <2>1, <3>1
    <3>4. new \in vertex'[w].v_features
      BY <1>4, <2>1, <3>3
    <3> QED  BY <3>2, <3>4
  <2> QED  BY <2>2, <2>3
<1>8. ASSUME NEW u \in DOMAIN vertex, u < v + 1, OutDegree(u) \in 1 .. 2,
             NEW w \in Targets(u, Edges)
      PROVE  vertex'[u].v_choice \in vertex'[w].v_features
  <2> HIDE DEF v
  <2>1. CASE u = v
    BY <1>7, <1>8, <2>1
  <2>2. CASE u # v
    <3>1. u < v
      BY <1>1, <1>8, <2>2
    <3>2. vertex[u].v_choice \in vertex[w].v_features
      BY <1>8, <3>1 DEF ChoiceInv, ChoiceIsCommon, v
    <3>3. w \in DOMAIN vertex
      BY <1>1, <1>8, TargetFacts
    <3> QED  BY <1>6, <2>2, <3>2, <3>3
  <2> QED  BY <2>1, <2>2
<1> HIDE DEF v
<1>9. ChoiceIsCommon'
  BY <1>1, <1>2, <1>8 DEF ChoiceIsCommon, OutDegree, OutEdges, Edges
<1> QED  BY <1>1, <1>2, <1>9 DEF ChoiceInv

LEMMA ChoiceStep ==
    ASSUME NetworkInv, CycleInv, ChoiceInv, [Next]_vars
    PROVE  ChoiceInv'
<1>1. ASSUME phase \notin {"built", "printed", "read"}, feature' = feature, DOMAIN vertex' \subseteq Nat
      PROVE  ChoiceInv'
  <2>1. feature'.next = 0 /\ feature'.next \in Nat /\ "next" \in DOMAIN feature'
    BY <1>1 DEF ChoiceInv
  <2>2. \A v \in DOMAIN vertex' : ~ (v < feature'.next)
    BY <1>1, <2>1
  <2> QED  BY <1>1, <2>1, <2>2 DEF ChoiceInv, ChoiceIsCommon
<1>2. ASSUME phase \in {"built", "printed", "read"}, phase' \in {"built", "printed", "read"},
             feature' = feature, vertex' = vertex, edge' = edge
      PROVE  ChoiceInv'
  BY <1>2 DEF ChoiceInv, ChoiceIsCommon, OutDegree, OutEdges, Edges
<1>3. DOMAIN vertex \subseteq Nat
  BY DEF ChoiceInv
<1>4. CASE Advance
  <2>1. /\ phase = "advance" /\ feature' = feature /\ DOMAIN vertex' = 0 .. Size
    BY <1>4 DEF Advance
  <2>2. DOMAIN vertex' \subseteq Nat
    BY <2>1
  <2> QED  BY <1>1, <2>1, <2>2
<1>5. CASE Balanced \/ RemoveCycles
  <2>1. phase \in {"balance", "cycles"} /\ feature' = feature
    BY <1>5 DEF Balanced, RemoveCycles
  <2>2. DOMAIN vertex' = DOMAIN vertex
    BY <1>5 DEF Balanced, RemoveCycles, Strengthened
  <2> QED  BY <1>1, <1>3, <2>1, <2>2
<1>6. CASE Grown \/ VisitRoot \/ ExamineEdge \/ FinishVertex \/ Sorted \/ BalanceNext
           \/ AllBalanced \/ Spread
  <2>1. /\ phase \in {"advance", "cycles", "sort", "balance"} /\ feature' = feature
        /\ vertex' = vertex
    BY <1>6 DEF Grown, VisitRoot, ExamineEdge, FinishVertex, Visit, Visiting, Sorted, BalanceNext,
                AllBalanced, Spread
  <2> QED  BY <1>1, <1>3, <2>1
<1>7. CASE PrintGraph
  BY <1>2, <1>7 DEF PrintGraph
<1>8. CASE ReadGraph
  <2>1. phase = "printed" /\ phase' = "read" /\ feature' = feature
    BY <1>8 DEF ReadGraph
  <2>2. CASE plan.format = "GRAPHML"
    <3>1. vertex' = vertex /\ edge' = edge
      BY <1>8, <2>1, <2>2 DEF ReadGraph, CycleInv, Written
    <3> QED  BY <1>2, <2>1, <3>1
  <2>3. CASE plan.format # "GRAPHML"
    <3>1. vertex' = <<>>
      BY <1>8, <2>3 DEF ReadGraph
    <3>2. DOMAIN vertex' = {}
      BY <3>1
    <3> QED  BY <2>1, <3>2 DEF ChoiceInv, ChoiceIsCommon
  <2> QED  BY <2>2, <2>3
<1>9. CASE UNCHANGED vars
  BY <1>9 DEF vars, ChoiceInv, ChoiceIsCommon, OutDegree, OutEdges, Edges
<1>10. CASE Ended
  BY <1>9, <1>10 DEF Ended
<1> QED  BY <1>4, <1>5, <1>6, <1>7, <1>8, <1>9, <1>10, FeatureChoice DEF Next

\* A vertex with one or two targets chooses a feature that they all have (establishFeatures), although
\* the set into which the features of a target are copied is never emptied.
THEOREM ChoiceIsCommonHolds == Spec => []ChoiceIsCommon
<1>1. Init => CycleInv /\ ChoiceInv
  <2> SUFFICES ASSUME Init PROVE CycleInv /\ ChoiceInv
    OBVIOUS
  <2>1. PlanInv /\ GraphInv /\ feature.next = 0 /\ "next" \in DOMAIN feature
    BY InitGraph DEF Init
  <2>2. DOMAIN vertex \subseteq Nat
    BY <2>1, GraphFacts
  <2>3. \A v \in DOMAIN vertex : ~ (v < feature.next)
    BY <2>1, <2>2
  <2> QED  BY <2>1, <2>2, <2>3, InitCycle DEF ChoiceInv, ChoiceIsCommon
<1>2. NetworkInv /\ CycleInv /\ ChoiceInv /\ [Next]_vars => CycleInv' /\ ChoiceInv'
  BY CycleStep, ChoiceStep
<1>3. ChoiceInv => ChoiceIsCommon
  BY DEF ChoiceInv
<1> QED  BY <1>1, <1>2, <1>3, NetworkInvHolds, PTL DEF Spec

===============================================================================
