-------------------------------- MODULE HNSW --------------------------------
(***************************************************************************)
(* The HNSW index of one collection: nodes with an ordered list of links   *)
(* at each of their layers, an entry point and a top layer.  h.mu makes    *)
(* every operation one step.  Insertion and search run the algorithm of    *)
(* the code, step by step, on vectors that are points with a distance;     *)
(* only the random layer of a new node and the order in which a Go map is  *)
(* walked are left open.  A deletion marks a node; marked nodes keep their *)
(* links and are never walked through.                                     *)
(*                                                                         *)
(* HNSWGraph is what it promises, ImplementsGraph that it keeps it.        *)
(***************************************************************************)
EXTENDS HNSWParams, Sequences, SequencesExt

CONSTANTS
    Point,               \* the vectors
    Distance(_, _),      \* distCalc.Distance
    EfConstruction,      \* params.EfConstruction
    EfSearch             \* params.EfSearch

ASSUME ParamsAssumption == EfConstruction \in Nat \ {0} /\ EfSearch \in Nat \ {0}

\* Distances compare as numbers do; a NaN, which the code does not reject, would not.
ASSUME DistanceAssumption == \A p, q \in Point : Distance(p, q) \in Int

VARIABLES
    nodes,       \* HNSW.nodes: identifier -> vector, deleted, connections
    entrypoint,  \* HNSW.entrypoint, 0 when there is none
    maxLayer,    \* HNSW.maxLayer, -1 when there is none
    size,        \* HNSW.size: the nodes that are not deleted
    peak         \* history: the most live vectors since the index was last empty

vars == <<nodes, entrypoint, maxLayer, size, peak>>

Init ==
    /\ nodes = << >>
    /\ entrypoint = NoNode
    /\ maxLayer = -1
    /\ size = 0
    /\ peak = 0

-----------------------------------------------------------------------------
(* Nodes and their links.                                                  *)

\* A node whose highest layer is "layer".
Node(layer) ==
    [vector : Point, deleted : BOOLEAN, connections : [0 .. layer -> Seq(Id)]]

Live(ns) == {i \in DOMAIN ns : ~ns[i].deleted}

NewNode(v, layer) ==
    [vector |-> v, deleted |-> FALSE, connections |-> [l \in 0 .. layer |-> <<>>]]

WithNode(ns, id, node) ==
    [i \in DOMAIN ns \cup {id} |-> IF i = id THEN node ELSE ns[i]]

GetConnections(node, l) ==
    IF l \in DOMAIN node.connections THEN node.connections[l] ELSE <<>>

SetConnections(ns, id, l, connections) == [ns EXCEPT ![id].connections[l] = connections]

AddConnection(ns, id, l, other) ==
    IF l \notin DOMAIN ns[id].connections \/ Contains(ns[id].connections[l], other) THEN ns
    ELSE SetConnections(ns, id, l, Append(ns[id].connections[l], other))

\* Mutant: the bound of layer 0 everywhere.
WideConnections(l) == 2 * M

MaxConnections(l) == IF l = 0 THEN 2 * M ELSE M

\* The highest layer at which a node has links; 0 when it has none.
NodeLayer(ns, id) ==
    LET linked == {l \in DOMAIN ns[id].connections : ns[id].connections[l] # <<>>}
    IN  CHOOSE l \in linked \cup {0} : \A k \in linked : k <= l

-----------------------------------------------------------------------------
(* Lists of candidates, nearest first; equals keep their order, as an      *)
(* insertion sort leaves them.                                             *)

Item(ns, q, id) == [id |-> id, distance |-> Distance(q, ns[id].vector)]

\* The place in a sorted list after those that are as near.
Place(list, distance) ==
    CHOOSE p \in 1 .. Len(list) + 1 :
        /\ \A k \in 1 .. p - 1 : list[k].distance <= distance
        /\ \A k \in p .. Len(list) : distance < list[k].distance

InsertSorted(list, item) == InsertAt(list, Place(list, item.distance), item)

\* Those of the identifiers that are wanted, as candidates, sorted.
SortCandidates(ns, q, ids, wanted) ==
    LET sorted[k \in 0 .. Len(ids)] ==
            IF k = 0 THEN <<>>
            ELSE IF ids[k] \in wanted THEN InsertSorted(sorted[k - 1], Item(ns, q, ids[k]))
            ELSE sorted[k - 1]
    IN  sorted[Len(ids)]

Ids(list) == [k \in DOMAIN list |-> list[k].id]
First(list, n) == SubSeq(list, 1, IF n < Len(list) THEN n ELSE Len(list))

-----------------------------------------------------------------------------
(* searchLayer: a best-first walk from the entry points.  Its state is the *)
(* list of candidates, the list of those still to be explored (dynamic)    *)
(* and the set of visited nodes.                                           *)

\* Mutants: a full list of candidates takes no nearer one; a deleted neighbour is
\* taken like any other.
VisitUntilFull(ns, q, n, s, id) ==
    IF id \in s.visited \/ ns[id].deleted \/ Len(s.candidates) >= n THEN s
    ELSE LET item == Item(ns, q, id) IN
         [s EXCEPT !.visited = @ \cup {id},
                   !.candidates = InsertSorted(@, item), !.dynamic = InsertSorted(@, item)]
VisitDeleted(ns, q, n, s, id) ==
    IF id \in s.visited THEN s
    ELSE LET item == Item(ns, q, id) IN
         [s EXCEPT !.visited = @ \cup {id},
                   !.candidates = InsertSorted(@, item), !.dynamic = InsertSorted(@, item)]

Visit(ns, q, n, s, id) ==
    IF id \in s.visited \/ ns[id].deleted THEN s
    ELSE LET item == Item(ns, q, id)
             seen == [s EXCEPT !.visited = @ \cup {id}]
             kept == IF Len(s.candidates) < n THEN s.candidates ELSE RemoveAt(s.candidates, n)
         IN  IF Len(s.candidates) < n \/ item.distance < s.candidates[n].distance
             THEN [seen EXCEPT !.candidates = InsertSorted(kept, item),
                               !.dynamic = InsertSorted(@, item)]
             ELSE seen

VisitAll(ns, q, n, s, ids) ==
    LET after[k \in 0 .. Len(ids)] ==
            IF k = 0 THEN s ELSE Visit(ns, q, n, after[k - 1], ids[k])
    IN  after[Len(ids)]

Finished(n, s) ==
    \/ s.dynamic = <<>>
    \/ Len(s.candidates) >= n /\ Head(s.dynamic).distance > s.candidates[n].distance

Explore(ns, q, n, l, s) ==
    IF Finished(n, s) THEN s
    ELSE VisitAll(ns, q, n, [s EXCEPT !.dynamic = Tail(@)],
                  GetConnections(ns[Head(s.dynamic).id], l))

\* No node is explored twice: the walk has finished after as many steps as there are nodes.
Walk(ns, q, n, l, s) ==
    LET after[k \in 0 .. Cardinality(DOMAIN ns)] ==
            IF k = 0 THEN s ELSE Explore(ns, q, n, l, after[k - 1])
    IN  after[Cardinality(DOMAIN ns)]

SearchLayer(ns, q, entryPoints, n, l) ==
    LET start == SortCandidates(ns, q, entryPoints, Live(ns))
        end == Walk(ns, q, n, l, [candidates |-> start, dynamic |-> start,
                                  visited |-> ToSet(entryPoints) \cap Live(ns)])
    IN  Ids(First(end.candidates, n))

\* The greedy descent from layer "from" to the one above "to".
Descend(ns, q, entry, from, to) ==
    LET points[k \in 0 .. from - to] ==
            IF k = 0 THEN <<entry>> ELSE SearchLayer(ns, q, points[k - 1], 1, from + 1 - k)
    IN  points[from - to]

-----------------------------------------------------------------------------
(* Insert, Delete, Search, Get.                                            *)

SelectNeighbors(ns, q, candidates, n) ==
    IF Len(candidates) <= n THEN candidates
    ELSE Ids(First(SortCandidates(ns, q, candidates, DOMAIN ns), n))

\* The links that pruneConnections leaves a node at a layer.
Pruned(ns, id, l) ==
    Ids(First(SortCandidates(ns, ns[id].vector, GetConnections(ns[id], l), Live(ns)),
              MaxConnections(l)))

\* Mutants: pruning only at layer 0; pruning layer 0 to the bound of the others.
PruneBottomOnly(ns, id, l) ==
    IF l > 0 \/ Len(GetConnections(ns[id], l)) <= MaxConnections(l) THEN ns
    ELSE SetConnections(ns, id, l, Pruned(ns, id, l))
PruneToUpper(ns, id, l) ==
    IF Len(GetConnections(ns[id], l)) <= M THEN ns
    ELSE SetConnections(ns, id, l, First(Pruned(ns, id, l), M))

PruneConnections(ns, id, l) ==
    IF Len(GetConnections(ns[id], l)) <= MaxConnections(l) THEN ns
    ELSE SetConnections(ns, id, l, Pruned(ns, id, l))

\* The new node and one neighbour link to each other.
Link(ns, id, l, neighbor) ==
    PruneConnections(AddConnection(AddConnection(ns, id, l, neighbor), neighbor, l, id), neighbor, l)

LinkAll(ns, id, l, neighbors) ==
    LET after[k \in 0 .. Len(neighbors)] ==
            IF k = 0 THEN ns ELSE Link(after[k - 1], id, l, neighbors[k])
    IN  after[Len(neighbors)]

\* One layer of an insertion: the nodes, and the entry points for the layer below.
ConnectLayer(id, s, l) ==
    LET q == s.nodes[id].vector
        candidates == SearchLayer(s.nodes, q, s.entryPoints, EfConstruction, l)
        selected == SelectNeighbors(s.nodes, q, candidates, MaxConnections(l))
    IN  [nodes |-> LinkAll(s.nodes, id, l, selected), entryPoints |-> selected]

Larger(a, b) == IF a > b THEN a ELSE b

\* The nodes after the new node has been linked, from its layer downwards.
Connected(ns, id, layer) ==
    LET top == Larger(maxLayer, layer)
        after[k \in 0 .. layer + 1] ==
            IF k = 0
            THEN [nodes |-> ns,
                  entryPoints |-> Descend(ns, ns[id].vector, entrypoint, top, layer)]
            ELSE ConnectLayer(id, after[k - 1], layer + 1 - k)
    IN  after[layer + 1].nodes

Counted(ns) ==
    /\ size' = size + 1
    /\ peak' = Larger(peak, Cardinality(Live(ns)))

InsertFirst(id, v, layer) ==
    /\ entrypoint = NoNode
    /\ nodes' = WithNode(nodes, id, NewNode(v, layer))
    /\ entrypoint' = id
    /\ maxLayer' = Larger(maxLayer, layer)
    /\ Counted(nodes')

InsertNext(id, v, layer) ==
    /\ entrypoint # NoNode
    /\ nodes' = Connected(WithNode(nodes, id, NewNode(v, layer)), id, layer)
    /\ entrypoint' = IF layer > NodeLayer(nodes', entrypoint) THEN id ELSE entrypoint
    /\ maxLayer' = Larger(maxLayer, layer)
    /\ Counted(nodes')

\* selectLayer draws any layer.  The collection hands out the identifiers in turn.
Insert(id, v) ==
    /\ id = Cardinality(DOMAIN nodes) + 1
    /\ \E layer \in Layer : InsertFirst(id, v, layer) \/ InsertNext(id, v, layer)

\* Mutant: any node, deleted or not, may become the entry point.
FindAnyEntrypoint(ns) ==
    \E i \in DOMAIN ns : entrypoint' = i /\ maxLayer' = NodeLayer(ns, i)
\* Mutant: any live node may become the entry point.
FindLowEntrypoint(ns) ==
    IF Live(ns) = {} THEN entrypoint' = NoNode /\ maxLayer' = -1
    ELSE \E i \in Live(ns) : entrypoint' = i /\ maxLayer' = NodeLayer(ns, i)

\* findNewEntrypoint takes the first of the highest live nodes it meets.
FindNewEntrypoint(ns) ==
    IF Live(ns) = {} THEN entrypoint' = NoNode /\ maxLayer' = -1
    ELSE \E i \in Live(ns) :
            /\ \A j \in Live(ns) : NodeLayer(ns, j) <= NodeLayer(ns, i)
            /\ entrypoint' = i
            /\ maxLayer' = NodeLayer(ns, i)

\* Mutants: a deletion takes the node out and leaves the links to it; a deleted
\* node is deleted, and counted, again.
DeleteNode(id) ==
    /\ id \in Live(nodes)
    /\ nodes' = [i \in DOMAIN nodes \ {id} |-> nodes[i]]
    /\ size' = size - 1
    /\ IF entrypoint = id THEN FindNewEntrypoint(nodes') ELSE UNCHANGED <<entrypoint, maxLayer>>
    /\ peak' = IF size' = 0 THEN 0 ELSE peak

DeleteAgain(id) ==
    /\ id \in DOMAIN nodes
    /\ nodes' = [nodes EXCEPT ![id].deleted = TRUE]
    /\ size' = size - 1
    /\ IF entrypoint = id THEN FindNewEntrypoint(nodes') ELSE UNCHANGED <<entrypoint, maxLayer>>
    /\ peak' = IF size' = 0 THEN 0 ELSE peak

Delete(id) ==
    /\ id \in Live(nodes)
    /\ nodes' = [nodes EXCEPT ![id].deleted = TRUE]
    /\ size' = size - 1
    /\ IF entrypoint = id THEN FindNewEntrypoint(nodes') ELSE UNCHANGED <<entrypoint, maxLayer>>
    /\ peak' = IF size' = 0 THEN 0 ELSE peak

\* What Search finds for a query, nearest first; its answer is the first topK.
Found(q) ==
    IF entrypoint = NoNode \/ size = 0 THEN <<>>
    ELSE SearchLayer(nodes, q, Descend(nodes, q, entrypoint, maxLayer, 0), EfSearch, 0)

-----------------------------------------------------------------------------
(* Save and load: ExportGraphState, the RDB's form of the graph, which has *)
(* no entry for a layer without links, and ImportGraphState.               *)

\* A node in the snapshot: the layers at which it has links, and how many it has.
NodeSnapshot(node) ==
    [vector |-> node.vector, deleted |-> node.deleted,
     maxLayer |-> Cardinality(DOMAIN node.connections) - 1,
     layers |-> {<<l, node.connections[l]>> :
                    l \in {k \in DOMAIN node.connections : node.connections[k] # <<>>}}]

\* Mutant: the snapshot leaves out the deleted nodes.
LiveSnapshot ==
    [nodes |-> [i \in Live(nodes) |-> NodeSnapshot(nodes[i])],
     entryPoint |-> entrypoint, maxLayer |-> maxLayer, size |-> size]

ToSnapshot ==
    [nodes |-> [i \in DOMAIN nodes |-> NodeSnapshot(nodes[i])],
     entryPoint |-> entrypoint, maxLayer |-> maxLayer, size |-> size]

FromSnapshot(g) ==
    [i \in DOMAIN g.nodes |->
        [vector |-> g.nodes[i].vector, deleted |-> g.nodes[i].deleted,
         connections |-> [l \in 0 .. g.nodes[i].maxLayer |->
            IF \E p \in g.nodes[i].layers : p[1] = l
            THEN (CHOOSE p \in g.nodes[i].layers : p[1] = l)[2] ELSE <<>>]]]

\* A restart on a snapshot taken just before: the graph is imported, not rebuilt.
Reload ==
    LET g == ToSnapshot IN
    /\ nodes' = FromSnapshot(g)
    /\ entrypoint' = g.entryPoint
    /\ maxLayer' = g.maxLayer
    /\ size' = g.size
    /\ UNCHANGED peak

-----------------------------------------------------------------------------
Next ==
    \/ \E id \in Id, v \in Point : Insert(id, v)
    \/ \E id \in DOMAIN nodes : Delete(id)
    \/ Reload

Spec == Init /\ [][Next]_vars
-----------------------------------------------------------------------------
(* Properties.                                                             *)

\* Every variable has its type.
TypeOK ==
    /\ DOMAIN nodes \subseteq Id
    /\ \A i \in DOMAIN nodes : \E layer \in Layer : nodes[i] \in Node(layer)
    /\ entrypoint \in Id \cup {NoNode}
    /\ maxLayer \in -1 .. MaxLayers - 1
    /\ size \in 0 .. MaxId /\ peak \in size .. MaxId

\* The graph as HNSWGraph sees it.
Graph == INSTANCE HNSWGraph WITH
    present <- DOMAIN nodes,
    dead <- DOMAIN nodes \ Live(nodes),
    height <- [i \in Id |-> IF i \in DOMAIN nodes THEN Cardinality(DOMAIN nodes[i].connections) ELSE 0],
    links <- [i \in Id |-> [l \in Layer |->
        IF i \in DOMAIN nodes THEN ToSet(GetConnections(nodes[i], l)) ELSE {}]],
    entry <- entrypoint,
    top <- maxLayer

\* The algorithm of the code makes, drops and keeps links as HNSWGraph says.
ImplementsGraph == Graph!GSpec

\* The graph is what every walk takes for granted: links lead to other nodes that
\* exist and none is there twice (AddConnection), degrees are bounded, and entry
\* point, size and top layer agree with the live nodes.
GraphSound ==
    /\ TypeOK
    /\ Graph!GraphSound
    /\ \A i \in DOMAIN nodes : \A l \in DOMAIN nodes[i].connections :
          IsInjective(nodes[i].connections[l])

\* Search finds distinct live vectors, nearest first, and at least one when there
\* is any: deletions never leave it without an answer.
ResultsSound ==
    \A q \in Point :
        LET r == Found(q) IN
        /\ IsInjective(r) /\ ToSet(r) \subseteq Live(nodes)
        /\ Live(nodes) # {} => r # <<>>
        /\ \A k \in 2 .. Len(r) :
              Distance(q, nodes[r[k - 1]].vector) <= Distance(q, nodes[r[k]].vector)

\* The walk does not stop early: the best answer is at least as near as every live
\* neighbour it has at layer 0.
NearestIsLocalOptimum ==
    Live(nodes) # {} => \A q \in Point :
        LET best == Found(q)[1] IN
        \A n \in ToSet(GetConnections(nodes[best], 0)) \cap Live(nodes) :
            Distance(q, nodes[best].vector) <= Distance(q, nodes[n].vector)

\* The graph is complete at layer 0 as long as no more vectors have been live at
\* once than a node may have neighbours there, whatever was deleted; deleted
\* neighbours are what pruning drops first.
Small == peak <= 2 * M + 1 /\ peak <= EfConstruction + 1 /\ peak <= EfSearch
\* A search of such an index finds every live vector: its answers are exact.
ExactWhileSmall ==
    Small => \A q \in Point : ToSet(Found(q)) = Live(nodes)

\* A graph that is saved and loaded is the same graph: layers without links and
\* deleted nodes included.
ReloadExact ==
    LET g == ToSnapshot IN
    FromSnapshot(g) = nodes /\ g.size = Cardinality(Live(nodes))
=============================================================================
