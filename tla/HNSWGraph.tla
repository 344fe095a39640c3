------------------------------ MODULE HNSWGraph ------------------------------
(***************************************************************************)
(* What an HNSW index keeps of its graph, whatever its vectors and however *)
(* it looks for neighbours: which links an insertion may make and drop,    *)
(* what a deletion changes, which node a search starts from.  Which live   *)
(* nodes become neighbours, and which links pruning drops, is left open.   *)
(* HNSW implements this specification.                                     *)
(***************************************************************************)
EXTENDS HNSWParams

VARIABLES
    present,   \* the nodes, deleted ones included
    dead,      \* the nodes whose Deleted flag is set
    height,    \* the number of layers of each node
    links,     \* the links of each node at each layer
    entry,     \* HNSW.entrypoint
    top,       \* HNSW.maxLayer
    size       \* HNSW.size

gvars == <<present, dead, height, links, entry, top, size>>

Alive == present \ dead
Width(l) == IF l = 0 THEN 2 * M ELSE M
Unlinked == [l \in Layer |-> {}]
Higher(a, b) == IF a > b THEN a ELSE b

\* h is getNodeLayer of a node whose links are ls.
IsNodeLayer(h, ls) ==
    /\ h \in Layer
    /\ h # 0 => ls[h] # {}
    /\ \A l \in Layer : ls[l] # {} => l <= h

GInit ==
    /\ present = {} /\ dead = {}
    /\ height = [i \in Id |-> 0]
    /\ links = [i \in Id |-> Unlinked]
    /\ entry = NoNode /\ top = -1 /\ size = 0

Enter(id, layer) ==
    /\ id \in Id \ present
    /\ present' = present \cup {id}
    /\ height' = [height EXCEPT ![id] = layer + 1]
    /\ top' = Higher(top, layer)
    /\ size' = size + 1
    /\ UNCHANGED dead

GInsertFirst(id, layer) ==
    /\ entry = NoNode
    /\ Enter(id, layer)
    /\ links' = [links EXCEPT ![id] = Unlinked]
    /\ entry' = id

\* The new node has live neighbours at each of its layers and nothing above.
NewLinks(id, layer, ls) ==
    /\ \A l \in 0 .. layer :
          /\ ls[id][l] # {} /\ ls[id][l] \subseteq Alive
          /\ Cardinality(ls[id][l]) <= Width(l)
    /\ \A l \in Layer : l > layer => ls[id][l] = {}

\* Its neighbours may link back, and drop other links for that.
BackLinks(id, ls) ==
    \A n \in Id \ {id}, l \in Layer :
        \/ ls[n][l] = links[n][l]
        \/ /\ n \in ls[id][l] /\ l < height[n]
           /\ ls[n][l] \subseteq links[n][l] \cup {id}
           /\ Cardinality(ls[n][l]) <= Width(l)

GInsertNext(id, layer) ==
    /\ entry # NoNode
    /\ Enter(id, layer)
    /\ links' \in [Id -> [Layer -> SUBSET Id]]
    /\ NewLinks(id, layer, links') /\ BackLinks(id, links')
    /\ \E h \in Layer :
          /\ IsNodeLayer(h, links'[entry])
          /\ entry' = IF layer > h THEN id ELSE entry

\* A deleted entry point is replaced by a live node with the highest links.
Elect(live) ==
    \/ live = {} /\ entry' = NoNode /\ top' = -1
    \/ \E i \in live, h \in Layer :
          /\ IsNodeLayer(h, links[i])
          /\ \A j \in live, l \in Layer : links[j][l] # {} => l <= h
          /\ entry' = i /\ top' = h

GDelete(id) ==
    /\ id \in Alive
    /\ dead' = dead \cup {id}
    /\ size' = size - 1
    /\ \/ entry = id /\ Elect(Alive \ {id})
       \/ entry # id /\ UNCHANGED <<entry, top>>
    /\ UNCHANGED <<present, height, links>>

GNext ==
    \/ \E id \in Id, layer \in Layer : GInsertFirst(id, layer) \/ GInsertNext(id, layer)
    \/ \E id \in Id : GDelete(id)

GSpec == GInit /\ [][GNext]_gvars

-----------------------------------------------------------------------------
\* Every variable has its type.
GTypeOK ==
    /\ present \subseteq Id /\ dead \subseteq present
    /\ height \in [Id -> 0 .. MaxLayers]
    /\ links \in [Id -> [Layer -> SUBSET Id]]
    /\ entry \in Id \cup {NoNode}
    /\ top \in -1 .. MaxLayers - 1
    /\ size \in Nat

\* Links lead to nodes, never to the node itself: searchLayer and
\* pruneConnections look up every link, and searchLayer does not check.
LinksSound ==
    \A i \in Id, l \in Layer :
        /\ links[i][l] \subseteq present \ {i}
        /\ links[i][l] # {} => i \in present /\ l < height[i]

\* No node has more links than its layer allows, whatever was inserted and
\* deleted since (insertVector, pruneConnections).
DegreeBounded ==
    \A i \in Id, l \in Layer : Cardinality(links[i][l]) <= Width(l)

\* There is an entry point exactly when something is live, it is live itself,
\* and the size is the number of live nodes (insertVector, Delete,
\* findNewEntrypoint): Search answers nothing without an entry point, and
\* searchLayer nothing from one that is deleted.
EntryIsLive ==
    /\ entry = NoNode <=> Alive = {}
    /\ entry # NoNode => entry \in Alive
    /\ size = Cardinality(Alive)

\* The top layer, from which every search descends, is at least the highest
\* layer at which a live node has links.
LayersCovered ==
    /\ top = -1 <=> Alive = {}
    /\ \A i \in Alive, l \in Layer : links[i][l] # {} => l <= top

\* All of it: what the walks of insertVector, Search and pruneConnections take
\* for granted of the graph, whatever was inserted and deleted before.
GraphSound == LinksSound /\ DegreeBounded /\ EntryIsLive /\ LayersCovered
=============================================================================
