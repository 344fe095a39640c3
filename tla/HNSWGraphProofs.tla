--------------------------- MODULE HNSWGraphProofs ---------------------------
(***************************************************************************)
(* Theorems about HNSWGraph, for all numbers of links, layers and nodes.   *)
(***************************************************************************)
EXTENDS HNSWGraph, FiniteSetTheorems, TLAPS

\* The inductive invariant: the type, and the four properties.  None needs more.
GInv == GTypeOK /\ LinksSound /\ DegreeBounded /\ EntryIsLive /\ LayersCovered

\* A set of nodes is finite, and adding or removing one counts.
LEMMA NodesFinite == \A S \in SUBSET Id : IsFiniteSet(S) /\ Cardinality(S) \in Nat
<1>1. IsFiniteSet(Id) BY GraphAssumption, FS_Interval DEF Id
<1> QED BY <1>1, FS_Subset, FS_CardinalityType

LEMMA CountOneMore ==
    ASSUME NEW S \in SUBSET Id, NEW i \in Id \ S
    PROVE  Cardinality(S \cup {i}) = Cardinality(S) + 1
BY NodesFinite, FS_AddElement

LEMMA CountOneLess ==
    ASSUME NEW S \in SUBSET Id, NEW i \in S
    PROVE  Cardinality(S \ {i}) = Cardinality(S) - 1
BY NodesFinite, FS_RemoveElement

LEMMA NoneCounted == \A S \in SUBSET Id : Cardinality(S) = 0 <=> S = {}
BY NodesFinite, FS_EmptySet

LEMMA InitInv == GInit => GInv
<1> SUFFICES ASSUME GInit PROVE GInv OBVIOUS
<1>1. GTypeOK BY GraphAssumption DEF GInit, GTypeOK, Unlinked, NoNode, Layer
<1>2. LinksSound BY DEF GInit, LinksSound, Unlinked
<1>3. DegreeBounded
  <2>1. Cardinality({}) = 0 BY FS_EmptySet
  <2> QED BY <2>1, GraphAssumption DEF GInit, DegreeBounded, Unlinked, Width
<1>4. EntryIsLive /\ LayersCovered
  BY FS_EmptySet DEF GInit, EntryIsLive, LayersCovered, Alive, NoNode
<1> QED BY <1>1, <1>2, <1>3, <1>4 DEF GInv

-----------------------------------------------------------------------------
(* Insertions.                                                             *)

\* What both forms of an insertion do to the nodes and their number.
LEMMA EnterNodes ==
    ASSUME GInv, NEW id \in Id, NEW layer \in Layer, Enter(id, layer)
    PROVE  /\ present' \subseteq Id /\ dead' \subseteq present'
           /\ height' \in [Id -> 0 .. MaxLayers] /\ top' \in 0 .. MaxLayers - 1
           /\ top' >= top /\ top' >= layer
           /\ Alive' = Alive \cup {id} /\ size' = Cardinality(Alive')
           /\ size' \in Nat
           /\ \A i \in Id : height'[i] = IF i = id THEN layer + 1 ELSE height[i]
<1> USE GraphAssumption DEF GInv, GTypeOK, Enter
<1>1. Alive' = Alive \cup {id} /\ Alive \in SUBSET Id /\ id \in Id \ Alive BY DEF Alive
<1>2. size' = Cardinality(Alive') BY <1>1, CountOneMore, NodesFinite DEF EntryIsLive
<1>3. top' \in 0 .. MaxLayers - 1 /\ top' >= top /\ top' >= layer BY DEF Higher, Layer
<1>4. height' \in [Id -> 0 .. MaxLayers] BY DEF Layer
<1> QED BY <1>1, <1>2, <1>3, <1>4

LEMMA InsertFirstInv ==
    ASSUME GInv, NEW id \in Id, NEW layer \in Layer, GInsertFirst(id, layer)
    PROVE  GInv'
<1> USE DEF GInv
<1>e. Enter(id, layer) BY DEF GInsertFirst
<1>n. /\ present' \subseteq Id /\ dead' \subseteq present'
      /\ height' \in [Id -> 0 .. MaxLayers] /\ top' \in 0 .. MaxLayers - 1
      /\ top' >= top /\ top' >= layer
      /\ Alive' = Alive \cup {id} /\ size' = Cardinality(Alive') /\ size' \in Nat
      /\ \A i \in Id : height'[i] = IF i = id THEN layer + 1 ELSE height[i]
  BY <1>e, EnterNodes
<1>l. \A i \in Id : links'[i] = IF i = id THEN Unlinked ELSE links[i]
  BY DEF GInsertFirst, GTypeOK
<1>a. Alive = {} BY DEF GInsertFirst, EntryIsLive
<1>1. GTypeOK'
  <2>1. links' \in [Id -> [Layer -> SUBSET Id]] BY DEF GInsertFirst, GTypeOK, Unlinked
  <2>2. entry' \in Id BY DEF GInsertFirst
  <2> QED BY <1>n, <2>1, <2>2, GraphAssumption DEF GTypeOK
<1>2. LinksSound'
  BY <1>l, <1>n DEF LinksSound, Unlinked, Enter, GInsertFirst
<1>3. DegreeBounded'
  <2>1. Cardinality({}) = 0 BY FS_EmptySet
  <2>2. \A l \in Layer : Width(l) \in Nat BY GraphAssumption DEF Width
  <2> QED BY <1>l, <2>1, <2>2 DEF DegreeBounded, Unlinked
<1>4. EntryIsLive' BY <1>n, <1>a DEF EntryIsLive, GInsertFirst, Id, NoNode
<1>5. LayersCovered' BY <1>n, <1>a, <1>l DEF LayersCovered, Unlinked
<1> QED BY <1>1, <1>2, <1>3, <1>4, <1>5

LEMMA InsertNextInv ==
    ASSUME GInv, NEW id \in Id, NEW layer \in Layer, GInsertNext(id, layer)
    PROVE  GInv'
<1> USE DEF GInv
<1>e. Enter(id, layer) BY DEF GInsertNext
<1>n. /\ present' \subseteq Id /\ dead' \subseteq present'
      /\ height' \in [Id -> 0 .. MaxLayers] /\ top' \in 0 .. MaxLayers - 1
      /\ top' >= top /\ top' >= layer
      /\ Alive' = Alive \cup {id} /\ size' = Cardinality(Alive') /\ size' \in Nat
      /\ \A i \in Id : height'[i] = IF i = id THEN layer + 1 ELSE height[i]
  BY <1>e, EnterNodes
<1>p. present' = present \cup {id} /\ id \notin present BY <1>e DEF Enter
<1>new. \A l \in Layer :
           \/ /\ l <= layer /\ links'[id][l] \subseteq Alive
              /\ Cardinality(links'[id][l]) <= Width(l)
           \/ l > layer /\ links'[id][l] = {}
  BY DEF GInsertNext, NewLinks, Layer
<1>old. \A n \in Id \ {id}, l \in Layer :
           \/ links'[n][l] = links[n][l]
           \/ /\ n \in links'[id][l] /\ l < height[n]
              /\ links'[n][l] \subseteq links[n][l] \cup {id}
              /\ Cardinality(links'[n][l]) <= Width(l)
  BY DEF GInsertNext, BackLinks
<1>1. GTypeOK'
  BY <1>n, GraphAssumption DEF GTypeOK, GInsertNext
<1>2. LinksSound'
  <2> SUFFICES ASSUME NEW i \in Id, NEW l \in Layer
               PROVE  /\ links'[i][l] \subseteq present' \ {i}
                      /\ links'[i][l] # {} => i \in present' /\ l < height'[i]
    BY DEF LinksSound
  <2>1. CASE i = id
    <3>1. links'[id][l] \subseteq Alive BY <1>new
    <3>2. links'[id][l] # {} => l <= layer BY <1>new
    <3>3. id \notin Alive BY <1>p DEF Alive
    <3> QED BY <2>1, <3>1, <3>2, <3>3, <1>n, <1>p DEF Alive, Layer
  <2>2. CASE i # id
    <3>1. CASE links'[i][l] = links[i][l] BY <2>2, <3>1, <1>n, <1>p DEF LinksSound
    <3>2. CASE /\ i \in links'[id][l] /\ l < height[i]
               /\ links'[i][l] \subseteq links[i][l] \cup {id}
      <4>1. i \in present BY <3>2, <1>new DEF Alive
      <4> QED BY <2>2, <3>2, <4>1, <1>n, <1>p DEF LinksSound
    <3> QED BY <2>2, <3>1, <3>2, <1>old
  <2> QED BY <2>1, <2>2
<1>3. DegreeBounded'
  <2>1. Cardinality({}) = 0 BY FS_EmptySet
  <2>2. \A l \in Layer : Width(l) \in Nat BY GraphAssumption DEF Width
  <2>3. \A l \in Layer : Cardinality(links'[id][l]) <= Width(l) BY <1>new, <2>1, <2>2
  <2>4. \A n \in Id \ {id}, l \in Layer : Cardinality(links'[n][l]) <= Width(l)
    BY <1>old DEF DegreeBounded
  <2> QED BY <2>3, <2>4 DEF DegreeBounded, Width
<1>4. EntryIsLive'
  <2>1. entry' \in {entry, id} BY DEF GInsertNext
  <2>2. entry \in Alive BY DEF GInsertNext, EntryIsLive
  <2>3. entry' # NoNode BY <2>1 DEF GInsertNext, Id, NoNode
  <2> QED BY <2>1, <2>2, <2>3, <1>n DEF EntryIsLive
<1>5. LayersCovered'
  <2>1. Alive' # {} /\ top' # -1 BY <1>n
  <2>2. ASSUME NEW i \in Alive', NEW l \in Layer, links'[i][l] # {} PROVE l <= top'
    <3>1. CASE i = id
      <4>1. l <= layer BY <3>1, <2>2, <1>new
      <4> QED BY <4>1, <1>n DEF Layer
    <3>2. CASE i # id
      <4>1. i \in Alive /\ i \in Id BY <3>2, <1>n DEF Alive
      <4>2. CASE links'[i][l] = links[i][l]
        <5>1. l <= top BY <4>1, <4>2, <2>2 DEF LayersCovered
        <5> QED BY <5>1, <1>n, GraphAssumption DEF GTypeOK, Layer
      <4>3. CASE i \in links'[id][l]
        <5>1. l <= layer BY <4>3, <1>new
        <5> QED BY <5>1, <1>n DEF Layer
      <4> QED BY <4>1, <3>2, <4>2, <4>3, <1>old
    <3> QED BY <3>1, <3>2
  <2> QED BY <2>1, <2>2 DEF LayersCovered
<1> QED BY <1>1, <1>2, <1>3, <1>4, <1>5

-----------------------------------------------------------------------------
(* Deletions.                                                              *)

LEMMA DeleteInv ==
    ASSUME GInv, NEW id \in Id, GDelete(id)
    PROVE  GInv'
<1> USE DEF GInv
<1>u. id \in Alive /\ UNCHANGED <<present, height, links>> BY DEF GDelete
<1>a. Alive' = Alive \ {id} /\ Alive \in SUBSET Id BY DEF GDelete, Alive, GTypeOK
<1>s. size' = Cardinality(Alive') /\ size' \in Nat
  <2>1. size' = Cardinality(Alive) - 1 BY DEF GDelete, EntryIsLive
  <2>2. Cardinality(Alive \ {id}) = Cardinality(Alive) - 1 BY <1>u, <1>a, CountOneLess
  <2>3. Alive \ {id} \in SUBSET Id BY <1>a
  <2> QED BY <2>1, <2>2, <2>3, <1>a, NodesFinite
<1>d. dead' \subseteq present' BY <1>u DEF GDelete, GTypeOK, Alive
<1>1. CASE entry = id /\ Elect(Alive \ {id})
  <2>1. CASE Alive \ {id} = {} /\ entry' = NoNode /\ top' = -1
    <3>1. EntryIsLive' /\ LayersCovered' BY <2>1, <1>a, <1>s DEF EntryIsLive, LayersCovered
    <3>2. GTypeOK' BY <2>1, <1>u, <1>d, <1>s, GraphAssumption DEF GTypeOK
    <3> QED BY <3>1, <3>2, <1>u DEF LinksSound, DegreeBounded, Width
  <2>2. CASE \E i \in Alive \ {id}, h \in Layer :
                /\ \A j \in Alive \ {id}, l \in Layer : links[j][l] # {} => l <= h
                /\ entry' = i /\ top' = h
    <3>1. EntryIsLive'
      <4>1. entry' \in Alive' /\ entry' # NoNode BY <2>2, <1>a DEF Id, NoNode
      <4> QED BY <4>1, <1>s DEF EntryIsLive
    <3>2. LayersCovered' BY <2>2, <1>a, <1>u, GraphAssumption DEF LayersCovered, Layer
    <3>3. GTypeOK' BY <2>2, <1>a, <1>u, <1>d, <1>s, GraphAssumption DEF GTypeOK, Layer
    <3> QED BY <3>1, <3>2, <3>3, <1>u DEF LinksSound, DegreeBounded, Width
  <2> QED BY <1>1, <2>1, <2>2 DEF Elect
<1>2. CASE entry # id /\ UNCHANGED <<entry, top>>
  <2>1. entry \in Alive' /\ entry # NoNode
    <3>1. entry # NoNode BY <1>u DEF EntryIsLive
    <3> QED BY <3>1, <1>2, <1>a DEF EntryIsLive
  <2>2. EntryIsLive' BY <2>1, <1>2, <1>s DEF EntryIsLive
  <2>3. LayersCovered' BY <2>1, <1>2, <1>a, <1>u DEF LayersCovered
  <2>4. GTypeOK' BY <1>2, <1>u, <1>d, <1>s DEF GTypeOK
  <2> QED BY <2>2, <2>3, <2>4, <1>u DEF LinksSound, DegreeBounded, Width
<1> QED BY <1>1, <1>2 DEF GDelete

-----------------------------------------------------------------------------
\* The inductive invariant holds in every reachable state.
THEOREM GraphInvariance == GSpec => []GInv
<1>1. GInv /\ [GNext]_gvars => GInv'
  <2> SUFFICES ASSUME GInv, [GNext]_gvars PROVE GInv' OBVIOUS
  <2>1. CASE UNCHANGED gvars
    BY <2>1 DEF gvars, GInv, GTypeOK, LinksSound, DegreeBounded, EntryIsLive,
                LayersCovered, Alive, Width
  <2>2. ASSUME NEW id \in Id, NEW layer \in Layer, GInsertFirst(id, layer) PROVE GInv'
    BY <2>2, InsertFirstInv
  <2>3. ASSUME NEW id \in Id, NEW layer \in Layer, GInsertNext(id, layer) PROVE GInv'
    BY <2>3, InsertNextInv
  <2>4. ASSUME NEW id \in Id, GDelete(id) PROVE GInv' BY <2>4, DeleteInv
  <2> QED BY <2>1, <2>2, <2>3, <2>4 DEF GNext
<1> QED BY InitInv, <1>1, PTL DEF GSpec

\* What the walks take for granted of the graph holds whatever was inserted and
\* deleted: links lead to other nodes, degrees are bounded, the entry point is
\* live whenever anything is, and every search starts high enough.
THEOREM GraphStaysSound == GSpec => []GraphSound
<1>1. GInv => GraphSound BY DEF GInv, GraphSound
<1> QED BY GraphInvariance, <1>1, PTL
=============================================================================
