----------------------------- MODULE HNSWParams -----------------------------
(***************************************************************************)
(* The parameters of an HNSW index, and what follows from them for its     *)
(* identifiers and layers: shared by the graph and by the algorithm.       *)
(***************************************************************************)
EXTENDS Integers, FiniteSets

CONSTANTS
    M,           \* params.M: links per node above layer 0; twice that at 0
    MaxLayers,   \* params.MaxLayers
    MaxId        \* bound: identifiers go up to MaxId

ASSUME GraphAssumption ==
    M \in Nat \ {0} /\ MaxLayers \in Nat \ {0} /\ MaxId \in Nat

Id == 1 .. MaxId
Layer == 0 .. MaxLayers - 1
NoNode == 0
=============================================================================
