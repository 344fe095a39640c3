------------------------------ MODULE MCCatalog ------------------------------
\* A small instance of Catalog.
EXTENDS Catalog

CONSTANTS d1, c1, c2, r1, r2, r3, r4

Alike == Permutations(Request)

\* An RDB file with nothing, and one with an empty collection.
MCBases ==
    {[d \in DbName |-> None],
     [d \in DbName |-> IF d = d1 THEN [c \in CollName |-> IF c = c1 THEN {} ELSE None] ELSE None]}
=============================================================================
