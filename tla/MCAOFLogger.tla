---------------------------- MODULE MCAOFLogger -----------------------------
(* Small instances of AOFLogger for TLC. *)
EXTENDS AOFLogger, TLC

CONSTANTS r1, r2, r3, k1

MCRequest == {r1, r2, r3}
MCCompacted == {k1}

\* With a buffer of 3 units, r1 fits, r2 spills when something is buffered
\* and r3 fills the buffer and leaves more than another: the rest is written directly.
MCSize == (r1 :> 2) @@ (r2 :> 3) @@ (r3 :> 7) @@ (k1 :> 2)

\* No record leaves more than a buffer when it has filled one.
SmallSize == (r1 :> 2) @@ (r2 :> 3) @@ (r3 :> 4) @@ (k1 :> 2)

MCSnapshots == {<<>>, <<<<k1, 1>>, <<k1, 2>>>>}
=============================================================================
