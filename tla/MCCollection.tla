----------------------------- MODULE MCCollection -----------------------------
EXTENDS Collection, TLC

CONSTANTS u, v, w

MCDim == u :> 1 @@ v :> 1 @@ w :> 2
MCBatch == {<<u>>, <<w>>, <<u, v>>}
MCDeletion == {{2}, {1, 2}}

\* The state without what no action and no property can read any more: the answers
\* of the part of the log that is safe, all answers once the properties that read
\* them are excused for good, and what only matters to a further restart.
MCView ==
    <<memory, phase, pos, snap, log, unlogged, restarts, causes,
      IF restarts = MaxRestarts THEN <<>> ELSE <<durable>>,
      IF causes \cap {"order", "rewrite", "unlogged"} # {} THEN <<>>
      ELSE IF restarts = MaxRestarts THEN <<Last(told)>>
      ELSE SubSeq(told, durable + 1, Len(told))>>
=============================================================================
