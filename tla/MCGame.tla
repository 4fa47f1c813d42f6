------------------------------- MODULE MCGame -------------------------------
(* The games that are played, with the bounds of each.                       *)
EXTENDS Game, Positions

\* Every move from a tactical position, and long shuffles of few pieces: three
\* times the same position, and the last plies before the fifty-move draw.
Start(position, travellers, plies) ==
    [position |-> position, travellers |-> travellers, plies |-> plies]
Games == {Start(p, Squares, 2) : p \in Tactical}
           \union {Start(Shuffle, ShuffleSquares, 8), Start([Shuffle EXCEPT !.clock = 95], ShuffleSquares, 6)}

\* A clock the parser accepts although play cannot reach it.
LongClock == {Start([Shuffle EXCEPT !.clock = 253], ShuffleSquares, 4)}
=============================================================================
