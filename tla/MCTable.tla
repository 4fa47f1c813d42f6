------------------------------ MODULE MCTable ------------------------------
(* A small instance of TranspositionTable for TLC: either all threads race, *)
(* with few stores of records that differ by their bound only, or one works *)
(* alone, with more stores and every replacement decision.                  *)
EXTENDS TranspositionTable, FiniteSets, TLC

CONSTANT RacingStores   \* bound: calls of store between two clears, when all race

\* Each key is a bit of its own, and so is each value of a field of a record;
\* the two share a bit, the low one, as real keys share bits with payloads.
MCKeys == {{"k1", "low"}, {"k2"}}
MCSalt == {"low", "salt"}
FieldBit == [m |-> <<"m0", "low", "m2">>, d |-> <<"d0", "d1", "d2", "d3">>,
             g |-> <<"g0", "g1">>]
MCPack ==
  [r \in Record |-> {FieldBit.m[r.move + 1], FieldBit.d[r.depth + 1],
                     FieldBit.g[r.generation + 1], r.bound}]

OneMove == {1}
TwoDepths == {0, 3}
Interchangeable == Permutations(Worker)

Racing == crew = Worker
MCInit == Init /\ (Racing \/ Alone)

WithinBounds ==
  Racing =>
    /\ stores' <= RacingStores /\ searches' = 0
    /\ \A w \in Worker : call'[w].op = "store" => call'[w].move = NullMove /\ call'[w].depth = 0

MCNext == Next /\ WithinBounds

MCSpec == MCInit /\ [][MCNext]_vars
=============================================================================
