-------------------------------- MODULE Scores --------------------------------
(* The bands of the scores and the shift of a mate score into the table and   *)
(* out of it.                                                                 *)
(* Source: core/constants.hpp, search/tt.cpp, tt.hpp.                         *)
EXTENDS Integers

CONSTANTS
    Inf,          \* eval_value::inf, the largest number of the table's score field
    MaxPly        \* engine::max_search_ply

Mate == Inf - 1
MateBound == Mate - MaxPly
TtMateBound == Mate - 2 * MaxPly

ASSUME ScoresAssumption == MaxPly \in Nat \ {0} /\ Inf \in Nat /\ TtMateBound > 0

\* Seeded fault: the score of the side that is mated is stored as it is.
StoredForWinner(score, at) == IF score >= TtMateBound THEN score + at ELSE score

\* TranspositionTable::store: from the root's count to the node's.
Stored(score, at) ==
    IF score >= TtMateBound THEN score + at
    ELSE IF score <= -TtMateBound THEN score - at ELSE score

ScoreAtPly(score, at) ==
    IF score >= TtMateBound THEN score - at
    ELSE IF score <= -TtMateBound THEN score + at ELSE score
===============================================================================
