------------------------------ MODULE MateScores ------------------------------
(***************************************************************************)
(* A score on its way through the search: born at a mate or an evaluation, *)
(* negated on the way up, shifted by the ply into the table's 16 bits and  *)
(* back at another ply, cut off at the root and written as "mate n".       *)
(* Source: search/algorithm.cpp, search/limits.hpp, uci/writer.cpp.        *)
(***************************************************************************)
EXTENDS Scores

CONSTANT Evaluations   \* the static scores that occur, draws included

ASSUME MateScoresAssumption == Evaluations \subseteq -(TtMateBound - 1) .. TtMateBound - 1

\* The nodes that mate, probe and store: below the root and above the last ply,
\* which only evaluates.
Nodes == 1 .. MaxPly - 1

NoMate == -1
Distances == 0 .. 2 * MaxPly

VARIABLES
    value,     \* the score held at a node
    ply,       \* search_ply of that node
    distance,  \* history: plies from that node to the mate the score is of, or NoMate
    entry      \* the table: a stored score with its history, or the empty entry

mateVars == <<value, ply, distance, entry>>

Empty == [used |-> FALSE, score |-> 0, distance |-> NoMate]

Abs(x) == IF x < 0 THEN -x ELSE x

-----------------------------------------------------------------------------
MateInit ==
    /\ value = 0 /\ ply = 0 /\ distance = NoMate
    /\ entry = Empty

\* No move and in check (Step 14 of alphabeta, Step 8 of quiescence, and the
\* root itself).
Checkmate(at) ==
    /\ value' = -Mate + at /\ ply' = at /\ distance' = 0
    /\ UNCHANGED entry

Evaluate(at, score) ==
    /\ value' = score /\ ply' = at /\ distance' = NoMate
    /\ UNCHANGED entry

Return ==
    /\ ply > 0
    /\ value' = -value /\ ply' = ply - 1
    /\ distance' = IF distance = NoMate THEN NoMate ELSE distance + 1
    /\ UNCHANGED entry

Store ==
    /\ ply \in Nodes
    /\ entry' = [used |-> TRUE, score |-> Stored(value, ply), distance |-> distance]
    /\ UNCHANGED <<value, ply, distance>>

\* The guard band: bound on the mates followed, two full searches deep.
Probe(at) ==
    /\ entry.used
    /\ entry.distance + at <= 2 * MaxPly
    /\ value' = ScoreAtPly(entry.score, at) /\ ply' = at
    /\ distance' = entry.distance
    /\ UNCHANGED entry

MateNext ==
    \/ Return
    \/ Store
    \/ \E at \in Nodes \union {0} : Checkmate(at)
    \/ \E at \in Nodes : Probe(at)
    \/ \E at \in 1 .. MaxPly, score \in Evaluations : Evaluate(at, score)

MateSpec == MateInit /\ [][MateNext]_mateVars

-----------------------------------------------------------------------------
\* format_score: a mate inside the band is written in moves, signed.
IsMateScore(score) == Abs(score) > MateBound

MovesToMate(score) == (Mate - Abs(score) + 1) \div 2

HasMateWithinLimit(score, moves) == IsMateScore(score) /\ MovesToMate(score) <= moves

ScoresTyped ==
    /\ value \in Int /\ ply \in 0 .. MaxPly /\ distance \in Distances \union {NoMate}
    /\ entry \in [used : BOOLEAN, score : Int, distance : Distances \union {NoMate}]

\* The score of a mate that many plies below the node: the side that delivers
\* it is to move at odd distances.
MateScore(at, plies) == IF plies % 2 = 1 THEN Mate - at - plies ELSE -(Mate - at - plies)

\* A mate score is the distance to that mate, at whatever ply it was stored and
\* is found again and whichever side it favours; its band holds two searches,
\* the one that stored it and the one that found it (TranspositionTable::store,
\* TTRecord::score_at_ply, tt_mate_bound).
MateScoreIsDistance ==
    distance # NoMate => value = MateScore(ply, distance) /\ ply + distance <= 2 * MaxPly

\* Neither shift leaves the 16 bits of the field (the assertions of store).
ScoresFit ==
    /\ value \in -Inf .. Inf
    /\ Stored(value, ply) \in -Inf .. Inf
    /\ entry.score \in -Inf .. Inf

\* An evaluation passes through the table unchanged, is never taken for a mate
\* and never ends a "go mate" search (score_at_ply, format_score,
\* has_mate_within_limit).
EvaluationsStay ==
    distance = NoMate =>
        /\ value \in Evaluations \union {-e : e \in Evaluations} \union {0}
        /\ \A moves \in 1 .. MaxPly : ~HasMateWithinLimit(value, moves)

\* At the root "mate n" counts the mating side's moves, n itself and not one
\* more, and a "go mate n" search ends on a mate in n for either side and not on
\* a longer one (format_score, has_mate_within_limit).
MateCountIsMoves ==
    ply = 0 /\ distance \in 0 .. MaxPly - 1 =>
        /\ IsMateScore(value)
        /\ 2 * MovesToMate(value) \in {distance, distance + 1}
        /\ \A moves \in 1 .. MaxPly : HasMateWithinLimit(value, moves) <=> distance <= 2 * moves

\* A mate score keeps its meaning from the leaf to the table, to the root and
\* to the GUI, and nothing else is taken for one.
MatesAreCounted ==
    ScoresTyped /\ MateScoreIsDistance /\ ScoresFit /\ EvaluationsStay /\ MateCountIsMoves
===============================================================================
