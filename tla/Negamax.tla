-------------------------------- MODULE Negamax --------------------------------
(***************************************************************************)
(* The value of a position on a given game: what alpha-beta and quiescence *)
(* are to find without visiting all of it.  A position's moves are named   *)
(* by where they lead.  The recursion is a function, by the plies left, so *)
(* that it can be reasoned about.                                          *)
(***************************************************************************)
EXTENDS Scores, FiniteSetsExt

CONSTANTS
    Positions,
    Moves,        \* [Positions -> SUBSET Positions], the legal moves
    Captures, Promotions,   \* pairs of a position and a move
    Checked,      \* positions with the side to move in check
    Drawn         \* draws by rule

Tactical(p) == {m \in Moves[p] : <<p, m>> \in Captures \union Promotions}
IsQuiet(p, m) == m \notin Tactical(p)

MatedAt(ply) == -Mate + ply

\* The moves that count: at depth zero, out of check, captures and promotions.
Resting(p, depth) == depth = 0 /\ p \notin Checked
Replies(p, depth) == IF Resting(p, depth) THEN Tactical(p) ELSE Moves[p]

\* The values of positions whose moves have the values below, left plies before
\* the last ply: a side that rests may also stand on the evaluation.
Horizon(eval) == [p \in Positions |-> [depth \in Nat |-> IF p \in Drawn THEN 0 ELSE eval[p]]]
Backed(eval, below, left) ==
    [p \in Positions |-> [depth \in Nat |->
        LET next == IF depth = 0 THEN 0 ELSE depth - 1
            values == {-below[m][next] : m \in Replies(p, depth)}
                      \union (IF Resting(p, depth) THEN {eval[p]} ELSE {})
        IN  IF p \in Drawn THEN 0
            ELSE IF values # {} THEN Max(values)
            ELSE IF p \in Checked THEN MatedAt(MaxPly - left) ELSE 0]]

Minimax(eval) ==
    LET value[left \in Nat] == IF left = 0 THEN Horizon(eval) ELSE Backed(eval, value[left - 1], left)
    IN  value

Value(eval, p, depth, ply) == Minimax(eval)[MaxPly - ply][p][IF depth < 0 THEN 0 ELSE depth]
===============================================================================
