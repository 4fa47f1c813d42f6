----------------------------- MODULE MCAlphaBeta -----------------------------
(* A game of four plies: transpositions, a mate, a stalemate, a draw by rule,  *)
(* a capture and a check at the horizon, a null move wherever there are pieces *)
(* and a last ply at the end of the capture.                                   *)
EXTENDS AlphaBetaInvariants

CONSTANTS r, a, b, s, c, d, e, f, g

MCPositions == {r, a, b, s, c, d, e, f, g}
MCMoves == [p \in MCPositions |->
    CASE p = r -> {a, b, s} [] p = a -> {c, d} [] p = b -> {c, e}
      [] p = c -> {f, s} [] p = d -> {g} [] OTHER -> {}]
MCCaptures == {<<c, f>>, <<r, b>>}
MCChecked == {d, e}
MCNullChild == [p \in MCPositions |-> CASE p = r -> b [] p = a -> b [] p = b -> a [] OTHER -> f]
MCHasPieces == {r, a, b}
MCKiller == [p \in MCPositions |-> IF p = a THEN c ELSE NullMove]
NoMargin == [i \in 0 .. 3 |-> 0]

\* Depth two without pruning, every evaluation that matters at the horizon and
\* past it; depth three with pruning, where a mate score is also asked about.
MCSettings == {
    [pruning |-> FALSE, depths |-> {2}, windows |-> {<<-Inf, Inf>>, <<0, 1>>},
     evaluations |-> {[p \in MCPositions |-> IF p \in {c, f, g} THEN v[p] ELSE 0] :
                        v \in [{c, f, g} -> {-1, 1}]}],
    [pruning |-> TRUE, depths |-> {3}, windows |-> {<<-Inf, Inf>>, <<0, 1>>, <<Mate - 3, Mate - 2>>},
     evaluations |-> {[p \in MCPositions |-> CASE p = f -> v [] p = c -> w [] p = g -> 1 [] OTHER -> 0] :
                        v \in {-1, 1}, w \in {-1, 1}}]}

\* Each position arises at one distance from the root, and the search without
\* pruning is asked for one depth: the hypothesis of SearchFindsTheValue.
MCDistance == [p \in MCPositions |-> CASE p = r -> 1 [] p \in {a, b} -> 2
                                      [] p \in {c, d, e} -> 3 [] p \in {s, f, g} -> 4]
ASSUME MCGraded == Graded(MCDistance)
===============================================================================
