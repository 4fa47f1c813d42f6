------------------------------ MODULE Positions ------------------------------
(* Positions for the runs: few pieces, each with something that is rare in   *)
(* play.                                                                     *)
EXTENDS Generator

\* Pieces as <<file letter number, rank, colour, type>>, files and ranks 1-8.
Place(list) == [sq \in {Square(p[1] - 1, p[2] - 1) : p \in list} |->
    LET p == CHOOSE q \in list : Square(q[1] - 1, q[2] - 1) = sq IN <<p[3], p[4]>>]
Position(list, turn, rights, ep, clock) ==
    [squares |-> Place(list), turn |-> turn, rights |-> rights, ep |-> ep, clock |-> clock,
     ply |-> IF turn = WHITE THEN 0 ELSE 1]

W(file, rank, type) == <<file, rank, WHITE, type>>
B(file, rank, type) == <<file, rank, BLACK, type>>

\* Castling on both sides, rooks that can be taken at home.
Castles == Position({W(5, 1, KING), W(8, 1, ROOK), W(1, 1, ROOK), B(5, 8, KING), B(8, 8, ROOK), B(3, 2, PAWN)},
                    WHITE, {<<KINGSIDE, WHITE>>, <<QUEENSIDE, WHITE>>, <<KINGSIDE, BLACK>>}, INVALID, 0)
\* A double push lands beside a pawn whose king shares the rank with a rook.
RankPin == Position({W(1, 5, KING), W(5, 5, PAWN), B(8, 5, ROOK), B(4, 7, PAWN), B(8, 8, KING), B(7, 7, PAWN)},
                    BLACK, {}, INVALID, 3)
\* En passant discovers, or is the only way to take a checking pawn.
PawnCheck == Position({W(5, 4, KING), W(5, 5, PAWN), W(7, 5, PAWN), W(6, 1, ROOK), B(6, 7, PAWN), B(6, 8, KING), B(2, 8, BISHOP)},
                      BLACK, {}, INVALID, 0)
\* Promotions with and without capture, under discovered check.
Promoting == Position({W(1, 7, PAWN), W(3, 7, PAWN), W(1, 1, KING), B(2, 8, KNIGHT), B(8, 8, KING), B(7, 2, PAWN), B(8, 3, BISHOP)},
                      WHITE, {}, INVALID, 0)
\* Pins along file and diagonal, a battery, several knights for one square.
Pinned == Position({W(5, 1, KING), W(5, 2, KNIGHT), W(3, 3, KNIGHT), W(7, 2, BISHOP), B(5, 8, ROOK), B(1, 5, QUEEN), B(1, 8, KING), B(2, 7, PAWN)},
                   WHITE, {}, INVALID, 99)
\* A well-known position for perft: pins on the fifth rank, checks, captures.
PerftThree == Position({W(1, 5, KING), W(2, 5, PAWN), W(2, 4, ROOK), W(5, 2, PAWN), W(7, 2, PAWN), B(3, 7, PAWN), B(4, 6, PAWN),
                        B(8, 5, ROOK), B(6, 4, PAWN), B(8, 4, KING)}, WHITE, {}, INVALID, 0)

\* The last count the clock's byte can hold, as the FEN parser accepts it.
FullClock == Position({W(1, 1, KING), B(8, 8, KING)}, WHITE, {}, INVALID, 255)

\* Rooks on one file, and a pawn that stands between its promotion square
\* and the king.
Twins == Position({W(8, 1, KING), W(1, 1, ROOK), W(1, 5, ROOK), W(7, 7, PAWN), B(7, 3, KING)},
                  WHITE, {}, INVALID, 0)
\* A checking rook with the queen behind it.
Doubled == Position({W(1, 1, KING), B(1, 7, ROOK), B(1, 8, QUEEN), B(8, 8, KING)}, WHITE, {}, INVALID, 0)

Tactical == {Castles, RankPin, PawnCheck, Promoting, Pinned, PerftThree, FullClock, Twins, Doubled}

\* Kings, a rook that may still castle and a knight, shuffling.
Shuffle == Position({W(5, 1, KING), W(8, 1, ROOK), B(5, 8, KING), B(2, 8, KNIGHT)},
                    WHITE, {<<KINGSIDE, WHITE>>}, INVALID, 0)
\* h1 and g1 for the rook, e1 for the king, b8, c6 and d4 for the knight.
ShuffleSquares == {7, 6, 57, 42, 27}
=============================================================================
