---------------------------- MODULE MCPositions -----------------------------
(* What the board's readers compute, each from its own positions: the static *)
(* exchange evaluation, the evaluation and perft.  The three share nothing   *)
(* but the board: `study' says which of them a behaviour is about, and only  *)
(* that one moves.                                                           *)
EXTENDS Positions

VARIABLES
    study,                                            \* "exchange", "count" or "evaluation"
    board, stage,
    move, side, type, occupancy, attackers, current, gains,  \* See
    depth, stack, rootMoves, nodes,                          \* Perft
    data, term, pending, trace, score, value                 \* Evaluation

seeVars == <<move, side, type, occupancy, attackers, current, gains>>
perftVars == <<depth, stack, rootMoves, nodes>>
evaluationVars == <<data, term, pending, trace, score, value>>

-----------------------------------------------------------------------------
(* Exchanges: every subset of a set of attackers and defenders around d5.    *)

\* What may stand around the target d5: a pawn and a knight of each colour,
\* doubled sliders on the file and on the diagonals, kings near or far.
Attacking == {<<28, WHITE, PAWN>>, <<18, WHITE, KNIGHT>>, <<3, WHITE, ROOK>>, <<11, WHITE, QUEEN>>,
              <<7, WHITE, BISHOP>>}
Defending == {<<42, BLACK, PAWN>>, <<45, BLACK, KNIGHT>>, <<59, BLACK, ROOK>>, <<49, BLACK, QUEEN>>}
Victims == {PAWN, KNIGHT, QUEEN}

Exchanged(pieces, victim, whiteKing, blackKing) ==
    Load([squares |-> [sq \in {p[1] : p \in pieces} \union {35, whiteKing, blackKing} |->
                         CASE sq = 35 -> <<BLACK, victim>>
                           [] sq = whiteKing -> <<WHITE, KING>>
                           [] sq = blackKing -> <<BLACK, KING>>
                           [] OTHER -> LET p == CHOOSE p \in pieces : p[1] = sq IN <<p[2], p[3]>>],
          turn |-> WHITE, rights |-> {}, ep |-> INVALID, clock |-> 0, ply |-> 0])

Around == {Exchanged(a \union d, v, kings[1], kings[2]) :
             a \in SUBSET Attacking, d \in SUBSET Defending, v \in Victims,
             kings \in {<<26, 44>>, <<0, 63>>}}

\* En passant onto a defended square with a rook behind either pawn, and
\* promotions with and without capture.
Special == {
    Load([squares |-> (36 :> <<WHITE, PAWN>>) @@ (35 :> <<BLACK, PAWN>>) @@ (3 :> <<WHITE, ROOK>>)
                      @@ (59 :> <<BLACK, ROOK>>) @@ (60 :> <<BLACK, KING>>) @@ (4 :> <<WHITE, KING>>),
          turn |-> WHITE, rights |-> {}, ep |-> 43, clock |-> 0, ply |-> 0]),
    Load([squares |-> (48 :> <<WHITE, PAWN>>) @@ (57 :> <<BLACK, KNIGHT>>) @@ (63 :> <<BLACK, ROOK>>)
                      @@ (0 :> <<WHITE, ROOK>>) @@ (46 :> <<BLACK, KING>>) @@ (4 :> <<WHITE, KING>>),
          turn |-> WHITE, rights |-> {}, ep |-> INVALID, clock |-> 0, ply |-> 0])}

Exchanges == {b \in Around : ~AnyAttacked(b, {b.king[BLACK]}, WHITE)} \union Special

-----------------------------------------------------------------------------
(* Evaluations: sets of pawns around two kings, and richer positions with    *)
(* pins, batteries, castling rights and outposts.                            *)

Placed(list, turn, rights) == Load(Position(list, turn, rights, INVALID, 0))
Kings == {W(7, 1, KING), B(7, 8, KING)}

\* The edge files, a file in between, pawns that meet, pass and follow each other.
WhitePawns == {W(1, 2, PAWN), W(1, 4, PAWN), W(2, 3, PAWN), W(2, 6, PAWN), W(8, 4, PAWN)}
BlackPawns == {B(1, 6, PAWN), B(3, 5, PAWN), B(8, 7, PAWN)}
Structures == {Placed(Kings \union w \union v, WHITE, {}) :
                 w \in SUBSET WhitePawns, v \in SUBSET BlackPawns}

Rich == {
    \* the repository's test position
    Placed({B(7, 8, KING), B(3, 6, PAWN), B(5, 5, PAWN), W(6, 5, KNIGHT), B(7, 5, PAWN), B(4, 4, KNIGHT),
              W(5, 4, PAWN), W(7, 4, PAWN), W(3, 3, PAWN), W(7, 1, KING)}, WHITE, {}),
    \* pins on a file and a diagonal, a queen behind a lone piece
    Placed({W(5, 1, KING), W(5, 2, KNIGHT), W(6, 2, BISHOP), W(4, 1, QUEEN), W(4, 3, PAWN), W(1, 2, PAWN),
              B(5, 8, ROOK), B(8, 4, BISHOP), B(4, 8, ROOK), B(7, 8, KING), B(7, 7, PAWN), B(6, 7, PAWN)}, BLACK, {}),
    \* both sides may castle, open and closed files
    Placed({W(5, 1, KING), W(1, 1, ROOK), W(8, 1, ROOK), W(7, 2, PAWN), W(8, 2, PAWN), W(6, 2, PAWN), W(2, 4, PAWN),
              B(5, 8, KING), B(1, 8, ROOK), B(8, 8, ROOK), B(2, 7, PAWN), B(3, 7, PAWN), B(7, 4, PAWN), B(4, 6, BISHOP)},
             WHITE, {<<KINGSIDE, WHITE>>, <<QUEENSIDE, WHITE>>, <<QUEENSIDE, BLACK>>}),
    \* checks from everywhere, weak squares around the king
    Placed({W(1, 1, KING), W(1, 2, PAWN), W(2, 2, PAWN), W(3, 1, ROOK), B(8, 8, KING), B(2, 4, QUEEN), B(3, 4, KNIGHT),
              B(7, 2, BISHOP), B(4, 8, ROOK), W(6, 6, QUEEN), W(5, 5, KNIGHT), W(4, 7, PAWN)}, BLACK, {}),
    \* two bishops behind their pawns, passed pawns on both sides
    Placed({W(3, 1, BISHOP), W(6, 1, BISHOP), W(4, 4, PAWN), W(5, 3, PAWN), W(3, 6, PAWN), W(8, 5, PAWN), W(2, 1, KING),
              B(4, 5, PAWN), B(5, 6, PAWN), B(3, 3, PAWN), B(6, 4, KNIGHT), B(2, 8, KING), B(8, 8, ROOK)}, WHITE, {}),
    \* more material than a game begins with
    Placed({W(1, 1, KING), B(8, 8, KING), B(8, 7, PAWN), B(7, 7, PAWN), W(2, 1, QUEEN), W(3, 1, QUEEN), W(4, 1, QUEEN),
              W(5, 1, QUEEN), W(2, 2, QUEEN), W(3, 2, QUEEN), B(1, 8, QUEEN), B(2, 8, QUEEN), W(6, 1, ROOK)}, WHITE, {}),
    Placed({W(5, 1, KING), B(5, 8, KING)}, BLACK, {})}

Evaluated == Structures \union Rich

-----------------------------------------------------------------------------
(* Counts: tactical positions, mates and stalemates in one, and depths that   *)
(* are refused.                                                              *)

Mates == Position({W(7, 6, KING), W(1, 7, QUEEN), B(8, 8, KING)}, WHITE, {}, INVALID, 0)
Counted == {PerftThree, Castles, Promoting, Doubled, Mates}
CountedDepths == {-1, 0, 2, 129}

-----------------------------------------------------------------------------
Exchange == INSTANCE See WITH Cases <- Exchanges
Count    == INSTANCE Perft WITH Starts <- Counted, Depths <- CountedDepths
Evaluate == INSTANCE Evaluation WITH Cases <- Evaluated

Idle == "idle"
NoExchange ==
    /\ move = Idle /\ side = Idle /\ type = Idle /\ occupancy = Idle
    /\ attackers = Idle /\ current = Idle /\ gains = Idle
NoCount == depth = Idle /\ stack = Idle /\ rootMoves = Idle /\ nodes = Idle
NoEvaluation ==
    /\ data = Idle /\ term = Idle /\ pending = Idle
    /\ trace = Idle /\ score = Idle /\ value = Idle

Init ==
    \/ study = "exchange" /\ Exchange!Init /\ NoCount /\ NoEvaluation
    \/ study = "count" /\ Count!Init /\ NoExchange /\ NoEvaluation
    \/ study = "evaluation" /\ Evaluate!Init /\ stage = Idle /\ NoExchange /\ NoCount

Next ==
    /\ UNCHANGED study
    /\ \/ study = "exchange" /\ Exchange!Next /\ UNCHANGED <<perftVars, evaluationVars>>
       \/ study = "count" /\ Count!Next /\ UNCHANGED <<seeVars, evaluationVars>>
       \/ study = "evaluation" /\ Evaluate!Next /\ UNCHANGED <<stage, seeVars, perftVars>>

Spec == Init /\ [][Next]_<<study, board, stage, seeVars, perftVars, evaluationVars>>

-----------------------------------------------------------------------------
\* A capture is called losing exactly when it loses, a value the early exit
\* changed is off by one piece at most, and nothing captures twice (Board::see).
ExchangeIsSound ==
    study = "exchange" => Exchange!SignIsExact /\ Exchange!ErrorBounded /\ Exchange!ListBounded

\* Every leaf is counted once, the board is where the stack says and back at
\* its position in the end; 191 nodes two plies from its third position are what
\* the repository's own tests expect (perft_impl, perft.test.cpp).
CountIsExact ==
    study = "count" =>
        /\ Count!CountsLeaves /\ Count!BoardFollowsStack
        /\ stage = "done" /\ depth = 2 /\ board = Load(PerftThree) => nodes = 191

\* No colour is favoured: neither by the exchange of the colours, whichever
\* half of a term is evaluated first, nor by passing the move (evaluate_impl).
NoColourFavoured == study = "evaluation" => Evaluate!ColorSymmetric /\ Evaluate!NullMoveFlips

\* What the terms leave behind for the king's is complete and exact, and the
\* pawns' score is what the words of its comments say (update_attacks,
\* evaluate_pawns).
FeaturesAreExact == study = "evaluation" => Evaluate!AttacksExact /\ Evaluate!PawnsExact
=============================================================================
