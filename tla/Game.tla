-------------------------------- MODULE Game --------------------------------
(***************************************************************************)
(* A board in the hands of its callers: positions are loaded, legal moves  *)
(* and null moves are made and taken back in LIFO order, as the search,    *)
(* perft and the position command do.  The properties compare what the     *)
(* board keeps incrementally, or decides by short cuts, with definitions   *)
(* that do neither.                                                        *)
(***************************************************************************)
EXTENDS Generator

\* What the fields of a board hold.
Features == ({"piece"} \X Colors \X PieceTypes \X Squares) \union {<<"turn">>}
              \union ({"castle"} \X (Sides \X Colors)) \union ({"ep"} \X (0..7))
PlyStates ==
    [checkers : SUBSET Squares, blockers : [Colors -> SUBSET Squares], zkey : SUBSET Features,
     rights : SUBSET (Sides \X Colors), ep : Squares \union {INVALID},
     legalEp : Squares \union {INVALID}, clock : 0..255,
     move : [from : Squares, to : Squares, type : BASIC_MOVE..MOVE_CASTLE, prom : PieceTypes],
     captured : NO_PIECETYPE..KING]
Slots == AllSlot..KING
WellTyped(b) ==
    /\ b \in [squares : {b.squares}, bb : [Colors -> [Slots -> SUBSET Squares]],
              count : [Colors -> [Slots -> Int]], king : [Colors -> Squares],
              turn : Colors, ply : Nat, terms : [material : Int, bonus : Int],
              states : Seq(PlyStates)]
    /\ b.states # << >>
    /\ DOMAIN b.squares \subseteq Squares
    /\ b.squares \in [DOMAIN b.squares -> Colors \X PieceTypes]

\* The three copies of the pieces agree, a king is where its colour's entry
\* says, and the key is the one of the position.
Where(squares, c, t) == {sq \in DOMAIN squares : squares[sq] = <<c, t>>}
Owned(squares, c) == {sq \in DOMAIN squares : squares[sq][1] = c}
PiecesAgree(b) ==
    \A c \in Colors :
      /\ \A t \in PieceTypes : /\ b.bb[c][t] = Where(b.squares, c, t)
                               /\ b.count[c][t] = Cardinality(b.bb[c][t])
      /\ b.bb[c][AllSlot] = Owned(b.squares, c)
KingsKnown(b) == \A c \in Colors : b.bb[c][KING] \subseteq {b.king[c]}
KeyMatches(b) == Top(b).zkey = RecomputeKey(b)
Kept(b) == WellTyped(b) /\ PiecesAgree(b) /\ KingsKnown(b) /\ KeyMatches(b)

\* What a game may start from, and its bounds: a parsed position that loads to
\* a board in order, the squares pieces may move to and the most moves in the history.
CONSTANT Starts
ASSUME StartsAssumption ==
    \A s \in Starts :
      /\ s.travellers \subseteq Squares /\ s.plies \in Nat
      /\ Kept(Load(s.position)) /\ Len(Load(s.position).states) = 1

VARIABLES board,
          bounds   \* the start the game was loaded from

vars == <<board, bounds>>

Plies == Len(board.states) - 1

\* Every move of the side to move that passes is_pseudo_legal.
Candidates(b) ==
    LET of(t) == b.bb[b.turn][t]
        all   == b.bb[b.turn][AllSlot]
    IN  {Basic(f, t) : f \in all, t \in Squares}
        \union {Move(f, t, MOVE_EP, KNIGHT) : f \in of(PAWN), t \in Squares}
        \union {Move(f, t, MOVE_PROM, p) : f \in of(PAWN), t \in Squares, p \in Promotions}
        \union {Move(f, t, MOVE_CASTLE, KNIGHT) : f \in of(KING), t \in Squares}
PseudoLegal(b) == {m \in Candidates(b) : IsPseudoLegal(b, m)}

\* What make may be called with: a move that passes both tests, as the search
\* asks of the table's moves.  Generated moves are among them (GeneratorComplete).
Playable(b) == {m \in PseudoLegal(b) : IsLegalPseudoMove(b, m)}

Init == bounds \in Starts /\ board = Load(bounds.position)

MakeMove ==
    /\ Plies < bounds.plies
    /\ \E m \in Playable(board) : m.to \in bounds.travellers /\ board' = Make(board, m)
    /\ UNCHANGED bounds

\* The search passes only outside check and never twice in a row.
MakeNullMove ==
    /\ Plies < bounds.plies
    /\ ~IsCheck(board)
    /\ Plies = 0 \/ Top(board).move # NULL_MOVE
    /\ board' = MakeNull(board)
    /\ UNCHANGED bounds

TakeBack ==
    /\ Plies > 0
    /\ board' = IF Top(board).move = NULL_MOVE THEN UnmakeNull(board) ELSE Unmake(board)
    /\ UNCHANGED bounds

Next == MakeMove \/ MakeNullMove \/ TakeBack

Spec == Init /\ [][Next]_vars

-----------------------------------------------------------------------------
(* Definitions without short cuts.                                           *)

\* c's pieces that attack a square, looked for from each piece.
Attackers(squares, c, target) ==
    {s \in DOMAIN squares \ {target} :
        LET type == squares[s][2]
            open(steps) == LineStep(s, target) \in steps /\ Between(s, target) \intersect DOMAIN squares = {}
        IN  /\ squares[s][1] = c
            /\ CASE type = PAWN   -> Abs(File(s) - File(target)) = 1 /\ Rank(target) - Rank(s) = SignOf(c)
                 [] type = KNIGHT -> {Abs(File(s) - File(target)), Abs(Rank(s) - Rank(target))} = {1, 2}
                 [] type = BISHOP -> open({7, 9})
                 [] type = ROOK   -> open({1, 8})
                 [] type = QUEEN  -> open({1, 7, 8, 9})
                 [] type = KING   -> Distance(s, target) = 1}

KingOf(squares, c) == CHOOSE sq \in DOMAIN squares : squares[sq] = <<c, KING>>
Exposed(squares, c) == Attackers(squares, Other(c), KingOf(squares, c)) # {}

-----------------------------------------------------------------------------
(* Properties.                                                               *)

TypeOK == WellTyped(board)

\* However moves are made and taken back, the bitboards, the counts and the
\* king squares describe the same position as the squares (add_piece,
\* remove_piece, move_piece and the king's special handling in make).
StorageAgrees ==
    /\ PiecesAgree(board) /\ KingsKnown(board)
    /\ \A c \in Colors : board.king[c] \in board.bb[c][KING]

\* The key and the evaluation terms kept by make equal those computed from
\* scratch: otherwise a transposition is missed, or two positions share an
\* entry of the table (Board::recompute_key, recompute_base_terms).
KeyIsFresh == KeyMatches(board) /\ board.terms = RecomputeBaseTerms(board)

\* The cached checkers are the attackers of the king; a piece is a cached
\* blocker exactly when it is no checker itself and removing it uncovers one;
\* the keyed en passant target is there exactly when some pawn can legally
\* take on it (refresh_tactical_cache, refresh_legal_enpassant_target).
CachesAreFresh ==
    LET b == board
        without(sq) == [s \in DOMAIN b.squares \ {sq} |-> b.squares[s]]
        taken(from, to) == (to :> <<b.turn, PAWN>>) @@
            [s \in DOMAIN b.squares \ {from, EnpassantCaptured(to, b.turn)} |-> b.squares[s]]
    IN  /\ Top(b).checkers = Attackers(b.squares, Other(b.turn), b.king[b.turn])
        /\ \A c \in Colors : Top(b).blockers[c] =
             {sq \in DOMAIN b.squares \ ({b.king[c]} \union Attackers(b.squares, Other(c), b.king[c])) :
                ~ Attackers(without(sq), Other(c), b.king[c])
                    \subseteq Attackers(b.squares, Other(c), b.king[c])}
        /\ Top(b).legalEp # INVALID <=>
             /\ Top(b).ep # INVALID
             /\ \E from \in b.bb[b.turn][PAWN] :
                  /\ IsPseudoLegal(b, Move(from, Top(b).ep, MOVE_EP, KNIGHT))
                  /\ ~Exposed(taken(from, Top(b).ep), b.turn)

\* The board keeps one position in seven forms, and after any moves made and
\* taken back they agree with each other and with a computation from nothing.
StateIsFresh == TypeOK /\ StorageAgrees /\ KeyIsFresh /\ CachesAreFresh

\* Taking back restores everything: placement, bitboards, counts, terms,
\* kings, side, ply and history, for every legal move and the null move.
UnmakeRestores ==
    /\ \A m \in Playable(board) : Unmake(Make(board, m)) = board
    /\ ~IsCheck(board) => UnmakeNull(MakeNull(board)) = board

\* The legality test, with its pins, its lone checker and its short cut, says
\* exactly whether the mover's king is attacked once the move is on the board
\* (is_legal_pseudo_move).
LegalMeansSafe ==
    \A m \in PseudoLegal(board) :
        IsLegalPseudoMove(board, m) <=> ~Exposed(Make(board, m).squares, board.turn)

\* gives_check, asked before the move is made, agrees with the board after it,
\* for direct, discovered, promotion, en passant and castling checks.
GivesCheckExact ==
    \A m \in LegalMoves(board) : GivesCheck(board, m) <=> IsCheck(Make(board, m))

\* The generator emits only pseudo-legal moves, misses no legal one, and no
\* move twice; the two halves the picker loads separately, noisy and quiet,
\* are exactly the captures with the promotions, and the rest.
GeneratorComplete ==
    LET mode   == IF IsCheck(board) THEN "Evasions" ELSE "NonEvasions"
        groups == Groups(board, mode)
        pseudo == PseudoLegal(board)
        noisy(m) == m.type = MOVE_PROM \/ CapturedType(board, m) # NO_PIECETYPE
        all    == Moves(board, mode)
    IN  /\ all \subseteq pseudo
        /\ Playable(board) \subseteq all
        /\ \A i, j \in DOMAIN groups : i # j => groups[i] \intersect groups[j] = {}
        /\ ~IsCheck(board) =>
             /\ Moves(board, "Noisy") = {m \in all : noisy(m)}
             /\ Moves(board, "Quiet") = {m \in all : ~noisy(m)}

\* A position written as a FEN and loaded again is the same position: every
\* copy of the pieces, the side, the ply, the clock, the rights, both en
\* passant targets, the caches, the terms and the key that make kept, although
\* load_fen computes them from nothing (to_fen, load_fen).  A null move does
\* not count as a ply, and to_fen is not used below one.
ReloadsSame ==
    LET reloaded == Load(Parsed(ToFen(board)))
        still(s) == [s EXCEPT !.move = NULL_MOVE, !.captured = NO_PIECETYPE]
        nulls == {i \in 2..Len(board.states) : board.states[i].move = NULL_MOVE}
    IN  nulls = {} => reloaded = [board EXCEPT !.states = <<still(Top(board))>>]

\* Two legal moves never have the same text (append_disambiguation).
SanIsUnique ==
    Cardinality({San(board, m) : m \in LegalMoves(board)}) = Cardinality(LegalMoves(board))

\* What the code says of a move without playing it, what it generates and how
\* it names moves are what the rules of chess say.
RulesAreExact == LegalMeansSafe /\ GivesCheckExact /\ GeneratorComplete /\ SanIsUnique

\* The draw test agrees with the whole history: the fifty-move count, or the
\* position occurred once since the search root or twice in the game, although
\* the code looks only at every second state of the reversible part and at
\* keys (is_draw).
DrawsMatchHistory ==
    LET current == Len(board.states)
        earlier == {i \in 1..(current - 1) : board.states[i].zkey = Top(board).zkey}
    IN  \A rootPly \in 0..Plies :
          IsDraw(board, rootPly) <=>
            \/ Top(board).clock >= FiftyMoveHalfmoves
            \/ \E i \in earlier : rootPly > 0 /\ i > current - rootPly
            \/ Cardinality(earlier) >= 2

\* A game that has reached the fifty-move draw stays
\* drawn until a pawn moves or a piece is taken ("Detects fifty-move and
\* repetition draws", board_rules.cpp).
FiftyMovesStand ==
    [][ /\ Len(board'.states) > Len(board.states)
        /\ Top(board).clock >= FiftyMoveHalfmoves
        /\ TypeOn(board, Top(board').move.from) # PAWN
        /\ Top(board').captured = NO_PIECETYPE
        => IsDraw(board', 0) ]_vars
=============================================================================
