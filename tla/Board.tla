------------------------------- MODULE Board --------------------------------
(***************************************************************************)
(* The mutable chess position: redundant piece storage, the stack of ply   *)
(* states, make and unmake, the rules.  A board is a record and every      *)
(* member function an operator on it, so that the generator, the exchange  *)
(* evaluation, the notation and the game all use the same definitions.     *)
(*   squares  where the pieces are: square -> <<colour, type>>             *)
(*   bb       the bitboards, slot AllSlot the aggregate of a colour        *)
(*   count, king, turn, ply (the absolute game ply), terms, states         *)
(* A Zobrist key is the set of the features hashed into it, XOR is the     *)
(* symmetric difference: two keys are equal when the features are, which   *)
(* leaves accidental collisions of 64-bit keys out.                        *)
(* Sources: board/board.hpp, board_move.cpp, board_representation.cpp,     *)
(* board_rules.cpp, board_fen.cpp, ply_state.hpp, zobrist.hpp.             *)
(***************************************************************************)
EXTENDS Geometry, TLC
LOCAL INSTANCE FiniteSetsExt

BASIC_MOVE == 0
MOVE_PROM == 1
MOVE_EP == 2
MOVE_CASTLE == 3
Promotions == {KNIGHT, BISHOP, ROOK, QUEEN}

\* The fields packed into 16 bits; all bits zero is the null move.
Move(from, to, type, prom) == [from |-> from, to |-> to, type |-> type, prom |-> prom]
Basic(from, to) == Move(from, to, BASIC_MOVE, KNIGHT)
NULL_MOVE == Basic(0, 0)

NO_PIECETYPE == 0
NO_PIECE == <<BLACK, NO_PIECETYPE>>

FiftyMoveHalfmoves == 100

\* XOR of keys.
Xor(key, features) == (key \ features) \union (features \ key)
HashPiece(c, t, sq) == {<<"piece", c, t, sq>>}
HashTurn == {<<"turn">>}
HashEp(sq) == {<<"ep", File(sq)>>}
HashCastle(rights) == {<<"castle", r>> : r \in rights}

\* piece_values and the piece-square tables: the material is the tuned
\* midgame value, the placement bonus any numbers that tell squares apart.
MaterialOf(t) == CASE t = PAWN -> 100 [] t = KNIGHT -> 630 [] t = BISHOP -> 660
                   [] t = ROOK -> 1000 [] t = QUEEN -> 2000 [] OTHER -> 0
SignOf(c) == IF c = WHITE THEN 1 ELSE -1
BonusOf(c, t, sq) == SignOf(c) * t * (Square(File(sq), RelativeRank(sq, c)) + 1)

\* A king with no entry in any table, and the state of an empty board.
ZeroTerms == [material |-> 0, bonus |-> 0]
EmptyState == [checkers |-> {}, blockers |-> [c \in Colors |-> {}], zkey |-> {},
               rights |-> {}, ep |-> INVALID, legalEp |-> INVALID, clock |-> 0,
               move |-> NULL_MOVE, captured |-> NO_PIECETYPE]
EmptyBoard == [squares |-> << >>,
               bb |-> [c \in Colors |-> [t \in 0..KING |-> {}]],
               count |-> [c \in Colors |-> [t \in 0..KING |-> 0]],
               king |-> [c \in Colors |-> INVALID],
               turn |-> WHITE, ply |-> 0, terms |-> ZeroTerms, states |-> <<EmptyState>>]

-----------------------------------------------------------------------------
(* Queries.                                                                  *)

Top(b) == b.states[Len(b.states)]
WithTop(b, s) == [b EXCEPT !.states[Len(b.states)] = s]

PieceOn(b, sq) == IF sq \in DOMAIN b.squares THEN b.squares[sq] ELSE NO_PIECE
TypeOn(b, sq) == PieceOn(b, sq)[2]
Occupancy(b) == b.bb[WHITE][AllSlot] \union b.bb[BLACK][AllSlot]
Of(b, c, types) == UNION {b.bb[c][t] : t \in types}
IsCheck(b) == Top(b).checkers # {}

AttacksTo(b, target, attacker, occupied) ==
    (b.bb[attacker][PAWN] \intersect PawnAttacks(target, Other(attacker)))
    \union (b.bb[attacker][KNIGHT] \intersect KnightMoves[target])
    \union (b.bb[attacker][KING] \intersect KingMoves[target])
    \union (Of(b, attacker, {BISHOP, QUEEN}) \intersect BishopMoves(target, occupied))
    \union (Of(b, attacker, {ROOK, QUEEN}) \intersect RookMoves(target, occupied))

AllAttackersTo(b, target, occupied) == UNION {AttacksTo(b, target, c, occupied) : c \in Colors}

AnyAttacked(b, targets, attacker) ==
    \E sq \in targets : AttacksTo(b, sq, attacker, Occupancy(b)) # {}

HasRight(b, side, c) == <<side, c>> \in Top(b).rights
HasRights(b, c) == \E side \in Sides : HasRight(b, side, c)

CapturedType(b, m) == IF m.type = MOVE_EP THEN PAWN ELSE TypeOn(b, m.to)

-----------------------------------------------------------------------------
(* Piece storage: each operation updates every redundant copy, and the key   *)
(* when hash says so.                                                        *)

Rehash(b, hash, features) ==
    IF hash THEN WithTop(b, [Top(b) EXCEPT !.zkey = Xor(@, features)]) ELSE b

Put(squares, sq, c, t) ==
    [s \in DOMAIN squares \union {sq} |-> IF s = sq THEN <<c, t>> ELSE squares[s]]
Drop(squares, sq) == [s \in DOMAIN squares \ {sq} |-> squares[s]]
WithBit(bb, sq, c, t) == [bb EXCEPT ![c][t] = @ \union {sq}, ![c][AllSlot] = @ \union {sq}]
WithoutBit(bb, sq, c, t) == [bb EXCEPT ![c][t] = @ \ {sq}, ![c][AllSlot] = @ \ {sq}]
CountedBy(count, c, t, n) == [count EXCEPT ![c][t] = @ + n]
Scored(terms, c, t, sq, n) ==
    [material |-> terms.material + n * SignOf(c) * MaterialOf(t),
     bonus |-> terms.bonus + n * BonusOf(c, t, sq)]
ScoredMove(terms, from, to, c, t) ==
    [terms EXCEPT !.bonus = @ + BonusOf(c, t, to) - BonusOf(c, t, from)]

AddPiece(b, sq, c, t, hash) ==
    Rehash([b EXCEPT !.squares = Put(@, sq, c, t), !.bb = WithBit(@, sq, c, t),
                     !.count = CountedBy(@, c, t, 1), !.terms = Scored(@, c, t, sq, 1)],
           hash, HashPiece(c, t, sq))

RemovePiece(b, sq, c, t, hash) ==
    Rehash([b EXCEPT !.squares = Drop(@, sq), !.bb = WithoutBit(@, sq, c, t),
                     !.count = CountedBy(@, c, t, -1), !.terms = Scored(@, c, t, sq, -1)],
           hash, HashPiece(c, t, sq))

MovePiece(b, from, to, c, t, hash) ==
    Rehash([b EXCEPT !.squares = Put(Drop(@, from), to, c, t),
                     !.bb = WithBit(WithoutBit(@, from, c, t), to, c, t),
                     !.terms = ScoredMove(@, from, to, c, t)],
           hash, Xor(HashPiece(c, t, from), HashPiece(c, t, to)))

\* The next state of the stack: the key and the rights are carried over, the
\* clock is a byte, the en passant squares start empty.
PushPlyState(b, m) ==
    [b EXCEPT !.states = Append(@, [EmptyState EXCEPT !.zkey = Top(b).zkey,
        !.rights = Top(b).rights, !.clock = (Top(b).clock + 1) % 256, !.move = m])]

PopPlyState(b) == [b EXCEPT !.states = SubSeq(@, 1, Len(@) - 1)]

ClearRights(b, rights) ==
    LET held == Top(b).rights \intersect rights IN
    WithTop(b, [Top(b) EXCEPT !.rights = @ \ held, !.zkey = Xor(@, HashCastle(held))])

ClearCastlingRights(b, c) == ClearRights(b, Sides \X {c})
ClearRookCastlingRight(b, c, rookSquare) ==
    ClearRights(b, {<<side, c>> : side \in {s \in Sides : Castling(s, c).rook_from = rookSquare}})

-----------------------------------------------------------------------------
(* Derived caches.                                                           *)

\* Checkers of the side to move, and for each king the lone blockers between
\* it and an opposing slider.
RefreshTacticalCache(b) ==
    LET opponent == Other(b.turn)
        blockersOf(c) == SliderBlockers(b.king[c], Of(b, Other(c), {BISHOP, QUEEN}),
                                        Of(b, Other(c), {ROOK, QUEEN}), Occupancy(b))
    IN  WithTop(b, [Top(b) EXCEPT
          !.checkers = AttacksTo(b, b.king[b.turn], opponent, Occupancy(b)),
          !.blockers = [c \in Colors |-> blockersOf(c)]])

\* Seeded fault: the captured pawn still blocks the rank.
KingSafeAfterEnpassantBlocked(b, from, target) ==
    LET captured == EnpassantCaptured(target, b.turn)
        occupied == (Occupancy(b) \ {from}) \union {target}
    IN  AttacksTo(b, b.king[b.turn], Other(b.turn), occupied) \subseteq {captured}

\* Only the occupancy is simulated: the captured pawn is still in the
\* bitboards and has to be left out of the attackers.
KingSafeAfterEnpassant(b, from, target) ==
    LET captured == EnpassantCaptured(target, b.turn)
        occupied == ((Occupancy(b) \ {from}) \union {target}) \ {captured}
    IN  AttacksTo(b, b.king[b.turn], Other(b.turn), occupied) \subseteq {captured}

\* The target counts only if a pawn of the side to move can take there legally.
LegalEnpassantTarget(b) ==
    LET target == Top(b).ep IN
    IF /\ target # INVALID
       /\ PieceOn(b, target) = NO_PIECE
       /\ PieceOn(b, EnpassantCaptured(target, b.turn)) = <<Other(b.turn), PAWN>>
       /\ \E from \in b.bb[b.turn][PAWN] \intersect PawnAttacks(target, Other(b.turn)) :
             KingSafeAfterEnpassant(b, from, target)
    THEN target ELSE INVALID

RefreshLegalEnpassantTarget(b) == WithTop(b, [Top(b) EXCEPT !.legalEp = LegalEnpassantTarget(b)])

EpKey(sq) == IF sq = INVALID THEN {} ELSE HashEp(sq)
KeyTarget(b) == Rehash(b, TRUE, EpKey(Top(b).legalEp))

-----------------------------------------------------------------------------
(* make, unmake and the null move.                                           *)

\* The captured piece leaves, from its own square when en passant.
Capture(b, m, c, captured) ==
    LET at == IF m.type = MOVE_EP THEN EnpassantCaptured(m.to, Other(c)) ELSE m.to
        cleared == WithTop(b, [Top(b) EXCEPT !.captured = captured, !.clock = 0])
        removed == RemovePiece(cleared, at, c, captured, TRUE)
    IN  IF captured = NO_PIECETYPE THEN b
        ELSE IF captured = ROOK THEN ClearRookCastlingRight(removed, c, at) ELSE removed

\* What the kind of the moved piece adds: clock, en passant target,
\* promotion, king square, castling rights.
AfterMove(b, m, c, type) ==
    LET reset == WithTop(b, [Top(b) EXCEPT !.clock = 0]) IN
    CASE type = PAWN /\ Abs(m.to - m.from) = DOUBLE_PUSH ->
            WithTop(reset, [Top(reset) EXCEPT !.ep = EnpassantTarget(m.to, c)])
      [] type = PAWN /\ Abs(m.to - m.from) # DOUBLE_PUSH /\ m.type = MOVE_PROM ->
            AddPiece(RemovePiece(reset, m.to, c, PAWN, TRUE), m.to, c, m.prom, TRUE)
      [] type = PAWN /\ Abs(m.to - m.from) # DOUBLE_PUSH /\ m.type # MOVE_PROM -> reset
      [] type = KING -> ClearCastlingRights([b EXCEPT !.king[c] = m.to], c)
      [] type = ROOK -> ClearRookCastlingRight(b, c, m.from)
      [] OTHER -> b

\* Seeded fault: taking castling back leaves the rook where it went.
CastleRookStays(b, m, c, back, hash) ==
    LET g == Castling(CastleSide(m.from, m.to), c) IN
    IF m.type # MOVE_CASTLE \/ back THEN b ELSE MovePiece(b, g.rook_from, g.rook_to, c, ROOK, hash)

\* The rook's half of castling, there or back.
CastleRook(b, m, c, back, hash) ==
    LET g == Castling(CastleSide(m.from, m.to), c) IN
    IF m.type # MOVE_CASTLE THEN b
    ELSE IF back THEN MovePiece(b, g.rook_to, g.rook_from, c, ROOK, hash)
                 ELSE MovePiece(b, g.rook_from, g.rook_to, c, ROOK, hash)

Make(b, m) ==
    LET mover    == b.turn
        type     == TypeOn(b, m.from)
        pushed   == [PushPlyState(b, m) EXCEPT !.ply = @ + 1]
        taken    == Capture(pushed, m, Other(mover), CapturedType(b, m))
        unkeyed  == Rehash(taken, TRUE, EpKey(Top(b).legalEp))
        moved    == MovePiece(unkeyed, m.from, m.to, mover, type, TRUE)
        settled  == AfterMove(CastleRook(moved, m, mover, FALSE, TRUE), m, mover, type)
    IN  KeyTarget(RefreshLegalEnpassantTarget(RefreshTacticalCache(
            Rehash([settled EXCEPT !.turn = Other(mover)], TRUE, HashTurn))))

\* The moved piece is read from its destination; a promoted one was a pawn.
Unmake(b) ==
    LET m        == Top(b).move
        mover    == Other(b.turn)
        arrived  == TypeOn(b, m.to)
        type     == IF m.type = MOVE_PROM THEN PAWN ELSE arrived
        captured == Top(b).captured
        at       == IF m.type = MOVE_EP THEN EnpassantCaptured(m.to, mover) ELSE m.to
        popped   == [PopPlyState(b) EXCEPT !.ply = @ - 1, !.turn = mover]
        demoted  == IF m.type # MOVE_PROM THEN popped
                    ELSE AddPiece(RemovePiece(popped, m.to, mover, arrived, FALSE), m.to, mover, PAWN, FALSE)
        returned == CastleRook(MovePiece(demoted, m.to, m.from, mover, type, FALSE), m, mover, TRUE, FALSE)
        restored == IF m.type = MOVE_CASTLE \/ captured = NO_PIECETYPE THEN returned
                    ELSE AddPiece(returned, at, Other(mover), captured, FALSE)
    IN  IF type = KING THEN [restored EXCEPT !.king[mover] = m.from] ELSE restored

MakeNull(b) ==
    LET pushed == PushPlyState(b, NULL_MOVE)
        turned == Rehash([pushed EXCEPT !.turn = Other(@)], TRUE, Xor(HashTurn, EpKey(Top(b).legalEp)))
    IN  RefreshTacticalCache(turned)

UnmakeNull(b) == [PopPlyState(b) EXCEPT !.turn = Other(@)]

-----------------------------------------------------------------------------
(* Rules.                                                                    *)

PseudoLegalPawn(b, m) ==
    LET step == m.to - m.from
        free == PieceOn(b, m.to) = NO_PIECE
    IN  CASE step = Forward(b.turn) -> free
          [] step = 2 * Forward(b.turn) /\ m.type = BASIC_MOVE ->
                /\ RelativeRank(m.from, b.turn) = 1
                /\ free
                /\ PieceOn(b, m.from + Forward(b.turn)) = NO_PIECE
          [] OTHER -> m.to \in PawnAttacks(m.from, b.turn) /\ ~free

IsPseudoLegal(b, m) ==
    LET source == PieceOn(b, m.from)
        type   == source[2]
    IN  /\ m # NULL_MOVE
        /\ m.from # m.to
        /\ source # NO_PIECE /\ source[1] = b.turn
        /\ PieceOn(b, m.to) = NO_PIECE \/ PieceOn(b, m.to)[1] # b.turn
        /\ CASE m.type = BASIC_MOVE /\ type = PAWN ->
                  RelativeRank(m.to, b.turn) # 7 /\ PseudoLegalPawn(b, m)
             [] m.type = BASIC_MOVE /\ type # PAWN -> m.to \in PieceMoves(m.from, type, Occupancy(b))
             [] m.type = MOVE_PROM ->
                  /\ type = PAWN
                  /\ m.prom \in Promotions
                  /\ RelativeRank(m.from, b.turn) = 6 /\ RelativeRank(m.to, b.turn) = 7
                  /\ PseudoLegalPawn(b, m)
             [] m.type = MOVE_EP ->
                  /\ type = PAWN
                  /\ m.to = Top(b).ep
                  /\ PieceOn(b, m.to) = NO_PIECE
                  /\ m.to \in PawnAttacks(m.from, b.turn)
                  /\ PieceOn(b, EnpassantCaptured(m.to, b.turn)) = <<Other(b.turn), PAWN>>
             [] m.type = MOVE_CASTLE ->
                  LET side == CastleSide(m.from, m.to)
                      g    == Castling(side, b.turn)
                  IN  /\ type = KING
                      /\ m.from = g.king_from /\ m.to = g.king_to
                      /\ HasRight(b, side, b.turn)
                      /\ PieceOn(b, g.rook_from) = <<b.turn, ROOK>>
                      /\ Occupancy(b) \intersect g.empty_path = {}
                      /\ ~AnyAttacked(b, g.king_path, Other(b.turn))

KingSafeAfterMove(b, m) ==
    LET king     == b.king[b.turn]
        checkers == Top(b).checkers
    IN  CASE m.from = king /\ m.type = MOVE_CASTLE -> TRUE
          [] m.from = king /\ m.type # MOVE_CASTLE ->
               AttacksTo(b, m.to, Other(b.turn), (Occupancy(b) \ {m.from}) \union {m.to}) = {}
          [] m.from # king /\ m.type = MOVE_EP -> KingSafeAfterEnpassant(b, m.from, m.to)
          [] OTHER ->
               /\ Cardinality(checkers) <= 1
               /\ \A checker \in checkers : m.to \in {checker} \union Between(king, checker)
               /\ m.from \in Top(b).blockers[b.turn] => king \in Collinear(m.from, m.to)

\* A piece that is not the king, not pinned and not taking en passant needs no
\* test outside check.
IsLegalPseudoMove(b, m) ==
    \/ /\ ~IsCheck(b)
       /\ m.from # b.king[b.turn]
       /\ m.type # MOVE_EP
       /\ m.from \notin Top(b).blockers[b.turn]
    \/ KingSafeAfterMove(b, m)

IsLegalMove(b, m) == IsPseudoLegal(b, m) /\ IsLegalPseudoMove(b, m)

DirectCheckTargets(b, type) ==
    LET king == b.king[Other(b.turn)] IN
    CASE type = PAWN -> PawnAttacks(king, Other(b.turn))
      [] type = KING -> {}
      [] OTHER -> PieceMoves(king, type, Occupancy(b))

\* The pawn has left its square when the promoted piece looks back along it.
PromotionCheck(b, m) ==
    /\ m.type = MOVE_PROM
    /\ b.king[Other(b.turn)] \in PieceMoves(m.to, m.prom, Occupancy(b) \ {m.from})

GivesCheck(b, m) ==
    LET king == b.king[Other(b.turn)]
        occ  == Occupancy(b)
        g    == Castling(CastleSide(m.from, m.to), b.turn)
        after == (occ \ {m.from}) \union {m.to}
        afterEp == after \ {EnpassantCaptured(m.to, b.turn)}
    IN  \/ m.to \in DirectCheckTargets(b, TypeOn(b, m.from))
        \/ m.from \in Top(b).blockers[Other(b.turn)] /\ king \notin Collinear(m.from, m.to)
        \/ PromotionCheck(b, m)
        \/ m.type = MOVE_EP /\ \/ Of(b, b.turn, {BISHOP, QUEEN}) \intersect BishopMoves(king, afterEp) # {}
                               \/ Of(b, b.turn, {ROOK, QUEEN}) \intersect RookMoves(king, afterEp) # {}
        \/ m.type = MOVE_CASTLE /\
             king \in RookMoves(g.rook_to, (after \ {g.rook_from}) \union {g.rook_to})

FiftyMoves(b) == Top(b).clock >= FiftyMoveHalfmoves

\* Seeded fault: a repetition of the root itself counts as one inside the tree.
IsDrawAtRoot(b, rootPly) ==
    LET current == Len(b.states)
        window  == IF Top(b).clock < current - 1 THEN Top(b).clock ELSE current - 1
        same    == {back \in 2..window : back % 2 = 0 /\ b.states[current - back].zkey = Top(b).zkey}
    IN  \/ FiftyMoves(b)
        \/ \E back \in same : back <= rootPly
        \/ Cardinality(same) >= 2

\* Fifty moves, then repetition inside the reversible part of the history:
\* once strictly after the search root, twice otherwise.
IsDraw(b, rootPly) ==
    LET current == Len(b.states)
        window  == IF Top(b).clock < current - 1 THEN Top(b).clock ELSE current - 1
        same    == {back \in 2..window : back % 2 = 0 /\ b.states[current - back].zkey = Top(b).zkey}
    IN  \/ FiftyMoves(b)
        \/ \E back \in same : back < rootPly
        \/ Cardinality(same) >= 2

-----------------------------------------------------------------------------
(* From scratch: what the incremental values are compared with, and loading. *)

PieceKey(squares) == UNION {HashPiece(squares[sq][1], squares[sq][2], sq) : sq \in DOMAIN squares}
TurnKey(turn) == IF turn = BLACK THEN HashTurn ELSE {}
KeyOf(squares, turn, rights, target) ==
    PieceKey(squares) \union TurnKey(turn) \union HashCastle(rights) \union EpKey(target)

RecomputeKey(b) == KeyOf(b.squares, b.turn, Top(b).rights, Top(b).legalEp)

RecomputeBaseTerms(b) ==
    [material |-> MapThenSumSet(LAMBDA sq : SignOf(b.squares[sq][1]) * MaterialOf(b.squares[sq][2]), DOMAIN b.squares),
     bonus |-> MapThenSumSet(LAMBDA sq : BonusOf(b.squares[sq][1], b.squares[sq][2], sq), DOMAIN b.squares)]

\* load_fen after parsing: p has squares (square -> <<colour, type>>), turn,
\* rights, ep, clock and ply.
PlacePiece(b, sq, p) ==
    LET added == AddPiece(b, sq, p[1], p[2], FALSE) IN
    IF p[2] = KING THEN [added EXCEPT !.king[p[1]] = sq] ELSE added

Load(p) ==
    LET placed == FoldSet(LAMBDA sq, b : PlacePiece(b, sq, p.squares[sq]),
                          EmptyBoard, DOMAIN p.squares)
        ruled  == WithTop([placed EXCEPT !.turn = p.turn, !.ply = p.ply],
                          [Top(placed) EXCEPT !.rights = p.rights, !.ep = p.ep, !.clock = p.clock])
        cached == RefreshLegalEnpassantTarget(RefreshTacticalCache(ruled))
    IN  WithTop(cached, [Top(cached) EXCEPT !.zkey = RecomputeKey(cached)])

\* Seeded fault: only a target that can be taken on is written.
ToFenLegal(b) ==
    [squares |-> b.squares, turn |-> b.turn, rights |-> Top(b).rights, ep |-> Top(b).legalEp,
     clock |-> Top(b).clock, number |-> b.ply \div 2 + 1]

\* to_fen, field by field, and the parser's way back to a ply (the text of the
\* fields is module Fen's).
ToFen(b) ==
    [squares |-> b.squares, turn |-> b.turn, rights |-> Top(b).rights, ep |-> Top(b).ep,
     clock |-> Top(b).clock, number |-> b.ply \div 2 + 1]

Parsed(f) ==
    [squares |-> f.squares, turn |-> f.turn, rights |-> f.rights, ep |-> f.ep, clock |-> f.clock,
     ply |-> 2 * (f.number - 1) + (IF f.turn = WHITE THEN 0 ELSE 1)]

=============================================================================
