----------------------------- MODULE Generator ------------------------------
(***************************************************************************)
(* The pseudo-legal move generator and what is built on it: perft and SAN. *)
(* Generation is the sequence of emission groups in the order of run();    *)
(* inside a group the front-to-back order of the squares is left out.      *)
(* Sources: movegen/generator.hpp, movegen/perft.cpp, board/notation.cpp.  *)
(***************************************************************************)
EXTENDS Board
LOCAL INSTANCE SequencesExt

Modes == {"NonEvasions", "Noisy", "Evasions", "Quiet"}

\* Destinations of the pieces that are not the king.  Against a double check
\* only the king moves, so Evasions is asked with a single checker.
ModeTargets(b, mode) ==
    LET own == b.bb[b.turn][AllSlot]
        enemy == b.bb[Other(b.turn)][AllSlot]
        checkers == Top(b).checkers
    IN  CASE mode = "NonEvasions" -> Squares \ own
          [] mode = "Noisy" -> enemy
          [] mode = "Evasions" ->
               checkers \union UNION {Between(checker, b.king[b.turn]) : checker \in checkers}
          [] mode = "Quiet" -> Squares \ (own \union enemy)

PieceGroup(b, type, targets) ==
    UNION {{Basic(from, to) : to \in PieceMoves(from, type, Occupancy(b)) \intersect targets} :
             from \in b.bb[b.turn][type]}

\* Pawn moves are found from their destinations, the source by stepping back.
PawnSource(b, to, delta) == to - PawnStep(delta, b.turn)
PawnGroup(b, delta, destinations) == {Basic(PawnSource(b, to, delta), to) : to \in destinations}
PromotionGroup(b, delta, destinations) ==
    {Move(PawnSource(b, to, delta), to, MOVE_PROM, p) : to \in destinations, p \in Promotions}
EnpassantGroup(b, delta, pawns, target) ==
    {Move(PawnSource(b, to, delta), to, MOVE_EP, KNIGHT) :
        to \in PawnShift(delta, b.turn, pawns) \intersect {target}}

\* Seeded fault: the evasion must land on a target square, so taking a
\* checking pawn en passant is lost.
EnpassantAllowedLanding(b, mode, targets) ==
    LET target == Top(b).legalEp IN
    /\ target # INVALID
    /\ mode = "Evasions" => target \in targets

\* An evasion must capture the checker, on its square or en passant, or land
\* between.
EnpassantAllowed(b, mode, targets) ==
    LET target == Top(b).legalEp IN
    /\ target # INVALID
    /\ mode = "Evasions" => {target, EnpassantCaptured(target, b.turn)} \intersect targets # {}

PawnGroups(b, mode, targets) ==
    LET us        == b.turn
        evading   == mode = "Evasions"
        enemies   == b.bb[Other(us)][AllSlot] \intersect (IF evading THEN targets ELSE Squares)
        promoting == {p \in b.bb[us][PAWN] : RelativeRank(p, us) = 6}
        normal    == b.bb[us][PAWN] \ promoting
        free      == Squares \ Occupancy(b)
        landing   == IF evading THEN free \intersect targets ELSE free
        single    == PawnShift(PUSH, us, normal) \intersect free
        double    == PawnShift(PUSH, us, {s \in single : RelativeRank(s, us) = 2})
        noisy     == << PromotionGroup(b, PUSH, PawnShift(PUSH, us, promoting) \intersect landing),
                        PromotionGroup(b, LEFT, PawnShift(LEFT, us, promoting) \intersect enemies),
                        PromotionGroup(b, RIGHT, PawnShift(RIGHT, us, promoting) \intersect enemies),
                        PawnGroup(b, LEFT, PawnShift(LEFT, us, normal) \intersect enemies),
                        PawnGroup(b, RIGHT, PawnShift(RIGHT, us, normal) \intersect enemies) >>
                     \o IF EnpassantAllowed(b, mode, targets)
                        THEN << EnpassantGroup(b, LEFT, normal, Top(b).legalEp),
                                EnpassantGroup(b, RIGHT, normal, Top(b).legalEp) >>
                        ELSE << >>
        quiet     == << PawnGroup(b, DOUBLE_PUSH, double \intersect landing),
                        PawnGroup(b, PUSH, single \intersect landing) >>
    IN  (IF mode = "Quiet" THEN << >> ELSE noisy) \o (IF mode = "Noisy" THEN << >> ELSE quiet)

\* Rights are checked by the caller; only the paths are looked at.
CanCastle(b, side) ==
    LET g == Castling(side, b.turn) IN
    /\ Occupancy(b) \intersect g.empty_path = {}
    /\ ~AnyAttacked(b, g.king_path, Other(b.turn))

KingGroups(b, mode, targets) ==
    LET king == b.king[b.turn]
        castle(side) == {Move(Castling(side, b.turn).king_from, Castling(side, b.turn).king_to,
                              MOVE_CASTLE, KNIGHT) :
                           s \in {s \in {side} : HasRight(b, s, b.turn) /\ CanCastle(b, s)}}
    IN  << {Basic(king, to) : to \in KingMoves[king] \intersect targets} >>
        \o IF mode \in {"NonEvasions", "Quiet"} THEN << castle(KINGSIDE), castle(QUEENSIDE) >>
                                                ELSE << >>

Groups(b, mode) ==
    LET double  == Cardinality(Top(b).checkers) > 1
        targets == ModeTargets(b, mode)
        pieces  == [i \in 1..4 |-> PieceGroup(b, KNIGHT + i - 1, targets)]
                     \o PawnGroups(b, mode, targets)
    IN  IF mode = "Evasions"
        THEN (IF double THEN << >> ELSE pieces) \o KingGroups(b, mode, Squares \ b.bb[b.turn][AllSlot])
        ELSE pieces \o KingGroups(b, mode, targets)

Moves(b, mode) == UNION ToSet(Groups(b, mode))

PseudoLegalMoves(b) == Moves(b, IF IsCheck(b) THEN "Evasions" ELSE "NonEvasions")
LegalMoves(b) == {m \in PseudoLegalMoves(b) : IsLegalPseudoMove(b, m)}

-----------------------------------------------------------------------------
(* Standard algebraic notation: the text as the tuple of its parts.          *)

\* The other pieces of the kind that could go to the same square.
Rivals(b, m) ==
    {sq \in AttacksTo(b, m.to, b.turn, Occupancy(b)) \ {m.from} :
        TypeOn(b, sq) = TypeOn(b, m.from) /\ IsLegalMove(b, Basic(sq, m.to))}

\* The file if it tells the rivals apart, else the rank, else both.
Disambiguation(b, m) ==
    LET rivals   == Rivals(b, m)
        sameFile == \E sq \in rivals : File(sq) = File(m.from)
        sameRank == \E sq \in rivals : Rank(sq) = Rank(m.from)
    IN  CASE rivals = {} -> << >>
          [] rivals # {} /\ ~sameFile -> <<"file", File(m.from)>>
          [] rivals # {} /\ sameFile /\ ~sameRank -> <<"rank", Rank(m.from)>>
          [] OTHER -> <<"square", m.from>>

\* Castling is written without squares, a pawn capture with the file it left.
San(b, m) ==
    LET type   == TypeOn(b, m.from)
        next   == Make(b, m)
        takes  == CapturedType(b, m) # NO_PIECETYPE
        prefix == CASE type = PAWN /\ takes -> <<"file", File(m.from)>>
                    [] type = PAWN /\ ~takes -> << >>
                    [] OTHER -> Disambiguation(b, m)
        suffix == IF ~GivesCheck(b, m) THEN "" ELSE IF LegalMoves(next) = {} THEN "#" ELSE "+"
    IN  IF m.type = MOVE_CASTLE
        THEN [castle |-> CastleSide(m.from, m.to), suffix |-> suffix]
        ELSE [piece |-> type, prefix |-> prefix, takes |-> takes, to |-> m.to,
              prom |-> IF m.type = MOVE_PROM THEN m.prom ELSE NO_PIECETYPE, suffix |-> suffix]

=============================================================================
