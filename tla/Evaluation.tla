------------------------------ MODULE Evaluation -----------------------------
(***************************************************************************)
(* The static evaluation: an object that is filled term by term.  Most     *)
(* terms score one colour and leave behind what the king, mobility and     *)
(* threat terms read later.  Every statement of evaluate_impl subtracts    *)
(* Black's half of a term from White's, and C++ does not say which half is *)
(* evaluated first: a step is one half, in either order.                   *)
(* The piece-square part is any bonus that tells squares apart, and the    *)
(* base terms have one value for both phases (module Board).               *)
(* Sources: eval/evaluation.cpp, evaluator.hpp, evaluator_detail.hpp,      *)
(* trace.cpp, core/bitboard.hpp.                                           *)
(***************************************************************************)
EXTENDS Board, Weights
LOCAL INSTANCE SequencesExt
LOCAL INSTANCE FiniteSetsExt

CONSTANT Cases   \* the loaded boards

VARIABLES
    board,
    data,       \* the evaluator: attacks, king attackers, mobility and threats
    term,       \* index of the term that is evaluated
    pending,    \* the colours whose half of it is still to come
    trace,      \* the terms, each with its score by colour
    score,      \* the sum of the finished terms
    value       \* what evaluate() returns, tapered and seen from the side to move

vars == <<board, data, term, pending, trace, score, value>>

Terms == <<"Material", "Squares", "Pawns", "Knights", "Bishops", "Rooks", "Queens",
           "King", "Mobility", "Threats">>
WholeTerms == {"Material", "Squares"}
TermIndex(name) == CHOOSE i \in DOMAIN Terms : Terms[i] = name
PieceTerm == "Knights" :> KNIGHT @@ "Bishops" :> BISHOP @@ "Rooks" :> ROOK @@ "Queens" :> QUEEN

-----------------------------------------------------------------------------
(* Fills and spans of bitboards.                                             *)

Shifted(S, step) == {sq + step : sq \in S} \intersect Squares

\* fill_north (8) and fill_south (-8), in three doublings.
Filled(S, step) ==
    LET two  == S \union Shifted(S, step)
        four == two \union Shifted(two, 2 * step)
    IN  four \union Shifted(four, 4 * step)

ShiftEast(S) == {sq \in Shifted(S, 1) : File(sq) # 0}
ShiftWest(S) == {sq \in Shifted(S, -1) : File(sq) # 7}
SpanFront(S, c) == Shifted(Filled(S, Forward(c)), Forward(c))
AttackSpan(S, c) == ShiftWest(SpanFront(S, c)) \union ShiftEast(SpanFront(S, c))
FullSpan(S, c) == AttackSpan(S, c) \union SpanFront(S, c)

OnFile(file) == {sq \in Squares : File(sq) = file}
OnRank(rank) == {sq \in Squares : Rank(sq) = rank}
Clamp(n, low, high) == IF n < low THEN low ELSE IF n > high THEN high ELSE n
Count(S) == Cardinality(S)

\* The square nearest to colour c's opponent.
Frontmost(S, c) == IF c = WHITE THEN Max(S) ELSE Min(S)

-----------------------------------------------------------------------------
(* Zones, and the constructor.                                               *)

Pawns(b, c) == b.bb[c][PAWN]
AllPawnAttacks(b, c) == PawnShift(LEFT, c, Pawns(b, c)) \union PawnShift(RIGHT, c, Pawns(b, c))
SteppedBack(S, c) == PawnShift(PUSH, Other(c), S)

\* Squares that no opposing pawn can come to attack, guarded by a pawn.
OutpostsZone(b, c) ==
    (AllPawnAttacks(b, c) \intersect OutpostRanks(c)) \ AttackSpan(Pawns(b, Other(c)), Other(c))

\* What counts for mobility: not attacked by a pawn, not the king's square and
\* not that of a pawn at home.
MobilityZone(b, c) ==
    (Squares \ AllPawnAttacks(b, Other(c)))
      \ ({b.king[c]} \union {sq \in Pawns(b, c) : RelativeRank(sq, c) = 1})

\* Nine squares around the king, moved inwards at the edge.
KingZone(b, c) ==
    LET center == Square(Clamp(File(b.king[c]), 1, 6), Clamp(Rank(b.king[c]), 1, 6)) IN
    KingMoves[center] \union {center}

\* update_attacks: a square attacked before is now attacked twice.
Merged(e, c, t, moves) ==
    [e EXCEPT !.by2[c] = @ \union (e.by[c][AllSlot] \intersect moves),
              !.by[c][AllSlot] = @ \union moves,
              !.by[c][t] = @ \union moves]

Fresh(b) ==
    LET none == [by |-> [c \in Colors |-> [t \in 0..KING |-> {}]], by2 |-> [c \in Colors |-> {}],
                 count |-> [c \in Colors |-> 0], danger |-> [c \in Colors |-> 0],
                 mobility |-> [c \in Colors |-> Zero], threats |-> [c \in Colors |-> Zero]]
    IN  Merged(Merged(none, WHITE, KING, KingMoves[b.king[WHITE]]), BLACK, KING, KingMoves[b.king[BLACK]])

-----------------------------------------------------------------------------
(* Pawns.                                                                    *)

Isolated(pawns) ==
    LET files == Filled(pawns, 8) \union Filled(pawns, -8) IN
    (pawns \ ShiftWest(files)) \intersect (pawns \ ShiftEast(files))

Backward(b, c) ==
    LET stops  == PawnShift(PUSH, c, Pawns(b, c))
        unsafe == (stops \intersect AllPawnAttacks(b, Other(c))) \ AttackSpan(Pawns(b, c), c)
    IN  SteppedBack(unsafe, c) \ Isolated(Pawns(b, c))

Doubled(b, c) == (Pawns(b, c) \intersect SpanFront(Pawns(b, c), c)) \ AllPawnAttacks(b, c)

Passed(b, c) == Pawns(b, c) \ FullSpan(Pawns(b, Other(c)), Other(c))

EvaluatePawns(b, e, c) ==
    LET left  == PawnShift(LEFT, c, Pawns(b, c))
        right == PawnShift(RIGHT, c, Pawns(b, c))
        twice == (left \intersect right) \union (e.by[c][AllSlot] \intersect (left \union right))
    IN  [data |-> [e EXCEPT !.by2[c] = @ \union twice,
                            !.by[c][AllSlot] = @ \union left \union right,
                            !.by[c][PAWN] = @ \union left \union right],
         score |-> Plus(Total(<<Times(IsoPawn, Count(Isolated(Pawns(b, c)))),
                                Times(BackwardPawn, Count(Backward(b, c))),
                                Times(DoubledPawn, Count(Doubled(b, c)))>>),
                        FoldSet(LAMBDA sq, sum : Plus(PassedPawn[RelativeRank(sq, c)], sum),
                                Zero, Passed(b, c)))]

-----------------------------------------------------------------------------
(* Pieces.                                                                   *)

\* Seeded fault: a pinned piece attacks as if it were free.
GetMovesUnpinned(b, c, t, sq) == PieceMoves(sq, t, Occupancy(b))

\* A pinned piece attacks along its pin only.
GetMoves(b, c, t, sq) ==
    LET moves == PieceMoves(sq, t, Occupancy(b)) IN
    IF sq \in Top(b).blockers[c] THEN moves \intersect Collinear(b.king[c], sq) ELSE moves

\* Outnumbered, or attacked by a pawn.
Weak(b, c, sq) ==
    LET attackers == AttacksTo(b, sq, Other(c), Occupancy(b)) IN
    \/ attackers \intersect Pawns(b, Other(c)) # {}
    \/ Count(attackers) > Count(AttacksTo(b, sq, c, Occupancy(b)))

Xray(b, c, t, sq) == PieceMoves(sq, t, Pawns(b, c))

MinorPiece(b, c, t, sq, moves) ==
    Plus(IF sq \in OutpostsZone(b, c) THEN Outpost[t]
         ELSE When(t = KNIGHT /\ moves \intersect OutpostsZone(b, c) # {}, ReachableOutpost),
         When(sq \in SteppedBack(Pawns(b, c), c), MinorPawnShield))

BlockedPawns(b, c) == Pawns(b, c) \intersect SteppedBack(Occupancy(b), c)

Bishops(b, c, sq) ==
    LET shade    == IF sq \in DarkSquares THEN DarkSquares ELSE LightSquares
        blocking == Count(BlockedPawns(b, c) \intersect CenterFiles)
                      + (IF sq \in AllPawnAttacks(b, c) THEN 0 ELSE 1)
    IN  Plus(When(Count(CenterSquares \intersect Xray(b, c, BISHOP, sq)) >= 2, BishopLongDiag),
             Times(BishopBlockers, Count(Pawns(b, c) \intersect shade) * blocking))

Rooks(b, c, sq) ==
    LET mine   == Pawns(b, c) \intersect OnFile(File(sq))
        theirs == Pawns(b, Other(c)) \intersect OnFile(File(sq))
    IN  IF mine = {} THEN RookOpenFile[theirs = {}]
        ELSE When(mine \intersect SteppedBack(Occupancy(b), c) # {}, RookClosedFile)

\* One piece alone between the queen and an opposing slider.
DiscoveryAttack(b, c, t, sq) ==
    \E attacker \in b.bb[Other(c)][t] \intersect PieceMoves(sq, t, {}) :
        Count(Between(sq, attacker) \intersect Occupancy(b)) = 1

Queens(b, c, sq) ==
    When(\E t \in {BISHOP, ROOK} : DiscoveryAttack(b, c, t, sq), QueenDiscoverAtt)

\* One turn of the scan in evaluate_pieces; r has the evaluator and the score.
EvaluateAttacks(b, r, c, t, sq, moves, zone) ==
    LET hits == moves \intersect zone # {} IN
    [data |-> [Merged(r.data, c, t, moves) EXCEPT
                 !.mobility[c] = Plus(@, Mobility[t][Count(moves \intersect MobilityZone(b, c))]),
                 !.threats[c] = Plus(@, When(Weak(b, c, sq), WeakPiece[t])),
                 !.count[Other(c)] = @ + (IF hits THEN 1 ELSE 0),
                 !.danger[Other(c)] = @ + (IF hits THEN KingzoneAttDanger[t] ELSE 0)],
     score |-> Total(<<r.score,
                       When(/\ ~hits /\ t \in {BISHOP, ROOK}
                            /\ Xray(b, c, t, sq) \intersect zone # {}, KingzoneXrayAtt),
                       IF t \in {KNIGHT, BISHOP} THEN MinorPiece(b, c, t, sq, moves) ELSE Zero,
                       IF t = BISHOP THEN Bishops(b, c, sq) ELSE Zero,
                       IF t = ROOK THEN Rooks(b, c, sq) ELSE Zero,
                       IF t = QUEEN THEN Queens(b, c, sq) ELSE Zero>>)]

EvaluatePiece(b, r, c, t, sq) ==
    EvaluateAttacks(b, r, c, t, sq, GetMoves(b, c, t, sq), KingZone(b, Other(c)))

\* The pieces from front to back.
Scan(S, c) == SetToSortSeq(S, LAMBDA x, y : IF c = WHITE THEN x > y ELSE x < y)

Raised(r, s) == [r EXCEPT !.score = Plus(@, s)]

EvaluatePieces(b, e, c, t) ==
    Raised(FoldLeft(LAMBDA r, sq : EvaluatePiece(b, r, c, t, sq),
                    [data |-> e, score |-> Zero], Scan(b.bb[c][t], c)),
           When(t = BISHOP /\ b.count[c][BISHOP] > 1, BishopPair))

-----------------------------------------------------------------------------
(* King safety.                                                              *)

ShelterFile(own, opposing, file, c) ==
    LET rankOf(S) == IF S = {} THEN 0 ELSE RelativeRank(Frontmost(S, Other(c)), c)
        rank      == rankOf(own \intersect OnFile(file))
        oppRank   == rankOf(opposing \intersect OnFile(file))
        blocked   == own \intersect OnFile(file) # {} /\ rank + 1 = oppRank
    IN  Plus(PawnShelter[rank], PawnStorm[blocked][oppRank])

\* Pawns in front of a king on that square, enemy pawns that storm it, and the
\* king's file.
Shelter(b, c, king) ==
    LET ahead    == SpanFront(OnRank(Rank(king)), c)
        own      == (Pawns(b, c) \intersect ahead) \ AllPawnAttacks(b, Other(c))
        opposing == Pawns(b, Other(c)) \intersect ahead
        file     == Clamp(File(king), 1, 6)
        open(p)  == p \intersect OnFile(File(king)) = {}
    IN  Total(<<ShelterFile(own, opposing, file - 1, c), ShelterFile(own, opposing, file, c),
                ShelterFile(own, opposing, file + 1, c), KingFile[File(king)],
                KingOpenFile[open(Pawns(b, c))][open(Pawns(b, Other(c)))]>>)

Better(best, allowed, other) == IF allowed /\ other[1] > best[1] THEN other ELSE best

\* The shelter the king has, or a better one it may still castle to.
BestShelter(b, c) ==
    LET home(side) == Home(IF side = KINGSIDE THEN 6 ELSE 2, c)
        better(best, side) ==
            Better(best, HasRight(b, side, c), Shelter(b, c, home(side)))
    IN  better(better(Shelter(b, c, b.king[c]), KINGSIDE), QUEENSIDE)

CheckDangerOf(t, safe, all) ==
    LET n == Count(IF safe # {} THEN safe ELSE all) IN Quot(CheckDanger[safe # {}][t] * n * 2, n + 1)

RawDanger(b, e, c) ==
    LET opp      == Other(c)
        king     == b.king[c]
        defended == e.by[c][AllSlot]
        weak     == (((Squares \ defended) \union e.by[c][QUEEN] \union e.by[c][KING])
                       \intersect e.by[opp][AllSlot]) \ e.by2[c]
        safe     == ((Squares \ defended) \union (weak \intersect e.by2[opp])) \ b.bb[opp][AllSlot]
        line     == RookMoves(king, Occupancy(b))
        diagonal == BishopMoves(king, Occupancy(b))
        knights  == KnightMoves[king] \intersect e.by[opp][KNIGHT]
        rooks    == line \intersect e.by[opp][ROOK]
        queens   == (line \union diagonal) \intersect e.by[opp][QUEEN]
        bishops  == diagonal \intersect e.by[opp][BISHOP]
    IN  CheckDangerOf(KNIGHT, knights \intersect safe, knights)
          + CheckDangerOf(ROOK, rooks \intersect safe, rooks)
          + CheckDangerOf(QUEEN, (queens \intersect safe) \ (rooks \union e.by[c][QUEEN]), queens)
          + CheckDangerOf(BISHOP, (bishops \intersect safe) \ queens, bishops)
          + e.danger[c] * e.count[c]
          + WeakKingzoneDanger * Count(KingZone(b, c) \intersect weak)
          + PinnedPieceDanger * Count(Top(b).blockers[c] \intersect b.bb[c][AllSlot])

Penalty(danger) == <<Quot(danger * danger, 2048), Quot(danger, 8)>>

KingSafety(b, e, c) == Minus(BestShelter(b, c), Penalty(RawDanger(b, e, c)))

-----------------------------------------------------------------------------
(* Terms, and the value.                                                     *)

WholeScore(b, name) ==
    LET v == IF name = "Material" THEN b.terms.material ELSE b.terms.bonus IN <<v, v>>

\* evaluate_term: what one half adds to the evaluator, and its score.
EvaluateTerm(b, e, name, c) ==
    CASE name \in WholeTerms -> [data |-> e, score |-> WholeScore(b, name)]
      [] name = "Pawns"    -> EvaluatePawns(b, e, c)
      [] name \in DOMAIN PieceTerm -> EvaluatePieces(b, e, c, PieceTerm[name])
      [] name = "King"     -> [data |-> e, score |-> KingSafety(b, e, c)]
      [] name = "Mobility" -> [data |-> e, score |-> e.mobility[c]]
      [] name = "Threats"  -> [data |-> e, score |-> e.threats[c]]

ScaleFactor(b, c) ==
    LET scale == ScaleBase + ScalePerPawn * b.count[c][PAWN] IN
    IF scale < ScaleLimit THEN scale ELSE ScaleLimit

NonPawnMaterial(b, c) == MapThenSumSet(LAMBDA t : b.count[c][t] * MaterialOf(t), KNIGHT..QUEEN)

Phase(b) ==
    LET material == Clamp(NonPawnMaterial(b, WHITE) + NonPawnMaterial(b, BLACK), MaterialEg, MaterialMg) IN
    Quot((material - MaterialEg) * PhaseLimit, MaterialMg - MaterialEg)

Tapered(b, s) == Quot(s[1] * Phase(b) + s[2] * (PhaseLimit - Phase(b)), PhaseLimit)

\* The stronger side's pawns scale the endgame score.
Scaled(b, s) ==
    <<s[1], Quot(s[2] * ScaleFactor(b, IF s[2] < 0 THEN BLACK ELSE WHITE), ScaleLimit)>>

SideValue(b, s) == SignOf(b.turn) * Tapered(b, Scaled(b, s)) + TempoBonus

Blank == [i \in DOMAIN Terms |-> [c \in Colors |-> Zero]]

Init ==
    /\ board \in Cases
    /\ data = Fresh(board)
    /\ term = 1 /\ pending = Colors
    /\ trace = Blank /\ score = Zero /\ value = 0

Done == term > Len(Terms)

\* Material and squares: one score for both colours, recorded as White's.
EvaluateWhole ==
    /\ ~Done /\ Terms[term] \in WholeTerms
    /\ trace' = [trace EXCEPT ![term][WHITE] = WholeScore(board, Terms[term])]
    /\ score' = Plus(score, WholeScore(board, Terms[term]))
    /\ term' = term + 1
    /\ UNCHANGED <<board, data, pending, value>>

Keep(c, result) ==
    /\ data' = result.data
    /\ trace' = [trace EXCEPT ![term][c] = result.score]

\* One operand of a subtraction; the second one also adds up.
EvaluateHalf(c) ==
    /\ ~Done /\ Terms[term] \notin WholeTerms
    /\ c \in pending
    /\ Keep(c, EvaluateTerm(board, data, Terms[term], c))
    /\ IF pending = {c}
       THEN /\ score' = Plus(score, Minus(trace'[term][WHITE], trace'[term][BLACK]))
            /\ term' = term + 1 /\ pending' = Colors
            /\ value' = IF term = Len(Terms) THEN SideValue(board, score') ELSE 0
       ELSE pending' = pending \ {c} /\ UNCHANGED <<score, term, value>>
    /\ UNCHANGED board

Next == EvaluateWhole \/ \E c \in Colors : EvaluateHalf(c)

Spec == Init /\ [][Next]_vars
-----------------------------------------------------------------------------
(* Properties.                                                               *)

\* The whole evaluation, White's half of each term first.
Recorded(r, half, result) ==
    [data |-> result.data, trace |-> [r.trace EXCEPT ![half[1]][half[2]] = result.score]]
Summary(b, t) ==
    [trace |-> t,
     value |-> SideValue(b, Total([i \in DOMAIN Terms |-> Minus(t[i][WHITE], t[i][BLACK])]))]
Evaluated(b) ==
    LET halves == [k \in 1..(2 * Len(Terms)) |-> <<(k + 1) \div 2, IF k % 2 = 1 THEN WHITE ELSE BLACK>>]
        kept   == SelectSeq(halves, LAMBDA h : ~(Terms[h[1]] \in WholeTerms /\ h[2] = BLACK))
        after[k \in 0..(2 * Len(Terms))] ==
            IF k = 0 THEN [data |-> Fresh(b), trace |-> Blank]
            ELSE LET r == after[k - 1] IN
                 Recorded(r, kept[k], EvaluateTerm(b, r.data, Terms[kept[k][1]], kept[k][2]))
    IN  Summary(b, after[Len(kept)].trace)

\* The position with the colours exchanged.
Flip(sq) == IF sq = INVALID THEN sq ELSE Square(File(sq), 7 - Rank(sq))
Mirrored(b) ==
    Load([squares |-> [sq \in {Flip(s) : s \in DOMAIN b.squares} |->
                         <<Other(b.squares[Flip(sq)][1]), b.squares[Flip(sq)][2]>>],
          turn |-> Other(b.turn), rights |-> {<<r[1], Other(r[2])>> : r \in Top(b).rights},
          ep |-> Flip(Top(b).ep), clock |-> Top(b).clock, ply |-> b.ply])

\* What is recorded here is m with the halves of each term exchanged.
MirrorOf(m) ==
    /\ value = m.value
    /\ \A i \in DOMAIN Terms :
         IF Terms[i] \in WholeTerms THEN trace[i][WHITE] = Times(m.trace[i][WHITE], -1)
         ELSE \A c \in Colors : trace[i][c] = m.trace[i][Other(c)]

\* Whichever half of a term comes first, the evaluation of the position with
\* the colours exchanged has the same value for the side to move, and each term
\* has its halves exchanged (EvaluationIsColorSymmetric in the repository's
\* tests, for one position): divisions round alike for both colours, no table
\* is read from the wrong side and no half reads what the other one writes.
ColorSymmetric == Done => MirrorOf(Evaluated(Mirrored(board)))

\* Passing the move changes the point of view and the tempo, nothing else: the
\* caches the evaluation reads are those of the position (Board::make_null
\* refreshes them; NullMoveOnlyChangesPerspectiveAndTempo in the tests).
NullMoveFlips == Done => value + Evaluated(MakeNull(board)).value = 2 * TempoBonus

\* The squares a piece attacks, found from the squares: a pinned piece reaches
\* those on which its king is not newly attacked.
Attackers(b, c, target) ==
    LET king == b.king[c]
        pinnedOk(sq) ==
            LET occ == (Occupancy(b) \ {sq}) \union {target}
                known == AttacksTo(b, king, Other(c), Occupancy(b))
            IN  AttacksTo(b, king, Other(c), occ) \ {target} \subseteq known
    IN  {sq \in AttacksTo(b, target, c, Occupancy(b)) :
           target = king \/ TypeOn(b, sq) \in {PAWN, KING} \/ pinnedOk(sq)}

\* The recorded attacks of colour c are those of the pieces by[s] on each s, and
\* the recorded attackers of the other king's zone those that hit it.
AttackedBy(c, by) ==
    /\ data.by[c][AllSlot] = {s \in Squares : by[s] # {}}
    /\ data.by2[c] = {s \in Squares : Cardinality(by[s]) >= 2}
    /\ \A t \in PieceTypes : data.by[c][t] = {s \in Squares : by[s] \intersect board.bb[c][t] # {}}
HitBy(c, by) ==
    \A hitters \in {UNION {by[s] : s \in KingZone(board, c)} \intersect Of(board, Other(c), KNIGHT..QUEEN)} :
      /\ data.count[c] = Cardinality(hitters)
      /\ data.danger[c] = MapThenSumSet(LAMBDA sq : KingzoneAttDanger[TypeOn(board, sq)], hitters)

\* When the king terms read them, the attack data are complete and exact for
\* both colours: every attack of every piece once, double attacks exactly where
\* two pieces attack, and the attackers of each king's zone counted once each.
\* They were accumulated by earlier terms, in an order that matters
\* (update_attacks, evaluate_pawns, update_attackers).
AttacksExact ==
    ~Done /\ Terms[term] = "King" =>
      \A c \in Colors :
        \A by \in {[s \in Squares |-> Attackers(board, c, s)]} :
          AttackedBy(c, by) /\ HitBy(Other(c), by)

\* Pawn structure in words, as the comments of evaluate_pawns put it, against
\* the fills and shifts that compute it: isolated, backward, doubled, passed.
PawnsExact ==
    Done =>
      \A c \in Colors :
        LET own     == Pawns(board, c)
            rank(p) == RelativeRank(p, c)
            near(p) == {q \in own : Abs(File(q) - File(p)) = 1}
            guards(q, p) == q \in near(p) /\ rank(q) = rank(p) - 1
            ahead(q, p) == rank(q) > rank(p)
            alone   == {p \in own : near(p) = {}}
            stuck   == {p \in own \ alone :
                          /\ \A q \in near(p) : ahead(q, p)
                          /\ \E q \in Pawns(board, Other(c)) :
                               Abs(File(q) - File(p)) = 1 /\ rank(q) = rank(p) + 2}
            stacked == {p \in own : /\ \E q \in own : File(q) = File(p) /\ ahead(p, q)
                                    /\ ~\E q \in own : guards(q, p)}
            free    == {p \in own : ~\E q \in Pawns(board, Other(c)) :
                                       Abs(File(q) - File(p)) <= 1 /\ ahead(q, p)}
            passed  == [p \in free |-> PassedPawn[rank(p)]]
        IN  trace[TermIndex("Pawns")][c] =
              <<Cardinality(alone) * IsoPawn[1] + Cardinality(stuck) * BackwardPawn[1]
                  + Cardinality(stacked) * DoubledPawn[1] + MapThenSumSet(LAMBDA p : passed[p][1], free),
                Cardinality(alone) * IsoPawn[2] + Cardinality(stuck) * BackwardPawn[2]
                  + Cardinality(stacked) * DoubledPawn[2] + MapThenSumSet(LAMBDA p : passed[p][2], free)>>
=============================================================================
