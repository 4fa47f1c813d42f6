------------------------------ MODULE Geometry ------------------------------
(***************************************************************************)
(* The board's geometry: squares, rays, attack sets, castling squares.     *)
(* A bitboard is a set of squares; the tables the code builds at compile   *)
(* time or at start-up are constant functions.  The magic multipliers are  *)
(* left out: a lookup is modelled as what init() stored for the relevant   *)
(* blockers of the square.                                                 *)
(* Sources: core/square.hpp, core/attacks.hpp, core/attacks_magic.cpp,     *)
(* core/move_geometry.hpp, core/piece.hpp.                                 *)
(***************************************************************************)
EXTENDS Integers, Sequences, FiniteSets

Squares == 0..63
INVALID == 64

\* Colours and piece types as the code numbers them; slot 0 of a piece table
\* is the aggregate of a colour.
BLACK == 0
WHITE == 1
Colors == {BLACK, WHITE}
Other(c) == 1 - c

AllSlot == 0
PAWN == 1
KNIGHT == 2
BISHOP == 3
ROOK == 4
QUEEN == 5
KING == 6
PieceTypes == PAWN..KING

File(sq) == sq % 8
Rank(sq) == sq \div 8
Square(file, rank) == 8 * rank + file
OnBoard(file, rank) == file \in 0..7 /\ rank \in 0..7

\* Rank seen from a colour's side of the board.
RelativeRank(sq, c) == IF c = WHITE THEN Rank(sq) ELSE 7 - Rank(sq)

-----------------------------------------------------------------------------
(* Rays.  A direction is a pair <<file step, rank step>>.                    *)

BishopDirections == {<<-1, 1>>, <<1, 1>>, <<-1, -1>>, <<1, -1>>}
RookDirections == {<<0, 1>>, <<1, 0>>, <<0, -1>>, <<-1, 0>>}
Directions == BishopDirections \union RookDirections

\* The squares met from sq in one direction, in order, up to the edge.
Ray == [sq \in Squares |-> [d \in Directions |->
          LET n == Cardinality({k \in 1..7 :
                     OnBoard(File(sq) + k * d[1], Rank(sq) + k * d[2])})
          IN  [k \in 1..n |-> sq + k * (d[1] + 8 * d[2])]]]

SquaresOf(ray) == {ray[k] : k \in DOMAIN ray}

\* The walk of generate_slider_moves: up to and including the first blocker.
Walk(ray, occupied) ==
    {ray[k] : k \in {k \in DOMAIN ray : \A j \in 1..(k - 1) : ray[j] \notin occupied}}

SliderMoves(sq, directions, occupied) ==
    UNION {Walk(Ray[sq][d], occupied) : d \in directions}

Interior(ray) == {ray[k] : k \in 1..(Len(ray) - 1)}

\* The blocker masks: every square of the rays but the last of each.
RelevantBlockers == [kind \in {BISHOP, ROOK} |-> [sq \in Squares |->
    UNION {Interior(Ray[sq][d]) :
             d \in IF kind = BISHOP THEN BishopDirections ELSE RookDirections}]]

BishopMoves(sq, occupied) ==
    SliderMoves(sq, BishopDirections, occupied \intersect RelevantBlockers[BISHOP][sq])
RookMoves(sq, occupied) ==
    SliderMoves(sq, RookDirections, occupied \intersect RelevantBlockers[ROOK][sq])

-----------------------------------------------------------------------------
(* Pairs of squares: distance, collinear and between masks.                  *)

Abs(n) == IF n < 0 THEN -n ELSE n

Distance(a, b) ==
    LET df == Abs(File(a) - File(b))
        dr == Abs(Rank(a) - Rank(b))
    IN  IF df > dr THEN df ELSE dr

\* The step of the line through two aligned squares, towards the higher one,
\* and 0 when they share no line.  A square with itself counts as a rank.
LineStep(a, b) ==
    CASE Rank(a) = Rank(b) -> 1
      [] Rank(a) # Rank(b) /\ File(a) = File(b) -> 8
      [] Rank(a) # Rank(b) /\ Rank(a) - Rank(b) = File(a) - File(b) -> 9
      [] Rank(a) # Rank(b) /\ Rank(a) + File(a) = Rank(b) + File(b) -> 7
      [] OTHER -> 0

\* The whole rank, file or diagonal two squares share.
CollinearTable == [a \in Squares |-> [b \in Squares |->
    LET step == LineStep(a, b) IN
    CASE step = 1 -> {s \in Squares : Rank(s) = Rank(a)}
      [] step = 8 -> {s \in Squares : File(s) = File(a)}
      [] step = 9 -> {a} \union SquaresOf(Ray[a][<<1, 1>>]) \union SquaresOf(Ray[a][<<-1, -1>>])
      [] step = 7 -> {a} \union SquaresOf(Ray[a][<<-1, 1>>]) \union SquaresOf(Ray[a][<<1, -1>>])
      [] OTHER -> {}]]
Collinear(a, b) == CollinearTable[a][b]

\* The squares strictly between two aligned squares.
BetweenTable == [a \in Squares |-> [b \in Squares |->
    LET step == LineStep(a, b)
        low  == IF a < b THEN a ELSE b
        high == IF a < b THEN b ELSE a
    IN  IF step = 0 THEN {}
        ELSE {s \in {low + k * step : k \in 1..7} : s < high}]]
Between(a, b) == BetweenTable[a][b]

-----------------------------------------------------------------------------
(* Attacks of the pieces.                                                    *)

LeaperTable(offsets) == [sq \in Squares |->
    {Square(File(sq) + o[2], Rank(sq) + o[1]) :
        o \in {o \in offsets : OnBoard(File(sq) + o[2], Rank(sq) + o[1])}}]

KnightMoves == LeaperTable({<<2, -1>>, <<1, -2>>, <<1, 2>>, <<2, 1>>,
                            <<-2, -1>>, <<-1, -2>>, <<-1, 2>>, <<-2, 1>>})
KingMoves == LeaperTable({<<1, -1>>, <<1, 0>>, <<1, 1>>, <<0, -1>>,
                          <<0, 1>>, <<-1, -1>>, <<-1, 0>>, <<-1, 1>>})

PieceMoves(sq, type, occupied) ==
    CASE type = KNIGHT -> KnightMoves[sq]
      [] type = BISHOP -> BishopMoves(sq, occupied)
      [] type = ROOK   -> RookMoves(sq, occupied)
      [] type = QUEEN  -> BishopMoves(sq, occupied) \union RookMoves(sq, occupied)
      [] type = KING   -> KingMoves[sq]
      [] OTHER -> {}

Forward(c) == IF c = WHITE THEN 8 ELSE -8

\* The two diagonal steps of a pawn: left is towards the A-file for White.
LEFT == 7
PUSH == 8
RIGHT == 9
DOUBLE_PUSH == 16
PawnStep(delta, c) == IF c = WHITE THEN delta ELSE -delta

\* pawn_shift: pawns on the file they would wrap from are dropped, and so are
\* the bits shifted off the board.
PawnShift(delta, c, pawns) ==
    LET edge == IF (delta = LEFT) = (c = WHITE) THEN 0 ELSE 7
        able == IF delta \in {LEFT, RIGHT} THEN {p \in pawns : File(p) # edge} ELSE pawns
    IN  {p + PawnStep(delta, c) : p \in able} \intersect Squares

PawnAttackTable == [c \in Colors |-> [sq \in Squares |->
    PawnShift(LEFT, c, {sq}) \union PawnShift(RIGHT, c, {sq})]]
PawnAttacks(sq, c) == PawnAttackTable[c][sq]

\* Single blockers between a king and the opposing sliders that aim at it.
\* The snipers are taken out first so that they do not block each other.
SliderBlockers(king, diagonal, orthogonal, occupied) ==
    LET snipers == (BishopMoves(king, {}) \intersect diagonal)
                     \union (RookMoves(king, {}) \intersect orthogonal)
        shields == {(occupied \ snipers) \intersect Between(king, s) : s \in snipers}
    IN  UNION {s \in shields : Cardinality(s) = 1}

-----------------------------------------------------------------------------
(* Castling and en passant squares.                                          *)

KINGSIDE == 0
QUEENSIDE == 1
Sides == {KINGSIDE, QUEENSIDE}

Home(file, c) == Square(file, IF c = WHITE THEN 0 ELSE 7)
HomeSet(files, c) == {Home(f, c) : f \in files}

Castling(side, c) ==
    [king_from  |-> Home(4, c),
     king_to    |-> Home(IF side = KINGSIDE THEN 6 ELSE 2, c),
     rook_from  |-> Home(IF side = KINGSIDE THEN 7 ELSE 0, c),
     rook_to    |-> Home(IF side = KINGSIDE THEN 5 ELSE 3, c),
     empty_path |-> HomeSet(IF side = KINGSIDE THEN {5, 6} ELSE {1, 2, 3}, c),
     king_path  |-> HomeSet(IF side = KINGSIDE THEN {4, 5, 6} ELSE {2, 3, 4}, c)]

CastleSide(king_from, king_to) == IF king_to > king_from THEN KINGSIDE ELSE QUEENSIDE

\* The square of the pawn that capturer removes, and the target behind a pawn
\* that pusher has just advanced: both one step back.
EnpassantCaptured(target, capturer) == target - Forward(capturer)
EnpassantTarget(destination, pusher) == destination - Forward(pusher)

=============================================================================
