------------------------------- MODULE Weights --------------------------------
(***************************************************************************)
(* The evaluation's weights and the masks they go with.  A tapered score   *)
(* is a pair <<midgame, endgame>>.                                         *)
(* Sources: eval/parameters.hpp, eval/tapered_score.hpp.                   *)
(***************************************************************************)
EXTENDS Geometry
LOCAL INSTANCE SequencesExt

Zero == <<0, 0>>
Plus(a, b) == <<a[1] + b[1], a[2] + b[2]>>
Minus(a, b) == <<a[1] - b[1], a[2] - b[2]>>
Times(a, n) == <<a[1] * n, a[2] * n>>
Total(scores) == FoldLeft(Plus, Zero, scores)
When(condition, score) == IF condition THEN score ELSE Zero

\* Seeded fault: rounds down, so that the two colours round apart.
QuotFloor(a, b) == a \div b

\* Integer division of C++: towards zero.
Quot(a, b) == IF a < 0 THEN -((-a) \div b) ELSE a \div b

TempoBonus == 20
ScaleLimit == 64
ScaleBase == 48
ScalePerPawn == 4
PhaseLimit == 128
MaterialMg == 4 * 630 + 4 * 660 + 4 * 1000 + 2 * 2000
MaterialEg == 0

DarkSquares == {sq \in Squares : (File(sq) + Rank(sq)) % 2 = 0}
LightSquares == Squares \ DarkSquares
CenterFiles == {sq \in Squares : File(sq) \in 2..5 /\ Rank(sq) # 7}
CenterSquares == {27, 28, 35, 36}
OutpostRanks(c) == {sq \in Squares : RelativeRank(sq, c) \in 3..5}

IsoPawn == <<-5, -15>>
BackwardPawn == <<-10, -25>>
DoubledPawn == <<-10, -50>>
PassedPawn == [rank \in 0..7 |->
    <<Zero, Zero, <<5, 10>>, <<10, 20>>, <<20, 40>>, <<40, 80>>, <<80, 160>>, Zero>>[rank + 1]]

ReachableOutpost == <<30, 20>>
Outpost == [t \in {KNIGHT, BISHOP} |-> IF t = KNIGHT THEN <<50, 30>> ELSE <<30, 20>>]
MinorPawnShield == <<20, 5>>
BishopLongDiag == <<40, 0>>
BishopPair == <<50, 80>>
BishopBlockers == <<-2, -6>>
RookClosedFile == <<-10, -5>>
RookOpenFile == [fully \in BOOLEAN |-> IF fully THEN <<40, 20>> ELSE <<20, 10>>]
KingzoneXrayAtt == <<20, 0>>
QueenDiscoverAtt == <<-50, -25>>
WeakPiece == [t \in KNIGHT..QUEEN |-> <<<<-20, -10>>, <<-25, -15>>, <<-50, -25>>, <<-100, -50>>>>[t - 1]]

\* By rank seen from the king's side; rank 0 stands for no pawn.
PawnShelter == [rank \in 0..6 |->
    <<<<-30, 0>>, <<60, 0>>, <<35, 0>>, <<-20, 0>>, <<-5, 0>>, <<-20, 0>>, <<-80, 0>>>>[rank + 1]]
PawnStorm == [blocked \in BOOLEAN |-> [rank \in 0..6 |->
    IF blocked
    THEN <<Zero, Zero, <<-60, -60>>, <<0, -20>>, <<5, -15>>, <<10, -10>>, <<15, -5>>>>[rank + 1]
    ELSE <<Zero, <<-20, 0>>, <<-120, 0>>, <<-60, 0>>, <<-45, 0>>, <<-20, 0>>, <<-10, 0>>>>[rank + 1]]]
KingOpenFile == [open \in BOOLEAN |-> [oppOpen \in BOOLEAN |->
    IF open THEN (IF oppOpen THEN <<-10, 5>> ELSE Zero)
            ELSE (IF oppOpen THEN <<10, 5>> ELSE <<20, -10>>)]]
KingFile == [file \in 0..7 |->
    <<<<20, 0>>, <<5, 0>>, <<-15, 0>>, <<-30, 0>>, <<-30, 0>>, <<-15, 0>>, <<5, 0>>, <<20, 0>>>>[file + 1]]

\* By type and number of squares: a count outside of its table has no score.
Mobility == [t \in KNIGHT..QUEEN |->
    LET knight == <<<<-40, -48>>, <<-32, -36>>, <<-8, -20>>, <<-2, -12>>, <<2, 6>>, <<8, 8>>, <<12, 12>>,
                    <<16, 16>>, <<24, 16>>>>
        bishop == <<<<-32, -40>>, <<-16, -16>>, <<8, -4>>, <<16, 8>>, <<24, 16>>, <<32, 24>>, <<32, 36>>,
                    <<40, 36>>, <<40, 40>>, <<44, 48>>, <<48, 48>>, <<56, 56>>, <<56, 56>>, <<64, 64>>>>
        rook == <<<<-40, -56>>, <<-16, -8>>, <<0, 12>>, <<0, 28>>, <<4, 44>>, <<8, 64>>, <<12, 64>>, <<20, 80>>,
                  <<28, 88>>, <<28, 88>>, <<28, 96>>, <<32, 104>>, <<36, 108>>, <<40, 112>>, <<44, 120>>>>
        queen == <<<<-20, -32>>, <<-12, -20>>, <<-4, -4>>, <<-4, 12>>, <<12, 24>>, <<16, 36>>, <<16, 40>>,
                   <<24, 48>>, <<28, 48>>, <<36, 60>>, <<40, 60>>, <<44, 64>>, <<44, 80>>, <<48, 80>>, <<48, 88>>,
                   <<48, 88>>, <<48, 88>>, <<48, 92>>, <<52, 96>>, <<56, 96>>, <<60, 100>>, <<68, 108>>,
                   <<68, 112>>, <<68, 112>>, <<72, 116>>, <<72, 120>>, <<76, 124>>, <<80, 140>>>>
        table == <<knight, bishop, rook, queen>>[t - 1]
    IN  [n \in 0..(Len(table) - 1) |-> table[n + 1]]]

KingzoneAttDanger == [t \in KNIGHT..QUEEN |-> <<30, 22, 18, 5>>[t - 1]]
CheckDanger == [safe \in BOOLEAN |-> [t \in KNIGHT..QUEEN |->
    IF safe THEN <<320, 240, 360, 280>>[t - 1] ELSE <<35, 30, 25, 5>>[t - 1]]]
PinnedPieceDanger == 30
WeakKingzoneDanger == 80
=============================================================================
