SPECIFICATION MCSpec
CONSTANTS
    Moves <- MCMoves
    NullMove = NullMove
    Promotions <- MCPromotions
    Captures <- MCCaptures
    Boards <- MCBoards
    Score <- MCScore
    GoodCaptureScoreBase <- MCBase
    Sides = {WHITE}
    QuietMoves <- MCQuietMoves
    NoMove = NoMove
    Pieces = {PAWN}
    NoPiece = NoPiece
    PAWN = PAWN
    Plies = {0, 1}
    Depths <- MCDepths
    Divisors <- MCDivisors
    MaxScore <- MCScale
INVARIANTS HintsOfThisSearch PicksAreComplete
PROPERTIES PicksAreSound UpdatesAreSound
CHECK_DEADLOCK FALSE
