CONSTANTS
    r = r  a = a  b = b  s = s  c = c  d = d  e = e  f = f  g = g
    Inf = 41
    MaxPly = 5
    Positions <- MCPositions
    Moves <- MCMoves
    Captures <- MCCaptures
    Promotions = {}
    Checked <- MCChecked
    Drawn = {s}
    Root = r
    FirstPly = 1
    Settings <- MCSettings
    MaxCalls = 2
    NullChild <- MCNullChild
    HasPieces <- MCHasPieces
    RazorMaxDepth = 1
    RazorMargin <- NoMargin
    NullMoveReductionBase = 1
    NullMoveDeepReduction = 2
    NullMoveDeepThreshold = 2
    FutilityMaxDepth = 1
    FutilityMargin <- NoMargin
    LmrMinDepth = 3
    LmrMinMoveCount = 2
    QuietMalusMinDepth = 2
    QuietMalusMinFailed = 1
    NullMove = NullMove
    Killer <- MCKiller
SPECIFICATION Spec
INVARIANTS SearchIsTrue PruningIsClean
PROPERTY AbortUnwinds
CHECK_DEADLOCK FALSE
