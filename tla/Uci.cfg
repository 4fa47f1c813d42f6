SPECIFICATION MCSpec
CONSTANTS
    MaxTime = 15
    MaxInt = 7
    MaxNodes = 31
    MaxDepth = 3
    SearchBuffer = 2
    LeastTime = 1
    DefaultMoves = 3
    Requests <- MCRequests
    Inf = 41
    MaxPly = 4
    Evaluations <- MCEvaluations
INVARIANTS LimitsAreSound MatesAreCounted LineIsRead BoardIsRead
CHECK_DEADLOCK FALSE
