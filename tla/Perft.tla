-------------------------------- MODULE Perft --------------------------------
(***************************************************************************)
(* Perft: a depth-first count of the leaves of the game tree on one board  *)
(* that every level makes its move on and takes it back from.  The call    *)
(* stack is a sequence of frames, the root's first; the order of the moves *)
(* of a frame is some fixed one.                                           *)
(* Source: movegen/perft.cpp.                                              *)
(***************************************************************************)
EXTENDS Generator
LOCAL INSTANCE FiniteSetsExt

CONSTANTS Starts, Depths

VARIABLES board, depth, stack, rootMoves, nodes, stage

vars == <<board, depth, stack, rootMoves, nodes, stage>>

MaxSearchPly == 128
ValidDepth(d) == d \in 0..MaxSearchPly

Frame(b) == [left |-> LegalMoves(b), nodes |-> 0]
Returned == Len(stack) = 0

Init ==
    /\ board \in {Load(p) : p \in Starts}
    /\ depth \in Depths
    /\ stack = << >> /\ rootMoves = {} /\ nodes = 0
    /\ stage = "called"

\* A depth out of range is refused before anything is touched; depth 0 counts
\* the position itself and lists no move.
Enter ==
    /\ stage = "called"
    /\ CASE ~ValidDepth(depth) -> stage' = "refused" /\ UNCHANGED <<stack, nodes>>
         [] depth = 0 -> stage' = "done" /\ nodes' = 1 /\ UNCHANGED stack
         [] OTHER -> stage' = "counting" /\ stack' = <<Frame(board)>> /\ UNCHANGED nodes
    /\ UNCHANGED <<board, depth, rootMoves>>

Current == stack[Len(stack)]

\* One legal move of the innermost frame is made.  At the last ply the call
\* below returns 1 at once; otherwise it gets a frame.
Descend ==
    /\ stage = "counting" /\ Current.left # {}
    /\ LET m == CHOOSE m \in Current.left : TRUE IN
       /\ board' = Make(board, m)
       /\ stack' = Append([stack EXCEPT ![Len(stack)].left = @ \ {m}],
                          IF Len(stack) = depth THEN [left |-> {}, nodes |-> 1] ELSE Frame(board'))
    /\ UNCHANGED <<depth, rootMoves, nodes, stage>>

Counted(frame) == frame.nodes

\* Seeded fault: the move is taken back by restoring the side to move only.
TakenBackNull(b) == UnmakeNull(b)

TakenBack(b) == Unmake(b)

\* The innermost frame has no move left: its count goes to the caller, which
\* takes the move back.  At the root the count is also listed by move.
Ascend ==
    /\ stage = "counting" /\ Current.left = {} /\ Len(stack) > 1
    /\ LET n == Counted(Current) IN
       /\ stack' = [SubSeq(stack, 1, Len(stack) - 1) EXCEPT ![Len(stack) - 1].nodes = @ + n]
       /\ rootMoves' = IF Len(stack) = 2 THEN rootMoves \union {<<Top(board).move, n>>} ELSE rootMoves
    /\ board' = TakenBack(board)
    /\ UNCHANGED <<depth, nodes, stage>>

Finish ==
    /\ stage = "counting" /\ Current.left = {} /\ Len(stack) = 1
    /\ nodes' = Current.nodes /\ stage' = "done" /\ stack' = << >>
    /\ UNCHANGED <<board, depth, rootMoves>>

Next == Enter \/ Descend \/ Ascend \/ Finish

Spec == Init /\ [][Next]_vars

-----------------------------------------------------------------------------
RECURSIVE Leaves(_, _)
Leaves(b, d) ==
    IF d = 0 THEN 1 ELSE MapThenSumSet(LAMBDA m : Leaves(Make(b, m), d - 1), LegalMoves(b))

\* The count is the number of leaves, the listed root moves are the legal ones
\* and their counts add up to it (perft, perft_root).
CountsLeaves ==
    stage = "done" =>
        /\ nodes = Leaves(board, depth)
        /\ depth > 0 => rootMoves = {<<m, Leaves(Make(board, m), depth - 1)>> : m \in LegalMoves(board)}

\* Whatever was made and taken back below, the board is where the stack says:
\* one state per frame, consistent with its key and its caches; when the count
\* ends it is the loaded position again.
BoardFollowsStack ==
    /\ Len(board.states) = IF Returned THEN 1 ELSE Len(stack)
    /\ Top(board).zkey = RecomputeKey(board)
    /\ board.terms = RecomputeBaseTerms(board)
=============================================================================
