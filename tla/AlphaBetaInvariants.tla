------------------------- MODULE AlphaBetaInvariants -------------------------
(* Inductive invariants of AlphaBeta: what holds of the frames of the calls, *)
(* of the board below them and of the answer that passes between them; and,  *)
(* where nothing is pruned, what the frames and the table know of the game.  *)
EXTENDS AlphaBeta

Waiting == {"razored", "nulled", "searched", "scouted"}
Pcs == {"enter", "razor", "null", "loop"} \union Waiting
Moving == Positions \union {NullMove}
Plies == FirstPly .. MaxPly

Frame == [fn : {"main", "quiescence"}, node : {"Pv", "NonPv"}, alpha : Int, beta : Int,
          depth : Nat, can_null : BOOLEAN, pc : Pcs, pos : Positions, ply : Plies, original : Int,
          tt_move : Moving, veto : BOOLEAN, futility : BOOLEAN, left : SUBSET Positions,
          count : Nat, best : Int, best_move : Moving, move : Moving,
          failed : SUBSET Positions, pv : Seq(Positions)]
Answer == [given : BOOLEAN, value : Int, pv : Seq(Positions), aborted : BOOLEAN]
Record == [move : Moving, score : Int, depth : Nat,
           bound : {"None", "Exact", "Lower", "Upper"}, ply : 0 .. MaxPly]

Typed ==
    /\ setting \in Settings /\ evaluation \in setting.evaluations
    /\ path \in Seq(Positions) /\ search_ply \in Plies
    /\ stack \in Seq(Frame) /\ answer \in Answer
    /\ tt \in [Positions -> Record]
    /\ stop \in BOOLEAN /\ asked \in Frame /\ calls \in Nat

-----------------------------------------------------------------------------
(* The board under the stack.                                                *)

\* The moves a waiting call has on the board, and its own place there.
Made(f) == IF f.pc \in {"nulled", "searched", "scouted"} THEN 1 ELSE 0
Place(f) == f.ply - FirstPly + 1

\* A call waits while one runs above it and while its answer is at hand.
Nested ==
    /\ Len(path) = search_ply - FirstPly + 1 /\ path[1] = Root
    /\ stack = << >> => search_ply = FirstPly
    /\ stack # << >> =>
         /\ stack[1].ply = FirstPly
         /\ answer.given <=> Node.pc \in Waiting
         /\ search_ply = Node.ply + Made(Node)
    /\ \A i \in 1 .. Len(stack) : path[Place(stack[i])] = stack[i].pos
    /\ \A i \in 1 .. Len(stack) - 1 :
         /\ stack[i].pc \in Waiting
         /\ stack[i + 1].ply = stack[i].ply + Made(stack[i])
    /\ \A i, j \in 1 .. Len(stack) : i <= j => stack[i].ply <= stack[j].ply

-----------------------------------------------------------------------------
(* Windows and scores.                                                       *)

\* No better than a mate at the next ply, no worse than mated.
Attainable(value, ply) == MatedAt(ply) <= value /\ value <= -MatedAt(ply)

Sane(f) ==
    /\ -Inf <= f.alpha /\ f.alpha < f.beta /\ f.beta <= Inf
    /\ f.fn = "quiescence" => f.depth = 0 /\ f.pc \in {"enter", "loop", "searched"}
    /\ f.pc # "enter" =>
         /\ f.ply < MaxPly
         /\ f.fn = "main" => f.depth > 0 /\ MatedAt(f.ply) <= f.alpha /\ f.beta < -MatedAt(f.ply)
    \* The sentinel is left once a move was searched.
    /\ f.best # -Inf => Attainable(f.best, f.ply)
    /\ f.best = -Inf =>
         /\ f.count = IF f.pc \in {"searched", "scouted"} THEN 1 ELSE 0
         /\ f.pc = "enter" \/ f.fn = "main" \/ f.pos \in Checked
    /\ f.pc \in {"enter", "razor", "razored", "null", "nulled"} => f.count = 0 /\ f.best = -Inf
    /\ f.pc = "nulled" => f.can_null /\ f.pos \notin Checked
    /\ f.pc \in {"searched", "scouted"} => f.move # NullMove

\* What a call may hand to the one it makes.
Passes(f, g) ==
    /\ f.pc = "nulled" => ~g.can_null
    /\ g.fn = "main" => f.fn = "main" /\ g.alpha <= -MatedAt(g.ply)

Bounded ==
    /\ \A i \in 1 .. Len(stack) : Sane(stack[i])
    /\ \A i \in 1 .. Len(stack) - 1 : Passes(stack[i], stack[i + 1])
    /\ stack # << >> /\ answer.given /\ ~answer.aborted => Attainable(answer.value, search_ply)
    /\ NoSentinelStored

\* Only a stop aborts.
StopAborts == stack # << >> /\ answer.given /\ answer.aborted => stop

CleanInv == Typed /\ Nested /\ Bounded /\ StopAborts

-----------------------------------------------------------------------------
(* Where nothing is pruned.                                                  *)

\* A position arises at one distance from the root, and is searched to one depth.
\* Elsewhere an entry of another depth may answer: by design, and not exact.
Graded(distance) ==
    /\ distance \in [Positions -> Nat] /\ distance[Root] = FirstPly
    /\ \A p \in Positions \ Drawn : \A m \in Moves[p] \ Drawn : distance[m] = distance[p] + 1
    /\ \A s \in Settings : ~s.pruning => \A d, e \in s.depths : d = e

DepthAsked == CHOOSE d \in setting.depths : TRUE
Remaining(depth, ply) == MaxOf(0, depth - (ply - FirstPly))

\* The line is one of moves that each keep the value.
Keeps(eval, line, p, depth, ply, value) ==
    \A i \in DOMAIN line :
        /\ line[i] \in Moves[IF i = 1 THEN p ELSE line[i - 1]]
        /\ Value(eval, line[i], depth - i, ply + i) = IF i % 2 = 1 THEN -value ELSE value

\* What an answer to a window says of a position.
Fits(eval, value, pv, low, high, p, depth, ply) ==
    /\ IsTrue(value, low, high, Value(eval, p, depth, ply))
    /\ value <= low => pv = << >>
    /\ low < value /\ value < high => Keeps(eval, pv, p, depth, ply, value)

\* The window a waiting call has asked for, and the one that call i was asked for.
LowAsked(f) == IF f.pc = "scouted" THEN -f.alpha - 1 ELSE -f.beta
LowOf(i) == IF i = 1 THEN asked.alpha ELSE LowAsked(stack[i - 1])
HighOf(i) == IF i = 1 THEN asked.beta ELSE -stack[i - 1].alpha

\* The value of a move for the side that makes it.
MoveWorth(eval, f, m) == -Value(eval, m, f.depth - 1, f.ply + 1)

\* A call before its first step.
Fresh(f, low, high) == f = Call(f.fn, f.node, low, high, f.depth, f.can_null, f.pos, f.ply)

\* The moves dealt with.
Done(f) == Replies(f.pos, f.depth) \ (f.left \union IF f.pc = "loop" THEN {} ELSE {f.move})

\* A call among its moves: its window, what is left, what the best is worth.
Opened(f, low, high) ==
    IF f.fn = "main"
    THEN f.depth > 0 /\ f.original = MaxOf(low, MatedAt(f.ply)) /\ f.beta = MinOf(high, Mate - f.ply - 1)
    ELSE f.original = low /\ f.beta = high
InTheMoves(f) ==
    /\ f.left \subseteq Replies(f.pos, f.depth)
    /\ f.pc = "loop" /\ f.count = 0 => f.left = Replies(f.pos, f.depth)
    /\ f.pc # "loop" => f.count > 0 /\ f.move \in Replies(f.pos, f.depth) \ f.left
    /\ f.count > 0 => Replies(f.pos, f.depth) # {}
BestSoFar(eval, f) ==
    /\ f.alpha = MaxOf(f.original, f.best)
    /\ \A m \in Done(f) : MoveWorth(eval, f, m) <= f.best
    /\ Resting(f.pos, f.depth) => eval[f.pos] <= f.best
    /\ f.best > f.original =>
         /\ f.best <= Value(eval, f.pos, f.depth, f.ply)
         /\ Keeps(eval, f.pv, f.pos, f.depth, f.ply, f.best)
    /\ f.best <= f.original => f.pv = << >>
    /\ \A m \in f.failed : f.fn = "main" /\ MoveWorth(eval, f, m) < f.beta

Searches(eval, f, low, high) ==
    /\ f.pc \in {"loop", "searched", "scouted"} /\ ~f.futility /\ f.pos \notin Drawn
    /\ Opened(f, low, high) /\ InTheMoves(f) /\ BestSoFar(eval, f)

Knows(eval, f, low, high) ==
    IF f.pc = "enter" THEN Fresh(f, low, high) ELSE Searches(eval, f, low, high)

Placed(f, distance, depth) ==
    f.depth = Remaining(depth, f.ply) /\ (f.pos \notin Drawn => f.ply = distance[f.pos])

\* The move a call waits for is on the board.
Played(f) == f.pc \in {"searched", "scouted"} => path[Place(f) + 1] = f.move

RecordPlaced(record, p, distance, depth) ==
    record.bound # "None" =>
        /\ record.ply = distance[p] /\ record.depth = Remaining(depth, record.ply)
        /\ record.ply < MaxPly /\ p \notin Drawn

AnswerKnown ==
    IF stack = << >>
    THEN answer.given /\ ~answer.aborted =>
           Fits(evaluation, answer.value, answer.pv, asked.alpha, asked.beta, Root, asked.depth, FirstPly)
    ELSE answer.given /\ ~stop =>
           Fits(evaluation, answer.value, answer.pv, LowAsked(Node), -Node.alpha,
                Node.move, Node.depth - 1, Node.ply + 1)

\* Each call knows what it was asked, and what it has found.
StackKnown(distance) ==
    /\ stack # << >> => DepthAsked \in Nat /\ asked.depth = DepthAsked /\ stack[1].pos = Root
    /\ \A i \in 1 .. Len(stack) :
         /\ Placed(stack[i], distance, DepthAsked)
         /\ Knows(evaluation, stack[i], LowOf(i), HighOf(i))
         /\ Played(stack[i])
    /\ \A i \in 1 .. Len(stack) - 1 : stack[i + 1].pos = stack[i].move

TableKnown(distance) == \A p \in Positions : RecordPlaced(tt[p], p, distance, DepthAsked)

Exact(distance) ==
    StackKnown(distance) /\ AnswerKnown /\ TableKnown(distance) /\ TableIsTrue /\ LearnedIsTrue
ExactInv(distance) == ~setting.pruning => Exact(distance)
===============================================================================
