------------------------------- MODULE AlphaBeta -------------------------------
(***************************************************************************)
(* alphabeta and quiescence of one worker as a machine of calls over one   *)
(* board: windows, the table, pruning, reduced and null-window searches    *)
(* and their repetition, the variation, and a stop at any moment.  The     *)
(* picker is used by what it promises: every move of its kind once, the    *)
(* table's first.                                                          *)
(* Source: search/algorithm.cpp, search/principal_variation.hpp.           *)
(***************************************************************************)
EXTENDS Negamax, SequencesExt

CONSTANTS
    Root, FirstPly,      \* where root search calls from, after its move
    Settings,            \* what is chosen at the start: see setting
    MaxCalls,            \* bound: the calls made one after another
    NullChild,           \* the position after passing
    HasPieces,           \* positions with more than a rook besides pawns
    RazorMaxDepth, RazorMargin,
    NullMoveReductionBase, NullMoveDeepReduction, NullMoveDeepThreshold,
    FutilityMaxDepth, FutilityMargin,
    LmrMinDepth, LmrMinMoveCount,
    QuietMalusMinDepth, QuietMalusMinFailed,
    NullMove,
    Killer               \* [Positions -> the quiet move that is a killer there]

ASSUME SearchAssumption ==
    /\ Moves \in [Positions -> SUBSET Positions] /\ NullMove \notin Positions
    /\ NullChild \in [Positions -> Positions]
    /\ Root \in Positions /\ FirstPly \in 1 .. MaxPly
    /\ NullMoveReductionBase \in Nat /\ NullMoveDeepReduction \in Nat
    \* An evaluation is no mate score, whatever the ply.
    /\ \A s \in Settings :
         /\ s.pruning \in BOOLEAN /\ s.depths \subseteq Nat
         /\ s.windows \subseteq {w \in (-Inf .. Inf) \X (-Inf .. Inf) : w[1] < w[2]}
         /\ s.evaluations \subseteq [Positions -> 1 - TtMateBound .. TtMateBound - 1]

VARIABLES
    evaluation,   \* [Positions -> score], for the side to move
    setting,      \* the evaluation functions, the windows and depths root search
                  \* asks for, and whether the margins of any pruning are ever met
    path,         \* the board: the positions made so far
    search_ply,
    stack,        \* the calls that are running
    answer,       \* what the last call to return returned
    tt,           \* [Positions -> record]
    learned,      \* the updates of the ordering state
    stop,         \* stop_requested
    asked,        \* history: the call root search made
    calls         \* history: how many it made

vars == <<setting, evaluation, path, search_ply, stack, answer, tt, learned, stop, asked, calls>>

Node == Last(stack)
Board == Last(path)
Silent == [given |-> FALSE, value |-> 0, pv |-> << >>, aborted |-> FALSE]
NoRecord == [move |-> NullMove, score |-> 0, depth |-> 0, bound |-> "None", ply |-> 0]
MaxOf(a, b) == IF a >= b THEN a ELSE b
MinOf(a, b) == IF a <= b THEN a ELSE b

Call(fn, node, alpha, beta, depth, can_null, p, at) ==
    [fn |-> fn, node |-> node, alpha |-> alpha, beta |-> beta, depth |-> depth,
     can_null |-> can_null, pc |-> "enter", pos |-> p, ply |-> at,
     original |-> alpha, tt_move |-> NullMove, veto |-> FALSE, futility |-> FALSE,
     left |-> {}, count |-> 0, best |-> -Inf, best_move |-> NullMove,
     move |-> NullMove, failed |-> {}, pv |-> << >>]

Resume(call) == stack' = [stack EXCEPT ![Len(stack)] = call]
Invoke(call, callee) == stack' = Append([stack EXCEPT ![Len(stack)] = call], callee)
Give(value, pv, aborted) ==
    /\ stack' = Front(stack)
    /\ answer' = [given |-> TRUE, value |-> value, pv |-> pv, aborted |-> aborted]

OnBoard == UNCHANGED <<setting, evaluation, path, search_ply, stop, asked, calls>>
Remembered == UNCHANGED <<tt, learned>>

-----------------------------------------------------------------------------
(* The table.                                                                *)

CanCutoff(record, score, depth, alpha, beta) ==
    /\ record.depth >= depth
    /\ \/ record.bound = "Exact"
       \/ record.bound = "Lower" /\ score >= beta
       \/ record.bound = "Upper" /\ score <= alpha

TtCutoffAllowed(node, record, score, depth, alpha, beta) ==
    IF node = "Pv" THEN record.depth >= depth /\ record.bound = "Exact"
    ELSE CanCutoff(record, score, depth, alpha, beta)

BoundForWindow(value, alpha, beta) ==
    IF value >= beta THEN "Lower" ELSE IF value <= alpha THEN "Upper" ELSE "Exact"

\* A shallow bound does not replace a deep record, and a store without a move
\* keeps the move.
Kept(record, depth, bound) ==
    record.bound # "None" /\ bound # "Exact" /\ depth + 2 < record.depth

StoreIn(p, move, score, depth, bound) ==
    tt' = IF Kept(tt[p], depth, bound) THEN tt
          ELSE [tt EXCEPT ![p] =
                  [move |-> IF move = NullMove THEN @.move ELSE move,
                   score |-> Stored(score, search_ply'), depth |-> depth, bound |-> bound,
                   ply |-> search_ply']]

-----------------------------------------------------------------------------
Init ==
    /\ setting \in Settings /\ evaluation \in setting.evaluations
    /\ path = <<Root>> /\ search_ply = FirstPly
    /\ stack = << >> /\ answer = Silent
    /\ tt = [p \in Positions |-> NoRecord] /\ learned = {}
    /\ stop = FALSE /\ asked = Call("main", "Pv", 0, 0, 0, TRUE, Root, FirstPly) /\ calls = 0

\* Root search asks; a search after a stopped one starts with the flag reset.
Ask(window, depth, node) ==
    /\ stack = << >> /\ calls < MaxCalls
    /\ node = "NonPv" => window[2] = window[1] + 1
    /\ asked' = Call("main", node, window[1], window[2], depth, TRUE, Root, FirstPly)
    /\ stack' = <<asked'>> /\ answer' = Silent
    /\ stop' = FALSE /\ calls' = calls + 1
    /\ Remembered /\ UNCHANGED <<setting, evaluation, path, search_ply>>

\* The limits, the GUI or the pool, at any moment.
RequestStop ==
    /\ stack # << >> /\ ~stop /\ stop' = TRUE
    /\ UNCHANGED <<setting, evaluation, path, search_ply, stack, answer, tt, learned, asked, calls>>

-----------------------------------------------------------------------------
(* Entry of either function.                                                 *)

Entering == stack # << >> /\ ~answer.given /\ Node.pc = "enter"

Abort ==
    /\ Entering /\ stop
    /\ Give(Node.alpha, << >>, TRUE) /\ Remembered /\ OnBoard

Exit ==
    /\ Entering /\ ~stop
    /\ \/ Board \in Drawn /\ Give(0, << >>, FALSE)
       \/ Board \notin Drawn /\ search_ply >= MaxPly /\ Give(evaluation[Board], << >>, FALSE)
    /\ Remembered /\ OnBoard

Searching == Entering /\ ~stop /\ Board \notin Drawn /\ search_ply < MaxPly

DropToQuiescence ==
    /\ Searching /\ Node.fn = "main" /\ Node.depth <= 0
    /\ Resume(Call("quiescence", Node.node, Node.alpha, Node.beta, 0, FALSE, Board, search_ply))
    /\ UNCHANGED answer /\ Remembered /\ OnBoard

\* Mate-distance pruning narrows the window of the main search.
NarrowAlpha == IF Node.fn = "main" THEN MaxOf(Node.alpha, MatedAt(search_ply)) ELSE Node.alpha
NarrowBeta == IF Node.fn = "main" THEN MinOf(Node.beta, Mate - search_ply - 1) ELSE Node.beta

MateDistance ==
    /\ Searching /\ Node.fn = "main" /\ Node.depth > 0
    /\ NarrowAlpha >= NarrowBeta
    /\ Give(NarrowAlpha, << >>, FALSE) /\ Remembered /\ OnBoard

Probing ==
    /\ Searching
    /\ Node.fn = "main" => Node.depth > 0 /\ NarrowAlpha < NarrowBeta

TtScore == ScoreAtPly(tt[Board].score, search_ply)
TtCutoff == TtCutoffAllowed(Node.node, tt[Board], TtScore, Node.depth, NarrowAlpha, NarrowBeta)

TakeTtScore ==
    /\ Probing /\ TtCutoff
    /\ Give(TtScore, << >>, FALSE) /\ Remembered /\ OnBoard

\* A sufficiently deep upper bound vetoes the null move.
UpperVeto ==
    /\ tt[Board].bound = "Upper" /\ tt[Board].depth >= Node.depth /\ TtScore < NarrowBeta

OpenMain ==
    /\ Probing /\ ~TtCutoff /\ Node.fn = "main"
    /\ Resume([Node EXCEPT !.alpha = NarrowAlpha, !.beta = NarrowBeta, !.original = NarrowAlpha,
                           !.tt_move = tt[Board].move, !.veto = UpperVeto, !.left = Moves[Board],
                           !.pc = IF setting.pruning /\ Node.node = "NonPv" THEN "razor" ELSE "loop"])
    /\ UNCHANGED answer /\ Remembered /\ OnBoard

\* Stand pat: not in check, the evaluation is a lower bound of the value.
StandPatCutoff ==
    /\ Probing /\ ~TtCutoff /\ Node.fn = "quiescence"
    /\ Board \notin Checked /\ evaluation[Board] >= Node.beta
    /\ Give(evaluation[Board], << >>, FALSE)
    /\ OnBoard
    /\ StoreIn(Board, NullMove, evaluation[Board], 0, "Lower") /\ UNCHANGED learned

OpenQuiescence ==
    /\ Probing /\ ~TtCutoff /\ Node.fn = "quiescence"
    /\ \/ /\ Board \in Checked
          /\ Resume([Node EXCEPT !.tt_move = tt[Board].move, !.left = Moves[Board], !.pc = "loop"])
       \/ /\ Board \notin Checked /\ evaluation[Board] < Node.beta
          /\ Resume([Node EXCEPT !.tt_move = tt[Board].move, !.left = Tactical(Board), !.pc = "loop",
                                 !.best = evaluation[Board],
                                 !.alpha = MaxOf(@, evaluation[Board])])
    /\ UNCHANGED answer /\ Remembered /\ OnBoard

-----------------------------------------------------------------------------
(* Pruning before the moves, at nodes off the variation.                     *)

At(pc) == stack # << >> /\ Node.pc = pc
Running(pc) == At(pc) /\ ~answer.given
Answered(pc) == At(pc) /\ answer.given

RazorAllowed ==
    /\ Node.can_null /\ Board \notin Checked /\ Node.depth <= RazorMaxDepth
    /\ Node.tt_move = NullMove
    /\ evaluation[Board] + RazorMargin[Node.depth] <= Node.alpha

Razor ==
    /\ Running("razor")
    /\ IF RazorAllowed
       THEN Invoke([Node EXCEPT !.pc = "razored"],
                   Call("quiescence", "NonPv", Node.alpha - 1, Node.alpha, 0, FALSE, Board, search_ply))
       ELSE Resume([Node EXCEPT !.pc = "null"])
    /\ UNCHANGED answer /\ Remembered /\ OnBoard

\* Seeded fault: the stop is not looked at after razoring.
RazoredOn ==
    /\ Answered("razored")
    /\ \/ answer.value < Node.alpha /\ Give(answer.value, << >>, FALSE)
       \/ /\ answer.value >= Node.alpha
          /\ Resume([Node EXCEPT !.pc = "null"]) /\ answer' = Silent
    /\ Remembered /\ OnBoard

Razored ==
    /\ Answered("razored")
    /\ \/ stop /\ Give(Node.alpha, << >>, TRUE)
       \/ ~stop /\ answer.value < Node.alpha /\ Give(answer.value, << >>, FALSE)
       \/ /\ ~stop /\ answer.value >= Node.alpha
          /\ Resume([Node EXCEPT !.pc = "null"]) /\ answer' = Silent
    /\ Remembered /\ OnBoard

NullReduction ==
    IF Node.depth > NullMoveDeepThreshold THEN NullMoveDeepReduction ELSE NullMoveReductionBase

NullAllowed ==
    /\ Node.can_null /\ Board \notin Checked /\ Node.depth >= NullReduction
    /\ Board \in HasPieces /\ ~Node.veto

\* Computed before the moves, on the evaluation read at the entry.
Futile ==
    /\ Node.depth <= FutilityMaxDepth /\ Node.pos \notin Checked
    /\ Node.alpha > -MateBound /\ Node.alpha < MateBound
    /\ evaluation[Node.pos] + FutilityMargin[Node.depth] <= Node.alpha

\* make, make_null and their inverses.
Make(p) == path' = Append(path, p) /\ search_ply' = search_ply + 1
Unmake == path' = Front(path) /\ search_ply' = search_ply - 1
Aside == UNCHANGED <<setting, evaluation, stop, asked, calls>>

NullTry ==
    /\ Running("null") /\ NullAllowed
    /\ Make(NullChild[Board])
    /\ Invoke([Node EXCEPT !.pc = "nulled"],
              Call("main", "NonPv", -Node.beta, -Node.beta + 1, Node.depth - NullReduction, FALSE,
                   NullChild[Board], search_ply + 1))
    /\ UNCHANGED answer /\ Remembered /\ Aside

SkipNull ==
    /\ Running("null") /\ ~NullAllowed
    /\ Resume([Node EXCEPT !.pc = "loop", !.futility = Futile])
    /\ UNCHANGED answer /\ Remembered /\ OnBoard

Nulled ==
    /\ Answered("nulled")
    /\ Unmake
    /\ \/ stop /\ Give(Node.alpha, << >>, TRUE)
       \/ ~stop /\ -answer.value >= Node.beta /\ Give(-answer.value, << >>, FALSE)
       \/ /\ ~stop /\ -answer.value < Node.beta /\ answer' = Silent
          /\ Resume([Node EXCEPT !.pc = "loop", !.futility = Futile])
    /\ Remembered /\ Aside

-----------------------------------------------------------------------------
(* The move loop.                                                            *)

\* The picker's next move, the table's first.
NextMoves == IF Node.tt_move \in Node.left THEN {Node.tt_move} ELSE Node.left

IsLate(m) ==
    /\ setting.pruning
    /\ Node.fn = "main" /\ Node.depth >= LmrMinDepth /\ Node.count + 1 >= LmrMinMoveCount
    /\ <<Board, m>> \notin Promotions /\ Board \notin Checked /\ m \notin Checked

\* lmr_reduction: the logarithms are clamped between 1 and depth - 2.
LmrReductions(m) == IF IsLate(m) THEN 1 .. Node.depth - 2 ELSE {0}

\* Seeded fault: the first move may be pruned.
FutileMoveFirst(m) == Node.futility /\ IsQuiet(Board, m) /\ m \notin Checked

FutileMove(m) ==
    Node.futility /\ Node.count > 0 /\ IsQuiet(Board, m) /\ m \notin Checked

\* Made and unmade, with the quiet moves behind it (skip_quiet_moves).
PruneQuiet(m) ==
    /\ FutileMove(m)
    /\ Resume([Node EXCEPT !.count = @ + 1, !.left = Tactical(Board) \intersect (@ \ {m})])
    /\ UNCHANGED answer /\ Remembered /\ OnBoard

Full(m) == Call("main", Node.node, -Node.beta, -Node.alpha, Node.depth - 1, TRUE, m, search_ply + 1)
Settle(m) ==
    Call("quiescence", Node.node, -Node.beta, -Node.alpha, 0, FALSE, m, search_ply + 1)
Scout(m, reduction) ==
    Call("main", "NonPv", -Node.alpha - 1, -Node.alpha, Node.depth - 1 - reduction, TRUE,
         m, search_ply + 1)

SearchMove(m) ==
    /\ ~FutileMove(m)
    /\ Make(m)
    /\ \E reduction \in LmrReductions(m) :
         LET call == [Node EXCEPT !.move = m, !.count = @ + 1, !.left = @ \ {m}]
             scouts == reduction > 0 \/ (Node.fn = "main" /\ Node.node = "Pv" /\ Node.count > 0)
         IN  IF scouts
             THEN Invoke([call EXCEPT !.pc = "scouted"], Scout(m, reduction))
             ELSE Invoke([call EXCEPT !.pc = "searched"],
                         IF Node.fn = "main" THEN Full(m) ELSE Settle(m))
    /\ UNCHANGED answer /\ Remembered /\ Aside

PickMove == Running("loop") /\ \E m \in NextMoves : PruneQuiet(m) \/ SearchMove(m)

\* Seeded fault: a scout that beats alpha is believed.
ScoutedOnce ==
    /\ Answered("scouted")
    /\ UNCHANGED answer /\ Resume([Node EXCEPT !.pc = "searched"])
    /\ Remembered /\ OnBoard

\* A scout that beats alpha is repeated with the window and the full depth.
Scouted ==
    /\ Answered("scouted")
    /\ IF ~stop /\ -answer.value > Node.alpha
       THEN /\ answer' = Silent
            /\ Invoke([Node EXCEPT !.pc = "searched"],
                      Call("main", Node.node, -Node.beta, -Node.alpha, Node.depth - 1, TRUE,
                           Board, search_ply))
       ELSE UNCHANGED answer /\ Resume([Node EXCEPT !.pc = "searched"])
    /\ Remembered /\ OnBoard

Line == IF Node.node = "Pv" THEN <<Node.move>> \o answer.pv ELSE << >>
MalusAllowed == Node.fn = "main" /\ Node.depth >= QuietMalusMinDepth /\ Node.pos \notin Checked

Learn ==
    LET quiet == Node.fn = "main" /\ IsQuiet(Node.pos, Node.move)
        malus == quiet /\ MalusAllowed /\ Cardinality(Node.failed) >= QuietMalusMinFailed
        update(kind, m) == [kind |-> kind, pos |-> Node.pos, move |-> m, beta |-> Node.beta,
                            depth |-> Node.depth, ply |-> Node.ply]
    IN  learned \union (IF quiet THEN {update("reward", Node.move)} ELSE {})
                \union (IF malus THEN {update("malus", m) : m \in Node.failed} ELSE {})

BetaCutoff(value) ==
    /\ value >= Node.beta
    /\ Give(value, Line, FALSE)
    /\ StoreIn(Node.pos, Node.move, value, Node.depth, "Lower")
    /\ learned' = Learn

KeepBest(value) ==
    /\ value < Node.beta
    /\ answer' = Silent
    /\ Resume([Node EXCEPT
         !.pc = "loop",
         !.failed = IF MalusAllowed /\ IsQuiet(Node.pos, Node.move)
                       /\ Node.move \notin {Node.tt_move, Killer[Node.pos]} THEN @ \union {Node.move} ELSE @,
         !.best = MaxOf(@, value),
         !.best_move = IF value > Node.best THEN Node.move ELSE @,
         !.alpha = MaxOf(@, value),
         !.pv = IF value > Node.best /\ value > Node.alpha THEN Line ELSE @])
    /\ Remembered

Searched ==
    /\ Answered("searched")
    /\ Unmake
    /\ IF stop THEN Give(Node.alpha, << >>, TRUE) /\ Remembered
       ELSE BetaCutoff(-answer.value) \/ KeepBest(-answer.value)
    /\ Aside

\* Mate, stalemate, or the best of the moves.  Quiescence knows only mate.
Terminal == Node.count = 0 /\ (Node.fn = "main" \/ Board \in Checked)

EndMoves ==
    /\ Running("loop") /\ Node.left = {}
    /\ OnBoard /\ UNCHANGED learned
    /\ IF Terminal
       THEN LET value == IF Board \in Checked THEN MatedAt(search_ply) ELSE 0 IN
            Give(value, << >>, FALSE) /\ StoreIn(Board, NullMove, value, Node.depth, "Exact")
       ELSE /\ Give(Node.best, Node.pv, FALSE)
            /\ StoreIn(Board, Node.best_move, Node.best, Node.depth,
                       BoundForWindow(Node.best, Node.original, Node.beta))

Next ==
    \/ \E window \in setting.windows, depth \in setting.depths, node \in {"Pv", "NonPv"} :
         Ask(window, depth, node)
    \/ RequestStop
    \/ Abort \/ Exit \/ DropToQuiescence \/ MateDistance \/ TakeTtScore
    \/ OpenMain \/ StandPatCutoff \/ OpenQuiescence
    \/ Razor \/ Razored \/ NullTry \/ SkipNull \/ Nulled
    \/ PickMove \/ Scouted \/ Searched \/ EndMoves

Spec == Init /\ [][Next]_vars

-----------------------------------------------------------------------------
\* The frame that goes on finds the board it left: every make, the null move's
\* and a pruned move's included, is undone on every way out, a stop's included
\* (board.unmake, --search_ply).
BoardRestored ==
    /\ stack = << >> => path = <<Root>> /\ search_ply = FirstPly
    /\ stack # << >> /\ ~answer.given => Board = Node.pos /\ search_ply = Node.ply

Worth(p, depth, ply) == Value(evaluation, p, depth, ply)

\* A fail-soft answer: what it says of the position's value is so.
IsTrue(answered, alpha, beta, v) ==
    CASE answered <= alpha -> v <= answered
      [] answered >= beta -> v >= answered
      [] OTHER -> v = answered

\* Without pruning, what root search is answered is true of the game, whatever
\* the order of moves, whatever earlier calls and stopped searches left in the
\* table and through every null-window search and its repetition (alphabeta,
\* quiescence, and RootSearch's assumption on their results).
AnswerIsTrue ==
    stack = << >> /\ answer.given /\ ~answer.aborted =>
        IsTrue(answer.value, asked.alpha, asked.beta, Worth(Root, asked.depth, FirstPly))

\* Every record is true of its position at its depth, an aborted search's
\* records included: a stop unwinds without leaving what it cut short in the
\* table (the checks of stop_requested before every store).
TableIsTrue ==
    \A p \in Positions : tt[p].bound # "None" =>
        LET v == Worth(p, tt[p].depth, tt[p].ply)
            score == ScoreAtPly(tt[p].score, tt[p].ply)
        IN  CASE tt[p].bound = "Exact" -> v = score
              [] tt[p].bound = "Lower" -> v >= score
              [] tt[p].bound = "Upper" -> v <= score

\* The moves rewarded refute their position and those punished beside them do
\* not (update_quiet_refutations, reward_quiet, penalize_quiet).
LearnedIsTrue ==
    \A u \in learned :
        LET v == -Worth(u.move, u.depth - 1, u.ply + 1) IN
        IF u.kind = "reward" THEN v >= u.beta ELSE v < u.beta

\* The variation of an answer inside its window is a line of moves of the game
\* and its every move keeps the value: no move of a sibling or of a null-window
\* search is left in it (PrincipalVariation::update, clear).
VariationKeepsValue ==
    stack = << >> /\ answer.given /\ ~answer.aborted
      /\ asked.alpha < answer.value /\ answer.value < asked.beta =>
        \A i \in DOMAIN answer.pv :
            LET from == IF i = 1 THEN Root ELSE answer.pv[i - 1]
                v == Worth(answer.pv[i], asked.depth - i, FirstPly + i)
            IN  answer.pv[i] \in Moves[from] /\ answer.value = IF i % 2 = 1 THEN -v ELSE v

\* An aborted answer unwinds to root search: no frame goes on with it, stores
\* a score or teaches the ordering (the checks of stop_requested after razoring,
\* the null move, a scout and a move).
AbortUnwinds ==
    [][answer.given /\ answer.aborted /\ stack # << >> =>
         answer'.given /\ answer'.aborted /\ UNCHANGED <<tt, learned>>]_vars

\* No sentinel gets into the table: a node whose every later move is pruned has
\* searched one (first_legal in the futility step).
NoSentinelStored ==
    \A p \in Positions : tt[p].bound # "None" => -Mate <= tt[p].score /\ tt[p].score <= Mate

\* The side that passes is not in check and does not answer a pass with a pass
\* (can_null).
NullMovesAreFair ==
    \A i \in 1 .. Len(stack) : stack[i].pc = "nulled" =>
        /\ stack[i].pos \notin Checked
        /\ i > 1 => stack[i - 1].pc # "nulled"

\* Where no pruning applies the search is the game's minimax and nothing else
\* may show: neither in answers, nor in what it leaves behind.
SearchIsTrue ==
    ~setting.pruning => AnswerIsTrue /\ TableIsTrue /\ LearnedIsTrue /\ VariationKeepsValue

\* With every kind of pruning the search keeps the board, the table and the
\* rules of passing intact.
PruningIsClean == BoardRestored /\ NoSentinelStored /\ NullMovesAreFair
===============================================================================
