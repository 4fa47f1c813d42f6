----------------------------- MODULE RootSearch -----------------------------
(***************************************************************************)
(* The root of one worker's search (search/algorithm.cpp, search_root,     *)
(* search_root_depth, search_root_window): iterative deepening, around an  *)
(* aspiration loop, around a pass over the root moves that searches the    *)
(* first with the whole window and scouts the rest.                        *)
(*                                                                         *)
(* The search below the root is its result: a score that bounds the move's *)
(* value from the side of the window it fell on (fail-soft), or, when      *)
(* consistent is false, anything, as table entries of other depths, draws  *)
(* by repetition and reductions can make it.  A stop may come at any time; *)
(* from then on what a search returns means nothing.  A root without moves *)
(* is no search, and SearchPool's; so are the snapshots and the reports.   *)
(***************************************************************************)
EXTENDS Integers, FiniteSets, SequencesExt

CONSTANTS
  Moves,            \* root moves, each the number Move::bits holds
  Values,           \* values that root moves can have
  Evaluations,      \* values that the static evaluation of the root can have
  Inf,              \* eval_value::inf
  AspirationWindow,
  MaxDepth,         \* the depth asked for
  Skipped,          \* depths that should_search_root_depth leaves out
  Mates             \* values that has_mate_within_limit accepts

ASSUME RootAssumption ==
  /\ Moves \subseteq Nat \ {0} /\ Moves # {} /\ IsFiniteSet(Moves)
  /\ Inf \in Nat \ {0} /\ Values \subseteq 1 - Inf .. Inf - 1 /\ Values # {}
  /\ Evaluations \subseteq 1 - Inf .. Inf - 1 /\ Evaluations # {}
  /\ AspirationWindow \in 1 .. Inf
  /\ MaxDepth \in Nat \ {0} /\ Skipped \subseteq 2 .. MaxDepth
  /\ Mates \subseteq 1 - Inf .. Inf - 1

Scores == 1 - Inf .. Inf - 1
Searched == (1 .. MaxDepth) \ Skipped
Line == [move : Moves, value : -Inf .. Inf, depth : 0 .. MaxDepth, done : BOOLEAN]

VARIABLES
  pc,          \* at the head of the deepening loop, the aspiration loop, the pass
               \* over the moves, at the verdict on it, or returned
  consistent,  \* whether searches of one depth agree on the values of moves
  truth,       \* the value of each move at each depth, if they do
  stop,        \* stop_requested_flag
  depth,
  alpha, beta, \* the aspiration window
  delta,       \* how much it grows by
  lines,       \* root_lines
  index,       \* the line the pass is at
  low,         \* the pass's own alpha
  hasPv,       \* has_pv_move
  result       \* root_result

window == <<alpha, beta, delta>>
pass == <<index, low, hasPv>>
vars == <<pc, truth, consistent, stop, depth, window, lines, pass, result>>

Larger(a, b) == IF a < b THEN b ELSE a
Smaller(a, b) == IF a < b THEN a ELSE b

\* RootLine::reset_attempt
Reset(line) == [line EXCEPT !.value = -Inf, !.depth = 0, !.done = FALSE]

\* RootLine::usable_root_move, of a line that has a move
Usable(line) == line.done /\ line.depth > 0

\* Seeded fault: of two lines of one depth the lower value goes first.
BetterLower(a, b) ==
  /\ Usable(a)
  /\ \/ ~Usable(b)
     \/ a.depth > b.depth
     \/ a.depth = b.depth /\ a.value < b.value
     \/ a.depth = b.depth /\ a.value = b.value /\ a.move < b.move

\* is_better_root_line
Better(a, b) ==
  /\ Usable(a)
  /\ \/ ~Usable(b)
     \/ a.depth > b.depth
     \/ a.depth = b.depth /\ a.value > b.value
     \/ a.depth = b.depth /\ a.value = b.value /\ a.move < b.move

\* The orders that the lines can be brought into
Orders == Bijection(1 .. Cardinality(Moves), 1 .. Cardinality(Moves))

\* stable_sort puts a line before a later one unless that is better, and before an
\* earlier one only if better.
Before(i, j) == IF i < j THEN ~Better(lines[j], lines[i]) ELSE Better(lines[i], lines[j])

\* What it may leave
Sorted ==
  {[i \in DOMAIN from |-> lines[from[i]]] :
     from \in {f \in Orders : \A i, j \in DOMAIN f : i < j => Before(f[i], f[j])}}

\* stop_requested() after the search of a move
SeenStop == stop

\* What a search of a move worth v may return for the window (a, b).
Returned(v, a, b) ==
  IF stop \/ ~consistent THEN Scores
  ELSE IF v <= a THEN v .. a
  ELSE IF v >= b THEN b .. v
  ELSE {v}

\* Seeded fault: the lower bound stays where it is once delta is spent.
LowerForgotten == IF delta >= Inf THEN alpha ELSE Larger(alpha - delta, -Inf)

\* Widened alpha and beta, and the next delta
Lower == Larger(alpha - delta, -Inf)
Raised == Smaller(beta + delta, Inf)
Grown == IF delta >= Inf \div 2 THEN Inf ELSE delta * 2

\* A line that no search has filled in
Blank(move, value) == [move |-> move, value |-> value, depth |-> 0, done |-> FALSE]

\* The lines come in the picker's order, with eval_value::draw in them;
\* reset_search_state puts the static evaluation into the result.
Init ==
  /\ pc = "deepen" /\ stop = FALSE /\ depth = 1
  /\ consistent \in BOOLEAN
  /\ truth \in IF consistent THEN [Searched -> [Moves -> Values]]
              ELSE {[d \in Searched |-> [m \in Moves |-> 0]]}
  /\ \E order \in SetToSeqs(Moves) :
       lines = [i \in DOMAIN order |-> Blank(order[i], 0)]
  /\ \E eval \in Evaluations : result = Blank(0, eval)
  /\ alpha = -Inf /\ beta = Inf /\ delta = AspirationWindow
  /\ index = 1 /\ low = -Inf /\ hasPv = FALSE

\* The loop of search_root, and the first window of search_root_depth.
NextDepth ==
  /\ pc = "deepen"
  /\ IF depth > MaxDepth \/ stop
     THEN pc' = "returned" /\ UNCHANGED <<depth, window>>
     ELSE IF depth \in Skipped
     THEN depth' = depth + 1 /\ UNCHANGED <<pc, window>>
     ELSE /\ pc' = "aspire"
          /\ delta' = AspirationWindow
          /\ alpha' = Larger(result.value - AspirationWindow, -Inf)
          /\ beta' = Smaller(result.value + AspirationWindow, Inf)
          /\ UNCHANGED depth
  /\ UNCHANGED <<truth, consistent, stop, lines, pass, result>>

\* The loop head of search_root_depth: an attempt, unless there is a stop.
Attempt ==
  /\ pc = "aspire"
  /\ IF stop
     THEN pc' = "returned" /\ UNCHANGED <<lines, pass>>
     ELSE /\ pc' = "pass"
          /\ lines' = [i \in DOMAIN lines |-> Reset(lines[i])]
          /\ index' = 1 /\ low' = alpha /\ hasPv' = FALSE
  /\ UNCHANGED <<truth, consistent, stop, depth, window, result>>

\* Seeded fault: a scouted move that ties keeps the value it was scouted with.
TieKept(v) == v

\* The value a line gets when it did not raise alpha: a scout that ties is put
\* behind the move it ties with.
Tie(v) == IF index > 1 /\ hasPv /\ v = low /\ low > -Inf THEN low - 1 ELSE v

\* search_root_window records a value: a fail-high ends the pass.
Complete(v) ==
  /\ lines' = [lines EXCEPT ![index] =
       [@ EXCEPT !.value = IF v > low THEN v ELSE Tie(v), !.depth = depth, !.done = TRUE]]
  /\ low' = IF v > low /\ v < beta THEN v ELSE low
  /\ hasPv' = (hasPv \/ (v > low /\ v < beta))
  /\ IF v >= beta \/ index = Len(lines)
     THEN pc' = "verdict" /\ UNCHANGED index
     ELSE index' = index + 1 /\ UNCHANGED pc

\* The search of one root move: the whole window until there is a PV, then a
\* scout and, if that beats alpha, the whole window.  After a stop the scout is
\* final and nothing is recorded.
SearchMove(v) ==
  /\ pc = "pass"
  /\ LET real == truth[depth][lines[index].move]
     IN IF index = 1 \/ ~hasPv
        THEN v \in Returned(real, low, beta)
        ELSE \E scout \in Returned(real, low, low + 1) :
               IF scout > low /\ ~stop THEN v \in Returned(real, low, beta) ELSE v = scout
  /\ IF SeenStop
     THEN pc' = "returned" /\ UNCHANGED <<lines, pass>>
     ELSE Complete(v)
  /\ UNCHANGED <<truth, consistent, stop, depth, window, result>>

\* The rest of search_root_depth: sort, then widen the window or accept.  A mate
\* that is short enough ends the deepening.
Verdict ==
  /\ pc = "verdict"
  /\ lines' \in Sorted
  /\ LET value == lines'[1].value
     IN IF value <= alpha
        THEN /\ alpha' = Lower /\ delta' = Grown /\ pc' = "aspire"
             /\ UNCHANGED <<beta, depth, result>>
        ELSE IF value >= beta
        THEN /\ beta' = Raised /\ delta' = Grown /\ pc' = "aspire"
             /\ UNCHANGED <<alpha, depth, result>>
        ELSE /\ result' = lines'[1] /\ depth' = depth + 1
             /\ pc' = IF value \in Mates THEN "returned" ELSE "deepen"
             /\ UNCHANGED window
  /\ UNCHANGED <<truth, consistent, stop, pass>>

\* Another thread, or this one's own poll, requests a stop.
RequestStop ==
  /\ ~stop /\ pc # "returned"
  /\ stop' = TRUE
  /\ UNCHANGED <<pc, truth, consistent, depth, window, lines, pass, result>>

SearchStep == NextDepth \/ Attempt \/ Verdict \/ \E v \in Scores : SearchMove(v)

Terminated == pc = "returned" /\ UNCHANGED vars

Next == SearchStep \/ RequestStop \/ Terminated

Spec == Init /\ [][Next]_vars /\ WF_vars(SearchStep)

-----------------------------------------------------------------------------
(* What must hold.                                                         *)

\* The variables have their types, the window is open and within the scores.
TypeOK ==
  /\ pc \in {"deepen", "aspire", "pass", "verdict", "returned"}
  /\ truth \in [Searched -> [Moves -> Values \cup {0}]] /\ consistent \in BOOLEAN
  /\ stop \in BOOLEAN /\ hasPv \in BOOLEAN
  /\ depth \in 1 .. MaxDepth + 1
  /\ alpha \in -Inf .. Inf /\ beta \in -Inf .. Inf /\ low \in -Inf .. Inf
  /\ alpha < beta /\ delta \in 1 .. Inf
  /\ lines \in Seq(Line) /\ ToSet(lines) # {} /\ index \in DOMAIN lines
  /\ result \in Line \cup [move : {0}, value : Evaluations, depth : {0}, done : {FALSE}]

\* A completed depth is the truth about that depth: the result is a best move
\* with its value, whatever windows failed on the way, whichever bounds the
\* scouts returned, and whenever the stop came.
ResultIsBest ==
  consistent /\ result.done =>
    /\ truth[result.depth][result.move] = result.value
    /\ \A m \in Moves : truth[result.depth][m] <= result.value

\* The root moves are never lost, doubled or made up by sorting and resetting.
LinesAreTheMoves ==
  /\ Len(lines) = Cardinality(Moves)
  /\ {lines[i].move : i \in DOMAIN lines} = Moves

\* All of it, from the types up.
RootIsSound == TypeOK /\ LinesAreTheMoves /\ ResultIsBest

\* A depth is accepted only after every root move was weighed in the attempt that
\* is accepted, even when searches disagree: no fail-high that cut the pass short,
\* no line of an earlier attempt and no stopped pass gets through.
EveryMoveWeighed ==
  [][result' # result =>
       \A i \in DOMAIN lines : lines[i].done /\ lines[i].depth = depth]_vars

\* The search ends by itself: attempts may go on missing on either side, each
\* disagreeing with the last one, but the window grows to hold every score.
SearchEnds == <>(pc = "returned")
=============================================================================
