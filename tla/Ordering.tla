------------------------------- MODULE Ordering -------------------------------
(***************************************************************************)
(* The quiet-move memory of one worker: killers, counter moves and the two *)
(* scored histories with their bounded update.  Refutations live for one   *)
(* search, the histories for a game.                                       *)
(* Source: search/ordering/state.hpp, history.hpp, refutations.hpp.        *)
(***************************************************************************)
EXTENDS Integers

CONSTANTS
    Sides, QuietMoves,      \* a move stands for its squares from and to
    NoMove,
    Pieces, NoPiece,   \* what may stand on a square
    PAWN,
    Plies,
    Depths, Divisors,  \* the depths and malus divisors that occur
    MaxScore           \* history::max_score

ASSUME OrderingAssumption ==
    /\ NoMove \notin QuietMoves /\ NoPiece \notin Pieces /\ PAWN \in Pieces
    /\ Depths \subseteq Nat /\ Divisors \subseteq Int
    /\ MaxScore \in Nat \ {0}

VARIABLES
    killers,         \* [Plies -> <<primary, secondary>>]
    counters,        \* [Replied -> the quiet reply]
    quiets,          \* [Sides \X QuietMoves -> score]
    continuations,   \* [Replied \X Pieces \X QuietMoves -> score]
    refuted,         \* history: the moves recorded since the search began
    event            \* history: the kind of the last step

orderingVars == <<killers, counters, quiets, continuations, refuted, event>>

\* The previous move as the tables know it: its piece, of the side that is not
\* to move, and its square.
Replied == Sides \X Pieces \X QuietMoves

\* What the last move leaves: its piece, a pawn if it promoted, no context if
\* nothing stands there or there was no move.
MakeContext(side, opponent, move, promoted, piece) ==
    LET moved == IF promoted THEN PAWN ELSE piece IN
    IF move = NoMove \/ moved = NoPiece
    THEN [side |-> side, reply |-> FALSE]
    ELSE [side |-> side, reply |-> TRUE, previous |-> <<opponent, moved, move>>]

-----------------------------------------------------------------------------
(* The bounded update of an entry.                                           *)

MaxOf(a, b) == IF a >= b THEN a ELSE b
Clamp(x, lo, hi) == IF x < lo THEN lo ELSE IF x > hi THEN hi ELSE x

\* Division truncates toward zero.
Quotient(a, b) == IF a >= 0 THEN a \div b ELSE -((-a) \div b)

DepthBonus(depth, divisor) == Clamp(Quotient(depth * depth, MaxOf(1, divisor)), 0, MaxScore)

\* Seeded fault: the pull has twice its strength.
GravityDoubled(current, adjustment) ==
    LET weight == IF adjustment < 0 THEN -adjustment ELSE adjustment IN
    adjustment - Quotient(2 * current * weight, MaxScore)

Gravity(current, adjustment) ==
    LET weight == IF adjustment < 0 THEN -adjustment ELSE adjustment IN
    adjustment - Quotient(current * weight, MaxScore)

ApplyGravity(current, adjustment) ==
    Clamp(current + Gravity(current, Clamp(adjustment, -MaxScore, MaxScore)), -MaxScore, MaxScore)

Rewarded(current, depth) == ApplyGravity(current, DepthBonus(depth, 1))
Penalized(current, depth, divisor) == ApplyGravity(current, -DepthBonus(depth, divisor))

Aged(current) == Quotient(current, 2)

-----------------------------------------------------------------------------
NoKillers == [p \in Plies |-> <<NoMove, NoMove>>]
NoCounters == [r \in Replied |-> NoMove]

OrderingInit ==
    /\ killers = NoKillers /\ counters = NoCounters
    /\ quiets = [k \in Sides \X QuietMoves |-> 0]
    /\ continuations = [k \in Replied \X Pieces \X QuietMoves |-> 0]
    /\ refuted = {} /\ event = "clear"

\* Seeded fault: the counter moves of the last search stay.
ClearedCountersKept == counters

ClearedCounters == NoCounters

PrepareForSearch ==
    /\ killers' = NoKillers /\ counters' = ClearedCounters
    /\ quiets' = [k \in Sides \X QuietMoves |-> Aged(quiets[k])]
    /\ refuted' = {} /\ event' = "age"
    /\ UNCHANGED continuations

Clear ==
    /\ killers' = NoKillers /\ counters' = NoCounters
    /\ quiets' = [k \in Sides \X QuietMoves |-> 0]
    /\ continuations' = [k \in Replied \X Pieces \X QuietMoves |-> 0]
    /\ refuted' = {} /\ event' = "clear"

KillerEntered(pair, m) == IF pair[1] = m THEN pair ELSE <<m, pair[1]>>

UpdateQuietRefutations(context, m, ply) ==
    /\ killers' = [killers EXCEPT ![ply] = KillerEntered(@, m)]
    /\ counters' = IF context.reply THEN [counters EXCEPT ![context.previous] = m] ELSE counters

\* piece is what stands on the square the move leaves.
RewardQuiet(context, m, piece, depth) ==
    /\ quiets' = [quiets EXCEPT ![<<context.side, m>>] = Rewarded(@, depth)]
    /\ continuations' =
         IF context.reply /\ piece # NoPiece
         THEN [continuations EXCEPT ![<<context.previous, piece, m>>] = Rewarded(@, depth)]
         ELSE continuations

\* A quiet beta cutoff.
QuietCutoff(context, m, piece, ply, depth) ==
    /\ UpdateQuietRefutations(context, m, ply)
    /\ RewardQuiet(context, m, piece, depth)
    /\ refuted' = refuted \union {m} /\ event' = "reward"

PenalizeQuiet(context, m, piece, depth, divisor) ==
    /\ quiets' = [quiets EXCEPT ![<<context.side, m>>] = Penalized(@, depth, divisor)]
    /\ continuations' =
         IF context.reply /\ piece # NoPiece
         THEN [continuations EXCEPT ![<<context.previous, piece, m>>] = Penalized(@, depth, divisor)]
         ELSE continuations
    /\ event' = "malus"
    /\ UNCHANGED <<killers, counters, refuted>>

\* The nodes at which the memory is consulted and updated.
NodeContexts ==
    {MakeContext(side, opponent, move, promoted, piece) :
        side \in Sides, opponent \in Sides, move \in QuietMoves \union {NoMove},
        promoted \in BOOLEAN, piece \in Pieces \union {NoPiece}}

OrderingNext ==
    \/ PrepareForSearch
    \/ Clear
    \/ \E context \in NodeContexts, m \in QuietMoves, piece \in Pieces, depth \in Depths :
         \/ \E ply \in Plies : QuietCutoff(context, m, piece, ply, depth)
         \/ \E divisor \in Divisors : PenalizeQuiet(context, m, piece, depth, divisor)

OrderingSpec == OrderingInit /\ [][OrderingNext]_orderingVars

-----------------------------------------------------------------------------
IsKiller(m, ply) == m \in {killers[ply][1], killers[ply][2]}
CounterHint(context) == IF context.reply THEN counters[context.previous] ELSE NoMove

QuietScore(context, m, piece, include_continuation) ==
    quiets[<<context.side, m>>]
      + IF include_continuation /\ context.reply /\ piece # NoPiece
        THEN continuations[<<context.previous, piece, m>>] ELSE 0

EntryScore == -MaxScore .. MaxScore

EntriesInRange ==
    /\ killers \in [Plies -> (QuietMoves \union {NoMove}) \X (QuietMoves \union {NoMove})]
    /\ counters \in [Replied -> QuietMoves \union {NoMove}]
    /\ quiets \in [Sides \X QuietMoves -> EntryScore]
    /\ continuations \in [Replied \X Pieces \X QuietMoves -> EntryScore]
    /\ refuted \subseteq QuietMoves /\ event \in {"clear", "age", "reward", "malus"}

\* Every hint is a move that refuted something in this search: after
\* prepare_for_search no killer or counter move of the search before is left,
\* and the killers of a ply are two different moves (State::prepare_for_search,
\* KillerMoves::update).
HintsOfThisSearch ==
    /\ \A p \in Plies, m \in QuietMoves : IsKiller(m, p) => m \in refuted
    /\ \A p \in Plies : killers[p][1] = killers[p][2] => killers[p][1] = NoMove
    /\ \A context \in NodeContexts : CounterHint(context) \in refuted \union {NoMove}

\* The score of a quiet move is the sum of two bounded entries, below every
\* capture of the picker's bands (the static_assert at picker.cpp:24).
QuietScoresBounded ==
    \A context \in NodeContexts, m \in QuietMoves, piece \in Pieces \union {NoPiece}, with \in BOOLEAN :
        QuietScore(context, m, piece, with) \in -(2 * MaxScore) .. 2 * MaxScore

\* The update keeps an entry in range by its gravity alone: its clamp changes
\* nothing, so an entry approaches the limit and a reward near it is never a
\* step over it (apply_gravity: entries approach saturation smoothly).
GravityKeepsRange ==
    \A k \in Sides \X QuietMoves, depth \in Depths, divisor \in Divisors, sign \in {1, -1} :
        quiets[k] + Gravity(quiets[k], sign * DepthBonus(depth, divisor)) \in EntryScore

\* A reward never lowers a score and a malus never raises one, a truncated
\* division on a negative entry included, and only aging may take a score
\* toward zero from either side (reward_entry, penalize_entry, age_entry).
UpdatesPointTheirWay ==
    [][\A k \in Sides \X QuietMoves :
         CASE event' = "reward" -> quiets'[k] >= quiets[k]
           [] event' = "malus" -> quiets'[k] <= quiets[k]
           [] event' = "age" -> \/ 0 <= quiets'[k] /\ quiets'[k] <= quiets[k]
                                \/ quiets[k] <= quiets'[k] /\ quiets'[k] <= 0
           [] event' = "clear" -> quiets'[k] = 0]_orderingVars

\* The arithmetic of the memory: entries stay on their scale by themselves and
\* every update moves them the way it means to (history.hpp).
UpdatesAreSound ==
    [](EntriesInRange /\ QuietScoresBounded /\ GravityKeepsRange) /\ UpdatesPointTheirWay
===============================================================================
