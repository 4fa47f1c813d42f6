# Latrunculi: TLA+ models and proofs

Latrunculi is a UCI chess engine in C++. This directory holds TLA+
specifications of its parts, TLC configurations that check them on small
instances, and TLAPS proofs of the main safety properties for all values of the
constants. Paths below are relative to the repository; `PROJECT.json` maps each
definition to the lines it stands for.

Run, in this directory:

    tlc -config Lifecycle.cfg MCSearchPool.tla     # any .cfg, see "Runs"
    tlapm SearchPoolProofs.tla                      # any *Proofs module

## 1. Inventory

| Component | State | Operations | Talks to |
|---|---|---|---|
| UCI engine (`uci/engine.*`) | board, options, debug mode | one handler per command; `loop` reads lines one by one | the thread pool, the table, the board, the writer |
| Thread pool (`search/thread_pool.*`) | threads, ponder flag, helper gate; per thread `searching`, `shutdown_requested`, a mutex and a condition variable | start, stop, leave pondering, resize, shutdown, is_searching, gate, stop helpers | driven by the UCI thread; by the main worker (gate, helpers, stop when a limit is spent) |
| Worker (`search/worker.*`, `root_line.*`) | board copy, limits, root lines, result, snapshot under its mutex, stop flag, pending move | configure, search, finalize, select, publish | pool, table, reporter |
| Root search (`search/algorithm.cpp` 113-250) | depth, aspiration window, root lines | deepening, aspiration loop, root window | alpha-beta |
| Alpha-beta and quiescence (`search/algorithm.cpp` 252-end) | window, ply, best move | recursion with pruning, table cutoffs and stops | board, table, picker, histories |
| Transposition table (`search/tt.*`) | clusters of two-word atomic entries, generation | probe, store, clear, resize, advance_generation | all workers, without a lock |
| Limits (`search/limits.*`) | the request | setters, allocated_time, mate and root-move tests | worker |
| Ordering (`search/ordering/*`) | picker stage, hints; killers, counters, histories | next, skip_quiet_moves; gravity updates | board |
| Board (`board/*`, `core/*`) | pieces, state stack, incremental key | make, unmake, null move, legality, draws, SEE, FEN | everything |
| Move generator (`movegen/*`) | none | pseudo-legal moves | board |
| Evaluation (`eval/*`) | none | static score | board |
| Parser, options, writer (`uci/*`) | option values; output mutex | tokenise, set, print | engine, workers |
| Bench tools (`bench/*`) | a child engine | UCI client with timeouts | the engine's pipes |

Hard behaviours, and what makes each component correct:

* **Session**: commands cross the end of a search. Each accepted `go` must be
  answered by one `bestmove`, not before `ponder`/`infinite` allow it, with a
  legal and allowed move, and a command sent after it must not be refused.
* **Pool**: four kinds of wait (parked, gate, ponder/stop flags, waiting for
  others to go idle), `notify_one` on a condition variable with several kinds of
  waiters, two callers of `request_stop` (UCI thread and main worker), resizing
  and destruction. Nobody may be left asleep, helpers may search only inside the
  main worker's search, the pool may change only when idle.
* **Worker**: results are collected from others; none may be late, missing or
  of another search.
* **Table**: unlocked words on weakly ordered memory. A probe may miss, never mix.
* **Root search, alpha-beta**: a stop unwinds with meaningless values; the
  aspiration loop has to end.
* **Ordering, limits**: long sequences of small steps with boundaries (signed
  gravity near its ends, clock arithmetic, each move picked exactly once from
  an array that is swapped as it is read).
* **Board and its readers**: every feature of a position is stored several times
  and changed move by move; each copy has to equal its recomputation, and come
  back when the move is taken back. The generator, the legality rules, the
  exchange evaluation and perft all trust it.
* **Evaluation**: one mutable evaluator updated by both operands of `-`, whose
  order C++ leaves open.
* **Text**: loops that run along tokens or characters in any order.
* **Bench client**: a child process that is slow, refuses, or dies.

The hazards are listed, each at its line, in `PROJECT.json`.

## 2. Modules

    UciSession             what the GUI is promised
       ^ refinement
    SearchPool             UCI thread, pool, workers
       ^ EXTENDS
    SearchPoolInvariants <- SearchPoolProofs (TLAPS)
       ^
    MCSearchPool (TLC)

    TranspositionTable <- TableProofs (TLAPS)     RootSearch <- RootProofs (TLAPS)
       ^                                             ^
    MCTable (TLC)                                 MCRootSearch (TLC)

    Scores <- Negamax <- AlphaBeta <- AlphaBetaInvariants <- AlphaBetaProofs (TLAPS)
       ^                                     ^
       |                              MCAlphaBeta (TLC)
    MateScores, Limits <- NumberProofs (TLAPS)

    Picker, Ordering <- OrderingProofs (TLAPS)
       ^
    MCOrdering (TLC)

    Geometry <- Board <- Generator <- Game
                   ^         ^          ^
                  See    Positions <- MCGame (TLC)
       Perft, Weights <- Evaluation     MCPositions (TLC): See, Perft, Evaluation

    MCUci (TLC): Limits, MateScores, UciParser, Fen
    BenchClient (TLC) <- BenchProofs (TLAPS)

How they meet in the code: the UCI thread parses a line (`UciParser`), loads a board
(`Fen`, `Board`) or starts a search (`Limits`, `SearchPool`); each worker deepens
(`RootSearch`) over calls of `AlphaBeta`, which plays on a `Board`, asks the table
(`TranspositionTable`, `Scores`), the picker (`Picker`, fed by `Generator`, `See` and
`Ordering`) and the evaluation. Each module takes its neighbours by what they promise,
and that promise is a property of the neighbour's run: the pool takes a depth as any
line (`RootIsSound` says which), the root search takes any fail-soft bound
(`SearchIsTrue`), alpha-beta takes any order of the moves, each once (`PicksAreSound`,
`PicksAreComplete`), the picker takes moves from another position (`ProbeIsGenuine` only
says that they were stored for the key).

### SearchPool

The UCI thread, the threads of the pool and their workers. Threads are numbers,
0 is the main worker. A step is what a thread does between two accesses to
shared state: one critical section, or one atomic operation.

* `upc`, `ui`, `cmd` are the UCI thread: the point it is at, the index of the
  loop it is in, the command it handles. `pc[t]` is thread `t` in `idle_loop`
  and `Worker::search`; `mi` the index of the main worker's loops. The other
  variables carry the names of the fields they model.
* A condition variable is the set of actors asleep on it. A waiter whose
  predicate is false joins the set under the mutex, `notify_one` removes any one
  member, `notify_all` all of them, and `SpuriousWake` may remove one at any
  time. A waiter outside of the set looks at its predicate again.
* An atomic wait (`pondering`, the stop flag) is `asleep`; the store and the
  notification are one step, for in between the waiter can only be asleep or see
  the new value.
* A mutex is held over one step, except when `bestmove` is printed under it
  (`Locked`): the GUI may read the line before the thread is idle.
* `any_of` in `is_searching` asks thread after thread, each under its own
  mutex (`ScanThread`). `start_search` and `resize` ask again (`rescan`).
* The search of one depth is one step with any value and any root move
  (`CompleteDepth`), or it is abandoned when a stop was raised (`AbandonDepth`);
  the clock and the node count, polled by the main worker only, may be found
  spent during it (`PollLimits` and the steps of its `request_stop`).

Abstracted: the variation, progress reports, node counts; commands that only
print; the pool's own `shutdown_requested` (only `quit` sets it, after which no
command is read); the second, idempotent `shutdown()` in `~Thread`. The end of
input, `quit` and `exit` are one command: at the end of input it is the
destructor that shuts the pool down.

### UciSession

One search at a time on a position that stays, held while it ponders or is
infinite, answered once by an allowed move. `SearchPool` implements it under
the mapping `busy <- asked # told`, `ponderHeld <- Owed /\ pondering`,
`infiniteHeld <- Owed /\ job[Main].lim.infinite /\ ~stop[Main]`.

### TranspositionTable

One cluster, for keys map to clusters independently. `probe` and `store` of any
number of threads (`crew` are the ones that work in a behaviour), split at each access
to an atomic. Memory is weakly ordered:
each word is the history of its writes, a load returns any write not older than
what the thread has seen of that word, and an acquire of a signature makes
visible what its writer had seen of the payload. This allows every order that
the C++ memory model allows for these accesses and some more (it never orders
the relaxed payload load before the second acquire load, the order in which
mixing would be most likely). Words are sets of bits, `Xor` is the symmetric
difference. The assumptions are that packing is injective and never zero for a
valid bound, and that keys do not collide (`KeyAssumption`): a 64-bit Zobrist
collision would defeat any table.

Abstracted: the score (part of the payload, as the move is), the bit layout, the
choice of the cluster. `Clear` stands for `clear` and `resize`, which the UCI
thread calls only when all workers are idle (`ExclusiveWhenIdle`).

### RootSearch

`SearchPool` takes the search of one depth as one step; `RootSearch` is that step,
for one worker. `pc` is the loop it is in: deepening (`NextDepth`), the aspiration
loop (`Attempt`), the pass over the root moves (`SearchMove`, one root move), the
verdict on the pass (`Verdict`). `truth` is what the moves are worth at each
depth, chosen at the start. Below the root there is only `Returned`: for a window
the true value lies in, that value, otherwise any bound between the window's edge
and the value (fail-soft). When `consistent` is false it is any score, which is
what table entries of other depths, repetitions and reductions can amount to: what
holds then holds whatever alpha-beta does. After a stop it is any score in either
case. A stop may come between any two steps; one that comes within a root move's
search has the effect of one before it.

`std::stable_sort` of the lines is the set of their orders by value in which equal
values keep their places (`Sorted`), which has one member; as a set it can be reasoned
about without recursion. Lines start with the static evaluation of the root
(`Evaluations`), which need not be a value that a move has.

Abstracted: which depths helpers skip (`Skipped`; `SearchPool` has the formula), which
scores are short enough mates (`Mates`), variations, reports, statistics, snapshots.

### Negamax, AlphaBeta

`AlphaBeta` is what `Returned` stands for: `alphabeta` and `quiescence` as a machine of
calls. `stack` holds the running calls with their locals and the point each is
at, `path` the board as the list of positions made, `answer` what the last call to
return returned. Every step of the source (its comments number them) is an action:
stop check, draw and last ply, mate distance, table, razoring, null move, futility,
reductions, scout and re-search, cutoff, learning, store. A stop may come at any
step. The table persists from call to call.

`Negamax` is the reference: the value of a position by definition, without windows, as a
recursive function of the plies left below the last ply. `SearchAssumption` names what the
game and the settings are: legal moves lead to positions, windows are open and within the
infinities, and an evaluation is never a mate score.
The game is a small graph in which a move is named by the position it leads to, so
that positions transpose. Draws, checks, captures, killers and evaluations are given
per position: repetition depends on the path in the code, and `DrawsMatchHistory` of
`Game` is about that. The picker is any order of its moves with the table's move first. The logarithms
of `lmr_reduction` are any number within its clamp; `FailedQuiets` never overflows.
With pruning off, the search has to equal the reference. With pruning on it does
not, by design, and what must hold is that the board comes back, nothing made up
is stored and passing is fair.

### Picker, Ordering

`Picker` is the stage machine of `Picker::next` over its one candidate array, with
`pick` as selection and swap in a range, hints validated against the position, and
`skip_quiet_moves` between any two picks. Positions are records of the lists the
generator would return; scores are given per move.

`Ordering` is the memory the picker is given: killers, counter moves, quiet and
continuation histories, with the truncated division of `apply_gravity`, aging at a
new search, clearing at a new game. `CaptureHistory`, which nothing uses, is the
same entry update and is left out.

### Scores, MateScores, Limits

`Scores` has the bands and the ply shift of `store` and `score_at_ply`. `MateScores` follows
one score from the leaf where it is born, through negations, stores and probes at
other plies, to the root, where it ends a "go mate" search and is written in moves.
`distance` is a history variable: the plies to the mate the score is of. Evaluations
are assumed to stay inside the mate band (`MateScoresAssumption`).

`Limits` has the setters, the go handler and `allocated_time` in arithmetic that
wraps at the width of the count. An optional number is a set of at most one.

### Geometry, Board, Generator, Game

`Geometry` builds squares, rays, attack tables, lines and castling squares as the code
does at compile time or start-up, with a bitboard as a set of squares. `Board` is the
mutable position as a record: pieces three times (squares, bitboards, counts), the
stack of ply states with the byte-wide clock, make, unmake, null moves, legality,
checks, draws, loading and writing a FEN's fields. A Zobrist key is the set of
features hashed into it and XOR the symmetric difference, so keys are equal exactly
when features are. `Generator` has the four modes and `to_san`. `Game` plays moves that
pass `is_legal_move` (`Playable`; the generated ones are among them, `GeneratorComplete`),
null moves and unmakes; its properties compare each kept feature with its definition
from the squares alone, and the generator with the rules of movement. `Kept(b)` is a
board in order: typed, the three copies of the pieces agree, a king stands where its colour's entry
says, the key is the position's. `Starts`, the positions a game may be loaded from, is assumed to
load to boards in order; TLC evaluates that for the positions of the runs.

### See, Perft, Weights, Evaluation, Positions

What reads the board. `See` is the loop of `Board::see` with its early exit and
back-up, against the recursive exchange. `Perft` is the recursion as a stack over the
one board. `Evaluation` evaluates one half of a term (one colour) a step, the halves
of a subtraction in either order, and writes what later terms read; `Weights` has the
tuned constants, the tapering and the truncating division. Piece-square tables are
any bonus that tells squares apart. `Positions` are the boards of the runs.

### UciParser, Fen

`UciParser` has the token loops of each command (`go`, `position`, `setoption`, the
first word) and `Options::set`; which tokens are numbers is given. `Fen` has the six
fields of the parser, with the placement character by character and the numbers of
the last two, and `to_fen`; the board's size and the kinds of pieces are parameters.

### BenchClient

`run_position` of `bench/benchlib/uci.py` and its child: the handshake, the search, the
drain after `quit`, the end of the process and the `with` block that waits for it. The
terminal echoes what is written. A read may time out whenever nothing has arrived; the
engine may refuse an option and may die at any moment.

### One run, several settings

Components that do not meet share a run in which a variable chosen at the start
says what a behaviour is about, and only that part moves: `script` (what the GUI may
send), `crew` (which threads use the table), `consistent`, `setting` (evaluations, windows,
pruning), `bounds` (position, movable squares and number of plies of a game), `study`
(in `MCOrdering`, `MCPositions`, `MCUci`). An invariant about one of them names it where
it must.

### Seeded faults

An operator marked "Seeded fault" stands before the definition it would
replace and is used nowhere. It is the code with a plausible mistake; each
property is violated by one (`mutants` in `PROJECT.json`), which shows that the
property says something about the code.

## 3. Runs

| Run | Instance | What it shows |
|---|---|---|
| lifecycle | 2 threads, 2 searches of any mode (mate, infinite, ponder and infinite, ponder with a clock) or 2 positions, one mated, with legal and illegal searchmoves; stop, ponderhit, quit | types, exclusive access, no spurious refusal, helpers inside the main search, no lost wake-up, one answer each, results of this search and none made up, every step one of `UciSession` or a stutter |
| options | 1-3 threads resized with failures, positions and resets around a search; or 3 threads, depth 2, stops from GUI and clock | option and pool agree, changes only when idle, no thread left asleep; the answer misses no helper's result |
| liveness | 2 threads, 1 search of any mode, fairness | the session's liveness (a stop brings the answer); quit ends the engine |
| table | 2 threads, 2 stores, any probes; or 1 thread, 3 stores over 2 generations; 2 keys, 2 entries | a probe never returns a mixed or foreign record; one thread keeps one entry per key, finds what it stored, keeps depth and move |
| root | 3 root moves, depth 2 of 3 skipped, 3 values in any assignment, agreeing searches or searches that return anything | a completed depth is a best move with its value; every move was weighed in the accepted attempt; the search ends |
| alphabeta | 9 positions, 2 calls over one table; depth 2 exact, depth 3 with pruning; full, null and mate windows; any stop | answers are the game's value within their window, records and lessons are true, the variation has the value; no sentinel stored, board restored, no two passes; an abort unwinds |
| ordering | 8 moves and 3 foreign ones in two positions, every table move, hint pair and skip; 2 moves, 2 plies, scale 12 | each move once and only if it is there, none lost, stages in order, no quiet one after a skip; hints of this search; gravity |
| game | 9 tactical positions, 2 plies of moves, null moves, unmakes; shuffles of 8 and 6 plies on 5 squares | storage, key, terms, checkers and blockers equal their definitions; unmake restores; generator, legality, gives_check and SAN are exact; draws match the history; a reloaded game is the same |
| positions | 5 attackers and 4 defenders in every subset; 5 perft positions; 256 pawn structures and 7 rich positions | the sign of an exchange and its error; every leaf counted once; symmetric under colours and evaluation order; attacks and pawn terms exact |
| uci | token lines of each command, 3x3 boards of 4 pieces, counts of 4 bits, mate scores in a search of 4 plies | lines, boards and numbers are read as written; mates keep their distance |
| bench | one position, up to 3 reports, an engine that is late, refuses or dies | the row is of its search, an answer read is kept, no engine survives, the run ends unless a read timed out |
| clock_wraps | violation | the halfmove byte wraps and a fifty-move draw is forgotten |

Why the bounds are enough.

*Pool.* Threads interact through the main worker and the UCI thread; one helper
shows every wait and race between them, a second is needed where the order of
helpers matters (loops in index order, selection among several results, shrinking
a pool that keeps a helper): `options` has it. Two searches in a row show what one
leaves behind for the next. Two depths show one completed, abandoned and skipped;
values matter only by their order and by being a mate.
*Table.* Two stores are what it takes to mix two, two entries what it takes to
choose, three stores to evict and to come back; the cluster has four entries in the
code. Keys and payloads share a bit, as real ones do. Replacement is checked for one
thread because racing threads may leave a key in two entries, which the code accepts.
*Root.* The third move can tie with the second after the first failed low; values lie
at, next to and far from the first window, so that attempts hit, miss by one, and
miss until the window is whole.
*Alpha-beta.* The graph has two paths to one position, a mate, a stalemate, a draw, a
capture and a check at the horizon, and a last ply; two calls show what the first
leaves in the table for the second. Bounds: `MaxCalls`, depth 2 without and 3 with
pruning (a reduction needs three).
*Ordering.* Every overlap of table move, hint and list occurs, with scores that tie,
are negative, or sit at a band's edge. Every pair of entry and bonus occurs at a
scale of 12.
*Board.* What goes wrong on a board goes wrong at rare squares, not after many
moves: the positions put pins on every kind of line, en passant that discovers,
promotes under check, takes rooks at home. Two plies undo and redo each.
Repetition and the fifty-move rule need length and few pieces, hence the shuffles.
*Positions.* Structures are subsets, so that passed, doubled, isolated and edge
pawns occur in combination.
*Text and numbers.* Lines of `MCUci` hold every keyword, number and junk token in
positions before and after each other; a 3x3 board has short, full and overlong
ranks. Four bits have both ends, zero, and sums that wrap.
`MaxSearches`, `MaxStores`, `MaxGenerations`, `MaxCalls`, `MaxInfos` and `bounds` bound
the environment only. The proofs below have no bounds.

Fairness. `SearchPool`: `WF` of the UCI thread's own steps (not of `ReadCommand`: nothing
makes the GUI send) and of each thread's steps. The operating system schedules
runnable threads; no step is enabled and disabled again forever except by progress of
others. The weak fairness of a thread includes that the search of one depth ends,
which the bounded depth and ply justify. No fairness is assumed for the clock: a
search ends by its depth. `RootSearch` has `WF` of its own steps and none for
`RequestStop`. `BenchClient` has `WF` of the client, whose reads return or time out, and of
the engine as a whole, which goes on reading and searching until it exits; a crash is never due.

Deadlock is checked except in the runs whose behaviours stop: every study ends in a
result, and a benchmark position in a row or an error.

## 4. Proofs

| Theorem | Property | Module |
|---|---|---|
| TypeCorrect | `Safety => []TypeOK` | SearchPoolProofs |
| Exclusive | `Safety => []ExclusiveWhenIdle` | SearchPoolProofs |
| AnsweredOnce | `Safety => []OneAnswerEach` | SearchPoolProofs |
| NotRefused | `Safety => []NoSpuriousRefusal` | SearchPoolProofs |
| NobodyLeftAsleep | `Safety => []NoLostWakeup` | SearchPoolProofs |
| PoolStaysSafe | `Safety => []PoolChangesSafely` | SearchPoolProofs |
| HelpersInside | `Safety => []HelpersInsideMainSearch` | SearchPoolProofs |
| ResultsStaySound | `Safety => []ResultsAreSound` | SearchPoolProofs |
| HelpersHeard | `Safety => []HelpersAreHeard` | SearchPoolProofs |
| SessionIsImplemented | `Safety => ImplementsSessionSafety` | SearchPoolProofs |
| SearchFindsTheValue | `Graded(distance)` implies `Spec => []SearchIsTrue` | AlphaBetaProofs |
| SearchStaysClean | `Spec => []PruningIsClean` | AlphaBetaProofs |
| StopUnwinds | `Spec => AbortUnwinds` | AlphaBetaProofs |
| TableTypes | `Spec => []TypeOK` | TableProofs |
| ProbesAreGenuine | `Spec => []ProbeIsGenuine` | TableProofs |
| ReplacementStaysSound | `Spec => []ReplacementIsSound` | TableProofs |
| RootStaysSound | `Spec => []RootIsSound` | RootProofs |
| MovesAreWeighed | `Spec => EveryMoveWeighed` | RootProofs |
| MovesAreTakenBack | `Spec => []UnmakeRestores` | BoardProofs |
| BoardStaysKept | `Spec => [](TypeOK /\ Kept(board))` | BoardProofs |
| DrawsStayExact | `Spec /\ []ClockFits => []DrawsMatchHistory` | BoardProofs |
| FiftyMovesStandBelowWrap | `Spec /\ []ClockFits => FiftyMovesStand` | BoardProofs |
| PicksStaySound | `Spec => PicksAreSound` | OrderingProofs |
| PicksStayComplete | `Spec => []PicksAreComplete` | OrderingProofs |
| HintsAreOfThisSearch | `OrderingSpec => []HintsOfThisSearch` | OrderingProofs |
| UpdatesStaySound | `OrderingSpec => UpdatesAreSound` | OrderingProofs |
| LimitsStaySound | `Spec => []LimitsAreSound` | NumberProofs |
| MatesStayCounted | `MateSpec => []MatesAreCounted` | NumberProofs |
| RowStaysSound | `Spec => []RowIsSound` | BenchProofs |

They hold for any number of threads, commands, games, positions, moves, depths, keys,
entries, stores and reports, and for every width, scale, window and score, from the
assumptions named in the modules. Each invariant that a proof adds was first checked by
TLC on the instance of the run, except the line of boards in `GameInv`, which speaks of every
history a game may have: of it TLC checks `Kept` and `UnmakeRestores`, board by board.

**Pool.** `TypeOK` is not inductive: `CompleteDepth` adds one to `depth[t]`, so
`TypeInv` adds that a depth being searched is at most `MaxDepth` (`DepthBound`).
`ExclusiveWhenIdle` says that threads are idle when a command acts; the reason
is spread over the scan that came before. `ExclusiveInv` states it: a scan at
index `ui` has passed only threads that do not search (`ScannedIdle`); a thread
that works is searching (`ThreadStates`), so an idle flag means an idle thread;
and only a shutdown that has reached a thread ends it (`UciLoops`,
`ShutdownReached`), so scan, wake and join loops stay in a pool whose threads
are there. The flags stay down while the answer is used because only the UCI
thread raises one. `AnswerInv` counts: an answer is owed exactly from the wake of
the main worker to its print (`AnswerOwed`); helpers are searching only while
the main worker is and are idle once it has waited for them (`HelpersAwaited`),
so that no thread is searching when `bestmove` is read, except the main worker
under the mutex it prints under; a command that came when no answer was owed
therefore meets no searching thread (`QuietCommand`); a shutdown leaves none
either (`ClosedIdle`). `OneAnswerEach` and `NoSpuriousRefusal` follow.

**Waiting.** `ParkInv` names everyone who can sleep on a thread's condition, and what each
sleeps for (`Sleepers`): the thread itself, idle and not told to end; the main worker or the
UCI thread at their waits for it to go idle, while it searches or is about to notify. Since
a thread idle in its loop and a waiter for its idleness are never asleep on one condition
together, `notify_one` cannot wake the wrong one. `GateSleepers` and `MainAsleep`
say the same of the gate and of the two flags. `PoolThreads` ties the option, the size and
the threads that exist, for resizing.

**Helpers.** A helper passes the gate when it is open or when the helper is told to stop.
`StoppedBeforeRelease`: while the main worker has not advanced the generation an open gate
means that a stop opened it, and a stop raises every flag first (`StopsRaised`), so
whoever got through searches nothing. Woken helpers meet a closed gate (`GateClosed`).

**Results.** All threads have the main worker's request as long as it searches (`JobInv`), although
they are configured one after the other and woken one after the other. `ResultInv` follows a line from
the worker to its snapshot: of the own request, completed when it is past the first depth
(`WorkerLines`), completed or stopped when the search is left (`LeftWithResult`), and a
snapshot is of this search or was cleared for it (`SnapshotLines`). `SelectInv`: who has finalized
shows its result (`ResultShown`), and by the time of the selection all have, since the main
worker waited for each.

**Session.** The refinement is proved action by action: `Wake` of the main worker accepts the
search, `Publish` answers it, `ponderhit`, the stores of a stop and the worker's leaving the hold release it,
everything else stutters. `SessionInv` gives the guards of the session's answer: a search that
is held has not passed the hold (`HeldBack`), and the move about to be printed
is an allowed one (`AnswerAllowed`), which rests on `ResultInv` through the selection.

**Table.** `GenuineInv`: every signature in memory or in the hands of a probe was
made of a key and a record in `published` (`SignaturesGenuine`), and a store
between its two writes has published what it signs (`SignsPublished`). The
algebra of `Xor` does the rest (`HitIsGenuine`): if a genuine signature of `(k, p)` and
a payload `q` yield key `l`, then `k xor p = l xor q`, so `k = l` and `p = q`, as keys do
not collide. The proof never uses which write a load returns, nor that the two
loads of the signature agree: the XOR check alone makes probes genuine, and the
memory order of the payload does not matter to it.
Replacement is another matter, and holds for a thread that works alone (`Alone`).
`SoleInv`: it has seen every word (`Abreast`), so that what it loads is what is in memory, and
each signature stands with the payload it was written after (`Paired`). No entry passed by a
scan has the key (`Scanned`); hence the entry to be overwritten is the only one that may
have it, with a record that need not be kept (`Chosen`). A store therefore leaves one
entry per key (`OneKeyEach`), which is found (`StoreFound`), and a record follows another
of its key only with the depth and the move that are to be kept (`Follows`).

**Root.** `Weighed(n)` is the loop invariant of a pass: the first `n` lines have values of this depth that
`low` bounds; with a best move, `low` is its value and no other line reaches it; without one
nothing rose above alpha. It is what makes a fail-low detectable, and after the stable sort it says that
the first line is the best move. `LinesAreTheMoves` is needed for the pass to be complete: the sorts permute
the lines and lose none. Stopped passes leave `result` alone, so that `ResultIsBest` survives.

**Board.** `UnmakeRestores` needs a board in order: where the copies of the pieces disagree,
unmake gives back something else. So the proof is of both at once. (1) `AddPiece`, `RemovePiece` and
`MovePiece` keep the copies equal (`AddAgrees` and so on), keep the key that of the position since
its parts share no feature (`Kinds`, `KeyPut`, `KeyDrop`), undo one another (`AddUndone`,
`RemoveUndone`, `MoveUndone`), and two that touch different squares may change places
(`MovesCommute`, for castling, where unmake moves the king back before the rook).
(2) `Posing`: what `is_pseudo_legal` checked is what make relies on: the piece
stands at its source, the captured one where make takes it from, the way is free, a promotion is
no double step, the castling squares differ. (3) Through the stages of make, the board is `Sound` with
the en passant target in or out of the key, and its pieces are those of the same move without a
key (`MadeStage`); unmake meets `Promoted`, `Castled`, `Arrived` and `Taken` in the opposite order
(`UnmakeUndoes`). (4) `KingsFollow`: the entry of a king is right without looking for it. (5) `GameInv` keeps the line
of boards behind the current one, each made from the one before, so that a take-back meets the
move it takes back; `TakeBack` alone does not know where its board came from. Legality is not needed:
the theorem holds for every pseudo-legal move.

**Draws.** `is_draw` looks at every second state of the last `clock` plies; that nothing is missed is a fact about
games, not about the loop. Equal keys are of equal positions and turns (`SameKey`; in the model a key is the set of its
features). `Since(x, y, n)` says what `n` plies do: the turns alternate, null moves included, and the `Stock` never
grows and shrinks when the clock is set back. The stock counts a token for each piece and one for each
square ahead of each pawn: a capture takes tokens, a pawn move uses some up (`PawnAdvances`), a promotion
gives all of the pawn's for one, other moves leave them (`MadeStock`). Hence a state with the key of the board is an even number of plies
away and within the clock (`RepeatsAreNear`), and the draw test counts what is in the history (`DrawsMatch`).
`DrawInv` adds `Since`, and what each ply has recorded, to the line of boards of `GameInv`. `ClockFits`, the
hypothesis, is that the clock stays below 255: one more halfmove wraps the byte, the window closes and the count
of fifty moves starts anew, as run `clock_wraps` shows. All games of run `game` but the one loaded with a full
clock satisfy it.

**Alpha-beta, with any pruning.** `CleanInv` is about the stack of calls. `Nested`: the path is as long as
the ply says and each call stands at its own place in it, so that a call that answers has taken
back what it made. `Bounded`: windows are open, no answer is better than a mate at the next
ply or worse than mated now, and a best value at the sentinel means that no move was searched yet;
so the sentinel is never stored. `Passes` says what goes from a call to the one it makes: below a null move
none may follow. `StopAborts`: only a stop aborts. A step changes the top frame, pushes
one or pops one, and for each of the three one lemma says what it has to keep (`CleanResume`,
`CleanInvoke`, `CleanGive`); the actions then differ only in the frame they make.

**Alpha-beta, without pruning.** `ExactInv` adds what the calls know of the game. A waiting call
knows the window it asked for (`LowAsked`), an answer fits that window (`Fits`: at or below it an upper
bound, at or above it a lower one, inside it the value, with a line that keeps it). Among its moves a
call knows (`BestSoFar`) that the moves done are worth no more than `best`, and that a `best` above the
original alpha is reached by the position. When no move is left, or beta is reached, that is what the answer, the record
and the learned cutoff say. A scout asks for the empty window above alpha: below it the move is done, inside it
the repeat with the full window says the value. The table's record is of its position's ply and depth (`TableKnown`), so
its bound may answer for the position. The properties follow with no more than the top frame gone.

The value itself is a recursive function, and the library's induction theorems cannot be
instantiated. Its equation (`MinimaxEquation`) is proved by the least number for which there is no such
function (`LeastNumber`, from the well-founded order of the naturals), and likewise that values lie within the band
of mates (`ValueInBand`), which every maximum here needs: the moves may be infinitely many.

`SearchFindsTheValue` assumes `Graded(distance)`: a position that is no draw arises at one distance from
the root, and where nothing is pruned the search is asked for one depth. This is what the claim needs and not a
convenience: a record answers when its depth is at least the one asked, so that after a deeper search, or
by a longer way round, the answer is that of another depth. It is a better value for the engine and not the one of
`Negamax`. The assumption is met by the game of the run (`MCGraded`, which TLC evaluates), transpositions included.
The two other theorems assume nothing of the kind.

**Picker.** `IInv` has seven parts. The two ranges adjoin inside the
array (`Typed`); the table's move is null or plays here (`TtIsValid`), and so do the hints
(`HintsAreValid`); the stage agrees with the kind of node and the skip flag (`StagesFit`); each
range holds moves of its kind, each once (`RangesHold`), which the swap of `pick` has to
preserve; what is still to come was not picked, the table's move and the hints apart,
which later stages pass over (`NotYetPicked`); what was picked is of the stages behind
(`PickedSoFar`). `NoMoveTwice` is not inductive alone: a move comes from an array, and only
its place in a range says that it is new. `Complete` adds what is owed:
each loaded move was handed out or is in what is left of its range (`NothingMissing`), the stages
behind left only what a later one takes (`StagesBehind`: a pick that finds no good noisy move
proves that there is none left, by its selection), and what is to come may follow what has
been (`Ordered`).

**Ordering.** `EntriesInRange` needs a bound on gravity: for an entry `e` and a bonus `b` within the
scale `M`, `e + b - (e * |b|) \div M` with division truncated toward zero stays within `M`. It
is proved for integers from the two facts of a quotient, without the clamp, hence
`GravityKeepsRange`: the clamp of the code never cuts. `Recorded` says that every
refutation was entered since the search began, and the killers of a ply differ.

**Limits.** `AvailableIsSaturated`: the guard compares the increment with the room left
before it adds, so the sum that wraps is never formed. The rest is `LimitsInRange`, by
setter (`SettersClamp`), and the quotient's range.

**Mate scores.** `ScoreInv` says what a held score is (the mate `distance` plies away, seen from
`ply`, or an evaluation inside the band) and the same of the table's entry seen from its own node. A
negation one ply up turns the mate at `n` into the mate at `n + 1` by parity
(`Parity`), a store and a probe shift by the same ply out and in (`MateShift`), and an
evaluation never reaches the band (`EvaluationShift`). The band holds two searches of `MaxPly`.

**Bench.** `BenchInv` counts the script: how much of it the engine has read (`Read`) is what
was sent without what is in the pipe (`InputIsScript`), so there is one go and one search, whose
reports stand before its move in the terminal (`OneSearch`). The last of them is in the row or
is still to be read (`LastReport`), and a row with a move has both (`RowIsWhole`).

**Model-checked only.** Liveness, ENABLED and fairness are outside of the prover's
reach: the liveness part of `ImplementsSession`, `QuitTerminates`, `SearchEnds`, `RunEnds`. `See` and `Perft`
compare the code with recursive operators, in whose modules nothing can be proved:
`ExchangeIsSound`, `CountIsExact`. Sums over squares and the loading of a position are folds, whose induction needs
the theorems with an operator parameter: that the terms equal `recompute_base_terms` (the rest of
`KeyIsFresh`), that a start loads in order, `ReloadsSame`, and with the evaluation `NoColourFavoured` and
`FeaturesAreExact`. So are the writing of a board and what a text says (`BoardIsRead`); `LineIsRead` is of the same kind, over
subsequences of a line. `CachesAreFresh`, the other part of `StateIsFresh`, and `RulesAreExact` compare attack
tables with lines of sight and would have the provers compute on 64 squares.

## 5. Findings

* Run `clock_wraps`: `Board::push_ply_state` adds one to an eight-bit clock, and the FEN parser
  accepts 255. A position that `is_draw` called a fifty-move draw is followed, without a
  capture or pawn move, by one it does not call a draw. `FiftyMovesStandBelowWrap` proves that the
  wrap is the only cause.

Met while modelling, with no run of their own:

* `docs/roadmap.md:23` calls `ponderhit` a silent no-op, and line 22 says that `ponder`,
  `infinite`, `mate`, `searchmoves` are not applied. The code applies all of them.
* `thread_pool.cpp:116` says that helpers must be waiting behind the gate before the main
  worker can release or stop them. `start_search` only wakes them first; a helper may
  not have left its park loop when the gate opens. Harmless: the gate stays open until
  the next search, and a stop raises the flags before it opens it
  (`HelpersInsideMainSearch`).
* `Generator::can_castle` trusts the right; a FEN with a right and no rook makes it emit a
  move that `is_pseudo_legal` refuses.
* The early exit of `Board::see` leaves a value that is off by up to one piece;
  its sign, the only thing the picker asks, is right (`ExchangeIsSound`).
* `run_position` raises its timeout inside the `with` block of the child. `Popen.__exit__` then waits
  without a limit with the terminal still open: with an engine that is alive and idle the
  error is never reported. `RunEnds` therefore excepts a read that timed out.
* `run_position` does not look at the answer to `setoption`: a refused Threads value leaves a
  row labelled with threads that were not used.

## 6. Not modelled, and the plan

Not modelled: the printing of the writer and its mutex (a line is one step);
instrumentation, compiled out of release builds; magic multipliers and bit tricks (a
lookup is what start-up stored); the numbers of the piece-square tables; the letters
of the notation and of traces; match orchestration, tables and the C++ programs
of bench; the repository's console commands that print. What remains of the table
(`cluster_index`, `resize`'s allocation, the bit layout) is sequential and covered by its tests.

Proofs to add: that kings are never captured, from the legality test, and
colour symmetry of the evaluation's sums.
