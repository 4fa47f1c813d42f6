----------------------------- MODULE UciSession -----------------------------
(***************************************************************************)
(* What the engine promises the GUI about a game session, whatever threads *)
(* it uses: one search at a time, on a position that does not move under   *)
(* it, answered exactly once, with a move the request allows, and not      *)
(* before the request lets it answer (a ponder search is held until        *)
(* ponderhit or stop, an infinite one until stop).                         *)
(***************************************************************************)
EXTENDS Integers

CONSTANTS
  Positions,       \* positions a position command can set up
  InitialPosition, \* the position of a new Board
  Moves,           \* non-null moves, each the number Move::bits holds
  LegalMoves       \* the legal moves of a position

NullMove == 0      \* NULL_MOVE, printed as bestmove 0000
NoAnswer == -1      \* no bestmove printed yet

VARIABLES
  board,           \* the position the next search is about
  busy,            \* an accepted go is not answered yet
  ponderHeld,      \* that answer waits for ponderhit or stop
  infiniteHeld,    \* that answer waits for stop
  allowed,         \* the moves that may answer it
  best             \* the last bestmove printed

sessionVars == <<board, busy, ponderHeld, infiniteHeld, allowed, best>>

SessionInit ==
  /\ board = InitialPosition
  /\ busy = FALSE
  /\ ponderHeld = FALSE
  /\ infiniteHeld = FALSE
  /\ allowed = {}
  /\ best = NoAnswer

\* A position command, or the console's move, is obeyed between searches.
SetPosition ==
  /\ ~busy
  /\ board' \in Positions
  /\ UNCHANGED <<busy, ponderHeld, infiniteHeld, allowed, best>>

\* A go is accepted: root is its searchmoves list, empty when it has none.
Accept(ponder, infinite, root) ==
  /\ ~busy
  /\ root \subseteq LegalMoves[board]
  /\ busy' = TRUE
  /\ ponderHeld' = ponder
  /\ infiniteHeld' = infinite
  /\ allowed' = IF root = {} THEN LegalMoves[board] ELSE root
  /\ UNCHANGED <<board, best>>

ReleasePonder ==
  /\ ponderHeld
  /\ ponderHeld' = FALSE
  /\ UNCHANGED <<board, busy, infiniteHeld, allowed, best>>

ReleaseInfinite ==
  /\ infiniteHeld
  /\ infiniteHeld' = FALSE
  /\ UNCHANGED <<board, busy, ponderHeld, allowed, best>>

\* bestmove: an allowed move, the null move exactly when there is none.
Answer(m) ==
  /\ busy /\ ~ponderHeld /\ ~infiniteHeld
  /\ m \in (IF allowed = {} THEN {NullMove} ELSE allowed)
  /\ busy' = FALSE
  /\ allowed' = {}
  /\ best' = m
  /\ UNCHANGED <<board, ponderHeld, infiniteHeld>>

AnswerSome == \E m \in Moves \cup {NullMove} : Answer(m)

SessionNext ==
  \/ SetPosition
  \/ \E ponder, infinite \in BOOLEAN, root \in SUBSET Moves : Accept(ponder, infinite, root)
  \/ ReleasePonder
  \/ ReleaseInfinite
  \/ AnswerSome

SessionSafety == SessionInit /\ [][SessionNext]_sessionVars

\* An unheld search is answered eventually.
SessionSpec == SessionSafety /\ WF_sessionVars(AnswerSome)
=============================================================================
