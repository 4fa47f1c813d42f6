------------------------------ MODULE MCOrdering ------------------------------
(* Move ordering: the picker on two positions with overlapping lists, and the *)
(* quiet-move memory on few moves.  The two meet only in the hints and scores *)
(* the picker is given, so a behaviour studies one of them.                   *)
EXTENDS Picker, Ordering, TLC

VARIABLE study   \* "picks", "hints" or "scores"

\* q: quiet, c: capture (g good, b bad), p: promotion, s: stale, of another
\* position, x: illegal answer to a check.
MCMoves == {"q1", "q2", "q3", "g1", "g2", "b1", "b2", "p1", "sq", "sg", "x"}
MCPromotions == {"p1"}
MCCaptures == {"g1", "g2", "b1", "b2", "sg"}

MCBoards ==
    {[in_check |-> FALSE,
      pseudo_legal |-> {"q1", "q2", "q3", "g1", "g2", "b1", "b2", "p1"},
      legal |-> {"q1", "q3", "g1", "g2", "b1", "b2", "p1"},
      noisy |-> <<"b1", "p1", "g1", "b2", "g2">>, quiet |-> <<"q1", "q2", "q3">>, evasions |-> <<>>],
     [in_check |-> TRUE,
      pseudo_legal |-> {"q1", "q2", "g1", "b1", "p1", "x"},
      legal |-> {"q1", "q2", "g1", "b1"},
      noisy |-> <<>>, quiet |-> <<>>, evasions |-> <<"q1", "b1", "g1", "q2">>]}

\* p1 scores above the captures of base 10 and more; the bad captures are 0.
MCScore == [m \in MCMoves |->
    CASE m = "p1" -> 99 [] m = "g1" -> 12 [] m \in {"g2", "sg"} -> 15 [] m \in {"b1", "b2"} -> 0
      [] m = "q1" -> -3 [] m = "q2" -> 4 [] m = "q3" -> 4 [] OTHER -> 1]

\* The first score the picker's bands put a good capture at.
MCBase == 10

-----------------------------------------------------------------------------
\* The memory's constants: a scale of a few points on which every pair of
\* entry and bonus occurs; two moves and two plies.
MCQuietMoves == {"m1", "m2"}
MCDepths == 1..4
MCDivisors == {0, 2}
MCScale == 12

\* A picker that is not studied.
NoPicker ==
    /\ board = CHOOSE b \in Boards : b.in_check
    /\ mode = "QSearch" /\ tt_move = NullMove /\ quiet_hints = <<>> /\ quiet_hint_next = 1
    /\ skip_quiets = FALSE /\ stage = "TtMove" /\ candidates = <<>>
    /\ primary_range = EmptyRange /\ quiet_range = EmptyRange /\ picked = <<>> /\ idle = TRUE

MCInit ==
    /\ OrderingInit
    /\ \/ study = "picks" /\ Init
       \/ study \in {"hints", "scores"} /\ NoPicker

\* Cutoffs at any ply after any move, always at one depth.
HintsNext ==
    \/ PrepareForSearch \/ Clear
    \/ \E context \in NodeContexts, m \in QuietMoves, ply \in Plies : QuietCutoff(context, m, PAWN, ply, 4)

\* Rewards and maluses of one move at every depth.
ScoresNext ==
    \/ PrepareForSearch \/ Clear
    \/ \E context \in {c \in NodeContexts : c.reply => c.previous[3] = "m1"}, depth \in Depths :
         \/ QuietCutoff(context, "m1", PAWN, 0, depth)
         \/ \E divisor \in Divisors : PenalizeQuiet(context, "m1", PAWN, depth, divisor)

MCNext ==
    /\ UNCHANGED study
    /\ \/ study = "picks" /\ Next /\ UNCHANGED orderingVars
       \/ study = "hints" /\ HintsNext /\ UNCHANGED vars
       \/ study = "scores" /\ ScoresNext /\ UNCHANGED vars

MCSpec == MCInit /\ [][MCNext]_<<study, vars, orderingVars>>
===============================================================================
