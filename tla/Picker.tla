-------------------------------- MODULE Picker --------------------------------
(***************************************************************************)
(* The move picker of one node: it hands out the table's move, then the    *)
(* generated moves and the quiet hints in stages, each best score first.   *)
(* The candidates are one array; a picked candidate is swapped to the      *)
(* front of its range, and what a stage passes over stays for a later one. *)
(* Source: search/ordering/picker.cpp.                                     *)
(***************************************************************************)
EXTENDS Integers, Sequences, SequencesExt, FiniteSets

CONSTANTS
    Moves, NullMove,
    Promotions, Captures,      \* the moves of these kinds
    Boards,                    \* what the picker asks of a position
    Score,                     \* [Moves -> Int]
    GoodCaptureScoreBase

\* A board is a record: in_check, the sets pseudo_legal and legal, and the
\* generator's lists noisy, quiet and evasions.
ASSUME PickerAssumption ==
    /\ NullMove \notin Moves
    /\ Promotions \subseteq Moves /\ Captures \subseteq Moves
    /\ Score \in [Moves -> Int] /\ GoodCaptureScoreBase \in Nat
    /\ \A b \in Boards :
        /\ b.in_check \in BOOLEAN
        /\ b.pseudo_legal \subseteq Moves /\ b.legal \subseteq b.pseudo_legal
        /\ b.noisy \in Seq(b.pseudo_legal) /\ IsInjective(b.noisy)
        /\ b.quiet \in Seq(b.pseudo_legal) /\ IsInjective(b.quiet)
        /\ b.evasions \in Seq(b.pseudo_legal) /\ IsInjective(b.evasions)
        /\ \A i \in DOMAIN b.noisy : b.noisy[i] \in Promotions \union Captures
        /\ \A i \in DOMAIN b.quiet : b.quiet[i] \notin Promotions \union Captures

Modes == {"MainSearch", "QSearch"}
QuietHintCapacity == 3

VARIABLES
    board, mode,
    tt_move, quiet_hints, quiet_hint_next, skip_quiets,
    stage,
    candidates,      \* the array up to the last candidate written
    primary_range, quiet_range,   \* [next, end], end exclusive
    picked,          \* the moves next() has returned
    idle             \* no call of next() is running

vars == <<board, mode, tt_move, quiet_hints, quiet_hint_next, skip_quiets, stage,
          candidates, primary_range, quiet_range, picked, idle>>

position == <<board, mode, tt_move, quiet_hints>>
ranges == <<candidates, primary_range, quiet_range>>

Noisy(m) == m \in Promotions \/ m \in Captures
MainQuiet(md, b) == md = "MainSearch" /\ ~b.in_check

\* The table's move counts only where the generator's moves do: pseudo-legal,
\* legal when in check, noisy in the quiescence search.
ValidateTtHint(b, md, m) ==
    IF /\ m \in b.pseudo_legal
       /\ b.in_check => m \in b.legal
       /\ (md = "QSearch" /\ ~b.in_check) => Noisy(m)
    THEN m ELSE NullMove

ValidQuietHint(b, tt, hints, m) ==
    /\ m # NullMove /\ m # tt /\ ~Contains(hints, m)
    /\ ~Noisy(m) /\ m \in b.pseudo_legal

AddQuietHint(b, tt, hints, m) == IF ValidQuietHint(b, tt, hints, m) THEN Append(hints, m) ELSE hints

AddQuietHints(b, md, tt, slots) ==
    IF MainQuiet(md, b)
    THEN AddQuietHint(b, tt, AddQuietHint(b, tt, AddQuietHint(b, tt, <<>>, slots[1]), slots[2]), slots[3])
    ELSE <<>>

EmptyRange == [next |-> 1, end |-> 1]

Init ==
    /\ board \in Boards /\ mode \in Modes
    /\ \E m \in Moves \union {NullMove} : tt_move = ValidateTtHint(board, mode, m)
    /\ \E slots \in [1..QuietHintCapacity -> Moves \union {NullMove}] :
         quiet_hints = AddQuietHints(board, mode, tt_move, slots)
    /\ quiet_hint_next = 1 /\ skip_quiets = FALSE
    /\ stage = "TtMove"
    /\ candidates = <<>> /\ primary_range = EmptyRange /\ quiet_range = EmptyRange
    /\ picked = <<>> /\ idle = TRUE

Return(m) == picked' = Append(picked, m) /\ idle' = TRUE
FallTo(s) == stage' = s /\ idle' = FALSE /\ UNCHANGED picked

-----------------------------------------------------------------------------
(* The pick of one stage.                                                    *)

Evasion(m) == m # tt_move
GoodNoisy(m) == m # tt_move /\ (m \in Promotions \/ Score[m] >= GoodCaptureScoreBase)
BadNoisy(m) == m # tt_move /\ m \notin Promotions /\ Score[m] < GoodCaptureScoreBase

Quiet(m) == m # tt_move /\ ~Contains(quiet_hints, m)

Pickable(range, Policy(_)) ==
    {i \in range.next .. range.end - 1 : Policy(candidates[i])}

\* The first of the best scores, alone in its set.
Best(S) ==
    LET Before(i, j) == \/ Score[candidates[i]] > Score[candidates[j]]
                        \/ Score[candidates[i]] = Score[candidates[j]] /\ i <= j
    IN  {i \in S : \A j \in S : Before(i, j)}

\* Seeded fault: the candidate at the front is overwritten, not swapped.
SwappedOver(c, i, j) == [c EXCEPT ![i] = c[j]]

Swapped(c, i, j) == [c EXCEPT ![i] = c[j], ![j] = c[i]]

Advanced(range) == [range EXCEPT !.next = @ + 1]

PickFrom(range, S) ==
    \E i \in Best(S) : candidates' = Swapped(candidates, range.next, i) /\ Return(candidates[i])

\* A stage over the primary range: pick, or go on to stage s.
PickPrimary(Policy(_), s) ==
    LET S == Pickable(primary_range, Policy) IN
    /\ \/ S # {} /\ PickFrom(primary_range, S) /\ primary_range' = Advanced(primary_range)
          /\ UNCHANGED stage
       \/ S = {} /\ FallTo(s) /\ UNCHANGED <<candidates, primary_range>>
    /\ UNCHANGED <<position, quiet_hint_next, skip_quiets, quiet_range>>

-----------------------------------------------------------------------------
(* The stages of next().                                                     *)

TtMove ==
    /\ stage = "TtMove"
    /\ LET s == IF board.in_check THEN "LoadEvasions" ELSE "LoadNoisy" IN
       \/ tt_move # NullMove /\ Return(tt_move) /\ stage' = s
       \/ tt_move = NullMove /\ FallTo(s)
    /\ UNCHANGED <<position, quiet_hint_next, skip_quiets, ranges>>

\* Loads the primary range; the quiet range is empty at its end.
LoadPrimary(list) ==
    /\ candidates' = list
    /\ primary_range' = [next |-> 1, end |-> Len(list) + 1]
    /\ quiet_range' = [next |-> Len(list) + 1, end |-> Len(list) + 1]
    /\ UNCHANGED <<position, quiet_hint_next, skip_quiets>>

LoadEvasions == stage = "LoadEvasions" /\ LoadPrimary(board.evasions) /\ FallTo("PickEvasion")
LoadNoisy == stage = "LoadNoisy" /\ LoadPrimary(board.noisy) /\ FallTo("PickGoodNoisy")

PickEvasion == stage = "PickEvasion" /\ PickPrimary(Evasion, "Done")

\* Seeded fault: a skip asked for before the quiets is forgotten.
AfterGoodNoisyForgets ==
    IF mode = "QSearch" THEN "Done" ELSE "PickQuietHint"

AfterGoodNoisy ==
    IF mode = "QSearch" THEN "Done" ELSE IF skip_quiets THEN "PickBadNoisy" ELSE "PickQuietHint"

PickGoodNoisy == stage = "PickGoodNoisy" /\ PickPrimary(GoodNoisy, AfterGoodNoisy)

PickQuietHint ==
    /\ stage = "PickQuietHint"
    /\ \/ /\ quiet_hint_next <= Len(quiet_hints)
          /\ Return(quiet_hints[quiet_hint_next])
          /\ quiet_hint_next' = quiet_hint_next + 1
          /\ UNCHANGED stage
       \/ /\ quiet_hint_next > Len(quiet_hints)
          /\ FallTo("LoadQuiet") /\ UNCHANGED quiet_hint_next
    /\ UNCHANGED <<position, skip_quiets, ranges>>

\* Appends the quiet moves after the end of the noisy ones, some of which are
\* still to come.
LoadQuiet ==
    /\ stage = "LoadQuiet"
    /\ IF skip_quiets
       THEN FallTo("PickBadNoisy") /\ UNCHANGED ranges
       ELSE /\ candidates' = SubSeq(candidates, 1, primary_range.end - 1) \o board.quiet
            /\ quiet_range' = [next |-> primary_range.end, end |-> primary_range.end + Len(board.quiet)]
            /\ FallTo("PickQuiet") /\ UNCHANGED primary_range
    /\ UNCHANGED <<position, quiet_hint_next, skip_quiets>>

PickQuiet ==
    /\ stage = "PickQuiet"
    /\ LET S == Pickable(quiet_range, Quiet) IN
       \/ S # {} /\ PickFrom(quiet_range, S) /\ quiet_range' = Advanced(quiet_range)
          /\ UNCHANGED stage
       \/ S = {} /\ FallTo("PickBadNoisy") /\ UNCHANGED <<candidates, quiet_range>>
    /\ UNCHANGED <<position, quiet_hint_next, skip_quiets, primary_range>>

PickBadNoisy == stage = "PickBadNoisy" /\ PickPrimary(BadNoisy, "Done")

\* The last stage answers every further call with the null move.
SkipStages == {"PickQuietHint", "LoadQuiet", "PickQuiet"}

\* Asked for between two calls of next(); it is nothing in check and in the
\* quiescence search.
SkipQuietMoves ==
    /\ idle /\ ~skip_quiets /\ MainQuiet(mode, board)
    /\ skip_quiets' = TRUE
    /\ stage' = IF stage \in SkipStages THEN "PickBadNoisy" ELSE stage
    /\ UNCHANGED <<position, quiet_hint_next, ranges, picked, idle>>

NextStage ==
    \/ TtMove \/ LoadEvasions \/ PickEvasion \/ LoadNoisy \/ PickGoodNoisy
    \/ PickQuietHint \/ LoadQuiet \/ PickQuiet \/ PickBadNoisy

Next == NextStage \/ SkipQuietMoves

Spec == Init /\ [][Next]_vars

-----------------------------------------------------------------------------
Stages == {"TtMove", "LoadEvasions", "PickEvasion", "LoadNoisy", "PickGoodNoisy", "PickQuietHint",
           "LoadQuiet", "PickQuiet", "PickBadNoisy", "Done"}
Ranges == [next : Nat, end : Nat]

TypeOK ==
    /\ board \in Boards /\ mode \in Modes
    /\ tt_move \in Moves \union {NullMove}
    /\ quiet_hints \in Seq(Moves) /\ quiet_hint_next \in Nat
    /\ skip_quiets \in BOOLEAN /\ idle \in BOOLEAN
    /\ stage \in Stages
    /\ candidates \in Seq(Moves) /\ picked \in Seq(Moves)
    /\ primary_range \in Ranges /\ quiet_range \in Ranges

\* No move is handed out twice, though the table's move, the hints and the
\* generated moves overlap: a move searched twice would raise the move count
\* and find its own result in the table (Picker::next).
NoMoveTwice == IsInjective(picked)

Owed ==
    IF board.in_check THEN ToSet(board.evasions)
    ELSE IF mode = "QSearch" THEN {m \in ToSet(board.noisy) : m \in Promotions \/ Score[m] >= GoodCaptureScoreBase}
    ELSE ToSet(board.noisy) \union (IF skip_quiets THEN {} ELSE ToSet(board.quiet))

\* At the end every generated move has been handed out that the stages owe:
\* all but the quiets after a skip and the bad captures of a quiescence search.
\* One that is lost makes a wrong mate or stalemate (Picker::next).
NothingLost == stage = "Done" => Owed \subseteq ToSet(picked)

\* After skip_quiet_moves only noisy moves come, whatever stage the call met;
\* the table's move, which comes before all, is the exception.
NoQuietAfterSkip ==
    [][(skip_quiets /\ picked' # picked) => (Noisy(Last(picked')) \/ stage = "TtMove")]_vars

Rank(m) ==
    IF m = tt_move THEN 0
    ELSE IF board.in_check THEN 1
    ELSE IF Contains(quiet_hints, m) THEN 2
    ELSE IF ~Noisy(m) THEN 3
    ELSE IF m \in Promotions \/ Score[m] >= GoodCaptureScoreBase THEN 1 ELSE 4

\* The order the search relies on: the table's move, then promotions and good
\* captures, the hints, the quiets and the bad captures, each by score; an
\* array in which an earlier stage moved things is still picked best first.
StageOrder ==
    \A i, j \in DOMAIN picked :
        i < j => \/ Rank(picked[i]) < Rank(picked[j])
                 \/ /\ Rank(picked[i]) = Rank(picked[j])
                    /\ Rank(picked[i]) = 2 \/ Score[picked[i]] >= Score[picked[j]]

\* Whatever the table and the hints hold, a move of another position included,
\* only pseudo-legal moves are handed out, and in check a table's move that is
\* legal: is_legal_pseudo_move asserts the first (Picker::validate_tt_hint).
OnlyPseudoLegal ==
    /\ \A i \in DOMAIN picked : picked[i] \in board.pseudo_legal
    /\ \A i \in DOMAIN picked : board.in_check /\ picked[i] \notin ToSet(board.evasions) => picked[i] \in board.legal

\* The search never plays a move twice, a move that is not there, or a quiet
\* move after a skip, whatever the table and the hints hold (Picker::next).
PicksAreSound == [](NoMoveTwice /\ OnlyPseudoLegal) /\ NoQuietAfterSkip

\* The search gets all it is owed, in the order it relies on (Picker::next).
PicksAreComplete == NothingLost /\ StageOrder
===============================================================================
