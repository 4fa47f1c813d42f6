--------------------------------- MODULE See ---------------------------------
(***************************************************************************)
(* Static exchange evaluation of a capture or promotion: the loop that     *)
(* alternates least valuable attackers on one square, with occupancy the   *)
(* only thing that changes, and the back-up of its list of gains.          *)
(* Source: board/board_see.cpp.                                            *)
(***************************************************************************)
EXTENDS Generator

CONSTANT Cases   \* the loaded boards

VARIABLES
    board, move,
    side, type,        \* who captures next, and what stands on the square
    occupancy, attackers, current,
    gains,             \* gains[d + 1] is the code's gains[d]
    stage              \* "swap", "back" or "done"

vars == <<board, move, side, type, occupancy, attackers, current, gains, stage>>

MaxOf(a, b) == IF a > b THEN a ELSE b
MinOf(S) == CHOOSE x \in S : \A y \in S : x <= y

InitialGain(b, m) ==
    MaterialOf(CapturedType(b, m))
      + IF m.type = MOVE_PROM THEN MaterialOf(m.prom) - MaterialOf(PAWN) ELSE 0

\* The occupancy on which the exchange begins: an en passant capture is played
\* out, any other mover is still on its square.
Begun(b, m) ==
    IF m.type = MOVE_EP
    THEN (Occupancy(b) \ {EnpassantCaptured(m.to, b.turn)}) \union {m.to}
    ELSE Occupancy(b)

Init ==
    /\ board \in Cases
    /\ move \in {m \in PseudoLegalMoves(board) : m.type = MOVE_PROM \/ CapturedType(board, m) # NO_PIECETYPE}
    /\ side = board.turn
    /\ type = IF move.type = MOVE_PROM THEN move.prom ELSE TypeOn(board, move.from)
    /\ occupancy = Begun(board, move)
    /\ attackers = AllAttackersTo(board, move.to, occupancy) \intersect occupancy
    /\ current = {move.from}
    /\ gains = <<InitialGain(board, move)>>
    /\ stage = "swap"

\* The square of the piece that captured, toggled.
Vacated(occ, capturer) == (occ \ capturer) \union (capturer \ occ)

\* The sliders uncovered by the last capture join the attackers.
Revealed(b, to, occ, known) ==
    LET sliders(types) == Of(b, WHITE, types) \union Of(b, BLACK, types) IN
    (known \union (BishopMoves(to, occ) \intersect sliders({BISHOP, QUEEN}))
           \union (RookMoves(to, occ) \intersect sliders({ROOK, QUEEN}))) \intersect occ

\* Seeded fault: a king captures onto an attacked square.
KingMayCaptureAlways(b, to, c, occ) == TRUE

\* A king cannot recapture while an opponent still attacks the square.
KingMayCapture(b, to, c, occ) ==
    LET kingless == occ \ {b.king[c]} IN
    AttacksTo(b, to, Other(c), kingless) \intersect kingless = {}

\* The types side c may capture with next.
Capturers(b, to, c, occ, able) ==
    {t \in PieceTypes : /\ able \intersect b.bb[c][t] # {}
                        /\ t = KING => KingMayCapture(b, to, c, occ)}

\* One turn of the loop.  It stops early when both stopping and going on lose
\* for the side that is to capture.
Swap ==
    LET c    == Other(side)
        gain == MaterialOf(type) - gains[Len(gains)]
        occ  == Vacated(occupancy, current)
        able == Revealed(board, move.to, occ, attackers)
        next == Capturers(board, move.to, c, occ, able)
    IN  /\ stage = "swap"
        /\ side' = c
        /\ gains' = Append(gains, gain)
        /\ \/ /\ MaxOf(-gains[Len(gains)], gain) < 0
              /\ stage' = "back"
              /\ UNCHANGED <<type, occupancy, attackers, current>>
           \/ /\ MaxOf(-gains[Len(gains)], gain) >= 0
              /\ occupancy' = occ /\ attackers' = able
              /\ \/ next = {} /\ stage' = "back" /\ current' = {} /\ UNCHANGED type
                 \/ /\ next # {}
                    /\ type' = MinOf(next)
                    /\ current' = {MinOf(able \intersect board.bb[c][MinOf(next)])}
                    /\ UNCHANGED stage
        /\ UNCHANGED <<board, move>>

Backed(stop, continue) == -MaxOf(-stop, continue)

\* One turn of the negamax over the list; the last gain is speculative and is
\* dropped first.
BackUp ==
    /\ stage = "back"
    /\ IF Len(gains) = 2
       THEN stage' = "done" /\ gains' = SubSeq(gains, 1, 1)
       ELSE /\ gains' = [SubSeq(gains, 1, Len(gains) - 1) EXCEPT
                           ![Len(gains) - 2] = Backed(@, gains[Len(gains) - 1])]
            /\ UNCHANGED stage
    /\ UNCHANGED <<board, move, side, type, occupancy, attackers, current>>

Next == Swap \/ BackUp

Spec == Init /\ [][Next]_vars

-----------------------------------------------------------------------------
(* The exchange as a game: the square is attacked anew in each position, the *)
(* side to move captures with its least valuable piece if that pays.         *)

RECURSIVE Exchange(_, _, _, _, _)
Exchange(b, to, c, victim, occ) ==
    LET able  == AttacksTo(b, to, c, occ) \intersect occ
        types == {t \in PieceTypes : able \intersect b.bb[c][t] # {}}
        safe  == AttacksTo(b, to, Other(c), occ) \intersect occ = {}
        t     == MinOf(types)
        from  == MinOf(able \intersect b.bb[c][t])
    IN  IF types = {} \/ (t = KING /\ ~safe) THEN 0
        ELSE MaxOf(0, MaterialOf(victim) - Exchange(b, to, Other(c), t, occ \ {from}))

Played(b, m) ==
    InitialGain(b, m)
      - Exchange(b, m.to, Other(b.turn), IF m.type = MOVE_PROM THEN m.prom ELSE TypeOn(b, m.from),
                 Begun(b, m) \ {m.from})

\* A capture is called losing exactly when it loses: the picker postpones the
\* captures with a negative value, whatever the early exit does to the rest
\* (Picker::score_noisy, Board::see).
SignIsExact == stage = "done" => (gains[1] >= 0 <=> Played(board, move) >= 0)

\* The early exit may change the value, but by no more than the piece that
\* stands on the square when the loop is left, and a list worked through to
\* its last attacker is exact.
ErrorBounded ==
    stage = "done" =>
        /\ Abs(gains[1] - Played(board, move)) <= MaterialOf(type)
        /\ current = {} => gains[1] = Played(board, move)

\* Every turn takes one piece off the board, its capturer: nothing captures
\* twice, and a legal position cannot fill the 32 entries of the list.
ListBounded ==
    stage = "swap" =>
        /\ Cardinality(occupancy) + Len(gains) - 1 = Cardinality(Begun(board, move))
        /\ current \subseteq occupancy
=============================================================================
