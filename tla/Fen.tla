-------------------------------- MODULE Fen ---------------------------------
(***************************************************************************)
(* The FEN parser, character by character where it is: the placement with  *)
(* its file and rank counters, the castling letters with their order; and  *)
(* the placement and the numbers as to_fen writes them.  The board has any *)
(* size; in the code it is 8 by 8.                                         *)
(* Sources: board/fen_parser.cpp, board_fen.cpp.                           *)
(***************************************************************************)
EXTENDS Integers, SequencesExt

CONSTANTS
    Files, Ranks,    \* the size of the board
    Symbols,         \* the piece letters that occur, "K" and "k" among them
    MaxPieces,       \* max_legal_pieces
    IntMax,          \* the largest int
    Numbers          \* what the number fields may hold; one above IntMax is no int

ByteMax == 255
Order == <<"K", "Q", "k", "q">>
Digits == <<"1", "2", "3", "4", "5", "6", "7", "8", "9">>

VARIABLES
    field,     \* the field being read, "read" or "rejected"
    fields,    \* how many fields the text has
    text,      \* what was read of the field
    file, rank, pieces,
    turn, rights, next, ep, clock, number, ply

vars == <<field, fields, text, file, rank, pieces, turn, rights, next, ep, clock, number, ply>>

Init ==
    /\ field = "count" /\ fields \in 3..7 /\ text = << >>
    /\ file = 0 /\ rank = Ranks - 1 /\ pieces = << >>
    /\ turn = "w" /\ rights = {} /\ next = 1 /\ ep = "-" /\ clock = 0 /\ number = 1 /\ ply = 0

placement == <<file, rank, pieces>>
rest == <<turn, rights, next, ep, clock, number, ply>>

Reject == field' = "rejected" /\ UNCHANGED <<fields, text, placement, rest>>
Goto(f) == field' = f /\ text' = << >> /\ UNCHANGED fields

CountFields ==
    /\ field = "count"
    /\ IF fields \in {4, 6} THEN Goto("placement") /\ UNCHANGED <<placement, rest>> ELSE Reject

-----------------------------------------------------------------------------
(* parse_piece_placement                                                     *)

Put(c) == field = "placement" /\ text' = Append(text, c) /\ UNCHANGED <<field, fields, rest>>
IsPawn(c) == c \in {"P", "p"}
Count(c) == Cardinality({sq \in DOMAIN pieces : pieces[sq] = c})

PutDigit ==
    \E n \in 1..9 :
        /\ file + n <= Files
        /\ Put(Digits[n]) /\ file' = file + n /\ UNCHANGED <<rank, pieces>>

PutSlash ==
    /\ file = Files /\ rank # 0
    /\ Put("/") /\ rank' = rank - 1 /\ file' = 0 /\ UNCHANGED pieces

MayPlace(c) ==
    /\ file < Files
    /\ ~(IsPawn(c) /\ rank \in {0, Ranks - 1})
    /\ Cardinality(DOMAIN pieces) < MaxPieces

PutPiece ==
    \E c \in Symbols :
        /\ MayPlace(c)
        /\ Put(c) /\ pieces' = (<<file, rank>> :> c) @@ pieces /\ file' = file + 1 /\ UNCHANGED rank

\* What is not taken above throws: a zero and an unknown letter always do.
RejectCharacter == field = "placement" /\ Reject

Whole == rank = 0 /\ file = Files /\ Count("K") = 1 /\ Count("k") = 1

EndPlacement ==
    /\ field = "placement" /\ text # << >>
    /\ IF Whole THEN Goto("side") /\ UNCHANGED <<placement, rest>> ELSE Reject

-----------------------------------------------------------------------------
(* The other fields.                                                         *)

ReadSide ==
    /\ field = "side"
    /\ \/ /\ turn' \in {"w", "b"} /\ Goto("rights")
          /\ UNCHANGED <<placement, rights, next, ep, clock, number, ply>>
       \/ Reject

\* order.find(ch, next): each letter behind the one before.
ReadRight ==
    /\ field = "rights"
    /\ \E i \in next..4 :
        /\ rights' = rights \union {Order[i]} /\ next' = i + 1
        /\ text' = Append(text, Order[i])
    /\ UNCHANGED <<field, fields, placement, turn, ep, clock, number, ply>>

\* "-", or the end of the letters; any other letter, or one out of order.
EndRights == field = "rights" /\ Goto("ep") /\ UNCHANGED <<placement, rest>>
RejectRight == field = "rights" /\ Reject

\* A target has the rank behind a pawn of the other side.
EpRank == IF turn = "w" THEN "6" ELSE "3"

ReadEnpassant ==
    /\ field = "ep"
    /\ \E target \in {"-", "3", "6", "9"} :
        IF target \in {"-", EpRank}
        THEN /\ ep' = target /\ Goto("clocks")
             /\ UNCHANGED <<placement, turn, rights, next, clock, number, ply>>
        ELSE Reject

PlyOf(n) == 2 * (n - 1) + (IF turn = "w" THEN 0 ELSE 1)

IsInt(n) == n \in 0..IntMax

IsByte(n) == IsInt(n) /\ n <= ByteMax

ReadClocks ==
    /\ field = "clocks"
    /\ \E c, n \in IF fields = 6 THEN Numbers ELSE {0, 1} :
        /\ fields = 4 => c = 0 /\ n = 1
        /\ IF IsByte(c) /\ IsInt(n) /\ n # 0 /\ PlyOf(n) <= IntMax
           THEN /\ clock' = c /\ number' = n /\ ply' = PlyOf(n) /\ Goto("read")
                /\ UNCHANGED <<placement, turn, rights, next, ep>>
           ELSE Reject

Next ==
    \/ CountFields
    \/ PutDigit \/ PutSlash \/ PutPiece \/ RejectCharacter \/ EndPlacement
    \/ ReadSide \/ ReadRight \/ EndRights \/ RejectRight \/ ReadEnpassant \/ ReadClocks

Spec == Init /\ [][Next]_vars

-----------------------------------------------------------------------------
(* Board::to_fen                                                             *)

Flushed(w) == IF w.empty = 0 THEN w.text ELSE Append(w.text, Digits[w.empty])

\* Seeded fault: the empty squares at the end of a rank are not written there.
WriteRankOpen(w, r) ==
    LET after[f \in 0..Files] ==
            IF f = 0 THEN w
            ELSE LET sq == <<f - 1, r>> IN
                 IF sq \in DOMAIN pieces
                 THEN [text |-> Append(Flushed(after[f - 1]), pieces[sq]), empty |-> 0]
                 ELSE [after[f - 1] EXCEPT !.empty = @ + 1]
        full == IF r = 0 THEN [text |-> Flushed(after[Files]), empty |-> 0] ELSE after[Files]
    IN  IF r = 0 THEN full ELSE [full EXCEPT !.text = Append(@, "/")]

WriteRank(w, r) ==
    LET after[f \in 0..Files] ==
            IF f = 0 THEN w
            ELSE LET sq == <<f - 1, r>> IN
                 IF sq \in DOMAIN pieces
                 THEN [text |-> Append(Flushed(after[f - 1]), pieces[sq]), empty |-> 0]
                 ELSE [after[f - 1] EXCEPT !.empty = @ + 1]
        full == [text |-> Flushed(after[Files]), empty |-> 0]
    IN  IF r = 0 THEN full ELSE [full EXCEPT !.text = Append(@, "/")]

Written ==
    LET ranks[n \in 0..Ranks] ==
            IF n = 0 THEN [text |-> << >>, empty |-> 0] ELSE WriteRank(ranks[n - 1], Ranks - n)
    IN  ranks[Ranks].text

FullmoveNumber == ply \div 2 + 1

-----------------------------------------------------------------------------
(* What a placement text says, square after square.                          *)

Wide(c) == IF c = "/" THEN 0 ELSE IF \E n \in 1..9 : Digits[n] = c THEN CHOOSE n \in 1..9 : Digits[n] = c ELSE 1
Cells(s) == FoldSeq(LAMBDA c, n : n + Wide(c), 0, s)
CellAt(s, i) == LET n == Cells(SubSeq(s, 1, i - 1)) IN <<n % Files, Ranks - 1 - n \div Files>>
Says(s) == {<<CellAt(s, i), s[i]>> : i \in {j \in DOMAIN s : s[j] \in Symbols}}
Placed == {<<sq, pieces[sq]>> : sq \in DOMAIN pieces}
LaidOut(s) == /\ Cells(s) = Files * Ranks
              /\ \A i \in DOMAIN s : s[i] = "/" => Cells(SubSeq(s, 1, i)) % Files = 0
              /\ Cardinality({i \in DOMAIN s : s[i] = "/"}) = Ranks - 1

Accepted == field \in {"side", "rights", "ep", "clocks", "read"}

(* Values stay in their types, the clock in its byte and the ply in an int. *)
TypeOK ==
    /\ file \in 0..Files /\ rank \in 0 .. Ranks - 1
    /\ DOMAIN pieces \subseteq (0 .. Files - 1) \X (0 .. Ranks - 1)
    /\ turn \in {"w", "b"} /\ ep \in {"-", "3", "6"}
    /\ clock \in 0..ByteMax /\ ply \in 0..IntMax

(* The counters never run away from the text: the pieces are those that the
   text says, however digits, ranks and pieces follow each other. *)
PlacementIsText ==
    field = "placement" =>
        /\ Placed = Says(text)
        /\ (Ranks - 1 - rank) * Files + file = Cells(text)

(* A placement that is accepted is a board the rules can work on: a king of
   each colour, no pawn on an edge rank, no more pieces than the list holds. *)
BoardIsPlayable ==
    Accepted =>
        /\ \A k \in {"K", "k"} : Cardinality({sq \in DOMAIN pieces : pieces[sq] = k}) = 1
        /\ \A sq \in DOMAIN pieces : IsPawn(pieces[sq]) => sq[2] \notin {0, Ranks - 1}
        /\ Cardinality(DOMAIN pieces) <= MaxPieces

(* The castling letters that are accepted are the one way to write the set. *)
RightsInOrder == field = "rights" => text = SelectSeq(Order, LAMBDA r : r \in rights)

(* What to_fen writes of an accepted board is laid out as the parser wants it
   and says the same pieces. *)
WrittenReadsBack == field = "side" => LaidOut(Written) /\ Says(Written) = Placed

(* The full-move number that to_fen writes is the one that was read, and the
   parity of the ply is the side to move. *)
NumberReadsBack ==
    field = "read" => FullmoveNumber = number /\ (ply % 2 = 0 <=> turn = "w")
=============================================================================
