-------------------------------- MODULE MCUci --------------------------------
(* What crosses the protocol: the tokens of a line, the fields of a FEN, the  *)
(* numbers of a go command and the scores of the answer.  They do not meet:   *)
(* a behaviour studies one of them, and only that one moves.                  *)
EXTENDS Limits, MateScores, Sequences

VARIABLES
    study,   \* "limits", "mates", "line" or "board"
    line, at, command, start, go, option, position, set, done,           \* UciParser
    field, fields, text, file, rank, pieces,                             \* Fen
    turn, rights, next, ep, clock, number, fenPly

lineVars == <<line, at, command, start, go, option, position, set, done>>
boardVars == <<field, fields, text, file, rank, pieces,
               turn, rights, next, ep, clock, number, fenPly>>

-----------------------------------------------------------------------------
(* Limits: counts of four bits with both ends, zero and values around the    *)
(* buffer, every pair of clocks and increments, and every other number at    *)
(* its ends.                                                                 *)

MCTimes == Optional({-MaxTime - 1, 0, 1, 5, MaxTime - 1, MaxTime})
MCInts == Optional({-MaxInt - 1, 0, 2, MaxInt})

MCRequests ==
    {[NoParameters EXCEPT !.wtime = w, !.btime = b, !.winc = i, !.binc = j, !.movestogo = m] :
        w \in MCTimes, b \in MCTimes, i \in MCTimes, j \in {{}, {MaxTime}}, m \in MCInts}
    \union {[NoParameters EXCEPT !.depth = d, !.mate = n, !.movetime = t, !.nodes = k, !.wtime = {5},
                                 !.btime = {5}, !.infinite = TRUE] :
        d \in MCInts, n \in MCInts, t \in MCTimes, k \in Optional({0, MaxNodes})}

-----------------------------------------------------------------------------
\* Mates: evaluations next to the edge of the mate band.
MCEvaluations == {1 - TtMateBound, -1, 0, TtMateBound - 1}

-----------------------------------------------------------------------------
(* Lines: every short one over small alphabets, of words that take a number, *)
(* words that do not, numbers of each width, marks and names of options.     *)

Upto(alphabet, n) == UNION {[1..k -> alphabet] : k \in 0..n}

GoWords == {"depth", "nodes", "ponder", "searchmoves", "3", "-1", "zz"}
SpinWords == {"name", "value", "Threads", "clear", "hash", "3", "99"}
CheckWords == {"name", "value", "Ponder", "ON", "off"}
PositionWords == {"startpos", "fen", "moves", "go", "a"}
AnyWords == {"joho", "go", "stop", "depth", "3"}

MCLines ==
    {<<"go">> \o s : s \in Upto(GoWords, 4)}
    \union {<<"go">> \o s : s \in Upto({"wtime", "mate", "infinite", "9", "-1"}, 3)}
    \union {<<"setoption">> \o s : s \in Upto(SpinWords, 5)}
    \union {<<"setoption">> \o s : s \in Upto(CheckWords, 4)}
    \union {<<"position">> \o s : s \in Upto(PositionWords, 5)}
    \union Upto(AnyWords, 4)

\* "9" stands for a number too large for an int, "-1" for any negative one.
MCReadable == [int |-> {"3", "-1"}, count |-> {"3", "9"}, time |-> {"3", "-1", "9"}]
MCLower == [Threads |-> "threads", Ponder |-> "ponder", ON |-> "on"]
MCSpin == [w \in {"3", "-1", "99"} |-> CASE w = "3" -> 3 [] w = "-1" -> -1 [] OTHER -> 99]

Line == INSTANCE UciParser WITH
    Lines <- MCLines, Readable <- MCReadable, Lower <- MCLower, Spin <- MCSpin

\* Boards: three by three, four pieces of three kinds, small numbers.
Placement == INSTANCE Fen WITH
    Files <- 3, Ranks <- 3, Symbols <- {"K", "k", "P"}, MaxPieces <- 4, IntMax <- 511,
    Numbers <- {0, 1, 2, 255, 256, 257, 511, 512}, ply <- fenPly

-----------------------------------------------------------------------------
MCInit ==
    /\ study \in {"limits", "mates", "line", "board"}
    /\ Init /\ MateInit
    /\ Line!Init /\ (study # "line" => line = << >>)
    /\ Placement!Init /\ (study # "board" => fields = 4)

MCNext ==
    /\ UNCHANGED study
    /\ \/ study = "limits" /\ side = "none" /\ Next /\ UNCHANGED <<mateVars, lineVars, boardVars>>
       \/ study = "mates" /\ MateNext /\ UNCHANGED <<vars, lineVars, boardVars>>
       \/ study = "line" /\ Line!Next /\ UNCHANGED <<vars, mateVars, boardVars>>
       \/ study = "board" /\ Placement!Next /\ UNCHANGED <<vars, mateVars, lineVars>>

MCSpec == MCInit /\ [][MCNext]_<<study, vars, mateVars, lineVars, boardVars>>

-----------------------------------------------------------------------------
\* The loops over the tokens agree with what the line says as a whole: which
\* command it is, the last good number of each parameter, every other token in
\* its place, the position named last, an option only as spelled (parser.cpp,
\* Options::set).
LineIsRead ==
    /\ Line!TypeOK /\ Line!FirstCommandOwns
    /\ Line!GoTakesLastValue /\ Line!GoKeepsEveryToken
    /\ Line!PositionIsLastNamed /\ Line!SetAsSpelled

\* The board is what the text says, one that can be played on, and what to_fen
\* writes of it reads back as the same board (FenParser, Board::to_fen).
BoardIsRead ==
    /\ Placement!TypeOK /\ Placement!PlacementIsText /\ Placement!BoardIsPlayable
    /\ Placement!RightsInOrder /\ Placement!WrittenReadsBack /\ Placement!NumberReadsBack
==============================================================================
