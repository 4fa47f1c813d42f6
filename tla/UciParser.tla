------------------------------- MODULE UciParser -------------------------------
(***************************************************************************)
(* One line of UCI read token by token: what is skipped before a command,  *)
(* the loops over the tokens of go, setoption and position, and whether    *)
(* the option that was read is set.  A token is a word; what a word reads  *)
(* as (a number of some width, the value of an option) is given.           *)
(* Sources: uci/parser.cpp, command.hpp, options.cpp, options.hpp.         *)
(***************************************************************************)
EXTENDS Integers, SequencesExt

CONSTANTS
    Lines,      \* the token sequences that are read
    Readable,   \* [kind of number -> the words from_chars takes whole]
    Lower,      \* [word -> its lower-case form], of the words it changes
    Spin        \* [word -> its number], of the words stoi takes whole

IntWords == {"depth", "movestogo", "mate"}
TimeWords == {"movetime", "wtime", "btime", "winc", "binc"}
ValueWords == IntWords \union TimeWords \union {"nodes"}
FlagWords == {"ponder", "infinite"}

\* The commands without tokens of their own, or that keep them as they are.
PlainCommands ==
    {"uci", "debug", "isready", "ucinewgame", "stop", "ponderhit", "register", "quit", "exit",
     "help", "board", "d", "eval", "move", "moves", "perft"}
Commands == PlainCommands \union {"go", "setoption", "position"}

KindOf(word) == IF word \in IntWords THEN "int" ELSE IF word = "nodes" THEN "count" ELSE "time"
Reads(word, token) == token \in Readable[KindOf(word)]

VARIABLES
    line,      \* the tokens
    at,        \* the index of the loop
    command,   \* the recognised command, or "none"
    start,     \* where it stands in the line
    go,        \* GoParameters: the index in the line of the value read last
    option,    \* SetOptionCommand and its two flags
    position,  \* PositionCommand and its two flags
    set,       \* the option set and its value, or Refused
    done

vars == <<line, at, command, start, go, option, position, set, done>>

NoGo == [value |-> [w \in ValueWords |-> 0], flags |-> {}, unknown |-> << >>,
         restricted |-> FALSE, searchmoves |-> << >>]
NoOption == [name |-> << >>, value |-> << >>, has_value |-> FALSE, in_name |-> FALSE, in_value |-> FALSE]
NoPosition == [source |-> "Invalid", fen |-> << >>, moves |-> << >>, in_fen |-> FALSE, in_moves |-> FALSE]

\* Options: the ranges of the spins and the words of the check.
Refused == <<"none", 0>>
SpinMax == [hash |-> 2048, threads |-> 64]
On == {"true", "on"}
Off == {"false", "off"}

Init ==
    /\ line \in Lines
    /\ at = 1 /\ command = "none" /\ start = 0 /\ done = FALSE
    /\ go = NoGo /\ option = NoOption /\ position = NoPosition /\ set = Refused

-----------------------------------------------------------------------------
Token == line[at]
Scanning == ~done /\ command = "none" /\ at <= Len(line)

\* Unknown leading tokens are ignored.
SkipToken ==
    /\ Scanning /\ Token \notin Commands
    /\ at' = at + 1
    /\ UNCHANGED <<line, command, start, go, option, position, set, done>>

\* A command owns the tokens behind it.
Recognize ==
    /\ Scanning /\ Token \in Commands
    /\ command' = Token /\ start' = at /\ at' = at + 1
    /\ done' = (Token \in PlainCommands)
    /\ UNCHANGED <<line, go, option, position, set>>

Reading(name) == ~done /\ command = name /\ at <= Len(line)

\* The end of the line: without a command it is an UnknownCommand.
Finish ==
    /\ ~done /\ at > Len(line) /\ command # "setoption"
    /\ done' = TRUE
    /\ UNCHANGED <<line, at, command, start, go, option, position, set>>

-----------------------------------------------------------------------------
(* go                                                                        *)

\* Seeded fault: a number is read but not consumed.
ReadValueLeft ==
    /\ Reading("go") /\ Token \in ValueWords
    /\ at' = at + 1
    /\ go' = IF at < Len(line) /\ Reads(Token, line[at + 1])
             THEN [go EXCEPT !.value[Token] = at + 1] ELSE go
    /\ UNCHANGED <<line, command, start, option, position, set, done>>

\* A value word consumes the next token only if it reads as its number.
ReadValue ==
    /\ Reading("go") /\ Token \in ValueWords
    /\ IF at < Len(line) /\ Reads(Token, line[at + 1])
       THEN go' = [go EXCEPT !.value[Token] = at + 1] /\ at' = at + 2
       ELSE UNCHANGED go /\ at' = at + 1
    /\ UNCHANGED <<line, command, start, option, position, set, done>>

ReadFlag ==
    /\ Reading("go") /\ Token \in FlagWords
    /\ go' = [go EXCEPT !.flags = @ \union {Token}] /\ at' = at + 1
    /\ UNCHANGED <<line, command, start, option, position, set, done>>

\* searchmoves owns the rest of the line.
ReadSearchmoves ==
    /\ Reading("go") /\ Token = "searchmoves"
    /\ go' = [go EXCEPT !.restricted = TRUE, !.searchmoves = SubSeq(line, at + 1, Len(line))]
    /\ at' = Len(line) + 1
    /\ UNCHANGED <<line, command, start, option, position, set, done>>

ReadUnknown ==
    /\ Reading("go") /\ Token \notin ValueWords \union FlagWords \union {"searchmoves"}
    /\ go' = [go EXCEPT !.unknown = Append(@, Token)] /\ at' = at + 1
    /\ UNCHANGED <<line, command, start, option, position, set, done>>

-----------------------------------------------------------------------------
(* setoption and position: words that switch what the other tokens join.     *)

OptionToken(o, token) ==
    CASE token = "name" -> [o EXCEPT !.in_name = TRUE, !.in_value = FALSE]
      [] token = "value" -> [o EXCEPT !.has_value = TRUE, !.in_name = FALSE, !.in_value = TRUE]
      [] o.in_name -> [o EXCEPT !.name = Append(@, token)]
      [] o.in_value -> [o EXCEPT !.value = Append(@, token)]
      [] OTHER -> o

PositionToken(p, token) ==
    CASE token = "startpos" -> [p EXCEPT !.source = "Startpos", !.in_fen = FALSE, !.in_moves = FALSE]
      [] token = "fen" -> [p EXCEPT !.source = "Fen", !.fen = << >>, !.in_fen = TRUE, !.in_moves = FALSE]
      [] token = "moves" -> [p EXCEPT !.in_fen = FALSE, !.in_moves = TRUE]
      [] p.in_fen -> [p EXCEPT !.fen = Append(@, token)]
      [] p.in_moves -> [p EXCEPT !.moves = Append(@, token)]
      [] OTHER -> p

ReadOption ==
    /\ Reading("setoption")
    /\ option' = OptionToken(option, Token) /\ at' = at + 1
    /\ UNCHANGED <<line, command, start, go, position, set, done>>

ReadPosition ==
    /\ Reading("position")
    /\ position' = PositionToken(position, Token) /\ at' = at + 1
    /\ UNCHANGED <<line, command, start, go, option, set, done>>

LowerOf(word) == IF word \in DOMAIN Lower THEN Lower[word] ELSE word

\* SpinOption::set, CheckOption::set: the value is one word, or several
\* joined by spaces, none of which reads as a whole.
SpinTakes(id, value) ==
    Len(value) = 1 /\ value[1] \in DOMAIN Spin /\ Spin[value[1]] \in 1..SpinMax[id]
CheckTakes(value) == Len(value) = 1 /\ LowerOf(value[1]) \in On \union Off

\* Options::set; what is refused throws and leaves the options alone.
Set(o) ==
    LET name == [i \in DOMAIN o.name |-> LowerOf(o.name[i])]
    IN  CASE name \in {<<"hash">>, <<"threads">>} /\ o.has_value /\ SpinTakes(name[1], o.value)
               -> <<name[1], Spin[o.value[1]]>>
          [] name = <<"ponder">> /\ o.has_value /\ CheckTakes(o.value)
               -> <<"ponder", LowerOf(o.value[1]) \in On>>
          [] name = <<"clear", "hash">> /\ ~o.has_value -> <<"clear hash", 0>>
          [] OTHER -> Refused

SetOption ==
    /\ ~done /\ at > Len(line) /\ command = "setoption"
    /\ set' = Set(option) /\ done' = TRUE
    /\ UNCHANGED <<line, at, command, start, go, option, position>>

Next ==
    \/ SkipToken \/ Recognize \/ Finish
    \/ ReadValue \/ ReadFlag \/ ReadSearchmoves \/ ReadUnknown
    \/ ReadOption \/ SetOption \/ ReadPosition

Spec == Init /\ [][Next]_vars

-----------------------------------------------------------------------------
(* The same lines read as a whole.                                           *)

Owned == start + 1 .. Len(line)
Latest(S) == Max(S \union {0})
TokensAt(S) == LET order == SetToSortSeq(S, <) IN [n \in DOMAIN order |-> line[order[n]]]

\* The tokens behind a mark: w stands before them and no other mark between.
Behind(w, marks) ==
    {i \in Owned : /\ line[i] \notin marks
                   /\ LET mark == Latest({j \in start + 1 .. i : line[j] \in marks})
                      IN  mark > 0 /\ line[mark] = w}

\* The tokens of go before searchmoves, and those that are a value.
Listed == {i \in Owned : \A j \in start + 1 .. i : line[j] # "searchmoves"}
ValueAt(i, w) == i - 1 \in Listed /\ line[i - 1] = w /\ Reads(w, line[i])

(* Variables stay in their types; a command's fields are of that command. *)
TypeOK ==
    /\ at \in 1 .. Len(line) + 1 /\ start \in 0 .. at - 1
    /\ command \in Commands \union {"none"} /\ done \in BOOLEAN
    /\ command # "go" => go = NoGo
    /\ command # "setoption" => option = NoOption /\ set = Refused
    /\ command # "position" => position = NoPosition

(* parse_command: words before the first command are ignored, and after it
   nothing is taken for another command. *)
FirstCommandOwns ==
    done => LET known == {i \in DOMAIN line : line[i] \in Commands}
            IN  IF known = {} THEN command = "none" /\ start = 0
                ELSE start = Min(known) /\ command = line[start]

(* parse_go_parameters: a parameter has the number that directly follows the
   last mention of it that has one, however the line stumbles over others
   (a word without a number, a number of the wrong width, one given twice),
   and what a mention without a number is followed by is still read. *)
GoTakesLastValue ==
    done /\ command = "go" =>
        \A w \in ValueWords : go.value[w] = Latest({i \in Listed : ValueAt(i, w)})

(* parse_go_parameters: every other token is a flag, a root move behind
   searchmoves, or is kept as unknown, in order; none is lost or read twice. *)
GoKeepsEveryToken ==
    done /\ command = "go" =>
        /\ go.unknown = TokensAt({i \in Listed :
                            /\ line[i] \notin ValueWords \union FlagWords
                            /\ \A w \in ValueWords : ~ValueAt(i, w)})
        /\ go.flags = {line[i] : i \in Listed} \intersect FlagWords
        /\ go.restricted = (Listed # Owned)
        /\ go.searchmoves = TokensAt({i \in Owned : i - 1 \in Owned \ Listed})

(* parse_position_command: the source is the last one named, the FEN is what
   follows the last "fen" and only that, and the moves are those of every
   list: a later source does not discard the moves that came before it. *)
PositionIsLastNamed ==
    done /\ command = "position" =>
        LET marks == {"startpos", "fen", "moves"}
            named == Latest({i \in Owned : line[i] \in {"startpos", "fen"}})
            fen == Latest({i \in Owned : line[i] = "fen"})
        IN  /\ position.source = IF named = 0 THEN "Invalid"
                                 ELSE IF line[named] = "fen" THEN "Fen" ELSE "Startpos"
            /\ position.fen = TokensAt({i \in Behind("fen", marks) : i > fen})
            /\ position.moves = TokensAt(Behind("moves", marks))

(* parse_setoption_command and Options::set: an option changes only when the
   line, read as a whole, spells its name and exactly one good value (none for
   Clear Hash); a value given twice is two words and no number. *)
SetAsSpelled ==
    done /\ command = "setoption" /\ set # Refused =>
        LET marks == {"name", "value"}
            name == TokensAt(Behind("name", marks))
            value == TokensAt(Behind("value", marks))
        IN  /\ Len(name) = (IF set[1] = "clear hash" THEN 2 ELSE 1)
            /\ set[1] \in {"hash", "threads"} =>
                   value = <<value[1]>> /\ LowerOf(name[1]) = set[1] /\ Spin[value[1]] = set[2]
            /\ set[1] = "ponder" => value = <<value[1]>> /\ LowerOf(name[1]) = "ponder"
            /\ set[1] = "clear hash" => \A i \in Owned : line[i] # "value"
===============================================================================
