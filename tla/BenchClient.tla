---------------------------- MODULE BenchClient -----------------------------
(***************************************************************************)
(* The search benchmark's UCI client and the engine it runs as a child     *)
(* over a pseudo-terminal: run_position for one position.  Every read has  *)
(* a time limit, the engine may be slow, may refuse an option, and may     *)
(* die.  A line is its kind; writes of one line are atomic.                *)
(* Sources: bench/benchlib/uci.py; the engine is uci/engine.cpp.           *)
(***************************************************************************)
EXTENDS Integers, Sequences

CONSTANT MaxInfos    \* bound: reports of one search

ASSUME InfosAssumption == MaxInfos \in Nat

Hello == <<"uci", "threads", "hash", "isready">>
Search == <<"ucinewgame", "position", "go">>
Script == Hello \o Search \o <<"quit">>

VARIABLES
    pc,        \* the client: hello, search, drain, reap, exit, closed
    sent,      \* how much of the script is written
    saw,       \* saw_uciok, saw_readyok
    result,    \* [depth, bestmove] of the row, 0 and FALSE when empty
    raised,    \* the exception that left the with block
    outcome,   \* what run_position returned or raised
    input,     \* lines the engine has not read
    output,    \* lines the client has not read, echoed input among them
    engine,    \* reading, searching, ended (its terminal is closed), exited
    infos,     \* reports of the search
    refused,   \* the options this engine refuses
    threads    \* the engine has the threads that were asked for

clientVars == <<pc, sent, saw, result, raised, outcome>>
engineVars == <<engine, infos, refused, threads>>
vars == <<clientVars, input, output, engineVars>>

Init ==
    /\ pc = "hello" /\ sent = 0 /\ saw = {}
    /\ result = [depth |-> 0, bestmove |-> FALSE]
    /\ raised = "none" /\ outcome = "none"
    /\ input = << >> /\ output = << >>
    /\ engine = "reading" /\ infos = 0 /\ threads = FALSE
    /\ refused \in SUBSET {"threads"}

Alive == engine \in {"reading", "searching"}
Emit(kind) == output' = Append(output, [kind |-> kind, depth |-> infos'])

-----------------------------------------------------------------------------
(* The engine: Engine::loop, its main worker, and its end.                   *)

Command == Head(input)
Answer(kind) == Emit(kind) /\ UNCHANGED threads

Handle ==
    CASE Command = "uci" -> Answer("uciok")
      [] Command = "isready" -> Answer("readyok")
      [] Command = "threads" ->
           IF "threads" \in refused THEN Answer("info string")
           ELSE threads' = TRUE /\ UNCHANGED output
      [] OTHER -> UNCHANGED <<output, threads>>

\* Commands are read one by one, while a search runs too; quit ends the loop.
ReadCommand ==
    /\ Alive /\ input # << >>
    /\ input' = Tail(input)
    /\ engine' = CASE Command = "go" -> "searching" [] Command = "quit" -> "ended" [] OTHER -> engine
    /\ UNCHANGED <<clientVars, infos, refused>>
    /\ Handle

Report ==
    /\ engine = "searching" /\ infos < MaxInfos
    /\ infos' = infos + 1 /\ Emit("info")
    /\ UNCHANGED <<clientVars, input, engine, refused, threads>>

BestMove ==
    /\ engine = "searching"
    /\ engine' = "reading" /\ UNCHANGED infos /\ Emit("bestmove")
    /\ UNCHANGED <<clientVars, input, refused, threads>>

Crash == Alive /\ engine' = "ended" /\ UNCHANGED <<clientVars, input, output, infos, refused, threads>>
Exit == engine = "ended" /\ engine' = "exited" /\ UNCHANGED <<clientVars, input, output, infos, refused, threads>>

-----------------------------------------------------------------------------
(* The client.                                                               *)

\* Seeded fault: the engine is not told to quit.
DueNoQuit == CASE pc = "hello" -> Len(Hello) [] pc \in {"search", "drain"} -> Len(Hello \o Search) [] OTHER -> 0

\* What is to be written before the phase reads.
Due == CASE pc = "hello" -> Len(Hello)
         [] pc = "search" -> Len(Hello \o Search)
         [] pc = "drain" -> Len(Script)
         [] OTHER -> 0

\* send: the terminal echoes what is written.
Send ==
    /\ sent < Due
    /\ sent' = sent + 1
    /\ input' = Append(input, Script[sent + 1])
    /\ UNCHANGED infos /\ Emit("echo")
    /\ UNCHANGED <<pc, saw, result, raised, outcome, engine, refused, threads>>

Reading(phase) == pc = phase /\ sent >= Due
Line == Head(output)
Take(phase) == Reading(phase) /\ output # << >> /\ output' = Tail(output)

\* The client waits for both answers, in any order.
ReadHello ==
    /\ Take("hello")
    /\ saw' = saw \union ({Line.kind} \intersect {"uciok", "readyok"})
    /\ pc' = IF saw' = {"uciok", "readyok"} THEN "search" ELSE pc
    /\ UNCHANGED <<sent, result, raised, outcome, input, engineVars>>

\* Each report with a depth replaces the row's; bestmove ends the search.
ReadSearch ==
    /\ Take("search")
    /\ result' = CASE Line.kind = "info" -> [result EXCEPT !.depth = Line.depth]
                   [] Line.kind = "bestmove" -> [result EXCEPT !.bestmove = TRUE]
                   [] OTHER -> result
    /\ pc' = IF Line.kind = "bestmove" THEN "drain" ELSE pc
    /\ UNCHANGED <<sent, saw, raised, outcome, input, engineVars>>

Silent == output = << >>

Raise(error) == raised' = error /\ pc' = "exit" /\ UNCHANGED <<sent, saw, result, outcome, input, output, engineVars>>

\* read_line in the handshake or the search: no line in time, or no more lines.
ReadTimesOut ==
    /\ \E phase \in {"hello", "search"} : Reading(phase)
    /\ Silent /\ Alive
    /\ Raise("timeout")

\* Seeded fault: the end of output is taken for the end of the search.
ReadClosesBreak ==
    /\ \E phase \in {"hello", "search"} : Reading(phase)
    /\ Silent /\ ~Alive
    /\ pc' = "drain"
    /\ UNCHANGED <<sent, saw, result, raised, outcome, input, output, engineVars>>

ReadCloses ==
    /\ \E phase \in {"hello", "search"} : Reading(phase)
    /\ Silent /\ ~Alive
    /\ Raise("closed")

\* The drain takes lines while the process runs, and as many of the rest as
\* were already read; a timeout goes on, the end of output leaves it.
DrainLine ==
    /\ Take("drain")
    /\ UNCHANGED <<clientVars, input, engineVars>>

DrainEnds ==
    /\ Reading("drain")
    /\ engine = "exited" \/ (~Alive /\ Silent)
    /\ pc' = "reap"
    /\ UNCHANGED <<sent, saw, result, raised, outcome, input, output, engineVars>>

\* process.wait(timeout)
Reap ==
    /\ pc = "reap" /\ engine = "exited" /\ pc' = "exit"
    /\ UNCHANGED <<sent, saw, result, raised, outcome, input, output, engineVars>>

ReapTimesOut == pc = "reap" /\ engine # "exited" /\ Raise("expired")

\* Popen.__exit__ waits without a limit, with the terminal still open; then it
\* is closed, and a row without a move is an error.
Leave ==
    /\ pc = "exit" /\ engine = "exited"
    /\ pc' = "closed"
    /\ outcome' = IF raised # "none" THEN raised ELSE IF result.bestmove THEN "result" ELSE "no bestmove"
    /\ UNCHANGED <<sent, saw, result, raised, input, output, engineVars>>

Client ==
    \/ Send \/ ReadHello \/ ReadSearch \/ ReadTimesOut \/ ReadCloses
    \/ DrainLine \/ DrainEnds \/ Reap \/ ReapTimesOut \/ Leave
EngineStep == ReadCommand \/ Report \/ BestMove \/ Exit
Next == Client \/ EngineStep \/ Crash

Spec == Init /\ [][Next]_vars /\ WF_vars(Client) /\ WF_vars(EngineStep)

-----------------------------------------------------------------------------
(* Values stay in their types, and phases come in order. *)
TypeOK ==
    /\ pc \in {"hello", "search", "drain", "reap", "exit", "closed"}
    /\ sent \in 0 .. Len(Script) /\ saw \subseteq {"uciok", "readyok"}
    /\ result \in [depth : 0 .. MaxInfos, bestmove : BOOLEAN]
    /\ engine \in {"reading", "searching", "ended", "exited"}
    /\ infos \in 0 .. MaxInfos /\ threads \in BOOLEAN
    /\ pc \in {"drain", "reap"} => result.bestmove

(* run_position: a row that is returned has the move and the last report of
   the search it asked for, whatever was echoed, refused or late in between. *)
RowIsOfThisSearch == outcome = "result" => result = [depth |-> infos, bestmove |-> TRUE]

(* Nobody is left behind: whatever run_position ends with, its engine is gone
   before the next position starts another one. *)
NoOrphan == outcome # "none" => engine = "exited"

(* The drain is best effort: once the move is read, an engine that dies, is
   silent or closes its terminal does not cost the row. *)
AnswerIsKept == result.bestmove /\ outcome # "none" => outcome \in {"result", "expired"}

(* An engine that answers in time, or dies, ends the run: no wait is left. *)
RunEnds == <>(outcome # "none" \/ raised = "timeout")

(* run_position: whenever the engine dies or is late, the row that is returned
   is whole and of the search it labels, nothing already answered is lost, and
   no child survives into the next position. *)
RowIsSound == TypeOK /\ RowIsOfThisSearch /\ NoOrphan /\ AnswerIsKept
=============================================================================
