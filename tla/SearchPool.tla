----------------------------- MODULE SearchPool -----------------------------
(***************************************************************************)
(* The life of a search: the UCI thread that reads commands and drives     *)
(* ThreadPool (uci/engine.cpp, search/thread_pool.cpp), and the pool's     *)
(* threads, each parked on its own condition variable or inside            *)
(* Worker::search (search/worker.cpp, search_root of algorithm.cpp).       *)
(* Thread 0 is the main worker, which alone talks to the GUI; the others   *)
(* are helpers.                                                            *)
(*                                                                         *)
(* A step is what a thread does between two accesses to shared state, one  *)
(* critical section or one atomic operation.  A condition variable is the  *)
(* set of actors asleep on it: a waiter joins it when its predicate is     *)
(* false and looks again once it is out of it, notify_one takes out any    *)
(* one member, notify_all all of them.  An atomic is written and notified  *)
(* in one step: the waiter it may concern is asleep in between.            *)
(*                                                                         *)
(* The search of one depth is one step with any value and best root move:  *)
(* what alphabeta computes is not the subject here, only when it starts,   *)
(* completes, is abandoned or asks for a stop.                             *)
(***************************************************************************)
EXTENDS Integers, Sequences, FiniteSets

CONSTANTS
  MaxThreads,      \* largest value of the Threads option
  InitialThreads,  \* its default, the size of the pool the engine starts with
  Positions,
  InitialPosition, \* the position of a new Board
  Moves,           \* non-null moves, each the number Move::bits holds
  LegalMoves,      \* the legal moves of a position
  MaxDepth,        \* Limits::max_depth
  Scores,          \* scores a completed depth can have
  MateScores,      \* those that has_mate_within_limit accepts under a mate limit
  Commands,        \* the commands the GUI can send
  MaxSearches      \* bound: number of searches accepted in a behaviour

Thread == 0 .. MaxThreads - 1
Uci == MaxThreads  \* the UCI thread's name in a condition variable
NullMove == 0      \* NULL_MOVE
NoAnswer == -1     \* no bestmove printed yet
Main == 0

\* search::Limits: budget stands for movetime, the clocks and nodes, the limits
\* polled during the search; mate for a mate limit; root for searchmoves.
Limits == [depth : 1 .. MaxDepth, infinite : BOOLEAN, ponder : BOOLEAN,
           budget : BOOLEAN, mate : BOOLEAN, root : SUBSET Moves]

DefaultLimits == [depth |-> MaxDepth, infinite |-> FALSE, ponder |-> FALSE,
                  budget |-> FALSE, mate |-> FALSE, root |-> {}]

\* A UCI command: lim is the request of a go, pos the position of a position
\* (or of the console's move), n the size asked of setoption name Threads;
\* "reset" is ucinewgame, Clear Hash or Hash; "quit" is quit, exit or the end
\* of the input; the commands that only print are left out.
Kinds == {"go", "stop", "ponderhit", "position", "threads", "reset", "quit"}
Command == [kind : Kinds, lim : Limits, pos : Positions, n : 1 .. MaxThreads]

ASSUME ThreadsAssumption ==
  /\ MaxThreads \in Nat \ {0}
  /\ InitialThreads \in 1 .. MaxThreads
ASSUME MovesAssumption ==
  /\ Moves \subseteq Nat \ {0}
  /\ InitialPosition \in Positions
  /\ LegalMoves \in [Positions -> SUBSET Moves]
ASSUME LimitsAssumption ==
  /\ MaxDepth \in Nat \ {0}
  /\ Scores \subseteq Int
  /\ MateScores \subseteq Scores \ {0}
ASSUME CommandsAssumption ==
  /\ Commands \subseteq Command
  /\ MaxSearches \in Nat

\* RootLine without its variation.
Line == [move : Moves \cup {NullMove}, value : Scores \cup {0},
         depth : 0 .. MaxDepth, done : BOOLEAN]
NoLine == [move |-> NullMove, value |-> 0, depth |-> 0, done |-> FALSE]

Job == [pos : Positions, lim : Limits]
NoJob == [pos |-> InitialPosition, lim |-> DefaultLimits]
NoCommand == [kind |-> "stop", lim |-> DefaultLimits, pos |-> InitialPosition, n |-> 1]

VARIABLES
  \* the UCI thread: Engine
  upc,         \* what it does
  ui,          \* the thread its loop is at
  cmd,         \* the command it handles
  sawBusy,     \* a search was unanswered when the GUI sent that command
  board,       \* Engine::board
  optThreads,  \* Engine::options.threads
  \* the pool
  size,        \* threads.size(): thread t exists when t < size
  pondering,   \* ThreadPool::pondering
  gateOpen,    \* ThreadPool::helper_gate_open
  gateWait,    \* helpers asleep on helper_gate_cv
  \* each thread: Thread
  pc,          \* what it does, "none" when there is no such thread
  searching,   \* Thread::searching
  shutdownReq, \* Thread::shutdown_requested
  stateWait,   \* actors asleep on its state_cv
  stop,        \* Worker::stop_requested_flag
  \* each thread: Worker
  job,         \* board and limits it was configured with
  rootMoves,   \* the moves of root_lines
  depth,       \* the next depth of search_root
  result,      \* root_result
  snapshot,    \* root_result_snapshot
  \* the main worker
  mi,          \* the thread its loop is at
  asleep,      \* it sleeps on pondering or on its own stop flag
  pending,     \* the line of pending_best_move, NoLine when there is none
  \* shared table and protocol
  generation,  \* TranspositionTable::generation
  asked,       \* searches accepted
  told,        \* bestmove lines printed
  best         \* the last of them

cmdVars == <<cmd, sawBusy>>
setupVars == <<board, optThreads>>
engineVars == <<upc, ui, cmdVars, setupVars>>
gateVars == <<gateOpen, gateWait>>
parkVars == <<searching, shutdownReq, stateWait>>
workVars == <<job, rootMoves, depth, result, snapshot>>
mainVars == <<mi, asleep, pending>>
protoVars == <<asked, told, best>>
outputVars == <<generation, protoVars>>
poolVars == <<size, pondering, gateVars>>
outerVars == <<engineVars, poolVars>>
restVars == <<poolVars, pc, parkVars, stop, workVars, mainVars, outputVars>>
vars == <<engineVars, restVars>>

UciPcs == {"read", "scan", "rescan", "busy", "arm", "configure", "wake", "apply",
           "flags", "ponderoff", "gateopen", "sdstop", "sdwait", "sdset", "join", "exited"}
ThreadPcs == {"none", "park", "start", "advance", "release", "gate", "build", "deepen",
              "depth", "pollflags", "pollponder", "pollgate", "ponder", "hold", "finalize",
              "hstop", "hwait", "select", "publish", "unlock", "notify", "exited"}

-----------------------------------------------------------------------------
Live == 0 .. size - 1

\* Seeded fault: bestmove is printed outside the critical section.
LockedNever(t) == FALSE

\* Thread t holds its state_mutex over more than one step: it is printing.
Locked(t) == pc[t] = "unlock"

\* Seeded fault: any_of starts after the main worker, as the helpers' loops do.
IsSearchingHelper(t) == t # Main /\ searching[t]

\* Thread::is_searching
IsSearching(t) == searching[t]

\* Seeded fault: the helpers are not waited for.
MustAwaitNothing(t) == FALSE

\* The predicate of Thread::wait_for_idle, while it is false.
MustAwait(t) == searching[t]

\* Seeded fault: the requested depth is not looked at.
DepthLeftUnbounded(t) == ~stop[t]

\* The condition of search_root's loop.
DepthLeft(t) == depth[t] <= job[t].lim.depth /\ ~stop[t]

\* RootLine::usable_root_move
Usable(line) == line.done /\ line.depth > 0 /\ line.move # NullMove

\* is_better_root_line
Better(a, b) ==
  /\ Usable(a)
  /\ \/ ~Usable(b)
     \/ a.depth > b.depth
     \/ a.depth = b.depth /\ a.value > b.value
     \/ a.depth = b.depth /\ a.value = b.value /\ a.move < b.move

\* Limits::allows_root_move, over the legal moves of the root
Candidates(j) == {m \in LegalMoves[j.pos] : j.lim.root = {} \/ m \in j.lim.root}

\* Limits::has_mate_within_limit
HasMateWithinLimit(lim, value) == lim.mate /\ value \in MateScores

HelperDepthSkipSize == <<1, 1, 2, 2, 2, 2, 3, 3, 3, 3, 3, 3, 4, 4, 4, 4, 4, 4, 4, 4>>
HelperDepthSkipPhase == <<0, 1, 0, 1, 2, 3, 0, 1, 2, 3, 4, 5, 0, 1, 2, 3, 4, 5, 6, 7>>

\* Worker::should_search_root_depth
ShouldSearchRootDepth(t, d) ==
  \/ t = Main
  \/ d = 1
  \/ LET k == ((t - 1) % 20) + 1
     IN ((d + HelperDepthSkipPhase[k]) \div HelperDepthSkipSize[k]) % 2 = 0

\* Seeded fault: a notification that is never sent.
NotifyNobody(t) == UNCHANGED stateWait

\* condition_variable::notify_one on thread t's state_cv, and notify_all
NotifyOne(t) ==
  IF stateWait[t] = {} THEN UNCHANGED stateWait
  ELSE \E a \in stateWait[t] : stateWait' = [stateWait EXCEPT ![t] = @ \ {a}]

NotifyAll(t) == stateWait' = [stateWait EXCEPT ![t] = {}]

\* Worker::request_stop of thread t: the flag, and notify_all on it
RaiseStop(t) ==
  /\ stop' = [stop EXCEPT ![t] = TRUE]
  /\ asleep' = (asleep /\ ~(t = Main /\ pc[Main] = "hold"))

\* Seeded fault: no notify_all after the store.
LeavePonderingSilently ==
  /\ pondering' = FALSE
  /\ UNCHANGED asleep

\* ThreadPool::leave_pondering
LeavePondering ==
  /\ pondering' = FALSE
  /\ asleep' = (asleep /\ pc[Main] # "ponder")

\* ThreadPool::release_helper_searches
ReleaseHelpers ==
  /\ gateOpen' = TRUE
  /\ gateWait' = {}

\* Seeded fault: the gate stays as the last search left it.
CloseGateForgotten == UNCHANGED gateOpen

\* close_helper_gate
CloseGate == gateOpen' = FALSE

\* idle_loop's searching = false
GoIdle(t) == searching' = [searching EXCEPT ![t] = FALSE]

\* Seeded fault: clear_root_snapshot is not called.
ClearSnapshotForgotten(t) == UNCHANGED snapshot

\* clear_root_snapshot
ClearSnapshot(t) == snapshot' = [snapshot EXCEPT ![t] = NoLine]

Goto(t, label) == pc' = [pc EXCEPT ![t] = label]

Init ==
  /\ upc = "read" /\ ui = 0 /\ cmd = NoCommand /\ sawBusy = FALSE
  /\ board = InitialPosition
  /\ optThreads = InitialThreads /\ size = InitialThreads
  /\ pondering = FALSE /\ gateOpen = FALSE /\ gateWait = {}
  /\ pc = [t \in Thread |-> IF t < InitialThreads THEN "park" ELSE "none"]
  /\ searching = [t \in Thread |-> FALSE]
  /\ shutdownReq = [t \in Thread |-> FALSE]
  /\ stateWait = [t \in Thread |-> {}]
  /\ stop = [t \in Thread |-> FALSE]
  /\ job = [t \in Thread |-> NoJob]
  /\ rootMoves = [t \in Thread |-> {}]
  /\ depth = [t \in Thread |-> 1]
  /\ result = [t \in Thread |-> NoLine]
  /\ snapshot = [t \in Thread |-> NoLine]
  /\ mi = 0 /\ asleep = FALSE /\ pending = NoLine
  /\ generation = 0
  /\ asked = 0 /\ told = 0 /\ best = NoAnswer

-----------------------------------------------------------------------------
(* The UCI thread: one command at a time.                                  *)

UciGoto(label) == upc' = label

\* A handler returns, or throws and Engine::execute reports: the next command.
Return ==
  /\ UciGoto("read")
  /\ ui' = 0
  /\ cmd' = NoCommand
  /\ sawBusy' = FALSE

\* Where the handler of a command starts.
EntryPoint(kind) ==
  CASE kind \in {"stop", "quit"} -> "flags"
    [] kind = "ponderhit"        -> "ponderoff"
    [] OTHER                     -> "scan"

\* Engine::loop, execute and dispatch.  The bound on searches is on the GUI.
ReadCommand(c) ==
  /\ upc = "read"
  /\ c.kind = "go" => asked < MaxSearches
  /\ cmd' = c
  /\ sawBusy' = (asked # told)
  /\ UciGoto(EntryPoint(c.kind))
  /\ UNCHANGED <<ui, setupVars, restVars>>

\* ThreadPool::is_searching asks the threads in index order, each under its
\* mutex, up to the first that searches.  A handler asks before it does
\* anything ("scan"); start_search and resize ask again ("rescan").
ScanThread ==
  /\ upc \in {"scan", "rescan"}
  /\ ui \in Live /\ ~Locked(ui)
  /\ IF IsSearching(ui)
     THEN UciGoto("busy") /\ UNCHANGED ui
     ELSE ui' = ui + 1 /\ UNCHANGED upc
  /\ UNCHANGED <<cmdVars, setupVars, restVars>>

\* No thread searches.  A go resolves its searchmoves between the two scans.
ScanEnd ==
  /\ upc \in {"scan", "rescan"}
  /\ ui = size
  /\ IF cmd.kind = "go" /\ ~(cmd.lim.root \subseteq LegalMoves[board])
     THEN Return
     ELSE /\ UciGoto(CASE upc = "scan" /\ cmd.kind \in {"go", "threads"} -> "rescan"
                       [] upc = "rescan" /\ cmd.kind = "go"              -> "arm"
                       [] OTHER                                          -> "apply")
          /\ ui' = 0
          /\ UNCHANGED cmdVars
  /\ UNCHANGED <<setupVars, restVars>>

\* "search already in progress", or require_idle's exception.
Refuse ==
  /\ upc = "busy"
  /\ Return
  /\ UNCHANGED <<setupVars, restVars>>

\* start_search: the ponder flag, then close_helper_gate.
Arm ==
  /\ upc = "arm"
  /\ pondering' = cmd.lim.ponder
  /\ CloseGate
  /\ UciGoto("configure")
  /\ UNCHANGED <<ui, cmdVars, setupVars, size, gateWait, pc, parkVars, stop, workVars,
                 mainVars, outputVars>>

\* start_search: configure_search of each thread, under its mutex.
ConfigureThread ==
  /\ upc = "configure" /\ ~Locked(ui)
  /\ job' = [job EXCEPT ![ui] = [pos |-> board, lim |-> cmd.lim]]
  /\ ClearSnapshot(ui)
  /\ stop' = [stop EXCEPT ![ui] = FALSE]
  /\ IF ui + 1 < size
     THEN ui' = ui + 1 /\ UNCHANGED upc
     ELSE UciGoto("wake") /\ ui' = IF size > 1 THEN 1 ELSE Main
  /\ UNCHANGED <<cmdVars, setupVars, poolVars, pc, parkVars, rootMoves, depth, result,
                 mainVars, outputVars>>

\* wake_for_search of one thread.
Wake(t) ==
  /\ searching' = [searching EXCEPT ![t] = TRUE]
  /\ NotifyOne(t)
  /\ UNCHANGED shutdownReq

\* start_search wakes the helpers in order, then the main worker.
WakeHelper ==
  /\ upc = "wake" /\ ui # Main /\ ~Locked(ui)
  /\ Wake(ui)
  /\ ui' = IF ui + 1 < size THEN ui + 1 ELSE Main
  /\ UNCHANGED <<upc, cmdVars, setupVars, poolVars, pc, stop, workVars, mainVars, outputVars>>

WakeMain ==
  /\ upc = "wake" /\ ui = Main /\ ~Locked(Main)
  /\ Wake(Main)
  /\ asked' = asked + 1
  /\ Return
  /\ UNCHANGED <<setupVars, poolVars, pc, stop, workVars, mainVars, generation, told, best>>

\* handle(PositionCommand), or move and undo of the console: the candidate
\* board replaces the engine's, unless it threw and nothing changed.
SetBoard ==
  /\ upc = "apply" /\ cmd.kind = "position"
  /\ board' \in {board, cmd.pos}
  /\ Return
  /\ UNCHANGED <<optThreads, restVars>>

\* handle(NewGameCommand), and the effects of Clear Hash and Hash.
ResetTable ==
  /\ upc = "apply" /\ cmd.kind = "reset"
  /\ generation' = 0
  /\ Return
  /\ UNCHANGED <<setupVars, poolVars, pc, parkVars, stop, workVars, mainVars, protoVars>>

\* ThreadPool::resize to as many threads or more: all the additions are made
\* before one is installed, and then the option takes its value.
GrowPool ==
  /\ upc = "apply" /\ cmd.kind = "threads" /\ cmd.n >= size
  /\ pc' = [t \in Thread |-> IF t \in size .. cmd.n - 1 THEN "park" ELSE pc[t]]
  /\ size' = cmd.n
  /\ optThreads' = cmd.n
  /\ Return
  /\ UNCHANGED <<board, pondering, gateVars, parkVars, stop, workVars, mainVars, outputVars>>

\* Seeded fault: the option is assigned before its effect.
GrowFailsLate ==
  /\ upc = "apply" /\ cmd.kind = "threads" /\ cmd.n > size
  /\ optThreads' = cmd.n
  /\ Return
  /\ UNCHANGED <<board, restVars>>

\* The system refuses a thread: the additions are destroyed with the vector
\* that holds them, the exception leaves the pool and the option as they were.
GrowFails ==
  /\ upc = "apply" /\ cmd.kind = "threads" /\ cmd.n > size
  /\ Return
  /\ UNCHANGED <<setupVars, restVars>>

\* ThreadPool::resize to fewer: the threads from n on are shut down.
BeginShrink ==
  /\ upc = "apply" /\ cmd.kind = "threads" /\ cmd.n < size
  /\ ui' = cmd.n
  /\ UciGoto("sdstop")
  /\ UNCHANGED <<cmdVars, setupVars, restVars>>

\* ThreadPool::request_stop, first in stop and in ThreadPool::shutdown: the
\* stop flags in index order, the ponder flag, the gate.
StopThread ==
  /\ upc = "flags"
  /\ RaiseStop(ui)
  /\ IF ui + 1 < size
     THEN ui' = ui + 1 /\ UNCHANGED upc
     ELSE UciGoto("ponderoff") /\ UNCHANGED ui
  /\ UNCHANGED <<cmdVars, setupVars, poolVars, pc, parkVars, workVars, mi, pending, outputVars>>

\* leave_pondering, all that ponderhit does.
EndPonder ==
  /\ upc = "ponderoff"
  /\ LeavePondering
  /\ IF cmd.kind = "ponderhit"
     THEN Return
     ELSE UciGoto("gateopen") /\ UNCHANGED <<ui, cmdVars>>
  /\ UNCHANGED <<setupVars, size, gateVars, pc, parkVars, stop, workVars, mi, pending, outputVars>>

\* release_helper_searches; shutdown goes on with the threads in order.
OpenGate ==
  /\ upc = "gateopen"
  /\ ReleaseHelpers
  /\ IF cmd.kind = "stop"
     THEN Return
     ELSE UciGoto("sdstop") /\ ui' = 0 /\ UNCHANGED cmdVars
  /\ UNCHANGED <<setupVars, size, pondering, pc, parkVars, stop, workVars, mainVars, outputVars>>

\* Thread::shutdown: request_stop, wait_for_idle, then shutdown_requested.
ShutdownStop ==
  /\ upc = "sdstop"
  /\ RaiseStop(ui)
  /\ UciGoto("sdwait")
  /\ UNCHANGED <<ui, cmdVars, setupVars, poolVars, pc, parkVars, workVars, mi, pending,
                 outputVars>>

\* wait_for_idle holds the mutex when it reads the flag and when it sleeps.
ShutdownWait ==
  /\ upc = "sdwait" /\ ~Locked(ui) /\ Uci \notin stateWait[ui]
  /\ IF MustAwait(ui)
     THEN /\ stateWait' = [stateWait EXCEPT ![ui] = @ \cup {Uci}]
          /\ UNCHANGED upc
     ELSE UciGoto("sdset") /\ UNCHANGED stateWait
  /\ UNCHANGED <<ui, cmdVars, setupVars, poolVars, pc, searching, shutdownReq, stop,
                 workVars, mainVars, outputVars>>

ShutdownSet ==
  /\ upc = "sdset" /\ ~Locked(ui)
  /\ shutdownReq' = [shutdownReq EXCEPT ![ui] = TRUE]
  /\ NotifyOne(ui)
  /\ IF ui + 1 < size
     THEN UciGoto("sdstop") /\ ui' = ui + 1
     ELSE UciGoto("join") /\ ui' = IF cmd.kind = "threads" THEN cmd.n ELSE 0
  /\ UNCHANGED <<cmdVars, setupVars, poolVars, pc, searching, stop, workVars, mainVars,
                 outputVars>>

\* ~Thread: its second shutdown() finds all of it done, then it joins.  A new
\* Thread of this index starts afresh.  A shrink ends with the option taking
\* its value, a quit with the engine.
JoinThread ==
  /\ upc = "join" /\ pc[ui] = "exited"
  /\ Goto(ui, "none")
  /\ shutdownReq' = [shutdownReq EXCEPT ![ui] = FALSE]
  /\ stop' = [stop EXCEPT ![ui] = FALSE]
  /\ job' = [job EXCEPT ![ui] = NoJob]
  /\ rootMoves' = [rootMoves EXCEPT ![ui] = {}]
  /\ depth' = [depth EXCEPT ![ui] = 1]
  /\ result' = [result EXCEPT ![ui] = NoLine]
  /\ snapshot' = [snapshot EXCEPT ![ui] = NoLine]
  /\ IF ui + 1 < size
     THEN ui' = ui + 1 /\ UNCHANGED <<upc, cmdVars, optThreads, size>>
     ELSE /\ size' = IF cmd.kind = "threads" THEN cmd.n ELSE 0
          /\ IF cmd.kind = "threads"
             THEN Return /\ optThreads' = cmd.n
             ELSE UciGoto("exited") /\ UNCHANGED <<ui, cmdVars, optThreads>>
  /\ UNCHANGED <<board, pondering, gateVars, searching, stateWait, mainVars, outputVars>>

UciStep ==
  \/ ScanThread \/ ScanEnd \/ Refuse
  \/ Arm \/ ConfigureThread \/ WakeHelper \/ WakeMain
  \/ SetBoard \/ ResetTable \/ GrowPool \/ GrowFails \/ BeginShrink
  \/ StopThread \/ EndPonder \/ OpenGate
  \/ ShutdownStop \/ ShutdownWait \/ ShutdownSet \/ JoinThread

-----------------------------------------------------------------------------
(* A thread: Thread::idle_loop around Worker::search.                      *)

\* The wait at the top of idle_loop.
Park(t) ==
  /\ pc[t] = "park" /\ t \notin stateWait[t]
  /\ IF shutdownReq[t]
     THEN Goto(t, "exited") /\ UNCHANGED stateWait
     ELSE IF searching[t]
     THEN Goto(t, "start") /\ UNCHANGED stateWait
     ELSE stateWait' = [stateWait EXCEPT ![t] = @ \cup {t}] /\ UNCHANGED pc
  /\ UNCHANGED <<outerVars, searching, shutdownReq, stop, workVars, mainVars, outputVars>>

\* reset_search_state
StartSearch(t) ==
  /\ pc[t] = "start"
  /\ result' = [result EXCEPT ![t] = NoLine]
  /\ rootMoves' = [rootMoves EXCEPT ![t] = {}]
  /\ pending' = IF t = Main THEN NoLine ELSE pending
  /\ Goto(t, IF t = Main THEN "advance" ELSE "gate")
  /\ UNCHANGED <<outerVars, parkVars, stop, job, depth, snapshot, mi, asleep, outputVars>>

\* tt.advance_generation()
AdvanceGeneration ==
  /\ pc[Main] = "advance"
  /\ generation' = (generation + 1) % 256
  /\ Goto(Main, "release")
  /\ UNCHANGED <<outerVars, parkVars, stop, workVars, mainVars, protoVars>>

Release ==
  /\ pc[Main] = "release"
  /\ ReleaseHelpers
  /\ Goto(Main, "build")
  /\ UNCHANGED <<engineVars, size, pondering, parkVars, stop, workVars, mainVars, outputVars>>

\* wait_for_helper_release
PassGate(t) ==
  /\ pc[t] = "gate" /\ t \notin gateWait
  /\ IF gateOpen
     THEN Goto(t, "build") /\ UNCHANGED gateWait
     ELSE gateWait' = gateWait \cup {t} /\ UNCHANGED pc
  /\ UNCHANGED <<engineVars, size, pondering, gateOpen, parkVars, stop, workVars, mainVars,
                 outputVars>>

\* build_root_lines, and the terminal root of search_root.
BuildRootLines(t) ==
  /\ pc[t] = "build"
  /\ rootMoves' = [rootMoves EXCEPT ![t] = Candidates(job[t])]
  /\ depth' = [depth EXCEPT ![t] = 1]
  /\ IF Candidates(job[t]) = {}
     THEN /\ result' = [result EXCEPT ![t] = [NoLine EXCEPT !.done = TRUE]]
          /\ Goto(t, IF t = Main THEN "ponder" ELSE "finalize")
     ELSE Goto(t, "deepen") /\ UNCHANGED result
  /\ UNCHANGED <<outerVars, parkVars, stop, job, snapshot, mainVars, outputVars>>

\* search_root's loop head.
NextDepth(t) ==
  /\ pc[t] = "deepen"
  /\ IF ~DepthLeft(t)
     THEN Goto(t, IF t = Main THEN "ponder" ELSE "finalize") /\ UNCHANGED depth
     ELSE IF ShouldSearchRootDepth(t, depth[t])
     THEN Goto(t, "depth") /\ UNCHANGED depth
     ELSE depth' = [depth EXCEPT ![t] = @ + 1] /\ UNCHANGED pc
  /\ UNCHANGED <<outerVars, parkVars, stop, job, rootMoves, result, snapshot, mainVars,
                 outputVars>>

\* search_root_depth returns true: the best line is the result and the snapshot.
\* The flag may have been raised since the last root move looked at it.
CompleteDepth(t, m, v) ==
  /\ pc[t] = "depth" /\ m \in rootMoves[t]
  /\ LET line == [move |-> m, value |-> v, depth |-> depth[t], done |-> TRUE]
     IN /\ result' = [result EXCEPT ![t] = line]
        /\ snapshot' = [snapshot EXCEPT ![t] = line]
  /\ IF HasMateWithinLimit(job[t].lim, v)
     THEN Goto(t, IF t = Main THEN "ponder" ELSE "finalize") /\ UNCHANGED depth
     ELSE Goto(t, "deepen") /\ depth' = [depth EXCEPT ![t] = @ + 1]
  /\ UNCHANGED <<outerVars, parkVars, stop, job, rootMoves, mainVars, outputVars>>

\* It returns false: a stop was seen, the attempt is dropped.
AbandonDepth(t) ==
  /\ pc[t] = "depth" /\ stop[t]
  /\ Goto(t, IF t = Main THEN "ponder" ELSE "finalize")
  /\ UNCHANGED <<outerVars, parkVars, stop, workVars, mainVars, outputVars>>

\* poll_search_limits finds the time or the nodes spent, and calls request_stop.
PollLimits ==
  /\ pc[Main] = "depth" /\ job[Main].lim.budget
  /\ ~job[Main].lim.infinite /\ ~pondering
  /\ mi' = 0
  /\ Goto(Main, "pollflags")
  /\ UNCHANGED <<outerVars, parkVars, stop, workVars, asleep, pending, outputVars>>

PollStop ==
  /\ pc[Main] = "pollflags"
  /\ RaiseStop(mi)
  /\ IF mi + 1 < size
     THEN mi' = mi + 1 /\ UNCHANGED pc
     ELSE Goto(Main, "pollponder") /\ mi' = 0
  /\ UNCHANGED <<outerVars, parkVars, workVars, pending, outputVars>>

PollEndPonder ==
  /\ pc[Main] = "pollponder"
  /\ LeavePondering
  /\ Goto(Main, "pollgate")
  /\ UNCHANGED <<engineVars, size, gateVars, parkVars, stop, workVars, mi, pending, outputVars>>

\* Back in alphabeta, which sees its own stop: the depth is abandoned.  Nodes and
\* time spent in the same poll make two calls in a row, which do what one does.
PollOpenGate ==
  /\ pc[Main] = "pollgate"
  /\ ReleaseHelpers
  /\ Goto(Main, "ponder")
  /\ UNCHANGED <<engineVars, size, pondering, parkVars, stop, workVars, mainVars, outputVars>>

\* Seeded fault: once ponder mode is left, an infinite request is not looked at.
HoldPonderOnly ==
  /\ pc[Main] = "ponder" /\ ~asleep
  /\ IF job[Main].lim.ponder /\ pondering
     THEN asleep' = TRUE /\ UNCHANGED pc
     ELSE Goto(Main, "finalize") /\ UNCHANGED asleep
  /\ UNCHANGED <<outerVars, parkVars, stop, workVars, mi, pending, outputVars>>

\* wait_while_pondering, entered when the request asked to ponder.
HoldPonder ==
  /\ pc[Main] = "ponder" /\ ~asleep
  /\ IF job[Main].lim.ponder /\ pondering
     THEN asleep' = TRUE /\ UNCHANGED pc
     ELSE Goto(Main, "hold") /\ UNCHANGED asleep
  /\ UNCHANGED <<outerVars, parkVars, stop, workVars, mi, pending, outputVars>>

\* wait_for_stop, entered when the request is infinite and not stopped.
HoldInfinite ==
  /\ pc[Main] = "hold" /\ ~asleep
  /\ IF job[Main].lim.infinite /\ ~stop[Main]
     THEN asleep' = TRUE /\ UNCHANGED pc
     ELSE Goto(Main, "finalize") /\ UNCHANGED asleep
  /\ UNCHANGED <<outerVars, parkVars, stop, workVars, mi, pending, outputVars>>

\* finalize_root_result: an unfinished result that nothing stopped passes for
\* the requested depth.  Then stop_helper_searches, in the main worker.
Finalize(t) ==
  /\ pc[t] = "finalize"
  /\ LET line == IF ~result[t].done /\ ~stop[t]
                 THEN [result[t] EXCEPT !.depth = job[t].lim.depth, !.done = TRUE]
                 ELSE result[t]
     IN /\ result' = [result EXCEPT ![t] = line]
        /\ snapshot' = [snapshot EXCEPT ![t] = line]
  /\ mi' = IF t = Main THEN 1 ELSE mi
  /\ Goto(t, IF t # Main THEN "publish" ELSE IF size > 1 THEN "hstop" ELSE "select")
  /\ UNCHANGED <<outerVars, parkVars, stop, job, rootMoves, depth, asleep, pending, outputVars>>

\* stop_helper_searches: every helper's flag, then wait_for_idle of each.
StopHelper ==
  /\ pc[Main] = "hstop"
  /\ RaiseStop(mi)
  /\ IF mi + 1 < size
     THEN mi' = mi + 1 /\ UNCHANGED pc
     ELSE mi' = 1 /\ Goto(Main, "hwait")
  /\ UNCHANGED <<outerVars, parkVars, workVars, pending, outputVars>>

AwaitHelper ==
  /\ pc[Main] = "hwait" /\ ~Locked(mi) /\ Main \notin stateWait[mi]
  /\ IF MustAwait(mi)
     THEN stateWait' = [stateWait EXCEPT ![mi] = @ \cup {Main}] /\ UNCHANGED <<mi, pc>>
     ELSE /\ UNCHANGED stateWait
          /\ IF mi + 1 < size
             THEN mi' = mi + 1 /\ UNCHANGED pc
             ELSE mi' = 0 /\ Goto(Main, "select")
  /\ UNCHANGED <<outerVars, searching, shutdownReq, stop, workVars, asleep, pending, outputVars>>

\* prepare_final_result: select_best_root_line over the snapshots unless the
\* main worker has a mate it may keep, then any root move if no line is usable.
\* sel is what the loop ends with: equal lines differ by their variation only.
Select(sel) ==
  /\ pc[Main] = "select"
  /\ LET lines == {snapshot[t] : t \in Live}
         own == result[Main]
     IN IF HasMateWithinLimit(job[Main].lim, own.value) \/ \A l \in lines : ~Better(l, own)
        THEN sel = own
        ELSE sel \in lines /\ \A l \in lines : ~Better(l, sel)
  /\ IF ~Usable(sel) /\ rootMoves[Main] # {}
     THEN \E m \in rootMoves[Main] :
            pending' = [sel EXCEPT !.move = m, !.depth = 0, !.done = FALSE]
     ELSE pending' = sel
  /\ Goto(Main, "publish")
  /\ UNCHANGED <<outerVars, parkVars, stop, workVars, mi, asleep, outputVars>>

\* idle_loop takes the mutex and publishes: the main worker prints bestmove, a
\* helper has no pending move.
Publish(t) ==
  /\ pc[t] = "publish"
  /\ IF t = Main
     THEN /\ told' = told + 1
          /\ best' = pending.move
          /\ pending' = NoLine
     ELSE UNCHANGED <<told, best, pending>>
  /\ Goto(t, "unlock")
  /\ UNCHANGED <<outerVars, parkVars, stop, workVars, mi, asleep, generation, asked>>

\* searching = false, still under the mutex, which it then releases.
Unlock(t) ==
  /\ pc[t] = "unlock"
  /\ GoIdle(t)
  /\ Goto(t, "notify")
  /\ UNCHANGED <<outerVars, shutdownReq, stateWait, stop, workVars, mainVars, outputVars>>

Notify(t) ==
  /\ pc[t] = "notify"
  /\ NotifyAll(t)
  /\ Goto(t, "park")
  /\ UNCHANGED <<outerVars, searching, shutdownReq, stop, workVars, mainVars, outputVars>>

MainStep ==
  \/ AdvanceGeneration \/ Release
  \/ PollLimits \/ PollStop \/ PollEndPonder \/ PollOpenGate
  \/ HoldPonder \/ HoldInfinite
  \/ StopHelper \/ AwaitHelper
  \/ \E sel \in Line : Select(sel)

ThreadStep(t) ==
  \/ Park(t) \/ StartSearch(t) \/ BuildRootLines(t)
  \/ NextDepth(t) \/ AbandonDepth(t)
  \/ \E m \in Moves, v \in Scores : CompleteDepth(t, m, v)
  \/ Finalize(t) \/ Publish(t) \/ Unlock(t) \/ Notify(t)
  \/ t # Main /\ PassGate(t)
  \/ t = Main /\ MainStep

\* A condition variable may wake a waiter that nobody notified.
SpuriousWake(t, a) ==
  /\ a \in stateWait[t]
  /\ stateWait' = [stateWait EXCEPT ![t] = @ \ {a}]
  /\ UNCHANGED <<outerVars, pc, searching, shutdownReq, stop, workVars, mainVars, outputVars>>

SpuriousGateWake(t) ==
  /\ t \in gateWait
  /\ gateWait' = gateWait \ {t}
  /\ UNCHANGED <<engineVars, size, pondering, gateOpen, pc, parkVars, stop, workVars,
                 mainVars, outputVars>>

\* The engine has ended: the only state it may stay in.
Terminated == upc = "exited" /\ UNCHANGED vars

Next ==
  \/ \E c \in Commands : ReadCommand(c)
  \/ UciStep
  \/ \E t \in Thread : ThreadStep(t)
  \/ \E t \in Thread, a \in 0 .. MaxThreads : SpuriousWake(t, a)
  \/ \E t \in Thread : SpuriousGateWake(t)
  \/ Terminated

Safety == Init /\ [][Next]_vars

\* Each thread runs, a command that was read is handled, the search of a depth
\* ends.  Nothing makes the GUI send a command or a poll find its limit spent.
Fairness ==
  /\ WF_vars(UciStep)
  /\ \A t \in Thread : WF_vars(ThreadStep(t))

Spec == Safety /\ Fairness

-----------------------------------------------------------------------------
(* What must hold.                                                         *)

\* The variables have their types.
FlagTypes ==
  /\ sawBusy \in BOOLEAN /\ pondering \in BOOLEAN /\ gateOpen \in BOOLEAN /\ asleep \in BOOLEAN

ControlTypes ==
  /\ upc \in UciPcs /\ ui \in 0 .. MaxThreads /\ mi \in 0 .. MaxThreads
  /\ size \in 0 .. MaxThreads /\ optThreads \in 1 .. MaxThreads
  /\ generation \in 0 .. 255 /\ asked \in Nat /\ told \in Nat

ThreadTypes ==
  /\ gateWait \subseteq Thread
  /\ pc \in [Thread -> ThreadPcs]
  /\ searching \in [Thread -> BOOLEAN] /\ shutdownReq \in [Thread -> BOOLEAN]
  /\ stateWait \in [Thread -> SUBSET (0 .. MaxThreads)]
  /\ stop \in [Thread -> BOOLEAN]

WorkTypes ==
  /\ cmd \in Command /\ board \in Positions
  /\ job \in [Thread -> Job]
  /\ rootMoves \in [Thread -> SUBSET Moves]
  /\ depth \in [Thread -> 1 .. MaxDepth + 1]
  /\ result \in [Thread -> Line] /\ snapshot \in [Thread -> Line]
  /\ pending \in Line /\ best \in Moves \cup {NullMove, NoAnswer}

TypeOK == FlagTypes /\ ControlTypes /\ ThreadTypes /\ WorkTypes

\* Thread t does nothing but wait for work, or is on its way there.
Idle(t) == ~searching[t] /\ pc[t] \in {"notify", "park"}

\* An operation that changes what workers use (the copy of the board they get,
\* the table, the pool itself) runs while every thread is idle.  is_searching asks
\* the threads one after the other and its answer is used after the last lock was
\* released: it is still true then, for no thread but this one wakes another.
ExclusiveWhenIdle ==
  upc \in {"arm", "configure", "apply"} => \A t \in Live : Idle(t)

\* "search already in progress" is never the answer to a command that the GUI
\* sent after it saw the bestmove: idle_loop prints and goes idle in one
\* critical section, the helpers having gone idle before.
NoSpuriousRefusal == upc = "busy" => sawBusy

\* Helpers search inside the main worker's search: not before it advanced the
\* table's generation, not after it selected the answer, whoever opened the
\* gate, the main worker or a stop.
HelpersInsideMainSearch ==
  \A t \in Thread \ {Main} :
    pc[t] = "depth" =>
      pc[Main] \in {"release", "build", "deepen", "depth", "pollflags", "pollponder", "pollgate",
                   "ponder", "hold", "finalize", "hstop", "hwait"}

\* Nobody is left asleep: who sleeps on a condition waits for something that
\* did not happen yet, or the notification is still to come.
NoLostWakeup ==
  /\ \A t \in Thread :
       /\ t \in stateWait[t] => ~searching[t] /\ ~shutdownReq[t]
       /\ stateWait[t] \ {t} # {} => searching[t] \/ pc[t] = "notify"
  /\ gateOpen => gateWait = {}
  /\ asleep => \/ pc[Main] = "ponder" /\ pondering
               \/ pc[Main] = "hold" /\ ~stop[Main]

\* The GUI gets one bestmove for each search: never more than were asked, at
\* most one owed, and none once the main worker is idle.
OneAnswerEach ==
  /\ asked - told \in {0, 1}
  /\ asked # told => searching[Main]

\* When the main worker is about to print, no result of a thread is left out
\* because it came late: none is deeper than the chosen line, unless the main
\* worker keeps a mate within the requested limit.
DeepestResultChosen ==
  pc[Main] = "publish" /\ ~HasMateWithinLimit(job[Main].lim, result[Main].value) =>
    \A t \in Live : Usable(result[t]) => Usable(pending) /\ result[t].depth <= pending.depth

\* Every line of a thread that is usable is a line of the search that runs: its
\* move is one the request allows at the root, its depth one it asked for.
ResultsOfThisSearch ==
  asked # told =>
    \A t \in Live : Usable(snapshot[t]) =>
      /\ snapshot[t].move \in Candidates(job[Main])
      /\ snapshot[t].depth <= job[Main].lim.depth

\* The Threads option says how many threads there are, after any sequence of
\* resizes, failed ones included.
OptionMatchesPool == upc = "read" => optThreads = size /\ \A t \in Thread : (pc[t] # "none") = (t \in Live)

\* Only a stop leaves a search without a completed depth, so that
\* finalize_root_result never passes an unfinished result for a completed one.
NoForgedResult == \A t \in Live : pc[t] = "finalize" => result[t].done \/ stop[t]

\* What workers hand to the selection is of this search and is what it claims.
ResultsAreSound == ResultsOfThisSearch /\ NoForgedResult

\* Resizing, refused or failing half way, leaves the option and the pool in
\* agreement, happens while all threads are idle and leaves none asleep
\* (ThreadPool::resize, shutdown, EngineOptions).
PoolChangesSafely == OptionMatchesPool /\ ExclusiveWhenIdle /\ NoLostWakeup

\* Helpers search inside the main worker's search only, and none of their
\* results comes too late for the selection (start_search,
\* stop_helper_searches, select_best_root_line).
HelpersAreHeard == HelpersInsideMainSearch /\ DeepestResultChosen

\* quit and end of input end the engine, whatever is running.
QuitTerminates == (cmd.kind = "quit") ~> (upc = "exited")

\* The session the GUI was promised.
Owed == asked # told
Session == INSTANCE UciSession WITH
  busy <- Owed,
  ponderHeld <- Owed /\ pondering,
  infiniteHeld <- Owed /\ job[Main].lim.infinite /\ ~stop[Main],
  allowed <- IF Owed THEN Candidates(job[Main]) ELSE {}

ImplementsSessionSafety == Session!SessionSafety
ImplementsSession == Session!SessionSpec
=============================================================================
