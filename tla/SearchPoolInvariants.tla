------------------------ MODULE SearchPoolInvariants ------------------------
(* Inductive invariants of SearchPool: what its properties need of each    *)
(* other, and of the program counters, to be preserved by every step.      *)
EXTENDS SearchPool

\* A depth that is searched is one the limits can ask for: without it
\* CompleteDepth could leave depth beyond its type.
DepthBound == \A t \in Thread : pc[t] = "depth" => depth[t] <= MaxDepth

TypeInv == TypeOK /\ DepthBound

-----------------------------------------------------------------------------
ClosingPcs == {"sdstop", "sdwait", "sdset", "join"}
Working == ThreadPcs \ {"none", "park", "notify", "exited"}

\* The first thread that a shutdown in progress takes down.
FirstClosed == IF cmd.kind = "threads" THEN cmd.n ELSE 0

\* Loops of the UCI thread stay within the pool, and shutting down is for a
\* shrink or for the end of the engine only.
UciLoops ==
  /\ upc \in {"read", "arm"} => ui = 0
  /\ upc \in {"flags", "ponderoff", "gateopen"} => cmd.kind # "threads"
  /\ upc \in {"scan", "rescan"} => ui <= size
  /\ upc \in {"configure", "wake"} => ui < size
  /\ upc \in ClosingPcs =>
       /\ FirstClosed <= ui /\ ui < size
       /\ cmd.kind = "threads" => cmd.n < size
  /\ upc # "exited" => size > 0

\* Thread t is told to end only by a shutdown that has reached it, which has not
\* joined it yet.
ShutdownReached ==
  \A t \in Thread : shutdownReq[t] =>
    /\ t < size /\ FirstClosed <= t
    /\ upc \in ClosingPcs
    /\ IF upc = "join" THEN ui <= t ELSE t < ui

\* A thread works only while it is searching, ends only when it was told to,
\* and is missing from the pool only while a destructor goes through it.
ThreadStates ==
  \A t \in Thread :
    /\ pc[t] \in Working => searching[t]
    /\ pc[t] = "exited" => shutdownReq[t]
    /\ pc[t] = "none" /\ t < size => upc = "join" /\ FirstClosed <= t /\ t < ui

\* The threads a scan has passed do not search, all of them once it has ended.
ScannedIdle ==
  \A t \in Thread : searching[t] =>
    /\ upc \in {"scan", "rescan"} => ui <= t
    /\ upc \in {"arm", "configure", "apply"} => size <= t

ExclusiveInv == UciLoops /\ ShutdownReached /\ ThreadStates /\ ScannedIdle

-----------------------------------------------------------------------------
\* The main worker searches and has not printed yet.
Answering == searching[Main] /\ pc[Main] # "unlock"

\* That is the case exactly while an answer is owed.
AnswerOwed == asked = IF Answering THEN told + 1 ELSE told

\* A shutdown leaves no thread that searches behind it.
ClosedIdle ==
  \A t \in Thread : searching[t] =>
    /\ t < size
    /\ upc \in {"sdstop", "sdwait"} => t < FirstClosed \/ ui <= t
    /\ upc = "sdset" => t < FirstClosed \/ ui < t
    /\ upc = "join" => t < FirstClosed

\* Once start_search has returned, a helper searches only while the main worker
\* does and has not found it idle.
HelpersAwaited ==
  /\ upc = "wake" => ~searching[Main]
  /\ \A t \in Thread \ {Main} : searching[t] /\ upc # "wake" =>
       /\ searching[Main]
       /\ pc[Main] \notin {"select", "publish", "unlock"}
       /\ pc[Main] = "hwait" => mi <= t

\* A command that found no answer owed finds none until it searches itself.
QuietCommand ==
  upc \in {"scan", "rescan", "busy"} /\ ~sawBusy => upc # "busy" /\ asked = told

AnswerInv == AnswerOwed /\ ClosedIdle /\ HelpersAwaited /\ QuietCommand

-----------------------------------------------------------------------------
\* The option is the size of the pool, no thread exists past its end, and the ones
\* that a destructor has joined are gone.
PoolThreads ==
  /\ upc # "exited" => optThreads = size
  /\ \A t \in Thread :
       /\ size <= t => pc[t] = "none"
       /\ upc = "join" /\ FirstClosed <= t /\ t < ui => pc[t] = "none"

\* A pool that shrinks is idle all the while.
ShrinkIdle == upc \in ClosingPcs /\ cmd.kind = "threads" => \A t \in Thread : ~searching[t]

\* The main worker's loops over its helpers stay within the pool.
HelperLoops == pc[Main] \in {"hstop", "hwait"} => 1 <= mi /\ mi < size

\* Who sleeps on a thread's condition: the thread, idle; the main worker or the UCI
\* thread, at the wait for it to be idle, which it is not or is about to announce.
Sleepers ==
  \A t \in Thread : \A a \in stateWait[t] :
    \/ a = t /\ pc[t] = "park" /\ ~searching[t] /\ ~shutdownReq[t]
    \/ /\ a = Main /\ t # Main /\ pc[Main] = "hwait" /\ mi = t
       /\ searching[t] \/ pc[t] = "notify"
    \/ /\ a = Uci /\ upc = "sdwait" /\ ui = t
       /\ searching[t] \/ pc[t] = "notify"

GateSleepers == gateOpen => gateWait = {}

MainAsleep ==
  asleep => \/ pc[Main] = "ponder" /\ pondering
            \/ pc[Main] = "hold" /\ ~stop[Main]

ParkInv == PoolThreads /\ ShrinkIdle /\ HelperLoops /\ Sleepers /\ GateSleepers /\ MainAsleep

-----------------------------------------------------------------------------
\* The main worker has not advanced the table's generation for a search yet.
EarlyPcs == {"none", "notify", "park", "start", "gate", "advance", "exited"}

\* A stop raises every flag before it opens the gate.
StopsRaised ==
  /\ upc = "flags" => \A t \in Thread : t < ui => stop[t]
  /\ upc = "gateopen" \/ (upc = "ponderoff" /\ cmd.kind # "ponderhit") =>
       \A t \in Thread : t < size => stop[t]

\* The gate is closed while threads are configured and woken.
GateClosed == upc \in {"configure", "wake"} => ~gateOpen

\* A helper that passes the gate before the main worker opens it was stopped first.
StoppedBeforeRelease ==
  pc[Main] \in EarlyPcs =>
    \A t \in Thread \ {Main} :
      /\ searching[t] /\ gateOpen => stop[t]
      /\ pc[t] \in {"build", "deepen"} => stop[t]
      /\ pc[t] # "depth"

GateInv == StopsRaised /\ GateClosed /\ StoppedBeforeRelease

-----------------------------------------------------------------------------
\* Thread t has been configured by the start_search that runs.
Configured(t) ==
  /\ t < size
  /\ upc = "wake" \/ (upc = "configure" /\ t < ui)

\* The request that start_search configures and wakes the threads for.
RequestArmed ==
  /\ upc \in {"arm", "configure", "wake"} => cmd.lim.root \subseteq LegalMoves[board]
  /\ upc \in {"configure", "wake"} => pondering = cmd.lim.ponder
  /\ \A t \in Thread : Configured(t) => ~stop[t] /\ job[t] = [pos |-> board, lim |-> cmd.lim]

\* All threads work for the main worker's request.
SameJob == searching[Main] => \A t \in Thread : t < size => job[t] = job[Main]

JobInv == RequestArmed /\ SameJob

\* A line of thread t's own request, or no line yet.
OwnLine(t, line) ==
  /\ line.move \in Candidates(job[t]) \cup {NullMove}
  /\ line.depth <= job[t].lim.depth

BuiltPcs == Working \ {"start", "advance", "release", "gate", "build"}

\* Worker t searches its own request; a depth past the first means that one was
\* completed, for no helper skips the first.
WorkerLine(t) ==
  /\ pc[t] \in Working \ {"start"} => OwnLine(t, result[t])
  /\ pc[t] \in BuiltPcs => rootMoves[t] = Candidates(job[t])
  /\ pc[t] = "depth" => depth[t] <= job[t].lim.depth
  /\ pc[t] \in {"deepen", "depth"} /\ depth[t] > 1 => result[t].done

WorkerLines == \A t \in Thread : WorkerLine(t)

\* The search is left after a completed depth, at a terminal root, or stopped.
LeftWithResult ==
  \A t \in Thread : pc[t] \in {"ponder", "hold", "finalize"} => result[t].done \/ stop[t]

\* Spent limits raise the main worker's own flag first.
PollStops ==
  /\ pc[Main] = "pollflags" /\ mi > 0 => stop[Main]
  /\ pc[Main] \in {"pollponder", "pollgate"} => stop[Main]

\* A snapshot is of this search, or was cleared for it.
SnapshotLines ==
  \A t \in Thread : Configured(t) \/ (searching[Main] /\ t < size) => OwnLine(t, snapshot[t])

ResultInv == WorkerLines /\ LeftWithResult /\ PollStops /\ SnapshotLines

-----------------------------------------------------------------------------
\* A thread that has finalized shows its result in its snapshot, until it is
\* configured for the next search.
ResultShown ==
  \A t \in Thread : t < size =>
    /\ pc[t] \in {"hstop", "hwait", "select", "publish", "unlock"} => snapshot[t] = result[t]
    /\ /\ ~searching[t]
       /\ searching[Main] \/ (upc = "wake" /\ t # Main /\ (ui = Main \/ t < ui))
       => snapshot[t] = result[t]

\* The answer was selected over all of them.
SelectInv == ResultShown /\ DeepestResultChosen

-----------------------------------------------------------------------------
\* A search that the GUI holds has not got past the hold.
HeldBack ==
  /\ searching[Main] /\ pondering => job[Main].lim.ponder
  /\ pc[Main] \in {"hold", "finalize", "hstop", "hwait", "select", "publish"} => ~pondering
  /\ pc[Main] \in {"finalize", "hstop", "hwait", "select", "publish"} =>
       ~job[Main].lim.infinite \/ stop[Main]

\* The move about to be printed is one the request allows, the null move when
\* there is none.
AnswerAllowed ==
  pc[Main] = "publish" =>
    pending.move \in IF Candidates(job[Main]) = {} THEN {NullMove} ELSE Candidates(job[Main])

SessionInv == HeldBack /\ AnswerAllowed
=============================================================================
