---------------------------- MODULE MCSearchPool ----------------------------
(* Small instances of SearchPool for TLC.  The GUI follows a script: a set of *)
(* commands that it sends in any order.                                      *)
EXTENDS SearchPoolInvariants

VARIABLE script

\* Two positions: one with a choice of moves, one where the game is over.
MCPositions == {"open", "mated"}
TwoMoves == {1, 2}
TwoLegalMoves == [p \in MCPositions |-> IF p = "open" THEN TwoMoves ELSE {}]
TwoScores == {1, 2}
MCMateScores == {2}

\* Instances about threads only need one line to find.
OneMove == {1}
OneLegalMove == [p \in MCPositions |-> IF p = "open" THEN OneMove ELSE {}]
OneScore == {1}

Plain == [DefaultLimits EXCEPT !.depth = 1, !.root = {1}]
ACommand == [NoCommand EXCEPT !.kind = "stop"]
Go(lim) == [ACommand EXCEPT !.kind = "go", !.lim = lim]
Simple(kind) == [ACommand EXCEPT !.kind = kind]
Position(p) == [ACommand EXCEPT !.kind = "position", !.pos = p]
Threads(k) == [ACommand EXCEPT !.kind = "threads", !.n = k]

\* Bounded, infinite and ponder searches, stopped or not.
LifecycleCommands ==
  {Go([Plain EXCEPT !.mate = TRUE]), Go([Plain EXCEPT !.infinite = TRUE]),
   Go([Plain EXCEPT !.ponder = TRUE, !.infinite = TRUE]),
   Go([DefaultLimits EXCEPT !.budget = TRUE, !.ponder = TRUE, !.root = {1}]),
   Simple("stop"), Simple("ponderhit"), Simple("quit")}

\* What the GUI may see: searchmoves that are legal or not, on either position.
SessionCommands ==
  {Go(Plain), Go([Plain EXCEPT !.root = {}]),
   Go([Plain EXCEPT !.infinite = TRUE, !.ponder = TRUE, !.root = {}]),
   Position("open"), Position("mated"), Simple("stop"), Simple("ponderhit"), Simple("quit")}

\* Resizes between, and refused during, searches; positions and table resets.
OptionCommands ==
  {Go(Plain), Threads(1), Threads(2), Threads(3), Position("open"), Position("mated"),
   Simple("reset"), Simple("stop"), Simple("quit")}

\* One long search with helpers that skip depths.
HelperCommands ==
  {Go([DefaultLimits EXCEPT !.budget = TRUE]), Simple("stop"), Simple("quit")}

SearchScripts == {LifecycleCommands, SessionCommands}
PoolScripts == {OptionCommands, HelperCommands}
SearchCommands == UNION SearchScripts
PoolCommands == UNION PoolScripts

ScriptedNext == Next /\ cmd' \in script \cup {cmd, NoCommand} /\ UNCHANGED script

SearchInit == Init /\ script \in SearchScripts
PoolInit == Init /\ script \in PoolScripts
LifecycleInit == Init /\ script = LifecycleCommands

SearchSpec == SearchInit /\ [][ScriptedNext]_<<vars, script>>
PoolSpec == PoolInit /\ [][ScriptedNext]_<<vars, script>>
FairSpec == LifecycleInit /\ [][ScriptedNext]_<<vars, script>> /\ Fairness
=============================================================================
