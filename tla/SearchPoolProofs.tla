-------------------------- MODULE SearchPoolProofs --------------------------
(* SearchPool: the pool is used exclusively, one search is answered once,  *)
(* a command that saw the answer is not refused, no wake-up is lost,       *)
(* helpers search inside the main worker's search, and the GUI gets what   *)
(* the session promises; for every pool size, every set of commands,       *)
(* positions and moves, and any number of searches.                        *)
EXTENDS SearchPoolInvariants, TLAPS

-----------------------------------------------------------------------------
(* Type correctness: a leaf proves the Boolean variables (FlagTypes) apart *)
(* from those with arithmetic.                                             *)

\* The values that variables start with and are reset to have their types.
LEMMA ConstantTypes ==
  /\ NoCommand \in Command
  /\ NoJob \in Job
  /\ NoLine \in Line
  /\ DefaultLimits \in Limits
<1>1. DefaultLimits \in Limits
  BY LimitsAssumption DEF DefaultLimits, Limits
<1>2. NoCommand \in Command
  BY <1>1, ThreadsAssumption, MovesAssumption DEF NoCommand, Command, Kinds
<1>3. NoJob \in Job
  BY <1>1, MovesAssumption DEF NoJob, Job
<1>4. NoLine \in Line
  BY LimitsAssumption DEF NoLine, Line
<1> QED  BY <1>1, <1>2, <1>3, <1>4

\* The engine starts with a pool of parked threads.
LEMMA InitTypes == Init => TypeInv
<1> SUFFICES ASSUME Init PROVE TypeInv
  OBVIOUS
<1> USE ThreadsAssumption, MovesAssumption, LimitsAssumption, ConstantTypes
<1>1. FlagTypes
  BY DEF Init, FlagTypes
<1>2. ControlTypes
  BY DEF Init, ControlTypes, UciPcs
<1>3. ThreadTypes
  BY DEF Init, ThreadTypes, ThreadPcs
<1>4. WorkTypes
  BY DEF Init, WorkTypes
<1>5. DepthBound
  BY DEF Init, DepthBound
<1> QED  BY <1>1, <1>2, <1>3, <1>4, <1>5 DEF TypeInv, TypeOK

\* notify_one takes a waiter out of one thread's set, or nobody.
LEMMA NotifyOneTypes ==
  ASSUME ThreadTypes, NEW t, NotifyOne(t)
  PROVE stateWait' \in [Thread -> SUBSET (0 .. MaxThreads)]
BY DEF NotifyOne, ThreadTypes

\* The line of a root move that is only better than none.
LEMMA FallbackLine ==
  ASSUME NEW line \in Line, NEW m \in Moves
  PROVE [line EXCEPT !.move = m, !.depth = 0, !.done = FALSE] \in Line
<1>1. 0 \in 0 .. MaxDepth
  BY LimitsAssumption
<1> QED  BY <1>1 DEF Line

\* The UCI thread keeps the types: one step per action of its handlers and of the
\* pool's operations.
LEMMA UciStepTypes ==
  ASSUME TypeInv, UciStep PROVE TypeInv'
<1> USE ThreadsAssumption, MovesAssumption, LimitsAssumption, CommandsAssumption, ConstantTypes
<1> USE DEF TypeInv, TypeOK, cmdVars, setupVars, engineVars, gateVars, parkVars, workVars,
            mainVars, protoVars, outputVars, poolVars, outerVars, restVars
<1>1. CASE ScanThread
  <2>1. FlagTypes'
    BY <1>1 DEF ScanThread, FlagTypes, WorkTypes, UciGoto, UciPcs, Live
  <2>2. ControlTypes' /\ ThreadTypes' /\ WorkTypes' /\ DepthBound'
    BY <1>1 DEF ScanThread, ControlTypes, ThreadTypes, WorkTypes, DepthBound, UciGoto, UciPcs, Live
  <2> QED  BY <2>1, <2>2
<1>2. CASE ScanEnd
  <2>1. FlagTypes'
    BY <1>2 DEF ScanEnd, FlagTypes, WorkTypes, UciGoto, UciPcs, Return
  <2>2. ControlTypes' /\ ThreadTypes' /\ WorkTypes' /\ DepthBound'
    BY <1>2 DEF ScanEnd, ControlTypes, ThreadTypes, WorkTypes, DepthBound, UciGoto, UciPcs, Return
  <2> QED  BY <2>1, <2>2
<1>3. CASE Refuse
  <2>1. FlagTypes'
    BY <1>3 DEF Refuse, FlagTypes, WorkTypes, Return, UciGoto, UciPcs
  <2>2. ControlTypes' /\ ThreadTypes' /\ WorkTypes' /\ DepthBound'
    BY <1>3 DEF Refuse, ControlTypes, ThreadTypes, WorkTypes, DepthBound, Return, UciGoto, UciPcs
  <2> QED  BY <2>1, <2>2
<1>4. CASE Arm
  <2>1. FlagTypes'
    BY <1>4 DEF Arm, FlagTypes, WorkTypes, CloseGate, UciGoto, UciPcs, Command, Limits
  <2>2. ControlTypes' /\ ThreadTypes' /\ WorkTypes' /\ DepthBound'
    BY <1>4 DEF Arm, ControlTypes, ThreadTypes, WorkTypes, DepthBound, CloseGate, UciGoto, UciPcs,
       Command, Limits
  <2> QED  BY <2>1, <2>2
<1>5. CASE ConfigureThread
  <2>1. FlagTypes'
    BY <1>5 DEF ConfigureThread, FlagTypes, WorkTypes, ClearSnapshot, UciGoto, UciPcs, Command,
       Job, Main
  <2>2. ControlTypes'
    BY <1>5 DEF ConfigureThread, ControlTypes, WorkTypes, ClearSnapshot, UciGoto, UciPcs, Command,
       Job, Main
  <2>3. ThreadTypes'
    BY <1>5 DEF ConfigureThread, ThreadTypes, ClearSnapshot, UciGoto, UciPcs, Command, Job, Main
  <2>4. WorkTypes'
    BY <1>5 DEF ConfigureThread, ControlTypes, ThreadTypes, WorkTypes, ClearSnapshot, UciGoto,
       UciPcs, Command, Job, Main
  <2>5. DepthBound'
    BY <1>5 DEF ConfigureThread, ControlTypes, ThreadTypes, WorkTypes, DepthBound, ClearSnapshot,
       UciGoto, UciPcs, Command, Job, Main
  <2> QED  BY <2>1, <2>2, <2>3, <2>4, <2>5
<1>6. CASE WakeHelper
  <2>1. FlagTypes'
    BY <1>6 DEF WakeHelper, FlagTypes, WorkTypes, Wake, NotifyOne, Main
  <2>2. ControlTypes'
    BY <1>6 DEF WakeHelper, ControlTypes, WorkTypes, Wake, NotifyOne, Main
  <2>3. ThreadTypes'
    BY ZenonT(30), <1>6 DEF WakeHelper, ThreadTypes, Wake, NotifyOne, Main
  <2>4. WorkTypes'
    BY <1>6 DEF WakeHelper, ControlTypes, ThreadTypes, WorkTypes, Wake, NotifyOne, Main
  <2>5. DepthBound'
    BY <1>6 DEF WakeHelper, ControlTypes, ThreadTypes, WorkTypes, DepthBound, Wake, NotifyOne, Main
  <2> QED  BY <2>1, <2>2, <2>3, <2>4, <2>5
<1>7. CASE WakeMain
  <2>1. FlagTypes'
    BY <1>7 DEF WakeMain, FlagTypes, WorkTypes, Wake, NotifyOne, Return, UciGoto, UciPcs, Main
  <2>2. ControlTypes'
    BY <1>7 DEF WakeMain, ControlTypes, WorkTypes, Wake, NotifyOne, Return, UciGoto, UciPcs, Main
  <2>3. ThreadTypes'
    BY ZenonT(30), <1>7 DEF WakeMain, ThreadTypes, Wake, NotifyOne, Return, UciGoto, UciPcs, Main
  <2>4. WorkTypes'
    BY <1>7 DEF WakeMain, ControlTypes, ThreadTypes, WorkTypes, Wake, NotifyOne, Return, UciGoto,
       UciPcs, Main
  <2>5. DepthBound'
    BY <1>7 DEF WakeMain, ControlTypes, ThreadTypes, WorkTypes, DepthBound, Wake, NotifyOne,
       Return, UciGoto, UciPcs, Main
  <2> QED  BY <2>1, <2>2, <2>3, <2>4, <2>5
<1>8. CASE SetBoard
  <2>1. FlagTypes'
    BY <1>8 DEF SetBoard, FlagTypes, WorkTypes, Return, UciGoto, UciPcs, Command
  <2>2. ControlTypes' /\ ThreadTypes' /\ WorkTypes' /\ DepthBound'
    BY <1>8 DEF SetBoard, ControlTypes, ThreadTypes, WorkTypes, DepthBound, Return, UciGoto,
       UciPcs, Command
  <2> QED  BY <2>1, <2>2
<1>9. CASE ResetTable
  <2>1. FlagTypes'
    BY <1>9 DEF ResetTable, FlagTypes, WorkTypes, Return, UciGoto, UciPcs
  <2>2. ControlTypes' /\ ThreadTypes' /\ WorkTypes' /\ DepthBound'
    BY <1>9 DEF ResetTable, ControlTypes, ThreadTypes, WorkTypes, DepthBound, Return, UciGoto,
       UciPcs
  <2> QED  BY <2>1, <2>2
<1>10. CASE GrowPool
  <2>1. FlagTypes'
    BY <1>10 DEF GrowPool, FlagTypes, WorkTypes, Return, UciGoto, UciPcs, Command, ThreadPcs, Thread
  <2>2. ControlTypes' /\ ThreadTypes' /\ WorkTypes' /\ DepthBound'
    BY SMTT(30), <1>10 DEF GrowPool, ControlTypes, ThreadTypes, WorkTypes, DepthBound, Return, UciGoto,
       UciPcs, Command, ThreadPcs, Thread
  <2> QED  BY <2>1, <2>2
<1>11. CASE GrowFails
  <2>1. FlagTypes'
    BY <1>11 DEF GrowFails, FlagTypes, WorkTypes, Return, UciGoto, UciPcs
  <2>2. ControlTypes' /\ ThreadTypes' /\ WorkTypes' /\ DepthBound'
    BY <1>11 DEF GrowFails, ControlTypes, ThreadTypes, WorkTypes, DepthBound, Return, UciGoto,
       UciPcs
  <2> QED  BY <2>1, <2>2
<1>12. CASE BeginShrink
  <2>1. FlagTypes'
    BY <1>12 DEF BeginShrink, FlagTypes, WorkTypes, UciGoto, UciPcs, Command
  <2>2. ControlTypes' /\ ThreadTypes' /\ WorkTypes' /\ DepthBound'
    BY <1>12 DEF BeginShrink, ControlTypes, ThreadTypes, WorkTypes, DepthBound, UciGoto, UciPcs,
       Command
  <2> QED  BY <2>1, <2>2
<1>13. CASE StopThread
  <2>1. FlagTypes'
    BY <1>13 DEF StopThread, FlagTypes, WorkTypes, RaiseStop, UciGoto, UciPcs
  <2>2. ControlTypes'
    BY <1>13 DEF StopThread, ControlTypes, WorkTypes, RaiseStop, UciGoto, UciPcs
  <2>3. ThreadTypes'
    BY <1>13 DEF StopThread, ThreadTypes, RaiseStop, UciGoto, UciPcs
  <2>4. WorkTypes'
    BY <1>13 DEF StopThread, ControlTypes, ThreadTypes, WorkTypes, RaiseStop, UciGoto, UciPcs
  <2>5. DepthBound'
    BY <1>13 DEF StopThread, ControlTypes, ThreadTypes, WorkTypes, DepthBound, RaiseStop, UciGoto,
       UciPcs
  <2> QED  BY <2>1, <2>2, <2>3, <2>4, <2>5
<1>14. CASE EndPonder
  <2>1. FlagTypes'
    BY <1>14 DEF EndPonder, FlagTypes, WorkTypes, LeavePondering, UciGoto, UciPcs, Return
  <2>2. ControlTypes' /\ ThreadTypes' /\ WorkTypes' /\ DepthBound'
    BY <1>14 DEF EndPonder, ControlTypes, ThreadTypes, WorkTypes, DepthBound, LeavePondering,
       UciGoto, UciPcs, Return
  <2> QED  BY <2>1, <2>2
<1>15. CASE OpenGate
  <2>1. FlagTypes'
    BY <1>15 DEF OpenGate, FlagTypes, WorkTypes, ReleaseHelpers, UciGoto, UciPcs, Return
  <2>2. ControlTypes' /\ ThreadTypes' /\ WorkTypes' /\ DepthBound'
    BY <1>15 DEF OpenGate, ControlTypes, ThreadTypes, WorkTypes, DepthBound, ReleaseHelpers,
       UciGoto, UciPcs, Return
  <2> QED  BY <2>1, <2>2
<1>16. CASE ShutdownStop
  <2>1. FlagTypes'
    BY <1>16 DEF ShutdownStop, FlagTypes, WorkTypes, RaiseStop, UciGoto, UciPcs
  <2>2. ControlTypes' /\ ThreadTypes' /\ WorkTypes' /\ DepthBound'
    BY <1>16 DEF ShutdownStop, ControlTypes, ThreadTypes, WorkTypes, DepthBound, RaiseStop,
       UciGoto, UciPcs
  <2> QED  BY <2>1, <2>2
<1>17. CASE ShutdownWait
  <2>1. FlagTypes'
    BY <1>17 DEF ShutdownWait, FlagTypes, WorkTypes, UciGoto, UciPcs, Uci
  <2>2. ControlTypes' /\ ThreadTypes' /\ WorkTypes' /\ DepthBound'
    BY <1>17 DEF ShutdownWait, ControlTypes, ThreadTypes, WorkTypes, DepthBound, UciGoto, UciPcs,
       Uci
  <2> QED  BY <2>1, <2>2
<1>18. CASE ShutdownSet
  <2>1. FlagTypes'
    BY <1>18 DEF ShutdownSet, FlagTypes, WorkTypes, NotifyOne, UciGoto, UciPcs, Command
  <2>2. ControlTypes'
    BY <1>18 DEF ShutdownSet, ControlTypes, WorkTypes, NotifyOne, UciGoto, UciPcs, Command
  <2>3. ThreadTypes'
    <3>1. stateWait' \in [Thread -> SUBSET (0 .. MaxThreads)]
      BY <1>18, NotifyOneTypes DEF ShutdownSet
    <3> QED  BY <1>18, <3>1 DEF ShutdownSet, ThreadTypes
  <2>4. WorkTypes'
    BY <1>18 DEF ShutdownSet, ControlTypes, ThreadTypes, WorkTypes, NotifyOne, UciGoto, UciPcs,
       Command
  <2>5. DepthBound'
    BY <1>18 DEF ShutdownSet, ControlTypes, ThreadTypes, WorkTypes, DepthBound, NotifyOne,
       UciGoto, UciPcs, Command
  <2> QED  BY <2>1, <2>2, <2>3, <2>4, <2>5
<1>19. CASE JoinThread
  <2>1. FlagTypes'
    BY <1>19 DEF JoinThread, FlagTypes, WorkTypes, Goto, ThreadPcs, UciGoto, UciPcs, Return, Command
  <2>2. ControlTypes'
    BY <1>19 DEF JoinThread, ControlTypes, WorkTypes, Goto, ThreadPcs, UciGoto, UciPcs, Return,
       Command
  <2>3. ThreadTypes'
    <3>1. pc' \in [Thread -> ThreadPcs]
      BY <1>19 DEF JoinThread, Goto, ThreadTypes, ThreadPcs
    <3>2. shutdownReq' \in [Thread -> BOOLEAN] /\ stop' \in [Thread -> BOOLEAN]
      BY <1>19 DEF JoinThread, ThreadTypes
    <3> QED  BY <1>19, <3>1, <3>2 DEF JoinThread, ThreadTypes
  <2>4. WorkTypes'
    <3>1. cmd' \in Command
      BY <1>19 DEF JoinThread, Return, WorkTypes
    <3>2. job' \in [Thread -> Job] /\ rootMoves' \in [Thread -> SUBSET Moves]
      BY <1>19 DEF JoinThread, WorkTypes
    <3>3. result' \in [Thread -> Line] /\ snapshot' \in [Thread -> Line]
      BY <1>19 DEF JoinThread, WorkTypes
    <3>4. 1 \in 1 .. MaxDepth + 1
      OBVIOUS
    <3>5. depth' = [depth EXCEPT ![ui] = 1] /\ depth \in [Thread -> 1 .. MaxDepth + 1]
      BY <1>19 DEF JoinThread, WorkTypes
    <3>6. depth' \in [Thread -> 1 .. MaxDepth + 1]
      BY <3>4, <3>5
    <3> QED  BY <1>19, <3>1, <3>2, <3>3, <3>6 DEF JoinThread, WorkTypes
  <2>5. DepthBound'
    BY <1>19 DEF JoinThread, ControlTypes, ThreadTypes, WorkTypes, DepthBound, Goto, ThreadPcs,
       UciGoto, UciPcs, Return, Command
  <2> QED  BY <2>1, <2>2, <2>3, <2>4, <2>5
<1> QED
  BY <1>1, <1>2, <1>3, <1>4, <1>5, <1>6, <1>7, <1>8, <1>9, <1>10, <1>11, <1>12, <1>13, <1>14,
     <1>15, <1>16, <1>17, <1>18, <1>19 DEF UciStep

\* So does what only the main worker does.
LEMMA MainStepTypes ==
  ASSUME TypeInv, MainStep PROVE TypeInv'
<1> USE ThreadsAssumption, MovesAssumption, LimitsAssumption, CommandsAssumption, ConstantTypes
<1> USE DEF TypeInv, TypeOK, cmdVars, setupVars, engineVars, gateVars, parkVars, workVars,
            mainVars, protoVars, outputVars, poolVars, outerVars, restVars
<1>1. CASE AdvanceGeneration
  <2>1. FlagTypes'
    BY <1>1 DEF AdvanceGeneration, FlagTypes, WorkTypes, Goto, ThreadPcs
  <2>2. ControlTypes'
    BY <1>1 DEF AdvanceGeneration, ControlTypes, WorkTypes, Goto, ThreadPcs
  <2>3. ThreadTypes'
    BY <1>1 DEF AdvanceGeneration, ThreadTypes, Goto, ThreadPcs
  <2>4. WorkTypes'
    BY <1>1 DEF AdvanceGeneration, ControlTypes, ThreadTypes, WorkTypes, Goto, ThreadPcs
  <2>5. DepthBound'
    BY <1>1 DEF AdvanceGeneration, ControlTypes, ThreadTypes, WorkTypes, DepthBound, Goto, ThreadPcs
  <2> QED  BY <2>1, <2>2, <2>3, <2>4, <2>5
<1>2. CASE Release
  <2>1. FlagTypes'
    BY <1>2 DEF Release, FlagTypes, WorkTypes, ReleaseHelpers, Goto, ThreadPcs
  <2>2. ControlTypes' /\ ThreadTypes' /\ WorkTypes' /\ DepthBound'
    BY <1>2 DEF Release, ControlTypes, ThreadTypes, WorkTypes, DepthBound, ReleaseHelpers, Goto,
       ThreadPcs
  <2> QED  BY <2>1, <2>2
<1>3. CASE PollLimits
  <2>1. FlagTypes'
    BY <1>3 DEF PollLimits, FlagTypes, WorkTypes, Goto, ThreadPcs
  <2>2. ControlTypes'
    BY <1>3 DEF PollLimits, ControlTypes, WorkTypes, Goto, ThreadPcs
  <2>3. ThreadTypes'
    BY <1>3 DEF PollLimits, ThreadTypes, Goto, ThreadPcs
  <2>4. WorkTypes'
    BY <1>3 DEF PollLimits, ControlTypes, ThreadTypes, WorkTypes, Goto, ThreadPcs
  <2>5. DepthBound'
    BY <1>3 DEF PollLimits, ControlTypes, ThreadTypes, WorkTypes, DepthBound, Goto, ThreadPcs
  <2> QED  BY <2>1, <2>2, <2>3, <2>4, <2>5
<1>4. CASE PollStop
  <2>1. FlagTypes'
    BY <1>4 DEF PollStop, FlagTypes, WorkTypes, RaiseStop, Goto, ThreadPcs
  <2>2. ControlTypes'
    BY <1>4 DEF PollStop, ControlTypes, WorkTypes, RaiseStop, Goto, ThreadPcs
  <2>3. ThreadTypes'
    BY <1>4 DEF PollStop, ThreadTypes, RaiseStop, Goto, ThreadPcs
  <2>4. WorkTypes'
    BY <1>4 DEF PollStop, ControlTypes, ThreadTypes, WorkTypes, RaiseStop, Goto, ThreadPcs
  <2>5. DepthBound'
    BY <1>4 DEF PollStop, ControlTypes, ThreadTypes, WorkTypes, DepthBound, RaiseStop, Goto,
       ThreadPcs
  <2> QED  BY <2>1, <2>2, <2>3, <2>4, <2>5
<1>5. CASE PollEndPonder
  <2>1. FlagTypes'
    BY <1>5 DEF PollEndPonder, FlagTypes, WorkTypes, LeavePondering, Goto, ThreadPcs
  <2>2. ControlTypes' /\ ThreadTypes' /\ WorkTypes' /\ DepthBound'
    BY <1>5 DEF PollEndPonder, ControlTypes, ThreadTypes, WorkTypes, DepthBound, LeavePondering,
       Goto, ThreadPcs
  <2> QED  BY <2>1, <2>2
<1>6. CASE PollOpenGate
  <2>1. FlagTypes'
    BY <1>6 DEF PollOpenGate, FlagTypes, WorkTypes, ReleaseHelpers, Goto, ThreadPcs
  <2>2. ControlTypes' /\ ThreadTypes' /\ WorkTypes' /\ DepthBound'
    BY <1>6 DEF PollOpenGate, ControlTypes, ThreadTypes, WorkTypes, DepthBound, ReleaseHelpers,
       Goto, ThreadPcs
  <2> QED  BY <2>1, <2>2
<1>7. CASE HoldPonder
  <2>1. FlagTypes'
    BY <1>7 DEF HoldPonder, FlagTypes, WorkTypes, Goto, ThreadPcs
  <2>2. ControlTypes' /\ ThreadTypes' /\ WorkTypes' /\ DepthBound'
    BY <1>7 DEF HoldPonder, ControlTypes, ThreadTypes, WorkTypes, DepthBound, Goto, ThreadPcs
  <2> QED  BY <2>1, <2>2
<1>8. CASE HoldInfinite
  <2>1. FlagTypes'
    BY <1>8 DEF HoldInfinite, FlagTypes, WorkTypes, Goto, ThreadPcs
  <2>2. ControlTypes' /\ ThreadTypes' /\ WorkTypes' /\ DepthBound'
    BY <1>8 DEF HoldInfinite, ControlTypes, ThreadTypes, WorkTypes, DepthBound, Goto, ThreadPcs
  <2> QED  BY <2>1, <2>2
<1>9. CASE StopHelper
  <2>1. FlagTypes'
    BY <1>9 DEF StopHelper, FlagTypes, WorkTypes, RaiseStop, Goto, ThreadPcs
  <2>2. ControlTypes'
    BY <1>9 DEF StopHelper, ControlTypes, WorkTypes, RaiseStop, Goto, ThreadPcs
  <2>3. ThreadTypes'
    BY <1>9 DEF StopHelper, ThreadTypes, RaiseStop, Goto, ThreadPcs
  <2>4. WorkTypes'
    BY <1>9 DEF StopHelper, ControlTypes, ThreadTypes, WorkTypes, RaiseStop, Goto, ThreadPcs
  <2>5. DepthBound'
    BY <1>9 DEF StopHelper, ControlTypes, ThreadTypes, WorkTypes, DepthBound, RaiseStop, Goto,
       ThreadPcs
  <2> QED  BY <2>1, <2>2, <2>3, <2>4, <2>5
<1>10. CASE AwaitHelper
  <2>1. FlagTypes'
    BY <1>10 DEF AwaitHelper, FlagTypes, WorkTypes, Goto, ThreadPcs, Main
  <2>2. ControlTypes' /\ ThreadTypes' /\ WorkTypes' /\ DepthBound'
    BY <1>10 DEF AwaitHelper, ControlTypes, ThreadTypes, WorkTypes, DepthBound, Goto, ThreadPcs,
       Main
  <2> QED  BY <2>1, <2>2
<1>11. ASSUME NEW sel \in Line, Select(sel)
      PROVE TypeInv'
  <2>1. FlagTypes'
    BY <1>11 DEF Select, FlagTypes, WorkTypes, Goto, ThreadPcs
  <2>2. ControlTypes'
    BY <1>11 DEF Select, ControlTypes, WorkTypes, Goto, ThreadPcs
  <2>3. ThreadTypes'
    BY <1>11 DEF Select, ThreadTypes, Goto, ThreadPcs
  <2>4. WorkTypes'
    <3>1. \A m \in Moves : [sel EXCEPT !.move = m, !.depth = 0, !.done = FALSE] \in Line
      BY FallbackLine
    <3>2. rootMoves[Main] \subseteq Moves
      BY DEF WorkTypes, Main, Thread
    <3>3. pending' \in Line
      BY <1>11, <3>1, <3>2 DEF Select
    <3> QED  BY <1>11, <3>3 DEF Select, WorkTypes
  <2>5. DepthBound'
    BY <1>11 DEF Select, ControlTypes, ThreadTypes, WorkTypes, DepthBound, Goto, ThreadPcs
  <2> QED  BY <2>1, <2>2, <2>3, <2>4, <2>5
<1> QED
  BY <1>1, <1>2, <1>3, <1>4, <1>5, <1>6, <1>7, <1>8, <1>9, <1>10, <1>11 DEF MainStep

\* So does a step of any thread.
LEMMA ThreadStepTypes ==
  ASSUME TypeInv, NEW t \in Thread, ThreadStep(t) PROVE TypeInv'
<1> USE ThreadsAssumption, MovesAssumption, LimitsAssumption, CommandsAssumption, ConstantTypes
<1> USE DEF TypeInv, TypeOK, cmdVars, setupVars, engineVars, gateVars, parkVars, workVars,
            mainVars, protoVars, outputVars, poolVars, outerVars, restVars
<1>1. CASE Park(t)
  <2>1. FlagTypes'
    BY <1>1 DEF Park, FlagTypes, WorkTypes, Goto, ThreadPcs, Thread
  <2>2. ControlTypes'
    BY <1>1 DEF Park, ControlTypes, WorkTypes, Goto, ThreadPcs, Thread
  <2>3. ThreadTypes'
    BY <1>1 DEF Park, ThreadTypes, Goto, ThreadPcs, Thread
  <2>4. WorkTypes'
    BY <1>1 DEF Park, ControlTypes, ThreadTypes, WorkTypes, Goto, ThreadPcs, Thread
  <2>5. DepthBound'
    BY <1>1 DEF Park, ControlTypes, ThreadTypes, WorkTypes, DepthBound, Goto, ThreadPcs, Thread
  <2> QED  BY <2>1, <2>2, <2>3, <2>4, <2>5
<1>2. CASE StartSearch(t)
  <2>1. FlagTypes'
    BY <1>2 DEF StartSearch, FlagTypes, WorkTypes, Goto, ThreadPcs
  <2>2. ControlTypes' /\ ThreadTypes' /\ WorkTypes' /\ DepthBound'
    BY <1>2 DEF StartSearch, ControlTypes, ThreadTypes, WorkTypes, DepthBound, Goto, ThreadPcs
  <2> QED  BY <2>1, <2>2
<1>3. CASE BuildRootLines(t)
  <2>1. FlagTypes'
    BY <1>3 DEF BuildRootLines, FlagTypes, WorkTypes, Goto, ThreadPcs, Candidates, Job, Line, NoLine
  <2>2. ControlTypes'
    BY <1>3 DEF BuildRootLines, ControlTypes, WorkTypes, Goto, ThreadPcs, Candidates, Job, Line,
       NoLine
  <2>3. ThreadTypes'
    BY <1>3 DEF BuildRootLines, ThreadTypes, Goto, ThreadPcs, Candidates, Job, Line, NoLine
  <2>4. WorkTypes'
    <3>1. Candidates(job[t]) \subseteq Moves
      BY DEF Candidates, WorkTypes, Job
    <3>2. [NoLine EXCEPT !.done = TRUE] \in Line
      BY DEF NoLine, Line
    <3>3. rootMoves' \in [Thread -> SUBSET Moves] /\ depth' \in [Thread -> 1 .. MaxDepth + 1]
      BY <1>3, <3>1 DEF BuildRootLines, WorkTypes
    <3>4. result' \in [Thread -> Line]
      BY <1>3, <3>2 DEF BuildRootLines, WorkTypes
    <3> QED  BY <1>3, <3>3, <3>4 DEF BuildRootLines, WorkTypes
  <2>5. DepthBound'
    BY <1>3 DEF BuildRootLines, ControlTypes, ThreadTypes, WorkTypes, DepthBound, Goto, ThreadPcs,
       Candidates, Job, Line, NoLine
  <2> QED  BY <2>1, <2>2, <2>3, <2>4, <2>5
<1>4. CASE NextDepth(t)
  <2>1. FlagTypes'
    BY <1>4 DEF NextDepth, FlagTypes, WorkTypes, Goto, ThreadPcs, DepthLeft, Job, Limits
  <2>2. ControlTypes'
    BY <1>4 DEF NextDepth, ControlTypes, WorkTypes, Goto, ThreadPcs, DepthLeft, Job, Limits
  <2>3. ThreadTypes'
    BY <1>4 DEF NextDepth, ThreadTypes, Goto, ThreadPcs, DepthLeft, Job, Limits
  <2>4. WorkTypes'
    <3>1. job[t].lim.depth \in 1 .. MaxDepth /\ depth[t] \in 1 .. MaxDepth + 1
      BY DEF WorkTypes, Job, Limits
    <3>2. depth' \in [Thread -> 1 .. MaxDepth + 1]
      BY <1>4, <3>1 DEF NextDepth, DepthLeft, WorkTypes
    <3> QED  BY <1>4, <3>2 DEF NextDepth, WorkTypes
  <2>5. DepthBound'
    BY <1>4 DEF NextDepth, ControlTypes, ThreadTypes, WorkTypes, DepthBound, Goto, ThreadPcs,
       DepthLeft, Job, Limits
  <2> QED  BY <2>1, <2>2, <2>3, <2>4, <2>5
<1>5. CASE AbandonDepth(t)
  <2>1. FlagTypes'
    BY <1>5 DEF AbandonDepth, FlagTypes, WorkTypes, Goto, ThreadPcs
  <2>2. ControlTypes' /\ ThreadTypes' /\ WorkTypes' /\ DepthBound'
    BY <1>5 DEF AbandonDepth, ControlTypes, ThreadTypes, WorkTypes, DepthBound, Goto, ThreadPcs
  <2> QED  BY <2>1, <2>2
<1>6. CASE Finalize(t)
  <2>1. FlagTypes'
    BY <1>6 DEF Finalize, FlagTypes, WorkTypes, Goto, ThreadPcs, Job, Limits, Line
  <2>2. ControlTypes'
    BY <1>6 DEF Finalize, ControlTypes, WorkTypes, Goto, ThreadPcs, Job, Limits, Line
  <2>3. ThreadTypes'
    BY <1>6 DEF Finalize, ThreadTypes, Goto, ThreadPcs, Job, Limits, Line
  <2>4. WorkTypes'
    <3> DEFINE line == IF ~result[t].done /\ ~stop[t]
                         THEN [result[t] EXCEPT !.depth = job[t].lim.depth, !.done = TRUE]
                         ELSE result[t]
    <3>1. result[t] \in Line /\ job[t].lim.depth \in 0 .. MaxDepth
      BY DEF WorkTypes, Job, Limits
    <3>2. line \in Line
      BY <3>1 DEF Line
    <3>3. result' = [result EXCEPT ![t] = line] /\ snapshot' = [snapshot EXCEPT ![t] = line]
      BY <1>6 DEF Finalize
    <3> QED  BY <1>6, <3>2, <3>3 DEF Finalize, WorkTypes
  <2>5. DepthBound'
    BY <1>6 DEF Finalize, ControlTypes, ThreadTypes, WorkTypes, DepthBound, Goto, ThreadPcs, Job,
       Limits, Line
  <2> QED  BY <2>1, <2>2, <2>3, <2>4, <2>5
<1>7. CASE Publish(t)
  <2>1. FlagTypes'
    BY <1>7 DEF Publish, FlagTypes, WorkTypes, Goto, ThreadPcs, Line
  <2>2. ControlTypes' /\ ThreadTypes' /\ WorkTypes' /\ DepthBound'
    BY <1>7 DEF Publish, ControlTypes, ThreadTypes, WorkTypes, DepthBound, Goto, ThreadPcs, Line
  <2> QED  BY <2>1, <2>2
<1>8. CASE Unlock(t)
  <2>1. FlagTypes'
    BY <1>8 DEF Unlock, FlagTypes, WorkTypes, GoIdle, Goto, ThreadPcs
  <2>2. ControlTypes' /\ ThreadTypes' /\ WorkTypes' /\ DepthBound'
    BY <1>8 DEF Unlock, ControlTypes, ThreadTypes, WorkTypes, DepthBound, GoIdle, Goto, ThreadPcs
  <2> QED  BY <2>1, <2>2
<1>9. CASE Notify(t)
  <2>1. FlagTypes'
    BY <1>9 DEF Notify, FlagTypes, WorkTypes, NotifyAll, Goto, ThreadPcs
  <2>2. ControlTypes' /\ ThreadTypes' /\ WorkTypes' /\ DepthBound'
    BY <1>9 DEF Notify, ControlTypes, ThreadTypes, WorkTypes, DepthBound, NotifyAll, Goto, ThreadPcs
  <2> QED  BY <2>1, <2>2
<1>10. CASE PassGate(t)
  <2>1. FlagTypes'
    BY <1>10 DEF PassGate, FlagTypes, WorkTypes, Goto, ThreadPcs, Thread
  <2>2. ControlTypes'
    BY <1>10 DEF PassGate, ControlTypes, WorkTypes, Goto, ThreadPcs, Thread
  <2>3. ThreadTypes'
    BY <1>10 DEF PassGate, ThreadTypes, Goto, ThreadPcs, Thread
  <2>4. WorkTypes'
    BY <1>10 DEF PassGate, ControlTypes, ThreadTypes, WorkTypes, Goto, ThreadPcs, Thread
  <2>5. DepthBound'
    BY <1>10 DEF PassGate, ControlTypes, ThreadTypes, WorkTypes, DepthBound, Goto, ThreadPcs, Thread
  <2> QED  BY <2>1, <2>2, <2>3, <2>4, <2>5
<1>11. ASSUME NEW m \in Moves, NEW v \in Scores, CompleteDepth(t, m, v)
      PROVE TypeInv'
  <2>1. FlagTypes'
    BY <1>11 DEF CompleteDepth, FlagTypes, WorkTypes, Goto, ThreadPcs
  <2>2. ControlTypes'
    BY <1>11 DEF CompleteDepth, ControlTypes, WorkTypes, Goto, ThreadPcs
  <2>3. ThreadTypes'
    BY <1>11 DEF CompleteDepth, ThreadTypes, Goto, ThreadPcs
  <2>4. WorkTypes'
    <3>1. depth[t] \in 1 .. MaxDepth
      BY <1>11 DEF CompleteDepth, WorkTypes, DepthBound
    <3>2. [move |-> m, value |-> v, depth |-> depth[t], done |-> TRUE] \in Line
      BY <3>1 DEF Line
    <3>3. result' \in [Thread -> Line] /\ snapshot' \in [Thread -> Line]
      BY <1>11, <3>2 DEF CompleteDepth, WorkTypes
    <3>4. depth' \in [Thread -> 1 .. MaxDepth + 1]
      BY <1>11, <3>1 DEF CompleteDepth, WorkTypes
    <3> QED  BY <1>11, <3>3, <3>4 DEF CompleteDepth, WorkTypes
  <2>5. DepthBound'
    BY <1>11 DEF CompleteDepth, ControlTypes, ThreadTypes, WorkTypes, DepthBound, Goto, ThreadPcs
  <2> QED  BY <2>1, <2>2, <2>3, <2>4, <2>5
<1> QED
  BY <1>1, <1>2, <1>3, <1>4, <1>5, <1>6, <1>7, <1>8, <1>9, <1>10, <1>11,
     MainStepTypes DEF ThreadStep

\* So does a command that is read, and a waiter that wakes for no reason.
LEMMA OtherStepTypes ==
  ASSUME TypeInv, Next, ~UciStep, \A t \in Thread : ~ThreadStep(t) PROVE TypeInv'
<1> USE ThreadsAssumption, MovesAssumption, LimitsAssumption, CommandsAssumption, ConstantTypes
<1> USE DEF TypeInv, TypeOK, cmdVars, setupVars, engineVars, gateVars, parkVars, workVars,
            mainVars, protoVars, outputVars, poolVars, outerVars, restVars
<1>1. ASSUME NEW c \in Commands, ReadCommand(c)
      PROVE TypeInv'
  <2>1. FlagTypes'
    BY <1>1 DEF ReadCommand, FlagTypes, WorkTypes, EntryPoint, UciGoto, UciPcs, Command, Kinds
  <2>2. ControlTypes'
    BY <1>1 DEF ReadCommand, ControlTypes, WorkTypes, EntryPoint, UciGoto, UciPcs, Command, Kinds
  <2>3. ThreadTypes'
    BY <1>1 DEF ReadCommand, ThreadTypes, EntryPoint, UciGoto, UciPcs, Command, Kinds
  <2>4. WorkTypes'
    BY <1>1 DEF ReadCommand, ControlTypes, ThreadTypes, WorkTypes, EntryPoint, UciGoto, UciPcs,
       Command, Kinds
  <2>5. DepthBound'
    BY <1>1 DEF ReadCommand, ControlTypes, ThreadTypes, WorkTypes, DepthBound, EntryPoint,
       UciGoto, UciPcs, Command, Kinds
  <2> QED  BY <2>1, <2>2, <2>3, <2>4, <2>5
<1>2. ASSUME NEW t \in Thread, NEW a \in 0 .. MaxThreads, SpuriousWake(t, a)
      PROVE TypeInv'
  <2>1. FlagTypes'
    BY <1>2 DEF SpuriousWake, FlagTypes, WorkTypes, Thread
  <2>2. ControlTypes' /\ ThreadTypes' /\ WorkTypes' /\ DepthBound'
    BY <1>2 DEF SpuriousWake, ControlTypes, ThreadTypes, WorkTypes, DepthBound, Thread
  <2> QED  BY <2>1, <2>2
<1>3. ASSUME NEW t \in Thread, SpuriousGateWake(t)
      PROVE TypeInv'
  <2>1. FlagTypes'
    BY <1>3 DEF SpuriousGateWake, FlagTypes, WorkTypes, Thread
  <2>2. ControlTypes' /\ ThreadTypes' /\ WorkTypes' /\ DepthBound'
    BY <1>3 DEF SpuriousGateWake, ControlTypes, ThreadTypes, WorkTypes, DepthBound, Thread
  <2> QED  BY <2>1, <2>2
<1>4. CASE Terminated
  BY <1>4 DEF Terminated, vars, FlagTypes, ControlTypes, ThreadTypes, WorkTypes, DepthBound
<1> QED
  BY <1>1, <1>2, <1>3, <1>4 DEF Next

LEMMA StepTypes == TypeInv /\ [Next]_vars => TypeInv'
<1> SUFFICES ASSUME TypeInv, [Next]_vars PROVE TypeInv'
  OBVIOUS
<1>1. CASE UNCHANGED vars
  BY <1>1 DEF TypeInv, TypeOK, FlagTypes, ControlTypes, ThreadTypes, WorkTypes, DepthBound, vars,
     cmdVars, setupVars, engineVars, gateVars, parkVars, workVars, mainVars, protoVars,
     outputVars, poolVars, outerVars, restVars
<1>2. CASE UciStep
  BY <1>2, UciStepTypes
<1>3. ASSUME NEW t \in Thread, ThreadStep(t) PROVE TypeInv'
  BY <1>3, ThreadStepTypes
<1>4. CASE Next /\ ~UciStep /\ \A t \in Thread : ~ThreadStep(t)
  BY <1>4, OtherStepTypes
<1> QED  BY <1>1, <1>2, <1>3, <1>4

\* TypeInv is inductive, and TypeOK follows from it.
THEOREM TypeInvariant == Safety => []TypeInv
BY InitTypes, StepTypes, PTL DEF Safety

\* In every behaviour of every instance the variables have their types: no loop
\* of the UCI thread or of the main worker leaves the pool's indices, no depth
\* passes the limit by more than one, and every line is a line of this game.
THEOREM TypeCorrect == Safety => []TypeOK
<1>1. TypeInv => TypeOK
  BY DEF TypeInv
<1> QED  BY <1>1, TypeInvariant, PTL


-----------------------------------------------------------------------------
(* Exclusive use of the pool.                                              *)

\* The UCI thread scans the pool before it uses it, and takes threads down in order.
LEMMA ExclusiveUciStep ==
  ASSUME TypeInv, ExclusiveInv, UciStep PROVE ExclusiveInv'
<1> USE ThreadsAssumption
<1> USE DEF TypeInv, TypeOK, ControlTypes, ThreadTypes, Thread, Main, Live
<1> USE DEF ExclusiveInv, UciLoops, ShutdownReached, ThreadStates, ScannedIdle, FirstClosed,
            ClosingPcs, Working
<1> USE DEF cmdVars, setupVars, engineVars, gateVars, parkVars, workVars, mainVars, protoVars,
            outputVars, poolVars, outerVars, restVars
<1>1. CASE ScanThread
  BY <1>1 DEF ScanThread, UciGoto, UciPcs, Live, IsSearching
<1>2. CASE ScanEnd
  BY <1>2 DEF ScanEnd, Return, UciGoto, UciPcs
<1>3. CASE Refuse
  BY <1>3 DEF Refuse, Return, UciGoto, UciPcs
<1>4. CASE Arm
  BY <1>4 DEF Arm, UciGoto, UciPcs
<1>5. CASE ConfigureThread
  BY <1>5 DEF ConfigureThread, UciGoto, UciPcs
<1>6. CASE WakeHelper
  BY <1>6 DEF WakeHelper, Wake, NotifyOne, Main
<1>7. CASE WakeMain
  BY <1>7 DEF WakeMain, Wake, NotifyOne, Return, UciGoto, UciPcs, Main
<1>8. CASE SetBoard
  BY <1>8 DEF SetBoard, Return, UciGoto, UciPcs
<1>9. CASE ResetTable
  BY <1>9 DEF ResetTable, Return, UciGoto, UciPcs
<1>10. CASE GrowPool
  <2>1. cmd.n \in 1 .. MaxThreads
    BY DEF WorkTypes, Command
  <2> QED  BY <1>10, <2>1 DEF GrowPool, Return, UciGoto, UciPcs, Command, ThreadPcs, Thread
<1>11. CASE GrowFails
  BY <1>11 DEF GrowFails, Return, UciGoto, UciPcs
<1>12. CASE BeginShrink
  <2>1. cmd.n \in 1 .. MaxThreads
    BY DEF WorkTypes, Command
  <2> QED  BY <1>12, <2>1 DEF BeginShrink, UciGoto, UciPcs, Command
<1>13. CASE StopThread
  BY <1>13 DEF StopThread, RaiseStop, UciGoto, UciPcs
<1>14. CASE EndPonder
  BY <1>14 DEF EndPonder, Return, UciGoto, UciPcs
<1>15. CASE OpenGate
  BY <1>15 DEF OpenGate, Return, UciGoto, UciPcs
<1>16. CASE ShutdownStop
  BY <1>16 DEF ShutdownStop, RaiseStop, UciGoto, UciPcs
<1>17. CASE ShutdownWait
  BY <1>17 DEF ShutdownWait, UciGoto, UciPcs, Uci
<1>18. CASE ShutdownSet
  <2>1. cmd.n \in 1 .. MaxThreads
    BY DEF WorkTypes, Command
  <2> QED  BY SMTT(30), <1>18, <2>1 DEF ShutdownSet, NotifyOne, UciGoto, UciPcs, Command
<1>19. CASE JoinThread
  <2>1. cmd.n \in 1 .. MaxThreads
    BY DEF WorkTypes, Command
  <2> QED  BY <1>19, <2>1 DEF JoinThread, Goto, ThreadPcs, UciGoto, UciPcs, Return, Command
<1> QED
  BY <1>1, <1>2, <1>3, <1>4, <1>5, <1>6, <1>7, <1>8, <1>9, <1>10, <1>11, <1>12, <1>13, <1>14,
     <1>15, <1>16, <1>17, <1>18, <1>19 DEF UciStep

\* What only the main worker does leaves the parking of threads alone.
LEMMA ExclusiveMainStep ==
  ASSUME TypeInv, ExclusiveInv, MainStep PROVE ExclusiveInv'
<1> USE ThreadsAssumption
<1> USE DEF TypeInv, TypeOK, ControlTypes, ThreadTypes, Thread, Main, Live
<1> USE DEF ExclusiveInv, UciLoops, ShutdownReached, ThreadStates, ScannedIdle, FirstClosed,
            ClosingPcs, Working
<1> USE DEF cmdVars, setupVars, engineVars, gateVars, parkVars, workVars, mainVars, protoVars,
            outputVars, poolVars, outerVars, restVars
<1>1. CASE AdvanceGeneration
  BY <1>1 DEF AdvanceGeneration, Goto, ThreadPcs
<1>2. CASE Release
  BY <1>2 DEF Release, ReleaseHelpers, Goto, ThreadPcs
<1>3. CASE PollLimits
  BY <1>3 DEF PollLimits, Goto, ThreadPcs
<1>4. CASE PollStop
  BY <1>4 DEF PollStop, RaiseStop, Goto, ThreadPcs
<1>5. CASE PollEndPonder
  BY <1>5 DEF PollEndPonder, LeavePondering, Goto, ThreadPcs
<1>6. CASE PollOpenGate
  BY <1>6 DEF PollOpenGate, ReleaseHelpers, Goto, ThreadPcs
<1>7. CASE HoldPonder
  BY <1>7 DEF HoldPonder, Goto, ThreadPcs
<1>8. CASE HoldInfinite
  BY <1>8 DEF HoldInfinite, Goto, ThreadPcs
<1>9. CASE StopHelper
  BY <1>9 DEF StopHelper, RaiseStop, Goto, ThreadPcs
<1>10. CASE AwaitHelper
  BY <1>10 DEF AwaitHelper, Goto, ThreadPcs
<1>11. ASSUME NEW sel \in Line, Select(sel)
      PROVE ExclusiveInv'
  BY ZenonT(30), <1>11 DEF Select, Goto, ThreadPcs
<1> QED
  BY <1>1, <1>2, <1>3, <1>4, <1>5, <1>6, <1>7, <1>8, <1>9, <1>10, <1>11 DEF MainStep

\* A thread starts to work because it searches, and ends because it was told to.
LEMMA ExclusiveThreadStep ==
  ASSUME TypeInv, ExclusiveInv, NEW t \in Thread, ThreadStep(t) PROVE ExclusiveInv'
<1> USE ThreadsAssumption
<1> USE DEF TypeInv, TypeOK, ControlTypes, ThreadTypes, Thread, Main, Live
<1> USE DEF ExclusiveInv, UciLoops, ShutdownReached, ThreadStates, ScannedIdle, FirstClosed,
            ClosingPcs, Working
<1> USE DEF cmdVars, setupVars, engineVars, gateVars, parkVars, workVars, mainVars, protoVars,
            outputVars, poolVars, outerVars, restVars
<1>1. CASE Park(t)
  BY <1>1 DEF Park, Goto, ThreadPcs
<1>2. CASE StartSearch(t)
  BY <1>2 DEF StartSearch, Goto, ThreadPcs
<1>3. CASE BuildRootLines(t)
  BY SMTT(30), <1>3 DEF BuildRootLines, Goto, ThreadPcs
<1>4. CASE NextDepth(t)
  BY <1>4 DEF NextDepth, Goto, ThreadPcs
<1>5. CASE AbandonDepth(t)
  BY <1>5 DEF AbandonDepth, Goto, ThreadPcs
<1>6. CASE Finalize(t)
  BY <1>6 DEF Finalize, Goto, ThreadPcs
<1>7. CASE Publish(t)
  BY <1>7 DEF Publish, Goto, ThreadPcs
<1>8. CASE Unlock(t)
  BY <1>8 DEF Unlock, GoIdle, Goto, ThreadPcs
<1>9. CASE Notify(t)
  BY <1>9 DEF Notify, NotifyAll, Goto, ThreadPcs
<1>10. CASE PassGate(t)
  BY <1>10 DEF PassGate, Goto, ThreadPcs
<1>11. ASSUME NEW m \in Moves, NEW v \in Scores, CompleteDepth(t, m, v)
      PROVE ExclusiveInv'
  BY <1>11 DEF CompleteDepth, Goto, ThreadPcs
<1> QED
  BY <1>1, <1>2, <1>3, <1>4, <1>5, <1>6, <1>7, <1>8, <1>9, <1>10, <1>11,
     ExclusiveMainStep DEF ThreadStep

\* A command starts with no thread scanned.
LEMMA ExclusiveOtherStep ==
  ASSUME TypeInv, ExclusiveInv, Next, ~UciStep, \A t \in Thread : ~ThreadStep(t) PROVE ExclusiveInv'
<1> USE ThreadsAssumption
<1> USE DEF TypeInv, TypeOK, ControlTypes, ThreadTypes, Thread, Main, Live
<1> USE DEF ExclusiveInv, UciLoops, ShutdownReached, ThreadStates, ScannedIdle, FirstClosed,
            ClosingPcs, Working
<1> USE DEF cmdVars, setupVars, engineVars, gateVars, parkVars, workVars, mainVars, protoVars,
            outputVars, poolVars, outerVars, restVars
<1>1. ASSUME NEW c \in Commands, ReadCommand(c)
      PROVE ExclusiveInv'
  BY <1>1 DEF ReadCommand, EntryPoint, UciGoto, UciPcs, Command, Kinds
<1>2. ASSUME NEW t \in Thread, NEW a \in 0 .. MaxThreads, SpuriousWake(t, a)
      PROVE ExclusiveInv'
  BY <1>2 DEF SpuriousWake, Thread
<1>3. ASSUME NEW t \in Thread, SpuriousGateWake(t)
      PROVE ExclusiveInv'
  BY <1>3 DEF SpuriousGateWake, Thread
<1>4. CASE Terminated
  BY <1>4 DEF Terminated, vars
<1> QED
  BY <1>1, <1>2, <1>3, <1>4 DEF Next

\* At the start every thread is parked and nothing was scanned.
LEMMA ExclusiveInit == TypeInv /\ Init => ExclusiveInv
<1> SUFFICES ASSUME TypeInv, Init PROVE ExclusiveInv
  OBVIOUS
<1> USE ThreadsAssumption
<1>1. upc = "read" /\ ui = 0 /\ size > 0
  BY DEF Init
<1>2. \A t \in Thread : ~searching[t] /\ ~shutdownReq[t] /\ pc[t] = IF t < size THEN "park" ELSE "none"
  BY DEF Init
<1> QED
  BY <1>1, <1>2 DEF ExclusiveInv, UciLoops, ShutdownReached, ThreadStates, ScannedIdle,
     ClosingPcs, Working

\* ExclusiveInv is inductive with TypeInv.
LEMMA ExclusiveStep == TypeInv /\ ExclusiveInv /\ [Next]_vars => ExclusiveInv'
<1> SUFFICES ASSUME TypeInv, ExclusiveInv, [Next]_vars PROVE ExclusiveInv'
  OBVIOUS
<1>1. CASE UNCHANGED vars
  BY <1>1 DEF ExclusiveInv, UciLoops, ShutdownReached, ThreadStates, ScannedIdle, FirstClosed,
     ClosingPcs, Working, vars, cmdVars, setupVars, engineVars, gateVars, parkVars, poolVars, restVars
<1>2. CASE UciStep
  BY <1>2, ExclusiveUciStep
<1>3. ASSUME NEW t \in Thread, ThreadStep(t) PROVE ExclusiveInv'
  BY <1>3, ExclusiveThreadStep
<1>4. CASE Next /\ ~UciStep /\ \A t \in Thread : ~ThreadStep(t)
  BY <1>4, ExclusiveOtherStep
<1> QED  BY <1>1, <1>2, <1>3, <1>4

\* The invariants of the pool's use hold in every reachable state.
THEOREM ExclusiveInvariant == Safety => [](TypeInv /\ ExclusiveInv)
<1>1. Init => TypeInv /\ ExclusiveInv
  BY InitTypes, ExclusiveInit
<1>2. TypeInv /\ ExclusiveInv /\ [Next]_vars => (TypeInv /\ ExclusiveInv)'
  BY StepTypes, ExclusiveStep
<1> QED  BY <1>1, <1>2, PTL DEF Safety

\* Board, table and pool are changed, and workers configured, only while every
\* thread is idle: require_idle's answer is still true when it is used.
THEOREM Exclusive == Safety => []ExclusiveWhenIdle
<1>1. TypeInv /\ ExclusiveInv => ExclusiveWhenIdle
  <2> SUFFICES ASSUME TypeInv, ExclusiveInv, upc \in {"arm", "configure", "apply"}, NEW t \in Live
               PROVE Idle(t)
    BY DEF ExclusiveWhenIdle
  <2> USE DEF TypeInv, TypeOK, ControlTypes, ThreadTypes, Thread, Live
  <2>1. t \in Thread /\ ~searching[t]
    BY ThreadsAssumption DEF ExclusiveInv, ScannedIdle
  <2>2. ~shutdownReq[t] /\ upc # "join"
    BY <2>1 DEF ExclusiveInv, ShutdownReached, ClosingPcs
  <2>3. pc[t] \in ThreadPcs /\ pc[t] \notin Working \cup {"none", "exited"}
    BY <2>1, <2>2 DEF ExclusiveInv, ThreadStates
  <2> QED  BY <2>1, <2>3 DEF Idle, Working
<1> QED  BY <1>1, ExclusiveInvariant, PTL

-----------------------------------------------------------------------------
(* One answer for each search.                                             *)

\* An answer is owed from the moment the UCI thread wakes the main worker.
LEMMA AnswerUciStep ==
  ASSUME TypeInv, ExclusiveInv, AnswerInv, UciStep PROVE AnswerInv'
<1> USE ThreadsAssumption
<1> USE DEF TypeInv, TypeOK, FlagTypes, ControlTypes, ThreadTypes, Thread, Main, Live
<1> USE DEF ExclusiveInv, UciLoops, ShutdownReached, ThreadStates, ScannedIdle, FirstClosed,
            ClosingPcs, Working
<1> USE DEF AnswerInv, AnswerOwed, Answering, ClosedIdle, HelpersAwaited, QuietCommand
<1> USE DEF cmdVars, setupVars, engineVars, gateVars, parkVars, workVars, mainVars, protoVars,
            outputVars, poolVars, outerVars, restVars
<1>1. CASE ScanThread
  <2>1. AnswerOwed'
    BY <1>1 DEF ScanThread, UciGoto, UciPcs, Live, IsSearching
  <2>2. ClosedIdle'
    BY <1>1 DEF ScanThread, UciGoto, UciPcs, Live, IsSearching
  <2>3. HelpersAwaited'
    BY <1>1 DEF ScanThread, UciGoto, UciPcs, Live, IsSearching
  <2>4. QuietCommand'
    <3>1. asked = told => \A t \in Live : searching[t] => t = Main /\ pc[Main] = "unlock"
      BY <1>1 DEF ScanThread
    <3>2. IsSearching(ui) /\ ~sawBusy => asked # told
      BY <1>1, <3>1 DEF ScanThread, IsSearching, Locked
    <3>3. IsSearching(ui) => sawBusy
      BY <1>1, <3>2 DEF ScanThread
    <3> QED  BY <1>1, <3>3 DEF ScanThread, UciGoto
  <2> QED  BY <2>1, <2>2, <2>3, <2>4
<1>2. CASE ScanEnd
  BY <1>2 DEF ScanEnd, Return, UciGoto, UciPcs
<1>3. CASE Refuse
  BY <1>3 DEF Refuse, Return, UciGoto, UciPcs
<1>4. CASE Arm
  BY <1>4 DEF Arm, UciGoto, UciPcs
<1>5. CASE ConfigureThread
  BY <1>5 DEF ConfigureThread, UciGoto, UciPcs
<1>6. CASE WakeHelper
  BY <1>6 DEF WakeHelper, Wake, NotifyOne, Main
<1>7. CASE WakeMain
  BY <1>7 DEF WakeMain, Wake, NotifyOne, Return, UciGoto, UciPcs, Main
<1>8. CASE SetBoard
  BY <1>8 DEF SetBoard, Return, UciGoto, UciPcs
<1>9. CASE ResetTable
  BY <1>9 DEF ResetTable, Return, UciGoto, UciPcs
<1>10. CASE GrowPool
  <2>1. cmd.n \in 1 .. MaxThreads
    BY DEF WorkTypes, Command
  <2> QED  BY <1>10, <2>1 DEF GrowPool, Return, UciGoto, UciPcs, Command, ThreadPcs, Thread
<1>11. CASE GrowFails
  BY <1>11 DEF GrowFails, Return, UciGoto, UciPcs
<1>12. CASE BeginShrink
  <2>1. cmd.n \in 1 .. MaxThreads
    BY DEF WorkTypes, Command
  <2> QED  BY <1>12, <2>1 DEF BeginShrink, UciGoto, UciPcs, Command
<1>13. CASE StopThread
  BY <1>13 DEF StopThread, RaiseStop, UciGoto, UciPcs
<1>14. CASE EndPonder
  BY <1>14 DEF EndPonder, Return, UciGoto, UciPcs
<1>15. CASE OpenGate
  BY <1>15 DEF OpenGate, Return, UciGoto, UciPcs
<1>16. CASE ShutdownStop
  BY <1>16 DEF ShutdownStop, RaiseStop, UciGoto, UciPcs
<1>17. CASE ShutdownWait
  BY <1>17 DEF ShutdownWait, UciGoto, UciPcs, Uci, MustAwait
<1>18. CASE ShutdownSet
  <2>1. cmd.n \in 1 .. MaxThreads
    BY DEF WorkTypes, Command
  <2> QED  BY <1>18, <2>1 DEF ShutdownSet, NotifyOne, UciGoto, UciPcs, Command
<1>19. CASE JoinThread
  <2>1. cmd.n \in 1 .. MaxThreads
    BY DEF WorkTypes, Command
  <2> QED  BY <1>19, <2>1 DEF JoinThread, Goto, ThreadPcs, UciGoto, UciPcs, Return, Command
<1> QED
  BY <1>1, <1>2, <1>3, <1>4, <1>5, <1>6, <1>7, <1>8, <1>9, <1>10, <1>11, <1>12, <1>13, <1>14,
     <1>15, <1>16, <1>17, <1>18, <1>19 DEF UciStep

\* The main worker passes its helpers only once they are idle.
LEMMA AnswerMainStep ==
  ASSUME TypeInv, ExclusiveInv, AnswerInv, MainStep PROVE AnswerInv'
<1> USE ThreadsAssumption
<1> USE DEF TypeInv, TypeOK, FlagTypes, ControlTypes, ThreadTypes, Thread, Main, Live
<1> USE DEF ExclusiveInv, UciLoops, ShutdownReached, ThreadStates, ScannedIdle, FirstClosed,
            ClosingPcs, Working
<1> USE DEF AnswerInv, AnswerOwed, Answering, ClosedIdle, HelpersAwaited, QuietCommand
<1> USE DEF cmdVars, setupVars, engineVars, gateVars, parkVars, workVars, mainVars, protoVars,
            outputVars, poolVars, outerVars, restVars
<1>1. CASE AdvanceGeneration
  BY <1>1 DEF AdvanceGeneration, Goto, ThreadPcs
<1>2. CASE Release
  BY <1>2 DEF Release, ReleaseHelpers, Goto, ThreadPcs
<1>3. CASE PollLimits
  BY <1>3 DEF PollLimits, Goto, ThreadPcs
<1>4. CASE PollStop
  BY <1>4 DEF PollStop, RaiseStop, Goto, ThreadPcs
<1>5. CASE PollEndPonder
  BY <1>5 DEF PollEndPonder, LeavePondering, Goto, ThreadPcs
<1>6. CASE PollOpenGate
  BY <1>6 DEF PollOpenGate, ReleaseHelpers, Goto, ThreadPcs
<1>7. CASE HoldPonder
  BY <1>7 DEF HoldPonder, Goto, ThreadPcs
<1>8. CASE HoldInfinite
  BY <1>8 DEF HoldInfinite, Goto, ThreadPcs
<1>9. CASE StopHelper
  BY <1>9 DEF StopHelper, RaiseStop, Goto, ThreadPcs
<1>10. CASE AwaitHelper
  BY <1>10 DEF AwaitHelper, Goto, ThreadPcs, MustAwait
<1>11. ASSUME NEW sel \in Line, Select(sel)
      PROVE AnswerInv'
  <2>1. AnswerOwed'
    <3>1. pc[Main] = "select" /\ pc' = [pc EXCEPT ![Main] = "publish"]
      BY <1>11 DEF Select, Goto
    <3>2. UNCHANGED <<asked, told, searching>>
      BY <1>11 DEF Select
    <3> QED  BY <3>1, <3>2
  <2>2. ClosedIdle'
    BY <1>11 DEF Select, Goto, ThreadPcs
  <2>3. HelpersAwaited'
    BY <1>11 DEF Select, Goto, ThreadPcs
  <2>4. QuietCommand'
    BY <1>11 DEF Select, Goto, ThreadPcs
  <2> QED  BY <2>1, <2>2, <2>3, <2>4
<1> QED
  BY <1>1, <1>2, <1>3, <1>4, <1>5, <1>6, <1>7, <1>8, <1>9, <1>10, <1>11 DEF MainStep

\* The main worker prints while it searches, and then is not searching.
LEMMA AnswerThreadStep ==
  ASSUME TypeInv, ExclusiveInv, AnswerInv, NEW t \in Thread, ThreadStep(t) PROVE AnswerInv'
<1> USE ThreadsAssumption
<1> USE DEF TypeInv, TypeOK, FlagTypes, ControlTypes, ThreadTypes, Thread, Main, Live
<1> USE DEF ExclusiveInv, UciLoops, ShutdownReached, ThreadStates, ScannedIdle, FirstClosed,
            ClosingPcs, Working
<1> USE DEF AnswerInv, AnswerOwed, Answering, ClosedIdle, HelpersAwaited, QuietCommand
<1> USE DEF cmdVars, setupVars, engineVars, gateVars, parkVars, workVars, mainVars, protoVars,
            outputVars, poolVars, outerVars, restVars
<1>1. CASE Park(t)
  BY <1>1 DEF Park, Goto, ThreadPcs
<1>2. CASE StartSearch(t)
  BY <1>2 DEF StartSearch, Goto, ThreadPcs
<1>3. CASE BuildRootLines(t)
  <2>1. AnswerOwed'
    BY SMTT(30), <1>3 DEF BuildRootLines, Goto, ThreadPcs
  <2>2. ClosedIdle'
    BY <1>3 DEF BuildRootLines, Goto, ThreadPcs
  <2>3. HelpersAwaited'
    BY SMTT(30), <1>3 DEF BuildRootLines, Goto, ThreadPcs
  <2>4. QuietCommand'
    BY <1>3 DEF BuildRootLines, Goto, ThreadPcs
  <2> QED  BY <2>1, <2>2, <2>3, <2>4
<1>4. CASE NextDepth(t)
  BY <1>4 DEF NextDepth, Goto, ThreadPcs
<1>5. CASE AbandonDepth(t)
  BY <1>5 DEF AbandonDepth, Goto, ThreadPcs
<1>6. CASE Finalize(t)
  BY <1>6 DEF Finalize, Goto, ThreadPcs
<1>7. CASE Publish(t)
  BY SMTT(30), <1>7 DEF Publish, Goto, ThreadPcs
<1>8. CASE Unlock(t)
  BY <1>8 DEF Unlock, GoIdle, Goto, ThreadPcs
<1>9. CASE Notify(t)
  BY <1>9 DEF Notify, NotifyAll, Goto, ThreadPcs
<1>10. CASE PassGate(t)
  BY <1>10 DEF PassGate, Goto, ThreadPcs
<1>11. ASSUME NEW m \in Moves, NEW v \in Scores, CompleteDepth(t, m, v)
      PROVE AnswerInv'
  BY <1>11 DEF CompleteDepth, Goto, ThreadPcs
<1> QED
  BY <1>1, <1>2, <1>3, <1>4, <1>5, <1>6, <1>7, <1>8, <1>9, <1>10, <1>11,
     AnswerMainStep DEF ThreadStep

\* A command that is read starts a scan that finds what is owed.
LEMMA AnswerOtherStep ==
  ASSUME TypeInv, ExclusiveInv, AnswerInv, Next, ~UciStep,
     \A t \in Thread : ~ThreadStep(t) PROVE AnswerInv'
<1> USE ThreadsAssumption
<1> USE DEF TypeInv, TypeOK, FlagTypes, ControlTypes, ThreadTypes, Thread, Main, Live
<1> USE DEF ExclusiveInv, UciLoops, ShutdownReached, ThreadStates, ScannedIdle, FirstClosed,
            ClosingPcs, Working
<1> USE DEF AnswerInv, AnswerOwed, Answering, ClosedIdle, HelpersAwaited, QuietCommand
<1> USE DEF cmdVars, setupVars, engineVars, gateVars, parkVars, workVars, mainVars, protoVars,
            outputVars, poolVars, outerVars, restVars
<1>1. ASSUME NEW c \in Commands, ReadCommand(c)
      PROVE AnswerInv'
  BY <1>1 DEF ReadCommand, EntryPoint, UciGoto, UciPcs, Command, Kinds
<1>2. ASSUME NEW t \in Thread, NEW a \in 0 .. MaxThreads, SpuriousWake(t, a)
      PROVE AnswerInv'
  BY <1>2 DEF SpuriousWake, Thread
<1>3. ASSUME NEW t \in Thread, SpuriousGateWake(t)
      PROVE AnswerInv'
  BY <1>3 DEF SpuriousGateWake, Thread
<1>4. CASE Terminated
  BY <1>4 DEF Terminated, vars
<1> QED
  BY <1>1, <1>2, <1>3, <1>4 DEF Next

\* At the start nothing is owed.
LEMMA AnswerInit == TypeInv /\ Init => AnswerInv
<1> SUFFICES ASSUME TypeInv, Init PROVE AnswerInv
  OBVIOUS
<1>1. upc = "read" /\ asked = told /\ \A t \in Thread : ~searching[t]
  BY DEF Init
<1>2. Main \in Thread
  BY ThreadsAssumption DEF Main, Thread
<1> QED
  BY <1>1, <1>2 DEF AnswerInv, AnswerOwed, Answering, ClosedIdle, HelpersAwaited, QuietCommand

\* AnswerInv is inductive with the invariants before it.
LEMMA AnswerStep == TypeInv /\ ExclusiveInv /\ AnswerInv /\ [Next]_vars => AnswerInv'
<1> SUFFICES ASSUME TypeInv, ExclusiveInv, AnswerInv, [Next]_vars PROVE AnswerInv'
  OBVIOUS
<1>1. CASE UNCHANGED vars
  BY <1>1 DEF AnswerInv, AnswerOwed, Answering, ClosedIdle, HelpersAwaited, QuietCommand,
     FirstClosed, vars, cmdVars, setupVars, engineVars, gateVars, parkVars, mainVars, protoVars,
     outputVars, poolVars, restVars
<1>2. CASE UciStep
  BY <1>2, AnswerUciStep
<1>3. ASSUME NEW t \in Thread, ThreadStep(t) PROVE AnswerInv'
  BY <1>3, AnswerThreadStep
<1>4. CASE Next /\ ~UciStep /\ \A t \in Thread : ~ThreadStep(t)
  BY <1>4, AnswerOtherStep
<1> QED  BY <1>1, <1>2, <1>3, <1>4

\* All the invariants hold in every reachable state.
THEOREM AnswerInvariant == Safety => [](TypeInv /\ ExclusiveInv /\ AnswerInv)
<1>1. Init => TypeInv /\ ExclusiveInv /\ AnswerInv
  BY InitTypes, ExclusiveInit, AnswerInit
<1>2. TypeInv /\ ExclusiveInv /\ AnswerInv /\ [Next]_vars
        => (TypeInv /\ ExclusiveInv /\ AnswerInv)'
  BY StepTypes, ExclusiveStep, AnswerStep
<1> QED  BY <1>1, <1>2, PTL DEF Safety

\* The GUI gets one bestmove for each search that was accepted, and never two.
THEOREM AnsweredOnce == Safety => []OneAnswerEach
<1>1. TypeInv /\ AnswerInv => OneAnswerEach
  BY DEF TypeInv, TypeOK, ControlTypes, AnswerInv, AnswerOwed, Answering, OneAnswerEach
<1> QED  BY <1>1, AnswerInvariant, PTL

\* A command sent after the bestmove was seen is not refused as if the search
\* still ran.
THEOREM NotRefused == Safety => []NoSpuriousRefusal
<1>1. TypeInv /\ AnswerInv => NoSpuriousRefusal
  BY DEF TypeInv, TypeOK, FlagTypes, AnswerInv, QuietCommand, NoSpuriousRefusal
<1> QED  BY <1>1, AnswerInvariant, PTL

-----------------------------------------------------------------------------
(* Sleeping and waking: no notification is lost, and the pool is what the  *)
(* option says.                                                            *)

\* The UCI thread notifies a thread when nobody else can sleep on its condition.
LEMMA ParkUciStep ==
  ASSUME TypeInv, ExclusiveInv, AnswerInv, ParkInv, UciStep PROVE ParkInv'
<1> USE ThreadsAssumption
<1> USE DEF TypeInv, TypeOK, ControlTypes, ThreadTypes, Thread, Main, Uci, Live
<1> USE DEF ExclusiveInv, UciLoops, ShutdownReached, ThreadStates, ScannedIdle, FirstClosed,
            ClosingPcs, Working
<1> USE DEF AnswerInv, ClosedIdle, HelpersAwaited
<1> USE DEF ParkInv, PoolThreads, ShrinkIdle, HelperLoops, Sleepers, GateSleepers, MainAsleep
<1> USE DEF cmdVars, setupVars, engineVars, gateVars, parkVars, workVars, mainVars, protoVars,
            outputVars, poolVars, outerVars, restVars
<1>1. CASE ScanThread
  BY <1>1 DEF ScanThread, UciGoto, UciPcs, Live, IsSearching
<1>2. CASE ScanEnd
  BY <1>2 DEF ScanEnd, Return, UciGoto, UciPcs
<1>3. CASE Refuse
  BY <1>3 DEF Refuse, Return, UciGoto, UciPcs
<1>4. CASE Arm
  BY <1>4 DEF Arm, CloseGate, UciGoto, UciPcs
<1>5. CASE ConfigureThread
  BY <1>5 DEF ConfigureThread, ClearSnapshot, UciGoto, UciPcs
<1>6. CASE WakeHelper
  BY <1>6 DEF WakeHelper, Wake, NotifyOne, Main
<1>7. CASE WakeMain
  BY <1>7 DEF WakeMain, Wake, NotifyOne, Return, UciGoto, UciPcs, Main
<1>8. CASE SetBoard
  BY <1>8 DEF SetBoard, Return, UciGoto, UciPcs
<1>9. CASE ResetTable
  BY <1>9 DEF ResetTable, Return, UciGoto, UciPcs
<1>10. CASE GrowPool
  <2>1. cmd.n \in 1 .. MaxThreads
    BY DEF WorkTypes, Command
  <2> QED  BY <1>10, <2>1 DEF GrowPool, Return, UciGoto, UciPcs, Command, ThreadPcs, Thread
<1>11. CASE GrowFails
  BY <1>11 DEF GrowFails, Return, UciGoto, UciPcs
<1>12. CASE BeginShrink
  <2>1. cmd.n \in 1 .. MaxThreads
    BY DEF WorkTypes, Command
  <2> QED  BY <1>12, <2>1 DEF BeginShrink, UciGoto, UciPcs, Command
<1>13. CASE StopThread
  BY <1>13 DEF StopThread, RaiseStop, UciGoto, UciPcs
<1>14. CASE EndPonder
  BY <1>14 DEF EndPonder, LeavePondering, Return, UciGoto, UciPcs
<1>15. CASE OpenGate
  BY <1>15 DEF OpenGate, ReleaseHelpers, Return, UciGoto, UciPcs
<1>16. CASE ShutdownStop
  BY <1>16 DEF ShutdownStop, RaiseStop, UciGoto, UciPcs
<1>17. CASE ShutdownWait
  BY <1>17 DEF ShutdownWait, UciGoto, UciPcs, Uci, MustAwait
<1>18. CASE ShutdownSet
  <2>1. cmd.n \in 1 .. MaxThreads
    BY DEF WorkTypes, Command
  <2> QED  BY <1>18, <2>1 DEF ShutdownSet, NotifyOne, UciGoto, UciPcs, Command
<1>19. CASE JoinThread
  <2>1. cmd.n \in 1 .. MaxThreads
    BY DEF WorkTypes, Command
  <2> QED  BY <1>19, <2>1 DEF JoinThread, Goto, ThreadPcs, UciGoto, UciPcs, Return, Command
<1> QED
  BY <1>1, <1>2, <1>3, <1>4, <1>5, <1>6, <1>7, <1>8, <1>9, <1>10, <1>11, <1>12, <1>13, <1>14,
     <1>15, <1>16, <1>17, <1>18, <1>19 DEF UciStep

\* The main worker sleeps on a helper that searches, or on a hold that stands.
LEMMA ParkMainStep ==
  ASSUME TypeInv, ExclusiveInv, AnswerInv, ParkInv, MainStep PROVE ParkInv'
<1> USE ThreadsAssumption
<1> USE DEF TypeInv, TypeOK, ControlTypes, ThreadTypes, Thread, Main, Uci, Live
<1> USE DEF ExclusiveInv, UciLoops, ShutdownReached, ThreadStates, ScannedIdle, FirstClosed,
            ClosingPcs, Working
<1> USE DEF AnswerInv, ClosedIdle, HelpersAwaited
<1> USE DEF ParkInv, PoolThreads, ShrinkIdle, HelperLoops, Sleepers, GateSleepers, MainAsleep
<1> USE DEF cmdVars, setupVars, engineVars, gateVars, parkVars, workVars, mainVars, protoVars,
            outputVars, poolVars, outerVars, restVars
<1>1. CASE AdvanceGeneration
  BY <1>1 DEF AdvanceGeneration, Goto, ThreadPcs
<1>2. CASE Release
  BY <1>2 DEF Release, ReleaseHelpers, Goto, ThreadPcs
<1>3. CASE PollLimits
  BY <1>3 DEF PollLimits, Goto, ThreadPcs
<1>4. CASE PollStop
  BY <1>4 DEF PollStop, RaiseStop, Goto, ThreadPcs
<1>5. CASE PollEndPonder
  BY <1>5 DEF PollEndPonder, LeavePondering, Goto, ThreadPcs
<1>6. CASE PollOpenGate
  BY <1>6 DEF PollOpenGate, ReleaseHelpers, Goto, ThreadPcs
<1>7. CASE HoldPonder
  BY <1>7 DEF HoldPonder, Goto, ThreadPcs
<1>8. CASE HoldInfinite
  BY <1>8 DEF HoldInfinite, Goto, ThreadPcs
<1>9. CASE StopHelper
  BY <1>9 DEF StopHelper, RaiseStop, Goto, ThreadPcs
<1>10. CASE AwaitHelper
  BY <1>10 DEF AwaitHelper, Goto, ThreadPcs, MustAwait
<1>11. ASSUME NEW sel \in Line, Select(sel)
      PROVE ParkInv'
  <2>1. pc[Main] = "select" /\ pc' = [pc EXCEPT ![Main] = "publish"]
    BY <1>11 DEF Select, Goto
  <2>2. UNCHANGED <<outerVars, parkVars, stop, mi, asleep>>
    BY <1>11 DEF Select
  <2> QED  BY <2>1, <2>2 DEF ThreadPcs
<1> QED
  BY <1>1, <1>2, <1>3, <1>4, <1>5, <1>6, <1>7, <1>8, <1>9, <1>10, <1>11 DEF MainStep

\* A thread that goes idle wakes who waits for it before it parks.
LEMMA ParkThreadStep ==
  ASSUME TypeInv, ExclusiveInv, AnswerInv, ParkInv, NEW t \in Thread, ThreadStep(t)
  PROVE ParkInv'
<1> USE ThreadsAssumption
<1> USE DEF TypeInv, TypeOK, ControlTypes, ThreadTypes, Thread, Main, Uci, Live
<1> USE DEF ExclusiveInv, UciLoops, ShutdownReached, ThreadStates, ScannedIdle, FirstClosed,
            ClosingPcs, Working
<1> USE DEF AnswerInv, ClosedIdle, HelpersAwaited
<1> USE DEF ParkInv, PoolThreads, ShrinkIdle, HelperLoops, Sleepers, GateSleepers, MainAsleep
<1> USE DEF cmdVars, setupVars, engineVars, gateVars, parkVars, workVars, mainVars, protoVars,
            outputVars, poolVars, outerVars, restVars
<1>1. CASE Park(t)
  BY <1>1 DEF Park, Goto, ThreadPcs
<1>2. CASE StartSearch(t)
  BY <1>2 DEF StartSearch, Goto, ThreadPcs
<1>3. CASE BuildRootLines(t)
  <2>1. PoolThreads'
    BY <1>3 DEF BuildRootLines, Goto, ThreadPcs
  <2>2. ShrinkIdle'
    BY <1>3 DEF BuildRootLines, Goto, ThreadPcs
  <2>3. HelperLoops'
    BY <1>3 DEF BuildRootLines, Goto, ThreadPcs
  <2>4. Sleepers'
    BY <1>3 DEF BuildRootLines, Goto, ThreadPcs
  <2>5. GateSleepers'
    BY <1>3 DEF BuildRootLines, Goto, ThreadPcs
  <2>6. MainAsleep'
    BY <1>3 DEF BuildRootLines, Goto, ThreadPcs
  <2> QED  BY <2>1, <2>2, <2>3, <2>4, <2>5, <2>6 DEF ParkInv
<1>4. CASE NextDepth(t)
  BY <1>4 DEF NextDepth, Goto, ThreadPcs
<1>5. CASE AbandonDepth(t)
  BY <1>5 DEF AbandonDepth, Goto, ThreadPcs
<1>6. CASE Finalize(t)
  BY <1>6 DEF Finalize, Goto, ThreadPcs
<1>7. CASE Publish(t)
  BY <1>7 DEF Publish, Goto, ThreadPcs
<1>8. CASE Unlock(t)
  BY <1>8 DEF Unlock, GoIdle, Goto, ThreadPcs
<1>9. CASE Notify(t)
  BY <1>9 DEF Notify, NotifyAll, Goto, ThreadPcs
<1>10. CASE PassGate(t) /\ t # Main
  <2>1. PoolThreads'
    BY <1>10 DEF PassGate, Goto, ThreadPcs
  <2>2. ShrinkIdle'
    BY <1>10 DEF PassGate, Goto, ThreadPcs
  <2>3. HelperLoops'
    BY <1>10 DEF PassGate, Goto, ThreadPcs
  <2>4. Sleepers'
    BY <1>10 DEF PassGate, Goto, ThreadPcs
  <2>5. GateSleepers'
    BY <1>10 DEF PassGate, Goto, ThreadPcs
  <2>6. MainAsleep'
    BY <1>10 DEF PassGate, Goto, ThreadPcs
  <2> QED  BY <2>1, <2>2, <2>3, <2>4, <2>5, <2>6 DEF ParkInv
<1>11. ASSUME NEW m \in Moves, NEW v \in Scores, CompleteDepth(t, m, v)
      PROVE ParkInv'
  BY <1>11 DEF CompleteDepth, Goto, ThreadPcs
<1> QED
  BY <1>1, <1>2, <1>3, <1>4, <1>5, <1>6, <1>7, <1>8, <1>9, <1>10, <1>11,
     ParkMainStep DEF ThreadStep

\* A spurious wake-up takes a sleeper out.
LEMMA ParkOtherStep ==
  ASSUME TypeInv, ExclusiveInv, AnswerInv, ParkInv, Next, ~UciStep,
     \A t \in Thread : ~ThreadStep(t) PROVE ParkInv'
<1> USE ThreadsAssumption
<1> USE DEF TypeInv, TypeOK, ControlTypes, ThreadTypes, Thread, Main, Uci, Live
<1> USE DEF ExclusiveInv, UciLoops, ShutdownReached, ThreadStates, ScannedIdle, FirstClosed,
            ClosingPcs, Working
<1> USE DEF AnswerInv, ClosedIdle, HelpersAwaited
<1> USE DEF ParkInv, PoolThreads, ShrinkIdle, HelperLoops, Sleepers, GateSleepers, MainAsleep
<1> USE DEF cmdVars, setupVars, engineVars, gateVars, parkVars, workVars, mainVars, protoVars,
            outputVars, poolVars, outerVars, restVars
<1>1. ASSUME NEW c \in Commands, ReadCommand(c)
      PROVE ParkInv'
  BY <1>1 DEF ReadCommand, EntryPoint, UciGoto, UciPcs, Command, Kinds
<1>2. ASSUME NEW t \in Thread, NEW a \in 0 .. MaxThreads, SpuriousWake(t, a)
      PROVE ParkInv'
  BY <1>2 DEF SpuriousWake, Thread
<1>3. ASSUME NEW t \in Thread, SpuriousGateWake(t)
      PROVE ParkInv'
  BY <1>3 DEF SpuriousGateWake, Thread
<1>4. CASE Terminated
  BY <1>4 DEF Terminated, vars
<1> QED
  BY <1>1, <1>2, <1>3, <1>4 DEF Next

\* At the start nobody sleeps.
LEMMA ParkInit == TypeInv /\ Init => ParkInv
<1> SUFFICES ASSUME TypeInv, Init PROVE ParkInv
  OBVIOUS
<1>1. /\ upc = "read" /\ optThreads = size /\ pc[Main] = "park" /\ gateWait = {} /\ asleep = FALSE
      /\ \A t \in Thread : stateWait[t] = {} /\ (size <= t => pc[t] = "none")
  BY ThreadsAssumption DEF Init, Main, Thread
<1> QED
  BY <1>1, Zenon DEF ParkInv, PoolThreads, ShrinkIdle, HelperLoops, Sleepers, GateSleepers, MainAsleep,
     ClosingPcs

\* ParkInv is inductive with the invariants before it.
LEMMA ParkStep ==
  TypeInv /\ ExclusiveInv /\ AnswerInv /\ ParkInv /\ [Next]_vars
    => ParkInv'
<1> SUFFICES ASSUME TypeInv, ExclusiveInv, AnswerInv, ParkInv, [Next]_vars
             PROVE  ParkInv'
  OBVIOUS
<1>1. CASE UNCHANGED vars
  BY <1>1 DEF ParkInv, PoolThreads, ShrinkIdle, HelperLoops, Sleepers, GateSleepers, MainAsleep,
     FirstClosed, ClosingPcs, vars, cmdVars, setupVars, engineVars, gateVars, parkVars, workVars, mainVars, protoVars,
     outputVars, poolVars, restVars
<1>2. CASE UciStep
  BY <1>2, ParkUciStep
<1>3. ASSUME NEW t \in Thread, ThreadStep(t) PROVE ParkInv'
  BY <1>3, ParkThreadStep
<1>4. CASE Next /\ ~UciStep /\ \A t \in Thread : ~ThreadStep(t)
  BY <1>4, ParkOtherStep
<1> QED  BY <1>1, <1>2, <1>3, <1>4

\* ParkInv holds in every reachable state.
THEOREM ParkInvariant == Safety => []ParkInv
<1>1. Init => TypeInv /\ ParkInv
  BY InitTypes, ParkInit
<1>2. TypeInv /\ ExclusiveInv /\ AnswerInv /\ ParkInv /\ [Next]_vars => ParkInv'
  BY ParkStep
<1> QED  BY <1>1, <1>2, AnswerInvariant, PTL DEF Safety

\* Nobody is left asleep: idle threads, threads at the gate, the UCI thread and the
\* main worker at their waits, and the holds of ponder and infinite searches.
THEOREM NobodyLeftAsleep == Safety => []NoLostWakeup
<1>1. ASSUME ParkInv PROVE NoLostWakeup
  <2>1. Main # Uci /\ \A t \in Thread : t # Uci
    BY ThreadsAssumption DEF Main, Thread, Uci
  <2>2. ASSUME NEW t \in Thread, t \in stateWait[t] PROVE ~searching[t] /\ ~shutdownReq[t]
    <3>1. \/ t = t /\ pc[t] = "park" /\ ~searching[t] /\ ~shutdownReq[t]
          \/ t = Main /\ t # Main
          \/ t = Uci
      BY <1>1, <2>2, Zenon DEF ParkInv, Sleepers
    <3> QED  BY <2>1, <3>1, Zenon
  <2>3. ASSUME NEW t \in Thread, NEW a \in stateWait[t], a # t
        PROVE  searching[t] \/ pc[t] = "notify"
    BY <1>1, <2>3, Zenon DEF ParkInv, Sleepers
  <2>4. ASSUME NEW t \in Thread, stateWait[t] \ {t} # {}
        PROVE  searching[t] \/ pc[t] = "notify"
    <3>1. PICK a \in stateWait[t] : a # t
      BY <2>4, Zenon
    <3> QED  BY <2>3, <3>1, Zenon
  <2>5. /\ gateOpen => gateWait = {}
        /\ asleep => \/ pc[Main] = "ponder" /\ pondering
                     \/ pc[Main] = "hold" /\ ~stop[Main]
    BY <1>1, Zenon DEF ParkInv, GateSleepers, MainAsleep
  <2> QED  BY <2>2, <2>4, <2>5, Zenon DEF NoLostWakeup
<1> QED  BY <1>1, ParkInvariant, PTL

\* Resizing keeps option and pool in agreement, happens while all threads are idle
\* and leaves none asleep, after a refused or failed resize too.
THEOREM PoolStaysSafe == Safety => []PoolChangesSafely
<1>1. TypeInv /\ ExclusiveInv /\ ParkInv => OptionMatchesPool
  BY DEF TypeInv, TypeOK, ControlTypes, ExclusiveInv, ThreadStates, ParkInv, PoolThreads,
     OptionMatchesPool, Live, Thread
<1>2. OptionMatchesPool /\ ExclusiveWhenIdle /\ NoLostWakeup => PoolChangesSafely
  BY DEF PoolChangesSafely
<1> QED  BY <1>1, <1>2, AnswerInvariant, ParkInvariant, Exclusive, NobodyLeftAsleep, PTL

-----------------------------------------------------------------------------
(* The gate: helpers search inside the main worker's search.               *)

\* A stop raises the flags before it opens the gate, start_search closes the gate first.
LEMMA GateUciStep ==
  ASSUME TypeInv, ExclusiveInv, AnswerInv, GateInv, UciStep PROVE GateInv'
<1> USE ThreadsAssumption
<1> USE DEF TypeInv, TypeOK, FlagTypes, ControlTypes, ThreadTypes, Thread, Main, Live
<1> USE DEF ExclusiveInv, UciLoops, ShutdownReached, ThreadStates, ScannedIdle, FirstClosed,
            ClosingPcs, Working
<1> USE DEF AnswerInv, ClosedIdle, HelpersAwaited
<1> USE DEF GateInv, StopsRaised, GateClosed, StoppedBeforeRelease, EarlyPcs
<1> USE DEF cmdVars, setupVars, engineVars, gateVars, parkVars, workVars, mainVars, protoVars,
            outputVars, poolVars, outerVars, restVars
<1>1. CASE ScanThread
  BY <1>1 DEF ScanThread, UciGoto, UciPcs, Live, IsSearching
<1>2. CASE ScanEnd
  BY <1>2 DEF ScanEnd, Return, UciGoto, UciPcs
<1>3. CASE Refuse
  BY <1>3 DEF Refuse, Return, UciGoto, UciPcs
<1>4. CASE Arm
  BY <1>4 DEF Arm, CloseGate, UciGoto, UciPcs
<1>5. CASE ConfigureThread
  BY <1>5 DEF ConfigureThread, ClearSnapshot, UciGoto, UciPcs
<1>6. CASE WakeHelper
  BY <1>6 DEF WakeHelper, Wake, NotifyOne, Main
<1>7. CASE WakeMain
  BY <1>7 DEF WakeMain, Wake, NotifyOne, Return, UciGoto, UciPcs, Main
<1>8. CASE SetBoard
  BY <1>8 DEF SetBoard, Return, UciGoto, UciPcs
<1>9. CASE ResetTable
  BY <1>9 DEF ResetTable, Return, UciGoto, UciPcs
<1>10. CASE GrowPool
  <2>1. cmd.n \in 1 .. MaxThreads
    BY DEF WorkTypes, Command
  <2> QED  BY <1>10, <2>1 DEF GrowPool, Return, UciGoto, UciPcs, Command, ThreadPcs, Thread
<1>11. CASE GrowFails
  BY <1>11 DEF GrowFails, Return, UciGoto, UciPcs
<1>12. CASE BeginShrink
  <2>1. cmd.n \in 1 .. MaxThreads
    BY DEF WorkTypes, Command
  <2> QED  BY <1>12, <2>1 DEF BeginShrink, UciGoto, UciPcs, Command
<1>13. CASE StopThread
  BY <1>13 DEF StopThread, RaiseStop, UciGoto, UciPcs
<1>14. CASE EndPonder
  BY <1>14 DEF EndPonder, LeavePondering, Return, UciGoto, UciPcs
<1>15. CASE OpenGate
  BY <1>15 DEF OpenGate, ReleaseHelpers, Return, UciGoto, UciPcs
<1>16. CASE ShutdownStop
  BY <1>16 DEF ShutdownStop, RaiseStop, UciGoto, UciPcs
<1>17. CASE ShutdownWait
  BY <1>17 DEF ShutdownWait, UciGoto, UciPcs, Uci, MustAwait
<1>18. CASE ShutdownSet
  <2>1. cmd.n \in 1 .. MaxThreads
    BY DEF WorkTypes, Command
  <2> QED  BY <1>18, <2>1 DEF ShutdownSet, NotifyOne, UciGoto, UciPcs, Command
<1>19. CASE JoinThread
  <2>1. cmd.n \in 1 .. MaxThreads
    BY DEF WorkTypes, Command
  <2> QED  BY <1>19, <2>1 DEF JoinThread, Goto, ThreadPcs, UciGoto, UciPcs, Return, Command
<1> QED
  BY <1>1, <1>2, <1>3, <1>4, <1>5, <1>6, <1>7, <1>8, <1>9, <1>10, <1>11, <1>12, <1>13, <1>14,
     <1>15, <1>16, <1>17, <1>18, <1>19 DEF UciStep

\* The main worker opens the gate when it is past the generation.
LEMMA GateMainStep ==
  ASSUME TypeInv, ExclusiveInv, AnswerInv, GateInv, MainStep PROVE GateInv'
<1> USE ThreadsAssumption
<1> USE DEF TypeInv, TypeOK, FlagTypes, ControlTypes, ThreadTypes, Thread, Main, Live
<1> USE DEF ExclusiveInv, UciLoops, ShutdownReached, ThreadStates, ScannedIdle, FirstClosed,
            ClosingPcs, Working
<1> USE DEF AnswerInv, ClosedIdle, HelpersAwaited
<1> USE DEF GateInv, StopsRaised, GateClosed, StoppedBeforeRelease, EarlyPcs
<1> USE DEF cmdVars, setupVars, engineVars, gateVars, parkVars, workVars, mainVars, protoVars,
            outputVars, poolVars, outerVars, restVars
<1>1. CASE AdvanceGeneration
  BY <1>1 DEF AdvanceGeneration, Goto, ThreadPcs
<1>2. CASE Release
  BY <1>2 DEF Release, ReleaseHelpers, Goto, ThreadPcs
<1>3. CASE PollLimits
  BY <1>3 DEF PollLimits, Goto, ThreadPcs
<1>4. CASE PollStop
  BY <1>4 DEF PollStop, RaiseStop, Goto, ThreadPcs
<1>5. CASE PollEndPonder
  BY <1>5 DEF PollEndPonder, LeavePondering, Goto, ThreadPcs
<1>6. CASE PollOpenGate
  BY <1>6 DEF PollOpenGate, ReleaseHelpers, Goto, ThreadPcs
<1>7. CASE HoldPonder
  BY <1>7 DEF HoldPonder, Goto, ThreadPcs
<1>8. CASE HoldInfinite
  BY <1>8 DEF HoldInfinite, Goto, ThreadPcs
<1>9. CASE StopHelper
  BY <1>9 DEF StopHelper, RaiseStop, Goto, ThreadPcs
<1>10. CASE AwaitHelper
  BY <1>10 DEF AwaitHelper, Goto, ThreadPcs, MustAwait
<1>11. ASSUME NEW sel \in Line, Select(sel)
      PROVE GateInv'
  <2>1. pc[Main] = "select" /\ pc' = [pc EXCEPT ![Main] = "publish"]
    BY <1>11 DEF Select, Goto
  <2>2. UNCHANGED <<outerVars, parkVars, stop, mi, asleep>>
    BY <1>11 DEF Select
  <2> QED  BY <2>1, <2>2 DEF ThreadPcs
<1> QED
  BY <1>1, <1>2, <1>3, <1>4, <1>5, <1>6, <1>7, <1>8, <1>9, <1>10, <1>11 DEF MainStep

\* A helper gets past the gate when it is open, and to a depth when it is not stopped.
LEMMA GateThreadStep ==
  ASSUME TypeInv, ExclusiveInv, AnswerInv, GateInv, NEW t \in Thread, ThreadStep(t)
  PROVE GateInv'
<1> USE ThreadsAssumption
<1> USE DEF TypeInv, TypeOK, FlagTypes, ControlTypes, ThreadTypes, Thread, Main, Live
<1> USE DEF ExclusiveInv, UciLoops, ShutdownReached, ThreadStates, ScannedIdle, FirstClosed,
            ClosingPcs, Working
<1> USE DEF AnswerInv, ClosedIdle, HelpersAwaited
<1> USE DEF GateInv, StopsRaised, GateClosed, StoppedBeforeRelease, EarlyPcs
<1> USE DEF cmdVars, setupVars, engineVars, gateVars, parkVars, workVars, mainVars, protoVars,
            outputVars, poolVars, outerVars, restVars
<1>1. CASE Park(t)
  BY <1>1 DEF Park, Goto, ThreadPcs
<1>2. CASE StartSearch(t)
  BY <1>2 DEF StartSearch, Goto, ThreadPcs
<1>3. CASE BuildRootLines(t)
  <2>1. StopsRaised'
    BY <1>3 DEF BuildRootLines, Goto, ThreadPcs
  <2>2. GateClosed'
    BY <1>3 DEF BuildRootLines, Goto, ThreadPcs
  <2>3. StoppedBeforeRelease'
    <3>1. /\ UNCHANGED <<searching, gateOpen, stop>>
          /\ pc[t] = "build" /\ pc' = [pc EXCEPT ![t] = pc'[t]]
          /\ pc'[t] \in {"deepen", "ponder", "finalize"}
      BY <1>3 DEF BuildRootLines, Goto
    <3> QED  BY <3>1
  <2> QED  BY <2>1, <2>2, <2>3
<1>4. CASE NextDepth(t)
  BY <1>4 DEF NextDepth, Goto, ThreadPcs, DepthLeft
<1>5. CASE AbandonDepth(t)
  BY <1>5 DEF AbandonDepth, Goto, ThreadPcs
<1>6. CASE Finalize(t)
  BY <1>6 DEF Finalize, Goto, ThreadPcs
<1>7. CASE Publish(t)
  BY <1>7 DEF Publish, Goto, ThreadPcs
<1>8. CASE Unlock(t)
  <2>1. t = Main => \A u \in Thread \ {Main} : ~searching[u]
    BY <1>8 DEF Unlock, ThreadPcs
  <2>2. \A u \in Thread : pc[u] \in {"build", "deepen", "depth"} => searching[u]
    BY DEF ThreadPcs
  <2> QED  BY <1>8, <2>1, <2>2 DEF Unlock, GoIdle, Goto, ThreadPcs
<1>9. CASE Notify(t)
  BY <1>9 DEF Notify, NotifyAll, Goto, ThreadPcs
<1>10. CASE PassGate(t) /\ t # Main
  BY SMTT(30), <1>10 DEF PassGate, Goto, ThreadPcs
<1>11. ASSUME NEW m \in Moves, NEW v \in Scores, CompleteDepth(t, m, v)
      PROVE GateInv'
  BY <1>11 DEF CompleteDepth, Goto, ThreadPcs
<1> QED
  BY <1>1, <1>2, <1>3, <1>4, <1>5, <1>6, <1>7, <1>8, <1>9, <1>10, <1>11,
     GateMainStep DEF ThreadStep

\* A stop starts with the first flag.
LEMMA GateOtherStep ==
  ASSUME TypeInv, ExclusiveInv, AnswerInv, GateInv, Next, ~UciStep,
     \A t \in Thread : ~ThreadStep(t) PROVE GateInv'
<1> USE ThreadsAssumption
<1> USE DEF TypeInv, TypeOK, FlagTypes, ControlTypes, ThreadTypes, Thread, Main, Live
<1> USE DEF ExclusiveInv, UciLoops, ShutdownReached, ThreadStates, ScannedIdle, FirstClosed,
            ClosingPcs, Working
<1> USE DEF AnswerInv, ClosedIdle, HelpersAwaited
<1> USE DEF GateInv, StopsRaised, GateClosed, StoppedBeforeRelease, EarlyPcs
<1> USE DEF cmdVars, setupVars, engineVars, gateVars, parkVars, workVars, mainVars, protoVars,
            outputVars, poolVars, outerVars, restVars
<1>1. ASSUME NEW c \in Commands, ReadCommand(c)
      PROVE GateInv'
  BY <1>1 DEF ReadCommand, EntryPoint, UciGoto, UciPcs, Command, Kinds
<1>2. ASSUME NEW t \in Thread, NEW a \in 0 .. MaxThreads, SpuriousWake(t, a)
      PROVE GateInv'
  BY <1>2 DEF SpuriousWake, Thread
<1>3. ASSUME NEW t \in Thread, SpuriousGateWake(t)
      PROVE GateInv'
  BY <1>3 DEF SpuriousGateWake, Thread
<1>4. CASE Terminated
  BY <1>4 DEF Terminated, vars
<1> QED
  BY <1>1, <1>2, <1>3, <1>4 DEF Next

\* At the start no stop is under way and no helper works.
LEMMA GateInit == TypeInv /\ Init => GateInv
<1> SUFFICES ASSUME TypeInv, Init PROVE GateInv
  OBVIOUS
<1>1. /\ upc = "read" /\ gateOpen = FALSE
      /\ \A t \in Thread : pc[t] \in {"park", "none"}
  BY DEF Init
<1> QED
  BY <1>1 DEF GateInv, StopsRaised, GateClosed, StoppedBeforeRelease

\* GateInv is inductive with the invariants before it.
LEMMA GateStep ==
  TypeInv /\ ExclusiveInv /\ AnswerInv /\ GateInv /\ [Next]_vars
    => GateInv'
<1> SUFFICES ASSUME TypeInv, ExclusiveInv, AnswerInv, GateInv, [Next]_vars
             PROVE  GateInv'
  OBVIOUS
<1>1. CASE UNCHANGED vars
  BY <1>1 DEF GateInv, StopsRaised, GateClosed, StoppedBeforeRelease, vars, cmdVars, setupVars, engineVars, gateVars, parkVars, workVars, mainVars, protoVars,
     outputVars, poolVars, restVars
<1>2. CASE UciStep
  BY <1>2, GateUciStep
<1>3. ASSUME NEW t \in Thread, ThreadStep(t) PROVE GateInv'
  BY <1>3, GateThreadStep
<1>4. CASE Next /\ ~UciStep /\ \A t \in Thread : ~ThreadStep(t)
  BY <1>4, GateOtherStep
<1> QED  BY <1>1, <1>2, <1>3, <1>4

\* GateInv holds in every reachable state.
THEOREM GateInvariant == Safety => []GateInv
<1>1. Init => TypeInv /\ GateInv
  BY InitTypes, GateInit
<1>2. TypeInv /\ ExclusiveInv /\ AnswerInv /\ GateInv /\ [Next]_vars => GateInv'
  BY GateStep
<1> QED  BY <1>1, <1>2, AnswerInvariant, PTL DEF Safety

\* Helpers search neither before the main worker advanced the generation nor after
\* it began to select the answer.
THEOREM HelpersInside == Safety => []HelpersInsideMainSearch
<1>1. TypeInv /\ ExclusiveInv /\ AnswerInv /\ GateInv => HelpersInsideMainSearch
  <2> SUFFICES ASSUME TypeInv, ExclusiveInv, AnswerInv, GateInv
               PROVE  HelpersInsideMainSearch
    OBVIOUS
  <2>1. Main \in Thread
    BY ThreadsAssumption DEF Main, Thread
  <2>2. pc \in [Thread -> ThreadPcs]
    BY Zenon DEF TypeInv, TypeOK, ThreadTypes
  <2>3. pc[Main] \in ThreadPcs
    BY <2>1, <2>2
  <2>4. \A t \in Thread : pc[t] \in {"depth", "select", "publish", "unlock"} => searching[t]
    BY DEF ExclusiveInv, ThreadStates, Working, ThreadPcs
  <2>5. ASSUME NEW t \in Thread \ {Main}, pc[t] = "depth"
        PROVE  pc[Main] \notin EarlyPcs /\ pc[Main] \notin {"select", "publish", "unlock"}
    <3>1. pc[Main] \notin EarlyPcs
      BY <2>5 DEF GateInv, StoppedBeforeRelease
    <3>2. pc[Main] \notin {"select", "publish", "unlock"}
      BY <2>1, <2>4, <2>5 DEF AnswerInv, HelpersAwaited
    <3> QED  BY <3>1, <3>2
  <2>6. ThreadPcs \ (EarlyPcs \cup {"select", "publish", "unlock"}) \subseteq
          {"release", "build", "deepen", "depth", "pollflags", "pollponder", "pollgate",
           "ponder", "hold", "finalize", "hstop", "hwait"}
    BY Zenon DEF ThreadPcs, EarlyPcs
  <2> QED  BY <2>3, <2>5, <2>6 DEF HelpersInsideMainSearch
<1> QED  BY <1>1, AnswerInvariant, GateInvariant, PTL

-----------------------------------------------------------------------------
(* SearchPool implements UciSession.  On the way: what the workers hand to   *)
(* the selection is of this search and is what it claims, and the selection  *)
(* misses none.                                                              *)

\* While start_search configures and wakes the threads the main worker is idle.
LEMMA IdleWhileStarting ==
  ASSUME TypeInv, ExclusiveInv, AnswerInv, upc \in {"arm", "configure", "wake"}
  PROVE ~searching[Main] /\ pc[Main] \notin Working
BY ThreadsAssumption DEF TypeInv, TypeOK, ControlTypes, ThreadTypes, Thread, Main, ExclusiveInv,
   UciLoops, ThreadStates, ScannedIdle, AnswerInv, HelpersAwaited

\* Every request asks for at least one depth.
LEMMA RequestedDepth ==
  ASSUME TypeInv, NEW t \in Thread
  PROVE job[t].lim.depth \in 1 .. MaxDepth
BY DEF TypeInv, TypeOK, WorkTypes, Job, Limits

\* No helper skips the first depth.
LEMMA FirstDepthSearched == ASSUME NEW t PROVE ShouldSearchRootDepth(t, 1)
BY DEF ShouldSearchRootDepth

\* An answer is owed while the main worker searches, up to its bestmove.
LEMMA OwedWhileSearching ==
  ASSUME TypeInv, AnswerInv PROVE Owed <=> searching[Main] /\ pc[Main] # "unlock"
BY DEF TypeInv, TypeOK, ControlTypes, AnswerInv, AnswerOwed, Answering, Owed

-----------------------------------------------------------------------------
(* The request: every thread is configured for it before one is woken.     *)

\* start_search configures the threads one after the other while none works.
LEMMA JobUciStep ==
  ASSUME TypeInv, ExclusiveInv, AnswerInv, ParkInv, JobInv, UciStep PROVE JobInv'
<1> USE ThreadsAssumption
<1> USE DEF TypeInv, TypeOK, ControlTypes, ThreadTypes, Thread, Main, Live
<1> USE DEF ExclusiveInv, UciLoops, ShutdownReached, ThreadStates, ScannedIdle, FirstClosed,
            ClosingPcs, Working
<1> USE DEF AnswerInv, ClosedIdle, HelpersAwaited, ParkInv, ShrinkIdle
<1> USE DEF JobInv, RequestArmed, SameJob, Configured
<1> USE DEF cmdVars, setupVars, engineVars, gateVars, parkVars, workVars, mainVars, protoVars,
            outputVars, poolVars, outerVars, restVars
<1>1. CASE ScanThread
  BY <1>1 DEF ScanThread, UciGoto, UciPcs, Live, IsSearching
<1>2. CASE ScanEnd
  BY <1>2 DEF ScanEnd, Return, UciGoto, UciPcs
<1>3. CASE Refuse
  BY <1>3 DEF Refuse, Return, UciGoto, UciPcs
<1>4. CASE Arm
  BY <1>4 DEF Arm, CloseGate, UciGoto, UciPcs
<1>5. CASE ConfigureThread
  <2>1. /\ ui \in Thread /\ ui < size /\ upc = "configure" /\ upc' \in {"configure", "wake"}
        /\ upc' = "configure" => ui' = ui + 1
        /\ upc' = "wake" => size <= ui + 1
    BY <1>5 DEF ConfigureThread, UciGoto
  <2>2. /\ job' = [job EXCEPT ![ui] = [pos |-> board, lim |-> cmd.lim]]
        /\ stop' = [stop EXCEPT ![ui] = FALSE]
        /\ UNCHANGED <<cmd, board, size, pondering, searching>>
    BY <1>5 DEF ConfigureThread
  <2>3. ASSUME NEW u \in Thread, Configured(u)'
        PROVE  ~stop'[u] /\ job'[u] = [pos |-> board, lim |-> cmd.lim]
    <3>1. u = ui \/ Configured(u)
      BY <2>1, <2>2, <2>3
    <3> QED  BY <2>1, <2>2, <3>1 DEF WorkTypes
  <2>4. RequestArmed'
    BY <2>1, <2>2, <2>3
  <2>5. SameJob'
    BY <2>2, IdleWhileStarting, <2>1
  <2> QED  BY <2>4, <2>5
<1>6. CASE WakeHelper
  BY <1>6 DEF WakeHelper, Wake, NotifyOne, Main
<1>7. CASE WakeMain
  BY <1>7 DEF WakeMain, Wake, NotifyOne, Return, UciGoto, UciPcs, Main
<1>8. CASE SetBoard
  BY <1>8 DEF SetBoard, Return, UciGoto, UciPcs
<1>9. CASE ResetTable
  BY <1>9 DEF ResetTable, Return, UciGoto, UciPcs
<1>10. CASE GrowPool
  <2>1. cmd.n \in 1 .. MaxThreads
    BY DEF WorkTypes, Command
  <2>2. RequestArmed'
    BY <1>10, <2>1 DEF GrowPool, Return, UciGoto, UciPcs, Command, ThreadPcs, Thread
  <2>3. SameJob'
    BY <1>10, <2>1 DEF GrowPool, Return, UciGoto, UciPcs, Command, ThreadPcs, Thread
  <2> QED  BY <2>2, <2>3 DEF JobInv
<1>11. CASE GrowFails
  BY <1>11 DEF GrowFails, Return, UciGoto, UciPcs
<1>12. CASE BeginShrink
  <2>1. cmd.n \in 1 .. MaxThreads
    BY DEF WorkTypes, Command
  <2> QED  BY <1>12, <2>1 DEF BeginShrink, UciGoto, UciPcs, Command
<1>13. CASE StopThread
  BY <1>13 DEF StopThread, RaiseStop, UciGoto, UciPcs
<1>14. CASE EndPonder
  BY <1>14 DEF EndPonder, LeavePondering, Return, UciGoto, UciPcs
<1>15. CASE OpenGate
  BY <1>15 DEF OpenGate, ReleaseHelpers, Return, UciGoto, UciPcs
<1>16. CASE ShutdownStop
  BY <1>16 DEF ShutdownStop, RaiseStop, UciGoto, UciPcs
<1>17. CASE ShutdownWait
  BY <1>17 DEF ShutdownWait, UciGoto, UciPcs, Uci, MustAwait
<1>18. CASE ShutdownSet
  <2>1. cmd.n \in 1 .. MaxThreads
    BY DEF WorkTypes, Command
  <2> QED  BY <1>18, <2>1 DEF ShutdownSet, NotifyOne, UciGoto, UciPcs, Command
<1>19. CASE JoinThread
  <2>1. cmd.n \in 1 .. MaxThreads
    BY DEF WorkTypes, Command
  <2> QED  BY <1>19, <2>1 DEF JoinThread, Goto, ThreadPcs, UciGoto, UciPcs, Return, Command
<1> QED
  BY <1>1, <1>2, <1>3, <1>4, <1>5, <1>6, <1>7, <1>8, <1>9, <1>10, <1>11, <1>12, <1>13, <1>14,
     <1>15, <1>16, <1>17, <1>18, <1>19 DEF UciStep

\* The main worker leaves request and flags of start_search alone.
LEMMA JobMainStep ==
  ASSUME TypeInv, ExclusiveInv, AnswerInv, ParkInv, JobInv, MainStep PROVE JobInv'
<1> USE ThreadsAssumption
<1> USE DEF TypeInv, TypeOK, ControlTypes, ThreadTypes, Thread, Main, Live
<1> USE DEF ExclusiveInv, UciLoops, ShutdownReached, ThreadStates, ScannedIdle, FirstClosed,
            ClosingPcs, Working
<1> USE DEF AnswerInv, ClosedIdle, HelpersAwaited, ParkInv, ShrinkIdle
<1> USE DEF JobInv, RequestArmed, SameJob, Configured
<1> USE DEF cmdVars, setupVars, engineVars, gateVars, parkVars, workVars, mainVars, protoVars,
            outputVars, poolVars, outerVars, restVars
<1>1. CASE AdvanceGeneration
  BY <1>1 DEF AdvanceGeneration, Goto, ThreadPcs
<1>2. CASE Release
  BY <1>2 DEF Release, ReleaseHelpers, Goto, ThreadPcs
<1>3. CASE PollLimits
  BY <1>3 DEF PollLimits, Goto, ThreadPcs
<1>4. CASE PollStop
  BY <1>4, IdleWhileStarting DEF PollStop, RaiseStop, Goto, ThreadPcs
<1>5. CASE PollEndPonder
  BY <1>5, IdleWhileStarting DEF PollEndPonder, LeavePondering, Goto, ThreadPcs
<1>6. CASE PollOpenGate
  BY <1>6 DEF PollOpenGate, ReleaseHelpers, Goto, ThreadPcs
<1>7. CASE HoldPonder
  BY <1>7 DEF HoldPonder, Goto, ThreadPcs
<1>8. CASE HoldInfinite
  BY <1>8 DEF HoldInfinite, Goto, ThreadPcs
<1>9. CASE StopHelper
  BY <1>9, IdleWhileStarting DEF StopHelper, RaiseStop, Goto, ThreadPcs
<1>10. CASE AwaitHelper
  BY <1>10 DEF AwaitHelper, Goto, ThreadPcs, MustAwait
<1>11. ASSUME NEW sel \in Line, Select(sel)
      PROVE JobInv'
  <2>1. pc[Main] = "select" /\ pc' = [pc EXCEPT ![Main] = "publish"]
    BY <1>11 DEF Select, Goto
  <2>2. UNCHANGED <<outerVars, parkVars, stop, job>>
    BY <1>11 DEF Select
  <2> QED  BY <2>1, <2>2 DEF ThreadPcs
<1> QED
  BY <1>1, <1>2, <1>3, <1>4, <1>5, <1>6, <1>7, <1>8, <1>9, <1>10, <1>11 DEF MainStep

\* A thread works for the request it was given.
LEMMA JobThreadStep ==
  ASSUME TypeInv, ExclusiveInv, AnswerInv, ParkInv, JobInv, NEW t \in Thread, ThreadStep(t)
  PROVE JobInv'
<1> USE ThreadsAssumption
<1> USE DEF TypeInv, TypeOK, ControlTypes, ThreadTypes, Thread, Main, Live
<1> USE DEF ExclusiveInv, UciLoops, ShutdownReached, ThreadStates, ScannedIdle, FirstClosed,
            ClosingPcs, Working
<1> USE DEF AnswerInv, ClosedIdle, HelpersAwaited, ParkInv, ShrinkIdle
<1> USE DEF JobInv, RequestArmed, SameJob, Configured
<1> USE DEF cmdVars, setupVars, engineVars, gateVars, parkVars, workVars, mainVars, protoVars,
            outputVars, poolVars, outerVars, restVars
<1>1. CASE Park(t)
  BY <1>1 DEF Park, Goto, ThreadPcs
<1>2. CASE StartSearch(t)
  BY <1>2 DEF StartSearch, Goto, ThreadPcs
<1>3. CASE BuildRootLines(t)
  BY <1>3 DEF BuildRootLines, Goto, ThreadPcs
<1>4. CASE NextDepth(t)
  BY <1>4 DEF NextDepth, Goto, ThreadPcs
<1>5. CASE AbandonDepth(t)
  BY <1>5 DEF AbandonDepth, Goto, ThreadPcs
<1>6. CASE Finalize(t)
  BY <1>6 DEF Finalize, Goto, ThreadPcs
<1>7. CASE Publish(t)
  BY <1>7 DEF Publish, Goto, ThreadPcs
<1>8. CASE Unlock(t)
  BY <1>8, IdleWhileStarting DEF Unlock, GoIdle, Goto, ThreadPcs
<1>9. CASE Notify(t)
  BY <1>9 DEF Notify, NotifyAll, Goto, ThreadPcs
<1>10. CASE PassGate(t) /\ t # Main
  BY <1>10 DEF PassGate, Goto, ThreadPcs
<1>11. ASSUME NEW m \in Moves, NEW v \in Scores, CompleteDepth(t, m, v)
      PROVE JobInv'
  BY <1>11 DEF CompleteDepth, Goto, ThreadPcs
<1> QED
  BY <1>1, <1>2, <1>3, <1>4, <1>5, <1>6, <1>7, <1>8, <1>9, <1>10, <1>11,
     JobMainStep DEF ThreadStep

\* A command brings a request that nobody is configured for.
LEMMA JobOtherStep ==
  ASSUME TypeInv, ExclusiveInv, AnswerInv, ParkInv, JobInv, Next, ~UciStep,
     \A t \in Thread : ~ThreadStep(t) PROVE JobInv'
<1> USE ThreadsAssumption
<1> USE DEF TypeInv, TypeOK, ControlTypes, ThreadTypes, Thread, Main, Live
<1> USE DEF ExclusiveInv, UciLoops, ShutdownReached, ThreadStates, ScannedIdle, FirstClosed,
            ClosingPcs, Working
<1> USE DEF AnswerInv, ClosedIdle, HelpersAwaited, ParkInv, ShrinkIdle
<1> USE DEF JobInv, RequestArmed, SameJob, Configured
<1> USE DEF cmdVars, setupVars, engineVars, gateVars, parkVars, workVars, mainVars, protoVars,
            outputVars, poolVars, outerVars, restVars
<1>1. ASSUME NEW c \in Commands, ReadCommand(c)
      PROVE JobInv'
  BY <1>1 DEF ReadCommand, EntryPoint, UciGoto, UciPcs, Command, Kinds
<1>2. ASSUME NEW t \in Thread, NEW a \in 0 .. MaxThreads, SpuriousWake(t, a)
      PROVE JobInv'
  BY <1>2 DEF SpuriousWake, Thread
<1>3. ASSUME NEW t \in Thread, SpuriousGateWake(t)
      PROVE JobInv'
  BY <1>3 DEF SpuriousGateWake, Thread
<1>4. CASE Terminated
  BY <1>4 DEF Terminated, vars
<1> QED
  BY <1>1, <1>2, <1>3, <1>4 DEF Next

\* At the start nothing is requested.
LEMMA JobInit == TypeInv /\ Init => JobInv
<1>1. Init => upc = "read" /\ \A t \in Thread : ~searching[t]
  BY DEF Init
<1>2. Main \in Thread
  BY ThreadsAssumption DEF Main, Thread
<1> QED  BY <1>1, <1>2 DEF JobInv, RequestArmed, SameJob, Configured

\* JobInv is inductive with the invariants before it.
LEMMA JobStep ==
  TypeInv /\ ExclusiveInv /\ AnswerInv /\ ParkInv /\ JobInv /\ [Next]_vars
    => JobInv'
<1> SUFFICES ASSUME TypeInv, ExclusiveInv, AnswerInv, ParkInv, JobInv, [Next]_vars
             PROVE  JobInv'
  OBVIOUS
<1>1. CASE UNCHANGED vars
  BY <1>1 DEF JobInv, RequestArmed, SameJob, Configured, vars, cmdVars, setupVars, engineVars, gateVars, parkVars, workVars, mainVars, protoVars,
     outputVars, poolVars, restVars
<1>2. CASE UciStep
  BY <1>2, JobUciStep
<1>3. ASSUME NEW t \in Thread, ThreadStep(t) PROVE JobInv'
  BY <1>3, JobThreadStep
<1>4. CASE Next /\ ~UciStep /\ \A t \in Thread : ~ThreadStep(t)
  BY <1>4, JobOtherStep
<1> QED  BY <1>1, <1>2, <1>3, <1>4

\* JobInv holds in every reachable state.
THEOREM JobInvariant == Safety => []JobInv
<1>1. Init => TypeInv /\ JobInv
  BY InitTypes, JobInit
<1>2. TypeInv /\ ExclusiveInv /\ AnswerInv /\ ParkInv /\ JobInv /\ [Next]_vars => JobInv'
  BY JobStep
<1> QED  BY <1>1, <1>2, AnswerInvariant, ParkInvariant, PTL DEF Safety

-----------------------------------------------------------------------------
(* The workers' lines.                                                     *)

\* A worker's line stays its own while another one works.
LEMMA OtherWorkerLine ==
  ASSUME NEW u \in Thread, WorkerLine(u), pc'[u] = pc[u], job'[u] = job[u],
         rootMoves'[u] = rootMoves[u], depth'[u] = depth[u], result'[u] = result[u]
  PROVE  WorkerLine(u)'
BY DEF WorkerLine, OwnLine

\* What a step of worker t must show of its own line, result and snapshot.
LEMMA WorkerStep ==
  ASSUME TypeInv, ResultInv, NEW t \in Thread,
         UNCHANGED <<upc, ui, size, searching, stop, job>>,
         pc' = [pc EXCEPT ![t] = pc'[t]],
         pc'[t] \notin {"pollflags", "pollponder", "pollgate"},
         t = Main \/ mi' = mi,
         rootMoves' = [rootMoves EXCEPT ![t] = rootMoves'[t]],
         depth' = [depth EXCEPT ![t] = depth'[t]],
         result' = [result EXCEPT ![t] = result'[t]],
         snapshot' = [snapshot EXCEPT ![t] = snapshot'[t]],
         WorkerLine(t)',
         pc'[t] \in {"ponder", "hold", "finalize"} => result'[t].done \/ stop[t],
         snapshot'[t] = snapshot[t] \/ OwnLine(t, snapshot[t])'
  PROVE  ResultInv'
<1> USE ThreadsAssumption DEF TypeInv, TypeOK, ThreadTypes, WorkTypes, ResultInv
<1>1. WorkerLines'
  <2>1. ASSUME NEW u \in Thread, u # t PROVE WorkerLine(u)'
    BY <2>1, OtherWorkerLine DEF WorkerLines
  <2> QED  BY <2>1 DEF WorkerLines
<1>2. LeftWithResult'
  BY DEF LeftWithResult
<1>3. PollStops'
  BY DEF PollStops, Main, Thread
<1>4. SnapshotLines'
  BY DEF SnapshotLines, Configured, OwnLine
<1> QED  BY <1>1, <1>2, <1>3, <1>4

\* A step of thread t that writes no line, and ends before its loop.
LEMMA LinesKept ==
  ASSUME TypeInv, WorkerLines, NEW t \in Thread,
         UNCHANGED <<job, rootMoves, depth, result>>,
         pc' = [pc EXCEPT ![t] = pc'[t]], pc'[t] \notin {"deepen", "depth"},
         pc'[t] \in Working \ {"start"} => pc[t] \in Working \ {"start"},
         pc'[t] \in BuiltPcs => pc[t] \in BuiltPcs
  PROVE  WorkerLines'
<1> USE DEF TypeInv, TypeOK, ThreadTypes
<1>1. ASSUME NEW u \in Thread, u # t PROVE WorkerLine(u)'
  BY <1>1, OtherWorkerLine DEF WorkerLines
<1>2. WorkerLine(t)
  BY DEF WorkerLines
<1>3. WorkerLine(t)'
  BY <1>2 DEF WorkerLine, OwnLine
<1> QED  BY <1>1, <1>3 DEF WorkerLines

\* The main worker's steps outside the search of a depth, but the selection.
MainKeeps ==
  \/ AdvanceGeneration \/ Release
  \/ PollLimits \/ PollStop \/ PollEndPonder \/ PollOpenGate
  \/ HoldPonder \/ HoldInfinite
  \/ StopHelper \/ AwaitHelper

\* They write no line, and lower no stop flag.
LEMMA MainKeepsLines == ASSUME TypeInv, ResultInv, MainKeeps PROVE ResultInv'
<1> USE DEF TypeInv, TypeOK, ThreadTypes
<1> USE DEF outerVars, engineVars, poolVars, parkVars, workVars, mainVars
<1>1. Main \in Thread
  BY ThreadsAssumption DEF Main, Thread
<1>2. UNCHANGED <<upc, ui, size, searching, job, rootMoves, depth, result, snapshot>>
  BY DEF MainKeeps, AdvanceGeneration, Release, PollLimits, PollStop, PollEndPonder, PollOpenGate,
     HoldPonder, HoldInfinite, StopHelper, AwaitHelper
<1>3. pc' = [pc EXCEPT ![Main] = pc'[Main]]
  BY <1>1 DEF MainKeeps, AdvanceGeneration, Release, PollLimits, PollStop, PollEndPonder,
     PollOpenGate, HoldPonder, HoldInfinite, StopHelper, AwaitHelper, Goto
<1>4. \/ pc[Main] = "advance" /\ pc'[Main] = "release"
      \/ pc[Main] = "release" /\ pc'[Main] = "build"
      \/ pc[Main] = "depth" /\ pc'[Main] = "pollflags" /\ mi' = 0
      \/ /\ pc[Main] = "pollflags" /\ stop' = [stop EXCEPT ![mi] = TRUE]
         /\ \/ pc'[Main] = "pollflags" /\ mi' = mi + 1
            \/ pc'[Main] = "pollponder" /\ mi' = 0
      \/ pc[Main] = "pollponder" /\ pc'[Main] = "pollgate" /\ mi' = mi
      \/ pc[Main] = "pollgate" /\ pc'[Main] = "ponder"
      \/ pc[Main] = "ponder" /\ pc'[Main] \in {"ponder", "hold"}
      \/ pc[Main] = "hold" /\ pc'[Main] \in {"hold", "finalize"}
      \/ pc[Main] = "hstop" /\ pc'[Main] \in {"hstop", "hwait"}
      \/ pc[Main] = "hwait" /\ pc'[Main] \in {"hwait", "select"}
  BY <1>1 DEF MainKeeps, AdvanceGeneration, Release, PollLimits, PollStop, PollEndPonder,
     PollOpenGate, HoldPonder, HoldInfinite, StopHelper, AwaitHelper, Goto, RaiseStop
<1>5. \A t \in Thread : stop[t] => stop'[t]
  BY DEF MainKeeps, AdvanceGeneration, Release, PollLimits, PollStop, PollEndPonder, PollOpenGate,
     HoldPonder, HoldInfinite, StopHelper, AwaitHelper, RaiseStop
<1>6. WorkerLines'
  BY <1>1, <1>2, <1>3, <1>4, LinesKept DEF ResultInv, BuiltPcs, Working, ThreadPcs
<1>7. pc[Main] = "pollgate" => stop[Main]
  BY DEF ResultInv, PollStops
<1>8. LeftWithResult'
  <2>1. \A t \in Thread \ {Main} : pc'[t] = pc[t]
    BY <1>1, <1>3
  <2>2. pc'[Main] \in {"ponder", "hold", "finalize"} =>
          stop[Main] \/ pc[Main] \in {"ponder", "hold", "finalize"}
    BY <1>4, <1>7
  <2>3. ASSUME NEW t \in Thread, pc'[t] \in {"ponder", "hold", "finalize"}
        PROVE  stop[t] \/ pc[t] \in {"ponder", "hold", "finalize"}
    BY <2>1, <2>2, <2>3
  <2>4. ASSUME NEW t \in Thread, pc'[t] \in {"ponder", "hold", "finalize"}
        PROVE  result[t].done \/ stop'[t]
    BY <1>5, <2>3, <2>4, Zenon DEF ResultInv, LeftWithResult
  <2> QED  BY <1>2, <2>4, Zenon DEF LeftWithResult
<1>9. PollStops'
  <2>1. mi \in Nat
    BY ThreadsAssumption DEF ControlTypes, Thread
  <2>2. pc[Main] = "pollflags" /\ mi = 0 => stop'[Main]
    BY <1>1, <1>4 DEF Main
  <2> QED  BY <1>1, <1>4, <1>5, <2>1, <2>2 DEF ResultInv, PollStops
<1>10. SnapshotLines'
  BY <1>2 DEF ResultInv, SnapshotLines, Configured, OwnLine
<1> QED  BY <1>6, <1>8, <1>9, <1>10 DEF ResultInv

\* A thread's steps outside the search write no line either, and a thread that
\* falls idle leaves the snapshots of the others to the search that goes on.
LEMMA ThreadKeepsLines ==
  ASSUME TypeInv, ResultInv, NEW t \in Thread,
         \/ Park(t) \/ AbandonDepth(t) \/ Publish(t)
         \/ Unlock(t) \/ Notify(t) \/ (PassGate(t) /\ t # Main)
  PROVE  ResultInv'
<1> USE DEF TypeInv, TypeOK, ThreadTypes
<1> USE DEF outerVars, engineVars, poolVars, parkVars, workVars, mainVars
<1>1. UNCHANGED <<upc, ui, size, stop, job, mi, rootMoves, depth, result, snapshot>>
  BY DEF Park, AbandonDepth, Publish, Unlock, Notify, PassGate
<1>2. pc' = [pc EXCEPT ![t] = pc'[t]]
  BY DEF Park, AbandonDepth, Publish, Unlock, Notify, PassGate, Goto
<1>3. \/ pc[t] = "park" /\ pc'[t] \in {"park", "start", "exited"}
      \/ pc[t] = "depth" /\ pc'[t] \in {"ponder", "finalize"} /\ stop[t]
      \/ pc[t] = "publish" /\ pc'[t] = "unlock"
      \/ pc[t] = "unlock" /\ pc'[t] = "notify"
      \/ pc[t] = "notify" /\ pc'[t] = "park"
      \/ pc[t] = "gate" /\ pc'[t] \in {"gate", "build"}
  BY DEF Park, AbandonDepth, Publish, Unlock, Notify, PassGate, Goto
<1>4. searching'[Main] => searching[Main]
  <2>1. searching' = searching \/ searching' = [searching EXCEPT ![t] = FALSE]
    BY DEF Park, AbandonDepth, Publish, Unlock, GoIdle, Notify, PassGate
  <2>2. Main \in Thread
    BY ThreadsAssumption DEF Main, Thread
  <2> QED  BY <2>1, <2>2
<1>5. WorkerLines'
  BY <1>1, <1>2, <1>3, LinesKept DEF ResultInv, BuiltPcs, Working, ThreadPcs
<1>6. LeftWithResult'
  <2>1. ASSUME NEW u \in Thread, pc'[u] \in {"ponder", "hold", "finalize"}
        PROVE  stop[u] \/ pc[u] \in {"ponder", "hold", "finalize"}
    BY <1>2, <1>3, <2>1
  <2>2. ASSUME NEW u \in Thread, pc'[u] \in {"ponder", "hold", "finalize"}
        PROVE  result[u].done \/ stop[u]
    BY <2>1, <2>2, Zenon DEF ResultInv, LeftWithResult
  <2> QED  BY <1>1, <2>2, Zenon DEF LeftWithResult
<1>7. PollStops'
  <2>1. CASE t = Main
    BY <1>3, <2>1 DEF PollStops
  <2>2. CASE t # Main
    <3>1. pc'[Main] = pc[Main]
      BY <1>2, <2>2, ThreadsAssumption DEF Main, Thread
    <3> QED  BY <1>1, <3>1 DEF ResultInv, PollStops
  <2> QED  BY <2>1, <2>2
<1>8. SnapshotLines'
  BY <1>1, <1>4 DEF ResultInv, SnapshotLines, Configured, OwnLine
<1> QED  BY <1>5, <1>6, <1>7, <1>8 DEF ResultInv

\* reset_search_state leaves no line.
LEMMA StartSearchLines ==
  ASSUME TypeInv, ResultInv, NEW t \in Thread, StartSearch(t) PROVE ResultInv'
<1> USE DEF TypeInv, TypeOK, ThreadTypes, WorkTypes, outerVars, engineVars, poolVars, parkVars
<1>1. /\ UNCHANGED <<upc, ui, size, searching, stop, job, mi, depth, snapshot>>
      /\ pc' = [pc EXCEPT ![t] = pc'[t]] /\ pc'[t] \in {"advance", "gate"}
      /\ rootMoves' = [rootMoves EXCEPT ![t] = rootMoves'[t]]
      /\ result' = [result EXCEPT ![t] = NoLine]
  BY DEF StartSearch, Goto
<1>2. WorkerLine(t)'
  BY <1>1, RequestedDepth DEF WorkerLine, OwnLine, NoLine, BuiltPcs
<1> QED  BY <1>1, <1>2, WorkerStep

\* build_root_lines lists the candidates; a terminal root is a result.
LEMMA BuildRootLinesLines ==
  ASSUME TypeInv, ResultInv, NEW t \in Thread, BuildRootLines(t) PROVE ResultInv'
<1> USE DEF TypeInv, TypeOK, ThreadTypes, WorkTypes, outerVars, engineVars, poolVars, parkVars, mainVars
<1>1. /\ UNCHANGED <<upc, ui, size, searching, stop, job, mi, snapshot>>
      /\ pc[t] = "build" /\ pc' = [pc EXCEPT ![t] = pc'[t]]
      /\ pc'[t] \in {"deepen", "ponder", "finalize"}
      /\ rootMoves' = [rootMoves EXCEPT ![t] = Candidates(job[t])]
      /\ depth' = [depth EXCEPT ![t] = 1]
  BY DEF BuildRootLines, Goto
<1>2. /\ result' = [result EXCEPT ![t] = result'[t]]
      /\ \/ result'[t] = result[t] /\ pc'[t] = "deepen"
         \/ result'[t].done /\ result'[t].move = NullMove /\ result'[t].depth = 0
  BY DEF BuildRootLines, Goto, NoLine
<1>3. WorkerLine(t)'
  <2>1. OwnLine(t, result[t])'
    <3>1. OwnLine(t, result[t])
      BY <1>1 DEF ResultInv, WorkerLines, WorkerLine, Working, ThreadPcs
    <3> QED  BY <1>1, <1>2, <3>1, RequestedDepth DEF OwnLine
  <2> QED  BY <1>1, <2>1 DEF WorkerLine, BuiltPcs
<1> QED  BY <1>1, <1>2, <1>3, WorkerStep

\* search_root's loop goes on to a depth of the request, and ends with a result
\* or stopped.
LEMMA NextDepthLines ==
  ASSUME TypeInv, ResultInv, NEW t \in Thread, NextDepth(t) PROVE ResultInv'
<1> USE DEF TypeInv, TypeOK, ThreadTypes, WorkTypes, outerVars, engineVars, poolVars, parkVars, mainVars
<1>1. /\ UNCHANGED <<upc, ui, size, searching, stop, job, mi, rootMoves, result, snapshot>>
      /\ pc[t] = "deepen" /\ pc' = [pc EXCEPT ![t] = pc'[t]]
      /\ depth' = [depth EXCEPT ![t] = depth'[t]]
  BY DEF NextDepth, Goto
<1>2. \/ pc'[t] \in {"ponder", "finalize"} /\ (job[t].lim.depth < depth[t] \/ stop[t])
      \/ pc'[t] = "depth" /\ depth'[t] = depth[t] /\ depth[t] <= job[t].lim.depth
      \/ pc'[t] = "deepen" /\ depth[t] # 1
  BY RequestedDepth, FirstDepthSearched DEF NextDepth, Goto, DepthLeft
<1>3. depth[t] > 1 => result[t].done
  BY <1>1 DEF ResultInv, WorkerLines, WorkerLine
<1>4. pc'[t] \in {"ponder", "hold", "finalize"} => result'[t].done \/ stop[t]
  BY <1>1, <1>2, <1>3, RequestedDepth
<1>5. OwnLine(t, result[t])' /\ rootMoves'[t] = Candidates(job[t])
  BY <1>1 DEF ResultInv, WorkerLines, WorkerLine, OwnLine, BuiltPcs, Working, ThreadPcs
<1>6. WorkerLine(t)'
  BY <1>1, <1>2, <1>3, <1>5 DEF WorkerLine, BuiltPcs
<1> QED  BY <1>1, <1>2, <1>4, <1>6, WorkerStep

\* A completed depth yields a line of the request.
LEMMA CompleteDepthLines ==
  ASSUME TypeInv, ResultInv, NEW t \in Thread, NEW m \in Moves, NEW v \in Scores,
         CompleteDepth(t, m, v)
  PROVE  ResultInv'
<1> USE DEF TypeInv, TypeOK, ThreadTypes, WorkTypes, outerVars, engineVars, poolVars, parkVars, mainVars
<1>1. /\ UNCHANGED <<upc, ui, size, searching, stop, job, mi, rootMoves>>
      /\ pc[t] = "depth" /\ m \in rootMoves[t] /\ pc' = [pc EXCEPT ![t] = pc'[t]]
      /\ pc'[t] \in {"deepen", "ponder", "finalize"}
      /\ depth' = [depth EXCEPT ![t] = depth'[t]]
  BY DEF CompleteDepth, Goto
<1>2. /\ result' = [result EXCEPT ![t] = result'[t]]
      /\ snapshot' = [snapshot EXCEPT ![t] = result'[t]]
      /\ result'[t].done /\ result'[t].move = m /\ result'[t].depth = depth[t]
  BY DEF CompleteDepth
<1>3. /\ depth[t] <= job[t].lim.depth
      /\ rootMoves[t] = Candidates(job[t])
  BY <1>1 DEF ResultInv, WorkerLines, WorkerLine, BuiltPcs, Working, ThreadPcs
<1>4. OwnLine(t, result[t])' /\ OwnLine(t, snapshot[t])'
  BY <1>1, <1>2, <1>3 DEF OwnLine
<1>5. WorkerLine(t)'
  BY <1>1, <1>2, <1>3, <1>4 DEF WorkerLine
<1> QED  BY <1>1, <1>2, <1>4, <1>5, WorkerStep

\* finalize_root_result has nothing to forge.
LEMMA FinalizeLines ==
  ASSUME TypeInv, ResultInv, NEW t \in Thread, Finalize(t) PROVE ResultInv'
<1> USE DEF TypeInv, TypeOK, ThreadTypes, WorkTypes, outerVars, engineVars, poolVars, parkVars
<1>1. /\ UNCHANGED <<upc, ui, size, searching, stop, job, rootMoves, depth>>
      /\ pc[t] = "finalize" /\ pc' = [pc EXCEPT ![t] = pc'[t]]
      /\ pc'[t] \in {"publish", "hstop", "select"} /\ (t = Main \/ mi' = mi)
  BY DEF Finalize, Goto
<1>2. result[t].done \/ stop[t]
  BY <1>1 DEF ResultInv, LeftWithResult
<1>3. result' = [result EXCEPT ![t] = result[t]] /\ snapshot' = [snapshot EXCEPT ![t] = result[t]]
  BY <1>2 DEF Finalize
<1>4. OwnLine(t, result[t]) /\ rootMoves[t] = Candidates(job[t])
  BY <1>1 DEF ResultInv, WorkerLines, WorkerLine, BuiltPcs, Working, ThreadPcs
<1>5. OwnLine(t, result[t])' /\ OwnLine(t, snapshot[t])'
  BY <1>1, <1>3, <1>4 DEF OwnLine
<1>6. WorkerLine(t)'
  BY <1>1, <1>4, <1>5 DEF WorkerLine
<1> QED  BY <1>1, <1>3, <1>5, <1>6, WorkerStep

\* start_search configures a thread that works for nobody, and clears its snapshot.
LEMMA ConfigureLines ==
  ASSUME TypeInv, ExclusiveInv, AnswerInv, ResultInv, ConfigureThread PROVE ResultInv'
<1> USE ThreadsAssumption
<1> USE DEF TypeInv, TypeOK, ControlTypes, ThreadTypes, WorkTypes, poolVars, parkVars, mainVars
<1>1. /\ upc = "configure" /\ ui \in Thread /\ ui < size
      /\ upc' \in {"configure", "wake"}
      /\ upc' = "configure" => ui' = ui + 1
      /\ upc' = "wake" => size <= ui + 1
      /\ job' = [job EXCEPT ![ui] = [pos |-> board, lim |-> cmd.lim]]
      /\ snapshot' = [snapshot EXCEPT ![ui] = NoLine]
      /\ stop' = [stop EXCEPT ![ui] = FALSE]
      /\ UNCHANGED <<size, searching, pc, mi, rootMoves, depth, result>>
  BY DEF ConfigureThread, ClearSnapshot, UciGoto, ExclusiveInv, UciLoops, Thread
<1>2. ~searching[ui] /\ pc[ui] \notin Working /\ ~searching[Main] /\ pc[Main] \notin Working
  BY <1>1, IdleWhileStarting DEF ExclusiveInv, ScannedIdle, ThreadStates
<1>3. WorkerLines'
  <2>1. ASSUME NEW u \in Thread, u # ui PROVE WorkerLine(u)'
    BY <1>1, <2>1, OtherWorkerLine DEF ResultInv, WorkerLines
  <2>2. ASSUME NEW u \in Thread, u = ui PROVE WorkerLine(u)'
    BY <1>1, <1>2, <2>2 DEF WorkerLine, BuiltPcs, Working, ThreadPcs
  <2> QED  BY <2>1, <2>2 DEF WorkerLines
<1>4. LeftWithResult'
  BY <1>1, <1>2 DEF ResultInv, LeftWithResult, Working, ThreadPcs
<1>5. PollStops'
  BY <1>1, <1>2 DEF PollStops, Working, ThreadPcs
<1>6. ASSUME NEW u \in Thread, Configured(u)'
      PROVE  OwnLine(u, snapshot[u])'
  <2>1. CASE u = ui
    BY <1>1, <2>1, RequestedDepth DEF NoLine, OwnLine, Command, Limits
  <2>2. CASE u # ui
    <3>1. Configured(u)
      BY <1>1, <1>6, <2>2 DEF Configured, Thread
    <3> QED  BY <1>1, <2>2, <3>1 DEF ResultInv, SnapshotLines, OwnLine
  <2> QED  BY <2>1, <2>2
<1>7. SnapshotLines'
  BY <1>1, <1>2, <1>6 DEF SnapshotLines
<1> QED  BY <1>3, <1>4, <1>5, <1>7 DEF ResultInv

\* The selection reads what the workers leave.
LEMMA SelectLines ==
  ASSUME TypeInv, ResultInv, NEW sel \in Line, Select(sel) PROVE ResultInv'
<1> USE ThreadsAssumption DEF TypeInv, TypeOK, ThreadTypes, WorkTypes
<1> USE DEF outerVars, engineVars, poolVars, parkVars, workVars
<1>1. /\ UNCHANGED <<upc, ui, size, searching, stop, job, rootMoves, depth, result, snapshot, mi>>
      /\ pc[Main] = "select" /\ pc' = [pc EXCEPT ![Main] = "publish"]
  BY DEF Select, Goto
<1>2. Main \in Thread
  BY DEF Main, Thread
<1>3. OwnLine(Main, result[Main])' /\ rootMoves[Main] = Candidates(job[Main])
  BY <1>1, <1>2 DEF ResultInv, WorkerLines, WorkerLine, OwnLine, BuiltPcs, Working, ThreadPcs
<1>4. WorkerLine(Main)'
  BY <1>1, <1>2, <1>3 DEF WorkerLine
<1> QED  BY <1>1, <1>2, <1>4, WorkerStep

\* The UCI thread touches lines of idle threads only.
LEMMA ResultUciStep ==
  ASSUME TypeInv, ExclusiveInv, AnswerInv, ParkInv, JobInv, ResultInv, UciStep PROVE ResultInv'
<1> USE ThreadsAssumption
<1> USE DEF TypeInv, TypeOK, ControlTypes, ThreadTypes, Thread, Main, Live
<1> USE DEF ExclusiveInv, UciLoops, ShutdownReached, ThreadStates, ScannedIdle, FirstClosed,
            ClosingPcs, Working
<1> USE DEF AnswerInv, ClosedIdle, HelpersAwaited, ParkInv, ShrinkIdle
<1> USE DEF ResultInv, WorkerLines, WorkerLine, LeftWithResult, PollStops, SnapshotLines, BuiltPcs,
            Configured, OwnLine
<1> USE DEF cmdVars, setupVars, engineVars, gateVars, parkVars, workVars, mainVars, protoVars,
            outputVars, poolVars, outerVars, restVars
<1>1. CASE ScanThread
  BY <1>1 DEF ScanThread, UciGoto, UciPcs, Live, IsSearching
<1>2. CASE ScanEnd
  BY <1>2 DEF ScanEnd, Return, UciGoto, UciPcs
<1>3. CASE Refuse
  BY <1>3 DEF Refuse, Return, UciGoto, UciPcs
<1>4. CASE Arm
  BY <1>4 DEF Arm, CloseGate, UciGoto, UciPcs
<1>5. CASE ConfigureThread
  BY <1>5, ConfigureLines
<1>6. CASE WakeHelper
  BY <1>6 DEF WakeHelper, Wake, NotifyOne, Main
<1>7. CASE WakeMain
  BY <1>7 DEF WakeMain, Wake, NotifyOne, Return, UciGoto, UciPcs, Main
<1>8. CASE SetBoard
  BY <1>8 DEF SetBoard, Return, UciGoto, UciPcs
<1>9. CASE ResetTable
  BY <1>9 DEF ResetTable, Return, UciGoto, UciPcs
<1>10. CASE GrowPool
  <2>1. cmd.n \in 1 .. MaxThreads
    BY DEF WorkTypes, Command
  <2>2. WorkerLines'
    BY <1>10, <2>1 DEF GrowPool, Return, UciGoto, UciPcs, Command, ThreadPcs, Thread
  <2>3. LeftWithResult'
    BY <1>10, <2>1 DEF GrowPool, Return, UciGoto, UciPcs, Command, ThreadPcs, Thread
  <2>4. PollStops'
    BY <1>10, <2>1 DEF GrowPool, Return, UciGoto, UciPcs, Command, ThreadPcs, Thread
  <2>5. SnapshotLines'
    BY <1>10, <2>1 DEF GrowPool, Return, UciGoto, UciPcs, Command, ThreadPcs, Thread
  <2> QED  BY <2>2, <2>3, <2>4, <2>5 DEF ResultInv
<1>11. CASE GrowFails
  BY <1>11 DEF GrowFails, Return, UciGoto, UciPcs
<1>12. CASE BeginShrink
  <2>1. cmd.n \in 1 .. MaxThreads
    BY DEF WorkTypes, Command
  <2> QED  BY <1>12, <2>1 DEF BeginShrink, UciGoto, UciPcs, Command
<1>13. CASE StopThread
  BY <1>13 DEF StopThread, RaiseStop, UciGoto, UciPcs
<1>14. CASE EndPonder
  BY <1>14 DEF EndPonder, LeavePondering, Return, UciGoto, UciPcs
<1>15. CASE OpenGate
  BY <1>15 DEF OpenGate, ReleaseHelpers, Return, UciGoto, UciPcs
<1>16. CASE ShutdownStop
  BY <1>16 DEF ShutdownStop, RaiseStop, UciGoto, UciPcs
<1>17. CASE ShutdownWait
  BY <1>17 DEF ShutdownWait, UciGoto, UciPcs, Uci, MustAwait
<1>18. CASE ShutdownSet
  <2>1. cmd.n \in 1 .. MaxThreads
    BY DEF WorkTypes, Command
  <2> QED  BY <1>18, <2>1 DEF ShutdownSet, NotifyOne, UciGoto, UciPcs, Command
<1>19. CASE JoinThread
  <2>1. cmd.n \in 1 .. MaxThreads
    BY DEF WorkTypes, Command
  <2> QED  BY <1>19, <2>1 DEF JoinThread, Goto, ThreadPcs, UciGoto, UciPcs, Return, Command
<1> QED
  BY <1>1, <1>2, <1>3, <1>4, <1>5, <1>6, <1>7, <1>8, <1>9, <1>10, <1>11, <1>12, <1>13, <1>14,
     <1>15, <1>16, <1>17, <1>18, <1>19 DEF UciStep

\* Every step of a thread leaves the lines as they must be.
LEMMA ResultMainStep == ASSUME TypeInv, ResultInv, MainStep PROVE ResultInv'
<1>1. ASSUME NEW sel \in Line, Select(sel) PROVE ResultInv'
  BY <1>1, SelectLines
<1> QED  BY <1>1, MainKeepsLines DEF MainStep, MainKeeps

LEMMA ResultThreadStep ==
  ASSUME TypeInv, ResultInv, NEW t \in Thread, ThreadStep(t) PROVE ResultInv'
<1>1. ASSUME NEW m \in Moves, NEW v \in Scores, CompleteDepth(t, m, v) PROVE ResultInv'
  BY <1>1, CompleteDepthLines
<1> QED
  BY <1>1, ThreadKeepsLines, StartSearchLines, BuildRootLinesLines, NextDepthLines, FinalizeLines,
     ResultMainStep DEF ThreadStep

\* Reading a command and waking up touch no line.
LEMMA ResultOtherStep ==
  ASSUME TypeInv, ExclusiveInv, AnswerInv, ParkInv, JobInv, ResultInv, Next, ~UciStep,
     \A t \in Thread : ~ThreadStep(t) PROVE ResultInv'
<1> USE ThreadsAssumption
<1> USE DEF TypeInv, TypeOK, ControlTypes, ThreadTypes, Thread, Main, Live
<1> USE DEF ExclusiveInv, UciLoops, ShutdownReached, ThreadStates, ScannedIdle, FirstClosed,
            ClosingPcs, Working
<1> USE DEF AnswerInv, ClosedIdle, HelpersAwaited, ParkInv, ShrinkIdle
<1> USE DEF ResultInv, WorkerLines, WorkerLine, LeftWithResult, PollStops, SnapshotLines, BuiltPcs,
            Configured, OwnLine
<1> USE DEF cmdVars, setupVars, engineVars, gateVars, parkVars, workVars, mainVars, protoVars,
            outputVars, poolVars, outerVars, restVars
<1>1. ASSUME NEW c \in Commands, ReadCommand(c)
      PROVE ResultInv'
  BY <1>1 DEF ReadCommand, EntryPoint, UciGoto, UciPcs, Command, Kinds
<1>2. ASSUME NEW t \in Thread, NEW a \in 0 .. MaxThreads, SpuriousWake(t, a)
      PROVE ResultInv'
  BY <1>2 DEF SpuriousWake, Thread
<1>3. ASSUME NEW t \in Thread, SpuriousGateWake(t)
      PROVE ResultInv'
  BY <1>3 DEF SpuriousGateWake, Thread
<1>4. CASE Terminated
  BY <1>4 DEF Terminated, vars
<1> QED
  BY <1>1, <1>2, <1>3, <1>4 DEF Next

\* At the start no thread works.
LEMMA ResultInit == TypeInv /\ Init => ResultInv
<1> SUFFICES ASSUME TypeInv, Init PROVE ResultInv
  OBVIOUS
<1>1. Main \in Thread
  BY ThreadsAssumption DEF Main, Thread
<1>2. upc = "read" /\ \A t \in Thread : pc[t] \in {"park", "none"} /\ ~searching[t]
  BY DEF Init
<1>3. WorkerLines
  BY <1>2 DEF WorkerLines, WorkerLine, Working, BuiltPcs
<1> QED  BY <1>1, <1>2, <1>3 DEF ResultInv, LeftWithResult, PollStops, SnapshotLines, Configured

\* ResultInv is inductive with the invariants before it.
LEMMA ResultStep ==
  TypeInv /\ ExclusiveInv /\ AnswerInv /\ ParkInv /\ JobInv /\ ResultInv /\ [Next]_vars
    => ResultInv'
<1> SUFFICES ASSUME TypeInv, ExclusiveInv, AnswerInv, ParkInv, JobInv, ResultInv, [Next]_vars
             PROVE  ResultInv'
  OBVIOUS
<1>1. CASE UNCHANGED vars
  BY <1>1 DEF ResultInv, WorkerLines, WorkerLine, OwnLine, LeftWithResult, PollStops, SnapshotLines,
     Configured, vars, cmdVars, setupVars, engineVars, gateVars, parkVars, workVars, mainVars, protoVars,
     outputVars, poolVars, restVars
<1>2. CASE UciStep
  BY <1>2, ResultUciStep
<1>3. ASSUME NEW t \in Thread, ThreadStep(t) PROVE ResultInv'
  BY <1>3, ResultThreadStep
<1>4. CASE Next /\ ~UciStep /\ \A t \in Thread : ~ThreadStep(t)
  BY <1>4, ResultOtherStep
<1> QED  BY <1>1, <1>2, <1>3, <1>4

\* ResultInv holds in every reachable state.
THEOREM ResultInvariant == Safety => []ResultInv
<1>1. Init => TypeInv /\ ResultInv
  BY InitTypes, ResultInit
<1>2. TypeInv /\ ExclusiveInv /\ AnswerInv /\ ParkInv /\ JobInv /\ ResultInv /\ [Next]_vars => ResultInv'
  BY ResultStep
<1> QED  BY <1>1, <1>2, AnswerInvariant, ParkInvariant, JobInvariant, PTL DEF Safety

\* What workers hand to the selection is of this search, and no unfinished result
\* passes for a completed one.
THEOREM ResultsStaySound == Safety => []ResultsAreSound
<1>1. TypeInv /\ ExclusiveInv /\ AnswerInv /\ JobInv /\ ResultInv => ResultsAreSound
  <2> SUFFICES ASSUME TypeInv, ExclusiveInv, AnswerInv, JobInv, ResultInv
               PROVE  ResultsOfThisSearch /\ NoForgedResult
    BY DEF ResultsAreSound
  <2> USE DEF TypeInv, TypeOK, ControlTypes
  <2>1. ASSUME asked # told, NEW t \in Live
        PROVE  /\ snapshot[t].move \in Candidates(job[Main]) \cup {NullMove}
               /\ snapshot[t].depth <= job[Main].lim.depth
    <3>1. t \in Thread /\ t < size
      BY ThreadsAssumption DEF Live, Thread
    <3>2. searching[Main]
      BY <2>1, OwedWhileSearching DEF Owed
    <3>3. job[t] = job[Main] /\ OwnLine(t, snapshot[t])
      BY <3>1, <3>2 DEF JobInv, SameJob, ResultInv, SnapshotLines
    <3> QED  BY <3>3 DEF OwnLine
  <2>2. ResultsOfThisSearch
    BY <2>1 DEF ResultsOfThisSearch, Usable
  <2>3. NoForgedResult
    <3>1. Live \subseteq Thread
      BY ThreadsAssumption DEF Live, Thread
    <3> QED  BY <3>1, Zenon DEF NoForgedResult, ResultInv, LeftWithResult
  <2> QED  BY <2>2, <2>3
<1> QED  BY <1>1, AnswerInvariant, JobInvariant, ResultInvariant, PTL

-----------------------------------------------------------------------------
(* The selection.                                                          *)

\* A thread that works on changes what nobody has selected from yet.
LEMMA WorkerResultStep ==
  ASSUME TypeInv, ExclusiveInv, AnswerInv, SelectInv, NEW t \in Thread, pc[t] \in Working,
         UNCHANGED <<upc, ui, size, searching, job, pending>>,
         pc' = [pc EXCEPT ![t] = pc'[t]],
         t = Main => pc'[t] # "publish",
         result' = [result EXCEPT ![t] = result'[t]],
         snapshot' = [snapshot EXCEPT ![t] = snapshot'[t]],
         pc'[t] \in {"hstop", "hwait", "select", "publish", "unlock"} => snapshot'[t] = result'[t]
  PROVE  SelectInv'
<1> USE ThreadsAssumption DEF TypeInv, TypeOK, ControlTypes, ThreadTypes, WorkTypes
<1>1. searching[t]
  BY DEF ExclusiveInv, ThreadStates
<1>2. ResultShown'
  BY <1>1 DEF SelectInv, ResultShown
<1>3. ASSUME pc'[Main] = "publish" PROVE FALSE
  <2>1. Main \in Thread /\ t # Main /\ pc[Main] = "publish"
    BY <1>3 DEF Main, Thread
  <2>2. searching[Main]
    BY <2>1 DEF ExclusiveInv, ThreadStates, Working, ThreadPcs
  <2> QED  BY <1>1, <2>1, <2>2 DEF AnswerInv, HelpersAwaited
<1> QED  BY <1>2, <1>3 DEF SelectInv, DeepestResultChosen

\* The best of some lines is as deep as any of them.
LEMMA NothingBetter ==
  ASSUME NEW line \in Line, NEW chosen \in Line, ~Better(line, chosen), Usable(line)
  PROVE  Usable(chosen) /\ line.depth <= chosen.depth
BY LimitsAssumption DEF Better, Line

\* select_chosenroot_line looks at all the results, which are all there.
LEMMA SelectChooses ==
  ASSUME TypeInv, ExclusiveInv, AnswerInv, SelectInv, NEW sel \in Line, Select(sel)
  PROVE  SelectInv'
<1> USE ThreadsAssumption DEF TypeInv, TypeOK, ControlTypes, ThreadTypes, WorkTypes
<1> USE DEF outerVars, engineVars, poolVars, parkVars, workVars
<1>1. /\ UNCHANGED <<upc, ui, size, searching, job, result, snapshot>>
      /\ pc[Main] = "select" /\ pc' = [pc EXCEPT ![Main] = "publish"]
  BY DEF Select, Goto
<1>2. Main \in Thread
  BY DEF Main, Thread
<1>3. \A u \in Live : snapshot[u] = result[u]
  <2>1. searching[Main]
    BY <1>1, <1>2 DEF ExclusiveInv, ThreadStates, Working, ThreadPcs
  <2>2. \A u \in Thread \ {Main} : ~searching[u]
    BY <1>1, <2>1 DEF AnswerInv, HelpersAwaited
  <2> QED  BY <1>1, <2>1, <2>2 DEF SelectInv, ResultShown, Live, Thread
<1>4. ResultShown'
  BY <1>1, <1>3 DEF SelectInv, ResultShown, Live, Thread
<1>5. ASSUME ~HasMateWithinLimit(job[Main].lim, result[Main].value), NEW u \in Live,
             Usable(result[u])
      PROVE  Usable(pending') /\ result[u].depth <= pending'.depth
  <2>1. u \in Thread /\ snapshot[u] \in Line
    BY DEF Live, Thread
  <2>2. ~Better(snapshot[u], sel)
    <3>1. \A l \in {snapshot[w] : w \in Live} : ~Better(l, sel)
      <4>1. IF \A l \in {snapshot[w] : w \in Live} : ~Better(l, result[Main])
            THEN sel = result[Main]
            ELSE \A l \in {snapshot[w] : w \in Live} : ~Better(l, sel)
        BY <1>5, Zenon DEF Select
      <4> QED  BY <4>1, ZenonT(30)
    <3> QED  BY <1>5, <3>1
  <2>3. Usable(sel) /\ result[u].depth <= sel.depth
    BY <1>3, <1>5, <2>1, <2>2, NothingBetter
  <2>4. pending' = sel
    BY <2>3 DEF Select
  <2> QED  BY <2>3, <2>4
<1>6. DeepestResultChosen'
  BY <1>1, <1>5 DEF DeepestResultChosen, Live, Usable, HasMateWithinLimit
<1> QED  BY <1>4, <1>6 DEF SelectInv

\* start_search wakes every helper before the main worker.
LEMMA SelectUciStep ==
  ASSUME TypeInv, ExclusiveInv, AnswerInv, ParkInv, SelectInv, UciStep PROVE SelectInv'
<1> USE ThreadsAssumption
<1> USE DEF TypeInv, TypeOK, ControlTypes, ThreadTypes, Thread, Main, Live
<1> USE DEF ExclusiveInv, UciLoops, ShutdownReached, ThreadStates, ScannedIdle, FirstClosed,
            ClosingPcs, Working
<1> USE DEF AnswerInv, ClosedIdle, HelpersAwaited, ParkInv, ShrinkIdle
<1> USE DEF SelectInv, ResultShown
<1> USE DEF cmdVars, setupVars, engineVars, gateVars, parkVars, workVars, mainVars, protoVars,
            outputVars, poolVars, outerVars, restVars
<1> USE DEF DeepestResultChosen
<1>1. CASE ScanThread
  <2>1. ResultShown'
    BY <1>1 DEF ScanThread, UciGoto, UciPcs, Live, IsSearching
  <2>2. DeepestResultChosen'
    BY <1>1 DEF ScanThread, UciGoto, UciPcs, Live, IsSearching
  <2> QED  BY <2>1, <2>2 DEF SelectInv
<1>2. CASE ScanEnd
  <2>1. ResultShown'
    BY <1>2 DEF ScanEnd, Return, UciGoto, UciPcs
  <2>2. DeepestResultChosen'
    BY <1>2 DEF ScanEnd, Return, UciGoto, UciPcs
  <2> QED  BY <2>1, <2>2 DEF SelectInv
<1>3. CASE Refuse
  <2>1. ResultShown'
    BY <1>3 DEF Refuse, Return, UciGoto, UciPcs
  <2>2. DeepestResultChosen'
    BY <1>3 DEF Refuse, Return, UciGoto, UciPcs
  <2> QED  BY <2>1, <2>2 DEF SelectInv
<1>4. CASE Arm
  <2>1. ResultShown'
    BY <1>4 DEF Arm, CloseGate, UciGoto, UciPcs
  <2>2. DeepestResultChosen'
    BY <1>4 DEF Arm, CloseGate, UciGoto, UciPcs
  <2> QED  BY <2>1, <2>2 DEF SelectInv
<1>5. CASE ConfigureThread
  <2>1. ResultShown'
    BY <1>5 DEF ConfigureThread, ClearSnapshot, UciGoto, UciPcs
  <2>2. DeepestResultChosen'
    BY <1>5 DEF ConfigureThread, ClearSnapshot, UciGoto, UciPcs
  <2> QED  BY <2>1, <2>2 DEF SelectInv
<1>6. CASE WakeHelper
  <2>1. ResultShown'
    BY <1>6 DEF WakeHelper, Wake, NotifyOne, Main
  <2>2. DeepestResultChosen'
    BY <1>6 DEF WakeHelper, Wake, NotifyOne, Main
  <2> QED  BY <2>1, <2>2 DEF SelectInv
<1>7. CASE WakeMain
  <2>1. ResultShown'
    BY <1>7 DEF WakeMain, Wake, NotifyOne, Return, UciGoto, UciPcs, Main
  <2>2. DeepestResultChosen'
    BY <1>7 DEF WakeMain, Wake, NotifyOne, Return, UciGoto, UciPcs, Main
  <2> QED  BY <2>1, <2>2 DEF SelectInv
<1>8. CASE SetBoard
  <2>1. ResultShown'
    BY <1>8 DEF SetBoard, Return, UciGoto, UciPcs
  <2>2. DeepestResultChosen'
    BY <1>8 DEF SetBoard, Return, UciGoto, UciPcs
  <2> QED  BY <2>1, <2>2 DEF SelectInv
<1>9. CASE ResetTable
  <2>1. ResultShown'
    BY <1>9 DEF ResetTable, Return, UciGoto, UciPcs
  <2>2. DeepestResultChosen'
    BY <1>9 DEF ResetTable, Return, UciGoto, UciPcs
  <2> QED  BY <2>1, <2>2 DEF SelectInv
<1>10. CASE GrowPool
  <2>1. cmd.n \in 1 .. MaxThreads
    BY DEF WorkTypes, Command
  <2>2. ResultShown'
    BY <1>10, <2>1 DEF GrowPool, Return, UciGoto, UciPcs, Command, ThreadPcs, Thread
  <2>3. ~searching[Main]
    BY <1>10 DEF GrowPool
  <2>4. pc[Main] # "publish"
    BY <2>3 DEF ThreadPcs
  <2>5. pc'[Main] # "publish"
    BY <1>10, <2>4 DEF GrowPool, Goto
  <2> QED  BY <2>2, <2>5
<1>11. CASE GrowFails
  <2>1. ResultShown'
    BY <1>11 DEF GrowFails, Return, UciGoto, UciPcs
  <2>2. DeepestResultChosen'
    BY <1>11 DEF GrowFails, Return, UciGoto, UciPcs
  <2> QED  BY <2>1, <2>2 DEF SelectInv
<1>12. CASE BeginShrink
  <2>1. cmd.n \in 1 .. MaxThreads
    BY DEF WorkTypes, Command
  <2>2. ResultShown'
    BY <1>12, <2>1 DEF BeginShrink, UciGoto, UciPcs, Command
  <2>3. DeepestResultChosen'
    BY <1>12, <2>1 DEF BeginShrink, UciGoto, UciPcs, Command
  <2> QED  BY <2>2, <2>3 DEF SelectInv
<1>13. CASE StopThread
  <2>1. ResultShown'
    BY <1>13 DEF StopThread, RaiseStop, UciGoto, UciPcs
  <2>2. DeepestResultChosen'
    BY <1>13 DEF StopThread, RaiseStop, UciGoto, UciPcs
  <2> QED  BY <2>1, <2>2 DEF SelectInv
<1>14. CASE EndPonder
  <2>1. ResultShown'
    BY <1>14 DEF EndPonder, LeavePondering, Return, UciGoto, UciPcs
  <2>2. DeepestResultChosen'
    BY <1>14 DEF EndPonder, LeavePondering, Return, UciGoto, UciPcs
  <2> QED  BY <2>1, <2>2 DEF SelectInv
<1>15. CASE OpenGate
  <2>1. ResultShown'
    BY <1>15 DEF OpenGate, ReleaseHelpers, Return, UciGoto, UciPcs
  <2>2. DeepestResultChosen'
    BY <1>15 DEF OpenGate, ReleaseHelpers, Return, UciGoto, UciPcs
  <2> QED  BY <2>1, <2>2 DEF SelectInv
<1>16. CASE ShutdownStop
  <2>1. ResultShown'
    BY <1>16 DEF ShutdownStop, RaiseStop, UciGoto, UciPcs
  <2>2. DeepestResultChosen'
    BY <1>16 DEF ShutdownStop, RaiseStop, UciGoto, UciPcs
  <2> QED  BY <2>1, <2>2 DEF SelectInv
<1>17. CASE ShutdownWait
  <2>1. ResultShown'
    BY <1>17 DEF ShutdownWait, UciGoto, UciPcs, Uci, MustAwait
  <2>2. DeepestResultChosen'
    BY <1>17 DEF ShutdownWait, UciGoto, UciPcs, Uci, MustAwait
  <2> QED  BY <2>1, <2>2 DEF SelectInv
<1>18. CASE ShutdownSet
  <2>1. cmd.n \in 1 .. MaxThreads
    BY DEF WorkTypes, Command
  <2>2. ResultShown'
    BY <1>18, <2>1 DEF ShutdownSet, NotifyOne, UciGoto, UciPcs, Command
  <2>3. DeepestResultChosen'
    BY <1>18, <2>1 DEF ShutdownSet, NotifyOne, UciGoto, UciPcs, Command
  <2> QED  BY <2>2, <2>3 DEF SelectInv
<1>19. CASE JoinThread
  <2>1. cmd.n \in 1 .. MaxThreads
    BY DEF WorkTypes, Command
  <2>2. ResultShown'
    BY <1>19, <2>1 DEF JoinThread, Goto, ThreadPcs, UciGoto, UciPcs, Return, Command
  <2>3. ~searching[Main]
    BY <1>19 DEF JoinThread
  <2>4. pc[Main] # "publish"
    BY <2>3 DEF ThreadPcs
  <2>5. pc'[Main] # "publish"
    BY <1>19, <2>4 DEF JoinThread, Goto
  <2> QED  BY <2>2, <2>5
<1> QED
  BY <1>1, <1>2, <1>3, <1>4, <1>5, <1>6, <1>7, <1>8, <1>9, <1>10, <1>11, <1>12, <1>13, <1>14,
     <1>15, <1>16, <1>17, <1>18, <1>19 DEF UciStep

\* The main worker waits for the helpers, then selects.
LEMMA SelectMainStep ==
  ASSUME TypeInv, ExclusiveInv, AnswerInv, ParkInv, SelectInv, MainStep PROVE SelectInv'
<1> USE ThreadsAssumption
<1> USE DEF TypeInv, TypeOK, ControlTypes, ThreadTypes, Thread, Main, Live
<1> USE DEF ExclusiveInv, UciLoops, ShutdownReached, ThreadStates, ScannedIdle, FirstClosed,
            ClosingPcs, Working
<1> USE DEF AnswerInv, ClosedIdle, HelpersAwaited, ParkInv, ShrinkIdle
<1> USE DEF SelectInv, ResultShown
<1> USE DEF cmdVars, setupVars, engineVars, gateVars, parkVars, workVars, mainVars, protoVars,
            outputVars, poolVars, outerVars, restVars
<1> USE DEF DeepestResultChosen
<1>1. CASE AdvanceGeneration
  <2>1. ResultShown'
    BY <1>1 DEF AdvanceGeneration, Goto, ThreadPcs
  <2>2. DeepestResultChosen'
    BY <1>1 DEF AdvanceGeneration, Goto, ThreadPcs
  <2> QED  BY <2>1, <2>2 DEF SelectInv
<1>2. CASE Release
  <2>1. ResultShown'
    BY <1>2 DEF Release, ReleaseHelpers, Goto, ThreadPcs
  <2>2. DeepestResultChosen'
    BY <1>2 DEF Release, ReleaseHelpers, Goto, ThreadPcs
  <2> QED  BY <2>1, <2>2 DEF SelectInv
<1>3. CASE PollLimits
  <2>1. ResultShown'
    BY <1>3 DEF PollLimits, Goto, ThreadPcs
  <2>2. DeepestResultChosen'
    BY <1>3 DEF PollLimits, Goto, ThreadPcs
  <2> QED  BY <2>1, <2>2 DEF SelectInv
<1>4. CASE PollStop
  <2>1. ResultShown'
    BY <1>4 DEF PollStop, RaiseStop, Goto, ThreadPcs
  <2>2. DeepestResultChosen'
    BY <1>4 DEF PollStop, RaiseStop, Goto, ThreadPcs
  <2> QED  BY <2>1, <2>2 DEF SelectInv
<1>5. CASE PollEndPonder
  <2>1. ResultShown'
    BY <1>5 DEF PollEndPonder, LeavePondering, Goto, ThreadPcs
  <2>2. DeepestResultChosen'
    BY <1>5 DEF PollEndPonder, LeavePondering, Goto, ThreadPcs
  <2> QED  BY <2>1, <2>2 DEF SelectInv
<1>6. CASE PollOpenGate
  <2>1. ResultShown'
    BY <1>6 DEF PollOpenGate, ReleaseHelpers, Goto, ThreadPcs
  <2>2. DeepestResultChosen'
    BY <1>6 DEF PollOpenGate, ReleaseHelpers, Goto, ThreadPcs
  <2> QED  BY <2>1, <2>2 DEF SelectInv
<1>7. CASE HoldPonder
  <2>1. ResultShown'
    BY <1>7 DEF HoldPonder, Goto, ThreadPcs
  <2>2. DeepestResultChosen'
    BY <1>7 DEF HoldPonder, Goto, ThreadPcs
  <2> QED  BY <2>1, <2>2 DEF SelectInv
<1>8. CASE HoldInfinite
  <2>1. ResultShown'
    BY <1>8 DEF HoldInfinite, Goto, ThreadPcs
  <2>2. DeepestResultChosen'
    BY <1>8 DEF HoldInfinite, Goto, ThreadPcs
  <2> QED  BY <2>1, <2>2 DEF SelectInv
<1>9. CASE StopHelper
  <2>1. ResultShown'
    BY <1>9 DEF StopHelper, RaiseStop, Goto, ThreadPcs
  <2>2. DeepestResultChosen'
    BY <1>9 DEF StopHelper, RaiseStop, Goto, ThreadPcs
  <2> QED  BY <2>1, <2>2 DEF SelectInv
<1>10. CASE AwaitHelper
  <2>1. ResultShown'
    BY <1>10 DEF AwaitHelper, Goto, ThreadPcs, MustAwait
  <2>2. DeepestResultChosen'
    BY <1>10 DEF AwaitHelper, Goto, ThreadPcs, MustAwait
  <2> QED  BY <2>1, <2>2 DEF SelectInv
<1>11. ASSUME NEW sel \in Line, Select(sel)
      PROVE SelectInv'
  BY <1>11, SelectChooses
<1> QED
  BY <1>1, <1>2, <1>3, <1>4, <1>5, <1>6, <1>7, <1>8, <1>9, <1>10, <1>11 DEF MainStep

\* A worker shows its result before it goes idle.
LEMMA SelectThreadStep ==
  ASSUME TypeInv, ExclusiveInv, AnswerInv, ParkInv, SelectInv, NEW t \in Thread, ThreadStep(t)
  PROVE SelectInv'
<1> USE ThreadsAssumption
<1> USE DEF TypeInv, TypeOK, ControlTypes, ThreadTypes, Thread, Main, Live
<1> USE DEF ExclusiveInv, UciLoops, ShutdownReached, ThreadStates, ScannedIdle, FirstClosed,
            ClosingPcs, Working
<1> USE DEF AnswerInv, ClosedIdle, HelpersAwaited, ParkInv, ShrinkIdle
<1> USE DEF SelectInv, ResultShown
<1> USE DEF cmdVars, setupVars, engineVars, gateVars, parkVars, workVars, mainVars, protoVars,
            outputVars, poolVars, outerVars, restVars
<1> USE DEF DeepestResultChosen
<1>1. CASE Park(t)
  <2>1. ResultShown'
    BY <1>1 DEF Park, Goto, ThreadPcs
  <2>2. DeepestResultChosen'
    BY <1>1 DEF Park, Goto, ThreadPcs
  <2> QED  BY <2>1, <2>2 DEF SelectInv
<1>2. CASE StartSearch(t)
  <2>1. ResultShown'
    BY SMTT(30), <1>2 DEF StartSearch, Goto, ThreadPcs
  <2>2. DeepestResultChosen'
    BY SMTT(30), <1>2 DEF StartSearch, Goto, ThreadPcs
  <2> QED  BY <2>1, <2>2 DEF SelectInv
<1>3. CASE BuildRootLines(t)
  <2>1. /\ pc[t] \in Working /\ UNCHANGED <<upc, ui, size, searching, job, pending, snapshot>>
        /\ pc' = [pc EXCEPT ![t] = pc'[t]] /\ pc'[t] \in {"deepen", "ponder", "finalize"}
    BY <1>3 DEF BuildRootLines, Goto, ThreadPcs
  <2>2. result' = [result EXCEPT ![t] = result'[t]] /\ snapshot' = [snapshot EXCEPT ![t] = snapshot'[t]]
    BY <1>3, <2>1 DEF BuildRootLines, WorkTypes
  <2> QED  BY <2>1, <2>2, WorkerResultStep
<1>4. CASE NextDepth(t)
  <2>1. ResultShown'
    BY <1>4 DEF NextDepth, Goto, ThreadPcs
  <2>2. DeepestResultChosen'
    BY <1>4 DEF NextDepth, Goto, ThreadPcs
  <2> QED  BY <2>1, <2>2 DEF SelectInv
<1>5. CASE AbandonDepth(t)
  <2>1. ResultShown'
    BY <1>5 DEF AbandonDepth, Goto, ThreadPcs
  <2>2. DeepestResultChosen'
    BY <1>5 DEF AbandonDepth, Goto, ThreadPcs
  <2> QED  BY <2>1, <2>2 DEF SelectInv
<1>6. CASE Finalize(t)
  <2>1. /\ pc[t] \in Working /\ UNCHANGED <<upc, ui, size, searching, job, pending>>
        /\ pc' = [pc EXCEPT ![t] = pc'[t]] /\ (t = Main => pc'[t] # "publish")
    BY <1>6 DEF Finalize, Goto, ThreadPcs
  <2>2. /\ result' = [result EXCEPT ![t] = result'[t]] /\ snapshot' = [snapshot EXCEPT ![t] = snapshot'[t]]
        /\ snapshot'[t] = result'[t]
    BY <1>6 DEF Finalize, WorkTypes
  <2> QED  BY <2>1, <2>2, WorkerResultStep
<1>7. CASE Publish(t)
  <2>1. ResultShown'
    BY <1>7 DEF Publish, Goto, ThreadPcs
  <2>2. DeepestResultChosen'
    BY <1>7 DEF Publish, Goto, ThreadPcs
  <2> QED  BY <2>1, <2>2 DEF SelectInv
<1>8. CASE Unlock(t)
  <2>1. /\ UNCHANGED <<upc, ui, size, result, snapshot>>
        /\ pc[t] = "unlock" /\ pc' = [pc EXCEPT ![t] = "notify"]
        /\ searching' = [searching EXCEPT ![t] = FALSE]
    BY <1>8 DEF Unlock, GoIdle, Goto
  <2>2. \A u \in Thread : u < size => snapshot'[u] = snapshot[u] /\ result'[u] = result[u]
    BY <2>1
  <2>3. t < size => snapshot[t] = result[t]
    BY <2>1
  <2>4. searching'[Main] => searching[Main]
    BY <2>1
  <2>5. ASSUME NEW u \in Thread, u < size, u # t,
               \/ pc'[u] \in {"hstop", "hwait", "select", "publish", "unlock"}
               \/ /\ ~searching'[u]
                  /\ searching'[Main] \/ (upc' = "wake" /\ u # Main /\ (ui' = Main \/ u < ui'))
        PROVE  snapshot[u] = result[u]
    BY <2>1, <2>4, <2>5
  <2>6. ResultShown'
    BY <2>1, <2>2, <2>3, <2>5
  <2>7. DeepestResultChosen'
    BY <1>8 DEF Unlock, GoIdle, Goto, ThreadPcs
  <2> QED  BY <2>6, <2>7 DEF SelectInv
<1>9. CASE Notify(t)
  <2>1. ResultShown'
    BY <1>9 DEF Notify, NotifyAll, Goto, ThreadPcs
  <2>2. DeepestResultChosen'
    BY <1>9 DEF Notify, NotifyAll, Goto, ThreadPcs
  <2> QED  BY <2>1, <2>2 DEF SelectInv
<1>10. CASE PassGate(t) /\ t # Main
  <2>1. ResultShown'
    BY <1>10 DEF PassGate, Goto, ThreadPcs
  <2>2. DeepestResultChosen'
    BY <1>10 DEF PassGate, Goto, ThreadPcs
  <2> QED  BY <2>1, <2>2 DEF SelectInv
<1>11. ASSUME NEW m \in Moves, NEW v \in Scores, CompleteDepth(t, m, v)
      PROVE SelectInv'
  <2>1. /\ pc[t] \in Working /\ UNCHANGED <<upc, ui, size, searching, job, pending>>
        /\ pc' = [pc EXCEPT ![t] = pc'[t]] /\ pc'[t] \in {"deepen", "ponder", "finalize"}
    BY <1>11 DEF CompleteDepth, Goto, ThreadPcs
  <2>2. result' = [result EXCEPT ![t] = result'[t]] /\ snapshot' = [snapshot EXCEPT ![t] = snapshot'[t]]
    BY <1>11 DEF CompleteDepth, WorkTypes
  <2> QED  BY <2>1, <2>2, WorkerResultStep
<1> QED
  BY <1>1, <1>2, <1>3, <1>4, <1>5, <1>6, <1>7, <1>8, <1>9, <1>10, <1>11,
     SelectMainStep DEF ThreadStep

\* Reading a command and waking up change no result.
LEMMA SelectOtherStep ==
  ASSUME TypeInv, ExclusiveInv, AnswerInv, ParkInv, SelectInv, Next, ~UciStep,
     \A t \in Thread : ~ThreadStep(t) PROVE SelectInv'
<1> USE ThreadsAssumption
<1> USE DEF TypeInv, TypeOK, ControlTypes, ThreadTypes, Thread, Main, Live
<1> USE DEF ExclusiveInv, UciLoops, ShutdownReached, ThreadStates, ScannedIdle, FirstClosed,
            ClosingPcs, Working
<1> USE DEF AnswerInv, ClosedIdle, HelpersAwaited, ParkInv, ShrinkIdle
<1> USE DEF SelectInv, ResultShown
<1> USE DEF cmdVars, setupVars, engineVars, gateVars, parkVars, workVars, mainVars, protoVars,
            outputVars, poolVars, outerVars, restVars
<1> USE DEF DeepestResultChosen
<1>1. ASSUME NEW c \in Commands, ReadCommand(c)
      PROVE SelectInv'
  <2>1. ResultShown'
    BY <1>1 DEF ReadCommand, EntryPoint, UciGoto, UciPcs, Command, Kinds
  <2>2. DeepestResultChosen'
    BY <1>1 DEF ReadCommand, EntryPoint, UciGoto, UciPcs, Command, Kinds
  <2> QED  BY <2>1, <2>2 DEF SelectInv
<1>2. ASSUME NEW t \in Thread, NEW a \in 0 .. MaxThreads, SpuriousWake(t, a)
      PROVE SelectInv'
  <2>1. ResultShown'
    BY <1>2 DEF SpuriousWake, Thread
  <2>2. DeepestResultChosen'
    BY <1>2 DEF SpuriousWake, Thread
  <2> QED  BY <2>1, <2>2 DEF SelectInv
<1>3. ASSUME NEW t \in Thread, SpuriousGateWake(t)
      PROVE SelectInv'
  <2>1. ResultShown'
    BY <1>3 DEF SpuriousGateWake, Thread
  <2>2. DeepestResultChosen'
    BY <1>3 DEF SpuriousGateWake, Thread
  <2> QED  BY <2>1, <2>2 DEF SelectInv
<1>4. CASE Terminated
  <2>1. ResultShown'
    BY <1>4 DEF Terminated, vars
  <2>2. DeepestResultChosen'
    BY <1>4 DEF Terminated, vars
  <2> QED  BY <2>1, <2>2 DEF SelectInv
<1> QED
  BY <1>1, <1>2, <1>3, <1>4 DEF Next

\* At the start there is no result.
LEMMA SelectInit == TypeInv /\ Init => SelectInv
<1> SUFFICES ASSUME TypeInv, Init PROVE SelectInv
  OBVIOUS
<1>1. Main \in Thread
  BY ThreadsAssumption DEF Main, Thread
<1>2. upc = "read" /\ \A t \in Thread : pc[t] \in {"park", "none"} /\ ~searching[t]
  BY DEF Init
<1> QED  BY <1>1, <1>2 DEF SelectInv, ResultShown, DeepestResultChosen

\* SelectInv is inductive with the invariants before it.
LEMMA SelectStep ==
  TypeInv /\ ExclusiveInv /\ AnswerInv /\ ParkInv /\ SelectInv /\ [Next]_vars
    => SelectInv'
<1> SUFFICES ASSUME TypeInv, ExclusiveInv, AnswerInv, ParkInv, SelectInv, [Next]_vars
             PROVE  SelectInv'
  OBVIOUS
<1>1. CASE UNCHANGED vars
  BY <1>1 DEF SelectInv, ResultShown, DeepestResultChosen, Live, Usable, HasMateWithinLimit, vars, cmdVars, setupVars, engineVars, gateVars, parkVars, workVars, mainVars, protoVars,
     outputVars, poolVars, restVars
<1>2. CASE UciStep
  BY <1>2, SelectUciStep
<1>3. ASSUME NEW t \in Thread, ThreadStep(t) PROVE SelectInv'
  BY <1>3, SelectThreadStep
<1>4. CASE Next /\ ~UciStep /\ \A t \in Thread : ~ThreadStep(t)
  BY <1>4, SelectOtherStep
<1> QED  BY <1>1, <1>2, <1>3, <1>4

\* SelectInv holds in every reachable state.
THEOREM SelectInvariant == Safety => []SelectInv
<1>1. Init => TypeInv /\ SelectInv
  BY InitTypes, SelectInit
<1>2. TypeInv /\ ExclusiveInv /\ AnswerInv /\ ParkInv /\ SelectInv /\ [Next]_vars => SelectInv'
  BY SelectStep
<1> QED  BY <1>1, <1>2, AnswerInvariant, ParkInvariant, PTL DEF Safety

\* No result of a helper comes too late for the selection, none is deeper than the
\* answer, and helpers search inside the main worker's search.
THEOREM HelpersHeard == Safety => []HelpersAreHeard
<1>1. SelectInv /\ HelpersInsideMainSearch => HelpersAreHeard
  BY DEF SelectInv, HelpersAreHeard
<1> QED  BY <1>1, SelectInvariant, HelpersInside, PTL

-----------------------------------------------------------------------------
(* The answer: not before the GUI lets it come, and allowed by the request. *)

\* The selected line is a line of the request; when it is not usable any candidate
\* stands in for it.
LEMMA SelectAnswers ==
  ASSUME TypeInv, ExclusiveInv, AnswerInv, JobInv, ResultInv, NEW sel \in Line, Select(sel)
  PROVE  pending'.move \in IF Candidates(job[Main]) = {} THEN {NullMove} ELSE Candidates(job[Main])
<1> USE ThreadsAssumption DEF TypeInv, TypeOK, ControlTypes, ThreadTypes, WorkTypes
<1>1. Main \in Thread /\ pc[Main] = "select"
  <2>1. Main \in Thread
    BY DEF Main, Thread
  <2>2. pc[Main] = "select"
    BY DEF Select
  <2> QED  BY <2>1, <2>2
<1>2. searching[Main]
  BY <1>1 DEF ExclusiveInv, ThreadStates, Working, ThreadPcs
<1>3. OwnLine(Main, result[Main]) /\ rootMoves[Main] = Candidates(job[Main])
  BY <1>1 DEF ResultInv, WorkerLines, WorkerLine, BuiltPcs, Working, ThreadPcs
<1>4. \A u \in Live : snapshot[u].move \in Candidates(job[Main]) \cup {NullMove}
  BY <1>1, <1>2 DEF ResultInv, SnapshotLines, OwnLine, JobInv, SameJob, Live, Thread
<1>5. sel = result[Main] \/ \E u \in Live : sel = snapshot[u]
  <2>1. sel = result[Main] \/ sel \in {snapshot[u] : u \in Live}
    BY Zenon DEF Select
  <2> QED  BY <2>1
<1>6. sel.move \in Candidates(job[Main]) \cup {NullMove}
  BY <1>3, <1>4, <1>5 DEF OwnLine
<1>7. CASE ~Usable(sel) /\ rootMoves[Main] # {}
  <2>1. PICK m \in rootMoves[Main] : pending' = [sel EXCEPT !.move = m, !.depth = 0, !.done = FALSE]
    BY <1>7 DEF Select
  <2>2. pending'.move = m
    BY <2>1 DEF Line
  <2> QED  BY <1>3, <2>1, <2>2
<1>8. CASE ~(~Usable(sel) /\ rootMoves[Main] # {})
  <2>1. pending' = sel
    BY <1>8, Zenon DEF Select
  <2> QED  BY <1>3, <1>6, <1>8, <2>1 DEF Usable
<1> QED  BY <1>7, <1>8

\* A search starts to ponder when its request does.
LEMMA SessionUciStep ==
  ASSUME TypeInv, ExclusiveInv, AnswerInv, ParkInv, JobInv, ResultInv, SessionInv, UciStep PROVE SessionInv'
<1> USE ThreadsAssumption
<1> USE DEF TypeInv, TypeOK, FlagTypes, ControlTypes, ThreadTypes, Thread, Main, Live
<1> USE DEF ExclusiveInv, UciLoops, ShutdownReached, ThreadStates, ScannedIdle, FirstClosed,
            ClosingPcs, Working
<1> USE DEF AnswerInv, ClosedIdle, HelpersAwaited, ParkInv, ShrinkIdle
<1> USE DEF SessionInv, HeldBack, AnswerAllowed
<1> USE DEF cmdVars, setupVars, engineVars, gateVars, parkVars, workVars, mainVars, protoVars,
            outputVars, poolVars, outerVars, restVars
<1>1. CASE ScanThread
  BY <1>1 DEF ScanThread, UciGoto, UciPcs, Live, IsSearching
<1>2. CASE ScanEnd
  BY <1>2 DEF ScanEnd, Return, UciGoto, UciPcs
<1>3. CASE Refuse
  BY <1>3 DEF Refuse, Return, UciGoto, UciPcs
<1>4. CASE Arm
  BY <1>4 DEF Arm, CloseGate, UciGoto, UciPcs
<1>5. CASE ConfigureThread
  <2>1. ~searching[Main] /\ pc[Main] \notin Working
    BY <1>5, IdleWhileStarting DEF ConfigureThread
  <2> QED  BY <1>5, <2>1 DEF ConfigureThread, ClearSnapshot, ThreadPcs
<1>6. CASE WakeHelper
  BY <1>6 DEF WakeHelper, Wake, NotifyOne, Main
<1>7. CASE WakeMain
  BY <1>7 DEF WakeMain, Wake, NotifyOne, Return, UciGoto, UciPcs, Main, JobInv, RequestArmed,
     Configured
<1>8. CASE SetBoard
  BY <1>8 DEF SetBoard, Return, UciGoto, UciPcs
<1>9. CASE ResetTable
  BY <1>9 DEF ResetTable, Return, UciGoto, UciPcs
<1>10. CASE GrowPool
  <2>1. cmd.n \in 1 .. MaxThreads
    BY DEF WorkTypes, Command
  <2> QED  BY <1>10, <2>1 DEF GrowPool, Return, UciGoto, UciPcs, Command, ThreadPcs, Thread
<1>11. CASE GrowFails
  BY <1>11 DEF GrowFails, Return, UciGoto, UciPcs
<1>12. CASE BeginShrink
  <2>1. cmd.n \in 1 .. MaxThreads
    BY DEF WorkTypes, Command
  <2> QED  BY <1>12, <2>1 DEF BeginShrink, UciGoto, UciPcs, Command
<1>13. CASE StopThread
  BY <1>13 DEF StopThread, RaiseStop, UciGoto, UciPcs
<1>14. CASE EndPonder
  BY <1>14 DEF EndPonder, LeavePondering, Return, UciGoto, UciPcs
<1>15. CASE OpenGate
  BY <1>15 DEF OpenGate, ReleaseHelpers, Return, UciGoto, UciPcs
<1>16. CASE ShutdownStop
  BY <1>16 DEF ShutdownStop, RaiseStop, UciGoto, UciPcs
<1>17. CASE ShutdownWait
  BY <1>17 DEF ShutdownWait, UciGoto, UciPcs, Uci, MustAwait
<1>18. CASE ShutdownSet
  <2>1. cmd.n \in 1 .. MaxThreads
    BY DEF WorkTypes, Command
  <2> QED  BY <1>18, <2>1 DEF ShutdownSet, NotifyOne, UciGoto, UciPcs, Command
<1>19. CASE JoinThread
  <2>1. ~searching[Main]
    BY <1>19 DEF JoinThread
  <2>2. pc[Main] \notin Working /\ pc' = [pc EXCEPT ![ui] = "none"]
    BY <1>19, <2>1 DEF JoinThread, Goto
  <2>3. pc'[Main] \notin Working /\ ~searching'[Main]
    BY <1>19, <2>1, <2>2 DEF JoinThread
  <2> QED  BY <2>3 DEF ThreadPcs
<1> QED
  BY <1>1, <1>2, <1>3, <1>4, <1>5, <1>6, <1>7, <1>8, <1>9, <1>10, <1>11, <1>12, <1>13, <1>14,
     <1>15, <1>16, <1>17, <1>18, <1>19 DEF UciStep

\* The main worker passes a hold when it has ended.
LEMMA SessionMainStep ==
  ASSUME TypeInv, ExclusiveInv, AnswerInv, ParkInv, JobInv, ResultInv, SessionInv, MainStep PROVE SessionInv'
<1> USE ThreadsAssumption
<1> USE DEF TypeInv, TypeOK, FlagTypes, ControlTypes, ThreadTypes, Thread, Main, Live
<1> USE DEF ExclusiveInv, UciLoops, ShutdownReached, ThreadStates, ScannedIdle, FirstClosed,
            ClosingPcs, Working
<1> USE DEF AnswerInv, ClosedIdle, HelpersAwaited, ParkInv, ShrinkIdle
<1> USE DEF SessionInv, HeldBack, AnswerAllowed
<1> USE DEF cmdVars, setupVars, engineVars, gateVars, parkVars, workVars, mainVars, protoVars,
            outputVars, poolVars, outerVars, restVars
<1>1. CASE AdvanceGeneration
  BY <1>1 DEF AdvanceGeneration, Goto, ThreadPcs
<1>2. CASE Release
  BY <1>2 DEF Release, ReleaseHelpers, Goto, ThreadPcs
<1>3. CASE PollLimits
  BY <1>3 DEF PollLimits, Goto, ThreadPcs
<1>4. CASE PollStop
  BY <1>4 DEF PollStop, RaiseStop, Goto, ThreadPcs
<1>5. CASE PollEndPonder
  BY <1>5 DEF PollEndPonder, LeavePondering, Goto, ThreadPcs
<1>6. CASE PollOpenGate
  BY <1>6 DEF PollOpenGate, ReleaseHelpers, Goto, ThreadPcs
<1>7. CASE HoldPonder
  <2>1. /\ pc[Main] = "ponder" /\ UNCHANGED <<job, pondering, searching, stop, pending>>
        /\ pc' = pc \/ pc' = [pc EXCEPT ![Main] = "hold"]
    BY <1>7 DEF HoldPonder, Goto
  <2>2. pc' # pc => ~(job[Main].lim.ponder /\ pondering)
    BY <1>7, Zenon DEF HoldPonder
  <2>3. pondering => job[Main].lim.ponder
    <3>1. searching[Main]
      BY <2>1 DEF ThreadPcs
    <3> QED  BY <3>1, Zenon DEF HeldBack
  <2>4. pc' # pc => ~pondering
    BY <2>2, <2>3, Zenon
  <2>5. HeldBack'
    BY <2>1, <2>3, <2>4
  <2>6. AnswerAllowed'
    BY <2>1
  <2> QED  BY <2>5, <2>6
<1>8. CASE HoldInfinite
  BY <1>8 DEF HoldInfinite, Goto, ThreadPcs
<1>9. CASE StopHelper
  BY <1>9 DEF StopHelper, RaiseStop, Goto, ThreadPcs
<1>10. CASE AwaitHelper
  BY <1>10 DEF AwaitHelper, Goto, ThreadPcs, MustAwait
<1>11. ASSUME NEW sel \in Line, Select(sel)
      PROVE SessionInv'
  <2>1. /\ pc[Main] = "select" /\ pc' = [pc EXCEPT ![Main] = "publish"]
        /\ UNCHANGED <<job, pondering, searching, stop>>
    BY <1>11 DEF Select, Goto
  <2>2. HeldBack'
    BY <2>1
  <2>3. AnswerAllowed'
    BY <1>11, <2>1, SelectAnswers DEF Select
  <2> QED  BY <2>2, <2>3
<1> QED
  BY <1>1, <1>2, <1>3, <1>4, <1>5, <1>6, <1>7, <1>8, <1>9, <1>10, <1>11 DEF MainStep

\* Workers leave what holds a search alone.
LEMMA SessionThreadStep ==
  ASSUME TypeInv, ExclusiveInv, AnswerInv, ParkInv, JobInv, ResultInv, SessionInv, NEW t \in Thread, ThreadStep(t)
  PROVE SessionInv'
<1> USE ThreadsAssumption
<1> USE DEF TypeInv, TypeOK, FlagTypes, ControlTypes, ThreadTypes, Thread, Main, Live
<1> USE DEF ExclusiveInv, UciLoops, ShutdownReached, ThreadStates, ScannedIdle, FirstClosed,
            ClosingPcs, Working
<1> USE DEF AnswerInv, ClosedIdle, HelpersAwaited, ParkInv, ShrinkIdle
<1> USE DEF SessionInv, HeldBack, AnswerAllowed
<1> USE DEF cmdVars, setupVars, engineVars, gateVars, parkVars, workVars, mainVars, protoVars,
            outputVars, poolVars, outerVars, restVars
<1>1. CASE Park(t)
  BY <1>1 DEF Park, Goto, ThreadPcs
<1>2. CASE StartSearch(t)
  BY <1>2 DEF StartSearch, Goto, ThreadPcs
<1>3. CASE BuildRootLines(t)
  BY <1>3 DEF BuildRootLines, Goto, ThreadPcs
<1>4. CASE NextDepth(t)
  BY <1>4 DEF NextDepth, Goto, ThreadPcs
<1>5. CASE AbandonDepth(t)
  BY <1>5 DEF AbandonDepth, Goto, ThreadPcs
<1>6. CASE Finalize(t)
  BY <1>6 DEF Finalize, Goto, ThreadPcs
<1>7. CASE Publish(t)
  BY <1>7 DEF Publish, Goto, ThreadPcs
<1>8. CASE Unlock(t)
  BY <1>8 DEF Unlock, GoIdle, Goto, ThreadPcs
<1>9. CASE Notify(t)
  BY <1>9 DEF Notify, NotifyAll, Goto, ThreadPcs
<1>10. CASE PassGate(t) /\ t # Main
  BY <1>10 DEF PassGate, Goto, ThreadPcs
<1>11. ASSUME NEW m \in Moves, NEW v \in Scores, CompleteDepth(t, m, v)
      PROVE SessionInv'
  BY <1>11 DEF CompleteDepth, Goto, ThreadPcs
<1> QED
  BY <1>1, <1>2, <1>3, <1>4, <1>5, <1>6, <1>7, <1>8, <1>9, <1>10, <1>11,
     SessionMainStep DEF ThreadStep

\* Reading a command and waking up release nothing.
LEMMA SessionOtherStep ==
  ASSUME TypeInv, ExclusiveInv, AnswerInv, ParkInv, JobInv, ResultInv, SessionInv, Next, ~UciStep,
     \A t \in Thread : ~ThreadStep(t) PROVE SessionInv'
<1> USE ThreadsAssumption
<1> USE DEF TypeInv, TypeOK, FlagTypes, ControlTypes, ThreadTypes, Thread, Main, Live
<1> USE DEF ExclusiveInv, UciLoops, ShutdownReached, ThreadStates, ScannedIdle, FirstClosed,
            ClosingPcs, Working
<1> USE DEF AnswerInv, ClosedIdle, HelpersAwaited, ParkInv, ShrinkIdle
<1> USE DEF SessionInv, HeldBack, AnswerAllowed
<1> USE DEF cmdVars, setupVars, engineVars, gateVars, parkVars, workVars, mainVars, protoVars,
            outputVars, poolVars, outerVars, restVars
<1>1. ASSUME NEW c \in Commands, ReadCommand(c)
      PROVE SessionInv'
  BY <1>1 DEF ReadCommand, EntryPoint, UciGoto, UciPcs, Command, Kinds
<1>2. ASSUME NEW t \in Thread, NEW a \in 0 .. MaxThreads, SpuriousWake(t, a)
      PROVE SessionInv'
  BY <1>2 DEF SpuriousWake, Thread
<1>3. ASSUME NEW t \in Thread, SpuriousGateWake(t)
      PROVE SessionInv'
  BY <1>3 DEF SpuriousGateWake, Thread
<1>4. CASE Terminated
  BY <1>4 DEF Terminated, vars
<1> QED
  BY <1>1, <1>2, <1>3, <1>4 DEF Next

\* At the start nothing is held.
LEMMA SessionInit == TypeInv /\ Init => SessionInv
<1>1. Init => pc[Main] = "park" /\ ~searching[Main]
  BY ThreadsAssumption DEF Init, Main, Thread
<1> QED  BY <1>1 DEF SessionInv, HeldBack, AnswerAllowed

\* SessionInv is inductive with the invariants before it.
LEMMA SessionStep ==
  TypeInv /\ ExclusiveInv /\ AnswerInv /\ ParkInv /\ JobInv /\ ResultInv /\ SessionInv /\ [Next]_vars
    => SessionInv'
<1> SUFFICES ASSUME TypeInv, ExclusiveInv, AnswerInv, ParkInv, JobInv, ResultInv, SessionInv, [Next]_vars
             PROVE  SessionInv'
  OBVIOUS
<1>1. CASE UNCHANGED vars
  BY <1>1 DEF SessionInv, HeldBack, AnswerAllowed, vars, cmdVars, setupVars, engineVars, gateVars, parkVars, workVars, mainVars, protoVars,
     outputVars, poolVars, restVars
<1>2. CASE UciStep
  BY <1>2, SessionUciStep
<1>3. ASSUME NEW t \in Thread, ThreadStep(t) PROVE SessionInv'
  BY <1>3, SessionThreadStep
<1>4. CASE Next /\ ~UciStep /\ \A t \in Thread : ~ThreadStep(t)
  BY <1>4, SessionOtherStep
<1> QED  BY <1>1, <1>2, <1>3, <1>4

\* SessionInv holds in every reachable state.
THEOREM SessionInvariant == Safety => []SessionInv
<1>1. Init => TypeInv /\ SessionInv
  BY InitTypes, SessionInit
<1>2. TypeInv /\ ExclusiveInv /\ AnswerInv /\ ParkInv /\ JobInv /\ ResultInv /\ SessionInv /\ [Next]_vars => SessionInv'
  BY SessionStep
<1> QED  BY <1>1, <1>2, AnswerInvariant, ParkInvariant, JobInvariant, ResultInvariant, PTL DEF Safety

-----------------------------------------------------------------------------
(* The refinement: each step is a step of the session, or the GUI sees none. *)

\* What the GUI sees does not change when board and answers do not, nor, while an
\* answer is owed, the request and what holds it.
LEMMA GuiSeesNothing ==
  ASSUME UNCHANGED <<board, best, asked, told>>,
         Owed => /\ UNCHANGED <<pondering>>
                 /\ job'[Main] = job[Main] /\ stop'[Main] = stop[Main]
  PROVE  UNCHANGED Session!sessionVars
<1>1. UNCHANGED Owed
  BY DEF Owed
<1>2. CASE Owed
  <2>1. UNCHANGED <<pondering>> /\ job'[Main] = job[Main] /\ stop'[Main] = stop[Main]
    BY <1>2, Zenon
  <2> QED  BY <1>1, <2>1, Zenon DEF Session!sessionVars
<1>3. CASE ~Owed
  <2>1. ~Owed /\ ~Owed'
    BY <1>1, <1>3
  <2>2. UNCHANGED (Owed /\ pondering)
    BY <2>1
  <2>3. UNCHANGED (Owed /\ job[Main].lim.infinite /\ ~stop[Main])
    BY <2>1
  <2>4. UNCHANGED (IF Owed THEN Candidates(job[Main]) ELSE {})
    BY <2>1
  <2> QED  BY <1>1, <2>2, <2>3, <2>4, Zenon DEF Session!sessionVars
<1> QED  BY <1>2, <1>3

\* ponderhit, a stop or spent limits end pondering: the hold is released.
LEMMA PonderingEnds ==
  ASSUME UNCHANGED <<board, best, asked, told, job, stop>>, pondering' = FALSE
  PROVE  [Session!SessionNext]_(Session!sessionVars)
<1>1. UNCHANGED <<Owed, Owed /\ job[Main].lim.infinite /\ ~stop[Main],
                  IF Owed THEN Candidates(job[Main]) ELSE {}>>
  BY DEF Owed
<1>2. CASE Owed /\ pondering
  <2>1. (Owed /\ pondering)' = FALSE
    OBVIOUS
  <2>2. Session!ReleasePonder
    BY <1>1, <1>2, <2>1 DEF Session!ReleasePonder
  <2> QED  BY <2>2 DEF Session!SessionNext
<1>3. CASE ~(Owed /\ pondering)
  <2>1. UNCHANGED (Owed /\ pondering)
    BY <1>1, <1>3
  <2> QED  BY <1>1, <2>1 DEF Session!sessionVars
<1> QED  BY <1>2, <1>3

\* A stop flag that is raised releases an infinite search, if it is the main worker's.
LEMMA StopReleases ==
  ASSUME TypeInv, UNCHANGED <<board, best, asked, told, job, pondering>>, NEW u,
         stop' = [stop EXCEPT ![u] = TRUE]
  PROVE  [Session!SessionNext]_(Session!sessionVars)
<1>1. UNCHANGED <<Owed, Owed /\ pondering, IF Owed THEN Candidates(job[Main]) ELSE {}>>
  BY DEF Owed
<1>2. stop'[Main] = stop[Main] \/ stop'[Main] = TRUE
  <2>1. Main \in Thread /\ stop \in [Thread -> BOOLEAN]
    BY ThreadsAssumption DEF TypeInv, TypeOK, ThreadTypes, Thread, Main
  <2> QED  BY <2>1
<1>3. CASE stop'[Main] = stop[Main]
  BY <1>3, GuiSeesNothing
<1>4. CASE stop'[Main] = TRUE
  <2>1. (Owed /\ job[Main].lim.infinite /\ ~stop[Main])' = FALSE
    BY <1>4
  <2>2. CASE Owed /\ job[Main].lim.infinite /\ ~stop[Main]
    <3>1. Session!ReleaseInfinite
      BY <1>1, <2>1, <2>2 DEF Session!ReleaseInfinite
    <3> QED  BY <3>1 DEF Session!SessionNext
  <2>3. CASE ~(Owed /\ job[Main].lim.infinite /\ ~stop[Main])
    <3>1. UNCHANGED (Owed /\ job[Main].lim.infinite /\ ~stop[Main])
      BY <2>1, <2>3
    <3> QED  BY <1>1, <3>1 DEF Session!sessionVars
  <2> QED  BY <2>2, <2>3
<1> QED  BY <1>2, <1>3, <1>4

\* The go is accepted when the main worker is woken: by then it is configured for
\* the request, on the engine's board.
LEMMA WakeAccepts ==
  ASSUME TypeInv, ExclusiveInv, AnswerInv, JobInv, WakeMain PROVE Session!SessionNext
<1> USE ThreadsAssumption DEF TypeInv, TypeOK, FlagTypes, ControlTypes, ThreadTypes, WorkTypes
<1>1. /\ upc = "wake" /\ Main \in Thread /\ Main < size
      /\ UNCHANGED <<board, best, told, pondering, job, stop>> /\ asked' = asked + 1
  BY DEF WakeMain, ExclusiveInv, UciLoops, Thread, Main, poolVars, workVars, setupVars
<1>2. ~Owed /\ Owed'
  <2>1. ~searching[Main]
    BY <1>1 DEF AnswerInv, HelpersAwaited
  <2> QED  BY <1>1, <2>1, OwedWhileSearching DEF Owed
<1>3. /\ cmd.lim.root \subseteq LegalMoves[board] /\ pondering = cmd.lim.ponder
      /\ ~stop[Main] /\ job[Main] = [pos |-> board, lim |-> cmd.lim]
  BY <1>1 DEF JobInv, RequestArmed, Configured
<1>4. cmd.lim.ponder \in BOOLEAN /\ cmd.lim.infinite \in BOOLEAN /\ cmd.lim.root \in SUBSET Moves
  BY DEF Command, Limits
<1>5. Candidates(job[Main]) = IF cmd.lim.root = {} THEN LegalMoves[board] ELSE cmd.lim.root
  <2>1. job[Main].pos = board /\ job[Main].lim = cmd.lim
    BY <1>3
  <2> QED  BY <1>3, <2>1 DEF Candidates
<1>6. Session!Accept(cmd.lim.ponder, cmd.lim.infinite, cmd.lim.root)
  <2>1. (Owed /\ pondering)' = cmd.lim.ponder
    BY <1>1, <1>2, <1>3, <1>4, Zenon
  <2>2. (Owed /\ job[Main].lim.infinite /\ ~stop[Main])' = cmd.lim.infinite
    <3>1. job'[Main].lim.infinite = cmd.lim.infinite /\ ~stop'[Main]
      BY <1>1, <1>3
    <3> QED  BY <1>2, <1>4, <3>1, Zenon
  <2>3. (IF Owed THEN Candidates(job[Main]) ELSE {})'
          = IF cmd.lim.root = {} THEN LegalMoves[board] ELSE cmd.lim.root
    BY <1>1, <1>2, <1>5
  <2> QED  BY <1>1, <1>2, <1>3, <2>1, <2>2, <2>3 DEF Session!Accept
<1> QED  BY <1>4, <1>6 DEF Session!SessionNext

\* The bestmove answers a search that nothing holds, with a move it allows.
LEMMA PublishAnswers ==
  ASSUME TypeInv, ExclusiveInv, AnswerInv, SessionInv, Publish(Main) PROVE Session!SessionNext
<1> USE ThreadsAssumption DEF TypeInv, TypeOK, FlagTypes, ControlTypes, ThreadTypes, WorkTypes
<1>1. /\ pc[Main] = "publish"
      /\ told' = told + 1 /\ best' = pending.move
      /\ UNCHANGED <<board, asked, pondering, job, stop>>
  BY DEF Publish, outerVars, engineVars, setupVars, poolVars, workVars
<1>2. Owed /\ ~Owed'
  <2>1. searching[Main]
    <3>1. Main \in Thread
      BY DEF Main, Thread
    <3> QED  BY <1>1, <3>1 DEF ExclusiveInv, ThreadStates, Working, ThreadPcs
  <2>2. asked = told + 1
    BY <1>1, <2>1 DEF AnswerInv, AnswerOwed, Answering
  <2> QED  BY <1>1, <2>2 DEF Owed
<1>3. ~pondering /\ ~(job[Main].lim.infinite /\ ~stop[Main])
  BY <1>1, Zenon DEF SessionInv, HeldBack
<1>4. pending.move \in IF Candidates(job[Main]) = {} THEN {NullMove} ELSE Candidates(job[Main])
  BY <1>1 DEF SessionInv, AnswerAllowed
<1>5. Session!Answer(pending.move)
  <2>1. ~(Owed /\ pondering) /\ ~(Owed /\ job[Main].lim.infinite /\ ~stop[Main])
    BY <1>3, Zenon
  <2>2. /\ UNCHANGED (Owed /\ pondering)
        /\ UNCHANGED (Owed /\ job[Main].lim.infinite /\ ~stop[Main])
        /\ (IF Owed THEN Candidates(job[Main]) ELSE {})' = {}
    BY <1>2, <2>1
  <2>3. pending.move \in IF (IF Owed THEN Candidates(job[Main]) ELSE {}) = {} THEN {Session!NullMove}
                         ELSE IF Owed THEN Candidates(job[Main]) ELSE {}
    BY <1>2, <1>4 DEF NullMove, Session!NullMove
  <2> QED  BY <1>1, <1>2, <2>1, <2>2, <2>3 DEF Session!Answer
<1>6. pending.move \in Moves \cup {Session!NullMove}
  BY DEF Line, NullMove, Session!NullMove
<1> QED  BY <1>5, <1>6 DEF Session!SessionNext, Session!AnswerSome

\* Each step of the UCI thread is one of the session's, or none the GUI sees.
LEMMA SessionOfUciStep ==
  ASSUME TypeInv, ExclusiveInv, AnswerInv, ParkInv, JobInv, UciStep
  PROVE  [Session!SessionNext]_(Session!sessionVars)
<1> USE ThreadsAssumption
<1> USE DEF cmdVars, setupVars, engineVars, gateVars, parkVars, workVars, mainVars, protoVars,
            outputVars, poolVars, outerVars, restVars
<1>1. \/ ScanThread \/ ScanEnd \/ Refuse \/ WakeHelper \/ ResetTable \/ GrowFails \/ BeginShrink
      \/ OpenGate \/ ShutdownWait \/ ShutdownSet \/ GrowPool
      => UNCHANGED <<board, best, asked, told, pondering, job, stop>>
  BY DEF ScanThread, ScanEnd, Refuse, WakeHelper, Wake, ResetTable, GrowFails, BeginShrink, OpenGate,
     ShutdownWait, ShutdownSet, GrowPool
<1>2. CASE UNCHANGED <<board, best, asked, told, pondering, job, stop>>
  BY <1>2, GuiSeesNothing
<1>3. CASE Arm \/ ConfigureThread \/ SetBoard \/ JoinThread
  <2>1. ~Owed
    <3>1. ~searching[Main]
      BY <1>3 DEF Arm, ConfigureThread, SetBoard, JoinThread, TypeInv, TypeOK, ControlTypes,
         ExclusiveInv, UciLoops, ScannedIdle, AnswerInv, ClosedIdle, ParkInv, ShrinkIdle, FirstClosed,
         ClosingPcs, Thread, Main
    <3> QED  BY <3>1, OwedWhileSearching
  <2>2. CASE SetBoard
    <3>1. UNCHANGED <<best, asked, told, pondering, job, stop>> /\ board' \in Positions
      BY <2>2 DEF SetBoard, TypeInv, TypeOK, WorkTypes, Command
    <3>2. Session!SetPosition
      BY <2>1, <3>1 DEF Session!SetPosition, Owed
    <3> QED  BY <3>2 DEF Session!SessionNext
  <2>3. CASE Arm \/ ConfigureThread \/ JoinThread
    <3>1. UNCHANGED <<board, best, asked, told>>
      BY <2>3 DEF Arm, ConfigureThread, JoinThread
    <3> QED  BY <2>1, <3>1, GuiSeesNothing
  <2> QED  BY <1>3, <2>2, <2>3
<1>4. CASE WakeMain
  BY <1>4, WakeAccepts
<1>5. CASE StopThread \/ ShutdownStop
  <2>1. UNCHANGED <<board, best, asked, told, job, pondering>>
    BY <1>5 DEF StopThread, ShutdownStop
  <2>2. stop' = [stop EXCEPT ![ui] = TRUE]
    BY <1>5 DEF StopThread, ShutdownStop, RaiseStop
  <2> QED  BY <2>1, <2>2, StopReleases
<1>6. CASE EndPonder
  <2>1. UNCHANGED <<board, best, asked, told, job, stop>> /\ pondering' = FALSE
    BY <1>6 DEF EndPonder, LeavePondering
  <2> QED  BY <2>1, PonderingEnds
<1> QED  BY <1>1, <1>2, <1>3, <1>4, <1>5, <1>6 DEF UciStep

\* So is each step of a thread.
LEMMA SessionOfThreadStep ==
  ASSUME TypeInv, ExclusiveInv, AnswerInv, SessionInv, NEW t \in Thread, ThreadStep(t)
  PROVE  [Session!SessionNext]_(Session!sessionVars)
<1> USE ThreadsAssumption
<1> USE DEF cmdVars, setupVars, engineVars, gateVars, parkVars, workVars, mainVars, protoVars,
            outputVars, poolVars, outerVars, restVars
<1> DEFINE quiet == UNCHANGED <<board, best, asked, told, pondering, job, stop>>
<1>1. \/ Park(t) \/ StartSearch(t) \/ BuildRootLines(t) \/ NextDepth(t) \/ AbandonDepth(t)
      \/ Unlock(t) \/ Notify(t) \/ PassGate(t)
      => quiet
  BY DEF Park, StartSearch, BuildRootLines, NextDepth, AbandonDepth, Unlock, Notify, PassGate
<1>2. Finalize(t) \/ (\E m \in Moves, v \in Scores : CompleteDepth(t, m, v)) => quiet
  BY DEF Finalize, CompleteDepth
<1>3. \/ AdvanceGeneration \/ Release \/ PollLimits \/ PollOpenGate \/ HoldPonder
      \/ HoldInfinite \/ AwaitHelper \/ \E sel \in Line : Select(sel)
      => quiet
  BY DEF AdvanceGeneration, Release, PollLimits, PollOpenGate, HoldPonder, HoldInfinite,
     AwaitHelper, Select
<1>4. Publish(t) /\ t # Main => quiet
  BY DEF Publish
<1>5. CASE quiet
  BY <1>5, GuiSeesNothing
<1>6. CASE Publish(t) /\ t = Main
  BY <1>6, PublishAnswers
<1>7. CASE PollStop \/ StopHelper
  <2>1. UNCHANGED <<board, best, asked, told, job, pondering>>
    BY <1>7 DEF PollStop, StopHelper
  <2>2. stop' = [stop EXCEPT ![mi] = TRUE]
    BY <1>7 DEF PollStop, StopHelper, RaiseStop
  <2> QED  BY <2>1, <2>2, StopReleases
<1>8. CASE PollEndPonder
  <2>1. UNCHANGED <<board, best, asked, told, job, stop>> /\ pondering' = FALSE
    BY <1>8 DEF PollEndPonder, LeavePondering
  <2> QED  BY <2>1, PonderingEnds
<1> QED  BY <1>1, <1>2, <1>3, <1>4, <1>5, <1>6, <1>7, <1>8 DEF ThreadStep, MainStep

\* A command that is read, and a spurious wake-up, are not seen.
LEMMA SessionOfOtherStep ==
  ASSUME Next, ~UciStep, \A t \in Thread : ~ThreadStep(t)
  PROVE  UNCHANGED Session!sessionVars
<1>1. UNCHANGED <<board, best, asked, told, pondering, job, stop>>
  BY DEF Next, ReadCommand, SpuriousWake, SpuriousGateWake, Terminated, vars, setupVars, engineVars,
     parkVars, workVars, protoVars, outputVars, poolVars, outerVars, restVars
<1> QED  BY <1>1, GuiSeesNothing

\* The pool starts as the session does.
LEMMA SessionStarts == Init => Session!SessionInit
<1> SUFFICES ASSUME Init PROVE Session!SessionInit
  OBVIOUS
<1>1. ~Owed /\ board = InitialPosition /\ best = NoAnswer
  BY DEF Init, Owed
<1> QED  BY <1>1 DEF Session!SessionInit, NoAnswer, Session!NoAnswer

\* Whatever threads it uses, the engine keeps the session's promise: searches one at
\* a time on a board that does not move, each answered once, by an allowed move, not
\* before ponderhit or stop when these are to come first.
THEOREM SessionIsImplemented == Safety => ImplementsSessionSafety
<1>1. /\ TypeInv /\ ExclusiveInv /\ AnswerInv /\ ParkInv /\ JobInv /\ SessionInv
      /\ [Next]_vars
      => [Session!SessionNext]_(Session!sessionVars)
  <2> SUFFICES ASSUME TypeInv, ExclusiveInv, AnswerInv, ParkInv, JobInv, SessionInv, [Next]_vars
               PROVE  [Session!SessionNext]_(Session!sessionVars)
    OBVIOUS
  <2>1. CASE UNCHANGED vars
    <3>1. UNCHANGED <<board, best, asked, told, pondering, job, stop>>
      BY <2>1 DEF vars, engineVars, setupVars, restVars, poolVars, workVars, outputVars, protoVars
    <3> QED  BY <3>1, GuiSeesNothing
  <2>2. CASE UciStep
    BY <2>2, SessionOfUciStep
  <2>3. ASSUME NEW t \in Thread, ThreadStep(t) PROVE [Session!SessionNext]_(Session!sessionVars)
    BY <2>3, SessionOfThreadStep
  <2>4. CASE Next /\ ~UciStep /\ \A t \in Thread : ~ThreadStep(t)
    BY <2>4, SessionOfOtherStep
  <2> QED  BY <2>1, <2>2, <2>3, <2>4
<1> QED
  BY <1>1, SessionStarts, AnswerInvariant, ParkInvariant, JobInvariant, SessionInvariant, PTL
     DEF Safety, ImplementsSessionSafety, Session!SessionSafety
=============================================================================
