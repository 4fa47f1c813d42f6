-------------------------------- MODULE Limits --------------------------------
(***************************************************************************)
(* From the numbers of a go command to the limits of a search and the time *)
(* it may take, in the integers of the code: an optional number is a set   *)
(* of at most one, a Milliseconds count wraps where it leaves its width.   *)
(* Source: search/limits.hpp, search/limits.cpp, uci/engine.cpp.           *)
(***************************************************************************)
EXTENDS Integers

CONSTANTS
    MaxTime,       \* the largest Milliseconds count
    MaxInt,        \* the largest int
    MaxNodes,      \* the largest NodeCount
    MaxDepth,      \* engine::max_search_depth
    SearchBuffer,  \* 50 ms
    LeastTime,     \* 10 ms
    DefaultMoves,  \* 30 moves to go
    Requests       \* the numbers of the go commands that occur

Rep == -MaxTime - 1 .. MaxTime
Int32 == -MaxInt - 1 .. MaxInt

ASSUME LimitsAssumption ==
    /\ MaxTime \in Nat /\ MaxInt \in Nat /\ MaxInt <= MaxTime /\ MaxNodes \in Nat
    /\ MaxDepth \in 1 .. MaxInt /\ DefaultMoves \in 1 .. MaxInt
    /\ SearchBuffer \in 0 .. MaxTime /\ LeastTime \in 1 .. MaxTime

Colors == {"WHITE", "BLACK"}

VARIABLES
    limits,      \* the Limits of the search
    allocated,   \* Worker::allocated_time
    side         \* history: the side allocated_time was asked for, or "none"

vars == <<limits, allocated, side>>

-----------------------------------------------------------------------------
Optional(S) == {{}} \union {{n} : n \in S}
MaxOf(a, b) == IF a >= b THEN a ELSE b
Clamp(n, lo, hi) == IF n < lo THEN lo ELSE IF n > hi THEN hi ELSE n

AtLeast(lo, optional) == {MaxOf(n, lo) : n \in optional}
ValueOr(optional, default) == IF optional = {} THEN default ELSE CHOOSE n \in optional : TRUE

\* Two's complement in the width of Milliseconds.
Wrap(n) == IF n > MaxTime THEN n - 2 * (MaxTime + 1) ELSE n

\* What the parser reads: an int, a count of nodes, counts of milliseconds.
Parameters ==
    [depth : Optional(Int32), movestogo : Optional(Int32), mate : Optional(Int32),
     nodes : Optional(0 .. MaxNodes), movetime : Optional(Rep),
     wtime : Optional(Rep), btime : Optional(Rep), winc : Optional(Rep), binc : Optional(Rep),
     infinite : BOOLEAN, ponder : BOOLEAN]

ASSUME RequestsAssumption == Requests \subseteq Parameters

DepthOf(depth) == IF depth = {} THEN MaxDepth ELSE Clamp(ValueOr(depth, 1), 1, MaxDepth)

\* The setters a go command calls.
LimitsOf(p) ==
    [depth |-> DepthOf(p.depth), movestogo |-> AtLeast(1, p.movestogo), mate |-> AtLeast(1, p.mate),
     nodes |-> p.nodes, movetime |-> AtLeast(1, p.movetime),
     wtime |-> AtLeast(0, p.wtime), btime |-> AtLeast(0, p.btime),
     winc |-> AtLeast(0, p.winc), binc |-> AtLeast(0, p.binc),
     infinite |-> p.infinite, ponder |-> p.ponder]

TimeOf(l, c) == IF c = "WHITE" THEN l.wtime ELSE l.btime
IncrementOf(l, c) == IF c = "WHITE" THEN l.winc ELSE l.binc

\* Seeded fault: the sum is taken as it comes.
AvailableSum(share, increment) == Wrap(share + increment)

Available(share, increment) ==
    IF increment > MaxTime - share THEN MaxTime ELSE Wrap(share + increment)

Share(l, c) ==
    MaxOf(0, ValueOr(TimeOf(l, c), 0) \div MaxOf(ValueOr(l.movestogo, DefaultMoves), 1))

AllocatedTime(l, c) ==
    LET available == Available(Share(l, c), MaxOf(0, ValueOr(IncrementOf(l, c), 0)))
        buffered == IF available > SearchBuffer THEN available - SearchBuffer ELSE 0
    IN  IF l.movetime # {} THEN l.movetime
        ELSE IF l.wtime # {} /\ l.btime # {} THEN {MaxOf(LeastTime, buffered)}
        ELSE {}

-----------------------------------------------------------------------------
NoParameters ==
    [depth |-> {}, movestogo |-> {}, mate |-> {}, nodes |-> {}, movetime |-> {},
     wtime |-> {}, btime |-> {}, winc |-> {}, binc |-> {}, infinite |-> FALSE, ponder |-> FALSE]

Init == limits = LimitsOf(NoParameters) /\ allocated = {} /\ side = "none"

\* One go command: its fresh limits, and the main worker configured for the side
\* to move.
Go(p, c) ==
    /\ side = "none"
    /\ limits' = LimitsOf(p)
    /\ allocated' = AllocatedTime(limits', c)
    /\ side' = c

Next == \E p \in Requests, c \in Colors : Go(p, c)

Spec == Init /\ [][Next]_vars

-----------------------------------------------------------------------------
\* What the search divides by, counts down and compares with is in range,
\* whatever numbers the command held (Limits::set_*).
LimitsInRange ==
    /\ limits.depth \in 1 .. MaxDepth
    /\ limits.movestogo \in Optional(1 .. MaxInt) /\ limits.mate \in Optional(1 .. MaxInt)
    /\ limits.nodes \in Optional(0 .. MaxNodes)
    /\ limits.movetime \in Optional(1 .. MaxTime)
    /\ \A time \in {limits.wtime, limits.btime, limits.winc, limits.binc} :
         time \in Optional(0 .. MaxTime)

\* Without a movetime, and with both clocks, the time is the share of the own
\* clock and the increment less the buffer, computed without wrapping: it stops
\* at the largest count, and is never less than the least time.  Otherwise the
\* movetime or no limit (Limits::allocated_time).
AllocationIsExact ==
    side # "none" =>
      LET moves == IF limits.movestogo = {} THEN DefaultMoves ELSE ValueOr(limits.movestogo, 1)
          sum == ValueOr(TimeOf(limits, side), 0) \div moves + ValueOr(IncrementOf(limits, side), 0)
      IN  /\ limits.movetime # {} => allocated = limits.movetime
          /\ limits.movetime = {} =>
               IF {} \in {limits.wtime, limits.btime} THEN allocated = {}
               ELSE allocated = {IF sum > MaxTime THEN MaxOf(LeastTime, MaxTime - SearchBuffer)
                                 ELSE MaxOf(LeastTime, sum - SearchBuffer)}

\* A limit that is given can expire: it is a positive count inside the width
\* that runtime() is compared with (Worker::poll_search_limits).
AllocationCanExpire == allocated \in Optional(1 .. MaxTime)

\* Whatever numbers a go command holds, the search it starts has limits it can
\* work with and the time they say.
LimitsAreSound == LimitsInRange /\ AllocationIsExact /\ AllocationCanExpire
===============================================================================
