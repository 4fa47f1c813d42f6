----------------------------- MODULE NumberProofs -----------------------------
(* The numbers of fixed width. Limits: the limits and the time of a search,  *)
(* for every width of the counts and every command. MateScores: mate scores  *)
(* keep their distance, and scores their 16 bits, for every width and number *)
(* of plies that leaves a mate band.                                         *)
EXTENDS Limits, MateScores, TLAPS

-----------------------------------------------------------------------------
(* Limits.                                                                   *)


LEMMA OptionalCases ==
    ASSUME NEW S, NEW x \in Optional(S), NEW d
    PROVE  \/ x = {} /\ ValueOr(x, d) = d
           \/ \E n \in S : x = {n} /\ ValueOr(x, d) = n
  <1>1. CASE x = {}
    BY <1>1 DEF ValueOr
  <1>2. CASE x # {}
    <2>1. PICK n \in S : x = {n}
      BY <1>2 DEF Optional
    <2>2. (CHOOSE k \in {n} : TRUE) = n
      OBVIOUS
    <2> QED
      BY <1>2, <2>1, <2>2 DEF ValueOr
  <1> QED
    BY <1>1, <1>2

LEMMA AtLeastRange ==
    ASSUME NEW lo \in Nat, NEW hi \in Nat, lo <= hi, NEW x \in Optional(-hi - 1 .. hi)
    PROVE  AtLeast(lo, x) \in Optional(lo .. hi)
  <1>1. CASE x = {}
    BY <1>1 DEF AtLeast, Optional
  <1>2. CASE x # {}
    <2>1. PICK n \in -hi - 1 .. hi : x = {n}
      BY <1>2 DEF Optional
    <2>2. AtLeast(lo, x) = {MaxOf(n, lo)}
      BY <2>1 DEF AtLeast
    <2>3. MaxOf(n, lo) \in lo .. hi
      BY <2>1 DEF MaxOf
    <2> QED
      BY <2>2, <2>3 DEF Optional
  <1> QED
    BY <1>1, <1>2

LEMMA Widths ==
    /\ MaxTime \in Nat /\ MaxInt \in Nat /\ MaxNodes \in Nat
    /\ MaxDepth \in 1 .. MaxInt /\ DefaultMoves \in 1 .. MaxInt
    /\ SearchBuffer \in 0 .. MaxTime /\ LeastTime \in 1 .. MaxTime
    /\ MaxInt >= 1 /\ MaxTime >= 1
  BY LimitsAssumption

-----------------------------------------------------------------------------
\* The setters.

InRange(l) ==
    /\ l.depth \in 1 .. MaxDepth
    /\ l.movestogo \in Optional(1 .. MaxInt) /\ l.mate \in Optional(1 .. MaxInt)
    /\ l.nodes \in Optional(0 .. MaxNodes)
    /\ l.movetime \in Optional(1 .. MaxTime)
    /\ l.wtime \in Optional(0 .. MaxTime) /\ l.btime \in Optional(0 .. MaxTime)
    /\ l.winc \in Optional(0 .. MaxTime) /\ l.binc \in Optional(0 .. MaxTime)

LEMMA SettersClamp ==
    ASSUME NEW p \in Parameters
    PROVE  InRange(LimitsOf(p))
  <1>1. DepthOf(p.depth) \in 1 .. MaxDepth
    <2>1. p.depth \in Optional(Int32)
      BY DEF Parameters
    <2>2. CASE p.depth = {}
      BY <2>2, Widths DEF DepthOf
    <2>3. CASE p.depth # {}
      <3>1. PICK n \in Int32 : ValueOr(p.depth, 1) = n
        BY <2>1, <2>3, OptionalCases
      <3> QED
        BY <2>3, <3>1, Widths DEF DepthOf, Clamp, Int32
    <2> QED
      BY <2>2, <2>3
  <1>2. AtLeast(1, p.movestogo) \in Optional(1 .. MaxInt) /\ AtLeast(1, p.mate) \in Optional(1 .. MaxInt)
    <2>1. p.movestogo \in Optional(-MaxInt - 1 .. MaxInt) /\ p.mate \in Optional(-MaxInt - 1 .. MaxInt)
      BY DEF Parameters, Int32
    <2> QED
      BY <2>1, Widths, AtLeastRange
  <1>3. AtLeast(1, p.movetime) \in Optional(1 .. MaxTime)
    <2>1. p.movetime \in Optional(-MaxTime - 1 .. MaxTime)
      BY DEF Parameters, Rep
    <2> QED
      BY <2>1, Widths, AtLeastRange
  <1>4. \A x \in {p.wtime, p.btime, p.winc, p.binc} : AtLeast(0, x) \in Optional(0 .. MaxTime)
    <2>1. \A x \in {p.wtime, p.btime, p.winc, p.binc} : x \in Optional(-MaxTime - 1 .. MaxTime)
      BY DEF Parameters, Rep
    <2> QED
      BY <2>1, Widths, AtLeastRange
  <1>5. p.nodes \in Optional(0 .. MaxNodes)
    BY DEF Parameters
  <1> QED
    BY <1>1, <1>2, <1>3, <1>4, <1>5 DEF LimitsOf, InRange

LEMMA NothingGiven == NoParameters \in Parameters
  BY DEF NoParameters, Parameters, Optional

-----------------------------------------------------------------------------
\* The arithmetic of the allocation.

LEMMA Quotients ==
    ASSUME NEW a \in Nat, NEW m \in Nat \ {0}
    PROVE  a \div m \in 0 .. a
  BY Z3

\* The test before the sum keeps it inside the width.
LEMMA AvailableIsSaturated ==
    ASSUME NEW share \in 0 .. MaxTime, NEW increment \in 0 .. MaxTime
    PROVE  Available(share, increment) =
             IF share + increment > MaxTime THEN MaxTime ELSE share + increment
  BY Widths DEF Available, Wrap

LEMMA ExactTime ==
    ASSUME NEW l, InRange(l), NEW c \in Colors
    PROVE  LET moves == IF l.movestogo = {} THEN DefaultMoves ELSE ValueOr(l.movestogo, 1)
               sum == ValueOr(TimeOf(l, c), 0) \div moves + ValueOr(IncrementOf(l, c), 0)
           IN  /\ l.movetime # {} => AllocatedTime(l, c) = l.movetime
               /\ l.movetime = {} =>
                    IF {} \in {l.wtime, l.btime} THEN AllocatedTime(l, c) = {}
                    ELSE AllocatedTime(l, c) =
                           {IF sum > MaxTime THEN MaxOf(LeastTime, MaxTime - SearchBuffer)
                            ELSE MaxOf(LeastTime, sum - SearchBuffer)}
  <1> DEFINE moves == IF l.movestogo = {} THEN DefaultMoves ELSE ValueOr(l.movestogo, 1)
             time == ValueOr(TimeOf(l, c), 0)
             increment == ValueOr(IncrementOf(l, c), 0)
             share == time \div moves
             sum == share + increment
  <1>1. moves \in 1 .. MaxInt /\ moves = MaxOf(ValueOr(l.movestogo, DefaultMoves), 1)
    <2>1. l.movestogo \in Optional(1 .. MaxInt)
      BY DEF InRange
    <2>2. CASE l.movestogo = {}
      BY <2>2, Widths DEF ValueOr, MaxOf
    <2>3. CASE l.movestogo # {}
      <3>1. PICK n \in 1 .. MaxInt : l.movestogo = {n}
        BY <2>1, <2>3 DEF Optional
      <3>2. ValueOr(l.movestogo, 1) = n /\ ValueOr(l.movestogo, DefaultMoves) = n
        BY <2>1, <2>3, <3>1, OptionalCases
      <3> QED
        BY <2>3, <3>2, Widths DEF MaxOf
    <2> QED
      BY <2>2, <2>3
  <1>2. time \in 0 .. MaxTime
    <2>1. TimeOf(l, c) \in Optional(0 .. MaxTime)
      BY DEF InRange, TimeOf
    <2> QED
      BY <2>1, Widths, OptionalCases
  <1>3. increment \in 0 .. MaxTime
    <2>1. IncrementOf(l, c) \in Optional(0 .. MaxTime)
      BY DEF InRange, IncrementOf
    <2> QED
      BY <2>1, Widths, OptionalCases
  <1> HIDE DEF moves, time, increment
  <1>4. share \in 0 .. MaxTime
    <2>1. share \in 0 .. time
      BY <1>1, <1>2, Widths, Quotients
    <2> QED
      BY <1>2, <2>1, Widths
  <1>5. Share(l, c) = share
    <2>1. Share(l, c) = MaxOf(0, share)
      BY <1>1 DEF Share, time
    <2> QED
      BY <1>4, <2>1, Widths DEF MaxOf
  <1>6. MaxOf(0, increment) = increment
    BY <1>3, Widths DEF MaxOf
  <1> HIDE DEF share
  <1>7. Available(Share(l, c), MaxOf(0, increment)) = IF sum > MaxTime THEN MaxTime ELSE sum
    BY <1>3, <1>4, <1>5, <1>6, AvailableIsSaturated
  <1> DEFINE available == Available(Share(l, c), MaxOf(0, increment))
             buffered == IF available > SearchBuffer THEN available - SearchBuffer ELSE 0
  <1>8. MaxOf(LeastTime, buffered) = IF sum > MaxTime THEN MaxOf(LeastTime, MaxTime - SearchBuffer)
                                     ELSE MaxOf(LeastTime, sum - SearchBuffer)
    BY <1>3, <1>4, <1>7, Widths DEF MaxOf
  <1>9. AllocatedTime(l, c) =
          IF l.movetime # {} THEN l.movetime
          ELSE IF l.wtime # {} /\ l.btime # {} THEN {MaxOf(LeastTime, buffered)} ELSE {}
    BY DEF AllocatedTime, increment
  <1> QED
    BY <1>8, <1>9 DEF share, time, moves, increment

-----------------------------------------------------------------------------
Inv == /\ InRange(limits) /\ side \in Colors \union {"none"}
       /\ AllocationIsExact /\ (side = "none" => allocated = {})

LEMMA InitInv == Init => Inv
  BY SettersClamp, NothingGiven DEF Init, Inv, AllocationIsExact

LEMMA StepInv == Inv /\ [Next]_vars => Inv'
  <1> SUFFICES ASSUME Inv, [Next]_vars PROVE Inv'
    OBVIOUS
  <1>1. ASSUME NEW p \in Requests, NEW c \in Colors, Go(p, c) PROVE Inv'
    <2>1. p \in Parameters
      BY RequestsAssumption
    <2>2. limits' = LimitsOf(p) /\ allocated' = AllocatedTime(limits', c) /\ side' = c
      BY <1>1 DEF Go
    <2>3. InRange(limits')
      BY <2>1, <2>2, SettersClamp
    <2>4. AllocationIsExact'
      BY <2>2, <2>3, ExactTime DEF AllocationIsExact
    <2>5. side' \in Colors /\ side' # "none"
      BY <2>2 DEF Colors
    <2>6. InRange(limits)'
      BY <2>3 DEF InRange
    <2> QED
      BY <2>4, <2>5, <2>6 DEF Inv
  <1>2. CASE UNCHANGED vars
    BY <1>2 DEF vars, Inv, InRange, AllocationIsExact
  <1> QED
    BY <1>1, <1>2 DEF Next

LEMMA Invariant == Spec => []Inv
  BY InitInv, StepInv, PTL DEF Spec

\* Every number of a command is brought into the range the search needs.
THEOREM LimitsAreInRange == Spec => []LimitsInRange
  <1>1. Inv => LimitsInRange
    BY DEF Inv, InRange, LimitsInRange
  <1> QED
    BY <1>1, Invariant, PTL

\* The allocation is the unbounded sum saturated: no clock and no increment
\* makes it wrap.
THEOREM AllocationNeverWraps == Spec => []AllocationIsExact
  <1>1. Inv => AllocationIsExact
    BY DEF Inv
  <1> QED
    BY <1>1, Invariant, PTL

\* A time limit that is given is positive and inside the width.
THEOREM AllocationsCanExpire == Spec => []AllocationCanExpire
  <1>1. Inv => AllocationCanExpire
    <2> SUFFICES ASSUME Inv PROVE AllocationCanExpire
      OBVIOUS
    <2> DEFINE moves == IF limits.movestogo = {} THEN DefaultMoves ELSE ValueOr(limits.movestogo, 1)
               sum == ValueOr(TimeOf(limits, side), 0) \div moves
                        + ValueOr(IncrementOf(limits, side), 0)
    <2>1. {} \in Optional(1 .. MaxTime)
      BY DEF Optional
    <2>2. CASE side = "none"
      BY <2>1, <2>2 DEF Inv, AllocationCanExpire
    <2>3. CASE side # "none" /\ limits.movetime # {}
      BY <2>3 DEF Inv, InRange, AllocationIsExact, AllocationCanExpire
    <2>4. CASE side # "none" /\ limits.movetime = {} /\ {} \in {limits.wtime, limits.btime}
      BY <2>1, <2>4 DEF Inv, AllocationIsExact, AllocationCanExpire
    <2>5. CASE side # "none" /\ limits.movetime = {} /\ {} \notin {limits.wtime, limits.btime}
      <3>1. allocated = {IF sum > MaxTime THEN MaxOf(LeastTime, MaxTime - SearchBuffer)
                         ELSE MaxOf(LeastTime, sum - SearchBuffer)}
        BY <2>5 DEF Inv, AllocationIsExact
      <3>2. sum \in Int
        <4>1. moves \in 1 .. MaxInt
          <5>1. limits.movestogo \in Optional(1 .. MaxInt)
            BY DEF Inv, InRange
          <5> QED
            BY <5>1, Widths, OptionalCases
        <4>2. ValueOr(TimeOf(limits, side), 0) \in 0 .. MaxTime
          <5>1. TimeOf(limits, side) \in Optional(0 .. MaxTime)
            BY DEF Inv, InRange, TimeOf
          <5> QED
            BY <5>1, Widths, OptionalCases
        <4>3. ValueOr(IncrementOf(limits, side), 0) \in 0 .. MaxTime
          <5>1. IncrementOf(limits, side) \in Optional(0 .. MaxTime)
            BY DEF Inv, InRange, IncrementOf
          <5> QED
            BY <5>1, Widths, OptionalCases
        <4> QED
          BY <4>1, <4>2, <4>3
      <3> HIDE DEF sum
      <3>3. (IF sum > MaxTime THEN MaxOf(LeastTime, MaxTime - SearchBuffer)
             ELSE MaxOf(LeastTime, sum - SearchBuffer)) \in 1 .. MaxTime
        BY <3>2, Widths DEF MaxOf
      <3> QED
        BY <3>1, <3>3 DEF AllocationCanExpire, Optional
    <2> QED
      BY <2>2, <2>3, <2>4, <2>5
  <1> QED
    BY <1>1, Invariant, PTL

\* All of it together: whatever numbers a go command holds, the search it
\* starts has limits it can work with and the time they say.
THEOREM LimitsStaySound == Spec => []LimitsAreSound
  <1>1. LimitsInRange /\ AllocationIsExact /\ AllocationCanExpire => LimitsAreSound
    BY DEF LimitsAreSound
  <1> QED
    BY <1>1, LimitsAreInRange, AllocationNeverWraps, AllocationsCanExpire, PTL

-----------------------------------------------------------------------------
(* Mate scores.                                                              *)


\* What a stored score is of: the mate that many plies away, or an evaluation.
EntryInv ==
    IF entry.distance = NoMate
    THEN entry.score \in -(TtMateBound - 1) .. TtMateBound - 1
    ELSE entry.score = MateScore(0, entry.distance)

NodeInv ==
    IF distance = NoMate
    THEN value \in -(TtMateBound - 1) .. TtMateBound - 1
    ELSE value = MateScore(ply, distance) /\ ply + distance <= 2 * MaxPly

\* The evaluations themselves, negated on the way up, and the draw of the start.
StaticScores == Evaluations \union {-e : e \in Evaluations} \union {0}

\* What is no mate is one of them, at a node and in the table.
StaticInv ==
    /\ distance = NoMate => value \in StaticScores
    /\ entry.distance = NoMate => entry.score \in StaticScores

ScoreInv == ScoresTyped /\ EntryInv /\ NodeInv

LEMMA Bounds ==
    /\ MaxPly \in Nat \ {0} /\ Inf \in Nat /\ Mate \in Int /\ TtMateBound \in Int
    /\ Mate = Inf - 1 /\ TtMateBound = Mate - 2 * MaxPly /\ TtMateBound > 0
    /\ Evaluations \subseteq -(TtMateBound - 1) .. TtMateBound - 1
    /\ 0 \in -(TtMateBound - 1) .. TtMateBound - 1
  BY ScoresAssumption, MateScoresAssumption DEF Mate, TtMateBound

LEMMA Parity ==
    ASSUME NEW n \in Nat
    PROVE  n % 2 = 1 <=> (n + 1) % 2 # 1
  OBVIOUS

LEMMA MateScoreBand ==
    ASSUME NEW at \in Nat, NEW plies \in Nat, at + plies <= 2 * MaxPly
    PROVE  /\ MateScore(at, plies) \in Int
           /\ plies % 2 = 1 => MateScore(at, plies) \in TtMateBound .. Mate
           /\ plies % 2 # 1 => MateScore(at, plies) \in -Mate .. -TtMateBound
  BY Bounds DEF MateScore

\* A mate score is stored as the count from its own node, and found again as
\* the count from the finder's (store's first step, score_at_ply).
LEMMA MateShift ==
    ASSUME NEW at \in Nat, NEW plies \in Nat, at + plies <= 2 * MaxPly
    PROVE  /\ Stored(MateScore(at, plies), at) = MateScore(0, plies)
           /\ ScoreAtPly(MateScore(0, plies), at) = MateScore(at, plies)
  <1>1. CASE plies % 2 = 1
    BY <1>1, Bounds DEF MateScore, Stored, ScoreAtPly
  <1>2. CASE plies % 2 # 1
    BY <1>2, Bounds DEF MateScore, Stored, ScoreAtPly
  <1> QED
    BY <1>1, <1>2

\* An evaluation is shifted neither way.
LEMMA EvaluationShift ==
    ASSUME NEW score \in -(TtMateBound - 1) .. TtMateBound - 1, NEW at \in Int
    PROVE  Stored(score, at) = score /\ ScoreAtPly(score, at) = score
  BY Bounds DEF Stored, ScoreAtPly

LEMMA InitScore == MateInit => ScoreInv
  BY Bounds DEF MateInit, ScoreInv, ScoresTyped, EntryInv, NodeInv, Empty, NoMate, Distances

LEMMA StepScore == ScoreInv /\ [MateNext]_mateVars => ScoreInv'
  <1> SUFFICES ASSUME ScoreInv, [MateNext]_mateVars PROVE ScoreInv'
    OBVIOUS
  <1> USE DEF ScoreInv, ScoresTyped, EntryInv, NodeInv
  <1>1. ASSUME Return PROVE ScoreInv'
    <2>1. CASE distance = NoMate
      BY <1>1, <2>1, Bounds DEF Return, NoMate, Distances
    <2>2. CASE distance # NoMate
      <3>1. distance \in Nat /\ ply \in Nat /\ ply > 0 /\ ply + distance <= 2 * MaxPly
        BY <1>1, <2>2, Bounds DEF Return, Distances
      <3>2. /\ distance' = distance + 1 /\ ply' = ply - 1 /\ entry' = entry
            /\ value' = -MateScore(ply, distance)
        BY <1>1, <2>2 DEF Return
      <3>3. -MateScore(ply, distance) = MateScore(ply - 1, distance + 1)
        BY <3>1, Bounds, Parity DEF MateScore
      <3>4. MateScore(ply - 1, distance + 1) \in Int
        BY <3>1, MateScoreBand
      <3>5. distance + 1 # NoMate /\ distance + 1 \in Distances /\ ply - 1 \in 0 .. MaxPly
        BY <3>1, Bounds DEF NoMate, Distances
      <3> QED
        BY <3>1, <3>2, <3>3, <3>4, <3>5
    <2> QED
      BY <2>1, <2>2
  <1>2. ASSUME Store PROVE ScoreInv'
    <2>1. ply \in Nat /\ UNCHANGED <<value, ply, distance>>
      BY <1>2, Bounds DEF Store
    <2>2. entry' = [used |-> TRUE, score |-> Stored(value, ply), distance |-> distance]
      BY <1>2 DEF Store
    <2>3. CASE distance = NoMate
      <3>1. Stored(value, ply) = value
        BY <2>1, <2>3, EvaluationShift
      <3> QED
        BY <2>1, <2>2, <2>3, <3>1
    <2>4. CASE distance # NoMate
      <3>1. distance \in Nat
        BY <2>4 DEF Distances
      <3>2. Stored(value, ply) = MateScore(0, distance)
        BY <2>1, <2>4, <3>1, MateShift
      <3>3. MateScore(0, distance) \in Int
        BY <2>1, <2>4, <3>1, Bounds, MateScoreBand
      <3> QED
        BY <2>1, <2>2, <2>4, <3>2, <3>3
    <2> QED
      BY <2>3, <2>4
  <1>3. ASSUME NEW at \in Nodes, Probe(at) PROVE ScoreInv'
    <2>1. /\ at \in Nat /\ at \in 0 .. MaxPly /\ entry' = entry
          /\ value' = ScoreAtPly(entry.score, at)
          /\ ply' = at /\ distance' = entry.distance /\ entry.distance + at <= 2 * MaxPly
      BY <1>3, Bounds DEF Probe, Nodes
    <2>2. CASE entry.distance = NoMate
      BY <2>1, <2>2, EvaluationShift
    <2>3. CASE entry.distance # NoMate
      <3>1. entry.distance \in Nat
        BY <2>3 DEF Distances
      <3>2. value' = MateScore(at, entry.distance)
        BY <2>1, <2>3, <3>1, MateShift
      <3>3. MateScore(at, entry.distance) \in Int
        BY <2>1, <3>1, MateScoreBand
      <3> QED
        BY <2>1, <2>3, <3>1, <3>2, <3>3
    <2> QED
      BY <2>2, <2>3
  <1>4. ASSUME NEW at \in Nodes \union {0}, Checkmate(at) PROVE ScoreInv'
    <2>1. at \in 0 .. MaxPly /\ at \in Nat
      BY <1>4, Bounds DEF Nodes
    <2>2. value' = -Mate + at /\ ply' = at /\ distance' = 0 /\ entry' = entry
      BY <1>4 DEF Checkmate
    <2>3. MateScore(at, 0) = -Mate + at
      BY <2>1, Bounds DEF MateScore
    <2> QED
      BY <2>1, <2>2, <2>3, Bounds DEF NoMate, Distances
  <1>5. ASSUME NEW at \in 1 .. MaxPly, NEW score \in Evaluations, Evaluate(at, score)
        PROVE  ScoreInv'
    BY <1>5, Bounds DEF Evaluate
  <1>6. CASE UNCHANGED mateVars
    BY <1>6 DEF mateVars
  <1> QED
    BY <1>1, <1>2, <1>3, <1>4, <1>5, <1>6 DEF MateNext

LEMMA ScoreInvariant == MateSpec => []ScoreInv
  <1> QED
    BY InitScore, StepScore, PTL DEF MateSpec

-----------------------------------------------------------------------------
\* Whatever the width of the band, a mate score is the distance to its mate
\* through every negation, every store and every probe.
THEOREM MateScoresKeepDistance == MateSpec => []MateScoreIsDistance
  <1>1. ScoreInv => MateScoreIsDistance
    BY DEF ScoreInv, NodeInv, MateScoreIsDistance
  <1> QED
    BY <1>1, ScoreInvariant, PTL

\* Neither the shift before a store nor the stored score leaves the field.
THEOREM ScoresFitTheField == MateSpec => []ScoresFit
  <1>1. ScoreInv => ScoresFit
    <2> SUFFICES ASSUME ScoreInv PROVE ScoresFit
      OBVIOUS
    <2>1. ply \in Nat
      BY Bounds DEF ScoreInv, ScoresTyped
    <2>2. value \in -Inf .. Inf /\ Stored(value, ply) \in -Inf .. Inf
      <3>1. CASE distance = NoMate
        <4>1. Stored(value, ply) = value
          BY <2>1, <3>1, EvaluationShift DEF ScoreInv, NodeInv
        <4> QED
          BY <3>1, <4>1, Bounds DEF ScoreInv, NodeInv
      <3>2. CASE distance # NoMate
        <4>1. distance \in Nat /\ value = MateScore(ply, distance) /\ ply + distance <= 2 * MaxPly
          BY <3>2 DEF ScoreInv, ScoresTyped, NodeInv, Distances
        <4>2. Stored(value, ply) = MateScore(0, distance)
          BY <2>1, <4>1, MateShift
        <4>3. MateScore(ply, distance) \in -Mate .. Mate
          BY <2>1, <4>1, Bounds, MateScoreBand
        <4>4. MateScore(0, distance) \in -Mate .. Mate
          BY <2>1, <4>1, Bounds, MateScoreBand
        <4> QED
          BY <4>1, <4>2, <4>3, <4>4, Bounds
      <3> QED
        BY <3>1, <3>2
    <2>3. entry.score \in -Inf .. Inf
      <3>1. CASE entry.distance = NoMate
        BY <3>1, Bounds DEF ScoreInv, EntryInv
      <3>2. CASE entry.distance # NoMate
        <4>1. entry.distance \in Nat /\ entry.distance <= 2 * MaxPly
          BY <3>2, Bounds DEF ScoreInv, ScoresTyped, Distances
        <4>2. MateScore(0, entry.distance) \in -Mate .. Mate
          BY <4>1, Bounds, MateScoreBand
        <4> QED
          BY <3>2, <4>2, Bounds DEF ScoreInv, EntryInv
      <3> QED
        BY <3>1, <3>2
    <2> QED
      BY <2>2, <2>3 DEF ScoresFit
  <1> QED
    BY <1>1, ScoreInvariant, PTL

\* At the root the mate count is the distance in moves, rounded up, and a "go
\* mate" limit is met exactly by the mates within it.
THEOREM RootMateCount == MateSpec => []MateCountIsMoves
  <1>1. ScoreInv => MateCountIsMoves
    <2> SUFFICES ASSUME ScoreInv, ply = 0, distance \in 0 .. MaxPly - 1
                 PROVE  /\ IsMateScore(value)
                        /\ 2 * MovesToMate(value) \in {distance, distance + 1}
                        /\ \A moves \in 1 .. MaxPly :
                              HasMateWithinLimit(value, moves) <=> distance <= 2 * moves
      BY DEF MateCountIsMoves
    <2>1. distance \in Nat /\ distance < MaxPly /\ distance # NoMate
      BY Bounds DEF NoMate
    <2>2. value = MateScore(0, distance)
      BY <2>1 DEF ScoreInv, NodeInv
    <2>3. Abs(value) = Mate - distance
      BY <2>1, <2>2, Bounds DEF MateScore, Abs
    <2>4. IsMateScore(value)
      BY <2>1, <2>3, Bounds DEF IsMateScore, MateBound
    <2>5. MovesToMate(value) = (distance + 1) \div 2
      BY <2>1, <2>3, Bounds DEF MovesToMate
    <2>6. 2 * ((distance + 1) \div 2) \in {distance, distance + 1}
      BY <2>1
    <2>7. \A moves \in 1 .. MaxPly : (distance + 1) \div 2 <= moves <=> distance <= 2 * moves
      BY <2>1
    <2> QED
      BY <2>4, <2>5, <2>6, <2>7 DEF HasMateWithinLimit
  <1> QED
    BY <1>1, ScoreInvariant, PTL

LEMMA StaticBand == StaticScores \subseteq -(TtMateBound - 1) .. TtMateBound - 1
  <1>1. Evaluations \subseteq -(TtMateBound - 1) .. TtMateBound - 1 /\ TtMateBound \in Int
    BY Bounds
  <1>2. ASSUME NEW e \in Evaluations PROVE -e \in -(TtMateBound - 1) .. TtMateBound - 1
    BY <1>1
  <1>3. ASSUME NEW score \in StaticScores PROVE score \in -(TtMateBound - 1) .. TtMateBound - 1
    BY <1>1, <1>2, <1>3, Bounds DEF StaticScores
  <1> QED
    BY <1>3

LEMMA StaticNegation ==
    ASSUME NEW score \in StaticScores
    PROVE  -score \in StaticScores
  <1>1. Evaluations \subseteq Int
    BY Bounds
  <1>2. CASE score \in Evaluations
    BY <1>2 DEF StaticScores
  <1>3. ASSUME NEW e \in Evaluations, score = -e PROVE -score \in StaticScores
    BY <1>1, <1>3 DEF StaticScores
  <1>4. CASE score = 0
    <2>1. score \in Int /\ -score <= 0 /\ -score >= 0
      BY <1>4
    <2>2. -score = 0
      BY <2>1
    <2> QED
      BY <2>2 DEF StaticScores
  <1> QED
    BY <1>2, <1>3, <1>4 DEF StaticScores

LEMMA StaticInvariant == MateSpec => []StaticInv
  <1>1. MateInit => StaticInv
    BY DEF MateInit, StaticInv, StaticScores, Empty
  <1>2. ScoreInv /\ StaticInv /\ [MateNext]_mateVars => StaticInv'
    <2> SUFFICES ASSUME ScoreInv, StaticInv, [MateNext]_mateVars PROVE StaticInv'
      OBVIOUS
    <2> USE DEF StaticInv
    <2>1. ASSUME Return PROVE StaticInv'
      <3>1. distance' = NoMate => distance = NoMate
        BY <2>1, Bounds DEF Return, ScoreInv, ScoresTyped, NoMate, Distances
      <3> QED
        BY <2>1, <3>1, StaticNegation DEF Return
    <2>2. ASSUME Store PROVE StaticInv'
      <3>1. ply \in Int
        BY <2>2, Bounds DEF Store, Nodes
      <3>2. entry'.distance = distance /\ entry'.score = Stored(value, ply)
        BY <2>2 DEF Store
      <3>3. distance = NoMate => Stored(value, ply) = value
        BY <3>1, StaticBand, EvaluationShift
      <3> QED
        BY <2>2, <3>2, <3>3 DEF Store
    <2>3. ASSUME NEW at \in Nodes, Probe(at) PROVE StaticInv'
      <3>1. at \in Int
        BY Bounds DEF Nodes
      <3>2. entry.distance = NoMate => ScoreAtPly(entry.score, at) = entry.score
        BY <3>1, StaticBand, EvaluationShift
      <3> QED
        BY <2>3, <3>2 DEF Probe
    <2>4. ASSUME NEW at \in Nodes \union {0}, Checkmate(at) PROVE StaticInv'
      BY <2>4 DEF Checkmate, NoMate
    <2>5. ASSUME NEW at \in 1 .. MaxPly, NEW score \in Evaluations, Evaluate(at, score)
          PROVE  StaticInv'
      BY <2>5 DEF Evaluate, StaticScores
    <2>6. CASE UNCHANGED mateVars
      BY <2>6 DEF mateVars
    <2> QED
      BY <2>1, <2>2, <2>3, <2>4, <2>5, <2>6 DEF MateNext
  <1> QED
    BY <1>1, <1>2, ScoreInvariant, PTL DEF MateSpec

\* A static score passes through the table unchanged and is never taken for a
\* mate, whatever the width of the band.
THEOREM StaticScoresStay == MateSpec => []EvaluationsStay
  <1>1. ScoreInv /\ StaticInv => EvaluationsStay
    <2> SUFFICES ASSUME ScoreInv, StaticInv, distance = NoMate
                 PROVE  /\ value \in StaticScores
                        /\ \A moves \in 1 .. MaxPly : ~HasMateWithinLimit(value, moves)
      BY DEF EvaluationsStay, StaticScores
    <2>1. value \in StaticScores
      BY DEF StaticInv
    <2>2. value \in -(TtMateBound - 1) .. TtMateBound - 1
      BY <2>1, StaticBand
    <2>3. ~IsMateScore(value)
      BY <2>2, Bounds DEF IsMateScore, MateBound, Abs
    <2> QED
      BY <2>1, <2>3 DEF HasMateWithinLimit
  <1> QED
    BY <1>1, ScoreInvariant, StaticInvariant, PTL

\* All of it together: a mate keeps its distance, every score its width, and
\* the count at the root is the count of moves.
THEOREM MatesStayCounted == MateSpec => []MatesAreCounted
  <1>1. ScoreInv => ScoresTyped
    BY DEF ScoreInv
  <1>2. ScoresTyped /\ MateScoreIsDistance /\ ScoresFit /\ EvaluationsStay /\ MateCountIsMoves
          => MatesAreCounted
    BY DEF MatesAreCounted
  <1> QED
    BY <1>1, <1>2, ScoreInvariant, MateScoresKeepDistance, ScoresFitTheField,
       StaticScoresStay, RootMateCount, PTL
===============================================================================
