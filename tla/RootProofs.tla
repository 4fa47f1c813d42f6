----------------------------- MODULE RootProofs ------------------------------
(* RootSearch: the root lines stay the moves, a completed depth is a best  *)
(* move with its value, and no depth is accepted before every move was     *)
(* weighed; for all moves, values, windows, depths and skipped depths.     *)
EXTENDS RootSearch, FiniteSetTheorems, TLAPS

\* The first n lines were weighed in this attempt: low is the value of one of them,
\* which no other reaches, or still alpha, and bounds all values and true values.
Weighed(n) ==
  /\ alpha <= low /\ low < beta
  /\ \A i \in 1 .. n : lines[i].done /\ lines[i].depth = depth /\ lines[i].value <= low
  /\ hasPv =>
       /\ alpha < low
       /\ \E p \in 1 .. n :
            /\ lines[p].value = low
            /\ consistent => truth[depth][lines[p].move] = low
            /\ \A i \in 1 .. n : i # p => lines[i].value < low
  /\ ~hasPv => low = alpha
  /\ consistent => \A i \in 1 .. n : truth[depth][lines[i].move] <= low

FailedHigh == \E i \in DOMAIN lines : lines[i].done /\ lines[i].value >= beta

DepthSearched == pc \in {"aspire", "pass", "verdict"} => depth \in Searched

\* The pass has weighed the lines before the one it is at and none of the others.
PassGoesOn ==
  pc = "pass" =>
    /\ Weighed(index - 1)
    /\ index = 1 => ~hasPv
    /\ \A i \in DOMAIN lines : i >= index => ~lines[i].done

\* It ended with all of them, or with a fail-high, in lines of this attempt.
PassEnded ==
  pc = "verdict" =>
    /\ \A i \in DOMAIN lines : lines[i].done => lines[i].depth = depth
    /\ FailedHigh \/ Weighed(Len(lines))

PassInv == DepthSearched /\ PassGoesOn /\ PassEnded

RootInv == TypeOK /\ LinesAreTheMoves /\ PassInv /\ ResultIsBest

-----------------------------------------------------------------------------
(* Types.                                                                  *)

Blanks == [move : {0}, value : Evaluations, depth : {0}, done : {FALSE}]

\* What the arithmetic of windows and values needs of the types.
LEMMA Numbers ==
  ASSUME TypeOK
  PROVE  /\ Inf \in Nat \ {0} /\ AspirationWindow \in 1 .. Inf /\ MaxDepth \in Nat \ {0}
         /\ alpha \in Int /\ beta \in Int /\ low \in Int /\ delta \in Int
         /\ Len(lines) \in Nat \ {0} /\ DOMAIN lines = 1 .. Len(lines) /\ index \in 1 .. Len(lines)
         /\ \A i \in DOMAIN lines : lines[i] \in Line
         /\ \A i \in DOMAIN lines : lines[i].value \in Int /\ lines[i].depth \in Nat
         /\ result.value \in -Inf .. Inf
<1> USE RootAssumption DEF TypeOK
<1>1. /\ Inf \in Nat \ {0} /\ AspirationWindow \in 1 .. Inf /\ MaxDepth \in Nat \ {0}
      /\ alpha \in Int /\ beta \in Int /\ low \in Int /\ delta \in Int
  OBVIOUS
<1>2. Len(lines) \in Nat \ {0} /\ DOMAIN lines = 1 .. Len(lines) /\ index \in 1 .. Len(lines)
  OBVIOUS
<1>3. \A i \in DOMAIN lines : lines[i] \in Line
  BY <1>2
<1>4. \A i \in DOMAIN lines : lines[i].value \in Int /\ lines[i].depth \in Nat
  BY <1>1, <1>3 DEF Line
<1>5. result.value \in -Inf .. Inf
  <2>1. Evaluations \subseteq -Inf .. Inf
    BY <1>1
  <2>2. result \in Line => result.value \in -Inf .. Inf
    BY DEF Line
  <2>3. result \in Blanks => result.value \in -Inf .. Inf
    BY <2>1 DEF Blanks
  <2> QED  BY <2>2, <2>3 DEF Blanks
<1> QED  BY <1>1, <1>2, <1>3, <1>4, <1>5

\* Lines are what they are line by line.
LEMMA LinesTyped ==
  ASSUME NEW s, NEW n \in Nat \ {0}, s = [i \in 1 .. n |-> s[i]], \A i \in 1 .. n : s[i] \in Line
  PROVE  s \in Seq(Line) /\ ToSet(s) # {} /\ Len(s) = n /\ DOMAIN s = 1 .. n
<1>1. s \in [1 .. n -> Line]
  OBVIOUS
<1>2. s \in Seq(Line) /\ Len(s) = n /\ DOMAIN s = 1 .. n
  BY <1>1
<1>3. s[1] \in ToSet(s)
  BY <1>2 DEF ToSet
<1> QED  BY <1>2, <1>3

\* Lines without result whose moves are the moves.
LEMMA InitLines ==
  ASSUME NEW order \in SetToSeqs(Moves), lines = [i \in DOMAIN order |-> Blank(order[i], 0)]
  PROVE  /\ lines \in Seq(Line) /\ ToSet(lines) # {} /\ 1 \in DOMAIN lines
         /\ LinesAreTheMoves
<1> DEFINE n == Cardinality(Moves)
<1>1. n \in Nat \ {0}
  BY RootAssumption, FS_CardinalityType, FS_EmptySet
<1>2. order \in [1 .. n -> Moves] /\ \A i, j \in 1 .. n : i # j => order[i] # order[j]
  BY DEF SetToSeqs
<1>3. DOMAIN order = 1 .. n
  BY <1>2
<1>4. \A i \in 1 .. n : lines[i] \in Line /\ lines[i].move = order[i]
  BY <1>2, <1>3, RootAssumption DEF Blank, Line
<1>5. lines \in Seq(Line) /\ ToSet(lines) # {} /\ Len(lines) = n /\ DOMAIN lines = 1 .. n
  BY <1>1, <1>3, <1>4, LinesTyped
<1>6. ASSUME NEW m \in Moves, \A i \in 1 .. n : order[i] # m PROVE FALSE
  <2>1. IsFiniteSet(Moves \ {m}) /\ Cardinality(Moves \ {m}) = n - 1
    BY RootAssumption, FS_RemoveElement
  <2>2. IsFiniteSet(1 .. n) /\ Cardinality(1 .. n) = n
    BY <1>1, FS_Interval
  <2>3. order \in [1 .. n -> Moves \ {m}]
    BY <1>2, <1>6
  <2>4. Cardinality(Moves \ {m}) < Cardinality(1 .. n)
    BY <1>1, <2>1, <2>2
  <2>5. \E x, y \in 1 .. n : x # y /\ order[x] = order[y]
    <3> DEFINE S == 1 .. n
               T == Moves \ {m}
    <3>1. IsFiniteSet(S) /\ IsFiniteSet(T) /\ Cardinality(T) < Cardinality(S) /\ order \in [S -> T]
      BY <2>1, <2>2, <2>3, <2>4
    <3> HIDE DEF S, T
    <3>2. \E x, y \in S : x # y /\ order[x] = order[y]
      BY <3>1, FS_PigeonHole
    <3> QED  BY <3>2 DEF S
  <2> QED  BY <1>2, <2>5
<1>7. {lines[i].move : i \in DOMAIN lines} = Moves
  BY <1>2, <1>4, <1>5, <1>6
<1> QED  BY <1>1, <1>5, <1>7 DEF LinesAreTheMoves

\* RootLine::reset_attempt keeps the move.
LEMMA ResetLine ==
  ASSUME NEW line \in Line
  PROVE  Reset(line) \in Line /\ Reset(line).move = line.move /\ ~Reset(line).done
<1>1. Inf \in Nat /\ -Inf \in -Inf .. Inf /\ MaxDepth \in Nat /\ 0 \in 0 .. MaxDepth
  BY RootAssumption
<1> QED  BY <1>1 DEF Reset, Line

LEMMA InitRoot == Init => RootInv
<1> SUFFICES ASSUME Init PROVE RootInv
  OBVIOUS
<1>1. PICK order \in SetToSeqs(Moves) : lines = [i \in DOMAIN order |-> Blank(order[i], 0)]
  BY DEF Init
<1>2. /\ lines \in Seq(Line) /\ ToSet(lines) # {} /\ 1 \in DOMAIN lines
      /\ LinesAreTheMoves
  BY <1>1, InitLines
<1>3. PICK eval \in Evaluations : result = Blank(0, eval)
  BY DEF Init
<1>4. ~result.done /\ result \in Blanks
  BY <1>3 DEF Blank, Blanks
<1>5. truth \in [Searched -> [Moves -> Values \cup {0}]] /\ consistent \in BOOLEAN
  BY DEF Init
<1>6. TypeOK
  <2>1. Inf \in Nat \ {0} /\ AspirationWindow \in 1 .. Inf /\ MaxDepth \in Nat \ {0}
    BY RootAssumption
  <2>2. /\ pc = "deepen" /\ stop = FALSE /\ depth = 1 /\ hasPv = FALSE /\ index = 1
        /\ alpha = -Inf /\ beta = Inf /\ delta = AspirationWindow /\ low = -Inf
    BY DEF Init
  <2>3. /\ depth \in 1 .. MaxDepth + 1 /\ alpha < beta /\ delta \in 1 .. Inf
        /\ alpha \in -Inf .. Inf /\ beta \in -Inf .. Inf /\ low \in -Inf .. Inf
    BY <2>1, <2>2
  <2> QED  BY <1>2, <1>4, <1>5, <2>2, <2>3 DEF TypeOK, Blanks
<1>7. PassInv /\ ResultIsBest
  BY <1>4 DEF Init, PassInv, DepthSearched, PassGoesOn, PassEnded, ResultIsBest
<1> QED  BY <1>2, <1>6, <1>7 DEF RootInv

-----------------------------------------------------------------------------
(* The steps.                                                              *)

\* Between two attempts nothing is weighed.
LEMMA NextDepthStep == RootInv /\ NextDepth => RootInv'
<1> SUFFICES ASSUME RootInv, NextDepth PROVE RootInv'
  OBVIOUS
<1> USE RootAssumption DEF pass, window
<1>1. /\ pc = "deepen" /\ UNCHANGED <<truth, consistent, stop, lines, index, low, hasPv, result>>
      /\ \/ pc' = "returned" /\ UNCHANGED <<depth, window>>
         \/ depth <= MaxDepth /\ depth \in Skipped /\ depth' = depth + 1 /\ pc' = "deepen"
            /\ UNCHANGED window
         \/ /\ pc' = "aspire" /\ delta' = AspirationWindow /\ UNCHANGED depth
            /\ depth <= MaxDepth /\ depth \notin Skipped
            /\ alpha' = Larger(result.value - AspirationWindow, -Inf)
            /\ beta' = Smaller(result.value + AspirationWindow, Inf)
  BY DEF NextDepth, RootInv, TypeOK
<1>2. /\ result.value \in -Inf .. Inf /\ depth \in 1 .. MaxDepth + 1
      /\ Inf \in Nat \ {0} /\ AspirationWindow \in 1 .. Inf /\ MaxDepth \in Nat \ {0}
  BY Numbers DEF RootInv, TypeOK
<1>3. /\ pc' \in {"deepen", "aspire", "returned"} /\ depth' \in 1 .. MaxDepth + 1
      /\ alpha' \in -Inf .. Inf /\ beta' \in -Inf .. Inf /\ alpha' < beta' /\ delta' \in 1 .. Inf
  <2>1. pc' \in {"deepen", "aspire", "returned"}
    BY <1>1
  <2>2. depth' \in 1 .. MaxDepth + 1
    BY <1>1, <1>2
  <2>3. /\ Larger(result.value - AspirationWindow, -Inf) \in -Inf .. Inf
        /\ Smaller(result.value + AspirationWindow, Inf) \in -Inf .. Inf
        /\ Larger(result.value - AspirationWindow, -Inf) < Smaller(result.value + AspirationWindow, Inf)
    BY <1>2 DEF Larger, Smaller
  <2>4. alpha \in -Inf .. Inf /\ beta \in -Inf .. Inf /\ alpha < beta /\ delta \in 1 .. Inf
    BY DEF RootInv, TypeOK
  <2> QED  BY <1>1, <1>2, <2>1, <2>2, <2>3, <2>4
<1>4. TypeOK'
  BY <1>1, <1>3 DEF RootInv, TypeOK
<1>5. LinesAreTheMoves' /\ ResultIsBest'
  BY <1>1 DEF RootInv, LinesAreTheMoves, ResultIsBest
<1>6. PassInv'
  BY <1>1, <1>2 DEF PassInv, DepthSearched, PassGoesOn, PassEnded, Searched
<1> QED  BY <1>4, <1>5, <1>6 DEF RootInv

\* An attempt starts with no line weighed.
LEMMA AttemptStep == RootInv /\ Attempt => RootInv'
<1> SUFFICES ASSUME RootInv, Attempt PROVE RootInv'
  OBVIOUS
<1> USE RootAssumption DEF window, pass
<1>1. /\ pc = "aspire" /\ UNCHANGED <<truth, consistent, stop, depth, alpha, beta, delta, result>>
      /\ \/ pc' = "returned" /\ UNCHANGED <<lines, index, low, hasPv>>
         \/ /\ pc' = "pass" /\ index' = 1 /\ low' = alpha /\ hasPv' = FALSE
            /\ lines' = [i \in DOMAIN lines |-> Reset(lines[i])]
  BY DEF Attempt
<1>2. depth \in Searched /\ ResultIsBest'
  BY <1>1 DEF RootInv, PassInv, DepthSearched, ResultIsBest
<1>3. CASE pc' = "returned"
  <2>1. UNCHANGED <<truth, consistent, stop, depth, alpha, beta, delta, result, lines, index, low, hasPv>>
    BY <1>1, <1>3
  <2>2. TypeOK' /\ LinesAreTheMoves'
    BY ZenonT(30), <1>3, <2>1 DEF RootInv, TypeOK, LinesAreTheMoves
  <2>3. PassInv'
    BY <1>3 DEF PassInv, DepthSearched, PassGoesOn, PassEnded
  <2> QED  BY <1>2, <2>2, <2>3 DEF RootInv
<1>4. CASE pc' = "pass"
  <2>1. /\ Len(lines) \in Nat \ {0} /\ DOMAIN lines = 1 .. Len(lines)
        /\ \A i \in 1 .. Len(lines) : lines[i] \in Line
    BY Numbers DEF RootInv
  <2>2. /\ lines' = [i \in 1 .. Len(lines) |-> Reset(lines[i])]
        /\ index' = 1 /\ low' = alpha /\ hasPv' = FALSE
    BY <1>1, <1>4, <2>1
  <2>3. \A i \in 1 .. Len(lines) :
          lines'[i] \in Line /\ lines'[i].move = lines[i].move /\ ~lines'[i].done
    BY <2>1, <2>2, ResetLine
  <2>4. lines' \in Seq(Line) /\ ToSet(lines') # {} /\ Len(lines') = Len(lines) /\ DOMAIN lines' = 1 .. Len(lines)
    BY <2>1, <2>2, <2>3, LinesTyped
  <2>5. TypeOK'
    <3>1. 1 \in DOMAIN lines'
      BY <2>1, <2>4
    <3> QED  BY <1>1, <1>4, <2>2, <2>4, <3>1 DEF RootInv, TypeOK
  <2>6. LinesAreTheMoves'
    BY <2>1, <2>3, <2>4 DEF RootInv, LinesAreTheMoves
  <2>7. alpha \in Int /\ beta \in Int /\ alpha < beta
    BY Numbers DEF RootInv, TypeOK
  <2>8. PassInv'
    BY <1>1, <1>2, <1>4, <2>2, <2>3, <2>4, <2>7
       DEF PassInv, DepthSearched, PassGoesOn, PassEnded, Weighed
  <2> QED  BY <1>2, <2>5, <2>6, <2>8 DEF RootInv
<1> QED  BY <1>1, <1>3, <1>4

\* The values searches are about are numbers.
LEMMA TruthIsInt ==
  ASSUME RootInv, depth \in Searched, NEW m \in Moves
  PROVE  truth[depth][m] \in Int
<1>1. truth \in [Searched -> [Moves -> Values \cup {0}]]
  BY DEF RootInv, TypeOK
<1>2. truth[depth][m] \in Values \cup {0}
  BY <1>1
<1>3. Inf \in Int /\ Values \subseteq 1 - Inf .. Inf - 1
  BY RootAssumption
<1>4. \A v \in Values : v \in Int
  BY <1>3
<1>5. CASE truth[depth][m] \in Values
  BY <1>4, <1>5
<1>6. CASE truth[depth][m] = 0
  BY <1>6
<1> QED  BY <1>2, <1>5, <1>6

\* What a search returns inside the window is the value, and below it a bound.
LEMMA ReturnedBounds ==
  ASSUME ~stop, consistent, NEW v \in Int, NEW a \in Int, NEW b \in Int, a < b,
         NEW r \in Returned(v, a, b)
  PROVE  /\ r \in Int
         /\ a < r /\ r < b => v = r
         /\ r <= a => v <= r
BY DEF Returned

\* So is what is recorded after the scout.
LEMMA SearchedValue ==
  ASSUME RootInv, ~stop, pc = "pass", NEW v \in Scores, SearchMove(v), consistent
  PROVE  LET real == truth[depth][lines[index].move]
         IN (low < v /\ v < beta => real = v) /\ (v <= low => real <= v)
<1> DEFINE real == truth[depth][lines[index].move]
<1>1. depth \in Searched /\ low \in Int /\ beta \in Int /\ low < beta
  BY Numbers DEF RootInv, PassInv, DepthSearched, PassGoesOn, Weighed
<1>2. lines[index].move \in Moves
  BY Numbers DEF RootInv, Line
<1>3. real \in Int
  BY <1>1, <1>2, TruthIsInt
<1>4. CASE v \in Returned(real, low, beta)
  BY <1>1, <1>3, <1>4, ReturnedBounds
<1>5. CASE v \notin Returned(real, low, beta)
  <2>1. PICK scout \in Returned(real, low, low + 1) : ~(scout > low) /\ v = scout
    BY <1>5 DEF SearchMove
  <2>2. scout \in Int /\ (scout <= low => real <= scout)
    BY <1>1, <1>3, ReturnedBounds
  <2> QED  BY <1>1, <1>3, <2>1, <2>2
<1> QED  BY <1>4, <1>5

\* The value recorded for a line that did not raise alpha is at most the one found,
\* and short of low once there is a PV.
LEMMA TieValue ==
  ASSUME RootInv, pc = "pass", NEW v \in Scores, v <= low
  PROVE  /\ Tie(v) \in -Inf .. Inf /\ Tie(v) <= v
         /\ hasPv => Tie(v) < low
<1>1. Inf \in Nat /\ v \in -Inf .. Inf /\ low \in -Inf .. Inf /\ alpha \in -Inf .. Inf
  BY RootAssumption DEF RootInv, TypeOK, Scores
<1>2. hasPv => index > 1 /\ alpha < low
  BY Numbers DEF RootInv, PassInv, PassGoesOn, Weighed
<1> QED  BY <1>1, <1>2 DEF Tie

\* Weighing one more line that does not fail high.
LEMMA OneMoreWeighed ==
  ASSUME RootInv, ~stop, pc = "pass", NEW v \in Scores, SearchMove(v), v < beta,
         NEW n \in Nat, n = index
  PROVE  Weighed(n)'
<1> USE DEF window
<1>1. /\ UNCHANGED <<truth, consistent, depth, alpha, beta>>
      /\ lines' = [lines EXCEPT ![n] =
            [@ EXCEPT !.value = IF v > low THEN v ELSE Tie(v), !.depth = depth, !.done = TRUE]]
      /\ low' = IF v > low THEN v ELSE low
      /\ hasPv' = (hasPv \/ v > low)
  BY DEF SearchMove, SeenStop, Complete
<1>2. /\ Inf \in Nat /\ v \in Int /\ low \in Int /\ alpha \in Int /\ beta \in Int
      /\ n \in 1 .. Len(lines) /\ Len(lines) \in Nat /\ DOMAIN lines = 1 .. Len(lines)
      /\ \A i \in 1 .. Len(lines) : lines[i].value \in Int
      /\ \A i \in 1 .. Len(lines) : lines[i] \in Line
  <2>1. Inf \in Nat /\ v \in Int
    BY RootAssumption DEF Scores
  <2> QED  BY <2>1, Numbers DEF RootInv
<1>3. /\ alpha <= low /\ low < beta
      /\ \A i \in 1 .. n - 1 : lines[i].done /\ lines[i].depth = depth /\ lines[i].value <= low
      /\ consistent => \A i \in 1 .. n - 1 : truth[depth][lines[i].move] <= low
      /\ ~hasPv => low = alpha
  BY DEF RootInv, PassInv, PassGoesOn, Weighed
<1>4. \A i \in 1 .. n - 1 : lines'[i] = lines[i]
  BY <1>1, <1>2
<1>5. /\ lines'[n].move = lines[n].move /\ lines'[n].depth = depth /\ lines'[n].done
      /\ lines'[n].value = IF v > low THEN v ELSE Tie(v)
  BY <1>1, <1>2 DEF Line
<1>6. consistent => (low < v => truth[depth][lines[n].move] = v)
                    /\ (v <= low => truth[depth][lines[n].move] <= v)
  BY SearchedValue
<1>7. consistent => \A i \in 1 .. n : truth[depth][lines[i].move] \in Int
  <2>1. \A i \in 1 .. n : lines[i].move \in Moves
    BY <1>2 DEF Line
  <2>2. depth \in Searched
    BY DEF RootInv, PassInv, DepthSearched
  <2> QED  BY <2>1, <2>2, TruthIsInt
<1>8. CASE v > low
  <2>1. low' = v /\ hasPv' = TRUE /\ lines'[n].value = v
    BY <1>1, <1>5, <1>8
  <2>2. \A i \in 1 .. n - 1 : lines'[i].value < v
    BY <1>2, <1>3, <1>4, <1>8
  <2>3. \A i \in 1 .. n : lines'[i].done /\ lines'[i].depth = depth /\ lines'[i].value <= v
    <3> SUFFICES ASSUME NEW i \in 1 .. n
                 PROVE  lines'[i].done /\ lines'[i].depth = depth /\ lines'[i].value <= v
      OBVIOUS
    <3>1. CASE i = n
      BY <1>2, <1>5, <2>1, <3>1
    <3>2. CASE i \in 1 .. n - 1
      <4>1. lines'[i] = lines[i] /\ lines[i].done /\ lines[i].depth = depth
        BY <1>3, <1>4, <3>2
      <4>2. lines[i].value <= v
        BY <1>2, <1>4, <2>2, <3>2
      <4> QED  BY <4>1, <4>2
    <3> QED  BY <1>2, <3>1, <3>2
  <2>4. consistent => truth[depth][lines'[n].move] = v
    BY <1>5, <1>6, <1>8
  <2>5. consistent => \A i \in 1 .. n : truth[depth][lines'[i].move] <= v
    <3>1. consistent => \A i \in 1 .. n - 1 : truth[depth][lines'[i].move] <= v
      BY <1>2, <1>3, <1>4, <1>7, <1>8
    <3> QED  BY <1>2, <2>4, <3>1
  <2>6. \E p \in 1 .. n :
          /\ lines'[p].value = v
          /\ consistent => truth[depth][lines'[p].move] = v
          /\ \A i \in 1 .. n : i # p => lines'[i].value < v
    <3>1. n \in 1 .. n /\ \A i \in 1 .. n : i # n => i \in 1 .. n - 1
      BY <1>2
    <3> QED  BY <2>1, <2>2, <2>4, <3>1
  <2>7. alpha < v
    BY <1>2, <1>3, <1>8
  <2>8. v < beta' /\ alpha' = alpha /\ depth' = depth /\ truth' = truth /\ consistent' = consistent
    BY <1>1
  <2>9. alpha' <= low' /\ low' < beta'
    BY <1>2, <2>1, <2>7, <2>8
  <2> QED  BY <2>1, <2>3, <2>5, <2>6, <2>7, <2>8, <2>9 DEF Weighed
<1>9. CASE v <= low
  <2>1. low' = low /\ (hasPv' <=> hasPv) /\ lines'[n].value = Tie(v)
    <3>1. ~(v > low)
      BY <1>2, <1>9
    <3>2. hasPv' <=> hasPv
      BY <1>1, <3>1, Zenon
    <3> QED  BY <1>1, <1>5, <3>1, <3>2
  <2>2. Tie(v) \in Int /\ Tie(v) <= low /\ (hasPv => Tie(v) < low)
    BY <1>2, <1>9, TieValue
  <2>3. \A i \in 1 .. n : lines'[i].done /\ lines'[i].depth = depth /\ lines'[i].value <= low
    <3> SUFFICES ASSUME NEW i \in 1 .. n
                 PROVE  lines'[i].done /\ lines'[i].depth = depth /\ lines'[i].value <= low
      OBVIOUS
    <3>1. CASE i = n
      BY <1>5, <2>1, <2>2, <3>1
    <3>2. CASE i \in 1 .. n - 1
      BY <1>3, <1>4, <3>2
    <3> QED  BY <1>2, <3>1, <3>2
  <2>4. consistent => \A i \in 1 .. n : truth[depth][lines'[i].move] <= low
    <3>1. consistent => truth[depth][lines'[n].move] <= low
      BY <1>2, <1>5, <1>6, <1>7, <1>9
    <3> QED  BY <1>2, <1>3, <1>4, <3>1
  <2>5. ASSUME hasPv
        PROVE  /\ alpha < low
               /\ \E p \in 1 .. n :
                    /\ lines'[p].value = low
                    /\ consistent => truth[depth][lines'[p].move] = low
                    /\ \A i \in 1 .. n : i # p => lines'[i].value < low
    <3>1. alpha < low
      BY <2>5 DEF RootInv, PassInv, PassGoesOn, Weighed
    <3>2. PICK p \in 1 .. n - 1 :
            /\ lines[p].value = low
            /\ consistent => truth[depth][lines[p].move] = low
            /\ \A i \in 1 .. n - 1 : i # p => lines[i].value < low
      BY <2>5 DEF RootInv, PassInv, PassGoesOn, Weighed
    <3>3. p \in 1 .. n /\ lines'[p] = lines[p]
      BY <1>2, <1>4
    <3>4. ASSUME NEW i \in 1 .. n, i # p PROVE lines'[i].value < low
      <4>1. i = n \/ i \in 1 .. n - 1
        BY <1>2
      <4> QED  BY <1>4, <2>1, <2>2, <2>5, <3>2, <3>4, <4>1
    <3> QED  BY <3>1, <3>2, <3>3, <3>4
  <2>6. alpha' = alpha /\ beta' = beta /\ depth' = depth /\ truth' = truth /\ consistent' = consistent
    BY <1>1
  <2>7. alpha' <= low' /\ low' < beta' /\ (~hasPv' => low' = alpha')
    BY <1>3, <2>1, <2>6
  <2> QED  BY <2>1, <2>3, <2>4, <2>5, <2>6, <2>7 DEF Weighed
<1> QED  BY <1>2, <1>8, <1>9

\* A searched move keeps the lines lines.
LEMMA CompletedLines ==
  ASSUME RootInv, ~stop, pc = "pass", NEW v \in Scores, Complete(v)
  PROVE  /\ lines' \in Seq(Line) /\ ToSet(lines') # {} /\ Len(lines') = Len(lines)
         /\ DOMAIN lines' = 1 .. Len(lines)
         /\ \A i \in 1 .. Len(lines) : lines'[i].move = lines[i].move
         /\ \A i \in 1 .. Len(lines) : i # index => lines'[i] = lines[i]
         /\ lines'[index].done /\ lines'[index].depth = depth
         /\ v > low => lines'[index].value = v
<1> DEFINE line == [lines[index] EXCEPT !.value = IF v > low THEN v ELSE Tie(v), !.depth = depth, !.done = TRUE]
<1>1. /\ index \in 1 .. Len(lines) /\ Len(lines) \in Nat \ {0} /\ DOMAIN lines = 1 .. Len(lines)
      /\ \A i \in 1 .. Len(lines) : lines[i] \in Line
  BY Numbers DEF RootInv
<1>2. lines' = [lines EXCEPT ![index] = line]
  BY DEF Complete
<1>3. /\ (IF v > low THEN v ELSE Tie(v)) \in -Inf .. Inf
      /\ depth \in 0 .. MaxDepth
  <2>1. v \in -Inf .. Inf /\ v \in Int /\ low \in Int
    BY RootAssumption, Numbers DEF RootInv, Scores
  <2>2. v <= low => Tie(v) \in -Inf .. Inf
    BY TieValue
  <2>3. depth \in 0 .. MaxDepth
    BY RootAssumption DEF RootInv, PassInv, DepthSearched, Searched
  <2> QED  BY <2>1, <2>2, <2>3
<1>4. /\ line \in Line /\ line.move = lines[index].move /\ line.done /\ line.depth = depth
      /\ line.value = IF v > low THEN v ELSE Tie(v)
  BY <1>1, <1>3 DEF Line
<1> HIDE DEF line
<1>5. /\ lines' = [i \in 1 .. Len(lines) |-> lines'[i]]
      /\ lines'[index] = line /\ \A i \in 1 .. Len(lines) : i # index => lines'[i] = lines[i]
  BY <1>1, <1>2
<1>6. \A i \in 1 .. Len(lines) : lines'[i] \in Line /\ lines'[i].move = lines[i].move
  BY <1>1, <1>4, <1>5
<1>7. lines' \in Seq(Line) /\ ToSet(lines') # {} /\ Len(lines') = Len(lines) /\ DOMAIN lines' = 1 .. Len(lines)
  BY <1>1, <1>5, <1>6, LinesTyped
<1> QED  BY <1>4, <1>5, <1>6, <1>7

\* The pass weighs its lines one by one, and ends after the last or a fail-high.
LEMMA SearchMoveStep == ASSUME RootInv, NEW v \in Scores, SearchMove(v) PROVE RootInv'
<1> USE DEF window, pass
<1>1. pc = "pass" /\ UNCHANGED <<truth, consistent, stop, depth, alpha, beta, delta, result>>
  BY DEF SearchMove
<1>2. ResultIsBest'
  BY <1>1 DEF RootInv, ResultIsBest
<1>3. CASE stop
  <2>1. pc' = "returned" /\ UNCHANGED <<lines, index, low, hasPv>>
    BY <1>3 DEF SearchMove, SeenStop
  <2>2. TypeOK' /\ LinesAreTheMoves'
    BY <1>1, <2>1 DEF RootInv, TypeOK, LinesAreTheMoves
  <2>3. PassInv'
    BY <2>1 DEF PassInv, DepthSearched, PassGoesOn, PassEnded
  <2> QED  BY <1>2, <2>2, <2>3 DEF RootInv
<1>4. CASE ~stop
  <2>1. Complete(v)
    BY <1>4 DEF SearchMove, SeenStop
  <2>2. /\ index \in 1 .. Len(lines) /\ Len(lines) \in Nat \ {0} /\ DOMAIN lines = 1 .. Len(lines)
        /\ low \in -Inf .. Inf /\ beta \in -Inf .. Inf /\ alpha \in -Inf .. Inf /\ Inf \in Nat
        /\ v \in -Inf .. Inf /\ depth \in Searched
    <3>1. v \in -Inf .. Inf
      BY RootAssumption DEF Scores
    <3>2. depth \in Searched
      BY <1>1 DEF RootInv, PassInv, DepthSearched
    <3>3. low \in -Inf .. Inf /\ beta \in -Inf .. Inf /\ alpha \in -Inf .. Inf
      BY DEF RootInv, TypeOK
    <3> QED  BY <3>1, <3>2, <3>3, Numbers DEF RootInv
  <2>3. /\ low' = IF v > low /\ v < beta THEN v ELSE low
        /\ hasPv' \in BOOLEAN
        /\ \/ /\ pc' = "verdict" /\ index' = index /\ (v >= beta \/ index = Len(lines))
           \/ /\ pc' = "pass" /\ index' = index + 1 /\ index < Len(lines) /\ v < beta
    <3>1. hasPv' \in BOOLEAN
      BY <2>1 DEF Complete
    <3>2. low' = IF v > low /\ v < beta THEN v ELSE low
      BY <2>1 DEF Complete
    <3>3. IF v >= beta \/ index = Len(lines)
          THEN pc' = "verdict" /\ index' = index
          ELSE index' = index + 1 /\ pc' = pc
      BY <2>1 DEF Complete
    <3>4. \/ pc' = "verdict" /\ index' = index /\ (v >= beta \/ index = Len(lines))
          \/ pc' = "pass" /\ index' = index + 1 /\ index < Len(lines) /\ v < beta
      <4>1. v \in Int /\ beta \in Int /\ index \in Int /\ Len(lines) \in Int /\ index <= Len(lines)
        BY <2>2
      <4>2. CASE v >= beta \/ index = Len(lines)
        BY <3>3, <4>2
      <4>3. CASE ~(v >= beta) /\ index # Len(lines)
        BY <1>1, <3>3, <4>1, <4>3
      <4> QED  BY <4>2, <4>3
    <3> QED  BY <3>1, <3>2, <3>4
  <2>4. /\ lines' \in Seq(Line) /\ ToSet(lines') # {} /\ Len(lines') = Len(lines)
        /\ DOMAIN lines' = 1 .. Len(lines)
        /\ \A i \in 1 .. Len(lines) : lines'[i].move = lines[i].move
        /\ \A i \in 1 .. Len(lines) : i # index => lines'[i] = lines[i]
        /\ lines'[index].done /\ lines'[index].depth = depth
        /\ v > low => lines'[index].value = v
    BY <1>1, <1>4, <2>1, CompletedLines
  <2>5. TypeOK'
    <3>1. low' \in -Inf .. Inf /\ index' \in DOMAIN lines'
      BY <2>2, <2>3, <2>4
    <3> QED  BY <1>1, <2>3, <2>4, <3>1 DEF RootInv, TypeOK
  <2>6. LinesAreTheMoves'
    BY <2>2, <2>4 DEF RootInv, LinesAreTheMoves
  <2>7. DepthSearched'
    BY <1>1, <2>2 DEF DepthSearched
  <2>8. /\ \A i \in 1 .. Len(lines) : i >= index => ~lines[i].done
        /\ \A i \in 1 .. index - 1 : lines[i].done /\ lines[i].depth = depth
    BY <1>1, <2>2 DEF RootInv, PassInv, PassGoesOn, Weighed
  <2>9. v < beta => \A n \in Nat : n = index => Weighed(n)'
    BY <1>1, <1>4, OneMoreWeighed
  <2>10. PassGoesOn'
    <3> SUFFICES ASSUME pc' = "pass"
                 PROVE  /\ Weighed(index - 1)'
                        /\ index' # 1
                        /\ \A i \in DOMAIN lines' : i >= index' => ~lines'[i].done
      BY DEF PassGoesOn
    <3>1. index' = index + 1 /\ v < beta
      BY <2>3
    <3>2. Weighed(index - 1)'
      <4>1. \A n \in Nat : n = index => Weighed(n)'
        BY <2>9, <3>1
      <4>2. index \in Nat /\ index' - 1 = index
        BY <2>2, <3>1
      <4> QED  BY <4>1, <4>2 DEF Weighed
    <3>3. \A i \in DOMAIN lines' : i >= index' => ~lines'[i].done
      BY <2>2, <2>4, <2>8, <3>1
    <3> QED  BY <2>2, <3>1, <3>2, <3>3
  <2>11. PassEnded'
    <3> SUFFICES ASSUME pc' = "verdict"
                 PROVE  /\ \A i \in DOMAIN lines' : lines'[i].done => lines'[i].depth = depth'
                        /\ FailedHigh' \/ Weighed(Len(lines))'
      BY DEF PassEnded
    <3>1. \A i \in DOMAIN lines' : lines'[i].done => lines'[i].depth = depth'
      BY <1>1, <2>2, <2>4, <2>8
    <3>2. CASE v >= beta
      <4>1. low < beta
        BY <1>1 DEF RootInv, PassInv, PassGoesOn, Weighed
      <4>2. lines'[index].value = v
        BY <2>2, <2>4, <3>2, <4>1
      <4>3. index \in DOMAIN lines' /\ lines'[index].value >= beta'
        BY <1>1, <2>2, <2>4, <3>2, <4>2
      <4> QED  BY <2>4, <3>1, <4>3 DEF FailedHigh
    <3>3. CASE v < beta
      <4>1. index = Len(lines') /\ index \in Nat
        BY <2>2, <2>3, <2>4, <3>3
      <4>2. \A n \in Nat : n = index => Weighed(n)'
        BY <2>9, <3>3
      <4>3. Weighed(Len(lines))'
        BY <4>1, <4>2 DEF Weighed
      <4> QED  BY <3>1, <4>3
    <3> QED  BY <2>2, <3>2, <3>3
  <2> QED  BY <1>2, <2>5, <2>6, <2>7, <2>10, <2>11 DEF RootInv, PassInv
<1> QED  BY <1>3, <1>4

\* What stable_sort leaves is the lines in another order, with none of them better
\* than the first.
LEMMA SortedLines ==
  ASSUME NEW n \in Nat \ {0}, n = Cardinality(Moves), DOMAIN lines = 1 .. n,
         \A i \in 1 .. n : lines[i].value \in Int /\ lines[i].depth \in Nat /\ lines[i].move \in Nat,
         NEW s \in Sorted
  PROVE  /\ s = [i \in 1 .. n |-> s[i]]
         /\ \A i \in 1 .. n : \E j \in 1 .. n : s[i] = lines[j]
         /\ \A j \in 1 .. n : \E i \in 1 .. n : s[i] = lines[j]
         /\ \A j \in 1 .. n : ~Better(lines[j], s[1])
<1> DEFINE At == 1 .. n
<1>1. PICK from \in Bijection(At, At) :
        /\ s = [i \in At |-> lines[from[i]]]
        /\ \A i, j \in At : i < j => Before(from[i], from[j])
  <2>1. PICK from \in Orders :
          /\ s = [i \in DOMAIN from |-> lines[from[i]]]
          /\ \A i, j \in DOMAIN from : i < j => Before(from[i], from[j])
    BY DEF Sorted
  <2>2. from \in Bijection(At, At)
    BY <2>1 DEF Orders
  <2>3. DOMAIN from = At
    BY <2>2 DEF Bijection, Surjection
  <2> QED  BY <2>1, <2>2, <2>3
<1>2. from \in [At -> At] /\ \A j \in At : \E i \in At : from[i] = j
  BY <1>1 DEF Bijection, Surjection, Injection
<1>3. ASSUME NEW j \in At PROVE ~Better(lines[j], s[1])
  <2>1. PICK i \in At : from[i] = j
    BY <1>2
  <2>2. 1 \in At /\ s[1] = lines[from[1]] /\ from[1] \in At
    <3>1. 1 \in At
      OBVIOUS
    <3>2. s[1] = lines[from[1]]
      BY <1>1, <3>1
    <3> QED  BY <1>2, <3>1, <3>2
  <2>3. CASE i = 1
    <3>1. ~Better(lines[j], lines[j])
      BY DEF Better
    <3> QED  BY <2>1, <2>2, <2>3, <3>1
  <2>4. CASE i # 1
    <3>1. Before(from[1], j)
      BY <1>1, <2>1, <2>2, <2>4
    <3>2. Better(lines[from[1]], lines[j]) => ~Better(lines[j], lines[from[1]])
      BY SMTT(30), <2>2 DEF Better
    <3> QED  BY <2>2, <3>1, <3>2 DEF Before
  <2> QED  BY <2>3, <2>4
<1> QED  BY <1>1, <1>2, <1>3

\* A depth is accepted with all moves weighed, and with the line of the best one.
LEMMA Accepted ==
  ASSUME RootInv, pc = "verdict", NEW s \in Sorted, alpha < s[1].value, s[1].value < beta
  PROVE  /\ Weighed(Len(lines))
         /\ consistent => /\ truth[depth][s[1].move] = s[1].value
                          /\ \A m \in Moves : truth[depth][m] <= s[1].value
<1> DEFINE n == Len(lines)
<1>1. /\ n \in Nat \ {0} /\ DOMAIN lines = 1 .. n /\ alpha \in Int /\ beta \in Int /\ low \in Int
      /\ \A i \in 1 .. n : lines[i].value \in Int /\ lines[i].depth \in Nat /\ lines[i].move \in Nat
  <2>1. n \in Nat \ {0} /\ DOMAIN lines = 1 .. n /\ \A i \in 1 .. n : lines[i] \in Line
    BY Numbers DEF RootInv
  <2>2. \A i \in 1 .. n : lines[i].move \in Moves
    BY <2>1 DEF Line
  <2> QED  BY <2>1, <2>2, Numbers, RootAssumption DEF RootInv
<1>2. /\ \E j \in 1 .. n : s[1] = lines[j]
      /\ \A j \in 1 .. n : ~Better(lines[j], s[1])
  <2>1. 1 \in 1 .. n
    BY <1>1
  <2>2. n = Cardinality(Moves)
    BY DEF RootInv, LinesAreTheMoves
  <2> QED  BY <1>1, <2>1, <2>2, SortedLines
<1>3. PICK k \in 1 .. n : s[1] = lines[k]
  BY <1>2
<1>4. depth \in Nat /\ depth > 0
  <2>1. depth \in Searched /\ MaxDepth \in Nat
    BY RootAssumption DEF RootInv, PassInv, DepthSearched
  <2> QED  BY <2>1 DEF Searched
<1>5. ASSUME NEW i \in 1 .. n, lines[i].done PROVE lines[i].depth = depth
  BY <1>1, <1>5 DEF RootInv, PassInv, PassEnded
<1>6. ASSUME NEW i \in 1 .. n, lines[i].done, lines[i].value > s[1].value PROVE FALSE
  <2>1. Usable(lines[i])
    BY <1>4, <1>5, <1>6 DEF Usable
  <2>2. CASE ~Usable(s[1])
    BY <1>2, <2>1, <2>2 DEF Better
  <2>3. CASE Usable(s[1])
    <3>1. s[1].depth = lines[i].depth
      BY <1>3, <1>5, <1>6, <2>3 DEF Usable
    <3> QED  BY <1>2, <1>6, <2>1, <3>1 DEF Better
  <2> QED  BY <2>2, <2>3
<1>7. ~FailedHigh
  <2> SUFFICES ASSUME FailedHigh PROVE FALSE
    OBVIOUS
  <2>1. PICK i \in 1 .. n : lines[i].done /\ lines[i].value >= beta
    BY <1>1 DEF FailedHigh
  <2>2. lines[i].value > s[1].value
    BY <1>1, <1>3, <2>1
  <2> QED  BY <1>6, <2>1, <2>2
<1>8. Weighed(n)
  BY <1>7 DEF RootInv, PassInv, PassEnded
<1>9. /\ \A i \in 1 .. n : lines[i].done /\ lines[i].value <= low
      /\ consistent => \A i \in 1 .. n : truth[depth][lines[i].move] <= low
  BY <1>8 DEF Weighed
<1>10. hasPv
  <2>1. s[1].value <= low /\ s[1].value \in Int
    BY <1>1, <1>3, <1>9
  <2>2. low # alpha
    BY <1>1, <2>1
  <2> QED  BY <1>8, <2>2 DEF Weighed
<1>11. PICK p \in 1 .. n :
         /\ lines[p].value = low
         /\ consistent => truth[depth][lines[p].move] = low
         /\ \A i \in 1 .. n : i # p => lines[i].value < low
  BY <1>8, <1>10 DEF Weighed
<1>12. k = p
  <2> SUFFICES ASSUME k # p PROVE FALSE
    OBVIOUS
  <2>1. lines[p].value > s[1].value
    BY <1>1, <1>3, <1>11
  <2> QED  BY <1>6, <1>9, <2>1
<1>13. s[1].value = low /\ (consistent => truth[depth][s[1].move] = low)
  BY <1>3, <1>11, <1>12
<1>14. \A m \in Moves : \E i \in 1 .. n : lines[i].move = m
  BY <1>1 DEF RootInv, LinesAreTheMoves
<1> QED  BY <1>8, <1>9, <1>13, <1>14

\* The window stays open and within the scores, however often it grows.
LEMMA Widened ==
  ASSUME TypeOK
  PROVE  /\ Lower \in -Inf .. Inf /\ Lower < beta
         /\ Raised \in -Inf .. Inf /\ alpha < Raised
         /\ Grown \in 1 .. Inf
<1>1. /\ Inf \in Nat \ {0} /\ alpha \in -Inf .. Inf /\ beta \in -Inf .. Inf /\ alpha < beta
      /\ delta \in 1 .. Inf
  BY RootAssumption DEF TypeOK
<1>2. Lower \in -Inf .. Inf /\ Lower < beta
  BY <1>1 DEF Lower, Larger
<1>3. Raised \in -Inf .. Inf /\ alpha < Raised
  BY <1>1 DEF Raised, Smaller
<1>4. Grown \in 1 .. Inf
  BY <1>1 DEF Grown
<1> QED  BY <1>2, <1>3, <1>4

\* Sorting keeps the lines; the verdict on them accepts the depth or tries again.
LEMMA VerdictStep == RootInv /\ Verdict => RootInv'
<1> SUFFICES ASSUME RootInv, Verdict PROVE RootInv'
  OBVIOUS
<1> USE DEF window, pass
<1> DEFINE n == Len(lines)
           value == lines'[1].value
<1>1. pc = "verdict" /\ lines' \in Sorted /\ UNCHANGED <<truth, consistent, stop, index, low, hasPv>>
  BY DEF Verdict
<1>2. /\ n \in Nat \ {0} /\ DOMAIN lines = 1 .. n /\ index \in 1 .. n
      /\ \A i \in 1 .. n : lines[i] \in Line
  BY Numbers DEF RootInv
<1>3. \A i \in 1 .. n : lines[i].value \in Int /\ lines[i].depth \in Nat /\ lines[i].move \in Nat
  <2>1. \A i \in 1 .. n : lines[i].move \in Moves
    BY <1>2 DEF Line
  <2> QED  BY <1>2, <2>1, Numbers, RootAssumption DEF RootInv
<1>4. /\ lines' = [i \in 1 .. n |-> lines'[i]]
      /\ \A i \in 1 .. n : \E j \in 1 .. n : lines'[i] = lines[j]
      /\ \A j \in 1 .. n : \E i \in 1 .. n : lines'[i] = lines[j]
  <2>1. n = Cardinality(Moves)
    BY DEF RootInv, LinesAreTheMoves
  <2> QED  BY <1>1, <1>2, <1>3, <2>1, SortedLines
<1>5. \A i \in 1 .. n : lines'[i] \in Line
  BY <1>2, <1>4
<1>6. lines' \in Seq(Line) /\ ToSet(lines') # {} /\ Len(lines') = n /\ DOMAIN lines' = 1 .. n
  BY <1>2, <1>4, <1>5, LinesTyped
<1>7. LinesAreTheMoves'
  <2>1. \A i \in 1 .. n : lines[i].move \in Moves
    BY <1>2 DEF Line
  <2>2. \A m \in Moves : \E i \in 1 .. n : lines[i].move = m
    BY <1>2 DEF RootInv, LinesAreTheMoves
  <2>3. \A i \in 1 .. n : lines'[i].move \in Moves
    BY <1>4, <2>1
  <2>4. \A m \in Moves : \E i \in 1 .. n : lines'[i].move = m
    <3> SUFFICES ASSUME NEW m \in Moves PROVE \E i \in 1 .. n : lines'[i].move = m
      OBVIOUS
    <3>1. PICK j \in 1 .. n : lines[j].move = m
      BY <2>2
    <3>2. PICK i \in 1 .. n : lines'[i] = lines[j]
      BY <1>4
    <3> QED  BY <3>1, <3>2
  <2>5. {lines'[i].move : i \in DOMAIN lines'} = Moves
    BY <1>6, <2>3, <2>4
  <2> QED  BY <1>6, <2>5 DEF RootInv, LinesAreTheMoves
<1>8. depth \in Searched /\ depth \in 1 .. MaxDepth /\ MaxDepth \in Nat
  BY <1>1, RootAssumption DEF RootInv, PassInv, DepthSearched, Searched
<1>9. 1 \in 1 .. n /\ lines'[1] \in Line /\ value \in Int /\ alpha \in Int /\ beta \in Int
  <2>1. 1 \in 1 .. n
    BY <1>2
  <2>2. value \in Int
    BY <1>3, <1>4, <2>1
  <2> QED  BY <1>5, <2>1, <2>2, Numbers DEF RootInv
<1>10. /\ index' \in DOMAIN lines' /\ truth' \in [Searched -> [Moves -> Values \cup {0}]]
       /\ consistent' \in BOOLEAN /\ stop' \in BOOLEAN /\ hasPv' \in BOOLEAN /\ low' \in -Inf .. Inf
  BY <1>1, <1>2, <1>6 DEF RootInv, TypeOK
<1>11. CASE value <= alpha
  <2>1. /\ alpha' = Lower /\ delta' = Grown /\ pc' = "aspire" /\ UNCHANGED <<beta, depth, result>>
    BY <1>11 DEF Verdict
  <2>2. alpha' \in -Inf .. Inf /\ alpha' < beta' /\ delta' \in 1 .. Inf
    BY <2>1, Widened DEF RootInv
  <2>3. TypeOK'
    BY <1>6, <1>10, <2>1, <2>2 DEF RootInv, TypeOK
  <2>4. PassInv' /\ ResultIsBest'
    BY <1>1, <1>8, <2>1 DEF RootInv, ResultIsBest, PassInv, DepthSearched, PassGoesOn, PassEnded
  <2> QED  BY <1>7, <2>3, <2>4 DEF RootInv
<1>12. CASE value > alpha /\ value >= beta
  <2>1. /\ beta' = Raised /\ delta' = Grown /\ pc' = "aspire" /\ UNCHANGED <<alpha, depth, result>>
    BY <1>9, <1>12 DEF Verdict
  <2>2. beta' \in -Inf .. Inf /\ alpha' < beta' /\ delta' \in 1 .. Inf
    BY <2>1, Widened DEF RootInv
  <2>3. TypeOK'
    BY <1>6, <1>10, <2>1, <2>2 DEF RootInv, TypeOK
  <2>4. PassInv' /\ ResultIsBest'
    BY <1>1, <1>8, <2>1 DEF RootInv, ResultIsBest, PassInv, DepthSearched, PassGoesOn, PassEnded
  <2> QED  BY <1>7, <2>3, <2>4 DEF RootInv
<1>13. CASE alpha < value /\ value < beta
  <2>1. /\ result' = lines'[1] /\ depth' = depth + 1 /\ pc' \in {"returned", "deepen"}
        /\ UNCHANGED <<alpha, beta, delta>>
    BY <1>9, <1>13 DEF Verdict
  <2>2. depth' \in 1 .. MaxDepth + 1
    BY <1>8, <2>1
  <2>3. TypeOK'
    BY <1>6, <1>9, <1>10, <2>1, <2>2 DEF RootInv, TypeOK
  <2>4. PassInv'
    BY <2>1 DEF PassInv, DepthSearched, PassGoesOn, PassEnded
  <2>5. ResultIsBest'
    <3>1. consistent => /\ truth[depth][lines'[1].move] = value
                        /\ \A m \in Moves : truth[depth][m] <= value
      BY <1>1, <1>13, Accepted
    <3>2. lines'[1].done => lines'[1].depth = depth
      <4>1. PICK j \in 1 .. n : lines'[1] = lines[j]
        BY <1>4, <1>9
      <4>2. lines[j].done => lines[j].depth = depth
        BY <1>1, <1>2 DEF RootInv, PassInv, PassEnded
      <4> QED  BY <4>1, <4>2
    <3> QED  BY <1>1, <2>1, <3>1, <3>2 DEF ResultIsBest
  <2> QED  BY <1>7, <2>3, <2>4, <2>5 DEF RootInv
<1> QED  BY <1>9, <1>11, <1>12, <1>13

\* A stop request changes nothing else, and a stutter nothing.
LEMMA StillRoot == ASSUME RootInv, RequestStop \/ UNCHANGED vars PROVE RootInv'
<1> USE DEF window, pass
<1>1. /\ UNCHANGED <<pc, truth, consistent, depth, alpha, beta, delta, lines, index, low, hasPv, result>>
      /\ stop' \in BOOLEAN
  <2>1. CASE RequestStop
    BY <2>1 DEF RequestStop
  <2>2. CASE UNCHANGED vars
    BY <2>2 DEF vars, RootInv, TypeOK
  <2> QED  BY <2>1, <2>2
<1>2. TypeOK'
  BY <1>1 DEF RootInv, TypeOK
<1>3. LinesAreTheMoves' /\ ResultIsBest'
  BY <1>1 DEF RootInv, LinesAreTheMoves, ResultIsBest
<1>4. \A k \in Nat : Weighed(k)' <=> Weighed(k)
  BY <1>1 DEF Weighed
<1>5. Weighed(index - 1)' <=> Weighed(index - 1)
  BY <1>1 DEF Weighed
<1>6. Weighed(Len(lines))' <=> Weighed(Len(lines))
  BY <1>1 DEF Weighed
<1>7. FailedHigh' <=> FailedHigh
  BY <1>1 DEF FailedHigh
<1>8. PassInv'
  BY <1>1, <1>5, <1>6, <1>7 DEF RootInv, PassInv, DepthSearched, PassGoesOn, PassEnded
<1> QED  BY <1>2, <1>3, <1>8 DEF RootInv

LEMMA RootStep == RootInv /\ [Next]_vars => RootInv'
BY NextDepthStep, AttemptStep, SearchMoveStep, VerdictStep, StillRoot
   DEF Next, SearchStep, Terminated

-----------------------------------------------------------------------------
(* What holds of every search of the root.                                 *)

\* RootInv holds throughout.
LEMMA RootInvariant == Spec => []RootInv
<1>1. Init => RootInv
  BY InitRoot
<1>2. RootInv /\ [Next]_vars => RootInv'
  BY RootStep
<1> QED  BY <1>1, <1>2, PTL DEF Spec

\* Whatever windows failed, whichever bounds the scouts returned and whenever the
\* stop came, the root lines are the moves and the result of a completed depth is a
\* best move with its value (search_root, search_root_depth, search_root_window).
THEOREM RootStaysSound == Spec => []RootIsSound
<1>1. RootInv => RootIsSound
  BY DEF RootInv, RootIsSound
<1> QED  BY <1>1, RootInvariant, PTL

\* No depth is accepted before every root move was weighed in the attempt that is
\* accepted, even when searches disagree with each other.
THEOREM MovesAreWeighed == Spec => EveryMoveWeighed
<1> DEFINE Fair == result' # result => \A i \in DOMAIN lines : lines[i].done /\ lines[i].depth = depth
<1>1. RootInv /\ [Next]_vars => [Fair]_vars
  <2> SUFFICES ASSUME RootInv, [Next]_vars, result' # result
               PROVE  \A i \in DOMAIN lines : lines[i].done /\ lines[i].depth = depth
    OBVIOUS
  <2>1. Verdict /\ alpha < lines'[1].value /\ lines'[1].value < beta
    <3>1. Verdict
      BY DEF vars, Next, SearchStep, NextDepth, Attempt, SearchMove, RequestStop, Terminated
    <3>2. ~(lines'[1].value <= alpha) /\ ~(lines'[1].value >= beta)
      BY <3>1 DEF Verdict
    <3>3. lines'[1].value \in Int /\ alpha \in Int /\ beta \in Int
      <4>1. TypeOK' /\ Inf \in Nat
        BY RootStep, RootAssumption DEF RootInv
      <4>2. lines' \in Seq(Line) /\ index' \in DOMAIN lines'
        BY <4>1 DEF TypeOK
      <4>3. 1 \in DOMAIN lines'
        BY <4>2
      <4>4. lines'[1] \in Line
        BY <4>2, <4>3
      <4> QED  BY <4>1, <4>4, Numbers DEF RootInv, Line
    <3> QED  BY <3>1, <3>2, <3>3
  <2>2. Weighed(Len(lines))
    BY <2>1, Accepted DEF Verdict
  <2>3. DOMAIN lines = 1 .. Len(lines)
    BY Numbers DEF RootInv
  <2> QED  BY <2>2, <2>3 DEF Weighed
<1> QED  BY <1>1, RootInvariant, PTL DEF Spec, EveryMoveWeighed
=============================================================================
