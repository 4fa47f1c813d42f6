---------------------------- MODULE OrderingProofs ----------------------------
(* Move ordering, for every position, every set of moves, scores and hints,   *)
(* and every scale.  The picker: no move is picked twice, only pseudo-legal   *)
(* ones are, a skip holds, nothing owed is lost and the order is kept.  The   *)
(* quiet-move memory: the bounds of the histories, the lifetime of the hints. *)
EXTENDS Picker, Ordering, SequenceTheorems, TLAPS

Places(range) == range.next .. range.end - 1

\* The stages before the quiet moves are generated.
BeforeQuiet == {"TtMove", "LoadNoisy", "PickGoodNoisy", "PickQuietHint", "LoadQuiet"}

\* The array holds two adjoining ranges.
Typed ==
    /\ TypeOK
    /\ candidates \in Seq(board.pseudo_legal)
    /\ quiet_hint_next \in Nat \ {0}
    /\ 1 <= primary_range.next /\ primary_range.next <= primary_range.end
    /\ primary_range.end <= quiet_range.next
    /\ quiet_range.next <= quiet_range.end /\ quiet_range.end <= Len(candidates) + 1

TtIsValid ==
    tt_move # NullMove => /\ tt_move \in board.pseudo_legal
                          /\ board.in_check => tt_move \in board.legal

HintsAreValid ==
    /\ \A i \in 1 .. Len(quiet_hints) :
         quiet_hints[i] # tt_move /\ ~Noisy(quiet_hints[i]) /\ quiet_hints[i] \in board.pseudo_legal
    /\ \A i, j \in 1 .. Len(quiet_hints) : quiet_hints[i] = quiet_hints[j] => i = j
    /\ board.in_check \/ mode = "QSearch" => quiet_hints = <<>>

StagesFit ==
    /\ board.in_check => stage \in {"TtMove", "LoadEvasions", "PickEvasion", "Done"}
    /\ ~board.in_check => stage \notin {"LoadEvasions", "PickEvasion"}
    /\ skip_quiets => stage \notin SkipStages /\ ~board.in_check /\ mode = "MainSearch"

\* Which moves the two ranges still hold, each once.
RangesHold ==
    /\ \A i \in Places(primary_range) :
         IF board.in_check THEN candidates[i] \in ToSet(board.evasions) ELSE Noisy(candidates[i])
    /\ \A i \in Places(quiet_range) : ~Noisy(candidates[i])
    /\ board.in_check \/ stage \in BeforeQuiet => Places(quiet_range) = {}
    /\ \A i, j \in Places(primary_range) : candidates[i] = candidates[j] => i = j
    /\ \A i, j \in Places(quiet_range) : candidates[i] = candidates[j] => i = j

\* What is still to come has not been picked, the table's move and the hints
\* apart, which the later stages pass over.
NotYetPicked ==
    /\ \A i \in Places(primary_range), j \in 1 .. Len(picked) :
         candidates[i] = picked[j] => candidates[i] = tt_move
    /\ \A i \in Places(quiet_range), j \in 1 .. Len(picked) :
         candidates[i] = picked[j] => candidates[i] = tt_move \/ Contains(quiet_hints, candidates[i])
    /\ \A i \in quiet_hint_next .. Len(quiet_hints), j \in 1 .. Len(picked) : quiet_hints[i] # picked[j]

PickedSoFar ==
    /\ stage = "TtMove" => picked = <<>>
    /\ stage \in {"LoadNoisy", "LoadEvasions"} => \A j \in 1 .. Len(picked) : picked[j] = tt_move
    /\ stage \in BeforeQuiet =>
         \A j \in 1 .. Len(picked) :
             Noisy(picked[j]) \/ picked[j] = tt_move \/ Contains(quiet_hints, picked[j])
    /\ \A j \in 1 .. Len(picked) : picked[j] \in board.pseudo_legal
    /\ board.in_check =>
         \A j \in 1 .. Len(picked) : picked[j] = tt_move \/ picked[j] \in ToSet(board.evasions)
    /\ \A i, j \in 1 .. Len(picked) : picked[i] = picked[j] => i = j

IInv == Typed /\ TtIsValid /\ HintsAreValid /\ StagesFit /\ RangesHold /\ NotYetPicked /\ PickedSoFar

LEMMA BoardFacts ==
    ASSUME board \in Boards
    PROVE  /\ board.in_check \in BOOLEAN
           /\ board.pseudo_legal \subseteq Moves /\ board.legal \subseteq board.pseudo_legal
           /\ board.noisy \in Seq(board.pseudo_legal) /\ board.quiet \in Seq(board.pseudo_legal)
           /\ board.evasions \in Seq(board.pseudo_legal)
           /\ \A i, j \in 1 .. Len(board.noisy) : board.noisy[i] = board.noisy[j] => i = j
           /\ \A i, j \in 1 .. Len(board.quiet) : board.quiet[i] = board.quiet[j] => i = j
           /\ \A i, j \in 1 .. Len(board.evasions) : board.evasions[i] = board.evasions[j] => i = j
           /\ \A i \in 1 .. Len(board.noisy) : Noisy(board.noisy[i])
           /\ \A i \in 1 .. Len(board.quiet) : ~Noisy(board.quiet[i])
  BY PickerAssumption DEF IsInjective, Noisy

-----------------------------------------------------------------------------
(* The initial states.                                                       *)

\* A list of hints as the constructor builds it.
ValidHints(b, tt, hints) ==
    /\ hints \in Seq(Moves)
    /\ \A i \in 1 .. Len(hints) : hints[i] # tt /\ ~Noisy(hints[i]) /\ hints[i] \in b.pseudo_legal
    /\ \A i, j \in 1 .. Len(hints) : hints[i] = hints[j] => i = j

LEMMA AddedHintIsValid ==
    ASSUME NEW b \in Boards, NEW tt, NEW hints, NEW m, ValidHints(b, tt, hints)
    PROVE  ValidHints(b, tt, AddQuietHint(b, tt, hints, m))
  <1>1. CASE ValidQuietHint(b, tt, hints, m)
    <2>1. m \in Moves /\ m # tt /\ ~Noisy(m) /\ m \in b.pseudo_legal
      BY <1>1, PickerAssumption DEF ValidQuietHint
    <2>2. \A i \in 1 .. Len(hints) : hints[i] # m
      BY <1>1 DEF ValidQuietHint, Contains
    <2>3. AddQuietHint(b, tt, hints, m) = Append(hints, m)
      BY <1>1 DEF AddQuietHint
    <2> QED
      BY <2>1, <2>2, <2>3 DEF ValidHints
  <1>2. CASE ~ValidQuietHint(b, tt, hints, m)
    BY <1>2 DEF AddQuietHint
  <1> QED
    BY <1>1, <1>2

LEMMA InitIInv == Init => IInv
  <1> SUFFICES ASSUME Init PROVE IInv
    OBVIOUS
  <1>0. board \in Boards
    BY DEF Init
  <1>1. tt_move \in Moves \union {NullMove} /\ TtIsValid
    BY <1>0, BoardFacts DEF Init, ValidateTtHint, TtIsValid
  <1>2. ValidHints(board, tt_move, quiet_hints)
    <2> PICK slots \in [1 .. QuietHintCapacity -> Moves \union {NullMove}] :
          quiet_hints = AddQuietHints(board, mode, tt_move, slots)
      BY DEF Init
    <2>1. ValidHints(board, tt_move, <<>>)
      BY DEF ValidHints
    <2> QED
      BY <1>0, <2>1, AddedHintIsValid DEF AddQuietHints
  <1>3. board.in_check \/ mode = "QSearch" => quiet_hints = <<>>
    BY DEF Init, AddQuietHints, MainQuiet
  <1>4. candidates = <<>> /\ picked = <<>>
    BY DEF Init
  <1>5. Typed
    <2>1. TypeOK
      <3>1. quiet_hints \in Seq(Moves)
        BY <1>2 DEF ValidHints
      <3>2. candidates \in Seq(Moves) /\ picked \in Seq(Moves)
        BY <1>4
      <3>3. primary_range \in Ranges /\ quiet_range \in Ranges
        BY DEF Init, EmptyRange, Ranges
      <3>4. stage \in Stages /\ mode \in Modes /\ skip_quiets \in BOOLEAN /\ idle \in BOOLEAN
        BY DEF Init, Stages
      <3>5. quiet_hint_next \in Nat
        BY DEF Init
      <3> QED
        BY <1>0, <1>1, <3>1, <3>2, <3>3, <3>4, <3>5 DEF TypeOK
    <2>2. candidates \in Seq(board.pseudo_legal) /\ Len(candidates) = 0
      BY <1>4
    <2> QED
      BY <2>1, <2>2 DEF Init, Typed, EmptyRange
  <1>6. HintsAreValid
    BY <1>2, <1>3 DEF HintsAreValid, ValidHints
  <1>7. StagesFit
    BY <1>0, BoardFacts DEF Init, StagesFit
  <1>8. Places(primary_range) = {} /\ Places(quiet_range) = {}
    BY DEF Init, EmptyRange, Places
  <1> QED
    BY <1>1, <1>4, <1>5, <1>6, <1>7, <1>8 DEF Init, IInv, RangesHold, NotYetPicked, PickedSoFar

-----------------------------------------------------------------------------
(* Picking from a range.                                                     *)

\* The swap brings the picked candidate to the front and moves the one that
\* was there to its place.
LEMMA SwappedAt ==
    ASSUME NEW T, NEW c \in Seq(T), NEW i \in 1 .. Len(c), NEW j \in 1 .. Len(c)
    PROVE  /\ Swapped(c, i, j) \in Seq(T) /\ Len(Swapped(c, i, j)) = Len(c)
           /\ \A k \in 1 .. Len(c) :
                Swapped(c, i, j)[k] = IF k = j THEN c[i] ELSE IF k = i THEN c[j] ELSE c[k]
  <1> DEFINE d == [c EXCEPT ![i] = c[j]]
  <1>1. c[i] \in T /\ c[j] \in T
    OBVIOUS
  <1>2. d \in Seq(T) /\ Len(d) = Len(c) /\ \A k \in 1 .. Len(c) : d[k] = IF k = i THEN c[j] ELSE c[k]
    BY <1>1, ExceptSeq
  <1>3. Swapped(c, i, j) = [d EXCEPT ![j] = c[i]]
    BY DEF Swapped
  <1> HIDE DEF d
  <1>4. /\ Swapped(c, i, j) \in Seq(T) /\ Len(Swapped(c, i, j)) = Len(d)
        /\ \A k \in 1 .. Len(d) : Swapped(c, i, j)[k] = IF k = j THEN c[i] ELSE d[k]
    BY <1>1, <1>2, <1>3, ExceptSeq
  <1> QED
    BY <1>2, <1>4

\* The same as one fact about every sequence.
IsSwap(T, c, i, j) ==
    /\ Swapped(c, i, j) \in Seq(T) /\ Len(Swapped(c, i, j)) = Len(c)
    /\ \A k \in 1 .. Len(c) :
         Swapped(c, i, j)[k] = IF k = j THEN c[i] ELSE IF k = i THEN c[j] ELSE c[k]

LEMMA SwapsAre == \A T : \A c \in Seq(T) : \A i, j \in 1 .. Len(c) : IsSwap(T, c, i, j)
  BY SwappedAt DEF IsSwap

\* An evasion or a noisy move is handed out: the rest of its range and the
\* quiet range hold what they held.
LEMMA PickedFromPrimary ==
    ASSUME IInv, UNCHANGED <<position, quiet_hint_next, skip_quiets, stage, quiet_range>>,
           stage \in {"PickEvasion", "PickGoodNoisy", "PickBadNoisy"},
           NEW i \in Places(primary_range), candidates[i] # tt_move,
           candidates' = Swapped(candidates, primary_range.next, i),
           primary_range' = Advanced(primary_range), Return(candidates[i])
    PROVE  IInv'
  <1> DEFINE m == candidates[i]
             n == primary_range.next
  <1>0. /\ UNCHANGED <<board, mode, tt_move, quiet_hints>>
        /\ board \in Boards /\ quiet_range \in Ranges /\ primary_range \in Ranges
        /\ candidates \in Seq(Moves) /\ candidates \in Seq(board.pseudo_legal) /\ picked \in Seq(Moves)
    BY DEF IInv, Typed, TypeOK, position
  <1>1. /\ n \in 1 .. Len(candidates) /\ i \in 1 .. Len(candidates) /\ n <= i
        /\ i <= primary_range.end - 1 /\ primary_range.end <= quiet_range.next
        /\ quiet_range.end <= Len(candidates) + 1
    BY <1>0 DEF IInv, Typed, Places, Ranges
  <1>2. /\ candidates' \in Seq(board.pseudo_legal) /\ Len(candidates') = Len(candidates)
        /\ \A k \in 1 .. Len(candidates) :
             candidates'[k] = IF k = i THEN candidates[n] ELSE IF k = n THEN m ELSE candidates[k]
    <2> DEFINE T == board.pseudo_legal
               c == candidates
    <2>1. c \in Seq(T) /\ n \in 1 .. Len(c) /\ i \in 1 .. Len(c)
      BY <1>0, <1>1
    <2>2. candidates' = Swapped(c, n, i) /\ m = c[i]
      OBVIOUS
    <2> HIDE DEF T, c, n, m
    <2>3. IsSwap(T, c, n, i)
      BY <2>1, SwapsAre
    <2>4. /\ Swapped(c, n, i) \in Seq(T) /\ Len(Swapped(c, n, i)) = Len(c)
          /\ \A k \in 1 .. Len(c) :
               Swapped(c, n, i)[k] = IF k = i THEN c[n] ELSE IF k = n THEN c[i] ELSE c[k]
      BY <2>3 DEF IsSwap
    <2> QED
      BY <2>2, <2>4 DEF T, c
  <1>3. /\ picked' = Append(picked, m) /\ idle' = TRUE /\ m \in board.pseudo_legal /\ m \in Moves
    BY <1>0, <1>1 DEF Return
  <1>4. /\ picked' \in Seq(Moves) /\ Len(picked') = Len(picked) + 1 /\ picked'[Len(picked) + 1] = m
        /\ \A j \in 1 .. Len(picked) : picked'[j] = picked[j]
    BY <1>0, <1>3
  <1>5. primary_range' = [next |-> n + 1, end |-> primary_range.end]
    BY <1>0 DEF Advanced, Ranges
  <1>6. \A j \in 1 .. Len(picked) : picked[j] # m
    BY DEF IInv, NotYetPicked
  <1>7. \A k \in Places(quiet_range) : candidates'[k] = candidates[k] /\ k \in 1 .. Len(candidates)
    BY SMTT(30), <1>0, <1>1, <1>2 DEF Places, Ranges
  <1>8. \A k \in Places(primary_range') :
          /\ k \in Places(primary_range) /\ k # n
          /\ candidates'[k] = IF k = i THEN candidates[n] ELSE candidates[k]
    <2> SUFFICES ASSUME NEW k \in Places(primary_range')
                 PROVE  /\ k \in Places(primary_range) /\ k # n
                        /\ candidates'[k] = IF k = i THEN candidates[n] ELSE candidates[k]
      OBVIOUS
    <2>1. n \in Nat /\ primary_range.end \in Nat /\ quiet_range.next \in Nat /\ quiet_range.end \in Nat
      BY <1>0 DEF Ranges
    <2>2. k \in n + 1 .. primary_range.end - 1
      BY <1>5 DEF Places
    <2>3. k \in Places(primary_range) /\ k # n /\ k \in 1 .. Len(candidates)
      BY SMTT(30), <1>0, <1>1, <2>1, <2>2, quiet_range.next <= quiet_range.end DEF Places, IInv, Typed
    <2> QED
      BY <1>2, <2>3
  <1>9. IF board.in_check THEN m \in ToSet(board.evasions) ELSE Noisy(m)
    BY DEF IInv, RangesHold
  <1>10. \A h \in 1 .. Len(quiet_hints) : quiet_hints[h] # m
    <2>1. CASE board.in_check
      BY <2>1 DEF IInv, HintsAreValid
    <2>2. CASE ~board.in_check
      BY <2>2, <1>9 DEF IInv, HintsAreValid
    <2> QED
      BY <2>1, <2>2
  <1>11. n \in Places(primary_range)
    BY <1>0, <1>1 DEF Places, Ranges
  <1> HIDE DEF m, n
  <1>12. Typed'
    <2>1. candidates' \in Seq(Moves)
      BY <1>2, <1>0, BoardFacts
    <2>2. primary_range' \in Ranges
      BY <1>0, <1>5 DEF Ranges, n
    <2>3. TypeOK'
      BY <1>0, <1>3, <1>4, <2>1, <2>2 DEF IInv, Typed, TypeOK
    <2>4. /\ 1 <= primary_range'.next /\ primary_range'.next <= primary_range'.end
          /\ primary_range'.end = primary_range.end
      BY <1>0, <1>1, <1>5 DEF Ranges, n
    <2> QED
      BY <1>0, <1>2, <2>3, <2>4 DEF IInv, Typed
  <1>13. TtIsValid' /\ HintsAreValid' /\ StagesFit'
    BY <1>0 DEF IInv, TtIsValid, HintsAreValid, StagesFit
  <1>14. RangesHold'
    <2>1. \A k \in Places(primary_range)' :
            IF board.in_check' THEN candidates'[k] \in ToSet(board.evasions)' ELSE Noisy(candidates'[k])
      BY <1>0, <1>8, <1>11 DEF IInv, RangesHold
    <2>2. \A k \in Places(quiet_range)' : ~Noisy(candidates'[k])
      BY <1>7 DEF IInv, RangesHold
    <2>3. (board.in_check \/ stage \in BeforeQuiet => Places(quiet_range) = {})'
      BY <1>0 DEF IInv, RangesHold
    <2>4. \A k, l \in Places(primary_range)' : candidates'[k] = candidates'[l] => k = l
      BY <1>8, <1>11 DEF IInv, RangesHold
    <2>5. \A k, l \in Places(quiet_range)' : candidates'[k] = candidates'[l] => k = l
      BY <1>7 DEF IInv, RangesHold
    <2> QED
      BY <2>1, <2>2, <2>3, <2>4, <2>5 DEF RangesHold
  <1>15. NotYetPicked'
    <2>1. ASSUME NEW k \in Places(primary_range)', NEW j \in 1 .. Len(picked'), candidates'[k] = picked'[j]
          PROVE  candidates'[k] = tt_move
      <3>1. candidates'[k] # m
        BY <1>8, <1>11 DEF IInv, RangesHold, m
      <3>2. j \in 1 .. Len(picked) /\ picked'[j] = picked[j]
        <4>1. j # Len(picked) + 1
          BY <1>4, <2>1, <3>1
        <4> QED
          BY <1>0, <1>4, <4>1
      <3> QED
        BY <1>8, <1>11, <2>1, <3>2 DEF IInv, NotYetPicked
    <2>2. ASSUME NEW k \in Places(quiet_range)', NEW j \in 1 .. Len(picked'), candidates'[k] = picked'[j]
          PROVE  candidates'[k] = tt_move \/ Contains(quiet_hints, candidates'[k])
      <3>1. ~board.in_check /\ ~Noisy(candidates[k]) /\ candidates'[k] = candidates[k]
        BY <1>7 DEF IInv, RangesHold
      <3>2. j \in 1 .. Len(picked) /\ picked'[j] = picked[j]
        <4>1. j # Len(picked) + 1
          BY <1>4, <1>9, <2>2, <3>1
        <4> QED
          BY <1>0, <1>4, <4>1
      <3> QED
        BY <2>2, <3>1, <3>2 DEF IInv, NotYetPicked
    <2>3. \A h \in quiet_hint_next .. Len(quiet_hints), j \in 1 .. Len(picked') : quiet_hints[h] # picked'[j]
      <3> SUFFICES ASSUME NEW h \in quiet_hint_next .. Len(quiet_hints), NEW j \in 1 .. Len(picked')
                   PROVE  quiet_hints[h] # picked'[j]
        OBVIOUS
      <3>1. h \in 1 .. Len(quiet_hints)
        BY DEF IInv, Typed, TypeOK
      <3>2. CASE j = Len(picked) + 1
        BY <1>4, <1>10, <3>1, <3>2
      <3>3. CASE j # Len(picked) + 1
        BY <1>0, <1>4, <3>3 DEF IInv, NotYetPicked
      <3> QED
        BY <3>2, <3>3
    <2> QED
      BY <1>0, <2>1, <2>2, <2>3 DEF NotYetPicked
  <1>16. PickedSoFar'
    <2>1. \A j \in 1 .. Len(picked') : j = Len(picked) + 1 \/ j \in 1 .. Len(picked)
      BY <1>0, <1>4
    <2>2. stage' \notin {"TtMove", "LoadNoisy", "LoadEvasions"}
      OBVIOUS
    <2>3. stage' \in BeforeQuiet => Noisy(m)
      BY <1>9 DEF IInv, StagesFit, BeforeQuiet
    <2>4. \A j \in 1 .. Len(picked') : picked'[j] \in board.pseudo_legal
      BY <1>3, <1>4, <2>1 DEF IInv, PickedSoFar
    <2>5. board.in_check =>
            \A j \in 1 .. Len(picked') : picked'[j] = tt_move \/ picked'[j] \in ToSet(board.evasions)
      BY <1>4, <1>9, <2>1 DEF IInv, PickedSoFar
    <2>6. \A j, k \in 1 .. Len(picked') : picked'[j] = picked'[k] => j = k
      BY <1>4, <1>6, <2>1 DEF IInv, PickedSoFar
    <2>7. stage' \in BeforeQuiet =>
            \A j \in 1 .. Len(picked') :
                Noisy(picked'[j]) \/ picked'[j] = tt_move \/ Contains(quiet_hints, picked'[j])
      BY <1>4, <2>1, <2>3 DEF IInv, PickedSoFar
    <2> QED
      BY <1>0, <2>2, <2>4, <2>5, <2>6, <2>7 DEF PickedSoFar
  <1> QED
    BY <1>12, <1>13, <1>14, <1>15, <1>16 DEF IInv

\* A generated quiet move is handed out.
LEMMA PickedFromQuiet ==
    ASSUME IInv, UNCHANGED <<position, quiet_hint_next, skip_quiets, stage, primary_range>>,
           stage = "PickQuiet",
           NEW i \in Places(quiet_range), Quiet(candidates[i]),
           candidates' = Swapped(candidates, quiet_range.next, i),
           quiet_range' = Advanced(quiet_range), Return(candidates[i])
    PROVE  IInv'
  <1> DEFINE m == candidates[i]
             n == quiet_range.next
  <1>0. /\ UNCHANGED <<board, mode, tt_move, quiet_hints>>
        /\ board \in Boards /\ quiet_range \in Ranges /\ primary_range \in Ranges
        /\ candidates \in Seq(Moves) /\ candidates \in Seq(board.pseudo_legal) /\ picked \in Seq(Moves)
    BY DEF IInv, Typed, TypeOK, position
  <1>1. /\ n \in 1 .. Len(candidates) /\ i \in 1 .. Len(candidates) /\ n <= i
        /\ i <= quiet_range.end - 1 /\ primary_range.end <= n
        /\ quiet_range.end <= Len(candidates) + 1
    BY <1>0 DEF IInv, Typed, Places, Ranges
  <1>2. /\ candidates' \in Seq(board.pseudo_legal) /\ Len(candidates') = Len(candidates)
        /\ \A k \in 1 .. Len(candidates) :
             candidates'[k] = IF k = i THEN candidates[n] ELSE IF k = n THEN m ELSE candidates[k]
    <2> DEFINE T == board.pseudo_legal
               c == candidates
    <2>1. c \in Seq(T) /\ n \in 1 .. Len(c) /\ i \in 1 .. Len(c)
      BY <1>0, <1>1
    <2>2. candidates' = Swapped(c, n, i) /\ m = c[i]
      OBVIOUS
    <2> HIDE DEF T, c, n, m
    <2>3. IsSwap(T, c, n, i)
      BY <2>1, SwapsAre
    <2>4. /\ Swapped(c, n, i) \in Seq(T) /\ Len(Swapped(c, n, i)) = Len(c)
          /\ \A k \in 1 .. Len(c) :
               Swapped(c, n, i)[k] = IF k = i THEN c[n] ELSE IF k = n THEN c[i] ELSE c[k]
      BY <2>3 DEF IsSwap
    <2> QED
      BY <2>2, <2>4 DEF T, c
  <1>3. /\ picked' = Append(picked, m) /\ idle' = TRUE /\ m \in board.pseudo_legal /\ m \in Moves
    BY <1>0, <1>1 DEF Return
  <1>4. /\ picked' \in Seq(Moves) /\ Len(picked') = Len(picked) + 1 /\ picked'[Len(picked) + 1] = m
        /\ \A j \in 1 .. Len(picked) : picked'[j] = picked[j]
    BY <1>0, <1>3
  <1>5. quiet_range' = [next |-> n + 1, end |-> quiet_range.end]
    BY <1>0 DEF Advanced, Ranges
  <1>6. m # tt_move /\ ~Contains(quiet_hints, m)
    BY DEF Quiet
  <1>7. \A j \in 1 .. Len(picked) : picked[j] # m
    BY <1>6 DEF IInv, NotYetPicked
  <1>8. \A k \in Places(primary_range) : candidates'[k] = candidates[k] /\ k \in 1 .. Len(candidates)
    <2> SUFFICES ASSUME NEW k \in Places(primary_range)
                 PROVE  candidates'[k] = candidates[k] /\ k \in 1 .. Len(candidates)
      OBVIOUS
    <2>1. k \in 1 .. Len(candidates) /\ k # n /\ k # i
      BY <1>0, <1>1 DEF Places, Ranges, IInv, Typed
    <2> QED
      BY <1>2, <2>1
  <1>9. \A k \in Places(quiet_range') :
          /\ k \in Places(quiet_range) /\ k # n
          /\ candidates'[k] = IF k = i THEN candidates[n] ELSE candidates[k]
    <2> SUFFICES ASSUME NEW k \in Places(quiet_range')
                 PROVE  /\ k \in Places(quiet_range) /\ k # n
                        /\ candidates'[k] = IF k = i THEN candidates[n] ELSE candidates[k]
      OBVIOUS
    <2>1. n \in Nat /\ quiet_range.end \in Nat
      BY <1>0 DEF Ranges
    <2>2. k \in n + 1 .. quiet_range.end - 1
      BY <1>5 DEF Places
    <2>3. k \in Places(quiet_range) /\ k # n /\ k \in 1 .. Len(candidates)
      BY <1>0, <1>1, <2>1, <2>2 DEF Places
    <2> QED
      BY <1>2, <2>3
  <1>10. ~board.in_check /\ ~Noisy(m)
    BY DEF IInv, RangesHold
  <1>11. n \in Places(quiet_range)
    BY <1>0, <1>1 DEF Places, Ranges
  <1> HIDE DEF m, n
  <1>12. Typed'
    <2>1. candidates' \in Seq(Moves)
      BY <1>2, <1>0, BoardFacts
    <2>2. quiet_range' \in Ranges
      BY <1>0, <1>5 DEF Ranges, n
    <2>3. TypeOK'
      BY <1>0, <1>3, <1>4, <2>1, <2>2 DEF IInv, Typed, TypeOK
    <2>4. /\ primary_range.end <= quiet_range'.next /\ quiet_range'.next <= quiet_range'.end
          /\ quiet_range'.end = quiet_range.end
      BY <1>0, <1>1, <1>5 DEF Ranges, n
    <2> QED
      BY <1>0, <1>2, <2>3, <2>4 DEF IInv, Typed
  <1>13. TtIsValid' /\ HintsAreValid' /\ StagesFit'
    BY SMTT(30), <1>0 DEF IInv, TtIsValid, HintsAreValid, StagesFit
  <1>14. RangesHold'
    <2>1. \A k \in Places(primary_range)' :
            IF board.in_check' THEN candidates'[k] \in ToSet(board.evasions)' ELSE Noisy(candidates'[k])
      BY <1>0, <1>8 DEF IInv, RangesHold
    <2>2. \A k \in Places(quiet_range)' : ~Noisy(candidates'[k])
      BY <1>9, <1>11 DEF IInv, RangesHold
    <2>3. (~(board.in_check \/ stage \in BeforeQuiet))'
      BY <1>0, <1>10 DEF BeforeQuiet
    <2>4. \A k, l \in Places(primary_range)' : candidates'[k] = candidates'[l] => k = l
      BY <1>8 DEF IInv, RangesHold
    <2>5. \A k, l \in Places(quiet_range)' : candidates'[k] = candidates'[l] => k = l
      BY <1>9, <1>11 DEF IInv, RangesHold
    <2> QED
      BY <2>1, <2>2, <2>3, <2>4, <2>5 DEF RangesHold
  <1>15. NotYetPicked'
    <2>1. ASSUME NEW k \in Places(quiet_range)', NEW j \in 1 .. Len(picked'), candidates'[k] = picked'[j]
          PROVE  candidates'[k] = tt_move \/ Contains(quiet_hints, candidates'[k])
      <3>1. candidates'[k] # m
        BY <1>9, <1>11 DEF IInv, RangesHold, m
      <3>2. j \in 1 .. Len(picked) /\ picked'[j] = picked[j]
        <4>1. j # Len(picked) + 1
          BY <1>4, <2>1, <3>1
        <4> QED
          BY <1>0, <1>4, <4>1
      <3> QED
        BY <1>9, <1>11, <2>1, <3>2 DEF IInv, NotYetPicked
    <2>2. ASSUME NEW k \in Places(primary_range)', NEW j \in 1 .. Len(picked'), candidates'[k] = picked'[j]
          PROVE  candidates'[k] = tt_move
      <3>1. Noisy(candidates[k]) /\ candidates'[k] = candidates[k]
        BY <1>8, <1>10 DEF IInv, RangesHold
      <3>2. j \in 1 .. Len(picked) /\ picked'[j] = picked[j]
        <4>1. j # Len(picked) + 1
          BY <1>4, <1>10, <2>2, <3>1
        <4> QED
          BY <1>0, <1>4, <4>1
      <3> QED
        BY <2>2, <3>1, <3>2 DEF IInv, NotYetPicked
    <2>3. \A h \in quiet_hint_next .. Len(quiet_hints), j \in 1 .. Len(picked') : quiet_hints[h] # picked'[j]
      <3> SUFFICES ASSUME NEW h \in quiet_hint_next .. Len(quiet_hints), NEW j \in 1 .. Len(picked')
                   PROVE  quiet_hints[h] # picked'[j]
        OBVIOUS
      <3>1. h \in 1 .. Len(quiet_hints)
        BY DEF IInv, Typed, TypeOK
      <3>2. CASE j = Len(picked) + 1
        BY <1>4, <1>6, <3>1, <3>2 DEF Contains
      <3>3. CASE j # Len(picked) + 1
        BY SMTT(30), <1>0, <1>4, <3>3 DEF IInv, NotYetPicked
      <3> QED
        BY <3>2, <3>3
    <2> QED
      BY <1>0, <2>1, <2>2, <2>3 DEF NotYetPicked
  <1>16. PickedSoFar'
    <2>1. \A j \in 1 .. Len(picked') : j = Len(picked) + 1 \/ j \in 1 .. Len(picked)
      BY <1>0, <1>4
    <2>2. stage' \notin BeforeQuiet /\ stage' \notin {"TtMove", "LoadNoisy", "LoadEvasions"}
      BY DEF BeforeQuiet
    <2>3. \A j \in 1 .. Len(picked') : picked'[j] \in board.pseudo_legal
      BY <1>3, <1>4, <2>1 DEF IInv, PickedSoFar
    <2>4. \A j, k \in 1 .. Len(picked') : picked'[j] = picked'[k] => j = k
      BY <1>4, <1>7, <2>1 DEF IInv, PickedSoFar
    <2> QED
      BY <1>0, <1>10, <2>2, <2>3, <2>4 DEF PickedSoFar
  <1> QED
    BY <1>12, <1>13, <1>14, <1>15, <1>16 DEF IInv

-----------------------------------------------------------------------------
(* The other steps.                                                          *)

\* Going on to a stage that loads nothing leaves the invariant as it was.
LEMMA FellThrough ==
    ASSUME IInv, UNCHANGED <<position, quiet_hint_next, skip_quiets, ranges, picked>>,
           idle' \in BOOLEAN, stage' \in Stages \ {"TtMove", "LoadEvasions", "LoadNoisy"},
           StagesFit', stage' \in BeforeQuiet => stage \in BeforeQuiet
    PROVE  IInv'
  <1>0. UNCHANGED <<board, mode, tt_move, quiet_hints, candidates, primary_range, quiet_range>>
    BY DEF position, ranges
  <1>1. Typed'
    BY <1>0 DEF IInv, Typed, TypeOK
  <1>2. TtIsValid' /\ HintsAreValid'
    BY <1>0 DEF IInv, TtIsValid, HintsAreValid
  <1>3. RangesHold' /\ NotYetPicked'
    BY <1>0 DEF IInv, RangesHold, NotYetPicked
  <1>4. PickedSoFar'
    BY <1>0 DEF IInv, PickedSoFar
  <1> QED
    BY <1>1, <1>2, <1>3, <1>4 DEF IInv

LEMMA TtMoveStep == IInv /\ TtMove => IInv'
  <1> SUFFICES ASSUME IInv, TtMove PROVE IInv'
    OBVIOUS
  <1>0. /\ UNCHANGED <<board, mode, tt_move, quiet_hints, candidates, primary_range, quiet_range>>
        /\ UNCHANGED <<quiet_hint_next, skip_quiets>>
        /\ stage = "TtMove" /\ picked = <<>> /\ board \in Boards
        /\ stage' = IF board.in_check THEN "LoadEvasions" ELSE "LoadNoisy"
        /\ idle' \in BOOLEAN
        /\ \/ tt_move # NullMove /\ picked' = Append(picked, tt_move)
           \/ picked' = picked
    BY DEF IInv, PickedSoFar, TtMove, FallTo, Return, position, ranges, Typed, TypeOK
  <1>1. /\ picked' \in Seq(Moves)
        /\ \A j \in 1 .. Len(picked') : picked'[j] = tt_move /\ j = 1 /\ tt_move # NullMove
    <2>1. CASE tt_move # NullMove /\ picked' = Append(picked, tt_move)
      <3>1. tt_move \in Moves /\ picked' = <<tt_move>>
        BY <1>0, <2>1 DEF IInv, Typed, TypeOK
      <3> QED
        BY <2>1, <3>1
    <2>2. CASE picked' = picked
      BY <1>0, <2>2
    <2> QED
      BY <1>0, <2>1, <2>2
  <1>2. Typed'
    BY <1>0, <1>1 DEF IInv, Typed, TypeOK, Stages
  <1>3. TtIsValid' /\ HintsAreValid' /\ StagesFit'
    BY <1>0, BoardFacts DEF IInv, TtIsValid, HintsAreValid, StagesFit, SkipStages
  <1>4. RangesHold'
    BY <1>0 DEF IInv, RangesHold, BeforeQuiet
  <1>5. NotYetPicked'
    <2>1. Places(quiet_range) = {}
      BY <1>0 DEF IInv, RangesHold, BeforeQuiet
    <2>2. \A h \in quiet_hint_next .. Len(quiet_hints) : h \in 1 .. Len(quiet_hints)
      BY DEF IInv, Typed, TypeOK
    <2> QED
      BY <1>0, <1>1, <2>1, <2>2 DEF IInv, NotYetPicked, HintsAreValid
  <1>6. PickedSoFar'
    BY <1>0, <1>1 DEF IInv, PickedSoFar, TtIsValid
  <1> QED
    BY <1>2, <1>3, <1>4, <1>5, <1>6 DEF IInv

LEMMA LoadStep == IInv /\ (LoadEvasions \/ LoadNoisy) => IInv'
  <1> SUFFICES ASSUME IInv, LoadEvasions \/ LoadNoisy PROVE IInv'
    OBVIOUS
  <1> DEFINE list == IF board.in_check THEN board.evasions ELSE board.noisy
  <1>0. /\ UNCHANGED <<board, mode, tt_move, quiet_hints, quiet_hint_next, skip_quiets, picked>>
        /\ board \in Boards /\ idle' = FALSE
        /\ candidates' = list
        /\ primary_range' = [next |-> 1, end |-> Len(list) + 1]
        /\ quiet_range' = [next |-> Len(list) + 1, end |-> Len(list) + 1]
        /\ stage \in {"LoadEvasions", "LoadNoisy"} /\ board.in_check = (stage = "LoadEvasions")
        /\ stage' = IF board.in_check THEN "PickEvasion" ELSE "PickGoodNoisy"
    <2>1. board \in Boards
      BY DEF IInv, Typed, TypeOK
    <2>2. CASE LoadEvasions
      <3>1. board.in_check
        BY <2>1, <2>2, BoardFacts DEF IInv, StagesFit, LoadEvasions
      <3> QED
        BY <2>1, <2>2, <3>1 DEF LoadEvasions, LoadPrimary, FallTo, position
    <2>3. CASE LoadNoisy
      <3>1. ~board.in_check /\ board.in_check = FALSE
        BY <2>1, <2>3, BoardFacts DEF IInv, StagesFit, LoadNoisy
      <3> QED
        BY <2>1, <2>3, <3>1 DEF LoadNoisy, LoadPrimary, FallTo, position
    <2> QED
      BY <2>2, <2>3
  <1>1. /\ list \in Seq(board.pseudo_legal) /\ Len(list) \in Nat
        /\ \A i, j \in 1 .. Len(list) : list[i] = list[j] => i = j
        /\ \A i \in 1 .. Len(list) : IF board.in_check THEN list[i] \in ToSet(board.evasions) ELSE Noisy(list[i])
    <2>1. CASE board.in_check
      <3>1. list = board.evasions
        BY <2>1
      <3> DEFINE ev == board.evasions
      <3>2. /\ ev \in Seq(board.pseudo_legal) /\ Len(ev) \in Nat
            /\ \A i, j \in 1 .. Len(ev) : ev[i] = ev[j] => i = j
        BY <1>0, BoardFacts
      <3> HIDE DEF list, ev
      <3>3. \A i \in 1 .. Len(ev) : ev[i] \in ToSet(ev)
        BY <3>2 DEF ToSet
      <3>4. list = ev /\ ev = board.evasions
        BY <3>1 DEF ev
      <3> QED
        BY <2>1, <3>2, <3>3, <3>4
    <2>2. CASE ~board.in_check
      <3>1. list = board.noisy
        BY <2>2
      <3> HIDE DEF list
      <3> QED
        BY <1>0, <2>2, <3>1, BoardFacts
    <2> QED
      BY <2>1, <2>2
  <1> HIDE DEF list
  <1>2. Places(primary_range)' = 1 .. Len(list) /\ Places(quiet_range)' = {}
    BY <1>0, <1>1 DEF Places
  <1>3. Typed'
    <2>1. candidates' \in Seq(Moves)
      BY <1>0, <1>1, BoardFacts
    <2>2. primary_range' \in Ranges /\ quiet_range' \in Ranges
      BY <1>0, <1>1 DEF Ranges
    <2>3. TypeOK'
      BY <1>0, <2>1, <2>2 DEF IInv, Typed, TypeOK, Stages
    <2> QED
      BY <1>0, <1>1, <2>3 DEF IInv, Typed
  <1>4. TtIsValid' /\ HintsAreValid' /\ StagesFit'
    BY <1>0 DEF IInv, TtIsValid, HintsAreValid, StagesFit, SkipStages
  <1>5. RangesHold'
    BY <1>0, <1>1, <1>2 DEF RangesHold
  <1>6. \A j \in 1 .. Len(picked) : picked[j] = tt_move
    BY <1>0 DEF IInv, PickedSoFar
  <1>7. NotYetPicked'
    <2>1. \A h \in quiet_hint_next .. Len(quiet_hints) : h \in 1 .. Len(quiet_hints)
      BY DEF IInv, Typed, TypeOK
    <2> QED
      BY <1>0, <1>2, <1>6, <2>1 DEF IInv, NotYetPicked, HintsAreValid
  <1>8. PickedSoFar'
    BY <1>0, <1>6 DEF IInv, PickedSoFar
  <1> QED
    BY <1>3, <1>4, <1>5, <1>7, <1>8 DEF IInv

LEMMA PickQuietHintStep == IInv /\ PickQuietHint => IInv'
  <1> SUFFICES ASSUME IInv, PickQuietHint PROVE IInv'
    OBVIOUS
  <1>0. /\ UNCHANGED <<board, mode, tt_move, quiet_hints, candidates, primary_range, quiet_range>>
        /\ UNCHANGED skip_quiets /\ stage = "PickQuietHint" /\ picked \in Seq(Moves)
        /\ quiet_hint_next \in Nat \ {0} /\ quiet_hints \in Seq(Moves)
    BY DEF IInv, Typed, TypeOK, PickQuietHint, position, ranges
  <1>1. CASE /\ quiet_hint_next <= Len(quiet_hints) /\ Return(quiet_hints[quiet_hint_next])
             /\ quiet_hint_next' = quiet_hint_next + 1 /\ UNCHANGED stage
    <2> DEFINE m == quiet_hints[quiet_hint_next]
    <2>1. /\ quiet_hint_next \in 1 .. Len(quiet_hints) /\ m \in Moves /\ m # tt_move /\ ~Noisy(m)
          /\ m \in board.pseudo_legal /\ Contains(quiet_hints, m)
      BY <1>0, <1>1 DEF IInv, HintsAreValid, Contains
    <2>2. ~board.in_check
      BY <2>1 DEF IInv, HintsAreValid
    <2>3. /\ picked' = Append(picked, m) /\ idle' = TRUE
      BY <1>1 DEF Return
    <2>4. \A j \in 1 .. Len(picked) : picked[j] # m
      BY <1>0, <2>1 DEF IInv, NotYetPicked
    <2>5. \A h \in quiet_hint_next' .. Len(quiet_hints) :
            /\ h \in 1 .. Len(quiet_hints) /\ h \in quiet_hint_next .. Len(quiet_hints)
            /\ quiet_hints[h] # m
      BY <1>0, <1>1, <2>1 DEF IInv, HintsAreValid
    <2>6. quiet_hint_next' \in Nat \ {0}
      BY <1>0, <1>1
    <2> HIDE DEF m
    <2>7. /\ picked' \in Seq(Moves) /\ Len(picked') = Len(picked) + 1 /\ picked'[Len(picked) + 1] = m
          /\ \A j \in 1 .. Len(picked) : picked'[j] = picked[j]
          /\ \A j \in 1 .. Len(picked') : j = Len(picked) + 1 \/ j \in 1 .. Len(picked)
      BY <1>0, <2>1, <2>3
    <2>8. Typed'
      BY <1>0, <1>1, <2>3, <2>6, <2>7 DEF IInv, Typed, TypeOK
    <2>9. TtIsValid' /\ HintsAreValid' /\ StagesFit' /\ RangesHold'
      BY <1>0, <1>1 DEF IInv, TtIsValid, HintsAreValid, StagesFit, RangesHold
    <2>10. NotYetPicked'
      <3>1. ASSUME NEW k \in Places(primary_range), NEW j \in 1 .. Len(picked'), candidates[k] = picked'[j]
            PROVE  candidates[k] = tt_move
        BY <2>1, <2>2, <2>7, <3>1 DEF IInv, NotYetPicked, RangesHold
      <3>2. Places(quiet_range) = {}
        BY <1>0 DEF IInv, RangesHold, BeforeQuiet
      <3>3. \A h \in quiet_hint_next' .. Len(quiet_hints), j \in 1 .. Len(picked') : quiet_hints[h] # picked'[j]
        BY <2>5, <2>7 DEF IInv, NotYetPicked
      <3> QED
        BY <1>0, <3>1, <3>2, <3>3 DEF NotYetPicked
    <2>11. PickedSoFar'
      <3>1. \A j, k \in 1 .. Len(picked') : picked'[j] = picked'[k] => j = k
        BY <2>4, <2>7 DEF IInv, PickedSoFar
      <3>2. \A j \in 1 .. Len(picked') : picked'[j] \in board.pseudo_legal
        BY <2>1, <2>7 DEF IInv, PickedSoFar
      <3>3. \A j \in 1 .. Len(picked') :
                Noisy(picked'[j]) \/ picked'[j] = tt_move \/ Contains(quiet_hints, picked'[j])
        BY <1>0, <2>1, <2>7 DEF IInv, PickedSoFar, BeforeQuiet
      <3> QED
        BY <1>0, <1>1, <2>2, <3>1, <3>2, <3>3 DEF PickedSoFar
    <2> QED
      BY <2>8, <2>9, <2>10, <2>11 DEF IInv
  <1>2. CASE FallTo("LoadQuiet") /\ UNCHANGED quiet_hint_next
    <2>1. ~skip_quiets /\ ~board.in_check
      BY <1>0 DEF IInv, StagesFit, SkipStages
    <2>2. StagesFit'
      BY <1>0, <1>2, <2>1 DEF FallTo, StagesFit
    <2> QED
      BY <1>0, <1>2, <2>2, FellThrough DEF FallTo, PickQuietHint, BeforeQuiet, Stages
  <1> QED
    BY <1>1, <1>2 DEF PickQuietHint

\* The quiet moves come after the end of the noisy ones.
LEMMA QuietsAppended ==
    ASSUME NEW T, NEW c \in Seq(T), NEW list \in Seq(T), NEW e \in Nat \ {0}, e - 1 <= Len(c)
    PROVE  LET d == SubSeq(c, 1, e - 1) \o list
           IN  /\ d \in Seq(T) /\ Len(d) = e - 1 + Len(list)
               /\ \A i \in 1 .. e - 1 : d[i] = c[i]
               /\ \A i \in e .. e + Len(list) - 1 : d[i] = list[i - (e - 1)]
  <1> DEFINE front == SubSeq(c, 1, e - 1)
             d == front \o list
  <1>1. front \in Seq(T) /\ Len(front) = e - 1 /\ \A i \in 1 .. e - 1 : front[i] = c[i]
    OBVIOUS
  <1> HIDE DEF front
  <1>2. /\ front \o list \in Seq(T) /\ Len(front \o list) = Len(front) + Len(list)
        /\ \A i \in 1 .. Len(front) + Len(list) :
             (front \o list)[i] = IF i <= Len(front) THEN front[i] ELSE list[i - Len(front)]
    BY <1>1, ConcatProperties
  <1>3. d = front \o list
    OBVIOUS
  <1> HIDE DEF d
  <1>4. /\ d \in Seq(T) /\ Len(d) = e - 1 + Len(list)
        /\ \A i \in 1 .. e - 1 : d[i] = c[i]
        /\ \A i \in e .. e + Len(list) - 1 : d[i] = list[i - (e - 1)]
    <2> DEFINE n == e - 1
               m == Len(list)
    <2>1. n \in Nat /\ m \in Nat /\ e = n + 1 /\ Len(front) = n
      BY <1>1
    <2>2. /\ d \in Seq(T) /\ Len(d) = n + m
          /\ \A i \in 1 .. n + m : d[i] = IF i <= n THEN front[i] ELSE list[i - n]
      BY <1>2, <1>3, <2>1
    <2>3. \A i \in 1 .. n : front[i] = c[i]
      BY <1>1
    <2> HIDE DEF n, m
    <2>4. \A i \in 1 .. n : d[i] = c[i]
      BY <2>1, <2>2, <2>3
    <2>5. \A i \in e .. e + m - 1 : d[i] = list[i - n]
      BY <2>1, <2>2
    <2> QED
      BY <2>2, <2>4, <2>5 DEF n, m
  <1> QED
    BY <1>4 DEF d, front

LEMMA LoadQuietStep == IInv /\ LoadQuiet => IInv'
  <1> SUFFICES ASSUME IInv, LoadQuiet PROVE IInv'
    OBVIOUS
  <1>0. /\ UNCHANGED <<board, mode, tt_move, quiet_hints, quiet_hint_next, skip_quiets, primary_range, picked>>
        /\ board \in Boards /\ stage = "LoadQuiet" /\ stage' = "PickQuiet" /\ idle' = FALSE
        /\ candidates' = SubSeq(candidates, 1, primary_range.end - 1) \o board.quiet
        /\ quiet_range' = [next |-> primary_range.end, end |-> primary_range.end + Len(board.quiet)]
        /\ ~skip_quiets /\ ~board.in_check
        /\ candidates \in Seq(board.pseudo_legal) /\ primary_range \in Ranges
    BY DEF IInv, Typed, TypeOK, LoadQuiet, FallTo, position, StagesFit, SkipStages
  <1> DEFINE e == primary_range.end
             list == board.quiet
  <1>1. /\ list \in Seq(board.pseudo_legal) /\ Len(list) \in Nat
        /\ \A i, j \in 1 .. Len(list) : list[i] = list[j] => i = j
        /\ \A i \in 1 .. Len(list) : ~Noisy(list[i])
    BY <1>0, BoardFacts
  <1>2. e \in Nat \ {0} /\ e - 1 <= Len(candidates)
    BY SMTT(30), <1>0 DEF IInv, Typed, Ranges, TypeOK
  <1> DEFINE T == board.pseudo_legal
             c == candidates
  <1>3. c \in Seq(T) /\ list \in Seq(T) /\ e - 1 <= Len(c) /\ candidates' = SubSeq(c, 1, e - 1) \o list
    BY <1>0, <1>1, <1>2
  <1> HIDE DEF T, list, e, c
  <1>6. /\ candidates' \in Seq(T) /\ Len(candidates') = e - 1 + Len(list)
        /\ \A i \in 1 .. e - 1 : candidates'[i] = candidates[i]
        /\ \A i \in e .. e + Len(list) - 1 : candidates'[i] = list[i - (e - 1)]
    BY <1>2, <1>3, QuietsAppended DEF c
  <1>7. /\ Places(quiet_range)' = e .. e + Len(list) - 1
        /\ Places(primary_range)' = Places(primary_range)
        /\ \A i \in Places(primary_range) : i \in 1 .. e - 1
    BY SMTT(30), <1>0, <1>2 DEF Places, IInv, Typed, Ranges, e, list
  <1>8. \A i \in Places(primary_range) : candidates'[i] = candidates[i]
    BY <1>6, <1>7
  <1>9. \A i \in Places(quiet_range)' : i - (e - 1) \in 1 .. Len(list) /\ candidates'[i] = list[i - (e - 1)]
    BY <1>1, <1>2, <1>6, <1>7
  <1>10. Typed'
    <2>1. candidates' \in Seq(Moves)
      <3>1. candidates' \in Seq(board.pseudo_legal)
        BY <1>6 DEF T
      <3>2. board.pseudo_legal \subseteq Moves
        BY <1>0, BoardFacts
      <3> DEFINE loaded == candidates'
                      U == board.pseudo_legal
      <3>3. loaded \in Seq(U) /\ U \subseteq Moves
        BY <3>1, <3>2
      <3> HIDE DEF loaded, U
      <3>4. loaded \in Seq(Moves)
        BY <3>3
      <3> QED
        BY <3>4 DEF loaded
    <2>2. quiet_range' \in Ranges
      BY <1>0, <1>1, <1>2 DEF Ranges, e, list
    <2>3. TypeOK'
      BY <1>0, <2>1, <2>2 DEF IInv, Typed, TypeOK, Stages
    <2>4. /\ quiet_range'.next = e /\ quiet_range'.end = e + Len(list)
      BY <1>0 DEF e, list
    <2> QED
      BY SMTT(30), <1>0, <1>1, <1>2, <1>6, <2>3, <2>4 DEF IInv, Typed, T, e
  <1>11. TtIsValid' /\ HintsAreValid' /\ StagesFit'
    BY <1>0 DEF IInv, TtIsValid, HintsAreValid, StagesFit
  <1>12. RangesHold'
    <2>1. \A i, j \in Places(quiet_range)' : candidates'[i] = candidates'[j] => i = j
      <3> SUFFICES ASSUME NEW i \in Places(quiet_range)', NEW j \in Places(quiet_range)',
                          candidates'[i] = candidates'[j]
                   PROVE  i = j
        OBVIOUS
      <3>1. i - (e - 1) = j - (e - 1)
        BY <1>1, <1>9
      <3>2. i \in Int /\ j \in Int
        BY <1>1, <1>2, <1>7
      <3> QED
        BY <1>2, <3>1, <3>2
    <2>2. \A i \in Places(quiet_range)' : ~Noisy(candidates'[i])
      BY <1>1, <1>9
    <2>3. \A i \in Places(primary_range)' : Noisy(candidates'[i])
      BY <1>0, <1>7, <1>8 DEF IInv, RangesHold
    <2>4. \A i, j \in Places(primary_range)' : candidates'[i] = candidates'[j] => i = j
      BY <1>7, <1>8 DEF IInv, RangesHold
    <2> QED
      BY <1>0, <2>1, <2>2, <2>3, <2>4 DEF RangesHold, BeforeQuiet
  <1>13. NotYetPicked'
    <2>1. \A i \in Places(quiet_range)', j \in 1 .. Len(picked) :
            candidates'[i] = picked[j] => candidates'[i] = tt_move \/ Contains(quiet_hints, candidates'[i])
      <3>1. \A j \in 1 .. Len(picked) :
              Noisy(picked[j]) \/ picked[j] = tt_move \/ Contains(quiet_hints, picked[j])
        BY <1>0 DEF IInv, PickedSoFar, BeforeQuiet
      <3> QED
        BY <1>1, <1>9, <3>1
    <2>2. \A i \in Places(primary_range)', j \in 1 .. Len(picked) :
            candidates'[i] = picked[j] => candidates'[i] = tt_move
      BY <1>7, <1>8 DEF IInv, NotYetPicked
    <2> QED
      BY <1>0, <2>1, <2>2 DEF IInv, NotYetPicked
  <1>14. PickedSoFar'
    BY SMTT(30), <1>0 DEF IInv, PickedSoFar, BeforeQuiet
  <1> QED
    BY <1>10, <1>11, <1>12, <1>13, <1>14 DEF IInv

LEMMA PickEvasionStep == IInv /\ PickEvasion => IInv'
  <1> SUFFICES ASSUME IInv, PickEvasion PROVE IInv'
    OBVIOUS
  <1> DEFINE S == {i \in Places(primary_range) : Evasion(candidates[i])}
  <1>1. \/ /\ PickFrom(primary_range, S) /\ primary_range' = Advanced(primary_range) /\ UNCHANGED stage
        \/ FallTo("Done") /\ UNCHANGED <<candidates, primary_range>>
    BY DEF PickEvasion, PickPrimary, Pickable, Places
  <1>2. stage = "PickEvasion" /\ UNCHANGED <<position, quiet_hint_next, skip_quiets, quiet_range>>
    BY DEF PickEvasion, PickPrimary
  <1>3. CASE PickFrom(primary_range, S) /\ primary_range' = Advanced(primary_range) /\ UNCHANGED stage
    <2> PICK i \in Best(S) : candidates' = Swapped(candidates, primary_range.next, i) /\ Return(candidates[i])
      BY <1>3 DEF PickFrom
    <2>1. i \in Places(primary_range) /\ candidates[i] # tt_move
      BY DEF Best, Evasion
    <2> QED
      BY <1>2, <1>3, <2>1, PickedFromPrimary
  <1>4. CASE FallTo("Done") /\ UNCHANGED <<candidates, primary_range>>
    <2>1. StagesFit'
      BY <1>2, <1>4 DEF IInv, StagesFit, FallTo, position, SkipStages
    <2> QED
      BY <1>2, <1>4, <2>1, FellThrough DEF FallTo, ranges, Stages, BeforeQuiet
  <1> QED
    BY <1>1, <1>3, <1>4

LEMMA PickGoodNoisyStep == IInv /\ PickGoodNoisy => IInv'
  <1> SUFFICES ASSUME IInv, PickGoodNoisy PROVE IInv'
    OBVIOUS
  <1> DEFINE S == {i \in Places(primary_range) : GoodNoisy(candidates[i])}
  <1>1. \/ /\ PickFrom(primary_range, S) /\ primary_range' = Advanced(primary_range) /\ UNCHANGED stage
        \/ FallTo(AfterGoodNoisy) /\ UNCHANGED <<candidates, primary_range>>
    BY DEF PickGoodNoisy, PickPrimary, Pickable, Places
  <1>2. stage = "PickGoodNoisy" /\ UNCHANGED <<position, quiet_hint_next, skip_quiets, quiet_range>>
    BY DEF PickGoodNoisy, PickPrimary
  <1>3. CASE PickFrom(primary_range, S) /\ primary_range' = Advanced(primary_range) /\ UNCHANGED stage
    <2> PICK i \in Best(S) : candidates' = Swapped(candidates, primary_range.next, i) /\ Return(candidates[i])
      BY <1>3 DEF PickFrom
    <2>1. i \in Places(primary_range) /\ candidates[i] # tt_move
      BY DEF Best, GoodNoisy
    <2> QED
      BY <1>2, <1>3, <2>1, PickedFromPrimary
  <1>4. CASE FallTo(AfterGoodNoisy) /\ UNCHANGED <<candidates, primary_range>>
    <2>1. StagesFit'
      BY <1>2, <1>4 DEF IInv, StagesFit, FallTo, position, SkipStages, AfterGoodNoisy
    <2> QED
      BY <1>2, <1>4, <2>1, FellThrough DEF FallTo, ranges, Stages, BeforeQuiet, AfterGoodNoisy
  <1> QED
    BY <1>1, <1>3, <1>4

LEMMA PickBadNoisyStep == IInv /\ PickBadNoisy => IInv'
  <1> SUFFICES ASSUME IInv, PickBadNoisy PROVE IInv'
    OBVIOUS
  <1> DEFINE S == {i \in Places(primary_range) : BadNoisy(candidates[i])}
  <1>1. \/ /\ PickFrom(primary_range, S) /\ primary_range' = Advanced(primary_range) /\ UNCHANGED stage
        \/ FallTo("Done") /\ UNCHANGED <<candidates, primary_range>>
    BY DEF PickBadNoisy, PickPrimary, Pickable, Places
  <1>2. stage = "PickBadNoisy" /\ UNCHANGED <<position, quiet_hint_next, skip_quiets, quiet_range>>
    BY DEF PickBadNoisy, PickPrimary
  <1>3. CASE PickFrom(primary_range, S) /\ primary_range' = Advanced(primary_range) /\ UNCHANGED stage
    <2> PICK i \in Best(S) : candidates' = Swapped(candidates, primary_range.next, i) /\ Return(candidates[i])
      BY <1>3 DEF PickFrom
    <2>1. i \in Places(primary_range) /\ candidates[i] # tt_move
      BY DEF Best, BadNoisy
    <2> QED
      BY <1>2, <1>3, <2>1, PickedFromPrimary
  <1>4. CASE FallTo("Done") /\ UNCHANGED <<candidates, primary_range>>
    <2>1. StagesFit'
      BY <1>2, <1>4 DEF IInv, StagesFit, FallTo, position, SkipStages
    <2> QED
      BY <1>2, <1>4, <2>1, FellThrough DEF FallTo, ranges, Stages, BeforeQuiet
  <1> QED
    BY <1>1, <1>3, <1>4

LEMMA PickQuietStep == IInv /\ PickQuiet => IInv'
  <1> SUFFICES ASSUME IInv, PickQuiet PROVE IInv'
    OBVIOUS
  <1> DEFINE S == {i \in Places(quiet_range) : Quiet(candidates[i])}
  <1>1. \/ /\ PickFrom(quiet_range, S) /\ quiet_range' = Advanced(quiet_range) /\ UNCHANGED stage
        \/ FallTo("PickBadNoisy") /\ UNCHANGED <<candidates, quiet_range>>
    BY DEF PickQuiet, Pickable, Places
  <1>2. stage = "PickQuiet" /\ UNCHANGED <<position, quiet_hint_next, skip_quiets, primary_range>>
    BY DEF PickQuiet
  <1>3. CASE PickFrom(quiet_range, S) /\ quiet_range' = Advanced(quiet_range) /\ UNCHANGED stage
    <2> PICK i \in Best(S) : candidates' = Swapped(candidates, quiet_range.next, i) /\ Return(candidates[i])
      BY <1>3 DEF PickFrom
    <2>1. i \in Places(quiet_range) /\ Quiet(candidates[i])
      BY DEF Best
    <2> QED
      BY <1>2, <1>3, <2>1, PickedFromQuiet
  <1>4. CASE FallTo("PickBadNoisy") /\ UNCHANGED <<candidates, quiet_range>>
    <2>1. StagesFit'
      BY <1>2, <1>4 DEF IInv, StagesFit, FallTo, position, SkipStages
    <2> QED
      BY <1>2, <1>4, <2>1, FellThrough DEF FallTo, ranges, Stages, BeforeQuiet
  <1> QED
    BY <1>1, <1>3, <1>4

LEMMA SkipStep == IInv /\ SkipQuietMoves => IInv'
  <1> SUFFICES ASSUME IInv, SkipQuietMoves PROVE IInv'
    OBVIOUS
  <1>0. /\ UNCHANGED <<board, mode, tt_move, quiet_hints, quiet_hint_next, picked, idle>>
        /\ UNCHANGED <<candidates, primary_range, quiet_range>>
        /\ skip_quiets' = TRUE /\ mode = "MainSearch" /\ ~board.in_check
        /\ stage' = IF stage \in SkipStages THEN "PickBadNoisy" ELSE stage
    BY DEF SkipQuietMoves, MainQuiet, position, ranges
  <1>1. Typed'
    BY <1>0 DEF IInv, Typed, TypeOK, Stages
  <1>2. TtIsValid' /\ HintsAreValid' /\ StagesFit'
    BY <1>0 DEF IInv, TtIsValid, HintsAreValid, StagesFit, SkipStages
  <1>3. RangesHold' /\ NotYetPicked'
    BY <1>0 DEF IInv, RangesHold, NotYetPicked, BeforeQuiet
  <1>4. PickedSoFar'
    BY <1>0 DEF IInv, PickedSoFar, BeforeQuiet
  <1> QED
    BY <1>1, <1>2, <1>3, <1>4 DEF IInv

LEMMA NextIInv == IInv /\ [Next]_vars => IInv'
  <1> SUFFICES ASSUME IInv, [Next]_vars PROVE IInv'
    OBVIOUS
  <1>1. CASE UNCHANGED vars
    BY <1>1 DEF vars, IInv, Typed, TypeOK, TtIsValid, HintsAreValid, StagesFit, RangesHold,
                NotYetPicked, PickedSoFar
  <1>2. CASE Next
    BY <1>2, TtMoveStep, LoadStep, PickEvasionStep, PickGoodNoisyStep, PickQuietHintStep, LoadQuietStep,
       PickQuietStep, PickBadNoisyStep, SkipStep DEF Next, NextStage
  <1> QED
    BY <1>1, <1>2

LEMMA AlwaysIInv == Spec => []IInv
  BY InitIInv, NextIInv, PTL DEF Spec

-----------------------------------------------------------------------------
\* The picker's state stays well-formed for every position, mode and hint.
THEOREM TypeCorrect == Spec => []TypeOK
  <1>1. IInv => TypeOK
    BY DEF IInv, Typed
  <1> QED
    BY <1>1, AlwaysIInv, PTL

\* No move is handed out twice (Picker::next).
THEOREM NoMoveIsPickedTwice == Spec => []NoMoveTwice
  <1>1. IInv => NoMoveTwice
    BY DEF IInv, PickedSoFar, NoMoveTwice, IsInjective, Typed, TypeOK
  <1> QED
    BY <1>1, AlwaysIInv, PTL

\* A stale or foreign table move or hint is never handed out
\* (Picker::validate_tt_hint, validate_quiet_hint).
THEOREM PicksArePseudoLegal == Spec => []OnlyPseudoLegal
  <1>1. IInv => OnlyPseudoLegal
    <2> SUFFICES ASSUME IInv PROVE OnlyPseudoLegal
      OBVIOUS
    <2>1. picked \in Seq(Moves)
      BY DEF IInv, Typed, TypeOK
    <2>2. tt_move \in board.pseudo_legal => tt_move # NullMove
      BY BoardFacts, PickerAssumption DEF IInv, Typed, TypeOK
    <2> QED
      BY <2>1, <2>2 DEF IInv, PickedSoFar, OnlyPseudoLegal, TtIsValid
  <1> QED
    BY <1>1, AlwaysIInv, PTL

\* After a skip only noisy moves come (Picker::skip_quiet_moves).
THEOREM SkipHolds == Spec => NoQuietAfterSkip
  <1>1. ASSUME IInv, Next, skip_quiets, picked' # picked, stage # "TtMove"
        PROVE  Noisy(Last(picked'))
    <2>0. ~board.in_check /\ stage \notin SkipStages /\ picked \in Seq(Moves)
      BY <1>1 DEF IInv, StagesFit, Typed, TypeOK
    <2>1. PickGoodNoisy \/ PickBadNoisy
      BY <1>1, <2>0 DEF Next, NextStage, TtMove, LoadEvasions, PickEvasion, LoadNoisy, PickQuietHint,
                        LoadQuiet, PickQuiet, SkipQuietMoves, SkipStages, FallTo, IInv, StagesFit
    <2>2. PICK S \in SUBSET Places(primary_range) : PickFrom(primary_range, S)
      <3>1. CASE PickGoodNoisy
        <4>1. PickFrom(primary_range, {i \in Places(primary_range) : GoodNoisy(candidates[i])})
          BY <1>1, <3>1 DEF PickGoodNoisy, PickPrimary, Pickable, Places, FallTo
        <4> QED
          BY <4>1
      <3>2. CASE PickBadNoisy
        <4>1. PickFrom(primary_range, {i \in Places(primary_range) : BadNoisy(candidates[i])})
          BY <1>1, <3>2 DEF PickBadNoisy, PickPrimary, Pickable, Places, FallTo
        <4> QED
          BY <4>1
      <3> QED
        BY <2>1, <3>1, <3>2
    <2>3. PICK i \in Places(primary_range) : picked' = Append(picked, candidates[i])
      BY <2>2 DEF PickFrom, Best, Return
    <2>4. Noisy(candidates[i])
      BY <1>1, <2>0 DEF IInv, RangesHold
    <2>5. candidates[i] \in Moves
      BY <1>1 DEF IInv, Typed, TypeOK, Places, Ranges
    <2>6. Last(picked') = candidates[i]
      BY <2>0, <2>3, <2>5 DEF Last
    <2> QED
      BY <2>4, <2>6
  <1>2. IInv /\ [Next]_vars =>
          [(skip_quiets /\ picked' # picked) => (Noisy(Last(picked')) \/ stage = "TtMove")]_vars
    BY <1>1
  <1> QED
    BY <1>2, AlwaysIInv, PTL DEF Spec, NoQuietAfterSkip

\* The picker's promises to the search together (Picker::next).
THEOREM PicksStaySound == Spec => PicksAreSound
  BY NoMoveIsPickedTwice, PicksArePseudoLegal, SkipHolds, PTL DEF PicksAreSound

-----------------------------------------------------------------------------
(* Nothing is lost and the order of the stages holds: what a range still     *)
(* holds is all that was not handed out, and may come after what was.        *)

\* What a range still holds, what has been handed out, what was loaded.
Rest(range) == {candidates[i] : i \in Places(range)}
Given == {picked[j] : j \in 1 .. Len(picked)}
Loaded == IF board.in_check THEN board.evasions ELSE board.noisy
Members(s) == {s[i] : i \in 1 .. Len(s)}

\* Two moves handed out in the order of StageOrder.
InOrder(m, n) ==
    \/ Rank(m) < Rank(n)
    \/ Rank(m) = Rank(n) /\ (Rank(m) = 2 \/ Score[m] >= Score[n])

\* The stages behind the good noisy moves.
AfterGood == SkipStages \union {"PickBadNoisy", "Done"}

\* Every move that was loaded has been handed out or is still in its range.
NothingMissing ==
    /\ stage # "TtMove" /\ tt_move # NullMove => tt_move \in Given
    /\ \A h \in 1 .. Len(quiet_hints) : h < quiet_hint_next => quiet_hints[h] \in Given
    /\ stage \notin {"TtMove", "LoadEvasions", "LoadNoisy"} =>
         Members(Loaded) \subseteq Given \union Rest(primary_range)
    /\ stage = "PickQuiet" => Members(board.quiet) \subseteq Given \union Rest(quiet_range)

\* What a stage behind has left for a later one.
StagesBehind ==
    /\ stage \in AfterGood /\ ~board.in_check => \A m \in Rest(primary_range) : ~GoodNoisy(m)
    /\ stage = "Done" /\ (board.in_check \/ mode = "MainSearch") => Rest(primary_range) \subseteq {tt_move}
    /\ stage \in {"LoadQuiet", "PickQuiet"} => quiet_hint_next > Len(quiet_hints)
    /\ stage \in {"PickBadNoisy", "Done"} /\ MainQuiet(mode, board) /\ ~skip_quiets =>
         Members(board.quiet) \subseteq Given

PickedInOrder ==
    \A i, j \in 1 .. Len(picked), m, n \in Moves :
        i < j /\ picked[i] = m /\ picked[j] = n => InOrder(m, n)

\* What is still to come may be handed out after all that has been.
Ordered ==
    /\ PickedInOrder
    /\ stage \in BeforeQuiet => \A m \in Given : Rank(m) <= 2
    /\ \A m \in Given, n \in Rest(primary_range) : n # tt_move => InOrder(m, n)
    /\ stage = "PickQuiet" => \A m \in Given, n \in Rest(quiet_range) : Quiet(n) => InOrder(m, n)

Complete == NothingMissing /\ StagesBehind /\ Ordered

LEMMA PositionFrame ==
    ASSUME UNCHANGED position
    PROVE  /\ UNCHANGED <<board, mode, tt_move, quiet_hints>>
           /\ Loaded' = Loaded
           /\ \A m : Rank(m)' = Rank(m)
           /\ \A m, n : InOrder(m, n)' <=> InOrder(m, n)
           /\ \A m : (GoodNoisy(m)' <=> GoodNoisy(m)) /\ (Quiet(m)' <=> Quiet(m))
  <1>1. UNCHANGED <<board, mode, tt_move, quiet_hints>>
    BY DEF position
  <1>2. \A m : Rank(m)' = Rank(m)
    BY <1>1 DEF Rank
  <1> QED
    BY <1>1, <1>2 DEF Loaded, InOrder, GoodNoisy, Quiet

\* The moves that the steps below relate, in the place of their ranks.
LEMMA Ranks ==
    ASSUME IInv
    PROVE  /\ \A m : Rank(m) \in 0 .. 4
           /\ Rank(tt_move) = 0 /\ \A m : m # tt_move => Rank(m) > 0
           /\ board.in_check => \A m : m # tt_move => Rank(m) = 1
           /\ ~board.in_check =>
                /\ \A m \in Moves : Noisy(m) /\ GoodNoisy(m) => Rank(m) = 1
                /\ \A m \in Moves : Noisy(m) /\ m # tt_move /\ ~GoodNoisy(m) => Rank(m) = 4
                /\ \A m : ~Noisy(m) /\ Quiet(m) => Rank(m) = 3
                /\ \A h \in 1 .. Len(quiet_hints) : Rank(quiet_hints[h]) = 2
  <1>1. \A m : Rank(m) \in 0 .. 4 /\ (m = tt_move <=> Rank(m) = 0)
    BY DEF Rank
  <1>2. board.in_check => \A m : m # tt_move => Rank(m) = 1
    BY DEF Rank
  <1>3. ASSUME ~board.in_check, NEW m, Noisy(m)
        PROVE  ~Contains(quiet_hints, m)
    BY <1>3 DEF IInv, HintsAreValid, Contains
  <1>4. ASSUME ~board.in_check, NEW m \in Moves, Noisy(m)
        PROVE  /\ GoodNoisy(m) => Rank(m) = 1
               /\ m # tt_move /\ ~GoodNoisy(m) => Rank(m) = 4
    BY <1>3, <1>4 DEF Rank, GoodNoisy
  <1>5. ASSUME ~board.in_check, NEW m, ~Noisy(m), Quiet(m)
        PROVE  Rank(m) = 3
    BY <1>5 DEF Rank, Quiet
  <1>6. ASSUME ~board.in_check, NEW h \in 1 .. Len(quiet_hints)
        PROVE  Rank(quiet_hints[h]) = 2
    <2>1. quiet_hints[h] # tt_move /\ Contains(quiet_hints, quiet_hints[h])
      BY <1>6 DEF IInv, HintsAreValid, Contains
    <2> QED
      BY <1>6, <2>1 DEF Rank
  <1> QED
    BY <1>1, <1>2, <1>4, <1>5, <1>6

\* A move is handed out.
LEMMA GivenGrows ==
    ASSUME NEW m \in Moves, picked \in Seq(Moves), picked' = Append(picked, m),
           UNCHANGED position, \A k \in Given : InOrder(k, m), PickedInOrder
    PROVE  Given' = Given \union {m} /\ PickedInOrder'
  <1>1. /\ Len(picked') = Len(picked) + 1 /\ picked'[Len(picked) + 1] = m /\ Len(picked) \in Nat
        /\ \A j \in 1 .. Len(picked) : picked'[j] = picked[j]
    OBVIOUS
  <1>2. \A j \in 1 .. Len(picked') : j = Len(picked) + 1 \/ j \in 1 .. Len(picked)
    BY <1>1
  <1>3. 1 .. Len(picked) \subseteq 1 .. Len(picked') /\ Len(picked) + 1 \in 1 .. Len(picked')
    BY <1>1
  <1>4. Given' = Given \union {m}
    BY <1>1, <1>2, <1>3 DEF Given
  <1>5. ASSUME NEW i \in 1 .. Len(picked'), NEW j \in 1 .. Len(picked'), NEW a \in Moves, NEW b \in Moves,
               i < j, picked'[i] = a, picked'[j] = b
        PROVE  InOrder(a, b)
    <2>1. i \in 1 .. Len(picked) /\ picked[i] = a
      BY <1>1, <1>2, <1>5
    <2>2. CASE j = Len(picked) + 1
      BY <1>1, <1>5, <2>1, <2>2 DEF Given
    <2>3. CASE j \in 1 .. Len(picked)
      BY <1>1, <1>5, <2>1, <2>3 DEF PickedInOrder
    <2> QED
      BY <1>2, <2>2, <2>3
  <1>6. \A a, b : InOrder(a, b)' <=> InOrder(a, b)
    BY PositionFrame
  <1> QED
    BY <1>4, <1>5, <1>6 DEF PickedInOrder

\* The range from which it is handed out holds the rest, the other what it held.
LEMMA RangeShrinks ==
    ASSUME NEW range \in Ranges, candidates \in Seq(Moves),
           1 <= range.next, range.end <= Len(candidates) + 1,
           NEW i \in Places(range), candidates' = Swapped(candidates, range.next, i)
    PROVE  /\ {candidates'[k] : k \in Places(Advanced(range))} \subseteq Rest(range)
           /\ Rest(range) \subseteq {candidates'[k] : k \in Places(Advanced(range))} \union {candidates[i]}
           /\ \A k \in 1 .. Len(candidates) : k \notin Places(range) => candidates'[k] = candidates[k]
  <1> DEFINE n == range.next
             e == range.end
  <1>1. /\ n \in Nat /\ e \in Nat /\ n >= 1 /\ e <= Len(candidates) + 1 /\ Len(candidates) \in Nat
        /\ Places(range) = n .. e - 1
    BY DEF Ranges, Places
  <1>2. Places(Advanced(range)) = n + 1 .. e - 1
    <2>1. Advanced(range) = [next |-> n + 1, end |-> e]
      BY DEF Ranges, Advanced
    <2> QED
      BY <2>1 DEF Places
  <1>3. i \in 1 .. Len(candidates) /\ n \in 1 .. Len(candidates) /\ n <= i /\ i <= e - 1
    BY <1>1
  <1>4. \A k \in 1 .. Len(candidates) :
          candidates'[k] = IF k = i THEN candidates[n] ELSE IF k = n THEN candidates[i] ELSE candidates[k]
    <2> DEFINE c == candidates
    <2>1. c \in Seq(Moves) /\ candidates' = Swapped(c, n, i) /\ n \in 1 .. Len(c) /\ i \in 1 .. Len(c)
      BY <1>3
    <2> HIDE DEF c, n
    <2>2. IsSwap(Moves, c, n, i)
      BY <2>1, SwapsAre
    <2> QED
      BY <2>1, <2>2 DEF IsSwap, c
  <1> HIDE DEF n, e
  <1>5. ASSUME NEW k \in n + 1 .. e - 1
        PROVE  candidates'[k] \in Rest(range)
    <2>1. k \in 1 .. Len(candidates) /\ k # n /\ k \in Places(range) /\ n \in Places(range)
      BY <1>1, <1>3
    <2> QED
      BY <1>4, <2>1 DEF Rest
  <1>6. ASSUME NEW k \in n .. e - 1
        PROVE  candidates[k] \in {candidates'[l] : l \in n + 1 .. e - 1} \union {candidates[i]}
    <2>1. k \in 1 .. Len(candidates)
      BY <1>1
    <2>2. CASE k = i
      BY <2>2
    <2>3. CASE k # i /\ k = n
      <3>1. i \in n + 1 .. e - 1 /\ candidates'[i] = candidates[k]
        BY <1>1, <1>3, <1>4, <2>3
      <3> QED
        BY <3>1
    <2>4. CASE k # i /\ k # n
      <3>1. k \in n + 1 .. e - 1 /\ candidates'[k] = candidates[k]
        BY <1>1, <1>4, <2>1, <2>4
      <3> QED
        BY <3>1
    <2> QED
      BY <2>2, <2>3, <2>4
  <1>7. \A k \in 1 .. Len(candidates) : k \notin Places(range) => candidates'[k] = candidates[k]
    BY <1>1, <1>3, <1>4
  <1> QED
    BY <1>1, <1>2, <1>5, <1>6, <1>7 DEF Rest

\* A noisy move or an evasion is handed out, the best of its stage.
LEMMA CompleteFromPrimary ==
    ASSUME IInv, Complete, UNCHANGED <<position, quiet_hint_next, skip_quiets, stage, quiet_range>>,
           stage \in {"PickEvasion", "PickGoodNoisy", "PickBadNoisy"},
           NEW i \in Places(primary_range), candidates[i] # tt_move,
           candidates' = Swapped(candidates, primary_range.next, i),
           primary_range' = Advanced(primary_range), Return(candidates[i]),
           \A n \in Rest(primary_range) : n # tt_move => InOrder(candidates[i], n),
           stage = "PickGoodNoisy" => Rank(candidates[i]) <= 2
    PROVE  Complete'
  <1> DEFINE m == candidates[i]
  <1>0. /\ UNCHANGED <<board, mode, tt_move, quiet_hints, quiet_hint_next, skip_quiets, stage>>
        /\ picked \in Seq(Moves) /\ candidates \in Seq(Moves)
        /\ primary_range \in Ranges /\ 1 <= primary_range.next
        /\ primary_range.end <= Len(candidates) + 1
        /\ stage \notin {"TtMove", "LoadEvasions", "LoadNoisy", "LoadQuiet", "PickQuiet"}
        /\ stage \in BeforeQuiet => stage = "PickGoodNoisy"
    BY DEF IInv, Typed, TypeOK, position, Ranges, BeforeQuiet
  <1>1. m \in Moves /\ m \in Rest(primary_range)
    BY <1>0 DEF Places, Ranges, Rest
  <1>2. picked' = Append(picked, m)
    BY DEF Return
  <1>3. \A k \in Given : InOrder(k, m)
    BY <1>1 DEF Complete, Ordered
  <1>4. Given' = Given \union {m} /\ PickedInOrder'
    BY <1>0, <1>1, <1>2, <1>3, GivenGrows DEF Complete, Ordered
  <1>5. /\ Rest(primary_range)' \subseteq Rest(primary_range)
        /\ Rest(primary_range) \subseteq Rest(primary_range)' \union {m}
    <2>1. Rest(primary_range)' = {candidates'[k] : k \in Places(Advanced(primary_range))}
      BY DEF Rest, Places
    <2> QED
      BY <1>0, <2>1, RangeShrinks
  <1>6. \A n \in Rest(primary_range) : n # tt_move => InOrder(m, n)
    OBVIOUS
  <1>7. stage = "PickGoodNoisy" => Rank(m) <= 2
    OBVIOUS
  <1> HIDE DEF m
  <1>8. NothingMissing'
    BY <1>0, <1>4, <1>5, PositionFrame DEF Complete, NothingMissing
  <1>9. StagesBehind'
    BY <1>0, <1>4, <1>5, PositionFrame DEF Complete, StagesBehind
  <1>10. Ordered'
    <2>1. \A k \in Given', n \in Rest(primary_range)' : n # tt_move => InOrder(k, n)'
      BY <1>4, <1>5, <1>6, PositionFrame DEF Complete, Ordered
    <2>2. stage' \in BeforeQuiet => \A k \in Given' : Rank(k)' <= 2
      BY <1>0, <1>4, <1>7, PositionFrame DEF Complete, Ordered
    <2> QED
      BY <1>0, <1>4, <2>1, <2>2 DEF Ordered
  <1> QED
    BY <1>8, <1>9, <1>10 DEF Complete

\* A stage that finds nothing more goes on to the next.
LEMMA StillFrame ==
    ASSUME UNCHANGED <<position, quiet_hint_next, skip_quiets, ranges, picked>>
    PROVE  /\ UNCHANGED <<board, mode, tt_move, quiet_hints, quiet_hint_next, skip_quiets>>
           /\ Given' = Given
           /\ Rest(primary_range)' = Rest(primary_range) /\ Rest(quiet_range)' = Rest(quiet_range)
           /\ Loaded' = Loaded /\ (PickedInOrder' <=> PickedInOrder)
           /\ \A m : Rank(m)' = Rank(m) /\ (GoodNoisy(m)' <=> GoodNoisy(m)) /\ (Quiet(m)' <=> Quiet(m))
           /\ \A m, n : InOrder(m, n)' <=> InOrder(m, n)
  <1>1. UNCHANGED <<board, mode, tt_move, quiet_hints, quiet_hint_next, skip_quiets,
                    candidates, primary_range, quiet_range, picked>>
    BY DEF position, ranges
  <1>2. \A m, n : InOrder(m, n)' <=> InOrder(m, n)
    BY PositionFrame
  <1>3. PickedInOrder' <=> PickedInOrder
    BY <1>1, <1>2 DEF PickedInOrder
  <1> QED
    BY <1>1, <1>2, <1>3, PositionFrame DEF Given, Rest, Places

LEMMA TtMoveComplete == IInv /\ Complete /\ TtMove => Complete'
  <1> SUFFICES ASSUME IInv, Complete, TtMove PROVE Complete'
    OBVIOUS
  <1>0. /\ UNCHANGED <<board, mode, tt_move, quiet_hints, quiet_hint_next, skip_quiets>>
        /\ UNCHANGED position /\ UNCHANGED <<candidates, primary_range, quiet_range>>
        /\ stage = "TtMove" /\ picked = <<>> /\ stage' \in {"LoadEvasions", "LoadNoisy"}
        /\ tt_move \in Moves \union {NullMove}
        /\ \/ tt_move # NullMove /\ picked' = Append(picked, tt_move)
           \/ tt_move = NullMove /\ picked' = picked
    BY DEF IInv, PickedSoFar, TtMove, FallTo, Return, position, ranges, Typed, TypeOK
  <1>1. Given = {}
    BY <1>0 DEF Given
  <1>2. /\ Given' = IF tt_move = NullMove THEN {} ELSE {tt_move}
        /\ PickedInOrder'
    <2>1. CASE tt_move # NullMove
      <3>1. picked \in Seq(Moves) /\ tt_move \in Moves /\ picked' = Append(picked, tt_move)
        BY <1>0, <2>1
      <3> QED
        BY <1>0, <1>1, <2>1, <3>1, GivenGrows DEF Complete, Ordered
    <2>2. CASE tt_move = NullMove
      <3>1. picked' = <<>>
        BY <1>0, <2>2
      <3> QED
        BY <2>2, <3>1 DEF Given, PickedInOrder
    <2> QED
      BY <2>1, <2>2
  <1>3. Rest(primary_range)' = Rest(primary_range)
    BY <1>0 DEF Rest, Places
  <1>4. NothingMissing'
    BY <1>0, <1>1, <1>2 DEF Complete, NothingMissing
  <1>5. StagesBehind'
    BY <1>0 DEF StagesBehind, AfterGood, SkipStages
  <1>6. Ordered'
    <2>1. \A m : m # tt_move => InOrder(tt_move, m)
      BY Ranks DEF InOrder
    <2> QED
      BY <1>0, <1>2, <1>3, <2>1, Ranks, PositionFrame DEF Ordered
  <1> QED
    BY <1>4, <1>5, <1>6 DEF Complete

LEMMA LoadComplete == IInv /\ Complete /\ (LoadEvasions \/ LoadNoisy) => Complete'
  <1> SUFFICES ASSUME IInv, Complete, LoadEvasions \/ LoadNoisy PROVE Complete'
    OBVIOUS
  <1> DEFINE list == IF board.in_check THEN board.evasions ELSE board.noisy
  <1>0. /\ UNCHANGED <<board, mode, tt_move, quiet_hints, quiet_hint_next, skip_quiets, picked>>
        /\ UNCHANGED position
        /\ board \in Boards
        /\ stage \in {"LoadEvasions", "LoadNoisy"} /\ stage' \in {"PickEvasion", "PickGoodNoisy"}
        /\ board.in_check = (stage = "LoadEvasions")
        /\ stage \in BeforeQuiet <=> stage' \in BeforeQuiet
    <2>1. board \in Boards
      BY DEF IInv, Typed, TypeOK
    <2> QED
      BY <2>1, BoardFacts DEF IInv, StagesFit, LoadEvasions, LoadNoisy, LoadPrimary, FallTo, position, BeforeQuiet
  <1>1. /\ candidates' = list
        /\ primary_range' = [next |-> 1, end |-> Len(list) + 1]
    BY <1>0 DEF LoadEvasions, LoadNoisy, LoadPrimary
  <1>2. Len(list) \in Nat
    BY <1>0, BoardFacts
  <1>3. Loaded' = list
    BY <1>0 DEF Loaded
  <1> HIDE DEF list
  <1>4. Rest(primary_range)' = Members(list)
    <2>1. Places(primary_range)' = 1 .. Len(list)
      BY <1>1, <1>2 DEF Places
    <2> QED
      BY <1>1, <2>1 DEF Rest, Members
  <1>5. Given' = Given /\ PickedInOrder'
    <2>1. \A m, n : InOrder(m, n)' <=> InOrder(m, n)
      BY <1>0, PositionFrame
    <2> QED
      BY <1>0, <2>1 DEF Given, Complete, Ordered, PickedInOrder
  <1>6. \A m \in Given : m = tt_move
    BY <1>0 DEF IInv, PickedSoFar, Given
  <1>7. NothingMissing'
    <2>1. Members(Loaded)' \subseteq Given' \union Rest(primary_range)'
      BY <1>3, <1>4 DEF Members
    <2> QED
      BY <1>0, <1>5, <2>1 DEF Complete, NothingMissing
  <1>8. StagesBehind'
    BY <1>0 DEF StagesBehind, AfterGood, SkipStages
  <1>9. Ordered'
    <2>1. \A m : m # tt_move => InOrder(tt_move, m)
      BY Ranks DEF InOrder
    <2> QED
      BY <1>0, <1>5, <1>6, <2>1, Ranks, PositionFrame DEF Ordered
  <1> QED
    BY <1>7, <1>8, <1>9 DEF Complete

\* The pick of a stage has a score no lower than any it could have picked.
LEMMA BestScores ==
    ASSUME candidates \in Seq(Moves), NEW S \in SUBSET (1 .. Len(candidates)), NEW i \in Best(S)
    PROVE  i \in S /\ \A j \in S : Score[candidates[i]] >= Score[candidates[j]]
  <1>1. i \in S /\ \A j \in S : candidates[j] \in Moves /\ Score[candidates[j]] \in Int
    BY PickerAssumption DEF Best
  <1>2. \A j \in S : Score[candidates[i]] > Score[candidates[j]] \/ Score[candidates[i]] = Score[candidates[j]]
    BY DEF Best
  <1> QED
    BY <1>1, <1>2

LEMMA RangesInArray ==
    ASSUME IInv
    PROVE  /\ candidates \in Seq(Moves) /\ Len(candidates) \in Nat
           /\ Places(primary_range) \subseteq 1 .. Len(candidates)
           /\ Places(quiet_range) \subseteq 1 .. Len(candidates)
           /\ Places(primary_range) \intersect Places(quiet_range) = {}
           /\ primary_range \in Ranges /\ 1 <= primary_range.next /\ primary_range.end <= Len(candidates) + 1
           /\ quiet_range \in Ranges /\ 1 <= quiet_range.next /\ quiet_range.end <= Len(candidates) + 1
  BY DEF IInv, Typed, TypeOK, Ranges, Places

LEMMA PickEvasionComplete == IInv /\ Complete /\ PickEvasion => Complete'
  <1> SUFFICES ASSUME IInv, Complete, PickEvasion PROVE Complete'
    OBVIOUS
  <1> DEFINE S == {i \in Places(primary_range) : Evasion(candidates[i])}
  <1>1. \/ /\ PickFrom(primary_range, S) /\ primary_range' = Advanced(primary_range) /\ UNCHANGED stage
        \/ S = {} /\ FallTo("Done") /\ UNCHANGED <<candidates, primary_range>>
    BY DEF PickEvasion, PickPrimary, Pickable, Places
  <1>2. /\ stage = "PickEvasion" /\ UNCHANGED <<position, quiet_hint_next, skip_quiets, quiet_range>>
        /\ board.in_check
    <2>1. board.in_check \in BOOLEAN
      BY BoardFacts DEF IInv, Typed, TypeOK
    <2> QED
      BY <2>1 DEF PickEvasion, PickPrimary, IInv, StagesFit
  <1>3. CASE PickFrom(primary_range, S) /\ primary_range' = Advanced(primary_range) /\ UNCHANGED stage
    <2> PICK i \in Best(S) : candidates' = Swapped(candidates, primary_range.next, i) /\ Return(candidates[i])
      BY <1>3 DEF PickFrom
    <2>1. i \in S /\ \A j \in S : Score[candidates[i]] >= Score[candidates[j]]
      <3> HIDE DEF S
      <3>1. S \subseteq 1 .. Len(candidates)
        BY RangesInArray DEF S
      <3> QED
        BY <3>1, RangesInArray, BestScores
    <2>2. i \in Places(primary_range) /\ candidates[i] # tt_move
      BY <2>1 DEF Evasion
    <2>3. \A n \in Rest(primary_range) : n # tt_move => InOrder(candidates[i], n)
      BY <1>2, <2>1, <2>2, Ranks DEF Rest, InOrder, Evasion
    <2> QED
      BY <1>2, <1>3, <2>2, <2>3, CompleteFromPrimary
  <1>4. CASE S = {} /\ FallTo("Done") /\ UNCHANGED <<candidates, primary_range>>
    <2>1. /\ UNCHANGED <<position, quiet_hint_next, skip_quiets, ranges, picked>>
          /\ stage' = "Done"
      BY <1>2, <1>4 DEF FallTo, ranges
    <2>2. Rest(primary_range) \subseteq {tt_move}
      BY <1>4 DEF Rest, Evasion
    <2>3. NothingMissing'
      BY <1>2, <2>1, StillFrame DEF Complete, NothingMissing
    <2>4. StagesBehind'
      BY <1>2, <2>1, <2>2, StillFrame DEF Complete, StagesBehind, MainQuiet
    <2>5. Ordered'
      BY <1>2, <2>1, StillFrame DEF Complete, Ordered, BeforeQuiet
    <2> QED
      BY <2>3, <2>4, <2>5 DEF Complete
  <1> QED
    BY <1>1, <1>3, <1>4

\* The noisy moves of a node that is not in check.
LEMMA NoisyRest ==
    ASSUME IInv, ~board.in_check
    PROVE  \A n \in Rest(primary_range) : n \in Moves /\ Noisy(n)
  BY RangesInArray DEF IInv, RangesHold, Rest

LEMMA PickGoodNoisyComplete == IInv /\ Complete /\ PickGoodNoisy => Complete'
  <1> SUFFICES ASSUME IInv, Complete, PickGoodNoisy PROVE Complete'
    OBVIOUS
  <1> DEFINE S == {i \in Places(primary_range) : GoodNoisy(candidates[i])}
  <1>1. \/ /\ PickFrom(primary_range, S) /\ primary_range' = Advanced(primary_range) /\ UNCHANGED stage
        \/ S = {} /\ FallTo(AfterGoodNoisy) /\ UNCHANGED <<candidates, primary_range>>
    BY DEF PickGoodNoisy, PickPrimary, Pickable, Places
  <1>2. /\ stage = "PickGoodNoisy" /\ UNCHANGED <<position, quiet_hint_next, skip_quiets, quiet_range>>
        /\ ~board.in_check /\ mode \in Modes
    BY DEF PickGoodNoisy, PickPrimary, IInv, StagesFit, Typed, TypeOK
  <1>3. CASE PickFrom(primary_range, S) /\ primary_range' = Advanced(primary_range) /\ UNCHANGED stage
    <2> PICK i \in Best(S) : candidates' = Swapped(candidates, primary_range.next, i) /\ Return(candidates[i])
      BY <1>3 DEF PickFrom
    <2>1. i \in S /\ \A j \in S : Score[candidates[i]] >= Score[candidates[j]]
      <3> HIDE DEF S
      <3>1. S \subseteq 1 .. Len(candidates)
        BY RangesInArray DEF S
      <3> QED
        BY <3>1, RangesInArray, BestScores
    <2>2. i \in Places(primary_range) /\ candidates[i] # tt_move
      BY <2>1 DEF GoodNoisy
    <2>3. Rank(candidates[i]) = 1
      <3>1. candidates[i] \in Rest(primary_range) /\ GoodNoisy(candidates[i])
        BY <2>1 DEF Rest
      <3> QED
        BY <1>2, <3>1, NoisyRest, Ranks
    <2>4. \A n \in Rest(primary_range) : n # tt_move => InOrder(candidates[i], n)
      <3>1. ASSUME NEW n \in Rest(primary_range), n # tt_move PROVE InOrder(candidates[i], n)
        <4>1. PICK j \in Places(primary_range) : n = candidates[j]
          BY DEF Rest
        <4>2. CASE GoodNoisy(n)
          <5>1. Rank(n) = 1
            BY <1>2, <4>2, NoisyRest, Ranks
          <5>2. Score[candidates[i]] >= Score[n]
            BY <2>1, <4>1, <4>2
          <5> QED
            BY <2>3, <5>1, <5>2 DEF InOrder
        <4>3. CASE ~GoodNoisy(n)
          <5>1. Rank(n) = 4
            BY <1>2, <3>1, <4>3, NoisyRest, Ranks
          <5> QED
            BY <2>3, <5>1 DEF InOrder
        <4> QED
          BY <4>2, <4>3
      <3> QED
        BY <3>1
    <2>5. Rank(candidates[i]) <= 2
      BY <2>3
    <2> QED
      BY <1>2, <1>3, <2>2, <2>4, <2>5, CompleteFromPrimary
  <1>4. CASE S = {} /\ FallTo(AfterGoodNoisy) /\ UNCHANGED <<candidates, primary_range>>
    <2>1. /\ UNCHANGED <<position, quiet_hint_next, skip_quiets, ranges, picked>>
          /\ stage' = AfterGoodNoisy
      BY <1>2, <1>4 DEF FallTo, ranges
    <2>2. \A m \in Rest(primary_range) : ~GoodNoisy(m)
      BY <1>4 DEF Rest
    <2>3. /\ stage' \in {"Done", "PickBadNoisy", "PickQuietHint"}
          /\ stage' = "Done" => mode = "QSearch"
          /\ stage' = "PickBadNoisy" => skip_quiets
      BY <1>2, <2>1 DEF AfterGoodNoisy, Modes
    <2>4. NothingMissing'
      BY <1>2, <2>1, <2>3, StillFrame DEF Complete, NothingMissing
    <2>5. StagesBehind'
      BY <1>2, <2>1, <2>2, <2>3, StillFrame DEF Complete, StagesBehind, MainQuiet
    <2>6. Ordered'
      BY <1>2, <2>1, <2>3, StillFrame DEF Complete, Ordered, BeforeQuiet
    <2> QED
      BY <2>4, <2>5, <2>6 DEF Complete
  <1> QED
    BY <1>1, <1>3, <1>4

LEMMA PickBadNoisyComplete == IInv /\ Complete /\ PickBadNoisy => Complete'
  <1> SUFFICES ASSUME IInv, Complete, PickBadNoisy PROVE Complete'
    OBVIOUS
  <1> DEFINE S == {i \in Places(primary_range) : BadNoisy(candidates[i])}
  <1>1. \/ /\ PickFrom(primary_range, S) /\ primary_range' = Advanced(primary_range) /\ UNCHANGED stage
        \/ S = {} /\ FallTo("Done") /\ UNCHANGED <<candidates, primary_range>>
    BY DEF PickBadNoisy, PickPrimary, Pickable, Places
  <1>2. /\ stage = "PickBadNoisy" /\ UNCHANGED <<position, quiet_hint_next, skip_quiets, quiet_range>>
        /\ ~board.in_check
    BY DEF PickBadNoisy, PickPrimary, IInv, StagesFit
  <1>3. \A n \in Rest(primary_range) : ~GoodNoisy(n)
    BY <1>2 DEF Complete, StagesBehind, AfterGood
  <1>4. \A n \in Rest(primary_range) : BadNoisy(n) \/ n = tt_move
    <2>1. \A n \in Rest(primary_range) : Score[n] \in Int
      BY <1>2, NoisyRest, PickerAssumption
    <2>2. GoodCaptureScoreBase \in Int
      BY PickerAssumption
    <2> QED
      BY <1>3, <2>1, <2>2 DEF BadNoisy, GoodNoisy
  <1>5. CASE PickFrom(primary_range, S) /\ primary_range' = Advanced(primary_range) /\ UNCHANGED stage
    <2> PICK i \in Best(S) : candidates' = Swapped(candidates, primary_range.next, i) /\ Return(candidates[i])
      BY <1>5 DEF PickFrom
    <2>1. i \in S /\ \A j \in S : Score[candidates[i]] >= Score[candidates[j]]
      <3> HIDE DEF S
      <3>1. S \subseteq 1 .. Len(candidates)
        BY RangesInArray DEF S
      <3> QED
        BY <3>1, RangesInArray, BestScores
    <2>2. i \in Places(primary_range) /\ candidates[i] # tt_move /\ candidates[i] \in Rest(primary_range)
      BY <2>1 DEF BadNoisy, Rest
    <2>3. \A n \in Rest(primary_range) : n # tt_move => Rank(n) = 4
      BY <1>2, <1>3, NoisyRest, Ranks
    <2>4. \A n \in Rest(primary_range) : n # tt_move => Score[candidates[i]] >= Score[n]
      BY <1>4, <2>1 DEF Rest
    <2>5. \A n \in Rest(primary_range) : n # tt_move => InOrder(candidates[i], n)
      BY <2>2, <2>3, <2>4 DEF InOrder
    <2> QED
      BY <1>2, <1>5, <2>2, <2>5, CompleteFromPrimary
  <1>6. CASE S = {} /\ FallTo("Done") /\ UNCHANGED <<candidates, primary_range>>
    <2>1. /\ UNCHANGED <<position, quiet_hint_next, skip_quiets, ranges, picked>>
          /\ stage' = "Done"
      BY <1>2, <1>6 DEF FallTo, ranges
    <2>2. Rest(primary_range) \subseteq {tt_move}
      BY <1>4, <1>6 DEF Rest
    <2>3. NothingMissing'
      BY <1>2, <2>1, StillFrame DEF Complete, NothingMissing
    <2>4. StagesBehind'
      BY <1>2, <1>3, <2>1, <2>2, StillFrame DEF Complete, StagesBehind, MainQuiet
    <2>5. Ordered'
      BY <1>2, <2>1, StillFrame DEF Complete, Ordered, BeforeQuiet
    <2> QED
      BY <2>3, <2>4, <2>5 DEF Complete
  <1> QED
    BY <1>1, <1>5, <1>6

LEMMA PickQuietHintComplete == IInv /\ Complete /\ PickQuietHint => Complete'
  <1> SUFFICES ASSUME IInv, Complete, PickQuietHint PROVE Complete'
    OBVIOUS
  <1>0. /\ UNCHANGED position /\ UNCHANGED <<board, mode, tt_move, quiet_hints, skip_quiets>>
        /\ UNCHANGED ranges /\ UNCHANGED <<candidates, primary_range, quiet_range>>
        /\ stage = "PickQuietHint" /\ picked \in Seq(Moves)
        /\ quiet_hint_next \in Nat \ {0} /\ quiet_hints \in Seq(Moves) /\ ~board.in_check
    BY DEF IInv, Typed, TypeOK, PickQuietHint, position, ranges, StagesFit
  <1>1. CASE /\ quiet_hint_next <= Len(quiet_hints) /\ Return(quiet_hints[quiet_hint_next])
             /\ quiet_hint_next' = quiet_hint_next + 1 /\ UNCHANGED stage
    <2> DEFINE m == quiet_hints[quiet_hint_next]
    <2>1. quiet_hint_next \in 1 .. Len(quiet_hints) /\ m \in Moves
      BY <1>0, <1>1
    <2>2. Rank(m) = 2
      BY <1>0, <2>1, Ranks
    <2>3. picked' = Append(picked, m)
      BY <1>1 DEF Return
    <2>4. \A h \in 1 .. Len(quiet_hints) : h < quiet_hint_next' => h < quiet_hint_next \/ quiet_hints[h] = m
      BY <1>0, <1>1
    <2>5. \A k \in Given : Rank(k) <= 2
      BY <1>0 DEF Complete, Ordered, BeforeQuiet
    <2>6. \A n \in Rest(primary_range) : n # tt_move => Rank(n) = 4
      <3>1. \A n \in Rest(primary_range) : ~GoodNoisy(n)
        BY <1>0 DEF Complete, StagesBehind, AfterGood, SkipStages
      <3> QED
        BY <1>0, <3>1, NoisyRest, Ranks
    <2> HIDE DEF m
    <2>7. \A k \in Given : InOrder(k, m)
      BY <2>2, <2>5, Ranks DEF InOrder
    <2>8. Given' = Given \union {m} /\ PickedInOrder'
      BY <1>0, <2>1, <2>3, <2>7, GivenGrows DEF Complete, Ordered
    <2>9. Rest(primary_range)' = Rest(primary_range)
      BY <1>0 DEF Rest, Places
    <2>10. NothingMissing'
      BY <1>0, <1>1, <2>4, <2>8, <2>9, PositionFrame DEF Complete, NothingMissing
    <2>11. StagesBehind'
      BY <1>0, <1>1, <2>9, PositionFrame DEF Complete, StagesBehind
    <2>12. Ordered'
      <3>1. \A n \in Rest(primary_range) : n # tt_move => InOrder(m, n)
        BY <2>2, <2>6 DEF InOrder
      <3>2. \A k \in Given' : Rank(k) <= 2
        BY <2>2, <2>5, <2>8
      <3> QED
        BY <1>0, <1>1, <2>8, <2>9, <3>1, <3>2, PositionFrame DEF Complete, Ordered
    <2> QED
      BY <2>10, <2>11, <2>12 DEF Complete
  <1>2. CASE quiet_hint_next > Len(quiet_hints) /\ FallTo("LoadQuiet") /\ UNCHANGED quiet_hint_next
    <2>1. /\ UNCHANGED <<position, quiet_hint_next, skip_quiets, ranges, picked>>
          /\ stage' = "LoadQuiet"
      BY <1>0, <1>2 DEF FallTo
    <2>2. NothingMissing'
      BY <1>0, <2>1, StillFrame DEF Complete, NothingMissing
    <2>3. StagesBehind'
      BY <1>0, <1>2, <2>1, StillFrame DEF Complete, StagesBehind, AfterGood, SkipStages
    <2>4. Ordered'
      BY <1>0, <2>1, StillFrame DEF Complete, Ordered, BeforeQuiet
    <2> QED
      BY <2>2, <2>3, <2>4 DEF Complete
  <1> QED
    BY <1>1, <1>2 DEF PickQuietHint

LEMMA LoadQuietComplete == IInv /\ Complete /\ LoadQuiet => Complete'
  <1> SUFFICES ASSUME IInv, Complete, LoadQuiet PROVE Complete'
    OBVIOUS
  <1>0. /\ UNCHANGED <<board, mode, tt_move, quiet_hints, quiet_hint_next, skip_quiets, primary_range, picked>>
        /\ UNCHANGED position
        /\ board \in Boards /\ stage = "LoadQuiet" /\ stage' = "PickQuiet"
        /\ candidates' = SubSeq(candidates, 1, primary_range.end - 1) \o board.quiet
        /\ quiet_range' = [next |-> primary_range.end, end |-> primary_range.end + Len(board.quiet)]
        /\ ~skip_quiets /\ ~board.in_check
        /\ candidates \in Seq(board.pseudo_legal) /\ primary_range \in Ranges
    BY DEF IInv, Typed, TypeOK, LoadQuiet, FallTo, position, StagesFit, SkipStages
  <1> DEFINE e == primary_range.end
             list == board.quiet
             T == board.pseudo_legal
             c == candidates
  <1>1. /\ list \in Seq(T) /\ Len(list) \in Nat /\ c \in Seq(T)
        /\ \A h \in 1 .. Len(list) : ~Noisy(list[h])
    BY <1>0, BoardFacts
  <1>2. e \in Nat \ {0} /\ e - 1 <= Len(c)
    BY SMTT(30), <1>0 DEF IInv, Typed, Ranges, TypeOK
  <1>3. candidates' = SubSeq(c, 1, e - 1) \o list
    BY <1>0
  <1> HIDE DEF T, list, e, c
  <1>4. /\ Places(quiet_range)' = e .. e + Len(list) - 1
        /\ Places(primary_range)' = Places(primary_range)
        /\ \A i \in Places(primary_range) : i \in 1 .. e - 1
    <2>1. quiet_range' = [next |-> e, end |-> e + Len(list)]
      BY <1>0 DEF e, list
    <2>2. Places(quiet_range)' = e .. e + Len(list) - 1
      <3>1. quiet_range'.next = e /\ quiet_range'.end = e + Len(list)
        BY <2>1
      <3> QED
        BY <1>1, <1>2, <3>1 DEF Places
    <2>3. Places(primary_range)' = Places(primary_range)
      BY <1>0 DEF Places
    <2>4. primary_range.next \in Nat /\ 1 <= primary_range.next
      BY <1>0 DEF IInv, Typed, Ranges
    <2> QED
      BY <1>2, <2>2, <2>3, <2>4 DEF Places, e
  <1>5. /\ \A i \in 1 .. e - 1 : candidates'[i] = c[i]
        /\ \A i \in e .. e + Len(list) - 1 : candidates'[i] = list[i - (e - 1)]
    BY <1>1, <1>2, <1>3, QuietsAppended
  <1>6. Rest(primary_range)' = Rest(primary_range)
    BY <1>4, <1>5 DEF Rest, c
  <1>7. Rest(quiet_range)' = Members(list)
    <2>1. \A i \in e .. e + Len(list) - 1 : i - (e - 1) \in 1 .. Len(list) /\ candidates'[i] = list[i - (e - 1)]
      BY <1>1, <1>2, <1>5
    <2>2. ASSUME NEW h \in 1 .. Len(list)
          PROVE  e - 1 + h \in e .. e + Len(list) - 1 /\ candidates'[e - 1 + h] = list[h]
      <3> DEFINE x == e - 1 + h
      <3>1. x \in e .. e + Len(list) - 1 /\ x - (e - 1) = h
        BY <1>1, <1>2
      <3> HIDE DEF x
      <3>2. candidates'[x] = list[h]
        BY <1>5, <3>1
      <3> QED
        BY <3>1, <3>2 DEF x
    <2>3. Rest(quiet_range)' = {candidates'[i] : i \in e .. e + Len(list) - 1}
      BY <1>4 DEF Rest
    <2>4. {candidates'[i] : i \in e .. e + Len(list) - 1} \subseteq Members(list)
      BY <2>1 DEF Members
    <2>5. Members(list) \subseteq {candidates'[i] : i \in e .. e + Len(list) - 1}
      BY <2>2 DEF Members
    <2> QED
      BY <2>3, <2>4, <2>5
  <1>8. \A n \in Members(list) : ~Noisy(n)
    BY <1>1 DEF Members
  <1>9. Given' = Given /\ PickedInOrder'
    <2>1. \A m, n : InOrder(m, n)' <=> InOrder(m, n)
      BY <1>0, PositionFrame
    <2> QED
      BY <1>0, <2>1 DEF Given, Complete, Ordered, PickedInOrder
  <1>10. NothingMissing'
    <2>1. Members(board.quiet)' \subseteq Given' \union Rest(quiet_range)'
      BY <1>0, <1>7 DEF Members, list
    <2> QED
      BY <1>0, <1>6, <1>9, <2>1, PositionFrame DEF Complete, NothingMissing
  <1>11. StagesBehind'
    BY <1>0, <1>6, PositionFrame DEF Complete, StagesBehind, AfterGood, SkipStages
  <1>12. Ordered'
    <2>1. \A k \in Given : Rank(k) <= 2
      BY <1>0 DEF Complete, Ordered, BeforeQuiet
    <2>2. \A n \in Members(list) : Quiet(n) => Rank(n) = 3
      BY <1>0, <1>8, Ranks
    <2>3. \A k \in Given, n \in Members(list) : Quiet(n) => InOrder(k, n)
      BY <2>1, <2>2, Ranks DEF InOrder
    <2> QED
      BY <1>0, <1>6, <1>7, <1>9, <2>3, PositionFrame DEF Complete, Ordered, BeforeQuiet
  <1> QED
    BY <1>10, <1>11, <1>12 DEF Complete

LEMMA PickQuietComplete == IInv /\ Complete /\ PickQuiet => Complete'
  <1> SUFFICES ASSUME IInv, Complete, PickQuiet PROVE Complete'
    OBVIOUS
  <1> DEFINE S == {i \in Places(quiet_range) : Quiet(candidates[i])}
  <1>1. \/ /\ PickFrom(quiet_range, S) /\ quiet_range' = Advanced(quiet_range) /\ UNCHANGED stage
        \/ S = {} /\ FallTo("PickBadNoisy") /\ UNCHANGED <<candidates, quiet_range>>
    BY DEF PickQuiet, Pickable, Places
  <1>2. /\ stage = "PickQuiet" /\ UNCHANGED <<position, quiet_hint_next, skip_quiets, primary_range>>
        /\ ~board.in_check
    BY DEF PickQuiet, IInv, StagesFit
  <1>3. \A n \in Rest(quiet_range) : n \in Moves /\ ~Noisy(n)
    BY RangesInArray DEF IInv, RangesHold, Rest
  <1>4. \A n \in Rest(primary_range) : n # tt_move => Rank(n) = 4
    <2>1. \A n \in Rest(primary_range) : ~GoodNoisy(n)
      BY <1>2 DEF Complete, StagesBehind, AfterGood, SkipStages
    <2> QED
      BY <1>2, <2>1, NoisyRest, Ranks
  <1>5. CASE PickFrom(quiet_range, S) /\ quiet_range' = Advanced(quiet_range) /\ UNCHANGED stage
    <2> PICK i \in Best(S) : candidates' = Swapped(candidates, quiet_range.next, i) /\ Return(candidates[i])
      BY <1>5 DEF PickFrom
    <2> DEFINE m == candidates[i]
    <2>1. i \in S /\ \A j \in S : Score[candidates[i]] >= Score[candidates[j]]
      <3> HIDE DEF S, m
      <3>1. S \subseteq 1 .. Len(candidates)
        BY RangesInArray DEF S
      <3> QED
        BY <3>1, RangesInArray, BestScores
    <2>2. i \in Places(quiet_range) /\ m \in Rest(quiet_range) /\ m \in Moves /\ Quiet(m)
      BY <1>3, <2>1 DEF Rest
    <2>3. Rank(m) = 3
      BY <1>2, <1>3, <2>2, Ranks
    <2>4. \A n \in Rest(quiet_range) : Quiet(n) => Rank(n) = 3 /\ Score[m] >= Score[n]
      <3>1. ASSUME NEW n \in Rest(quiet_range), Quiet(n) PROVE Rank(n) = 3 /\ Score[m] >= Score[n]
        <4>1. PICK j \in Places(quiet_range) : n = candidates[j]
          BY DEF Rest
        <4> QED
          BY <1>2, <1>3, <2>1, <3>1, <4>1, Ranks
      <3> QED
        BY <3>1
    <2>5. /\ Rest(quiet_range)' \subseteq Rest(quiet_range)
          /\ Rest(quiet_range) \subseteq Rest(quiet_range)' \union {m}
      <3>1. Rest(quiet_range)' = {candidates'[k] : k \in Places(Advanced(quiet_range))}
        BY <1>5 DEF Rest, Places
      <3> QED
        BY <2>2, <3>1, RangesInArray, RangeShrinks
    <2>6. Rest(primary_range)' = Rest(primary_range)
      <3>1. \A k \in Places(primary_range) : candidates'[k] = candidates[k]
        <4>1. \A k \in 1 .. Len(candidates) : k \notin Places(quiet_range) => candidates'[k] = candidates[k]
          BY <2>2, RangesInArray, RangeShrinks
        <4> QED
          BY <4>1, RangesInArray
      <3>2. Places(primary_range)' = Places(primary_range)
        BY <1>2 DEF Places
      <3> QED
        BY <3>1, <3>2 DEF Rest
    <2>7. picked \in Seq(Moves) /\ picked' = Append(picked, m)
      BY DEF Return, IInv, Typed, TypeOK
    <2> HIDE DEF m
    <2>8. \A k \in Given : InOrder(k, m)
      BY <1>2, <2>2 DEF Complete, Ordered
    <2>9. Given' = Given \union {m} /\ PickedInOrder'
      BY <1>2, <2>2, <2>7, <2>8, GivenGrows DEF Complete, Ordered
    <2>10. UNCHANGED <<board, mode, tt_move, quiet_hints, quiet_hint_next, skip_quiets, stage>>
      BY <1>2, <1>5 DEF position
    <2>11. NothingMissing'
      BY <1>2, <2>5, <2>6, <2>9, <2>10, PositionFrame DEF Complete, NothingMissing, Members
    <2>12. StagesBehind'
      BY <1>2, <2>6, <2>10, PositionFrame DEF Complete, StagesBehind
    <2>13. Ordered'
      <3>1. \A n \in Rest(primary_range) : n # tt_move => InOrder(m, n)
        BY <1>4, <2>3 DEF InOrder
      <3>2. \A n \in Rest(quiet_range) : Quiet(n) => InOrder(m, n)
        BY <2>3, <2>4 DEF InOrder
      <3> QED
        BY <1>2, <2>5, <2>6, <2>9, <2>10, <3>1, <3>2, PositionFrame DEF Complete, Ordered, BeforeQuiet
    <2> QED
      BY <2>11, <2>12, <2>13 DEF Complete
  <1>6. CASE S = {} /\ FallTo("PickBadNoisy") /\ UNCHANGED <<candidates, quiet_range>>
    <2>1. /\ UNCHANGED <<position, quiet_hint_next, skip_quiets, ranges, picked>>
          /\ stage' = "PickBadNoisy"
      BY <1>2, <1>6 DEF FallTo, ranges
    <2>2. \A n \in Rest(quiet_range) : n = tt_move \/ Contains(quiet_hints, n)
      BY <1>6 DEF Rest, Quiet
    <2>3. ASSUME NEW n \in Rest(quiet_range) PROVE n \in Given
      <3>1. CASE n = tt_move
        BY <1>2, <1>3, <3>1, PickerAssumption DEF Complete, NothingMissing
      <3>2. CASE Contains(quiet_hints, n)
        <4>1. PICK h \in 1 .. Len(quiet_hints) : quiet_hints[h] = n
          BY <3>2 DEF Contains
        <4>2. h < quiet_hint_next
          BY <1>2 DEF Complete, StagesBehind, IInv, Typed, TypeOK
        <4> QED
          BY <4>1, <4>2 DEF Complete, NothingMissing
      <3> QED
        BY <2>2, <3>1, <3>2
    <2>4. Members(board.quiet) \subseteq Given
      BY <1>2, <2>3 DEF Complete, NothingMissing
    <2>5. NothingMissing'
      BY <1>2, <2>1, StillFrame DEF Complete, NothingMissing
    <2>6. StagesBehind'
      <3>1. Members(board.quiet)' \subseteq Given'
        BY <2>1, <2>4, StillFrame DEF Members
      <3> QED
        BY <1>2, <2>1, <3>1, StillFrame DEF Complete, StagesBehind, AfterGood, SkipStages
    <2>7. Ordered'
      BY <1>2, <2>1, StillFrame DEF Complete, Ordered, BeforeQuiet
    <2> QED
      BY <2>5, <2>6, <2>7 DEF Complete
  <1> QED
    BY <1>1, <1>5, <1>6

LEMMA SkipComplete == IInv /\ Complete /\ SkipQuietMoves => Complete'
  <1> SUFFICES ASSUME IInv, Complete, SkipQuietMoves PROVE Complete'
    OBVIOUS
  <1>0. /\ UNCHANGED <<board, mode, tt_move, quiet_hints, quiet_hint_next, picked>>
        /\ UNCHANGED position
        /\ UNCHANGED <<candidates, primary_range, quiet_range>>
        /\ skip_quiets' = TRUE /\ mode = "MainSearch" /\ ~board.in_check
        /\ stage' = IF stage \in SkipStages THEN "PickBadNoisy" ELSE stage
    BY DEF SkipQuietMoves, MainQuiet, position, ranges
  <1>1. /\ Given' = Given /\ Rest(primary_range)' = Rest(primary_range)
        /\ Rest(quiet_range)' = Rest(quiet_range)
    BY <1>0 DEF Given, Rest, Places
  <1>2. PickedInOrder'
    <2>1. \A m, n : InOrder(m, n)' <=> InOrder(m, n)
      BY <1>0, PositionFrame
    <2> QED
      BY <1>0, <2>1 DEF PickedInOrder, Complete, Ordered
  <1>3. NothingMissing'
    BY <1>0, <1>1, PositionFrame DEF Complete, NothingMissing, SkipStages, Members
  <1>4. StagesBehind'
    BY <1>0, <1>1, PositionFrame DEF Complete, StagesBehind, AfterGood, SkipStages
  <1>5. Ordered'
    BY <1>0, <1>1, <1>2, PositionFrame DEF Complete, Ordered, BeforeQuiet, SkipStages
  <1> QED
    BY <1>3, <1>4, <1>5 DEF Complete

LEMMA InitComplete == Init => Complete
  <1> SUFFICES ASSUME Init PROVE Complete
    OBVIOUS
  <1>1. stage = "TtMove" /\ picked = <<>> /\ quiet_hint_next = 1
    BY DEF Init
  <1>2. Given = {} /\ PickedInOrder
    BY <1>1 DEF Given, PickedInOrder
  <1>3. NothingMissing
    <2>1. \A h \in 1 .. Len(quiet_hints) : ~(h < 1)
      OBVIOUS
    <2> QED
      BY <1>1, <2>1 DEF NothingMissing
  <1> QED
    BY <1>1, <1>2, <1>3 DEF Complete, StagesBehind, AfterGood, SkipStages, Ordered

LEMMA NextComplete == IInv /\ Complete /\ [Next]_vars => Complete'
  <1> SUFFICES ASSUME IInv, Complete, [Next]_vars PROVE Complete'
    OBVIOUS
  <1>1. CASE UNCHANGED vars
    <2>1. UNCHANGED <<position, quiet_hint_next, skip_quiets, ranges, picked>> /\ UNCHANGED stage
      BY <1>1 DEF vars, position, ranges
    <2> QED
      BY <2>1, StillFrame DEF Complete, NothingMissing, StagesBehind, Ordered, Members
  <1>2. CASE Next
    BY <1>2, TtMoveComplete, LoadComplete, PickEvasionComplete, PickGoodNoisyComplete,
       PickQuietHintComplete, LoadQuietComplete, PickQuietComplete, PickBadNoisyComplete, SkipComplete
       DEF Next, NextStage
  <1> QED
    BY <1>1, <1>2

\* At the end every generated move that is owed was handed out, and they came
\* in the order of the stages, best score first (Picker::next).
THEOREM PicksStayComplete == Spec => []PicksAreComplete
  <1>1. ASSUME IInv, Complete PROVE NothingLost
    <2> SUFFICES ASSUME stage = "Done" PROVE Owed \subseteq ToSet(picked)
      BY DEF NothingLost
    <2>0. /\ board \in Boards /\ board.in_check \in BOOLEAN /\ mode \in Modes
          /\ tt_move \in Moves \union {NullMove}
      BY <1>1, BoardFacts DEF IInv, Typed, TypeOK
    <2>1. ToSet(picked) = Given
      BY DEF ToSet, Given
    <2>2. /\ Members(Loaded) \subseteq Given \union Rest(primary_range)
          /\ tt_move # NullMove => tt_move \in Given
      BY <1>1 DEF Complete, NothingMissing
    <2>3. \A m \in Members(Loaded) : m \in Moves /\ m # NullMove
      <3>1. board.evasions \in Seq(Moves) /\ board.noisy \in Seq(Moves)
        BY <2>0, BoardFacts
      <3> QED
        BY <3>1, PickerAssumption DEF Members, Loaded
    <2>4. CASE board.in_check
      <3>1. Owed = Members(Loaded)
        BY <2>4 DEF Owed, Members, Loaded, ToSet
      <3>2. Rest(primary_range) \subseteq {tt_move}
        BY <1>1, <2>4 DEF Complete, StagesBehind
      <3> QED
        BY <2>1, <2>2, <2>3, <3>1, <3>2
    <2>5. CASE ~board.in_check /\ mode = "QSearch"
      <3>1. \A m \in Owed : m \in Members(Loaded) /\ (m # tt_move => GoodNoisy(m))
        BY <2>5 DEF Owed, Members, Loaded, ToSet, GoodNoisy
      <3>2. \A m \in Rest(primary_range) : ~GoodNoisy(m)
        BY <1>1, <2>5 DEF Complete, StagesBehind, AfterGood
      <3> QED
        BY <2>1, <2>2, <2>3, <3>1, <3>2
    <2>6. CASE ~board.in_check /\ mode = "MainSearch"
      <3>1. /\ ToSet(board.noisy) = Members(Loaded) /\ ToSet(board.quiet) = Members(board.quiet)
            /\ Owed = ToSet(board.noisy) \union (IF skip_quiets THEN {} ELSE ToSet(board.quiet))
        <4>0. board.noisy \in Seq(Moves) /\ board.quiet \in Seq(Moves)
          BY <2>0, BoardFacts
        <4>1. ToSet(board.noisy) = Members(Loaded)
          <5>1. Loaded = board.noisy
            BY <2>6 DEF Loaded
          <5> QED
            BY <4>0, <5>1 DEF Members, ToSet
        <4>2. ToSet(board.quiet) = Members(board.quiet)
          BY <4>0 DEF Members, ToSet
        <4>3. mode # "QSearch"
          BY <2>6
        <4>4. Owed = ToSet(board.noisy) \union (IF skip_quiets THEN {} ELSE ToSet(board.quiet))
          BY <2>6, <4>3 DEF Owed
        <4> QED
          BY <4>1, <4>2, <4>4
      <3>2. Rest(primary_range) \subseteq {tt_move}
        BY <1>1, <2>6 DEF Complete, StagesBehind
      <3>3. ~skip_quiets => Members(board.quiet) \subseteq Given
        BY <1>1, <2>6 DEF Complete, StagesBehind, MainQuiet
      <3> QED
        BY <2>1, <2>2, <2>3, <3>1, <3>2, <3>3
    <2> QED
      BY <2>0, <2>4, <2>5, <2>6 DEF Modes
  <1>2. ASSUME IInv, Complete PROVE StageOrder
    <2>1. picked \in Seq(Moves) /\ PickedInOrder
      BY <1>2 DEF IInv, Typed, TypeOK, Complete, Ordered
    <2>2. \A i, j \in 1 .. Len(picked) : i < j => InOrder(picked[i], picked[j])
      BY <2>1 DEF PickedInOrder
    <2>3. DOMAIN picked = 1 .. Len(picked)
      BY <2>1
    <2> QED
      BY <2>2, <2>3 DEF StageOrder, InOrder
  <1>3. IInv /\ Complete => PicksAreComplete
    BY <1>1, <1>2 DEF PicksAreComplete
  <1> QED
    BY <1>3, InitIInv, NextIInv, InitComplete, NextComplete, PTL DEF Spec

-----------------------------------------------------------------------------
(* Arithmetic of the bounded update.                                         *)

LEMMA DivBounds ==
    ASSUME NEW a \in Nat, NEW m \in Nat \ {0}
    PROVE  /\ a \div m \in Nat
           /\ (a \div m) * m <= a
           /\ a < (a \div m) * m + m
  BY Z3

\* The share that gravity takes of an update: no more than the entry or the
\* update, and enough to keep their sum in range.
LEMMA Share ==
    ASSUME NEW m \in Nat \ {0}, NEW c \in 0 .. m, NEW w \in 0 .. m
    PROVE  /\ (c * w) \div m \in 0 .. w
           /\ (c * w) \div m <= c
           /\ c + w - ((c * w) \div m) <= m
  <1> DEFINE q == (c * w) \div m
  <1>1. c * w \in Nat
    BY Z3
  <1>2. q \in Nat /\ q * m <= c * w /\ c * w < q * m + m
    BY <1>1, DivBounds
  <1> HIDE DEF q
  <1>3. q <= w
    <2>1. c * w <= m * w
      BY Z3
    <2>2. SUFFICES ASSUME q >= w + 1 PROVE FALSE
      BY <1>2
    <2>3. q * m >= (w + 1) * m
      BY <1>2, <2>2, Z3
    <2> QED
      BY <1>2, <2>1, <2>3, Z3
  <1>4. q <= c
    <2>1. c * w <= m * c
      BY Z3
    <2>2. SUFFICES ASSUME q >= c + 1 PROVE FALSE
      BY <1>2
    <2>3. q * m >= (c + 1) * m
      BY <1>2, <2>2, Z3
    <2> QED
      BY <1>2, <2>1, <2>3, Z3
  <1>5. c + w - q <= m
    <2>1. (m - c) * (m - w) >= 0
      BY Z3
    <2>2. m * (c + w - m) <= c * w
      BY <2>1, Z3
    <2>3. SUFFICES ASSUME c + w - m >= q + 1 PROVE FALSE
      BY <1>2
    <2>4. m * (c + w - m) >= m * (q + 1)
      BY <1>2, <2>3, Z3
    <2> QED
      BY <1>2, <2>2, <2>4, Z3
  <1> QED
    BY <1>2, <1>3, <1>4, <1>5 DEF q

LEMMA QuotientOfShare ==
    ASSUME NEW c \in 0 .. MaxScore, NEW w \in 0 .. MaxScore
    PROVE  /\ Quotient(c * w, MaxScore) = (c * w) \div MaxScore
           /\ Quotient((-c) * w, MaxScore) = -((c * w) \div MaxScore)
  <1> MaxScore \in Nat \ {0}
    BY OrderingAssumption
  <1>1. c * w \in Nat /\ (-c) * w = -(c * w)
    BY Z3
  <1> DEFINE p == c * w
  <1>2. (-(-p)) = p /\ p \in Nat
    BY <1>1
  <1>3. 0 \div MaxScore = 0
    BY DivBounds, Share
  <1>4. Quotient(p, MaxScore) = p \div MaxScore
    BY <1>2 DEF Quotient
  <1>5. Quotient(-p, MaxScore) = -(p \div MaxScore)
    <2>1. CASE p = 0
      BY <2>1, <1>3 DEF Quotient
    <2>2. CASE p # 0
      <3>1. ~(-p >= 0)
        BY <2>2, <1>2
      <3> QED
        BY <3>1, <1>2 DEF Quotient
    <2> QED
      BY <2>1, <2>2
  <1> QED
    BY <1>1, <1>4, <1>5

\* An entry and an update in range leave the sum in range and the entry moves
\* in the direction of the update.
LEMMA GravityInRange ==
    ASSUME NEW current \in EntryScore, NEW adjustment \in EntryScore
    PROVE  /\ current + Gravity(current, adjustment) \in EntryScore
           /\ Gravity(current, adjustment) \in Int
           /\ adjustment >= 0 => Gravity(current, adjustment) >= 0
           /\ adjustment <= 0 => Gravity(current, adjustment) <= 0
  <1> MaxScore \in Nat \ {0}
    BY OrderingAssumption
  <1> DEFINE c == IF current < 0 THEN -current ELSE current
             w == IF adjustment < 0 THEN -adjustment ELSE adjustment
             q == (c * w) \div MaxScore
             t == Quotient(current * w, MaxScore)
  <1>1. c \in 0 .. MaxScore /\ w \in 0 .. MaxScore
    BY DEF EntryScore
  <1>2. q \in 0 .. w /\ q <= c /\ c + w - q <= MaxScore
    BY <1>1, Share
  <1>3. t = IF current < 0 THEN -q ELSE q
    <2>1. CASE current < 0
      <3>1. current = -c
        BY <2>1 DEF EntryScore
      <3> QED
        BY <2>1, <3>1, <1>1, QuotientOfShare
    <2>2. CASE ~(current < 0)
      <3>1. current = c
        BY <2>2
      <3> QED
        BY <2>2, <3>1, <1>1, QuotientOfShare
    <2> QED
      BY <2>1, <2>2
  <1>4. Gravity(current, adjustment) = adjustment - t
    BY DEF Gravity
  <1> HIDE DEF q, t
  <1> QED
    BY <1>1, <1>2, <1>3, <1>4 DEF EntryScore

LEMMA ClampInRange ==
    ASSUME NEW x \in Int, NEW m \in Nat
    PROVE  /\ Clamp(x, -m, m) \in -m .. m /\ Clamp(x, 0, m) \in 0 .. m
           /\ x \in -m .. m => Clamp(x, -m, m) = x
  BY DEF Clamp

LEMMA DepthBonusInRange ==
    ASSUME NEW depth \in Nat, NEW divisor \in Int
    PROVE  DepthBonus(depth, divisor) \in 0 .. MaxScore
  <1> MaxScore \in Nat \ {0}
    BY OrderingAssumption
  <1>1. MaxOf(1, divisor) \in Nat \ {0}
    BY DEF MaxOf
  <1>2. depth * depth \in Nat
    BY Z3
  <1>3. Quotient(depth * depth, MaxOf(1, divisor)) \in Int
    <2> DEFINE p == depth * depth
               d == MaxOf(1, divisor)
    <2> HIDE DEF p, d
    <2>1. p \in Nat /\ d \in Nat \ {0}
      BY <1>1, <1>2 DEF p, d
    <2>2. Quotient(p, d) \in Int
      BY <2>1, DivBounds DEF Quotient
    <2> QED
      BY <2>2 DEF p, d
  <1> QED
    BY <1>3, ClampInRange DEF DepthBonus

\* What reward_entry and penalize_entry do to an entry in range.
LEMMA UpdateInRange ==
    ASSUME NEW current \in EntryScore, NEW depth \in Nat, NEW divisor \in Int
    PROVE  /\ Rewarded(current, depth) \in EntryScore /\ Rewarded(current, depth) >= current
           /\ Penalized(current, depth, divisor) \in EntryScore
           /\ Penalized(current, depth, divisor) <= current
  <1> MaxScore \in Nat \ {0}
    BY OrderingAssumption
  <1>1. ASSUME NEW a \in EntryScore
        PROVE  ApplyGravity(current, a) = current + Gravity(current, a)
    <2>1. Clamp(a, -MaxScore, MaxScore) = a
      BY ClampInRange DEF EntryScore
    <2>2. current + Gravity(current, a) \in -MaxScore .. MaxScore
      BY GravityInRange DEF EntryScore
    <2>3. Clamp(current + Gravity(current, a), -MaxScore, MaxScore) = current + Gravity(current, a)
      BY <2>2, ClampInRange
    <2> QED
      BY <2>1, <2>3 DEF ApplyGravity
  <1>2. DepthBonus(depth, 1) \in 0 .. MaxScore /\ DepthBonus(depth, divisor) \in 0 .. MaxScore
    <2>1. 1 \in Int
      OBVIOUS
    <2>2. DepthBonus(depth, 1) \in 0 .. MaxScore
      BY <2>1, DepthBonusInRange
    <2>3. DepthBonus(depth, divisor) \in 0 .. MaxScore
      BY DepthBonusInRange
    <2> QED
      BY <2>2, <2>3
  <1> DEFINE up == DepthBonus(depth, 1)
             down == -DepthBonus(depth, divisor)
  <1>3. up \in EntryScore /\ up >= 0 /\ down \in EntryScore /\ down <= 0
    BY <1>2 DEF EntryScore
  <1>4. Rewarded(current, depth) = current + Gravity(current, up)
    BY <1>1, <1>3 DEF Rewarded
  <1>5. Penalized(current, depth, divisor) = current + Gravity(current, down)
    BY <1>1, <1>3 DEF Penalized
  <1> HIDE DEF up, down
  <1>6. /\ current + Gravity(current, up) \in EntryScore /\ Gravity(current, up) \in Int
        /\ Gravity(current, up) >= 0
    BY <1>3, GravityInRange
  <1>7. /\ current + Gravity(current, down) \in EntryScore /\ Gravity(current, down) \in Int
        /\ Gravity(current, down) <= 0
    BY <1>3, GravityInRange
  <1>8. current \in Int
    BY DEF EntryScore
  <1> QED
    BY <1>4, <1>5, <1>6, <1>7, <1>8

LEMMA AgedInRange ==
    ASSUME NEW current \in EntryScore
    PROVE  /\ Aged(current) \in EntryScore
           /\ \/ 0 <= Aged(current) /\ Aged(current) <= current
              \/ current <= Aged(current) /\ Aged(current) <= 0
  BY OrderingAssumption DEF Aged, Quotient, EntryScore

-----------------------------------------------------------------------------
(* The invariant.                                                            *)

LEMMA ContextType ==
    ASSUME NEW context \in NodeContexts
    PROVE  /\ context.side \in Sides /\ context.reply \in BOOLEAN
           /\ context.reply => context.previous \in Replied
  <1> PICK side \in Sides, opponent \in Sides, move \in QuietMoves \union {NoMove},
           promoted \in BOOLEAN, piece \in Pieces \union {NoPiece} :
        context = MakeContext(side, opponent, move, promoted, piece)
    BY DEF NodeContexts
  <1> DEFINE moved == IF promoted THEN PAWN ELSE piece
  <1>1. CASE move = NoMove \/ moved = NoPiece
    BY <1>1 DEF MakeContext
  <1>2. CASE ~(move = NoMove \/ moved = NoPiece)
    <2>1. move \in QuietMoves /\ moved \in Pieces
      BY <1>2, OrderingAssumption
    <2>2. context = [side |-> side, reply |-> TRUE, previous |-> <<opponent, moved, move>>]
      BY <1>2 DEF MakeContext
    <2> HIDE DEF moved
    <2> QED
      BY <2>1, <2>2 DEF Replied
  <1> QED
    BY <1>1, <1>2

\* What the bound on the hints rests on: every entry of the refutation tables
\* was recorded in this search.
Recorded ==
    /\ \A p \in Plies : killers[p][1] \in refuted \union {NoMove} /\ killers[p][2] \in refuted \union {NoMove}
    /\ \A p \in Plies : killers[p][1] = killers[p][2] => killers[p][1] = NoMove
    /\ \A r \in Replied : counters[r] \in refuted \union {NoMove}

OrderingInv == EntriesInRange /\ Recorded

LEMMA InitOrderingInv == OrderingInit => OrderingInv
  <1> SUFFICES ASSUME OrderingInit PROVE OrderingInv
    OBVIOUS
  <1> USE OrderingAssumption
  <1>1. 0 \in EntryScore
    BY DEF EntryScore
  <1>2. EntriesInRange
    BY <1>1 DEF OrderingInit, EntriesInRange, NoKillers, NoCounters
  <1>3. Recorded
    BY DEF OrderingInit, Recorded, NoKillers, NoCounters
  <1> QED
    BY <1>2, <1>3 DEF OrderingInv

LEMMA NextOrderingInv == OrderingInv /\ [OrderingNext]_orderingVars => OrderingInv'
  <1> SUFFICES ASSUME OrderingInv, [OrderingNext]_orderingVars PROVE OrderingInv'
    OBVIOUS
  <1> USE OrderingAssumption
  <1>0. 0 \in EntryScore
    BY DEF EntryScore
  <1>1. CASE PrepareForSearch
    <2>1. quiets' \in [Sides \X QuietMoves -> EntryScore]
      BY <1>1, AgedInRange DEF PrepareForSearch, OrderingInv, EntriesInRange
    <2>2. EntriesInRange'
      BY <1>1, <2>1 DEF PrepareForSearch, OrderingInv, EntriesInRange, NoKillers, NoCounters, ClearedCounters
    <2>3. Recorded'
      BY <1>1 DEF PrepareForSearch, Recorded, NoKillers, NoCounters, ClearedCounters
    <2> QED
      BY <2>2, <2>3 DEF OrderingInv
  <1>2. CASE Clear
    <2>1. EntriesInRange'
      BY <1>0, <1>2 DEF Clear, OrderingInv, EntriesInRange, NoKillers, NoCounters
    <2>2. Recorded'
      BY <1>2 DEF Clear, Recorded, NoKillers, NoCounters
    <2> QED
      BY <2>1, <2>2 DEF OrderingInv
  <1>3. ASSUME NEW context \in NodeContexts, NEW m \in QuietMoves, NEW piece \in Pieces,
               NEW depth \in Depths, NEW ply \in Plies, QuietCutoff(context, m, piece, ply, depth)
        PROVE  OrderingInv'
    <2> USE ContextType
    <2>0. depth \in Nat /\ 1 \in Int
      OBVIOUS
    <2>1. \A s \in EntryScore : Rewarded(s, depth) \in EntryScore
      BY <2>0, UpdateInRange
    <2>2. quiets' \in [Sides \X QuietMoves -> EntryScore]
      BY <1>3, <2>1 DEF QuietCutoff, RewardQuiet, OrderingInv, EntriesInRange
    <2>3. continuations' \in [Replied \X Pieces \X QuietMoves -> EntryScore]
      BY <1>3, <2>1 DEF QuietCutoff, RewardQuiet, OrderingInv, EntriesInRange
    <2>4. killers' \in [Plies -> (QuietMoves \union {NoMove}) \X (QuietMoves \union {NoMove})]
      BY <1>3 DEF QuietCutoff, UpdateQuietRefutations, KillerEntered, OrderingInv, EntriesInRange
    <2>5. counters' \in [Replied -> QuietMoves \union {NoMove}]
      BY <1>3 DEF QuietCutoff, UpdateQuietRefutations, OrderingInv, EntriesInRange
    <2>6. EntriesInRange'
      BY <1>3, <2>2, <2>3, <2>4, <2>5 DEF QuietCutoff, OrderingInv, EntriesInRange
    <2>7. ASSUME NEW p \in Plies
          PROVE  /\ killers'[p][1] \in refuted' \union {NoMove}
                 /\ killers'[p][2] \in refuted' \union {NoMove}
                 /\ killers'[p][1] = killers'[p][2] => killers'[p][1] = NoMove
      <3>1. killers'[p] = IF p = ply THEN KillerEntered(killers[p], m) ELSE killers[p]
        BY <1>3 DEF QuietCutoff, UpdateQuietRefutations, OrderingInv, EntriesInRange
      <3>2. refuted' = refuted \union {m}
        BY <1>3 DEF QuietCutoff
      <3> QED
        BY <3>1, <3>2 DEF OrderingInv, EntriesInRange, Recorded, KillerEntered
    <2>8. \A r \in Replied : counters'[r] \in refuted' \union {NoMove}
      BY <1>3 DEF QuietCutoff, UpdateQuietRefutations, OrderingInv, EntriesInRange, Recorded
    <2> QED
      BY <2>6, <2>7, <2>8 DEF OrderingInv, Recorded
  <1>4. ASSUME NEW context \in NodeContexts, NEW m \in QuietMoves, NEW piece \in Pieces,
               NEW depth \in Depths, NEW divisor \in Divisors,
               PenalizeQuiet(context, m, piece, depth, divisor)
        PROVE  OrderingInv'
    <2> USE ContextType
    <2>0. depth \in Nat /\ divisor \in Int
      OBVIOUS
    <2>1. \A s \in EntryScore : Penalized(s, depth, divisor) \in EntryScore
      BY <2>0, UpdateInRange
    <2>2. quiets' \in [Sides \X QuietMoves -> EntryScore]
      BY <1>4, <2>1 DEF PenalizeQuiet, OrderingInv, EntriesInRange
    <2>3. continuations' \in [Replied \X Pieces \X QuietMoves -> EntryScore]
      BY <1>4, <2>1 DEF PenalizeQuiet, OrderingInv, EntriesInRange
    <2>4. EntriesInRange'
      BY <1>4, <2>2, <2>3 DEF PenalizeQuiet, OrderingInv, EntriesInRange
    <2>5. Recorded'
      BY <1>4 DEF PenalizeQuiet, OrderingInv, Recorded
    <2> QED
      BY <2>4, <2>5 DEF OrderingInv
  <1>5. CASE UNCHANGED orderingVars
    BY <1>5 DEF orderingVars, OrderingInv, EntriesInRange, Recorded
  <1> QED
    BY <1>1, <1>2, <1>3, <1>4, <1>5 DEF OrderingNext

LEMMA AlwaysOrderingInv == OrderingSpec => []OrderingInv
  BY InitOrderingInv, NextOrderingInv, PTL DEF OrderingSpec

\* Every entry of the histories stays within the scale and every refutation is
\* a move or the null move, whatever the depths and divisors (State).
THEOREM HistoriesTyped == OrderingSpec => []EntriesInRange
  <1>1. OrderingInv => EntriesInRange
    BY DEF OrderingInv
  <1> QED
    BY <1>1, AlwaysOrderingInv, PTL

\* No killer or counter move of an earlier search is a hint, and the two
\* killers of a ply differ (State::prepare_for_search, KillerMoves::update).
THEOREM HintsAreOfThisSearch == OrderingSpec => []HintsOfThisSearch
  <1>1. OrderingInv => HintsOfThisSearch
    <2> SUFFICES ASSUME OrderingInv PROVE HintsOfThisSearch
      OBVIOUS
    <2>1. \A p \in Plies, m \in QuietMoves : IsKiller(m, p) => m \in refuted
      BY OrderingAssumption DEF IsKiller, OrderingInv, Recorded
    <2>2. \A context \in NodeContexts : CounterHint(context) \in refuted \union {NoMove}
      BY ContextType DEF CounterHint, OrderingInv, Recorded
    <2> QED
      BY <2>1, <2>2 DEF HintsOfThisSearch, OrderingInv, Recorded
  <1> QED
    BY <1>1, AlwaysOrderingInv, PTL

\* The score of a quiet move stays within twice the scale, below the captures
\* (State::quiet_score; the static_assert at picker.cpp:24).
THEOREM QuietScoresAreBounded == OrderingSpec => []QuietScoresBounded
  <1>1. OrderingInv => QuietScoresBounded
    <2> SUFFICES ASSUME OrderingInv, NEW context \in NodeContexts, NEW m \in QuietMoves,
                        NEW piece \in Pieces \union {NoPiece}, NEW with \in BOOLEAN
                 PROVE  QuietScore(context, m, piece, with) \in -(2 * MaxScore) .. 2 * MaxScore
      BY DEF QuietScoresBounded
    <2> MaxScore \in Nat
      BY OrderingAssumption
    <2>1. quiets[<<context.side, m>>] \in EntryScore
      BY ContextType DEF OrderingInv, EntriesInRange
    <2>2. CASE with /\ context.reply /\ piece # NoPiece
      <3>1. continuations[<<context.previous, piece, m>>] \in EntryScore
        BY <2>2, ContextType DEF OrderingInv, EntriesInRange
      <3> QED
        BY <2>1, <2>2, <3>1 DEF QuietScore, EntryScore
    <2>3. CASE ~(with /\ context.reply /\ piece # NoPiece)
      BY <2>1, <2>3 DEF QuietScore, EntryScore
    <2> QED
      BY <2>2, <2>3
  <1> QED
    BY <1>1, AlwaysOrderingInv, PTL

\* The gravity of an update alone keeps an entry on the scale: the clamp of
\* apply_gravity never cuts (history::apply_gravity).
THEOREM GravityAlwaysKeepsRange == OrderingSpec => []GravityKeepsRange
  <1>1. OrderingInv => GravityKeepsRange
    <2> SUFFICES ASSUME OrderingInv, NEW k \in Sides \X QuietMoves, NEW depth \in Depths,
                        NEW divisor \in Divisors, NEW sign \in {1, -1}
                 PROVE  quiets[k] + Gravity(quiets[k], sign * DepthBonus(depth, divisor)) \in EntryScore
      BY DEF GravityKeepsRange
    <2>0. MaxScore \in Nat /\ depth \in Nat /\ divisor \in Int
      BY OrderingAssumption
    <2>1. quiets[k] \in EntryScore
      BY DEF OrderingInv, EntriesInRange
    <2>2. DepthBonus(depth, divisor) \in 0 .. MaxScore
      BY <2>0, DepthBonusInRange
    <2>3. sign * DepthBonus(depth, divisor) \in EntryScore
      <3> DEFINE d == DepthBonus(depth, divisor)
      <3> HIDE DEF d
      <3>1. d \in 0 .. MaxScore
        BY <2>2 DEF d
      <3>2. sign * d \in EntryScore
        BY <2>0, <3>1 DEF EntryScore
      <3> QED
        BY <3>2 DEF d
    <2> QED
      BY <2>1, <2>3, GravityInRange
  <1> QED
    BY <1>1, AlwaysOrderingInv, PTL

\* A reward never lowers and a malus never raises the score of any quiet move,
\* and aging only takes scores toward zero (history.hpp).
THEOREM UpdatesAlwaysPointTheirWay == OrderingSpec => UpdatesPointTheirWay
  <1> DEFINE Step ==
        \A k \in Sides \X QuietMoves :
         CASE event' = "reward" -> quiets'[k] >= quiets[k]
           [] event' = "malus" -> quiets'[k] <= quiets[k]
           [] event' = "age" -> \/ 0 <= quiets'[k] /\ quiets'[k] <= quiets[k]
                                \/ quiets[k] <= quiets'[k] /\ quiets'[k] <= 0
           [] event' = "clear" -> quiets'[k] = 0
  <1>1. OrderingInv /\ [OrderingNext]_orderingVars => [Step]_orderingVars
    <2> SUFFICES ASSUME OrderingInv, OrderingNext PROVE Step
      OBVIOUS
    <2> USE OrderingAssumption
    <2>0. /\ quiets \in [Sides \X QuietMoves -> EntryScore]
          /\ \A k \in Sides \X QuietMoves : quiets[k] \in EntryScore /\ quiets[k] \in Int
      BY DEF OrderingInv, EntriesInRange, EntryScore
    <2>1. CASE PrepareForSearch
      <3>1. \A k \in Sides \X QuietMoves : quiets'[k] = Aged(quiets[k])
        BY <2>1 DEF PrepareForSearch
      <3>2. event' = "age"
        BY <2>1 DEF PrepareForSearch
      <3> QED
        BY <2>0, <3>1, <3>2, AgedInRange
    <2>2. CASE Clear
      BY <2>2 DEF Clear
    <2>3. ASSUME NEW context \in NodeContexts, NEW m \in QuietMoves, NEW piece \in Pieces,
                 NEW depth \in Depths, NEW ply \in Plies,
                 QuietCutoff(context, m, piece, ply, depth)
          PROVE  Step
      <3>0. depth \in Nat /\ 1 \in Int
        OBVIOUS
      <3>1. \A s \in EntryScore : Rewarded(s, depth) >= s
        BY <3>0, UpdateInRange
      <3>2. event' = "reward"
        BY <2>3 DEF QuietCutoff
      <3>3. \A k \in Sides \X QuietMoves : quiets'[k] >= quiets[k]
        BY <2>0, <2>3, <3>1 DEF QuietCutoff, RewardQuiet
      <3> QED
        BY <3>2, <3>3
    <2>4. ASSUME NEW context \in NodeContexts, NEW m \in QuietMoves, NEW piece \in Pieces,
                 NEW depth \in Depths, NEW divisor \in Divisors,
                 PenalizeQuiet(context, m, piece, depth, divisor)
          PROVE  Step
      <3>0. depth \in Nat /\ divisor \in Int
        OBVIOUS
      <3>1. \A s \in EntryScore : Penalized(s, depth, divisor) <= s
        BY <3>0, UpdateInRange
      <3>2. event' = "malus"
        BY <2>4 DEF PenalizeQuiet
      <3>3. \A k \in Sides \X QuietMoves : quiets'[k] <= quiets[k]
        BY <2>0, <2>4, <3>1 DEF PenalizeQuiet
      <3> QED
        BY <3>2, <3>3
    <2> QED
      BY <2>1, <2>2, <2>3, <2>4 DEF OrderingNext
  <1> QED
    BY <1>1, AlwaysOrderingInv, PTL DEF OrderingSpec, UpdatesPointTheirWay

\* The arithmetic of the quiet-move memory is sound on every scale (history.hpp).
THEOREM UpdatesStaySound == OrderingSpec => UpdatesAreSound
  BY HistoriesTyped, QuietScoresAreBounded, GravityAlwaysKeepsRange, UpdatesAlwaysPointTheirWay, PTL
  DEF UpdatesAreSound
===============================================================================
