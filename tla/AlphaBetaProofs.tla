--------------------------- MODULE AlphaBetaProofs ---------------------------
(* AlphaBeta, for every game, evaluation, margin, window, depth and number of *)
(* calls, and a stop at any moment: the board comes back, no sentinel is      *)
(* stored, passes are fair, a stop unwinds; and where nothing is pruned every *)
(* answer, record, lesson and variation is true of the game's minimax.        *)
EXTENDS AlphaBetaInvariants, SequenceTheorems, WellFoundedInduction, TLAPS

-----------------------------------------------------------------------------
(* Numbers, frames and the stack.                                            *)

LEMMA Bands ==
    /\ Inf \in Nat /\ MaxPly \in Nat \ {0} /\ Mate \in Nat /\ Mate = Inf - 1
    /\ TtMateBound = Mate - 2 * MaxPly /\ TtMateBound > 0
    /\ FirstPly \in 1 .. MaxPly
BY ScoresAssumption, SearchAssumption DEF Mate, TtMateBound

Fields == {"fn", "node", "alpha", "beta", "depth", "can_null", "pc", "pos", "ply", "original",
           "tt_move", "veto", "futility", "left", "count", "best", "best_move", "move",
           "failed", "pv"}
FieldsTyped(f) ==
    /\ f.fn \in {"main", "quiescence"} /\ f.node \in {"Pv", "NonPv"}
    /\ f.alpha \in Int /\ f.beta \in Int /\ f.depth \in Nat /\ f.can_null \in BOOLEAN
    /\ f.pc \in Pcs /\ f.pos \in Positions /\ f.ply \in Plies /\ f.original \in Int
    /\ f.tt_move \in Moving /\ f.veto \in BOOLEAN /\ f.futility \in BOOLEAN
    /\ f.left \in SUBSET Positions /\ f.count \in Nat /\ f.best \in Int
    /\ f.best_move \in Moving /\ f.move \in Moving /\ f.failed \in SUBSET Positions
    /\ f.pv \in Seq(Positions)
IsFunction(f) == f = [x \in DOMAIN f |-> f[x]]
HasFields(f) == DOMAIN f = Fields

LEMMA FrameIsTyped ==
    ASSUME NEW f
    PROVE  f \in Frame <=> IsFunction(f) /\ HasFields(f) /\ FieldsTyped(f)
<1>1. ASSUME IsFunction(f), HasFields(f), FieldsTyped(f)
      PROVE  f \in Frame
  BY <1>1, SMTT(30) DEF Frame, IsFunction, HasFields, FieldsTyped, Fields
<1>2. ASSUME f \in Frame
      PROVE  IsFunction(f) /\ HasFields(f)
  BY <1>2, SMTT(30) DEF Frame, IsFunction, HasFields, Fields
<1>3. ASSUME f \in Frame
      PROVE  FieldsTyped(f)
  BY <1>3, SMTT(30) DEF Frame, FieldsTyped
<1>. QED  BY <1>1, <1>2, <1>3

LEMMA CallIsFrame ==
    ASSUME NEW fn \in {"main", "quiescence"}, NEW node \in {"Pv", "NonPv"},
           NEW alpha \in Int, NEW beta \in Int, NEW depth \in Nat, NEW can_null \in BOOLEAN,
           NEW p \in Positions, NEW at \in Plies
    PROVE  Call(fn, node, alpha, beta, depth, can_null, p, at) \in Frame
BY Bands, EmptySeq DEF Call, Frame, Pcs, Moving

LEMMA SilentIsAnswer == Silent \in Answer /\ ~Silent.given
<1>1. Silent \in Answer
  <2>1. << >> \in Seq(Positions) /\ 0 \in Int
    BY EmptySeq
  <2>. QED  BY <2>1, Zenon DEF Silent, Answer
<1>. QED  BY <1>1 DEF Silent

LEMMA Top ==
    ASSUME Typed, stack # << >>
    PROVE  /\ Len(stack) \in Nat \ {0} /\ Node = stack[Len(stack)] /\ Node \in Frame
           /\ IsFunction(Node) /\ HasFields(Node) /\ FieldsTyped(Node)
<1>1. Len(stack) \in Nat \ {0} /\ Node = stack[Len(stack)] /\ Node \in Frame
  BY DEF Typed, Node, Last
<1>. QED  BY <1>1, FrameIsTyped

LEMMA FramePly ==
    ASSUME NEW f \in Frame
    PROVE  f.ply \in Int /\ FirstPly <= f.ply /\ f.ply <= MaxPly
<1>1. f.ply \in Plies
  BY FrameIsTyped DEF FieldsTyped
<1>. QED  BY <1>1, Bands DEF Plies

LEMMA StackFrame ==
    ASSUME Typed, NEW i \in 1 .. Len(stack)
    PROVE  stack[i] \in Frame
BY DEF Typed

\* Resume, Invoke and Give by the frames they leave.
LEMMA Resumed ==
    ASSUME Typed, stack # << >>, NEW c \in Frame, Resume(c)
    PROVE  /\ stack' \in Seq(Frame) /\ stack' # << >> /\ Len(stack') = Len(stack) /\ Node' = c
           /\ \A i \in 1 .. Len(stack) : stack'[i] = IF i = Len(stack) THEN c ELSE stack[i]
BY DEF Typed, Resume, Node, Last

LEMMA Invoked ==
    ASSUME Typed, stack # << >>, NEW c \in Frame, NEW d \in Frame, Invoke(c, d)
    PROVE  /\ stack' \in Seq(Frame) /\ stack' # << >> /\ Len(stack') = Len(stack) + 1 /\ Node' = d
           /\ \A i \in 1 .. Len(stack) + 1 :
                stack'[i] = IF i = Len(stack) + 1 THEN d ELSE IF i = Len(stack) THEN c ELSE stack[i]
BY DEF Typed, Invoke, Node, Last

LEMMA Given ==
    ASSUME Typed, stack # << >>, NEW value, NEW pv, NEW aborted, Give(value, pv, aborted)
    PROVE  /\ stack' \in Seq(Frame) /\ Len(stack') = Len(stack) - 1
           /\ stack' = << >> <=> Len(stack) = 1
           /\ \A i \in 1 .. Len(stack) - 1 : stack'[i] = stack[i]
           /\ answer' = [given |-> TRUE, value |-> value, pv |-> pv, aborted |-> aborted]
<1>. DEFINE n == Len(stack) - 1
<1>1. stack \in Seq(Frame) /\ n \in Nat
  BY DEF Typed
<1>2. stack' = SubSeq(stack, 1, n)
  BY DEF Give, Front
<1>3. \A i \in 1 .. n : stack[i] \in Frame
  BY <1>1
<1>4. /\ SubSeq(stack, 1, n) \in Seq(Frame)
      /\ Len(SubSeq(stack, 1, n)) = IF 1 <= n THEN n - 1 + 1 ELSE 0
      /\ \A i \in 1 .. n - 1 + 1 : SubSeq(stack, 1, n)[i] = stack[1 + i - 1]
  <2>. HIDE DEF n
  <2>. QED  BY <1>1, <1>3, SubSeqProperties
<1>5. Len(stack') = n /\ \A i \in 1 .. n : stack'[i] = stack[i]
  <2>. HIDE DEF n
  <2>1. Len(stack') = n
    BY <1>1, <1>2, <1>4
  <2>2. ASSUME NEW i \in 1 .. n
        PROVE  stack'[i] = stack[i]
    <3>1. i \in 1 .. n - 1 + 1 /\ 1 + i - 1 = i
      BY <1>1
    <3>. QED  BY <1>2, <1>4, <3>1
  <2>. QED  BY <2>1, <2>2
<1>6. stack' = << >> <=> n = 0
  BY <1>1, <1>2, <1>4, <1>5, EmptySeq
<1>. QED  BY <1>1, <1>2, <1>4, <1>5, <1>6 DEF Give

-----------------------------------------------------------------------------
(* The board: a step keeps the positions up to that of the call on top.      *)

BoardKept ==
    /\ path' \in Seq(Positions) /\ Len(path') = search_ply' - FirstPly + 1
    /\ \A k \in 1 .. Place(Node) : path'[k] = path[k]

LEMMA Here ==
    ASSUME Typed, Nested
    PROVE  /\ Len(path) \in Nat \ {0} /\ Board = path[Len(path)] /\ Board \in Positions
           /\ stack # << >> /\ ~answer.given =>
                Board = Node.pos /\ search_ply = Node.ply /\ Node.pc \notin Waiting
           /\ stack # << >> => search_ply = Node.ply + Made(Node) /\ Made(Node) \in {0, 1}
<1>1. Len(path) \in Nat \ {0} /\ Board = path[Len(path)] /\ Board \in Positions
  BY SearchAssumption, Bands DEF Typed, Nested, Board, Last, Plies
<1>2. stack # << >> => search_ply = Node.ply + Made(Node) /\ Made(Node) \in {0, 1}
  BY DEF Nested, Made
<1>3. ASSUME stack # << >>, ~answer.given
      PROVE  Board = Node.pos /\ search_ply = Node.ply /\ Node.pc \notin Waiting
  <2>1. Node.pc \notin Waiting /\ Made(Node) = 0 /\ search_ply = Node.ply + 0
    BY <1>3 DEF Nested, Made, Waiting
  <2>2. Node.ply \in Int
    BY <1>3, Top, FramePly
  <2>3. path[Place(Node)] = Node.pos
    BY <1>3, Top DEF Nested
  <2>. QED  BY <1>1, <2>1, <2>2, <2>3 DEF Nested, Place
<1>. QED  BY <1>1, <1>2, <1>3

LEMMA SameBoard ==
    ASSUME Typed, Nested, stack # << >>, path' = path, search_ply' = search_ply
    PROVE  BoardKept
BY DEF Typed, Nested, BoardKept

LEMMA MadeBoard ==
    ASSUME Typed, Nested, stack # << >>, NEW p \in Positions, Make(p)
    PROVE  BoardKept /\ path'[Len(path')] = p
<1>1. Node.ply \in Int /\ FirstPly \in Int /\ search_ply \in Int
  BY Top, FramePly, Bands DEF Typed, Plies
<1>2. Place(Node) <= Len(path)
  <2>1. search_ply = Node.ply + Made(Node) /\ Made(Node) \in {0, 1} /\ Len(path) = search_ply - FirstPly + 1
    BY Here DEF Nested
  <2>. QED  BY <1>1, <2>1 DEF Place
<1>3. /\ path' \in Seq(Positions) /\ Len(path') = Len(path) + 1 /\ path'[Len(path')] = p
      /\ \A k \in 1 .. Len(path) : path'[k] = path[k]
  BY DEF Typed, Make
<1>. QED  BY <1>1, <1>2, <1>3, Here DEF Nested, BoardKept, Place, Make

LEMMA UnmadeBoard ==
    ASSUME Typed, Nested, stack # << >>, Made(Node) = 1, Unmake
    PROVE  BoardKept /\ search_ply' = Node.ply
<1>. DEFINE n == Len(path) - 1
<1>1. /\ Node.ply \in Int /\ FirstPly \in Int /\ search_ply \in Int /\ n \in Nat
      /\ path \in Seq(Positions) /\ Node.ply >= FirstPly
  BY Top, FramePly, Here, Bands DEF Typed, Plies
<1>2. path' = SubSeq(path, 1, n) /\ search_ply' = search_ply - 1
  BY DEF Unmake, Front
<1>3. n = Place(Node) /\ n = search_ply' - FirstPly + 1 /\ search_ply' = Node.ply
  BY <1>1, <1>2, Here DEF Nested, Place
<1>4. \A k \in 1 .. n : path[k] \in Positions
  BY <1>1
<1>. HIDE DEF n
<1>5. /\ SubSeq(path, 1, n) \in Seq(Positions)
      /\ Len(SubSeq(path, 1, n)) = IF 1 <= n THEN n - 1 + 1 ELSE 0
      /\ \A k \in 1 .. n - 1 + 1 : SubSeq(path, 1, n)[k] = path[1 + k - 1]
  BY <1>1, <1>4, SubSeqProperties
<1>6. n > 0
  BY <1>1, <1>3 DEF Place
<1>7. ASSUME NEW k \in 1 .. n
      PROVE  path'[k] = path[k]
  <2>1. k \in 1 .. n - 1 + 1 /\ 1 + k - 1 = k
    BY <1>1
  <2>. QED  BY <1>2, <1>5, <2>1
<1>. QED  BY <1>1, <1>2, <1>3, <1>5, <1>6, <1>7 DEF BoardKept

LEMMA PliesInOrder ==
    ASSUME Typed, Nested, stack # << >>, NEW i \in 1 .. Len(stack)
    PROVE  /\ stack[i] \in Frame /\ stack[i].ply \in Int /\ FirstPly \in Int
           /\ FirstPly <= stack[i].ply /\ stack[i].ply <= Node.ply
           /\ Place(stack[i]) \in 1 .. Place(Node)
<1>1. stack[i] \in Frame /\ Node \in Frame /\ FirstPly \in Int
  BY StackFrame, Top, Bands
<1>2. stack[i].ply <= Node.ply
  <2>1. i <= Len(stack) /\ Len(stack) \in 1 .. Len(stack) /\ Node = stack[Len(stack)]
    BY Top
  <2>. QED  BY <2>1 DEF Nested
<1>. QED  BY <1>1, <1>2, FramePly DEF Place

LEMMA NestedResume ==
    ASSUME Typed, Nested, stack # << >>, NEW c \in Frame, Resume(c),
           c.pos = Node.pos, c.ply = Node.ply,
           answer'.given <=> c.pc \in Waiting, search_ply' = c.ply + Made(c), BoardKept
    PROVE  Nested'
<1>1. /\ stack' # << >> /\ Len(stack') = Len(stack) /\ Node' = c
      /\ \A i \in 1 .. Len(stack) : stack'[i] = IF i = Len(stack) THEN c ELSE stack[i]
  BY Resumed
<1>2. \A i \in 1 .. Len(stack) : stack'[i].ply = stack[i].ply /\ stack'[i].pos = stack[i].pos
  BY <1>1, Top
<1>3. path'[1] = Root /\ Len(path') = search_ply' - FirstPly + 1
  BY SMTT(20), PliesInOrder, Top DEF Nested, BoardKept
<1>4. ASSUME NEW i \in 1 .. Len(stack')
      PROVE  path'[Place(stack'[i])] = stack'[i].pos
  <2>1. i \in 1 .. Len(stack) /\ Place(stack'[i]) = Place(stack[i])
    BY <1>1, <1>2 DEF Place
  <2>2. path'[Place(stack[i])] = path[Place(stack[i])]
    BY <2>1, PliesInOrder DEF BoardKept
  <2>. QED  BY <1>2, <2>1, <2>2 DEF Nested
<1>5. ASSUME NEW i \in 1 .. Len(stack') - 1
      PROVE  stack'[i].pc \in Waiting /\ stack'[i + 1].ply = stack'[i].ply + Made(stack'[i])
  <2>1. i \in 1 .. Len(stack) - 1 /\ i \in 1 .. Len(stack) /\ i + 1 \in 1 .. Len(stack) /\ i # Len(stack)
    BY <1>1, Top
  <2>. QED  BY <1>1, <1>2, <2>1 DEF Nested
<1>6. stack'[1].ply = FirstPly
  BY <1>2, Top DEF Nested
<1>7. \A i, j \in 1 .. Len(stack') : i <= j => stack'[i].ply <= stack'[j].ply
  BY <1>1, <1>2 DEF Nested
<1>. QED  BY <1>1, <1>3, <1>4, <1>5, <1>6, <1>7 DEF Nested, Place, Made

LEMMA NestedInvoke ==
    ASSUME Typed, Nested, stack # << >>, NEW c \in Frame, NEW d \in Frame, Invoke(c, d),
           c.pos = Node.pos, c.ply = Node.ply, c.pc \in Waiting,
           d.pc \notin Waiting, ~answer'.given,
           d.ply = c.ply + Made(c), search_ply' = d.ply, BoardKept, path'[Place(d)] = d.pos
    PROVE  Nested'
<1>. DEFINE n == Len(stack)
<1>1. /\ stack' # << >> /\ Len(stack') = n + 1 /\ Node' = d /\ n \in Nat \ {0}
      /\ \A i \in 1 .. n + 1 :
           stack'[i] = IF i = n + 1 THEN d ELSE IF i = n THEN c ELSE stack[i]
  BY Invoked, Top
<1>2. \A i \in 1 .. n : stack'[i].ply = stack[i].ply /\ stack'[i].pos = stack[i].pos
  BY <1>1, Top
<1>3. path'[1] = Root /\ Len(path') = search_ply' - FirstPly + 1
  BY Top, PliesInOrder DEF Nested, BoardKept
<1>4. ASSUME NEW i \in 1 .. n + 1
      PROVE  path'[Place(stack'[i])] = stack'[i].pos
  <2>1. CASE i = n + 1
    BY <1>1, <2>1
  <2>2. CASE i # n + 1
    <3>1. i \in 1 .. Len(stack) /\ Place(stack'[i]) = Place(stack[i])
      BY <1>1, <1>2, <2>2 DEF Place
    <3>2. path'[Place(stack[i])] = path[Place(stack[i])]
      BY <3>1, PliesInOrder DEF BoardKept
    <3>. QED  BY <1>2, <3>1, <3>2 DEF Nested
  <2>. QED  BY <2>1, <2>2
<1>5. ASSUME NEW i \in 1 .. n
      PROVE  stack'[i].pc \in Waiting /\ stack'[i + 1].ply = stack'[i].ply + Made(stack'[i])
  <2>1. CASE i = n
    BY <1>1, <2>1
  <2>2. CASE i # n
    <3>1. i \in 1 .. Len(stack) - 1 /\ i \in 1 .. n /\ i + 1 \in 1 .. n /\ i # n + 1
      BY <1>1, <2>2
    <3>2. stack'[i] = stack[i] /\ stack'[i + 1].ply = stack[i + 1].ply
      BY <1>1, <1>2, <2>2, <3>1
    <3>. QED  BY <3>1, <3>2 DEF Nested
  <2>. QED  BY <2>1, <2>2
<1>6. stack'[1].ply = FirstPly
  BY <1>1, <1>2 DEF Nested
<1>7. ASSUME NEW i \in 1 .. n + 1, NEW j \in 1 .. n + 1, i <= j
      PROVE  stack'[i].ply <= stack'[j].ply
  <2>1. d.ply \in Int /\ c.ply <= d.ply
    BY FramePly DEF Made
  <2>2. CASE j = n + 1
    <3>1. CASE i = n + 1
      BY <1>1, <2>1, <2>2, <3>1
    <3>2. CASE i # n + 1
      <4>1. i \in 1 .. Len(stack) /\ stack'[i].ply = stack[i].ply
        BY <1>1, <1>2, <3>2
      <4>2. stack[i].ply \in Int /\ stack[i].ply <= Node.ply
        BY <4>1, PliesInOrder
      <4>3. stack'[j] = d
        BY <1>1, <2>2
      <4>4. c.ply \in Int
        BY FramePly
      <4>. QED  BY <2>1, <4>1, <4>2, <4>3, <4>4
    <3>. QED  BY <3>1, <3>2
  <2>3. CASE j # n + 1
    <3>1. i \in 1 .. n /\ j \in 1 .. n
      BY <1>1, <1>7, <2>3
    <3>. QED  BY <1>2, <1>7, <3>1 DEF Nested
  <2>. QED  BY <2>2, <2>3
<1>8. search_ply' = d.ply + Made(d)
  <2>1. Made(d) = 0 /\ d.ply \in Int
    BY FramePly DEF Made, Waiting
  <2>. QED  BY <2>1
<1>. HIDE DEF n
<1>9. Len(stack') - 1 = n
  BY <1>1
<1>. QED  BY <1>1, <1>3, <1>4, <1>5, <1>6, <1>7, <1>8, <1>9 DEF Nested, Place, Made

LEMMA NestedGive ==
    ASSUME Typed, Nested, stack # << >>, NEW value, NEW pv, NEW aborted,
           Give(value, pv, aborted), search_ply' = Node.ply, BoardKept
    PROVE  Nested'
<1>. DEFINE n == Len(stack) - 1
<1>1. /\ Len(stack') = n /\ n \in Nat /\ (stack' = << >> <=> n = 0) /\ answer'.given = TRUE
      /\ \A i \in 1 .. n : stack'[i] = stack[i]
  BY Given, Top
<1>2. path'[1] = Root /\ Len(path') = search_ply' - FirstPly + 1
  BY PliesInOrder, Top DEF Nested, BoardKept
<1>3. CASE n = 0
  <2>0. Len(stack) = 1
    BY <1>3, Top
  <2>1. Node = stack[1]
    BY <2>0, Top
  <2>2. search_ply' = FirstPly
    BY <2>1 DEF Nested
  <2>. HIDE DEF n
  <2>. QED  BY <1>1, <1>2, <1>3, <2>2 DEF Nested, Place
<1>4. CASE n # 0
  <2>1. n \in 1 .. Len(stack) - 1 /\ n + 1 = Len(stack) /\ \A i \in 1 .. n : i \in 1 .. Len(stack)
    BY <1>1, <1>4
  <2>2. Node' = stack[n] /\ stack[n].pc \in Waiting /\ search_ply' = stack[n].ply + Made(stack[n])
    <3>1. Node' = stack'[Len(stack')]
      BY DEF Node, Last
    <3>2. Node.ply = stack[n].ply + Made(stack[n]) /\ stack[n].pc \in Waiting
      BY <2>1, Top DEF Nested
    <3>. HIDE DEF n
    <3>. QED  BY <1>1, <1>4, <2>1, <3>1, <3>2
  <2>3. ASSUME NEW i \in 1 .. n
        PROVE  path'[Place(stack'[i])] = stack'[i].pos
    <3>1. path'[Place(stack[i])] = path[Place(stack[i])]
      BY <2>1, PliesInOrder DEF BoardKept
    <3>. QED  BY <1>1, <2>1, <3>1 DEF Nested
  <2>4. ASSUME NEW i \in 1 .. n - 1
        PROVE  stack'[i].pc \in Waiting /\ stack'[i + 1].ply = stack'[i].ply + Made(stack'[i])
    <3>1. i \in 1 .. Len(stack) - 1 /\ i \in 1 .. n /\ i + 1 \in 1 .. n
      BY <1>1
    <3>2. stack'[i] = stack[i] /\ stack'[i + 1] = stack[i + 1]
      BY <1>1, <3>1
    <3>. QED  BY <3>1, <3>2 DEF Nested
  <2>5. stack'[1].ply = FirstPly
    BY <1>1, <1>4 DEF Nested
  <2>6. \A i, j \in 1 .. n : i <= j => stack'[i].ply <= stack'[j].ply
    BY <1>1, <2>1 DEF Nested
  <2>. HIDE DEF n
  <2>. QED  BY <1>1, <1>2, <1>4, <2>2, <2>3, <2>4, <2>5, <2>6 DEF Nested, Place, Made
<1>. QED  BY <1>3, <1>4

-----------------------------------------------------------------------------
(* The shapes of a step: a call goes on, makes another, or answers.          *)

\* What a call may become without its caller noticing.
Follows(c) ==
    /\ c.can_null => Node.can_null
    /\ c.fn = "main" => Node.fn = "main" /\ c.alpha <= -MatedAt(c.ply)

LEMMA PassesOn ==
    ASSUME NEW f, NEW c, Passes(f, Node), Follows(c)
    PROVE  Passes(f, c)
BY DEF Passes, Follows

LEMMA BoundedResume ==
    ASSUME Typed, Bounded, stack # << >>, NEW c \in Frame, Resume(c), Sane(c), Follows(c),
           answer'.given /\ ~answer'.aborted => Attainable(answer'.value, search_ply'),
           NoSentinelStored'
    PROVE  Bounded'
<1>1. /\ stack' # << >> /\ Len(stack') = Len(stack) /\ Len(stack) \in Nat \ {0}
      /\ \A i \in 1 .. Len(stack) : stack'[i] = IF i = Len(stack) THEN c ELSE stack[i]
  BY Resumed, Top
<1>2. \A i \in 1 .. Len(stack') : Sane(stack'[i])
  BY <1>1 DEF Bounded
<1>3. ASSUME NEW i \in 1 .. Len(stack') - 1
      PROVE  Passes(stack'[i], stack'[i + 1])
  <2>1. i \in 1 .. Len(stack) - 1 /\ i \in 1 .. Len(stack) /\ i + 1 \in 1 .. Len(stack) /\ i # Len(stack)
    BY <1>1
  <2>2. Passes(stack[i], stack[i + 1]) /\ stack'[i] = stack[i]
    BY <1>1, <2>1 DEF Bounded
  <2>3. CASE i + 1 = Len(stack)
    BY <1>1, <2>1, <2>2, <2>3, Top, PassesOn
  <2>4. CASE i + 1 # Len(stack)
    BY <1>1, <2>1, <2>2, <2>4
  <2>. QED  BY <2>3, <2>4
<1>4. (\A i \in 1 .. Len(stack) : Sane(stack[i]))' /\ (\A i \in 1 .. Len(stack) - 1 : Passes(stack[i], stack[i + 1]))'
  BY <1>2, <1>3 DEF Sane, Passes
<1>. QED  BY <1>4 DEF Bounded, Attainable

LEMMA BoundedInvoke ==
    ASSUME Typed, Bounded, stack # << >>, NEW c \in Frame, NEW d \in Frame, Invoke(c, d),
           Sane(c), Follows(c), Sane(d), Passes(c, d), ~answer'.given, NoSentinelStored'
    PROVE  Bounded'
<1>. DEFINE n == Len(stack)
<1>1. /\ Len(stack') = n + 1 /\ n \in Nat \ {0}
      /\ \A i \in 1 .. n + 1 :
           stack'[i] = IF i = n + 1 THEN d ELSE IF i = n THEN c ELSE stack[i]
  BY Invoked, Top
<1>2. ASSUME NEW i \in 1 .. n + 1
      PROVE  Sane(stack'[i])
  <2>1. i \in 1 .. n => Sane(stack[i])
    BY DEF Bounded
  <2>. QED  BY <1>1, <2>1
<1>3. ASSUME NEW i \in 1 .. n
      PROVE  Passes(stack'[i], stack'[i + 1])
  <2>1. CASE i = n
    BY <1>1, <2>1
  <2>2. CASE i # n
    <3>1. i \in 1 .. Len(stack) - 1 /\ i + 1 \in 1 .. n + 1 /\ i \in 1 .. n + 1 /\ i # n + 1 /\ i + 1 # n + 1
      BY <1>1, <2>2
    <3>2. Passes(stack[i], stack[i + 1])
      BY <3>1 DEF Bounded
    <3>3. CASE i + 1 = n
      <4>1. stack[i + 1] = Node
        BY <3>3, Top
      <4>. QED  BY <1>1, <2>2, <3>1, <3>2, <3>3, <4>1, PassesOn
    <3>4. CASE i + 1 # n
      BY <1>1, <2>2, <3>1, <3>2, <3>4
    <3>. QED  BY <3>3, <3>4
  <2>. QED  BY <2>1, <2>2
<1>. HIDE DEF n
<1>4. \A i \in 1 .. Len(stack') : Sane(stack'[i])
  BY <1>1, <1>2
<1>5. \A i \in 1 .. Len(stack') - 1 : Passes(stack'[i], stack'[i + 1])
  BY <1>1, <1>3
<1>6. (\A i \in 1 .. Len(stack) : Sane(stack[i]))' /\ (\A i \in 1 .. Len(stack) - 1 : Passes(stack[i], stack[i + 1]))'
  BY <1>4, <1>5 DEF Sane, Passes
<1>. QED  BY <1>6 DEF Bounded

LEMMA BoundedGive ==
    ASSUME Typed, Bounded, stack # << >>, NEW value, NEW pv, NEW aborted, Give(value, pv, aborted),
           aborted \/ Len(stack) = 1 \/ Attainable(value, search_ply'), NoSentinelStored'
    PROVE  Bounded'
<1>. DEFINE n == Len(stack) - 1
<1>1. /\ Len(stack') = n /\ n \in Nat /\ (stack' = << >> <=> n = 0)
      /\ answer' = [given |-> TRUE, value |-> value, pv |-> pv, aborted |-> aborted]
      /\ \A i \in 1 .. n : stack'[i] = stack[i]
  BY Given, Top
<1>2. ASSUME NEW i \in 1 .. n
      PROVE  Sane(stack'[i])
  <2>1. i \in 1 .. Len(stack)
    BY <1>1
  <2>. QED  BY <1>1, <2>1 DEF Bounded
<1>3. ASSUME NEW i \in 1 .. n - 1
      PROVE  Passes(stack'[i], stack'[i + 1])
  <2>1. i \in 1 .. Len(stack) - 1 /\ i \in 1 .. n /\ i + 1 \in 1 .. n
    BY <1>1
  <2>. QED  BY <1>1, <2>1 DEF Bounded
<1>4. (\A i \in 1 .. Len(stack) : Sane(stack[i]))' /\ (\A i \in 1 .. Len(stack) - 1 : Passes(stack[i], stack[i + 1]))'
  <2>. HIDE DEF n
  <2>. QED  BY <1>1, <1>2, <1>3 DEF Sane, Passes
<1>5. stack' # << >> /\ ~aborted => Attainable(value, search_ply')
  BY <1>1, Top
<1>. QED  BY <1>1, <1>4, <1>5 DEF Bounded, Attainable

-----------------------------------------------------------------------------
Unmoved == UNCHANGED <<setting, evaluation, stop, asked, calls>>
TableClean == tt' \in [Positions -> Record] /\ NoSentinelStored'

LEMMA CleanResume ==
    ASSUME CleanInv, stack # << >>, NEW c \in Frame, Resume(c),
           c.pos = Node.pos, c.ply = Node.ply, Sane(c), Follows(c),
           \/ answer' = answer /\ search_ply' = search_ply /\ (answer.given <=> c.pc \in Waiting)
           \/ answer' = Silent /\ c.pc \notin Waiting,
           search_ply' = c.ply + Made(c), search_ply' \in Plies, BoardKept, TableClean, Unmoved
    PROVE  CleanInv'
<1>. USE DEF CleanInv
<1>1. Silent \in Answer /\ ~Silent.given
  BY SilentIsAnswer
<1>2. answer' \in Answer
  BY <1>1 DEF Typed
<1>3. Typed'
  BY <1>2, Resumed DEF Typed, TableClean, BoardKept, Unmoved
<1>4. answer'.given <=> c.pc \in Waiting
  BY <1>1
<1>5. Nested'
  BY <1>4, NestedResume
<1>6. answer'.given /\ ~answer'.aborted => Attainable(answer'.value, search_ply')
  BY <1>1 DEF Bounded
<1>7. Bounded'
  BY <1>6, BoundedResume DEF TableClean
<1>8. StopAborts'
  BY <1>1 DEF StopAborts, Unmoved
<1>. QED  BY <1>3, <1>5, <1>7, <1>8

LEMMA CleanInvoke ==
    ASSUME CleanInv, stack # << >>, NEW c \in Frame, NEW d \in Frame, Invoke(c, d),
           c.pos = Node.pos, c.ply = Node.ply, Sane(c), Follows(c), c.pc \in Waiting,
           d.pc \notin Waiting, Sane(d), Passes(c, d),
           answer' \in Answer, ~answer'.given,
           d.ply = c.ply + Made(c), search_ply' = d.ply, BoardKept, path'[Place(d)] = d.pos,
           TableClean, Unmoved
    PROVE  CleanInv'
<1>. USE DEF CleanInv
<1>1. Typed'
  <2>1. search_ply' \in Plies
    BY FrameIsTyped DEF FieldsTyped
  <2>. QED  BY <2>1, Invoked DEF Typed, TableClean, BoardKept, Unmoved
<1>2. Nested'
  BY NestedInvoke
<1>3. Bounded'
  BY BoundedInvoke DEF TableClean
<1>4. StopAborts'
  BY DEF StopAborts
<1>. QED  BY <1>1, <1>2, <1>3, <1>4

LEMMA CleanGive ==
    ASSUME CleanInv, stack # << >>,
           NEW value \in Int, NEW pv \in Seq(Positions), NEW aborted \in BOOLEAN,
           Give(value, pv, aborted), aborted => stop,
           aborted \/ Len(stack) = 1 \/ Attainable(value, search_ply'),
           search_ply' = Node.ply, BoardKept, TableClean, Unmoved
    PROVE  CleanInv'
<1>. USE DEF CleanInv
<1>1. Typed'
  <2>1. search_ply' \in Plies
    BY Top DEF FieldsTyped
  <2>2. answer' \in Answer
    <3>1. answer' = [given |-> TRUE, value |-> value, pv |-> pv, aborted |-> aborted]
      BY Given
    <3>. QED  BY <3>1, Zenon DEF Answer
  <2>. QED  BY <2>1, <2>2, Given DEF Typed, TableClean, BoardKept, Unmoved
<1>2. Nested'
  BY NestedGive
<1>3. Bounded'
  BY BoundedGive DEF TableClean
<1>4. StopAborts'
  BY Given DEF StopAborts, Unmoved
<1>. QED  BY <1>1, <1>2, <1>3, <1>4

-----------------------------------------------------------------------------
(* The steps, one by one: asking and entering.                               *)

LEMMA TopSane ==
    ASSUME CleanInv, stack # << >>
    PROVE  Sane(Node)
BY Top DEF CleanInv, Bounded

LEMMA Evaluated ==
    ASSUME Typed, NEW p \in Positions
    PROVE  /\ evaluation[p] \in Int
           /\ -TtMateBound < evaluation[p] /\ evaluation[p] < TtMateBound
           /\ \A ply \in 0 .. MaxPly : Attainable(evaluation[p], ply)
<1>1. evaluation \in [Positions -> 1 - TtMateBound .. TtMateBound - 1]
  BY SearchAssumption DEF Typed
<1>. QED  BY <1>1, Bands DEF Attainable, MatedAt

LEMMA Untouched ==
    ASSUME CleanInv, Remembered
    PROVE  TableClean
BY DEF CleanInv, Typed, Bounded, Remembered, TableClean, NoSentinelStored

LEMMA StoreKeeps ==
    ASSUME CleanInv, NEW p \in Positions, NEW move \in Moving, NEW score \in Int,
           NEW depth \in Nat, NEW bound \in {"Exact", "Lower", "Upper"},
           StoreIn(p, move, score, depth, bound), search_ply' \in Plies, Attainable(score, search_ply')
    PROVE  TableClean
<1>. DEFINE r == [move |-> IF move = NullMove THEN tt[p].move ELSE move,
                  score |-> Stored(score, search_ply'), depth |-> depth, bound |-> bound,
                  ply |-> search_ply']
<1>1. tt \in [Positions -> Record] /\ search_ply' \in 0 .. MaxPly /\ NoSentinelStored
  BY Bands DEF CleanInv, Typed, Bounded, Plies
<1>2. tt' = tt \/ tt' = [tt EXCEPT ![p] = r]
  BY <1>1 DEF StoreIn
<1>3. Stored(score, search_ply') \in -Mate .. Mate
  <2>1. ASSUME NEW ply \in 0 .. MaxPly, Attainable(score, ply)
        PROVE  Stored(score, ply) \in -Mate .. Mate
    BY <2>1, Bands DEF Stored, Attainable, MatedAt
  <2>. QED  BY <1>1, <2>1
<1>4. r \in Record /\ r.score \in -Mate .. Mate
  <2>1. tt[p].move \in Moving
    BY <1>1 DEF Record
  <2>. QED  BY <1>1, <1>3, <2>1, Bands DEF Record
<1>. HIDE DEF r
<1>. QED  BY <1>1, <1>2, <1>4 DEF TableClean, NoSentinelStored

LEMMA ShiftedIsAttainable ==
    ASSUME NEW score \in -Mate .. Mate, NEW ply \in 0 .. MaxPly
    PROVE  ScoreAtPly(score, ply) \in Int /\ Attainable(ScoreAtPly(score, ply), ply)
BY Bands DEF ScoreAtPly, Attainable, MatedAt

LEMMA AskIsClean ==
    ASSUME CleanInv, NEW window \in setting.windows, NEW depth \in setting.depths,
           NEW node \in {"Pv", "NonPv"}, Ask(window, depth, node)
    PROVE  CleanInv'
<1>. USE DEF CleanInv
<1>1. /\ window[1] \in -Inf .. Inf /\ window[2] \in -Inf .. Inf /\ window[1] < window[2]
      /\ depth \in Nat
  BY SearchAssumption, Bands DEF Typed
<1>. DEFINE d == Call("main", node, window[1], window[2], depth, TRUE, Root, FirstPly)
<1>2. d \in Frame
  <2>1. window[1] \in Int /\ window[2] \in Int /\ Root \in Positions /\ FirstPly \in Plies
    BY <1>1, Bands, SearchAssumption DEF Plies
  <2>. QED  BY <1>1, <2>1, CallIsFrame, Zenon
<1>3. Sane(d) /\ Made(d) = 0 /\ d.pc = "enter" /\ d.ply = FirstPly /\ d.pos = Root
  BY <1>1, Bands DEF Call, Sane, Made
<1>. HIDE DEF d
<1>4. stack' = <<d>> /\ asked' = d /\ answer' = Silent /\ stop' = FALSE /\ calls' = calls + 1
  BY DEF Ask, d
<1>5. Typed'
  <2>1. Silent \in Answer
    BY SilentIsAnswer
  <2>2. /\ setting' = setting /\ evaluation' = evaluation /\ path' = path /\ search_ply' = search_ply
        /\ tt' = tt
    BY DEF Ask, Remembered
  <2>3. stack' \in Seq(Frame) /\ stop' \in BOOLEAN /\ calls' \in Nat
    <3>1. <<d>> \in Seq(Frame)
      BY <1>2
    <3>2. calls' \in Nat
      BY <1>4 DEF Typed
    <3>. QED  BY <1>4, <3>1, <3>2
  <2>. QED  BY <1>2, <1>4, <2>1, <2>2, <2>3 DEF Typed
<1>6. Len(stack') = 1 /\ stack'[1] = d /\ Node' = d /\ stack' # << >> /\ ~answer'.given
  BY <1>4 DEF Node, Last, Silent
<1>7. Nested'
  <2>1. Len(path) = 1 /\ path' = path /\ search_ply' = FirstPly /\ path[1] = Root
    BY Bands DEF Ask, Nested
  <2>2. FirstPly - FirstPly + 1 = 1 /\ FirstPly + 0 = FirstPly /\ FirstPly <= FirstPly
    BY Bands
  <2>3. 1 .. Len(stack') = {1} /\ 1 .. Len(stack') - 1 = {} /\ Node'.pc \notin Waiting
    BY <1>3, <1>6 DEF Waiting
  <2>4. path'[Place(stack'[1])] = stack'[1].pos
    BY <1>3, <1>6, <2>1, <2>2 DEF Place
  <2>. QED  BY <1>3, <1>6, <2>1, <2>2, <2>3, <2>4 DEF Nested, Place, Made
<1>8. Bounded'
  <2>1. NoSentinelStored'
    BY Untouched DEF Ask, TableClean
  <2>. QED  BY <1>3, <1>6, <2>1 DEF Bounded, Sane
<1>9. StopAborts'
  BY <1>6 DEF StopAborts
<1>. QED  BY <1>5, <1>7, <1>8, <1>9

LEMMA RequestStopIsClean == CleanInv /\ RequestStop => CleanInv'
BY DEF CleanInv, RequestStop, Typed, Nested, Bounded, StopAborts, Node, Last, Place, Made, Sane,
   Passes, Attainable, NoSentinelStored

LEMMA Enter ==
    ASSUME CleanInv, Entering
    PROVE  /\ stack # << >> /\ Node \in Frame /\ Sane(Node)
           /\ Board = Node.pos /\ search_ply = Node.ply /\ Board \in Positions
           /\ search_ply \in Plies /\ search_ply \in 0 .. MaxPly
           /\ Node.count = 0 /\ Node.best = -Inf
BY Top, Here, TopSane, Bands DEF CleanInv, Entering, Typed, Plies, Sane

LEMMA OnBoardKeeps ==
    ASSUME CleanInv, stack # << >>, OnBoard
    PROVE  BoardKept /\ Unmoved
BY SameBoard DEF CleanInv, OnBoard, Unmoved

LEMMA AbortIsClean == ASSUME CleanInv, Abort PROVE CleanInv'
<1>1. Node.alpha \in Int /\ stack # << >> /\ search_ply' = Node.ply
  BY Top, Enter DEF Abort, CleanInv, FieldsTyped, OnBoard
<1>2. Give(Node.alpha, << >>, TRUE) /\ stop
  BY DEF Abort
<1>. QED  BY <1>1, <1>2, CleanGive, Untouched, OnBoardKeeps, EmptySeq DEF Abort

LEMMA ExitIsClean == ASSUME CleanInv, Exit PROVE CleanInv'
<1>1. stack # << >> /\ Board \in Positions /\ search_ply' = Node.ply /\ search_ply \in 0 .. MaxPly
  BY Enter DEF Exit, OnBoard
<1>2. PICK value \in {0, evaluation[Board]} : Give(value, << >>, FALSE)
  BY DEF Exit
<1>3. value \in Int /\ Attainable(value, search_ply')
  BY SMTT(20), <1>1, Evaluated, Bands, Enter DEF CleanInv, Exit, OnBoard, Attainable, MatedAt
<1>. QED  BY <1>1, <1>2, <1>3, CleanGive, Untouched, OnBoardKeeps, EmptySeq DEF Exit

LEMMA DropToQuiescenceIsClean == ASSUME CleanInv, DropToQuiescence PROVE CleanInv'
<1>. DEFINE c == Call("quiescence", Node.node, Node.alpha, Node.beta, 0, FALSE, Board, search_ply)
<1>1. /\ stack # << >> /\ Sane(Node) /\ Board = Node.pos /\ search_ply = Node.ply /\ Board \in Positions
      /\ search_ply \in Plies /\ FieldsTyped(Node) /\ Typed /\ ~answer.given
  BY Enter, Top DEF DropToQuiescence, Searching, CleanInv, Entering
<1>2. c \in Frame
  <2>1. Node.node \in {"Pv", "NonPv"} /\ Node.alpha \in Int /\ Node.beta \in Int
    BY <1>1 DEF FieldsTyped
  <2>. QED  BY <1>1, <2>1, CallIsFrame, Zenon
<1>3. c.pos = Node.pos /\ c.ply = Node.ply /\ c.pc = "enter" /\ Sane(c) /\ Follows(c) /\ Made(c) = 0
  BY <1>1 DEF Call, Sane, Follows, Made
<1>4. Resume(c) /\ answer' = answer /\ OnBoard /\ Remembered
  BY DEF DropToQuiescence
<1>. HIDE DEF c
<1>5. c.pc \notin Waiting /\ search_ply' = search_ply /\ search_ply' = c.ply + Made(c)
  <2>1. Node.ply \in Int
    BY <1>1, Top, FramePly
  <2>. QED  BY <1>1, <1>3, <1>4, <2>1 DEF Waiting, OnBoard
<1>. QED  BY <1>1, <1>2, <1>3, <1>4, <1>5, CleanResume, Untouched, OnBoardKeeps

LEMMA MateDistanceIsClean == ASSUME CleanInv, MateDistance PROVE CleanInv'
<1>1. /\ stack # << >> /\ Sane(Node) /\ search_ply = Node.ply /\ Typed /\ Node \in Frame
      /\ FieldsTyped(Node) /\ search_ply \in 0 .. MaxPly
  BY Enter, Top DEF MateDistance, Searching, CleanInv
<1>2. Node.fn = "main" /\ Give(NarrowAlpha, << >>, FALSE) /\ OnBoard /\ Remembered /\ search_ply' = search_ply
  BY DEF MateDistance, OnBoard
<1>3. NarrowAlpha \in Int /\ Node.alpha \in Int
  BY <1>1, Bands DEF FieldsTyped, NarrowAlpha, MaxOf, MatedAt
<1>4. Len(stack) = 1 \/ Attainable(NarrowAlpha, search_ply')
  <2>1. ASSUME Len(stack) # 1
        PROVE  Node.alpha <= -MatedAt(Node.ply)
    <3>1. Len(stack) - 1 \in 1 .. Len(stack) - 1 /\ Len(stack) - 1 + 1 = Len(stack)
      BY SMTT(20), <1>1, <2>1, Top
    <3>2. Passes(stack[Len(stack) - 1], Node)
      BY <1>1, <3>1, Top DEF CleanInv, Bounded
    <3>. QED  BY <1>2, <3>2 DEF Passes
  <2>. QED  BY <1>1, <1>2, <1>3, <2>1, Bands DEF NarrowAlpha, MaxOf, MatedAt, Attainable
<1>. QED  BY <1>1, <1>2, <1>3, <1>4, CleanGive, Untouched, OnBoardKeeps, EmptySeq

LEMMA Probed ==
    ASSUME CleanInv, Probing
    PROVE  /\ TtCutoff => tt[Board].bound # "None" /\ TtScore \in Int /\ Attainable(TtScore, search_ply)
           /\ TtScore \in Int /\ tt[Board] \in Record
<1>1. tt[Board] \in Record /\ search_ply \in 0 .. MaxPly /\ Board \in Positions
  BY Enter DEF CleanInv, Typed, Probing, Searching
<1>2. TtScore \in Int
  BY <1>1 DEF Record, TtScore, ScoreAtPly
<1>3. TtCutoff => tt[Board].bound # "None"
  BY DEF TtCutoff, TtCutoffAllowed, CanCutoff
<1>4. TtCutoff => tt[Board].score \in -Mate .. Mate
  BY <1>1, <1>3, Bands DEF CleanInv, Bounded, NoSentinelStored, Record
<1>. QED  BY <1>1, <1>2, <1>3, <1>4, ShiftedIsAttainable DEF TtScore

LEMMA TakeTtScoreIsClean == ASSUME CleanInv, TakeTtScore PROVE CleanInv'
<1>1. stack # << >> /\ search_ply = Node.ply /\ search_ply' = search_ply
  BY Enter DEF TakeTtScore, Probing, Searching, OnBoard
<1>. QED  BY <1>1, Probed, CleanGive, Untouched, OnBoardKeeps, EmptySeq DEF TakeTtScore

LEMMA Narrowed ==
    ASSUME CleanInv, Probing
    PROVE  /\ NarrowAlpha \in Int /\ NarrowBeta \in Int /\ NarrowAlpha < NarrowBeta
           /\ -Inf <= NarrowAlpha /\ NarrowBeta <= Inf
           /\ Node.fn = "main" => MatedAt(search_ply) <= NarrowAlpha /\ NarrowBeta < -MatedAt(search_ply)
<1>1. FieldsTyped(Node) /\ Sane(Node) /\ search_ply \in 0 .. MaxPly
  BY Enter, Top DEF CleanInv, Probing, Searching
<1>2. Node.alpha \in Int /\ Node.beta \in Int /\ -Inf <= Node.alpha /\ Node.alpha < Node.beta /\ Node.beta <= Inf
  BY <1>1 DEF FieldsTyped, Sane
<1>. QED  BY <1>1, <1>2, Bands DEF Probing, NarrowAlpha, NarrowBeta, MaxOf, MinOf, MatedAt

LEMMA OpenMainIsClean == ASSUME CleanInv, OpenMain PROVE CleanInv'
<1>. DEFINE pc == IF setting.pruning /\ Node.node = "NonPv" THEN "razor" ELSE "loop"
            c == [Node EXCEPT !.alpha = NarrowAlpha, !.beta = NarrowBeta, !.original = NarrowAlpha,
                              !.tt_move = tt[Board].move, !.veto = UpperVeto, !.left = Moves[Board],
                              !.pc = pc]
<1>1. /\ Typed /\ stack # << >> /\ Sane(Node) /\ Board = Node.pos /\ search_ply = Node.ply /\ Board \in Positions
      /\ search_ply \in Plies /\ search_ply \in 0 .. MaxPly /\ search_ply < MaxPly /\ ~answer.given
      /\ Node.fn = "main" /\ Node.depth > 0 /\ Node.count = 0 /\ Node.best = -Inf
      /\ IsFunction(Node) /\ HasFields(Node) /\ FieldsTyped(Node)
  BY Enter, Top DEF OpenMain, Probing, Searching, CleanInv, Entering
<1>2. /\ NarrowAlpha \in Int /\ NarrowBeta \in Int /\ NarrowAlpha < NarrowBeta
      /\ -Inf <= NarrowAlpha /\ NarrowBeta <= Inf
      /\ MatedAt(search_ply) <= NarrowAlpha /\ NarrowBeta < -MatedAt(search_ply)
  BY <1>1, Narrowed DEF OpenMain
<1>3. pc \in {"razor", "loop"} /\ UpperVeto \in BOOLEAN /\ tt[Board].move \in Moving /\ Moves[Board] \in SUBSET Positions
  <2>1. tt[Board] \in Record
    BY Probed DEF OpenMain
  <2>2. tt[Board].move \in Moving
    BY <2>1 DEF Record
  <2>3. Moves[Board] \in SUBSET Positions
    BY <1>1, SearchAssumption
  <2>. QED  BY <2>2, <2>3 DEF UpperVeto
<1>. HIDE DEF pc
<1>4. IsFunction(c)
  BY <1>1, Zenon DEF IsFunction
<1>5. HasFields(c)
  BY <1>1, Zenon DEF HasFields
<1>6. /\ c.alpha = NarrowAlpha /\ c.beta = NarrowBeta /\ c.original = NarrowAlpha /\ c.veto = UpperVeto
      /\ c.tt_move = tt[Board].move /\ c.left = Moves[Board] /\ c.pc = pc
      /\ c.fn = Node.fn /\ c.node = Node.node /\ c.depth = Node.depth /\ c.can_null = Node.can_null
      /\ c.pos = Node.pos /\ c.ply = Node.ply /\ c.futility = Node.futility /\ c.count = Node.count
      /\ c.best = Node.best /\ c.best_move = Node.best_move /\ c.move = Node.move
      /\ c.failed = Node.failed /\ c.pv = Node.pv
  BY <1>1 DEF HasFields, Fields
<1>. HIDE DEF c
<1>7. FieldsTyped(c)
  BY <1>1, <1>2, <1>3, <1>6 DEF FieldsTyped, Pcs
<1>8. c \in Frame
  BY <1>4, <1>5, <1>7, FrameIsTyped
<1>9. Sane(c) /\ Follows(c) /\ Made(c) = 0 /\ c.pc \notin Waiting
  <2>1. Follows(c) /\ Made(c) = 0 /\ c.pc \notin Waiting
    <3>1. c.alpha <= -MatedAt(c.ply)
      BY SMTT(20), <1>1, <1>2, <1>3, <1>6, Bands DEF MatedAt
    <3>2. c.pc \in {"razor", "loop"} /\ c.can_null = Node.can_null
      BY <1>3, <1>6
    <3>3. Follows(c)
      BY <1>1, <3>1, <3>2, Zenon DEF Follows
    <3>. QED  BY <3>2, <3>3 DEF Made, Waiting
  <2>2. Sane(c)
    BY <1>1, <1>2, <1>3, <1>6 DEF Sane
  <2>. QED  BY <2>1, <2>2
<1>10. Resume(c) /\ answer' = answer /\ OnBoard /\ Remembered /\ search_ply' = search_ply
  BY DEF OpenMain, OnBoard, c, pc
<1>11. search_ply' = c.ply + Made(c)
  BY <1>1, <1>6, <1>9, <1>10
<1>. QED  BY <1>1, <1>6, <1>8, <1>9, <1>10, <1>11, CleanResume, Untouched, OnBoardKeeps

LEMMA StandPatCutoffIsClean == ASSUME CleanInv, StandPatCutoff PROVE CleanInv'
<1>1. /\ Typed /\ stack # << >> /\ Board \in Positions /\ search_ply = Node.ply /\ search_ply \in 0 .. MaxPly
      /\ search_ply \in Plies
  BY Enter DEF StandPatCutoff, Probing, Searching, CleanInv
<1>2. evaluation[Board] \in Int /\ Attainable(evaluation[Board], search_ply)
  BY <1>1, Evaluated
<1>3. search_ply' = search_ply /\ OnBoard /\ Give(evaluation[Board], << >>, FALSE)
  BY DEF StandPatCutoff, OnBoard
<1>4. TableClean
  BY <1>1, <1>2, <1>3, StoreKeeps DEF StandPatCutoff, Moving
<1>. QED  BY <1>1, <1>2, <1>3, <1>4, CleanGive, OnBoardKeeps, EmptySeq

LEMMA OpenQuiescenceIsClean == ASSUME CleanInv, OpenQuiescence PROVE CleanInv'
<1>. DEFINE eval == evaluation[Board]
            checked == [Node EXCEPT !.tt_move = tt[Board].move, !.left = Moves[Board], !.pc = "loop"]
            quiet == [Node EXCEPT !.tt_move = tt[Board].move, !.left = Tactical(Board), !.pc = "loop",
                                  !.best = eval, !.alpha = MaxOf(@, eval)]
<1>1. /\ Typed /\ stack # << >> /\ Sane(Node) /\ Board = Node.pos /\ search_ply = Node.ply /\ Board \in Positions
      /\ search_ply \in Plies /\ search_ply \in 0 .. MaxPly /\ search_ply < MaxPly /\ ~answer.given
      /\ Node.fn = "quiescence" /\ Node.count = 0 /\ Node.best = -Inf
      /\ IsFunction(Node) /\ HasFields(Node) /\ FieldsTyped(Node)
  BY Enter, Top DEF OpenQuiescence, Probing, Searching, CleanInv, Entering
<1>2. tt[Board].move \in Moving /\ Moves[Board] \in SUBSET Positions /\ Tactical(Board) \in SUBSET Positions
  <2>1. tt[Board].move \in Moving
    BY Probed DEF OpenQuiescence, Record
  <2>. QED  BY <1>1, <2>1, SearchAssumption DEF Tactical
<1>3. /\ eval \in Int /\ Attainable(eval, search_ply) /\ -Inf < eval
      /\ Node.alpha \in Int /\ Node.beta \in Int /\ Node.alpha < Node.beta
  BY <1>1, Evaluated, Bands DEF FieldsTyped, Sane
<1>4. answer' = answer /\ OnBoard /\ Remembered /\ search_ply' = search_ply
  BY DEF OpenQuiescence, OnBoard
<1>. HIDE DEF eval
<1>5. CASE Board \in Checked /\ Resume(checked)
  <2>1. IsFunction(checked) /\ HasFields(checked)
    BY <1>1, Zenon DEF IsFunction, HasFields
  <2>2. /\ checked.tt_move = tt[Board].move /\ checked.left = Moves[Board] /\ checked.pc = "loop"
      /\ checked.fn = Node.fn /\ checked.node = Node.node /\ checked.alpha = Node.alpha /\ checked.beta = Node.beta /\ checked.depth = Node.depth
      /\ checked.can_null = Node.can_null /\ checked.pos = Node.pos /\ checked.ply = Node.ply /\ checked.original = Node.original /\ checked.veto = Node.veto
      /\ checked.futility = Node.futility /\ checked.count = Node.count /\ checked.best = Node.best /\ checked.best_move = Node.best_move /\ checked.move = Node.move
      /\ checked.failed = Node.failed /\ checked.pv = Node.pv
    BY <1>1 DEF HasFields, Fields
  <2>. HIDE DEF checked
  <2>3. checked \in Frame
    <3>1. FieldsTyped(checked)
      BY <1>1, <1>2, <2>2 DEF FieldsTyped, Pcs
    <3>. QED  BY <2>1, <3>1, FrameIsTyped
  <2>4. Sane(checked) /\ Follows(checked) /\ Made(checked) = 0 /\ checked.pc \notin Waiting
    BY <1>1, <1>5, <2>2 DEF Sane, Follows, Made, Waiting
  <2>. QED  BY <1>1, <1>4, <1>5, <2>2, <2>3, <2>4, CleanResume, Untouched, OnBoardKeeps
<1>6. CASE eval < Node.beta /\ Resume(quiet)
  <2>1. IsFunction(quiet) /\ HasFields(quiet)
    BY <1>1, Zenon DEF IsFunction, HasFields
  <2>2. /\ quiet.tt_move = tt[Board].move /\ quiet.left = Tactical(Board) /\ quiet.pc = "loop"
      /\ quiet.best = eval /\ quiet.alpha = MaxOf(Node.alpha, eval)
      /\ quiet.fn = Node.fn /\ quiet.node = Node.node /\ quiet.beta = Node.beta /\ quiet.depth = Node.depth /\ quiet.can_null = Node.can_null
      /\ quiet.pos = Node.pos /\ quiet.ply = Node.ply /\ quiet.original = Node.original /\ quiet.veto = Node.veto /\ quiet.futility = Node.futility
      /\ quiet.count = Node.count /\ quiet.best_move = Node.best_move /\ quiet.move = Node.move /\ quiet.failed = Node.failed /\ quiet.pv = Node.pv
    BY <1>1 DEF HasFields, Fields
  <2>. HIDE DEF quiet
  <2>3. quiet.alpha \in Int /\ Node.alpha <= quiet.alpha /\ quiet.alpha < Node.beta
    BY <1>3, <1>6, <2>2 DEF MaxOf
  <2>4. quiet \in Frame
    <3>1. FieldsTyped(quiet)
      BY <1>1, <1>2, <1>3, <2>2, <2>3 DEF FieldsTyped, Pcs
    <3>. QED  BY <2>1, <3>1, FrameIsTyped
  <2>5. Sane(quiet) /\ Follows(quiet) /\ Made(quiet) = 0 /\ quiet.pc \notin Waiting
    <3>1. -Inf <= quiet.alpha
      BY <1>1, <1>3, <2>3, Bands DEF Sane
    <3>. QED  BY <1>1, <1>3, <2>2, <2>3, <3>1 DEF Sane, Follows, Made, Waiting
  <2>. QED  BY <1>1, <1>4, <1>6, <2>2, <2>4, <2>5, CleanResume, Untouched, OnBoardKeeps
<1>. QED  BY <1>5, <1>6 DEF OpenQuiescence, eval

-----------------------------------------------------------------------------
(* Pruning before the moves.                                                 *)

\* A call that runs is at its own position; one that waits is one move away at most.
LEMMA Going ==
    ASSUME CleanInv, stack # << >>
    PROVE  /\ Typed /\ Sane(Node) /\ Node \in Frame /\ FieldsTyped(Node)
           /\ IsFunction(Node) /\ HasFields(Node)
           /\ search_ply \in Plies /\ search_ply \in 0 .. MaxPly /\ Node.ply \in 0 .. MaxPly
           /\ search_ply = Node.ply + Made(Node) /\ Made(Node) \in {0, 1}
           /\ answer.given <=> Node.pc \in Waiting
           /\ ~answer.given => Board = Node.pos /\ search_ply = Node.ply /\ Board \in Positions
           /\ answer.given /\ ~stop => ~answer.aborted
           /\ answer \in Answer /\ answer.given \in BOOLEAN /\ answer.value \in Int
           /\ answer.pv \in Seq(Positions)
           /\ answer.given /\ ~stop => Attainable(answer.value, search_ply)
<1>1. Node.ply \in Int /\ FirstPly <= Node.ply /\ Node.ply <= MaxPly
  BY Top, FramePly DEF CleanInv
<1>2. search_ply \in 0 .. MaxPly /\ Node.ply \in 0 .. MaxPly
  BY <1>1, Bands DEF CleanInv, Typed, Plies
<1>3. answer \in Answer /\ answer.given \in BOOLEAN /\ answer.value \in Int /\ answer.pv \in Seq(Positions)
  BY DEF CleanInv, Typed, Answer
<1>4. answer.given <=> Node.pc \in Waiting
  BY DEF CleanInv, Nested
<1>5. answer.given /\ ~stop => ~answer.aborted /\ Attainable(answer.value, search_ply)
  BY DEF CleanInv, StopAborts, Bounded
<1>6. search_ply \in Plies
  BY DEF CleanInv, Typed
<1>. QED  BY <1>2, <1>3, <1>4, <1>5, <1>6, Top, Here, TopSane DEF CleanInv

\* Only the main search gets so far, and its window is that of a mate ahead.
LEMMA Deep ==
    ASSUME CleanInv, stack # << >>, Node.pc # "enter"
    PROVE  /\ Node.alpha \in Int /\ Node.beta \in Int /\ -Inf <= Node.alpha /\ Node.alpha < Node.beta
           /\ Node.beta <= Inf /\ Node.ply < MaxPly /\ Node.ply + 1 \in Plies /\ Node.depth \in Nat
           /\ Node.pc \in {"razor", "razored", "null", "nulled", "scouted"} => Node.fn = "main"
           /\ Node.fn = "main" =>
                Node.depth > 0 /\ MatedAt(Node.ply) <= Node.alpha /\ Node.beta < -MatedAt(Node.ply)
           /\ Node.fn # "main" => Node.fn = "quiescence" /\ Node.depth = 0
<1>1. Sane(Node) /\ FieldsTyped(Node) /\ Node.ply \in Int /\ FirstPly <= Node.ply
  BY Going, FramePly
<1>2. Node.fn \in {"main", "quiescence"} /\ Node.alpha \in Int /\ Node.beta \in Int /\ Node.depth \in Nat
  BY <1>1 DEF FieldsTyped
<1>. QED  BY <1>1, <1>2, Bands DEF Sane, Plies

\* The call on top with another pc.
LEMMA Stepped ==
    ASSUME CleanInv, stack # << >>, NEW pc \in Pcs, NEW c, c = [Node EXCEPT !.pc = pc]
    PROVE  /\ c \in Frame /\ c.pc = pc
           /\ c.fn = Node.fn /\ c.node = Node.node /\ c.alpha = Node.alpha /\ c.beta = Node.beta /\ c.depth = Node.depth
           /\ c.can_null = Node.can_null /\ c.pos = Node.pos /\ c.ply = Node.ply /\ c.original = Node.original /\ c.tt_move = Node.tt_move
           /\ c.veto = Node.veto /\ c.futility = Node.futility /\ c.left = Node.left /\ c.count = Node.count /\ c.best = Node.best
           /\ c.best_move = Node.best_move /\ c.move = Node.move /\ c.failed = Node.failed /\ c.pv = Node.pv
<1>1. IsFunction(Node) /\ HasFields(Node) /\ FieldsTyped(Node)
  BY Going
<1>2. IsFunction(c) /\ HasFields(c)
  BY <1>1, Zenon DEF IsFunction, HasFields
<1>3. /\ c.pc = pc
      /\ c.fn = Node.fn /\ c.node = Node.node /\ c.alpha = Node.alpha /\ c.beta = Node.beta /\ c.depth = Node.depth
      /\ c.can_null = Node.can_null /\ c.pos = Node.pos /\ c.ply = Node.ply /\ c.original = Node.original /\ c.tt_move = Node.tt_move
      /\ c.veto = Node.veto /\ c.futility = Node.futility /\ c.left = Node.left /\ c.count = Node.count /\ c.best = Node.best
      /\ c.best_move = Node.best_move /\ c.move = Node.move /\ c.failed = Node.failed /\ c.pv = Node.pv
  BY <1>1 DEF HasFields, Fields
<1>4. FieldsTyped(c)
  BY <1>1, <1>3 DEF FieldsTyped
<1>. QED  BY <1>2, <1>3, <1>4, FrameIsTyped

LEMMA LowAlpha ==
    ASSUME CleanInv, stack # << >>, Node.pc # "enter", Node.fn = "main"
    PROVE  Node.alpha \in Int /\ Node.alpha <= -MatedAt(Node.ply)
<1>1. Node.ply \in Int
  BY Going
<1>. QED  BY <1>1, Deep, Bands DEF MatedAt

LEMMA RazorIsClean == ASSUME CleanInv, Razor PROVE CleanInv'
<1>. DEFINE c == [Node EXCEPT !.pc = "razored"]
            d == Call("quiescence", "NonPv", Node.alpha - 1, Node.alpha, 0, FALSE, Board, search_ply)
            n == [Node EXCEPT !.pc = "null"]
<1>1. stack # << >> /\ Node.pc = "razor" /\ ~answer.given /\ Node.fn = "main"
  BY Deep DEF Razor, Running, At
<1>2. /\ Sane(Node) /\ Typed /\ Board = Node.pos /\ search_ply = Node.ply /\ Board \in Positions
      /\ search_ply \in Plies /\ answer \in Answer
  BY <1>1, Going
<1>3. /\ Node.alpha \in Int /\ Node.alpha - 1 \in Int /\ Node.alpha <= Inf /\ -Inf <= Node.alpha - 1
      /\ Node.alpha <= -MatedAt(Node.ply)
  BY SMTT(20), <1>1, Going, Deep, Bands DEF MatedAt
<1>4. answer' = answer /\ OnBoard /\ Remembered /\ search_ply' = search_ply /\ path' = path
  BY DEF Razor, OnBoard
<1>5. CASE Invoke(c, d)
  <2>1. c \in Frame /\ c.pc = "razored" /\ Sane(c) /\ Follows(c) /\ c.pos = Node.pos /\ c.ply = Node.ply
    BY <1>1, <1>2, <1>3, Stepped DEF Pcs, Waiting, Sane, Follows
  <2>2. d \in Frame
    BY <1>2, <1>3, CallIsFrame, Zenon
  <2>3. d.pos = Board /\ d.ply = search_ply /\ d.pc = "enter" /\ d.fn = "quiescence" /\ ~d.can_null /\ Sane(d)
    BY <1>3, Bands DEF Call, Sane
  <2>. HIDE DEF c, d
  <2>4. Made(c) = 0 /\ c.pc \in Waiting /\ d.pc \notin Waiting /\ Passes(c, d) /\ d.ply = c.ply + Made(c)
    BY <1>1, <1>2, <2>1, <2>3, Going DEF Made, Waiting, Passes
  <2>5. path'[Place(d)] = d.pos
    BY <1>1, <1>2, <1>4, <2>3, Top DEF CleanInv, Nested, Place
  <2>. QED  BY <1>1, <1>2, <1>4, <1>5, <2>1, <2>2, <2>3, <2>4, <2>5, CleanInvoke, Untouched, OnBoardKeeps
<1>6. CASE Resume(n)
  <2>1. n \in Frame /\ n.pc = "null" /\ Sane(n) /\ Follows(n) /\ n.pos = Node.pos /\ n.ply = Node.ply
    BY <1>1, <1>2, <1>3, Stepped DEF Pcs, Waiting, Sane, Follows
  <2>. HIDE DEF n
  <2>2. Made(n) = 0 /\ n.pc \notin Waiting /\ search_ply' = n.ply + Made(n)
    BY <1>1, <1>2, <1>4, <2>1, Going DEF Made, Waiting
  <2>. QED  BY <1>1, <1>2, <1>4, <1>6, <2>1, <2>2, CleanResume, Untouched, OnBoardKeeps
<1>. QED  BY <1>5, <1>6 DEF Razor

LEMMA RazoredIsClean == ASSUME CleanInv, Razored PROVE CleanInv'
<1>. DEFINE n == [Node EXCEPT !.pc = "null"]
<1>1. /\ stack # << >> /\ Node.pc = "razored" /\ answer.given /\ Node.fn = "main" /\ Made(Node) = 0
      /\ Node.alpha \in Int /\ Node.alpha <= -MatedAt(Node.ply)
  <2>1. stack # << >> /\ Node.pc = "razored" /\ answer.given
    BY DEF Razored, Answered, At
  <2>. QED  BY <2>1, Deep, LowAlpha DEF Made
<1>2. /\ Sane(Node) /\ Typed /\ search_ply = Node.ply /\ search_ply \in Plies /\ answer.value \in Int
      /\ ~stop => Attainable(answer.value, search_ply)
  BY <1>1, Going
<1>3. OnBoard /\ Remembered /\ search_ply' = search_ply
  BY DEF Razored, OnBoard
<1>4. CASE stop /\ Give(Node.alpha, << >>, TRUE)
  BY <1>1, <1>2, <1>3, <1>4, CleanGive, Untouched, OnBoardKeeps, EmptySeq
<1>5. CASE ~stop /\ Give(answer.value, << >>, FALSE)
  BY <1>1, <1>2, <1>3, <1>5, CleanGive, Untouched, OnBoardKeeps, EmptySeq
<1>6. CASE Resume(n) /\ answer' = Silent
  <2>1. n \in Frame /\ n.pc = "null" /\ Sane(n) /\ Follows(n) /\ n.pos = Node.pos /\ n.ply = Node.ply
    BY <1>1, <1>2, Stepped DEF Pcs, Waiting, Sane, Follows
  <2>. HIDE DEF n
  <2>2. Made(n) = 0 /\ n.pc \notin Waiting /\ search_ply' = n.ply + Made(n)
    BY <1>1, <1>2, <1>3, <2>1, Going DEF Made, Waiting
  <2>. QED  BY <1>1, <1>2, <1>3, <1>6, <2>1, <2>2, CleanResume, Untouched, OnBoardKeeps
<1>. QED  BY <1>4, <1>5, <1>6 DEF Razored

LEMMA ChildPosition ==
    ASSUME CleanInv, stack # << >>, ~answer.given, NEW p \in Positions, Make(p)
    PROVE  BoardKept /\ search_ply' = Node.ply + 1 /\ path'[search_ply' - FirstPly + 1] = p
<1>1. search_ply = Node.ply
  BY Going
<1>2. Len(path') = search_ply' - FirstPly + 1 /\ path'[Len(path')] = p /\ BoardKept
  BY MadeBoard DEF CleanInv, BoardKept
<1>. QED  BY <1>1, <1>2 DEF Make

LEMMA NullTryIsClean == ASSUME CleanInv, NullTry PROVE CleanInv'
<1>. DEFINE p == NullChild[Board]
            c == [Node EXCEPT !.pc = "nulled"]
            d == Call("main", "NonPv", -Node.beta, -Node.beta + 1, Node.depth - NullReduction, FALSE,
                      p, search_ply + 1)
<1>1. stack # << >> /\ Node.pc = "null" /\ ~answer.given /\ Node.fn = "main" /\ NullAllowed
  BY Deep DEF NullTry, Running, At
<1>2. /\ Sane(Node) /\ Typed /\ Board = Node.pos /\ search_ply = Node.ply /\ Node.ply \in 0 .. MaxPly
      /\ answer \in Answer /\ p \in Positions /\ search_ply + 1 \in Plies
  BY <1>1, Going, Deep, SearchAssumption
<1>3. /\ -Node.beta \in Int /\ -Node.beta + 1 \in Int /\ -Inf <= -Node.beta /\ -Node.beta + 1 <= Inf
      /\ -Node.beta <= -MatedAt(Node.ply + 1) /\ Node.depth - NullReduction \in Nat
      /\ Node.alpha \in Int /\ Node.alpha <= -MatedAt(Node.ply)
  <2>1. NullReduction \in Nat /\ Node.depth >= NullReduction
    <3>1. NullReduction \in {NullMoveReductionBase, NullMoveDeepReduction}
      BY Zenon DEF NullReduction
    <3>. QED  BY <1>1, <3>1, SearchAssumption DEF NullAllowed
  <2>2. Node.alpha \in Int /\ Node.alpha <= -MatedAt(Node.ply)
    BY <1>1, LowAlpha
  <2>3. /\ Node.beta \in Int /\ -Inf <= Node.alpha /\ Node.alpha < Node.beta /\ Node.depth \in Nat
        /\ MatedAt(Node.ply) <= Node.alpha /\ Node.beta < -MatedAt(Node.ply) /\ Node.beta <= Inf
    BY <1>1, Deep
  <2>4. Node.depth - NullReduction \in Nat
    BY <2>1, <2>3
  <2>. QED  BY <1>2, <2>2, <2>3, <2>4, Bands DEF MatedAt
<1>4. /\ answer' = answer /\ Remembered /\ Make(p) /\ Invoke(c, d) /\ Unmoved
  BY DEF NullTry, Aside, Unmoved
<1>5. c \in Frame /\ c.pc = "nulled" /\ Sane(c) /\ Follows(c) /\ c.pos = Node.pos /\ c.ply = Node.ply /\ c.fn = "main"
  <2>1. Node.can_null /\ Node.pos \notin Checked
    BY <1>1, <1>2 DEF NullAllowed
  <2>2. /\ c \in Frame /\ c.pc = "nulled"
        /\ c.fn = Node.fn /\ c.node = Node.node /\ c.alpha = Node.alpha /\ c.beta = Node.beta /\ c.depth = Node.depth
        /\ c.can_null = Node.can_null /\ c.pos = Node.pos /\ c.ply = Node.ply /\ c.original = Node.original /\ c.tt_move = Node.tt_move
        /\ c.veto = Node.veto /\ c.futility = Node.futility /\ c.left = Node.left /\ c.count = Node.count /\ c.best = Node.best
        /\ c.best_move = Node.best_move /\ c.move = Node.move /\ c.failed = Node.failed /\ c.pv = Node.pv
    BY <1>1, Stepped DEF Pcs, Waiting
  <2>. HIDE DEF c
  <2>. QED  BY <1>1, <1>2, <1>3, <2>1, <2>2 DEF Sane, Follows
<1>6. d \in Frame
  BY <1>2, <1>3, CallIsFrame, Zenon
<1>7. d.pos = p /\ d.ply = Node.ply + 1 /\ d.pc = "enter" /\ d.alpha = -Node.beta /\ ~d.can_null /\ Sane(d)
  BY <1>2, <1>3, Bands DEF Call, Sane
<1>. HIDE DEF c, d, p
<1>8. Made(c) = 1 /\ c.pc \in Waiting /\ d.pc \notin Waiting /\ Passes(c, d) /\ d.ply = c.ply + Made(c)
  BY <1>1, <1>2, <1>3, <1>5, <1>7 DEF Made, Waiting, Passes
<1>9. BoardKept /\ search_ply' = d.ply /\ path'[Place(d)] = d.pos
  BY <1>1, <1>2, <1>4, <1>7, ChildPosition DEF Place
<1>. QED  BY <1>1, <1>2, <1>4, <1>5, <1>6, <1>7, <1>8, <1>9, CleanInvoke, Untouched

\* Pruned or passed, the call goes on to its moves.
LEMMA ToTheMoves ==
    ASSUME CleanInv, stack # << >>, Node.fn = "main", Node.pc \in {"null", "nulled"}, NEW c,
           c = [Node EXCEPT !.pc = "loop", !.futility = Futile]
    PROVE  /\ c \in Frame /\ c.pc = "loop" /\ Sane(c) /\ Follows(c) /\ Made(c) = 0
           /\ c.pos = Node.pos /\ c.ply = Node.ply
<1>1. /\ IsFunction(Node) /\ HasFields(Node) /\ FieldsTyped(Node) /\ Sane(Node)
      /\ Node.alpha \in Int /\ Node.alpha <= -MatedAt(Node.ply)
  BY Going, LowAlpha
<1>0. Futile \in BOOLEAN
  BY DEF Futile
<1>2. IsFunction(c) /\ HasFields(c)
  BY <1>1, Zenon DEF IsFunction, HasFields
<1>3. /\ c.pc = "loop" /\ c.futility = Futile
      /\ c.fn = Node.fn /\ c.node = Node.node /\ c.alpha = Node.alpha /\ c.beta = Node.beta /\ c.depth = Node.depth
      /\ c.can_null = Node.can_null /\ c.pos = Node.pos /\ c.ply = Node.ply /\ c.original = Node.original /\ c.tt_move = Node.tt_move
      /\ c.veto = Node.veto /\ c.left = Node.left /\ c.count = Node.count /\ c.best = Node.best /\ c.best_move = Node.best_move
      /\ c.move = Node.move /\ c.failed = Node.failed /\ c.pv = Node.pv
  BY <1>1 DEF HasFields, Fields
<1>4. FieldsTyped(c)
  BY <1>0, <1>1, <1>3 DEF FieldsTyped, Pcs
<1>5. Sane(c) /\ Follows(c) /\ Made(c) = 0
  BY <1>1, <1>3 DEF Sane, Follows, Made
<1>. QED  BY <1>2, <1>3, <1>4, <1>5, FrameIsTyped

LEMMA SkipNullIsClean == ASSUME CleanInv, SkipNull PROVE CleanInv'
<1>1. stack # << >> /\ Node.pc = "null" /\ ~answer.given /\ Node.fn = "main"
  BY Deep DEF SkipNull, Running, At
<1>2. PICK c : c = [Node EXCEPT !.pc = "loop", !.futility = Futile]
  OBVIOUS
<1>3. Resume(c) /\ answer' = answer /\ Remembered /\ OnBoard /\ search_ply' = search_ply
  BY <1>2 DEF SkipNull, OnBoard
<1>4. /\ c \in Frame /\ c.pc = "loop" /\ Sane(c) /\ Follows(c) /\ Made(c) = 0
      /\ c.pos = Node.pos /\ c.ply = Node.ply /\ c.pc \notin Waiting
  BY <1>1, <1>2, ToTheMoves DEF Waiting
<1>5. search_ply' = c.ply + Made(c) /\ search_ply' \in Plies
  BY <1>1, <1>3, <1>4, Going
<1>. QED  BY <1>1, <1>3, <1>4, <1>5, CleanResume, Untouched, OnBoardKeeps

LEMMA OtherSide ==
    ASSUME NEW value \in Int, NEW ply \in Int, Attainable(value, ply + 1)
    PROVE  Attainable(-value, ply)
BY Bands DEF Attainable, MatedAt

LEMMA TakenBack ==
    ASSUME CleanInv, stack # << >>, Node.pc \in {"nulled", "searched"}, answer.given, Unmake
    PROVE  /\ BoardKept /\ search_ply' = Node.ply /\ search_ply' \in Plies /\ -answer.value \in Int
           /\ ~stop => Attainable(-answer.value, search_ply')
<1>1. Made(Node) = 1 /\ search_ply = Node.ply + 1 /\ answer.value \in Int /\ Node.ply \in 0 .. MaxPly
  BY Going DEF Made
<1>2. BoardKept /\ search_ply' = Node.ply
  BY <1>1, UnmadeBoard DEF CleanInv
<1>3. ~stop => Attainable(answer.value, search_ply)
  BY Going
<1>4. Node.ply \in Plies
  <2>1. FieldsTyped(Node)
    BY Going
  <2>. QED  BY <2>1, Zenon DEF FieldsTyped
<1>5. ~stop => Attainable(-answer.value, search_ply')
  BY <1>1, <1>2, <1>3, OtherSide
<1>. QED  BY <1>1, <1>2, <1>4, <1>5

LEMMA NulledIsClean == ASSUME CleanInv, Nulled PROVE CleanInv'
<1>1. stack # << >> /\ Node.pc = "nulled" /\ answer.given /\ Node.fn = "main" /\ Node.alpha \in Int
  BY Deep DEF Nulled, Answered, At
<1>2. /\ BoardKept /\ search_ply' = Node.ply /\ search_ply' \in Plies /\ -answer.value \in Int
      /\ ~stop => Attainable(-answer.value, search_ply')
  BY <1>1, TakenBack DEF Nulled
<1>3. Unmoved /\ TableClean
  BY Untouched DEF Nulled, Aside, Unmoved
<1>4. CASE stop /\ Give(Node.alpha, << >>, TRUE)
  BY <1>1, <1>2, <1>3, <1>4, CleanGive, EmptySeq
<1>5. CASE ~stop /\ Give(-answer.value, << >>, FALSE)
  BY <1>1, <1>2, <1>3, <1>5, CleanGive, EmptySeq
<1>6. ASSUME NEW c, c = [Node EXCEPT !.pc = "loop", !.futility = Futile], Resume(c), answer' = Silent
      PROVE  CleanInv'
  <2>1. /\ c \in Frame /\ c.pc = "loop" /\ Sane(c) /\ Follows(c) /\ Made(c) = 0
        /\ c.pos = Node.pos /\ c.ply = Node.ply /\ c.pc \notin Waiting
    BY <1>1, <1>6, ToTheMoves DEF Waiting
  <2>2. search_ply' = c.ply + Made(c)
    BY <1>1, <1>2, <2>1, Going
  <2>. QED  BY <1>1, <1>2, <1>3, <1>6, <2>1, <2>2, CleanResume
<1>. QED  BY <1>4, <1>5, <1>6 DEF Nulled

-----------------------------------------------------------------------------
(* The moves.                                                                *)

LEMMA PruneQuietIsClean ==
    ASSUME CleanInv, Running("loop"), NEW m, m \in NextMoves, PruneQuiet(m)
    PROVE  CleanInv'
<1>. DEFINE c == [Node EXCEPT !.count = @ + 1, !.left = Tactical(Board) \intersect (@ \ {m})]
<1>1. /\ stack # << >> /\ Node.pc = "loop" /\ ~answer.given /\ Node.count # 0
      /\ Resume(c) /\ answer' = answer /\ Remembered /\ OnBoard /\ search_ply' = search_ply
  BY DEF Running, At, PruneQuiet, FutileMove, OnBoard
<1>2. /\ IsFunction(Node) /\ HasFields(Node) /\ FieldsTyped(Node) /\ Sane(Node) /\ search_ply = Node.ply
      /\ Node.ply \in 0 .. MaxPly /\ search_ply \in Plies
  BY <1>1, Going
<1>3. Node.count + 1 \in Nat /\ Tactical(Board) \intersect (Node.left \ {m}) \in SUBSET Positions
  BY <1>2 DEF FieldsTyped
<1>4. IsFunction(c) /\ HasFields(c)
  BY <1>2, Zenon DEF IsFunction, HasFields
<1>5. /\ c.count = Node.count + 1 /\ c.left = Tactical(Board) \intersect (Node.left \ {m})
      /\ c.fn = Node.fn /\ c.node = Node.node /\ c.alpha = Node.alpha /\ c.beta = Node.beta /\ c.depth = Node.depth
      /\ c.can_null = Node.can_null /\ c.pc = Node.pc /\ c.pos = Node.pos /\ c.ply = Node.ply /\ c.original = Node.original
      /\ c.tt_move = Node.tt_move /\ c.veto = Node.veto /\ c.futility = Node.futility /\ c.best = Node.best /\ c.best_move = Node.best_move
      /\ c.move = Node.move /\ c.failed = Node.failed /\ c.pv = Node.pv
  BY <1>2 DEF HasFields, Fields
<1>. HIDE DEF c
<1>6. FieldsTyped(c)
  BY <1>2, <1>3, <1>5 DEF FieldsTyped
<1>7. Sane(c)
  BY <1>1, <1>2, <1>5 DEF Sane
<1>8. Follows(c) /\ Made(c) = 0 /\ c.pc \notin Waiting /\ search_ply' = c.ply + Made(c)
  BY <1>1, <1>2, <1>5, LowAlpha DEF Follows, Made, Waiting
<1>. QED  BY <1>1, <1>2, <1>4, <1>5, <1>6, <1>7, <1>8, FrameIsTyped, CleanResume, Untouched, OnBoardKeeps

\* What a call asks of the position after its move.
LEMMA AsksIsSane ==
    ASSUME CleanInv, Running("loop"), NEW m \in Positions, NEW reduction \in LmrReductions(m), NEW d,
           \/ Node.fn = "main" /\ d \in {Scout(m, reduction), Full(m)}
           \/ Node.fn # "main" /\ d = Settle(m)
    PROVE  /\ d \in Frame /\ Sane(d) /\ d.pc = "enter" /\ d.pos = m /\ d.ply = Node.ply + 1
           /\ d.fn = "main" => Node.fn = "main" /\ d.alpha <= -MatedAt(d.ply)
<1>1. stack # << >> /\ Node.pc = "loop" /\ ~answer.given
  BY DEF Running, At
<1>2. search_ply = Node.ply /\ Node.ply \in 0 .. MaxPly /\ search_ply + 1 \in Plies /\ Node.node \in {"Pv", "NonPv"}
  BY <1>1, Going, Deep DEF FieldsTyped
<1>3. /\ Node.alpha \in Int /\ Node.beta \in Int /\ -Inf <= Node.alpha /\ Node.alpha < Node.beta /\ Node.beta <= Inf
      /\ Node.depth \in Nat /\ (Node.fn = "main" => Node.depth > 0 /\ MatedAt(Node.ply) <= Node.alpha)
  BY <1>1, Deep
<1>4. CASE Node.fn = "main"
  <2>1. /\ Node.depth - 1 \in Nat /\ Node.depth - 1 - reduction \in Nat /\ -Node.beta \in Int /\ -Node.alpha \in Int
        /\ -Node.alpha - 1 \in Int /\ -Inf <= -Node.beta /\ -Node.beta < -Node.alpha /\ -Node.alpha <= Inf
        /\ -Inf <= -Node.alpha - 1 /\ -Node.beta <= -MatedAt(Node.ply + 1) /\ -Node.alpha - 1 <= -MatedAt(Node.ply + 1)
    <3>1. reduction = 0 \/ reduction \in 1 .. Node.depth - 2
      BY DEF LmrReductions
    <3>2. Node.depth - 1 \in Nat /\ Node.depth - 1 - reduction \in Nat
      BY <1>3, <1>4, <3>1
    <3>3. MatedAt(Node.ply) <= Node.alpha
      BY <1>3, <1>4
    <3>. QED  BY <1>2, <1>3, <3>2, <3>3, Bands DEF MatedAt
  <2>2. CASE d = Full(m)
    <3>1. Full(m) \in Frame
      BY <1>2, <2>1, CallIsFrame, Zenon DEF Full
    <3>. QED  BY <1>2, <1>4, <2>1, <2>2, <3>1, Bands DEF Full, Call, Sane
  <2>3. CASE d = Scout(m, reduction)
    <3>1. Scout(m, reduction) \in Frame
      BY <1>2, <2>1, CallIsFrame, Zenon DEF Scout
    <3>. QED  BY <1>2, <1>4, <2>1, <2>3, <3>1, Bands DEF Scout, Call, Sane
  <2>. QED  BY <1>4, <2>2, <2>3
<1>5. CASE Node.fn # "main"
  <2>1. -Node.beta \in Int /\ -Node.alpha \in Int /\ -Inf <= -Node.beta /\ -Node.beta < -Node.alpha /\ -Node.alpha <= Inf
    BY <1>3, Bands
  <2>2. Settle(m) \in Frame
    BY <1>2, <2>1, CallIsFrame, Zenon DEF Settle
  <2>3. d = Settle(m)
    BY <1>5
  <2>4. Sane(d) /\ d.pc = "enter" /\ d.pos = m /\ d.ply = Node.ply + 1 /\ d.fn # "main"
    BY <1>2, <2>1, <2>3, Bands DEF Settle, Call, Sane
  <2>. QED  BY <2>2, <2>3, <2>4
<1>. QED  BY <1>4, <1>5

\* The call that has made its move.
AfterMove(m, pc) == [Node EXCEPT !.move = m, !.count = @ + 1, !.left = @ \ {m}, !.pc = pc]

LEMMA MovedOn ==
    ASSUME CleanInv, Running("loop"), NEW m \in Positions, NEW pc \in {"scouted", "searched"},
           pc = "scouted" => Node.fn = "main", NEW c,
           c = AfterMove(m, pc)
    PROVE  /\ c \in Frame /\ Sane(c) /\ Follows(c)
           /\ c.pc = pc /\ c.move = m /\ c.count = Node.count + 1 /\ c.left = Node.left \ {m}
           /\ c.fn = Node.fn /\ c.node = Node.node /\ c.alpha = Node.alpha /\ c.beta = Node.beta /\ c.depth = Node.depth
           /\ c.can_null = Node.can_null /\ c.pos = Node.pos /\ c.ply = Node.ply /\ c.original = Node.original /\ c.tt_move = Node.tt_move
           /\ c.veto = Node.veto /\ c.futility = Node.futility /\ c.best = Node.best /\ c.best_move = Node.best_move /\ c.failed = Node.failed
           /\ c.pv = Node.pv
<1>1. stack # << >> /\ Node.pc = "loop"
  BY DEF Running, At
<1>2. IsFunction(Node) /\ HasFields(Node) /\ FieldsTyped(Node) /\ Sane(Node)
  BY <1>1, Going
<1>3. Node.count + 1 \in Nat /\ Node.left \ {m} \in SUBSET Positions /\ m \in Moving /\ m # NullMove
  BY <1>2, SearchAssumption DEF FieldsTyped, Moving
<1>4. IsFunction(c) /\ HasFields(c)
  BY <1>2, Zenon DEF IsFunction, HasFields, AfterMove
<1>5. /\ c.pc = pc /\ c.move = m /\ c.count = Node.count + 1 /\ c.left = Node.left \ {m}
      /\ c.fn = Node.fn /\ c.node = Node.node /\ c.alpha = Node.alpha /\ c.beta = Node.beta /\ c.depth = Node.depth
      /\ c.can_null = Node.can_null /\ c.pos = Node.pos /\ c.ply = Node.ply /\ c.original = Node.original /\ c.tt_move = Node.tt_move
      /\ c.veto = Node.veto /\ c.futility = Node.futility /\ c.best = Node.best /\ c.best_move = Node.best_move /\ c.failed = Node.failed
      /\ c.pv = Node.pv
  BY <1>2 DEF HasFields, Fields, AfterMove
<1>6. FieldsTyped(c)
  BY <1>2, <1>3, <1>5 DEF FieldsTyped, Pcs, Waiting
<1>7. Sane(c)
  BY <1>1, <1>2, <1>3, <1>5 DEF Sane
<1>8. Follows(c)
  BY <1>1, <1>5, LowAlpha DEF Follows
<1>. QED  BY <1>4, <1>5, <1>6, <1>7, <1>8, FrameIsTyped

LEMMA NextIsAPosition ==
    ASSUME CleanInv, stack # << >>, NEW m \in NextMoves
    PROVE  m \in Positions /\ m \in Node.left
<1>1. m \in Node.left
  BY DEF NextMoves
<1>2. FieldsTyped(Node)
  BY Going
<1>. QED  BY <1>1, <1>2 DEF FieldsTyped

\* The searching of a move, by the frames it leaves.
LEMMA MoveSearched ==
    ASSUME CleanInv, Running("loop"), NEW m \in Positions, SearchMove(m)
    PROVE  \E reduction \in LmrReductions(m), pc \in {"scouted", "searched"} : \E c, d :
             /\ pc = "scouted" => Node.fn = "main" /\ d = Scout(m, reduction)
             /\ pc = "searched" => reduction = 0 /\ d = IF Node.fn = "main" THEN Full(m) ELSE Settle(m)
             /\ c = AfterMove(m, pc)
             /\ Invoke(c, d)
<1>. DEFINE call == [Node EXCEPT !.move = m, !.count = @ + 1, !.left = @ \ {m}]
            scouts(reduction) == reduction > 0 \/ (Node.fn = "main" /\ Node.node = "Pv" /\ Node.count > 0)
<1>1. PICK reduction \in LmrReductions(m) :
        IF scouts(reduction)
        THEN Invoke([call EXCEPT !.pc = "scouted"], Scout(m, reduction))
        ELSE Invoke([call EXCEPT !.pc = "searched"], IF Node.fn = "main" THEN Full(m) ELSE Settle(m))
  BY DEF SearchMove
<1>2. \A pc : [call EXCEPT !.pc = pc] = AfterMove(m, pc)
  BY DEF AfterMove
<1>3. reduction \in Nat /\ (reduction > 0 => Node.fn = "main")
  BY DEF LmrReductions, IsLate
<1>4. CASE scouts(reduction)
  <2>1. Node.fn = "main" /\ Invoke([call EXCEPT !.pc = "scouted"], Scout(m, reduction))
    BY <1>1, <1>3, <1>4
  <2>. HIDE DEF call
  <2>. QED  BY <1>2, <2>1
<1>5. CASE ~scouts(reduction)
  <2>1. reduction = 0 /\ Invoke([call EXCEPT !.pc = "searched"], IF Node.fn = "main" THEN Full(m) ELSE Settle(m))
    BY <1>1, <1>3, <1>5
  <2>. HIDE DEF call
  <2>. QED  BY <1>2, <2>1
<1>. QED  BY <1>4, <1>5

LEMMA SearchMoveIsClean ==
    ASSUME CleanInv, Running("loop"), NEW m, m \in NextMoves, SearchMove(m)
    PROVE  CleanInv'
<1>1. stack # << >> /\ Node.pc = "loop" /\ ~answer.given /\ m \in Positions
  BY NextIsAPosition DEF Running, At
<1>1a. PICK reduction \in LmrReductions(m), pc \in {"scouted", "searched"} : \E c, d :
        /\ pc = "scouted" => Node.fn = "main" /\ d = Scout(m, reduction)
        /\ pc = "searched" => reduction = 0 /\ d = IF Node.fn = "main" THEN Full(m) ELSE Settle(m)
        /\ c = AfterMove(m, pc)
        /\ Invoke(c, d)
  BY <1>1, MoveSearched
<1>2. PICK c, d :
        /\ pc = "scouted" => Node.fn = "main" /\ d = Scout(m, reduction)
        /\ pc = "searched" => reduction = 0 /\ d = IF Node.fn = "main" THEN Full(m) ELSE Settle(m)
        /\ c = AfterMove(m, pc)
        /\ Invoke(c, d)
  BY <1>1a
<1>3. /\ c \in Frame /\ Sane(c) /\ Follows(c) /\ c.pc = pc /\ c.pos = Node.pos /\ c.ply = Node.ply /\ c.fn = Node.fn
  BY <1>1, <1>2, MovedOn
<1>4. /\ d \in Frame /\ Sane(d) /\ d.pc = "enter" /\ d.pos = m /\ d.ply = Node.ply + 1
      /\ d.fn = "main" => Node.fn = "main" /\ d.alpha <= -MatedAt(d.ply)
  BY <1>1, <1>2, AsksIsSane
<1>5. Made(c) = 1 /\ c.pc \in Waiting /\ c.pc # "nulled" /\ d.pc \notin Waiting
  BY <1>3, <1>4 DEF Made, Waiting
<1>6. Passes(c, d) /\ d.ply = c.ply + Made(c)
  BY <1>3, <1>4, <1>5 DEF Passes
<1>7. Make(m) /\ Unmoved /\ Remembered /\ answer' = answer
  BY DEF SearchMove, Aside, Unmoved
<1>8. BoardKept /\ search_ply' = d.ply /\ path'[Place(d)] = d.pos
  BY <1>1, <1>4, <1>7, ChildPosition DEF Place
<1>9. answer \in Answer
  BY <1>1, Going
<1>. QED  BY <1>1, <1>2, <1>3, <1>4, <1>5, <1>6, <1>7, <1>8, <1>9, CleanInvoke, Untouched

LEMMA PickMoveIsClean == ASSUME CleanInv, PickMove PROVE CleanInv'
BY PruneQuietIsClean, SearchMoveIsClean DEF PickMove

LEMMA ScoutedIsClean == ASSUME CleanInv, Scouted PROVE CleanInv'
<1>. DEFINE c == [Node EXCEPT !.pc = "searched"]
            d == Call("main", Node.node, -Node.beta, -Node.alpha, Node.depth - 1, TRUE, Board, search_ply)
<1>1. stack # << >> /\ Node.pc = "scouted" /\ answer.given /\ Node.fn = "main" /\ Node.alpha <= -MatedAt(Node.ply)
  <2>1. stack # << >> /\ Node.pc = "scouted" /\ answer.given
    BY DEF Scouted, Answered, At
  <2>. QED  BY <2>1, Deep, LowAlpha
<1>2. /\ Sane(Node) /\ Typed /\ search_ply = Node.ply + 1 /\ Node.ply \in 0 .. MaxPly /\ search_ply \in Plies
      /\ Node.node \in {"Pv", "NonPv"} /\ Made(Node) = 1
  BY <1>1, Going DEF Made, FieldsTyped
<1>3. OnBoard /\ Remembered /\ search_ply' = search_ply /\ path' = path
  BY DEF Scouted, OnBoard
<1>4. /\ c \in Frame /\ c.pc = "searched" /\ Sane(c) /\ Follows(c) /\ c.pos = Node.pos /\ c.ply = Node.ply
      /\ c.fn = "main"
  <2>1. /\ c \in Frame /\ c.pc = "searched"
        /\ c.fn = Node.fn /\ c.node = Node.node /\ c.alpha = Node.alpha /\ c.beta = Node.beta /\ c.depth = Node.depth
        /\ c.can_null = Node.can_null /\ c.pos = Node.pos /\ c.ply = Node.ply /\ c.original = Node.original /\ c.tt_move = Node.tt_move
        /\ c.veto = Node.veto /\ c.futility = Node.futility /\ c.left = Node.left /\ c.count = Node.count /\ c.best = Node.best
        /\ c.best_move = Node.best_move /\ c.move = Node.move /\ c.failed = Node.failed /\ c.pv = Node.pv
    BY <1>1, Stepped DEF Pcs, Waiting
  <2>. HIDE DEF c
  <2>. QED  BY <1>1, <1>2, <2>1 DEF Sane, Follows
<1>5. Made(c) = 1 /\ c.pc \in Waiting /\ c.pc # "nulled" /\ search_ply' = c.ply + Made(c)
  <2>. HIDE DEF c
  <2>. QED  BY <1>2, <1>3, <1>4 DEF Made, Waiting
<1>6. CASE answer' = answer /\ Resume(c)
  <2>. HIDE DEF c
  <2>. QED  BY <1>1, <1>2, <1>3, <1>4, <1>5, <1>6, CleanResume, Untouched, OnBoardKeeps
<1>7. CASE answer' = Silent /\ Invoke(c, d)
  <2>1. /\ -Node.beta \in Int /\ -Node.alpha \in Int /\ Node.depth - 1 \in Nat
        /\ -Inf <= -Node.beta /\ -Node.beta < -Node.alpha /\ -Node.alpha <= Inf
        /\ -Node.beta <= -MatedAt(Node.ply + 1)
    <3>1. /\ Node.alpha \in Int /\ Node.beta \in Int /\ -Inf <= Node.alpha /\ Node.alpha < Node.beta /\ Node.beta <= Inf
          /\ Node.depth \in Nat /\ Node.depth > 0 /\ MatedAt(Node.ply) <= Node.alpha
      BY <1>1, Deep
    <3>. QED  BY <1>2, <3>1, Bands DEF MatedAt
  <2>2. Board \in Positions /\ Board = path[Len(path)]
    BY Here DEF CleanInv
  <2>3. d \in Frame
    BY <1>2, <2>1, <2>2, CallIsFrame, Zenon
  <2>4. /\ d.pos = Board /\ d.ply = search_ply /\ d.pc = "enter" /\ d.alpha = -Node.beta /\ Sane(d)
    BY <1>2, <2>1, Bands DEF Call, Sane
  <2>. HIDE DEF c, d
  <2>5. Passes(c, d) /\ d.pc \notin Waiting /\ d.ply = c.ply + Made(c) /\ search_ply' = d.ply
    BY <1>2, <1>3, <1>4, <1>5, <2>1, <2>4 DEF Passes, Waiting
  <2>6. path'[Place(d)] = d.pos
    BY <1>3, <2>2, <2>4 DEF CleanInv, Nested, Place
  <2>. QED  BY <1>1, <1>2, <1>3, <1>4, <1>5, <1>7, <2>3, <2>4, <2>5, <2>6, CleanInvoke, Untouched,
               OnBoardKeeps, SilentIsAnswer
<1>. QED  BY <1>6, <1>7 DEF Scouted

LEMMA LineIsPositions ==
    ASSUME CleanInv, stack # << >>, Node.pc = "searched"
    PROVE  Line \in Seq(Positions) /\ Node.move \in Positions
<1>1. Node.move \in Positions
  <2>1. Node.move \in Moving /\ Node.move # NullMove
    BY Going, Zenon DEF FieldsTyped, Sane
  <2>. QED  BY <2>1 DEF Moving
<1>2. answer.pv \in Seq(Positions)
  BY Going
<1>. QED  BY <1>1, <1>2, EmptySeq DEF Line

LEMMA SearchedIsClean == ASSUME CleanInv, Searched PROVE CleanInv'
<1>. DEFINE value == -answer.value
<1>1. stack # << >> /\ Node.pc = "searched" /\ answer.given /\ Unmake /\ Unmoved
  BY DEF Searched, Answered, At, Aside, Unmoved
<1>2. /\ BoardKept /\ search_ply' = Node.ply /\ search_ply' \in Plies /\ value \in Int
      /\ ~stop => Attainable(value, search_ply')
  BY <1>1, TakenBack
<1>3. Node.alpha \in Int /\ Node.beta \in Int /\ Node.depth \in Nat /\ -Inf <= Node.alpha /\ Node.alpha < Node.beta
  BY <1>1, Deep
<1>4. Line \in Seq(Positions) /\ Node.move \in Positions
  BY <1>1, LineIsPositions
<1>5. /\ Typed /\ Sane(Node) /\ IsFunction(Node) /\ HasFields(Node) /\ FieldsTyped(Node) /\ Node.pos \in Positions
      /\ Node.ply \in 0 .. MaxPly
  BY <1>1, Going, Zenon DEF FieldsTyped
<1>. HIDE DEF value
<1>6. CASE stop /\ Give(Node.alpha, << >>, TRUE) /\ Remembered
  BY <1>1, <1>2, <1>3, <1>6, CleanGive, Untouched, EmptySeq
<1>7. CASE ~stop /\ BetaCutoff(value)
  <2>1. StoreIn(Node.pos, Node.move, value, Node.depth, "Lower") /\ Give(value, Line, FALSE)
    BY <1>7 DEF BetaCutoff
  <2>2. TableClean
    BY <1>2, <1>3, <1>4, <1>5, <1>7, <2>1, StoreKeeps DEF Moving
  <2>. QED  BY <1>1, <1>2, <1>4, <1>7, <2>1, <2>2, CleanGive
<1>8. CASE ~stop /\ KeepBest(value)
  <2>. DEFINE c == [Node EXCEPT
                      !.pc = "loop",
                      !.failed = IF MalusAllowed /\ IsQuiet(Node.pos, Node.move)
                                    /\ Node.move \notin {Node.tt_move, Killer[Node.pos]}
                                 THEN @ \union {Node.move} ELSE @,
                      !.best = MaxOf(@, value),
                      !.best_move = IF value > Node.best THEN Node.move ELSE @,
                      !.alpha = MaxOf(@, value),
                      !.pv = IF value > Node.best /\ value > Node.alpha THEN Line ELSE @]
  <2>1. value < Node.beta /\ answer' = Silent /\ Resume(c) /\ Remembered
    BY <1>8 DEF KeepBest
  <2>2. IsFunction(c) /\ HasFields(c)
    BY <1>5, Zenon DEF IsFunction, HasFields
  <2>3. /\ c.pc = "loop" /\ c.best = MaxOf(Node.best, value) /\ c.alpha = MaxOf(Node.alpha, value)
        /\ c.best_move \in {Node.best_move, Node.move} /\ c.pv \in {Line, Node.pv}
        /\ c.failed \in {Node.failed, Node.failed \union {Node.move}}
        /\ c.fn = Node.fn /\ c.node = Node.node /\ c.beta = Node.beta /\ c.depth = Node.depth /\ c.can_null = Node.can_null
        /\ c.pos = Node.pos /\ c.ply = Node.ply /\ c.original = Node.original /\ c.tt_move = Node.tt_move /\ c.veto = Node.veto
        /\ c.futility = Node.futility /\ c.left = Node.left /\ c.count = Node.count /\ c.move = Node.move
    BY <1>5 DEF HasFields, Fields
  <2>. HIDE DEF c
  <2>4. c.alpha \in Int /\ Node.alpha <= c.alpha /\ c.alpha < Node.beta /\ c.best \in Int
    <3>1. Node.best \in Int
      BY <1>5, Zenon DEF FieldsTyped
    <3>. QED  BY <1>2, <1>3, <2>1, <2>3, <3>1 DEF MaxOf
  <2>5. FieldsTyped(c)
    <3>1. /\ c.best_move \in Moving /\ c.failed \in SUBSET Positions /\ c.pv \in Seq(Positions)
      BY <1>4, <1>5, <2>3 DEF FieldsTyped, Moving
    <3>. QED  BY <1>5, <2>3, <2>4, <3>1 DEF FieldsTyped, Pcs
  <2>6. Attainable(c.best, c.ply) /\ c.best # -Inf
    <3>1. Node.best \in Int /\ (Node.best = -Inf \/ Attainable(Node.best, Node.ply))
      BY <1>5, Zenon DEF FieldsTyped, Sane
    <3>2. Attainable(value, Node.ply) /\ value > -Inf
      BY <1>2, <1>5, <1>8, Bands DEF Attainable, MatedAt
    <3>. QED  BY <1>2, <1>5, <2>3, <3>1, <3>2, Bands DEF MaxOf, Attainable, MatedAt
  <2>7. Sane(c)
    <3>1. Node.fn = "main" => Node.depth > 0 /\ MatedAt(Node.ply) <= c.alpha /\ c.beta < -MatedAt(c.ply)
      <4>1. Node.fn = "main" => Node.depth > 0 /\ MatedAt(Node.ply) <= Node.alpha /\ Node.beta < -MatedAt(Node.ply)
        BY <1>1, Deep
      <4>. QED  BY <1>3, <1>5, <2>3, <2>4, <4>1, Bands DEF MatedAt
    <3>2. -Inf <= c.alpha
      BY <1>3, <2>4, Bands
    <3>. QED  BY <1>1, <1>5, <2>3, <2>4, <2>6, <3>1, <3>2 DEF Sane
  <2>8. Follows(c) /\ Made(c) = 0 /\ c.pc \notin Waiting /\ search_ply' = c.ply + Made(c)
    <3>1. Node.fn = "main" => c.alpha <= -MatedAt(c.ply)
      BY SMTT(20), <1>1, <1>3, <1>5, <2>3, <2>4, Deep, Bands DEF MatedAt
    <3>. QED  BY <1>2, <1>5, <2>3, <3>1 DEF Follows, Made, Waiting
  <2>. QED  BY <1>1, <1>2, <2>1, <2>2, <2>3, <2>5, <2>7, <2>8, FrameIsTyped, CleanResume, Untouched
<1>. QED  BY <1>6, <1>7, <1>8 DEF Searched, value

LEMMA EndMovesIsClean == ASSUME CleanInv, EndMoves PROVE CleanInv'
<1>1. stack # << >> /\ Node.pc = "loop" /\ ~answer.given /\ OnBoard /\ search_ply' = search_ply
  BY DEF EndMoves, Running, At, OnBoard
<1>2. /\ Typed /\ Sane(Node) /\ Board = Node.pos /\ Board \in Positions /\ search_ply = Node.ply
      /\ search_ply \in Plies /\ search_ply \in 0 .. MaxPly /\ FieldsTyped(Node)
  BY <1>1, Going
<1>3. Node.best \in Int /\ Node.depth \in Nat /\ Node.best_move \in Moving /\ Node.pv \in Seq(Positions)
  BY <1>2, Zenon DEF FieldsTyped
<1>4. CASE Terminal
  <2>. DEFINE value == IF Board \in Checked THEN MatedAt(search_ply) ELSE 0
  <2>1. Give(value, << >>, FALSE) /\ StoreIn(Board, NullMove, value, Node.depth, "Exact")
    BY <1>4 DEF EndMoves
  <2>2. value \in Int /\ Attainable(value, search_ply) /\ NullMove \in Moving
    BY <1>2, Bands DEF Attainable, MatedAt, Moving
  <2>. HIDE DEF value
  <2>3. TableClean
    BY <1>1, <1>2, <1>3, <2>1, <2>2, StoreKeeps
  <2>. QED  BY <1>1, <1>2, <2>1, <2>2, <2>3, CleanGive, OnBoardKeeps, EmptySeq
<1>5. CASE ~Terminal
  <2>. DEFINE bound == BoundForWindow(Node.best, Node.original, Node.beta)
  <2>1. Give(Node.best, Node.pv, FALSE) /\ StoreIn(Board, Node.best_move, Node.best, Node.depth, bound)
    BY <1>5 DEF EndMoves
  <2>2. bound \in {"Exact", "Lower", "Upper"}
    BY DEF BoundForWindow
  <2>3. Attainable(Node.best, search_ply)
    BY <1>1, <1>2, <1>5 DEF Sane, Terminal
  <2>. HIDE DEF bound
  <2>4. TableClean
    BY <1>1, <1>2, <1>3, <2>1, <2>2, <2>3, StoreKeeps
  <2>. QED  BY <1>1, <1>2, <1>3, <2>1, <2>3, <2>4, CleanGive, OnBoardKeeps
<1>. QED  BY <1>4, <1>5

-----------------------------------------------------------------------------
(* What holds whatever is pruned.                                            *)

LEMMA InitIsClean == Init => CleanInv
<1>. SUFFICES ASSUME Init PROVE CleanInv
  OBVIOUS
<1>. USE DEF Init
<1>1. Root \in Positions /\ FirstPly \in Plies /\ FirstPly \in Nat
  BY SearchAssumption, Bands DEF Plies
<1>2. asked \in Frame
  <2>1. 0 \in Int /\ 0 \in Nat
    OBVIOUS
  <2>. QED  BY <1>1, <2>1, CallIsFrame, Zenon
<1>3. tt \in [Positions -> Record]
  <2>1. NoRecord \in Record
    BY Bands DEF NoRecord, Record, Moving
  <2>. QED  BY <2>1
<1>4. Typed
  <2>1. path \in Seq(Positions) /\ stack \in Seq(Frame)
    BY <1>1, EmptySeq
  <2>2. answer \in Answer
    BY SilentIsAnswer
  <2>3. setting \in Settings /\ evaluation \in setting.evaluations /\ stop \in BOOLEAN /\ calls \in Nat
    OBVIOUS
  <2>. QED  BY <1>1, <1>2, <1>3, <2>1, <2>2, <2>3 DEF Typed
<1>5. Nested
  BY <1>1 DEF Nested, Place
<1>6. Bounded
  BY DEF Bounded, NoSentinelStored, NoRecord
<1>7. StopAborts
  BY DEF StopAborts
<1>. QED  BY <1>4, <1>5, <1>6, <1>7 DEF CleanInv

LEMMA NextIsClean == ASSUME CleanInv, [Next]_vars PROVE CleanInv'
<1>1. CASE UNCHANGED vars
  BY <1>1 DEF vars, CleanInv, Typed, Nested, Bounded, StopAborts, Node, Last, Place, Made, Sane,
     Passes, Attainable, NoSentinelStored
<1>2. CASE Next
  BY <1>2, AskIsClean, RequestStopIsClean, AbortIsClean, ExitIsClean, DropToQuiescenceIsClean,
     MateDistanceIsClean, TakeTtScoreIsClean, OpenMainIsClean, StandPatCutoffIsClean,
     OpenQuiescenceIsClean, RazorIsClean, RazoredIsClean, NullTryIsClean, SkipNullIsClean,
     NulledIsClean, PickMoveIsClean, ScoutedIsClean, SearchedIsClean, EndMovesIsClean DEF Next
<1>. QED  BY <1>1, <1>2

LEMMA CleanIsEnough == CleanInv => PruningIsClean
<1>. SUFFICES ASSUME CleanInv PROVE PruningIsClean
  OBVIOUS
<1>1. BoardRestored
  <2>1. stack = << >> => path = <<Root>> /\ search_ply = FirstPly
    <3>1. Len(path) = search_ply - FirstPly + 1 /\ path[1] = Root /\ (stack = << >> => search_ply = FirstPly)
      BY DEF CleanInv, Nested
    <3>2. stack = << >> => Len(path) = 1
      BY <3>1, Bands
    <3>. QED  BY <3>1, <3>2 DEF CleanInv, Typed
  <2>. QED  BY <2>1, Here DEF BoardRestored, CleanInv
<1>2. NoSentinelStored
  BY DEF CleanInv, Bounded
<1>3. NullMovesAreFair
  <2>1. ASSUME NEW i \in 1 .. Len(stack), stack[i].pc = "nulled"
        PROVE  stack[i].pos \notin Checked /\ (i > 1 => stack[i - 1].pc # "nulled")
    <3>1. Sane(stack[i])
      BY DEF CleanInv, Bounded
    <3>2. ASSUME i > 1
          PROVE  Passes(stack[i - 1], stack[i])
      <4>1. i - 1 \in 1 .. Len(stack) - 1 /\ i - 1 + 1 = i
        BY <3>2 DEF CleanInv, Typed
      <4>. QED  BY <4>1 DEF CleanInv, Bounded
    <3>. QED  BY <2>1, <3>1, <3>2 DEF Sane, Passes
  <2>. QED  BY <2>1 DEF NullMovesAreFair
<1>. QED  BY <1>1, <1>2, <1>3 DEF PruningIsClean

\* With every kind of pruning, and a stop at any moment, the board comes back,
\* no sentinel is stored and no side passes in check or twice (PruningIsClean:
\* alphabeta, quiescence).
THEOREM SearchStaysClean == Spec => []PruningIsClean
BY InitIsClean, NextIsClean, CleanIsEnough, PTL DEF Spec

\* An aborted answer goes up and leaves nothing behind: the step is one of those
\* that look at the stop.
LEMMA AbortGoesUp ==
    ASSUME CleanInv, Next, answer.given, answer.aborted, stack # << >>
    PROVE  answer'.given /\ answer'.aborted /\ UNCHANGED <<tt, learned>>
<1>1. stop
  BY DEF CleanInv, StopAborts
<1>2. ASSUME NEW value, NEW pv, Give(value, pv, TRUE)
      PROVE  answer'.given /\ answer'.aborted
  BY <1>2 DEF Give
<1>3. ~Entering /\ \A pc : ~Running(pc)
  BY DEF Entering, Running
<1>4. ~(Abort \/ Exit \/ DropToQuiescence \/ MateDistance \/ TakeTtScore \/ OpenMain \/ StandPatCutoff
        \/ OpenQuiescence)
  BY <1>3 DEF Abort, Exit, DropToQuiescence, MateDistance, TakeTtScore, OpenMain, StandPatCutoff,
     OpenQuiescence, Probing, Searching
<1>5. ~(Razor \/ NullTry \/ SkipNull \/ PickMove \/ EndMoves)
  BY <1>3, Zenon DEF Razor, NullTry, SkipNull, PickMove, EndMoves
<1>6. CASE RequestStop
  BY <1>1, <1>6 DEF RequestStop
<1>7. CASE Razored
  BY <1>1, <1>2, <1>7 DEF Razored, Remembered
<1>8. CASE Nulled
  BY <1>1, <1>2, <1>8 DEF Nulled, Remembered
<1>9. CASE Scouted
  BY <1>1, <1>9 DEF Scouted, Remembered
<1>10. CASE Searched
  BY <1>1, <1>2, <1>10 DEF Searched, Remembered
<1>11. \A window, depth, node : ~Ask(window, depth, node)
  BY DEF Ask
<1>. QED  BY <1>4, <1>5, <1>6, <1>7, <1>8, <1>9, <1>10, <1>11 DEF Next

\* An aborted answer unwinds to root search: no frame goes on with it, stores a
\* score or teaches the ordering (the checks of stop_requested).
THEOREM StopUnwinds == Spec => AbortUnwinds
<1>1. CleanInv /\ [Next]_vars =>
        [answer.given /\ answer.aborted /\ stack # << >> =>
           answer'.given /\ answer'.aborted /\ UNCHANGED <<tt, learned>>]_vars
  BY AbortGoesUp
<1>. QED  BY <1>1, InitIsClean, NextIsClean, PTL DEF Spec, AbortUnwinds

-----------------------------------------------------------------------------
(* The game's values: the recursive function exists, satisfies its equation   *)
(* and stays inside the band of its ply.                                      *)

LEMMA LeastNumber ==
    ASSUME NEW T \in SUBSET Nat, T # {}
    PROVE  \E x \in T : \A y \in T : x <= y
<1>1. IsWellFoundedOn(OpToRel(<, Nat), Nat)
  BY NatLessThanWellFounded
<1>2. \A i, j \in Nat : i < j => <<i, j>> \in OpToRel(<, Nat)
  BY DEF OpToRel
<1>3. PICK x \in T : \A y \in T : ~(<<y, x>> \in OpToRel(<, Nat))
  <2>. HIDE DEF OpToRel
  <2>. QED  BY <1>1, WFMin
<1>4. ASSUME NEW y \in T
      PROVE  x <= y
  <2>1. x \in Nat /\ y \in Nat /\ ~(y < x)
    BY <1>2, <1>3
  <2>. QED  BY <2>1
<1>. QED  BY <1>4

\* The values of the plies up to n from the last.
Table(f, eval, n) ==
    \A left \in 0 .. n :
        f[left] = IF left = 0 THEN Horizon(eval) ELSE Backed(eval, f[left - 1], left)

LEMMA TableExists == ASSUME NEW eval, NEW n \in Nat PROVE \E f : Table(f, eval, n)
<1>. DEFINE Bad == {k \in Nat : ~ \E f : Table(f, eval, k)}
<1>. SUFFICES ASSUME Bad # {} PROVE FALSE
  OBVIOUS
<1>1. PICK k \in Bad : \A j \in Bad : k <= j
  <2>. Bad \in SUBSET Nat
    OBVIOUS
  <2>. HIDE DEF Bad
  <2>. QED  BY LeastNumber
<1>2. CASE k = 0
  <2>. Table([i \in 0 .. 0 |-> Horizon(eval)], eval, 0)
    BY DEF Table
  <2>. QED  BY <1>2
<1>3. CASE k # 0
  <2>1. k - 1 \in Nat /\ k - 1 \notin Bad
    BY <1>1, <1>3
  <2>2. PICK f : Table(f, eval, k - 1)
    BY <2>1
  <2>. DEFINE g == [i \in 0 .. k |-> IF i = k THEN Backed(eval, f[k - 1], k) ELSE f[i]]
  <2>3. ASSUME NEW i \in 0 .. k
        PROVE  g[i] = IF i = 0 THEN Horizon(eval) ELSE Backed(eval, g[i - 1], i)
    <3>1. CASE i = k
      <4>1. g[i] = Backed(eval, f[k - 1], k)
        BY <3>1
      <4>2. k - 1 \in 0 .. k /\ k - 1 # k
        BY <1>3
      <4>3. g[k - 1] = f[k - 1]
        BY <4>2
      <4>. HIDE DEF g
      <4>. QED  BY <1>3, <3>1, <4>1, <4>3
    <3>2. CASE i # k
      <4>1. i \in 0 .. k - 1
        BY <3>2
      <4>2. g[i] = f[i]
        BY <3>2
      <4>3. i # 0 => i - 1 \in 0 .. k /\ i - 1 # k
        BY <4>1
      <4>4. i # 0 => g[i - 1] = f[i - 1]
        BY <4>3
      <4>. HIDE DEF g
      <4>. QED  BY <2>2, <4>1, <4>2, <4>4 DEF Table
    <3>. QED  BY <3>1, <3>2
  <2>4. Table(g, eval, k)
    <3>. HIDE DEF g
    <3>. QED  BY <2>3 DEF Table
  <2>. QED  BY <2>4
<1>. QED  BY <1>2, <1>3

LEMMA TableUnique ==
    ASSUME NEW eval, NEW n \in Nat, NEW f, NEW g, Table(f, eval, n), Table(g, eval, n)
    PROVE  f[n] = g[n]
<1>. DEFINE Bad == {k \in 0 .. n : f[k] # g[k]}
<1>. SUFFICES ASSUME Bad # {} PROVE FALSE
  OBVIOUS
<1>1. PICK k \in Bad : \A j \in Bad : k <= j
  <2>. Bad \in SUBSET Nat
    OBVIOUS
  <2>. HIDE DEF Bad
  <2>. QED  BY LeastNumber
<1>2. k # 0 => k - 1 \in 0 .. n /\ k - 1 \notin Bad
  BY <1>1
<1>3. k # 0 => f[k - 1] = g[k - 1]
  BY <1>2
<1>. QED  BY <1>1, <1>3 DEF Table

LEMMA MinimaxExists ==
    ASSUME NEW eval
    PROVE  \E f : f = [left \in Nat |-> IF left = 0 THEN Horizon(eval) ELSE Backed(eval, f[left - 1], left)]
<1>. DEFINE T(n) == CHOOSE f : Table(f, eval, n)
<1>1. \A n \in Nat : Table(T(n), eval, n)
  BY TableExists
<1>. DEFINE f == [left \in Nat |-> T(left)[left]]
<1>. HIDE DEF T
<1>2. ASSUME NEW left \in Nat
      PROVE  f[left] = IF left = 0 THEN Horizon(eval) ELSE Backed(eval, f[left - 1], left)
  <2>1. T(left)[left] = IF left = 0 THEN Horizon(eval) ELSE Backed(eval, T(left)[left - 1], left)
    BY <1>1 DEF Table
  <2>2. CASE left # 0
    <3>1. left - 1 \in Nat
      BY <2>2
    <3>2. Table(T(left), eval, left - 1)
      BY <1>1, <2>2 DEF Table
    <3>3. T(left)[left - 1] = T(left - 1)[left - 1]
      BY <1>1, <3>1, <3>2, TableUnique
    <3>4. f[left] = T(left)[left] /\ f[left - 1] = T(left - 1)[left - 1]
      BY <3>1
    <3>. HIDE DEF f
    <3>. QED  BY <2>1, <2>2, <3>3, <3>4
  <2>3. CASE left = 0
    BY <2>1, <2>3
  <2>. QED  BY <2>2, <2>3
<1>3. f = [left \in Nat |-> f[left]]
  OBVIOUS
<1>. HIDE DEF f
<1>4. f = [left \in Nat |-> IF left = 0 THEN Horizon(eval) ELSE Backed(eval, f[left - 1], left)]
  BY <1>2, <1>3
<1>. QED  BY <1>4

LEMMA MinimaxEquation ==
    ASSUME NEW eval, NEW left \in Nat
    PROVE  Minimax(eval)[left] = IF left = 0 THEN Horizon(eval) ELSE Backed(eval, Minimax(eval)[left - 1], left)
<1>1. Minimax(eval) = CHOOSE f : f = [l \in Nat |-> IF l = 0 THEN Horizon(eval) ELSE Backed(eval, f[l - 1], l)]
  BY DEF Minimax
<1>2. Minimax(eval) = [l \in Nat |-> IF l = 0 THEN Horizon(eval) ELSE Backed(eval, Minimax(eval)[l - 1], l)]
  BY <1>1, MinimaxExists
<1>. HIDE DEF Minimax
<1>. QED  BY <1>2

LEMMA MaxOfScores ==
    ASSUME NEW S \in SUBSET Int, S # {}, NEW b \in Int, \A x \in S : x <= b
    PROVE  Max(S) \in S /\ \A x \in S : x <= Max(S)
<1>. DEFINE T == {b - x : x \in S}
<1>1. T \in SUBSET Nat /\ T # {}
  <2>1. \A x \in S : b - x \in Nat
    OBVIOUS
  <2>. QED  BY <2>1
<1>2. PICK k \in T : \A j \in T : k <= j
  <2>. HIDE DEF T
  <2>. QED  BY <1>1, LeastNumber
<1>3. PICK y \in S : k = b - y
  BY <1>2
<1>4. \A x \in S : x <= y
  BY <1>2, <1>3
<1>5. \E x \in S : \A z \in S : x >= z
  BY <1>3, <1>4
<1>6. Max(S) \in S /\ \A z \in S : Max(S) >= z
  BY <1>5 DEF Max
<1>. QED  BY <1>6

-----------------------------------------------------------------------------
(* The value of a position, one ply from those of its moves.                 *)

Clamped(depth) == IF depth < 0 THEN 0 ELSE depth
Scored(eval) == eval \in [Positions -> 1 - TtMateBound .. TtMateBound - 1]
MoveValues(eval, p, depth, ply) ==
    {-Value(eval, m, depth - 1, ply + 1) : m \in Replies(p, depth)}
        \union (IF Resting(p, depth) THEN {eval[p]} ELSE {})

LEMMA ValueByDepth ==
    ASSUME NEW eval, NEW p, NEW ply, NEW d \in Int, NEW e \in Int, Clamped(d) = Clamped(e)
    PROVE  Value(eval, p, d, ply) = Value(eval, p, e, ply)
BY DEF Value, Clamped

LEMMA HorizonAt ==
    ASSUME NEW eval, NEW p \in Positions, NEW depth \in Nat
    PROVE  Horizon(eval)[p][depth] = IF p \in Drawn THEN 0 ELSE eval[p]
BY DEF Horizon

ValuesBelow(eval, below, p, depth) ==
    {-below[m][IF depth = 0 THEN 0 ELSE depth - 1] : m \in Replies(p, depth)}
        \union (IF Resting(p, depth) THEN {eval[p]} ELSE {})

LEMMA BackedAt ==
    ASSUME NEW eval, NEW below, NEW left, NEW p \in Positions, NEW depth \in Nat
    PROVE  Backed(eval, below, left)[p][depth] =
             IF p \in Drawn THEN 0
             ELSE IF ValuesBelow(eval, below, p, depth) # {} THEN Max(ValuesBelow(eval, below, p, depth))
             ELSE IF p \in Checked THEN MatedAt(MaxPly - left) ELSE 0
BY DEF Backed, ValuesBelow

LEMMA ValueAtLastPly ==
    ASSUME NEW eval, NEW p \in Positions, NEW depth \in Nat
    PROVE  Value(eval, p, depth, MaxPly) = IF p \in Drawn THEN 0 ELSE eval[p]
<1>1. Minimax(eval)[0] = Horizon(eval) /\ MaxPly - MaxPly = 0
  BY MinimaxEquation, Bands
<1>2. Value(eval, p, depth, MaxPly) = Minimax(eval)[MaxPly - MaxPly][p][depth]
  BY DEF Value
<1>. QED  BY <1>1, <1>2, HorizonAt

LEMMA ValueFromMoves ==
    ASSUME NEW eval, NEW p \in Positions, NEW depth \in Nat, NEW ply \in 0 .. MaxPly - 1
    PROVE  Value(eval, p, depth, ply) =
             LET values == MoveValues(eval, p, depth, ply) IN
             IF p \in Drawn THEN 0
             ELSE IF values # {} THEN Max(values)
             ELSE IF p \in Checked THEN MatedAt(ply) ELSE 0
<1>. DEFINE left == MaxPly - ply
            next == IF depth = 0 THEN 0 ELSE depth - 1
            below == Minimax(eval)[left - 1]
<1>1. /\ left \in Nat /\ left # 0 /\ MaxPly - left = ply /\ left - 1 = MaxPly - (ply + 1)
      /\ next = Clamped(depth - 1) /\ depth = Clamped(depth)
  BY Bands DEF Clamped
<1>2. Minimax(eval)[left] = Backed(eval, below, left)
  <2>. HIDE DEF left
  <2>. QED  BY <1>1, MinimaxEquation
<1>3. \A m : Value(eval, m, depth - 1, ply + 1) = below[m][next]
  <2>. HIDE DEF left, next
  <2>1. \A m : Value(eval, m, depth - 1, ply + 1) = Minimax(eval)[MaxPly - (ply + 1)][m][Clamped(depth - 1)]
    BY DEF Value, Clamped
  <2>. QED  BY <1>1, <2>1
<1>4. Value(eval, p, depth, ply) = Backed(eval, below, left)[p][depth]
  <2>1. Value(eval, p, depth, ply) = Minimax(eval)[left][p][Clamped(depth)]
    BY DEF Value, Clamped
  <2>. HIDE DEF left, below
  <2>. QED  BY <1>1, <1>2, <2>1
<1>5. MoveValues(eval, p, depth, ply) = ValuesBelow(eval, below, p, depth)
  <2>. HIDE DEF below
  <2>. QED  BY <1>3 DEF MoveValues, ValuesBelow
<1>. HIDE DEF left, below, next
<1>. QED  BY <1>1, <1>4, <1>5, BackedAt

\* No better than the mate that is a ply away, no worse than mated.
InBand(value, ply) == value \in Int /\ MatedAt(ply) <= value /\ value <= Mate - ply - 1

LEMMA RepliesArePositions ==
    ASSUME NEW p \in Positions, NEW depth
    PROVE  Replies(p, depth) \in SUBSET Moves[p] /\ Moves[p] \in SUBSET Positions
BY SearchAssumption DEF Replies, Tactical

LEMMA MoveValuesInBand ==
    ASSUME NEW eval, Scored(eval), NEW p \in Positions, NEW depth \in Nat, NEW ply \in 0 .. MaxPly - 1,
           \A q \in Positions, d \in Nat : InBand(Value(eval, q, d, ply + 1), ply + 1)
    PROVE  \A value \in MoveValues(eval, p, depth, ply) : InBand(value, ply)
<1>1. ASSUME NEW m \in Replies(p, depth)
      PROVE  InBand(-Value(eval, m, depth - 1, ply + 1), ply)
  <2>1. m \in Positions
    BY RepliesArePositions
  <2>2. Clamped(depth - 1) \in Nat /\ Clamped(Clamped(depth - 1)) = Clamped(depth - 1)
    BY DEF Clamped
  <2>3. Value(eval, m, depth - 1, ply + 1) = Value(eval, m, Clamped(depth - 1), ply + 1)
    BY <2>2, ValueByDepth
  <2>4. InBand(Value(eval, m, depth - 1, ply + 1), ply + 1)
    BY <2>1, <2>2, <2>3
  <2>. QED  BY <2>4, Bands DEF InBand, MatedAt
<1>2. InBand(eval[p], ply)
  BY Bands DEF Scored, InBand, MatedAt
<1>. QED  BY <1>1, <1>2 DEF MoveValues

LEMMA ValueInBand ==
    ASSUME NEW eval, Scored(eval), NEW p \in Positions, NEW depth \in Nat, NEW ply \in 0 .. MaxPly
    PROVE  InBand(Value(eval, p, depth, ply), ply)
<1>. DEFINE Good(at) == \A q \in Positions, d \in Nat : InBand(Value(eval, q, d, at), at)
            Bad == {left \in 0 .. MaxPly : ~Good(MaxPly - left)}
<1>1. ASSUME Bad # {}
      PROVE  FALSE
  <2>1. PICK left \in Bad : \A other \in Bad : left <= other
    <3>. Bad \in SUBSET Nat
      BY Bands
    <3>. HIDE DEF Bad
    <3>. QED  BY <1>1, LeastNumber
  <2>. DEFINE at == MaxPly - left
  <2>2. left \in 0 .. MaxPly /\ at \in 0 .. MaxPly /\ ~Good(at)
    BY <2>1, Bands
  <2>3. CASE left = 0
    <3>1. at = MaxPly
      BY <2>2, <2>3, Bands
    <3>2. ASSUME NEW q \in Positions, NEW d \in Nat
          PROVE  InBand(Value(eval, q, d, MaxPly), MaxPly)
      <4>1. Value(eval, q, d, MaxPly) = IF q \in Drawn THEN 0 ELSE eval[q]
        BY ValueAtLastPly
      <4>2. eval[q] \in 1 - TtMateBound .. TtMateBound - 1
        BY DEF Scored
      <4>. QED  BY <4>1, <4>2, Bands DEF InBand, MatedAt
    <3>. QED  BY <2>2, <3>1, <3>2
  <2>4. CASE left # 0
    <3>1. at \in 0 .. MaxPly - 1 /\ left - 1 \in 0 .. MaxPly /\ at + 1 = MaxPly - (left - 1)
      BY <2>2, <2>4, Bands
    <3>2. Good(at + 1)
      <4>1. left - 1 \notin Bad
        BY <2>1, <2>2, <3>1
      <4>. HIDE DEF Good, at
      <4>. QED  BY <3>1, <4>1
    <3>. HIDE DEF at
    <3>3. ASSUME NEW q \in Positions, NEW d \in Nat
          PROVE  InBand(Value(eval, q, d, at), at)
      <4>. DEFINE values == MoveValues(eval, q, d, at)
      <4>1. \A value \in values : InBand(value, at)
        BY <3>1, <3>2, MoveValuesInBand
      <4>2. Value(eval, q, d, at) = IF q \in Drawn THEN 0 ELSE IF values # {} THEN Max(values)
                                    ELSE IF q \in Checked THEN MatedAt(at) ELSE 0
        BY <3>1, ValueFromMoves
      <4>. HIDE DEF values
      <4>3. values # {} => Max(values) \in values
        <5>1. values \in SUBSET Int /\ Mate - at - 1 \in Int /\ \A value \in values : value <= Mate - at - 1
          BY <3>1, <4>1, Bands DEF InBand
        <5>. QED  BY <5>1, MaxOfScores
      <4>4. InBand(0, at) /\ InBand(MatedAt(at), at)
        BY <3>1, Bands DEF InBand, MatedAt
      <4>. QED  BY <4>1, <4>2, <4>3, <4>4
    <3>. QED  BY <2>2, <3>3 DEF at
  <2>. QED  BY <2>3, <2>4
<1>2. ply = MaxPly - (MaxPly - ply) /\ MaxPly - ply \in 0 .. MaxPly
  BY Bands
<1>3. Good(ply)
  <2>. HIDE DEF Good
  <2>. QED  BY <1>1, <1>2
<1>. QED  BY <1>3

-----------------------------------------------------------------------------
(* A position and its moves.                                                 *)

LEMMA EvaluationScored == ASSUME CleanInv PROVE Scored(evaluation)
BY SearchAssumption DEF CleanInv, Typed, Scored

\* For a position that is searched: each move is a lower bound, and a bound of
\* all of them is a bound of the value.
LEMMA SearchedValue ==
    ASSUME NEW eval, Scored(eval), NEW p \in Positions, p \notin Drawn, NEW depth \in Nat,
           NEW ply \in 0 .. MaxPly - 1
    PROVE  /\ InBand(Value(eval, p, depth, ply), ply)
           /\ \A m \in Replies(p, depth) :
                /\ InBand(-Value(eval, m, depth - 1, ply + 1), ply)
                /\ -Value(eval, m, depth - 1, ply + 1) <= Value(eval, p, depth, ply)
           /\ Resting(p, depth) => eval[p] <= Value(eval, p, depth, ply)
           /\ \A b \in Int :
                /\ Replies(p, depth) # {} \/ Resting(p, depth)
                /\ \A m \in Replies(p, depth) : -Value(eval, m, depth - 1, ply + 1) <= b
                /\ Resting(p, depth) => eval[p] <= b
                => Value(eval, p, depth, ply) <= b
           /\ Replies(p, depth) = {} /\ ~Resting(p, depth) =>
                Value(eval, p, depth, ply) = IF p \in Checked THEN MatedAt(ply) ELSE 0
<1>. DEFINE values == MoveValues(eval, p, depth, ply)
            moveValue(m) == -Value(eval, m, depth - 1, ply + 1)
            v == Value(eval, p, depth, ply)
<1>1. v = IF values # {} THEN Max(values) ELSE IF p \in Checked THEN MatedAt(ply) ELSE 0
  BY ValueFromMoves
<1>2. ply \in 0 .. MaxPly /\ ply + 1 \in 0 .. MaxPly
  BY Bands
<1>3. \A value \in values : InBand(value, ply)
  BY <1>2, ValueInBand, MoveValuesInBand
<1>4. InBand(v, ply)
  BY <1>2, ValueInBand
<1>5. /\ \A m \in Replies(p, depth) : moveValue(m) \in values
      /\ Resting(p, depth) => eval[p] \in values
      /\ \A value \in values : \/ \E m \in Replies(p, depth) : value = moveValue(m)
                               \/ Resting(p, depth) /\ value = eval[p]
      /\ values # {} <=> Replies(p, depth) # {} \/ Resting(p, depth)
  BY DEF MoveValues
<1>. HIDE DEF values, moveValue, v
<1>6. values # {} => Max(values) \in values /\ \A value \in values : value <= Max(values)
  <2>1. values \in SUBSET Int /\ Mate - ply - 1 \in Int /\ \A value \in values : value <= Mate - ply - 1
    BY <1>3, Bands DEF InBand
  <2>. QED  BY <2>1, MaxOfScores
<1>7. \A m \in Replies(p, depth) : InBand(moveValue(m), ply) /\ moveValue(m) <= v
  BY <1>1, <1>3, <1>5, <1>6
<1>8. Resting(p, depth) => eval[p] <= v
  BY <1>1, <1>5, <1>6
<1>9. ASSUME NEW b \in Int, Replies(p, depth) # {} \/ Resting(p, depth),
             \A m \in Replies(p, depth) : moveValue(m) <= b, Resting(p, depth) => eval[p] <= b
      PROVE  v <= b
  BY <1>1, <1>5, <1>6, <1>9
<1>10. Replies(p, depth) = {} /\ ~Resting(p, depth) => v = IF p \in Checked THEN MatedAt(ply) ELSE 0
  BY <1>1, <1>5
<1>. QED  BY <1>4, <1>7, <1>8, <1>9, <1>10 DEF moveValue, v

\* What is true of the window narrowed to the mates of the ply is true of the window.
LEMMA Widened ==
    ASSUME NEW value \in Int, NEW low \in Int, NEW high \in Int, NEW ply \in Int, NEW v, InBand(v, ply),
           low < high, IsTrue(value, MaxOf(low, MatedAt(ply)), MinOf(high, Mate - ply - 1), v),
           MaxOf(low, MatedAt(ply)) < MinOf(high, Mate - ply - 1)
    PROVE  IsTrue(value, low, high, v)
BY Bands DEF InBand, IsTrue, MaxOf, MinOf, MatedAt

\* A score comes back from the table as it went in.
LEMMA ThereAndBack ==
    ASSUME NEW score \in Int, NEW ply \in Nat
    PROVE  ScoreAtPly(Stored(score, ply), ply) = score
BY Bands DEF ScoreAtPly, Stored

LEMMA RemainingNext ==
    ASSUME NEW depth \in Nat, NEW ply \in Plies
    PROVE  /\ Remaining(depth, ply) \in Nat
           /\ Remaining(depth, ply + 1) = Clamped(Remaining(depth, ply) - 1)
           /\ Remaining(depth, FirstPly) = depth
BY Bands DEF Remaining, MaxOf, Clamped, Plies

\* A line and an answer read the same at depths that are the same past zero.
LEMMA KeepsByDepth ==
    ASSUME NEW eval, NEW line \in Seq(Positions), NEW p, NEW d \in Int, NEW e \in Int, NEW ply \in Int, NEW value,
           Clamped(d) = Clamped(e), Keeps(eval, line, p, d, ply, value)
    PROVE  Keeps(eval, line, p, e, ply, value)
<1>1. ASSUME NEW i \in DOMAIN line
      PROVE  Value(eval, line[i], d - i, ply + i) = Value(eval, line[i], e - i, ply + i)
  <2>1. i \in Nat
    OBVIOUS
  <2>2. Clamped(d - i) = Clamped(e - i)
    BY <2>1 DEF Clamped
  <2>. QED  BY <2>1, <2>2, ValueByDepth
<1>. QED  BY <1>1, Zenon DEF Keeps

LEMMA FitsByDepth ==
    ASSUME NEW eval, NEW value, NEW pv \in Seq(Positions), NEW low, NEW high, NEW p,
           NEW d \in Int, NEW e \in Int, NEW ply \in Int,
           Clamped(d) = Clamped(e), Fits(eval, value, pv, low, high, p, d, ply)
    PROVE  Fits(eval, value, pv, low, high, p, e, ply)
<1>1. Value(eval, p, d, ply) = Value(eval, p, e, ply)
  BY ValueByDepth
<1>. QED  BY <1>1, KeepsByDepth, Zenon DEF Fits

\* A move before a line that keeps the value.
LEMMA LineKeeps ==
    ASSUME NEW eval, NEW line \in Seq(Positions), NEW p, NEW m \in Moves[p], NEW d \in Int, NEW ply \in Int,
           NEW value \in Int, Value(eval, m, d - 1, ply + 1) = -value, m \in Positions,
           Keeps(eval, line, m, d - 1, ply + 1, -value)
    PROVE  Keeps(eval, <<m>> \o line, p, d, ply, value)
<1>. DEFINE longer == <<m>> \o line
<1>1. /\ longer \in Seq(Positions) /\ Len(longer) = Len(line) + 1 /\ longer[1] = m
      /\ \A i \in 2 .. Len(longer) : longer[i] = line[i - 1] /\ i - 1 \in 1 .. Len(line)
  OBVIOUS
<1>. HIDE DEF longer
<1>2. ASSUME NEW i \in 1 .. Len(longer)
      PROVE  /\ longer[i] \in Moves[IF i = 1 THEN p ELSE longer[i - 1]]
             /\ Value(eval, longer[i], d - i, ply + i) = IF i % 2 = 1 THEN -value ELSE value
  <2>1. CASE i = 1
    BY <1>1, <2>1
  <2>2. CASE i # 1
    <3>. DEFINE j == i - 1
    <3>1. j \in 1 .. Len(line) /\ j \in DOMAIN line /\ i \in 2 .. Len(longer) /\ longer[i] = line[j] /\ i \in Nat
      BY <1>1, <2>2
    <3>2. /\ line[j] \in Moves[IF j = 1 THEN m ELSE line[j - 1]]
          /\ Value(eval, line[j], (d - 1) - j, (ply + 1) + j) = IF j % 2 = 1 THEN -(-value) ELSE -value
      <4>. HIDE DEF j
      <4>. QED  BY <3>1, Zenon DEF Keeps
    <3>3. (d - 1) - j = d - i /\ (ply + 1) + j = ply + i
      BY <3>1
    <3>4. j % 2 = 1 <=> i % 2 # 1
      BY <3>1
    <3>5. longer[i - 1] = IF j = 1 THEN m ELSE line[j - 1]
      <4>1. CASE j = 1
        BY <1>1, <4>1
      <4>2. CASE j # 1
        <5>1. j \in 2 .. Len(longer)
          BY <1>1, <3>1, <4>2
        <5>. HIDE DEF j
        <5>2. longer[j] = line[j - 1]
          BY <1>1, <5>1
        <5>. QED  BY <4>2, <5>2 DEF j
      <4>. QED  BY <4>1, <4>2
    <3>6. Value(eval, longer[i], d - i, ply + i) = IF j % 2 = 1 THEN -(-value) ELSE -value
      BY <3>1, <3>2, <3>3
    <3>. QED  BY <2>2, <3>1, <3>2, <3>4, <3>5, <3>6
  <2>. QED  BY <2>1, <2>2
<1>3. Keeps(eval, longer, p, d, ply, value)
  <2>1. DOMAIN longer = 1 .. Len(longer)
    BY <1>1
  <2>. QED  BY <1>2, <2>1, Zenon DEF Keeps
<1>. QED  BY <1>3 DEF longer

-----------------------------------------------------------------------------
(* The shapes of a step where nothing is pruned.                             *)

\* A step keeps the move every call below the top waits for.
LEMMA StillPlayed ==
    ASSUME Typed, Nested, stack # << >>, BoardKept, NEW i \in 1 .. Len(stack) - 1, Played(stack[i])
    PROVE  stack[i].pc \in {"searched", "scouted"} => path'[Place(stack[i]) + 1] = stack[i].move
<1>1. i \in 1 .. Len(stack) /\ i + 1 \in 1 .. Len(stack)
  BY Top
<1>. SUFFICES ASSUME stack[i].pc \in {"searched", "scouted"}
              PROVE  path'[Place(stack[i]) + 1] = stack[i].move
  OBVIOUS
<1>2. stack[i + 1].ply = stack[i].ply + 1
  BY DEF Nested, Made
<1>3. Place(stack[i]) + 1 = Place(stack[i + 1]) /\ Place(stack[i + 1]) \in 1 .. Place(Node)
  BY SMTT(20), <1>1, <1>2, PliesInOrder DEF Place
<1>. QED  BY <1>3 DEF Played, BoardKept

LEMMA KnownResume ==
    ASSUME CleanInv, NEW distance, StackKnown(distance), stack # << >>, NEW c \in Frame, Resume(c),
           c.pos = Node.pos, c.ply = Node.ply, c.depth = Node.depth, BoardKept, Unmoved,
           Knows(evaluation, c, LowOf(Len(stack)), HighOf(Len(stack))),
           c.pc \in {"searched", "scouted"} => path'[Place(c) + 1] = c.move
    PROVE  StackKnown(distance)'
<1>. DEFINE n == Len(stack)
<1>1. /\ stack' # << >> /\ Len(stack') = n /\ n \in Nat \ {0} /\ Node = stack[n]
      /\ \A i \in 1 .. n : stack'[i] = IF i = n THEN c ELSE stack[i]
  BY Resumed, Top DEF CleanInv
<1>2. asked' = asked /\ evaluation' = evaluation /\ DepthAsked' = DepthAsked
  BY DEF Unmoved, DepthAsked
<1>3. \A i \in 1 .. n : LowOf(i)' = LowOf(i) /\ HighOf(i)' = HighOf(i)
  <2>. SUFFICES ASSUME NEW i \in 1 .. n PROVE LowOf(i)' = LowOf(i) /\ HighOf(i)' = HighOf(i)
    OBVIOUS
  <2>1. i # 1 => stack'[i - 1] = stack[i - 1]
    BY <1>1
  <2>. QED  BY <1>2, <2>1 DEF LowOf, HighOf
<1>4. stack'[1].pos = Root
  BY <1>1 DEF StackKnown
<1>5. ASSUME NEW i \in 1 .. n
      PROVE  /\ Placed(stack'[i], distance, DepthAsked')
             /\ Knows(evaluation', stack'[i], LowOf(i)', HighOf(i)')
             /\ Played(stack[i])'
  <2>1. CASE i = n
    <3>1. Placed(Node, distance, DepthAsked)
      BY <1>1 DEF StackKnown
    <3>2. stack'[i] = c
      BY <1>1, <2>1
    <3>3. Placed(c, distance, DepthAsked)
      BY <3>1 DEF Placed
    <3>. QED  BY <1>2, <1>3, <2>1, <3>2, <3>3 DEF Played, Place
  <2>2. CASE i # n
    <3>1. stack'[i] = stack[i] /\ i \in 1 .. Len(stack) - 1
      BY <1>1, <2>2
    <3>2. Placed(stack[i], distance, DepthAsked) /\ Knows(evaluation, stack[i], LowOf(i), HighOf(i)) /\ Played(stack[i])
      BY DEF StackKnown
    <3>3. stack[i].pc \in {"searched", "scouted"} => path'[Place(stack[i]) + 1] = stack[i].move
      BY <3>1, <3>2, StillPlayed DEF CleanInv
    <3>. QED  BY <1>2, <1>3, <3>1, <3>2, <3>3 DEF Played, Place
  <2>. QED  BY <2>1, <2>2
<1>6. ASSUME NEW i \in 1 .. n - 1
      PROVE  stack'[i + 1].pos = stack'[i].move
  <2>1. i \in 1 .. n /\ i + 1 \in 1 .. n /\ i # n
    BY <1>1
  <2>2. stack[i + 1].pos = stack[i].move
    BY DEF StackKnown
  <2>. QED  BY <1>1, <2>1, <2>2
<1>7. DepthAsked \in Nat /\ asked.depth = DepthAsked
  BY DEF StackKnown
<1>. HIDE DEF n
<1>. QED  BY <1>1, <1>2, <1>4, <1>5, <1>6, <1>7 DEF StackKnown

LEMMA KnownInvoke ==
    ASSUME CleanInv, NEW distance, StackKnown(distance), stack # << >>, NEW c \in Frame, NEW d \in Frame,
           Invoke(c, d), c.pos = Node.pos, c.ply = Node.ply, c.depth = Node.depth, BoardKept, Unmoved,
           Knows(evaluation, c, LowOf(Len(stack)), HighOf(Len(stack))),
           path'[Place(c) + 1] = c.move, d.pc = "enter", Fresh(d, LowAsked(c), -c.alpha),
           Placed(d, distance, DepthAsked), d.pos = c.move
    PROVE  StackKnown(distance)'
<1>. DEFINE n == Len(stack)
<1>1. /\ stack' # << >> /\ Len(stack') = n + 1 /\ n \in Nat \ {0} /\ Node = stack[n]
      /\ \A i \in 1 .. n + 1 : stack'[i] = IF i = n + 1 THEN d ELSE IF i = n THEN c ELSE stack[i]
  BY Invoked, Top DEF CleanInv
<1>2. asked' = asked /\ evaluation' = evaluation /\ DepthAsked' = DepthAsked
  BY DEF Unmoved, DepthAsked
<1>3. \A i \in 1 .. n : LowOf(i)' = LowOf(i) /\ HighOf(i)' = HighOf(i)
  <2>. SUFFICES ASSUME NEW i \in 1 .. n PROVE LowOf(i)' = LowOf(i) /\ HighOf(i)' = HighOf(i)
    OBVIOUS
  <2>1. i # 1 => stack'[i - 1] = stack[i - 1]
    BY <1>1
  <2>. QED  BY <1>2, <2>1 DEF LowOf, HighOf
<1>4. stack'[1].pos = Root
  BY <1>1 DEF StackKnown
<1>5. ASSUME NEW i \in 1 .. n + 1
      PROVE  /\ Placed(stack'[i], distance, DepthAsked')
             /\ Knows(evaluation', stack'[i], LowOf(i)', HighOf(i)')
             /\ Played(stack[i])'
  <2>1. CASE i = n + 1
    <3>1. stack'[i] = d /\ stack'[i - 1] = c /\ i # 1
      BY <1>1, <2>1
    <3>2. LowOf(i)' = LowAsked(c) /\ HighOf(i)' = -c.alpha
      BY <3>1 DEF LowOf, HighOf
    <3>. QED  BY <1>2, <3>1, <3>2 DEF Played, Knows
  <2>2. CASE i = n
    <3>1. Placed(Node, distance, DepthAsked)
      BY <1>1 DEF StackKnown
    <3>2. stack'[i] = c
      BY <1>1, <2>2
    <3>3. Placed(c, distance, DepthAsked)
      BY <3>1 DEF Placed
    <3>. QED  BY <1>2, <1>3, <2>2, <3>2, <3>3 DEF Played, Place
  <2>3. CASE i # n /\ i # n + 1
    <3>1. stack'[i] = stack[i] /\ i \in 1 .. Len(stack) - 1 /\ i \in 1 .. n
      BY <1>1, <2>3
    <3>2. Placed(stack[i], distance, DepthAsked) /\ Knows(evaluation, stack[i], LowOf(i), HighOf(i)) /\ Played(stack[i])
      BY <3>1 DEF StackKnown
    <3>3. stack[i].pc \in {"searched", "scouted"} => path'[Place(stack[i]) + 1] = stack[i].move
      BY <3>1, <3>2, StillPlayed DEF CleanInv
    <3>. QED  BY <1>2, <1>3, <3>1, <3>2, <3>3 DEF Played, Place
  <2>. QED  BY <2>1, <2>2, <2>3
<1>6. ASSUME NEW i \in 1 .. n
      PROVE  stack'[i + 1].pos = stack'[i].move
  <2>1. CASE i = n
    BY <1>1, <2>1
  <2>2. CASE i # n
    <3>1. i \in 1 .. n - 1 /\ i \in 1 .. n + 1 /\ i + 1 \in 1 .. n + 1 /\ i # n + 1 /\ i + 1 # n + 1
      BY <1>1, <2>2
    <3>2. stack[i + 1].pos = stack[i].move
      BY <3>1 DEF StackKnown
    <3>. QED  BY <1>1, <2>2, <3>1, <3>2
  <2>. QED  BY <2>1, <2>2
<1>7. DepthAsked \in Nat /\ asked.depth = DepthAsked
  BY DEF StackKnown
<1>. HIDE DEF n
<1>8. Len(stack') - 1 = n
  BY <1>1
<1>. QED  BY <1>1, <1>2, <1>4, <1>5, <1>6, <1>7, <1>8 DEF StackKnown

LEMMA KnownGive ==
    ASSUME CleanInv, NEW distance, StackKnown(distance), stack # << >>,
           NEW value, NEW pv \in Seq(Positions), NEW aborted \in BOOLEAN,
           Give(value, pv, aborted), BoardKept, Unmoved, aborted => stop,
           aborted \/ Fits(evaluation, value, pv, LowOf(Len(stack)), HighOf(Len(stack)),
                           Node.pos, Node.depth, Node.ply)
    PROVE  StackKnown(distance)' /\ AnswerKnown'
<1>. DEFINE n == Len(stack) - 1
<1>1. /\ Len(stack') = n /\ n \in Nat /\ (stack' = << >> <=> n = 0)
      /\ answer' = [given |-> TRUE, value |-> value, pv |-> pv, aborted |-> aborted]
      /\ \A i \in 1 .. n : stack'[i] = stack[i]
  BY Given, Top DEF CleanInv
<1>2. asked' = asked /\ evaluation' = evaluation /\ DepthAsked' = DepthAsked /\ stop' = stop
  BY DEF Unmoved, DepthAsked
<1>3. \A i \in 1 .. n : LowOf(i)' = LowOf(i) /\ HighOf(i)' = HighOf(i)
  <2>. SUFFICES ASSUME NEW i \in 1 .. n PROVE LowOf(i)' = LowOf(i) /\ HighOf(i)' = HighOf(i)
    OBVIOUS
  <2>1. i # 1 => stack'[i - 1] = stack[i - 1]
    BY <1>1
  <2>. QED  BY <1>2, <2>1 DEF LowOf, HighOf
<1>4. ASSUME NEW i \in 1 .. n
      PROVE  /\ Placed(stack'[i], distance, DepthAsked')
             /\ Knows(evaluation', stack'[i], LowOf(i)', HighOf(i)')
             /\ Played(stack[i])'
  <2>1. stack'[i] = stack[i] /\ i \in 1 .. Len(stack) - 1 /\ i \in 1 .. Len(stack)
    BY <1>1
  <2>2. Placed(stack[i], distance, DepthAsked) /\ Knows(evaluation, stack[i], LowOf(i), HighOf(i)) /\ Played(stack[i])
    BY <2>1 DEF StackKnown
  <2>3. stack[i].pc \in {"searched", "scouted"} => path'[Place(stack[i]) + 1] = stack[i].move
    BY <2>1, <2>2, StillPlayed DEF CleanInv
  <2>. QED  BY <1>2, <1>3, <2>1, <2>2, <2>3 DEF Played, Place
<1>5. ASSUME NEW i \in 1 .. n - 1
      PROVE  stack'[i + 1].pos = stack'[i].move
  <2>1. i \in 1 .. Len(stack) - 1 /\ i \in 1 .. n /\ i + 1 \in 1 .. n
    BY <1>1
  <2>. QED  BY <1>1, <2>1 DEF StackKnown
<1>6. DepthAsked \in Nat /\ asked.depth = DepthAsked /\ (stack' # << >> => stack'[1].pos = Root)
  BY <1>1 DEF StackKnown
<1>7. StackKnown(distance)'
  <2>. HIDE DEF n
  <2>. QED  BY <1>1, <1>2, <1>4, <1>5, <1>6 DEF StackKnown
<1>8. CASE aborted
  BY <1>1, <1>2, <1>7, <1>8 DEF AnswerKnown
<1>9. CASE ~aborted
  <2>1. Fits(evaluation, value, pv, LowOf(n + 1), HighOf(n + 1), Node.pos, Node.depth, Node.ply)
    <3>1. n + 1 = Len(stack)
      BY Top DEF CleanInv
    <3>. HIDE DEF n
    <3>. QED  BY <1>9, <3>1
  <2>2. /\ Node = stack[n + 1] /\ n + 1 \in 1 .. Len(stack) /\ Node.ply \in Plies /\ Node.ply \in Int
        /\ Node.depth = Remaining(DepthAsked, Node.ply)
    <3>1. Node = stack[n + 1] /\ n + 1 \in 1 .. Len(stack)
      BY Top DEF CleanInv
    <3>2. Node.depth = Remaining(DepthAsked, Node.ply)
      BY <3>1 DEF StackKnown, Placed
    <3>3. FieldsTyped(Node)
      BY Going
    <3>4. Node.ply \in Plies
      BY <3>3, Zenon DEF FieldsTyped
    <3>. QED  BY <3>1, <3>2, <3>4, Bands DEF Plies
  <2>3. CASE n = 0
    <3>1. LowOf(n + 1) = asked.alpha /\ HighOf(n + 1) = asked.beta
      BY <2>3 DEF LowOf, HighOf
    <3>2. Node.pos = Root /\ Node.ply = FirstPly
      <4>1. Node = stack[1]
        <5>. HIDE DEF n
        <5>. QED  BY <2>2, <2>3
      <4>2. stack[1].ply = FirstPly
        BY DEF CleanInv, Nested
      <4>3. stack[1].pos = Root
        BY DEF StackKnown
      <4>. QED  BY <4>1, <4>2, <4>3
    <3>3. Node.depth = asked.depth
      BY <1>6, <2>2, <3>2, RemainingNext
    <3>. HIDE DEF n
    <3>. QED  BY <1>1, <1>2, <1>7, <2>1, <2>3, <3>1, <3>2, <3>3 DEF AnswerKnown
  <2>4. CASE n # 0
    <3>. DEFINE g == stack[n]
    <3>1. n \in 1 .. Len(stack) - 1 /\ n \in 1 .. Len(stack) /\ n + 1 # 1 /\ n + 1 - 1 = n /\ Node' = g
      BY <1>1, <2>4 DEF Node, Last
    <3>2. LowOf(n + 1) = LowAsked(g) /\ HighOf(n + 1) = -g.alpha
      BY <3>1 DEF LowOf, HighOf
    <3>3. g.pc \in {"searched", "scouted"}
      <4>1. g.pc \in Waiting /\ Knows(evaluation, g, LowOf(n), HighOf(n))
        BY <3>1 DEF CleanInv, Nested, StackKnown
      <4>. QED  BY <4>1 DEF Knows, Searches, Waiting
    <3>4. Node.ply = g.ply + 1 /\ Node.pos = g.move /\ g.depth = Remaining(DepthAsked, g.ply)
      BY <2>2, <3>1, <3>3 DEF CleanInv, Nested, Made, StackKnown, Placed
    <3>5. g.ply \in Plies /\ g.depth \in Int
      <4>1. g \in Frame
        BY <3>1, StackFrame DEF CleanInv
      <4>. HIDE DEF g
      <4>2. FieldsTyped(g)
        BY <4>1, FrameIsTyped
      <4>3. g.ply \in Plies /\ g.depth \in Nat
        BY <4>2, Zenon DEF FieldsTyped
      <4>. QED  BY <4>3
    <3>. HIDE DEF g, n
    <3>6. Clamped(Node.depth) = Clamped(g.depth - 1) /\ Node.depth \in Int /\ g.depth - 1 \in Int
      <4>1. Node.depth = Clamped(g.depth - 1)
        BY <1>6, <2>2, <3>4, <3>5, RemainingNext
      <4>. QED  BY <3>5, <4>1 DEF Clamped
    <3>7. Fits(evaluation, value, pv, LowAsked(g), -g.alpha, g.move, g.depth - 1, g.ply + 1)
      BY <2>1, <2>2, <3>2, <3>4, <3>6, FitsByDepth
    <3>. QED  BY <1>1, <1>2, <1>7, <2>4, <3>1, <3>7 DEF AnswerKnown
  <2>. QED  BY <2>3, <2>4
<1>. QED  BY <1>8, <1>9

\* What is stored is true, and is of its position's ply and depth.
LEMMA StoredIsTrue ==
    ASSUME NEW distance, tt \in [Positions -> Record], TableKnown(distance), TableIsTrue,
           evaluation' = evaluation, setting' = setting,
           NEW p \in Positions, p \notin Drawn, NEW move, NEW score \in Int, NEW depth, NEW bound,
           StoreIn(p, move, score, depth, bound), search_ply' \in 0 .. MaxPly - 1,
           search_ply' = distance[p], depth = Remaining(DepthAsked, search_ply'),
           \/ bound = "Exact" /\ Value(evaluation, p, depth, search_ply') = score
           \/ bound = "Lower" /\ Value(evaluation, p, depth, search_ply') >= score
           \/ bound = "Upper" /\ Value(evaluation, p, depth, search_ply') <= score
    PROVE  TableKnown(distance)' /\ TableIsTrue'
<1>. DEFINE ply == search_ply'
            r == [move |-> IF move = NullMove THEN tt[p].move ELSE move,
                  score |-> Stored(score, ply), depth |-> depth, bound |-> bound, ply |-> ply]
<1>1. tt' = tt \/ tt' = [tt EXCEPT ![p] = r]
  BY DEF StoreIn
<1>2. DepthAsked' = DepthAsked
  BY DEF DepthAsked
<1>3. RecordPlaced(r, p, distance, DepthAsked)
  BY Bands DEF RecordPlaced
<1>4. ScoreAtPly(r.score, r.ply) = score /\ r.depth = depth /\ r.ply = ply /\ r.bound = bound
  BY ThereAndBack, Bands
<1>. HIDE DEF r, ply
<1>5. ASSUME NEW q \in Positions
      PROVE  RecordPlaced(tt'[q], q, distance, DepthAsked')
  BY <1>1, <1>2, <1>3 DEF TableKnown
<1>6. ASSUME NEW q \in Positions, tt'[q].bound # "None"
      PROVE  LET v == Value(evaluation', q, tt'[q].depth, tt'[q].ply)
                 s == ScoreAtPly(tt'[q].score, tt'[q].ply)
             IN  CASE tt'[q].bound = "Exact" -> v = s
                   [] tt'[q].bound = "Lower" -> v >= s
                   [] tt'[q].bound = "Upper" -> v <= s
  <2>1. CASE tt'[q] = tt[q]
    BY <1>6, <2>1, Zenon DEF TableIsTrue, Worth
  <2>2. CASE tt'[q] # tt[q]
    <3>1. q = p /\ tt'[q] = r
      BY <1>1, <2>2
    <3>2. \/ bound = "Exact" /\ Value(evaluation, p, depth, ply) = score
          \/ bound = "Lower" /\ Value(evaluation, p, depth, ply) >= score
          \/ bound = "Upper" /\ Value(evaluation, p, depth, ply) <= score
      BY DEF ply
    <3>. QED  BY <1>4, <3>1, <3>2
  <2>. QED  BY <2>1, <2>2
<1>7. TableKnown(distance)'
  BY <1>5 DEF TableKnown
<1>8. TableIsTrue'
  BY <1>6, Zenon DEF TableIsTrue, Worth
<1>. QED  BY <1>7, <1>8

LEMMA TableStill ==
    ASSUME NEW distance, TableKnown(distance), TableIsTrue, LearnedIsTrue, Remembered, Unmoved
    PROVE  TableKnown(distance)' /\ TableIsTrue' /\ LearnedIsTrue'
<1>1. tt' = tt /\ learned' = learned /\ evaluation' = evaluation /\ DepthAsked' = DepthAsked
  BY DEF Remembered, Unmoved, DepthAsked
<1>. QED  BY <1>1 DEF TableKnown, TableIsTrue, LearnedIsTrue, Worth

LEMMA LessonsStill ==
    ASSUME LearnedIsTrue, learned' = learned, evaluation' = evaluation
    PROVE  LearnedIsTrue'
BY DEF LearnedIsTrue, Worth

-----------------------------------------------------------------------------
(* The steps where nothing is pruned: asking and entering.                   *)

LEMMA AskIsExact ==
    ASSUME CleanInv, NEW distance, Graded(distance), ~setting.pruning, Exact(distance),
           NEW window \in setting.windows, NEW depth \in setting.depths,
           NEW node \in {"Pv", "NonPv"}, Ask(window, depth, node)
    PROVE  Exact(distance)'
<1>. DEFINE d == Call("main", node, window[1], window[2], depth, TRUE, Root, FirstPly)
<1>1. stack' = <<d>> /\ asked' = d /\ answer' = Silent /\ setting' = setting /\ evaluation' = evaluation
      /\ tt' = tt /\ learned' = learned
  BY DEF Ask, Remembered
<1>2. /\ d.alpha = window[1] /\ d.beta = window[2] /\ d.depth = depth /\ d.pos = Root /\ d.ply = FirstPly
      /\ d.pc = "enter" /\ d = Call(d.fn, d.node, d.alpha, d.beta, d.depth, d.can_null, d.pos, d.ply)
  BY DEF Call
<1>3. DepthAsked = depth /\ depth \in Nat
  <2>1. setting \in Settings /\ setting.depths \subseteq Nat /\ \A x, y \in setting.depths : x = y
    BY SearchAssumption DEF CleanInv, Typed, Graded
  <2>. QED  BY <2>1 DEF DepthAsked
<1>. HIDE DEF d
<1>4. DepthAsked' = depth
  BY <1>1, <1>3 DEF DepthAsked
<1>5. Placed(d, distance, depth)
  <2>1. FirstPly \in Plies
    BY Bands DEF Plies
  <2>. QED  BY <1>2, <1>3, <2>1, RemainingNext DEF Placed, Graded
<1>6. Knows(evaluation, d, d.alpha, d.beta)
  BY <1>2 DEF Knows, Fresh
<1>7. StackKnown(distance)'
  <2>1. Len(stack') = 1 /\ stack'[1] = d /\ stack' # << >>
    BY <1>1
  <2>2. LowOf(1)' = d.alpha /\ HighOf(1)' = d.beta
    BY <1>1 DEF LowOf, HighOf
  <2>3. Played(stack[1])'
    BY <1>2, <2>1 DEF Played
  <2>4. 1 .. Len(stack') = {1} /\ 1 .. Len(stack') - 1 = {}
    BY <2>1
  <2>. QED  BY <1>1, <1>2, <1>3, <1>4, <1>5, <1>6, <2>1, <2>2, <2>3, <2>4 DEF StackKnown
<1>8. AnswerKnown'
  BY <1>1, SilentIsAnswer DEF AnswerKnown
<1>9. TableKnown(distance)' /\ TableIsTrue' /\ LearnedIsTrue'
  BY <1>1, <1>3, <1>4 DEF Exact, TableKnown, TableIsTrue, LearnedIsTrue, Worth
<1>. QED  BY <1>7, <1>8, <1>9 DEF Exact

LEMMA RequestStopIsExact ==
    ASSUME NEW distance, Exact(distance), RequestStop
    PROVE  Exact(distance)'
<1>1. /\ setting' = setting /\ evaluation' = evaluation /\ path' = path /\ stack' = stack /\ answer' = answer
      /\ tt' = tt /\ learned' = learned /\ asked' = asked /\ stop' = TRUE /\ stack # << >>
  BY DEF RequestStop
<1>2. StackKnown(distance)'
  BY <1>1 DEF Exact, StackKnown, DepthAsked, LowOf, HighOf, Played, Place
<1>3. AnswerKnown'
  BY <1>1 DEF AnswerKnown
<1>4. TableKnown(distance)' /\ TableIsTrue' /\ LearnedIsTrue'
  BY <1>1 DEF Exact, TableKnown, TableIsTrue, LearnedIsTrue, Worth, DepthAsked
<1>. QED  BY <1>2, <1>3, <1>4 DEF Exact

\* What the call on top was asked.
LowHere == LowOf(Len(stack))
HighHere == HighOf(Len(stack))

LEMMA Known ==
    ASSUME CleanInv, stack # << >>, NEW distance, Exact(distance)
    PROVE  /\ StackKnown(distance) /\ AnswerKnown /\ TableKnown(distance) /\ TableIsTrue /\ LearnedIsTrue
           /\ Knows(evaluation, Node, LowHere, HighHere) /\ Played(Node)
           /\ Node.depth = Remaining(DepthAsked, Node.ply) /\ DepthAsked \in Nat
           /\ Node.pos \notin Drawn => Node.ply = distance[Node.pos]
<1>1. Len(stack) \in 1 .. Len(stack) /\ Node = stack[Len(stack)]
  BY Top DEF CleanInv
<1>2. StackKnown(distance)
  BY DEF Exact
<1>3. Placed(Node, distance, DepthAsked) /\ Knows(evaluation, Node, LowHere, HighHere) /\ Played(Node)
  BY <1>1, <1>2 DEF StackKnown, LowHere, HighHere
<1>. QED  BY <1>2, <1>3 DEF Exact, StackKnown, Placed

LEMMA Opening ==
    ASSUME CleanInv, NEW distance, Exact(distance), Entering
    PROVE  /\ stack # << >> /\ Node.alpha = LowHere /\ Node.beta = HighHere /\ Node.original = LowHere
           /\ ~Node.futility /\ Node.failed = {} /\ Node.pv = << >> /\ Node.best = -Inf /\ Node.count = 0
           /\ LowHere \in Int /\ HighHere \in Int /\ LowHere < HighHere /\ -Inf <= LowHere
           /\ Board = Node.pos /\ Board \in Positions /\ search_ply = Node.ply /\ Node.ply \in 0 .. MaxPly
           /\ Node.depth \in Nat /\ FieldsTyped(Node) /\ Sane(Node) /\ Node \in Frame
<1>1. stack # << >> /\ Node.pc = "enter"
  BY DEF Entering
<1>2. Fresh(Node, LowHere, HighHere)
  BY <1>1, Known DEF Knows
<1>3. /\ Node.alpha = LowHere /\ Node.beta = HighHere /\ Node.original = LowHere
      /\ ~Node.futility /\ Node.failed = {} /\ Node.pv = << >> /\ Node.best = -Inf /\ Node.count = 0
  BY <1>2 DEF Fresh, Call
<1>4. Sane(Node) /\ FieldsTyped(Node) /\ Board = Node.pos /\ Board \in Positions /\ search_ply = Node.ply
      /\ Node.ply \in 0 .. MaxPly /\ Node \in Frame
  BY <1>1, Enter, Going
<1>5. Node.alpha \in Int /\ Node.beta \in Int /\ Node.depth \in Nat
  BY <1>4, Zenon DEF FieldsTyped
<1>6. Node.alpha < Node.beta /\ -Inf <= Node.alpha
  BY <1>4 DEF Sane
<1>. QED  BY <1>1, <1>3, <1>4, <1>5, <1>6

\* The value looked for.
Sought == Value(evaluation, Node.pos, Node.depth, Node.ply)

LEMMA SoughtInBand ==
    ASSUME CleanInv, stack # << >>
    PROVE  InBand(Sought, Node.ply)
<1>1. FieldsTyped(Node) /\ Node.ply \in 0 .. MaxPly /\ Scored(evaluation)
  BY Going, EvaluationScored
<1>2. Node.pos \in Positions /\ Node.depth \in Nat
  BY <1>1, Zenon DEF FieldsTyped
<1>. QED  BY <1>1, <1>2, ValueInBand DEF Sought

LEMMA EmptyKeeps ==
    ASSUME NEW eval, NEW p, NEW depth, NEW ply, NEW value
    PROVE  Keeps(eval, << >>, p, depth, ply, value)
BY DEF Keeps

\* An answer without a line is known once its value is true.
LEMMA GivenIsExact ==
    ASSUME CleanInv, NEW distance, Exact(distance), stack # << >>, NEW value \in Int, Give(value, << >>, FALSE),
           BoardKept, Unmoved, IsTrue(value, LowHere, HighHere, Sought),
           TableKnown(distance)' /\ TableIsTrue' /\ LearnedIsTrue'
    PROVE  Exact(distance)'
<1>1. Fits(evaluation, value, << >>, LowHere, HighHere, Node.pos, Node.depth, Node.ply)
  BY EmptyKeeps DEF Fits, Sought
<1>2. StackKnown(distance)' /\ AnswerKnown'
  BY <1>1, KnownGive, EmptySeq DEF Exact, LowHere, HighHere
<1>. QED  BY <1>2 DEF Exact

LEMMA AbortedIsExact ==
    ASSUME CleanInv, NEW distance, Exact(distance), stack # << >>, stop, NEW value, Give(value, << >>, TRUE),
           BoardKept, Unmoved, Remembered
    PROVE  Exact(distance)'
<1>1. StackKnown(distance)' /\ AnswerKnown'
  BY KnownGive, EmptySeq DEF Exact
<1>. QED  BY <1>1, TableStill DEF Exact

LEMMA AbortIsExact ==
    ASSUME CleanInv, NEW distance, Exact(distance), Abort
    PROVE  Exact(distance)'
<1>1. stack # << >> /\ stop /\ Give(Node.alpha, << >>, TRUE) /\ OnBoard /\ Remembered
  BY DEF Abort, Entering
<1>. QED  BY <1>1, OnBoardKeeps, AbortedIsExact

LEMMA ExitIsExact ==
    ASSUME CleanInv, NEW distance, Exact(distance), Exit
    PROVE  Exact(distance)'
<1>1. /\ stack # << >> /\ OnBoard /\ Remembered /\ Board = Node.pos /\ Board \in Positions
      /\ search_ply = Node.ply /\ Node.ply \in 0 .. MaxPly /\ Node.depth \in Nat
  BY Opening DEF Exit
<1>2. TableKnown(distance)' /\ TableIsTrue' /\ LearnedIsTrue'
  BY <1>1, TableStill, OnBoardKeeps DEF Exact
<1>3. PICK value \in {0, evaluation[Board]} : Give(value, << >>, FALSE) /\ value = Sought
  <2>1. CASE Board \in Drawn /\ Give(0, << >>, FALSE)
    <3>1. Node.ply = MaxPly \/ Node.ply \in 0 .. MaxPly - 1
      BY <1>1, Bands
    <3>2. Sought = 0
      <4>1. CASE Node.ply = MaxPly
        BY <1>1, <2>1, <4>1, ValueAtLastPly DEF Sought
      <4>2. CASE Node.ply \in 0 .. MaxPly - 1
        BY <1>1, <2>1, <4>2, ValueFromMoves, Zenon DEF Sought
      <4>. QED  BY <3>1, <4>1, <4>2
    <3>. QED  BY <2>1, <3>2
  <2>2. CASE Board \notin Drawn /\ search_ply >= MaxPly /\ Give(evaluation[Board], << >>, FALSE)
    <3>1. Node.ply = MaxPly
      BY <1>1, <2>2, Bands
    <3>2. Sought = evaluation[Board]
      BY <1>1, <2>2, <3>1, ValueAtLastPly DEF Sought
    <3>. QED  BY <2>2, <3>2
  <2>. QED  BY <2>1, <2>2 DEF Exit
<1>4. value \in Int /\ IsTrue(value, LowHere, HighHere, Sought)
  <2>1. Sought \in Int
    BY <1>1, SoughtInBand DEF InBand
  <2>2. LowHere \in Int /\ HighHere \in Int
    BY Opening DEF Exit
  <2>. QED  BY <1>3, <2>1, <2>2 DEF IsTrue
<1>. QED  BY <1>1, <1>2, <1>3, <1>4, OnBoardKeeps, GivenIsExact

LEMMA DropToQuiescenceIsExact ==
    ASSUME CleanInv, NEW distance, Exact(distance), DropToQuiescence
    PROVE  Exact(distance)'
<1>. DEFINE c == Call("quiescence", Node.node, Node.alpha, Node.beta, 0, FALSE, Board, search_ply)
<1>1. /\ Entering /\ Node.depth <= 0 /\ Resume(c) /\ answer' = answer /\ OnBoard /\ Remembered
  BY DEF DropToQuiescence, Searching
<1>2. /\ stack # << >> /\ Node.alpha = LowHere /\ Node.beta = HighHere /\ Board = Node.pos
      /\ Board \in Positions /\ search_ply = Node.ply /\ Node.depth \in Nat /\ ~answer.given
      /\ LowHere \in Int /\ HighHere \in Int /\ Node.node \in {"Pv", "NonPv"} /\ search_ply \in Plies
  BY <1>1, Opening, Enter DEF Entering, FieldsTyped
<1>3. Node.depth = 0
  BY <1>1, <1>2
<1>4. c \in Frame
  BY <1>2, CallIsFrame, Zenon
<1>5. /\ c.pos = Node.pos /\ c.ply = Node.ply /\ c.depth = Node.depth /\ c.pc = "enter"
      /\ c = Call(c.fn, c.node, LowHere, HighHere, c.depth, c.can_null, c.pos, c.ply)
  BY <1>2, <1>3 DEF Call
<1>. HIDE DEF c
<1>6. Knows(evaluation, c, LowHere, HighHere)
  BY <1>5 DEF Knows, Fresh
<1>7. StackKnown(distance)'
  BY <1>1, <1>2, <1>4, <1>5, <1>6, KnownResume, OnBoardKeeps DEF Exact, LowHere, HighHere
<1>8. TableKnown(distance)' /\ TableIsTrue' /\ LearnedIsTrue'
  BY <1>1, <1>2, TableStill, OnBoardKeeps DEF Exact
<1>9. AnswerKnown'
  BY <1>1, <1>2 DEF AnswerKnown, Resume
<1>. QED  BY <1>7, <1>8, <1>9 DEF Exact

\* A window beyond the mates of the ply is answered by its own bound.
LEMMA NarrowedAway ==
    ASSUME NEW low \in Int, NEW high \in Int, NEW ply \in 0 .. MaxPly, NEW v, InBand(v, ply), low < high,
           MaxOf(low, MatedAt(ply)) >= MinOf(high, Mate - ply - 1)
    PROVE  MaxOf(low, MatedAt(ply)) \in Int /\ IsTrue(MaxOf(low, MatedAt(ply)), low, high, v)
BY Bands DEF InBand, IsTrue, MaxOf, MinOf, MatedAt

LEMMA MateDistanceIsExact ==
    ASSUME CleanInv, NEW distance, Exact(distance), MateDistance
    PROVE  Exact(distance)'
<1>1. /\ Entering /\ Node.fn = "main" /\ NarrowAlpha >= NarrowBeta /\ Give(NarrowAlpha, << >>, FALSE)
      /\ OnBoard /\ Remembered
  BY DEF MateDistance, Searching
<1>2. /\ stack # << >> /\ Node.alpha = LowHere /\ Node.beta = HighHere /\ search_ply = Node.ply
      /\ LowHere \in Int /\ HighHere \in Int /\ LowHere < HighHere /\ Node.ply \in 0 .. MaxPly
  BY <1>1, Opening
<1>3. InBand(Sought, Node.ply)
  BY <1>2, SoughtInBand
<1>4. NarrowAlpha \in Int /\ IsTrue(NarrowAlpha, LowHere, HighHere, Sought)
  <2>1. NarrowAlpha = MaxOf(LowHere, MatedAt(Node.ply)) /\ NarrowBeta = MinOf(HighHere, Mate - Node.ply - 1)
    BY <1>1, <1>2 DEF NarrowAlpha, NarrowBeta
  <2>2. MaxOf(LowHere, MatedAt(Node.ply)) >= MinOf(HighHere, Mate - Node.ply - 1)
    BY <1>1, <2>1
  <2>. QED  BY <1>2, <1>3, <2>1, <2>2, NarrowedAway
<1>5. TableKnown(distance)' /\ TableIsTrue' /\ LearnedIsTrue'
  BY <1>1, <1>2, TableStill, OnBoardKeeps DEF Exact
<1>. QED  BY <1>1, <1>2, <1>4, <1>5, OnBoardKeeps, GivenIsExact

LEMMA Inside ==
    ASSUME CleanInv, NEW distance, Exact(distance), Probing
    PROVE  /\ Entering /\ Node.ply \in 0 .. MaxPly - 1 /\ Node.pos \notin Drawn /\ Node.ply = distance[Node.pos]
           /\ Node.depth = Remaining(DepthAsked, Node.ply) /\ InBand(Sought, Node.ply)
           /\ NarrowAlpha \in Int /\ NarrowBeta \in Int /\ NarrowAlpha < NarrowBeta
           /\ NarrowAlpha = IF Node.fn = "main" THEN MaxOf(LowHere, MatedAt(Node.ply)) ELSE LowHere
           /\ NarrowBeta = IF Node.fn = "main" THEN MinOf(HighHere, Mate - Node.ply - 1) ELSE HighHere
<1>1. Entering /\ Board \notin Drawn /\ search_ply < MaxPly /\ stack # << >>
  BY DEF Probing, Searching, Entering
<1>2. /\ Node.alpha = LowHere /\ Node.beta = HighHere /\ Board = Node.pos /\ search_ply = Node.ply
      /\ Node.ply \in 0 .. MaxPly
  BY <1>1, Opening
<1>3. Node.ply = distance[Node.pos] /\ Node.depth = Remaining(DepthAsked, Node.ply) /\ InBand(Sought, Node.ply)
  BY <1>1, <1>2, Known, SoughtInBand
<1>4. Node.ply \in 0 .. MaxPly - 1
  BY <1>1, <1>2, Bands
<1>. QED  BY <1>1, <1>2, <1>3, <1>4, Narrowed DEF NarrowAlpha, NarrowBeta

\* What is true of the narrowed window is true of the window asked.
LEMMA WidenedHere ==
    ASSUME CleanInv, NEW distance, Exact(distance), Probing, NEW value \in Int,
           IsTrue(value, NarrowAlpha, NarrowBeta, Sought)
    PROVE  IsTrue(value, LowHere, HighHere, Sought)
<1>1. LowHere \in Int /\ HighHere \in Int /\ LowHere < HighHere /\ Node.ply \in Int
  BY Inside, Opening
<1>. QED  BY <1>1, Inside, Widened

LEMMA TakeTtScoreIsExact ==
    ASSUME CleanInv, NEW distance, Exact(distance), TakeTtScore
    PROVE  Exact(distance)'
<1>1. Probing /\ TtCutoff /\ Give(TtScore, << >>, FALSE) /\ OnBoard /\ Remembered
  BY DEF TakeTtScore
<1>2. /\ stack # << >> /\ search_ply = Node.ply /\ Board = Node.pos /\ Board \in Positions
  BY <1>1, Inside, Opening
<1>3. tt[Board].bound # "None" /\ TtScore \in Int /\ tt[Board] \in Record
  BY <1>1, Probed
<1>4. tt[Board].ply = Node.ply /\ tt[Board].depth = Node.depth
  BY <1>1, <1>2, <1>3, Inside DEF Exact, TableKnown, RecordPlaced
<1>5. /\ tt[Board].bound = "Exact" => Sought = TtScore
      /\ tt[Board].bound = "Lower" => Sought >= TtScore
      /\ tt[Board].bound = "Upper" => Sought <= TtScore
  <2>1. CASE tt[Board].bound = "Exact"
    BY <1>2, <1>3, <1>4, <2>1 DEF Exact, TableIsTrue, Worth, Sought, TtScore
  <2>2. CASE tt[Board].bound = "Lower"
    BY <1>2, <1>3, <1>4, <2>2 DEF Exact, TableIsTrue, Worth, Sought, TtScore
  <2>3. CASE tt[Board].bound = "Upper"
    BY <1>2, <1>3, <1>4, <2>3 DEF Exact, TableIsTrue, Worth, Sought, TtScore
  <2>. QED  BY <2>1, <2>2, <2>3
<1>6. \/ tt[Board].bound = "Exact"
      \/ tt[Board].bound = "Lower" /\ TtScore >= NarrowBeta
      \/ tt[Board].bound = "Upper" /\ TtScore <= NarrowAlpha
  BY <1>1 DEF TtCutoff, TtCutoffAllowed, CanCutoff
<1>7. Sought \in Int /\ NarrowAlpha \in Int /\ NarrowBeta \in Int /\ NarrowAlpha < NarrowBeta
  BY <1>1, Inside DEF InBand
<1>8. IsTrue(TtScore, NarrowAlpha, NarrowBeta, Sought)
  BY <1>3, <1>5, <1>6, <1>7 DEF IsTrue
<1>9. TableKnown(distance)' /\ TableIsTrue' /\ LearnedIsTrue'
  BY <1>1, <1>2, TableStill, OnBoardKeeps DEF Exact
<1>. QED  BY <1>1, <1>2, <1>3, <1>8, <1>9, OnBoardKeeps, WidenedHere, GivenIsExact

LEMMA OpenMainIsExact ==
    ASSUME CleanInv, NEW distance, ~setting.pruning, Exact(distance), OpenMain
    PROVE  Exact(distance)'
<1>. DEFINE c == [Node EXCEPT !.alpha = NarrowAlpha, !.beta = NarrowBeta, !.original = NarrowAlpha,
                              !.tt_move = tt[Board].move, !.veto = UpperVeto, !.left = Moves[Board],
                              !.pc = "loop"]
<1>1. Probing /\ Node.fn = "main" /\ Resume(c) /\ answer' = answer /\ OnBoard /\ Remembered /\ Node.depth > 0
  BY DEF OpenMain, Probing
<1>2. /\ stack # << >> /\ search_ply = Node.ply /\ Board = Node.pos /\ Board \in Positions /\ FieldsTyped(Node)
      /\ ~Node.futility /\ Node.failed = {} /\ Node.pv = << >> /\ Node.best = -Inf /\ Node.count = 0
      /\ -Inf <= LowHere /\ LowHere \in Int /\ Node \in Frame /\ Node.depth \in Nat /\ ~answer.given
  BY <1>1, Inside, Opening DEF Entering
<1>3. /\ Node.pos \notin Drawn /\ NarrowAlpha \in Int /\ NarrowBeta \in Int
      /\ NarrowAlpha = MaxOf(LowHere, MatedAt(Node.ply)) /\ NarrowBeta = MinOf(HighHere, Mate - Node.ply - 1)
      /\ Node.ply \in 0 .. MaxPly
  BY <1>1, Inside, Bands
<1>4. tt[Board].move \in Moving /\ Moves[Board] \in SUBSET Positions /\ UpperVeto \in BOOLEAN
  <2>1. tt[Board].move \in Moving
    BY <1>1, Probed DEF Record
  <2>. QED  BY <1>2, <2>1, SearchAssumption DEF UpperVeto
<1>5. IsFunction(Node) /\ HasFields(Node)
  BY <1>2, FrameIsTyped
<1>6. IsFunction(c) /\ HasFields(c)
  BY <1>5, Zenon DEF IsFunction, HasFields
<1>7. /\ c.alpha = NarrowAlpha /\ c.beta = NarrowBeta /\ c.original = NarrowAlpha /\ c.veto = UpperVeto
      /\ c.tt_move = tt[Board].move /\ c.left = Moves[Board] /\ c.pc = "loop"
      /\ c.fn = Node.fn /\ c.node = Node.node /\ c.depth = Node.depth /\ c.can_null = Node.can_null /\ c.pos = Node.pos
      /\ c.ply = Node.ply /\ c.futility = Node.futility /\ c.count = Node.count /\ c.best = Node.best /\ c.best_move = Node.best_move
      /\ c.move = Node.move /\ c.failed = Node.failed /\ c.pv = Node.pv
  BY <1>5 DEF HasFields, Fields
<1>. HIDE DEF c
<1>8. c \in Frame
  <2>1. FieldsTyped(c)
    BY <1>2, <1>3, <1>4, <1>7 DEF FieldsTyped, Pcs
  <2>. QED  BY <1>6, <2>1, FrameIsTyped
<1>9. -Inf < NarrowAlpha
  <2>1. MatedAt(Node.ply) \in Int /\ -Inf < MatedAt(Node.ply)
    BY <1>3, Bands DEF MatedAt
  <2>2. MatedAt(Node.ply) <= NarrowAlpha
    BY <1>2, <1>3, <2>1 DEF MaxOf
  <2>. QED  BY <1>3, <2>1, <2>2, Bands
<1>10. Replies(c.pos, c.depth) = Moves[Board] /\ ~Resting(c.pos, c.depth)
  BY <1>1, <1>2, <1>7 DEF Replies, Resting
<1>11. Searches(evaluation, c, LowHere, HighHere)
  <2>1. Opened(c, LowHere, HighHere)
    BY <1>1, <1>3, <1>7 DEF Opened
  <2>2. InTheMoves(c) /\ Done(c) = {}
    BY <1>2, <1>7, <1>10 DEF InTheMoves, Done
  <2>3. BestSoFar(evaluation, c)
    <3>1. c.alpha = MaxOf(c.original, c.best) /\ ~(c.best > c.original)
      BY <1>2, <1>3, <1>7, <1>9, Bands DEF MaxOf
    <3>. QED  BY <1>2, <1>7, <1>10, <2>2, <3>1 DEF BestSoFar
  <2>. QED  BY <1>2, <1>3, <1>7, <2>1, <2>2, <2>3 DEF Searches
<1>12. StackKnown(distance)'
  BY <1>1, <1>2, <1>7, <1>8, <1>11, KnownResume, OnBoardKeeps DEF Exact, Knows, LowHere, HighHere
<1>13. TableKnown(distance)' /\ TableIsTrue' /\ LearnedIsTrue'
  BY <1>1, <1>2, TableStill, OnBoardKeeps DEF Exact
<1>14. AnswerKnown'
  BY <1>1, <1>2, <1>8, Resumed DEF AnswerKnown, CleanInv
<1>. QED  BY <1>12, <1>13, <1>14 DEF Exact

LEMMA StandPatCutoffIsExact ==
    ASSUME CleanInv, NEW distance, Exact(distance), StandPatCutoff
    PROVE  Exact(distance)'
<1>. DEFINE eval == evaluation[Board]
<1>1. /\ Probing /\ Node.fn = "quiescence" /\ Board \notin Checked /\ eval >= Node.beta
      /\ Give(eval, << >>, FALSE) /\ OnBoard /\ StoreIn(Board, NullMove, eval, 0, "Lower")
      /\ learned' = learned /\ search_ply' = search_ply
  BY DEF StandPatCutoff, OnBoard
<1>2. /\ stack # << >> /\ search_ply = Node.ply /\ Board = Node.pos /\ Board \in Positions /\ Sane(Node)
      /\ LowHere \in Int /\ HighHere \in Int /\ LowHere < HighHere /\ Node.beta = HighHere
  BY <1>1, Inside, Opening
<1>3. /\ Node.pos \notin Drawn /\ Node.ply \in 0 .. MaxPly - 1 /\ Node.ply = distance[Node.pos]
      /\ Node.depth = Remaining(DepthAsked, Node.ply) /\ Sought \in Int
  BY <1>1, Inside DEF InBand
<1>4. Node.depth = 0 /\ Resting(Node.pos, Node.depth) /\ Scored(evaluation) /\ eval \in Int
  BY <1>1, <1>2, EvaluationScored DEF Sane, Resting, Scored
<1>5. Sought >= eval
  BY <1>2, <1>3, <1>4, SearchedValue DEF Sought
<1>. HIDE DEF eval
<1>6. IsTrue(eval, LowHere, HighHere, Sought)
  BY <1>1, <1>2, <1>3, <1>4, <1>5 DEF IsTrue
<1>7. TableKnown(distance)' /\ TableIsTrue'
  BY <1>1, <1>2, <1>3, <1>4, <1>5, StoredIsTrue DEF Exact, CleanInv, Typed, OnBoard, Sought
<1>8. LearnedIsTrue'
  BY <1>1, LessonsStill DEF Exact, OnBoard
<1>. QED  BY <1>1, <1>2, <1>4, <1>6, <1>7, <1>8, OnBoardKeeps, GivenIsExact

LEMMA OpenQuiescenceIsExact ==
    ASSUME CleanInv, NEW distance, Exact(distance), OpenQuiescence
    PROVE  Exact(distance)'
<1>. DEFINE eval == evaluation[Board]
            checked == [Node EXCEPT !.tt_move = tt[Board].move, !.left = Moves[Board], !.pc = "loop"]
            quiet == [Node EXCEPT !.tt_move = tt[Board].move, !.left = Tactical(Board), !.pc = "loop",
                                  !.best = eval, !.alpha = MaxOf(@, eval)]
<1>1. Probing /\ Node.fn = "quiescence" /\ answer' = answer /\ OnBoard /\ Remembered
  BY DEF OpenQuiescence
<1>2. /\ stack # << >> /\ search_ply = Node.ply /\ Board = Node.pos /\ Board \in Positions /\ FieldsTyped(Node)
      /\ ~Node.futility /\ Node.failed = {} /\ Node.pv = << >> /\ Node.best = -Inf /\ Node.count = 0
      /\ -Inf <= LowHere /\ LowHere \in Int /\ Node \in Frame /\ ~answer.given /\ Sane(Node)
      /\ Node.alpha = LowHere /\ Node.beta = HighHere /\ Node.original = LowHere /\ HighHere \in Int
  BY <1>1, Inside, Opening DEF Entering
<1>3. Node.pos \notin Drawn /\ Node.ply \in 0 .. MaxPly - 1
  BY <1>1, Inside
<1>4. Node.depth = 0 /\ Scored(evaluation)
  BY <1>1, <1>2, EvaluationScored DEF Sane
<1>5. eval \in Int /\ -Inf < eval
  BY <1>2, <1>4, Bands DEF Scored
<1>6. tt[Board].move \in Moving /\ Moves[Board] \in SUBSET Positions /\ Tactical(Board) \in SUBSET Positions
  <2>1. tt[Board].move \in Moving
    BY <1>1, Probed DEF Record
  <2>. QED  BY <1>2, <2>1, SearchAssumption DEF Tactical
<1>7. IsFunction(Node) /\ HasFields(Node)
  BY <1>2, FrameIsTyped
<1>8. TableKnown(distance)' /\ TableIsTrue' /\ LearnedIsTrue'
  BY <1>1, <1>2, TableStill, OnBoardKeeps DEF Exact
<1>9. ASSUME NEW c \in Frame, Resume(c), c.pos = Node.pos, c.ply = Node.ply, c.depth = Node.depth, c.pc = "loop",
             Searches(evaluation, c, LowHere, HighHere)
      PROVE  Exact(distance)'
  <2>1. StackKnown(distance)'
    BY <1>1, <1>2, <1>9, KnownResume, OnBoardKeeps DEF Exact, Knows, LowHere, HighHere
  <2>2. AnswerKnown'
    BY <1>1, <1>2, <1>9, Resumed DEF AnswerKnown, CleanInv
  <2>. QED  BY <1>8, <2>1, <2>2 DEF Exact
<1>. HIDE DEF eval
<1>10. CASE Board \in Checked /\ Resume(checked)
  <2>. DEFINE c == checked
  <2>1. IsFunction(c) /\ HasFields(c)
    BY <1>7, Zenon DEF IsFunction, HasFields
  <2>2. /\ c.tt_move = tt[Board].move /\ c.left = Moves[Board] /\ c.pc = "loop"
        /\ c.fn = Node.fn /\ c.node = Node.node /\ c.alpha = Node.alpha /\ c.beta = Node.beta /\ c.depth = Node.depth
        /\ c.can_null = Node.can_null /\ c.pos = Node.pos /\ c.ply = Node.ply /\ c.original = Node.original /\ c.veto = Node.veto
        /\ c.futility = Node.futility /\ c.count = Node.count /\ c.best = Node.best /\ c.best_move = Node.best_move /\ c.move = Node.move
        /\ c.failed = Node.failed /\ c.pv = Node.pv
    BY <1>7 DEF HasFields, Fields
  <2>. HIDE DEF checked
  <2>3. c \in Frame
    <3>1. FieldsTyped(c)
      BY <1>2, <1>6, <2>2 DEF FieldsTyped, Pcs
    <3>. QED  BY <2>1, <3>1, FrameIsTyped
  <2>4. Replies(c.pos, c.depth) = Moves[Board] /\ ~Resting(c.pos, c.depth)
    BY <1>2, <1>10, <2>2 DEF Replies, Resting
  <2>5. Opened(c, LowHere, HighHere) /\ InTheMoves(c) /\ Done(c) = {}
    BY <1>1, <1>2, <2>2, <2>4 DEF Opened, InTheMoves, Done
  <2>6. BestSoFar(evaluation, c)
    <3>1. c.alpha = MaxOf(c.original, c.best) /\ ~(c.best > c.original)
      BY <1>2, <2>2, Bands DEF MaxOf
    <3>. QED  BY <1>2, <2>2, <2>4, <2>5, <3>1 DEF BestSoFar
  <2>7. Searches(evaluation, c, LowHere, HighHere)
    BY <1>2, <1>3, <2>2, <2>5, <2>6 DEF Searches
  <2>. QED  BY <1>9, <1>10, <2>2, <2>3, <2>7
<1>11. CASE Board \notin Checked /\ Resume(quiet)
  <2>. DEFINE c == quiet
  <2>1. IsFunction(c) /\ HasFields(c)
    BY <1>7, Zenon DEF IsFunction, HasFields
  <2>2. /\ c.tt_move = tt[Board].move /\ c.left = Tactical(Board) /\ c.pc = "loop"
        /\ c.best = eval /\ c.alpha = MaxOf(Node.alpha, eval)
        /\ c.fn = Node.fn /\ c.node = Node.node /\ c.beta = Node.beta /\ c.depth = Node.depth /\ c.can_null = Node.can_null
        /\ c.pos = Node.pos /\ c.ply = Node.ply /\ c.original = Node.original /\ c.veto = Node.veto /\ c.futility = Node.futility
        /\ c.count = Node.count /\ c.best_move = Node.best_move /\ c.move = Node.move /\ c.failed = Node.failed /\ c.pv = Node.pv
    BY <1>7 DEF HasFields, Fields
  <2>. HIDE DEF quiet
  <2>3. c \in Frame
    <3>1. c.alpha \in Int
      BY <1>2, <1>5, <2>2 DEF MaxOf
    <3>2. FieldsTyped(c)
      BY <1>2, <1>5, <1>6, <2>2, <3>1 DEF FieldsTyped, Pcs
    <3>. QED  BY <2>1, <3>2, FrameIsTyped
  <2>4. Replies(c.pos, c.depth) = Tactical(Board) /\ Resting(c.pos, c.depth)
    BY <1>2, <1>4, <1>11, <2>2 DEF Replies, Resting
  <2>5. Opened(c, LowHere, HighHere) /\ InTheMoves(c) /\ Done(c) = {}
    BY <1>1, <1>2, <2>2, <2>4 DEF Opened, InTheMoves, Done
  <2>6. c.best <= Value(evaluation, c.pos, c.depth, c.ply)
    BY <1>2, <1>3, <1>4, <2>2, <2>4, SearchedValue DEF eval
  <2>7. BestSoFar(evaluation, c)
    <3>1. evaluation[c.pos] <= c.best
      BY <1>2, <1>5, <2>2 DEF eval
    <3>. QED  BY <1>2, <2>2, <2>5, <2>6, <3>1, EmptyKeeps DEF BestSoFar
  <2>8. Searches(evaluation, c, LowHere, HighHere)
    BY <1>2, <1>3, <2>2, <2>5, <2>7 DEF Searches
  <2>. QED  BY <1>9, <1>11, <2>2, <2>3, <2>8
<1>. QED  BY <1>10, <1>11 DEF OpenQuiescence, eval

-----------------------------------------------------------------------------
(* The steps where nothing is pruned: the moves.                             *)

LEMMA WindowHere ==
    ASSUME CleanInv, stack # << >>
    PROVE  LowHere \in Int /\ HighHere \in Int
<1>. DEFINE n == Len(stack)
<1>1. n \in Nat \ {0} /\ (n # 1 => n - 1 \in 1 .. n)
  <2>1. n \in Nat \ {0}
    BY Top DEF CleanInv
  <2>. HIDE DEF n
  <2>. QED  BY <2>1
<1>2. asked.alpha \in Int /\ asked.beta \in Int
  <2>1. FieldsTyped(asked)
    BY FrameIsTyped DEF CleanInv, Typed
  <2>. QED  BY <2>1, Zenon DEF FieldsTyped
<1>3. ASSUME n # 1
      PROVE  stack[n - 1].alpha \in Int /\ stack[n - 1].beta \in Int
  <2>1. FieldsTyped(stack[n - 1])
    BY <1>1, <1>3, StackFrame, FrameIsTyped DEF CleanInv
  <2>. QED  BY <2>1, Zenon DEF FieldsTyped
<1>. QED  BY <1>2, <1>3 DEF LowHere, HighHere, LowOf, HighOf, LowAsked

\* A call that has entered is among its moves.
LEMMA AmongMoves ==
    ASSUME CleanInv, stack # << >>, NEW distance, Exact(distance), Node.pc # "enter"
    PROVE  /\ Node.pc \in {"loop", "searched", "scouted"} /\ ~Node.futility /\ Node.pos \notin Drawn
           /\ Opened(Node, LowHere, HighHere) /\ InTheMoves(Node) /\ BestSoFar(evaluation, Node)
           /\ Node.ply \in 0 .. MaxPly - 1 /\ Node.ply \in Plies /\ Node.ply = distance[Node.pos]
           /\ Node.depth = Remaining(DepthAsked, Node.ply) /\ DepthAsked \in Nat /\ Played(Node)
<1>1. Searches(evaluation, Node, LowHere, HighHere)
  BY Known DEF Knows
<1>2. /\ Node.pc \in {"loop", "searched", "scouted"} /\ ~Node.futility /\ Node.pos \notin Drawn
      /\ Opened(Node, LowHere, HighHere) /\ InTheMoves(Node) /\ BestSoFar(evaluation, Node)
  BY <1>1 DEF Searches
<1>3. Node.ply \in 0 .. MaxPly - 1
  BY Going, Deep, Bands
<1>4. Node.ply \in Plies
  <2>1. FieldsTyped(Node)
    BY Going
  <2>. QED  BY <2>1, Zenon DEF FieldsTyped
<1>. QED  BY <1>2, <1>3, <1>4, Known

\* The call for a move has its place in the tree.
LEMMA ChildPlaced ==
    ASSUME CleanInv, stack # << >>, NEW distance, Graded(distance), Exact(distance), Node.pc # "enter",
           NEW m \in Replies(Node.pos, Node.depth), NEW d, d.pos = m, d.ply = Node.ply + 1,
           d.depth = IF Node.fn = "main" THEN Node.depth - 1 ELSE 0
    PROVE  Placed(d, distance, DepthAsked)
<1>1. Node.pos \notin Drawn /\ Node.ply \in Plies /\ Node.ply = distance[Node.pos] /\ DepthAsked \in Nat
      /\ Node.depth = Remaining(DepthAsked, Node.ply)
  BY AmongMoves
<1>2. Node.pos \in Positions /\ Node.depth \in Nat
  <2>1. FieldsTyped(Node)
    BY Going
  <2>. QED  BY <2>1, Zenon DEF FieldsTyped
<1>3. m \in Moves[Node.pos]
  BY <1>2, RepliesArePositions
<1>4. d.depth = Clamped(Node.depth - 1)
  BY <1>2, Deep DEF Clamped
<1>5. d.depth = Remaining(DepthAsked, d.ply)
  BY <1>1, <1>4, RemainingNext
<1>6. m \notin Drawn => d.ply = distance[m]
  BY <1>1, <1>2, <1>3 DEF Graded
<1>. QED  BY <1>5, <1>6 DEF Placed

LEMMA NeverPruned ==
    ASSUME CleanInv, NEW distance, Exact(distance)
    PROVE  ~Razor /\ ~Razored /\ ~NullTry /\ ~SkipNull /\ ~Nulled /\ \A m : ~(Running("loop") /\ PruneQuiet(m))
<1>1. ASSUME stack # << >>, Node.pc \in {"razor", "razored", "null", "nulled"}
      PROVE  FALSE
  BY <1>1, AmongMoves
<1>2. ~Razor /\ ~Razored /\ ~NullTry /\ ~SkipNull /\ ~Nulled
  BY <1>1, Zenon DEF Razor, Razored, NullTry, SkipNull, Nulled, Running, Answered, At
<1>3. ASSUME NEW m, Running("loop"), PruneQuiet(m)
      PROVE  FALSE
  <2>1. stack # << >> /\ Node.pc = "loop" /\ Node.futility
    BY <1>3 DEF Running, At, PruneQuiet, FutileMove
  <2>. QED  BY <2>1, AmongMoves
<1>. QED  BY <1>2, <1>3

LEMMA SearchMoveIsExact ==
    ASSUME CleanInv, NEW distance, Graded(distance), ~setting.pruning, Exact(distance),
           Running("loop"), NEW m, m \in NextMoves, SearchMove(m)
    PROVE  Exact(distance)'
<1>1. stack # << >> /\ Node.pc = "loop" /\ ~answer.given /\ m \in Positions /\ m \in Node.left
  BY NextIsAPosition DEF Running, At
<1>1a. PICK reduction \in LmrReductions(m), pc \in {"scouted", "searched"} : \E c, d :
        /\ pc = "scouted" => Node.fn = "main" /\ d = Scout(m, reduction)
        /\ pc = "searched" => reduction = 0 /\ d = IF Node.fn = "main" THEN Full(m) ELSE Settle(m)
        /\ c = AfterMove(m, pc)
        /\ Invoke(c, d)
  BY <1>1, MoveSearched
<1>2. PICK c, d :
        /\ pc = "scouted" => Node.fn = "main" /\ d = Scout(m, reduction)
        /\ pc = "searched" => reduction = 0 /\ d = IF Node.fn = "main" THEN Full(m) ELSE Settle(m)
        /\ c = AfterMove(m, pc)
        /\ Invoke(c, d)
  BY <1>1a
<1>3. reduction = 0
  BY DEF LmrReductions, IsLate
<1>4. /\ c \in Frame /\ c.pc = pc /\ c.move = m /\ c.count = Node.count + 1 /\ c.left = Node.left \ {m}
      /\ c.fn = Node.fn /\ c.node = Node.node /\ c.alpha = Node.alpha /\ c.beta = Node.beta /\ c.depth = Node.depth
      /\ c.pos = Node.pos /\ c.ply = Node.ply /\ c.original = Node.original /\ c.futility = Node.futility
      /\ c.best = Node.best /\ c.failed = Node.failed /\ c.pv = Node.pv
  BY <1>1, <1>2, MovedOn
<1>5. d \in Frame /\ d.pc = "enter" /\ d.pos = m /\ d.ply = Node.ply + 1
  BY <1>1, <1>2, AsksIsSane
<1>6. /\ ~Node.futility /\ Node.pos \notin Drawn /\ Node.ply \in 0 .. MaxPly - 1
      /\ Opened(Node, LowHere, HighHere) /\ InTheMoves(Node) /\ BestSoFar(evaluation, Node)
  BY <1>1, AmongMoves
<1>7. Node.count \in Nat /\ Node.depth \in Nat /\ Node.ply \in Int /\ search_ply = Node.ply /\ FirstPly \in Int
  <2>1. FieldsTyped(Node) /\ search_ply = Node.ply
    BY <1>1, Going
  <2>2. Node.count \in Nat /\ Node.depth \in Nat
    BY <2>1, Zenon DEF FieldsTyped
  <2>. QED  BY <1>6, <2>1, <2>2, Bands
<1>8. Searches(evaluation, c, LowHere, HighHere)
  <2>1. Opened(c, LowHere, HighHere)
    BY <1>4, <1>6 DEF Opened
  <2>2. Replies(c.pos, c.depth) = Replies(Node.pos, Node.depth) /\ m \in Replies(Node.pos, Node.depth)
    BY <1>1, <1>4, <1>6 DEF InTheMoves
  <2>3. InTheMoves(c)
    BY <1>4, <1>6, <1>7, <2>2 DEF InTheMoves
  <2>4. Done(c) = Done(Node)
    BY <1>1, <1>4, <2>2 DEF Done
  <2>5. BestSoFar(evaluation, c)
    BY <1>4, <1>6, <2>4, Zenon DEF BestSoFar, MoveWorth
  <2>. QED  BY <1>4, <1>6, <2>1, <2>3, <2>5 DEF Searches
<1>9. Make(m) /\ Unmoved /\ Remembered /\ answer' = answer
  BY DEF SearchMove, Aside, Unmoved
<1>10. BoardKept /\ path'[Place(c) + 1] = c.move
  <2>1. BoardKept /\ search_ply' = Node.ply + 1 /\ path'[search_ply' - FirstPly + 1] = m
    BY <1>1, <1>9, ChildPosition
  <2>2. search_ply' - FirstPly + 1 = Place(c) + 1
    BY <1>4, <1>7, <2>1 DEF Place
  <2>. QED  BY <1>4, <2>1, <2>2
<1>11. Fresh(d, LowAsked(c), -c.alpha) /\ d.depth = IF Node.fn = "main" THEN Node.depth - 1 ELSE 0
  <2>1. CASE pc = "scouted"
    <3>1. d = Scout(m, 0) /\ LowAsked(c) = -Node.alpha - 1 /\ Node.fn = "main"
      BY <1>2, <1>3, <1>4, <2>1 DEF LowAsked
    <3>. QED  BY <1>4, <1>7, <3>1 DEF Fresh, Scout, Call
  <2>2. CASE pc = "searched"
    <3>1. d = (IF Node.fn = "main" THEN Full(m) ELSE Settle(m)) /\ LowAsked(c) = -Node.beta
      BY <1>2, <1>4, <2>2 DEF LowAsked
    <3>2. CASE Node.fn = "main"
      BY <1>4, <3>1, <3>2 DEF Fresh, Full, Call
    <3>3. CASE Node.fn # "main"
      BY <1>4, <3>1, <3>3 DEF Fresh, Settle, Call
    <3>. QED  BY <3>2, <3>3
  <2>. QED  BY <2>1, <2>2
<1>12. Placed(d, distance, DepthAsked)
  <2>1. m \in Replies(Node.pos, Node.depth)
    BY <1>1, <1>6 DEF InTheMoves
  <2>. QED  BY <1>1, <1>5, <1>11, <2>1, ChildPlaced
<1>13. Knows(evaluation, c, LowHere, HighHere)
  BY <1>4, <1>8 DEF Knows
<1>14. StackKnown(distance)'
  BY <1>1, <1>2, <1>4, <1>5, <1>9, <1>10, <1>11, <1>12, <1>13, KnownInvoke DEF Exact, LowHere, HighHere
<1>15. AnswerKnown'
  <2>1. stack' # << >>
    BY <1>1, <1>2, <1>4, <1>5, Invoked DEF CleanInv
  <2>. QED  BY <1>1, <1>9, <2>1 DEF AnswerKnown
<1>16. TableKnown(distance)' /\ TableIsTrue' /\ LearnedIsTrue'
  BY <1>9, TableStill DEF Exact
<1>. QED  BY <1>14, <1>15, <1>16 DEF Exact

LEMMA ScoutedIsExact ==
    ASSUME CleanInv, NEW distance, Graded(distance), Exact(distance), Scouted
    PROVE  Exact(distance)'
<1>. DEFINE c == [Node EXCEPT !.pc = "searched"]
            d == Call("main", Node.node, -Node.beta, -Node.alpha, Node.depth - 1, TRUE, Board, search_ply)
<1>1. stack # << >> /\ Node.pc = "scouted" /\ answer.given /\ Node.fn = "main"
  <2>1. stack # << >> /\ Node.pc = "scouted" /\ answer.given
    BY DEF Scouted, Answered, At
  <2>. QED  BY <2>1, Deep
<1>2. OnBoard /\ Remembered /\ Unmoved /\ BoardKept /\ path' = path /\ stop' = stop
  BY <1>1, OnBoardKeeps DEF Scouted, OnBoard
<1>3. /\ Node.alpha \in Int /\ Node.beta \in Int /\ Node.alpha < Node.beta /\ Node.ply \in Int /\ Node.depth \in Nat
      /\ search_ply = Node.ply + 1 /\ answer.value \in Int /\ FirstPly \in Int /\ Node.node \in {"Pv", "NonPv"}
      /\ search_ply \in Plies /\ Node.depth > 0
  BY <1>1, Going, Deep, Bands DEF Made, FieldsTyped
<1>4. /\ ~Node.futility /\ Node.pos \notin Drawn /\ Opened(Node, LowHere, HighHere) /\ InTheMoves(Node)
      /\ BestSoFar(evaluation, Node) /\ Played(Node)
  BY <1>1, AmongMoves
<1>5. /\ c \in Frame /\ c.pc = "searched"
      /\ c.fn = Node.fn /\ c.node = Node.node /\ c.alpha = Node.alpha /\ c.beta = Node.beta /\ c.depth = Node.depth
      /\ c.pos = Node.pos /\ c.ply = Node.ply /\ c.original = Node.original
      /\ c.futility = Node.futility /\ c.left = Node.left /\ c.count = Node.count /\ c.best = Node.best
      /\ c.move = Node.move /\ c.failed = Node.failed /\ c.pv = Node.pv
  BY <1>1, Stepped DEF Pcs, Waiting
<1>. HIDE DEF c
<1>6. Knows(evaluation, c, LowHere, HighHere)
  <2>1. Opened(c, LowHere, HighHere)
    BY <1>4, <1>5 DEF Opened
  <2>2. InTheMoves(c)
    BY <1>1, <1>4, <1>5 DEF InTheMoves
  <2>3. Done(c) = Done(Node)
    BY <1>1, <1>5 DEF Done
  <2>4. BestSoFar(evaluation, c)
    BY <1>4, <1>5, <2>3, Zenon DEF BestSoFar, MoveWorth
  <2>. QED  BY <1>4, <1>5, <2>1, <2>2, <2>4 DEF Knows, Searches
<1>7. path[Place(Node) + 1] = Node.move /\ path'[Place(c) + 1] = c.move
  BY <1>1, <1>2, <1>4, <1>5 DEF Played, Place
<1>8. TableKnown(distance)' /\ TableIsTrue' /\ LearnedIsTrue'
  BY <1>2, TableStill DEF Exact
<1>9. CASE /\ answer' = Silent /\ Invoke(c, d)
  <2>1. Board = Node.move /\ Board \in Positions
    <3>1. Len(path) = Place(Node) + 1
      BY <1>3 DEF CleanInv, Nested, Place
    <3>. QED  BY <1>7, <3>1, Here DEF CleanInv
  <2>2. d \in Frame
    <3>1. -Node.beta \in Int /\ -Node.alpha \in Int /\ Node.depth - 1 \in Nat
      BY <1>3
    <3>. QED  BY <1>3, <2>1, <3>1, CallIsFrame, Zenon
  <2>3. /\ d.pos = Node.move /\ d.ply = Node.ply + 1 /\ d.depth = Node.depth - 1 /\ d.pc = "enter"
        /\ Fresh(d, -Node.beta, -Node.alpha)
    BY <1>3, <2>1 DEF Call, Fresh
  <2>. HIDE DEF d
  <2>4. Placed(d, distance, DepthAsked)
    <3>1. Node.move \in Replies(Node.pos, Node.depth)
      BY <1>1, <1>4 DEF InTheMoves
    <3>. QED  BY <1>1, <2>3, <3>1, ChildPlaced
  <2>5. Fresh(d, LowAsked(c), -c.alpha)
    BY <1>5, <2>3 DEF LowAsked
  <2>6. StackKnown(distance)'
    BY <1>1, <1>2, <1>5, <1>6, <1>7, <1>9, <2>2, <2>3, <2>4, <2>5, KnownInvoke DEF Exact, LowHere, HighHere
  <2>7. AnswerKnown'
    <3>1. stack' # << >>
      BY <1>1, <1>5, <1>9, <2>2, Invoked DEF CleanInv
    <3>. QED  BY <1>9, <3>1, SilentIsAnswer DEF AnswerKnown
  <2>. QED  BY <1>8, <2>6, <2>7 DEF Exact
<1>10. CASE /\ ~(~stop /\ -answer.value > Node.alpha) /\ answer' = answer /\ Resume(c)
  <2>1. StackKnown(distance)'
    BY <1>1, <1>2, <1>5, <1>6, <1>7, <1>10, KnownResume DEF Exact, LowHere, HighHere
  <2>2. ASSUME ~stop
        PROVE  Fits(evaluation, answer.value, answer.pv, -c.beta, -c.alpha, c.move, c.depth - 1, c.ply + 1)
    <3>. DEFINE v == Value(evaluation, Node.move, Node.depth - 1, Node.ply + 1)
    <3>1. IsTrue(answer.value, -Node.alpha - 1, -Node.alpha, v)
      BY <1>1, <2>2 DEF Exact, AnswerKnown, Fits, LowAsked
    <3>. HIDE DEF v
    <3>2. answer.value >= -Node.alpha /\ ~(answer.value <= -Node.beta) /\ ~(answer.value <= -Node.alpha - 1)
          /\ ~(answer.value < -Node.alpha)
      BY <1>3, <1>10, <2>2
    <3>3. IsTrue(answer.value, -Node.beta, -Node.alpha, v)
      BY <3>1, <3>2 DEF IsTrue
    <3>. QED  BY <1>5, <3>2, <3>3, Zenon DEF Fits, v
  <2>3. AnswerKnown'
    <3>1. stack' # << >> /\ Node' = c /\ evaluation' = evaluation
      BY <1>1, <1>2, <1>5, <1>10, Resumed DEF CleanInv, Unmoved
    <3>2. LowAsked(c) = -c.beta
      BY <1>5 DEF LowAsked
    <3>. QED  BY <1>2, <1>10, <2>2, <3>1, <3>2 DEF AnswerKnown
  <2>. QED  BY <1>8, <2>1, <2>3 DEF Exact
<1>. QED  BY <1>9, <1>10 DEF Scouted, c, d

\* The window of a call among its moves is the one asked for, narrowed to the
\* mates of its ply.
LEMMA OpenedWindow ==
    ASSUME CleanInv, stack # << >>, NEW distance, Exact(distance), Node.pc # "enter"
    PROVE  /\ LowHere \in Int /\ HighHere \in Int /\ Node.original \in Int /\ Node.best \in Int
           /\ Node.alpha \in Int /\ Node.beta \in Int /\ Node.ply \in 0 .. MaxPly
           /\ LowHere <= Node.original /\ Node.original <= Node.alpha /\ Node.alpha < Node.beta
           /\ Node.beta <= HighHere /\ Node.best <= Node.alpha
           /\ Node.beta < HighHere => Node.beta = Mate - Node.ply - 1
           /\ LowHere < Node.original => Node.original = MatedAt(Node.ply)
           /\ Node.alpha = MaxOf(Node.original, Node.best)
<1>1. LowHere \in Int /\ HighHere \in Int
  BY WindowHere
<1>2. Node.alpha \in Int /\ Node.beta \in Int /\ Node.alpha < Node.beta /\ Node.ply \in 0 .. MaxPly
  BY Deep, Going
<1>3. Node.original \in Int /\ Node.best \in Int
  <2>1. FieldsTyped(Node)
    BY Going
  <2>. QED  BY <2>1, Zenon DEF FieldsTyped
<1>4. Opened(Node, LowHere, HighHere) /\ Node.alpha = MaxOf(Node.original, Node.best)
  BY AmongMoves DEF BestSoFar
<1>5. Mate - Node.ply - 1 \in Int /\ MatedAt(Node.ply) \in Int
  BY <1>2, Bands DEF MatedAt
<1>6. Node.original <= Node.alpha /\ Node.best <= Node.alpha
  BY <1>2, <1>3, <1>4 DEF MaxOf
<1>7. CASE Node.fn = "main"
  <2>1. Node.original = MaxOf(LowHere, MatedAt(Node.ply)) /\ Node.beta = MinOf(HighHere, Mate - Node.ply - 1)
    BY <1>4, <1>7 DEF Opened
  <2>2. LowHere <= Node.original /\ (LowHere < Node.original => Node.original = MatedAt(Node.ply))
    BY <1>1, <1>5, <2>1 DEF MaxOf
  <2>3. Node.beta <= HighHere /\ (Node.beta < HighHere => Node.beta = Mate - Node.ply - 1)
    BY <1>1, <1>5, <2>1 DEF MinOf
  <2>. QED  BY <1>1, <1>2, <1>3, <1>4, <1>6, <2>2, <2>3
<1>8. CASE Node.fn # "main"
  <2>1. Node.original = LowHere /\ Node.beta = HighHere
    BY <1>4, <1>8 DEF Opened
  <2>. QED  BY <1>1, <1>2, <1>3, <1>4, <1>6, <2>1
<1>. QED  BY <1>7, <1>8

\* What the answer for a move says of it and of the position.
LEMMA MoveAnswered ==
    ASSUME CleanInv, stack # << >>, NEW distance, Exact(distance), Node.pc = "searched", answer.given, ~stop
    PROVE  LET value == -answer.value
               worth == MoveWorth(evaluation, Node, Node.move) IN
           /\ value \in Int /\ worth \in Int /\ Sought \in Int /\ worth <= Sought /\ InBand(Sought, Node.ply)
           /\ Value(evaluation, Node.move, Node.depth - 1, Node.ply + 1) \in Int
           /\ value >= Node.beta => worth >= value /\ answer.pv = << >>
           /\ value <= Node.alpha => worth <= value
           /\ Node.alpha < value /\ value < Node.beta =>
                worth = value /\ Keeps(evaluation, answer.pv, Node.move, Node.depth - 1, Node.ply + 1, -value)
           /\ Node.move \in Moves[Node.pos] /\ Node.move \in Positions
           /\ Node.move \in Replies(Node.pos, Node.depth) \ Node.left
<1>. DEFINE w == Value(evaluation, Node.move, Node.depth - 1, Node.ply + 1)
<1>1. Fits(evaluation, answer.value, answer.pv, -Node.beta, -Node.alpha, Node.move, Node.depth - 1, Node.ply + 1)
  BY DEF Exact, AnswerKnown, LowAsked
<1>2. answer.value \in Int /\ FieldsTyped(Node) /\ Scored(evaluation)
  BY Going, EvaluationScored
<1>3. Node.pos \in Positions /\ Node.depth \in Nat
  BY <1>2, Zenon DEF FieldsTyped
<1>4. Node.move \in Replies(Node.pos, Node.depth) \ Node.left /\ Node.pos \notin Drawn /\ Node.ply \in 0 .. MaxPly - 1
  BY AmongMoves DEF InTheMoves
<1>5. Node.move \in Moves[Node.pos] /\ Node.move \in Positions
  BY <1>3, <1>4, RepliesArePositions
<1>6. InBand(Sought, Node.ply) /\ InBand(-w, Node.ply) /\ -w <= Sought
  BY <1>2, <1>3, <1>4, SearchedValue DEF Sought
<1>7. w \in Int
  <2>1. Node.ply + 1 \in 0 .. MaxPly /\ Clamped(Node.depth - 1) \in Nat
        /\ Clamped(Clamped(Node.depth - 1)) = Clamped(Node.depth - 1)
    BY <1>3, <1>4, Bands DEF Clamped
  <2>2. w = Value(evaluation, Node.move, Clamped(Node.depth - 1), Node.ply + 1)
    BY <1>3, <2>1, ValueByDepth
  <2>. HIDE DEF w
  <2>. QED  BY <1>2, <1>5, <2>1, <2>2, ValueInBand DEF InBand
<1>8. Node.alpha \in Int /\ Node.beta \in Int /\ Node.alpha < Node.beta
  BY Deep
<1>9. /\ IsTrue(answer.value, -Node.beta, -Node.alpha, w)
      /\ answer.value <= -Node.beta => answer.pv = << >>
      /\ -Node.beta < answer.value /\ answer.value < -Node.alpha =>
           Keeps(evaluation, answer.pv, Node.move, Node.depth - 1, Node.ply + 1, answer.value)
  BY <1>1, Zenon DEF Fits
<1>10. MoveWorth(evaluation, Node, Node.move) = -w /\ w = Value(evaluation, Node.move, Node.depth - 1, Node.ply + 1)
  BY DEF MoveWorth
<1>. HIDE DEF w
<1>11. -answer.value >= Node.beta => -w >= -answer.value /\ answer.pv = << >>
  BY <1>2, <1>7, <1>8, <1>9 DEF IsTrue
<1>12. -answer.value <= Node.alpha => -w <= -answer.value
  BY <1>2, <1>7, <1>8, <1>9 DEF IsTrue
<1>13. ASSUME Node.alpha < -answer.value, -answer.value < Node.beta
       PROVE  /\ -w = -answer.value
              /\ Keeps(evaluation, answer.pv, Node.move, Node.depth - 1, Node.ply + 1, -(-answer.value))
  <2>1. -Node.beta < answer.value /\ answer.value < -Node.alpha /\ -(-answer.value) = answer.value
    BY <1>2, <1>8, <1>13
  <2>2. w = answer.value
    BY <1>2, <1>7, <1>8, <1>9, <2>1 DEF IsTrue
  <2>. QED  BY <1>9, <2>1, <2>2
<1>14. -answer.value \in Int /\ -w \in Int /\ Sought \in Int
  BY <1>2, <1>6, <1>7 DEF InBand
<1>. QED  BY <1>4, <1>5, <1>6, <1>7, <1>10, <1>11, <1>12, <1>13, <1>14

\* The lessons of a cutoff.
LEMMA LearnIsTrue ==
    ASSUME LearnedIsTrue, evaluation' = evaluation, learned' = Learn,
           MoveWorth(evaluation, Node, Node.move) >= Node.beta,
           \A m \in Node.failed : MoveWorth(evaluation, Node, m) < Node.beta
    PROVE  LearnedIsTrue'
<1>1. ASSUME NEW u \in learned'
      PROVE  LET v == -Value(evaluation, u.move, u.depth - 1, u.ply + 1) IN
             IF u.kind = "reward" THEN v >= u.beta ELSE v < u.beta
  <2>. DEFINE update(kind, m) == [kind |-> kind, pos |-> Node.pos, move |-> m, beta |-> Node.beta,
                                  depth |-> Node.depth, ply |-> Node.ply]
  <2>1. u \in learned \/ u = update("reward", Node.move) \/ \E m \in Node.failed : u = update("malus", m)
    BY DEF Learn
  <2>2. CASE u \in learned
    BY <2>2, Zenon DEF LearnedIsTrue, Worth
  <2>3. CASE u = update("reward", Node.move)
    BY <2>3 DEF MoveWorth
  <2>4. CASE \E m \in Node.failed : u = update("malus", m)
    BY <2>4 DEF MoveWorth
  <2>. QED  BY <2>1, <2>2, <2>3, <2>4
<1>. QED  BY <1>1, Zenon DEF LearnedIsTrue, Worth

LEMMA BetaCutoffIsExact ==
    ASSUME CleanInv, stack # << >>, NEW distance, Exact(distance), Node.pc = "searched", answer.given, ~stop,
           Unmake, Unmoved, BetaCutoff(-answer.value)
    PROVE  Exact(distance)'
<1>. DEFINE value == -answer.value
            worth == MoveWorth(evaluation, Node, Node.move)
<1>1. /\ value >= Node.beta /\ Give(value, Line, FALSE) /\ learned' = Learn
      /\ StoreIn(Node.pos, Node.move, value, Node.depth, "Lower")
  BY DEF BetaCutoff
<1>2. BoardKept /\ search_ply' = Node.ply
  BY TakenBack
<1>3. /\ value \in Int /\ worth \in Int /\ Sought \in Int /\ worth <= Sought /\ InBand(Sought, Node.ply)
      /\ worth >= value /\ answer.pv = << >> /\ Node.move \in Moves[Node.pos] /\ Node.move \in Positions
  BY <1>1, MoveAnswered
<1>4. /\ LowHere \in Int /\ HighHere \in Int /\ LowHere <= Node.original /\ Node.original \in Int
      /\ Node.original <= Node.alpha /\ Node.alpha \in Int /\ Node.alpha < Node.beta /\ Node.beta \in Int
      /\ Node.beta < HighHere => Node.beta = Mate - Node.ply - 1
      /\ Node.ply \in 0 .. MaxPly
  BY OpenedWindow
<1>5. FieldsTyped(Node) /\ Line \in Seq(Positions)
  BY Going, LineIsPositions
<1>6. Node.pos \in Positions /\ Node.depth \in Nat
  BY <1>5, Zenon DEF FieldsTyped
<1>7. Line = (IF Node.node = "Pv" THEN <<Node.move>> \o << >> ELSE << >>)
  BY <1>3 DEF Line
<1>8. worth = -Value(evaluation, Node.move, Node.depth - 1, Node.ply + 1)
  BY DEF MoveWorth
<1>9. /\ Node.pos \notin Drawn /\ Node.ply \in 0 .. MaxPly - 1 /\ Node.ply = distance[Node.pos]
      /\ Node.depth = Remaining(DepthAsked, Node.ply) /\ BestSoFar(evaluation, Node)
  BY AmongMoves
<1>. HIDE DEF value, worth
<1>10. Sought >= value /\ worth >= Node.beta
  BY <1>1, <1>3, <1>4
<1>11. value < HighHere => Sought = value /\ worth = value
  <2>1. Sought <= Mate - Node.ply - 1
    BY <1>3 DEF InBand
  <2>2. value < HighHere => Node.beta = Mate - Node.ply - 1
    BY <1>1, <1>3, <1>4
  <2>3. value \in Int /\ worth \in Int /\ Sought \in Int /\ Node.beta \in Int /\ worth <= Sought /\ worth >= value
    BY <1>3, <1>4
  <2>4. value >= Node.beta
    BY <1>1
  <2>5. value < HighHere => Sought <= value
    BY <2>1, <2>2, <2>3, <2>4
  <2>. QED  BY <2>3, <2>5
<1>12. IsTrue(value, LowHere, HighHere, Sought) /\ ~(value <= LowHere)
  <2>1. ~(value <= LowHere)
    BY <1>1, <1>3, <1>4
  <2>2. ~(value >= HighHere) => Sought = value
    BY <1>3, <1>4, <1>11
  <2>. QED  BY <1>10, <2>1, <2>2 DEF IsTrue
<1>13. ASSUME value < HighHere
       PROVE  Keeps(evaluation, Line, Node.pos, Node.depth, Node.ply, value)
  <2>1. Value(evaluation, Node.move, Node.depth - 1, Node.ply + 1) = -value
    <3>1. Value(evaluation, Node.move, Node.depth - 1, Node.ply + 1) \in Int
      BY MoveAnswered
    <3>. QED  BY <1>3, <1>8, <1>11, <1>13, <3>1
  <2>2. << >> \in Seq(Positions) /\ Node.depth \in Int /\ Node.ply \in Int
    BY <1>4, <1>6, EmptySeq
  <2>3. Keeps(evaluation, <<Node.move>> \o << >>, Node.pos, Node.depth, Node.ply, value)
    BY <1>3, <2>1, <2>2, EmptyKeeps, LineKeeps
  <2>. QED  BY <1>7, <2>3, EmptyKeeps
<1>14. Fits(evaluation, value, Line, LowHere, HighHere, Node.pos, Node.depth, Node.ply)
  BY <1>12, <1>13, Zenon DEF Fits, Sought
<1>15. StackKnown(distance)' /\ AnswerKnown'
  BY <1>1, <1>2, <1>5, <1>14, KnownGive DEF Exact, LowHere, HighHere
<1>16. TableKnown(distance)' /\ TableIsTrue'
  BY <1>1, <1>2, <1>3, <1>6, <1>9, <1>10, StoredIsTrue DEF Exact, CleanInv, Typed, Unmoved, Sought
<1>17. LearnedIsTrue'
  BY <1>1, <1>9, <1>10, LearnIsTrue DEF Exact, Unmoved, BestSoFar, worth
<1>. QED  BY <1>15, <1>16, <1>17 DEF Exact

LEMMA KeepBestIsExact ==
    ASSUME CleanInv, stack # << >>, NEW distance, Exact(distance), Node.pc = "searched", answer.given, ~stop,
           Unmake, Unmoved, KeepBest(-answer.value)
    PROVE  Exact(distance)'
<1>. DEFINE value == -answer.value
            worth == MoveWorth(evaluation, Node, Node.move)
            slow == MalusAllowed /\ IsQuiet(Node.pos, Node.move) /\ Node.move \notin {Node.tt_move, Killer[Node.pos]}
            c == [Node EXCEPT
                    !.pc = "loop",
                    !.failed = IF slow THEN @ \union {Node.move} ELSE @,
                    !.best = MaxOf(@, value),
                    !.best_move = IF value > Node.best THEN Node.move ELSE @,
                    !.alpha = MaxOf(@, value),
                    !.pv = IF value > Node.best /\ value > Node.alpha THEN Line ELSE @]
<1>1. value < Node.beta /\ answer' = Silent /\ Resume(c) /\ Remembered
  BY DEF KeepBest
<1>2. BoardKept /\ search_ply' = Node.ply
  BY TakenBack
<1>3. /\ value \in Int /\ worth \in Int /\ Sought \in Int /\ worth <= Sought
      /\ value <= Node.alpha => worth <= value
      /\ Node.alpha < value =>
           worth = value /\ Keeps(evaluation, answer.pv, Node.move, Node.depth - 1, Node.ply + 1, -value)
      /\ Node.move \in Moves[Node.pos] /\ Node.move \in Positions
      /\ Node.move \in Replies(Node.pos, Node.depth) \ Node.left
  BY <1>1, MoveAnswered
<1>4. /\ Node.original \in Int /\ Node.best \in Int /\ Node.original <= Node.alpha /\ Node.best <= Node.alpha
      /\ Node.alpha \in Int /\ Node.beta \in Int /\ Node.alpha < Node.beta /\ Node.ply \in 0 .. MaxPly
      /\ Node.alpha = MaxOf(Node.original, Node.best)
  BY OpenedWindow
<1>5. /\ FieldsTyped(Node) /\ IsFunction(Node) /\ HasFields(Node) /\ Line \in Seq(Positions)
      /\ answer.pv \in Seq(Positions)
  BY Going, LineIsPositions
<1>6. Node.pos \in Positions /\ Node.depth \in Nat /\ Node.count \in Nat /\ Node.pv \in Seq(Positions)
  BY <1>5, Zenon DEF FieldsTyped
<1>7. /\ Node.pos \notin Drawn /\ ~Node.futility /\ Opened(Node, LowHere, HighHere) /\ InTheMoves(Node)
      /\ BestSoFar(evaluation, Node)
  BY AmongMoves
<1>8. IsFunction(c) /\ HasFields(c)
  BY <1>5, Zenon DEF IsFunction, HasFields
<1>9. /\ c.pc = "loop" /\ c.best = MaxOf(Node.best, value) /\ c.alpha = MaxOf(Node.alpha, value)
      /\ c.best_move = (IF value > Node.best THEN Node.move ELSE Node.best_move)
      /\ c.pv = (IF value > Node.best /\ value > Node.alpha THEN Line ELSE Node.pv)
      /\ c.failed = (IF slow THEN Node.failed \union {Node.move} ELSE Node.failed)
      /\ c.fn = Node.fn /\ c.node = Node.node /\ c.beta = Node.beta /\ c.depth = Node.depth /\ c.can_null = Node.can_null
      /\ c.pos = Node.pos /\ c.ply = Node.ply /\ c.original = Node.original /\ c.tt_move = Node.tt_move /\ c.veto = Node.veto
      /\ c.futility = Node.futility /\ c.left = Node.left /\ c.count = Node.count /\ c.move = Node.move
  BY <1>5 DEF HasFields, Fields
<1>10. worth = -Value(evaluation, Node.move, Node.depth - 1, Node.ply + 1)
  BY DEF MoveWorth
<1>11. slow => Node.fn = "main"
  BY DEF MalusAllowed
<1>. HIDE DEF c, slow, value
<1>12. c \in Frame
  <2>1. c.alpha \in Int /\ c.best \in Int
    BY <1>3, <1>4, <1>9 DEF MaxOf
  <2>2. c.best_move \in Moving /\ c.failed \in SUBSET Positions /\ c.pv \in Seq(Positions)
    BY <1>3, <1>5, <1>6, <1>9 DEF FieldsTyped, Moving
  <2>3. FieldsTyped(c)
    BY <1>5, <1>9, <2>1, <2>2 DEF FieldsTyped, Pcs
  <2>. QED  BY <1>8, <2>3, FrameIsTyped
<1>13. Done(c) = Done(Node) \union {Node.move}
  BY <1>3, <1>9 DEF Done
<1>14. Opened(c, LowHere, HighHere)
  BY <1>7, <1>9 DEF Opened
<1>15. InTheMoves(c)
  BY <1>7, <1>9 DEF InTheMoves
<1>16. /\ c.best \in Int /\ Node.best <= c.best /\ value <= c.best /\ worth <= c.best /\ worth < c.beta
       /\ c.alpha = MaxOf(c.original, c.best)
  <2>1. worth <= value
    BY <1>3, <1>4
  <2>. HIDE DEF worth
  <2>. QED  BY <1>1, <1>3, <1>4, <1>9, <2>1 DEF MaxOf
<1>17. \A m \in Done(c) : MoveWorth(evaluation, c, m) <= c.best
  <2>1. \A m : MoveWorth(evaluation, c, m) = MoveWorth(evaluation, Node, m)
    BY <1>9 DEF MoveWorth
  <2>2. ASSUME NEW m \in Done(Node)
        PROVE  MoveWorth(evaluation, Node, m) <= c.best
    <3>1. MoveWorth(evaluation, Node, m) <= Node.best
      BY <1>7 DEF BestSoFar
    <3>2. MoveWorth(evaluation, Node, m) \in Int
      <4>1. m \in Replies(Node.pos, Node.depth) /\ Node.ply \in 0 .. MaxPly - 1
        BY AmongMoves DEF Done
      <4>. QED  BY <1>6, <1>7, <4>1, EvaluationScored, SearchedValue DEF InBand, MoveWorth
    <3>. HIDE DEF MoveWorth
    <3>. QED  BY <1>4, <1>16, <3>1, <3>2
  <2>. QED  BY <1>13, <1>16, <2>1, <2>2
<1>18. Resting(c.pos, c.depth) => evaluation[c.pos] <= c.best
  <2>1. evaluation[Node.pos] \in Int
    BY <1>6, Evaluated, Going
  <2>. QED  BY <1>4, <1>7, <1>9, <1>16, <2>1 DEF BestSoFar
<1>19. \A m \in c.failed : c.fn = "main" /\ MoveWorth(evaluation, c, m) < c.beta
  <2>1. \A m : MoveWorth(evaluation, c, m) = MoveWorth(evaluation, Node, m)
    BY <1>9 DEF MoveWorth
  <2>2. \A m \in Node.failed : Node.fn = "main" /\ MoveWorth(evaluation, Node, m) < Node.beta
    BY <1>7 DEF BestSoFar
  <2>. QED  BY <1>9, <1>11, <1>16, <2>1, <2>2
<1>20. /\ c.best > c.original =>
            /\ c.best <= Value(evaluation, c.pos, c.depth, c.ply)
            /\ Keeps(evaluation, c.pv, c.pos, c.depth, c.ply, c.best)
       /\ c.best <= c.original => c.pv = << >>
  <2>1. CASE value > Node.alpha
    <3>1. c.best = value /\ c.best > c.original /\ c.pv = Line
      BY <1>3, <1>4, <1>9, <2>1 DEF MaxOf
    <3>2. worth = value /\ Keeps(evaluation, answer.pv, Node.move, Node.depth - 1, Node.ply + 1, -value)
      BY <1>3, <2>1
    <3>3. c.best <= Value(evaluation, c.pos, c.depth, c.ply)
      BY <1>3, <1>9, <3>1, <3>2 DEF Sought
    <3>4. Keeps(evaluation, c.pv, c.pos, c.depth, c.ply, c.best)
      <4>1. Value(evaluation, Node.move, Node.depth - 1, Node.ply + 1) = -value
        <5>1. Value(evaluation, Node.move, Node.depth - 1, Node.ply + 1) \in Int
          BY MoveAnswered
        <5>. QED  BY <1>3, <1>10, <3>2, <5>1
      <4>2. Node.depth \in Int /\ Node.ply \in Int
        BY <1>4, <1>6
      <4>3. Keeps(evaluation, <<Node.move>> \o answer.pv, Node.pos, Node.depth, Node.ply, value)
        BY <1>3, <1>5, <3>2, <4>1, <4>2, LineKeeps
      <4>4. Keeps(evaluation, Line, Node.pos, Node.depth, Node.ply, value)
        BY <4>3, EmptyKeeps DEF Line
      <4>. QED  BY <1>9, <3>1, <4>4
    <3>. QED  BY <1>4, <1>9, <1>16, <3>1, <3>3, <3>4
  <2>2. CASE ~(value > Node.alpha)
    <3>1. c.pv = Node.pv /\ c.original = Node.original
      BY <1>9, <2>2
    <3>2. c.best > c.original => c.best = Node.best
      BY <1>3, <1>4, <1>9, <2>2 DEF MaxOf
    <3>3. c.best <= c.original => Node.best <= Node.original
      BY <1>4, <1>9, <1>16
    <3>4. /\ Node.best > Node.original =>
               /\ Node.best <= Value(evaluation, Node.pos, Node.depth, Node.ply)
               /\ Keeps(evaluation, Node.pv, Node.pos, Node.depth, Node.ply, Node.best)
          /\ Node.best <= Node.original => Node.pv = << >>
      BY <1>7 DEF BestSoFar
    <3>. QED  BY <1>9, <3>1, <3>2, <3>3, <3>4
  <2>. QED  BY <2>1, <2>2
<1>21. BestSoFar(evaluation, c)
  BY <1>16, <1>17, <1>18, <1>19, <1>20, Zenon DEF BestSoFar
<1>22. Knows(evaluation, c, LowHere, HighHere)
  BY <1>7, <1>9, <1>14, <1>15, <1>21 DEF Knows, Searches
<1>23. StackKnown(distance)'
  BY <1>1, <1>2, <1>9, <1>12, <1>22, KnownResume DEF Exact, LowHere, HighHere
<1>24. AnswerKnown'
  <2>1. stack' # << >>
    BY <1>1, <1>12, Resumed DEF CleanInv
  <2>. QED  BY <1>1, <2>1, SilentIsAnswer DEF AnswerKnown
<1>25. TableKnown(distance)' /\ TableIsTrue' /\ LearnedIsTrue'
  BY <1>1, TableStill DEF Exact
<1>. QED  BY <1>23, <1>24, <1>25 DEF Exact

LEMMA SearchedIsExact ==
    ASSUME CleanInv, NEW distance, Exact(distance), Searched
    PROVE  Exact(distance)'
<1>1. stack # << >> /\ Node.pc = "searched" /\ answer.given /\ Unmake /\ Unmoved
  BY DEF Searched, Answered, At, Aside, Unmoved
<1>2. BoardKept
  BY <1>1, TakenBack
<1>3. CASE stop /\ Give(Node.alpha, << >>, TRUE) /\ Remembered
  BY <1>1, <1>2, <1>3, AbortedIsExact
<1>4. CASE ~stop /\ BetaCutoff(-answer.value)
  BY <1>1, <1>4, BetaCutoffIsExact
<1>5. CASE ~stop /\ KeepBest(-answer.value)
  BY <1>1, <1>5, KeepBestIsExact
<1>. QED  BY <1>3, <1>4, <1>5 DEF Searched

LEMMA EndMovesIsExact ==
    ASSUME CleanInv, NEW distance, Exact(distance), EndMoves
    PROVE  Exact(distance)'
<1>1. /\ stack # << >> /\ Node.pc = "loop" /\ ~answer.given /\ Node.left = {} /\ OnBoard
      /\ learned' = learned /\ search_ply' = search_ply /\ evaluation' = evaluation /\ setting' = setting
  BY DEF EndMoves, Running, At, OnBoard
<1>2. /\ Board = Node.pos /\ search_ply = Node.ply /\ FieldsTyped(Node) /\ BoardKept /\ Unmoved
      /\ Scored(evaluation) /\ tt \in [Positions -> Record]
  BY <1>1, Going, OnBoardKeeps, EvaluationScored DEF CleanInv, Typed
<1>3. Node.pos \in Positions /\ Node.depth \in Nat /\ Node.count \in Nat /\ Node.pv \in Seq(Positions)
  BY <1>2, Zenon DEF FieldsTyped
<1>4. /\ LowHere \in Int /\ HighHere \in Int /\ Node.original \in Int /\ Node.best \in Int
      /\ Node.alpha \in Int /\ Node.beta \in Int
      /\ LowHere <= Node.original /\ Node.alpha < Node.beta /\ Node.best <= Node.alpha /\ Node.beta <= HighHere
      /\ LowHere < Node.original => Node.original = MatedAt(Node.ply)
  BY <1>1, OpenedWindow
<1>5. /\ Node.pos \notin Drawn /\ Node.ply \in 0 .. MaxPly - 1 /\ Node.ply = distance[Node.pos]
      /\ Node.depth = Remaining(DepthAsked, Node.ply) /\ InTheMoves(Node) /\ BestSoFar(evaluation, Node)
  BY <1>1, AmongMoves
<1>6. /\ Node.fn = "main" => Node.depth > 0
      /\ Node.fn # "main" => Node.fn = "quiescence" /\ Node.depth = 0
  BY <1>1, Deep
<1>7. InBand(Sought, Node.ply)
  BY <1>1, SoughtInBand
<1>8. LearnedIsTrue'
  BY <1>1, LessonsStill DEF Exact
<1>9. CASE Terminal
  <2>. DEFINE value == IF Board \in Checked THEN MatedAt(search_ply) ELSE 0
  <2>1. Give(value, << >>, FALSE) /\ StoreIn(Board, NullMove, value, Node.depth, "Exact")
    BY <1>9 DEF EndMoves
  <2>2. Replies(Node.pos, Node.depth) = {} /\ ~Resting(Node.pos, Node.depth)
    <3>1. Node.count = 0 /\ (Node.fn = "main" \/ Board \in Checked)
      BY <1>9 DEF Terminal
    <3>2. Replies(Node.pos, Node.depth) = {}
      BY <1>1, <1>5, <3>1 DEF InTheMoves
    <3>. QED  BY <1>2, <1>3, <1>6, <3>1, <3>2 DEF Resting
  <2>3. Sought = value
    <3>1. Sought = IF Node.pos \in Checked THEN MatedAt(Node.ply) ELSE 0
      BY <1>2, <1>3, <1>5, <2>2, SearchedValue DEF Sought
    <3>. QED  BY <1>2, <3>1
  <2>. HIDE DEF value
  <2>4. value \in Int /\ IsTrue(value, LowHere, HighHere, Sought)
    BY <1>4, <1>7, <2>3 DEF IsTrue, InBand
  <2>5. TableKnown(distance)' /\ TableIsTrue'
    BY <1>1, <1>2, <1>3, <1>5, <2>1, <2>3, <2>4, StoredIsTrue DEF Exact, Sought
  <2>. QED  BY <1>1, <1>2, <1>8, <2>1, <2>4, <2>5, GivenIsExact
<1>10. CASE ~Terminal
  <2>. DEFINE bound == BoundForWindow(Node.best, Node.original, Node.beta)
  <2>1. Give(Node.best, Node.pv, FALSE) /\ StoreIn(Board, Node.best_move, Node.best, Node.depth, bound)
    BY <1>10 DEF EndMoves
  <2>2. Replies(Node.pos, Node.depth) # {} \/ Resting(Node.pos, Node.depth)
    <3>1. Node.count > 0 \/ (Node.fn # "main" /\ Board \notin Checked)
      BY <1>3, <1>10 DEF Terminal
    <3>2. CASE Node.count > 0
      BY <1>5, <3>2 DEF InTheMoves
    <3>3. CASE Node.fn # "main" /\ Board \notin Checked
      BY <1>2, <1>6, <3>3 DEF Resting
    <3>. QED  BY <3>1, <3>2, <3>3
  <2>3. Sought <= Node.best
    <3>1. \A m \in Replies(Node.pos, Node.depth) : -Value(evaluation, m, Node.depth - 1, Node.ply + 1) <= Node.best
      <4>1. Done(Node) = Replies(Node.pos, Node.depth)
        BY <1>1 DEF Done
      <4>. QED  BY <1>5, <4>1, Zenon DEF BestSoFar, MoveWorth
    <3>2. Resting(Node.pos, Node.depth) => evaluation[Node.pos] <= Node.best
      BY <1>5 DEF BestSoFar
    <3>. QED  BY <1>2, <1>3, <1>4, <1>5, <2>2, <3>1, <3>2, SearchedValue DEF Sought
  <2>4. /\ Node.best > Node.original =>
             Node.best <= Sought /\ Keeps(evaluation, Node.pv, Node.pos, Node.depth, Node.ply, Node.best)
        /\ Node.best <= Node.original => Node.pv = << >>
    BY <1>5, Zenon DEF BestSoFar, Sought
  <2>5. Sought \in Int /\ MatedAt(Node.ply) <= Sought /\ MatedAt(Node.ply) \in Int
    BY <1>5, <1>7, Bands DEF InBand, MatedAt
  <2>6. Node.best > Node.original => Sought = Node.best
    BY <1>4, <2>3, <2>4, <2>5
  <2>7. Node.best > LowHere => Sought = Node.best
    BY <1>4, <2>3, <2>5, <2>6
  <2>8. IsTrue(Node.best, LowHere, HighHere, Sought)
    <3>1. CASE Node.best <= LowHere
      <4>1. ~(Node.best >= HighHere)
        BY <1>4
      <4>. QED  BY <2>3, <3>1, <4>1 DEF IsTrue
    <3>2. CASE ~(Node.best <= LowHere)
      <4>1. Sought = Node.best
        BY <1>4, <2>7, <3>2
      <4>. QED  BY <1>4, <3>2, <4>1 DEF IsTrue
    <3>. QED  BY <3>1, <3>2
  <2>9. Fits(evaluation, Node.best, Node.pv, LowHere, HighHere, Node.pos, Node.depth, Node.ply)
    <3>1. Node.best <= LowHere => Node.pv = << >>
      BY <1>4, <2>4
    <3>2. Keeps(evaluation, Node.pv, Node.pos, Node.depth, Node.ply, Node.best)
      BY <1>4, <2>4, EmptyKeeps
    <3>. QED  BY <2>8, <3>1, <3>2, Zenon DEF Fits, Sought
  <2>10. StackKnown(distance)' /\ AnswerKnown'
    BY <1>1, <1>2, <1>3, <2>1, <2>9, KnownGive DEF Exact, LowHere, HighHere
  <2>11. \/ bound = "Exact" /\ Sought = Node.best
         \/ bound = "Upper" /\ Sought <= Node.best
    BY <1>4, <2>3, <2>6 DEF BoundForWindow
  <2>. HIDE DEF bound
  <2>12. TableKnown(distance)' /\ TableIsTrue'
    BY <1>1, <1>2, <1>3, <1>4, <1>5, <2>1, <2>11, StoredIsTrue DEF Exact, Sought
  <2>. QED  BY <1>8, <2>10, <2>12 DEF Exact
<1>. QED  BY <1>9, <1>10

-----------------------------------------------------------------------------
(* Where nothing is pruned everything that is found is true.                 *)

LEMMA InitIsExact == ASSUME NEW distance, Init PROVE Exact(distance)
<1>. USE DEF Init
<1>1. StackKnown(distance)
  BY DEF StackKnown
<1>2. AnswerKnown
  BY SilentIsAnswer DEF AnswerKnown
<1>3. TableKnown(distance) /\ TableIsTrue
  BY DEF TableKnown, RecordPlaced, TableIsTrue, NoRecord
<1>4. LearnedIsTrue
  BY DEF LearnedIsTrue
<1>. QED  BY <1>1, <1>2, <1>3, <1>4 DEF Exact

LEMMA NextIsExact ==
    ASSUME NEW distance, Graded(distance), CleanInv, ExactInv(distance), [Next]_vars
    PROVE  ExactInv(distance)'
<1>1. CASE UNCHANGED vars
  BY <1>1 DEF vars, ExactInv, Exact, StackKnown, AnswerKnown, TableKnown, TableIsTrue, LearnedIsTrue, Worth,
     DepthAsked, LowOf, HighOf, Played, Place, Node, Last
<1>2. CASE Next
  <2>1. setting' = setting
    <3>1. CASE OnBoard \/ Aside
      BY <3>1 DEF OnBoard, Aside
    <3>2. CASE \E window \in setting.windows, depth \in setting.depths, node \in {"Pv", "NonPv"} :
                 Ask(window, depth, node)
      BY <3>2 DEF Ask
    <3>3. RequestStop => setting' = setting
      BY DEF RequestStop
    <3>4. Abort \/ Exit \/ DropToQuiescence \/ MateDistance \/ TakeTtScore \/ OpenMain \/ StandPatCutoff
            \/ OpenQuiescence \/ Razor \/ Razored \/ SkipNull \/ Scouted \/ EndMoves => OnBoard
      BY Zenon DEF Abort, Exit, DropToQuiescence, MateDistance, TakeTtScore, OpenMain, StandPatCutoff,
         OpenQuiescence, Razor, Razored, SkipNull, Scouted, EndMoves
    <3>5. NullTry \/ Nulled \/ Searched => Aside
      BY Zenon DEF NullTry, Nulled, Searched
    <3>6. PickMove => OnBoard \/ Aside
      BY Zenon DEF PickMove, PruneQuiet, SearchMove
    <3>. QED  BY <1>2, <3>1, <3>2, <3>3, <3>4, <3>5, <3>6, Zenon DEF Next
  <2>. SUFFICES ASSUME ~setting.pruning, Exact(distance) PROVE Exact(distance)'
    BY <2>1 DEF ExactInv
  <2>2. CASE \E window \in setting.windows, depth \in setting.depths, node \in {"Pv", "NonPv"} :
               Ask(window, depth, node)
    BY <2>2, AskIsExact
  <2>3. CASE RequestStop \/ Abort \/ Exit \/ DropToQuiescence \/ MateDistance \/ TakeTtScore
    BY <2>3, RequestStopIsExact, AbortIsExact, ExitIsExact, DropToQuiescenceIsExact, MateDistanceIsExact,
       TakeTtScoreIsExact
  <2>4. CASE OpenMain \/ StandPatCutoff \/ OpenQuiescence
    BY <2>4, OpenMainIsExact, StandPatCutoffIsExact, OpenQuiescenceIsExact
  <2>5. CASE PickMove
    BY <2>5, NeverPruned, SearchMoveIsExact DEF PickMove
  <2>6. CASE Scouted \/ Searched \/ EndMoves
    BY <2>6, ScoutedIsExact, SearchedIsExact, EndMovesIsExact
  <2>. QED  BY <1>2, <2>2, <2>3, <2>4, <2>5, <2>6, NeverPruned DEF Next
<1>. QED  BY <1>1, <1>2

LEMMA ExactIsEnough == ASSUME NEW distance, ExactInv(distance), CleanInv PROVE SearchIsTrue
<1>. SUFFICES ASSUME Exact(distance) PROVE AnswerIsTrue /\ TableIsTrue /\ LearnedIsTrue /\ VariationKeepsValue
  BY DEF ExactInv, SearchIsTrue
<1>1. ASSUME stack = << >>, answer.given, ~answer.aborted
      PROVE  Fits(evaluation, answer.value, answer.pv, asked.alpha, asked.beta, Root, asked.depth, FirstPly)
  BY <1>1 DEF Exact, AnswerKnown
<1>2. AnswerIsTrue
  BY <1>1 DEF AnswerIsTrue, Fits, Worth
<1>3. VariationKeepsValue
  <2>. SUFFICES ASSUME stack = << >>, answer.given, ~answer.aborted,
                       asked.alpha < answer.value, answer.value < asked.beta,
                       NEW i \in DOMAIN answer.pv
                PROVE  LET from == IF i = 1 THEN Root ELSE answer.pv[i - 1]
                           v == Worth(answer.pv[i], asked.depth - i, FirstPly + i)
                       IN  answer.pv[i] \in Moves[from] /\ answer.value = IF i % 2 = 1 THEN -v ELSE v
    BY DEF VariationKeepsValue
  <2>. DEFINE v == Worth(answer.pv[i], asked.depth - i, FirstPly + i)
  <2>1. Keeps(evaluation, answer.pv, Root, asked.depth, FirstPly, answer.value)
    BY <1>1, Zenon DEF Fits
  <2>2. /\ answer.pv[i] \in Moves[IF i = 1 THEN Root ELSE answer.pv[i - 1]]
        /\ v = IF i % 2 = 1 THEN -answer.value ELSE answer.value
    BY <2>1, Zenon DEF Keeps, Worth
  <2>3. answer.value \in Int
    BY DEF CleanInv, Typed, Answer
  <2>. HIDE DEF v
  <2>4. answer.value = IF i % 2 = 1 THEN -v ELSE v
    BY <2>2, <2>3
  <2>. QED  BY <2>2, <2>4 DEF v
<1>. QED  BY <1>2, <1>3 DEF Exact

\* Without pruning every answer, record, lesson and variation of the search is
\* true of the game's minimax, for every evaluation, window, depth, order of
\* moves and stop, on games where a position arises at one distance from the
\* root and is asked for at one depth (alphabeta, quiescence).
THEOREM SearchFindsTheValue == ASSUME NEW distance, Graded(distance) PROVE Spec => []SearchIsTrue
<1>1. Init => CleanInv /\ ExactInv(distance)
  BY InitIsClean, InitIsExact DEF ExactInv
<1>2. CleanInv /\ ExactInv(distance) /\ [Next]_vars => (CleanInv /\ ExactInv(distance))'
  BY NextIsClean, NextIsExact
<1>3. CleanInv /\ ExactInv(distance) => SearchIsTrue
  BY ExactIsEnough
<1>. QED  BY <1>1, <1>2, <1>3, PTL DEF Spec
===============================================================================
