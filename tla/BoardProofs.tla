----------------------------- MODULE BoardProofs -----------------------------
(* Board and Game: every board a game reaches is in order, and unmake takes *)
(* back exactly what make did, for every position, move and length of game. *)
(* The argument: the three operations on the pieces keep their copies, the  *)
(* key and the kings together, and undo one another; a pseudo-legal move     *)
(* finds its pieces where make looks for them; so the stages of make keep a  *)
(* board in order, and those of unmake meet them in the opposite order.     *)
(* Captures and pawn moves use up what never comes back, so a repetition    *)
(* lies within the clock, which is where the draw test looks for it.        *)
EXTENDS Game, FiniteSetTheorems, TLAPS

Bitboards == [Colors -> [Slots -> SUBSET Squares]]
Tallies == [Colors -> [Slots -> Int]]
Placed(squares) == DOMAIN squares \subseteq Squares /\ squares \in [DOMAIN squares -> Colors \X PieceTypes]

SamePieces(x, y) ==
  x.squares = y.squares /\ x.bb = y.bb /\ x.count = y.count /\ x.terms = y.terms
SameSide(x, y) == x.king = y.king /\ x.turn = y.turn /\ x.ply = y.ply
\* The stacks agree below the top, and the tops on the move and what it took.
SameStack(x, y) ==
  /\ Len(x.states) = Len(y.states)
  /\ \A i \in 1 .. Len(y.states) - 1 : x.states[i] = y.states[i]
SameMove(x, y) == Top(x).move = Top(y).move /\ Top(x).captured = Top(y).captured

\* The board with these fields.
Exactly(squares, bb, count, king, turn, ply, terms, states) ==
  [squares : {squares}, bb : {bb}, count : {count}, king : {king}, turn : {turn},
   ply : {ply}, terms : {terms}, states : {states}]
Itself(b) ==
  b \in Exactly(b.squares, b.bb, b.count, b.king, b.turn, b.ply, b.terms, b.states)

\* The fields of a well-typed board.
LEMMA Fields ==
  ASSUME NEW b, WellTyped(b)
  PROVE  /\ Itself(b)
         /\ b.bb \in Bitboards
         /\ b.count \in Tallies
         /\ b.king \in [Colors -> Squares] /\ b.turn \in Colors /\ b.ply \in Nat
         /\ b.terms \in [material : Int, bonus : Int]
         /\ b.states \in Seq(PlyStates) /\ b.states # << >>
         /\ Placed(b.squares)
         /\ Top(b) \in PlyStates
BY DEF WellTyped, Top, Itself, Exactly, Bitboards, Tallies, Placed

\* A board with typed fields is well typed.
LEMMA FieldsSuffice ==
  ASSUME NEW b, Itself(b), Placed(b.squares),
         b.bb \in Bitboards,
         b.count \in Tallies,
         b.king \in [Colors -> Squares], b.turn \in Colors, b.ply \in Nat,
         b.terms \in [material : Int, bonus : Int], b.states \in Seq(PlyStates), b.states # << >>
  PROVE  WellTyped(b)
BY DEF WellTyped, Itself, Exactly, Bitboards, Tallies, Placed

\* Two boards with the same fields are the same.
LEMMA SameBoard ==
  ASSUME NEW x, NEW y, Itself(x), Itself(y), SamePieces(x, y), SameSide(x, y), x.states = y.states
  PROVE  x = y
BY DEF Itself, Exactly, SamePieces, SameSide

\* Replacing the top of the stack changes nothing else.
LEMMA NewTop ==
  ASSUME NEW b, WellTyped(b), NEW s \in PlyStates
  PROVE  LET r == WithTop(b, s) IN
         /\ WellTyped(r) /\ Top(r) = s
         /\ SamePieces(r, b) /\ SameSide(r, b) /\ SameStack(r, b)
<1> DEFINE t == [b.states EXCEPT ![Len(b.states)] = s]
<1>1. /\ t \in Seq(PlyStates) /\ Len(t) = Len(b.states) /\ t[Len(b.states)] = s /\ t # << >>
      /\ \A i \in 1 .. Len(b.states) - 1 : t[i] = b.states[i]
  BY Fields
<1>2. WithTop(b, s) = [b EXCEPT !.states = t]
  BY DEF WithTop
<1> HIDE DEF t
<1> DEFINE r == WithTop(b, s)
<1>3. /\ r.squares = b.squares /\ r.bb = b.bb /\ r.count = b.count /\ r.king = b.king
      /\ r.turn = b.turn /\ r.ply = b.ply /\ r.terms = b.terms /\ r.states = t /\ Itself(r)
  BY <1>2, Fields DEF Itself, Exactly
<1> HIDE DEF r
<1>4. WellTyped(r)
  BY <1>1, <1>3, Fields, FieldsSuffice
<1>5. /\ Top(r) = s
      /\ SamePieces(r, b) /\ SameSide(r, b) /\ SameStack(r, b)
  BY <1>1, <1>3 DEF Top, SamePieces, SameSide, SameStack
<1> QED  BY <1>4, <1>5 DEF r

\* What is hashed into a key is made of features.
LEMMA Features1 ==
  /\ \A c \in Colors, t \in PieceTypes, sq \in Squares : HashPiece(c, t, sq) \subseteq Features
  /\ HashTurn \subseteq Features
  /\ \A sq \in Squares \union {INVALID} : EpKey(sq) \subseteq Features
  /\ \A rights \in SUBSET (Sides \X Colors) : HashCastle(rights) \subseteq Features
  /\ \A x, y \in SUBSET Features : Xor(x, y) \subseteq Features
<1>1. \A c \in Colors, t \in PieceTypes, sq \in Squares : HashPiece(c, t, sq) \subseteq Features
  BY DEF HashPiece, Features
<1>2. HashTurn \subseteq Features
  BY DEF HashTurn, Features
<1>3. \A sq \in Squares : File(sq) \in 0..7
  BY DEF File, Squares
<1>4. \A sq \in Squares \union {INVALID} : EpKey(sq) \subseteq Features
  BY <1>3 DEF EpKey, HashEp, Features
<1>5. \A rights \in SUBSET (Sides \X Colors) : HashCastle(rights) \subseteq Features
  BY DEF HashCastle, Features
<1> QED  BY <1>1, <1>2, <1>4, <1>5 DEF Xor

\* Rehashing changes the key on top and nothing else.
LEMMA Rehashed ==
  ASSUME NEW b, WellTyped(b), NEW h \in BOOLEAN, NEW f \in SUBSET Features
  PROVE  LET r == Rehash(b, h, f) IN
         /\ WellTyped(r) /\ SamePieces(r, b) /\ SameSide(r, b) /\ SameStack(r, b) /\ SameMove(r, b)
         /\ Top(r) = IF h THEN [Top(b) EXCEPT !.zkey = Xor(@, f)] ELSE Top(b)
         /\ ~h => r = b
<1>1. Top(b) \in PlyStates
  BY Fields
<1>2. [Top(b) EXCEPT !.zkey = Xor(@, f)] \in PlyStates
  BY <1>1, Features1 DEF PlyStates
<1>3. CASE h
  BY <1>1, <1>2, <1>3, NewTop DEF Rehash, SameMove, PlyStates
<1>4. CASE ~h
  BY <1>4 DEF Rehash, SamePieces, SameSide, SameStack, SameMove
<1> QED  BY <1>3, <1>4

-----------------------------------------------------------------------------
(* The three operations on the pieces.                                     *)

\* What an operation on the pieces leaves alone, and what it does to the key.
OnlyPieces(r, b, h, f) ==
  /\ WellTyped(r) /\ SameSide(r, b) /\ SameStack(r, b) /\ SameMove(r, b)
  /\ Top(r) = IF h THEN [Top(b) EXCEPT !.zkey = Xor(@, f)] ELSE Top(b)
  /\ ~h => r.states = b.states

TypedPieces(p) ==
  /\ Placed(p.squares)
  /\ p.bb \in Bitboards /\ p.count \in Tallies
  /\ p.terms \in [material : Int, bonus : Int]

\* Boards with other pieces.
WithPieces(b, squares, bb, count, terms) ==
  [b EXCEPT !.squares = squares, !.bb = bb, !.count = count, !.terms = terms]
WithMoved(b, squares, bb, terms) == [b EXCEPT !.squares = squares, !.bb = bb, !.terms = terms]

\* The fields of a board with other pieces.
LEMMA NewPieces ==
  ASSUME NEW b, Itself(b), NEW squares, NEW bb, NEW count, NEW terms
  PROVE  /\ LET p == WithPieces(b, squares, bb, count, terms) IN
            /\ p.squares = squares /\ p.bb = bb /\ p.count = count /\ p.terms = terms
            /\ p.king = b.king /\ p.turn = b.turn /\ p.ply = b.ply /\ p.states = b.states
            /\ Itself(p)
         /\ LET p == WithMoved(b, squares, bb, terms) IN
            /\ p.squares = squares /\ p.bb = bb /\ p.count = b.count /\ p.terms = terms
            /\ p.king = b.king /\ p.turn = b.turn /\ p.ply = b.ply /\ p.states = b.states
            /\ Itself(p)
<1> DEFINE p == WithPieces(b, squares, bb, count, terms)
           q == WithMoved(b, squares, bb, terms)
<1>1. p \in Exactly(squares, bb, count, b.king, b.turn, b.ply, terms, b.states)
  BY DEF Itself, Exactly, WithPieces
<1>2. q \in Exactly(squares, bb, b.count, b.king, b.turn, b.ply, terms, b.states)
  BY DEF Itself, Exactly, WithMoved
<1> HIDE DEF p, q
<1> QED  BY <1>1, <1>2 DEF Itself, Exactly, p, q

\* An operation on the pieces leaves side and history alone.
LEMMA PiecesReplaced ==
  ASSUME NEW b, WellTyped(b), NEW h \in BOOLEAN, NEW f \in SUBSET Features, NEW p, Itself(p),
         TypedPieces(p),
         p.king = b.king, p.turn = b.turn, p.ply = b.ply, p.states = b.states
  PROVE  OnlyPieces(Rehash(p, h, f), b, h, f) /\ SamePieces(Rehash(p, h, f), p)
<1>1. WellTyped(p)
  BY Fields, FieldsSuffice DEF TypedPieces
<1>3. Top(p) = Top(b)
  BY DEF Top
<1> DEFINE r == Rehash(p, h, f)
<1>4. /\ WellTyped(r) /\ SamePieces(r, p) /\ SameSide(r, p) /\ SameStack(r, p) /\ SameMove(r, p)
      /\ Top(r) = IF h THEN [Top(p) EXCEPT !.zkey = Xor(@, f)] ELSE Top(p)
      /\ ~h => r = p
  BY <1>1, Rehashed
<1> HIDE DEF r
<1>5. SamePieces(r, p) /\ SameSide(r, b) /\ SameStack(r, b) /\ SameMove(r, b)
  BY <1>3, <1>4 DEF SameSide, SameStack, SameMove
<1>6. Top(r) = IF h THEN [Top(b) EXCEPT !.zkey = Xor(@, f)] ELSE Top(b)
  BY <1>3, <1>4
<1>7. OnlyPieces(r, b, h, f)
  BY <1>4, <1>5, <1>6 DEF OnlyPieces
<1> QED  BY <1>5, <1>7 DEF r

\* x is bb with sq set, or cleared, in the slots of a piece.
Sets(x, bb, sq, c, t) ==
  \A d \in Colors, u \in Slots :
    x[d][u] = IF d = c /\ u \in {t, AllSlot} THEN bb[d][u] \union {sq} ELSE bb[d][u]
Clears(x, bb, sq, c, t) ==
  \A d \in Colors, u \in Slots :
    x[d][u] = IF d = c /\ u \in {t, AllSlot} THEN bb[d][u] \ {sq} ELSE bb[d][u]

\* Setting and clearing a bit, slot by slot.
LEMMA Bits ==
  ASSUME NEW bb \in Bitboards,
         NEW sq \in Squares, NEW c \in Colors, NEW t \in PieceTypes
  PROVE  /\ WithBit(bb, sq, c, t) \in Bitboards
         /\ WithoutBit(bb, sq, c, t) \in Bitboards
         /\ Sets(WithBit(bb, sq, c, t), bb, sq, c, t)
         /\ Clears(WithoutBit(bb, sq, c, t), bb, sq, c, t)
BY ZenonT(40) DEF Bitboards, WithBit, WithoutBit, Colors, AllSlot, KING, PieceTypes, PAWN, Slots, Sets, Clears

\* Piece values and placement bonuses are numbers.
LEMMA Numbers ==
  ASSUME NEW c \in Colors, NEW t \in PieceTypes, NEW sq \in Squares
  PROVE  MaterialOf(t) \in Int /\ BonusOf(c, t, sq) \in Int /\ SignOf(c) \in {1, -1}
<1>1. MaterialOf(t) \in Int
  BY DEF MaterialOf
<1>2. SignOf(c) \in {1, -1}
  BY DEF SignOf
<1>3. File(sq) \in Int /\ RelativeRank(sq, c) \in Int /\ t \in Int
  BY DEF File, RelativeRank, Rank, Squares, PieceTypes, PAWN, KING
<1>4. Square(File(sq), RelativeRank(sq, c)) + 1 \in Int
  BY <1>3 DEF Square
<1> QED  BY <1>1, <1>2, <1>3, <1>4 DEF BonusOf

\* Scoring a piece, or its move, and back again.
LEMMA TermsTyped ==
  ASSUME NEW terms \in [material : Int, bonus : Int], NEW c \in Colors, NEW t \in PieceTypes,
         NEW sq \in Squares, NEW to \in Squares, NEW n \in {1, -1}
  PROVE  /\ Scored(terms, c, t, sq, n) \in [material : Int, bonus : Int]
         /\ ScoredMove(terms, sq, to, c, t) \in [material : Int, bonus : Int]
         /\ Scored(Scored(terms, c, t, sq, n), c, t, sq, -n) = terms
         /\ ScoredMove(ScoredMove(terms, sq, to, c, t), to, sq, c, t) = terms
<1> DEFINE x == BonusOf(c, t, sq)  y == BonusOf(c, t, to)  s == SignOf(c)  m == MaterialOf(t)
<1>1. x \in Int /\ y \in Int /\ m \in Int /\ s \in {1, -1}
  BY Numbers
<1>2. /\ terms = [material |-> terms.material, bonus |-> terms.bonus]
      /\ terms.material \in Int /\ terms.bonus \in Int
  OBVIOUS
<1>3. \A u : \A k : Scored(u, c, t, sq, k) = [material |-> u.material + k * s * m, bonus |-> u.bonus + k * x]
  BY DEF Scored
<1>4. /\ \A u \in [material : Int, bonus : Int] :
           /\ ScoredMove(u, sq, to, c, t) = [material |-> u.material, bonus |-> u.bonus + y - x]
           /\ ScoredMove(u, to, sq, c, t) = [material |-> u.material, bonus |-> u.bonus + x - y]
  BY DEF ScoredMove
<1> HIDE DEF x, y, s, m
<1>8. /\ ScoredMove(terms, sq, to, c, t) = [material |-> terms.material, bonus |-> terms.bonus + y - x]
      /\ ScoredMove(terms, sq, to, c, t) \in [material : Int, bonus : Int]
  BY <1>1, <1>2, <1>4
<1>9. ScoredMove(ScoredMove(terms, sq, to, c, t), to, sq, c, t)
           = [material |-> terms.material, bonus |-> terms.bonus + y - x + x - y]
  BY <1>4, <1>8
<1>5. /\ n * s * m \in Int /\ n * x \in Int /\ (-n) * s * m = -(n * s * m) /\ (-n) * x = -(n * x)
  BY <1>1
<1> DEFINE p == n * s * m  q == n * x
<1>6. /\ p \in Int /\ q \in Int
      /\ Scored(terms, c, t, sq, n) = [material |-> terms.material + p, bonus |-> terms.bonus + q]
      /\ Scored(Scored(terms, c, t, sq, n), c, t, sq, -n)
           = [material |-> terms.material + p + (-p), bonus |-> terms.bonus + q + (-q)]
  BY <1>3, <1>5
<1> HIDE DEF p, q
<1>7. /\ terms.material + p + (-p) = terms.material /\ terms.bonus + q + (-q) = terms.bonus
      /\ terms.bonus + y - x + x - y = terms.bonus /\ terms.bonus + y - x \in Int
      /\ terms.material + p \in Int /\ terms.bonus + q \in Int
  BY <1>1, <1>2, <1>6
<1> QED  BY <1>2, <1>6, <1>7, <1>8, <1>9

\* Putting a piece on a square and taking one off it.
LEMMA SquaresTyped ==
  ASSUME NEW squares, Placed(squares),
         NEW sq \in Squares, NEW c \in Colors, NEW t \in PieceTypes
  PROVE  /\ DOMAIN Put(squares, sq, c, t) = DOMAIN squares \union {sq}
         /\ Placed(Put(squares, sq, c, t))
         /\ \A s \in DOMAIN squares \union {sq} :
              Put(squares, sq, c, t)[s] = IF s = sq THEN <<c, t>> ELSE squares[s]
         /\ DOMAIN Drop(squares, sq) = DOMAIN squares \ {sq}
         /\ Placed(Drop(squares, sq))
         /\ \A s \in DOMAIN squares \ {sq} : Drop(squares, sq)[s] = squares[s]
BY DEF Placed, Put, Drop

\* Counting a piece, slot by slot.
LEMMA Counts ==
  ASSUME NEW count \in Tallies, NEW c \in Colors, NEW t \in PieceTypes,
         NEW n \in {1, -1}
  PROVE  /\ CountedBy(count, c, t, n) \in Tallies
         /\ \A d \in Colors, u \in Slots :
              CountedBy(count, c, t, n)[d][u] = IF d = c /\ u = t THEN count[d][u] + n ELSE count[d][u]
BY DEF Tallies, CountedBy, Colors, AllSlot, KING, PieceTypes, PAWN, Slots

\* Counted once more and once less is not counted.
LEMMA CountedTwice ==
  ASSUME NEW count \in Tallies, NEW c \in Colors, NEW t \in PieceTypes,
         NEW n \in {1, -1}, NEW k \in {1, -1}, n + k = 0
  PROVE  CountedBy(CountedBy(count, c, t, n), c, t, k) = count
<1> DEFINE g == CountedBy(count, c, t, n)  h == CountedBy(g, c, t, k)
<1>3. g \in Tallies
  BY Counts
<1>4. \A d \in Colors, u \in Slots :
        g[d][u] = IF d = c /\ u = t THEN count[d][u] + n ELSE count[d][u]
  BY Counts
<1> HIDE DEF g
<1>5. /\ h \in Tallies
      /\ \A d \in Colors, u \in Slots :
           h[d][u] = IF d = c /\ u = t THEN g[d][u] + k ELSE g[d][u]
  BY <1>3, Counts
<1> HIDE DEF h
<1>6. ASSUME NEW d \in Colors PROVE h[d] = count[d]
  <2>1. count[d] \in [Slots -> Int]
    BY DEF Tallies
  <2>2. h[d] \in [Slots -> Int]
    BY <1>5 DEF Tallies
  <2>3. ASSUME NEW u \in Slots PROVE h[d][u] = count[d][u]
    <3>1. count[d][u] \in Int
      BY <2>1
    <3>2. n \in Int /\ k \in Int /\ n + k = 0
      OBVIOUS
    <3>3. g[d][u] = IF d = c /\ u = t THEN count[d][u] + n ELSE count[d][u]
      BY <1>4
    <3>4. h[d][u] = IF d = c /\ u = t THEN g[d][u] + k ELSE g[d][u]
      BY <1>5
    <3> QED  BY <3>1, <3>2, <3>3, <3>4
  <2> QED  BY <2>1, <2>2, <2>3
<1>8. h = count
  BY <1>5, <1>6 DEF Tallies
<1> QED  BY <1>8 DEF g, h

\* The same, both ways round.
LEMMA CountedBack ==
  ASSUME NEW count \in Tallies, NEW c \in Colors, NEW t \in PieceTypes
  PROVE  /\ CountedBy(CountedBy(count, c, t, 1), c, t, -1) = count
         /\ CountedBy(CountedBy(count, c, t, -1), c, t, 1) = count
<1>1. 1 + -1 = 0 /\ -1 + 1 = 0
  OBVIOUS
<1> QED  BY <1>1, CountedTwice

\* What add_piece does to each field.
LEMMA Added ==
  ASSUME NEW b, WellTyped(b), NEW sq \in Squares, NEW c \in Colors, NEW t \in PieceTypes,
         NEW h \in BOOLEAN
  PROVE  LET r == AddPiece(b, sq, c, t, h) IN
         /\ OnlyPieces(r, b, h, HashPiece(c, t, sq))
         /\ r.squares = Put(b.squares, sq, c, t)
         /\ r.bb = WithBit(b.bb, sq, c, t)
         /\ r.count = CountedBy(b.count, c, t, 1) /\ r.terms = Scored(b.terms, c, t, sq, 1)
<1>0. TypedPieces(b) /\ Itself(b)
  BY Fields DEF TypedPieces
<1> DEFINE p == WithPieces(b, Put(b.squares, sq, c, t), WithBit(b.bb, sq, c, t),
                  CountedBy(b.count, c, t, 1), Scored(b.terms, c, t, sq, 1))
           f == HashPiece(c, t, sq)
<1>2. AddPiece(b, sq, c, t, h) = Rehash(p, h, f)
  BY DEF AddPiece, WithPieces
<1>3. f \in SUBSET Features
  BY Features1
<1>1. /\ p.squares = Put(b.squares, sq, c, t)
      /\ p.bb = WithBit(b.bb, sq, c, t)
      /\ p.count = CountedBy(b.count, c, t, 1)
      /\ p.terms = Scored(b.terms, c, t, sq, 1)
      /\ p.king = b.king /\ p.turn = b.turn /\ p.ply = b.ply /\ p.states = b.states
      /\ Itself(p)
  BY <1>0, NewPieces
<1> HIDE DEF p, f
<1>4. WithBit(b.bb, sq, c, t) \in Bitboards
  BY <1>0, Bits DEF TypedPieces
<1>5. CountedBy(b.count, c, t, 1) \in Tallies
  BY <1>0, Counts DEF TypedPieces
<1>6. Scored(b.terms, c, t, sq, 1) \in [material : Int, bonus : Int]
  BY <1>0, TermsTyped DEF TypedPieces
<1>7. /\ Placed(Put(b.squares, sq, c, t))
  BY <1>0, SquaresTyped DEF TypedPieces
<1>8. TypedPieces(p)
  BY <1>1, <1>4, <1>5, <1>6, <1>7 DEF TypedPieces
<1>9. OnlyPieces(Rehash(p, h, f), b, h, f) /\ SamePieces(Rehash(p, h, f), p)
  BY <1>1, <1>3, <1>8, PiecesReplaced
<1> QED  BY <1>1, <1>2, <1>9 DEF SamePieces, f

\* What remove_piece does to each field.
LEMMA Removed ==
  ASSUME NEW b, WellTyped(b), NEW sq \in Squares, NEW c \in Colors, NEW t \in PieceTypes,
         NEW h \in BOOLEAN
  PROVE  LET r == RemovePiece(b, sq, c, t, h) IN
         /\ OnlyPieces(r, b, h, HashPiece(c, t, sq))
         /\ r.squares = Drop(b.squares, sq)
         /\ r.bb = WithoutBit(b.bb, sq, c, t)
         /\ r.count = CountedBy(b.count, c, t, -1) /\ r.terms = Scored(b.terms, c, t, sq, -1)
<1>0. TypedPieces(b) /\ Itself(b)
  BY Fields DEF TypedPieces
<1> DEFINE p == WithPieces(b, Drop(b.squares, sq), WithoutBit(b.bb, sq, c, t),
                  CountedBy(b.count, c, t, -1), Scored(b.terms, c, t, sq, -1))
           f == HashPiece(c, t, sq)
<1>2. RemovePiece(b, sq, c, t, h) = Rehash(p, h, f)
  BY DEF RemovePiece, WithPieces
<1>3. f \in SUBSET Features
  BY Features1
<1>1. /\ p.squares = Drop(b.squares, sq)
      /\ p.bb = WithoutBit(b.bb, sq, c, t)
      /\ p.count = CountedBy(b.count, c, t, -1)
      /\ p.terms = Scored(b.terms, c, t, sq, -1)
      /\ p.king = b.king /\ p.turn = b.turn /\ p.ply = b.ply /\ p.states = b.states
      /\ Itself(p)
  BY <1>0, NewPieces
<1> HIDE DEF p, f
<1>4. WithoutBit(b.bb, sq, c, t) \in Bitboards
  BY <1>0, Bits DEF TypedPieces
<1>5. CountedBy(b.count, c, t, -1) \in Tallies
  BY <1>0, Counts DEF TypedPieces
<1>6. Scored(b.terms, c, t, sq, -1) \in [material : Int, bonus : Int]
  BY <1>0, TermsTyped DEF TypedPieces
<1>7. /\ Placed(Drop(b.squares, sq))
  BY <1>0, SquaresTyped DEF TypedPieces
<1>8. TypedPieces(p)
  BY <1>1, <1>4, <1>5, <1>6, <1>7 DEF TypedPieces
<1>9. OnlyPieces(Rehash(p, h, f), b, h, f) /\ SamePieces(Rehash(p, h, f), p)
  BY <1>1, <1>3, <1>8, PiecesReplaced
<1> QED  BY <1>1, <1>2, <1>9 DEF SamePieces, f

\* What move_piece does to each field.
LEMMA Moved ==
  ASSUME NEW b, WellTyped(b), NEW from \in Squares, NEW to \in Squares, NEW c \in Colors,
         NEW t \in PieceTypes, NEW h \in BOOLEAN
  PROVE  LET r == MovePiece(b, from, to, c, t, h) IN
         /\ OnlyPieces(r, b, h, Xor(HashPiece(c, t, from), HashPiece(c, t, to)))
         /\ r.squares = Put(Drop(b.squares, from), to, c, t)
         /\ r.bb = WithBit(WithoutBit(b.bb, from, c, t), to, c, t)
         /\ r.count = b.count /\ r.terms = ScoredMove(b.terms, from, to, c, t)
<1>0. TypedPieces(b) /\ Itself(b)
  BY Fields DEF TypedPieces
<1> DEFINE p == WithMoved(b, Put(Drop(b.squares, from), to, c, t), WithBit(WithoutBit(b.bb, from, c, t), to, c, t),
                  ScoredMove(b.terms, from, to, c, t))
           f == Xor(HashPiece(c, t, from), HashPiece(c, t, to))
<1>2. MovePiece(b, from, to, c, t, h) = Rehash(p, h, f)
  BY DEF MovePiece, WithMoved
<1>3. f \in SUBSET Features
  BY Features1
<1>1. /\ p.squares = Put(Drop(b.squares, from), to, c, t)
      /\ p.bb = WithBit(WithoutBit(b.bb, from, c, t), to, c, t)
      /\ p.count = b.count
      /\ p.terms = ScoredMove(b.terms, from, to, c, t)
      /\ p.king = b.king /\ p.turn = b.turn /\ p.ply = b.ply /\ p.states = b.states
      /\ Itself(p)
  BY <1>0, NewPieces
<1> HIDE DEF p, f
<1>4. WithBit(WithoutBit(b.bb, from, c, t), to, c, t) \in Bitboards
  BY <1>0, Bits DEF TypedPieces
<1>5. b.count \in Tallies
  BY <1>0, Counts DEF TypedPieces
<1>6. ScoredMove(b.terms, from, to, c, t) \in [material : Int, bonus : Int]
  BY <1>0, TermsTyped DEF TypedPieces
<1>7. /\ Placed(Put(Drop(b.squares, from), to, c, t))
  BY <1>0, SquaresTyped DEF TypedPieces
<1>8. TypedPieces(p)
  BY <1>1, <1>4, <1>5, <1>6, <1>7 DEF TypedPieces
<1>9. OnlyPieces(Rehash(p, h, f), b, h, f) /\ SamePieces(Rehash(p, h, f), p)
  BY <1>1, <1>3, <1>8, PiecesReplaced
<1> QED  BY <1>1, <1>2, <1>9 DEF SamePieces, f

-----------------------------------------------------------------------------
(* Operations that undo one another.                                       *)

\* A piece put on an empty square and dropped, or dropped and put back.
LEMMA DropPut ==
  ASSUME NEW squares, Placed(squares),
         NEW sq \in Squares, NEW c \in Colors, NEW t \in PieceTypes
  PROVE  /\ sq \notin DOMAIN squares => Drop(Put(squares, sq, c, t), sq) = squares
         /\ sq \in DOMAIN squares /\ squares[sq] = <<c, t>> => Put(Drop(squares, sq), sq, c, t) = squares
BY DEF Placed, Put, Drop

\* Bitboards that agree slot by slot are equal.
LEMMA SameBits ==
  ASSUME NEW x \in Bitboards, NEW y \in Bitboards,
         \A d \in Colors, u \in Slots : x[d][u] = y[d][u]
  PROVE  x = y
<1>1. \A d \in Colors : x[d] \in [Slots -> SUBSET Squares] /\ y[d] \in [Slots -> SUBSET Squares]
  BY DEF Bitboards
<1>2. \A d \in Colors : x[d] = y[d]
  BY <1>1
<1> QED  BY <1>2 DEF Bitboards

\* A bit set where there was none and cleared, or cleared and set again.
LEMMA Clear ==
  ASSUME NEW bb \in Bitboards,
         NEW sq \in Squares, NEW c \in Colors, NEW t \in PieceTypes
  PROVE  /\ sq \notin bb[c][t] /\ sq \notin bb[c][AllSlot] =>
              WithoutBit(WithBit(bb, sq, c, t), sq, c, t) = bb
         /\ sq \in bb[c][t] /\ sq \in bb[c][AllSlot] =>
              WithBit(WithoutBit(bb, sq, c, t), sq, c, t) = bb
<1>1. t \in Slots /\ AllSlot \in Slots
  BY DEF PieceTypes, Slots, AllSlot, PAWN, KING
<1> DEFINE w == WithBit(bb, sq, c, t)  o == WithoutBit(bb, sq, c, t)
           wo == WithoutBit(w, sq, c, t)  ow == WithBit(o, sq, c, t)
<1>3. /\ w \in Bitboards /\ o \in Bitboards
      /\ Sets(w, bb, sq, c, t) /\ Clears(o, bb, sq, c, t)
  BY Bits
<1> HIDE DEF w, o
<1>4. /\ wo \in Bitboards /\ ow \in Bitboards
      /\ Clears(wo, w, sq, c, t) /\ Sets(ow, o, sq, c, t)
  BY <1>3, Bits
<1> HIDE DEF wo, ow
<1>5. ASSUME sq \notin bb[c][t], sq \notin bb[c][AllSlot] PROVE wo = bb
  <2>1. ASSUME NEW d \in Colors, NEW u \in Slots PROVE wo[d][u] = bb[d][u]
    <3>1. /\ w[d][u] = IF d = c /\ u \in {t, AllSlot} THEN bb[d][u] \union {sq} ELSE bb[d][u]
          /\ wo[d][u] = IF d = c /\ u \in {t, AllSlot} THEN w[d][u] \ {sq} ELSE w[d][u]
      BY <1>3, <1>4 DEF Sets, Clears
    <3>2. d = c /\ u \in {t, AllSlot} => sq \notin bb[d][u]
      BY <1>5
    <3> QED  BY <3>1, <3>2
  <2> QED  BY <1>4, <2>1, SameBits
<1>6. ASSUME sq \in bb[c][t], sq \in bb[c][AllSlot] PROVE ow = bb
  <2>1. ASSUME NEW d \in Colors, NEW u \in Slots PROVE ow[d][u] = bb[d][u]
    <3>1. /\ o[d][u] = IF d = c /\ u \in {t, AllSlot} THEN bb[d][u] \ {sq} ELSE bb[d][u]
          /\ ow[d][u] = IF d = c /\ u \in {t, AllSlot} THEN o[d][u] \union {sq} ELSE o[d][u]
      BY <1>3, <1>4 DEF Sets, Clears
    <3>2. d = c /\ u \in {t, AllSlot} => sq \in bb[d][u]
      BY <1>6
    <3> QED  BY <3>1, <3>2
  <2> QED  BY <1>4, <2>1, SameBits
<1> QED  BY <1>5, <1>6 DEF w, o, wo, ow

\* A piece stands on sq, and all copies say so; none does.
Stands(b, sq, c, t) ==
  /\ sq \in DOMAIN b.squares /\ b.squares[sq] = <<c, t>>
  /\ sq \in b.bb[c][t] /\ sq \in b.bb[c][AllSlot]
Free(b, sq, c, t) == sq \notin DOMAIN b.squares /\ sq \notin b.bb[c][t] /\ sq \notin b.bb[c][AllSlot]

\* The operations see no more of a board than its pieces.
LEMMA Alike ==
  ASSUME NEW x, NEW y, WellTyped(x), WellTyped(y), SamePieces(x, y), NEW sq \in Squares, NEW to \in Squares,
         NEW c \in Colors, NEW t \in PieceTypes, NEW g \in BOOLEAN, NEW h \in BOOLEAN
  PROVE  /\ SamePieces(AddPiece(x, sq, c, t, g), AddPiece(y, sq, c, t, h))
         /\ SamePieces(RemovePiece(x, sq, c, t, g), RemovePiece(y, sq, c, t, h))
         /\ SamePieces(MovePiece(x, sq, to, c, t, g), MovePiece(y, sq, to, c, t, h))
<1>1. SamePieces(AddPiece(x, sq, c, t, g), AddPiece(y, sq, c, t, h))
  BY Added DEF SamePieces
<1>2. SamePieces(RemovePiece(x, sq, c, t, g), RemovePiece(y, sq, c, t, h))
  BY Removed DEF SamePieces
<1>3. SamePieces(MovePiece(x, sq, to, c, t, g), MovePiece(y, sq, to, c, t, h))
  BY Moved DEF SamePieces
<1> QED  BY <1>1, <1>2, <1>3

\* remove_piece takes back add_piece.
LEMMA AddUndone ==
  ASSUME NEW b, WellTyped(b), NEW sq \in Squares, NEW c \in Colors, NEW t \in PieceTypes,
         NEW g \in BOOLEAN, NEW h \in BOOLEAN, Free(b, sq, c, t)
  PROVE  SamePieces(RemovePiece(AddPiece(b, sq, c, t, g), sq, c, t, h), b)
<1> DEFINE a == AddPiece(b, sq, c, t, g)  r == RemovePiece(a, sq, c, t, h)
<1>0. /\ b.bb \in Bitboards /\ b.count \in Tallies
      /\ b.terms \in [material : Int, bonus : Int] /\ Placed(b.squares)
  BY Fields
<1>1. /\ WellTyped(a) /\ a.squares = Put(b.squares, sq, c, t) /\ a.bb = WithBit(b.bb, sq, c, t)
      /\ a.count = CountedBy(b.count, c, t, 1) /\ a.terms = Scored(b.terms, c, t, sq, 1)
  BY Added DEF OnlyPieces
<1> HIDE DEF a
<1>2. /\ r.squares = Drop(a.squares, sq) /\ r.bb = WithoutBit(a.bb, sq, c, t)
      /\ r.count = CountedBy(a.count, c, t, -1) /\ r.terms = Scored(a.terms, c, t, sq, -1)
  BY <1>1, Removed
<1> HIDE DEF r
<1>3. r.squares = b.squares
  BY <1>0, <1>1, <1>2, DropPut DEF Free
<1>7. sq \notin b.bb[c][t] /\ sq \notin b.bb[c][AllSlot]
  BY DEF Free
<1>8. WithoutBit(WithBit(b.bb, sq, c, t), sq, c, t) = b.bb
  BY <1>0, <1>7, Clear
<1>4. r.bb = b.bb
  BY <1>1, <1>2, <1>8
<1>5. r.count = b.count
  BY <1>0, <1>1, <1>2, CountedBack
<1>6. r.terms = b.terms
  BY <1>0, <1>1, <1>2, TermsTyped
<1> QED  BY <1>3, <1>4, <1>5, <1>6 DEF SamePieces, a, r

\* add_piece takes back remove_piece.
LEMMA RemoveUndone ==
  ASSUME NEW b, WellTyped(b), NEW sq \in Squares, NEW c \in Colors, NEW t \in PieceTypes,
         NEW g \in BOOLEAN, NEW h \in BOOLEAN, Stands(b, sq, c, t)
  PROVE  SamePieces(AddPiece(RemovePiece(b, sq, c, t, g), sq, c, t, h), b)
<1> DEFINE a == RemovePiece(b, sq, c, t, g)  r == AddPiece(a, sq, c, t, h)
<1>0. /\ b.bb \in Bitboards /\ b.count \in Tallies
      /\ b.terms \in [material : Int, bonus : Int] /\ Placed(b.squares)
  BY Fields
<1>1. /\ WellTyped(a) /\ a.squares = Drop(b.squares, sq) /\ a.bb = WithoutBit(b.bb, sq, c, t)
      /\ a.count = CountedBy(b.count, c, t, -1) /\ a.terms = Scored(b.terms, c, t, sq, -1)
  BY Removed DEF OnlyPieces
<1> HIDE DEF a
<1>2. /\ r.squares = Put(a.squares, sq, c, t) /\ r.bb = WithBit(a.bb, sq, c, t)
      /\ r.count = CountedBy(a.count, c, t, 1) /\ r.terms = Scored(a.terms, c, t, sq, 1)
  BY <1>1, Added
<1> HIDE DEF r
<1>3. r.squares = b.squares
  BY <1>0, <1>1, <1>2, DropPut DEF Stands
<1>4. r.bb = b.bb
  BY <1>0, <1>1, <1>2, Clear DEF Stands
<1>5. r.count = b.count
  BY <1>0, <1>1, <1>2, CountedBack
<1>6. r.terms = b.terms
  BY <1>0, <1>1, <1>2, TermsTyped
<1> QED  BY <1>3, <1>4, <1>5, <1>6 DEF SamePieces, a, r

-----------------------------------------------------------------------------
(* Moving a piece there and back, and two pieces that pass each other.     *)

\* What a move does to the bitboards, slot by slot.
Shifts(x, bb, from, to, c, t) ==
  \A d \in Colors, u \in Slots :
    x[d][u] = IF d = c /\ u \in {t, AllSlot} THEN (bb[d][u] \ {from}) \union {to} ELSE bb[d][u]

\* What moving a piece does to the bitboards, slot by slot.
LEMMA MovedBits ==
  ASSUME NEW bb \in Bitboards, NEW from \in Squares, NEW to \in Squares,
         NEW c \in Colors, NEW t \in PieceTypes
  PROVE  LET x == WithBit(WithoutBit(bb, from, c, t), to, c, t) IN
         /\ x \in Bitboards
         /\ Shifts(x, bb, from, to, c, t)
<1> DEFINE o == WithoutBit(bb, from, c, t)  x == WithBit(o, to, c, t)
<1>1. o \in Bitboards /\ Clears(o, bb, from, c, t)
  BY Bits
<1> HIDE DEF o
<1>2. x \in Bitboards /\ Sets(x, o, to, c, t)
  BY <1>1, Bits
<1> HIDE DEF x
<1>3. ASSUME NEW d \in Colors, NEW u \in Slots
      PROVE  x[d][u] = IF d = c /\ u \in {t, AllSlot} THEN (bb[d][u] \ {from}) \union {to} ELSE bb[d][u]
  <2>1. o[d][u] = IF d = c /\ u \in {t, AllSlot} THEN bb[d][u] \ {from} ELSE bb[d][u]
    BY <1>1 DEF Clears
  <2>2. x[d][u] = IF d = c /\ u \in {t, AllSlot} THEN o[d][u] \union {to} ELSE o[d][u]
    BY <1>2 DEF Sets
  <2> QED  BY <2>1, <2>2
<1> QED  BY <1>2, <1>3 DEF Shifts, o, x

\* A move to a free square and back leaves the pieces as they were.
LEMMA MoveUndone ==
  ASSUME NEW b, WellTyped(b), NEW from \in Squares, NEW to \in Squares, NEW c \in Colors,
         NEW t \in PieceTypes, NEW g \in BOOLEAN, NEW h \in BOOLEAN,
         Stands(b, from, c, t), Free(b, to, c, t)
  PROVE  SamePieces(MovePiece(MovePiece(b, from, to, c, t, g), to, from, c, t, h), b)
<1> DEFINE a == MovePiece(b, from, to, c, t, g)  r == MovePiece(a, to, from, c, t, h)
<1>0. /\ b.bb \in Bitboards
      /\ b.terms \in [material : Int, bonus : Int] /\ Placed(b.squares)
  BY Fields
<1>1. /\ WellTyped(a) /\ a.squares = Put(Drop(b.squares, from), to, c, t)
      /\ a.bb = WithBit(WithoutBit(b.bb, from, c, t), to, c, t)
      /\ a.count = b.count /\ a.terms = ScoredMove(b.terms, from, to, c, t)
  BY Moved DEF OnlyPieces
<1> HIDE DEF a
<1>2. /\ r.squares = Put(Drop(a.squares, to), from, c, t)
      /\ r.bb = WithBit(WithoutBit(a.bb, to, c, t), from, c, t)
      /\ r.count = a.count /\ r.terms = ScoredMove(a.terms, to, from, c, t)
  BY <1>1, Moved
<1> HIDE DEF r
<1>3. r.squares = b.squares
  <2>0. from \in DOMAIN b.squares /\ b.squares[from] = <<c, t>> /\ to \notin DOMAIN b.squares
    BY DEF Stands, Free
  <2>2. Put(Drop(b.squares, from), from, c, t) = b.squares
    BY <1>0, <2>0, DropPut
  <2> DEFINE d == Drop(b.squares, from)
  <2>1. /\ DOMAIN d = DOMAIN b.squares \ {from}
        /\ Placed(d)
    BY <1>0, SquaresTyped
  <2> HIDE DEF d
  <2>3. Drop(Put(d, to, c, t), to) = d
    BY <2>0, <2>1, DropPut
  <2> QED  BY <1>1, <1>2, <2>2, <2>3 DEF d
<1>4. r.bb = b.bb
  <2>1. /\ a.bb \in Bitboards
        /\ Shifts(a.bb, b.bb, from, to, c, t)
    BY <1>0, <1>1, MovedBits
  <2>2. /\ r.bb \in Bitboards
        /\ Shifts(r.bb, a.bb, to, from, c, t)
    BY <1>2, <2>1, MovedBits
  <2>3. ASSUME NEW d \in Colors, NEW u \in Slots PROVE r.bb[d][u] = b.bb[d][u]
    <3>1. d = c /\ u \in {t, AllSlot} => from \in b.bb[d][u] /\ to \notin b.bb[d][u]
      BY DEF Stands, Free
    <3>2. a.bb[d][u] = IF d = c /\ u \in {t, AllSlot} THEN (b.bb[d][u] \ {from}) \union {to} ELSE b.bb[d][u]
      BY <2>1 DEF Shifts
    <3>3. r.bb[d][u] = IF d = c /\ u \in {t, AllSlot} THEN (a.bb[d][u] \ {to}) \union {from} ELSE a.bb[d][u]
      BY <2>2 DEF Shifts
    <3> QED  BY <3>1, <3>2, <3>3
  <2> QED  BY <1>0, <2>2, <2>3, SameBits
<1>5. r.count = b.count
  BY <1>1, <1>2
<1>6. r.terms = b.terms
  BY <1>0, <1>1, <1>2, TermsTyped
<1> QED  BY <1>3, <1>4, <1>5, <1>6 DEF SamePieces, a, r

\* Two pieces that move between four squares may move in either order.
LEMMA MovesCommute ==
  ASSUME NEW b, WellTyped(b), NEW c \in Colors,
         NEW f1 \in Squares, NEW t1 \in Squares, NEW x \in PieceTypes, NEW g1 \in BOOLEAN, NEW h1 \in BOOLEAN,
         NEW f2 \in Squares, NEW t2 \in Squares, NEW y \in PieceTypes, NEW g2 \in BOOLEAN, NEW h2 \in BOOLEAN,
         f1 # f2, f1 # t2, t1 # f2, t1 # t2
  PROVE  SamePieces(MovePiece(MovePiece(b, f1, t1, c, x, g1), f2, t2, c, y, g2),
                    MovePiece(MovePiece(b, f2, t2, c, y, h2), f1, t1, c, x, h1))
<1> DEFINE p == MovePiece(b, f1, t1, c, x, g1)  q == MovePiece(b, f2, t2, c, y, h2)
           r == MovePiece(p, f2, t2, c, y, g2)  s == MovePiece(q, f1, t1, c, x, h1)
<1>0. /\ b.bb \in Bitboards
      /\ b.terms \in [material : Int, bonus : Int] /\ Placed(b.squares)
  BY Fields
<1>1. /\ WellTyped(p) /\ p.squares = Put(Drop(b.squares, f1), t1, c, x)
      /\ p.bb = WithBit(WithoutBit(b.bb, f1, c, x), t1, c, x)
      /\ p.count = b.count /\ p.terms = ScoredMove(b.terms, f1, t1, c, x)
  BY Moved DEF OnlyPieces
<1>2. /\ WellTyped(q) /\ q.squares = Put(Drop(b.squares, f2), t2, c, y)
      /\ q.bb = WithBit(WithoutBit(b.bb, f2, c, y), t2, c, y)
      /\ q.count = b.count /\ q.terms = ScoredMove(b.terms, f2, t2, c, y)
  BY Moved DEF OnlyPieces
<1> HIDE DEF p, q
<1>3. /\ r.squares = Put(Drop(p.squares, f2), t2, c, y)
      /\ r.bb = WithBit(WithoutBit(p.bb, f2, c, y), t2, c, y)
      /\ r.count = p.count /\ r.terms = ScoredMove(p.terms, f2, t2, c, y)
  BY <1>1, Moved
<1>4. /\ s.squares = Put(Drop(q.squares, f1), t1, c, x)
      /\ s.bb = WithBit(WithoutBit(q.bb, f1, c, x), t1, c, x)
      /\ s.count = q.count /\ s.terms = ScoredMove(q.terms, f1, t1, c, x)
  BY <1>2, Moved
<1> HIDE DEF r, s
<1>5. r.squares = s.squares
  <2>1. /\ r.squares = Put(Drop(Put(Drop(b.squares, f1), t1, c, x), f2), t2, c, y)
        /\ s.squares = Put(Drop(Put(Drop(b.squares, f2), t2, c, y), f1), t1, c, x)
    BY <1>1, <1>2, <1>3, <1>4
  <2> QED  BY SMTT(30), <2>1 DEF Put, Drop
<1>6. r.bb = s.bb
  <2>1. /\ p.bb \in Bitboards
        /\ Shifts(p.bb, b.bb, f1, t1, c, x)
    BY <1>0, <1>1, MovedBits
  <2>2. /\ q.bb \in Bitboards
        /\ Shifts(q.bb, b.bb, f2, t2, c, y)
    BY <1>0, <1>2, MovedBits
  <2>3. /\ r.bb \in Bitboards
        /\ Shifts(r.bb, p.bb, f2, t2, c, y)
    BY <1>3, <2>1, MovedBits
  <2>4. /\ s.bb \in Bitboards
        /\ Shifts(s.bb, q.bb, f1, t1, c, x)
    BY <1>4, <2>2, MovedBits
  <2>5. ASSUME NEW d \in Colors, NEW u \in Slots PROVE r.bb[d][u] = s.bb[d][u]
    <3>1. p.bb[d][u] = IF d = c /\ u \in {x, AllSlot} THEN (b.bb[d][u] \ {f1}) \union {t1} ELSE b.bb[d][u]
      BY <2>1 DEF Shifts
    <3>2. q.bb[d][u] = IF d = c /\ u \in {y, AllSlot} THEN (b.bb[d][u] \ {f2}) \union {t2} ELSE b.bb[d][u]
      BY <2>2 DEF Shifts
    <3>3. r.bb[d][u] = IF d = c /\ u \in {y, AllSlot} THEN (p.bb[d][u] \ {f2}) \union {t2} ELSE p.bb[d][u]
      BY <2>3 DEF Shifts
    <3>4. s.bb[d][u] = IF d = c /\ u \in {x, AllSlot} THEN (q.bb[d][u] \ {f1}) \union {t1} ELSE q.bb[d][u]
      BY <2>4 DEF Shifts
    <3> QED  BY <3>1, <3>2, <3>3, <3>4
  <2> QED  BY <2>3, <2>4, <2>5, SameBits
<1>7. r.count = s.count
  BY <1>1, <1>2, <1>3, <1>4
<1>8. r.terms = s.terms
  <2>1. b.terms = [material |-> b.terms.material, bonus |-> b.terms.bonus]
        /\ b.terms.material \in Int /\ b.terms.bonus \in Int
    BY <1>0
  <2> DEFINE m == b.terms.material  n == b.terms.bonus
             v1 == BonusOf(c, x, f1)  w1 == BonusOf(c, x, t1)  v2 == BonusOf(c, y, f2)  w2 == BonusOf(c, y, t2)
  <2>2. v1 \in Int /\ w1 \in Int /\ v2 \in Int /\ w2 \in Int /\ m \in Int /\ n \in Int
    BY <2>1, Numbers
  <2>3. /\ p.terms = [material |-> m, bonus |-> n + w1 - v1]
        /\ q.terms = [material |-> m, bonus |-> n + w2 - v2]
    BY <1>1, <1>2, <2>1 DEF ScoredMove
  <2> HIDE DEF m, n
  <2>4. /\ r.terms = [material |-> m, bonus |-> (n + w1 - v1) + w2 - v2]
        /\ s.terms = [material |-> m, bonus |-> (n + w2 - v2) + w1 - v1]
    BY <1>3, <1>4, <2>3 DEF ScoredMove
  <2> HIDE DEF v1, v2, w1, w2
  <2>5. (n + w1 - v1) + w2 - v2 = (n + w2 - v2) + w1 - v1
    BY <2>2
  <2> QED  BY <2>4, <2>5
<1> QED  BY <1>5, <1>6, <1>7, <1>8 DEF SamePieces, p, q, r, s

-----------------------------------------------------------------------------
(* The copies of the pieces agree after each operation.                    *)

\* What piece_on tells of the three copies when they agree.
LEMMA PiecesSeen ==
  ASSUME NEW b, WellTyped(b), PiecesAgree(b), NEW sq \in Squares, NEW c \in Colors, NEW t \in PieceTypes
  PROVE  /\ PieceOn(b, sq) = <<c, t>> => Stands(b, sq, c, t)
         /\ PieceOn(b, sq) = NO_PIECE => sq \notin DOMAIN b.squares /\ Free(b, sq, c, t)
         /\ sq \notin DOMAIN b.squares => Free(b, sq, c, t)
         /\ Stands(b, sq, c, t) => PieceOn(b, sq) = <<c, t>> /\ TypeOn(b, sq) = t
<1>1. Placed(b.squares)
  BY Fields
<1>2. b.bb[c][t] = Where(b.squares, c, t) /\ b.bb[c][AllSlot] = Owned(b.squares, c)
  BY DEF PiecesAgree
<1>3. t # 0 /\ \A u \in PieceTypes : u # 0
  BY DEF PieceTypes, PAWN
<1>4. ASSUME PieceOn(b, sq) = <<c, t>> PROVE Stands(b, sq, c, t)
  <2>1. sq \in DOMAIN b.squares /\ b.squares[sq] = <<c, t>>
    BY <1>3, <1>4 DEF PieceOn, NO_PIECE, NO_PIECETYPE
  <2> QED  BY <1>2, <2>1 DEF Stands, Where, Owned
<1>5. ASSUME sq \notin DOMAIN b.squares PROVE Free(b, sq, c, t)
  BY <1>2, <1>5 DEF Free, Where, Owned
<1>6. ASSUME PieceOn(b, sq) = NO_PIECE PROVE sq \notin DOMAIN b.squares
  BY <1>1, <1>3, <1>6 DEF Placed, PieceOn, NO_PIECE, NO_PIECETYPE
<1>7. ASSUME Stands(b, sq, c, t) PROVE PieceOn(b, sq) = <<c, t>> /\ TypeOn(b, sq) = t
  BY <1>7 DEF Stands, PieceOn, TypeOn
<1> QED  BY <1>4, <1>5, <1>6, <1>7

\* A piece more, or fewer, in the sets of the squares that pieces stand on.
Gained(new, old, sq, c, t) ==
  \A d \in Colors :
    /\ \A u \in PieceTypes :
         Where(new, d, u) = IF d = c /\ u = t THEN Where(old, d, u) \union {sq} ELSE Where(old, d, u)
    /\ Owned(new, d) = IF d = c THEN Owned(old, d) \union {sq} ELSE Owned(old, d)
Lost(new, old, sq, c, t) ==
  \A d \in Colors :
    /\ \A u \in PieceTypes :
         Where(new, d, u) = IF d = c /\ u = t THEN Where(old, d, u) \ {sq} ELSE Where(old, d, u)
    /\ Owned(new, d) = IF d = c THEN Owned(old, d) \ {sq} ELSE Owned(old, d)

\* A piece more among the squares.
LEMMA WherePut ==
  ASSUME NEW squares, Placed(squares), NEW sq \in Squares, NEW c \in Colors, NEW t \in PieceTypes,
         sq \notin DOMAIN squares
  PROVE  /\ Gained(Put(squares, sq, c, t), squares, sq, c, t)
         /\ \A d \in Colors, u \in PieceTypes : sq \notin Where(squares, d, u)
<1> DEFINE p == Put(squares, sq, c, t)
<1>1. /\ DOMAIN p = DOMAIN squares \union {sq} /\ p[sq] = <<c, t>>
      /\ \A s \in DOMAIN squares : p[s] = squares[s]
  BY DEF Put
<1> HIDE DEF p
<1>2. ASSUME NEW d \in Colors, NEW u \in PieceTypes
      PROVE  Where(p, d, u) = IF d = c /\ u = t THEN Where(squares, d, u) \union {sq} ELSE Where(squares, d, u)
  <2>1. <<c, t>> = <<d, u>> <=> d = c /\ u = t
    OBVIOUS
  <2> QED  BY <1>1, <2>1 DEF Where
<1>3. ASSUME NEW d \in Colors
      PROVE  Owned(p, d) = IF d = c THEN Owned(squares, d) \union {sq} ELSE Owned(squares, d)
  BY <1>1 DEF Owned
<1>4. Gained(p, squares, sq, c, t)
  BY <1>2, <1>3 DEF Gained
<1> QED  BY <1>4 DEF p, Where

\* A piece fewer among the squares.
LEMMA WhereDrop ==
  ASSUME NEW squares, Placed(squares), NEW sq \in Squares, NEW c \in Colors, NEW t \in PieceTypes,
         sq \in DOMAIN squares, squares[sq] = <<c, t>>
  PROVE  Lost(Drop(squares, sq), squares, sq, c, t) /\ sq \in Where(squares, c, t)
<1> DEFINE p == Drop(squares, sq)
<1>1. /\ DOMAIN p = DOMAIN squares \ {sq}
      /\ \A s \in DOMAIN squares \ {sq} : p[s] = squares[s]
  BY DEF Drop
<1> HIDE DEF p
<1>2. ASSUME NEW d \in Colors, NEW u \in PieceTypes
      PROVE  Where(p, d, u) = IF d = c /\ u = t THEN Where(squares, d, u) \ {sq} ELSE Where(squares, d, u)
  <2>1. <<c, t>> = <<d, u>> <=> d = c /\ u = t
    OBVIOUS
  <2> QED  BY <1>1, <2>1 DEF Where
<1>3. ASSUME NEW d \in Colors
      PROVE  Owned(p, d) = IF d = c THEN Owned(squares, d) \ {sq} ELSE Owned(squares, d)
  BY <1>1 DEF Owned
<1>4. Lost(p, squares, sq, c, t)
  BY <1>2, <1>3 DEF Lost
<1> QED  BY <1>4 DEF p, Where

\* How many squares a set has, with one more and with one fewer.
LEMMA Finite ==
  ASSUME NEW S \in SUBSET Squares
  PROVE  /\ IsFiniteSet(S) /\ Cardinality(S) \in Nat
         /\ \A sq \in Squares \ S : Cardinality(S \union {sq}) = Cardinality(S) + 1
         /\ \A sq \in S : Cardinality(S \ {sq}) = Cardinality(S) - 1
<1>1. IsFiniteSet(Squares)
  BY FS_Interval, 0 \in Int, 63 \in Int DEF Squares
<1>2. IsFiniteSet(S)
  BY <1>1, FS_Subset
<1> QED  BY <1>2, FS_CardinalityType, FS_AddElement, FS_RemoveElement

\* The copies of the pieces agree after add_piece.
LEMMA AddAgrees ==
  ASSUME NEW b, WellTyped(b), PiecesAgree(b), NEW sq \in Squares, NEW c \in Colors, NEW t \in PieceTypes,
         NEW h \in BOOLEAN, sq \notin DOMAIN b.squares
  PROVE  PiecesAgree(AddPiece(b, sq, c, t, h))
<1> DEFINE r == AddPiece(b, sq, c, t, h)
<1>0. /\ b.bb \in Bitboards /\ b.count \in Tallies
      /\ Placed(b.squares)
  BY Fields
<1>1. /\ r.squares = Put(b.squares, sq, c, t) /\ r.bb = WithBit(b.bb, sq, c, t)
      /\ r.count = CountedBy(b.count, c, t, 1)
  BY Added
<1> HIDE DEF r
<1>2. Sets(r.bb, b.bb, sq, c, t)
  BY <1>0, <1>1, Bits
<1>3. \A d \in Colors, u \in Slots :
        r.count[d][u] = IF d = c /\ u = t THEN b.count[d][u] + 1 ELSE b.count[d][u]
  BY <1>0, <1>1, Counts
<1>8. Gained(r.squares, b.squares, sq, c, t)
  BY <1>0, <1>1, WherePut
<1>9. \A d \in Colors, u \in PieceTypes : sq \notin Where(b.squares, d, u)
  BY <1>0, <1>1, WherePut
<1>4. AllSlot \in Slots /\ AllSlot \notin PieceTypes /\ PieceTypes \subseteq Slots
  BY DEF Slots, AllSlot, PieceTypes, PAWN, KING
<1>5. ASSUME NEW d \in Colors, NEW u \in PieceTypes
      PROVE  r.bb[d][u] = Where(r.squares, d, u) /\ r.count[d][u] = Cardinality(r.bb[d][u])
  <2>1. b.bb[d][u] = Where(b.squares, d, u) /\ b.count[d][u] = Cardinality(b.bb[d][u])
    BY DEF PiecesAgree
  <2>2. /\ Where(r.squares, d, u) = IF d = c /\ u = t THEN b.bb[d][u] \union {sq} ELSE b.bb[d][u]
        /\ sq \notin b.bb[d][u]
    BY <1>8, <1>9, <2>1 DEF Gained
  <2>3. r.bb[d][u] = IF d = c /\ u = t THEN b.bb[d][u] \union {sq} ELSE b.bb[d][u]
    BY <1>2, <1>4 DEF Sets
  <2>4. r.count[d][u] = IF d = c /\ u = t THEN b.count[d][u] + 1 ELSE b.count[d][u]
    BY <1>3, <1>4
  <2>5. b.bb[d][u] \in SUBSET Squares
    BY <1>0, <1>4 DEF Bitboards
  <2>6. Cardinality(b.bb[d][u] \union {sq}) = Cardinality(b.bb[d][u]) + 1
    BY <2>2, <2>5, Finite
  <2> QED  BY <2>1, <2>2, <2>3, <2>4, <2>6
<1>6. ASSUME NEW d \in Colors PROVE r.bb[d][AllSlot] = Owned(r.squares, d)
  <2>1. b.bb[d][AllSlot] = Owned(b.squares, d)
    BY DEF PiecesAgree
  <2>2. Owned(r.squares, d) = IF d = c THEN b.bb[d][AllSlot] \union {sq} ELSE b.bb[d][AllSlot]
    BY <1>8, <1>9, <2>1 DEF Gained
  <2>3. r.bb[d][AllSlot] = IF d = c THEN b.bb[d][AllSlot] \union {sq} ELSE b.bb[d][AllSlot]
    BY <1>2, <1>4 DEF Sets
  <2> QED  BY <2>2, <2>3
<1>7. PiecesAgree(r)
  BY <1>5, <1>6 DEF PiecesAgree
<1> QED  BY <1>7 DEF r

\* The copies of the pieces agree after remove_piece.
LEMMA RemoveAgrees ==
  ASSUME NEW b, WellTyped(b), PiecesAgree(b), NEW sq \in Squares, NEW c \in Colors, NEW t \in PieceTypes,
         NEW h \in BOOLEAN, Stands(b, sq, c, t)
  PROVE  PiecesAgree(RemovePiece(b, sq, c, t, h))
<1> DEFINE r == RemovePiece(b, sq, c, t, h)
<1>0. /\ b.bb \in Bitboards /\ b.count \in Tallies
      /\ Placed(b.squares)
      /\ sq \in DOMAIN b.squares /\ b.squares[sq] = <<c, t>>
  BY Fields DEF Stands
<1>1. /\ r.squares = Drop(b.squares, sq) /\ r.bb = WithoutBit(b.bb, sq, c, t)
      /\ r.count = CountedBy(b.count, c, t, -1)
  BY Removed
<1> HIDE DEF r
<1>2. Clears(r.bb, b.bb, sq, c, t)
  BY <1>0, <1>1, Bits
<1>3. \A d \in Colors, u \in Slots :
        r.count[d][u] = IF d = c /\ u = t THEN b.count[d][u] + -1 ELSE b.count[d][u]
  BY <1>0, <1>1, Counts
<1>8. Lost(r.squares, b.squares, sq, c, t)
  BY <1>0, <1>1, WhereDrop
<1>9. sq \in Where(b.squares, c, t)
  BY <1>0, <1>1, WhereDrop
<1>4. AllSlot \in Slots /\ AllSlot \notin PieceTypes /\ PieceTypes \subseteq Slots
  BY DEF Slots, AllSlot, PieceTypes, PAWN, KING
<1>5. ASSUME NEW d \in Colors, NEW u \in PieceTypes
      PROVE  r.bb[d][u] = Where(r.squares, d, u) /\ r.count[d][u] = Cardinality(r.bb[d][u])
  <2>1. b.bb[d][u] = Where(b.squares, d, u) /\ b.count[d][u] = Cardinality(b.bb[d][u])
    BY DEF PiecesAgree
  <2>2. /\ Where(r.squares, d, u) = IF d = c /\ u = t THEN b.bb[d][u] \ {sq} ELSE b.bb[d][u]
        /\ d = c /\ u = t => sq \in b.bb[d][u]
    BY <1>8, <1>9, <2>1 DEF Lost
  <2>3. r.bb[d][u] = IF d = c /\ u = t THEN b.bb[d][u] \ {sq} ELSE b.bb[d][u]
    BY <1>2, <1>4 DEF Clears
  <2>4. r.count[d][u] = IF d = c /\ u = t THEN b.count[d][u] + -1 ELSE b.count[d][u]
    BY <1>3, <1>4
  <2>5. b.bb[d][u] \in SUBSET Squares
    BY <1>0, <1>4 DEF Bitboards
  <2>6. /\ Cardinality(b.bb[d][u]) \in Nat
        /\ d = c /\ u = t => Cardinality(b.bb[d][u] \ {sq}) = Cardinality(b.bb[d][u]) - 1
    BY <2>2, <2>5, Finite
  <2> QED  BY <2>1, <2>2, <2>3, <2>4, <2>6
<1>6. ASSUME NEW d \in Colors PROVE r.bb[d][AllSlot] = Owned(r.squares, d)
  <2>1. b.bb[d][AllSlot] = Owned(b.squares, d)
    BY DEF PiecesAgree
  <2>2. Owned(r.squares, d) = IF d = c THEN b.bb[d][AllSlot] \ {sq} ELSE b.bb[d][AllSlot]
    BY <1>8, <1>9, <2>1 DEF Lost
  <2>3. r.bb[d][AllSlot] = IF d = c THEN b.bb[d][AllSlot] \ {sq} ELSE b.bb[d][AllSlot]
    BY <1>2, <1>4 DEF Clears
  <2> QED  BY <2>2, <2>3
<1>7. PiecesAgree(r)
  BY <1>5, <1>6 DEF PiecesAgree
<1> QED  BY <1>7 DEF r

\* The copies of the pieces agree after move_piece.
LEMMA MoveAgrees ==
  ASSUME NEW b, WellTyped(b), PiecesAgree(b), NEW from \in Squares, NEW to \in Squares, NEW c \in Colors,
         NEW t \in PieceTypes, NEW h \in BOOLEAN, Stands(b, from, c, t), to \notin DOMAIN b.squares
  PROVE  PiecesAgree(MovePiece(b, from, to, c, t, h))
<1> DEFINE r == MovePiece(b, from, to, c, t, h)
           x == RemovePiece(b, from, c, t, FALSE)  y == AddPiece(x, to, c, t, FALSE)
<1>0. /\ Placed(b.squares)
      /\ b.count \in Tallies
  BY Fields
<1>1. /\ r.squares = Put(Drop(b.squares, from), to, c, t)
      /\ r.bb = WithBit(WithoutBit(b.bb, from, c, t), to, c, t) /\ r.count = b.count
  BY Moved
<1> HIDE DEF r
<1>2. /\ WellTyped(x) /\ PiecesAgree(x) /\ x.squares = Drop(b.squares, from)
      /\ x.bb = WithoutBit(b.bb, from, c, t) /\ x.count = CountedBy(b.count, c, t, -1)
  <2>1. PiecesAgree(x)
    BY RemoveAgrees
  <2>2. /\ OnlyPieces(x, b, FALSE, HashPiece(c, t, from)) /\ x.squares = Drop(b.squares, from)
        /\ x.bb = WithoutBit(b.bb, from, c, t) /\ x.count = CountedBy(b.count, c, t, -1)
    BY ZenonT(40), Removed
  <2> QED  BY <2>1, <2>2 DEF OnlyPieces
<1> HIDE DEF x
<1>3. to \notin DOMAIN x.squares
  BY <1>2 DEF Drop
<1>4. /\ PiecesAgree(y) /\ y.squares = Put(x.squares, to, c, t)
      /\ y.bb = WithBit(x.bb, to, c, t) /\ y.count = CountedBy(x.count, c, t, 1)
  BY ZenonT(40), <1>2, <1>3, Added, AddAgrees
<1> HIDE DEF y
<1>5. r.squares = y.squares /\ r.bb = y.bb /\ r.count = y.count
  BY <1>0, <1>1, <1>2, <1>4, CountedBack
<1>6. PiecesAgree(r)
  BY <1>4, <1>5 DEF PiecesAgree
<1> QED  BY <1>6 DEF r

-----------------------------------------------------------------------------
(* The key.                                                                *)

\* The key of b is that of its position, with e in the place of the legal target.
Keyed(b, e) == Top(b).zkey = KeyOf(b.squares, b.turn, Top(b).rights, e)

Kind(f) == f[1]

\* The parts of a key have no feature in common.
LEMMA Kinds ==
  /\ \A squares : \A f \in PieceKey(squares) : Kind(f) = "piece"
  /\ \A c, t, sq : \A f \in HashPiece(c, t, sq) : Kind(f) = "piece"
  /\ \A f \in HashTurn : Kind(f) = "turn"
  /\ \A rights : \A f \in HashCastle(rights) : Kind(f) = "castle"
  /\ \A e : \A f \in EpKey(e) : Kind(f) = "ep"
<1>1. \A c, t, sq : \A f \in HashPiece(c, t, sq) : Kind(f) = "piece"
  BY DEF HashPiece, Kind
<1>2. \A squares : \A f \in PieceKey(squares) : Kind(f) = "piece"
  BY <1>1 DEF PieceKey
<1>3. \A f \in HashTurn : Kind(f) = "turn"
  BY DEF HashTurn, Kind
<1>4. \A rights : \A f \in HashCastle(rights) : Kind(f) = "castle"
  BY DEF HashCastle, Kind
<1>5. \A e : \A f \in EpKey(e) : Kind(f) = "ep"
  BY DEF EpKey, HashEp, Kind
<1> QED  BY <1>1, <1>2, <1>3, <1>4, <1>5

\* Hashing a piece in is putting it on its square.
LEMMA KeyPut ==
  ASSUME NEW squares, Placed(squares), NEW sq \in Squares, NEW c \in Colors, NEW t \in PieceTypes,
         sq \notin DOMAIN squares, NEW turn, NEW rights, NEW e
  PROVE  Xor(KeyOf(squares, turn, rights, e), HashPiece(c, t, sq)) = KeyOf(Put(squares, sq, c, t), turn, rights, e)
<1> DEFINE p == Put(squares, sq, c, t)  x == HashPiece(c, t, sq)
<1>1. /\ DOMAIN p = DOMAIN squares \union {sq} /\ p[sq] = <<c, t>>
      /\ \A s \in DOMAIN squares : p[s] = squares[s]
  BY DEF Put
<1> HIDE DEF p
<1>2. PieceKey(p) = PieceKey(squares) \union x
  BY <1>1 DEF PieceKey
<1>3. PieceKey(squares) \intersect x = {}
  BY DEF PieceKey, HashPiece
<1> HIDE DEF x
<1>4. (TurnKey(turn) \union HashCastle(rights) \union EpKey(e)) \intersect x = {}
  <2>1. "piece" # "turn" /\ "piece" # "castle" /\ "piece" # "ep"
    OBVIOUS
  <2> QED  BY <2>1, Kinds DEF TurnKey, x
<1>5. Xor(KeyOf(squares, turn, rights, e), x) = KeyOf(p, turn, rights, e)
  BY <1>2, <1>3, <1>4 DEF Xor, KeyOf
<1> QED  BY <1>5 DEF p, x

\* Hashing a piece out is taking it off its square.
LEMMA KeyDrop ==
  ASSUME NEW squares, Placed(squares), NEW sq \in Squares, NEW c \in Colors, NEW t \in PieceTypes,
         sq \in DOMAIN squares, squares[sq] = <<c, t>>, NEW turn, NEW rights, NEW e
  PROVE  Xor(KeyOf(squares, turn, rights, e), HashPiece(c, t, sq)) = KeyOf(Drop(squares, sq), turn, rights, e)
<1> DEFINE p == Drop(squares, sq)  x == HashPiece(c, t, sq)
<1>1. /\ DOMAIN p = DOMAIN squares \ {sq}
      /\ \A s \in DOMAIN squares \ {sq} : p[s] = squares[s]
  BY DEF Drop
<1> HIDE DEF p
<1>2. PieceKey(squares) = PieceKey(p) \union x
  BY <1>1 DEF PieceKey
<1>3. PieceKey(p) \intersect x = {}
  BY <1>1 DEF PieceKey, HashPiece
<1> HIDE DEF x
<1>4. (TurnKey(turn) \union HashCastle(rights) \union EpKey(e)) \intersect x = {}
  <2>1. "piece" # "turn" /\ "piece" # "castle" /\ "piece" # "ep"
    OBVIOUS
  <2> QED  BY <2>1, Kinds DEF TurnKey, x
<1>5. Xor(KeyOf(squares, turn, rights, e), x) = KeyOf(p, turn, rights, e)
  BY <1>2, <1>3, <1>4 DEF Xor, KeyOf
<1> QED  BY <1>5 DEF p, x

\* Hashing the turn is passing it to the other side.
LEMMA KeyTurned ==
  ASSUME NEW squares, NEW turn \in Colors, NEW rights, NEW e
  PROVE  Xor(KeyOf(squares, turn, rights, e), HashTurn) = KeyOf(squares, Other(turn), rights, e)
<1>1. (PieceKey(squares) \union HashCastle(rights) \union EpKey(e)) \intersect HashTurn = {}
  <2>1. "turn" # "piece" /\ "turn" # "castle" /\ "turn" # "ep"
    OBVIOUS
  <2> QED  BY <2>1, Kinds
<1>2. \/ TurnKey(turn) = HashTurn /\ TurnKey(Other(turn)) = {}
      \/ TurnKey(turn) = {} /\ TurnKey(Other(turn)) = HashTurn
  BY DEF TurnKey, Other, Colors, BLACK, WHITE
<1> QED  BY <1>1, <1>2 DEF Xor, KeyOf

\* Hashing rights out is giving them up.
LEMMA KeyRights ==
  ASSUME NEW squares, NEW turn, NEW rights, NEW held \in SUBSET rights, NEW e
  PROVE  Xor(KeyOf(squares, turn, rights, e), HashCastle(held)) = KeyOf(squares, turn, rights \ held, e)
<1>1. (PieceKey(squares) \union TurnKey(turn) \union EpKey(e)) \intersect HashCastle(held) = {}
  <2>1. "castle" # "piece" /\ "castle" # "turn" /\ "castle" # "ep"
    OBVIOUS
  <2> QED  BY <2>1, Kinds DEF TurnKey
<1>2. HashCastle(held) \subseteq HashCastle(rights) /\ HashCastle(rights \ held) = HashCastle(rights) \ HashCastle(held)
  BY DEF HashCastle
<1> QED  BY <1>1, <1>2 DEF Xor, KeyOf

\* Hashing the target takes it out of the key, or puts it in.
LEMMA KeyEp ==
  ASSUME NEW squares, NEW turn, NEW rights, NEW e
  PROVE  /\ Xor(KeyOf(squares, turn, rights, e), EpKey(e)) = KeyOf(squares, turn, rights, INVALID)
         /\ Xor(KeyOf(squares, turn, rights, INVALID), EpKey(e)) = KeyOf(squares, turn, rights, e)
<1>1. (PieceKey(squares) \union TurnKey(turn) \union HashCastle(rights)) \intersect EpKey(e) = {}
  <2>1. "ep" # "piece" /\ "ep" # "turn" /\ "ep" # "castle"
    OBVIOUS
  <2> QED  BY <2>1, Kinds DEF TurnKey
<1>2. EpKey(INVALID) = {}
  BY DEF EpKey
<1> QED  BY <1>1, <1>2 DEF Xor, KeyOf

\* Two features hashed together are hashed one after the other.
LEMMA XorTwice ==
  \A k, x, y : Xor(k, Xor(x, y)) = Xor(Xor(k, x), y)
BY DEF Xor

\* The key matches when it has the legal target in it.
LEMMA MatchingKey ==
  ASSUME NEW b PROVE KeyMatches(b) <=> Keyed(b, Top(b).legalEp)
BY DEF KeyMatches, Keyed, RecomputeKey

-----------------------------------------------------------------------------
(* Pieces and key together, as make changes them.                          *)

Sound(b, e) == WellTyped(b) /\ PiecesAgree(b) /\ Keyed(b, e)
Beside(x, y) ==
  SameSide(x, y) /\ SameStack(x, y) /\ SameMove(x, y) /\ Top(x).rights = Top(y).rights

\* The fields of a rehashed state.
LEMMA TopFields ==
  ASSUME NEW s \in PlyStates, NEW f
  PROVE  LET r == [s EXCEPT !.zkey = Xor(@, f)] IN
         /\ r.zkey = Xor(s.zkey, f) /\ r.rights = s.rights /\ r.move = s.move /\ r.captured = s.captured
         /\ r.legalEp = s.legalEp
BY DEF PlyStates

\* add_piece keeps pieces and key together.
LEMMA SoundAdd ==
  ASSUME NEW b, NEW e, Sound(b, e), NEW sq \in Squares, NEW c \in Colors, NEW t \in PieceTypes,
         sq \notin DOMAIN b.squares
  PROVE  LET r == AddPiece(b, sq, c, t, TRUE) IN
         Sound(r, e) /\ Beside(r, b) /\ r.squares = Put(b.squares, sq, c, t)
<1> DEFINE r == AddPiece(b, sq, c, t, TRUE)  f == HashPiece(c, t, sq)
<1>1. WellTyped(b) /\ PiecesAgree(b) /\ Keyed(b, e) /\ Placed(b.squares) /\ Top(b) \in PlyStates
  BY Fields DEF Sound
<1>2. OnlyPieces(r, b, TRUE, f) /\ r.squares = Put(b.squares, sq, c, t)
  BY <1>1, Added
<1>3. PiecesAgree(r)
  BY <1>1, AddAgrees
<1> HIDE DEF r
<1>4. /\ Top(r) = [Top(b) EXCEPT !.zkey = Xor(@, f)]
      /\ WellTyped(r) /\ SameSide(r, b) /\ SameStack(r, b) /\ SameMove(r, b)
  BY <1>2 DEF OnlyPieces
<1>5. Top(r).zkey = Xor(Top(b).zkey, f) /\ Top(r).rights = Top(b).rights
  BY <1>1, <1>4, TopFields
<1>6. Xor(KeyOf(b.squares, b.turn, Top(b).rights, e), f) = KeyOf(r.squares, b.turn, Top(b).rights, e)
  BY <1>1, <1>2, KeyPut
<1>7. r.turn = b.turn
  BY <1>4 DEF SameSide
<1>8. Keyed(r, e)
  BY <1>1, <1>5, <1>6, <1>7 DEF Keyed
<1>9. Sound(r, e) /\ Beside(r, b)
  BY <1>3, <1>4, <1>5, <1>8 DEF Sound, Beside
<1> QED  BY <1>2, <1>9 DEF r

\* remove_piece keeps pieces and key together.
LEMMA SoundRemove ==
  ASSUME NEW b, NEW e, Sound(b, e), NEW sq \in Squares, NEW c \in Colors, NEW t \in PieceTypes,
         Stands(b, sq, c, t)
  PROVE  LET r == RemovePiece(b, sq, c, t, TRUE) IN
         Sound(r, e) /\ Beside(r, b) /\ r.squares = Drop(b.squares, sq)
<1> DEFINE r == RemovePiece(b, sq, c, t, TRUE)  f == HashPiece(c, t, sq)
<1>1. /\ WellTyped(b) /\ PiecesAgree(b) /\ Keyed(b, e) /\ Placed(b.squares) /\ Top(b) \in PlyStates
      /\ sq \in DOMAIN b.squares /\ b.squares[sq] = <<c, t>>
  BY Fields DEF Sound, Stands
<1>2. OnlyPieces(r, b, TRUE, f) /\ r.squares = Drop(b.squares, sq)
  BY <1>1, Removed
<1>3. PiecesAgree(r)
  BY <1>1, RemoveAgrees
<1> HIDE DEF r
<1>4. /\ Top(r) = [Top(b) EXCEPT !.zkey = Xor(@, f)]
      /\ WellTyped(r) /\ SameSide(r, b) /\ SameStack(r, b) /\ SameMove(r, b)
  BY <1>2 DEF OnlyPieces
<1>5. Top(r).zkey = Xor(Top(b).zkey, f) /\ Top(r).rights = Top(b).rights
  BY <1>1, <1>4, TopFields
<1>6. Xor(KeyOf(b.squares, b.turn, Top(b).rights, e), f) = KeyOf(r.squares, b.turn, Top(b).rights, e)
  BY <1>1, <1>2, KeyDrop
<1>7. r.turn = b.turn
  BY <1>4 DEF SameSide
<1>8. Keyed(r, e)
  BY <1>1, <1>5, <1>6, <1>7 DEF Keyed
<1>9. Sound(r, e) /\ Beside(r, b)
  BY <1>3, <1>4, <1>5, <1>8 DEF Sound, Beside
<1> QED  BY <1>2, <1>9 DEF r

\* move_piece keeps pieces and key together.
LEMMA SoundMove ==
  ASSUME NEW b, NEW e, Sound(b, e), NEW from \in Squares, NEW to \in Squares, NEW c \in Colors,
         NEW t \in PieceTypes, Stands(b, from, c, t), to \notin DOMAIN b.squares
  PROVE  LET r == MovePiece(b, from, to, c, t, TRUE) IN
         Sound(r, e) /\ Beside(r, b) /\ r.squares = Put(Drop(b.squares, from), to, c, t)
<1> DEFINE r == MovePiece(b, from, to, c, t, TRUE)
           f == HashPiece(c, t, from)  g == HashPiece(c, t, to)
<1>0. r.squares = Put(Drop(b.squares, from), to, c, t)
  <2>1. ASSUME NEW h \in BOOLEAN
        PROVE  MovePiece(b, from, to, c, t, h).squares = Put(Drop(b.squares, from), to, c, t)
    BY Moved DEF Sound
  <2> QED  BY <2>1
<1> DEFINE d == Drop(b.squares, from)
<1>1. /\ WellTyped(b) /\ PiecesAgree(b) /\ Keyed(b, e) /\ Placed(b.squares) /\ Top(b) \in PlyStates
      /\ from \in DOMAIN b.squares /\ b.squares[from] = <<c, t>>
  BY Fields DEF Sound, Stands
<1>2. OnlyPieces(r, b, TRUE, Xor(f, g)) /\ r.squares = Put(d, to, c, t)
  <2>1. OnlyPieces(r, b, TRUE, Xor(f, g))
    BY <1>1, Moved, Zenon
  <2> QED  BY <1>0, <2>1
<1>3. PiecesAgree(r)
  BY <1>1, MoveAgrees
<1> HIDE DEF r
<1>4. /\ Top(r) = [Top(b) EXCEPT !.zkey = Xor(@, Xor(f, g))]
      /\ WellTyped(r) /\ SameSide(r, b) /\ SameStack(r, b) /\ SameMove(r, b)
  BY <1>2 DEF OnlyPieces
<1>5. Top(r).zkey = Xor(Top(b).zkey, Xor(f, g)) /\ Top(r).rights = Top(b).rights
  BY <1>1, <1>4, TopFields
<1>6. Xor(KeyOf(b.squares, b.turn, Top(b).rights, e), f) = KeyOf(d, b.turn, Top(b).rights, e)
  BY <1>1, KeyDrop
<1>7. Placed(d) /\ to \notin DOMAIN d
  BY <1>1, SquaresTyped DEF Drop
<1> HIDE DEF d
<1>8. Xor(KeyOf(d, b.turn, Top(b).rights, e), g) = KeyOf(r.squares, b.turn, Top(b).rights, e)
  BY <1>2, <1>7, KeyPut
<1>9. r.turn = b.turn
  BY <1>4 DEF SameSide
<1>10. Xor(Top(b).zkey, Xor(f, g)) = Xor(Xor(Top(b).zkey, f), g)
  BY XorTwice
<1>11. Keyed(r, e)
  BY <1>1, <1>5, <1>6, <1>8, <1>9, <1>10 DEF Keyed
<1>12. Sound(r, e) /\ Beside(r, b)
  BY <1>3, <1>4, <1>5, <1>11 DEF Sound, Beside
<1> QED  BY <1>2, <1>12 DEF r, d

WithRights(s, rights, k) == [s EXCEPT !.rights = rights, !.zkey = k]

\* The fields of a state with other rights and key.
LEMMA NewRights ==
  ASSUME NEW s \in PlyStates, NEW rights \in SUBSET (Sides \X Colors), NEW k \in SUBSET Features
  PROVE  LET r == WithRights(s, rights, k) IN
         /\ r \in PlyStates /\ r.rights = rights /\ r.zkey = k
         /\ r.move = s.move /\ r.captured = s.captured
<1> DEFINE r == WithRights(s, rights, k)
<1>1. r \in [checkers : {s.checkers}, blockers : {s.blockers}, zkey : {k}, rights : {rights},
             ep : {s.ep}, legalEp : {s.legalEp}, clock : {s.clock}, move : {s.move}, captured : {s.captured}]
  BY ZenonT(40) DEF PlyStates, WithRights
<1> HIDE DEF r
<1>2. r \in PlyStates
  BY <1>1 DEF PlyStates
<1>3. r.rights = rights /\ r.zkey = k /\ r.move = s.move /\ r.captured = s.captured
  BY <1>1
<1> QED  BY <1>2, <1>3 DEF r

\* Giving up castling rights keeps the key that of the position.
LEMMA SoundRights ==
  ASSUME NEW b, NEW e, Sound(b, e), NEW rights
  PROVE  LET r == ClearRights(b, rights) IN
         Sound(r, e) /\ SamePieces(r, b) /\ SameSide(r, b) /\ SameStack(r, b) /\ SameMove(r, b)
<1> DEFINE held == Top(b).rights \intersect rights
           s == [Top(b) EXCEPT !.rights = @ \ held, !.zkey = Xor(@, HashCastle(held))]
           r == ClearRights(b, rights)
<1>1. WellTyped(b) /\ PiecesAgree(b) /\ Keyed(b, e) /\ Top(b) \in PlyStates
  BY Fields DEF Sound
<1>2. held \subseteq Top(b).rights /\ held \in SUBSET (Sides \X Colors)
  BY <1>1 DEF PlyStates
<1>3. r = WithTop(b, s)
  BY DEF ClearRights
<1> HIDE DEF held
<1>4. HashCastle(held) \subseteq Features /\ Xor(Top(b).zkey, HashCastle(held)) \subseteq Features
  <2>1. HashCastle(held) \subseteq Features
    BY <1>2, Features1
  <2>2. Top(b).zkey \in SUBSET Features
    BY <1>1 DEF PlyStates
  <2> QED  BY <2>1, <2>2, Features1
<1>10. s = WithRights(Top(b), Top(b).rights \ held, Xor(Top(b).zkey, HashCastle(held)))
  BY DEF WithRights
<1> HIDE DEF s
<1>5. /\ s \in PlyStates /\ s.rights = Top(b).rights \ held /\ s.zkey = Xor(Top(b).zkey, HashCastle(held))
      /\ s.move = Top(b).move /\ s.captured = Top(b).captured
  <2>1. Top(b).rights \ held \in SUBSET (Sides \X Colors)
    BY <1>1 DEF PlyStates
  <2> QED  BY <1>1, <1>4, <1>10, <2>1, NewRights
<1>6. WellTyped(r) /\ Top(r) = s /\ SamePieces(r, b) /\ SameSide(r, b) /\ SameStack(r, b)
  BY <1>1, <1>3, <1>5, NewTop
<1> HIDE DEF r
<1>7. Keyed(r, e)
  BY <1>1, <1>2, <1>5, <1>6, KeyRights DEF Keyed, SamePieces, SameSide
<1>8. PiecesAgree(r)
  BY <1>1, <1>6 DEF PiecesAgree, SamePieces
<1>9. SameMove(r, b)
  BY <1>5, <1>6 DEF SameMove
<1> QED  BY <1>6, <1>7, <1>8, <1>9 DEF Sound, r

-----------------------------------------------------------------------------
(* The other steps of make touch only the top of the stack.                *)

Sided(s, captured) == [s EXCEPT !.captured = captured, !.clock = 0]
Clocked(s) == [s EXCEPT !.clock = 0]
Aimed(s, ep) == [s EXCEPT !.ep = ep]
Cached(s, checkers, blockers) == [s EXCEPT !.checkers = checkers, !.blockers = blockers]
Keyable(s, target) == [s EXCEPT !.legalEp = target]

States(checkers, blockers, zkey, rights, ep, legalEp, clock, move, captured) ==
  [checkers : {checkers}, blockers : {blockers}, zkey : {zkey}, rights : {rights}, ep : {ep},
   legalEp : {legalEp}, clock : {clock}, move : {move}, captured : {captured}]

\* The fields of the states that the other steps of make write.
LEMMA NewStates ==
  ASSUME NEW s \in PlyStates, NEW k \in NO_PIECETYPE..KING, NEW e \in Squares \union {INVALID},
         NEW checkers \in SUBSET Squares, NEW blockers \in [Colors -> SUBSET Squares]
  PROVE  /\ LET r == Sided(s, k) IN
            /\ r \in PlyStates /\ r.zkey = s.zkey /\ r.rights = s.rights /\ r.move = s.move /\ r.captured = k
         /\ LET r == Clocked(s) IN
            /\ r \in PlyStates /\ r.zkey = s.zkey /\ r.rights = s.rights /\ r.move = s.move
            /\ r.captured = s.captured
         /\ LET r == Aimed(s, e) IN
            /\ r \in PlyStates /\ r.zkey = s.zkey /\ r.rights = s.rights /\ r.move = s.move
            /\ r.captured = s.captured
         /\ LET r == Cached(s, checkers, blockers) IN
            /\ r \in PlyStates /\ r.zkey = s.zkey /\ r.rights = s.rights /\ r.move = s.move
            /\ r.captured = s.captured /\ r.legalEp = s.legalEp
         /\ LET r == Keyable(s, e) IN
            /\ r \in PlyStates /\ r.zkey = s.zkey /\ r.rights = s.rights /\ r.move = s.move
            /\ r.captured = s.captured /\ r.legalEp = e
<1>0. 0 \in 0..255
  OBVIOUS
<1>1. Sided(s, k) \in States(s.checkers, s.blockers, s.zkey, s.rights, s.ep, s.legalEp, 0, s.move, k)
  BY DEF PlyStates, States, Sided
<1>2. Clocked(s) \in States(s.checkers, s.blockers, s.zkey, s.rights, s.ep, s.legalEp, 0, s.move, s.captured)
  BY DEF PlyStates, States, Clocked
<1>3. Aimed(s, e) \in States(s.checkers, s.blockers, s.zkey, s.rights, e, s.legalEp, s.clock, s.move, s.captured)
  BY DEF PlyStates, States, Aimed
<1>4. Cached(s, checkers, blockers)
        \in States(checkers, blockers, s.zkey, s.rights, s.ep, s.legalEp, s.clock, s.move, s.captured)
  BY DEF PlyStates, States, Cached
<1>5. Keyable(s, e) \in States(s.checkers, s.blockers, s.zkey, s.rights, s.ep, e, s.clock, s.move, s.captured)
  BY DEF PlyStates, States, Keyable
<1>6. /\ Sided(s, k) \in PlyStates /\ Clocked(s) \in PlyStates /\ Aimed(s, e) \in PlyStates
      /\ Cached(s, checkers, blockers) \in PlyStates /\ Keyable(s, e) \in PlyStates
  BY <1>0, <1>1, <1>2, <1>3, <1>4, <1>5 DEF PlyStates, States
<1> QED  BY <1>1, <1>2, <1>3, <1>4, <1>5, <1>6 DEF States

\* A top with the same key and rights keeps a board sound.
LEMMA TopReplaced ==
  ASSUME NEW b, NEW e, Sound(b, e), NEW s \in PlyStates, s.zkey = Top(b).zkey, s.rights = Top(b).rights
  PROVE  LET r == WithTop(b, s) IN
         /\ Sound(r, e) /\ Top(r) = s
         /\ SamePieces(r, b) /\ SameSide(r, b) /\ SameStack(r, b)
<1> DEFINE r == WithTop(b, s)
<1>1. WellTyped(b) /\ PiecesAgree(b) /\ Keyed(b, e)
  BY DEF Sound
<1>2. WellTyped(r) /\ Top(r) = s /\ SamePieces(r, b) /\ SameSide(r, b) /\ SameStack(r, b)
  BY <1>1, NewTop
<1> HIDE DEF r
<1>3. Keyed(r, e)
  BY <1>1, <1>2 DEF Keyed, SamePieces, SameSide
<1>4. PiecesAgree(r)
  BY <1>1, <1>2 DEF PiecesAgree, SamePieces
<1> QED  BY <1>2, <1>3, <1>4 DEF Sound, r

\* Occupied squares and attackers are squares of the board.
LEMMA OnTheBoard ==
  ASSUME NEW b, WellTyped(b), NEW c \in Colors
  PROVE  /\ Occupancy(b) \subseteq Squares
         /\ \A target, occupied : AttacksTo(b, target, c, occupied) \subseteq Squares
<1>1. /\ \A d \in Colors, u \in Slots : b.bb[d][u] \subseteq Squares
      /\ WHITE \in Colors /\ BLACK \in Colors
  BY Fields DEF Bitboards, Colors
<1>2. {AllSlot, PAWN, KNIGHT, BISHOP, ROOK, QUEEN, KING} \subseteq Slots
  BY DEF Slots, AllSlot, PAWN, KNIGHT, BISHOP, ROOK, QUEEN, KING
<1>3. Occupancy(b) \subseteq Squares
  BY <1>1, <1>2 DEF Occupancy
<1>4. ASSUME NEW types \in SUBSET Slots PROVE Of(b, c, types) \subseteq Squares
  BY <1>1 DEF Of
<1>5. ASSUME NEW target, NEW occupied PROVE AttacksTo(b, target, c, occupied) \subseteq Squares
  <2>1. /\ b.bb[c][PAWN] \subseteq Squares /\ b.bb[c][KNIGHT] \subseteq Squares /\ b.bb[c][KING] \subseteq Squares
        /\ Of(b, c, {BISHOP, QUEEN}) \subseteq Squares /\ Of(b, c, {ROOK, QUEEN}) \subseteq Squares
    BY <1>1, <1>2, <1>4
  <2> QED  BY <2>1, Zenon DEF AttacksTo
<1> QED  BY <1>3, <1>5

\* Refreshing the tactical cache touches neither pieces nor key.
LEMMA SoundCache ==
  ASSUME NEW b, NEW e, Sound(b, e)
  PROVE  LET r == RefreshTacticalCache(b) IN
         /\ Sound(r, e) /\ SamePieces(r, b) /\ SameSide(r, b) /\ SameStack(r, b) /\ SameMove(r, b)
         /\ Top(r).legalEp = Top(b).legalEp
<1> DEFINE blockersOf(c) == SliderBlockers(b.king[c], Of(b, Other(c), {BISHOP, QUEEN}),
                                           Of(b, Other(c), {ROOK, QUEEN}), Occupancy(b))
           checkers == AttacksTo(b, b.king[b.turn], Other(b.turn), Occupancy(b))
           blockers == [c \in Colors |-> blockersOf(c)]
           s == Cached(Top(b), checkers, blockers)
<1>1. WellTyped(b) /\ Top(b) \in PlyStates /\ b.turn \in Colors
  BY Fields DEF Sound
<1>2. Other(b.turn) \in Colors
  BY <1>1 DEF Other, Colors, BLACK, WHITE
<1>3. checkers \in SUBSET Squares
  BY <1>1, <1>2, OnTheBoard
<1>4. Occupancy(b) \subseteq Squares
  BY <1>1, <1>2, OnTheBoard
<1>5. \A king, x, y, z : SliderBlockers(king, x, y, z) \subseteq z
  BY DEF SliderBlockers
<1>6. blockers \in [Colors -> SUBSET Squares]
  BY <1>4, <1>5, Zenon
<1>7. RefreshTacticalCache(b) = WithTop(b, s)
  BY DEF RefreshTacticalCache, Cached
<1> HIDE DEF checkers, blockers
<1>8. /\ s \in PlyStates /\ s.zkey = Top(b).zkey /\ s.rights = Top(b).rights /\ s.move = Top(b).move
      /\ s.captured = Top(b).captured /\ s.legalEp = Top(b).legalEp
  <2>1. NO_PIECETYPE \in NO_PIECETYPE..KING /\ INVALID \in Squares \union {INVALID}
    BY DEF NO_PIECETYPE, KING
  <2> QED  BY SMTT(30), <1>1, <1>3, <1>6, <2>1, NewStates
<1> HIDE DEF s
<1> DEFINE r == WithTop(b, s)
<1>9. Sound(r, e) /\ Top(r) = s /\ SamePieces(r, b) /\ SameSide(r, b) /\ SameStack(r, b)
  BY <1>8, TopReplaced
<1> HIDE DEF r
<1>10. SameMove(r, b) /\ Top(r).legalEp = Top(b).legalEp
  BY <1>8, <1>9 DEF SameMove
<1> QED  BY <1>7, <1>9, <1>10 DEF r

\* Refreshing the legal target and hashing it in leaves the key whole.
LEMMA SoundTarget ==
  ASSUME NEW b, Sound(b, INVALID)
  PROVE  LET r == KeyTarget(RefreshLegalEnpassantTarget(b)) IN
         /\ Sound(r, Top(r).legalEp)
         /\ SamePieces(r, b) /\ SameSide(r, b) /\ SameStack(r, b) /\ SameMove(r, b)
<1> DEFINE e == LegalEnpassantTarget(b)  s == Keyable(Top(b), e)  a == RefreshLegalEnpassantTarget(b)
           r == KeyTarget(a)  f == EpKey(e)
<1>1. Top(b) \in PlyStates
  BY Fields DEF Sound
<1>2. e \in Squares \union {INVALID}
  BY <1>1 DEF LegalEnpassantTarget, PlyStates
<1>3. a = WithTop(b, s)
  BY DEF RefreshLegalEnpassantTarget, Keyable
<1> HIDE DEF e, a
<1>4. /\ s \in PlyStates /\ s.zkey = Top(b).zkey /\ s.rights = Top(b).rights /\ s.move = Top(b).move
      /\ s.captured = Top(b).captured /\ s.legalEp = e
  <2>1. NO_PIECETYPE \in NO_PIECETYPE..KING /\ {} \in SUBSET Squares /\ [c \in Colors |-> {}] \in [Colors -> SUBSET Squares]
    BY DEF NO_PIECETYPE, KING
  <2> QED  BY ZenonT(40), <1>1, <1>2, <2>1, NewStates
<1> HIDE DEF s
<1>5. Sound(a, INVALID) /\ Top(a) = s /\ SamePieces(a, b) /\ SameSide(a, b) /\ SameStack(a, b)
  BY <1>3, <1>4, TopReplaced
<1>6. WellTyped(a) /\ PiecesAgree(a) /\ Keyed(a, INVALID)
  BY <1>5 DEF Sound
<1>7. f \in SUBSET Features
  BY <1>2, Features1
<1>8. r = Rehash(a, TRUE, f)
  BY <1>4, <1>5 DEF KeyTarget
<1> HIDE DEF f, r
<1>9. /\ WellTyped(r) /\ SamePieces(r, a) /\ SameSide(r, a) /\ SameStack(r, a) /\ SameMove(r, a)
      /\ Top(r) = [Top(a) EXCEPT !.zkey = Xor(@, f)]
  <2>1. TRUE \in BOOLEAN
    OBVIOUS
  <2> QED  BY <1>6, <1>7, <1>8, <2>1, Rehashed
<1>10. Top(r).zkey = Xor(Top(a).zkey, f) /\ Top(r).rights = Top(a).rights /\ Top(r).legalEp = e
  BY <1>4, <1>5, <1>9 DEF PlyStates
<1>11. Keyed(r, e)
  BY <1>6, <1>9, <1>10, KeyEp DEF Keyed, SamePieces, SameSide, f
<1>12. PiecesAgree(r)
  BY <1>6, <1>9 DEF PiecesAgree, SamePieces
<1>13. SamePieces(r, b) /\ SameSide(r, b) /\ SameStack(r, b) /\ SameMove(r, b)
  BY <1>4, <1>5, <1>9 DEF SamePieces, SameSide, SameStack, SameMove
<1> QED  BY <1>9, <1>10, <1>11, <1>12, <1>13 DEF Sound, r, a

-----------------------------------------------------------------------------
(* Boards with another king square, side, ply or stack.                    *)

Crowned(b, c, sq) == [b EXCEPT !.king[c] = sq]
Turned(b, turn) == [b EXCEPT !.turn = turn]
Numbered(b, ply) == [b EXCEPT !.ply = ply]
Stacked(b, states) == [b EXCEPT !.states = states]

\* The fields of a board given field by field.
LEMMA FieldsOf ==
  ASSUME NEW a1, NEW a2, NEW a3, NEW a4, NEW a5, NEW a6, NEW a7, NEW a8,
         NEW r \in Exactly(a1, a2, a3, a4, a5, a6, a7, a8)
  PROVE  /\ Itself(r) /\ r.squares = a1 /\ r.bb = a2 /\ r.count = a3 /\ r.king = a4 /\ r.turn = a5
         /\ r.ply = a6 /\ r.terms = a7 /\ r.states = a8
BY DEF Itself, Exactly

\* The fields of a board with another king square.
LEMMA CrownedFields ==
  ASSUME NEW b, Itself(b), NEW c, NEW sq
  PROVE  LET r == Crowned(b, c, sq) IN
         /\ Itself(r) /\ SamePieces(r, b) /\ r.states = b.states
         /\ r.king = [b.king EXCEPT ![c] = sq] /\ r.turn = b.turn /\ r.ply = b.ply
<1>1. Crowned(b, c, sq)
        \in Exactly(b.squares, b.bb, b.count, [b.king EXCEPT ![c] = sq], b.turn, b.ply, b.terms, b.states)
  BY DEF Itself, Exactly, Crowned
<1> QED  BY <1>1, FieldsOf DEF SamePieces

\* The fields of a board with another side to move.
LEMMA TurnedFields ==
  ASSUME NEW b, Itself(b), NEW turn
  PROVE  LET r == Turned(b, turn) IN
         /\ Itself(r) /\ SamePieces(r, b) /\ r.states = b.states
         /\ r.king = b.king /\ r.turn = turn /\ r.ply = b.ply
<1>1. Turned(b, turn) \in Exactly(b.squares, b.bb, b.count, b.king, turn, b.ply, b.terms, b.states)
  BY DEF Itself, Exactly, Turned
<1> QED  BY <1>1, FieldsOf DEF SamePieces

\* The fields of a board with another ply.
LEMMA NumberedFields ==
  ASSUME NEW b, Itself(b), NEW ply
  PROVE  LET r == Numbered(b, ply) IN
         /\ Itself(r) /\ SamePieces(r, b) /\ r.states = b.states
         /\ r.king = b.king /\ r.turn = b.turn /\ r.ply = ply
<1>1. Numbered(b, ply) \in Exactly(b.squares, b.bb, b.count, b.king, b.turn, ply, b.terms, b.states)
  BY DEF Itself, Exactly, Numbered
<1> QED  BY <1>1, FieldsOf DEF SamePieces

\* The fields of a board with another stack.
LEMMA StackedFields ==
  ASSUME NEW b, Itself(b), NEW states
  PROVE  LET r == Stacked(b, states) IN
         /\ Itself(r) /\ SamePieces(r, b) /\ r.states = states
         /\ r.king = b.king /\ r.turn = b.turn /\ r.ply = b.ply
<1>1. Stacked(b, states) \in Exactly(b.squares, b.bb, b.count, b.king, b.turn, b.ply, b.terms, states)
  BY DEF Itself, Exactly, Stacked
<1> QED  BY <1>1, FieldsOf DEF SamePieces

\* Another king square keeps a board sound.
LEMMA SoundKing ==
  ASSUME NEW b, NEW e, Sound(b, e), NEW c \in Colors, NEW sq \in Squares
  PROVE  LET r == Crowned(b, c, sq) IN
         /\ Sound(r, e) /\ SamePieces(r, b) /\ r.states = b.states
         /\ r.king = [b.king EXCEPT ![c] = sq] /\ r.turn = b.turn /\ r.ply = b.ply
<1> DEFINE r == Crowned(b, c, sq)
<1>1. WellTyped(b) /\ PiecesAgree(b) /\ Keyed(b, e)
  BY DEF Sound
<1>2. /\ Itself(b) /\ Placed(b.squares) /\ b.bb \in Bitboards /\ b.count \in Tallies
      /\ b.king \in [Colors -> Squares] /\ b.turn \in Colors /\ b.ply \in Nat
      /\ b.terms \in [material : Int, bonus : Int] /\ b.states \in Seq(PlyStates) /\ b.states # << >>
  BY <1>1, Fields
<1>3. /\ Itself(r) /\ SamePieces(r, b) /\ r.states = b.states
      /\ r.king = [b.king EXCEPT ![c] = sq] /\ r.turn = b.turn /\ r.ply = b.ply
  BY <1>2, CrownedFields
<1> HIDE DEF r
<1>4. r.king \in [Colors -> Squares]
  BY <1>2, <1>3
<1>5. WellTyped(r)
  BY <1>2, <1>3, <1>4, FieldsSuffice DEF SamePieces
<1>6. PiecesAgree(r)
  BY <1>1, <1>3 DEF PiecesAgree, SamePieces
<1>7. Keyed(r, e)
  BY <1>1, <1>3 DEF Keyed, SamePieces, Top
<1> QED  BY <1>3, <1>5, <1>6, <1>7 DEF Sound, r

TurnedTo(r, b, g) ==
  /\ Sound(r, g) /\ SamePieces(r, b) /\ SameStack(r, b) /\ SameMove(r, b)
  /\ r.king = b.king /\ r.turn = Other(b.turn) /\ r.ply = b.ply
  /\ Top(r).legalEp = Top(b).legalEp

\* Passing the turn and hashing f keeps the key that of the position with target g.
LEMMA SoundTurned ==
  ASSUME NEW b, NEW e, Sound(b, e), NEW f \in SUBSET Features, NEW g,
         Xor(KeyOf(b.squares, b.turn, Top(b).rights, e), f) = KeyOf(b.squares, Other(b.turn), Top(b).rights, g)
  PROVE  TurnedTo(Rehash(Turned(b, Other(b.turn)), TRUE, f), b, g)
<1> DEFINE a == Turned(b, Other(b.turn))  r == Rehash(a, TRUE, f)
<1>1. WellTyped(b) /\ PiecesAgree(b) /\ Keyed(b, e)
  BY DEF Sound
<1>2. /\ Itself(b) /\ Placed(b.squares) /\ b.bb \in Bitboards /\ b.count \in Tallies
      /\ b.king \in [Colors -> Squares] /\ b.turn \in Colors /\ b.ply \in Nat
      /\ b.terms \in [material : Int, bonus : Int] /\ b.states \in Seq(PlyStates) /\ b.states # << >>
      /\ Top(b) \in PlyStates
  BY <1>1, Fields
<1>3. /\ Itself(a) /\ SamePieces(a, b) /\ a.states = b.states
      /\ a.king = b.king /\ a.turn = Other(b.turn) /\ a.ply = b.ply
  BY <1>2, TurnedFields
<1> HIDE DEF a
<1>4. a.turn \in Colors
  BY <1>2, <1>3 DEF Other, Colors, BLACK, WHITE
<1>5. WellTyped(a)
  BY <1>2, <1>3, <1>4, FieldsSuffice DEF SamePieces
<1>6. Top(a) = Top(b)
  BY <1>3 DEF Top
<1>7. /\ WellTyped(r) /\ SamePieces(r, a) /\ SameSide(r, a) /\ SameStack(r, a) /\ SameMove(r, a)
      /\ Top(r) = [Top(a) EXCEPT !.zkey = Xor(@, f)]
  <2>1. TRUE \in BOOLEAN
    OBVIOUS
  <2> QED  BY <1>5, <2>1, Rehashed
<1> HIDE DEF r
<1>8. /\ Top(r).zkey = Xor(Top(b).zkey, f) /\ Top(r).rights = Top(b).rights
      /\ Top(r).legalEp = Top(b).legalEp
  BY <1>2, <1>6, <1>7, TopFields
<1>9. Keyed(r, g)
  BY <1>1, <1>3, <1>7, <1>8 DEF Keyed, SamePieces, SameSide
<1>10. PiecesAgree(r)
  BY <1>1, <1>3, <1>7 DEF PiecesAgree, SamePieces
<1>11. SamePieces(r, b) /\ SameStack(r, b) /\ SameMove(r, b)
  BY <1>3, <1>6, <1>7 DEF SamePieces, SameStack, SameMove
<1>12. r.king = b.king /\ r.turn = Other(b.turn) /\ r.ply = b.ply
  BY <1>3, <1>7 DEF SameSide
<1>13. TurnedTo(r, b, g)
  BY <1>3, <1>6, <1>7, <1>8, <1>9, <1>10, <1>11, <1>12 DEF Sound, TurnedTo
<1> QED  BY <1>13 DEF r, a

\* As make does it, the target is already out of the key.
LEMMA SoundTurn ==
  ASSUME NEW b, NEW e, Sound(b, e)
  PROVE  LET r == Rehash(Turned(b, Other(b.turn)), TRUE, HashTurn) IN
         /\ Sound(r, e) /\ SamePieces(r, b) /\ SameStack(r, b) /\ SameMove(r, b)
         /\ r.king = b.king /\ r.turn = Other(b.turn) /\ r.ply = b.ply
<1>1. b.turn \in Colors /\ HashTurn \in SUBSET Features
  BY Fields, Features1 DEF Sound
<1>2. Xor(KeyOf(b.squares, b.turn, Top(b).rights, e), HashTurn) = KeyOf(b.squares, Other(b.turn), Top(b).rights, e)
  BY <1>1, KeyTurned
<1>3. Sound(b, e) => TurnedTo(Rehash(Turned(b, Other(b.turn)), TRUE, HashTurn), b, e)
  BY <1>1, <1>2, SoundTurned
<1> QED  BY <1>3 DEF TurnedTo

\* As make_null does it, the turn and the old target are hashed together.
LEMMA SoundPass ==
  ASSUME NEW b, NEW e \in Squares \union {INVALID}, Sound(b, e)
  PROVE  LET r == Rehash(Turned(b, Other(b.turn)), TRUE, Xor(HashTurn, EpKey(e))) IN
         /\ Sound(r, INVALID) /\ SamePieces(r, b) /\ SameStack(r, b) /\ SameMove(r, b)
         /\ r.king = b.king /\ r.turn = Other(b.turn) /\ r.ply = b.ply
         /\ Top(r).legalEp = Top(b).legalEp
<1> DEFINE f == Xor(HashTurn, EpKey(e))  key(turn, g) == KeyOf(b.squares, turn, Top(b).rights, g)
<1>1. b.turn \in Colors /\ f \in SUBSET Features
  BY Fields, Features1 DEF Sound
<1>2. Xor(key(b.turn, e), f) = key(Other(b.turn), INVALID)
  <2>1. Xor(key(b.turn, e), f) = Xor(Xor(key(b.turn, e), HashTurn), EpKey(e))
    BY XorTwice
  <2>2. Xor(key(b.turn, e), HashTurn) = key(Other(b.turn), e)
    BY <1>1, KeyTurned
  <2>3. Xor(key(Other(b.turn), e), EpKey(e)) = key(Other(b.turn), INVALID)
    BY KeyEp
  <2> QED  BY <2>1, <2>2, <2>3
<1> HIDE DEF f
<1>3. TurnedTo(Rehash(Turned(b, Other(b.turn)), TRUE, f), b, INVALID)
  BY <1>1, <1>2, SoundTurned
<1> QED  BY <1>3 DEF f, TurnedTo

\* The pushed state carries the key and the rights over and has no target.
LEMMA SoundPush ==
  ASSUME NEW b, NEW e, Sound(b, e), NEW m,
         m \in [from : Squares, to : Squares, type : BASIC_MOVE..MOVE_CASTLE, prom : PieceTypes]
  PROVE  LET r == PushPlyState(b, m) IN
         /\ Sound(r, e) /\ SamePieces(r, b) /\ SameSide(r, b)
         /\ Len(r.states) = Len(b.states) + 1 /\ \A i \in 1 .. Len(b.states) : r.states[i] = b.states[i]
         /\ Top(r).move = m /\ Top(r).captured = NO_PIECETYPE /\ Top(r).legalEp = INVALID
<1> DEFINE s == [EmptyState EXCEPT !.zkey = Top(b).zkey, !.rights = Top(b).rights,
                                   !.clock = (Top(b).clock + 1) % 256, !.move = m]
           t == Append(b.states, s)  r == PushPlyState(b, m)
<1>1. WellTyped(b) /\ PiecesAgree(b) /\ Keyed(b, e)
  BY DEF Sound
<1>2. /\ Itself(b) /\ Placed(b.squares) /\ b.bb \in Bitboards /\ b.count \in Tallies
      /\ b.king \in [Colors -> Squares] /\ b.turn \in Colors /\ b.ply \in Nat
      /\ b.terms \in [material : Int, bonus : Int] /\ b.states \in Seq(PlyStates) /\ b.states # << >>
      /\ Top(b) \in PlyStates
  BY <1>1, Fields
<1>3. s \in States({}, [c \in Colors |-> {}], Top(b).zkey, Top(b).rights, INVALID, INVALID,
                   (Top(b).clock + 1) % 256, m, NO_PIECETYPE)
  BY ZenonT(40) DEF EmptyState, States
<1> HIDE DEF s
<1>4. /\ Top(b).zkey \in SUBSET Features /\ Top(b).rights \in SUBSET (Sides \X Colors)
      /\ (Top(b).clock + 1) % 256 \in 0..255 /\ NO_PIECETYPE \in NO_PIECETYPE..KING
  <2>3. Top(b).clock \in 0..255
    BY <1>2, Zenon DEF PlyStates
  <2>1. Top(b).clock \in Int
    BY <2>3
  <2>2. \A n \in Int : (n + 1) % 256 \in 0..255
    OBVIOUS
  <2>4. Top(b).zkey \in SUBSET Features /\ Top(b).rights \in SUBSET (Sides \X Colors)
    BY <1>2 DEF PlyStates
  <2>5. (Top(b).clock + 1) % 256 \in 0..255
    BY <2>1, <2>2
  <2>6. NO_PIECETYPE \in NO_PIECETYPE..KING
    BY DEF NO_PIECETYPE, KING
  <2> QED  BY <2>4, <2>5, <2>6
<1>5. /\ s \in PlyStates /\ s.zkey = Top(b).zkey /\ s.rights = Top(b).rights /\ s.move = m
      /\ s.captured = NO_PIECETYPE /\ s.legalEp = INVALID
  BY <1>3, <1>4 DEF PlyStates, States
<1>6. /\ t \in Seq(PlyStates) /\ t # << >> /\ Len(t) = Len(b.states) + 1 /\ t[Len(t)] = s
      /\ \A i \in 1 .. Len(b.states) : t[i] = b.states[i]
  BY <1>2, <1>5
<1>7. r = Stacked(b, t)
  BY DEF PushPlyState, Stacked, s
<1> HIDE DEF t, r
<1>8. /\ Itself(r) /\ SamePieces(r, b) /\ r.states = t
      /\ r.king = b.king /\ r.turn = b.turn /\ r.ply = b.ply
  BY <1>2, <1>7, StackedFields
<1>9. WellTyped(r)
  BY <1>2, <1>6, <1>8, FieldsSuffice DEF SamePieces
<1>10. Top(r) = s
  BY <1>6, <1>8 DEF Top
<1>11. Keyed(r, e)
  BY <1>1, <1>5, <1>8, <1>10 DEF Keyed, SamePieces
<1>12. PiecesAgree(r)
  BY <1>1, <1>8 DEF PiecesAgree, SamePieces
<1> QED  BY <1>5, <1>6, <1>8, <1>9, <1>10, <1>11, <1>12 DEF Sound, SameSide, r

-----------------------------------------------------------------------------
(* Capture, and what the kind of the moved piece adds.                     *)

CapturedFrom(m, c) == IF m.type = MOVE_EP THEN EnpassantCaptured(m.to, Other(c)) ELSE m.to
Without(b, at, c, k) == IF k = NO_PIECETYPE THEN b ELSE RemovePiece(b, at, c, k, TRUE)

\* The captured piece leaves, and a captured rook takes its right along.
LEMMA SoundCapture ==
  ASSUME NEW b, NEW e, Sound(b, e), NEW m, NEW c \in Colors, NEW k \in NO_PIECETYPE..KING, NEW at,
         at = CapturedFrom(m, c),
         k # NO_PIECETYPE => at \in Squares /\ Stands(b, at, c, k),
         Top(b).captured = NO_PIECETYPE
  PROVE  LET r == Capture(b, m, c, k) IN
         /\ Sound(r, e) /\ SameSide(r, b) /\ SameStack(r, b)
         /\ Top(r).move = Top(b).move /\ Top(r).captured = k
         /\ SamePieces(r, Without(b, at, c, k))
<1> DEFINE s == Sided(Top(b), k)  cleared == WithTop(b, s)
           removed == RemovePiece(cleared, at, c, k, TRUE)
           r == Capture(b, m, c, k)
<1>1. r = IF k = NO_PIECETYPE THEN b
          ELSE IF k = ROOK THEN ClearRookCastlingRight(removed, c, at) ELSE removed
  BY DEF Capture, Sided, CapturedFrom
<1> HIDE DEF r
<1>2. CASE k = NO_PIECETYPE
  <2>1. r = b
    BY <1>1, <1>2
  <2> QED  BY <1>2, <2>1 DEF SameSide, SameStack, SamePieces, Without, r
<1>3. CASE k # NO_PIECETYPE
  <2>1. k \in PieceTypes /\ at \in Squares /\ Stands(b, at, c, k)
    BY <1>3 DEF PieceTypes, PAWN, KING, NO_PIECETYPE
  <2>2. WellTyped(b) /\ Top(b) \in PlyStates
    BY Fields DEF Sound
  <2>3. s \in PlyStates /\ s.zkey = Top(b).zkey /\ s.rights = Top(b).rights /\ s.move = Top(b).move /\ s.captured = k
    <3>1. INVALID \in Squares \union {INVALID} /\ {} \in SUBSET Squares /\ [d \in Colors |-> {}] \in [Colors -> SUBSET Squares]
      OBVIOUS
    <3> QED  BY <2>2, <3>1, NewStates
  <2> HIDE DEF s
  <2>4. /\ Sound(cleared, e) /\ Top(cleared) = s
        /\ SamePieces(cleared, b) /\ SameSide(cleared, b) /\ SameStack(cleared, b)
    BY <2>3, TopReplaced
  <2> HIDE DEF cleared
  <2>5. Stands(cleared, at, c, k)
    BY <2>1, <2>4 DEF Stands, SamePieces
  <2>6. Sound(removed, e) /\ Beside(removed, cleared)
    BY <2>1, <2>4, <2>5, SoundRemove
  <2>7. SamePieces(removed, RemovePiece(b, at, c, k, TRUE))
    <3>1. WellTyped(cleared) /\ TRUE \in BOOLEAN
      BY <2>4 DEF Sound
    <3> QED  BY <2>1, <2>2, <2>4, <3>1, Alike
  <2> HIDE DEF removed
  <2>8. /\ Sound(r, e) /\ SamePieces(r, removed) /\ SameSide(r, removed)
        /\ SameStack(r, removed) /\ SameMove(r, removed)
    <3>1. CASE k = ROOK
      BY <1>1, <1>3, <2>6, <3>1, SoundRights DEF ClearRookCastlingRight
    <3>2. CASE k # ROOK
      BY <1>1, <1>3, <2>6, <3>2 DEF SamePieces, SameSide, SameStack, SameMove
    <3> QED  BY <3>1, <3>2
  <2>9. SameSide(r, b) /\ SameStack(r, b) /\ SamePieces(r, RemovePiece(b, at, c, k, TRUE))
    BY <2>4, <2>6, <2>7, <2>8 DEF Beside, SameSide, SameStack, SamePieces
  <2>10. Top(r).move = Top(b).move /\ Top(r).captured = k
    BY <2>3, <2>4, <2>6, <2>8 DEF Beside, SameMove
  <2> QED  BY <1>3, <2>8, <2>9, <2>10 DEF Without, r
<1> QED  BY <1>2, <1>3

KingAt(king, c, t, to) == IF t = KING THEN [king EXCEPT ![c] = to] ELSE king
WithPromotion(b, m, c) ==
  IF m.type = MOVE_PROM THEN AddPiece(RemovePiece(b, m.to, c, PAWN, TRUE), m.to, c, m.prom, TRUE) ELSE b

\* What the kind of the moved piece adds: promotion, king square, rights.
LEMMA SoundAfter ==
  ASSUME NEW b, NEW e, Sound(b, e), NEW m, m.to \in Squares, NEW c \in Colors, NEW t \in PieceTypes,
         m.type = MOVE_PROM => /\ t = PAWN /\ Abs(m.to - m.from) # DOUBLE_PUSH /\ m.prom \in PieceTypes
                               /\ Stands(b, m.to, c, PAWN),
         t = PAWN /\ Abs(m.to - m.from) = DOUBLE_PUSH => EnpassantTarget(m.to, c) \in Squares
  PROVE  LET r == AfterMove(b, m, c, t) IN
         /\ Sound(r, e) /\ SameStack(r, b) /\ SameMove(r, b) /\ r.turn = b.turn /\ r.ply = b.ply
         /\ r.king = KingAt(b.king, c, t, m.to) /\ SamePieces(r, WithPromotion(b, m, c))
<1> DEFINE s == Clocked(Top(b))  reset == WithTop(b, s)  r == AfterMove(b, m, c, t)
           aimed == Aimed(Top(reset), EnpassantTarget(m.to, c))
           removed == RemovePiece(reset, m.to, c, PAWN, TRUE)  added == AddPiece(removed, m.to, c, m.prom, TRUE)
           crowned == Crowned(b, c, m.to)
<1>1. /\ t = PAWN /\ Abs(m.to - m.from) = DOUBLE_PUSH => r = WithTop(reset, aimed)
      /\ t = PAWN /\ Abs(m.to - m.from) # DOUBLE_PUSH /\ m.type = MOVE_PROM => r = added
      /\ t = PAWN /\ Abs(m.to - m.from) # DOUBLE_PUSH /\ m.type # MOVE_PROM => r = reset
      /\ t = KING => r = ClearCastlingRights(crowned, c)
      /\ t = ROOK => r = ClearRookCastlingRight(b, c, m.from)
      /\ t \notin {PAWN, ROOK, KING} => r = b
  <2>1. PAWN # ROOK /\ PAWN # KING /\ ROOK # KING
    BY DEF PAWN, ROOK, KING
  <2>2. r = CASE t = PAWN /\ Abs(m.to - m.from) = DOUBLE_PUSH -> WithTop(reset, aimed)
              [] t = PAWN /\ Abs(m.to - m.from) # DOUBLE_PUSH /\ m.type = MOVE_PROM -> added
              [] t = PAWN /\ Abs(m.to - m.from) # DOUBLE_PUSH /\ m.type # MOVE_PROM -> reset
              [] t = KING -> ClearCastlingRights(crowned, c)
              [] t = ROOK -> ClearRookCastlingRight(b, c, m.from)
              [] OTHER -> b
    BY DEF AfterMove, Clocked, Aimed, Crowned
  <2> HIDE DEF r, reset, aimed, added, crowned
  <2> QED  BY <2>1, <2>2
<1> HIDE DEF r
<1>2. WellTyped(b) /\ Top(b) \in PlyStates /\ TRUE \in BOOLEAN /\ PAWN \in PieceTypes /\ PAWN # KING /\ ROOK # KING
      /\ PAWN # ROOK
  BY Fields DEF Sound, PieceTypes, PAWN, KING, ROOK
<1>0. /\ INVALID \in Squares \union {INVALID} /\ {} \in SUBSET Squares
      /\ [d \in Colors |-> {}] \in [Colors -> SUBSET Squares] /\ NO_PIECETYPE \in NO_PIECETYPE..KING
  BY DEF NO_PIECETYPE, KING
<1>3. /\ s \in PlyStates /\ s.zkey = Top(b).zkey /\ s.rights = Top(b).rights /\ s.move = Top(b).move
      /\ s.captured = Top(b).captured
  BY <1>0, <1>2, NewStates
<1> HIDE DEF s
<1>4. /\ Sound(reset, e) /\ Top(reset) = s
      /\ SamePieces(reset, b) /\ SameSide(reset, b) /\ SameStack(reset, b) /\ SameMove(reset, b)
  <2>1. /\ Sound(reset, e) /\ Top(reset) = s
        /\ SamePieces(reset, b) /\ SameSide(reset, b) /\ SameStack(reset, b)
    BY <1>3, TopReplaced
  <2> QED  BY <1>3, <2>1 DEF SameMove
<1> HIDE DEF reset
<1>5. CASE t = PAWN /\ Abs(m.to - m.from) = DOUBLE_PUSH
  <2>1. EnpassantTarget(m.to, c) \in Squares \union {INVALID} /\ Top(reset) \in PlyStates
    BY <1>3, <1>4, <1>5
  <2>2. /\ aimed \in PlyStates /\ aimed.zkey = Top(reset).zkey /\ aimed.rights = Top(reset).rights
        /\ aimed.move = Top(reset).move /\ aimed.captured = Top(reset).captured
    BY ZenonT(40), <1>0, <2>1, NewStates
  <2> HIDE DEF aimed
  <2>3. r = WithTop(reset, aimed)
    BY <1>1, <1>5
  <2>4. Sound(r, e) /\ Top(r) = aimed /\ SamePieces(r, reset) /\ SameSide(r, reset) /\ SameStack(r, reset)
    BY <1>4, <2>2, <2>3, TopReplaced
  <2>5. SameStack(r, b) /\ SameMove(r, b) /\ r.turn = b.turn /\ r.ply = b.ply /\ r.king = b.king /\ SamePieces(r, b)
    BY <1>4, <2>2, <2>4 DEF SameStack, SameMove, SameSide, SamePieces
  <2> QED  BY <1>2, <1>5, <2>4, <2>5 DEF KingAt, WithPromotion, r
<1>6. CASE t = PAWN /\ Abs(m.to - m.from) # DOUBLE_PUSH /\ m.type # MOVE_PROM
  <2>1. r = reset
    BY <1>1, <1>6
  <2> QED  BY <1>2, <1>4, <1>6, <2>1 DEF SameSide, KingAt, WithPromotion, r
<1>7. CASE m.type = MOVE_PROM
  <2>1. r = added /\ t = PAWN /\ m.prom \in PieceTypes /\ Stands(b, m.to, c, PAWN)
    BY <1>1, <1>7
  <2>2. Stands(reset, m.to, c, PAWN)
    BY <1>4, <2>1 DEF Stands, SamePieces
  <2>3. Sound(removed, e) /\ Beside(removed, reset) /\ removed.squares = Drop(reset.squares, m.to)
    BY <1>2, <1>4, <2>2, SoundRemove
  <2>4. SamePieces(removed, RemovePiece(b, m.to, c, PAWN, TRUE))
    <3>1. WellTyped(reset)
      BY <1>4 DEF Sound
    <3> QED  BY <1>2, <1>4, <3>1, Alike
  <2> HIDE DEF removed
  <2>5. m.to \notin DOMAIN removed.squares
    BY <2>3 DEF Drop
  <2>6. Sound(added, e) /\ Beside(added, removed)
    BY <2>1, <2>3, <2>5, SoundAdd
  <2>7. SamePieces(added, AddPiece(RemovePiece(b, m.to, c, PAWN, TRUE), m.to, c, m.prom, TRUE))
    <3>1. WellTyped(removed) /\ WellTyped(RemovePiece(b, m.to, c, PAWN, TRUE))
      BY <1>2, <2>3, Removed DEF OnlyPieces, Sound
    <3> QED  BY <1>2, <2>1, <2>4, <3>1, Alike
  <2> HIDE DEF added
  <2>8. SameStack(r, b) /\ SameMove(r, b) /\ r.turn = b.turn /\ r.ply = b.ply /\ r.king = b.king
    BY <1>4, <2>1, <2>3, <2>6 DEF Beside, SameStack, SameMove, SameSide
  <2> QED  BY <1>2, <1>7, <2>1, <2>6, <2>7, <2>8 DEF KingAt, WithPromotion, r
<1>8. CASE t = KING
  <2>1. m.type # MOVE_PROM
    BY <1>2, <1>8
  <2>2. /\ Sound(crowned, e) /\ SamePieces(crowned, b) /\ crowned.states = b.states
        /\ crowned.king = [b.king EXCEPT ![c] = m.to] /\ crowned.turn = b.turn /\ crowned.ply = b.ply
    BY SoundKing
  <2> HIDE DEF crowned
  <2>3. /\ Sound(r, e) /\ SamePieces(r, crowned) /\ SameSide(r, crowned) /\ SameStack(r, crowned)
        /\ SameMove(r, crowned)
    BY <1>1, <1>8, <2>2, SoundRights DEF ClearCastlingRights
  <2>4. SameStack(r, b) /\ SameMove(r, b) /\ SamePieces(r, b)
    BY <2>2, <2>3 DEF SameStack, SameMove, SamePieces, Top
  <2> QED  BY <1>8, <2>1, <2>2, <2>3, <2>4 DEF SameSide, KingAt, WithPromotion, r
<1>9. CASE t = ROOK
  <2>1. m.type # MOVE_PROM
    BY <1>2, <1>9
  <2>2. Sound(r, e) /\ SamePieces(r, b) /\ SameSide(r, b) /\ SameStack(r, b) /\ SameMove(r, b)
    BY <1>1, <1>9, SoundRights DEF ClearRookCastlingRight
  <2> QED  BY <1>2, <1>9, <2>1, <2>2 DEF SameSide, KingAt, WithPromotion, r
<1>10. CASE t \notin {PAWN, ROOK, KING}
  <2>1. m.type # MOVE_PROM /\ r = b
    BY <1>1, <1>10
  <2> QED  BY <1>10, <2>1 DEF SameStack, SameMove, SamePieces, KingAt, WithPromotion, r
<1> QED  BY <1>5, <1>6, <1>7, <1>8, <1>9, <1>10

-----------------------------------------------------------------------------
(* What is_pseudo_legal tells make.                                        *)

MoveShapes == [from : Squares, to : Squares, type : BASIC_MOVE..MOVE_CASTLE, prom : PieceTypes]

\* Where the captured piece stands, and the rook's part of castling.
CaptureAt(b, m) == IF m.type = MOVE_EP THEN EnpassantCaptured(m.to, b.turn) ELSE m.to
RookFrom(b, m) == Castling(CastleSide(m.from, m.to), b.turn).rook_from
RookTo(b, m) == Castling(CastleSide(m.from, m.to), b.turn).rook_to

Arrives(b, m) ==
  /\ m \in MoveShapes /\ m # NULL_MOVE /\ m.from # m.to
  /\ TypeOn(b, m.from) \in PieceTypes /\ Stands(b, m.from, b.turn, TypeOn(b, m.from))
Takes(b, m) ==
  /\ CapturedType(b, m) \in NO_PIECETYPE..KING
  /\ CapturedType(b, m) # NO_PIECETYPE =>
       CaptureAt(b, m) \in Squares /\ Stands(b, CaptureAt(b, m), Other(b.turn), CapturedType(b, m))
  /\ m.type = MOVE_EP \/ CapturedType(b, m) = NO_PIECETYPE => m.to \notin DOMAIN b.squares
Promotes(b, m) ==
  m.type = MOVE_PROM =>
    TypeOn(b, m.from) = PAWN /\ Abs(m.to - m.from) # DOUBLE_PUSH /\ m.prom \in Promotions
Jumps(b, m) ==
  TypeOn(b, m.from) = PAWN /\ Abs(m.to - m.from) = DOUBLE_PUSH => EnpassantTarget(m.to, b.turn) \in Squares
Castles(b, m) ==
  m.type = MOVE_CASTLE =>
    /\ TypeOn(b, m.from) = KING /\ CapturedType(b, m) = NO_PIECETYPE
    /\ RookFrom(b, m) \in Squares /\ RookTo(b, m) \in Squares
    /\ Stands(b, RookFrom(b, m), b.turn, ROOK) /\ RookTo(b, m) \notin DOMAIN b.squares
    /\ RookFrom(b, m) # RookTo(b, m)
    /\ {m.from, m.to} \intersect {RookFrom(b, m), RookTo(b, m)} = {}
Posed(b, m) == Arrives(b, m) /\ Takes(b, m) /\ Promotes(b, m) /\ Jumps(b, m) /\ Castles(b, m)

\* How far a pawn attacks.
LEMMA PawnSteps ==
  ASSUME NEW from \in Squares, NEW c \in Colors, NEW to \in PawnAttacks(from, c)
  PROVE  to - from \in {7, 9, -7, -9}
<1>1. to \in PawnShift(LEFT, c, {from}) \union PawnShift(RIGHT, c, {from})
  BY DEF PawnAttacks, PawnAttackTable
<1>2. \A delta : \A x \in PawnShift(delta, c, {from}) : x = from + PawnStep(delta, c)
  BY DEF PawnShift
<1>3. PawnStep(LEFT, c) \in {7, -7} /\ PawnStep(RIGHT, c) \in {9, -9}
  BY DEF PawnStep, LEFT, RIGHT
<1> QED  BY <1>1, <1>2, <1>3 DEF Squares

\* A promotion is no double step, and a double step has a target on the board.
LEMMA Ranks ==
  ASSUME NEW from \in Squares, NEW to \in Squares, NEW c \in Colors
  PROVE  /\ RelativeRank(from, c) = 6 /\ RelativeRank(to, c) = 7 => Abs(to - from) # 16
         /\ RelativeRank(from, c) = 1 /\ to - from = 2 * Forward(c) => EnpassantTarget(to, c) \in Squares
<1>1. from \in 0..63 /\ to \in 0..63 /\ c \in {0, 1}
  BY DEF Squares, Colors, BLACK, WHITE
<1>2. /\ Rank(from) = from \div 8 /\ Rank(to) = to \div 8
      /\ c = 1 => RelativeRank(from, c) = Rank(from) /\ RelativeRank(to, c) = Rank(to) /\ Forward(c) = 8
      /\ c = 0 => RelativeRank(from, c) = 7 - Rank(from) /\ RelativeRank(to, c) = 7 - Rank(to) /\ Forward(c) = -8
  BY <1>1 DEF Rank, RelativeRank, Forward, WHITE
<1>3. ASSUME RelativeRank(from, c) = 6, RelativeRank(to, c) = 7 PROVE Abs(to - from) # 16
  <2>1. CASE c = 1
    BY <1>1, <1>2, <1>3, <2>1 DEF Abs
  <2>2. CASE c = 0
    BY <1>1, <1>2, <1>3, <2>2 DEF Abs
  <2> QED  BY <1>1, <2>1, <2>2
<1>4. ASSUME RelativeRank(from, c) = 1, to - from = 2 * Forward(c) PROVE EnpassantTarget(to, c) \in Squares
  <2>1. CASE c = 1
    BY <1>1, <1>2, <1>4, <2>1 DEF EnpassantTarget, Squares
  <2>2. CASE c = 0
    BY <1>1, <1>2, <1>4, <2>2 DEF EnpassantTarget, Squares
  <2> QED  BY <1>1, <2>1, <2>2
<1> QED  BY <1>3, <1>4

\* The rook's squares are on the board, and the king crosses neither.
LEMMA CastlingSquares ==
  ASSUME NEW side \in Sides, NEW c \in Colors
  PROVE  LET g == Castling(side, c) IN
         /\ g.rook_from \in Squares /\ g.rook_to \in Squares /\ g.rook_from # g.rook_to
         /\ {g.king_from, g.king_to} \intersect {g.rook_from, g.rook_to} = {}
         /\ {g.king_to, g.rook_to} \subseteq g.empty_path
<1> DEFINE g == Castling(side, c)
<1>1. /\ g.king_from = Home(4, c) /\ g.king_to = Home(IF side = KINGSIDE THEN 6 ELSE 2, c)
      /\ g.rook_from = Home(IF side = KINGSIDE THEN 7 ELSE 0, c)
      /\ g.rook_to = Home(IF side = KINGSIDE THEN 5 ELSE 3, c)
      /\ g.empty_path = HomeSet(IF side = KINGSIDE THEN {5, 6} ELSE {1, 2, 3}, c)
  BY DEF Castling
<1> HIDE DEF g
<1>2. \A f \in 0..7 : Home(f, c) = (IF c = WHITE THEN 0 ELSE 56) + f
  BY DEF Home, Square
<1>3. CASE side = KINGSIDE
  <2>1. g.king_from = Home(4, c) /\ g.king_to = Home(6, c) /\ g.rook_from = Home(7, c) /\ g.rook_to = Home(5, c)
    BY <1>1, <1>3
  <2>2. g.empty_path = {Home(5, c), Home(6, c)}
    BY <1>1, <1>3 DEF HomeSet
  <2> QED  BY <1>2, <2>1, <2>2 DEF Squares, g
<1>4. CASE side # KINGSIDE
  <2>1. g.king_from = Home(4, c) /\ g.king_to = Home(2, c) /\ g.rook_from = Home(0, c) /\ g.rook_to = Home(3, c)
    BY <1>1, <1>4
  <2>2. g.empty_path = {Home(1, c), Home(2, c), Home(3, c)}
    BY <1>1, <1>4 DEF HomeSet
  <2> QED  BY <1>2, <2>1, <2>2 DEF Squares, g
<1> QED  BY <1>3, <1>4

\* A pseudo-legal move starts from a piece of the side to move.
LEMMA SourceSeen ==
  ASSUME NEW b, WellTyped(b), PiecesAgree(b), NEW m \in PseudoLegal(b)
  PROVE  Arrives(b, m) /\ IsPseudoLegal(b, m)
<1> DEFINE c == b.turn  t == TypeOn(b, m.from)
<1>1. m \in Candidates(b) /\ IsPseudoLegal(b, m)
  BY DEF PseudoLegal
<1>2. /\ b.bb \in Bitboards /\ b.turn \in Colors /\ Placed(b.squares)
  BY Fields
<1>3. AllSlot \in Slots /\ PAWN \in Slots /\ KING \in Slots
  BY DEF Slots, AllSlot, PAWN, KING
<1>4. b.bb[c][AllSlot] \subseteq Squares /\ b.bb[c][PAWN] \subseteq Squares /\ b.bb[c][KING] \subseteq Squares
  BY <1>2, <1>3 DEF Bitboards
<1>5. KNIGHT \in PieceTypes /\ Promotions \subseteq PieceTypes
  BY DEF Promotions, PieceTypes, PAWN, KNIGHT, BISHOP, ROOK, QUEEN, KING
<1>6. \A f \in Squares, g \in Squares, p \in PieceTypes, k \in BASIC_MOVE..MOVE_CASTLE : Move(f, g, k, p) \in MoveShapes
  BY DEF Move, MoveShapes
<1>7. {BASIC_MOVE, MOVE_PROM, MOVE_EP, MOVE_CASTLE} \subseteq BASIC_MOVE..MOVE_CASTLE
  BY DEF BASIC_MOVE, MOVE_PROM, MOVE_EP, MOVE_CASTLE
<1>8. m \in MoveShapes
  <2>1. \/ \E f \in b.bb[c][AllSlot], g \in Squares : m = Basic(f, g)
        \/ \E f \in b.bb[c][PAWN], g \in Squares : m = Move(f, g, MOVE_EP, KNIGHT)
        \/ \E f \in b.bb[c][PAWN], g \in Squares, p \in Promotions : m = Move(f, g, MOVE_PROM, p)
        \/ \E f \in b.bb[c][KING], g \in Squares : m = Move(f, g, MOVE_CASTLE, KNIGHT)
    <3>1. Candidates(b) = {Basic(f, g) : f \in b.bb[c][AllSlot], g \in Squares}
            \union {Move(f, g, MOVE_EP, KNIGHT) : f \in b.bb[c][PAWN], g \in Squares}
            \union {Move(f, g, MOVE_PROM, p) : f \in b.bb[c][PAWN], g \in Squares, p \in Promotions}
            \union {Move(f, g, MOVE_CASTLE, KNIGHT) : f \in b.bb[c][KING], g \in Squares}
      BY DEF Candidates
    <3> QED  BY <1>1, <3>1
  <2>2. CASE \E f \in b.bb[c][AllSlot], g \in Squares : m = Basic(f, g)
    BY <1>4, <1>5, <1>6, <1>7, <2>2 DEF Basic
  <2>3. CASE \E f \in b.bb[c][PAWN], g \in Squares : m = Move(f, g, MOVE_EP, KNIGHT)
    BY <1>4, <1>5, <1>6, <1>7, <2>3
  <2>4. CASE \E f \in b.bb[c][PAWN], g \in Squares, p \in Promotions : m = Move(f, g, MOVE_PROM, p)
    BY <1>4, <1>5, <1>6, <1>7, <2>4
  <2>5. CASE \E f \in b.bb[c][KING], g \in Squares : m = Move(f, g, MOVE_CASTLE, KNIGHT)
    BY <1>4, <1>5, <1>6, <1>7, <2>5
  <2> QED  BY <2>1, <2>2, <2>3, <2>4, <2>5
<1>9. m.from \in Squares /\ m.to \in Squares
  BY <1>8 DEF MoveShapes
<1>10. /\ m # NULL_MOVE /\ m.from # m.to
       /\ PieceOn(b, m.from) # NO_PIECE /\ PieceOn(b, m.from)[1] = c
  BY <1>1 DEF IsPseudoLegal
<1>11. m.from \in DOMAIN b.squares /\ PieceOn(b, m.from) = b.squares[m.from]
  BY <1>10 DEF PieceOn
<1>12. PieceOn(b, m.from) \in Colors \X PieceTypes
  BY <1>2, <1>11 DEF Placed
<1>13. PieceOn(b, m.from) = <<c, t>> /\ t \in PieceTypes
  BY <1>10, <1>12 DEF TypeOn
<1>14. Stands(b, m.from, c, t)
  BY <1>2, <1>9, <1>13, PiecesSeen
<1> QED  BY <1>1, <1>8, <1>10, <1>13, <1>14 DEF Arrives

\* What a pseudo-legal move captures stands where make looks for it.
LEMMA CaptureSeen ==
  ASSUME NEW b, WellTyped(b), PiecesAgree(b), NEW m, Arrives(b, m), IsPseudoLegal(b, m)
  PROVE  Takes(b, m)
<1> DEFINE c == b.turn  k == CapturedType(b, m)  at == CaptureAt(b, m)
<1>1. b.turn \in Colors /\ Placed(b.squares) /\ m.from \in Squares /\ m.to \in Squares /\ Other(c) \in Colors
  BY Fields DEF Arrives, MoveShapes, Other, Colors, BLACK, WHITE
<1>2. PAWN \in PieceTypes /\ PieceTypes \subseteq NO_PIECETYPE..KING /\ NO_PIECETYPE \notin PieceTypes
      /\ NO_PIECETYPE \in NO_PIECETYPE..KING
  BY DEF PieceTypes, PAWN, KING, NO_PIECETYPE
<1>3. CASE m.type = MOVE_EP
  <2>1. k = PAWN /\ at = EnpassantCaptured(m.to, c)
    BY <1>3 DEF CapturedType, CaptureAt
  <2>2. PieceOn(b, m.to) = NO_PIECE /\ PieceOn(b, EnpassantCaptured(m.to, c)) = <<Other(c), PAWN>>
    BY <1>3 DEF IsPseudoLegal, MOVE_EP, BASIC_MOVE, MOVE_PROM, MOVE_CASTLE
  <2>3. at \in DOMAIN b.squares
    BY <1>2, <2>1, <2>2 DEF PieceOn, NO_PIECE
  <2>4. at \in Squares
    BY <1>1, <2>3 DEF Placed
  <2>5. Stands(b, at, Other(c), PAWN)
    BY <1>1, <1>2, <2>1, <2>2, <2>4, PiecesSeen
  <2>6. m.to \notin DOMAIN b.squares
    BY <1>1, <1>2, <2>2, PiecesSeen
  <2> QED  BY <1>2, <2>1, <2>4, <2>5, <2>6 DEF Takes
<1>4. CASE m.type # MOVE_EP
  <2>1. k = PieceOn(b, m.to)[2] /\ at = m.to
    BY <1>4 DEF CapturedType, CaptureAt, TypeOn
  <2>2. PieceOn(b, m.to) = NO_PIECE \/ PieceOn(b, m.to)[1] # c
    BY DEF IsPseudoLegal
  <2>3. CASE m.to \in DOMAIN b.squares
    <3>1. PieceOn(b, m.to) = b.squares[m.to] /\ PieceOn(b, m.to) \in Colors \X PieceTypes
      BY <1>1, <2>3 DEF Placed, PieceOn
    <3>2. PieceOn(b, m.to) = <<PieceOn(b, m.to)[1], k>> /\ k \in PieceTypes /\ PieceOn(b, m.to)[1] \in Colors
      BY <2>1, <3>1
    <3>3. PieceOn(b, m.to) # NO_PIECE
      BY <1>2, <3>2 DEF NO_PIECE
    <3>4. PieceOn(b, m.to)[1] = Other(c)
      BY <1>1, <2>2, <3>2, <3>3 DEF Other, Colors, BLACK, WHITE
    <3>5. Stands(b, at, Other(c), k)
      BY <1>1, <2>1, <3>2, <3>4, PiecesSeen
    <3> QED  BY <1>1, <1>2, <1>4, <2>1, <3>2, <3>5 DEF Takes
  <2>4. CASE m.to \notin DOMAIN b.squares
    <3>1. PieceOn(b, m.to) = NO_PIECE
      BY <2>4 DEF PieceOn
    <3>2. k = NO_PIECETYPE
      BY <2>1, <3>1 DEF NO_PIECE
    <3> QED  BY <1>2, <2>4, <3>2 DEF Takes
  <2> QED  BY <2>3, <2>4
<1> QED  BY <1>3, <1>4

\* A pseudo-legal move is one that make can carry out.
LEMMA Posing ==
  ASSUME NEW b, WellTyped(b), PiecesAgree(b), NEW m \in PseudoLegal(b)
  PROVE  Posed(b, m)
<1> DEFINE c == b.turn  t == TypeOn(b, m.from)
<1>1. Arrives(b, m) /\ IsPseudoLegal(b, m) /\ Takes(b, m)
  BY SourceSeen, CaptureSeen
<1>2. /\ b.turn \in Colors /\ m.from \in Squares /\ m.to \in Squares /\ m.type \in BASIC_MOVE..MOVE_CASTLE
  BY <1>1, Fields DEF Arrives, MoveShapes
<1>3. BASIC_MOVE # MOVE_PROM /\ BASIC_MOVE # MOVE_EP /\ BASIC_MOVE # MOVE_CASTLE
      /\ MOVE_PROM # MOVE_EP /\ MOVE_PROM # MOVE_CASTLE /\ MOVE_EP # MOVE_CASTLE /\ PAWN # KING
      /\ m.type \in {BASIC_MOVE, MOVE_PROM, MOVE_EP, MOVE_CASTLE}
  BY <1>2 DEF BASIC_MOVE, MOVE_PROM, MOVE_EP, MOVE_CASTLE, PAWN, KING
<1>4. t = PieceOn(b, m.from)[2]
  BY DEF TypeOn
<1>5. CASE m.type = MOVE_PROM
  <2>1. t = PAWN /\ m.prom \in Promotions /\ RelativeRank(m.from, c) = 6 /\ RelativeRank(m.to, c) = 7
    BY <1>1, <1>3, <1>4, <1>5 DEF IsPseudoLegal
  <2>2. Abs(m.to - m.from) # DOUBLE_PUSH
    BY <1>2, <2>1, Ranks DEF DOUBLE_PUSH
  <2> QED  BY <1>1, <1>3, <1>5, <2>1, <2>2 DEF Posed, Promotes, Jumps, Castles
<1>6. \A x \in PawnAttacks(m.from, c) : Abs(x - m.from) # DOUBLE_PUSH
  <2>1. ASSUME NEW x \in PawnAttacks(m.from, c) PROVE Abs(x - m.from) # DOUBLE_PUSH
    <3>1. x - m.from \in {7, 9, -7, -9}
      BY <1>2, PawnSteps
    <3> QED  BY <3>1 DEF Abs, DOUBLE_PUSH
  <2> QED  BY <2>1
<1>7. CASE m.type = MOVE_EP
  <2>1. m.to \in PawnAttacks(m.from, c)
    BY <1>1, <1>3, <1>7 DEF IsPseudoLegal
  <2> QED  BY <1>1, <1>3, <1>6, <1>7, <2>1 DEF Posed, Promotes, Jumps, Castles
<1>8. CASE m.type = BASIC_MOVE
  <2>1. ASSUME t = PAWN, Abs(m.to - m.from) = DOUBLE_PUSH PROVE EnpassantTarget(m.to, c) \in Squares
    <3>1. PseudoLegalPawn(b, m)
      BY <1>1, <1>3, <1>4, <1>8, <2>1 DEF IsPseudoLegal
    <3>2. Forward(c) \in {8, -8}
      BY DEF Forward
    <3>3. m.to - m.from # Forward(c)
      BY <1>2, <2>1, <3>2 DEF Abs, DOUBLE_PUSH, Squares
    <3>4. \/ RelativeRank(m.from, c) = 1 /\ m.to - m.from = 2 * Forward(c)
          \/ m.to \in PawnAttacks(m.from, c)
      BY <3>1, <3>3 DEF PseudoLegalPawn
    <3> QED  BY <1>2, <1>6, <2>1, <3>4, Ranks
  <2> QED  BY <1>1, <1>3, <1>8, <2>1 DEF Posed, Promotes, Jumps, Castles
<1>9. CASE m.type = MOVE_CASTLE
  <2> DEFINE side == CastleSide(m.from, m.to)  g == Castling(side, c)
  <2>1. /\ t = KING /\ m.from = g.king_from /\ m.to = g.king_to
        /\ PieceOn(b, g.rook_from) = <<c, ROOK>> /\ Occupancy(b) \intersect g.empty_path = {}
    BY <1>1, <1>3, <1>4, <1>9 DEF IsPseudoLegal
  <2>2. side \in Sides
    BY DEF CastleSide, Sides
  <2>3. /\ g.rook_from \in Squares /\ g.rook_to \in Squares /\ g.rook_from # g.rook_to
        /\ {g.king_from, g.king_to} \intersect {g.rook_from, g.rook_to} = {}
        /\ g.king_to \in g.empty_path /\ g.rook_to \in g.empty_path
    BY <1>2, <2>2, CastlingSquares
  <2>4. RookFrom(b, m) = g.rook_from /\ RookTo(b, m) = g.rook_to
    BY DEF RookFrom, RookTo
  <2> HIDE DEF g, side
  <2>5. \A sq \in DOMAIN b.squares : sq \in Occupancy(b)
    <3>1. ASSUME NEW sq \in DOMAIN b.squares PROVE sq \in Occupancy(b)
      <4>1. b.squares[sq][1] \in Colors
        BY Fields DEF Placed
      <4>2. /\ b.bb[WHITE][AllSlot] = Owned(b.squares, WHITE) /\ b.bb[BLACK][AllSlot] = Owned(b.squares, BLACK)
        BY DEF PiecesAgree, Colors
      <4> QED  BY <4>1, <4>2 DEF Occupancy, Owned, Colors
    <3> QED  BY <3>1
  <2>6. m.to \notin DOMAIN b.squares /\ g.rook_to \notin DOMAIN b.squares
    BY <2>1, <2>3, <2>5
  <2>7. CapturedType(b, m) = NO_PIECETYPE
    BY <1>3, <1>9, <2>6 DEF CapturedType, TypeOn, PieceOn, NO_PIECE
  <2>8. Stands(b, g.rook_from, c, ROOK)
    <3>1. ROOK \in PieceTypes
      BY DEF ROOK, PieceTypes, PAWN, KING
    <3> QED  BY <1>2, <2>1, <2>3, <3>1, PiecesSeen
  <2>9. Castles(b, m)
    BY <2>1, <2>3, <2>4, <2>6, <2>7, <2>8 DEF Castles
  <2> QED  BY <1>1, <1>3, <1>9, <2>1, <2>9 DEF Posed, Promotes, Jumps
<1> QED  BY <1>3, <1>5, <1>7, <1>8, <1>9

-----------------------------------------------------------------------------
(* The pieces along make: the captured piece gone, the move made, the rook  *)
(* moved, the pawn promoted.                                               *)

Taken(b, m) ==
  IF CapturedType(b, m) = NO_PIECETYPE THEN b
  ELSE RemovePiece(b, CaptureAt(b, m), Other(b.turn), CapturedType(b, m), FALSE)
Arrived(b, m) == MovePiece(Taken(b, m), m.from, m.to, b.turn, TypeOn(b, m.from), FALSE)
Castled(b, m) ==
  IF m.type # MOVE_CASTLE THEN Arrived(b, m)
  ELSE MovePiece(Arrived(b, m), RookFrom(b, m), RookTo(b, m), b.turn, ROOK, FALSE)
Promoted(b, m) ==
  IF m.type # MOVE_PROM THEN Castled(b, m)
  ELSE AddPiece(RemovePiece(Castled(b, m), m.to, b.turn, PAWN, FALSE), m.to, b.turn, m.prom, FALSE)

Ordered(b) == WellTyped(b) /\ PiecesAgree(b)

\* In an ordered board the squares tell where a piece stands.
LEMMA Standing ==
  ASSUME NEW b, Ordered(b), NEW sq \in Squares, NEW c \in Colors, NEW t \in PieceTypes,
         sq \in DOMAIN b.squares, b.squares[sq] = <<c, t>>
  PROVE  Stands(b, sq, c, t)
BY PiecesSeen DEF Ordered, PieceOn

\* add_piece without the key keeps a board ordered.
LEMMA QuietAdd ==
  ASSUME NEW b, Ordered(b), NEW sq \in Squares, NEW c \in Colors, NEW t \in PieceTypes,
         sq \notin DOMAIN b.squares
  PROVE  LET r == AddPiece(b, sq, c, t, FALSE) IN Ordered(r) /\ r.squares = Put(b.squares, sq, c, t)
<1>1. ASSUME NEW h \in BOOLEAN
      PROVE  /\ OnlyPieces(AddPiece(b, sq, c, t, h), b, h, HashPiece(c, t, sq))
             /\ AddPiece(b, sq, c, t, h).squares = Put(b.squares, sq, c, t)
             /\ PiecesAgree(AddPiece(b, sq, c, t, h))
  BY Added, AddAgrees DEF Ordered
<1> QED  BY <1>1 DEF OnlyPieces, Ordered

\* remove_piece without the key keeps a board ordered.
LEMMA QuietRemove ==
  ASSUME NEW b, Ordered(b), NEW sq \in Squares, NEW c \in Colors, NEW t \in PieceTypes,
         Stands(b, sq, c, t)
  PROVE  LET r == RemovePiece(b, sq, c, t, FALSE) IN Ordered(r) /\ r.squares = Drop(b.squares, sq)
<1>1. ASSUME NEW h \in BOOLEAN
      PROVE  /\ OnlyPieces(RemovePiece(b, sq, c, t, h), b, h, HashPiece(c, t, sq))
             /\ RemovePiece(b, sq, c, t, h).squares = Drop(b.squares, sq)
             /\ PiecesAgree(RemovePiece(b, sq, c, t, h))
  BY Removed, RemoveAgrees DEF Ordered
<1> QED  BY <1>1 DEF OnlyPieces, Ordered

\* move_piece without the key keeps a board ordered.
LEMMA QuietMove ==
  ASSUME NEW b, Ordered(b), NEW from \in Squares, NEW to \in Squares, NEW c \in Colors,
         NEW t \in PieceTypes, Stands(b, from, c, t), to \notin DOMAIN b.squares
  PROVE  LET r == MovePiece(b, from, to, c, t, FALSE) IN
         Ordered(r) /\ r.squares = Put(Drop(b.squares, from), to, c, t)
<1>1. ASSUME NEW h \in BOOLEAN
      PROVE  /\ OnlyPieces(MovePiece(b, from, to, c, t, h), b, h, Xor(HashPiece(c, t, from), HashPiece(c, t, to)))
             /\ MovePiece(b, from, to, c, t, h).squares = Put(Drop(b.squares, from), to, c, t)
             /\ PiecesAgree(MovePiece(b, from, to, c, t, h))
  BY Moved, MoveAgrees DEF Ordered
<1> QED  BY <1>1 DEF OnlyPieces, Ordered

\* After the capture the way is free and the mover still stands.
LEMMA TakenTrack ==
  ASSUME NEW b, Ordered(b), NEW m, Posed(b, m)
  PROVE  LET x == Taken(b, m) IN
         /\ Ordered(x) /\ m.to \notin DOMAIN x.squares
         /\ Stands(x, m.from, b.turn, TypeOn(b, m.from))
         /\ m.type = MOVE_CASTLE => x = b
<1> DEFINE c == b.turn  t == TypeOn(b, m.from)  k == CapturedType(b, m)  at == CaptureAt(b, m)  x == Taken(b, m)
<1>1. /\ WellTyped(b) /\ PiecesAgree(b) /\ b.turn \in Colors /\ Other(c) \in Colors /\ Other(c) # c /\ Placed(b.squares)
      /\ m.from \in Squares /\ m.to \in Squares /\ m.from # m.to /\ t \in PieceTypes /\ FALSE \in BOOLEAN
  BY Fields DEF Ordered, Posed, Arrives, MoveShapes, Other, Colors, BLACK, WHITE
<1>2. /\ Stands(b, m.from, c, t) /\ m.from \in DOMAIN b.squares /\ b.squares[m.from] = <<c, t>>
      /\ m.type = MOVE_CASTLE => k = NO_PIECETYPE
  BY DEF Posed, Arrives, Stands, Castles
<1>3. CASE k = NO_PIECETYPE
  <2>1. x = b /\ m.to \notin DOMAIN b.squares
    BY <1>3 DEF Taken, Posed, Takes
  <2> QED  BY <1>2, <2>1
<1>4. CASE k # NO_PIECETYPE
  <2>1. k \in PieceTypes /\ at \in Squares /\ Stands(b, at, Other(c), k) /\ m.type # MOVE_CASTLE
    BY <1>2, <1>4 DEF Posed, Takes, PieceTypes, PAWN, KING, NO_PIECETYPE
  <2>2. x = RemovePiece(b, at, Other(c), k, FALSE)
    BY <1>4 DEF Taken
  <2> HIDE DEF x
  <2>3. x.squares = Drop(b.squares, at) /\ Ordered(x)
    BY <1>1, <2>1, <2>2, QuietRemove
  <2>5. m.to \notin DOMAIN x.squares
    <3>1. CASE m.type = MOVE_EP
      <4>1. m.to \notin DOMAIN b.squares
        BY <3>1 DEF Posed, Takes
      <4> QED  BY <2>3, <4>1 DEF Drop
    <3>2. CASE m.type # MOVE_EP
      <4>1. at = m.to
        BY <3>2 DEF CaptureAt
      <4> QED  BY <2>3, <4>1 DEF Drop
    <3> QED  BY <3>1, <3>2
  <2>6. at # m.from
    BY <1>1, <1>2, <2>1 DEF Stands
  <2>7. m.from \in DOMAIN x.squares /\ x.squares[m.from] = <<c, t>>
    BY <1>2, <2>3, <2>6 DEF Drop
  <2> QED  BY <1>1, <2>1, <2>3, <2>5, <2>7, Standing DEF x
<1> QED  BY <1>3, <1>4

\* After the move the piece stands on its destination.
LEMMA ArrivedTrack ==
  ASSUME NEW b, Ordered(b), NEW m, Posed(b, m)
  PROVE  LET x == Arrived(b, m) IN
         /\ Ordered(x) /\ Stands(x, m.to, b.turn, TypeOn(b, m.from))
         /\ m.type = MOVE_CASTLE => Stands(x, RookFrom(b, m), b.turn, ROOK) /\ RookTo(b, m) \notin DOMAIN x.squares
<1> DEFINE c == b.turn  t == TypeOn(b, m.from)  a == Taken(b, m)  x == Arrived(b, m)
           f == RookFrom(b, m)  g == RookTo(b, m)
<1>1. /\ b.turn \in Colors /\ m.from \in Squares /\ m.to \in Squares /\ m.from # m.to /\ t \in PieceTypes
      /\ FALSE \in BOOLEAN
  BY Fields DEF Ordered, Posed, Arrives, MoveShapes
<1>2. Ordered(a) /\ m.to \notin DOMAIN a.squares /\ Stands(a, m.from, c, t)
  BY TakenTrack
<1>9. m.type = MOVE_CASTLE => a = b
  BY TakenTrack
<1>3. x = MovePiece(a, m.from, m.to, c, t, FALSE)
  BY DEF Arrived
<1> HIDE DEF a, x
<1>4. x.squares = Put(Drop(a.squares, m.from), m.to, c, t) /\ Ordered(x)
  <2>1. c \in Colors /\ t \in PieceTypes /\ Ordered(a)
    BY <1>1, <1>2
  <2> HIDE DEF c, t
  <2>2. ASSUME NEW from \in Squares, NEW to \in Squares, Stands(a, from, c, t), to \notin DOMAIN a.squares
        PROVE  /\ Ordered(MovePiece(a, from, to, c, t, FALSE))
               /\ MovePiece(a, from, to, c, t, FALSE).squares = Put(Drop(a.squares, from), to, c, t)
    BY <2>1, <2>2, QuietMove
  <2> QED  BY <1>1, <1>2, <1>3, <2>2
<1>7. Stands(x, m.to, c, t)
  <2>1. m.to \in DOMAIN x.squares /\ x.squares[m.to] = <<c, t>>
    BY <1>4 DEF Put
  <2> QED  BY <1>1, <1>4, <2>1, Standing
<1>8. ASSUME m.type = MOVE_CASTLE PROVE Stands(x, f, c, ROOK) /\ g \notin DOMAIN x.squares
  <2>1. /\ f \in Squares /\ f \in DOMAIN a.squares /\ a.squares[f] = <<c, ROOK>> /\ g \notin DOMAIN a.squares
        /\ f # m.from /\ f # m.to /\ g # m.from /\ g # m.to
    BY <1>2, <1>8, <1>9 DEF Posed, Castles, Stands
  <2>2. f \in DOMAIN x.squares /\ x.squares[f] = <<c, ROOK>> /\ g \notin DOMAIN x.squares
    BY <1>4, <2>1 DEF Put, Drop
  <2>3. ROOK \in PieceTypes
    BY DEF ROOK, PieceTypes, PAWN, KING
  <2> QED  BY <1>1, <1>4, <2>1, <2>2, <2>3, Standing
<1> QED  BY <1>4, <1>7, <1>8 DEF x

\* After the rook's part it still does.
LEMMA CastledTrack ==
  ASSUME NEW b, Ordered(b), NEW m, Posed(b, m)
  PROVE  LET x == Castled(b, m) IN Ordered(x) /\ Stands(x, m.to, b.turn, TypeOn(b, m.from))
<1> DEFINE c == b.turn  t == TypeOn(b, m.from)  a == Arrived(b, m)  x == Castled(b, m)
           f == RookFrom(b, m)  g == RookTo(b, m)
<1>1. /\ b.turn \in Colors /\ m.from \in Squares /\ m.to \in Squares /\ t \in PieceTypes
      /\ FALSE \in BOOLEAN /\ ROOK \in PieceTypes
  BY Fields DEF Ordered, Posed, Arrives, MoveShapes, ROOK, PieceTypes, PAWN, KING
<1>2. /\ Ordered(a) /\ WellTyped(a) /\ PiecesAgree(a) /\ Stands(a, m.to, c, t)
      /\ m.type = MOVE_CASTLE => Stands(a, f, c, ROOK) /\ g \notin DOMAIN a.squares
  BY ArrivedTrack DEF Ordered
<1>3. CASE m.type # MOVE_CASTLE
  <2>1. x = a
    BY <1>3 DEF Castled
  <2> QED  BY <1>2, <2>1
<1>4. CASE m.type = MOVE_CASTLE
  <2>1. x = MovePiece(a, f, g, c, ROOK, FALSE)
    BY <1>4 DEF Castled
  <2>2. f \in Squares /\ g \in Squares /\ m.to # f /\ m.to # g
    BY <1>4 DEF Posed, Castles
  <2> HIDE DEF a, x
  <2>3. x.squares = Put(Drop(a.squares, f), g, c, ROOK) /\ Ordered(x)
    BY ZenonT(40), <1>1, <1>2, <1>4, <2>1, <2>2, QuietMove
  <2>5. m.to \in DOMAIN x.squares /\ x.squares[m.to] = <<c, t>>
    BY <1>2, <2>2, <2>3 DEF Put, Drop, Stands
  <2> QED  BY <1>1, <2>3, <2>5, Standing DEF x
<1> QED  BY <1>3, <1>4

\* Another ply keeps a board sound.
LEMMA SoundNumber ==
  ASSUME NEW b, NEW e, Sound(b, e), NEW n \in Nat
  PROVE  LET r == Numbered(b, n) IN
         /\ Sound(r, e) /\ SamePieces(r, b) /\ r.states = b.states
         /\ r.king = b.king /\ r.turn = b.turn /\ r.ply = n
<1> DEFINE r == Numbered(b, n)
<1>1. WellTyped(b) /\ PiecesAgree(b) /\ Keyed(b, e)
  BY DEF Sound
<1>2. /\ Itself(b) /\ Placed(b.squares) /\ b.bb \in Bitboards /\ b.count \in Tallies
      /\ b.king \in [Colors -> Squares] /\ b.turn \in Colors /\ b.ply \in Nat
      /\ b.terms \in [material : Int, bonus : Int] /\ b.states \in Seq(PlyStates) /\ b.states # << >>
  BY <1>1, Fields
<1>3. /\ Itself(r) /\ SamePieces(r, b) /\ r.states = b.states
      /\ r.king = b.king /\ r.turn = b.turn /\ r.ply = n
  BY <1>2, NumberedFields
<1> HIDE DEF r
<1>5. WellTyped(r)
  BY <1>2, <1>3, FieldsSuffice DEF SamePieces
<1>6. PiecesAgree(r)
  BY <1>1, <1>3 DEF PiecesAgree, SamePieces
<1>7. Keyed(r, e)
  BY <1>1, <1>3 DEF Keyed, SamePieces, Top
<1> QED  BY <1>3, <1>5, <1>6, <1>7 DEF Sound, r

\* Hashing the old target out of the key leaves the rest.
LEMMA SoundUnkey ==
  ASSUME NEW b, NEW e \in Squares \union {INVALID}, Sound(b, e)
  PROVE  LET r == Rehash(b, TRUE, EpKey(e)) IN
         Sound(r, INVALID) /\ SamePieces(r, b) /\ SameSide(r, b) /\ SameStack(r, b) /\ SameMove(r, b)
<1> DEFINE f == EpKey(e)  r == Rehash(b, TRUE, f)
<1>1. WellTyped(b) /\ PiecesAgree(b) /\ Keyed(b, e) /\ Top(b) \in PlyStates
  BY Fields DEF Sound
<1>2. f \in SUBSET Features
  BY Features1
<1> HIDE DEF f
<1>3. /\ WellTyped(r) /\ SamePieces(r, b) /\ SameSide(r, b) /\ SameStack(r, b) /\ SameMove(r, b)
      /\ Top(r) = [Top(b) EXCEPT !.zkey = Xor(@, f)]
  <2>1. TRUE \in BOOLEAN
    OBVIOUS
  <2> QED  BY <1>1, <1>2, <2>1, Rehashed
<1> HIDE DEF r
<1>4. Top(r).zkey = Xor(Top(b).zkey, f) /\ Top(r).rights = Top(b).rights
  BY <1>1, <1>3, TopFields
<1>5. Keyed(r, INVALID)
  BY <1>1, <1>3, <1>4, KeyEp DEF Keyed, SamePieces, SameSide, f
<1>6. PiecesAgree(r)
  BY <1>1, <1>3 DEF PiecesAgree, SamePieces
<1> QED  BY <1>3, <1>5, <1>6 DEF Sound, r, f

\* x has one state more than b, on top of the same ones.
Above(x, b) == Len(x.states) = Len(b.states) + 1 /\ \A i \in 1 .. Len(b.states) : x.states[i] = b.states[i]

\* A board above another stays so when only its top changes.
LEMMA StillAbove ==
  ASSUME NEW b, NEW x, NEW y, WellTyped(b), Above(y, b), SameStack(x, y)
  PROVE  Above(x, b)
<1>1. Len(b.states) \in Nat
  BY Fields
<1> QED  BY <1>1 DEF Above, SameStack

\* Where the pieces stand depends on the pieces alone.
LEMMA StandsAlike ==
  ASSUME NEW x, NEW y, SamePieces(x, y), NEW sq, NEW c, NEW t
  PROVE  Stands(x, sq, c, t) <=> Stands(y, sq, c, t)
BY DEF SamePieces, Stands

\* move_piece does the same to the same pieces.
LEMMA AlikeMove ==
  ASSUME NEW x, NEW y, WellTyped(x), WellTyped(y), SamePieces(x, y), NEW from \in Squares, NEW to \in Squares,
         NEW c \in Colors, NEW t \in PieceTypes
  PROVE  /\ SamePieces(MovePiece(x, from, to, c, t, TRUE), MovePiece(y, from, to, c, t, FALSE))
         /\ SamePieces(MovePiece(x, from, to, c, t, FALSE), MovePiece(y, from, to, c, t, FALSE))
<1>1. ASSUME NEW g \in BOOLEAN, NEW h \in BOOLEAN
      PROVE  SamePieces(MovePiece(x, from, to, c, t, g), MovePiece(y, from, to, c, t, h))
  BY Alike
<1> QED  BY <1>1

\* add_piece does the same to the same pieces.
LEMMA AlikeAdd ==
  ASSUME NEW x, NEW y, WellTyped(x), WellTyped(y), SamePieces(x, y), NEW sq \in Squares,
         NEW c \in Colors, NEW t \in PieceTypes
  PROVE  /\ SamePieces(AddPiece(x, sq, c, t, TRUE), AddPiece(y, sq, c, t, FALSE))
         /\ SamePieces(AddPiece(x, sq, c, t, FALSE), AddPiece(y, sq, c, t, FALSE))
<1>1. ASSUME NEW g \in BOOLEAN, NEW h \in BOOLEAN
      PROVE  SamePieces(AddPiece(x, sq, c, t, g), AddPiece(y, sq, c, t, h))
  BY Alike
<1> QED  BY <1>1

\* remove_piece does the same to the same pieces.
LEMMA AlikeRemove ==
  ASSUME NEW x, NEW y, WellTyped(x), WellTyped(y), SamePieces(x, y), NEW sq \in Squares,
         NEW c \in Colors, NEW t \in PieceTypes
  PROVE  /\ SamePieces(RemovePiece(x, sq, c, t, TRUE), RemovePiece(y, sq, c, t, FALSE))
         /\ SamePieces(RemovePiece(x, sq, c, t, FALSE), RemovePiece(y, sq, c, t, FALSE))
<1>1. ASSUME NEW g \in BOOLEAN, NEW h \in BOOLEAN
      PROVE  SamePieces(RemovePiece(x, sq, c, t, g), RemovePiece(y, sq, c, t, h))
  BY Alike
<1> QED  BY <1>1

\* Having the same pieces is an equivalence.
LEMMA PiecesChain ==
  /\ \A x, y, z : SamePieces(x, y) /\ SamePieces(y, z) => SamePieces(x, z)
  /\ \A x, y : SamePieces(x, y) => SamePieces(y, x)
  /\ \A x : SamePieces(x, x)
BY DEF SamePieces

\* So are the same stack, the same move and the same side, as far as needed.
LEMMA StackChain ==
  /\ \A x, y, z : SameStack(x, y) /\ SameStack(y, z) => SameStack(x, z)
  /\ \A x, y, z : SameMove(x, y) /\ SameMove(y, z) => SameMove(x, z)
  /\ \A x, y, z : SameSide(x, y) /\ SameSide(y, z) => SameSide(x, z)
BY DEF SameStack, SameMove, SameSide

-----------------------------------------------------------------------------
(* Make, stage by stage.                                                   *)

Pushed(b, m) == Numbered(PushPlyState(b, m), PushPlyState(b, m).ply + 1)
Captured(b, m) == Capture(Pushed(b, m), m, Other(b.turn), CapturedType(b, m))
Unkeyed(b, m) == Rehash(Captured(b, m), TRUE, EpKey(Top(b).legalEp))
Carried(b, m) == MovePiece(Unkeyed(b, m), m.from, m.to, b.turn, TypeOn(b, m.from), TRUE)
Passed(b, m) == CastleRook(Carried(b, m), m, b.turn, FALSE, TRUE)
Settled(b, m) == AfterMove(Passed(b, m), m, b.turn, TypeOn(b, m.from))
Opposed(b, m) == Rehash(Turned(Settled(b, m), Other(b.turn)), TRUE, HashTurn)

\* The board under way: its pieces are p's, its stack is above b's.
Underway(x, b, m, e, p) ==
  /\ Sound(x, e) /\ SamePieces(x, p) /\ Above(x, b)
  /\ x.turn = b.turn /\ x.ply = b.ply + 1
  /\ Top(x).move = m /\ Top(x).captured = CapturedType(b, m)

\* make is its stages, one after the other.
LEMMA MakeStages ==
  ASSUME NEW b, NEW m
  PROVE  Make(b, m) = KeyTarget(RefreshLegalEnpassantTarget(RefreshTacticalCache(Opposed(b, m))))
BY DEF Make, Opposed, Settled, Passed, Carried, Unkeyed, Captured, Pushed, Numbered, Turned

\* The state is pushed, the captured piece gone and the old target out of the key.
LEMMA UnkeyedStage ==
  ASSUME NEW b, Kept(b), NEW m, Posed(b, m)
  PROVE  Underway(Unkeyed(b, m), b, m, INVALID, Taken(b, m)) /\ Unkeyed(b, m).king = b.king
<1> DEFINE e == Top(b).legalEp  k == CapturedType(b, m)  at == CaptureAt(b, m)  c == Other(b.turn)
           push == PushPlyState(b, m)  x == Pushed(b, m)  y == Captured(b, m)  z == Unkeyed(b, m)
<1>1. /\ Sound(b, e) /\ WellTyped(b) /\ b.turn \in Colors /\ b.ply \in Nat /\ Top(b) \in PlyStates
      /\ e \in Squares \union {INVALID}
  <2>1. WellTyped(b) /\ PiecesAgree(b) /\ Keyed(b, e)
    BY MatchingKey DEF Kept
  <2>2. b.turn \in Colors /\ b.ply \in Nat /\ Top(b) \in PlyStates
    BY <2>1, Fields
  <2>3. e \in Squares \union {INVALID}
    BY <2>2 DEF PlyStates
  <2> QED  BY <2>1, <2>2, <2>3 DEF Sound
<1>2. c \in Colors /\ Other(c) = b.turn
  BY <1>1 DEF Other, Colors, BLACK, WHITE
<1>3. k \in NO_PIECETYPE..KING /\ (k # NO_PIECETYPE => at \in Squares /\ Stands(b, at, c, k))
  BY DEF Posed, Takes
<1>4. /\ Sound(push, e) /\ SamePieces(push, b) /\ SameSide(push, b) /\ Above(push, b)
      /\ Top(push).move = m /\ Top(push).captured = NO_PIECETYPE
  <2>1. m \in [from : Squares, to : Squares, type : BASIC_MOVE..MOVE_CASTLE, prom : PieceTypes]
    BY DEF Posed, Arrives, MoveShapes
  <2> QED  BY <1>1, <2>1, SoundPush DEF Above
<1>5. /\ Sound(x, e) /\ SamePieces(x, b) /\ Above(x, b) /\ x.king = b.king /\ x.turn = b.turn /\ x.ply = b.ply + 1
      /\ Top(x).move = m /\ Top(x).captured = NO_PIECETYPE
  <2>1. push.ply + 1 \in Nat /\ push.ply = b.ply /\ push.king = b.king /\ push.turn = b.turn
    BY <1>1, <1>4 DEF SameSide
  <2>2. x = Numbered(push, push.ply + 1)
    BY DEF Pushed
  <2> HIDE DEF push, x
  <2>3. /\ Sound(x, e) /\ SamePieces(x, push) /\ x.states = push.states
        /\ x.king = push.king /\ x.turn = push.turn /\ x.ply = push.ply + 1
    BY <1>4, <2>1, <2>2, SoundNumber
  <2> QED  BY <1>4, <2>1, <2>3, PiecesChain DEF Above, Top
<1> HIDE DEF push
<1>6. y = Capture(x, m, c, k)
  BY DEF Captured
<1>7. at = CapturedFrom(m, c)
  BY <1>2 DEF CaptureAt, CapturedFrom
<1>8. k # NO_PIECETYPE => at \in Squares /\ Stands(x, at, c, k)
  BY <1>3, <1>5, StandsAlike
<1> HIDE DEF x, at
<1>9. /\ Sound(y, e) /\ SameSide(y, x) /\ SameStack(y, x) /\ Top(y).move = Top(x).move /\ Top(y).captured = k
      /\ SamePieces(y, Without(x, at, c, k))
  <2> HIDE DEF c, k
  <2> QED  BY <1>2, <1>3, <1>5, <1>6, <1>7, <1>8, SoundCapture
<1>10. SamePieces(y, Taken(b, m))
  <2>1. CASE k = NO_PIECETYPE
    BY <1>5, <1>9, <2>1, PiecesChain DEF Taken, Without
  <2>2. CASE k # NO_PIECETYPE
    <3>1. k \in PieceTypes /\ at \in Squares /\ WellTyped(x)
      BY <1>3, <1>5, <2>2 DEF PieceTypes, PAWN, KING, NO_PIECETYPE, Sound
    <3>2. SamePieces(RemovePiece(x, at, c, k, TRUE), RemovePiece(b, at, c, k, FALSE))
      BY <1>1, <1>2, <1>5, <3>1, AlikeRemove
    <3>3. Taken(b, m) = RemovePiece(b, at, c, k, FALSE)
      BY <2>2 DEF Taken, at
    <3>4. SamePieces(y, RemovePiece(x, at, c, k, TRUE))
      BY <1>9, <2>2 DEF Without
    <3> QED  BY <3>2, <3>3, <3>4, PiecesChain
  <2> QED  BY <2>1, <2>2
<1> HIDE DEF y
<1>11. /\ Sound(z, INVALID) /\ SamePieces(z, y) /\ SameSide(z, y) /\ SameStack(z, y) /\ SameMove(z, y)
  <2>1. z = Rehash(y, TRUE, EpKey(e))
    BY DEF Unkeyed, y
  <2> HIDE DEF z, e
  <2> QED  BY <1>1, <1>9, <2>1, SoundUnkey
<1> HIDE DEF z
<1>12. Above(z, b)
  <2>1. Above(y, b)
    BY <1>1, <1>5, <1>9, StillAbove
  <2> QED  BY <1>1, <1>11, <2>1, StillAbove
<1>13. SamePieces(z, Taken(b, m))
  BY <1>10, <1>11, PiecesChain
<1>14. z.king = b.king /\ z.turn = b.turn /\ z.ply = b.ply + 1 /\ Top(z).move = m /\ Top(z).captured = k
  BY <1>5, <1>9, <1>11 DEF SameSide, SameMove
<1> QED  BY <1>11, <1>12, <1>13, <1>14 DEF Underway, z

\* The moved piece has arrived, and the rook when castling.
LEMMA PassedStage ==
  ASSUME NEW b, Kept(b), NEW m, Posed(b, m)
  PROVE  Underway(Passed(b, m), b, m, INVALID, Castled(b, m)) /\ Passed(b, m).king = b.king
<1> DEFINE c == b.turn  t == TypeOn(b, m.from)  k == CapturedType(b, m)
           f == RookFrom(b, m)  g == RookTo(b, m)
           x == Unkeyed(b, m)  y == Carried(b, m)  z == Passed(b, m)
<1>1. /\ Ordered(b) /\ WellTyped(b) /\ c \in Colors /\ t \in PieceTypes /\ m.from \in Squares /\ m.to \in Squares
      /\ ROOK \in PieceTypes
  BY Fields DEF Kept, Ordered, Posed, Arrives, MoveShapes, ROOK, PieceTypes, PAWN, KING
<1>2. /\ Sound(x, INVALID) /\ SamePieces(x, Taken(b, m)) /\ Above(x, b)
      /\ x.king = b.king /\ x.turn = b.turn /\ x.ply = b.ply + 1 /\ Top(x).move = m /\ Top(x).captured = k
  BY UnkeyedStage DEF Underway
<1>3. /\ Ordered(Taken(b, m)) /\ m.to \notin DOMAIN Taken(b, m).squares /\ Stands(Taken(b, m), m.from, c, t)
  BY <1>1, TakenTrack
<1>4. Stands(x, m.from, c, t) /\ m.to \notin DOMAIN x.squares /\ WellTyped(x) /\ WellTyped(Taken(b, m))
  BY <1>2, <1>3, StandsAlike DEF SamePieces, Ordered, Sound
<1>5. y = MovePiece(x, m.from, m.to, c, t, TRUE)
  BY DEF Carried
<1>6. Sound(y, INVALID) /\ Beside(y, x)
  <2> HIDE DEF x, y, c, t
  <2>1. ASSUME NEW from \in Squares, NEW to \in Squares, Stands(x, from, c, t), to \notin DOMAIN x.squares
        PROVE  /\ Sound(MovePiece(x, from, to, c, t, TRUE), INVALID)
               /\ Beside(MovePiece(x, from, to, c, t, TRUE), x)
    BY <1>1, <1>2, <2>1, SoundMove
  <2> QED  BY <1>1, <1>4, <1>5, <2>1
<1>7. SamePieces(y, Arrived(b, m))
  <2>1. Arrived(b, m) = MovePiece(Taken(b, m), m.from, m.to, c, t, FALSE)
    BY DEF Arrived
  <2>2. ASSUME NEW from \in Squares, NEW to \in Squares, NEW d \in Colors, NEW u \in PieceTypes
        PROVE  SamePieces(MovePiece(x, from, to, d, u, TRUE), MovePiece(Taken(b, m), from, to, d, u, FALSE))
    <3> HIDE DEF x
    <3> QED  BY <1>2, <1>4, AlikeMove
  <2>3. c \in Colors /\ t \in PieceTypes
    BY <1>1
  <2> HIDE DEF x, y, c, t
  <2> QED  BY <1>1, <1>5, <2>1, <2>2, <2>3
<1> HIDE DEF x, y
<1>8. /\ Above(y, b) /\ y.king = b.king /\ y.turn = b.turn /\ y.ply = b.ply + 1
      /\ Top(y).move = m /\ Top(y).captured = k
  BY <1>1, <1>2, <1>6, StillAbove DEF Beside, SameSide, SameMove
<1>9. /\ Ordered(Arrived(b, m)) /\ Stands(Arrived(b, m), m.to, c, t)
      /\ m.type = MOVE_CASTLE => Stands(Arrived(b, m), f, c, ROOK) /\ g \notin DOMAIN Arrived(b, m).squares
  BY <1>1, ArrivedTrack
<1>10. z = IF m.type # MOVE_CASTLE THEN y ELSE MovePiece(y, f, g, c, ROOK, TRUE)
  BY DEF Passed, CastleRook, RookFrom, RookTo, y
<1>11. CASE m.type # MOVE_CASTLE
  <2>1. z = y /\ Castled(b, m) = Arrived(b, m)
    BY <1>10, <1>11 DEF Castled
  <2> QED  BY <1>6, <1>7, <1>8, <2>1 DEF Underway
<1>12. CASE m.type = MOVE_CASTLE
  <2>1. z = MovePiece(y, f, g, c, ROOK, TRUE) /\ Castled(b, m) = MovePiece(Arrived(b, m), f, g, c, ROOK, FALSE)
    BY <1>10, <1>12 DEF Castled
  <2>2. f \in Squares /\ g \in Squares
    BY <1>12 DEF Posed, Castles
  <2>3. Stands(y, f, c, ROOK) /\ g \notin DOMAIN y.squares /\ WellTyped(y) /\ WellTyped(Arrived(b, m))
    BY <1>6, <1>7, <1>9, <1>12, StandsAlike DEF SamePieces, Ordered, Sound
  <2> HIDE DEF z, f, g, c
  <2>4. Sound(z, INVALID) /\ Beside(z, y)
    BY <1>1, <1>6, <2>1, <2>2, <2>3, SoundMove
  <2>5. SamePieces(z, Castled(b, m))
    BY <1>1, <1>7, <2>1, <2>2, <2>3, AlikeMove
  <2>6. /\ Above(z, b) /\ z.king = b.king /\ z.turn = b.turn /\ z.ply = b.ply + 1
        /\ Top(z).move = m /\ Top(z).captured = k
    BY <1>1, <1>8, <2>4, StillAbove DEF Beside, SameSide, SameMove
  <2> QED  BY <2>4, <2>5, <2>6 DEF Underway, z
<1> QED  BY <1>11, <1>12

\* The pawn is promoted, the king known, the rights given up.
LEMMA SettledStage ==
  ASSUME NEW b, Kept(b), NEW m, Posed(b, m)
  PROVE  /\ Underway(Settled(b, m), b, m, INVALID, Promoted(b, m))
         /\ Settled(b, m).king = KingAt(b.king, b.turn, TypeOn(b, m.from), m.to)
<1> DEFINE c == b.turn  t == TypeOn(b, m.from)  k == CapturedType(b, m)
           x == Passed(b, m)  z == Settled(b, m)
<1>1. /\ Ordered(b) /\ WellTyped(b) /\ c \in Colors /\ t \in PieceTypes /\ m.from \in Squares /\ m.to \in Squares
      /\ PAWN \in PieceTypes /\ Promotions \subseteq PieceTypes
  BY Fields DEF Kept, Ordered, Posed, Arrives, MoveShapes, PieceTypes, PAWN, KING, Promotions, KNIGHT, BISHOP, ROOK, QUEEN
<1>2. /\ Sound(x, INVALID) /\ SamePieces(x, Castled(b, m)) /\ Above(x, b)
      /\ x.king = b.king /\ x.turn = b.turn /\ x.ply = b.ply + 1 /\ Top(x).move = m /\ Top(x).captured = k
  BY PassedStage DEF Underway
<1>3. Ordered(Castled(b, m)) /\ Stands(Castled(b, m), m.to, c, t)
  BY <1>1, CastledTrack
<1>4. Stands(x, m.to, c, t) /\ WellTyped(x) /\ WellTyped(Castled(b, m))
  BY <1>2, <1>3, StandsAlike DEF Ordered, Sound
<1>5. z = AfterMove(x, m, c, t)
  BY DEF Settled
<1>6. m.type = MOVE_PROM => /\ t = PAWN /\ Abs(m.to - m.from) # DOUBLE_PUSH /\ m.prom \in PieceTypes
                            /\ Stands(x, m.to, c, PAWN)
  BY <1>1, <1>4 DEF Posed, Promotes
<1>7. t = PAWN /\ Abs(m.to - m.from) = DOUBLE_PUSH => EnpassantTarget(m.to, c) \in Squares
  BY DEF Posed, Jumps
<1> HIDE DEF x, z
<1>8. /\ Sound(z, INVALID) /\ SameStack(z, x) /\ SameMove(z, x) /\ z.turn = x.turn /\ z.ply = x.ply
      /\ z.king = KingAt(x.king, c, t, m.to) /\ SamePieces(z, WithPromotion(x, m, c))
  BY <1>1, <1>2, <1>5, <1>6, <1>7, SoundAfter
<1>9. SamePieces(WithPromotion(x, m, c), Promoted(b, m))
  <2>1. CASE m.type # MOVE_PROM
    BY <1>2, <2>1 DEF WithPromotion, Promoted
  <2>2. CASE m.type = MOVE_PROM
    <3> DEFINE v == RemovePiece(x, m.to, c, PAWN, TRUE)  w == RemovePiece(Castled(b, m), m.to, c, PAWN, FALSE)
    <3>1. SamePieces(v, w)
      BY <1>1, <1>2, <1>4, AlikeRemove
    <3>2. WellTyped(v)
      BY <1>1, <1>2, <1>6, <2>2, SoundRemove DEF Sound
    <3>3. WellTyped(w)
      BY <1>1, <1>3, <1>6, <2>2, QuietRemove DEF Ordered
    <3>4. WithPromotion(x, m, c) = AddPiece(v, m.to, c, m.prom, TRUE) /\ Promoted(b, m) = AddPiece(w, m.to, c, m.prom, FALSE)
      BY <2>2 DEF WithPromotion, Promoted
    <3> HIDE DEF v, w
    <3> QED  BY <1>1, <1>6, <2>2, <3>1, <3>2, <3>3, <3>4, AlikeAdd
  <2> QED  BY <2>1, <2>2
<1>10. SamePieces(z, Promoted(b, m))
  BY <1>8, <1>9, PiecesChain
<1>11. Above(z, b) /\ z.turn = b.turn /\ z.ply = b.ply + 1 /\ Top(z).move = m /\ Top(z).captured = k
  BY <1>1, <1>2, <1>8, StillAbove DEF SameMove
<1> QED  BY <1>2, <1>8, <1>10, <1>11 DEF Underway, z


\* The board that make leaves.
MadeOf(r, b, m) ==
  /\ Sound(r, Top(r).legalEp) /\ SamePieces(r, Promoted(b, m)) /\ Above(r, b)
  /\ r.turn = Other(b.turn) /\ r.ply = b.ply + 1
  /\ r.king = KingAt(b.king, b.turn, TypeOn(b, m.from), m.to)
  /\ Top(r).move = m /\ Top(r).captured = CapturedType(b, m)

\* The whole of make.
LEMMA MadeStage ==
  ASSUME NEW b, Kept(b), NEW m, Posed(b, m)
  PROVE  MadeOf(Make(b, m), b, m)
<1> DEFINE w == Settled(b, m)  x == Opposed(b, m)  y == RefreshTacticalCache(x)  r == Make(b, m)
<1>1. WellTyped(b)
  BY DEF Kept
<1>2. Underway(w, b, m, INVALID, Promoted(b, m)) /\ w.king = KingAt(b.king, b.turn, TypeOn(b, m.from), m.to)
  BY SettledStage
<1>3. x = Rehash(Turned(w, Other(w.turn)), TRUE, HashTurn)
  BY <1>2 DEF Opposed, Underway
<1>4. r = KeyTarget(RefreshLegalEnpassantTarget(y))
  BY MakeStages
<1> HIDE DEF w, x, y, r
<1>5. /\ Sound(x, INVALID) /\ SamePieces(x, w) /\ SameStack(x, w) /\ SameMove(x, w)
      /\ x.king = w.king /\ x.turn = Other(w.turn) /\ x.ply = w.ply
  BY <1>2, <1>3, SoundTurn DEF Underway
<1>6. Sound(y, INVALID) /\ SamePieces(y, x) /\ SameSide(y, x) /\ SameStack(y, x) /\ SameMove(y, x)
  BY <1>5, SoundCache DEF y
<1>7. /\ Sound(r, Top(r).legalEp)
      /\ SamePieces(r, y) /\ SameSide(r, y) /\ SameStack(r, y) /\ SameMove(r, y)
  BY <1>4, <1>6, SoundTarget
<1>8. SamePieces(r, Promoted(b, m))
  BY <1>2, <1>5, <1>6, <1>7, PiecesChain DEF Underway
<1>9. SameStack(r, w)
  BY <1>5, <1>6, <1>7, StackChain
<1>10. Above(r, b)
  BY <1>1, <1>2, <1>9, StillAbove DEF Underway
<1>11. SameMove(r, w) /\ SameSide(r, x)
  BY <1>5, <1>6, <1>7, StackChain
<1>12. MadeOf(r, b, m)
  BY <1>2, <1>5, <1>7, <1>8, <1>10, <1>11 DEF MadeOf, Underway, SameMove, SameSide
<1> QED  BY <1>12 DEF r

-----------------------------------------------------------------------------
(* The kings stay where their colour's entry says.                         *)

SameKings(x, y) == \A d \in Colors : x.bb[d][KING] = y.bb[d][KING]
FewerKings(x, y) == \A d \in Colors : x.bb[d][KING] \subseteq y.bb[d][KING]
KingGoes(x, y, c, from, to) ==
  \A d \in Colors : x.bb[d][KING] = IF d = c THEN (y.bb[d][KING] \ {from}) \union {to} ELSE y.bb[d][KING]

\* What the operations on the pieces do to the kings.
LEMMA KingBits ==
  ASSUME NEW b, WellTyped(b), NEW sq \in Squares, NEW to \in Squares, NEW c \in Colors, NEW t \in PieceTypes
  PROVE  /\ t # KING => SameKings(AddPiece(b, sq, c, t, FALSE), b)
         /\ t # KING => SameKings(RemovePiece(b, sq, c, t, FALSE), b)
         /\ FewerKings(RemovePiece(b, sq, c, t, FALSE), b)
         /\ t # KING => SameKings(MovePiece(b, sq, to, c, t, FALSE), b)
         /\ t = KING => KingGoes(MovePiece(b, sq, to, c, t, FALSE), b, c, sq, to)
<1> DEFINE x == AddPiece(b, sq, c, t, FALSE)  y == RemovePiece(b, sq, c, t, FALSE)
           z == MovePiece(b, sq, to, c, t, FALSE)
<1>1. b.bb \in Bitboards /\ KING \in Slots /\ KING # AllSlot
  BY Fields DEF Slots, KING, AllSlot
<1>2. x.bb = WithBit(b.bb, sq, c, t) /\ y.bb = WithoutBit(b.bb, sq, c, t)
  BY Added, Removed
<1>3. z.bb = WithBit(WithoutBit(b.bb, sq, c, t), to, c, t)
  BY Moved
<1> HIDE DEF x, y, z
<1>4. Sets(x.bb, b.bb, sq, c, t) /\ Clears(y.bb, b.bb, sq, c, t)
  BY <1>1, <1>2, Bits
<1>5. Shifts(z.bb, b.bb, sq, to, c, t)
  BY <1>1, <1>3, MovedBits
<1>6. (t # KING => SameKings(x, b) /\ SameKings(y, b)) /\ FewerKings(y, b)
  BY <1>1, <1>4 DEF Sets, Clears, SameKings, FewerKings
<1>7. t # KING => SameKings(z, b)
  BY <1>1, <1>5 DEF Shifts, SameKings
<1>8. t = KING => KingGoes(z, b, c, sq, to)
  BY <1>1, <1>5 DEF Shifts, KingGoes
<1> QED  BY <1>6, <1>7, <1>8 DEF x, y, z

\* A king is where make has entered it.
LEMMA KingsFollow ==
  ASSUME NEW b, Kept(b), NEW m, Posed(b, m), NEW c \in Colors
  PROVE  Promoted(b, m).bb[c][KING] \subseteq {KingAt(b.king, b.turn, TypeOn(b, m.from), m.to)[c]}
<1> DEFINE d == b.turn  t == TypeOn(b, m.from)  k == CapturedType(b, m)
           p == Taken(b, m)  q == Arrived(b, m)  s == Castled(b, m)
<1>1. /\ Ordered(b) /\ WellTyped(b) /\ d \in Colors /\ Other(d) \in Colors
      /\ t \in PieceTypes /\ m.from \in Squares /\ m.to \in Squares
      /\ ROOK \in PieceTypes /\ PAWN \in PieceTypes /\ Promotions \subseteq PieceTypes
      /\ ROOK # KING /\ PAWN # KING /\ KING \notin Promotions
      /\ b.king \in [Colors -> Squares]
  <2>1. Ordered(b) /\ WellTyped(b)
    BY DEF Kept, Ordered
  <2>2. d \in Colors /\ b.king \in [Colors -> Squares]
    BY <2>1, Fields
  <2>3. Other(d) \in Colors
    BY <2>2 DEF Other, Colors, WHITE, BLACK
  <2>4. t \in PieceTypes /\ m.from \in Squares /\ m.to \in Squares
    BY DEF Posed, Arrives, MoveShapes
  <2>5. /\ ROOK \in PieceTypes /\ PAWN \in PieceTypes /\ Promotions \subseteq PieceTypes
        /\ ROOK # KING /\ PAWN # KING /\ KING \notin Promotions
    BY DEF PieceTypes, PAWN, KING, Promotions, KNIGHT, BISHOP, ROOK, QUEEN
  <2> QED  BY <2>1, <2>2, <2>3, <2>4, <2>5
<1>2. b.bb[c][KING] \subseteq {b.king[c]}
  BY DEF Kept, KingsKnown
<1>3. FewerKings(p, b)
  <2>1. CASE k = NO_PIECETYPE
    BY <2>1 DEF Taken, FewerKings
  <2>2. CASE k # NO_PIECETYPE
    <3>1. CaptureAt(b, m) \in Squares /\ k \in PieceTypes
      BY <2>2 DEF Posed, Takes, PieceTypes, PAWN, KING, NO_PIECETYPE
    <3> QED  BY <1>1, <2>2, <3>1, KingBits DEF Taken
  <2> QED  BY <2>1, <2>2
<1>4. WellTyped(p) /\ WellTyped(q) /\ WellTyped(s)
  BY <1>1, TakenTrack, ArrivedTrack, CastledTrack DEF Ordered
<1>5. q = MovePiece(p, m.from, m.to, d, t, FALSE)
  BY DEF Arrived
<1>6. SameKings(s, q)
  <2>1. CASE m.type # MOVE_CASTLE
    BY <2>1 DEF Castled, SameKings
  <2>2. CASE m.type = MOVE_CASTLE
    <3>1. RookFrom(b, m) \in Squares /\ RookTo(b, m) \in Squares
      BY <2>2 DEF Posed, Castles
    <3> QED  BY <1>1, <1>4, <2>2, <3>1, KingBits DEF Castled
  <2> QED  BY <2>1, <2>2
<1>7. SameKings(Promoted(b, m), s)
  <2>1. CASE m.type # MOVE_PROM
    BY <2>1 DEF Promoted, SameKings
  <2>2. CASE m.type = MOVE_PROM
    <3> DEFINE w == RemovePiece(s, m.to, d, PAWN, FALSE)  v == AddPiece(w, m.to, d, m.prom, FALSE)
    <3>1. Promoted(b, m) = v
      BY <2>2 DEF Promoted
    <3>2. m.prom \in PieceTypes /\ m.prom # KING
      BY <1>1, <2>2 DEF Posed, Promotes
    <3>3. SameKings(w, s)
      BY <1>1, <1>4, KingBits
    <3>4. WellTyped(w)
      <4>1. Stands(s, m.to, d, PAWN) /\ Ordered(s)
        BY <1>1, <2>2, CastledTrack DEF Posed, Promotes
      <4> QED  BY <1>1, <4>1, QuietRemove DEF Ordered
    <3> HIDE DEF w
    <3>5. SameKings(v, w)
      BY <1>1, <3>2, <3>4, KingBits
    <3> QED  BY <3>1, <3>3, <3>5 DEF SameKings
  <2> QED  BY <2>1, <2>2
<1> HIDE DEF p, q, s, t, d
<1>8. CASE t # KING
  <2>1. SameKings(q, p)
    BY <1>1, <1>4, <1>5, <1>8, KingBits
  <2>2. KingAt(b.king, d, t, m.to) = b.king
    BY <1>8 DEF KingAt
  <2> QED  BY <1>2, <1>3, <1>6, <1>7, <2>1, <2>2 DEF SameKings, FewerKings, d, t
<1>9. CASE t = KING
  <2>1. KingGoes(q, p, d, m.from, m.to)
    BY <1>1, <1>4, <1>5, <1>9, KingBits
  <2>2. b.bb[d][KING] \subseteq {b.king[d]} /\ m.from \in b.bb[d][KING]
    BY <1>1, <1>9 DEF Kept, KingsKnown, Posed, Arrives, Stands, d, t
  <2>3. KingAt(b.king, d, t, m.to) = [b.king EXCEPT ![d] = m.to]
    BY <1>9 DEF KingAt
  <2>4. q.bb[c][KING] \subseteq {[b.king EXCEPT ![d] = m.to][c]}
    BY <1>1, <1>2, <1>3, <2>1, <2>2 DEF KingGoes, FewerKings
  <2> QED  BY <1>6, <1>7, <2>3, <2>4 DEF SameKings, d, t
<1> QED  BY <1>8, <1>9

\* make keeps a board in order.
LEMMA MakeKeeps ==
  ASSUME NEW b, Kept(b), NEW m, Posed(b, m)
  PROVE  Kept(Make(b, m))
<1> DEFINE r == Make(b, m)  king == KingAt(b.king, b.turn, TypeOn(b, m.from), m.to)
<1>1. MadeOf(r, b, m)
  BY MadeStage
<1> HIDE DEF r
<1>2. KingsKnown(r)
  <2>1. r.king = king /\ r.bb = Promoted(b, m).bb
    BY <1>1 DEF MadeOf, SamePieces
  <2>2. \A c \in Colors : Promoted(b, m).bb[c][KING] \subseteq {king[c]}
    BY KingsFollow
  <2> QED  BY <2>1, <2>2 DEF KingsKnown
<1>3. WellTyped(r) /\ PiecesAgree(r) /\ Keyed(r, Top(r).legalEp)
  BY <1>1 DEF MadeOf, Sound
<1> QED  BY <1>2, <1>3, MatchingKey DEF Kept, r

-----------------------------------------------------------------------------
(* Unmake, stage by stage.                                                 *)

\* The type of the piece that make leaves on the destination.
Landed(b, m) == IF m.type = MOVE_PROM THEN m.prom ELSE TypeOn(b, m.from)

\* When all is done the piece that landed stands on the destination.
LEMMA PromotedTrack ==
  ASSUME NEW b, Ordered(b), NEW m, Posed(b, m)
  PROVE  LET x == Promoted(b, m) IN
         Ordered(x) /\ Landed(b, m) \in PieceTypes /\ Stands(x, m.to, b.turn, Landed(b, m))
<1> DEFINE c == b.turn  s == Castled(b, m)  x == Promoted(b, m)
           w == RemovePiece(s, m.to, c, PAWN, FALSE)
<1>1. c \in Colors /\ m.to \in Squares /\ TypeOn(b, m.from) \in PieceTypes
  BY Fields DEF Ordered, Posed, Arrives, MoveShapes
<1>2. Ordered(s) /\ Stands(s, m.to, c, TypeOn(b, m.from))
  BY CastledTrack
<1>3. CASE m.type # MOVE_PROM
  BY <1>1, <1>2, <1>3 DEF Promoted, Landed
<1>4. CASE m.type = MOVE_PROM
  <2>1. TypeOn(b, m.from) = PAWN /\ m.prom \in PieceTypes /\ PAWN \in PieceTypes
    BY <1>4 DEF Posed, Promotes, Promotions, PieceTypes, PAWN, KING, KNIGHT, BISHOP, ROOK, QUEEN
  <2>2. x = AddPiece(w, m.to, c, m.prom, FALSE) /\ Landed(b, m) = m.prom
    BY <1>4 DEF Promoted, Landed
  <2> HIDE DEF c, s, x
  <2>4. Ordered(w) /\ w.squares = Drop(s.squares, m.to)
    BY <1>1, <1>2, <2>1, QuietRemove
  <2>5. m.to \notin DOMAIN w.squares
    BY <2>4 DEF Drop
  <2> HIDE DEF w
  <2>7. Ordered(x) /\ x.squares = Put(w.squares, m.to, c, m.prom)
    BY <1>1, <2>1, <2>2, <2>4, <2>5, QuietAdd
  <2>8. m.to \in DOMAIN x.squares /\ x.squares[m.to] = <<c, m.prom>>
    BY <2>7 DEF Put
  <2>9. Stands(x, m.to, c, m.prom)
    BY <1>1, <2>1, <2>7, <2>8, Standing
  <2> QED  BY <2>1, <2>2, <2>7, <2>9 DEF c, x
<1> QED  BY <1>3, <1>4

\* In an ordered board an empty square is empty in every copy.
LEMMA Empty ==
  ASSUME NEW b, Ordered(b), NEW sq \in Squares, NEW c \in Colors, NEW t \in PieceTypes, sq \notin DOMAIN b.squares
  PROVE  Free(b, sq, c, t)
BY PiecesSeen DEF Ordered

\* The pieces back as they were after each part of unmake.
LEMMA DemotedPieces ==
  ASSUME NEW b, Ordered(b), NEW m, Posed(b, m), m.type = MOVE_PROM
  PROVE  LET y == RemovePiece(Promoted(b, m), m.to, b.turn, m.prom, FALSE) IN
         /\ WellTyped(y)
         /\ SamePieces(AddPiece(y, m.to, b.turn, PAWN, FALSE), Castled(b, m))
<1> DEFINE c == b.turn  s == Castled(b, m)  x == Promoted(b, m)
           w == RemovePiece(s, m.to, c, PAWN, FALSE)
           y == RemovePiece(x, m.to, c, m.prom, FALSE)
<1>1. /\ c \in Colors /\ m.to \in Squares /\ TypeOn(b, m.from) = PAWN
      /\ m.prom \in PieceTypes /\ PAWN \in PieceTypes
  <2>1. c \in Colors
    BY Fields DEF Ordered
  <2> QED  BY <2>1 DEF Posed, Arrives, MoveShapes, Promotes, Promotions, PieceTypes, PAWN, KING, KNIGHT, BISHOP, ROOK, QUEEN
<1>2. Ordered(s) /\ Stands(s, m.to, c, PAWN)
  BY <1>1, CastledTrack
<1>3. x = AddPiece(w, m.to, c, m.prom, FALSE)
  BY DEF Promoted
<1>4. Ordered(x) /\ Stands(x, m.to, c, m.prom)
  BY PromotedTrack DEF Landed
<1>6. Ordered(w) /\ m.to \notin DOMAIN w.squares
  <2> HIDE DEF c, s
  <2>1. Ordered(w) /\ w.squares = Drop(s.squares, m.to)
    BY <1>1, <1>2, QuietRemove
  <2>2. m.to \notin DOMAIN w.squares
    BY <2>1 DEF Drop
  <2> QED  BY <2>1, <2>2
<1>7. SamePieces(AddPiece(w, m.to, c, PAWN, FALSE), s)
  BY <1>1, <1>2, RemoveUndone DEF Ordered
<1> HIDE DEF c, s, w, x
<1>8. SamePieces(y, w)
  BY <1>1, <1>3, <1>6, Empty, AddUndone DEF Ordered
<1>9. Ordered(y)
  BY <1>1, <1>4, QuietRemove
<1> HIDE DEF y
<1>10. SamePieces(AddPiece(y, m.to, c, PAWN, FALSE), AddPiece(w, m.to, c, PAWN, FALSE))
  BY <1>1, <1>6, <1>8, <1>9, AlikeAdd DEF Ordered
<1>11. WellTyped(y) /\ SamePieces(AddPiece(y, m.to, c, PAWN, FALSE), s)
  BY <1>7, <1>9, <1>10, PiecesChain DEF Ordered
<1> QED  BY <1>11 DEF y, x, c, s

\* The piece goes back, and after it the rook.
LEMMA ReturnedPieces ==
  ASSUME NEW b, Ordered(b), NEW m, Posed(b, m)
  PROVE  LET y == MovePiece(Castled(b, m), m.to, m.from, b.turn, TypeOn(b, m.from), FALSE) IN
         /\ m.type # MOVE_CASTLE => SamePieces(y, Taken(b, m))
         /\ m.type = MOVE_CASTLE =>
              SamePieces(MovePiece(y, RookTo(b, m), RookFrom(b, m), b.turn, ROOK, FALSE), Taken(b, m))
<1> DEFINE c == b.turn  t == TypeOn(b, m.from)  f == RookFrom(b, m)  g == RookTo(b, m)
           p == Taken(b, m)  q == Arrived(b, m)  s == Castled(b, m)
           y == MovePiece(s, m.to, m.from, c, t, FALSE)
<1>1. /\ c \in Colors /\ t \in PieceTypes /\ m.from \in Squares /\ m.to \in Squares
      /\ ROOK \in PieceTypes /\ m.from # m.to
  <2>1. c \in Colors
    BY Fields DEF Ordered
  <2> QED  BY <2>1 DEF Posed, Arrives, MoveShapes, PieceTypes, PAWN, KING, ROOK
<1>2. /\ Ordered(p) /\ m.to \notin DOMAIN p.squares /\ Stands(p, m.from, c, t)
      /\ m.type = MOVE_CASTLE => p = b
  BY TakenTrack
<1>3. q = MovePiece(p, m.from, m.to, c, t, FALSE)
  BY DEF Arrived
<1>4. Ordered(q) /\ Ordered(s)
  BY ArrivedTrack, CastledTrack
<1>5. SamePieces(MovePiece(q, m.to, m.from, c, t, FALSE), p)
  <2> HIDE DEF p, q, c, t
  <2> QED  BY <1>1, <1>2, <1>3, Empty, MoveUndone DEF Ordered
<1>6. CASE m.type # MOVE_CASTLE
  <2>1. s = q
    BY <1>6 DEF Castled
  <2> QED  BY <1>5, <1>6, <2>1
<1>7. CASE m.type = MOVE_CASTLE
  <2> DEFINE z == MovePiece(q, m.to, m.from, c, t, FALSE)
             v == MovePiece(p, f, g, c, ROOK, FALSE)
  <2>1. /\ f \in Squares /\ g \in Squares /\ Stands(p, f, c, ROOK) /\ g \notin DOMAIN p.squares
        /\ f # m.to /\ f # m.from /\ g # m.to /\ g # m.from /\ f # g
    BY <1>2, <1>7 DEF Posed, Castles
  <2>2. s = MovePiece(q, f, g, c, ROOK, FALSE)
    BY <1>7 DEF Castled
  <2>3. WellTyped(z) /\ WellTyped(v) /\ WellTyped(y)
    BY <1>1, <1>2, <1>4, <2>1, Moved DEF OnlyPieces, Ordered
  <2> HIDE DEF p, q, s, c, t, f, g
  <2>4. SamePieces(y, MovePiece(z, f, g, c, ROOK, FALSE))
    BY <1>1, <1>4, <2>1, <2>2, MovesCommute DEF Ordered
  <2>5. SamePieces(MovePiece(z, f, g, c, ROOK, FALSE), v)
    <3>1. SamePieces(z, p) /\ WellTyped(p)
      BY <1>2, <1>5 DEF Ordered
    <3> HIDE DEF z
    <3> QED  BY <1>1, <2>1, <2>3, <3>1, AlikeMove
  <2>6. SamePieces(MovePiece(v, g, f, c, ROOK, FALSE), p)
    BY <1>1, <1>2, <2>1, Empty, MoveUndone DEF Ordered
  <2> HIDE DEF y, z, v
  <2>7. SamePieces(y, v)
    BY <2>4, <2>5, PiecesChain
  <2>8. SamePieces(MovePiece(y, g, f, c, ROOK, FALSE), MovePiece(v, g, f, c, ROOK, FALSE))
    BY <1>1, <2>1, <2>3, <2>7, AlikeMove
  <2>9. SamePieces(MovePiece(y, g, f, c, ROOK, FALSE), p)
    BY <2>6, <2>8, PiecesChain
  <2> QED  BY <1>7, <2>9 DEF y, f, g, c, p, s, t
<1> QED  BY <1>6, <1>7

\* The captured piece is put back.
LEMMA RestoredPieces ==
  ASSUME NEW b, Ordered(b), NEW m, Posed(b, m), CapturedType(b, m) # NO_PIECETYPE
  PROVE  /\ SamePieces(AddPiece(Taken(b, m), CaptureAt(b, m), Other(b.turn), CapturedType(b, m), FALSE), b)
         /\ CaptureAt(b, m) \in Squares /\ CapturedType(b, m) \in PieceTypes /\ m.type # MOVE_CASTLE
<1> DEFINE c == Other(b.turn)  k == CapturedType(b, m)  at == CaptureAt(b, m)
<1>1. c \in Colors
  <2>1. b.turn \in Colors
    BY Fields DEF Ordered
  <2> QED  BY <2>1 DEF Other, Colors, WHITE, BLACK
<1>2. at \in Squares /\ Stands(b, at, c, k) /\ k \in PieceTypes
  BY DEF Posed, Takes, PieceTypes, PAWN, KING, NO_PIECETYPE
<1>3. m.type # MOVE_CASTLE
  BY DEF Posed, Castles
<1>4. Taken(b, m) = RemovePiece(b, at, c, k, FALSE)
  BY DEF Taken
<1>5. WellTyped(b)
  BY DEF Ordered
<1> HIDE DEF c, k, at
<1>6. SamePieces(AddPiece(Taken(b, m), at, c, k, FALSE), b)
  BY <1>1, <1>2, <1>4, <1>5, RemoveUndone
<1> QED  BY <1>2, <1>3, <1>6 DEF c, k, at


\* Dropping the top of a stack that was pushed gives the old one.
LEMMA StackCut ==
  ASSUME NEW s, NEW r, s \in Seq(PlyStates), r \in Seq(PlyStates), Len(r) = Len(s) + 1,
         \A i \in 1 .. Len(s) : r[i] = s[i]
  PROVE  SubSeq(r, 1, Len(r) - 1) = s
<1>1. Len(r) - 1 = Len(s) /\ Len(s) \in Nat
  OBVIOUS
<1>2. SubSeq(r, 1, Len(s)) \in Seq(PlyStates) /\ Len(SubSeq(r, 1, Len(s))) = Len(s)
  BY <1>1
<1>3. \A i \in 1 .. Len(s) : SubSeq(r, 1, Len(s))[i] = s[i]
  BY <1>1
<1> QED  BY <1>1, <1>2, <1>3

Popped(r, c) == Turned(Numbered(Stacked(r, SubSeq(r.states, 1, Len(r.states) - 1)), r.ply - 1), c)
Demoted(x, m, c, u) ==
  IF m.type # MOVE_PROM THEN x
  ELSE AddPiece(RemovePiece(x, m.to, c, u, FALSE), m.to, c, PAWN, FALSE)
Returned(x, m, c, t) == CastleRook(MovePiece(x, m.to, m.from, c, t, FALSE), m, c, TRUE, FALSE)
Restored(x, m, c, k) ==
  IF m.type = MOVE_CASTLE \/ k = NO_PIECETYPE THEN x
  ELSE AddPiece(x, IF m.type = MOVE_EP THEN EnpassantCaptured(m.to, c) ELSE m.to, Other(c), k, FALSE)
Enthroned(x, m, c, t) == IF t = KING THEN Crowned(x, c, m.from) ELSE x

\* unmake is its stages, one after the other.
LEMMA UnmakeStages ==
  ASSUME NEW r, NEW m, Top(r).move = m, NEW c, Other(r.turn) = c, NEW u, TypeOn(r, m.to) = u,
         NEW t, t = (IF m.type = MOVE_PROM THEN PAWN ELSE u), NEW k, Top(r).captured = k
  PROVE  Unmake(r) = Enthroned(Restored(Returned(Demoted(Popped(r, c), m, c, u), m, c, t), m, c, k), m, c, t)
BY DEF Unmake, Enthroned, Restored, Returned, Demoted, Popped, PopPlyState, Crowned, Turned, Numbered, Stacked

\* The side of x is y's, and so is its history; an operation without the key leaves both alone.
Beneath(x, y) == WellTyped(x) /\ SameSide(x, y) /\ x.states = y.states

\* An operation without the key leaves side and history alone.
LEMMA QuietSide ==
  ASSUME NEW b, WellTyped(b), NEW sq \in Squares, NEW to \in Squares, NEW c \in Colors, NEW t \in PieceTypes
  PROVE  /\ Beneath(AddPiece(b, sq, c, t, FALSE), b)
         /\ Beneath(RemovePiece(b, sq, c, t, FALSE), b)
         /\ Beneath(MovePiece(b, sq, to, c, t, FALSE), b)
<1>1. OnlyPieces(AddPiece(b, sq, c, t, FALSE), b, FALSE, HashPiece(c, t, sq))
  BY Added
<1>2. OnlyPieces(RemovePiece(b, sq, c, t, FALSE), b, FALSE, HashPiece(c, t, sq))
  BY Removed
<1>3. OnlyPieces(MovePiece(b, sq, to, c, t, FALSE), b, FALSE, Xor(HashPiece(c, t, sq), HashPiece(c, t, to)))
  BY Moved
<1> QED  BY <1>1, <1>2, <1>3 DEF OnlyPieces, Beneath

\* And so do two of them.
LEMMA BeneathChain ==
  ASSUME NEW x, NEW y, NEW z, Beneath(x, y), Beneath(y, z)
  PROVE  Beneath(x, z)
BY DEF Beneath, SameSide


\* Unmake takes back what make did, for every board in order and every move
\* that passes is_pseudo_legal on it (make, unmake).
LEMMA UnmakeUndoes ==
  ASSUME NEW b, Kept(b), NEW m, Posed(b, m)
  PROVE  Unmake(Make(b, m)) = b
<1> DEFINE c == b.turn  t == TypeOn(b, m.from)  k == CapturedType(b, m)  u == Landed(b, m)
           king == KingAt(b.king, c, t, m.to)
           r == Make(b, m)  x1 == Popped(r, c)  x2 == Demoted(x1, m, c, u)
           x3 == Returned(x2, m, c, t)  x4 == Restored(x3, m, c, k)  x5 == Enthroned(x4, m, c, t)
<1>1. Ordered(b) /\ WellTyped(b) /\ Itself(b) /\ c \in Colors /\ b.king \in [Colors -> Squares]
      /\ b.ply \in Nat /\ b.states \in Seq(PlyStates) /\ b.states # << >>
  BY Fields DEF Kept, Ordered
<1>2. t \in PieceTypes /\ m.from \in Squares /\ m.to \in Squares /\ PAWN \in PieceTypes /\ ROOK \in PieceTypes
  BY DEF Posed, Arrives, MoveShapes, PieceTypes, PAWN, KING, ROOK
<1>3. u \in PieceTypes /\ Stands(Promoted(b, m), m.to, c, u) /\ Ordered(Promoted(b, m))
  BY <1>1, PromotedTrack
<1>4. t = IF m.type = MOVE_PROM THEN PAWN ELSE u
  BY DEF Landed, Posed, Promotes
<1>5. MadeOf(r, b, m)
  BY MadeStage
<1>6. Ordered(Castled(b, m)) /\ Ordered(Taken(b, m))
  BY <1>1, CastledTrack, TakenTrack
<1> HIDE DEF r
<1>7. Other(r.turn) = c /\ Top(r).move = m /\ Top(r).captured = k /\ TypeOn(r, m.to) = u
  <2>1. Other(Other(c)) = c
    BY <1>1 DEF Other, Colors, WHITE, BLACK
  <2>2. Stands(r, m.to, c, u) /\ WellTyped(r) /\ PiecesAgree(r)
    BY <1>3, <1>5, StandsAlike DEF MadeOf, Sound
  <2>3. TypeOn(r, m.to) = u
    <3> HIDE DEF c, u
    <3> QED  BY <1>1, <1>2, <1>3, <2>2, PiecesSeen
  <2> QED  BY <1>5, <2>1, <2>3 DEF MadeOf
<1>8. Unmake(r) = x5
  <2> HIDE DEF c, t, k, u
  <2> QED  BY <1>4, <1>7, UnmakeStages
<1>9. /\ Itself(x1) /\ SamePieces(x1, Promoted(b, m)) /\ x1.states = b.states
      /\ x1.king = king /\ x1.turn = c /\ x1.ply = b.ply
  <2>1. /\ WellTyped(r) /\ Itself(r) /\ r.states \in Seq(PlyStates) /\ SamePieces(r, Promoted(b, m))
        /\ Above(r, b) /\ r.ply = b.ply + 1 /\ r.king = king
    BY <1>5, Fields DEF MadeOf, Sound
  <2>2. SubSeq(r.states, 1, Len(r.states) - 1) = b.states
    BY <1>1, <2>1, StackCut DEF Above
  <2> DEFINE v == Stacked(r, b.states)  w == Numbered(v, r.ply - 1)
  <2>3. x1 = Turned(w, c)
    BY <2>2 DEF Popped
  <2>4. Itself(v) /\ SamePieces(v, r) /\ v.states = b.states /\ v.king = r.king /\ v.turn = r.turn
    BY <2>1, StackedFields
  <2> HIDE DEF v
  <2>5. Itself(w) /\ SamePieces(w, v) /\ w.states = v.states /\ w.king = v.king /\ w.ply = r.ply - 1
    BY <2>4, NumberedFields
  <2> HIDE DEF w, x1
  <2>6. /\ Itself(x1) /\ SamePieces(x1, w) /\ x1.states = w.states /\ x1.king = w.king
        /\ x1.turn = c /\ x1.ply = w.ply
    BY <2>3, <2>5, TurnedFields
  <2>7. SamePieces(x1, Promoted(b, m))
    BY <2>1, <2>4, <2>5, <2>6, PiecesChain
  <2>8. r.ply - 1 = b.ply
    BY <1>1, <2>1
  <2> QED  BY <2>1, <2>4, <2>5, <2>6, <2>7, <2>8
<1>10. king \in [Colors -> Squares]
  BY <1>1, <1>2 DEF KingAt
<1>11. WellTyped(x1)
  <2>1. WellTyped(Promoted(b, m))
    BY <1>3 DEF Ordered
  <2> HIDE DEF x1, king, c
  <2> QED  BY <1>1, <1>9, <1>10, <2>1, Fields, FieldsSuffice DEF SamePieces
<1> HIDE DEF x1, king
<1>12. SamePieces(x2, Castled(b, m)) /\ Beneath(x2, x1)
  <2>1. CASE m.type # MOVE_PROM
    BY <1>9, <1>11, <2>1 DEF Demoted, Promoted, Beneath, SameSide
  <2>2. CASE m.type = MOVE_PROM
    <3> DEFINE v == RemovePiece(x1, m.to, c, u, FALSE)  w == RemovePiece(Promoted(b, m), m.to, c, u, FALSE)
    <3>1. x2 = AddPiece(v, m.to, c, PAWN, FALSE) /\ u = m.prom
      BY <2>2 DEF Demoted, Landed
    <3>2. WellTyped(w) /\ SamePieces(AddPiece(w, m.to, c, PAWN, FALSE), Castled(b, m))
      BY <1>1, <2>2, <3>1, DemotedPieces
    <3>3. WellTyped(Promoted(b, m)) /\ SamePieces(x1, Promoted(b, m))
      BY <1>3, <1>9 DEF Ordered
    <3> HIDE DEF c, u, x2
    <3>4. SamePieces(v, w)
      BY <1>1, <1>2, <1>3, <1>11, <3>3, AlikeRemove
    <3>5. Beneath(v, x1)
      BY <1>1, <1>2, <1>3, <1>11, QuietSide
    <3> HIDE DEF v, w
    <3>6. Beneath(x2, v)
      <4>1. WellTyped(v)
        BY <3>5 DEF Beneath
      <4> QED  BY <1>1, <1>2, <3>1, <4>1, QuietSide
    <3>7. SamePieces(x2, AddPiece(w, m.to, c, PAWN, FALSE))
      BY <1>1, <1>2, <3>1, <3>2, <3>4, <3>5, AlikeAdd DEF Beneath
    <3> QED  BY <3>2, <3>5, <3>6, <3>7, PiecesChain, BeneathChain
  <2> QED  BY <2>1, <2>2
<1> HIDE DEF x2
<1>13. SamePieces(x3, Taken(b, m)) /\ Beneath(x3, x2)
  <2> DEFINE v == MovePiece(x2, m.to, m.from, c, t, FALSE)
             w == MovePiece(Castled(b, m), m.to, m.from, c, t, FALSE)
             f == RookFrom(b, m)  g == RookTo(b, m)
  <2>1. x3 = IF m.type # MOVE_CASTLE THEN v ELSE MovePiece(v, g, f, c, ROOK, FALSE)
    BY DEF Returned, CastleRook, RookFrom, RookTo
  <2>2. /\ m.type # MOVE_CASTLE => SamePieces(w, Taken(b, m))
        /\ m.type = MOVE_CASTLE => SamePieces(MovePiece(w, g, f, c, ROOK, FALSE), Taken(b, m))
    BY <1>1, ReturnedPieces
  <2>3. m.type = MOVE_CASTLE => f \in Squares /\ g \in Squares
    BY DEF Posed, Castles
  <2>4. WellTyped(x2) /\ WellTyped(Castled(b, m))
    BY <1>6, <1>12 DEF Beneath, Ordered
  <2> HIDE DEF c, t, f, g, x3
  <2>5. SamePieces(v, w)
    BY <1>1, <1>2, <1>12, <2>4, AlikeMove
  <2>6. Beneath(v, x2) /\ WellTyped(w)
    <3>1. Beneath(v, x2) /\ Beneath(w, Castled(b, m))
      BY <1>1, <1>2, <2>4, QuietSide
    <3> HIDE DEF v, w
    <3> QED  BY <3>1 DEF Beneath
  <2> HIDE DEF v, w
  <2>7. CASE m.type # MOVE_CASTLE
    BY <2>1, <2>2, <2>5, <2>6, <2>7, PiecesChain
  <2>8. CASE m.type = MOVE_CASTLE
    <3>1. x3 = MovePiece(v, g, f, c, ROOK, FALSE) /\ f \in Squares /\ g \in Squares
      BY <2>1, <2>3, <2>8
    <3>2. SamePieces(x3, MovePiece(w, g, f, c, ROOK, FALSE))
      BY <1>1, <1>2, <2>5, <2>6, <3>1, AlikeMove DEF Beneath
    <3>3. WellTyped(v)
      BY <2>6 DEF Beneath
    <3>4. Beneath(x3, v)
      BY <1>1, <1>2, <3>1, <3>3, QuietSide
    <3> QED  BY <2>2, <2>6, <2>8, <3>2, <3>4, PiecesChain, BeneathChain
  <2> QED  BY <2>7, <2>8
<1> HIDE DEF x3
<1>14. SamePieces(x4, b) /\ Beneath(x4, x3)
  <2>1. CASE k = NO_PIECETYPE
    <3>1. x4 = x3 /\ Taken(b, m) = b
      BY <2>1 DEF Restored, Taken
    <3> QED  BY <1>13, <3>1 DEF Beneath, SameSide
  <2>2. CASE k # NO_PIECETYPE
    <3> DEFINE at == CaptureAt(b, m)  d == Other(c)
    <3>1. /\ SamePieces(AddPiece(Taken(b, m), at, d, k, FALSE), b)
          /\ at \in Squares /\ k \in PieceTypes /\ m.type # MOVE_CASTLE
      BY <1>1, <2>2, RestoredPieces
    <3>2. x4 = AddPiece(x3, at, d, k, FALSE)
      BY <2>2, <3>1 DEF Restored, CaptureAt
    <3>3. d \in Colors /\ WellTyped(x3) /\ WellTyped(Taken(b, m)) /\ SamePieces(x3, Taken(b, m))
      BY <1>1, <1>6, <1>13 DEF Beneath, Ordered, Other, Colors, WHITE, BLACK
    <3> HIDE DEF at, d, k, x4
    <3>4. SamePieces(x4, AddPiece(Taken(b, m), at, d, k, FALSE)) /\ Beneath(x4, x3)
      BY <3>1, <3>2, <3>3, AlikeAdd, QuietSide
    <3> QED  BY <3>1, <3>4, PiecesChain
  <2> QED  BY <2>1, <2>2
<1> HIDE DEF x4
<1>15. /\ Itself(x4) /\ x4.king = king /\ x4.turn = c /\ x4.ply = b.ply /\ x4.states = b.states
  <2>1. Beneath(x4, x1)
    BY <1>12, <1>13, <1>14, BeneathChain
  <2>2. Itself(x4)
    BY <1>14, Fields DEF Beneath
  <2> QED  BY <1>9, <2>1, <2>2 DEF Beneath, SameSide
<1>16. /\ Itself(x5) /\ SamePieces(x5, b) /\ x5.king = b.king /\ x5.turn = c /\ x5.ply = b.ply
       /\ x5.states = b.states
  <2>1. CASE t # KING
    <3>1. x5 = x4 /\ king = b.king
      BY <2>1 DEF Enthroned, KingAt, king
    <3> QED  BY <1>14, <1>15, <3>1
  <2>2. CASE t = KING
    <3>1. x5 = Crowned(x4, c, m.from) /\ king = [b.king EXCEPT ![c] = m.to]
      BY <2>2 DEF Enthroned, KingAt, king
    <3>2. b.king[c] = m.from
      BY <1>1, <2>2 DEF Kept, KingsKnown, Posed, Arrives, Stands
    <3> HIDE DEF x5
    <3>3. /\ Itself(x5) /\ SamePieces(x5, x4) /\ x5.states = x4.states
          /\ x5.king = [x4.king EXCEPT ![c] = m.from] /\ x5.turn = x4.turn /\ x5.ply = x4.ply
      BY <1>15, <3>1, CrownedFields
    <3>4. [[b.king EXCEPT ![c] = m.to] EXCEPT ![c] = m.from] = b.king
      BY <1>1, <3>2
    <3>5. SamePieces(x5, b)
      BY <1>14, <3>3, PiecesChain
    <3> QED  BY <1>15, <3>1, <3>3, <3>4, <3>5
  <2> QED  BY <2>1, <2>2
<1> HIDE DEF x5
<1>17. x5 = b
  BY <1>1, <1>16, SameBoard DEF SameSide, c
<1> QED  BY <1>8, <1>17 DEF r

NullMade(r, b) ==
  /\ Sound(r, INVALID) /\ SamePieces(r, b) /\ Above(r, b) /\ r.king = b.king
  /\ r.turn = Other(b.turn) /\ r.ply = b.ply
  /\ Top(r).move = NULL_MOVE /\ Top(r).legalEp = INVALID

\* The whole of make_null.
LEMMA NullStage ==
  ASSUME NEW b, Kept(b)
  PROVE  NullMade(MakeNull(b), b)
<1> DEFINE e == Top(b).legalEp  m == NULL_MOVE
           w == PushPlyState(b, m)
           x == Rehash(Turned(w, Other(w.turn)), TRUE, Xor(HashTurn, EpKey(e)))
           r == MakeNull(b)
<1>1. WellTyped(b) /\ Sound(b, e) /\ e \in Squares \union {INVALID}
  <2>1. WellTyped(b) /\ PiecesAgree(b) /\ Keyed(b, e)
    BY MatchingKey DEF Kept
  <2>2. Top(b) \in PlyStates
    BY <2>1, Fields
  <2> QED  BY <2>1, <2>2 DEF PlyStates, Sound
<1>2. m \in [from : Squares, to : Squares, type : BASIC_MOVE..MOVE_CASTLE, prom : PieceTypes]
  BY DEF NULL_MOVE, Basic, Move, Squares, BASIC_MOVE, MOVE_CASTLE, PieceTypes, PAWN, KNIGHT, KING
<1>3. r = RefreshTacticalCache(x)
  BY DEF MakeNull, Turned
<1> HIDE DEF m, e
<1>4. /\ Sound(w, e) /\ SamePieces(w, b) /\ SameSide(w, b)
      /\ Len(w.states) = Len(b.states) + 1 /\ \A i \in 1 .. Len(b.states) : w.states[i] = b.states[i]
      /\ Top(w).move = m /\ Top(w).legalEp = INVALID
  BY <1>1, <1>2, SoundPush
<1> HIDE DEF w
<1>5. /\ Sound(x, INVALID) /\ SamePieces(x, w) /\ SameStack(x, w) /\ SameMove(x, w)
      /\ x.king = w.king /\ x.turn = Other(w.turn) /\ x.ply = w.ply /\ Top(x).legalEp = Top(w).legalEp
  BY <1>1, <1>4, SoundPass
<1> HIDE DEF x, r
<1>6. /\ Sound(r, INVALID) /\ SamePieces(r, x) /\ SameSide(r, x) /\ SameStack(r, x) /\ SameMove(r, x)
      /\ Top(r).legalEp = Top(x).legalEp
  BY <1>3, <1>5, SoundCache
<1>7. SamePieces(r, b)
  BY <1>4, <1>5, <1>6, PiecesChain
<1>8. Above(w, b)
  BY <1>4 DEF Above
<1>9. SameStack(r, w) /\ SameMove(r, w)
  BY <1>5, <1>6, StackChain
<1>10. Above(r, b)
  BY <1>1, <1>8, <1>9, StillAbove
<1>11. NullMade(r, b)
  BY <1>4, <1>5, <1>6, <1>7, <1>9, <1>10 DEF NullMade, SameMove, SameSide, m
<1> QED  BY <1>11 DEF r

\* make_null keeps a board in order.
LEMMA MakeNullKeeps ==
  ASSUME NEW b, Kept(b)
  PROVE  Kept(MakeNull(b))
<1> DEFINE r == MakeNull(b)
<1>1. NullMade(r, b)
  BY NullStage
<1> HIDE DEF r
<1>2. KingsKnown(r)
  BY <1>1 DEF NullMade, SamePieces, Kept, KingsKnown
<1>3. WellTyped(r) /\ PiecesAgree(r) /\ Keyed(r, Top(r).legalEp)
  BY <1>1 DEF NullMade, Sound
<1> QED  BY <1>2, <1>3, MatchingKey DEF Kept, r

\* unmake_null takes back make_null.
LEMMA UnmakeNullUndoes ==
  ASSUME NEW b, Kept(b)
  PROVE  UnmakeNull(MakeNull(b)) = b
<1> DEFINE r == MakeNull(b)  v == Stacked(r, b.states)  w == Turned(v, b.turn)
<1>1. NullMade(r, b)
  BY NullStage
<1> HIDE DEF r
<1>2. /\ WellTyped(b) /\ Itself(b) /\ b.turn \in Colors /\ b.states \in Seq(PlyStates)
  BY Fields DEF Kept
<1>3. /\ WellTyped(r) /\ Itself(r) /\ r.states \in Seq(PlyStates) /\ SamePieces(r, b)
      /\ Above(r, b) /\ r.king = b.king /\ r.turn = Other(b.turn) /\ r.ply = b.ply
  BY <1>1, Fields DEF NullMade, Sound
<1>4. SubSeq(r.states, 1, Len(r.states) - 1) = b.states
  BY <1>2, <1>3, StackCut DEF Above
<1>5. PopPlyState(r) = v
  BY <1>4 DEF PopPlyState, Stacked
<1>6. Itself(v) /\ SamePieces(v, r) /\ v.states = b.states /\ v.king = r.king /\ v.turn = r.turn /\ v.ply = r.ply
  BY <1>3, StackedFields
<1>7. Other(v.turn) = b.turn
  BY <1>2, <1>3, <1>6 DEF Other, Colors, WHITE, BLACK
<1>8. UnmakeNull(r) = w
  BY <1>5, <1>7 DEF UnmakeNull, Turned
<1> HIDE DEF v
<1>9. Itself(w) /\ SamePieces(w, v) /\ w.states = v.states /\ w.king = v.king /\ w.turn = b.turn /\ w.ply = v.ply
  BY <1>6, TurnedFields
<1> HIDE DEF w
<1>10. SamePieces(w, b)
  BY <1>3, <1>6, <1>9, PiecesChain
<1>11. w = b
  BY <1>2, <1>3, <1>6, <1>9, <1>10, SameBoard DEF SameSide
<1> QED  BY <1>8, <1>11 DEF r


-----------------------------------------------------------------------------
(* The game: boards in a line, each made from the one before.              *)

Follows(y, x) == y = MakeNull(x) \/ \E m \in Playable(x) : y = Make(x, m)

\* h is the line of boards that ends at b: all are in order, the i-th has i
\* states, and each follows from the one before.
Line(h, b) ==
  LET n == Len(b.states) IN
  /\ n \in Nat \ {0} /\ h[n] = b
  /\ \A i \in 1 .. n : Kept(h[i]) /\ Len(h[i].states) = i
  /\ \A i \in 1 .. n - 1 : Follows(h[i + 1], h[i])

GameInv ==
  /\ bounds \in Starts
  /\ \E h : Line(h, board)

\* A game begins with a line of one board.
LEMMA GameBegins == Init => GameInv
<1> SUFFICES ASSUME Init PROVE GameInv
  OBVIOUS
<1>1. bounds \in Starts /\ Kept(board) /\ Len(board.states) = 1
  BY StartsAssumption DEF Init
<1> DEFINE h == [i \in {1} |-> board]
<1>2. Line(h, board)
  BY <1>1 DEF Line
<1> QED  BY <1>1, <1>2 DEF GameInv

\* A board made from the last one makes the line longer.
LEMMA Grown ==
  ASSUME NEW h, NEW b, Line(h, b), NEW r, Kept(r), Above(r, b), Follows(r, b)
  PROVE  \E g : Line(g, r) /\ \A i \in 1 .. Len(b.states) : g[i] = h[i]
<1> DEFINE n == Len(b.states)  g == [i \in 1 .. n + 1 |-> IF i = n + 1 THEN r ELSE h[i]]
<1>1. n \in Nat \ {0} /\ Len(r.states) = n + 1 /\ h[n] = b
  BY DEF Line, Above
<1>2. g[n + 1] = r /\ \A i \in 1 .. n : g[i] = h[i]
  BY <1>1
<1> HIDE DEF g
<1>3. \A i \in 1 .. n + 1 : Kept(g[i]) /\ Len(g[i].states) = i
  <2> TAKE i \in 1 .. n + 1
  <2>1. CASE i = n + 1
    BY <1>1, <1>2, <2>1
  <2>2. CASE i # n + 1
    <3>1. i \in 1 .. n
      BY <1>1, <2>2
    <3> QED  BY <1>2, <3>1 DEF Line
  <2> QED  BY <2>1, <2>2
<1>4. \A i \in 1 .. n : Follows(g[i + 1], g[i])
  <2> TAKE i \in 1 .. n
  <2>1. CASE i = n
    BY <1>1, <1>2, <2>1
  <2>2. CASE i # n
    <3>1. i \in 1 .. n - 1 /\ i + 1 \in 1 .. n
      BY <1>1, <2>2
    <3> QED  BY <1>2, <3>1 DEF Line
  <2> QED  BY <2>1, <2>2
<1>5. Line(g, r)
  <2> HIDE DEF n
  <2>1. n + 1 \in Nat \ {0} /\ (n + 1) - 1 = n
    BY <1>1
  <2> QED  BY <1>1, <1>2, <1>3, <1>4, <2>1 DEF Line
<1> QED  BY <1>2, <1>5

\* Taking back gives the board before the last of the line.
LEMMA TakenBack ==
  ASSUME NEW h, NEW b, Line(h, b), Len(b.states) - 1 > 0
  PROVE  LET x == h[Len(b.states) - 1] IN
         /\ Line(h, x)
         /\ (IF Top(b).move = NULL_MOVE THEN UnmakeNull(b) ELSE Unmake(b)) = x
<1> DEFINE n == Len(b.states)  x == h[n - 1]
<1>1. n \in Nat /\ n - 1 \in 1 .. n - 1 /\ n - 1 \in 1 .. n /\ (n - 1) + 1 = n /\ h[n] = b
  BY DEF Line
<1>2. Kept(x) /\ Len(x.states) = n - 1 /\ Follows(h[(n - 1) + 1], h[n - 1])
  BY <1>1 DEF Line
<1>3. Follows(b, x)
  BY <1>1, <1>2
<1>4. Line(h, x)
  <2> HIDE DEF n
  <2>1. \A i \in 1 .. n - 1 : Kept(h[i]) /\ Len(h[i].states) = i
    BY <1>1 DEF Line, n
  <2>2. \A i \in 1 .. (n - 1) - 1 : Follows(h[i + 1], h[i])
    BY <1>1 DEF Line, n
  <2> QED  BY <1>1, <1>2, <2>1, <2>2 DEF Line
<1> HIDE DEF x
<1>5. CASE b = MakeNull(x)
  <2>1. Top(b).move = NULL_MOVE
    BY <1>2, <1>5, NullStage DEF NullMade
  <2> QED  BY <1>2, <1>4, <1>5, <2>1, UnmakeNullUndoes DEF x
<1>6. CASE \E m \in Playable(x) : b = Make(x, m)
  <2>1. PICK m \in Playable(x) : b = Make(x, m)
    BY <1>6
  <2>2. Posed(x, m)
    BY <1>2, Posing DEF Playable, Kept
  <2>3. Top(b).move = m /\ m # NULL_MOVE
    BY <1>2, <2>1, <2>2, MadeStage DEF MadeOf, Posed, Arrives
  <2> QED  BY <1>2, <1>4, <2>1, <2>2, <2>3, UnmakeUndoes DEF x
<1> QED  BY <1>3, <1>5, <1>6 DEF Follows

\* Every step of a game keeps the line.
LEMMA GameSteps == GameInv /\ [Next]_vars => GameInv'
<1> SUFFICES ASSUME GameInv, [Next]_vars PROVE GameInv'
  OBVIOUS
<1>1. PICK h : Line(h, board)
  BY DEF GameInv
<1>2. Kept(board) /\ Len(board.states) \in Nat
  BY <1>1 DEF Line
<1>3. CASE MakeMove
  <2>1. PICK m \in Playable(board) : board' = Make(board, m)
    BY <1>3 DEF MakeMove
  <2>2. Posed(board, m)
    BY <1>2, Posing DEF Playable, Kept
  <2>3. Kept(board') /\ Above(board', board)
    BY <1>2, <2>1, <2>2, MakeKeeps, MadeStage DEF MadeOf
  <2>4. Follows(board', board)
    BY <2>1 DEF Follows
  <2>5. \E g : Line(g, board')
    BY <1>1, <2>3, <2>4, Grown
  <2> QED  BY <1>3, <2>5 DEF GameInv, MakeMove
<1>4. CASE MakeNullMove
  <2>1. board' = MakeNull(board)
    BY <1>4 DEF MakeNullMove
  <2>2. Kept(board') /\ Above(board', board)
    BY <1>2, <2>1, MakeNullKeeps, NullStage DEF NullMade
  <2>3. \E g : Line(g, board')
    BY <1>1, <2>1, <2>2, Grown DEF Follows
  <2> QED  BY <1>4, <2>3 DEF GameInv, MakeNullMove
<1>5. CASE TakeBack
  <2>1. Len(board.states) - 1 > 0
    BY <1>5 DEF TakeBack, Plies
  <2>2. board' = IF Top(board).move = NULL_MOVE THEN UnmakeNull(board) ELSE Unmake(board)
    BY <1>5 DEF TakeBack
  <2>3. Line(h, board')
    BY <1>1, <2>1, <2>2, TakenBack
  <2> QED  BY <1>5, <2>3 DEF GameInv, TakeBack
<1>6. CASE UNCHANGED vars
  BY <1>6 DEF GameInv, vars
<1> QED  BY <1>3, <1>4, <1>5, <1>6 DEF Next

\* However moves and null moves are made and taken back from a loaded
\* position, the board is well typed, its three copies of the pieces agree, the
\* kings are where their entries say, and the key it has kept is the one that
\* recompute_key finds (make, unmake, make_null, unmake_null).
THEOREM BoardStaysKept == Spec => [](TypeOK /\ Kept(board))
<1>1. GameInv => TypeOK /\ Kept(board)
  <2> SUFFICES ASSUME GameInv PROVE TypeOK /\ Kept(board)
    OBVIOUS
  <2>1. PICK h : Line(h, board)
    BY DEF GameInv
  <2>2. Kept(board)
    BY <2>1 DEF Line
  <2> QED  BY <2>2 DEF TypeOK, Kept
<1> QED  BY <1>1, GameBegins, GameSteps, PTL DEF Spec

\* In every position a game reaches, taking back any playable move, or the null
\* move outside check, gives the board that was there before, field by field and
\* with its whole history (unmake, unmake_null).
THEOREM MovesAreTakenBack == Spec => []UnmakeRestores
<1>1. TypeOK /\ Kept(board) => UnmakeRestores
  <2> SUFFICES ASSUME Kept(board) PROVE UnmakeRestores
    OBVIOUS
  <2>1. ASSUME NEW m \in Playable(board) PROVE Unmake(Make(board, m)) = board
    <3>1. Posed(board, m)
      BY Posing DEF Playable, Kept
    <3> QED  BY <3>1, UnmakeUndoes
  <2>2. UnmakeNull(MakeNull(board)) = board
    BY UnmakeNullUndoes
  <2> QED  BY <2>1, <2>2 DEF UnmakeRestores
<1> QED  BY <1>1, BoardStaysKept, PTL

-----------------------------------------------------------------------------
(* The clock, through the stages of make.                                  *)

\* x is a board, in whatever stage of make, whose clock shows k.
Ticking(x, k) ==
  /\ "states" \in DOMAIN x /\ x.states # << >> /\ \E S : x.states \in Seq(S)
  /\ "clock" \in DOMAIN Top(x) /\ Top(x).clock = k

\* Another state on top brings its own clock.
LEMMA TickTop ==
  ASSUME NEW x, NEW k, Ticking(x, k), NEW s, "clock" \in DOMAIN s
  PROVE  Ticking(WithTop(x, s), s.clock)
<1> DEFINE t == [x.states EXCEPT ![Len(x.states)] = s]  r == WithTop(x, s)
<1>1. PICK S : x.states \in Seq(S)
  BY DEF Ticking
<1>2. t \in Seq(S \union {s}) /\ t # << >> /\ Len(t) = Len(x.states) /\ t[Len(x.states)] = s
  <2>1. x.states \in Seq(S \union {s}) /\ x.states # << >>
    BY <1>1 DEF Ticking
  <2> QED  BY <2>1
<1>3. "states" \in DOMAIN r /\ r.states = t
  BY DEF Ticking, WithTop
<1> HIDE DEF t, r
<1>4. Top(r) = s
  BY <1>2, <1>3 DEF Top
<1> QED  BY <1>2, <1>3, <1>4 DEF Ticking, r

\* A change of the state on top that is not about the clock.
LEMMA TickOn ==
  ASSUME NEW x, NEW k, Ticking(x, k), NEW s, DOMAIN s = DOMAIN Top(x), s.clock = k
  PROVE  Ticking(WithTop(x, s), k)
BY TickTop DEF Ticking

\* Nor are a new key, new pieces, a new king or turn.
LEMMA TickRehash ==
  ASSUME NEW x, NEW k, Ticking(x, k), NEW h \in BOOLEAN, NEW f
  PROVE  Ticking(Rehash(x, h, f), k)
<1>1. CASE h
  <2> DEFINE s == [Top(x) EXCEPT !.zkey = Xor(@, f)]
  <2>1. DOMAIN s = DOMAIN Top(x) /\ s.clock = k
    BY DEF Ticking
  <2>2. Rehash(x, h, f) = WithTop(x, s)
    BY <1>1 DEF Rehash
  <2> HIDE DEF s
  <2> QED  BY <2>1, <2>2, TickOn
<1>2. CASE ~h
  BY <1>2 DEF Rehash
<1> QED  BY <1>1, <1>2

\* Whatever leaves the states alone leaves the clock alone.
LEMMA TickFields ==
  ASSUME NEW x, NEW k, Ticking(x, k), NEW y, DOMAIN y = DOMAIN x, y.states = x.states
  PROVE  Ticking(y, k)
BY SMTT(20) DEF Ticking, Top

\* Pieces that are put, taken and moved do not touch the clock.
LEMMA TickPieces ==
  ASSUME NEW x, NEW k, Ticking(x, k), NEW sq, NEW to, NEW c, NEW t, NEW h \in BOOLEAN
  PROVE  /\ Ticking(AddPiece(x, sq, c, t, h), k)
         /\ Ticking(RemovePiece(x, sq, c, t, h), k)
         /\ Ticking(MovePiece(x, sq, to, c, t, h), k)
<1>1. ASSUME NEW squares, NEW bb, NEW count, NEW terms, NEW f
      PROVE  /\ Ticking(Rehash(WithPieces(x, squares, bb, count, terms), h, f), k)
             /\ Ticking(Rehash(WithMoved(x, squares, bb, terms), h, f), k)
  <2>1. Ticking(WithPieces(x, squares, bb, count, terms), k)
    <3>1. /\ DOMAIN WithPieces(x, squares, bb, count, terms) = DOMAIN x
          /\ WithPieces(x, squares, bb, count, terms).states = x.states
      BY DEF WithPieces, Ticking
    <3> QED  BY <3>1, TickFields
  <2>2. Ticking(WithMoved(x, squares, bb, terms), k)
    <3>1. /\ DOMAIN WithMoved(x, squares, bb, terms) = DOMAIN x
          /\ WithMoved(x, squares, bb, terms).states = x.states
      BY DEF WithMoved, Ticking
    <3> QED  BY <3>1, TickFields
  <2> QED  BY <2>1, <2>2, TickRehash
<1> QED  BY <1>1 DEF AddPiece, RemovePiece, MovePiece, WithPieces, WithMoved

\* Lost castling rights do not touch it either.
LEMMA TickRights ==
  ASSUME NEW x, NEW k, Ticking(x, k), NEW rights
  PROVE  Ticking(ClearRights(x, rights), k)
<1> DEFINE held == Top(x).rights \intersect rights
           s == [Top(x) EXCEPT !.rights = @ \ held, !.zkey = Xor(@, HashCastle(held))]
<1>1. DOMAIN s = DOMAIN Top(x) /\ s.clock = k
  BY DEF Ticking
<1>2. ClearRights(x, rights) = WithTop(x, s)
  BY DEF ClearRights
<1> HIDE DEF s
<1> QED  BY <1>1, <1>2, TickOn

\* A capture and a pawn move set the clock back, other moves let it run.
Irreversible(b, m) == CapturedType(b, m) # NO_PIECETYPE \/ TypeOn(b, m.from) = PAWN

\* The state pushed counts one halfmove more, in a byte.
LEMMA TickPush ==
  ASSUME NEW b, WellTyped(b), NEW m
  PROVE  Ticking(PushPlyState(b, m), (Top(b).clock + 1) % 256)
<1> DEFINE s == [EmptyState EXCEPT !.zkey = Top(b).zkey, !.rights = Top(b).rights,
                                   !.clock = (Top(b).clock + 1) % 256, !.move = m]
           t == Append(b.states, s)  r == PushPlyState(b, m)
<1>1. "clock" \in DOMAIN s /\ s.clock = (Top(b).clock + 1) % 256
  BY DEF EmptyState
<1>2. r = [b EXCEPT !.states = t]
  BY DEF PushPlyState
<1> HIDE DEF s
<1>3. b.states \in Seq(PlyStates \union {s})
  BY Fields
<1>4. t \in Seq(PlyStates \union {s}) /\ t # << >> /\ t[Len(t)] = s
  BY <1>3
<1>5. "states" \in DOMAIN b
  BY DEF WellTyped
<1> HIDE DEF t, r
<1>6. "states" \in DOMAIN r /\ r.states = t
  BY <1>2, <1>5
<1> QED  BY <1>1, <1>4, <1>6 DEF Ticking, Top, r

\* A capture sets the clock back.
LEMMA TickCapture ==
  ASSUME NEW x, NEW k, Ticking(x, k), NEW m, NEW c, NEW captured
  PROVE  Ticking(Capture(x, m, c, captured), IF captured = NO_PIECETYPE THEN k ELSE 0)
<1> DEFINE at == IF m.type = MOVE_EP THEN EnpassantCaptured(m.to, Other(c)) ELSE m.to
           s == [Top(x) EXCEPT !.captured = captured, !.clock = 0]
           y == WithTop(x, s)  z == RemovePiece(y, at, c, captured, TRUE)
<1>1. "clock" \in DOMAIN s /\ s.clock = 0
  BY DEF Ticking
<1> HIDE DEF s
<1>2. Ticking(y, 0)
  BY <1>1, TickTop
<1> HIDE DEF y
<1>3. Ticking(z, 0)
  BY <1>2, TickPieces
<1>4. Ticking(ClearRookCastlingRight(z, c, at), 0)
  BY <1>3, TickRights DEF ClearRookCastlingRight
<1>5. Capture(x, m, c, captured) =
        IF captured = NO_PIECETYPE THEN x
        ELSE IF captured = ROOK THEN ClearRookCastlingRight(z, c, at) ELSE z
  BY DEF Capture, s, y
<1> QED  BY <1>3, <1>4, <1>5

\* So does a pawn move; what else follows a king, rook or pawn does not.
LEMMA TickAfter ==
  ASSUME NEW x, NEW k, Ticking(x, k), NEW m, NEW c, NEW t,
         m.type = MOVE_PROM => t = PAWN
  PROVE  Ticking(AfterMove(x, m, c, t), IF t = PAWN THEN 0 ELSE k)
<1> DEFINE s == [Top(x) EXCEPT !.clock = 0]  y == WithTop(x, s)
           u == [Top(y) EXCEPT !.ep = EnpassantTarget(m.to, c)]
           w == [x EXCEPT !.king[c] = m.to]
<1>1. "clock" \in DOMAIN s /\ s.clock = 0
  BY DEF Ticking
<1> HIDE DEF s
<1>2. Ticking(y, 0)
  BY <1>1, TickTop
<1> HIDE DEF y
<1>3. DOMAIN u = DOMAIN Top(y) /\ u.clock = 0
  BY <1>2 DEF Ticking
<1> HIDE DEF u
<1>4. Ticking(WithTop(y, u), 0)
  BY <1>2, <1>3, TickOn
<1>5. Ticking(AddPiece(RemovePiece(y, m.to, c, PAWN, TRUE), m.to, c, m.prom, TRUE), 0)
  <2>1. Ticking(RemovePiece(y, m.to, c, PAWN, TRUE), 0)
    BY <1>2, TickPieces
  <2> QED  BY <2>1, TickPieces
<1>6. Ticking(w, k)
  <2>1. DOMAIN w = DOMAIN x /\ w.states = x.states
    BY DEF Ticking
  <2> HIDE DEF w
  <2> QED  BY <2>1, TickFields
<1>7. Ticking(ClearCastlingRights(w, c), k) /\ Ticking(ClearRookCastlingRight(x, c, m.from), k)
  BY <1>6, TickRights DEF ClearCastlingRights, ClearRookCastlingRight
<1>8. PAWN # KING /\ PAWN # ROOK /\ KING # ROOK
  BY DEF PAWN, KING, ROOK
<1>9. CASE t = PAWN
  <2>1. AfterMove(x, m, c, t) \in {WithTop(y, u), AddPiece(RemovePiece(y, m.to, c, PAWN, TRUE), m.to, c, m.prom, TRUE), y}
    BY <1>8, <1>9 DEF AfterMove, s, y, u
  <2> QED  BY <1>2, <1>4, <1>5, <1>9, <2>1
<1>10. CASE t # PAWN
  <2>1. AfterMove(x, m, c, t) \in {ClearCastlingRights(w, c), ClearRookCastlingRight(x, c, m.from), x}
    BY <1>8, <1>10 DEF AfterMove
  <2> QED  BY <1>7, <1>10, <2>1
<1> QED  BY <1>9, <1>10

\* The cached checkers, blockers and target are not about the clock.
LEMMA TickCaches ==
  ASSUME NEW x, NEW k, Ticking(x, k)
  PROVE  Ticking(RefreshTacticalCache(x), k) /\ Ticking(RefreshLegalEnpassantTarget(x), k)
<1>1. ASSUME NEW checkers, NEW blockers
      PROVE  Ticking(WithTop(x, [Top(x) EXCEPT !.checkers = checkers, !.blockers = blockers]), k)
  <2>1. /\ DOMAIN [Top(x) EXCEPT !.checkers = checkers, !.blockers = blockers] = DOMAIN Top(x)
        /\ [Top(x) EXCEPT !.checkers = checkers, !.blockers = blockers].clock = k
    BY DEF Ticking
  <2> QED  BY <2>1, TickOn
<1>2. ASSUME NEW target
      PROVE  Ticking(WithTop(x, [Top(x) EXCEPT !.legalEp = target]), k)
  <2>1. /\ DOMAIN [Top(x) EXCEPT !.legalEp = target] = DOMAIN Top(x)
        /\ [Top(x) EXCEPT !.legalEp = target].clock = k
    BY DEF Ticking
  <2> QED  BY <2>1, TickOn
<1> QED  BY <1>1, <1>2 DEF RefreshTacticalCache, RefreshLegalEnpassantTarget

\* The clock make leaves: zero after a capture or pawn move, else one more.
LEMMA TickMake ==
  ASSUME NEW b, WellTyped(b), NEW m, m.type = MOVE_PROM => TypeOn(b, m.from) = PAWN
  PROVE  Top(Make(b, m)).clock = IF Irreversible(b, m) THEN 0 ELSE (Top(b).clock + 1) % 256
<1> DEFINE k == (Top(b).clock + 1) % 256
           n == IF CapturedType(b, m) = NO_PIECETYPE THEN k ELSE 0
           o == IF TypeOn(b, m.from) = PAWN THEN 0 ELSE n
<1>1. Ticking(Pushed(b, m), k)
  <2> DEFINE x == PushPlyState(b, m)  y == Numbered(x, x.ply + 1)
  <2>1. Ticking(x, k)
    BY TickPush
  <2> HIDE DEF x, k
  <2>2. DOMAIN y = DOMAIN x /\ y.states = x.states
    BY <2>1 DEF Numbered, Ticking
  <2>3. Ticking(y, k)
    BY <2>1, <2>2, TickFields
  <2> QED  BY <2>3 DEF Pushed, x
<1> HIDE DEF k
<1>2. Ticking(Captured(b, m), n)
  BY <1>1, TickCapture DEF Captured
<1>3. Ticking(Unkeyed(b, m), n)
  BY <1>2, TickRehash DEF Unkeyed
<1> HIDE DEF n
<1>4. Ticking(Carried(b, m), n)
  BY <1>3, TickPieces DEF Carried
<1>5. Ticking(Passed(b, m), n)
  BY <1>4, TickPieces DEF Passed, CastleRook
<1>6. Ticking(Settled(b, m), o)
  BY <1>5, TickAfter DEF Settled
<1> HIDE DEF o
<1>7. Ticking(Opposed(b, m), o)
  <2> DEFINE x == Settled(b, m)  y == Turned(x, Other(b.turn))
  <2>1. DOMAIN y = DOMAIN x /\ y.states = x.states
    BY <1>6 DEF Turned, Ticking
  <2> HIDE DEF x, y
  <2>2. Ticking(y, o)
    BY <1>6, <2>1, TickFields DEF x
  <2> QED  BY <2>2, TickRehash DEF Opposed, x, y
<1>8. Ticking(Make(b, m), o)
  <2>1. Ticking(RefreshTacticalCache(Opposed(b, m)), o)
    BY <1>7, TickCaches
  <2>2. Ticking(RefreshLegalEnpassantTarget(RefreshTacticalCache(Opposed(b, m))), o)
    BY <2>1, TickCaches
  <2>3. Ticking(KeyTarget(RefreshLegalEnpassantTarget(RefreshTacticalCache(Opposed(b, m)))), o)
    BY <2>2, TickRehash DEF KeyTarget
  <2> QED  BY <2>3, MakeStages
<1> QED  BY <1>8 DEF Ticking, Irreversible, k, n, o

\* The null move counts as a halfmove.
LEMMA TickMakeNull ==
  ASSUME NEW b, WellTyped(b)
  PROVE  Top(MakeNull(b)).clock = (Top(b).clock + 1) % 256
<1> DEFINE k == (Top(b).clock + 1) % 256  x == PushPlyState(b, NULL_MOVE)  y == Turned(x, Other(x.turn))
<1>1. Ticking(x, k)
  BY TickPush
<1> HIDE DEF x, k
<1>2. DOMAIN y = DOMAIN x /\ y.states = x.states
  BY <1>1 DEF Turned, Ticking
<1>3. MakeNull(b) = RefreshTacticalCache(Rehash(y, TRUE, Xor(HashTurn, EpKey(Top(b).legalEp))))
  BY DEF MakeNull, Turned, x
<1> HIDE DEF y
<1>4. Ticking(y, k)
  BY <1>1, <1>2, TickFields
<1>5. Ticking(Rehash(y, TRUE, Xor(HashTurn, EpKey(Top(b).legalEp))), k)
  BY <1>4, TickRehash
<1>6. Ticking(MakeNull(b), k)
  BY <1>3, <1>5, TickCaches
<1> QED  BY <1>6 DEF Ticking, k

-----------------------------------------------------------------------------
(* What is used up: pieces, and the squares ahead of the pawns.            *)

\* The squares on the ranks a pawn has not reached.
Ahead(sq, c) == {x \in Squares : RelativeRank(x, c) > RelativeRank(sq, c)}
\* A piece holds a token of its own, a pawn one more for each square ahead.
Tokens(sq, c, t) == {sq} \X ({INVALID} \union IF t = PAWN THEN Ahead(sq, c) ELSE {})
Hoard(squares) == UNION {Tokens(sq, squares[sq][1], squares[sq][2]) : sq \in DOMAIN squares}
Stock(squares) == Cardinality(Hoard(squares))
Weight(sq, c, t) == Cardinality(Tokens(sq, c, t))

\* A board has finitely many squares.
LEMMA SquaresFinite == IsFiniteSet(Squares) /\ IsFiniteSet(Squares \union {INVALID})
<1>1. IsFiniteSet(Squares)
  <2>1. 0 \in Int /\ 63 \in Int
    OBVIOUS
  <2>2. IsFiniteSet(0 .. 63)
    BY <2>1, FS_Interval
  <2> QED  BY <2>2 DEF Squares
<1> QED  BY <1>1, FS_AddElement

\* A piece holds finitely many tokens.
LEMMA TokensFinite ==
  ASSUME NEW sq \in Squares, NEW c, NEW t
  PROVE  IsFiniteSet(Tokens(sq, c, t)) /\ Weight(sq, c, t) \in Nat
<1>1. Tokens(sq, c, t) \subseteq Squares \X (Squares \union {INVALID})
  BY DEF Tokens, Ahead
<1>2. IsFiniteSet(Squares \X (Squares \union {INVALID}))
  BY SquaresFinite, FS_Product
<1>3. IsFiniteSet(Tokens(sq, c, t))
  BY <1>1, <1>2, FS_Subset
<1> QED  BY <1>3, FS_CardinalityType DEF Weight

\* So does a board.
LEMMA HoardFinite ==
  ASSUME NEW squares, DOMAIN squares \subseteq Squares
  PROVE  IsFiniteSet(Hoard(squares)) /\ Stock(squares) \in Nat
<1>1. Hoard(squares) \subseteq Squares \X (Squares \union {INVALID})
  BY DEF Hoard, Tokens, Ahead
<1>2. IsFiniteSet(Squares \X (Squares \union {INVALID}))
  BY SquaresFinite, FS_Product
<1>3. IsFiniteSet(Hoard(squares))
  BY <1>1, <1>2, FS_Subset
<1> QED  BY <1>3, FS_CardinalityType DEF Stock

\* Putting a piece on a free square adds its weight.
LEMMA StockPut ==
  ASSUME NEW squares, DOMAIN squares \subseteq Squares, NEW sq \in Squares, sq \notin DOMAIN squares,
         NEW c, NEW t
  PROVE  Stock(Put(squares, sq, c, t)) = Stock(squares) + Weight(sq, c, t)
<1> DEFINE p == Put(squares, sq, c, t)
<1>1. /\ DOMAIN p = DOMAIN squares \union {sq} /\ p[sq] = <<c, t>>
      /\ \A s \in DOMAIN squares : p[s] = squares[s]
  BY DEF Put
<1> HIDE DEF p
<1>2. Hoard(p) = Hoard(squares) \union Tokens(sq, c, t)
  BY <1>1 DEF Hoard
<1>3. Hoard(squares) \intersect Tokens(sq, c, t) = {}
  <2>1. \A x \in Hoard(squares) : x[1] \in DOMAIN squares
    BY DEF Hoard, Tokens
  <2>2. \A x \in Tokens(sq, c, t) : x[1] = sq
    BY DEF Tokens
  <2> QED  BY <2>1, <2>2
<1>4. IsFiniteSet(Hoard(squares)) /\ IsFiniteSet(Tokens(sq, c, t))
  BY HoardFinite, TokensFinite
<1>5. Cardinality(Hoard(p)) = Cardinality(Hoard(squares)) + Cardinality(Tokens(sq, c, t)) - Cardinality({})
  BY <1>2, <1>3, <1>4, FS_Union
<1>6. Cardinality({}) = 0
  BY FS_EmptySet
<1> QED  BY <1>5, <1>6, HoardFinite, TokensFinite DEF Stock, Weight, p

\* Taking a piece off its square takes its weight.
LEMMA StockDrop ==
  ASSUME NEW squares, Placed(squares), NEW sq \in DOMAIN squares, NEW c \in Colors, NEW t \in PieceTypes,
         squares[sq] = <<c, t>>
  PROVE  Stock(Drop(squares, sq)) = Stock(squares) - Weight(sq, c, t)
<1> DEFINE d == Drop(squares, sq)
<1>1. DOMAIN d = DOMAIN squares \ {sq} /\ sq \in Squares /\ DOMAIN d \subseteq Squares
  BY DEF Placed, Drop
<1>2. Put(d, sq, c, t) = squares
  BY <1>1, DropPut
<1> HIDE DEF d
<1>3. Stock(squares) = Stock(d) + Weight(sq, c, t)
  BY <1>1, <1>2, StockPut
<1>4. Stock(d) \in Nat /\ Weight(sq, c, t) \in Nat
  BY <1>1, HoardFinite, TokensFinite
<1> QED  BY <1>3, <1>4 DEF d

\* Any piece weighs something, and every kind but the pawn the same everywhere.
LEMMA Weights ==
  ASSUME NEW sq \in Squares, NEW c, NEW t
  PROVE  Weight(sq, c, t) >= 1 /\ (t # PAWN => Weight(sq, c, t) = 1)
<1> DEFINE own == {<<sq, INVALID>>}
<1>1. Cardinality(own) = 1 /\ IsFiniteSet(own)
  BY FS_Singleton
<1>2. own \subseteq Tokens(sq, c, t) /\ (t # PAWN => Tokens(sq, c, t) = own)
  BY DEF Tokens
<1> HIDE DEF own
<1>3. Cardinality(own) <= Cardinality(Tokens(sq, c, t))
  BY <1>2, TokensFinite, FS_Subset
<1> QED  BY <1>1, <1>2, <1>3, TokensFinite DEF Weight

\* A pawn that advances loses weight.
LEMMA PawnWeight ==
  ASSUME NEW from \in Squares, NEW to \in Squares, NEW c \in Colors, RelativeRank(to, c) > RelativeRank(from, c)
  PROVE  Weight(to, c, PAWN) < Weight(from, c, PAWN)
<1> DEFINE F == {INVALID} \union Ahead(from, c)  T == {INVALID} \union Ahead(to, c)
<1>1. \A x \in Squares : RelativeRank(x, c) \in Int
  BY DEF RelativeRank, Rank, Squares
<1>2. T \subseteq F /\ to \in F /\ to \notin T
  <2>1. to # INVALID
    BY DEF Squares, INVALID
  <2> QED  BY <1>1, <2>1 DEF Ahead
<1>3. IsFiniteSet(F) /\ IsFiniteSet(T)
  <2>1. F \subseteq Squares \union {INVALID} /\ T \subseteq Squares \union {INVALID}
    BY DEF Ahead
  <2> QED  BY <2>1, SquaresFinite, FS_Subset
<1>4. Tokens(from, c, PAWN) = {from} \X F /\ Tokens(to, c, PAWN) = {to} \X T
  BY DEF Tokens
<1> HIDE DEF F, T
<1>5. Cardinality(T) < Cardinality(F)
  <2>1. T \in SUBSET F /\ T # F
    BY <1>2
  <2>2. Cardinality(T) <= Cardinality(F) /\ Cardinality(F) # Cardinality(T)
    BY <1>3, <2>1, FS_Subset
  <2>3. Cardinality(F) \in Nat /\ Cardinality(T) \in Nat
    BY <1>3, FS_CardinalityType
  <2> QED  BY <2>2, <2>3
<1>6. /\ IsFiniteSet({from}) /\ IsFiniteSet({to}) /\ Cardinality({from}) = 1 /\ Cardinality({to}) = 1
      /\ Cardinality(F) \in Nat /\ Cardinality(T) \in Nat
  BY <1>3, FS_Singleton, FS_CardinalityType
<1>7. Cardinality({from} \X F) = Cardinality({from}) * Cardinality(F)
      /\ Cardinality({to} \X T) = Cardinality({to}) * Cardinality(T)
  BY <1>3, <1>6, FS_Product
<1> QED  BY <1>4, <1>5, <1>6, <1>7 DEF Weight

\* A pawn attacks on the next rank.
LEMMA AttackAdvances ==
  ASSUME NEW from \in Squares, NEW c \in Colors, NEW to \in PawnAttacks(from, c)
  PROVE  to \in Squares /\ RelativeRank(to, c) > RelativeRank(from, c)
<1>1. PICK delta \in {LEFT, RIGHT} : to \in PawnShift(delta, c, {from})
  BY DEF PawnAttacks, PawnAttackTable
<1>2. /\ to \in Squares /\ to = from + PawnStep(delta, c)
      /\ File(from) # IF (delta = LEFT) = (c = WHITE) THEN 0 ELSE 7
  BY <1>1 DEF PawnShift
<1>3. from \in 0..63 /\ to \in 0..63 /\ c \in {0, 1} /\ delta \in {7, 9}
  BY <1>2 DEF Squares, Colors, BLACK, WHITE, LEFT, RIGHT
<1>4. CASE c = 1
  <2>1. RelativeRank(from, c) = from \div 8 /\ RelativeRank(to, c) = to \div 8 /\ to = from + delta
    BY <1>2, <1>4 DEF RelativeRank, Rank, PawnStep, WHITE
  <2>2. (delta = 7 => from % 8 # 0) /\ (delta = 9 => from % 8 # 7)
    BY <1>2, <1>4 DEF File, LEFT, WHITE
  <2> QED  BY <1>2, <1>3, <2>1, <2>2
<1>5. CASE c = 0
  <2>1. RelativeRank(from, c) = 7 - (from \div 8) /\ RelativeRank(to, c) = 7 - (to \div 8) /\ to = from - delta
    BY <1>2, <1>3, <1>5 DEF RelativeRank, Rank, PawnStep, WHITE
  <2>2. (delta = 7 => from % 8 # 7) /\ (delta = 9 => from % 8 # 0)
    BY <1>2, <1>5 DEF File, LEFT, WHITE
  <2> QED  BY <1>2, <1>3, <2>1, <2>2
<1> QED  BY <1>3, <1>4, <1>5

\* A pawn step forward, single or double.
LEMMA StepAdvances ==
  ASSUME NEW from \in Squares, NEW to \in Squares, NEW c \in Colors,
         to - from = Forward(c) \/ to - from = 2 * Forward(c)
  PROVE  RelativeRank(to, c) > RelativeRank(from, c)
<1>1. from \in 0..63 /\ to \in 0..63 /\ c \in {0, 1}
  BY DEF Squares, Colors, BLACK, WHITE
<1>2. CASE c = 1
  <2>1. RelativeRank(from, c) = from \div 8 /\ RelativeRank(to, c) = to \div 8 /\ Forward(c) = 8
    BY <1>2 DEF RelativeRank, Rank, Forward, WHITE
  <2> QED  BY <1>1, <2>1
<1>3. CASE c = 0
  <2>1. RelativeRank(from, c) = 7 - (from \div 8) /\ RelativeRank(to, c) = 7 - (to \div 8) /\ Forward(c) = -8
    BY <1>3 DEF RelativeRank, Rank, Forward, WHITE
  <2> QED  BY <1>1, <2>1
<1> QED  BY <1>1, <1>2, <1>3

\* A pseudo-legal pawn move advances the pawn.
LEMMA PawnAdvances ==
  ASSUME NEW b, WellTyped(b), PiecesAgree(b), NEW m \in PseudoLegal(b), TypeOn(b, m.from) = PAWN
  PROVE  RelativeRank(m.to, b.turn) > RelativeRank(m.from, b.turn)
<1> DEFINE c == b.turn
<1>1. Arrives(b, m) /\ IsPseudoLegal(b, m)
  BY SourceSeen
<1>2. c \in Colors /\ m.from \in Squares /\ m.to \in Squares /\ m.type \in BASIC_MOVE..MOVE_CASTLE
  BY <1>1, Fields DEF Arrives, MoveShapes
<1>3. BASIC_MOVE # MOVE_PROM /\ BASIC_MOVE # MOVE_EP /\ BASIC_MOVE # MOVE_CASTLE
      /\ MOVE_PROM # MOVE_EP /\ MOVE_PROM # MOVE_CASTLE /\ MOVE_EP # MOVE_CASTLE /\ PAWN # KING
      /\ m.type \in {BASIC_MOVE, MOVE_PROM, MOVE_EP, MOVE_CASTLE}
  BY <1>2 DEF BASIC_MOVE, MOVE_PROM, MOVE_EP, MOVE_CASTLE, PAWN, KING
<1>4. PieceOn(b, m.from)[2] = PAWN
  BY DEF TypeOn
<1>5. CASE m.type = MOVE_PROM
  <2>1. RelativeRank(m.from, c) = 6 /\ RelativeRank(m.to, c) = 7
    BY <1>1, <1>3, <1>5 DEF IsPseudoLegal
  <2> QED  BY <2>1
<1>6. CASE m.type = MOVE_EP
  <2>1. m.to \in PawnAttacks(m.from, c)
    BY <1>1, <1>3, <1>6 DEF IsPseudoLegal
  <2> QED  BY <1>2, <2>1, AttackAdvances
<1>7. CASE m.type = BASIC_MOVE
  <2>1. PseudoLegalPawn(b, m)
    BY <1>1, <1>3, <1>4, <1>7 DEF IsPseudoLegal
  <2>2. m.to - m.from = Forward(c) \/ m.to - m.from = 2 * Forward(c) \/ m.to \in PawnAttacks(m.from, c)
    BY <2>1 DEF PseudoLegalPawn
  <2> QED  BY <1>2, <2>2, AttackAdvances, StepAdvances
<1>8. m.type # MOVE_CASTLE
  BY <1>1, <1>3, <1>4 DEF IsPseudoLegal
<1> QED  BY <1>3, <1>5, <1>6, <1>7, <1>8

\* Moving a piece to a free square changes the stock by what it weighs there.
LEMMA StockMove ==
  ASSUME NEW squares, Placed(squares), NEW from \in DOMAIN squares, NEW to \in Squares, to \notin DOMAIN squares,
         NEW c \in Colors, NEW t \in PieceTypes, squares[from] = <<c, t>>
  PROVE  Stock(Put(Drop(squares, from), to, c, t)) = Stock(squares) - Weight(from, c, t) + Weight(to, c, t)
<1> DEFINE d == Drop(squares, from)
<1>1. DOMAIN d \subseteq Squares /\ to \notin DOMAIN d
  BY DEF Placed, Drop
<1>2. Stock(d) = Stock(squares) - Weight(from, c, t)
  BY StockDrop
<1> HIDE DEF d
<1>3. Stock(Put(d, to, c, t)) = Stock(d) + Weight(to, c, t)
  BY <1>1, StockPut
<1> QED  BY <1>2, <1>3 DEF d

\* What the three operations on the pieces of an ordered board do to the stock.
LEMMA TakeStock ==
  ASSUME NEW b, Ordered(b), NEW sq \in Squares, NEW c \in Colors, NEW t \in PieceTypes, Stands(b, sq, c, t)
  PROVE  LET r == RemovePiece(b, sq, c, t, FALSE) IN
         /\ Stock(r.squares) = Stock(b.squares) - Weight(sq, c, t)
         /\ Stock(b.squares) \in Nat /\ Stock(r.squares) \in Nat /\ Weight(sq, c, t) \in Nat /\ Weight(sq, c, t) >= 1
         /\ Ordered(r) /\ sq \notin DOMAIN r.squares
<1> DEFINE r == RemovePiece(b, sq, c, t, FALSE)
<1>1. Ordered(r) /\ r.squares = Drop(b.squares, sq)
  BY QuietRemove
<1> HIDE DEF r
<1>2. sq \in DOMAIN b.squares /\ b.squares[sq] = <<c, t>>
  BY DEF Stands
<1>3. Placed(b.squares) /\ Placed(r.squares)
  BY <1>1, Fields DEF Ordered
<1>4. Stock(r.squares) = Stock(b.squares) - Weight(sq, c, t)
  BY <1>1, <1>2, <1>3, StockDrop
<1>5. Stock(b.squares) \in Nat /\ Stock(r.squares) \in Nat
  BY <1>3, HoardFinite DEF Placed
<1>6. sq \notin DOMAIN r.squares
  BY <1>1 DEF Drop
<1> QED  BY <1>1, <1>4, <1>5, <1>6, Weights, TokensFinite DEF r

\* The same for a piece that moves.
LEMMA MoveStock ==
  ASSUME NEW b, Ordered(b), NEW from \in Squares, NEW to \in Squares, NEW c \in Colors,
         NEW t \in PieceTypes, Stands(b, from, c, t), to \notin DOMAIN b.squares
  PROVE  LET r == MovePiece(b, from, to, c, t, FALSE) IN
         /\ Stock(r.squares) = Stock(b.squares) - Weight(from, c, t) + Weight(to, c, t)
         /\ Stock(b.squares) \in Nat /\ Stock(r.squares) \in Nat
         /\ Weight(from, c, t) \in Nat /\ Weight(to, c, t) \in Nat
         /\ t # PAWN => Weight(from, c, t) = Weight(to, c, t)
<1> DEFINE r == MovePiece(b, from, to, c, t, FALSE)
<1>1. Ordered(r) /\ r.squares = Put(Drop(b.squares, from), to, c, t)
  BY QuietMove
<1> HIDE DEF r
<1>2. from \in DOMAIN b.squares /\ b.squares[from] = <<c, t>>
  BY DEF Stands
<1>3. Placed(b.squares) /\ Placed(r.squares)
  BY <1>1, Fields DEF Ordered
<1>4. Stock(r.squares) = Stock(b.squares) - Weight(from, c, t) + Weight(to, c, t)
  BY <1>1, <1>2, <1>3, StockMove
<1>5. Stock(b.squares) \in Nat /\ Stock(r.squares) \in Nat
  BY <1>3, HoardFinite DEF Placed
<1>6. t # PAWN => Weight(from, c, t) = 1 /\ Weight(to, c, t) = 1
  BY Weights
<1>7. Weight(from, c, t) \in Nat /\ Weight(to, c, t) \in Nat
  BY TokensFinite
<1> QED  BY <1>4, <1>5, <1>6, <1>7 DEF r

\* The same for a piece that is put down.
LEMMA AddStock ==
  ASSUME NEW b, Ordered(b), NEW sq \in Squares, NEW c \in Colors, NEW t \in PieceTypes, sq \notin DOMAIN b.squares
  PROVE  LET r == AddPiece(b, sq, c, t, FALSE) IN
         /\ Stock(r.squares) = Stock(b.squares) + Weight(sq, c, t)
         /\ Stock(r.squares) \in Nat
         /\ t # PAWN => Weight(sq, c, t) = 1
<1> DEFINE r == AddPiece(b, sq, c, t, FALSE)
<1>1. Ordered(r) /\ r.squares = Put(b.squares, sq, c, t)
  BY QuietAdd
<1> HIDE DEF r
<1>2. Placed(b.squares) /\ Placed(r.squares)
  BY <1>1, Fields DEF Ordered
<1>3. Stock(r.squares) = Stock(b.squares) + Weight(sq, c, t)
  BY <1>1, <1>2, StockPut DEF Placed
<1>4. Stock(r.squares) \in Nat
  BY <1>2, HoardFinite DEF Placed
<1> QED  BY <1>3, <1>4, Weights DEF r

\* A move never adds to the stock, and one that cannot be reversed takes from it.
LEMMA MadeStock ==
  ASSUME NEW b, Kept(b), NEW m \in PseudoLegal(b)
  PROVE  LET r == Make(b, m) IN
         /\ Stock(b.squares) \in Nat /\ Stock(r.squares) \in Nat
         /\ Stock(r.squares) <= Stock(b.squares)
         /\ Irreversible(b, m) => Stock(r.squares) < Stock(b.squares)
<1> DEFINE c == b.turn  t == TypeOn(b, m.from)  k == CapturedType(b, m)  at == CaptureAt(b, m)
           x == Taken(b, m)  y == Arrived(b, m)  z == Castled(b, m)  w == Promoted(b, m)
           f == RookFrom(b, m)  g == RookTo(b, m)
<1>1. WellTyped(b) /\ PiecesAgree(b) /\ Ordered(b) /\ Posed(b, m)
  BY Posing DEF Kept, Ordered
<1>2. /\ c \in Colors /\ Other(c) \in Colors /\ t \in PieceTypes /\ m.from \in Squares /\ m.to \in Squares
      /\ ROOK \in PieceTypes /\ PAWN \in PieceTypes /\ Promotions \subseteq PieceTypes
      /\ ROOK # PAWN /\ PAWN \notin Promotions
  BY <1>1, Fields DEF Posed, Arrives, MoveShapes, Other, Colors, BLACK, WHITE, PieceTypes, PAWN, KING,
       Promotions, KNIGHT, BISHOP, ROOK, QUEEN
<1>3. /\ Ordered(x) /\ m.to \notin DOMAIN x.squares /\ Stands(x, m.from, c, t)
      /\ Ordered(y) /\ Stands(y, m.to, c, t)
      /\ m.type = MOVE_CASTLE => Stands(y, f, c, ROOK) /\ g \notin DOMAIN y.squares
      /\ Ordered(z) /\ Stands(z, m.to, c, t)
  BY <1>1, TakenTrack, ArrivedTrack, CastledTrack
<1>4. /\ Stock(b.squares) \in Nat /\ Stock(x.squares) \in Nat /\ Stock(x.squares) <= Stock(b.squares)
      /\ k # NO_PIECETYPE => Stock(x.squares) < Stock(b.squares)
  <2>1. CASE k = NO_PIECETYPE
    <3>1. x = b
      BY <2>1 DEF Taken
    <3>2. Placed(b.squares)
      BY <1>1, Fields
    <3>3. Stock(b.squares) \in Nat
      BY <3>2, HoardFinite DEF Placed
    <3> QED  BY <2>1, <3>1, <3>3
  <2>2. CASE k # NO_PIECETYPE
    <3>1. k \in PieceTypes /\ at \in Squares /\ Stands(b, at, Other(c), k)
      BY <1>1, <2>2 DEF Posed, Takes, PieceTypes, PAWN, KING, NO_PIECETYPE
    <3>2. x = RemovePiece(b, at, Other(c), k, FALSE)
      BY <2>2 DEF Taken
    <3>3. Other(c) \in Colors /\ Ordered(b)
      BY <1>1, <1>2
    <3> HIDE DEF x, k, at, c
    <3>4. \A d \in Colors : Stands(b, at, d, k) =>
            LET r == RemovePiece(b, at, d, k, FALSE) IN
            /\ Stock(r.squares) = Stock(b.squares) - Weight(at, d, k)
            /\ Stock(b.squares) \in Nat /\ Stock(r.squares) \in Nat /\ Weight(at, d, k) \in Nat /\ Weight(at, d, k) >= 1
      BY <3>1, <3>3, TakeStock
    <3>5. /\ Stock(x.squares) = Stock(b.squares) - Weight(at, Other(c), k)
          /\ Stock(b.squares) \in Nat /\ Stock(x.squares) \in Nat
          /\ Weight(at, Other(c), k) \in Nat /\ Weight(at, Other(c), k) >= 1
      BY <3>1, <3>2, <3>3, <3>4
    <3> QED  BY <3>5
  <2> QED  BY <2>1, <2>2
<1>5. Stock(y.squares) \in Nat /\ Stock(y.squares) <= Stock(x.squares) /\ (t = PAWN => Stock(y.squares) < Stock(x.squares))
  <2>1. y = MovePiece(x, m.from, m.to, c, t, FALSE)
    BY DEF Arrived
  <2>3. t = PAWN => RelativeRank(m.to, c) > RelativeRank(m.from, c)
    BY <1>1, PawnAdvances
  <2>4. c \in Colors /\ t \in PieceTypes /\ Ordered(x)
    BY <1>2, <1>3
  <2> HIDE DEF x, y, c, t
  <2>5. ASSUME NEW from \in Squares, NEW to \in Squares, Stands(x, from, c, t), to \notin DOMAIN x.squares
        PROVE  LET r == MovePiece(x, from, to, c, t, FALSE) IN
               /\ Stock(r.squares) = Stock(x.squares) - Weight(from, c, t) + Weight(to, c, t)
               /\ Stock(r.squares) \in Nat
               /\ Weight(from, c, t) \in Nat /\ Weight(to, c, t) \in Nat
               /\ t # PAWN => Weight(from, c, t) = Weight(to, c, t)
    BY <2>4, <2>5, MoveStock, ZenonT(60)
  <2>6. /\ Stock(y.squares) = Stock(x.squares) - Weight(m.from, c, t) + Weight(m.to, c, t)
        /\ Stock(y.squares) \in Nat /\ Weight(m.from, c, t) \in Nat /\ Weight(m.to, c, t) \in Nat
        /\ t # PAWN => Weight(m.from, c, t) = Weight(m.to, c, t)
    BY <1>2, <1>3, <2>1, <2>5
  <2>7. t = PAWN => Weight(m.to, c, t) < Weight(m.from, c, t)
    BY <1>2, <2>3, PawnWeight
  <2> QED  BY <1>4, <2>6, <2>7
<1>6. Stock(z.squares) = Stock(y.squares)
  <2>1. CASE m.type # MOVE_CASTLE
    BY <2>1 DEF Castled
  <2>2. CASE m.type = MOVE_CASTLE
    <3>1. z = MovePiece(y, f, g, c, ROOK, FALSE)
      BY <2>2 DEF Castled
    <3>2. f \in Squares /\ g \in Squares
      BY <1>1, <2>2 DEF Posed, Castles
    <3>3. Ordered(y) /\ Stands(y, f, c, ROOK) /\ g \notin DOMAIN y.squares /\ c \in Colors /\ ROOK \in PieceTypes /\ ROOK # PAWN
      BY <1>2, <1>3, <2>2
    <3> HIDE DEF y, z, f, g, c
    <3>4. /\ Stock(z.squares) = Stock(y.squares) - Weight(f, c, ROOK) + Weight(g, c, ROOK)
          /\ Weight(f, c, ROOK) \in Nat /\ Weight(f, c, ROOK) = Weight(g, c, ROOK)
      <4>1. ASSUME NEW from \in Squares, NEW to \in Squares, Stands(y, from, c, ROOK), to \notin DOMAIN y.squares
            PROVE  LET r == MovePiece(y, from, to, c, ROOK, FALSE) IN
                   /\ Stock(r.squares) = Stock(y.squares) - Weight(from, c, ROOK) + Weight(to, c, ROOK)
                   /\ Weight(from, c, ROOK) \in Nat /\ Weight(from, c, ROOK) = Weight(to, c, ROOK)
        BY <3>3, <4>1, MoveStock, ZenonT(60)
      <4> QED  BY <3>1, <3>2, <3>3, <4>1
    <3> QED  BY <1>5, <3>4
  <2> QED  BY <2>1, <2>2
<1>7. Stock(w.squares) \in Nat /\ Stock(w.squares) <= Stock(z.squares)
  <2>1. CASE m.type # MOVE_PROM
    BY <1>5, <1>6, <2>1 DEF Promoted
  <2>2. CASE m.type = MOVE_PROM
    <3> DEFINE v == RemovePiece(z, m.to, c, PAWN, FALSE)
    <3>1. t = PAWN /\ m.prom \in Promotions
      BY <1>1, <2>2 DEF Posed, Promotes
    <3>2. Ordered(z) /\ Stands(z, m.to, c, PAWN)
      BY <1>3, <3>1
    <3>3. w = AddPiece(v, m.to, c, m.prom, FALSE)
      BY <2>2 DEF Promoted
    <3>4. c \in Colors /\ PAWN \in PieceTypes /\ m.prom \in PieceTypes /\ m.prom # PAWN
      BY <1>2, <3>1
    <3> HIDE DEF z, w, c
    <3>5. \A sq \in Squares : Stands(z, sq, c, PAWN) =>
            LET r == RemovePiece(z, sq, c, PAWN, FALSE) IN
            /\ Stock(r.squares) = Stock(z.squares) - Weight(sq, c, PAWN)
            /\ Stock(r.squares) \in Nat /\ Weight(sq, c, PAWN) \in Nat /\ Weight(sq, c, PAWN) >= 1
            /\ Ordered(r) /\ sq \notin DOMAIN r.squares
      BY <3>2, <3>4, TakeStock
    <3>6. /\ Stock(v.squares) = Stock(z.squares) - Weight(m.to, c, PAWN)
          /\ Stock(v.squares) \in Nat /\ Weight(m.to, c, PAWN) \in Nat /\ Weight(m.to, c, PAWN) >= 1
          /\ Ordered(v) /\ m.to \notin DOMAIN v.squares
      BY <1>2, <3>2, <3>5
    <3> HIDE DEF v
    <3>7. \A sq \in Squares, u \in PieceTypes : sq \notin DOMAIN v.squares =>
            LET r == AddPiece(v, sq, c, u, FALSE) IN
            /\ Stock(r.squares) = Stock(v.squares) + Weight(sq, c, u)
            /\ Stock(r.squares) \in Nat
            /\ u # PAWN => Weight(sq, c, u) = 1
      BY <3>4, <3>6, AddStock
    <3>8. Stock(w.squares) = Stock(v.squares) + 1 /\ Stock(w.squares) \in Nat
      BY <1>2, <3>3, <3>4, <3>6, <3>7
    <3> QED  BY <1>5, <1>6, <3>6, <3>8
  <2> QED  BY <2>1, <2>2
<1>8. Make(b, m).squares = w.squares
  BY <1>1, MadeStage DEF MadeOf, SamePieces, Kept
<1> HIDE DEF x, y, z, w, k, t
<1> QED  BY <1>4, <1>5, <1>6, <1>7, <1>8 DEF Irreversible, k, t

-----------------------------------------------------------------------------
(* Draws by repetition.                                                    *)

\* Equal keys are of equal positions, with the same side to move.
LEMMA SameKey ==
  ASSUME NEW p, Placed(p), NEW q, Placed(q), NEW c \in Colors, NEW d \in Colors,
         NEW u, NEW v, NEW e, NEW f, KeyOf(p, c, u, e) = KeyOf(q, d, v, f)
  PROVE  p = q /\ c = d
<1>1. "piece" # "turn" /\ "piece" # "castle" /\ "piece" # "ep" /\ "turn" # "castle" /\ "turn" # "ep"
  OBVIOUS
<1>2. PieceKey(p) = PieceKey(q)
  <2>1. /\ PieceKey(p) = {x \in KeyOf(p, c, u, e) : Kind(x) = "piece"}
        /\ PieceKey(q) = {x \in KeyOf(q, d, v, f) : Kind(x) = "piece"}
    BY <1>1, Kinds DEF KeyOf, TurnKey
  <2> QED  BY <2>1
<1>3. TurnKey(c) = TurnKey(d)
  <2>1. /\ TurnKey(c) = {x \in KeyOf(p, c, u, e) : Kind(x) = "turn"}
        /\ TurnKey(d) = {x \in KeyOf(q, d, v, f) : Kind(x) = "turn"}
    BY <1>1, Kinds DEF KeyOf, TurnKey
  <2> QED  BY <2>1
<1>4. c = d
  BY <1>3 DEF TurnKey, HashTurn, Colors, BLACK, WHITE
<1>5. \A s, a, t : /\ <<"piece", a, t, s>> \in PieceKey(p) <=> s \in DOMAIN p /\ p[s][1] = a /\ p[s][2] = t
                   /\ <<"piece", a, t, s>> \in PieceKey(q) <=> s \in DOMAIN q /\ q[s][1] = a /\ q[s][2] = t
  BY DEF PieceKey, HashPiece
<1>6. \A s : (s \in DOMAIN p <=> s \in DOMAIN q) /\ (s \in DOMAIN p => p[s][1] = q[s][1] /\ p[s][2] = q[s][2])
  <2> TAKE s
  <2> DEFINE x == <<"piece", p[s][1], p[s][2], s>>  y == <<"piece", q[s][1], q[s][2], s>>
  <2>1. /\ x \in PieceKey(p) <=> s \in DOMAIN p
        /\ x \in PieceKey(q) <=> s \in DOMAIN q /\ q[s][1] = p[s][1] /\ q[s][2] = p[s][2]
    BY <1>5
  <2>2. /\ y \in PieceKey(q) <=> s \in DOMAIN q
        /\ y \in PieceKey(p) <=> s \in DOMAIN p /\ p[s][1] = q[s][1] /\ p[s][2] = q[s][2]
    BY <1>5
  <2> HIDE DEF x, y
  <2> QED  BY <1>2, <2>1, <2>2
<1>7. DOMAIN p = DOMAIN q /\ \A s \in DOMAIN p : p[s] = q[s]
  <2>1. \A s \in DOMAIN p : p[s] = <<p[s][1], p[s][2]>>
    BY DEF Placed
  <2>2. \A s \in DOMAIN q : q[s] = <<q[s][1], q[s][2]>>
    BY DEF Placed
  <2> QED  BY <1>6, <2>1, <2>2
<1>8. p = q
  BY <1>7 DEF Placed
<1> QED  BY <1>4, <1>8

\* What lies between a board and one n plies later: the turns alternate, the
\* stock never grows, and it has shrunk if the clock was set back.
Since(x, y, n) ==
  /\ y.turn = x.turn <=> n % 2 = 0
  /\ Stock(y.squares) <= Stock(x.squares)
  /\ n <= Top(y).clock \/ Stock(y.squares) < Stock(x.squares)

\* What the proofs below take from a board in order.
LEMMA KeptTypes ==
  ASSUME NEW b, Kept(b)
  PROVE  /\ WellTyped(b) /\ Placed(b.squares) /\ Stock(b.squares) \in Nat /\ b.turn \in Colors
         /\ Top(b).clock \in 0..255
         /\ Top(b).zkey = KeyOf(b.squares, b.turn, Top(b).rights, Top(b).legalEp)
<1>1. WellTyped(b) /\ Placed(b.squares) /\ b.turn \in Colors /\ Top(b) \in PlyStates
  BY Fields DEF Kept
<1>2. Stock(b.squares) \in Nat
  BY <1>1, HoardFinite DEF Placed
<1>3. Top(b).clock \in 0..255
  BY <1>1 DEF PlyStates
<1> QED  BY <1>1, <1>2, <1>3 DEF Kept, KeyMatches, RecomputeKey

\* No ply lies between a board and itself.
LEMMA SinceItself ==
  ASSUME NEW b, Kept(b)
  PROVE  Since(b, b, 0)
BY KeptTypes DEF Since

\* A step that does not wrap the clock carries this on.
LEMMA SinceStep ==
  ASSUME NEW x, Kept(x), NEW y, Kept(y), NEW n \in Nat, Since(x, y, n),
         NEW z, Kept(z), Follows(z, y), Top(y).clock < 255
  PROVE  Since(x, z, n + 1)
<1>1. /\ Stock(x.squares) \in Nat /\ Stock(y.squares) \in Nat /\ Stock(z.squares) \in Nat
      /\ x.turn \in Colors /\ y.turn \in Colors /\ Top(y).clock \in 0..255 /\ WellTyped(y)
  BY KeptTypes
<1>2. (Top(y).clock + 1) % 256 = Top(y).clock + 1
  BY <1>1
<1>3. /\ z.turn = Other(y.turn) /\ Stock(z.squares) <= Stock(y.squares)
      /\ Top(z).clock = Top(y).clock + 1 \/ Stock(z.squares) < Stock(y.squares)
  <2>1. CASE z = MakeNull(y)
    <3>1. z.turn = Other(y.turn) /\ z.squares = y.squares
      BY <2>1, NullStage DEF NullMade, SamePieces
    <3>2. Top(z).clock = Top(y).clock + 1
      BY <1>1, <1>2, <2>1, TickMakeNull
    <3> QED  BY <1>1, <3>1, <3>2
  <2>2. CASE \E m \in Playable(y) : z = Make(y, m)
    <3>1. PICK m \in Playable(y) : z = Make(y, m)
      BY <2>2
    <3>2. m \in PseudoLegal(y)
      BY DEF Playable
    <3>3. Posed(y, m)
      BY <3>2, Posing DEF Kept
    <3>4. z.turn = Other(y.turn)
      BY <3>1, <3>3, MadeStage DEF MadeOf
    <3>5. Stock(z.squares) <= Stock(y.squares) /\ (Irreversible(y, m) => Stock(z.squares) < Stock(y.squares))
      BY <3>1, <3>2, MadeStock
    <3>6. Top(z).clock = IF Irreversible(y, m) THEN 0 ELSE Top(y).clock + 1
      <4>1. m.type = MOVE_PROM => TypeOn(y, m.from) = PAWN
        BY <3>3 DEF Posed, Promotes
      <4> QED  BY <1>1, <1>2, <3>1, <4>1, TickMake
    <3> QED  BY <3>4, <3>5, <3>6
  <2> QED  BY <2>1, <2>2 DEF Follows
<1>4. z.turn = x.turn <=> (n + 1) % 2 = 0
  <2>1. z.turn = x.turn <=> y.turn # x.turn
    BY <1>1, <1>3 DEF Other, Colors, BLACK, WHITE
  <2>2. (n + 1) % 2 = 0 <=> n % 2 # 0
    OBVIOUS
  <2> QED  BY <2>1, <2>2 DEF Since
<1> QED  BY <1>1, <1>3, <1>4 DEF Since

\* Along a line of boards, which the states of each board record.
\* Every board of the line is after each one before it, and records its state.
Recorded(h, n) ==
  \A j \in 1 .. n : \A i \in 1 .. j : Since(h[i], h[j], j - i) /\ h[j].states[i] = Top(h[i])

DrawInv == bounds \in Starts /\ \E h : Line(h, board) /\ Recorded(h, Len(board.states))

\* The game stays below the largest clock, where the byte would wrap.
ClockFits == Top(board).clock < 255

\* The board made from the last one is recorded in its turn.
LEMMA RecordGrows ==
  ASSUME NEW h, NEW b, Line(h, b), Recorded(h, Len(b.states)), Top(b).clock < 255,
         NEW r, Kept(r), Above(r, b), Follows(r, b)
  PROVE  \E g : Line(g, r) /\ Recorded(g, Len(r.states))
<1> DEFINE n == Len(b.states)
<1>1. /\ n \in Nat \ {0} /\ h[n] = b /\ Len(r.states) = n + 1 /\ n \in 1 .. n
      /\ \A i \in 1 .. n : Kept(h[i]) /\ Len(h[i].states) = i
  BY DEF Line, Above
<1>2. PICK g : Line(g, r) /\ \A i \in 1 .. n : g[i] = h[i]
  BY Grown
<1>3. g[n + 1] = r
  BY <1>1, <1>2 DEF Line
<1>4. ASSUME NEW j \in 1 .. n + 1, NEW i \in 1 .. j
      PROVE  Since(g[i], g[j], j - i) /\ g[j].states[i] = Top(g[i])
  <2>1. CASE j # n + 1
    <3>1. j \in 1 .. n /\ i \in 1 .. n
      BY <1>1, <2>1
    <3> QED  BY <1>2, <3>1 DEF Recorded
  <2>2. CASE j = n + 1 /\ i = n + 1
    <3>1. Since(r, r, 0) /\ j - i = 0
      BY <1>1, <2>2, SinceItself
    <3>2. r.states[i] = Top(r)
      BY <1>1, <2>2 DEF Top
    <3> QED  BY <1>3, <2>2, <3>1, <3>2
  <2>3. CASE j = n + 1 /\ i # n + 1
    <3>1. i \in 1 .. n /\ n - i \in Nat /\ (n - i) + 1 = j - i
      BY <1>1, <2>3
    <3>2. Since(h[i], b, n - i) /\ b.states[i] = Top(h[i])
      BY <1>1, <3>1 DEF Recorded
    <3>3. Kept(h[i]) /\ Kept(b)
      BY <1>1, <3>1
    <3>4. Since(h[i], r, (n - i) + 1)
      BY <3>1, <3>2, <3>3, SinceStep
    <3>5. r.states[i] = b.states[i]
      BY <3>1 DEF Above
    <3> QED  BY <1>2, <1>3, <2>3, <3>1, <3>2, <3>4, <3>5
  <2> QED  BY <2>1, <2>2, <2>3
<1> QED  BY <1>1, <1>2, <1>4 DEF Recorded

\* A loaded board records itself.
LEMMA DrawBegins == Init => DrawInv
<1> SUFFICES ASSUME Init PROVE DrawInv
  OBVIOUS
<1>1. bounds \in Starts /\ Kept(board) /\ Len(board.states) = 1
  BY StartsAssumption DEF Init
<1> DEFINE h == [i \in {1} |-> board]
<1>2. h[1] = board
  OBVIOUS
<1> HIDE DEF h
<1>3. Line(h, board)
  BY <1>1, <1>2 DEF Line
<1>4. Since(board, board, 0) /\ board.states[1] = Top(board)
  BY <1>1, SinceItself DEF Top
<1>5. Recorded(h, 1)
  <2>1. \A j \in 1 .. 1 : \A i \in 1 .. j : i = 1 /\ j = 1 /\ j - i = 0
    OBVIOUS
  <2> QED  BY <1>2, <1>4, <2>1 DEF Recorded
<1> QED  BY <1>1, <1>3, <1>5 DEF DrawInv

\* Every step keeps the record, as long as the clock does not wrap.
LEMMA DrawSteps == DrawInv /\ ClockFits /\ [Next]_vars => DrawInv'
<1> SUFFICES ASSUME DrawInv, ClockFits, [Next]_vars PROVE DrawInv'
  OBVIOUS
<1>1. PICK h : Line(h, board) /\ Recorded(h, Len(board.states))
  BY DEF DrawInv
<1>2. Kept(board) /\ Len(board.states) \in Nat \ {0}
  BY <1>1 DEF Line
<1>3. ASSUME Kept(board'), Above(board', board), Follows(board', board)
      PROVE  \E g : Line(g, board') /\ Recorded(g, Len(board'.states))
  BY <1>1, <1>3, RecordGrows DEF ClockFits
<1>4. CASE MakeMove
  <2>1. PICK m \in Playable(board) : board' = Make(board, m)
    BY <1>4 DEF MakeMove
  <2>2. Posed(board, m)
    BY <1>2, Posing DEF Playable, Kept
  <2>3. Kept(board') /\ Above(board', board)
    BY <1>2, <2>1, <2>2, MakeKeeps, MadeStage DEF MadeOf
  <2>4. Follows(board', board)
    BY <2>1 DEF Follows
  <2> QED  BY <1>3, <1>4, <2>3, <2>4 DEF DrawInv, MakeMove
<1>5. CASE MakeNullMove
  <2>1. board' = MakeNull(board)
    BY <1>5 DEF MakeNullMove
  <2>2. Kept(board') /\ Above(board', board)
    BY <1>2, <2>1, MakeNullKeeps, NullStage DEF NullMade
  <2>3. Follows(board', board)
    BY <2>1 DEF Follows
  <2> QED  BY <1>3, <1>5, <2>2, <2>3 DEF DrawInv, MakeNullMove
<1>6. CASE TakeBack
  <2> DEFINE n == Len(board.states)  x == h[n - 1]
  <2>1. n - 1 > 0
    BY <1>6 DEF TakeBack, Plies
  <2>2. board' = IF Top(board).move = NULL_MOVE THEN UnmakeNull(board) ELSE Unmake(board)
    BY <1>6 DEF TakeBack
  <2>3. Line(h, board') /\ board' = x
    BY <1>1, <2>1, <2>2, TakenBack
  <2>4. Len(x.states) = n - 1
    BY <1>1, <1>2, <2>1 DEF Line
  <2>5. Recorded(h, n - 1)
    BY <1>1, <1>2 DEF Recorded
  <2> QED  BY <1>6, <2>3, <2>4, <2>5 DEF DrawInv, TakeBack
<1>7. CASE UNCHANGED vars
  BY <1>1, <1>7 DEF DrawInv, vars
<1> QED  BY <1>4, <1>5, <1>6, <1>7 DEF Next

\* An earlier state with the key of the board lies in the window and at an
\* even distance.
LEMMA RepeatsAreNear ==
  ASSUME DrawInv, NEW i \in 1 .. Len(board.states) - 1, board.states[i].zkey = Top(board).zkey
  PROVE  (Len(board.states) - i) % 2 = 0 /\ Len(board.states) - i <= Top(board).clock
<1> DEFINE n == Len(board.states)
<1>1. PICK h : Line(h, board) /\ Recorded(h, n)
  BY DEF DrawInv
<1>2. n \in Nat \ {0} /\ i \in 1 .. n /\ n \in 1 .. n /\ h[n] = board /\ Kept(h[i]) /\ Kept(board)
  BY <1>1 DEF Line
<1>3. Since(h[i], board, n - i) /\ board.states[i] = Top(h[i])
  BY <1>1, <1>2 DEF Recorded
<1>4. Top(h[i]).zkey = Top(board).zkey
  BY <1>3
<1> DEFINE x == h[i]
<1> HIDE DEF n, x
<1>5. /\ Placed(x.squares) /\ x.turn \in Colors
      /\ Top(x).zkey = KeyOf(x.squares, x.turn, Top(x).rights, Top(x).legalEp)
      /\ Placed(board.squares) /\ board.turn \in Colors /\ Stock(board.squares) \in Nat
      /\ Top(board).zkey = KeyOf(board.squares, board.turn, Top(board).rights, Top(board).legalEp)
  BY <1>2, KeptTypes DEF x
<1>6. x.squares = board.squares /\ x.turn = board.turn
  <2>1. KeyOf(x.squares, x.turn, Top(x).rights, Top(x).legalEp)
          = KeyOf(board.squares, board.turn, Top(board).rights, Top(board).legalEp)
    BY <1>4, <1>5 DEF x
  <2> QED  BY <1>5, <2>1, SameKey
<1>7. Since(x, board, n - i)
  BY <1>3 DEF x
<1>8. (n - i) % 2 = 0 /\ ~(Stock(board.squares) < Stock(x.squares))
  BY <1>5, <1>6, <1>7 DEF Since
<1> QED  BY <1>7, <1>8 DEF Since, n

\* The window finds the earlier states with the key of the board, and no more.
LEMMA DrawsMatch == DrawInv => DrawsMatchHistory
<1> SUFFICES ASSUME DrawInv PROVE DrawsMatchHistory
  OBVIOUS
<1> DEFINE n == Len(board.states)  clock == Top(board).clock
           window == IF clock < n - 1 THEN clock ELSE n - 1
           same == {back \in 2..window : back % 2 = 0 /\ board.states[n - back].zkey = Top(board).zkey}
           earlier == {i \in 1..(n - 1) : board.states[i].zkey = Top(board).zkey}
<1>1. n \in Nat \ {0} /\ clock \in 0..255
  <2>1. PICK h : Line(h, board)
    BY DEF DrawInv
  <2>2. Kept(board) /\ n \in Nat \ {0}
    BY <2>1 DEF Line
  <2> QED  BY <2>2, KeptTypes
<1>2. \A i \in earlier : n - i \in same
  <2> TAKE i \in earlier
  <2>1. i \in 1 .. n - 1 /\ (n - i) % 2 = 0 /\ n - i <= clock /\ board.states[i].zkey = Top(board).zkey
    BY RepeatsAreNear
  <2> HIDE DEF n, clock
  <2>2. n - i \in 2 .. window /\ n - (n - i) = i
    BY <1>1, <2>1
  <2> QED  BY <2>1, <2>2
<1>3. \A back \in same : n - back \in earlier /\ back \in Nat /\ back >= 2
  <2> HIDE DEF n, clock
  <2> QED  BY <1>1
<1>4. earlier \subseteq 1 .. n - 1
  OBVIOUS
<1>5. \A rootPly \in 0..Plies : (\E back \in same : back < rootPly) <=> \E i \in earlier : rootPly > 0 /\ i > n - rootPly
  <2> TAKE rootPly \in 0..Plies
  <2>1. rootPly \in Nat
    BY <1>1 DEF Plies
  <2> HIDE DEF same, earlier, n
  <2>2. ASSUME NEW back \in same, back < rootPly PROVE \E i \in earlier : rootPly > 0 /\ i > n - rootPly
    BY <1>1, <1>3, <2>1, <2>2
  <2>3. ASSUME NEW i \in earlier, i > n - rootPly PROVE \E back \in same : back < rootPly
    BY <1>1, <1>2, <1>4, <2>1, <2>3
  <2> QED  BY <2>2, <2>3
<1>6. Cardinality(same) = Cardinality(earlier)
  <2> HIDE DEF same, earlier, n
  <2>1. IsFiniteSet(earlier) /\ IsFiniteSet(same)
    <3>1. IsFiniteSet(1 .. n - 1) /\ IsFiniteSet(2 .. window)
      <4>1. 1 \in Int /\ 2 \in Int /\ n - 1 \in Int /\ window \in Int
        BY <1>1
      <4> QED  BY <4>1, FS_Interval
    <3>2. same \subseteq 2 .. window
      BY DEF same
    <3> QED  BY <1>4, <3>1, <3>2, FS_Subset
  <2>2. Cardinality(earlier) \in Nat /\ Cardinality(same) \in Nat
    BY <2>1, FS_CardinalityType
  <2>3. ~(Cardinality(same) < Cardinality(earlier))
    <3> DEFINE f == [i \in earlier |-> n - i]
    <3>1. f \in [earlier -> same] /\ \A i, j \in earlier : f[i] = f[j] => i = j
      BY <1>1, <1>2, <1>4
    <3> HIDE DEF f
    <3> QED  BY <2>1, <3>1, FS_PigeonHole
  <2>4. ~(Cardinality(earlier) < Cardinality(same))
    <3> DEFINE f == [back \in same |-> n - back]
    <3>1. f \in [same -> earlier] /\ \A i, j \in same : f[i] = f[j] => i = j
      BY <1>1, <1>3
    <3> HIDE DEF f
    <3> QED  BY <2>1, <3>1, FS_PigeonHole
  <2> QED  BY <2>2, <2>3, <2>4
<1>7. \A rootPly \in 0..Plies : IsDraw(board, rootPly) <=>
        clock >= FiftyMoveHalfmoves \/ (\E back \in same : back < rootPly) \/ Cardinality(same) >= 2
  BY DEF IsDraw, FiftyMoves
<1> QED  BY <1>5, <1>6, <1>7 DEF DrawsMatchHistory

\* As long as the clock does not wrap, the draw test is right about every game,
\* however long, with any take-backs and null moves: it finds each repetition
\* although it looks only at every second state back to the last capture or pawn
\* move, since what is used up by those never comes back (is_draw, make).
THEOREM DrawsStayExact == Spec /\ []ClockFits => []DrawsMatchHistory
<1>1. Spec /\ []ClockFits => []DrawInv
  BY DrawBegins, DrawSteps, PTL DEF Spec
<1> QED  BY <1>1, DrawsMatch, PTL

\* And then the finding of the clock cannot happen: a game drawn by the fifty
\* moves stays drawn until a pawn moves or a piece is taken (make, is_draw).
THEOREM FiftyMovesStandBelowWrap == Spec /\ []ClockFits => FiftyMovesStand
<1>1. ASSUME DrawInv, ClockFits, [Next]_vars, Len(board'.states) > Len(board.states),
             Top(board).clock >= FiftyMoveHalfmoves,
             TypeOn(board, Top(board').move.from) # PAWN, Top(board').captured = NO_PIECETYPE
      PROVE  IsDraw(board', 0)
  <2>1. Kept(board) /\ WellTyped(board) /\ Top(board).clock \in 0..255 /\ Len(board.states) \in Nat \ {0}
    <3>1. PICK h : Line(h, board)
      BY <1>1 DEF DrawInv
    <3>2. Kept(board) /\ Len(board.states) \in Nat \ {0}
      BY <3>1 DEF Line
    <3> QED  BY <3>2, KeptTypes
  <2>2. (Top(board).clock + 1) % 256 = Top(board).clock + 1
    <3>1. Top(board).clock < 255 /\ Top(board).clock \in 0..255
      BY <1>1, <2>1 DEF ClockFits
    <3> QED  BY <3>1
  <2>3. Top(board').clock = Top(board).clock + 1
    <3>1. CASE MakeMove
      <4>1. PICK m \in Playable(board) : board' = Make(board, m)
        BY <3>1 DEF MakeMove
      <4>2. Posed(board, m)
        BY <2>1, Posing DEF Playable, Kept
      <4>3. Top(board').move = m /\ Top(board').captured = CapturedType(board, m)
        BY <2>1, <4>1, <4>2, MadeStage DEF MadeOf
      <4>4. ~Irreversible(board, m)
        BY <1>1, <4>3 DEF Irreversible
      <4>5. m.type = MOVE_PROM => TypeOn(board, m.from) = PAWN
        BY <4>2 DEF Posed, Promotes
      <4> QED  BY <2>1, <2>2, <4>1, <4>4, <4>5, TickMake
    <3>2. CASE MakeNullMove
      <4>1. board' = MakeNull(board)
        BY <3>2 DEF MakeNullMove
      <4> QED  BY <2>1, <2>2, <4>1, TickMakeNull
    <3>3. CASE TakeBack
      <4>1. board' = IF Top(board).move = NULL_MOVE THEN UnmakeNull(board) ELSE Unmake(board)
        BY <3>3 DEF TakeBack
      <4>2. Len(board.states) - 1 > 0
        BY <3>3 DEF TakeBack, Plies
      <4>3. PICK h : Line(h, board)
        BY <1>1 DEF DrawInv
      <4> DEFINE n == Len(board.states)  x == h[n - 1]
      <4>4. Line(h, board') /\ board' = x
        BY <4>1, <4>2, <4>3, TakenBack
      <4>5. Len(x.states) = n - 1
        BY <2>1, <4>2, <4>3 DEF Line
      <4> QED  BY <1>1, <2>1, <4>4, <4>5
    <3>4. CASE UNCHANGED vars
      BY <1>1, <2>1, <3>4 DEF vars
    <3> QED  BY <1>1, <3>1, <3>2, <3>3, <3>4 DEF Next
  <2>4. Top(board').clock >= FiftyMoveHalfmoves
    <3>1. Top(board).clock >= 100 /\ Top(board).clock \in 0..255
      BY <1>1, <2>1 DEF FiftyMoveHalfmoves
    <3> QED  BY <2>3, <3>1 DEF FiftyMoveHalfmoves
  <2> QED  BY <2>4 DEF IsDraw, FiftyMoves
<1>2. Spec /\ []ClockFits => []DrawInv
  BY DrawBegins, DrawSteps, PTL DEF Spec
<1> QED  BY <1>1, <1>2, PTL DEF Spec, FiftyMovesStand
=============================================================================
