----------------------------- MODULE RingProofs -----------------------------
(***************************************************************************)
(* RamRing keeps its books and is a bounded FIFO, for every size of the     *)
(* ring, every number of values of a byte and all inputs.                   *)
(*                                                                         *)
(* The invariant says that the ring has a layout: offsets from read_pos at  *)
(* which the items of some sequence start, each where the one before ends,  *)
(* and write_pos at the end of the last.  Every operation takes a layout of *)
(* a sequence to one of the sequence BoundedFifo makes of it.               *)
(***************************************************************************)
EXTENDS RamRing, MinLemma, SequenceTheorems, TLAPS

Piece == [len: 0 .. MaxLen, data: Seq(Byte)]

RingType == [buf: [Cells -> Byte], read_pos: Cells, write_pos: Cells,
             used: 0 .. N, item_count: Nat]

\* The item that starts off cells behind read_pos.
ItemAt(r, off) == [len |-> LenAt(r.buf, Ahead(r.read_pos, off)),
                   data |-> DataAt(r.buf, Ahead(r.read_pos, off))]

Layout(r, s, off) ==
  /\ r \in RingType /\ s \in Seq(Piece)
  /\ off \in [0 .. Len(s) -> 0 .. N]
  /\ off[0] = 0 /\ off[Len(s)] = r.used
  /\ \A k \in 1 .. Len(s): off[k] = off[k - 1] + B!Cost(s[k]) /\ s[k] = ItemAt(r, off[k - 1])
  /\ r.item_count = Len(s)
  /\ r.write_pos = Ahead(r.read_pos, r.used)

Holds(r, s) == \E off: Layout(r, s, off)

RingInv == \E s: Holds(ring, s)

-----------------------------------------------------------------------------
(* Cells *)

LEMMA AheadIs ==
  ASSUME NEW c \in Cells, NEW n \in 0 .. N
  PROVE  /\ Ahead(c, n) \in Cells
         /\ Ahead(c, n) = IF c + n < N THEN c + n ELSE c + n - N
<1> DEFINE x == c + n
<1>1. x \in 0 .. 2 * N - 1 /\ N \in Nat \ {0}
  BY NAssumption DEF Cells
<1>2. x % N = IF x < N THEN x ELSE x - N
  <2> HIDE DEF x
  <2>1. QED  BY <1>1, Wrap
<1>3. QED  BY <1>1, <1>2 DEF Ahead, Cells

LEMMA AheadTwice ==
  ASSUME NEW c \in Cells, NEW m \in Nat, NEW n \in Nat, m + n <= N
  PROVE  Ahead(Ahead(c, m), n) = Ahead(c, m + n)
<1>1. m \in 0 .. N /\ n \in 0 .. N /\ m + n \in 0 .. N
  BY NAssumption
<1>2. Ahead(c, m) \in Cells
  BY <1>1, AheadIs
<1> DEFINE d == Ahead(c, m)
<1>3. d = IF c + m < N THEN c + m ELSE c + m - N
  BY <1>1, AheadIs
<1>4. Ahead(d, n) = IF d + n < N THEN d + n ELSE d + n - N
  BY <1>1, <1>2, AheadIs
<1>5. Ahead(c, m + n) = IF c + (m + n) < N THEN c + (m + n) ELSE c + (m + n) - N
  BY <1>1, AheadIs
<1>6. d \in 0 .. N - 1 /\ c \in 0 .. N - 1 /\ N \in Nat
  BY <1>2, NAssumption DEF Cells
<1> DEFINE e == Ahead(d, n)
           f == Ahead(c, m + n)
<1>7. e = (IF d + n < N THEN d + n ELSE d + n - N)
      /\ f = (IF c + (m + n) < N THEN c + (m + n) ELSE c + (m + n) - N)
  BY <1>4, <1>5
<1> HIDE DEF d, e, f
<1>8. e = f
  BY <1>3, <1>6, <1>7
<1>9. QED  BY <1>8 DEF d, e, f

LEMMA AheadNone ==
  ASSUME NEW c \in Cells
  PROVE  Ahead(c, 0) = c
BY AheadIs, NAssumption DEF Cells

\* How far a cell is behind another one: what write_raw asks of each cell.
Place(c, w) == (c - w + N) % N

LEMMA PlaceIs ==
  ASSUME NEW c \in Cells, NEW w \in Cells
  PROVE  Place(c, w) = IF c < w THEN c - w + N ELSE c - w
<1> DEFINE x == c - w + N
<1>1. x \in 0 .. 2 * N - 1 /\ N \in Nat \ {0}
  BY NAssumption DEF Cells
<1>2. x % N = IF x < N THEN x ELSE x - N
  <2> HIDE DEF x
  <2>1. QED  BY <1>1, Wrap
<1>3. QED  BY <1>1, <1>2 DEF Place, Cells

\* The cells from the write position on, and those before it.
LEMMA Places ==
  ASSUME NEW c \in Cells, NEW u \in 0 .. N, NEW w, w = Ahead(c, u)
  PROVE  /\ \A i \in 0 .. N - 1: Place(Ahead(w, i), w) = i
         /\ \A j \in 0 .. u - 1: Place(Ahead(c, j), w) = N - u + j
<1>1. w \in Cells
  BY AheadIs
<1>2. ASSUME NEW i \in 0 .. N - 1
      PROVE  Place(Ahead(w, i), w) = i
  <2>1. i \in 0 .. N
    BY NAssumption
  <2>2. Ahead(w, i) \in Cells /\ Ahead(w, i) = IF w + i < N THEN w + i ELSE w + i - N
    BY <1>1, <2>1, AheadIs
  <2>3. QED  BY <1>1, <2>2, PlaceIs, NAssumption DEF Cells
<1>3. ASSUME NEW j \in 0 .. u - 1
      PROVE  Place(Ahead(c, j), w) = N - u + j
  <2>1. j \in 0 .. N /\ u \in Nat /\ u <= N
    BY NAssumption
  <2>2. Ahead(c, j) \in Cells /\ Ahead(c, j) = IF c + j < N THEN c + j ELSE c + j - N
    BY <2>1, AheadIs
  <2>3. w = IF c + u < N THEN c + u ELSE c + u - N
    BY AheadIs
  <2>4. QED  BY <1>1, <2>1, <2>2, <2>3, PlaceIs, NAssumption DEF Cells
<1>4. QED  BY <1>2, <1>3

\* Two bytes are enough for the length of an item, low byte first.
LEMMA LengthBytes ==
  ASSUME NEW n \in 0 .. MaxLen
  PROVE  /\ n % ByteBase \in Byte /\ (n \div ByteBase) % ByteBase \in Byte
         /\ (n % ByteBase) + ByteBase * ((n \div ByteBase) % ByteBase) = n
<1> DEFINE q == n \div ByteBase
           m == n % ByteBase
<1>1. ByteBase \in Nat /\ ByteBase >= 2 /\ n \in Nat /\ n < ByteBase * ByteBase
  BY ByteBaseAssumption DEF MaxLen
<1>2. q \in Int /\ m \in 0 .. ByteBase - 1 /\ n = ByteBase * q + m
  BY <1>1
<1> HIDE DEF q, m
<1>3. q >= 0 /\ q < ByteBase
  <2>1. CASE q < 0
    <3>1. ByteBase * q <= - ByteBase
      BY <1>1, <1>2, <2>1
    <3>2. QED  BY <1>1, <1>2, <3>1
  <2>2. CASE q >= ByteBase
    <3>1. ByteBase * q >= ByteBase * ByteBase
      BY <1>1, <1>2, <2>2
    <3>2. QED  BY <1>1, <1>2, <3>1
  <2>3. QED  BY <1>1, <1>2, <2>1, <2>2
<1>4. q % ByteBase = q
  BY <1>1, <1>2, <1>3
<1>5. QED  BY <1>1, <1>2, <1>3, <1>4 DEF q, m, Byte

-----------------------------------------------------------------------------
(* Layouts *)

LEMMA MaxLenType == MaxLen \in Nat
<1>1. ByteBase \in Nat /\ ByteBase >= 2
  BY ByteBaseAssumption
<1>2. ByteBase * ByteBase \in Nat /\ ByteBase * ByteBase >= 1
  BY <1>1
<1>3. QED  BY <1>2 DEF MaxLen

\* What the parts of a layout are.
LEMMA LayoutFacts ==
  ASSUME NEW r, NEW s, NEW off, Layout(r, s, off)
  PROVE  /\ Len(s) \in Nat /\ DOMAIN s = 1 .. Len(s)
         /\ \A k \in 1 .. Len(s):
              /\ s[k] \in Piece /\ s[k].len \in Nat /\ B!Cost(s[k]) = 2 + s[k].len
              /\ off[k - 1] \in 0 .. N /\ off[k] \in 0 .. N
              /\ off[k] = off[k - 1] + 2 + s[k].len
              /\ s[k].len = LenAt(r.buf, Ahead(r.read_pos, off[k - 1]))
              /\ s[k].data = DataAt(r.buf, Ahead(r.read_pos, off[k - 1]))
         /\ \A k \in 0 .. Len(s): off[k] \in 0 .. N
         /\ r.buf \in [Cells -> Byte] /\ r.read_pos \in Cells /\ r.write_pos \in Cells
         /\ r.used \in 0 .. N
<1>1. /\ r \in RingType /\ s \in Seq(Piece)
      /\ off \in [0 .. Len(s) -> 0 .. N]
      /\ \A k \in 1 .. Len(s): off[k] = off[k - 1] + B!Cost(s[k]) /\ s[k] = ItemAt(r, off[k - 1])
  BY DEF Layout
<1>2. MaxLen \in Nat
  BY MaxLenType
<1>3. ASSUME NEW k \in 1 .. Len(s)
      PROVE  /\ s[k] \in Piece /\ s[k].len \in Nat /\ B!Cost(s[k]) = 2 + s[k].len
             /\ off[k - 1] \in 0 .. N /\ off[k] \in 0 .. N
             /\ off[k] = off[k - 1] + 2 + s[k].len
             /\ s[k].len = LenAt(r.buf, Ahead(r.read_pos, off[k - 1]))
             /\ s[k].data = DataAt(r.buf, Ahead(r.read_pos, off[k - 1]))
  <2>1. s[k] \in Piece /\ k \in 0 .. Len(s) /\ k - 1 \in 0 .. Len(s)
    BY <1>1
  <2>2. s[k].len \in Nat
    BY <1>2, <2>1 DEF Piece
  <2>3. off[k] \in 0 .. N /\ off[k - 1] \in 0 .. N /\ N \in Nat
    BY <1>1, <2>1, NAssumption
  <2>4. B!Cost(s[k]) = 2 + s[k].len
    BY DEF B!Cost
  <2>5. off[k] = off[k - 1] + B!Cost(s[k])
    BY <1>1
  <2>6. off[k] = off[k - 1] + 2 + s[k].len
    BY <2>2, <2>3, <2>4, <2>5, SMTT(30)
  <2>7. s[k].len = ItemAt(r, off[k - 1]).len /\ s[k].data = ItemAt(r, off[k - 1]).data
    BY <1>1
  <2>8. QED  BY <2>1, <2>2, <2>3, <2>4, <2>6, <2>7 DEF ItemAt
<1>4. /\ r.buf \in [Cells -> Byte] /\ r.read_pos \in Cells /\ r.write_pos \in Cells
      /\ r.used \in 0 .. N
  BY <1>1 DEF RingType
<1>5. Len(s) \in Nat /\ DOMAIN s = 1 .. Len(s) /\ \A k \in 0 .. Len(s): off[k] \in 0 .. N
  BY <1>1
<1>6. QED  BY <1>3, <1>4, <1>5

\* Items lie one behind the other, below the write position.
LEMMA OffsetsRise ==
  ASSUME NEW r, NEW s, NEW off, Layout(r, s, off)
  PROVE  \A k \in 0 .. Len(s): off[k] >= 2 * k /\ off[k] + 2 * (Len(s) - k) <= r.used
<1> DEFINE n == Len(s)
<1>1. /\ n \in Nat /\ off[0] = 0 /\ off[n] = r.used
      /\ \A k \in 0 .. n: off[k] \in Int
      /\ \A k \in 1 .. n: off[k] >= off[k - 1] + 2
  <2>1. /\ n \in Nat /\ off[0] = 0 /\ off[n] = r.used
        /\ \A k \in 0 .. n: off[k] \in 0 .. N
    BY LayoutFacts DEF Layout
  <2>2. ASSUME NEW k \in 1 .. n
        PROVE  off[k] >= off[k - 1] + 2
    <3>1. /\ off[k] = off[k - 1] + 2 + s[k].len /\ s[k].len \in Nat
          /\ off[k - 1] \in 0 .. N
      BY LayoutFacts
    <3>2. QED  BY <3>1, NAssumption
  <2>3. QED  BY <2>1, <2>2, NAssumption
<1> DEFINE S == {k \in 0 .. n: off[k] >= 2 * k}
           T == {k \in 0 .. n: off[n - k] + 2 * k <= r.used}
<1> HIDE DEF n
<1>2. 0 .. n \subseteq S
  <2>1. 0 \in S
    BY <1>1
  <2>2. \A k \in 0 .. n - 1: k \in S => k + 1 \in S
    <3>1. SUFFICES ASSUME NEW k \in 0 .. n - 1, off[k] >= 2 * k
                   PROVE  off[k + 1] >= 2 * (k + 1)
      BY <1>1
    <3>2. k + 1 \in 1 .. n /\ (k + 1) - 1 = k /\ off[k] \in Int /\ off[k + 1] \in Int
      BY <1>1
    <3>3. off[k + 1] >= off[k] + 2
      BY <1>1, <3>2
    <3>4. QED  BY <3>1, <3>2, <3>3
  <2> HIDE DEF S
  <2>3. QED  BY <1>1, <2>1, <2>2, UpTo
<1>3. 0 .. n \subseteq T
  <2>1. 0 \in T
    <3>1. n - 0 = n
      BY <1>1
    <3>2. QED  BY <1>1, <3>1
  <2>2. \A k \in 0 .. n - 1: k \in T => k + 1 \in T
    <3>1. SUFFICES ASSUME NEW k \in 0 .. n - 1, off[n - k] + 2 * k <= r.used
                   PROVE  off[n - (k + 1)] + 2 * (k + 1) <= r.used
      BY <1>1
    <3>2. n - k \in 1 .. n /\ (n - k) - 1 = n - (k + 1) /\ off[n - k] \in Int
          /\ off[n - (k + 1)] \in Int /\ r.used \in Int
      BY <1>1
    <3>3. off[n - k] >= off[n - (k + 1)] + 2
      BY <1>1, <3>2
    <3>4. QED  BY <3>1, <3>2, <3>3
  <2> HIDE DEF T
  <2>3. QED  BY <1>1, <2>1, <2>2, UpTo
<1>4. SUFFICES ASSUME NEW k \in 0 .. n
               PROVE  off[k] >= 2 * k /\ off[k] + 2 * (n - k) <= r.used
  BY DEF n
<1>5. n - k \in 0 .. n /\ n - (n - k) = k
  BY <1>1
<1>6. k \in S /\ n - k \in T
  BY <1>2, <1>3, <1>5
<1>7. QED  BY <1>5, <1>6

\* `used` is what the items cost.
LEMMA LayoutUsed ==
  ASSUME NEW r, NEW s, NEW off, Layout(r, s, off)
  PROVE  B!Used(s) = r.used
<1> DEFINE n == Len(s)
           c == [k \in 1 .. n |-> B!Cost(s[k])]
           P(u) == u = [k \in 0 .. n |-> IF k = 0 THEN 0 ELSE u[k - 1] + B!Cost(s[k])]
           Q(u) == u = [k \in 0 .. n |-> IF k = 0 THEN 0 ELSE u[k - 1] + c[k]]
<1>1. \A k \in 1 .. n: c[k] = B!Cost(s[k])
  OBVIOUS
<1>2. ASSUME NEW u PROVE P(u) <=> Q(u)
  <2> HIDE DEF c, n
  <2>1. ASSUME NEW k \in 0 .. n
        PROVE  (IF k = 0 THEN 0 ELSE u[k - 1] + B!Cost(s[k]))
                 = (IF k = 0 THEN 0 ELSE u[k - 1] + c[k])
    <3>1. n \in Nat
      BY LayoutFacts DEF n
    <3>2. k # 0 => k \in 1 .. n
      BY <3>1
    <3>3. QED  BY <1>1, <3>2
  <2>2. QED  BY <2>1
<1>3. (CHOOSE u: P(u)) = (CHOOSE u: Q(u))
  <2> HIDE DEF P, Q
  <2>1. QED  BY <1>2, Zenon
<1>4. B!Used(s) = Total(n, c)
  BY <1>3 DEF B!Used, Total
<1>5. /\ n \in Nat /\ c \in [1 .. n -> Nat] /\ off \in [0 .. n -> Nat]
      /\ off[0] = 0 /\ off[n] = r.used /\ \A k \in 1 .. n: off[k] = off[k - 1] + c[k]
  <2>1. n \in Nat /\ off[0] = 0 /\ off[n] = r.used /\ off \in [0 .. n -> 0 .. N]
    BY LayoutFacts DEF Layout
  <2>2. \A k \in 1 .. n: B!Cost(s[k]) \in Nat /\ off[k] = off[k - 1] + B!Cost(s[k])
    <3>1. \A k \in 1 .. n: s[k].len \in Nat /\ B!Cost(s[k]) = 2 + s[k].len
      BY LayoutFacts
    <3>2. \A k \in 1 .. n: B!Cost(s[k]) \in Nat
      BY <3>1
    <3>3. QED  BY <3>2 DEF Layout
  <2>3. QED  BY <1>1, <2>1, <2>2, NAssumption
<1>6. Total(n, c) = off[n]
  <2> HIDE DEF c, n
  <2>1. QED  BY <1>5, RunningSum
<1>7. QED  BY <1>4, <1>5, <1>6

\* Following the prefixes finds the items.
LEMMA LayoutItems ==
  ASSUME NEW r, NEW s, NEW off, Layout(r, s, off)
  PROVE  ItemsOf(r) = s
<1> DEFINE n == Len(s)
           next(c) == Ahead(c, 2 + LenAt(r.buf, c))
           P(u) == u = [k \in 0 .. n |-> IF k = 0 THEN r.read_pos ELSE next(u[k - 1])]
           start == CHOOSE u: P(u)
           g == [k \in 0 .. n |-> Ahead(r.read_pos, off[k])]
<1>1. n \in Nat /\ r.item_count = n /\ off[0] = 0
  BY LayoutFacts DEF Layout
<1>2. g[0] = r.read_pos
  <2>1. Ahead(r.read_pos, 0) = r.read_pos
    BY LayoutFacts, AheadNone
  <2>2. QED  BY <1>1, <2>1
<1>3. ASSUME NEW k \in 1 .. n
      PROVE  g[k] = next(g[k - 1])
  <2> DEFINE a == off[k - 1]
             l == s[k].len
  <2>1. /\ a \in Nat /\ off[k] = a + (2 + l) /\ off[k] \in 0 .. N /\ l \in Nat
        /\ l = LenAt(r.buf, Ahead(r.read_pos, a)) /\ r.read_pos \in Cells
    <3>1. /\ a \in 0 .. N /\ off[k] = a + 2 + l /\ off[k] \in 0 .. N /\ l \in Nat
          /\ l = LenAt(r.buf, Ahead(r.read_pos, a)) /\ r.read_pos \in Cells
      BY LayoutFacts
    <3> HIDE DEF a, l
    <3>2. QED  BY <3>1, NAssumption
  <2>2. g[k] = Ahead(r.read_pos, off[k]) /\ g[k - 1] = Ahead(r.read_pos, a)
    BY <1>1
  <2> HIDE DEF a, l, g
  <2>3. Ahead(Ahead(r.read_pos, a), 2 + l) = Ahead(r.read_pos, a + (2 + l))
    <3>1. a + (2 + l) <= N /\ 2 + l \in Nat
      BY <2>1, NAssumption
    <3>2. QED  BY <2>1, <3>1, AheadTwice
  <2>4. QED  BY <2>1, <2>2, <2>3
<1>4. P(g)
  <2> DEFINE h == [k \in 0 .. n |-> IF k = 0 THEN r.read_pos ELSE next(g[k - 1])]
  <2> HIDE DEF n, next
  <2>1. \A k \in 0 .. n: g[k] = h[k]
    <3>1. SUFFICES ASSUME NEW k \in 0 .. n PROVE g[k] = h[k]
      OBVIOUS
    <3>2. h[k] = IF k = 0 THEN r.read_pos ELSE next(g[k - 1])
      OBVIOUS
    <3>3. k # 0 => k \in 1 .. n
      BY <1>1
    <3> HIDE DEF h, g
    <3>4. QED  BY <1>2, <1>3, <3>2, <3>3
  <2>2. g = h
    BY <2>1
  <2>3. QED  BY <2>2
<1>5. P(start)
  <2> HIDE DEF P, g
  <2>1. QED  BY <1>4
<1>6. \A k \in 0 .. n: start[k] = g[k]
  <2> DEFINE S == {k \in 0 .. n: start[k] = g[k]}
  <2> HIDE DEF start, g, next
  <2>1. start[0] = r.read_pos /\ \A k \in 1 .. n: start[k] = next(start[k - 1])
    <3>1. \A k \in 0 .. n: start[k] = IF k = 0 THEN r.read_pos ELSE next(start[k - 1])
      BY <1>5
    <3>2. 0 \in 0 .. n /\ \A k \in 1 .. n: k \in 0 .. n /\ k # 0
      BY <1>1
    <3>3. QED  BY <3>1, <3>2
  <2>2. 0 \in S
    BY <1>1, <1>2, <2>1
  <2>3. \A k \in 0 .. n - 1: k \in S => k + 1 \in S
    <3>1. SUFFICES ASSUME NEW k \in 0 .. n - 1, start[k] = g[k]
                   PROVE  start[k + 1] = g[k + 1]
      BY <1>1
    <3>2. k + 1 \in 1 .. n /\ (k + 1) - 1 = k
      BY <1>1
    <3>3. start[k + 1] = next(start[k]) /\ g[k + 1] = next(g[k])
      BY <1>3, <2>1, <3>2
    <3>4. QED  BY <3>1, <3>3
  <2> HIDE DEF S
  <2>4. 0 .. n \subseteq S
    BY <1>1, <2>2, <2>3, UpTo
  <2>5. QED  BY <2>4 DEF S
<1>7. ItemsOf(r) = [k \in 1 .. n |-> [len |-> LenAt(r.buf, start[k - 1]),
                                     data |-> DataAt(r.buf, start[k - 1])]]
  BY <1>1 DEF ItemsOf
<1>8. \A k \in 1 .. n: s[k] = [len |-> LenAt(r.buf, start[k - 1]),
                              data |-> DataAt(r.buf, start[k - 1])]
  <2>1. SUFFICES ASSUME NEW k \in 1 .. n
                 PROVE  s[k] = [len |-> LenAt(r.buf, start[k - 1]),
                                data |-> DataAt(r.buf, start[k - 1])]
    OBVIOUS
  <2>2. k - 1 \in 0 .. n
    BY <1>1
  <2>3. g[k - 1] = Ahead(r.read_pos, off[k - 1])
    BY <2>2
  <2> HIDE DEF start, g
  <2>4. start[k - 1] = Ahead(r.read_pos, off[k - 1])
    BY <1>6, <2>2, <2>3
  <2>5. s[k] = ItemAt(r, off[k - 1])
    BY DEF Layout
  <2>6. QED  BY <2>4, <2>5 DEF ItemAt
<1>9. s = [k \in 1 .. n |-> s[k]]
  BY DEF Layout
<1> HIDE DEF start
<1>10. QED  BY <1>7, <1>8, <1>9

-----------------------------------------------------------------------------
(* Writing an item *)

\* An item is read from the cells it occupies.
LEMMA SameItem ==
  ASSUME NEW r \in RingType, NEW q \in RingType, q.read_pos = r.read_pos,
         NEW o \in Nat, NEW u \in 0 .. N,
         \A j \in 0 .. u - 1: q.buf[Ahead(r.read_pos, j)] = r.buf[Ahead(r.read_pos, j)],
         ItemAt(r, o).len \in Nat, o + 2 + ItemAt(r, o).len <= u
  PROVE  ItemAt(q, o) = ItemAt(r, o)
<1> DEFINE c == r.read_pos
           a == Ahead(c, o)
           l == LenAt(r.buf, a)
<1>1. c \in Cells /\ l \in Nat /\ o + 2 + l <= u /\ u \in Nat /\ u <= N /\ N \in Nat
  BY NAssumption DEF RingType, ItemAt
<1> HIDE DEF c
<1>2. \A m \in Nat: o + m < u => q.buf[Ahead(a, m)] = r.buf[Ahead(a, m)]
  <2>1. SUFFICES ASSUME NEW m \in Nat, o + m < u
                 PROVE  q.buf[Ahead(a, m)] = r.buf[Ahead(a, m)]
    OBVIOUS
  <2>2. o + m \in 0 .. u - 1 /\ o + m <= N
    BY <1>1, <2>1
  <2>3. Ahead(a, m) = Ahead(c, o + m)
    BY <1>1, <2>2, AheadTwice
  <2>4. QED  BY <2>2, <2>3 DEF c
<1>3. q.buf[a] = r.buf[a]
  <2>1. a = Ahead(c, o + 0) /\ o + 0 \in 0 .. u - 1
    BY <1>1
  <2>2. QED  BY <2>1 DEF c
<1>4. LenAt(q.buf, a) = l
  <2>1. q.buf[Ahead(a, 1)] = r.buf[Ahead(a, 1)]
    BY <1>1, <1>2
  <2>2. QED  BY <1>3, <2>1 DEF LenAt
<1>5. DataAt(q.buf, a) = DataAt(r.buf, a)
  <2> HIDE DEF a, l
  <2>1. DataAt(q.buf, a) = [j \in 1 .. l |-> q.buf[Ahead(a, 1 + j)]]
        /\ DataAt(r.buf, a) = [j \in 1 .. l |-> r.buf[Ahead(a, 1 + j)]]
    BY <1>4 DEF DataAt, l
  <2>2. \A j \in 1 .. l: q.buf[Ahead(a, 1 + j)] = r.buf[Ahead(a, 1 + j)]
    <3>1. \A j \in 1 .. l: 1 + j \in Nat /\ o + (1 + j) < u
      BY <1>1
    <3>2. QED  BY <1>2, <3>1
  <2>3. QED  BY <2>1, <2>2
<1>6. QED  BY <1>4, <1>5 DEF ItemAt, c

\* The bytes of an item.
LEMMA EncodedIs ==
  ASSUME NEW data \in Seq(Byte), Len(data) <= MaxLen
  PROVE  /\ Encoded(data) \in Seq(Byte) /\ Len(Encoded(data)) = 2 + Len(data)
         /\ Encoded(data)[1] + ByteBase * Encoded(data)[2] = Len(data)
         /\ \A j \in 1 .. Len(data): Encoded(data)[2 + j] = data[j]
<1> DEFINE low == Len(data) % ByteBase
           high == (Len(data) \div ByteBase) % ByteBase
<1>1. Len(data) \in 0 .. MaxLen
  <2>1. Len(data) \in Nat
    OBVIOUS
  <2>2. QED  BY <2>1, MaxLenType
<1>2. low \in Byte /\ high \in Byte /\ low + ByteBase * high = Len(data)
  BY <1>1, LengthBytes
<1>3. Encoded(data) = <<low, high>> \o data
  BY DEF Encoded
<1> HIDE DEF low, high
<1>4. <<low, high>> \in Seq(Byte) /\ Len(<<low, high>>) = 2
      /\ <<low, high>>[1] = low /\ <<low, high>>[2] = high
  BY <1>2
<1> DEFINE prefix == <<low, high>>
<1> HIDE DEF prefix
<1>5. prefix \in Seq(Byte) /\ Len(prefix) = 2 /\ prefix[1] = low /\ prefix[2] = high
      /\ Encoded(data) = prefix \o data
  BY <1>3, <1>4 DEF prefix
<1>6. /\ prefix \o data \in Seq(Byte) /\ Len(prefix \o data) = 2 + Len(data)
      /\ \A i \in 1 .. 2 + Len(data):
           (prefix \o data)[i] = IF i <= 2 THEN prefix[i] ELSE data[i - 2]
  <2>1. /\ prefix \o data \in Seq(Byte) /\ Len(prefix \o data) = Len(prefix) + Len(data)
        /\ \A i \in 1 .. Len(prefix) + Len(data): (prefix \o data)[i] =
             IF i <= Len(prefix) THEN prefix[i] ELSE data[i - Len(prefix)]
    BY <1>5, ConcatProperties
  <2>2. QED  BY <1>5, <2>1
<1>7. \A j \in 1 .. Len(data): (prefix \o data)[2 + j] = data[j]
  <2>1. \A j \in 1 .. Len(data): 2 + j \in 1 .. 2 + Len(data) /\ ~(2 + j <= 2) /\ (2 + j) - 2 = j
    OBVIOUS
  <2>2. QED  BY <1>6, <2>1
<1>8. (prefix \o data)[1] = low /\ (prefix \o data)[2] = high
  <2>1. 1 \in 1 .. 2 + Len(data) /\ 2 \in 1 .. 2 + Len(data)
    OBVIOUS
  <2>2. QED  BY <1>5, <1>6, <2>1
<1>9. QED  BY <1>2, <1>5, <1>6, <1>7, <1>8

\* What write_raw changes.
LEMMA WriteRawIs ==
  ASSUME NEW r \in RingType, NEW data \in Seq(Byte), Len(data) <= MaxLen, Fits(r, data),
         r.write_pos = Ahead(r.read_pos, r.used)
  PROVE  LET q == WriteRaw(r, data)
             n == 2 + Len(data)
         IN  /\ q \in RingType
             /\ q.read_pos = r.read_pos /\ q.used = r.used + n
             /\ q.item_count = r.item_count + 1
             /\ q.write_pos = Ahead(q.read_pos, q.used)
             /\ \A j \in 0 .. r.used - 1:
                  q.buf[Ahead(r.read_pos, j)] = r.buf[Ahead(r.read_pos, j)]
             /\ \A i \in 0 .. n - 1: q.buf[Ahead(r.write_pos, i)] = Encoded(data)[i + 1]
<1> DEFINE q == WriteRaw(r, data)
           bytes == Encoded(data)
           w == r.write_pos
           c == r.read_pos
           n == 2 + Len(data)
           buf == [a \in Cells |-> IF Place(a, w) < n THEN bytes[Place(a, w) + 1] ELSE r.buf[a]]
<1>1. /\ r.buf \in [Cells -> Byte] /\ c \in Cells /\ w \in Cells /\ r.used \in 0 .. N
      /\ r.item_count \in Nat /\ N \in Nat \ {0}
  BY NAssumption DEF RingType
<1>2. bytes \in Seq(Byte) /\ Len(bytes) = n /\ n \in Nat /\ n >= 2
  BY EncodedIs
<1>3. r.used + n <= N
  BY <1>1 DEF Fits
<1>4. /\ q.buf = buf /\ q.read_pos = c /\ q.used = r.used + n /\ q.item_count = r.item_count + 1
      /\ q.write_pos = Ahead(w, n)
      /\ q = [buf |-> buf, read_pos |-> c, write_pos |-> Ahead(w, n), used |-> r.used + n,
              item_count |-> r.item_count + 1]
  <2> HIDE DEF bytes
  <2>1. q = [r EXCEPT !.buf = buf, !.write_pos = Ahead(@, n), !.used = @ + n,
                      !.item_count = @ + 1]
    BY <1>2 DEF WriteRaw, Place, bytes, RingType
  <2>2. QED  BY <2>1 DEF RingType
<1>5. Ahead(w, n) \in Cells /\ Ahead(w, n) = Ahead(c, r.used + n)
  <2>1. n \in 0 .. N /\ r.used \in Nat
    BY <1>1, <1>2, <1>3
  <2> HIDE DEF n
  <2>2. QED  BY <1>1, <1>3, <2>1, AheadIs, AheadTwice
<1>6. (\A i \in 0 .. N - 1: Place(Ahead(w, i), w) = i)
      /\ \A j \in 0 .. r.used - 1: Place(Ahead(c, j), w) = N - r.used + j
  BY <1>1, Places
<1>7. ASSUME NEW a \in Cells PROVE Place(a, w) \in Nat
  <2>1. Place(a, w) = IF a < w THEN a - w + N ELSE a - w
    BY <1>1, PlaceIs
  <2>2. QED  BY <1>1, <2>1 DEF Cells
<1> HIDE DEF q, bytes, n
<1>8. buf \in [Cells -> Byte]
  <2>1. SUFFICES ASSUME NEW a \in Cells, Place(a, w) < n
                 PROVE  bytes[Place(a, w) + 1] \in Byte
    BY <1>1
  <2>2. Place(a, w) + 1 \in 1 .. n
    BY <1>2, <1>7, <2>1
  <2>3. QED  BY <1>2, <2>2
<1>9. q \in RingType
  <2>1. r.used + n \in 0 .. N /\ r.item_count + 1 \in Nat
    BY <1>1, <1>2, <1>3
  <2> HIDE DEF buf
  <2>2. QED  BY <1>1, <1>4, <1>5, <1>8, <2>1 DEF RingType
<1>10. ASSUME NEW j \in 0 .. r.used - 1
       PROVE  q.buf[Ahead(c, j)] = r.buf[Ahead(c, j)]
  <2>1. j \in 0 .. N /\ N - r.used + j >= n
    BY <1>1, <1>2, <1>3
  <2>2. Ahead(c, j) \in Cells
    BY <1>1, <2>1, AheadIs
  <2>3. Place(Ahead(c, j), w) = N - r.used + j
    BY <1>6
  <2>4. ~ (Place(Ahead(c, j), w) < n)
    BY <1>1, <1>2, <2>1, <2>3
  <2>5. QED  BY <1>4, <2>2, <2>4
<1>11. ASSUME NEW i \in 0 .. n - 1
       PROVE  q.buf[Ahead(w, i)] = bytes[i + 1]
  <2>1. i \in 0 .. N /\ i \in 0 .. N - 1 /\ i < n
    BY <1>1, <1>2, <1>3
  <2>2. Ahead(w, i) \in Cells
    BY <1>1, <2>1, AheadIs
  <2>3. Place(Ahead(w, i), w) = i
    BY <1>6, <2>1
  <2>4. QED  BY <1>4, <2>1, <2>2, <2>3
<1>12. QED
  BY <1>4, <1>5, <1>9, <1>10, <1>11 DEF q, n, bytes

\* An item that fits comes last.
LEMMA WriteRawHolds ==
  ASSUME NEW r, NEW s, Holds(r, s),
         NEW data \in Seq(Byte), Len(data) <= MaxLen, Fits(r, data)
  PROVE  Holds(WriteRaw(r, data), Append(s, [len |-> Len(data), data |-> data]))
<1>1. PICK off: Layout(r, s, off)
  BY DEF Holds
<1> DEFINE q == WriteRaw(r, data)
           x == [len |-> Len(data), data |-> data]
           t == Append(s, x)
           n == Len(s)
           m == 2 + Len(data)
           off2 == [k \in 0 .. n + 1 |-> IF k <= n THEN off[k] ELSE r.used + m]
<1>2. /\ r \in RingType /\ s \in Seq(Piece) /\ n \in Nat /\ r.item_count = n
      /\ off \in [0 .. n -> 0 .. N] /\ off[0] = 0 /\ off[n] = r.used
      /\ r.write_pos = Ahead(r.read_pos, r.used) /\ r.used \in 0 .. N /\ N \in Nat
      /\ r.read_pos \in Cells
  BY <1>1, LayoutFacts, NAssumption DEF Layout
<1>3. /\ q \in RingType
      /\ q.read_pos = r.read_pos /\ q.used = r.used + m
      /\ q.item_count = n + 1
      /\ q.write_pos = Ahead(q.read_pos, q.used)
      /\ \A j \in 0 .. r.used - 1: q.buf[Ahead(r.read_pos, j)] = r.buf[Ahead(r.read_pos, j)]
      /\ \A i \in 0 .. m - 1: q.buf[Ahead(r.write_pos, i)] = Encoded(data)[i + 1]
  BY <1>2, WriteRawIs
<1>4. x \in Piece /\ m \in Nat /\ m >= 2 /\ r.used + m <= N /\ B!Cost(x) = m
  <2>1. Len(data) \in Nat
    OBVIOUS
  <2> MaxLen \in Nat
    BY MaxLenType
  <2>2. QED  BY <1>2, <2>1 DEF Piece, Fits, B!Cost
<1>5. /\ t \in Seq(Piece) /\ Len(t) = n + 1 /\ t[n + 1] = x
      /\ \A k \in 1 .. n: t[k] = s[k]
  <2> HIDE DEF x
  <2>1. QED  BY <1>2, <1>4, AppendProperties
<1>6. /\ off2 \in [0 .. n + 1 -> 0 .. N] /\ off2[n + 1] = r.used + m
      /\ \A k \in 0 .. n: off2[k] = off[k]
  BY <1>2, <1>4
<1> HIDE DEF q, t, off2
<1>7. ASSUME NEW k \in 1 .. n
      PROVE  off2[k] = off2[k - 1] + B!Cost(t[k]) /\ t[k] = ItemAt(q, off2[k - 1])
  <2>1. /\ off[k] = off[k - 1] + B!Cost(s[k]) /\ s[k] = ItemAt(r, off[k - 1])
    BY <1>1 DEF Layout
  <2>2. /\ s[k].len \in Nat /\ off[k - 1] \in 0 .. N /\ off[k] \in 0 .. N
        /\ off[k] = off[k - 1] + 2 + s[k].len
    BY <1>1, LayoutFacts
  <2>3. off[k] <= r.used
    <3>1. k \in 0 .. n /\ n - k >= 0
      BY <1>2
    <3>2. off[k] + 2 * (n - k) <= r.used
      BY <1>1, <3>1, OffsetsRise
    <3>3. QED  BY <1>2, <2>2, <3>1, <3>2
  <2>4. off2[k] = off[k] /\ off2[k - 1] = off[k - 1] /\ t[k] = s[k]
    BY <1>2, <1>5, <1>6
  <2>5. ItemAt(q, off[k - 1]) = ItemAt(r, off[k - 1])
    <3> DEFINE o == off[k - 1]
               l == ItemAt(r, o).len
    <3>1. o \in Nat /\ l \in Nat /\ o + 2 + l <= r.used
      BY <1>2, <2>1, <2>2, <2>3
    <3> HIDE DEF o, l
    <3>2. QED  BY <1>2, <1>3, <3>1, SameItem DEF o, l
  <2>6. QED  BY <2>1, <2>4, <2>5
<1>8. off2[n + 1] = off2[n] + B!Cost(t[n + 1]) /\ t[n + 1] = ItemAt(q, off2[n])
  <2>1. off2[n] = r.used /\ off2[n + 1] = r.used + m
    BY <1>2, <1>6
  <2> DEFINE w == r.write_pos
             bytes == Encoded(data)
  <2>2. /\ bytes[1] + ByteBase * bytes[2] = Len(data)
        /\ \A j \in 1 .. Len(data): bytes[2 + j] = data[j]
    BY EncodedIs
  <2>3. \A i \in 0 .. m - 1: q.buf[Ahead(w, i)] = bytes[i + 1]
    BY <1>3
  <2>4. w = Ahead(q.read_pos, off2[n]) /\ Ahead(w, 0) = w
    <3>1. w \in Cells
      BY <1>1, LayoutFacts
    <3>2. QED  BY <1>2, <1>3, <2>1, <3>1, AheadNone
  <2> HIDE DEF w, bytes
  <2>5. LenAt(q.buf, w) = Len(data)
    <3>1. 0 \in 0 .. m - 1 /\ 1 \in 0 .. m - 1
      BY <1>4
    <3>2. q.buf[w] = bytes[1] /\ q.buf[Ahead(w, 1)] = bytes[2]
      BY <2>3, <2>4, <3>1
    <3>3. QED  BY <2>2, <3>2 DEF LenAt
  <2>6. DataAt(q.buf, w) = data
    <3>1. DataAt(q.buf, w) = [j \in 1 .. Len(data) |-> q.buf[Ahead(w, 1 + j)]]
      BY <2>5 DEF DataAt
    <3>2. \A j \in 1 .. Len(data): q.buf[Ahead(w, 1 + j)] = data[j]
      <4>1. SUFFICES ASSUME NEW j \in 1 .. Len(data)
                     PROVE  q.buf[Ahead(w, 1 + j)] = data[j]
        OBVIOUS
      <4>2. 1 + j \in 0 .. m - 1 /\ (1 + j) + 1 = 2 + j
        OBVIOUS
      <4>3. QED  BY <2>2, <2>3, <4>2
    <3>3. data = [j \in 1 .. Len(data) |-> data[j]]
      OBVIOUS
    <3>4. QED  BY <3>1, <3>2, <3>3
  <2>7. ItemAt(q, off2[n]) = x
    BY <2>4, <2>5, <2>6 DEF ItemAt
  <2>8. QED  BY <1>4, <1>5, <2>1, <2>7
<1>9. \A k \in 1 .. n + 1:
        off2[k] = off2[k - 1] + B!Cost(t[k]) /\ t[k] = ItemAt(q, off2[k - 1])
  <2>1. \A k \in 1 .. n + 1: k \in 1 .. n \/ (k = n + 1 /\ k - 1 = n)
    BY <1>2
  <2>2. QED  BY <1>7, <1>8, <2>1
<1>10. off2[0] = 0
  BY <1>2, <1>6
<1>11. Layout(q, t, off2)
  <2> HIDE DEF m, x
  <2>1. QED  BY <1>3, <1>5, <1>6, <1>9, <1>10 DEF Layout
<1>12. QED  BY <1>11 DEF Holds, q, t

-----------------------------------------------------------------------------
(* Discarding items *)

\* The items without the oldest ones.
LEMMA WithoutIs ==
  ASSUME NEW s \in Seq(Piece), NEW k \in 0 .. Len(s)
  PROVE  /\ B!Without(s, k) \in Seq(Piece)
         /\ Len(B!Without(s, k)) = Len(s) - k
         /\ \A i \in 1 .. Len(s) - k: B!Without(s, k)[i] = s[k + i]
<1>1. \A i \in k + 1 .. Len(s): s[i] \in Piece
  OBVIOUS
<1>2. B!Without(s, k) = SubSeq(s, k + 1, Len(s))
  BY DEF B!Without
<1>3. /\ SubSeq(s, k + 1, Len(s)) \in Seq(Piece)
      /\ Len(SubSeq(s, k + 1, Len(s))) = IF k + 1 <= Len(s) THEN Len(s) - (k + 1) + 1 ELSE 0
      /\ \A i \in 1 .. Len(s) - (k + 1) + 1: SubSeq(s, k + 1, Len(s))[i] = s[k + 1 + i - 1]
  BY <1>1, SubSeqProperties
<1>4. QED  BY <1>2, <1>3

LEMMA WithoutNone ==
  ASSUME NEW s \in Seq(Piece)
  PROVE  B!Without(s, 0) = s
<1>1. B!Without(s, 0) = SubSeq(s, 1, Len(s))
  BY DEF B!Without
<1>2. QED  BY <1>1, SubSeqFull

LEMMA WithoutNext ==
  ASSUME NEW s \in Seq(Piece), NEW k \in 0 .. Len(s) - 1
  PROVE  B!Without(B!Without(s, k), 1) = B!Without(s, k + 1)
<1> DEFINE t == B!Without(s, k)
           u == B!Without(s, k + 1)
           n == Len(s)
<1>1. /\ n \in Nat /\ k \in 0 .. n /\ k + 1 \in 0 .. n
      /\ t \in Seq(Piece) /\ Len(t) = n - k /\ \A i \in 1 .. n - k: t[i] = s[k + i]
      /\ u \in Seq(Piece) /\ Len(u) = n - (k + 1)
      /\ \A i \in 1 .. n - (k + 1): u[i] = s[k + 1 + i]
  <2>1. n \in Nat
    OBVIOUS
  <2>2. k \in 0 .. n /\ k + 1 \in 0 .. n
    BY <2>1
  <2>3. t \in Seq(Piece) /\ Len(t) = n - k /\ \A i \in 1 .. n - k: t[i] = s[k + i]
    BY <2>2, WithoutIs
  <2>4. /\ u \in Seq(Piece) /\ Len(u) = n - (k + 1)
        /\ \A i \in 1 .. n - (k + 1): u[i] = s[k + 1 + i]
    BY <2>2, WithoutIs
  <2> HIDE DEF t, u, n
  <2>5. QED  BY <2>1, <2>2, <2>3, <2>4
<1> HIDE DEF t, u, n
<1>2. 1 \in 0 .. Len(t)
  BY <1>1
<1>3. /\ B!Without(t, 1) \in Seq(Piece) /\ Len(B!Without(t, 1)) = n - k - 1
      /\ \A i \in 1 .. n - k - 1: B!Without(t, 1)[i] = t[1 + i]
  BY <1>1, <1>2, WithoutIs, SMTT(30)
<1>4. \A i \in 1 .. Len(u): B!Without(t, 1)[i] = u[i]
  <2>1. SUFFICES ASSUME NEW i \in 1 .. n - (k + 1)
                 PROVE  B!Without(t, 1)[i] = u[i]
    BY <1>1
  <2>2. 1 + i \in 1 .. n - k /\ i \in 1 .. n - k - 1 /\ k + (1 + i) = k + 1 + i
    BY <1>1
  <2>3. QED  BY <1>1, <1>3, <2>2
<1>5. Len(B!Without(t, 1)) = Len(u)
  BY <1>1, <1>3
<1>6. B!Without(t, 1) = u
  BY <1>1, <1>3, <1>4, <1>5, SeqEqual
<1>7. QED  BY <1>6 DEF t, u

\* Discarding the oldest item leaves a layout of the others.
LEMMA DiscardHolds ==
  ASSUME NEW r, NEW s, Holds(r, s)
  PROVE  Holds(DiscardOldest(r), B!Without(s, 1))
<1>1. PICK off: Layout(r, s, off)
  BY DEF Holds
<1> DEFINE n == Len(s)
           d == off[1]
           q == DiscardOldest(r)
           t == B!Without(s, 1)
<1>2. /\ r \in RingType /\ s \in Seq(Piece) /\ n \in Nat /\ r.item_count = n
      /\ off[0] = 0 /\ off[n] = r.used /\ \A k \in 0 .. n: off[k] \in 0 .. N
      /\ r.write_pos = Ahead(r.read_pos, r.used) /\ r.used \in 0 .. N /\ N \in Nat
      /\ r.read_pos \in Cells /\ r.write_pos \in Cells
  BY <1>1, LayoutFacts, NAssumption DEF Layout
<1>3. CASE n = 0
  <2>1. q = r
    BY <1>2, <1>3 DEF DiscardOldest
  <2>2. s = <<>>
    BY <1>2, <1>3, EmptySeq
  <2>3. t = s
    BY <1>3, <2>2, SubSeqEmpty DEF B!Without
  <2>4. QED  BY <2>1, <2>3
<1>4. CASE n # 0
  <2> DEFINE off2 == [k \in 0 .. n - 1 |-> off[k + 1] - d]
  <2>1. n >= 1 /\ n - 1 \in Nat
    BY <1>2, <1>4
  <2>2. /\ d = 2 + s[1].len /\ s[1].len \in Nat /\ d \in 0 .. N
        /\ s[1].len = LenAt(r.buf, r.read_pos)
    <3>1. 1 \in 1 .. n /\ 1 - 1 = 0
      BY <2>1
    <3>2. /\ s[1].len \in Nat /\ off[1] = off[0] + 2 + s[1].len /\ off[1] \in 0 .. N
          /\ s[1].len = LenAt(r.buf, Ahead(r.read_pos, off[0]))
      BY <1>1, <3>1, LayoutFacts, SMTT(30)
    <3>3. Ahead(r.read_pos, off[0]) = r.read_pos
      BY <1>2, AheadNone
    <3>4. QED  BY <1>2, <3>2, <3>3
  <2>3. \A k \in 1 .. n: off[k] >= d
    <3> DEFINE S == {k \in 0 .. n - 1: off[k + 1] >= d}
    <3>1. 0 \in S
      BY <1>2, <2>1, <2>2
    <3>2. \A k \in 0 .. n - 1 - 1: k \in S => k + 1 \in S
      <4>1. SUFFICES ASSUME NEW k \in 0 .. n - 1 - 1, off[k + 1] >= d
                     PROVE  off[k + 1 + 1] >= d
        BY <2>1
      <4>2. k + 1 + 1 \in 1 .. n /\ (k + 1 + 1) - 1 = k + 1
        BY <2>1
      <4>3. /\ off[k + 1 + 1] = off[k + 1] + 2 + s[k + 1 + 1].len
            /\ s[k + 1 + 1].len \in Nat /\ off[k + 1] \in 0 .. N
        BY <1>1, <4>2, LayoutFacts
      <4>4. QED  BY <1>2, <2>2, <4>1, <4>3
    <3> HIDE DEF S
    <3>3. 0 .. n - 1 \subseteq S
      BY <2>1, <3>1, <3>2, UpTo
    <3>4. SUFFICES ASSUME NEW k \in 1 .. n PROVE off[k] >= d
      OBVIOUS
    <3>5. k - 1 \in 0 .. n - 1 /\ (k - 1) + 1 = k
      BY <2>1
    <3>6. QED  BY <3>3, <3>5 DEF S
  <2>4. d <= r.used
    <3>1. n \in 1 .. n
      BY <2>1
    <3>2. QED  BY <1>2, <2>3, <3>1
  <2>5. /\ q.buf = r.buf /\ q.read_pos = Ahead(r.read_pos, d) /\ q.write_pos = r.write_pos
        /\ q.used = r.used - d /\ q.item_count = n - 1 /\ q \in RingType
    <3> DEFINE l == 2 + LenAt(r.buf, r.read_pos)
    <3>1. l = d
      BY <2>2
    <3>2. q = [r EXCEPT !.read_pos = Ahead(@, l), !.used = @ - l, !.item_count = @ - 1]
      BY <1>2, <1>4 DEF DiscardOldest, RingType
    <3>3. Ahead(r.read_pos, d) \in Cells
      BY <1>2, <2>2, AheadIs
    <3>4. r.used - d \in 0 .. N
      BY <1>2, <2>2, <2>4
    <3> HIDE DEF l, d, q
    <3>5. QED  BY <1>2, <2>1, <3>1, <3>2, <3>3, <3>4 DEF RingType
  <2>6. /\ t \in Seq(Piece) /\ Len(t) = n - 1 /\ \A k \in 1 .. n - 1: t[k] = s[1 + k]
    <3>1. 1 \in 0 .. n
      BY <2>1
    <3>2. QED  BY <1>2, <3>1, WithoutIs
  <2> HIDE DEF q, t
  <2>7. off2 \in [0 .. n - 1 -> 0 .. N]
    <3>1. SUFFICES ASSUME NEW k \in 0 .. n - 1
                   PROVE  off[k + 1] - d \in 0 .. N
      OBVIOUS
    <3>2. k + 1 \in 1 .. n /\ k + 1 \in 0 .. n
      BY <2>1
    <3>3. off[k + 1] \in 0 .. N /\ off[k + 1] >= d
      BY <1>2, <2>3, <3>2
    <3>4. QED  BY <1>2, <2>2, <3>3
  <2>8. \A k \in 0 .. n - 1: off2[k] = off[k + 1] - d
    OBVIOUS
  <2> HIDE DEF off2, d
  <2>9. off2[0] = 0 /\ off2[n - 1] = q.used
    <3>1. 0 \in 0 .. n - 1 /\ n - 1 \in 0 .. n - 1 /\ 0 + 1 = 1 /\ (n - 1) + 1 = n
      BY <2>1
    <3>2. off2[0] = off[1] - d /\ off2[n - 1] = off[n] - d
      BY <2>8, <3>1
    <3>3. QED  BY <1>2, <2>2, <2>5, <3>2 DEF d
  <2>10. ASSUME NEW k \in 1 .. n - 1
         PROVE  off2[k] = off2[k - 1] + B!Cost(t[k]) /\ t[k] = ItemAt(q, off2[k - 1])
    <3>1. k + 1 \in 1 .. n /\ (k + 1) - 1 = k /\ k \in 1 .. n /\ k - 1 \in 0 .. n - 1
          /\ (k - 1) + 1 = k /\ k \in 0 .. n - 1 /\ 1 + k = k + 1
      BY <2>1
    <3>2. /\ off[k + 1] = off[k] + 2 + s[k + 1].len /\ s[k + 1].len \in Nat
          /\ B!Cost(s[k + 1]) = 2 + s[k + 1].len
          /\ off[k] \in 0 .. N
      BY <1>1, <3>1, LayoutFacts
    <3>3. s[k + 1] = ItemAt(r, off[k])
      BY <1>1, <3>1 DEF Layout
    <3>4. off2[k] = off[k + 1] - d /\ off2[k - 1] = off[k] - d /\ t[k] = s[k + 1]
      BY <2>6, <2>8, <3>1
    <3>5. off[k] >= d
      BY <2>3, <3>1
    <3>6. Ahead(Ahead(r.read_pos, d), off[k] - d) = Ahead(r.read_pos, off[k])
      <4>1. d \in Nat /\ off[k] - d \in Nat /\ d + (off[k] - d) = off[k] /\ off[k] <= N
        BY <1>2, <2>2, <3>2, <3>5, SMTT(30)
      <4>2. d + (off[k] - d) <= N
        BY <4>1
      <4>3. Ahead(Ahead(r.read_pos, d), off[k] - d) = Ahead(r.read_pos, d + (off[k] - d))
        BY <1>2, <4>1, <4>2, AheadTwice
      <4>4. QED  BY <4>1, <4>3
    <3>7. ItemAt(q, off2[k - 1]) = ItemAt(r, off[k])
      BY <2>5, <3>4, <3>6 DEF ItemAt
    <3>8. t[k] = ItemAt(q, off2[k - 1])
      BY <3>3, <3>4, <3>7
    <3>9. off2[k] = off2[k - 1] + (2 + s[k + 1].len)
      <4> DEFINE a == off[k]
                 b == off[k + 1]
                 l == s[k + 1].len
      <4>1. a \in Int /\ l \in Int /\ d \in Int /\ b = a + 2 + l
            /\ off2[k] = b - d /\ off2[k - 1] = a - d
        <5>1. N \in Nat
          BY <1>2
        <5>2. d \in 0 .. N
          BY <2>2
        <5>3. a \in 0 .. N /\ l \in Nat /\ b = a + 2 + l
          BY <3>2
        <5>4. off2[k] = b - d /\ off2[k - 1] = a - d
          BY <3>4
        <5> HIDE DEF a, b, l
        <5>5. QED  BY <5>1, <5>2, <5>3, <5>4
      <4> HIDE DEF a, b, l
      <4>2. off2[k] = off2[k - 1] + (2 + l)
        BY <4>1
      <4>3. QED  BY <4>2 DEF l
    <3>10. B!Cost(t[k]) = 2 + s[k + 1].len
      BY <3>2, <3>4
    <3>11. QED  BY <3>8, <3>9, <3>10
  <2>11. q.write_pos = Ahead(q.read_pos, q.used)
    <3>1. d \in Nat /\ r.used - d \in Nat /\ d + (r.used - d) = r.used /\ r.used <= N
      BY <1>2, <2>2, <2>4
    <3>2. d + (r.used - d) <= N
      BY <3>1
    <3>3. Ahead(Ahead(r.read_pos, d), r.used - d) = Ahead(r.read_pos, d + (r.used - d))
      BY <1>2, <3>1, <3>2, AheadTwice
    <3>4. QED  BY <1>2, <2>5, <3>1, <3>3
  <2>12. Layout(q, t, off2)
    BY <2>5, <2>6, <2>7, <2>9, <2>10, <2>11 DEF Layout
  <2>13. QED  BY <2>12 DEF Holds, q, t
<1>5. QED  BY <1>3, <1>4

\* The ring after none, one, two, ... discarded items, and the first of these with room.
LEMMA MakeRoomHolds ==
  ASSUME NEW r, NEW s, Holds(r, s),
         NEW data \in Seq(Byte), 2 + Len(data) <= N,
         NEW x, x = [len |-> Len(data), data |-> data]
  PROVE  /\ Holds(MakeRoom(r, data), B!Without(s, B!Evictions(s, x)))
         /\ Fits(MakeRoom(r, data), data)
<1> DEFINE n == Len(s)
           P(u) == u = [k \in 0 .. n |-> IF k = 0 THEN r ELSE DiscardOldest(u[k - 1])]
           after == CHOOSE u: P(u)
           S == {q \in RingType: \E t: Holds(q, t)}
           step == [q \in S |-> DiscardOldest(q)]
           f == [k \in 1 .. n |-> step]
<1>1. /\ n \in Nat /\ r.item_count = n /\ s \in Seq(Piece) /\ r \in S
  <2>1. PICK off: Layout(r, s, off)
    BY DEF Holds
  <2>2. QED  BY <2>1 DEF Layout
<1>2. f \in [1 .. n -> [S -> S]]
  <2>1. ASSUME NEW q \in S
        PROVE  DiscardOldest(q) \in S
    <3>1. PICK t: Holds(q, t)
      OBVIOUS
    <3>2. Holds(DiscardOldest(q), B!Without(t, 1))
      BY <3>1, DiscardHolds
    <3>3. DiscardOldest(q) \in RingType
      BY <3>2 DEF Holds, Layout
    <3>4. QED  BY <3>2, <3>3
  <2> HIDE DEF S
  <2>2. QED  BY <2>1
<1>3. \A k \in 1 .. n, q \in S: f[k][q] = DiscardOldest(q)
  <2> HIDE DEF S
  <2>1. QED  OBVIOUS
<1>4. \E g: P(g)
  <2> HIDE DEF f, S
  <2>1. PICK g \in [0 .. n -> S]: Iteration(g, n, r, f)
    BY <1>1, <1>2, Iterates
  <2>2. \A k \in 1 .. n: g[k - 1] \in S
    BY <1>1, SMTT(30)
  <2>3. g[0] = r /\ \A k \in 1 .. n: g[k] = DiscardOldest(g[k - 1])
    BY <1>3, <2>1, <2>2 DEF Iteration
  <2>4. P(g)
    <3> HIDE DEF n
    <3>1. \A k \in 0 .. n: g[k] = IF k = 0 THEN r ELSE DiscardOldest(g[k - 1])
      BY <1>1, <2>3
    <3>2. QED  BY <3>1
  <2> HIDE DEF P
  <2>5. QED  BY <2>4
<1>5. P(after)
  <2> HIDE DEF P
  <2>1. QED  BY <1>4
<1>6. MakeRoom(r, data) = after[Min({k \in 0 .. n: Fits(after[k], data)})]
  BY <1>1 DEF MakeRoom
<1> HIDE DEF after
<1>7. after[0] = r /\ \A k \in 1 .. n: after[k] = DiscardOldest(after[k - 1])
  <2> HIDE DEF n
  <2>1. \A k \in 0 .. n: after[k] = IF k = 0 THEN r ELSE DiscardOldest(after[k - 1])
    BY <1>5
  <2>2. QED  BY <1>1, <2>1
<1>8. \A k \in 0 .. n: Holds(after[k], B!Without(s, k))
  <2> DEFINE D == {k \in 0 .. n: Holds(after[k], B!Without(s, k))}
  <2>1. 0 \in D
    BY <1>1, <1>7, WithoutNone
  <2>2. \A k \in 0 .. n - 1: k \in D => k + 1 \in D
    <3>1. SUFFICES ASSUME NEW k \in 0 .. n - 1, Holds(after[k], B!Without(s, k))
                   PROVE  Holds(after[k + 1], B!Without(s, k + 1))
      BY <1>1
    <3>2. Holds(DiscardOldest(after[k]), B!Without(B!Without(s, k), 1))
      BY <3>1, DiscardHolds
    <3>3. after[k + 1] = DiscardOldest(after[k])
      <4>1. k + 1 \in 1 .. n /\ (k + 1) - 1 = k
        BY <1>1
      <4>2. QED  BY <1>7, <4>1
    <3>4. B!Without(B!Without(s, k), 1) = B!Without(s, k + 1)
      BY <1>1, WithoutNext
    <3>5. QED  BY <3>2, <3>3, <3>4
  <2> HIDE DEF D
  <2>3. 0 .. n \subseteq D
    BY <1>1, <2>1, <2>2, UpTo
  <2>4. QED  BY <2>3 DEF D
<1>9. \A k \in 0 .. n: Fits(after[k], data) <=> B!HasRoom(B!Without(s, k), x)
  <2>1. SUFFICES ASSUME NEW k \in 0 .. n
                 PROVE  Fits(after[k], data) <=> B!HasRoom(B!Without(s, k), x)
    OBVIOUS
  <2>2. PICK off: Layout(after[k], B!Without(s, k), off)
    BY <1>8, <2>1 DEF Holds
  <2>3. B!Used(B!Without(s, k)) = after[k].used
    BY <2>2, LayoutUsed
  <2>4. after[k].used \in Nat /\ N \in Nat /\ Len(data) \in Nat
    BY <2>2, LayoutFacts, NAssumption
  <2>5. B!Cost(x) = 2 + Len(data)
    BY DEF B!Cost
  <2> DEFINE used == after[k].used
             len == Len(data)
  <2>6. Fits(after[k], data) <=> used + 2 + len <= N
    BY DEF Fits
  <2>7. B!HasRoom(B!Without(s, k), x) <=> used + (2 + len) <= N
    BY <2>3, <2>5 DEF B!HasRoom
  <2>8. used \in Nat /\ len \in Nat /\ N \in Nat
    BY <2>4
  <2> HIDE DEF used, len
  <2>9. used + 2 + len <= N <=> used + (2 + len) <= N
    BY <2>8
  <2>10. QED  BY <2>6, <2>7, <2>9
<1> DEFINE K == {k \in 0 .. n: Fits(after[k], data)}
<1>10. K \in SUBSET Nat /\ K # {}
  <2>1. n \in 0 .. n
    BY <1>1
  <2>2. PICK off: Layout(after[n], B!Without(s, n), off)
    BY <1>8, <2>1 DEF Holds
  <2>3. Len(B!Without(s, n)) = 0
    <3>1. Len(B!Without(s, n)) = Len(s) - n
      BY <1>1, <2>1, WithoutIs
    <3>2. QED  BY <1>1, <3>1
  <2>4. after[n].used = 0
    BY <2>2, <2>3 DEF Layout
  <2>5. Fits(after[n], data)
    BY <2>4, NAssumption DEF Fits
  <2>6. QED  BY <1>1, <2>1, <2>5
<1>11. Min(K) \in K
  BY <1>10, MinInSet
<1>12. Min(K) = B!Evictions(s, x)
  <2>1. K = {k \in 0 .. Len(s): B!HasRoom(B!Without(s, k), x)}
    BY <1>9
  <2>2. B!Evictions(s, x) = B!Min(K)
    BY <2>1 DEF B!Evictions
  <2>3. B!Min(K) = Min(K)
    BY DEF Min, B!Min
  <2>4. QED  BY <2>2, <2>3
<1>13. QED  BY <1>6, <1>8, <1>11, <1>12

-----------------------------------------------------------------------------
(* The operations *)

LEMMA EmptyHolds == Holds(EmptyRing, <<>>)
<1>1. N \in Nat /\ 0 \in Cells /\ 0 \in 0 .. N /\ 0 \in Byte
  BY NAssumption, ByteBaseAssumption DEF Cells, Byte
<1>2. EmptyRing \in RingType
  BY <1>1 DEF EmptyRing, RingType
<1>3. Ahead(0, 0) = 0
  BY <1>1, AheadNone
<1> DEFINE off == [k \in 0 .. 0 |-> 0]
<1>4. off \in [0 .. Len(<<>>) -> 0 .. N] /\ off[0] = 0
  BY <1>1
<1> HIDE DEF off
<1>5. Layout(EmptyRing, <<>>, off)
  BY <1>1, <1>2, <1>3, <1>4 DEF Layout, EmptyRing
<1>6. QED  BY <1>5 DEF Holds

LEMMA UsedByNone == B!Used(<<>>) = 0
<1>1. PICK off: Layout(EmptyRing, <<>>, off)
  BY EmptyHolds DEF Holds
<1>2. B!Used(<<>>) = EmptyRing.used
  BY <1>1, LayoutUsed
<1>3. QED  BY <1>2 DEF EmptyRing

\* What the parts of the ring say of the items it holds.
LEMMA HoldsFacts ==
  ASSUME NEW r, NEW s, Holds(r, s)
  PROVE  /\ ItemsOf(r) = s /\ s \in Seq(Piece)
         /\ B!Used(s) = r.used /\ r.used \in Nat
         /\ r.item_count = Len(s)
         /\ r.write_pos = Ahead(r.read_pos, r.used)
         /\ r \in Ring
         /\ s # <<>> => Head(s) = ItemAt(r, 0) /\ Ahead(r.read_pos, 0) = r.read_pos
<1>1. PICK off: Layout(r, s, off)
  BY DEF Holds
<1>2. ItemsOf(r) = s /\ B!Used(s) = r.used
  BY <1>1, LayoutItems, LayoutUsed
<1>3. /\ r \in RingType /\ s \in Seq(Piece) /\ r.item_count = Len(s)
      /\ r.write_pos = Ahead(r.read_pos, r.used)
      /\ r.used \in 0 .. N /\ N \in Nat /\ r.read_pos \in Cells
      /\ off[0] = 0 /\ off[Len(s)] = r.used
  BY <1>1, LayoutFacts, NAssumption DEF Layout
<1>4. r \in Ring
  <2> DEFINE n == Len(s)
  <2>1. n \in Nat /\ n \in 0 .. n
    BY <1>3
  <2>2. off[n] >= 2 * n
    BY <1>1, <2>1, OffsetsRise
  <2>3. r.item_count \in 0 .. N
    <3> HIDE DEF n
    <3>1. off[n] = r.used /\ r.item_count = n
      BY <1>3 DEF n
    <3>2. QED  BY <1>3, <2>1, <2>2, <3>1
  <2>4. QED  BY <1>3, <2>3 DEF Ring, RingType
<1>5. ASSUME s # <<>>
      PROVE  Head(s) = ItemAt(r, 0) /\ Ahead(r.read_pos, 0) = r.read_pos
  <2>1. Head(s) = s[1] /\ 1 \in 1 .. Len(s) /\ 1 - 1 = 0
    BY <1>3, <1>5, EmptySeq
  <2>2. s[1] = ItemAt(r, off[0])
    BY <1>1, <2>1 DEF Layout
  <2>3. QED  BY <1>3, <2>1, <2>2, AheadNone
<1>6. QED  BY <1>2, <1>3, <1>4, <1>5

\* RingInv holds at first, and every operation is the one of the FIFO on the items.
LEMMA InitRing == Init => RingInv /\ B!Init
<1>1. SUFFICES ASSUME Init PROVE RingInv /\ B!Init
  OBVIOUS
<1>2. Holds(ring, <<>>)
  BY <1>1, EmptyHolds DEF Init
<1>3. Items = <<>>
  BY <1>2, HoldsFacts DEF Items
<1>4. QED  BY <1>1, <1>2, <1>3 DEF RingInv, Init, B!Init, B!NoAnswer

\* What is pushed is an item.
Item(data) == [len |-> Len(data), data |-> data]

LEMMA PushStep ==
  ASSUME NEW s, Holds(ring, s), NEW data \in Inputs, Push(data)
  PROVE  RingInv' /\ B!Enqueue(Item(data), "Err")
<1> DEFINE x == Item(data)
           ok == Len(data) <= MaxLen /\ Fits(ring, data)
<1>1. /\ Items = s /\ s \in Seq(Piece) /\ B!Used(s) = ring.used /\ ring.used \in Nat
      /\ data \in Seq(Byte) /\ N \in Nat
  BY HoldsFacts, InputsAssumption, NAssumption DEF Items
<1>2. /\ answer' = [fn |-> "Err", ok |-> ok, found |-> <<>>]
      /\ ring' = IF ok THEN WriteRaw(ring, data) ELSE ring
  BY DEF Push, Answer
<1>3. ok <=> B!Accepts(s, x, "Err")
  <2> DEFINE used == ring.used
             len == Len(data)
  <2>1. ok <=> len <= MaxLen /\ used + 2 + len <= N
    BY DEF Fits
  <2>2. B!Accepts(s, x, "Err") <=> len <= MaxLen /\ used + (2 + len) <= N
    BY <1>1 DEF B!Accepts, B!HasRoom, B!Cost, Item
  <2>3. used \in Nat /\ len \in Nat /\ N \in Nat
    BY <1>1
  <2> HIDE DEF used, len
  <2>4. used + 2 + len <= N <=> used + (2 + len) <= N
    BY <2>3
  <2>5. QED  BY <2>1, <2>2, <2>4
<1>4. Holds(ring', IF ok THEN Append(s, x) ELSE s)
  <2>1. CASE ok
    BY <1>1, <1>2, <2>1, WriteRawHolds DEF Item
  <2>2. CASE ~ ok
    BY <1>2, <2>2
  <2>3. QED  BY <2>1, <2>2
<1>5. Items' = IF ok THEN Append(s, x) ELSE s
  <2> DEFINE t == IF ok THEN Append(s, x) ELSE s
  <2>1. Holds(ring', t)
    BY <1>4
  <2> HIDE DEF t
  <2>2. Items' = t
    BY <2>1, HoldsFacts DEF Items
  <2>3. QED  BY <2>2 DEF t
<1>6. B!Enqueued(s, x, "Err") = Append(s, x)
  BY <1>1, WithoutNone DEF B!Enqueued, B!EvictedBy
<1>7. ok = B!Accepts(s, x, "Err")
  <2>1. ok \in BOOLEAN /\ B!Accepts(s, x, "Err") \in BOOLEAN
    BY DEF B!Accepts
  <2>2. QED  BY <1>3, <2>1, Zenon
<1> HIDE DEF ok, x
<1>8. answer'.ok = ok
  BY <1>2
<1>9. B!Enqueue(x, "Err")
  BY <1>1, <1>2, <1>5, <1>6, <1>7, <1>8, Zenon DEF B!Enqueue, B!Answer
<1>10. QED  BY <1>4, <1>9 DEF RingInv, x

LEMMA PushOverwritingStep ==
  ASSUME NEW s, Holds(ring, s), NEW data \in Inputs, PushOverwriting(data)
  PROVE  RingInv' /\ B!Enqueue(Item(data), "DiscardOldest")
<1> DEFINE x == Item(data)
           ok == Len(data) <= MaxLen /\ 2 + Len(data) <= N
           left == B!Without(s, B!Evictions(s, x))
<1>1. /\ Items = s /\ s \in Seq(Piece) /\ data \in Seq(Byte) /\ N \in Nat
  BY HoldsFacts, InputsAssumption, NAssumption DEF Items
<1>2. /\ answer' = [fn |-> "DiscardOldest", ok |-> ok, found |-> <<>>]
      /\ ring' = IF ok THEN WriteRaw(MakeRoom(ring, data), data) ELSE ring
  BY DEF PushOverwriting, Answer
<1>3. ok <=> B!Accepts(s, x, "DiscardOldest")
  <2> DEFINE len == Len(data)
  <2>1. B!Accepts(s, x, "DiscardOldest") <=> len <= MaxLen /\ 0 + (2 + len) <= N
    BY UsedByNone DEF B!Accepts, B!HasRoom, B!Cost, Item
  <2>2. len \in Nat /\ N \in Nat
    BY <1>1
  <2> HIDE DEF len
  <2>3. 0 + (2 + len) <= N <=> 2 + len <= N
    BY <2>2
  <2>4. QED  BY <2>1, <2>3 DEF len
<1>4. Holds(ring', IF ok THEN Append(left, x) ELSE s)
  <2>1. CASE ok
    <3>1. Holds(MakeRoom(ring, data), left) /\ Fits(MakeRoom(ring, data), data)
      BY <1>1, <2>1, MakeRoomHolds DEF Item
    <3> HIDE DEF left
    <3>2. Holds(WriteRaw(MakeRoom(ring, data), data), Append(left, x))
      BY <1>1, <2>1, <3>1, WriteRawHolds DEF Item
    <3>3. QED  BY <1>2, <2>1, <3>2
  <2>2. CASE ~ ok
    BY <1>2, <2>2
  <2>3. QED  BY <2>1, <2>2
<1>5. Items' = IF ok THEN Append(left, x) ELSE s
  <2> DEFINE t == IF ok THEN Append(left, x) ELSE s
  <2>1. Holds(ring', t)
    BY <1>4
  <2> HIDE DEF t
  <2>2. Items' = t
    BY <2>1, HoldsFacts DEF Items
  <2>3. QED  BY <2>2 DEF t
<1>6. B!Enqueued(s, x, "DiscardOldest") = Append(left, x)
  BY DEF B!Enqueued, B!EvictedBy
<1>7. ok = B!Accepts(s, x, "DiscardOldest")
  <2>1. ok \in BOOLEAN /\ B!Accepts(s, x, "DiscardOldest") \in BOOLEAN
    BY DEF B!Accepts
  <2>2. QED  BY <1>3, <2>1, Zenon
<1> HIDE DEF ok, x, left
<1>8. answer'.ok = ok
  BY <1>2
<1>9. B!Enqueue(x, "DiscardOldest")
  BY <1>1, <1>2, <1>5, <1>6, <1>7, <1>8, Zenon DEF B!Enqueue, B!Answer
<1>10. QED  BY <1>4, <1>9 DEF RingInv, x

LEMMA PeekStep ==
  ASSUME NEW s, Holds(ring, s), NEW size \in Sizes, PeekInto(size)
  PROVE  RingInv' /\ B!Peek(size)
<1> DEFINE first == [len |-> LenAt(ring.buf, ring.read_pos),
                     data |-> DataAt(ring.buf, ring.read_pos)]
           fits == ring.item_count # 0 /\ first.len <= size
<1>1. Items = s /\ s \in Seq(Piece) /\ ring.item_count = Len(s)
  BY HoldsFacts DEF Items
<1>2. /\ answer' = [fn |-> "peek", ok |-> fits, found |-> IF fits THEN <<first>> ELSE <<>>]
      /\ ring' = ring
  BY DEF PeekInto, Answer
<1>3. s # <<>> => Head(s) = first
  BY HoldsFacts DEF ItemAt
<1>4. Len(s) # 0 <=> s # <<>>
  BY <1>1, EmptySeq
<1>5. fits = B!CanPeek(s, size)
  <2>1. fits <=> B!CanPeek(s, size)
    <3> HIDE DEF first
    <3>1. QED  BY <1>1, <1>3, <1>4 DEF B!CanPeek
  <2>2. fits \in BOOLEAN /\ B!CanPeek(s, size) \in BOOLEAN
    BY DEF B!CanPeek
  <2>3. QED  BY <2>1, <2>2, Zenon
<1>6. fits => Head(s) = first
  BY <1>1, <1>3, <1>4
<1>7. Items' = s
  BY <1>1, <1>2 DEF Items
<1> HIDE DEF first, fits
<1>8. B!Peek(size)
  <2>1. (IF fits THEN <<first>> ELSE <<>>) = IF fits THEN <<Head(s)>> ELSE <<>>
    BY <1>6
  <2>2. answer' = [fn |-> "peek", ok |-> fits,
                   found |-> IF fits THEN <<Head(s)>> ELSE <<>>]
    BY <1>2, <2>1
  <2>3. QED  BY <1>1, <1>5, <1>7, <2>2, Zenon DEF B!Peek, B!Answer
<1>9. RingInv'
  BY <1>2 DEF RingInv
<1>10. QED  BY <1>8, <1>9

LEMMA DiscardStep ==
  ASSUME NEW s, Holds(ring, s), Discard
  PROVE  RingInv' /\ B!Discard
<1>1. Holds(ring', B!Without(s, 1))
  BY DiscardHolds DEF Discard
<1>2. Items = s /\ Items' = B!Without(s, 1)
  BY <1>1, HoldsFacts DEF Items
<1>3. QED  BY <1>1, <1>2 DEF RingInv, Discard, Answer, B!Discard, B!Answer

LEMMA NextRing == RingInv /\ [Next]_vars => RingInv' /\ [B!Next]_(B!vars)
<1>1. SUFFICES ASSUME RingInv, [Next]_vars
               PROVE  RingInv' /\ [B!Next]_(B!vars)
  OBVIOUS
<1>2. PICK s: Holds(ring, s)
  BY <1>1 DEF RingInv
<1>3. ASSUME NEW data \in Inputs
      PROVE  Item(data) \in {[len |-> Len(d), data |-> d]: d \in Inputs}
  BY DEF Item
<1>4. ASSUME NEW data \in Inputs, Push(data)
      PROVE  RingInv' /\ B!Next
  BY <1>2, <1>3, <1>4, PushStep DEF B!Next, B!OverflowPolicies
<1>5. ASSUME NEW data \in Inputs, PushOverwriting(data)
      PROVE  RingInv' /\ B!Next
  BY <1>2, <1>3, <1>5, PushOverwritingStep DEF B!Next, B!OverflowPolicies
<1>6. ASSUME NEW size \in Sizes, PeekInto(size)
      PROVE  RingInv' /\ B!Next
  BY <1>2, <1>6, PeekStep DEF B!Next
<1>7. ASSUME Discard
      PROVE  RingInv' /\ B!Next
  BY <1>2, <1>7, DiscardStep DEF B!Next
<1>8. ASSUME UNCHANGED vars
      PROVE  RingInv' /\ UNCHANGED B!vars
  BY <1>1, <1>8 DEF vars, RingInv, B!vars, Items
<1>9. QED  BY <1>1, <1>4, <1>5, <1>6, <1>7, <1>8 DEF Next

-----------------------------------------------------------------------------

\* Positions stay inside the buffer, and neither the bytes in use nor the number of
\* items ever exceeds the number of its bytes.
THEOREM RingTypeCorrect == Spec => []TypeOK
<1>1. RingInv => TypeOK
  BY HoldsFacts DEF RingInv, TypeOK
<1>2. QED  BY <1>1, InitRing, NextRing, PTL DEF Spec

\* `used` is always what the items in the buffer cost, and write_pos follows the last.
THEOREM RingAccounting == Spec => []Accounting
<1>1. RingInv => Accounting
  BY HoldsFacts DEF RingInv, Accounting, Items
<1>2. QED  BY <1>1, InitRing, NextRing, PTL DEF Spec

\* RamRing is the bounded FIFO: what is read is what was pushed, in order, wherever
\* prefixes and data wrap, and push_overwriting discards no item too many.
THEOREM RingRefinesFifo == Spec => RefinesBoundedFifo
BY InitRing, NextRing, PTL DEF Spec, RefinesBoundedFifo, B!Spec
=============================================================================
