------------------------------ MODULE RamRing ------------------------------
(***************************************************************************)
(* RamRing of queue/buffered.rs, byte by byte: a buffer that wraps around,  *)
(* in which every item follows its length, low byte first.                  *)
(***************************************************************************)
EXTENDS Integers, Sequences, FiniteSetsExt

CONSTANTS N,          \* bytes of the buffer
          ByteBase,   \* values of a byte: 256 in the code
          Inputs,     \* the byte sequences that are pushed
          Sizes       \* sizes of the buffers items are copied to

ASSUME NAssumption == N \in Nat \ {0}
ASSUME ByteBaseAssumption == ByteBase \in Nat \ {0, 1}

Byte == 0 .. ByteBase - 1
Cells == 0 .. N - 1
MaxLen == ByteBase * ByteBase - 1

ASSUME InputsAssumption == Inputs \subseteq Seq(Byte)
ASSUME SizesAssumption == Sizes \subseteq Nat

VARIABLES ring,     \* the RamRing
          answer    \* the operation that has just been made and what it returned

vars == <<ring, answer>>

Ring == [buf: [Cells -> Byte], read_pos: Cells, write_pos: Cells,
         used: 0 .. N, item_count: 0 .. N]

EmptyRing == [buf |-> [c \in Cells |-> 0], read_pos |-> 0, write_pos |-> 0,
              used |-> 0, item_count |-> 0]

-----------------------------------------------------------------------------

Ahead(c, n) == (c + n) % N

\* Variant with a fault: the low byte only.
LenAtLow(buf, c) == buf[c]

\* The length whose prefix starts at cell c.
LenAt(buf, c) == buf[c] + ByteBase * buf[Ahead(c, 1)]

DataAt(buf, c) == [j \in 1 .. LenAt(buf, c) |-> buf[Ahead(c, 1 + j)]]

\* Variant with a fault: the prefix stays accounted for.
DiscardOldestKeepsPrefix(r) ==
  IF r.item_count = 0 THEN r
  ELSE [r EXCEPT !.read_pos = Ahead(@, 2 + LenAt(r.buf, @)),
                 !.used = @ - LenAt(r.buf, r.read_pos),
                 !.item_count = @ - 1]

DiscardOldest(r) ==
  IF r.item_count = 0 THEN r
  ELSE [r EXCEPT !.read_pos = Ahead(@, 2 + LenAt(r.buf, @)),
                 !.used = @ - (2 + LenAt(r.buf, r.read_pos)),
                 !.item_count = @ - 1]

\* The bytes write_raw writes one by one, and the ring after that.
Encoded(data) == <<Len(data) % ByteBase, (Len(data) \div ByteBase) % ByteBase>> \o data

WriteRaw(r, data) ==
  LET bytes == Encoded(data)
      place(c) == (c - r.write_pos + N) % N
  IN  [r EXCEPT !.buf = [c \in Cells |-> IF place(c) < Len(bytes)
                                         THEN bytes[place(c) + 1] ELSE @[c]],
                !.write_pos = Ahead(@, Len(bytes)),
                !.used = @ + Len(bytes),
                !.item_count = @ + 1]

\* Variant with a fault: the prefix is not counted.
FitsNoPrefix(r, data) == r.used + Len(data) <= N

Fits(r, data) == r.used + 2 + Len(data) <= N

\* push_overwriting discards the oldest item until there is room.
MakeRoom(r, data) ==
  LET after[k \in 0 .. r.item_count] ==
        IF k = 0 THEN r ELSE DiscardOldest(after[k - 1])
  IN  after[Min({k \in 0 .. r.item_count: Fits(after[k], data)})]

-----------------------------------------------------------------------------

Answer(fn, ok, found) == answer' = [fn |-> fn, ok |-> ok, found |-> found]

Init ==
  /\ ring = EmptyRing
  /\ answer = [fn |-> "none", ok |-> TRUE, found |-> <<>>]

Push(data) ==
  /\ Answer("Err", Len(data) <= MaxLen /\ Fits(ring, data), <<>>)
  /\ ring' = IF answer'.ok THEN WriteRaw(ring, data) ELSE ring

PushOverwriting(data) ==
  /\ Answer("DiscardOldest", Len(data) <= MaxLen /\ 2 + Len(data) <= N, <<>>)
  /\ ring' = IF answer'.ok THEN WriteRaw(MakeRoom(ring, data), data) ELSE ring

PeekInto(size) ==
  LET len == LenAt(ring.buf, ring.read_pos)
      fits == ring.item_count # 0 /\ len <= size
  IN
  /\ Answer("peek", fits,
            IF fits THEN <<[len |-> len, data |-> DataAt(ring.buf, ring.read_pos)]>>
            ELSE <<>>)
  /\ UNCHANGED ring

Discard ==
  /\ Answer("discard", TRUE, <<>>)
  /\ ring' = DiscardOldest(ring)

Next ==
  \/ \E data \in Inputs: Push(data) \/ PushOverwriting(data)
  \/ \E size \in Sizes: PeekInto(size)
  \/ Discard

Spec == Init /\ [][Next]_vars

-----------------------------------------------------------------------------

TypeOK == ring \in Ring

\* The items in a ring, found by following the prefixes from read_pos.
ItemsOf(r) ==
  LET start[k \in 0 .. r.item_count] ==
        IF k = 0 THEN r.read_pos
        ELSE Ahead(start[k - 1], 2 + LenAt(r.buf, start[k - 1]))
  IN  [k \in 1 .. r.item_count |->
        [len |-> LenAt(r.buf, start[k - 1]), data |-> DataAt(r.buf, start[k - 1])]]

Items == ItemsOf(ring)

B == INSTANCE BoundedFifo WITH
  items <- Items,
  Inputs <- {[len |-> Len(data), data |-> data]: data \in Inputs}

\* The counters say what is in the buffer: `used` is what the items cost, and the
\* write position follows the last of them.  Both are updated by addition and
\* subtraction of lengths read back from the buffer, never recomputed.
Accounting ==
  /\ ring.used = B!Used(Items)
  /\ ring.write_pos = Ahead(ring.read_pos, ring.used)

\* The ring is a FIFO that holds as many items as cost N bytes: prefixes and data
\* that wrap around the end, a full ring and items without data included, what is
\* read is what was pushed, and push_overwriting discards no item too many.
RefinesBoundedFifo == B!Spec
=============================================================================
