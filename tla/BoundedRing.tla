---------------------------- MODULE BoundedRing ----------------------------
(***************************************************************************)
(* What a ring buffer of N bytes does with items, seen as a sequence: each  *)
(* item costs its length and a prefix of two bytes (queue/buffered.rs).     *)
(* An item is a record with a field len.                                    *)
(***************************************************************************)
EXTENDS Integers, Sequences, FiniteSetsExt

CONSTANTS N,        \* bytes of the ring
          MaxLen    \* longest item the length prefix can describe

ASSUME NAssumption == N \in Nat \ {0}
ASSUME MaxLenAssumption == MaxLen \in Nat

OverflowPolicies == {"Err", "DiscardOldest"}

Cost(x) == 2 + x.len
Used(items) ==
  LET upTo[k \in 0 .. Len(items)] == IF k = 0 THEN 0 ELSE upTo[k - 1] + Cost(items[k])
  IN  upTo[Len(items)]

\* Variant with a fault: the prefix of the new item is not counted.
HasRoomNoPrefix(items, x) == Used(items) + x.len <= N

HasRoom(items, x) == Used(items) + Cost(x) <= N

\* The items without the k oldest.
Without(items, k) == SubSeq(items, k + 1, Len(items))

\* push_overwriting discards no more than it has to.
Evictions(items, x) == Min({k \in 0 .. Len(items): HasRoom(Without(items, k), x)})

Accepts(items, x, policy) ==
  /\ x.len <= MaxLen
  /\ HasRoom(IF policy = "Err" THEN items ELSE <<>>, x)

EvictedBy(items, x, policy) == IF policy = "Err" THEN 0 ELSE Evictions(items, x)

Enqueued(items, x, policy) ==
  Append(Without(items, EvictedBy(items, x, policy)), x)

\* What peek_into finds with a buffer of `size` bytes.
CanPeek(items, size) == items # <<>> /\ Head(items).len <= size
=============================================================================
