---------------------------- MODULE KeyPointers ----------------------------
(***************************************************************************)
(* The key pointer cache of the map (cache/key_pointers.rs): a bounded     *)
(* list of keys, the one updated last in front, each with the location of  *)
(* its newest item.  Slots that hold None are always at the back of the    *)
(* array; the sequence here is what is before them.                        *)
(***************************************************************************)
EXTENDS Naturals, Sequences

CONSTANTS Keys,
          KeySlots   \* slots of the cache: 0 for the caches without key pointers

ASSUME KeySlotsAssumption == KeySlots \in Nat

NoKeys == <<>>

Holds(ks, k) == \E i \in DOMAIN ks: ks[i].key = k

\* The slot of a key that is held.
SlotOf(ks, k) == CHOOSE i \in DOMAIN ks: ks[i].key = k

\* key_location of a key that is held
LocationOf(ks, k) == ks[SlotOf(ks, k)]

\* Variant with a fault: the pointer stays.
KeyErasedNever(ks, k) == ks

\* notice_key_erased
KeyErased(ks, k) ==
  LET i == SlotOf(ks, k) IN
  IF Holds(ks, k) THEN SubSeq(ks, 1, i - 1) \o SubSeq(ks, i + 1, Len(ks)) ELSE ks

\* Variant with a fault: a key that has a slot keeps its location.
KeyLocatedOnce(ks, k, p, a) ==
  IF KeySlots = 0 \/ Holds(ks, k) THEN ks
  ELSE <<[key |-> k, page |-> p, addr |-> a]>>
         \o SubSeq(ks, 1, IF Len(ks) = KeySlots THEN KeySlots - 1 ELSE Len(ks))

\* notice_key_location: the key comes to the front; when it is new and every
\* slot is taken, the last one is given up.
KeyLocated(ks, k, p, a) ==
  LET others == KeyErased(ks, k) IN
  IF KeySlots = 0 THEN ks
  ELSE <<[key |-> k, page |-> p, addr |-> a]>>
         \o SubSeq(others, 1, IF Len(others) = KeySlots THEN KeySlots - 1 ELSE Len(others))
=============================================================================
