---------------------------- MODULE BoundedFifo ----------------------------
(***************************************************************************)
(* What RamRing promises: a FIFO of items bounded by the bytes they cost.   *)
(***************************************************************************)
EXTENDS BoundedRing

CONSTANTS Inputs,   \* the items that are offered
          Sizes     \* sizes of the buffers items are copied to

VARIABLES items,    \* the items, oldest first
          answer    \* the operation that has just been made and what it returned

vars == <<items, answer>>

NoAnswer == [fn |-> "none", ok |-> TRUE, found |-> <<>>]
Answer(fn, ok, found) == answer' = [fn |-> fn, ok |-> ok, found |-> found]

Init == items = <<>> /\ answer = NoAnswer

Enqueue(x, policy) ==
  /\ Answer(policy, Accepts(items, x, policy), <<>>)
  /\ items' = IF answer'.ok THEN Enqueued(items, x, policy) ELSE items

\* peek_into returns at most one item, in a sequence here.
Peek(size) ==
  /\ Answer("peek", CanPeek(items, size),
            IF CanPeek(items, size) THEN <<Head(items)>> ELSE <<>>)
  /\ UNCHANGED items

Discard ==
  /\ Answer("discard", TRUE, <<>>)
  /\ items' = Without(items, 1)

Next ==
  \/ \E x \in Inputs, policy \in OverflowPolicies: Enqueue(x, policy)
  \/ \E size \in Sizes: Peek(size)
  \/ Discard

Spec == Init /\ [][Next]_vars
=============================================================================
