----------------------------- MODULE RingDrain -----------------------------
(***************************************************************************)
(* What BufferedQueue and SharedRamRing have in common: items wait in a RAM *)
(* ring, and a task that owns the flash queue moves them there one by one.  *)
(* The ring is the sequence BoundedFifo makes of it.  The flash queue is a  *)
(* sequence as well: what one call of QueueStorage does to it is what Fifo  *)
(* allows, seen by a caller that waits for the result.                      *)
(*                                                                         *)
(* Items carry a number, given when they are accepted.  It is not in the    *)
(* code; it tells equal items apart.                                        *)
(***************************************************************************)
EXTENDS BoundedRing, FiniteSets

CONSTANTS Lengths,     \* lengths of the items
          Buffers,     \* lengths of the buffers the task passes
          Policies,    \* overflow policies in use
          TaskCalls,   \* functions the task calls
          FlashLen,    \* longest item the flash queue takes
          FlashMin,    \* items the flash queue holds before it may be full
          FlashMax,    \* items it never exceeds
          MaxSends,    \* bound on accepted items
          MaxFaults    \* bound on failed calls and power losses

ASSUME LengthsAssumption == Lengths \subseteq Nat
ASSUME BuffersAssumption == Buffers \subseteq Nat
ASSUME PoliciesAssumption == Policies \subseteq OverflowPolicies
ASSUME FlashLenAssumption == FlashLen \in Nat
ASSUME FlashAssumption == FlashMin \in Nat \ {0} /\ FlashMax \in Nat /\ FlashMin <= FlashMax
ASSUME BoundsAssumption == MaxSends \in Nat /\ MaxFaults \in Nat

VARIABLES ring,      \* the items in RAM
          flash,     \* the items in flash
          task,      \* the call that is running
          ret,       \* what the last call returned
          sent,      \* how many items have been accepted
          gone,      \* items that left for a documented reason
          popped,    \* the items pop has returned
          faults

drainVars == <<ring, flash, task, ret, sent, gone, popped, faults>>

-----------------------------------------------------------------------------

Item == [id: Nat, len: Nat]
Ids(items) == {items[k].id: k \in DOMAIN items}

NoHeld == [id |-> 0, len |-> 0]

DrainFunctions == {"drain_one", "drain_all", "wait", "wait_and_drain_all", "pop", "peek"}

TaskType == [fn: DrainFunctions \cup {"none"},
             pc: {"idle", "wait", "start", "front", "push", "discard", "take"},
             held: Item, allow: BOOLEAN, size: Nat]

Idle == [fn |-> "none", pc |-> "idle", held |-> NoHeld, allow |-> FALSE, size |-> 0]

\* "false" is Ok(false), "None" is Ok(None).
RetType == [fn: DrainFunctions \cup {"none"},
            status: {"none", "Ok", "false", "None", "ItemTooBig", "FullStorage",
                     "BufferTooSmall", "Storage", "PowerLoss"}]

NoRet == [fn |-> "none", status |-> "none"]

At(pc) == task.pc = pc
Goto(pc) == task' = [task EXCEPT !.pc = pc]
Return(status) == task' = Idle /\ ret' = [fn |-> task.fn, status |-> status]

-----------------------------------------------------------------------------
(* The ring *)

\* An enqueue that is accepted.  What it evicts is gone.
Enqueue(len, policy) ==
  LET x == [id |-> sent + 1, len |-> len] IN
  /\ sent < MaxSends
  /\ Accepts(ring, x, policy)
  /\ ring' = Enqueued(ring, x, policy)
  /\ gone' = gone \cup Ids(SubSeq(ring, 1, EvictedBy(ring, x, policy)))
  /\ sent' = sent + 1
  /\ UNCHANGED <<flash, task, ret, popped, faults>>

\* Variant with a fault: the front item leaves the ring when it is read.
FrontTakes ==
  /\ At("front")
  /\ CanPeek(ring, task.size)
  /\ task' = [task EXCEPT !.pc = "push", !.held = Head(ring)]
  /\ ring' = Without(ring, 1)
  /\ UNCHANGED <<flash, ret, sent, gone, popped, faults>>

\* drain_one: copy the front item to the caller's buffer.
Front ==
  /\ At("front")
  /\ CanPeek(ring, task.size)
  /\ task' = [task EXCEPT !.pc = "push", !.held = Head(ring)]
  /\ UNCHANGED <<ring, flash, ret, sent, gone, popped, faults>>

\* drain_one finds no item, or none that its buffer can take.
NoFront ==
  /\ At("front") /\ ~CanPeek(ring, task.size)
  /\ IF task.fn \in {"pop", "peek"} THEN Goto("take") /\ UNCHANGED ret
     ELSE IF task.fn = "drain_one" THEN Return("false")
     ELSE Return("Ok")
  /\ UNCHANGED <<ring, flash, sent, gone, popped, faults>>

\* Variant with a fault: the item that was stored stays in the ring.
DiscardForgotten ==
  /\ At("discard")
  /\ IF task.fn = "drain_one" THEN Return("Ok") ELSE Goto("front") /\ UNCHANGED ret
  /\ UNCHANGED <<ring, flash, sent, gone, popped, faults>>

\* discard_oldest, whatever is the oldest item by now.
Discard ==
  /\ At("discard")
  /\ ring' = Without(ring, 1)
  /\ IF task.fn = "drain_one" THEN Return("Ok") ELSE Goto("front") /\ UNCHANGED ret
  /\ UNCHANGED <<flash, sent, gone, popped, faults>>

-----------------------------------------------------------------------------
(* The flash queue *)

\* How many of the oldest items a push may drop: pages are erased whole.
Drops(allow) == 0 .. IF allow /\ Len(flash) >= FlashMin THEN Len(flash) ELSE 0

\* The queues a push of x may leave.
Pushes(x, allow) ==
  {Append(Without(flash, k), x): k \in {k \in Drops(allow): Len(flash) - k < FlashMax}}

\* The queues a push that was cut short may leave.
CutPushes(x, allow) == Pushes(x, allow) \cup {Without(flash, k): k \in Drops(allow)}

LeavesFlash == Ids(flash) \ Ids(flash')

TooBig == task.held.len > FlashLen

PushTooBig ==
  /\ At("push") /\ TooBig
  /\ Return("ItemTooBig")
  /\ UNCHANGED <<ring, flash, sent, gone, popped, faults>>

PushStored ==
  /\ At("push") /\ ~TooBig
  /\ flash' \in Pushes(task.held, task.allow)
  /\ gone' = gone \cup LeavesFlash
  /\ Goto("discard")
  /\ UNCHANGED <<ring, ret, sent, popped, faults>>

PushRefused ==
  /\ At("push") /\ ~TooBig
  /\ Len(flash) >= FlashMin /\ ~task.allow
  /\ Return("FullStorage")
  /\ UNCHANGED <<ring, flash, sent, gone, popped, faults>>

\* pop and peek of the flash queue when it has an item.
TakeItem ==
  /\ At("take") /\ flash # <<>>
  /\ IF Head(flash).len > task.size
     THEN Return("BufferTooSmall") /\ UNCHANGED <<flash, gone, popped>>
     ELSE /\ Return("Ok")
          /\ IF task.fn = "pop"
             THEN /\ flash' = Without(flash, 1)
                  /\ popped' = Append(popped, Head(flash))
                  /\ gone' = gone \cup {Head(flash).id}
             ELSE UNCHANGED <<flash, gone, popped>>
  /\ UNCHANGED <<ring, sent, faults>>

-----------------------------------------------------------------------------
(* Faults *)

\* The flash contents and the items gone when the running call stops here.
CutShort ==
  CASE At("push") /\ ~TooBig -> flash' \in CutPushes(task.held, task.allow)
    [] At("take") /\ task.fn = "pop" /\ flash # <<>> ->
         flash' \in {flash, Without(flash, 1)}
    [] OTHER -> UNCHANGED flash

\* The flash driver fails, or the future is dropped at an await point.
Fail ==
  /\ faults < MaxFaults
  /\ task.pc \in {"wait", "push", "take"}
  /\ CutShort
  /\ gone' = gone \cup LeavesFlash
  /\ faults' = faults + 1
  /\ Return("Storage")
  /\ UNCHANGED <<ring, sent, popped>>

\* What is in RAM is gone.
PowerLoss ==
  /\ faults < MaxFaults
  /\ CutShort
  /\ gone' = gone \cup LeavesFlash \cup Ids(ring)
  /\ ring' = <<>>
  /\ faults' = faults + 1
  /\ Return("PowerLoss")
  /\ UNCHANGED <<sent, popped>>

-----------------------------------------------------------------------------

DrainInit ==
  /\ ring = <<>> /\ flash = <<>>
  /\ task = Idle /\ ret = NoRet
  /\ sent = 0 /\ gone = {} /\ popped = <<>> /\ faults = 0

DrainTypeOK ==
  /\ ring \in Seq(Item) /\ Used(ring) <= N
  /\ flash \in Seq(Item) /\ Len(flash) <= FlashMax
  /\ task \in TaskType
  /\ ret \in RetType
  /\ sent \in 0 .. MaxSends
  /\ gone \in SUBSET (1 .. sent)
  /\ popped \in Seq(Item)
  /\ faults \in 0 .. MaxFaults

\* An item that was accepted is in RAM or in flash until it is popped, evicted by
\* the overflow policy, overwritten in flash because the caller allowed it, or lost
\* with the RAM.  The drain reads the front item, awaits the flash and then removes
\* an item; every failure in between must leave the item somewhere.
NothingLost == \A id \in 1 .. sent: id \in Ids(ring) \cup Ids(flash) \cup gone

\* Everything from the first item popped to the last one in RAM.
History == popped \o flash \o ring

\* Items are popped, stored and buffered in the order in which they were accepted.
\* The only repetition is an item that is in flash and, being on its way or because
\* the call that stored it was cut short, still in RAM or in flash again.
InOrder ==
  \A k \in 1 .. Len(History) - 1:
    /\ History[k].id <= History[k + 1].id
    /\ History[k].id = History[k + 1].id => faults > 0 \/ At("discard")
=============================================================================
