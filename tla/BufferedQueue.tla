--------------------------- MODULE BufferedQueue ---------------------------
(***************************************************************************)
(* BufferedQueue of queue/buffered.rs: one owner that enqueues into the RAM *)
(* ring and drains it to the flash queue.  Every function takes &mut self,  *)
(* so nothing happens to the ring while a drain awaits the flash, except    *)
(* that the future is dropped or the power is lost.                         *)
(***************************************************************************)
EXTENDS RingDrain

Idling == task = Idle

EnqueueItem(len, policy) == Idling /\ Enqueue(len, policy)

\* pop and peek read the flash first; only a drain may overwrite.
CallTask(fn, allow, size) ==
  /\ fn \in TaskCalls \cap {"drain_one", "drain_all", "pop", "peek"}
  /\ allow => fn \in {"drain_one", "drain_all"}
  /\ Idling
  /\ task' = [Idle EXCEPT !.fn = fn, !.allow = allow, !.size = size,
                          !.pc = IF fn \in {"pop", "peek"} THEN "take" ELSE "front"]
  /\ ret' = NoRet
  /\ UNCHANGED <<ring, flash, sent, gone, popped, faults>>

\* Variant with a fault: pop does not look at the ring once the flash is empty.
TakeFromRingNever ==
  /\ At("take") /\ flash = <<>>
  /\ Return("None")
  /\ UNCHANGED <<ring, flash, sent, gone, popped, faults>>

\* The flash is empty: pop and peek read the ring.  pop discards what it returns.
TakeFromRing ==
  /\ At("take") /\ flash = <<>>
  /\ Return(IF CanPeek(ring, task.size) THEN "Ok" ELSE "None")
  /\ IF CanPeek(ring, task.size) /\ task.fn = "pop"
     THEN /\ ring' = Without(ring, 1)
          /\ popped' = Append(popped, Head(ring))
          /\ gone' = gone \cup {Head(ring).id}
     ELSE UNCHANGED <<ring, popped, gone>>
  /\ UNCHANGED <<flash, sent, faults>>

\* into_storage, and a new BufferedQueue around the storage.
IntoStorage ==
  /\ Idling
  /\ ring' = <<>>
  /\ gone' = gone \cup Ids(ring)
  /\ UNCHANGED <<flash, task, ret, sent, popped, faults>>

-----------------------------------------------------------------------------

Init == DrainInit

Call == \E fn \in TaskCalls, allow \in BOOLEAN, size \in Buffers: CallTask(fn, allow, size)

TaskStep == \/ Front \/ NoFront \/ PushTooBig \/ PushStored \/ PushRefused \/ Discard
            \/ TakeItem \/ TakeFromRing

Next ==
  \/ \E len \in Lengths, policy \in Policies: EnqueueItem(len, policy)
  \/ Call \/ TaskStep \/ IntoStorage \/ Fail \/ PowerLoss

Spec == Init /\ [][Next]_drainVars

-----------------------------------------------------------------------------

TypeOK == DrainTypeOK

\* pop and peek answer None only when there is nothing in flash and nothing in RAM:
\* a consumer that stops at None has seen every item.  Two sources are asked one
\* after the other, each with its own notion of "nothing for you".
NoneMeansEmpty ==
  [][task # Idle /\ task' = Idle /\ ret'.status = "None" => flash = <<>> /\ ring = <<>>]_drainVars
=============================================================================
