--------------------------- MODULE SharedRamRing ---------------------------
(***************************************************************************)
(* SharedRamRing of queue/buffered.rs: producers, interrupt handlers among  *)
(* them, enqueue at any time, and signal the task that drains the ring.     *)
(* Every access to the ring is one critical section; nothing holds over     *)
(* two of them.                                                             *)
(***************************************************************************)
EXTENDS RingDrain

CONSTANT Producers

VARIABLES signal,    \* the Signal is set
          producer,  \* a producer is between the ring and the signal
          owed       \* the task took the signal and has not found the ring empty since

vars == <<drainVars, signal, producer, owed>>

-----------------------------------------------------------------------------

\* Variant with a fault: an enqueue that succeeded does not go on to the signal.
EnqueueNoSignal(p, len, policy) ==
  /\ producer[p] = "idle"
  /\ Enqueue(len, policy)
  /\ UNCHANGED <<signal, producer, owed>>

\* enqueue: the ring is locked, and released before the signal is set.
EnqueueLocked(p, len, policy) ==
  /\ producer[p] = "idle"
  /\ Enqueue(len, policy)
  /\ producer' = [producer EXCEPT ![p] = "signal"]
  /\ UNCHANGED <<signal, owed>>

EnqueueSignal(p) ==
  /\ producer[p] = "signal"
  /\ signal' = TRUE
  /\ producer' = [producer EXCEPT ![p] = "idle"]
  /\ UNCHANGED <<drainVars, owed>>

-----------------------------------------------------------------------------

FirstStep(fn) ==
  CASE fn \in {"wait", "wait_and_drain_all"} -> "wait"
    [] fn \in {"drain_one", "drain_all"} -> "front"
    [] fn \in {"pop", "peek"} -> "start"

CallTask(fn, allow, size) ==
  /\ fn \in TaskCalls
  /\ task = Idle
  /\ task' = [Idle EXCEPT !.fn = fn, !.pc = FirstStep(fn), !.allow = allow, !.size = size]
  /\ ret' = NoRet
  /\ UNCHANGED <<ring, flash, sent, gone, popped, faults, signal, producer, owed>>

\* Signal::wait takes the signal.
Wait ==
  /\ At("wait") /\ signal
  /\ signal' = FALSE
  /\ owed' = TRUE
  /\ IF task.fn = "wait" THEN Return("Ok") ELSE Goto("front") /\ UNCHANGED ret
  /\ UNCHANGED <<ring, flash, sent, gone, popped, faults, producer>>

\* pop and peek drain the ring first, if there is something in it.
StartTake ==
  /\ At("start")
  /\ Goto(IF ring = <<>> THEN "take" ELSE "front")
  /\ UNCHANGED <<ring, flash, ret, sent, gone, popped, faults, signal, producer, owed>>

NoneLeft ==
  /\ NoFront
  /\ owed' = (owed /\ ring # <<>>)
  /\ UNCHANGED <<signal, producer>>

TakeNone ==
  /\ At("take") /\ flash = <<>>
  /\ Return("None")
  /\ UNCHANGED <<ring, flash, sent, gone, popped, faults, signal, producer, owed>>

Kept == UNCHANGED <<signal, producer, owed>>

Restart ==
  /\ PowerLoss
  /\ signal' = FALSE
  /\ producer' = [p \in Producers |-> "idle"]
  /\ owed' = FALSE

-----------------------------------------------------------------------------

Init ==
  /\ DrainInit
  /\ signal = FALSE
  /\ producer = [p \in Producers |-> "idle"]
  /\ owed = FALSE

Call == \E fn \in DrainFunctions, allow \in BOOLEAN, size \in Buffers:
          CallTask(fn, allow, size)

TaskStep ==
  \/ Wait \/ StartTake \/ NoneLeft \/ TakeNone
  \/ (Front \/ PushTooBig \/ PushStored \/ PushRefused \/ Discard \/ TakeItem) /\ Kept

Produce ==
  \E p \in Producers:
    \/ \E len \in Lengths, policy \in Policies: EnqueueLocked(p, len, policy)
    \/ EnqueueSignal(p)

Next == Call \/ TaskStep \/ Produce \/ (Fail /\ Kept) \/ Restart

Spec == Init /\ [][Next]_vars

\* The executor polls the task, which calls again when a call has returned; a
\* producer that has changed the ring gets to its signal.
FairSpec ==
  /\ Spec
  /\ WF_vars(Call) /\ WF_vars(TaskStep)
  /\ \A p \in Producers: WF_vars(EnqueueSignal(p))

-----------------------------------------------------------------------------

TypeOK ==
  /\ DrainTypeOK
  /\ signal \in BOOLEAN
  /\ producer \in [Producers -> {"idle", "signal"}]
  /\ owed \in BOOLEAN

\* An item in the ring is announced: the signal is set, or its producer is about to
\* set it, or the task took the signal and has not yet found the ring empty, because
\* it is still draining or its drain ended in an error.  So a task that waits after a
\* complete drain is woken by whatever came in meanwhile.  The signal is taken before
\* the ring is looked at, and set after the ring was changed, outside the critical
\* section.
NoLostWakeup ==
  ring # <<>> => signal \/ owed \/ \E p \in Producers: producer[p] = "signal"

\* Every item leaves the ring, with a task that does nothing but wait_and_drain_all.
Drained == \A id \in 1 .. MaxSends: id \in Ids(ring) ~> id \notin Ids(ring)
=============================================================================
