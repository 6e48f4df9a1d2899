---------------------------- MODULE SharedProofs ----------------------------
\* SharedRamRing wakes its task, and loses nothing when the policy is Err, for all
\* values of the constants.
EXTENDS SharedRamRing, DrainProofs

LEMMA CallKeeps ==
  ASSUME DrainInv, Call
  PROVE  DrainInv'
<1>1. PICK fn \in DrainFunctions, allow \in BOOLEAN, size \in Buffers:
        CallTask(fn, allow, size)
  BY DEF Call
<1>2. /\ task' = [Idle EXCEPT !.fn = fn, !.pc = FirstStep(fn),
                              !.allow = allow, !.size = size]
      /\ UNCHANGED <<ring, flash, sent, gone>>
  BY <1>1 DEF CallTask
<1>3. FirstStep(fn) \in {"wait", "front", "start"}
  BY DEF FirstStep, DrainFunctions
<1>4. task' \in TaskType /\ task'.pc \notin {"push", "discard"}
  BY <1>2, <1>3, BuffersAssumption DEF Idle, TaskType, NoHeld, Item
<1>5. QED  BY <1>2, <1>4, ItemsStay

LEMMA WaitKeeps ==
  ASSUME DrainInv, Wait
  PROVE  DrainInv'
<1>1. UNCHANGED <<ring, flash, sent, gone>> /\ (Return("Ok") \/ Goto("front"))
  BY DEF Wait
<1>2. task' \in TaskType /\ task'.pc \in {"idle", "front"}
  BY <1>1, ReturnType, GotoType DEF DrainInv, TaskOK
<1>3. QED  BY <1>1, <1>2, ItemsStay

LEMMA StartTakeKeeps ==
  ASSUME DrainInv, StartTake
  PROVE  DrainInv'
<1>1. UNCHANGED <<ring, flash, sent, gone>> /\ (Goto("take") \/ Goto("front"))
  BY DEF StartTake
<1>2. task' \in TaskType /\ task'.pc \in {"take", "front"}
  BY <1>1, GotoType DEF DrainInv, TaskOK
<1>3. QED  BY <1>1, <1>2, ItemsStay

LEMMA TakeNoneKeeps ==
  ASSUME DrainInv, TakeNone
  PROVE  DrainInv'
<1>1. UNCHANGED <<ring, flash, sent, gone>> /\ Return("None")
  BY DEF TakeNone
<1>2. QED  BY <1>1, ReturnType, ItemsStay

\* With the policy Err, what producers have put into the ring while the task drains
\* it is in RAM or in flash until it was popped, overwritten or lost with the RAM.
\* (With DiscardOldest it is not.)
THEOREM SharedNothingLost ==
  ASSUME Policies \subseteq {"Err"}
  PROVE  Spec => []NothingLost
<1>1. Init => DrainInv
  BY DrainInvInit DEF Init
<1>2. DrainInv /\ [Next]_vars => DrainInv'
  <2> SUFFICES ASSUME DrainInv, [Next]_vars
               PROVE  DrainInv'
    OBVIOUS
  <2>1. CASE Produce
    <3>1. ASSUME NEW p \in Producers, NEW len \in Lengths, NEW policy \in Policies,
                 EnqueueLocked(p, len, policy)
          PROVE  DrainInv'
      <4>1. len \in Nat /\ policy = "Err"
        BY LengthsAssumption
      <4>2. QED  BY <3>1, <4>1, EnqueueKeeps DEF EnqueueLocked
    <3>2. ASSUME NEW p \in Producers, EnqueueSignal(p)
          PROVE  DrainInv'
      BY <3>2, DrainStutters DEF EnqueueSignal
    <3>3. QED  BY <2>1, <3>1, <3>2 DEF Produce
  <2>2. CASE Call
    BY <2>2, CallKeeps
  <2>3. CASE TaskStep
    <3>1. CASE NoneLeft
      BY <3>1, NoFrontKeeps DEF NoneLeft
    <3>2. QED
      BY <2>3, <3>1, WaitKeeps, StartTakeKeeps, TakeNoneKeeps, FrontKeeps, PushStoredKeeps,
         PushRefusedKeeps, DiscardKeeps, TakeItemKeeps DEF TaskStep
  <2>4. CASE Fail
    BY <2>4, FailKeeps
  <2>5. CASE Restart
    BY <2>5, PowerLossKeeps DEF Restart
  <2>6. CASE UNCHANGED vars
    BY <2>6, DrainStutters DEF vars
  <2>7. QED  BY <2>1, <2>2, <2>3, <2>4, <2>5, <2>6 DEF Next
<1>3. DrainInv => NothingLost
  BY DEF DrainInv
<1>4. QED  BY <1>1, <1>2, <1>3, PTL DEF Spec

-----------------------------------------------------------------------------

WakeInv ==
  /\ ring \in Seq(Item) /\ sent \in Nat
  /\ producer \in [Producers -> {"idle", "signal"}]
  /\ NoLostWakeup

\* The ring grows by an enqueue only, whose producer then has the signal to set.
LEMMA WakeInvStep == WakeInv /\ [Next]_vars => WakeInv'
<1> SUFFICES ASSUME WakeInv, [Next]_vars
             PROVE  WakeInv'
  OBVIOUS
<1> USE DEF WakeInv, NoLostWakeup
<1>1. ASSUME UNCHANGED <<ring, sent, signal, producer, owed>>
      PROVE  WakeInv'
  BY <1>1
<1>2. ASSUME NEW p \in Producers, NEW len \in Lengths, NEW policy \in Policies,
             EnqueueLocked(p, len, policy)
      PROVE  WakeInv'
  <2> DEFINE x == [id |-> sent + 1, len |-> len]
             k == EvictedBy(ring, x, policy)
  <2>1. /\ Accepts(ring, x, policy) /\ sent' = sent + 1
        /\ ring' = Append(Without(ring, k), x)
        /\ producer' = [producer EXCEPT ![p] = "signal"]
    BY <1>2 DEF EnqueueLocked, Enqueue, Enqueued
  <2>2. x \in Item
    BY LengthsAssumption DEF Item
  <2>3. k \in 0 .. Len(ring)
    BY <2>1, EvictionsInRange
  <2> HIDE DEF k, x
  <2>4. ring' \in Seq(Item)
    BY <2>1, <2>2, <2>3, WithoutProperties, IdsAppend
  <2>5. producer' \in [Producers -> {"idle", "signal"}] /\ producer'[p] = "signal"
    BY <2>1
  <2>6. QED  BY <2>1, <2>4, <2>5
<1>3. ASSUME NEW p \in Producers, EnqueueSignal(p)
      PROVE  WakeInv'
  BY <1>3 DEF EnqueueSignal, drainVars
<1>4. CASE Call
  BY <1>1, <1>4 DEF Call, CallTask
<1>5. CASE Wait
  BY <1>5 DEF Wait
<1>6. CASE StartTake
  BY <1>1, <1>6 DEF StartTake
<1>7. CASE NoneLeft
  BY <1>7 DEF NoneLeft, NoFront
<1>8. CASE TakeNone
  BY <1>1, <1>8 DEF TakeNone
<1>9. CASE (Front \/ PushTooBig \/ PushStored \/ PushRefused \/ TakeItem \/ Fail) /\ Kept
  BY <1>1, <1>9 DEF Kept, Front, PushTooBig, PushStored, PushRefused, TakeItem, Fail
<1>10. CASE Discard /\ Kept
  <2>1. ring' = Without(ring, 1) /\ UNCHANGED <<sent, signal, producer, owed>>
    BY <1>10 DEF Discard, Kept
  <2>2. CASE ring # <<>>
    BY <2>1, <2>2, IdsTail
  <2>3. CASE ring = <<>>
    <3>1. Len(ring) = 0 /\ SubSeq(ring, 2, 0) = <<>>
      BY <2>3, SubSeqEmpty, EmptySeq
    <3>2. ring' = <<>>
      BY <2>1, <3>1 DEF Without
    <3>3. QED  BY <2>1, <3>2, EmptySeq
  <2>4. QED  BY <2>2, <2>3
<1>11. CASE Restart
  BY <1>11 DEF Restart, PowerLoss
<1>12. CASE UNCHANGED vars
  BY <1>1, <1>12 DEF vars, drainVars
<1>13. QED
  BY <1>2, <1>3, <1>4, <1>5, <1>6, <1>7, <1>8, <1>9, <1>10, <1>11, <1>12
  DEF Next, Produce, TaskStep

\* What is in the ring has been announced to the task, for any number of producers,
\* both policies, failed calls, dropped futures and power losses.
THEOREM SharedNoLostWakeup == Spec => []NoLostWakeup
<1>1. Init => WakeInv
  BY DEF Init, DrainInit, WakeInv, NoLostWakeup
<1>2. WakeInv => NoLostWakeup
  BY DEF WakeInv
<1>3. QED  BY <1>1, <1>2, WakeInvStep, PTL DEF Spec

-----------------------------------------------------------------------------

LEMMA CallOrder ==
  ASSUME OrderInv, Call
  PROVE  OrderInv'
<1>1. PICK fn \in DrainFunctions, allow \in BOOLEAN, size \in Buffers:
        CallTask(fn, allow, size)
  BY DEF Call
<1>2. /\ task = Idle
      /\ task' = [Idle EXCEPT !.fn = fn, !.pc = FirstStep(fn),
                              !.allow = allow, !.size = size]
      /\ UNCHANGED <<ring, flash, popped, sent, faults>>
  BY <1>1 DEF CallTask
<1>3. FirstStep(fn) \in {"wait", "front", "start"}
  BY DEF FirstStep, DrainFunctions
<1>4. task' \in TaskType /\ task'.pc \notin {"push", "discard"} /\ ~At("discard")
  BY <1>2, <1>3, BuffersAssumption DEF Idle, TaskType, NoHeld, Item, At
<1>5. QED  BY <1>2, <1>4, OrderStays

\* The steps of the task that move no item.
LEMMA WaitOrder ==
  ASSUME OrderInv, Wait \/ StartTake \/ TakeNone
  PROVE  OrderInv'
<1>1. UNCHANGED <<ring, flash, popped, sent, faults>> /\ ~At("discard")
  BY DEF Wait, StartTake, TakeNone, At
<1>2. Return("Ok") \/ Return("None") \/ Goto("front") \/ Goto("take")
  BY DEF Wait, StartTake, TakeNone
<1>3. task' \in TaskType /\ task'.pc \in {"idle", "front", "take"}
  BY <1>2, ReturnType, GotoType DEF OrderInv, OrderTypes
<1>4. QED  BY <1>1, <1>3, OrderStays

\* Items of SharedRamRing keep the order in which they were accepted, with either policy:
\* an item that DiscardOldest evicts while it is on its way still comes before what is in
\* the ring.
THEOREM SharedInOrder == Spec => []InOrder
<1>1. Init => OrderInv
  BY OrderInit DEF Init
<1>2. OrderInv /\ [Next]_vars => OrderInv'
  <2> SUFFICES ASSUME OrderInv, [Next]_vars
               PROVE  OrderInv'
    OBVIOUS
  <2>1. CASE Produce
    <3>1. ASSUME NEW p \in Producers, NEW len \in Lengths, NEW policy \in Policies,
                 EnqueueLocked(p, len, policy)
          PROVE  OrderInv'
      <4>1. len \in Nat
        BY LengthsAssumption
      <4>2. QED  BY <3>1, <4>1, EnqueueOrder DEF EnqueueLocked
    <3>2. ASSUME NEW p \in Producers, EnqueueSignal(p)
          PROVE  OrderInv'
      BY <3>2, OrderStutters DEF EnqueueSignal
    <3>3. QED  BY <2>1, <3>1, <3>2 DEF Produce
  <2>2. CASE Call
    BY <2>2, CallOrder
  <2>3. CASE TaskStep
    <3>1. CASE NoneLeft
      BY <3>1, NoFrontOrder DEF NoneLeft
    <3>2. QED
      BY <2>3, <3>1, WaitOrder, FrontOrder, PushStoredOrder, PushRefusedOrder, DiscardOrder,
         TakeItemOrder DEF TaskStep
  <2>4. CASE Fail
    BY <2>4, FailOrder
  <2>5. CASE Restart
    BY <2>5, PowerLossOrder DEF Restart
  <2>6. CASE UNCHANGED vars
    BY <2>6, OrderStutters DEF vars
  <2>7. QED  BY <2>1, <2>2, <2>3, <2>4, <2>5, <2>6 DEF Next
<1>3. QED  BY <1>1, <1>2, OrderInvInOrder, PTL DEF Spec

-----------------------------------------------------------------------------

SharedTypeInv ==
  /\ TypeInv
  /\ signal \in BOOLEAN /\ owed \in BOOLEAN
  /\ producer \in [Producers -> {"idle", "signal"}]

LEMMA CallTypes ==
  ASSUME TypeInv, Call
  PROVE  TypeInv'
<1>1. PICK fn \in DrainFunctions, allow \in BOOLEAN, size \in Buffers:
        CallTask(fn, allow, size)
  BY DEF Call
<1>2. /\ task' = [Idle EXCEPT !.fn = fn, !.pc = FirstStep(fn),
                              !.allow = allow, !.size = size]
      /\ ret' = NoRet
      /\ UNCHANGED <<ring, flash, sent, gone, popped, faults>>
  BY <1>1 DEF CallTask
<1>3. FirstStep(fn) \in {"wait", "front", "start"}
  BY DEF FirstStep, DrainFunctions
<1>4. task' \in TaskType /\ task'.pc # "push" /\ ret' \in RetType
  BY <1>2, <1>3, BuffersAssumption DEF Idle, TaskType, NoHeld, Item, NoRet, RetType
<1>5. QED  BY <1>2, <1>4, TypesStay

LEMMA WaitTypes ==
  ASSUME TypeInv, Wait \/ StartTake \/ TakeNone
  PROVE  TypeInv'
<1>1. UNCHANGED <<ring, flash, sent, gone, popped, faults>>
  BY DEF Wait, StartTake, TakeNone
<1>2. \/ Return("Ok") \/ Return("None")
      \/ (Goto("front") \/ Goto("take")) /\ UNCHANGED ret
  BY DEF Wait, StartTake, TakeNone
<1>3. task' \in TaskType /\ task'.pc # "push" /\ ret' \in RetType
  BY <1>2, ReturnTypes, GotoType DEF TypeInv, DrainTypeOK
<1>4. QED  BY <1>1, <1>3, TypesStay

\* SharedRamRing keeps its types, for any number of producers and both policies: the
\* items in RAM never cost more than the ring has bytes, whoever enqueues in between.
THEOREM SharedTypeCorrect == Spec => []TypeOK
<1>1. Init => SharedTypeInv
  BY TypeInvInit DEF Init, SharedTypeInv
<1>2. SharedTypeInv /\ [Next]_vars => SharedTypeInv'
  <2> SUFFICES ASSUME SharedTypeInv, [Next]_vars
               PROVE  SharedTypeInv'
    OBVIOUS
  <2> TypeInv
    BY DEF SharedTypeInv
  <2>1. CASE Produce
    <3>1. ASSUME NEW p \in Producers, NEW len \in Lengths, NEW policy \in Policies,
                 EnqueueLocked(p, len, policy)
          PROVE  SharedTypeInv'
      <4>1. len \in Nat
        BY LengthsAssumption
      <4>2. TypeInv'
        BY <3>1, <4>1, EnqueueTypes DEF EnqueueLocked
      <4>3. QED  BY <3>1, <4>2 DEF EnqueueLocked, SharedTypeInv
    <3>2. ASSUME NEW p \in Producers, EnqueueSignal(p)
          PROVE  SharedTypeInv'
      <4>1. TypeInv'
        BY <3>2, TypesStutter DEF EnqueueSignal
      <4>2. QED  BY <3>2, <4>1 DEF EnqueueSignal, SharedTypeInv
    <3>3. QED  BY <2>1, <3>1, <3>2 DEF Produce
  <2>2. CASE Call
    <3>1. UNCHANGED <<signal, producer, owed>>
      BY <2>2 DEF Call, CallTask
    <3>2. QED  BY <2>2, <3>1, CallTypes DEF SharedTypeInv
  <2>3. CASE Wait \/ StartTake \/ TakeNone
    <3>1. signal' \in BOOLEAN /\ owed' \in BOOLEAN /\ UNCHANGED producer
      BY <2>3 DEF Wait, StartTake, TakeNone, SharedTypeInv
    <3>2. QED  BY <2>3, <3>1, WaitTypes DEF SharedTypeInv
  <2>4. CASE NoneLeft
    <3>1. owed' \in BOOLEAN /\ UNCHANGED <<signal, producer>> /\ NoFront
      BY <2>4 DEF NoneLeft
    <3>2. QED  BY <3>1, NoFrontTypes DEF SharedTypeInv
  <2>5. CASE (Front \/ PushTooBig \/ PushStored \/ PushRefused \/ Discard \/ TakeItem) /\ Kept
    <3>1. TypeInv'
      BY <2>5, FrontTypes, PushStoredTypes, PushRefusedTypes, DiscardTypes, TakeItemTypes
    <3>2. QED  BY <2>5, <3>1 DEF Kept, SharedTypeInv
  <2>6. CASE Fail /\ Kept
    BY <2>6, FailTypes DEF Kept, SharedTypeInv
  <2>7. CASE Restart
    BY <2>7, PowerLossTypes DEF Restart, SharedTypeInv
  <2>8. CASE UNCHANGED vars
    BY <2>8, TypesStutter DEF vars, SharedTypeInv
  <2>9. QED
    BY <2>1, <2>2, <2>3, <2>4, <2>5, <2>6, <2>7, <2>8 DEF Next, TaskStep
<1>3. SharedTypeInv => TypeOK
  BY DEF SharedTypeInv, TypeInv, TypeOK
<1>4. QED  BY <1>1, <1>2, <1>3, PTL DEF Spec
=============================================================================
