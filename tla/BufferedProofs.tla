--------------------------- MODULE BufferedProofs ---------------------------
\* BufferedQueue loses nothing, keeps its order and its types, and says None of an empty
\* queue only, for all values of the constants.
EXTENDS BufferedQueue, DrainProofs

LEMMA CallKeeps ==
  ASSUME DrainInv, Call
  PROVE  DrainInv'
<1>1. PICK fn \in TaskCalls, allow \in BOOLEAN, size \in Buffers: CallTask(fn, allow, size)
  BY DEF Call
<1>2. /\ fn \in DrainFunctions
      /\ task' = [Idle EXCEPT !.fn = fn, !.allow = allow, !.size = size,
                              !.pc = IF fn \in {"pop", "peek"} THEN "take" ELSE "front"]
      /\ UNCHANGED <<ring, flash, sent, gone>>
  BY <1>1 DEF CallTask, DrainFunctions
<1>3. task' \in TaskType /\ task'.pc \notin {"push", "discard"}
  BY <1>2, BuffersAssumption DEF Idle, TaskType, NoHeld, Item
<1>4. QED  BY <1>2, <1>3, ItemsStay

\* What pop takes from the ring is accounted for.
LEMMA TakeFromRingKeeps ==
  ASSUME DrainInv, TakeFromRing
  PROVE  DrainInv'
<1>1. ring \in Seq(Item) /\ UNCHANGED <<flash, sent>>
  BY DEF TakeFromRing, DrainInv, SequencesOK
<1>2. task' \in TaskType /\ task'.pc = "idle"
  BY ReturnType DEF TakeFromRing
<1>3. CASE UNCHANGED <<ring, gone>>
  BY <1>1, <1>2, <1>3, ItemsStay
<1>4. CASE ring # <<>> /\ ring' = Without(ring, 1) /\ gone' = gone \cup {Head(ring).id}
  <2>1. ring' \in Seq(Item) /\ Ids(ring) \subseteq {Head(ring).id} \cup Ids(ring')
    BY <1>1, <1>4, IdsTail
  <2>2. NothingLost'
    BY <1>1, <1>4, <2>1 DEF DrainInv, NothingLost, Ids
  <2>3. QED
    BY <1>1, <1>2, <2>1, <2>2
    DEF DrainInv, SequencesOK, TaskOK, HeldInFront, HeldStored, At
<1>5. QED  BY <1>3, <1>4 DEF TakeFromRing, CanPeek

LEMMA IntoStorageKeeps ==
  ASSUME DrainInv, IntoStorage
  PROVE  DrainInv'
<1>1. /\ ring' = <<>> /\ gone' = gone \cup Ids(ring)
      /\ UNCHANGED <<flash, sent, task>> /\ task = Idle
  BY DEF IntoStorage, Idling
<1>2. NothingLost'
  BY <1>1 DEF DrainInv, NothingLost, Ids
<1>3. QED
  BY <1>1, <1>2
  DEF DrainInv, SequencesOK, TaskOK, HeldInFront, HeldStored, At, Idle

\* What BufferedQueue accepted is in RAM or in flash until it was popped, evicted,
\* overwritten or lost with the RAM, whatever the policy: a drain never removes an
\* item from the ring that it did not store, failed calls and power losses included.
THEOREM BufferedNothingLost == Spec => []NothingLost
<1>1. Init => DrainInv
  BY DrainInvInit DEF Init
<1>2. DrainInv /\ [Next]_drainVars => DrainInv'
  <2> SUFFICES ASSUME DrainInv, [Next]_drainVars
               PROVE  DrainInv'
    OBVIOUS
  <2>1. ASSUME NEW len \in Lengths, NEW policy \in Policies, EnqueueItem(len, policy)
        PROVE  DrainInv'
    <3>1. len \in Nat
      BY LengthsAssumption
    <3>2. QED  BY <2>1, <3>1, EnqueueKeeps DEF EnqueueItem, Idling
  <2>2. CASE Call
    BY <2>2, CallKeeps
  <2>3. CASE TaskStep
    BY <2>3, FrontKeeps, NoFrontKeeps, PushStoredKeeps, PushRefusedKeeps, DiscardKeeps,
       TakeItemKeeps, TakeFromRingKeeps DEF TaskStep
  <2>4. CASE IntoStorage
    BY <2>4, IntoStorageKeeps
  <2>5. CASE Fail
    BY <2>5, FailKeeps
  <2>6. CASE PowerLoss
    BY <2>6, PowerLossKeeps
  <2>7. CASE UNCHANGED drainVars
    BY <2>7, DrainStutters
  <2>8. QED  BY <2>1, <2>2, <2>3, <2>4, <2>5, <2>6, <2>7 DEF Next
<1>3. DrainInv => NothingLost
  BY DEF DrainInv
<1>4. QED  BY <1>1, <1>2, <1>3, PTL DEF Spec

-----------------------------------------------------------------------------

LEMMA CallOrder ==
  ASSUME OrderInv, Call
  PROVE  OrderInv'
<1>1. PICK fn \in TaskCalls, allow \in BOOLEAN, size \in Buffers: CallTask(fn, allow, size)
  BY DEF Call
<1>2. /\ fn \in DrainFunctions /\ task = Idle
      /\ task' = [Idle EXCEPT !.fn = fn, !.allow = allow, !.size = size,
                              !.pc = IF fn \in {"pop", "peek"} THEN "take" ELSE "front"]
      /\ UNCHANGED <<ring, flash, popped, sent, faults>>
  BY <1>1 DEF CallTask, DrainFunctions, Idling
<1>3. task' \in TaskType /\ task'.pc \notin {"push", "discard"} /\ ~At("discard")
  BY <1>2, BuffersAssumption DEF Idle, TaskType, NoHeld, Item, At
<1>4. QED  BY <1>2, <1>3, OrderStays

\* With the flash empty the oldest item in RAM is the next to be popped.
LEMMA TakeFromRingOrder ==
  ASSUME OrderInv, TakeFromRing
  PROVE  OrderInv'
<1>1. At("take") /\ ~At("discard") /\ UNCHANGED <<flash, sent, faults>>
  BY DEF TakeFromRing, At
<1>2. task' \in TaskType /\ task'.pc = "idle"
  BY ReturnType DEF TakeFromRing
<1>3. CASE UNCHANGED <<ring, popped>>
  BY <1>1, <1>2, <1>3, OrderStays
<1>4. CASE ring # <<>> /\ ring' = Without(ring, 1) /\ popped' = Append(popped, Head(ring))
           /\ flash = <<>>
  <2>1. /\ ring \in Seq(Item) /\ popped \in Seq(Item)
        /\ Rising(ring, 1) /\ Rising(popped, Gap) /\ Gap \in Nat /\ Gap <= 1 /\ 1 \in Nat
    BY OrderFacts DEF OrderInv, OrderTypes, PartsRise
  <2>2. /\ Head(ring) \in Item /\ Head(ring).id \in Ids(ring)
        /\ Below({Head(ring).id}, Ids(ring'), 1)
    BY <1>4, <2>1, AboveHead
  <2>3. ring' \in Seq(Item) /\ Ids(ring') \subseteq Ids(ring) /\ Rising(ring', 1)
    BY <1>4, <2>1, WithoutOldest
  <2>4. Below({Head(ring).id}, Ids(ring'), Gap)
    BY <2>1, <2>2, <2>3, SmallerBelow, OrderFacts
  <2>5. Below(Ids(popped), {Head(ring).id}, Gap)
    BY <2>2 DEF OrderInv, PartsFollow, Below
  <2>6. /\ popped' \in Seq(Item) /\ Rising(popped', Gap)
        /\ Ids(popped') = Ids(popped) \cup {Head(ring).id}
    BY <1>4, <2>1, <2>2, <2>5, IdsAppend, RisingAppend
  <2>7. /\ Ids(flash) = {} /\ Ids(flash') = {} /\ Gap' = Gap
        /\ ~At("discard")' /\ ~At("push")' /\ PartsRise' /\ OrderTypes'
    BY <1>1, <1>2, <1>4, <2>3, <2>6, EmptyIds
    DEF OrderInv, OrderTypes, PartsRise, Gap, At, Rising
  <2>8. /\ Below(Ids(popped), Ids(ring), Gap)
        /\ Below(Ids(popped) \cup Ids(ring), {sent}, 0)
    BY <2>7 DEF OrderInv, PartsFollow
  <2>9. PartsFollow'
    BY <1>1, <2>2, <2>3, <2>4, <2>6, <2>7, <2>8 DEF PartsFollow, Below
  <2>10. QED  BY <2>7, <2>9 DEF OrderInv, HeldBetween
<1>5. QED  BY <1>3, <1>4 DEF TakeFromRing, CanPeek

LEMMA IntoStorageOrder ==
  ASSUME OrderInv, IntoStorage
  PROVE  OrderInv'
<1>1. ring' = <<>> /\ UNCHANGED <<flash, task, popped, sent, faults>> /\ task = Idle
  BY DEF IntoStorage, Idling
<1>2. /\ Ids(ring') = {} /\ Ids(flash') = Ids(flash) /\ Ids(popped') = Ids(popped)
      /\ Gap' = Gap /\ ~At("push")'
      /\ PartsRise' /\ OrderTypes'
  BY <1>1, EmptyIds DEF OrderInv, OrderTypes, PartsRise, Ids, Gap, At, Idle, Rising
<1>3. PartsFollow'
  BY <1>1, <1>2 DEF OrderInv, PartsFollow, Below
<1>4. QED  BY <1>2, <1>3 DEF OrderInv, HeldBetween

\* What BufferedQueue pops, stores and buffers is in the order in which it was accepted,
\* whatever the policy; nothing is there twice but an item on its way or one whose call
\* was cut short.
THEOREM BufferedInOrder == Spec => []InOrder
<1>1. Init => OrderInv
  BY OrderInit DEF Init
<1>2. OrderInv /\ [Next]_drainVars => OrderInv'
  <2> SUFFICES ASSUME OrderInv, [Next]_drainVars
               PROVE  OrderInv'
    OBVIOUS
  <2>1. ASSUME NEW len \in Lengths, NEW policy \in Policies, EnqueueItem(len, policy)
        PROVE  OrderInv'
    <3>1. len \in Nat
      BY LengthsAssumption
    <3>2. QED  BY <2>1, <3>1, EnqueueOrder DEF EnqueueItem
  <2>2. CASE Call
    BY <2>2, CallOrder
  <2>3. CASE TaskStep
    BY <2>3, FrontOrder, NoFrontOrder, PushStoredOrder, PushRefusedOrder, DiscardOrder,
       TakeItemOrder, TakeFromRingOrder DEF TaskStep
  <2>4. CASE IntoStorage
    BY <2>4, IntoStorageOrder
  <2>5. CASE Fail
    BY <2>5, FailOrder
  <2>6. CASE PowerLoss
    BY <2>6, PowerLossOrder
  <2>7. CASE UNCHANGED drainVars
    BY <2>7, OrderStutters
  <2>8. QED  BY <2>1, <2>2, <2>3, <2>4, <2>5, <2>6, <2>7 DEF Next
<1>3. QED  BY <1>1, <1>2, OrderInvInOrder, PTL DEF Spec

-----------------------------------------------------------------------------

LEMMA CallTypes ==
  ASSUME TypeInv, Call
  PROVE  TypeInv'
<1>1. PICK fn \in TaskCalls, allow \in BOOLEAN, size \in Buffers: CallTask(fn, allow, size)
  BY DEF Call
<1>2. /\ fn \in DrainFunctions /\ ret' = NoRet
      /\ task' = [Idle EXCEPT !.fn = fn, !.allow = allow, !.size = size,
                              !.pc = IF fn \in {"pop", "peek"} THEN "take" ELSE "front"]
      /\ UNCHANGED <<ring, flash, sent, gone, popped, faults>>
  BY <1>1 DEF CallTask, DrainFunctions
<1>3. task' \in TaskType /\ task'.pc # "push" /\ ret' \in RetType
  BY <1>2, BuffersAssumption DEF Idle, TaskType, NoHeld, Item, NoRet, RetType
<1>4. QED  BY <1>2, <1>3, TypesStay

LEMMA TakeFromRingTypes ==
  ASSUME TypeInv, TakeFromRing
  PROVE  TypeInv'
<1>1. UNCHANGED <<flash, sent, faults>>
  BY DEF TakeFromRing
<1>2. task' \in TaskType /\ task'.pc # "push" /\ ret' \in RetType
  <2>1. Return("Ok") \/ Return("None")
    BY DEF TakeFromRing
  <2>2. QED  BY <2>1, ReturnTypes
<1>3. CASE UNCHANGED <<ring, gone, popped>>
  BY <1>1, <1>2, <1>3, TypesStay
<1>4. CASE /\ ring # <<>> /\ ring' = Without(ring, 1) /\ popped' = Append(popped, Head(ring))
           /\ gone' = gone \cup {Head(ring).id}
  <2>1. /\ ring \in Seq(Item) /\ Ids(ring) \subseteq 1 .. sent /\ Used(ring) <= N
        /\ popped \in Seq(Item) /\ gone \subseteq 1 .. sent
    BY DEF TypeInv, DrainTypeOK, Numbered
  <2>2. 1 \in 0 .. Len(ring) /\ Head(ring) = ring[1] /\ 1 \in DOMAIN ring /\ Head(ring) \in Item
    BY <1>4, <2>1, EmptySeq
  <2>3. Without(ring, 1) \in Seq(Item) /\ Ids(Without(ring, 1)) \subseteq Ids(ring)
    BY <2>1, <2>2, RisingWithout
  <2>4. Used(ring') <= N
    <3>1. Used(ring) \in Nat /\ Used(ring') \in Nat /\ Used(ring') <= Used(ring)
      BY <1>4, <2>1, <2>3, UsedProperties, UsedWithoutOldest
    <3>2. QED  BY <2>1, <3>1, NAssumption
  <2>5. Head(ring).id \in 1 .. sent
    BY <2>1, <2>2 DEF Ids
  <2>6. gone' \subseteq 1 .. sent /\ popped' \in Seq(Item)
    BY <1>4, <2>1, <2>2, <2>5, IdsAppend
  <2>7. QED
    BY <1>1, <1>2, <1>4, <2>1, <2>3, <2>4, <2>6 DEF TypeInv, DrainTypeOK, Numbered, At, Ids
<1>5. QED  BY <1>3, <1>4 DEF TakeFromRing, CanPeek

LEMMA IntoStorageTypes ==
  ASSUME TypeInv, IntoStorage
  PROVE  TypeInv'
<1>1. /\ ring' = <<>> /\ gone' = gone \cup Ids(ring) /\ task = Idle
      /\ UNCHANGED <<flash, task, ret, sent, popped, faults>>
  BY DEF IntoStorage, Idling
<1>2. Numbered(ring') /\ Used(ring') <= N
  BY <1>1, EmptyIds, UsedEmpty, NAssumption DEF Numbered
<1>3. QED  BY <1>1, <1>2 DEF TypeInv, DrainTypeOK, Numbered, At, Ids, Idle

\* BufferedQueue keeps its types: the items in RAM never cost more than the ring has
\* bytes, the flash queue never exceeds its limit, and what is gone had been accepted.
THEOREM BufferedTypeCorrect == Spec => []TypeOK
<1>1. Init => TypeInv
  BY TypeInvInit DEF Init
<1>2. TypeInv /\ [Next]_drainVars => TypeInv'
  <2> SUFFICES ASSUME TypeInv, [Next]_drainVars
               PROVE  TypeInv'
    OBVIOUS
  <2>1. ASSUME NEW len \in Lengths, NEW policy \in Policies, EnqueueItem(len, policy)
        PROVE  TypeInv'
    <3>1. len \in Nat
      BY LengthsAssumption
    <3>2. QED  BY <2>1, <3>1, EnqueueTypes DEF EnqueueItem
  <2>2. CASE Call
    BY <2>2, CallTypes
  <2>3. CASE TaskStep
    BY <2>3, FrontTypes, NoFrontTypes, PushStoredTypes, PushRefusedTypes, DiscardTypes,
       TakeItemTypes, TakeFromRingTypes DEF TaskStep
  <2>4. CASE IntoStorage
    BY <2>4, IntoStorageTypes
  <2>5. CASE Fail
    BY <2>5, FailTypes
  <2>6. CASE PowerLoss
    BY <2>6, PowerLossTypes
  <2>7. CASE UNCHANGED drainVars
    BY <2>7, TypesStutter
  <2>8. QED  BY <2>1, <2>2, <2>3, <2>4, <2>5, <2>6, <2>7 DEF Next
<1>3. TypeInv => TypeOK
  BY DEF TypeInv, TypeOK
<1>4. QED  BY <1>1, <1>2, <1>3, PTL DEF Spec

-----------------------------------------------------------------------------
(* What None means *)

Offered == [id: Nat, len: Lengths]

\* The buffer of a running call is one of the buffers, and an item in RAM has one of
\* the lengths.
NoneInv ==
  /\ ring \in Seq(Offered) /\ sent \in Nat
  /\ task # Idle => task.size \in Buffers

LEMMA OfferedAreItems ==
  ASSUME NEW s \in Seq(Offered)
  PROVE  s \in Seq(Item)
<1>1. Offered \subseteq Item
  BY LengthsAssumption DEF Offered, Item
<1> HIDE DEF Offered
<1>2. QED  BY <1>1, SeqDef

LEMMA OfferedWithout ==
  ASSUME NEW s \in Seq(Offered), NEW k \in Nat
  PROVE  Without(s, k) \in Seq(Offered)
<1>1. \A i \in k + 1 .. Len(s): s[i] \in Offered
  OBVIOUS
<1>2. QED  BY <1>1, SubSeqProperties DEF Without

LEMMA NoneInvStep == TypeOK /\ NoneInv /\ [Next]_drainVars => NoneInv'
<1> SUFFICES ASSUME TypeOK, NoneInv, [Next]_drainVars
             PROVE  NoneInv'
  OBVIOUS
<1> USE DEF NoneInv
<1>1. ASSUME NEW len \in Lengths, NEW policy \in Policies, EnqueueItem(len, policy)
      PROVE  NoneInv'
  <2> DEFINE x == [id |-> sent + 1, len |-> len]
             k == EvictedBy(ring, x, policy)
  <2>1. /\ Accepts(ring, x, policy) /\ sent' = sent + 1
        /\ ring' = Append(Without(ring, k), x) /\ UNCHANGED task
    BY <1>1 DEF EnqueueItem, Enqueue, Enqueued
  <2>2. x \in Offered
    BY DEF Offered
  <2>3. k \in Nat
    BY <2>1, EvictionsInRange, OfferedAreItems
  <2> HIDE DEF k, x
  <2>4. ring' \in Seq(Offered)
    BY <2>1, <2>2, <2>3, OfferedWithout, AppendProperties
  <2>5. QED  BY <2>1, <2>4
<1>2. CASE Call
  BY <1>2 DEF Call, CallTask, Idle
<1>3. ASSUME task' = Idle \/ Goto("take") \/ Goto("front") \/ Goto("discard"), task # Idle
      PROVE  task' # Idle => task'.size \in Buffers
  BY <1>3 DEF Goto, TypeOK, DrainTypeOK, TaskType
<1>4. CASE Front
  BY <1>4 DEF Front, Idle, At, TypeOK, DrainTypeOK, TaskType
<1>5. CASE NoFront \/ PushTooBig \/ PushStored \/ PushRefused \/ TakeItem
  <2>1. UNCHANGED <<ring, sent>> /\ task # Idle
    BY <1>5 DEF NoFront, PushTooBig, PushStored, PushRefused, TakeItem, At, Idle
  <2>2. task' = Idle \/ Goto("take") \/ Goto("discard")
    BY <1>5 DEF NoFront, PushTooBig, PushStored, PushRefused, TakeItem, Return
  <2>3. QED  BY <1>3, <2>1, <2>2
<1>6. CASE Discard \/ TakeFromRing
  <2>1. (ring' = ring \/ ring' = Without(ring, 1)) /\ UNCHANGED sent /\ task # Idle
    BY <1>6 DEF Discard, TakeFromRing, At, Idle
  <2>2. task' = Idle \/ Goto("front")
    BY <1>6 DEF Discard, TakeFromRing, Return
  <2>3. ring' \in Seq(Offered)
    BY <2>1, OfferedWithout
  <2>4. QED  BY <1>3, <2>1, <2>2, <2>3
<1>7. CASE IntoStorage
  BY <1>7 DEF IntoStorage, Idling
<1>8. CASE Fail \/ PowerLoss
  <2>1. (ring' = ring \/ ring' = <<>>) /\ UNCHANGED sent /\ task' = Idle
    BY <1>8 DEF Fail, PowerLoss, Return
  <2>2. <<>> \in Seq(Offered)
    OBVIOUS
  <2>3. QED  BY <2>1, <2>2
<1>9. CASE UNCHANGED drainVars
  BY <1>9 DEF drainVars
<1>10. QED
  BY <1>1, <1>2, <1>4, <1>5, <1>6, <1>7, <1>8, <1>9 DEF Next, TaskStep

\* pop and peek of BufferedQueue answer None only when there is nothing in flash and
\* nothing in RAM, provided that their buffers are large enough for every item.
THEOREM BufferedNoneMeansEmpty ==
  ASSUME \A size \in Buffers, len \in Lengths: len <= size
  PROVE  Spec => NoneMeansEmpty
<1> DEFINE Step == task # Idle /\ task' = Idle /\ ret'.status = "None"
                   => flash = <<>> /\ ring = <<>>
<1>1. Init => NoneInv
  <2>1. <<>> \in Seq(Offered)
    OBVIOUS
  <2>2. QED  BY <2>1 DEF Init, DrainInit, NoneInv
<1>2. NoneInv /\ [Next]_drainVars => [Step]_drainVars
  <2> SUFFICES ASSUME NoneInv, Next, task # Idle, task' = Idle, ret'.status = "None"
               PROVE  flash = <<>> /\ ring = <<>>
    BY DEF drainVars
  <2>1. ~ (\E len \in Lengths, policy \in Policies: EnqueueItem(len, policy))
    BY DEF EnqueueItem, Idling
  <2>2. ~ Call /\ ~ IntoStorage
    BY DEF Call, CallTask, IntoStorage, Idling
  <2>3. ~ Fail /\ ~ PowerLoss
    BY DEF Fail, PowerLoss, Return
  <2>4. ~ Front /\ ~ NoFront /\ ~ PushTooBig /\ ~ PushStored /\ ~ PushRefused /\ ~ Discard
        /\ ~ TakeItem
    <3>1. ~ Goto("take") /\ ~ Goto("discard") /\ ~ Goto("front")
      BY DEF Goto, Idle
    <3>2. ~ Return("false") /\ ~ Return("Ok") /\ ~ Return("ItemTooBig")
          /\ ~ Return("FullStorage") /\ ~ Return("BufferTooSmall")
      BY DEF Return
    <3>3. ~ Front
      BY DEF Front, Idle
    <3>4. QED
      BY <3>1, <3>2, <3>3
      DEF NoFront, PushTooBig, PushStored, PushRefused, Discard, TakeItem
  <2>5. TakeFromRing
    BY <2>1, <2>2, <2>3, <2>4 DEF Next, TaskStep
  <2>6. flash = <<>> /\ ~ CanPeek(ring, task.size)
    BY <2>5 DEF TakeFromRing, Return
  <2>7. ring = <<>>
    <3>1. SUFFICES ASSUME ring # <<>> PROVE FALSE
      OBVIOUS
    <3>2. Head(ring) \in Offered
      BY <3>1, HeadTailProperties DEF NoneInv
    <3>3. Head(ring).len \in Lengths /\ task.size \in Buffers
      BY <3>2 DEF Offered, NoneInv
    <3>4. QED  BY <2>6, <3>1, <3>3 DEF CanPeek
  <2>8. QED  BY <2>6, <2>7
<1>3. QED  BY <1>1, <1>2, NoneInvStep, BufferedTypeCorrect, PTL DEF Spec, NoneMeansEmpty
=============================================================================
