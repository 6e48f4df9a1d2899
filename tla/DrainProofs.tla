---------------------------- MODULE DrainProofs ----------------------------
(***************************************************************************)
(* That a drain loses nothing, for all values of the constants: lemmas      *)
(* about the parts BufferedQueue and SharedRamRing share.                   *)
(*                                                                         *)
(* NothingLost is not inductive.  The drain discards the oldest item of the *)
(* ring when its push is done, so that item must still be the one that was  *)
(* pushed (HeldInFront), and must be accounted for by then (HeldStored).    *)
(* Nobody evicts items while a drain runs: in BufferedQueue there is nobody,*)
(* in SharedRamRing the policy must be Err.                                 *)
(***************************************************************************)
EXTENDS RingDrain, MinLemma, SequenceTheorems, TLAPS

SequencesOK == ring \in Seq(Item) /\ flash \in Seq(Item) /\ sent \in Nat

HeldInFront == At("push") \/ At("discard") => ring # <<>> /\ Head(ring) = task.held

HeldStored == At("discard") => task.held.id \in Ids(flash) \cup gone

TaskOK == task \in TaskType

DrainInv == SequencesOK /\ TaskOK /\ HeldInFront /\ HeldStored /\ NothingLost

-----------------------------------------------------------------------------
(* Items of sequences *)

\* The items of a sequence without its k oldest.
LEMMA WithoutProperties ==
  ASSUME NEW s \in Seq(Item), NEW k \in 0 .. Len(s)
  PROVE  /\ Without(s, k) \in Seq(Item)
         /\ Len(Without(s, k)) = Len(s) - k
         /\ \A i \in 1 .. Len(s) - k: Without(s, k)[i] = s[k + i]
<1>1. \A i \in k + 1 .. Len(s): s[i] \in Item
  OBVIOUS
<1>2. Without(s, k) = SubSeq(s, k + 1, Len(s))
  BY DEF Without
<1>3. /\ SubSeq(s, k + 1, Len(s)) \in Seq(Item)
      /\ Len(SubSeq(s, k + 1, Len(s))) = IF k + 1 <= Len(s) THEN Len(s) - (k + 1) + 1 ELSE 0
      /\ \A i \in 1 .. Len(s) - (k + 1) + 1: SubSeq(s, k + 1, Len(s))[i] = s[k + 1 + i - 1]
  BY <1>1, SubSeqProperties
<1>4. QED  BY <1>2, <1>3

\* Every item is among the k oldest or among the others.
LEMMA IdsSplit ==
  ASSUME NEW s \in Seq(Item), NEW k \in 0 .. Len(s)
  PROVE  Ids(s) \subseteq Ids(SubSeq(s, 1, k)) \cup Ids(Without(s, k))
<1>1. SUFFICES ASSUME NEW i \in 1 .. Len(s)
               PROVE  s[i].id \in Ids(SubSeq(s, 1, k)) \cup Ids(Without(s, k))
  BY DEF Ids
<1>2. CASE i <= k
  <2>1. \A j \in 1 .. k: s[j] \in Item
    OBVIOUS
  <2>2. SubSeq(s, 1, k) \in Seq(Item) /\ Len(SubSeq(s, 1, k)) = k
        /\ SubSeq(s, 1, k)[i] = s[i]
    BY <1>2, <2>1, SubSeqProperties
  <2>3. i \in DOMAIN SubSeq(s, 1, k)
    BY <1>2, <2>2
  <2>4. QED  BY <2>2, <2>3 DEF Ids
<1>3. CASE i > k
  <2>1. i - k \in DOMAIN Without(s, k) /\ Without(s, k)[i - k] = s[i]
    BY <1>3, WithoutProperties
  <2>2. QED  BY <2>1 DEF Ids
<1>4. QED  BY <1>2, <1>3

\* Appending an item adds its number.
LEMMA IdsAppend ==
  ASSUME NEW s \in Seq(Item), NEW x \in Item
  PROVE  /\ Append(s, x) \in Seq(Item)
         /\ Append(s, x) # <<>>
         /\ Ids(Append(s, x)) = Ids(s) \cup {x.id}
         /\ s # <<>> => Head(Append(s, x)) = Head(s)
<1>1. /\ Append(s, x) \in Seq(Item)
      /\ Append(s, x) # <<>>
      /\ Len(Append(s, x)) = Len(s) + 1
      /\ \A i \in 1 .. Len(s): Append(s, x)[i] = s[i]
      /\ Append(s, x)[Len(s) + 1] = x
  BY AppendProperties
<1>2. DOMAIN Append(s, x) = 1 .. Len(s) + 1 /\ DOMAIN s = 1 .. Len(s)
  BY <1>1
<1>3. Ids(Append(s, x)) = Ids(s) \cup {x.id}
  BY <1>1, <1>2 DEF Ids
<1>4. QED  BY <1>1, <1>3

\* Removing the oldest item removes no other number.
LEMMA IdsTail ==
  ASSUME NEW s \in Seq(Item), s # <<>>
  PROVE  /\ Without(s, 1) \in Seq(Item)
         /\ Ids(s) \subseteq {Head(s).id} \cup Ids(Without(s, 1))
<1>1. Len(s) \in Nat /\ Len(s) >= 1 /\ 1 \in 0 .. Len(s)
  BY EmptySeq
<1> Without(s, 1) \in Seq(Item)
  BY <1>1, WithoutProperties
<1>2. SUFFICES ASSUME NEW i \in 1 .. Len(s)
               PROVE  s[i].id \in {Head(s).id} \cup Ids(Without(s, 1))
  BY DEF Ids
<1>3. CASE i = 1
  BY <1>3
<1>4. CASE i # 1
  <2>1. i - 1 \in DOMAIN Without(s, 1) /\ Without(s, 1)[i - 1] = s[i]
    BY <1>1, <1>4, WithoutProperties
  <2>2. QED  BY <2>1 DEF Ids
<1>5. QED  BY <1>3, <1>4

\* An item that is accepted evicts at most what is there, and nothing under Err.
LEMMA EvictionsInRange ==
  ASSUME NEW s \in Seq(Item), NEW x, NEW policy, Accepts(s, x, policy)
  PROVE  EvictedBy(s, x, policy) \in 0 .. Len(s)
<1> DEFINE K == {k \in 0 .. Len(s): HasRoom(Without(s, k), x)}
<1>1. CASE policy = "Err"
  BY <1>1 DEF EvictedBy
<1>2. CASE policy # "Err"
  <2>1. Without(s, Len(s)) = <<>>
    BY SubSeqEmpty DEF Without
  <2>2. Len(s) \in K
    BY <1>2, <2>1 DEF Accepts
  <2>3. K \in SUBSET Nat /\ K # {}
    BY <2>2
  <2>4. Min(K) \in K
    BY <2>3, MinInSet
  <2>5. QED  BY <1>2, <2>4 DEF EvictedBy, Evictions
<1>3. QED  BY <1>1, <1>2

\* What a push leaves in flash, and what one that is cut short leaves.
LEMMA PushLeaves ==
  ASSUME flash \in Seq(Item), NEW x \in Item, NEW allow \in BOOLEAN
  PROVE  /\ \A q \in Pushes(x, allow): q \in Seq(Item) /\ x.id \in Ids(q)
         /\ \A q \in CutPushes(x, allow): q \in Seq(Item)
<1>1. Drops(allow) \subseteq 0 .. Len(flash)
  BY DEF Drops
<1>2. \A k \in Drops(allow): Without(flash, k) \in Seq(Item)
  BY <1>1, WithoutProperties
<1>3. \A k \in Drops(allow): /\ Append(Without(flash, k), x) \in Seq(Item)
                             /\ x.id \in Ids(Append(Without(flash, k), x))
  BY <1>2, IdsAppend
<1>4. QED  BY <1>2, <1>3 DEF Pushes, CutPushes

-----------------------------------------------------------------------------
(* Steps *)

LEMMA DrainInvInit == DrainInit => DrainInv
BY DEF DrainInit, DrainInv, SequencesOK, TaskOK, TaskType, Idle, NoHeld, Item, At,
       HeldInFront, HeldStored, NothingLost, DrainFunctions

\* A step that moves no item and leaves the task where it holds none.
LEMMA ItemsStay ==
  ASSUME DrainInv, UNCHANGED <<ring, flash, sent, gone>>,
         task' \in TaskType, task'.pc \notin {"push", "discard"}
  PROVE  DrainInv'
BY DEF DrainInv, SequencesOK, TaskOK, HeldInFront, HeldStored, NothingLost, At, Ids

\* A step that leaves drainVars alone.
LEMMA DrainStutters ==
  ASSUME DrainInv, UNCHANGED drainVars
  PROVE  DrainInv'
BY DEF DrainInv, SequencesOK, TaskOK, HeldInFront, HeldStored, NothingLost, At, Ids, drainVars

LEMMA ReturnType ==
  ASSUME NEW status, Return(status)
  PROVE  task' \in TaskType /\ task'.pc = "idle"
BY DEF Return, Idle, TaskType, DrainFunctions, NoHeld, Item

LEMMA GotoType ==
  ASSUME task \in TaskType,
         NEW pc \in {"idle", "wait", "start", "front", "push", "discard", "take"}, Goto(pc)
  PROVE  /\ task' \in TaskType /\ task'.pc = pc
         /\ task'.held = task.held
BY DEF Goto, TaskType

\* While an item is on its way to flash, only an enqueue that evicts could take it
\* from the front.
LEMMA EnqueueKeeps ==
  ASSUME DrainInv, NEW len \in Nat, NEW policy, Enqueue(len, policy),
         policy = "Err" \/ task = Idle
  PROVE  DrainInv'
<1> DEFINE x == [id |-> sent + 1, len |-> len]
           k == EvictedBy(ring, x, policy)
<1>1. x \in Item /\ ring \in Seq(Item) /\ sent \in Nat
  BY DEF DrainInv, SequencesOK, Item
<1>2. /\ Accepts(ring, x, policy)
      /\ ring' = Append(Without(ring, k), x)
      /\ gone' = gone \cup Ids(SubSeq(ring, 1, k))
      /\ sent' = sent + 1
      /\ UNCHANGED <<flash, task>>
  BY DEF Enqueue, Enqueued
<1>3. k \in 0 .. Len(ring)
  BY <1>1, <1>2, EvictionsInRange
<1> HIDE DEF k
<1>4. Without(ring, k) \in Seq(Item)
  BY <1>1, <1>3, WithoutProperties
<1>5. /\ ring' \in Seq(Item) /\ ring' # <<>>
      /\ Ids(ring') = Ids(Without(ring, k)) \cup {sent + 1}
      /\ Without(ring, k) # <<>> => Head(ring') = Head(Without(ring, k))
  <2> HIDE DEF x
  <2>1. x.id = sent + 1
    BY DEF x
  <2>2. QED  BY <1>1, <1>2, <1>4, <2>1, IdsAppend
<1>6. Ids(ring) \subseteq Ids(ring') \cup gone'
  BY <1>1, <1>2, <1>3, <1>5, IdsSplit
<1>7. NothingLost'
  <2>1. \A id \in 1 .. sent: id \in Ids(ring) \cup Ids(flash) \cup gone
    BY DEF DrainInv, NothingLost
  <2>2. Ids(flash') = Ids(flash) /\ gone \subseteq gone'
    BY <1>2
  <2>3. \A id \in 1 .. sent': id \in 1 .. sent \/ id = sent + 1
    BY <1>1, <1>2
  <2>4. QED  BY <1>5, <1>6, <2>1, <2>2, <2>3 DEF NothingLost
<1>8. HeldInFront'
  <2>1. CASE task = Idle
    BY <1>2, <2>1 DEF HeldInFront, At, Idle
  <2>2. CASE policy = "Err"
    <3>1. k = 0
      BY <2>2 DEF EvictedBy, k
    <3>2. Without(ring, 0) = ring
      <4>1. Without(ring, 0) = SubSeq(ring, 1, Len(ring))
        BY DEF Without
      <4>2. QED  BY <1>1, <4>1, SubSeqFull
    <3>3. QED  BY <1>2, <1>5, <3>1, <3>2 DEF DrainInv, HeldInFront, At
  <2>3. QED  BY <2>1, <2>2
<1>9. QED
  BY <1>1, <1>2, <1>5, <1>7, <1>8
  DEF DrainInv, SequencesOK, TaskOK, HeldStored, At

LEMMA FrontKeeps ==
  ASSUME DrainInv, Front
  PROVE  DrainInv'
<1>1. /\ task' = [task EXCEPT !.pc = "push", !.held = Head(ring)]
      /\ ring # <<>>
      /\ UNCHANGED <<ring, flash, sent, gone>>
  BY DEF Front, CanPeek
<1>2. Head(ring) \in Item
  BY <1>1, HeadTailProperties DEF DrainInv, SequencesOK
<1>3. task' \in TaskType /\ task'.pc = "push" /\ task'.held = Head(ring)
  BY <1>1, <1>2 DEF DrainInv, TaskOK, TaskType
<1>4. QED
  BY <1>1, <1>3
  DEF DrainInv, SequencesOK, TaskOK, HeldInFront, HeldStored, NothingLost, At, Ids

LEMMA NoFrontKeeps ==
  ASSUME DrainInv, NoFront
  PROVE  DrainInv'
<1>1. task \in TaskType /\ UNCHANGED <<ring, flash, sent, gone>>
  BY DEF DrainInv, TaskOK, NoFront
<1>2. task' \in TaskType /\ task'.pc \in {"idle", "take"}
  <2>1. Goto("take") \/ Return("false") \/ Return("Ok")
    BY DEF NoFront
  <2>2. QED  BY <1>1, <2>1, ReturnType, GotoType
<1>3. QED  BY <1>1, <1>2, ItemsStay

\* The item that is removed is the one that was stored.
LEMMA DiscardKeeps ==
  ASSUME DrainInv, Discard
  PROVE  DrainInv'
<1>1. /\ At("discard") /\ ring' = Without(ring, 1)
      /\ UNCHANGED <<flash, sent, gone>>
  BY DEF Discard
<1>2. task' \in TaskType /\ task'.pc \in {"idle", "front"}
  <2>1. Goto("front") \/ Return("Ok")
    BY DEF Discard
  <2>2. QED  BY <2>1, ReturnType, GotoType DEF DrainInv, TaskOK
<1>3. ring \in Seq(Item) /\ ring # <<>> /\ Head(ring).id \in Ids(flash) \cup gone
  BY <1>1 DEF DrainInv, SequencesOK, HeldInFront, HeldStored
<1>4. ring' \in Seq(Item) /\ Ids(ring) \subseteq {Head(ring).id} \cup Ids(ring')
  BY <1>1, <1>3, IdsTail
<1>5. NothingLost'
  BY <1>1, <1>3, <1>4 DEF DrainInv, NothingLost, Ids
<1>6. QED
  BY <1>1, <1>2, <1>4, <1>5
  DEF DrainInv, SequencesOK, TaskOK, HeldInFront, HeldStored, At

\* What leaves the flash queue is accounted for.
LEMMA FlashAccounted ==
  ASSUME DrainInv, flash' \in Seq(Item), gone \cup LeavesFlash \subseteq gone',
         Ids(ring) \subseteq Ids(ring') \cup gone', sent' = sent
  PROVE  NothingLost'
<1>1. Ids(flash) \subseteq Ids(flash') \cup gone'
  BY DEF LeavesFlash
<1>2. QED  BY <1>1 DEF DrainInv, NothingLost

LEMMA PushStoredKeeps ==
  ASSUME DrainInv, PushStored
  PROVE  DrainInv'
<1>1. /\ At("push") /\ flash' \in Pushes(task.held, task.allow)
      /\ gone' = gone \cup LeavesFlash
      /\ Goto("discard")
      /\ UNCHANGED <<ring, sent>>
  BY DEF PushStored
<1>2. task \in TaskType /\ task.held \in Item /\ task.allow \in BOOLEAN
      /\ flash \in Seq(Item)
  BY DEF DrainInv, TaskOK, TaskType, SequencesOK
<1>3. flash' \in Seq(Item) /\ task.held.id \in Ids(flash')
  BY <1>1, <1>2, PushLeaves
<1>4. task' \in TaskType /\ task'.pc = "discard" /\ task'.held = task.held
  BY <1>1, <1>2, GotoType
<1>5. NothingLost'
  BY <1>1, <1>3, FlashAccounted DEF Ids
<1>6. QED
  BY <1>1, <1>3, <1>4, <1>5
  DEF DrainInv, SequencesOK, TaskOK, HeldInFront, HeldStored, At

LEMMA PushRefusedKeeps ==
  ASSUME DrainInv, PushTooBig \/ PushRefused
  PROVE  DrainInv'
<1>1. /\ UNCHANGED <<ring, flash, sent, gone>>
      /\ Return("ItemTooBig") \/ Return("FullStorage")
  BY DEF PushTooBig, PushRefused
<1>2. QED  BY <1>1, ReturnType, ItemsStay

LEMMA TakeItemKeeps ==
  ASSUME DrainInv, TakeItem
  PROVE  DrainInv'
<1>1. flash \in Seq(Item) /\ flash # <<>> /\ UNCHANGED <<ring, sent>>
  BY DEF TakeItem, DrainInv, SequencesOK
<1>2. task' \in TaskType /\ task'.pc = "idle"
  <2>1. Return("BufferTooSmall") \/ Return("Ok")
    BY DEF TakeItem
  <2>2. QED  BY <2>1, ReturnType
<1>3. CASE UNCHANGED <<flash, gone>>
  BY <1>1, <1>2, <1>3, ItemsStay
<1>4. CASE flash' = Without(flash, 1) /\ gone' = gone \cup {Head(flash).id}
  <2>1. flash' \in Seq(Item) /\ Ids(flash) \subseteq {Head(flash).id} \cup Ids(flash')
    BY <1>1, <1>4, IdsTail
  <2>2. gone \cup LeavesFlash \subseteq gone'
    BY <1>4, <2>1 DEF LeavesFlash
  <2>3. NothingLost'
    BY <1>1, <2>1, <2>2, FlashAccounted DEF Ids
  <2>4. QED
    BY <1>1, <1>2, <2>1, <2>3
    DEF DrainInv, SequencesOK, TaskOK, HeldInFront, HeldStored, At
<1>5. QED  BY <1>3, <1>4 DEF TakeItem

LEMMA CutShortType ==
  ASSUME DrainInv, CutShort
  PROVE  flash' \in Seq(Item)
<1>1. task.held \in Item /\ task.allow \in BOOLEAN /\ flash \in Seq(Item)
  BY DEF DrainInv, TaskOK, TaskType, SequencesOK
<1>2. CASE At("push") /\ ~TooBig
  BY <1>1, <1>2, PushLeaves DEF CutShort, At
<1>3. CASE ~(At("push") /\ ~TooBig) /\ At("take") /\ task.fn = "pop" /\ flash # <<>>
  BY <1>1, <1>3, IdsTail DEF CutShort, At
<1>4. CASE ~(At("push") /\ ~TooBig) /\ ~(At("take") /\ task.fn = "pop" /\ flash # <<>>)
  BY <1>1, <1>4 DEF CutShort
<1>5. QED  BY <1>2, <1>3, <1>4

LEMMA FailKeeps ==
  ASSUME DrainInv, Fail
  PROVE  DrainInv'
<1>1. /\ gone' = gone \cup LeavesFlash /\ Return("Storage")
      /\ UNCHANGED <<ring, sent>>
      /\ flash' \in Seq(Item)
  BY CutShortType DEF Fail
<1>2. task' \in TaskType /\ task'.pc = "idle"
  BY <1>1, ReturnType
<1>3. NothingLost'
  BY <1>1, FlashAccounted DEF Ids
<1>4. QED
  BY <1>1, <1>2, <1>3
  DEF DrainInv, SequencesOK, TaskOK, HeldInFront, HeldStored, At

LEMMA PowerLossKeeps ==
  ASSUME DrainInv, PowerLoss
  PROVE  DrainInv'
<1>1. /\ gone' = gone \cup LeavesFlash \cup Ids(ring) /\ Return("PowerLoss")
      /\ ring' = <<>> /\ sent' = sent
      /\ flash' \in Seq(Item)
  BY CutShortType DEF PowerLoss
<1>2. task' \in TaskType /\ task'.pc = "idle"
  BY <1>1, ReturnType
<1>3. NothingLost'
  BY <1>1, FlashAccounted
<1>4. QED
  BY <1>1, <1>2, <1>3
  DEF DrainInv, SequencesOK, TaskOK, HeldInFront, HeldStored, At

-----------------------------------------------------------------------------
(* Order.  The invariant says where the items of each part lie relative to   *)
(* those of the others.  Gap is 1 while no two places hold the same item.    *)

\* Every number of S is at least d below every number of T.
Below(S, T, d) == \A a \in S, b \in T: a + d <= b

Rising(s, d) == \A i, j \in DOMAIN s: i < j => s[i].id + d <= s[j].id

Gap == IF faults = 0 THEN 1 ELSE 0

OrderTypes ==
  /\ ring \in Seq(Item) /\ flash \in Seq(Item) /\ popped \in Seq(Item)
  /\ sent \in Nat /\ faults \in Nat
  /\ task \in TaskType

PartsRise == Rising(popped, Gap) /\ Rising(flash, Gap) /\ Rising(ring, 1)

PartsFollow ==
  /\ Below(Ids(popped), Ids(flash) \cup Ids(ring), Gap)
  /\ Below(Ids(flash), Ids(ring), IF At("discard") THEN 0 ELSE Gap)
  /\ Below(Ids(popped) \cup Ids(flash) \cup Ids(ring), {sent}, 0)

\* The item on its way to flash belongs between what is there and the ring.
HeldBetween ==
  At("push") =>
    /\ Below(Ids(popped) \cup Ids(flash), {task.held.id}, Gap)
    /\ Below({task.held.id}, Ids(ring) \cup {sent}, 0)

OrderInv == OrderTypes /\ PartsRise /\ PartsFollow /\ HeldBetween

LEMMA IdsType ==
  ASSUME NEW s \in Seq(Item)
  PROVE  Ids(s) \subseteq Nat
<1>1. \A k \in DOMAIN s: s[k] \in Item
  OBVIOUS
<1>2. QED  BY <1>1 DEF Ids, Item

LEMMA EmptyIds ==
  /\ <<>> \in Seq(Item)
  /\ Ids(<<>>) = {}
  /\ \A d \in Nat: Rising(<<>>, d)
BY DEF Ids, Rising

\* The items that are left when the oldest are dropped.
LEMMA RisingWithout ==
  ASSUME NEW s \in Seq(Item), NEW k \in 0 .. Len(s), NEW d \in Nat
  PROVE  /\ Without(s, k) \in Seq(Item)
         /\ Ids(Without(s, k)) \subseteq Ids(s)
         /\ Rising(s, d) => Rising(Without(s, k), d)
<1>1. /\ Without(s, k) \in Seq(Item)
      /\ Len(Without(s, k)) = Len(s) - k
      /\ \A i \in 1 .. Len(s) - k: Without(s, k)[i] = s[k + i]
  BY WithoutProperties
<1>2. DOMAIN Without(s, k) = 1 .. Len(s) - k /\ DOMAIN s = 1 .. Len(s)
  BY <1>1
<1>3. \A i \in DOMAIN Without(s, k): k + i \in DOMAIN s /\ Without(s, k)[i] = s[k + i]
  BY <1>1, <1>2
<1>4. Ids(Without(s, k)) \subseteq Ids(s)
  BY <1>3 DEF Ids
<1>5. ASSUME Rising(s, d), NEW i \in DOMAIN Without(s, k), NEW j \in DOMAIN Without(s, k),
             i < j
      PROVE  Without(s, k)[i].id + d <= Without(s, k)[j].id
  <2>1. k + i \in DOMAIN s /\ k + j \in DOMAIN s /\ k + i < k + j
    BY <1>2, <1>3, <1>5
  <2>2. QED  BY <1>3, <1>5, <2>1 DEF Rising
<1>6. QED  BY <1>1, <1>4, <1>5 DEF Rising

\* An item that comes last.
LEMMA RisingAppend ==
  ASSUME NEW s \in Seq(Item), NEW x \in Item, NEW d \in Nat,
         Rising(s, d), Below(Ids(s), {x.id}, d)
  PROVE  Rising(Append(s, x), d)
<1>1. /\ Len(Append(s, x)) = Len(s) + 1
      /\ \A i \in 1 .. Len(s): Append(s, x)[i] = s[i]
      /\ Append(s, x)[Len(s) + 1] = x
  BY AppendProperties
<1>2. DOMAIN Append(s, x) = 1 .. Len(s) + 1 /\ DOMAIN s = 1 .. Len(s)
  BY <1>1, AppendProperties
<1>3. \A i \in 1 .. Len(s): s[i].id + d <= x.id
  BY <1>2 DEF Below, Ids
<1>4. QED  BY <1>1, <1>2, <1>3 DEF Rising

\* Dropping the oldest item leaves items above it.
LEMMA AboveHead ==
  ASSUME NEW s \in Seq(Item), s # <<>>, NEW d \in Nat, Rising(s, d)
  PROVE  /\ Head(s) \in Item /\ Head(s).id \in Ids(s)
         /\ Without(s, 1) \in Seq(Item)
         /\ Below({Head(s).id}, Ids(s), 0)
         /\ Below({Head(s).id}, Ids(Without(s, 1)), d)
<1>1. Len(s) \in Nat /\ Len(s) >= 1 /\ DOMAIN s = 1 .. Len(s) /\ Head(s) = s[1]
  BY EmptySeq
<1>2. 1 \in DOMAIN s /\ s[1] \in Item
  BY <1>1
<1>3. \A i \in DOMAIN s: s[i].id \in Nat
  <2>1. \A i \in DOMAIN s: s[i] \in Item
    OBVIOUS
  <2>2. QED  BY <2>1 DEF Item
<1>4. Head(s).id \in Ids(s) /\ Below({Head(s).id}, Ids(s), 0)
  BY <1>1, <1>2, <1>3 DEF Ids, Below, Rising
<1>5. /\ Without(s, 1) \in Seq(Item)
      /\ Len(Without(s, 1)) = Len(s) - 1
      /\ \A i \in 1 .. Len(s) - 1: Without(s, 1)[i] = s[1 + i]
  <2>1. 1 \in 0 .. Len(s)
    BY <1>1
  <2>2. QED  BY <2>1, WithoutProperties
<1>6. \A i \in DOMAIN Without(s, 1): Head(s).id + d <= Without(s, 1)[i].id
  <2>1. DOMAIN Without(s, 1) = 1 .. Len(s) - 1
    BY <1>1, <1>5
  <2>2. \A i \in 1 .. Len(s) - 1: 1 + i \in DOMAIN s /\ 1 < 1 + i
    BY <1>1
  <2>3. QED  BY <1>1, <1>2, <1>5, <2>1, <2>2 DEF Rising
<1>7. QED  BY <1>1, <1>2, <1>4, <1>5, <1>6 DEF Below, Ids

\* What discard_oldest leaves.
LEMMA WithoutOldest ==
  ASSUME NEW s \in Seq(Item), Rising(s, 1)
  PROVE  /\ Without(s, 1) \in Seq(Item)
         /\ Ids(Without(s, 1)) \subseteq Ids(s)
         /\ Rising(Without(s, 1), 1)
<1>1. CASE s # <<>>
  <2>1. 1 \in 0 .. Len(s)
    BY <1>1, EmptySeq
  <2>2. QED  BY <2>1, RisingWithout
<1>2. CASE s = <<>>
  <2>1. Len(s) = 0 /\ SubSeq(s, 2, 0) = <<>>
    BY <1>2, SubSeqEmpty, EmptySeq
  <2>2. Without(s, 1) = <<>>
    BY <2>1 DEF Without
  <2>3. QED  BY <1>2, <2>2, EmptyIds
<1>3. QED  BY <1>1, <1>2

\* With a smaller gap less is asked.
LEMMA SmallerGap ==
  ASSUME NEW s \in Seq(Item), NEW d \in Nat, NEW e \in Nat, e <= d, Rising(s, d)
  PROVE  Rising(s, e)
<1>1. \A i \in DOMAIN s: s[i].id \in Nat
  <2>1. \A i \in DOMAIN s: s[i] \in Item
    OBVIOUS
  <2>2. QED  BY <2>1 DEF Item
<1>2. QED  BY <1>1 DEF Rising

LEMMA SmallerBelow ==
  ASSUME NEW S \in SUBSET Nat, NEW T \in SUBSET Nat, NEW d \in Nat, NEW e \in Nat,
         e <= d, Below(S, T, d)
  PROVE  Below(S, T, e)
BY DEF Below

\* The flash queues a push leaves, cut short or not.
LEMMA PushesRise ==
  ASSUME flash \in Seq(Item), NEW x \in Item, NEW allow \in BOOLEAN, NEW d \in Nat,
         Rising(flash, d), Below(Ids(flash), {x.id}, d)
  PROVE  \A q \in CutPushes(x, allow):
           q \in Seq(Item) /\ Rising(q, d) /\ Ids(q) \subseteq Ids(flash) \cup {x.id}
<1>1. ASSUME NEW k \in Drops(allow)
      PROVE  /\ Without(flash, k) \in Seq(Item) /\ Rising(Without(flash, k), d)
             /\ Ids(Without(flash, k)) \subseteq Ids(flash)
             /\ Append(Without(flash, k), x) \in Seq(Item)
             /\ Rising(Append(Without(flash, k), x), d)
             /\ Ids(Append(Without(flash, k), x)) \subseteq Ids(flash) \cup {x.id}
  <2>1. k \in 0 .. Len(flash)
    BY DEF Drops
  <2>2. /\ Without(flash, k) \in Seq(Item) /\ Rising(Without(flash, k), d)
        /\ Ids(Without(flash, k)) \subseteq Ids(flash)
    BY <2>1, RisingWithout
  <2>3. Below(Ids(Without(flash, k)), {x.id}, d)
    BY <2>2 DEF Below
  <2>4. QED  BY <2>2, <2>3, IdsAppend, RisingAppend
<1>2. QED  BY <1>1 DEF CutPushes, Pushes

LEMMA OrderInit == DrainInit => OrderInv
<1> SUFFICES ASSUME DrainInit PROVE OrderInv
  OBVIOUS
<1>1. OrderTypes
  BY EmptyIds DEF DrainInit, OrderTypes, TaskType, Idle, NoHeld, Item, DrainFunctions
<1>2. Gap \in Nat /\ ~ At("push")
  BY DEF Gap, DrainInit, At, Idle
<1>3. QED
  BY <1>1, <1>2, EmptyIds DEF OrderInv, DrainInit, PartsRise, PartsFollow, HeldBetween, Below

\* The facts of the invariant that the steps start from.
LEMMA OrderFacts ==
  ASSUME OrderInv
  PROVE  /\ Gap \in {0, 1} /\ OrderTypes
         /\ Ids(ring) \subseteq Nat /\ Ids(flash) \subseteq Nat /\ Ids(popped) \subseteq Nat
         /\ task.held \in Item /\ task.held.id \in Nat /\ task.allow \in BOOLEAN
BY IdsType DEF OrderInv, OrderTypes, Gap, TaskType, Item

\* A step that moves no item.
LEMMA OrderStays ==
  ASSUME OrderInv, UNCHANGED <<ring, flash, popped, sent, faults>>, ~At("discard"),
         task' \in TaskType, task'.pc \notin {"push", "discard"}
  PROVE  OrderInv'
BY DEF OrderInv, OrderTypes, PartsRise, PartsFollow, HeldBetween, At, Ids, Gap, Rising

LEMMA OrderStutters ==
  ASSUME OrderInv, UNCHANGED drainVars
  PROVE  OrderInv'
BY DEF OrderInv, OrderTypes, PartsRise, PartsFollow, HeldBetween, At, Ids, Gap, Rising,
       drainVars

\* The item that is accepted is the youngest, whatever it evicts.
LEMMA EnqueueOrder ==
  ASSUME OrderInv, NEW len \in Nat, NEW policy, Enqueue(len, policy)
  PROVE  OrderInv'
<1> DEFINE x == [id |-> sent + 1, len |-> len]
           k == EvictedBy(ring, x, policy)
           kept == Without(ring, k)
<1>1. /\ x \in Item /\ x.id = sent + 1
      /\ OrderTypes /\ sent \in Nat /\ ring \in Seq(Item)
  BY DEF OrderInv, OrderTypes, Item
<1>2. /\ Accepts(ring, x, policy)
      /\ ring' = Append(kept, x)
      /\ sent' = sent + 1
      /\ UNCHANGED <<flash, task, popped, faults>>
  BY DEF Enqueue, Enqueued
<1> HIDE DEF x
<1>3. k \in 0 .. Len(ring)
  BY <1>1, <1>2, EvictionsInRange
<1> HIDE DEF k
<1>4. /\ kept \in Seq(Item) /\ Ids(kept) \subseteq Ids(ring)
      /\ Rising(kept, 1)
  BY <1>1, <1>3, RisingWithout DEF OrderInv, PartsRise
<1> HIDE DEF kept
<1>5. Below(Ids(kept), {x.id}, 1)
  BY <1>1, <1>4, OrderFacts DEF OrderInv, PartsFollow, Below
<1>6. /\ ring' \in Seq(Item) /\ Rising(ring', 1)
      /\ Ids(ring') = Ids(kept) \cup {sent + 1}
  BY <1>1, <1>2, <1>4, <1>5, IdsAppend, RisingAppend
<1>7. /\ Ids(flash') = Ids(flash) /\ Ids(popped') = Ids(popped) /\ Gap' = Gap
      /\ At("discard")' = At("discard") /\ At("push")' = At("push")
      /\ PartsRise'
  BY <1>2, <1>6 DEF OrderInv, PartsRise, Ids, Gap, At, Rising
<1>8. PartsFollow'
  BY <1>1, <1>2, <1>4, <1>6, <1>7, OrderFacts DEF OrderInv, PartsFollow, Below
<1>9. HeldBetween'
  <2> SUFFICES ASSUME At("push")
               PROVE  /\ Below(Ids(popped) \cup Ids(flash), {task.held.id}, Gap)
                      /\ Below({task.held.id}, Ids(ring') \cup {sent'}, 0)
    BY <1>2, <1>7 DEF HeldBetween
  <2>1. /\ Below(Ids(popped) \cup Ids(flash), {task.held.id}, Gap)
        /\ Below({task.held.id}, Ids(ring) \cup {sent}, 0)
    BY DEF OrderInv, HeldBetween
  <2>2. \A b \in Ids(ring') \cup {sent'}: b \in Ids(ring) \/ b = sent + 1
    BY <1>2, <1>4, <1>6
  <2>3. task.held.id <= sent
    <3>1. task.held.id + 0 <= sent
      BY <2>1, Zenon DEF Below
    <3>2. QED  BY <1>1, <3>1, OrderFacts
  <2>4. QED  BY <1>1, <2>1, <2>2, <2>3, OrderFacts DEF Below
<1>10. OrderTypes'
  BY <1>1, <1>2, <1>6 DEF OrderTypes
<1>11. QED  BY <1>7, <1>8, <1>9, <1>10 DEF OrderInv

LEMMA FrontOrder ==
  ASSUME OrderInv, Front
  PROVE  OrderInv'
<1>1. /\ At("front") /\ ring # <<>>
      /\ task' = [task EXCEPT !.pc = "push", !.held = Head(ring)]
      /\ UNCHANGED <<ring, flash, popped, sent, faults>>
  BY DEF Front, CanPeek
<1>2. /\ Head(ring) \in Item /\ Head(ring).id \in Ids(ring)
      /\ Below({Head(ring).id}, Ids(ring), 0)
  BY <1>1, AboveHead DEF OrderInv, OrderTypes, PartsRise
<1>3. task' \in TaskType /\ task'.held = Head(ring) /\ task'.pc = "push" /\ ~At("discard")
  BY <1>1, <1>2 DEF OrderInv, OrderTypes, TaskType, At
<1>4. /\ Ids(ring') = Ids(ring) /\ Ids(flash') = Ids(flash) /\ Ids(popped') = Ids(popped)
      /\ Gap' = Gap /\ PartsRise' /\ ~At("discard")' /\ OrderTypes'
  BY <1>1, <1>3 DEF OrderInv, OrderTypes, PartsRise, Ids, Gap, At, Rising
<1>5. PartsFollow'
  BY <1>1, <1>3, <1>4 DEF OrderInv, PartsFollow
<1>6. HeldBetween'
  BY <1>1, <1>2, <1>3, <1>4, OrderFacts DEF OrderInv, PartsFollow, HeldBetween, Below
<1>7. QED  BY <1>4, <1>5, <1>6 DEF OrderInv

LEMMA NoFrontOrder ==
  ASSUME OrderInv, NoFront
  PROVE  OrderInv'
<1>1. task \in TaskType /\ UNCHANGED <<ring, flash, popped, sent, faults>> /\ ~At("discard")
  BY DEF OrderInv, OrderTypes, NoFront, At
<1>2. task' \in TaskType /\ task'.pc \in {"idle", "take"}
  <2>1. Goto("take") \/ Return("false") \/ Return("Ok")
    BY DEF NoFront
  <2>2. QED  BY <1>1, <2>1, ReturnType, GotoType
<1>3. QED  BY <1>1, <1>2, OrderStays

\* The oldest item of the ring leaves it: what flash holds is below the others.
LEMMA DiscardOrder ==
  ASSUME OrderInv, Discard
  PROVE  OrderInv'
<1>1. /\ At("discard") /\ ring' = Without(ring, 1)
      /\ UNCHANGED <<flash, popped, sent, faults>>
  BY DEF Discard
<1>2. task' \in TaskType /\ task'.pc \in {"idle", "front"}
  <2>1. Goto("front") \/ Return("Ok")
    BY DEF Discard
  <2>2. QED  BY <2>1, ReturnType, GotoType DEF OrderInv, OrderTypes
<1>3. /\ ring \in Seq(Item) /\ ring' \in Seq(Item) /\ Ids(ring') \subseteq Ids(ring)
      /\ Rising(ring, 1) /\ Rising(ring', 1)
  BY <1>1, WithoutOldest DEF OrderInv, OrderTypes, PartsRise
<1>4. /\ Ids(flash') = Ids(flash) /\ Ids(popped') = Ids(popped) /\ Gap' = Gap
      /\ ~At("discard")' /\ ~At("push")' /\ PartsRise' /\ OrderTypes'
  BY <1>1, <1>2, <1>3 DEF OrderInv, OrderTypes, PartsRise, Ids, Gap, At, Rising
<1>5. Below(Ids(flash), Ids(ring'), 1)
  <2>1. CASE ring # <<>>
    <3>1. /\ Head(ring).id \in Ids(ring)
          /\ Below({Head(ring).id}, Ids(ring'), 1)
      BY <1>1, <1>3, <2>1, AboveHead
    <3>2. Below(Ids(flash), Ids(ring), 0)
      BY <1>1 DEF OrderInv, PartsFollow
    <3>3. QED  BY <1>3, <3>1, <3>2, OrderFacts DEF Below
  <2>2. CASE ring = <<>>
    BY <1>3, <2>2, EmptyIds DEF Below
  <2>3. QED  BY <2>1, <2>2
<1>6. PartsFollow'
  BY <1>1, <1>3, <1>4, <1>5, OrderFacts DEF OrderInv, PartsFollow, Below
<1>7. QED  BY <1>4, <1>6 DEF OrderInv, HeldBetween

LEMMA PushStoredOrder ==
  ASSUME OrderInv, PushStored
  PROVE  OrderInv'
<1>1. /\ At("push") /\ flash' \in Pushes(task.held, task.allow)
      /\ Goto("discard")
      /\ UNCHANGED <<ring, popped, sent, faults>>
  BY DEF PushStored
<1>2. /\ flash \in Seq(Item) /\ Rising(flash, Gap)
      /\ Below(Ids(flash), {task.held.id}, Gap)
      /\ task \in TaskType
  BY <1>1 DEF OrderInv, OrderTypes, PartsRise, HeldBetween, Below
<1>3. /\ flash' \in Seq(Item) /\ Rising(flash', Gap)
      /\ Ids(flash') \subseteq Ids(flash) \cup {task.held.id}
  <2>1. flash' \in CutPushes(task.held, task.allow)
    BY <1>1 DEF CutPushes
  <2>2. \A q \in CutPushes(task.held, task.allow):
          q \in Seq(Item) /\ Rising(q, Gap) /\ Ids(q) \subseteq Ids(flash) \cup {task.held.id}
    <3>1. task.held \in Item /\ task.allow \in BOOLEAN /\ Gap \in Nat
      BY OrderFacts
    <3>2. QED  BY <1>2, <3>1, PushesRise
  <2>3. QED  BY <2>1, <2>2
<1>4. task' \in TaskType /\ task'.pc = "discard"
  BY <1>1, <1>2, GotoType
<1>5. /\ Ids(ring') = Ids(ring) /\ Ids(popped') = Ids(popped) /\ Gap' = Gap
      /\ At("discard")' /\ ~At("push")' /\ ~At("discard") /\ PartsRise' /\ OrderTypes'
  BY <1>1, <1>3, <1>4 DEF OrderInv, OrderTypes, PartsRise, Ids, Gap, At, Rising
<1>6. /\ Below(Ids(popped), Ids(flash) \cup Ids(ring) \cup {task.held.id}, Gap)
      /\ Below(Ids(flash) \cup {task.held.id}, Ids(ring), 0)
      /\ Below(Ids(popped) \cup Ids(flash) \cup Ids(ring) \cup {task.held.id}, {sent}, 0)
  BY <1>1, <1>5, OrderFacts DEF OrderInv, PartsFollow, HeldBetween, Below
<1>7. PartsFollow'
  BY <1>1, <1>3, <1>5, <1>6 DEF PartsFollow, Below
<1>8. QED  BY <1>5, <1>7 DEF OrderInv, HeldBetween

LEMMA PushRefusedOrder ==
  ASSUME OrderInv, PushTooBig \/ PushRefused
  PROVE  OrderInv'
<1>1. /\ UNCHANGED <<ring, flash, popped, sent, faults>> /\ ~At("discard")
      /\ Return("ItemTooBig") \/ Return("FullStorage")
  BY DEF PushTooBig, PushRefused, At
<1>2. QED  BY <1>1, ReturnType, OrderStays

\* The oldest item of flash becomes the youngest that was popped.
LEMMA TakeItemOrder ==
  ASSUME OrderInv, TakeItem
  PROVE  OrderInv'
<1>1. At("take") /\ flash # <<>> /\ UNCHANGED <<ring, sent, faults>>
  BY DEF TakeItem
<1>2. task' \in TaskType /\ task'.pc = "idle"
  <2>1. Return("BufferTooSmall") \/ Return("Ok")
    BY DEF TakeItem
  <2>2. QED  BY <2>1, ReturnType
<1>3. CASE UNCHANGED <<flash, popped>>
  BY <1>1, <1>2, <1>3, OrderStays DEF At
<1>4. CASE flash' = Without(flash, 1) /\ popped' = Append(popped, Head(flash))
  <2>1. /\ flash \in Seq(Item) /\ popped \in Seq(Item)
        /\ Rising(flash, Gap) /\ Rising(popped, Gap) /\ Gap \in Nat
    BY OrderFacts DEF OrderInv, OrderTypes, PartsRise
  <2>2. /\ Head(flash) \in Item /\ Head(flash).id \in Ids(flash)
        /\ flash' \in Seq(Item)
        /\ Below({Head(flash).id}, Ids(flash'), Gap)
    BY <1>1, <1>4, <2>1, AboveHead
  <2>3. Ids(flash') \subseteq Ids(flash) /\ Rising(flash', Gap)
    <3>1. 1 \in 0 .. Len(flash)
      BY <1>1, <2>1, EmptySeq
    <3>2. QED  BY <1>4, <2>1, <3>1, RisingWithout
  <2>4. Below(Ids(popped), {Head(flash).id}, Gap)
    BY <2>2 DEF OrderInv, PartsFollow, Below
  <2>5. /\ popped' \in Seq(Item) /\ Rising(popped', Gap)
        /\ Ids(popped') = Ids(popped) \cup {Head(flash).id}
    BY <1>4, <2>1, <2>2, <2>4, IdsAppend, RisingAppend
  <2>6. /\ Ids(ring') = Ids(ring) /\ Gap' = Gap
        /\ ~At("discard")' /\ ~At("push")' /\ ~At("discard") /\ PartsRise' /\ OrderTypes'
    BY <1>1, <1>2, <2>2, <2>3, <2>5
    DEF OrderInv, OrderTypes, PartsRise, Ids, Gap, At, Rising
  <2>7. /\ Below(Ids(popped), Ids(flash) \cup Ids(ring), Gap)
        /\ Below(Ids(flash), Ids(ring), Gap)
        /\ Below(Ids(popped) \cup Ids(flash) \cup Ids(ring), {sent}, 0)
    BY <2>6 DEF OrderInv, PartsFollow
  <2>8. PartsFollow'
    BY <1>1, <2>2, <2>3, <2>5, <2>6, <2>7 DEF PartsFollow, Below
  <2>9. QED  BY <2>6, <2>8 DEF OrderInv, HeldBetween
<1>5. QED  BY <1>3, <1>4 DEF TakeItem

\* What a call that is cut short leaves in flash fits where flash was.
LEMMA CutShortOrder ==
  ASSUME OrderInv, CutShort, ring' \in Seq(Item), Ids(ring') \subseteq Ids(ring),
         Rising(ring', 1), ~At("discard") \/ ring' = <<>>, UNCHANGED <<popped, sent>>,
         faults' = faults + 1, task' \in TaskType, task'.pc = "idle"
  PROVE  OrderInv'
<1> DEFINE held == IF At("push") /\ ~TooBig THEN {task.held.id} ELSE {}
<1>1. /\ OrderTypes /\ Gap \in Nat /\ 0 \in Nat /\ 0 <= Gap
      /\ Rising(flash, Gap) /\ Rising(popped, Gap)
      /\ flash \in Seq(Item) /\ popped \in Seq(Item)
      /\ faults \in Nat
  BY OrderFacts DEF OrderInv, OrderTypes, PartsRise
<1>2. Rising(flash, 0) /\ Rising(popped, 0)
  BY <1>1, SmallerGap
<1>3. /\ Below(Ids(popped), Ids(flash) \cup Ids(ring) \cup held, 0)
      /\ ~At("discard") => Below(Ids(flash) \cup held, Ids(ring), 0)
      /\ Below(Ids(popped) \cup Ids(flash) \cup Ids(ring) \cup held, {sent}, 0)
  BY OrderFacts DEF OrderInv, PartsFollow, HeldBetween, Below
<1>4. Below(Ids(flash), held, 0)
  BY OrderFacts DEF OrderInv, HeldBetween, Below
<1>5. /\ flash' \in Seq(Item) /\ Rising(flash', 0)
      /\ Ids(flash') \subseteq Ids(flash) \cup held
  <2>1. CASE At("push") /\ ~TooBig
    <3>1. flash' \in CutPushes(task.held, task.allow)
      BY <2>1 DEF CutShort, At
    <3>2. task.held \in Item /\ task.allow \in BOOLEAN
      BY OrderFacts
    <3>3. held = {task.held.id}
      BY <2>1
    <3>4. \A q \in CutPushes(task.held, task.allow):
            q \in Seq(Item) /\ Rising(q, 0) /\ Ids(q) \subseteq Ids(flash) \cup {task.held.id}
      BY <1>1, <1>2, <1>4, <3>2, <3>3, PushesRise
    <3>5. QED  BY <3>1, <3>3, <3>4
  <2>2. CASE ~(At("push") /\ ~TooBig) /\ At("take") /\ task.fn = "pop" /\ flash # <<>>
    <3>1. flash' \in {flash, Without(flash, 1)}
      BY <2>2 DEF CutShort
    <3>2. 1 \in 0 .. Len(flash)
      BY <1>1, <2>2, EmptySeq
    <3>3. QED  BY <1>1, <1>2, <3>1, <3>2, RisingWithout
  <2>3. CASE ~(At("push") /\ ~TooBig) /\ ~(At("take") /\ task.fn = "pop" /\ flash # <<>>)
    BY <1>1, <1>2, <2>3 DEF CutShort
  <2>4. QED  BY <2>1, <2>2, <2>3
<1>6. /\ Gap' = 0 /\ ~At("discard")' /\ ~At("push")' /\ OrderTypes' /\ PartsRise'
      /\ Ids(popped') = Ids(popped)
  BY <1>1, <1>2, <1>5 DEF OrderTypes, PartsRise, Gap, At, Ids, Rising
<1>7. Below(Ids(flash'), Ids(ring'), 0)
  <2>1. CASE ring' = <<>>
    BY <2>1, EmptyIds DEF Below
  <2>2. CASE ~At("discard")
    BY <1>3, <1>5, <2>2 DEF Below
  <2>3. QED  BY <2>1, <2>2
<1>8. PartsFollow'
  <2> HIDE DEF held
  <2>1. /\ Below(Ids(popped), Ids(flash') \cup Ids(ring'), 0)
        /\ Below(Ids(popped) \cup Ids(flash') \cup Ids(ring'), {sent}, 0)
    BY <1>3, <1>5 DEF Below
  <2>2. QED  BY <1>6, <1>7, <2>1 DEF PartsFollow
<1>9. QED  BY <1>6, <1>8 DEF OrderInv, HeldBetween

LEMMA FailOrder ==
  ASSUME OrderInv, Fail
  PROVE  OrderInv'
<1>1. /\ CutShort /\ Return("Storage") /\ UNCHANGED <<ring, popped, sent>>
      /\ faults' = faults + 1 /\ ~At("discard")
  BY DEF Fail, At
<1>2. task' \in TaskType /\ task'.pc = "idle"
  BY <1>1, ReturnType
<1>3. ring' \in Seq(Item) /\ Ids(ring') \subseteq Ids(ring) /\ Rising(ring', 1)
  BY <1>1 DEF OrderInv, OrderTypes, PartsRise
<1>4. QED  BY <1>1, <1>2, <1>3, CutShortOrder

LEMMA PowerLossOrder ==
  ASSUME OrderInv, PowerLoss
  PROVE  OrderInv'
<1>1. /\ CutShort /\ Return("PowerLoss") /\ UNCHANGED <<popped, sent>>
      /\ faults' = faults + 1 /\ ring' = <<>>
  BY DEF PowerLoss
<1>2. task' \in TaskType /\ task'.pc = "idle"
  BY <1>1, ReturnType
<1>3. ring' \in Seq(Item) /\ Ids(ring') \subseteq Ids(ring) /\ Rising(ring', 1)
  BY <1>1, EmptyIds
<1>4. QED  BY <1>1, <1>2, <1>3, CutShortOrder

\* Neighbours in two sequences joined, each of them in order and the first before the
\* second.
LEMMA JoinedRise ==
  ASSUME NEW s \in Seq(Item), NEW t \in Seq(Item), NEW d \in Nat,
         Rising(s, d), Rising(t, d), Below(Ids(s), Ids(t), d)
  PROVE  /\ s \o t \in Seq(Item)
         /\ Rising(s \o t, d)
         /\ Ids(s \o t) \subseteq Ids(s) \cup Ids(t)
<1>1. /\ s \o t \in Seq(Item)
      /\ Len(s \o t) = Len(s) + Len(t)
      /\ \A i \in 1 .. Len(s) + Len(t):
           (s \o t)[i] = IF i <= Len(s) THEN s[i] ELSE t[i - Len(s)]
  BY ConcatProperties
<1>2. /\ DOMAIN (s \o t) = 1 .. Len(s) + Len(t)
      /\ DOMAIN s = 1 .. Len(s) /\ DOMAIN t = 1 .. Len(t)
      /\ Len(s) \in Nat /\ Len(t) \in Nat
  BY <1>1
<1> DEFINE j == s \o t
<1> HIDE DEF j
<1>3. \A i \in DOMAIN j: \/ i \in DOMAIN s /\ i <= Len(s) /\ j[i] = s[i]
                         \/ i - Len(s) \in DOMAIN t /\ i > Len(s) /\ j[i] = t[i - Len(s)]
  BY <1>1, <1>2 DEF j
<1>4. Ids(j) \subseteq Ids(s) \cup Ids(t)
  BY <1>3 DEF Ids
<1>5. ASSUME NEW a \in DOMAIN j, NEW b \in DOMAIN j, a < b
      PROVE  j[a].id + d <= j[b].id
  <2>1. CASE b <= Len(s)
    BY <1>2, <1>3, <1>5, <2>1 DEF Rising, j
  <2>2. CASE a > Len(s)
    <3>1. /\ a - Len(s) \in DOMAIN t /\ b - Len(s) \in DOMAIN t
          /\ a - Len(s) < b - Len(s)
          /\ j[a] = t[a - Len(s)] /\ j[b] = t[b - Len(s)]
      BY <1>2, <1>3, <1>5, <2>2 DEF j
    <3>2. QED  BY <3>1 DEF Rising
  <2>3. CASE a <= Len(s) /\ b > Len(s)
    <3>1. j[a].id \in Ids(s) /\ j[b].id \in Ids(t)
      BY <1>2, <1>3, <2>3 DEF Ids, j
    <3>2. QED  BY <3>1 DEF Below
  <2>4. QED  BY <1>2, <2>1, <2>2, <2>3 DEF j
<1>6. QED  BY <1>1, <1>4, <1>5 DEF j, Rising

\* The parts in order make a history in order.
LEMMA OrderInvInOrder == OrderInv => InOrder
<1> SUFFICES ASSUME OrderInv PROVE InOrder
  OBVIOUS
<1> DEFINE d == IF At("discard") THEN 0 ELSE Gap
           stored == flash \o ring
<1>1. /\ ring \in Seq(Item) /\ flash \in Seq(Item) /\ popped \in Seq(Item)
      /\ Gap \in Nat /\ d \in Nat /\ d <= Gap /\ d <= 1
      /\ 1 \in Nat
      /\ d = 0 => faults > 0 \/ At("discard")
  BY OrderFacts DEF OrderInv, OrderTypes, Gap
<1>2. Rising(popped, d) /\ Rising(flash, d) /\ Rising(ring, d)
  <2> HIDE DEF d
  <2>1. QED  BY <1>1, SmallerGap DEF OrderInv, PartsRise
<1>3. Below(Ids(popped), Ids(flash) \cup Ids(ring), d) /\ Below(Ids(flash), Ids(ring), d)
  BY <1>1, OrderFacts DEF OrderInv, PartsFollow, Below
<1> HIDE DEF d
<1>4. /\ stored \in Seq(Item) /\ Rising(stored, d)
      /\ Ids(stored) \subseteq Ids(flash) \cup Ids(ring)
  BY <1>1, <1>2, <1>3, JoinedRise
<1>5. Below(Ids(popped), Ids(stored), d)
  BY <1>3, <1>4 DEF Below
<1> HIDE DEF stored
<1>6. popped \o stored \in Seq(Item) /\ Rising(popped \o stored, d)
  BY <1>1, <1>2, <1>4, <1>5, JoinedRise
<1>7. popped \o stored = History
  <2>1. (popped \o flash) \o ring = popped \o (flash \o ring)
    BY <1>1, ConcatAssociative
  <2>2. QED  BY <2>1 DEF History, stored
<1>8. SUFFICES ASSUME NEW k \in 1 .. Len(History) - 1
               PROVE  /\ History[k].id <= History[k + 1].id
                      /\ History[k].id = History[k + 1].id => faults > 0 \/ At("discard")
  BY DEF InOrder
<1>9. /\ History \in Seq(Item)
      /\ k \in DOMAIN History /\ k + 1 \in DOMAIN History /\ k < k + 1
  BY <1>6, <1>7
<1>10. History[k].id \in Nat /\ History[k + 1].id \in Nat
  <2>1. History[k] \in Item /\ History[k + 1] \in Item
    BY <1>9
  <2>2. QED  BY <2>1 DEF Item
<1>11. History[k].id + d <= History[k + 1].id
  BY <1>6, <1>7, <1>9 DEF Rising
<1>12. QED  BY <1>1, <1>10, <1>11

-----------------------------------------------------------------------------
(* Types, and what the items of the ring cost. *)

LEMMA UsedIsTotal ==
  ASSUME NEW s \in Seq(Item)
  PROVE  /\ Used(s) = Total(Len(s), [k \in 1 .. Len(s) |-> Cost(s[k])])
         /\ [k \in 1 .. Len(s) |-> Cost(s[k])] \in [1 .. Len(s) -> Nat]
<1> DEFINE c == [k \in 1 .. Len(s) |-> Cost(s[k])]
           P(u) == u = [k \in 0 .. Len(s) |-> IF k = 0 THEN 0 ELSE u[k - 1] + Cost(s[k])]
           Q(u) == u = [k \in 0 .. Len(s) |-> IF k = 0 THEN 0 ELSE u[k - 1] + c[k]]
<1>1. \A k \in 1 .. Len(s): c[k] = Cost(s[k])
  OBVIOUS
<1>2. ASSUME NEW u PROVE P(u) <=> Q(u)
  <2> HIDE DEF c
  <2>1. ASSUME NEW k \in 0 .. Len(s)
        PROVE  (IF k = 0 THEN 0 ELSE u[k - 1] + Cost(s[k]))
                 = (IF k = 0 THEN 0 ELSE u[k - 1] + c[k])
    <3>1. k # 0 => k \in 1 .. Len(s)
      OBVIOUS
    <3>2. QED  BY <1>1, <3>1
  <2>2. QED  BY <2>1
<1>3. (CHOOSE u: P(u)) = (CHOOSE u: Q(u))
  <2> HIDE DEF P, Q
  <2>1. QED  BY <1>2, Zenon
<1>4. Used(s) = Total(Len(s), c)
  BY <1>3 DEF Used, Total
<1>5. \A k \in 1 .. Len(s): Cost(s[k]) \in Nat
  <2>1. \A k \in 1 .. Len(s): s[k] \in Item
    OBVIOUS
  <2>2. QED  BY <2>1 DEF Item, Cost
<1>6. QED  BY <1>4, <1>5

LEMMA UsedEmpty == Used(<<>>) = 0
<1> DEFINE c == [k \in 1 .. 0 |-> 0]
<1>1. Len(<<>>) = 0 /\ <<>> \in Seq(Item)
  OBVIOUS
<1>2. Used(<<>>) = Total(0, [k \in 1 .. 0 |-> Cost(<<>>[k])])
      /\ [k \in 1 .. 0 |-> Cost(<<>>[k])] \in [1 .. 0 -> Nat]
  BY <1>1, UsedIsTotal
<1>3. [i \in 0 .. 0 |-> 0] \in [0 .. 0 -> Nat] /\ [i \in 0 .. 0 |-> 0][0] = 0 /\ 0 \in Nat
      /\ \A k \in 1 .. 0: FALSE
  OBVIOUS
<1>4. QED  BY <1>2, <1>3, RunningSum

LEMMA UsedProperties ==
  ASSUME NEW s \in Seq(Item)
  PROVE  /\ Used(s) \in Nat
         /\ \A x \in Item: Used(Append(s, x)) = Used(s) + Cost(x)
         /\ s # <<>> => Used(s) = Cost(Head(s)) + Used(Without(s, 1))
<1> DEFINE n == Len(s)
           c == [k \in 1 .. n |-> Cost(s[k])]
<1>1. n \in Nat /\ c \in [1 .. n -> Nat] /\ Used(s) = Total(n, c)
  BY UsedIsTotal
<1>2. Used(s) \in Nat
  <2> HIDE DEF c, n
  <2>1. QED  BY <1>1, RunningSumExists
<1>3. ASSUME NEW x \in Item
      PROVE  Used(Append(s, x)) = Used(s) + Cost(x)
  <2> DEFINE t == Append(s, x)
             d == [k \in 1 .. n + 1 |-> Cost(t[k])]
  <2>1. /\ t \in Seq(Item) /\ Len(t) = n + 1 /\ t[n + 1] = x
        /\ \A k \in 1 .. n: t[k] = s[k]
    BY AppendProperties
  <2> HIDE DEF t
  <2>2. d \in [1 .. n + 1 -> Nat] /\ Used(t) = Total(n + 1, d)
    BY <2>1, UsedIsTotal
  <2>3. (\A k \in 1 .. n: d[k] = c[k]) /\ d[n + 1] = Cost(x)
    BY <2>1
  <2> HIDE DEF c, d, n
  <2>4. Total(n + 1, d) = Total(n, c) + d[n + 1]
    BY <1>1, <2>2, <2>3, TotalLast
  <2>5. QED  BY <1>1, <2>2, <2>3, <2>4 DEF t
<1>4. ASSUME s # <<>>
      PROVE  Used(s) = Cost(Head(s)) + Used(Without(s, 1))
  <2> DEFINE t == Without(s, 1)
             m == n - 1
             b == [k \in 1 .. m |-> Cost(t[k])]
  <2>1. n >= 1 /\ m \in Nat /\ 1 \in 0 .. Len(s) /\ Head(s) = s[1] /\ m + 1 = n
    BY <1>4, EmptySeq
  <2>2. t \in Seq(Item) /\ Len(t) = m /\ \A k \in 1 .. m: t[k] = s[1 + k]
    BY <2>1, WithoutProperties
  <2> HIDE DEF t
  <2>3. b \in [1 .. m -> Nat] /\ Used(t) = Total(m, b)
    BY <2>2, UsedIsTotal
  <2>4. (\A k \in 1 .. m: c[k + 1] = b[k]) /\ c[1] = Cost(s[1])
    BY <2>1, <2>2
  <2> HIDE DEF b, c, m, n
  <2>5. Total(m + 1, c) = c[1] + Total(m, b)
    BY <1>1, <2>1, <2>3, <2>4, TotalFirst
  <2>6. QED  BY <1>1, <2>1, <2>3, <2>4, <2>5 DEF t
<1>5. QED  BY <1>2, <1>3, <1>4

\* An item that is accepted fits into what its evictions leave.
LEMMA RoomForIt ==
  ASSUME NEW s \in Seq(Item), NEW x \in Item, NEW policy, Accepts(s, x, policy)
  PROVE  /\ Enqueued(s, x, policy) \in Seq(Item)
         /\ Used(Enqueued(s, x, policy)) <= N
<1> DEFINE k == EvictedBy(s, x, policy)
           K == {i \in 0 .. Len(s): HasRoom(Without(s, i), x)}
<1>1. k \in 0 .. Len(s)
  BY EvictionsInRange
<1>2. HasRoom(Without(s, k), x)
  <2>1. CASE policy = "Err"
    <3>1. k = 0 /\ HasRoom(s, x)
      BY <2>1 DEF EvictedBy, Accepts
    <3>2. Without(s, 0) = s
      <4>1. Without(s, 0) = SubSeq(s, 1, Len(s))
        BY DEF Without
      <4>2. QED  BY <4>1, SubSeqFull
    <3>3. QED  BY <3>1, <3>2
  <2>2. CASE policy # "Err"
    <3>1. Without(s, Len(s)) = <<>>
      BY SubSeqEmpty DEF Without
    <3>2. Len(s) \in K
      BY <2>2, <3>1 DEF Accepts
    <3>3. K \in SUBSET Nat /\ K # {}
      BY <3>2
    <3>4. Min(K) \in K
      BY <3>3, MinInSet
    <3>5. QED  BY <2>2, <3>4 DEF EvictedBy, Evictions
  <2>3. QED  BY <2>1, <2>2
<1> HIDE DEF k
<1>3. Without(s, k) \in Seq(Item)
  BY <1>1, WithoutProperties
<1>4. Enqueued(s, x, policy) = Append(Without(s, k), x)
  BY DEF Enqueued, k
<1>5. QED  BY <1>2, <1>3, <1>4, UsedProperties, IdsAppend DEF HasRoom

\* What discard_oldest leaves costs no more.
LEMMA UsedWithoutOldest ==
  ASSUME NEW s \in Seq(Item)
  PROVE  Used(Without(s, 1)) <= Used(s)
<1>1. CASE s # <<>>
  <2>1. Without(s, 1) \in Seq(Item) /\ Head(s) \in Item
    BY <1>1, IdsTail, HeadTailProperties
  <2>2. Cost(Head(s)) \in Nat
    BY <2>1 DEF Cost, Item
  <2>3. Used(s) \in Nat /\ Used(Without(s, 1)) \in Nat
    BY <2>1, UsedProperties
  <2>4. Used(s) = Cost(Head(s)) + Used(Without(s, 1))
    BY <1>1, UsedProperties
  <2>5. QED  BY <2>2, <2>3, <2>4
<1>2. CASE s = <<>>
  <2>1. Without(s, 1) = <<>>
    BY <1>2, SubSeqEmpty, EmptySeq DEF Without
  <2>2. QED  BY <1>2, <2>1, UsedEmpty
<1>3. QED  BY <1>1, <1>2

Numbered(s) == s \in Seq(Item) /\ Ids(s) \subseteq 1 .. sent

\* Whatever leaves the ring or the flash has the number of an item that was accepted.
TypeInv ==
  /\ DrainTypeOK
  /\ Numbered(ring) /\ Numbered(flash)
  /\ At("push") => task.held.id \in 1 .. sent

LEMMA TypeInvInit == DrainInit => TypeInv
<1> SUFFICES ASSUME DrainInit PROVE TypeInv
  OBVIOUS
<1>1. task \in TaskType /\ ~ At("push") /\ ret \in RetType
  BY DEF DrainInit, TaskType, Idle, NoHeld, Item, At, NoRet, RetType
<1>2. QED
  BY <1>1, EmptyIds, UsedEmpty, NAssumption, FlashAssumption, BoundsAssumption
  DEF DrainInit, TypeInv, DrainTypeOK, Numbered

\* A step that moves no item.
LEMMA TypesStay ==
  ASSUME TypeInv, UNCHANGED <<ring, flash, sent, gone, popped, faults>>,
         task' \in TaskType, task'.pc # "push", ret' \in RetType
  PROVE  TypeInv'
BY DEF TypeInv, DrainTypeOK, Numbered, At, Ids, Used

LEMMA TypesStutter ==
  ASSUME TypeInv, UNCHANGED drainVars
  PROVE  TypeInv'
BY DEF TypeInv, DrainTypeOK, Numbered, At, Ids, Used, drainVars

LEMMA ReturnTypes ==
  ASSUME TypeInv,
         NEW status \in {"none", "Ok", "false", "None", "ItemTooBig", "FullStorage",
                         "BufferTooSmall", "Storage", "PowerLoss"},
         Return(status)
  PROVE  task' \in TaskType /\ task'.pc = "idle" /\ ret' \in RetType
<1>1. task.fn \in DrainFunctions \cup {"none"}
  BY DEF TypeInv, DrainTypeOK, TaskType
<1>2. QED  BY <1>1, ReturnType DEF Return, RetType

LEMMA EnqueueTypes ==
  ASSUME TypeInv, NEW len \in Nat, NEW policy, Enqueue(len, policy)
  PROVE  TypeInv'
<1> DEFINE x == [id |-> sent + 1, len |-> len]
           k == EvictedBy(ring, x, policy)
<1>1. x \in Item /\ x.id = sent + 1 /\ ring \in Seq(Item) /\ sent \in Nat
      /\ Ids(ring) \subseteq 1 .. sent /\ gone \subseteq 1 .. sent
      /\ Ids(flash) \subseteq 1 .. sent
  BY BoundsAssumption DEF TypeInv, DrainTypeOK, Item, Numbered
<1>2. /\ Accepts(ring, x, policy)
      /\ ring' = Enqueued(ring, x, policy)
      /\ gone' = gone \cup Ids(SubSeq(ring, 1, k))
      /\ sent < MaxSends /\ sent' = sent + 1
      /\ UNCHANGED <<flash, task, ret, popped, faults>>
  BY DEF Enqueue
<1> HIDE DEF x
<1>3. ring' \in Seq(Item) /\ Used(ring') <= N
  BY <1>1, <1>2, RoomForIt
<1>4. k \in 0 .. Len(ring) /\ ring' = Append(Without(ring, k), x)
  BY <1>1, <1>2, EvictionsInRange DEF Enqueued
<1> HIDE DEF k
<1>5. Ids(ring') \subseteq 1 .. sent'
  <2>1. Without(ring, k) \in Seq(Item) /\ Ids(Without(ring, k)) \subseteq Ids(ring)
    BY <1>1, <1>4, RisingWithout
  <2>2. Ids(ring') = Ids(Without(ring, k)) \cup {sent + 1}
    BY <1>1, <1>4, <2>1, IdsAppend
  <2>3. QED  BY <1>1, <1>2, <2>1, <2>2
<1>6. Ids(SubSeq(ring, 1, k)) \subseteq Ids(ring)
  <2>1. \A j \in 1 .. k: ring[j] \in Item
    BY <1>1, <1>4
  <2>2. Len(SubSeq(ring, 1, k)) = k /\ \A j \in 1 .. k: SubSeq(ring, 1, k)[j] = ring[j]
    BY <1>1, <1>4, <2>1, SubSeqProperties
  <2>3. DOMAIN SubSeq(ring, 1, k) = 1 .. k
    BY <1>1, <1>4, <2>1, <2>2, SubSeqProperties
  <2>4. QED  BY <1>1, <1>4, <2>2, <2>3 DEF Ids
<1>7. gone' \subseteq 1 .. sent' /\ sent' \in 0 .. MaxSends /\ Ids(flash') \subseteq 1 .. sent'
  <2>1. 1 .. sent \subseteq 1 .. sent' /\ sent' \in 0 .. MaxSends
    BY <1>1, <1>2, BoundsAssumption
  <2>2. Ids(flash') = Ids(flash) /\ gone' \subseteq 1 .. sent
    BY <1>1, <1>2, <1>6
  <2>3. QED  BY <1>1, <2>1, <2>2
<1>8. QED
  BY <1>2, <1>3, <1>5, <1>7 DEF TypeInv, DrainTypeOK, Numbered, At

LEMMA FrontTypes ==
  ASSUME TypeInv, Front
  PROVE  TypeInv'
<1>1. /\ ring # <<>>
      /\ task' = [task EXCEPT !.pc = "push", !.held = Head(ring)]
      /\ UNCHANGED <<ring, flash, ret, sent, gone, popped, faults>>
  BY DEF Front, CanPeek
<1>2. Head(ring) \in Item /\ Head(ring).id \in 1 .. sent
  <2>1. ring \in Seq(Item) /\ Ids(ring) \subseteq 1 .. sent
    BY DEF TypeInv, Numbered
  <2>2. 1 \in DOMAIN ring /\ Head(ring) = ring[1] /\ ring[1] \in Item
    BY <1>1, <2>1, EmptySeq
  <2>3. QED  BY <2>1, <2>2 DEF Ids
<1>3. task' \in TaskType /\ task'.held = Head(ring)
  BY <1>1, <1>2 DEF TypeInv, DrainTypeOK, TaskType
<1>4. QED  BY <1>1, <1>2, <1>3 DEF TypeInv, DrainTypeOK, Numbered, At, Ids, Used

LEMMA NoFrontTypes ==
  ASSUME TypeInv, NoFront
  PROVE  TypeInv'
<1>1. UNCHANGED <<ring, flash, sent, gone, popped, faults>>
  BY DEF NoFront
<1>2. task' \in TaskType /\ task'.pc # "push" /\ ret' \in RetType
  <2>1. (Goto("take") /\ UNCHANGED ret) \/ Return("false") \/ Return("Ok")
    BY DEF NoFront
  <2>2. QED  BY <2>1, ReturnTypes, GotoType DEF TypeInv, DrainTypeOK
<1>3. QED  BY <1>1, <1>2, TypesStay

LEMMA DiscardTypes ==
  ASSUME TypeInv, Discard
  PROVE  TypeInv'
<1>1. ring' = Without(ring, 1) /\ UNCHANGED <<flash, sent, gone, popped, faults>>
  BY DEF Discard
<1>2. task' \in TaskType /\ task'.pc # "push" /\ ret' \in RetType
  <2>1. (Goto("front") /\ UNCHANGED ret) \/ Return("Ok")
    BY DEF Discard
  <2>2. QED  BY <2>1, ReturnTypes, GotoType DEF TypeInv, DrainTypeOK
<1>3. ring \in Seq(Item) /\ Ids(ring) \subseteq 1 .. sent /\ Used(ring) <= N
  BY DEF TypeInv, DrainTypeOK, Numbered
<1>4. ring' \in Seq(Item) /\ Ids(ring') \subseteq Ids(ring) /\ Used(ring') <= N
  <2>1. Without(ring, 1) \in Seq(Item) /\ Ids(Without(ring, 1)) \subseteq Ids(ring)
    <3>1. CASE ring # <<>>
      <4>1. 1 \in 0 .. Len(ring)
        BY <1>3, <3>1, EmptySeq
      <4>2. QED  BY <1>3, <4>1, RisingWithout
    <3>2. CASE ring = <<>>
      <4>1. Without(ring, 1) = <<>>
        BY <3>2, SubSeqEmpty, EmptySeq DEF Without
      <4>2. QED  BY <4>1, EmptyIds
    <3>3. QED  BY <3>1, <3>2
  <2>2. Used(ring) \in Nat /\ Used(Without(ring, 1)) \in Nat
    BY <1>3, <2>1, UsedProperties
  <2>3. QED  BY <1>1, <1>3, <2>1, <2>2, UsedWithoutOldest, NAssumption
<1>5. QED  BY <1>1, <1>2, <1>3, <1>4 DEF TypeInv, DrainTypeOK, Numbered, At, Ids

\* The flash queues a push leaves, cut short or not.
LEMMA PushesFit ==
  ASSUME TypeInv, At("push")
  PROVE  \A q \in CutPushes(task.held, task.allow): Numbered(q) /\ Len(q) <= FlashMax
<1>1. /\ flash \in Seq(Item) /\ Ids(flash) \subseteq 1 .. sent /\ Len(flash) <= FlashMax
      /\ task.held \in Item /\ task.held.id \in 1 .. sent /\ Len(flash) \in Nat
  BY DEF TypeInv, DrainTypeOK, Numbered, TaskType
<1>2. ASSUME NEW k \in Drops(task.allow)
      PROVE  /\ Without(flash, k) \in Seq(Item) /\ Len(Without(flash, k)) = Len(flash) - k
             /\ Ids(Without(flash, k)) \subseteq 1 .. sent
             /\ k \in Nat
  <2>1. k \in 0 .. Len(flash)
    BY DEF Drops
  <2>2. QED  BY <1>1, <2>1, WithoutProperties, RisingWithout
<1>3. ASSUME NEW k \in Drops(task.allow)
      PROVE  Numbered(Without(flash, k)) /\ Len(Without(flash, k)) <= FlashMax
  BY <1>1, <1>2, FlashAssumption DEF Numbered
<1>4. ASSUME NEW k \in Drops(task.allow), Len(flash) - k < FlashMax
      PROVE  /\ Numbered(Append(Without(flash, k), task.held))
             /\ Len(Append(Without(flash, k), task.held)) <= FlashMax
  <2>1. /\ Append(Without(flash, k), task.held) \in Seq(Item)
        /\ Ids(Append(Without(flash, k), task.held)) \subseteq 1 .. sent
    BY <1>1, <1>2, IdsAppend
  <2>2. Len(Append(Without(flash, k), task.held)) = Len(flash) - k + 1
    BY <1>1, <1>2, AppendProperties
  <2>3. QED  BY <1>1, <1>2, <1>4, <2>1, <2>2, FlashAssumption DEF Numbered
<1>5. QED  BY <1>3, <1>4 DEF CutPushes, Pushes

LEMMA PushStoredTypes ==
  ASSUME TypeInv, PushStored
  PROVE  TypeInv'
<1>1. /\ At("push") /\ flash' \in Pushes(task.held, task.allow)
      /\ gone' = gone \cup LeavesFlash
      /\ Goto("discard")
      /\ UNCHANGED <<ring, ret, sent, popped, faults>>
  BY DEF PushStored
<1>2. Numbered(flash') /\ Len(flash') <= FlashMax
  <2>1. flash' \in CutPushes(task.held, task.allow)
    BY <1>1 DEF CutPushes
  <2>2. QED  BY <1>1, <2>1, PushesFit
<1>3. gone' \subseteq 1 .. sent
  BY <1>1 DEF LeavesFlash, TypeInv, DrainTypeOK, Numbered
<1>4. task' \in TaskType /\ task'.pc = "discard"
  BY <1>1, GotoType DEF TypeInv, DrainTypeOK
<1>5. QED  BY <1>1, <1>2, <1>3, <1>4 DEF TypeInv, DrainTypeOK, Numbered, At, Ids, Used

LEMMA PushRefusedTypes ==
  ASSUME TypeInv, PushTooBig \/ PushRefused
  PROVE  TypeInv'
<1>1. /\ UNCHANGED <<ring, flash, sent, gone, popped, faults>>
      /\ Return("ItemTooBig") \/ Return("FullStorage")
  BY DEF PushTooBig, PushRefused
<1>2. task' \in TaskType /\ task'.pc # "push" /\ ret' \in RetType
  BY <1>1, ReturnTypes
<1>3. QED  BY <1>1, <1>2, TypesStay

LEMMA TakeItemTypes ==
  ASSUME TypeInv, TakeItem
  PROVE  TypeInv'
<1>1. At("take") /\ flash # <<>> /\ UNCHANGED <<ring, sent, faults>>
  BY DEF TakeItem
<1>2. task' \in TaskType /\ task'.pc # "push" /\ ret' \in RetType
  <2>1. Return("BufferTooSmall") \/ Return("Ok")
    BY DEF TakeItem
  <2>2. QED  BY <2>1, ReturnTypes
<1>3. CASE UNCHANGED <<flash, gone, popped>>
  BY <1>1, <1>2, <1>3, TypesStay
<1>4. CASE /\ flash' = Without(flash, 1) /\ popped' = Append(popped, Head(flash))
           /\ gone' = gone \cup {Head(flash).id}
  <2>1. /\ flash \in Seq(Item) /\ Ids(flash) \subseteq 1 .. sent
        /\ Len(flash) <= FlashMax /\ popped \in Seq(Item) /\ gone \subseteq 1 .. sent
    BY DEF TypeInv, DrainTypeOK, Numbered
  <2>2. 1 \in 0 .. Len(flash) /\ Head(flash) = flash[1] /\ 1 \in DOMAIN flash
        /\ Head(flash) \in Item
    BY <1>1, <2>1, EmptySeq
  <2>3. /\ Without(flash, 1) \in Seq(Item) /\ Ids(Without(flash, 1)) \subseteq Ids(flash)
        /\ Len(Without(flash, 1)) = Len(flash) - 1
    BY <2>1, <2>2, WithoutProperties, RisingWithout
  <2>4. Head(flash).id \in 1 .. sent
    BY <2>1, <2>2 DEF Ids
  <2>5. Numbered(flash') /\ Len(flash') <= FlashMax
    BY <1>1, <1>4, <2>1, <2>2, <2>3, FlashAssumption DEF Numbered
  <2>6. gone' \subseteq 1 .. sent /\ popped' \in Seq(Item)
    BY <1>4, <2>1, <2>2, <2>4, IdsAppend
  <2>7. QED
    BY <1>1, <1>2, <2>5, <2>6 DEF TypeInv, DrainTypeOK, Numbered, At, Ids, Used
<1>5. QED  BY <1>3, <1>4 DEF TakeItem

\* A call that is cut short, with the ring as it was or empty.
LEMMA CutShortTypes ==
  ASSUME TypeInv, CutShort, ring' \in {ring, <<>>}, UNCHANGED <<popped, sent>>,
         gone' \subseteq gone \cup LeavesFlash \cup Ids(ring),
         faults < MaxFaults, faults' = faults + 1,
         task' \in TaskType, task'.pc = "idle", ret' \in RetType
  PROVE  TypeInv'
<1>1. /\ flash \in Seq(Item) /\ Ids(flash) \subseteq 1 .. sent /\ Len(flash) <= FlashMax
      /\ ring \in Seq(Item) /\ Ids(ring) \subseteq 1 .. sent /\ gone \subseteq 1 .. sent
      /\ faults \in 0 .. MaxFaults /\ Used(ring) <= N
  BY DEF TypeInv, DrainTypeOK, Numbered
<1>2. flash' \in Seq(Item) /\ Ids(flash') \subseteq 1 .. sent /\ Len(flash') <= FlashMax
  <2>1. CASE At("push") /\ ~TooBig
    <3>1. flash' \in CutPushes(task.held, task.allow)
      BY <2>1 DEF CutShort, At
    <3>2. QED  BY <2>1, <3>1, PushesFit DEF Numbered
  <2>2. CASE ~(At("push") /\ ~TooBig) /\ At("take") /\ task.fn = "pop" /\ flash # <<>>
    <3>1. flash' \in {flash, Without(flash, 1)}
      BY <2>2 DEF CutShort
    <3>2. 1 \in 0 .. Len(flash)
      BY <1>1, <2>2, EmptySeq
    <3>3. /\ Without(flash, 1) \in Seq(Item) /\ Ids(Without(flash, 1)) \subseteq Ids(flash)
          /\ Len(Without(flash, 1)) = Len(flash) - 1
      BY <1>1, <3>2, WithoutProperties, RisingWithout
    <3>4. QED  BY <1>1, <3>1, <3>2, <3>3, FlashAssumption
  <2>3. CASE ~(At("push") /\ ~TooBig) /\ ~(At("take") /\ task.fn = "pop" /\ flash # <<>>)
    BY <1>1, <2>3 DEF CutShort
  <2>4. QED  BY <2>1, <2>2, <2>3
<1>3. Numbered(ring') /\ Used(ring') <= N /\ Numbered(flash')
  <2>1. CASE ring' = ring
    BY <1>1, <1>2, <2>1 DEF Numbered
  <2>2. CASE ring' = <<>>
    <3>1. ring' \in Seq(Item) /\ Ids(ring') \subseteq 1 .. sent' /\ Used(ring') = 0
      BY <2>2, EmptyIds, UsedEmpty
    <3>2. QED  BY <1>2, <3>1, NAssumption DEF Numbered
  <2>3. QED  BY <2>1, <2>2
<1>4. gone' \subseteq 1 .. sent' /\ faults' \in 0 .. MaxFaults
  BY <1>1, BoundsAssumption DEF LeavesFlash
<1>5. QED  BY <1>2, <1>3, <1>4 DEF TypeInv, DrainTypeOK, Numbered, At

LEMMA FailTypes ==
  ASSUME TypeInv, Fail
  PROVE  TypeInv'
<1>1. /\ CutShort /\ Return("Storage") /\ UNCHANGED <<ring, popped, sent>>
      /\ gone' = gone \cup LeavesFlash
      /\ faults < MaxFaults /\ faults' = faults + 1
  BY DEF Fail
<1>2. task' \in TaskType /\ task'.pc = "idle" /\ ret' \in RetType
  BY <1>1, ReturnTypes
<1>3. QED  BY <1>1, <1>2, CutShortTypes

LEMMA PowerLossTypes ==
  ASSUME TypeInv, PowerLoss
  PROVE  TypeInv'
<1>1. /\ CutShort /\ Return("PowerLoss") /\ UNCHANGED <<popped, sent>> /\ ring' = <<>>
      /\ gone' = gone \cup LeavesFlash \cup Ids(ring)
      /\ faults < MaxFaults /\ faults' = faults + 1
  BY DEF PowerLoss
<1>2. task' \in TaskType /\ task'.pc = "idle" /\ ret' \in RetType
  BY <1>1, ReturnTypes
<1>3. QED  BY <1>1, <1>2, CutShortTypes

=============================================================================
