---------------------------- MODULE QueueProofs ----------------------------
(***************************************************************************)
(* Theorems about QueueStorage, for all values of the constants: its types, *)
(* that the page states in the cache are those in flash, that the pages     *)
(* stay in order, that one repair is enough, that only erased words are     *)
(* written, that page pointers are right, and that a full queue has an item. *)
(***************************************************************************)
EXTENDS QueueStorage, GenericProofs

\* find_youngest_page returns a page or the Corrupted error.
LEMMA YoungestIsPage ==
  ASSUME NEW c
  PROVE  FindYoungest(c) \in Pages \cup {CorruptedPage}
<1> DEFINE partial == FindFirst(c, 0, "PartialOpen")
           anchor == FindFirst(c, 0, "Closed")
           open == FindFirst(c, anchor, "Open")
<1>1. partial \in PageOrNone /\ anchor \in PageOrNone
  BY FirstFound
<1>2. anchor \in Int
  BY <1>1, PageCountAssumption DEF PageOrNone, NoPage, CorruptedPage, Pages
<1>3. open \in PageOrNone
  BY <1>2, FirstFound
<1>4. 0 \in Pages
  BY PageCountAssumption DEF Pages
<1> HIDE DEF partial, anchor, open
<1>5. FindYoungest(c) = IF partial # NoPage THEN partial
                        ELSE IF anchor = NoPage THEN 0
                        ELSE IF open = NoPage THEN CorruptedPage
                        ELSE open
  BY DEF FindYoungest, partial, anchor, open
<1>6. QED  BY <1>1, <1>3, <1>4, <1>5 DEF PageOrNone

\* find_oldest_page returns a page or the Corrupted error.
LEMMA OldestIsPage ==
  ASSUME NEW c, NEW youngest \in Pages \cup {CorruptedPage}
  PROVE  FindOldest(c, youngest) \in Pages \cup {CorruptedPage}
<1>1. youngest \in Int
  BY PageCountAssumption DEF CorruptedPage, Pages
<1>2. FindFirst(c, youngest, "Closed") \in PageOrNone
  BY <1>1, FirstFound
<1>3. QED  BY <1>2 DEF FindOldest, PageOrNone

-----------------------------------------------------------------------------
(***************************************************************************)
(* Types (TypeOK).                                                          *)
(*                                                                         *)
(* Types alone are not inductive: that a header is written inside its page  *)
(* depends on the size check made some steps before (CallShape), that a pop *)
(* zeroes a header depends on the entry being intact (EntryShape), and both *)
(* on no flash operation being pending between two calls (QuietIdle).       *)
(***************************************************************************)

PushPCs == {"push", "place", "opened", "advance", "write", "data", "finish"}
NextPCs == {"next", "scan", "reopened"}

\* What the program counter says of the rest of the call's state.
CallShape ==
  /\ op.pc = "idle" => op = Idle
  /\ op.pc \notin {"idle", "popped"} => op.fn \in PCs
  /\ op.pc \in PushPCs => op.fn = "push"
  /\ op.pc \in NextPCs => op.fn = "next"
  /\ op.fn = "push" => op.item \in Items
  /\ op.pc \in PushPCs \ {"push"} => Size[op.item] <= PageWords - 1
  /\ op.pc = "write" => Fits(op.addr, Size[op.item])

\* An entry is only held between two calls, and then its item is intact.
EntryShape ==
  HasEntry => /\ iter.live /\ op = Idle
              /\ IsPresent(flash[iter.entryPage].words, iter.entryAddr)

\* The iterator that next was called on is there until next returns.
NextHasIter == op.fn = "next" => iter.live

QuietIdle == op = Idle => io = NoIO

IInv == TypeOK /\ CallShape /\ EntryShape /\ QuietIdle /\ HasData(io)

\* The constants the actions start from have their types.
LEMMA SmallTypes ==
  /\ 0 \in Pages /\ 0 \in Addrs /\ 0 \in 0 .. PageWords
  /\ Idle \in OpType /\ NoRet \in RetType /\ NoIter \in IterType /\ NoIO \in IOType
  /\ NoIter.entryAddr = NoAddr /\ ~NoIter.live
  /\ Idle.pc = "idle" /\ Idle.fn = "none"
  /\ HasData(NoIO)
<1>1. 0 \in Pages /\ 0 \in Addrs /\ 0 \in 0 .. PageWords
  BY PageCountAssumption, PageWordsAssumption DEF Pages, Addrs
<1>2. QED
  BY <1>1 DEF Idle, OpType, PCs, NoRet, RetType, Statuses, NoIter, IterType, Previous,
              NoIO, IOType, Commands, HasData

\* What a call returns has its type.
LEMMA ResultType ==
  ASSUME op \in OpType, NEW status \in Statuses
  PROVE  /\ Result(status) \in RetType
         /\ \A i \in Items \cup {NoItem}: ItemResult(i) \in RetType
         /\ \A n \in Int: NumResult(n) \in RetType
<1>1. Result("Ok") \in RetType /\ Result(status) \in RetType
  BY DEF Result, RetType, Statuses, OpType
<1>2. QED  BY <1>1 DEF ItemResult, NumResult, RetType

\* The first Corrupted error starts a repair, the second one ends the call.
LEMMA HandleCorruptionInv ==
  ASSUME IInv, NEW c \in CacheType, HandleCorruption(c), op.pc \notin {"idle", "popped"}
  PROVE  cache' \in CacheType /\ op' \in OpType /\ ret' \in RetType /\ CallShape' /\ op # Idle
<1> USE DEF IInv, TypeOK
<1>1. CASE op.retried
  BY <1>1, SmallTypes, ResultType DEF HandleCorruption, Return, CallShape, Statuses, PushPCs, NextPCs
<1>2. CASE ~op.retried
  <2>1. /\ cache' = FreshCache /\ ret' = ret
        /\ op' = [op EXCEPT !.pc = "repair", !.cur = 0, !.retried = TRUE]
    BY <1>2 DEF HandleCorruption
  <2>2. op' \in OpType
    BY <2>1, SmallTypes DEF OpType, PCs
  <2>3. op'.pc = "repair" /\ op'.fn = op.fn /\ op'.item = op.item
    BY <2>1 DEF OpType
  <2>4. CallShape'
    BY <2>3 DEF CallShape, PushPCs, NextPCs
  <2>5. op # Idle
    BY DEF Idle
  <2>6. QED  BY <2>1, <2>2, <2>4, <2>5, FreshCacheType
<1>3. QED  BY <1>1, <1>2, SmallTypes

\* While a call runs no entry is held, so a step that keeps the iterator keeps EntryShape.
LEMMA RunningCall ==
  ASSUME IInv, op.pc # "idle"
  PROVE  op # Idle /\ ~HasEntry /\ (iter' = iter => EntryShape')
<1>1. op # Idle
  BY SmallTypes
<1>2. QED  BY <1>1 DEF IInv, EntryShape, HasEntry

\* A call that returns, with no flash operation pending, is over.
LEMMA ReturnInv ==
  ASSUME IInv, NEW r \in RetType, Return(r)
  PROVE  op' \in OpType /\ ret' \in RetType /\ CallShape' /\ op' = Idle
BY SmallTypes DEF Return, CallShape, PushPCs, NextPCs

-----------------------------------------------------------------------------
(* Every step preserves the inductive invariant *)

\* A flash operation completes.
LEMMA FlashDoneInv ==
  ASSUME IInv, FlashDone, UNCHANGED qvars
  PROVE  IInv'
<1> USE DEF IInv, TypeOK
<1>1. flash' \in [Pages -> Page]
  BY FlashType DEF FlashDone
<1>2. EntryShape'
  BY DEF FlashDone, QuietIdle, EntryShape, HasEntry, qvars
<1>3. CallShape'
  BY DEF CallShape, qvars
<1>4. QED
  BY <1>1, <1>2, <1>3, SmallTypes DEF FlashDone, qvars, QuietIdle

\* A call fails, or power is lost.
LEMMA FaultInv ==
  ASSUME IInv, Fail \/ PowerLoss
  PROVE  IInv'
<1> USE DEF IInv, TypeOK
<1>1. CASE Fail
  <2>1. op.pc # "idle"
    BY <1>1 DEF Fail, CallShape
  <2>2. EntryShape'
    BY <1>1, <2>1, RunningCall DEF Fail
  <2>3. Result("Storage") \in RetType
    BY ResultType DEF Statuses
  <2>4. op' \in OpType /\ ret' \in RetType /\ CallShape' /\ op' = Idle
    BY <1>1, <2>3, ReturnInv DEF Fail
  <2>5. faults' \in 0 .. MaxFaults
    BY <1>1, MaxFaultsAssumption DEF Fail
  <2>6. QED
    BY <1>1, <2>2, <2>4, <2>5, CutShortType DEF Fail, QuietIdle
<1>2. CASE PowerLoss
  <2> DEFINE r == [Result("PowerLoss") EXCEPT !.fn = IF Usable THEN @ ELSE "erase_all"]
  <2>1. Result("PowerLoss") \in RetType
    BY ResultType DEF Statuses
  <2>2. r \in RetType
    BY <2>1 DEF RetType, Functions
  <2> HIDE DEF r
  <2>3. Return(r)
    BY <1>2 DEF PowerLoss, r
  <2>4. op' \in OpType /\ ret' \in RetType /\ CallShape' /\ op' = Idle
    BY <2>2, <2>3, ReturnInv
  <2>5. faults' \in 0 .. MaxFaults
    BY <1>2, MaxFaultsAssumption DEF PowerLoss
  <2>6. EntryShape'
    BY <1>2, SmallTypes DEF PowerLoss, EntryShape, HasEntry
  <2>7. QED
    BY <1>2, <2>4, <2>5, <2>6, SmallTypes, FreshCacheType, CutShortType DEF PowerLoss, QuietIdle
<1>3. QED  BY <1>1, <1>2

\* try_general_repair.
LEMMA RepairInv ==
  ASSUME IInv, RepairPage \/ RepairDone
  PROVE  IInv'
<1> USE DEF IInv, TypeOK
<1>1. CASE RepairPage
  <2> DEFINE torn == {p \in Pages: p >= op.cur /\ StateOf(cache, p) = "Corrupted"}
  <2>1. Min(torn) \in Pages
    <3>1. torn \in SUBSET Nat /\ torn # {}
      BY <1>1, PageCountAssumption DEF RepairPage, Pages
    <3>2. QED  BY <3>1, MinInSet
  <2> DEFINE q == Min(torn)
  <2> HIDE DEF q, torn
  <2>2. /\ At("repair") /\ OpenPage(Learn(cache, op.cur .. q), q)
        /\ op' = [op EXCEPT !.cur = q] /\ UNCHANGED <<flash, iter, ret, faults>>
    BY <1>1 DEF RepairPage, torn, q
  <2>3. cache' \in CacheType
    BY <2>1, <2>2, LearnType, NoticeStateType DEF OpenPage, PageStates, q
  <2>4. io' \in IOType /\ HasData(io)'
    BY <2>1, <2>2, PageIOType DEF OpenPage, Commands, q
  <2>5. op' \in OpType /\ op'.pc = "repair" /\ op'.fn = op.fn /\ op'.item = op.item
    BY <2>1, <2>2 DEF OpType, At, q
  <2>6. CallShape' /\ op' # Idle
    BY <2>2, <2>5 DEF CallShape, PushPCs, NextPCs, Idle, At
  <2>7. EntryShape'
    BY <2>2, RunningCall DEF At
  <2>8. QED  BY <2>2, <2>3, <2>4, <2>5, <2>6, <2>7 DEF QuietIdle
<1>2. CASE RepairDone
  <2>1. cache' \in CacheType
    BY <1>2, LearnType DEF RepairDone
  <2>2. op.pc = "repair" /\ op.fn \in PCs /\ op.fn \in Functions
    BY <1>2 DEF RepairDone, At, CallShape, OpType, PCs
  <2>3. op' \in OpType /\ op'.pc = op.fn /\ op'.fn = op.fn /\ op'.item = op.item
    BY <1>2, <2>2, SmallTypes DEF RepairDone, OpType
  <2>4. (op.fn \in PushPCs => op.fn = "push") /\ (op.fn \in NextPCs => op.fn = "next")
    BY <2>2 DEF Functions, PushPCs, NextPCs
  <2>5. CallShape' /\ op' # Idle
    BY <2>2, <2>3, <2>4 DEF CallShape, PushPCs, NextPCs, Idle, Functions
  <2>6. EntryShape'
    BY <1>2, <2>2, RunningCall DEF RepairDone
  <2>7. QED  BY <1>2, <2>1, <2>3, <2>5, <2>6 DEF RepairDone, Settled, QuietIdle
<1>3. QED  BY <1>1, <1>2

\* Finding the youngest and the oldest page leaves a cache.
LEMMA YoungestCacheType ==
  ASSUME IInv
  PROVE  /\ Refresh(cache) \in CacheType
         /\ LearnYoungest(Refresh(cache)) \in CacheType
         /\ \A y: LearnOldest(Refresh(cache), y) \in CacheType
BY DirtyType, LearnType DEF IInv, TypeOK, LearnYoungest, LearnOldest

\* push_inner up to the choice of the page.
LEMMA PushSearchInv ==
  ASSUME IInv, PushTooBig \/ PushStart \/ PushHere
  PROVE  IInv'
<1> USE DEF IInv, TypeOK
<1>1. op.pc # "idle" /\ op.fn = "push" /\ op.item \in Items /\ io = NoIO
  BY DEF PushTooBig, PushStart, PushHere, At, CallShape, PushPCs, NextPCs
<1>2. op # Idle /\ EntryShape'
  BY <1>1, RunningCall DEF PushTooBig, PushStart, PushHere
<1>3. CASE PushTooBig
  <2>1. cache' \in CacheType
    BY <1>3, DirtyType DEF PushTooBig
  <2>2. Result("ItemTooBig") \in RetType
    BY ResultType DEF Statuses
  <2>3. op' \in OpType /\ ret' \in RetType /\ CallShape'
    BY <1>3, <2>2, ReturnInv DEF PushTooBig
  <2>4. QED  BY <1>1, <1>2, <1>3, <2>1, <2>3 DEF PushTooBig, Settled, QuietIdle
<1>4. CASE PushStart
  <2> DEFINE y == FindYoungest(Refresh(cache))
             known == LearnYoungest(Refresh(cache))
  <2>1. y \in Pages \cup {CorruptedPage} /\ known \in CacheType
    BY YoungestIsPage, YoungestCacheType
  <2>2. /\ op.pc = "push" /\ Size[op.item] <= PageWords - 1
        /\ IF y = CorruptedPage
           THEN HandleCorruption(known) /\ UNCHANGED io
           ELSE /\ PartialClosePage(known, y)
                /\ op' = [op EXCEPT !.pc = "place", !.cur = y]
                /\ UNCHANGED ret
        /\ UNCHANGED <<flash, iter, faults>>
    BY <1>4 DEF PushStart, At
  <2> HIDE DEF y, known
  <2>3. CASE y = CorruptedPage
    <3>1. cache' \in CacheType /\ op' \in OpType /\ ret' \in RetType /\ CallShape'
      BY <2>1, <2>2, <2>3, HandleCorruptionInv
    <3>2. QED  BY <1>1, <1>2, <2>2, <2>3, <3>1 DEF QuietIdle
  <2>4. CASE y # CorruptedPage
    <3>1. cache' \in CacheType /\ io' \in IOType /\ HasData(io)'
      BY <2>1, <2>2, <2>4, MarkerType
    <3>2. op' \in OpType /\ op'.pc = "place" /\ op'.fn = op.fn /\ op'.item = op.item
      BY <2>1, <2>2, <2>4 DEF OpType, PCs
    <3>3. CallShape' /\ op' # Idle
      BY <1>1, <2>2, <3>2 DEF CallShape, PushPCs, NextPCs, Idle, PCs
    <3>4. QED  BY <1>2, <2>2, <2>4, <3>1, <3>2, <3>3 DEF QuietIdle
  <2>5. QED  BY <2>3, <2>4
<1>5. CASE PushHere
  <2>1. PICK a \in Addrs: /\ Fits(a, Size[op.item])
                          /\ op' = [op EXCEPT !.pc = "write", !.addr = a]
    BY <1>5 DEF PushHere
  <2>2. op' \in OpType /\ op'.pc = "write" /\ op'.fn = op.fn /\ op'.item = op.item /\ op'.addr = a
    BY <2>1 DEF OpType, PCs
  <2>3. CallShape' /\ op' # Idle
    BY <1>1, <1>5, <2>1, <2>2 DEF PushHere, At, CallShape, PushPCs, NextPCs, Idle, PCs
  <2>4. QED  BY <1>1, <1>2, <1>5, <2>2, <2>3 DEF PushHere, Settled, QuietIdle
<1>6. QED  BY <1>3, <1>4, <1>5

\* push_inner when the current page is full.
LEMMA PushNextInv ==
  ASSUME IInv, PushNext
  PROVE  IInv'
<1> USE DEF IInv, TypeOK
<1> DEFINE next == NextPage(op.cur)
           known == Learn(cache, {next})
<1>1. op.pc = "place" /\ op.fn = "push" /\ io = NoIO /\ UNCHANGED <<flash, iter, faults>>
  BY DEF PushNext, At, CallShape, PushPCs, NextPCs
<1>2. op # Idle /\ EntryShape'
  BY <1>1, RunningCall
<1>3. next \in Pages /\ known \in CacheType
  <2>1. op.cur \in Int
    BY DEF OpType, Pages
  <2>2. QED  BY <2>1, PageArithmetic, LearnType
<1>4. \/ HandleCorruption(known) /\ UNCHANGED io
      \/ ClosePage(known, op.cur) /\ Goto("advance") /\ UNCHANGED ret
      \/ cache' = UnmarkDirty(known) /\ UNCHANGED io /\ Return(Result("FullStorage"))
      \/ OpenPage(known, next) /\ Goto("opened") /\ UNCHANGED ret
  BY DEF PushNext
<1> HIDE DEF next, known
<1>5. CASE HandleCorruption(known) /\ UNCHANGED io
  <2>1. cache' \in CacheType /\ op' \in OpType /\ ret' \in RetType /\ CallShape'
    BY <1>1, <1>3, <1>5, HandleCorruptionInv
  <2>2. QED  BY <1>1, <1>2, <1>5, <2>1 DEF QuietIdle
<1>6. CASE cache' = UnmarkDirty(known) /\ UNCHANGED io /\ Return(Result("FullStorage"))
  <2>1. Result("FullStorage") \in RetType
    BY ResultType DEF Statuses
  <2>2. op' \in OpType /\ ret' \in RetType /\ CallShape'
    BY <1>6, <2>1, ReturnInv
  <2>3. QED  BY <1>1, <1>2, <1>3, <1>6, <2>2, DirtyType DEF QuietIdle
<1>7. CASE /\ \/ ClosePage(known, op.cur) /\ Goto("advance")
              \/ OpenPage(known, next) /\ Goto("opened")
           /\ UNCHANGED ret
  <2>1. cache' \in CacheType /\ io' \in IOType /\ HasData(io)'
    BY <1>3, <1>7, MarkerType DEF OpType
  <2>2. /\ op' \in OpType /\ op'.pc \in {"advance", "opened"}
        /\ op'.fn = op.fn /\ op'.item = op.item
    BY <1>7 DEF Goto, OpType, PCs
  <2>3. CallShape' /\ op' # Idle
    BY <1>1, <2>2 DEF CallShape, PushPCs, NextPCs, Idle, PCs
  <2>4. QED  BY <1>1, <1>2, <1>7, <2>1, <2>2, <2>3 DEF QuietIdle
<1>8. QED  BY <1>4, <1>5, <1>6, <1>7

\* push_inner from the new page to the written item: the item fits where it is written.
LEMMA PushWriteInv ==
  ASSUME IInv, PushOpened \/ PushAdvance \/ PushWrite \/ PushData \/ PushFinish
  PROVE  IInv'
<1> USE DEF IInv, TypeOK
<1>1. op.pc # "idle" /\ op.fn = "push" /\ op.item \in Items /\ io = NoIO
  BY DEF PushOpened, PushAdvance, PushWrite, PushData, PushFinish, At, CallShape, PushPCs, NextPCs
<1>2. op # Idle /\ EntryShape'
  BY <1>1, RunningCall DEF PushOpened, PushAdvance, PushWrite, PushData, PushFinish
<1>3. op.cur \in Pages /\ NextPage(op.cur) \in Pages
  <2>1. op.cur \in Pages /\ op.cur \in Int
    BY DEF OpType, Pages
  <2>2. QED  BY <2>1, PageArithmetic
<1>4. CASE PushOpened
  <2>1. cache' \in CacheType /\ io' \in IOType /\ HasData(io)'
    BY <1>3, <1>4, MarkerType DEF PushOpened
  <2>2. op' \in OpType /\ op'.pc = "advance" /\ op'.fn = op.fn /\ op'.item = op.item
    BY <1>4 DEF PushOpened, Goto, OpType, PCs
  <2>3. CallShape' /\ op' # Idle
    BY <1>1, <1>4, <2>2 DEF PushOpened, At, CallShape, PushPCs, NextPCs, Idle, PCs
  <2>4. QED  BY <1>2, <1>4, <2>1, <2>2, <2>3 DEF PushOpened, QuietIdle
<1>5. CASE PushAdvance
  <2>1. cache' \in CacheType /\ io' \in IOType /\ HasData(io)'
    BY <1>3, <1>5, MarkerType DEF PushAdvance
  <2>2. /\ op' \in OpType /\ op'.pc = "write" /\ op'.addr = 0
        /\ op'.fn = op.fn /\ op'.item = op.item
    BY <1>3, <1>5, SmallTypes DEF PushAdvance, OpType, PCs
  <2>3. Size[op.item] <= PageWords - 1 /\ Size[op.item] \in Nat
    BY <1>1, <1>5, SizeAssumption DEF PushAdvance, At, CallShape, PushPCs, NextPCs
  <2>4. Fits(0, Size[op.item])
    BY <2>3, PageWordsAssumption DEF Fits
  <2>5. CallShape' /\ op' # Idle
    BY <1>1, <2>2, <2>3, <2>4 DEF CallShape, PushPCs, NextPCs, Idle, PCs
  <2>6. QED  BY <1>2, <1>5, <2>1, <2>2, <2>5 DEF PushAdvance, QuietIdle
<1>6. CASE PushWrite
  <2>1. op.addr \in Addrs /\ Size[op.item] \in Nat /\ op.addr + 1 + Size[op.item] <= PageWords
    BY <1>1, <1>6, SizeAssumption DEF PushWrite, At, CallShape, Fits, OpType
  <2>2. cache' \in CacheType
    BY <1>3, <1>6, <2>1, NoticePointerType DEF PushWrite, WriteHeader
  <2>3. io' \in IOType /\ HasData(io)'
    BY <1>1, <1>3, <1>6, <2>1, ItemIOType DEF PushWrite, WriteHeader, Commands
  <2>4. op' \in OpType /\ op'.pc = "data" /\ op'.fn = op.fn /\ op'.item = op.item
    BY <1>6 DEF PushWrite, Goto, OpType, PCs
  <2>5. CallShape' /\ op' # Idle
    BY <1>1, <1>6, <2>4 DEF PushWrite, At, CallShape, PushPCs, NextPCs, Idle, PCs
  <2>6. QED  BY <1>2, <1>6, <2>2, <2>3, <2>4, <2>5 DEF PushWrite, QuietIdle
<1>7. CASE PushData
  <2>1. op.addr \in Addrs
    BY DEF OpType
  <2>2. cache' \in CacheType /\ io' \in IOType /\ HasData(io)'
    BY <1>1, <1>3, <1>7, <2>1, ItemIOType, SmallTypes DEF PushData, WriteData, Commands
  <2>3. op' \in OpType /\ op'.pc = "finish" /\ op'.fn = op.fn /\ op'.item = op.item
    BY <1>7 DEF PushData, Goto, OpType, PCs
  <2>4. CallShape' /\ op' # Idle
    BY <1>1, <1>7, <2>3 DEF PushData, At, CallShape, PushPCs, NextPCs, Idle, PCs
  <2>5. QED  BY <1>2, <1>7, <2>2, <2>3, <2>4 DEF PushData, QuietIdle
<1>8. CASE PushFinish
  <2>1. cache' \in CacheType
    BY <1>8, DirtyType DEF PushFinish
  <2>2. Result("Ok") \in RetType
    BY ResultType DEF Statuses
  <2>3. op' \in OpType /\ ret' \in RetType /\ CallShape'
    BY <1>8, <2>2, ReturnInv DEF PushFinish
  <2>4. QED  BY <1>1, <1>2, <1>8, <2>1, <2>3 DEF PushFinish, Settled, QuietIdle
<1>9. QED  BY <1>4, <1>5, <1>6, <1>7, <1>8

-----------------------------------------------------------------------------
\* The calls of the user.  None is pending when they begin.
LEMMA StartInv ==
  ASSUME IInv, NEW fn \in Functions \ {"push", "pop"}, Start(fn)
  PROVE  /\ flash' = flash /\ cache' = cache /\ io' = io /\ faults' = faults
         /\ op' \in OpType /\ ret' \in RetType /\ CallShape' /\ op' # Idle
<1>1. /\ op' = [Idle EXCEPT !.fn = fn, !.pc = fn] /\ ret' = NoRet
      /\ flash' = flash /\ cache' = cache /\ io' = io /\ faults' = faults
  BY DEF Start, gvars
<1>2. /\ fn \in PCs \ PushPCs /\ fn \notin {"idle", "none"}
      /\ fn \in NextPCs => fn = "next"
  BY DEF Functions, PCs, PushPCs, NextPCs
<1>3. op' \in OpType /\ op'.pc = fn /\ op'.fn = fn
  BY <1>1, <1>2, SmallTypes DEF OpType
<1>4. CallShape' /\ op' # Idle
  BY <1>2, <1>3, SmallTypes DEF CallShape, PushPCs, NextPCs
<1>5. QED  BY <1>1, <1>3, <1>4, SmallTypes

\* The calls that only begin something.
LEMMA CallsInv ==
  ASSUME IInv, CallIter \/ CallFindMaxFit \/ CallSpaceLeft \/ CallNext \/ DropIter
  PROVE  IInv'
<1> USE DEF IInv, TypeOK
<1>1. CASE CallIter \/ CallFindMaxFit \/ CallSpaceLeft
  <2>1. ~iter.live /\ iter' = iter /\ \E fn \in {"iter", "find_max_fit", "space_left"}: Start(fn)
    BY <1>1 DEF CallIter, CallFindMaxFit, CallSpaceLeft
  <2>2. /\ flash' = flash /\ cache' = cache /\ io' = io /\ faults' = faults
        /\ op' \in OpType /\ ret' \in RetType /\ CallShape' /\ op' # Idle
    BY <2>1, StartInv DEF Functions
  <2>3. EntryShape'
    BY <2>1, <2>2 DEF EntryShape, HasEntry
  <2>4. QED  BY <2>1, <2>2, <2>3 DEF QuietIdle
<1>2. CASE CallNext
  <2>1. /\ flash' = flash /\ cache' = cache /\ io' = io /\ faults' = faults
        /\ op' \in OpType /\ ret' \in RetType /\ CallShape' /\ op' # Idle
    BY <1>2, StartInv DEF CallNext, Functions
  <2>2. iter' \in IterType /\ iter'.entryAddr = NoAddr
    BY <1>2, SmallTypes DEF CallNext, DropEntry, IterType, Previous
  <2>3. EntryShape'
    BY <2>2 DEF EntryShape, HasEntry
  <2>4. QED  BY <2>1, <2>2, <2>3 DEF QuietIdle
<1>3. CASE DropIter
  <2>1. iter' \in IterType /\ EntryShape' /\ CallShape'
    BY <1>3, SmallTypes DEF DropIter, EntryShape, HasEntry, CallShape
  <2>2. QED  BY <1>3, <2>1 DEF DropIter, gvars, QuietIdle
<1>4. QED  BY <1>1, <1>2, <1>3

\* push is called.
LEMMA CallPushInv ==
  ASSUME IInv, NEW i \in Items, NEW allow \in BOOLEAN, CallPush(i, allow)
  PROVE  IInv'
<1> USE DEF IInv, TypeOK
<1>1. /\ op' = [Idle EXCEPT !.fn = "push", !.pc = "push", !.item = i, !.allow = allow]
      /\ flash' = flash /\ cache' = cache /\ io' = io /\ faults' = faults /\ iter' = iter
      /\ ~iter.live
  BY DEF CallPush, gvars
<1>2. op' \in OpType /\ op'.pc = "push" /\ op'.fn = "push" /\ op'.item = i
  BY <1>1, SmallTypes DEF OpType, Functions, PCs
<1>3. CallShape' /\ op' # Idle
  BY <1>2 DEF CallShape, PushPCs, NextPCs, Idle, PCs
<1>4. ret' \in RetType
  BY SmallTypes DEF CallPush
<1>5. EntryShape'
  BY <1>1 DEF EntryShape, HasEntry
<1>6. QED  BY <1>1, <1>2, <1>3, <1>4, <1>5 DEF QuietIdle

\* erase_all is called.
LEMMA CallEraseAllInv ==
  ASSUME IInv, CallEraseAll
  PROVE  IInv'
<1> USE DEF IInv, TypeOK
<1>1. /\ op' = [Idle EXCEPT !.fn = "erase_all", !.pc = "erase_all"]
      /\ flash' = flash /\ cache' = cache /\ faults' = faults /\ iter' = iter
      /\ io' = PageIO("erase_all", 0) /\ ret' = NoRet /\ ~iter.live
  BY DEF CallEraseAll
<1>2. op' \in OpType /\ op'.pc = "erase_all" /\ op'.fn = "erase_all"
  BY <1>1, SmallTypes DEF OpType, Functions, PCs
<1>3. CallShape' /\ op' # Idle
  BY <1>2 DEF CallShape, PushPCs, NextPCs, Idle, PCs
<1>4. io' \in IOType /\ HasData(io)'
  BY <1>1, PageIOType, SmallTypes DEF Commands
<1>5. EntryShape'
  BY <1>1 DEF EntryShape, HasEntry
<1>6. QED  BY <1>1, <1>2, <1>3, <1>4, <1>5, SmallTypes DEF QuietIdle

\* pop is called: the entry is an item that is intact on its page.
LEMMA CallPopInv ==
  ASSUME IInv, CallPop
  PROVE  IInv'
<1> USE DEF IInv, TypeOK
<1> DEFINE w == flash[iter.entryPage].words[iter.entryAddr]
<1>1. /\ iter.entryPage \in Pages /\ iter.entryAddr \in Addrs
      /\ IsPresent(flash[iter.entryPage].words, iter.entryAddr)
  BY DEF CallPop, HasEntry, EntryShape, IterType
<1>2. w \in Word
  BY <1>1 DEF Page
<1>3. w.crc \in Items /\ w.len \in Nat /\ iter.entryAddr + 1 + w.len <= PageWords
  BY <1>1, <1>2 DEF IsPresent, IsItem, Word
<1> HIDE DEF w
<1>4. /\ op' = [Idle EXCEPT !.fn = "pop", !.pc = "popped", !.item = w.crc]
      /\ iter' = [DropEntry(iter) EXCEPT !.prev = IF @ = "AllButCurrentPopped" THEN "AllPopped" ELSE @]
      /\ cache' = NoticeErased(cache, iter.entryPage, iter.entryAddr, w.len)
      /\ io' = ItemIO("zero", iter.entryPage, iter.entryAddr, NoItem)
      /\ ret' = NoRet /\ flash' = flash /\ faults' = faults
  BY DEF CallPop, EraseItem, w
<1>5. op' \in OpType /\ op'.pc = "popped" /\ op'.fn = "pop"
  BY <1>3, <1>4, SmallTypes DEF OpType, Functions, PCs
<1>6. CallShape' /\ op' # Idle
  BY <1>5 DEF CallShape, PushPCs, NextPCs, Idle
<1>7. iter' \in IterType /\ iter'.entryAddr = NoAddr
  BY <1>4, SmallTypes DEF DropEntry, IterType, Previous
<1>8. EntryShape'
  BY <1>7 DEF EntryShape, HasEntry
<1>9. cache' \in CacheType
  BY <1>1, <1>3, <1>4, NoticePointerType
<1>10. io' \in IOType /\ HasData(io)'
  BY <1>1, <1>4, ItemIOType DEF Commands
<1>11. QED  BY <1>4, <1>5, <1>6, <1>7, <1>8, <1>9, <1>10, SmallTypes DEF QuietIdle

\* iter.
LEMMA IterStartInv ==
  ASSUME IInv, IterStart
  PROVE  IInv'
<1> USE DEF IInv, TypeOK
<1> DEFINE c == Refresh(cache)
           y == FindYoungest(c)
           oldest == FindOldest(c, y)
           known == LearnOldest(c, y)
<1>1. y \in Pages \cup {CorruptedPage}
  BY YoungestIsPage
<1>2. oldest \in Pages \cup {CorruptedPage}
  BY <1>1, OldestIsPage
<1>3. known \in CacheType
  BY YoungestCacheType
<1>4. /\ op.pc = "iter" /\ io = NoIO /\ UNCHANGED <<flash, io, faults>>
      /\ IF oldest = CorruptedPage
         THEN HandleCorruption(known) /\ UNCHANGED iter
         ELSE /\ cache' = known
              /\ iter' = [NoIter EXCEPT
                            !.live = TRUE, !.page = oldest, !.oldest = oldest,
                            !.addr = IF known.erased[oldest] = NoAddr THEN 0
                                     ELSE known.erased[oldest]]
              /\ Return(Result("Ok"))
  BY DEF IterStart, At, Settled
<1> HIDE DEF c, y, oldest, known
<1>5. CASE oldest = CorruptedPage
  <2>1. cache' \in CacheType /\ op' \in OpType /\ ret' \in RetType /\ CallShape'
    BY <1>3, <1>4, <1>5, HandleCorruptionInv
  <2>2. EntryShape'
    BY <1>4, <1>5, RunningCall
  <2>3. QED  BY <1>4, <1>5, <2>1, <2>2 DEF QuietIdle
<1>6. CASE oldest # CorruptedPage
  <2> DEFINE a == IF known.erased[oldest] = NoAddr THEN 0 ELSE known.erased[oldest]
  <2>1. oldest \in Pages
    BY <1>2, <1>6
  <2>2. a \in 0 .. PageWords
    BY <1>3, <2>1, PageWordsAssumption DEF CacheType, NoAddr
  <2> HIDE DEF a
  <2>3. iter' = [NoIter EXCEPT !.live = TRUE, !.page = oldest, !.oldest = oldest, !.addr = a]
    BY <1>4, <1>6 DEF a
  <2>4. iter' \in IterType /\ iter'.entryAddr = NoAddr
    BY <2>1, <2>2, <2>3, SmallTypes DEF IterType
  <2>5. EntryShape'
    BY <2>4 DEF EntryShape, HasEntry
  <2>6. Result("Ok") \in RetType
    BY ResultType DEF Statuses
  <2>7. op' \in OpType /\ ret' \in RetType /\ CallShape'
    BY <1>4, <1>6, <2>6, ReturnInv
  <2>8. QED  BY <1>3, <1>4, <1>6, <2>4, <2>5, <2>7 DEF QuietIdle
<1>7. QED  BY <1>5, <1>6

\* next moves from one page to the next.
LEMMA NextPageInv ==
  ASSUME IInv, NextStart \/ NextPageAfter \/ NextReopened
  PROVE  IInv'
<1> USE DEF IInv, TypeOK
<1>1. op.pc \in {"next", "scan", "reopened"} /\ io = NoIO /\ flash' = flash /\ faults' = faults
  BY DEF NextStart, NextPageAfter, NextReopened, At, Settled
<1>2. op # Idle /\ ~HasEntry /\ op.fn = "next" /\ (iter' = iter => EntryShape')
  BY <1>1, RunningCall DEF CallShape, NextPCs
<1>3. \A pc \in {"scan", "reopened"}: Goto(pc) => op' \in OpType /\ CallShape' /\ op' # Idle
  <2> TAKE pc \in {"scan", "reopened"}
  <2> HAVE Goto(pc)
  <2>1. op' \in OpType /\ op'.pc = pc /\ op'.fn = op.fn /\ op'.item = op.item
    BY DEF Goto, OpType, PCs
  <2>2. QED  BY <1>2, <2>1, SmallTypes DEF CallShape, PushPCs, NextPCs, PCs
<1>4. CASE NextStart
  BY <1>1, <1>2, <1>3, <1>4, DirtyType DEF NextStart, Settled, QuietIdle
<1>5. CASE NextPageAfter
  <2> DEFINE next == NextPage(iter.page)
             known == Learn(cache, {next})
  <2>1. next \in Pages /\ known \in CacheType /\ iter.page \in Pages
    <3>1. iter.page \in Pages /\ iter.page \in Int
      BY DEF IterType, Pages
    <3>2. QED  BY <3>1, PageArithmetic, LearnType
  <2>2. /\ \/ HandleCorruption(known) /\ UNCHANGED io
           \/ cache' = UnmarkDirty(known) /\ UNCHANGED io /\ Return(Result("None"))
           \/ /\ OpenPage(known, iter.page) \/ (cache' = known /\ UNCHANGED io)
              /\ Goto("reopened") /\ UNCHANGED ret
        /\ iter' = iter
    BY <1>5 DEF NextPageAfter
  <2> HIDE DEF next, known
  <2>3. CASE HandleCorruption(known) /\ UNCHANGED io
    <3>1. cache' \in CacheType /\ op' \in OpType /\ ret' \in RetType /\ CallShape'
      BY <1>1, <2>1, <2>3, HandleCorruptionInv
    <3>2. QED  BY <1>1, <1>2, <2>2, <2>3, <3>1 DEF QuietIdle
  <2>4. CASE cache' = UnmarkDirty(known) /\ UNCHANGED io /\ Return(Result("None"))
    <3>1. Result("None") \in RetType
      BY ResultType DEF Statuses
    <3>2. op' \in OpType /\ ret' \in RetType /\ CallShape'
      BY <2>4, <3>1, ReturnInv
    <3>3. QED  BY <1>1, <1>2, <2>1, <2>2, <2>4, <3>2, DirtyType DEF QuietIdle
  <2>5. CASE /\ OpenPage(known, iter.page) \/ (cache' = known /\ UNCHANGED io)
             /\ Goto("reopened") /\ UNCHANGED ret
    <3>1. cache' \in CacheType /\ io' \in IOType /\ HasData(io)'
      BY <2>1, <2>5, MarkerType
    <3>2. QED  BY <1>1, <1>2, <1>3, <2>2, <2>5, <3>1 DEF QuietIdle
  <2>6. QED  BY <2>2, <2>3, <2>4, <2>5
<1>6. CASE NextReopened
  <2>1. NextPage(iter.page) \in Pages
    <3>1. iter.page \in Int
      BY DEF IterType, Pages
    <3>2. QED  BY <3>1, PageArithmetic
  <2>2. iter' \in IterType /\ iter'.entryAddr = iter.entryAddr
    BY <1>6, <2>1, SmallTypes DEF NextReopened, IterType
  <2>3. EntryShape'
    BY <1>2, <2>2 DEF EntryShape, HasEntry
  <2>4. QED  BY <1>1, <1>3, <1>6, <2>2, <2>3 DEF NextReopened, Settled, QuietIdle
<1>7. QED  BY <1>4, <1>5, <1>6

\* Moving past an item changes only the address of the iterator.
LEMMA MovedPastType ==
  ASSUME IInv, NEW a \in Addrs
  PROVE  /\ MovedPast(a) \in IterType /\ MovedPast(a).entryAddr = iter.entryAddr
         /\ MovedPast(a).live = iter.live /\ MovedPast(a).page = iter.page
<1> USE DEF IInv, TypeOK
<1> DEFINE ws == flash[iter.page].words
           next == NextAddr(ws, a)
<1>1. iter.page \in Pages /\ ws[a] \in Word
  BY DEF IterType, Page
<1>2. next >= 0 /\ next \in Int
  BY <1>1 DEF NextAddr, Addrs, Word
<1> HIDE DEF next
<1>3. MovedPast(a) = IF next >= PageWords THEN [iter EXCEPT !.after = TRUE, !.addr = 0]
                     ELSE [iter EXCEPT !.addr = next]
  BY DEF MovedPast, next
<1>4. next < PageWords => next \in 0 .. PageWords
  BY <1>2, PageWordsAssumption
<1>5. CASE next >= PageWords
  BY <1>3, <1>5, SmallTypes DEF IterType
<1>6. CASE ~(next >= PageWords)
  <2>1. next \in 0 .. PageWords
    BY <1>2, <1>4, <1>6, PageWordsAssumption
  <2>2. QED  BY <1>3, <1>6, <2>1 DEF IterType
<1>7. QED  BY <1>5, <1>6

\* next looks at an item; what it returns is an entry whose item is intact.
LEMMA NextItemInv ==
  ASSUME IInv, NextItem, iter.live
  PROVE  IInv'
<1> USE DEF IInv, TypeOK
<1> DEFINE ws == flash[iter.page].words
<1>1. op.pc = "scan" /\ io = NoIO /\ UNCHANGED <<flash, io, faults>>
  BY DEF NextItem, At, Settled
<1>2. op # Idle /\ ~HasEntry /\ iter.page \in Pages
  BY <1>1, RunningCall DEF IterType
<1>3. CASE /\ iter' = [iter EXCEPT !.after = TRUE, !.addr = 0]
           /\ UNCHANGED <<cache, op, ret>>
  <2>1. iter' \in IterType /\ iter'.entryAddr = iter.entryAddr
    BY <1>3, SmallTypes DEF IterType
  <2>2. EntryShape' /\ CallShape'
    BY <1>2, <1>3, <2>1 DEF EntryShape, HasEntry, CallShape
  <2>3. QED  BY <1>1, <1>3, <2>1, <2>2 DEF QuietIdle
<1>4. CASE \E a \in Addrs: iter' = MovedPast(a) /\ UNCHANGED <<cache, op, ret>>
  <2>1. iter' \in IterType /\ iter'.entryAddr = iter.entryAddr
    BY <1>4, MovedPastType
  <2>2. EntryShape' /\ CallShape'
    BY <1>2, <1>4, <2>1 DEF EntryShape, HasEntry, CallShape
  <2>3. QED  BY <1>1, <1>4, <2>1, <2>2 DEF QuietIdle
<1>5. ASSUME NEW a \in Addrs, IsPresent(ws, a),
             iter' = [MovedPast(a) EXCEPT
                        !.entryPage = iter.page, !.entryAddr = a,
                        !.prev = IF @ = "AllPopped" THEN "AllButCurrentPopped" ELSE @],
             cache' = UnmarkDirty(cache),
             Return(ItemResult(ws[a].crc))
      PROVE  IInv'
  <2>1. /\ iter' \in IterType /\ iter'.entryAddr = a /\ iter'.entryPage = iter.page
        /\ iter'.live
    BY <1>2, <1>5, MovedPastType DEF IterType, Previous
  <2>2. ItemResult(ws[a].crc) \in RetType
    BY <1>5, ResultType DEF IsPresent, Statuses
  <2>3. op' \in OpType /\ ret' \in RetType /\ CallShape' /\ op' = Idle
    BY <1>5, <2>2, ReturnInv
  <2>4. EntryShape'
    BY <1>1, <1>5, <2>1, <2>3 DEF EntryShape
  <2>5. QED  BY <1>1, <1>5, <2>1, <2>3, <2>4, DirtyType DEF QuietIdle
<1>6. QED  BY <1>3, <1>4, <1>5 DEF NextItem

\* pop and erase_all return.
LEMMA FinishInv ==
  ASSUME IInv, PopFinish \/ EraseAllFinish
  PROVE  IInv'
<1> USE DEF IInv, TypeOK
<1>1. op.pc \in {"popped", "erase_all"} /\ io = NoIO /\ UNCHANGED <<flash, io, faults, iter>>
  BY DEF PopFinish, EraseAllFinish, At, Settled
<1>2. cache' \in CacheType
  BY DirtyType DEF PopFinish, EraseAllFinish
<1>3. ItemResult(op.item) \in RetType /\ Result("Ok") \in RetType
  BY ResultType DEF OpType, Statuses
<1>4. op' \in OpType /\ ret' \in RetType /\ CallShape'
  BY <1>3, ReturnInv DEF PopFinish, EraseAllFinish
<1>5. EntryShape'
  BY <1>1, RunningCall
<1>6. QED  BY <1>1, <1>2, <1>4, <1>5 DEF QuietIdle

\* find_max_fit and space_left.
LEMMA MeasureInv ==
  ASSUME IInv, FindMaxFit \/ SpaceLeft
  PROVE  IInv'
<1> USE DEF IInv, TypeOK
<1> DEFINE c == Refresh(cache)
           torn == {p \in Pages: StateOf(c, p) = "Corrupted"}
           seen == IF torn = {} THEN Pages ELSE 0 .. Min(torn)
           young == LearnYoungest(c)
           fit == Learn(young, {NextPage(FindYoungest(c))})
           all == Learn(c, seen)
<1>1. op.pc \notin {"idle", "popped"} /\ io = NoIO /\ UNCHANGED <<flash, io, faults, iter>>
  BY DEF FindMaxFit, SpaceLeft, At, Settled
<1>2. EntryShape'
  BY <1>1, RunningCall
<1>3. \A known \in {young, fit, all}: known \in CacheType /\ UnmarkDirty(known) \in CacheType
  <2>1. young \in CacheType /\ c \in CacheType
    BY YoungestCacheType
  <2>2. QED  BY <2>1, LearnType, DirtyType
<1>4. \/ \E known \in {young, fit, all}: HandleCorruption(known)
      \/ /\ \E known \in {young, fit, all}: cache' = UnmarkDirty(known)
         /\ \/ \E n \in Int: Return(NumResult(n))
            \/ Return(Result("None"))
  <2>1. CASE FindMaxFit
    <3>1. \A free \in 0 .. PageWords: PageWords - free - 1 \in Int
      BY PageWordsAssumption
    <3>2. QED  BY <2>1, <3>1, PageWordsAssumption DEF FindMaxFit
  <2>2. CASE SpaceLeft
    <3>1. \A n \in 0 .. PageCount * PageWords: n \in Int
      OBVIOUS
    <3>2. QED  BY <2>2, <3>1 DEF SpaceLeft
  <2>3. QED  BY <2>1, <2>2
<1> HIDE DEF young, fit, all
<1>5. CASE \E known \in {young, fit, all}: HandleCorruption(known)
  <2>1. cache' \in CacheType /\ op' \in OpType /\ ret' \in RetType /\ CallShape'
    BY <1>1, <1>3, <1>5, HandleCorruptionInv
  <2>2. QED  BY <1>1, <1>2, <2>1 DEF QuietIdle
<1>6. CASE /\ \E known \in {young, fit, all}: cache' = UnmarkDirty(known)
           /\ (\E n \in Int: Return(NumResult(n))) \/ Return(Result("None"))
  <2>1. Result("None") \in RetType /\ \A n \in Int: NumResult(n) \in RetType
    BY ResultType DEF Statuses
  <2>2. op' \in OpType /\ ret' \in RetType /\ CallShape'
    BY <1>6, <2>1, ReturnInv
  <2>3. QED  BY <1>1, <1>2, <1>3, <1>6, <2>2 DEF QuietIdle
<1>7. QED  BY <1>4, <1>5, <1>6

\* The iterator outlives the next that runs on it.
LEMMA NextHasIterInv ==
  ASSUME IInv, NextHasIter, Next
  PROVE  NextHasIter'
<1> USE DEF IInv, TypeOK
<1> USE DEF NextHasIter, Idle, OpType, IterType, NoIter
<1>1. CASE Call
  <2>1. CASE CallNext
    BY <2>1 DEF CallNext, DropEntry
  <2>2. CASE CallIter \/ CallFindMaxFit \/ CallSpaceLeft
    BY <2>2 DEF CallIter, CallFindMaxFit, CallSpaceLeft, Start
  <2>3. CASE \/ \E i \in Items, allow \in BOOLEAN: CallPush(i, allow)
             \/ CallPop \/ CallEraseAll
    BY <2>3 DEF CallPush, CallPop, CallEraseAll
  <2>4. CASE DropIter
    BY <2>4 DEF DropIter
  <2>5. QED  BY <1>1, <2>1, <2>2, <2>3, <2>4 DEF Call
<1>2. ASSUME op' = Idle PROVE NextHasIter'
  BY <1>2
<1>3. CASE Fail \/ PowerLoss
  BY <1>2, <1>3 DEF Fail, PowerLoss, Return
<1>4. ASSUME NEW c, HandleCorruption(c), iter' = iter PROVE NextHasIter'
  BY <1>2, <1>4 DEF HandleCorruption, Return
<1>5. ASSUME NEW pc, Goto(pc), iter'.live = iter.live PROVE NextHasIter'
  BY <1>5 DEF Goto
<1>6. CASE (FlashDone /\ UNCHANGED qvars) \/ RepairPage \/ RepairDone \/ PushHere
           \/ PushTooBig \/ PushFinish \/ PopFinish \/ EraseAllFinish
  BY <1>2, <1>6 DEF qvars, RepairPage, RepairDone, PushHere, PushTooBig, PushFinish,
     PopFinish, EraseAllFinish, Return, Settled
<1>7. CASE PushStart
  BY <1>4, <1>7 DEF PushStart
<1>8. CASE PushNext
  BY <1>2, <1>4, <1>5, <1>8 DEF PushNext, Return
<1>9. CASE PushOpened \/ PushAdvance \/ PushWrite \/ PushData
  BY <1>5, <1>9 DEF PushOpened, PushAdvance, PushWrite, PushData
<1>10. CASE IterStart
  BY <1>2, <1>4, <1>10 DEF IterStart, Return
<1>11. CASE NextStart \/ NextPageAfter \/ NextReopened
  BY <1>2, <1>4, <1>5, <1>11 DEF NextStart, NextPageAfter, NextReopened, Return
<1>12. CASE NextItem
  <2>1. CASE op' = op /\ iter'.live = iter.live
    BY <2>1
  <2>2. \A a \in Addrs: MovedPast(a).live = iter.live
    BY MovedPastType
  <2>3. (op' = op /\ iter'.live = iter.live) \/ op' = Idle
    BY <1>12, <2>2 DEF NextItem, Return
  <2>4. QED  BY <1>2, <2>1, <2>3
<1>13. CASE FindMaxFit \/ SpaceLeft
  BY <1>2, <1>4, <1>13 DEF FindMaxFit, SpaceLeft, Return
<1>14. QED
  BY <1>1, <1>3, <1>6, <1>7, <1>8, <1>9, <1>10, <1>11, <1>12, <1>13 DEF Next, Step

\* The invariant holds initially,
LEMMA InitInv == Init => IInv /\ NextHasIter
<1> SUFFICES ASSUME Init PROVE IInv /\ NextHasIter
  OBVIOUS
<1>1. flash \in [Pages -> Page]
  BY BlankType DEF Init, GenericInit
<1>2. TypeOK
  BY <1>1, SmallTypes, FreshCacheType, MaxFaultsAssumption DEF Init, GenericInit, TypeOK
<1>3. CallShape /\ EntryShape /\ QuietIdle /\ HasData(io) /\ NextHasIter
  BY SmallTypes DEF Init, GenericInit, CallShape, EntryShape, HasEntry, QuietIdle, HasData,
     NextHasIter, PushPCs, NextPCs
<1>4. QED  BY <1>2, <1>3 DEF IInv

\* and every step preserves it.
LEMMA StepInv == IInv /\ NextHasIter /\ [Next]_vars => (IInv /\ NextHasIter)'
<1> SUFFICES ASSUME IInv, NextHasIter, [Next]_vars PROVE (IInv /\ NextHasIter)'
  OBVIOUS
<1>1. CASE UNCHANGED vars
  BY <1>1 DEF vars, IInv, TypeOK, CallShape, EntryShape, HasEntry, QuietIdle, HasData, NextHasIter
<1>2. CASE Call
  BY <1>2, NextHasIterInv, CallsInv, CallPushInv, CallPopInv, CallEraseAllInv DEF Next, Call
<1>3. CASE Fail \/ PowerLoss
  BY <1>3, NextHasIterInv, FaultInv DEF Next
<1>4. CASE Step
  <2>1. NextItem => iter.live
    BY DEF NextItem, At, IInv, CallShape, NextHasIter, NextPCs
  <2>2. IInv'
    BY <1>4, <2>1, FlashDoneInv, RepairInv, PushSearchInv, PushNextInv, PushWriteInv,
       IterStartInv, NextPageInv, NextItemInv, FinishInv, MeasureInv DEF Step
  <2>3. QED  BY <1>4, <2>2, NextHasIterInv DEF Next
<1>5. QED  BY <1>1, <1>2, <1>3, <1>4 DEF Next

\* The inductive invariant holds in every state.
THEOREM Invariance == Spec => [](IInv /\ NextHasIter)
BY InitInv, StepInv, PTL DEF Spec

\* Type correctness for all constants: page and word addresses stay inside their
\* ranges, and an entry, an error or a length returned to the user is one.
THEOREM TypeCorrect == Spec => []TypeOK
<1>1. IInv /\ NextHasIter => TypeOK
  BY DEF IInv
<1>2. QED  BY <1>1, Invariance, PTL

-----------------------------------------------------------------------------
(***************************************************************************)
(* The cached page states are those in flash (CachedStates).                *)
(*                                                                         *)
(* The cache is told of a page state before flash is written, so it is not  *)
(* right about flash while an operation is pending: the invariant compares  *)
(* it with flash as the operation will leave it, and asks for the dirty     *)
(* mark wherever an interruption could leave something else.                *)
(***************************************************************************)

\* The running call has dropped the dirty cache it may have found.
RefreshedPCs == {"repair", "place", "opened", "advance", "write", "data", "finish",
                 "scan", "reopened", "popped"}
Trusted == op.pc \in RefreshedPCs \/ ~cache.dirty

\* The cache runs ahead of flash by the operation that is pending, and is dirty
\* while that operation can leave a page in another state.
CacheInv ==
  /\ CacheKind = "none" => ~cache.dirty
  /\ Trusted => Sound(cache, Completed(io))
  /\ io.cmd \in {"start", "end", "erase"} => CacheKind = "none" \/ cache.dirty
  /\ io.cmd = "erase_all" => CacheKind = "none"
  /\ HasEntry => ~cache.dirty

-----------------------------------------------------------------------------
(* What the operations on the cache do to the states it knows *)

\* With nothing pending, a call may rely on its cache once it has refreshed it.
LEMMA RefreshGood ==
  ASSUME IInv, CacheInv, io = NoIO
  PROVE  /\ Good(Refresh(cache))
         /\ op.pc \in RefreshedPCs \/ HasEntry => Good(cache)
<1>1. Trusted => Good(cache)
  BY NoIOCompleted DEF IInv, TypeOK, CacheInv, Good
<1>2. QED  BY <1>1, FreshSound DEF Refresh, Trusted, CacheInv

\* A step with no flash operation before or after it, which leaves a good cache.
LEMMA SettledCache ==
  ASSUME IInv, io' = NoIO, flash' = flash, Sound(cache', flash),
         CacheKind = "none" => ~cache'.dirty, HasEntry' => ~cache'.dirty
  PROVE  CacheInv'
<1>1. Completed(io)' = flash'
  BY NoIOCompleted DEF IInv, TypeOK
<1>2. io'.cmd = "none"
  BY DEF NoIO
<1>3. QED  BY <1>1, <1>2 DEF CacheInv, Sound

\* A repair starts from a new cache.
LEMMA CorruptionCache ==
  ASSUME NEW c, Good(c), HandleCorruption(c)
  PROVE  Sound(cache', flash) /\ (CacheKind = "none" => ~cache'.dirty)
<1>1. cache' = c \/ cache' = FreshCache
  BY DEF HandleCorruption
<1>2. QED  BY <1>1, FreshSound DEF Good

-----------------------------------------------------------------------------
\* A flash operation completes: flash catches up with the cache.
LEMMA FlashDoneCache ==
  ASSUME IInv, CacheInv, FlashDone, UNCHANGED qvars
  PROVE  CacheInv'
<1>1. io' = NoIO /\ flash' = Completed(io) /\ cache' = cache /\ op' = op /\ iter' = iter
  BY DEF FlashDone, qvars
<1>2. flash' \in [Pages -> Page]
  BY <1>1, FlashType DEF IInv, TypeOK
<1>3. Completed(io)' = Completed(io)
  BY <1>1, <1>2, NoIOCompleted
<1>4. QED
  BY <1>1, <1>3 DEF CacheInv, Trusted, Sound, HasEntry, NoIO

\* A call fails: if a page may be in another state, the cache is dirty.
LEMMA FaultCache ==
  ASSUME IInv, CacheInv, Fail \/ PowerLoss
  PROVE  CacheInv'
<1> USE DEF IInv, TypeOK
<1>1. io' = NoIO /\ io'.cmd = "none" /\ flash' \in [Pages -> Page] /\ flash' \in Interrupted(io)
  BY CutShortType DEF Fail, PowerLoss, FlashCutShort, NoIO
<1>2. Completed(io)' = flash'
  BY <1>1, NoIOCompleted
<1>3. CASE PowerLoss
  <2>1. cache' = FreshCache /\ ~cache'.dirty
    BY <1>3 DEF PowerLoss, FreshCache
  <2>2. QED  BY <1>1, <1>2, <2>1, FreshSound DEF CacheInv
<1>4. CASE Fail
  <2>1. cache' = cache /\ iter' = iter /\ op'.pc = "idle"
    BY <1>4, SmallTypes DEF Fail, Return
  <2>2. Trusted' => ~cache.dirty
    BY <2>1 DEF Trusted, RefreshedPCs
  <2>3. CASE CacheKind = "none"
    <3>1. Sound(cache, Completed(io))
      BY <2>3 DEF CacheInv, Trusted
    <3>2. QED  BY <1>1, <1>2, <2>1, <2>3, <3>1 DEF CacheInv, Sound, HasEntry
  <2>4. CASE CacheKind # "none"
    <3>1. ASSUME ~cache.dirty PROVE Sound(cache, flash')
      <4>1. io.cmd \in {"none", "header", "data", "zero"}
        BY <2>4, <3>1 DEF CacheInv, IOType, Commands
      <4>2. SameMarkers(Completed(io), flash) /\ SameMarkers(flash', flash)
        BY <1>1, <4>1, QuietFlash
      <4>3. QED  BY <3>1, <4>2 DEF CacheInv, Trusted, Sound, SameMarkers
    <3>2. QED  BY <1>1, <1>2, <2>1, <2>2, <2>4, <3>1 DEF CacheInv, HasEntry
  <2>5. QED  BY <2>3, <2>4
<1>5. QED  BY <1>3, <1>4

\* A call begins: it does not yet rely on a cache that is dirty.
LEMMA CallsCache ==
  ASSUME IInv, CacheInv, Call, CacheKind = "none" \/ "erase_all" \notin UserCalls
  PROVE  CacheInv'
<1> USE DEF IInv, TypeOK
<1>1. op = Idle /\ io = NoIO
  BY DEF Call, CallPush, CallIter, CallNext, CallPop, DropIter, CallFindMaxFit, CallSpaceLeft,
         CallEraseAll, Start, QuietIdle
<1>2. ASSUME flash' = flash, cache' = cache, io' = io,
             op'.pc \in {"idle", "push", "iter", "next", "find_max_fit", "space_left"},
             HasEntry' => HasEntry
      PROVE  CacheInv'
  <2>1. Trusted' => Trusted
    BY <1>2 DEF Trusted, RefreshedPCs
  <2>2. Completed(io)' = Completed(io)
    BY <1>2 DEF Completed
  <2>3. QED  BY <1>2, <2>1, <2>2 DEF CacheInv, Sound
<1>3. ASSUME NEW i \in Items, NEW allow \in BOOLEAN, CallPush(i, allow) PROVE CacheInv'
  BY <1>2, <1>3 DEF CallPush, gvars, HasEntry, Idle
<1>4. CASE CallIter \/ CallFindMaxFit \/ CallSpaceLeft
  BY <1>2, <1>4 DEF CallIter, CallFindMaxFit, CallSpaceLeft, Start, gvars, HasEntry, Idle
<1>5. CASE CallNext
  <2>1. ~HasEntry'
    BY <1>5 DEF CallNext, DropEntry, HasEntry, IterType
  <2>2. QED  BY <1>2, <1>5, <2>1 DEF CallNext, Start, gvars, Idle
<1>6. CASE DropIter
  BY <1>2, <1>6 DEF DropIter, gvars, HasEntry, NoIter, Idle
<1>7. CASE CallEraseAll
  <2>1. CacheKind = "none" /\ Sound(cache, Completed(io))
    BY <1>7 DEF CallEraseAll, CacheInv, Trusted
  <2>2. io'.cmd = "erase_all" /\ cache' = cache /\ iter' = iter
    BY <1>7 DEF CallEraseAll, PageIO, NoIO
  <2>3. QED  BY <2>1, <2>2 DEF CacheInv, Sound, HasEntry
<1>8. CASE CallPop
  <2> DEFINE a == iter.entryAddr
             len == flash[iter.entryPage].words[a].len
  <2>1. HasEntry /\ Good(cache)
    BY <1>1, <1>8, RefreshGood DEF CallPop
  <2>2. /\ cache' = NoticeErased(cache, iter.entryPage, a, len) /\ flash' = flash
        /\ io' = ItemIO("zero", iter.entryPage, a, NoItem)
    BY <1>8 DEF CallPop, EraseItem
  <2> HIDE DEF a, len
  <2>3. cache'.states = cache.states /\ (CacheKind = "none" => ~cache'.dirty)
    BY <2>2 DEF NoticeErased, MarkDirty, CacheType
  <2>4. io'.cmd = "zero" /\ io' \in IOType
    BY <1>8, CallPopInv, <2>2 DEF ItemIO
  <2>5. SameMarkers(Completed(io'), flash)
    BY <2>4, QuietFlash
  <2>6. Completed(io)' = Completed(io')
    BY <2>2 DEF Completed
  <2>7. Sound(cache', Completed(io'))
    BY <2>1, <2>3, <2>5 DEF Good, Sound, SameMarkers
  <2>8. ~HasEntry'
    BY <1>8 DEF CallPop, DropEntry, HasEntry, IterType
  <2>9. QED  BY <2>3, <2>4, <2>6, <2>7, <2>8 DEF CacheInv
<1>9. QED  BY <1>3, <1>4, <1>5, <1>6, <1>7, <1>8 DEF Call

\* Steps that only read flash, and steps that end a call.
LEMMA ReadingCache ==
  ASSUME IInv, CacheInv, io = NoIO, io' = NoIO, flash' = flash, HasEntry' => ~cache'.dirty,
         NEW c, Good(c), cache' = c \/ HandleCorruption(c)
  PROVE  CacheInv'
<1>1. Sound(cache', flash) /\ (CacheKind = "none" => ~cache'.dirty)
  BY CorruptionCache DEF Good
<1>2. QED  BY <1>1, SettledCache

\* Steps that may write a marker or erase a page.
LEMMA MarkingCache ==
  ASSUME IInv, flash' = flash, iter' = iter, op.pc # "idle",
         NEW c \in CacheType, Good(c), NEW p \in Pages,
         OpenPage(c, p) \/ PartialClosePage(c, p) \/ ClosePage(c, p)
  PROVE  CacheInv'
<1>1. ~HasEntry'
  BY RunningCall DEF HasEntry
<1>2. QED  BY <1>1, MarkerSound DEF CacheInv, IInv, TypeOK

\* try_general_repair.
LEMMA RepairCache ==
  ASSUME IInv, CacheInv, RepairPage \/ RepairDone
  PROVE  CacheInv'
<1> USE DEF IInv, TypeOK
<1>1. op.pc = "repair" /\ io = NoIO /\ flash' = flash /\ iter' = iter
  BY DEF RepairPage, RepairDone, At, Settled
<1>2. Good(cache) /\ \A S: Good(Learn(cache, S)) /\ Learn(cache, S) \in CacheType
  BY <1>1, RefreshGood, GoodOps, LearnType DEF RefreshedPCs
<1>3. ~HasEntry'
  BY <1>1, RunningCall DEF HasEntry
<1>4. CASE RepairPage
  <2> DEFINE torn == {p \in Pages: p >= op.cur /\ StateOf(cache, p) = "Corrupted"}
             q == Min(torn)
  <2>1. q \in Pages
    <3>1. torn \in SUBSET Nat /\ torn # {}
      BY <1>4, PageCountAssumption DEF RepairPage, Pages
    <3>2. QED  BY <3>1, MinInSet
  <2>2. OpenPage(Learn(cache, op.cur .. q), q)
    BY <1>4 DEF RepairPage
  <2> HIDE DEF q, torn
  <2>3. QED  BY <1>1, <1>2, <2>1, <2>2, MarkingCache
<1>5. CASE RepairDone
  <2>1. cache' = Learn(cache, op.cur .. PageCount - 1) /\ io' = NoIO
    BY <1>1, <1>5 DEF RepairDone, Settled
  <2>2. QED  BY <1>1, <1>2, <1>3, <2>1, ReadingCache
<1>6. QED  BY <1>4, <1>5

\* push.
LEMMA PushCache ==
  ASSUME IInv, CacheInv,
         \/ PushTooBig \/ PushStart \/ PushHere \/ PushNext \/ PushOpened
         \/ PushAdvance \/ PushWrite \/ PushData \/ PushFinish
  PROVE  CacheInv'
<1> USE DEF IInv, TypeOK
<1>1. io = NoIO /\ flash' = flash /\ iter' = iter /\ op.pc # "idle" /\ op.fn = "push"
  BY DEF PushTooBig, PushStart, PushHere, PushNext, PushOpened, PushAdvance, PushWrite,
         PushData, PushFinish, At, Settled, CallShape, PushPCs
<1>2. ~HasEntry'
  BY <1>1, RunningCall DEF HasEntry
<1>3. op.pc \in RefreshedPCs => Good(cache)
  BY <1>1, RefreshGood
<1>4. op.cur \in Pages /\ NextPage(op.cur) \in Pages
  <2>1. op.cur \in Pages /\ op.cur \in Int
    BY DEF OpType, Pages
  <2>2. QED  BY <2>1, PageArithmetic
<1>5. Good(Refresh(cache)) /\ Refresh(cache) \in CacheType
  BY <1>1, RefreshGood, DirtyType
<1>6. CASE PushTooBig
  <2>1. Good(UnmarkDirty(Refresh(cache)))
    BY <1>5, GoodOps
  <2>2. QED  BY <1>1, <1>2, <1>6, <2>1, ReadingCache DEF PushTooBig, Settled
<1>7. CASE PushStart
  <2> DEFINE y == FindYoungest(Refresh(cache))
             known == LearnYoungest(Refresh(cache))
  <2>1. y \in Pages \cup {CorruptedPage} /\ known \in CacheType /\ Good(known)
    BY <1>5, YoungestIsPage, YoungestCacheType, GoodOps DEF LearnYoungest
  <2>2. IF y = CorruptedPage THEN HandleCorruption(known) /\ io' = io
        ELSE PartialClosePage(known, y)
    BY <1>7 DEF PushStart
  <2> HIDE DEF y, known
  <2>3. CASE y = CorruptedPage
    BY <1>1, <1>2, <2>1, <2>2, <2>3, ReadingCache
  <2>4. CASE y # CorruptedPage
    BY <1>1, <2>1, <2>2, <2>4, MarkingCache
  <2>5. QED  BY <2>3, <2>4
<1>8. CASE PushHere
  BY <1>1, <1>2, <1>3, <1>8, ReadingCache DEF PushHere, At, RefreshedPCs, Settled
<1>9. CASE PushNext
  <2> DEFINE next == NextPage(op.cur)
             known == Learn(cache, {next})
  <2>1. known \in CacheType /\ Good(known) /\ Good(UnmarkDirty(known))
    BY <1>3, <1>9, LearnType, GoodOps DEF PushNext, At, RefreshedPCs
  <2>2. \/ (HandleCorruption(known) \/ cache' = UnmarkDirty(known)) /\ io' = io
        \/ ClosePage(known, op.cur)
        \/ OpenPage(known, next)
    BY <1>9 DEF PushNext
  <2> HIDE DEF known
  <2>3. CASE (HandleCorruption(known) \/ cache' = UnmarkDirty(known)) /\ io' = io
    BY <1>1, <1>2, <2>1, <2>3, ReadingCache
  <2>4. CASE ClosePage(known, op.cur) \/ OpenPage(known, next)
    BY <1>1, <1>4, <2>1, <2>4, MarkingCache
  <2>5. QED  BY <2>2, <2>3, <2>4
<1>10. CASE PushOpened
  <2>1. Good(cache)
    BY <1>3, <1>10 DEF PushOpened, At, RefreshedPCs
  <2>2. ClosePage(cache, op.cur) \/ (cache' = cache /\ io' = io)
    BY <1>10 DEF PushOpened
  <2>3. QED  BY <1>1, <1>2, <1>4, <2>1, <2>2, MarkingCache, ReadingCache
<1>11. CASE PushAdvance
  <2>1. Good(cache) /\ PartialClosePage(cache, NextPage(op.cur))
    BY <1>3, <1>11 DEF PushAdvance, At, RefreshedPCs
  <2>2. QED  BY <1>1, <1>4, <2>1, MarkingCache
<1>12. CASE PushWrite \/ PushData
  <2>1. Good(cache)
    BY <1>3, <1>12 DEF PushWrite, PushData, At, RefreshedPCs
  <2>2. cache'.states = cache.states /\ (CacheKind = "none" => ~cache'.dirty)
    BY <1>12, <2>1 DEF PushWrite, PushData, WriteHeader, WriteData, NoticeWritten, MarkDirty,
                       CacheType, Good
  <2>3. io'.cmd \in {"none", "header", "data"} /\ io' \in IOType
    <3>1. io'.cmd \in {"none", "header", "data"}
      BY <1>12 DEF PushWrite, PushData, WriteHeader, WriteData, NoIO, ItemIO
    <3>2. QED  BY <1>12, <3>1, PushWriteInv
  <2>4. SameMarkers(Completed(io'), flash)
    BY <2>3, QuietFlash
  <2>5. Completed(io)' = Completed(io')
    BY <1>1 DEF Completed
  <2>6. Sound(cache', Completed(io'))
    BY <2>1, <2>2, <2>4 DEF Good, Sound, SameMarkers
  <2>7. QED  BY <1>2, <2>2, <2>3, <2>5, <2>6 DEF CacheInv
<1>13. CASE PushFinish
  <2>1. Good(UnmarkDirty(cache))
    BY <1>3, <1>13, GoodOps DEF PushFinish, At, RefreshedPCs
  <2>2. QED  BY <1>1, <1>2, <1>13, <2>1, ReadingCache DEF PushFinish, Settled
<1>14. QED
  BY <1>6, <1>7, <1>8, <1>9, <1>10, <1>11, <1>12, <1>13

\* iter, next and pop.
LEMMA IterCache ==
  ASSUME IInv, CacheInv,
         \/ IterStart \/ NextStart \/ NextPageAfter \/ NextReopened \/ NextItem \/ PopFinish
  PROVE  CacheInv'
<1> USE DEF IInv, TypeOK
<1>1. io = NoIO /\ flash' = flash /\ op.pc # "idle"
  BY DEF IterStart, NextStart, NextPageAfter, NextReopened, NextItem, PopFinish, At, Settled
<1>2. ~HasEntry /\ (iter' = iter => ~HasEntry')
  BY <1>1, RunningCall DEF HasEntry
<1>3. op.pc \in RefreshedPCs => Good(cache)
  BY <1>1, RefreshGood
<1>4. Good(Refresh(cache)) /\ Refresh(cache) \in CacheType
  BY <1>1, RefreshGood, DirtyType
<1>5. CASE IterStart
  <2> DEFINE y == FindYoungest(Refresh(cache))
             known == LearnOldest(Refresh(cache), y)
  <2>1. Good(known)
    <3>1. Good(LearnYoungest(Refresh(cache))) /\ LearnYoungest(Refresh(cache)) \in CacheType
      BY <1>4, GoodOps, YoungestCacheType DEF LearnYoungest
    <3>2. QED  BY <3>1, GoodOps DEF LearnOldest
  <2>2. /\ HandleCorruption(known) \/ cache' = known
        /\ iter' = iter \/ iter'.entryAddr = NoAddr
        /\ io' = io
    BY <1>5 DEF IterStart, Settled, NoIter
  <2> HIDE DEF known
  <2>3. ~HasEntry'
    BY <1>2, <2>2 DEF HasEntry
  <2>4. QED  BY <1>1, <2>1, <2>2, <2>3, ReadingCache
<1>6. CASE NextStart
  BY <1>1, <1>2, <1>4, <1>6, ReadingCache DEF NextStart, Settled
<1>7. CASE NextPageAfter
  <2> DEFINE known == Learn(cache, {NextPage(iter.page)})
  <2>1. known \in CacheType /\ Good(known) /\ Good(UnmarkDirty(known))
    BY <1>3, <1>7, LearnType, GoodOps DEF NextPageAfter, At, RefreshedPCs
  <2>2. /\ \/ /\ HandleCorruption(known) \/ cache' = UnmarkDirty(known) \/ cache' = known
              /\ io' = io
           \/ OpenPage(known, iter.page)
        /\ iter' = iter
    BY <1>7 DEF NextPageAfter
  <2> HIDE DEF known
  <2>3. iter.page \in Pages
    BY DEF IterType
  <2>4. QED  BY <1>1, <1>2, <2>1, <2>2, <2>3, ReadingCache, MarkingCache
<1>8. CASE NextReopened
  <2>1. ~HasEntry'
    BY <1>2, <1>8 DEF NextReopened, HasEntry, IterType
  <2>2. QED
    BY <1>1, <1>3, <1>8, <2>1, ReadingCache DEF NextReopened, At, RefreshedPCs, Settled
<1>9. CASE NextItem
  <2>1. Good(cache) /\ Good(UnmarkDirty(cache)) /\ ~UnmarkDirty(cache).dirty
    BY <1>3, <1>9, GoodOps DEF NextItem, At, RefreshedPCs, UnmarkDirty, CacheType
  <2>2. \A a \in Addrs: MovedPast(a).entryAddr = iter.entryAddr
    BY MovedPastType
  <2>3. \/ cache' = cache /\ iter'.entryAddr = iter.entryAddr
        \/ cache' = UnmarkDirty(cache)
    BY <1>9, <2>2 DEF NextItem, IterType
  <2>4. HasEntry' => ~cache'.dirty
    BY <1>2, <2>1, <2>3, SMTT(30) DEF HasEntry
  <2>5. io' = io
    BY <1>9 DEF NextItem, Settled
  <2>6. QED  BY <1>1, <2>1, <2>3, <2>4, <2>5, ReadingCache
<1>10. CASE PopFinish
  <2>1. Good(UnmarkDirty(cache))
    BY <1>3, <1>10, GoodOps DEF PopFinish, At, RefreshedPCs
  <2>2. QED  BY <1>1, <1>2, <1>10, <2>1, ReadingCache DEF PopFinish, Settled
<1>11. QED  BY <1>5, <1>6, <1>7, <1>8, <1>9, <1>10, SMTT(30)

\* find_max_fit and space_left.
LEMMA MeasureCache ==
  ASSUME IInv, CacheInv, FindMaxFit \/ SpaceLeft
  PROVE  CacheInv'
<1> USE DEF IInv, TypeOK
<1> DEFINE c == Refresh(cache)
           torn == {p \in Pages: StateOf(c, p) = "Corrupted"}
           seen == IF torn = {} THEN Pages ELSE 0 .. Min(torn)
           young == LearnYoungest(c)
           fit == Learn(young, {NextPage(FindYoungest(c))})
           all == Learn(c, seen)
<1>1. io = NoIO /\ flash' = flash /\ op.pc # "idle" /\ iter' = iter /\ io' = io
  BY DEF FindMaxFit, SpaceLeft, At, Settled
<1>2. ~HasEntry'
  BY <1>1, RunningCall DEF HasEntry
<1>3. \A known \in {young, fit, all}: Good(known) /\ Good(UnmarkDirty(known))
  <2>1. Good(c) /\ c \in CacheType
    BY <1>1, RefreshGood, DirtyType
  <2>2. Good(young) /\ young \in CacheType
    BY <2>1, GoodOps, LearnType DEF LearnYoungest
  <2>3. Good(fit) /\ fit \in CacheType /\ Good(all) /\ all \in CacheType
    BY <2>1, <2>2, GoodOps, LearnType
  <2>4. QED  BY <2>2, <2>3, GoodOps
<1>4. \E known \in {young, fit, all}: HandleCorruption(known) \/ cache' = UnmarkDirty(known)
  BY DEF FindMaxFit, SpaceLeft
<1> HIDE DEF young, fit, all
<1>5. QED  BY <1>1, <1>2, <1>3, <1>4, ReadingCache

\* EraseAllFinish is reached only where there is no cache to be wrong.
LEMMA EraseAllCache ==
  ASSUME IInv, CacheInv, EraseAllFinish
  PROVE  CacheInv'
<1> USE DEF IInv, TypeOK
<1>1. /\ io = NoIO /\ io' = NoIO /\ flash' = flash /\ cache' = cache /\ iter' = iter
      /\ op.pc = "erase_all"
  BY DEF EraseAllFinish, At, Settled
<1>2. Trusted' => Trusted
  BY <1>1, SmallTypes DEF EraseAllFinish, Return, Trusted, RefreshedPCs
<1>3. Completed(io)' = Completed(io)
  BY <1>1, NoIOCompleted
<1>4. QED  BY <1>1, <1>2, <1>3 DEF CacheInv, Sound, HasEntry

-----------------------------------------------------------------------------
\* The invariant holds initially,
LEMMA InitCache == Init => CacheInv
<1> SUFFICES ASSUME Init PROVE CacheInv
  OBVIOUS
<1>1. cache = FreshCache /\ ~cache.dirty /\ io.cmd = "none" /\ ~HasEntry
  BY SmallTypes DEF Init, GenericInit, FreshCache, NoIO, HasEntry
<1>2. Sound(cache, Completed(io))
  BY <1>1, FreshSound
<1>3. QED  BY <1>1, <1>2 DEF CacheInv

\* and every step preserves it.
LEMMA StepCache ==
  ASSUME CacheKind = "none" \/ "erase_all" \notin UserCalls
  PROVE  IInv /\ CacheInv /\ [Next]_vars => CacheInv'
<1> SUFFICES ASSUME IInv, CacheInv, [Next]_vars PROVE CacheInv'
  OBVIOUS
<1>1. CASE UNCHANGED vars
  BY <1>1 DEF vars, CacheInv, Trusted, Sound, Completed, HasEntry
<1>2. CASE Call
  BY <1>2, CallsCache
<1>3. CASE Fail \/ PowerLoss
  BY <1>3, FaultCache
<1>4. CASE Step
  BY <1>4, FlashDoneCache, RepairCache, PushCache, IterCache, MeasureCache, EraseAllCache DEF Step
<1>5. QED  BY <1>1, <1>2, <1>3, <1>4 DEF Next

\* The page states a clean cache knows are those in flash, for any number of pages,
\* any items and any sequence of calls, failures and power losses, as long as
\* erase_all, which does not tell the cache, is not used with one.
THEOREM CachedStatesCorrect ==
  ASSUME CacheKind = "none" \/ "erase_all" \notin UserCalls
  PROVE  Spec => []CachedStates
<1>1. Spec => []IInv
  <2>1. IInv /\ NextHasIter => IInv
    OBVIOUS
  <2>2. QED  BY <2>1, Invariance, PTL
<1>2. Init => CacheInv
  BY InitCache
<1>3. IInv /\ CacheInv /\ [Next]_vars => CacheInv'
  BY StepCache
<1>4. IInv /\ CacheInv => CachedStates
  <2> SUFFICES ASSUME IInv, CacheInv, op = Idle, ~cache.dirty, NEW p \in Pages
               PROVE  cache.states[p] \in {"Unknown", MarkedState(flash[p])}
    BY DEF CachedStates
  <2>1. Sound(cache, flash)
    BY NoIOCompleted DEF CacheInv, Trusted, IInv, TypeOK, QuietIdle
  <2>2. QED  BY <2>1 DEF Sound
<1>5. QED  BY <1>1, <1>2, <1>3, <1>4, PTL DEF Spec

-----------------------------------------------------------------------------
(***************************************************************************)
(* The pages of the queue stay in order (PageOrder) and a repair is enough  *)
(* (AlwaysRepaired).                                                        *)
(*                                                                         *)
(* The invariant says that the marks of the pages are in order now and will *)
(* be when the pending operation has completed, what the locals of a        *)
(* running push say of the pages it is about to mark, and that the page an  *)
(* iterator may erase can be erased.                                        *)
(***************************************************************************)

\* From `first` on there are n closed pages, then perhaps the page in use.
Sequential(st, first, n) ==
  \A p \in Pages:
    st[p] \in IF Behind(first, p) < n THEN {"Closed"}
              ELSE IF Behind(first, p) = n THEN {"PartialOpen", "Open", "Corrupted"}
              ELSE {"Open", "Corrupted"}

Ordered(st) == \E first \in Pages, n \in 0 .. PageCount - 1: Sequential(st, first, n)

-----------------------------------------------------------------------------
(* Pages on a circle *)

\* The order of the pages as PageOrder states it.
LEMMA OrderedIsPageOrder ==
  Ordered(Marks(flash)) =>
    \E first \in Pages, n \in 0 .. PageCount - 1:
      \A i \in Pages:
        MarkedState(flash[PageFrom(first, i)]) \in
          IF i < n THEN {"Closed"}
          ELSE IF i = n THEN {"PartialOpen", "Open", "Corrupted"}
          ELSE {"Open", "Corrupted"}
<1> SUFFICES ASSUME NEW first \in Pages, NEW n \in 0 .. PageCount - 1,
                    Sequential(Marks(flash), first, n), NEW i \in Pages
             PROVE  MarkedState(flash[PageFrom(first, i)]) \in
                      IF i < n THEN {"Closed"}
                      ELSE IF i = n THEN {"PartialOpen", "Open", "Corrupted"}
                      ELSE {"Open", "Corrupted"}
  BY DEF Ordered
<1> DEFINE p == PageFrom(first, i)
<1>1. p \in Pages /\ Behind(first, p) = i
  BY BehindFrom
<1> HIDE DEF p
<1>2. MarkedState(flash[p]) \in
        IF i < n THEN {"Closed"}
        ELSE IF i = n THEN {"PartialOpen", "Open", "Corrupted"}
        ELSE {"Open", "Corrupted"}
  BY <1>1 DEF Sequential, Marks
<1>3. QED  BY <1>2 DEF p

-----------------------------------------------------------------------------
(* One page changes its state *)

\* A page that is not closed may be erased, completely or not.
LEMMA EraseLoose ==
  ASSUME NEW st \in [Pages -> PageState], Ordered(st), NEW p \in Pages, st[p] # "Closed",
         NEW s \in {"Open", "Corrupted"}
  PROVE  Ordered([st EXCEPT ![p] = s])
<1>1. PICK first \in Pages, n \in 0 .. PageCount - 1: Sequential(st, first, n)
  BY DEF Ordered
<1>2. Sequential([st EXCEPT ![p] = s], first, n)
  BY <1>1 DEF Sequential
<1>3. QED  BY <1>2 DEF Ordered

\* A page that may be erased may be half-erased.
LEMMA HalfErased ==
  ASSUME NEW st \in [Pages -> PageState], NEW p \in Pages, Ordered([st EXCEPT ![p] = "Open"])
  PROVE  Ordered([st EXCEPT ![p] = "Corrupted"])
<1> DEFINE open == [st EXCEPT ![p] = "Open"]
<1>1. open \in [Pages -> PageState] /\ open[p] # "Closed"
  BY DEF PageState
<1>2. Ordered([open EXCEPT ![p] = "Corrupted"])
  BY <1>1, EraseLoose
<1>3. [open EXCEPT ![p] = "Corrupted"] = [st EXCEPT ![p] = "Corrupted"]
  BY <1>1
<1>4. QED  BY <1>2, <1>3

\* The closed page behind one that is not closed is the oldest: it may be erased.
LEMMA EraseFirst ==
  ASSUME NEW st \in [Pages -> PageState], Ordered(st), NEW q \in Pages, st[q] # "Closed"
  PROVE  Ordered([st EXCEPT ![NextPage(q)] = "Open"])
<1> DEFINE p == NextPage(q)
<1>1. p \in Pages
  BY Around
<1>2. CASE st[p] # "Closed"
  BY <1>1, <1>2, EraseLoose
<1>3. CASE st[p] = "Closed"
  <2>1. PICK first \in Pages, n \in 0 .. PageCount - 1: Sequential(st, first, n)
    BY DEF Ordered
  <2>2. /\ PageCount \in Nat \ {0} /\ n \in Int
        /\ Behind(first, p) \in Nat /\ Behind(first, q) \in Nat
    BY <1>1, BehindNat
  <2>3. Behind(first, p) < n /\ ~(Behind(first, q) < n)
    BY <1>1, <1>3, <2>1, <2>2 DEF Sequential
  <2>4. p = first
    BY <1>1, <2>2, <2>3, BehindNext
  <2>5. Behind(first, first) = 0 /\ n - 1 \in 0 .. PageCount - 1
    BY <2>2, <2>3, <2>4, BehindType
  <2>6. NextPage(first) \in Pages
    BY Around
  <2>7. ASSUME NEW r \in Pages
        PROVE  [st EXCEPT ![p] = "Open"][r] \in
                 IF Behind(NextPage(first), r) < n - 1 THEN {"Closed"}
                 ELSE IF Behind(NextPage(first), r) = n - 1 THEN {"PartialOpen", "Open", "Corrupted"}
                 ELSE {"Open", "Corrupted"}
    <3>1. Behind(first, r) \in Nat
      BY BehindType DEF Pages
    <3>2. CASE r = first
      <4>1. Behind(NextPage(first), r) = PageCount - 1 /\ ~(PageCount - 1 < n - 1)
        BY <2>2, <3>2, BehindSecond
      <4>2. [st EXCEPT ![p] = "Open"][r] = "Open"
        BY <1>1, <2>4, <3>2
      <4>3. QED  BY <4>1, <4>2
    <3>3. CASE r # first
      <4>1. Behind(NextPage(first), r) = Behind(first, r) - 1
        BY <3>3, BehindSecond
      <4>2. [st EXCEPT ![p] = "Open"][r] = st[r]
        BY <2>4, <3>3
      <4>3. QED  BY <2>1, <2>2, <3>1, <4>1, <4>2 DEF Sequential
    <3>4. QED  BY <3>2, <3>3
  <2>8. Sequential([st EXCEPT ![p] = "Open"], NextPage(first), n - 1)
    BY <2>7 DEF Sequential
  <2>9. QED  BY <2>5, <2>6, <2>8 DEF Ordered
<1>4. QED  BY <1>2, <1>3

\* At most one page is partially open.
LEMMA OnePartial ==
  ASSUME NEW st, Ordered(st), NEW p \in Pages, NEW q \in Pages,
         st[p] = "PartialOpen", st[q] = "PartialOpen"
  PROVE  p = q
<1>1. PICK first \in Pages, n \in 0 .. PageCount - 1: Sequential(st, first, n)
  BY DEF Ordered
<1>2. Behind(first, p) = n /\ Behind(first, q) = n
  BY <1>1 DEF Sequential
<1>3. QED  BY <1>2, BehindType

\* The page in use may be closed when the page after it is open, and that page be used.
LEMMA CloseAndAdvance ==
  ASSUME NEW st \in [Pages -> PageState], Ordered(st), NEW p \in Pages,
         st[p] = "PartialOpen", st[NextPage(p)] = "Open"
  PROVE  /\ Ordered([st EXCEPT ![p] = "Closed"])
         /\ Ordered([st EXCEPT ![p] = "Closed", ![NextPage(p)] = "PartialOpen"])
<1> DEFINE q == NextPage(p)
           closed == [st EXCEPT ![p] = "Closed"]
           used == [st EXCEPT ![p] = "Closed", ![q] = "PartialOpen"]
<1>1. q \in Pages /\ q # p
  BY Around
<1>2. PICK first \in Pages, n \in 0 .. PageCount - 1: Sequential(st, first, n)
  BY DEF Ordered
<1>3. /\ PageCount \in Nat \ {0} /\ n \in Int
      /\ Behind(first, p) \in Nat /\ Behind(first, q) \in Nat
      /\ Behind(first, q) <= PageCount - 1
  BY <1>1, BehindNat
<1>4. Behind(first, p) = n
  BY <1>2 DEF Sequential
<1>5. Behind(first, q) = n + 1
  <2>1. ASSUME q = first PROVE FALSE
    <3>1. Behind(first, q) = 0
      BY <2>1, BehindType
    <3>2. n = 0
      BY <1>1, <1>2, <1>3, <3>1 DEF Sequential
    <3>3. QED  BY <1>1, <1>3, <1>4, <3>1, <3>2, BehindType
  <2>2. QED  BY <1>4, <2>1, BehindNext
<1>6. n + 1 \in 0 .. PageCount - 1
  BY <1>3, <1>5
<1>7. ASSUME NEW r \in Pages
      PROVE  /\ closed[r] \in IF Behind(first, r) < n + 1 THEN {"Closed"}
                              ELSE IF Behind(first, r) = n + 1 THEN {"PartialOpen", "Open", "Corrupted"}
                              ELSE {"Open", "Corrupted"}
             /\ used[r] \in IF Behind(first, r) < n + 1 THEN {"Closed"}
                            ELSE IF Behind(first, r) = n + 1 THEN {"PartialOpen", "Open", "Corrupted"}
                            ELSE {"Open", "Corrupted"}
  <2>1. Behind(first, r) \in Nat
    BY BehindType DEF Pages
  <2>2. CASE r = p
    BY <1>1, <1>3, <1>4, <2>2
  <2>3. CASE r = q
    BY <1>1, <1>3, <1>5, <2>3
  <2>4. CASE r # p /\ r # q
    <3>1. closed[r] = st[r] /\ used[r] = st[r]
      BY <2>4
    <3>2. Behind(first, r) # n /\ Behind(first, r) # n + 1
      BY <1>1, <1>4, <1>5, <2>4, BehindType
    <3>3. QED  BY <1>2, <1>3, <2>1, <3>1, <3>2 DEF Sequential
  <2>5. QED  BY <2>2, <2>3, <2>4
<1>8. Sequential(closed, first, n + 1) /\ Sequential(used, first, n + 1)
  BY <1>7 DEF Sequential
<1>9. QED  BY <1>6, <1>8 DEF Ordered

\* With no page partially open, the first open page behind a closed one may be used.
LEMMA UseAfterClosed ==
  ASSUME NEW st \in [Pages -> PageState], Ordered(st),
         \A r \in Pages: st[r] # "PartialOpen",
         NEW q \in Pages, st[q] = "Closed", st[NextPage(q)] = "Open"
  PROVE  Ordered([st EXCEPT ![NextPage(q)] = "PartialOpen"])
<1> DEFINE p == NextPage(q)
<1>1. p \in Pages
  BY Around
<1>2. PICK first \in Pages, n \in 0 .. PageCount - 1: Sequential(st, first, n)
  BY DEF Ordered
<1>3. /\ PageCount \in Nat \ {0} /\ n \in Int
      /\ Behind(first, p) \in Nat /\ Behind(first, q) \in Nat
  BY <1>1, BehindNat
<1>4. Behind(first, q) < n /\ ~(Behind(first, p) < n)
  BY <1>1, <1>2, <1>3 DEF Sequential
<1>5. Behind(first, p) = n
  BY <1>3, <1>4, BehindNext, BehindType
<1>6. Sequential([st EXCEPT ![p] = "PartialOpen"], first, n)
  BY <1>1, <1>2, <1>5 DEF Sequential
<1>7. QED  BY <1>6 DEF Ordered

\* When every page is open, page 0 may be used.
LEMMA UseFirst ==
  ASSUME NEW st \in [Pages -> PageState], \A r \in Pages: st[r] = "Open"
  PROVE  Ordered(st) /\ Ordered([st EXCEPT ![0] = "PartialOpen"])
<1>1. 0 \in Pages /\ 0 \in 0 .. PageCount - 1 /\ PageCount \in Nat
  BY PageCountAssumption DEF Pages
<1>2. \A r \in Pages: Behind(0, r) = r /\ r \in Nat
  BY <1>1 DEF Behind, Pages
<1>3. Sequential(st, 0, 0) /\ Sequential([st EXCEPT ![0] = "PartialOpen"], 0, 0)
  BY <1>1, <1>2 DEF Sequential
<1>4. QED  BY <1>1, <1>3 DEF Ordered

\* Not every page is closed.
LEMMA SomeNotClosed ==
  ASSUME NEW st, Ordered(st)
  PROVE  \E p \in Pages: st[p] \in {"PartialOpen", "Open", "Corrupted"}
<1>1. PICK first \in Pages, n \in 0 .. PageCount - 1: Sequential(st, first, n)
  BY DEF Ordered
<1> DEFINE p == PageFrom(first, n)
<1>2. p \in Pages /\ Behind(first, p) = n
  BY BehindFrom DEF Pages
<1>3. QED  BY <1>1, <1>2 DEF Sequential

-----------------------------------------------------------------------------
(* The invariant *)

\* From the start of an erase_all to the success of one, the pages may be in disorder.
Disturbed == op.fn = "erase_all" \/ ~Usable

\* The pages are in order, and the page the iterator is on may be erased unless
\* something on it was not popped.
Sane(st) ==
  /\ Ordered(st)
  /\ iter.live /\ iter.prev # "Unpopped" => Ordered([st EXCEPT ![iter.page] = "Open"])

\* No iterator is alive when pages other than those it erases may change.
Exclusive ==
  /\ op.fn = "push" \/ Disturbed => ~iter.live
  /\ Disturbed => op.pc \in {"idle", "erase_all"}
  /\ op.fn = "erase_all" <=> op.pc = "erase_all"
  /\ op.fn = "next" => iter.prev # "AllButCurrentPopped"
  /\ io.cmd = "erase_all" => op.fn = "erase_all"

\* What a running call knows of the pages it is about to mark.
Planned ==
  LET next == NextPage(op.cur) IN
  /\ op.pc = "place" => Then[op.cur] = "PartialOpen"
  /\ op.pc = "opened" => /\ Then[next] = "Open"
                         /\ next # op.cur => Then[op.cur] = "PartialOpen"
  /\ op.pc = "advance" => Then[next] = "Open" /\ Ordered([Then EXCEPT ![next] = "PartialOpen"])
  /\ op.pc = "reopened" /\ iter.prev # "Unpopped" => Then[iter.page] = "Open"
  /\ op.pc = "erase_all" => \A p \in Pages: Then[p] = "Open"

OrderInv == Exclusive /\ Planned /\ (~Disturbed => Sane(Now) /\ Sane(Then))

-----------------------------------------------------------------------------
(* What the searches for pages find *)

\* find_youngest_page: the partially open page, or an open one that may be the next.
LEMMA FoundYoungest ==
  ASSUME flash \in [Pages -> Page], NEW c, Good(c), Ordered(Now)
  PROVE  LET y == FindYoungest(c) IN
         /\ y = CorruptedPage => \E p \in Pages: Now[p] = "Corrupted"
         /\ y # CorruptedPage =>
              /\ y \in Pages
              /\ \/ Now[y] = "PartialOpen"
                 \/ /\ Now[y] = "Open" /\ \A p \in Pages: Now[p] # "PartialOpen"
                    /\ Ordered([Now EXCEPT ![y] = "PartialOpen"])
<1> DEFINE partial == FindFirst(c, 0, "PartialOpen")
           anchor == FindFirst(c, 0, "Closed")
           open == FindFirst(c, anchor, "Open")
           y == FindYoungest(c)
<1>1. 0 \in Pages /\ CorruptedPage \notin Pages /\ NoPage \notin Pages /\ NoPage # CorruptedPage
  BY PageCountAssumption DEF CorruptedPage, NoPage, Pages
<1>2. Now \in [Pages -> PageState]
  BY MarksType DEF Now
<1>3. /\ partial \in Pages \cup {NoPage, CorruptedPage}
      /\ partial = NoPage => \A p \in Pages: Now[p] \notin {"PartialOpen", "Corrupted"}
      /\ partial = CorruptedPage => \E p \in Pages: Now[p] = "Corrupted"
      /\ partial \in Pages => Now[partial] = "PartialOpen"
  BY <1>1, FoundFirst
<1>4. /\ anchor \in Pages \cup {NoPage, CorruptedPage}
      /\ anchor = NoPage => \A p \in Pages: Now[p] \notin {"Closed", "Corrupted"}
      /\ anchor = CorruptedPage => \E p \in Pages: Now[p] = "Corrupted"
      /\ anchor \in Pages => Now[anchor] = "Closed"
  BY <1>1, FoundFirst
<1>5. anchor \in Pages =>
        /\ open \in Pages \cup {NoPage, CorruptedPage}
        /\ open = NoPage => \A p \in Pages: Now[p] \notin {"Open", "Corrupted"}
        /\ open = CorruptedPage => \E p \in Pages: Now[p] = "Corrupted"
        /\ open \in Pages =>
             /\ Now[open] = "Open"
             /\ \E k \in Pages: /\ open = PageFrom(anchor, k)
                                /\ \A j \in Pages: j < k => Now[PageFrom(anchor, j)] \notin {"Open", "Corrupted"}
  BY FoundFirst
<1>6. y = IF partial # NoPage THEN partial
          ELSE IF anchor = NoPage THEN 0
          ELSE IF open = NoPage THEN CorruptedPage
          ELSE open
  BY DEF FindYoungest
<1> HIDE DEF partial, anchor, open, y
<1>7. CASE partial # NoPage
  BY <1>1, <1>3, <1>6, <1>7 DEF y
<1>8. CASE partial = NoPage /\ anchor = NoPage
  <2>1. \A p \in Pages: Now[p] = "Open"
    BY <1>2, <1>3, <1>4, <1>8 DEF PageState
  <2>2. Ordered([Now EXCEPT ![0] = "PartialOpen"])
    BY <1>2, <2>1, UseFirst
  <2>3. QED  BY <1>1, <1>6, <1>8, <2>1, <2>2 DEF y
<1>9. CASE partial = NoPage /\ anchor # NoPage
  <2>1. anchor \in Pages /\ Now[anchor] = "Closed" /\ \A p \in Pages: Now[p] \notin {"PartialOpen", "Corrupted"}
    BY <1>3, <1>4, <1>9
  <2>2. open \in Pages
    <3>1. open # NoPage
      BY <1>5, <2>1, SomeNotClosed
    <3>2. QED  BY <1>5, <2>1, <3>1
  <2>3. PICK k \in Pages: /\ open = PageFrom(anchor, k)
                          /\ \A j \in Pages: j < k => Now[PageFrom(anchor, j)] \notin {"Open", "Corrupted"}
    BY <1>5, <2>1, <2>2
  <2>4. Now[open] = "Open" /\ k # 0
    BY <1>5, <2>1, <2>2, <2>3, FromStart
  <2> DEFINE q == PageFrom(anchor, k - 1)
  <2>5. k - 1 \in Pages /\ q \in Pages /\ open = NextPage(q) /\ k - 1 < k
    <3>1. k \in Int
      BY DEF Pages
    <3>2. QED  BY <2>1, <2>3, <2>4, <3>1, FoundBehind
  <2>6. Now[q] = "Closed"
    BY <1>2, <2>1, <2>3, <2>5 DEF PageState
  <2> HIDE DEF q
  <2>7. Ordered([Now EXCEPT ![open] = "PartialOpen"])
    BY <1>2, <2>1, <2>4, <2>5, <2>6, UseAfterClosed
  <2>8. y = open
    BY <1>1, <1>6, <1>9, <2>2
  <2>9. QED  BY <1>1, <2>1, <2>2, <2>4, <2>7, <2>8 DEF y
<1>10. QED  BY <1>7, <1>8, <1>9

\* find_oldest_page: a page that may be erased.
LEMMA FoundOldest ==
  ASSUME flash \in [Pages -> Page], NEW c, Good(c), Ordered(Now)
  PROVE  LET o == FindOldest(c, FindYoungest(c)) IN
         /\ o = CorruptedPage => \E p \in Pages: Now[p] = "Corrupted"
         /\ o # CorruptedPage => o \in Pages /\ Ordered([Now EXCEPT ![o] = "Open"])
<1> DEFINE y == FindYoungest(c)
           closed == FindFirst(c, y, "Closed")
           o == FindOldest(c, y)
<1>1. CorruptedPage \notin Pages /\ NoPage \notin Pages /\ NoPage # CorruptedPage
  BY PageCountAssumption DEF CorruptedPage, NoPage, Pages
<1>2. Now \in [Pages -> PageState]
  BY MarksType DEF Now
<1>3. /\ y = CorruptedPage => \E p \in Pages: Now[p] = "Corrupted"
      /\ y # CorruptedPage => y \in Pages /\ Now[y] \in {"PartialOpen", "Open"}
  BY FoundYoungest
<1>4. o = IF y = CorruptedPage THEN CorruptedPage
          ELSE IF closed = NoPage THEN y ELSE closed
  BY DEF FindOldest
<1>5. y \in Pages =>
        /\ closed \in Pages \cup {NoPage, CorruptedPage}
        /\ closed = CorruptedPage => \E p \in Pages: Now[p] = "Corrupted"
        /\ closed \in Pages =>
             /\ Now[closed] = "Closed"
             /\ \E k \in Pages: /\ closed = PageFrom(y, k)
                                /\ \A j \in Pages: j < k => Now[PageFrom(y, j)] \notin {"Closed", "Corrupted"}
  BY FoundFirst
<1> HIDE DEF y, closed, o
<1>6. CASE y = CorruptedPage
  BY <1>3, <1>4, <1>6 DEF o, y
<1>7. CASE y # CorruptedPage /\ closed \notin Pages
  <2>1. Ordered([Now EXCEPT ![y] = "Open"])
    BY <1>2, <1>3, <1>7, EraseLoose
  <2>2. QED  BY <1>1, <1>3, <1>4, <1>5, <1>7, <2>1 DEF o, y
<1>8. CASE y # CorruptedPage /\ closed \in Pages
  <2>1. PICK k \in Pages: /\ closed = PageFrom(y, k)
                          /\ \A j \in Pages: j < k => Now[PageFrom(y, j)] \notin {"Closed", "Corrupted"}
    BY <1>3, <1>5, <1>8
  <2>2. k # 0 /\ y \in Pages
    BY <1>3, <1>5, <1>8, <2>1, FromStart
  <2> DEFINE q == PageFrom(y, k - 1)
  <2>3. k - 1 \in Pages /\ q \in Pages /\ closed = NextPage(q) /\ k - 1 < k
    <3>1. k \in Int
      BY DEF Pages
    <3>2. QED  BY <2>1, <2>2, <3>1, FoundBehind
  <2>4. Now[q] # "Closed"
    BY <2>1, <2>3
  <2> HIDE DEF q
  <2>5. Ordered([Now EXCEPT ![closed] = "Open"])
    BY <1>2, <2>3, <2>4, EraseFirst
  <2>6. o = closed
    BY <1>1, <1>4, <1>8
  <2>7. QED  BY <1>1, <1>8, <2>5, <2>6 DEF o, y
<1>9. QED  BY <1>6, <1>7, <1>8

-----------------------------------------------------------------------------
(* Every step preserves the order *)

\* The page on which something may be left is not closed, so it may be erased.
LEMMA SaneOpened ==
  ASSUME IInv, NEW st \in [Pages -> PageState], Sane(st), NEW p \in Pages, st[p] # "Closed"
  PROVE  Sane([st EXCEPT ![p] = "Open"])
<1> DEFINE opened == [st EXCEPT ![p] = "Open"]
           behind == [st EXCEPT ![iter.page] = "Open"]
<1>1. iter.page \in Pages
  BY DEF IInv, TypeOK, IterType
<1>2. Ordered(opened)
  BY EraseLoose DEF Sane
<1>3. ASSUME Ordered(behind) PROVE Ordered([opened EXCEPT ![iter.page] = "Open"])
  <2>1. behind \in [Pages -> PageState] /\ behind[p] # "Closed"
    BY <1>1 DEF PageState
  <2>2. Ordered([behind EXCEPT ![p] = "Open"])
    BY <1>3, <2>1, EraseLoose
  <2>3. [behind EXCEPT ![p] = "Open"] = [opened EXCEPT ![iter.page] = "Open"]
    BY <1>1
  <2>4. QED  BY <2>2, <2>3
<1>4. QED  BY <1>2, <1>3 DEF Sane

\* If erasing a page keeps the order, so does an erase that stops half-way.
LEMMA SaneHalfErased ==
  ASSUME IInv, NEW st \in [Pages -> PageState], NEW p \in Pages, Sane([st EXCEPT ![p] = "Open"])
  PROVE  Sane([st EXCEPT ![p] = "Corrupted"])
<1> DEFINE opened == [st EXCEPT ![p] = "Open"]
           half == [st EXCEPT ![p] = "Corrupted"]
           behind == [st EXCEPT ![iter.page] = "Open"]
<1>1. iter.page \in Pages
  BY DEF IInv, TypeOK, IterType
<1>2. Ordered(half)
  BY HalfErased DEF Sane
<1>3. ASSUME Ordered([opened EXCEPT ![iter.page] = "Open"])
      PROVE  Ordered([half EXCEPT ![iter.page] = "Open"])
  <2>1. CASE iter.page = p
    <3>1. [half EXCEPT ![p] = "Open"] = [opened EXCEPT ![p] = "Open"]
      OBVIOUS
    <3>2. QED  BY <1>3, <2>1, <3>1
  <2>2. CASE iter.page # p
    <3>1. /\ behind \in [Pages -> PageState]
          /\ [opened EXCEPT ![iter.page] = "Open"] = [behind EXCEPT ![p] = "Open"]
      BY <1>1, <2>2 DEF PageState
    <3>2. Ordered([behind EXCEPT ![p] = "Corrupted"])
      BY <1>3, <3>1, HalfErased
    <3>3. [behind EXCEPT ![p] = "Corrupted"] = [half EXCEPT ![iter.page] = "Open"]
      BY <1>1, <2>2
    <3>4. QED  BY <3>2, <3>3
  <2>3. QED  BY <2>1, <2>2
<1>4. QED  BY <1>2, <1>3 DEF Sane

\* The steps after which nothing is planned for the pages.
PlanPCs == {"place", "opened", "advance", "reopened", "erase_all"}

\* A running call other than erase_all finds the pages in order, and leaves the
\* storage usable whatever it returns.
LEMMA Undisturbed ==
  ASSUME OrderInv, op.pc \notin {"idle", "erase_all"}
  PROVE  /\ ~Disturbed /\ Sane(Now) /\ Sane(Then)
         /\ op'.fn \in {op.fn, "none"} /\ (ret' = ret \/ ret'.fn = op.fn) => ~Disturbed'
BY DEF OrderInv, Exclusive, Disturbed, Usable

\* What a call returns carries its name, and the call is over.
LEMMA Returned ==
  ASSUME IInv, NEW r, Return(r),
         r.fn = op.fn
  PROVE  op'.pc = "idle" /\ op'.fn = "none" /\ ret'.fn = op.fn
BY SmallTypes DEF Return

LEMMA ResultName ==
  /\ \A s: Result(s).fn = op.fn
  /\ \A i: ItemResult(i).fn = op.fn
  /\ \A n: NumResult(n).fn = op.fn
BY DEF Result, ItemResult, NumResult

\* A step of a call that keeps the iterator.
LEMMA OrderStep ==
  ASSUME OrderInv, op.pc \notin {"idle", "erase_all"}, op'.pc # "erase_all",
         op'.fn \in {op.fn, "none"}, ret' = ret \/ ret'.fn = op.fn, iter' = iter,
         Now' = Now, Sane(Then'), io'.cmd # "erase_all", Planned'
  PROVE  OrderInv'
<1>1. ~Disturbed /\ Sane(Now) /\ ~Disturbed'
  BY Undisturbed
<1>2. Sane(Now)' /\ Sane(Then)'
  BY <1>1 DEF Sane
<1>3. Exclusive'
  BY <1>1 DEF OrderInv, Exclusive, Disturbed
<1>4. QED  BY <1>2, <1>3 DEF OrderInv

\* One that only reads, or returns.
LEMMA OrderKept ==
  ASSUME IInv, OrderInv, op.pc \notin {"idle", "erase_all"}, op'.pc \notin PlanPCs,
         op'.fn \in {op.fn, "none"}, ret' = ret \/ ret'.fn = op.fn, iter' = iter,
         io = NoIO, io' = NoIO, flash' = flash
  PROVE  OrderInv'
<1>1. Now' = Now /\ Then' = Now /\ Sane(Now)
  BY QuietMarks, Undisturbed DEF IInv, TypeOK
<1>2. io'.cmd # "erase_all"
  BY DEF NoIO
<1>3. Planned' /\ op'.pc # "erase_all"
  BY DEF Planned, PlanPCs
<1>4. QED  BY <1>1, <1>2, <1>3, OrderStep

\* run_with_auto_repair.
LEMMA CorruptionOrder ==
  ASSUME IInv, OrderInv, op.pc \notin {"idle", "erase_all"}, NEW c, HandleCorruption(c),
         iter' = iter, io = NoIO, io' = NoIO, flash' = flash
  PROVE  OrderInv'
<1>1. CASE op.retried
  <2>1. Return(Result("Corrupted"))
    BY <1>1 DEF HandleCorruption
  <2>2. op'.pc = "idle" /\ op'.fn = "none" /\ ret'.fn = op.fn
    BY <2>1, Returned, ResultName
  <2>3. QED  BY <2>2, OrderKept DEF PlanPCs
<1>2. CASE ~op.retried
  <2>1. op'.pc = "repair" /\ op'.fn = op.fn /\ ret' = ret
    BY <1>2 DEF HandleCorruption, IInv, TypeOK, OpType
  <2>2. QED  BY <2>1, OrderKept DEF PlanPCs
<1>3. QED  BY <1>1, <1>2

\* A call that returns.
LEMMA ReturnOrder ==
  ASSUME IInv, OrderInv, op.pc \notin {"idle", "erase_all"}, NEW r, Return(r), r.fn = op.fn,
         iter' = iter, io = NoIO, io' = NoIO, flash' = flash
  PROVE  OrderInv'
<1>1. op'.pc = "idle" /\ op'.fn = "none" /\ ret'.fn = op.fn
  BY Returned
<1>2. QED  BY <1>1, OrderKept DEF PlanPCs

\* A flash operation completes.
LEMMA FlashDoneOrder ==
  ASSUME IInv, OrderInv, FlashDone, UNCHANGED qvars
  PROVE  OrderInv'
<1>1. io' = NoIO /\ flash' = Completed(io) /\ UNCHANGED <<op, iter, ret>>
  BY DEF FlashDone, qvars
<1>2. flash' \in [Pages -> Page]
  BY <1>1, FlashType DEF IInv, TypeOK
<1>3. Completed(io)' = Completed(io)
  BY <1>1, <1>2, NoIOCompleted
<1>4. Now' = Then /\ Then' = Then
  BY <1>1, <1>3 DEF Now, Then, Marks
<1>5. io'.cmd # "erase_all"
  BY <1>1 DEF NoIO
<1>6. Exclusive'
  BY <1>1, <1>5 DEF OrderInv, Exclusive, Disturbed, Usable
<1>7. Planned'
  BY <1>1, <1>4 DEF OrderInv, Planned
<1>8. ~Disturbed' => Sane(Now)' /\ Sane(Then)'
  BY <1>1, <1>4 DEF OrderInv, Disturbed, Usable, Sane
<1>9. QED  BY <1>6, <1>7, <1>8 DEF OrderInv

\* Whatever fails, an erase_all that has begun has not succeeded.
LEMMA StillDisturbed ==
  ASSUME IInv, OrderInv, Fail \/ PowerLoss, Disturbed
  PROVE  Disturbed'
<1>1. CASE Fail
  <2>1. op.fn = "erase_all"
    BY <1>1 DEF Fail, IInv, CallShape, OrderInv, Exclusive
  <2>2. ret'.fn = "erase_all" /\ ret'.status = "Storage"
    BY <1>1, <2>1 DEF Fail, Return, Result
  <2>3. QED  BY <2>2 DEF Disturbed, Usable
<1>2. CASE PowerLoss
  <2>1. ret'.fn = "erase_all" /\ ret'.status = "PowerLoss"
    BY <1>2 DEF PowerLoss, Return, Result, Disturbed
  <2>2. QED  BY <2>1 DEF Disturbed, Usable
<1>3. QED  BY <1>1, <1>2

\* A call fails or power is lost: the pages are in order all the same, unless an
\* erase_all was cut short.
LEMMA FaultOrder ==
  ASSUME IInv, OrderInv, Fail \/ PowerLoss
  PROVE  OrderInv'
<1>1. /\ flash' \in Interrupted(io) /\ io' = NoIO /\ io'.cmd # "erase_all"
      /\ flash' \in [Pages -> Page]
  BY CutShortType DEF Fail, PowerLoss, FlashCutShort, NoIO, IInv, TypeOK
<1>2. op'.pc = "idle" /\ op'.fn = "none"
  BY SmallTypes DEF Fail, PowerLoss, Return
<1>3. iter' = iter \/ ~iter'.live
  BY SmallTypes DEF Fail, PowerLoss
<1>4. IF Disturbed THEN ~iter.live ELSE ~Disturbed'
  <2>1. Disturbed => ~iter.live
    BY DEF OrderInv, Exclusive
  <2>2. ASSUME ~Disturbed PROVE ~Disturbed'
    <3>1. CASE Fail
      <4>1. ret'.fn = op.fn
        BY <3>1 DEF Fail, Return, Result
      <4>2. QED  BY <1>2, <2>2, <4>1 DEF Disturbed, Usable
    <3>2. CASE PowerLoss
      <4>1. ret'.fn = op.fn
        BY <2>2, <3>2 DEF PowerLoss, Return, Result, Disturbed
      <4>2. QED  BY <1>2, <2>2, <4>1 DEF Disturbed, Usable
    <3>3. QED  BY <3>1, <3>2
  <2>3. QED  BY <2>1, <2>2
<1>5. Planned'
  BY <1>2 DEF Planned
<1>6. CASE Disturbed
  <2>1. ~iter'.live
    BY <1>3, <1>4, <1>6
  <2>2. Disturbed'
    BY <1>6, StillDisturbed
  <2>3. Exclusive'
    BY <1>1, <1>2, <2>1 DEF Exclusive
  <2>4. QED  BY <1>5, <2>2, <2>3 DEF OrderInv
<1>7. CASE ~Disturbed
  <2>1. Sane(Now) /\ Sane(Then) /\ io.cmd # "erase_all"
    BY <1>7 DEF OrderInv, Exclusive, Disturbed
  <2>2. Now \in [Pages -> PageState] /\ io.page \in Pages
    BY NowThenType DEF IInv, TypeOK, IOType
  <2>3. Sane(Marks(flash'))
    BY <1>1, <2>1, <2>2, TornMarks, SaneHalfErased DEF IInv, TypeOK
  <2>4. Now' = Marks(flash') /\ Then' = Marks(flash')
    <3>1. Completed(io)' = flash'
      BY <1>1, NoIOCompleted
    <3>2. QED  BY <3>1 DEF Now, Then, Marks
  <2>5. Sane(Now)' /\ Sane(Then)'
    BY <1>3, <2>3, <2>4 DEF Sane
  <2>6. Exclusive'
    BY <1>1, <1>2, <1>4, <1>7 DEF Exclusive
  <2>7. QED  BY <1>5, <2>5, <2>6 DEF OrderInv
<1>8. QED  BY <1>6, <1>7

\* A call begins: nothing is pending, and the pages are in order unless an erase_all failed.
LEMMA CallsOrder ==
  ASSUME IInv, OrderInv, Call
  PROVE  OrderInv'
<1> USE DEF IInv, TypeOK
<1>1. op = Idle /\ io = NoIO /\ op.pc = "idle" /\ op.fn = "none"
  BY SmallTypes DEF Call, CallPush, CallIter, CallNext, CallPop, DropIter, CallFindMaxFit,
     CallSpaceLeft, CallEraseAll, Start, QuietIdle
<1>2. ~Disturbed => Sane(Now)
  BY DEF OrderInv
<1>3. ASSUME flash' = flash, io' = io, op'.pc \notin PlanPCs, ~Disturbed, ~Disturbed',
             op'.fn # "erase_all", op'.fn = "push" => ~iter'.live,
             op'.fn = "next" => iter'.prev # "AllButCurrentPopped",
             \/ iter'.live => /\ iter.live /\ iter'.page = iter.page
                              /\ iter.prev = "Unpopped" => iter'.prev = "Unpopped"
      PROVE  OrderInv'
  <2>1. Now' = Now /\ Then' = Now
    BY <1>1, <1>3, QuietMarks
  <2>2. Sane(Now)' /\ Sane(Then)'
    BY <1>2, <1>3, <2>1 DEF Sane
  <2>3. io'.cmd # "erase_all"
    BY <1>1, <1>3 DEF NoIO
  <2>4. Planned' /\ Exclusive'
    BY <1>3, <2>3 DEF Planned, PlanPCs, Exclusive
  <2>5. QED  BY <2>2, <2>4 DEF OrderInv
<1>4. ASSUME Usable PROVE ~Disturbed
  BY <1>1, <1>4 DEF Disturbed
<1>5. iter.live => ~Disturbed
  BY DEF OrderInv, Exclusive
<1>6. ret' = NoRet \/ ret'.fn \in {"find_max_fit", "space_left"} => Usable'
  BY DEF NoRet, Usable
<1>7. ASSUME NEW i \in Items, NEW allow \in BOOLEAN, CallPush(i, allow) PROVE OrderInv'
  <2>1. /\ op'.pc = "push" /\ op'.fn = "push" /\ iter' = iter /\ ~iter.live
        /\ flash' = flash /\ io' = io /\ Usable
    BY <1>7 DEF CallPush, gvars, Idle
  <2>2. Usable'
    BY <1>6, <1>7 DEF CallPush
  <2>3. ~Disturbed'
    BY <2>1, <2>2 DEF Disturbed
  <2>4. QED  BY <1>3, <1>4, <2>1, <2>3 DEF PlanPCs
<1>8. CASE CallIter \/ CallFindMaxFit \/ CallSpaceLeft
  <2>1. PICK fn \in {"iter", "find_max_fit", "space_left"}: Start(fn) /\ Usable /\ iter' = iter
    BY <1>8 DEF CallIter, CallFindMaxFit, CallSpaceLeft
  <2>2. op'.pc = fn /\ op'.fn = fn /\ ret' = NoRet /\ flash' = flash /\ io' = io
    BY <2>1 DEF Start, gvars, Idle
  <2>3. ~Disturbed'
    BY <1>6, <2>2 DEF Disturbed
  <2>4. QED  BY <1>3, <1>4, <2>1, <2>2, <2>3 DEF PlanPCs
<1>9. CASE CallNext
  <2>1. op'.pc = "next" /\ op'.fn = "next" /\ ret' = NoRet /\ flash' = flash /\ io' = io /\ iter.live
    BY <1>9 DEF CallNext, Start, gvars, Idle
  <2>2. /\ iter'.page = iter.page /\ iter'.prev # "AllButCurrentPopped"
        /\ iter.prev = "Unpopped" => iter'.prev = "Unpopped"
    BY <1>9 DEF CallNext, DropEntry, IterType
  <2>3. ~Disturbed'
    BY <1>6, <2>1 DEF Disturbed
  <2>4. QED  BY <1>3, <1>5, <2>1, <2>2, <2>3 DEF PlanPCs
<1>10. CASE DropIter
  <2>1. op' = op /\ ret' = ret /\ flash' = flash /\ io' = io /\ iter.live /\ ~iter'.live
    BY <1>10, SmallTypes DEF DropIter, gvars
  <2>2. ~Disturbed'
    BY <1>5, <2>1 DEF Disturbed, Usable
  <2>3. QED  BY <1>1, <1>3, <1>5, <2>1, <2>2 DEF PlanPCs
<1>11. CASE CallPop
  <2>1. iter.live /\ io' \in IOType
    BY <1>11, CallPopInv DEF CallPop, EntryShape
  <2>2. op'.pc = "popped" /\ op'.fn = "pop" /\ ret' = NoRet /\ flash' = flash
    BY <1>11 DEF CallPop, Idle
  <2>3. /\ iter'.page = iter.page /\ iter'.live = iter.live
        /\ iter.prev = "Unpopped" <=> iter'.prev = "Unpopped"
    BY <1>11 DEF CallPop, DropEntry, IterType
  <2>4. io'.cmd = "zero"
    BY <1>11 DEF CallPop, EraseItem, ItemIO
  <2>5. Now' = Now /\ Then' = Now
    BY <1>1, <2>1, <2>2, <2>4, WordMarks
  <2>6. ~Disturbed' /\ ~Disturbed
    BY <1>5, <1>6, <2>1, <2>2 DEF Disturbed
  <2>7. Sane(Now)' /\ Sane(Then)'
    BY <1>2, <2>3, <2>5, <2>6 DEF Sane
  <2>8. Planned' /\ Exclusive'
    BY <2>2, <2>4, <2>6 DEF Planned, Exclusive
  <2>9. QED  BY <2>7, <2>8 DEF OrderInv
<1>12. CASE CallEraseAll
  <2>1. /\ op'.fn = "erase_all" /\ op'.pc = "erase_all" /\ ~iter'.live
        /\ io'.cmd = "erase_all"
    BY <1>12 DEF CallEraseAll, Idle, PageIO, NoIO
  <2>2. Disturbed'
    BY <2>1 DEF Disturbed
  <2>3. Completed(io)' = [p \in Pages |-> ErasedPage]
    BY <2>1 DEF Completed
  <2>4. \A p \in Pages: Then'[p] = "Open"
    BY <2>3 DEF Then, Marks, MarkedState, ErasedPage
  <2>5. Planned' /\ Exclusive'
    BY <2>1, <2>4 DEF Planned, Exclusive
  <2>6. QED  BY <2>2, <2>5 DEF OrderInv
<1>13. QED  BY <1>7, <1>8, <1>9, <1>10, <1>11, <1>12 DEF Call

\* try_general_repair erases corrupted pages.
LEMMA RepairOrder ==
  ASSUME IInv, CacheInv, OrderInv, RepairPage \/ RepairDone
  PROVE  OrderInv'
<1> USE DEF IInv, TypeOK
<1>1. op.pc = "repair" /\ io = NoIO /\ flash' = flash /\ iter' = iter /\ ret' = ret
  BY DEF RepairPage, RepairDone, At, Settled
<1>2. Good(cache) /\ \A S: Good(Learn(cache, S)) /\ Learn(cache, S) \in CacheType
  BY <1>1, RefreshGood, GoodOps, LearnType DEF RefreshedPCs
<1>3. op.fn \in Functions \cup {"none"} /\ op.fn # "erase_all" /\ op.fn \in PCs
  BY <1>1 DEF OpType, OrderInv, Exclusive, CallShape
<1>4. CASE RepairPage
  <2> DEFINE torn == {p \in Pages: p >= op.cur /\ StateOf(cache, p) = "Corrupted"}
             q == Min(torn)
  <2>1. q \in torn
    <3>1. torn \in SUBSET Nat /\ torn # {}
      BY <1>4, PageCountAssumption DEF RepairPage, Pages
    <3>2. QED  BY <3>1, MinInSet
  <2>2. q \in Pages /\ Now[q] = "Corrupted"
    BY <1>2, <2>1, StateIsMark DEF Now, Marks
  <2>3. /\ OpenPage(Learn(cache, op.cur .. q), q)
        /\ op'.pc = "repair" /\ op'.fn = op.fn
    BY <1>1, <1>4 DEF RepairPage, OpType
  <2> HIDE DEF q, torn
  <2>4. Now' = Now /\ Then' = [Now EXCEPT ![q] = "Open"] /\ io'.cmd # "erase_all"
    BY <1>1, <1>2, <2>2, <2>3, MarkerMarks
  <2>5. Sane(Then')
    BY <1>1, <2>2, <2>4, SaneOpened, NowThenType, Undisturbed
  <2>6. Planned'
    BY <2>3 DEF Planned
  <2>7. QED  BY <1>1, <2>3, <2>4, <2>5, <2>6, OrderStep
<1>5. CASE RepairDone
  <2>1. op'.pc = op.fn /\ op'.fn = op.fn /\ io' = NoIO
    BY <1>1, <1>5 DEF RepairDone, Settled, OpType
  <2>2. op'.pc \notin PlanPCs
    BY <1>3, <2>1 DEF Functions, PlanPCs, PCs
  <2>3. QED  BY <1>1, <2>1, <2>2, OrderKept
<1>6. QED  BY <1>4, <1>5
\* A page that is followed by itself is the only one.
LEMMA OnlyPage ==
  ASSUME NEW p \in Pages, NextPage(p) = p
  PROVE  p = 0 /\ \A q \in Pages: q = 0
<1>1. PageCount \in Nat \ {0} /\ p \in 0 .. PageCount - 1
  BY PageCountAssumption DEF Pages
<1>2. p = 0 /\ PageCount = 1
  BY <1>1, Around
<1>3. QED  BY <1>2 DEF Pages

\* What a push may rely on.
LEMMA PushFacts ==
  ASSUME IInv, CacheInv, OrderInv, io = NoIO, op.pc # "idle", op.fn = "push"
  PROVE  /\ op.pc \notin {"idle", "erase_all"} /\ ~iter.live
         /\ Ordered(Now) /\ Then = Now /\ Now \in [Pages -> PageState]
         /\ op.cur \in Pages /\ NextPage(op.cur) \in Pages
         /\ Good(Refresh(cache)) /\ Refresh(cache) \in CacheType
         /\ op.pc \in RefreshedPCs => Good(cache)
<1>1. op.pc \notin {"idle", "erase_all"} /\ ~iter.live
  BY DEF OrderInv, Exclusive
<1>2. Ordered(Now) /\ Then = Now /\ Now \in [Pages -> PageState]
  BY <1>1, Undisturbed, NowThenType DEF Sane, IInv, TypeOK
<1>3. op.cur \in Pages /\ NextPage(op.cur) \in Pages
  BY Around DEF IInv, TypeOK, OpType
<1>4. QED  BY <1>1, <1>2, <1>3, RefreshGood, DirtyType DEF IInv, TypeOK

\* A step of a push after which the pages are, or will be, in order.
LEMMA PushStep ==
  ASSUME OrderInv, op.pc \notin {"idle", "erase_all"}, op'.pc # "erase_all", op.fn = "push",
         op'.fn = op.fn, ret' = ret, iter' = iter, Now' = Now, Ordered(Then'),
         io'.cmd # "erase_all", Planned'
  PROVE  OrderInv'
<1>1. Sane(Then')
  BY DEF OrderInv, Exclusive, Sane
<1>2. QED  BY <1>1, OrderStep

\* push_inner up to the choice of the page.
LEMMA PushSearchOrder ==
  ASSUME IInv, CacheInv, OrderInv, PushTooBig \/ PushStart \/ PushHere
  PROVE  OrderInv'
<1> USE DEF IInv, TypeOK
<1>1. io = NoIO /\ flash' = flash /\ iter' = iter /\ op.pc # "idle" /\ op.fn = "push"
  BY DEF PushTooBig, PushStart, PushHere, At, Settled, CallShape, PushPCs
<1>2. /\ op.pc \notin {"idle", "erase_all"} /\ ~iter.live
      /\ Ordered(Now) /\ Then = Now /\ Now \in [Pages -> PageState]
      /\ Good(Refresh(cache)) /\ Refresh(cache) \in CacheType
  BY <1>1, PushFacts
<1>3. CASE PushTooBig
  BY <1>1, <1>2, <1>3, ReturnOrder, ResultName DEF PushTooBig, Settled
<1>4. CASE PushHere
  <2>1. op'.pc = "write" /\ op'.fn = op.fn /\ ret' = ret /\ io' = NoIO
    BY <1>1, <1>4 DEF PushHere, Settled, OpType
  <2>2. QED  BY <1>1, <1>2, <2>1, OrderKept DEF PlanPCs
<1>5. CASE PushStart
  <2> DEFINE y == FindYoungest(Refresh(cache))
             known == LearnYoungest(Refresh(cache))
  <2>1. known \in CacheType /\ Good(known)
    BY <1>2, YoungestCacheType, GoodOps DEF LearnYoungest
  <2>2. IF y = CorruptedPage THEN HandleCorruption(known) /\ io' = io
        ELSE /\ PartialClosePage(known, y)
             /\ op' = [op EXCEPT !.pc = "place", !.cur = y]
             /\ ret' = ret
    BY <1>5 DEF PushStart
  <2>3. y # CorruptedPage =>
          /\ y \in Pages
          /\ \/ Now[y] = "PartialOpen"
             \/ Now[y] = "Open" /\ Ordered([Now EXCEPT ![y] = "PartialOpen"])
    BY <1>2, FoundYoungest
  <2> HIDE DEF y, known
  <2>4. CASE y = CorruptedPage
    BY <1>1, <1>2, <2>2, <2>4, CorruptionOrder
  <2>5. CASE y # CorruptedPage
    <3>1. /\ Now' = Now /\ io'.cmd # "erase_all"
          /\ Then' = IF Now[y] = "Open" THEN [Now EXCEPT ![y] = "PartialOpen"] ELSE Now
      BY <1>1, <2>1, <2>2, <2>3, <2>5, MarkerMarks
    <3>2. Ordered(Then') /\ Then'[y] = "PartialOpen"
      BY <1>2, <2>3, <2>5, <3>1
    <3>3. op'.pc = "place" /\ op'.cur = y /\ op'.fn = op.fn /\ ret' = ret
      BY <2>2, <2>5 DEF OpType
    <3>4. Planned'
      BY <3>2, <3>3 DEF Planned
    <3>5. QED  BY <1>1, <1>2, <3>1, <3>2, <3>3, <3>4, PushStep
  <2>6. QED  BY <2>4, <2>5
<1>6. QED  BY <1>3, <1>4, <1>5

\* push_inner when the current page is full: the next page is open, or is opened.
LEMMA PushNextOrder ==
  ASSUME IInv, CacheInv, OrderInv, PushNext
  PROVE  OrderInv'
<1> USE DEF IInv, TypeOK
<1> DEFINE next == NextPage(op.cur)
           known == Learn(cache, {next})
<1>1. io = NoIO /\ flash' = flash /\ iter' = iter /\ op.pc = "place" /\ op.fn = "push"
  BY DEF PushNext, At, Settled, CallShape, PushPCs
<1>2. /\ op.pc \notin {"idle", "erase_all"}
      /\ Ordered(Now) /\ Then = Now /\ Now \in [Pages -> PageState]
      /\ op.cur \in Pages /\ next \in Pages /\ Good(cache)
  BY <1>1, PushFacts DEF RefreshedPCs
<1>3. known \in CacheType /\ Good(known)
  BY <1>2, LearnType, GoodOps
<1>4. StateOf(cache, next) = Now[next] /\ Now[op.cur] = "PartialOpen"
  <2>1. StateOf(cache, next) = Now[next]
    BY <1>2, StateIsMark DEF Now, Marks
  <2>2. QED  BY <1>1, <1>2, <2>1 DEF OrderInv, Planned
<1>5. \/ HandleCorruption(known) /\ io' = io
      \/ /\ Now[next] = "Open"
         /\ ClosePage(known, op.cur) /\ Goto("advance") /\ ret' = ret
      \/ Return(Result("FullStorage")) /\ io' = io
      \/ /\ Now[next] = "Closed" \/ next = op.cur
         /\ OpenPage(known, next) /\ Goto("opened") /\ ret' = ret
  BY <1>4 DEF PushNext
<1> HIDE DEF next, known
<1>6. CASE HandleCorruption(known) /\ io' = io
  BY <1>1, <1>2, <1>6, CorruptionOrder
<1>7. CASE Return(Result("FullStorage")) /\ io' = io
  BY <1>1, <1>2, <1>7, ReturnOrder, ResultName
<1>8. CASE /\ Now[next] = "Open"
           /\ ClosePage(known, op.cur) /\ Goto("advance") /\ ret' = ret
  <2>1. Now' = Now /\ io'.cmd # "erase_all" /\ Then' = [Now EXCEPT ![op.cur] = "Closed"]
    BY <1>1, <1>2, <1>3, <1>4, <1>8, MarkerMarks
  <2>2. /\ Ordered([Now EXCEPT ![op.cur] = "Closed"])
        /\ Ordered([Now EXCEPT ![op.cur] = "Closed", ![next] = "PartialOpen"])
    BY <1>2, <1>4, <1>8, CloseAndAdvance DEF next
  <2>3. /\ Then'[next] = "Open"
        /\ [Then' EXCEPT ![next] = "PartialOpen"] =
             [Now EXCEPT ![op.cur] = "Closed", ![next] = "PartialOpen"]
    BY <1>2, <1>4, <1>8, <2>1
  <2>4. op'.pc = "advance" /\ op'.cur = op.cur /\ op'.fn = op.fn
    BY <1>8 DEF Goto, OpType
  <2>5. Planned'
    BY <2>2, <2>3, <2>4 DEF Planned, next
  <2>6. QED  BY <1>1, <1>2, <1>8, <2>1, <2>2, <2>4, <2>5, PushStep
<1>9. CASE /\ Now[next] = "Closed" \/ next = op.cur
           /\ OpenPage(known, next) /\ Goto("opened") /\ ret' = ret
  <2>1. Now' = Now /\ io'.cmd # "erase_all" /\ Then' = [Now EXCEPT ![next] = "Open"]
    BY <1>1, <1>2, <1>3, <1>9, MarkerMarks
  <2>2. Ordered(Then')
    BY <1>2, <1>4, <2>1, EraseFirst DEF next
  <2>3. Then'[next] = "Open" /\ (next # op.cur => Then'[op.cur] = "PartialOpen")
    BY <1>2, <1>4, <2>1
  <2>4. op'.pc = "opened" /\ op'.cur = op.cur /\ op'.fn = op.fn
    BY <1>9 DEF Goto, OpType
  <2>5. Planned'
    BY <2>3, <2>4 DEF Planned, next
  <2>6. QED  BY <1>1, <1>2, <1>9, <2>1, <2>2, <2>4, <2>5, PushStep
<1>10. QED  BY <1>5, <1>6, <1>7, <1>8, <1>9

\* push_inner from the new page to the written item.
LEMMA PushWriteOrder ==
  ASSUME IInv, CacheInv, OrderInv,
         PushOpened \/ PushAdvance \/ PushWrite \/ PushData \/ PushFinish
  PROVE  OrderInv'
<1> USE DEF IInv, TypeOK
<1> DEFINE next == NextPage(op.cur)
<1>1. io = NoIO /\ flash' = flash /\ iter' = iter /\ op.pc # "idle" /\ op.fn = "push"
  BY DEF PushOpened, PushAdvance, PushWrite, PushData, PushFinish, At, Settled, CallShape, PushPCs
<1>2. /\ op.pc \notin {"idle", "erase_all"}
      /\ Ordered(Now) /\ Then = Now /\ Now \in [Pages -> PageState]
      /\ op.cur \in Pages /\ next \in Pages
      /\ op.pc \in RefreshedPCs => Good(cache)
  BY <1>1, PushFacts
<1>3. CASE PushOpened
  <2>1. /\ op.pc = "opened" /\ Good(cache) /\ ret' = ret
        /\ IF next = op.cur THEN cache' = cache /\ io' = io ELSE ClosePage(cache, op.cur)
        /\ op'.pc = "advance" /\ op'.cur = op.cur /\ op'.fn = op.fn
    BY <1>2, <1>3 DEF PushOpened, At, Goto, OpType, RefreshedPCs
  <2>2. Now[next] = "Open" /\ (next # op.cur => Now[op.cur] = "PartialOpen")
    BY <1>2, <2>1 DEF OrderInv, Planned
  <2> HIDE DEF next
  <2>3. CASE next = op.cur
    <3>1. Now' = Now /\ Then' = Now /\ io'.cmd # "erase_all"
      BY <1>1, <2>1, <2>3, QuietMarks DEF NoIO
    <3>2. next = 0 /\ \A q \in Pages: Now[q] = "Open"
      BY <1>2, <2>2, <2>3, OnlyPage DEF next
    <3>3. Ordered([Now EXCEPT ![next] = "PartialOpen"])
      BY <1>2, <3>2, UseFirst
    <3>4. Planned'
      BY <2>1, <2>2, <3>1, <3>3 DEF Planned, next
    <3>5. QED  BY <1>1, <1>2, <2>1, <3>1, <3>4, PushStep
  <2>4. CASE next # op.cur
    <3>1. Now' = Now /\ io'.cmd # "erase_all" /\ Then' = [Now EXCEPT ![op.cur] = "Closed"]
      BY <1>1, <1>2, <2>1, <2>2, <2>4, MarkerMarks
    <3>2. /\ Ordered([Now EXCEPT ![op.cur] = "Closed"])
          /\ Ordered([Now EXCEPT ![op.cur] = "Closed", ![next] = "PartialOpen"])
      BY <1>2, <2>2, <2>4, CloseAndAdvance DEF next
    <3>3. /\ Then'[next] = "Open"
          /\ [Then' EXCEPT ![next] = "PartialOpen"] =
               [Now EXCEPT ![op.cur] = "Closed", ![next] = "PartialOpen"]
      BY <1>2, <2>2, <2>4, <3>1
    <3>4. Planned'
      BY <2>1, <3>2, <3>3 DEF Planned, next
    <3>5. QED  BY <1>1, <1>2, <2>1, <3>1, <3>2, <3>4, PushStep
  <2>5. QED  BY <2>3, <2>4
<1>4. CASE PushAdvance
  <2>1. /\ op.pc = "advance" /\ Good(cache) /\ ret' = ret
        /\ PartialClosePage(cache, next) /\ op'.pc = "write" /\ op'.fn = op.fn
    BY <1>2, <1>4 DEF PushAdvance, At, OpType, RefreshedPCs
  <2>2. Now[next] = "Open" /\ Ordered([Now EXCEPT ![next] = "PartialOpen"])
    BY <1>2, <2>1 DEF OrderInv, Planned
  <2> HIDE DEF next
  <2>3. Now' = Now /\ io'.cmd # "erase_all" /\ Then' = [Now EXCEPT ![next] = "PartialOpen"]
    BY <1>1, <1>2, <2>1, <2>2, MarkerMarks
  <2>4. Planned'
    BY <2>1 DEF Planned
  <2>5. QED  BY <1>1, <1>2, <2>1, <2>2, <2>3, <2>4, PushStep
<1>5. CASE PushWrite \/ PushData
  <2>1. io'.cmd \in {"none", "header", "data"}
    BY <1>5 DEF PushWrite, PushData, WriteHeader, WriteData, NoIO, ItemIO
  <2>2. io' \in IOType
    BY <1>5, PushWriteInv
  <2>3. Now' = Now /\ Then' = Now
    BY <1>1, <2>1, <2>2, WordMarks
  <2>4. op'.pc \in {"data", "finish"} /\ op'.fn = op.fn /\ ret' = ret
    BY <1>5 DEF PushWrite, PushData, Goto, OpType
  <2>5. Planned'
    BY <2>4 DEF Planned
  <2>6. QED  BY <1>1, <1>2, <2>1, <2>3, <2>4, <2>5, PushStep
<1>6. CASE PushFinish
  BY <1>1, <1>2, <1>6, ReturnOrder, ResultName DEF PushFinish, Settled
<1>7. QED  BY <1>3, <1>4, <1>5, <1>6
\* What iter and next may rely on.
LEMMA IterFacts ==
  ASSUME IInv, CacheInv, OrderInv, io = NoIO, op.pc \notin {"idle", "erase_all"}
  PROVE  /\ ~Disturbed /\ Sane(Now) /\ Then = Now /\ Now \in [Pages -> PageState]
         /\ iter.page \in Pages /\ NextPage(iter.page) \in Pages
         /\ Good(Refresh(cache)) /\ Refresh(cache) \in CacheType
         /\ op.pc \in RefreshedPCs => Good(cache)
<1>1. iter.page \in Pages /\ NextPage(iter.page) \in Pages
  BY Around DEF IInv, TypeOK, IterType
<1>2. QED
  BY <1>1, Undisturbed, NowThenType, RefreshGood, DirtyType DEF IInv, TypeOK

\* iter begins at the oldest page.
LEMMA IterStartOrder ==
  ASSUME IInv, CacheInv, OrderInv, IterStart
  PROVE  OrderInv'
<1> USE DEF IInv, TypeOK
<1> DEFINE c == Refresh(cache)
           oldest == FindOldest(c, FindYoungest(c))
           known == LearnOldest(c, FindYoungest(c))
<1>1. io = NoIO /\ io' = io /\ flash' = flash /\ op.pc = "iter"
  BY DEF IterStart, At, Settled
<1>2. /\ op.pc \notin {"idle", "erase_all"} /\ ~Disturbed /\ Sane(Now)
      /\ Good(c) /\ Ordered(Now)
  BY <1>1, IterFacts DEF Sane
<1>3. oldest # CorruptedPage => Ordered([Now EXCEPT ![oldest] = "Open"])
  BY <1>2, FoundOldest
<1>4. IF oldest = CorruptedPage THEN HandleCorruption(known) /\ iter' = iter
      ELSE /\ iter'.page = oldest /\ iter'.prev = "AllPopped"
           /\ Return(Result("Ok"))
  BY DEF IterStart, NoIter
<1> HIDE DEF c, oldest, known
<1>5. CASE oldest = CorruptedPage
  BY <1>1, <1>2, <1>4, <1>5, CorruptionOrder
<1>6. CASE oldest # CorruptedPage
  <2>1. op'.pc = "idle" /\ op'.fn = "none" /\ ret'.fn = op.fn
    BY <1>4, <1>6, Returned, ResultName
  <2>2. ~Disturbed'
    BY <1>2, <2>1, Undisturbed
  <2>3. Now' = Now /\ Then' = Now /\ io'.cmd # "erase_all"
    BY <1>1, QuietMarks DEF NoIO
  <2>4. Sane(Now)' /\ Sane(Then)'
    BY <1>2, <1>3, <1>4, <1>6, <2>3 DEF Sane
  <2>5. Planned' /\ Exclusive'
    BY <2>1, <2>2, <2>3 DEF Planned, Exclusive
  <2>6. QED  BY <2>4, <2>5 DEF OrderInv
<1>7. QED  BY <1>5, <1>6

\* next erases the page it leaves, and only when the page may be erased.
LEMMA NextPageOrder ==
  ASSUME IInv, NextHasIter, CacheInv, OrderInv, NextStart \/ NextPageAfter \/ NextReopened
  PROVE  OrderInv'
<1> USE DEF IInv, TypeOK
<1>1. io = NoIO /\ flash' = flash /\ op.pc \in NextPCs /\ op.fn = "next" /\ iter.live
  BY DEF NextStart, NextPageAfter, NextReopened, At, Settled, CallShape, NextPCs, NextHasIter
<1>2. /\ op.pc \notin {"idle", "erase_all"} /\ ~Disturbed /\ Sane(Now) /\ Then = Now
      /\ Now \in [Pages -> PageState] /\ iter.page \in Pages /\ NextPage(iter.page) \in Pages
      /\ op.pc \in RefreshedPCs => Good(cache)
      /\ iter.prev \in {"AllPopped", "Unpopped"}
  <2>1. op.pc \notin {"idle", "erase_all"}
    BY <1>1 DEF NextPCs
  <2>2. iter.prev \in {"AllPopped", "Unpopped"}
    BY <1>1 DEF OrderInv, Exclusive, IterType, Previous
  <2>3. QED  BY <1>1, <2>1, <2>2, IterFacts
<1>3. CASE NextStart
  <2>1. op'.pc = "scan" /\ op'.fn = op.fn /\ ret' = ret /\ iter' = iter /\ io' = NoIO
    BY <1>1, <1>3 DEF NextStart, Goto, Settled, OpType
  <2>2. QED  BY <1>1, <1>2, <2>1, OrderKept DEF PlanPCs
<1>4. CASE NextPageAfter
  <2> DEFINE known == Learn(cache, {NextPage(iter.page)})
  <2>1. known \in CacheType /\ Good(known)
    BY <1>2, <1>4, LearnType, GoodOps DEF NextPageAfter, At, RefreshedPCs
  <2>2. /\ iter' = iter
        /\ \/ HandleCorruption(known) /\ io' = io
           \/ Return(Result("None")) /\ io' = io
           \/ /\ IF iter.prev = "AllPopped" THEN OpenPage(known, iter.page) ELSE io' = io
              /\ Goto("reopened") /\ ret' = ret
    BY <1>4 DEF NextPageAfter
  <2> HIDE DEF known
  <2>3. CASE HandleCorruption(known) /\ io' = io
    BY <1>1, <1>2, <2>2, <2>3, CorruptionOrder
  <2>4. CASE Return(Result("None")) /\ io' = io
    BY <1>1, <1>2, <2>2, <2>4, ReturnOrder, ResultName
  <2>5. CASE /\ IF iter.prev = "AllPopped" THEN OpenPage(known, iter.page) ELSE io' = io
             /\ Goto("reopened") /\ ret' = ret
    <3>1. op'.pc = "reopened" /\ op'.fn = op.fn
      BY <2>5 DEF Goto, OpType
    <3>2. /\ Now' = Now /\ io'.cmd # "erase_all" /\ Sane(Then')
          /\ iter.prev # "Unpopped" => Then'[iter.page] = "Open"
      <4>1. CASE iter.prev = "AllPopped"
        <5>1. Now' = Now /\ io'.cmd # "erase_all" /\ Then' = [Now EXCEPT ![iter.page] = "Open"]
          BY <1>1, <1>2, <2>1, <2>5, <4>1, MarkerMarks
        <5>2. Ordered(Then')
          BY <1>1, <1>2, <4>1, <5>1 DEF Sane
        <5>3. [Then' EXCEPT ![iter.page] = "Open"] = Then' /\ Then'[iter.page] = "Open"
          BY <1>2, <5>1
        <5>4. QED  BY <5>1, <5>2, <5>3 DEF Sane
      <4>2. CASE iter.prev = "Unpopped"
        <5>1. Now' = Now /\ Then' = Now /\ io'.cmd # "erase_all"
          BY <1>1, <2>5, <4>2, QuietMarks DEF NoIO
        <5>2. QED  BY <1>2, <4>2, <5>1
      <4>3. QED  BY <1>2, <4>1, <4>2
    <3>3. Planned'
      BY <2>2, <3>1, <3>2 DEF Planned
    <3>4. QED  BY <1>2, <2>2, <2>5, <3>1, <3>2, <3>3, OrderStep
  <2>6. QED  BY <2>2, <2>3, <2>4, <2>5
<1>5. CASE NextReopened
  <2>1. /\ op.pc = "reopened" /\ op'.pc = "scan" /\ op'.fn = op.fn /\ ret' = ret /\ io' = NoIO
        /\ iter'.page = NextPage(iter.page) /\ iter'.live = iter.live /\ iter'.prev = iter.prev
    BY <1>1, <1>5 DEF NextReopened, At, Goto, Settled, OpType, IterType
  <2>2. Now' = Now /\ Then' = Now /\ io'.cmd # "erase_all"
    BY <1>1, <2>1, QuietMarks DEF NoIO
  <2>3. iter.prev # "Unpopped" => Ordered([Now EXCEPT ![NextPage(iter.page)] = "Open"])
    <3>1. iter.prev # "Unpopped" => Now[iter.page] # "Closed"
      BY <1>2, <2>1 DEF OrderInv, Planned
    <3>2. QED  BY <1>2, <3>1, EraseFirst DEF Sane
  <2>4. Sane(Now)' /\ Sane(Then)'
    BY <1>2, <2>1, <2>2, <2>3 DEF Sane
  <2>5. ~Disturbed'
    BY <1>2, <2>1, Undisturbed
  <2>6. Planned' /\ Exclusive'
    BY <1>1, <1>2, <2>1, <2>2, <2>5 DEF Planned, Exclusive
  <2>7. QED  BY <2>4, <2>6 DEF OrderInv
<1>6. QED  BY <1>3, <1>4, <1>5

\* next looks at the items of a page: the pages do not change.
LEMMA NextItemOrder ==
  ASSUME IInv, CacheInv, OrderInv, NextItem
  PROVE  OrderInv'
<1> USE DEF IInv, TypeOK
<1>1. io = NoIO /\ io' = io /\ flash' = flash /\ op.pc = "scan"
  BY DEF NextItem, At, Settled
<1>2. op.pc \notin {"idle", "erase_all"} /\ ~Disturbed /\ Sane(Now)
  BY <1>1, IterFacts
<1>3. \A a \in Addrs: /\ MovedPast(a).prev = iter.prev /\ MovedPast(a).page = iter.page
                      /\ MovedPast(a).live = iter.live /\ MovedPast(a) \in IterType
  BY MovedPastType DEF MovedPast, IterType
<1>4. /\ iter'.page = iter.page /\ iter'.live = iter.live
      /\ iter'.prev = "Unpopped" <=> iter.prev = "Unpopped"
      /\ \/ op' = op /\ ret' = ret /\ iter'.prev = iter.prev
         \/ \E i: Return(ItemResult(i))
  BY <1>3 DEF NextItem, IterType
<1>5. /\ op'.fn \in {op.fn, "none"} /\ (ret' = ret \/ ret'.fn = op.fn)
      /\ op'.pc \notin PlanPCs
      /\ op'.fn = "next" => op.fn = "next" /\ iter'.prev = iter.prev
  <2>1. CASE op' = op /\ ret' = ret /\ iter'.prev = iter.prev
    BY <1>1, <2>1 DEF PlanPCs
  <2>2. CASE \E i: Return(ItemResult(i))
    <3>1. op'.pc = "idle" /\ op'.fn = "none" /\ ret'.fn = op.fn
      BY <2>2, Returned, ResultName
    <3>2. QED  BY <3>1 DEF PlanPCs
  <2>3. QED  BY <1>4, <2>1, <2>2
<1>6. ~Disturbed'
  BY <1>2, <1>5, Undisturbed
<1>7. Now' = Now /\ Then' = Now /\ io'.cmd # "erase_all"
  BY <1>1, QuietMarks DEF NoIO
<1>8. Sane(Now)' /\ Sane(Then)'
  BY <1>2, <1>4, <1>7 DEF Sane
<1>9. Planned'
  BY <1>5 DEF Planned, PlanPCs
<1>10. Exclusive'
  <2>1. op'.fn = "push" => ~iter'.live
    BY <1>4, <1>5 DEF OrderInv, Exclusive
  <2>2. op'.fn = "next" => iter'.prev # "AllButCurrentPopped"
    BY <1>5 DEF OrderInv, Exclusive
  <2>3. op'.fn # "erase_all" /\ op'.pc # "erase_all"
    BY <1>5, <1>6 DEF Disturbed, PlanPCs
  <2>4. QED  BY <1>6, <1>7, <2>1, <2>2, <2>3 DEF Exclusive
<1>11. QED  BY <1>8, <1>9, <1>10, SMTT(30) DEF OrderInv

\* The calls that end by returning something: pop, find_max_fit and space_left.
LEMMA FinishOrder ==
  ASSUME IInv, CacheInv, OrderInv, PopFinish \/ FindMaxFit \/ SpaceLeft
  PROVE  OrderInv'
<1>1. /\ io = NoIO /\ io' = NoIO /\ flash' = flash /\ iter' = iter
      /\ op.pc \notin {"idle", "erase_all"}
  BY DEF PopFinish, FindMaxFit, SpaceLeft, At, Settled
<1>2. \/ \E c: HandleCorruption(c)
      \/ \E s: Return(Result(s))
      \/ \E n: Return(NumResult(n))
      \/ \E i: Return(ItemResult(i))
  BY DEF PopFinish, FindMaxFit, SpaceLeft
<1>3. QED  BY <1>1, <1>2, CorruptionOrder, ReturnOrder, ResultName

\* erase_all puts the pages in order.
LEMMA EraseAllOrder ==
  ASSUME IInv, OrderInv, EraseAllFinish
  PROVE  OrderInv'
<1>1. /\ io = NoIO /\ io' = io /\ flash' = flash /\ iter' = iter /\ op.pc = "erase_all"
      /\ op' = Idle /\ ret' = Result("Ok")
  BY DEF EraseAllFinish, At, Settled, Return
<1>2. Then = Now /\ Now' = Now /\ Then' = Now /\ Now \in [Pages -> PageState]
  BY <1>1, QuietMarks, NowThenType DEF IInv, TypeOK
<1>3. Ordered(Now)
  BY <1>1, <1>2, UseFirst DEF OrderInv, Planned
<1>4. op.fn = "erase_all" /\ ~iter.live
  BY <1>1 DEF OrderInv, Exclusive, Disturbed
<1>5. Sane(Now)' /\ Sane(Then)'
  BY <1>1, <1>2, <1>3, <1>4 DEF Sane
<1>6. op'.pc = "idle" /\ op'.fn = "none" /\ ~Disturbed'
  BY <1>1, SmallTypes DEF Disturbed, Usable, Result
<1>7. io'.cmd # "erase_all"
  BY <1>1 DEF NoIO
<1>8. Planned' /\ Exclusive'
  BY <1>6, <1>7 DEF Planned, Exclusive
<1>9. QED  BY <1>5, <1>8 DEF OrderInv

-----------------------------------------------------------------------------
\* The invariant holds initially: every page is open,
LEMMA InitOrder == Init => OrderInv
<1> SUFFICES ASSUME Init PROVE OrderInv
  OBVIOUS
<1>1. op.pc = "idle" /\ op.fn = "none" /\ ~iter.live /\ io = NoIO /\ io.cmd = "none"
  BY SmallTypes DEF Init, GenericInit, NoIO
<1>2. flash \in [Pages -> Page] /\ \A p \in Pages: MarkedState(flash[p]) = "Open"
  BY BlankType DEF Init, GenericInit, MarkedState, ErasedPage
<1>3. Now \in [Pages -> PageState] /\ Then = Now /\ \A p \in Pages: Now[p] = "Open"
  BY <1>1, <1>2, MarksType, NoIOCompleted DEF Now, Then, Marks
<1>4. Sane(Now) /\ Sane(Then)
  BY <1>1, <1>3, UseFirst DEF Sane
<1>5. ~Disturbed
  BY <1>1 DEF Init, NoRet, Disturbed, Usable
<1>6. Exclusive /\ Planned
  BY <1>1, <1>5 DEF Exclusive, Planned
<1>7. QED  BY <1>4, <1>6 DEF OrderInv

\* and every step preserves it.
LEMMA StepOrder == IInv /\ NextHasIter /\ CacheInv /\ OrderInv /\ [Next]_vars => OrderInv'
<1> SUFFICES ASSUME IInv, NextHasIter, CacheInv, OrderInv, [Next]_vars PROVE OrderInv'
  OBVIOUS
<1>1. CASE UNCHANGED vars
  <2>1. Now' = Now /\ Then' = Then /\ Disturbed' = Disturbed
    BY <1>1 DEF vars, Now, Then, Marks, Completed, Disturbed, Usable
  <2>2. Exclusive' /\ Planned' /\ (~Disturbed' => Sane(Now)' /\ Sane(Then)')
    BY <1>1, <2>1 DEF vars, OrderInv, Exclusive, Planned, Sane
  <2>3. QED  BY <2>2 DEF OrderInv
<1>2. CASE Call
  BY <1>2, CallsOrder
<1>3. CASE Fail \/ PowerLoss
  BY <1>3, FaultOrder
<1>4. CASE Step
  BY <1>4, FlashDoneOrder, RepairOrder, PushSearchOrder, PushNextOrder, PushWriteOrder,
     IterStartOrder, NextPageOrder, NextItemOrder, FinishOrder, EraseAllOrder DEF Step
<1>5. QED  BY <1>1, <1>2, <1>3, <1>4 DEF Next

\* The pages are in order for any number of pages, any items, and any sequence of calls,
\* failures and power losses, from the start of an erase_all to its success excepted; the
\* cache must be right, so erase_all, which does not tell it, is not used with one.
THEOREM PageOrderCorrect ==
  ASSUME CacheKind = "none" \/ "erase_all" \notin UserCalls
  PROVE  Spec => []PageOrder
<1>1. Init => CacheInv /\ OrderInv
  BY InitCache, InitOrder
<1>2. /\ IInv /\ NextHasIter /\ CacheInv /\ OrderInv /\ [Next]_vars
      => CacheInv' /\ OrderInv'
  BY StepCache, StepOrder
<1>3. OrderInv => PageOrder
  BY OrderedIsPageOrder DEF OrderInv, Disturbed, Sane, Now, PageOrder
<1>4. QED  BY <1>1, <1>2, <1>3, Invariance, PTL DEF Spec

-----------------------------------------------------------------------------
(* One repair is enough *)

\* After a repair no page is corrupted, as far as the repair has come.
Repaired ==
  /\ op.pc = "repair" => op.retried
  /\ op.retried => \A p \in Pages: (op.pc = "repair" => p < op.cur) => Then[p] # "Corrupted"

\* No call has had to be repaired twice.
Healed == Repaired /\ AlwaysRepaired

\* A step that corrupts no page, or ends the call.
LEMMA HealedKept ==
  ASSUME Healed, op'.pc # "repair", ret' = ret \/ ret'.status # "Corrupted",
         \/ ~op'.retried
         \/ /\ op.pc # "repair" /\ op'.retried = op.retried
            /\ \A p \in Pages: Then[p] # "Corrupted" => Then'[p] # "Corrupted"
  PROVE  Healed'
BY DEF Healed, Repaired, AlwaysRepaired

\* The first Corrupted error is repaired.
LEMMA HealedCorruption ==
  ASSUME IInv, Healed, ~op.retried, NEW c, HandleCorruption(c)
  PROVE  Healed'
<1>1. op'.pc = "repair" /\ op'.cur = 0 /\ op'.retried /\ ret' = ret
  BY DEF HandleCorruption, IInv, TypeOK, OpType
<1>2. \A p \in Pages: ~(p < 0)
  BY PageCountAssumption DEF Pages
<1>3. QED  BY <1>1, <1>2 DEF Healed, Repaired, AlwaysRepaired

\* A call that returns something else than the Corrupted error.
LEMMA HealedReturn ==
  ASSUME Healed, NEW r, Return(r), r.status # "Corrupted"
  PROVE  Healed'
<1>1. op'.pc = "idle" /\ ~op'.retried /\ ret'.status # "Corrupted"
  BY DEF Return, Idle
<1>2. QED  BY <1>1, HealedKept

LEMMA ResultStatus ==
  /\ \A s: Result(s).status = s
  /\ \A i: ItemResult(i).status = "Ok"
  /\ \A n: NumResult(n).status = "Ok"
BY DEF Result, ItemResult, NumResult

\* On its second attempt a call finds no corrupted page.
LEMMA Clean ==
  ASSUME IInv, Healed, op.retried, op.pc # "repair", io = NoIO
  PROVE  \A p \in Pages: Now[p] # "Corrupted"
BY NowThenType DEF Healed, Repaired, IInv, TypeOK

\* Opening and closing a page corrupts none.
LEMMA MarkerClean ==
  ASSUME IInv, io = NoIO, flash' = flash, NEW c \in CacheType, Good(c), NEW p \in Pages,
         OpenPage(c, p) \/ PartialClosePage(c, p) \/ ClosePage(c, p)
  PROVE  \A q \in Pages: Then[q] # "Corrupted" => Then'[q] # "Corrupted"
<1>1. /\ Then = Now /\ Now \in [Pages -> PageState]
      /\ \/ Then' = Now
         \/ \E s \in {"Open", "PartialOpen", "Closed"}: Then' = [Now EXCEPT ![p] = s]
  BY MarkerMarks, NowThenType DEF IInv, TypeOK
<1>2. QED  BY <1>1

\* try_general_repair leaves no corrupted page behind it.
LEMMA RepairHealed ==
  ASSUME IInv, CacheInv, OrderInv, Healed, RepairPage \/ RepairDone
  PROVE  Healed'
<1> USE DEF IInv, TypeOK
<1>1. /\ op.pc = "repair" /\ op.retried /\ io = NoIO /\ flash' = flash /\ ret' = ret
      /\ \A p \in Pages: p < op.cur => Now[p] # "Corrupted"
  BY NowThenType DEF RepairPage, RepairDone, At, Settled, Healed, Repaired
<1>2. Good(cache) /\ \A S: Good(Learn(cache, S)) /\ Learn(cache, S) \in CacheType
  BY <1>1, RefreshGood, GoodOps, LearnType DEF RefreshedPCs
<1>3. \A p \in Pages: StateOf(cache, p) = Now[p]
  BY <1>2, StateIsMark DEF Now, Marks
<1>4. CASE RepairPage
  <2> DEFINE torn == {p \in Pages: p >= op.cur /\ StateOf(cache, p) = "Corrupted"}
             q == Min(torn)
  <2>1. torn \in SUBSET Nat /\ torn # {}
    BY <1>4, PageCountAssumption DEF RepairPage, Pages
  <2>2. q \in torn /\ \A p \in torn: q <= p
    BY <2>1, MinInSet
  <2>3. q \in Pages /\ \A p \in Pages: p < q => Now[p] # "Corrupted"
    <3>1. ASSUME NEW p \in Pages, p < q, ~(p < op.cur) PROVE Now[p] # "Corrupted"
      <4>1. p \in Int /\ q \in Int /\ op.cur \in Int
        BY <2>2 DEF Pages, OpType
      <4>2. p >= op.cur /\ ~(q <= p)
        BY <3>1, <4>1
      <4>3. QED  BY <1>3, <2>2, <4>2
    <3>2. QED  BY <1>1, <2>2, <3>1
  <2>4. /\ OpenPage(Learn(cache, op.cur .. q), q)
        /\ op'.pc = "repair" /\ op'.cur = q /\ op'.retried = op.retried
    BY <1>1, <1>4 DEF RepairPage, OpType
  <2> HIDE DEF q, torn
  <2>5. \A p \in Pages: Then[p] # "Corrupted" => Then'[p] # "Corrupted"
    BY <1>1, <1>2, <2>3, <2>4, MarkerClean
  <2>6. Then = Now
    BY <1>1, NowThenType
  <2>7. QED  BY <1>1, <2>3, <2>4, <2>5, <2>6 DEF Healed, Repaired, AlwaysRepaired
<1>5. CASE RepairDone
  <2>1. /\ op'.pc = op.fn /\ op'.retried = op.retried /\ io' = NoIO
        /\ \A p \in op.cur .. PageCount - 1: StateOf(cache, p) # "Corrupted"
    BY <1>1, <1>5 DEF RepairDone, Settled, OpType
  <2>2. \A p \in Pages: Now[p] # "Corrupted"
    <3>1. ASSUME NEW p \in Pages, ~(p < op.cur) PROVE p \in op.cur .. PageCount - 1
      BY <3>1, PageCountAssumption DEF Pages, OpType
    <3>2. QED  BY <1>1, <1>3, <2>1, <3>1
  <2>3. Then' = Now
    BY <1>1, <2>1, QuietMarks
  <2>4. op.fn # "repair"
    BY DEF OpType, Functions
  <2>5. QED  BY <1>1, <2>1, <2>2, <2>3, <2>4 DEF Healed, Repaired, AlwaysRepaired
<1>6. QED  BY <1>4, <1>5

\* push finds a page to write on, and its pages are in order.
LEMMA PushHealed ==
  ASSUME IInv, CacheInv, OrderInv, Healed,
         \/ PushTooBig \/ PushStart \/ PushHere \/ PushNext \/ PushOpened
         \/ PushAdvance \/ PushWrite \/ PushData \/ PushFinish
  PROVE  Healed'
<1> USE DEF IInv, TypeOK
<1> DEFINE next == NextPage(op.cur)
<1>1. /\ io = NoIO /\ flash' = flash /\ op.fn = "push" /\ op.pc \in PushPCs
  BY DEF PushTooBig, PushStart, PushHere, PushNext, PushOpened, PushAdvance, PushWrite,
         PushData, PushFinish, At, Settled, CallShape, PushPCs
<1>2. op.pc # "idle" /\ op.pc # "repair"
  BY <1>1 DEF PushPCs
<1>3. /\ Ordered(Now) /\ Then = Now /\ Now \in [Pages -> PageState]
      /\ op.cur \in Pages /\ next \in Pages
      /\ Good(Refresh(cache)) /\ Refresh(cache) \in CacheType
      /\ op.pc \in RefreshedPCs => Good(cache)
  BY <1>1, <1>2, PushFacts
<1>4. op.retried => \A p \in Pages: Now[p] # "Corrupted"
  BY <1>1, <1>2, Clean
<1>5. ASSUME NEW c \in CacheType, Good(c), NEW p \in Pages,
             OpenPage(c, p) \/ PartialClosePage(c, p) \/ ClosePage(c, p),
             op'.pc # "repair", op'.retried = op.retried, ret' = ret
      PROVE  Healed'
  BY <1>1, <1>2, <1>5, MarkerClean, HealedKept
<1>6. ASSUME Then' = Now, op'.pc # "repair", op'.retried = op.retried, ret' = ret
      PROVE  Healed'
  BY <1>2, <1>3, <1>6, HealedKept
<1>7. CASE PushTooBig \/ PushFinish
  BY <1>7, HealedReturn, ResultStatus DEF PushTooBig, PushFinish
<1>8. CASE PushStart
  <2> DEFINE y == FindYoungest(Refresh(cache))
             known == LearnYoungest(Refresh(cache))
  <2>1. known \in CacheType /\ Good(known)
    BY <1>3, YoungestCacheType, GoodOps DEF LearnYoungest
  <2>2. IF y = CorruptedPage THEN HandleCorruption(known)
        ELSE /\ PartialClosePage(known, y)
             /\ op' = [op EXCEPT !.pc = "place", !.cur = y]
             /\ ret' = ret
    BY <1>8 DEF PushStart
  <2>3. /\ y = CorruptedPage => \E p \in Pages: Now[p] = "Corrupted"
        /\ y # CorruptedPage => y \in Pages
    BY <1>3, FoundYoungest
  <2> HIDE DEF y, known
  <2>4. CASE y = CorruptedPage
    BY <1>4, <2>2, <2>3, <2>4, HealedCorruption
  <2>5. CASE y # CorruptedPage
    <3>1. op'.pc = "place" /\ op'.retried = op.retried /\ ret' = ret
      BY <2>2, <2>5 DEF OpType
    <3>2. QED  BY <1>5, <2>1, <2>2, <2>3, <2>5, <3>1
  <2>6. QED  BY <2>4, <2>5
<1>9. CASE PushHere
  <2>1. op'.pc = "write" /\ op'.retried = op.retried /\ ret' = ret /\ io' = NoIO
    BY <1>1, <1>9 DEF PushHere, Settled, OpType
  <2>2. QED  BY <1>1, <1>6, <2>1, QuietMarks
<1>10. CASE PushNext
  <2> DEFINE known == Learn(cache, {next})
  <2>1. Good(cache) /\ op.pc = "place"
    BY <1>3, <1>10 DEF PushNext, At, RefreshedPCs
  <2>2. known \in CacheType /\ Good(known)
    BY <2>1, LearnType, GoodOps
  <2>3. StateOf(cache, next) = Now[next] /\ Now[op.cur] = "PartialOpen"
    <3>1. StateOf(cache, next) = Now[next]
      BY <1>3, <2>1, StateIsMark DEF Now, Marks
    <3>2. QED  BY <1>3, <2>1, <3>1 DEF OrderInv, Planned
  <2>4. \/ /\ Now[next] = "Corrupted" \/ (Now[next] = "PartialOpen" /\ next # op.cur)
           /\ HandleCorruption(known)
        \/ ClosePage(known, op.cur) /\ Goto("advance") /\ ret' = ret
        \/ Return(Result("FullStorage"))
        \/ OpenPage(known, next) /\ Goto("opened") /\ ret' = ret
    BY <1>10, <2>3 DEF PushNext
  <2> HIDE DEF known, next
  <2>5. CASE /\ Now[next] = "Corrupted" \/ (Now[next] = "PartialOpen" /\ next # op.cur)
             /\ HandleCorruption(known)
    <3>1. Now[next] = "Corrupted"
      BY <1>3, <2>3, <2>5, OnePartial
    <3>2. QED  BY <1>3, <1>4, <2>5, <3>1, HealedCorruption
  <2>6. CASE Return(Result("FullStorage"))
    BY <2>6, HealedReturn, ResultStatus
  <2>7. CASE /\ \/ ClosePage(known, op.cur) /\ Goto("advance")
                \/ OpenPage(known, next) /\ Goto("opened")
             /\ ret' = ret
    <3>1. op'.pc # "repair" /\ op'.retried = op.retried
      BY <2>7 DEF Goto, OpType
    <3>2. QED  BY <1>3, <1>5, <2>2, <2>7, <3>1
  <2>8. QED  BY <2>4, <2>5, <2>6, <2>7
<1>11. CASE PushOpened
  <2>1. Good(cache) /\ op'.pc = "advance" /\ op'.retried = op.retried /\ ret' = ret
    BY <1>3, <1>11 DEF PushOpened, At, Goto, OpType, RefreshedPCs
  <2>2. ClosePage(cache, op.cur) \/ io' = NoIO
    BY <1>1, <1>11 DEF PushOpened
  <2>3. QED  BY <1>1, <1>3, <1>5, <1>6, <2>1, <2>2, QuietMarks
<1>12. CASE PushAdvance
  <2>1. /\ Good(cache) /\ op'.pc = "write" /\ op'.retried = op.retried /\ ret' = ret
        /\ PartialClosePage(cache, next)
    BY <1>3, <1>12 DEF PushAdvance, At, OpType, RefreshedPCs
  <2>2. QED  BY <1>3, <1>5, <2>1
<1>13. CASE PushWrite \/ PushData
  <2>1. io'.cmd \in {"none", "header", "data"}
    BY <1>13 DEF PushWrite, PushData, WriteHeader, WriteData, NoIO, ItemIO
  <2>2. io' \in IOType
    BY <1>13, PushWriteInv
  <2>3. Then' = Now
    BY <1>1, <2>1, <2>2, WordMarks
  <2>4. op'.pc # "repair" /\ op'.retried = op.retried /\ ret' = ret
    BY <1>13 DEF PushWrite, PushData, Goto, OpType
  <2>5. QED  BY <1>6, <2>3, <2>4
<1>14. QED  BY <1>7, <1>8, <1>9, <1>10, <1>11, <1>12, <1>13

\* The iterator meets no corrupted page, nor do the calls that measure the queue.
LEMMA ReadHealed ==
  ASSUME IInv, CacheInv, OrderInv, Healed, PageCount >= 2,
         \/ IterStart \/ NextStart \/ NextPageAfter \/ NextReopened \/ NextItem \/ PopFinish
         \/ FindMaxFit \/ SpaceLeft \/ EraseAllFinish
  PROVE  Healed'
<1> USE DEF IInv, TypeOK
<1>1. /\ io = NoIO /\ flash' = flash /\ op.pc # "repair" /\ op.pc # "idle"
  BY DEF IterStart, NextStart, NextPageAfter, NextReopened, NextItem, PopFinish, FindMaxFit,
         SpaceLeft, EraseAllFinish, At, Settled
<1>2. op.retried => \A p \in Pages: Now[p] # "Corrupted"
  BY <1>1, Clean
<1>3. op.pc # "erase_all" =>
        /\ Ordered(Now) /\ Then = Now /\ Now \in [Pages -> PageState]
        /\ iter.page \in Pages /\ NextPage(iter.page) \in Pages
        /\ Good(Refresh(cache)) /\ Refresh(cache) \in CacheType
        /\ op.pc \in RefreshedPCs => Good(cache)
  BY <1>1, IterFacts DEF Sane
<1>4. ASSUME io' = NoIO, op'.pc # "repair", op'.retried = op.retried, ret' = ret
      PROVE  Healed'
  BY <1>1, <1>4, QuietMarks, HealedKept
<1>5. CASE PopFinish \/ EraseAllFinish
  BY <1>5, HealedReturn, ResultStatus DEF PopFinish, EraseAllFinish
<1>6. CASE IterStart
  <2> DEFINE oldest == FindOldest(Refresh(cache), FindYoungest(Refresh(cache)))
             known == LearnOldest(Refresh(cache), FindYoungest(Refresh(cache)))
  <2>1. oldest = CorruptedPage => \E p \in Pages: Now[p] = "Corrupted"
    BY <1>3, <1>6, FoundOldest DEF IterStart, At
  <2>2. IF oldest = CorruptedPage THEN HandleCorruption(known) ELSE Return(Result("Ok"))
    BY <1>6 DEF IterStart
  <2> HIDE DEF oldest, known
  <2>3. QED  BY <1>2, <2>1, <2>2, HealedCorruption, HealedReturn, ResultStatus
<1>7. CASE NextStart \/ NextReopened
  <2>1. io' = NoIO /\ op'.pc = "scan" /\ op'.retried = op.retried /\ ret' = ret
    BY <1>1, <1>7 DEF NextStart, NextReopened, Goto, Settled, OpType
  <2>2. QED  BY <1>4, <2>1
<1>8. CASE NextPageAfter
  <2> DEFINE next == NextPage(iter.page)
             known == Learn(cache, {next})
  <2>1. Good(cache) /\ op.pc # "erase_all"
    BY <1>3, <1>8 DEF NextPageAfter, At, RefreshedPCs
  <2>2. StateOf(cache, next) = Now[next] /\ known \in CacheType /\ Good(known)
    BY <1>3, <2>1, StateIsMark, LearnType, GoodOps DEF Now, Marks
  <2>3. \/ Now[next] = "Corrupted" /\ HandleCorruption(known)
        \/ Return(Result("None"))
        \/ /\ OpenPage(known, iter.page) \/ io' = io
           /\ Goto("reopened") /\ ret' = ret
    BY <1>8, <2>2 DEF NextPageAfter
  <2>4. CASE Now[next] = "Corrupted" /\ HandleCorruption(known)
    BY <1>2, <1>3, <2>1, <2>4, HealedCorruption
  <2>5. CASE Return(Result("None"))
    BY <2>5, HealedReturn, ResultStatus
  <2> HIDE DEF known, next
  <2>6. CASE /\ OpenPage(known, iter.page) \/ io' = io
             /\ Goto("reopened") /\ ret' = ret
    <3>1. op'.pc # "repair" /\ op'.retried = op.retried
      BY <2>6 DEF Goto, OpType
    <3>2. OpenPage(known, iter.page) => Healed'
      BY <1>1, <1>3, <2>1, <2>2, <2>6, <3>1, MarkerClean, HealedKept
    <3>3. QED  BY <1>1, <1>4, <2>6, <3>1, <3>2
  <2>7. QED  BY <2>3, <2>4, <2>5, <2>6
<1>9. CASE NextItem
  <2>1. io' = NoIO /\ ((op' = op /\ ret' = ret) \/ \E i: Return(ItemResult(i)))
    BY <1>1, <1>9 DEF NextItem, Settled
  <2>2. QED  BY <1>1, <1>4, <2>1, HealedReturn, ResultStatus, SMTT(30)
<1>10. CASE SpaceLeft
  <2> DEFINE torn == {p \in Pages: StateOf(Refresh(cache), p) = "Corrupted"}
  <2>1. \A p \in torn: Now[p] = "Corrupted"
    BY <1>3, <1>10, StateIsMark DEF Now, Marks, SpaceLeft, At
  <2>2. \/ torn # {} /\ \E c: HandleCorruption(c)
        \/ \E n: Return(NumResult(n))
    BY <1>10 DEF SpaceLeft
  <2>3. QED  BY <1>2, <2>1, <2>2, HealedCorruption, HealedReturn, ResultStatus
<1>11. CASE FindMaxFit
  <2> DEFINE y == FindYoungest(Refresh(cache))
             next == NextPage(y)
             state == StateOf(Refresh(cache), next)
  <2>1. op.pc = "find_max_fit"
    BY <1>11 DEF FindMaxFit, At
  <2>2. /\ y = CorruptedPage => \E p \in Pages: Now[p] = "Corrupted"
        /\ y # CorruptedPage => /\ y \in Pages
                                /\ Now[y] = "PartialOpen" \/ \A p \in Pages: Now[p] # "PartialOpen"
    BY <1>3, <2>1, FoundYoungest
  <2>3. y # CorruptedPage => next \in Pages /\ state = Now[next] /\ next # y
    <3>1. y # CorruptedPage => next \in Pages
      BY <2>2, Around
    <3>2. y # CorruptedPage => state = Now[next]
      BY <1>3, <2>1, <3>1, StateIsMark DEF Now, Marks
    <3>3. 1 \in Pages
      BY PageCountAssumption DEF Pages
    <3>4. y # CorruptedPage => next # y
      BY <2>2, <3>3, OnlyPage
    <3>5. QED  BY <3>1, <3>2, <3>4
  <2>4. \/ /\ y = CorruptedPage \/ state \in {"Corrupted", "PartialOpen"}
           /\ \E c: HandleCorruption(c)
        \/ (\E n: Return(NumResult(n))) \/ Return(Result("None"))
    BY <1>11 DEF FindMaxFit
  <2> HIDE DEF y, next, state
  <2>5. y # CorruptedPage => state # "PartialOpen"
    BY <1>3, <2>1, <2>2, <2>3, OnePartial
  <2>6. QED  BY <1>2, <2>2, <2>3, <2>4, <2>5, HealedCorruption, HealedReturn, ResultStatus
<1>12. QED  BY <1>5, <1>6, <1>7, <1>8, <1>9, <1>10, <1>11, SMTT(30)

\* Every step preserves it.
LEMMA StepHealed ==
  ASSUME PageCount >= 2
  PROVE  IInv /\ CacheInv /\ OrderInv /\ Healed /\ [Next]_vars => Healed'
<1> SUFFICES ASSUME IInv, CacheInv, OrderInv, Healed, [Next]_vars PROVE Healed'
  OBVIOUS
<1>1. CASE UNCHANGED vars
  <2>1. Then' = Then
    BY <1>1 DEF vars, Then, Marks, Completed
  <2>2. QED  BY <1>1, <2>1 DEF vars, Healed, Repaired, AlwaysRepaired
<1>2. CASE Call
  <2>1. /\ op'.pc # "repair" /\ ~op'.retried
        /\ ret' = ret \/ ret' = NoRet
    <3>1. CASE \E i \in Items, allow \in BOOLEAN: CallPush(i, allow)
      BY <3>1 DEF CallPush, Idle
    <3>2. CASE CallIter \/ CallNext \/ CallFindMaxFit \/ CallSpaceLeft
      <4>1. PICK fn \in Functions: Start(fn)
        BY <3>2 DEF CallIter, CallNext, CallFindMaxFit, CallSpaceLeft, Functions
      <4>2. QED  BY <4>1 DEF Start, Idle, Functions
    <3>3. CASE CallPop \/ CallEraseAll
      BY <3>3 DEF CallPop, CallEraseAll, Idle
    <3>4. CASE DropIter
      BY <3>4 DEF DropIter, gvars, Idle
    <3>5. QED  BY <1>2, <3>1, <3>2, <3>3, <3>4 DEF Call
  <2>2. NoRet.status # "Corrupted"
    BY DEF NoRet
  <2>3. QED  BY <2>1, <2>2, HealedKept
<1>3. CASE Fail \/ PowerLoss
  <2>1. op'.pc = "idle" /\ ~op'.retried /\ ret'.status \in {"Storage", "PowerLoss"}
    BY <1>3 DEF Fail, PowerLoss, Return, Idle, Result
  <2>2. QED  BY <2>1, HealedKept
<1>4. CASE FlashDone /\ UNCHANGED qvars
  <2>1. io' = NoIO /\ flash' = Completed(io) /\ UNCHANGED <<op, ret>>
    BY <1>4 DEF FlashDone, qvars
  <2>2. flash' \in [Pages -> Page]
    BY <2>1, FlashType DEF IInv, TypeOK
  <2>3. Completed(io)' = Completed(io)
    BY <2>1, <2>2, NoIOCompleted
  <2>4. Then' = Then
    BY <2>3 DEF Then, Marks
  <2>5. QED  BY <2>1, <2>4 DEF Healed, Repaired, AlwaysRepaired
<1>5. CASE Step
  BY <1>4, <1>5, RepairHealed, PushHealed, ReadHealed DEF Step
<1>6. QED  BY <1>1, <1>2, <1>3, <1>5 DEF Next

\* With two pages or more no call returns the Corrupted error, whatever failed or was cut
\* short before: the repair that its first attempt leads to is enough for the second.
THEOREM RepairIsEnough ==
  ASSUME PageCount >= 2, CacheKind = "none" \/ "erase_all" \notin UserCalls
  PROVE  Spec => []AlwaysRepaired
<1>1. Init => CacheInv /\ OrderInv /\ Healed
  <2>1. Init => Healed
    BY DEF Init, Idle, NoRet, Healed, Repaired, AlwaysRepaired
  <2>2. QED  BY <2>1, InitCache, InitOrder
<1>2. /\ IInv /\ NextHasIter /\ CacheInv /\ OrderInv /\ Healed /\ [Next]_vars
      => CacheInv' /\ OrderInv' /\ Healed'
  BY StepCache, StepOrder, StepHealed
<1>3. Healed => AlwaysRepaired
  BY DEF Healed
<1>4. QED  BY <1>1, <1>2, <1>3, Invariance, PTL DEF Spec

-----------------------------------------------------------------------------
(***************************************************************************)
(* Flash words are written when they are erased (WritesErasedWords), and    *)
(* page pointers are those a scan finds (CachedPointers).                   *)
(*                                                                         *)
(* Neither is inductive alone.  That a word is erased when it is written    *)
(* follows from where the item goes: behind the last item of the page, with *)
(* nothing written behind it (FitFor, TidyFlash, Located).  Where that is   *)
(* comes from a pointer, so the pointers must be right (PointersKnown); and *)
(* a page that is partially open must not be erased by the iterator, since  *)
(* an interrupted erase would leave a page that looks open and is not blank. *)
(* The iterator erases no such page as the page behind it, if it is closed, *)
(* is the one the iterator started from (OldestKnown).                      *)
(***************************************************************************)

\* What a running push knows of the page it writes to, and where on it.
Located ==
  /\ op.pc = "write" => /\ MarkedState(Completed(io)[op.cur]) = "PartialOpen"
                        /\ op.addr = EndOfItems(Completed(io)[op.cur].words, 0)
  /\ op.pc = "data" => /\ DataReady(Completed(io)[op.cur].words, op.addr, op.item)
                       /\ CacheKind = "none" \/ cache.dirty

\* The pointers of a cache that is relied on are right about flash as the pending
\* operation will leave it, and the cache is dirty while one is pending.
PointersKnown ==
  /\ Trusted => \A p \in Pages: Pointed(cache, p, Completed(io)[p].words)
  /\ Bare(cache)
  /\ io.cmd # "none" => CacheKind = "none" \/ cache.dirty

\* The closed page that follows the partially open one is the oldest.
OldestKnown(st) ==
  iter.live => \A q \in Pages:
    st[q] = "PartialOpen" /\ st[NextPage(q)] = "Closed" => NextPage(q) = iter.oldest

TidyFlash ==
  /\ ~Disturbed => \A p \in Pages: Tidy(flash[p])
  /\ op.pc = "erase_all" => Completed(io) = [p \in Pages |-> ErasedPage]

WordsInv ==
  /\ FitFor(flash[io.page], io) /\ TidyFlash /\ Located
  /\ PointersKnown /\ OldestKnown(Now) /\ OldestKnown(Then)

\* A step before and after which no flash operation is pending.
LEMMA WordsKept ==
  ASSUME IInv, WordsInv, io = NoIO, io' = NoIO, flash' = flash, ~Disturbed \/ Disturbed',
         op'.pc # "data", op'.pc = "erase_all" => op.pc = "erase_all",
         op'.pc = "write" => /\ MarkedState(flash[op'.cur]) = "PartialOpen"
                             /\ op'.addr = EndOfItems(flash[op'.cur].words, 0),
         iter'.live => iter.live /\ iter'.oldest = iter.oldest,
         Bare(cache'), Trusted' => \A p \in Pages: Pointed(cache', p, flash[p].words)
  PROVE  WordsInv'
<1> USE DEF IInv, TypeOK
<1>1. Completed(io)' = flash /\ Completed(io) = flash
  BY NoIOCompleted
<1>2. Now' = Now /\ Then' = Now /\ Then = Now
  BY QuietMarks
<1>3. FitFor(flash[io.page], io)' /\ io'.cmd = "none"
  BY DEF FitFor, NoIO
<1>4. TidyFlash'
  BY <1>1 DEF WordsInv, TidyFlash
<1>5. Located'
  BY <1>1 DEF Located
<1>6. PointersKnown'
  BY <1>1, <1>3 DEF PointersKnown
<1>7. OldestKnown(Now)' /\ OldestKnown(Then)'
  BY <1>2 DEF WordsInv, OldestKnown
<1>8. QED  BY <1>3, <1>4, <1>5, <1>6, <1>7 DEF WordsInv

\* What a call may rely on once it has refreshed its cache.
LEMMA WordsFacts ==
  ASSUME IInv, CacheInv, WordsInv, io = NoIO
  PROVE  /\ Completed(io) = flash /\ Bare(cache) /\ Bare(Refresh(cache))
         /\ \A p \in Pages: Pointed(Refresh(cache), p, flash[p].words)
         /\ op.pc \in RefreshedPCs \/ HasEntry => \A p \in Pages: Pointed(cache, p, flash[p].words)
<1> USE DEF IInv, TypeOK
<1>1. Completed(io) = flash
  BY NoIOCompleted
<1>2. Trusted => \A p \in Pages: Pointed(cache, p, flash[p].words)
  BY <1>1 DEF WordsInv, PointersKnown
<1>3. Bare(cache) /\ Bare(Refresh(cache))
  BY Forgotten, ForgetOps DEF WordsInv, PointersKnown
<1>4. \A p \in Pages: Pointed(Refresh(cache), p, flash[p].words)
  <2>1. CASE cache.dirty
    <3>1. \A p \in Pages: FreshCache.written[p] = NoAddr /\ FreshCache.erased[p] = NoAddr
      BY DEF FreshCache
    <3>2. QED  BY <2>1, <3>1 DEF Refresh, Pointed
  <2>2. CASE ~cache.dirty
    BY <1>2, <2>2 DEF Refresh, Trusted
  <2>3. QED  BY <2>1, <2>2
<1>5. QED  BY <1>1, <1>2, <1>3, <1>4 DEF Trusted, CacheInv

\* A step of a call that only reads, or returns.
LEMMA WordsRead ==
  ASSUME IInv, OrderInv, WordsInv, io = NoIO, io' = NoIO, flash' = flash,
         op.pc \notin {"idle", "erase_all"}, op'.pc \notin {"data", "write", "erase_all"},
         iter'.live => iter.live /\ iter'.oldest = iter.oldest,
         NEW c \in CacheType, Bare(c), \A p \in Pages: Pointed(c, p, flash[p].words),
         Forgets(cache', c)
  PROVE  WordsInv'
<1>1. Bare(cache') /\ \A p \in Pages: Pointed(cache', p, flash[p].words)
  BY Forgotten
<1>2. ~Disturbed
  BY Undisturbed
<1>3. QED  BY <1>1, <1>2, WordsKept

\* run_with_auto_repair.
LEMMA WordsCorruption ==
  ASSUME IInv, OrderInv, WordsInv, io = NoIO, io' = NoIO, flash' = flash, iter' = iter,
         op.pc \notin {"idle", "erase_all"}, NEW c \in CacheType, HandleCorruption(c),
         Bare(c), \A p \in Pages: Pointed(c, p, flash[p].words)
  PROVE  WordsInv'
<1>1. Forgets(cache', c)
  BY ForgetOps DEF HandleCorruption
<1>2. op'.pc \in {"idle", "repair"}
  BY SmallTypes DEF HandleCorruption, Return, IInv, TypeOK, OpType
<1>3. QED  BY <1>1, <1>2, WordsRead

\* A step that opens or closes a page.
LEMMA WordsMarker ==
  ASSUME IInv, OrderInv, WordsInv, io = NoIO, flash' = flash, iter' = iter,
         op.pc \notin {"idle", "erase_all"}, op'.pc \notin {"data", "erase_all"},
         NEW c \in CacheType, NEW p \in Pages, Good(c), Bare(c),
         \A q \in Pages: Pointed(c, q, flash[q].words),
         \/ OpenPage(c, p) /\ MarkedState(flash[p]) # "PartialOpen"
         \/ PartialClosePage(c, p) /\ ~iter.live
         \/ ClosePage(c, p) /\ ~iter.live,
         op'.pc = "write" => Located'
  PROVE  WordsInv'
<1> USE DEF IInv, TypeOK
<1>1. Completed(io)' = Completed(io') /\ Now' = Now /\ Then = Now /\ Now \in [Pages -> PageState]
  BY NowThenType, NoIOType DEF Completed, Now, Marks
<1>2. /\ OpenPage(c, p) \/ FitFor(flash[io'.page], io')
      /\ \A q \in Pages: Pointed(cache', q, Completed(io')[q].words)
      /\ Bare(cache')
      /\ io'.cmd # "none" => CacheKind = "none" \/ cache'.dirty
  BY MarkerPointed
<1>3. ~Disturbed
  BY Undisturbed
<1>4. FitFor(flash[io.page], io)'
  <2>1. CASE OpenPage(c, p)
    <3>1. MarkedState(flash[p]) # "PartialOpen"
      BY <2>1, NoErase
    <3>2. io'.cmd = "erase" /\ io'.page = p
      BY <2>1 DEF OpenPage, PageIO, NoIO
    <3>3. QED  BY <3>1, <3>2 DEF FitFor
  <2>2. CASE ~OpenPage(c, p)
    BY <1>2, <2>2 DEF FitFor
  <2>3. QED  BY <2>1, <2>2
<1>5. TidyFlash'
  BY <1>3 DEF WordsInv, TidyFlash
<1>6. Located'
  BY DEF Located
<1>7. PointersKnown'
  BY <1>1, <1>2 DEF PointersKnown
<1>8. OldestKnown(Now)' /\ OldestKnown(Then)'
  <2>1. CASE ~iter.live
    BY <2>1 DEF OldestKnown
  <2>2. CASE iter.live
    <3>1. Then' = [Now EXCEPT ![p] = "Open"]
      BY <2>2, MarkerMarks
    <3>2. OldestKnown(Then)'
      BY <1>1, <3>1 DEF WordsInv, OldestKnown
    <3>3. QED  BY <1>1, <3>2 DEF WordsInv, OldestKnown
  <2>3. QED  BY <2>1, <2>2
<1>9. QED  BY <1>4, <1>5, <1>6, <1>7, <1>8 DEF WordsInv

\* A flash operation completes.
LEMMA FlashDoneWords ==
  ASSUME IInv, OrderInv, WordsInv, FlashDone, UNCHANGED qvars
  PROVE  WordsInv'
<1> USE DEF IInv, TypeOK
<1>1. io' = NoIO /\ flash' = Completed(io) /\ UNCHANGED <<cache, op, iter, ret>> /\ io'.cmd = "none"
  BY DEF FlashDone, qvars, NoIO
<1>2. flash' \in [Pages -> Page]
  BY <1>1, FlashType
<1>3. Completed(io)' = Completed(io)
  BY <1>1, <1>2, NoIOCompleted
<1>4. Now' = Then /\ Then' = Then
  BY <1>1, <1>3 DEF Now, Then, Marks
<1>5. FitFor(flash[io.page], io)'
  BY <1>1 DEF FitFor
<1>6. TidyFlash'
  <2>1. ~Disturbed' => \A p \in Pages: Tidy(flash'[p])
    <3>1. Disturbed' = Disturbed /\ (io.cmd = "erase_all" => Disturbed)
      BY <1>1 DEF Disturbed, Usable, OrderInv, Exclusive
    <3>2. CASE ~Disturbed
      BY <1>1, <3>1, <3>2, FlashTidy DEF WordsInv, TidyFlash
    <3>3. QED  BY <3>1, <3>2
  <2>2. QED  BY <1>1, <1>3, <2>1 DEF WordsInv, TidyFlash
<1>7. Located'
  BY <1>1, <1>3 DEF WordsInv, Located
<1>8. PointersKnown'
  BY <1>1, <1>3 DEF WordsInv, PointersKnown, Trusted
<1>9. OldestKnown(Now)' /\ OldestKnown(Then)'
  BY <1>1, <1>4 DEF WordsInv, OldestKnown
<1>10. QED  BY <1>5, <1>6, <1>7, <1>8, <1>9 DEF WordsInv

\* A call fails or power is lost: the pages stay fit for what comes, and the pointers
\* of a cache that is not dirty are those of the flash left behind.
LEMMA FaultWords ==
  ASSUME IInv, CacheInv, OrderInv, WordsInv, Fail \/ PowerLoss
  PROVE  WordsInv'
<1> USE DEF IInv, TypeOK
<1>1. /\ flash' \in Interrupted(io) /\ io' = NoIO /\ io'.cmd = "none"
      /\ flash' \in [Pages -> Page]
  BY CutShortType DEF Fail, PowerLoss, FlashCutShort, NoIO
<1>2. op'.pc = "idle"
  BY SmallTypes DEF Fail, PowerLoss, Return
<1>3. (iter'.live => iter.live) /\ (iter'.live => iter'.oldest = iter.oldest)
  BY SmallTypes DEF Fail, PowerLoss
<1>4. Completed(io)' = flash' /\ Then' = Marks(flash') /\ Now' = Marks(flash')
  <2>1. Completed(io)' = flash'
    BY <1>1, NoIOCompleted
  <2>2. QED  BY <2>1 DEF Then, Now, Marks
<1>5. io.cmd = "erase_all" => Disturbed /\ ~iter.live
  BY DEF OrderInv, Exclusive, Disturbed
<1>6. FitFor(flash[io.page], io)'
  BY <1>1 DEF FitFor
<1>7. TidyFlash'
  <2>1. ASSUME ~Disturbed' PROVE \A p \in Pages: Tidy(flash'[p])
    <3>1. ~Disturbed
      BY <2>1, StillDisturbed
    <3>2. \A fl \in Interrupted(io): \A p \in Pages: Tidy(fl[p])
      BY <1>5, <3>1, FlashTidy DEF WordsInv, TidyFlash
    <3>3. QED  BY <1>1, <3>2
  <2>2. QED  BY <1>2, <2>1 DEF TidyFlash
<1>8. Located'
  BY <1>2 DEF Located
<1>9. PointersKnown'
  <2>1. CASE PowerLoss
    <3>1. cache' = FreshCache
      BY <2>1 DEF PowerLoss
    <3>2. QED  BY <1>1, <3>1 DEF PointersKnown, FreshCache, Bare, Pointed
  <2>2. CASE Fail
    <3>1. cache' = cache /\ Bare(cache)
      BY <2>2 DEF Fail, WordsInv, PointersKnown
    <3>2. CASE CacheKind = "none"
      <4>1. \A p \in Pages: cache.written[p] = NoAddr /\ cache.erased[p] = NoAddr
        BY <3>1, <3>2 DEF Bare
      <4>2. QED  BY <1>1, <3>1, <4>1 DEF PointersKnown, Pointed
    <3>3. CASE CacheKind # "none" /\ cache.dirty
      BY <1>1, <1>2, <3>1, <3>3 DEF PointersKnown, Trusted, RefreshedPCs
    <3>4. CASE CacheKind # "none" /\ ~cache.dirty
      <4>1. io.cmd = "none"
        BY <3>4 DEF WordsInv, PointersKnown
      <4>2. Completed(io) = flash /\ flash' = flash
        BY <1>1, <4>1 DEF Completed, Interrupted, Applied, Torn
      <4>3. Trusted
        BY <3>4 DEF Trusted
      <4>4. QED  BY <1>1, <1>4, <3>1, <4>2, <4>3 DEF WordsInv, PointersKnown
    <3>5. QED  BY <3>2, <3>3, <3>4
  <2>3. QED  BY <2>1, <2>2
<1>10. OldestKnown(Now)' /\ OldestKnown(Then)'
  <2>1. SUFFICES ASSUME iter'.live PROVE OldestKnown(Now)' /\ OldestKnown(Then)'
    BY DEF OldestKnown
  <2>2. iter.live /\ iter'.oldest = iter.oldest /\ io.cmd # "erase_all" /\ io.page \in Pages
    BY <1>3, <1>5, <2>1 DEF IOType
  <2>3. Now \in [Pages -> PageState]
    BY NowThenType
  <2>4. \/ Marks(flash') \in {Now, Then}
        \/ Marks(flash') = [Now EXCEPT ![io.page] = "Corrupted"]
    BY <1>1, <2>2, TornMarks
  <2>5. OldestKnown(Marks(flash'))
    <3>1. CASE Marks(flash') \in {Now, Then}
      BY <3>1 DEF WordsInv
    <3>2. CASE Marks(flash') = [Now EXCEPT ![io.page] = "Corrupted"]
      <4>1. ASSUME NEW q \in Pages, Marks(flash')[q] = "PartialOpen", Marks(flash')[NextPage(q)] = "Closed"
            PROVE  NextPage(q) = iter.oldest
        <5>1. NextPage(q) \in Pages
          BY Around
        <5>2. Now[q] = "PartialOpen" /\ Now[NextPage(q)] = "Closed"
          BY <2>3, <3>2, <4>1, <5>1
        <5>3. QED  BY <2>2, <4>1, <5>2 DEF WordsInv, OldestKnown
      <4>2. QED  BY <4>1 DEF OldestKnown
    <3>3. QED  BY <2>4, <3>1, <3>2
  <2>6. QED  BY <1>4, <2>2, <2>5 DEF OldestKnown
<1>11. QED  BY <1>6, <1>7, <1>8, <1>9, <1>10 DEF WordsInv

\* The invariant holds initially.
LEMMA InitWords == Init => WordsInv
<1> SUFFICES ASSUME Init PROVE WordsInv
  OBVIOUS
<1>1. op.pc = "idle" /\ ~iter.live /\ io = NoIO /\ io.cmd = "none" /\ cache = FreshCache
  BY SmallTypes DEF Init, GenericInit, NoIO
<1>2. \A p \in Pages: flash[p] = ErasedPage
  BY DEF Init, GenericInit
<1>3. \A p \in Pages: Tidy(flash[p])
  BY <1>2 DEF Tidy, ErasedPage, BlankFrom, MarkedState
<1>4. PointersKnown
  BY <1>1 DEF PointersKnown, FreshCache, Bare, Pointed
<1>5. QED  BY <1>1, <1>3, <1>4 DEF WordsInv, FitFor, TidyFlash, Located, OldestKnown

\* try_general_repair.
LEMMA RepairWords ==
  ASSUME IInv, CacheInv, OrderInv, WordsInv, RepairPage \/ RepairDone
  PROVE  WordsInv'
<1> USE DEF IInv, TypeOK
<1>1. op.pc = "repair" /\ io = NoIO /\ flash' = flash /\ iter' = iter
  BY DEF RepairPage, RepairDone, At, Settled
<1>2. Good(cache) /\ \A S: Good(Learn(cache, S)) /\ Learn(cache, S) \in CacheType
  BY <1>1, RefreshGood, GoodOps, LearnType DEF RefreshedPCs
<1>3. op.fn \in Functions \cup {"none"} /\ op.fn # "erase_all" /\ op.fn \in PCs
  BY <1>1 DEF OpType, OrderInv, Exclusive, CallShape
<1>4. Bare(cache) /\ \A p \in Pages: Pointed(cache, p, flash[p].words)
  BY <1>1, WordsFacts DEF RefreshedPCs
<1>5. \A S: Bare(Learn(cache, S)) /\ \A p \in Pages: Pointed(Learn(cache, S), p, flash[p].words)
  BY <1>4, ForgetOps, Forgotten
<1>6. CASE RepairPage
  <2> DEFINE torn == {p \in Pages: p >= op.cur /\ StateOf(cache, p) = "Corrupted"}
             q == Min(torn)
  <2>1. q \in torn
    <3>1. torn \in SUBSET Nat /\ torn # {}
      BY <1>6, PageCountAssumption DEF RepairPage, Pages
    <3>2. QED  BY <3>1, MinInSet
  <2>2. q \in Pages /\ MarkedState(flash[q]) = "Corrupted"
    BY <1>2, <2>1, StateIsMark
  <2>3. /\ OpenPage(Learn(cache, op.cur .. q), q)
        /\ op'.pc = "repair"
    BY <1>1, <1>6 DEF RepairPage, OpType
  <2> HIDE DEF q, torn
  <2>4. QED  BY <1>1, <1>2, <1>5, <2>2, <2>3, WordsMarker
<1>7. CASE RepairDone
  <2>1. op'.pc = op.fn /\ io' = NoIO /\ cache' = Learn(cache, op.cur .. PageCount - 1)
    BY <1>1, <1>7 DEF RepairDone, Settled, OpType
  <2>2. op'.pc \notin {"data", "write", "erase_all"}
    BY <1>3, <2>1 DEF Functions, PCs
  <2>3. QED  BY <1>1, <1>4, <2>1, <2>2, ForgetOps, WordsRead
<1>8. QED  BY <1>6, <1>7

\* erase_all leaves every page erased.
LEMMA EraseAllWords ==
  ASSUME IInv, OrderInv, CacheInv, WordsInv, EraseAllFinish
  PROVE  WordsInv'
<1> USE DEF IInv, TypeOK
<1>1. /\ io = NoIO /\ io' = io /\ flash' = flash /\ cache' = cache /\ iter' = iter /\ op.pc = "erase_all"
      /\ op'.pc = "idle"
  BY SmallTypes DEF EraseAllFinish, At, Settled, Return
<1>2. Completed(io)' = flash /\ Completed(io) = flash /\ io'.cmd = "none"
  BY <1>1, NoIOCompleted DEF NoIO
<1>3. Now' = Now /\ Then' = Now /\ Then = Now
  BY <1>1, QuietMarks
<1>4. \A p \in Pages: Tidy(flash[p])
  <2>1. \A p \in Pages: flash[p] = ErasedPage
    BY <1>1, <1>2 DEF WordsInv, TidyFlash
  <2>2. QED  BY <2>1 DEF Tidy, ErasedPage, BlankFrom, MarkedState
<1>5. FitFor(flash[io.page], io)' /\ TidyFlash' /\ Located'
  BY <1>1, <1>2, <1>4 DEF FitFor, TidyFlash, Located
<1>6. PointersKnown'
  <2>1. Trusted' => Trusted
    BY <1>1 DEF Trusted, RefreshedPCs
  <2>2. QED  BY <1>1, <1>2, <2>1 DEF WordsInv, PointersKnown
<1>7. OldestKnown(Now)' /\ OldestKnown(Then)'
  BY <1>1, <1>3 DEF WordsInv, OldestKnown
<1>8. QED  BY <1>5, <1>6, <1>7 DEF WordsInv

\* A step that asks for a word of a page to be written: the pointers to that page are
\* those of the page the write leaves, the others are as they were.
LEMMA WordsWord ==
  ASSUME IInv, WordsInv, io = NoIO, flash' = flash, NEW p \in Pages, ~Disturbed,
         op'.pc # "erase_all", io' \in IOType, io'.page = p, io'.cmd \in {"header", "data", "zero"},
         FitFor(flash[p], io'), Located', iter'.live => iter.live /\ iter'.oldest = iter.oldest,
         Pointed(cache', p, Applied(flash[p], io').words), Bare(cache'),
         CacheKind = "none" \/ cache'.dirty,
         \A q \in Pages: q # p => /\ cache'.written[q] = cache.written[q]
                                  /\ cache'.erased[q] = cache.erased[q]
                                  /\ Pointed(cache, q, flash[q].words)
  PROVE  WordsInv'
<1> USE DEF IInv, TypeOK
<1>1. Completed(io)' = [flash EXCEPT ![p] = Applied(flash[p], io')]
  BY DEF Completed
<1>2. Now' = Now /\ Then' = Now
  BY WordMarks
<1>3. FitFor(flash[io.page], io)'
  BY DEF FitFor
<1>4. TidyFlash'
  BY DEF WordsInv, TidyFlash
<1>5. PointersKnown'
  <2>1. \A q \in Pages: Pointed(cache', q, Completed(io)'[q].words)
    <3>1. SUFFICES ASSUME NEW q \in Pages PROVE Pointed(cache', q, Completed(io)'[q].words)
      OBVIOUS
    <3>2. CASE q = p
      BY <1>1, <3>2
    <3>3. CASE q # p
      <4>1. Completed(io)'[q] = flash[q]
        BY <1>1, <3>3
      <4>2. QED  BY <3>3, <4>1 DEF Pointed
    <3>4. QED  BY <3>2, <3>3
  <2>2. QED  BY <2>1 DEF PointersKnown
<1>6. OldestKnown(Now)' /\ OldestKnown(Then)'
  BY <1>2 DEF WordsInv, OldestKnown
<1>7. QED  BY <1>3, <1>4, <1>5, <1>6 DEF WordsInv

\* The calls that begin.
LEMMA CallsWords ==
  ASSUME IInv, CacheInv, OrderInv, WordsInv, Call, CacheKind = "none" \/ "erase_all" \notin UserCalls
  PROVE  WordsInv'
<1> USE DEF IInv, TypeOK
<1>1. op = Idle /\ io = NoIO /\ op.pc = "idle" /\ op.fn = "none"
  BY SmallTypes DEF Call, CallPush, CallIter, CallNext, CallPop, DropIter, CallFindMaxFit,
     CallSpaceLeft, CallEraseAll, Start, QuietIdle
<1>2. Completed(io) = flash /\ Bare(cache)
  BY <1>1, NoIOCompleted DEF WordsInv, PointersKnown
<1>3. ASSUME flash' = flash, cache' = cache, io' = io, ~Disturbed,
             op'.pc \in {"idle", "push", "iter", "next", "find_max_fit", "space_left"},
             iter'.live => iter.live /\ iter'.oldest = iter.oldest
      PROVE  WordsInv'
  <2>1. Trusted' => Trusted
    BY <1>3 DEF Trusted, RefreshedPCs
  <2>2. Trusted' => \A p \in Pages: Pointed(cache', p, flash[p].words)
    BY <1>2, <1>3, <2>1 DEF WordsInv, PointersKnown
  <2>3. QED  BY <1>1, <1>2, <1>3, <2>2, WordsKept
<1>4. ASSUME Usable PROVE ~Disturbed
  BY <1>1, <1>4 DEF Disturbed
<1>5. iter.live => ~Disturbed
  BY DEF OrderInv, Exclusive
<1>6. ASSUME NEW i \in Items, NEW allow \in BOOLEAN, CallPush(i, allow) PROVE WordsInv'
  BY <1>3, <1>4, <1>6 DEF CallPush, gvars, Idle
<1>7. CASE CallIter \/ CallFindMaxFit \/ CallSpaceLeft
  <2>1. PICK fn \in {"iter", "find_max_fit", "space_left"}: Start(fn) /\ Usable /\ iter' = iter
    BY <1>7 DEF CallIter, CallFindMaxFit, CallSpaceLeft
  <2>2. op'.pc = fn /\ flash' = flash /\ cache' = cache /\ io' = io
    BY <2>1 DEF Start, gvars, Idle
  <2>3. QED  BY <1>3, <1>4, <2>1, <2>2
<1>8. CASE CallNext
  <2>1. op'.pc = "next" /\ flash' = flash /\ cache' = cache /\ io' = io /\ iter.live
    BY <1>8 DEF CallNext, Start, gvars, Idle
  <2>2. iter'.oldest = iter.oldest
    BY <1>8 DEF CallNext, DropEntry, IterType
  <2>3. QED  BY <1>3, <1>5, <2>1, <2>2
<1>9. CASE DropIter
  <2>1. op' = op /\ flash' = flash /\ cache' = cache /\ io' = io /\ iter.live /\ ~iter'.live
    BY <1>9, SmallTypes DEF DropIter, gvars
  <2>2. QED  BY <1>1, <1>3, <1>5, <2>1
<1>10. CASE CallPop
  <2> DEFINE p == iter.entryPage
             a == iter.entryAddr
             ws == flash[p].words
             v == Applied(flash[p], io').words
  <2>1. HasEntry /\ iter.live /\ p \in Pages /\ a \in Addrs /\ IsPresent(ws, a) /\ io' \in IOType
    BY <1>10, CallPopInv DEF CallPop, HasEntry, EntryShape, IterType
  <2>2. flash[p] \in Page /\ ws \in [Addrs -> Word]
    BY <2>1 DEF Page
  <2>3. /\ cache' = NoticeErased(cache, p, a, ws[a].len) /\ flash' = flash
        /\ io'.cmd = "zero" /\ io'.page = p /\ io'.addr = a
    BY <1>10 DEF CallPop, EraseItem, ItemIO
  <2>4. op'.pc = "popped" /\ iter'.live = iter.live /\ iter'.oldest = iter.oldest
    BY <1>10 DEF CallPop, Idle, DropEntry, IterType
  <2>5. /\ v = [ws EXCEPT ![a] = ZeroedHeader(ws[a])] /\ v \in [Addrs -> Word]
    <3>1. v = [ws EXCEPT ![a] = ZeroedHeader(ws[a])]
      BY <2>2, <2>3 DEF Applied, WithWord, Page
    <3>2. ZeroedHeader(ws[a]) \in Word
      BY <2>1, <2>2, BlankType
    <3>3. QED  BY <2>1, <2>2, <3>1, <3>2
  <2>6. v[a] = ZeroedHeader(ws[a]) /\ \A b \in Addrs: b # a => v[b] = ws[b]
    BY <2>1, <2>2, <2>5
  <2>7. \A q \in Pages: Pointed(cache, q, flash[q].words)
    BY <1>1, <2>1, WordsFacts
  <2> HIDE DEF v, ws
  <2>8. Pointed(cache, p, ws)
    BY <2>1, <2>7 DEF ws
  <2> DEFINE d == NoticeErased(cache, p, a, ws[a].len)
  <2>9. /\ Pointed(d, p, v) /\ Bare(d)
        /\ \A q \in Pages: q # p => d.written[q] = cache.written[q] /\ d.erased[q] = cache.erased[q]
        /\ CacheKind = "none" \/ d.dirty
    <3>1. v \in [Addrs -> Word] /\ ws \in [Addrs -> Word] /\ cache \in CacheType
      BY <2>2, <2>5
    <3> HIDE DEF p, a
    <3>2. QED  BY <1>2, <2>1, <2>6, <2>8, <3>1, ErasedPointed
  <2>10. FitFor(flash[p], io') /\ Located'
    BY <2>1, <2>3, <2>4 DEF FitFor, Located, ws
  <2>11. cache' = d
    BY <2>3
  <2> HIDE DEF d, p, a
  <2>12. QED  BY <1>1, <1>5, <2>1, <2>3, <2>4, <2>7, <2>9, <2>10, <2>11, WordsWord DEF v
<1>11. CASE CallEraseAll
  <2>1. /\ op'.pc = "erase_all" /\ op'.fn = "erase_all" /\ ~iter'.live /\ iter' = iter
        /\ io'.cmd = "erase_all" /\ cache' = cache /\ CacheKind = "none"
    BY <1>11 DEF CallEraseAll, Idle, PageIO, NoIO
  <2>2. Completed(io)' = [p \in Pages |-> ErasedPage]
    BY <2>1 DEF Completed
  <2>3. FitFor(flash[io.page], io)' /\ TidyFlash' /\ Located'
    BY <2>1, <2>2 DEF FitFor, TidyFlash, Located, Disturbed
  <2>4. PointersKnown'
    BY <1>2, <2>1 DEF PointersKnown, Bare, Pointed
  <2>5. QED  BY <2>1, <2>3, <2>4 DEF WordsInv, OldestKnown
<1>12. QED  BY <1>6, <1>7, <1>8, <1>9, <1>10, <1>11 DEF Call

\* push_inner up to the choice of the page: the spot it finds is the end of the items.
LEMMA PushSearchWords ==
  ASSUME IInv, CacheInv, OrderInv, WordsInv, PushTooBig \/ PushStart \/ PushHere
  PROVE  WordsInv'
<1> USE DEF IInv, TypeOK
<1>1. io = NoIO /\ flash' = flash /\ iter' = iter /\ op.pc # "idle" /\ op.fn = "push"
  BY DEF PushTooBig, PushStart, PushHere, At, Settled, CallShape, PushPCs
<1>2. /\ op.pc \notin {"idle", "erase_all"} /\ ~iter.live
      /\ Ordered(Now) /\ Then = Now /\ Now \in [Pages -> PageState]
      /\ Good(Refresh(cache)) /\ Refresh(cache) \in CacheType
  BY <1>1, PushFacts
<1>3. /\ Bare(cache) /\ Bare(Refresh(cache))
      /\ \A p \in Pages: Pointed(Refresh(cache), p, flash[p].words)
      /\ op.pc \in RefreshedPCs \/ HasEntry => \A p \in Pages: Pointed(cache, p, flash[p].words)
  BY <1>1, WordsFacts
<1>4. CASE PushTooBig
  <2>1. op'.pc = "idle" /\ io' = NoIO /\ Forgets(cache', Refresh(cache))
    BY <1>1, <1>2, <1>4, SmallTypes, ForgetOps DEF PushTooBig, Return, Settled
  <2>2. QED  BY <1>1, <1>2, <1>3, <2>1, WordsRead
<1>5. CASE PushHere
  <2>1. PICK a \in Addrs: /\ a = FreeSpot(cache, op.cur) /\ Fits(a, Size[op.item])
                          /\ op' = [op EXCEPT !.pc = "write", !.addr = a]
    BY <1>5 DEF PushHere
  <2>2. op'.pc = "write" /\ op'.cur = op.cur /\ op'.addr = a /\ op.cur \in Pages
    BY <2>1 DEF OpType
  <2>3. io' = NoIO /\ cache' = cache /\ op.pc = "place"
    BY <1>1, <1>5 DEF PushHere, At, Settled
  <2>4. \A p \in Pages: Pointed(cache, p, flash[p].words)
    BY <1>3, <2>3 DEF RefreshedPCs
  <2>5. a = EndOfItems(flash[op.cur].words, 0)
    BY <2>1, <2>2, <2>4, FreeSpotIsEnd
  <2>6. MarkedState(flash[op.cur]) = "PartialOpen"
    BY <1>2, <2>2, <2>3 DEF OrderInv, Planned, Now, Marks
  <2>7. ~Disturbed
    BY <1>2, Undisturbed
  <2>8. QED  BY <1>1, <1>2, <1>3, <2>2, <2>3, <2>4, <2>5, <2>6, <2>7, WordsKept
<1>6. CASE PushStart
  <2> DEFINE y == FindYoungest(Refresh(cache))
             known == LearnYoungest(Refresh(cache))
  <2>1. known \in CacheType /\ Good(known)
    BY <1>2, YoungestCacheType, GoodOps DEF LearnYoungest
  <2>2. Bare(known) /\ \A p \in Pages: Pointed(known, p, flash[p].words)
    BY <1>2, <1>3, ForgetOps, Forgotten DEF LearnYoungest
  <2>3. IF y = CorruptedPage THEN HandleCorruption(known) /\ io' = io
        ELSE /\ PartialClosePage(known, y)
             /\ op' = [op EXCEPT !.pc = "place", !.cur = y]
    BY <1>6 DEF PushStart
  <2>4. y # CorruptedPage => y \in Pages
    BY <1>2, FoundYoungest
  <2> HIDE DEF y, known
  <2>5. CASE y = CorruptedPage
    BY <1>1, <1>2, <2>1, <2>2, <2>3, <2>5, WordsCorruption
  <2>6. CASE y # CorruptedPage
    <3>1. op'.pc = "place"
      BY <2>3, <2>6 DEF OpType
    <3>2. QED  BY <1>1, <1>2, <2>1, <2>2, <2>3, <2>4, <2>6, <3>1, WordsMarker
  <2>7. QED  BY <2>5, <2>6
<1>7. QED  BY <1>4, <1>5, <1>6

\* push_inner when the current page is full.
LEMMA PushNextWords ==
  ASSUME IInv, CacheInv, OrderInv, WordsInv, PushNext, PageCount >= 2
  PROVE  WordsInv'
<1> USE DEF IInv, TypeOK
<1> DEFINE next == NextPage(op.cur)
           known == Learn(cache, {next})
<1>1. io = NoIO /\ flash' = flash /\ iter' = iter /\ op.pc = "place" /\ op.fn = "push"
  BY DEF PushNext, At, Settled, CallShape, PushPCs
<1>2. /\ op.pc \notin {"idle", "erase_all"} /\ ~iter.live
      /\ op.cur \in Pages /\ next \in Pages /\ Good(cache) /\ cache \in CacheType
  BY <1>1, PushFacts DEF RefreshedPCs
<1>3. known \in CacheType /\ Good(known) /\ Forgets(known, cache)
  BY <1>2, LearnType, GoodOps, ForgetOps
<1>4. Bare(known) /\ \A p \in Pages: Pointed(known, p, flash[p].words)
  BY <1>1, <1>3, WordsFacts, Forgotten DEF RefreshedPCs
<1>5. next # op.cur
  <2>1. ASSUME next = op.cur PROVE FALSE
    <3>1. \A q \in Pages: q = 0
      BY <1>2, <2>1, OnlyPage
    <3>2. 1 \in Pages
      BY PageCountAssumption DEF Pages
    <3>3. QED  BY <3>1, <3>2
  <2>2. QED  BY <2>1
<1>6. StateOf(cache, next) = MarkedState(flash[next])
  BY <1>2, StateIsMark
<1>7. \/ HandleCorruption(known) /\ io' = io
      \/ ClosePage(known, op.cur) /\ Goto("advance")
      \/ cache' = UnmarkDirty(known) /\ Return(Result("FullStorage")) /\ io' = io
      \/ /\ MarkedState(flash[next]) # "PartialOpen"
         /\ OpenPage(known, next) /\ Goto("opened")
  BY <1>5, <1>6 DEF PushNext
<1> HIDE DEF next, known
<1>8. CASE HandleCorruption(known) /\ io' = io
  BY <1>1, <1>2, <1>3, <1>4, <1>8, WordsCorruption
<1>9. CASE cache' = UnmarkDirty(known) /\ Return(Result("FullStorage")) /\ io' = io
  <2>1. op'.pc = "idle" /\ Forgets(cache', known)
    BY <1>3, <1>9, SmallTypes, ForgetOps DEF Return
  <2>2. QED  BY <1>1, <1>2, <1>3, <1>4, <1>9, <2>1, WordsRead
<1>10. CASE ClosePage(known, op.cur) /\ Goto("advance")
  <2>1. op'.pc = "advance"
    BY <1>10 DEF Goto, OpType
  <2>2. QED  BY <1>1, <1>2, <1>3, <1>4, <1>10, <2>1, WordsMarker
<1>11. CASE /\ MarkedState(flash[next]) # "PartialOpen"
            /\ OpenPage(known, next) /\ Goto("opened")
  <2>1. op'.pc = "opened"
    BY <1>11 DEF Goto, OpType
  <2>2. QED  BY <1>1, <1>2, <1>3, <1>4, <1>11, <2>1, WordsMarker
<1>12. QED  BY <1>7, <1>8, <1>9, <1>10, <1>11

\* push_inner from the new page to the written item: the item goes behind the last one,
\* on blank words.
LEMMA PushWriteWords ==
  ASSUME IInv, CacheInv, OrderInv, WordsInv,
         PushOpened \/ PushAdvance \/ PushWrite \/ PushData \/ PushFinish
  PROVE  WordsInv'
<1> USE DEF IInv, TypeOK
<1> DEFINE next == NextPage(op.cur)
           cur == op.cur
           a == op.addr
           i == op.item
           ws == flash[cur].words
           v == Applied(flash[cur], io').words
<1>1. /\ io = NoIO /\ flash' = flash /\ iter' = iter /\ op.pc # "idle" /\ op.fn = "push"
      /\ op.pc \in {"opened", "advance", "write", "data", "finish"}
  BY DEF PushOpened, PushAdvance, PushWrite, PushData, PushFinish, At, Settled, CallShape, PushPCs
<1>2. /\ op.pc \notin {"idle", "erase_all"} /\ ~iter.live
      /\ Then = Now /\ Now \in [Pages -> PageState]
      /\ cur \in Pages /\ next \in Pages /\ Good(cache) /\ ~Disturbed /\ cache \in CacheType
  BY <1>1, PushFacts, Undisturbed DEF RefreshedPCs
<1>3. /\ Completed(io) = flash /\ Bare(cache)
      /\ \A p \in Pages: Pointed(cache, p, flash[p].words)
  BY <1>1, WordsFacts DEF RefreshedPCs
<1>4. /\ flash[cur] \in Page /\ ws \in [Addrs -> Word] /\ a \in Addrs /\ i \in Items
      /\ Size[i] \in Nat /\ Tidy(flash[cur])
  BY <1>1, <1>2, SizeAssumption DEF Page, OpType, CallShape, WordsInv, TidyFlash
<1>5. CASE PushOpened
  <2>1. /\ IF next = cur THEN cache' = cache /\ io' = io ELSE ClosePage(cache, cur)
        /\ op'.pc = "advance"
    BY <1>5 DEF PushOpened, Goto, OpType
  <2> HIDE DEF next, cur
  <2>2. Forgets(cache, cache)
    BY <1>2, ForgetOps
  <2>3. CASE next = cur
    BY <1>1, <1>2, <1>3, <2>1, <2>2, <2>3, WordsRead
  <2>4. CASE next # cur
    BY <1>1, <1>2, <1>3, <2>1, <2>4, WordsMarker
  <2>5. QED  BY <2>3, <2>4
<1>6. CASE PushAdvance
  <2>1. /\ op.pc = "advance" /\ PartialClosePage(cache, next)
        /\ op'.pc = "write" /\ op'.cur = next /\ op'.addr = 0
    BY <1>6, SmallTypes DEF PushAdvance, At, OpType
  <2>2. Now[next] = "Open"
    BY <1>2, <2>1 DEF OrderInv, Planned
  <2> HIDE DEF next
  <2>3. Then' = [Now EXCEPT ![next] = "PartialOpen"]
    BY <1>1, <1>2, <2>1, <2>2, MarkerMarks
  <2>4. MarkedState(Completed(io)'[next]) = "PartialOpen"
    BY <1>2, <2>3 DEF Then, Marks
  <2>5. Completed(io)'[next].words = flash[next].words
    <3>1. StateOf(cache, next) = "Open"
      BY <1>2, <2>2, StateIsMark DEF Now, Marks
    <3>2. io' = PageIO("start", next)
      BY <2>1, <3>1 DEF PartialClosePage
    <3>3. Completed(io)' = [flash EXCEPT ![next] = [flash[next] EXCEPT !.start = TRUE]]
      BY <1>1, <3>2 DEF Completed, PageIO, NoIO, Applied
    <3>4. flash[next] \in Page
      BY <1>2
    <3>5. QED  BY <1>2, <3>3, <3>4 DEF Page
  <2>6. EndOfItems(flash[next].words, 0) = 0
    <3>1. Tidy(flash[next]) /\ MarkedState(flash[next]) = "Open" /\ flash[next].words \in [Addrs -> Word]
      BY <1>2, <2>2 DEF WordsInv, TidyFlash, Now, Marks, Page
    <3>2. QED  BY <3>1, BlankWalk DEF Tidy
  <2>7. Located'
    BY <2>1, <2>4, <2>5, <2>6 DEF Located
  <2>8. QED  BY <1>1, <1>2, <1>3, <2>1, <2>7, WordsMarker
<1>7. CASE PushWrite
  <2>1. /\ op.pc = "write" /\ op'.pc = "data" /\ op'.cur = cur /\ op'.addr = a /\ op'.item = i
        /\ cache' = NoticeWritten(cache, cur, a, Size[i]) /\ io' = ItemIO("header", cur, a, i)
        /\ io' \in IOType
    BY <1>7, PushWriteInv DEF PushWrite, At, Goto, OpType, WriteHeader
  <2>2. /\ MarkedState(flash[cur]) = "PartialOpen" /\ a = EndOfItems(ws, 0) /\ Fits(a, Size[i])
        /\ Appendable(ws)
    BY <1>3, <1>4, <2>1 DEF WordsInv, Located, CallShape, Tidy
  <2>3. io'.cmd = "header" /\ io'.page = cur /\ io'.addr = a /\ io'.item = i
    BY <2>1 DEF ItemIO
  <2>4. ws[a] = Blank
    <3>1. 0 \in 0 .. PageWords /\ a # PageWords
      BY <1>4, PageWordsAssumption DEF Addrs
    <3>2. QED  BY <1>4, <2>2, <3>1, EndIsEnd
  <2>5. /\ v[a] = Header(i) /\ \A b \in Addrs: b # a => v[b] = ws[b]
        /\ v \in [Addrs -> Word]
    <3>1. v = [ws EXCEPT ![a] = Header(i)]
      BY <1>4, <2>3, <2>4 DEF Applied, WithWord, Page, Programmed
    <3>2. Header(i) \in Word
      BY <1>4 DEF Header, Word
    <3>3. QED  BY <1>4, <3>1, <3>2
  <2>6. Completed(io)'[cur].words = v
    BY <1>1, <1>2, <2>3 DEF Completed
  <2> HIDE DEF v, ws, cur, a, i
  <2> DEFINE d == NoticeWritten(cache, cur, a, Size[i])
  <2>7. Pointed(cache, cur, ws)
    BY <1>2, <1>3 DEF ws
  <2>8. /\ Pointed(d, cur, v) /\ Bare(d)
        /\ \A q \in Pages: q # cur => d.written[q] = cache.written[q] /\ d.erased[q] = cache.erased[q]
        /\ CacheKind = "none" \/ d.dirty
    BY <1>2, <1>3, <1>4, <2>2, <2>5, <2>7, WrittenPointed
  <2>9. DataReady(v, a, i)
    BY <1>4, <2>2, <2>5, HeaderWritten
  <2>10. cache' = d
    BY <2>1
  <2> HIDE DEF d
  <2>11. FitFor(flash[cur], io')
    BY <2>2, <2>3 DEF FitFor, ws
  <2>12. Located'
    BY <2>1, <2>6, <2>8, <2>9, <2>10 DEF Located
  <2>13. QED  BY <1>1, <1>2, <1>3, <2>1, <2>3, <2>8, <2>10, <2>11, <2>12, WordsWord DEF v
<1>8. CASE PushData
  <2>1. /\ op.pc = "data" /\ op'.pc = "finish" /\ cache' = cache
        /\ io' = IF Size[i] = 0 THEN NoIO ELSE ItemIO("data", cur, a, i)
        /\ io' \in IOType
    BY <1>8, PushWriteInv DEF PushData, At, Goto, OpType, WriteData
  <2>2. DataReady(ws, a, i) /\ (CacheKind = "none" \/ cache.dirty)
    BY <1>3, <2>1 DEF WordsInv, Located
  <2>3. Forgets(cache, cache)
    BY <1>2, ForgetOps
  <2>4. CASE Size[i] = 0
    BY <1>1, <1>2, <1>3, <2>1, <2>3, <2>4, WordsRead
  <2>5. CASE Size[i] # 0
    <3>1. io'.cmd = "data" /\ io'.page = cur /\ io'.addr = a /\ io'.item = i
      BY <2>1, <2>5 DEF ItemIO
    <3>2. /\ v \in [Addrs -> Word]
          /\ \A b \in Addrs: v[b] # ws[b] => b \in DataAddrs(a, i)
      <4>1. v = [b \in Addrs |-> IF b \in DataAddrs(a, i) THEN Programmed(ws[b], Body(i)) ELSE ws[b]]
        BY <1>4, <3>1 DEF Applied, WithWords, Page
      <4>2. \A b \in Addrs: Programmed(ws[b], Body(i)) \in Word
        BY <1>4, ProgrammedType
      <4>3. QED  BY <1>4, <4>1, <4>2
    <3> HIDE DEF v, ws, cur, a, i
    <3>3. /\ EndOfItems(v, 0) = EndOfItems(ws, 0)
          /\ \A b \in Addrs: ws[b] # Blank => v[b] = ws[b]
      BY <1>4, <2>2, <3>2, DataWritten
    <3>4. Pointed(cache, cur, v)
      <4>1. Pointed(cache, cur, ws)
        BY <1>2, <1>3 DEF ws
      <4>2. QED  BY <1>2, <1>4, <3>2, <3>3, <4>1, AppendPointed
    <3>5. FitFor(flash[cur], io')
      BY <2>2, <3>1 DEF FitFor, ws
    <3>6. Located'
      BY <2>1 DEF Located
    <3>7. QED  BY <1>1, <1>2, <1>3, <2>1, <2>2, <3>1, <3>4, <3>5, <3>6, WordsWord DEF v
  <2>6. QED  BY <2>4, <2>5
<1>9. CASE PushFinish
  <2>1. op'.pc = "idle" /\ io' = NoIO /\ Forgets(cache', cache)
    BY <1>1, <1>2, <1>9, SmallTypes, ForgetOps DEF PushFinish, Return, Settled
  <2>2. QED  BY <1>1, <1>2, <1>3, <2>1, WordsRead
<1>10. QED  BY <1>5, <1>6, <1>7, <1>8, <1>9

\* iter begins at the oldest page.
LEMMA IterStartWords ==
  ASSUME IInv, CacheInv, OrderInv, WordsInv, IterStart
  PROVE  WordsInv'
<1> USE DEF IInv, TypeOK
<1> DEFINE c == Refresh(cache)
           y == FindYoungest(c)
           closed == FindFirst(c, y, "Closed")
           oldest == FindOldest(c, y)
           known == LearnOldest(c, y)
<1>1. io = NoIO /\ io' = io /\ flash' = flash /\ op.pc = "iter"
  BY DEF IterStart, At, Settled
<1>2. /\ op.pc \notin {"idle", "erase_all"} /\ ~Disturbed
      /\ Good(c) /\ Ordered(Now) /\ c \in CacheType
  BY <1>1, IterFacts DEF Sane
<1>3. Bare(c) /\ \A p \in Pages: Pointed(c, p, flash[p].words)
  BY <1>1, WordsFacts
<1>4. known \in CacheType /\ Forgets(known, c)
  <2>1. LearnYoungest(c) \in CacheType /\ Forgets(LearnYoungest(c), c)
    BY <1>2, YoungestCacheType, ForgetOps DEF LearnYoungest
  <2> HIDE DEF c
  <2>2. known \in CacheType /\ Forgets(known, LearnYoungest(c))
    BY <2>1, LearnType, ForgetOps DEF LearnOldest
  <2>3. QED  BY <2>1, <2>2, ForgetsTrans
<1>5. Bare(known) /\ \A p \in Pages: Pointed(known, p, flash[p].words)
  BY <1>3, <1>4, Forgotten
<1>6. IF oldest = CorruptedPage THEN HandleCorruption(known) /\ iter' = iter
      ELSE /\ cache' = known /\ iter'.oldest = oldest
           /\ Return(Result("Ok"))
  BY DEF IterStart, NoIter
<1>7. ASSUME oldest # CorruptedPage, NEW q \in Pages, Now[q] = "PartialOpen", Now[NextPage(q)] = "Closed"
      PROVE  oldest = NextPage(q)
  <2>1. y # CorruptedPage
    BY <1>7 DEF FindOldest
  <2>2. y \in Pages /\ y = q
    BY <1>2, <1>7, <2>1, FoundYoungest, OnePartial
  <2>3. NextPage(q) \in Pages /\ PageFrom(q, 0) = q
    BY Around, FromStart
  <2>4. /\ closed = NoPage => \A p \in Pages: Now[p] \notin {"Closed", "Corrupted"}
        /\ closed \in Pages \cup {NoPage, CorruptedPage}
        /\ closed \in Pages =>
             /\ Now[closed] = "Closed"
             /\ \E k \in Pages: /\ closed = PageFrom(y, k)
                                /\ \A j \in Pages: j < k => Now[PageFrom(y, j)] \notin {"Closed", "Corrupted"}
    BY <1>2, <2>2, FoundFirst
  <2>5. closed = oldest /\ closed # NoPage
    BY <1>7, <2>1, <2>3, <2>4 DEF FindOldest
  <2> HIDE DEF closed, oldest, y, c
  <2>6. PICK k \in Pages: /\ closed = PageFrom(q, k) /\ Now[closed] = "Closed"
                          /\ \A j \in Pages: j < k => Now[PageFrom(q, j)] \notin {"Closed", "Corrupted"}
    BY <1>7, <2>2, <2>4, <2>5
  <2>7. 1 \in Pages /\ PageFrom(q, 1) = NextPage(q)
    <3>1. q # NextPage(q)
      BY <1>7
    <3>2. PageCount # 1
      BY <2>3, <3>1 DEF Pages
    <3>3. 1 \in Pages
      BY <3>2, PageCountAssumption DEF Pages
    <3>4. QED  BY <3>3 DEF PageFrom, NextPage
  <2>8. k # 0 /\ ~(1 < k)
    BY <1>7, <2>3, <2>6, <2>7
  <2>9. k = 1
    BY <2>8 DEF Pages
  <2>10. QED  BY <2>5, <2>6, <2>7, <2>9
<1> HIDE DEF c, y, closed, oldest, known
<1>8. CASE oldest = CorruptedPage
  BY <1>1, <1>2, <1>4, <1>5, <1>6, <1>8, WordsCorruption
<1>9. CASE oldest # CorruptedPage
  <2>1. op'.pc = "idle" /\ io' = NoIO
    BY <1>1, <1>6, <1>9, SmallTypes DEF Return
  <2>2. Completed(io)' = flash /\ io'.cmd = "none" /\ Now' = Now /\ Then' = Now
    BY <1>1, NoIOCompleted, QuietMarks DEF NoIO
  <2>3. FitFor(flash[io.page], io)' /\ TidyFlash' /\ Located'
    BY <1>1, <1>2, <2>1, <2>2 DEF WordsInv, FitFor, TidyFlash, Located
  <2>4. PointersKnown'
    BY <1>5, <1>6, <1>9, <2>2 DEF PointersKnown
  <2>5. OldestKnown(Now)' /\ OldestKnown(Then)'
    BY <1>6, <1>7, <1>9, <2>2 DEF OldestKnown
  <2>6. QED  BY <2>3, <2>4, <2>5 DEF WordsInv
<1>10. QED  BY <1>8, <1>9

\* next erases no page that is partially open: such a page is followed by the oldest one.
LEMMA NextPageWords ==
  ASSUME IInv, NextHasIter, CacheInv, OrderInv, WordsInv, PageCount >= 2,
         NextStart \/ NextPageAfter \/ NextReopened
  PROVE  WordsInv'
<1> USE DEF IInv, TypeOK
<1>1. io = NoIO /\ flash' = flash /\ op.pc \in NextPCs /\ op.fn = "next" /\ iter.live
  BY DEF NextStart, NextPageAfter, NextReopened, At, Settled, CallShape, NextPCs, NextHasIter
<1>2. /\ op.pc \notin {"idle", "erase_all"} /\ ~Disturbed /\ Ordered(Now)
      /\ Now \in [Pages -> PageState] /\ iter.page \in Pages /\ NextPage(iter.page) \in Pages
      /\ op.pc \in RefreshedPCs => Good(cache)
      /\ Refresh(cache) \in CacheType /\ cache \in CacheType
  <2>1. op.pc \notin {"idle", "erase_all"}
    BY <1>1 DEF NextPCs
  <2>2. QED  BY <1>1, <2>1, IterFacts DEF Sane
<1>3. /\ Bare(cache) /\ Bare(Refresh(cache))
      /\ \A p \in Pages: Pointed(Refresh(cache), p, flash[p].words)
      /\ op.pc \in RefreshedPCs \/ HasEntry => \A p \in Pages: Pointed(cache, p, flash[p].words)
  BY <1>1, WordsFacts
<1>4. CASE NextStart
  <2>1. op'.pc = "scan" /\ iter' = iter /\ io' = NoIO /\ Forgets(cache', Refresh(cache))
    BY <1>1, <1>2, <1>4, ForgetOps DEF NextStart, Goto, Settled, OpType
  <2>2. QED  BY <1>1, <1>2, <1>3, <2>1, WordsRead
<1>5. CASE NextPageAfter
  <2> DEFINE next == NextPage(iter.page)
             known == Learn(cache, {next})
  <2>1. op.pc = "scan" /\ Good(cache)
    BY <1>2, <1>5 DEF NextPageAfter, At, RefreshedPCs
  <2>2. known \in CacheType /\ Good(known) /\ Forgets(known, cache)
    BY <1>2, <2>1, LearnType, GoodOps, ForgetOps
  <2>3. Bare(known) /\ \A p \in Pages: Pointed(known, p, flash[p].words)
    BY <1>3, <2>1, <2>2, Forgotten DEF RefreshedPCs
  <2>4. StateOf(cache, next) = MarkedState(flash[next])
    BY <1>2, <2>1, StateIsMark
  <2>5. /\ iter' = iter
        /\ \/ HandleCorruption(known) /\ io' = io
           \/ cache' = UnmarkDirty(known) /\ Return(Result("None")) /\ io' = io
           \/ /\ MarkedState(flash[next]) \in {"PartialOpen", "Closed"} /\ next # iter.oldest
              /\ IF iter.prev = "AllPopped" THEN OpenPage(known, iter.page)
                 ELSE cache' = known /\ io' = io
              /\ Goto("reopened")
    BY <1>5, <2>4 DEF NextPageAfter
  <2>6. ASSUME MarkedState(flash[next]) \in {"PartialOpen", "Closed"}, next # iter.oldest
        PROVE  MarkedState(flash[iter.page]) # "PartialOpen"
    <3>1. SUFFICES ASSUME MarkedState(flash[iter.page]) = "PartialOpen" PROVE FALSE
      OBVIOUS
    <3>2. Now[iter.page] = "PartialOpen" /\ Now[next] \in {"PartialOpen", "Closed"}
      BY <1>2, <2>6, <3>1 DEF Now, Marks
    <3>3. Now[next] # "Closed"
      BY <1>1, <1>2, <2>6, <3>2 DEF WordsInv, OldestKnown
    <3>4. next = iter.page
      BY <1>2, <3>2, <3>3, OnePartial
    <3>5. \A q \in Pages: q = 0
      BY <1>2, <3>4, OnlyPage
    <3>6. 1 \in Pages
      BY PageCountAssumption DEF Pages
    <3>7. QED  BY <3>5, <3>6
  <2> HIDE DEF known, next
  <2>7. CASE HandleCorruption(known) /\ io' = io
    BY <1>1, <1>2, <2>2, <2>3, <2>5, <2>7, WordsCorruption
  <2>8. CASE cache' = UnmarkDirty(known) /\ Return(Result("None")) /\ io' = io
    <3>1. op'.pc = "idle" /\ io' = NoIO /\ Forgets(cache', known)
      BY <1>1, <2>2, <2>8, SmallTypes, ForgetOps DEF Return
    <3>2. QED  BY <1>1, <1>2, <2>2, <2>3, <2>5, <3>1, WordsRead
  <2>9. CASE /\ MarkedState(flash[next]) \in {"PartialOpen", "Closed"} /\ next # iter.oldest
             /\ IF iter.prev = "AllPopped" THEN OpenPage(known, iter.page)
                ELSE cache' = known /\ io' = io
             /\ Goto("reopened")
    <3>1. op'.pc = "reopened"
      BY <2>9 DEF Goto, OpType
    <3>2. CASE iter.prev = "AllPopped"
      BY <1>1, <1>2, <2>2, <2>3, <2>5, <2>6, <2>9, <3>1, <3>2, WordsMarker
    <3>3. CASE iter.prev # "AllPopped"
      <4>1. Forgets(cache', known) /\ io' = NoIO
        BY <1>1, <2>2, <2>9, <3>3, ForgetOps
      <4>2. QED  BY <1>1, <1>2, <2>2, <2>3, <2>5, <3>1, <4>1, WordsRead
    <3>4. QED  BY <3>2, <3>3
  <2>10. QED  BY <2>5, <2>7, <2>8, <2>9
<1>6. CASE NextReopened
  <2>1. /\ op.pc = "reopened" /\ op'.pc = "scan" /\ cache' = cache /\ io' = NoIO
        /\ iter'.live = iter.live /\ iter'.oldest = iter.oldest
    BY <1>1, <1>6 DEF NextReopened, At, Goto, Settled, OpType, IterType
  <2>2. Forgets(cache', cache)
    BY <1>2, <2>1, ForgetOps
  <2>3. QED  BY <1>1, <1>2, <1>3, <2>1, <2>2, WordsRead DEF RefreshedPCs
<1>7. QED  BY <1>4, <1>5, <1>6

\* next looks at the items of a page.
LEMMA NextItemWords ==
  ASSUME IInv, CacheInv, OrderInv, WordsInv, NextItem
  PROVE  WordsInv'
<1> USE DEF IInv, TypeOK
<1>1. io = NoIO /\ io' = NoIO /\ flash' = flash /\ op.pc = "scan"
  BY DEF NextItem, At, Settled
<1>2. op.pc \notin {"idle", "erase_all"} /\ cache \in CacheType
  BY <1>1
<1>3. Bare(cache) /\ \A p \in Pages: Pointed(cache, p, flash[p].words)
  BY <1>1, WordsFacts DEF RefreshedPCs
<1>4. \A a \in Addrs: /\ MovedPast(a).live = iter.live /\ MovedPast(a).oldest = iter.oldest
                      /\ MovedPast(a) \in IterType
  BY MovedPastType DEF MovedPast, IterType
<1>5. /\ iter'.live = iter.live /\ iter'.oldest = iter.oldest
      /\ \/ op' = op /\ cache' = cache
         \/ cache' = UnmarkDirty(cache) /\ \E i: Return(ItemResult(i))
  BY <1>4 DEF NextItem, IterType
<1>6. op'.pc \in {"scan", "idle"} /\ Forgets(cache', cache)
  BY <1>1, <1>2, <1>5, SmallTypes, ForgetOps DEF Return
<1>7. QED  BY <1>1, <1>2, <1>3, <1>5, <1>6, WordsRead

\* The calls that end by returning something.
LEMMA FinishWords ==
  ASSUME IInv, CacheInv, OrderInv, WordsInv, PopFinish \/ FindMaxFit \/ SpaceLeft
  PROVE  WordsInv'
<1> USE DEF IInv, TypeOK
<1> DEFINE c == Refresh(cache)
<1>1. /\ io = NoIO /\ io' = NoIO /\ flash' = flash /\ iter' = iter
      /\ op.pc \notin {"idle", "erase_all"}
  BY DEF PopFinish, FindMaxFit, SpaceLeft, At, Settled
<1>2. c \in CacheType /\ cache \in CacheType
  BY DirtyType
<1>3. /\ Bare(cache) /\ Bare(c)
      /\ \A p \in Pages: Pointed(c, p, flash[p].words)
      /\ op.pc \in RefreshedPCs \/ HasEntry => \A p \in Pages: Pointed(cache, p, flash[p].words)
  BY <1>1, WordsFacts
<1>4. CASE PopFinish
  <2>1. op.pc = "popped" /\ cache' = UnmarkDirty(cache) /\ op'.pc = "idle"
    BY <1>4, SmallTypes DEF PopFinish, At, Return
  <2>2. Forgets(cache', cache)
    BY <1>2, <2>1, ForgetOps
  <2>3. QED  BY <1>1, <1>2, <1>3, <2>1, <2>2, WordsRead DEF RefreshedPCs
<1>5. ASSUME NEW known \in CacheType, Forgets(known, c),
             HandleCorruption(known) \/ (cache' = UnmarkDirty(known) /\ op' = Idle)
      PROVE  WordsInv'
  <2>1. Bare(known) /\ \A p \in Pages: Pointed(known, p, flash[p].words)
    BY <1>3, <1>5, Forgotten
  <2>2. CASE HandleCorruption(known)
    BY <1>1, <1>5, <2>1, <2>2, WordsCorruption
  <2>3. CASE cache' = UnmarkDirty(known) /\ op' = Idle
    <3>1. op'.pc = "idle" /\ Forgets(cache', known)
      BY <1>5, <2>3, SmallTypes, ForgetOps
    <3>2. QED  BY <1>1, <1>5, <2>1, <3>1, WordsRead
  <2>4. QED  BY <1>5, <2>2, <2>3
<1>6. \A S: Learn(c, S) \in CacheType /\ Forgets(Learn(c, S), c)
  BY <1>2, LearnType, ForgetOps
<1>7. CASE FindMaxFit
  <2>1. PICK S: \/ HandleCorruption(LearnYoungest(c)) \/ HandleCorruption(Learn(LearnYoungest(c), S))
                \/ cache' = UnmarkDirty(Learn(LearnYoungest(c), S)) /\ op' = Idle
    BY <1>7 DEF FindMaxFit, Return
  <2>2. LearnYoungest(c) \in CacheType /\ Forgets(LearnYoungest(c), c)
    BY <1>6 DEF LearnYoungest
  <2> HIDE DEF c
  <2>3. /\ Learn(LearnYoungest(c), S) \in CacheType
        /\ Forgets(Learn(LearnYoungest(c), S), LearnYoungest(c))
    BY <2>2, LearnType, ForgetOps
  <2>4. Forgets(Learn(LearnYoungest(c), S), c)
    BY <2>2, <2>3, ForgetsTrans
  <2>5. QED  BY <1>5, <2>1, <2>2, <2>3, <2>4
<1>8. CASE SpaceLeft
  <2>1. PICK S: \/ HandleCorruption(Learn(c, S))
                \/ cache' = UnmarkDirty(Learn(c, S)) /\ op' = Idle
    BY <1>8 DEF SpaceLeft, Return
  <2>2. QED  BY <1>5, <1>6, <2>1
<1>9. QED  BY <1>4, <1>7, <1>8

\* Every step preserves what the pointers and the pending operation say of the words.
LEMMA StepWords ==
  ASSUME PageCount >= 2, CacheKind = "none" \/ "erase_all" \notin UserCalls
  PROVE  IInv /\ NextHasIter /\ CacheInv /\ OrderInv /\ WordsInv /\ [Next]_vars => WordsInv'
<1> SUFFICES ASSUME IInv, NextHasIter, CacheInv, OrderInv, WordsInv, [Next]_vars PROVE WordsInv'
  OBVIOUS
<1>1. CASE UNCHANGED vars
  <2>1. /\ Now' = Now /\ Then' = Then /\ Disturbed' = Disturbed /\ Completed(io)' = Completed(io)
        /\ (Trusted' <=> Trusted)
    BY <1>1 DEF vars, Now, Then, Marks, Completed, Disturbed, Usable, Trusted
  <2>2. FitFor(flash[io.page], io)' /\ TidyFlash' /\ Located'
    BY <1>1, <2>1 DEF vars, WordsInv, TidyFlash, Located
  <2>3. PointersKnown' /\ OldestKnown(Now)' /\ OldestKnown(Then)'
    BY <1>1, <2>1 DEF vars, WordsInv, PointersKnown, OldestKnown
  <2>4. QED  BY <2>2, <2>3 DEF WordsInv
<1>2. CASE Call
  BY <1>2, CallsWords
<1>3. CASE Fail \/ PowerLoss
  BY <1>3, FaultWords
<1>4. CASE Step
  BY <1>4, FlashDoneWords, RepairWords, PushSearchWords, PushNextWords, PushWriteWords,
     IterStartWords, NextPageWords, NextItemWords, FinishWords, EraseAllWords DEF Step
<1>5. QED  BY <1>1, <1>2, <1>3, <1>4 DEF Next

\* A word that is about to be written is erased, and a header that is about to be zeroed is
\* that of an intact item, for any number of pages from two on, any items, any cache and
\* any sequence of calls, failures and power losses.  With a single page it does not hold:
\* an erase cut short leaves a page that is opened again without being erased.
THEOREM WritesErased ==
  ASSUME PageCount >= 2, CacheKind = "none" \/ "erase_all" \notin UserCalls
  PROVE  Spec => []WritesErasedWords
<1>1. Init => CacheInv /\ OrderInv /\ WordsInv
  BY InitCache, InitOrder, InitWords
<1>2. /\ IInv /\ NextHasIter /\ CacheInv /\ OrderInv /\ WordsInv /\ [Next]_vars
      => CacheInv' /\ OrderInv' /\ WordsInv'
  BY StepCache, StepOrder, StepWords
<1>3. IInv /\ WordsInv => WritesErasedWords
  <2> SUFFICES ASSUME IInv, WordsInv PROVE WritesErasedWords
    OBVIOUS
  <2> DEFINE pg == flash[io.page]
  <2>1. pg \in Page /\ pg.words \in [Addrs -> Word] /\ io.addr \in Addrs /\ FitFor(pg, io)
    BY DEF IInv, TypeOK, IOType, Page, WordsInv
  <2> HIDE DEF pg
  <2>2. io.cmd = "start" => ~pg.start
    BY <2>1 DEF FitFor, MarkedState, Page
  <2>3. io.cmd = "end" => pg.start /\ ~pg.end
    BY <2>1 DEF FitFor, MarkedState, Page
  <2>4. io.cmd = "header" => pg.start /\ ~pg.end /\ pg.words[io.addr] = Blank
    <3>1. 0 \in 0 .. PageWords /\ io.addr # PageWords
      BY <2>1, PageWordsAssumption DEF Addrs
    <3>2. io.cmd = "header" => MarkedState(pg) = "PartialOpen" /\ io.addr = EndOfItems(pg.words, 0)
      BY <2>1 DEF FitFor
    <3>3. EndOfItems(pg.words, 0) = PageWords \/ pg.words[EndOfItems(pg.words, 0)] = Blank
      BY <2>1, <3>1, EndIsEnd
    <3>4. MarkedState(pg) = "PartialOpen" => pg.start /\ ~pg.end
      BY <2>1 DEF MarkedState, Page
    <3>5. QED  BY <3>1, <3>2, <3>3, <3>4
  <2>5. ASSUME io.cmd = "data"
        PROVE  /\ DataAddrs(io.addr, io.item) \subseteq Addrs
               /\ \A a \in DataAddrs(io.addr, io.item): pg.words[a] = Blank
    <3>1. io.item \in Items /\ Size[io.item] \in Nat /\ DataReady(pg.words, io.addr, io.item)
      BY <2>1, <2>5, SizeAssumption DEF IInv, HasData, FitFor
    <3>2. ASSUME NEW a \in DataAddrs(io.addr, io.item) PROVE a \in Addrs /\ a >= io.addr + 1
      BY <2>1, <3>1, PageWordsAssumption DEF DataAddrs, DataReady, Fits, Addrs
    <3>3. QED  BY <3>1, <3>2 DEF DataReady, BlankFrom
  <2>6. io.cmd = "zero" => IsPresent(pg.words, io.addr)
    BY <2>1 DEF FitFor
  <2>7. QED  BY <2>2, <2>3, <2>4, <2>5, <2>6 DEF WritesErasedWords, pg
<1>4. QED  BY <1>1, <1>2, <1>3, Invariance, PTL DEF Spec

\* The page pointers a clean cache has are those a scan of flash would find.
THEOREM CachedPointersCorrect ==
  ASSUME PageCount >= 2, CacheKind = "none" \/ "erase_all" \notin UserCalls
  PROVE  Spec => []CachedPointers
<1>1. Init => CacheInv /\ OrderInv /\ WordsInv
  BY InitCache, InitOrder, InitWords
<1>2. /\ IInv /\ NextHasIter /\ CacheInv /\ OrderInv /\ WordsInv /\ [Next]_vars
      => CacheInv' /\ OrderInv' /\ WordsInv'
  BY StepCache, StepOrder, StepWords
<1>3. IInv /\ WordsInv => CachedPointers
  <2> SUFFICES ASSUME IInv, WordsInv, op = Idle, ~cache.dirty, NEW p \in Pages
               PROVE  LET ws == flash[p].words IN
                      /\ cache.written[p] \in {NoAddr, EndOfItems(ws, 0)}
                      /\ cache.erased[p] # NoAddr =>
                           /\ FirstUnerased(ws, cache.erased[p]) = FirstUnerased(ws, 0)
                           /\ EndOfItems(ws, cache.erased[p]) = EndOfItems(ws, 0)
    BY DEF CachedPointers
  <2>1. Pointed(cache, p, flash[p].words)
    BY NoIOCompleted DEF WordsInv, PointersKnown, Trusted, IInv, TypeOK, QuietIdle
  <2>2. \A ws, from: FirstUnerased(ws, from) =
          LET a == Unerased(ws, from) IN IF a < PageWords /\ ws[a] # Blank THEN a ELSE NoAddr
    BY DEF FirstUnerased, Unerased
  <2>3. QED  BY <2>1, <2>2 DEF Pointed
<1>4. QED  BY <1>1, <1>2, <1>3, Invariance, PTL DEF Spec

-----------------------------------------------------------------------------
(***************************************************************************)
(* A push is refused for lack of space by a queue that holds an item only   *)
(* (FullHoldsItem).                                                         *)
(*                                                                         *)
(* The closed page that refuses it has a header that is not zeroed; without *)
(* faults every such header is that of an intact item, but for the one whose *)
(* data is about to be written (ItemsIntact).                               *)
(***************************************************************************)

\* An item whose CRC field is not zeroed is intact.
Intact(ws, a) == Stops(ws, a) => IsPresent(ws, a)

\* So are all of them as the pending operation will leave flash, but the one whose header
\* has been written and whose data has not.
ItemsIntact ==
  \A p \in Pages: \A a \in Addrs:
    op.pc # "data" \/ <<p, a>> # <<op.cur, op.addr>> => Intact(Completed(io)[p].words, a)

\* What a push has returned is kept only between two calls.
QuietPush == ret.fn = "push" => op = Idle

FullInv == faults = 0 => ItemsIntact /\ QuietPush /\ FullHoldsItem

\* An operation leaves intact what was.
LEMMA AppliedIntact ==
  ASSUME NEW pg \in Page, NEW c \in IOType, HasData(c), FitFor(pg, c),
         NEW a \in Addrs, c.cmd \in {"header", "data"} => a # c.addr, Intact(pg.words, a)
  PROVE  Intact(Applied(pg, c).words, a)
<1> DEFINE ws == pg.words
           v == Applied(pg, c).words
<1>1. /\ ws \in [Addrs -> Word] /\ c.addr \in Addrs
      /\ c.cmd \in {"header", "data"} => c.item \in Items
  BY DEF Page, IOType, HasData
<1>2. CASE c.cmd \in {"none", "start", "end"}
  <2>1. v = ws
    BY <1>2 DEF Applied, Page
  <2>2. QED  BY <2>1
<1>3. CASE c.cmd \in {"erase", "erase_all"}
  <2>1. v[a] = Blank
    BY <1>3 DEF Applied, ErasedPage
  <2>2. QED  BY <2>1 DEF Intact, Stops, IsItem, Blank
<1>4. ASSUME v \in [Addrs -> Word], v[a] = ws[a],
             \A b \in Addrs: ws[b].kind = "body" => v[b] = ws[b]
      PROVE  Intact(v, a)
  <2>1. SUFFICES ASSUME Stops(v, a) PROVE IsPresent(v, a)
    BY DEF Intact
  <2>2. IsPresent(ws, a) /\ ws[a].len \in Nat /\ a + 1 + ws[a].len <= PageWords
    BY <1>1, <1>4, <2>1 DEF Intact, Stops, IsItem, Word
  <2>3. \A k \in 1 .. ws[a].len: a + k \in Addrs /\ ws[a + k].kind = "body" /\ ws[a + k] = Body(ws[a].crc)
    BY <2>2, PageWordsAssumption DEF IsPresent, Body, Addrs
  <2> HIDE DEF v, ws
  <2>4. QED  BY <1>4, <2>1, <2>2, <2>3 DEF Stops, IsPresent, IsItem
<1>5. CASE c.cmd = "header"
  <2>1. ws[c.addr] = Blank
    <3>1. 0 \in 0 .. PageWords /\ c.addr # PageWords
      BY <1>1, PageWordsAssumption DEF Addrs
    <3>2. QED  BY <1>1, <1>5, <3>1, EndIsEnd DEF FitFor
  <2>2. v = [ws EXCEPT ![c.addr] = Header(c.item)] /\ Header(c.item) \in Word
    BY <1>1, <1>5, <2>1, SizeAssumption DEF Applied, WithWord, Page, Programmed, Header, Word
  <2>3. Blank.kind # "body"
    BY DEF Blank
  <2>4. v \in [Addrs -> Word] /\ \A b \in Addrs: b # c.addr => v[b] = ws[b]
    BY <1>1, <2>2
  <2>5. QED  BY <1>4, <1>5, <2>1, <2>3, <2>4
<1>6. CASE c.cmd = "data"
  <2>1. v = [b \in Addrs |-> IF b \in DataAddrs(c.addr, c.item) THEN Programmed(ws[b], Body(c.item)) ELSE ws[b]]
    BY <1>1, <1>6 DEF Applied, WithWords, Page
  <2>2. \A b \in DataAddrs(c.addr, c.item): b \in Addrs => ws[b] = Blank
    <3>1. Size[c.item] \in Nat /\ DataReady(ws, c.addr, c.item)
      BY <1>1, <1>6, SizeAssumption DEF FitFor
    <3>2. QED  BY <1>1, <3>1 DEF DataReady, BlankFrom, DataAddrs, Addrs
  <2>3. v \in [Addrs -> Word]
    BY <1>1, <1>6, <2>1, ProgrammedType
  <2>4. Blank.kind # "body"
    BY DEF Blank
  <2>5. CASE a \in DataAddrs(c.addr, c.item)
    <3>1. v[a] = Body(c.item)
      BY <2>1, <2>2, <2>5 DEF Programmed
    <3>2. QED  BY <3>1 DEF Intact, Stops, IsItem, Body
  <2>6. CASE a \notin DataAddrs(c.addr, c.item)
    <3>1. v[a] = ws[a] /\ \A b \in Addrs: ws[b].kind = "body" => v[b] = ws[b]
      BY <2>1, <2>2, <2>4, <2>6
    <3>2. QED  BY <1>4, <2>3, <3>1
  <2>7. QED  BY <2>5, <2>6
<1>7. CASE c.cmd = "zero"
  <2>1. ws[c.addr].kind = "header" /\ IsPresent(ws, c.addr)
    BY <1>7 DEF FitFor, IsPresent, IsItem
  <2>2. v = [ws EXCEPT ![c.addr] = ZeroedHeader(ws[c.addr])] /\ ZeroedHeader(ws[c.addr]) \in Word
    BY <1>1, <1>7, BlankType DEF Applied, WithWord, Page
  <2>3. /\ v \in [Addrs -> Word] /\ v[c.addr] = ZeroedHeader(ws[c.addr])
        /\ \A b \in Addrs: b # c.addr => v[b] = ws[b]
    BY <1>1, <2>2
  <2>4. CASE a = c.addr
    <3>1. v[a].crc = NoItem
      BY <1>1, <2>3, <2>4 DEF ZeroedHeader, Word
    <3>2. QED  BY <3>1 DEF Intact, Stops
  <2>5. CASE a # c.addr
    BY <1>4, <2>1, <2>3, <2>5
  <2>6. QED  BY <2>4, <2>5
<1>8. QED  BY <1>2, <1>3, <1>5, <1>6, <1>7 DEF IOType, Commands

\* With its data an item is intact.
LEMMA WrittenIntact ==
  ASSUME NEW pg \in Page, NEW c \in IOType, HasData(c), c.cmd = "data", FitFor(pg, c)
  PROVE  Intact(Applied(pg, c).words, c.addr)
<1> DEFINE ws == pg.words
           v == Applied(pg, c).words
           a == c.addr
           i == c.item
<1>1. /\ ws \in [Addrs -> Word] /\ a \in Addrs /\ i \in Items /\ Size[i] \in Nat
      /\ DataReady(ws, a, i)
  BY SizeAssumption DEF Page, IOType, HasData, FitFor
<1>2. v = [b \in Addrs |-> IF b \in DataAddrs(a, i) THEN Programmed(ws[b], Body(i)) ELSE ws[b]]
  BY <1>1 DEF Applied, WithWords, Page
<1> HIDE DEF v, ws, a, i
<1>3. \A k \in 1 .. Size[i]: a + k \in Addrs /\ a + k \in DataAddrs(a, i) /\ a + k >= a + 1
  BY <1>1, PageWordsAssumption DEF DataReady, Fits, DataAddrs, Addrs
<1>4. \A k \in 1 .. Size[i]: v[a + k] = Body(i)
  BY <1>1, <1>2, <1>3 DEF DataReady, BlankFrom, Programmed
<1>5. v[a] = Header(i)
  <2>1. a \notin DataAddrs(a, i)
    BY <1>1 DEF DataAddrs, Addrs
  <2>2. QED  BY <1>1, <1>2, <2>1 DEF DataReady
<1>6. IsPresent(v, a)
  BY <1>1, <1>4, <1>5 DEF IsPresent, IsItem, Header, DataReady, Fits
<1>7. QED  BY <1>6 DEF Intact, v, a


\* A pending write is that of the running push.
LEMMA ItemsKept ==
  ASSUME IInv, ItemsIntact, io = NoIO, flash' = flash, io' \in IOType, HasData(io)',
         FitFor(flash[io.page], io)', op \in OpType,
         io'.cmd = "header" => op'.pc = "data" /\ op'.cur = io'.page /\ op'.addr = io'.addr,
         io'.cmd = "data" => op.pc = "data" /\ op.cur = io'.page /\ op.addr = io'.addr,
         \/ op.pc # "data" \/ io'.cmd = "data"
         \/ Intact(flash[op.cur].words, op.addr)
  PROVE  ItemsIntact'
<1>1. /\ flash \in [Pages -> Page] /\ io'.page \in Pages /\ io'.addr \in Addrs
      /\ Completed(io) = flash /\ HasData(io') /\ FitFor(flash[io'.page], io')
  BY NoIOCompleted DEF IInv, TypeOK, IOType, HasData, FitFor
<1>2. ASSUME NEW p \in Pages, NEW a \in Addrs,
             op'.pc # "data" \/ <<p, a>> # <<op'.cur, op'.addr>>
      PROVE  Intact(Completed(io)'[p].words, a)
  <2>1. (io'.cmd = "data" /\ p = io'.page /\ a = io'.addr) \/ Intact(flash[p].words, a)
    <3>1. CASE op.pc # "data" \/ <<p, a>> # <<op.cur, op.addr>>
      BY <1>1, <3>1 DEF ItemsIntact
    <3>2. CASE op.pc = "data" /\ p = op.cur /\ a = op.addr
      BY <3>2
    <3>3. QED  BY <3>1, <3>2
  <2>2. CASE io'.cmd = "erase_all"
    <3>1. Completed(io)'[p].words[a] = Blank
      BY <2>2 DEF Completed, ErasedPage
    <3>2. QED  BY <3>1 DEF Intact, Stops, IsItem, Blank
  <2>3. CASE io'.cmd # "erase_all" /\ p # io'.page
    <3>1. Completed(io)'[p] = flash[p]
      BY <1>1, <2>3 DEF Completed
    <3>2. QED  BY <2>1, <2>3, <3>1
  <2>4. CASE io'.cmd # "erase_all" /\ p = io'.page
    <3>1. Completed(io)'[p] = Applied(flash[p], io')
      BY <1>1, <2>4 DEF Completed
    <3>2. flash[p] \in Page /\ FitFor(flash[p], io')
      BY <1>1, <2>4
    <3>3. CASE io'.cmd = "data" /\ a = io'.addr
      BY <1>1, <3>1, <3>2, <3>3, WrittenIntact
    <3>4. CASE ~(io'.cmd = "data" /\ a = io'.addr)
      <4>1. Intact(flash[p].words, a)
        BY <2>1, <3>4
      <4>2. io'.cmd \in {"header", "data"} => a # io'.addr
        BY <1>2, <2>4, <3>4
      <4>3. QED  BY <1>1, <3>1, <3>2, <4>1, <4>2, AppliedIntact
    <3>5. QED  BY <3>3, <3>4
  <2>5. QED  BY <2>2, <2>3, <2>4
<1>3. QED  BY <1>2 DEF ItemsIntact

\* A step that writes no item, and does not refuse one.
LEMMA FullKept ==
  ASSUME IInv, IInv', WordsInv', FullInv, io = NoIO, flash' = flash, faults' = faults,
         op.pc # "data", op'.pc # "data", io'.cmd \notin {"header", "data"},
         \/ ret' = ret /\ (op # Idle \/ op' = Idle)
         \/ ret'.fn # "push"
         \/ op' = Idle /\ ret'.status # "FullStorage"
  PROVE  FullInv'
<1>1. SUFFICES ASSUME faults = 0 PROVE (ItemsIntact /\ QuietPush /\ FullHoldsItem)'
  BY DEF FullInv
<1>2. ItemsIntact /\ QuietPush /\ FullHoldsItem
  BY <1>1 DEF FullInv
<1>3. io' \in IOType /\ HasData(io)' /\ FitFor(flash[io.page], io)' /\ op \in OpType
  BY DEF IInv, TypeOK, WordsInv
<1>4. ItemsIntact'
  BY <1>2, <1>3, ItemsKept
<1>5. QuietPush'
  BY <1>2 DEF QuietPush
<1>6. FullHoldsItem'
  BY <1>2 DEF FullHoldsItem, QuietPush
<1>7. QED  BY <1>4, <1>5, <1>6

\* The calls that begin.
LEMMA CallsFull ==
  ASSUME IInv, IInv', WordsInv', FullInv, Call
  PROVE  FullInv'
<1>1. op = Idle /\ io = NoIO /\ op.pc = "idle"
  BY SmallTypes DEF Call, CallPush, CallIter, CallNext, CallPop, DropIter, CallFindMaxFit,
     CallSpaceLeft, CallEraseAll, Start, QuietIdle, IInv
<1>2. NoRet.fn # "push" /\ NoIO.cmd = "none"
  BY DEF NoRet, NoIO
<1>3. ASSUME NEW i \in Items, NEW allow \in BOOLEAN, CallPush(i, allow) PROVE FullInv'
  <2>1. /\ op'.pc = "push" /\ flash' = flash /\ io' = io /\ faults' = faults
        /\ ret' = NoRet \/ ret'.fn \in {"find_max_fit", "space_left"}
    BY <1>3 DEF CallPush, gvars, Idle
  <2>2. QED  BY <1>1, <1>2, <2>1, FullKept
<1>4. CASE CallIter \/ CallFindMaxFit \/ CallSpaceLeft \/ CallNext
  <2>1. PICK fn \in {"iter", "find_max_fit", "space_left", "next"}: Start(fn)
    BY <1>4 DEF CallIter, CallFindMaxFit, CallSpaceLeft, CallNext
  <2>2. op'.pc = fn /\ flash' = flash /\ io' = io /\ faults' = faults /\ ret' = NoRet
    BY <2>1 DEF Start, gvars, Idle
  <2>3. QED  BY <1>1, <1>2, <2>2, FullKept
<1>5. CASE DropIter
  <2>1. op' = op /\ ret' = ret /\ flash' = flash /\ io' = io /\ faults' = faults
    BY <1>5 DEF DropIter, gvars
  <2>2. QED  BY <1>1, <1>2, <2>1, FullKept
<1>6. CASE CallPop \/ CallEraseAll
  <2>1. /\ op'.pc \in {"popped", "erase_all"} /\ flash' = flash /\ faults' = faults /\ ret' = NoRet
        /\ io'.cmd \in {"zero", "erase_all"}
    <3>1. CASE CallPop
      BY <3>1 DEF CallPop, EraseItem, ItemIO, Idle
    <3>2. CASE CallEraseAll
      BY <3>2 DEF CallEraseAll, PageIO, NoIO, Idle
    <3>3. QED  BY <1>6, <3>1, <3>2
  <2>2. QED  BY <1>1, <1>2, <2>1, FullKept
<1>7. QED  BY <1>3, <1>4, <1>5, <1>6 DEF Call


\* The current page is full.  With FullStorage the next page is closed and holds an item.
LEMMA PushNextFull ==
  ASSUME IInv, IInv', CacheInv, OrderInv, WordsInv, WordsInv', FullInv, PushNext, PageCount >= 2
  PROVE  FullInv'
<1> USE DEF IInv, TypeOK
<1> DEFINE next == NextPage(op.cur)
           known == Learn(cache, {next})
<1>1. /\ io = NoIO /\ flash' = flash /\ faults' = faults /\ op.pc = "place" /\ op # Idle /\ op.fn = "push"
      /\ NoIO.cmd = "none"
  BY SmallTypes DEF PushNext, At, CallShape, PushPCs, NoIO
<1>2. op.cur \in Pages /\ next \in Pages /\ Good(cache) /\ cache \in CacheType /\ op.pc \notin {"idle", "erase_all"}
  BY <1>1, PushFacts DEF RefreshedPCs
<1>3. known \in CacheType /\ Good(known) /\ Forgets(known, cache)
  BY <1>2, LearnType, GoodOps, ForgetOps
<1>4. \A p \in Pages: Pointed(known, p, flash[p].words)
  BY <1>1, <1>3, WordsFacts, Forgotten DEF RefreshedPCs
<1>5. next # op.cur
  <2>1. ASSUME next = op.cur PROVE FALSE
    <3>1. \A q \in Pages: q = 0
      BY <1>2, <2>1, OnlyPage
    <3>2. 1 \in Pages
      BY PageCountAssumption DEF Pages
    <3>3. QED  BY <3>1, <3>2
  <2>2. QED  BY <2>1
<1>6. \/ HandleCorruption(known) /\ io' = io
      \/ ClosePage(known, op.cur) /\ Goto("advance") /\ ret' = ret
      \/ /\ ~IsPageEmpty(known, next, "Closed") /\ io' = io
         /\ Return(Result("FullStorage"))
      \/ OpenPage(known, next) /\ Goto("opened") /\ ret' = ret
  BY <1>5 DEF PushNext
<1> HIDE DEF next, known
<1>7. CASE HandleCorruption(known) /\ io' = io
  <2>1. \/ op'.pc = "repair" /\ ret' = ret
        \/ op' = Idle /\ ret'.status # "FullStorage" /\ op'.pc = "idle"
    <3>1. CASE op.retried
      BY <1>7, <3>1, SmallTypes DEF HandleCorruption, Return, Result
    <3>2. CASE ~op.retried
      BY <1>7, <3>2 DEF HandleCorruption, OpType
    <3>3. QED  BY <3>1, <3>2
  <2>2. QED  BY <1>1, <1>7, <2>1, FullKept
<1>8. CASE ClosePage(known, op.cur) /\ Goto("advance") /\ ret' = ret
  <2>1. op'.pc = "advance" /\ io'.cmd \in {"none", "end"}
    <3>1. op'.pc = "advance"
      BY <1>8 DEF Goto, OpType
    <3>2. io' \in {PageIO("end", op.cur), NoIO}
      BY <1>8 DEF ClosePage
    <3>3. PageIO("end", op.cur).cmd = "end"
      BY DEF PageIO, NoIO
    <3>4. QED  BY <1>1, <3>1, <3>2, <3>3
  <2>2. QED  BY <1>1, <1>8, <2>1, FullKept
<1>9. CASE OpenPage(known, next) /\ Goto("opened") /\ ret' = ret
  <2>1. op'.pc = "opened" /\ io'.cmd = "erase"
    BY <1>9 DEF Goto, OpType, OpenPage, PageIO, NoIO
  <2>2. QED  BY <1>1, <1>9, <2>1, FullKept
<1>10. CASE /\ ~IsPageEmpty(known, next, "Closed") /\ io' = io
            /\ Return(Result("FullStorage"))
  <2>1. SUFFICES ASSUME faults = 0 PROVE (ItemsIntact /\ QuietPush /\ FullHoldsItem)'
    BY <1>1 DEF FullInv
  <2>2. ItemsIntact
    BY <1>1, <2>1 DEF FullInv
  <2>3. ItemsIntact' /\ op' = Idle
    <3>1. io' \in IOType /\ HasData(io)' /\ FitFor(flash[io.page], io)' /\ op \in OpType /\ op' = Idle
      BY <1>10 DEF WordsInv, Return
    <3>2. QED  BY <1>1, <1>10, <2>2, <3>1, ItemsKept
  <2> DEFINE ws == flash[next].words
             from == IF known.erased[next] = NoAddr THEN 0 ELSE known.erased[next]
             a == Unerased(ws, from)
  <2>4. ws \in [Addrs -> Word] /\ from \in 0 .. PageWords /\ Completed(io) = flash
    BY <1>1, <1>2, <1>3, NoIOCompleted, PageWordsAssumption DEF Page, CacheType, NoAddr
  <2>5. a < PageWords /\ ws[a] # Blank
    <3>1. FirstUnerased(ws, from) # NoAddr
      BY <1>10 DEF IsPageEmpty
    <3>2. QED  BY <3>1 DEF FirstUnerased, Unerased
  <2>6. a \in Addrs /\ Stops(ws, a)
    <3>1. a \in 0 .. PageWords /\ (a = PageWords \/ ws[a] = Blank \/ Stops(ws, a))
      BY <2>4, SearchIsEnd
    <3>2. QED  BY <2>5, <3>1, PageWordsAssumption DEF Addrs
  <2>7. IsPresent(ws, a)
    BY <1>1, <1>2, <2>2, <2>4, <2>6 DEF ItemsIntact, Intact
  <2>8. FullHoldsItem'
    BY <1>1, <1>2, <2>6, <2>7 DEF FullHoldsItem
  <2>9. QED  BY <2>3, <2>8 DEF QuietPush
<1>11. QED  BY <1>6, <1>7, <1>8, <1>9, <1>10

\* push_inner writes the item.
LEMMA PushWriteFull ==
  ASSUME IInv, IInv', WordsInv, WordsInv', FullInv, PushWrite \/ PushData
  PROVE  FullInv'
<1> USE DEF IInv, TypeOK
<1>1. io = NoIO /\ flash' = flash /\ faults' = faults /\ ret' = ret /\ op # Idle
  BY SmallTypes DEF PushWrite, PushData, At
<1>2. SUFFICES ASSUME faults = 0 PROVE (ItemsIntact /\ QuietPush /\ FullHoldsItem)'
  BY <1>1 DEF FullInv
<1>3. ItemsIntact /\ QuietPush
  BY <1>2 DEF FullInv
<1>4. QuietPush' /\ FullHoldsItem'
  BY <1>1, <1>3 DEF QuietPush, FullHoldsItem
<1>5. io' \in IOType /\ HasData(io)' /\ FitFor(flash[io.page], io)' /\ op \in OpType
  BY DEF WordsInv
<1>6. CASE PushWrite
  <2>1. op.pc = "write" /\ op'.pc = "data" /\ op'.cur = op.cur /\ op'.addr = op.addr
        /\ io'.cmd = "header" /\ io'.page = op.cur /\ io'.addr = op.addr
    BY <1>6 DEF PushWrite, At, Goto, OpType, WriteHeader, ItemIO
  <2>2. ItemsIntact'
    BY <1>1, <1>3, <1>5, <2>1, ItemsKept
  <2>3. QED  BY <1>4, <2>2
<1>7. CASE PushData
  <2> DEFINE ws == flash[op.cur].words
  <2>1. /\ op.pc = "data" /\ op'.pc = "finish"
        /\ io' = IF Size[op.item] = 0 THEN NoIO ELSE ItemIO("data", op.cur, op.addr, op.item)
    BY <1>7 DEF PushData, At, Goto, OpType, WriteData
  <2>2. io'.cmd = "data" => io'.page = op.cur /\ io'.addr = op.addr
    BY <2>1 DEF ItemIO, NoIO
  <2>3. io'.cmd # "header"
    BY <2>1 DEF ItemIO, NoIO
  <2>4. io'.cmd = "data" \/ Intact(ws, op.addr)
    <3>1. CASE Size[op.item] # 0
      BY <2>1, <3>1 DEF ItemIO
    <3>2. CASE Size[op.item] = 0
      <4>1. DataReady(ws, op.addr, op.item) /\ op.item \in Items
        BY <1>1, <2>1, NoIOCompleted DEF WordsInv, Located, CallShape, PushPCs
      <4>2. IsPresent(ws, op.addr)
        BY <3>2, <4>1 DEF DataReady, IsPresent, IsItem, Header, Fits
      <4>3. QED  BY <4>2 DEF Intact
    <3>3. QED  BY <3>1, <3>2
  <2> HIDE DEF ws
  <2>5. ItemsIntact'
    BY <1>1, <1>3, <1>5, <2>1, <2>2, <2>3, <2>4, ItemsKept DEF ws
  <2>6. QED  BY <1>4, <2>5
<1>8. QED  BY <1>6, <1>7


\* The other steps of a call: nothing is written, and nothing refused.
LEMMA OtherFull ==
  ASSUME IInv, IInv', WordsInv', FullInv,
         \/ RepairPage \/ RepairDone \/ PushTooBig \/ PushStart \/ PushHere \/ PushOpened
         \/ PushAdvance \/ PushFinish \/ IterStart \/ NextStart \/ NextPageAfter \/ NextReopened
         \/ NextItem \/ PopFinish \/ FindMaxFit \/ SpaceLeft \/ EraseAllFinish
  PROVE  FullInv'
<1> USE DEF IInv, TypeOK
<1>1. io = NoIO /\ flash' = flash /\ faults' = faults /\ op # Idle /\ op.pc # "data"
  BY SmallTypes DEF RepairPage, RepairDone, PushTooBig, PushStart, PushHere, PushOpened, PushAdvance,
     PushFinish, IterStart, NextStart, NextPageAfter, NextReopened, NextItem, PopFinish, FindMaxFit,
     SpaceLeft, EraseAllFinish, At, Settled
<1>2. NoIO.cmd = "none" /\ \A p, cmd: PageIO(cmd, p).cmd = cmd
  BY DEF NoIO, PageIO
<1>3. ASSUME ret' = ret, op'.pc # "data", io'.cmd \notin {"header", "data"} PROVE FullInv'
  BY <1>1, <1>3, FullKept
<1>4. ASSUME NEW r, Return(r), r.status # "FullStorage", io' = io PROVE FullInv'
  BY <1>1, <1>2, <1>4, SmallTypes, FullKept DEF Return
<1>5. ASSUME NEW c, HandleCorruption(c), io' = io PROVE FullInv'
  <2>1. CASE op.retried
    <3>1. Return(Result("Corrupted")) /\ Result("Corrupted").status # "FullStorage"
      BY <1>5, <2>1 DEF HandleCorruption, Result
    <3>2. QED  BY <1>4, <1>5, <3>1
  <2>2. CASE ~op.retried
    <3>1. ret' = ret /\ op'.pc = "repair"
      BY <1>5, <2>2 DEF HandleCorruption, OpType
    <3>2. QED  BY <1>1, <1>2, <1>3, <1>5, <3>1
  <2>3. QED  BY <2>1, <2>2
<1>6. /\ \A s: Result(s).status = s
      /\ \A i: ItemResult(i).status = "Ok"
      /\ \A n: NumResult(n).status = "Ok"
  BY DEF Result, ItemResult, NumResult
<1>7. /\ \A c, p: OpenPage(c, p) => io'.cmd \notin {"header", "data"}
      /\ \A c, p: PartialClosePage(c, p) => io'.cmd \notin {"header", "data"}
      /\ \A c, p: ClosePage(c, p) => io'.cmd \notin {"header", "data"}
  BY <1>2 DEF OpenPage, PartialClosePage, ClosePage
<1>8. CASE RepairPage
  BY <1>3, <1>7, <1>8 DEF RepairPage, At, OpType
<1>9. CASE RepairDone
  <2>1. ret' = ret /\ op'.pc = op.fn /\ io' = io /\ op.pc = "repair"
    BY <1>9 DEF RepairDone, Settled, OpType, At
  <2>2. op.fn # "data"
    BY DEF OpType, Functions
  <2>3. QED  BY <1>1, <1>2, <1>3, <2>1, <2>2
<1>10. CASE PushTooBig \/ PushFinish \/ PopFinish \/ EraseAllFinish
  BY <1>4, <1>6, <1>10 DEF PushTooBig, PushFinish, PopFinish, EraseAllFinish, Settled
<1>11. CASE PushStart
  <2>1. PICK youngest, known:
          IF youngest = CorruptedPage THEN HandleCorruption(known) /\ io' = io
          ELSE /\ PartialClosePage(known, youngest) /\ ret' = ret
               /\ op' = [op EXCEPT !.pc = "place", !.cur = youngest]
    BY <1>11 DEF PushStart
  <2>2. QED  BY <1>3, <1>5, <1>7, <2>1 DEF OpType
<1>12. CASE PushHere
  BY <1>1, <1>2, <1>3, <1>12 DEF PushHere, Settled, OpType
<1>13. CASE PushOpened
  <2>1. ret' = ret /\ op'.pc = "advance" /\ (io' = io \/ ClosePage(cache, op.cur))
    BY <1>13 DEF PushOpened, Goto, OpType
  <2>2. QED  BY <1>1, <1>2, <1>3, <1>7, <2>1
<1>14. CASE PushAdvance
  BY <1>3, <1>7, <1>14 DEF PushAdvance, OpType
<1>15. CASE IterStart
  <2>1. PICK known: io' = io /\ (HandleCorruption(known) \/ Return(Result("Ok")))
    BY <1>15 DEF IterStart, Settled
  <2>2. QED  BY <1>4, <1>5, <1>6, <2>1
<1>16. CASE NextStart \/ NextReopened
  <2>1. ret' = ret /\ op'.pc = "scan" /\ io' = io
    BY <1>16 DEF NextStart, NextReopened, Settled, Goto, OpType
  <2>2. QED  BY <1>1, <1>2, <1>3, <2>1
<1>17. CASE NextPageAfter
  <2>1. PICK known: \/ HandleCorruption(known) /\ io' = io
                    \/ Return(Result("None")) /\ io' = io
                    \/ /\ OpenPage(known, iter.page) \/ io' = io
                       /\ op'.pc = "reopened" /\ ret' = ret
    BY <1>17 DEF NextPageAfter, Goto, OpType
  <2>2. QED  BY <1>1, <1>2, <1>3, <1>4, <1>5, <1>6, <1>7, <2>1
<1>18. CASE NextItem
  <2>1. io' = io /\ ((op' = op /\ ret' = ret) \/ \E i: Return(ItemResult(i)))
    BY <1>18 DEF NextItem, Settled
  <2>2. QED  BY <1>1, <1>2, <1>3, <1>4, <1>6, <2>1
<1>19. CASE FindMaxFit
  <2>1. PICK c: io' = io /\ (HandleCorruption(c) \/ (\E r: Return(r) /\ r.status # "FullStorage"))
    BY <1>6, <1>19 DEF FindMaxFit, Settled
  <2>2. QED  BY <1>4, <1>5, <2>1
<1>20. CASE SpaceLeft
  <2>1. PICK c: io' = io /\ (HandleCorruption(c) \/ (\E n: Return(NumResult(n))))
    BY <1>20 DEF SpaceLeft, Settled
  <2>2. QED  BY <1>4, <1>5, <1>6, <2>1
<1>21. QED
  BY <1>8, <1>9, <1>10, <1>11, <1>12, <1>13, <1>14, <1>15, <1>16, <1>17, <1>18, <1>19, <1>20

\* A flash operation completes.
LEMMA FlashDoneFull ==
  ASSUME IInv, FullInv, FlashDone, UNCHANGED qvars
  PROVE  FullInv'
<1> USE DEF IInv, TypeOK
<1>1. io' = NoIO /\ io # NoIO /\ flash' = Completed(io) /\ UNCHANGED <<op, ret, faults>>
  BY DEF FlashDone, qvars
<1>2. Completed(io)' = Completed(io)
  <2>1. flash' \in [Pages -> Page]
    BY <1>1, FlashType
  <2>2. QED  BY <1>1, <2>1, NoIOCompleted
<1>3. ASSUME faults = 0 PROVE (ItemsIntact /\ QuietPush /\ FullHoldsItem)'
  <2>1. ItemsIntact /\ QuietPush
    BY <1>3 DEF FullInv
  <2>2. ItemsIntact' /\ QuietPush'
    BY <1>1, <1>2, <2>1 DEF ItemsIntact, QuietPush
  <2>3. FullHoldsItem'
    BY <1>1, <2>1 DEF FullHoldsItem, QuietPush, QuietIdle
  <2>4. QED  BY <2>2, <2>3
<1>4. QED  BY <1>1, <1>3 DEF FullInv

\* Every step preserves it.
LEMMA StepFull ==
  ASSUME PageCount >= 2
  PROVE  /\ IInv /\ IInv' /\ CacheInv /\ OrderInv /\ WordsInv /\ WordsInv' /\ FullInv /\ [Next]_vars
         => FullInv'
<1> SUFFICES ASSUME IInv, IInv', CacheInv, OrderInv, WordsInv, WordsInv', FullInv, [Next]_vars
             PROVE  FullInv'
  OBVIOUS
<1>1. CASE UNCHANGED vars
  <2>1. Completed(io)' = Completed(io)
    BY <1>1 DEF vars, Completed
  <2>2. QED  BY <1>1, <2>1 DEF vars, FullInv, ItemsIntact, QuietPush, FullHoldsItem
<1>2. CASE Fail \/ PowerLoss
  <2>1. faults' # 0
    BY <1>2 DEF Fail, PowerLoss, IInv, TypeOK
  <2>2. QED  BY <2>1 DEF FullInv
<1>3. CASE Call
  BY <1>3, CallsFull
<1>4. CASE Step
  BY <1>4, FlashDoneFull, PushNextFull, PushWriteFull, OtherFull DEF Step
<1>5. QED  BY <1>1, <1>2, <1>3, <1>4 DEF Next

\* Erased pages hold no item.
LEMMA InitFull == Init => FullInv
<1> SUFFICES ASSUME Init PROVE ItemsIntact /\ QuietPush /\ FullHoldsItem
  BY DEF FullInv
<1>1. op = Idle /\ ret.fn = "none"
  BY DEF Init, NoRet
<1>2. flash \in [Pages -> Page] /\ io = NoIO
  BY InitInv DEF IInv, TypeOK, Init, GenericInit
<1>3. Completed(io) = flash
  BY <1>2, NoIOCompleted
<1>4. \A p \in Pages: \A a \in Addrs: flash[p].words[a] = Blank
  BY DEF Init, GenericInit, ErasedPage
<1>5. ItemsIntact
  BY <1>3, <1>4 DEF ItemsIntact, Intact, Stops, IsItem, Blank
<1>6. QED  BY <1>1, <1>5 DEF QuietPush, FullHoldsItem

\* While no call was cut short, a push that is refused for lack of space leaves a queue that
\* holds an item, for any number of pages from two on and any sequence of calls.  With a
\* single page it does not hold: the page in use never counts as empty, although all its
\* items may have been popped.
THEOREM FullHoldsItemCorrect ==
  ASSUME PageCount >= 2, CacheKind = "none" \/ "erase_all" \notin UserCalls
  PROVE  Spec => []FullHoldsItem
<1>1. Init => CacheInv /\ OrderInv /\ WordsInv /\ FullInv
  BY InitCache, InitOrder, InitWords, InitFull
<1>2. /\ IInv /\ NextHasIter /\ IInv' /\ CacheInv /\ OrderInv /\ WordsInv /\ FullInv /\ [Next]_vars
      => CacheInv' /\ OrderInv' /\ WordsInv' /\ FullInv'
  BY StepCache, StepOrder, StepWords, StepFull
<1>3. FullInv => FullHoldsItem
  BY DEF FullInv, FullHoldsItem
<1>4. QED  BY <1>1, <1>2, <1>3, Invariance, PTL DEF Spec
=============================================================================
