---------------------------- MODULE QueueStorage ----------------------------
(***************************************************************************)
(* The FIFO queue of queue/mod.rs: push, iter / next / pop (peek and pop   *)
(* of the queue are these three in a row), find_max_fit, space_left and    *)
(* erase_all.  Each function runs as a sequence of steps cut at its flash   *)
(* writes and erases: between two of them the caller may lose power or     *)
(* drop the future, and a write may fail half-way.                         *)
(***************************************************************************)
EXTENDS GenericStorage

CONSTANTS UserCalls,   \* the functions the user calls
          MaxFaults    \* bound on failed calls and power losses

Functions == {"push", "iter", "next", "pop", "find_max_fit", "space_left", "erase_all"}

ASSUME UserCallsAssumption == UserCalls \subseteq Functions
ASSUME MaxFaultsAssumption == MaxFaults \in Nat

VARIABLES op,      \* the call that is running
          iter,    \* the live QueueIterator and its entry
          ret,     \* what the last call returned
          faults   \* faults so far

qvars == <<op, iter, ret, faults>>
vars == <<flash, cache, io, op, iter, ret, faults>>

-----------------------------------------------------------------------------

PCs == {"idle", "repair", "erase_all", "popped",
        "push", "place", "opened", "advance", "write", "data", "finish",
        "iter", "next", "scan", "reopened", "find_max_fit", "space_left"}

OpType == [fn: Functions \cup {"none"}, pc: PCs, item: Items \cup {NoItem},
           allow: BOOLEAN, cur: Pages, addr: Addrs, retried: BOOLEAN]

Idle == [fn |-> "none", pc |-> "idle", item |-> NoItem, allow |-> FALSE,
         cur |-> 0, addr |-> 0, retried |-> FALSE]

Statuses == {"none", "Ok", "None", "ItemTooBig", "FullStorage", "Corrupted",
             "Storage", "PowerLoss"}

RetType == [fn: Functions \cup {"none"}, status: Statuses,
            item: Items \cup {NoItem}, num: Int]

NoRet == [fn |-> "none", status |-> "none", item |-> NoItem, num |-> 0]

Result(status) == [fn |-> op.fn, status |-> status, item |-> NoItem, num |-> 0]
ItemResult(i) == [Result("Ok") EXCEPT !.item = i]
NumResult(n) == [Result("Ok") EXCEPT !.num = n]

\* next_address of the iterator is an address of `page`, or the page after it.
Previous == {"AllPopped", "AllButCurrentPopped", "Unpopped"}

IterType == [live: BOOLEAN, page: Pages, addr: 0 .. PageWords, after: BOOLEAN,
             prev: Previous, oldest: Pages, entryPage: Pages,
             entryAddr: Addrs \cup {NoAddr}]

NoIter == [live |-> FALSE, page |-> 0, addr |-> 0, after |-> FALSE,
           prev |-> "AllPopped", oldest |-> 0, entryPage |-> 0, entryAddr |-> NoAddr]

HasEntry == iter.entryAddr # NoAddr
\* Variant with a fault: an entry that is dropped counts as popped.
DropEntryPopped(it) == [it EXCEPT !.entryPage = 0, !.entryAddr = NoAddr, !.prev = "AllPopped"]

DropEntry(it) == [it EXCEPT !.entryPage = 0, !.entryAddr = NoAddr]

-----------------------------------------------------------------------------
(* Starting, finishing and repairing a call *)

\* After an erase_all that failed the user calls it again.
Usable == ~(ret.fn = "erase_all" /\ ret.status # "Ok")

Start(fn) ==
  /\ fn \in UserCalls
  /\ op = Idle
  /\ op' = [Idle EXCEPT !.fn = fn, !.pc = fn]
  /\ ret' = NoRet
  /\ UNCHANGED <<gvars, faults>>

Goto(pc) == op' = [op EXCEPT !.pc = pc]

Return(r) ==
  /\ op' = Idle
  /\ ret' = r

\* A step of the running call, which has no flash operation pending.
At(pc) == op.pc = pc /\ io = NoIO

Settled == UNCHANGED <<flash, io, faults>>

\* run_with_auto_repair: the first Corrupted error leads to try_repair and a
\* second attempt, whose error is the caller's.
HandleCorruption(c) ==
  IF op.retried
  THEN /\ cache' = c
       /\ Return(Result("Corrupted"))
  ELSE /\ cache' = FreshCache
       /\ op' = [op EXCEPT !.pc = "repair", !.cur = 0, !.retried = TRUE]
       /\ UNCHANGED ret

\* try_general_repair: pages are visited in order and the corrupted are erased.
\* Variant with a fault: the page after the one that is erased becomes the current page.
RepairPagePast ==
  LET torn == {p \in Pages: p >= op.cur /\ StateOf(cache, p) = "Corrupted"} IN
  /\ At("repair")
  /\ torn # {}
  /\ OpenPage(Learn(cache, op.cur .. Min(torn)), Min(torn))
  /\ op' = [op EXCEPT !.cur = Min(torn) + 1]
  /\ UNCHANGED <<flash, iter, ret, faults>>

RepairPage ==
  LET torn == {p \in Pages: p >= op.cur /\ StateOf(cache, p) = "Corrupted"} IN
  /\ At("repair")
  /\ torn # {}
  /\ OpenPage(Learn(cache, op.cur .. Min(torn)), Min(torn))
  /\ op' = [op EXCEPT !.cur = Min(torn)]
  /\ UNCHANGED <<flash, iter, ret, faults>>

\* Variant with a fault: the last page is not looked at.
RepairDoneButLast ==
  /\ At("repair")
  /\ \A p \in op.cur .. PageCount - 2: StateOf(cache, p) # "Corrupted"
  /\ cache' = Learn(cache, op.cur .. PageCount - 2)
  /\ op' = [op EXCEPT !.pc = op.fn, !.cur = 0]
  /\ Settled /\ UNCHANGED <<iter, ret>>

RepairDone ==
  /\ At("repair")
  /\ \A p \in op.cur .. PageCount - 1: StateOf(cache, p) # "Corrupted"
  /\ cache' = Learn(cache, op.cur .. PageCount - 1)
  /\ op' = [op EXCEPT !.pc = op.fn, !.cur = 0]
  /\ Settled /\ UNCHANGED <<iter, ret>>

-----------------------------------------------------------------------------
(* Finding pages *)

\* Variant with a fault: the open page is not searched from the anchor.
FindYoungestFirstOpen(c) ==
  LET partial == FindFirst(c, 0, "PartialOpen")
      open == FindFirst(c, 0, "Open")
  IN  IF partial # NoPage THEN partial
      ELSE IF open = NoPage THEN CorruptedPage
      ELSE open

\* find_youngest_page.  Without a partially open page every page has been read.
FindYoungest(c) ==
  LET partial == FindFirst(c, 0, "PartialOpen")
      anchor == FindFirst(c, 0, "Closed")
      open == FindFirst(c, anchor, "Open")
  IN  IF partial # NoPage THEN partial
      ELSE IF anchor = NoPage THEN 0
      ELSE IF open = NoPage THEN CorruptedPage
      ELSE open

LearnYoungest(c) == Learn(c, Scanned(c, 0, "PartialOpen"))

\* find_oldest_page: the first closed page after the youngest.
FindOldest(c, youngest) ==
  LET closed == FindFirst(c, youngest, "Closed")
  IN  IF youngest = CorruptedPage THEN CorruptedPage
      ELSE IF closed = NoPage THEN youngest
      ELSE closed

LearnOldest(c, youngest) ==
  Learn(LearnYoungest(c),
        IF youngest = CorruptedPage THEN {} ELSE Scanned(c, youngest, "Closed"))

-----------------------------------------------------------------------------
(* push *)

\* What find_max_fit or space_left just said is kept while the push runs.
CallPush(i, allow) ==
  /\ "push" \in UserCalls
  /\ op = Idle /\ ~iter.live /\ Usable
  /\ op' = [Idle EXCEPT !.fn = "push", !.pc = "push", !.item = i, !.allow = allow]
  /\ ret' = IF ret.fn \in {"find_max_fit", "space_left"} THEN ret ELSE NoRet
  /\ UNCHANGED <<gvars, iter, faults>>

\* push_inner up to partial_close_page(current_page)
PushTooBig ==
  /\ At("push")
  /\ Size[op.item] > PageWords - 1
  /\ cache' = UnmarkDirty(Refresh(cache))
  /\ Return(Result("ItemTooBig"))
  /\ Settled /\ UNCHANGED iter

PushStart ==
  /\ At("push")
  /\ Size[op.item] <= PageWords - 1
  /\ \E youngest \in {FindYoungest(Refresh(cache))},
        known \in {LearnYoungest(Refresh(cache))}:
     IF youngest = CorruptedPage
     THEN HandleCorruption(known) /\ UNCHANGED io
     ELSE /\ PartialClosePage(known, youngest)
          /\ op' = [op EXCEPT !.pc = "place", !.cur = youngest]
          /\ UNCHANGED ret
  /\ UNCHANGED <<flash, iter, faults>>

\* The item goes on the current page.
PushHere ==
  /\ At("place")
  /\ \E a \in Addrs:
       /\ a = FreeSpot(cache, op.cur) /\ Fits(a, Size[op.item])
       /\ op' = [op EXCEPT !.pc = "write", !.addr = a]
  /\ Settled /\ UNCHANGED <<cache, iter, ret>>

\* The current page is full: the next page decides.
PushNext ==
  LET next == NextPage(op.cur)
      state == StateOf(cache, next)
      single == next = op.cur
      known == Learn(cache, {next})
  IN
  /\ At("place")
  /\ ~Fits(FreeSpot(cache, op.cur), Size[op.item])
  /\ \/ /\ state = "Corrupted" \/ (state = "PartialOpen" /\ ~single)
        /\ HandleCorruption(known) /\ UNCHANGED io
     \/ /\ state = "Open"
        /\ ClosePage(known, op.cur)
        /\ Goto("advance") /\ UNCHANGED ret
     \/ /\ state = "Closed" \/ (state = "PartialOpen" /\ single)
        /\ ~op.allow /\ ~IsPageEmpty(known, next, state)
        /\ cache' = UnmarkDirty(known) /\ UNCHANGED io
        /\ Return(Result("FullStorage"))
     \/ /\ state = "Closed" \/ (state = "PartialOpen" /\ single)
        /\ op.allow \/ IsPageEmpty(known, next, state)
        /\ OpenPage(known, next)
        /\ Goto("opened") /\ UNCHANGED ret
  /\ UNCHANGED <<flash, iter, faults>>

\* The oldest page has been erased: the current page is closed, unless it is the
\* page that was erased.
PushOpened ==
  /\ At("opened")
  /\ IF NextPage(op.cur) = op.cur THEN UNCHANGED <<cache, io>>
     ELSE ClosePage(cache, op.cur)
  /\ Goto("advance")
  /\ UNCHANGED <<flash, iter, ret, faults>>

PushAdvance ==
  /\ At("advance")
  /\ PartialClosePage(cache, NextPage(op.cur))
  /\ op' = [op EXCEPT !.pc = "write", !.cur = NextPage(op.cur), !.addr = 0]
  /\ UNCHANGED <<flash, iter, ret, faults>>

PushWrite ==
  /\ At("write")
  /\ WriteHeader(cache, op.cur, op.addr, op.item)
  /\ Goto("data")
  /\ UNCHANGED <<flash, iter, ret, faults>>

PushData ==
  /\ At("data")
  /\ WriteData(op.cur, op.addr, op.item)
  /\ Goto("finish")
  /\ UNCHANGED <<flash, iter, ret, faults>>

PushFinish ==
  /\ At("finish")
  /\ cache' = UnmarkDirty(cache)
  /\ Return(Result("Ok"))
  /\ Settled /\ UNCHANGED iter

-----------------------------------------------------------------------------
(* iter, next and pop *)

CallIter == Start("iter") /\ ~iter.live /\ Usable /\ UNCHANGED iter

IterStart ==
  /\ At("iter")
  /\ \E youngest \in {FindYoungest(Refresh(cache))}:
     \E oldest \in {FindOldest(Refresh(cache), youngest)},
        known \in {LearnOldest(Refresh(cache), youngest)}:
     IF oldest = CorruptedPage
     THEN HandleCorruption(known) /\ UNCHANGED iter
     ELSE /\ cache' = known
          /\ iter' = [NoIter EXCEPT
                        !.live = TRUE, !.page = oldest, !.oldest = oldest,
                        !.addr = IF known.erased[oldest] = NoAddr THEN 0
                                 ELSE known.erased[oldest]]
          /\ Return(Result("Ok"))
  /\ Settled

DropIter ==
  /\ op = Idle /\ iter.live
  /\ iter' = NoIter
  /\ UNCHANGED <<gvars, op, ret, faults>>

\* Calling next gives up the entry returned before.
CallNext ==
  /\ Start("next")
  /\ iter.live
  /\ iter' = [DropEntry(iter) EXCEPT
                !.prev = IF @ = "AllButCurrentPopped" THEN "Unpopped" ELSE @]

NextStart ==
  /\ At("next")
  /\ cache' = Refresh(cache)
  /\ Goto("scan")
  /\ Settled /\ UNCHANGED <<iter, ret>>

\* The iterator is about to enter the page after iter.page: that page is
\* corrupted, or the end of the queue, or there are items on it.  In the last
\* case iter.page is erased if every item on it was popped.
NextPageAfter ==
  LET next == NextPage(iter.page)
      state == StateOf(cache, next)
      known == Learn(cache, {next})
  IN
  /\ At("scan") /\ iter.after
  /\ \/ /\ state = "Corrupted"
        /\ HandleCorruption(known) /\ UNCHANGED io
     \/ /\ state # "Corrupted"
        /\ state = "Open" \/ next = iter.oldest
        /\ cache' = UnmarkDirty(known) /\ UNCHANGED io
        /\ Return(Result("None"))
     \/ /\ state \in {"PartialOpen", "Closed"} /\ next # iter.oldest
        /\ IF iter.prev = "AllPopped" THEN OpenPage(known, iter.page)
           ELSE cache' = known /\ UNCHANGED io
        /\ Goto("reopened") /\ UNCHANGED ret
  /\ UNCHANGED <<flash, iter, faults>>

NextReopened ==
  /\ At("reopened")
  /\ iter' = [iter EXCEPT !.page = NextPage(@), !.addr = 0, !.after = FALSE]
  /\ Goto("scan")
  /\ Settled /\ UNCHANGED <<cache, ret>>

\* Variant with a fault: the iterator does not step over a corrupted item.
MovedPastPresent(a) ==
  LET next == NextAddr(flash[iter.page].words, a)
  IN  IF ~IsPresent(flash[iter.page].words, a) THEN iter
      ELSE IF next >= PageWords THEN [iter EXCEPT !.after = TRUE, !.addr = 0]
      ELSE [iter EXCEPT !.addr = next]

\* The iterator moved past the item at address a of its page.
MovedPast(a) ==
  LET next == NextAddr(flash[iter.page].words, a)
  IN  IF next >= PageWords THEN [iter EXCEPT !.after = TRUE, !.addr = 0]
      ELSE [iter EXCEPT !.addr = next]

\* Search for the first item with data.
NextItem ==
  LET ws == flash[iter.page].words
      found == FirstUnerased(ws, iter.addr)
  IN
  /\ At("scan") /\ ~iter.after
  /\ \/ /\ found = NoAddr
        /\ iter' = [iter EXCEPT !.after = TRUE, !.addr = 0]
        /\ UNCHANGED <<cache, op, ret>>
     \/ \E a \in Addrs:
        /\ a = found /\ ~IsPresent(ws, a)
        /\ iter' = MovedPast(a)
        /\ UNCHANGED <<cache, op, ret>>
     \/ \E a \in Addrs:
        /\ a = found /\ IsPresent(ws, a)
        /\ iter' = [MovedPast(a) EXCEPT
                      !.entryPage = iter.page, !.entryAddr = a,
                      !.prev = IF @ = "AllPopped" THEN "AllButCurrentPopped" ELSE @]
        /\ cache' = UnmarkDirty(cache)
        /\ Return(ItemResult(ws[a].crc))
  /\ Settled

CallPop ==
  /\ "pop" \in UserCalls
  /\ op = Idle /\ HasEntry
  /\ op' = [Idle EXCEPT !.fn = "pop", !.pc = "popped",
                        !.item = flash[iter.entryPage].words[iter.entryAddr].crc]
  /\ iter' = [DropEntry(iter) EXCEPT
                !.prev = IF @ = "AllButCurrentPopped" THEN "AllPopped" ELSE @]
  /\ EraseItem(cache, iter.entryPage, iter.entryAddr)
  /\ ret' = NoRet
  /\ UNCHANGED <<flash, faults>>

PopFinish ==
  /\ At("popped")
  /\ cache' = UnmarkDirty(cache)
  /\ Return(ItemResult(op.item))
  /\ Settled /\ UNCHANGED iter

-----------------------------------------------------------------------------
(* find_max_fit and space_left, in words *)

CallFindMaxFit == Start("find_max_fit") /\ ~iter.live /\ Usable /\ UNCHANGED iter

FindMaxFit ==
  LET youngest == FindYoungest(Refresh(cache))
      next == NextPage(youngest)
      state == StateOf(Refresh(cache), next)
      known == Learn(LearnYoungest(Refresh(cache)), {next})
  IN
  /\ At("find_max_fit")
  /\ IF youngest = CorruptedPage THEN HandleCorruption(LearnYoungest(Refresh(cache)))
     ELSE IF state \in {"Corrupted", "PartialOpen"} THEN HandleCorruption(known)
     ELSE /\ cache' = UnmarkDirty(known)
          /\ \E free \in 0 .. PageWords:
               /\ free = FreeSpot(known, youngest)
               /\ Return(IF IsPageEmpty(known, next, state) THEN NumResult(PageWords)
                         ELSE IF free < PageWords THEN NumResult(PageWords - free - 1)
                         ELSE Result("None"))
  /\ Settled /\ UNCHANGED iter

CallSpaceLeft == Start("space_left") /\ ~iter.live /\ Usable /\ UNCHANGED iter

\* Variant with a fault: a closed page whose items were all popped is not counted.
PageSpaceUnclosed(c, p) ==
  LET state == StateOf(c, p)
  IN  IF state = "Closed" THEN 0
      ELSE IF state = "Open" THEN PageWords
      ELSE PageWords - FreeSpot(c, p)

\* What one page contributes to space_left.
PageSpace(c, p) ==
  LET state == StateOf(c, p)
      left == PageWords - FreeSpot(c, p)
  IN  IF IsPageEmpty(c, p, state) THEN PageWords
      ELSE IF state = "Closed" THEN 0
      ELSE IF left < 1 /\ IsPageEmpty(c, p, "Closed") THEN PageWords
      ELSE left

SpaceLeft ==
  LET torn == {p \in Pages: StateOf(Refresh(cache), p) = "Corrupted"}
      seen == IF torn = {} THEN Pages ELSE 0 .. Min(torn)
      known == Learn(Refresh(cache), seen)
  IN
  /\ At("space_left")
  /\ IF torn # {} THEN HandleCorruption(known)
     ELSE /\ cache' = UnmarkDirty(known)
          /\ \E n \in 0 .. PageCount * PageWords:
               /\ n = MapThenSumSet(LAMBDA p: PageSpace(known, p), Pages)
               /\ Return(NumResult(n))
  /\ Settled /\ UNCHANGED iter

-----------------------------------------------------------------------------
(* erase_all: the flash is erased, the cache is not told *)

CallEraseAll ==
  /\ "erase_all" \in UserCalls
  /\ op = Idle /\ ~iter.live
  /\ op' = [Idle EXCEPT !.fn = "erase_all", !.pc = "erase_all"]
  /\ io' = PageIO("erase_all", 0)
  /\ ret' = NoRet
  /\ UNCHANGED <<flash, cache, iter, faults>>

EraseAllFinish ==
  /\ At("erase_all")
  /\ Return(Result("Ok"))
  /\ Settled /\ UNCHANGED <<cache, iter>>

-----------------------------------------------------------------------------
(* Faults.  A flash operation fails, or the future is dropped at one of its  *)
(* await points: the call ends, the storage, its cache and the iterator stay.*)
(* Power loss: the next calls are made with a new cache.                     *)

Fail ==
  /\ faults < MaxFaults /\ op # Idle
  /\ FlashCutShort
  /\ faults' = faults + 1
  /\ Return(Result("Storage"))
  /\ UNCHANGED <<cache, iter>>

PowerLoss ==
  /\ faults < MaxFaults
  /\ FlashCutShort
  /\ faults' = faults + 1
  /\ cache' = FreshCache
  /\ iter' = NoIter
  /\ Return([Result("PowerLoss") EXCEPT !.fn = IF Usable THEN @ ELSE "erase_all"])

-----------------------------------------------------------------------------

Init ==
  /\ GenericInit
  /\ op = Idle
  /\ iter = NoIter
  /\ ret = NoRet
  /\ faults = 0

Call ==
  \/ \E i \in Items, allow \in BOOLEAN: CallPush(i, allow)
  \/ CallIter \/ CallNext \/ CallPop \/ DropIter
  \/ CallFindMaxFit \/ CallSpaceLeft \/ CallEraseAll

Step ==
  \/ FlashDone /\ UNCHANGED qvars
  \/ RepairPage \/ RepairDone
  \/ PushTooBig \/ PushStart \/ PushHere \/ PushNext \/ PushOpened
  \/ PushAdvance \/ PushWrite \/ PushData \/ PushFinish
  \/ IterStart \/ NextStart \/ NextPageAfter \/ NextReopened \/ NextItem \/ PopFinish
  \/ FindMaxFit \/ SpaceLeft \/ EraseAllFinish

Next == Call \/ Step \/ Fail \/ PowerLoss

Spec == Init /\ [][Next]_vars

\* The executor keeps polling the future of a call that has been started.
FairSpec == Spec /\ WF_vars(Step)

-----------------------------------------------------------------------------

TypeOK ==
  /\ flash \in [Pages -> Page]
  /\ cache \in CacheType
  /\ io \in IOType
  /\ op \in OpType
  /\ iter \in IterType
  /\ ret \in RetType
  /\ faults \in 0 .. MaxFaults

\* What a reader of flash sees: the closed pages follow one another, behind them
\* comes the page being written (or the one about to be), and everything else is
\* erased or half-erased.  push, the iterator and repair each change one marker
\* at a time; a page out of order loses its place in the queue.  Only an erase_all
\* that failed leaves the pages in disorder, until it is called again and succeeds.
PageOrder ==
  Usable /\ op.fn # "erase_all" =>
  \E first \in Pages, n \in 0 .. PageCount - 1:
    \A i \in Pages:
      MarkedState(flash[PageFrom(first, i)]) \in
        IF i < n THEN {"Closed"}
        ELSE IF i = n THEN {"PartialOpen", "Open", "Corrupted"}
        ELSE {"Open", "Corrupted"}

\* NOR flash: between two erases a marker or a word is programmed once, and an
\* item header a second time, when it is popped.  The address comes from the
\* cache or from the headers found on the page; a stale cache or an interrupted
\* write must not lead to a word that is in use.
WritesErasedWords ==
  LET pg == flash[io.page] IN
  /\ io.cmd = "start" => ~pg.start
  /\ io.cmd = "end" => pg.start /\ ~pg.end
  /\ io.cmd = "header" => /\ pg.start /\ ~pg.end
                          /\ pg.words[io.addr] = Blank
  /\ io.cmd = "data" => /\ DataAddrs(io.addr, io.item) \subseteq Addrs
                        /\ \A a \in DataAddrs(io.addr, io.item): pg.words[a] = Blank
  /\ io.cmd = "zero" => IsPresent(pg.words, io.addr)

\* Whenever no call is running, a cache that is not dirty knows only page states
\* that flash confirms.  The cache is told of a new state before the marker is
\* written or the page erased, and every call that follows trusts it.
CachedStates ==
  op = Idle /\ ~cache.dirty =>
    \A p \in Pages: cache.states[p] \in {"Unknown", MarkedState(flash[p])}

\* And its pointers are those a scan of the page would compute: the end of the
\* written items, and a first item that is not erased at or after the erased
\* pointer.  They are updated by one item at a time, and reset by an erase.
CachedPointers ==
  op = Idle /\ ~cache.dirty =>
    \A p \in Pages:
      LET ws == flash[p].words IN
      /\ cache.written[p] \in {NoAddr, EndOfItems(ws, 0)}
      /\ cache.erased[p] # NoAddr =>
           /\ FirstUnerased(ws, cache.erased[p]) = FirstUnerased(ws, 0)
           /\ EndOfItems(ws, cache.erased[p]) = EndOfItems(ws, 0)

\* The automatic repair is enough: with two pages or more no call returns the
\* Corrupted error, whatever was cut short before.
AlwaysRepaired == ret.status # "Corrupted"

\* A page is not refused to a push while the queue has nothing in it, as long as no
\* call was cut short: with FullStorage there is still an item.
FullHoldsItem ==
  faults = 0 /\ ret.fn = "push" /\ ret.status = "FullStorage" =>
    \E p \in Pages, a \in Addrs: IsPresent(flash[p].words, a)

Measured(fn) ==
  ret.fn = fn /\ ret.status \in {"Ok", "None"} /\ op.fn = "push" /\ op' = Idle

\* find_max_fit is the limit of what push takes without overwriting: a push that
\* follows it and is no bigger is not refused for lack of space, and one that is
\* bigger does not succeed, whatever was cut short before.
MaxFitIsLimit ==
  [][Measured("find_max_fit") =>
       /\ ret'.status = "FullStorage" => ret.status = "None" \/ Size[op.item] > ret.num
       /\ ret'.status = "Ok" /\ ~op.allow =>
            ret.status = "Ok" /\ Size[op.item] <= ret.num]_vars

\* And space_left never says less than the next push then uses.
SpaceLeftCovers ==
  [][Measured("space_left") /\ ret'.status = "Ok" /\ ~op.allow =>
       Size[op.item] + 1 <= ret.num]_vars

\* Every call returns, repairs and retries included.
CallsReturn == op.fn # "none" ~> op.fn = "none"
=============================================================================
