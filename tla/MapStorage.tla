----------------------------- MODULE MapStorage -----------------------------
(***************************************************************************)
(* The map of map.rs: store_item, fetch_item, remove_item,                 *)
(* remove_all_items, fetch_all_items with its iterator, erase_all, and     *)
(* what they share: the migration of the oldest page and the repair.  An   *)
(* item is a key with a value.  Each function runs as a sequence of steps  *)
(* cut at its flash writes and erases, as in QueueStorage.                 *)
(***************************************************************************)
EXTENDS GenericStorage, KeyPointers

CONSTANTS KeyOf,          \* the key of each item
          NoKey,
          UserCalls,      \* the functions the user calls
          CarefulRemoves, \* a removal is only called when no call was cut short since the
                          \* last store_item, as far as pages and cache show it
          MaxFaults       \* bound on failed calls and power losses

Functions == {"store_item", "fetch_item", "remove_item", "remove_all_items",
              "fetch_all_items", "erase_all"}

ASSUME KeyAssumption == KeyOf \in [Items -> Keys] /\ NoKey \notin Keys
ASSUME MapPagesAssumption == PageCount >= 2
ASSUME KeyCacheAssumption == KeySlots > 0 => CacheKind = "pointer"
ASSUME MapCallsAssumption == UserCalls \subseteq Functions /\ CarefulRemoves \in BOOLEAN
ASSUME MapFaultsAssumption == MaxFaults \in Nat

VARIABLES keys,    \* the key pointers of the cache
          op,      \* the call that is running
          iter,    \* the live MapItemIter, and what it has returned
          ret,     \* what the last call returned
          faults   \* faults so far

vars == <<flash, cache, io, keys, op, iter, ret, faults>>

-----------------------------------------------------------------------------

PCs == {"idle", "repair", "reopen", "data", "closed", "opened",
        "migrate", "copy", "migrated", "finish", "removing"} \cup Functions

\* page is the page being written to, or the first page of a removal; from is where
\* the scan of the source page, or of a page of the removal, has come to.
OpType == [fn: Functions \cup {"none"}, pc: PCs,
           item: Items \cup {NoItem}, key: Keys \cup {NoKey},
           page: Pages, addr: 0 .. PageWords, from: 0 .. PageWords,
           level: 0 .. PageCount, retried: BOOLEAN, repairing: BOOLEAN]

Idle == [fn |-> "none", pc |-> "idle", item |-> NoItem, key |-> NoKey,
         page |-> 0, addr |-> 0, from |-> 0, level |-> 0,
         retried |-> FALSE, repairing |-> FALSE]

Statuses == {"none", "Ok", "None", "ItemTooBig", "FullStorage", "Corrupted",
             "Storage", "PowerLoss"}

RetType == [fn: Functions \cup {"none", "next"}, status: Statuses,
            item: Items \cup {NoItem}]

NoRet == [fn |-> "none", status |-> "none", item |-> NoItem]

Result(status) == [fn |-> op.fn, status |-> status, item |-> NoItem]
ItemResult(i) == [Result("Ok") EXCEPT !.item = i]

\* seen is the table the doc of fetch_all_items builds: the item returned last for
\* each key.
IterType == [live: BOOLEAN, first: Pages, page: Pages, addr: 0 .. PageWords,
             seen: [Keys -> Items \cup {NoItem}]]

NoIter == [live |-> FALSE, first |-> 0, page |-> 0, addr |-> 0,
           seen |-> [k \in Keys |-> NoItem]]

SlotType == [key: Keys, page: Pages, addr: Addrs]

-----------------------------------------------------------------------------
(* Starting, finishing and repairing a call *)

\* After an erase_all that failed the user calls it again.
Usable == ~(ret.fn = "erase_all" /\ ret.status # "Ok")

Begin(fn) ==
  /\ fn \in UserCalls
  /\ op = Idle /\ ~iter.live
  /\ ret' = NoRet
  /\ UNCHANGED <<flash, cache, keys, iter, faults>>

Call(fn, item, key) ==
  /\ Begin(fn) /\ Usable
  /\ op' = [Idle EXCEPT !.fn = fn, !.pc = fn, !.item = item, !.key = key]
  /\ UNCHANGED io

Return(r) ==
  /\ op' = Idle
  /\ ret' = r

\* A step of the running call, which has no flash operation pending.
At(pc) == op.pc = pc /\ io = NoIO

\* The running function is entered again after the repair.
Restart == op' = [Idle EXCEPT !.fn = op.fn, !.pc = op.fn, !.item = op.item,
                              !.key = op.key, !.retried = TRUE]

\* A public function drops a dirty cache, key pointers included.
RefreshKeys == IF cache.dirty THEN NoKeys ELSE keys

\* run_with_auto_repair: the first Corrupted error leads to try_repair and a second
\* attempt; an error of the repair or of that attempt is the caller's.
HandleCorruption(c, ks) ==
  /\ UNCHANGED io
  /\ IF op.retried
     THEN /\ cache' = c /\ keys' = ks
          /\ Return(Result("Corrupted"))
     ELSE /\ cache' = FreshCache /\ keys' = NoKeys
          /\ op' = [op EXCEPT !.pc = "repair", !.page = 0, !.retried = TRUE,
                              !.repairing = TRUE]
          /\ UNCHANGED ret

-----------------------------------------------------------------------------
(* Items and pages *)

\* The items ItemIter returns on a page from address `from` on.
PresentItems(ws, from) ==
  LET walk[a \in 0 .. PageWords] ==
        IF a = PageWords THEN {}
        ELSE IF ws[a] = Blank THEN {}
        ELSE (IF IsPresent(ws, a) THEN {a} ELSE {}) \cup walk[NextAddr(ws, a)]
  IN  walk[from]

KeyAt(ws, a) == KeyOf[ws[a].crc]

\* Where page p holds items with key k.
ItemsWithKey(p, k) ==
  LET ws == flash[p].words IN {a \in PresentItems(ws, 0): KeyAt(ws, a) = k}

PageBefore(p, i) == (p + PageCount - i) % PageCount

\* The page that was written to last: the partially open page, or the closed page
\* before the first open one.  NoPage if all pages are open.
LastUsed(c) ==
  LET partial == FindFirst(c, 0, "PartialOpen")
      open == FindFirst(c, 0, "Open")
  IN  CASE partial # NoPage -> partial
        [] partial = NoPage /\ open \in {NoPage, CorruptedPage} -> CorruptedPage
        [] partial = NoPage /\ open \notin {NoPage, CorruptedPage} ->
             CASE StateOf(c, PageBefore(open, 1)) = "Corrupted" -> CorruptedPage
               [] StateOf(c, PageBefore(open, 1)) = "Closed" -> PageBefore(open, 1)
               [] OTHER -> NoPage

LearnLastUsed(c) == Learn(c, Scanned(c, 0, "PartialOpen"))

-----------------------------------------------------------------------------
(* fetch_item_with_location, which the migration calls as well.  Its outcome *)
(* is a record of what it returns and of the cache it leaves.               *)

\* The element of a singleton.  (Values bound this way are computed once.)
Once(S) == CHOOSE x \in S: TRUE

Outcome(status, p, a, c, ks) ==
  [status |-> status, page |-> p, addr |-> a, cache |-> c, keys |-> ks]

\* Search the pages from y backwards, as long as they are closed: depth is how far.
SearchBack(c, ks, k, y, depth) ==
  LET p == PageBefore(y, depth)
      found == ItemsWithKey(p, k)
      known == Learn(c, {PageBefore(y, i): i \in 1 .. depth})
      beyond == PageBefore(p, 1)
  IN  IF found # {}
      THEN Outcome("Ok", p, Max(found), UnmarkDirty(known), KeyLocated(ks, k, p, Max(found)))
      ELSE IF StateOf(c, beyond) = "Corrupted" THEN Outcome("Corrupted", 0, 0, known, ks)
      ELSE Outcome("None", 0, 0, UnmarkDirty(Learn(known, {beyond})), ks)

SearchDepth(c, k, y) ==
  Min({i \in Pages: \/ ItemsWithKey(PageBefore(y, i), k) # {}
                     \/ StateOf(c, PageBefore(y, i + 1)) # "Closed"})

SearchFrom(c, ks, k, last) ==
  CASE last = CorruptedPage -> Outcome("Corrupted", 0, 0, c, ks)
    [] last = NoPage -> Outcome("None", 0, 0, UnmarkDirty(c), ks)
    [] last \in Pages -> Once({SearchBack(c, ks, k, last, depth):
                                 depth \in {SearchDepth(c, k, last)}})

Search(c, ks, k) ==
  Once({SearchFrom(known, ks, k, last): last \in {LastUsed(c)}, known \in {LearnLastUsed(c)}})

FetchWithLocation(c, ks, k) ==
  LET at == LocationOf(ks, k)
      ws == flash[at.page].words
  IN  IF ~Holds(ks, k) THEN Search(c, ks, k)
      ELSE IF IsPresent(ws, at.addr) THEN Outcome("Ok", at.page, at.addr, c, ks)
      ELSE IF ws[at.addr] = Blank \/ IsItem(ws, at.addr) THEN Search(FreshCache, NoKeys, k)
      ELSE Outcome("Corrupted", 0, 0, c, ks)

CallFetch(k) == Call("fetch_item", NoItem, k)

FetchItem ==
  /\ At("fetch_item")
  /\ \E got \in {FetchWithLocation(Refresh(cache), RefreshKeys, op.key)}:
     IF got.status = "Corrupted" THEN HandleCorruption(got.cache, got.keys)
     ELSE /\ cache' = got.cache /\ keys' = got.keys
          /\ Return(IF got.status = "None" THEN Result("None")
                    ELSE ItemResult(flash[got.page].words[got.addr].crc))
          /\ UNCHANGED io
  /\ UNCHANGED <<flash, iter, faults>>

-----------------------------------------------------------------------------
(* store_item *)

CallStore(i) == Call("store_item", i, NoKey)

\* The rest of a round of the loop, when a page is partially open.
StoreOnPage(c, ks, partial) ==
  LET next == NextPage(partial)
      known == Learn(c, {next})
      spot == FreeSpot(known, partial)
  IN
  \/ /\ StateOf(c, next) # "Open"
     /\ HandleCorruption(known, ks)
  \/ /\ StateOf(c, next) = "Open"
     /\ Size[op.item] > PageWords - 1
     /\ cache' = UnmarkDirty(known) /\ keys' = ks
     /\ Return(Result("ItemTooBig"))
     /\ UNCHANGED io
  \/ /\ StateOf(c, next) = "Open"
     /\ Fits(spot, Size[op.item])
     /\ WriteHeader(known, partial, spot, op.item)
     /\ keys' = KeyLocated(ks, KeyOf[op.item], partial, spot)
     /\ op' = [op EXCEPT !.pc = "data", !.page = partial, !.addr = spot]
     /\ UNCHANGED ret
  \/ /\ StateOf(c, next) = "Open"
     /\ Size[op.item] <= PageWords - 1 /\ ~Fits(spot, Size[op.item])
     /\ ClosePage(known, partial)
     /\ op' = [op EXCEPT !.pc = "closed", !.page = next]
     /\ keys' = ks
     /\ UNCHANGED ret

\* And when none is: the first open page becomes the one to write to.
StoreOnFirst(c, ks, partial) ==
  \E open \in {FindFirst(c, 0, "Open")}:
    \/ /\ partial = CorruptedPage \/ open \notin Pages
       /\ HandleCorruption(c, ks)
    \/ /\ partial = NoPage /\ open \in Pages
       /\ PartialClosePage(c, open)
       /\ op' = [op EXCEPT !.level = @ + 1]
       /\ keys' = ks
       /\ UNCHANGED ret

\* Variant with a fault: the rounds are counted from 1.
ExhaustedEarly == op.level = PageCount - 1

\* As many rounds have passed as there are pages.
Exhausted == op.level = PageCount

\* One round of the loop of store_item_inner up to its first flash operation.  The
\* cache is only dropped before the first round.
StoreRound ==
  LET first == op.level = 0
      c == IF first THEN Refresh(cache) ELSE cache
      ks == IF first THEN RefreshKeys ELSE keys
  IN
  /\ At("store_item")
  /\ \/ /\ Exhausted
        /\ cache' = UnmarkDirty(c)
        /\ Return(Result("FullStorage"))
        /\ UNCHANGED <<io, keys>>
     \/ /\ ~Exhausted
        /\ \E partial \in {FindFirst(c, 0, "PartialOpen")}, known \in {LearnLastUsed(c)}:
             IF partial \in Pages THEN StoreOnPage(known, ks, partial)
             ELSE StoreOnFirst(known, ks, partial)
  /\ UNCHANGED <<flash, iter, faults>>

StoreData ==
  /\ At("data")
  /\ WriteData(op.page, op.addr, op.item)
  /\ op' = [op EXCEPT !.pc = "finish"]
  /\ UNCHANGED <<flash, keys, iter, ret, faults>>

StoreFinish ==
  /\ At("finish")
  /\ cache' = UnmarkDirty(cache)
  /\ Return(Result("Ok"))
  /\ UNCHANGED <<flash, io, keys, iter, faults>>

\* Variant with a fault: the page after the buffer page becomes the page to write to.
StoreNextPageTwice ==
  LET known == Learn(cache, {op.page}) IN
  /\ At("closed")
  /\ StateOf(cache, op.page) = "Open"
  /\ PartialClosePage(known, NextPage(op.page))
  /\ op' = [op EXCEPT !.pc = "opened"]
  /\ UNCHANGED <<flash, keys, iter, ret, faults>>

\* The full page is closed: the buffer page, op.page, becomes the page to write to.
StoreNextPage ==
  LET known == Learn(cache, {op.page}) IN
  /\ At("closed")
  /\ StateOf(cache, op.page) = "Open"
  /\ PartialClosePage(known, op.page)
  /\ op' = [op EXCEPT !.pc = "opened"]
  /\ UNCHANGED <<flash, keys, iter, ret, faults>>

\* The page after it is the new buffer page: it is emptied if it is not open.
StoreBuffer ==
  LET buffer == NextPage(op.page)
      state == StateOf(cache, buffer)
  IN
  /\ At("opened")
  /\ IF state = "Corrupted" THEN HandleCorruption(Learn(cache, {buffer}), keys)
     ELSE /\ cache' = Learn(cache, {buffer})
          /\ op' = IF state = "Open"
                   THEN [op EXCEPT !.pc = "store_item", !.level = @ + 1, !.page = 0]
                   ELSE [op EXCEPT !.pc = "migrate", !.addr = 0, !.from = 0]
          /\ UNCHANGED <<io, keys, ret>>
  /\ UNCHANGED <<flash, iter, faults>>

-----------------------------------------------------------------------------
(* migrate_items from the page after op.page to op.page *)

Source == NextPage(op.page)

\* Variant with a fault: the source page is erased without a look at its items.
MigrateNothing ==
  /\ At("migrate")
  /\ OpenPage(cache, Source)
  /\ op' = [op EXCEPT !.pc = "migrated"]
  /\ UNCHANGED <<flash, keys, iter, ret, faults>>

\* Variant with a fault: superseded items are copied too.
MigrateEveryItem ==
  LET ws == flash[Source].words
      left == PresentItems(ws, op.from)
      a == Min(left)
  IN
  /\ At("migrate") /\ left # {}
  /\ op.addr \in Addrs
  /\ WriteHeader(UnmarkDirty(cache), op.page, op.addr, ws[a].crc)
  /\ keys' = KeyLocated(keys, KeyAt(ws, a), op.page, op.addr)
  /\ op' = [op EXCEPT !.pc = "copy", !.from = a]
  /\ UNCHANGED <<flash, iter, ret, faults>>

\* The next item of the source page is copied if it is the newest with its key.
MigrateItem ==
  LET ws == flash[Source].words
      left == PresentItems(ws, op.from)
      a == Min(left)
      key == KeyAt(ws, a)
  IN
  /\ At("migrate") /\ left # {}
  /\ \E got \in {FetchWithLocation(UnmarkDirty(cache), keys, key)}:
     IF got.status # "Ok" THEN HandleCorruption(got.cache, got.keys)
     ELSE IF got.page = Source /\ got.addr = a
     THEN /\ op.addr \in Addrs
          /\ WriteHeader(got.cache, op.page, op.addr, ws[a].crc)
          /\ keys' = KeyLocated(got.keys, key, op.page, op.addr)
          /\ op' = [op EXCEPT !.pc = "copy", !.from = a]
          /\ UNCHANGED ret
     ELSE /\ cache' = got.cache /\ keys' = got.keys
          /\ op' = [op EXCEPT !.from = NextAddr(ws, a)]
          /\ UNCHANGED <<io, ret>>
  /\ UNCHANGED <<flash, iter, faults>>

\* Variant with a fault: the header of the copy is counted twice.
MigrateDataGap ==
  LET ws == flash[Source].words
      item == ws[op.from].crc
  IN
  /\ At("copy")
  /\ WriteData(op.page, op.addr, item)
  /\ op' = [op EXCEPT !.pc = "migrate", !.addr = @ + 2 + Size[item],
                      !.from = NextAddr(ws, @)]
  /\ UNCHANGED <<flash, keys, iter, ret, faults>>

MigrateData ==
  LET ws == flash[Source].words
      item == ws[op.from].crc
  IN
  /\ At("copy")
  /\ WriteData(op.page, op.addr, item)
  /\ op' = [op EXCEPT !.pc = "migrate", !.addr = @ + 1 + Size[item],
                      !.from = NextAddr(ws, @)]
  /\ UNCHANGED <<flash, keys, iter, ret, faults>>

MigrateErase ==
  /\ At("migrate") /\ PresentItems(flash[Source].words, op.from) = {}
  /\ OpenPage(cache, Source)
  /\ op' = [op EXCEPT !.pc = "migrated"]
  /\ UNCHANGED <<flash, keys, iter, ret, faults>>

\* Variant with a fault: a round that migrated is not counted.
MigrateDoneUncounted ==
  /\ At("migrated")
  /\ IF op.repairing THEN Restart
     ELSE op' = [op EXCEPT !.pc = "store_item", !.page = 0, !.addr = 0, !.from = 0]
  /\ UNCHANGED <<flash, cache, io, keys, iter, ret, faults>>

MigrateDone ==
  /\ At("migrated")
  /\ IF op.repairing THEN Restart
     ELSE op' = [op EXCEPT !.pc = "store_item", !.level = @ + 1, !.page = 0,
                           !.addr = 0, !.from = 0]
  /\ UNCHANGED <<flash, cache, io, keys, iter, ret, faults>>

-----------------------------------------------------------------------------
(* try_repair *)

TornPages == {p \in Pages: p >= op.page /\ StateOf(cache, p) = "Corrupted"}

\* try_general_repair: pages are visited in order and the corrupted are erased.
RepairPage ==
  LET torn == TornPages IN
  /\ At("repair") /\ torn # {}
  /\ OpenPage(Learn(cache, op.page .. Min(torn)), Min(torn))
  /\ op' = [op EXCEPT !.page = Min(torn)]
  /\ UNCHANGED <<flash, keys, iter, ret, faults>>

\* Variant with a fault: an interrupted migration is not looked for.
RepairPagesOnly ==
  /\ At("repair") /\ TornPages = {}
  /\ cache' = Learn(cache, Pages)
  /\ Restart
  /\ UNCHANGED <<flash, io, keys, iter, ret, faults>>

\* If the page after the partially open one is not open a migration was interrupted:
\* it is done again, to the erased partially open page.
RepairMigration ==
  /\ At("repair") /\ TornPages = {}
  /\ \E known \in {Learn(cache, Pages)}: \E partial \in {FindFirst(known, 0, "PartialOpen")}:
     IF partial \in Pages /\ StateOf(known, NextPage(partial)) # "Open"
     THEN /\ OpenPage(known, partial)
          /\ op' = [op EXCEPT !.pc = "reopen", !.page = partial]
     ELSE /\ cache' = known
          /\ Restart
          /\ UNCHANGED io
  /\ UNCHANGED <<flash, keys, iter, ret, faults>>

RepairReopen ==
  /\ At("reopen")
  /\ PartialClosePage(cache, op.page)
  /\ op' = [op EXCEPT !.pc = "migrate", !.addr = 0, !.from = 0]
  /\ UNCHANGED <<flash, keys, iter, ret, faults>>

-----------------------------------------------------------------------------
(* remove_item and remove_all_items *)

\* No call was cut short between two pages: there is a partially open page and the
\* page after it is its buffer, or nothing was closed yet.
PagesSettled ==
  LET state(p) == MarkedState(flash[p]) IN
  \/ \E p \in Pages: state(p) = "PartialOpen" /\ state(NextPage(p)) = "Open"
  \/ \A p \in Pages: state(p) = "Open"

CallRemove(k) ==
  /\ CarefulRemoves => PagesSettled /\ ~cache.dirty
  /\ Call("remove_item", NoItem, k)

CallRemoveAll ==
  /\ CarefulRemoves => PagesSettled
  /\ Call("remove_all_items", NoItem, NoKey)

\* Where a removal starts when `last` is the page in use: behind it.  The variant with
\* a fault starts on it.
FirstToRemoveNewest(last) == last
FirstToRemove(last) == NextPage(last)

\* A dirty cache is not dropped by remove_item; remove_all_items always drops it.
RemoveStart ==
  LET all == op.fn = "remove_all_items"
      c == IF all THEN FreshCache ELSE MarkDirty(cache)
      ks == IF all THEN NoKeys ELSE KeyErased(keys, op.key)
      partial == FindFirst(c, 0, "PartialOpen")
  IN
  /\ At("remove_item") \/ At("remove_all_items")
  /\ IF partial = CorruptedPage THEN HandleCorruption(LearnLastUsed(c), ks)
     ELSE /\ cache' = LearnLastUsed(c) /\ keys' = ks
          /\ op' = [op EXCEPT !.pc = "removing",
                              !.page = FirstToRemove(IF partial = NoPage THEN 0 ELSE partial)]
          /\ UNCHANGED <<io, ret>>
  /\ UNCHANGED <<flash, iter, faults>>

\* What is left to erase on the i-th page of the removal.
ToRemove(i) ==
  LET ws == flash[PageFrom(op.page, i)].words IN
  {a \in PresentItems(ws, IF i = op.level THEN op.from ELSE 0):
     op.fn = "remove_all_items" \/ KeyAt(ws, a) = op.key}

\* From op.page on, pages that are not open are searched and each item found is erased.
RemoveNext ==
  LET state(i) == StateOf(cache, PageFrom(op.page, i))
      stops == {i \in op.level .. PageCount - 1:
                  state(i) = "Corrupted" \/ (state(i) # "Open" /\ ToRemove(i) # {})}
      i == Min(stops)
      p == PageFrom(op.page, i)
      known == Learn(cache, {PageFrom(op.page, j): j \in op.level .. i})
  IN
  /\ At("removing")
  /\ \/ /\ stops = {}
        /\ cache' = UnmarkDirty(Learn(cache, Pages))
        /\ Return(Result("Ok"))
        /\ UNCHANGED <<io, keys>>
     \/ /\ stops # {} /\ state(i) = "Corrupted"
        /\ HandleCorruption(known, keys)
     \/ \E a \in Addrs:
        /\ stops # {} /\ state(i) # "Corrupted"
        /\ a = Min(ToRemove(i))
        /\ EraseItem(known, p, a)
        /\ op' = [op EXCEPT !.level = i, !.from = NextAddr(flash[p].words, a)]
        /\ UNCHANGED <<keys, ret>>
  /\ UNCHANGED <<flash, iter, faults>>

-----------------------------------------------------------------------------
(* fetch_all_items and MapItemIter::next *)

CallIter == Call("fetch_all_items", NoItem, NoKey)

\* The page after the last one used is the oldest.  A dirty cache is not dropped.  Only
\* the error of a storage without any open page is repaired: a corrupted page that is met
\* on the way leaves the function at once, past run_with_auto_repair.
IterStart ==
  LET last == LastUsed(cache)
      known == LearnLastUsed(cache)
      oldest == IF last = NoPage THEN 0 ELSE NextPage(last)
  IN
  /\ At("fetch_all_items")
  /\ IF last = CorruptedPage
     THEN /\ IF FindFirst(cache, 0, "Open") = NoPage /\ FindFirst(cache, 0, "PartialOpen") = NoPage
             THEN HandleCorruption(known, keys)
             ELSE /\ cache' = known
                  /\ Return(Result("Corrupted"))
                  /\ UNCHANGED <<io, keys>>
          /\ UNCHANGED iter
     ELSE /\ cache' = IF last = NoPage THEN UnmarkDirty(known) ELSE known
          /\ iter' = [NoIter EXCEPT !.live = TRUE, !.first = oldest, !.page = oldest]
          /\ Return(Result("Ok"))
          /\ UNCHANGED <<io, keys>>
  /\ UNCHANGED <<flash, faults>>

\* How many pages the iterator has left behind.
PagesPassed == (iter.page + PageCount - iter.first) % PageCount

\* The items the iterator finds on the i-th page from iter.first: a page that is
\* open, or corrupted, is passed over, except the one it is on.
ToReturn(i) ==
  LET p == PageFrom(iter.first, i) IN
  IF i = PagesPassed THEN PresentItems(flash[p].words, iter.addr)
  ELSE IF StateOf(cache, p) \in {"Closed", "PartialOpen"}
  THEN PresentItems(flash[p].words, 0) ELSE {}

\* next reads only: it runs in one step.  After None the iterator is given up.
NextItem ==
  LET stops == {i \in PagesPassed .. PageCount - 1: ToReturn(i) # {}}
      i == Min(stops)
      p == PageFrom(iter.first, i)
      a == Min(ToReturn(i))
      item == flash[p].words[a].crc
      visited == {PageFrom(iter.first, j):
                    j \in (PagesPassed + 1) .. (IF stops = {} THEN PageCount - 1 ELSE i)}
  IN
  /\ op = Idle /\ iter.live
  /\ cache' = Learn(cache, visited)
  /\ \/ /\ stops = {}
        /\ iter' = NoIter
        /\ ret' = [fn |-> "next", status |-> "None", item |-> NoItem]
     \/ /\ stops # {}
        /\ iter' = [iter EXCEPT !.page = p, !.addr = NextAddr(flash[p].words, a),
                                !.seen[KeyOf[item]] = item]
        /\ ret' = [fn |-> "next", status |-> "Ok", item |-> item]
  /\ UNCHANGED <<flash, io, keys, op, faults>>

DropIter ==
  /\ op = Idle /\ iter.live
  /\ iter' = NoIter
  /\ UNCHANGED <<flash, cache, io, keys, op, ret, faults>>

-----------------------------------------------------------------------------
(* erase_all: the flash is erased, the cache is not told *)

CallEraseAll ==
  /\ Begin("erase_all")
  /\ op' = [Idle EXCEPT !.fn = "erase_all", !.pc = "erase_all"]
  /\ io' = PageIO("erase_all", 0)

EraseAllFinish ==
  /\ At("erase_all")
  /\ Return(Result("Ok"))
  /\ UNCHANGED <<flash, cache, io, keys, iter, faults>>

-----------------------------------------------------------------------------
(* Faults, as in QueueStorage *)

Fail ==
  /\ faults < MaxFaults /\ op # Idle
  /\ FlashCutShort
  /\ faults' = faults + 1
  /\ Return(Result("Storage"))
  /\ UNCHANGED <<cache, keys, iter>>

PowerLoss ==
  /\ faults < MaxFaults
  /\ FlashCutShort
  /\ faults' = faults + 1
  /\ cache' = FreshCache /\ keys' = NoKeys
  /\ iter' = NoIter
  /\ Return([Result("PowerLoss") EXCEPT !.fn = IF Usable THEN @ ELSE "erase_all"])

-----------------------------------------------------------------------------

Init ==
  /\ GenericInit
  /\ keys = NoKeys
  /\ op = Idle
  /\ iter = NoIter
  /\ ret = NoRet
  /\ faults = 0

UserCall ==
  \/ \E i \in Items: CallStore(i)
  \/ \E k \in Keys: CallFetch(k) \/ CallRemove(k)
  \/ CallRemoveAll \/ CallIter \/ NextItem \/ DropIter \/ CallEraseAll

Step ==
  \/ FlashDone /\ UNCHANGED <<keys, op, iter, ret, faults>>
  \/ FetchItem
  \/ StoreRound \/ StoreData \/ StoreFinish \/ StoreNextPage \/ StoreBuffer
  \/ MigrateItem \/ MigrateData \/ MigrateErase \/ MigrateDone
  \/ RepairPage \/ RepairMigration \/ RepairReopen
  \/ RemoveStart \/ RemoveNext
  \/ IterStart \/ EraseAllFinish

Next == UserCall \/ Step \/ Fail \/ PowerLoss

Spec == Init /\ [][Next]_vars

\* The executor keeps polling the future of a call that has been started.
FairSpec == Spec /\ WF_vars(Step)

-----------------------------------------------------------------------------

TypeOK ==
  /\ flash \in [Pages -> Page]
  /\ cache \in CacheType
  /\ io \in IOType
  /\ keys \in Seq(SlotType) /\ Len(keys) <= KeySlots
  /\ op \in OpType
  /\ iter \in IterType
  /\ ret \in RetType
  /\ faults \in 0 .. MaxFaults

\* What a reader of flash sees: closed pages that follow one another, behind them the
\* page being written (or the one about to be), and open pages, the last of which may
\* be half-erased.  Stores, migrations and repairs change one marker at a time; with
\* any other order the newest value of a key is looked for on the wrong page.
PageOrder ==
  Usable /\ op.fn # "erase_all" =>
  \E first \in Pages, n \in 0 .. PageCount - 1:
    \A i \in Pages:
      MarkedState(flash[PageFrom(first, i)]) \in
        IF i < n THEN {"Closed"}
        ELSE IF i = n THEN {"PartialOpen", "Open"}
        ELSE IF i = PageCount - 1 THEN {"Open", "Corrupted"}
        ELSE {"Open"}

\* NOR flash: between two erases a marker or a word is programmed once, and an item
\* header a second time, when it is removed.  A migration writes where it believes
\* the target page to be empty, without reading it; after an interrupted repair that
\* page may look open and not be blank.
WritesErasedWords ==
  LET pg == flash[io.page] IN
  /\ io.cmd = "start" => ~pg.start
  /\ io.cmd = "end" => pg.start /\ ~pg.end
  /\ io.cmd = "header" => /\ pg.start /\ ~pg.end
                          /\ pg.words[io.addr] = Blank
  /\ io.cmd = "data" => /\ DataAddrs(io.addr, io.item) \subseteq Addrs
                        /\ \A a \in DataAddrs(io.addr, io.item): pg.words[a] = Blank
  /\ io.cmd = "zero" => IsPresent(pg.words, io.addr)

\* Whenever no call is running, a cache that is not dirty knows only page states that
\* flash confirms.
CachedStates ==
  op = Idle /\ ~cache.dirty =>
    \A p \in Pages: cache.states[p] \in {"Unknown", MarkedState(flash[p])}

\* And its written pointers are the ends of the items on the page: migrations move
\* them on a page just opened, and drop them with the page that is erased.
CachedPointers ==
  op = Idle /\ ~cache.dirty =>
    \A p \in Pages: cache.written[p] \in {NoAddr, EndOfItems(flash[p].words, 0)}

\* The automatic repair is enough: no call that repairs returns the Corrupted error,
\* whatever was cut short before, a repair included.
AlwaysRepaired == ret.status = "Corrupted" => ret.fn = "fetch_all_items"

\* README of the library: "When corruption is found while an operation is going on, the
\* crate will automatically try to repair it."
IterRepaired == ret.fn = "fetch_all_items" => ret.status # "Corrupted"

\* Every call returns: the rounds of a store, its migrations, the search backwards over
\* closed pages, and repairs end.
CallsReturn == op.fn # "none" ~> op.fn = "none"
=============================================================================
