--------------------------- MODULE GenericStorage ---------------------------
(***************************************************************************)
(* The storage layer the queue and the map are built on: a flash region    *)
(* split in pages (lib.rs), the items on a page (item.rs), the cache of    *)
(* page states and page pointers (cache/), and the flash device, whose     *)
(* writes and erases can be cut short (modelled from mock_flash.rs).       *)
(*                                                                         *)
(* Unit of storage: the flash word.  A page has a start marker, PageWords  *)
(* data words and an end marker.  An item is a header word followed by     *)
(* Size[i] data words (WORD_SIZE >= 8, so that a header is one word).      *)
(* Addresses are word offsets inside the data area of a page.              *)
(***************************************************************************)
EXTENDS Integers, FiniteSets, FiniteSetsExt

CONSTANTS PageCount,    \* number of pages of the flash range
          PageWords,    \* data words per page: ERASE_SIZE less the two markers
          Items,        \* the values that can be stored
          Size,         \* data words of each item
          NoItem,       \* the zeroed CRC of an erased item
          BadItem,      \* a CRC that matches no data
          CacheKind     \* "none": NoCache, "state": PageStateCache,
                        \* "pointer": PagePointerCache

ASSUME PageCountAssumption == PageCount \in Nat \ {0}
ASSUME PageWordsAssumption == PageWords \in Nat /\ PageWords >= 2
ASSUME SizeAssumption == Size \in [Items -> Nat]
ASSUME ItemAssumption == /\ NoItem \notin Items
                         /\ BadItem \notin Items
                         /\ NoItem # BadItem
ASSUME CacheKindAssumption == CacheKind \in {"none", "state", "pointer"}

VARIABLES flash,   \* the contents of each page
          cache,   \* the cache object of the storage
          io       \* the flash operation that has been issued, if any

gvars == <<flash, cache, io>>

-----------------------------------------------------------------------------
(* Pages and words *)

Pages == 0 .. PageCount - 1
Addrs == 0 .. PageWords - 1
NoAddr == -1
NoPage == -1
CorruptedPage == -2

NextPage(p) == (p + 1) % PageCount

\* The i-th page of get_pages(from).
PageFrom(from, i) == (from + i) % PageCount

PageStates == {"Open", "PartialOpen", "Closed"}

Word == [kind: {"blank", "header", "body", "junk"},
         crc: Items \cup {NoItem, BadItem},
         len: Nat]

Blank == [kind |-> "blank", crc |-> NoItem, len |-> 0]
Junk == [kind |-> "junk", crc |-> NoItem, len |-> 0]
Header(i) == [kind |-> "header", crc |-> i, len |-> Size[i]]
Body(i) == [kind |-> "body", crc |-> i, len |-> 0]

Page == [start: BOOLEAN, end: BOOLEAN, words: [Addrs -> Word]]

ErasedPage == [start |-> FALSE, end |-> FALSE, words |-> [a \in Addrs |-> Blank]]

\* NOR flash only clears bits: programming a word that is not blank leaves
\* something that is neither the old nor the new contents.
Programmed(old, new) ==
  IF old = Blank \/ old = new THEN new ELSE Junk

\* The state the two markers of a page encode; (unmarked, marked) can only be
\* an interrupted erase.
MarkedState(pg) ==
  CASE pg.start /\ pg.end   -> "Closed"
    [] pg.start /\ ~pg.end  -> "PartialOpen"
    [] ~pg.start /\ pg.end  -> "Corrupted"
    [] ~pg.start /\ ~pg.end -> "Open"

-----------------------------------------------------------------------------
(* Items on a page *)

\* A header that claims more than the page holds is never written: it is read
\* as a corrupted header.
IsItem(ws, a) == ws[a].kind = "header" /\ a + 1 + ws[a].len <= PageWords

\* The address ItemHeaderIter::traverse looks at after a.
NextAddr(ws, a) == IF IsItem(ws, a) THEN a + 1 + ws[a].len ELSE a + 1

\* ItemHeaderIter::traverse from `from` that stops at the first item for which
\* Stop holds: the item's address, or the address where headers end.
Traverse(ws, from, Stop(_)) ==
  LET walk[a \in 0 .. PageWords] ==
        IF a = PageWords THEN a
        ELSE IF ws[a] = Blank THEN a
        ELSE IF IsItem(ws, a) /\ Stop(ws[a]) THEN a
        ELSE walk[NextAddr(ws, a)]
  IN  walk[from]

EndOfItems(ws, from) == Traverse(ws, from, LAMBDA w: FALSE)

\* The first item whose CRC field is not zeroed, NoAddr if there is none.
FirstUnerased(ws, from) ==
  LET a == Traverse(ws, from, LAMBDA w: w.crc # NoItem)
  IN  IF a < PageWords /\ ws[a] # Blank THEN a ELSE NoAddr

\* The word at a is the header of an item whose data matches its CRC.
IsPresent(ws, a) ==
  /\ IsItem(ws, a)
  /\ ws[a].crc \in Items
  /\ \A k \in 1 .. ws[a].len: ws[a + k] = Body(ws[a].crc)

-----------------------------------------------------------------------------
(* The cache.  A cache of kind "none" has no dirt tracker and stores nothing;*)
(* one of kind "state" stores no pointers.                                  *)

CacheType == [dirty: BOOLEAN,
              states: [Pages -> PageStates \cup {"Unknown"}],
              erased: [Pages -> NoAddr .. PageWords],
              written: [Pages -> NoAddr .. PageWords]]

FreshCache == [dirty |-> FALSE,
               states |-> [p \in Pages |-> "Unknown"],
               erased |-> [p \in Pages |-> NoAddr],
               written |-> [p \in Pages |-> NoAddr]]

\* Variant with a fault: a dirty cache is used as it is.
RefreshNever(c) == c

\* Every public operation starts by dropping a dirty cache.
Refresh(c) == IF c.dirty THEN FreshCache ELSE c

MarkDirty(c) == [c EXCEPT !.dirty = (CacheKind # "none")]
UnmarkDirty(c) == [c EXCEPT !.dirty = FALSE]

\* The states of the pages of S become known; the pointers of a page that is open are reset.
StoreStates(c, S, Found(_)) ==
  IF CacheKind = "none" THEN c
  ELSE [c EXCEPT
    !.states = [p \in Pages |-> IF p \in S THEN Found(p) ELSE @[p]],
    !.erased = [p \in Pages |->
                  IF p \in S /\ Found(p) = "Open" THEN NoAddr ELSE @[p]],
    !.written = [p \in Pages |->
                  IF p \in S /\ Found(p) = "Open" THEN NoAddr ELSE @[p]]]

\* Variant with a fault: the cache is not marked dirty.
NoticeStateClean(c, p, state) == StoreStates(c, {p}, LAMBDA q: state)

\* notice_page_state(p, state, true)
NoticeState(c, p, state) == StoreStates(MarkDirty(c), {p}, LAMBDA q: state)

\* Variant with a fault: the header is not counted.
NoticeWrittenNoHeader(c, p, a, len) ==
  IF CacheKind = "pointer" /\ a + len > c.written[p]
  THEN [MarkDirty(c) EXCEPT !.written[p] = a + len]
  ELSE MarkDirty(c)

NoticeWritten(c, p, a, len) ==
  LET next == a + 1 + len
  IN  IF CacheKind = "pointer" /\ next > c.written[p]
      THEN [MarkDirty(c) EXCEPT !.written[p] = next]
      ELSE MarkDirty(c)

\* Variant with a fault: the erased pointer jumps over items that are not erased.
NoticeErasedAnywhere(c, p, a, len) ==
  IF CacheKind = "pointer"
  THEN [MarkDirty(c) EXCEPT !.erased[p] = a + 1 + len]
  ELSE MarkDirty(c)

NoticeErased(c, p, a, len) ==
  LET unerased == IF c.erased[p] = NoAddr THEN 0 ELSE c.erased[p]
  IN  IF CacheKind = "pointer" /\ a = unerased
      THEN [MarkDirty(c) EXCEPT !.erased[p] = a + 1 + len]
      ELSE MarkDirty(c)

-----------------------------------------------------------------------------
(* Reading page states through the cache.  Operators take the cache they    *)
(* start from and return the one they leave behind.                         *)

StateOf(c, p) == IF c.states[p] = "Unknown" THEN MarkedState(flash[p])
                 ELSE c.states[p]

\* get_page_state on every page of S: what is read from flash is remembered.
\* (It does not change what StateOf says of any page.)
Learn(c, S) ==
  IF CacheKind = "none" THEN c
  ELSE LET new == {p \in S: c.states[p] = "Unknown" /\ MarkedState(flash[p]) # "Corrupted"}
       IN  StoreStates(c, new, LAMBDA p: MarkedState(flash[p]))

\* find_first_page: the scan stops at the first page in the wanted state, and
\* fails at a corrupted page it meets before.
Hits(c, from, state) ==
  {i \in Pages: StateOf(c, PageFrom(from, i)) \in {state, "Corrupted"}}

FindFirst(c, from, state) ==
  LET hits == Hits(c, from, state) IN
  IF hits = {} THEN NoPage
  ELSE IF StateOf(c, PageFrom(from, Min(hits))) = "Corrupted" THEN CorruptedPage
  ELSE PageFrom(from, Min(hits))

\* The pages find_first_page has looked at when it stops.
Scanned(c, from, state) ==
  LET hits == Hits(c, from, state)
  IN  {PageFrom(from, i): i \in IF hits = {} THEN Pages ELSE 0 .. Min(hits)}

-----------------------------------------------------------------------------
(* Reading items through the cache *)

\* find_next_free_item_spot, before the size is considered.
FreeSpot(c, p) ==
  IF c.written[p] # NoAddr THEN c.written[p]
  ELSE EndOfItems(flash[p].words, IF c.erased[p] = NoAddr THEN 0 ELSE c.erased[p])

\* available_data_bytes >= data_length
Fits(a, size) == a + 1 + size <= PageWords

\* Variants with a fault: a page is empty only before anything is written on it;
\* an open page does not count as empty.
IsPageEmptyUnwritten(c, p, state) ==
  state = "Open" \/ (state = "Closed" /\ EndOfItems(flash[p].words, 0) = 0)
IsPageEmptyClosed(c, p, state) ==
  state = "Closed" /\ FirstUnerased(flash[p].words, 0) = NoAddr

IsPageEmpty(c, p, state) ==
  CASE state = "Closed" ->
         FirstUnerased(flash[p].words,
                       IF c.erased[p] = NoAddr THEN 0 ELSE c.erased[p]) = NoAddr
    [] state = "PartialOpen" -> FALSE
    [] state = "Open" -> TRUE

-----------------------------------------------------------------------------
(* The flash device.  `io` is the write or erase whose future is pending.   *)

Commands == {"none", "start", "end", "header", "data", "zero", "erase", "erase_all"}

IOType == [cmd: Commands, page: Pages, addr: Addrs,
           item: Items \cup {NoItem}]

NoIO == [cmd |-> "none", page |-> 0, addr |-> 0, item |-> NoItem]
PageIO(cmd, p) == [NoIO EXCEPT !.cmd = cmd, !.page = p]
ItemIO(cmd, p, a, i) == [cmd |-> cmd, page |-> p, addr |-> a, item |-> i]

DataAddrs(a, i) == (a + 1) .. (a + Size[i])

ZeroedHeader(w) == [w EXCEPT !.crc = NoItem]
GarbledHeader(w) == [w EXCEPT !.crc = BadItem]

WithWord(pg, a, w) == [pg EXCEPT !.words[a] = w]
WithWords(pg, ws) == [pg EXCEPT !.words = ws]

\* The page after the operation has completed.
Applied(pg, c) ==
  CASE c.cmd = "none"   -> pg
    [] c.cmd = "start"  -> [pg EXCEPT !.start = TRUE]
    [] c.cmd = "end"    -> [pg EXCEPT !.end = TRUE]
    [] c.cmd = "header" ->
         WithWord(pg, c.addr, Programmed(pg.words[c.addr], Header(c.item)))
    [] c.cmd = "data"   ->
         WithWords(pg, [a \in Addrs |->
           IF a \in DataAddrs(c.addr, c.item)
           THEN Programmed(pg.words[a], Body(c.item)) ELSE pg.words[a]])
    [] c.cmd = "zero"   -> WithWord(pg, c.addr, ZeroedHeader(pg.words[c.addr]))
    [] c.cmd \in {"erase", "erase_all"} -> ErasedPage

\* What an interrupted header write leaves in its word: bytes are programmed
\* in order and the length CRC comes last.
TornHeaders(old, new) == {old, Junk, Programmed(old, new)}

\* An interrupted overwrite of a header with the zeroed CRC.
TornZeroes(old) == {old, GarbledHeader(old), ZeroedHeader(old)}

\* An interrupted erase has reset a prefix of the page; the word it stopped in
\* holds its old contents, or those of a header that lost (part of) its CRC, or
\* nothing readable.
TornWords(ws) ==
  UNION {{[a \in Addrs |-> IF a < k THEN Blank ELSE IF a = k THEN w ELSE ws[a]]:
            w \in IF ws[k] = Blank THEN {Blank}
                  ELSE {ws[k], Junk} \cup
                       (IF ws[k].kind = "header" THEN {GarbledHeader(ws[k])} ELSE {})}:
         k \in Addrs}

TornErases(pg) ==
  {pg, ErasedPage}
    \cup {[WithWords(pg, ws) EXCEPT !.start = FALSE]: ws \in TornWords(pg.words)}
    \cup {[ErasedPage EXCEPT !.end = pg.end]}

\* An interrupted data write has programmed a prefix of the words, and perhaps
\* part of the next one.
TornData(pg, a, i) ==
  {WithWords(pg, [b \in Addrs |->
     IF b \in (a + 1) .. (a + k) THEN Programmed(pg.words[b], Body(i))
     ELSE IF torn /\ b = a + k + 1 /\ b \in DataAddrs(a, i) THEN Junk
     ELSE pg.words[b]]):
    k \in 0 .. Size[i], torn \in BOOLEAN}

\* The page after the operation was cut short, at any point.
Torn(pg, c) ==
  CASE c.cmd = "none"   -> {pg}
    [] c.cmd = "start"  -> {pg, [pg EXCEPT !.start = TRUE]}
    [] c.cmd = "end"    -> {pg, [pg EXCEPT !.end = TRUE]}
    [] c.cmd = "header" -> {WithWord(pg, c.addr, w):
                              w \in TornHeaders(pg.words[c.addr], Header(c.item))}
    [] c.cmd = "data"   -> TornData(pg, c.addr, c.item)
    [] c.cmd = "zero"   -> {WithWord(pg, c.addr, w):
                              w \in TornZeroes(pg.words[c.addr])}
    [] c.cmd \in {"erase", "erase_all"} -> TornErases(pg)

\* The flash contents an operation that completes, or one that is cut short,
\* leaves behind.  erase_all walks the pages in order.
Completed(c) ==
  IF c.cmd = "erase_all" THEN [p \in Pages |-> ErasedPage]
  ELSE [flash EXCEPT ![c.page] = Applied(@, c)]

Interrupted(c) ==
  IF c.cmd = "erase_all"
  THEN UNION {{[p \in Pages |-> IF p < q THEN ErasedPage
                                ELSE IF p = q THEN pg ELSE flash[p]]:
                 pg \in TornErases(flash[q])}: q \in Pages}
  ELSE {[flash EXCEPT ![c.page] = pg]: pg \in Torn(flash[c.page], c)}

-----------------------------------------------------------------------------
(* Beginning a flash operation: the cache is told first, then the flash is  *)
(* asked.  Each operator is a conjunct of an action of the caller.           *)

OpenPage(c, p) ==
  /\ cache' = NoticeState(c, p, "Open")
  /\ io' = PageIO("erase", p)

\* partial_close_page writes the start marker of a page that is open.
PartialClosePage(c, p) ==
  IF StateOf(c, p) = "Open"
  THEN /\ cache' = NoticeState(Learn(c, {p}), p, "PartialOpen")
       /\ io' = PageIO("start", p)
  ELSE /\ cache' = Learn(c, {p})
       /\ io' = NoIO

\* close_page on a page whose start marker is written: writes the end marker of
\* a page that is partially open.
ClosePage(c, p) ==
  IF StateOf(c, p) = "PartialOpen"
  THEN /\ cache' = NoticeState(Learn(c, {p}), p, "Closed")
       /\ io' = PageIO("end", p)
  ELSE /\ cache' = Learn(c, {p})
       /\ io' = NoIO

WriteHeader(c, p, a, i) ==
  /\ cache' = NoticeWritten(c, p, a, Size[i])
  /\ io' = ItemIO("header", p, a, i)

\* Item::write_raw: the data follows in a second write, if there is any.
WriteData(p, a, i) ==
  /\ cache' = cache
  /\ io' = IF Size[i] = 0 THEN NoIO ELSE ItemIO("data", p, a, i)

EraseItem(c, p, a) ==
  /\ cache' = NoticeErased(c, p, a, flash[p].words[a].len)
  /\ io' = ItemIO("zero", p, a, NoItem)

-----------------------------------------------------------------------------

GenericInit ==
  /\ flash = [p \in Pages |-> ErasedPage]
  /\ cache = FreshCache
  /\ io = NoIO

\* The pending flash operation completes.
FlashDone ==
  /\ io # NoIO
  /\ flash' = Completed(io)
  /\ io' = NoIO
  /\ UNCHANGED cache

\* The pending flash operation, if there is one, is cut short.
FlashCutShort ==
  /\ flash' \in Interrupted(io)
  /\ io' = NoIO
=============================================================================
