---------------------------- MODULE GenericProofs ----------------------------
(***************************************************************************)
(* Lemmas about GenericStorage that the proofs about the queue and the map  *)
(* share: pages on a circle, page searches, types of the cache and of flash, *)
(* what each flash operation does to the page markers and to the words,      *)
(* completed or cut short, and what the cache then knows of both.           *)
(***************************************************************************)
EXTENDS GenericStorage, MinLemma, TLAPS

(* Pages on a circle *)

\* Page numbers wrap around inside the flash range.
LEMMA PageArithmetic ==
  ASSUME NEW p \in Int, NEW i \in Int
  PROVE  PageFrom(p, i) \in Pages /\ NextPage(p) \in Pages
BY PageCountAssumption DEF PageFrom, NextPage, Pages

\* How far page p is behind page `first`.
Behind(first, p) == IF p >= first THEN p - first ELSE p - first + PageCount

LEMMA Around ==
  ASSUME NEW p \in Pages, NEW i \in Pages
  PROVE  /\ PageFrom(p, i) = IF p + i < PageCount THEN p + i ELSE p + i - PageCount
         /\ NextPage(p) = IF p + 1 < PageCount THEN p + 1 ELSE 0
         /\ PageFrom(p, i) \in Pages /\ NextPage(p) \in Pages
<1>1. PageCount \in Nat \ {0} /\ p \in 0 .. PageCount - 1 /\ i \in 0 .. PageCount - 1
  BY PageCountAssumption DEF Pages
<1>2. ASSUME NEW a \in 0 .. 2 * PageCount - 1
      PROVE  a % PageCount = IF a < PageCount THEN a ELSE a - PageCount
  <2>1. CASE a < PageCount
    BY <1>1, <2>1
  <2>2. CASE a >= PageCount
    <3>1. a \in PageCount .. 2 * PageCount - 1
      BY <1>1, <2>2
    <3>2. QED  BY <1>1, <2>2, <3>1
  <2>3. QED  BY <1>1, <2>1, <2>2
<1>3. PageFrom(p, i) = IF p + i < PageCount THEN p + i ELSE p + i - PageCount
  <2> DEFINE a == p + i
  <2>1. a \in 0 .. 2 * PageCount - 1 /\ PageFrom(p, i) = a % PageCount
    BY <1>1 DEF PageFrom
  <2> HIDE DEF a
  <2>2. PageFrom(p, i) = IF a < PageCount THEN a ELSE a - PageCount
    BY <1>2, <2>1
  <2>3. QED  BY <1>1, <2>1, <2>2 DEF a
<1>4. NextPage(p) = IF p + 1 < PageCount THEN p + 1 ELSE 0
  <2> DEFINE a == p + 1
  <2>1. a \in 0 .. 2 * PageCount - 1 /\ NextPage(p) = a % PageCount /\ a <= PageCount
    BY <1>1 DEF NextPage
  <2> HIDE DEF a
  <2>2. NextPage(p) = IF a < PageCount THEN a ELSE a - PageCount
    BY <1>2, <2>1
  <2>3. QED  BY <1>1, <2>1, <2>2 DEF a
<1>5. QED  BY <1>1, <1>3, <1>4 DEF Pages

LEMMA BehindType ==
  ASSUME NEW first \in Pages, NEW p \in Pages
  PROVE  /\ Behind(first, p) \in Pages
         /\ PageFrom(first, Behind(first, p)) = p
         /\ Behind(first, first) = 0
         /\ \A q \in Pages: Behind(first, q) = Behind(first, p) => q = p
<1>1. PageCount \in Nat \ {0} /\ first \in 0 .. PageCount - 1 /\ p \in 0 .. PageCount - 1
  BY PageCountAssumption DEF Pages
<1>2. Behind(first, p) \in Pages /\ Behind(first, first) = 0
  BY <1>1 DEF Behind, Pages
<1>3. PageFrom(first, Behind(first, p)) = p
  BY <1>1, <1>2, Around DEF Behind
<1>4. \A q \in Pages: Behind(first, q) = Behind(first, p) => q = p
  BY <1>1 DEF Behind, Pages
<1>5. QED  BY <1>2, <1>3, <1>4

LEMMA BehindNat ==
  ASSUME NEW first \in Pages, NEW p \in Pages
  PROVE  /\ Behind(first, p) \in Nat /\ Behind(first, p) <= PageCount - 1
         /\ PageCount \in Nat \ {0}
BY BehindType, PageCountAssumption DEF Pages

\* The i-th page from `first` is i behind it.
LEMMA BehindFrom ==
  ASSUME NEW first \in Pages, NEW i \in Pages
  PROVE  PageFrom(first, i) \in Pages /\ Behind(first, PageFrom(first, i)) = i
<1>1. PageCount \in Nat \ {0} /\ first \in 0 .. PageCount - 1 /\ i \in 0 .. PageCount - 1
  BY PageCountAssumption DEF Pages
<1>2. PageFrom(first, i) = IF first + i < PageCount THEN first + i ELSE first + i - PageCount
  BY Around
<1>3. QED  BY <1>1, <1>2 DEF Behind, Pages

\* The next page is one further behind, or `first` itself.
LEMMA BehindNext ==
  ASSUME NEW first \in Pages, NEW p \in Pages
  PROVE  \/ Behind(first, NextPage(p)) = Behind(first, p) + 1
         \/ Behind(first, p) = PageCount - 1 /\ NextPage(p) = first
<1>1. PageCount \in Nat \ {0} /\ first \in 0 .. PageCount - 1 /\ p \in 0 .. PageCount - 1
  BY PageCountAssumption DEF Pages
<1>2. NextPage(p) = IF p + 1 < PageCount THEN p + 1 ELSE 0
  BY Around
<1>3. QED  BY <1>1, <1>2 DEF Behind

\* Seen from the page after `first`, every page but `first` is one nearer.
LEMMA BehindSecond ==
  ASSUME NEW first \in Pages, NEW p \in Pages
  PROVE  Behind(NextPage(first), p) =
           IF p = first THEN PageCount - 1 ELSE Behind(first, p) - 1
<1>1. PageCount \in Nat \ {0} /\ first \in 0 .. PageCount - 1 /\ p \in 0 .. PageCount - 1
  BY PageCountAssumption DEF Pages
<1>2. NextPage(first) = IF first + 1 < PageCount THEN first + 1 ELSE 0
  BY Around
<1>3. QED  BY <1>1, <1>2 DEF Behind

\* The page before the one found in a search that does not stop at once.
LEMMA FoundBehind ==
  ASSUME NEW from \in Pages, NEW k \in Pages, k # 0
  PROVE  /\ k - 1 \in Pages /\ PageFrom(from, k - 1) \in Pages
         /\ PageFrom(from, k) = NextPage(PageFrom(from, k - 1))
<1>1. /\ PageCount \in Nat \ {0} /\ from \in 0 .. PageCount - 1
      /\ k \in 0 .. PageCount - 1 /\ k - 1 \in 0 .. PageCount - 1
  BY PageCountAssumption DEF Pages
<1>2. k - 1 \in Pages
  BY <1>1 DEF Pages
<1> DEFINE q == PageFrom(from, k - 1)
<1>3. /\ q = IF from + (k - 1) < PageCount THEN from + (k - 1) ELSE from + (k - 1) - PageCount
      /\ q \in Pages
  BY <1>2, Around
<1>4. PageFrom(from, k) = IF from + k < PageCount THEN from + k ELSE from + k - PageCount
  BY Around
<1> HIDE DEF q
<1>5. NextPage(q) = IF q + 1 < PageCount THEN q + 1 ELSE 0
  BY <1>3, Around
<1>6. PageFrom(from, k) = NextPage(q)
  BY <1>1, <1>3, <1>4, <1>5
<1>7. QED  BY <1>2, <1>3, <1>6 DEF q

LEMMA FromStart ==
  ASSUME NEW p \in Pages
  PROVE  PageFrom(p, 0) = p
<1>1. PageCount \in Nat \ {0} /\ p \in 0 .. PageCount - 1 /\ 0 \in Pages
  BY PageCountAssumption DEF Pages
<1>2. QED  BY <1>1, Around

PageOrNone == Pages \cup {NoPage, CorruptedPage}

\* find_first_page returns a page in the wanted state, nothing, or the Corrupted error.
LEMMA FirstFound ==
  ASSUME NEW c, NEW from \in Int, NEW state
  PROVE  /\ FindFirst(c, from, state) \in PageOrNone
         /\ FindFirst(c, from, state) \in Pages =>
              StateOf(c, FindFirst(c, from, state)) = state
<1> DEFINE hits == Hits(c, from, state)
<1>1. hits \in SUBSET Nat
  BY PageCountAssumption DEF Hits, Pages
<1>2. CASE hits = {}
  BY <1>2 DEF FindFirst, PageOrNone, NoPage, Pages
<1>3. CASE hits # {}
  <2> DEFINE p == PageFrom(from, Min(hits))
  <2>1. Min(hits) \in hits
    BY <1>1, <1>3, MinInSet
  <2>2. Min(hits) \in Int /\ StateOf(c, p) \in {state, "Corrupted"}
    BY <2>1, <1>1 DEF Hits
  <2>3. p \in Pages
    BY <2>2, PageArithmetic
  <2> HIDE DEF p
  <2>4. FindFirst(c, from, state) =
          IF StateOf(c, p) = "Corrupted" THEN CorruptedPage ELSE p
    BY <1>3 DEF FindFirst, p
  <2>5. CorruptedPage \notin Pages
    BY PageCountAssumption DEF CorruptedPage, Pages
  <2>6. QED
    BY <2>2, <2>3, <2>4, <2>5 DEF PageOrNone
<1>4. QED  BY <1>2, <1>3

-----------------------------------------------------------------------------
(* Types of the cache *)

\* A new cache is a cache.
LEMMA FreshCacheType == FreshCache \in CacheType
BY PageWordsAssumption DEF FreshCache, CacheType, NoAddr

\* Marking a cache dirty or clean, or dropping a dirty one, leaves a cache.
LEMMA DirtyType ==
  ASSUME NEW c \in CacheType
  PROVE  Refresh(c) \in CacheType /\ MarkDirty(c) \in CacheType /\ UnmarkDirty(c) \in CacheType
BY FreshCacheType DEF Refresh, MarkDirty, UnmarkDirty, CacheType

\* Reading page states through the cache leaves a cache.
LEMMA LearnType ==
  ASSUME NEW c \in CacheType, NEW S, flash \in [Pages -> Page]
  PROVE  Learn(c, S) \in CacheType
<1> DEFINE new == {p \in S: c.states[p] = "Unknown" /\ MarkedState(flash[p]) # "Corrupted"}
<1>1. \A p \in Pages: p \in new => MarkedState(flash[p]) \in PageStates
  BY DEF MarkedState, PageStates, Page
<1>2. NoAddr \in NoAddr .. PageWords
  BY PageWordsAssumption DEF NoAddr
<1> HIDE DEF new
<1>3. StoreStates(c, new, LAMBDA p: MarkedState(flash[p])) \in CacheType
  BY <1>1, <1>2 DEF StoreStates, CacheType
<1>4. QED  BY <1>3 DEF Learn, new

\* So does noticing a new page state.
LEMMA NoticeStateType ==
  ASSUME NEW c \in CacheType, NEW p, NEW state \in PageStates
  PROVE  NoticeState(c, p, state) \in CacheType
<1>1. NoAddr \in NoAddr .. PageWords
  BY PageWordsAssumption DEF NoAddr
<1>2. QED  BY <1>1, DirtyType, ZenonT(30) DEF NoticeState, StoreStates, CacheType

\* So does noticing an item that is written or erased inside the page.
LEMMA NoticePointerType ==
  ASSUME NEW c \in CacheType, NEW p \in Pages, NEW a \in Addrs, NEW len \in Nat,
         a + 1 + len <= PageWords
  PROVE  NoticeWritten(c, p, a, len) \in CacheType /\ NoticeErased(c, p, a, len) \in CacheType
<1>1. a + 1 + len \in NoAddr .. PageWords
  BY PageWordsAssumption DEF NoAddr, Addrs
<1>2. NoticeWritten(c, p, a, len) \in CacheType
  BY <1>1, DirtyType DEF NoticeWritten, CacheType
<1>3. NoticeErased(c, p, a, len) \in CacheType
  BY <1>1, DirtyType DEF NoticeErased, CacheType
<1>4. QED  BY <1>2, <1>3

-----------------------------------------------------------------------------
(* Types of flash and of its operations *)

\* Erased pages are pages; zeroed and garbled headers are words.
LEMMA BlankType ==
  /\ ErasedPage \in Page
  /\ \A w \in Word: ZeroedHeader(w) \in Word /\ GarbledHeader(w) \in Word
  /\ Blank \in Word /\ Junk \in Word
<1>1. Blank \in Word /\ Junk \in Word
  BY DEF Blank, Junk, Word
<1>2. ErasedPage \in Page
  BY <1>1 DEF ErasedPage, Page
<1>3. \A w \in Word: ZeroedHeader(w) \in Word /\ GarbledHeader(w) \in Word
  BY DEF ZeroedHeader, GarbledHeader, Word
<1>4. QED  BY <1>1, <1>2, <1>3

\* Programming a word leaves a word.
LEMMA ProgrammedType ==
  ASSUME NEW old \in Word, NEW i \in Items
  PROVE  /\ Programmed(old, Header(i)) \in Word
         /\ Programmed(old, Body(i)) \in Word
<1>1. Header(i) \in Word /\ Body(i) \in Word
  BY SizeAssumption DEF Header, Body, Word
<1>2. QED  BY <1>1, BlankType DEF Programmed

\* A page with other words or markers is a page.
LEMMA PageUpdateType ==
  ASSUME NEW pg \in Page
  PROVE  /\ \A b \in BOOLEAN: /\ [pg EXCEPT !.start = b] \in Page
                              /\ [pg EXCEPT !.end = b] \in Page
         /\ \A a \in Addrs, w \in Word: WithWord(pg, a, w) \in Page
         /\ \A ws \in [Addrs -> Word]: WithWords(pg, ws) \in Page
BY DEF Page, WithWord, WithWords

HasData(c) == c.cmd \in {"header", "data"} => c.item \in Items

\* A flash operation that completes leaves a page behind.
LEMMA AppliedType ==
  ASSUME NEW pg \in Page, NEW c \in IOType, HasData(c)
  PROVE  Applied(pg, c) \in Page
<1>1. pg.words \in [Addrs -> Word] /\ pg.words[c.addr] \in Word /\ c.addr \in Addrs
  BY DEF Page, IOType
<1>2. CASE c.cmd \in {"none", "start", "end", "erase", "erase_all"}
  BY <1>2, PageUpdateType, BlankType DEF Applied
<1>3. CASE c.cmd = "header"
  BY <1>1, <1>3, ProgrammedType, PageUpdateType DEF Applied, HasData
<1>4. CASE c.cmd = "zero"
  BY <1>1, <1>4, BlankType, PageUpdateType DEF Applied
<1>5. CASE c.cmd = "data"
  <2> DEFINE ws == [a \in Addrs |-> IF a \in DataAddrs(c.addr, c.item)
                                    THEN Programmed(pg.words[a], Body(c.item)) ELSE pg.words[a]]
  <2>1. ws \in [Addrs -> Word]
    BY <1>1, <1>5, ProgrammedType DEF HasData
  <2> HIDE DEF ws
  <2>2. Applied(pg, c) = WithWords(pg, ws)
    BY <1>5 DEF Applied, ws
  <2>3. QED  BY <2>1, <2>2, PageUpdateType
<1>6. QED  BY <1>2, <1>3, <1>4, <1>5 DEF IOType, Commands

\* So does an erase that is cut short,
LEMMA TornEraseType ==
  ASSUME NEW pg \in Page
  PROVE  TornErases(pg) \subseteq Page
<1>1. pg.words \in [Addrs -> Word]
  BY DEF Page
<1>2. ASSUME NEW ws \in TornWords(pg.words)
      PROVE  ws \in [Addrs -> Word]
  <2> DEFINE left(k) == IF pg.words[k] = Blank THEN {Blank}
                        ELSE {pg.words[k], Junk} \cup
                             (IF pg.words[k].kind = "header"
                              THEN {GarbledHeader(pg.words[k])} ELSE {})
             reset(k, w) == [a \in Addrs |-> IF a < k THEN Blank
                                             ELSE IF a = k THEN w ELSE pg.words[a]]
  <2>1. PICK k \in Addrs: \E w \in left(k): ws = reset(k, w)
    BY <1>2 DEF TornWords
  <2>2. \A w \in left(k): w \in Word
    BY <1>1, BlankType
  <2>3. QED  BY <2>1, <2>2, <1>1, BlankType
<1>3. {[WithWords(pg, ws) EXCEPT !.start = FALSE]: ws \in TornWords(pg.words)} \subseteq Page
  BY <1>2, PageUpdateType
<1>4. [ErasedPage EXCEPT !.end = pg.end] \in Page
  BY BlankType, PageUpdateType DEF Page
<1>5. QED  BY <1>3, <1>4, BlankType DEF TornErases

\* and a data write that is cut short,
LEMMA TornDataType ==
  ASSUME NEW pg \in Page, NEW a, NEW i \in Items
  PROVE  TornData(pg, a, i) \subseteq Page
<1>1. pg.words \in [Addrs -> Word]
  BY DEF Page
<1>2. ASSUME NEW k, NEW torn
      PROVE  [b \in Addrs |->
                IF b \in (a + 1) .. (a + k) THEN Programmed(pg.words[b], Body(i))
                ELSE IF torn /\ b = a + k + 1 /\ b \in DataAddrs(a, i) THEN Junk
                ELSE pg.words[b]] \in [Addrs -> Word]
  BY <1>1, BlankType, ProgrammedType
<1>3. SUFFICES ASSUME NEW t \in TornData(pg, a, i) PROVE t \in Page
  OBVIOUS
<1>4. PICK k \in 0 .. Size[i], torn \in BOOLEAN:
        t = WithWords(pg, [b \in Addrs |->
                IF b \in (a + 1) .. (a + k) THEN Programmed(pg.words[b], Body(i))
                ELSE IF torn /\ b = a + k + 1 /\ b \in DataAddrs(a, i) THEN Junk
                ELSE pg.words[b]])
  BY DEF TornData
<1>5. QED  BY <1>2, <1>4, PageUpdateType

\* and any other operation that is cut short.
LEMMA TornType ==
  ASSUME NEW pg \in Page, NEW c \in IOType, HasData(c)
  PROVE  Torn(pg, c) \subseteq Page
<1>1. pg.words[c.addr] \in Word /\ c.addr \in Addrs
  BY DEF Page, IOType
<1>2. CASE c.cmd \in {"none", "start", "end"}
  BY <1>2, PageUpdateType DEF Torn
<1>3. CASE c.cmd = "header"
  <2>1. TornHeaders(pg.words[c.addr], Header(c.item)) \subseteq Word
    BY <1>1, <1>3, BlankType, ProgrammedType DEF TornHeaders, HasData
  <2>2. QED  BY <1>1, <1>3, <2>1, PageUpdateType DEF Torn
<1>4. CASE c.cmd = "zero"
  <2>1. TornZeroes(pg.words[c.addr]) \subseteq Word
    BY <1>1, BlankType DEF TornZeroes
  <2>2. QED  BY <1>1, <1>4, <2>1, PageUpdateType DEF Torn
<1>5. CASE c.cmd = "data"
  BY <1>5, TornDataType DEF Torn, HasData
<1>6. CASE c.cmd \in {"erase", "erase_all"}
  BY <1>6, TornEraseType DEF Torn
<1>7. QED  BY <1>2, <1>3, <1>4, <1>5, <1>6 DEF IOType, Commands

\* The flash contents keep their type, whether an operation completes or not.
LEMMA FlashType ==
  ASSUME flash \in [Pages -> Page], NEW c \in IOType, HasData(c)
  PROVE  Completed(c) \in [Pages -> Page] /\ Interrupted(c) \subseteq [Pages -> Page]
<1>1. Completed(c) \in [Pages -> Page]
  BY BlankType, AppliedType DEF Completed, IOType
<1>2. CASE c.cmd = "erase_all"
  <2>1. ASSUME NEW q \in Pages, NEW pg \in TornErases(flash[q])
        PROVE  [p \in Pages |-> IF p < q THEN ErasedPage ELSE IF p = q THEN pg ELSE flash[p]]
                 \in [Pages -> Page]
    BY <2>1, BlankType, TornEraseType
  <2>2. QED  BY <1>1, <1>2, <2>1 DEF Interrupted
<1>3. CASE c.cmd # "erase_all"
  <2>1. \A pg \in Torn(flash[c.page], c): pg \in Page
    BY TornType DEF IOType
  <2>2. QED  BY <1>1, <1>3, <2>1 DEF Interrupted
<1>4. QED  BY <1>2, <1>3

\* The absence of a flash operation counts as one.
LEMMA NoIOType ==
  NoIO \in IOType /\ HasData(NoIO) /\ NoIO.cmd = "none" /\ NoIO.page \in Pages
<1>1. 0 \in Pages /\ 0 \in Addrs
  BY PageCountAssumption, PageWordsAssumption DEF Pages, Addrs
<1>2. QED  BY <1>1 DEF NoIO, IOType, Commands, HasData

\* Operations on a page are flash operations.
LEMMA PageIOType ==
  ASSUME NEW p \in Pages, NEW cmd \in Commands \ {"header", "data"}
  PROVE  PageIO(cmd, p) \in IOType /\ HasData(PageIO(cmd, p))
BY NoIOType DEF PageIO, NoIO, IOType, HasData

\* Operations on an item are flash operations.
LEMMA ItemIOType ==
  ASSUME NEW p \in Pages, NEW cmd \in Commands, NEW a \in Addrs,
         NEW i \in Items \cup {NoItem}, cmd \in {"header", "data"} => i \in Items
  PROVE  ItemIO(cmd, p, a, i) \in IOType /\ HasData(ItemIO(cmd, p, a, i))
BY DEF ItemIO, IOType, HasData

\* A flash operation is cut short.
LEMMA CutShortType ==
  ASSUME flash \in [Pages -> Page], io \in IOType, HasData(io), FlashCutShort
  PROVE  flash' \in [Pages -> Page] /\ io' = NoIO /\ HasData(io)' /\ io' \in IOType
BY FlashType, NoIOType DEF FlashCutShort

\* Opening and closing a page: the cache and the pending operation keep their types.
LEMMA MarkerType ==
  ASSUME flash \in [Pages -> Page], NEW c \in CacheType, NEW p \in Pages,
         OpenPage(c, p) \/ PartialClosePage(c, p) \/ ClosePage(c, p)
  PROVE  cache' \in CacheType /\ io' \in IOType /\ HasData(io)'
<1>1. Learn(c, {p}) \in CacheType
  BY LearnType
<1>2. \A state \in PageStates: /\ NoticeState(c, p, state) \in CacheType
                               /\ NoticeState(Learn(c, {p}), p, state) \in CacheType
  BY <1>1, NoticeStateType
<1>3. \A cmd \in {"erase", "start", "end"}: PageIO(cmd, p) \in IOType /\ HasData(PageIO(cmd, p))
  BY PageIOType DEF Commands
<1>4. NoIO \in IOType /\ HasData(NoIO)
  BY NoIOType
<1>5. CASE OpenPage(c, p)
  BY <1>2, <1>3, <1>5 DEF OpenPage, PageStates
<1>6. CASE PartialClosePage(c, p)
  BY <1>1, <1>2, <1>3, <1>4, <1>6 DEF PartialClosePage, PageStates
<1>7. CASE ClosePage(c, p)
  BY <1>1, <1>2, <1>3, <1>4, <1>7 DEF ClosePage, PageStates
<1>8. QED  BY <1>5, <1>6, <1>7

\* With nothing pending, flash is what it will be.
LEMMA NoIOCompleted ==
  /\ flash \in [Pages -> Page] => Completed(NoIO) = flash
  /\ flash' \in [Pages -> Page] /\ io' = NoIO => Completed(io)' = flash'
<1>1. NoIO.cmd = "none" /\ NoIO.page = 0 /\ 0 \in Pages
  BY NoIOType DEF NoIO
<1>2. \A pg: Applied(pg, NoIO) = pg
  BY <1>1 DEF Applied
<1>3. QED  BY <1>1, <1>2 DEF Completed

-----------------------------------------------------------------------------
(* The walk over the items of a page *)

\* The next header is further up, and inside the page or at its end.
LEMMA NextAddrType ==
  ASSUME NEW ws \in [Addrs -> Word], NEW a \in Addrs
  PROVE  NextAddr(ws, a) \in a + 1 .. PageWords
<1>1. a \in 0 .. PageWords - 1 /\ ws[a].len \in Nat /\ PageWords \in Nat
  BY PageWordsAssumption DEF Addrs, Word
<1>2. QED  BY <1>1 DEF NextAddr, IsItem

\* The end of the items, header by header.
LEMMA EndOfItemsIs ==
  ASSUME NEW ws \in [Addrs -> Word]
  PROVE  /\ EndOfItems(ws, PageWords) = PageWords
         /\ \A a \in Addrs: EndOfItems(ws, a) =
              IF ws[a] = Blank THEN a ELSE EndOfItems(ws, NextAddr(ws, a))
<1> DEFINE n == PageWords
           E(u, a) == IF a = n THEN a ELSE IF ws[a] = Blank THEN a
                      ELSE IF IsItem(ws, a) /\ FALSE THEN a ELSE u[NextAddr(ws, a)]
           P(u) == u = [a \in 0 .. n |-> E(u, a)]
           walk == CHOOSE u: P(u)
           f == [a \in 0 .. n - 1 |-> IF ws[a] = Blank THEN [x \in 0 .. n |-> a]
                                      ELSE [x \in 0 .. n |-> x]]
           next == [a \in 0 .. n - 1 |-> NextAddr(ws, a)]
<1>1. n \in Nat /\ n \in 0 .. n /\ 0 .. n - 1 = Addrs /\ Addrs \subseteq 0 .. n
  BY PageWordsAssumption DEF Addrs
<1>2. \A a \in 0 .. n - 1: NextAddr(ws, a) \in a + 1 .. n
  BY <1>1, NextAddrType
<1>3. \E g: P(g)
  <2>1. f \in [0 .. n - 1 -> [0 .. n -> 0 .. n]]
    BY <1>1
  <2>2. \A a \in 0 .. n - 1: next[a] \in a + 1 .. n
    BY <1>2
  <2> HIDE DEF f, next, n
  <2>3. PICK g \in [0 .. n -> 0 .. n]: Descent(g, n, n, f, next)
    BY <1>1, <2>1, <2>2, Descends
  <2>4. ASSUME NEW a \in 0 .. n, a # n
        PROVE  /\ next[a] = NextAddr(ws, a) /\ NextAddr(ws, a) \in 0 .. n
               /\ \A x \in 0 .. n: f[a][x] = IF ws[a] = Blank THEN a ELSE x
    <3>1. a \in 0 .. n - 1
      BY <1>1, <2>4
    <3>2. NextAddr(ws, a) \in a + 1 .. n
      BY <1>2, <3>1
    <3>3. NextAddr(ws, a) \in 0 .. n
      BY <1>1, <3>1, <3>2
    <3>4. QED  BY <3>1, <3>3 DEF f, next
  <2>5. \A a \in 0 .. n: g[a] = E(g, a)
    <3>1. SUFFICES ASSUME NEW a \in 0 .. n PROVE g[a] = E(g, a)
      OBVIOUS
    <3>2. CASE a = n
      BY <2>3, <3>2 DEF Descent
    <3>3. CASE a # n
      <4>1. g[NextAddr(ws, a)] \in 0 .. n
        BY <2>4, <3>3
      <4>2. g[a] = f[a][g[NextAddr(ws, a)]]
        BY <2>3, <2>4, <3>3 DEF Descent
      <4>3. QED  BY <2>4, <3>3, <4>1, <4>2
    <3>4. QED  BY <3>2, <3>3
  <2>6. P(g)
    BY <2>5
  <2>7. QED  BY <2>6
<1>4. P(walk)
  <2> HIDE DEF P
  <2>1. QED  BY <1>3
<1>5. \A a \in 0 .. n: walk[a] = E(walk, a)
  <2> HIDE DEF walk, E
  <2>1. QED  BY <1>4
<1>6. \A a: EndOfItems(ws, a) = walk[a]
  BY DEF EndOfItems, Traverse
<1> HIDE DEF walk
<1>7. QED  BY <1>1, <1>5, <1>6

LEMMA EndOfItemsType ==
  ASSUME NEW ws \in [Addrs -> Word], NEW from \in 0 .. PageWords
  PROVE  EndOfItems(ws, from) \in from .. PageWords
<1> DEFINE n == PageWords
           S == {k \in 0 .. n: \A a \in n - k .. n: EndOfItems(ws, a) \in a .. n}
<1>1. n \in Nat /\ 0 .. n - 1 = Addrs
  BY PageWordsAssumption DEF Addrs
<1>2. 0 \in S
  BY <1>1, EndOfItemsIs
<1>3. ASSUME NEW k \in 0 .. n - 1, k \in S
      PROVE  k + 1 \in S
  <2> DEFINE m == n - (k + 1)
  <2>1. m \in Addrs /\ k + 1 \in 0 .. n /\ m \in 0 .. n - 1 /\ m + 1 = n - k
    BY <1>1
  <2>2. \A a \in m .. n: a = m \/ a \in n - k .. n
    BY <2>1
  <2>3. NextAddr(ws, m) \in n - k .. n
    BY <2>1, NextAddrType
  <2>4. EndOfItems(ws, NextAddr(ws, m)) \in NextAddr(ws, m) .. n
    BY <1>3, <2>3
  <2>5. EndOfItems(ws, m) \in {m, EndOfItems(ws, NextAddr(ws, m))}
    BY <2>1, EndOfItemsIs
  <2> HIDE DEF m
  <2>6. EndOfItems(ws, m) \in m .. n
    BY <1>1, <2>1, <2>3, <2>4, <2>5
  <2>7. \A a \in m .. n: EndOfItems(ws, a) \in a .. n
    BY <1>3, <2>2, <2>6
  <2>8. QED  BY <2>1, <2>7 DEF m
<1> HIDE DEF S
<1>4. 0 .. n \subseteq S
  BY <1>1, <1>2, <1>3, UpTo
<1>5. n \in S /\ from \in n - n .. n
  BY <1>1, <1>4
<1>6. QED  BY <1>5 DEF S

\* The first address, from `from` on, of an item whose CRC field is not zeroed, or the
\* address where headers end.
Unerased(ws, from) == Traverse(ws, from, LAMBDA w: w.crc # NoItem)

\* The search stops at a: there is an item that is not erased.
Stops(ws, a) == IsItem(ws, a) /\ ws[a].crc # NoItem

\* The search for an item that is not erased, header by header.
LEMMA UnerasedIs ==
  ASSUME NEW ws \in [Addrs -> Word]
  PROVE  /\ Unerased(ws, PageWords) = PageWords
         /\ \A a \in Addrs: Unerased(ws, a) =
              IF ws[a] = Blank \/ Stops(ws, a) THEN a ELSE Unerased(ws, NextAddr(ws, a))
<1> DEFINE n == PageWords
           E(u, a) == IF a = n THEN a ELSE IF ws[a] = Blank THEN a
                      ELSE IF IsItem(ws, a) /\ ws[a].crc # NoItem THEN a ELSE u[NextAddr(ws, a)]
           P(u) == u = [a \in 0 .. n |-> E(u, a)]
           walk == CHOOSE u: P(u)
           f == [a \in 0 .. n - 1 |-> IF ws[a] = Blank \/ Stops(ws, a)
                                      THEN [x \in 0 .. n |-> a]
                                      ELSE [x \in 0 .. n |-> x]]
           next == [a \in 0 .. n - 1 |-> NextAddr(ws, a)]
<1>1. n \in Nat /\ n \in 0 .. n /\ 0 .. n - 1 = Addrs /\ Addrs \subseteq 0 .. n
  BY PageWordsAssumption DEF Addrs
<1>2. \A a \in 0 .. n - 1: NextAddr(ws, a) \in a + 1 .. n
  BY <1>1, NextAddrType
<1>3. \E g: P(g)
  <2>1. f \in [0 .. n - 1 -> [0 .. n -> 0 .. n]]
    BY <1>1
  <2>2. \A a \in 0 .. n - 1: next[a] \in a + 1 .. n
    BY <1>2
  <2> HIDE DEF f, next, n
  <2>3. PICK g \in [0 .. n -> 0 .. n]: Descent(g, n, n, f, next)
    BY <1>1, <2>1, <2>2, Descends
  <2>4. ASSUME NEW a \in 0 .. n, a # n
        PROVE  /\ next[a] = NextAddr(ws, a) /\ NextAddr(ws, a) \in 0 .. n
               /\ \A x \in 0 .. n: f[a][x] = IF ws[a] = Blank \/ Stops(ws, a) THEN a ELSE x
    <3>1. a \in 0 .. n - 1
      BY <1>1, <2>4
    <3>2. NextAddr(ws, a) \in a + 1 .. n
      BY <1>2, <3>1
    <3>3. NextAddr(ws, a) \in 0 .. n
      BY <1>1, <3>1, <3>2
    <3>4. QED  BY <3>1, <3>3 DEF f, next
  <2>5. \A a \in 0 .. n: g[a] = E(g, a)
    <3>1. SUFFICES ASSUME NEW a \in 0 .. n PROVE g[a] = E(g, a)
      OBVIOUS
    <3>2. CASE a = n
      BY <2>3, <3>2 DEF Descent
    <3>3. CASE a # n
      <4>1. g[NextAddr(ws, a)] \in 0 .. n
        BY <2>4, <3>3
      <4>2. g[a] = f[a][g[NextAddr(ws, a)]]
        BY <2>3, <2>4, <3>3 DEF Descent
      <4>3. QED  BY <2>4, <3>3, <4>1, <4>2 DEF Stops
    <3>4. QED  BY <3>2, <3>3
  <2>6. P(g)
    BY <2>5
  <2>7. QED  BY <2>6
<1>4. P(walk)
  <2> HIDE DEF P
  <2>1. QED  BY <1>3
<1>5. \A a \in 0 .. n: walk[a] = E(walk, a)
  <2> HIDE DEF walk, E
  <2>1. QED  BY <1>4
<1>6. \A a: Unerased(ws, a) = walk[a]
  BY DEF Unerased, Traverse
<1> HIDE DEF walk
<1>7. QED  BY <1>1, <1>5, <1>6 DEF Stops

\* Two pages on which the walk takes the same steps from every header below e: from any
\* address whose walk ends at e on the first page, it gets to e on the second.
LEMMA WalkKept ==
  ASSUME NEW v \in [Addrs -> Word], NEW w \in [Addrs -> Word],
         NEW from \in 0 .. PageWords, NEW e, EndOfItems(v, from) = e,
         \A a \in Addrs: a < e /\ v[a] # Blank => w[a] # Blank /\ NextAddr(w, a) = NextAddr(v, a)
  PROVE  EndOfItems(w, from) = EndOfItems(w, e)
<1> DEFINE n == PageWords
           S == {k \in 0 .. n: \A a \in n - k .. n:
                   EndOfItems(v, a) = e => EndOfItems(w, a) = EndOfItems(w, e)}
<1>1. n \in Nat /\ 0 .. n - 1 = Addrs
  BY PageWordsAssumption DEF Addrs
<1>2. 0 \in S
  BY <1>1, EndOfItemsIs
<1>3. ASSUME NEW k \in 0 .. n - 1, k \in S
      PROVE  k + 1 \in S
  <2> DEFINE m == n - (k + 1)
  <2>1. m \in Addrs /\ k + 1 \in 0 .. n /\ m \in 0 .. n - 1 /\ m + 1 = n - k
    BY <1>1
  <2>2. \A a \in m .. n: a = m \/ a \in n - k .. n
    BY <2>1
  <2>3. NextAddr(v, m) \in n - k .. n
    BY <2>1, NextAddrType
  <2> HIDE DEF m
  <2>4. ASSUME EndOfItems(v, m) = e PROVE EndOfItems(w, m) = EndOfItems(w, e)
    <3>1. CASE v[m] = Blank
      BY <2>1, <2>4, <3>1, EndOfItemsIs
    <3>2. CASE v[m] # Blank
      <4>1. EndOfItems(v, NextAddr(v, m)) = e
        BY <2>1, <2>4, <3>2, EndOfItemsIs
      <4>2. e \in NextAddr(v, m) .. n
        BY <1>1, <2>1, <2>3, <4>1, EndOfItemsType
      <4>3. m < e
        BY <1>1, <2>1, <2>3, <4>2
      <4>4. w[m] # Blank /\ NextAddr(w, m) = NextAddr(v, m)
        BY <2>1, <3>2, <4>3
      <4>5. EndOfItems(w, NextAddr(v, m)) = EndOfItems(w, e)
        BY <1>3, <2>3, <4>1
      <4>6. QED  BY <2>1, <4>4, <4>5, EndOfItemsIs
    <3>3. QED  BY <3>1, <3>2
  <2>5. \A a \in m .. n: EndOfItems(v, a) = e => EndOfItems(w, a) = EndOfItems(w, e)
    BY <1>3, <2>2, <2>4
  <2>6. QED  BY <2>1, <2>5 DEF m
<1> HIDE DEF S
<1>4. 0 .. n \subseteq S
  BY <1>1, <1>2, <1>3, UpTo
<1>5. n \in S /\ from \in n - n .. n
  BY <1>1, <1>4
<1>6. QED  BY <1>5 DEF S

\* The search ends at the address it starts from or behind it, and inside the page.
LEMMA UnerasedType ==
  ASSUME NEW ws \in [Addrs -> Word], NEW from \in 0 .. PageWords
  PROVE  Unerased(ws, from) \in from .. PageWords
<1> DEFINE n == PageWords
           S == {k \in 0 .. n: \A a \in n - k .. n: Unerased(ws, a) \in a .. n}
<1>1. n \in Nat /\ 0 .. n - 1 = Addrs
  BY PageWordsAssumption DEF Addrs
<1>2. 0 \in S
  BY <1>1, UnerasedIs
<1>3. ASSUME NEW k \in 0 .. n - 1, k \in S
      PROVE  k + 1 \in S
  <2> DEFINE m == n - (k + 1)
  <2>1. m \in Addrs /\ k + 1 \in 0 .. n /\ m \in 0 .. n - 1 /\ m + 1 = n - k
    BY <1>1
  <2>2. \A a \in m .. n: a = m \/ a \in n - k .. n
    BY <2>1
  <2>3. NextAddr(ws, m) \in n - k .. n
    BY <2>1, NextAddrType
  <2>4. Unerased(ws, NextAddr(ws, m)) \in NextAddr(ws, m) .. n
    BY <1>3, <2>3
  <2>5. Unerased(ws, m) \in {m, Unerased(ws, NextAddr(ws, m))}
    BY <2>1, UnerasedIs
  <2> HIDE DEF m
  <2>6. Unerased(ws, m) \in m .. n
    BY <1>1, <2>1, <2>3, <2>4, <2>5
  <2>7. \A a \in m .. n: Unerased(ws, a) \in a .. n
    BY <1>3, <2>2, <2>6
  <2>8. QED  BY <2>1, <2>7 DEF m
<1> HIDE DEF S
<1>4. 0 .. n \subseteq S
  BY <1>1, <1>2, <1>3, UpTo
<1>5. n \in S /\ from \in n - n .. n
  BY <1>1, <1>4
<1>6. QED  BY <1>5 DEF S

\* Words that keep what the search passes over do not change where it gets to.
LEMMA SearchKept ==
  ASSUME NEW v \in [Addrs -> Word], NEW w \in [Addrs -> Word],
         NEW from \in 0 .. PageWords, NEW u, Unerased(v, from) = u,
         \A a \in Addrs: a < u /\ v[a] # Blank /\ ~Stops(v, a) =>
           w[a] # Blank /\ ~Stops(w, a) /\ NextAddr(w, a) = NextAddr(v, a)
  PROVE  Unerased(w, from) = Unerased(w, u)
<1> DEFINE n == PageWords
           S == {k \in 0 .. n: \A a \in n - k .. n:
                   Unerased(v, a) = u => Unerased(w, a) = Unerased(w, u)}
<1>1. n \in Nat /\ 0 .. n - 1 = Addrs
  BY PageWordsAssumption DEF Addrs
<1>2. 0 \in S
  BY <1>1, UnerasedIs
<1>3. ASSUME NEW k \in 0 .. n - 1, k \in S
      PROVE  k + 1 \in S
  <2> DEFINE m == n - (k + 1)
  <2>1. m \in Addrs /\ k + 1 \in 0 .. n /\ m \in 0 .. n - 1 /\ m + 1 = n - k
    BY <1>1
  <2>2. \A a \in m .. n: a = m \/ a \in n - k .. n
    BY <2>1
  <2>3. NextAddr(v, m) \in n - k .. n
    BY <2>1, NextAddrType
  <2> HIDE DEF m
  <2>4. ASSUME Unerased(v, m) = u PROVE Unerased(w, m) = Unerased(w, u)
    <3>1. CASE v[m] = Blank \/ Stops(v, m)
      BY <2>1, <2>4, <3>1, UnerasedIs
    <3>2. CASE ~(v[m] = Blank \/ Stops(v, m))
      <4>1. Unerased(v, NextAddr(v, m)) = u
        BY <2>1, <2>4, <3>2, UnerasedIs
      <4>2. u \in NextAddr(v, m) .. n
        <5>1. NextAddr(v, m) \in 0 .. n
          BY <1>1, <2>1, <2>3
        <5>2. QED  BY <4>1, <5>1, UnerasedType
      <4>3. m < u
        BY <1>1, <2>1, <2>3, <4>2
      <4>4. w[m] # Blank /\ ~Stops(w, m) /\ NextAddr(w, m) = NextAddr(v, m)
        BY <2>1, <3>2, <4>3
      <4>5. Unerased(w, NextAddr(v, m)) = Unerased(w, u)
        BY <1>3, <2>3, <4>1
      <4>6. QED  BY <2>1, <4>4, <4>5, UnerasedIs
    <3>3. QED  BY <3>1, <3>2
  <2>5. \A a \in m .. n: Unerased(v, a) = u => Unerased(w, a) = Unerased(w, u)
    BY <1>3, <2>2, <2>4
  <2>6. QED  BY <2>1, <2>5 DEF m
<1> HIDE DEF S
<1>4. 0 .. n \subseteq S
  BY <1>1, <1>2, <1>3, UpTo
<1>5. n \in S /\ from \in n - n .. n
  BY <1>1, <1>4
<1>6. QED  BY <1>5 DEF S

-----------------------------------------------------------------------------
(* Markers, and operations that leave them alone *)

SameMarkers(f, g) == \A p \in Pages: MarkedState(f[p]) = MarkedState(g[p])

\* Words and markers of a page are independent.
LEMMA WordsKeepMarkers ==
  ASSUME NEW pg \in Page
  PROVE  /\ \A a, w: MarkedState(WithWord(pg, a, w)) = MarkedState(pg)
         /\ \A ws: MarkedState(WithWords(pg, ws)) = MarkedState(pg)
BY DEF WithWord, WithWords, MarkedState, Page

\* Operations on items leave the markers of their page alone, done or cut short.
LEMMA DataKeepsMarkers ==
  ASSUME NEW pg \in Page, NEW c, c.cmd \in {"none", "header", "data", "zero"}
  PROVE  /\ MarkedState(Applied(pg, c)) = MarkedState(pg)
         /\ \A t \in Torn(pg, c): MarkedState(t) = MarkedState(pg)
<1>1. CASE c.cmd = "none"
  BY <1>1 DEF Applied, Torn
<1>2. CASE c.cmd = "header"
  BY <1>2, WordsKeepMarkers DEF Applied, Torn
<1>3. CASE c.cmd = "data"
  <2>1. MarkedState(Applied(pg, c)) = MarkedState(pg)
    BY <1>3, WordsKeepMarkers DEF Applied
  <2>2. ASSUME NEW t \in TornData(pg, c.addr, c.item)
        PROVE  MarkedState(t) = MarkedState(pg)
    <3>1. PICK k \in 0 .. Size[c.item], torn \in BOOLEAN:
            t = WithWords(pg, [b \in Addrs |->
                  IF b \in (c.addr + 1) .. (c.addr + k) THEN Programmed(pg.words[b], Body(c.item))
                  ELSE IF torn /\ b = c.addr + k + 1 /\ b \in DataAddrs(c.addr, c.item) THEN Junk
                  ELSE pg.words[b]])
      BY <2>2 DEF TornData
    <3>2. QED  BY <3>1, WordsKeepMarkers
  <2>3. QED  BY <1>3, <2>1, <2>2 DEF Torn
<1>4. CASE c.cmd = "zero"
  BY <1>4, WordsKeepMarkers DEF Applied, Torn
<1>5. QED  BY <1>1, <1>2, <1>3, <1>4

\* So they leave those of every page alone.
LEMMA QuietFlash ==
  ASSUME flash \in [Pages -> Page], NEW c \in IOType,
         c.cmd \in {"none", "header", "data", "zero"}
  PROVE  /\ SameMarkers(Completed(c), flash)
         /\ \A f \in Interrupted(c): SameMarkers(f, flash)
<1>1. c.page \in Pages /\ flash[c.page] \in Page
  BY DEF IOType
<1>2. /\ Completed(c) = [flash EXCEPT ![c.page] = Applied(flash[c.page], c)]
      /\ Interrupted(c) = {[flash EXCEPT ![c.page] = pg]: pg \in Torn(flash[c.page], c)}
  BY <1>1 DEF Completed, Interrupted
<1>3. QED  BY <1>1, <1>2, DataKeepsMarkers DEF SameMarkers

\* What an erase and the two marker writes do to the page states.
LEMMA MarkersWritten ==
  ASSUME flash \in [Pages -> Page], NEW p \in Pages
  PROVE  \A q \in Pages:
           /\ MarkedState(Completed(PageIO("erase", p))[q]) =
                IF q = p THEN "Open" ELSE MarkedState(flash[q])
           /\ MarkedState(flash[p]) = "Open" =>
                MarkedState(Completed(PageIO("start", p))[q]) =
                  IF q = p THEN "PartialOpen" ELSE MarkedState(flash[q])
           /\ MarkedState(flash[p]) = "PartialOpen" =>
                MarkedState(Completed(PageIO("end", p))[q]) =
                  IF q = p THEN "Closed" ELSE MarkedState(flash[q])
<1>1. \A cmd: PageIO(cmd, p).cmd = cmd /\ PageIO(cmd, p).page = p
  BY DEF PageIO, NoIO
<1>2. \A cmd \in {"erase", "start", "end"}:
        Completed(PageIO(cmd, p)) = [flash EXCEPT ![p] = Applied(flash[p], PageIO(cmd, p))]
  BY <1>1 DEF Completed
<1>3. /\ Applied(flash[p], PageIO("erase", p)) = ErasedPage
      /\ Applied(flash[p], PageIO("start", p)) = [flash[p] EXCEPT !.start = TRUE]
      /\ Applied(flash[p], PageIO("end", p)) = [flash[p] EXCEPT !.end = TRUE]
  BY <1>1 DEF Applied
<1>4. flash[p] \in Page
  OBVIOUS
<1>5. /\ MarkedState(ErasedPage) = "Open"
      /\ MarkedState(flash[p]) = "Open" =>
           MarkedState([flash[p] EXCEPT !.start = TRUE]) = "PartialOpen"
      /\ MarkedState(flash[p]) = "PartialOpen" =>
           MarkedState([flash[p] EXCEPT !.end = TRUE]) = "Closed"
  BY <1>4 DEF MarkedState, ErasedPage, Page
<1>6. QED  BY <1>2, <1>3, <1>5

-----------------------------------------------------------------------------
(* What the operations on the cache do to the states it knows *)

\* Every page state c knows is one the pages of fl are marked with.
Sound(c, fl) ==
  \A p \in Pages:
    c.states[p] \in IF CacheKind = "none" THEN {"Unknown"}
                    ELSE {"Unknown", MarkedState(fl[p])}

Good(c) == Sound(c, flash) /\ (CacheKind = "none" => ~c.dirty)

\* A new cache knows nothing that is wrong.
LEMMA FreshSound ==
  Good(FreshCache) /\ \A fl: Sound(FreshCache, fl)
BY DEF Good, Sound, FreshCache

\* What is read from flash is right.
LEMMA LearnSound ==
  ASSUME NEW c \in CacheType, NEW S, Sound(c, flash)
  PROVE  /\ Sound(Learn(c, S), flash)
         /\ Learn(c, S).dirty = c.dirty
<1> DEFINE new == {p \in S: c.states[p] = "Unknown" /\ MarkedState(flash[p]) # "Corrupted"}
<1>1. CASE CacheKind = "none"
  BY <1>1 DEF Learn
<1>2. CASE CacheKind # "none"
  <2>1. Learn(c, S).states = [p \in Pages |-> IF p \in new THEN MarkedState(flash[p]) ELSE c.states[p]]
    BY <1>2 DEF Learn, StoreStates, CacheType
  <2>2. Learn(c, S).dirty = c.dirty
    BY <1>2 DEF Learn, StoreStates, CacheType
  <2>3. QED  BY <1>2, <2>1, <2>2 DEF Sound
<1>3. QED  BY <1>1, <1>2

\* notice_page_state sets one state and marks the cache dirty,
LEMMA NoticeStateSound ==
  ASSUME NEW c \in CacheType, NEW p \in Pages, NEW state, CacheKind # "none"
  PROVE  /\ NoticeState(c, p, state).dirty
         /\ NoticeState(c, p, state).states = [c.states EXCEPT ![p] = state]
<1>1. MarkDirty(c) \in CacheType /\ MarkDirty(c).dirty /\ MarkDirty(c).states = c.states
  BY DEF MarkDirty, CacheType
<1>2. /\ NoticeState(c, p, state).states =
           [q \in Pages |-> IF q \in {p} THEN state ELSE c.states[q]]
      /\ NoticeState(c, p, state).dirty = MarkDirty(c).dirty
  BY <1>1 DEF NoticeState, StoreStates, CacheType
<1>3. QED  BY <1>1, <1>2 DEF CacheType

\* unless there is no cache.
LEMMA NoneNotices ==
  ASSUME NEW c \in CacheType, NEW p, NEW state, CacheKind = "none"
  PROVE  NoticeState(c, p, state) = [c EXCEPT !.dirty = FALSE]
BY DEF NoticeState, StoreStates, MarkDirty

\* A cache that is sound before a marker is written or a page erased is sound
\* for the flash contents that follow, and dirty.
LEMMA MarkerSound ==
  ASSUME flash \in [Pages -> Page], NEW c \in CacheType, NEW p \in Pages, Good(c),
         OpenPage(c, p) \/ PartialClosePage(c, p) \/ ClosePage(c, p), flash' = flash
  PROVE  /\ Sound(cache', Completed(io)')
         /\ CacheKind = "none" => ~cache'.dirty
         /\ io'.cmd \in {"start", "end", "erase"} => CacheKind = "none" \/ cache'.dirty
         /\ io'.cmd # "erase_all"
<1> USE DEF Good
<1>1. Completed(io)' = Completed(io')
  BY DEF Completed
<1> DEFINE d == Learn(c, {p})
<1>2. d \in CacheType /\ Sound(d, flash) /\ d.dirty = c.dirty
  BY LearnType, LearnSound
<1>3. \A cmd: PageIO(cmd, p).cmd = cmd
  BY DEF PageIO, NoIO
<1>4. NoIO.cmd = "none" /\ NoIO \in IOType
  BY NoIOType DEF NoIO
<1>5. SameMarkers(Completed(NoIO), flash)
  BY <1>4, QuietFlash
<1> HIDE DEF d
<1>6. CASE cache' = d /\ io' = NoIO
  BY <1>1, <1>2, <1>4, <1>5, <1>6 DEF Sound, SameMarkers
<1>7. \/ cache' = d /\ io' = NoIO
      \/ cache' = NoticeState(c, p, "Open") /\ io' = PageIO("erase", p)
      \/ cache' = NoticeState(d, p, "PartialOpen") /\ io' = PageIO("start", p) /\ StateOf(c, p) = "Open"
      \/ cache' = NoticeState(d, p, "Closed") /\ io' = PageIO("end", p) /\ StateOf(c, p) = "PartialOpen"
  BY DEF OpenPage, PartialClosePage, ClosePage, d
<1>8. CASE cache' = NoticeState(c, p, "Open") /\ io' = PageIO("erase", p)
  <2>1. CASE CacheKind = "none"
    BY <1>3, <1>8, <2>1, NoneNotices DEF Sound, CacheType
  <2>2. CASE CacheKind # "none"
    <3>1. cache'.dirty /\ cache'.states = [c.states EXCEPT ![p] = "Open"]
      BY <1>8, <2>2, NoticeStateSound
    <3>2. QED  BY <1>1, <1>3, <1>8, <2>2, <3>1, MarkersWritten DEF Sound, CacheType
  <2>3. QED  BY <2>1, <2>2
<1>9. StateOf(c, p) = MarkedState(flash[p])
  BY DEF StateOf, Sound
<1>10. CASE /\ cache' = NoticeState(d, p, "PartialOpen") /\ io' = PageIO("start", p)
            /\ StateOf(c, p) = "Open"
  <2>1. CASE CacheKind = "none"
    BY <1>2, <1>3, <1>10, <2>1, NoneNotices DEF Sound, CacheType
  <2>2. CASE CacheKind # "none"
    <3>1. cache'.dirty /\ cache'.states = [d.states EXCEPT ![p] = "PartialOpen"]
      BY <1>2, <1>10, <2>2, NoticeStateSound
    <3>2. \A q \in Pages: MarkedState(Completed(io')[q]) =
                            IF q = p THEN "PartialOpen" ELSE MarkedState(flash[q])
      <4>1. MarkedState(flash[p]) = "Open"
        BY <1>9, <1>10
      <4>2. \A q \in Pages: MarkedState(Completed(PageIO("start", p))[q]) =
                              IF q = p THEN "PartialOpen" ELSE MarkedState(flash[q])
        BY <4>1, MarkersWritten
      <4>3. QED  BY <1>10, <4>2
    <3>3. Sound(cache', Completed(io'))
      BY <1>2, <2>2, <3>1, <3>2 DEF Sound, CacheType
    <3>4. QED  BY <1>1, <1>3, <1>10, <2>2, <3>1, <3>3
  <2>3. QED  BY <2>1, <2>2
<1>11. CASE /\ cache' = NoticeState(d, p, "Closed") /\ io' = PageIO("end", p)
            /\ StateOf(c, p) = "PartialOpen"
  <2>1. CASE CacheKind = "none"
    BY <1>2, <1>3, <1>11, <2>1, NoneNotices DEF Sound, CacheType
  <2>2. CASE CacheKind # "none"
    <3>1. cache'.dirty /\ cache'.states = [d.states EXCEPT ![p] = "Closed"]
      BY <1>2, <1>11, <2>2, NoticeStateSound
    <3>2. \A q \in Pages: MarkedState(Completed(io')[q]) =
                            IF q = p THEN "Closed" ELSE MarkedState(flash[q])
      <4>1. MarkedState(flash[p]) = "PartialOpen"
        BY <1>9, <1>11
      <4>2. \A q \in Pages: MarkedState(Completed(PageIO("end", p))[q]) =
                              IF q = p THEN "Closed" ELSE MarkedState(flash[q])
        BY <4>1, MarkersWritten
      <4>3. QED  BY <1>11, <4>2
    <3>3. Sound(cache', Completed(io'))
      BY <1>2, <2>2, <3>1, <3>2 DEF Sound, CacheType
    <3>4. QED  BY <1>1, <1>3, <1>11, <2>2, <3>1, <3>3
  <2>3. QED  BY <2>1, <2>2
<1>12. QED  BY <1>6, <1>7, <1>8, <1>10, <1>11

\* Reading page states and marking the cache clean keep a good cache good.
LEMMA GoodOps ==
  ASSUME flash \in [Pages -> Page], NEW c \in CacheType, Good(c)
  PROVE  Good(UnmarkDirty(c)) /\ \A S: Good(Learn(c, S))
<1>1. UnmarkDirty(c).states = c.states /\ ~UnmarkDirty(c).dirty
  BY DEF UnmarkDirty, CacheType
<1>2. Good(UnmarkDirty(c))
  BY <1>1 DEF Good, Sound
<1>3. ASSUME NEW S PROVE Good(Learn(c, S))
  BY LearnSound DEF Good
<1>4. QED  BY <1>2, <1>3

-----------------------------------------------------------------------------
(* What the operations do to the marks of the pages *)

PageState == {"Open", "PartialOpen", "Closed", "Corrupted"}
Marks(fl) == [p \in Pages |-> MarkedState(fl[p])]

\* The pages as they are, and as they will be when the pending operation is done.
Now == Marks(flash)
Then == Marks(Completed(io))

\* Every page has a mark.
LEMMA MarksType ==
  ASSUME NEW fl \in [Pages -> Page]
  PROVE  Marks(fl) \in [Pages -> PageState]
BY DEF Marks, PageState, MarkedState, Page

\* Flash contents with the same markers have the same marks.
LEMMA SameMarks ==
  ASSUME NEW f, NEW g, SameMarkers(f, g)
  PROVE  Marks(f) = Marks(g)
BY DEF SameMarkers, Marks

\* The pages as they are and as they will be, while the type invariant holds.
LEMMA NowThenType ==
  ASSUME flash \in [Pages -> Page], io \in IOType, HasData(io)
  PROVE  /\ Now \in [Pages -> PageState] /\ Then \in [Pages -> PageState]
         /\ io = NoIO => Then = Now
         /\ \A p \in Pages: Now[p] = MarkedState(flash[p])
<1>1. Completed(io) \in [Pages -> Page]
  BY FlashType
<1>2. io = NoIO => Completed(io) = flash
  BY NoIOCompleted
<1>3. QED  BY <1>1, <1>2, MarksType DEF Now, Then, Marks

\* A good cache says of every page what its markers say.
LEMMA StateIsMark ==
  ASSUME NEW c, Good(c), NEW p \in Pages
  PROVE  StateOf(c, p) = MarkedState(flash[p])
BY DEF Good, Sound, StateOf

\* A step that writes to no page and has nothing pending before or after it.
LEMMA QuietMarks ==
  ASSUME flash \in [Pages -> Page], io = NoIO, io' = NoIO, flash' = flash
  PROVE  Now' = Now /\ Then' = Now /\ Then = Now
<1>1. Completed(io)' = flash' /\ Completed(io) = flash
  BY NoIOCompleted
<1>2. QED  BY <1>1 DEF Now, Then, Marks

\* A step after which a word of an item is written.
LEMMA WordMarks ==
  ASSUME flash \in [Pages -> Page], io = NoIO, flash' = flash, io' \in IOType,
         io'.cmd \in {"none", "header", "data", "zero"}
  PROVE  Now' = Now /\ Then' = Now /\ Then = Now
<1>1. SameMarkers(Completed(io'), flash)
  BY QuietFlash
<1>2. Completed(io)' = Completed(io') /\ Completed(io) = flash
  BY NoIOCompleted DEF Completed
<1>3. Marks(Completed(io')) = Marks(flash)
  BY <1>1, SameMarks
<1>4. Now' = Now /\ Then = Now
  BY <1>2 DEF Now, Then, Marks
<1>5. Then' = Marks(Completed(io)')
  BY DEF Then, Marks
<1>6. QED  BY <1>2, <1>3, <1>4, <1>5 DEF Now

\* A step that opens, partially closes or closes a page.
LEMMA MarkerMarks ==
  ASSUME flash \in [Pages -> Page], io = NoIO, flash' = flash,
         NEW c \in CacheType, Good(c), NEW p \in Pages
  PROVE  /\ Now' = Now /\ Then = Now
         /\ OpenPage(c, p) => Then' = [Now EXCEPT ![p] = "Open"]
         /\ PartialClosePage(c, p) =>
              Then' = IF Now[p] = "Open" THEN [Now EXCEPT ![p] = "PartialOpen"] ELSE Now
         /\ ClosePage(c, p) =>
              Then' = IF Now[p] = "PartialOpen" THEN [Now EXCEPT ![p] = "Closed"] ELSE Now
         /\ OpenPage(c, p) \/ PartialClosePage(c, p) \/ ClosePage(c, p) => io'.cmd # "erase_all"
<1>1. Now' = Now /\ Then = Now /\ Then' = Marks(Completed(io)')
  BY NowThenType, NoIOType DEF Now, Then, Marks
<1>2. Completed(io)' = Completed(io')
  BY DEF Completed
<1>3. Then' = Marks(Completed(io'))
  BY <1>1, <1>2
<1>4. StateOf(c, p) = Now[p]
  BY StateIsMark, NowThenType, NoIOType
<1>5. Marks(Completed(NoIO)) = Now /\ NoIO.cmd # "erase_all"
  BY NoIOCompleted DEF Now, NoIO
<1>6. \A cmd: PageIO(cmd, p).cmd = cmd
  BY DEF PageIO, NoIO
<1>7. OpenPage(c, p) => Then' = [Now EXCEPT ![p] = "Open"] /\ io'.cmd # "erase_all"
  <2>1. Marks(Completed(PageIO("erase", p))) = [Now EXCEPT ![p] = "Open"]
    BY MarkersWritten DEF Now, Marks
  <2>2. QED  BY <1>3, <1>6, <2>1 DEF OpenPage
<1>8. PartialClosePage(c, p) =>
        /\ Then' = IF Now[p] = "Open" THEN [Now EXCEPT ![p] = "PartialOpen"] ELSE Now
        /\ io'.cmd # "erase_all"
  <2>1. Now[p] = "Open" =>
          Marks(Completed(PageIO("start", p))) = [Now EXCEPT ![p] = "PartialOpen"]
    BY MarkersWritten DEF Now, Marks
  <2>2. QED  BY <1>3, <1>4, <1>5, <1>6, <2>1 DEF PartialClosePage
<1>9. ClosePage(c, p) =>
        /\ Then' = IF Now[p] = "PartialOpen" THEN [Now EXCEPT ![p] = "Closed"] ELSE Now
        /\ io'.cmd # "erase_all"
  <2>1. Now[p] = "PartialOpen" =>
          Marks(Completed(PageIO("end", p))) = [Now EXCEPT ![p] = "Closed"]
    BY MarkersWritten DEF Now, Marks
  <2>2. QED  BY <1>3, <1>4, <1>5, <1>6, <2>1 DEF ClosePage
<1>10. QED  BY <1>1, <1>7, <1>8, <1>9

\* What an erase that is cut short leaves as the mark of its page.
LEMMA TornEraseMark ==
  ASSUME NEW pg \in Page, NEW t \in TornErases(pg)
  PROVE  /\ MarkedState(t) \in {MarkedState(pg), "Open", "Corrupted"}
         /\ MarkedState(t) = "Corrupted" => MarkedState(pg) \in {"Closed", "Corrupted"}
<1>1. /\ pg.end \in BOOLEAN /\ ErasedPage \in Page /\ ~ErasedPage.start
      /\ MarkedState(ErasedPage) = "Open"
  BY BlankType DEF ErasedPage, MarkedState, Page
<1>2. CASE t \in {pg, ErasedPage}
  BY <1>1, <1>2
<1>3. CASE t = [ErasedPage EXCEPT !.end = pg.end]
  BY <1>1, <1>3 DEF MarkedState, Page
<1>4. ASSUME NEW ws, t = [WithWords(pg, ws) EXCEPT !.start = FALSE]
      PROVE  /\ MarkedState(t) \in {"Open", "Corrupted"}
             /\ MarkedState(t) = "Corrupted" => MarkedState(pg) \in {"Closed", "Corrupted"}
  BY <1>1, <1>4 DEF MarkedState, WithWords, Page
<1>5. QED  BY <1>2, <1>3, <1>4 DEF TornErases

\* An operation that is cut short leaves the marks as they were, as they would have
\* been, or its page half-erased.
LEMMA TornMarks ==
  ASSUME flash \in [Pages -> Page], io \in IOType, HasData(io),
         NEW fl \in Interrupted(io), io.cmd # "erase_all"
  PROVE  \/ Marks(fl) \in {Now, Then}
         \/ /\ Then = [Now EXCEPT ![io.page] = "Open"]
            /\ Marks(fl) = [Now EXCEPT ![io.page] = "Corrupted"]
            /\ Now[io.page] \in {"Closed", "Corrupted"} /\ io.cmd = "erase"
<1>1. io.page \in Pages /\ flash[io.page] \in Page
  BY DEF IOType
<1>2. /\ Completed(io) = [flash EXCEPT ![io.page] = Applied(flash[io.page], io)]
      /\ Interrupted(io) = {[flash EXCEPT ![io.page] = pg]: pg \in Torn(flash[io.page], io)}
  BY DEF Completed, Interrupted
<1>3. CASE io.cmd \in {"none", "header", "data", "zero"}
  <2>1. SameMarkers(fl, flash)
    BY <1>3, QuietFlash
  <2>2. QED  BY <2>1, SameMarks DEF Now
<1>4. CASE io.cmd \in {"start", "end"}
  <2>1. Torn(flash[io.page], io) = {flash[io.page], Applied(flash[io.page], io)}
    BY <1>4 DEF Torn, Applied
  <2>2. fl \in {flash, Completed(io)}
    BY <1>1, <1>2, <2>1
  <2>3. QED  BY <2>2 DEF Now, Then
<1>5. CASE io.cmd = "erase"
  <2>1. PICK pg \in TornErases(flash[io.page]): fl = [flash EXCEPT ![io.page] = pg]
    BY <1>2, <1>5 DEF Torn
  <2>2. /\ MarkedState(pg) \in {MarkedState(flash[io.page]), "Open", "Corrupted"}
        /\ MarkedState(pg) = "Corrupted" => MarkedState(flash[io.page]) \in {"Closed", "Corrupted"}
    BY <1>1, <2>1, TornEraseMark
  <2>3. \A q \in Pages: Marks(fl)[q] = IF q = io.page THEN MarkedState(pg) ELSE Now[q]
    BY <1>1, <2>1 DEF Marks, Now
  <2>4. MarkedState(ErasedPage) = "Open"
    BY DEF MarkedState, ErasedPage
  <2>5. Then = [Now EXCEPT ![io.page] = "Open"]
    BY <1>1, <1>2, <1>5, <2>4 DEF Applied, Then, Now, Marks
  <2>6. Marks(fl) = [Now EXCEPT ![io.page] = MarkedState(pg)]
    BY <2>3 DEF Marks, Now
  <2>7. MarkedState(flash[io.page]) = Now[io.page] /\ Now \in [Pages -> PageState]
    BY <1>1, NowThenType
  <2>8. [Now EXCEPT ![io.page] = Now[io.page]] = Now
    BY <1>1, <2>7
  <2>9. QED  BY <1>5, <2>2, <2>5, <2>6, <2>7, <2>8
<1>6. QED  BY <1>3, <1>4, <1>5 DEF IOType, Commands

\* find_first_page: the page it returns is the first in the wanted state, and no page
\* it met before is corrupted, as far as the cache knows.
LEMMA FoundState ==
  ASSUME NEW c, NEW from \in Pages, NEW state
  PROVE  LET f == FindFirst(c, from, state) IN
         /\ f \in Pages \cup {NoPage, CorruptedPage}
         /\ f = NoPage => \A p \in Pages: StateOf(c, p) \notin {state, "Corrupted"}
         /\ f = CorruptedPage => \E p \in Pages: StateOf(c, p) = "Corrupted"
         /\ f \in Pages =>
              /\ StateOf(c, f) = state
              /\ \E k \in Pages:
                   /\ f = PageFrom(from, k)
                   /\ \A j \in Pages:
                        j < k => StateOf(c, PageFrom(from, j)) \notin {state, "Corrupted"}
<1> DEFINE hits == Hits(c, from, state)
           f == FindFirst(c, from, state)
<1>1. \A i \in Pages: PageFrom(from, i) \in Pages
  BY Around
<1>2. hits = {i \in Pages: StateOf(c, PageFrom(from, i)) \in {state, "Corrupted"}}
  BY DEF Hits
<1>3. CorruptedPage \notin Pages /\ NoPage \notin Pages /\ NoPage # CorruptedPage
  BY PageCountAssumption DEF CorruptedPage, NoPage, Pages
<1>4. CASE hits = {}
  <2>1. f = NoPage
    BY <1>4 DEF FindFirst
  <2>2. ASSUME NEW p \in Pages PROVE StateOf(c, p) \notin {state, "Corrupted"}
    <3>1. Behind(from, p) \in Pages /\ PageFrom(from, Behind(from, p)) = p
      BY BehindType
    <3>2. QED  BY <1>2, <1>4, <3>1
  <2>3. QED  BY <1>3, <2>1, <2>2
<1>5. CASE hits # {}
  <2> DEFINE k == Min(hits)
             p == PageFrom(from, k)
  <2>1. hits \in SUBSET Nat
    BY <1>2, PageCountAssumption DEF Pages
  <2>2. k \in hits /\ \A j \in hits: k <= j
    BY <1>5, <2>1, MinInSet
  <2>3. k \in Pages /\ StateOf(c, p) \in {state, "Corrupted"} /\ p \in Pages
    BY <1>1, <1>2, <2>2
  <2>4. f = IF StateOf(c, p) = "Corrupted" THEN CorruptedPage ELSE p
    BY <1>5 DEF FindFirst
  <2>5. \A j \in Pages: j < k => StateOf(c, PageFrom(from, j)) \notin {state, "Corrupted"}
    <3>1. \A j \in Pages: j < k => ~(k <= j)
      BY <2>3 DEF Pages
    <3>2. QED  BY <1>2, <2>2, <3>1
  <2> HIDE DEF f, p, k, hits
  <2>6. CASE StateOf(c, p) = "Corrupted"
    BY <1>3, <2>3, <2>4, <2>6 DEF f
  <2>7. CASE StateOf(c, p) # "Corrupted"
    <3>1. f = p /\ StateOf(c, p) = state
      BY <2>3, <2>4, <2>7
    <3>2. QED  BY <1>3, <2>3, <2>5, <3>1 DEF f, p
  <2>8. QED  BY <2>6, <2>7
<1>6. QED  BY <1>4, <1>5

\* So it does in flash, when the cache is right.
LEMMA FoundFirst ==
  ASSUME flash \in [Pages -> Page], NEW c, Good(c), NEW from \in Pages, NEW state
  PROVE  LET f == FindFirst(c, from, state) IN
         /\ f \in Pages \cup {NoPage, CorruptedPage}
         /\ f = NoPage => \A p \in Pages: Now[p] \notin {state, "Corrupted"}
         /\ f = CorruptedPage => \E p \in Pages: Now[p] = "Corrupted"
         /\ f \in Pages =>
              /\ Now[f] = state
              /\ \E k \in Pages: /\ f = PageFrom(from, k)
                                 /\ \A j \in Pages: j < k => Now[PageFrom(from, j)] \notin {state, "Corrupted"}
<1>1. \A p \in Pages: StateOf(c, p) = Now[p]
  BY StateIsMark DEF Now, Marks
<1>2. \A j \in Pages: PageFrom(from, j) \in Pages
  BY Around
<1>3. QED  BY <1>1, <1>2, FoundState

-----------------------------------------------------------------------------
(* Words as operations find them *)

\* Nothing is written from a on.
BlankFrom(ws, a) == \A b \in Addrs: b >= a => ws[b] = Blank

\* Behind the items nothing is written.
Appendable(ws) == BlankFrom(ws, EndOfItems(ws, 0))

\* A page that is open has nothing written on it, and one that is partially open
\* nothing behind its items.
Tidy(pg) == /\ MarkedState(pg) = "Open" => BlankFrom(pg.words, 0)
            /\ MarkedState(pg) = "PartialOpen" => Appendable(pg.words)

\* The last item of the page is i, at a, and its data is yet to be written.
DataReady(ws, a, i) == /\ ws[a] = Header(i) /\ Fits(a, Size[i])
                       /\ EndOfItems(ws, 0) = a + 1 + Size[i]
                       /\ BlankFrom(ws, a + 1)

\* The page an operation on flash is asked for is fit for it.
FitFor(pg, c) ==
  /\ c.cmd = "start" => MarkedState(pg) = "Open"
  /\ c.cmd = "end" => MarkedState(pg) = "PartialOpen"
  /\ c.cmd = "erase" => MarkedState(pg) # "PartialOpen"
  /\ c.cmd = "header" => /\ MarkedState(pg) = "PartialOpen"
                         /\ c.addr = EndOfItems(pg.words, 0) /\ Fits(c.addr, Size[c.item])
  /\ c.cmd = "data" => DataReady(pg.words, c.addr, c.item)
  /\ c.cmd = "zero" => IsPresent(pg.words, c.addr)

\* The pointers of c to page p are what a scan of its words finds.
Pointed(c, p, ws) ==
  /\ c.written[p] \in {NoAddr, EndOfItems(ws, 0)}
  /\ c.erased[p] # NoAddr => /\ Unerased(ws, c.erased[p]) = Unerased(ws, 0)
                             /\ EndOfItems(ws, c.erased[p]) = EndOfItems(ws, 0)

\* Headers end at the end of the page or at a blank word.
LEMMA EndIsEnd ==
  ASSUME NEW ws \in [Addrs -> Word], NEW from \in 0 .. PageWords
  PROVE  LET e == EndOfItems(ws, from) IN
         e \in 0 .. PageWords /\ (e = PageWords \/ ws[e] = Blank) /\ EndOfItems(ws, e) = e
<1> DEFINE e == EndOfItems(ws, from)
<1>1. e \in 0 .. PageWords
  BY EndOfItemsType, PageWordsAssumption
<1>2. EndOfItems(ws, e) = e
  BY WalkKept
<1> HIDE DEF e
<1>3. ASSUME e # PageWords, ws[e] # Blank PROVE FALSE
  <2>1. e \in Addrs
    BY <1>1, <1>3, PageWordsAssumption DEF Addrs
  <2>2. EndOfItems(ws, NextAddr(ws, e)) = e
    BY <1>2, <1>3, <2>1, EndOfItemsIs
  <2>3. NextAddr(ws, e) \in e + 1 .. PageWords /\ NextAddr(ws, e) \in 0 .. PageWords
    BY <1>1, <2>1, NextAddrType, PageWordsAssumption
  <2>4. e \in NextAddr(ws, e) .. PageWords
    BY <2>2, <2>3, EndOfItemsType
  <2>5. QED  BY <1>1, <2>3, <2>4, PageWordsAssumption
<1>4. QED  BY <1>1, <1>2, <1>3 DEF e

\* The search ends there, or at an item that is not erased.
LEMMA SearchIsEnd ==
  ASSUME NEW ws \in [Addrs -> Word], NEW from \in 0 .. PageWords
  PROVE  LET u == Unerased(ws, from) IN
         u \in 0 .. PageWords /\ (u = PageWords \/ ws[u] = Blank \/ Stops(ws, u))
<1> DEFINE u == Unerased(ws, from)
<1>1. u \in 0 .. PageWords
  BY UnerasedType, PageWordsAssumption
<1>2. Unerased(ws, u) = u
  BY SearchKept
<1> HIDE DEF u
<1>3. ASSUME u # PageWords, ws[u] # Blank, ~Stops(ws, u) PROVE FALSE
  <2>1. u \in Addrs
    BY <1>1, <1>3, PageWordsAssumption DEF Addrs
  <2>2. Unerased(ws, NextAddr(ws, u)) = u
    BY <1>2, <1>3, <2>1, UnerasedIs
  <2>3. NextAddr(ws, u) \in u + 1 .. PageWords /\ NextAddr(ws, u) \in 0 .. PageWords
    BY <1>1, <2>1, NextAddrType, PageWordsAssumption
  <2>4. u \in NextAddr(ws, u) .. PageWords
    BY <2>2, <2>3, UnerasedType
  <2>5. QED  BY <1>1, <2>3, <2>4, PageWordsAssumption
<1>4. QED  BY <1>1, <1>3 DEF u

\* Where only blank words were programmed, a walk goes on from where it ended.
LEMMA AppendWalk ==
  ASSUME NEW v \in [Addrs -> Word], NEW w \in [Addrs -> Word], NEW from \in 0 .. PageWords,
         \A b \in Addrs: v[b] # Blank => w[b] = v[b]
  PROVE  /\ EndOfItems(w, from) = EndOfItems(w, EndOfItems(v, from))
         /\ Unerased(w, from) = Unerased(w, Unerased(v, from))
<1>1. \A b \in Addrs: v[b] # Blank => NextAddr(w, b) = NextAddr(v, b) /\ (Stops(w, b) <=> Stops(v, b))
  BY DEF NextAddr, IsItem, Stops
<1>2. EndOfItems(w, from) = EndOfItems(w, EndOfItems(v, from))
  BY <1>1, WalkKept
<1>3. Unerased(w, from) = Unerased(w, Unerased(v, from))
  BY <1>1, SearchKept
<1>4. QED  BY <1>2, <1>3

\* The walk over a page on which headers lost their CRC ends where it did.
LEMMA SameShape ==
  ASSUME NEW v \in [Addrs -> Word], NEW w \in [Addrs -> Word], NEW from \in 0 .. PageWords,
         \A b \in Addrs: (w[b] = Blank <=> v[b] = Blank) /\ NextAddr(w, b) = NextAddr(v, b)
  PROVE  EndOfItems(w, from) = EndOfItems(v, from)
<1> DEFINE e == EndOfItems(v, from)
<1>1. EndOfItems(w, from) = EndOfItems(w, e)
  BY WalkKept
<1>2. e \in 0 .. PageWords /\ (e = PageWords \/ v[e] = Blank)
  BY EndIsEnd
<1> HIDE DEF e
<1>3. e \in Addrs \/ e = PageWords
  BY <1>2, PageWordsAssumption DEF Addrs
<1>4. EndOfItems(w, e) = e
  BY <1>2, <1>3, EndOfItemsIs
<1>5. QED  BY <1>1, <1>4 DEF e

\* On a page with nothing written there are no items.
LEMMA BlankWalk ==
  ASSUME NEW ws \in [Addrs -> Word], BlankFrom(ws, 0)
  PROVE  EndOfItems(ws, 0) = 0 /\ Appendable(ws)
<1>1. 0 \in Addrs /\ ws[0] = Blank
  BY PageWordsAssumption DEF Addrs, BlankFrom
<1>2. EndOfItems(ws, 0) = 0
  BY <1>1, EndOfItemsIs
<1>3. QED  BY <1>2 DEF Appendable

-----------------------------------------------------------------------------
(* Words as operations leave them *)

\* Only words of the item are programmed by a data write, and a header changes its CRC only.
LEMMA HeaderChange ==
  ASSUME NEW ws \in [Addrs -> Word], NEW a \in Addrs, ws[a].kind = "header",
         NEW v \in [Addrs -> Word], v[a] \in TornZeroes(ws[a]),
         \A b \in Addrs: b # a => v[b] = ws[b]
  PROVE  \A b \in Addrs: (v[b] = Blank <=> ws[b] = Blank) /\ NextAddr(v, b) = NextAddr(ws, b)
<1>1. v[a].kind = "header" /\ v[a].len = ws[a].len
  BY DEF TornZeroes, ZeroedHeader, GarbledHeader, Word
<1>2. v[a] # Blank /\ ws[a] # Blank
  BY <1>1 DEF Blank
<1>3. QED  BY <1>1, <1>2 DEF NextAddr, IsItem

\* The header is written behind the last item.
LEMMA HeaderWritten ==
  ASSUME NEW ws \in [Addrs -> Word], NEW a \in Addrs, NEW i \in Items,
         a = EndOfItems(ws, 0), Fits(a, Size[i]), Appendable(ws),
         NEW v \in [Addrs -> Word], v[a] = Header(i), \A b \in Addrs: b # a => v[b] = ws[b]
  PROVE  DataReady(v, a, i)
<1>1. ws[a] = Blank /\ a # PageWords
  <2>1. 0 \in 0 .. PageWords /\ a # PageWords
    BY PageWordsAssumption DEF Addrs
  <2>2. a = PageWords \/ ws[a] = Blank
    BY <2>1, EndIsEnd
  <2>3. QED  BY <2>1, <2>2
<1>3. EndOfItems(v, 0) = EndOfItems(v, a)
  <2>1. 0 \in 0 .. PageWords /\ \A b \in Addrs: ws[b] # Blank => v[b] = ws[b]
    BY <1>1, PageWordsAssumption
  <2>2. QED  BY <2>1, AppendWalk
<1>4. NextAddr(v, a) = a + 1 + Size[i] /\ v[a] # Blank
  BY DEF Header, NextAddr, IsItem, Fits, Blank
<1>5. a + 1 + Size[i] \in 0 .. PageWords /\ Size[i] \in Nat /\ a \in Nat
  BY SizeAssumption, PageWordsAssumption DEF Fits, Addrs
<1>6. BlankFrom(v, a + 1)
  BY <1>5, PageWordsAssumption DEF Appendable, BlankFrom, Addrs
<1>7. EndOfItems(v, a + 1 + Size[i]) = a + 1 + Size[i]
  <2>1. CASE a + 1 + Size[i] = PageWords
    BY <2>1, EndOfItemsIs
  <2>2. CASE a + 1 + Size[i] # PageWords
    <3>1. a + 1 + Size[i] \in Addrs /\ a + 1 + Size[i] >= a + 1
      BY <1>5, <2>2, PageWordsAssumption DEF Addrs
    <3>2. v[a + 1 + Size[i]] = Blank
      BY <1>6, <3>1 DEF BlankFrom
    <3>3. QED  BY <3>1, <3>2, EndOfItemsIs
  <2>3. QED  BY <2>1, <2>2
<1>8. EndOfItems(v, 0) = a + 1 + Size[i]
  BY <1>3, <1>4, <1>7, EndOfItemsIs
<1>9. QED  BY <1>6, <1>8 DEF DataReady

\* Writing the data of the last item, or a part of it, moves no end: only blank words
\* of the item are programmed, and a word that is programmed is not blank.
LEMMA DataWritten ==
  ASSUME NEW ws \in [Addrs -> Word], NEW a \in Addrs, NEW i \in Items, DataReady(ws, a, i),
         NEW v \in [Addrs -> Word],
         \A b \in Addrs: v[b] # ws[b] => b \in DataAddrs(a, i)
  PROVE  /\ EndOfItems(v, 0) = EndOfItems(ws, 0)
         /\ \A b \in Addrs: ws[b] # Blank => v[b] = ws[b]
         /\ Appendable(v)
<1>1. a + 1 + Size[i] \in 0 .. PageWords /\ Size[i] \in Nat /\ a \in Nat /\ 0 \in 0 .. PageWords
  BY SizeAssumption, PageWordsAssumption DEF DataReady, Fits, Addrs
<1>2. \A b \in Addrs: ws[b] # Blank => v[b] = ws[b]
  <2>1. ASSUME NEW b \in Addrs, ws[b] # Blank PROVE v[b] = ws[b]
    <3>1. ~(b >= a + 1)
      BY <2>1 DEF DataReady, BlankFrom
    <3>2. b \notin DataAddrs(a, i)
      BY <1>1, <3>1 DEF DataAddrs, Addrs
    <3>3. QED  BY <3>2
  <2>2. QED  BY <2>1
<1> DEFINE e == a + 1 + Size[i]
<1>3. \A b \in Addrs: b >= e => v[b] = Blank
  <2>1. ASSUME NEW b \in Addrs, b >= e PROVE v[b] = Blank
    <3>1. b >= a + 1 /\ b \notin DataAddrs(a, i)
      BY <1>1, <2>1 DEF DataAddrs, Addrs
    <3>2. QED  BY <3>1 DEF DataReady, BlankFrom
  <2>2. QED  BY <2>1
<1>4. EndOfItems(ws, 0) = e
  BY DEF DataReady
<1>5. EndOfItems(v, 0) = EndOfItems(v, e)
  BY <1>1, <1>2, <1>4, AppendWalk
<1>6. e \in 0 .. PageWords
  BY <1>1
<1> HIDE DEF e
<1>7. EndOfItems(v, e) = e
  <2>1. e = PageWords \/ (e \in Addrs /\ v[e] = Blank)
    BY <1>3, <1>6, PageWordsAssumption DEF Addrs
  <2>2. QED  BY <2>1, EndOfItemsIs
<1>8. QED  BY <1>2, <1>3, <1>4, <1>5, <1>7 DEF Appendable, BlankFrom

\* A header whose write is cut short leaves nothing behind the items.
LEMMA HeaderTorn ==
  ASSUME NEW ws \in [Addrs -> Word], NEW a \in Addrs, NEW i \in Items,
         a = EndOfItems(ws, 0), Fits(a, Size[i]), Appendable(ws),
         NEW v \in [Addrs -> Word], v[a] \in TornHeaders(ws[a], Header(i)),
         \A b \in Addrs: b # a => v[b] = ws[b]
  PROVE  Appendable(v)
<1>1. ws[a] = Blank /\ a # PageWords /\ 0 \in 0 .. PageWords
  <2>1. 0 \in 0 .. PageWords /\ a # PageWords
    BY PageWordsAssumption DEF Addrs
  <2>2. a = PageWords \/ ws[a] = Blank
    BY <2>1, EndIsEnd
  <2>3. QED  BY <2>1, <2>2
<1>2. v[a] \in {Blank, Junk, Header(i)}
  BY <1>1 DEF TornHeaders, Programmed
<1>3. CASE v[a] = Blank
  <2>1. v = ws
    BY <1>1, <1>3
  <2>2. QED  BY <2>1
<1>4. CASE v[a] = Header(i)
  <2>1. DataReady(v, a, i)
    BY <1>4, HeaderWritten
  <2>2. a + 1 + Size[i] >= a + 1
    BY SizeAssumption DEF Addrs
  <2>3. QED
    BY <2>1, <2>2, SizeAssumption DEF DataReady, Appendable, BlankFrom, Addrs
<1>5. CASE v[a] = Junk
  <2>1. EndOfItems(v, 0) = EndOfItems(v, a)
    <3>1. \A b \in Addrs: ws[b] # Blank => v[b] = ws[b]
      BY <1>1
    <3>2. QED  BY <1>1, <3>1, AppendWalk
  <2>2. NextAddr(v, a) = a + 1 /\ v[a] # Blank
    BY <1>5 DEF Junk, NextAddr, IsItem, Blank
  <2>3. EndOfItems(v, 0) = EndOfItems(v, a + 1)
    BY <2>1, <2>2, EndOfItemsIs
  <2>4. a + 1 \in 0 .. PageWords
    BY <2>2, NextAddrType, PageWordsAssumption DEF Addrs
  <2>5. EndOfItems(v, a + 1) \in a + 1 .. PageWords
    BY <2>4, EndOfItemsType
  <2>6. EndOfItems(v, 0) \in a + 1 .. PageWords
    BY <2>3, <2>5
  <2>7. QED  BY <2>6, PageWordsAssumption DEF Appendable, BlankFrom, Addrs
<1>6. QED  BY <1>2, <1>3, <1>4, <1>5

\* What an interrupted erase leaves of a page with nothing written.
LEMMA BlankTorn ==
  ASSUME NEW ws \in [Addrs -> Word], BlankFrom(ws, 0), NEW v \in TornWords(ws)
  PROVE  BlankFrom(v, 0)
<1>1. \A b \in Addrs: ws[b] = Blank
  BY DEF BlankFrom, Addrs
<1>2. PICK k \in Addrs: \E w \in {Blank}:
        v = [a \in Addrs |-> IF a < k THEN Blank ELSE IF a = k THEN w ELSE ws[a]]
  BY <1>1 DEF TornWords
<1>3. QED  BY <1>1, <1>2 DEF BlankFrom

\* A data write changes words of its item only, done or cut short.
LEMMA DataTorn ==
  ASSUME NEW pg \in Page, NEW a \in Addrs, NEW i \in Items, NEW t \in TornData(pg, a, i)
  PROVE  \E v \in [Addrs -> Word]: /\ t = WithWords(pg, v)
                                   /\ \A b \in Addrs: v[b] # pg.words[b] => b \in DataAddrs(a, i)
<1>1. pg.words \in [Addrs -> Word] /\ Size[i] \in Nat /\ a \in Nat
  BY SizeAssumption DEF Page, Addrs
<1>2. PICK k \in 0 .. Size[i], torn \in BOOLEAN:
        t = WithWords(pg, [b \in Addrs |->
              IF b \in (a + 1) .. (a + k) THEN Programmed(pg.words[b], Body(i))
              ELSE IF torn /\ b = a + k + 1 /\ b \in DataAddrs(a, i) THEN Junk
              ELSE pg.words[b]])
  BY DEF TornData
<1> DEFINE v == [b \in Addrs |->
              IF b \in (a + 1) .. (a + k) THEN Programmed(pg.words[b], Body(i))
              ELSE IF torn /\ b = a + k + 1 /\ b \in DataAddrs(a, i) THEN Junk
              ELSE pg.words[b]]
<1>3. v \in [Addrs -> Word]
  BY <1>1, BlankType, ProgrammedType
<1>4. (a + 1) .. (a + k) \subseteq DataAddrs(a, i)
  BY <1>1 DEF DataAddrs
<1>5. \A b \in Addrs: v[b] # pg.words[b] => b \in DataAddrs(a, i)
  BY <1>4
<1> HIDE DEF v
<1>6. QED  BY <1>2, <1>3, <1>5 DEF v

\* The page of an operation that completes is one of those it may leave when cut short.
LEMMA AppliedIsTorn ==
  ASSUME NEW pg \in Page, NEW c \in IOType, HasData(c)
  PROVE  Applied(pg, c) \in Torn(pg, c)
<1>1. CASE c.cmd = "data"
  <2>1. Size[c.item] \in Nat /\ Size[c.item] \in 0 .. Size[c.item] /\ FALSE \in BOOLEAN
    BY <1>1, SizeAssumption DEF HasData
  <2> DEFINE ws(k, torn) == [b \in Addrs |->
               IF b \in (c.addr + 1) .. (c.addr + k) THEN Programmed(pg.words[b], Body(c.item))
               ELSE IF torn /\ b = c.addr + k + 1 /\ b \in DataAddrs(c.addr, c.item) THEN Junk
               ELSE pg.words[b]]
  <2>2. Applied(pg, c) = WithWords(pg, ws(Size[c.item], FALSE))
    BY <1>1 DEF Applied, DataAddrs
  <2>3. Torn(pg, c) = {WithWords(pg, ws(k, torn)): k \in 0 .. Size[c.item], torn \in BOOLEAN}
    BY <1>1 DEF Torn, TornData
  <2> HIDE DEF ws
  <2>4. \E k \in 0 .. Size[c.item], torn \in BOOLEAN: Applied(pg, c) = WithWords(pg, ws(k, torn))
    BY <2>1, <2>2
  <2>5. QED  BY <2>3, <2>4
<1>2. CASE c.cmd \in {"none", "start", "end"}
  BY <1>2 DEF Applied, Torn
<1>3. CASE c.cmd = "header"
  BY <1>3 DEF Applied, Torn, TornHeaders
<1>4. CASE c.cmd = "zero"
  BY <1>4 DEF Applied, Torn, TornZeroes
<1>5. CASE c.cmd \in {"erase", "erase_all"}
  BY <1>5 DEF Applied, Torn, TornErases
<1>6. QED  BY <1>1, <1>2, <1>3, <1>4, <1>5 DEF IOType, Commands

\* What an interrupted erase leaves of a page that is not partially open.
LEMMA EraseTidy ==
  ASSUME NEW pg \in Page, Tidy(pg), MarkedState(pg) # "PartialOpen", NEW t \in TornErases(pg)
  PROVE  Tidy(t)
<1>1. BlankFrom(ErasedPage.words, 0) /\ MarkedState(ErasedPage) = "Open" /\ ErasedPage \in Page
  BY BlankType DEF ErasedPage, BlankFrom, MarkedState
<1>2. CASE t \in {pg, ErasedPage}
  BY <1>1, <1>2 DEF Tidy
<1>3. CASE t = [ErasedPage EXCEPT !.end = pg.end]
  <2>1. t.words = ErasedPage.words /\ MarkedState(t) # "PartialOpen"
    BY <1>3, <1>1 DEF MarkedState, Page, ErasedPage
  <2>2. QED  BY <1>1, <2>1 DEF Tidy
<1>4. ASSUME NEW ws \in TornWords(pg.words), t = [WithWords(pg, ws) EXCEPT !.start = FALSE]
      PROVE  Tidy(t)
  <2>1. t.words = ws /\ ~t.start /\ t.end = pg.end /\ pg.end \in BOOLEAN /\ pg.start \in BOOLEAN
    BY <1>4 DEF WithWords, Page
  <2>2. MarkedState(t) # "PartialOpen" /\ (MarkedState(t) = "Open" => MarkedState(pg) = "Open")
    BY <2>1 DEF MarkedState
  <2>3. MarkedState(pg) = "Open" => BlankFrom(ws, 0)
    BY BlankTorn DEF Tidy, Page
  <2>4. QED  BY <2>1, <2>2, <2>3 DEF Tidy
<1>5. QED  BY <1>2, <1>3, <1>4 DEF TornErases

\* An operation a page is fit for leaves it tidy, done or cut short.
LEMMA TornTidy ==
  ASSUME NEW pg \in Page, NEW c \in IOType, HasData(c), FitFor(pg, c), Tidy(pg),
         c.cmd # "erase_all", NEW t \in Torn(pg, c)
  PROVE  Tidy(t)
<1>1. /\ pg.words \in [Addrs -> Word] /\ c.addr \in Addrs
      /\ c.cmd \in {"header", "data"} => c.item \in Items
  BY DEF Page, IOType, HasData
<1>2. CASE c.cmd = "none"
  BY <1>2 DEF Torn
<1>3. CASE c.cmd = "start"
  <2>1. t = pg \/ t = [pg EXCEPT !.start = TRUE]
    BY <1>3 DEF Torn
  <2>2. BlankFrom(pg.words, 0) /\ Appendable(pg.words)
    BY <1>1, <1>3, BlankWalk DEF FitFor, Tidy
  <2>3. t.words = pg.words
    BY <2>1 DEF Page
  <2>4. QED  BY <2>2, <2>3 DEF Tidy
<1>4. CASE c.cmd = "end"
  <2>1. t = pg \/ (t = [pg EXCEPT !.end = TRUE] /\ t.end)
    BY <1>4 DEF Torn, Page
  <2>2. t.end => MarkedState(t) \notin {"Open", "PartialOpen"}
    BY DEF MarkedState
  <2>3. QED  BY <2>1, <2>2 DEF Tidy
<1>5. CASE c.cmd = "header"
  <2>1. PICK w \in TornHeaders(pg.words[c.addr], Header(c.item)): t = WithWord(pg, c.addr, w)
    BY <1>5 DEF Torn
  <2>2. t.words = [pg.words EXCEPT ![c.addr] = w] /\ MarkedState(t) = "PartialOpen"
    BY <1>5, <2>1, WordsKeepMarkers DEF WithWord, Page, FitFor
  <2>3. Appendable(t.words)
    <3>1. t.words \in [Addrs -> Word]
      BY TornType DEF Page
    <3>2. t.words[c.addr] = w /\ \A b \in Addrs: b # c.addr => t.words[b] = pg.words[b]
      BY <1>1, <2>2
    <3>3. QED  BY <1>1, <1>5, <2>1, <3>1, <3>2, HeaderTorn DEF FitFor, Tidy
  <2>4. QED  BY <2>2, <2>3 DEF Tidy
<1>6. CASE c.cmd = "data"
  <2>1. PICK v \in [Addrs -> Word]: /\ t = WithWords(pg, v)
                                    /\ \A b \in Addrs: v[b] # pg.words[b] => b \in DataAddrs(c.addr, c.item)
    BY <1>1, <1>6, DataTorn DEF Torn
  <2>2. t.words = v /\ MarkedState(t) = MarkedState(pg)
    BY <2>1, WordsKeepMarkers DEF WithWords, Page
  <2>3. Appendable(v)
    BY <1>1, <1>6, <2>1, DataWritten DEF FitFor
  <2>4. MarkedState(pg) # "Open"
    <3>1. pg.words[c.addr] = Header(c.item) /\ c.addr >= 0
      BY <1>1, <1>6 DEF FitFor, DataReady, Addrs
    <3>2. ~BlankFrom(pg.words, 0)
      BY <1>1, <3>1 DEF BlankFrom, Header, Blank
    <3>3. QED  BY <3>2 DEF Tidy
  <2>5. QED  BY <2>2, <2>3, <2>4 DEF Tidy
<1>7. CASE c.cmd = "zero"
  <2>1. PICK h \in TornZeroes(pg.words[c.addr]): t = WithWord(pg, c.addr, h)
    BY <1>7 DEF Torn
  <2>2. t.words = [pg.words EXCEPT ![c.addr] = h] /\ MarkedState(t) = MarkedState(pg)
    BY <2>1, WordsKeepMarkers DEF WithWord, Page
  <2>3. pg.words[c.addr].kind = "header"
    BY <1>7 DEF FitFor, IsPresent, IsItem
  <2>4. /\ t.words \in [Addrs -> Word]
        /\ \A b \in Addrs: /\ t.words[b] = Blank <=> pg.words[b] = Blank
                           /\ NextAddr(t.words, b) = NextAddr(pg.words, b)
    <3>1. t.words \in [Addrs -> Word]
      BY TornType DEF Page
    <3>2. t.words[c.addr] = h /\ \A b \in Addrs: b # c.addr => t.words[b] = pg.words[b]
      BY <1>1, <2>2
    <3>3. QED  BY <1>1, <2>1, <2>3, <3>1, <3>2, HeaderChange
  <2>5. EndOfItems(t.words, 0) = EndOfItems(pg.words, 0)
    <3>1. 0 \in 0 .. PageWords
      BY PageWordsAssumption
    <3>2. QED  BY <1>1, <2>4, <3>1, SameShape
  <2>6. QED  BY <2>2, <2>4, <2>5 DEF Tidy, BlankFrom, Appendable
<1>8. CASE c.cmd = "erase"
  BY <1>8, EraseTidy DEF Torn, FitFor
<1>9. QED  BY <1>2, <1>3, <1>4, <1>5, <1>6, <1>7, <1>8 DEF IOType, Commands

\* So is every page of flash.
LEMMA FlashTidy ==
  ASSUME flash \in [Pages -> Page], io \in IOType, HasData(io), io.cmd # "erase_all",
         FitFor(flash[io.page], io), \A p \in Pages: Tidy(flash[p])
  PROVE  /\ \A p \in Pages: Tidy(Completed(io)[p])
         /\ \A fl \in Interrupted(io): \A p \in Pages: Tidy(fl[p])
<1>1. io.page \in Pages /\ flash[io.page] \in Page
  BY DEF IOType
<1>2. /\ Completed(io) = [flash EXCEPT ![io.page] = Applied(flash[io.page], io)]
      /\ Interrupted(io) = {[flash EXCEPT ![io.page] = pg]: pg \in Torn(flash[io.page], io)}
  BY DEF Completed, Interrupted
<1>3. \A t \in Torn(flash[io.page], io): Tidy(t)
  BY <1>1, TornTidy
<1>4. Tidy(Applied(flash[io.page], io))
  BY <1>1, <1>3, AppliedIsTorn
<1>5. QED  BY <1>1, <1>2, <1>3, <1>4

-----------------------------------------------------------------------------
(* The page pointers of a cache, and the words they point to *)

\* Only a cache of page pointers has any.
Bare(c) == CacheKind # "pointer" => \A p \in Pages: c.written[p] = NoAddr /\ c.erased[p] = NoAddr

\* Cache d has the pointers of c, or lost them.
Forgets(d, c) == \A p \in Pages: /\ d.written[p] \in {NoAddr, c.written[p]}
                                 /\ d.erased[p] \in {NoAddr, c.erased[p]}

\* A pointer that is lost is not wrong.
LEMMA Forgotten ==
  ASSUME NEW c, NEW d, Forgets(d, c)
  PROVE  /\ \A p \in Pages: \A ws: Pointed(c, p, ws) => Pointed(d, p, ws)
         /\ Bare(c) => Bare(d)
BY DEF Forgets, Pointed, Bare

\* Pointers are lost for good.
LEMMA ForgetsTrans ==
  ASSUME NEW c, NEW d, NEW e, Forgets(d, c), Forgets(e, d)
  PROVE  Forgets(e, c)
BY DEF Forgets

\* The operations on page states set no pointer, and reset those of a page that is open.
LEMMA ForgetOps ==
  ASSUME NEW c \in CacheType
  PROVE  /\ Forgets(c, c) /\ Forgets(UnmarkDirty(c), c) /\ Forgets(Refresh(c), c) /\ Forgets(FreshCache, c)
         /\ \A S: Forgets(Learn(c, S), c)
         /\ \A p, state: Forgets(NoticeState(c, p, state), c)
         /\ CacheKind # "none" => \A p \in Pages: /\ NoticeState(c, p, "Open").written[p] = NoAddr
                                                  /\ NoticeState(c, p, "Open").erased[p] = NoAddr
<1>1. Forgets(c, c) /\ Forgets(FreshCache, c)
  BY DEF Forgets, FreshCache
<1>2. Forgets(UnmarkDirty(c), c) /\ Forgets(Refresh(c), c)
  BY <1>1 DEF Forgets, UnmarkDirty, Refresh, CacheType
<1>3. MarkDirty(c) \in CacheType /\ MarkDirty(c).written = c.written /\ MarkDirty(c).erased = c.erased
  BY DEF MarkDirty, CacheType
<1>4. ASSUME NEW S PROVE Forgets(Learn(c, S), c)
  <2> DEFINE new == {p \in S: c.states[p] = "Unknown" /\ MarkedState(flash[p]) # "Corrupted"}
  <2>1. CASE CacheKind = "none"
    BY <1>1, <2>1 DEF Learn
  <2>2. CASE CacheKind # "none"
    <3>1. /\ Learn(c, S).written = [p \in Pages |-> IF p \in new /\ MarkedState(flash[p]) = "Open" THEN NoAddr ELSE c.written[p]]
          /\ Learn(c, S).erased = [p \in Pages |-> IF p \in new /\ MarkedState(flash[p]) = "Open" THEN NoAddr ELSE c.erased[p]]
      BY <2>2 DEF Learn, StoreStates, CacheType
    <3> HIDE DEF new
    <3>2. QED  BY <3>1 DEF Forgets
  <2>3. QED  BY <2>1, <2>2
<1>5. ASSUME NEW p, NEW state, CacheKind # "none"
      PROVE  /\ NoticeState(c, p, state).written = [q \in Pages |-> IF q \in {p} /\ state = "Open" THEN NoAddr ELSE c.written[q]]
             /\ NoticeState(c, p, state).erased = [q \in Pages |-> IF q \in {p} /\ state = "Open" THEN NoAddr ELSE c.erased[q]]
  BY <1>3, <1>5 DEF NoticeState, StoreStates, CacheType
<1>6. ASSUME NEW p, NEW state PROVE Forgets(NoticeState(c, p, state), c)
  <2>1. CASE CacheKind = "none"
    BY <1>3, <2>1 DEF NoticeState, StoreStates, Forgets
  <2>2. CASE CacheKind # "none"
    <3>1. /\ NoticeState(c, p, state).written = [q \in Pages |-> IF q \in {p} /\ state = "Open" THEN NoAddr ELSE c.written[q]]
          /\ NoticeState(c, p, state).erased = [q \in Pages |-> IF q \in {p} /\ state = "Open" THEN NoAddr ELSE c.erased[q]]
      BY <1>5, <2>2
    <3>2. QED  BY <3>1 DEF Forgets
  <2>3. QED  BY <2>1, <2>2
<1>7. CacheKind # "none" => \A p \in Pages: /\ NoticeState(c, p, "Open").written[p] = NoAddr
                                            /\ NoticeState(c, p, "Open").erased[p] = NoAddr
  <2>1. SUFFICES ASSUME CacheKind # "none", NEW p \in Pages
                 PROVE  NoticeState(c, p, "Open").written[p] = NoAddr /\ NoticeState(c, p, "Open").erased[p] = NoAddr
    OBVIOUS
  <2>2. /\ NoticeState(c, p, "Open").written = [q \in Pages |-> IF q \in {p} /\ "Open" = "Open" THEN NoAddr ELSE c.written[q]]
        /\ NoticeState(c, p, "Open").erased = [q \in Pages |-> IF q \in {p} /\ "Open" = "Open" THEN NoAddr ELSE c.erased[q]]
    BY <1>5, <2>1
  <2>3. QED  BY <2>2
<1>8. QED  BY <1>1, <1>2, <1>4, <1>6, <1>7

\* A new item is behind everything the pointers speak of.
LEMMA AppendPointed ==
  ASSUME NEW c \in CacheType, NEW p \in Pages, NEW v \in [Addrs -> Word], NEW w \in [Addrs -> Word],
         Pointed(c, p, v), \A b \in Addrs: v[b] # Blank => w[b] = v[b]
  PROVE  /\ c.erased[p] # NoAddr => /\ Unerased(w, c.erased[p]) = Unerased(w, 0)
                                    /\ EndOfItems(w, c.erased[p]) = EndOfItems(w, 0)
         /\ EndOfItems(w, 0) = EndOfItems(v, 0) => Pointed(c, p, w)
<1>1. c.erased[p] \in NoAddr .. PageWords /\ 0 \in 0 .. PageWords
  BY PageWordsAssumption DEF CacheType
<1>2. ASSUME c.erased[p] # NoAddr
      PROVE  /\ Unerased(w, c.erased[p]) = Unerased(w, 0)
             /\ EndOfItems(w, c.erased[p]) = EndOfItems(w, 0)
  <2>1. c.erased[p] \in 0 .. PageWords
    BY <1>1, <1>2, PageWordsAssumption DEF NoAddr
  <2>2. /\ Unerased(w, c.erased[p]) = Unerased(w, Unerased(v, c.erased[p]))
        /\ EndOfItems(w, c.erased[p]) = EndOfItems(w, EndOfItems(v, c.erased[p]))
    BY <2>1, AppendWalk
  <2>3. /\ Unerased(w, 0) = Unerased(w, Unerased(v, 0))
        /\ EndOfItems(w, 0) = EndOfItems(w, EndOfItems(v, 0))
    BY <1>1, AppendWalk
  <2>4. QED  BY <1>2, <2>2, <2>3 DEF Pointed
<1>3. QED  BY <1>2 DEF Pointed

\* notice_item_written, for an item behind the last one.
LEMMA WrittenPointed ==
  ASSUME NEW c \in CacheType, NEW p \in Pages, NEW ws \in [Addrs -> Word], NEW a \in Addrs, NEW i \in Items,
         Pointed(c, p, ws), Bare(c), a = EndOfItems(ws, 0), Fits(a, Size[i]), Appendable(ws),
         NEW v \in [Addrs -> Word], v[a] = Header(i), \A b \in Addrs: b # a => v[b] = ws[b]
  PROVE  LET d == NoticeWritten(c, p, a, Size[i]) IN
         /\ Pointed(d, p, v) /\ Bare(d)
         /\ \A q \in Pages: q # p => d.written[q] = c.written[q] /\ d.erased[q] = c.erased[q]
         /\ CacheKind = "none" \/ d.dirty
<1> DEFINE d == NoticeWritten(c, p, a, Size[i])
           e == a + 1 + Size[i]
<1>1. ws[a] = Blank
  <2>1. 0 \in 0 .. PageWords /\ a # PageWords
    BY PageWordsAssumption DEF Addrs
  <2>2. QED  BY <2>1, EndIsEnd
<1>2. EndOfItems(v, 0) = e
  <2>1. DataReady(v, a, i)
    BY HeaderWritten
  <2>2. QED  BY <2>1 DEF DataReady
<1>3. /\ c.erased[p] # NoAddr => /\ Unerased(v, c.erased[p]) = Unerased(v, 0)
                                 /\ EndOfItems(v, c.erased[p]) = EndOfItems(v, 0)
  <2>1. \A b \in Addrs: ws[b] # Blank => v[b] = ws[b]
    BY <1>1
  <2>2. QED  BY <1>1, <2>1, AppendPointed
<1>4. MarkDirty(c).written = c.written /\ MarkDirty(c).erased = c.erased /\ (CacheKind = "none" \/ MarkDirty(c).dirty) /\ MarkDirty(c) \in CacheType
  BY DEF MarkDirty, CacheType
<1>5. /\ d.erased = c.erased /\ d.dirty = MarkDirty(c).dirty
      /\ d.written = IF CacheKind = "pointer" /\ e > c.written[p] THEN [c.written EXCEPT ![p] = e] ELSE c.written
  BY <1>4 DEF NoticeWritten, CacheType
<1>6. CacheKind = "pointer" => e > c.written[p]
  <2>1. c.written[p] \in {NoAddr, a}
    BY DEF Pointed
  <2>2. QED  BY <2>1, SizeAssumption DEF NoAddr, Addrs
<1>7. d.written[p] \in {NoAddr, e}
  BY <1>5, <1>6 DEF Bare, CacheType
<1>8. \A q \in Pages: q # p => d.written[q] = c.written[q] /\ d.erased[q] = c.erased[q]
  BY <1>5 DEF CacheType
<1>9. Bare(d)
  BY <1>5 DEF Bare
<1> HIDE DEF d, e
<1>10. QED  BY <1>2, <1>3, <1>4, <1>5, <1>7, <1>8, <1>9 DEF Pointed, d

\* notice_item_erased: the pointer moves over the item if it is the first.
LEMMA ErasedPointed ==
  ASSUME NEW c \in CacheType, NEW p \in Pages, NEW ws \in [Addrs -> Word], NEW a \in Addrs,
         Pointed(c, p, ws), Bare(c), IsPresent(ws, a),
         NEW v \in [Addrs -> Word], v[a] = ZeroedHeader(ws[a]), \A b \in Addrs: b # a => v[b] = ws[b]
  PROVE  LET d == NoticeErased(c, p, a, ws[a].len) IN
         /\ Pointed(d, p, v) /\ Bare(d)
         /\ \A q \in Pages: q # p => d.written[q] = c.written[q] /\ d.erased[q] = c.erased[q]
         /\ CacheKind = "none" \/ d.dirty
<1> DEFINE len == ws[a].len
           d == NoticeErased(c, p, a, len)
           u == IF c.erased[p] = NoAddr THEN 0 ELSE c.erased[p]
<1>1. /\ IsItem(ws, a) /\ ws[a].crc # NoItem /\ ws[a].kind = "header" /\ 0 \in 0 .. PageWords
      /\ c.erased[p] \in NoAddr .. PageWords
  BY BlankType, ItemAssumption, PageWordsAssumption DEF IsPresent, IsItem, CacheType
<1>2. \A b \in Addrs: (v[b] = Blank <=> ws[b] = Blank) /\ NextAddr(v, b) = NextAddr(ws, b)
  <2>1. v[a] \in TornZeroes(ws[a])
    BY <1>1 DEF TornZeroes
  <2>2. QED  BY <1>1, <2>1, HeaderChange
<1>3. \A from \in 0 .. PageWords: EndOfItems(v, from) = EndOfItems(ws, from)
  BY <1>1, <1>2, SameShape
<1>4. \A from \in 0 .. PageWords: Unerased(v, from) = Unerased(v, Unerased(ws, from))
  <2>1. \A b \in Addrs: ~Stops(ws, b) => b # a
    BY <1>1 DEF Stops
  <2>2. \A b \in Addrs: ws[b] # Blank /\ ~Stops(ws, b) =>
          v[b] # Blank /\ ~Stops(v, b) /\ NextAddr(v, b) = NextAddr(ws, b)
    BY <1>1, <1>2, <2>1 DEF Stops, IsItem
  <2>3. ASSUME NEW from \in 0 .. PageWords
        PROVE  Unerased(v, from) = Unerased(v, Unerased(ws, from))
    BY <1>1, <2>2, SearchKept
  <2>4. QED  BY <2>3
<1>5. u \in 0 .. PageWords /\ Unerased(ws, u) = Unerased(ws, 0) /\ EndOfItems(ws, u) = EndOfItems(ws, 0)
  BY <1>1, PageWordsAssumption DEF Pointed, NoAddr
<1>6. Unerased(v, u) = Unerased(v, 0) /\ EndOfItems(v, u) = EndOfItems(v, 0)
  BY <1>1, <1>3, <1>4, <1>5
<1>7. MarkDirty(c).written = c.written /\ MarkDirty(c).erased = c.erased /\ (CacheKind = "none" \/ MarkDirty(c).dirty) /\ MarkDirty(c) \in CacheType
  BY DEF MarkDirty, CacheType
<1>8. /\ d.written = c.written /\ d.dirty = MarkDirty(c).dirty
      /\ d.erased = IF CacheKind = "pointer" /\ a = u THEN [c.erased EXCEPT ![p] = a + 1 + len] ELSE c.erased
  BY <1>7 DEF NoticeErased, CacheType
<1>9. \A q \in Pages: q # p => d.written[q] = c.written[q] /\ d.erased[q] = c.erased[q]
  BY <1>8 DEF CacheType
<1>10. Bare(d)
  BY <1>8 DEF Bare
<1>11. a = u => /\ Unerased(v, a + 1 + len) = Unerased(v, 0)
                /\ EndOfItems(v, a + 1 + len) = EndOfItems(v, 0)
  <2>1. NextAddr(v, a) = a + 1 + len /\ v[a] # Blank
    <3>1. NextAddr(ws, a) = a + 1 + len /\ ws[a] # Blank
      BY <1>1 DEF NextAddr, Blank
    <3>2. QED  BY <1>2, <3>1
  <2>2. ~Stops(v, a)
    BY <1>1 DEF Stops, ZeroedHeader, Word
  <2>3. Unerased(v, a) = Unerased(v, a + 1 + len) /\ EndOfItems(v, a) = EndOfItems(v, a + 1 + len)
    BY <1>1, <2>1, <2>2, EndOfItemsIs, UnerasedIs
  <2>4. QED  BY <1>6, <2>3
<1>12. c.written[p] \in {NoAddr, EndOfItems(v, 0)}
  BY <1>1, <1>3 DEF Pointed
<1>13. d.erased[p] # NoAddr => /\ Unerased(v, d.erased[p]) = Unerased(v, 0)
                               /\ EndOfItems(v, d.erased[p]) = EndOfItems(v, 0)
  <2>1. d.erased[p] = IF CacheKind = "pointer" /\ a = u THEN a + 1 + len ELSE c.erased[p]
    BY <1>8 DEF CacheType
  <2>2. c.erased[p] # NoAddr => c.erased[p] = u
    OBVIOUS
  <2> HIDE DEF d, u, len
  <2>3. QED  BY <1>6, <1>11, <2>1, <2>2
<1> HIDE DEF d, u, len
<1>14. QED  BY <1>7, <1>8, <1>9, <1>10, <1>12, <1>13 DEF Pointed, d, len

\* Writing a marker is no erase.
LEMMA NoErase ==
  ASSUME NEW c, NEW p, PartialClosePage(c, p) \/ ClosePage(c, p)
  PROVE  ~OpenPage(c, p)
<1>1. /\ PageIO("start", p).cmd = "start" /\ PageIO("end", p).cmd = "end"
      /\ PageIO("erase", p).cmd = "erase" /\ NoIO.cmd = "none"
  BY DEF PageIO, NoIO
<1>2. io'.cmd \in {"start", "end", "none"}
  BY <1>1 DEF PartialClosePage, ClosePage
<1>3. QED  BY <1>1, <1>2 DEF OpenPage

\* Opening or closing a page: an open page loses its pointers, the words of the others
\* are as they were.
LEMMA MarkerPointed ==
  ASSUME flash \in [Pages -> Page], flash' = flash, NEW c \in CacheType, NEW p \in Pages, Good(c), Bare(c),
         \A q \in Pages: Pointed(c, q, flash[q].words),
         OpenPage(c, p) \/ PartialClosePage(c, p) \/ ClosePage(c, p)
  PROVE  /\ OpenPage(c, p) \/ FitFor(flash[io'.page], io')
         /\ \A q \in Pages: Pointed(cache', q, Completed(io')[q].words)
         /\ Bare(cache') /\ Forgets(cache', c)
         /\ io'.cmd # "none" => CacheKind = "none" \/ cache'.dirty
         /\ OpenPage(c, p) => cache'.written[p] = NoAddr /\ cache'.erased[p] = NoAddr
         /\ \A q \in Pages: Completed(io')[q].words =
              IF OpenPage(c, p) /\ q = p THEN ErasedPage.words ELSE flash[q].words
<1>1. \A cmd: PageIO(cmd, p).cmd = cmd /\ PageIO(cmd, p).page = p
  BY DEF PageIO, NoIO
<1>2. StateOf(c, p) = MarkedState(flash[p])
  BY StateIsMark
<1>3. NoIO.cmd = "none" /\ Completed(NoIO) = flash
  BY NoIOCompleted DEF NoIO
<1> DEFINE d == Learn(c, {p})
<1>4. d \in CacheType /\ Forgets(d, c) /\ d.dirty = c.dirty
  BY LearnType, LearnSound, ForgetOps DEF Good
<1> HIDE DEF d
<1>5. CASE cache' = d /\ io' = NoIO
  <2>1. Bare(cache') /\ \A q \in Pages: Pointed(cache', q, flash[q].words)
    BY <1>4, <1>5, Forgotten
  <2>2. FitFor(flash[io'.page], io')
    BY <1>3, <1>5 DEF FitFor
  <2>3. ~OpenPage(c, p)
    BY <1>1, <1>3, <1>5 DEF OpenPage
  <2>4. QED  BY <1>3, <1>4, <1>5, <2>1, <2>2, <2>3
<1>6. CASE OpenPage(c, p)
  <2>1. cache' = NoticeState(c, p, "Open") /\ io' = PageIO("erase", p)
    BY <1>6 DEF OpenPage
  <2>2. Forgets(cache', c)
    BY <2>1, ForgetOps
  <2>3. Bare(cache') /\ \A q \in Pages: Pointed(cache', q, flash[q].words)
    BY <2>2, Forgotten
  <2>4. cache'.written[p] = NoAddr /\ cache'.erased[p] = NoAddr
    <3>1. CASE CacheKind = "none"
      BY <2>3, <3>1 DEF Bare
    <3>2. CASE CacheKind # "none"
      BY <2>1, <3>2, ForgetOps
    <3>3. QED  BY <3>1, <3>2
  <2>5. Completed(io') = [flash EXCEPT ![p] = ErasedPage]
    BY <1>1, <2>1 DEF Completed, Applied
  <2>6. \A q \in Pages: Pointed(cache', q, Completed(io')[q].words)
    BY <2>3, <2>4, <2>5 DEF Pointed
  <2>7. CacheKind = "none" \/ cache'.dirty
    BY <2>1, NoticeStateSound
  <2>8. QED  BY <1>6, <2>2, <2>3, <2>4, <2>5, <2>6, <2>7
<1>7. ASSUME NEW cmd \in {"start", "end"}, NEW state, cache' = NoticeState(d, p, state), io' = PageIO(cmd, p),
             MarkedState(flash[p]) = IF cmd = "start" THEN "Open" ELSE "PartialOpen"
      PROVE  /\ FitFor(flash[io'.page], io')
             /\ \A q \in Pages: Pointed(cache', q, Completed(io')[q].words)
             /\ Bare(cache') /\ Forgets(cache', c)
             /\ CacheKind = "none" \/ cache'.dirty
             /\ ~OpenPage(c, p)
             /\ \A q \in Pages: Completed(io')[q].words = flash[q].words
  <2>1. Forgets(cache', c)
    BY <1>4, <1>7, ForgetOps, ForgetsTrans
  <2>2. Bare(cache') /\ \A q \in Pages: Pointed(cache', q, flash[q].words)
    BY <2>1, Forgotten
  <2>3. Completed(io') = [flash EXCEPT ![p] = Applied(flash[p], io')]
    BY <1>1, <1>7 DEF Completed
  <2>4. Applied(flash[p], io').words = flash[p].words
    <3>1. flash[p] \in Page
      OBVIOUS
    <3>2. \A pg \in Page: [pg EXCEPT !.start = TRUE].words = pg.words /\ [pg EXCEPT !.end = TRUE].words = pg.words
      BY DEF Page
    <3>3. QED  BY <1>1, <1>7, <3>1, <3>2 DEF Applied
  <2>5. \A q \in Pages: Completed(io')[q].words = flash[q].words
    BY <2>3, <2>4
  <2>6. FitFor(flash[io'.page], io')
    BY <1>1, <1>7 DEF FitFor
  <2>7. CacheKind = "none" \/ cache'.dirty
    BY <1>4, <1>7, NoticeStateSound
  <2>8. ~OpenPage(c, p)
    BY <1>1, <1>7 DEF OpenPage
  <2>9. QED  BY <2>1, <2>2, <2>5, <2>6, <2>7, <2>8
<1>8. \/ cache' = d /\ io' = NoIO
      \/ OpenPage(c, p)
      \/ cache' = NoticeState(d, p, "PartialOpen") /\ io' = PageIO("start", p) /\ StateOf(c, p) = "Open"
      \/ cache' = NoticeState(d, p, "Closed") /\ io' = PageIO("end", p) /\ StateOf(c, p) = "PartialOpen"
  BY DEF PartialClosePage, ClosePage, d
<1>9. CASE cache' = NoticeState(d, p, "PartialOpen") /\ io' = PageIO("start", p) /\ StateOf(c, p) = "Open"
  BY <1>2, <1>7, <1>9
<1>10. CASE cache' = NoticeState(d, p, "Closed") /\ io' = PageIO("end", p) /\ StateOf(c, p) = "PartialOpen"
  BY <1>2, <1>7, <1>10
<1>11. QED  BY <1>5, <1>6, <1>8, <1>9, <1>10

\* The spot find_next_free_item_spot finds is the end of the items.
LEMMA FreeSpotIsEnd ==
  ASSUME NEW c, NEW p, Pointed(c, p, flash[p].words)
  PROVE  FreeSpot(c, p) = EndOfItems(flash[p].words, 0)
BY DEF Pointed, FreeSpot
=============================================================================
