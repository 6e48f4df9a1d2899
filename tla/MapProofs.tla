------------------------------ MODULE MapProofs ------------------------------
(***************************************************************************)
(* What TLAPS proves of MapStorage, and of the pages MapRefinement reads.   *)
(***************************************************************************)
EXTENDS MapRefinement, GenericProofs, SequenceTheorems

-----------------------------------------------------------------------------
(* The items of a page *)

\* The items of a page, header by header.
LEMMA PresentItemsIs ==
  ASSUME NEW ws \in [Addrs -> Word]
  PROVE  /\ PresentItems(ws, PageWords) = {}
         /\ \A a \in Addrs: PresentItems(ws, a) =
              IF ws[a] = Blank THEN {}
              ELSE (IF IsPresent(ws, a) THEN {a} ELSE {}) \cup PresentItems(ws, NextAddr(ws, a))
<1> DEFINE n == PageWords
           here(a) == IF IsPresent(ws, a) THEN {a} ELSE {}
           E(u, a) == IF a = n THEN {} ELSE IF ws[a] = Blank THEN {}
                      ELSE here(a) \cup u[NextAddr(ws, a)]
           P(u) == u = [a \in 0 .. n |-> E(u, a)]
           walk == CHOOSE u: P(u)
           Parts == SUBSET Addrs
           f == [a \in 0 .. n - 1 |-> IF ws[a] = Blank THEN [x \in Parts |-> {}]
                                      ELSE [x \in Parts |-> here(a) \cup x]]
           next == [a \in 0 .. n - 1 |-> NextAddr(ws, a)]
<1>1. n \in Nat /\ n \in 0 .. n /\ 0 .. n - 1 = Addrs /\ Addrs \subseteq 0 .. n
  BY PageWordsAssumption DEF Addrs
<1>2. \A a \in 0 .. n - 1: NextAddr(ws, a) \in a + 1 .. n
  BY <1>1, NextAddrType
<1>3. \E g: P(g)
  <2>1. f \in [0 .. n - 1 -> [Parts -> Parts]] /\ {} \in Parts
    <3>1. \A a \in 0 .. n - 1: here(a) \in Parts
      BY <1>1
    <3> HIDE DEF here
    <3>2. QED  BY <3>1
  <2>2. \A a \in 0 .. n - 1: next[a] \in a + 1 .. n
    BY <1>2
  <2> HIDE DEF f, next, n, Parts, here
  <2>3. PICK g \in [0 .. n -> Parts]: Descent(g, n, {}, f, next)
    BY <1>1, <2>1, <2>2, Descends
  <2>4. ASSUME NEW a \in 0 .. n, a # n
        PROVE  /\ next[a] = NextAddr(ws, a) /\ NextAddr(ws, a) \in 0 .. n
               /\ \A x \in Parts: f[a][x] = IF ws[a] = Blank THEN {} ELSE here(a) \cup x
    <3>1. a \in 0 .. n - 1
      BY <1>1, <2>4
    <3>2. NextAddr(ws, a) \in a + 1 .. n
      BY <1>2, <3>1
    <3>3. NextAddr(ws, a) \in 0 .. n
      BY <1>1, <3>1, <3>2
    <3>4. QED  BY <3>1, <3>3 DEF f, next
  <2>5. \A a \in 0 .. n: g[a] = E(g, a)
    <3>1. SUFFICES ASSUME NEW a \in 0 .. n PROVE g[a] = E(g, a)
      OBVIOUS
    <3>2. CASE a = n
      BY <2>3, <3>2 DEF Descent
    <3>3. CASE a # n
      <4>1. g[NextAddr(ws, a)] \in Parts
        BY <2>4, <3>3
      <4>2. g[a] = f[a][g[NextAddr(ws, a)]]
        BY <2>3, <2>4, <3>3 DEF Descent
      <4>3. QED  BY <2>4, <3>3, <4>1, <4>2
    <3>4. QED  BY <3>2, <3>3
  <2>6. P(g)
    BY <2>5
  <2>7. QED  BY <2>6
<1>4. P(walk)
  <2> HIDE DEF P
  <2>1. QED  BY <1>3
<1>5. \A a \in 0 .. n: walk[a] = E(walk, a)
  <2> HIDE DEF walk, E
  <2>1. QED  BY <1>4
<1>6. \A a: PresentItems(ws, a) = walk[a]
  BY DEF PresentItems
<1> HIDE DEF walk
<1>7. \A a \in Addrs: NextAddr(ws, a) \in 0 .. n /\ a \in 0 .. n /\ a # n
  BY <1>1, <1>2
<1>8. QED  BY <1>1, <1>5, <1>6, <1>7

\* They are present, and from the given address on.
LEMMA PresentItemsType ==
  ASSUME NEW ws \in [Addrs -> Word], NEW from \in 0 .. PageWords
  PROVE  /\ PresentItems(ws, from) \subseteq {a \in Addrs: a >= from /\ IsPresent(ws, a)}
         /\ PresentItems(ws, from) \in SUBSET Nat
<1> DEFINE n == PageWords
           In(b) == {a \in Addrs: a >= b /\ IsPresent(ws, a)}
           S == {k \in 0 .. n: \A b \in n - k .. n: PresentItems(ws, b) \subseteq In(b)}
<1>1. n \in Nat /\ 0 .. n - 1 = Addrs
  BY PageWordsAssumption DEF Addrs
<1>2. 0 \in S
  BY <1>1, PresentItemsIs
<1>3. ASSUME NEW k \in 0 .. n - 1, k \in S
      PROVE  k + 1 \in S
  <2> DEFINE m == n - (k + 1)
  <2>1. m \in Addrs /\ k + 1 \in 0 .. n /\ m \in 0 .. n - 1 /\ m + 1 = n - k
    BY <1>1
  <2>2. \A b \in m .. n: b = m \/ b \in n - k .. n
    BY <2>1
  <2>3. NextAddr(ws, m) \in n - k .. n
    BY <2>1, NextAddrType
  <2>4. PresentItems(ws, NextAddr(ws, m)) \subseteq In(NextAddr(ws, m))
    BY <1>3, <2>3
  <2>5. PresentItems(ws, m) \subseteq
          (IF IsPresent(ws, m) THEN {m} ELSE {}) \cup PresentItems(ws, NextAddr(ws, m))
    BY <2>1, PresentItemsIs
  <2> HIDE DEF m
  <2>6. \A a \in Addrs: a >= NextAddr(ws, m) => a >= m
    BY <1>1, <2>1, <2>3
  <2>7. PresentItems(ws, m) \subseteq In(m)
    BY <1>1, <2>1, <2>4, <2>5, <2>6
  <2>8. \A b \in m .. n: PresentItems(ws, b) \subseteq In(b)
    BY <1>3, <2>2, <2>7
  <2>9. QED  BY <2>1, <2>8 DEF m
<1> HIDE DEF S
<1>4. 0 .. n \subseteq S
  BY <1>1, <1>2, <1>3, UpTo
<1>5. n \in S /\ from \in n - n .. n
  BY <1>1, <1>4
<1>6. PresentItems(ws, from) \subseteq In(from)
  BY <1>5 DEF S
<1>7. QED  BY <1>6, <1>1

\* A set of numbers with a bound that is not empty has a largest one, and Max is it.
LEMMA MaxInSet ==
  ASSUME NEW n \in Nat, NEW S \in SUBSET (0 .. n), S # {}
  PROVE  Max(S) \in S /\ \A x \in S: x <= Max(S)
<1> DEFINE Mirror == {n - x: x \in S}
           m == Min(Mirror)
<1>1. Mirror \in SUBSET Nat /\ Mirror # {}
  <2>1. \A x \in S: n - x \in Nat
    OBVIOUS
  <2>2. Mirror \in SUBSET Nat
    BY <2>1
  <2>3. Mirror # {}
    OBVIOUS
  <2>4. QED  BY <2>2, <2>3
<1>2. m \in Mirror /\ \A x \in Mirror: m <= x
  BY <1>1, MinInSet
<1> HIDE DEF m
<1>3. PICK x \in S: m = n - x
  BY <1>2
<1>4. \A y \in S: x >= y
  <2>1. SUFFICES ASSUME NEW y \in S PROVE x >= y
    OBVIOUS
  <2>2. n - y \in Mirror
    OBVIOUS
  <2>3. m <= n - y
    BY <1>2, <2>2
  <2>4. QED  BY <1>3, <2>3
<1>5. Max(S) \in S /\ \A y \in S: Max(S) >= y
  BY <1>4 DEF Max
<1>6. QED  BY <1>5

\* The items with a key are present and have that key.
LEMMA ItemsWithKeyType ==
  ASSUME flash \in [Pages -> Page], NEW p \in Pages, NEW k
  PROVE  /\ ItemsWithKey(p, k) \subseteq
              {a \in Addrs: IsPresent(flash[p].words, a) /\ KeyAt(flash[p].words, a) = k}
         /\ ItemsWithKey(p, k) # {} => Max(ItemsWithKey(p, k)) \in ItemsWithKey(p, k)
<1>1. flash[p].words \in [Addrs -> Word] /\ 0 \in 0 .. PageWords
  BY PageWordsAssumption DEF Page
<1>2. PresentItems(flash[p].words, 0) \subseteq
        {a \in Addrs: a >= 0 /\ IsPresent(flash[p].words, a)}
  BY <1>1, PresentItemsType
<1>3. ItemsWithKey(p, k) \subseteq
        {a \in Addrs: IsPresent(flash[p].words, a) /\ KeyAt(flash[p].words, a) = k}
  BY <1>2 DEF ItemsWithKey
<1>4. PageWords - 1 \in Nat /\ ItemsWithKey(p, k) \in SUBSET (0 .. PageWords - 1)
  BY <1>3, PageWordsAssumption DEF Addrs
<1>5. QED  BY <1>3, <1>4, MaxInSet

\* What is present is an item the user stored, inside its page.
LEMMA PresentType ==
  ASSUME NEW ws \in [Addrs -> Word], NEW a \in Addrs, IsPresent(ws, a)
  PROVE  /\ ws[a].crc \in Items /\ KeyAt(ws, a) \in Keys
         /\ ws[a].len \in Nat /\ a + 1 + ws[a].len <= PageWords
         /\ NextAddr(ws, a) = a + 1 + ws[a].len /\ NextAddr(ws, a) \in 0 .. PageWords
<1>1. a \in 0 .. PageWords - 1 /\ ws[a].len \in Nat /\ PageWords \in Nat
  BY PageWordsAssumption DEF Addrs, Word
<1>2. IsItem(ws, a) /\ ws[a].crc \in Items
  BY DEF IsPresent
<1>3. QED  BY <1>1, <1>2, KeyAssumption DEF IsItem, NextAddr, KeyAt

-----------------------------------------------------------------------------
(* Key pointers *)

KeysType == {ks \in Seq(SlotType): Len(ks) <= KeySlots}

\* A key that is held has a slot.
LEMMA SlotOfHeld ==
  ASSUME NEW ks \in Seq(SlotType), NEW k, Holds(ks, k)
  PROVE  /\ SlotOf(ks, k) \in 1 .. Len(ks) /\ ks[SlotOf(ks, k)].key = k
         /\ LocationOf(ks, k) \in SlotType
<1>1. DOMAIN ks = 1 .. Len(ks)
  OBVIOUS
<1>2. SlotOf(ks, k) \in 1 .. Len(ks) /\ ks[SlotOf(ks, k)].key = k
  BY <1>1 DEF Holds, SlotOf
<1>3. QED  BY <1>2, ElementOfSeq DEF LocationOf

\* Forgetting a key does not make the list longer.
LEMMA KeyErasedType ==
  ASSUME NEW ks \in Seq(SlotType), NEW k
  PROVE  /\ KeyErased(ks, k) \in Seq(SlotType)
         /\ Len(KeyErased(ks, k)) \in Nat /\ Len(ks) \in Nat
         /\ Len(KeyErased(ks, k)) <= Len(ks)
<1> DEFINE i == SlotOf(ks, k)
           s == SubSeq(ks, 1, i - 1)
           t == SubSeq(ks, i + 1, Len(ks))
<1>1. CASE ~Holds(ks, k)
  BY <1>1 DEF KeyErased
<1>2. CASE Holds(ks, k)
  <2>1. i \in 1 .. Len(ks) /\ Len(ks) \in Nat
    BY <1>2, SlotOfHeld
  <2> HIDE DEF i
  <2>2. \A j \in 1 .. Len(ks): ks[j] \in SlotType
    BY ElementOfSeq
  <2>3. s \in Seq(SlotType) /\ Len(s) = IF 1 <= i - 1 THEN (i - 1) - 1 + 1 ELSE 0
    <3>1. \A j \in 1 .. i - 1: ks[j] \in SlotType
      BY <2>1, <2>2
    <3>2. QED  BY <2>1, <3>1, SubSeqProperties
  <2>4. t \in Seq(SlotType) /\ Len(t) = IF i + 1 <= Len(ks) THEN Len(ks) - (i + 1) + 1 ELSE 0
    <3>1. \A j \in i + 1 .. Len(ks): ks[j] \in SlotType
      BY <2>1, <2>2
    <3>2. QED  BY <2>1, <3>1, SubSeqProperties
  <2> HIDE DEF s, t
  <2>5. s \o t \in Seq(SlotType) /\ Len(s \o t) = Len(s) + Len(t)
    BY <2>3, <2>4, ConcatProperties
  <2>6. KeyErased(ks, k) = s \o t
    BY <1>2 DEF KeyErased, s, t, i
  <2>7. QED  BY <2>1, <2>3, <2>4, <2>5, <2>6
<1>3. QED  BY <1>1, <1>2

\* Erasing and locating a key keep the list within its slots.
LEMMA KeysKept ==
  ASSUME NEW ks \in KeysType, NEW k \in Keys, NEW p \in Pages, NEW a \in Addrs
  PROVE  KeyErased(ks, k) \in KeysType /\ KeyLocated(ks, k, p, a) \in KeysType
<1> DEFINE others == KeyErased(ks, k)
           n == IF Len(others) = KeySlots THEN KeySlots - 1 ELSE Len(others)
           s == SubSeq(others, 1, n)
           new == [key |-> k, page |-> p, addr |-> a]
<1>1. ks \in Seq(SlotType) /\ Len(ks) <= KeySlots /\ KeySlots \in Nat
  BY KeySlotsAssumption DEF KeysType
<1>2. others \in Seq(SlotType) /\ Len(others) \in Nat /\ Len(others) <= KeySlots
  BY <1>1, KeyErasedType
<1>3. KeyErased(ks, k) \in KeysType
  BY <1>2 DEF KeysType
<1> HIDE DEF others
<1>4. CASE KeySlots = 0
  BY <1>3, <1>4 DEF KeyLocated
<1>5. CASE KeySlots # 0
  <2>1. n \in Nat /\ n <= Len(others) /\ n + 1 <= KeySlots
    BY <1>1, <1>2, <1>5
  <2> HIDE DEF n
  <2>2. \A j \in 1 .. n: others[j] \in SlotType
    BY <1>2, <2>1, ElementOfSeq
  <2>3. s \in Seq(SlotType) /\ Len(s) = n
    <3>1. s \in Seq(SlotType) /\ Len(s) = IF 1 <= n THEN n - 1 + 1 ELSE 0
      BY <2>1, <2>2, SubSeqProperties
    <3>2. QED  BY <2>1, <3>1
  <2>4. <<new>> \in Seq(SlotType) /\ Len(<<new>>) = 1
    BY DEF SlotType
  <2> HIDE DEF s, new
  <2>5. <<new>> \o s \in Seq(SlotType) /\ Len(<<new>> \o s) = 1 + n
    BY <2>3, <2>4, ConcatProperties
  <2>6. KeyLocated(ks, k, p, a) = <<new>> \o s
    BY <1>5 DEF KeyLocated, s, new, n, others
  <2>7. <<new>> \o s \in KeysType
    BY <1>1, <2>1, <2>5 DEF KeysType
  <2>8. QED  BY <1>3, <2>6, <2>7
<1>6. QED  BY <1>4, <1>5

\* No key pointers, to begin with.
LEMMA NoKeysType == NoKeys \in KeysType
<1>1. <<>> \in Seq(SlotType) /\ Len(<<>>) = 0
  BY EmptySeq
<1>2. QED  BY <1>1, KeySlotsAssumption DEF NoKeys, KeysType

-----------------------------------------------------------------------------
(* The search for a key *)

\* The pages before a page, around the circle.
LEMMA BeforeType ==
  ASSUME NEW p \in Pages, NEW i \in 0 .. PageCount
  PROVE  /\ PageBefore(p, i) \in Pages
         /\ PageBefore(p, i) = IF p >= i THEN p - i ELSE p - i + PageCount
<1>1. PageCount \in Nat \ {0} /\ p \in 0 .. PageCount - 1 /\ i \in 0 .. PageCount
  BY PageCountAssumption DEF Pages
<1> DEFINE x == p + PageCount - i
<1>2. x \in 0 .. 2 * PageCount - 1 /\ PageBefore(p, i) = x % PageCount
  BY <1>1 DEF PageBefore
<1>3. x % PageCount = IF x < PageCount THEN x ELSE x - PageCount
  <2> HIDE DEF x
  <2>1. QED  BY <1>1, <1>2, Wrap
<1>4. QED  BY <1>1, <1>2, <1>3 DEF Pages

\* Every page is at some distance before p, and that is 1 .. PageCount.
LEMMA BeforeEvery ==
  ASSUME NEW p \in Pages, NEW q \in Pages
  PROVE  \E i \in Pages: i + 1 \in 0 .. PageCount /\ PageBefore(p, i + 1) = q
<1> DEFINE i == IF q < p THEN p - q - 1 ELSE p - q + PageCount - 1
<1>1. PageCount \in Nat \ {0} /\ p \in 0 .. PageCount - 1 /\ q \in 0 .. PageCount - 1
  BY PageCountAssumption DEF Pages
<1>2. i \in Pages /\ i + 1 \in 0 .. PageCount
  BY <1>1 DEF Pages
<1>3. PageBefore(p, i + 1) = IF p >= i + 1 THEN p - (i + 1) ELSE p - (i + 1) + PageCount
  BY <1>2, BeforeType
<1>4. PageBefore(p, i + 1) = q
  BY <1>1, <1>3
<1>5. QED  BY <1>2, <1>4

\* Reading page states does not change what the cache says of any page.
LEMMA LearnSame ==
  ASSUME NEW c \in CacheType, NEW S, flash \in [Pages -> Page]
  PROVE  /\ \A p \in Pages: StateOf(Learn(c, S), p) = StateOf(c, p)
         /\ Learn(c, S).dirty = c.dirty
<1> DEFINE new == {p \in S: c.states[p] = "Unknown" /\ MarkedState(flash[p]) # "Corrupted"}
<1>1. CASE CacheKind = "none"
  BY <1>1 DEF Learn
<1>2. CASE CacheKind # "none"
  <2>1. Learn(c, S).states = [p \in Pages |-> IF p \in new THEN MarkedState(flash[p]) ELSE c.states[p]]
    BY <1>2 DEF Learn, StoreStates, CacheType
  <2>2. Learn(c, S).dirty = c.dirty
    BY <1>2 DEF Learn, StoreStates, CacheType
  <2>3. QED  BY <2>1, <2>2 DEF StateOf
<1>3. QED  BY <1>1, <1>2

\* The page used last is a page, nothing or an error; if it is a page not all are closed.
LEMMA LastUsedType ==
  ASSUME NEW c
  PROVE  /\ LastUsed(c) \in PageOrNone
         /\ LastUsed(c) \in Pages => \E q \in Pages: StateOf(c, q) # "Closed"
<1> DEFINE partial == FindFirst(c, 0, "PartialOpen")
           open == FindFirst(c, 0, "Open")
<1>1. /\ partial \in PageOrNone /\ (partial \in Pages => StateOf(c, partial) = "PartialOpen")
      /\ open \in PageOrNone /\ (open \in Pages => StateOf(c, open) = "Open")
  BY FirstFound
<1>2. NoPage \notin Pages /\ CorruptedPage \notin Pages /\ NoPage # CorruptedPage
  BY PageCountAssumption DEF NoPage, CorruptedPage, Pages
<1> HIDE DEF partial, open
<1>3. LastUsed(c) = CASE partial # NoPage -> partial
        [] partial = NoPage /\ open \in {NoPage, CorruptedPage} -> CorruptedPage
        [] partial = NoPage /\ open \notin {NoPage, CorruptedPage} ->
             CASE StateOf(c, PageBefore(open, 1)) = "Corrupted" -> CorruptedPage
               [] StateOf(c, PageBefore(open, 1)) = "Closed" -> PageBefore(open, 1)
               [] OTHER -> NoPage
  BY DEF LastUsed, partial, open
<1>4. open \in Pages => PageBefore(open, 1) \in Pages
  <2>1. 1 \in 0 .. PageCount
    BY PageCountAssumption
  <2>2. QED  BY <2>1, BeforeType
<1>5. CASE partial # NoPage
  BY <1>1, <1>2, <1>3, <1>5 DEF PageOrNone
<1>6. CASE partial = NoPage /\ open \in {NoPage, CorruptedPage}
  BY <1>2, <1>3, <1>6 DEF PageOrNone
<1>7. CASE partial = NoPage /\ open \notin {NoPage, CorruptedPage}
  <2>1. open \in Pages /\ StateOf(c, open) = "Open"
    BY <1>1, <1>7 DEF PageOrNone
  <2>2. LastUsed(c) \in {CorruptedPage, PageBefore(open, 1), NoPage}
    BY <1>3, <1>7
  <2>3. QED  BY <1>2, <1>4, <2>1, <2>2 DEF PageOrNone
<1>8. QED  BY <1>5, <1>6, <1>7

\* What the search of a key returns, and the cache it leaves, are what they should be.
Fetched(got) ==
  /\ got.status \in {"Ok", "None", "Corrupted"}
  /\ got.page \in Pages /\ got.addr \in Addrs
  /\ got.cache \in CacheType /\ got.keys \in KeysType
  /\ got.status = "Ok" => IsPresent(flash[got.page].words, got.addr)

\* A search that finds nothing.
LEMMA OutcomeType ==
  ASSUME NEW status \in {"None", "Corrupted"}, NEW c \in CacheType, NEW ks \in KeysType
  PROVE  Fetched(Outcome(status, 0, 0, c, ks))
<1>1. 0 \in Pages /\ 0 \in Addrs
  BY PageCountAssumption, PageWordsAssumption DEF Pages, Addrs
<1>2. QED  BY <1>1 DEF Outcome, Fetched

\* What a search finds has a type: an item that is present, or nothing.
LEMMA SearchBackType ==
  ASSUME flash \in [Pages -> Page], NEW c \in CacheType, NEW ks \in KeysType, NEW k \in Keys,
         NEW y \in Pages, NEW depth \in Pages
  PROVE  Fetched(SearchBack(c, ks, k, y, depth))
<1> DEFINE p == PageBefore(y, depth)
           found == ItemsWithKey(p, k)
           known == Learn(c, {PageBefore(y, i): i \in 1 .. depth})
           beyond == PageBefore(p, 1)
<1>1. p \in Pages
  <2>1. depth \in 0 .. PageCount
    BY PageCountAssumption DEF Pages
  <2>2. QED  BY <2>1, BeforeType
<1> HIDE DEF p
<1>2. /\ known \in CacheType /\ UnmarkDirty(known) \in CacheType
      /\ UnmarkDirty(Learn(known, {beyond})) \in CacheType
  BY LearnType, DirtyType
<1> HIDE DEF known, beyond
<1>3. SearchBack(c, ks, k, y, depth) =
        IF found # {}
        THEN Outcome("Ok", p, Max(found), UnmarkDirty(known), KeyLocated(ks, k, p, Max(found)))
        ELSE IF StateOf(c, beyond) = "Corrupted" THEN Outcome("Corrupted", 0, 0, known, ks)
        ELSE Outcome("None", 0, 0, UnmarkDirty(Learn(known, {beyond})), ks)
  BY DEF SearchBack, p, found, known, beyond
<1>4. CASE found # {}
  <2>1. Max(found) \in Addrs /\ IsPresent(flash[p].words, Max(found))
    BY <1>1, <1>4, ItemsWithKeyType
  <2>2. KeyLocated(ks, k, p, Max(found)) \in KeysType
    BY <1>1, <2>1, KeysKept
  <2>3. QED  BY <1>1, <1>2, <1>3, <1>4, <2>1, <2>2 DEF Outcome, Fetched
<1>5. CASE found = {}
  BY <1>2, <1>3, <1>5, OutcomeType
<1>6. QED  BY <1>4, <1>5

\* So it has wherever the search starts,
LEMMA SearchType ==
  ASSUME flash \in [Pages -> Page], NEW c \in CacheType, NEW ks \in KeysType, NEW k \in Keys
  PROVE  Fetched(Search(c, ks, k))
<1> DEFINE known == LearnLastUsed(c)
           last == LastUsed(c)
<1>1. known \in CacheType /\ \A p \in Pages: StateOf(known, p) = StateOf(c, p)
  BY LearnType, LearnSame DEF LearnLastUsed
<1>2. last \in PageOrNone /\ (last \in Pages => \E q \in Pages: StateOf(c, q) # "Closed")
  BY LastUsedType
<1> HIDE DEF known, last
<1>3. Search(c, ks, k) = SearchFrom(known, ks, k, last)
  BY DEF Search, Once, known, last
<1>4. NoPage \notin Pages /\ CorruptedPage \notin Pages /\ NoPage # CorruptedPage
  BY PageCountAssumption DEF NoPage, CorruptedPage, Pages
<1>5. CASE last = CorruptedPage
  <2>1. SearchFrom(known, ks, k, last) = Outcome("Corrupted", 0, 0, known, ks)
    BY <1>4, <1>5 DEF SearchFrom
  <2>2. QED  BY <1>1, <1>3, <2>1, OutcomeType
<1>6. CASE last = NoPage
  <2>1. SearchFrom(known, ks, k, last) = Outcome("None", 0, 0, UnmarkDirty(known), ks)
    BY <1>4, <1>6 DEF SearchFrom
  <2>2. UnmarkDirty(known) \in CacheType
    BY <1>1, DirtyType
  <2>3. QED  BY <1>3, <2>1, <2>2, OutcomeType
<1>7. CASE last \in Pages
  <2> DEFINE D == {i \in Pages: \/ ItemsWithKey(PageBefore(last, i), k) # {}
                                \/ StateOf(known, PageBefore(last, i + 1)) # "Closed"}
  <2>1. D # {}
    <3>1. PICK q \in Pages: StateOf(known, q) # "Closed"
      BY <1>1, <1>2, <1>7
    <3>2. PICK i \in Pages: PageBefore(last, i + 1) = q
      BY <1>7, BeforeEvery
    <3>3. QED  BY <3>1, <3>2
  <2>2. D \in SUBSET Nat
    BY PageCountAssumption DEF Pages
  <2>3. Min(D) \in D
    BY <2>1, <2>2, MinInSet
  <2>4. SearchDepth(known, k, last) = Min(D)
    BY DEF SearchDepth
  <2>5. SearchDepth(known, k, last) \in Pages
    BY <2>3, <2>4
  <2>6. SearchFrom(known, ks, k, last) = SearchBack(known, ks, k, last, SearchDepth(known, k, last))
    BY <1>4, <1>7 DEF SearchFrom, Once
  <2>7. QED  BY <1>1, <1>3, <1>7, <2>5, <2>6, SearchBackType
<1>8. QED  BY <1>2, <1>5, <1>6, <1>7 DEF PageOrNone

\* and when a key pointer is tried first.
LEMMA FetchType ==
  ASSUME flash \in [Pages -> Page], NEW c \in CacheType, NEW ks \in KeysType, NEW k \in Keys
  PROVE  Fetched(FetchWithLocation(c, ks, k))
<1> DEFINE at == LocationOf(ks, k)
           ws == flash[at.page].words
<1>1. Fetched(Search(c, ks, k)) /\ Fetched(Search(FreshCache, NoKeys, k))
  BY SearchType, FreshCacheType, NoKeysType
<1>2. Fetched(Outcome("Corrupted", 0, 0, c, ks))
  BY OutcomeType
<1>3. CASE ~Holds(ks, k)
  BY <1>1, <1>3 DEF FetchWithLocation
<1>4. CASE Holds(ks, k)
  <2>1. at.page \in Pages /\ at.addr \in Addrs
    BY <1>4, SlotOfHeld DEF KeysType, SlotType
  <2> HIDE DEF at
  <2>2. IsPresent(ws, at.addr) => Fetched(Outcome("Ok", at.page, at.addr, c, ks))
    BY <2>1 DEF Outcome, Fetched
  <2>3. FetchWithLocation(c, ks, k) \in
          {Search(FreshCache, NoKeys, k), Outcome("Corrupted", 0, 0, c, ks)}
          \cup IF IsPresent(ws, at.addr) THEN {Outcome("Ok", at.page, at.addr, c, ks)} ELSE {}
    BY <1>4 DEF FetchWithLocation, at
  <2> HIDE DEF ws
  <2>4. QED  BY <1>1, <1>2, <2>2, <2>3
<1>5. QED  BY <1>3, <1>4

-----------------------------------------------------------------------------
(* The headers on flash *)

\* A header with the CRC of an item has that item's length, whatever was cut short.
SizedWord(w) == w.kind = "header" /\ w.crc \in Items => w.len = Size[w.crc]
SizedPage(pg) == \A a \in Addrs: SizedWord(pg.words[a])
Sized(fl) == \A p \in Pages: SizedPage(fl[p])

\* What is written, zeroed or garbled has the length of its item,
LEMMA SizedWords ==
  /\ SizedWord(Blank) /\ SizedWord(Junk) /\ SizedPage(ErasedPage)
  /\ \A w \in Word: SizedWord(w) => SizedWord(ZeroedHeader(w)) /\ SizedWord(GarbledHeader(w))
  /\ \A w \in Word, i \in Items: SizedWord(w) => /\ SizedWord(Programmed(w, Header(i)))
                                                 /\ SizedWord(Programmed(w, Body(i)))
<1>1. SizedWord(Blank) /\ SizedWord(Junk)
  BY DEF SizedWord, Blank, Junk
<1>2. SizedPage(ErasedPage)
  BY <1>1 DEF SizedPage, ErasedPage
<1>3. ASSUME NEW w \in Word
      PROVE  SizedWord(ZeroedHeader(w)) /\ SizedWord(GarbledHeader(w))
  <2>1. ZeroedHeader(w).crc = NoItem /\ GarbledHeader(w).crc = BadItem
    BY DEF ZeroedHeader, GarbledHeader, Word
  <2>2. QED  BY <2>1, ItemAssumption DEF SizedWord
<1>4. ASSUME NEW i \in Items
      PROVE  SizedWord(Header(i)) /\ SizedWord(Body(i))
  BY DEF SizedWord, Header, Body
<1>5. \A w \in Word, i \in Items: SizedWord(w) => /\ SizedWord(Programmed(w, Header(i)))
                                                  /\ SizedWord(Programmed(w, Body(i)))
  BY <1>1, <1>4 DEF Programmed
<1>6. QED  BY <1>1, <1>2, <1>3, <1>5

\* and so has every word of a page that is changed that way.
LEMMA SizedPages ==
  ASSUME NEW pg \in Page, SizedPage(pg)
  PROVE  /\ \A b: SizedPage([pg EXCEPT !.start = b]) /\ SizedPage([pg EXCEPT !.end = b])
         /\ \A a, w: SizedWord(w) => SizedPage(WithWord(pg, a, w))
         /\ \A ws: (\A a \in Addrs: SizedWord(ws[a])) =>
                     /\ SizedPage(WithWords(pg, ws))
                     /\ SizedPage([WithWords(pg, ws) EXCEPT !.start = FALSE])
BY DEF SizedPage, WithWord, WithWords, Page

\* An operation that completes keeps the headers sized,
LEMMA AppliedSized ==
  ASSUME NEW pg \in Page, SizedPage(pg), NEW c \in IOType, HasData(c)
  PROVE  SizedPage(Applied(pg, c))
<1>1. /\ c.addr \in Addrs
      /\ \A a \in Addrs: pg.words[a] \in Word /\ SizedWord(pg.words[a])
  BY DEF Page, IOType, SizedPage
<1>2. CASE c.cmd \in {"none", "start", "end", "erase", "erase_all"}
  BY <1>2, SizedPages, SizedWords DEF Applied
<1>3. CASE c.cmd = "header"
  <2>1. SizedWord(Programmed(pg.words[c.addr], Header(c.item)))
    BY <1>1, <1>3, SizedWords DEF HasData
  <2>2. QED  BY <1>3, <2>1, SizedPages DEF Applied
<1>4. CASE c.cmd = "zero"
  <2>1. SizedWord(ZeroedHeader(pg.words[c.addr]))
    BY <1>1, SizedWords
  <2>2. QED  BY <1>4, <2>1, SizedPages DEF Applied
<1>5. CASE c.cmd = "data"
  <2> DEFINE ws == [a \in Addrs |-> IF a \in DataAddrs(c.addr, c.item)
                                    THEN Programmed(pg.words[a], Body(c.item)) ELSE pg.words[a]]
  <2>1. \A a \in Addrs: SizedWord(ws[a])
    BY <1>1, <1>5, SizedWords DEF HasData
  <2> HIDE DEF ws
  <2>2. Applied(pg, c) = WithWords(pg, ws)
    BY <1>5 DEF Applied, ws
  <2>3. QED  BY <2>1, <2>2, SizedPages
<1>6. QED  BY <1>2, <1>3, <1>4, <1>5 DEF IOType, Commands

\* and so does an erase that is cut short,
LEMMA TornEraseSized ==
  ASSUME NEW pg \in Page, SizedPage(pg), NEW t \in TornErases(pg)
  PROVE  SizedPage(t)
<1>1. \A a \in Addrs: pg.words[a] \in Word /\ SizedWord(pg.words[a])
  BY DEF Page, SizedPage
<1>2. ASSUME NEW ws \in TornWords(pg.words)
      PROVE  \A a \in Addrs: SizedWord(ws[a])
  <2> DEFINE left(k) == IF pg.words[k] = Blank THEN {Blank}
                        ELSE {pg.words[k], Junk} \cup
                             (IF pg.words[k].kind = "header"
                              THEN {GarbledHeader(pg.words[k])} ELSE {})
             reset(k, w) == [a \in Addrs |-> IF a < k THEN Blank
                                             ELSE IF a = k THEN w ELSE pg.words[a]]
  <2>1. PICK k \in Addrs: \E w \in left(k): ws = reset(k, w)
    BY <1>2 DEF TornWords
  <2>2. \A w \in left(k): SizedWord(w)
    BY <1>1, SizedWords
  <2>3. QED  BY <2>1, <2>2, <1>1, SizedWords
<1>3. \A ws \in TornWords(pg.words): SizedPage([WithWords(pg, ws) EXCEPT !.start = FALSE])
  BY <1>2, SizedPages
<1>4. SizedPage([ErasedPage EXCEPT !.end = pg.end])
  BY BlankType, SizedPages, SizedWords
<1>5. QED  BY <1>3, <1>4, SizedWords DEF TornErases

\* or any other operation.
LEMMA TornSized ==
  ASSUME NEW pg \in Page, SizedPage(pg), NEW c \in IOType, HasData(c), NEW t \in Torn(pg, c)
  PROVE  SizedPage(t)
<1>1. /\ c.addr \in Addrs
      /\ \A a \in Addrs: pg.words[a] \in Word /\ SizedWord(pg.words[a])
  BY DEF Page, IOType, SizedPage
<1>2. CASE c.cmd \in {"none", "start", "end"}
  BY <1>2, SizedPages DEF Torn
<1>3. CASE c.cmd = "header"
  <2>1. \A w \in TornHeaders(pg.words[c.addr], Header(c.item)): SizedWord(w)
    BY <1>1, <1>3, SizedWords DEF TornHeaders, HasData
  <2>2. QED  BY <1>3, <2>1, SizedPages DEF Torn
<1>4. CASE c.cmd = "zero"
  <2>1. \A w \in TornZeroes(pg.words[c.addr]): SizedWord(w)
    BY <1>1, SizedWords DEF TornZeroes
  <2>2. QED  BY <1>4, <2>1, SizedPages DEF Torn
<1>5. CASE c.cmd = "data"
  <2> DEFINE ws(k, torn) ==
        [b \in Addrs |->
           IF b \in (c.addr + 1) .. (c.addr + k) THEN Programmed(pg.words[b], Body(c.item))
           ELSE IF torn /\ b = c.addr + k + 1 /\ b \in DataAddrs(c.addr, c.item) THEN Junk
           ELSE pg.words[b]]
  <2>1. PICK k \in 0 .. Size[c.item], torn \in BOOLEAN: t = WithWords(pg, ws(k, torn))
    BY <1>5 DEF Torn, TornData
  <2>2. \A a \in Addrs: SizedWord(ws(k, torn)[a])
    BY <1>1, <1>5, SizedWords DEF HasData
  <2> HIDE DEF ws
  <2>3. QED  BY <2>1, <2>2, SizedPages
<1>6. CASE c.cmd \in {"erase", "erase_all"}
  BY <1>6, TornEraseSized DEF Torn
<1>7. QED  BY <1>2, <1>3, <1>4, <1>5, <1>6 DEF IOType, Commands

\* An operation, done or cut short, leaves headers with the lengths of their items.
LEMMA FlashSized ==
  ASSUME flash \in [Pages -> Page], Sized(flash), NEW c \in IOType, HasData(c)
  PROVE  Sized(Completed(c)) /\ \A fl \in Interrupted(c): Sized(fl)
<1>1. \A p \in Pages: flash[p] \in Page /\ SizedPage(flash[p])
  BY DEF Sized
<1>2. Sized(Completed(c))
  BY <1>1, AppliedSized, SizedWords DEF Completed, IOType, Sized
<1>3. CASE c.cmd = "erase_all"
  <2>1. ASSUME NEW q \in Pages, NEW pg \in TornErases(flash[q])
        PROVE  Sized([p \in Pages |-> IF p < q THEN ErasedPage ELSE IF p = q THEN pg ELSE flash[p]])
    BY <1>1, TornEraseSized, SizedWords DEF Sized
  <2>2. QED  BY <1>2, <1>3, <2>1 DEF Interrupted
<1>4. CASE c.cmd # "erase_all"
  <2>1. \A pg \in Torn(flash[c.page], c): SizedPage(pg)
    BY <1>1, TornSized DEF IOType
  <2>2. QED  BY <1>1, <1>2, <1>4, <2>1 DEF Interrupted, Sized, IOType
<1>5. QED  BY <1>3, <1>4

-----------------------------------------------------------------------------
(***************************************************************************)
(* Types (TypeOK).                                                          *)
(*                                                                         *)
(* Types alone are not inductive: that an item is written inside its page   *)
(* depends on the size check made some steps before, that a migration       *)
(* copies inside the target page on the copies never getting ahead of the   *)
(* scan of the source page (Shape), on headers that tell the truth about    *)
(* the length of their items (Sized), and on the item being copied staying  *)
(* where it was found while its header is written elsewhere (Copying).      *)
(***************************************************************************)

\* A migration that a round of store_item has called.
Migrating(o) == o.pc \in {"migrate", "copy", "migrated"} /\ ~o.repairing

\* What a call carries from one step to the next.
Shape(o) ==
  /\ o.pc = "idle" => o = Idle
  /\ o.pc # "idle" => o.fn \in Functions
  /\ o.pc \in Functions => o.fn = o.pc
  /\ o.fn = "store_item" => o.item \in Items
  /\ o.fn \in {"fetch_item", "remove_item"} => o.key \in Keys
  /\ o.pc \in {"data", "closed", "opened", "finish"} \/ Migrating(o) => o.fn = "store_item"
  /\ o.pc \in {"closed", "opened"} \/ Migrating(o) => o.level < PageCount
  /\ o.pc = "data" => Fits(o.addr, Size[o.item])
  /\ o.pc \in {"migrate", "copy"} => o.addr <= o.from
  /\ o.pc \in {"repair", "reopen"} => o.repairing

\* The item being copied is on the source page while its header is written.
Copying ==
  op.pc = "copy" =>
    /\ op.from \in Addrs /\ IsPresent(flash[Source].words, op.from)
    /\ io # NoIO => io.cmd = "header" /\ io.page = op.page

QuietIdle == op = Idle => io = NoIO

IInv == TypeOK /\ Sized(flash) /\ Shape(op) /\ Copying /\ QuietIdle /\ HasData(io)

\* The invariant, part by part.
LEMMA Typed ==
  ASSUME IInv
  PROVE  /\ flash \in [Pages -> Page] /\ Sized(flash)
         /\ cache \in CacheType /\ io \in IOType /\ HasData(io) /\ keys \in KeysType
         /\ op \in OpType /\ Shape(op)
         /\ iter \in IterType /\ ret \in RetType /\ faults \in 0 .. MaxFaults
         /\ op = Idle => io = NoIO
         /\ \A p \in Pages: flash[p].words \in [Addrs -> Word]
BY DEF IInv, TypeOK, KeysType, QuietIdle, Page

\* The constants the actions start from have their types.
LEMMA SmallTypes ==
  /\ 0 \in Pages /\ 0 \in Addrs /\ 0 \in 0 .. PageWords /\ 0 \in 0 .. PageCount
  /\ Idle \in OpType /\ Idle.pc = "idle" /\ Idle.fn = "none" /\ Shape(Idle)
  /\ NoRet \in RetType /\ NoIter \in IterType
<1>1. 0 \in Pages /\ 0 \in Addrs /\ 0 \in 0 .. PageWords /\ 0 \in 0 .. PageCount
  BY PageCountAssumption, PageWordsAssumption DEF Pages, Addrs
<1>2. Idle \in OpType /\ Idle.pc = "idle" /\ Idle.fn = "none"
  BY <1>1 DEF Idle, OpType, PCs
<1>3. Shape(Idle)
  BY <1>2 DEF Shape, Migrating, Functions
<1>4. NoRet \in RetType /\ NoIter \in IterType
  BY <1>1 DEF NoRet, RetType, Statuses, NoIter, IterType
<1>5. QED  BY <1>1, <1>2, <1>3, <1>4

\* What a call returns has its type.
LEMMA ResultType ==
  ASSUME op \in OpType, NEW status \in Statuses
  PROVE  Result(status) \in RetType /\ \A i \in Items: ItemResult(i) \in RetType
<1>1. Result("Ok") \in RetType /\ Result(status) \in RetType
  BY DEF Result, RetType, Statuses, OpType
<1>2. QED  BY <1>1 DEF ItemResult, RetType

\* What a step of a call leaves behind, when it is no copy of a header.
Stepped ==
  /\ cache' \in CacheType /\ keys' \in KeysType
  /\ io' \in IOType /\ HasData(io')
  /\ op' \in OpType /\ Shape(op') /\ op'.pc # "copy"
  /\ op' = Idle => io' = NoIO
  /\ ret' \in RetType

\* A step of a call that leaves its variables well-typed keeps the invariant.
LEMMA SteppedInv ==
  ASSUME IInv, Stepped, iter' \in IterType, UNCHANGED <<flash, faults>>
  PROVE  IInv'
BY DEF IInv, TypeOK, Stepped, KeysType, Copying, QuietIdle, HasData

\* A call that returns.
LEMMA ReturnStepped ==
  ASSUME IInv, NEW r \in RetType, Return(r), cache' \in CacheType, keys' \in KeysType, io' = NoIO
  PROVE  Stepped
BY SmallTypes, NoIOType DEF Return, Stepped

\* The first Corrupted error starts a repair, the second one ends the call.
LEMMA CorruptionStepped ==
  ASSUME IInv, NEW c \in CacheType, NEW ks \in KeysType, HandleCorruption(c, ks),
         io = NoIO, op.pc # "idle"
  PROVE  Stepped
<1>1. op \in OpType /\ Shape(op) /\ ret \in RetType /\ io' = NoIO
  BY Typed DEF HandleCorruption
<1>2. CASE op.retried
  <2>1. Result("Corrupted") \in RetType
    BY <1>1, ResultType DEF Statuses
  <2>2. QED  BY <1>1, <1>2, <2>1, ReturnStepped DEF HandleCorruption
<1>3. CASE ~op.retried
  <2>1. /\ cache' = FreshCache /\ keys' = NoKeys /\ ret' = ret
        /\ op' = [op EXCEPT !.pc = "repair", !.page = 0, !.retried = TRUE, !.repairing = TRUE]
    BY <1>3 DEF HandleCorruption
  <2>2. op' \in OpType
    BY <1>1, <2>1, SmallTypes DEF OpType, PCs
  <2>3. /\ op'.pc = "repair" /\ op'.fn = op.fn /\ op'.item = op.item /\ op'.key = op.key
        /\ op'.repairing
    BY <1>1, <2>1 DEF OpType
  <2>4. Shape(op') /\ op' # Idle
    BY <1>1, <2>3, SmallTypes DEF Shape, Migrating, Functions
  <2>5. QED  BY <1>1, <2>1, <2>2, <2>3, <2>4, FreshCacheType, NoKeysType, NoIOType DEF Stepped
<1>4. QED  BY <1>2, <1>3

\* The function is entered again.
LEMMA RestartStepped ==
  ASSUME IInv, op.pc # "idle", Restart,
         cache' \in CacheType, keys' = keys, io' = NoIO, ret' = ret
  PROVE  Stepped
<1>1. op \in OpType /\ Shape(op) /\ op.fn \in Functions
  BY Typed DEF Shape
<1>2. op' \in OpType /\ op'.pc = op.fn /\ op'.fn = op.fn /\ op'.item = op.item /\ op'.key = op.key
  BY <1>1, SmallTypes DEF Restart, OpType, PCs
<1>3. Shape(op') /\ op' # Idle /\ op'.pc # "copy"
  BY <1>1, <1>2, SmallTypes DEF Shape, Migrating, Functions
<1>4. QED  BY <1>2, <1>3, Typed, NoIOType DEF Stepped

-----------------------------------------------------------------------------
(* Every step preserves the inductive invariant *)

\* The user calls a function.
LEMMA CallInv ==
  ASSUME IInv,
         \/ \E i \in Items: CallStore(i)
         \/ \E k \in Keys: CallFetch(k) \/ CallRemove(k)
         \/ CallRemoveAll \/ CallIter \/ CallEraseAll
  PROVE  IInv'
<1>1. /\ op = Idle /\ io = NoIO /\ UNCHANGED <<flash, cache, keys, iter, faults>> /\ ret' = NoRet
  BY Typed DEF CallStore, CallFetch, CallRemove, CallRemoveAll, CallIter, CallEraseAll, Call, Begin
<1>2. PICK fn \in Functions, item \in Items \cup {NoItem}, key \in Keys \cup {NoKey}:
        /\ op' = [Idle EXCEPT !.fn = fn, !.pc = fn, !.item = item, !.key = key]
        /\ fn = "store_item" => item \in Items
        /\ fn \in {"fetch_item", "remove_item"} => key \in Keys
  <2>1. CASE \E i \in Items: CallStore(i)
    <3>1. PICK i \in Items:
            op' = [Idle EXCEPT !.fn = "store_item", !.pc = "store_item", !.item = i, !.key = NoKey]
      BY <2>1 DEF CallStore, Call
    <3>2. "store_item" \in Functions /\ i \in Items \cup {NoItem} /\ NoKey \in Keys \cup {NoKey}
      BY <3>1 DEF Functions
    <3>3. QED  BY <3>1, <3>2
  <2>2. CASE \E k \in Keys: CallFetch(k) \/ CallRemove(k)
    <3>1. PICK k \in Keys, fn \in {"fetch_item", "remove_item"}:
            op' = [Idle EXCEPT !.fn = fn, !.pc = fn, !.item = NoItem, !.key = k]
      BY <2>2 DEF CallFetch, CallRemove, Call
    <3>2. fn \in Functions /\ NoItem \in Items \cup {NoItem} /\ k \in Keys \cup {NoKey}
      BY <3>1 DEF Functions
    <3>3. QED  BY <3>1, <3>2, ZenonT(30)
  <2>3. CASE CallRemoveAll \/ CallIter
    BY <2>3 DEF CallRemoveAll, CallIter, Call, Functions
  <2>4. CASE CallEraseAll
    <3>1. op' = [Idle EXCEPT !.fn = "erase_all", !.pc = "erase_all",
                            !.item = NoItem, !.key = NoKey]
      <4>1. Idle.item = NoItem /\ Idle.key = NoKey
        BY DEF Idle
      <4>2. Idle \in OpType /\ op' = [Idle EXCEPT !.fn = "erase_all", !.pc = "erase_all"]
        BY <2>4, SmallTypes DEF CallEraseAll
      <4>3. QED  BY <4>1, <4>2 DEF OpType
    <3>2. QED  BY <3>1 DEF Functions
  <2>5. QED  BY <2>1, <2>2, <2>3, <2>4
<1>3. /\ op' \in OpType /\ op'.pc = fn /\ op'.fn = fn /\ op'.item = item /\ op'.key = key
  BY <1>2, SmallTypes DEF OpType, PCs, Idle
<1>4. Shape(op') /\ op' # Idle /\ op'.pc # "copy"
  BY <1>2, <1>3, SmallTypes DEF Shape, Migrating, Functions
<1>5. io' \in IOType /\ HasData(io')
  <2>1. io' = NoIO \/ io' = PageIO("erase_all", 0)
    BY <1>1 DEF CallStore, CallFetch, CallRemove, CallRemoveAll, CallIter, CallEraseAll, Call
  <2>2. PageIO("erase_all", 0) \in IOType /\ HasData(PageIO("erase_all", 0))
    BY SmallTypes, PageIOType DEF Commands
  <2>3. QED  BY SMTT(30), <2>1, <2>2, NoIOType
<1>6. Stepped
  BY <1>1, <1>3, <1>4, <1>5, Typed, SmallTypes DEF Stepped
<1>7. QED  BY <1>1, <1>6, Typed, SteppedInv

\* A flash operation completes.
LEMMA FlashDoneInv ==
  ASSUME IInv, FlashDone, UNCHANGED <<keys, op, iter, ret, faults>>
  PROVE  IInv'
<1>1. /\ flash' = Completed(io) /\ io # NoIO /\ io' = NoIO /\ cache' = cache
      /\ UNCHANGED <<keys, op, iter, ret, faults>>
  BY DEF FlashDone
<1>2. flash' \in [Pages -> Page] /\ Sized(flash')
  BY <1>1, Typed, FlashType, FlashSized
<1>3. op.pc = "copy" => flash'[Source] = flash[Source]
  <2>1. SUFFICES ASSUME op.pc = "copy" PROVE flash'[Source] = flash[Source]
    OBVIOUS
  <2>2. io.cmd = "header" /\ io.page = op.page
    BY <1>1, <2>1 DEF IInv, Copying
  <2>3. op.page \in Pages
    BY Typed DEF OpType
  <2>4. Source \in Pages /\ Source # op.page
    <3>1. Source = IF op.page + 1 < PageCount THEN op.page + 1 ELSE 0
      BY <2>3, SmallTypes, Around DEF Source
    <3>2. QED  BY <2>3, <3>1, MapPagesAssumption, PageCountAssumption DEF Pages
  <2>5. flash' = [flash EXCEPT ![op.page] = Applied(flash[op.page], io)]
    BY <1>1, <2>2 DEF Completed
  <2>6. QED  BY <2>4, <2>5, Typed
<1>4. Source' = Source
  BY <1>1 DEF Source
<1>5. Copying'
  BY <1>1, <1>3, <1>4 DEF IInv, Copying
<1>6. QED  BY <1>1, <1>2, <1>5, NoIOType DEF IInv, TypeOK, QuietIdle, HasData

\* A call fails, or power is lost.
LEMMA FaultInv ==
  ASSUME IInv, Fail \/ PowerLoss
  PROVE  IInv'
<1>1. flash' \in [Pages -> Page] /\ io' = NoIO /\ Sized(flash')
  <2>1. FlashCutShort
    BY DEF Fail, PowerLoss
  <2>2. QED  BY <2>1, Typed, CutShortType, FlashSized DEF FlashCutShort
<1>2. faults' \in 0 .. MaxFaults
  BY Typed, MapFaultsAssumption DEF Fail, PowerLoss
<1>3. cache' \in CacheType /\ keys' \in KeysType /\ iter' \in IterType
  BY Typed, FreshCacheType, NoKeysType, SmallTypes DEF Fail, PowerLoss
<1>4. op' = Idle /\ ret' \in RetType
  <2>1. Result("Storage") \in RetType /\ Result("PowerLoss") \in RetType
    BY Typed, ResultType DEF Statuses
  <2>2. [Result("PowerLoss") EXCEPT !.fn = IF Usable THEN @ ELSE "erase_all"] \in RetType
    BY <2>1 DEF RetType, Functions
  <2>3. QED  BY <2>1, <2>2 DEF Fail, PowerLoss, Return
<1>5. Copying' /\ QuietIdle' /\ HasData(io)' /\ io' \in IOType
  BY <1>1, <1>4, SmallTypes, NoIOType DEF Copying, QuietIdle, HasData
<1>6. QED
  BY <1>1, <1>2, <1>3, <1>4, <1>5, SmallTypes DEF IInv, TypeOK, KeysType

\* fetch_item.
LEMMA FetchItemInv ==
  ASSUME IInv, FetchItem
  PROVE  IInv'
<1>1. /\ op.pc = "fetch_item" /\ io = NoIO /\ op.fn = "fetch_item" /\ op.key \in Keys
      /\ UNCHANGED <<flash, iter, faults>>
  BY Typed DEF FetchItem, At, Shape, Functions
<1> DEFINE got == FetchWithLocation(Refresh(cache), RefreshKeys, op.key)
<1>2. Fetched(got)
  <2>1. Refresh(cache) \in CacheType /\ RefreshKeys \in KeysType
    BY Typed, DirtyType, NoKeysType DEF RefreshKeys
  <2>2. QED  BY <1>1, <2>1, Typed, FetchType
<1>3. IF got.status = "Corrupted" THEN HandleCorruption(got.cache, got.keys)
      ELSE /\ cache' = got.cache /\ keys' = got.keys
           /\ Return(IF got.status = "None" THEN Result("None")
                     ELSE ItemResult(flash[got.page].words[got.addr].crc))
           /\ UNCHANGED io
  BY DEF FetchItem
<1> HIDE DEF got
<1>4. CASE got.status = "Corrupted"
  <2>1. Stepped
    BY <1>1, <1>2, <1>3, <1>4, CorruptionStepped DEF Fetched
  <2>2. QED  BY <1>1, <2>1, Typed, SteppedInv
<1>5. CASE got.status # "Corrupted"
  <2> DEFINE r == IF got.status = "None" THEN Result("None")
                  ELSE ItemResult(flash[got.page].words[got.addr].crc)
  <2>1. r \in RetType
    <3>1. got.status = "Ok" => flash[got.page].words[got.addr].crc \in Items
      BY <1>2, Typed, PresentType DEF Fetched
    <3>2. Result("None") \in RetType /\ \A i \in Items: ItemResult(i) \in RetType
      BY Typed, ResultType DEF Statuses
    <3>3. QED  BY <1>2, <1>5, <3>1, <3>2 DEF Fetched
  <2> HIDE DEF r
  <2>2. Return(r) /\ cache' = got.cache /\ keys' = got.keys /\ io' = NoIO
    BY <1>1, <1>3, <1>5 DEF r
  <2>3. Stepped
    BY <1>2, <2>1, <2>2, ReturnStepped DEF Fetched
  <2>4. QED  BY <1>1, <2>3, Typed, SteppedInv
<1>6. QED  BY <1>4, <1>5

-----------------------------------------------------------------------------
\* Where a page has room is inside it or at its end.
LEMMA FreeSpotType ==
  ASSUME flash \in [Pages -> Page], NEW c \in CacheType, NEW p \in Pages
  PROVE  FreeSpot(c, p) \in 0 .. PageWords
<1>1. c.written[p] \in NoAddr .. PageWords /\ c.erased[p] \in NoAddr .. PageWords
  BY DEF CacheType
<1> DEFINE from == IF c.erased[p] = NoAddr THEN 0 ELSE c.erased[p]
<1>2. from \in 0 .. PageWords
  BY <1>1, PageWordsAssumption DEF NoAddr
<1>3. flash[p].words \in [Addrs -> Word]
  BY DEF Page
<1> HIDE DEF from
<1>4. EndOfItems(flash[p].words, from) \in from .. PageWords
  BY <1>2, <1>3, EndOfItemsType
<1>5. FreeSpot(c, p) = IF c.written[p] # NoAddr THEN c.written[p]
                       ELSE EndOfItems(flash[p].words, from)
  BY DEF FreeSpot, from
<1>6. QED  BY <1>1, <1>2, <1>4, <1>5, PageWordsAssumption DEF NoAddr

\* The header of an item that fits where it is written.
LEMMA HeaderType ==
  ASSUME NEW c \in CacheType, NEW p \in Pages, NEW a \in 0 .. PageWords, NEW i \in Items,
         Fits(a, Size[i]), WriteHeader(c, p, a, i)
  PROVE  /\ a \in Addrs /\ cache' \in CacheType /\ io' \in IOType /\ HasData(io')
         /\ io'.cmd = "header" /\ io'.page = p
<1>1. Size[i] \in Nat /\ a \in Addrs /\ a + 1 + Size[i] <= PageWords
  BY SizeAssumption, PageWordsAssumption DEF Fits, Addrs
<1>2. cache' \in CacheType
  BY <1>1, NoticePointerType DEF WriteHeader
<1>3. io' = ItemIO("header", p, a, i)
  BY DEF WriteHeader
<1>4. QED  BY <1>1, <1>2, <1>3, ItemIOType DEF Commands, ItemIO

\* Its data.
LEMMA DataType ==
  ASSUME IInv, NEW p \in Pages, NEW a \in Addrs, NEW i \in Items, WriteData(p, a, i)
  PROVE  cache' = cache /\ io' \in IOType /\ HasData(io')
BY NoIOType, ItemIOType DEF WriteData, Commands

\* A round of store_item on the page that is partially open.
LEMMA StoreOnPageStepped ==
  ASSUME IInv, NEW c \in CacheType, NEW ks \in KeysType, NEW partial \in Pages,
         op.pc = "store_item", ~Exhausted, io = NoIO, StoreOnPage(c, ks, partial)
  PROVE  Stepped
<1> DEFINE next == NextPage(partial)
           known == Learn(c, {next})
           spot == FreeSpot(known, partial)
<1>1. /\ op \in OpType /\ Shape(op) /\ op.item \in Items /\ op.fn = "store_item"
      /\ op.level < PageCount /\ ret \in RetType
  <2>1. op \in OpType /\ Shape(op) /\ ret \in RetType
    BY Typed
  <2>2. op.fn = "store_item" /\ op.item \in Items
    BY <2>1 DEF Shape, Functions
  <2>3. op.level \in 0 .. PageCount /\ op.level # PageCount
    BY <2>1 DEF OpType, Exhausted
  <2>4. QED  BY <2>1, <2>2, <2>3, PageCountAssumption
<1>2. next \in Pages /\ known \in CacheType
  BY Typed, Around, SmallTypes, LearnType
<1>3. spot \in 0 .. PageWords
  <2> HIDE DEF known
  <2>1. QED  BY <1>2, Typed, FreeSpotType
<1>4. \/ HandleCorruption(known, ks)
      \/ /\ cache' = UnmarkDirty(known) /\ keys' = ks
         /\ Return(Result("ItemTooBig"))
         /\ UNCHANGED io
      \/ /\ Fits(spot, Size[op.item])
         /\ WriteHeader(known, partial, spot, op.item)
         /\ keys' = KeyLocated(ks, KeyOf[op.item], partial, spot)
         /\ op' = [op EXCEPT !.pc = "data", !.page = partial, !.addr = spot]
         /\ UNCHANGED ret
      \/ /\ ClosePage(known, partial)
         /\ op' = [op EXCEPT !.pc = "closed", !.page = next]
         /\ keys' = ks
         /\ UNCHANGED ret
  BY DEF StoreOnPage
<1> HIDE DEF next, known, spot
<1>5. CASE HandleCorruption(known, ks)
  BY <1>2, <1>5, CorruptionStepped
<1>6. CASE /\ cache' = UnmarkDirty(known) /\ keys' = ks
           /\ Return(Result("ItemTooBig"))
           /\ UNCHANGED io
  <2>1. UnmarkDirty(known) \in CacheType /\ Result("ItemTooBig") \in RetType
    BY <1>1, <1>2, DirtyType, ResultType DEF Statuses
  <2>2. QED  BY <1>6, <2>1, ReturnStepped
<1>7. CASE /\ Fits(spot, Size[op.item])
           /\ WriteHeader(known, partial, spot, op.item)
           /\ keys' = KeyLocated(ks, KeyOf[op.item], partial, spot)
           /\ op' = [op EXCEPT !.pc = "data", !.page = partial, !.addr = spot]
           /\ UNCHANGED ret
  <2>1. spot \in Addrs /\ cache' \in CacheType /\ io' \in IOType /\ HasData(io')
    BY <1>1, <1>2, <1>3, <1>7, HeaderType
  <2>2. keys' \in KeysType
    BY <1>1, <1>7, <2>1, KeysKept, KeyAssumption
  <2>3. /\ op' \in OpType /\ op'.pc = "data" /\ op'.fn = op.fn /\ op'.item = op.item
        /\ op'.addr = spot
    BY <1>1, <1>3, <1>7 DEF OpType, PCs
  <2>4. Shape(op') /\ op' # Idle
    BY <1>1, <1>7, <2>3, SmallTypes DEF Shape, Migrating, Functions
  <2>5. QED  BY <1>1, <1>7, <2>1, <2>2, <2>3, <2>4 DEF Stepped
<1>8. CASE /\ ClosePage(known, partial)
           /\ op' = [op EXCEPT !.pc = "closed", !.page = next]
           /\ keys' = ks
           /\ UNCHANGED ret
  <2>1. cache' \in CacheType /\ io' \in IOType /\ HasData(io')
    BY <1>2, <1>8, Typed, MarkerType DEF HasData
  <2>2. /\ op' \in OpType /\ op'.pc = "closed" /\ op'.fn = op.fn /\ op'.item = op.item
        /\ op'.level = op.level
    BY <1>1, <1>2, <1>8 DEF OpType, PCs
  <2>3. Shape(op') /\ op' # Idle
    BY <1>1, <2>2, SmallTypes DEF Shape, Migrating, Functions
  <2>4. QED  BY <1>1, <1>8, <2>1, <2>2, <2>3 DEF Stepped
<1>9. QED  BY <1>4, <1>5, <1>6, <1>7, <1>8

\* And one when no page is.
LEMMA StoreOnFirstStepped ==
  ASSUME IInv, NEW c \in CacheType, NEW ks \in KeysType, NEW partial,
         op.pc = "store_item", ~Exhausted, io = NoIO, StoreOnFirst(c, ks, partial)
  PROVE  Stepped
<1>1. /\ op \in OpType /\ Shape(op) /\ op.item \in Items /\ op.fn = "store_item"
      /\ op.level + 1 \in 0 .. PageCount /\ ret \in RetType
  <2>1. op \in OpType /\ Shape(op) /\ ret \in RetType
    BY Typed
  <2>2. op.fn = "store_item" /\ op.item \in Items
    BY <2>1 DEF Shape, Functions
  <2>3. op.level \in 0 .. PageCount /\ op.level # PageCount
    BY <2>1 DEF OpType, Exhausted
  <2>4. QED  BY <2>1, <2>2, <2>3, PageCountAssumption
<1>2. CASE HandleCorruption(c, ks)
  BY <1>2, CorruptionStepped
<1>3. CASE \E open \in Pages: /\ PartialClosePage(c, open)
                              /\ op' = [op EXCEPT !.level = @ + 1]
                              /\ keys' = ks
                              /\ UNCHANGED ret
  <2>1. cache' \in CacheType /\ io' \in IOType /\ HasData(io')
    BY <1>3, Typed, MarkerType DEF HasData
  <2>2. op' \in OpType /\ op'.pc = op.pc /\ op'.fn = op.fn /\ op'.item = op.item
    BY <1>1, <1>3 DEF OpType
  <2>3. Shape(op') /\ op' # Idle
    BY <1>1, <2>2, SmallTypes DEF Shape, Migrating, Functions
  <2>4. QED  BY <1>1, <1>3, <2>1, <2>2, <2>3 DEF Stepped
<1>4. QED  BY <1>2, <1>3 DEF StoreOnFirst

\* A round of store_item.
LEMMA StoreRoundInv ==
  ASSUME IInv, StoreRound
  PROVE  IInv'
<1> DEFINE c == IF op.level = 0 THEN Refresh(cache) ELSE cache
           ks == IF op.level = 0 THEN RefreshKeys ELSE keys
<1>1. /\ op.pc = "store_item" /\ io = NoIO /\ UNCHANGED <<flash, iter, faults>>
      /\ \/ cache' = UnmarkDirty(c) /\ Return(Result("FullStorage")) /\ UNCHANGED <<io, keys>>
         \/ /\ ~Exhausted
            /\ \E partial \in {FindFirst(c, 0, "PartialOpen")}, known \in {LearnLastUsed(c)}:
                 IF partial \in Pages THEN StoreOnPage(known, ks, partial)
                 ELSE StoreOnFirst(known, ks, partial)
  BY DEF StoreRound, At
<1>2. c \in CacheType /\ ks \in KeysType
  BY Typed, DirtyType, NoKeysType DEF RefreshKeys
<1> HIDE DEF c, ks
<1>3. Stepped
  <2>1. CASE cache' = UnmarkDirty(c) /\ Return(Result("FullStorage")) /\ UNCHANGED <<io, keys>>
    <3>1. UnmarkDirty(c) \in CacheType /\ Result("FullStorage") \in RetType
      BY <1>2, Typed, DirtyType, ResultType DEF Statuses
    <3>2. QED  BY <1>1, <2>1, <3>1, Typed, ReturnStepped
  <2>2. CASE /\ ~Exhausted
             /\ \E partial \in {FindFirst(c, 0, "PartialOpen")}, known \in {LearnLastUsed(c)}:
                  IF partial \in Pages THEN StoreOnPage(known, ks, partial)
                  ELSE StoreOnFirst(known, ks, partial)
    <3>1. LearnLastUsed(c) \in CacheType
      BY <1>2, Typed, LearnType DEF LearnLastUsed
    <3>2. PICK partial: IF partial \in Pages THEN StoreOnPage(LearnLastUsed(c), ks, partial)
                        ELSE StoreOnFirst(LearnLastUsed(c), ks, partial)
      BY <2>2
    <3>3. QED  BY <1>1, <1>2, <2>2, <3>1, <3>2, StoreOnPageStepped, StoreOnFirstStepped
  <2>3. QED  BY <1>1, <2>1, <2>2
<1>4. QED  BY <1>1, <1>3, Typed, SteppedInv

\* The data of the item, and the end of the call.
LEMMA StoreDataInv ==
  ASSUME IInv, StoreData \/ StoreFinish
  PROVE  IInv'
<1>1. op \in OpType /\ Shape(op) /\ ret \in RetType /\ keys \in KeysType /\ cache \in CacheType
  BY Typed
<1>2. CASE StoreData
  <2>1. /\ op.pc = "data" /\ op.fn = "store_item" /\ op.item \in Items
        /\ Fits(op.addr, Size[op.item]) /\ op.page \in Pages
        /\ WriteData(op.page, op.addr, op.item)
        /\ op' = [op EXCEPT !.pc = "finish"] /\ UNCHANGED <<flash, keys, iter, ret, faults>>
    BY <1>1, <1>2 DEF StoreData, At, Shape, OpType
  <2>2. op.addr \in Addrs
    BY <1>1, <2>1, SizeAssumption, PageWordsAssumption DEF Fits, OpType, Addrs
  <2>3. cache' = cache /\ io' \in IOType /\ HasData(io')
    BY <2>1, <2>2, DataType
  <2>4. op' \in OpType /\ op'.pc = "finish" /\ op'.fn = op.fn /\ op'.item = op.item
    BY <1>1, <2>1 DEF OpType, PCs
  <2>5. Shape(op') /\ op' # Idle
    BY <1>1, <2>1, <2>4, SmallTypes DEF Shape, Migrating, Functions
  <2>6. Stepped
    BY <1>1, <2>1, <2>3, <2>4, <2>5 DEF Stepped
  <2>7. QED  BY <2>1, <2>6, Typed, SteppedInv
<1>3. CASE StoreFinish
  <2>1. UnmarkDirty(cache) \in CacheType /\ Result("Ok") \in RetType
    BY <1>1, DirtyType, ResultType DEF Statuses
  <2>2. Stepped
    BY <1>1, <1>3, <2>1, ReturnStepped DEF StoreFinish, At
  <2>3. QED  BY <1>3, <2>2, Typed, SteppedInv DEF StoreFinish
<1>4. QED  BY <1>2, <1>3

\* The next page becomes the one to write to.
LEMMA StoreNextPageInv ==
  ASSUME IInv, StoreNextPage
  PROVE  IInv'
<1>1. op \in OpType /\ Shape(op) /\ ret \in RetType /\ keys \in KeysType
  BY Typed
<1>2. /\ op.pc = "closed" /\ op.fn = "store_item" /\ op.level < PageCount /\ op.page \in Pages
      /\ PartialClosePage(Learn(cache, {op.page}), op.page)
      /\ op' = [op EXCEPT !.pc = "opened"] /\ UNCHANGED <<flash, keys, iter, ret, faults>>
  BY <1>1 DEF StoreNextPage, At, Shape, OpType
<1>3. Learn(cache, {op.page}) \in CacheType
  BY Typed, LearnType
<1>4. cache' \in CacheType /\ io' \in IOType /\ HasData(io')
  BY <1>2, <1>3, Typed, MarkerType DEF HasData
<1>5. /\ op' \in OpType /\ op'.pc = "opened" /\ op'.fn = op.fn /\ op'.item = op.item
      /\ op'.level = op.level
  BY <1>1, <1>2 DEF OpType, PCs
<1>6. Shape(op') /\ op' # Idle
  BY <1>1, <1>2, <1>5, SmallTypes DEF Shape, Migrating, Functions
<1>7. Stepped
  BY <1>1, <1>2, <1>4, <1>5, <1>6 DEF Stepped
<1>8. QED  BY <1>2, <1>7, Typed, SteppedInv

\* The page after it is a buffer, or is migrated to become one.
LEMMA StoreBufferInv ==
  ASSUME IInv, StoreBuffer
  PROVE  IInv'
<1> DEFINE buffer == NextPage(op.page)
           state == StateOf(cache, buffer)
<1>1. op \in OpType /\ Shape(op) /\ ret \in RetType /\ keys \in KeysType
  BY Typed
<1>2. /\ op.pc = "opened" /\ io = NoIO /\ UNCHANGED <<flash, iter, faults>>
      /\ op.fn = "store_item" /\ op.level \in 0 .. PageCount /\ op.level < PageCount
      /\ IF state = "Corrupted" THEN HandleCorruption(Learn(cache, {buffer}), keys)
         ELSE /\ cache' = Learn(cache, {buffer})
              /\ op' = IF state = "Open"
                       THEN [op EXCEPT !.pc = "store_item", !.level = @ + 1, !.page = 0]
                       ELSE [op EXCEPT !.pc = "migrate", !.addr = 0, !.from = 0]
              /\ UNCHANGED <<io, keys, ret>>
  BY <1>1 DEF StoreBuffer, At, Shape, OpType
<1>3. Learn(cache, {buffer}) \in CacheType
  BY Typed, LearnType
<1> HIDE DEF buffer, state
<1>4. CASE state = "Corrupted"
  <2>1. Stepped
    BY <1>1, <1>2, <1>3, <1>4, CorruptionStepped
  <2>2. QED  BY <1>2, <2>1, Typed, SteppedInv
<1>5. CASE state = "Open"
  <2>1. /\ op' = [op EXCEPT !.pc = "store_item", !.level = @ + 1, !.page = 0]
        /\ cache' = Learn(cache, {buffer}) /\ UNCHANGED <<io, keys, ret>>
    BY <1>2, <1>5
  <2>2. op.level + 1 \in 0 .. PageCount
    BY <1>2, PageCountAssumption
  <2>3. op' \in OpType /\ op'.pc = "store_item" /\ op'.fn = op.fn /\ op'.item = op.item
    BY <1>1, <2>1, <2>2, SmallTypes DEF OpType, PCs, Functions
  <2>4. Shape(op') /\ op' # Idle
    BY <1>1, <1>2, <2>3, SmallTypes DEF Shape, Migrating, Functions
  <2>5. Stepped
    BY <1>1, <1>2, <1>3, <2>1, <2>3, <2>4, NoIOType DEF Stepped
  <2>6. QED  BY <1>2, <2>5, Typed, SteppedInv
<1>6. CASE state \notin {"Corrupted", "Open"}
  <2>1. /\ op' = [op EXCEPT !.pc = "migrate", !.addr = 0, !.from = 0]
        /\ cache' = Learn(cache, {buffer}) /\ UNCHANGED <<io, keys, ret>>
    BY <1>2, <1>6
  <2>2. /\ op' \in OpType /\ op'.pc = "migrate" /\ op'.fn = op.fn /\ op'.item = op.item
        /\ op'.level = op.level /\ op'.addr = 0 /\ op'.from = 0
    BY <1>1, <2>1, SmallTypes DEF OpType, PCs
  <2>3. Shape(op') /\ op' # Idle
    BY <1>1, <1>2, <2>2, SmallTypes DEF Shape, Migrating, Functions
  <2>4. Stepped
    BY <1>1, <1>2, <1>3, <2>1, <2>2, <2>3, NoIOType DEF Stepped
  <2>5. QED  BY <1>2, <2>4, Typed, SteppedInv
<1>7. QED  BY <1>4, <1>5, <1>6

-----------------------------------------------------------------------------
\* The source page of a migration is a page, and not the target.
LEMMA SourceType ==
  ASSUME op \in OpType
  PROVE  op.page \in Pages /\ Source \in Pages /\ Source # op.page
<1>1. op.page \in Pages
  BY DEF OpType
<1>2. Source \in Pages /\ Source = IF op.page + 1 < PageCount THEN op.page + 1 ELSE 0
  BY <1>1, SmallTypes, Around DEF Source
<1>3. QED  BY <1>1, <1>2, MapPagesAssumption, PageCountAssumption DEF Pages

\* The scan of the source page: an item is copied, or passed over.
LEMMA MigrateItemInv ==
  ASSUME IInv, MigrateItem
  PROVE  IInv'
<1> DEFINE ws == flash[Source].words
           left == PresentItems(ws, op.from)
           a == Min(left)
           key == KeyAt(ws, a)
           got == FetchWithLocation(UnmarkDirty(cache), keys, key)
<1>1. /\ op \in OpType /\ Shape(op) /\ ret \in RetType /\ op.page \in Pages /\ Source \in Pages
      /\ op.addr \in 0 .. PageWords /\ op.from \in 0 .. PageWords
  BY Typed, SourceType DEF OpType
<1>2. /\ op.pc = "migrate" /\ io = NoIO /\ left # {} /\ op.addr <= op.from
      /\ UNCHANGED <<flash, iter, faults>>
  BY <1>1 DEF MigrateItem, At, Shape
<1>3. ws \in [Addrs -> Word] /\ SizedPage(flash[Source])
  BY <1>1, Typed DEF Sized
<1>4. /\ a \in Addrs /\ a >= op.from /\ IsPresent(ws, a)
  <2>1. left \subseteq {b \in Addrs: b >= op.from /\ IsPresent(ws, b)} /\ left \in SUBSET Nat
    BY <1>1, <1>3, PresentItemsType
  <2>2. QED  BY <1>2, <2>1, MinInSet
<1>5. IF got.status # "Ok" THEN HandleCorruption(got.cache, got.keys)
      ELSE IF got.page = Source /\ got.addr = a
      THEN /\ op.addr \in Addrs
           /\ WriteHeader(got.cache, op.page, op.addr, ws[a].crc)
           /\ keys' = KeyLocated(got.keys, key, op.page, op.addr)
           /\ op' = [op EXCEPT !.pc = "copy", !.from = a]
           /\ UNCHANGED ret
      ELSE /\ cache' = got.cache /\ keys' = got.keys
           /\ op' = [op EXCEPT !.from = NextAddr(ws, a)]
           /\ UNCHANGED <<io, ret>>
  BY DEF MigrateItem
<1> HIDE DEF a, left
<1>6. /\ ws[a].crc \in Items /\ key \in Keys /\ ws[a].len = Size[ws[a].crc]
      /\ a + 1 + ws[a].len <= PageWords /\ ws[a].len \in Nat
      /\ NextAddr(ws, a) = a + 1 + ws[a].len /\ NextAddr(ws, a) \in 0 .. PageWords
  <2>1. ws[a].kind = "header"
    BY <1>4 DEF IsPresent, IsItem
  <2>2. QED  BY <1>3, <1>4, <2>1, PresentType DEF SizedPage, SizedWord
<1> HIDE DEF ws, key
<1>7. Fetched(got)
  BY <1>6, Typed, DirtyType, FetchType
<1> HIDE DEF got
<1>8. CASE got.status # "Ok"
  <2>1. Stepped
    BY <1>2, <1>5, <1>7, <1>8, CorruptionStepped DEF Fetched
  <2>2. QED  BY <1>2, <2>1, Typed, SteppedInv
<1>9. CASE got.status = "Ok" /\ got.page = Source /\ got.addr = a
  <2>1. /\ op.addr \in Addrs
        /\ WriteHeader(got.cache, op.page, op.addr, ws[a].crc)
        /\ keys' = KeyLocated(got.keys, key, op.page, op.addr)
        /\ op' = [op EXCEPT !.pc = "copy", !.from = a]
        /\ UNCHANGED ret
    BY <1>5, <1>9
  <2>2. Fits(op.addr, Size[ws[a].crc])
    BY <1>1, <1>2, <1>4, <1>6, PageWordsAssumption DEF Fits, Addrs
  <2>3. /\ cache' \in CacheType /\ io' \in IOType /\ HasData(io')
        /\ io'.cmd = "header" /\ io'.page = op.page
    BY <1>1, <1>6, <1>7, <2>1, <2>2, HeaderType DEF Fetched
  <2>4. keys' \in KeysType
    BY <1>1, <1>6, <1>7, <2>1, KeysKept DEF Fetched
  <2>5. /\ op' \in OpType /\ op'.pc = "copy" /\ op'.fn = op.fn /\ op'.item = op.item
        /\ op'.key = op.key /\ op'.level = op.level /\ op'.addr = op.addr /\ op'.from = a
        /\ op'.page = op.page /\ op'.repairing = op.repairing
    <3>1. a \in 0 .. PageWords
      BY <1>4, PageWordsAssumption DEF Addrs
    <3>2. QED  BY <1>1, <2>1, <3>1 DEF OpType, PCs
  <2>6. op.addr <= a
    BY <1>1, <1>2, <1>4, PageWordsAssumption DEF Addrs
  <2>7. Shape(op') /\ op' # Idle
    BY <1>1, <1>2, <2>5, <2>6, SmallTypes DEF Shape, Migrating, Functions
  <2>8. Copying'
    <3>1. Source' = Source /\ flash'[Source] = flash[Source]
      BY <1>2, <2>5 DEF Source
    <3>2. QED  BY <1>4, <2>3, <2>5, <3>1 DEF Copying, ws
  <2>9. QED
    BY <1>2, <2>1, <2>3, <2>4, <2>5, <2>7, <2>8, Typed DEF IInv, TypeOK, KeysType, QuietIdle, HasData
<1>10. CASE got.status = "Ok" /\ ~(got.page = Source /\ got.addr = a)
  <2>1. /\ cache' = got.cache /\ keys' = got.keys
        /\ op' = [op EXCEPT !.from = NextAddr(ws, a)]
        /\ UNCHANGED <<io, ret>>
    BY <1>5, <1>10
  <2>2. /\ op' \in OpType /\ op'.pc = "migrate" /\ op'.fn = op.fn /\ op'.item = op.item
        /\ op'.key = op.key /\ op'.level = op.level /\ op'.addr = op.addr
        /\ op'.from = NextAddr(ws, a) /\ op'.repairing = op.repairing
    BY <1>1, <1>2, <1>6, <2>1 DEF OpType
  <2>3. op.addr <= NextAddr(ws, a)
    BY <1>1, <1>2, <1>4, <1>6, PageWordsAssumption DEF Addrs
  <2>4. Shape(op') /\ op' # Idle
    BY <1>1, <1>2, <2>2, <2>3, SmallTypes DEF Shape, Migrating, Functions
  <2>5. Stepped
    BY <1>1, <1>2, <1>7, <2>1, <2>2, <2>4, NoIOType DEF Stepped, Fetched
  <2>6. QED  BY <1>2, <2>5, Typed, SteppedInv
<1>11. QED  BY <1>8, <1>9, <1>10

\* The data of a copy.
LEMMA MigrateDataInv ==
  ASSUME IInv, MigrateData
  PROVE  IInv'
<1> DEFINE ws == flash[Source].words
           item == ws[op.from].crc
<1>1. /\ op \in OpType /\ Shape(op) /\ ret \in RetType /\ keys \in KeysType
      /\ op.page \in Pages /\ Source \in Pages
      /\ op.addr \in 0 .. PageWords /\ cache \in CacheType
  BY Typed, SourceType DEF OpType
<1>2. /\ op.pc = "copy" /\ io = NoIO /\ op.addr <= op.from
      /\ op.from \in Addrs /\ IsPresent(ws, op.from)
      /\ WriteData(op.page, op.addr, item)
      /\ op' = [op EXCEPT !.pc = "migrate", !.addr = @ + 1 + Size[item],
                          !.from = NextAddr(ws, @)]
      /\ UNCHANGED <<flash, keys, iter, ret, faults>>
  <2>1. op.pc = "copy" /\ io = NoIO
    BY DEF MigrateData, At
  <2>2. op.addr <= op.from /\ op.from \in Addrs /\ IsPresent(ws, op.from)
    BY <1>1, <2>1 DEF Shape, IInv, Copying
  <2>3. /\ WriteData(op.page, op.addr, item)
        /\ op' = [op EXCEPT !.pc = "migrate", !.addr = @ + 1 + Size[item],
                            !.from = NextAddr(ws, @)]
        /\ UNCHANGED <<flash, keys, iter, ret, faults>>
    BY SMTT(30) DEF MigrateData
  <2>4. QED  BY <2>1, <2>2, <2>3
<1>3. /\ item \in Items /\ ws[op.from].len = Size[item] /\ Size[item] \in Nat
      /\ NextAddr(ws, op.from) = op.from + 1 + Size[item]
      /\ NextAddr(ws, op.from) \in 0 .. PageWords
  <2>1. ws \in [Addrs -> Word] /\ SizedPage(flash[Source]) /\ ws[op.from].kind = "header"
    BY <1>1, <1>2, Typed DEF Sized, IsPresent, IsItem
  <2>2. QED  BY <1>2, <2>1, PresentType, SizeAssumption DEF SizedPage, SizedWord
<1> HIDE DEF item, ws
<1>4. op.addr \in Addrs /\ op.addr + 1 + Size[item] \in 0 .. PageWords
  BY <1>1, <1>2, <1>3, PageWordsAssumption DEF Addrs
<1>5. cache' = cache /\ io' \in IOType /\ HasData(io')
  BY <1>1, <1>2, <1>3, <1>4, DataType
<1>6. /\ op' \in OpType /\ op'.pc = "migrate" /\ op'.fn = op.fn /\ op'.item = op.item
      /\ op'.key = op.key /\ op'.level = op.level /\ op'.addr = op.addr + 1 + Size[item]
      /\ op'.from = op.from + 1 + Size[item] /\ op'.repairing = op.repairing
  BY <1>1, <1>2, <1>3, <1>4 DEF OpType, PCs
<1>7. op'.addr <= op'.from
  BY <1>1, <1>2, <1>3, <1>6 DEF Addrs
<1>8. Shape(op') /\ op' # Idle
  BY <1>1, <1>2, <1>6, <1>7, SmallTypes DEF Shape, Migrating, Functions
<1>9. Stepped
  BY <1>1, <1>2, <1>5, <1>6, <1>8 DEF Stepped
<1>10. QED  BY <1>2, <1>9, Typed, SteppedInv

\* The source page is erased, and the migration over.
LEMMA MigrateEndInv ==
  ASSUME IInv, MigrateErase \/ MigrateDone
  PROVE  IInv'
<1>1. /\ op \in OpType /\ Shape(op) /\ ret \in RetType /\ keys \in KeysType /\ cache \in CacheType
      /\ Source \in Pages
  BY Typed, SourceType
<1>2. CASE MigrateErase
  <2>1. /\ op.pc = "migrate" /\ OpenPage(cache, Source) /\ op' = [op EXCEPT !.pc = "migrated"]
        /\ UNCHANGED <<flash, keys, iter, ret, faults>>
    BY <1>2 DEF MigrateErase, At
  <2>2. cache' \in CacheType /\ io' \in IOType /\ HasData(io')
    BY <1>1, <2>1, Typed, MarkerType DEF HasData
  <2>3. /\ op' \in OpType /\ op'.pc = "migrated" /\ op'.fn = op.fn /\ op'.item = op.item
        /\ op'.key = op.key /\ op'.level = op.level /\ op'.repairing = op.repairing
    BY <1>1, <2>1 DEF OpType, PCs
  <2>4. Shape(op') /\ op' # Idle
    BY <1>1, <2>1, <2>3, SmallTypes DEF Shape, Migrating, Functions
  <2>5. Stepped
    BY <1>1, <2>1, <2>2, <2>3, <2>4 DEF Stepped
  <2>6. QED  BY <2>1, <2>5, Typed, SteppedInv
<1>3. CASE MigrateDone
  <2>1. /\ op.pc = "migrated" /\ io = NoIO
        /\ UNCHANGED <<flash, cache, io, keys, iter, ret, faults>>
        /\ IF op.repairing THEN Restart
           ELSE op' = [op EXCEPT !.pc = "store_item", !.level = @ + 1, !.page = 0,
                                 !.addr = 0, !.from = 0]
    BY <1>3 DEF MigrateDone, At
  <2>2. CASE op.repairing
    <3>1. Stepped
      BY <1>1, <2>1, <2>2, RestartStepped
    <3>2. QED  BY <2>1, <3>1, Typed, SteppedInv
  <2>3. CASE ~op.repairing
    <3>1. op.fn = "store_item" /\ op.item \in Items /\ op.level + 1 \in 0 .. PageCount
      <4>1. op.fn = "store_item" /\ op.item \in Items /\ op.level < PageCount
        BY <1>1, <2>1, <2>3 DEF Shape, Migrating
      <4>2. QED  BY <1>1, <4>1, PageCountAssumption DEF OpType
    <3>2. op' \in OpType /\ op'.pc = "store_item" /\ op'.fn = op.fn /\ op'.item = op.item
      <4>1. op' = [op EXCEPT !.pc = "store_item", !.level = @ + 1, !.page = 0,
                             !.addr = 0, !.from = 0]
        BY <2>1, <2>3
      <4>2. "store_item" \in PCs
        BY DEF PCs, Functions
      <4>3. QED  BY <1>1, <3>1, <4>1, <4>2, SmallTypes DEF OpType
    <3>3. Shape(op') /\ op' # Idle
      BY <3>1, <3>2, SmallTypes DEF Shape, Migrating, Functions
    <3>4. Stepped
      BY <1>1, <2>1, <3>2, <3>3, NoIOType DEF Stepped
    <3>5. QED  BY <2>1, <3>4, Typed, SteppedInv
  <2>4. QED  BY <2>2, <2>3
<1>4. QED  BY <1>2, <1>3

\* try_repair.
LEMMA RepairInv ==
  ASSUME IInv, RepairPage \/ RepairMigration \/ RepairReopen
  PROVE  IInv'
<1>1. /\ op \in OpType /\ Shape(op) /\ ret \in RetType /\ keys \in KeysType /\ cache \in CacheType
      /\ op.page \in Pages
  BY Typed, SourceType
<1>2. CASE RepairPage
  <2> DEFINE p == Min(TornPages)
  <2>1. /\ op.pc = "repair" /\ TornPages # {} /\ OpenPage(Learn(cache, op.page .. p), p)
        /\ op' = [op EXCEPT !.page = p] /\ UNCHANGED <<flash, keys, iter, ret, faults>>
    BY <1>2 DEF RepairPage, At
  <2>2. p \in Pages
    <3>1. TornPages \in SUBSET Nat /\ TornPages \subseteq Pages
      BY PageCountAssumption DEF TornPages, Pages
    <3>2. QED  BY <2>1, <3>1, MinInSet
  <2> HIDE DEF p
  <2>3. Learn(cache, op.page .. p) \in CacheType
    BY Typed, LearnType
  <2>4. cache' \in CacheType /\ io' \in IOType /\ HasData(io')
    BY <2>1, <2>2, <2>3, Typed, MarkerType DEF HasData
  <2>5. /\ op' \in OpType /\ op'.pc = "repair" /\ op'.fn = op.fn /\ op'.item = op.item
        /\ op'.key = op.key /\ op'.repairing = op.repairing
    BY <1>1, <2>1, <2>2 DEF OpType
  <2>6. Shape(op') /\ op' # Idle
    BY <1>1, <2>1, <2>5, SmallTypes DEF Shape, Migrating, Functions
  <2>7. Stepped
    BY <1>1, <2>1, <2>4, <2>5, <2>6 DEF Stepped
  <2>8. QED  BY <2>1, <2>7, Typed, SteppedInv
<1>3. CASE RepairMigration
  <2> DEFINE known == Learn(cache, Pages)
  <2>1. /\ op.pc = "repair" /\ io = NoIO /\ UNCHANGED <<flash, keys, iter, ret, faults>>
        /\ \/ \E partial \in Pages: /\ OpenPage(known, partial)
                                    /\ op' = [op EXCEPT !.pc = "reopen", !.page = partial]
           \/ cache' = known /\ Restart /\ UNCHANGED io
    BY <1>3 DEF RepairMigration, At
  <2>2. known \in CacheType
    BY Typed, LearnType
  <2> HIDE DEF known
  <2>3. CASE \E partial \in Pages: /\ OpenPage(known, partial)
                                   /\ op' = [op EXCEPT !.pc = "reopen", !.page = partial]
    <3>1. cache' \in CacheType /\ io' \in IOType /\ HasData(io')
      BY <2>2, <2>3, Typed, MarkerType DEF HasData
    <3>2. /\ op' \in OpType /\ op'.pc = "reopen" /\ op'.fn = op.fn /\ op'.item = op.item
          /\ op'.key = op.key /\ op'.repairing = op.repairing
      <4>1. PICK partial \in Pages: op' = [op EXCEPT !.pc = "reopen", !.page = partial]
        BY <2>3
      <4>2. QED  BY <1>1, <4>1 DEF OpType, PCs
    <3>3. Shape(op') /\ op' # Idle
      BY <1>1, <2>1, <3>2, SmallTypes DEF Shape, Migrating, Functions
    <3>4. Stepped
      BY <1>1, <2>1, <3>1, <3>2, <3>3 DEF Stepped
    <3>5. QED  BY <2>1, <3>4, Typed, SteppedInv
  <2>4. CASE cache' = known /\ Restart /\ UNCHANGED io
    <3>1. Stepped
      BY <2>1, <2>2, <2>4, RestartStepped
    <3>2. QED  BY <2>1, <3>1, Typed, SteppedInv
  <2>5. QED  BY <2>1, <2>3, <2>4
<1>4. CASE RepairReopen
  <2>1. /\ op.pc = "reopen" /\ PartialClosePage(cache, op.page)
        /\ op' = [op EXCEPT !.pc = "migrate", !.addr = 0, !.from = 0]
        /\ UNCHANGED <<flash, keys, iter, ret, faults>>
    BY <1>4 DEF RepairReopen, At
  <2>2. cache' \in CacheType /\ io' \in IOType /\ HasData(io')
    BY <1>1, <2>1, Typed, MarkerType DEF HasData
  <2>3. /\ op' \in OpType /\ op'.pc = "migrate" /\ op'.fn = op.fn /\ op'.item = op.item
        /\ op'.key = op.key /\ op'.repairing = op.repairing /\ op'.addr = 0 /\ op'.from = 0
    BY <1>1, <2>1, SmallTypes DEF OpType, PCs
  <2>4. ~Migrating(op') /\ op' # Idle
    <3>1. op'.repairing
      BY <1>1, <2>1, <2>3 DEF Shape
    <3>2. QED  BY <2>3, <3>1, SmallTypes DEF Migrating
  <2>5. Shape(op')
    BY <1>1, <2>1, <2>3, <2>4, SmallTypes DEF Shape, Functions
  <2>6. Stepped
    BY <1>1, <2>1, <2>2, <2>3, <2>4, <2>5 DEF Stepped
  <2>7. QED  BY <2>1, <2>6, Typed, SteppedInv
<1>5. QED  BY <1>2, <1>3, <1>4

-----------------------------------------------------------------------------
\* remove_item and remove_all_items up to their first page.
LEMMA RemoveStartInv ==
  ASSUME IInv, RemoveStart
  PROVE  IInv'
<1> DEFINE all == op.fn = "remove_all_items"
           c == IF all THEN FreshCache ELSE MarkDirty(cache)
           ks == IF all THEN NoKeys ELSE KeyErased(keys, op.key)
           partial == FindFirst(c, 0, "PartialOpen")
           first == FirstToRemove(IF partial = NoPage THEN 0 ELSE partial)
<1>1. /\ op \in OpType /\ Shape(op) /\ ret \in RetType /\ keys \in KeysType /\ cache \in CacheType
  BY Typed
<1>2. /\ op.pc \in {"remove_item", "remove_all_items"} /\ io = NoIO
      /\ UNCHANGED <<flash, iter, faults>>
      /\ IF partial = CorruptedPage THEN HandleCorruption(LearnLastUsed(c), ks)
         ELSE /\ cache' = LearnLastUsed(c) /\ keys' = ks
              /\ op' = [op EXCEPT !.pc = "removing", !.page = first]
              /\ UNCHANGED <<io, ret>>
  BY DEF RemoveStart, At
<1>3. ks \in KeysType
  <2>1. keys \in Seq(SlotType) /\ Len(keys) <= KeySlots
    BY <1>1 DEF KeysType
  <2>2. KeyErased(keys, op.key) \in KeysType
    BY <2>1, KeyErasedType, KeySlotsAssumption DEF KeysType
  <2>3. QED  BY <2>2, NoKeysType
<1>4. c \in CacheType
  BY <1>1, DirtyType, FreshCacheType
<1>5. partial \in PageOrNone
  BY FirstFound
<1>6. partial # CorruptedPage => first \in Pages
  <2>1. partial # CorruptedPage => (IF partial = NoPage THEN 0 ELSE partial) \in Pages
    BY <1>5, SmallTypes DEF PageOrNone
  <2>2. QED  BY <2>1, SmallTypes, Around DEF FirstToRemove
<1> HIDE DEF c, ks, partial, first
<1>7. LearnLastUsed(c) \in CacheType
  BY <1>4, Typed, LearnType DEF LearnLastUsed
<1>8. CASE partial = CorruptedPage
  <2>1. Stepped
    BY <1>2, <1>3, <1>7, <1>8, CorruptionStepped
  <2>2. QED  BY <1>2, <2>1, Typed, SteppedInv
<1>9. CASE partial # CorruptedPage
  <2>1. /\ cache' = LearnLastUsed(c) /\ keys' = ks /\ UNCHANGED <<io, ret>>
        /\ op' = [op EXCEPT !.pc = "removing", !.page = first]
    BY <1>2, <1>9
  <2>2. /\ op' \in OpType /\ op'.pc = "removing" /\ op'.fn = op.fn /\ op'.item = op.item
        /\ op'.key = op.key
    BY <1>1, <1>6, <1>9, <2>1 DEF OpType, PCs
  <2>3. Shape(op') /\ op' # Idle
    BY <1>1, <1>2, <2>2, SmallTypes DEF Shape, Migrating, Functions
  <2>4. Stepped
    BY <1>1, <1>2, <1>3, <1>7, <2>1, <2>2, <2>3, NoIOType DEF Stepped
  <2>5. QED  BY <1>2, <2>4, Typed, SteppedInv
<1>10. QED  BY <1>8, <1>9

\* What is left to erase on a page are items that are present.
LEMMA ToRemoveType ==
  ASSUME IInv, NEW i \in Pages
  PROVE  /\ PageFrom(op.page, i) \in Pages /\ ToRemove(i) \in SUBSET Nat
         /\ \A a \in ToRemove(i):
              a \in Addrs /\ IsPresent(flash[PageFrom(op.page, i)].words, a)
<1>1. op.page \in Pages /\ op.from \in 0 .. PageWords
  BY Typed DEF OpType
<1> DEFINE p == PageFrom(op.page, i)
           ws == flash[p].words
           from == IF i = op.level THEN op.from ELSE 0
<1>2. p \in Pages
  BY <1>1, Around
<1>3. ws \in [Addrs -> Word] /\ from \in 0 .. PageWords
  BY <1>1, <1>2, Typed, SmallTypes
<1>4. ToRemove(i) \subseteq PresentItems(ws, from)
  BY DEF ToRemove
<1> HIDE DEF p, ws, from
<1>5. /\ PresentItems(ws, from) \subseteq {a \in Addrs: a >= from /\ IsPresent(ws, a)}
      /\ PresentItems(ws, from) \in SUBSET Nat
  BY <1>3, PresentItemsType
<1>6. QED  BY <1>2, <1>4, <1>5 DEF p, ws

\* The next item that is erased, or the end of the removal.
LEMMA RemoveNextInv ==
  ASSUME IInv, RemoveNext
  PROVE  IInv'
<1> DEFINE state(j) == StateOf(cache, PageFrom(op.page, j))
           stops == {j \in op.level .. PageCount - 1:
                       state(j) = "Corrupted" \/ (state(j) # "Open" /\ ToRemove(j) # {})}
           i == Min(stops)
           p == PageFrom(op.page, i)
           known == Learn(cache, {PageFrom(op.page, j): j \in op.level .. i})
<1>1. /\ op \in OpType /\ Shape(op) /\ ret \in RetType /\ keys \in KeysType /\ cache \in CacheType
      /\ op.level \in 0 .. PageCount /\ PageCount \in Nat
  <2>1. /\ op \in OpType /\ Shape(op) /\ ret \in RetType /\ keys \in KeysType /\ cache \in CacheType
    BY Typed
  <2>2. QED  BY <2>1, PageCountAssumption DEF OpType
<1>2. /\ op.pc = "removing" /\ io = NoIO /\ UNCHANGED <<flash, iter, faults>>
      /\ \/ /\ cache' = UnmarkDirty(Learn(cache, Pages))
            /\ Return(Result("Ok"))
            /\ UNCHANGED <<io, keys>>
         \/ HandleCorruption(known, keys)
         \/ \E a \in Addrs:
            /\ stops # {} /\ state(i) # "Corrupted"
            /\ a = Min(ToRemove(i))
            /\ EraseItem(known, p, a)
            /\ op' = [op EXCEPT !.level = i, !.from = NextAddr(flash[p].words, a)]
            /\ UNCHANGED <<keys, ret>>
  BY Zenon DEF RemoveNext, At
<1>3. stops # {} => i \in stops
  <2>1. stops \in SUBSET Nat
    BY <1>1
  <2>2. QED  BY <2>1, MinInSet
<1>4. stops # {} => i \in Pages /\ i \in 0 .. PageCount
                    /\ (state(i) = "Corrupted" \/ ToRemove(i) # {})
  <2>1. stops # {} => /\ i \in op.level .. PageCount - 1
                      /\ state(i) = "Corrupted" \/ ToRemove(i) # {}
    BY <1>3
  <2>2. QED  BY <1>1, <2>1 DEF Pages
<1> HIDE DEF stops, i
<1>5. known \in CacheType /\ UnmarkDirty(Learn(cache, Pages)) \in CacheType
  BY <1>1, Typed, LearnType, DirtyType
<1> HIDE DEF known
<1>6. Stepped
  <2>1. CASE /\ cache' = UnmarkDirty(Learn(cache, Pages))
             /\ Return(Result("Ok"))
             /\ UNCHANGED <<io, keys>>
    <3>1. Result("Ok") \in RetType
      BY <1>1, ResultType DEF Statuses
    <3>2. QED  BY <1>1, <1>2, <1>5, <2>1, <3>1, ReturnStepped
  <2>2. CASE HandleCorruption(known, keys)
    BY <1>1, <1>2, <1>5, <2>2, CorruptionStepped
  <2>3. CASE \E a \in Addrs:
                /\ stops # {} /\ state(i) # "Corrupted"
                /\ a = Min(ToRemove(i))
                /\ EraseItem(known, p, a)
                /\ op' = [op EXCEPT !.level = i, !.from = NextAddr(flash[p].words, a)]
                /\ UNCHANGED <<keys, ret>>
    <3>1. PICK a \in Addrs:
                /\ stops # {} /\ state(i) # "Corrupted"
                /\ a = Min(ToRemove(i))
                /\ EraseItem(known, p, a)
                /\ op' = [op EXCEPT !.level = i, !.from = NextAddr(flash[p].words, a)]
                /\ UNCHANGED <<keys, ret>>
      BY <2>3
    <3>2. i \in Pages /\ i \in 0 .. PageCount /\ ToRemove(i) # {}
      BY <1>4, <3>1
    <3>3. p \in Pages /\ IsPresent(flash[p].words, a)
      BY <3>1, <3>2, ToRemoveType, MinInSet
    <3> HIDE DEF p
    <3>4. /\ flash[p].words[a].len \in Nat /\ a + 1 + flash[p].words[a].len <= PageWords
          /\ NextAddr(flash[p].words, a) \in 0 .. PageWords
      BY <3>3, Typed, PresentType
    <3>5. cache' \in CacheType /\ io' \in IOType /\ HasData(io')
      <4>1. cache' \in CacheType
        BY <1>5, <3>1, <3>3, <3>4, NoticePointerType DEF EraseItem
      <4>2. io' = ItemIO("zero", p, a, NoItem)
        BY <3>1 DEF EraseItem
      <4>3. QED  BY <3>3, <4>1, <4>2, ItemIOType DEF Commands
    <3>6. /\ op' \in OpType /\ op'.pc = "removing" /\ op'.fn = op.fn /\ op'.item = op.item
          /\ op'.key = op.key
      BY <1>1, <1>2, <3>1, <3>2, <3>4 DEF OpType
    <3>7. Shape(op') /\ op' # Idle
      BY <1>1, <1>2, <3>6, SmallTypes DEF Shape, Migrating, Functions
    <3>8. QED  BY <1>1, <3>1, <3>5, <3>6, <3>7 DEF Stepped
  <2>4. QED  BY <1>2, <2>1, <2>2, <2>3
<1>7. QED  BY <1>2, <1>6, Typed, SteppedInv

\* fetch_all_items and erase_all.
LEMMA IterStartInv ==
  ASSUME IInv, IterStart
  PROVE  IInv'
<1> DEFINE last == LastUsed(cache)
           known == LearnLastUsed(cache)
           oldest == IF last = NoPage THEN 0 ELSE NextPage(last)
<1>1. /\ op \in OpType /\ Shape(op) /\ ret \in RetType /\ keys \in KeysType /\ cache \in CacheType
      /\ Result("Ok") \in RetType /\ Result("Corrupted") \in RetType
  BY Typed, ResultType DEF Statuses
<1>2. /\ op.pc = "fetch_all_items" /\ io = NoIO /\ UNCHANGED <<flash, faults>>
      /\ IF last = CorruptedPage
         THEN /\ \/ HandleCorruption(known, keys)
                 \/ cache' = known /\ Return(Result("Corrupted")) /\ UNCHANGED <<io, keys>>
              /\ UNCHANGED iter
         ELSE /\ cache' = IF last = NoPage THEN UnmarkDirty(known) ELSE known
              /\ iter' = [NoIter EXCEPT !.live = TRUE, !.first = oldest, !.page = oldest]
              /\ Return(Result("Ok"))
              /\ UNCHANGED <<io, keys>>
  BY DEF IterStart, At
<1>3. known \in CacheType /\ UnmarkDirty(known) \in CacheType
  BY <1>1, Typed, LearnType, DirtyType DEF LearnLastUsed
<1>4. last \in PageOrNone
  BY LastUsedType
<1>5. last # CorruptedPage => oldest \in Pages
  <2>1. last \in Pages => NextPage(last) \in Pages
    BY SmallTypes, Around
  <2>2. QED  BY <1>4, <2>1, SmallTypes DEF PageOrNone
<1> HIDE DEF last, known, oldest
<1>6. Stepped /\ iter' \in IterType
  <2>1. CASE last = CorruptedPage
    <3>1. iter' \in IterType
      BY <1>2, <2>1, Typed
    <3>2. CASE HandleCorruption(known, keys)
      BY <1>1, <1>2, <1>3, <3>1, <3>2, CorruptionStepped
    <3>3. CASE cache' = known /\ Return(Result("Corrupted")) /\ UNCHANGED <<io, keys>>
      BY <1>1, <1>2, <1>3, <3>1, <3>3, ReturnStepped
    <3>4. QED  BY <1>2, <2>1, <3>2, <3>3
  <2>2. CASE last # CorruptedPage
    <3>1. iter' = [NoIter EXCEPT !.live = TRUE, !.first = oldest, !.page = oldest]
      BY <1>2, <2>2
    <3>2. iter' \in IterType
      BY <1>5, <2>2, <3>1, SmallTypes DEF IterType
    <3>3. Stepped
      BY <1>1, <1>2, <1>3, <2>2, ReturnStepped
    <3>4. QED  BY <3>2, <3>3
  <2>3. QED  BY <2>1, <2>2
<1>7. QED  BY <1>2, <1>6, SteppedInv

\* erase_all returns.
LEMMA EraseAllFinishInv ==
  ASSUME IInv, EraseAllFinish
  PROVE  IInv'
<1>1. /\ Return(Result("Ok")) /\ io = NoIO
      /\ UNCHANGED <<flash, cache, io, keys, iter, faults>>
  BY DEF EraseAllFinish, At
<1>2. Result("Ok") \in RetType
  BY Typed, ResultType DEF Statuses
<1>3. Stepped
  BY <1>1, <1>2, Typed, ReturnStepped
<1>4. QED  BY <1>1, <1>3, Typed, SteppedInv

\* The items the iterator finds on a page are present.
LEMMA ToReturnType ==
  ASSUME IInv, NEW i \in Pages
  PROVE  /\ PageFrom(iter.first, i) \in Pages /\ ToReturn(i) \in SUBSET Nat
         /\ \A a \in ToReturn(i):
              a \in Addrs /\ IsPresent(flash[PageFrom(iter.first, i)].words, a)
<1>1. iter.first \in Pages /\ iter.addr \in 0 .. PageWords
  BY Typed DEF IterType
<1> DEFINE p == PageFrom(iter.first, i)
           ws == flash[p].words
<1>2. p \in Pages
  BY <1>1, Around
<1>3. ws \in [Addrs -> Word]
  BY <1>2, Typed
<1> HIDE DEF p
<1>4. \A from \in 0 .. PageWords:
        /\ PresentItems(ws, from) \subseteq {a \in Addrs: a >= from /\ IsPresent(ws, a)}
        /\ PresentItems(ws, from) \in SUBSET Nat
  BY <1>3, PresentItemsType
<1> HIDE DEF ws
<1>5. ToReturn(i) \in {PresentItems(ws, iter.addr), PresentItems(ws, 0), {}}
  BY DEF ToReturn, p, ws
<1>6. QED  BY <1>1, <1>2, <1>4, <1>5, SmallTypes DEF p, ws

\* MapItemIter::next.
LEMMA NextItemInv ==
  ASSUME IInv, NextItem \/ DropIter
  PROVE  IInv'
<1>1. op = Idle /\ io = NoIO /\ UNCHANGED <<flash, io, keys, op, faults>>
  BY Typed DEF NextItem, DropIter
<1>2. cache' \in CacheType
  BY Typed, LearnType DEF NextItem, DropIter
<1>3. iter' \in IterType /\ ret' \in RetType
  <2>1. CASE DropIter
    BY <2>1, Typed, SmallTypes DEF DropIter
  <2>2. CASE NextItem
    <3> DEFINE stops == {j \in PagesPassed .. PageCount - 1: ToReturn(j) # {}}
               i == Min(stops)
               p == PageFrom(iter.first, i)
               a == Min(ToReturn(i))
               item == flash[p].words[a].crc
    <3>1. CASE /\ iter' = NoIter
               /\ ret' = [fn |-> "next", status |-> "None", item |-> NoItem]
      BY <3>1, SmallTypes DEF RetType, Statuses
    <3>2. CASE /\ stops # {}
               /\ iter' = [iter EXCEPT !.page = p, !.addr = NextAddr(flash[p].words, a),
                                       !.seen[KeyOf[item]] = item]
               /\ ret' = [fn |-> "next", status |-> "Ok", item |-> item]
      <4>1. iter \in IterType /\ PageCount \in Nat \ {0}
        BY Typed, PageCountAssumption
      <4>2. PagesPassed \in Nat
        <5> DEFINE x == iter.page + PageCount - iter.first
        <5>1. x \in Int /\ PagesPassed = x % PageCount
          BY <4>1 DEF PagesPassed, IterType, Pages
        <5> HIDE DEF x
        <5>2. QED  BY <4>1, <5>1
      <4>3. i \in Pages /\ ToReturn(i) # {}
        <5>1. stops \in SUBSET Nat
          BY <4>1, <4>2
        <5>2. i \in stops
          BY <3>2, <5>1, MinInSet
        <5> HIDE DEF i
        <5>3. i \in PagesPassed .. PageCount - 1 /\ ToReturn(i) # {}
          BY <5>2
        <5>4. QED  BY <4>1, <4>2, <5>3 DEF Pages
      <4>4. p \in Pages /\ a \in Addrs /\ IsPresent(flash[p].words, a)
        <5> HIDE DEF i, stops
        <5>1. QED  BY <4>3, ToReturnType, MinInSet
      <4> HIDE DEF i, stops, a, p
      <4>5. item \in Items /\ NextAddr(flash[p].words, a) \in 0 .. PageWords
        BY <4>4, Typed, PresentType
      <4> HIDE DEF item
      <4>6. iter' \in IterType
        BY <3>2, <4>1, <4>4, <4>5 DEF IterType
      <4>7. QED  BY <3>2, <4>5, <4>6 DEF RetType, Statuses
    <3>3. QED  BY <2>2, <3>1, <3>2 DEF NextItem
  <2>3. QED  BY <2>1, <2>2
<1>4. Stepped
  BY <1>1, <1>2, <1>3, Typed, SmallTypes, NoIOType DEF Stepped
<1>5. QED  BY <1>1, <1>3, <1>4, SteppedInv

-----------------------------------------------------------------------------

\* The invariant holds in the initial state
LEMMA InitInv == Init => IInv
<1> SUFFICES ASSUME Init PROVE IInv
  OBVIOUS
<1>1. /\ flash = [p \in Pages |-> ErasedPage] /\ cache = FreshCache /\ io = NoIO
      /\ keys = NoKeys /\ op = Idle /\ iter = NoIter /\ ret = NoRet /\ faults = 0
  BY DEF Init, GenericInit
<1>2. flash \in [Pages -> Page] /\ Sized(flash)
  BY <1>1, BlankType, SizedWords DEF Sized
<1>3. faults \in 0 .. MaxFaults
  BY <1>1, MapFaultsAssumption
<1>4. Copying /\ QuietIdle /\ HasData(io) /\ io \in IOType
  BY <1>1, SmallTypes, NoIOType DEF Copying, QuietIdle
<1>5. QED
  BY <1>1, <1>2, <1>3, <1>4, SmallTypes, FreshCacheType, NoKeysType DEF IInv, TypeOK, KeysType

\* and every step keeps it.
LEMMA StepInv == IInv /\ [Next]_vars => IInv'
<1> SUFFICES ASSUME IInv, [Next]_vars PROVE IInv'
  OBVIOUS
<1>1. CASE UNCHANGED vars
  BY <1>1 DEF vars, IInv, TypeOK, Sized, Copying, Source, QuietIdle, HasData
<1>2. CASE UserCall
  BY <1>2, CallInv, NextItemInv DEF UserCall
<1>3. CASE Step
  BY <1>3, FlashDoneInv, FetchItemInv, StoreRoundInv, StoreDataInv, StoreNextPageInv,
     StoreBufferInv, MigrateItemInv, MigrateDataInv, MigrateEndInv, RepairInv, RemoveStartInv,
     RemoveNextInv, IterStartInv, EraseAllFinishInv DEF Step
<1>4. CASE Fail \/ PowerLoss
  BY <1>4, FaultInv
<1>5. QED  BY <1>1, <1>2, <1>3, <1>4 DEF Next

\* The inductive invariant, whatever calls are made and however they are cut short.
THEOREM MapInvariance == Spec => []IInv
BY InitInv, StepInv, PTL DEF Spec

\* The states of the map have their types, whatever calls are made and however they are
\* cut short: nothing is written or read outside a page, no cached pointer leaves the
\* page it points into, the key pointers stay within their slots.
THEOREM MapTypeCorrect == Spec => []TypeOK
<1>1. IInv => TypeOK
  BY DEF IInv
<1>2. QED  BY <1>1, MapInvariance, PTL

-----------------------------------------------------------------------------
(***************************************************************************)
(* The order of the pages (PageOrder), and the cached page states          *)
(* (CachedStates).                                                          *)
(*                                                                         *)
(* Neither stands alone: a call knows the order of the pages through the    *)
(* cache, and a cache that an interrupted call left dirty is right about    *)
(* what follows for one reader that does not drop it, fetch_all_items,      *)
(* because the pages it believes in are in order too.                       *)
(***************************************************************************)

\* The first time around: closed pages, the page in use, open pages.
Filling(st) ==
  \E n \in Pages: \A p \in Pages:
    st[p] \in IF p < n THEN {"Closed"} ELSE IF p = n THEN {"Open", "PartialOpen"} ELSE {"Open"}

\* Later: page q is in use, the page after it is the buffer, or half-erased to become it.
SettledOn(st, q) ==
  \A p \in Pages:
    st[p] \in IF p = q THEN {"PartialOpen"}
              ELSE IF p = NextPage(q) THEN {"Open", "Corrupted"} ELSE {"Closed"}

\* There is no buffer: a migration is due, or under way.
FullBut(st, q, states) == \A p \in Pages: st[p] \in IF p = q THEN states ELSE {"Closed"}

Ordered(st) ==
  \/ Filling(st)
  \/ \E q \in Pages: SettledOn(st, q)
  \/ \E q \in Pages: FullBut(st, q, {"Open", "PartialOpen"})

\* The page after a page is another one.
LEMMA NextIs ==
  ASSUME NEW p \in Pages
  PROVE  /\ NextPage(p) \in Pages /\ NextPage(p) # p
         /\ NextPage(p) = IF p + 1 < PageCount THEN p + 1 ELSE 0
         /\ PageCount \in Nat /\ PageCount >= 2 /\ p \in 0 .. PageCount - 1
         /\ 0 \in Pages /\ PageCount - 1 \in Pages
<1>1. PageCount \in Nat /\ PageCount >= 2 /\ p \in 0 .. PageCount - 1
  BY MapPagesAssumption, PageCountAssumption DEF Pages
<1>2. NextPage(p) \in Pages /\ NextPage(p) = IF p + 1 < PageCount THEN p + 1 ELSE 0
  BY SmallTypes, Around
<1>3. QED  BY <1>1, <1>2 DEF Pages

\* The page in use is closed, and then its buffer is used.
LEMMA CloseOrdered ==
  ASSUME NEW st \in [Pages -> PageState], Ordered(st), NEW p \in Pages,
         st[p] = "PartialOpen", st[NextPage(p)] = "Open"
  PROVE  LET closed == [st EXCEPT ![p] = "Closed"] IN
         /\ Ordered(closed) /\ closed[NextPage(p)] = "Open"
         /\ Ordered([closed EXCEPT ![NextPage(p)] = "PartialOpen"])
<1> DEFINE closed == [st EXCEPT ![p] = "Closed"]
           used == [closed EXCEPT ![NextPage(p)] = "PartialOpen"]
<1>1. /\ NextPage(p) \in Pages /\ NextPage(p) # p
      /\ NextPage(p) = IF p + 1 < PageCount THEN p + 1 ELSE 0
      /\ PageCount \in Nat /\ PageCount >= 2 /\ p \in 0 .. PageCount - 1 /\ 0 \in Pages
  BY NextIs
<1>2. /\ \A q \in Pages: closed[q] = IF q = p THEN "Closed" ELSE st[q]
      /\ \A q \in Pages: used[q] = IF q = NextPage(p) THEN "PartialOpen" ELSE closed[q]
      /\ closed[NextPage(p)] = "Open"
  BY <1>1
<1> HIDE DEF closed, used
<1>3. CASE Filling(st)
  <2>1. PICK n \in Pages: \A q \in Pages:
          st[q] \in IF q < n THEN {"Closed"} ELSE IF q = n THEN {"Open", "PartialOpen"} ELSE {"Open"}
    BY <1>3 DEF Filling
  <2>2. p = n
    BY <2>1, <1>1 DEF Pages
  <2>3. p + 1 < PageCount
    <3>1. SUFFICES ASSUME ~(p + 1 < PageCount) PROVE FALSE
      OBVIOUS
    <3>2. NextPage(p) = 0 /\ 0 < n
      BY <1>1, <2>2, <3>1
    <3>3. QED  BY <1>1, <2>1, <3>2
  <2>4. NextPage(p) = p + 1 /\ p + 1 \in Pages
    BY <1>1, <2>3
  <2>5. \A q \in Pages: (q < p + 1 <=> q < p \/ q = p)
    BY <1>1 DEF Pages
  <2>6. Filling(closed) /\ Filling(used)
    BY <1>1, <1>2, <2>1, <2>2, <2>4, <2>5 DEF Filling
  <2>7. QED  BY <1>2, <2>6 DEF Ordered, closed, used
<1>4. CASE \E q \in Pages: SettledOn(st, q)
  <2>1. SettledOn(st, p)
    BY <1>1, <1>4 DEF SettledOn
  <2>2. /\ FullBut(closed, NextPage(p), {"Open", "PartialOpen"})
        /\ FullBut(used, NextPage(p), {"Open", "PartialOpen"})
    BY <1>1, <1>2, <2>1 DEF SettledOn, FullBut
  <2>3. QED  BY <1>1, <1>2, <2>2 DEF Ordered, closed, used
<1>5. CASE \E q \in Pages: FullBut(st, q, {"Open", "PartialOpen"})
  BY <1>1, <1>5 DEF FullBut
<1>6. QED  BY <1>3, <1>4, <1>5 DEF Ordered

\* When no page is in use the first open page comes to be used.
LEMMA FirstOrdered ==
  ASSUME NEW st \in [Pages -> PageState], Ordered(st), NEW p \in Pages, st[p] = "Open",
         \A q \in Pages: st[q] # "PartialOpen",
         \A q \in Pages: q < p => st[q] # "Open"
  PROVE  Ordered([st EXCEPT ![p] = "PartialOpen"])
<1> DEFINE used == [st EXCEPT ![p] = "PartialOpen"]
<1>1. \A q \in Pages: used[q] = IF q = p THEN "PartialOpen" ELSE st[q]
  OBVIOUS
<1> HIDE DEF used
<1>2. CASE Filling(st)
  <2>1. PICK n \in Pages: \A q \in Pages:
          st[q] \in IF q < n THEN {"Closed"} ELSE IF q = n THEN {"Open", "PartialOpen"} ELSE {"Open"}
    BY <1>2 DEF Filling
  <2>2. st[n] = "Open"
    BY <2>1 DEF Pages
  <2>3. ~(p < n) /\ ~(n < p)
    BY <2>1, <2>2
  <2>4. p = n
    BY <2>3, PageCountAssumption DEF Pages
  <2>5. Filling(used)
    BY <1>1, <2>1, <2>4 DEF Filling
  <2>6. QED  BY <2>5 DEF Ordered, used
<1>3. CASE \E q \in Pages: SettledOn(st, q)
  BY <1>3 DEF SettledOn
<1>4. CASE \E q \in Pages: FullBut(st, q, {"Open", "PartialOpen"})
  <2>1. FullBut(st, p, {"Open", "PartialOpen"})
    BY <1>4 DEF FullBut
  <2>2. FullBut(used, p, {"Open", "PartialOpen"})
    BY <1>1, <2>1 DEF FullBut
  <2>3. QED  BY <2>2 DEF Ordered, used
<1>5. QED  BY <1>2, <1>3, <1>4 DEF Ordered

\* If the page in use has no buffer every other page is closed.
LEMMA NoBuffer ==
  ASSUME NEW st \in [Pages -> PageState], Ordered(st), NEW p \in Pages,
         st[p] = "PartialOpen", st[NextPage(p)] \notin {"Open", "Corrupted"}
  PROVE  \A q \in Pages: q # p => st[q] = "Closed"
<1>1. /\ NextPage(p) \in Pages /\ NextPage(p) # p
      /\ NextPage(p) = IF p + 1 < PageCount THEN p + 1 ELSE 0
      /\ PageCount \in Nat /\ PageCount >= 2 /\ p \in 0 .. PageCount - 1 /\ 0 \in Pages
  BY NextIs
<1>2. CASE Filling(st)
  <2>1. PICK n \in Pages: \A q \in Pages:
          st[q] \in IF q < n THEN {"Closed"} ELSE IF q = n THEN {"Open", "PartialOpen"} ELSE {"Open"}
    BY <1>2 DEF Filling
  <2>2. p = n
    BY <1>1, <2>1 DEF Pages
  <2>3. ~(p + 1 < PageCount)
    <3>1. SUFFICES ASSUME p + 1 < PageCount PROVE FALSE
      OBVIOUS
    <3>2. NextPage(p) = p + 1
      BY <1>1, <3>1
    <3>3. ~(NextPage(p) < n) /\ NextPage(p) # n
      BY <1>1, <2>2, <3>2
    <3>4. st[NextPage(p)] = "Open"
      BY <1>1, <2>1, <3>3
    <3>5. QED  BY <3>4
  <2>4. \A q \in Pages: q # p => q < n
    BY <1>1, <2>2, <2>3 DEF Pages
  <2>5. QED  BY <2>1, <2>4
<1>3. CASE \E q \in Pages: SettledOn(st, q)
  BY <1>1, <1>3 DEF SettledOn
<1>4. CASE \E q \in Pages: FullBut(st, q, {"Open", "PartialOpen"})
  BY <1>4 DEF FullBut
<1>5. QED  BY <1>2, <1>3, <1>4 DEF Ordered

\* Only the page after the one in use can be half-erased.
LEMMA TornIsBuffer ==
  ASSUME NEW st \in [Pages -> PageState], Ordered(st), NEW p \in Pages, st[p] = "Corrupted"
  PROVE  \E q \in Pages: SettledOn(st, q) /\ p = NextPage(q)
<1>1. ~Filling(st)
  BY DEF Filling
<1>2. ~ \E q \in Pages: FullBut(st, q, {"Open", "PartialOpen"})
  BY DEF FullBut
<1>3. QED  BY <1>1, <1>2 DEF Ordered, SettledOn

\* Pages that are not all open have one that was written to.
LEMMA UsedPage ==
  ASSUME NEW st \in [Pages -> PageState], Ordered(st), NEW p \in Pages, st[p] # "Open"
  PROVE  \E q \in Pages: st[q] \in {"Closed", "PartialOpen"}
<1>1. CASE st[p] # "Corrupted"
  BY <1>1 DEF PageState
<1>2. CASE st[p] = "Corrupted"
  BY <1>2, TornIsBuffer DEF SettledOn
<1>3. QED  BY <1>1, <1>2

\* Pages in order are in the order the invariant of the runs speaks of.
LEMMA OrderedIsPageOrder ==
  ASSUME flash \in [Pages -> Page], Ordered(Now)
  PROVE  PageOrder
<1> DEFINE Wanted(n, i) ==
      IF i < n THEN {"Closed"}
      ELSE IF i = n THEN {"PartialOpen", "Open"}
      ELSE IF i = PageCount - 1 THEN {"Open", "Corrupted"}
      ELSE {"Open"}
<1>1. SUFFICES \E first \in Pages, n \in 0 .. PageCount - 1:
                 \A p \in Pages: Now[p] \in Wanted(n, Behind(first, p))
  <2>1. ASSUME NEW first \in Pages, NEW n \in 0 .. PageCount - 1,
               \A p \in Pages: Now[p] \in Wanted(n, Behind(first, p))
        PROVE  \A i \in Pages: MarkedState(flash[PageFrom(first, i)]) \in Wanted(n, i)
    <3>1. SUFFICES ASSUME NEW i \in Pages
                   PROVE  MarkedState(flash[PageFrom(first, i)]) \in Wanted(n, i)
      OBVIOUS
    <3>2. PageFrom(first, i) \in Pages /\ Behind(first, PageFrom(first, i)) = i
      BY BehindFrom
    <3>3. Now[PageFrom(first, i)] = MarkedState(flash[PageFrom(first, i)])
      BY <3>2 DEF Now, Marks
    <3>4. QED  BY <2>1, <3>2, <3>3
  <2>2. QED  BY <2>1 DEF PageOrder
<1> HIDE DEF Wanted
<1>2. PageCount \in Nat /\ PageCount >= 2 /\ 0 \in Pages /\ Pages = 0 .. PageCount - 1
  BY MapPagesAssumption, PageCountAssumption DEF Pages
<1>3. CASE Filling(Now)
  <2>1. PICK n \in Pages: \A q \in Pages:
          Now[q] \in IF q < n THEN {"Closed"} ELSE IF q = n THEN {"Open", "PartialOpen"} ELSE {"Open"}
    BY <1>3 DEF Filling
  <2>2. \A p \in Pages: Behind(0, p) = p
    BY <1>2 DEF Behind
  <2>3. \A p \in Pages: Now[p] \in Wanted(n, Behind(0, p))
    BY <2>1, <2>2 DEF Wanted
  <2>4. QED  BY <1>2, <2>3
<1>4. CASE \E q \in Pages: FullBut(Now, q, {"Open", "PartialOpen"})
  <2>1. PICK q \in Pages: FullBut(Now, q, {"Open", "PartialOpen"})
    BY <1>4
  <2> DEFINE first == NextPage(q)
  <2>2. first \in Pages
    BY NextIs
  <2>3. \A p \in Pages: IF p = q THEN Behind(first, p) = PageCount - 1
                        ELSE Behind(first, p) < PageCount - 1
    <3>1. SUFFICES ASSUME NEW p \in Pages
                   PROVE  IF p = q THEN Behind(first, p) = PageCount - 1
                          ELSE Behind(first, p) < PageCount - 1
      OBVIOUS
    <3>2. first = IF q + 1 < PageCount THEN q + 1 ELSE 0
      BY NextIs
    <3>3. QED  BY <1>2, <3>2 DEF Behind
  <2> HIDE DEF first
  <2>4. \A p \in Pages: Now[p] \in Wanted(PageCount - 1, Behind(first, p))
    <3>1. SUFFICES ASSUME NEW p \in Pages
                   PROVE  Now[p] \in Wanted(PageCount - 1, Behind(first, p))
      OBVIOUS
    <3>2. ~(PageCount - 1 < PageCount - 1) /\ Now[p] \in IF p = q THEN {"Open", "PartialOpen"} ELSE {"Closed"}
      BY <1>2, <2>1 DEF FullBut
    <3>3. CASE p = q
      BY <2>3, <3>2, <3>3 DEF Wanted
    <3>4. CASE p # q
      BY <2>3, <3>2, <3>4 DEF Wanted
    <3>5. QED  BY <3>3, <3>4
  <2>5. PageCount - 1 \in 0 .. PageCount - 1
    BY <1>2
  <2>6. QED  BY <2>2, <2>4, <2>5
<1>5. CASE \E q \in Pages: SettledOn(Now, q)
  <2>1. PICK q \in Pages: SettledOn(Now, q)
    BY <1>5
  <2> DEFINE next == NextPage(q)
             first == NextPage(next)
  <2>2. /\ next \in Pages /\ first \in Pages /\ next # q
        /\ next = IF q + 1 < PageCount THEN q + 1 ELSE 0
        /\ first = IF next + 1 < PageCount THEN next + 1 ELSE 0
    BY NextIs
  <2> HIDE DEF next, first
  <2>3. \A p \in Pages: IF p = q THEN Behind(first, p) = PageCount - 2
                        ELSE IF p = next THEN Behind(first, p) = PageCount - 1
                        ELSE Behind(first, p) < PageCount - 2
    <3>1. SUFFICES ASSUME NEW p \in Pages
                   PROVE  IF p = q THEN Behind(first, p) = PageCount - 2
                          ELSE IF p = next THEN Behind(first, p) = PageCount - 1
                          ELSE Behind(first, p) < PageCount - 2
      OBVIOUS
    <3>2. QED  BY <1>2, <2>2 DEF Behind
  <2>4. PageCount - 1 # PageCount - 2 /\ ~(PageCount - 1 < PageCount - 2)
    BY <1>2
  <2>5. \A p \in Pages: Now[p] \in Wanted(PageCount - 2, Behind(first, p))
    <3>1. SUFFICES ASSUME NEW p \in Pages
                   PROVE  Now[p] \in Wanted(PageCount - 2, Behind(first, p))
      OBVIOUS
    <3>2. Now[p] \in IF p = q THEN {"PartialOpen"}
                     ELSE IF p = next THEN {"Open", "Corrupted"} ELSE {"Closed"}
      BY <2>1 DEF SettledOn, next
    <3>3. CASE p = q
      <4>1. Behind(first, p) = PageCount - 2 /\ ~(PageCount - 2 < PageCount - 2)
        BY <1>2, <2>3, <3>3
      <4>2. QED  BY <3>2, <3>3, <4>1 DEF Wanted
    <3>4. CASE p = next
      BY <2>2, <2>3, <2>4, <3>2, <3>4 DEF Wanted
    <3>5. CASE p # q /\ p # next
      BY <2>3, <3>2, <3>5 DEF Wanted
    <3>6. QED  BY <3>3, <3>4, <3>5
  <2>6. PageCount - 2 \in 0 .. PageCount - 1
    BY <1>2
  <2>7. QED  BY <2>2, <2>5, <2>6
<1>6. QED  BY <1>3, <1>4, <1>5 DEF Ordered

-----------------------------------------------------------------------------
(* The invariant *)

\* The calls for which the cache knows the order of the pages: erase_all does not tell
\* the cache, and remove_item does not drop a dirty one.
CarefulCalls ==
  \/ CacheKind = "none"
  \/ /\ "erase_all" \notin UserCalls
     /\ CarefulRemoves \/ "remove_item" \notin UserCalls

\* Where a call has dropped the cache it found dirty, or found it clean.
RefreshedPCs == {"repair", "reopen", "data", "closed", "opened", "migrate", "copy",
                 "migrated", "finish", "removing", "remove_item"}

Trusted ==
  \/ ~cache.dirty \/ op.retried \/ op.pc \in RefreshedPCs
  \/ op.pc = "store_item" /\ op.level > 0

\* The pages as a reader that trusts the cache sees them.
View == [p \in Pages |-> StateOf(cache, p)]

CacheInv ==
  /\ CacheKind = "none" => ~cache.dirty
  /\ Trusted => Sound(cache, Completed(io))
  /\ ~Trusted => /\ io = NoIO /\ Ordered(View)
                 /\ View = Now \/ \E p \in Pages: View[p] \in {"Closed", "PartialOpen"}
  /\ io.cmd \in {"start", "end", "erase"} =>
       CacheKind = "none" \/ (cache.dirty /\ cache.states[io.page] # "Unknown")
  /\ io.cmd = "erase_all" => CacheKind = "none"

\* While everything is erased, and until it has been, the pages are in no order.
Disturbed == op.fn = "erase_all" \/ ~Usable

\* What a call has seen of the pages, and counts on.
Planned(o, st) ==
  /\ o.pc = "closed" => st[o.page] = "Open" /\ Ordered([st EXCEPT ![o.page] = "PartialOpen"])
  /\ o.pc \in {"opened", "migrate", "copy"} => st[o.page] = "PartialOpen"
  /\ o.pc \in {"migrate", "copy"} => st[NextPage(o.page)] = "Closed"
  /\ o.pc = "reopen" => \A p \in Pages: st[p] = IF p = o.page THEN "Open" ELSE "Closed"
  /\ o.pc = "repair" => \A p \in Pages: p < o.page => st[p] # "Corrupted"

\* A page that is erased becomes the buffer, or is the page in use of an interrupted
\* migration, which is done again.
Erasing ==
  io.cmd = "erase" =>
    \/ \E q \in Pages: SettledOn(Then, q) /\ io.page = NextPage(q)
    \/ Now[io.page] = "PartialOpen" /\ Then[NextPage(io.page)] = "Closed"

OrderInv ==
  /\ Disturbed => op.pc \in {"idle", "erase_all"} /\ "erase_all" \in UserCalls
  /\ iter.live => op = Idle /\ ~Disturbed
  /\ op.pc = "erase_all" => \A p \in Pages: Then[p] = "Open"
  /\ io.cmd = "erase_all" => op.pc = "erase_all"
  /\ ~Disturbed => Ordered(Now) /\ Ordered(Then) /\ Planned(op, Then) /\ Erasing

OInv == IInv /\ CacheInv /\ OrderInv

\* What a step of a running call starts from.
LEMMA Running ==
  ASSUME OInv, io = NoIO, op.pc \notin {"idle", "erase_all"}
  PROVE  /\ flash \in [Pages -> Page] /\ cache \in CacheType /\ op \in OpType /\ Shape(op)
         /\ Now \in [Pages -> PageState] /\ Then = Now
         /\ ~Disturbed /\ op.fn \in Functions \ {"erase_all"} /\ Usable /\ ~iter.live
         /\ Ordered(Now) /\ Planned(op, Now)
         /\ CacheKind = "none" => ~cache.dirty
         /\ Trusted => Good(cache)
<1>1. /\ flash \in [Pages -> Page] /\ cache \in CacheType /\ op \in OpType /\ Shape(op)
      /\ io \in IOType /\ HasData(io)
  BY Typed DEF OInv
<1>2. Now \in [Pages -> PageState] /\ Then = Now
  BY <1>1, NowThenType
<1>3. ~Disturbed /\ ~iter.live
  BY SmallTypes DEF OInv, OrderInv
<1>4. op.fn \in Functions /\ op.fn # "erase_all" /\ Usable
  BY <1>1, <1>3 DEF Shape, Disturbed
<1>5. Ordered(Now) /\ Planned(op, Now)
  BY <1>2, <1>3 DEF OInv, OrderInv
<1>6. Completed(io) = flash
  BY <1>1, NoIOCompleted
<1>7. /\ CacheKind = "none" => ~cache.dirty
      /\ Trusted => Good(cache)
  BY <1>6 DEF OInv, CacheInv, Good
<1>8. QED  BY <1>1, <1>2, <1>3, <1>4, <1>5, <1>7

\* A step that starts no write of a marker and no erase, and leaves a good cache.
LEMMA QuietStep ==
  ASSUME OInv, io = NoIO, op.pc \notin {"idle", "erase_all"}, UNCHANGED flash,
         io' \in IOType, io'.cmd \in {"none", "header", "data", "zero"},
         cache' \in CacheType, Good(cache'), Trusted' \/ io' = NoIO,
         ~Disturbed', iter'.live => op' = Idle, op'.pc # "erase_all", Planned(op', Now)
  PROVE  CacheInv' /\ OrderInv'
<1>1. /\ flash \in [Pages -> Page] /\ Now \in [Pages -> PageState] /\ Ordered(Now) /\ Then = Now
  BY Running
<1>2. Now' = Now /\ Then' = Now
  BY <1>1, WordMarks
<1>3. Sound(cache', Completed(io)')
  <2>1. SameMarkers(Completed(io'), flash)
    BY <1>1, QuietFlash
  <2>2. Completed(io)' = Completed(io')
    BY DEF Completed
  <2>3. QED  BY <2>1, <2>2 DEF SameMarkers, Sound, Good
<1>4. View' = Now
  <2>1. \A p \in Pages: StateOf(cache', p) = Now[p]
    BY <1>1, StateIsMark DEF Now, Marks
  <2>2. View' = [p \in Pages |-> StateOf(cache', p)]
    BY DEF View, StateOf
  <2>3. QED  BY <1>1, <2>1, <2>2
<1>5. CacheInv'
  BY <1>1, <1>2, <1>3, <1>4 DEF CacheInv, Good
<1>6. OrderInv'
  BY <1>1, <1>2 DEF OrderInv, Erasing
<1>7. QED  BY <1>5, <1>6

\* A step that opens, partially closes or closes a page.
LEMMA MarkerStep ==
  ASSUME OInv, io = NoIO, op.pc \notin {"idle", "erase_all"}, UNCHANGED flash,
         NEW c \in CacheType, Good(c), NEW p \in Pages,
         OpenPage(c, p) \/ PartialClosePage(c, p) \/ ClosePage(c, p),
         Trusted', ~Disturbed', ~iter'.live, op'.pc # "erase_all",
         Ordered(Then'), Planned(op', Then'), OpenPage(c, p) => Erasing'
  PROVE  CacheInv' /\ OrderInv'
<1>1. /\ flash \in [Pages -> Page] /\ Now \in [Pages -> PageState] /\ Ordered(Now) /\ Then = Now
  BY Running
<1>2. Now' = Now /\ io'.cmd # "erase_all"
  BY <1>1, MarkerMarks
<1>3. /\ Sound(cache', Completed(io)')
      /\ CacheKind = "none" => ~cache'.dirty
      /\ io'.cmd \in {"start", "end", "erase"} => CacheKind = "none" \/ cache'.dirty
  BY <1>1, MarkerSound
<1> DEFINE d == Learn(c, {p})
<1>4. d \in CacheType
  BY <1>1, LearnType
<1>5. \A cmd: PageIO(cmd, p).cmd = cmd /\ PageIO(cmd, p).page = p
  <2>1. ASSUME NEW cmd PROVE PageIO(cmd, p).cmd = cmd
    BY DEF PageIO, NoIO
  <2>2. ASSUME NEW cmd PROVE PageIO(cmd, p).page = p
    BY DEF PageIO, NoIO
  <2>3. QED  BY <2>1, <2>2
<1>6. \/ cache' = d /\ io' = NoIO
      \/ cache' = NoticeState(c, p, "Open") /\ io' = PageIO("erase", p)
      \/ cache' = NoticeState(d, p, "PartialOpen") /\ io' = PageIO("start", p)
      \/ cache' = NoticeState(d, p, "Closed") /\ io' = PageIO("end", p)
  BY DEF OpenPage, PartialClosePage, ClosePage, d
<1> HIDE DEF d
<1>7. io'.cmd \in {"start", "end", "erase"} /\ CacheKind # "none" =>
        cache'.states[io'.page] # "Unknown"
  <2>1. SUFFICES ASSUME io'.cmd \in {"start", "end", "erase"}, CacheKind # "none"
                 PROVE  cache'.states[io'.page] # "Unknown"
    OBVIOUS
  <2>2. io' # NoIO
    BY <2>1, NoIOType
  <2>3. PICK e \in CacheType, state \in {"Open", "PartialOpen", "Closed"}:
          cache' = NoticeState(e, p, state) /\ io'.page = p
    BY <1>4, <1>5, <1>6, <2>2
  <2>4. cache'.states = [e.states EXCEPT ![p] = state] /\ e.states \in [Pages -> PageStates \cup {"Unknown"}]
    BY <2>1, <2>3, NoticeStateSound DEF CacheType
  <2>5. QED  BY <2>3, <2>4
<1>8. Erasing'
  <2>1. CASE OpenPage(c, p)
    BY <2>1
  <2>2. CASE ~OpenPage(c, p)
    <3>1. io'.cmd # "erase"
      BY <1>5, <2>2, NoIOType DEF OpenPage, PartialClosePage, ClosePage
    <3>2. QED  BY <3>1 DEF Erasing
  <2>3. QED  BY <2>1, <2>2
<1>9. CacheInv'
  BY <1>2, <1>3, <1>7 DEF CacheInv
<1>10. OrderInv'
  BY <1>1, <1>2, <1>8 DEF OrderInv
<1>11. QED  BY <1>9, <1>10

-----------------------------------------------------------------------------
\* Only the result of erase_all tells of a storage in disorder.
LEMMA Undisturbed ==
  ASSUME op'.fn # "erase_all", ret'.fn # "erase_all"
  PROVE  ~Disturbed'
BY DEF Disturbed, Usable

\* A call that returns.
LEMMA ReturnOrder ==
  ASSUME OInv, IInv', io = NoIO, op.pc \notin {"idle", "erase_all"}, UNCHANGED <<flash, io>>,
         Good(cache'), NEW r, Return(r), r.fn = op.fn
  PROVE  CacheInv' /\ OrderInv'
<1>1. op.fn # "erase_all" /\ op' = Idle /\ ret' = r
  BY Running DEF Return
<1>2. ~Disturbed'
  BY <1>1, Undisturbed, SmallTypes
<1>3. io' = NoIO /\ io' \in IOType /\ io'.cmd = "none" /\ cache' \in CacheType
  BY Typed, NoIOType DEF IInv, TypeOK
<1>4. Planned(op', Now)
  BY <1>1, SmallTypes DEF Planned
<1>5. QED  BY <1>1, <1>2, <1>3, <1>4, SmallTypes, QuietStep

\* The first Corrupted error starts a repair, the second one ends the call.
LEMMA CorruptionOrder ==
  ASSUME OInv, IInv', io = NoIO, op.pc \notin {"idle", "erase_all"}, UNCHANGED <<flash, iter>>,
         NEW c, NEW ks, HandleCorruption(c, ks), op.retried => Good(c)
  PROVE  CacheInv' /\ OrderInv'
<1>1. CASE op.retried
  <2>1. cache' = c /\ Return(Result("Corrupted")) /\ UNCHANGED io /\ Result("Corrupted").fn = op.fn
    BY <1>1 DEF HandleCorruption, Result
  <2>2. QED  BY <1>1, <2>1, ReturnOrder
<1>2. CASE ~op.retried
  <2>1. /\ cache' = FreshCache /\ UNCHANGED <<io, ret>>
        /\ op' = [op EXCEPT !.pc = "repair", !.page = 0, !.retried = TRUE, !.repairing = TRUE]
    BY <1>2 DEF HandleCorruption
  <2>2. /\ op \in OpType /\ op.fn # "erase_all" /\ Usable /\ ~iter.live
    BY Running
  <2>3. op'.pc = "repair" /\ op'.page = 0 /\ op'.retried /\ op'.fn = op.fn
    BY <2>1, <2>2 DEF OpType
  <2>4. ~Disturbed' /\ Trusted'
    BY <2>1, <2>2, <2>3 DEF Disturbed, Usable, Trusted
  <2>5. Planned(op', Now)
    BY <2>3, PageCountAssumption DEF Planned, Pages
  <2>6. io' = NoIO /\ io' \in IOType /\ io'.cmd = "none" /\ cache' \in CacheType /\ Good(cache')
    BY <2>1, NoIOType, FreshCacheType, FreshSound
  <2>7. QED  BY <2>2, <2>3, <2>4, <2>5, <2>6, QuietStep
<1>3. QED  BY <1>1, <1>2

\* The function is entered again.
LEMMA RestartOrder ==
  ASSUME OInv, IInv', io = NoIO, op.pc \notin {"idle", "erase_all"},
         UNCHANGED <<flash, io, iter, ret>>, Restart, Good(cache')
  PROVE  CacheInv' /\ OrderInv'
<1>1. op \in OpType /\ op.fn \in Functions \ {"erase_all"} /\ Usable /\ ~iter.live
  BY Running
<1>2. op'.pc = op.fn /\ op'.fn = op.fn /\ op'.retried
  BY <1>1, SmallTypes DEF Restart, OpType
<1>3. ~Disturbed' /\ Trusted'
  BY <1>1, <1>2 DEF Disturbed, Usable, Trusted
<1>4. Planned(op', Now)
  BY <1>1, <1>2 DEF Planned, Functions
<1>5. io' = NoIO /\ io' \in IOType /\ io'.cmd = "none" /\ cache' \in CacheType
  BY NoIOType DEF IInv, TypeOK
<1>6. QED  BY <1>1, <1>2, <1>3, <1>4, <1>5, QuietStep

\* The search of a key leaves a good cache behind.
LeavesGood(got) == got.cache \in CacheType /\ Good(got.cache)

\* Whatever the outcome,
LEMMA OutcomeGood ==
  ASSUME NEW status, NEW p, NEW a, NEW c \in CacheType, NEW ks, Good(c)
  PROVE  LeavesGood(Outcome(status, p, a, c, ks))
BY DEF Outcome, LeavesGood

\* and however far it goes back,
LEMMA SearchBackGood ==
  ASSUME flash \in [Pages -> Page], NEW c \in CacheType, Good(c), NEW ks, NEW k, NEW y, NEW depth
  PROVE  LeavesGood(SearchBack(c, ks, k, y, depth))
<1> DEFINE p == PageBefore(y, depth)
           found == ItemsWithKey(p, k)
           known == Learn(c, {PageBefore(y, i): i \in 1 .. depth})
           beyond == PageBefore(p, 1)
           further == Learn(known, {beyond})
<1>1. known \in CacheType /\ Good(known)
  BY LearnType, GoodOps
<1> HIDE DEF known
<1>2. further \in CacheType /\ Good(further)
  BY <1>1, LearnType, GoodOps
<1> HIDE DEF further
<1>3. /\ Good(UnmarkDirty(known)) /\ UnmarkDirty(known) \in CacheType
      /\ Good(UnmarkDirty(further)) /\ UnmarkDirty(further) \in CacheType
  BY <1>1, <1>2, GoodOps, DirtyType
<1>4. SearchBack(c, ks, k, y, depth) =
        IF found # {}
        THEN Outcome("Ok", p, Max(found), UnmarkDirty(known), KeyLocated(ks, k, p, Max(found)))
        ELSE IF StateOf(c, beyond) = "Corrupted" THEN Outcome("Corrupted", 0, 0, known, ks)
        ELSE Outcome("None", 0, 0, UnmarkDirty(further), ks)
  BY DEF SearchBack, known, further
<1> HIDE DEF p, found, beyond
<1>5. QED  BY <1>1, <1>3, <1>4, OutcomeGood

\* or from wherever it starts,
LEMMA SearchGood ==
  ASSUME flash \in [Pages -> Page], NEW c \in CacheType, Good(c), NEW ks, NEW k
  PROVE  LeavesGood(Search(c, ks, k))
<1> DEFINE known == LearnLastUsed(c)
           last == LastUsed(c)
<1>1. known \in CacheType /\ Good(known)
  BY LearnType, GoodOps DEF LearnLastUsed
<1>2. last \in PageOrNone
  BY LastUsedType
<1> HIDE DEF known, last
<1>3. Search(c, ks, k) = SearchFrom(known, ks, k, last)
  BY DEF Search, Once, known, last
<1>4. NoPage \notin Pages /\ CorruptedPage \notin Pages /\ NoPage # CorruptedPage
  BY PageCountAssumption DEF NoPage, CorruptedPage, Pages
<1>5. CASE last = CorruptedPage
  <2>1. SearchFrom(known, ks, k, last) = Outcome("Corrupted", 0, 0, known, ks)
    BY <1>4, <1>5 DEF SearchFrom
  <2>2. QED  BY <1>1, <1>3, <2>1, OutcomeGood
<1>6. CASE last = NoPage
  <2>1. SearchFrom(known, ks, k, last) = Outcome("None", 0, 0, UnmarkDirty(known), ks)
    BY <1>4, <1>6 DEF SearchFrom
  <2>2. Good(UnmarkDirty(known)) /\ UnmarkDirty(known) \in CacheType
    BY <1>1, GoodOps, DirtyType
  <2>3. QED  BY <1>3, <2>1, <2>2, OutcomeGood
<1>7. CASE last \in Pages
  <2>1. SearchFrom(known, ks, k, last) = SearchBack(known, ks, k, last, SearchDepth(known, k, last))
    BY <1>4, <1>7 DEF SearchFrom, Once
  <2>2. QED  BY <1>1, <1>3, <2>1, SearchBackGood
<1>8. QED  BY <1>2, <1>5, <1>6, <1>7 DEF PageOrNone

\* and when a key pointer is tried first.
LEMMA FetchGood ==
  ASSUME flash \in [Pages -> Page], NEW c \in CacheType, Good(c), NEW ks, NEW k
  PROVE  LeavesGood(FetchWithLocation(c, ks, k))
<1> DEFINE at == LocationOf(ks, k)
           ws == flash[at.page].words
<1>1. LeavesGood(Search(c, ks, k)) /\ LeavesGood(Search(FreshCache, NoKeys, k))
  BY SearchGood, FreshCacheType, FreshSound
<1>2. FetchWithLocation(c, ks, k) \in
        {Search(c, ks, k), Search(FreshCache, NoKeys, k),
         Outcome("Ok", at.page, at.addr, c, ks), Outcome("Corrupted", 0, 0, c, ks)}
  BY DEF FetchWithLocation
<1> HIDE DEF at
<1>3. QED  BY <1>1, <1>2, OutcomeGood

\* A call that drops a dirty cache goes on with a good one.
LEMMA RefreshGood ==
  ASSUME OInv, io = NoIO, op.pc \notin {"idle", "erase_all"}
  PROVE  Good(Refresh(cache)) /\ Refresh(cache) \in CacheType
<1>1. cache \in CacheType /\ (Trusted => Good(cache))
  BY Running
<1>2. ~cache.dirty => Trusted
  BY DEF Trusted
<1>3. QED  BY <1>1, <1>2, DirtyType, FreshSound DEF Refresh

-----------------------------------------------------------------------------
(* Calls, and what becomes of the pending operation *)

\* A call begins.
LEMMA CallBegins ==
  ASSUME NEW fn, NEW item, NEW key, Call(fn, item, key)
  PROVE  /\ op = Idle /\ ~iter.live /\ Usable /\ UNCHANGED <<flash, cache, io, iter>>
         /\ ret' = NoRet /\ fn \in UserCalls
         /\ op'.pc = fn /\ op'.fn = fn /\ ~op'.retried /\ op'.level = 0
<1>1. /\ op = Idle /\ ~iter.live /\ Usable /\ UNCHANGED <<flash, cache, io, iter>>
      /\ ret' = NoRet /\ fn \in UserCalls
      /\ op' = [Idle EXCEPT !.fn = fn, !.pc = fn, !.item = item, !.key = key]
  BY DEF Call, Begin
<1>2. op'.pc = fn /\ op'.fn = fn /\ ~op'.retried /\ op'.level = 0
  BY <1>1 DEF Idle
<1>3. QED  BY <1>1, <1>2

\* Only calls that drop a dirty cache, or only read it, are made on one.
LEMMA CallOrder ==
  ASSUME CarefulCalls, OInv, IInv',
         \/ \E i \in Items: CallStore(i)
         \/ \E k \in Keys: CallFetch(k) \/ CallRemove(k)
         \/ CallRemoveAll \/ CallIter
  PROVE  CacheInv' /\ OrderInv'
<1>1. \E fn \in Functions \ {"erase_all"}:
        /\ \E item, key: Call(fn, item, key)
        /\ fn = "remove_item" => (CarefulRemoves => ~cache.dirty)
  <2>1. CASE \E i \in Items: CallStore(i)
    BY <2>1 DEF CallStore, Functions
  <2>2. CASE \E k \in Keys: CallFetch(k)
    BY <2>2 DEF CallFetch, Functions
  <2>3. CASE \E k \in Keys: CallRemove(k)
    BY <2>3 DEF CallRemove, Functions
  <2>4. CASE CallRemoveAll
    BY <2>4 DEF CallRemoveAll, Functions
  <2>5. CASE CallIter
    BY <2>5 DEF CallIter, Functions
  <2>6. QED  BY <2>1, <2>2, <2>3, <2>4, <2>5
<1>2. PICK fn \in Functions \ {"erase_all"}:
        /\ op = Idle /\ ~iter.live /\ Usable /\ UNCHANGED <<flash, cache, io, iter>>
        /\ ret' = NoRet /\ fn \in UserCalls
        /\ op'.pc = fn /\ op'.fn = fn /\ ~op'.retried /\ op'.level = 0
        /\ fn = "remove_item" => (CarefulRemoves => ~cache.dirty)
  BY <1>1, CallBegins
<1>3. /\ Idle.fn = "none" /\ Idle.pc = "idle" /\ ~Idle.retried /\ io = NoIO /\ io.cmd = "none"
  BY <1>2, Typed, NoIOType DEF OInv, Idle
<1>4. fn = "remove_item" => ~cache.dirty
  BY <1>2 DEF CarefulCalls, OInv, CacheInv
<1>5. ~Disturbed /\ ~Disturbed'
  BY <1>2, <1>3, Undisturbed DEF Disturbed, NoRet
<1>6. Trusted' => Trusted
  BY <1>2, <1>3, <1>4 DEF Trusted, RefreshedPCs, Functions
<1>7. Trusted => Trusted'
  BY <1>2, <1>3, <1>4 DEF Trusted, RefreshedPCs
<1>8. /\ Now' = Now /\ Then' = Then /\ View' = View /\ Completed(io)' = Completed(io)
  BY <1>2 DEF Now, Then, View, Marks, StateOf, Completed
<1>9. CacheInv'
  BY <1>2, <1>3, <1>6, <1>7, <1>8 DEF OInv, CacheInv
<1>10. Planned(op', Then) /\ op'.pc # "erase_all"
  BY <1>2 DEF Planned, Functions
<1>11. OrderInv'
  BY <1>2, <1>3, <1>5, <1>8, <1>10 DEF OInv, OrderInv, Erasing
<1>12. QED  BY <1>9, <1>11

\* erase_all is only called on a storage without a cache.
LEMMA CallEraseAllOrder ==
  ASSUME CarefulCalls, OInv, IInv', CallEraseAll
  PROVE  CacheInv' /\ OrderInv'
<1>1. /\ op = Idle /\ ~iter.live /\ UNCHANGED <<flash, cache, iter>> /\ ret' = NoRet
      /\ op' = [Idle EXCEPT !.fn = "erase_all", !.pc = "erase_all"]
      /\ io' = PageIO("erase_all", 0) /\ "erase_all" \in UserCalls
  BY DEF CallEraseAll, Begin
<1>2. op'.pc = "erase_all" /\ op'.fn = "erase_all" /\ io'.cmd = "erase_all"
  BY <1>1 DEF Idle, PageIO, NoIO
<1>3. CacheKind = "none" /\ ~cache.dirty
  BY <1>1 DEF CarefulCalls, OInv, CacheInv
<1>4. Sound(cache, Completed(io)) /\ Trusted'
  BY <1>1, <1>3 DEF OInv, CacheInv, Trusted
<1>5. Sound(cache', Completed(io)')
  BY <1>1, <1>3, <1>4 DEF Sound
<1>6. CacheInv'
  BY <1>1, <1>2, <1>3, <1>4, <1>5 DEF CacheInv
<1>7. \A p \in Pages: Then'[p] = "Open"
  <2>1. Completed(io)' = [p \in Pages |-> ErasedPage]
    BY <1>2 DEF Completed
  <2>2. MarkedState(ErasedPage) = "Open"
    BY DEF MarkedState, ErasedPage
  <2>3. Then' = [p \in Pages |-> MarkedState(Completed(io)'[p])]
    BY DEF Then, Marks
  <2>4. QED  BY <2>1, <2>2, <2>3
<1>8. Disturbed'
  BY <1>2 DEF Disturbed
<1>9. OrderInv'
  BY <1>1, <1>2, <1>7, <1>8 DEF OrderInv
<1>10. QED  BY <1>6, <1>9

\* A flash operation completes.
LEMMA FlashDoneOrder ==
  ASSUME OInv, IInv', FlashDone, UNCHANGED <<keys, op, iter, ret, faults>>
  PROVE  CacheInv' /\ OrderInv'
<1>1. /\ flash' = Completed(io) /\ io # NoIO /\ io' = NoIO
      /\ UNCHANGED <<cache, op, iter, ret>>
  BY DEF FlashDone
<1>2. flash' \in [Pages -> Page] /\ io'.cmd = "none"
  BY <1>1, NoIOType DEF IInv, TypeOK
<1>3. Completed(io)' = flash'
  BY <1>1, <1>2, NoIOCompleted
<1>4. Now' = Then /\ Then' = Then
  BY <1>1, <1>3 DEF Now, Then
<1>5. Trusted /\ Trusted' /\ (Disturbed' <=> Disturbed)
  BY <1>1 DEF OInv, CacheInv, Trusted, Disturbed, Usable
<1>6. CacheInv'
  BY <1>1, <1>2, <1>3, <1>5 DEF OInv, CacheInv
<1>7. OrderInv'
  BY <1>1, <1>2, <1>4, <1>5 DEF OInv, OrderInv, Erasing
<1>8. QED  BY <1>6, <1>7

-----------------------------------------------------------------------------
\* An operation that is cut short leaves the pages in order.
LEMMA TornOrdered ==
  ASSUME OInv, ~Disturbed, NEW fl \in Interrupted(io)
  PROVE  Ordered(Marks(fl))
<1>1. /\ flash \in [Pages -> Page] /\ io \in IOType /\ HasData(io) /\ Shape(op)
      /\ io.page \in Pages
  BY Typed DEF OInv, IOType
<1>2. Ordered(Now) /\ Ordered(Then) /\ Erasing
  BY DEF OInv, OrderInv
<1>3. io.cmd # "erase_all"
  BY <1>1 DEF OInv, OrderInv, Disturbed, Shape, Functions
<1>4. CASE Marks(fl) \in {Now, Then}
  BY <1>2, <1>4
<1>5. CASE /\ Then = [Now EXCEPT ![io.page] = "Open"]
           /\ Marks(fl) = [Now EXCEPT ![io.page] = "Corrupted"]
           /\ Now[io.page] \in {"Closed", "Corrupted"} /\ io.cmd = "erase"
  <2>1. PICK q \in Pages: SettledOn(Then, q) /\ io.page = NextPage(q)
    BY <1>2, <1>5 DEF Erasing
  <2>2. Now \in [Pages -> PageState] /\ Then \in [Pages -> PageState]
    BY <1>1, NowThenType
  <2>3. \A p \in Pages: Marks(fl)[p] = IF p = io.page THEN "Corrupted" ELSE Then[p]
    BY <1>1, <1>5, <2>2
  <2>4. io.page # q
    BY <2>1, NextIs
  <2>5. SettledOn(Marks(fl), q)
    BY <2>1, <2>3, <2>4 DEF SettledOn
  <2>6. QED  BY <2>5 DEF Ordered
<1>6. QED  BY <1>1, <1>3, <1>4, <1>5, TornMarks

\* A marker that is written or a page that is erased does not leave all pages open.
LEMMA MarkerUses ==
  ASSUME OInv, ~Disturbed, io.cmd \in {"start", "end", "erase"}
  PROVE  \E p \in Pages: Then[p] \in {"Closed", "PartialOpen"}
<1>1. /\ flash \in [Pages -> Page] /\ io \in IOType /\ HasData(io) /\ io.page \in Pages
  BY Typed DEF OInv, IOType
<1>2. Then \in [Pages -> PageState] /\ Ordered(Then)
  BY <1>1, NowThenType DEF OInv, OrderInv
<1>3. SUFFICES \E p \in Pages: Then[p] # "Open"
  BY <1>2, UsedPage
<1>4. CASE io.cmd \in {"start", "end"}
  <2>1. Then[io.page] = MarkedState(Applied(flash[io.page], io))
    BY <1>1, <1>4 DEF Then, Marks, Completed
  <2>2. flash[io.page] \in Page
    BY <1>1
  <2>3. Applied(flash[io.page], io).start \/ Applied(flash[io.page], io).end
    BY <1>4, <2>2 DEF Applied, Page
  <2>4. Then[io.page] # "Open"
    BY <2>1, <2>3 DEF MarkedState
  <2>5. QED  BY <1>1, <2>4
<1>5. CASE io.cmd = "erase"
  <2>1. Erasing
    BY DEF OInv, OrderInv
  <2>2. CASE \E q \in Pages: SettledOn(Then, q)
    BY <2>2 DEF SettledOn
  <2>3. CASE Then[NextPage(io.page)] = "Closed"
    BY <1>1, <2>3, NextIs
  <2>4. QED  BY <1>5, <2>1, <2>2, <2>3 DEF Erasing
<1>6. QED  BY <1>4, <1>5

\* The cache an interrupted call leaves dirty is of pages in order.
LEMMA FailCache ==
  ASSUME CarefulCalls, OInv, IInv', flash' \in Interrupted(io), io' = NoIO,
         UNCHANGED cache, op' = Idle
  PROVE  CacheInv'
<1>1. /\ flash \in [Pages -> Page] /\ io \in IOType /\ HasData(io) /\ io.page \in Pages
      /\ flash' \in [Pages -> Page] /\ cache \in CacheType
  BY Typed DEF OInv, IInv, TypeOK, IOType
<1>2. /\ Trusted' <=> ~cache.dirty
      /\ ~cache.dirty => Trusted
  BY DEF Trusted, RefreshedPCs, Idle
<1>3. Completed(io)' = flash' /\ NoIO.cmd = "none"
  BY <1>1, NoIOCompleted, NoIOType
<1>4. \A p \in Pages: View'[p] = IF cache.states[p] = "Unknown" THEN MarkedState(flash'[p])
                                 ELSE cache.states[p]
  BY DEF View, StateOf
<1>5. \A p \in Pages: Now'[p] = MarkedState(flash'[p])
  BY DEF Now, Marks
<1>6. Now' \in [Pages -> PageState] /\ View' = [p \in Pages |-> View'[p]]
      /\ Then = [p \in Pages |-> MarkedState(Completed(io)[p])]
      /\ View = [p \in Pages |-> StateOf(cache, p)]
      /\ Now' = [p \in Pages |-> MarkedState(flash'[p])]
  BY <1>1, MarksType DEF Now, Then, View, Marks
<1>7. CASE CacheKind = "none"
  <2>1. ~cache.dirty /\ Sound(cache, Completed(io))
    BY <1>2, <1>7 DEF OInv, CacheInv
  <2>2. Sound(cache', Completed(io)')
    BY <1>7, <2>1 DEF Sound
  <2>3. QED  BY <1>2, <1>3, <1>7, <2>1, <2>2 DEF CacheInv
<1>8. CASE CacheKind # "none"
  <2>1. ~Disturbed /\ io.cmd # "erase_all" /\ Ordered(Now) /\ Ordered(Then)
    BY <1>8 DEF CarefulCalls, OInv, CacheInv, OrderInv
  <2>2. Ordered(Now')
    BY <2>1, TornOrdered DEF Now
  <2>3. CASE io.cmd \in {"none", "header", "data", "zero"}
    <3>1. \A p \in Pages: /\ MarkedState(flash'[p]) = MarkedState(flash[p])
                          /\ MarkedState(Completed(io)[p]) = MarkedState(flash[p])
      BY <1>1, <2>3, QuietFlash DEF SameMarkers
    <3>2. Trusted => /\ Sound(cache', Completed(io)')
                     /\ View' = Now'
      <4>1. SUFFICES ASSUME Trusted PROVE Sound(cache', Completed(io)') /\ View' = Now'
        OBVIOUS
      <4>2. \A p \in Pages: cache.states[p] \in {"Unknown", MarkedState(flash'[p])}
        BY <1>8, <3>1, <4>1 DEF OInv, CacheInv, Sound
      <4>3. Sound(cache', Completed(io)')
        BY <1>3, <1>8, <4>2 DEF Sound
      <4>4. \A p \in Pages: View'[p] = MarkedState(flash'[p])
        BY <1>4, <4>2
      <4>5. QED  BY <1>6, <4>3, <4>4
    <3>3. ~Trusted => View' = View /\ Now' = Now
      <4>1. \A p \in Pages: View'[p] = StateOf(cache, p)
        BY <1>4, <3>1 DEF StateOf
      <4>2. Now' = Now
        BY <1>6, <3>1 DEF Now, Marks
      <4>3. QED  BY <1>6, <4>1, <4>2
    <3>4. ~Trusted => Ordered(View) /\ (View = Now \/ \E p \in Pages: View[p] \in {"Closed", "PartialOpen"})
      BY DEF OInv, CacheInv
    <3>5. QED  BY <1>2, <1>3, <1>8, <2>2, <3>2, <3>3, <3>4 DEF CacheInv
  <2>4. CASE io.cmd \in {"start", "end", "erase"}
    <3>1. Trusted /\ cache.dirty /\ cache.states[io.page] # "Unknown"
      BY <1>3, <1>8, <2>4 DEF OInv, CacheInv
    <3>2. \A p \in Pages: p # io.page => Completed(io)[p] = flash[p] /\ flash'[p] = flash[p]
      <4>1. Completed(io) = [flash EXCEPT ![io.page] = Applied(@, io)]
        BY <2>4 DEF Completed
      <4>2. PICK pg: flash' = [flash EXCEPT ![io.page] = pg]
        BY <2>4 DEF Interrupted
      <4>3. QED  BY <1>1, <4>1, <4>2
    <3>3. \A p \in Pages: cache.states[p] \in {"Unknown", MarkedState(Completed(io)[p])}
      BY <1>8, <3>1 DEF OInv, CacheInv, Sound
    <3>4. \A p \in Pages: View'[p] = MarkedState(Completed(io)[p])
      BY <1>4, <3>1, <3>2, <3>3
    <3>5. View' = Then
      BY <1>6, <3>4
    <3>6. \E p \in Pages: View'[p] \in {"Closed", "PartialOpen"}
      BY <2>1, <2>4, <3>5, MarkerUses
    <3>7. QED  BY <1>2, <1>3, <1>8, <2>1, <3>1, <3>5, <3>6 DEF CacheInv
  <2>5. QED  BY <1>1, <2>1, <2>3, <2>4 DEF IOType, Commands
<1>9. QED  BY <1>7, <1>8

\* A fault does not hide that everything was to be erased.
LEMMA FaultDisturbs ==
  ASSUME OInv, Fail \/ PowerLoss
  PROVE  (Disturbed' <=> Disturbed) /\ op' = Idle
<1>1. op' = Idle /\ Idle.fn = "none" /\ op \in OpType /\ Shape(op)
  BY Typed DEF OInv, Fail, PowerLoss, Return, Idle
<1>2. CASE Fail
  <2>1. op # Idle /\ ret' = Result("Storage")
    BY <1>2 DEF Fail, Return
  <2>2. Disturbed => op.fn = "erase_all"
    BY <1>1, <2>1 DEF OInv, OrderInv, Shape, Functions
  <2>3. Disturbed' <=> op.fn = "erase_all"
    BY <1>1, <2>1 DEF Disturbed, Usable, Result
  <2>4. QED  BY <1>1, <2>2, <2>3 DEF Disturbed
<1>3. CASE PowerLoss
  <2>1. ret'.fn = (IF Usable THEN op.fn ELSE "erase_all") /\ ret'.status = "PowerLoss"
    BY <1>3 DEF PowerLoss, Return, Result
  <2>2. QED  BY <1>1, <2>1 DEF Disturbed, Usable
<1>4. QED  BY <1>2, <1>3

\* A call fails, or power is lost.
LEMMA FaultOrder ==
  ASSUME CarefulCalls, OInv, IInv', Fail \/ PowerLoss
  PROVE  CacheInv' /\ OrderInv'
<1>1. /\ flash' \in Interrupted(io) /\ io' = NoIO /\ op' = Idle
      /\ op \in OpType /\ Shape(op) /\ flash' \in [Pages -> Page] /\ iter' \in {iter, NoIter}
  BY Typed DEF OInv, IInv, TypeOK, Fail, PowerLoss, FlashCutShort, Return
<1>2. /\ Idle.fn = "none" /\ Idle.pc = "idle" /\ io'.cmd = "none" /\ ~NoIter.live
  BY <1>1, NoIOType DEF Idle, NoIter
<1>3. Completed(io)' = flash' /\ Then' = Now'
  <2>1. Completed(io)' = flash'
    BY <1>1, NoIOCompleted
  <2>2. QED  BY <2>1 DEF Now, Then
<1>4. Disturbed' <=> Disturbed
  BY FaultDisturbs
<1>5. CacheInv'
  <2>1. CASE Fail
    BY <1>1, <2>1, FailCache DEF Fail
  <2>2. CASE PowerLoss
    <3>1. cache' = FreshCache /\ ~cache'.dirty /\ Sound(cache', Completed(io)')
      BY <2>2, FreshSound DEF PowerLoss, FreshCache
    <3>2. QED  BY <1>2, <3>1 DEF CacheInv, Trusted
  <2>3. QED  BY <2>1, <2>2
<1>6. OrderInv'
  <2>1. ~Disturbed => Ordered(Now')
    BY <1>1, TornOrdered DEF Now
  <2>2. Planned(op', Then') /\ Erasing'
    BY <1>1, <1>2 DEF Planned, Erasing
  <2>3. iter'.live => ~Disturbed
    BY <1>1, <1>2 DEF OInv, OrderInv
  <2>4. Disturbed => "erase_all" \in UserCalls
    BY DEF OInv, OrderInv
  <2>5. QED  BY <1>1, <1>2, <1>3, <1>4, <2>1, <2>2, <2>3, <2>4 DEF OrderInv
<1>7. QED  BY <1>5, <1>6

-----------------------------------------------------------------------------
\* What is noticed of items does not concern page states.
LEMMA NoticeGood ==
  ASSUME NEW c \in CacheType, Good(c), NEW p, NEW a, NEW len
  PROVE  Good(NoticeWritten(c, p, a, len)) /\ Good(NoticeErased(c, p, a, len)) /\ Good(MarkDirty(c))
<1>1. /\ MarkDirty(c) \in CacheType /\ MarkDirty(c).states = c.states
      /\ MarkDirty(c).dirty = (CacheKind # "none")
  BY DEF MarkDirty, CacheType
<1>2. Good(MarkDirty(c))
  BY <1>1 DEF Good, Sound
<1> DEFINE Same(d) == d.states = c.states /\ (CacheKind = "none" => ~d.dirty)
<1>3. ASSUME NEW d, Same(d) PROVE Good(d)
  BY <1>3 DEF Good, Sound
<1>4. /\ \A v: Same([MarkDirty(c) EXCEPT !.written[p] = v])
      /\ \A v: Same([MarkDirty(c) EXCEPT !.erased[p] = v])
      /\ Same(MarkDirty(c))
  BY <1>1 DEF CacheType
<1> HIDE DEF Same
<1>5. /\ Same(NoticeWritten(c, p, a, len))
      /\ Same(NoticeErased(c, p, a, len))
  BY <1>4 DEF NoticeWritten, NoticeErased
<1>6. QED  BY <1>2, <1>3, <1>5

(* Every step of a running call keeps the pages in order *)

\* fetch_item.
LEMMA FetchItemOrder ==
  ASSUME OInv, IInv', FetchItem
  PROVE  CacheInv' /\ OrderInv'
<1> DEFINE got == FetchWithLocation(Refresh(cache), RefreshKeys, op.key)
<1>1. /\ op.pc = "fetch_item" /\ io = NoIO /\ UNCHANGED <<flash, iter>>
      /\ IF got.status = "Corrupted" THEN HandleCorruption(got.cache, got.keys)
         ELSE /\ cache' = got.cache /\ UNCHANGED io
              /\ Return(IF got.status = "None" THEN Result("None")
                        ELSE ItemResult(flash[got.page].words[got.addr].crc))
  BY DEF FetchItem, At
<1>2. op.pc \notin {"idle", "erase_all"}
  BY <1>1
<1>3. Good(got.cache)
  <2>1. flash \in [Pages -> Page]
    BY <1>1, <1>2, Running
  <2>2. Refresh(cache) \in CacheType /\ Good(Refresh(cache))
    BY <1>1, <1>2, RefreshGood
  <2>3. QED  BY <2>1, <2>2, FetchGood DEF LeavesGood
<1> HIDE DEF got
<1>4. CASE got.status = "Corrupted"
  BY <1>1, <1>2, <1>3, <1>4, CorruptionOrder
<1>5. CASE got.status # "Corrupted"
  <2>1. PICK r: Return(r) /\ r.fn = op.fn
    BY <1>1, <1>5 DEF Result, ItemResult
  <2>2. QED  BY <1>1, <1>2, <1>3, <1>5, <2>1, ReturnOrder
<1>6. QED  BY <1>4, <1>5

\* A round of store_item with a page in use.
LEMMA StoreOnPageOrder ==
  ASSUME OInv, IInv', NEW c \in CacheType, Good(c), NEW ks, NEW partial \in Pages,
         Now[partial] = "PartialOpen", op.pc = "store_item", io = NoIO,
         UNCHANGED <<flash, iter>>, StoreOnPage(c, ks, partial)
  PROVE  CacheInv' /\ OrderInv'
<1> DEFINE next == NextPage(partial)
           known == Learn(c, {next})
           spot == FreeSpot(known, partial)
<1>1. /\ flash \in [Pages -> Page] /\ op \in OpType /\ Shape(op)
      /\ Now \in [Pages -> PageState] /\ Then = Now /\ Ordered(Now)
      /\ ~Disturbed /\ op.fn # "erase_all" /\ Usable /\ ~iter.live
      /\ op.pc \notin {"idle", "erase_all"}
  BY Running
<1>2. known \in CacheType /\ Good(known)
  BY <1>1, LearnType, GoodOps
<1>3. next \in Pages /\ StateOf(c, next) = Now[next]
  BY <1>1, NextIs, StateIsMark DEF Now, Marks
<1> HIDE DEF known, spot
<1>4. CASE HandleCorruption(known, ks)
  BY <1>1, <1>2, <1>4, CorruptionOrder
<1>5. CASE /\ cache' = UnmarkDirty(known) /\ Return(Result("ItemTooBig")) /\ UNCHANGED io
  <2>1. Good(cache') /\ Result("ItemTooBig").fn = op.fn
    BY <1>1, <1>2, <1>5, GoodOps DEF Result
  <2>2. QED  BY <1>1, <1>5, <2>1, ReturnOrder
<1>6. CASE /\ WriteHeader(known, partial, spot, op.item)
           /\ op' = [op EXCEPT !.pc = "data", !.page = partial, !.addr = spot]
           /\ UNCHANGED ret
  <2>1. op'.pc = "data" /\ op'.fn = op.fn
    BY <1>1, <1>6 DEF OpType
  <2>2. Trusted' /\ ~Disturbed' /\ Planned(op', Now)
    BY <1>1, <1>6, <2>1 DEF Trusted, RefreshedPCs, Disturbed, Usable, Planned
  <2>3. io'.cmd = "header" /\ io' \in IOType /\ cache' \in CacheType
    BY <1>6 DEF WriteHeader, ItemIO, IInv, TypeOK
  <2>4. Good(cache')
    BY <1>2, <1>6, NoticeGood DEF WriteHeader
  <2>5. QED  BY <1>1, <2>1, <2>2, <2>3, <2>4, QuietStep
<1>7. CASE /\ StateOf(c, next) = "Open" /\ ClosePage(known, partial)
           /\ op' = [op EXCEPT !.pc = "closed", !.page = next]
           /\ UNCHANGED ret
  <2>1. op'.pc = "closed" /\ op'.page = next /\ op'.fn = op.fn
    BY <1>1, <1>3, <1>7 DEF OpType
  <2>2. Then' = [Now EXCEPT ![partial] = "Closed"]
    BY <1>1, <1>2, <1>7, MarkerMarks
  <2>3. /\ Ordered(Then') /\ Then'[next] = "Open"
        /\ Ordered([Then' EXCEPT ![next] = "PartialOpen"])
    BY <1>1, <1>3, <1>7, <2>2, CloseOrdered
  <2>4. Planned(op', Then') /\ Trusted' /\ ~Disturbed'
    BY <1>1, <1>7, <2>1, <2>3 DEF Trusted, RefreshedPCs, Disturbed, Usable, Planned
  <2>5. ~OpenPage(known, partial)
    BY <1>7, NoErase
  <2>6. QED  BY <1>1, <1>2, <1>7, <2>1, <2>3, <2>4, <2>5, MarkerStep
<1>8. QED
  BY <1>4, <1>5, <1>6, <1>7 DEF StoreOnPage, next, known, spot

\* A round that puts the first page to use.
LEMMA StoreOnFirstOrder ==
  ASSUME OInv, IInv', NEW c \in CacheType, Good(c), NEW ks, NEW partial,
         partial = NoPage => \A p \in Pages: Now[p] # "PartialOpen",
         op.pc = "store_item", io = NoIO,
         UNCHANGED <<flash, iter>>, StoreOnFirst(c, ks, partial)
  PROVE  CacheInv' /\ OrderInv'
<1>1. /\ flash \in [Pages -> Page] /\ op \in OpType
      /\ Now \in [Pages -> PageState] /\ Then = Now /\ Ordered(Now)
      /\ ~Disturbed /\ op.fn # "erase_all" /\ Usable /\ ~iter.live
      /\ op.pc \notin {"idle", "erase_all"}
  BY Running
<1>2. CASE HandleCorruption(c, ks)
  BY <1>1, <1>2, CorruptionOrder
<1>3. CASE ~HandleCorruption(c, ks)
  <2> DEFINE open == FindFirst(c, 0, "Open")
  <2>1. /\ partial = NoPage /\ open \in Pages /\ PartialClosePage(c, open)
        /\ op' = [op EXCEPT !.level = @ + 1] /\ UNCHANGED ret
    BY <1>3 DEF StoreOnFirst
  <2>2. /\ Now[open] = "Open"
        /\ \E k \in Pages: /\ open = PageFrom(0, k)
                           /\ \A j \in Pages: j < k => Now[PageFrom(0, j)] \notin {"Open", "Corrupted"}
    BY <1>1, <2>1, SmallTypes, FoundFirst
  <2> HIDE DEF open
  <2>3. \A q \in Pages: q < open => Now[q] # "Open"
    <3>1. \A j \in Pages: PageFrom(0, j) = j
      BY PageCountAssumption DEF PageFrom, Pages
    <3>2. QED  BY <2>2, <3>1
  <2>4. Then' = [Now EXCEPT ![open] = "PartialOpen"]
    BY <1>1, <2>1, <2>2, MarkerMarks
  <2>5. Ordered(Then')
    BY <1>1, <2>1, <2>2, <2>3, <2>4, FirstOrdered
  <2>6. op'.pc = "store_item" /\ op'.fn = op.fn /\ op'.level > 0
    <3>1. op'.pc = op.pc /\ op'.fn = op.fn /\ op'.level = op.level + 1 /\ op.level \in 0 .. PageCount
      BY <1>1, <2>1 DEF OpType
    <3>2. QED  BY <3>1, PageCountAssumption
  <2>7. Planned(op', Then') /\ Trusted' /\ ~Disturbed'
    BY <1>1, <2>1, <2>6 DEF Trusted, Disturbed, Usable, Planned
  <2>8. ~OpenPage(c, open)
    BY <2>1, NoErase
  <2>9. QED  BY <1>1, <2>1, <2>5, <2>6, <2>7, <2>8, MarkerStep
<1>4. QED  BY <1>2, <1>3

\* A round of store_item.
LEMMA StoreRoundOrder ==
  ASSUME OInv, IInv', StoreRound
  PROVE  CacheInv' /\ OrderInv'
<1> DEFINE c == IF op.level = 0 THEN Refresh(cache) ELSE cache
           ks == IF op.level = 0 THEN RefreshKeys ELSE keys
           known == LearnLastUsed(c)
           partial == FindFirst(c, 0, "PartialOpen")
<1>1. /\ op.pc = "store_item" /\ io = NoIO /\ UNCHANGED <<flash, iter>>
      /\ \/ cache' = UnmarkDirty(c) /\ Return(Result("FullStorage")) /\ UNCHANGED io
         \/ IF partial \in Pages THEN StoreOnPage(known, ks, partial)
            ELSE StoreOnFirst(known, ks, partial)
  BY DEF StoreRound, At
<1>2. /\ op.pc \notin {"idle", "erase_all"}
      /\ flash \in [Pages -> Page] /\ cache \in CacheType /\ op.level \in 0 .. PageCount
  BY <1>1, Running DEF OpType
<1>3. c \in CacheType /\ Good(c)
  <2>1. CASE op.level = 0
    BY <1>1, <1>2, <2>1, RefreshGood
  <2>2. CASE op.level # 0
    <3>1. Trusted
      BY <1>1, <1>2, <2>2, PageCountAssumption DEF Trusted
    <3>2. QED  BY <1>1, <1>2, <2>2, <3>1, Running
  <2>3. QED  BY <2>1, <2>2
<1> HIDE DEF c, ks
<1>4. known \in CacheType /\ Good(known) /\ Good(UnmarkDirty(c))
  BY <1>2, <1>3, LearnType, GoodOps DEF LearnLastUsed
<1>5. /\ partial \in Pages => Now[partial] = "PartialOpen"
      /\ partial = NoPage => \A p \in Pages: Now[p] # "PartialOpen"
  BY <1>2, <1>3, SmallTypes, FoundFirst
<1> HIDE DEF known, partial
<1>6. CASE cache' = UnmarkDirty(c) /\ Return(Result("FullStorage")) /\ UNCHANGED io
  <2>1. Result("FullStorage").fn = op.fn
    BY DEF Result
  <2>2. QED  BY <1>1, <1>2, <1>4, <1>6, <2>1, ReturnOrder
<1>7. CASE IF partial \in Pages THEN StoreOnPage(known, ks, partial)
           ELSE StoreOnFirst(known, ks, partial)
  BY <1>1, <1>4, <1>5, <1>7, StoreOnPageOrder, StoreOnFirstOrder
<1>8. QED  BY <1>1, <1>6, <1>7

\* The data of the item, and the end of the call.
LEMMA StoreDataOrder ==
  ASSUME OInv, IInv', StoreData \/ StoreFinish
  PROVE  CacheInv' /\ OrderInv'
<1>1. op.pc \in {"data", "finish"} /\ io = NoIO /\ UNCHANGED <<flash, iter>>
  BY DEF StoreData, StoreFinish, At
<1>2. /\ flash \in [Pages -> Page] /\ op \in OpType /\ cache \in CacheType
      /\ ~Disturbed /\ op.fn # "erase_all" /\ Usable /\ ~iter.live
  BY <1>1, Running
<1>3. Good(cache)
  BY <1>1, Running DEF Trusted, RefreshedPCs
<1>4. CASE StoreData
  <2>1. cache' = cache /\ op' = [op EXCEPT !.pc = "finish"] /\ UNCHANGED ret
        /\ io' = (IF Size[op.item] = 0 THEN NoIO ELSE ItemIO("data", op.page, op.addr, op.item))
    BY <1>4 DEF StoreData, WriteData
  <2>2. io'.cmd \in {"none", "data"} /\ io' \in IOType /\ cache' \in CacheType
    BY <2>1, NoIOType DEF ItemIO, IInv, TypeOK
  <2>3. op'.pc = "finish" /\ op'.fn = op.fn
    BY <1>2, <2>1 DEF OpType
  <2>4. Trusted' /\ ~Disturbed' /\ Planned(op', Now)
    BY <1>2, <2>1, <2>3 DEF Trusted, RefreshedPCs, Disturbed, Usable, Planned
  <2>5. QED  BY <1>1, <1>2, <1>3, <2>1, <2>2, <2>3, <2>4, QuietStep
<1>5. CASE StoreFinish
  <2>1. /\ cache' = UnmarkDirty(cache) /\ Return(Result("Ok")) /\ UNCHANGED io
        /\ Result("Ok").fn = op.fn
    BY <1>5 DEF StoreFinish, Result
  <2>2. Good(cache')
    BY <1>2, <1>3, <2>1, GoodOps
  <2>3. QED  BY <1>1, <2>1, <2>2, ReturnOrder
<1>6. QED  BY <1>4, <1>5

\* The next page becomes the one to write to.
LEMMA StoreNextPageOrder ==
  ASSUME OInv, IInv', StoreNextPage
  PROVE  CacheInv' /\ OrderInv'
<1> DEFINE known == Learn(cache, {op.page})
<1>1. /\ op.pc = "closed" /\ io = NoIO /\ UNCHANGED <<flash, iter, ret>>
      /\ PartialClosePage(known, op.page) /\ op' = [op EXCEPT !.pc = "opened"]
  BY DEF StoreNextPage, At
<1>2. /\ flash \in [Pages -> Page] /\ op \in OpType /\ op.page \in Pages /\ cache \in CacheType
      /\ ~Disturbed /\ op.fn # "erase_all" /\ Usable /\ ~iter.live /\ Then = Now
      /\ Now \in [Pages -> PageState] /\ Planned(op, Now)
  BY <1>1, Running DEF OpType
<1>3. known \in CacheType /\ Good(known)
  <2>1. Good(cache)
    BY <1>1, Running DEF Trusted, RefreshedPCs
  <2>2. QED  BY <1>2, <2>1, LearnType, GoodOps
<1> HIDE DEF known
<1>4. Now[op.page] = "Open" /\ Ordered([Now EXCEPT ![op.page] = "PartialOpen"])
  BY <1>1, <1>2 DEF Planned
<1>5. Then' = [Now EXCEPT ![op.page] = "PartialOpen"]
  BY <1>1, <1>2, <1>3, <1>4, MarkerMarks
<1>6. op'.pc = "opened" /\ op'.fn = op.fn /\ op'.page = op.page
  BY <1>1, <1>2 DEF OpType
<1>7. Planned(op', Then') /\ Trusted' /\ ~Disturbed'
  BY <1>1, <1>2, <1>5, <1>6 DEF Trusted, RefreshedPCs, Disturbed, Usable, Planned
<1>8. ~OpenPage(known, op.page)
  BY <1>1, NoErase
<1>9. QED  BY <1>1, <1>2, <1>3, <1>4, <1>5, <1>6, <1>7, <1>8, MarkerStep

\* The page after it is a buffer, or is migrated to become one.
LEMMA StoreBufferOrder ==
  ASSUME OInv, IInv', StoreBuffer
  PROVE  CacheInv' /\ OrderInv'
<1> DEFINE buffer == NextPage(op.page)
           state == StateOf(cache, buffer)
           known == Learn(cache, {buffer})
<1>1. /\ op.pc = "opened" /\ io = NoIO /\ UNCHANGED <<flash, iter>>
      /\ IF state = "Corrupted" THEN HandleCorruption(known, keys)
         ELSE /\ cache' = known
              /\ op' = IF state = "Open"
                       THEN [op EXCEPT !.pc = "store_item", !.level = @ + 1, !.page = 0]
                       ELSE [op EXCEPT !.pc = "migrate", !.addr = 0, !.from = 0]
              /\ UNCHANGED <<io, ret>>
  BY DEF StoreBuffer, At
<1>2. /\ flash \in [Pages -> Page] /\ op \in OpType /\ op.page \in Pages /\ cache \in CacheType
      /\ ~Disturbed /\ op.fn # "erase_all" /\ Usable /\ ~iter.live
      /\ Now \in [Pages -> PageState] /\ Ordered(Now) /\ Planned(op, Now)
  BY <1>1, Running DEF OpType
<1>3. Good(cache)
  BY <1>1, Running DEF Trusted, RefreshedPCs
<1>4. known \in CacheType /\ Good(known)
  BY <1>2, <1>3, LearnType, GoodOps
<1>5. Now[op.page] = "PartialOpen" /\ buffer \in Pages /\ state = Now[buffer] /\ buffer # op.page
  BY <1>1, <1>2, <1>3, NextIs, StateIsMark DEF Planned, Now, Marks
<1> HIDE DEF known, state
<1>6. CASE state = "Corrupted"
  BY <1>1, <1>4, <1>6, CorruptionOrder
<1>7. CASE state = "Open"
  <2>1. op'.pc = "store_item" /\ op'.fn = op.fn /\ op'.level > 0
    <3>1. op' = [op EXCEPT !.pc = "store_item", !.level = @ + 1, !.page = 0]
      BY <1>1, <1>7
    <3>2. op'.pc = "store_item" /\ op'.fn = op.fn /\ op'.level = op.level + 1 /\ op.level \in 0 .. PageCount
      BY <1>2, <3>1 DEF OpType
    <3>3. QED  BY <3>2, PageCountAssumption
  <2>2. Trusted' /\ ~Disturbed' /\ Planned(op', Now)
    BY <1>1, <1>2, <1>7, <2>1 DEF Trusted, Disturbed, Usable, Planned
  <2>3. QED  BY <1>1, <1>2, <1>4, <1>7, <2>1, <2>2, NoIOType, QuietStep
<1>8. CASE state \notin {"Corrupted", "Open"}
  <2>1. op'.pc = "migrate" /\ op'.fn = op.fn /\ op'.page = op.page
    <3>1. op' = [op EXCEPT !.pc = "migrate", !.addr = 0, !.from = 0]
      BY <1>1, <1>8
    <3>2. QED  BY <1>2, <3>1 DEF OpType
  <2>2. Now[buffer] = "Closed"
    BY <1>2, <1>5, <1>8, NoBuffer
  <2>3. Trusted' /\ ~Disturbed' /\ Planned(op', Now)
    BY <1>1, <1>2, <1>5, <1>8, <2>1, <2>2 DEF Trusted, RefreshedPCs, Disturbed, Usable, Planned
  <2>4. QED  BY <1>1, <1>2, <1>4, <1>8, <2>1, <2>3, NoIOType, QuietStep
<1>9. QED  BY <1>6, <1>7, <1>8

-----------------------------------------------------------------------------
\* A migration looks at an item, and copies it if it is the newest.
LEMMA MigrateItemOrder ==
  ASSUME OInv, IInv', MigrateItem
  PROVE  CacheInv' /\ OrderInv'
<1> DEFINE ws == flash[Source].words
           a == Min(PresentItems(ws, op.from))
           got == FetchWithLocation(UnmarkDirty(cache), keys, KeyAt(ws, a))
<1>1. /\ op.pc = "migrate" /\ io = NoIO /\ UNCHANGED <<flash, iter>>
      /\ IF got.status # "Ok" THEN HandleCorruption(got.cache, got.keys)
         ELSE IF got.page = Source /\ got.addr = a
         THEN /\ WriteHeader(got.cache, op.page, op.addr, ws[a].crc)
              /\ op' = [op EXCEPT !.pc = "copy", !.from = a] /\ UNCHANGED ret
         ELSE /\ cache' = got.cache /\ op' = [op EXCEPT !.from = NextAddr(ws, a)]
              /\ UNCHANGED <<io, ret>>
  BY DEF MigrateItem, At
<1>2. /\ flash \in [Pages -> Page] /\ op \in OpType /\ cache \in CacheType
      /\ ~Disturbed /\ op.fn # "erase_all" /\ Usable /\ ~iter.live
      /\ Planned(op, Now)
  BY <1>1, Running
<1>3. got.cache \in CacheType /\ Good(got.cache)
  <2>1. Good(cache)
    BY <1>1, Running DEF Trusted, RefreshedPCs
  <2>2. UnmarkDirty(cache) \in CacheType /\ Good(UnmarkDirty(cache))
    BY <1>2, <2>1, DirtyType, GoodOps
  <2>3. QED  BY <1>2, <2>2, FetchGood DEF LeavesGood
<1> HIDE DEF got, a, ws
<1>4. /\ UNCHANGED ret /\ op'.pc \in {"migrate", "copy"}
      /\ op'.fn = op.fn /\ op'.page = op.page
      => Trusted' /\ ~Disturbed' /\ Planned(op', Now)
  BY <1>1, <1>2 DEF Trusted, RefreshedPCs, Disturbed, Usable, Planned
<1>5. CASE got.status # "Ok"
  BY <1>1, <1>3, <1>5, CorruptionOrder
<1>6. CASE got.status = "Ok" /\ got.page = Source /\ got.addr = a
  <2>1. op'.pc = "copy" /\ op'.fn = op.fn /\ op'.page = op.page
    BY <1>1, <1>2, <1>6 DEF OpType
  <2>2. io'.cmd = "header" /\ io' \in IOType /\ cache' \in CacheType
    BY <1>1, <1>6 DEF WriteHeader, ItemIO, IInv, TypeOK
  <2>3. Good(cache')
    BY <1>1, <1>3, <1>6, NoticeGood DEF WriteHeader
  <2>4. Trusted' /\ ~Disturbed' /\ Planned(op', Now)
    BY <1>1, <1>4, <1>6, <2>1
  <2>5. QED  BY <1>1, <1>2, <2>1, <2>2, <2>3, <2>4, QuietStep
<1>7. CASE got.status = "Ok" /\ ~(got.page = Source /\ got.addr = a)
  <2>1. op'.pc = "migrate" /\ op'.fn = op.fn /\ op'.page = op.page /\ cache' = got.cache
    BY <1>1, <1>2, <1>7 DEF OpType
  <2>2. QED  BY <1>1, <1>2, <1>3, <1>4, <1>7, <2>1, NoIOType, QuietStep
<1>8. QED  BY <1>5, <1>6, <1>7

\* The data of the copy.
LEMMA MigrateDataOrder ==
  ASSUME OInv, IInv', MigrateData
  PROVE  CacheInv' /\ OrderInv'
<1>1. /\ op.pc = "copy" /\ io = NoIO /\ UNCHANGED <<flash, cache, iter, ret>>
      /\ \E a, i: io' = (IF Size[i] = 0 THEN NoIO ELSE ItemIO("data", op.page, a, i))
      /\ \E a, b: op' = [op EXCEPT !.pc = "migrate", !.addr = a, !.from = b]
  BY DEF MigrateData, At, WriteData
<1>2. /\ op \in OpType /\ Good(cache) /\ cache \in CacheType
      /\ ~Disturbed /\ op.fn # "erase_all" /\ Usable /\ ~iter.live
      /\ Planned(op, Now)
  BY <1>1, Running DEF Trusted, RefreshedPCs
<1>3. io'.cmd \in {"none", "data"} /\ io' \in IOType
  BY <1>1, NoIOType DEF ItemIO, IInv, TypeOK
<1>4. op'.pc = "migrate" /\ op'.fn = op.fn /\ op'.page = op.page
  BY <1>1, <1>2 DEF OpType
<1>5. Trusted' /\ ~Disturbed' /\ Planned(op', Now)
  BY <1>1, <1>2, <1>4 DEF Trusted, RefreshedPCs, Disturbed, Usable, Planned
<1>6. QED  BY <1>1, <1>2, <1>3, <1>4, <1>5, QuietStep, SMTT(30)

\* Then the source page is erased and becomes the buffer; the call goes on.
LEMMA MigrateEndOrder ==
  ASSUME OInv, IInv', MigrateErase \/ MigrateDone
  PROVE  CacheInv' /\ OrderInv'
<1>1. op.pc \in {"migrate", "migrated"} /\ io = NoIO /\ UNCHANGED <<flash, iter, ret>>
  BY DEF MigrateErase, MigrateDone, At
<1>2. /\ flash \in [Pages -> Page] /\ op \in OpType /\ op.page \in Pages /\ cache \in CacheType
      /\ Good(cache) /\ ~Disturbed /\ op.fn # "erase_all" /\ Usable /\ ~iter.live
      /\ Now \in [Pages -> PageState] /\ Ordered(Now) /\ Planned(op, Now)
  BY <1>1, Running DEF Trusted, RefreshedPCs, OpType
<1>3. CASE MigrateErase
  <2>1. /\ op.pc = "migrate" /\ OpenPage(cache, Source) /\ op' = [op EXCEPT !.pc = "migrated"]
        /\ Source = NextPage(op.page) /\ Source \in Pages /\ Source # op.page
    BY <1>2, <1>3, NextIs DEF MigrateErase, At, Source
  <2>2. Now[op.page] = "PartialOpen" /\ Now[Source] = "Closed"
    BY <1>2, <2>1 DEF Planned
  <2>3. \A q \in Pages: q # op.page => Now[q] = "Closed"
    BY <1>2, <2>1, <2>2, NoBuffer
  <2>4. Then' = [Now EXCEPT ![Source] = "Open"]
    BY <1>1, <1>2, <2>1, MarkerMarks
  <2>5. SettledOn(Then', op.page)
    BY <1>2, <2>1, <2>2, <2>3, <2>4 DEF SettledOn
  <2>6. op'.pc = "migrated" /\ op'.fn = op.fn
    BY <1>2, <2>1 DEF OpType
  <2>7. Trusted' /\ ~Disturbed' /\ Planned(op', Then')
    BY <1>1, <1>2, <2>6 DEF Trusted, RefreshedPCs, Disturbed, Usable, Planned
  <2>8. Erasing'
    <3>1. io'.page = NextPage(op.page)
      BY <2>1 DEF OpenPage, PageIO, NoIO
    <3>2. QED  BY <1>2, <2>5, <3>1 DEF Erasing
  <2>9. QED  BY <1>1, <1>2, <2>1, <2>5, <2>6, <2>7, <2>8, MarkerStep DEF Ordered
<1>4. CASE MigrateDone
  <2>1. op.pc = "migrated" /\ UNCHANGED <<cache, io>>
        /\ IF op.repairing THEN Restart
           ELSE op' = [op EXCEPT !.pc = "store_item", !.level = @ + 1, !.page = 0,
                                 !.addr = 0, !.from = 0]
    BY <1>4 DEF MigrateDone, At
  <2>2. CASE op.repairing
    BY <1>1, <1>2, <2>1, <2>2, RestartOrder
  <2>3. CASE ~op.repairing
    <3>1. op'.pc = "store_item" /\ op'.fn = op.fn /\ op'.level > 0
      <4>1. op'.pc = "store_item" /\ op'.fn = op.fn /\ op'.level = op.level + 1 /\ op.level \in 0 .. PageCount
        BY <1>2, <2>1, <2>3 DEF OpType
      <4>2. QED  BY <4>1, PageCountAssumption
    <3>2. Trusted' /\ ~Disturbed' /\ Planned(op', Now)
      BY <1>1, <1>2, <3>1 DEF Trusted, Disturbed, Usable, Planned
    <3>3. QED  BY <1>1, <1>2, <2>1, <3>1, <3>2, NoIOType, QuietStep
  <2>4. QED  BY <2>2, <2>3
<1>5. QED  BY <1>3, <1>4

\* A half-erased page is erased.
LEMMA RepairPageOrder ==
  ASSUME OInv, IInv', RepairPage
  PROVE  CacheInv' /\ OrderInv'
<1> DEFINE p == Min(TornPages)
           known == Learn(cache, op.page .. p)
<1>1. /\ op.pc = "repair" /\ io = NoIO /\ UNCHANGED <<flash, iter, ret>> /\ TornPages # {}
      /\ OpenPage(known, p) /\ op' = [op EXCEPT !.page = p]
  BY DEF RepairPage, At
<1>2. /\ flash \in [Pages -> Page] /\ op \in OpType /\ cache \in CacheType
      /\ Good(cache) /\ ~Disturbed /\ op.fn # "erase_all" /\ Usable /\ ~iter.live
      /\ Now \in [Pages -> PageState] /\ Then = Now /\ Ordered(Now)
  BY <1>1, Running DEF Trusted, RefreshedPCs
<1>3. p \in Pages /\ Now[p] = "Corrupted"
  <2>1. TornPages \in SUBSET Nat
    BY PageCountAssumption DEF TornPages, Pages
  <2>2. p \in TornPages
    BY <1>1, <2>1, MinInSet
  <2>3. p \in Pages /\ StateOf(cache, p) = "Corrupted"
    BY <2>2 DEF TornPages
  <2>4. QED  BY <1>2, <2>3, StateIsMark DEF Now, Marks
<1>4. known \in CacheType /\ Good(known)
  BY <1>2, LearnType, GoodOps
<1> HIDE DEF p, known
<1>5. PICK q \in Pages: SettledOn(Now, q) /\ p = NextPage(q)
  BY <1>2, <1>3, TornIsBuffer
<1>6. Then' = [Now EXCEPT ![p] = "Open"]
  BY <1>1, <1>2, <1>3, <1>4, MarkerMarks
<1>7. SettledOn(Then', q) /\ \A r \in Pages: Then'[r] # "Corrupted"
  BY <1>2, <1>3, <1>5, <1>6, NextIs DEF SettledOn
<1>8. op'.pc = "repair" /\ op'.fn = op.fn
  BY <1>1, <1>2 DEF OpType
<1>9. Trusted' /\ ~Disturbed' /\ Planned(op', Then')
  BY <1>1, <1>2, <1>7, <1>8 DEF Trusted, RefreshedPCs, Disturbed, Usable, Planned
<1>10. Erasing'
  <2>1. io'.page = NextPage(q)
    BY <1>1, <1>5 DEF OpenPage, PageIO, NoIO
  <2>2. QED  BY <1>7, <2>1 DEF Erasing
<1>11. QED  BY <1>1, <1>2, <1>3, <1>4, <1>7, <1>8, <1>9, <1>10, MarkerStep DEF Ordered

\* The page in use of an interrupted migration is erased, to migrate to it again.
LEMMA RepairMigrationOrder ==
  ASSUME OInv, IInv', RepairMigration
  PROVE  CacheInv' /\ OrderInv'
<1> DEFINE known == Learn(cache, Pages)
           p == FindFirst(known, 0, "PartialOpen")
<1>1. /\ op.pc = "repair" /\ io = NoIO /\ UNCHANGED <<flash, iter, ret>> /\ TornPages = {}
      /\ IF p \in Pages /\ StateOf(known, NextPage(p)) # "Open"
         THEN OpenPage(known, p) /\ op' = [op EXCEPT !.pc = "reopen", !.page = p]
         ELSE cache' = known /\ Restart /\ UNCHANGED io
  BY DEF RepairMigration, At
<1>2. /\ flash \in [Pages -> Page] /\ op \in OpType /\ op.page \in Pages /\ cache \in CacheType
      /\ Good(cache) /\ ~Disturbed /\ op.fn # "erase_all" /\ Usable /\ ~iter.live
      /\ Now \in [Pages -> PageState] /\ Then = Now /\ Ordered(Now) /\ Planned(op, Now)
  BY <1>1, Running DEF Trusted, RefreshedPCs, OpType
<1>3. known \in CacheType /\ Good(known)
  BY <1>2, LearnType, GoodOps
<1> HIDE DEF known
<1>4. p \in Pages => Now[p] = "PartialOpen"
  BY <1>2, <1>3, SmallTypes, FoundFirst
<1> HIDE DEF p
<1>5. \A r \in Pages: Now[r] # "Corrupted"
  <2>1. SUFFICES ASSUME NEW r \in Pages, r >= op.page PROVE Now[r] # "Corrupted"
    BY <1>1, <1>2, PageCountAssumption DEF Planned, Pages
  <2>2. StateOf(cache, r) # "Corrupted"
    BY <1>1, <2>1 DEF TornPages
  <2>3. QED  BY <1>2, <2>2, StateIsMark DEF Now, Marks
<1>6. CASE p \in Pages /\ StateOf(known, NextPage(p)) # "Open"
  <2>1. NextPage(p) \in Pages /\ NextPage(p) # p
    BY <1>6, NextIs
  <2>2. Now[NextPage(p)] \notin {"Open", "Corrupted"}
    BY <1>2, <1>3, <1>5, <1>6, <2>1, StateIsMark DEF Now, Marks
  <2>3. \A q \in Pages: q # p => Now[q] = "Closed"
    BY <1>2, <1>4, <1>6, <2>2, NoBuffer
  <2>4. Then' = [Now EXCEPT ![p] = "Open"]
    BY <1>1, <1>2, <1>3, <1>6, MarkerMarks
  <2>5. \A q \in Pages: Then'[q] = IF q = p THEN "Open" ELSE "Closed"
    BY <1>2, <1>6, <2>3, <2>4
  <2>6. Ordered(Then')
    BY <1>6, <2>5 DEF Ordered, FullBut
  <2>7. op'.pc = "reopen" /\ op'.fn = op.fn /\ op'.page = p
    BY <1>1, <1>2, <1>6 DEF OpType
  <2>8. Trusted' /\ ~Disturbed' /\ Planned(op', Then')
    BY <1>1, <1>2, <2>5, <2>7 DEF Trusted, RefreshedPCs, Disturbed, Usable, Planned
  <2>9. Erasing'
    <3>1. io'.page = p
      BY <1>1, <1>6 DEF OpenPage, PageIO, NoIO
    <3>2. Now' = Now
      BY <1>1 DEF Now
    <3>3. QED  BY <1>4, <1>6, <2>1, <2>5, <3>1, <3>2 DEF Erasing
  <2>10. QED  BY <1>1, <1>2, <1>3, <1>6, <2>6, <2>7, <2>8, <2>9, MarkerStep
<1>7. CASE ~(p \in Pages /\ StateOf(known, NextPage(p)) # "Open")
  BY <1>1, <1>3, <1>7, RestartOrder
<1>8. QED  BY <1>6, <1>7

\* And put to use again.
LEMMA RepairReopenOrder ==
  ASSUME OInv, IInv', RepairReopen
  PROVE  CacheInv' /\ OrderInv'
<1>1. /\ op.pc = "reopen" /\ io = NoIO /\ UNCHANGED <<flash, iter, ret>>
      /\ PartialClosePage(cache, op.page) /\ op' = [op EXCEPT !.pc = "migrate", !.addr = 0, !.from = 0]
  BY DEF RepairReopen, At
<1>2. /\ flash \in [Pages -> Page] /\ op \in OpType /\ op.page \in Pages /\ cache \in CacheType
      /\ Good(cache) /\ ~Disturbed /\ op.fn # "erase_all" /\ Usable /\ ~iter.live
      /\ Now \in [Pages -> PageState] /\ Then = Now /\ Planned(op, Now)
  BY <1>1, Running DEF Trusted, RefreshedPCs, OpType
<1>3. \A q \in Pages: Now[q] = IF q = op.page THEN "Open" ELSE "Closed"
  BY <1>1, <1>2 DEF Planned
<1>4. Then' = [Now EXCEPT ![op.page] = "PartialOpen"]
  BY <1>1, <1>2, <1>3, MarkerMarks
<1>5. \A q \in Pages: Then'[q] = IF q = op.page THEN "PartialOpen" ELSE "Closed"
  BY <1>2, <1>3, <1>4
<1>6. Ordered(Then')
  BY <1>2, <1>5 DEF Ordered, FullBut
<1>7. op'.pc = "migrate" /\ op'.fn = op.fn /\ op'.page = op.page
  BY <1>1, <1>2 DEF OpType
<1>8. Trusted' /\ ~Disturbed' /\ Planned(op', Then')
  BY <1>1, <1>2, <1>5, <1>7, NextIs DEF Trusted, RefreshedPCs, Disturbed, Usable, Planned
<1>9. ~OpenPage(cache, op.page)
  BY <1>1, NoErase
<1>10. QED  BY <1>1, <1>2, <1>6, <1>7, <1>8, <1>9, MarkerStep

-----------------------------------------------------------------------------
\* A removal begins: only the cache is touched.
LEMMA RemoveStartOrder ==
  ASSUME OInv, IInv', RemoveStart
  PROVE  CacheInv' /\ OrderInv'
<1> DEFINE all == op.fn = "remove_all_items"
           c == IF all THEN FreshCache ELSE MarkDirty(cache)
           known == LearnLastUsed(c)
           partial == FindFirst(c, 0, "PartialOpen")
<1>1. /\ op.pc \in {"remove_item", "remove_all_items"} /\ io = NoIO /\ UNCHANGED <<flash, iter>>
      /\ IF partial = CorruptedPage THEN \E ks: HandleCorruption(known, ks)
         ELSE /\ cache' = known /\ UNCHANGED <<io, ret>>
              /\ \E p: op' = [op EXCEPT !.pc = "removing", !.page = p]
  BY DEF RemoveStart, At
<1>2. /\ flash \in [Pages -> Page] /\ op \in OpType /\ cache \in CacheType /\ Shape(op)
      /\ ~Disturbed /\ op.fn # "erase_all" /\ Usable /\ ~iter.live
      /\ op.pc = "remove_item" => Good(cache)
  BY <1>1, Running DEF Trusted, RefreshedPCs
<1>3. c \in CacheType /\ Good(c)
  <2>1. CASE all
    BY <2>1, FreshCacheType, FreshSound
  <2>2. CASE ~all
    <3>1. Good(cache)
      BY <1>1, <1>2, <2>2 DEF Shape, Functions
    <3>2. QED  BY <1>2, <2>2, <3>1, DirtyType, NoticeGood
  <2>3. QED  BY <2>1, <2>2
<1> HIDE DEF c
<1>4. known \in CacheType /\ Good(known)
  BY <1>2, <1>3, LearnType, GoodOps DEF LearnLastUsed
<1> HIDE DEF known, partial
<1>5. CASE partial = CorruptedPage
  BY <1>1, <1>4, <1>5, CorruptionOrder
<1>6. CASE partial # CorruptedPage
  <2>1. op'.pc = "removing" /\ op'.fn = op.fn
    BY <1>1, <1>2, <1>6 DEF OpType
  <2>2. Trusted' /\ ~Disturbed' /\ Planned(op', Now)
    BY <1>1, <1>2, <1>6, <2>1 DEF Trusted, RefreshedPCs, Disturbed, Usable, Planned
  <2>3. QED  BY <1>1, <1>2, <1>4, <1>6, <2>1, <2>2, NoIOType, QuietStep
<1>7. QED  BY <1>5, <1>6

\* An item is erased, or the removal ends.
LEMMA RemoveNextOrder ==
  ASSUME OInv, IInv', RemoveNext
  PROVE  CacheInv' /\ OrderInv'
<1> DEFINE state(i) == StateOf(cache, PageFrom(op.page, i))
           stops == {i \in op.level .. PageCount - 1:
                       state(i) = "Corrupted" \/ (state(i) # "Open" /\ ToRemove(i) # {})}
           i == Min(stops)
           known == Learn(cache, {PageFrom(op.page, j): j \in op.level .. i})
           Ends == /\ cache' = UnmarkDirty(Learn(cache, Pages))
                   /\ Return(Result("Ok")) /\ UNCHANGED io
           Erases == \E p, a, n: /\ EraseItem(known, p, a)
                                 /\ op' = [op EXCEPT !.level = i, !.from = n] /\ UNCHANGED ret
<1>1. /\ op.pc = "removing" /\ io = NoIO /\ UNCHANGED <<flash, iter>>
  BY DEF RemoveNext, At
<1>2. /\ flash \in [Pages -> Page] /\ op \in OpType /\ cache \in CacheType /\ Good(cache)
      /\ ~Disturbed /\ op.fn # "erase_all" /\ Usable /\ ~iter.live
  BY <1>1, Running DEF Trusted, RefreshedPCs
<1>3. known \in CacheType /\ Good(known)
  <2>1. \A S: Learn(cache, S) \in CacheType /\ Good(Learn(cache, S))
    BY <1>2, LearnType, GoodOps
  <2>2. QED  BY <2>1
<1>4. Ends \/ HandleCorruption(known, keys) \/ Erases
  BY Zenon DEF RemoveNext
<1> HIDE DEF known, i, stops, state
<1> HIDE DEF Ends, Erases
<1>5. CASE Ends
  <2> USE DEF Ends
  <2>1. Learn(cache, Pages) \in CacheType /\ Good(Learn(cache, Pages))
    BY <1>2, LearnType, GoodOps
  <2>2. Good(cache') /\ Result("Ok").fn = op.fn
    BY <1>2, <1>5, <2>1, GoodOps DEF Result
  <2>3. QED  BY <1>1, <1>5, <2>2, ReturnOrder
<1>6. CASE HandleCorruption(known, keys)
  BY <1>1, <1>3, <1>6, CorruptionOrder
<1>7. CASE Erases
  <2> USE DEF Erases
  <2>1. op'.pc = "removing" /\ op'.fn = op.fn
    BY <1>1, <1>2, <1>7 DEF OpType
  <2>2. Trusted' /\ ~Disturbed' /\ Planned(op', Now)
    BY <1>1, <1>2, <1>7, <2>1 DEF Trusted, RefreshedPCs, Disturbed, Usable, Planned
  <2>3. io'.cmd = "zero" /\ io' \in IOType /\ cache' \in CacheType
    BY <1>7 DEF EraseItem, ItemIO, IInv, TypeOK
  <2>4. Good(cache')
    BY <1>3, <1>7, NoticeGood DEF EraseItem
  <2>5. QED  BY <1>1, <1>2, <2>1, <2>2, <2>3, <2>4, QuietStep
<1>8. QED  BY <1>4, <1>5, <1>6, <1>7, SMTT(30)

\* When no page was used last, all are open.
LEMMA LastUsedNone ==
  ASSUME NEW c, NEW st \in [Pages -> PageState], Ordered(st),
         \A p \in Pages: StateOf(c, p) = st[p], LastUsed(c) = NoPage
  PROVE  \A p \in Pages: st[p] \notin {"Closed", "PartialOpen"}
<1> DEFINE partial == FindFirst(c, 0, "PartialOpen")
           open == FindFirst(c, 0, "Open")
<1>1. NoPage \notin Pages /\ CorruptedPage \notin Pages /\ NoPage # CorruptedPage
  BY PageCountAssumption DEF NoPage, CorruptedPage, Pages
<1>2. /\ partial \in PageOrNone /\ open \in PageOrNone
      /\ partial = NoPage => \A p \in Pages: st[p] # "PartialOpen"
      /\ open \in Pages => /\ st[open] = "Open"
                           /\ \E k \in Pages:
                                /\ open = PageFrom(0, k)
                                /\ \A j \in Pages: j < k => StateOf(c, PageFrom(0, j)) # "Open"
  <2>1. /\ partial \in PageOrNone
        /\ partial = NoPage => \A p \in Pages: StateOf(c, p) \notin {"PartialOpen", "Corrupted"}
    BY SmallTypes, FoundState DEF PageOrNone
  <2>2. /\ open \in PageOrNone
        /\ open \in Pages => StateOf(c, open) = "Open"
    BY SmallTypes, FoundState DEF PageOrNone
  <2>3. open \in Pages => \E k \in Pages:
          /\ open = PageFrom(0, k)
          /\ \A j \in Pages: j < k => StateOf(c, PageFrom(0, j)) \notin {"Open", "Corrupted"}
    BY SmallTypes, FoundState
  <2>4. QED  BY <2>1, <2>2, <2>3
<1> HIDE DEF partial, open
<1>3. NoPage = CASE partial # NoPage -> partial
        [] partial = NoPage /\ open \in {NoPage, CorruptedPage} -> CorruptedPage
        [] partial = NoPage /\ open \notin {NoPage, CorruptedPage} ->
             CASE StateOf(c, PageBefore(open, 1)) = "Corrupted" -> CorruptedPage
               [] StateOf(c, PageBefore(open, 1)) = "Closed" -> PageBefore(open, 1)
               [] OTHER -> NoPage
  BY DEF LastUsed, partial, open
<1>4. partial = NoPage
  <2>1. SUFFICES ASSUME partial # NoPage PROVE FALSE
    OBVIOUS
  <2>2. NoPage = partial
    BY <1>3, <2>1
  <2>3. QED  BY <2>1, <2>2
<1>5. open \in Pages
  <2>1. SUFFICES ASSUME open \in {NoPage, CorruptedPage} PROVE FALSE
    BY <1>2 DEF PageOrNone
  <2>2. NoPage = CorruptedPage
    BY <1>3, <1>4, <2>1
  <2>3. QED  BY <1>1, <2>2
<1> DEFINE before == PageBefore(open, 1)
<1>6. before \in Pages /\ before = IF open = 0 THEN PageCount - 1 ELSE open - 1
  <2>1. open \in 0 .. PageCount - 1 /\ PageCount \in Nat /\ PageCount >= 2
    BY <1>5, MapPagesAssumption, PageCountAssumption DEF Pages
  <2>2. before \in Pages
    <3>1. 1 \in 0 .. PageCount
      BY <2>1
    <3>2. QED  BY <1>5, <3>1, BeforeType
  <2>3. before = IF open = 0 THEN PageCount - 1 ELSE open - 1
    BY <2>1 DEF PageBefore
  <2>4. QED  BY <2>2, <2>3
<1>7. st[before] = "Open"
  <2>1. NoPage = CASE StateOf(c, before) = "Corrupted" -> CorruptedPage
                   [] StateOf(c, before) = "Closed" -> before
                   [] OTHER -> NoPage
    BY <1>1, <1>3, <1>4, <1>5
  <2>2. StateOf(c, before) \notin {"Corrupted", "Closed"}
    BY <1>1, <1>6, <2>1
  <2>3. st[before] \in PageState /\ st[before] # "PartialOpen" /\ StateOf(c, before) = st[before]
    BY <1>2, <1>4, <1>6
  <2>4. QED  BY <2>2, <2>3 DEF PageState
<1>8. open = 0
  <2>1. PICK k \in Pages: /\ open = PageFrom(0, k)
                          /\ \A j \in Pages: j < k => StateOf(c, PageFrom(0, j)) # "Open"
    BY <1>2, <1>5
  <2>2. \A j \in Pages: PageFrom(0, j) = j
    BY PageCountAssumption DEF PageFrom, Pages
  <2>3. \A j \in Pages: j < open => st[j] # "Open"
    BY <2>1, <2>2
  <2>4. ~(before < open)
    BY <1>6, <1>7, <2>3
  <2>5. QED  BY <1>5, <1>6, <2>4 DEF Pages
<1>9. before = PageCount - 1 /\ before # 0 /\ st[0] = "Open" /\ 0 \in Pages
  BY <1>2, <1>5, <1>6, <1>8, MapPagesAssumption, PageCountAssumption
<1>10. CASE Filling(st)
  <2>1. PICK n \in Pages: \A p \in Pages:
          st[p] \in IF p < n THEN {"Closed"} ELSE IF p = n THEN {"Open", "PartialOpen"} ELSE {"Open"}
    BY <1>10 DEF Filling
  <2>2. ~(0 < n)
    BY <1>9, <2>1
  <2>3. \A p \in Pages: ~(p < n)
    BY <2>2, PageCountAssumption DEF Pages
  <2>4. QED  BY <1>2, <1>4, <2>1, <2>3
<1>11. CASE \E q \in Pages: SettledOn(st, q)
  BY <1>2, <1>4, <1>11 DEF SettledOn
<1>12. CASE \E q \in Pages: FullBut(st, q, {"Open", "PartialOpen"})
  BY <1>6, <1>7, <1>9, <1>12 DEF FullBut
<1>13. QED  BY <1>10, <1>11, <1>12 DEF Ordered

\* An iterator is made. The one reader of a dirty cache that goes on with it, and the one
\* that may declare it clean.
LEMMA IterStartOrder ==
  ASSUME OInv, IInv', IterStart
  PROVE  CacheInv' /\ OrderInv'
<1> DEFINE last == LastUsed(cache)
           known == LearnLastUsed(cache)
<1>1. /\ op.pc = "fetch_all_items" /\ io = NoIO /\ UNCHANGED flash
      /\ \/ HandleCorruption(known, keys) /\ UNCHANGED iter
         \/ /\ cache' = known \/ (cache' = UnmarkDirty(known) /\ last = NoPage)
            /\ Return(Result("Corrupted")) \/ Return(Result("Ok"))
            /\ UNCHANGED io
  BY DEF IterStart, At
<1>2. /\ flash \in [Pages -> Page] /\ op \in OpType /\ cache \in CacheType
      /\ ~Disturbed /\ op.fn # "erase_all" /\ Usable /\ Now \in [Pages -> PageState]
      /\ Ordered(Now) /\ Then = Now
      /\ CacheKind = "none" => ~cache.dirty
      /\ Trusted => Good(cache)
  BY <1>1, Running
<1>3. known \in CacheType /\ known.dirty = cache.dirty /\ \A p \in Pages: StateOf(known, p) = StateOf(cache, p)
  BY <1>2, LearnType, LearnSame DEF LearnLastUsed
<1>4. Good(cache) => Good(known)
  BY <1>2, GoodOps DEF LearnLastUsed
<1> HIDE DEF known, last
<1>5. CASE HandleCorruption(known, keys) /\ UNCHANGED iter
  <2>1. op.retried => Good(known)
    BY <1>2, <1>4 DEF Trusted
  <2>2. QED  BY <1>1, <1>5, <2>1, CorruptionOrder
<1>6. CASE /\ cache' = known \/ (cache' = UnmarkDirty(known) /\ last = NoPage)
           /\ Return(Result("Corrupted")) \/ Return(Result("Ok"))
           /\ UNCHANGED io
  <2>1. PICK r: Return(r) /\ r.fn = op.fn
    BY <1>6 DEF Result
  <2>2. CASE Trusted
    <3>1. Good(cache')
      BY <1>2, <1>3, <1>4, <1>6, <2>2, GoodOps
    <3>2. QED  BY <1>1, <1>6, <2>1, <3>1, ReturnOrder
  <2>3. CASE ~Trusted
    <3>1. /\ cache.dirty /\ CacheKind # "none" /\ Ordered(View)
          /\ View = Now \/ \E p \in Pages: View[p] \in {"Closed", "PartialOpen"}
      BY <1>2, <2>3 DEF Trusted, OInv, CacheInv
    <3>2. CASE cache' = UnmarkDirty(known) /\ last = NoPage
      <4>1. View \in [Pages -> PageState] /\ \A p \in Pages: StateOf(cache, p) = View[p]
        <5>1. \A p \in Pages: StateOf(cache, p) \in PageState
          <6>1. SUFFICES ASSUME NEW p \in Pages PROVE StateOf(cache, p) \in PageState
            OBVIOUS
          <6>2. MarkedState(flash[p]) \in PageState
            BY <1>2, MarksType DEF Marks
          <6>3. cache.states[p] \in PageStates \cup {"Unknown"}
            BY <1>2 DEF CacheType
          <6>4. QED  BY <6>2, <6>3 DEF StateOf, PageStates, PageState
        <5>2. QED  BY <5>1 DEF View
      <4>2. View = Now
        BY <3>1, <3>2, <4>1, LastUsedNone DEF last
      <4>3. \A p \in Pages: StateOf(known, p) = MarkedState(flash[p])
        BY <1>3, <4>1, <4>2 DEF Now, Marks
      <4>4. Good(known)
        BY <3>1, <4>3 DEF Good, Sound, StateOf
      <4>5. Good(cache')
        BY <1>2, <1>3, <3>2, <4>4, GoodOps
      <4>6. QED  BY <1>1, <1>6, <2>1, <4>5, ReturnOrder
    <3>3. CASE cache' = known
      <4>1. op' = Idle /\ ret' = r /\ io' = NoIO
        BY <1>1, <1>6, <2>1 DEF Return
      <4>2. ~Trusted' /\ ~Disturbed'
        BY <1>2, <1>3, <2>1, <3>1, <3>3, <4>1, Undisturbed DEF Trusted, RefreshedPCs, Idle
      <4>3. View' = View /\ Now' = Now /\ Then' = Now
        <5>1. View' = [p \in Pages |-> StateOf(known, p)]
          BY <1>1, <3>3 DEF View, StateOf
        <5>2. View' = View
          BY <1>3, <5>1 DEF View
        <5>3. QED  BY <1>1, <1>2, <4>1, <5>2, QuietMarks
      <4>4. CacheInv'
        BY <3>1, <4>1, <4>2, <4>3, NoIOType DEF CacheInv
      <4>5. OrderInv'
        BY <1>2, <4>1, <4>2, <4>3, NoIOType DEF OrderInv, Planned, Erasing, Idle
      <4>6. QED  BY <4>4, <4>5
    <3>4. QED  BY <1>6, <3>2, <3>3
  <2>4. QED  BY <2>2, <2>3
<1>7. QED  BY <1>1, <1>5, <1>6

\* The iterator is used, or given up.
LEMMA NextItemOrder ==
  ASSUME OInv, IInv', NextItem \/ DropIter
  PROVE  CacheInv' /\ OrderInv'
<1>1. /\ op = Idle /\ iter.live /\ UNCHANGED <<flash, io, op>>
      /\ cache' = cache \/ \E S: cache' = Learn(cache, S)
      /\ ret' = ret \/ ret'.fn = "next"
  BY DEF NextItem, DropIter
<1>2. /\ flash \in [Pages -> Page] /\ cache \in CacheType /\ io = NoIO /\ io.cmd = "none"
      /\ io \in IOType /\ HasData(io)
  BY <1>1, Typed, NoIOType DEF OInv
<1>3. ~Disturbed /\ Ordered(Now) /\ Then = Now /\ Idle.pc = "idle" /\ ~Idle.retried /\ Idle.fn = "none"
  BY <1>1, <1>2, NowThenType DEF OInv, OrderInv, Idle
<1>4. ~Disturbed'
  BY <1>1, <1>3 DEF Disturbed, Usable
<1>5. /\ cache'.dirty = cache.dirty /\ Completed(io)' = Completed(io) /\ Completed(io) = flash
      /\ \A p \in Pages: StateOf(cache', p) = StateOf(cache, p)
      /\ Sound(cache, flash) => Sound(cache', flash)
  <2>1. Completed(io)' = Completed(io) /\ Completed(io) = flash
    BY <1>1, <1>2, NoIOCompleted DEF Completed
  <2>2. CASE cache' = cache
    BY <2>1, <2>2
  <2>3. CASE \E S: cache' = Learn(cache, S)
    BY <1>2, <2>1, <2>3, LearnSame, LearnSound
  <2>4. QED  BY <1>1, <2>2, <2>3
<1>6. Trusted' <=> Trusted
  BY <1>1, <1>5 DEF Trusted
<1>7. View' = View /\ Now' = Now /\ Then' = Now
  <2>1. View' = [p \in Pages |-> StateOf(cache', p)]
    BY <1>1 DEF View, StateOf
  <2>2. View' = View
    BY <1>5, <2>1 DEF View
  <2>3. QED  BY <1>1, <1>2, <2>2, QuietMarks
<1>8. CacheInv'
  BY <1>1, <1>2, <1>5, <1>6, <1>7 DEF OInv, CacheInv
<1>9. OrderInv'
  BY <1>1, <1>2, <1>3, <1>4, <1>7 DEF OrderInv, Planned, Erasing
<1>10. QED  BY <1>8, <1>9

\* Everything is erased.
LEMMA EraseAllFinishOrder ==
  ASSUME CarefulCalls, OInv, IInv', EraseAllFinish
  PROVE  CacheInv' /\ OrderInv'
<1>1. /\ op.pc = "erase_all" /\ io = NoIO /\ UNCHANGED <<flash, cache, io, iter>>
      /\ op' = Idle /\ ret' = Result("Ok")
  BY DEF EraseAllFinish, At, Return
<1>2. flash \in [Pages -> Page] /\ io \in IOType /\ HasData(io) /\ NoIO.cmd = "none"
      /\ op.fn = "erase_all"
  BY <1>1, Typed, NoIOType DEF OInv, Shape, Functions
<1>3. Idle.pc = "idle" /\ Idle.fn = "none" /\ ~iter.live
  BY <1>1 DEF Idle, OInv, OrderInv
<1>4. Then = Now /\ Now' = Now /\ Then' = Now /\ Completed(io)' = Completed(io)
  <2>1. Completed(io)' = Completed(io)
    BY <1>1 DEF Completed
  <2>2. QED  BY <1>1, <1>2, <2>1, QuietMarks
<1>5. Ordered(Now)
  <2>1. \A p \in Pages: Now[p] = "Open"
    BY <1>1, <1>4 DEF OInv, OrderInv
  <2>2. \A p \in Pages: ~(p < 0)
    BY PageCountAssumption DEF Pages
  <2>3. Filling(Now)
    BY <2>1, <2>2, SmallTypes DEF Filling
  <2>4. QED  BY <2>3 DEF Ordered
<1>6. CacheKind = "none" /\ ~cache.dirty /\ Sound(cache, Completed(io))
  BY <1>2 DEF CarefulCalls, OInv, CacheInv, OrderInv, Disturbed, Trusted
<1>7. CacheInv'
  BY <1>1, <1>2, <1>4, <1>6 DEF CacheInv, Trusted, Sound
<1>8. ~Disturbed'
  BY <1>1, <1>3 DEF Disturbed, Usable, Result
<1>9. OrderInv'
  BY <1>1, <1>2, <1>3, <1>4, <1>5, <1>8 DEF OrderInv, Planned, Erasing
<1>10. QED  BY <1>7, <1>9

-----------------------------------------------------------------------------
\* The pages are in order in the initial state
LEMMA InitOrder == Init => OInv
<1> SUFFICES ASSUME Init PROVE OInv
  OBVIOUS
<1>1. /\ flash = [p \in Pages |-> ErasedPage] /\ cache = FreshCache /\ io = NoIO
      /\ op = Idle /\ iter = NoIter /\ ret = NoRet /\ IInv
  BY InitInv DEF Init, GenericInit
<1>2. /\ Idle.pc = "idle" /\ Idle.fn = "none" /\ ~NoIter.live /\ NoIO.cmd = "none"
      /\ ~FreshCache.dirty /\ NoRet.fn = "none"
  BY NoIOType DEF Idle, NoIter, FreshCache, NoRet
<1>3. Now = [p \in Pages |-> "Open"] /\ Then = Now
  <2>1. MarkedState(ErasedPage) = "Open"
    BY DEF MarkedState, ErasedPage
  <2>2. Now = [p \in Pages |-> "Open"]
    BY <1>1, <2>1 DEF Now, Marks
  <2>3. Then = Now
    BY <1>1, Typed, NowThenType
  <2>4. QED  BY <2>2, <2>3
<1>4. Ordered(Now)
  <2>1. \A p \in Pages: ~(p < 0)
    BY PageCountAssumption DEF Pages
  <2>2. Filling(Now)
    BY <1>3, <2>1, SmallTypes DEF Filling
  <2>3. QED  BY <2>2 DEF Ordered
<1>5. CacheInv
  BY <1>1, <1>2, FreshSound DEF CacheInv, Trusted
<1>6. OrderInv
  BY <1>1, <1>2, <1>3, <1>4 DEF OrderInv, Disturbed, Usable, Planned, Erasing
<1>7. QED  BY <1>1, <1>5, <1>6 DEF OInv

\* and every step keeps them so, when the user is careful.
LEMMA StepOrder == CarefulCalls /\ OInv /\ [Next]_vars => OInv'
<1> SUFFICES ASSUME CarefulCalls, OInv, [Next]_vars PROVE OInv'
  OBVIOUS
<1>1. IInv'
  BY StepInv DEF OInv
<1>2. CASE UNCHANGED vars
  <2>1. /\ Now' = Now /\ Then' = Then /\ View' = View /\ Completed(io)' = Completed(io)
        /\ (Trusted' <=> Trusted) /\ (Disturbed' <=> Disturbed)
    BY <1>2 DEF vars, Now, Then, View, Marks, StateOf, Completed, Trusted, Disturbed, Usable
  <2>2. CacheInv'
    BY <1>2, <2>1 DEF vars, OInv, CacheInv
  <2>3. OrderInv'
    BY <1>2, <2>1 DEF vars, OInv, OrderInv, Erasing
  <2>4. QED  BY <1>1, <2>2, <2>3 DEF OInv
<1>3. CASE UserCall
  BY <1>1, <1>3, CallOrder, CallEraseAllOrder, NextItemOrder DEF UserCall, OInv
<1>4. CASE Step
  <2>1. CASE FlashDone /\ UNCHANGED <<keys, op, iter, ret, faults>>
    BY <1>1, <2>1, FlashDoneOrder DEF OInv
  <2>2. CASE FetchItem \/ StoreRound \/ StoreData \/ StoreFinish \/ StoreNextPage \/ StoreBuffer
    BY <1>1, <2>2, FetchItemOrder, StoreRoundOrder, StoreDataOrder, StoreNextPageOrder,
       StoreBufferOrder DEF OInv
  <2>3. CASE MigrateItem \/ MigrateData \/ MigrateErase \/ MigrateDone
    BY <1>1, <2>3, MigrateItemOrder, MigrateDataOrder, MigrateEndOrder DEF OInv
  <2>4. CASE RepairPage \/ RepairMigration \/ RepairReopen
    BY <1>1, <2>4, RepairPageOrder, RepairMigrationOrder, RepairReopenOrder DEF OInv
  <2>5. CASE RemoveStart \/ RemoveNext \/ IterStart \/ EraseAllFinish
    BY <1>1, <2>5, RemoveStartOrder, RemoveNextOrder, IterStartOrder, EraseAllFinishOrder DEF OInv
  <2>6. QED  BY <1>4, <2>1, <2>2, <2>3, <2>4, <2>5 DEF Step
<1>5. CASE Fail \/ PowerLoss
  BY <1>1, <1>5, FaultOrder DEF OInv
<1>6. QED  BY <1>2, <1>3, <1>4, <1>5 DEF Next

\* Whatever calls are made and however they are cut short, a reader of flash finds the pages
\* in order: closed ones, the one in use, the buffer, which may be half-erased.
THEOREM MapPageOrder ==
  ASSUME CarefulCalls
  PROVE  Spec => []PageOrder
<1>1. OInv /\ [Next]_vars => OInv'
  BY StepOrder
<1>2. OInv => PageOrder
  <2>1. SUFFICES ASSUME OInv, Usable, op.fn # "erase_all" PROVE PageOrder
    BY DEF PageOrder
  <2>2. flash \in [Pages -> Page]
    BY <2>1, Typed DEF OInv
  <2>3. Ordered(Now)
    BY <2>1 DEF OInv, OrderInv, Disturbed
  <2>4. QED  BY <2>2, <2>3, OrderedIsPageOrder
<1>3. QED  BY <1>1, <1>2, InitOrder, PTL DEF Spec

\* Between calls, a cache that is not dirty is right about every page it knows.
THEOREM MapCachedStates ==
  ASSUME CarefulCalls
  PROVE  Spec => []CachedStates
<1>1. OInv /\ [Next]_vars => OInv'
  BY StepOrder
<1>2. OInv => CachedStates
  <2>1. SUFFICES ASSUME OInv, op = Idle, ~cache.dirty, NEW p \in Pages
                 PROVE  cache.states[p] \in {"Unknown", MarkedState(flash[p])}
    BY DEF CachedStates
  <2>2. flash \in [Pages -> Page] /\ io = NoIO
    BY <2>1, Typed DEF OInv
  <2>3. Sound(cache, flash)
    BY <2>1, <2>2, NoIOCompleted DEF OInv, CacheInv, Trusted
  <2>4. QED  BY <2>3 DEF Sound
<1>3. QED  BY <1>1, <1>2, InitOrder, PTL DEF Spec

-----------------------------------------------------------------------------
(* One repair is enough (AlwaysRepaired), without key pointers.              *)
(*                                                                         *)
(* Behind the repair no page is half-erased and the page in use has its      *)
(* buffer, and the rest of the call keeps it so.  That a migration then      *)
(* finds the newest item of every key takes a look into the pages: the       *)
(* source page holds at least the item the migration has come to.            *)

Buffered(st) == \E q \in Pages: st[q] = "PartialOpen" /\ st[NextPage(q)] = "Open"

Mended ==
  /\ op.repairing => op.retried
  /\ op.retried =>
       /\ op.pc = "repair" => \E q \in Pages: Then[q] = "PartialOpen"
       /\ op.pc # "repair" => \A p \in Pages: Then[p] # "Corrupted"
       /\ op.pc \in {"store_item", "migrated"} => Buffered(Then)

\* The scan of the source page is on its items, and the page stays as it is.
Scanning ==
  op.pc \in {"migrate", "copy"} =>
    LET ws == flash[Source].words IN
    /\ io # NoIO => io.page = op.page
    /\ IF op.pc = "copy" THEN op.from \in PresentItems(ws, 0)
       ELSE PresentItems(ws, op.from) \subseteq PresentItems(ws, 0)

RInv == OInv /\ Mended /\ Scanning /\ AlwaysRepaired

\* Behind an item of a page come items of the page.
LEMMA ItemsBehind ==
  ASSUME NEW ws \in [Addrs -> Word], NEW from \in 0 .. PageWords,
         NEW a \in PresentItems(ws, from)
  PROVE  PresentItems(ws, NextAddr(ws, a)) \subseteq PresentItems(ws, from)
<1> DEFINE n == PageWords
           Kept(b) == \A x \in PresentItems(ws, b):
                        PresentItems(ws, NextAddr(ws, x)) \subseteq PresentItems(ws, b)
           S == {k \in 0 .. n: \A b \in n - k .. n: Kept(b)}
<1>1. n \in Nat /\ 0 .. n - 1 = Addrs
  BY PageWordsAssumption DEF Addrs
<1>2. 0 \in S
  BY <1>1, PresentItemsIs
<1>3. ASSUME NEW k \in 0 .. n - 1, k \in S
      PROVE  k + 1 \in S
  <2> DEFINE m == n - (k + 1)
  <2>1. m \in Addrs /\ k + 1 \in 0 .. n /\ m \in 0 .. n - 1 /\ m + 1 = n - k
    BY <1>1
  <2>2. \A b \in m .. n: b = m \/ b \in n - k .. n
    BY <2>1
  <2>3. NextAddr(ws, m) \in n - k .. n
    BY <2>1, NextAddrType
  <2> HIDE DEF Kept
  <2>4. Kept(NextAddr(ws, m))
    BY <1>3, <2>3
  <2>5. PresentItems(ws, m) =
          IF ws[m] = Blank THEN {}
          ELSE (IF IsPresent(ws, m) THEN {m} ELSE {}) \cup PresentItems(ws, NextAddr(ws, m))
    BY <2>1, PresentItemsIs
  <2> HIDE DEF m
  <2>6. Kept(m)
    BY <2>4, <2>5 DEF Kept
  <2>7. \A b \in m .. n: Kept(b)
    BY <1>3, <2>2, <2>6
  <2>8. QED  BY <2>1, <2>7 DEF m
<1> HIDE DEF S
<1>4. 0 .. n \subseteq S
  BY <1>1, <1>2, <1>3, UpTo
<1>5. n \in S /\ from \in n - n .. n
  BY <1>1, <1>4
<1>6. Kept(from)
  BY <1>5 DEF S
<1>7. QED  BY <1>6

\* Only one page is in use.
LEMMA OneInUse ==
  ASSUME NEW st, Ordered(st), NEW p \in Pages, NEW q \in Pages,
         st[p] = "PartialOpen", st[q] = "PartialOpen"
  PROVE  p = q
<1>1. CASE Filling(st)
  BY <1>1 DEF Filling
<1>2. CASE \E r \in Pages: SettledOn(st, r)
  BY <1>2 DEF SettledOn
<1>3. CASE \E r \in Pages: FullBut(st, r, {"Open", "PartialOpen"})
  BY <1>3 DEF FullBut
<1>4. QED  BY <1>1, <1>2, <1>3 DEF Ordered

\* There is always a page to write to.
LEMMA SomeRoom ==
  ASSUME NEW st, Ordered(st)
  PROVE  \E p \in Pages: st[p] \in {"Open", "PartialOpen"}
<1>1. CASE Filling(st)
  <2>1. PICK n \in Pages: \A p \in Pages:
          st[p] \in IF p < n THEN {"Closed"} ELSE IF p = n THEN {"Open", "PartialOpen"} ELSE {"Open"}
    BY <1>1 DEF Filling
  <2>2. ~(n < n)
    BY PageCountAssumption DEF Pages
  <2>3. st[n] \in {"Open", "PartialOpen"}
    BY <2>1, <2>2
  <2>4. QED  BY <2>3
<1>2. CASE \E r \in Pages: SettledOn(st, r)
  BY <1>2 DEF SettledOn
<1>3. CASE \E r \in Pages: FullBut(st, r, {"Open", "PartialOpen"})
  BY <1>3 DEF FullBut
<1>4. QED  BY <1>1, <1>2, <1>3 DEF Ordered

\* A half-erased page has a page in use before it.
LEMMA TornInUse ==
  ASSUME NEW st \in [Pages -> PageState], Ordered(st), \E p \in Pages: st[p] = "Corrupted"
  PROVE  \E q \in Pages: st[q] = "PartialOpen"
BY TornIsBuffer DEF SettledOn

\* The search stops at the first page where the key is found, or before one that is not closed.
LEMMA DepthFound ==
  ASSUME NEW c, NEW k, NEW y \in Pages, \E q \in Pages: StateOf(c, q) # "Closed"
  PROVE  LET d == SearchDepth(c, k, y) IN
         /\ d \in Pages
         /\ \/ ItemsWithKey(PageBefore(y, d), k) # {}
            \/ StateOf(c, PageBefore(y, d + 1)) # "Closed"
         /\ \A j \in Pages: j < d => ItemsWithKey(PageBefore(y, j), k) = {}
<1> DEFINE D == {i \in Pages: \/ ItemsWithKey(PageBefore(y, i), k) # {}
                              \/ StateOf(c, PageBefore(y, i + 1)) # "Closed"}
<1>1. D # {}
  <2>1. PICK q \in Pages: StateOf(c, q) # "Closed"
    OBVIOUS
  <2>2. PICK i \in Pages: PageBefore(y, i + 1) = q
    BY BeforeEvery
  <2>3. QED  BY <2>1, <2>2
<1>2. D \in SUBSET Nat
  BY PageCountAssumption DEF Pages
<1>3. Min(D) \in D /\ \A x \in D: Min(D) <= x
  BY <1>1, <1>2, MinInSet
<1>4. SearchDepth(c, k, y) = Min(D)
  BY DEF SearchDepth
<1> HIDE DEF D
<1>5. SearchDepth(c, k, y) \in D /\ \A x \in D: SearchDepth(c, k, y) <= x
  BY <1>3, <1>4
<1>6. ASSUME NEW j \in Pages, j < SearchDepth(c, k, y) PROVE ItemsWithKey(PageBefore(y, j), k) = {}
  <2>1. SearchDepth(c, k, y) \in Nat /\ j \in Nat
    <3>1. SearchDepth(c, k, y) \in Nat
      BY <1>2, <1>5
    <3>2. QED  BY <3>1, PageCountAssumption DEF Pages
  <2>2. j \notin D
    BY <1>5, <1>6, <2>1
  <2>3. QED  BY <2>2 DEF D
<1>7. QED  BY <1>5, <1>6 DEF D

\* The search for a key returns the Corrupted error only because of a half-erased page.
LEMMA SearchTorn ==
  ASSUME flash \in [Pages -> Page], Ordered(Now), NEW c \in CacheType, Good(c),
         NEW ks, NEW k \in Keys, Search(c, ks, k).status = "Corrupted"
  PROVE  \E p \in Pages: Now[p] = "Corrupted"
<1> DEFINE known == LearnLastUsed(c)
           last == LastUsed(c)
           partial == FindFirst(c, 0, "PartialOpen")
           open == FindFirst(c, 0, "Open")
<1>1. known \in CacheType /\ Good(known)
  BY LearnType, GoodOps DEF LearnLastUsed
<1>2. last \in PageOrNone
  BY LastUsedType
<1>3. NoPage \notin Pages /\ CorruptedPage \notin Pages /\ NoPage # CorruptedPage
  BY PageCountAssumption DEF NoPage, CorruptedPage, Pages
<1>4. /\ \A p \in Pages: StateOf(known, p) = Now[p]
      /\ \A p \in Pages: StateOf(c, p) = Now[p]
  BY <1>1, StateIsMark DEF Now, Marks
<1>5. ASSUME last = CorruptedPage
      PROVE  \E p \in Pages: Now[p] = "Corrupted"
  <2>1. /\ partial \in Pages \cup {NoPage, CorruptedPage}
        /\ open \in Pages \cup {NoPage, CorruptedPage}
        /\ partial = NoPage => \A p \in Pages: Now[p] # "PartialOpen"
        /\ partial = CorruptedPage => \E p \in Pages: Now[p] = "Corrupted"
        /\ open = NoPage => \A p \in Pages: Now[p] # "Open"
        /\ open = CorruptedPage => \E p \in Pages: Now[p] = "Corrupted"
    BY SmallTypes, FoundFirst
  <2>2. last = CASE partial # NoPage -> partial
        [] partial = NoPage /\ open \in {NoPage, CorruptedPage} -> CorruptedPage
        [] partial = NoPage /\ open \notin {NoPage, CorruptedPage} ->
             CASE StateOf(c, PageBefore(open, 1)) = "Corrupted" -> CorruptedPage
               [] StateOf(c, PageBefore(open, 1)) = "Closed" -> PageBefore(open, 1)
               [] OTHER -> NoPage
    BY DEF LastUsed
  <2> HIDE DEF partial, open, last
  <2>3. CASE partial # NoPage
    BY <1>3, <1>5, <2>1, <2>2, <2>3
  <2>4. CASE partial = NoPage /\ open \in {NoPage, CorruptedPage}
    BY <1>3, <2>1, <2>4, SomeRoom
  <2>5. CASE partial = NoPage /\ open \in Pages
    <3>1. PageBefore(open, 1) \in Pages
      <4>1. 1 \in 0 .. PageCount
        BY PageCountAssumption
      <4>2. QED  BY <2>5, <4>1, BeforeType
    <3>2. StateOf(c, PageBefore(open, 1)) = "Corrupted"
      BY <1>3, <1>5, <2>2, <2>5, <3>1
    <3>3. QED  BY <1>4, <3>1, <3>2
  <2>6. QED  BY <2>1, <2>3, <2>4, <2>5
<1> HIDE DEF known, last
<1>6. Search(c, ks, k) = SearchFrom(known, ks, k, last)
  BY DEF Search, Once, known, last
<1>7. \A s, p, a, d, ls: Outcome(s, p, a, d, ls).status = s
  BY DEF Outcome
<1>8. CASE last = NoPage
  <2>1. SearchFrom(known, ks, k, last) = Outcome("None", 0, 0, UnmarkDirty(known), ks)
    BY <1>3, <1>8 DEF SearchFrom
  <2>2. QED  BY <1>6, <1>7, <2>1
<1>9. CASE last \in Pages
  <2> DEFINE depth == SearchDepth(known, k, last)
             p == PageBefore(last, depth)
             beyond == PageBefore(p, 1)
  <2>1. SearchFrom(known, ks, k, last) = SearchBack(known, ks, k, last, depth)
    BY <1>3, <1>9 DEF SearchFrom, Once
  <2>2. depth \in Pages
    <3>1. \E q \in Pages: StateOf(known, q) # "Closed"
      BY <1>4, SomeRoom
    <3>2. QED  BY <1>9, <3>1, DepthFound
  <2> HIDE DEF depth
  <2>3. StateOf(known, beyond) = "Corrupted"
    BY <1>6, <1>7, <2>1 DEF SearchBack
  <2>4. beyond \in Pages
    <3>1. depth \in 0 .. PageCount /\ 1 \in 0 .. PageCount
      BY <2>2, PageCountAssumption DEF Pages
    <3>2. QED  BY <1>9, <3>1, BeforeType
  <2>5. QED  BY <1>4, <2>3, <2>4
<1>10. QED  BY <1>2, <1>5, <1>8, <1>9 DEF PageOrNone

\* When all pages but the one in use are closed, the search finds a key that the page after
\* it holds, there or on the way: on the first page that has it, the last item with it.
LEMMA SearchFinds ==
  ASSUME flash \in [Pages -> Page], NEW c \in CacheType, Good(c), NEW ks, NEW k \in Keys,
         NEW y \in Pages, Now[y] = "PartialOpen", \A p \in Pages: p # y => Now[p] = "Closed",
         ItemsWithKey(NextPage(y), k) # {}
  PROVE  LET got == Search(c, ks, k) IN
         /\ got.status = "Ok" /\ got.page \in Pages
         /\ ItemsWithKey(got.page, k) # {} /\ got.addr = Max(ItemsWithKey(got.page, k))
         /\ \E d \in Pages: /\ got.page = PageBefore(y, d)
                           /\ \A j \in Pages: j < d => ItemsWithKey(PageBefore(y, j), k) = {}
<1> DEFINE known == LearnLastUsed(c)
           last == LastUsed(c)
           partial == FindFirst(c, 0, "PartialOpen")
           d == SearchDepth(known, k, y)
<1>1. known \in CacheType /\ Good(known)
  BY LearnType, GoodOps DEF LearnLastUsed
<1>2. NoPage \notin Pages /\ CorruptedPage \notin Pages /\ NoPage # CorruptedPage
  BY PageCountAssumption DEF NoPage, CorruptedPage, Pages
<1>3. \A p \in Pages: StateOf(known, p) = Now[p]
  BY <1>1, StateIsMark DEF Now, Marks
<1>4. last = y
  <2>1. /\ partial \in Pages \cup {NoPage, CorruptedPage}
        /\ partial = NoPage => \A p \in Pages: Now[p] # "PartialOpen"
        /\ partial = CorruptedPage => \E p \in Pages: Now[p] = "Corrupted"
        /\ partial \in Pages => Now[partial] = "PartialOpen"
    BY SmallTypes, FoundFirst
  <2>2. partial # NoPage => last = partial
    BY DEF LastUsed
  <2> HIDE DEF partial, last
  <2>3. partial = y
    BY <2>1
  <2>4. QED  BY <1>2, <2>2, <2>3
<1> HIDE DEF known, last
<1>5. Search(c, ks, k) = SearchFrom(known, ks, k, last)
  BY DEF Search, Once, known, last
<1>6. SearchFrom(known, ks, k, last) = SearchBack(known, ks, k, y, d)
  BY <1>2, <1>4 DEF SearchFrom, Once
<1>7. /\ d \in Pages
      /\ \/ ItemsWithKey(PageBefore(y, d), k) # {}
         \/ StateOf(known, PageBefore(y, d + 1)) # "Closed"
      /\ \A j \in Pages: j < d => ItemsWithKey(PageBefore(y, j), k) = {}
  BY <1>3, DepthFound
<1> HIDE DEF d
<1>8. ItemsWithKey(PageBefore(y, d), k) # {}
  <2>1. SUFFICES ASSUME StateOf(known, PageBefore(y, d + 1)) # "Closed"
                 PROVE  PageBefore(y, d) = NextPage(y)
    BY <1>7
  <2>2. PageCount \in Nat /\ PageCount >= 2 /\ y \in 0 .. PageCount - 1 /\ d \in 0 .. PageCount - 1
    BY <1>7, NextIs DEF Pages
  <2>3. d + 1 \in 0 .. PageCount /\ d \in 0 .. PageCount
    BY <2>2
  <2>4. /\ PageBefore(y, d + 1) \in Pages
        /\ PageBefore(y, d + 1) = IF y >= d + 1 THEN y - (d + 1) ELSE y - (d + 1) + PageCount
        /\ PageBefore(y, d) = IF y >= d THEN y - d ELSE y - d + PageCount
    BY <2>3, BeforeType
  <2>5. PageBefore(y, d + 1) = y
    BY <1>3, <2>1, <2>4
  <2>6. d = PageCount - 1
    BY <2>2, <2>4, <2>5
  <2>7. NextPage(y) = IF y + 1 < PageCount THEN y + 1 ELSE 0
    BY NextIs
  <2>8. QED  BY <2>2, <2>4, <2>6, <2>7
<1> DEFINE p == PageBefore(y, d)
           a == Max(ItemsWithKey(p, k))
<1>9. \A e, ls: LET o == Outcome("Ok", p, a, e, ls) IN o.status = "Ok" /\ o.page = p /\ o.addr = a
  BY DEF Outcome
<1>10. \E e, ls: SearchBack(known, ks, k, y, d) = Outcome("Ok", p, a, e, ls)
  BY <1>8 DEF SearchBack
<1>11. p \in Pages
  <2>1. d \in 0 .. PageCount
    BY <1>7, PageCountAssumption DEF Pages
  <2>2. QED  BY <2>1, BeforeType
<1> HIDE DEF p, a
<1>12. LET got == Search(c, ks, k) IN got.status = "Ok" /\ got.page = p /\ got.addr = a
  BY <1>5, <1>6, <1>9, <1>10
<1>13. QED  BY <1>7, <1>8, <1>11, <1>12 DEF p, a

\* Without key pointers every lookup is a search.
LEMMA FetchIsSearch ==
  ASSUME KeySlots = 0, NEW ks \in KeysType, NEW c, NEW k
  PROVE  FetchWithLocation(c, ks, k) = Search(c, ks, k)
<1>1. DOMAIN ks = {}
  <2>1. Len(ks) \in Nat /\ Len(ks) <= 0 /\ DOMAIN ks = 1 .. Len(ks)
    BY DEF KeysType
  <2>2. QED  BY <2>1
<1>2. ~Holds(ks, k)
  BY <1>1 DEF Holds
<1>3. QED  BY <1>2 DEF FetchWithLocation

-----------------------------------------------------------------------------
\* A call that returns, but not with the Corrupted error.
LEMMA ReturnMends ==
  ASSUME RInv, op' = Idle, ret' = ret \/ ret'.status # "Corrupted" \/ ret'.fn = "fetch_all_items"
  PROVE  Mended' /\ Scanning' /\ AlwaysRepaired'
<1>1. ~Idle.retried /\ ~Idle.repairing /\ Idle.pc = "idle"
  BY DEF Idle
<1>2. QED  BY <1>1 DEF RInv, Mended, Scanning, AlwaysRepaired

\* The first Corrupted error, with a page in use.
LEMMA CorruptionMends ==
  ASSUME RInv, io = NoIO, op.pc \notin {"idle", "erase_all"}, UNCHANGED flash,
         NEW c, NEW ks, HandleCorruption(c, ks),
         ~op.retried, \E q \in Pages: Now[q] = "PartialOpen"
  PROVE  Mended' /\ Scanning' /\ AlwaysRepaired'
<1>1. /\ UNCHANGED <<io, ret>>
      /\ op' = [op EXCEPT !.pc = "repair", !.page = 0, !.retried = TRUE, !.repairing = TRUE]
  BY DEF HandleCorruption
<1>2. op \in OpType /\ flash \in [Pages -> Page]
  BY Running DEF RInv
<1>3. op'.pc = "repair" /\ op'.retried
  BY <1>1, <1>2 DEF OpType
<1>4. Then' = Now
  BY <1>1, <1>2, QuietMarks
<1>5. QED  BY <1>1, <1>3, <1>4 DEF RInv, Mended, Scanning, AlwaysRepaired

\* The second attempt begins.
LEMMA RestartMends ==
  ASSUME RInv, io = NoIO, op.pc \notin {"idle", "erase_all"}, UNCHANGED <<flash, io, ret>>, Restart,
         \A p \in Pages: Now[p] # "Corrupted", op.fn = "store_item" => Buffered(Now)
  PROVE  Mended' /\ Scanning' /\ AlwaysRepaired'
<1>1. op \in OpType /\ flash \in [Pages -> Page] /\ op.fn \in Functions
  BY Running DEF RInv
<1>2. op'.pc = op.fn /\ op'.retried /\ ~op'.repairing
  BY <1>1, SmallTypes DEF Restart, OpType, Idle
<1>3. Then' = Now
  BY <1>1, QuietMarks
<1>4. QED  BY <1>1, <1>2, <1>3 DEF RInv, Mended, Scanning, AlwaysRepaired, Functions

\* A step within a call, away from migrations.
LEMMA QuietMends ==
  ASSUME RInv, ret' = ret, op'.pc \notin {"migrate", "copy", "repair"},
         op'.retried <=> op.retried, op'.repairing <=> op.repairing,
         op.retried => /\ \A p \in Pages: Then'[p] # "Corrupted"
                       /\ op'.pc \in {"store_item", "migrated"} => Buffered(Then')
  PROVE  Mended' /\ Scanning' /\ AlwaysRepaired'
BY DEF RInv, Mended, Scanning, AlwaysRepaired

-----------------------------------------------------------------------------
\* Calls begin with a first attempt.
LEMMA CallMends ==
  ASSUME RInv, UserCall
  PROVE  Mended' /\ Scanning' /\ AlwaysRepaired'
<1>1. CASE (\E fn \in Functions: \E item, key: Call(fn, item, key)) \/ CallEraseAll
  <2>1. PICK fn \in Functions: /\ ret' = NoRet /\ \E item, key: op' =
                                    [Idle EXCEPT !.fn = fn, !.pc = fn, !.item = item, !.key = key]
    <3>1. CASE \E fn \in Functions: \E item, key: Call(fn, item, key)
      BY <3>1 DEF Call, Begin
    <3>2. CASE CallEraseAll
      <4>1. Idle.item = NoItem /\ Idle.key = NoKey /\ Idle \in OpType
        BY SmallTypes DEF Idle
      <4>2. [Idle EXCEPT !.fn = "erase_all", !.pc = "erase_all"] =
              [Idle EXCEPT !.fn = "erase_all", !.pc = "erase_all", !.item = NoItem, !.key = NoKey]
        BY <4>1 DEF OpType
      <4>3. QED  BY <3>2, <4>2 DEF CallEraseAll, Begin, Functions
    <3>3. QED  BY <1>1, <3>1, <3>2
  <2>2. op'.pc = fn /\ ~op'.retried /\ ~op'.repairing /\ ret'.status = "none"
    BY <2>1 DEF Idle, NoRet
  <2>3. QED  BY <2>2 DEF Mended, Scanning, AlwaysRepaired, Functions
<1>2. CASE NextItem \/ DropIter
  <2>1. op' = Idle /\ (ret' = ret \/ ret'.status \in {"None", "Ok"})
    BY <1>2 DEF NextItem, DropIter
  <2>2. QED  BY <2>1, ReturnMends
<1>3. CASE \E i \in Items: CallStore(i)
  BY <1>1, <1>3 DEF CallStore, Functions
<1>4. CASE \E k \in Keys: CallFetch(k)
  BY <1>1, <1>4 DEF CallFetch, Functions
<1>5. CASE \E k \in Keys: CallRemove(k)
  BY <1>1, <1>5 DEF CallRemove, Functions
<1>6. CASE CallRemoveAll \/ CallIter
  BY <1>1, <1>6 DEF CallRemoveAll, CallIter, Functions
<1>7. CASE CallEraseAll
  BY <1>1, <1>7 DEF Functions
<1>8. QED  BY <1>2, <1>3, <1>4, <1>5, <1>6, <1>7 DEF UserCall

\* A flash operation completes: the source page of a migration is not written to.
LEMMA FlashDoneMends ==
  ASSUME RInv, FlashDone, UNCHANGED <<keys, op, iter, ret, faults>>
  PROVE  Mended' /\ Scanning' /\ AlwaysRepaired'
<1>1. flash' = Completed(io) /\ io # NoIO /\ io' = NoIO /\ UNCHANGED <<op, ret>>
  BY DEF FlashDone
<1>2. /\ flash \in [Pages -> Page] /\ io \in IOType /\ HasData(io) /\ op \in OpType
      /\ flash' \in [Pages -> Page]
  <2>1. flash \in [Pages -> Page] /\ io \in IOType /\ HasData(io) /\ op \in OpType
    BY Typed DEF RInv, OInv
  <2>2. QED  BY <1>1, <2>1, FlashType
<1>3. Then' = Then
  <2>1. Completed(io)' = flash'
    BY <1>1, <1>2, NoIOCompleted
  <2>2. QED  BY <1>1, <2>1 DEF Then
<1>4. Mended' /\ AlwaysRepaired'
  BY <1>1, <1>3 DEF RInv, Mended, AlwaysRepaired
<1>5. op.pc \in {"migrate", "copy"} => flash'[Source] = flash[Source]
  <2>1. SUFFICES ASSUME op.pc \in {"migrate", "copy"} PROVE flash'[Source] = flash[Source]
    OBVIOUS
  <2>2. io.page = op.page /\ io.cmd # "erase_all"
    BY <1>1, <2>1 DEF RInv, Scanning, OInv, OrderInv
  <2>3. Source \in Pages /\ Source # op.page
    BY <1>2, NextIs DEF Source, OpType
  <2>4. flash' = [flash EXCEPT ![op.page] = Applied(@, io)]
    BY <1>1, <2>2 DEF Completed
  <2>5. QED  BY <1>2, <2>3, <2>4
<1>6. Scanning'
  BY <1>1, <1>5 DEF RInv, Scanning, Source
<1>7. QED  BY <1>4, <1>6

\* Faults end the call.
LEMMA FaultMends ==
  ASSUME RInv, Fail \/ PowerLoss
  PROVE  Mended' /\ Scanning' /\ AlwaysRepaired'
<1>1. op' = Idle /\ ret'.status \in {"Storage", "PowerLoss"}
  BY DEF Fail, PowerLoss, Return, Result
<1>2. QED  BY <1>1, ReturnMends

\* fetch_item.
LEMMA FetchItemMends ==
  ASSUME RInv, KeySlots = 0, FetchItem
  PROVE  Mended' /\ Scanning' /\ AlwaysRepaired'
<1> DEFINE got == FetchWithLocation(Refresh(cache), RefreshKeys, op.key)
<1>1. /\ op.pc = "fetch_item" /\ io = NoIO /\ UNCHANGED <<flash, iter>>
      /\ IF got.status = "Corrupted" THEN HandleCorruption(got.cache, got.keys)
         ELSE Return(IF got.status = "None" THEN Result("None")
                     ELSE ItemResult(flash[got.page].words[got.addr].crc))
  BY DEF FetchItem, At
<1>2. /\ flash \in [Pages -> Page] /\ Now \in [Pages -> PageState] /\ Ordered(Now) /\ Then = Now
      /\ op \in OpType /\ op.key \in Keys
  <2>1. /\ flash \in [Pages -> Page] /\ Now \in [Pages -> PageState] /\ Ordered(Now) /\ Then = Now
        /\ op \in OpType /\ Shape(op)
    BY <1>1, Running DEF RInv
  <2>2. op.fn = "fetch_item"
    BY <1>1, <2>1 DEF Shape, Functions
  <2>3. QED  BY <2>1, <2>2 DEF Shape
<1>3. CASE got.status = "Corrupted"
  <2>1. Refresh(cache) \in CacheType /\ Good(Refresh(cache))
    BY <1>1, RefreshGood DEF RInv
  <2>2. RefreshKeys \in KeysType
    BY Typed, NoKeysType DEF RInv, OInv, RefreshKeys
  <2>3. \E p \in Pages: Now[p] = "Corrupted"
    BY <1>2, <1>3, <2>1, <2>2, FetchIsSearch, SearchTorn
  <2>4. ~op.retried
    BY <1>1, <1>2, <2>3 DEF RInv, Mended
  <2> HIDE DEF got
  <2>5. QED  BY <1>1, <1>2, <1>3, <2>3, <2>4, TornInUse, CorruptionMends
<1>4. CASE got.status # "Corrupted"
  <2> HIDE DEF got
  <2>1. op' = Idle /\ ret'.status \in {"None", "Ok"}
    BY <1>1, <1>4 DEF Return, Result, ItemResult
  <2>2. QED  BY <2>1, ReturnMends
<1>5. QED  BY <1>3, <1>4

\* A step that comes to, or goes on with, the scan of a migration.
LEMMA ScanMends ==
  ASSUME RInv, ret' = ret, op'.pc = "migrate",
         op'.retried <=> op.retried, op'.repairing <=> op.repairing,
         op.retried => \A p \in Pages: Then'[p] # "Corrupted",
         io' = NoIO \/ io'.page = op'.page,
         \/ op'.from = 0
         \/ /\ flash' = flash /\ op'.page = op.page
            /\ PresentItems(flash[Source].words, op'.from) \subseteq PresentItems(flash[Source].words, 0)
  PROVE  Mended' /\ Scanning' /\ AlwaysRepaired'
<1>1. Mended' /\ AlwaysRepaired'
  BY DEF RInv, Mended, AlwaysRepaired
<1>2. CASE op'.from = 0
  BY <1>1, <1>2 DEF Scanning
<1>3. CASE /\ flash' = flash /\ op'.page = op.page
           /\ PresentItems(flash[Source].words, op'.from) \subseteq PresentItems(flash[Source].words, 0)
  BY <1>1, <1>3 DEF Scanning, Source
<1>4. QED  BY <1>1, <1>2, <1>3

-----------------------------------------------------------------------------
\* A round of store_item with a page in use.
LEMMA StoreOnPageMends ==
  ASSUME RInv, IInv', NEW c \in CacheType, Good(c), NEW ks, NEW partial \in Pages,
         Now[partial] = "PartialOpen", op.pc = "store_item", io = NoIO,
         UNCHANGED flash, StoreOnPage(c, ks, partial)
  PROVE  Mended' /\ Scanning' /\ AlwaysRepaired'
<1> DEFINE next == NextPage(partial)
           known == Learn(c, {next})
           spot == FreeSpot(known, partial)
<1>1. /\ flash \in [Pages -> Page] /\ op \in OpType
      /\ Now \in [Pages -> PageState] /\ Then = Now /\ Ordered(Now)
  BY Running DEF RInv
<1>2. known \in CacheType /\ Good(known)
  BY <1>1, LearnType, GoodOps
<1>3. next \in Pages /\ StateOf(c, next) = Now[next]
  BY <1>1, NextIs, StateIsMark DEF Now, Marks
<1>4. op.retried => (\A p \in Pages: Now[p] # "Corrupted") /\ Buffered(Now)
  BY <1>1 DEF RInv, Mended
<1> HIDE DEF known, spot
<1>5. CASE StateOf(c, next) # "Open" /\ HandleCorruption(known, ks)
  <2>1. ~op.retried
    BY <1>1, <1>3, <1>4, <1>5, OneInUse DEF Buffered
  <2>2. QED  BY <1>5, <2>1, CorruptionMends
<1>6. CASE Return(Result("ItemTooBig"))
  <2>1. op' = Idle /\ ret'.status # "Corrupted"
    BY <1>6 DEF Return, Result
  <2>2. QED  BY <2>1, ReturnMends
<1>7. CASE /\ WriteHeader(known, partial, spot, op.item)
           /\ op' = [op EXCEPT !.pc = "data", !.page = partial, !.addr = spot]
           /\ UNCHANGED ret
  <2>1. op'.pc = "data" /\ op'.retried = op.retried /\ op'.repairing = op.repairing
    BY <1>1, <1>7 DEF OpType
  <2>2. io'.cmd = "header" /\ io' \in IOType
    BY <1>7 DEF WriteHeader, ItemIO, IInv, TypeOK
  <2>3. Then' = Now
    BY <1>1, <2>2, WordMarks
  <2>4. QED  BY <1>4, <1>7, <2>1, <2>3, QuietMends
<1>8. CASE /\ ClosePage(known, partial)
           /\ op' = [op EXCEPT !.pc = "closed", !.page = next]
           /\ UNCHANGED ret
  <2>1. op'.pc = "closed" /\ op'.retried = op.retried /\ op'.repairing = op.repairing
    BY <1>1, <1>8 DEF OpType
  <2>2. Then' = [Now EXCEPT ![partial] = "Closed"]
    BY <1>1, <1>2, <1>8, MarkerMarks
  <2>3. op.retried => \A p \in Pages: Then'[p] # "Corrupted"
    BY <1>1, <1>4, <2>2
  <2>4. QED  BY <1>8, <2>1, <2>3, QuietMends
<1>9. QED
  BY <1>5, <1>6, <1>7, <1>8 DEF StoreOnPage, next, known, spot

\* A round that puts the first page to use, which a second attempt never does.
LEMMA StoreOnFirstMends ==
  ASSUME RInv, NEW c \in CacheType, Good(c), NEW d, Good(d), NEW ks, NEW partial,
         partial \notin Pages, partial = FindFirst(d, 0, "PartialOpen"),
         op.pc = "store_item", io = NoIO,
         UNCHANGED flash, StoreOnFirst(c, ks, partial)
  PROVE  Mended' /\ Scanning' /\ AlwaysRepaired'
<1> DEFINE open == FindFirst(c, 0, "Open")
<1>1. /\ flash \in [Pages -> Page] /\ op \in OpType
      /\ Now \in [Pages -> PageState] /\ Then = Now /\ Ordered(Now)
  BY Running DEF RInv
<1>2. op.retried => (\A p \in Pages: Now[p] # "Corrupted") /\ Buffered(Now)
  BY <1>1 DEF RInv, Mended
<1>3. /\ partial \in {NoPage, CorruptedPage}
      /\ partial = NoPage => \A p \in Pages: Now[p] \notin {"PartialOpen", "Corrupted"}
      /\ partial = CorruptedPage => \E p \in Pages: Now[p] = "Corrupted"
  BY <1>1, SmallTypes, FoundFirst
<1>4. /\ open \in Pages \cup {NoPage, CorruptedPage}
      /\ open = NoPage => \A p \in Pages: Now[p] \notin {"Open", "Corrupted"}
      /\ open = CorruptedPage => \E p \in Pages: Now[p] = "Corrupted"
  BY <1>1, SmallTypes, FoundFirst
<1>5. \/ /\ partial = CorruptedPage \/ open \notin Pages
         /\ HandleCorruption(c, ks)
      \/ /\ partial = NoPage /\ open \in Pages
         /\ op' = [op EXCEPT !.level = @ + 1]
         /\ UNCHANGED ret
  BY DEF StoreOnFirst
<1> HIDE DEF open
<1>6. CASE /\ partial = CorruptedPage \/ open \notin Pages
           /\ HandleCorruption(c, ks)
  <2>1. \E p \in Pages: Now[p] = "Corrupted"
    BY <1>1, <1>3, <1>4, <1>6, SomeRoom
  <2>2. \E q \in Pages: Now[q] = "PartialOpen"
    BY <1>1, <2>1, TornInUse
  <2>3. ~op.retried
    BY <1>2, <2>1
  <2>4. QED  BY <1>6, <2>2, <2>3, CorruptionMends
<1>7. CASE partial = NoPage /\ op' = [op EXCEPT !.level = @ + 1] /\ UNCHANGED ret
  <2>1. op'.pc = "store_item" /\ op'.retried = op.retried /\ op'.repairing = op.repairing
    BY <1>1, <1>7 DEF OpType
  <2>2. ~op.retried
    BY <1>2, <1>3, <1>7 DEF Buffered
  <2>3. QED  BY <1>7, <2>1, <2>2, QuietMends
<1>8. QED  BY <1>5, <1>6, <1>7

\* A round of store_item.
LEMMA StoreRoundMends ==
  ASSUME RInv, IInv', StoreRound
  PROVE  Mended' /\ Scanning' /\ AlwaysRepaired'
<1> DEFINE c == IF op.level = 0 THEN Refresh(cache) ELSE cache
           ks == IF op.level = 0 THEN RefreshKeys ELSE keys
           known == LearnLastUsed(c)
           partial == FindFirst(c, 0, "PartialOpen")
<1>1. /\ op.pc = "store_item" /\ io = NoIO /\ UNCHANGED flash
      /\ \/ Return(Result("FullStorage"))
         \/ IF partial \in Pages THEN StoreOnPage(known, ks, partial)
            ELSE StoreOnFirst(known, ks, partial)
  BY DEF StoreRound, At
<1>2. flash \in [Pages -> Page] /\ cache \in CacheType /\ op.level \in 0 .. PageCount
  BY <1>1, Running DEF RInv, OpType
<1>3. c \in CacheType /\ Good(c)
  <2>1. CASE op.level = 0
    BY <1>1, <1>2, <2>1, RefreshGood DEF RInv
  <2>2. CASE op.level # 0
    <3>1. Trusted
      BY <1>1, <1>2, <2>2, PageCountAssumption DEF Trusted
    <3>2. QED  BY <1>1, <1>2, <2>2, <3>1, Running DEF RInv
  <2>3. QED  BY <2>1, <2>2
<1> HIDE DEF c, ks
<1>4. known \in CacheType /\ Good(known)
  BY <1>2, <1>3, LearnType, GoodOps DEF LearnLastUsed
<1>5. partial \in Pages => Now[partial] = "PartialOpen"
  BY <1>2, <1>3, SmallTypes, FoundFirst
<1> HIDE DEF known
<1>6. CASE Return(Result("FullStorage"))
  <2>1. op' = Idle /\ ret'.status # "Corrupted"
    BY <1>6 DEF Return, Result
  <2>2. QED  BY <2>1, ReturnMends
<1>7. CASE partial \in Pages /\ StoreOnPage(known, ks, partial)
  BY <1>1, <1>4, <1>5, <1>7, StoreOnPageMends
<1>8. CASE partial \notin Pages /\ StoreOnFirst(known, ks, partial)
  BY <1>1, <1>3, <1>4, <1>8, StoreOnFirstMends
<1>9. QED  BY <1>1, <1>6, <1>7, <1>8

\* The data of the item, and the end of the call.
LEMMA StoreDataMends ==
  ASSUME RInv, IInv', StoreData \/ StoreFinish
  PROVE  Mended' /\ Scanning' /\ AlwaysRepaired'
<1>1. op.pc \in {"data", "finish"} /\ io = NoIO /\ UNCHANGED flash
  BY DEF StoreData, StoreFinish, At
<1>2. flash \in [Pages -> Page] /\ op \in OpType /\ Then = Now
  BY <1>1, Running DEF RInv
<1>3. CASE StoreData
  <2>1. op' = [op EXCEPT !.pc = "finish"] /\ UNCHANGED ret
        /\ io' = (IF Size[op.item] = 0 THEN NoIO ELSE ItemIO("data", op.page, op.addr, op.item))
    BY <1>3 DEF StoreData, WriteData
  <2>2. io'.cmd \in {"none", "data"} /\ io' \in IOType
    BY <2>1, NoIOType DEF ItemIO, IInv, TypeOK
  <2>3. op'.pc = "finish" /\ op'.retried = op.retried /\ op'.repairing = op.repairing
    BY <1>2, <2>1 DEF OpType
  <2>4. Then' = Then
    BY <1>1, <1>2, <2>2, WordMarks
  <2>5. op.retried => \A p \in Pages: Then'[p] # "Corrupted"
    BY <1>1, <2>4 DEF RInv, Mended
  <2>6. QED  BY <2>1, <2>3, <2>5, QuietMends
<1>4. CASE StoreFinish
  <2>1. op' = Idle /\ ret'.status # "Corrupted"
    BY <1>4 DEF StoreFinish, Return, Result
  <2>2. QED  BY <2>1, ReturnMends
<1>5. QED  BY <1>3, <1>4

\* The next page becomes the one to write to.
LEMMA StoreNextPageMends ==
  ASSUME RInv, StoreNextPage
  PROVE  Mended' /\ Scanning' /\ AlwaysRepaired'
<1> DEFINE known == Learn(cache, {op.page})
<1>1. /\ op.pc = "closed" /\ io = NoIO /\ UNCHANGED <<flash, ret>>
      /\ PartialClosePage(known, op.page) /\ op' = [op EXCEPT !.pc = "opened"]
  BY DEF StoreNextPage, At
<1>2. /\ flash \in [Pages -> Page] /\ op \in OpType /\ op.page \in Pages /\ cache \in CacheType
      /\ Now \in [Pages -> PageState] /\ Planned(op, Now) /\ Then = Now
  BY <1>1, Running DEF RInv, OpType
<1>3. known \in CacheType /\ Good(known)
  <2>1. Good(cache)
    BY <1>1, Running DEF RInv, Trusted, RefreshedPCs
  <2>2. QED  BY <1>2, <2>1, LearnType, GoodOps
<1> HIDE DEF known
<1>4. Then' = [Now EXCEPT ![op.page] = "PartialOpen"]
  BY <1>1, <1>2, <1>3, MarkerMarks DEF Planned
<1>5. op'.pc = "opened" /\ op'.retried = op.retried /\ op'.repairing = op.repairing
  BY <1>1, <1>2 DEF OpType
<1>6. op.retried => \A p \in Pages: Then'[p] # "Corrupted"
  <2>1. op.retried => \A p \in Pages: Now[p] # "Corrupted"
    BY <1>1, <1>2 DEF RInv, Mended
  <2>2. QED  BY <1>2, <1>4, <2>1
<1>7. QED  BY <1>1, <1>5, <1>6, QuietMends

\* The page after it is a buffer, or is migrated to become one.
LEMMA StoreBufferMends ==
  ASSUME RInv, StoreBuffer
  PROVE  Mended' /\ Scanning' /\ AlwaysRepaired'
<1> DEFINE buffer == NextPage(op.page)
           state == StateOf(cache, buffer)
           known == Learn(cache, {buffer})
<1>1. /\ op.pc = "opened" /\ io = NoIO /\ UNCHANGED flash
      /\ IF state = "Corrupted" THEN HandleCorruption(known, keys)
         ELSE /\ op' = IF state = "Open"
                       THEN [op EXCEPT !.pc = "store_item", !.level = @ + 1, !.page = 0]
                       ELSE [op EXCEPT !.pc = "migrate", !.addr = 0, !.from = 0]
              /\ UNCHANGED <<io, ret>>
  BY DEF StoreBuffer, At
<1>2. /\ flash \in [Pages -> Page] /\ op \in OpType /\ op.page \in Pages
      /\ Then = Now /\ Planned(op, Now) /\ Good(cache)
  BY <1>1, Running DEF RInv, OpType, Trusted, RefreshedPCs
<1>3. Now[op.page] = "PartialOpen" /\ buffer \in Pages /\ state = Now[buffer]
  BY <1>1, <1>2, NextIs, StateIsMark DEF Planned, Now, Marks
<1>4. op.retried => \A p \in Pages: Now[p] # "Corrupted"
  BY <1>1, <1>2 DEF RInv, Mended
<1> HIDE DEF known, state
<1>5. CASE state = "Corrupted"
  <2>1. ~op.retried /\ \E q \in Pages: Now[q] = "PartialOpen"
    BY <1>2, <1>3, <1>4, <1>5
  <2>2. HandleCorruption(known, keys)
    BY <1>1, <1>5
  <2>3. QED  BY <1>1, <2>1, <2>2, CorruptionMends
<1>6. CASE state # "Corrupted"
  <2>1. Then' = Now
    BY <1>1, <1>2, <1>6, QuietMarks
  <2>2. CASE state = "Open"
    <3>1. op' = [op EXCEPT !.pc = "store_item", !.level = @ + 1, !.page = 0]
      BY <1>1, <2>2
    <3>2. op'.pc = "store_item" /\ op'.retried = op.retried /\ op'.repairing = op.repairing
      BY <1>2, <3>1 DEF OpType
    <3>3. Buffered(Now)
      BY <1>2, <1>3, <2>2 DEF Buffered
    <3>4. QED  BY <1>1, <1>4, <1>6, <2>1, <3>2, <3>3, QuietMends
  <2>3. CASE state # "Open"
    <3>1. op' = [op EXCEPT !.pc = "migrate", !.addr = 0, !.from = 0] /\ io' = NoIO
      BY <1>1, <1>6, <2>3
    <3>2. /\ op'.pc = "migrate" /\ op'.retried = op.retried /\ op'.repairing = op.repairing
          /\ op'.from = 0
      BY <1>2, <3>1 DEF OpType
    <3>3. QED  BY <1>1, <1>4, <1>6, <2>1, <3>1, <3>2, ScanMends
  <2>4. QED  BY <2>2, <2>3
<1>7. QED  BY <1>5, <1>6

-----------------------------------------------------------------------------
\* A migration looks at an item. It always finds the newest with its key: the pages that
\* the search passes on its way to the source page are closed.
LEMMA MigrateItemMends ==
  ASSUME RInv, IInv', KeySlots = 0, MigrateItem
  PROVE  Mended' /\ Scanning' /\ AlwaysRepaired'
<1> DEFINE ws == flash[Source].words
           left == PresentItems(ws, op.from)
           a == Min(left)
           key == KeyAt(ws, a)
           got == FetchWithLocation(UnmarkDirty(cache), keys, key)
<1>1. /\ op.pc = "migrate" /\ io = NoIO /\ UNCHANGED flash /\ left # {}
      /\ \/ got.status # "Ok"
         \/ /\ WriteHeader(got.cache, op.page, op.addr, ws[a].crc)
            /\ op' = [op EXCEPT !.pc = "copy", !.from = a] /\ UNCHANGED ret
         \/ /\ op' = [op EXCEPT !.from = NextAddr(ws, a)]
            /\ UNCHANGED <<io, ret>>
  BY DEF MigrateItem, At
<1>2. /\ flash \in [Pages -> Page] /\ op \in OpType /\ op.page \in Pages /\ op.from \in 0 .. PageWords
      /\ cache \in CacheType /\ Good(cache)
      /\ Now \in [Pages -> PageState] /\ Ordered(Now) /\ Then = Now /\ Planned(op, Now)
  BY <1>1, Running DEF RInv, OpType, Trusted, RefreshedPCs
<1>3. Source \in Pages /\ Source = NextPage(op.page) /\ Source # op.page
  BY <1>2, NextIs DEF Source
<1>4. ws \in [Addrs -> Word]
  BY <1>2, <1>3 DEF Page
<1>5. left \subseteq PresentItems(ws, 0)
  BY <1>1 DEF RInv, Scanning
<1>6. a \in PresentItems(ws, 0)
  <2>1. left \in SUBSET Nat
    BY <1>2, <1>4, PresentItemsType
  <2>2. a \in left
    BY <1>1, <2>1, MinInSet
  <2>3. QED  BY <1>5, <2>2
<1>7. a \in Addrs /\ key \in Keys
  <2>1. PresentItems(ws, 0) \subseteq {x \in Addrs: x >= 0 /\ IsPresent(ws, x)}
    BY <1>4, SmallTypes, PresentItemsType
  <2> HIDE DEF ws, a
  <2>2. a \in Addrs /\ IsPresent(ws, a)
    BY <1>6, <2>1
  <2>3. QED  BY <1>4, <2>2, PresentType
<1>8. got.status = "Ok"
  <2>1. Now[op.page] = "PartialOpen" /\ Now[Source] = "Closed"
    BY <1>1, <1>2, <1>3 DEF Planned
  <2>2. \A p \in Pages: p # op.page => Now[p] = "Closed"
    BY <1>2, <1>3, <2>1, NoBuffer
  <2>3. ItemsWithKey(NextPage(op.page), key) # {}
    BY <1>3, <1>6 DEF ItemsWithKey
  <2>4. UnmarkDirty(cache) \in CacheType /\ Good(UnmarkDirty(cache))
    BY <1>2, DirtyType, GoodOps
  <2>5. keys \in KeysType
    BY Typed DEF RInv, OInv
  <2>6. got = Search(UnmarkDirty(cache), keys, key)
    BY <2>5, FetchIsSearch
  <2> HIDE DEF got, key, a, ws
  <2>7. Search(UnmarkDirty(cache), keys, key).status = "Ok"
    BY <1>2, <1>7, <2>1, <2>2, <2>3, <2>4, SearchFinds
  <2>8. QED  BY <2>6, <2>7
<1>9. op.retried => \A p \in Pages: Now[p] # "Corrupted"
  BY <1>1, <1>2 DEF RInv, Mended
<1> HIDE DEF got
<1>10. CASE /\ WriteHeader(got.cache, op.page, op.addr, ws[a].crc)
            /\ op' = [op EXCEPT !.pc = "copy", !.from = a] /\ UNCHANGED ret
  <2>1. io'.cmd = "header" /\ io'.page = op.page /\ io' \in IOType
    BY <1>10 DEF WriteHeader, ItemIO, IInv, TypeOK
  <2> HIDE DEF a, left, key
  <2>2. /\ op'.pc = "copy" /\ op'.from = a /\ op'.page = op.page
        /\ op'.retried = op.retried /\ op'.repairing = op.repairing
    BY <1>2, <1>10 DEF OpType
  <2>3. Then' = Now
    BY <1>1, <1>2, <2>1, WordMarks
  <2>4. Mended' /\ AlwaysRepaired'
    BY <1>9, <1>10, <2>2, <2>3 DEF RInv, Mended, AlwaysRepaired
  <2>5. Scanning'
    BY <1>1, <1>6, <2>1, <2>2 DEF Scanning, Source
  <2>6. QED  BY <2>4, <2>5
<1>11. CASE op' = [op EXCEPT !.from = NextAddr(ws, a)] /\ UNCHANGED <<io, ret>>
  <2> HIDE DEF a, left, key
  <2>1. PresentItems(ws, NextAddr(ws, a)) \subseteq PresentItems(ws, 0)
    <3> HIDE DEF ws
    <3>1. QED  BY <1>4, <1>6, SmallTypes, ItemsBehind
  <2>2. /\ op'.pc = "migrate" /\ op'.from = NextAddr(ws, a) /\ op'.page = op.page
        /\ op'.retried = op.retried /\ op'.repairing = op.repairing
    BY <1>1, <1>2, <1>11 DEF OpType
  <2>3. Then' = Now /\ io' = NoIO
    BY <1>1, <1>2, <1>11, QuietMarks
  <2>4. QED  BY <1>1, <1>9, <1>11, <2>1, <2>2, <2>3, ScanMends
<1>12. QED  BY <1>1, <1>8, <1>10, <1>11

\* The data of the copy.
LEMMA MigrateDataMends ==
  ASSUME RInv, IInv', MigrateData
  PROVE  Mended' /\ Scanning' /\ AlwaysRepaired'
<1> DEFINE ws == flash[Source].words
<1>1. /\ op.pc = "copy" /\ io = NoIO /\ UNCHANGED <<flash, ret>>
      /\ \E a, i: io' = (IF Size[i] = 0 THEN NoIO ELSE ItemIO("data", op.page, a, i))
      /\ \E a: op' = [op EXCEPT !.pc = "migrate", !.addr = a, !.from = NextAddr(ws, op.from)]
  <2>1. \E a: op' = [op EXCEPT !.pc = "migrate", !.addr = a, !.from = NextAddr(ws, @)]
    BY DEF MigrateData
  <2>2. QED  BY <2>1 DEF MigrateData, At, WriteData
<1>2. flash \in [Pages -> Page] /\ op \in OpType /\ op.page \in Pages /\ Then = Now
  BY <1>1, Running DEF RInv, OpType
<1>3. ws \in [Addrs -> Word]
  BY <1>2, NextIs DEF Source, Page
<1>4. PresentItems(ws, NextAddr(ws, op.from)) \subseteq PresentItems(ws, 0)
  <2>1. op.from \in PresentItems(ws, 0)
    BY <1>1 DEF RInv, Scanning
  <2> HIDE DEF ws
  <2>2. QED  BY <1>3, <2>1, SmallTypes, ItemsBehind
<1>5. io'.cmd \in {"none", "data"} /\ io' \in IOType /\ (io' = NoIO \/ io'.page = op.page)
  BY <1>1, NoIOType DEF ItemIO, IInv, TypeOK
<1>6. Then' = Now
  BY <1>1, <1>2, <1>5, WordMarks
<1>7. /\ op'.pc = "migrate" /\ op'.page = op.page /\ op'.from = NextAddr(ws, op.from)
      /\ op'.retried = op.retried /\ op'.repairing = op.repairing
  BY <1>1, <1>2 DEF OpType
<1>8. op.retried => \A p \in Pages: Now[p] # "Corrupted"
  BY <1>1, <1>2 DEF RInv, Mended
<1>9. QED  BY <1>1, <1>4, <1>5, <1>6, <1>7, <1>8, ScanMends

\* Then the source page is erased and becomes the buffer; the call goes on.
LEMMA MigrateEndMends ==
  ASSUME RInv, MigrateErase \/ MigrateDone
  PROVE  Mended' /\ Scanning' /\ AlwaysRepaired'
<1>1. op.pc \in {"migrate", "migrated"} /\ io = NoIO /\ UNCHANGED <<flash, ret>>
  BY DEF MigrateErase, MigrateDone, At
<1>2. /\ flash \in [Pages -> Page] /\ op \in OpType /\ op.page \in Pages /\ cache \in CacheType
      /\ Good(cache) /\ Now \in [Pages -> PageState] /\ Planned(op, Now) /\ Then = Now
  BY <1>1, Running DEF RInv, Trusted, RefreshedPCs, OpType
<1>3. op.retried => \A p \in Pages: Now[p] # "Corrupted"
  BY <1>1, <1>2 DEF RInv, Mended
<1>4. CASE MigrateErase
  <2>1. /\ op.pc = "migrate" /\ OpenPage(cache, Source) /\ op' = [op EXCEPT !.pc = "migrated"]
        /\ Source = NextPage(op.page) /\ Source \in Pages /\ Source # op.page
    BY <1>2, <1>4, NextIs DEF MigrateErase, At, Source
  <2>2. Now[op.page] = "PartialOpen"
    BY <1>2, <2>1 DEF Planned
  <2>3. Then' = [Now EXCEPT ![Source] = "Open"]
    BY <1>1, <1>2, <2>1, MarkerMarks
  <2>4. Buffered(Then')
    BY <1>2, <2>1, <2>2, <2>3 DEF Buffered
  <2>5. op.retried => \A p \in Pages: Then'[p] # "Corrupted"
    BY <1>2, <1>3, <2>1, <2>3
  <2>6. op'.pc = "migrated" /\ op'.retried = op.retried /\ op'.repairing = op.repairing
    BY <1>2, <2>1 DEF OpType
  <2>7. QED  BY <1>1, <2>4, <2>5, <2>6, QuietMends
<1>5. CASE MigrateDone
  <2>1. op.pc = "migrated" /\ UNCHANGED io
        /\ IF op.repairing THEN Restart
           ELSE op' = [op EXCEPT !.pc = "store_item", !.level = @ + 1, !.page = 0,
                                 !.addr = 0, !.from = 0]
    BY <1>5 DEF MigrateDone, At
  <2>2. op.retried => Buffered(Now)
    BY <1>2, <2>1 DEF RInv, Mended
  <2>3. CASE op.repairing
    <3>1. op.retried
      BY <2>3 DEF RInv, Mended
    <3>2. QED  BY <1>1, <1>3, <2>1, <2>2, <2>3, <3>1, RestartMends
  <2>4. CASE ~op.repairing
    <3>1. op'.pc = "store_item" /\ op'.retried = op.retried /\ op'.repairing = op.repairing
      BY <1>2, <2>1, <2>4 DEF OpType
    <3>2. Then' = Now
      BY <1>1, <1>2, <2>1, QuietMarks
    <3>3. QED  BY <1>1, <1>3, <2>2, <3>1, <3>2, QuietMends
  <2>5. QED  BY <2>3, <2>4
<1>6. QED  BY <1>4, <1>5

-----------------------------------------------------------------------------
\* A half-erased page is erased; the page in use stays.
LEMMA RepairPageMends ==
  ASSUME RInv, RepairPage
  PROVE  Mended' /\ Scanning' /\ AlwaysRepaired'
<1> DEFINE p == Min(TornPages)
           known == Learn(cache, op.page .. p)
<1>1. /\ op.pc = "repair" /\ io = NoIO /\ UNCHANGED <<flash, ret>> /\ TornPages # {}
      /\ OpenPage(known, p) /\ op' = [op EXCEPT !.page = p]
  BY DEF RepairPage, At
<1>2. /\ flash \in [Pages -> Page] /\ op \in OpType /\ cache \in CacheType /\ Good(cache)
      /\ Now \in [Pages -> PageState] /\ Then = Now /\ Shape(op)
  BY <1>1, Running DEF RInv, Trusted, RefreshedPCs
<1>3. p \in Pages /\ Now[p] = "Corrupted"
  <2>1. TornPages \in SUBSET Nat
    BY PageCountAssumption DEF TornPages, Pages
  <2>2. p \in TornPages
    BY <1>1, <2>1, MinInSet
  <2>3. p \in Pages /\ StateOf(cache, p) = "Corrupted"
    BY <2>2 DEF TornPages
  <2>4. QED  BY <1>2, <2>3, StateIsMark DEF Now, Marks
<1>4. known \in CacheType /\ Good(known)
  BY <1>2, LearnType, GoodOps
<1> HIDE DEF p, known
<1>5. Then' = [Now EXCEPT ![p] = "Open"]
  BY <1>1, <1>2, <1>3, <1>4, MarkerMarks
<1>6. op.retried /\ \E q \in Pages: Now[q] = "PartialOpen"
  BY <1>1, <1>2 DEF RInv, Mended, Shape
<1>7. \E q \in Pages: Then'[q] = "PartialOpen"
  BY <1>2, <1>3, <1>5, <1>6
<1>8. op'.pc = "repair" /\ op'.retried = op.retried
  BY <1>1, <1>2 DEF OpType
<1>9. QED  BY <1>1, <1>6, <1>7, <1>8 DEF RInv, Mended, Scanning, AlwaysRepaired

\* Without half-erased pages the page in use has its buffer, or its migration is done again.
LEMMA RepairMigrationMends ==
  ASSUME RInv, RepairMigration
  PROVE  Mended' /\ Scanning' /\ AlwaysRepaired'
<1> DEFINE known == Learn(cache, Pages)
           p == FindFirst(known, 0, "PartialOpen")
<1>1. /\ op.pc = "repair" /\ io = NoIO /\ UNCHANGED <<flash, ret>> /\ TornPages = {}
      /\ IF p \in Pages /\ StateOf(known, NextPage(p)) # "Open"
         THEN OpenPage(known, p) /\ op' = [op EXCEPT !.pc = "reopen", !.page = p]
         ELSE Restart /\ UNCHANGED io
  BY DEF RepairMigration, At
<1>2. /\ flash \in [Pages -> Page] /\ op \in OpType /\ op.page \in Pages /\ cache \in CacheType
      /\ Good(cache) /\ Shape(op)
      /\ Now \in [Pages -> PageState] /\ Then = Now /\ Planned(op, Now)
  BY <1>1, Running DEF RInv, Trusted, RefreshedPCs, OpType
<1>3. known \in CacheType /\ Good(known)
  BY <1>2, LearnType, GoodOps
<1> HIDE DEF known
<1>4. \A r \in Pages: Now[r] # "Corrupted"
  <2>1. SUFFICES ASSUME NEW r \in Pages, r >= op.page PROVE Now[r] # "Corrupted"
    BY <1>1, <1>2, PageCountAssumption DEF Planned, Pages
  <2>2. StateOf(cache, r) # "Corrupted"
    BY <1>1, <2>1 DEF TornPages
  <2>3. QED  BY <1>2, <2>2, StateIsMark DEF Now, Marks
<1>5. op.retried /\ \E q \in Pages: Now[q] = "PartialOpen"
  BY <1>1, <1>2 DEF RInv, Mended, Shape
<1>6. p \in Pages /\ Now[p] = "PartialOpen"
  <2>1. /\ p \in Pages \cup {NoPage, CorruptedPage}
        /\ p = NoPage => \A q \in Pages: Now[q] \notin {"PartialOpen", "Corrupted"}
        /\ p = CorruptedPage => \E q \in Pages: Now[q] = "Corrupted"
        /\ p \in Pages => Now[p] = "PartialOpen"
    BY <1>2, <1>3, SmallTypes, FoundFirst
  <2> HIDE DEF p
  <2>2. QED  BY <1>4, <1>5, <2>1
<1> HIDE DEF p
<1>7. CASE StateOf(known, NextPage(p)) # "Open"
  <2>1. op'.pc = "reopen" /\ op'.retried = op.retried /\ op'.repairing = op.repairing
    BY <1>1, <1>2, <1>6, <1>7 DEF OpType
  <2>2. Then' = [Now EXCEPT ![p] = "Open"]
    BY <1>1, <1>2, <1>3, <1>6, <1>7, MarkerMarks
  <2>3. \A r \in Pages: Then'[r] # "Corrupted"
    BY <1>2, <1>4, <2>2
  <2>4. QED  BY <1>1, <2>1, <2>3, QuietMends
<1>8. CASE StateOf(known, NextPage(p)) = "Open"
  <2>1. NextPage(p) \in Pages
    BY <1>6, NextIs
  <2>2. Now[NextPage(p)] = "Open"
    BY <1>3, <1>8, <2>1, StateIsMark DEF Now, Marks
  <2>3. Buffered(Now)
    BY <1>6, <2>2 DEF Buffered
  <2>4. QED  BY <1>1, <1>4, <1>8, <2>3, RestartMends
<1>9. QED  BY <1>7, <1>8

\* The page in use is put to use again, and the migration starts at the first item.
LEMMA RepairReopenMends ==
  ASSUME RInv, RepairReopen
  PROVE  Mended' /\ Scanning' /\ AlwaysRepaired'
<1>1. /\ op.pc = "reopen" /\ io = NoIO /\ UNCHANGED <<flash, ret>>
      /\ PartialClosePage(cache, op.page) /\ op' = [op EXCEPT !.pc = "migrate", !.addr = 0, !.from = 0]
  BY DEF RepairReopen, At
<1>2. /\ flash \in [Pages -> Page] /\ op \in OpType /\ op.page \in Pages /\ cache \in CacheType
      /\ Good(cache) /\ Now \in [Pages -> PageState] /\ Planned(op, Now)
  BY <1>1, Running DEF RInv, Trusted, RefreshedPCs, OpType
<1>3. \A q \in Pages: Now[q] = IF q = op.page THEN "Open" ELSE "Closed"
  BY <1>1, <1>2 DEF Planned
<1>4. Then' = [Now EXCEPT ![op.page] = "PartialOpen"]
  BY <1>1, <1>2, <1>3, MarkerMarks
<1>5. \A q \in Pages: Then'[q] # "Corrupted"
  BY <1>2, <1>3, <1>4
<1>6. /\ op'.pc = "migrate" /\ op'.page = op.page /\ op'.from = 0
      /\ op'.retried = op.retried /\ op'.repairing = op.repairing
  BY <1>1, <1>2 DEF OpType
<1>7. io' = NoIO \/ io'.page = op.page
  BY <1>1 DEF PartialClosePage, PageIO, NoIO
<1>8. QED  BY <1>1, <1>5, <1>6, <1>7, ScanMends

-----------------------------------------------------------------------------
\* A removal begins.
LEMMA RemoveStartMends ==
  ASSUME RInv, RemoveStart
  PROVE  Mended' /\ Scanning' /\ AlwaysRepaired'
<1> DEFINE all == op.fn = "remove_all_items"
           c == IF all THEN FreshCache ELSE MarkDirty(cache)
           known == LearnLastUsed(c)
           partial == FindFirst(c, 0, "PartialOpen")
<1>1. /\ op.pc \in {"remove_item", "remove_all_items"} /\ io = NoIO /\ UNCHANGED flash
      /\ IF partial = CorruptedPage THEN \E ks: HandleCorruption(known, ks)
         ELSE /\ UNCHANGED <<io, ret>>
              /\ \E p: op' = [op EXCEPT !.pc = "removing", !.page = p]
  BY DEF RemoveStart, At
<1>2. /\ flash \in [Pages -> Page] /\ op \in OpType /\ cache \in CacheType /\ Shape(op)
      /\ Now \in [Pages -> PageState] /\ Ordered(Now) /\ Then = Now
      /\ op.pc = "remove_item" => Good(cache)
  BY <1>1, Running DEF RInv, Trusted, RefreshedPCs
<1>3. Good(c)
  <2>1. CASE all
    BY <2>1, FreshSound
  <2>2. CASE ~all
    <3>1. Good(cache)
      BY <1>1, <1>2, <2>2 DEF Shape, Functions
    <3>2. QED  BY <1>2, <2>2, <3>1, NoticeGood
  <2>3. QED  BY <2>1, <2>2
<1>4. NoPage # CorruptedPage /\ CorruptedPage \notin Pages
  BY PageCountAssumption DEF NoPage, CorruptedPage, Pages
<1>5. partial = CorruptedPage => \E p \in Pages: Now[p] = "Corrupted"
  BY <1>2, <1>3, SmallTypes, FoundFirst
<1>6. op.retried => \A p \in Pages: Now[p] # "Corrupted"
  BY <1>1, <1>2 DEF RInv, Mended
<1> HIDE DEF known, partial, c
<1>7. CASE partial = CorruptedPage
  BY <1>1, <1>2, <1>5, <1>6, <1>7, TornInUse, CorruptionMends
<1>8. CASE partial # CorruptedPage
  <2>1. op'.pc = "removing" /\ op'.retried = op.retried /\ op'.repairing = op.repairing
    BY <1>1, <1>2, <1>8 DEF OpType
  <2>2. Then' = Now
    BY <1>1, <1>2, <1>8, QuietMarks
  <2>3. QED  BY <1>1, <1>6, <1>8, <2>1, <2>2, QuietMends
<1>9. QED  BY <1>7, <1>8

\* An item is erased, or the removal ends.
LEMMA RemoveNextMends ==
  ASSUME RInv, IInv', RemoveNext
  PROVE  Mended' /\ Scanning' /\ AlwaysRepaired'
<1> DEFINE state(j) == StateOf(cache, PageFrom(op.page, j))
           stops == {j \in op.level .. PageCount - 1:
                       state(j) = "Corrupted" \/ (state(j) # "Open" /\ ToRemove(j) # {})}
           i == Min(stops)
           known == Learn(cache, {PageFrom(op.page, j): j \in op.level .. i})
           Corrupts == stops # {} /\ state(i) = "Corrupted" /\ HandleCorruption(known, keys)
           Erases == \E p, a, n: /\ EraseItem(known, p, a)
                                 /\ op' = [op EXCEPT !.level = i, !.from = n] /\ UNCHANGED ret
<1>1. op.pc = "removing" /\ io = NoIO /\ UNCHANGED flash
  BY DEF RemoveNext, At
<1>2. /\ flash \in [Pages -> Page] /\ op \in OpType /\ op.page \in Pages /\ op.level \in 0 .. PageCount
      /\ Good(cache) /\ Now \in [Pages -> PageState] /\ Ordered(Now) /\ Then = Now
  BY <1>1, Running DEF RInv, OpType, Trusted, RefreshedPCs
<1>3. op.retried => \A p \in Pages: Now[p] # "Corrupted"
  BY <1>1, <1>2 DEF RInv, Mended
<1>4. Return(Result("Ok")) \/ Corrupts \/ Erases
  BY Zenon DEF RemoveNext
<1>5. CASE Return(Result("Ok"))
  <2>1. op' = Idle /\ ret'.status # "Corrupted"
    BY <1>5 DEF Return, Result
  <2>2. QED  BY <2>1, ReturnMends
<1>6. CASE Corrupts
  <2>1. stops \in SUBSET Nat
    BY <1>2, PageCountAssumption
  <2>2. i \in stops
    BY <1>6, <2>1, MinInSet
  <2>3. i \in Pages
    BY <1>2, <2>2, PageCountAssumption DEF Pages
  <2>4. PageFrom(op.page, i) \in Pages
    <3> HIDE DEF i
    <3>1. QED  BY <1>2, <2>3, Around
  <2>5. Now[PageFrom(op.page, i)] = "Corrupted"
    BY <1>2, <1>6, <2>4, StateIsMark DEF Now, Marks
  <2>6. HandleCorruption(known, keys)
    BY <1>6
  <2> HIDE DEF Corrupts, known, i
  <2>7. ~op.retried /\ \E q \in Pages: Now[q] = "PartialOpen"
    BY <1>2, <1>3, <2>4, <2>5, TornInUse
  <2>8. QED  BY <1>1, <2>6, <2>7, CorruptionMends
<1>7. CASE Erases
  <2> HIDE DEF known, i
  <2>1. op'.pc = "removing" /\ op'.retried = op.retried /\ op'.repairing = op.repairing
    BY <1>1, <1>2, <1>7 DEF OpType
  <2>2. io'.cmd = "zero" /\ io' \in IOType
    BY <1>7 DEF EraseItem, ItemIO, IInv, TypeOK
  <2>3. Then' = Now
    BY <1>1, <1>2, <2>2, WordMarks
  <2>4. QED  BY <1>3, <1>7, <2>1, <2>3, QuietMends
<1>8. QED  BY <1>4, <1>5, <1>6, <1>7

\* The one error that fetch_all_items repairs never occurs: as the call sees the pages, in
\* flash or in the cache it trusts, one can be written to.
LEMMA IterStartMends ==
  ASSUME RInv, IterStart
  PROVE  Mended' /\ Scanning' /\ AlwaysRepaired'
<1>1. /\ op.pc = "fetch_all_items" /\ io = NoIO
      /\ \/ FindFirst(cache, 0, "Open") = NoPage /\ FindFirst(cache, 0, "PartialOpen") = NoPage
         \/ Return(Result("Corrupted"))
         \/ Return(Result("Ok"))
  BY DEF IterStart, At
<1>2. /\ flash \in [Pages -> Page] /\ op \in OpType /\ Shape(op) /\ Ordered(Now)
      /\ Trusted => Good(cache)
  BY <1>1, Running DEF RInv
<1>3. CASE FindFirst(cache, 0, "Open") = NoPage /\ FindFirst(cache, 0, "PartialOpen") = NoPage
  <2>1. \A p \in Pages: StateOf(cache, p) \notin {"Open", "PartialOpen"}
    <3>1. /\ \A p \in Pages: StateOf(cache, p) # "Open"
          /\ \A p \in Pages: StateOf(cache, p) # "PartialOpen"
      BY <1>3, SmallTypes, FoundState
    <3>2. QED  BY <3>1
  <2>2. CASE Trusted
    <3>1. \A p \in Pages: StateOf(cache, p) = Now[p]
      BY <1>2, <2>2, StateIsMark DEF Now, Marks
    <3>2. QED  BY <1>2, <2>1, <3>1, SomeRoom
  <2>3. CASE ~Trusted
    <3>1. Ordered(View)
      BY <2>3 DEF RInv, OInv, CacheInv
    <3>2. \A p \in Pages: StateOf(cache, p) = View[p]
      BY DEF View
    <3>3. QED  BY <2>1, <3>1, <3>2, SomeRoom
  <2>4. QED  BY <2>2, <2>3
<1>4. CASE Return(Result("Corrupted")) \/ Return(Result("Ok"))
  <2>1. op.fn = "fetch_all_items"
    BY <1>1, <1>2 DEF Shape, Functions
  <2>2. op' = Idle /\ (ret'.status # "Corrupted" \/ ret'.fn = "fetch_all_items")
    BY <1>4, <2>1 DEF Return, Result
  <2>3. QED  BY <2>2, ReturnMends
<1>5. QED  BY <1>1, <1>3, <1>4

-----------------------------------------------------------------------------
\* Nothing is to be mended in the initial state
LEMMA InitMends == Init => RInv
<1> SUFFICES ASSUME Init PROVE RInv
  OBVIOUS
<1>1. OInv /\ op = Idle /\ ret = NoRet
  BY InitOrder DEF Init
<1>2. ~Idle.retried /\ ~Idle.repairing /\ Idle.pc = "idle" /\ NoRet.status = "none"
  BY DEF Idle, NoRet
<1>3. QED  BY <1>1, <1>2 DEF RInv, Mended, Scanning, AlwaysRepaired

\* and every step keeps what the repair mended.
LEMMA StepMends == CarefulCalls /\ KeySlots = 0 /\ RInv /\ [Next]_vars => RInv'
<1> SUFFICES ASSUME CarefulCalls, KeySlots = 0, RInv, [Next]_vars PROVE RInv'
  OBVIOUS
<1>1. OInv' /\ IInv'
  BY StepOrder DEF RInv, OInv
<1> SUFFICES Mended' /\ Scanning' /\ AlwaysRepaired'
  BY <1>1 DEF RInv
<1>2. CASE UNCHANGED vars
  BY <1>2 DEF vars, RInv, Mended, Scanning, AlwaysRepaired, Then, Marks, Completed, Source
<1>3. CASE UserCall
  BY <1>3, CallMends
<1>4. CASE Step
  <2>1. CASE FlashDone /\ UNCHANGED <<keys, op, iter, ret, faults>>
    BY <2>1, FlashDoneMends
  <2>2. CASE FetchItem \/ StoreRound \/ StoreData \/ StoreFinish \/ StoreNextPage \/ StoreBuffer
    BY <1>1, <2>2, FetchItemMends, StoreRoundMends, StoreDataMends, StoreNextPageMends,
       StoreBufferMends
  <2>3. CASE MigrateItem \/ MigrateData \/ MigrateErase \/ MigrateDone
    BY <1>1, <2>3, MigrateItemMends, MigrateDataMends, MigrateEndMends
  <2>4. CASE RepairPage \/ RepairMigration \/ RepairReopen
    BY <2>4, RepairPageMends, RepairMigrationMends, RepairReopenMends
  <2>5. CASE RemoveStart \/ RemoveNext \/ IterStart
    BY <1>1, <2>5, RemoveStartMends, RemoveNextMends, IterStartMends
  <2>6. CASE EraseAllFinish
    <3>1. op' = Idle /\ ret'.status # "Corrupted"
      BY <2>6 DEF EraseAllFinish, Return, Result
    <3>2. QED  BY <3>1, ReturnMends
  <2>7. QED  BY <1>4, <2>1, <2>2, <2>3, <2>4, <2>5, <2>6 DEF Step
<1>5. CASE Fail \/ PowerLoss
  BY <1>5, FaultMends
<1>6. QED  BY <1>2, <1>3, <1>4, <1>5 DEF Next

\* Without key pointers no call that repairs returns the Corrupted error, whatever was cut
\* short before it, a repair included: one repair is enough for any state of the pages that
\* calls, failures and power losses can leave.
THEOREM MapRepairIsEnough ==
  ASSUME CarefulCalls, KeySlots = 0
  PROVE  Spec => []AlwaysRepaired
<1>1. RInv /\ [Next]_vars => RInv'
  BY StepMends
<1>2. RInv => AlwaysRepaired
  BY DEF RInv
<1>3. QED  BY <1>1, <1>2, InitMends, PTL DEF Spec

-----------------------------------------------------------------------------
(***************************************************************************)
(* Nothing is written over (WritesErasedWords), and the pointers of the     *)
(* cache are right about the items of each page (CachedPointers).           *)
(*                                                                         *)
(* A call appends where the headers of a page end, so it counts on nothing  *)
(* being written behind them.  An interrupted repair can leave a page that  *)
(* looks open and is not blank, but only when all other pages are closed:   *)
(* no call writes to such a page before it is erased.                       *)
(***************************************************************************)

\* All pages but p are closed.
Alone(fl, p) == \A q \in Pages: q # p => MarkedState(fl[q]) = "Closed"

\* The pages that calls append to.
KeptTidy(fl) == \A p \in Pages: Alone(fl, p) \/ Tidy(fl[p])

\* The pending operation finds its page as it should be; a page is erased to become the
\* buffer, or to migrate to it again.
Ready ==
  /\ io.cmd # "erase" => FitFor(flash[io.page], io)
  /\ io.cmd = "erase" =>
       /\ \A p \in Pages: p # io.page => Tidy(flash[p])
       /\ MarkedState(flash[io.page]) = "PartialOpen" => Alone(flash, io.page)

TidyFlash ==
  /\ ~Disturbed => KeptTidy(flash)
  /\ op.pc = "erase_all" => Completed(io) = [p \in Pages |-> ErasedPage]

\* Where a call has come to on the page it writes to.
Located ==
  LET ws == Completed(io)[op.page].words IN
  /\ op.pc \in {"closed", "opened", "reopen"} => BlankFrom(ws, 0)
  /\ op.pc = "migrate" => op.addr = EndOfItems(ws, 0) /\ Appendable(ws)
  /\ op.pc = "data" => DataReady(ws, op.addr, op.item)
  /\ op.pc = "copy" => DataReady(ws, op.addr, flash[Source].words[op.from].crc)
  /\ op.pc \in {"data", "copy"} => CacheKind = "none" \/ cache.dirty

Unpointed(c, p) == c.written[p] = NoAddr /\ c.erased[p] = NoAddr

\* The pointers of c are right about the pages of fl.
Right(c, fl) ==
  /\ Bare(c)
  /\ \A p \in Pages: /\ Pointed(c, p, fl[p].words)
                     /\ MarkedState(fl[p]) \in {"Open", "Corrupted"} => Unpointed(c, p)

\* A cache that is trusted is right about flash as the pending operation will leave it.
\* Of one that is not, only fetch_all_items makes use, when it believes all pages open.
PointersKnown ==
  /\ Bare(cache)
  /\ io.cmd # "none" => CacheKind = "none" \/ cache.dirty
  /\ Trusted => Right(cache, Completed(io))
  /\ ~Trusted => \A p \in Pages: View[p] \in {"Open", "Corrupted"} => Unpointed(cache, p)

WordsInv == Ready /\ TidyFlash /\ Located /\ PointersKnown

-----------------------------------------------------------------------------
\* An operation a page is ready for keeps the pages tidy, done or cut short.
LEMMA TornKept ==
  ASSUME OInv, Ready, KeptTidy(flash), io.cmd # "erase_all", NEW t \in Torn(flash[io.page], io)
  PROVE  KeptTidy([flash EXCEPT ![io.page] = t])
<1> DEFINE fl == [flash EXCEPT ![io.page] = t]
<1>1. /\ flash \in [Pages -> Page] /\ io \in IOType /\ HasData(io)
      /\ io.page \in Pages /\ flash[io.page] \in Page
  BY Typed DEF OInv, IOType
<1>2. fl[io.page] = t /\ \A p \in Pages: p # io.page => fl[p] = flash[p]
  BY <1>1
<1> HIDE DEF fl
<1>3. SUFFICES ASSUME NEW p \in Pages PROVE Alone(fl, p) \/ Tidy(fl[p])
  BY DEF KeptTidy, fl
<1>4. Alone(flash, p) \/ Tidy(flash[p])
  BY DEF KeptTidy
<1>5. CASE p = io.page
  <2>1. CASE Alone(flash, p)
    BY <1>2, <1>5, <2>1 DEF Alone
  <2>2. CASE ~Alone(flash, p)
    <3>1. FitFor(flash[io.page], io)
      BY <1>5, <2>2 DEF Ready, FitFor
    <3>2. Tidy(t)
      BY <1>1, <1>4, <1>5, <2>2, <3>1, TornTidy
    <3>3. QED  BY <1>2, <1>5, <3>2
  <2>3. QED  BY <2>1, <2>2
<1>6. CASE p # io.page
  <2>1. CASE Tidy(flash[p])
    BY <1>2, <1>6, <2>1
  <2>2. CASE ~Tidy(flash[p])
    <3>1. MarkedState(flash[io.page]) = "Closed" /\ Alone(flash, p)
      BY <1>1, <1>4, <1>6, <2>2 DEF Alone
    <3>2. io.cmd \in {"none", "data", "zero"}
      BY <1>1, <1>6, <2>2, <3>1 DEF Ready, FitFor, IOType, Commands
    <3>3. MarkedState(t) = "Closed"
      BY <1>1, <3>1, <3>2, DataKeepsMarkers
    <3>4. QED  BY <1>2, <1>6, <3>1, <3>3 DEF Alone
  <2>3. QED  BY <2>1, <2>2
<1>7. QED  BY <1>5, <1>6

\* Done or cut short, such an operation keeps all pages tidy.
LEMMA FlashKept ==
  ASSUME OInv, Ready, KeptTidy(flash), io.cmd # "erase_all"
  PROVE  KeptTidy(Completed(io)) /\ \A fl \in Interrupted(io): KeptTidy(fl)
<1>1. io \in IOType /\ HasData(io) /\ flash[io.page] \in Page
  BY Typed DEF OInv, IOType
<1>2. Applied(flash[io.page], io) \in Torn(flash[io.page], io)
  BY <1>1, AppliedIsTorn
<1>3. Completed(io) = [flash EXCEPT ![io.page] = Applied(flash[io.page], io)]
  BY DEF Completed
<1>4. \A fl \in Interrupted(io): \E t \in Torn(flash[io.page], io): fl = [flash EXCEPT ![io.page] = t]
  BY DEF Interrupted
<1>5. QED  BY <1>2, <1>3, <1>4, TornKept

-----------------------------------------------------------------------------
\* What keeps the pointers of a cache right.
LEMMA RightOps ==
  ASSUME NEW c \in CacheType, NEW fl
  PROVE  /\ \A d: Right(c, fl) /\ Forgets(d, c) => Right(d, fl)
         /\ Right(FreshCache, fl)
         /\ Bare(c) /\ CacheKind = "none" => Right(c, fl)
         /\ \A d: Bare(c) /\ Forgets(d, c) => Bare(d)
<1>1. \A p \in Pages: FreshCache.written[p] = NoAddr /\ FreshCache.erased[p] = NoAddr
  BY DEF FreshCache
<1>2. \A d: (\A p \in Pages: Unpointed(d, p)) => Right(d, fl)
  BY DEF Right, Bare, Pointed, Unpointed
<1>3. Right(FreshCache, fl)
  BY <1>1, <1>2 DEF Unpointed
<1>4. Bare(c) /\ CacheKind = "none" => Right(c, fl)
  BY <1>2 DEF Bare, Unpointed
<1>5. ASSUME NEW d, Right(c, fl), Forgets(d, c) PROVE Right(d, fl)
  <2>1. Bare(d) /\ \A p \in Pages: Pointed(d, p, fl[p].words)
    BY <1>5, Forgotten DEF Right
  <2>2. \A p \in Pages: Unpointed(c, p) => Unpointed(d, p)
    BY <1>5 DEF Forgets, Unpointed
  <2>3. QED  BY <1>5, <2>1, <2>2 DEF Right
<1>6. \A d: Bare(c) /\ Forgets(d, c) => Bare(d)
  BY Forgotten
<1>7. QED  BY <1>3, <1>4, <1>5, <1>6

\* Reading page states, and marking a cache dirty or clean, keep its pointers right.
LEMMA RightLearn ==
  ASSUME NEW c \in CacheType, Right(c, flash)
  PROVE  /\ \A S: Right(Learn(c, S), flash)
         /\ Right(UnmarkDirty(c), flash) /\ Right(MarkDirty(c), flash)
<1>1. Forgets(MarkDirty(c), c)
  BY DEF MarkDirty, CacheType, Forgets
<1>2. Forgets(UnmarkDirty(c), c) /\ \A S: Forgets(Learn(c, S), c)
  BY ForgetOps
<1>3. QED  BY <1>1, <1>2, RightOps

\* The search of a key keeps the pointers of the cache right.
LEMMA OutcomeRight ==
  ASSUME NEW status, NEW p, NEW a, NEW c \in CacheType, NEW ks, Right(c, flash)
  PROVE  Right(Outcome(status, p, a, c, ks).cache, flash)
BY DEF Outcome

\* However far it goes back,
LEMMA SearchBackRight ==
  ASSUME flash \in [Pages -> Page], NEW c \in CacheType, Right(c, flash), NEW ks, NEW k, NEW y, NEW depth
  PROVE  Right(SearchBack(c, ks, k, y, depth).cache, flash)
<1> DEFINE p == PageBefore(y, depth)
           found == ItemsWithKey(p, k)
           known == Learn(c, {PageBefore(y, i): i \in 1 .. depth})
           beyond == PageBefore(p, 1)
           further == Learn(known, {beyond})
<1>1. known \in CacheType /\ Right(known, flash)
  BY LearnType, RightLearn
<1> HIDE DEF known
<1>2. further \in CacheType /\ Right(further, flash)
  BY <1>1, LearnType, RightLearn
<1> HIDE DEF further
<1>3. /\ Right(UnmarkDirty(known), flash) /\ UnmarkDirty(known) \in CacheType
      /\ Right(UnmarkDirty(further), flash) /\ UnmarkDirty(further) \in CacheType
  BY <1>1, <1>2, RightLearn, DirtyType
<1>4. SearchBack(c, ks, k, y, depth) =
        IF found # {}
        THEN Outcome("Ok", p, Max(found), UnmarkDirty(known), KeyLocated(ks, k, p, Max(found)))
        ELSE IF StateOf(c, beyond) = "Corrupted" THEN Outcome("Corrupted", 0, 0, known, ks)
        ELSE Outcome("None", 0, 0, UnmarkDirty(further), ks)
  BY DEF SearchBack, known, further
<1> HIDE DEF p, found, beyond
<1>5. QED  BY <1>1, <1>3, <1>4, OutcomeRight

\* from wherever it starts,
LEMMA SearchRight ==
  ASSUME flash \in [Pages -> Page], NEW c \in CacheType, Right(c, flash), NEW ks, NEW k
  PROVE  Right(Search(c, ks, k).cache, flash)
<1> DEFINE known == LearnLastUsed(c)
           last == LastUsed(c)
<1>1. known \in CacheType /\ Right(known, flash)
  BY LearnType, RightLearn DEF LearnLastUsed
<1>2. last \in PageOrNone
  BY LastUsedType
<1> HIDE DEF known, last
<1>3. Search(c, ks, k) = SearchFrom(known, ks, k, last)
  BY DEF Search, Once, known, last
<1>4. NoPage \notin Pages /\ CorruptedPage \notin Pages /\ NoPage # CorruptedPage
  BY PageCountAssumption DEF NoPage, CorruptedPage, Pages
<1>5. CASE last = CorruptedPage
  <2>1. SearchFrom(known, ks, k, last) = Outcome("Corrupted", 0, 0, known, ks)
    BY <1>4, <1>5 DEF SearchFrom
  <2>2. QED  BY <1>1, <1>3, <2>1, OutcomeRight
<1>6. CASE last = NoPage
  <2>1. SearchFrom(known, ks, k, last) = Outcome("None", 0, 0, UnmarkDirty(known), ks)
    BY <1>4, <1>6 DEF SearchFrom
  <2>2. Right(UnmarkDirty(known), flash) /\ UnmarkDirty(known) \in CacheType
    BY <1>1, RightLearn, DirtyType
  <2>3. QED  BY <1>3, <2>1, <2>2, OutcomeRight
<1>7. CASE last \in Pages
  <2>1. SearchFrom(known, ks, k, last) = SearchBack(known, ks, k, last, SearchDepth(known, k, last))
    BY <1>4, <1>7 DEF SearchFrom, Once
  <2>2. QED  BY <1>1, <1>3, <2>1, SearchBackRight
<1>8. QED  BY <1>2, <1>5, <1>6, <1>7 DEF PageOrNone

\* and when a key pointer is tried first.
LEMMA FetchRight ==
  ASSUME flash \in [Pages -> Page], NEW c \in CacheType, Right(c, flash), NEW ks, NEW k
  PROVE  Right(FetchWithLocation(c, ks, k).cache, flash)
<1> DEFINE at == LocationOf(ks, k)
           ws == flash[at.page].words
<1>1. Right(Search(c, ks, k).cache, flash) /\ Right(Search(FreshCache, NoKeys, k).cache, flash)
  BY SearchRight, FreshCacheType, RightOps
<1>2. FetchWithLocation(c, ks, k) \in
        {Search(c, ks, k), Search(FreshCache, NoKeys, k),
         Outcome("Ok", at.page, at.addr, c, ks), Outcome("Corrupted", 0, 0, c, ks)}
  BY DEF FetchWithLocation
<1> HIDE DEF at
<1>3. QED  BY <1>1, <1>2, OutcomeRight

-----------------------------------------------------------------------------
\* What a step of a running call counts on.
LEMMA WordsFacts ==
  ASSUME OInv, WordsInv, io = NoIO, op.pc \notin {"idle", "erase_all"}
  PROVE  /\ Completed(io) = flash /\ KeptTidy(flash)
         /\ \A p \in Pages: flash[p] \in Page /\ flash[p].words \in [Addrs -> Word]
         /\ Trusted => Good(cache) /\ Right(cache, flash)
         /\ Right(Refresh(cache), flash) /\ Good(Refresh(cache)) /\ Refresh(cache) \in CacheType
         /\ cache \in CacheType /\ Bare(cache)
<1>1. flash \in [Pages -> Page] /\ cache \in CacheType /\ ~Disturbed /\ (Trusted => Good(cache))
  BY Running
<1>2. Completed(io) = flash /\ \A p \in Pages: flash[p] \in Page /\ flash[p].words \in [Addrs -> Word]
  BY <1>1, NoIOCompleted, Typed DEF OInv
<1>3. (Trusted => Right(cache, flash)) /\ Bare(cache) /\ KeptTidy(flash)
  BY <1>1, <1>2 DEF WordsInv, PointersKnown, TidyFlash
<1>4. Right(Refresh(cache), flash)
  <2>1. ~cache.dirty => Trusted
    BY DEF Trusted
  <2>2. QED  BY <1>1, <1>3, <2>1, RightOps DEF Refresh
<1>5. QED  BY <1>1, <1>2, <1>3, <1>4, RefreshGood

\* Away from the pages it writes to a call need not know where it is.
LEMMA Elsewhere ==
  ASSUME op'.pc \notin {"closed", "opened", "reopen", "migrate", "data", "copy"}
  PROVE  Located'
BY DEF Located

\* A step that starts no flash operation.
LEMMA WordsQuiet ==
  ASSUME OInv, WordsInv, io = NoIO, io' = NoIO, flash' = flash,
         op.pc \notin {"idle", "erase_all"}, op'.pc # "erase_all",
         Good(cache'), Right(cache', flash), Located'
  PROVE  WordsInv'
<1>1. flash \in [Pages -> Page] /\ ~Disturbed
  BY Running
<1>2. Completed(io)' = flash /\ io'.cmd = "none"
  BY <1>1, NoIOCompleted, NoIOType
<1>3. Ready'
  BY <1>2 DEF Ready, FitFor
<1>4. TidyFlash'
  BY <1>1 DEF WordsInv, TidyFlash, KeptTidy, Alone
<1>5. PointersKnown'
  <2>1. \A p \in Pages: StateOf(cache', p) = MarkedState(flash[p])
    BY <1>1, StateIsMark
  <2>2. \A p \in Pages: View'[p] = MarkedState(flash[p])
    BY <2>1 DEF View, StateOf
  <2>3. QED  BY <1>2, <2>2 DEF PointersKnown, Right
<1>6. QED  BY <1>3, <1>4, <1>5 DEF WordsInv

\* A call that returns.
LEMMA WordsReturn ==
  ASSUME OInv, WordsInv, io = NoIO, io' = NoIO, flash' = flash,
         op.pc \notin {"idle", "erase_all"}, op' = Idle,
         Good(cache'), Right(cache', flash)
  PROVE  WordsInv'
<1>1. op'.pc = "idle"
  BY SmallTypes
<1>2. Located'
  BY <1>1, Elsewhere
<1>3. QED  BY <1>1, <1>2, WordsQuiet

\* The first Corrupted error starts a repair, the second one ends the call.
LEMMA WordsCorruption ==
  ASSUME OInv, WordsInv, io = NoIO, flash' = flash,
         op.pc \notin {"idle", "erase_all"}, NEW c, NEW ks, HandleCorruption(c, ks),
         op.retried => Good(c) /\ Right(c, flash)
  PROVE  WordsInv'
<1>1. io' = NoIO /\ Good(cache') /\ Right(cache', flash)
  BY FreshSound, FreshCacheType, RightOps DEF HandleCorruption
<1>2. op'.pc \in {"idle", "repair"}
  <2>1. op \in OpType
    BY Running
  <2>2. QED  BY <2>1, SmallTypes DEF HandleCorruption, Return, OpType
<1>3. Located'
  BY <1>2, Elsewhere
<1>4. QED  BY <1>1, <1>2, <1>3, WordsQuiet

\* The function is entered again.
LEMMA WordsRestart ==
  ASSUME OInv, WordsInv, io = NoIO, io' = NoIO, flash' = flash,
         op.pc \notin {"idle", "erase_all"}, Restart, Good(cache'), Right(cache', flash)
  PROVE  WordsInv'
<1>1. op \in OpType /\ op.fn \in Functions \ {"erase_all"}
  BY Running
<1>2. op'.pc = op.fn
  BY <1>1, SmallTypes DEF Restart, OpType
<1>3. op'.pc \notin {"closed", "opened", "reopen", "migrate", "data", "copy", "erase_all"}
  BY <1>1, <1>2 DEF Functions
<1>4. Located'
  BY <1>3, Elsewhere
<1>5. QED  BY <1>3, <1>4, WordsQuiet

\* A step that opens, partially closes or closes a page.
LEMMA WordsMarker ==
  ASSUME OInv, WordsInv, io = NoIO, flash' = flash,
         op.pc \notin {"idle", "erase_all"}, op'.pc # "erase_all",
         NEW c \in CacheType, NEW p \in Pages, Good(c), Right(c, flash),
         OpenPage(c, p) \/ PartialClosePage(c, p) \/ ClosePage(c, p),
         OpenPage(c, p) => /\ \A q \in Pages: q # p => Tidy(flash[q])
                           /\ Now[p] = "PartialOpen" => Alone(flash, p),
         Trusted', Located'
  PROVE  WordsInv'
<1>1. /\ flash \in [Pages -> Page] /\ Now \in [Pages -> PageState] /\ ~Disturbed
      /\ \A q \in Pages: Now[q] = MarkedState(flash[q])
  BY Running DEF Now, Marks
<1>2. /\ OpenPage(c, p) \/ FitFor(flash[io'.page], io')
      /\ \A q \in Pages: Pointed(cache', q, Completed(io')[q].words)
      /\ Bare(cache') /\ Forgets(cache', c)
      /\ io'.cmd # "none" => CacheKind = "none" \/ cache'.dirty
      /\ OpenPage(c, p) => cache'.written[p] = NoAddr /\ cache'.erased[p] = NoAddr
  BY <1>1, MarkerPointed DEF Right
<1>3. Completed(io)' = Completed(io')
  BY DEF Completed
<1>4. Ready'
  <2>1. CASE OpenPage(c, p)
    <3>1. io'.cmd = "erase" /\ io'.page = p
      BY <2>1 DEF OpenPage, PageIO, NoIO
    <3>2. QED  BY <1>1, <2>1, <3>1 DEF Ready, Alone
  <2>2. CASE ~OpenPage(c, p)
    <3>1. io'.cmd # "erase"
      <4>1. io' \in {NoIO, PageIO("start", p), PageIO("end", p)}
        BY <2>2 DEF PartialClosePage, ClosePage
      <4>2. \A cmd: PageIO(cmd, p).cmd = cmd
        BY DEF PageIO, NoIO
      <4>3. QED  BY <4>1, <4>2, NoIOType
    <3>2. QED  BY <1>2, <2>2, <3>1 DEF Ready
  <2>3. QED  BY <2>1, <2>2
<1>5. TidyFlash'
  BY <1>1 DEF WordsInv, TidyFlash, KeptTidy, Alone
<1>6. \A q \in Pages: MarkedState(Completed(io')[q]) \in {"Open", "Corrupted"} => Unpointed(cache', q)
  <2>1. SUFFICES ASSUME NEW q \in Pages, MarkedState(Completed(io')[q]) \in {"Open", "Corrupted"}
                 PROVE  Unpointed(cache', q)
    OBVIOUS
  <2>2. /\ OpenPage(c, p) => Then' = [Now EXCEPT ![p] = "Open"]
        /\ PartialClosePage(c, p) =>
             Then' = IF Now[p] = "Open" THEN [Now EXCEPT ![p] = "PartialOpen"] ELSE Now
        /\ ClosePage(c, p) =>
             Then' = IF Now[p] = "PartialOpen" THEN [Now EXCEPT ![p] = "Closed"] ELSE Now
    BY <1>1, MarkerMarks
  <2>3. Then'[q] = MarkedState(Completed(io')[q])
    BY <1>3 DEF Then, Marks
  <2>4. Now[q] \in {"Open", "Corrupted"} \/ (OpenPage(c, p) /\ q = p)
    BY <1>1, <2>1, <2>2, <2>3
  <2>5. CASE OpenPage(c, p) /\ q = p
    BY <1>2, <2>5 DEF Unpointed
  <2>6. CASE Now[q] \in {"Open", "Corrupted"}
    <3>1. Unpointed(c, q)
      BY <1>1, <2>6 DEF Right
    <3>2. QED  BY <1>2, <3>1 DEF Forgets, Unpointed
  <2>7. QED  BY <2>4, <2>5, <2>6
<1>7. PointersKnown'
  BY <1>2, <1>3, <1>6 DEF PointersKnown, Right
<1>8. QED  BY <1>4, <1>5, <1>7 DEF WordsInv

\* A step that asks for a word of a page to be written: the pointers to that page are
\* those of the page the write leaves, the others are as they were.
LEMMA WordsWord ==
  ASSUME OInv, WordsInv, io = NoIO, flash' = flash, io' \in IOType,
         op.pc \notin {"idle", "erase_all"}, op'.pc # "erase_all",
         NEW p \in Pages, io'.page = p, io'.cmd \in {"header", "data", "zero"}, FitFor(flash[p], io'),
         NEW d, Right(d, flash),
         \A q \in Pages: q # p => cache'.written[q] = d.written[q] /\ cache'.erased[q] = d.erased[q],
         Pointed(cache', p, Applied(flash[p], io').words), Bare(cache'),
         CacheKind = "none" \/ cache'.dirty,
         Now[p] \in {"Open", "Corrupted"} => Unpointed(cache', p),
         Trusted', Located'
  PROVE  WordsInv'
<1>1. /\ flash \in [Pages -> Page] /\ Now \in [Pages -> PageState] /\ ~Disturbed
      /\ \A q \in Pages: Now[q] = MarkedState(flash[q])
  BY Running DEF Now, Marks
<1>2. Completed(io)' = [flash EXCEPT ![p] = Applied(flash[p], io')]
  BY DEF Completed
<1>3. SameMarkers(Completed(io)', flash)
  <2>1. SameMarkers(Completed(io'), flash)
    BY <1>1, QuietFlash
  <2>2. QED  BY <2>1 DEF Completed
<1>4. Ready'
  BY DEF Ready
<1>5. TidyFlash'
  BY <1>1 DEF WordsInv, TidyFlash, KeptTidy, Alone
<1>6. Right(cache', Completed(io)')
  <2>1. SUFFICES ASSUME NEW q \in Pages
                 PROVE  /\ Pointed(cache', q, Completed(io)'[q].words)
                        /\ Now[q] \in {"Open", "Corrupted"} => Unpointed(cache', q)
    BY <1>1, <1>3 DEF Right, SameMarkers
  <2>2. CASE q = p
    BY <1>1, <1>2, <2>2
  <2>3. CASE q # p
    <3>1. Completed(io)'[q] = flash[q]
      BY <1>1, <1>2, <2>3
    <3>2. Pointed(d, q, flash[q].words) /\ (Now[q] \in {"Open", "Corrupted"} => Unpointed(d, q))
      BY <1>1 DEF Right
    <3>3. QED  BY <2>3, <3>1, <3>2 DEF Pointed, Unpointed
  <2>4. QED  BY <2>2, <2>3
<1>7. PointersKnown'
  BY <1>6 DEF PointersKnown
<1>8. QED  BY <1>4, <1>5, <1>7 DEF WordsInv

-----------------------------------------------------------------------------
\* The words are as counted on in the initial state
LEMMA InitWords == Init => WordsInv
<1> SUFFICES ASSUME Init PROVE WordsInv
  OBVIOUS
<1>1. /\ op = Idle /\ op.pc = "idle" /\ io = NoIO /\ io.cmd = "none" /\ cache = FreshCache
      /\ flash = [p \in Pages |-> ErasedPage]
  BY SmallTypes, NoIOType DEF Init, GenericInit
<1>2. flash \in [Pages -> Page] /\ ~cache.dirty
  BY <1>1, BlankType DEF FreshCache
<1>3. Completed(io) = flash
  BY <1>1, <1>2, NoIOCompleted
<1>4. \A p \in Pages: Tidy(flash[p])
  BY <1>1 DEF Tidy, ErasedPage, BlankFrom, MarkedState
<1>5. Right(FreshCache, flash) /\ Trusted
  BY <1>1, <1>2, FreshCacheType, RightOps DEF Trusted
<1>6. PointersKnown
  BY <1>1, <1>3, <1>5 DEF PointersKnown, Right
<1>7. QED  BY <1>1, <1>4, <1>6 DEF WordsInv, Ready, FitFor, TidyFlash, KeptTidy, Located

\* A step between calls, or one that begins a call.
LEMMA WordsIdle ==
  ASSUME OInv, WordsInv, op = Idle, UNCHANGED <<flash, io>>, ~Disturbed,
         op'.pc \in (Functions \ {"erase_all"}) \cup {"idle"}, Trusted' <=> Trusted,
         Forgets(cache', cache), \A p \in Pages: StateOf(cache', p) = StateOf(cache, p)
  PROVE  WordsInv'
<1>1. /\ flash \in [Pages -> Page] /\ cache \in CacheType /\ io = NoIO /\ io.cmd = "none"
      /\ op.pc = "idle"
  BY Typed, SmallTypes, NoIOType DEF OInv
<1>2. Completed(io) = flash /\ Completed(io)' = flash
  BY <1>1, NoIOCompleted
<1>3. Ready'
  BY <1>1 DEF Ready, FitFor
<1>4. TidyFlash'
  BY <1>1 DEF WordsInv, TidyFlash, KeptTidy, Alone, Functions
<1>5. Located'
  BY Elsewhere DEF Functions
<1>6. PointersKnown'
  <2>1. Bare(cache') /\ io'.cmd = "none"
    BY <1>1, Forgotten DEF WordsInv, PointersKnown
  <2>2. CASE Trusted
    <3>1. Right(cache, flash)
      BY <1>2, <2>2 DEF WordsInv, PointersKnown
    <3>2. Right(cache', flash)
      BY <1>1, <3>1, RightOps
    <3>3. QED  BY <1>2, <2>1, <2>2, <3>2 DEF PointersKnown
  <2>3. CASE ~Trusted
    <3>1. \A p \in Pages: View'[p] = View[p]
      BY DEF View, StateOf
    <3>2. \A p \in Pages: View[p] \in {"Open", "Corrupted"} => Unpointed(cache, p)
      BY <2>3 DEF WordsInv, PointersKnown
    <3>3. \A p \in Pages: View'[p] \in {"Open", "Corrupted"} => Unpointed(cache', p)
      BY <3>1, <3>2 DEF Forgets, Unpointed
    <3>4. QED  BY <2>1, <2>3, <3>3 DEF PointersKnown
  <2>4. QED  BY <2>2, <2>3
<1>7. QED  BY <1>3, <1>4, <1>5, <1>6 DEF WordsInv

\* The user calls a function.
LEMMA CallWords ==
  ASSUME CarefulCalls, OInv, WordsInv,
         \/ \E i \in Items: CallStore(i)
         \/ \E k \in Keys: CallFetch(k) \/ CallRemove(k)
         \/ CallRemoveAll \/ CallIter
  PROVE  WordsInv'
<1>1. \E fn \in Functions \ {"erase_all"}:
        /\ \E item, key: Call(fn, item, key)
        /\ fn = "remove_item" => (CarefulRemoves => ~cache.dirty)
  <2>1. CASE \E i \in Items: CallStore(i)
    BY <2>1 DEF CallStore, Functions
  <2>2. CASE \E k \in Keys: CallFetch(k)
    BY <2>2 DEF CallFetch, Functions
  <2>3. CASE \E k \in Keys: CallRemove(k)
    BY <2>3 DEF CallRemove, Functions
  <2>4. CASE CallRemoveAll
    BY <2>4 DEF CallRemoveAll, Functions
  <2>5. CASE CallIter
    BY <2>5 DEF CallIter, Functions
  <2>6. QED  BY <2>1, <2>2, <2>3, <2>4, <2>5
<1>2. PICK fn \in Functions \ {"erase_all"}:
        /\ op = Idle /\ Usable /\ UNCHANGED <<flash, cache, io>> /\ fn \in UserCalls
        /\ op'.pc = fn /\ ~op'.retried /\ op'.level = 0
        /\ fn = "remove_item" => (CarefulRemoves => ~cache.dirty)
  BY <1>1, CallBegins
<1>3. Idle.fn = "none" /\ Idle.pc = "idle" /\ ~Idle.retried
  BY DEF Idle
<1>4. fn = "remove_item" => ~cache.dirty
  BY <1>2 DEF CarefulCalls, OInv, CacheInv
<1>5. ~Disturbed
  BY <1>2, <1>3 DEF Disturbed
<1>6. Trusted' => Trusted
  BY <1>2, <1>3, <1>4 DEF Trusted, RefreshedPCs, Functions
<1>7. Trusted => Trusted'
  BY <1>2, <1>3, <1>4 DEF Trusted, RefreshedPCs
<1>8. Forgets(cache', cache) /\ \A p \in Pages: StateOf(cache', p) = StateOf(cache, p)
  BY <1>2 DEF Forgets
<1>9. QED  BY <1>2, <1>5, <1>6, <1>7, <1>8, WordsIdle

\* The iterator is used, or given up.
LEMMA NextItemWords ==
  ASSUME OInv, WordsInv, NextItem \/ DropIter
  PROVE  WordsInv'
<1>1. /\ op = Idle /\ op' = op /\ UNCHANGED <<flash, io>> /\ iter.live
      /\ cache' = cache \/ \E S: cache' = Learn(cache, S)
  BY DEF NextItem, DropIter
<1>2. flash \in [Pages -> Page] /\ cache \in CacheType /\ ~Disturbed
  BY <1>1, Typed DEF OInv, OrderInv
<1>3. /\ Forgets(cache', cache) /\ cache'.dirty = cache.dirty
      /\ \A p \in Pages: StateOf(cache', p) = StateOf(cache, p)
  BY <1>1, <1>2, ForgetOps, LearnSame
<1>4. Trusted' <=> Trusted
  BY <1>1, <1>3 DEF Trusted
<1>5. QED  BY <1>1, <1>2, <1>3, <1>4, SmallTypes, WordsIdle

\* erase_all is only called on a storage without a cache, and erases every page.
LEMMA CallEraseAllWords ==
  ASSUME CarefulCalls, OInv, WordsInv, CallEraseAll
  PROVE  WordsInv'
<1>1. /\ op'.pc = "erase_all" /\ op'.fn = "erase_all" /\ io'.cmd = "erase_all" /\ io' = PageIO("erase_all", 0)
      /\ cache' = cache /\ CacheKind = "none" /\ ~cache.dirty
  BY DEF CallEraseAll, Begin, CarefulCalls, OInv, CacheInv, Idle, PageIO, NoIO
<1>2. Completed(io)' = [p \in Pages |-> ErasedPage]
  BY <1>1 DEF Completed
<1>3. cache \in CacheType /\ Bare(cache)
  BY Typed DEF OInv, WordsInv, PointersKnown
<1>4. Right(cache, Completed(io)') /\ Trusted'
  BY <1>1, <1>3, RightOps DEF Trusted
<1>5. Ready' /\ TidyFlash' /\ Located'
  BY <1>1, <1>2 DEF Ready, FitFor, TidyFlash, Disturbed, Located
<1>6. PointersKnown'
  BY <1>1, <1>4 DEF PointersKnown, Right
<1>7. QED  BY <1>5, <1>6 DEF WordsInv

\* erase_all returns: every page is blank.
LEMMA EraseAllFinishWords ==
  ASSUME CarefulCalls, OInv, WordsInv, EraseAllFinish
  PROVE  WordsInv'
<1>1. /\ io = NoIO /\ UNCHANGED <<flash, cache, io>> /\ op.pc = "erase_all" /\ op'.pc = "idle"
  BY SmallTypes DEF EraseAllFinish, At, Return
<1>2. flash \in [Pages -> Page] /\ Shape(op) /\ io'.cmd = "none" /\ cache \in CacheType
  BY <1>1, Typed, NoIOType DEF OInv
<1>3. Completed(io) = flash /\ Completed(io)' = flash
  BY <1>1, <1>2, NoIOCompleted
<1>4. Disturbed
  BY <1>1, <1>2 DEF Disturbed, Shape, Functions
<1>5. CacheKind = "none" /\ ~cache.dirty /\ Bare(cache)
  BY <1>4 DEF CarefulCalls, OInv, OrderInv, CacheInv, WordsInv, PointersKnown
<1>6. Right(cache, flash) /\ Trusted'
  BY <1>1, <1>2, <1>5, RightOps DEF Trusted
<1>7. \A p \in Pages: Tidy(flash[p])
  <2>1. \A p \in Pages: flash[p] = ErasedPage
    BY <1>1, <1>3 DEF WordsInv, TidyFlash
  <2>2. QED  BY <2>1 DEF Tidy, ErasedPage, BlankFrom, MarkedState
<1>8. Ready' /\ TidyFlash' /\ Located'
  BY <1>1, <1>2, <1>7, Elsewhere DEF Ready, FitFor, TidyFlash, KeptTidy
<1>9. PointersKnown'
  BY <1>1, <1>2, <1>3, <1>6 DEF PointersKnown, Right
<1>10. QED  BY <1>8, <1>9 DEF WordsInv

\* A flash operation completes.
LEMMA FlashDoneWords ==
  ASSUME OInv, IInv', WordsInv, FlashDone, UNCHANGED <<keys, op, iter, ret, faults>>
  PROVE  WordsInv'
<1>1. /\ flash' = Completed(io) /\ io # NoIO /\ io' = NoIO
      /\ UNCHANGED <<cache, op, iter, ret>>
  BY DEF FlashDone
<1>2. /\ flash' \in [Pages -> Page] /\ io'.cmd = "none" /\ flash \in [Pages -> Page]
      /\ io \in IOType /\ HasData(io) /\ Shape(op) /\ op \in OpType /\ io.page \in Pages
  BY <1>1, Typed, NoIOType DEF OInv, IInv, TypeOK, IOType
<1>3. Completed(io)' = Completed(io)
  BY <1>1, <1>2, NoIOCompleted
<1>4. Trusted /\ Trusted' /\ (Disturbed' <=> Disturbed)
  BY <1>1 DEF OInv, CacheInv, Trusted, Disturbed, Usable
<1>5. Ready'
  BY <1>2 DEF Ready, FitFor
<1>6. TidyFlash'
  <2>1. ASSUME ~Disturbed PROVE KeptTidy(Completed(io))
    <3>1. io.cmd # "erase_all"
      BY <1>2, <2>1 DEF OInv, OrderInv, Disturbed, Shape, Functions
    <3>2. QED  BY <2>1, <3>1, FlashKept DEF WordsInv, TidyFlash
  <2>2. KeptTidy(flash)' <=> KeptTidy(Completed(io))
    BY <1>1 DEF KeptTidy, Alone
  <2>3. QED  BY <1>1, <1>3, <1>4, <2>1, <2>2 DEF WordsInv, TidyFlash
<1>7. Located'
  <2>1. op.pc = "copy" => flash'[Source].words = flash[Source].words
    <3>1. SUFFICES ASSUME op.pc = "copy" PROVE flash'[Source] = flash[Source]
      OBVIOUS
    <3>2. io.cmd = "header" /\ io.page = op.page /\ Source \in Pages /\ Source # op.page
      BY <1>1, <1>2, <3>1, SourceType DEF OInv, IInv, Copying
    <3>3. QED  BY <1>1, <1>2, <3>2 DEF Completed
  <2>2. Source' = Source
    BY <1>1 DEF Source
  <2>3. QED  BY <1>1, <1>3, <2>1, <2>2 DEF WordsInv, Located
<1>8. PointersKnown'
  BY <1>1, <1>2, <1>3, <1>4 DEF WordsInv, PointersKnown
<1>9. QED  BY <1>5, <1>6, <1>7, <1>8 DEF WordsInv

\* A call fails, or power is lost.
LEMMA FaultWords ==
  ASSUME OInv, IInv', WordsInv, Fail \/ PowerLoss
  PROVE  WordsInv'
<1>1. /\ flash' \in Interrupted(io) /\ io' = NoIO /\ op'.pc = "idle"
      /\ flash \in [Pages -> Page] /\ flash' \in [Pages -> Page] /\ io'.cmd = "none"
      /\ io \in IOType /\ io.page \in Pages /\ Shape(op) /\ op \in OpType /\ cache \in CacheType
  BY Typed, SmallTypes, NoIOType DEF OInv, IInv, TypeOK, IOType, Fail, PowerLoss, FlashCutShort, Return
<1>2. Completed(io)' = flash'
  BY <1>1, NoIOCompleted
<1>3. Ready'
  BY <1>1 DEF Ready, FitFor
<1>4. TidyFlash'
  <2>1. ASSUME ~Disturbed PROVE KeptTidy(flash)'
    <3>1. io.cmd # "erase_all"
      BY <1>1, <2>1 DEF OInv, OrderInv, Disturbed, Shape, Functions
    <3>2. \A fl \in Interrupted(io): KeptTidy(fl)
      BY <2>1, <3>1, FlashKept DEF WordsInv, TidyFlash
    <3>3. QED  BY <1>1, <3>2 DEF KeptTidy, Alone
  <2>2. QED  BY <1>1, <2>1, FaultDisturbs DEF TidyFlash
<1>5. Located'
  BY <1>1, Elsewhere
<1>6. CASE PowerLoss
  <2>1. cache' = FreshCache /\ ~cache'.dirty
    BY <1>6 DEF PowerLoss, FreshCache
  <2>2. Right(FreshCache, flash') /\ Trusted'
    BY <2>1, FreshCacheType, RightOps DEF Trusted
  <2>3. PointersKnown'
    BY <1>1, <1>2, <2>1, <2>2 DEF PointersKnown, Right
  <2>4. QED  BY <1>3, <1>4, <1>5, <2>3 DEF WordsInv
<1>7. CASE Fail
  <2>1. cache' = cache /\ Bare(cache) /\ (Trusted' <=> ~cache.dirty)
    BY <1>1, <1>7, SmallTypes DEF Fail, Return, Idle, WordsInv, PointersKnown, Trusted, RefreshedPCs
  <2>2. CASE CacheKind = "none"
    <3>1. \A p \in Pages: Unpointed(cache, p)
      BY <2>1, <2>2 DEF Bare, Unpointed
    <3>2. Right(cache, flash')
      BY <1>1, <2>1, <2>2, RightOps
    <3>3. PointersKnown'
      BY <1>1, <1>2, <2>1, <3>1, <3>2 DEF PointersKnown
    <3>4. QED  BY <1>3, <1>4, <1>5, <3>3 DEF WordsInv
  <2>3. CASE CacheKind # "none" /\ ~cache.dirty
    <3>1. io.cmd = "none" /\ Trusted
      BY <2>3 DEF WordsInv, PointersKnown, Trusted
    <3>2. Completed(io) = flash /\ flash' = flash
      BY <1>1, <3>1 DEF Completed, Interrupted, Applied, Torn
    <3>3. Right(cache, flash')
      BY <3>1, <3>2 DEF WordsInv, PointersKnown
    <3>4. PointersKnown'
      BY <1>1, <1>2, <2>1, <2>3, <3>3 DEF PointersKnown
    <3>5. QED  BY <1>3, <1>4, <1>5, <3>4 DEF WordsInv
  <2>4. CASE CacheKind # "none" /\ cache.dirty
    <3>1. \A p \in Pages: View'[p] = IF cache.states[p] = "Unknown" THEN MarkedState(flash'[p])
                                     ELSE cache.states[p]
      BY <2>1 DEF View, StateOf
    <3>2. \A p \in Pages: View'[p] \in {"Open", "Corrupted"} => Unpointed(cache, p)
      <4>1. CASE ~Trusted
        <5>1. io = NoIO /\ \A p \in Pages: View[p] \in {"Open", "Corrupted"} => Unpointed(cache, p)
          BY <4>1 DEF OInv, CacheInv, WordsInv, PointersKnown
        <5>2. flash' = flash
          BY <1>1, <5>1, NoIOType DEF Interrupted, Torn
        <5>3. \A p \in Pages: View'[p] = View[p]
          BY <3>1, <5>2 DEF View, StateOf
        <5>4. QED  BY <5>1, <5>3
      <4>2. CASE Trusted
        <5>1. \A p \in Pages: cache.states[p] \in {"Unknown", MarkedState(Completed(io)[p])}
          BY <2>4, <4>2 DEF OInv, CacheInv, Sound
        <5>2. \A p \in Pages: cache.states[p] = "Unknown" =>
                MarkedState(flash'[p]) = MarkedState(Completed(io)[p])
          <6>1. CASE io.cmd \in {"none", "header", "data", "zero"}
            BY <1>1, <6>1, QuietFlash DEF SameMarkers
          <6>2. CASE io.cmd \in {"start", "end", "erase"}
            <7>1. cache.states[io.page] # "Unknown"
              BY <2>4, <6>2 DEF OInv, CacheInv
            <7>2. Completed(io) = [flash EXCEPT ![io.page] = Applied(@, io)]
              BY <6>2 DEF Completed
            <7>3. PICK pg: flash' = [flash EXCEPT ![io.page] = pg]
              BY <1>1, <6>2 DEF Interrupted
            <7>4. QED  BY <1>1, <7>1, <7>2, <7>3
          <6>3. io.cmd # "erase_all"
            BY <2>4 DEF OInv, CacheInv
          <6>4. QED  BY <1>1, <6>1, <6>2, <6>3 DEF IOType, Commands
        <5>3. \A p \in Pages: View'[p] = MarkedState(Completed(io)[p])
          BY <3>1, <5>1, <5>2
        <5>4. Right(cache, Completed(io))
          BY <4>2 DEF WordsInv, PointersKnown
        <5>5. QED  BY <5>3, <5>4 DEF Right
      <4>3. QED  BY <4>1, <4>2
    <3>3. PointersKnown'
      BY <1>1, <2>1, <2>4, <3>2 DEF PointersKnown, Unpointed
    <3>4. QED  BY <1>3, <1>4, <1>5, <3>3 DEF WordsInv
  <2>5. QED  BY <2>2, <2>3, <2>4
<1>8. QED  BY <1>6, <1>7

-----------------------------------------------------------------------------
\* fetch_item.
LEMMA FetchItemWords ==
  ASSUME OInv, WordsInv, FetchItem
  PROVE  WordsInv'
<1> DEFINE got == FetchWithLocation(Refresh(cache), RefreshKeys, op.key)
<1>1. /\ op.pc = "fetch_item" /\ io = NoIO /\ flash' = flash
      /\ IF got.status = "Corrupted" THEN HandleCorruption(got.cache, got.keys)
         ELSE cache' = got.cache /\ UNCHANGED io /\ op' = Idle
  BY DEF FetchItem, At, Return
<1>2. op.pc \notin {"idle", "erase_all"}
  BY <1>1
<1>3. Good(got.cache) /\ Right(got.cache, flash)
  <2>1. flash \in [Pages -> Page]
    BY <1>1, <1>2, Running
  <2>2. Refresh(cache) \in CacheType /\ Good(Refresh(cache)) /\ Right(Refresh(cache), flash)
    BY <1>1, <1>2, WordsFacts
  <2>3. QED  BY <2>1, <2>2, FetchGood, FetchRight DEF LeavesGood
<1> HIDE DEF got
<1>4. CASE got.status = "Corrupted"
  BY <1>1, <1>2, <1>3, <1>4, WordsCorruption
<1>5. CASE got.status # "Corrupted"
  BY <1>1, <1>2, <1>3, <1>5, WordsReturn
<1>6. QED  BY <1>4, <1>5

-----------------------------------------------------------------------------
\* An item header is written behind the items of the page in use.
LEMMA WordsHeader ==
  ASSUME OInv, WordsInv, io = NoIO, flash' = flash, io' \in IOType,
         op.pc \notin {"idle", "erase_all"}, op'.pc \in {"data", "copy"},
         NEW c \in CacheType, Right(c, flash), NEW p \in Pages, NEW a \in Addrs, NEW i \in Items,
         WriteHeader(c, p, a, i), Fits(a, Size[i]),
         Now[p] = "PartialOpen", a = EndOfItems(flash[p].words, 0), Appendable(flash[p].words),
         op'.page = p, op'.addr = a, op'.pc = "data" => op'.item = i,
         op'.pc = "copy" => flash[NextPage(p)].words[op'.from].crc = i
  PROVE  WordsInv'
<1> DEFINE ws == flash[p].words
           v == Applied(flash[p], io').words
           d == NoticeWritten(c, p, a, Size[i])
<1>1. /\ flash \in [Pages -> Page] /\ flash[p] \in Page /\ ws \in [Addrs -> Word] /\ Size[i] \in Nat
      /\ MarkedState(flash[p]) = "PartialOpen"
  BY Running, SizeAssumption DEF Page, Now, Marks
<1>2. /\ io'.cmd = "header" /\ io'.page = p /\ io'.addr = a /\ io'.item = i
      /\ cache' = d
  BY DEF WriteHeader, ItemIO
<1>3. ws[a] = Blank
  <2>1. 0 \in 0 .. PageWords /\ a # PageWords
    BY PageWordsAssumption DEF Addrs
  <2>2. QED  BY <1>1, <2>1, EndIsEnd
<1>4. /\ v[a] = Header(i) /\ \A b \in Addrs: b # a => v[b] = ws[b]
      /\ v \in [Addrs -> Word]
  <2>1. v = [ws EXCEPT ![a] = Header(i)]
    BY <1>1, <1>2, <1>3 DEF Applied, WithWord, Page, Programmed
  <2>2. Header(i) \in Word
    BY <1>1 DEF Header, Word
  <2>3. QED  BY <1>1, <2>1, <2>2
<1>5. Completed(io)'[p].words = v
  BY <1>1, <1>2 DEF Completed
<1>6. Pointed(c, p, ws) /\ Bare(c)
  BY DEF Right
<1>7. a = EndOfItems(ws, 0) /\ Appendable(ws)
  OBVIOUS
<1> HIDE DEF v, ws
<1>8. /\ Pointed(d, p, v) /\ Bare(d)
      /\ \A q \in Pages: q # p => d.written[q] = c.written[q] /\ d.erased[q] = c.erased[q]
      /\ CacheKind = "none" \/ d.dirty
  BY <1>1, <1>4, <1>6, <1>7, WrittenPointed
<1>9. DataReady(v, a, i)
  BY <1>1, <1>4, <1>7, HeaderWritten
<1> HIDE DEF d
<1>10. FitFor(flash[p], io')
  BY <1>1, <1>2 DEF FitFor
<1>11. Located'
  BY <1>2, <1>5, <1>8, <1>9 DEF Located, Source
<1>12. Trusted'
  BY DEF Trusted, RefreshedPCs
<1>13. op'.pc # "erase_all"
  OBVIOUS
<1>14. QED  BY <1>2, <1>8, <1>10, <1>11, <1>12, <1>13, WordsWord DEF v

\* The data of the item is written behind its header.
LEMMA WordsData ==
  ASSUME OInv, WordsInv, io = NoIO, flash' = flash, io' \in IOType,
         op.pc \in {"data", "copy"}, op'.pc \in {"finish", "migrate"},
         NEW p \in Pages, NEW a \in Addrs, NEW i \in Items, WriteData(p, a, i),
         DataReady(flash[p].words, a, i),
         op'.pc = "migrate" => op'.page = p /\ op'.addr = a + 1 + Size[i]
  PROVE  WordsInv'
<1> DEFINE ws == flash[p].words
           v == Applied(flash[p], io').words
<1>1. op.pc \notin {"idle", "erase_all"} /\ op'.pc # "erase_all"
  OBVIOUS
<1>2. /\ flash \in [Pages -> Page] /\ flash[p] \in Page /\ ws \in [Addrs -> Word] /\ Size[i] \in Nat
      /\ cache \in CacheType /\ ws = flash[p].words
  BY <1>1, Running, SizeAssumption DEF Page
<1>3. /\ cache' = cache
      /\ io' = IF Size[i] = 0 THEN NoIO ELSE ItemIO("data", p, a, i)
  BY DEF WriteData
<1>4. Trusted /\ Trusted'
  BY DEF Trusted, RefreshedPCs
<1>5. Good(cache) /\ Right(cache, flash) /\ Completed(io) = flash
  BY <1>1, <1>4, WordsFacts
<1>6. CacheKind = "none" \/ cache.dirty
  BY DEF WordsInv, Located
<1>7. EndOfItems(ws, 0) = a + 1 + Size[i] /\ DataReady(ws, a, i)
  BY DEF DataReady
<1> HIDE DEF ws
<1>8. CASE Size[i] = 0
  <2>1. io' = NoIO
    BY <1>3, <1>8
  <2>2. Completed(io)' = flash
    BY <1>2, <2>1, NoIOCompleted
  <2>3. Located'
    <3>1. EndOfItems(ws, 0) = a + 1
      <4>1. a + 1 + Size[i] = a + 1
        BY <1>8, PageWordsAssumption DEF Addrs
      <4>2. QED  BY <1>7, <4>1, Zenon
    <3>2. Appendable(ws)
      BY <1>7, <3>1 DEF Appendable, DataReady
    <3>3. QED  BY <1>2, <1>7, <2>2, <3>2 DEF Located
  <2>4. QED  BY <1>1, <1>3, <1>5, <2>1, <2>3, WordsQuiet
<1>9. CASE Size[i] # 0
  <2>1. io'.cmd = "data" /\ io'.page = p /\ io'.addr = a /\ io'.item = i
    BY <1>3, <1>9 DEF ItemIO
  <2>2. /\ v \in [Addrs -> Word]
        /\ \A b \in Addrs: v[b] # ws[b] => b \in DataAddrs(a, i)
    <3>1. v = [b \in Addrs |-> IF b \in DataAddrs(a, i) THEN Programmed(ws[b], Body(i)) ELSE ws[b]]
      BY <1>2, <2>1 DEF Applied, WithWords, Page
    <3>2. \A b \in Addrs: Programmed(ws[b], Body(i)) \in Word
      BY <1>2, ProgrammedType
    <3>3. QED  BY <1>2, <3>1, <3>2
  <2>3. Completed(io)'[p].words = v
    BY <1>2, <2>1 DEF Completed
  <2> HIDE DEF v
  <2>4. /\ EndOfItems(v, 0) = EndOfItems(ws, 0) /\ Appendable(v)
        /\ \A b \in Addrs: ws[b] # Blank => v[b] = ws[b]
    BY <1>2, <1>7, <2>2, DataWritten
  <2>5. Pointed(cache, p, v)
    <3>1. Pointed(cache, p, ws)
      BY <1>2, <1>5 DEF Right
    <3>2. QED  BY <1>2, <2>2, <2>4, <3>1, AppendPointed
  <2>6. FitFor(flash[p], io')
    BY <1>2, <1>7, <2>1 DEF FitFor
  <2>7. Located'
    BY <1>7, <2>3, <2>4 DEF Located
  <2>8. Bare(cache) /\ (Now[p] \in {"Open", "Corrupted"} => Unpointed(cache, p))
    BY <1>5 DEF Right, Now, Marks
  <2>9. Pointed(cache', p, Applied(flash[p], io').words)
    BY <1>3, <2>5 DEF v
  <2>10. QED
    BY <1>1, <1>3, <1>4, <1>5, <1>6, <2>1, <2>6, <2>7, <2>8, <2>9, WordsWord
<1>10. QED  BY <1>8, <1>9

-----------------------------------------------------------------------------
\* A page is tidy while another one is not closed.
LEMMA BesideTidy ==
  ASSUME OInv, WordsInv, io = NoIO, op.pc \notin {"idle", "erase_all"},
         NEW p \in Pages, NEW q \in Pages, p # q, Now[q] # "Closed"
  PROVE  Tidy(flash[p])
<1>1. KeptTidy(flash) /\ MarkedState(flash[q]) # "Closed"
  BY WordsFacts DEF Now, Marks
<1>2. QED  BY <1>1 DEF KeptTidy, Alone

\* The words of the pages when a page is opened or closed.
LEMMA MarkerWords ==
  ASSUME OInv, io = NoIO, flash' = flash, op.pc \notin {"idle", "erase_all"},
         NEW c \in CacheType, NEW p \in Pages, Good(c), Right(c, flash),
         OpenPage(c, p) \/ PartialClosePage(c, p) \/ ClosePage(c, p)
  PROVE  \A q \in Pages: Completed(io)'[q].words =
           IF OpenPage(c, p) /\ q = p THEN ErasedPage.words ELSE flash[q].words
<1>1. flash \in [Pages -> Page]
  BY Running
<1>2. Completed(io)' = Completed(io')
  BY DEF Completed
<1>3. QED  BY <1>1, <1>2, MarkerPointed DEF Right

\* A round of store_item with a page in use. The item goes where its headers end.
LEMMA StoreOnPageWords ==
  ASSUME OInv, IInv', WordsInv, NEW c \in CacheType, Good(c), Right(c, flash), NEW ks, NEW partial \in Pages,
         Now[partial] = "PartialOpen", op.pc = "store_item", io = NoIO,
         UNCHANGED flash, StoreOnPage(c, ks, partial)
  PROVE  WordsInv'
<1> DEFINE next == NextPage(partial)
           known == Learn(c, {next})
           spot == FreeSpot(known, partial)
<1>1. /\ flash \in [Pages -> Page] /\ op \in OpType /\ op.item \in Items
      /\ op.pc \notin {"idle", "erase_all"} /\ io' \in IOType
  BY Running DEF Shape, Functions, IInv, TypeOK
<1>2. known \in CacheType /\ Good(known) /\ Right(known, flash)
  BY <1>1, LearnType, GoodOps, RightLearn
<1>3. next \in Pages /\ next # partial /\ StateOf(c, next) = Now[next]
  BY <1>1, NextIs, StateIsMark DEF Now, Marks
<1>4. Tidy(flash[next])
  BY <1>1, <1>3, BesideTidy
<1>5. spot = EndOfItems(flash[partial].words, 0) /\ spot \in 0 .. PageWords
  BY <1>1, <1>2, FreeSpotIsEnd, FreeSpotType DEF Right
<1> HIDE DEF known, spot
<1>6. CASE HandleCorruption(known, ks)
  BY <1>1, <1>2, <1>6, WordsCorruption
<1>7. CASE cache' = UnmarkDirty(known) /\ Return(Result("ItemTooBig")) /\ UNCHANGED io
  <2>1. Good(cache') /\ Right(cache', flash)
    BY <1>1, <1>2, <1>7, GoodOps, RightLearn
  <2>2. QED  BY <1>1, <1>7, <2>1, WordsReturn DEF Return
<1>8. CASE /\ StateOf(c, next) = "Open" /\ Fits(spot, Size[op.item])
           /\ WriteHeader(known, partial, spot, op.item)
           /\ op' = [op EXCEPT !.pc = "data", !.page = partial, !.addr = spot]
  <2>1. op'.pc = "data" /\ op'.page = partial /\ op'.addr = spot /\ op'.item = op.item
    BY <1>1, <1>8 DEF OpType
  <2>2. spot \in Addrs
    BY <1>1, <1>2, <1>5, <1>8, HeaderType
  <2>3. Appendable(flash[partial].words)
    <3>1. Tidy(flash[partial])
      BY <1>1, <1>3, <1>8, BesideTidy
    <3>2. QED  BY <3>1 DEF Tidy, Now, Marks
  <2>4. QED  BY <1>1, <1>2, <1>5, <1>8, <2>1, <2>2, <2>3, WordsHeader
<1>9. CASE /\ StateOf(c, next) = "Open" /\ ClosePage(known, partial)
           /\ op' = [op EXCEPT !.pc = "closed", !.page = next]
  <2>1. op'.pc = "closed" /\ op'.page = next
    BY <1>1, <1>3, <1>9 DEF OpType
  <2>2. ~OpenPage(known, partial)
    BY <1>9, NoErase
  <2>3. Completed(io)'[next].words = flash[next].words
    BY <1>1, <1>2, <1>3, <1>9, <2>2, MarkerWords
  <2>4. BlankFrom(flash[next].words, 0)
    BY <1>3, <1>4, <1>9 DEF Tidy, Now, Marks
  <2>5. Located'
    BY <2>1, <2>3, <2>4 DEF Located
  <2>6. Trusted' /\ op'.pc # "erase_all"
    BY <2>1 DEF Trusted, RefreshedPCs
  <2>7. QED  BY <1>1, <1>2, <1>9, <2>2, <2>5, <2>6, WordsMarker
<1>10. QED
  BY <1>6, <1>7, <1>8, <1>9 DEF StoreOnPage, next, known, spot

\* A round that puts the first page to use.
LEMMA StoreOnFirstWords ==
  ASSUME OInv, WordsInv, NEW c \in CacheType, Good(c), Right(c, flash), NEW ks, NEW partial,
         op.pc = "store_item", io = NoIO,
         UNCHANGED flash, StoreOnFirst(c, ks, partial)
  PROVE  WordsInv'
<1>1. flash \in [Pages -> Page] /\ op \in OpType /\ op.pc \notin {"idle", "erase_all"}
  BY Running
<1>2. CASE HandleCorruption(c, ks)
  BY <1>1, <1>2, WordsCorruption
<1>3. CASE ~HandleCorruption(c, ks)
  <2> DEFINE open == FindFirst(c, 0, "Open")
  <2>1. open \in Pages /\ PartialClosePage(c, open) /\ op' = [op EXCEPT !.level = @ + 1]
    BY <1>3 DEF StoreOnFirst
  <2> HIDE DEF open
  <2>2. op'.pc = "store_item" /\ op'.level > 0
    <3>1. op'.pc = op.pc /\ op'.level = op.level + 1 /\ op.level \in 0 .. PageCount
      BY <1>1, <2>1 DEF OpType
    <3>2. QED  BY <3>1, PageCountAssumption
  <2>3. Trusted' /\ Located' /\ op'.pc # "erase_all"
    BY <2>2, Elsewhere DEF Trusted
  <2>4. ~OpenPage(c, open)
    BY <2>1, NoErase
  <2>5. QED  BY <1>1, <2>1, <2>3, <2>4, WordsMarker
<1>4. QED  BY <1>2, <1>3

\* A round of store_item.
LEMMA StoreRoundWords ==
  ASSUME OInv, IInv', WordsInv, StoreRound
  PROVE  WordsInv'
<1> DEFINE c == IF op.level = 0 THEN Refresh(cache) ELSE cache
           ks == IF op.level = 0 THEN RefreshKeys ELSE keys
           known == LearnLastUsed(c)
           partial == FindFirst(c, 0, "PartialOpen")
<1>1. /\ op.pc = "store_item" /\ io = NoIO /\ UNCHANGED flash
      /\ \/ cache' = UnmarkDirty(c) /\ Return(Result("FullStorage")) /\ UNCHANGED io
         \/ IF partial \in Pages THEN StoreOnPage(known, ks, partial)
            ELSE StoreOnFirst(known, ks, partial)
  BY DEF StoreRound, At
<1>2. /\ op.pc \notin {"idle", "erase_all"}
      /\ flash \in [Pages -> Page] /\ cache \in CacheType /\ op.level \in 0 .. PageCount
  BY <1>1, Running DEF OpType
<1>3. c \in CacheType /\ Good(c) /\ Right(c, flash)
  <2>1. CASE op.level = 0
    BY <1>1, <1>2, <2>1, WordsFacts
  <2>2. CASE op.level # 0
    <3>1. Trusted
      BY <1>1, <1>2, <2>2, PageCountAssumption DEF Trusted
    <3>2. QED  BY <1>1, <1>2, <2>2, <3>1, WordsFacts
  <2>3. QED  BY <2>1, <2>2
<1> HIDE DEF c, ks
<1>4. /\ known \in CacheType /\ Good(known) /\ Right(known, flash)
      /\ Good(UnmarkDirty(c)) /\ Right(UnmarkDirty(c), flash)
  BY <1>2, <1>3, LearnType, GoodOps, RightLearn DEF LearnLastUsed
<1>5. partial \in Pages => Now[partial] = "PartialOpen"
  BY <1>2, <1>3, SmallTypes, FoundFirst
<1> HIDE DEF known, partial
<1>6. CASE cache' = UnmarkDirty(c) /\ Return(Result("FullStorage")) /\ UNCHANGED io
  BY <1>1, <1>2, <1>4, <1>6, WordsReturn DEF Return
<1>7. CASE IF partial \in Pages THEN StoreOnPage(known, ks, partial)
           ELSE StoreOnFirst(known, ks, partial)
  BY <1>1, <1>4, <1>5, <1>7, StoreOnPageWords, StoreOnFirstWords
<1>8. QED  BY <1>1, <1>6, <1>7

\* The data of the item, and the end of the call.
LEMMA StoreDataWords ==
  ASSUME OInv, IInv', WordsInv, StoreData \/ StoreFinish
  PROVE  WordsInv'
<1>1. op.pc \in {"data", "finish"} /\ io = NoIO /\ flash' = flash
  BY DEF StoreData, StoreFinish, At
<1>2. /\ op \in OpType /\ Shape(op) /\ op.page \in Pages /\ Completed(io) = flash /\ io' \in IOType
      /\ cache \in CacheType /\ Good(cache) /\ Right(cache, flash) /\ flash \in [Pages -> Page]
  BY <1>1, Running, WordsFacts DEF Trusted, RefreshedPCs, OpType, IInv, TypeOK
<1>3. CASE StoreData
  <2>1. op.pc = "data" /\ WriteData(op.page, op.addr, op.item) /\ op' = [op EXCEPT !.pc = "finish"]
    BY <1>3 DEF StoreData, At
  <2>2. op'.pc = "finish" /\ op.item \in Items /\ op.addr \in 0 .. PageWords
    BY <1>2, <2>1 DEF OpType, Shape
  <2>3. DataReady(flash[op.page].words, op.addr, op.item)
    BY <1>2, <2>1 DEF WordsInv, Located
  <2>4. op.addr \in Addrs
    BY <2>2, <2>3, SizeAssumption, PageWordsAssumption DEF DataReady, Fits, Addrs
  <2>5. QED  BY <1>1, <1>2, <2>1, <2>2, <2>3, <2>4, WordsData
<1>4. CASE StoreFinish
  <2>1. cache' = UnmarkDirty(cache) /\ op' = Idle /\ UNCHANGED io
    BY <1>4 DEF StoreFinish, Return
  <2>2. QED  BY <1>1, <1>2, <2>1, GoodOps, RightLearn, WordsReturn
<1>5. QED  BY <1>3, <1>4

\* The next page becomes the one to write to.
LEMMA StoreNextPageWords ==
  ASSUME OInv, WordsInv, StoreNextPage
  PROVE  WordsInv'
<1> DEFINE known == Learn(cache, {op.page})
<1>1. /\ op.pc = "closed" /\ io = NoIO /\ UNCHANGED flash
      /\ PartialClosePage(known, op.page) /\ op' = [op EXCEPT !.pc = "opened"]
  BY DEF StoreNextPage, At
<1>2. /\ op \in OpType /\ op.page \in Pages /\ op.pc \notin {"idle", "erase_all"}
      /\ flash \in [Pages -> Page]
  BY <1>1, Running DEF OpType
<1>3. /\ cache \in CacheType /\ Good(cache) /\ Right(cache, flash) /\ Completed(io) = flash
  BY <1>1, <1>2, WordsFacts DEF Trusted, RefreshedPCs
<1>4. known \in CacheType /\ Good(known) /\ Right(known, flash)
  BY <1>2, <1>3, LearnType, GoodOps, RightLearn
<1> HIDE DEF known
<1>5. op'.pc = "opened" /\ op'.page = op.page
  BY <1>1, <1>2 DEF OpType
<1>6. ~OpenPage(known, op.page)
  BY <1>1, NoErase
<1>7. Completed(io)'[op.page].words = flash[op.page].words
  BY <1>1, <1>2, <1>4, <1>6, MarkerWords
<1>8. BlankFrom(flash[op.page].words, 0)
  BY <1>1, <1>3 DEF WordsInv, Located
<1>9. Located' /\ Trusted' /\ op'.pc # "erase_all"
  BY <1>5, <1>7, <1>8 DEF Located, Trusted, RefreshedPCs
<1>10. QED  BY <1>1, <1>2, <1>4, <1>6, <1>9, WordsMarker

\* The page after it is a buffer, or is migrated to become one.
LEMMA StoreBufferWords ==
  ASSUME OInv, WordsInv, StoreBuffer
  PROVE  WordsInv'
<1> DEFINE buffer == NextPage(op.page)
           state == StateOf(cache, buffer)
           known == Learn(cache, {buffer})
<1>1. /\ op.pc = "opened" /\ io = NoIO /\ UNCHANGED flash
      /\ IF state = "Corrupted" THEN HandleCorruption(known, keys)
         ELSE /\ cache' = known
              /\ op' = IF state = "Open"
                       THEN [op EXCEPT !.pc = "store_item", !.level = @ + 1, !.page = 0]
                       ELSE [op EXCEPT !.pc = "migrate", !.addr = 0, !.from = 0]
              /\ UNCHANGED <<io, ret>>
  BY DEF StoreBuffer, At
<1>2. /\ op \in OpType /\ op.page \in Pages /\ op.pc \notin {"idle", "erase_all"}
      /\ flash \in [Pages -> Page] /\ flash[op.page].words \in [Addrs -> Word]
  BY <1>1, Running DEF OpType, Page
<1>3. /\ cache \in CacheType /\ Good(cache) /\ Right(cache, flash) /\ Completed(io) = flash
  BY <1>1, <1>2, WordsFacts DEF Trusted, RefreshedPCs
<1>4. known \in CacheType /\ Good(known) /\ Right(known, flash)
  BY <1>2, <1>3, LearnType, GoodOps, RightLearn
<1> HIDE DEF known, state
<1>5. CASE state = "Corrupted"
  BY <1>1, <1>2, <1>4, <1>5, WordsCorruption
<1>6. CASE state = "Open"
  <2>1. op'.pc = "store_item" /\ io' = NoIO /\ cache' = known
    BY <1>1, <1>2, <1>6 DEF OpType
  <2>2. Located'
    BY <2>1, Elsewhere
  <2>3. QED  BY <1>1, <1>2, <1>4, <2>1, <2>2, WordsQuiet
<1>7. CASE state \notin {"Corrupted", "Open"}
  <2>1. /\ op' = [op EXCEPT !.pc = "migrate", !.addr = 0, !.from = 0]
        /\ io' = NoIO /\ cache' = known
    BY <1>1, <1>7
  <2>2. op'.pc = "migrate" /\ op'.page = op.page /\ op'.addr = 0
    BY <1>2, <2>1 DEF OpType
  <2>3. Completed(io)' = flash
    BY <1>1, <1>2, <2>1, NoIOCompleted
  <2>4. BlankFrom(flash[op.page].words, 0)
    BY <1>1, <1>3 DEF WordsInv, Located
  <2>5. EndOfItems(flash[op.page].words, 0) = 0 /\ Appendable(flash[op.page].words)
    BY <1>2, <2>4, BlankWalk
  <2>6. Located'
    BY <2>2, <2>3, <2>5 DEF Located
  <2>7. QED  BY <1>1, <1>2, <1>4, <2>1, <2>2, <2>6, WordsQuiet
<1>8. QED  BY <1>5, <1>6, <1>7

-----------------------------------------------------------------------------
\* A migration looks at an item, and copies it if it is the newest.
LEMMA MigrateItemWords ==
  ASSUME OInv, IInv', WordsInv, MigrateItem
  PROVE  WordsInv'
<1> DEFINE ws == flash[Source].words
           left == PresentItems(ws, op.from)
           a == Min(left)
           got == FetchWithLocation(UnmarkDirty(cache), keys, KeyAt(ws, a))
<1>1. /\ op.pc = "migrate" /\ io = NoIO /\ UNCHANGED flash /\ left # {}
      /\ IF got.status # "Ok" THEN HandleCorruption(got.cache, got.keys)
         ELSE IF got.page = Source /\ got.addr = a
         THEN /\ op.addr \in Addrs /\ WriteHeader(got.cache, op.page, op.addr, ws[a].crc)
              /\ op' = [op EXCEPT !.pc = "copy", !.from = a]
         ELSE /\ cache' = got.cache /\ op' = [op EXCEPT !.from = NextAddr(ws, a)]
              /\ UNCHANGED io
  BY DEF MigrateItem, At
<1>2. /\ op \in OpType /\ Shape(op) /\ op.page \in Pages /\ op.pc \notin {"idle", "erase_all"}
      /\ op.addr \in 0 .. PageWords /\ op.from \in 0 .. PageWords
      /\ Source \in Pages /\ Source = NextPage(op.page) /\ flash \in [Pages -> Page]
      /\ Planned(op, Now) /\ io' \in IOType /\ op.addr <= op.from
  BY <1>1, Running, SourceType DEF OpType, Source, IInv, TypeOK, Shape
<1>3. /\ cache \in CacheType /\ Good(cache) /\ Right(cache, flash) /\ Completed(io) = flash
  BY <1>1, <1>2, WordsFacts DEF Trusted, RefreshedPCs
<1>4. Good(got.cache) /\ Right(got.cache, flash) /\ got.cache \in CacheType
  <2>1. UnmarkDirty(cache) \in CacheType /\ Good(UnmarkDirty(cache)) /\ Right(UnmarkDirty(cache), flash)
    BY <1>2, <1>3, DirtyType, GoodOps, RightLearn
  <2>2. QED  BY <1>2, <2>1, FetchGood, FetchRight DEF LeavesGood
<1> HIDE DEF got
<1>5. ws \in [Addrs -> Word] /\ SizedPage(flash[Source])
  BY <1>2, Typed DEF Sized, OInv
<1>6. /\ a \in Addrs /\ a >= op.from /\ IsPresent(ws, a)
  <2>1. left \subseteq {b \in Addrs: b >= op.from /\ IsPresent(ws, b)} /\ left \in SUBSET Nat
    BY <1>2, <1>5, PresentItemsType
  <2>2. QED  BY <1>1, <2>1, MinInSet
<1> HIDE DEF a, left
<1>7. /\ ws[a].crc \in Items /\ ws[a].len = Size[ws[a].crc]
      /\ a + 1 + ws[a].len <= PageWords /\ ws[a].len \in Nat
  <2>1. ws[a].kind = "header"
    BY <1>6 DEF IsPresent, IsItem
  <2>2. QED  BY <1>5, <1>6, <2>1, PresentType DEF SizedPage, SizedWord
<1>8. /\ op.addr = EndOfItems(flash[op.page].words, 0) /\ Appendable(flash[op.page].words)
      /\ Now[op.page] = "PartialOpen"
  BY <1>1, <1>2, <1>3 DEF WordsInv, Located, Planned
<1> HIDE DEF ws
<1>9. CASE got.status # "Ok"
  BY <1>1, <1>2, <1>4, <1>9, WordsCorruption
<1>10. CASE got.status = "Ok" /\ got.page = Source /\ got.addr = a
  <2>1. /\ op.addr \in Addrs /\ WriteHeader(got.cache, op.page, op.addr, ws[a].crc)
        /\ op' = [op EXCEPT !.pc = "copy", !.from = a]
    BY <1>1, <1>10
  <2>2. op'.pc = "copy" /\ op'.page = op.page /\ op'.addr = op.addr /\ op'.from = a
    BY <1>2, <2>1 DEF OpType
  <2>3. Fits(op.addr, Size[ws[a].crc])
    BY <1>2, <1>6, <1>7, PageWordsAssumption DEF Fits, Addrs
  <2>4. flash[NextPage(op.page)].words[op'.from].crc = ws[a].crc
    BY <1>2, <2>2 DEF ws
  <2>5. QED
    BY <1>1, <1>2, <1>4, <1>7, <1>8, <2>1, <2>2, <2>3, <2>4, WordsHeader
<1>11. CASE got.status = "Ok" /\ ~(got.page = Source /\ got.addr = a)
  <2>1. /\ cache' = got.cache /\ op' = [op EXCEPT !.from = NextAddr(ws, a)] /\ io' = NoIO
    BY <1>1, <1>11
  <2>2. op'.pc = "migrate" /\ op'.page = op.page /\ op'.addr = op.addr
    BY <1>1, <1>2, <2>1 DEF OpType
  <2>3. Completed(io)' = flash
    BY <1>1, <1>2, <2>1, NoIOCompleted
  <2>4. Located'
    BY <1>8, <2>2, <2>3 DEF Located
  <2>5. QED  BY <1>1, <1>2, <1>4, <2>1, <2>2, <2>4, WordsQuiet
<1>12. QED  BY <1>9, <1>10, <1>11

\* The data of the copy.
LEMMA MigrateDataWords ==
  ASSUME OInv, IInv', WordsInv, MigrateData
  PROVE  WordsInv'
<1> DEFINE ws == flash[Source].words
           i == ws[op.from].crc
<1>1. /\ op.pc = "copy" /\ io = NoIO /\ UNCHANGED flash
      /\ WriteData(op.page, op.addr, i)
      /\ op' = [op EXCEPT !.pc = "migrate", !.addr = @ + 1 + Size[i], !.from = NextAddr(ws, @)]
  BY SMTT(30) DEF MigrateData, At
<1>2. /\ op \in OpType /\ Shape(op) /\ op.page \in Pages /\ op.pc \notin {"idle", "erase_all"}
      /\ op.addr \in 0 .. PageWords /\ Source \in Pages /\ flash \in [Pages -> Page]
      /\ io' \in IOType /\ op.addr <= op.from
  BY <1>1, Running, SourceType DEF OpType, IInv, TypeOK, Shape
<1>3. op.from \in Addrs /\ IsPresent(ws, op.from)
  BY <1>1 DEF OInv, IInv, Copying
<1>4. i \in Items /\ op.addr \in Addrs
  <2>1. ws \in [Addrs -> Word] /\ ws[op.from].kind = "header"
    BY <1>2, <1>3 DEF IsPresent, IsItem, Page
  <2>2. QED  BY <1>2, <1>3, <2>1, PresentType, PageWordsAssumption DEF Addrs
<1>5. DataReady(flash[op.page].words, op.addr, i)
  <2>1. Completed(io) = flash
    BY <1>1, <1>2, WordsFacts
  <2>2. QED  BY <1>1, <2>1 DEF WordsInv, Located
<1> HIDE DEF i, ws
<1>6. op'.pc = "migrate" /\ op'.page = op.page /\ op'.addr = op.addr + 1 + Size[i]
  BY <1>1, <1>2 DEF OpType
<1>7. QED  BY <1>1, <1>2, <1>4, <1>5, <1>6, WordsData

\* Then the source page is erased and becomes the buffer; the call goes on.
LEMMA MigrateEndWords ==
  ASSUME OInv, WordsInv, MigrateErase \/ MigrateDone
  PROVE  WordsInv'
<1>1. op.pc \in {"migrate", "migrated"} /\ io = NoIO /\ UNCHANGED flash
  BY DEF MigrateErase, MigrateDone, At
<1>2. /\ op \in OpType /\ op.page \in Pages /\ op.pc \notin {"idle", "erase_all"}
      /\ Source \in Pages /\ Source = NextPage(op.page) /\ flash \in [Pages -> Page]
      /\ Planned(op, Now)
  BY <1>1, Running, SourceType DEF OpType, Source
<1>3. /\ cache \in CacheType /\ Good(cache) /\ Right(cache, flash) /\ Completed(io) = flash
  BY <1>1, <1>2, WordsFacts DEF Trusted, RefreshedPCs
<1>4. CASE MigrateErase
  <2>1. op.pc = "migrate" /\ OpenPage(cache, Source) /\ op' = [op EXCEPT !.pc = "migrated"]
    BY <1>4 DEF MigrateErase, At
  <2>2. op'.pc = "migrated"
    BY <1>2, <2>1 DEF OpType
  <2>3. Now[op.page] = "PartialOpen" /\ Now[Source] = "Closed"
    BY <1>2, <2>1 DEF Planned
  <2>4. ASSUME NEW q \in Pages PROVE Tidy(flash[q])
    <3>1. CASE q = op.page
      <4>1. Appendable(flash[op.page].words)
        BY <1>3, <2>1 DEF WordsInv, Located
      <4>2. MarkedState(flash[op.page]) = "PartialOpen"
        BY <1>2, <2>3 DEF Now, Marks
      <4>3. QED  BY <3>1, <4>1, <4>2 DEF Tidy
    <3>2. CASE q # op.page
      BY <1>1, <1>2, <2>3, <3>2, BesideTidy
    <3>3. QED  BY <3>1, <3>2
  <2>5. Located' /\ Trusted'
    BY <2>2, Elsewhere DEF Trusted, RefreshedPCs
  <2>6. QED  BY <1>1, <1>2, <1>3, <2>1, <2>2, <2>3, <2>4, <2>5, WordsMarker
<1>5. CASE MigrateDone
  <2>1. /\ cache' = cache /\ io' = NoIO
        /\ IF op.repairing THEN Restart
           ELSE op' = [op EXCEPT !.pc = "store_item", !.level = @ + 1, !.page = 0,
                                 !.addr = 0, !.from = 0]
    BY <1>1, <1>5 DEF MigrateDone
  <2>2. CASE op.repairing
    BY <1>1, <1>2, <1>3, <2>1, <2>2, WordsRestart
  <2>3. CASE ~op.repairing
    <3>1. op'.pc = "store_item"
      BY <1>2, <2>1, <2>3 DEF OpType
    <3>2. Located'
      BY <3>1, Elsewhere
    <3>3. QED  BY <1>1, <1>2, <1>3, <2>1, <3>1, <3>2, WordsQuiet
  <2>4. QED  BY <2>2, <2>3
<1>6. QED  BY <1>4, <1>5

-----------------------------------------------------------------------------
\* A half-erased page is erased: the others are tidy.
LEMMA RepairPageWords ==
  ASSUME OInv, WordsInv, RepairPage
  PROVE  WordsInv'
<1> DEFINE p == Min(TornPages)
           known == Learn(cache, op.page .. p)
<1>1. /\ op.pc = "repair" /\ io = NoIO /\ UNCHANGED flash /\ TornPages # {}
      /\ OpenPage(known, p) /\ op' = [op EXCEPT !.page = p]
  BY DEF RepairPage, At
<1>2. flash \in [Pages -> Page] /\ op \in OpType /\ op.pc \notin {"idle", "erase_all"}
  BY <1>1, Running
<1>3. /\ cache \in CacheType /\ Good(cache) /\ Right(cache, flash)
  BY <1>1, <1>2, WordsFacts DEF Trusted, RefreshedPCs
<1>4. p \in Pages /\ Now[p] = "Corrupted"
  <2>1. TornPages \in SUBSET Nat
    BY PageCountAssumption DEF TornPages, Pages
  <2>2. p \in TornPages
    BY <1>1, <2>1, MinInSet
  <2>3. p \in Pages /\ StateOf(cache, p) = "Corrupted"
    BY <2>2 DEF TornPages
  <2>4. QED  BY <1>2, <1>3, <2>3, StateIsMark DEF Now, Marks
<1>5. known \in CacheType /\ Good(known) /\ Right(known, flash)
  BY <1>2, <1>3, LearnType, GoodOps, RightLearn
<1> HIDE DEF p, known
<1>6. \A q \in Pages: q # p => Tidy(flash[q])
  BY <1>1, <1>2, <1>4, BesideTidy
<1>7. MarkedState(flash[p]) = "Corrupted"
  BY <1>4 DEF Now, Marks
<1>8. op'.pc = "repair"
  BY <1>1, <1>2 DEF OpType
<1>9. Trusted' /\ Located'
  BY <1>8, Elsewhere DEF Trusted, RefreshedPCs
<1>10. QED  BY <1>1, <1>2, <1>4, <1>5, <1>6, <1>7, <1>8, <1>9, WordsMarker

\* The page in use of an interrupted migration is erased when all others are closed.
LEMMA RepairMigrationWords ==
  ASSUME OInv, WordsInv, RepairMigration
  PROVE  WordsInv'
<1> DEFINE known == Learn(cache, Pages)
           p == FindFirst(known, 0, "PartialOpen")
<1>1. /\ op.pc = "repair" /\ io = NoIO /\ UNCHANGED flash /\ TornPages = {}
      /\ IF p \in Pages /\ StateOf(known, NextPage(p)) # "Open"
         THEN OpenPage(known, p) /\ op' = [op EXCEPT !.pc = "reopen", !.page = p]
         ELSE cache' = known /\ Restart /\ UNCHANGED io
  BY DEF RepairMigration, At
<1>2. /\ flash \in [Pages -> Page] /\ op \in OpType /\ op.page \in Pages
      /\ op.pc \notin {"idle", "erase_all"}
      /\ Now \in [Pages -> PageState] /\ Ordered(Now) /\ Planned(op, Now)
  BY <1>1, Running DEF OpType
<1>3. /\ cache \in CacheType /\ Good(cache) /\ Right(cache, flash)
  BY <1>1, <1>2, WordsFacts DEF Trusted, RefreshedPCs
<1>4. known \in CacheType /\ Good(known) /\ Right(known, flash)
  BY <1>2, <1>3, LearnType, GoodOps, RightLearn
<1> HIDE DEF known
<1>5. p \in Pages => Now[p] = "PartialOpen"
  BY <1>2, <1>4, SmallTypes, FoundFirst
<1> HIDE DEF p
<1>6. \A r \in Pages: Now[r] # "Corrupted"
  <2>1. SUFFICES ASSUME NEW r \in Pages, r >= op.page PROVE Now[r] # "Corrupted"
    BY <1>1, <1>2, PageCountAssumption DEF Planned, Pages
  <2>2. StateOf(cache, r) # "Corrupted"
    BY <1>1, <2>1 DEF TornPages
  <2>3. QED  BY <1>2, <1>3, <2>2, StateIsMark DEF Now, Marks
<1>7. CASE p \in Pages /\ StateOf(known, NextPage(p)) # "Open"
  <2>1. OpenPage(known, p) /\ op' = [op EXCEPT !.pc = "reopen", !.page = p]
    BY <1>1, <1>7
  <2>2. NextPage(p) \in Pages /\ NextPage(p) # p
    BY <1>7, NextIs
  <2>3. Now[NextPage(p)] \notin {"Open", "Corrupted"}
    BY <1>2, <1>4, <1>6, <1>7, <2>2, StateIsMark DEF Now, Marks
  <2>4. \A q \in Pages: q # p => Now[q] = "Closed"
    BY <1>2, <1>5, <1>7, <2>3, NoBuffer
  <2>5. Alone(flash, p)
    BY <2>4 DEF Alone, Now, Marks
  <2>6. \A q \in Pages: q # p => Tidy(flash[q])
    <3>1. Now[p] # "Closed"
      BY <1>5, <1>7
    <3>2. QED  BY <1>1, <1>2, <1>7, <3>1, BesideTidy
  <2>7. op'.pc = "reopen" /\ op'.page = p
    BY <1>2, <1>7, <2>1 DEF OpType
  <2>8. Completed(io)'[p].words = ErasedPage.words
    BY <1>1, <1>2, <1>4, <1>7, <2>1, MarkerWords
  <2>9. BlankFrom(ErasedPage.words, 0)
    BY DEF BlankFrom, ErasedPage
  <2>10. Located' /\ Trusted'
    BY <2>7, <2>8, <2>9 DEF Located, Trusted, RefreshedPCs
  <2>11. QED  BY <1>1, <1>2, <1>4, <1>7, <2>1, <2>5, <2>6, <2>7, <2>10, WordsMarker
<1>8. CASE ~(p \in Pages /\ StateOf(known, NextPage(p)) # "Open")
  BY <1>1, <1>2, <1>4, <1>8, WordsRestart
<1>9. QED  BY <1>7, <1>8

\* And put to use again.
LEMMA RepairReopenWords ==
  ASSUME OInv, WordsInv, RepairReopen
  PROVE  WordsInv'
<1>1. /\ op.pc = "reopen" /\ io = NoIO /\ UNCHANGED flash
      /\ PartialClosePage(cache, op.page) /\ op' = [op EXCEPT !.pc = "migrate", !.addr = 0, !.from = 0]
  BY DEF RepairReopen, At
<1>2. /\ op \in OpType /\ op.page \in Pages /\ op.pc \notin {"idle", "erase_all"}
      /\ flash \in [Pages -> Page] /\ flash[op.page].words \in [Addrs -> Word]
  BY <1>1, Running DEF OpType, Page
<1>3. /\ cache \in CacheType /\ Good(cache) /\ Right(cache, flash) /\ Completed(io) = flash
  BY <1>1, <1>2, WordsFacts DEF Trusted, RefreshedPCs
<1>4. op'.pc = "migrate" /\ op'.page = op.page /\ op'.addr = 0
  BY <1>1, <1>2 DEF OpType
<1>5. ~OpenPage(cache, op.page)
  BY <1>1, NoErase
<1>6. Completed(io)'[op.page].words = flash[op.page].words
  BY <1>1, <1>2, <1>3, <1>5, MarkerWords
<1>7. BlankFrom(flash[op.page].words, 0)
  BY <1>1, <1>3 DEF WordsInv, Located
<1>8. EndOfItems(flash[op.page].words, 0) = 0 /\ Appendable(flash[op.page].words)
  BY <1>2, <1>7, BlankWalk
<1>9. Located' /\ Trusted' /\ op'.pc # "erase_all"
  BY <1>4, <1>6, <1>8 DEF Located, Trusted, RefreshedPCs
<1>10. QED  BY <1>1, <1>2, <1>3, <1>5, <1>9, WordsMarker

-----------------------------------------------------------------------------
\* A removal begins: only the cache is touched.
LEMMA RemoveStartWords ==
  ASSUME OInv, WordsInv, RemoveStart
  PROVE  WordsInv'
<1> DEFINE all == op.fn = "remove_all_items"
           c == IF all THEN FreshCache ELSE MarkDirty(cache)
           known == LearnLastUsed(c)
           partial == FindFirst(c, 0, "PartialOpen")
<1>1. /\ op.pc \in {"remove_item", "remove_all_items"} /\ io = NoIO /\ UNCHANGED flash
      /\ IF partial = CorruptedPage THEN \E ks: HandleCorruption(known, ks)
         ELSE /\ cache' = known /\ UNCHANGED <<io, ret>>
              /\ \E p: op' = [op EXCEPT !.pc = "removing", !.page = p]
  BY DEF RemoveStart, At
<1>2. /\ flash \in [Pages -> Page] /\ op \in OpType /\ Shape(op) /\ op.pc \notin {"idle", "erase_all"}
  BY <1>1, Running
<1>3. /\ cache \in CacheType
      /\ op.pc = "remove_item" => Good(cache) /\ Right(cache, flash)
  BY <1>1, <1>2, WordsFacts DEF Trusted, RefreshedPCs
<1>4. c \in CacheType /\ Good(c) /\ Right(c, flash)
  <2>1. CASE all
    BY <1>3, <2>1, FreshCacheType, FreshSound, RightOps
  <2>2. CASE ~all
    <3>1. Good(cache) /\ Right(cache, flash)
      BY <1>1, <1>2, <1>3, <2>2 DEF Shape, Functions
    <3>2. QED  BY <1>2, <1>3, <2>2, <3>1, DirtyType, NoticeGood, RightLearn
  <2>3. QED  BY <2>1, <2>2
<1> HIDE DEF c
<1>5. known \in CacheType /\ Good(known) /\ Right(known, flash)
  BY <1>2, <1>4, LearnType, GoodOps, RightLearn DEF LearnLastUsed
<1> HIDE DEF known, partial
<1>6. CASE partial = CorruptedPage
  BY <1>1, <1>2, <1>5, <1>6, WordsCorruption
<1>7. CASE partial # CorruptedPage
  <2>1. op'.pc = "removing"
    BY <1>1, <1>2, <1>7 DEF OpType
  <2>2. Located'
    BY <2>1, Elsewhere
  <2>3. QED  BY <1>1, <1>2, <1>5, <1>7, <2>1, <2>2, WordsQuiet
<1>8. QED  BY <1>6, <1>7

\* An item is erased, or the removal ends.
LEMMA RemoveNextWords ==
  ASSUME OInv, IInv', WordsInv, RemoveNext
  PROVE  WordsInv'
<1> DEFINE state(j) == StateOf(cache, PageFrom(op.page, j))
           stops == {j \in op.level .. PageCount - 1:
                       state(j) = "Corrupted" \/ (state(j) # "Open" /\ ToRemove(j) # {})}
           i == Min(stops)
           p == PageFrom(op.page, i)
           known == Learn(cache, {PageFrom(op.page, j): j \in op.level .. i})
           Ends == /\ cache' = UnmarkDirty(Learn(cache, Pages))
                   /\ Return(Result("Ok")) /\ UNCHANGED io
           Erases(a) == /\ stops # {} /\ state(i) # "Corrupted"
                        /\ a = Min(ToRemove(i))
                        /\ EraseItem(known, p, a)
                        /\ op' = [op EXCEPT !.level = i, !.from = NextAddr(flash[p].words, a)]
<1>1. /\ op.pc = "removing" /\ io = NoIO /\ UNCHANGED flash
  BY DEF RemoveNext, At
<1>2. /\ flash \in [Pages -> Page] /\ op \in OpType /\ op.pc \notin {"idle", "erase_all"}
      /\ op.level \in 0 .. PageCount /\ PageCount \in Nat /\ IInv /\ io' \in IOType
  BY <1>1, Running, PageCountAssumption DEF OpType, OInv, IInv, TypeOK
<1>3. /\ cache \in CacheType /\ Good(cache) /\ Right(cache, flash)
  BY <1>1, <1>2, WordsFacts DEF Trusted, RefreshedPCs
<1>4. \A S: Learn(cache, S) \in CacheType /\ Good(Learn(cache, S)) /\ Right(Learn(cache, S), flash)
  BY <1>2, <1>3, LearnType, GoodOps, RightLearn
<1>5. Ends \/ HandleCorruption(known, keys) \/ \E a \in Addrs: Erases(a)
  BY Zenon DEF RemoveNext
<1>6. known \in CacheType /\ Good(known) /\ Right(known, flash)
  BY <1>4
<1>7. stops # {} => i \in Pages /\ (state(i) = "Corrupted" \/ (state(i) # "Open" /\ ToRemove(i) # {}))
  <2>1. stops \in SUBSET Nat
    BY <1>2
  <2>2. stops # {} => i \in stops
    BY <2>1, MinInSet
  <2>3. stops # {} => /\ i \in op.level .. PageCount - 1
                      /\ state(i) = "Corrupted" \/ (state(i) # "Open" /\ ToRemove(i) # {})
    BY <2>2
  <2> HIDE DEF i, stops, state
  <2>4. QED  BY <1>2, <2>3 DEF Pages
<1> HIDE DEF known, i, stops
<1>8. CASE Ends
  <2>1. cache' = UnmarkDirty(Learn(cache, Pages)) /\ op' = Idle /\ io' = NoIO
    BY <1>1, <1>8 DEF Return
  <2>2. Good(cache') /\ Right(cache', flash)
    BY <1>2, <1>4, <2>1, GoodOps, RightLearn
  <2>3. QED  BY <1>1, <1>2, <2>1, <2>2, WordsReturn
<1>9. CASE HandleCorruption(known, keys)
  BY <1>1, <1>2, <1>6, <1>9, WordsCorruption
<1>10. ASSUME NEW a \in Addrs, Erases(a) PROVE WordsInv'
  <2> DEFINE ws == flash[p].words
             v == Applied(flash[p], io').words
             d == NoticeErased(known, p, a, ws[a].len)
  <2>1. /\ i \in Pages /\ state(i) \notin {"Open", "Corrupted"} /\ ToRemove(i) # {}
        /\ a = Min(ToRemove(i)) /\ EraseItem(known, p, a)
        /\ op' = [op EXCEPT !.level = i, !.from = NextAddr(flash[p].words, a)]
    BY <1>7, <1>10
  <2>2. p \in Pages /\ IsPresent(ws, a)
    BY <1>2, <2>1, ToRemoveType, MinInSet
  <2>3. Now[p] \notin {"Open", "Corrupted"}
    BY <1>2, <1>3, <2>1, <2>2, StateIsMark DEF Now, Marks
  <2> HIDE DEF p, state
  <2>4. flash[p] \in Page /\ ws \in [Addrs -> Word]
    BY <1>2, <2>2 DEF Page
  <2>5. cache' = d /\ io'.cmd = "zero" /\ io'.page = p /\ io'.addr = a
    BY <2>1 DEF EraseItem, ItemIO
  <2>6. v = [ws EXCEPT ![a] = ZeroedHeader(ws[a])] /\ v \in [Addrs -> Word]
    <3>1. v = [ws EXCEPT ![a] = ZeroedHeader(ws[a])]
      BY <2>4, <2>5 DEF Applied, WithWord, Page
    <3>2. ZeroedHeader(ws[a]) \in Word
      BY <2>2, <2>4, BlankType
    <3>3. QED  BY <2>2, <2>4, <3>1, <3>2
  <2>7. v[a] = ZeroedHeader(ws[a]) /\ \A b \in Addrs: b # a => v[b] = ws[b]
    BY <2>2, <2>4, <2>6
  <2>8. Pointed(known, p, ws) /\ Bare(known)
    BY <1>6, <2>2 DEF Right
  <2> HIDE DEF v, ws
  <2>9. /\ Pointed(d, p, v) /\ Bare(d)
        /\ \A q \in Pages: q # p => d.written[q] = known.written[q] /\ d.erased[q] = known.erased[q]
        /\ CacheKind = "none" \/ d.dirty
    <3>1. v \in [Addrs -> Word] /\ ws \in [Addrs -> Word]
      BY <2>4, <2>6
    <3>2. QED  BY <1>6, <2>2, <2>7, <2>8, <3>1, ErasedPointed
  <2>10. op'.pc = "removing"
    BY <1>1, <1>2, <2>1 DEF OpType
  <2>11. FitFor(flash[p], io') /\ Located' /\ Trusted'
    <3>1. io'.cmd = "zero" /\ IsPresent(flash[p].words, io'.addr)
      BY <2>2, <2>5 DEF ws
    <3>2. FitFor(flash[p], io')
      BY <3>1 DEF FitFor
    <3>3. Trusted' /\ Located'
      BY <2>10, Elsewhere DEF Trusted, RefreshedPCs
    <3>4. QED  BY <3>2, <3>3
  <2>12. Pointed(cache', p, Applied(flash[p], io').words)
    BY <2>5, <2>9 DEF v
  <2> HIDE DEF d
  <2>13. QED
    BY <1>1, <1>2, <1>6, <2>2, <2>3, <2>5, <2>9, <2>10, <2>11, <2>12, WordsWord
<1> HIDE DEF Ends, Erases
<1>11. QED  BY <1>5, <1>8, <1>9, <1>10

\* An iterator is made. A dirty cache that believes all pages open is declared clean, and
\* holds no pointer then.
LEMMA IterStartWords ==
  ASSUME OInv, OInv', WordsInv, IterStart
  PROVE  WordsInv'
<1> DEFINE last == LastUsed(cache)
           known == LearnLastUsed(cache)
<1>1. /\ op.pc = "fetch_all_items" /\ io = NoIO /\ UNCHANGED flash
      /\ \/ HandleCorruption(known, keys) /\ UNCHANGED iter
         \/ /\ cache' = known \/ (cache' = UnmarkDirty(known) /\ last = NoPage)
            /\ Return(Result("Corrupted")) \/ Return(Result("Ok"))
            /\ UNCHANGED io
  BY DEF IterStart, At
<1>2. /\ flash \in [Pages -> Page] /\ op.pc \notin {"idle", "erase_all"}
      /\ Now \in [Pages -> PageState] /\ Trusted => Good(cache)
  BY <1>1, Running
<1>3. /\ cache \in CacheType /\ Bare(cache) /\ Completed(io) = flash /\ KeptTidy(flash)
      /\ Trusted => Good(cache) /\ Right(cache, flash)
  BY <1>1, <1>2, WordsFacts
<1>4. /\ known \in CacheType /\ known.dirty = cache.dirty
      /\ \A p \in Pages: StateOf(known, p) = StateOf(cache, p)
      /\ Forgets(known, cache) /\ Forgets(UnmarkDirty(known), known)
      /\ Good(cache) => Good(known) /\ Good(UnmarkDirty(known))
  <2>1. /\ known \in CacheType /\ known.dirty = cache.dirty
        /\ \A p \in Pages: StateOf(known, p) = StateOf(cache, p)
    BY <1>2, <1>3, LearnType, LearnSame DEF LearnLastUsed
  <2>2. Forgets(known, cache) /\ (Good(cache) => Good(known))
    BY <1>2, <1>3, ForgetOps, GoodOps DEF LearnLastUsed
  <2> HIDE DEF known
  <2>3. QED  BY <1>2, <2>1, <2>2, ForgetOps, GoodOps
<1> HIDE DEF known, last
<1>5. CASE HandleCorruption(known, keys) /\ UNCHANGED iter
  <2>1. op.retried => Good(known) /\ Right(known, flash)
    BY <1>3, <1>4, RightOps DEF Trusted
  <2>2. QED  BY <1>1, <1>2, <1>5, <2>1, WordsCorruption
<1>6. CASE /\ cache' = known \/ (cache' = UnmarkDirty(known) /\ last = NoPage)
           /\ Return(Result("Corrupted")) \/ Return(Result("Ok"))
           /\ UNCHANGED io
  <2>1. op' = Idle /\ io' = NoIO
    BY <1>1, <1>6 DEF Return
  <2>2. CASE Trusted
    <3>1. Good(cache')
      BY <1>3, <1>4, <1>6, <2>2
    <3>2. Right(known, flash)
      BY <1>3, <1>4, <2>2, RightOps
    <3>3. Right(cache', flash)
      BY <1>4, <1>6, <3>2, RightOps
    <3>4. QED  BY <1>1, <1>2, <2>1, <3>1, <3>3, WordsReturn
  <2>3. CASE ~Trusted
    <3>1. /\ cache.dirty /\ CacheKind # "none" /\ Ordered(View)
      BY <2>3 DEF Trusted, OInv, CacheInv
    <3>2. \A p \in Pages: View[p] = StateOf(cache, p)
      BY DEF View
    <3>3. \A p \in Pages: View[p] \in {"Open", "Corrupted"} => Unpointed(cache, p)
      BY <2>3 DEF WordsInv, PointersKnown
    <3>4. CASE cache' = UnmarkDirty(known) /\ last = NoPage
      <4>1. View \in [Pages -> PageState]
        <5>1. ASSUME NEW p \in Pages PROVE StateOf(cache, p) \in PageState
          <6>1. MarkedState(flash[p]) \in PageState
            BY <1>2, MarksType DEF Marks
          <6>2. cache.states[p] \in PageStates \cup {"Unknown"}
            BY <1>3 DEF CacheType
          <6>3. QED  BY <6>1, <6>2 DEF StateOf, PageStates, PageState
        <5>2. QED  BY <5>1 DEF View
      <4>2. \A p \in Pages: View[p] \notin {"Closed", "PartialOpen"}
        BY <3>1, <3>2, <3>4, <4>1, LastUsedNone DEF last
      <4>3. \A p \in Pages: Unpointed(cache, p)
        BY <3>3, <4>1, <4>2 DEF PageState
      <4>4. \A p \in Pages: Unpointed(cache', p)
        BY <1>4, <3>4, <4>3 DEF Forgets, Unpointed
      <4>5. Right(cache', flash)
        BY <4>4 DEF Right, Bare, Pointed, Unpointed
      <4>6. Good(cache')
        <5>1. ~cache'.dirty
          BY <1>4, <3>4 DEF UnmarkDirty, CacheType
        <5>2. Sound(cache', Completed(io)')
          BY <5>1 DEF OInv, CacheInv, Trusted
        <5>3. Completed(io)' = flash
          BY <1>1, <1>2, <2>1, NoIOCompleted
        <5>4. QED  BY <3>1, <5>2, <5>3 DEF Good
      <4>7. QED  BY <1>1, <1>2, <2>1, <4>5, <4>6, WordsReturn
    <3>5. CASE cache' = known
      <4>1. ~Trusted' /\ op'.pc = "idle"
        BY <1>4, <2>1, <3>1, <3>5, SmallTypes DEF Trusted, RefreshedPCs, Idle
      <4>2. \A p \in Pages: View'[p] = View[p]
        BY <1>1, <1>4, <3>5 DEF View, StateOf
      <4>3. Bare(cache')
        BY <1>3, <1>4, <3>5, RightOps
      <4>4. \A p \in Pages: Unpointed(cache, p) => Unpointed(cache', p)
        BY <1>4, <3>5 DEF Forgets, Unpointed
      <4>5. PointersKnown'
        BY <2>1, <3>3, <4>1, <4>2, <4>3, <4>4, NoIOType DEF PointersKnown
      <4>6. Ready' /\ TidyFlash' /\ Located'
        BY <1>1, <1>3, <2>1, <4>1, NoIOType, Elsewhere DEF Ready, FitFor, TidyFlash
      <4>7. QED  BY <4>5, <4>6 DEF WordsInv
    <3>6. QED  BY <1>6, <3>4, <3>5
  <2>4. QED  BY <2>2, <2>3
<1>7. QED  BY <1>1, <1>5, <1>6

-----------------------------------------------------------------------------
\* and every step keeps them so, when the user is careful.
LEMMA StepWords == CarefulCalls /\ OInv /\ WordsInv /\ [Next]_vars => WordsInv'
<1> SUFFICES ASSUME CarefulCalls, OInv, WordsInv, [Next]_vars PROVE WordsInv'
  OBVIOUS
<1>1. OInv' /\ IInv'
  BY StepOrder DEF OInv
<1>2. CASE UNCHANGED vars
  <2>1. /\ Completed(io)' = Completed(io) /\ View' = View
        /\ (Trusted' <=> Trusted) /\ (Disturbed' <=> Disturbed)
    BY <1>2 DEF vars, View, StateOf, Completed, Trusted, Disturbed, Usable
  <2>2. Ready' /\ TidyFlash'
    BY <1>2, <2>1 DEF vars, WordsInv, Ready, TidyFlash
  <2>3. Located'
    BY <1>2, <2>1 DEF vars, WordsInv, Located, Source
  <2>4. PointersKnown'
    BY <1>2, <2>1 DEF vars, WordsInv, PointersKnown
  <2>5. QED  BY <2>2, <2>3, <2>4 DEF WordsInv
<1>3. CASE UserCall
  BY <1>3, CallWords, CallEraseAllWords, NextItemWords DEF UserCall
<1>4. CASE Step
  <2>1. CASE FlashDone /\ UNCHANGED <<keys, op, iter, ret, faults>>
    BY <1>1, <2>1, FlashDoneWords
  <2>2. CASE FetchItem \/ StoreRound \/ StoreData \/ StoreFinish \/ StoreNextPage \/ StoreBuffer
    BY <1>1, <2>2, FetchItemWords, StoreRoundWords, StoreDataWords, StoreNextPageWords,
       StoreBufferWords
  <2>3. CASE MigrateItem \/ MigrateData \/ MigrateErase \/ MigrateDone
    BY <1>1, <2>3, MigrateItemWords, MigrateDataWords, MigrateEndWords
  <2>4. CASE RepairPage \/ RepairMigration \/ RepairReopen
    BY <2>4, RepairPageWords, RepairMigrationWords, RepairReopenWords
  <2>5. CASE RemoveStart \/ RemoveNext \/ IterStart \/ EraseAllFinish
    BY <1>1, <2>5, RemoveStartWords, RemoveNextWords, IterStartWords, EraseAllFinishWords
  <2>6. QED  BY <1>4, <2>1, <2>2, <2>3, <2>4, <2>5 DEF Step
<1>5. CASE Fail \/ PowerLoss
  BY <1>1, <1>5, FaultWords
<1>6. QED  BY <1>2, <1>3, <1>4, <1>5 DEF Next

\* A word that is about to be written is erased, and a header that is about to be zeroed is
\* that of an intact item, for any number of pages, any items, any cache and any sequence of
\* calls, failures and power losses.
THEOREM MapWritesErased ==
  ASSUME CarefulCalls
  PROVE  Spec => []WritesErasedWords
<1>1. OInv /\ WordsInv /\ [Next]_vars => OInv' /\ WordsInv'
  BY StepOrder, StepWords
<1>2. OInv /\ WordsInv => WritesErasedWords
  <2> SUFFICES ASSUME OInv, WordsInv PROVE WritesErasedWords
    OBVIOUS
  <2> DEFINE pg == flash[io.page]
  <2>1. /\ pg \in Page /\ pg.words \in [Addrs -> Word] /\ io.addr \in Addrs
        /\ io.cmd # "erase" => FitFor(pg, io)
        /\ io.cmd = "data" => io.item \in Items
    BY Typed DEF OInv, IOType, Page, WordsInv, Ready, HasData
  <2> HIDE DEF pg
  <2>2. io.cmd = "start" => ~pg.start
    BY <2>1 DEF FitFor, MarkedState, Page
  <2>3. io.cmd = "end" => pg.start /\ ~pg.end
    BY <2>1 DEF FitFor, MarkedState, Page
  <2>4. io.cmd = "header" => pg.start /\ ~pg.end /\ pg.words[io.addr] = Blank
    <3>1. 0 \in 0 .. PageWords /\ io.addr # PageWords
      BY <2>1, PageWordsAssumption DEF Addrs
    <3>2. io.cmd = "header" => MarkedState(pg) = "PartialOpen" /\ io.addr = EndOfItems(pg.words, 0)
      BY <2>1 DEF FitFor
    <3>3. EndOfItems(pg.words, 0) = PageWords \/ pg.words[EndOfItems(pg.words, 0)] = Blank
      BY <2>1, <3>1, EndIsEnd
    <3>4. MarkedState(pg) = "PartialOpen" => pg.start /\ ~pg.end
      BY <2>1 DEF MarkedState, Page
    <3>5. QED  BY <3>1, <3>2, <3>3, <3>4
  <2>5. ASSUME io.cmd = "data"
        PROVE  /\ DataAddrs(io.addr, io.item) \subseteq Addrs
               /\ \A a \in DataAddrs(io.addr, io.item): pg.words[a] = Blank
    <3>1. io.item \in Items /\ Size[io.item] \in Nat /\ DataReady(pg.words, io.addr, io.item)
      BY <2>1, <2>5, SizeAssumption DEF FitFor
    <3>2. ASSUME NEW a \in DataAddrs(io.addr, io.item) PROVE a \in Addrs /\ a >= io.addr + 1
      BY <2>1, <3>1, PageWordsAssumption DEF DataAddrs, DataReady, Fits, Addrs
    <3>3. QED  BY <3>1, <3>2 DEF DataReady, BlankFrom
  <2>6. io.cmd = "zero" => IsPresent(pg.words, io.addr)
    BY <2>1 DEF FitFor
  <2>7. QED  BY <2>2, <2>3, <2>4, <2>5, <2>6 DEF WritesErasedWords, pg
<1>3. QED  BY <1>1, <1>2, InitOrder, InitWords, PTL DEF Spec

\* The page pointers a clean cache has are those a scan of flash would find.
THEOREM MapCachedPointers ==
  ASSUME CarefulCalls
  PROVE  Spec => []CachedPointers
<1>1. OInv /\ WordsInv /\ [Next]_vars => OInv' /\ WordsInv'
  BY StepOrder, StepWords
<1>2. OInv /\ WordsInv => CachedPointers
  <2>1. SUFFICES ASSUME OInv, WordsInv, op = Idle, ~cache.dirty, NEW p \in Pages
                 PROVE  cache.written[p] \in {NoAddr, EndOfItems(flash[p].words, 0)}
    BY DEF CachedPointers
  <2>2. flash \in [Pages -> Page] /\ io = NoIO
    BY <2>1, Typed DEF OInv
  <2>3. Right(cache, flash)
    BY <2>1, <2>2, NoIOCompleted DEF WordsInv, PointersKnown, Trusted
  <2>4. QED  BY <2>3 DEF Right, Pointed
<1>3. QED  BY <1>1, <1>2, InitOrder, InitWords, PTL DEF Spec
-----------------------------------------------------------------------------
(***************************************************************************)
(* No erase takes away a value (ErasesOnlyCopies), without key pointers.    *)
(*                                                                         *)
(* A page that is in use while all others are closed is the target of a     *)
(* migration: there is nothing on it but copies of items of the source      *)
(* page, each the newest with its key, so a repair may erase it. What the   *)
(* scan of the source page has passed is also on other pages, so the        *)
(* migration may erase the source when nothing is left. An item that is     *)
(* removed while such a page exists would leave its copy behind, or take    *)
(* the original away: removals have to wait for the repair.                 *)
(***************************************************************************)

\* A word that is not blank stays as it is.
Extends(v, ws) == \A b \in Addrs: ws[b] # Blank => v[b] = ws[b]

\* The walk over the headers of a page comes to address a.
OnWalk(ws, a) == EndOfItems([ws EXCEPT ![a] = Blank], 0) = a

\* What is present stays present when only blank words are written,
LEMMA ExtendsPresent ==
  ASSUME NEW ws \in [Addrs -> Word], NEW v \in [Addrs -> Word], Extends(v, ws), NEW a \in Addrs
  PROVE  /\ IsPresent(ws, a) => IsPresent(v, a) /\ KeyAt(v, a) = KeyAt(ws, a) /\ v[a] = ws[a]
         /\ ws[a] # Blank => v[a] # Blank /\ NextAddr(v, a) = NextAddr(ws, a)
<1>1. ws[a] # Blank => v[a] = ws[a]
  BY DEF Extends
<1>2. ASSUME IsPresent(ws, a) PROVE IsPresent(v, a) /\ KeyAt(v, a) = KeyAt(ws, a) /\ v[a] = ws[a]
  <2>1. ws[a].kind = "header" /\ ws[a].crc \in Items /\ a + 1 + ws[a].len <= PageWords
        /\ ws[a].len \in Nat
    BY <1>2 DEF IsPresent, IsItem, Word
  <2>2. v[a] = ws[a]
    BY <1>1, <2>1 DEF Blank
  <2>3. ASSUME NEW k \in 1 .. ws[a].len
        PROVE  v[a + k] = Body(ws[a].crc)
    <3>1. a + k \in Addrs
      BY <2>1, PageWordsAssumption DEF Addrs
    <3>2. ws[a + k] = Body(ws[a].crc)
      BY <1>2 DEF IsPresent
    <3>3. Body(ws[a].crc) # Blank
      BY DEF Body, Blank
    <3>4. QED  BY <3>1, <3>2, <3>3 DEF Extends
  <2>4. IsPresent(v, a)
    BY <2>1, <2>2, <2>3 DEF IsPresent, IsItem
  <2>5. QED  BY <2>2, <2>4 DEF KeyAt
<1>3. ws[a] # Blank => v[a] # Blank /\ NextAddr(v, a) = NextAddr(ws, a)
  BY <1>1 DEF NextAddr, IsItem
<1>4. QED  BY <1>2, <1>3

\* and it is still come across.
LEMMA ItemsExtended ==
  ASSUME NEW ws \in [Addrs -> Word], NEW v \in [Addrs -> Word], Extends(v, ws),
         NEW from \in 0 .. PageWords
  PROVE  PresentItems(ws, from) \subseteq PresentItems(v, from)
<1> DEFINE n == PageWords
           Kept(b) == PresentItems(ws, b) \subseteq PresentItems(v, b)
           S == {k \in 0 .. n: \A b \in n - k .. n: Kept(b)}
<1>1. n \in Nat /\ 0 .. n - 1 = Addrs
  BY PageWordsAssumption DEF Addrs
<1>2. 0 \in S
  BY <1>1, PresentItemsIs
<1>3. ASSUME NEW k \in 0 .. n - 1, k \in S
      PROVE  k + 1 \in S
  <2> DEFINE m == n - (k + 1)
  <2>1. m \in Addrs /\ k + 1 \in 0 .. n /\ m \in 0 .. n - 1 /\ m + 1 = n - k
    BY <1>1
  <2>2. \A b \in m .. n: b = m \/ b \in n - k .. n
    BY <2>1
  <2>3. NextAddr(ws, m) \in n - k .. n
    BY <2>1, NextAddrType
  <2> HIDE DEF Kept
  <2>4. Kept(NextAddr(ws, m))
    BY <1>3, <2>3
  <2>5. /\ PresentItems(ws, m) =
             IF ws[m] = Blank THEN {}
             ELSE (IF IsPresent(ws, m) THEN {m} ELSE {}) \cup PresentItems(ws, NextAddr(ws, m))
        /\ PresentItems(v, m) =
             IF v[m] = Blank THEN {}
             ELSE (IF IsPresent(v, m) THEN {m} ELSE {}) \cup PresentItems(v, NextAddr(v, m))
    BY <2>1, PresentItemsIs
  <2>6. /\ ws[m] # Blank => v[m] # Blank /\ NextAddr(v, m) = NextAddr(ws, m)
        /\ IsPresent(ws, m) => IsPresent(v, m)
    BY <2>1, ExtendsPresent
  <2> HIDE DEF m
  <2>7. Kept(m)
    BY <2>4, <2>5, <2>6 DEF Kept
  <2>8. \A b \in m .. n: Kept(b)
    BY <1>3, <2>2, <2>7
  <2>9. QED  BY <2>1, <2>8 DEF m
<1> HIDE DEF S
<1>4. 0 .. n \subseteq S
  BY <1>1, <1>2, <1>3, UpTo
<1>5. n \in S /\ from \in n - n .. n
  BY <1>1, <1>4
<1>6. QED  BY <1>5 DEF S

\* An item that is written where the walk has come to is come across.
LEMMA ItemReached ==
  ASSUME NEW ws \in [Addrs -> Word], NEW v \in [Addrs -> Word], Extends(v, ws),
         NEW a \in Addrs, OnWalk(ws, a), IsPresent(v, a)
  PROVE  a \in PresentItems(v, 0)
<1> DEFINE n == PageWords
           u == [ws EXCEPT ![a] = Blank]
           Kept(b) == EndOfItems(u, b) = a => a \in PresentItems(v, b)
           S == {k \in 0 .. n: \A b \in n - k .. n: Kept(b)}
<1>1. n \in Nat /\ 0 .. n - 1 = Addrs /\ u \in [Addrs -> Word] /\ a # n /\ n >= 2
  BY PageWordsAssumption, BlankType DEF Addrs
<1>a. u[a] = Blank /\ \A b \in Addrs: b # a => u[b] = ws[b]
  BY <1>1
<1>b. EndOfItems(u, 0) = a
  BY DEF OnWalk
<1>c. v[a] # Blank
  BY DEF IsPresent, IsItem, Blank
<1> HIDE DEF u
<1>2. 0 \in S
  BY <1>1, EndOfItemsIs
<1>3. ASSUME NEW k \in 0 .. n - 1, k \in S
      PROVE  k + 1 \in S
  <2> DEFINE m == n - (k + 1)
  <2>1. m \in Addrs /\ k + 1 \in 0 .. n /\ m \in 0 .. n - 1 /\ m + 1 = n - k
    BY <1>1
  <2>2. \A b \in m .. n: b = m \/ b \in n - k .. n
    BY <2>1
  <2> HIDE DEF m, Kept
  <2>3. ASSUME EndOfItems(u, m) = a PROVE a \in PresentItems(v, m)
    <3>1. CASE u[m] = Blank
      <4>1. m = a
        BY <1>1, <2>1, <2>3, <3>1, EndOfItemsIs
      <4>2. QED  BY <1>c, <4>1, PresentItemsIs
    <3>2. CASE u[m] # Blank
      <4>1. m # a /\ ws[m] = u[m]
        BY <1>a, <2>1, <3>2
      <4>2. v[m] # Blank /\ NextAddr(v, m) = NextAddr(ws, m)
        BY <2>1, <3>2, <4>1, ExtendsPresent
      <4>3. NextAddr(ws, m) = NextAddr(u, m)
        BY <4>1 DEF NextAddr, IsItem
      <4>4. EndOfItems(u, NextAddr(u, m)) = a
        BY <1>1, <2>1, <2>3, <3>2, EndOfItemsIs
      <4>5. NextAddr(u, m) \in n - k .. n
        BY <1>1, <2>1, NextAddrType
      <4>6. a \in PresentItems(v, NextAddr(u, m))
        BY <1>3, <4>4, <4>5 DEF Kept
      <4>7. QED  BY <2>1, <4>2, <4>3, <4>6, PresentItemsIs
    <3>3. QED  BY <3>1, <3>2
  <2>4. \A b \in m .. n: Kept(b)
    BY <1>3, <2>2, <2>3 DEF Kept
  <2>5. QED  BY <2>1, <2>4 DEF m
<1> HIDE DEF S
<1>4. 0 .. n \subseteq S
  BY <1>1, <1>2, <1>3, UpTo
<1>5. n \in S /\ 0 \in n - n .. n
  BY <1>1, <1>4
<1>6. QED  BY <1>5, <1>b DEF S

\* Of two items of a page the one further up comes behind the other.
LEMMA ItemsAfter ==
  ASSUME NEW ws \in [Addrs -> Word], NEW from \in 0 .. PageWords,
         NEW a \in PresentItems(ws, from), NEW b \in PresentItems(ws, from), b > a
  PROVE  b \in PresentItems(ws, NextAddr(ws, a))
<1> DEFINE n == PageWords
           Kept(c) == \A x \in PresentItems(ws, c): \A y \in PresentItems(ws, c):
                        y > x => y \in PresentItems(ws, NextAddr(ws, x))
           S == {k \in 0 .. n: \A c \in n - k .. n: Kept(c)}
<1>1. n \in Nat /\ 0 .. n - 1 = Addrs
  BY PageWordsAssumption DEF Addrs
<1>2. 0 \in S
  BY <1>1, PresentItemsIs
<1>3. ASSUME NEW k \in 0 .. n - 1, k \in S
      PROVE  k + 1 \in S
  <2> DEFINE m == n - (k + 1)
  <2>1. m \in Addrs /\ k + 1 \in 0 .. n /\ m \in 0 .. n - 1 /\ m + 1 = n - k /\ m \in Nat
    BY <1>1
  <2>2. \A c \in m .. n: c = m \/ c \in n - k .. n
    BY <2>1
  <2>3. NextAddr(ws, m) \in n - k .. n /\ NextAddr(ws, m) \in 0 .. n
    BY <2>1, NextAddrType
  <2> HIDE DEF Kept
  <2>4. Kept(NextAddr(ws, m))
    BY <1>3, <2>3
  <2>5. PresentItems(ws, m) =
          IF ws[m] = Blank THEN {}
          ELSE (IF IsPresent(ws, m) THEN {m} ELSE {}) \cup PresentItems(ws, NextAddr(ws, m))
    BY <2>1, PresentItemsIs
  <2>6. \A x \in PresentItems(ws, NextAddr(ws, m)): x \in Nat /\ x > m
    BY <2>1, <2>3, PresentItemsType
  <2> HIDE DEF m
  <2>7. Kept(m)
    <3>1. SUFFICES ASSUME NEW x \in PresentItems(ws, m), NEW y \in PresentItems(ws, m), y > x
                   PROVE  y \in PresentItems(ws, NextAddr(ws, x))
      BY DEF Kept
    <3>2. CASE x = m
      BY <2>1, <2>5, <3>1, <3>2
    <3>3. CASE x # m
      <4>1. x \in PresentItems(ws, NextAddr(ws, m))
        BY <2>5, <3>3
      <4>2. y # m
        BY <2>1, <2>6, <3>1, <4>1
      <4>3. y \in PresentItems(ws, NextAddr(ws, m))
        BY <2>5, <4>2
      <4>4. QED  BY <2>4, <3>1, <4>1, <4>3 DEF Kept
    <3>4. QED  BY <3>2, <3>3
  <2>8. \A c \in m .. n: Kept(c)
    BY <1>3, <2>2, <2>7
  <2>9. QED  BY <2>1, <2>8 DEF m
<1> HIDE DEF S
<1>4. 0 .. n \subseteq S
  BY <1>1, <1>2, <1>3, UpTo
<1>5. n \in S /\ from \in n - n .. n
  BY <1>1, <1>4
<1>6. QED  BY <1>5 DEF S

-----------------------------------------------------------------------------
(* What a reader of flash comes across *)

\* Going backwards from page y every page is met once, and the one after y last.
LEMMA BeforeAround ==
  ASSUME NEW y \in Pages
  PROVE  /\ 0 \in Pages /\ PageBefore(y, 0) = y
         /\ PageCount - 1 \in Pages /\ PageBefore(y, PageCount - 1) = NextPage(y)
         /\ \A i \in Pages: PageBefore(y, i) \in Pages
         /\ \A i \in Pages, j \in Pages: PageBefore(y, i) = PageBefore(y, j) => i = j
         /\ \A q \in Pages: \E i \in Pages: PageBefore(y, i) = q
<1>1. PageCount \in Nat \ {0} /\ y \in 0 .. PageCount - 1 /\ Pages = 0 .. PageCount - 1
  BY PageCountAssumption DEF Pages
<1>2. \A i \in 0 .. PageCount - 1: i \in 0 .. PageCount /\ i \in Pages
  BY <1>1
<1>3. \A i \in Pages: /\ PageBefore(y, i) \in Pages
                      /\ PageBefore(y, i) = IF y >= i THEN y - i ELSE y - i + PageCount
  BY <1>1, <1>2, BeforeType
<1>4. 0 \in Pages /\ PageBefore(y, 0) = y
  BY <1>1, <1>3
<1>5. PageCount - 1 \in Pages /\ PageBefore(y, PageCount - 1) = NextPage(y)
  BY <1>1, <1>3, NextIs
<1>6. ASSUME NEW i \in Pages, NEW j \in Pages, PageBefore(y, i) = PageBefore(y, j)
      PROVE  i = j
  <2>1. (IF y >= i THEN y - i ELSE y - i + PageCount) = (IF y >= j THEN y - j ELSE y - j + PageCount)
    BY <1>3, <1>6
  <2>2. i \in 0 .. PageCount - 1 /\ j \in 0 .. PageCount - 1
    BY <1>1
  <2>3. QED  BY <1>1, <2>1, <2>2
<1>7. ASSUME NEW q \in Pages PROVE \E i \in Pages: PageBefore(y, i) = q
  <2> DEFINE i == IF y >= q THEN y - q ELSE y - q + PageCount
  <2>1. i \in Pages
    BY <1>1, <1>7
  <2>2. PageBefore(y, i) = q
    BY <1>1, <1>3, <1>7, <2>1
  <2>3. QED  BY <2>1, <2>2
<1>8. QED  BY <1>3, <1>4, <1>5, <1>6, <1>7

\* The item at address a, i pages before page y, as a reader meets it.
ReadingAt(y, i, a) ==
  [age |-> i, addr |-> a, page |-> PageBefore(y, i), item |-> flash[PageBefore(y, i)].words[a].crc]

\* Page y is in use and all others are closed: a reader comes to every page.
OnlyInUse(y) == Now[y] = "PartialOpen" /\ \A p \in Pages: p # y => Now[p] = "Closed"

\* So what a reader comes across are the items of every page.
LEMMA ReadingsAre ==
  ASSUME flash \in [Pages -> Page], NEW y \in Pages, OnlyInUse(y), NEW r
  PROVE  r \in Readings <=>
           \E i \in Pages: \E a \in PresentItems(flash[PageBefore(y, i)].words, 0): r = ReadingAt(y, i, a)
<1>1. \A p \in Pages: Now[p] = MarkedState(flash[p])
  BY DEF Now, Marks
<1>2. \A p \in Pages: IsYoungest(p) <=> p = y
  BY <1>1 DEF IsYoungest, OnlyInUse, IsClosed
<1>3. \A n \in Pages: Reaches(y, n)
  <2>1. SUFFICES ASSUME NEW n \in Pages, NEW i \in 1 .. n
                 PROVE  MarkedState(flash[PageBefore(y, i)]) = "Closed"
    BY DEF Reaches, IsClosed
  <2>2. i \in Pages /\ i # 0
    BY PageCountAssumption DEF Pages
  <2>3. PageBefore(y, i) \in Pages /\ PageBefore(y, i) # y
    BY <2>2, BeforeAround
  <2>4. QED  BY <1>1, <2>3 DEF OnlyInUse
<1> DEFINE pairs == {q \in {p \in Pages: IsYoungest(p)} \X Pages: Reaches(q[1], q[2])}
           at(q) == {[age |-> q[2], addr |-> a, page |-> PageBefore(q[1], q[2]),
                      item |-> flash[PageBefore(q[1], q[2])].words[a].crc]:
                        a \in PresentItems(flash[PageBefore(q[1], q[2])].words, 0)}
<1>4. r \in Readings <=> \E q \in pairs: r \in at(q)
  BY DEF Readings
<1>5. \A q: q \in pairs <=> \E i \in Pages: q = <<y, i>>
  BY <1>2, <1>3
<1>6. \A i \in Pages: at(<<y, i>>) = {ReadingAt(y, i, a): a \in PresentItems(flash[PageBefore(y, i)].words, 0)}
  BY DEF ReadingAt
<1> HIDE DEF pairs, at
<1>7. r \in Readings <=> \E i \in Pages: r \in at(<<y, i>>)
  BY <1>4, <1>5
<1>8. QED  BY <1>6, <1>7

\* The newest item with a key, on some of the pages: the last one of the first page, going
\* backwards, that has any.
LEMMA NewestIs ==
  ASSUME flash \in [Pages -> Page], NEW y \in Pages, OnlyInUse(y), NEW X, NEW k \in Keys,
         NEW i \in Pages, PageBefore(y, i) \notin X, ItemsWithKey(PageBefore(y, i), k) # {},
         \A j \in Pages: j < i /\ PageBefore(y, j) \notin X => ItemsWithKey(PageBefore(y, j), k) = {}
  PROVE  LET p == PageBefore(y, i) IN
         NewestOf({r \in Readings: r.page \notin X})[k] = flash[p].words[Max(ItemsWithKey(p, k))].crc
<1> DEFINE p == PageBefore(y, i)
           own == {r \in {s \in Readings: s.page \notin X}: KeyOf[r.item] = k}
           newest(r) == \A s \in own \ {r}: IsNewer(r, s)
           m == Max(ItemsWithKey(p, k))
           x == ReadingAt(y, i, m)
<1>1. \A j \in Pages: PageBefore(y, j) \in Pages
  BY BeforeAround
<1>2. ASSUME NEW r
      PROVE  r \in own <=> \E j \in Pages: /\ PageBefore(y, j) \notin X
                                           /\ \E a \in ItemsWithKey(PageBefore(y, j), k): r = ReadingAt(y, j, a)
  <2>1. r \in own <=> r \in Readings /\ r.page \notin X /\ KeyOf[r.item] = k
    OBVIOUS
  <2>2. \A j \in Pages: \A a: r = ReadingAt(y, j, a) =>
          r.page = PageBefore(y, j) /\ r.item = flash[PageBefore(y, j)].words[a].crc
    BY DEF ReadingAt
  <2>3. \A j \in Pages: \A a: a \in ItemsWithKey(PageBefore(y, j), k) <=>
          /\ a \in PresentItems(flash[PageBefore(y, j)].words, 0)
          /\ KeyOf[flash[PageBefore(y, j)].words[a].crc] = k
    BY DEF ItemsWithKey, KeyAt
  <2>4. r \in Readings <=>
           \E j \in Pages: \E a \in PresentItems(flash[PageBefore(y, j)].words, 0): r = ReadingAt(y, j, a)
    BY ReadingsAre
  <2> HIDE DEF own
  <2>5. QED  BY <2>1, <2>2, <2>3, <2>4
<1>3. m \in ItemsWithKey(p, k) /\ \A a \in ItemsWithKey(p, k): a <= m /\ a \in Nat /\ m \in Nat
  <2>1. p \in Pages /\ ItemsWithKey(p, k) \in SUBSET (0 .. PageWords) /\ PageWords \in Nat
    BY <1>1, ItemsWithKeyType, PageWordsAssumption DEF Addrs
  <2>2. ItemsWithKey(p, k) # {}
    OBVIOUS
  <2> HIDE DEF p
  <2>3. m \in ItemsWithKey(p, k) /\ \A a \in ItemsWithKey(p, k): a <= m
    BY <2>1, <2>2, MaxInSet
  <2>4. QED  BY <2>1, <2>3
<1>4. x \in own
  BY <1>2, <1>3
<1>5. newest(x)
  <2>1. SUFFICES ASSUME NEW s \in own, s # x PROVE IsNewer(x, s)
    OBVIOUS
  <2>2. PICK j \in Pages: /\ PageBefore(y, j) \notin X
                         /\ \E a \in ItemsWithKey(PageBefore(y, j), k): s = ReadingAt(y, j, a)
    BY <1>2, <2>1
  <2>9. PICK a \in ItemsWithKey(PageBefore(y, j), k): s = ReadingAt(y, j, a)
    BY <2>2
  <2>3. s.age = j /\ s.addr = a /\ x.age = i /\ x.addr = m
    BY <2>9 DEF ReadingAt
  <2>4. i \in Int /\ j \in Int
    BY PageCountAssumption DEF Pages
  <2>5. j >= i
    BY <2>2, <2>4
  <2>6. CASE j > i
    BY <2>3, <2>4, <2>6 DEF IsNewer
  <2>7. CASE j = i
    <3>1. a # m
      BY <2>1, <2>9, <2>7
    <3>2. a < m
      BY <1>3, <2>2, <2>7, <3>1
    <3>3. QED  BY <2>3, <2>7, <3>2 DEF IsNewer
  <2>8. QED  BY <2>4, <2>5, <2>6, <2>7
<1>6. ASSUME NEW r \in own, newest(r) PROVE r = x
  <2>8. PICK j \in Pages: /\ PageBefore(y, j) \notin X
                         /\ \E a \in ItemsWithKey(PageBefore(y, j), k): r = ReadingAt(y, j, a)
    BY <1>2
  <2>1. PICK a \in ItemsWithKey(PageBefore(y, j), k): r = ReadingAt(y, j, a)
    BY <2>8
  <2>2. r.age = j /\ r.addr = a /\ x.age = i /\ x.addr = m
    BY <2>1 DEF ReadingAt
  <2>3. i \in Int /\ j \in Int
    BY PageCountAssumption DEF Pages
  <2>4. a \in Int /\ m \in Int
    <3>1. PageBefore(y, j) \in Pages
      BY <1>1
    <3>2. a \in Addrs
      BY <3>1, ItemsWithKeyType
    <3>3. m \in Nat
      BY <1>3
    <3>4. QED  BY <3>2, <3>3, PageWordsAssumption DEF Addrs
  <2>5. SUFFICES ASSUME r # x PROVE FALSE
    OBVIOUS
  <2>6. IsNewer(x, r) /\ IsNewer(r, x)
    BY <1>4, <1>5, <1>6, <2>5
  <2>7. QED  BY <2>2, <2>3, <2>4, <2>6 DEF IsNewer
<1>7. NewestOf({r \in Readings: r.page \notin X})[k] = (CHOOSE r \in own: newest(r)).item
  BY <1>4 DEF NewestOf
<1> HIDE DEF own, newest, x
<1>8. (CHOOSE r \in own: newest(r)) = x
  BY <1>4, <1>5, <1>6
<1>9. x.item = flash[p].words[m].crc
  BY DEF x, ReadingAt
<1>10. QED  BY <1>7, <1>8, <1>9

\* There is none on pages without an item with the key.
LEMMA NewestNone ==
  ASSUME flash \in [Pages -> Page], NEW y \in Pages, OnlyInUse(y), NEW X, NEW k \in Keys,
         \A j \in Pages: PageBefore(y, j) \notin X => ItemsWithKey(PageBefore(y, j), k) = {}
  PROVE  NewestOf({r \in Readings: r.page \notin X})[k] = NoItem
<1> DEFINE own == {r \in {s \in Readings: s.page \notin X}: KeyOf[r.item] = k}
<1>1. own = {}
  <2>1. SUFFICES ASSUME NEW r \in own PROVE FALSE
    OBVIOUS
  <2>2. PICK j \in Pages: \E a \in PresentItems(flash[PageBefore(y, j)].words, 0): r = ReadingAt(y, j, a)
    BY <2>1, ReadingsAre
  <2>3. PICK a \in PresentItems(flash[PageBefore(y, j)].words, 0): r = ReadingAt(y, j, a)
    BY <2>2
  <2>4. r.page = PageBefore(y, j) /\ r.item = flash[PageBefore(y, j)].words[a].crc
    BY <2>3 DEF ReadingAt
  <2>5. a \in ItemsWithKey(PageBefore(y, j), k)
    BY <2>1, <2>3, <2>4 DEF ItemsWithKey, KeyAt
  <2>6. QED  BY <2>1, <2>4, <2>5
<1>2. QED  BY <1>1 DEF NewestOf

-----------------------------------------------------------------------------
(* Copies and what they are copies of *)

\* Where page q of fl holds items with key k.
OwnItems(fl, q, k) == {a \in PresentItems(fl[q].words, 0): KeyAt(fl[q].words, a) = k}

\* Item i is the newest with its key on the page after p, and on all pages but p.
Original(fl, p, i) ==
  LET source == NextPage(p)
      own == OwnItems(fl, source, KeyOf[i]) IN
  /\ \A q \in Pages: q \notin {p, source} => OwnItems(fl, q, KeyOf[i]) = {}
  /\ own # {} /\ fl[source].words[Max(own)].crc = i

\* Every item on page p is a copy.
CopiesOnly(fl, p) ==
  \A a \in Addrs: IsPresent(fl[p].words, a) => Original(fl, p, fl[p].words[a].crc)

\* What counts as a copy does not depend on the page it is on.
LEMMA OriginalElsewhere ==
  ASSUME NEW f, NEW g, NEW p \in Pages, \A q \in Pages: q # p => f[q] = g[q], NEW i, Original(f, p, i)
  PROVE  Original(g, p, i)
<1>1. NextPage(p) \in Pages /\ NextPage(p) # p
  BY NextIs
<1>2. \A q \in Pages: q # p => OwnItems(f, q, KeyOf[i]) = OwnItems(g, q, KeyOf[i])
  BY DEF OwnItems
<1>3. f[NextPage(p)] = g[NextPage(p)]
  BY <1>1
<1>4. QED  BY <1>1, <1>2, <1>3 DEF Original

\* Two ways to say which items a page holds and which pages are read.
LEMMA OwnIs ==
  /\ \A p, k: OwnItems(flash, p, k) = ItemsWithKey(p, k)
  /\ Readings = {r \in Readings: r.page \notin {}}
  /\ \A p: {r \in Readings: r.page # p} = {r \in Readings: r.page \notin {p}}
BY DEF OwnItems, ItemsWithKey

\* A key that has items on some of the pages has them on a first of these.
LEMMA FirstWithKey ==
  ASSUME NEW y \in Pages, NEW X, NEW k,
         NEW n \in Pages, PageBefore(y, n) \notin X, ItemsWithKey(PageBefore(y, n), k) # {}
  PROVE  \E i \in Pages:
           /\ PageBefore(y, i) \notin X /\ ItemsWithKey(PageBefore(y, i), k) # {}
           /\ \A j \in Pages: j < i /\ PageBefore(y, j) \notin X => ItemsWithKey(PageBefore(y, j), k) = {}
<1> DEFINE S == {i \in Pages: PageBefore(y, i) \notin X /\ ItemsWithKey(PageBefore(y, i), k) # {}}
<1>1. S \in SUBSET Nat /\ S # {}
  BY PageCountAssumption DEF Pages
<1>2. Min(S) \in S /\ \A x \in S: Min(S) <= x
  BY <1>1, MinInSet
<1> DEFINE i == Min(S)
<1>3. ASSUME NEW j \in Pages, j < i, PageBefore(y, j) \notin X, ItemsWithKey(PageBefore(y, j), k) # {}
      PROVE  FALSE
  <2>1. j \in S
    BY <1>3
  <2> HIDE DEF S
  <2>2. i <= j /\ i \in Nat /\ j \in Nat
    BY <1>1, <1>2, <2>1
  <2>3. QED  BY <1>3, <2>2
<1>4. i \in S
  BY <1>2
<1>5. QED  BY <1>3, <1>4

\* When the page after the one in use is left out the newest item of no key changes: any key on it has items on
\* a page that is met before.
LEMMA NewestWithout ==
  ASSUME flash \in [Pages -> Page], NEW y \in Pages, OnlyInUse(y), NEW k \in Keys,
         NEW q \in Pages, q # NextPage(y), ItemsWithKey(q, k) # {}
  PROVE  NewestOf({r \in Readings: r.page # NextPage(y)})[k] = NewestOf(Readings)[k]
<1> DEFINE x == NextPage(y)
           only == {x}
           none == {}
<1>o. (\A p: p \in only <=> p = x) /\ \A p: p \notin none
  OBVIOUS
<1> HIDE DEF only, none
<1>1. PICK n \in Pages: PageBefore(y, n) = q
  BY BeforeAround
<1>2. PICK i \in Pages:
        /\ PageBefore(y, i) \notin only /\ ItemsWithKey(PageBefore(y, i), k) # {}
        /\ \A j \in Pages: j < i /\ PageBefore(y, j) \notin only => ItemsWithKey(PageBefore(y, j), k) = {}
  BY <1>o, <1>1, FirstWithKey
<1>3. \A j \in Pages: j < i => PageBefore(y, j) # x
  <2>1. PageBefore(y, PageCount - 1) = x /\ PageCount - 1 \in Pages
    BY BeforeAround
  <2>2. SUFFICES ASSUME NEW j \in Pages, j < i, PageBefore(y, j) = x PROVE FALSE
    OBVIOUS
  <2>3. j = PageCount - 1
    BY <2>1, <2>2, BeforeAround
  <2>4. QED  BY <2>2, <2>3, PageCountAssumption DEF Pages
<1> DEFINE p == PageBefore(y, i)
           best == flash[p].words[Max(ItemsWithKey(p, k))].crc
<1> HIDE DEF x, p
<1>4. NewestOf({r \in Readings: r.page \notin only})[k] = best
  BY <1>2, NewestIs DEF p
<1>5. NewestOf({r \in Readings: r.page \notin none})[k] = best
  <2>1. PageBefore(y, i) \notin none /\ \A j \in Pages: j < i /\ PageBefore(y, j) \notin none => ItemsWithKey(PageBefore(y, j), k) = {}
    BY <1>o, <1>2, <1>3
  <2>2. QED  BY <1>2, <2>1, NewestIs DEF p
<1>6. QED  BY <1>4, <1>5, OwnIs DEF x, only, none

\* The tables are those of all keys.
LEMMA SameTable ==
  ASSUME NEW R, NEW Q, \A k \in Keys: NewestOf(R)[k] = NewestOf(Q)[k]
  PROVE  NewestOf(R) = NewestOf(Q)
<1> DEFINE f(A) == [k \in Keys |->
             LET own == {r \in A: KeyOf[r.item] = k}
             IN  IF own = {} THEN NoItem
                 ELSE (CHOOSE r \in own: \A s \in own \ {r}: IsNewer(r, s)).item]
<1>1. NewestOf(R) = f(R) /\ NewestOf(Q) = f(Q)
  BY DEF NewestOf
<1>2. \A A: f(A) = [k \in Keys |-> f(A)[k]]
  OBVIOUS
<1> HIDE DEF f
<1>3. f(R) = [k \in Keys |-> f(R)[k]] /\ f(Q) = [k \in Keys |-> f(Q)[k]]
  BY <1>2
<1>4. \A k \in Keys: f(R)[k] = f(Q)[k]
  BY <1>1
<1>5. QED  BY <1>1, <1>3, <1>4

\* The source page of a migration can be erased when every key on it is on another page.
LEMMA SourceIsCopied ==
  ASSUME flash \in [Pages -> Page], NEW y \in Pages, OnlyInUse(y),
         \A a \in PresentItems(flash[NextPage(y)].words, 0):
           \E q \in Pages: q # NextPage(y) /\ ItemsWithKey(q, KeyAt(flash[NextPage(y)].words, a)) # {}
  PROVE  NewestOf({r \in Readings: r.page # NextPage(y)}) = NewestOf(Readings)
<1> DEFINE x == NextPage(y)
<1>1. ASSUME NEW k \in Keys
      PROVE  NewestOf({r \in Readings: r.page # x})[k] = NewestOf(Readings)[k]
  <2>1. CASE \E q \in Pages: q # x /\ ItemsWithKey(q, k) # {}
    BY <2>1, NewestWithout
  <2>2. CASE \A q \in Pages: q # x => ItemsWithKey(q, k) = {}
    <3>1. ItemsWithKey(x, k) = {}
      BY <2>2 DEF ItemsWithKey
    <3>2. \A j \in Pages: PageBefore(y, j) \in Pages
      BY BeforeAround
    <3>3. \A j \in Pages: ItemsWithKey(PageBefore(y, j), k) = {}
      BY <2>2, <3>1, <3>2
    <3>4. NewestOf({r \in Readings: r.page \notin {x}})[k] = NoItem
      BY <3>3, NewestNone
    <3>5. NewestOf({r \in Readings: r.page \notin {}})[k] = NoItem
      BY <3>3, NewestNone
    <3>6. QED  BY <3>4, <3>5, OwnIs
  <2>3. QED  BY <2>1, <2>2
<1>2. QED  BY <1>1, SameTable

\* The target page of a migration can be erased when there are only copies on it.
LEMMA TargetIsCopies ==
  ASSUME flash \in [Pages -> Page], NEW y \in Pages, OnlyInUse(y), CopiesOnly(flash, y)
  PROVE  NewestOf({r \in Readings: r.page # y}) = NewestOf(Readings)
<1> DEFINE only == {y}
           none == {}
<1>o. (\A q: q \in only <=> q = y) /\ \A q: q \notin none
  OBVIOUS
<1> HIDE DEF only, none
<1>1. ASSUME NEW k \in Keys
      PROVE  NewestOf({r \in Readings: r.page \notin only})[k] = NewestOf({r \in Readings: r.page \notin none})[k]
  <2> DEFINE x == NextPage(y)
             N == PageCount - 1
  <2>1. /\ 0 \in Pages /\ PageBefore(y, 0) = y /\ N \in Pages /\ PageBefore(y, N) = x
        /\ \A j \in Pages: PageBefore(y, j) \in Pages
        /\ \A i \in Pages, j \in Pages: PageBefore(y, i) = PageBefore(y, j) => i = j
        /\ x \in Pages /\ x # y
    BY BeforeAround, NextIs
  <2>2. \A j \in Pages: j >= 0 /\ j <= N /\ j \in Int
    BY PageCountAssumption DEF Pages
  <2> HIDE DEF x, N
  <2>3. CASE ItemsWithKey(y, k) = {}
    <3>1. CASE \A j \in Pages: ItemsWithKey(PageBefore(y, j), k) = {}
      BY <3>1, NewestNone
    <3>2. CASE \E n \in Pages: ItemsWithKey(PageBefore(y, n), k) # {}
      <4>1. PICK n \in Pages: ItemsWithKey(PageBefore(y, n), k) # {}
        BY <3>2
      <4>2. PageBefore(y, n) \notin none
        BY <1>o
      <4>3. PICK i \in Pages:
              /\ ItemsWithKey(PageBefore(y, i), k) # {}
              /\ \A j \in Pages: j < i /\ PageBefore(y, j) \notin none => ItemsWithKey(PageBefore(y, j), k) = {}
        BY <4>1, <4>2, FirstWithKey
      <4>4. PageBefore(y, i) \notin only /\ PageBefore(y, i) \notin none
        BY <1>o, <2>3, <4>3
      <4>5. \A j \in Pages: j < i /\ PageBefore(y, j) \notin only => ItemsWithKey(PageBefore(y, j), k) = {}
        BY <1>o, <4>3
      <4>6. QED  BY <4>3, <4>4, <4>5, NewestIs
    <3>3. QED  BY <3>1, <3>2
  <2>4. CASE ItemsWithKey(y, k) # {}
    <3> DEFINE m == Max(ItemsWithKey(y, k))
               item == flash[y].words[m].crc
               last == flash[x].words[Max(ItemsWithKey(x, k))].crc
    <3>1. m \in Addrs /\ IsPresent(flash[y].words, m) /\ KeyOf[item] = k
      BY <2>4, ItemsWithKeyType DEF KeyAt
    <3>2. Original(flash, y, item)
      BY <3>1 DEF CopiesOnly
    <3>3. /\ \A q \in Pages: q \notin {y, x} => ItemsWithKey(q, k) = {}
          /\ ItemsWithKey(x, k) # {} /\ last = item
      BY <3>1, <3>2, OwnIs DEF Original, x
    <3> HIDE DEF m, item, last
    <3>4. NewestOf({r \in Readings: r.page \notin none})[k] = item
      <4>1. PageBefore(y, 0) \notin none /\ ItemsWithKey(PageBefore(y, 0), k) # {}
        BY <1>o, <2>1, <2>4
      <4>2. \A j \in Pages: j < 0 /\ PageBefore(y, j) \notin none => ItemsWithKey(PageBefore(y, j), k) = {}
        BY <2>2
      <4>3. NewestOf({r \in Readings: r.page \notin none})[k] =
              flash[PageBefore(y, 0)].words[Max(ItemsWithKey(PageBefore(y, 0), k))].crc
        <5>1. 0 \in Pages
          BY <2>1
        <5>2. QED  BY <4>1, <4>2, <5>1, NewestIs
      <4>4. QED  BY <2>1, <4>3 DEF item, m
    <3>5. NewestOf({r \in Readings: r.page \notin only})[k] = last
      <4>1. PageBefore(y, N) \notin only /\ ItemsWithKey(PageBefore(y, N), k) # {}
        BY <1>o, <2>1, <3>3
      <4>2. ASSUME NEW j \in Pages, j < N, PageBefore(y, j) \notin only
            PROVE  ItemsWithKey(PageBefore(y, j), k) = {}
        <5>1. j # N
          BY <2>1, <2>2, <4>2
        <5>2. PageBefore(y, j) \in Pages /\ PageBefore(y, j) # x /\ PageBefore(y, j) # y
          BY <1>o, <2>1, <4>2, <5>1
        <5>3. QED  BY <3>3, <5>2
      <4>3. QED  BY <2>1, <4>1, <4>2, NewestIs DEF last
    <3>6. QED  BY <3>3, <3>4, <3>5
  <2>5. QED  BY <2>3, <2>4
<1>2. \A k \in Keys: NewestOf({r \in Readings: r.page # y})[k] = NewestOf(Readings)[k]
  BY <1>1, OwnIs DEF only, none
<1>3. QED  BY <1>2, SameTable

\* A half-erased page is not read at all.
LEMMA TornIsUnread ==
  ASSUME NEW p \in Pages, MarkedState(flash[p]) = "Corrupted"
  PROVE  NewestOf({r \in Readings: r.page # p}) = NewestOf(Readings)
<1>1. ASSUME NEW r \in Readings, r.page = p
      PROVE  FALSE
  <2> DEFINE pairs == {q \in {u \in Pages: IsYoungest(u)} \X Pages: Reaches(q[1], q[2])}
  <2>1. PICK q \in pairs: r.page = PageBefore(q[1], q[2])
    BY <1>1 DEF Readings
  <2>2. q[1] \in Pages /\ q[2] \in Pages /\ IsYoungest(q[1]) /\ Reaches(q[1], q[2])
    OBVIOUS
  <2>3. CASE q[2] = 0
    <3>1. r.page = q[1]
      BY <2>1, <2>2, <2>3, BeforeAround
    <3>2. QED  BY <1>1, <2>2, <3>1 DEF IsYoungest, IsClosed
  <2>4. CASE q[2] # 0
    <3>1. q[2] \in 1 .. q[2]
      BY <2>2, <2>4, PageCountAssumption DEF Pages
    <3>2. IsClosed(PageBefore(q[1], q[2]))
      BY <2>2, <3>1 DEF Reaches
    <3>3. QED  BY <1>1, <2>1, <3>2 DEF IsClosed
  <2>5. QED  BY <2>3, <2>4
<1>2. {r \in Readings: r.page # p} = Readings
  BY <1>1
<1>3. QED  BY <1>2

-----------------------------------------------------------------------------
(* Copies, and operations that are cut short *)

\* A word that is neither the header nor the body of an item.
Unreadable(w) == w.crc \notin Items

\* What an erase that is cut short leaves: words it left alone, and nothing readable.
LEMMA EraseLeaves ==
  ASSUME NEW pg \in Page, NEW t \in TornErases(pg), NEW b \in Addrs
  PROVE  t.words[b] = pg.words[b] \/ Unreadable(t.words[b])
<1>1. Unreadable(Blank) /\ Unreadable(Junk) /\ \A w \in Word: Unreadable(GarbledHeader(w))
  BY ItemAssumption DEF Unreadable, Blank, Junk, GarbledHeader, Word
<1>2. pg.words \in [Addrs -> Word]
  BY DEF Page
<1>3. CASE t = pg
  BY <1>3
<1>4. CASE t = ErasedPage \/ t = [ErasedPage EXCEPT !.end = pg.end]
  BY <1>1, <1>4 DEF ErasedPage
<1>5. CASE \E ws \in TornWords(pg.words): t = [WithWords(pg, ws) EXCEPT !.start = FALSE]
  <2>1. PICK ws \in TornWords(pg.words): t = [WithWords(pg, ws) EXCEPT !.start = FALSE]
    BY <1>5
  <2>2. t.words = ws
    BY <2>1 DEF WithWords, Page
  <2>3. PICK k \in Addrs: \E w \in (IF pg.words[k] = Blank THEN {Blank}
                                    ELSE {pg.words[k], Junk} \cup
                                         (IF pg.words[k].kind = "header" THEN {GarbledHeader(pg.words[k])} ELSE {})):
          ws = [a \in Addrs |-> IF a < k THEN Blank ELSE IF a = k THEN w ELSE pg.words[a]]
    BY DEF TornWords
  <2>4. PICK w \in {Blank, pg.words[k], Junk, GarbledHeader(pg.words[k])}:
          ws = [a \in Addrs |-> IF a < k THEN Blank ELSE IF a = k THEN w ELSE pg.words[a]]
    BY <2>3
  <2>5. ws[b] = IF b < k THEN Blank ELSE IF b = k THEN w ELSE pg.words[b]
    BY <2>4
  <2>6. pg.words[k] \in Word
    BY <1>2
  <2>7. w = pg.words[k] \/ Unreadable(w)
    BY <1>1, <2>6
  <2>8. QED  BY <1>1, <2>2, <2>5, <2>7
<1>6. QED  BY <1>3, <1>4, <1>5 DEF TornErases

\* An operation that completes or is cut short leaves a word as it was, or unreadable, or
\* makes it part of the item it writes.
LEMMA WordLeft ==
  ASSUME NEW pg \in Page, NEW c \in IOType, HasData(c), c.cmd # "erase_all",
         NEW t \in Torn(pg, c), NEW b \in Addrs
  PROVE  \/ t.words[b] = pg.words[b] \/ Unreadable(t.words[b])
         \/ c.cmd = "header" /\ t.words[b] = Header(c.item)
         \/ c.cmd = "data" /\ t.words[b] = Body(c.item)
<1>1. Unreadable(Blank) /\ Unreadable(Junk) /\ \A w \in Word: Unreadable(GarbledHeader(w)) /\ Unreadable(ZeroedHeader(w))
  BY ItemAssumption DEF Unreadable, Blank, Junk, GarbledHeader, ZeroedHeader, Word
<1>2. pg.words \in [Addrs -> Word] /\ c.addr \in Addrs /\ c.cmd \in Commands
  BY DEF Page, IOType
<1>4. CASE c.cmd = "none"
  BY <1>4 DEF Torn
<1>5. CASE c.cmd \in {"start", "end"}
  BY <1>5 DEF Torn, Page
<1>6. CASE c.cmd = "header"
  <2>1. PICK w \in TornHeaders(pg.words[c.addr], Header(c.item)): t = WithWord(pg, c.addr, w)
    BY <1>6 DEF Torn
  <2>2. w \in {pg.words[c.addr], Junk, Header(c.item)}
    BY <2>1 DEF TornHeaders, Programmed
  <2>3. t.words[b] = IF b = c.addr THEN w ELSE pg.words[b]
    <3>1. t.words = [pg.words EXCEPT ![c.addr] = w]
      BY <2>1 DEF WithWord, Page
    <3>2. QED  BY <1>2, <3>1
  <2>4. QED  BY <1>1, <1>6, <2>2, <2>3
<1>7. CASE c.cmd = "data"
  <2>1. t \in TornData(pg, c.addr, c.item)
    BY <1>7 DEF Torn
  <2>2. PICK k \in 0 .. Size[c.item], torn \in BOOLEAN:
          t = WithWords(pg, [d \in Addrs |->
                IF d \in (c.addr + 1) .. (c.addr + k) THEN Programmed(pg.words[d], Body(c.item))
                ELSE IF torn /\ d = c.addr + k + 1 /\ d \in DataAddrs(c.addr, c.item) THEN Junk
                ELSE pg.words[d]])
    BY <2>1 DEF TornData
  <2>3. t.words[b] \in {Programmed(pg.words[b], Body(c.item)), Junk, pg.words[b]}
    BY <2>2 DEF WithWords, Page
  <2>4. t.words[b] \in {Body(c.item), Junk, pg.words[b]}
    BY <2>3 DEF Programmed
  <2>5. QED  BY <1>1, <1>7, <2>4
<1>8. CASE c.cmd = "zero"
  <2>1. PICK w \in TornZeroes(pg.words[c.addr]): t = WithWord(pg, c.addr, w)
    BY <1>8 DEF Torn
  <2>2. pg.words[c.addr] \in Word
    BY <1>2
  <2>3. w = pg.words[c.addr] \/ Unreadable(w)
    BY <1>1, <2>1, <2>2 DEF TornZeroes
  <2>4. t.words[b] = IF b = c.addr THEN w ELSE pg.words[b]
    <3>1. t.words = [pg.words EXCEPT ![c.addr] = w]
      BY <2>1 DEF WithWord, Page
    <3>2. QED  BY <1>2, <3>1
  <2>5. QED  BY <2>3, <2>4
<1>9. CASE c.cmd = "erase"
  <2>1. t \in TornErases(pg)
    BY <1>9 DEF Torn
  <2>2. QED  BY <2>1, EraseLeaves
<1>10. QED  BY <1>2, <1>4, <1>5, <1>6, <1>7, <1>8, <1>9 DEF Commands

\* So an item that is present then was before, or is the one that is written.
LEMMA PresentLeft ==
  ASSUME NEW pg \in Page, NEW c \in IOType, HasData(c), c.cmd # "erase_all",
         NEW t \in Torn(pg, c), NEW a \in Addrs, IsPresent(t.words, a)
  PROVE  \/ IsPresent(pg.words, a) /\ pg.words[a].crc = t.words[a].crc
         \/ c.cmd \in {"header", "data"} /\ t.words[a].crc = c.item
<1> DEFINE i == t.words[a].crc
<1>1. t \in Page
  BY TornType
<1>2. i \in Items /\ t.words[a].kind = "header" /\ t.words[a].len \in Nat /\ a + 1 + t.words[a].len <= PageWords
  BY <1>1 DEF IsPresent, IsItem, Page, Word
<1>3. SUFFICES ASSUME c.cmd \in {"header", "data"} => i # c.item
               PROVE  IsPresent(pg.words, a) /\ pg.words[a].crc = i
  OBVIOUS
<1>4. t.words[a] = pg.words[a]
  <2>1. \/ t.words[a] = pg.words[a] \/ Unreadable(t.words[a])
        \/ c.cmd = "header" /\ t.words[a] = Header(c.item)
        \/ c.cmd = "data" /\ t.words[a] = Body(c.item)
    BY WordLeft
  <2>2. Header(c.item).crc = c.item /\ Body(c.item).kind = "body"
    BY DEF Header, Body
  <2>3. QED  BY <1>2, <1>3, <2>1, <2>2 DEF Unreadable
<1>5. ASSUME NEW k \in 1 .. t.words[a].len
      PROVE  pg.words[a + k] = Body(i)
  <2>1. a + k \in Addrs
    BY <1>2, PageWordsAssumption DEF Addrs
  <2>2. t.words[a + k] = Body(i)
    BY DEF IsPresent
  <2>3. Body(i).kind = "body" /\ Body(i).crc = i
    BY DEF Body
  <2>4. \/ t.words[a + k] = pg.words[a + k] \/ Unreadable(t.words[a + k])
        \/ c.cmd = "header" /\ t.words[a + k] = Header(c.item)
        \/ c.cmd = "data" /\ t.words[a + k] = Body(c.item)
    BY <2>1, WordLeft
  <2>5. Header(c.item).kind = "header" /\ Body(c.item).crc = c.item
    BY DEF Header, Body
  <2>6. QED  BY <1>2, <1>3, <2>2, <2>3, <2>4, <2>5 DEF Unreadable
<1>6. IsPresent(pg.words, a)
  BY <1>2, <1>4, <1>5 DEF IsPresent, IsItem
<1>7. QED  BY <1>4, <1>6

Copies(fl) == \A p \in Pages: Alone(fl, p) => CopiesOnly(fl, p)

\* On a page that is alone nothing but a copy is written, and no item is removed while
\* there is such a page.
CopyPending ==
  \A p \in Pages: Alone(flash, p) =>
    /\ io.cmd # "zero"
    /\ io.cmd \in {"header", "data"} => io.page = p /\ Original(flash, p, io.item)

\* Done or cut short, an operation leaves copies where there are to be copies.
LEMMA TornCopies ==
  ASSUME OInv, WordsInv, ~Disturbed, Copies(flash), CopyPending, io.cmd # "erase_all",
         NEW t \in Torn(flash[io.page], io)
  PROVE  Copies([flash EXCEPT ![io.page] = t])
<1> DEFINE fl == [flash EXCEPT ![io.page] = t]
           q == io.page
<1>1. /\ flash \in [Pages -> Page] /\ io \in IOType /\ HasData(io) /\ io.cmd \in Commands
      /\ q \in Pages /\ flash[q] \in Page /\ \A p \in Pages: flash[p] \in Page
  BY Typed DEF OInv, IOType
<1>2. fl[q] = t /\ \A p \in Pages: p # q => fl[p] = flash[p]
  BY <1>1
<1>3. Ordered(Marks(fl)) /\ Ordered(Now) /\ KeptTidy(flash) /\ Ready
  <2>1. fl \in Interrupted(io)
    BY DEF Interrupted
  <2>2. QED  BY <2>1, TornOrdered DEF OInv, OrderInv, WordsInv, TidyFlash
<1>4. \A p \in Pages: Now[p] = MarkedState(flash[p]) /\ Marks(fl)[p] = MarkedState(fl[p])
  BY DEF Now, Marks
<1> HIDE DEF fl, q
<1>5. SUFFICES ASSUME NEW p \in Pages, Alone(fl, p) PROVE CopiesOnly(fl, p)
  BY DEF Copies, fl, q
<1>6. CASE p = q
  <2>1. Alone(flash, p)
    BY <1>2, <1>5, <1>6 DEF Alone
  <2>2. CopiesOnly(flash, p)
    BY <2>1 DEF Copies
  <2>3. ASSUME NEW a \in Addrs, IsPresent(t.words, a) PROVE Original(fl, p, t.words[a].crc)
    <3>1. CASE IsPresent(flash[q].words, a) /\ flash[q].words[a].crc = t.words[a].crc
      <4>1. Original(flash, p, t.words[a].crc)
        BY <1>6, <2>2, <3>1 DEF CopiesOnly
      <4>2. QED  BY <1>2, <1>6, <4>1, OriginalElsewhere
    <3>2. CASE io.cmd \in {"header", "data"} /\ t.words[a].crc = io.item
      <4>1. Original(flash, p, t.words[a].crc)
        BY <2>1, <3>2 DEF CopyPending
      <4>2. QED  BY <1>2, <1>6, <4>1, OriginalElsewhere
    <3>3. QED  BY <1>1, <2>3, <3>1, <3>2, PresentLeft DEF q
  <2>4. QED  BY <1>2, <1>6, <2>3 DEF CopiesOnly
<1>7. CASE p # q
  <2>1. MarkedState(t) = "Closed" /\ fl[p] = flash[p]
    BY <1>1, <1>2, <1>5, <1>7 DEF Alone
  <2>2. CASE MarkedState(flash[q]) = "Closed"
    <3>1. Alone(flash, p)
      BY <1>2, <1>5, <2>2 DEF Alone
    <3>2. io.cmd \in {"none", "erase"}
      BY <1>1, <1>3, <1>7, <2>2, <3>1 DEF CopyPending, Ready, FitFor, Commands, q
    <3>3. t = flash[q]
      <4>1. CASE io.cmd = "none"
        BY <4>1 DEF Torn, q
      <4>2. CASE io.cmd = "erase"
        <5>1. t \in TornErases(flash[q])
          BY <4>2 DEF Torn, q
        <5>2. \A ws: ~[WithWords(flash[q], ws) EXCEPT !.start = FALSE].start
          BY <1>1 DEF WithWords, Page
        <5>3. ~ErasedPage.start /\ ~[ErasedPage EXCEPT !.end = flash[q].end].start
          BY DEF ErasedPage
        <5>4. t.start
          BY <2>1 DEF MarkedState
        <5>5. QED  BY <5>1, <5>2, <5>3, <5>4 DEF TornErases
      <4>3. QED  BY <3>2, <4>1, <4>2
    <3>4. fl = flash
      BY <1>1, <3>3 DEF fl, q
    <3>5. QED  BY <3>1, <3>4 DEF Copies
  <2>3. CASE MarkedState(flash[q]) # "Closed"
    <3>1. ~Alone(flash, p)
      BY <1>1, <1>7, <2>3 DEF Alone
    <3>2. MarkedState(flash[q]) = "PartialOpen"
      <4>1. io.cmd # "erase"
        <5>1. SUFFICES ASSUME io.cmd = "erase" PROVE FALSE
          OBVIOUS
        <5>2. t \in TornErases(flash[q])
          BY <5>1 DEF Torn, q
        <5>3. QED  BY <1>1, <2>1, <2>3, <5>2, TornEraseMark
      <4>2. io.cmd \notin {"none", "header", "data", "zero"}
        BY <1>1, <2>1, <2>3, DataKeepsMarkers DEF q
      <4>3. io.cmd # "start"
        <5>1. SUFFICES ASSUME io.cmd = "start" PROVE FALSE
          OBVIOUS
        <5>2. MarkedState(flash[q]) = "Open" /\ t \in {flash[q], [flash[q] EXCEPT !.start = TRUE]}
          BY <1>3, <5>1 DEF Ready, FitFor, Torn, q
        <5>3. QED  BY <1>1, <2>1, <5>2 DEF MarkedState, Page
      <4>4. io.cmd = "end"
        BY <1>1, <4>1, <4>2, <4>3 DEF Commands
      <4>5. QED  BY <1>3, <4>4 DEF Ready, FitFor, q
    <3>3. MarkedState(flash[p]) = "Open"
      <4>1. PICK r \in Pages: MarkedState(fl[r]) \in {"Open", "PartialOpen"}
        BY <1>3, <1>4, SomeRoom
      <4>2. r = p
        BY <1>5, <4>1 DEF Alone
      <4>3. MarkedState(flash[p]) # "PartialOpen"
        BY <1>1, <1>3, <1>4, <1>7, <3>2, OneInUse
      <4>4. QED  BY <2>1, <4>1, <4>2, <4>3
    <3>4. BlankFrom(flash[p].words, 0)
      BY <1>3, <3>1, <3>3 DEF KeptTidy, Tidy
    <3>5. ASSUME NEW a \in Addrs PROVE ~IsPresent(flash[p].words, a)
      <4>1. flash[p].words[a] = Blank
        BY <3>4, PageWordsAssumption DEF BlankFrom, Addrs
      <4>2. QED  BY <4>1 DEF IsPresent, IsItem, Blank
    <3>6. QED  BY <2>1, <3>5 DEF CopiesOnly
  <2>4. QED  BY <2>2, <2>3
<1>8. QED  BY <1>6, <1>7

\* The same for flash, whatever becomes of the pending operation.
LEMMA FlashCopies ==
  ASSUME OInv, WordsInv, ~Disturbed, Copies(flash), CopyPending, io.cmd # "erase_all"
  PROVE  Copies(Completed(io)) /\ \A fl \in Interrupted(io): Copies(fl)
<1>1. io \in IOType /\ HasData(io) /\ flash[io.page] \in Page
  BY Typed DEF OInv, IOType
<1>2. Applied(flash[io.page], io) \in Torn(flash[io.page], io)
  BY <1>1, AppliedIsTorn
<1>3. Completed(io) = [flash EXCEPT ![io.page] = Applied(flash[io.page], io)]
  BY DEF Completed
<1>4. \A fl \in Interrupted(io): \E t \in Torn(flash[io.page], io): fl = [flash EXCEPT ![io.page] = t]
  BY DEF Interrupted
<1>5. QED  BY <1>2, <1>3, <1>4, TornCopies

-----------------------------------------------------------------------------
(* The invariant *)

\* No page is half-erased, and no migration due: the page in use has its buffer.
Settled(st) == Buffered(st) \/ \A p \in Pages: st[p] = "Open"

Removals == {"remove_item", "remove_all_items"}

\* Items are removed from settled pages only, and a removal never comes to a repair.
RemovalSettled ==
  /\ op.fn \in Removals \/ op.pc \in {"data", "removing"} => Settled(Then)
  /\ op.fn \in Removals => op.pc \in Removals \cup {"removing"}

\* What is copied to page p is the newest with its key, and where it goes is read.
CopyOf(fl, p, from, addr) ==
  /\ Original(fl, p, fl[NextPage(p)].words[from].crc)
  /\ OnWalk(fl[p].words, addr)

\* Every key on the source page is on another page, or yet to be met by the migration.
PassedUpTo(fl, p, from) ==
  LET ws == fl[NextPage(p)].words IN
  \A a \in PresentItems(ws, 0):
    \/ \E q \in Pages: q # NextPage(p) /\ OwnItems(fl, q, KeyAt(ws, a)) # {}
    \/ \E b \in PresentItems(ws, from): KeyAt(ws, b) = KeyAt(ws, a)

Copied ==
  /\ op.pc = "copy" => CopyOf(Completed(io), op.page, op.from, op.addr)
  /\ op.pc \in {"migrate", "copy"} => PassedUpTo(Completed(io), op.page, op.from)

CopyInv ==
  /\ ~Disturbed => Copies(flash)
  /\ CopyPending /\ RemovalSettled /\ Copied /\ ErasesOnlyCopies

\* All that the steps start from.
CInv == RInv /\ WordsInv /\ CopyInv

\* On settled pages no migration is due.
LEMMA SettledNotAlone ==
  ASSUME Settled(Now), NEW p \in Pages
  PROVE  ~Alone(flash, p)
<1>1. \A q \in Pages: Now[q] = MarkedState(flash[q])
  BY DEF Now, Marks
<1>2. CASE Buffered(Now)
  <2>1. PICK q \in Pages: Now[q] = "PartialOpen" /\ Now[NextPage(q)] = "Open"
    BY <1>2 DEF Buffered
  <2>2. NextPage(q) \in Pages /\ NextPage(q) # q
    BY NextIs
  <2>3. QED  BY <1>1, <2>1, <2>2 DEF Alone
<1>3. CASE \A q \in Pages: Now[q] = "Open"
  <2>1. NextPage(p) \in Pages /\ NextPage(p) # p
    BY NextIs
  <2>2. QED  BY <1>1, <1>3, <2>1 DEF Alone
<1>4. QED  BY <1>2, <1>3 DEF Settled

\* And none is half-erased.
LEMMA SettledWhole ==
  ASSUME NEW st \in [Pages -> PageState], Ordered(st), Settled(st), NEW p \in Pages
  PROVE  st[p] # "Corrupted"
<1>1. SUFFICES ASSUME st[p] = "Corrupted" PROVE FALSE
  OBVIOUS
<1>2. PICK q \in Pages: SettledOn(st, q) /\ p = NextPage(q)
  BY <1>1, TornIsBuffer
<1>3. st[q] = "PartialOpen"
  BY <1>2 DEF SettledOn
<1>4. PICK r \in Pages: st[r] = "PartialOpen" /\ st[NextPage(r)] = "Open"
  BY <1>3 DEF Settled, Buffered
<1>5. r = q
  BY <1>3, <1>4, OneInUse
<1>6. QED  BY <1>1, <1>2, <1>4, <1>5

\* A migration starts with everything yet to be met.
LEMMA PassedStart ==
  ASSUME NEW fl, NEW p
  PROVE  PassedUpTo(fl, p, 0)
BY DEF PassedUpTo

\* Away from a removal no removal is running.
LEMMA NotRemoving ==
  ASSUME CInv, op.pc \notin Removals \cup {"removing"}
  PROVE  op.fn \notin Removals
BY DEF CInv, CopyInv, RemovalSettled

\* A step of a running call that writes no word of an item.
LEMMA CopiesQuiet ==
  ASSUME CInv, io = NoIO, op.pc \notin {"idle", "erase_all"}, UNCHANGED flash,
         io'.cmd \notin {"zero", "header", "data"},
         op'.pc \notin {"data", "copy", "removing"}, op'.fn \notin Removals,
         op'.pc = "migrate" => Copied',
         io'.cmd = "erase" => ErasesOnlyCopies'
  PROVE  CopyInv'
<1>1. ~Disturbed
  BY Running DEF CInv, RInv
<1>2. Copies(flash)'
  <2>1. Copies(flash)
    BY <1>1 DEF CInv, CopyInv
  <2>2. QED  BY <2>1
<1>3. CopyPending'
  BY DEF CopyPending
<1>4. RemovalSettled'
  BY DEF RemovalSettled
<1>5. Copied'
  BY DEF Copied
<1>6. ErasesOnlyCopies'
  BY DEF ErasesOnlyCopies
<1>7. QED  BY <1>2, <1>3, <1>4, <1>5, <1>6 DEF CopyInv

\* A call that returns.
LEMMA CopiesReturn ==
  ASSUME CInv, io = NoIO, io' = NoIO, op.pc \notin {"idle", "erase_all"}, UNCHANGED flash, op' = Idle
  PROVE  CopyInv'
<1>1. op'.pc = "idle" /\ op'.fn = "none" /\ io'.cmd = "none"
  BY NoIOType DEF Idle
<1>2. QED  BY <1>1, CopiesQuiet DEF Removals

\* The first Corrupted error starts a repair, the second one ends the call.
LEMMA CopiesCorruption ==
  ASSUME CInv, io = NoIO, op.pc \notin {"idle", "erase_all"}, UNCHANGED flash,
         op.fn \notin Removals, NEW c, NEW ks, HandleCorruption(c, ks)
  PROVE  CopyInv'
<1>1. io' = NoIO
  BY DEF HandleCorruption
<1>2. CASE op.retried
  BY <1>1, <1>2, CopiesReturn DEF HandleCorruption, Return
<1>3. CASE ~op.retried
  <2>1. op \in OpType
    BY Running DEF CInv, RInv
  <2>2. op'.pc = "repair" /\ op'.fn = op.fn
    BY <1>3, <2>1 DEF HandleCorruption, OpType
  <2>3. QED  BY <1>1, <2>2, NoIOType, CopiesQuiet
<1>4. QED  BY <1>2, <1>3

\* The function is entered again.
LEMMA CopiesRestart ==
  ASSUME CInv, io = NoIO, io' = NoIO, op.pc \notin {"idle", "erase_all"}, UNCHANGED flash,
         op.fn \notin Removals, Restart
  PROVE  CopyInv'
<1>1. op.fn \in Functions
  BY Running DEF CInv, RInv
<1>2. op'.fn = op.fn /\ op'.pc = op.fn
  BY DEF Restart, Idle
<1>3. op'.pc \notin {"data", "copy", "migrate", "removing"}
  BY <1>1, <1>2 DEF Functions
<1>4. QED  BY <1>2, <1>3, NoIOType, CopiesQuiet

-----------------------------------------------------------------------------
(* Between calls, and what becomes of the pending operation *)

\* No page holds anything in the initial state.
LEMMA InitCopies == Init => CopyInv
<1> SUFFICES ASSUME Init PROVE CopyInv
  OBVIOUS
<1>1. io = NoIO /\ op = Idle /\ flash = [p \in Pages |-> ErasedPage]
  BY DEF Init, GenericInit
<1>2. io.cmd = "none" /\ op.pc = "idle" /\ op.fn = "none"
  BY <1>1, NoIOType DEF Idle
<1>3. Copies(flash)
  <2>1. ASSUME NEW p \in Pages, NEW a \in Addrs PROVE ~IsPresent(flash[p].words, a)
    BY <1>1 DEF ErasedPage, IsPresent, IsItem, Blank
  <2>2. QED  BY <2>1 DEF Copies, CopiesOnly
<1>4. QED  BY <1>2, <1>3 DEF CopyInv, CopyPending, RemovalSettled, Copied, ErasesOnlyCopies, Removals

\* A step between calls, or one that begins a call.
LEMMA CopiesIdle ==
  ASSUME CInv, op = Idle, UNCHANGED <<flash, io>>, ~Disturbed,
         op'.pc \notin {"data", "copy", "migrate", "removing"},
         op'.fn \in Removals => Settled(Now) /\ op'.pc \in Removals
  PROVE  CopyInv'
<1>1. io = NoIO /\ io' = NoIO /\ io'.cmd = "none" /\ flash \in [Pages -> Page]
  BY Typed, NoIOType DEF CInv, RInv, OInv
<1>2. Then' = Now
  BY <1>1, QuietMarks
<1>3. Copies(flash)'
  <2>1. Copies(flash)
    BY DEF CInv, CopyInv
  <2>2. QED  BY <2>1
<1>4. RemovalSettled'
  BY <1>2 DEF RemovalSettled
<1>5. QED  BY <1>1, <1>3, <1>4 DEF CopyInv, CopyPending, Copied, ErasesOnlyCopies

\* The user calls a function: a removal when the pages are settled.
LEMMA CallCopies ==
  ASSUME CarefulRemoves, CInv,
         \/ \E i \in Items: CallStore(i)
         \/ \E k \in Keys: CallFetch(k) \/ CallRemove(k)
         \/ CallRemoveAll \/ CallIter
  PROVE  CopyInv'
<1>1. \E fn \in Functions \ {"erase_all"}:
        /\ \E item, key: Call(fn, item, key)
        /\ fn \in Removals => PagesSettled
  <2>1. CASE \E i \in Items: CallStore(i)
    BY <2>1 DEF CallStore, Functions, Removals
  <2>2. CASE \E k \in Keys: CallFetch(k)
    BY <2>2 DEF CallFetch, Functions, Removals
  <2>3. CASE \E k \in Keys: CallRemove(k)
    BY <2>3 DEF CallRemove, Functions, Removals
  <2>4. CASE CallRemoveAll
    BY <2>4 DEF CallRemoveAll, Functions, Removals
  <2>5. CASE CallIter
    BY <2>5 DEF CallIter, Functions, Removals
  <2>6. QED  BY <2>1, <2>2, <2>3, <2>4, <2>5
<1>2. PICK fn \in Functions \ {"erase_all"}:
        /\ op = Idle /\ Usable /\ UNCHANGED <<flash, io>>
        /\ op'.pc = fn /\ op'.fn = fn
        /\ fn \in Removals => PagesSettled
  BY <1>1, CallBegins
<1>3. ~Disturbed
  BY <1>2 DEF Disturbed, Idle
<1>4. PagesSettled => Settled(Now)
  <2>1. \A q \in Pages: Now[q] = MarkedState(flash[q]) /\ NextPage(q) \in Pages
    BY NextIs DEF Now, Marks
  <2>2. QED  BY <2>1 DEF PagesSettled, Settled, Buffered
<1>5. QED  BY <1>2, <1>3, <1>4, CopiesIdle DEF Functions

\* The iterator is used, or given up.
LEMMA NextItemCopies ==
  ASSUME CInv, NextItem \/ DropIter
  PROVE  CopyInv'
<1>1. op = Idle /\ op' = Idle /\ iter.live /\ UNCHANGED <<flash, io>>
  BY DEF NextItem, DropIter
<1>2. ~Disturbed
  BY <1>1 DEF CInv, RInv, OInv, OrderInv
<1>3. Idle.pc = "idle" /\ Idle.fn = "none"
  BY DEF Idle
<1>4. QED  BY <1>1, <1>2, <1>3, CopiesIdle DEF Removals

\* Everything is to be erased, and then is.
LEMMA CallEraseAllCopies ==
  ASSUME CallEraseAll
  PROVE  CopyInv'
<1>1. op'.fn = "erase_all" /\ op'.pc = "erase_all" /\ io'.cmd = "erase_all"
  BY DEF CallEraseAll, Idle, PageIO, NoIO
<1>2. QED
  BY <1>1 DEF CopyInv, Disturbed, CopyPending, RemovalSettled, Copied, ErasesOnlyCopies, Removals

\* erase_all returns: no page holds anything.
LEMMA EraseAllFinishCopies ==
  ASSUME CInv, EraseAllFinish
  PROVE  CopyInv'
<1>1. op.pc = "erase_all" /\ io = NoIO /\ io' = NoIO /\ flash' = flash /\ op' = Idle
  BY DEF EraseAllFinish, At, Return
<1>2. io'.cmd = "none" /\ op'.pc = "idle" /\ op'.fn = "none"
  BY <1>1, NoIOType DEF Idle
<1>3. Copies(flash)'
  <2>1. flash \in [Pages -> Page]
    BY Typed DEF CInv, RInv, OInv
  <2>2. flash' = [p \in Pages |-> ErasedPage]
    BY <1>1, <2>1, NoIOCompleted DEF CInv, WordsInv, TidyFlash
  <2>3. ASSUME NEW p \in Pages, NEW a \in Addrs PROVE ~IsPresent(flash'[p].words, a)
    BY <2>2 DEF ErasedPage, IsPresent, IsItem, Blank
  <2>4. QED  BY <2>3 DEF Copies, CopiesOnly
<1>4. QED  BY <1>2, <1>3 DEF CopyInv, CopyPending, RemovalSettled, Copied, ErasesOnlyCopies, Removals

\* A flash operation completes.
LEMMA FlashDoneCopies ==
  ASSUME CInv, FlashDone, UNCHANGED <<keys, op, iter, ret, faults>>
  PROVE  CopyInv'
<1>1. flash' = Completed(io) /\ io # NoIO /\ io' = NoIO /\ UNCHANGED <<op, ret>>
  BY DEF FlashDone
<1>2. /\ flash \in [Pages -> Page] /\ io \in IOType /\ HasData(io) /\ Shape(op)
      /\ flash' \in [Pages -> Page] /\ io'.cmd = "none"
  <2>1. flash \in [Pages -> Page] /\ io \in IOType /\ HasData(io) /\ Shape(op)
    BY Typed DEF CInv, RInv, OInv
  <2>2. QED  BY <1>1, <2>1, FlashType, NoIOType
<1>3. Completed(io)' = Completed(io) /\ Then' = Then
  <2>1. Completed(io)' = flash'
    BY <1>1, <1>2, NoIOCompleted
  <2>2. QED  BY <1>1, <2>1 DEF Then
<1>4. ~Disturbed' => Copies(flash)'
  <2>1. SUFFICES ASSUME ~Disturbed' PROVE Copies(flash)'
    OBVIOUS
  <2>2. ~Disturbed
    BY <1>1, <2>1 DEF Disturbed, Usable
  <2>3. io.cmd # "erase_all"
    BY <1>2, <2>2 DEF CInv, RInv, OInv, OrderInv, Disturbed, Shape, Functions
  <2>4. Copies(Completed(io))
    BY <2>2, <2>3, FlashCopies DEF CInv, RInv, CopyInv
  <2>5. QED  BY <1>1, <2>4
<1>5. RemovalSettled'
  BY <1>1, <1>3 DEF CInv, CopyInv, RemovalSettled
<1>6. Copied'
  BY <1>1, <1>3 DEF CInv, CopyInv, Copied
<1>7. QED  BY <1>2, <1>4, <1>5, <1>6 DEF CopyInv, CopyPending, ErasesOnlyCopies

\* A call fails, or power is lost.
LEMMA FaultCopies ==
  ASSUME CInv, Fail \/ PowerLoss
  PROVE  CopyInv'
<1>1. /\ flash' \in Interrupted(io) /\ io' = NoIO /\ op' = Idle /\ (Disturbed' <=> Disturbed)
  <2>1. flash' \in Interrupted(io) /\ io' = NoIO
    BY DEF Fail, PowerLoss, FlashCutShort
  <2>2. QED  BY <2>1, FaultDisturbs DEF CInv, RInv
<1>2. io'.cmd = "none" /\ op'.pc = "idle" /\ op'.fn = "none"
  BY <1>1, NoIOType DEF Idle
<1>3. ~Disturbed' => Copies(flash)'
  <2>1. SUFFICES ASSUME ~Disturbed PROVE Copies(flash)'
    BY <1>1
  <2>2. Shape(op)
    BY Typed DEF CInv, RInv, OInv
  <2>3. io.cmd # "erase_all"
    BY <2>1, <2>2 DEF CInv, RInv, OInv, OrderInv, Disturbed, Shape, Functions
  <2>4. \A fl \in Interrupted(io): Copies(fl)
    BY <2>1, <2>3, FlashCopies DEF CInv, RInv, CopyInv
  <2>5. QED  BY <1>1, <2>4
<1>4. QED  BY <1>2, <1>3 DEF CopyInv, CopyPending, RemovalSettled, Copied, ErasesOnlyCopies, Removals

\* fetch_item.
LEMMA FetchItemCopies ==
  ASSUME CInv, FetchItem
  PROVE  CopyInv'
<1> DEFINE got == FetchWithLocation(Refresh(cache), RefreshKeys, op.key)
<1>1. /\ op.pc = "fetch_item" /\ io = NoIO /\ UNCHANGED flash
      /\ \/ HandleCorruption(got.cache, got.keys)
         \/ op' = Idle /\ io' = NoIO
  BY DEF FetchItem, At, Return
<1>2. op.fn \notin Removals
  BY <1>1, NotRemoving DEF Removals
<1> HIDE DEF got
<1>3. QED  BY <1>1, <1>2, CopiesCorruption, CopiesReturn

-----------------------------------------------------------------------------
(* Every step of a running call *)

\* A step that starts no write of a marker and no erase, on settled pages.
LEMMA CopiesSettled ==
  ASSUME CInv, io = NoIO, op.pc \notin {"idle", "erase_all"}, UNCHANGED flash, Settled(Now),
         io' \in IOType, io'.cmd \in {"none", "header", "data", "zero"},
         op'.pc \notin {"migrate", "copy"},
         op'.fn \in Removals => op'.pc \in Removals \cup {"removing"}
  PROVE  CopyInv'
<1>1. flash \in [Pages -> Page] /\ ~Disturbed
  BY Running DEF CInv, RInv
<1>2. Then' = Now
  BY <1>1, WordMarks
<1>3. Copies(flash)'
  <2>1. Copies(flash)
    BY <1>1 DEF CInv, CopyInv
  <2>2. QED  BY <2>1
<1>4. CopyPending'
  <2>1. \A p \in Pages: ~Alone(flash, p)
    BY SettledNotAlone
  <2>2. QED  BY <2>1 DEF CopyPending, Alone
<1>5. RemovalSettled'
  BY <1>2 DEF RemovalSettled
<1>6. QED  BY <1>3, <1>4, <1>5 DEF CopyInv, Copied, ErasesOnlyCopies

\* A round of store_item with a page in use: the item is written when that page has its buffer.
LEMMA StoreOnPageCopies ==
  ASSUME CInv, IInv', NEW c \in CacheType, Good(c), NEW ks, NEW partial \in Pages,
         Now[partial] = "PartialOpen", op.pc = "store_item", io = NoIO,
         UNCHANGED flash, StoreOnPage(c, ks, partial)
  PROVE  CopyInv'
<1> DEFINE next == NextPage(partial)
           known == Learn(c, {next})
           spot == FreeSpot(known, partial)
<1>1. flash \in [Pages -> Page] /\ op \in OpType
  BY Running DEF CInv, RInv
<1>2. next \in Pages /\ StateOf(c, next) = Now[next]
  BY <1>1, NextIs, StateIsMark DEF Now, Marks
<1>3. op.fn \notin Removals
  BY NotRemoving DEF Removals
<1> HIDE DEF known, spot
<1>4. CASE HandleCorruption(known, ks)
  BY <1>3, <1>4, CopiesCorruption
<1>5. CASE Return(Result("ItemTooBig")) /\ UNCHANGED io
  BY <1>5, CopiesReturn DEF Return
<1>6. CASE /\ StateOf(c, next) = "Open"
           /\ WriteHeader(known, partial, spot, op.item)
           /\ op' = [op EXCEPT !.pc = "data", !.page = partial, !.addr = spot]
  <2>1. op'.pc = "data" /\ op'.fn = op.fn
    BY <1>1, <1>6 DEF OpType
  <2>2. io'.cmd = "header" /\ io' \in IOType
    BY <1>6 DEF WriteHeader, ItemIO, IInv, TypeOK
  <2>3. Settled(Now)
    BY <1>2, <1>6 DEF Settled, Buffered
  <2>4. QED  BY <1>3, <2>1, <2>2, <2>3, CopiesSettled
<1>7. CASE /\ ClosePage(known, partial)
           /\ op' = [op EXCEPT !.pc = "closed", !.page = next]
  <2>1. op'.pc = "closed" /\ op'.fn = op.fn
    BY <1>1, <1>7 DEF OpType
  <2>2. io'.cmd \in {"end", "none"}
    BY <1>7, NoIOType DEF ClosePage, PageIO, NoIO
  <2>3. QED  BY <1>3, <2>1, <2>2, CopiesQuiet
<1>8. QED
  BY <1>4, <1>5, <1>6, <1>7 DEF StoreOnPage, next, known, spot

\* A round of store_item.
LEMMA StoreRoundCopies ==
  ASSUME CInv, IInv', StoreRound
  PROVE  CopyInv'
<1> DEFINE c == IF op.level = 0 THEN Refresh(cache) ELSE cache
           ks == IF op.level = 0 THEN RefreshKeys ELSE keys
           known == LearnLastUsed(c)
           partial == FindFirst(c, 0, "PartialOpen")
<1>1. /\ op.pc = "store_item" /\ io = NoIO /\ UNCHANGED flash
      /\ \/ Return(Result("FullStorage")) /\ UNCHANGED io
         \/ IF partial \in Pages THEN StoreOnPage(known, ks, partial)
            ELSE StoreOnFirst(known, ks, partial)
  BY DEF StoreRound, At
<1>2. /\ flash \in [Pages -> Page] /\ cache \in CacheType /\ op \in OpType /\ op.level \in 0 .. PageCount
      /\ op.fn \notin Removals
  BY <1>1, Running, NotRemoving DEF CInv, RInv, OpType, Removals
<1>3. c \in CacheType /\ Good(c)
  <2>1. CASE op.level = 0
    BY <1>1, <1>2, <2>1, RefreshGood DEF CInv, RInv
  <2>2. CASE op.level # 0
    <3>1. Trusted
      BY <1>1, <1>2, <2>2, PageCountAssumption DEF Trusted
    <3>2. QED  BY <1>1, <1>2, <2>2, <3>1, Running DEF CInv, RInv
  <2>3. QED  BY <2>1, <2>2
<1> HIDE DEF c, ks
<1>4. known \in CacheType /\ Good(known)
  BY <1>2, <1>3, LearnType, GoodOps DEF LearnLastUsed
<1>5. partial \in Pages => Now[partial] = "PartialOpen"
  BY <1>2, <1>3, SmallTypes, FoundFirst
<1> HIDE DEF known
<1>6. CASE Return(Result("FullStorage")) /\ UNCHANGED io
  BY <1>1, <1>6, CopiesReturn DEF Return
<1>7. CASE partial \in Pages /\ StoreOnPage(known, ks, partial)
  BY <1>1, <1>4, <1>5, <1>7, StoreOnPageCopies
<1>8. CASE StoreOnFirst(known, ks, partial)
  <2>1. PICK open: \/ HandleCorruption(known, ks)
                   \/ /\ PartialClosePage(known, open)
                      /\ op' = [op EXCEPT !.level = @ + 1]
    BY <1>8 DEF StoreOnFirst
  <2>2. CASE HandleCorruption(known, ks)
    BY <1>1, <1>2, <2>2, CopiesCorruption
  <2>3. CASE PartialClosePage(known, open) /\ op' = [op EXCEPT !.level = @ + 1]
    <3>1. op'.pc = "store_item" /\ op'.fn = op.fn
      BY <1>1, <1>2, <2>3 DEF OpType
    <3>2. io'.cmd \in {"start", "none"}
      BY <2>3, NoIOType DEF PartialClosePage, PageIO, NoIO
    <3>3. QED  BY <1>1, <1>2, <3>1, <3>2, CopiesQuiet
  <2>4. QED  BY <2>1, <2>2, <2>3
<1>9. QED  BY <1>1, <1>6, <1>7, <1>8

\* The data of the item, and the end of the call.
LEMMA StoreDataCopies ==
  ASSUME CInv, IInv', StoreData \/ StoreFinish
  PROVE  CopyInv'
<1>1. op.pc \in {"data", "finish"} /\ io = NoIO /\ UNCHANGED flash
  BY DEF StoreData, StoreFinish, At
<1>2. flash \in [Pages -> Page] /\ op \in OpType /\ Then = Now /\ op.fn \notin Removals
  BY <1>1, Running, NotRemoving DEF CInv, RInv, Removals
<1>3. CASE StoreData
  <2>1. op.pc = "data" /\ op' = [op EXCEPT !.pc = "finish"]
        /\ io' = (IF Size[op.item] = 0 THEN NoIO ELSE ItemIO("data", op.page, op.addr, op.item))
    BY <1>3 DEF StoreData, WriteData, At
  <2>2. io'.cmd \in {"none", "data"} /\ io' \in IOType
    BY <2>1, NoIOType DEF ItemIO, IInv, TypeOK
  <2>3. op'.pc = "finish" /\ op'.fn = op.fn
    BY <1>2, <2>1 DEF OpType
  <2>4. Settled(Now)
    BY <1>2, <2>1 DEF CInv, CopyInv, RemovalSettled
  <2>5. QED  BY <1>1, <1>2, <2>2, <2>3, <2>4, CopiesSettled
<1>4. CASE StoreFinish
  BY <1>1, <1>4, CopiesReturn DEF StoreFinish, Return
<1>5. QED  BY <1>3, <1>4

\* The next page becomes the one to write to.
LEMMA StoreNextPageCopies ==
  ASSUME CInv, StoreNextPage
  PROVE  CopyInv'
<1> DEFINE known == Learn(cache, {op.page})
<1>1. /\ op.pc = "closed" /\ io = NoIO /\ UNCHANGED flash
      /\ PartialClosePage(known, op.page) /\ op' = [op EXCEPT !.pc = "opened"]
  BY DEF StoreNextPage, At
<1>2. op \in OpType /\ op.fn \notin Removals
  BY <1>1, Running, NotRemoving DEF CInv, RInv, Removals
<1> HIDE DEF known
<1>3. op'.pc = "opened" /\ op'.fn = op.fn
  BY <1>1, <1>2 DEF OpType
<1>4. io'.cmd \in {"start", "none"}
  BY <1>1, NoIOType DEF PartialClosePage, PageIO, NoIO
<1>5. QED  BY <1>1, <1>2, <1>3, <1>4, CopiesQuiet

\* The page after it is a buffer, or is migrated to become one.
LEMMA StoreBufferCopies ==
  ASSUME CInv, StoreBuffer
  PROVE  CopyInv'
<1> DEFINE state == StateOf(cache, NextPage(op.page))
           known == Learn(cache, {NextPage(op.page)})
<1>1. /\ op.pc = "opened" /\ io = NoIO /\ UNCHANGED flash
      /\ \/ HandleCorruption(known, keys)
         \/ /\ \/ op' = [op EXCEPT !.pc = "store_item", !.level = @ + 1, !.page = 0]
               \/ op' = [op EXCEPT !.pc = "migrate", !.addr = 0, !.from = 0]
            /\ io' = NoIO
  BY DEF StoreBuffer, At
<1>2. op \in OpType /\ op.fn \notin Removals
  BY <1>1, Running, NotRemoving DEF CInv, RInv, Removals
<1> HIDE DEF known
<1>3. CASE HandleCorruption(known, keys)
  BY <1>1, <1>2, <1>3, CopiesCorruption
<1>4. CASE op' = [op EXCEPT !.pc = "store_item", !.level = @ + 1, !.page = 0] /\ io' = NoIO
  <2>1. op'.pc = "store_item" /\ op'.fn = op.fn
    BY <1>2, <1>4 DEF OpType
  <2>2. QED  BY <1>1, <1>2, <1>4, <2>1, NoIOType, CopiesQuiet
<1>5. CASE op' = [op EXCEPT !.pc = "migrate", !.addr = 0, !.from = 0] /\ io' = NoIO
  <2>1. op'.pc = "migrate" /\ op'.fn = op.fn /\ op'.from = 0
    BY <1>2, <1>5 DEF OpType
  <2>2. Copied'
    BY <2>1, PassedStart DEF Copied
  <2>3. QED  BY <1>1, <1>2, <1>5, <2>1, <2>2, NoIOType, CopiesQuiet
<1>6. QED  BY <1>1, <1>3, <1>4, <1>5

-----------------------------------------------------------------------------
(* The scan of a migration *)

\* A page on which only blank words were written holds what it held.
LEMMA OwnExtended ==
  ASSUME NEW f \in [Pages -> Page], NEW g \in [Pages -> Page], NEW q \in Pages,
         Extends(g[q].words, f[q].words), NEW k
  PROVE  OwnItems(f, q, k) \subseteq OwnItems(g, q, k)
<1>1. f[q].words \in [Addrs -> Word] /\ g[q].words \in [Addrs -> Word]
  BY DEF Page
<1>2. PresentItems(f[q].words, 0) \subseteq PresentItems(g[q].words, 0)
  BY <1>1, SmallTypes, ItemsExtended
<1>3. PresentItems(f[q].words, 0) \subseteq {a \in Addrs: a >= 0 /\ IsPresent(f[q].words, a)}
  BY <1>1, SmallTypes, PresentItemsType
<1>4. \A a \in PresentItems(f[q].words, 0): KeyAt(g[q].words, a) = KeyAt(f[q].words, a)
  BY <1>1, <1>3, ExtendsPresent
<1>5. QED  BY <1>2, <1>4 DEF OwnItems

\* What the scan has met stays met, when only the page that is copied to is written to.
LEMMA PassedKept ==
  ASSUME NEW f \in [Pages -> Page], NEW g \in [Pages -> Page], NEW p \in Pages,
         \A q \in Pages: q # p => g[q] = f[q], Extends(g[p].words, f[p].words),
         NEW from, NEW to, PassedUpTo(f, p, from),
         LET ws == f[NextPage(p)].words IN
         \A b \in PresentItems(ws, from):
           \/ \E q \in Pages: q # NextPage(p) /\ OwnItems(g, q, KeyAt(ws, b)) # {}
           \/ \E e \in PresentItems(ws, to): KeyAt(ws, e) = KeyAt(ws, b)
  PROVE  PassedUpTo(g, p, to)
<1> DEFINE source == NextPage(p)
           ws == f[source].words
           Met(k) == \E q \in Pages: q # source /\ OwnItems(g, q, k) # {}
<1>1. source \in Pages /\ source # p /\ g[source] = f[source]
  BY NextIs
<1>2. \A q \in Pages: \A k: OwnItems(f, q, k) \subseteq OwnItems(g, q, k)
  <2>1. \A q \in Pages: Extends(g[q].words, f[q].words)
    BY DEF Extends
  <2>2. QED  BY <2>1, OwnExtended
<1> HIDE DEF source
<1>3. \A a \in PresentItems(ws, 0):
        \/ \E q \in Pages: q # source /\ OwnItems(f, q, KeyAt(ws, a)) # {}
        \/ \E b \in PresentItems(ws, from): KeyAt(ws, b) = KeyAt(ws, a)
  BY DEF PassedUpTo, source
<1>4. \A b \in PresentItems(ws, from):
        Met(KeyAt(ws, b)) \/ \E e \in PresentItems(ws, to): KeyAt(ws, e) = KeyAt(ws, b)
  BY DEF source
<1> HIDE DEF ws
<1>5. ASSUME NEW a \in PresentItems(ws, 0)
      PROVE  Met(KeyAt(ws, a)) \/ \E e \in PresentItems(ws, to): KeyAt(ws, e) = KeyAt(ws, a)
  <2>1. CASE \E q \in Pages: q # source /\ OwnItems(f, q, KeyAt(ws, a)) # {}
    BY <1>2, <2>1
  <2>2. CASE \E b \in PresentItems(ws, from): KeyAt(ws, b) = KeyAt(ws, a)
    <3>1. PICK b \in PresentItems(ws, from): KeyAt(ws, b) = KeyAt(ws, a)
      BY <2>2
    <3>2. Met(KeyAt(ws, b)) \/ \E e \in PresentItems(ws, to): KeyAt(ws, e) = KeyAt(ws, b)
      BY <1>4
    <3> HIDE DEF Met
    <3>3. QED  BY <3>1, <3>2
  <2>3. QED  BY <1>3, <2>1, <2>2
<1>6. g[NextPage(p)].words = ws
  BY <1>1 DEF source, ws
<1>7. QED  BY <1>5, <1>6 DEF PassedUpTo, source

\* Of the items from an address on only the first is not behind the first.
LEMMA FirstItem ==
  ASSUME NEW ws \in [Addrs -> Word], NEW from \in 0 .. PageWords, PresentItems(ws, from) # {}
  PROVE  LET a == Min(PresentItems(ws, from)) IN
         /\ a \in PresentItems(ws, from) /\ a \in Addrs /\ IsPresent(ws, a)
         /\ \A b \in PresentItems(ws, from): b = a \/ b \in PresentItems(ws, NextAddr(ws, a))
         /\ PresentItems(ws, a) = {a} \cup PresentItems(ws, NextAddr(ws, a))
<1> DEFINE left == PresentItems(ws, from)
           a == Min(left)
<1>1. left \subseteq {b \in Addrs: b >= from /\ IsPresent(ws, b)} /\ left \in SUBSET Nat
  BY PresentItemsType
<1>2. a \in left /\ \A b \in left: a <= b
  BY <1>1, MinInSet
<1> HIDE DEF a
<1>3. a \in Addrs /\ IsPresent(ws, a)
  BY <1>1, <1>2
<1>4. ASSUME NEW b \in left, b # a PROVE b \in PresentItems(ws, NextAddr(ws, a))
  <2>1. b > a
    <3>1. a \in Nat /\ b \in Nat /\ a <= b
      BY <1>1, <1>2
    <3>2. QED  BY <1>4, <3>1
  <2>2. QED  BY <1>2, <2>1, ItemsAfter
<1>5. PresentItems(ws, a) = {a} \cup PresentItems(ws, NextAddr(ws, a))
  <2>1. ws[a] # Blank
    BY <1>3 DEF IsPresent, IsItem, Blank
  <2>2. QED  BY <1>3, <2>1, PresentItemsIs
<1>6. QED  BY <1>2, <1>3, <1>4, <1>5 DEF a

\* What the search of a key finds during a migration: the original, or an item that makes
\* a copy of this one unnecessary.
LEMMA FoundOriginal ==
  ASSUME flash \in [Pages -> Page], NEW c \in CacheType, Good(c), NEW ks, NEW k \in Keys,
         NEW y \in Pages, OnlyInUse(y), ItemsWithKey(NextPage(y), k) # {}
  PROVE  LET got == Search(c, ks, k)
             source == NextPage(y) IN
         /\ got.status = "Ok" /\ got.page \in Pages
         /\ OwnItems(flash, got.page, k) # {} /\ got.addr = Max(OwnItems(flash, got.page, k))
         /\ got.page = source =>
              \A i: KeyOf[i] = k /\ flash[source].words[got.addr].crc = i => Original(flash, y, i)
<1> DEFINE got == Search(c, ks, k)
           source == NextPage(y)
<1>1. /\ got.status = "Ok" /\ got.page \in Pages
      /\ ItemsWithKey(got.page, k) # {} /\ got.addr = Max(ItemsWithKey(got.page, k))
      /\ \E d \in Pages: /\ got.page = PageBefore(y, d)
                        /\ \A j \in Pages: j < d => ItemsWithKey(PageBefore(y, j), k) = {}
  BY SearchFinds DEF OnlyInUse
<1> HIDE DEF got
<1>2. \A q: OwnItems(flash, q, k) = ItemsWithKey(q, k)
  BY OwnIs
<1>3. ASSUME got.page = source PROVE \A q \in Pages: q # source => ItemsWithKey(q, k) = {}
  <2>1. PICK d \in Pages: /\ got.page = PageBefore(y, d)
                          /\ \A j \in Pages: j < d => ItemsWithKey(PageBefore(y, j), k) = {}
    BY <1>1
  <2>2. d = PageCount - 1
    <3>1. /\ PageCount - 1 \in Pages /\ PageBefore(y, PageCount - 1) = source
          /\ \A i \in Pages: PageBefore(y, i) = PageBefore(y, PageCount - 1) => i = PageCount - 1
      BY BeforeAround
    <3>2. QED  BY <1>3, <2>1, <3>1
  <2>3. SUFFICES ASSUME NEW q \in Pages, q # source PROVE ItemsWithKey(q, k) = {}
    OBVIOUS
  <2>4. PICK j \in Pages: PageBefore(y, j) = q
    BY BeforeAround
  <2>5. j # d
    BY <1>3, <2>1, <2>3, <2>4
  <2>6. j < d
    BY <2>2, <2>5, PageCountAssumption DEF Pages
  <2>7. QED  BY <2>1, <2>4, <2>6
<1>4. ASSUME got.page = source, NEW i, KeyOf[i] = k, flash[source].words[got.addr].crc = i
      PROVE  Original(flash, y, i)
  BY <1>1, <1>2, <1>3, <1>4 DEF Original
<1>5. QED  BY <1>1, <1>2, <1>4 DEF got


\* A step that asks for a word of a copy to be written, or goes on without one.
LEMMA CopiesCopy ==
  ASSUME CInv, io = NoIO, op.pc \notin {"idle", "erase_all"}, UNCHANGED flash,
         NEW p \in Pages, Now[p] = "PartialOpen", io'.cmd \in {"none", "header", "data"},
         io'.cmd # "none" => io'.page = p /\ Original(flash, p, io'.item),
         op'.pc \in {"copy", "migrate"}, op'.fn \notin Removals, Copied'
  PROVE  CopyInv'
<1>1. ~Disturbed
  BY Running DEF CInv, RInv
<1>2. Copies(flash)'
  <2>1. Copies(flash)
    BY <1>1 DEF CInv, CopyInv
  <2>2. QED  BY <2>1
<1>3. \A q \in Pages: Alone(flash, q) => q = p
  BY DEF Alone, Now, Marks
<1>4. CopyPending'
  <2>1. SUFFICES ASSUME NEW q \in Pages, Alone(flash, q)'
                 PROVE  /\ io'.cmd # "zero"
                        /\ io'.cmd \in {"header", "data"} => io'.page = q /\ Original(flash, q, io.item)'
    BY DEF CopyPending
  <2>2. Alone(flash, q)
    BY <2>1
  <2>3. q = p
    BY <1>3, <2>2
  <2>4. QED  BY <2>3
<1>5. QED  BY <1>2, <1>4 DEF CopyInv, RemovalSettled, ErasesOnlyCopies

\* The header of a copy is written where the items of the target page end.
LEMMA HeaderExtends ==
  ASSUME flash \in [Pages -> Page], flash' = flash, io' \in IOType, HasData(io)',
         io'.cmd = "header", NEW p \in Pages, io'.page = p,
         io'.addr = EndOfItems(flash[p].words, 0)
  PROVE  LET g == Completed(io)' IN
         /\ g \in [Pages -> Page] /\ \A q \in Pages: q # p => g[q] = flash[q]
         /\ Extends(g[p].words, flash[p].words) /\ OnWalk(g[p].words, io'.addr)
<1> DEFINE a == io'.addr
           i == io'.item
           ws == flash[p].words
           g == Completed(io)'
<1>1. a \in Addrs /\ i \in Items /\ flash[p] \in Page /\ ws \in [Addrs -> Word]
  BY DEF IOType, HasData, Page
<1>2. g \in [Pages -> Page]
  <2>1. Completed(io') \in [Pages -> Page]
    BY FlashType DEF HasData
  <2>2. QED  BY <2>1 DEF Completed
<1>3. ws[a] = Blank
  <2>1. 0 \in 0 .. PageWords /\ a # PageWords
    BY <1>1, PageWordsAssumption DEF Addrs
  <2>2. QED  BY <1>1, <2>1, EndIsEnd
<1>4. g = [flash EXCEPT ![p] = Applied(@, io')]
  BY DEF Completed
<1>5. g[p].words = [ws EXCEPT ![a] = Header(i)]
  BY <1>1, <1>3, <1>4 DEF Applied, WithWord, Page, Programmed
<1>6. \A q \in Pages: q # p => g[q] = flash[q]
  BY <1>4
<1>7. EndOfItems(ws, 0) = a
  OBVIOUS
<1> HIDE DEF g, ws, a
<1>8. Extends(g[p].words, ws)
  BY <1>1, <1>3, <1>5 DEF Extends
<1>9. [g[p].words EXCEPT ![a] = Blank] = ws
  BY <1>1, <1>3, <1>5
<1>10. OnWalk(g[p].words, a)
  BY <1>7, <1>9 DEF OnWalk
<1>11. QED  BY <1>2, <1>6, <1>8, <1>10 DEF g, ws, a

\* A migration looks at an item. If it is the newest with its key it is copied; if not its
\* key is on another page, or is met again.
LEMMA MigrateItemCopies ==
  ASSUME CInv, IInv', KeySlots = 0, MigrateItem
  PROVE  CopyInv'
<1> DEFINE ws == flash[Source].words
           left == PresentItems(ws, op.from)
           a == Min(left)
           key == KeyAt(ws, a)
           got == FetchWithLocation(UnmarkDirty(cache), keys, key)
           y == op.page
<1>1. /\ op.pc = "migrate" /\ io = NoIO /\ UNCHANGED flash /\ left # {}
      /\ IF got.status # "Ok" THEN HandleCorruption(got.cache, got.keys)
         ELSE IF got.page = Source /\ got.addr = a
         THEN /\ op.addr \in Addrs /\ WriteHeader(got.cache, y, op.addr, ws[a].crc)
              /\ op' = [op EXCEPT !.pc = "copy", !.from = a]
         ELSE /\ op' = [op EXCEPT !.from = NextAddr(ws, a)]
              /\ UNCHANGED io
  BY DEF MigrateItem, At
<1>2. /\ flash \in [Pages -> Page] /\ op \in OpType /\ y \in Pages /\ op.from \in 0 .. PageWords
      /\ cache \in CacheType /\ Good(cache)
      /\ Now \in [Pages -> PageState] /\ Ordered(Now) /\ Planned(op, Now) /\ op.fn \notin Removals
  BY <1>1, Running, NotRemoving DEF CInv, RInv, OpType, Trusted, RefreshedPCs, Removals
<1>3. Source \in Pages /\ Source = NextPage(y) /\ Source # y
  BY <1>2, NextIs DEF Source
<1>4. ws \in [Addrs -> Word]
  BY <1>2, <1>3 DEF Page
<1>5. OnlyInUse(y)
  <2>1. Now[y] = "PartialOpen" /\ Now[Source] = "Closed"
    BY <1>1, <1>2, <1>3 DEF Planned
  <2>2. QED  BY <1>2, <1>3, <2>1, NoBuffer DEF OnlyInUse
<1>6. Completed(io) = flash
  BY <1>1, <1>2, NoIOCompleted
<1>7. PassedUpTo(flash, y, op.from)
  BY <1>1, <1>6 DEF CInv, CopyInv, Copied
<1>8. left \subseteq PresentItems(ws, 0)
  BY <1>1 DEF CInv, RInv, Scanning
<1>9. /\ a \in left /\ a \in Addrs /\ IsPresent(ws, a)
      /\ \A b \in left: b = a \/ b \in PresentItems(ws, NextAddr(ws, a))
      /\ PresentItems(ws, a) = {a} \cup PresentItems(ws, NextAddr(ws, a))
  <2> HIDE DEF ws
  <2>1. QED  BY <1>1, <1>2, <1>4, FirstItem
<1>10. a \in PresentItems(ws, 0) /\ key \in Keys
  <2> HIDE DEF ws, a
  <2>1. QED  BY <1>4, <1>8, <1>9, PresentType
<1>11. /\ got.status = "Ok" /\ got.page \in Pages
       /\ OwnItems(flash, got.page, key) # {} /\ got.addr = Max(OwnItems(flash, got.page, key))
       /\ got.page = Source =>
            \A i: KeyOf[i] = key /\ ws[got.addr].crc = i => Original(flash, y, i)
  <2>1. ItemsWithKey(Source, key) # {}
    BY <1>10 DEF ItemsWithKey
  <2>2. UnmarkDirty(cache) \in CacheType /\ Good(UnmarkDirty(cache))
    BY <1>2, DirtyType, GoodOps
  <2>3. keys \in KeysType
    BY Typed DEF CInv, RInv, OInv
  <2>4. got = Search(UnmarkDirty(cache), keys, key)
    BY <2>3, FetchIsSearch
  <2> HIDE DEF got, key, a
  <2>5. QED  BY <1>2, <1>3, <1>5, <1>10, <2>1, <2>2, <2>4, FoundOriginal
<1>12. key = KeyOf[ws[a].crc]
  BY DEF KeyAt
<1> HIDE DEF got, a, key, left
<1>13. CASE got.page = Source /\ got.addr = a
  <2> DEFINE i == ws[a].crc
             g == Completed(io)'
  <2>1. /\ op.addr \in Addrs /\ WriteHeader(got.cache, y, op.addr, i)
        /\ op' = [op EXCEPT !.pc = "copy", !.from = a]
    BY <1>1, <1>11, <1>13
  <2>2. op'.pc = "copy" /\ op'.page = y /\ op'.addr = op.addr /\ op'.from = a /\ op'.fn = op.fn
    BY <1>2, <2>1 DEF OpType
  <2>3. Original(flash, y, i)
    BY <1>11, <1>12, <1>13
  <2>4. io'.cmd = "header" /\ io'.page = y /\ io'.addr = op.addr /\ io'.item = i
    BY <2>1 DEF WriteHeader, ItemIO
  <2>5. io' \in IOType /\ HasData(io)'
    BY DEF IInv, TypeOK
  <2>6. op.addr = EndOfItems(flash[y].words, 0)
    BY <1>1, <1>6 DEF CInv, WordsInv, Located
  <2>7. /\ g \in [Pages -> Page] /\ \A q \in Pages: q # y => g[q] = flash[q]
        /\ Extends(g[y].words, flash[y].words) /\ OnWalk(g[y].words, op.addr)
    BY <1>1, <1>2, <2>4, <2>5, <2>6, HeaderExtends
  <2> HIDE DEF g
  <2>8. PassedUpTo(g, y, a)
    <3>1. \A b \in left: b \in PresentItems(ws, a)
      BY <1>9
    <3>2. \A b \in PresentItems(flash[NextPage(y)].words, op.from):
            \E e \in PresentItems(flash[NextPage(y)].words, a):
              KeyAt(flash[NextPage(y)].words, e) = KeyAt(flash[NextPage(y)].words, b)
      BY <1>3, <3>1 DEF left, ws
    <3>3. QED  BY <1>2, <1>7, <2>7, <3>2, PassedKept
  <2>9. CopyOf(g, y, a, op.addr)
    <3>1. Original(g, y, i)
      BY <1>2, <2>3, <2>7, OriginalElsewhere
    <3>2. g[NextPage(y)].words[a].crc = i
      BY <1>3, <2>7 DEF ws
    <3>3. QED  BY <2>7, <3>1, <3>2 DEF CopyOf
  <2>10. Copied'
    BY <2>2, <2>8, <2>9 DEF Copied, g
  <2>11. Now[y] = "PartialOpen"
    BY <1>5 DEF OnlyInUse
  <2>12. QED  BY <1>1, <1>2, <2>2, <2>3, <2>4, <2>10, <2>11, CopiesCopy
<1>14. CASE ~(got.page = Source /\ got.addr = a)
  <2> DEFINE to == NextAddr(ws, a)
  <2>1. op' = [op EXCEPT !.from = to] /\ io' = NoIO
    BY <1>1, <1>11, <1>14
  <2>2. op'.pc = "migrate" /\ op'.page = y /\ op'.from = to /\ op'.fn = op.fn
    BY <1>1, <1>2, <2>1 DEF OpType
  <2> HIDE DEF to
  <2>3. \/ \E q \in Pages: q # Source /\ OwnItems(flash, q, key) # {}
        \/ \E e \in PresentItems(ws, to): KeyAt(ws, e) = key
    <3>1. CASE got.page # Source
      BY <1>11, <3>1
    <3>2. CASE got.page = Source
      <4> DEFINE own == OwnItems(flash, Source, key)
                 e == got.addr
      <4>1. own = {b \in PresentItems(ws, 0): KeyAt(ws, b) = key}
        BY DEF OwnItems
      <4>2. own \in SUBSET (0 .. PageWords) /\ PageWords \in Nat
        <5>1. PresentItems(ws, 0) \subseteq {b \in Addrs: b >= 0 /\ IsPresent(ws, b)}
          BY <1>4, SmallTypes, PresentItemsType
        <5>2. Addrs \subseteq 0 .. PageWords /\ PageWords \in Nat
          BY PageWordsAssumption DEF Addrs
        <5>3. QED  BY <4>1, <5>1, <5>2
      <4>3. a \in own
        BY <1>10, <4>1 DEF key
      <4>4. e = Max(own)
        BY <1>11, <3>2
      <4> HIDE DEF own, e
      <4>5. e \in own /\ \A b \in own: b <= e
        BY <4>2, <4>3, <4>4, MaxInSet
      <4>6. e > a
        <5>1. e # a
          BY <1>14, <3>2 DEF e
        <5>2. a \in 0 .. PageWords /\ e \in 0 .. PageWords
          BY <4>2, <4>3, <4>5
        <5>3. a <= e
          BY <4>3, <4>5
        <5> HIDE DEF a
        <5>4. QED  BY <4>2, <5>1, <5>2, <5>3
      <4>7. e \in PresentItems(ws, 0) /\ KeyAt(ws, e) = key
        BY <4>1, <4>5
      <4> HIDE DEF ws
      <4>8. e \in PresentItems(ws, to)
        BY <1>4, <1>10, <4>6, <4>7, SmallTypes, ItemsAfter DEF to
      <4>9. QED  BY <4>7, <4>8
    <3>3. QED  BY <3>1, <3>2
  <2>4. PassedUpTo(flash, y, to)
    <3>1. \A b \in left:
            \/ \E q \in Pages: q # Source /\ OwnItems(flash, q, KeyAt(ws, b)) # {}
            \/ \E e \in PresentItems(ws, to): KeyAt(ws, e) = KeyAt(ws, b)
      <4> SUFFICES ASSUME NEW b \in left
                   PROVE  \/ \E q \in Pages: q # Source /\ OwnItems(flash, q, KeyAt(ws, b)) # {}
                          \/ \E e \in PresentItems(ws, to): KeyAt(ws, e) = KeyAt(ws, b)
        OBVIOUS
      <4>1. CASE b = a
        BY <2>3, <4>1 DEF key
      <4>2. CASE b # a
        BY <1>9, <4>2 DEF to
      <4>3. QED  BY <4>1, <4>2
    <3>2. Extends(flash[y].words, flash[y].words)
      BY DEF Extends
    <3>3. QED  BY <1>2, <1>3, <1>7, <3>1, <3>2, PassedKept DEF left, ws
  <2>5. Completed(io)' = flash
    BY <1>1, <1>2, <2>1, NoIOCompleted
  <2>6. Copied'
    BY <2>2, <2>4, <2>5 DEF Copied
  <2>7. QED  BY <1>1, <1>2, <2>1, <2>2, <2>6, NoIOType, CopiesQuiet
<1>15. QED  BY <1>13, <1>14


\* The data of an item is written behind its header: the item is present, and read.
LEMMA DataCompletes ==
  ASSUME flash \in [Pages -> Page], flash' = flash, NEW p \in Pages, NEW a \in Addrs, NEW i \in Items,
         io' = IF Size[i] = 0 THEN NoIO ELSE ItemIO("data", p, a, i),
         DataReady(flash[p].words, a, i), OnWalk(flash[p].words, a)
  PROVE  LET g == Completed(io)' IN
         /\ g \in [Pages -> Page] /\ \A q \in Pages: q # p => g[q] = flash[q]
         /\ Extends(g[p].words, flash[p].words) /\ a \in OwnItems(g, p, KeyOf[i])
<1> DEFINE ws == flash[p].words
           v == [b \in Addrs |-> IF b \in DataAddrs(a, i) THEN Programmed(ws[b], Body(i)) ELSE ws[b]]
           g == Completed(io)'
<1>1. /\ flash[p] \in Page /\ ws \in [Addrs -> Word] /\ Size[i] \in Nat /\ PageWords \in Nat /\ a \in Nat
      /\ a + 1 + Size[i] <= PageWords
  BY SizeAssumption, PageWordsAssumption DEF Page, Addrs, DataReady, Fits
<1>2. ws[a] = Header(i) /\ \A b \in Addrs: b > a => ws[b] = Blank
  BY <1>1, PageWordsAssumption DEF DataReady, BlankFrom, Addrs
<1>3. \A b \in Addrs: b \in DataAddrs(a, i) <=> a + 1 <= b /\ b <= a + Size[i]
  BY <1>1, PageWordsAssumption DEF DataAddrs, Addrs
<1>4. v = [b \in Addrs |-> IF b \in DataAddrs(a, i) THEN Body(i) ELSE ws[b]]
  BY <1>1, <1>2, <1>3, PageWordsAssumption DEF Programmed, Addrs
<1> HIDE DEF v
<1>5. g \in [Pages -> Page] /\ (\A q \in Pages: q # p => g[q] = flash[q]) /\ g[p].words = v
  <2>1. CASE Size[i] = 0
    <3>1. g = flash
      BY <1>1, <2>1, NoIOCompleted
    <3>2. \A b \in Addrs: b \notin DataAddrs(a, i)
      BY <1>1, <1>3, <2>1, PageWordsAssumption DEF Addrs
    <3>3. v = [b \in Addrs |-> ws[b]]
      BY <1>4, <3>2
    <3>4. v = ws
      BY <1>1, <3>3
    <3>5. QED  BY <3>1, <3>4
  <2>2. CASE Size[i] # 0
    <3>1. io'.cmd = "data" /\ io'.page = p /\ io'.addr = a /\ io'.item = i
      BY <2>2 DEF ItemIO
    <3>2. g = [flash EXCEPT ![p] = WithWords(@, v)]
      BY <1>1, <3>1 DEF Completed, Applied, v
    <3>3. v \in [Addrs -> Word]
      <4>1. Body(i) \in Word
        BY DEF Body, Word
      <4>2. QED  BY <1>1, <1>4, <4>1
    <3>4. g[p] = WithWords(flash[p], v) /\ \A q \in Pages: q # p => g[q] = flash[q]
      BY <3>2
    <3>5. WithWords(flash[p], v) \in Page /\ WithWords(flash[p], v).words = v
      BY <1>1, <3>3 DEF WithWords, Page
    <3>6. QED  BY <3>2, <3>4, <3>5
  <2>3. QED  BY <2>1, <2>2
<1>6. v \in [Addrs -> Word]
  BY <1>5 DEF Page
<1>7. Extends(v, ws)
  <2>1. \A b \in Addrs: b \in DataAddrs(a, i) => ws[b] = Blank
    BY <1>1, <1>2, <1>3, PageWordsAssumption DEF Addrs
  <2>2. QED  BY <1>4, <2>1 DEF Extends
<1>8. v[a] = Header(i)
  BY <1>1, <1>2, <1>3, <1>4
<1>9. IsPresent(v, a)
  <2>1. v[a].kind = "header" /\ v[a].crc = i /\ v[a].len = Size[i]
    BY <1>8 DEF Header
  <2>2. ASSUME NEW k \in 1 .. Size[i] PROVE v[a + k] = Body(i)
    <3>1. a + k \in Addrs /\ a + 1 <= a + k /\ a + k <= a + Size[i]
      BY <1>1, PageWordsAssumption DEF Addrs
    <3>2. QED  BY <1>3, <1>4, <3>1
  <2>3. QED  BY <1>1, <2>1, <2>2 DEF IsPresent, IsItem
<1>10. a \in PresentItems(v, 0)
  BY <1>1, <1>6, <1>7, <1>9, ItemReached
<1>11. KeyAt(v, a) = KeyOf[i]
  BY <1>8 DEF KeyAt, Header
<1>12. a \in OwnItems(g, p, KeyOf[i])
  BY <1>5, <1>10, <1>11 DEF OwnItems
<1>13. QED  BY <1>5, <1>7, <1>12

\* The copy is completed: its key is on another page now, and the scan goes on behind it.
LEMMA MigrateDataCopies ==
  ASSUME CInv, IInv', MigrateData
  PROVE  CopyInv'
<1> DEFINE ws == flash[Source].words
           i == ws[op.from].crc
           to == NextAddr(ws, op.from)
           y == op.page
           g == Completed(io)'
<1>1. /\ op.pc = "copy" /\ io = NoIO /\ UNCHANGED flash
      /\ io' = (IF Size[i] = 0 THEN NoIO ELSE ItemIO("data", y, op.addr, i))
      /\ op' = [op EXCEPT !.pc = "migrate", !.addr = @ + 1 + Size[i], !.from = NextAddr(ws, @)]
  BY SMTT(30) DEF MigrateData, WriteData, At
<1>2. /\ flash \in [Pages -> Page] /\ op \in OpType /\ y \in Pages /\ op.addr \in 0 .. PageWords
      /\ Shape(op) /\ Planned(op, Now) /\ op.fn \notin Removals /\ op.addr <= op.from
  BY <1>1, Running, NotRemoving DEF CInv, RInv, OpType, Removals, Shape
<1>3. Source \in Pages /\ Source = NextPage(y) /\ Source # y
  BY <1>2, NextIs DEF Source
<1>4. ws \in [Addrs -> Word]
  BY <1>2, <1>3 DEF Page
<1>5. op.from \in Addrs /\ IsPresent(ws, op.from)
  BY <1>1 DEF CInv, RInv, OInv, IInv, Copying
<1>6. i \in Items /\ op.addr \in Addrs /\ op.from \in 0 .. PageWords
  <2>1. ws[op.from].kind = "header"
    BY <1>5 DEF IsPresent, IsItem
  <2>2. QED  BY <1>2, <1>4, <1>5, <2>1, PresentType, PageWordsAssumption DEF Addrs
<1>7. Completed(io) = flash
  BY <1>1, <1>2, NoIOCompleted
<1>8. DataReady(flash[y].words, op.addr, i)
  BY <1>1, <1>7 DEF CInv, WordsInv, Located
<1>9. Original(flash, y, i) /\ OnWalk(flash[y].words, op.addr) /\ PassedUpTo(flash, y, op.from)
  BY <1>1, <1>3, <1>7 DEF CInv, CopyInv, Copied, CopyOf
<1>10. Now[y] = "PartialOpen"
  BY <1>1, <1>2 DEF Planned
<1>11. op.from \in PresentItems(ws, 0)
  BY <1>1 DEF CInv, RInv, Scanning
<1>12. PresentItems(ws, op.from) \subseteq {op.from} \cup PresentItems(ws, to)
  <2>1. \A b \in PresentItems(ws, op.from): b = op.from \/ b \in PresentItems(ws, to)
    <3> DEFINE from == op.from
    <3>1. from \in 0 .. PageWords /\ from \in Addrs /\ IsPresent(ws, from)
      BY <1>5, <1>6
    <3> HIDE DEF ws, from
    <3>2. PresentItems(ws, from) = {from} \cup PresentItems(ws, NextAddr(ws, from))
      <4>1. ws[from] # Blank
        BY <3>1 DEF IsPresent, IsItem, Blank
      <4>2. QED  BY <1>4, <3>1, <4>1, PresentItemsIs
    <3>3. QED  BY <3>2 DEF from
  <2>2. QED  BY <2>1
<1> HIDE DEF i
<1>13. /\ g \in [Pages -> Page] /\ \A q \in Pages: q # y => g[q] = flash[q]
       /\ Extends(g[y].words, flash[y].words) /\ op.addr \in OwnItems(g, y, KeyOf[i])
  BY <1>1, <1>2, <1>6, <1>8, <1>9, DataCompletes
<1>14. KeyAt(ws, op.from) = KeyOf[i]
  BY DEF KeyAt, i
<1> HIDE DEF g, ws, to
<1>15. PassedUpTo(g, y, to)
  <2>1. \A b \in PresentItems(ws, op.from):
          \/ \E q \in Pages: q # NextPage(y) /\ OwnItems(g, q, KeyAt(ws, b)) # {}
          \/ \E e \in PresentItems(ws, to): KeyAt(ws, e) = KeyAt(ws, b)
    <3> SUFFICES ASSUME NEW b \in PresentItems(ws, op.from)
                 PROVE  \/ \E q \in Pages: q # NextPage(y) /\ OwnItems(g, q, KeyAt(ws, b)) # {}
                        \/ \E e \in PresentItems(ws, to): KeyAt(ws, e) = KeyAt(ws, b)
      OBVIOUS
    <3>1. CASE b = op.from
      <4>1. OwnItems(g, y, KeyAt(ws, b)) # {} /\ y # NextPage(y)
        BY <1>3, <1>13, <1>14, <3>1
      <4>2. QED  BY <1>2, <4>1
    <3>2. CASE b # op.from
      BY <1>12, <3>2
    <3>3. QED  BY <3>1, <3>2
  <2>2. QED  BY <1>2, <1>3, <1>9, <1>13, <2>1, PassedKept DEF ws
<1>16. op'.pc = "migrate" /\ op'.page = y /\ op'.from = to /\ op'.fn = op.fn
  BY <1>1, <1>2 DEF OpType, to
<1>17. Copied'
  BY <1>15, <1>16 DEF Copied, g
<1>18. io'.cmd \in {"none", "data"} /\ (io'.cmd # "none" => io'.page = y /\ io'.item = i)
  BY <1>1 DEF ItemIO, NoIO
<1>19. QED  BY <1>1, <1>2, <1>9, <1>10, <1>16, <1>17, <1>18, CopiesCopy


\* What is read depends on the flash contents alone.
LEMMA ReadingsKept ==
  ASSUME UNCHANGED flash
  PROVE  Readings' = Readings
BY DEF Readings, IsYoungest, IsClosed, Reaches

\* A page is to be erased that holds nothing but what can be read elsewhere.
LEMMA ErasesCopies ==
  ASSUME UNCHANGED flash, NEW p, io' = PageIO("erase", p),
         NewestOf({r \in Readings: r.page # p}) = NewestOf(Readings)
  PROVE  ErasesOnlyCopies'
<1>1. Readings' = Readings /\ io'.page = p
  BY ReadingsKept DEF PageIO
<1>2. NewestOf({r \in Readings': r.page # io'.page}) = NewestOf(Readings')
  BY <1>1
<1>3. QED  BY <1>2 DEF ErasesOnlyCopies, NewestOf, IsNewer

\* Then the source page is erased: all keys on it are on other pages. The call goes on.
LEMMA MigrateEndCopies ==
  ASSUME CInv, MigrateErase \/ MigrateDone
  PROVE  CopyInv'
<1>1. op.pc \in {"migrate", "migrated"} /\ io = NoIO /\ UNCHANGED flash
  BY DEF MigrateErase, MigrateDone, At
<1>2. /\ flash \in [Pages -> Page] /\ op \in OpType /\ op.page \in Pages /\ op.fn \notin Removals
      /\ Now \in [Pages -> PageState] /\ Ordered(Now) /\ Planned(op, Now)
  BY <1>1, Running, NotRemoving DEF CInv, RInv, OpType, Removals
<1>3. CASE MigrateErase
  <2> DEFINE y == op.page
             ws == flash[Source].words
  <2>1. /\ op.pc = "migrate" /\ PresentItems(ws, op.from) = {} /\ io' = PageIO("erase", Source)
        /\ op' = [op EXCEPT !.pc = "migrated"]
    BY <1>3 DEF MigrateErase, At, OpenPage
  <2>2. Source \in Pages /\ Source = NextPage(y) /\ Source # y
    BY <1>2, NextIs DEF Source
  <2>3. OnlyInUse(y)
    <3>1. Now[y] = "PartialOpen" /\ Now[Source] = "Closed"
      BY <1>2, <2>1, <2>2 DEF Planned
    <3>2. QED  BY <1>2, <2>2, <3>1, NoBuffer DEF OnlyInUse
  <2>4. PassedUpTo(flash, y, op.from)
    <3>1. Completed(io) = flash
      BY <1>1, <1>2, NoIOCompleted
    <3>2. QED  BY <2>1, <3>1 DEF CInv, CopyInv, Copied
  <2>5. \A a \in PresentItems(ws, 0):
          \E q \in Pages: q # NextPage(y) /\ ItemsWithKey(q, KeyAt(ws, a)) # {}
    <3>1. \A a \in PresentItems(ws, 0):
            \E q \in Pages: q # NextPage(y) /\ OwnItems(flash, q, KeyAt(ws, a)) # {}
      BY <2>1, <2>2, <2>4 DEF PassedUpTo
    <3>2. \A q, k: OwnItems(flash, q, k) = ItemsWithKey(q, k)
      BY OwnIs
    <3>3. QED  BY <3>1, <3>2
  <2>6. NewestOf({r \in Readings: r.page # Source}) = NewestOf(Readings)
    BY <1>2, <2>2, <2>3, <2>5, SourceIsCopied
  <2>7. ErasesOnlyCopies'
    BY <1>1, <2>1, <2>6, ErasesCopies
  <2>8. op'.pc = "migrated" /\ op'.fn = op.fn /\ io'.cmd = "erase"
    BY <1>2, <2>1 DEF OpType, PageIO
  <2>9. QED  BY <1>1, <1>2, <2>7, <2>8, CopiesQuiet
<1>4. CASE MigrateDone
  <2>1. /\ io' = NoIO
        /\ IF op.repairing THEN Restart
           ELSE op' = [op EXCEPT !.pc = "store_item", !.level = @ + 1, !.page = 0,
                                 !.addr = 0, !.from = 0]
    BY <1>1, <1>4 DEF MigrateDone
  <2>2. CASE op.repairing
    BY <1>1, <1>2, <2>1, <2>2, CopiesRestart
  <2>3. CASE ~op.repairing
    <3>1. op'.pc = "store_item" /\ op'.fn = op.fn
      BY <1>2, <2>1, <2>3 DEF OpType
    <3>2. QED  BY <1>1, <1>2, <2>1, <3>1, NoIOType, CopiesQuiet
  <2>4. QED  BY <2>2, <2>3
<1>5. QED  BY <1>3, <1>4

-----------------------------------------------------------------------------
(* Repairs *)

\* A half-erased page is erased: nothing on it is read.
LEMMA RepairPageCopies ==
  ASSUME CInv, RepairPage
  PROVE  CopyInv'
<1> DEFINE p == Min(TornPages)
<1>1. /\ op.pc = "repair" /\ io = NoIO /\ UNCHANGED flash /\ TornPages # {}
      /\ io' = PageIO("erase", p) /\ op' = [op EXCEPT !.page = p]
  BY DEF RepairPage, At, OpenPage
<1>2. /\ op \in OpType /\ Good(cache) /\ op.fn \notin Removals
  BY <1>1, Running, NotRemoving DEF CInv, RInv, Trusted, RefreshedPCs, Removals
<1>3. p \in Pages /\ MarkedState(flash[p]) = "Corrupted"
  <2>1. TornPages \in SUBSET Nat
    BY PageCountAssumption DEF TornPages, Pages
  <2>2. p \in TornPages
    BY <1>1, <2>1, MinInSet
  <2>3. p \in Pages /\ StateOf(cache, p) = "Corrupted"
    BY <2>2 DEF TornPages
  <2>4. QED  BY <1>2, <2>3, StateIsMark
<1> HIDE DEF p
<1>4. ErasesOnlyCopies'
  BY <1>1, <1>3, TornIsUnread, ErasesCopies
<1>5. op'.pc = "repair" /\ op'.fn = op.fn /\ io'.cmd = "erase"
  BY <1>1, <1>2 DEF OpType, PageIO
<1>6. QED  BY <1>1, <1>2, <1>4, <1>5, CopiesQuiet

\* An interrupted migration is done again: the page it went to holds nothing but copies.
LEMMA RepairMigrationCopies ==
  ASSUME CInv, RepairMigration
  PROVE  CopyInv'
<1> DEFINE known == Learn(cache, Pages)
           p == FindFirst(known, 0, "PartialOpen")
<1>1. /\ op.pc = "repair" /\ io = NoIO /\ UNCHANGED flash /\ TornPages = {}
      /\ IF p \in Pages /\ StateOf(known, NextPage(p)) # "Open"
         THEN io' = PageIO("erase", p) /\ op' = [op EXCEPT !.pc = "reopen", !.page = p]
         ELSE Restart /\ UNCHANGED io
  BY DEF RepairMigration, At, OpenPage
<1>2. /\ flash \in [Pages -> Page] /\ op \in OpType /\ cache \in CacheType /\ Good(cache) /\ ~Disturbed
      /\ Now \in [Pages -> PageState] /\ Ordered(Now) /\ Planned(op, Now) /\ op.fn \notin Removals
  BY <1>1, Running, NotRemoving DEF CInv, RInv, Trusted, RefreshedPCs, Removals, Disturbed
<1>3. known \in CacheType /\ Good(known)
  BY <1>2, LearnType, GoodOps
<1> HIDE DEF known
<1>4. CASE p \in Pages /\ StateOf(known, NextPage(p)) # "Open"
  <2>1. Now[p] = "PartialOpen"
    BY <1>2, <1>3, <1>4, SmallTypes, FoundFirst
  <2> HIDE DEF p
  <2>2. NextPage(p) \in Pages /\ NextPage(p) # p
    BY <1>4, NextIs
  <2>3. Now[NextPage(p)] # "Open"
    BY <1>3, <1>4, <2>2, StateIsMark DEF Now, Marks
  <2>4. Now[NextPage(p)] # "Corrupted"
    <3>1. StateOf(cache, NextPage(p)) = Now[NextPage(p)]
      BY <1>2, <2>2, StateIsMark DEF Now, Marks
    <3>2. NextPage(p) < op.page => Now[NextPage(p)] # "Corrupted"
      BY <1>1, <1>2, <2>2 DEF Planned
    <3>3. NextPage(p) >= op.page => Now[NextPage(p)] # "Corrupted"
      BY <1>1, <2>2, <3>1 DEF TornPages
    <3>4. QED  BY <1>2, <2>2, <3>2, <3>3, PageCountAssumption DEF Pages, OpType
  <2>5. OnlyInUse(p)
    BY <1>2, <1>4, <2>1, <2>3, <2>4, NoBuffer DEF OnlyInUse
  <2>6. CopiesOnly(flash, p)
    <3>1. Alone(flash, p)
      BY <2>5 DEF OnlyInUse, Alone, Now, Marks
    <3>2. QED  BY <1>2, <1>4, <3>1 DEF CInv, CopyInv, Copies
  <2>7. ErasesOnlyCopies'
    BY <1>1, <1>2, <1>4, <2>5, <2>6, TargetIsCopies, ErasesCopies
  <2>8. op'.pc = "reopen" /\ op'.fn = op.fn /\ io'.cmd = "erase"
    <3>1. io' = PageIO("erase", p) /\ op' = [op EXCEPT !.pc = "reopen", !.page = p]
      BY <1>1, <1>4
    <3>2. QED  BY <1>2, <3>1 DEF OpType, PageIO
  <2>9. QED  BY <1>1, <1>2, <2>7, <2>8, CopiesQuiet
<1>5. CASE ~(p \in Pages /\ StateOf(known, NextPage(p)) # "Open")
  BY <1>1, <1>2, <1>5, CopiesRestart
<1>6. QED  BY <1>4, <1>5

\* The migration starts over with the first item.
LEMMA RepairReopenCopies ==
  ASSUME CInv, RepairReopen
  PROVE  CopyInv'
<1>1. /\ op.pc = "reopen" /\ io = NoIO /\ UNCHANGED flash
      /\ PartialClosePage(cache, op.page) /\ op' = [op EXCEPT !.pc = "migrate", !.addr = 0, !.from = 0]
  BY DEF RepairReopen, At
<1>2. op \in OpType /\ op.fn \notin Removals
  BY <1>1, Running, NotRemoving DEF CInv, RInv, Removals
<1>3. op'.pc = "migrate" /\ op'.fn = op.fn /\ op'.from = 0
  BY <1>1, <1>2 DEF OpType
<1>4. Copied'
  BY <1>3, PassedStart DEF Copied
<1>5. io'.cmd \in {"start", "none"}
  BY <1>1, NoIOType DEF PartialClosePage, PageIO, NoIO
<1>6. QED  BY <1>1, <1>2, <1>3, <1>4, <1>5, CopiesQuiet


-----------------------------------------------------------------------------
(* Removals and iterations *)

\* A removal begins, on settled pages, none of which is half-erased.
LEMMA RemoveStartCopies ==
  ASSUME CInv, RemoveStart
  PROVE  CopyInv'
<1> DEFINE all == op.fn = "remove_all_items"
           c == IF all THEN FreshCache ELSE MarkDirty(cache)
           partial == FindFirst(c, 0, "PartialOpen")
<1>1. /\ op.pc \in Removals /\ io = NoIO /\ UNCHANGED flash
      /\ partial # CorruptedPage =>
           UNCHANGED io /\ \E p: op' = [op EXCEPT !.pc = "removing", !.page = p]
  BY DEF RemoveStart, At, Removals
<1>2. /\ flash \in [Pages -> Page] /\ op \in OpType /\ cache \in CacheType /\ Shape(op)
      /\ Now \in [Pages -> PageState] /\ Ordered(Now) /\ Then = Now
      /\ op.pc = "remove_item" => Good(cache)
  BY <1>1, Running DEF CInv, RInv, Trusted, RefreshedPCs, Removals
<1>3. op.fn = op.pc
  BY <1>1, <1>2 DEF Shape, Functions, Removals
<1>4. Settled(Now)
  BY <1>1, <1>2, <1>3 DEF CInv, CopyInv, RemovalSettled
<1>5. Good(c)
  <2>1. CASE all
    BY <2>1, FreshSound
  <2>2. CASE ~all
    BY <1>1, <1>2, <1>3, <2>2, NoticeGood DEF Removals
  <2>3. QED  BY <2>1, <2>2
<1>6. partial # CorruptedPage
  <2>1. partial = CorruptedPage => \E p \in Pages: Now[p] = "Corrupted"
    BY <1>2, <1>5, SmallTypes, FoundFirst
  <2> HIDE DEF partial
  <2>2. QED  BY <1>2, <1>4, <2>1, SettledWhole
<1> HIDE DEF partial, c
<1>7. op'.pc = "removing" /\ op'.fn = op.fn /\ io' = NoIO
  BY <1>1, <1>2, <1>6 DEF OpType
<1>8. io' \in IOType /\ io'.cmd = "none" /\ op.pc \notin {"idle", "erase_all"}
  BY <1>1, <1>7, NoIOType DEF Removals
<1>9. QED  BY <1>1, <1>4, <1>7, <1>8, CopiesSettled

\* An item is erased, or the removal ends. It meets no half-erased page.
LEMMA RemoveNextCopies ==
  ASSUME CInv, IInv', RemoveNext
  PROVE  CopyInv'
<1> DEFINE state(j) == StateOf(cache, PageFrom(op.page, j))
           stops == {j \in op.level .. PageCount - 1:
                       state(j) = "Corrupted" \/ (state(j) # "Open" /\ ToRemove(j) # {})}
           i == Min(stops)
           known == Learn(cache, {PageFrom(op.page, j): j \in op.level .. i})
           Corrupts == stops # {} /\ state(i) = "Corrupted"
           Erases == \E p, a, n: /\ EraseItem(known, p, a)
                                 /\ op' = [op EXCEPT !.level = i, !.from = n]
<1>1. op.pc = "removing" /\ io = NoIO /\ UNCHANGED flash
  BY DEF RemoveNext, At
<1>2. /\ flash \in [Pages -> Page] /\ op \in OpType /\ op.page \in Pages /\ op.level \in 0 .. PageCount
      /\ Good(cache) /\ Now \in [Pages -> PageState] /\ Ordered(Now) /\ Then = Now
  BY <1>1, Running DEF CInv, RInv, OpType, Trusted, RefreshedPCs
<1>3. Settled(Now)
  BY <1>1, <1>2 DEF CInv, CopyInv, RemovalSettled
<1>4. (Return(Result("Ok")) /\ io' = io) \/ Corrupts \/ Erases
  BY Zenon DEF RemoveNext
<1>5. CASE Return(Result("Ok")) /\ io' = io
  BY <1>1, <1>5, CopiesReturn DEF Return
<1>6. CASE Corrupts
  <2>1. stops \in SUBSET Nat
    BY <1>2, PageCountAssumption
  <2>2. i \in stops
    BY <1>6, <2>1, MinInSet
  <2>3. i \in Pages
    BY <1>2, <2>2, PageCountAssumption DEF Pages
  <2>4. PageFrom(op.page, i) \in Pages
    <3> HIDE DEF i
    <3>1. QED  BY <1>2, <2>3, Around
  <2>5. Now[PageFrom(op.page, i)] = "Corrupted"
    BY <1>2, <1>6, <2>4, StateIsMark DEF Now, Marks
  <2> HIDE DEF Corrupts, i
  <2>6. QED  BY <1>2, <1>3, <2>4, <2>5, SettledWhole
<1>7. CASE Erases
  <2> HIDE DEF known, i
  <2>1. op'.pc = "removing" /\ op'.fn = op.fn
    BY <1>1, <1>2, <1>7 DEF OpType
  <2>2. io'.cmd = "zero" /\ io' \in IOType
    BY <1>7 DEF EraseItem, ItemIO, IInv, TypeOK
  <2>3. QED  BY <1>1, <1>3, <2>1, <2>2, CopiesSettled
<1>8. QED  BY <1>4, <1>5, <1>6, <1>7

\* An iterator is made, or not.
LEMMA IterStartCopies ==
  ASSUME CInv, IterStart
  PROVE  CopyInv'
<1>1. /\ op.pc = "fetch_all_items" /\ io = NoIO /\ UNCHANGED flash
      /\ \/ \E c, ks: HandleCorruption(c, ks)
         \/ op' = Idle /\ io' = io
  BY DEF IterStart, At, Return
<1>2. op.fn \notin Removals
  BY <1>1, NotRemoving DEF Removals
<1>3. CASE \E c, ks: HandleCorruption(c, ks)
  BY <1>1, <1>2, <1>3, CopiesCorruption
<1>4. CASE op' = Idle /\ io' = io
  BY <1>1, <1>4, CopiesReturn
<1>5. QED  BY <1>1, <1>3, <1>4

-----------------------------------------------------------------------------
\* Every step keeps the invariant, when the user is careful and there are no key pointers.
LEMMA StepCopies ==
  CarefulCalls /\ CarefulRemoves /\ KeySlots = 0 /\ CInv /\ [Next]_vars => CInv'
<1> SUFFICES ASSUME CarefulCalls, CarefulRemoves, KeySlots = 0, CInv, [Next]_vars PROVE CInv'
  OBVIOUS
<1>1. RInv' /\ WordsInv' /\ IInv'
  <2>1. RInv /\ OInv /\ WordsInv
    BY DEF CInv, RInv
  <2>2. RInv' /\ WordsInv'
    BY <2>1, StepMends, StepWords
  <2>3. QED  BY <2>2 DEF RInv, OInv
<1> SUFFICES CopyInv'
  BY <1>1 DEF CInv
<1>2. CASE UNCHANGED vars
  <2>1. UNCHANGED <<flash, io, op>> /\ Readings' = Readings
    BY <1>2, ReadingsKept DEF vars
  <2>2. CopyInv
    BY DEF CInv
  <2>3. (~Disturbed => Copies(flash))' /\ CopyPending'
    BY <1>2, <2>1, <2>2 DEF vars, CopyInv, CopyPending, Disturbed, Usable
  <2>4. RemovalSettled' /\ Copied'
    BY <2>1, <2>2 DEF CopyInv, RemovalSettled, Copied, Then, Marks, Completed
  <2>5. ErasesOnlyCopies'
    BY <2>1, <2>2 DEF CopyInv, ErasesOnlyCopies, NewestOf, IsNewer
  <2>6. QED  BY <2>3, <2>4, <2>5 DEF CopyInv
<1>3. CASE UserCall
  BY <1>3, CallCopies, CallEraseAllCopies, NextItemCopies DEF UserCall
<1>4. CASE Step
  <2>1. CASE FlashDone /\ UNCHANGED <<keys, op, iter, ret, faults>>
    BY <2>1, FlashDoneCopies
  <2>2. CASE FetchItem \/ StoreRound \/ StoreData \/ StoreFinish \/ StoreNextPage \/ StoreBuffer
    BY <1>1, <2>2, FetchItemCopies, StoreRoundCopies, StoreDataCopies, StoreNextPageCopies,
       StoreBufferCopies
  <2>3. CASE MigrateItem \/ MigrateData \/ MigrateErase \/ MigrateDone
    BY <1>1, <2>3, MigrateItemCopies, MigrateDataCopies, MigrateEndCopies
  <2>4. CASE RepairPage \/ RepairMigration \/ RepairReopen
    BY <2>4, RepairPageCopies, RepairMigrationCopies, RepairReopenCopies
  <2>5. CASE RemoveStart \/ RemoveNext \/ IterStart \/ EraseAllFinish
    BY <1>1, <2>5, RemoveStartCopies, RemoveNextCopies, IterStartCopies, EraseAllFinishCopies
  <2>6. QED  BY <1>4, <2>1, <2>2, <2>3, <2>4, <2>5 DEF Step
<1>5. CASE Fail \/ PowerLoss
  BY <1>5, FaultCopies
<1>6. QED  BY <1>2, <1>3, <1>4, <1>5 DEF Next

\* No erase takes away a value: whenever a page is about to be erased, a reader of flash would
\* find the newest item of every key without it. So it is for any number of pages, any items,
\* any cache of page states and any sequence of calls, failures and power losses, as long as
\* items are removed only when no migration is due, and there are no key pointers.
THEOREM MapErasesOnlyCopies ==
  ASSUME CarefulCalls, CarefulRemoves, KeySlots = 0
  PROVE  Spec => []ErasesOnlyCopies
<1>1. Init => CInv
  BY InitMends, InitWords, InitCopies, InitOrder DEF CInv
<1>2. CInv /\ [Next]_vars => CInv'
  BY StepCopies
<1>3. CInv => ErasesOnlyCopies
  BY DEF CInv, CopyInv
<1>4. QED  BY <1>1, <1>2, <1>3, PTL DEF Spec
=============================================================================
