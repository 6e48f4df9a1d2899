--------------------------- MODULE MapRefinement ---------------------------
(***************************************************************************)
(* The map kept in flash implements a table: the refinement mapping reads  *)
(* the newest item of each key off the flash contents alone, without the   *)
(* cache.                                                                  *)
(***************************************************************************)
EXTENDS MapStorage

IsClosed(p) == MarkedState(flash[p]) = "Closed"

\* The page a reader starts from: the partially open page, or the last closed one.
IsYoungest(p) ==
  \/ MarkedState(flash[p]) = "PartialOpen"
  \/ IsClosed(p) /\ ~IsClosed(NextPage(p)) /\ \A q \in Pages: MarkedState(flash[q]) # "PartialOpen"

\* The n-th page before page y is reached from there over closed pages.
Reaches(y, n) == \A i \in 1 .. n: IsClosed(PageBefore(y, i))

\* What a reader of flash comes across, and where: how many pages back, and at which
\* address of the page.
Readings ==
  UNION {{[age |-> r[2], addr |-> a, page |-> PageBefore(r[1], r[2]),
           item |-> flash[PageBefore(r[1], r[2])].words[a].crc]:
              a \in PresentItems(flash[PageBefore(r[1], r[2])].words, 0)}:
         r \in {q \in {p \in Pages: IsYoungest(p)} \X Pages: Reaches(q[1], q[2])}}

IsNewer(r, s) == r.age < s.age \/ (r.age = s.age /\ r.addr > s.addr)

\* The newest item of each key among some readings.
NewestOf(readings) ==
  [k \in Keys |->
     LET own == {r \in readings: KeyOf[r.item] = k}
     IN  IF own = {} THEN NoItem
         ELSE (CHOOSE r \in own: \A s \in own \ {r}: IsNewer(r, s)).item]

\* (The readings are bound to a variable so that TLC computes them once.)
Table == CHOOSE t \in {NewestOf(readings): readings \in {Readings}}: TRUE

\* A page is only erased when what it holds can be read elsewhere: the source of a
\* migration, the target of one that was interrupted, a half-erased page.
ErasesOnlyCopies ==
  io.cmd = "erase" =>
    \E readings \in {Readings}:
      NewestOf({r \in readings: r.page # io.page}) = NewestOf(readings)

\* A cached key location is where the newest item of the key is, whenever no call is
\* running and the cache is not dirty: migrations move items and removals take them away.
CachedKeys ==
  op = Idle /\ ~cache.dirty =>
    \E readings \in {Readings}:
      \A i \in DOMAIN keys:
        \E r \in readings:
          /\ r.page = keys[i].page /\ r.addr = keys[i].addr /\ KeyOf[r.item] = keys[i].key
          /\ \A s \in readings \ {r}: KeyOf[s.item] = KeyOf[r.item] => IsNewer(r, s)

\* Every word written on page p belongs to an intact item, and each of these is the only
\* one of its key, here and on any other page: a migration of p would free nothing.
NothingToFree(p) ==
  LET ws == flash[p].words
      items == PresentItems(ws, 0)
  IN
  /\ \A a \in Addrs: ws[a] # Blank => \E i \in items: a \in i .. i + ws[i].len
  /\ \A i \in items, q \in Pages:
       ItemsWithKey(q, KeyAt(ws, i)) \subseteq (IF q = p THEN {i} ELSE {})

\* A store is refused for lack of space only when the migrations have freed all there
\* was: but for the buffer every page is in use, without room for the item, and holds
\* no superseded item, no removed one and nothing broken.
RefusedOnlyWhenFull ==
  [][op.fn = "store_item" /\ ret'.status = "FullStorage" /\ op' = Idle =>
       \E buffer \in Pages:
         /\ MarkedState(flash[buffer]) = "Open"
         /\ \A p \in Pages \ {buffer}:
              /\ MarkedState(flash[p]) \in {"Closed", "PartialOpen"}
              /\ ~Fits(EndOfItems(flash[p].words, 0), Size[op.item])
              /\ NothingToFree(p)]_vars

\* Doc of remove_item: "Fully remove an item. Additional calls to fetch with the same
\* key will return None until a new one is stored again."
RemovedIsGone ==
  [][op.fn = "remove_item" /\ op' = Idle /\ ret'.status = "Ok" =>
       Table'[op.key] = NoItem]_vars

T == INSTANCE KeyValue WITH
  table <- Table, live <- iter.live, seen <- iter.seen,
  call <- [fn |-> op.fn, item |-> op.item, key |-> op.key], result <- ret

\* Every call of the map is a call of the table: store_item replaces the value of its
\* key and of no other, fetch_item returns the value stored last, remove_item and
\* remove_all_items remove for good, migrations and repairs change nothing, a call cut
\* short by an error, a cancellation or power loss has happened or not, and what an
\* iteration returns last for each key is its value.
RefinesKeyValue == T!Spec
=============================================================================
