# sequential-storage in TLA+

`sequential-storage` keeps a map or a FIFO queue in the NOR flash of a
microcontroller. Nothing but flash survives a power loss, a flash word can be
programmed once between two erases (an item header twice), and every flash
operation is an await point at which the caller may lose power, drop the future or
get an error. This directory holds TLA+ models of the library, TLC runs that check
them on small instances, and theorems checked by TLAPS.

Files are named relative to the repository: `src/queue/mod.rs` and so on.

## 1. The system

| component | code | state | operations |
|---|---|---|---|
| GenericStorage | `src/lib.rs` | flash contents, cache | `get_page_state`, `find_first_page`, `open_page`, `close_page`, `partial_close_page`, `try_general_repair`, `run_with_auto_repair!`, `erase_all` |
| items | `src/item.rs` | words of a page | `read_new`, `read_item`, `traverse`, `write_new`, `erase_data`, `find_next_free_item_spot`, `is_page_empty` |
| cache | `src/cache/` | dirty flag, page states, two pointers per page | `notice_*`, `is_dirty`, `invalidate_cache_state` |
| QueueStorage | `src/queue/mod.rs` | none beyond GenericStorage | `push`, `peek`, `pop`, `iter`, `find_max_fit`, `space_left`, `erase_all` |
| QueueIterator, its entries | `src/queue/mod.rs` | next address, what was popped so far, oldest page | `next`, `QueueIteratorEntry::pop` |
| RamRing, BufferedQueue, SharedRamRing | `src/queue/buffered.rs` | byte ring, signal | `enqueue`, `drain_one`, `drain_all`, `wait_and_drain_all`, `pop`, `peek` |
| MapStorage | `src/map.rs` | none beyond GenericStorage | `store_item`, `fetch_item`, `remove_item`, `remove_all_items`, `erase_all`, `migrate_items`, `try_repair` |
| MapItemIter | `src/map.rs` | first page, page and address it has come to | `fetch_all_items`, `next` |
| key pointer cache | `src/cache/key_pointers.rs` | a list of slots, a key and a location each | `key_location`, `notice_key_location`, `notice_key_erased` |
| key and value traits | `src/map.rs`, `src/*_impl.rs` | none | serialization |
| flash device | `src/mock_flash.rs` (test double) | bytes, shutoff counter | `read`, `write`, `erase` |

How they interact. The queue and the map own a `GenericStorage` and call it
directly; there are no threads inside the library. Every public function takes
`&mut self`, so two calls on a storage never overlap, and a live `QueueIterator`
or `MapItemIter` excludes every other call on its storage. What interleaves with a call is failure: a
call ends at any flash operation with that operation done, not done or half done.
After an error or a dropped future the storage object is used again with the cache
it has; after a power loss with a new one. The one place with real concurrency is
`SharedRamRing`, whose `enqueue` may run in an interrupt handler between any two
steps of a drain.

What makes each component correct:

* *pages*: the page markers always encode one run of closed pages, then the page
  being written, then erased pages; a half-erased page is recognised and repaired.
* *items*: an item is readable only if header and data were written completely; no
  word in use is programmed.
* *cache*: a cache that is not dirty agrees with flash.
* *queue*: it is a FIFO, and a call that is cut short has happened or not.
* *iterator*: it visits the items in order, and gives back only space whose items
  were all popped.
* *buffered queue*: an item leaves the ring only into flash or by eviction, in order.
* *map*: the last value stored is the value fetched, through migrations, removals
  and interruptions; a store is refused only when nothing more can be freed.
* *migration and its repair*: a page is erased only when what it holds can be read
  elsewhere.
* *key pointers*: a location that is cached is that of the newest item of its key.

The hazards behind these, each at its line, are the `hazards` of `PROJECT.json`.

## 2. The modules

| module | stands for |
|---|---|
| `GenericStorage` | pages, items, cache and flash device; a library of operators and conjuncts of actions |
| `QueueStorage` | the queue and its iterator: one action per stretch of code between two flash operations; properties |
| `Fifo` | the abstract specification: what the queue promises its user |
| `QueueRefinement` | the refinement mapping from `QueueStorage` to `Fifo` |
| `MapStorage` | the map and its iterator, in the same way, with migration and repair |
| `KeyPointers` | the key pointer cache: operators on the list of its slots |
| `KeyValue` | the abstract specification of the map: a table |
| `MapRefinement` | the refinement mapping from `MapStorage` to `KeyValue`, and the properties that speak of the newest item of a key |
| `RamRing` | the RAM ring, byte by byte |
| `BoundedRing`, `BoundedFifo` | what it promises: operators on sequences of items, and the abstract specification |
| `RingDrain` | what `BufferedQueue` and `SharedRamRing` share: ring, flash queue, and a task that moves items from one to the other |
| `BufferedQueue` | one owner that enqueues and drains |
| `SharedRamRing` | producers in interrupts, the signal, the drain task |
| `MCQueue`, `MCMap`, `MCRing`, `MCBuffered`, `MCShared` | constants for TLC |
| `GenericProofs` | lemmas about `GenericStorage` that the next two share: pages on a circle, page searches, types, what a flash operation, completed or cut short, does to the markers and to the words, the walks over the items of a page, and what the cache knows of markers and words |
| `QueueProofs` | the queue is type correct, the cached page states and pointers are those of flash, the pages stay in order, one repair is enough, only erased words are written, a push is refused only by a queue that holds an item, for all constants |
| `MapProofs` | the map is type correct, the cached page states are those of flash, the pages stay in order, one repair is enough, writes find erased words, no erase takes away a value, for all constants |
| `RingProofs` | types and books of the byte ring, and that it implements `BoundedFifo`, for all constants |
| `DrainProofs` | lemmas about `RingDrain`: its inductive invariants (accounting, order, types) and the steps that keep them |
| `BufferedProofs`, `SharedProofs` | types and order of the buffered queue, that nothing and no wakeup is lost, what `None` means, for all constants |
| `MinLemma` | the least element of a set of naturals, induction up to a number, iterations, sums, positions on a ring |

### Data

Flash is a function from pages to `[start, end, words]`. `start` and `end` say
whether a marker counts as programmed (the code accepts half of the bits of a byte,
so a marker write that is cut short has been seen or not). `words` are the data
words: blank, an item header, a data word of an item, or junk. The header is one
word: `WORD_SIZE >= 8`, where the 8 bytes of a header round up to one. Smaller words
make a header several writes long, all of them inside the same `flash.write`.
Lengths count words; `Size` is the data length rounded up to words, as the code
rounds it. Addresses are offsets in the data area of a page. A CRC is the identity
of the item it was computed for: `NoItem` is the zeroed CRC of an erased item and
`BadItem` one that matches no data. CRC collisions are thereby excluded.

The cache is one record for the three kinds. `NoCache` has no dirt tracker,
`PageStateCache` no pointers. An erased and a written pointer per page are addresses
or `NoAddr`.

### Control

`op` is the running call: its function, the point it has reached, its locals, and
whether the repair has been tried (`run_with_auto_repair!` retries once). `io` is the
write or erase that has been issued. A step of the code runs from one flash write or
erase to the next; it reads what it needs, tells the cache, and issues the next
operation. `FlashDone` completes the operation. Reads do not change anything, nobody
else writes between a read and the step it belongs to, and so they are part of the
step. The correspondence, action by action, is the `map` of `PROJECT.json`.

Two flash writes of the code are one here: the data of an item up to its last full
word, and the padded rest (`item.rs:294-331`). An interruption between them is one
of the outcomes of the combined write. `close_page` writes the start marker of a page
that is open first; both of its callers in the queue call it on a page whose start
marker is written (`push_inner` has just called `partial_close_page` on it), so only
the end marker is modelled.

`peek` and `pop` of the queue are `iter`, `next` and `QueueIteratorEntry::pop` in a
row, and so are among the behaviours of these actions. The buffer given to `next` is
large enough for every item, as its doc requires. A `QueueIterator` borrows the
queue: while `iter.live`, no other call starts.

### Faults

`Fail`: the pending flash operation, if any, is cut short, and the call is over. This
is an error of the driver, and also a future dropped at its await point. Storage,
cache and iterator stay. `PowerLoss`: the same, but the next call finds a new cache
and no iterator; it may also happen between two calls. What an operation that is cut
short leaves (`Torn`) follows `mock_flash.rs`: writes and erases proceed from low to
high addresses and may stop after any byte. Of a header word that is the old word,
junk (the length CRC, which comes last, does not match), or the new word; of an
overwrite with a zeroed CRC it is the old header, one with a CRC that matches nothing,
or the erased item; of an erase it is a page without its start marker, blank up to
some word, that word itself possibly garbled.

An `erase_all` that failed has to be called again before anything else (`Usable`):
with a driver that erases upwards, half an `erase_all` drops the pages with the low
numbers, which need not be the oldest items.

### The abstract queue

`Fifo` has a sequence of items, an iterator with a cursor, and calls that begin, take
effect at most once, and end. Cut-short calls have taken effect or not. Two
behaviours deserve a note. `MakeRoom`: a push with `allow_overwrite_old_data` may drop
any number of the oldest items, also when it then fails. `CleanUp`: an iterator erases
the page it leaves when everything on it was popped; if one of those pops *failed*, the
item, which is still in flash, goes with the page. `Fifo` therefore lets the iterator
drop items of the prefix whose pop was *asked* for, and no other.

`BoundedFifo` is the other abstract specification: items, bounded by the bytes they
cost, appended, evicted and read in order.

The mapping in `QueueRefinement` computes the queue from flash alone: the readable
items from the oldest closed page on. A page whose erase was interrupted contributes
nothing. Neither the cache nor the program counter enters, except for `done`.

### The map

An item is a key with a value: `KeyOf` is what `Key::deserialize_from` finds in it.
`op` and `io` are as in the queue; besides, `op.level` counts the rounds of
`store_item_inner`, or the pages a removal has passed, and `op.from` is where the scan
of a page has come to. `op.repairing` tells a migration that try_repair does from one
that a store does: they continue differently.

`FetchWithLocation` is an operator, since `fetch_item` and `migrate_items` both call
it and it writes nothing: it yields what it found and the cache it leaves. The search
visits the last used page and, while they are closed, the pages before it; a location
from the key pointers is taken without a look at the key that is stored there, as in
the code, and where nothing readable is found the cache is dropped and the search
done (the assertions there are compiled for the tests only). `StoreRound` is one turn
of the loop up to its first flash operation; closing the full page, marking the
buffer page and emptying the page behind it are steps of their own, and so are the
header and the data of each item a migration copies. After a store has closed a page,
`StoreNextPage` requires the buffer page to be open, as it was found to be before the
close; the code has an error there that is out of reach, and a state in which it were
not would show up as a deadlock and in `CallsReturn`.

`KeyPointers` keeps the slots in use as a sequence: `notice_key_location` moves the
key to the front, `notice_key_erased` moves its empty slot to the back, so the slots
without a key are always the last ones.

A `MapItemIter` reads only, so `next` is one step. `iter.seen` is not in the code: it
is the table that the doc of `fetch_all_items` builds from what it returns
("for the same key there might be multiple items returned, the last one is the current
active one"). After `None` the iterator is given up.

`KeyValue` has a table, and calls that take effect between their start and their
return. A removal of all items may be seen key by key. A call cut short has happened or
not; only an `erase_all` that failed leaves the table in disorder, and has to be called
again (`Usable`). `Table` in `MapRefinement` reads flash as `fetch_item` does, without
the cache, the program counter or the call. Where `PageOrder` holds, that is what the
next `fetch_item` will return.

`CarefulRemoves`: in the runs that are expected to pass, a removal is called only when
no store or migration was left unfinished between two pages (`PagesSettled`) and, for
`remove_item`, the cache is not dirty. A caller gets there by any `store_item` that
returns `Ok`. Without the condition the refinement fails in the three ways that
section 3 describes.

### The buffered queue

`RamRing` has the buffer, the two positions and the two counters of the code, and its
operations with their early returns. It refines `BoundedFifo`, whose state is the
sequence of items found by following the length prefixes. With that established,
`RingDrain` uses the sequence. `ByteBase` is the number of values of a byte.

The flash queue is a sequence too. A push that returns `Ok` appends; if it may
overwrite, it first drops any number of the oldest items (`Drops`: pages are erased
whole). It is refused with `FullStorage` when it may not overwrite. `FlashMin` and
`FlashMax` bound how many items a full queue holds: below the first nothing is refused
or dropped, above the second nothing fits, and in between both may happen, as it
depends on sizes. A push cut short may leave any of these queues. That is `Fifo` as
seen by a caller that awaits the result. An item longer than `FlashLen` is refused with
`ItemTooBig` and stays at the head of the ring.

`task` is the running call of the task. `Front`, the push, and `Discard` are steps of
their own: in `SharedRamRing` the ring is locked for the first and the last, and the push
is awaited in between without the lock. In `BufferedQueue` the caller holds `&mut self`
throughout, so an enqueue finds the task idle. `pop` of `BufferedQueue` asks the flash,
then the ring; `pop` of `SharedRamRing` drains the ring, then asks the flash.
`embassy_sync::signal::Signal` is a flag that `signal` sets and `wait` takes; an enqueue
sets it after it has released the ring (`EnqueueSignal`).

`Fail` ends the call with an error of the driver, or by dropping the future, at an
await: the push and the pop of the flash queue, and `wait`. `PowerLoss` takes the ring
and the signal with it. Ghost variables: items are numbered when they are accepted, so
that equal ones are told apart; `gone` has the numbers of the items that left for a
documented reason (popped, evicted, overwritten because the caller allowed it, lost with
the RAM), `popped` the items popped, `owed` says that the task took the signal and has
not found the ring empty since.

## 3. The runs

The runs of `MCQueue` and `MCMap`. Items of the queue have one data word or none
(`small`, `empty`); `huge` fits no page. The map has two keys, one of them with two
values, of one data word each; `b2` fits no page. `none`, `state` and `pointer` are the
cache kinds; `F` is `MaxFaults`, the number of failed calls and power losses in a
behaviour, the only counter that is bounded. Everything else is finite as it stands.

| run | pages x words, cache, F | shows |
|---|---|---|
| `QueueFaults` | 3x2, none, 1 | `TypeOK`; the page order survives every interruption; refinement of `Fifo`; `erase_all` may be called, cut short and repeated. What `find_max_fit` and `space_left` say is borne out by the next push; before the fault, a push is refused only while an item is left |
| `QueueCached` | 2x2, pointer, 2 | a clean cache agrees with flash, page states and pointers; only blank words are programmed; no call returns `Corrupted`; refinement, with the second fault free to hit the recovery from the first; under fairness every call returns |
| `MapFaults` | 3x2, none, 2 | all functions: refinement of `KeyValue`, page order, no call but `fetch_all_items` returns `Corrupted`; pages are erased only when their items can be read elsewhere; `FullStorage` only when no page has room and nothing superseded, removed or broken is left; under fairness every call returns |
| `MapCached` | 2x4, pointer and 1 key slot, 2 | a clean cache agrees with flash: page states, pointers, key locations; only blank words are programmed; refinement of `KeyValue`; `FullStorage` as in `MapFaults`; all functions but `erase_all` |

The runs of the buffered queue:

| run | constants | shows |
|---|---|---|
| `Ring` | 7 bytes, all items of up to 3 binary bytes, one too long | the ring is a bounded FIFO and its counters match its contents |
| `Buffered` | ring of 6 bytes, 4 items of 1, 3 or 4 bytes of which the flash takes those of up to 3, both policies, 2 faults | nothing is lost or reordered; `None` is said of an empty queue only |
| `SharedErr` | the same with 2 producers, policy `Err`, buffers of 1 and 4 bytes, 1 fault | nothing is lost or reordered; what is in the ring has been announced |
| `SharedLive` | items of 1 or 4 bytes, 2 producers, both policies, the task loops over `wait_and_drain_all` | the order survives evictions; under fairness every item leaves the ring |

Why the bounds are enough. In the queue, with two words a page holds one item with data, or two
without, or one without and a word that is too small for the next: full pages, pages
with a rest, and an item that ends exactly at the end of the page all occur. Two
pages are the least with a next page other than the current one; three are the least
with a closed page that is neither next to the current page nor the oldest, and the
least where a page order can be wrong. One fault anywhere, in any state, covers every
single interruption; the second one in `QueueCached` covers interrupted repairs and
retries.

In the map three pages of one item each are the least where a page that is not the
oldest is migrated past, where the newest item of a key can be on a page between the
one in use and the oldest, and where a store needs more than one round of migration:
with two keys, three pages are full when each key has a current value, and a third item
must free a superseded one first. Two pages of two items are the least where a
migration copies some items and leaves others behind, can be cut short between two
copies, and stores go on behind the copies. There a removed, superseded or torn item can also
lie next to a current one when a store is refused too early: `RefusedOnlyWhenFull` looks at every
word that is written, not only at the items a reader finds. One key slot for two keys makes every
access to the other key evict. Two faults cover a fault in the repair of what the first
left. The values of a key are interchangeable, hence the symmetry of `MapCached`, whose
properties are all safety.

Deadlock is checked in every run; since some search results are bound as
`\E a \in Addrs: a = ...`, a result outside its range would disable its step and show
up as a deadlock there, so that these binders exclude nothing.

In a ring of 7 bytes an item of 3 takes 5, so prefixes and data start and wrap at every
offset, and the ring is filled to the last byte by items of 3 and 0. With `ByteBase` 2
both bytes of a prefix are in use. A ring of 6 bytes holds one long or two short items,
so a long one evicts both: the least where the item behind the one being pushed can
suffer. Four items allow two in the ring while one is on its way and one in flash.
`MaxSends` bounds the items accepted, `MaxFaults` the faults. Deadlock is not checked in
the runs of `SharedRamRing`: after `MaxSends` items a waiting task rightly waits for ever
(`NoLostWakeup` says that it does so for a reason).

Not covered by a run: a queue on a single page without faults refining `Fifo`, two
faults on three pages of the queue (too many states), items of more than one data word
together with faults, a map on three pages of several items, a map on pages with a
single data word (`MapConfig::try_new` allows them, but no item with data fits there).

### Disagreements with the docs

Four runs are expected to be violated. Each states a sentence of the docs that the code
does not keep.

* `SharedRace`: `SharedRamRing::drain_one` reads the oldest item, awaits the push, and
  then discards the oldest item *of that moment* (`src/queue/buffered.rs:443-450`). An
  enqueue with `DiscardOldest` in between may have evicted the item on its way; then the
  next one is discarded without having been stored. `NothingLost` is proved for the policy
  `Err`, and for `BufferedQueue` with either.
* `QueueSinglePower`: on a single page an interrupted erase can leave old words behind
  a page that reads as `Open`, and the next push writes among them. With two pages or
  more the page after an interrupted erase is found `Open` and erased data behind it
  cannot be reached: see `QueueFaults`, `QueueCached`.
* `MapRemoveDirty`: `remove_item` does not drop a dirty cache, as `store_item` and `fetch_item`
  do, and clears the mark at its end (`src/map.rs:589,655`). After a call that was
  cut short the cache may hold a page to be open that is not; the removal passes over
  it and returns `Ok` with the item still there.
* `MapIterUnrepaired`: in `fetch_all_items` the function given to
  `run_with_auto_repair!` is a block, and the `?` in it returns from `fetch_all_items`
  (`src/map.rs:731,741,744`), past the repair. A half-erased page makes it return
  `Corrupted` until some other function repairs it.

More are plain from the code, or were met on the way, and have no run:

* On a single page `is_page_empty` is never true of the page in use (`src/item.rs:555`),
  so a full queue whose items were all popped refuses every push.
* `erase_all`, of queue and map, leaves the cache as it was, and clean
  (`src/lib.rs:56-65`): the next call trusts page states and key locations from before.
* A `pop` that was cut short may leave an item that is neither readable nor erased.
  Its page never counts as empty, so a push may be refused though the queue is empty
  (with several pages, until a push may overwrite); `FullHoldsItem` is therefore stated
  for behaviours without a fault so far.
* A removal on a map without a partially open page (a store was cut short after it had
  closed the full page) starts behind page 0 instead of behind the page used last
  (`unwrap_or_default`, `src/map.rs:599`). Cut short in turn, it can expose an older
  value of the key, which the comment above it means to exclude. `MapFaults` with
  `CarefulRemoves = FALSE` shows it as a violation of `RefinesKeyValue`.
* A removal does not look for an interrupted migration. Cut short after it has erased the
  item on the source page, it leaves the copy: the value is still read, and disappears
  when the repair done by a later store erases the page of the copy.
* `find_max_fit` counts the item header of an empty page as room for data
  (`src/queue/mod.rs:342,347`), so a push of the size it returns is `ItemTooBig`. What does
  hold is `MaxFitIsLimit`, an upper bound.
* On a single page `find_max_fit` returns `Corrupted` after the first push
  (`src/queue/mod.rs:349`).
* `SharedRamRing::pop` returns `FullStorage` while the ring has items and the flash queue is
  full, unless it may overwrite (`src/queue/buffered.rs:492-495`): what would make room
  is the pop itself.
* `pop` and `peek` of `BufferedQueue` return `None` for a buffer that is too small for the
  oldest item in RAM (`src/queue/buffered.rs:291,315`), where an item in flash gives
  `BufferTooSmall`. `Buffered` checks `NoneMeansEmpty` with buffers that are large enough.

### Fairness

`QueueCached` and `MapFaults` assume weak fairness of `Step`: the executor keeps polling the future of a
call that was started, and the flash driver answers. Calls of the user and faults are not
fair. `SharedLive` assumes weak fairness of the task's steps for the same reason, of its
calls because the documented task is a loop around one call, and of `EnqueueSignal`: an
enqueue that has changed the ring runs on to its signal, being synchronous. That anybody
enqueues is not assumed. Flash has room for all items there; a task whose push is refused
ends, as the documented one does.

## 4. The proofs

`QueueProofs!TypeCorrect`: `Spec => []TypeOK`, for every number of pages, page size,
set of items, cache kind and number of faults. Types alone are not inductive. The
invariant `IInv` adds what the typing of a step takes from earlier ones: `CallShape`
(the item being pushed fits at the address it is being written to; which locals each
point of a call uses), `EntryShape` (the entry of the iterator is an intact item, so
zeroing its CRC yields a header), `QuietIdle` (no operation is pending between calls),
`HasData` (a data write is of an item with data). `NextHasIter` (a running `next` has a
live iterator) is carried along. The proof has a lemma per group of actions, and under
it a step per action. `MinInSet` gets the least element of a set of naturals from the
library's well-foundedness theorem; `FirstFound` and its consequences say that a page
search returns a page, `NoPage` or `CorruptedPage`.

`QueueProofs!CachedStatesCorrect`: `Spec => []CachedStates`, for all constants,
provided `erase_all` is not called on a storage with a cache (the finding above shows
that the condition is needed). The cache is told before flash is written, so the
inductive invariant `CacheInv` compares it with flash as the pending operation will
leave it, and requires the dirty mark while that operation could leave something else.
A fault then finds either a dirty cache, whose contents do not matter until the next
call drops it, or an operation that changes no marker.

`QueueProofs!PageOrderCorrect`: `Spec => []PageOrder`, under the same condition,
which it needs because the code finds its pages through the cache. The proof abstracts
flash to the state each page is marked with, now (`Now`) and after the pending operation
(`Then`); a marker that is cut short leaves one of the two, so both must be `Ordered`:
from some page on there is a number of closed pages, then the page in use, then open ones,
and a page whose erase was interrupted (`Corrupted`) counts as open. Order alone is not
inductive. An iterator decides that a page may be erased long before it erases it, so
`Sane` adds that the pages are still in order when the page the iterator is on is erased
now, unless it met an item that was not popped. `Planned` has what a running push knows of
the page it is about to mark, found two flash operations earlier. Between the start of an
`erase_all` and the success of one nothing is claimed (`Disturbed`), nor does `PageOrder`.
`HalfErased` and `EraseFirst` are the two ways an erase keeps the order: of a page among
the open ones, or of the first closed one.

`QueueProofs!RepairIsEnough`: `Spec => []AlwaysRepaired`, a call that has run the
repair does not end with `Corrupted`, for two pages or more. `Repaired` says that behind
the repair no page is corrupted, and that the rest of the call corrupts none; with
`PageOrderCorrect` the page searches that the repaired call then makes find what they
look for. On a single page it is false: `find_max_fit` takes the page in use for the next
one and returns `Corrupted` (above).

`QueueProofs!WritesErased` and `CachedPointersCorrect`: `Spec => []WritesErasedWords` and
`Spec => []CachedPointers`, from one invariant, `WordsInv`, since in the queue each needs the
other: where a push writes is where the cache says the last item ends, and the cache stays
right because the words written there were erased. Both rest on the walk over the headers
of a page (`EndOfItems`, `FirstUnerased`, recursive functions that `MinLemma` makes unique),
and on what a flash operation does to it. `WordsInv` has five parts. `FitFor`: the pending
operation finds the words it expects, so for any outcome of it, the one that is cut short
included, the walk ends at or behind the place where it ended before, and all behind that
is blank. `TidyFlash`: no word behind the last item of a page is written, an erased page
is blank; the exception is a page whose erase was cut short, and there are other pages then
that keep it from being taken for an open one. `Located` has the place a push has found, as
long as it has not yet written to it. `PointersKnown` compares the pointers of the cache
with the words as the pending operation will leave them, in the way `CacheInv` does it for
the states, and `OldestKnown` is the same for the place an iterator has reached. Two pages
are assumed: `QueueSinglePower` shows that it is false on one. The condition on `erase_all` is
that of `CachedStatesCorrect`.

`QueueProofs!FullHoldsItemCorrect`: `Spec => []FullHoldsItem`, by `FullInv`, which adds to the
above that without a fault every header that is not zeroed is that of an intact item, but
for the one whose data is about to be written (`ItemsIntact`); and the page that refuses a
push is closed, or the one in use, and has such a header. On a single page it is false
(above).

`MapProofs!MapTypeCorrect`: `Spec => []TypeOK`, for every number of pages, keys, items, key
slots and faults. What is not plain is that a migration never writes behind the end of a
page, although it copies without looking at the room: it is safe because what it copies
was on one page. `IInv` says so: a readable header tells the length of its item, also where
writes and erases were cut short (`Sized`); while the header of a copy is being written,
the original is still on the source page, at or behind the address it is written to
(`Copying`); and the copies are never ahead of the scan of the source page (`Shape`, which
also says which locals each point of a call uses). The items of a page come from a walk
over its headers, which is a recursive function; `PresentItemsIs` unfolds it.

`MapProofs!MapPageOrder` and `MapCachedStates`: `Spec => []PageOrder` and
`Spec => []CachedStates`, from one invariant, `OInv`, since in the map neither holds without
the other: the code decides what to close, open and erase by what the cache says, and
`fetch_all_items` believes a cache that an interrupted call has left dirty. As in the queue,
`CacheInv` compares the cache with flash as the pending operation will leave it, at the
points of a call where the cache was found clean or dropped (`Trusted`). Elsewhere it has
what is still true of a dirty one: the pages as the cache shows them (`View`) are in *some*
order a map can be in, and either in the one they really have, or not all open. That is
enough for `fetch_all_items` to find a page to start from, or none when there is none.

`OrderInv` has the order of the pages now (`Now`) and after the pending operation (`Then`).
`Ordered` has three cases: the pages are still being filled for the first time (`Filling`);
the page in use is followed by the buffer page, which may be half-erased, and all others are
closed (`SettledOn`); a migration is under way or was cut short, and all pages but one are
closed (`FullBut`). `Planned` has what a call saw of the page it will mark next, some flash
operations earlier, and `Erasing` which pages are erased: the one that becomes the buffer,
or the page in use of an interrupted migration, which is then done again. `Disturbed` is
as in the queue.

Both assume `CarefulCalls`: with a cache, `erase_all` is not called, and `remove_item` only on
a cache that is not dirty. The first goes past the cache, the second is the finding of
`MapRemoveDirty`; without a cache nothing is assumed. In particular `CarefulRemoves` is not
needed for the order of the pages.

`MapProofs!MapRepairIsEnough`: `Spec => []AlwaysRepaired` for a map without key pointers
(`KeySlots = 0`: three of the four caches), under `CarefulCalls`. The inductive invariant
`RInv` adds two things to `OInv`. `Mended` follows the second attempt: while the repair runs
there is a page in use, behind it no page is half-erased, and where `store_item` starts over,
or goes on after a migration, the page in use has its buffer (`Buffered`). `Scanning` says of
a migration, the one in the repair or one in a store, that what it has still to look at is
among the items of the source page, which stays as it is until it is erased. With it a
migration never fails to find the newest item of a key it copies: `SearchFinds`, the search
backwards from the page in use passes closed pages only until it comes to the source page,
where an item with that key is. `SearchTorn` and `TornInUse` are about first attempts: a
Corrupted error comes from a half-erased page, and then there is a page in use. With key
pointers a location is taken without a search; that what is there is readable and the newest
item of its key is not proved (below).

`MapProofs!MapWritesErased` and `MapCachedPointers`: `Spec => []WritesErasedWords` and
`Spec => []CachedPointers`, under `CarefulCalls`, from `OInv` and `WordsInv`. The lemmas about
the walk over a page and about what a flash operation does to it are those of the queue. What
differs is which pages can be relied on. An interrupted repair may leave a page that looks
open and still has words written (a buffer page has been erased before it is used; the page
in use of an interrupted migration is erased when all others are closed, and its erase may be
cut short). `KeptTidy` says that then all other pages are closed (`Alone`), so a call has to
repair before it writes, and the repair finds the page in use again, or erases it. `Located`
follows a store, and a migration whose copies are written behind one another without a look
at the page. `PointersKnown` compares the pointers with the words as the pending operation
will leave them where the cache is trusted; of a cache that is not, it keeps that a page it
takes for open has no pointer, since `fetch_all_items` may declare such a cache clean.

`MapProofs!MapErasesOnlyCopies`: `Spec => []ErasesOnlyCopies`, under `CarefulCalls`,
`CarefulRemoves` and `KeySlots = 0`. `CInv` adds `CopyInv` to `RInv` and `WordsInv`. Three kinds of
page are erased. A half-erased one is not read (`TornIsUnread`). The target of a migration that
was cut short is the page in use while all others are closed (`Alone`); `CopiesOnly` says that
every item on it is a copy of an item that is the newest with its key, and is the last one
with it on the source page (`Original`), so nothing is lost with the target
(`TargetIsCopies`). That is invariant because a word which goes to such a page belongs to a
copy (`CopyPending`), and the copied item was found there by the search (`FoundOriginal`). The
source itself may go when each key on it is on another page (`SourceIsCopied`): `PassedUpTo`
says this of all items the scan has left behind, except those whose key it will meet again.
An item counts as soon as its data is written, which takes the words of a page into the
argument once more: the copy is where the walk over the headers comes to (`OnWalk`,
`ItemReached`), and what was present before still is (`ItemsExtended`).

The two other assumptions are needed for what is proved. Without `CarefulRemoves` a removal
that meets an interrupted migration zeroes the original first, and until it comes to the
copy the target holds an item that is nowhere else; `RemovalSettled` has what the
assumption gives, for as long as a removal runs: no page is half-erased and the page in use
has its buffer. With key pointers the location of an item is taken without a search, so
that what was found is the newest is `CachedKeys`, which is not proved.

`BufferedProofs!BufferedNothingLost`: `Spec => []NothingLost`, for every ring, set of
lengths, both policies and any number of faults. `NothingLost` is not inductive, since
`Discard` drops the head of the ring without looking at it. `DrainInv` adds that the item
on its way is the head of the ring until it is discarded (`HeldInFront`), and is accounted
for once it was pushed (`HeldStored`). `DrainProofs` has a lemma for each step of
`RingDrain`; only `EnqueueKeeps` has a condition, that the policy is `Err` or the task
idle. That is where the two users differ: `BufferedQueue` enqueues while idle.
`SharedProofs!SharedNothingLost` needs `Policies \subseteq {"Err"}`, and `SharedRace` shows
why.

`SharedProofs!SharedNoLostWakeup`: `Spec => []NoLostWakeup`, for any number of producers,
both policies and any faults. With the types it needs it is inductive: the ring grows in one
step only, which leaves its producer at the signal.

`BufferedInOrder`, `SharedInOrder`: `Spec => []InOrder`, what was popped, what is in flash
and what is in RAM, in this order, have rising numbers, for both policies and any number
of producers. Evictions in `SharedRamRing` may lose an item but reorder none. `OrderInv`
says it part by part: each rises (`PartsRise`), each lies below the next (`PartsFollow`),
and the item on its way to flash lies between flash and the ring (`HeldBetween`) although
the ring may have changed since. `Gap` is 1 while nothing has failed, so the numbers rise
strictly, and 0 after a fault, when an item may be both in flash and in the ring.

`BufferedTypeCorrect`, `SharedTypeCorrect`: `Spec => []TypeOK`. The part that is not plain
is that the items in RAM never cost more than the ring has bytes: `UsedWithoutOldest` and
`RoomForIt` show that evictions make the room they are made for. `TypeInv` adds that
items carry numbers that were given out.

`BufferedNoneMeansEmpty`: `Spec => NoneMeansEmpty`, an action property, from the types and
`NoneInv`. Its assumption, that every buffer can take an item of every length, is the
caller's side of the finding about too small buffers above.

`RingProofs!RingRefinesFifo`: `Spec => RefinesBoundedFifo`, the byte ring implements the
bounded FIFO for every number of bytes, every base and all inputs; `RingTypeCorrect` and
`RingAccounting` come from the same invariant. `RingInv` says that some sequence of items
is laid out in the ring (`Layout`): at offsets that begin with 0, grow by the cost of each
item and end at `used`, where the prefix and the bytes found from that offset on, around
the end of the buffer if need be, are the item. `WriteRawHolds`, `DiscardHolds` and
`MakeRoomHolds` say what the three operations do to the sequence, and `LayoutItems` that
it is the sequence found by following the prefixes, which is the refinement mapping.

Recursive functions (`ItemsOf`, `MakeRoom`, `Used`) are within reach this way: induction
over data is not available as a rule, but `MinLemma!UpTo` does it for a set of numbers, by
the least number outside the set, and `Iterates` gets from it that a function defined step
by step up to n exists and has the values its steps give.

Assumptions used: the named `ASSUME`s of `GenericStorage`, `QueueStorage`, `RamRing`,
`BoundedRing`, `RingDrain`, `KeyPointers` and `MapStorage`, all of them evaluated by TLC in the runs above.
`PageWords >= 2` is `QueueConfig::try_new`'s `ERASE_SIZE >= WORD_SIZE * 4`.

`PageCount >= 2` in the map is the check in `MapConfig::try_new`.

Only model-checked: of the queue `RefinesFifo`, what `find_max_fit` and `space_left` say, and
the measures; of the map `RefinesKeyValue`, `AlwaysRepaired` and `ErasesOnlyCopies` with
key pointers, `CachedKeys` and what a refusal says; and all liveness. The refinements compare
sequences and newest items that are read off all the pages together; the lemmas about one page
are there, the induction over the pages has not been done. Liveness under fairness is out of
the prover's reach, as is `ENABLED`.

## 5. Plan

Done: the queue, its iterator, cache and repair; the buffered queue in both forms; the
map, its iterator, migration, repair and key pointers.

1. Proofs: `CachedKeys` of the map, then `AlwaysRepaired` and `ErasesOnlyCopies` with key
   pointers, which rest on it; steps of the refinements.
2. The flash queue of `RingDrain` as an instance of `Fifo`.

## 6. Not modelled

* reads of flash that fail: `MapItemIter::next` passes over a page whose state it cannot
  read, any other function returns the error and has changed nothing but its cache;
* the introspection functions of the buffered queue, which read only;
* byte contents, CRC arithmetic and collisions, bit flips;
* words smaller than a header, and drivers whose erase does not proceed upwards;
* `BufferTooSmall`: the caller breaks the contract of `next`;
* serialization of keys and values, the containers of the caches, `print_items`,
  formatting, `example/`, `fuzz/`: no state of the storage.
