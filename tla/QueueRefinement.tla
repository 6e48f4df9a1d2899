-------------------------- MODULE QueueRefinement --------------------------
(***************************************************************************)
(* The queue kept in flash implements a FIFO: the refinement mapping reads *)
(* the abstract queue off the flash contents alone, without the cache.     *)
(***************************************************************************)
EXTENDS QueueStorage, Sequences

\* The items a reader finds on page p before address `limit`, in order.
ItemsBefore(p, limit) ==
  LET ws == flash[p].words
      read[a \in 0 .. PageWords] ==
        IF a >= limit \/ a = PageWords THEN <<>>
        ELSE IF ws[a] = Blank THEN <<>>
        ELSE IF IsPresent(ws, a)
             THEN <<ws[a].crc>> \o read[NextAddr(ws, a)]
        ELSE read[NextAddr(ws, a)]
  IN  read[0]

\* Pages whose erase has been interrupted hold nothing that can be read.
ItemsOn(p) ==
  IF MarkedState(flash[p]) = "Corrupted" THEN <<>> ELSE ItemsBefore(p, PageWords)

\* The items of n pages starting at p.
ItemsFrom(p, n) ==
  LET first[k \in 0 .. n] ==
        IF k = 0 THEN <<>> ELSE first[k - 1] \o ItemsOn(PageFrom(p, k - 1))
  IN  first[n]

IsClosed(p) == MarkedState(flash[p]) = "Closed"

\* The closed page behind a page that is not.
OldestPage ==
  IF \E p \in Pages: ~IsClosed(p) /\ IsClosed(NextPage(p))
  THEN NextPage(CHOOSE p \in Pages: ~IsClosed(p) /\ IsClosed(NextPage(p)))
  ELSE 0

\* (The page is bound to a variable so that TLC searches for it once.)
QueueItems == CHOOSE q \in {ItemsFrom(p, PageCount): p \in {OldestPage}}: TRUE

\* How far the iterator is from the page it started on.
PagesPassed == (iter.page - iter.oldest + PageCount) % PageCount

Cursor ==
  IF ~iter.live THEN 0
  ELSE Len(ItemsFrom(iter.oldest, PagesPassed))
       + Len(IF iter.after THEN ItemsOn(iter.page)
             ELSE ItemsBefore(iter.page, iter.addr))

Asked ==
  IF ~iter.live THEN 0
  ELSE CASE iter.prev = "AllPopped" -> Cursor
         [] iter.prev = "AllButCurrentPopped" -> Cursor - 1
         [] iter.prev = "Unpopped" -> 0

TookEffect ==
  /\ io = NoIO
  /\ \/ op.pc \in {"finish", "popped", "erase_all"}
     \/ op.pc = "data" /\ Size[op.item] = 0

F == INSTANCE Fifo WITH
  queue <- QueueItems, live <- iter.live, cursor <- Cursor, asked <- Asked,
  entry <- HasEntry, done <- TookEffect,
  call <- [fn |-> op.fn, item |-> op.item, allow |-> op.allow],
  result <- [fn |-> ret.fn, status |-> ret.status, item |-> ret.item]

\* Every call of the queue is a call of the FIFO: push appends (and, only when
\* allowed, first drops the oldest items), next returns the items in order and
\* says None only at the end, pop removes the item that was returned; a call cut
\* short by an error, a cancellation or power loss has happened or not; and a page
\* the iterator erases behind itself holds no item whose pop was not asked for.
RefinesFifo == F!Spec

\* README: "Power-fail safe".  A push that returned Ok has stored its item at the
\* end of the queue, whatever was cut short before it.
PushedIsLast ==
  [][op.fn = "push" /\ op' = Idle /\ ret'.status = "Ok" =>
       QueueItems' # <<>> /\ QueueItems'[Len(QueueItems')] = op.item]_vars
=============================================================================
