-------------------------------- MODULE Fifo --------------------------------
(***************************************************************************)
(* What the queue promises its user: a sequence of items that calls append *)
(* to, read in order and remove from.  A call takes effect at one point    *)
(* between its start and its return.  A call that is cut short has taken   *)
(* effect or not, never half; the items of other calls are not touched.    *)
(* The iterator may clean up behind itself, and then removes only items    *)
(* whose pop was asked for.                                                *)
(***************************************************************************)
EXTENDS Integers, Sequences, SequencesExt

CONSTANTS Items, NoItem

VARIABLES queue,   \* the items, oldest first
          live,    \* an iterator exists
          cursor,  \* how many items of the queue the iterator has passed
          asked,   \* length of the prefix of the queue whose pop was asked for
          entry,   \* the iterator holds an entry: the item at the cursor
          call,    \* the running call
          done,    \* it has taken effect
          result   \* what the last call returned

vars == <<queue, live, cursor, asked, entry, call, done, result>>

NoCall == [fn |-> "none", item |-> NoItem, allow |-> FALSE]
NoResult == [fn |-> "none", status |-> "none", item |-> NoItem]
Returned(status, item) == [fn |-> call.fn, status |-> status, item |-> item]

Init ==
  /\ queue = <<>>
  /\ live = FALSE /\ cursor = 0 /\ asked = 0 /\ entry = FALSE
  /\ call = NoCall /\ done = FALSE
  /\ result = NoResult

-----------------------------------------------------------------------------
(* Calls and returns *)

BeginWith(c) ==
  /\ call = NoCall
  /\ call' = c /\ done' = FALSE
  /\ result' \in {result, NoResult}
  /\ UNCHANGED <<queue, live, cursor>>

BeginPush(i, allow) ==
  /\ ~live
  /\ BeginWith([fn |-> "push", item |-> i, allow |-> allow])
  /\ UNCHANGED <<asked, entry>>

BeginOther(fn) ==
  /\ ~live
  /\ BeginWith([NoCall EXCEPT !.fn = fn])
  /\ UNCHANGED <<asked, entry>>

\* Going on past an item that was not popped ends the popped prefix for good.
BeginNext ==
  /\ live
  /\ BeginWith([NoCall EXCEPT !.fn = "next"])
  /\ entry' = FALSE
  /\ asked' = IF asked = cursor THEN asked ELSE 0

BeginPop ==
  /\ entry
  /\ BeginWith([fn |-> "pop", item |-> queue[cursor], allow |-> FALSE])
  /\ entry' = FALSE
  /\ asked' = IF asked = cursor - 1 THEN cursor ELSE asked

End(r) ==
  /\ call # NoCall
  /\ call' = NoCall /\ done' = FALSE
  /\ result' = r

EndPush ==
  /\ call.fn = "push"
  /\ \/ done /\ End(Returned("Ok", NoItem))
     \/ ~done /\ End(Returned("ItemTooBig", NoItem))
     \/ ~done /\ ~call.allow /\ End(Returned("FullStorage", NoItem))
  /\ UNCHANGED <<queue, live, cursor, asked, entry>>

EndIter ==
  /\ call.fn = "iter"
  /\ End(Returned("Ok", NoItem))
  /\ live' = TRUE
  /\ UNCHANGED <<queue, cursor, asked, entry>>

EndNext ==
  /\ call.fn = "next"
  /\ \/ /\ End(Returned("Ok", result'.item))
        /\ cursor < Len(queue) /\ result'.item = queue[cursor + 1]
        /\ cursor' = cursor + 1 /\ entry' = TRUE
     \/ /\ End(Returned("None", NoItem))
        /\ cursor = Len(queue)
        /\ UNCHANGED <<cursor, entry>>
  /\ UNCHANGED <<queue, live, asked>>

EndPop ==
  /\ call.fn = "pop" /\ done
  /\ End(Returned("Ok", call.item))
  /\ UNCHANGED <<queue, live, cursor, asked, entry>>

EndMeasure ==
  /\ call.fn \in {"find_max_fit", "space_left"}
  /\ \E status \in {"Ok", "None"}: End(Returned(status, NoItem))
  /\ UNCHANGED <<queue, live, cursor, asked, entry>>

DropIterator ==
  /\ call = NoCall /\ live
  /\ live' = FALSE /\ cursor' = 0 /\ asked' = 0 /\ entry' = FALSE
  /\ UNCHANGED <<queue, call, done, result>>

-----------------------------------------------------------------------------
(* Effects on the queue and on the iterator's place in it *)

\* How many items have left the old end of the queue.
Dropped == Len(queue) - Len(queue')
DropFirst == queue' = SubSeq(queue, Dropped + 1, Len(queue))

AppendItem ==
  /\ call.fn = "push" /\ ~done
  /\ queue' = Append(queue, call.item)
  /\ UNCHANGED <<cursor, asked>>

\* A push that may overwrite old data makes room at the old end.
MakeRoom ==
  /\ call.fn = "push" /\ ~done /\ call.allow
  /\ Dropped > 0 /\ DropFirst
  /\ UNCHANGED <<cursor, asked>>

RemoveItem ==
  /\ call.fn = "pop" /\ ~done
  /\ queue' = RemoveAt(queue, cursor)
  /\ cursor' = cursor - 1
  /\ asked' = IF asked = cursor THEN asked - 1 ELSE asked

\* The iterator gives back space taken by items it was asked to pop.
CleanUp ==
  /\ call.fn = "next"
  /\ Dropped \in 1 .. asked /\ DropFirst
  /\ cursor' = cursor - Dropped /\ asked' = asked - Dropped

TakeEffect ==
  /\ call' = call /\ result' = result
  /\ \/ done' /\ (AppendItem \/ RemoveItem)
     \/ done' = done /\ (MakeRoom \/ CleanUp)
  /\ UNCHANGED <<live, entry>>

\* erase_all removes everything.
Wipe ==
  /\ call.fn = "erase_all"
  /\ queue' = <<>> /\ done' = TRUE
  /\ UNCHANGED <<live, cursor, asked, entry, call, result>>

EndWipe ==
  /\ call.fn = "erase_all" /\ done
  /\ End(Returned("Ok", NoItem))
  /\ UNCHANGED <<queue, live, cursor, asked, entry>>

\* A call is cut short: it has taken effect or not, and is over.
Cut ==
  /\ End(Returned("Storage", NoItem))
  /\ \/ UNCHANGED <<queue, cursor, asked>>
     \/ AppendItem \/ MakeRoom \/ RemoveItem \/ CleanUp
     \/ call.fn = "erase_all" /\ UNCHANGED <<cursor, asked>>
  /\ UNCHANGED <<live, entry>>

\* Power loss, during a call or between two, ends the iterator as well.
Lose ==
  /\ result'.status = "PowerLoss" /\ result'.item = NoItem
  /\ call' = NoCall /\ done' = FALSE
  /\ live' = FALSE /\ cursor' = 0 /\ asked' = 0 /\ entry' = FALSE
  /\ \/ UNCHANGED queue
     \/ call.fn = "push" /\ ~done /\ queue' = Append(queue, call.item)
     \/ call.fn = "push" /\ ~done /\ call.allow /\ DropFirst
     \/ call.fn = "pop" /\ ~done /\ queue' = RemoveAt(queue, cursor)
     \/ call.fn = "next" /\ Dropped \in 1 .. asked /\ DropFirst
     \/ call.fn = "erase_all"

-----------------------------------------------------------------------------

Next ==
  \/ \E i \in Items, allow \in BOOLEAN: BeginPush(i, allow)
  \/ \E fn \in {"iter", "find_max_fit", "space_left", "erase_all"}: BeginOther(fn)
  \/ BeginNext \/ BeginPop
  \/ EndPush \/ EndIter \/ EndNext \/ EndPop \/ EndMeasure \/ EndWipe
  \/ DropIterator \/ TakeEffect \/ Wipe \/ Cut \/ Lose

Spec == Init /\ [][Next]_vars
=============================================================================
