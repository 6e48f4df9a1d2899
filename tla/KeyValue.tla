------------------------------ MODULE KeyValue ------------------------------
(***************************************************************************)
(* What the map promises its user: a table with at most one item per key.  *)
(* A call takes effect at one point between its start and its return (a    *)
(* removal of all items key by key); one that is cut short has taken       *)
(* effect or not.  The value of a key changes only by calls about that key.*)
(* An iteration may return superseded items, but what it returns last for  *)
(* each key is what the table holds.                                       *)
(***************************************************************************)
CONSTANTS Items, Keys, KeyOf, NoItem, NoKey

VARIABLES table,   \* the item of each key, NoItem if there is none
          live,    \* an iterator exists
          seen,    \* the item it returned last for each key
          call,    \* the running call
          result   \* what the last call returned

vars == <<table, live, seen, call, result>>

Missing == [k \in Keys |-> NoItem]

NoCall == [fn |-> "none", item |-> NoItem, key |-> NoKey]
NoResult == [fn |-> "none", status |-> "none", item |-> NoItem]
Returned(status, item) == [fn |-> call.fn, status |-> status, item |-> item]

Init ==
  /\ table = Missing
  /\ live = FALSE /\ seen = Missing
  /\ call = NoCall
  /\ result = NoResult

-----------------------------------------------------------------------------
(* Calls and returns *)

Begin(fn, item, key) ==
  /\ call = NoCall /\ ~live
  /\ call' = [fn |-> fn, item |-> item, key |-> key]
  /\ result' = NoResult
  /\ UNCHANGED <<table, live, seen>>

End(status, item) ==
  /\ call # NoCall /\ call' = NoCall
  /\ result' = Returned(status, item)
  /\ UNCHANGED <<table, seen>>

EndStore ==
  /\ call.fn = "store_item"
  /\ \/ End("Ok", NoItem) /\ table[KeyOf[call.item]] = call.item
     \/ \E status \in {"ItemTooBig", "FullStorage"}: End(status, NoItem)
  /\ UNCHANGED live

EndFetch ==
  /\ call.fn = "fetch_item"
  /\ IF table[call.key] = NoItem THEN End("None", NoItem) ELSE End("Ok", table[call.key])
  /\ UNCHANGED live

EndRemove ==
  /\ \/ call.fn = "remove_item" /\ table[call.key] = NoItem
     \/ call.fn \in {"remove_all_items", "erase_all"} /\ table = Missing
  /\ End("Ok", NoItem)
  /\ UNCHANGED live

\* (fetch_all_items may meet a half-erased page and give up.)
EndFetchAll ==
  /\ call.fn = "fetch_all_items"
  /\ \/ End("Ok", NoItem) /\ live' = TRUE
     \/ End("Corrupted", NoItem) /\ UNCHANGED live

\* One call of next of the iterator.
NextReturns ==
  /\ live /\ call = NoCall
  /\ \/ \E i \in Items:
          /\ seen' = [seen EXCEPT ![KeyOf[i]] = i]
          /\ result' = [fn |-> "next", status |-> "Ok", item |-> i]
          /\ UNCHANGED live
     \/ /\ seen = table
        /\ result' = [fn |-> "next", status |-> "None", item |-> NoItem]
        /\ live' = FALSE /\ seen' = Missing
  /\ UNCHANGED <<table, call>>

DropIterator ==
  /\ live /\ call = NoCall
  /\ live' = FALSE /\ seen' = Missing
  /\ UNCHANGED <<table, call, result>>

-----------------------------------------------------------------------------
(* Effects on the table *)

StoreEffect ==
  /\ call.fn = "store_item"
  /\ table' = [table EXCEPT ![KeyOf[call.item]] = call.item]

RemoveEffect ==
  /\ call.fn = "remove_item"
  /\ table' = [table EXCEPT ![call.key] = NoItem]

RemoveAllEffect ==
  /\ call.fn = "remove_all_items"
  /\ \E gone \in SUBSET Keys:
       table' = [k \in Keys |-> IF k \in gone THEN NoItem ELSE table[k]]

EraseEffect == call.fn = "erase_all" /\ table' = Missing

TakeEffect ==
  /\ UNCHANGED <<live, seen, call, result>>
  /\ StoreEffect \/ RemoveEffect \/ RemoveAllEffect \/ EraseEffect

\* A call is cut short.  Only an erase_all can leave the table in disorder.
CutEffect ==
  \/ UNCHANGED table
  \/ StoreEffect \/ RemoveEffect \/ RemoveAllEffect
  \/ call.fn = "erase_all" /\ table' \in [Keys -> Items \cup {NoItem}]

Cut ==
  /\ call # NoCall /\ call' = NoCall
  /\ result' = Returned("Storage", NoItem)
  /\ UNCHANGED <<live, seen>>
  /\ CutEffect

\* Power loss, during a call or between two, ends the iterator as well.
Lose ==
  /\ result'.status = "PowerLoss" /\ result'.item = NoItem
  /\ call' = NoCall
  /\ live' = FALSE /\ seen' = Missing
  /\ CutEffect

-----------------------------------------------------------------------------

Next ==
  \/ \E i \in Items: Begin("store_item", i, NoKey)
  \/ \E k \in Keys, fn \in {"fetch_item", "remove_item"}: Begin(fn, NoItem, k)
  \/ \E fn \in {"remove_all_items", "fetch_all_items", "erase_all"}: Begin(fn, NoItem, NoKey)
  \/ EndStore \/ EndFetch \/ EndRemove \/ EndFetchAll \/ NextReturns \/ DropIterator
  \/ TakeEffect \/ Cut \/ Lose

Spec == Init /\ [][Next]_vars
=============================================================================
