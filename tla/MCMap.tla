------------------------------- MODULE MCMap -------------------------------
\* MapStorage for TLC: two keys, one of them with two values, the other with a value
\* that fits no page (b2).
EXTENDS MapRefinement, TLC

CONSTANTS keyA, keyB, a1, a2, b1, b2

MCKeyOf == [i \in Items |-> IF i \in {b1, b2} THEN keyB ELSE keyA]
MCSize == [i \in Items |-> IF i = b2 THEN PageWords ELSE 1]

AllCalls == Functions
CacheCalls == Functions \ {"erase_all"}   \* erase_all does not tell the cache
IterCalls == {"store_item", "fetch_all_items"}
RemoveCalls == {"store_item", "remove_item"}
ValueSymmetry == Permutations({a1, a2})
=============================================================================
