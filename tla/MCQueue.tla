------------------------------ MODULE MCQueue ------------------------------
\* QueueStorage for TLC: items of one data word, of none, and one that fits no page.
EXTENDS QueueRefinement, TLC

CONSTANTS small, other, empty, huge

MCSize == [i \in Items |-> CASE i \in {small, other} -> 1 [] i = empty -> 0 [] i = huge -> PageWords]

QueueCalls == {"push", "iter", "next", "pop"}
AllCalls == QueueCalls \cup {"find_max_fit", "space_left", "erase_all"}
=============================================================================
