------------------------------- MODULE MCRing -------------------------------
\* RamRing for TLC: all items of up to three bytes, and one that is too long.
EXTENDS RamRing

MCInputs == UNION {[1 .. n -> Byte]: n \in 0 .. 3} \cup {<<1, 1, 1, 1>>}
=============================================================================
