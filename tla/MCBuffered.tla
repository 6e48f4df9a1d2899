----------------------------- MODULE MCBuffered -----------------------------
\* BufferedQueue for TLC.
EXTENDS BufferedQueue

AllCalls == {"drain_one", "drain_all", "pop", "peek"}
=============================================================================
