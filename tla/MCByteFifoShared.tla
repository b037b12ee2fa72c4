------------------------- MODULE MCByteFifoShared ---------------------------
EXTENDS ByteFifoShared

\* The smallest ring that one push can fill during a pull, and one of three.
Block2 == <<0, 0>>
Block3 == <<0, 0, 0>>
=============================================================================
