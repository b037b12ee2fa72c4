-------------------------- MODULE MCByteFifoCalls ---------------------------
EXTENDS ByteFifoCalls

\* Blocks of every length from none to three, with contents that tell the
\* positions apart; 3 crosses the wrap-around with one, two and three bytes
\* stored.
MCBlocks == {<<>>, <<1>>, <<1, 2>>, <<2, 1, 2>>}
=============================================================================
