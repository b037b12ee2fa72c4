------------------------------- MODULE MCUart -------------------------------
EXTENDS UartClaims, UartLink

Conf(rx, tx, lb) == [isTxEnabled |-> tx, isRxEnabled |-> rx,
                     isLoopbackModeEnabled |-> lb]

OnlyTx == {Conf(FALSE, TRUE, FALSE)}
OnlyRx == {Conf(TRUE, FALSE, FALSE)}
Duplex == {Conf(TRUE, TRUE, FALSE)}
Loopback == {Conf(TRUE, TRUE, TRUE)}

\* One byte, which Uart_writeAsync may send by itself, and two, which it leaves to
\* the handler, both of them if the shift register is busy.
MCPayloads == {<<1>>, <<1, 2>>}
OneByte == {<<1>>}
TwoBytes == {<<1, 2>>}

Block1 == <<0>>
Block2 == <<0, 0>>

Handler(char, len) == [targetCharacter |-> char, targetLength |-> len]
MCRxHandlers == {Handler(1, 2), Handler(2, 1)}
OneHandler == {Handler(1, 2)}
=============================================================================
