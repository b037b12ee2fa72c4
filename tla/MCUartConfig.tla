---------------------------- MODULE MCUartConfig ----------------------------
EXTENDS UartConfig

\* 80 MHz, the clock of the GR712RC development board.
Clock == 80000000

MCConfigs ==
  [isRxEnabled : BOOLEAN, isTxEnabled : BOOLEAN, isLoopbackModeEnabled : BOOLEAN,
   parity : {"None", "Even", "Odd", "Invalid"},
   baudRate : {9600, 115200, Uart_BaudRate_Invalid}, baudRateClkFreq : {Clock}]

AllBaudRates == {300, 600, 1200, 1800, 2400, 4800, 9600, 19200, 28800, 38400,
                 57600, 76800, 115200}

\* The largest value, the smallest, and the one for 9600 baud.
MCScalers == {0, 1040, 4095}
=============================================================================
