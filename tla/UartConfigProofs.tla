-------------------------- MODULE UartConfigProofs --------------------------
(***************************************************************************)
(* The configuration of a UART, for every clock and every set of baud      *)
(* rates and configurations.                                               *)
(***************************************************************************)
EXTENDS UartConfig, TLAPS

\* The scaler fits its field, also when the quotient is zero.
LEMMA ScalerRange ==
  ASSUME NEW baud \in BaudRates
  PROVE  Scaler(TicksPerSecond, baud) \in 0 .. UART_SCALER_RELOAD_SIZE - 1
  <1> DEFINE q == TicksPerSecond \div (baud * 8) - 1
  <1>1. baud * 8 \in Nat \ {0} /\ TicksPerSecond \in Nat
    BY UartConfigAssumption
  <1> DEFINE d == baud * 8
  <1>2. TicksPerSecond \div d \in Int
    <2> HIDE DEF d
    <2>1. d \in Nat \ {0}
      BY <1>1 DEF d
    <2>2. QED
      BY <1>1, <2>1
  <1>3. q \in Int
    BY <1>2
  <1> HIDE DEF q
  <1>4. q % UINT16 \in Int
    BY <1>3 DEF UINT16
  <1>5. (q % UINT16) % UART_SCALER_RELOAD_SIZE \in 0 .. UART_SCALER_RELOAD_SIZE - 1
    BY <1>4 DEF UART_SCALER_RELOAD_SIZE
  <1>6. QED
    BY <1>5 DEF Scaler, q

\* Uart.c:112 divides RTEMS ticks a second, not the frequency of the clock that
\* Uart_Config names: at any tick rate below eight times the baud rate the
\* quotient is zero, and what Uart_setConfig writes is all ones, whatever the
\* rate.
THEOREM ScalerSaturates ==
  ASSUME NEW baud \in BaudRates, TicksPerSecond < baud * 8
  PROVE  Scaler(TicksPerSecond, baud) = UART_SCALER_RELOAD_SIZE - 1
  <1> DEFINE d == baud * 8
  <1>1. d \in Nat \ {0} /\ TicksPerSecond \in Nat /\ TicksPerSecond < d
    BY UartConfigAssumption
  <1>2. TicksPerSecond \div d = 0
    <2> HIDE DEF d
    <2>1. QED
      BY <1>1
  <1> DEFINE q == TicksPerSecond \div d - 1
  <1>3. q \in Int /\ q = -1
    <2> HIDE DEF d
    <2>1. QED
      BY <1>2
  <1>4. Scaler(TicksPerSecond, baud) = (q % 65536) % 4096
    BY DEF Scaler, UINT16, UART_SCALER_RELOAD_SIZE
  <1> HIDE DEF q
  <1>5. q % 65536 = q + 65536
    <2>1. q \in Int /\ q < 0 /\ -65536 <= q
      BY <1>3
    <2>2. QED
      BY <2>1
  <1>6. 65535 % 4096 = 4095
    OBVIOUS
  <1>7. QED
    BY <1>3, <1>4, <1>5, <1>6 DEF UART_SCALER_RELOAD_SIZE

\* Every call keeps the types.
LEMMA NextType == TypeOK /\ [Next]_vars => TypeOK'
  <1> SUFFICES ASSUME TypeOK, [Next]_vars PROVE TypeOK'
    OBVIOUS
  <1>1. CASE Uart_shutdown
    BY <1>1 DEF TypeOK, Uart_shutdown, ControlCleared, NoneGiven
  <1>2. ASSUME NEW config \in Configs, Uart_setConfig(config) PROVE TypeOK'
    <2>1. control' \subseteq Flag
      BY <1>2 DEF TypeOK, Uart_setConfig, If, Parity, Flag
    <2>2. clkscl' \in 0 .. UART_SCALER_RELOAD_SIZE - 1
      <3>1. CASE config.baudRate \in BaudRates
        BY <1>2, <3>1, ScalerRange
           DEF TypeOK, Uart_setConfig, setBaudRate, baudRateToValue
      <3>2. CASE config.baudRate \notin BaudRates
        BY <1>2, <3>2 DEF TypeOK, Uart_setConfig, setBaudRate, baudRateToValue
      <3>3. QED
        BY <3>1, <3>2
    <2>3. given' \in [which : {"none", "only", "last"},
                      config : {<<>>} \cup {<<c>> : c \in Configs}]
      BY <1>2 DEF Uart_setConfig
    <2>4. QED
      BY <2>1, <2>2, <2>3 DEF TypeOK
  <1>3. CASE UNCHANGED vars
    BY <1>3 DEF TypeOK, vars
  <1>4. QED
    BY <1>1, <1>2, <1>3 DEF Next

\* TypeOK: no baud rate and no clock makes setBaudRate write outside the scaler's
\* field, and the control register has no bit of no configuration.
THEOREM TypeCorrect == Spec => []TypeOK
  <1>1. Init => TypeOK
    BY UartConfigAssumption DEF Init, TypeOK, NoneGiven
  <1>2. QED
    BY <1>1, NextType, PTL DEF Spec

\* DivisorNeverZero: the divisor of getBaudRate, truncated to 16 bits, is not
\* zero for any scaler, whatever the boot monitor left in the register.
THEOREM NeverDividesByZero == Spec => []DivisorNeverZero
  <1>1. TypeOK => DivisorNeverZero
    <2> SUFFICES ASSUME TypeOK PROVE DivisorNeverZero
      OBVIOUS
    <2> DEFINE d == clkscl * 16 + 1
    <2>0. clkscl \in 0 .. UART_SCALER_RELOAD_SIZE - 1
      BY DEF TypeOK
    <2>1. clkscl \in Int /\ 0 <= clkscl /\ clkscl <= 4095
      BY <2>0 DEF UART_SCALER_RELOAD_SIZE
    <2>2. d \in Int /\ 1 <= d /\ d < 65536
      BY <2>1
    <2>3. Divisor(clkscl) = d % 65536
      BY DEF Divisor, UINT16, UART_CLKSCL_SHIFTED
    <2> HIDE DEF d
    <2>4. d % 65536 = d
      BY <2>2
    <2>5. QED
      BY <2>2, <2>3, <2>4 DEF DivisorNeverZero
  <1>2. QED
    BY <1>1, TypeCorrect, PTL

\* LastReadsBack alone is not inductive: the parity of a first configuration is
\* read back because the control register was clear before it.
ClearAtFirst == given.which = "none" => control = {} /\ given.config = <<>>

\* A configuration is read back after the call that sets it.
LEMMA SetConfigReadsBack ==
  ASSUME NEW config \in Configs, ClearAtFirst, Uart_setConfig(config)
  PROVE  ClearAtFirst' /\ LastReadsBack'
  <1>0. config.parity \in {"None", "Even", "Odd", "Invalid"}
    BY UartConfigAssumption DEF Config
  <1>1. given'.config = <<config>> /\ given'.which \in {"only", "last"}
        /\ (given'.which = "only" => given.which = "none")
    BY DEF Uart_setConfig
  <1>2. /\ "RE" \in control' <=> config.isRxEnabled
        /\ "TE" \in control' <=> config.isTxEnabled
        /\ "LB" \in control' <=> config.isLoopbackModeEnabled
        /\ "PE" \in control' <=> "PE" \in Parity(config)
        /\ "PS" \in control' <=> "PS" \in Parity(config)
    BY DEF Uart_setConfig, If, Parity
  <1>3. config.parity \in {"Even", "Odd"} =>
          /\ "PE" \in control'
          /\ "PS" \in control' <=> config.parity = "Odd"
    BY <1>2 DEF Parity, If
  <1>4. given'.which = "only" /\ config.parity \notin {"Even", "Odd"} =>
          "PE" \notin control'
    BY <1>1, <1>2 DEF ClearAtFirst, Parity
  <1>5. ASSUME NEW c \in Configs, given'.config = <<c>>
        PROVE  /\ Uart_getConfig'.isRxEnabled = c.isRxEnabled
               /\ Uart_getConfig'.isTxEnabled = c.isTxEnabled
               /\ Uart_getConfig'.isLoopbackModeEnabled = c.isLoopbackModeEnabled
               /\ given'.which = "only" \/ c.parity \in {"Even", "Odd"} =>
                    Uart_getConfig'.parity = Known(c.parity)
    <2>1. c = config
      BY <1>1, <1>5
    <2>2. /\ config.isRxEnabled \in BOOLEAN /\ config.isTxEnabled \in BOOLEAN
          /\ config.isLoopbackModeEnabled \in BOOLEAN
      BY UartConfigAssumption DEF Config
    <2>3. /\ Uart_getConfig'.isRxEnabled = ("RE" \in control')
          /\ Uart_getConfig'.isTxEnabled = ("TE" \in control')
          /\ Uart_getConfig'.isLoopbackModeEnabled = ("LB" \in control')
          /\ Uart_getConfig'.parity = IF "PE" \in control'
                                      THEN IF "PS" \in control' THEN "Odd" ELSE "Even"
                                      ELSE "None"
      BY DEF Uart_getConfig
    <2>4. given'.which = "only" \/ c.parity \in {"Even", "Odd"} =>
            Uart_getConfig'.parity = Known(c.parity)
      BY <1>0, <1>3, <1>4, <2>1, <2>3 DEF Known
    <2>5. QED
      BY <1>2, <2>1, <2>2, <2>3, <2>4
  <1>6. LastReadsBack'
    BY <1>5 DEF LastReadsBack
  <1>7. ClearAtFirst'
    BY <1>1 DEF ClearAtFirst
  <1>8. QED
    BY <1>6, <1>7

\* LastReadsBack: Uart_getConfig reads back what the last Uart_setConfig set,
\* over every history of configurations and shutdowns, with the reservations
\* about the parity that the formula states.
THEOREM ReadsBack == Spec => []LastReadsBack
  <1>1. Init => ClearAtFirst /\ LastReadsBack
    <2> SUFFICES ASSUME Init PROVE ClearAtFirst /\ LastReadsBack
      OBVIOUS
    <2>1. control = {} /\ given.config = <<>>
      BY DEF Init, NoneGiven
    <2>2. QED
      BY <2>1 DEF ClearAtFirst, LastReadsBack
  <1>2. (ClearAtFirst /\ LastReadsBack) /\ [Next]_vars
          => (ClearAtFirst /\ LastReadsBack)'
    <2> SUFFICES ASSUME ClearAtFirst, LastReadsBack, [Next]_vars
                 PROVE  ClearAtFirst' /\ LastReadsBack'
      OBVIOUS
    <2>1. CASE Uart_shutdown
      <3>1. control' = {} /\ given'.config = <<>>
        BY <2>1 DEF Uart_shutdown, ControlCleared, NoneGiven
      <3>2. QED
        BY <3>1 DEF ClearAtFirst, LastReadsBack
    <2>2. ASSUME NEW config \in Configs, Uart_setConfig(config)
          PROVE  ClearAtFirst' /\ LastReadsBack'
      BY <2>2, SetConfigReadsBack
    <2>3. CASE UNCHANGED vars
      <3>1. UNCHANGED <<control, clkscl, given>>
        BY <2>3 DEF vars
      <3>2. Uart_getConfig' = Uart_getConfig
        BY <3>1 DEF Uart_getConfig, getBaudRate
      <3>3. QED
        BY <3>1, <3>2 DEF ClearAtFirst, LastReadsBack
    <2>4. QED
      BY <2>1, <2>2, <2>3 DEF Next
  <1>3. QED
    BY <1>1, <1>2, PTL DEF Spec
=============================================================================
