----------------------------- MODULE UartConfig -----------------------------
(***************************************************************************)
(* The configuration of a UART: the control register bits and the baud     *)
(* rate scaler that Uart_setConfig writes and Uart_getConfig reads back    *)
(* (src/Uart/Uart.c), over any sequence of configurations, shutdowns and   *)
(* initialisations.  The interrupt handler touches neither register, so    *)
(* every call is one step.                                                 *)
(***************************************************************************)
EXTENDS Integers

CONSTANTS
  TicksPerSecond,  \* what rtems_clock_get_ticks_per_second returns
  BaudRates,       \* the values of Uart_BaudRate, but for Invalid
  Configs,         \* the configurations the task may choose
  Scalers          \* what the boot monitor may leave in the scaler register

UINT16 == 65536
Uart_BaudRate_Invalid == 0
UART_SCALER_RELOAD_SIZE == 4096   \* UART_SCALER_RELOAD_MASK + 1
UART_CLKSCL_DIV == 8
UART_CLKSCL_SHIFTED == 16         \* 2^UART_CLKSCL_SHIFT

Flag == {"RE", "RI", "RF", "TE", "TI", "TF", "LB", "PE", "PS"}

Config == [isRxEnabled : BOOLEAN, isTxEnabled : BOOLEAN,
           isLoopbackModeEnabled : BOOLEAN,
           parity : {"None", "Even", "Odd", "Invalid"},
           baudRate : BaudRates \cup {Uart_BaudRate_Invalid},
           baudRateClkFreq : Nat]

ASSUME UartConfigAssumption ==
  /\ TicksPerSecond \in Nat
  /\ BaudRates \subseteq Nat \ {0}
  /\ Configs \subseteq Config
  /\ Scalers \subseteq 0 .. UART_SCALER_RELOAD_SIZE - 1

VARIABLES
  control, \* the bits set in the control register
  clkscl,  \* the scaler reload register
  given    \* the configurations since the device was shut down: none, the
           \* only one, or the last of several

vars == <<control, clkscl, given>>

-----------------------------------------------------------------------------
(* The baud rate.                                                          *)

baudRateToValue(baud) == IF baud \in BaudRates THEN baud ELSE 0

valueToBaudRate(value) ==
  IF value \in BaudRates THEN value ELSE Uart_BaudRate_Invalid

\* Mutant: the bits above the register's twelve are kept.
ScalerUnmasked(freq, baudValue) == (freq \div (baudValue * 8) - 1) % UINT16

\* The quotient is zero when the frequency is below eight times the rate; one
\* less is then all ones.
Scaler(freq, baudValue) ==
  ((freq \div (baudValue * 8) - 1) % UINT16) % UART_SCALER_RELOAD_SIZE

setBaudRate(baud) ==
  clkscl' = IF baudRateToValue(baud) = 0 THEN clkscl
            ELSE Scaler(TicksPerSecond, baudRateToValue(baud))

\* Mutant: nothing is added.
DivisorBare(scaler) == (scaler * UART_CLKSCL_SHIFTED) % UINT16

Divisor(scaler) == (scaler * UART_CLKSCL_SHIFTED + 1) % UINT16

getBaudRate ==
  valueToBaudRate(TicksPerSecond \div (UART_CLKSCL_DIV * Divisor(clkscl)))

-----------------------------------------------------------------------------
(* The calls.                                                              *)

If(condition, flags) == IF condition THEN flags ELSE {}

\* The parity bits are only ever set, or PS cleared along with it; without
\* parity they are left alone.
Parity(config) ==
  IF config.parity \in {"Even", "Odd"}
  THEN {"PE"} \cup If(config.parity = "Odd", {"PS"})
  ELSE control \cap {"PE", "PS"}

Uart_setConfig(config) ==
  /\ control' = If(config.isRxEnabled, {"RE", "RI"})
                  \cup If(~config.isRxEnabled, {"RF"})
                  \cup If(config.isTxEnabled, {"TE", "TI"})
                  \cup If(~config.isTxEnabled, {"TF"})
                  \cup If(config.isLoopbackModeEnabled, {"LB"})
                  \cup Parity(config)
  /\ setBaudRate(config.baudRate)
  /\ given' = [which |-> IF given.which = "none" THEN "only" ELSE "last",
               config |-> <<config>>]

Uart_getConfig ==
  [isRxEnabled |-> "RE" \in control,
   isTxEnabled |-> "TE" \in control,
   isLoopbackModeEnabled |-> "LB" \in control,
   parity |-> IF "PE" \in control
              THEN IF "PS" \in control THEN "Odd" ELSE "Even"
              ELSE "None",
   baudRate |-> getBaudRate,
   baudRateClkFreq |-> TicksPerSecond]

NoneGiven == [which |-> "none", config |-> <<>>]

\* Mutant: the control register is left as it was.
ControlKept == control' = control

ControlCleared == control' = {}

\* Uart_init does the same to these registers.  The scaler keeps its value.
Uart_shutdown ==
  /\ ControlCleared
  /\ given' = NoneGiven
  /\ UNCHANGED clkscl

Init ==
  /\ control = {}
  /\ clkscl \in Scalers
  /\ given = NoneGiven

Next == Uart_shutdown \/ \E config \in Configs : Uart_setConfig(config)

Spec == Init /\ [][Next]_vars

-----------------------------------------------------------------------------
(* Properties.                                                             *)

\* The control register has no bit but those of a configuration, the scaler
\* fits its twelve bits.
TypeOK ==
  /\ control \subseteq Flag
  /\ clkscl \in 0 .. UART_SCALER_RELOAD_SIZE - 1
  /\ given \in [which : {"none", "only", "last"},
                config : {<<>>} \cup {<<c>> : c \in Configs}]

\* getBaudRate never divides by zero, for any value of the scaler register.
DivisorNeverZero == Divisor(clkscl) # 0

Known(parity) == IF parity = "Invalid" THEN "None" ELSE parity

\* The last configuration is read back, over any history: the directions and
\* the loop back always; a parity the driver knows always; no parity, or an
\* invalid one, which reads as none, if nothing was configured before since the
\* device was shut down.
LastReadsBack ==
  \A c \in Configs :
    given.config = <<c>> =>
      /\ Uart_getConfig.isRxEnabled = c.isRxEnabled
      /\ Uart_getConfig.isTxEnabled = c.isTxEnabled
      /\ Uart_getConfig.isLoopbackModeEnabled = c.isLoopbackModeEnabled
      /\ given.which = "only" \/ c.parity \in {"Even", "Odd"} =>
           Uart_getConfig.parity = Known(c.parity)
=============================================================================
