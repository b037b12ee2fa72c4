------------------------------ MODULE UartLink ------------------------------
(***************************************************************************)
(* Both directions of Uart together: in loop back mode what the transmitter *)
(* sends is what the receiver gets, and the driver implements Link.        *)
(***************************************************************************)
EXTENDS Uart

\* A byte is on the line from the shift register until the task has it.
TheLink == INSTANCE Link WITH
  waiting   <- Queued,
  line      <- Delivered \o reg.hold \o Shifting,
  received  <- rxlog.taken,
  up        <- reg.lb /\ reg.re,
  overflow  <- "OV" \in reg.errors \/ "RF" \in uart.errorFlags,
  transfers <- txlog.sends

\* From Uart_write or Uart_writeAsync to Uart_read or the reception queue, a
\* byte is neither lost, unless an overflow is flagged, nor repeated or passed
\* by another: through both queues, the two callbacks that may replace them,
\* and the interrupts of both directions sharing one handler.
ImplementsLink == TheLink!Spec
=============================================================================
