----------------------------- MODULE UartClaims -----------------------------
(***************************************************************************)
(* What Uart.h says of the driver and Uart.c does not do.  Each definition *)
(* states a sentence of the header, or what a statement of the source is   *)
(* plainly there for, and has a run whose counterexample shows how the     *)
(* driver departs from it.                                                 *)
(***************************************************************************)
EXTENDS Uart

\* Uart.h:217 and 229: *errCode is "An error code generated during the
\* operation", and a failed call has one to report.  Uart_write sets
\* Uart_ErrorCode_Timeout in statements (Uart.c:276) no path reaches.
FailureReported ==
  task.reply.op \in {"write", "read"} /\ ~task.reply.ok => task.errCode # "OK"

\* Uart.h:117: there is a callback "called at the end of transmission", and
\* every transmission of at least a byte ends.
EndAlwaysAnnounced ==
  \A n \in 1 .. MaxCalls :
    txlog.active /\ txlog.sends = n ~>
      \/ ~txlog.active \/ txlog.sends > n
      \/ \E i \in DOMAIN txlog.ended : txlog.ended[i] = n

\* Uart.h:127: the length callback is "called upon a reception of a byte if the
\* reception queue contains at least a number of bytes specified in the handler
\* descriptor": whenever a byte is put into a queue that then holds as many.
LengthCallbackWhenQueued ==
  [][/\ uart.rxFifo # NULL /\ rxlog'.pushed > rxlog.pushed
     /\ Len(Delivered') >= uart.rxHandler.targetLength
     => rxlog'.lengthCalls > rxlog.lengthCalls]_vars
=============================================================================
