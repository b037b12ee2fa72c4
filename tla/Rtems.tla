------------------------------- MODULE Rtems --------------------------------
(***************************************************************************)
(* One interrupt vector, as the drivers use it through the directives of   *)
(* rtems.h that src/Uart/Uart.c and src/Timer/Timer_private.c call.  RTEMS *)
(* and the interrupt controller are not part of the repository: what is    *)
(* here is what the drivers rely on.                                       *)
(*                                                                         *)
(* A device raises a line.  The controller latches it in one bit per       *)
(* vector, whether the vector is enabled or not, so that two requests with *)
(* no acknowledgement in between are one.  Disabling a vector delays an    *)
(* interrupt and never loses one; only interrupt_clear does.               *)
(***************************************************************************)
EXTENDS Naturals

NoEntry == "no entry"

\* entries: what the drivers install.
Vector(entries) ==
  [enabled : BOOLEAN, pending : BOOLEAN, entry : entries \cup {NoEntry}]

IdleVector == [enabled |-> FALSE, pending |-> FALSE, entry |-> NoEntry]

vector_enable(v) == [v EXCEPT !.enabled = TRUE]

vector_disable(v) == [v EXCEPT !.enabled = FALSE]

\* RTEMS_INTERRUPT_UNIQUE: refused, with a status no caller reads, when the
\* vector already has an entry.
entry_install(v, entry) ==
  IF v.entry = NoEntry THEN [v EXCEPT !.entry = entry] ELSE v

\* Removing an entry that is not installed is refused in the same way.
entry_remove(v, entry) ==
  IF v.entry = entry THEN [v EXCEPT !.entry = NoEntry] ELSE v

interrupt_clear(v) == [v EXCEPT !.pending = FALSE]

(* What the controller and the processor do.                               *)

raise(v) == [v EXCEPT !.pending = TRUE]

\* The processor takes the interrupt, and calls v.entry.
Deliverable(v) == v.enabled /\ v.pending /\ v.entry # NoEntry

acknowledge(v) == [v EXCEPT !.pending = FALSE]
=============================================================================
