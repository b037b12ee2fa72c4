-------------------------------- MODULE Link --------------------------------
(***************************************************************************)
(* What a UART that hears itself (UART_CONTROL_LB) promises: the bytes     *)
(* written are read, once each and in order.  Between the two a byte waits, *)
(* where a later transfer may still replace it, and is then on the line,   *)
(* where it is lost only to an overflow that is flagged, or to a link that *)
(* is down.                                                                *)
(***************************************************************************)
EXTENDS Integers, SequencesExt

CONSTANT Byte

VARIABLES
  waiting,   \* the bytes that wait for the line
  line,      \* the bytes on it, the oldest first
  received,  \* the bytes read
  up,        \* whether the link is up
  overflow,  \* whether an overflow is flagged
  transfers  \* the transfers begun

vars == <<waiting, line, received, up, overflow, transfers>>

Init ==
  /\ waiting = <<>> /\ line = <<>> /\ received = <<>>
  /\ ~up /\ ~overflow
  /\ transfers = 0

\* A transfer replaces what waits, and may have its first bytes on the line at
\* once, behind what is there.
Transfer ==
  /\ transfers' = transfers + 1
  /\ IsPrefix(line, line')
  /\ UNCHANGED <<received, up, overflow>>

\* A byte is written when none waits.
WriteByte ==
  /\ waiting = <<>>
  /\ \E b \in Byte : line' = Append(line, b)
  /\ UNCHANGED <<waiting, received, up, overflow, transfers>>

Transmit ==
  /\ waiting # <<>>
  /\ line' = Append(line, Head(waiting))
  /\ waiting' = Tail(waiting)
  /\ UNCHANGED <<received, up, overflow, transfers>>

\* The oldest bytes are read.
Read ==
  /\ \E n \in 1 .. Len(line) :
       /\ received' = received \o SubSeq(line, 1, n)
       /\ line' = SubSeq(line, n + 1, Len(line))
  /\ UNCHANGED <<waiting, up, overflow, transfers>>

\* A byte on the line meets a full receiver or a full queue.
Overflow ==
  /\ overflow'
  /\ \E i \in DOMAIN line : line' = RemoveAt(line, i)
  /\ UNCHANGED <<waiting, received, up, transfers>>

\* The flags are read again.
Reread == UNCHANGED <<waiting, line, received, up, transfers>>

\* The link goes down or up, or is down: what was on its way may be lost.
Down ==
  /\ ~up \/ ~up'
  /\ \E i \in 0 .. Len(line), j \in 0 .. Len(line) :
       line' = SubSeq(line, i + 1, j)
  /\ waiting' \in {waiting, <<>>}
  /\ UNCHANGED <<received, transfers>>

Next == Transfer \/ WriteByte \/ Transmit \/ Read \/ Overflow \/ Reread \/ Down

Spec == Init /\ [][Next]_vars
=============================================================================
