-------------------------------- MODULE Uart --------------------------------
(***************************************************************************)
(* The UART driver, src/Uart/Uart.c, with the device it drives, the task   *)
(* that calls it and the interrupt that calls it back.                     *)
(*                                                                         *)
(* Four parties share the descriptor, the two byte queues and the device   *)
(* registers: the task (one: SystemConfig.h configures one processor and   *)
(* the tests one task), the interrupt handler, the transmitter, and the    *)
(* receiver with the line behind it.  The handler runs to completion       *)
(* before the task runs again; the device runs at any moment.  A call that *)
(* keeps the vector disabled from start to end, and reads the device at    *)
(* one point only, is one step.  The polling loops of Uart_write and       *)
(* Uart_read take a step per test, Uart_setConfig one per group of bits,   *)
(* and the handler one per part; what a callback calls is a step of the    *)
(* handler as well.                                                        *)
(*                                                                         *)
(* What the task owes the driver is the order of calls of every test under *)
(* test/integration/Uart (Uart_init, Uart_setConfig, Uart_startup, the     *)
(* transfers, Uart_shutdown), to leave alone a queue it has handed over    *)
(* for sending, and to pull from the reception queue with interrupts       *)
(* masked: ByteFifoShared shows what happens otherwise.                    *)
(***************************************************************************)
EXTENDS ByteFifo, Rtems, FiniteSets

CONSTANTS
  Nul,         \* the byte '\0'
  Word,        \* 2^32, the range of uint32_t
  HwDepth,     \* how many frames the receiver holds
  Configs,     \* the configurations the task may choose
  Payloads,    \* what the task hands to Uart_writeAsync ...
  Chained,     \* ... and the end-of-transmission callback
  SyncBytes,   \* what it hands to Uart_write ...
  WriteLimits, \* ... and with which timeouts
  ReadLimits,  \* the timeouts it calls Uart_read with
  RxBlock,     \* the memory of its reception queue
  RxHandlers,  \* the reception handlers it registers ...
  Refills,     \* ... and the length callback, with a fresh queue
  LineBytes,   \* the bytes the far end sends
  LineErrors,  \* the errors a frame may arrive with
  MaxCalls,    \* bound: calls that change the driver's state
  MaxFrames    \* bound: frames from the far end

Config == [isTxEnabled : BOOLEAN, isRxEnabled : BOOLEAN,
           isLoopbackModeEnabled : BOOLEAN]
NoConfig == [isTxEnabled |-> FALSE, isRxEnabled |-> FALSE,
             isLoopbackModeEnabled |-> FALSE]
RxHandler == [targetCharacter : Byte, targetLength : 0 .. Word - 1]

ASSUME UartAssumption ==
  /\ Nul \in Byte
  /\ Word \in Nat \ {0}
  /\ HwDepth \in Nat \ {0}
  /\ Configs \subseteq Config
  /\ Payloads \subseteq Seq(Byte)
  /\ Chained \subseteq Payloads
  /\ SyncBytes \subseteq Byte
  /\ WriteLimits \subseteq Nat
  /\ ReadLimits \subseteq Nat
  /\ RxBlock \in Seq(Byte) \ {<<>>}
  /\ RxHandlers \subseteq RxHandler
  /\ Refills \subseteq RxHandlers
  /\ LineBytes \subseteq Byte
  /\ LineErrors \subseteq {"PE", "FE"}
  /\ MaxCalls \in Nat
  /\ MaxFrames \in Nat

VARIABLES
  reg,    \* the device: control bits, shift register, receiver FIFO, errors
  vector, \* its interrupt vector
  uart,   \* the driver's descriptor
  isr,    \* the part of Uart_handleInterrupt to run next, or "none"
  task,   \* the call in progress, its locals, and what the last one returned
  txlog,  \* what was handed over for sending, and what became of it
  rxlog,  \* what was received, and what became of it
  used    \* how much of the bounds is used

vars == <<reg, vector, uart, isr, task, txlog, rxlog, used>>

-----------------------------------------------------------------------------
(* The device, from the comments of UartRegisters.h.  The transmitter is   *)
(* its shift register: the driver writes data only when that is empty, so  *)
(* the transmitter FIFO never holds more than the byte on its way there.   *)

\* Mutants: the bit below is read instead; the bit is not looked at.
TSReadsDR == reg.hold # <<>>
TSUnread == TRUE

TS == reg.shift = NULL              \* UART_STATUS_TS
DR == reg.hold # <<>>               \* UART_STATUS_DR
RF == Len(reg.hold) = HwDepth       \* UART_STATUS_RF

IdleReg == [re |-> FALSE, ri |-> FALSE, te |-> FALSE, ti |-> FALSE,
            lb |-> FALSE, shift |-> NULL, hold |-> <<>>, errors |-> {}]

\* The receiver r after a whole frame: kept when there is room, else an
\* overrun.
Received(r, b) ==
  IF ~r.re THEN r
  ELSE IF Len(r.hold) < HwDepth THEN [r EXCEPT !.hold = Append(@, b)]
  ELSE [r EXCEPT !.errors = @ \cup {"OV"}]

\* What the log says of that frame.  It is missed when it has no interrupt of its
\* own: the receiver's is not enabled yet, or it is shared with an earlier event,
\* the request being one bit.
LogReceived(b) ==
  rxlog' = IF reg.re /\ Len(reg.hold) < HwDepth
           THEN [rxlog EXCEPT !.accepted = Append(@, b),
                              !.missed = IF vector.pending \/ ~reg.ri
                                         THEN @ + 1 ELSE @]
           ELSE rxlog

\* The frame in the shift register has been sent.  In loop back mode the
\* receiver gets it.
TxDone ==
  /\ reg.shift # NULL
  /\ txlog' = [txlog EXCEPT !.wire = Append(@, reg.shift)]
  /\ LET sent == [reg EXCEPT !.shift = NULL] IN
     IF reg.lb THEN reg' = Received(sent, reg.shift) /\ LogReceived(reg.shift)
     ELSE reg' = sent /\ UNCHANGED rxlog
  /\ vector' = IF reg.ti \/ (reg.lb /\ reg.ri) THEN raise(vector) ELSE vector
  /\ UNCHANGED <<uart, isr, task, used>>

FrameArrives(b) ==
  /\ reg.re /\ ~reg.lb
  /\ used.frames < MaxFrames
  /\ used' = [used EXCEPT !.frames = @ + 1]
  /\ reg' = Received(reg, b)
  /\ LogReceived(b)
  /\ vector' = IF reg.ri THEN raise(vector) ELSE vector
  /\ UNCHANGED <<uart, isr, task, txlog>>

\* A frame with a bad parity bit or stop bit: the error is flagged and the
\* data are not kept.
BadFrameArrives(error) ==
  /\ reg.re /\ ~reg.lb
  /\ used.frames < MaxFrames
  /\ used' = [used EXCEPT !.frames = @ + 1]
  /\ reg' = [reg EXCEPT !.errors = @ \cup {error}]
  /\ vector' = IF reg.ri THEN raise(vector) ELSE vector
  /\ UNCHANGED <<uart, isr, task, txlog, rxlog>>

Device == \/ TxDone
          \/ \E b \in LineBytes : FrameArrives(b)
          \/ \E error \in LineErrors : BadFrameArrives(error)

-----------------------------------------------------------------------------
(* What the task and the callbacks have in common.                         *)

ENTRY == "Uart_handleInterrupt"

Started == vector.entry = ENTRY

\* A call that may change the driver's state counts against MaxCalls.
Counted == /\ used.calls < MaxCalls
           /\ used' = [used EXCEPT !.calls = @ + 1]

\* Mutant: the vector is not enabled again.
StillMasked == vector_disable(vector)

\* What every call that runs with the vector disabled ends with.
Unmasked == vector_enable(vector)

Queued == IF uart.txFifo = NULL THEN <<>> ELSE Contents(uart.txFifo)
Shifting == IF reg.shift = NULL THEN <<>> ELSE <<reg.shift>>

Delivered == IF uart.rxFifo = NULL THEN <<>> ELSE Contents(uart.rxFifo)

\* The logs without what a call abandons in a queue it detaches.
TxKept == SubSeq(txlog.handed, 1, Len(txlog.handed) - Len(Queued))
RxKept == SubSeq(rxlog.accepted, 1, Len(rxlog.taken)) \o reg.hold

\* The callbacks are counted from here, with sentBytes at n.
RxCountFrom(n) == [rxlog EXCEPT !.carry = n, !.pushed = 0, !.lengthCalls = 0,
                                !.charCalls = 0]

\* A queue already filled with the payload replaces the one attached.  Its
\* first byte goes out at once if the shift register is empty; with nothing
\* queued, it is a null byte that goes out.
WriteAsync(payload) ==
  /\ Counted
  /\ Started /\ reg.te
  /\ LET fifo == IF payload = <<>> THEN ByteFifo_init(NULL, <<Nul>>)
                 ELSE ByteFifo_initFromBytes(NULL, payload)
     IN /\ uart' = [uart EXCEPT !.txFifo = IF TS THEN ByteFifo_pull(fifo) ELSE fifo,
                                !.txHandler = txlog.sends + 1]
        /\ reg' = IF ~TS THEN reg
                  ELSE [reg EXCEPT !.shift = IF ByteFifo_isEmpty(fifo) THEN Nul
                                             ELSE PullData(fifo)]
  /\ txlog' = [txlog EXCEPT !.handed = TxKept \o payload, !.sends = @ + 1,
                            !.active = TRUE]
  /\ vector' = Unmasked

-----------------------------------------------------------------------------
(* The interrupt handler.                                                  *)

IsrEnter ==
  /\ isr = "none"
  /\ Deliverable(vector)
  /\ vector' = acknowledge(vector)
  /\ isr' = "error"
  /\ UNCHANGED <<reg, uart, task, txlog, rxlog, used>>

\* Mutant: the parity error bit is not looked at.
LinkErrorsNoParity == (reg.errors \ {"PE"}) \cup (IF RF THEN {"RF"} ELSE {})

\* All four flags are rewritten from the status register.
Uart_getLinkErrors == reg.errors \cup (IF RF THEN {"RF"} ELSE {})

Uart_handleError ==
  /\ isr = "error"
  /\ uart' = [uart EXCEPT !.errorFlags = Uart_getLinkErrors]
  /\ rxlog' = IF uart.errorHandler = "user"
              THEN [rxlog EXCEPT !.told = @ \cup Uart_getLinkErrors]
              ELSE rxlog
  /\ isr' = "rx"
  /\ UNCHANGED <<reg, vector, task, txlog, used>>

\* s with the element at position i left out.
Without(s, i) == SubSeq(s, 1, i - 1) \o SubSeq(s, i + 1, Len(s))

\* A byte is read out of the receiver and the queue is full: it is dropped and
\* the overflow flagged, without a callback.
DropByte ==
  /\ uart' = [uart EXCEPT !.errorFlags = @ \cup {"RF"}]
  /\ rxlog' = [rxlog EXCEPT
       !.accepted = Without(@, Len(@) - Len(reg.hold) + 1),
       !.lost = @ + 1]

\* Mutant: the callback comes a byte late.
LengthExceeded(count) == count > uart.rxHandler.targetLength

LengthReached(count) == count = uart.rxHandler.targetLength

\* The count restarts when it reaches the target.
SentBytesAfter(count) == IF LengthReached(count) THEN 0 ELSE count

\* sentBytes with the byte being taken.
Count == (uart.sentBytes + 1) % Word

\* Mutant: a byte that reaches the length is not matched.
MatchesUnlessLength(buf) ==
  buf = uart.rxHandler.targetCharacter /\ ~LengthReached(Count)

MatchesTarget(buf) == buf = uart.rxHandler.targetCharacter

\* Otherwise it is counted and matched, the callbacks are called, and only
\* then is it pushed.
TakeByte(buf) ==
  LET count == Count
  IN /\ uart' = [uart EXCEPT !.sentBytes = SentBytesAfter(count),
                             !.rxFifo = ByteFifo_push(@, buf)]
     /\ rxlog' = [rxlog EXCEPT
          !.pushed = @ + 1,
          !.lengthCalls = IF LengthReached(count) THEN @ + 1 ELSE @,
          !.charCalls = IF MatchesTarget(buf) THEN @ + 1 ELSE @]

\* Mutants: the byte is left where it is while the queue is full; the byte is
\* read before the queue is looked for.
RxReadyIfRoom ==
  reg.re /\ DR /\ uart.rxFifo # NULL /\ ~ByteFifo_isFull(uart.rxFifo)
HandleRxReadsFirst ==
  /\ isr = "rx"
  /\ isr' = "tx"
  /\ reg' = IF reg.re /\ DR THEN [reg EXCEPT !.hold = Tail(@)] ELSE reg
  /\ IF reg.re /\ DR /\ uart.rxFifo # NULL
     THEN IF ByteFifo_isFull(uart.rxFifo) THEN DropByte
          ELSE TakeByte(Head(reg.hold))
     ELSE UNCHANGED <<uart, rxlog>>
  /\ UNCHANGED <<vector, task, txlog, used>>

RxReady == reg.re /\ DR /\ uart.rxFifo # NULL

Uart_handleRx ==
  /\ isr = "rx"
  /\ isr' = "tx"
  /\ IF RxReady
     THEN /\ reg' = [reg EXCEPT !.hold = Tail(@)]
          /\ IF ByteFifo_isFull(uart.rxFifo) THEN DropByte
             ELSE TakeByte(Head(reg.hold))
     ELSE UNCHANGED <<reg, uart, rxlog>>
  /\ UNCHANGED <<vector, task, txlog, used>>

\* Mutant: the byte goes to the queue that was there before the callback.
RefilledBefore(buf) == ByteFifo_init(NULL, RxBlock)

\* The queue is looked for again after the callback.
Refilled(buf) == ByteFifo_push(ByteFifo_init(NULL, RxBlock), buf)

\* The length callback registers a fresh queue and another handler, having
\* taken what the old queue holds: the byte that made it be called is pushed to
\* the new one.
HandleRxRefilled(handler) ==
  /\ isr = "rx"
  /\ isr' = "tx"
  /\ RxReady /\ ~ByteFifo_isFull(uart.rxFifo) /\ LengthReached(Count)
  /\ Counted
  /\ reg' = [reg EXCEPT !.hold = Tail(@)]
  /\ uart' = [uart EXCEPT
       !.sentBytes = SentBytesAfter(Count),
       !.rxHandler = handler,
       !.rxFifo = Refilled(Head(reg.hold))]
  /\ rxlog' = [RxCountFrom(SentBytesAfter(Count)) EXCEPT !.taken = @ \o Delivered]
  /\ vector' = Unmasked
  /\ UNCHANGED <<task, txlog>>

\* Mutants: the end is announced from one byte left on; the wrong predicate is
\* used.
EndOneEarly(fifo) == ByteFifo_getCount(fifo) <= 1
EndWhenFull(fifo) == ByteFifo_isFull(fifo)

EndReached(fifo) == ByteFifo_isEmpty(fifo)

\* The next queued byte goes out; the one that empties the queue is followed
\* by the end-of-transmission callback.
Uart_handleTx ==
  /\ isr = "tx"
  /\ IF reg.te /\ TS /\ uart.txFifo # NULL /\ ~ByteFifo_isEmpty(uart.txFifo)
     THEN LET rest == ByteFifo_pull(uart.txFifo)
          IN /\ uart' = [uart EXCEPT !.txFifo = rest]
             /\ reg' = [reg EXCEPT !.shift = PullData(uart.txFifo)]
             /\ IF EndReached(rest)
                THEN /\ txlog' = [txlog EXCEPT !.ended = Append(@, uart.txHandler)]
                     /\ isr' = "end"
                ELSE isr' = "none" /\ UNCHANGED txlog
     ELSE isr' = "none" /\ UNCHANGED <<reg, uart, txlog>>
  /\ UNCHANGED <<vector, task, rxlog, used>>

\* That callback returns, and the handler with it ...
EndReturns ==
  /\ isr = "end"
  /\ isr' = "none"
  /\ UNCHANGED <<reg, vector, uart, task, txlog, rxlog, used>>

\* ... or starts the next transfer, inside the handler of this one's last byte.
EndChains(payload) ==
  /\ isr = "end"
  /\ isr' = "none"
  /\ WriteAsync(payload)
  /\ UNCHANGED <<task, rxlog>>

Interrupt == \/ IsrEnter \/ Uart_handleError \/ Uart_handleRx
             \/ \E handler \in Refills : HandleRxRefilled(handler)
             \/ Uart_handleTx \/ EndReturns
             \/ \E payload \in Chained : EndChains(payload)

-----------------------------------------------------------------------------
(* The task.  It makes one call at a time, and runs only while the handler *)
(* does not.                                                               *)

TaskRuns == isr = "none"

Idle == TaskRuns /\ task.pc = "idle"

Call == Idle /\ Counted

\* Functions that return nothing are told apart by nothing.
Reply(op, ok, count) == [op |-> op, ok |-> ok, count |-> count]

Answer(op, ok, count) ==
  task' = [task EXCEPT !.pc = "idle", !.reply = Reply(op, ok, count)]

Return(op, ok) == Answer(op, ok, 0)
Done == Return("void", TRUE)

\* What *errCode is set to is kept: the caller's variable outlives the call.
Fail(op, code) == task' = [task EXCEPT !.pc = "idle", !.errCode = code,
                                       !.reply = Reply(op, FALSE, 0)]

\* Uart_shutdown keeps the queues and the handlers.
Uart_shutdown ==
  /\ Call
  /\ Started
  /\ vector' = entry_remove(vector_disable(vector), ENTRY)
  /\ reg' = [reg EXCEPT !.re = FALSE, !.ri = FALSE, !.te = FALSE, !.ti = FALSE,
                        !.lb = FALSE, !.errors = {}]
  /\ uart' = [uart EXCEPT !.sentBytes = 0, !.errorFlags = {}]
  /\ txlog' = [txlog EXCEPT !.active = FALSE]
  /\ rxlog' = [RxCountFrom(0) EXCEPT !.told = {}, !.lost = 0]
  /\ Done
  /\ UNCHANGED isr

NewUart ==
  [txFifo |-> NULL, txHandler |-> 0, rxFifo |-> NULL,
   rxHandler |-> [targetCharacter |-> Nul, targetLength |-> 0],
   errorHandler |-> "empty", errorFlags |-> {}, sentBytes |-> 0]

\* Uart_init makes a new descriptor of a device that is shut down.
Uart_init ==
  /\ Call
  /\ ~Started
  /\ vector' = interrupt_clear(vector_disable(vector))
  /\ reg' = [reg EXCEPT !.re = FALSE, !.ri = FALSE, !.te = FALSE, !.ti = FALSE,
                        !.lb = FALSE, !.errors = {}]
  /\ uart' = NewUart
  /\ txlog' = [txlog EXCEPT !.handed = TxKept, !.active = FALSE]
  /\ rxlog' = [RxCountFrom(0) EXCEPT !.accepted = RxKept, !.told = {}, !.lost = 0]
  /\ Done
  /\ UNCHANGED isr

\* The control bits of Uart_setConfig, set one after another while the device
\* runs: first the receiver, so that frames come before its interrupt is enabled,
\* and last the loop back, so that they come from the line before it is closed.
\* UartConfig has the parity and the baud rate.  The level interrupts enabled for
\* a disabled direction are left out: the device raises none for it.
Uart_setConfig(config) ==
  /\ Call
  /\ ~Started
  /\ reg' = [reg EXCEPT !.re = config.isRxEnabled]
  /\ rxlog' = [rxlog EXCEPT !.missed = Len(reg.hold)]
  /\ task' = [task EXCEPT !.pc = "interrupts", !.config = config]
  /\ UNCHANGED <<vector, uart, isr, txlog>>

SetInterrupts ==
  /\ TaskRuns /\ task.pc = "interrupts"
  /\ reg' = [reg EXCEPT !.ri = task.config.isRxEnabled,
                        !.te = task.config.isTxEnabled,
                        !.ti = task.config.isTxEnabled]
  /\ task' = [task EXCEPT !.pc = "loopback"]
  /\ UNCHANGED <<vector, uart, isr, txlog, rxlog, used>>

SetLoopback ==
  /\ TaskRuns /\ task.pc = "loopback"
  /\ reg' = [reg EXCEPT !.lb = task.config.isLoopbackModeEnabled]
  /\ Done
  /\ UNCHANGED <<vector, uart, isr, txlog, rxlog, used>>

Uart_startup ==
  /\ Call
  /\ ~Started
  /\ vector' = vector_enable(entry_install(vector, ENTRY))
  /\ uart' = [uart EXCEPT !.sentBytes = 0, !.errorFlags = {}]
  /\ rxlog' = [RxCountFrom(0) EXCEPT !.told = {}, !.lost = 0]
  /\ Done
  /\ UNCHANGED <<reg, isr, txlog>>

-----------------------------------------------------------------------------
(* Sending.                                                                *)

\* Mutant: the rounds of a polling loop are not counted.
RoundsKept == task.timeout

\* The rounds of a polling loop after this one; without a limit none counts.
RoundsLeft == IF task.limit = 0 THEN task.timeout ELSE task.timeout - 1

\* With a transmission queue attached, Uart_write refuses.
WriteRefused ==
  /\ Call
  /\ Started
  /\ SyncBytes # {} /\ WriteLimits # {}
  /\ uart.txFifo # NULL
  /\ vector' = Unmasked
  /\ Fail("write", "TxFifoNotNull")
  /\ UNCHANGED <<reg, uart, isr, txlog, rxlog>>

WriteBegin(data, limit) ==
  /\ Call
  /\ Started /\ reg.te
  /\ uart.txFifo = NULL
  /\ vector' = vector_disable(vector)
  /\ task' = [task EXCEPT !.pc = "write", !.data = data, !.limit = limit,
                          !.timeout = limit]
  /\ UNCHANGED <<reg, uart, isr, txlog, rxlog>>

\* One round of the loop: with the shift register empty the byte goes out.
\* Otherwise, or when the rounds are used up, only task moves; the way out at
\* the end of the loop leaves the vector disabled and *errCode alone.
WritePoll ==
  /\ TaskRuns /\ task.pc = "write"
  /\ task.limit = 0 \/ task.timeout > 0
  /\ IF TS
     THEN /\ reg' = [reg EXCEPT !.shift = task.data]
          /\ txlog' = [txlog EXCEPT !.handed = Append(@, task.data)]
          /\ vector' = Unmasked
          /\ Return("write", TRUE)
     ELSE /\ task' = [task EXCEPT !.timeout = RoundsLeft]
          /\ UNCHANGED <<reg, vector, txlog>>
  /\ UNCHANGED <<uart, isr, rxlog, used>>

WriteTimesOut ==
  /\ TaskRuns /\ task.pc = "write"
  /\ task.limit # 0 /\ task.timeout = 0
  /\ Return("write", FALSE)
  /\ UNCHANGED <<reg, vector, uart, isr, txlog, rxlog, used>>

Uart_writeAsync(payload) ==
  /\ Idle
  /\ WriteAsync(payload)
  /\ Done
  /\ UNCHANGED <<isr, rxlog>>

\* Uart_isTxEmpty and Uart_getTxFifoCount.
QueryTx ==
  /\ Idle
  /\ Started /\ uart.txFifo # NULL
  /\ vector' = Unmasked
  /\ \/ Return("isTxEmpty", ByteFifo_isEmpty(uart.txFifo))
     \/ Answer("getTxFifoCount", TRUE, ByteFifo_getCount(uart.txFifo))
  /\ UNCHANGED <<reg, uart, isr, txlog, rxlog, used>>

-----------------------------------------------------------------------------
(* Receiving.                                                              *)

ReadRefused ==
  /\ Call
  /\ Started
  /\ ReadLimits # {}
  /\ uart.rxFifo # NULL
  /\ vector' = Unmasked
  /\ Fail("read", "RxFifoNotNull")
  /\ UNCHANGED <<reg, uart, isr, txlog, rxlog>>

\* The vector is enabled again before the loop.
ReadBegin(limit) ==
  /\ Call
  /\ Started /\ reg.re
  /\ uart.rxFifo = NULL
  /\ vector' = Unmasked
  /\ task' = [task EXCEPT !.pc = "readFlag", !.limit = limit, !.timeout = limit]
  /\ UNCHANGED <<reg, uart, isr, txlog, rxlog>>

ReadFlag ==
  /\ TaskRuns /\ task.pc = "readFlag"
  /\ IF "RF" \in uart.errorFlags THEN Fail("read", "RxFifoFull")
     ELSE task' = [task EXCEPT !.pc = "readData"]
  /\ UNCHANGED <<reg, vector, uart, isr, txlog, rxlog, used>>

ReadData ==
  /\ TaskRuns /\ task.pc = "readData"
  /\ DR
  /\ reg' = [reg EXCEPT !.hold = Tail(@)]
  /\ rxlog' = [rxlog EXCEPT !.taken = Append(@, Head(reg.hold))]
  /\ Return("read", TRUE)
  /\ UNCHANGED <<vector, uart, isr, txlog, used>>

ReadNoData ==
  /\ TaskRuns /\ task.pc = "readData"
  /\ ~DR
  /\ IF task.limit = 0 \/ task.timeout > 0
     THEN /\ task' = [task EXCEPT !.pc = "readFlag", !.timeout = RoundsLeft]
          /\ UNCHANGED vector
     ELSE Fail("read", "Timeout") /\ vector' = Unmasked
  /\ UNCHANGED <<reg, uart, isr, txlog, rxlog, used>>

\* A first queue, a fresh one once the last is drained, or the same one with
\* another handler.  sentBytes is left as it is.
Uart_readAsync(handler) ==
  /\ Call
  /\ Started
  /\ \E fifo \in {uart.rxFifo, ByteFifo_init(NULL, RxBlock)} :
       /\ fifo # NULL
       /\ fifo = uart.rxFifo \/ Delivered = <<>>
       /\ uart' = [uart EXCEPT !.rxFifo = fifo, !.rxHandler = handler]
  /\ rxlog' = [RxCountFrom(uart.sentBytes) EXCEPT !.missed = Len(reg.hold)]
  /\ vector' = Unmasked
  /\ Done
  /\ UNCHANGED <<reg, isr, txlog>>

\* The task takes a byte from its reception queue, interrupts masked.
Pull ==
  /\ Idle
  /\ uart.rxFifo # NULL
  /\ ~ByteFifo_isEmpty(uart.rxFifo)
  /\ uart' = [uart EXCEPT !.rxFifo = ByteFifo_pull(@)]
  /\ rxlog' = [rxlog EXCEPT !.taken = Append(@, PullData(uart.rxFifo))]
  /\ UNCHANGED <<reg, vector, isr, task, txlog, used>>

\* Uart_isRxEmpty and Uart_getRxFifoCount.
QueryRx ==
  /\ Idle
  /\ Started /\ uart.rxFifo # NULL
  /\ vector' = Unmasked
  /\ \/ Return("isRxEmpty", ByteFifo_isEmpty(uart.rxFifo))
     \/ Answer("getRxFifoCount", TRUE, ByteFifo_getCount(uart.rxFifo))
  /\ UNCHANGED <<reg, uart, isr, txlog, rxlog, used>>

Uart_registerErrorHandler ==
  /\ Call
  /\ Started
  /\ uart' = [uart EXCEPT !.errorHandler = "user"]
  /\ vector' = Unmasked
  /\ Done
  /\ UNCHANGED <<reg, isr, txlog, rxlog>>

-----------------------------------------------------------------------------
(* The whole.                                                              *)

\* A device out of reset, and the descriptor Uart_init made of it.
Init ==
  /\ reg = IdleReg
  /\ vector = IdleVector
  /\ uart = NewUart
  /\ isr = "none"
  /\ task = [pc |-> "idle", data |-> Nul, limit |-> 0, timeout |-> 0,
             config |-> NoConfig, reply |-> Reply("void", TRUE, 0),
             errCode |-> "OK"]
  /\ txlog = [wire |-> <<>>, handed |-> <<>>, sends |-> 0, ended |-> <<>>,
              active |-> FALSE]
  /\ rxlog = [accepted |-> <<>>, taken |-> <<>>, missed |-> 0, lost |-> 0,
              told |-> {}, carry |-> 0, pushed |-> 0, lengthCalls |-> 0,
              charCalls |-> 0]
  /\ used = [calls |-> 0, frames |-> 0]

\* The task is in the middle of a call.
TaskStep == \/ WritePoll \/ WriteTimesOut \/ ReadFlag \/ ReadData \/ ReadNoData
            \/ SetInterrupts \/ SetLoopback

Sending == \/ WriteRefused
           \/ \E data \in SyncBytes, limit \in WriteLimits : WriteBegin(data, limit)
           \/ \E payload \in Payloads : Uart_writeAsync(payload)
           \/ QueryTx

Receiving == \/ ReadRefused
             \/ \E limit \in ReadLimits : ReadBegin(limit)
             \/ \E handler \in RxHandlers : Uart_readAsync(handler)
             \/ Pull
             \/ QueryRx

Lifecycle == \/ Uart_init
             \/ \E config \in Configs : Uart_setConfig(config)
             \/ Uart_startup
             \/ Uart_shutdown
             \/ Uart_registerErrorHandler

Next == Device \/ Interrupt \/ TaskStep \/ Sending \/ Receiving \/ Lifecycle

Spec == Init /\ [][Next]_vars

\* The transmitter shifts whatever it holds, the processor takes a request and
\* runs the handler, and the task goes on with a call it has begun.  Nothing
\* makes the task call, or the far end send.
Fairness == WF_vars(TxDone) /\ WF_vars(Interrupt) /\ WF_vars(TaskStep)

FairSpec == Spec /\ Fairness

-----------------------------------------------------------------------------
(* Safety.                                                                 *)

Flags == {"OV", "PE", "FE", "RF"}

RegType == [re : BOOLEAN, ri : BOOLEAN, te : BOOLEAN, ti : BOOLEAN,
            lb : BOOLEAN, shift : Byte \cup {NULL}, hold : Seq(Byte),
            errors : SUBSET Flags]

UartType == [txFifo : ByteFifoRec \cup {NULL}, txHandler : Nat,
             rxFifo : ByteFifoRec \cup {NULL}, rxHandler : RxHandler,
             errorHandler : {"empty", "user"}, errorFlags : SUBSET Flags,
             sentBytes : 0 .. Word - 1]

ReplyType == [op : {"void", "write", "read", "isTxEmpty", "isRxEmpty",
                    "getTxFifoCount", "getRxFifoCount"},
              ok : BOOLEAN, count : Nat]

TaskType == [pc : {"idle", "write", "readFlag", "readData", "interrupts",
                   "loopback"},
             data : Byte, limit : Nat, timeout : Nat, config : Config,
             reply : ReplyType,
             errCode : {"OK", "Timeout", "RxFifoFull", "TxFifoNotNull",
                        "RxFifoNotNull"}]

TxLogType == [wire : Seq(Byte), handed : Seq(Byte), sends : Nat,
              ended : Seq(Nat), active : BOOLEAN]

RxLogType == [accepted : Seq(Byte), taken : Seq(Byte), missed : Nat, lost : Nat,
              told : SUBSET Flags, carry : Nat, pushed : Nat,
              lengthCalls : Nat, charCalls : Nat]

\* No queue the driver holds is ever left half updated.
FifosOK ==
  /\ uart.txFifo # NULL => IsByteFifo(uart.txFifo)
  /\ uart.rxFifo # NULL => IsByteFifo(uart.rxFifo)

\* Every variable keeps its shape, and the pointers of the queues stay inside
\* their blocks through every call and interrupt.
TypeOK ==
  /\ reg \in RegType
  /\ vector \in Vector({ENTRY})
  /\ uart \in UartType
  /\ FifosOK
  /\ isr \in {"none", "error", "rx", "tx", "end"}
  /\ task \in TaskType
  /\ txlog \in TxLogType
  /\ rxlog \in RxLogType
  /\ used \in [calls : Nat, frames : Nat]

\* The bytes sent, the one being sent and those queued are, in order, the
\* bytes handed over: the task's pull in Uart_writeAsync, the handler's in
\* Uart_handleTx and the polling of Uart_write between them never drop, repeat,
\* reorder or overwrite one.
TxConservation == txlog.wire \o Shifting \o Queued = txlog.handed

\* The bytes the task has, those in its queue and those in the receiver are, in
\* order, the bytes the receiver accepted, but for those the handler dropped on
\* a full queue.
RxConservation == rxlog.taken \o Delivered \o reg.hold = rxlog.accepted

\* While bytes wait in the transmission queue something is on its way to send
\* them: a frame whose end will interrupt, a request, or the handler before its
\* last part.  Losing the request between Uart_writeAsync's test of the shift
\* register and its return, in the task or in the callback that ended the last
\* transfer, would stop this one for good.
TxNeverStalls ==
  txlog.active /\ Queued # <<>> =>
    reg.shift # NULL \/ vector.pending \/ isr \in {"error", "rx", "tx"}

\* The handler takes one byte per interrupt.  The bytes it leaves behind in the
\* receiver are no more than the frames that shared an interrupt, plus the one
\* whose interrupt is still to come or being handled.
RxBacklogExplained ==
  reg.re /\ uart.rxFifo # NULL =>
    Len(reg.hold) <= rxlog.missed + (IF vector.pending THEN 1 ELSE 0)
                                  + (IF isr \in {"error", "rx"} THEN 1 ELSE 0)

\* The vector of a started driver is disabled only inside Uart_write, or after
\* a Uart_write that timed out: every other call leaves it enabled on every
\* path.  A Uart_write that refused leaves the queue it refused for attached.
MaskedOnlyByWrite ==
  Started /\ ~vector.enabled =>
    \/ task.pc = "write"
    \/ task.reply = Reply("write", FALSE, 0) /\ uart.txFifo = NULL

\* No transfer's end is announced twice or out of turn, and the end of the
\* current one only once its queue is empty.
EndCallbackOnce ==
  /\ \A i, j \in DOMAIN txlog.ended : i < j => txlog.ended[i] < txlog.ended[j]
  /\ \A i \in DOMAIN txlog.ended :
       txlog.ended[i] = txlog.sends => Queued = <<>>

\* The bytes pushed since the handler was registered, whether still queued or
\* already taken.
Pushed == LET all == rxlog.taken \o Delivered
          IN SubSeq(all, Len(all) - rxlog.pushed + 1, Len(all))

\* The character callback has been called once for every target character that
\* was pushed, in whatever handler and queue it was and whatever the length
\* callback replaced.
CharacterCallbacksExact ==
  uart.rxFifo # NULL =>
    rxlog.charCalls =
      Cardinality({i \in DOMAIN Pushed : Pushed[i] = uart.rxHandler.targetCharacter})

\* A task that hands over a queue with nothing counted before, and takes nothing
\* out of it, is called back by the time the queue holds targetLength bytes, and
\* not earlier ("upon reaching of which length callback is called", Uart.h:151):
\* so much of the header holds of the count.  UartClaims has what does not.
LengthCallbackWhenReached ==
  LET target == uart.rxHandler.targetLength IN
  /\ uart.rxFifo # NULL /\ target > 0
  /\ rxlog.carry = 0 /\ rxlog.pushed = Len(Delivered)
  => (rxlog.lengthCalls > 0 <=> Len(Delivered) >= target)

\* Uart_getTxFifoCount and Uart_getRxFifoCount answer with the bytes handed
\* over and not yet in the transmitter, and with those received and not yet
\* taken; Uart_isTxEmpty and Uart_isRxEmpty agree with them.
QueriesExact ==
  [][LET inTx == Len(txlog.handed) - Len(txlog.wire) - Len(Shifting)
         inRx == Len(rxlog.accepted) - Len(rxlog.taken) - Len(reg.hold)
     IN /\ QueryTx => task'.reply \in {Reply("isTxEmpty", inTx = 0, 0),
                                       Reply("getTxFifoCount", TRUE, inTx)}
        /\ QueryRx => task'.reply \in {Reply("isRxEmpty", inRx = 0, 0),
                                       Reply("getRxFifoCount", TRUE, inRx)}]_vars

-----------------------------------------------------------------------------
(* Liveness, under FairSpec.                                               *)

\* Whatever is handed over reaches the wire, unless another transfer or a
\* shutdown takes its place.
TxDrains ==
  \A n \in 1 .. MaxCalls :
    txlog.active /\ txlog.sends = n ~>
      ~txlog.active \/ txlog.sends > n \/ txlog.wire = txlog.handed

\* A transfer that has bytes left to send when Uart_writeAsync returns is
\* announced as ended, under the same reservation.
EndCallbackEventually ==
  \A n \in 1 .. MaxCalls :
    txlog.active /\ txlog.sends = n /\ Queued # <<>> ~>
      \/ ~txlog.active \/ txlog.sends > n
      \/ \E i \in DOMAIN txlog.ended : txlog.ended[i] = n

\* While the receiver is enabled, received bytes reach the queue (or are dropped
\* on a full one), but for as many as frames shared an interrupt.
RxDelivered ==
  /\ Started /\ reg.re /\ uart.rxFifo # NULL
  /\ Len(reg.hold) > rxlog.missed
  ~>
    ~Started \/ uart.rxFifo = NULL \/ Len(reg.hold) <= rxlog.missed

\* Uart_write returns, without a timeout as well: the shift register empties
\* although the handler cannot run.
WriteReturns == task.pc = "write" ~> task.pc = "idle"

\* Uart_read with a timeout returns, although interrupts take the processor
\* and the receiver changes between the rounds of its loop.
ReadReturns ==
  task.pc \in {"readFlag", "readData"} /\ task.limit # 0 ~> task.pc = "idle"

\* An error the device has flagged when it interrupts reaches the registered
\* handler, while frames keep coming and flags are read and rewritten.
ErrorReported ==
  \A error \in {"OV", "PE", "FE"} :
    /\ Started /\ uart.errorHandler = "user"
    /\ error \in reg.errors /\ (vector.pending \/ isr = "error")
    ~>
      ~Started \/ error \in rxlog.told
=============================================================================
