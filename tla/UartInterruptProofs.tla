------------------------ MODULE UartInterruptProofs -------------------------
(***************************************************************************)
(* What the interrupts and the callbacks of the UART are for: while bytes  *)
(* are queued something is on its way to send them, the task leaves the    *)
(* vector enabled, each transfer's end is announced once, the handler      *)
(* keeps up with the receiver, and it calls the reception callbacks when   *)
(* their targets are reached.  Each of the five has an invariant of its    *)
(* own, on top of the one proved in UartProofs.                            *)
(***************************************************************************)
EXTENDS UartProofs, FiniteSetTheorems

\* The polling loop of Uart_read runs with the vector enabled: otherwise the
\* receiver would fill up behind it unnoticed.
ReadsUnmasked ==
  Started /\ task.pc \in {"readFlag", "readData"} => vector.enabled

\* The driver is not started between the writes of Uart_setConfig.
ConfigsStopped == task.pc \in {"interrupts", "loopback"} => ~Started

MaskInv == MaskedOnlyByWrite /\ ReadsUnmasked /\ ConfigsStopped

\* The vector after each of the calls that change it.
LEMMA VectorFields ==
  ASSUME NEW v \in Vector({ENTRY})
  PROVE  /\ vector_enable(v).enabled = TRUE /\ vector_enable(v).entry = v.entry
         /\ vector_disable(v).entry = v.entry
         /\ vector_enable(entry_install(v, ENTRY)).enabled = TRUE
         /\ entry_remove(vector_disable(v), ENTRY).entry = NoEntry
         /\ interrupt_clear(vector_disable(v)).entry = v.entry
         /\ raise(v).enabled = v.enabled /\ raise(v).entry = v.entry
         /\ acknowledge(v).enabled = v.enabled /\ acknowledge(v).entry = v.entry
         /\ NoEntry # ENTRY
  BY DEF Vector, vector_enable, vector_disable, entry_install, entry_remove,
         interrupt_clear, raise, acknowledge, NoEntry, ENTRY

\* A call that ends with the vector enabled, and is not Uart_setConfig.
LEMMA MaskUnmasked ==
  ASSUME vector'.enabled, task'.pc \notin {"interrupts", "loopback"}
  PROVE  MaskInv'
  BY DEF MaskInv, MaskedOnlyByWrite, ReadsUnmasked, ConfigsStopped

\* A step that leaves the task where it is, the vector as it is or enabled, and
\* the transmission queue detached if it was.
LEMMA MaskKept ==
  ASSUME MaskInv, task' = task, vector'.entry = vector.entry,
         \/ vector'.enabled
         \/ /\ vector'.enabled = vector.enabled
            /\ uart.txFifo = NULL => uart'.txFifo = NULL
  PROVE  MaskInv'
  BY DEF MaskInv, MaskedOnlyByWrite, ReadsUnmasked, ConfigsStopped, Started

\* The handler attaches a queue only where it enables the vector.
LEMMA InterruptMask ==
  ASSUME TypeOK, MaskInv, Interrupt
  PROVE  MaskInv'
  <1>0. vector \in Vector({ENTRY}) /\ uart \in UartType
    BY DEF TypeOK
  <1>1. CASE IsrEnter \/ EndReturns
    BY <1>0, <1>1, VectorFields, MaskKept DEF IsrEnter, EndReturns
  <1>2. CASE Uart_handleError \/ Uart_handleRx
    BY <1>0, <1>2, MaskKept
       DEF Uart_handleError, Uart_handleRx, DropByte, TakeByte, UartType
  <1>3. CASE Uart_handleTx
    BY <1>0, <1>3, MaskKept DEF Uart_handleTx
  <1>4. CASE \/ \E handler \in Refills : HandleRxRefilled(handler)
             \/ \E payload \in Chained : EndChains(payload)
    BY <1>0, <1>4, VectorFields, MaskKept
       DEF HandleRxRefilled, EndChains, WriteAsync, Unmasked
  <1>5. QED
    BY <1>1, <1>2, <1>3, <1>4 DEF Interrupt

\* The steps of the polling loops and of Uart_setConfig.
LEMMA TaskStepMask ==
  ASSUME TypeOK, PollsAlone, MaskInv, TaskStep
  PROVE  MaskInv'
  <1>0. vector \in Vector({ENTRY}) /\ task \in TaskType
    BY DEF TypeOK
  <1> USE DEF MaskInv, MaskedOnlyByWrite, ReadsUnmasked, ConfigsStopped, Started
  <1>1. CASE WritePoll
    BY <1>0, <1>1, VectorFields, MaskUnmasked
       DEF WritePoll, Unmasked, Return, Answer, TaskType
  <1>2. CASE WriteTimesOut
    <2>1. uart.txFifo = NULL /\ UNCHANGED <<uart, vector>>
      BY <1>2 DEF WriteTimesOut, PollsAlone
    <2>2. task'.pc = "idle" /\ task'.reply = Reply("write", FALSE, 0)
      BY <1>0, <1>2 DEF WriteTimesOut, Return, Answer, TaskType
    <2>3. QED
      BY <2>1, <2>2
  <1>3. CASE ReadFlag \/ ReadData \/ ReadNoData
    <2>1. task.pc \in {"readFlag", "readData"}
      BY <1>3 DEF ReadFlag, ReadData, ReadNoData
    <2>2. /\ task'.pc \notin {"interrupts", "loopback"}
          /\ vector' = vector \/ vector'.enabled
      BY <1>0, <1>3, VectorFields
         DEF ReadFlag, ReadData, ReadNoData, Unmasked, Return, Answer, Fail, TaskType
    <2>3. vector'.enabled \/ (~Started /\ vector' = vector)
      BY <2>1, <2>2
    <2>4. QED
      BY <2>2, <2>3, MaskUnmasked
  <1>4. CASE SetInterrupts \/ SetLoopback
    BY <1>4 DEF SetInterrupts, SetLoopback
  <1>5. QED
    BY <1>1, <1>2, <1>3, <1>4 DEF TaskStep

\* Every step keeps the vector enabled, but for those of Uart_write.
LEMMA NextMaskInv ==
  ASSUME TypeOK, PollsAlone, MaskInv, [Next]_vars
  PROVE  MaskInv'
  <1>0. vector \in Vector({ENTRY}) /\ task \in TaskType
    BY DEF TypeOK
  <1> USE DEF MaskInv, MaskedOnlyByWrite, ReadsUnmasked, ConfigsStopped, Started
  <1>1. CASE Device
    BY <1>0, <1>1, VectorFields, MaskKept
       DEF Device, TxDone, FrameArrives, BadFrameArrives
  <1>2. CASE \E data \in SyncBytes, limit \in WriteLimits : WriteBegin(data, limit)
    BY <1>0, <1>2 DEF WriteBegin, TaskType
  <1>3. CASE \/ WriteRefused \/ QueryTx \/ ReadRefused \/ QueryRx
             \/ \E payload \in Payloads : Uart_writeAsync(payload)
             \/ \E limit \in ReadLimits : ReadBegin(limit)
             \/ \E handler \in RxHandlers : Uart_readAsync(handler)
             \/ Uart_registerErrorHandler
    <2>1. vector'.enabled
      BY <1>0, <1>3, VectorFields
         DEF WriteRefused, QueryTx, ReadRefused, QueryRx, Uart_writeAsync,
             WriteAsync, ReadBegin, Uart_readAsync, Uart_registerErrorHandler, Unmasked
    <2>2. task'.pc \in {"idle", "readFlag"}
      BY <1>0, <1>3
         DEF WriteRefused, QueryTx, ReadRefused, QueryRx, Uart_writeAsync,
             ReadBegin, Uart_readAsync, Uart_registerErrorHandler, Done, Return,
             Answer, Fail, TaskType
    <2>3. QED
      BY <2>1, <2>2, MaskUnmasked
  <1>4. CASE Pull
    BY <1>4, MaskKept DEF Pull, TypeOK, UartType
  <1>5. CASE Uart_init \/ \E config \in Configs : Uart_setConfig(config)
    BY <1>0, <1>5, VectorFields DEF Uart_init, Uart_setConfig
  <1>6. CASE Uart_startup
    BY <1>0, <1>6, VectorFields, MaskUnmasked
       DEF Uart_startup, Done, Return, Answer, TaskType
  <1>7. CASE Uart_shutdown
    BY <1>0, <1>7, VectorFields DEF Uart_shutdown
  <1>8. CASE UNCHANGED vars
    BY <1>8 DEF vars
  <1>9. QED
    BY <1>1, <1>2, <1>3, <1>4, <1>5, <1>6, <1>7, <1>8, InterruptMask, TaskStepMask
       DEF Next, Sending, Receiving, Lifecycle

\* The invariant of the vector, for the theorems below as well.
LEMMA MaskInvariant == Spec => [](RxInv /\ MaskInv)
  <1>1. Init => MaskInv
    <2> SUFFICES ASSUME Init PROVE MaskInv
      OBVIOUS
    <2>1. vector.entry = NoEntry /\ NoEntry # ENTRY
      BY DEF Init, IdleVector, NoEntry, ENTRY
    <2>2. ~Started
      BY <2>1 DEF Started
    <2>3. QED
      BY <2>2 DEF MaskInv, MaskedOnlyByWrite, ReadsUnmasked, ConfigsStopped
  <1>2. RxInv /\ MaskInv /\ [Next]_vars => MaskInv'
    BY NextMaskInv DEF RxInv
  <1>3. QED
    BY <1>1, <1>2, RxInvariant, PTL DEF Spec

\* MaskedOnlyByWrite: no path through a call of Uart.c but the timeout of
\* Uart_write, which had no queue to refuse for, returns with the vector of a
\* started driver disabled.
THEOREM Masked == Spec => []MaskedOnlyByWrite
  <1>1. MaskInv => MaskedOnlyByWrite
    BY DEF MaskInv
  <1>2. QED
    BY <1>1, MaskInvariant, PTL

-----------------------------------------------------------------------------
\* A transfer is under way only with the driver started and the transmitter
\* and its interrupt on: Uart_setConfig runs between Uart_shutdown, which ends
\* the transfer, and Uart_startup.
ActiveArmed ==
  /\ reg.te => reg.ti
  /\ txlog.active => Started /\ reg.te

\* The actions that touch none of what the two formulas look at, but may
\* request an interrupt.
LEMMA WakeKept ==
  ASSUME ActiveArmed, TxNeverStalls,
         txlog'.active = txlog.active, vector'.entry = vector.entry,
         reg'.te = reg.te, reg'.ti = reg.ti, reg'.shift = reg.shift,
         uart'.txFifo = uart.txFifo,
         vector.pending => vector'.pending \/ isr' = "error",
         isr \in {"error", "rx", "tx"} => isr' \in {"error", "rx", "tx"}
  PROVE  ActiveArmed' /\ TxNeverStalls'
  <1>1. Queued' = Queued
    BY DEF Queued
  <1>2. ActiveArmed'
    BY DEF ActiveArmed, Started
  <1>3. TxNeverStalls'
    BY <1>1 DEF TxNeverStalls
  <1>4. QED
    BY <1>2, <1>3

\* The end of a frame requests an interrupt.
LEMMA TxDoneWakes ==
  ASSUME TypeOK, ActiveArmed, TxNeverStalls, TxDone
  PROVE  ActiveArmed' /\ TxNeverStalls'
  <1> DEFINE sent == [reg EXCEPT !.shift = NULL]
  <1>0. vector \in Vector({ENTRY}) /\ reg \in RegType /\ txlog \in TxLogType
    BY DEF TypeOK
  <1>1. sent \in RegType /\ sent.te = reg.te /\ sent.ti = reg.ti
    BY <1>0 DEF RegType
  <1>2. reg' = sent \/ reg' = Received(sent, reg.shift)
    BY DEF TxDone
  <1>3. reg'.te = reg.te /\ reg'.ti = reg.ti
    <2> HIDE DEF sent
    <2>1. QED
      BY <1>1, <1>2 DEF Received, RegType
  <1>4. txlog'.active = txlog.active /\ vector'.entry = vector.entry
    BY <1>0 DEF TxDone, TxLogType, raise, Vector
  <1>5. ActiveArmed'
    BY <1>3, <1>4 DEF ActiveArmed, Started
  <1>6. reg.ti => vector'.pending
    BY <1>0 DEF TxDone, raise, Vector
  <1>7. TxNeverStalls'
    BY <1>3, <1>4, <1>5, <1>6 DEF ActiveArmed, TxNeverStalls
  <1>8. QED
    BY <1>5, <1>7

\* The last part of the handler, the last that could have sent the next byte,
\* sends it if the transmitter is idle.
LEMMA HandleTxWakes ==
  ASSUME TypeOK, ActiveArmed, TxNeverStalls, Uart_handleTx
  PROVE  ActiveArmed' /\ TxNeverStalls'
  <1>0. /\ reg \in RegType /\ txlog \in TxLogType /\ uart \in UartType
        /\ FifosOK
    BY DEF TypeOK
  <1>1. CASE reg.te /\ TS /\ uart.txFifo # NULL /\ ~ByteFifo_isEmpty(uart.txFifo)
    <2>1. /\ PullData(uart.txFifo) \in Byte
          /\ reg' = [reg EXCEPT !.shift = PullData(uart.txFifo)]
          /\ txlog' \in {txlog, [txlog EXCEPT !.ended = Append(@, uart.txHandler)]}
          /\ UNCHANGED vector
      BY <1>0, <1>1, PullContents DEF Uart_handleTx, FifosOK
    <2>2. /\ reg'.shift # NULL /\ reg'.te = reg.te /\ reg'.ti = reg.ti
          /\ txlog'.active = txlog.active
      BY <1>0, <2>1, NullAssumption DEF RegType, TxLogType
    <2>3. QED
      BY <2>1, <2>2 DEF ActiveArmed, TxNeverStalls, Started
  <1>2. CASE ~(reg.te /\ TS /\ uart.txFifo # NULL /\ ~ByteFifo_isEmpty(uart.txFifo))
    <2>1. UNCHANGED <<reg, uart, txlog, vector>>
      BY <1>2 DEF Uart_handleTx
    <2>2. Queued # <<>> => uart.txFifo # NULL /\ ~ByteFifo_isEmpty(uart.txFifo)
      <3>1. ASSUME uart.txFifo # NULL, ByteFifo_isEmpty(uart.txFifo)
            PROVE  Contents(uart.txFifo) = <<>>
        <4>1. IsByteFifo(uart.txFifo)
          BY <1>0, <3>1 DEF FifosOK
        <4>2. /\ Contents(uart.txFifo) \in Seq(Byte)
              /\ Len(Contents(uart.txFifo)) = 0
          BY <3>1, <4>1, CountRange, ContentsType
        <4>3. QED
          BY <4>2, EmptySeq
      <3>2. QED
        BY <3>1 DEF Queued
    <2>3. txlog.active /\ Queued # <<>> => reg.shift # NULL
      BY <1>2, <2>2 DEF ActiveArmed, TS
    <2>4. Queued' = Queued
      BY <2>1 DEF Queued
    <2>5. QED
      BY <2>1, <2>3, <2>4 DEF ActiveArmed, TxNeverStalls, Started
  <1>3. QED
    BY <1>1, <1>2

\* Uart_writeAsync leaves the transmitter busy, whatever it found and whoever
\* called it.
LEMMA WriteAsyncWakes ==
  ASSUME NEW payload \in Payloads, TypeOK, ActiveArmed, TxNeverStalls,
         WriteAsync(payload)
  PROVE  ActiveArmed' /\ TxNeverStalls'
  <1>0. reg \in RegType /\ vector \in Vector({ENTRY})
    BY DEF TypeOK
  <1>1. reg' = IF ~TS THEN reg ELSE [reg EXCEPT !.shift = First(Given(payload))]
    BY DEF WriteAsync, Given, First
  <1>2. First(Given(payload)) \in Byte
    BY GivenType
  <1>3. reg'.shift # NULL /\ reg'.te = reg.te /\ reg'.ti = reg.ti
    BY <1>0, <1>1, <1>2, NullAssumption DEF RegType, TS
  <1>4. vector'.entry = vector.entry
    BY <1>0 DEF WriteAsync, Unmasked, vector_enable, Vector
  <1>5. TxNeverStalls'
    BY <1>3 DEF TxNeverStalls
  <1>6. Started /\ reg.te
    BY DEF WriteAsync
  <1>7. QED
    BY <1>3, <1>4, <1>5, <1>6 DEF ActiveArmed, Started

\* Uart_init and Uart_shutdown leave no transfer under way, and Uart_setConfig
\* enables the transmitter and its interrupt with none.
LEMMA LifecycleWakes ==
  ASSUME TypeOK, ActiveArmed,
         \/ Uart_init \/ Uart_shutdown
         \/ SetInterrupts /\ ConfigsStopped
  PROVE  ActiveArmed' /\ TxNeverStalls'
  <1>0. reg \in RegType /\ txlog \in TxLogType
    BY DEF TypeOK
  <1>1. (reg.te => reg.ti)' /\ ~txlog'.active
    <2>1. CASE Uart_init
      BY <1>0, <2>1 DEF Uart_init, RegType, TxLogType
    <2>2. CASE Uart_shutdown
      BY <1>0, <2>2 DEF Uart_shutdown, RegType, TxLogType
    <2>3. CASE SetInterrupts /\ ConfigsStopped
      BY <1>0, <2>3 DEF SetInterrupts, ConfigsStopped, ActiveArmed, RegType
    <2>4. QED
      BY <2>1, <2>2, <2>3
  <1>2. QED
    BY <1>1 DEF ActiveArmed, TxNeverStalls

\* The device's other steps request an interrupt or leave the request alone.
LEMMA FramesWake ==
  ASSUME TypeOK, ActiveArmed, TxNeverStalls,
         \/ \E b \in LineBytes : FrameArrives(b)
         \/ \E error \in LineErrors : BadFrameArrives(error)
  PROVE  ActiveArmed' /\ TxNeverStalls'
  <1>0. reg \in RegType /\ vector \in Vector({ENTRY})
    BY DEF TypeOK
  <1>1. CASE \E b \in LineBytes : FrameArrives(b)
    BY <1>0, <1>1, WakeKept DEF FrameArrives, Received, RegType, raise, Vector
  <1>2. CASE \E error \in LineErrors : BadFrameArrives(error)
    BY <1>0, <1>2, WakeKept DEF BadFrameArrives, RegType, raise, Vector
  <1>3. QED
    BY <1>1, <1>2

\* The handler's other parts.
LEMMA InterruptWakes ==
  ASSUME TypeOK, ActiveArmed, TxNeverStalls,
         \/ IsrEnter \/ Uart_handleError \/ Uart_handleRx \/ EndReturns
         \/ \E handler \in Refills : HandleRxRefilled(handler)
  PROVE  ActiveArmed' /\ TxNeverStalls'
  <1>0. reg \in RegType /\ vector \in Vector({ENTRY}) /\ uart \in UartType
    BY DEF TypeOK
  <1>1. CASE IsrEnter
    BY <1>0, <1>1, WakeKept DEF IsrEnter, acknowledge, Vector
  <1>2. CASE Uart_handleError
    BY <1>0, <1>2, WakeKept DEF Uart_handleError, UartType
  <1>3. CASE Uart_handleRx
    BY <1>0, <1>3, WakeKept
       DEF Uart_handleRx, DropByte, TakeByte, UartType, RegType
  <1>4. CASE \E handler \in Refills : HandleRxRefilled(handler)
    BY <1>0, <1>4, WakeKept
       DEF HandleRxRefilled, Unmasked, vector_enable, Vector, UartType, RegType
  <1>5. CASE EndReturns
    BY <1>5, WakeKept DEF EndReturns
  <1>6. QED
    BY <1>1, <1>2, <1>3, <1>4, <1>5

\* The polling loop of Uart_write fills the shift register or touches nothing.
LEMMA WritePollWakes ==
  ASSUME TypeOK, ActiveArmed, TxNeverStalls, WritePoll
  PROVE  ActiveArmed' /\ TxNeverStalls'
  <1>0. /\ reg \in RegType /\ vector \in Vector({ENTRY}) /\ task \in TaskType
        /\ txlog \in TxLogType
    BY DEF TypeOK
  <1>1. CASE TS
    <2>1. /\ reg'.shift # NULL /\ reg'.te = reg.te /\ reg'.ti = reg.ti
          /\ txlog'.active = txlog.active
      BY <1>0, <1>1, NullAssumption DEF WritePoll, RegType, TaskType, TxLogType
    <2>2. vector'.entry = vector.entry
      BY <1>0, <1>1 DEF WritePoll, Unmasked, vector_enable, Vector
    <2>3. QED
      BY <2>1, <2>2 DEF ActiveArmed, TxNeverStalls, Started
  <1>2. CASE ~TS
    BY <1>2, WakeKept DEF WritePoll
  <1>3. QED
    BY <1>1, <1>2

\* Every other step of the task only masks or unmasks the vector, or enables
\* the receiver or the loop back.
LEMMA CallsWake ==
  ASSUME TypeOK, ActiveArmed, TxNeverStalls,
         \/ WriteTimesOut \/ ReadFlag \/ ReadData \/ ReadNoData
         \/ WriteRefused \/ QueryTx \/ ReadRefused \/ QueryRx \/ Pull
         \/ \E data \in SyncBytes, limit \in WriteLimits : WriteBegin(data, limit)
         \/ \E limit \in ReadLimits : ReadBegin(limit)
         \/ \E handler \in RxHandlers : Uart_readAsync(handler)
         \/ \E config \in Configs : Uart_setConfig(config)
         \/ SetLoopback \/ Uart_startup \/ Uart_registerErrorHandler
  PROVE  ActiveArmed' /\ TxNeverStalls'
  <1>0. reg \in RegType /\ vector \in Vector({ENTRY}) /\ uart \in UartType
    BY DEF TypeOK
  <1>1. /\ UNCHANGED <<txlog, isr>>
        /\ reg'.te = reg.te /\ reg'.ti = reg.ti /\ reg'.shift = reg.shift
    BY <1>0
       DEF WriteTimesOut, ReadFlag, ReadData, ReadNoData, WriteRefused, QueryTx,
           ReadRefused, QueryRx, Pull, WriteBegin, ReadBegin, Uart_readAsync,
           Uart_setConfig, SetLoopback, Uart_startup,
           Uart_registerErrorHandler, RegType
  <1>2. uart'.txFifo = uart.txFifo
    BY <1>0
       DEF WriteTimesOut, ReadFlag, ReadData, ReadNoData, WriteRefused, QueryTx,
           ReadRefused, QueryRx, Pull, WriteBegin, ReadBegin, Uart_readAsync,
           Uart_setConfig, SetLoopback, Uart_startup,
           Uart_registerErrorHandler, UartType
  <1>3. /\ vector.pending => vector'.pending
        /\ vector'.entry = vector.entry \/ Uart_startup
    BY <1>0
       DEF WriteTimesOut, ReadFlag, ReadData, ReadNoData, WriteRefused, QueryTx,
           ReadRefused, QueryRx, Pull, WriteBegin, ReadBegin, Uart_readAsync,
           Uart_setConfig, SetLoopback, Uart_startup,
           Uart_registerErrorHandler, Unmasked, vector_enable,
           vector_disable, entry_install, Vector
  <1>4. CASE vector'.entry = vector.entry
    BY <1>1, <1>2, <1>3, <1>4, WakeKept
  <1>5. CASE Uart_startup
    <2>1. ~txlog.active
      BY <1>5 DEF Uart_startup, ActiveArmed
    <2>2. QED
      BY <1>1, <2>1 DEF ActiveArmed, TxNeverStalls
  <1>6. QED
    BY <1>3, <1>4, <1>5

\* Every step keeps the two.
LEMMA NextNeverStalls ==
  ASSUME TypeOK, ConfigsStopped, ActiveArmed, TxNeverStalls, [Next]_vars
  PROVE  ActiveArmed' /\ TxNeverStalls'
  <1>1. CASE Device
    BY <1>1, TxDoneWakes, FramesWake DEF Device
  <1>2. CASE Interrupt
    <2>1. ASSUME NEW payload \in Chained, EndChains(payload)
          PROVE  ActiveArmed' /\ TxNeverStalls'
      <3>1. payload \in Payloads
        BY UartAssumption
      <3>2. QED
        BY <2>1, <3>1, WriteAsyncWakes DEF EndChains
    <2>2. QED
      BY <1>2, <2>1, InterruptWakes, HandleTxWakes DEF Interrupt
  <1>3. CASE TaskStep
    BY <1>3, WritePollWakes, LifecycleWakes, CallsWake DEF TaskStep
  <1>4. CASE Sending
    BY <1>4, WriteAsyncWakes, CallsWake DEF Sending, Uart_writeAsync
  <1>5. CASE Receiving
    BY <1>5, CallsWake DEF Receiving
  <1>6. CASE Lifecycle
    BY <1>6, LifecycleWakes, CallsWake DEF Lifecycle
  <1>7. CASE UNCHANGED vars
    BY <1>7, WakeKept DEF vars
  <1>8. QED
    BY <1>1, <1>2, <1>3, <1>4, <1>5, <1>6, <1>7 DEF Next

\* TxNeverStalls: between Uart_writeAsync, which tests the shift register and
\* may find the frame in it about to end, and Uart_handleTx, which may run before
\* or after, no order of steps leaves queued bytes with nothing on its way to
\* send them.
THEOREM NeverStalls == Spec => []TxNeverStalls
  <1>1. Init => ActiveArmed /\ TxNeverStalls
    BY DEF Init, IdleReg, ActiveArmed, TxNeverStalls
  <1>2. RxInv /\ MaskInv /\ (ActiveArmed /\ TxNeverStalls) /\ [Next]_vars
          => (ActiveArmed /\ TxNeverStalls)'
    BY NextNeverStalls DEF RxInv, MaskInv
  <1>3. QED
    BY <1>1, <1>2, MaskInvariant, PTL DEF Spec

-----------------------------------------------------------------------------
\* The queue attached is that of the latest transfer, and no announcement is
\* ahead of it.
LatestAttached ==
  /\ uart.txFifo # NULL => uart.txHandler = txlog.sends
  /\ \A i \in DOMAIN txlog.ended : txlog.ended[i] <= txlog.sends

EndInv == LatestAttached /\ EndCallbackOnce

\* A step that leaves the queue and the announcements alone.
LEMMA EndKept ==
  ASSUME EndInv,
         txlog'.ended = txlog.ended, txlog'.sends = txlog.sends,
         uart'.txFifo = uart.txFifo, uart'.txHandler = uart.txHandler
  PROVE  EndInv'
  <1>1. Queued' = Queued
    BY DEF Queued
  <1>2. QED
    BY <1>1 DEF EndInv, LatestAttached, EndCallbackOnce

\* A ring is empty when the queue it stands for is.
LEMMA EmptyContents ==
  ASSUME NEW f, IsByteFifo(f)
  PROVE  ByteFifo_isEmpty(f) <=> Contents(f) = <<>>
  <1>1. /\ Contents(f) \in Seq(Byte)
        /\ Len(Contents(f)) = ByteFifo_getCount(f)
        /\ ByteFifo_getCount(f) = 0 <=> ByteFifo_isEmpty(f)
    BY CountRange, ContentsType
  <1>2. QED
    BY <1>1, EmptySeq

\* A transfer that still has queued bytes has not been announced, so that the
\* announcement with its last byte is the first.
LEMMA HandleTxEnds ==
  ASSUME TypeOK, EndInv, Uart_handleTx
  PROVE  EndInv'
  <1>1. CASE UNCHANGED <<reg, uart, txlog>>
    BY <1>1, EndKept
  <1>2. CASE ~UNCHANGED <<reg, uart, txlog>>
    <2> DEFINE rest == ByteFifo_pull(uart.txFifo)
               e == txlog.ended
    <2>1. /\ uart.txFifo # NULL /\ IsByteFifo(uart.txFifo)
          /\ ~ByteFifo_isEmpty(uart.txFifo)
          /\ uart' = [uart EXCEPT !.txFifo = rest]
          /\ txlog' = IF EndReached(rest)
                      THEN [txlog EXCEPT !.ended = Append(@, uart.txHandler)]
                      ELSE txlog
      BY <1>2 DEF TypeOK, FifosOK, Uart_handleTx
    <2>2. Queued # <<>> /\ IsByteFifo(rest)
      BY <2>1, EmptyContents, PullContents DEF Queued
    <2>3. /\ uart.txHandler = txlog.sends /\ txlog.sends \in Nat
          /\ e \in Seq(Nat)
          /\ \A i \in DOMAIN e : e[i] < txlog.sends
      BY <2>1, <2>2
         DEF EndInv, LatestAttached, EndCallbackOnce, TypeOK, TxLogType
    <2>4. /\ uart'.txFifo = rest /\ uart'.txHandler = uart.txHandler
          /\ txlog'.sends = txlog.sends
      BY <2>1 DEF TypeOK, UartType, TxLogType
    <2>5. \A i, j \in DOMAIN e : i < j => e[i] < e[j]
      BY DEF EndInv, EndCallbackOnce
    <2>6. CASE EndReached(rest)
      <3> DEFINE n == txlog.sends
                 a == Append(e, n)
      <3>1. txlog'.ended = a
        BY <2>1, <2>3, <2>6 DEF TypeOK, TxLogType
      <3>2. Queued' = <<>>
        BY <2>2, <2>4, <2>6, EmptyContents, NullAssumption
           DEF Queued, EndReached, IsByteFifo
      <3> HIDE DEF e, rest
      <3>3. /\ \A i, j \in DOMAIN a : i < j => a[i] < a[j]
            /\ \A i \in DOMAIN a : a[i] <= n
        BY <2>3, <2>5
      <3> HIDE DEF a
      <3>4. QED
        BY <2>3, <2>4, <3>1, <3>2, <3>3
           DEF EndInv, LatestAttached, EndCallbackOnce
    <2>7. CASE ~EndReached(rest)
      <3>1. txlog'.ended = e
        BY <2>1, <2>7
      <3> HIDE DEF rest
      <3>2. \A i \in DOMAIN txlog'.ended : txlog'.ended[i] < txlog'.sends
        BY <2>3, <2>4, <3>1
      <3>3. \A i \in DOMAIN txlog'.ended : txlog'.ended[i] # txlog'.sends
        BY <2>3, <2>4, <3>1
      <3>4. QED
        BY <2>3, <2>4, <2>5, <3>1, <3>3
           DEF EndInv, LatestAttached, EndCallbackOnce
    <2>8. QED
      BY <2>6, <2>7
  <1>3. QED
    BY <1>1, <1>2

\* A new transfer has not been announced.
LEMMA WriteAsyncEnds ==
  ASSUME NEW payload \in Payloads, TypeOK, EndInv, WriteAsync(payload)
  PROVE  EndInv'
  <1> DEFINE e == txlog.ended
             n == txlog.sends
  <1>1. /\ txlog'.ended = e /\ txlog'.sends = n + 1
        /\ uart'.txHandler = n + 1
    BY DEF WriteAsync, TypeOK, TxLogType, UartType
  <1>2. n \in Nat /\ e \in Seq(Nat)
    BY DEF TypeOK, TxLogType
  <1>3. \A i \in DOMAIN e : e[i] <= n /\ e[i] \in Nat
    BY <1>2, ElementOfSeq DEF EndInv, LatestAttached
  <1>4. \A i, j \in DOMAIN e : i < j => e[i] < e[j]
    BY DEF EndInv, EndCallbackOnce
  <1> HIDE DEF e, n
  <1>5. \A i \in DOMAIN e : e[i] # n + 1 /\ e[i] <= n + 1
    BY <1>2, <1>3
  <1>6. QED
    BY <1>1, <1>4, <1>5 DEF EndInv, LatestAttached, EndCallbackOnce

\* Every step keeps the announcements in order.
LEMMA NextEndInv ==
  ASSUME TypeOK, EndInv, [Next]_vars
  PROVE  EndInv'
  <1>0. uart \in UartType /\ txlog \in TxLogType
    BY DEF TypeOK
  <1>1. CASE Device
    BY <1>0, <1>1, EndKept
       DEF Device, TxDone, FrameArrives, BadFrameArrives, TxLogType
  <1>2. CASE \/ IsrEnter \/ Uart_handleError \/ Uart_handleRx \/ EndReturns
             \/ \E handler \in Refills : HandleRxRefilled(handler)
    BY <1>0, <1>2, EndKept
       DEF IsrEnter, Uart_handleError, Uart_handleRx, EndReturns, HandleRxRefilled,
           DropByte, TakeByte, UartType
  <1>3. CASE Uart_handleTx
    BY <1>3, HandleTxEnds
  <1>4. CASE TaskStep
    BY <1>0, <1>4, EndKept
       DEF TaskStep, WritePoll, WriteTimesOut, ReadFlag, ReadData, ReadNoData,
           SetInterrupts, SetLoopback, TxLogType
  <1>5. CASE \/ WriteRefused \/ QueryTx
             \/ \E data \in SyncBytes, limit \in WriteLimits : WriteBegin(data, limit)
    BY <1>5, EndKept DEF WriteRefused, QueryTx, WriteBegin
  <1>6. ASSUME NEW payload \in Payloads, Uart_writeAsync(payload) PROVE EndInv'
    BY <1>6, WriteAsyncEnds DEF Uart_writeAsync
  <1>7. CASE Receiving
    BY <1>0, <1>7, EndKept
       DEF Receiving, ReadRefused, ReadBegin, Uart_readAsync, Pull, QueryRx, UartType
  <1>8. CASE Uart_init
    <2>1. /\ uart'.txFifo = NULL /\ Queued' = <<>>
          /\ txlog'.ended = txlog.ended /\ txlog'.sends = txlog.sends
      BY <1>0, <1>8 DEF Uart_init, NewUart, Queued, TxLogType
    <2>2. QED
      BY <2>1 DEF EndInv, LatestAttached, EndCallbackOnce
  <1>9. CASE \/ Uart_startup \/ Uart_shutdown \/ Uart_registerErrorHandler
             \/ \E config \in Configs : Uart_setConfig(config)
    BY <1>0, <1>9, EndKept
       DEF Uart_startup, Uart_shutdown, Uart_registerErrorHandler, Uart_setConfig,
           UartType, TxLogType
  <1>10. CASE UNCHANGED vars
    BY <1>10, EndKept DEF vars
  <1>11. ASSUME NEW payload \in Chained, EndChains(payload) PROVE EndInv'
    <2>1. payload \in Payloads
      BY UartAssumption
    <2>2. QED
      BY <1>11, <2>1, WriteAsyncEnds DEF EndChains
  <1>12. QED
    BY <1>1, <1>2, <1>3, <1>4, <1>5, <1>6, <1>7, <1>8, <1>9, <1>10, <1>11
       DEF Next, Interrupt, Sending, Lifecycle

\* EndCallbackOnce: Uart_handleTx calls the end-of-transmission callback at most
\* once per Uart_writeAsync, in their order, and never with bytes of that
\* transfer still queued, when transfers replace each other at any point too.
THEOREM EndsOnce == Spec => []EndCallbackOnce
  <1>1. Init => EndInv
    BY DEF Init, NewUart, Queued, EndInv, LatestAttached, EndCallbackOnce
  <1>2. TypeOK /\ EndInv /\ [Next]_vars => EndInv'
    BY NextEndInv
  <1>3. EndInv => EndCallbackOnce
    BY DEF EndInv
  <1>4. QED
    BY <1>1, <1>2, <1>3, TypeCorrect, PTL DEF Spec
-----------------------------------------------------------------------------
\* A step that does not fill the receiver, withdraw the request, run the
\* reception part of the handler or attach a queue.
LEMMA BacklogKept ==
  ASSUME TypeOK, RxBacklogExplained,
         reg'.re = reg.re, reg'.hold = reg.hold,
         rxlog'.missed = rxlog.missed,
         uart'.rxFifo # NULL => uart.rxFifo # NULL,
         vector.pending => vector'.pending \/ (isr = "none" /\ isr' = "error"),
         isr \in {"error", "rx"} => isr' \in {"error", "rx"}
  PROVE  RxBacklogExplained'
  <1> DEFINE m == rxlog.missed
             k == Len(reg.hold)
  <1>1. m \in Nat /\ k \in Nat
    BY LenProperties DEF TypeOK, RxLogType, RegType
  <1>2. reg.re /\ uart.rxFifo # NULL =>
          k <= m + (IF vector.pending THEN 1 ELSE 0)
                 + (IF isr \in {"error", "rx"} THEN 1 ELSE 0)
    BY DEF RxBacklogExplained
  <1>3. Len(reg'.hold) = k /\ rxlog'.missed = m
    OBVIOUS
  <1> HIDE DEF m, k
  <1>4. reg.re /\ uart.rxFifo # NULL =>
          k <= m + (IF vector'.pending THEN 1 ELSE 0)
                 + (IF isr' \in {"error", "rx"} THEN 1 ELSE 0)
    BY <1>1, <1>2
  <1>5. QED
    BY <1>3, <1>4 DEF RxBacklogExplained

\* A frame adds one byte to the receiver, and one to what the invariant allows:
\* the request it makes, or, if it makes none of its own, the frames missed.
LEMMA ReceivedBacklog ==
  ASSUME TypeOK, RxBacklogExplained, NEW b \in Byte, NEW r \in RegType,
         r.hold = reg.hold, r.re = reg.re, r.ri = reg.ri,
         reg' = Received(r, b), LogReceived(b),
         reg.ri => vector'.pending,
         vector.pending => vector'.pending,
         UNCHANGED <<uart, isr>>
  PROVE  RxBacklogExplained'
  <1>0. rxlog \in RxLogType /\ reg \in RegType
    BY DEF TypeOK
  <1>1. CASE reg.re /\ Len(reg.hold) < HwDepth
    <2> DEFINE m == rxlog.missed
               k == Len(reg.hold)
    <2>1. m \in Nat /\ k \in Nat
      BY <1>0, LenProperties DEF RxLogType, RegType
    <2>2. /\ reg'.re = reg.re
          /\ reg'.hold = Append(reg.hold, b)
      BY <1>1 DEF Received, RegType
    <2>3. Len(reg'.hold) = k + 1
      BY <1>0, <2>2, AppendProperties DEF RegType
    <2>4. rxlog'.missed = IF vector.pending \/ ~reg.ri THEN m + 1 ELSE m
      BY <1>0, <1>1 DEF LogReceived, RxLogType
    <2>5. uart.rxFifo # NULL =>
            k <= m + (IF vector.pending THEN 1 ELSE 0)
                   + (IF isr \in {"error", "rx"} THEN 1 ELSE 0)
      BY <1>1 DEF RxBacklogExplained
    <2> HIDE DEF m, k
    <2>6. uart.rxFifo # NULL =>
            k + 1 <= rxlog'.missed + (IF vector'.pending THEN 1 ELSE 0)
                                   + (IF isr \in {"error", "rx"} THEN 1 ELSE 0)
      BY <2>1, <2>4, <2>5
    <2>7. QED
      BY <2>2, <2>3, <2>6 DEF RxBacklogExplained
  <1>2. CASE ~(reg.re /\ Len(reg.hold) < HwDepth)
    <2>1. /\ reg'.re = reg.re /\ reg'.hold = reg.hold
          /\ rxlog' = rxlog
      BY <1>2 DEF Received, RegType, LogReceived
    <2>2. QED
      BY <2>1, BacklogKept
  <1>3. QED
    BY <1>1, <1>2

\* Every step of the device requests an interrupt for what it adds.
LEMMA DeviceBacklog ==
  ASSUME TypeOK, RxBacklogExplained, Device
  PROVE  RxBacklogExplained'
  <1>0. reg \in RegType /\ vector \in Vector({ENTRY})
    BY DEF TypeOK
  <1>1. CASE TxDone
    <2> DEFINE sent == [reg EXCEPT !.shift = NULL]
    <2>1. /\ reg.shift \in Byte /\ sent \in RegType
          /\ sent.hold = reg.hold /\ sent.re = reg.re /\ sent.ri = reg.ri
      BY <1>0, <1>1 DEF RegType, TxDone
    <2>2. /\ vector.pending => vector'.pending
          /\ reg.lb /\ reg.ri => vector'.pending
          /\ UNCHANGED <<uart, isr>>
      BY <1>0, <1>1 DEF TxDone, raise, Vector
    <2>3. CASE reg.lb
      <3>1. reg' = Received(sent, reg.shift) /\ LogReceived(reg.shift)
        BY <1>1, <2>3 DEF TxDone
      <3> HIDE DEF sent
      <3>2. QED
        BY <2>1, <2>2, <2>3, <3>1, ReceivedBacklog
    <2>4. CASE ~reg.lb
      BY <1>1, <2>1, <2>2, <2>4, BacklogKept DEF TxDone
    <2>5. QED
      BY <2>3, <2>4
  <1>2. ASSUME NEW b \in LineBytes, FrameArrives(b) PROVE RxBacklogExplained'
    <2>1. b \in Byte
      BY UartAssumption
    <2>2. /\ reg' = Received(reg, b) /\ LogReceived(b) /\ UNCHANGED <<uart, isr>>
          /\ vector.pending => vector'.pending
          /\ reg.ri => vector'.pending
      BY <1>0, <1>2 DEF FrameArrives, raise, Vector
    <2>3. QED
      BY <1>0, <2>1, <2>2, ReceivedBacklog
  <1>3. ASSUME NEW error \in LineErrors, BadFrameArrives(error)
        PROVE  RxBacklogExplained'
    BY <1>0, <1>3, BacklogKept DEF BadFrameArrives, RegType, raise, Vector
  <1>4. QED
    BY <1>1, <1>2, <1>3 DEF Device

\* The reception part of the handler takes one byte, if there is one, and
\* with it the allowance of the interrupt being handled.
LEMMA HandleRxBacklog ==
  ASSUME TypeOK, RxBacklogExplained,
         Uart_handleRx \/ \E handler \in Refills : HandleRxRefilled(handler)
  PROVE  RxBacklogExplained'
  <1> DEFINE m == rxlog.missed
             k == Len(reg.hold)
             p == IF vector.pending THEN 1 ELSE 0
  <1>0. /\ reg \in RegType /\ vector \in Vector({ENTRY}) /\ uart \in UartType
        /\ rxlog \in RxLogType
    BY DEF TypeOK
  <1>1. m \in Nat /\ k \in Nat /\ p \in Nat
    BY <1>0, LenProperties DEF RxLogType, RegType
  <1>2. isr = "rx" /\ isr' = "tx"
    BY DEF Uart_handleRx, HandleRxRefilled
  <1>3. reg.re /\ uart.rxFifo # NULL => k <= m + p + 1
    BY <1>2 DEF RxBacklogExplained
  <1>4. /\ reg'.re = reg.re
        /\ reg'.hold = IF RxReady THEN Tail(reg.hold) ELSE reg.hold
    BY <1>0 DEF Uart_handleRx, HandleRxRefilled, RegType
  <1>5. vector'.pending = vector.pending
    BY <1>0 DEF Uart_handleRx, HandleRxRefilled, Unmasked, vector_enable, Vector
  <1>6. rxlog'.missed = m
    BY <1>0
       DEF Uart_handleRx, HandleRxRefilled, DropByte, TakeByte, RxCountFrom, RxLogType
  <1>7. ~RxReady => uart'.rxFifo = uart.rxFifo
    BY DEF Uart_handleRx, HandleRxRefilled
  <1>8. CASE RxReady
    <2>1. Len(reg'.hold) = k - 1
      BY <1>0, <1>4, <1>8, HeadTailProperties DEF RxReady, DR, RegType
    <2>2. k - 1 <= m + p
      <3> HIDE DEF m, k, p
      <3>1. QED
        BY <1>1, <1>3, <1>8 DEF RxReady
    <2>3. Len(reg'.hold) <= rxlog'.missed + (IF vector'.pending THEN 1 ELSE 0) + 0
      <3>1. (IF vector'.pending THEN 1 ELSE 0) = p
        BY <1>5
      <3> HIDE DEF m, k, p
      <3>2. QED
        BY <1>1, <1>6, <2>1, <2>2, <3>1
    <2>4. QED
      BY <1>2, <1>4, <2>3 DEF RxBacklogExplained
  <1>9. CASE ~RxReady
    <2>1. reg.re /\ uart.rxFifo # NULL => Len(reg'.hold) = 0
      BY <1>4, <1>9 DEF RxReady, DR
    <2>2. reg.re /\ uart.rxFifo # NULL =>
            Len(reg'.hold) <= rxlog'.missed + (IF vector'.pending THEN 1 ELSE 0) + 0
      <3>1. (IF vector'.pending THEN 1 ELSE 0) = p
        BY <1>5
      <3> HIDE DEF m, p
      <3>2. QED
        BY <1>1, <1>6, <2>1, <3>1
    <2>3. QED
      BY <1>2, <1>4, <1>7, <1>9, <2>2 DEF RxBacklogExplained
  <1>10. QED
    BY <1>8, <1>9

\* Uart_readAsync and Uart_setConfig take what the receiver holds for missed,
\* and Uart_init and Uart_shutdown leave it disabled.
LEMMA CallsBacklog ==
  ASSUME TypeOK, RxBacklogExplained,
         \/ Uart_init \/ Uart_shutdown
         \/ \E config \in Configs : Uart_setConfig(config)
         \/ \E handler \in RxHandlers : Uart_readAsync(handler)
  PROVE  RxBacklogExplained'
  <1>0. reg \in RegType /\ rxlog \in RxLogType
    BY DEF TypeOK
  <1>1. CASE Uart_init \/ Uart_shutdown
    <2>1. ~reg'.re
      BY <1>0, <1>1 DEF Uart_init, Uart_shutdown, RegType
    <2>2. QED
      BY <2>1 DEF RxBacklogExplained
  <1>2. CASE \/ \E config \in Configs : Uart_setConfig(config)
             \/ \E handler \in RxHandlers : Uart_readAsync(handler)
    <2>1. reg'.hold = reg.hold
      BY <1>0, <1>2 DEF Uart_setConfig, Uart_readAsync, RegType
    <2>2. rxlog'.missed = Len(reg.hold)
      BY <1>0, <1>2 DEF Uart_setConfig, Uart_readAsync, RxCountFrom, RxLogType
    <2>3. Len(reg.hold) \in Nat
      BY <1>0, LenProperties DEF RegType
    <2> DEFINE k == Len(reg.hold)
    <2>4. Len(reg'.hold) <= rxlog'.missed + (IF vector'.pending THEN 1 ELSE 0)
                              + (IF isr' \in {"error", "rx"} THEN 1 ELSE 0)
      <3>1. Len(reg'.hold) = k /\ rxlog'.missed = k /\ k \in Nat
        BY <2>1, <2>2, <2>3
      <3> HIDE DEF k
      <3>2. QED
        BY <3>1
    <2>5. QED
      BY <2>1, <2>4 DEF RxBacklogExplained
  <1>3. QED
    BY <1>1, <1>2

\* No other step of the handler or the task touches the receiver while a
\* queue is attached, or withdraws a request.
LEMMA OthersBacklog ==
  ASSUME TypeOK, PollsAlone, RxBacklogExplained,
         \/ IsrEnter \/ Uart_handleError \/ Uart_handleTx \/ EndReturns
         \/ \E payload \in Chained : EndChains(payload)
         \/ TaskStep \/ Sending \/ ReadRefused \/ Pull \/ QueryRx
         \/ \E limit \in ReadLimits : ReadBegin(limit)
         \/ Uart_startup \/ Uart_registerErrorHandler
  PROVE  RxBacklogExplained'
  <1>0. /\ reg \in RegType /\ vector \in Vector({ENTRY}) /\ uart \in UartType
        /\ rxlog \in RxLogType
    BY DEF TypeOK
  <1>1. CASE IsrEnter \/ Uart_handleError \/ Uart_handleTx \/ EndReturns
    <2>1. /\ reg'.re = reg.re /\ reg'.hold = reg.hold
          /\ uart'.rxFifo = uart.rxFifo /\ rxlog'.missed = rxlog.missed
      BY <1>0, <1>1
         DEF IsrEnter, Uart_handleError, Uart_handleTx, EndReturns, RegType,
             UartType, RxLogType
    <2>2. /\ vector.pending => vector'.pending \/ (isr = "none" /\ isr' = "error")
          /\ isr \in {"error", "rx"} => isr' \in {"error", "rx"}
      BY <1>0, <1>1
         DEF IsrEnter, Uart_handleError, Uart_handleTx, EndReturns, acknowledge, Vector
    <2>3. QED
      BY <2>1, <2>2, BacklogKept
  <1>2. ASSUME NEW payload, WriteAsync(payload), UNCHANGED rxlog,
               isr \in {"error", "rx"} => isr' \in {"error", "rx"}
        PROVE  RxBacklogExplained'
    <2>1. /\ reg'.re = reg.re /\ reg'.hold = reg.hold
          /\ uart'.rxFifo = uart.rxFifo
      BY <1>0, <1>2 DEF WriteAsync, RegType, UartType
    <2>2. vector.pending => vector'.pending
      BY <1>0, <1>2 DEF WriteAsync, Unmasked, vector_enable, Vector
    <2>3. QED
      BY <1>2, <2>1, <2>2, BacklogKept
  <1>3. CASE TaskStep
    <2>1. CASE ReadData
      <3>1. uart'.rxFifo = NULL /\ reg'.re = reg.re
        BY <1>0, <2>1 DEF ReadData, PollsAlone, RegType
      <3>2. QED
        BY <3>1 DEF RxBacklogExplained
    <2>2. CASE \/ WritePoll \/ WriteTimesOut \/ ReadFlag \/ ReadNoData
               \/ SetInterrupts \/ SetLoopback
      <3>1. /\ reg'.re = reg.re /\ reg'.hold = reg.hold
            /\ UNCHANGED <<uart, rxlog, isr>>
        BY <1>0, <2>2
           DEF WritePoll, WriteTimesOut, ReadFlag, ReadNoData, SetInterrupts,
               SetLoopback, RegType
      <3>2. vector.pending => vector'.pending
        BY <1>0, <2>2
           DEF WritePoll, WriteTimesOut, ReadFlag, ReadNoData, SetInterrupts,
               SetLoopback, Unmasked, vector_enable, Vector
      <3>3. QED
        BY <3>1, <3>2, BacklogKept
    <2>3. QED
      BY <1>3, <2>1, <2>2 DEF TaskStep
  <1>4. CASE \/ WriteRefused \/ QueryTx \/ ReadRefused \/ QueryRx \/ Pull
             \/ \E data \in SyncBytes, limit \in WriteLimits : WriteBegin(data, limit)
             \/ \E limit \in ReadLimits : ReadBegin(limit)
             \/ Uart_startup \/ Uart_registerErrorHandler
    <2>1. /\ UNCHANGED <<reg, isr>>
          /\ uart'.rxFifo # NULL => uart.rxFifo # NULL
      BY <1>0, <1>4
         DEF WriteRefused, QueryTx, ReadRefused, QueryRx, Pull, WriteBegin,
             ReadBegin, Uart_startup, Uart_registerErrorHandler, UartType
    <2>2. rxlog'.missed = rxlog.missed
      BY <1>0, <1>4
         DEF WriteRefused, QueryTx, ReadRefused, QueryRx, Pull, WriteBegin,
             ReadBegin, Uart_startup, Uart_registerErrorHandler, RxCountFrom, RxLogType
    <2>3. vector.pending => vector'.pending
      BY <1>0, <1>4
         DEF WriteRefused, QueryTx, ReadRefused, QueryRx, Pull, WriteBegin,
             ReadBegin, Uart_startup, Uart_registerErrorHandler, Unmasked,
             vector_enable, vector_disable, entry_install, Vector
    <2>4. QED
      BY <2>1, <2>2, <2>3, BacklogKept
  <1>5. CASE \E payload \in Payloads : Uart_writeAsync(payload)
    BY <1>2, <1>5 DEF Uart_writeAsync
  <1>6. CASE \E payload \in Chained : EndChains(payload)
    BY <1>2, <1>6 DEF EndChains
  <1>7. QED
    BY <1>1, <1>3, <1>4, <1>5, <1>6 DEF Sending

\* Every step keeps the backlog explained.
LEMMA NextBacklog ==
  ASSUME TypeOK, PollsAlone, RxBacklogExplained, [Next]_vars
  PROVE  RxBacklogExplained'
  <1>1. CASE UNCHANGED vars
    BY <1>1, BacklogKept DEF vars
  <1>2. QED
    BY <1>1, DeviceBacklog, HandleRxBacklog, CallsBacklog, OthersBacklog
       DEF Next, Interrupt, Receiving, Lifecycle

\* RxBacklogExplained: Uart_handleInterrupt takes one byte per call, and no
\* order of frames, requests and calls leaves more bytes behind in the receiver
\* than frames without an interrupt of their own, one whose request is pending
\* and one whose interrupt is being handled.
THEOREM BacklogIsExplained == Spec => []RxBacklogExplained
  <1>1. Init => RxBacklogExplained
    BY DEF Init, IdleReg, RxBacklogExplained
  <1>2. RxInv /\ RxBacklogExplained /\ [Next]_vars => RxBacklogExplained'
    BY NextBacklog DEF RxInv
  <1>3. QED
    BY <1>1, <1>2, RxInvariant, PTL DEF Spec

-----------------------------------------------------------------------------
\* The positions at which s has c.
Matches(s, c) == {i \in DOMAIN s : s[i] = c}

\* A sequence has finitely many matches, and an element added at its end is one
\* more or none.
LEMMA MatchesAppended ==
  ASSUME NEW s \in Seq(Byte), NEW b \in Byte, NEW c
  PROVE  Cardinality(Matches(Append(s, b), c))
           = IF b = c THEN Cardinality(Matches(s, c)) + 1
             ELSE Cardinality(Matches(s, c))
  <1> DEFINE m == Matches(s, c)
             n == Len(s)
             a == Append(s, b)
  <1>1. /\ n \in Nat /\ DOMAIN s = 1 .. n
        /\ DOMAIN a = 1 .. n + 1 /\ a[n + 1] = b
        /\ \A i \in 1 .. n : a[i] = s[i]
    BY AppendProperties, LenProperties
  <1>2. IsFiniteSet(m) /\ n + 1 \notin m
    <2>1. m \in SUBSET (1 .. n) /\ IsFiniteSet(1 .. n)
      BY <1>1, FS_Interval DEF Matches
    <2>2. QED
      BY <1>1, <2>1, FS_Subset
  <1> HIDE DEF a, n
  <1>3. Matches(a, c) = IF b = c THEN m \cup {n + 1} ELSE m
    BY <1>1 DEF Matches
  <1>4. QED
    BY <1>2, <1>3, FS_AddElement DEF a

\* The last n + 1 elements after an element is added are the last n and it.
LEMMA LastAppended ==
  ASSUME NEW s \in Seq(Byte), NEW b \in Byte, NEW n \in 0 .. Len(s)
  PROVE  LET a == Append(s, b)
             last == SubSeq(s, Len(s) - n + 1, Len(s))
         IN  /\ last \in Seq(Byte)
             /\ SubSeq(a, Len(a) - (n + 1) + 1, Len(a)) = Append(last, b)
  <1> DEFINE a == Append(s, b)
             k == Len(s)
             last == SubSeq(s, k - n + 1, k)
  <1>1. /\ a \in Seq(Byte) /\ k \in Nat /\ n \in 0 .. k
        /\ Len(a) = k + 1 /\ a[k + 1] = b
        /\ \A i \in 1 .. k : a[i] = s[i]
    BY AppendProperties, LenProperties
  <1>2. \A i \in k - n + 1 .. k : s[i] \in Byte
    BY <1>1, ElementOfSeq
  <1>3. /\ last \in Seq(Byte) /\ Len(last) = n
        /\ \A i \in 1 .. n : last[i] = s[k - n + i]
    BY <1>1, <1>2, SubSeqProperties
  <1> HIDE DEF a, k, last
  <1>4. Len(a) - (n + 1) + 1 = k - n + 1
    BY <1>1
  <1> DEFINE t == SubSeq(a, k - n + 1, k + 1)
             u == Append(last, b)
  <1>5. /\ t \in Seq(Byte) /\ Len(t) = n + 1
        /\ \A i \in 1 .. n + 1 : t[i] = a[k - n + i]
    <2>1. \A i \in k - n + 1 .. k + 1 : a[i] \in Byte
      BY <1>1, ElementOfSeq
    <2>2. QED
      BY <1>1, <2>1, SubSeqProperties
  <1>6. /\ u \in Seq(Byte) /\ Len(u) = n + 1 /\ u[n + 1] = b
        /\ \A i \in 1 .. n : u[i] = last[i]
    BY <1>3, AppendProperties
  <1> HIDE DEF t, u
  <1>7. \A i \in 1 .. n + 1 : t[i] = u[i]
    <2> TAKE i \in 1 .. n + 1
    <2>1. CASE i = n + 1
      <3>1. k - n + i = k + 1
        BY <1>1, <2>1
      <3>2. QED
        BY <1>1, <1>5, <1>6, <2>1, <3>1
    <2>2. CASE i \in 1 .. n
      BY <1>1, <1>3, <1>5, <1>6, <2>2
    <2>3. QED
      BY <1>1, <2>1, <2>2
  <1>8. t = u
    BY <1>5, <1>6, <1>7, SeqEqual
  <1>9. QED
    BY <1>1, <1>3, <1>4, <1>8 DEF a, k, last, t, u

\* A multiple and a rest reach a number once the multiple is one.
LEMMA MultipleReaches ==
  ASSUME NEW t \in Nat \ {0}, NEW q \in Nat, NEW r \in 0 .. t - 1
  PROVE  q * t + r >= t <=> q > 0
  <1>1. CASE q = 0
    <2>1. q * t + r = r
      BY <1>1
    <2>2. QED
      BY <1>1, <2>1
  <1>2. CASE q > 0
    <2> DEFINE p == (q - 1) * t
    <2>1. q * t = p + t /\ p \in Nat
      BY <1>2
    <2> HIDE DEF p
    <2>2. QED
      BY <1>2, <2>1
  <1>3. QED
    BY <1>1, <1>2

\* Below the modulus a remainder is the number itself.
LEMMA RemainderIs ==
  ASSUME NEW w \in Nat \ {0}, NEW n \in 0 .. w - 1
  PROVE  n % w = n
  OBVIOUS

All == rxlog.taken \o Delivered

\* The bytes pushed are among those taken and queued, and sentBytes, once it is
\* below the target, is what was counted since the last callback.
CallbackInv ==
  LET target == uart.rxHandler.targetLength IN
  uart.rxFifo # NULL =>
    /\ rxlog.pushed <= Len(All)
    /\ rxlog.charCalls
         = Cardinality(Matches(Pushed, uart.rxHandler.targetCharacter))
    /\ rxlog.carry < target =>
         /\ uart.sentBytes < target
         /\ rxlog.carry + rxlog.pushed = rxlog.lengthCalls * target + uart.sentBytes

\* With nothing counted before, the callback has come when the target has.
LEMMA CallbackInvReached ==
  ASSUME TypeOK, CallbackInv
  PROVE  LengthCallbackWhenReached
  <1> DEFINE target == uart.rxHandler.targetLength
             q == rxlog.lengthCalls
             n == uart.sentBytes
  <1>1. /\ target \in Nat /\ n \in Nat /\ q \in Nat
        /\ rxlog.carry \in Nat /\ rxlog.pushed \in Nat
    BY UartAssumption DEF TypeOK, UartType, RxLogType, RxHandler
  <1>2. ASSUME uart.rxFifo # NULL, target > 0, rxlog.carry = 0
        PROVE  q > 0 <=> rxlog.pushed >= target
    <2>1. n < target /\ rxlog.pushed = q * target + n
      <3>1. /\ n < target
            /\ 0 + rxlog.pushed = q * target + n
        BY <1>1, <1>2 DEF CallbackInv
      <3>2. QED
        BY <1>1, <3>1
    <2> HIDE DEF target, q, n
    <2>2. target \in Nat \ {0} /\ n \in 0 .. target - 1
      BY <1>1, <1>2, <2>1
    <2>3. QED
      BY <1>1, <2>1, <2>2, MultipleReaches
  <1>3. QED
    BY <1>2 DEF LengthCallbackWhenReached

\* A step that counts nothing, and moves bytes at most from the queue to the
\* task.
LEMMA CallbackKept ==
  ASSUME CallbackInv,
         uart'.rxFifo # NULL =>
           /\ uart.rxFifo # NULL
           /\ All' = All
           /\ uart'.rxHandler = uart.rxHandler /\ uart'.sentBytes = uart.sentBytes
           /\ rxlog'.pushed = rxlog.pushed /\ rxlog'.carry = rxlog.carry
           /\ rxlog'.charCalls = rxlog.charCalls
           /\ rxlog'.lengthCalls = rxlog.lengthCalls
  PROVE  CallbackInv'
  <1>1. CASE uart'.rxFifo = NULL
    BY <1>1 DEF CallbackInv
  <1>2. CASE uart'.rxFifo # NULL
    <2>1. Pushed' = Pushed
      BY <1>2 DEF Pushed, All
    <2>2. QED
      BY <1>2, <2>1 DEF CallbackInv
  <1>3. QED
    BY <1>1, <1>2

\* A step that counts from the current sentBytes, with whatever handler and
\* queue.
LEMMA CallbackRestarted ==
  ASSUME TypeOK', rxlog'.carry = uart'.sentBytes, rxlog'.pushed = 0,
         rxlog'.lengthCalls = 0, rxlog'.charCalls = 0
  PROVE  CallbackInv'
  <1> DEFINE k == Len(All')
  <1>1. All' \in Seq(Byte) /\ k \in Nat
    <2>1. Delivered' \in Seq(Byte)
      BY ContentsType, EmptySeq DEF TypeOK, FifosOK, Delivered
    <2>2. All' \in Seq(Byte)
      BY <2>1, ConcatProperties DEF TypeOK, RxLogType, All
    <2>3. QED
      BY <2>2, LenProperties
  <1>2. Pushed' = SubSeq(All', k + 1, k)
    <2>1. Pushed' = SubSeq(All', k - 0 + 1, k)
      BY DEF Pushed, All
    <2> HIDE DEF k
    <2>2. QED
      BY <1>1, <2>1
  <1>3. Pushed' = <<>>
    <2>1. SubSeq(All', k + 1, k) = <<>>
      <3> HIDE DEF k
      <3>1. QED
        BY <1>1, SubSeqEmpty
    <2>2. QED
      BY <1>2, <2>1
  <1>4. Cardinality(Matches(Pushed', uart'.rxHandler.targetCharacter)) = 0
    <2>1. Matches(<<>>, uart'.rxHandler.targetCharacter) = {}
      BY DEF Matches
    <2>2. QED
      BY <1>3, <2>1, FS_EmptySet
  <1>5. /\ uart'.sentBytes \in Nat
        /\ uart'.rxHandler.targetLength \in Nat
    BY UartAssumption DEF TypeOK, UartType, RxHandler
  <1>6. uart'.sentBytes + 0 = 0 * uart'.rxHandler.targetLength + uart'.sentBytes
    BY <1>5
  <1>7. 0 <= Len(All')
    BY <1>1
  <1>8. QED
    BY <1>4, <1>6, <1>7 DEF CallbackInv

\* A byte taken is counted, matched and pushed once.
LEMMA TakeByteCounts ==
  ASSUME TypeOK, CallbackInv, RxReady, ~ByteFifo_isFull(uart.rxFifo),
         TakeByte(Head(reg.hold))
  PROVE  CallbackInv'
  <1> DEFINE h == Head(reg.hold)
             n == rxlog.pushed
             c == uart.rxHandler.targetCharacter
             target == uart.rxHandler.targetLength
             q == rxlog.lengthCalls
             s == uart.sentBytes
  <1>0. /\ uart \in UartType /\ rxlog \in RxLogType /\ reg \in RegType
        /\ uart.rxFifo # NULL /\ IsByteFifo(uart.rxFifo)
    BY DEF TypeOK, FifosOK, RxReady
  <1>1. /\ rxlog.taken \in Seq(Byte) /\ Delivered \in Seq(Byte)
        /\ h \in Byte /\ All \in Seq(Byte)
    <2>1. rxlog.taken \in Seq(Byte) /\ Delivered \in Seq(Byte)
      BY <1>0, ByteSequences DEF RxLogType
    <2>2. h \in Byte
      BY <1>0, HeadTailProperties DEF RegType, RxReady, DR
    <2>3. QED
      BY <2>1, <2>2, ConcatProperties DEF All
  <1>2. /\ target \in 0 .. Word - 1 /\ s \in 0 .. Word - 1
        /\ q \in Nat /\ n \in Nat /\ rxlog.carry \in Nat /\ rxlog.charCalls \in Nat
    BY <1>0 DEF UartType, RxHandler, RxLogType
  <1>3. /\ uart'.sentBytes = SentBytesAfter(Count)
        /\ uart'.rxFifo = ByteFifo_push(uart.rxFifo, h)
        /\ uart'.rxHandler = uart.rxHandler
    BY <1>0 DEF TakeByte, UartType
  <1>4. /\ rxlog'.taken = rxlog.taken /\ rxlog'.carry = rxlog.carry
        /\ rxlog'.pushed = n + 1
        /\ rxlog'.lengthCalls = IF LengthReached(Count) THEN q + 1 ELSE q
        /\ rxlog'.charCalls = IF h = c THEN rxlog.charCalls + 1 ELSE rxlog.charCalls
    BY <1>0 DEF TakeByte, MatchesTarget, RxLogType
  <1>5. All' = Append(All, h)
    <2>1. Delivered' = Append(Delivered, h)
      <3>1. /\ IsByteFifo(ByteFifo_push(uart.rxFifo, h))
            /\ Contents(ByteFifo_push(uart.rxFifo, h))
                 = Append(Contents(uart.rxFifo), h)
        BY <1>0, <1>1, PushContents
      <3>2. ByteFifo_push(uart.rxFifo, h) # NULL
        BY <3>1, NullAssumption DEF IsByteFifo
      <3>3. QED
        BY <1>0, <1>3, <3>1, <3>2 DEF Delivered
    <2>2. All' = rxlog.taken \o Append(Delivered, h)
      BY <1>4, <2>1 DEF All
    <2> DEFINE t == rxlog.taken
               d == Delivered
    <2> HIDE DEF h, t, d
    <2>3. t \o Append(d, h) = Append(t \o d, h)
      <3>1. t \in Seq(Byte) /\ d \in Seq(Byte) /\ h \in Byte
        BY <1>1 DEF t, d
      <3>2. QED
        BY <3>1, AppendAtEnd
    <2>4. QED
      BY <2>2, <2>3 DEF All, t, d
  <1>6. /\ n <= Len(All)
        /\ rxlog.charCalls = Cardinality(Matches(Pushed, c))
        /\ rxlog.carry < target =>
             s < target /\ rxlog.carry + n = q * target + s
    BY <1>0 DEF CallbackInv
  <1>7. Pushed' = Append(Pushed, h) /\ Pushed \in Seq(Byte)
    <2>1. n \in 0 .. Len(All)
      BY <1>1, <1>2, <1>6, LenProperties
    <2>2. /\ Pushed = SubSeq(All, Len(All) - n + 1, Len(All))
          /\ Pushed' = SubSeq(All', Len(All') - (n + 1) + 1, Len(All'))
      BY <1>4 DEF Pushed, All
    <2> HIDE DEF n, h
    <2>3. QED
      BY <1>1, <1>5, <2>1, <2>2, LastAppended
  <1>8. rxlog'.charCalls = Cardinality(Matches(Pushed', c))
    <2> HIDE DEF h, c
    <2>1. QED
      BY <1>1, <1>4, <1>6, <1>7, MatchesAppended
  <1>9. n + 1 <= Len(All')
    <2> HIDE DEF h, n
    <2>1. QED
      BY <1>1, <1>2, <1>5, <1>6, AppendProperties, LenProperties
  <1>10. ASSUME rxlog.carry < target
         PROVE  /\ uart'.sentBytes < target
                /\ rxlog.carry + (n + 1) = rxlog'.lengthCalls * target + uart'.sentBytes
    <2>1. s < target /\ rxlog.carry + n = q * target + s
      BY <1>6, <1>10
    <2>2. Count = s + 1
      <3>1. s + 1 \in 0 .. Word - 1 /\ Word \in Nat \ {0}
        BY <1>2, <2>1, UartAssumption
      <3> HIDE DEF s
      <3>2. (s + 1) % Word = s + 1
        BY <3>1, RemainderIs
      <3>3. QED
        BY <3>2 DEF Count, s
    <2>3. /\ uart'.sentBytes = IF s + 1 = target THEN 0 ELSE s + 1
          /\ rxlog'.lengthCalls = IF s + 1 = target THEN q + 1 ELSE q
      BY <1>3, <1>4, <2>2 DEF SentBytesAfter, LengthReached
    <2> HIDE DEF s, q, n, target
    <2>4. target \in Nat /\ s \in Nat
      BY <1>2, UartAssumption
    <2>5. CASE s + 1 = target
      <3>1. (q + 1) * target = q * target + target
        BY <1>2, <2>4
      <3>2. QED
        BY <1>2, <2>1, <2>3, <2>4, <2>5, <3>1
    <2>6. CASE s + 1 # target
      <3> DEFINE p == q * target
      <3>1. p \in Nat
        BY <1>2, <2>4
      <3>2. rxlog.carry + n = p + s
        BY <2>1
      <3>3. rxlog'.lengthCalls * target = p
        BY <2>3, <2>6
      <3> HIDE DEF p
      <3>4. QED
        BY <1>2, <2>1, <2>3, <2>4, <2>6, <3>1, <3>2, <3>3
    <2>7. QED
      BY <2>5, <2>6
  <1>11. QED
    BY <1>3, <1>4, <1>8, <1>9, <1>10 DEF CallbackInv

\* The device and a dropped byte change neither queue nor counts.
LEMMA DeviceCallbacks ==
  ASSUME TypeOK, CallbackInv, Device \/ DropByte
  PROVE  CallbackInv'
  <1>0. uart \in UartType /\ rxlog \in RxLogType
    BY DEF TypeOK
  <1>1. /\ uart'.rxFifo = uart.rxFifo
        /\ uart'.rxHandler = uart.rxHandler /\ uart'.sentBytes = uart.sentBytes
    BY <1>0 DEF Device, TxDone, FrameArrives, BadFrameArrives, DropByte, UartType
  <1>2. /\ rxlog'.taken = rxlog.taken
        /\ rxlog'.pushed = rxlog.pushed /\ rxlog'.carry = rxlog.carry
        /\ rxlog'.charCalls = rxlog.charCalls
        /\ rxlog'.lengthCalls = rxlog.lengthCalls
    BY <1>0
       DEF Device, TxDone, FrameArrives, BadFrameArrives, LogReceived, DropByte,
           RxLogType
  <1>3. All' = All
    BY <1>1, <1>2 DEF All, Delivered
  <1>4. QED
    BY <1>1, <1>2, <1>3, CallbackKept

\* The handler counts, matches and pushes as one, or restarts the count when
\* the callback brings another queue.
LEMMA HandleRxCallbacks ==
  ASSUME TypeOK, TypeOK', CallbackInv,
         Uart_handleRx \/ \E handler \in Refills : HandleRxRefilled(handler)
  PROVE  CallbackInv'
  <1>1. CASE Uart_handleRx
    <2>1. CASE RxReady /\ ByteFifo_isFull(uart.rxFifo)
      BY <1>1, <2>1, DeviceCallbacks DEF Uart_handleRx
    <2>2. CASE RxReady /\ ~ByteFifo_isFull(uart.rxFifo)
      BY <1>1, <2>2, TakeByteCounts DEF Uart_handleRx
    <2>3. CASE ~RxReady
      <3>1. UNCHANGED <<uart, rxlog>>
        BY <1>1, <2>3 DEF Uart_handleRx
      <3>2. All' = All
        BY <3>1 DEF All, Delivered
      <3>3. QED
        BY <3>1, <3>2, CallbackKept
    <2>4. QED
      BY <2>1, <2>2, <2>3
  <1>2. ASSUME NEW handler \in Refills, HandleRxRefilled(handler)
        PROVE  CallbackInv'
    <2> DEFINE n == SentBytesAfter(Count)
               r == RxCountFrom(n)
    <2>1. /\ r.carry = n /\ r.pushed = 0 /\ r.lengthCalls = 0 /\ r.charCalls = 0
          /\ r \in RxLogType
      <3>1. n \in Nat
        BY <1>2 DEF HandleRxRefilled, SentBytesAfter
      <3>2. QED
        BY <3>1, RxCountType DEF RxCountFrom, TypeOK, RxLogType
    <2>2. /\ rxlog' = [r EXCEPT !.taken = @ \o Delivered]
          /\ uart'.sentBytes = n
      BY <1>2 DEF HandleRxRefilled, TypeOK, UartType
    <2> HIDE DEF n, r
    <2>3. /\ rxlog'.carry = n /\ rxlog'.pushed = 0
          /\ rxlog'.lengthCalls = 0 /\ rxlog'.charCalls = 0
      BY <2>1, <2>2 DEF RxLogType
    <2>4. QED
      BY <2>2, <2>3, CallbackRestarted
  <1>3. QED
    BY <1>1, <1>2

\* Every call that resets sentBytes or registers a handler starts to count
\* anew.
LEMMA CallsCallbacks ==
  ASSUME TypeOK, TypeOK', CallbackInv,
         \/ Uart_init \/ Uart_startup \/ Uart_shutdown
         \/ \E handler \in RxHandlers : Uart_readAsync(handler)
  PROVE  CallbackInv'
  <1>0. uart \in UartType /\ rxlog \in RxLogType
    BY DEF TypeOK
  <1>1. CASE Uart_init \/ Uart_startup \/ Uart_shutdown
    <2>1. uart'.sentBytes = 0
      <3>1. CASE Uart_init
        BY <3>1 DEF Uart_init, NewUart
      <3>2. CASE Uart_startup \/ Uart_shutdown
        BY <1>0, <3>2 DEF Uart_startup, Uart_shutdown, UartType
      <3>3. QED
        BY <1>1, <3>1, <3>2
    <2>2. /\ rxlog'.carry = 0 /\ rxlog'.pushed = 0
          /\ rxlog'.lengthCalls = 0 /\ rxlog'.charCalls = 0
      BY <1>0, <1>1
         DEF Uart_init, Uart_startup, Uart_shutdown, RxCountFrom, RxLogType
    <2>3. QED
      BY <2>1, <2>2, CallbackRestarted
  <1>2. ASSUME NEW handler \in RxHandlers, Uart_readAsync(handler)
        PROVE  CallbackInv'
    <2>1. uart'.sentBytes = uart.sentBytes
      BY <1>0, <1>2 DEF Uart_readAsync, UartType
    <2>2. /\ rxlog'.carry = uart.sentBytes /\ rxlog'.pushed = 0
          /\ rxlog'.lengthCalls = 0 /\ rxlog'.charCalls = 0
      BY <1>0, <1>2 DEF Uart_readAsync, RxCountFrom, RxLogType
    <2>3. QED
      BY <2>1, <2>2, CallbackRestarted
  <1>3. QED
    BY <1>1, <1>2

\* The task's pull moves a byte from the queue to the task.
LEMMA PullCallbacks ==
  ASSUME TypeOK, CallbackInv, Pull
  PROVE  CallbackInv'
  <1> DEFINE t == rxlog.taken
             d == Contents(uart.rxFifo)
             rest == ByteFifo_pull(uart.rxFifo)
  <1>1. uart.rxFifo # NULL /\ IsByteFifo(uart.rxFifo) /\ ~ByteFifo_isEmpty(uart.rxFifo)
    BY DEF Pull, TypeOK, FifosOK
  <1>2. /\ IsByteFifo(rest) /\ Contents(rest) = Tail(d)
        /\ d # <<>> /\ PullData(uart.rxFifo) = Head(d)
        /\ d \in Seq(Byte)
    BY <1>1, PullContents, ContentsType
  <1>3. t \in Seq(Byte) /\ rxlog \in RxLogType /\ uart \in UartType
    BY DEF TypeOK, RxLogType
  <1>4. /\ uart' = [uart EXCEPT !.rxFifo = rest]
        /\ rxlog' = [rxlog EXCEPT !.taken = Append(t, Head(d))]
    BY <1>2 DEF Pull
  <1>5. Delivered = d /\ Delivered' = Tail(d)
    <2>1. rest # NULL
      BY <1>2, NullAssumption DEF IsByteFifo
    <2>2. QED
      BY <1>1, <1>2, <1>3, <1>4, <2>1 DEF Delivered, UartType
  <1> HIDE DEF t, d, rest
  <1>6. Append(t, Head(d)) \o Tail(d) = t \o d
    BY <1>2, <1>3, HeadMoves
  <1>7. All' = All
    <2>1. rxlog'.taken = Append(t, Head(d))
      BY <1>3, <1>4 DEF RxLogType
    <2>2. All' = Append(t, Head(d)) \o Tail(d)
      BY <1>5, <2>1 DEF All
    <2>3. All = t \o d
      BY <1>5 DEF All, t
    <2>4. QED
      BY <1>6, <2>2, <2>3
  <1>8. /\ uart'.rxHandler = uart.rxHandler /\ uart'.sentBytes = uart.sentBytes
        /\ rxlog'.pushed = rxlog.pushed /\ rxlog'.carry = rxlog.carry
        /\ rxlog'.charCalls = rxlog.charCalls
        /\ rxlog'.lengthCalls = rxlog.lengthCalls
    BY <1>3, <1>4 DEF UartType, RxLogType
  <1>9. QED
    BY <1>1, <1>7, <1>8, CallbackKept

\* No other step receives.
LEMMA OthersCallbacks ==
  ASSUME TypeOK, PollsAlone, CallbackInv,
         \/ IsrEnter \/ Uart_handleError \/ Uart_handleTx \/ EndReturns
         \/ \E payload \in Chained : EndChains(payload)
         \/ TaskStep \/ Sending \/ ReadRefused \/ QueryRx
         \/ \E limit \in ReadLimits : ReadBegin(limit)
         \/ \E config \in Configs : Uart_setConfig(config)
         \/ Uart_registerErrorHandler \/ UNCHANGED vars
  PROVE  CallbackInv'
  <1>0. uart \in UartType /\ rxlog \in RxLogType
    BY DEF TypeOK
  <1>1. CASE ReadData
    BY <1>1, CallbackKept DEF ReadData, PollsAlone
  <1>2. CASE ~ReadData
    <2>1. /\ uart'.rxFifo = uart.rxFifo
          /\ uart'.rxHandler = uart.rxHandler /\ uart'.sentBytes = uart.sentBytes
      BY <1>0, <1>2
         DEF IsrEnter, Uart_handleError, Uart_handleTx, EndReturns, EndChains,
             TaskStep, WritePoll, WriteTimesOut, ReadFlag, ReadNoData, SetInterrupts,
             SetLoopback, Sending,
             WriteRefused, WriteBegin, Uart_writeAsync, WriteAsync, QueryTx,
             ReadRefused, QueryRx, ReadBegin, Uart_setConfig,
             Uart_registerErrorHandler, vars, UartType
    <2>2. /\ rxlog'.taken = rxlog.taken
          /\ rxlog'.pushed = rxlog.pushed /\ rxlog'.carry = rxlog.carry
          /\ rxlog'.charCalls = rxlog.charCalls
          /\ rxlog'.lengthCalls = rxlog.lengthCalls
      BY <1>0, <1>2
         DEF IsrEnter, Uart_handleError, Uart_handleTx, EndReturns, EndChains,
             TaskStep, WritePoll, WriteTimesOut, ReadFlag, ReadNoData, SetInterrupts,
             SetLoopback, Sending,
             WriteRefused, WriteBegin, Uart_writeAsync, QueryTx, ReadRefused,
             QueryRx, ReadBegin, Uart_setConfig, Uart_registerErrorHandler, vars,
             RxLogType
    <2>3. All' = All
      BY <2>1, <2>2 DEF All, Delivered
    <2>4. QED
      BY <2>1, <2>2, <2>3, CallbackKept
  <1>3. QED
    BY <1>1, <1>2

\* Every step keeps the counts.
LEMMA NextCallbackInv ==
  ASSUME TypeOK, TypeOK', PollsAlone, CallbackInv, [Next]_vars
  PROVE  CallbackInv'
  BY DeviceCallbacks, HandleRxCallbacks, CallsCallbacks, PullCallbacks,
     OthersCallbacks
     DEF Next, Interrupt, Receiving, Lifecycle

\* The invariant of the counts.
LEMMA CallbackInvariant == Spec => [](RxInv /\ CallbackInv)
  <1>1. Init => CallbackInv
    BY DEF Init, NewUart, CallbackInv
  <1>2. RxInv /\ RxInv' /\ CallbackInv /\ [Next]_vars => CallbackInv'
    BY NextCallbackInv DEF RxInv
  <1>3. QED
    BY <1>1, <1>2, RxInvariant, PTL DEF Spec

\* CharacterCallbacksExact: Uart_handleRx calls the character callback once for
\* every target character it pushes, over any interleaving of frames, pulls,
\* overflows, and queues and handlers replaced by the task or the callback.
THEOREM CharacterCallbacksAreExact == Spec => []CharacterCallbacksExact
  <1>1. CallbackInv => CharacterCallbacksExact
    BY DEF CallbackInv, CharacterCallbacksExact, Matches
  <1>2. QED
    BY <1>1, CallbackInvariant, PTL

\* LengthCallbackWhenReached: for a queue registered with sentBytes at zero and
\* left alone by the task, Uart_handleRx has called the length callback exactly
\* when the queue holds targetLength bytes, whatever that length, the size of
\* the queue and the frames dropped on it.
THEOREM LengthCallbacksComeInTime == Spec => []LengthCallbackWhenReached
  <1>1. RxInv /\ CallbackInv => LengthCallbackWhenReached
    BY CallbackInvReached DEF RxInv
  <1>2. QED
    BY <1>1, CallbackInvariant, PTL

=============================================================================
