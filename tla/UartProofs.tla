----------------------------- MODULE UartProofs -----------------------------
(***************************************************************************)
(* Types, and the conservation of bytes in both directions, for every step *)
(* of Uart: any number of calls and frames, any payload, block and         *)
(* configuration.  First each action keeps TypeOK; then the invariant that *)
(* makes TypeOK inductive; then the bytes received; then the bytes sent.   *)
(* No proof looks inside a ByteFifo: ByteFifoTheorems says what its        *)
(* functions do to the sequence it stands for.                             *)
(***************************************************************************)
EXTENDS Uart, ByteFifoTheorems

\* What the driver holds in its queues, and in the shift register, is bytes.
LEMMA ByteSequences ==
  ASSUME TypeOK
  PROVE  /\ Queued \in Seq(Byte)
         /\ Delivered \in Seq(Byte)
         /\ Shifting \in Seq(Byte)
  <1>1. Queued \in Seq(Byte)
    BY ContentsType, EmptySeq DEF TypeOK, FifosOK, Queued
  <1>2. Delivered \in Seq(Byte)
    BY ContentsType, EmptySeq DEF TypeOK, FifosOK, Delivered
  <1>3. Shifting \in Seq(Byte)
    BY EmptySeq DEF TypeOK, RegType, Shifting
  <1>4. QED
    BY <1>1, <1>2, <1>3

\* The polling loops run without a queue, and the end-of-transmission callback
\* with one: it is never called inside the loop of Uart_write.
PollsAlone ==
  /\ isr = "end" => uart.txFifo # NULL
  /\ task.pc = "write" => uart.txFifo = NULL
  /\ task.pc \in {"readFlag", "readData"} => uart.rxFifo = NULL

\* TypeOK is not inductive: the handler takes a byte out of the log of what was
\* accepted, which needs the log to hold what the receiver holds.
RxInv == TypeOK /\ PollsAlone /\ RxConservation

\* A frame leaves the receiver with bytes and flags.
LEMMA ReceivedType ==
  ASSUME NEW r \in RegType, NEW b \in Byte
  PROVE  Received(r, b) \in RegType
  <1>1. Append(r.hold, b) \in Seq(Byte)
    BY AppendProperties DEF RegType
  <1>2. CASE ~r.re
    BY <1>2 DEF Received
  <1>3. CASE r.re /\ Len(r.hold) < HwDepth
    BY <1>1, <1>3 DEF Received, RegType
  <1>4. CASE r.re /\ ~(Len(r.hold) < HwDepth)
    BY <1>4 DEF Received, RegType, Flags
  <1>5. QED
    BY <1>2, <1>3, <1>4

\* The log of what the receiver accepts and misses keeps its shape.
LEMMA LogReceivedType ==
  ASSUME TypeOK, NEW b \in Byte, LogReceived(b)
  PROVE  rxlog' \in RxLogType
  <1>1. Append(rxlog.accepted, b) \in Seq(Byte)
    BY AppendProperties DEF TypeOK, RxLogType
  <1> DEFINE kept == [rxlog EXCEPT !.accepted = Append(@, b)]
             n == IF vector.pending \/ ~reg.ri THEN rxlog.missed + 1
                  ELSE rxlog.missed
  <1>2. kept \in RxLogType
    BY <1>1 DEF TypeOK, RxLogType
  <1>3. [kept EXCEPT !.missed = n] \in RxLogType
    <2>1. n \in Nat
      BY DEF TypeOK, RxLogType
    <2> HIDE DEF kept, n
    <2>2. QED
      BY <1>2, <2>1 DEF RxLogType
  <1>4. rxlog' = rxlog \/ rxlog' = [kept EXCEPT !.missed = n]
    BY DEF LogReceived
  <1>5. QED
    BY <1>3, <1>4 DEF TypeOK

\* The end of a frame, in loop back mode too, keeps every type.
LEMMA TxDoneType == TypeOK /\ TxDone => TypeOK'
  <1> SUFFICES ASSUME TypeOK, TxDone PROVE TypeOK'
    OBVIOUS
  <1> DEFINE sent == [reg EXCEPT !.shift = NULL]
  <1>1. reg.shift \in Byte /\ sent \in RegType
    BY DEF TypeOK, RegType, TxDone
  <1>2. reg' \in RegType
    BY <1>1, ReceivedType DEF TypeOK, TxDone
  <1>3. vector' \in Vector({ENTRY})
    BY DEF TypeOK, TxDone, Vector, raise
  <1>4. txlog' \in TxLogType
    <2>1. Append(txlog.wire, reg.shift) \in Seq(Byte)
      BY <1>1, AppendProperties DEF TypeOK, TxLogType
    <2>2. QED
      BY <2>1 DEF TypeOK, TxLogType, TxDone
  <1>5. rxlog' \in RxLogType
    BY <1>1, LogReceivedType DEF TypeOK, TxDone
  <1>6. QED
    BY <1>2, <1>3, <1>4, <1>5 DEF TypeOK, TxDone, FifosOK

\* So does a frame from the far end, kept or lost.
LEMMA FrameArrivesType ==
  ASSUME NEW b \in LineBytes, TypeOK, FrameArrives(b)
  PROVE  TypeOK'
  <1>0. b \in Byte
    BY UartAssumption
  <1>1. reg' \in RegType
    BY <1>0, ReceivedType DEF TypeOK, FrameArrives
  <1>2. vector' \in Vector({ENTRY})
    BY DEF TypeOK, FrameArrives, Vector, raise
  <1>3. rxlog' \in RxLogType
    BY <1>0, LogReceivedType DEF TypeOK, FrameArrives
  <1>4. used' \in [calls : Nat, frames : Nat]
    BY DEF TypeOK, FrameArrives
  <1>5. QED
    BY <1>1, <1>2, <1>3, <1>4 DEF TypeOK, FrameArrives, FifosOK

\* So does a frame with an error.
LEMMA BadFrameArrivesType ==
  ASSUME NEW error \in LineErrors, TypeOK, BadFrameArrives(error)
  PROVE  TypeOK'
  <1>1. reg' \in RegType
    BY UartAssumption DEF TypeOK, BadFrameArrives, RegType, Flags
  <1>2. vector' \in Vector({ENTRY})
    BY DEF TypeOK, BadFrameArrives, Vector, raise
  <1>3. used' \in [calls : Nat, frames : Nat]
    BY DEF TypeOK, BadFrameArrives
  <1>4. QED
    BY <1>1, <1>2, <1>3 DEF TypeOK, BadFrameArrives, FifosOK

\* Entering the handler keeps every type.
LEMMA IsrEnterType == TypeOK /\ IsrEnter => TypeOK'
  BY DEF TypeOK, IsrEnter, acknowledge, Vector, FifosOK

\* The error part of the handler keeps every type.
LEMMA HandleErrorType == TypeOK /\ Uart_handleError => TypeOK'
  <1> SUFFICES ASSUME TypeOK, Uart_handleError PROVE TypeOK'
    OBVIOUS
  <1>1. Uart_getLinkErrors \in SUBSET Flags
    BY DEF TypeOK, RegType, Flags, Uart_getLinkErrors
  <1>2. uart' \in UartType
    BY <1>1 DEF TypeOK, UartType, Uart_handleError
  <1>3. rxlog' \in RxLogType
    BY <1>1 DEF TypeOK, RxLogType, Uart_handleError
  <1>4. FifosOK'
    BY DEF TypeOK, UartType, FifosOK, Uart_handleError
  <1>5. QED
    BY <1>2, <1>3, <1>4 DEF TypeOK, Uart_handleError

-----------------------------------------------------------------------------
Ops == {"void", "write", "read", "isTxEmpty", "isRxEmpty", "getTxFifoCount",
        "getRxFifoCount"}
Codes == {"OK", "Timeout", "RxFifoFull", "TxFifoNotNull", "RxFifoNotNull"}

\* A call returns one of its answers.
LEMMA AnswerType ==
  ASSUME TypeOK, NEW op \in Ops, NEW ok \in BOOLEAN, NEW count \in Nat,
         Answer(op, ok, count)
  PROVE  task' \in TaskType
  <1>1. Reply(op, ok, count) \in ReplyType
    BY DEF Reply, ReplyType, Ops
  <1>2. QED
    BY <1>1 DEF TypeOK, TaskType, Answer

\* A call fails with one of the error codes.
LEMMA FailType ==
  ASSUME TypeOK, NEW op \in Ops, NEW code \in Codes, Fail(op, code)
  PROVE  task' \in TaskType
  <1>1. Reply(op, FALSE, 0) \in ReplyType
    BY DEF Reply, ReplyType, Ops
  <1>2. QED
    BY <1>1 DEF TypeOK, TaskType, Fail, Codes

\* No directive takes the vector out of its type.
LEMMA VectorType ==
  ASSUME NEW v \in Vector({ENTRY})
  PROVE  /\ vector_enable(v) \in Vector({ENTRY})
         /\ vector_disable(v) \in Vector({ENTRY})
         /\ entry_install(v, ENTRY) \in Vector({ENTRY})
         /\ entry_remove(v, ENTRY) \in Vector({ENTRY})
         /\ interrupt_clear(v) \in Vector({ENTRY})
  BY DEF Vector, vector_enable, vector_disable, entry_install, entry_remove,
         interrupt_clear

\* The callbacks counted anew, and the errors forgotten.
LEMMA RxCountType ==
  ASSUME TypeOK, NEW n \in Nat
  PROVE  /\ RxCountFrom(n) \in RxLogType
         /\ [RxCountFrom(n) EXCEPT !.told = {}, !.lost = 0] \in RxLogType
         /\ RxCountFrom(n).accepted = rxlog.accepted
         /\ RxCountFrom(n).taken = rxlog.taken
  <1>1. /\ RxCountFrom(n) \in RxLogType
        /\ RxCountFrom(n).accepted = rxlog.accepted
        /\ RxCountFrom(n).taken = rxlog.taken
    BY DEF TypeOK, RxLogType, RxCountFrom
  <1>2. [RxCountFrom(n) EXCEPT !.told = {}, !.lost = 0] \in RxLogType
    <2> HIDE DEF RxCountFrom
    <2>1. QED
      BY <1>1 DEF RxLogType
  <1>3. QED
    BY <1>1, <1>2

\* A call is counted.
LEMMA CallType ==
  ASSUME TypeOK, Call \/ Counted
  PROVE  used' \in [calls : Nat, frames : Nat]
  BY DEF TypeOK, Call, Counted

\* Queues that are left alone stay well formed.
LEMMA FifosKept ==
  ASSUME FifosOK, uart'.txFifo = uart.txFifo, uart'.rxFifo = uart.rxFifo
  PROVE  FifosOK'
  BY DEF FifosOK

\* Uart_shutdown keeps every type.
LEMMA ShutdownType == TypeOK /\ Uart_shutdown => TypeOK'
  <1> SUFFICES ASSUME TypeOK, Uart_shutdown PROVE TypeOK'
    OBVIOUS
  <1>1. reg' \in RegType
    BY DEF TypeOK, RegType, Uart_shutdown
  <1>2. vector' \in Vector({ENTRY})
    BY VectorType DEF TypeOK, Uart_shutdown
  <1>3. txlog' \in TxLogType
    BY DEF TypeOK, TxLogType, Uart_shutdown
  <1>4. rxlog' \in RxLogType
    BY RxCountType DEF Uart_shutdown
  <1>5. task' \in TaskType
    BY AnswerType DEF Uart_shutdown, Done, Return, Ops
  <1>6. uart' \in UartType
    <2>1. 0 \in 0 .. Word - 1 /\ {} \in SUBSET Flags
      BY UartAssumption
    <2>2. [[uart EXCEPT !.sentBytes = 0] EXCEPT !.errorFlags = {}] \in UartType
      BY <2>1 DEF TypeOK, UartType
    <2>3. QED
      BY <2>2 DEF Uart_shutdown
  <1>7. FifosOK'
    BY FifosKept DEF TypeOK, UartType, Uart_shutdown
  <1>8. used' \in [calls : Nat, frames : Nat]
    BY CallType DEF Uart_shutdown
  <1>9. QED
    BY <1>1, <1>2, <1>3, <1>4, <1>5, <1>6, <1>7, <1>8 DEF TypeOK, Uart_shutdown

\* The three steps of Uart_setConfig keep every type.
LEMMA SetConfigType ==
  ASSUME NEW config \in Configs, TypeOK, Uart_setConfig(config)
  PROVE  TypeOK'
  <1>0. config \in Config
    BY UartAssumption
  <1>1. reg' \in RegType
    BY <1>0 DEF TypeOK, RegType, Uart_setConfig, Config
  <1>2. rxlog' \in RxLogType
    BY LenProperties DEF TypeOK, RegType, RxLogType, Uart_setConfig
  <1>3. task' \in TaskType
    BY <1>0 DEF TypeOK, TaskType, Uart_setConfig
  <1>4. used' \in [calls : Nat, frames : Nat]
    BY CallType DEF Uart_setConfig
  <1>5. QED
    BY <1>1, <1>2, <1>3, <1>4 DEF TypeOK, Uart_setConfig, FifosOK

LEMMA SetInterruptsType == TypeOK /\ SetInterrupts => TypeOK'
  <1> SUFFICES ASSUME TypeOK, SetInterrupts PROVE TypeOK'
    OBVIOUS
  <1>1. reg' \in RegType
    BY DEF TypeOK, RegType, TaskType, SetInterrupts, Config
  <1>2. task' \in TaskType
    BY DEF TypeOK, TaskType, SetInterrupts
  <1>3. QED
    BY <1>1, <1>2 DEF TypeOK, SetInterrupts, FifosOK

LEMMA SetLoopbackType == TypeOK /\ SetLoopback => TypeOK'
  <1> SUFFICES ASSUME TypeOK, SetLoopback PROVE TypeOK'
    OBVIOUS
  <1>1. reg' \in RegType
    BY DEF TypeOK, RegType, TaskType, SetLoopback, Config
  <1>2. task' \in TaskType
    BY AnswerType DEF SetLoopback, Done, Return, Ops
  <1>3. QED
    BY <1>1, <1>2 DEF TypeOK, SetLoopback, FifosOK

\* Uart_startup keeps every type.
LEMMA StartupType == TypeOK /\ Uart_startup => TypeOK'
  <1> SUFFICES ASSUME TypeOK, Uart_startup PROVE TypeOK'
    OBVIOUS
  <1>1. vector' \in Vector({ENTRY})
    BY VectorType DEF TypeOK, Uart_startup
  <1>2. rxlog' \in RxLogType
    BY RxCountType DEF Uart_startup
  <1>3. task' \in TaskType
    BY AnswerType DEF Uart_startup, Done, Return, Ops
  <1>4. uart' \in UartType
    <2>1. 0 \in 0 .. Word - 1 /\ {} \in SUBSET Flags
      BY UartAssumption
    <2>2. [[uart EXCEPT !.sentBytes = 0] EXCEPT !.errorFlags = {}] \in UartType
      BY <2>1 DEF TypeOK, UartType
    <2>3. QED
      BY <2>2 DEF Uart_startup
  <1>5. FifosOK'
    BY FifosKept DEF TypeOK, UartType, Uart_startup
  <1>6. used' \in [calls : Nat, frames : Nat]
    BY CallType DEF Uart_startup
  <1>7. QED
    BY <1>1, <1>2, <1>3, <1>4, <1>5, <1>6 DEF TypeOK, Uart_startup

\* What is left of the logs when queues are detached.
LEMMA TxKeptType ==
  ASSUME TypeOK
  PROVE  TxKept \in Seq(Byte)
  <1>1. txlog.handed \in Seq(Byte) /\ Len(Queued) \in Nat
    BY ByteSequences, LenProperties DEF TypeOK, TxLogType
  <1>2. \A i \in 1 .. Len(txlog.handed) - Len(Queued) : txlog.handed[i] \in Byte
    BY <1>1, ElementOfSeq, LenProperties
  <1>3. QED
    BY <1>1, <1>2, SubSeqProperties, LenProperties DEF TxKept

\* What Uart_init keeps of the log of reception is what was taken and what
\* is still in the receiver.
LEMMA RxKeptType ==
  ASSUME TypeOK, RxConservation
  PROVE  RxKept = rxlog.taken \o reg.hold /\ RxKept \in Seq(Byte)
  <1> DEFINE t == rxlog.taken
             d == Delivered
             h == reg.hold
  <1>1. t \in Seq(Byte) /\ d \in Seq(Byte) /\ h \in Seq(Byte)
    BY ByteSequences DEF TypeOK, RxLogType, RegType
  <1>2. rxlog.accepted = (t \o d) \o h
    BY DEF RxConservation
  <1>3. RxKept = SubSeq(rxlog.accepted, 1, Len(t)) \o h
    BY DEF RxKept
  <1> HIDE DEF t, d, h
  <1>4. (t \o d) \o h = t \o (d \o h)
    BY <1>1, ConcatAssociative
  <1>5. d \o h \in Seq(Byte) /\ t \o h \in Seq(Byte)
    BY <1>1, ConcatProperties
  <1>6. SubSeq(t \o (d \o h), 1, Len(t)) = t
    BY <1>1, <1>5, FirstPart
  <1>7. RxKept = t \o h
    BY <1>2, <1>3, <1>4, <1>6
  <1>8. QED
    BY <1>5, <1>7 DEF t, h

\* Uart_init keeps every type.
LEMMA InitActionType == TypeOK /\ RxConservation /\ Uart_init => TypeOK'
  <1> SUFFICES ASSUME TypeOK, RxConservation, Uart_init PROVE TypeOK'
    OBVIOUS
  <1>1. reg' \in RegType
    BY DEF TypeOK, RegType, Uart_init
  <1>2. vector' \in Vector({ENTRY})
    BY VectorType DEF TypeOK, Uart_init
  <1>3. txlog' \in TxLogType
    BY TxKeptType DEF TypeOK, TxLogType, Uart_init
  <1>4. rxlog' \in RxLogType
    <2>1. [RxCountFrom(0) EXCEPT !.told = {}, !.lost = 0] \in RxLogType
      BY RxCountType
    <2>2. [[RxCountFrom(0) EXCEPT !.accepted = RxKept]
              EXCEPT !.told = {}, !.lost = 0] \in RxLogType
      <3> HIDE DEF RxCountFrom, RxKept
      <3>1. RxCountFrom(0) \in RxLogType /\ RxKept \in Seq(Byte)
        BY RxCountType, RxKeptType
      <3>2. [RxCountFrom(0) EXCEPT !.accepted = RxKept] \in RxLogType
        BY <3>1 DEF RxLogType
      <3>3. QED
        BY <3>2 DEF RxLogType
    <2>3. QED
      BY <2>2 DEF Uart_init
  <1>5. task' \in TaskType
    BY AnswerType DEF Uart_init, Done, Return, Ops
  <1>6. uart' \in UartType /\ FifosOK'
    BY UartAssumption DEF TypeOK, UartType, RxHandler, Uart_init, NewUart, FifosOK
  <1>7. used' \in [calls : Nat, frames : Nat]
    BY CallType DEF Uart_init
  <1>8. QED
    BY <1>1, <1>2, <1>3, <1>4, <1>5, <1>6, <1>7 DEF TypeOK, Uart_init

-----------------------------------------------------------------------------
(* Sending.                                                                *)

\* The transmission part of the handler leaves a queue it can go on with.
LEMMA HandleTxType == TypeOK /\ Uart_handleTx => TypeOK'
  <1> SUFFICES ASSUME TypeOK, Uart_handleTx PROVE TypeOK'
    OBVIOUS
  <1>1. CASE UNCHANGED <<reg, uart, txlog>>
    BY <1>1 DEF TypeOK, Uart_handleTx, FifosOK
  <1>2. CASE ~UNCHANGED <<reg, uart, txlog>>
    <2> DEFINE rest == ByteFifo_pull(uart.txFifo)
    <2>1. /\ uart.txFifo # NULL /\ ~ByteFifo_isEmpty(uart.txFifo)
          /\ IsByteFifo(uart.txFifo)
          /\ uart' = [uart EXCEPT !.txFifo = rest]
          /\ reg' = [reg EXCEPT !.shift = PullData(uart.txFifo)]
          /\ txlog' \in {txlog, [txlog EXCEPT !.ended = Append(@, uart.txHandler)]}
      BY <1>2 DEF TypeOK, Uart_handleTx, FifosOK
    <2>2. PullData(uart.txFifo) \in Byte /\ IsByteFifo(rest)
      BY <2>1, PullContents
    <2>3. reg' \in RegType
      BY <2>1, <2>2 DEF TypeOK, RegType
    <2>4. uart' \in UartType /\ uart'.txFifo = rest /\ uart'.rxFifo = uart.rxFifo
      <3>1. rest \in ByteFifoRec
        BY <2>2 DEF IsByteFifo
      <3> HIDE DEF rest
      <3>2. QED
        BY <2>1, <3>1 DEF TypeOK, UartType
    <2>5. FifosOK'
      BY <2>2, <2>4 DEF TypeOK, FifosOK
    <2>6. txlog' \in TxLogType
      <3>1. Append(txlog.ended, uart.txHandler) \in Seq(Nat)
        BY AppendProperties DEF TypeOK, TxLogType, UartType
      <3>2. QED
        BY <2>1, <3>1 DEF TypeOK, TxLogType
    <2>7. QED
      BY <2>3, <2>4, <2>5, <2>6 DEF TypeOK, Uart_handleTx
  <1>3. QED
    BY <1>1, <1>2

\* A refused Uart_write keeps every type.
LEMMA WriteRefusedType == TypeOK /\ WriteRefused => TypeOK'
  <1> SUFFICES ASSUME TypeOK, WriteRefused PROVE TypeOK'
    OBVIOUS
  <1>1. vector' \in Vector({ENTRY})
    BY VectorType DEF TypeOK, WriteRefused, Unmasked
  <1>2. task' \in TaskType
    BY FailType DEF WriteRefused, Ops, Codes
  <1>3. used' \in [calls : Nat, frames : Nat]
    BY CallType DEF WriteRefused
  <1>4. QED
    BY <1>1, <1>2, <1>3 DEF TypeOK, WriteRefused, FifosOK

\* The beginning of Uart_write keeps every type.
LEMMA WriteBeginType ==
  ASSUME NEW data \in SyncBytes, NEW limit \in WriteLimits,
         TypeOK, WriteBegin(data, limit)
  PROVE  TypeOK'
  <1>1. vector' \in Vector({ENTRY})
    BY VectorType DEF TypeOK, WriteBegin
  <1>2. task' \in TaskType
    <2>1. data \in Byte /\ limit \in Nat
      BY UartAssumption
    <2>2. [[[[task EXCEPT !.pc = "write"] EXCEPT !.data = data]
              EXCEPT !.limit = limit] EXCEPT !.timeout = limit] \in TaskType
      BY <2>1 DEF TypeOK, TaskType
    <2>3. QED
      BY <2>2 DEF WriteBegin
  <1>3. used' \in [calls : Nat, frames : Nat]
    BY CallType DEF WriteBegin
  <1>4. QED
    BY <1>1, <1>2, <1>3 DEF TypeOK, WriteBegin, FifosOK

\* A round of its loop keeps every type; the count of rounds stays natural.
LEMMA WritePollType == TypeOK /\ WritePoll => TypeOK'
  <1> SUFFICES ASSUME TypeOK, WritePoll PROVE TypeOK'
    OBVIOUS
  <1>1. CASE TS
    <2>1. task.data \in Byte
      BY DEF TypeOK, TaskType
    <2>2. reg' \in RegType
      BY <1>1, <2>1 DEF TypeOK, RegType, WritePoll
    <2>3. vector' \in Vector({ENTRY})
      BY <1>1, VectorType DEF TypeOK, WritePoll, Unmasked
    <2>4. task' \in TaskType
      BY <1>1, AnswerType DEF WritePoll, Return, Ops
    <2>5. txlog' \in TxLogType
      <3>1. Append(txlog.handed, task.data) \in Seq(Byte)
        BY <2>1, AppendProperties DEF TypeOK, TxLogType
      <3>2. QED
        BY <1>1, <3>1 DEF TypeOK, TxLogType, WritePoll
    <2>6. QED
      BY <2>2, <2>3, <2>4, <2>5 DEF TypeOK, WritePoll, FifosOK
  <1>2. CASE ~TS
    <2>1. task' \in TaskType
      <3> DEFINE n == IF task.limit = 0 THEN task.timeout ELSE task.timeout - 1
      <3>1. n \in Nat
        BY DEF TypeOK, TaskType, WritePoll
      <3>2. task' = [task EXCEPT !.timeout = n]
        BY <1>2 DEF WritePoll, RoundsLeft
      <3> HIDE DEF n
      <3>3. QED
        BY <3>1, <3>2 DEF TypeOK, TaskType
    <2>2. QED
      BY <1>2, <2>1 DEF TypeOK, WritePoll, FifosOK
  <1>3. QED
    BY <1>1, <1>2

\* Its timeout keeps every type.
LEMMA WriteTimesOutType == TypeOK /\ WriteTimesOut => TypeOK'
  <1> SUFFICES ASSUME TypeOK, WriteTimesOut PROVE TypeOK'
    OBVIOUS
  <1>1. task' \in TaskType
    <2>1. Answer("write", FALSE, 0)
      BY DEF WriteTimesOut, Return
    <2>2. QED
      BY <2>1, AnswerType DEF Ops
  <1>2. QED
    BY <1>1 DEF TypeOK, WriteTimesOut, FifosOK

\* The queue Uart_writeAsync is given, and what it sends of it at once.
Given(payload) == IF payload = <<>> THEN ByteFifo_init(NULL, <<Nul>>)
                  ELSE ByteFifo_initFromBytes(NULL, payload)

First(fifo) == IF ByteFifo_isEmpty(fifo) THEN Nul ELSE PullData(fifo)

\* The queue handed to Uart_writeAsync holds the payload, and with its first
\* byte pulled the rest of it; an empty one sends the null byte.
LEMMA GivenType ==
  ASSUME NEW payload \in Payloads
  PROVE  /\ IsByteFifo(Given(payload)) /\ Contents(Given(payload)) = payload
         /\ IsByteFifo(ByteFifo_pull(Given(payload)))
         /\ First(Given(payload)) \in Byte
         /\ payload # <<>> =>
              /\ First(Given(payload)) = Head(payload)
              /\ Contents(ByteFifo_pull(Given(payload))) = Tail(payload)
  <1>1. payload \in Seq(Byte) /\ Nul \in Byte /\ <<Nul>> \in Seq(Byte)
        /\ <<Nul>> # <<>>
    BY UartAssumption
  <1>2. CASE payload = <<>>
    <2>1. /\ Given(payload) = ByteFifo_init(NULL, <<Nul>>)
          /\ IsByteFifo(Given(payload)) /\ Contents(Given(payload)) = <<>>
      BY <1>1, <1>2, InitContents DEF Given
    <2>2. ByteFifo_isEmpty(Given(payload))
      BY <2>1, <1>1, <1>2 DEF ByteFifo_init, ByteFifo_isEmpty
    <2>3. QED
      BY <1>1, <1>2, <2>1, <2>2 DEF First, ByteFifo_pull
  <1>3. CASE payload # <<>>
    <2>1. /\ IsByteFifo(Given(payload)) /\ Contents(Given(payload)) = payload
      BY <1>1, <1>3, InitContents DEF Given
    <2>2. ~ByteFifo_isEmpty(Given(payload))
      BY <1>1, <1>3, NullAssumption
         DEF Given, ByteFifo_initFromBytes, ByteFifo_isEmpty, Begin
    <2>3. QED
      BY <1>3, <2>1, <2>2, PullContents DEF First
  <1>4. QED
    BY <1>2, <1>3

\* Uart_writeAsync keeps every type, whoever calls it.
LEMMA WriteAsyncType ==
  ASSUME NEW payload \in Payloads, TypeOK,
         Uart_writeAsync(payload) \/ EndChains(payload)
  PROVE  TypeOK'
  <1>0. WriteAsync(payload) /\ UNCHANGED rxlog
    BY DEF Uart_writeAsync, EndChains
  <1> DEFINE fifo == Given(payload)
             left == IF TS THEN ByteFifo_pull(fifo) ELSE fifo
  <1>1. /\ uart' = [uart EXCEPT !.txFifo = left, !.txHandler = txlog.sends + 1]
        /\ reg' = IF ~TS THEN reg ELSE [reg EXCEPT !.shift = First(fifo)]
    BY <1>0 DEF WriteAsync, Given, First
  <1>2. IsByteFifo(left) /\ First(fifo) \in Byte
    BY GivenType
  <1>3. reg' \in RegType
    <2> HIDE DEF fifo
    <2>1. QED
      BY <1>1, <1>2 DEF TypeOK, RegType
  <1>4. /\ uart' \in UartType
        /\ uart'.txFifo = left /\ uart'.rxFifo = uart.rxFifo
    <2>1. left \in ByteFifoRec /\ txlog.sends + 1 \in Nat
      BY <1>2 DEF IsByteFifo, TypeOK, TxLogType
    <2> HIDE DEF left
    <2>2. [[uart EXCEPT !.txFifo = left] EXCEPT !.txHandler = txlog.sends + 1]
            \in UartType
      BY <2>1 DEF TypeOK, UartType
    <2>3. QED
      BY <1>1, <2>2 DEF TypeOK, UartType
  <1>5. FifosOK'
    BY <1>2, <1>4 DEF TypeOK, FifosOK
  <1>6. txlog' \in TxLogType
    <2>1. TxKept \o payload \in Seq(Byte)
      BY TxKeptType, UartAssumption, ConcatProperties
    <2> DEFINE handed == TxKept \o payload
    <2>2. [txlog EXCEPT !.handed = handed] \in TxLogType
      <3> HIDE DEF handed
      <3>1. QED
        BY <2>1 DEF handed, TypeOK, TxLogType
    <2>3. [[[txlog EXCEPT !.handed = handed] EXCEPT !.sends = txlog.sends + 1]
             EXCEPT !.active = TRUE] \in TxLogType
      <3> HIDE DEF handed
      <3>1. txlog.sends + 1 \in Nat
        BY DEF TypeOK, TxLogType
      <3>2. QED
        BY <2>2, <3>1 DEF TxLogType
    <2>4. QED
      BY <1>0, <2>3 DEF WriteAsync
  <1>7. vector' \in Vector({ENTRY})
    BY <1>0, VectorType DEF TypeOK, WriteAsync, Unmasked
  <1>8. task' \in TaskType
    BY AnswerType DEF Uart_writeAsync, EndChains, Done, Return, Ops, TypeOK
  <1>9. used' \in [calls : Nat, frames : Nat]
    BY <1>0, CallType DEF WriteAsync
  <1>10. isr' \in {"none", "error", "rx", "tx", "end"}
    BY DEF TypeOK, Uart_writeAsync, EndChains
  <1>11. QED
    BY <1>0, <1>3, <1>4, <1>5, <1>6, <1>7, <1>8, <1>9, <1>10 DEF TypeOK

\* The queries about sending keep every type.
LEMMA QueryTxType == TypeOK /\ QueryTx => TypeOK'
  <1> SUFFICES ASSUME TypeOK, QueryTx PROVE TypeOK'
    OBVIOUS
  <1>1. vector' \in Vector({ENTRY})
    BY VectorType DEF TypeOK, QueryTx, Unmasked
  <1>2. ByteFifo_getCount(uart.txFifo) \in Nat
    BY CountRange DEF TypeOK, FifosOK, QueryTx, IsByteFifo, ByteFifoRec
  <1>3. ByteFifo_isEmpty(uart.txFifo) \in BOOLEAN
    BY DEF ByteFifo_isEmpty
  <1>4. task' \in TaskType
    BY <1>2, <1>3, AnswerType DEF QueryTx, Return, Ops
  <1>5. QED
    BY <1>1, <1>4 DEF TypeOK, QueryTx, FifosOK

-----------------------------------------------------------------------------
(* Receiving.                                                              *)

\* A received byte that is queued and counted keeps the types: the count stays
\* below Word.
LEMMA TakeByteType ==
  ASSUME TypeOK, NEW buf \in Byte, uart.rxFifo # NULL,
         ~ByteFifo_isFull(uart.rxFifo), TakeByte(buf)
  PROVE  uart' \in UartType /\ FifosOK' /\ rxlog' \in RxLogType
  <1> DEFINE count == (uart.sentBytes + 1) % Word
             fifo == ByteFifo_push(uart.rxFifo, buf)
             lengths == IF LengthReached(count) THEN rxlog.lengthCalls + 1
                        ELSE rxlog.lengthCalls
             chars == IF buf = uart.rxHandler.targetCharacter
                      THEN rxlog.charCalls + 1 ELSE rxlog.charCalls
  <1>1. IsByteFifo(fifo)
    BY PushContents DEF TypeOK, FifosOK
  <1>2. SentBytesAfter(count) \in 0 .. Word - 1
    <2>1. uart.sentBytes \in 0 .. Word - 1 /\ Word \in Nat \ {0}
      BY UartAssumption DEF TypeOK, UartType
    <2>2. count \in 0 .. Word - 1 /\ 0 \in 0 .. Word - 1
      BY <2>1
    <2> HIDE DEF count
    <2>3. QED
      BY <2>2 DEF SentBytesAfter
  <1>3. /\ uart' = [[uart EXCEPT !.sentBytes = SentBytesAfter(count)]
                      EXCEPT !.rxFifo = fifo]
        /\ rxlog' = [[[rxlog EXCEPT !.pushed = rxlog.pushed + 1]
                       EXCEPT !.lengthCalls = lengths] EXCEPT !.charCalls = chars]
    BY DEF TakeByte, MatchesTarget, Count
  <1>4. lengths \in Nat /\ chars \in Nat /\ rxlog.pushed + 1 \in Nat
    <2> HIDE DEF count
    <2>1. QED
      BY DEF TypeOK, RxLogType
  <1>5. fifo \in ByteFifoRec
    BY <1>1 DEF IsByteFifo
  <1> HIDE DEF count, fifo, lengths, chars
  <1>6. /\ uart' \in UartType
        /\ uart'.txFifo = uart.txFifo /\ uart'.rxFifo = fifo
    <2>1. [uart EXCEPT !.sentBytes = SentBytesAfter(count)] \in UartType
      BY <1>2 DEF TypeOK, UartType
    <2>2. QED
      BY <1>3, <1>5, <2>1 DEF TypeOK, UartType
  <1>7. FifosOK'
    BY <1>1, <1>6 DEF TypeOK, FifosOK
  <1>8. rxlog' \in RxLogType
    <2>1. [rxlog EXCEPT !.pushed = rxlog.pushed + 1] \in RxLogType
      BY <1>4 DEF TypeOK, RxLogType
    <2>2. QED
      BY <1>3, <1>4, <2>1 DEF RxLogType
  <1>9. QED
    BY <1>6, <1>7, <1>8

\* The byte dropped is the oldest in the receiver.
LEMMA DroppedByte ==
  ASSUME TypeOK, RxConservation, DR
  PROVE  Without(rxlog.accepted, Len(rxlog.accepted) - Len(reg.hold) + 1)
           = (rxlog.taken \o Delivered) \o Tail(reg.hold)
  <1> DEFINE s == rxlog.taken \o Delivered
             h == reg.hold
  <1>1. h \in Seq(Byte) /\ h # <<>>
    BY DEF TypeOK, RegType, DR
  <1>2. s \in Seq(Byte)
    <2>1. rxlog.taken \in Seq(Byte)
      BY DEF TypeOK, RxLogType
    <2>2. QED
      BY <2>1, ByteSequences, ConcatProperties
  <1>3. rxlog.accepted = s \o h
    BY DEF RxConservation
  <1> HIDE DEF s, h
  <1>4. Without(s \o h, Len(s \o h) - Len(h) + 1) = s \o Tail(h)
    BY <1>1, <1>2, HeadDropped DEF Without
  <1>5. QED
    BY <1>3, <1>4 DEF s, h

\* A received byte that is dropped keeps the types.
LEMMA DropByteType ==
  ASSUME TypeOK, RxConservation, DR, DropByte
  PROVE  uart' \in UartType /\ FifosOK' /\ rxlog' \in RxLogType
  <1> DEFINE left == (rxlog.taken \o Delivered) \o Tail(reg.hold)
  <1>1. uart' \in UartType
    <2>1. uart.errorFlags \cup {"RF"} \in SUBSET Flags
      BY DEF TypeOK, UartType, Flags
    <2>2. QED
      BY <2>1 DEF TypeOK, UartType, DropByte
  <1>2. FifosOK'
    BY FifosKept DEF TypeOK, UartType, DropByte
  <1>3. left \in Seq(Byte)
    <2>1. rxlog.taken \in Seq(Byte) /\ Delivered \in Seq(Byte)
      BY ByteSequences DEF TypeOK, RxLogType
    <2>2. Tail(reg.hold) \in Seq(Byte)
      BY HeadTailProperties DEF TypeOK, RegType, DR
    <2>3. QED
      BY <2>1, <2>2, ConcatProperties
  <1>4. rxlog' \in RxLogType
    <2>1. rxlog' = [[rxlog EXCEPT !.accepted = left] EXCEPT !.lost = rxlog.lost + 1]
      BY DroppedByte DEF DropByte
    <2> HIDE DEF left
    <2>2. [rxlog EXCEPT !.accepted = left] \in RxLogType
      BY <1>3 DEF TypeOK, RxLogType
    <2>3. rxlog.lost + 1 \in Nat
      BY DEF TypeOK, RxLogType
    <2>4. QED
      BY <2>1, <2>2, <2>3 DEF RxLogType
  <1>5. QED
    BY <1>1, <1>2, <1>4

\* The reception part of the handler keeps every type.
LEMMA HandleRxType == TypeOK /\ RxConservation /\ Uart_handleRx => TypeOK'
  <1> SUFFICES ASSUME TypeOK, RxConservation, Uart_handleRx PROVE TypeOK'
    OBVIOUS
  <1>1. CASE RxReady
    <2>1. Head(reg.hold) \in Byte /\ Tail(reg.hold) \in Seq(Byte)
      BY <1>1, HeadTailProperties DEF TypeOK, RegType, RxReady, DR
    <2>2. reg' \in RegType
      BY <1>1, <2>1 DEF TypeOK, RegType, Uart_handleRx
    <2>3. uart' \in UartType /\ FifosOK' /\ rxlog' \in RxLogType
      BY <1>1, <2>1, TakeByteType, DropByteType DEF Uart_handleRx, RxReady
    <2>4. QED
      BY <2>2, <2>3 DEF TypeOK, Uart_handleRx
  <1>2. CASE ~RxReady
    BY <1>2 DEF TypeOK, Uart_handleRx, FifosOK
  <1>3. QED
    BY <1>1, <1>2

\* The fresh queue of a length callback holds the byte that made it be called.
LEMMA RefilledContents ==
  ASSUME NEW b \in Byte
  PROVE  IsByteFifo(Refilled(b)) /\ Contents(Refilled(b)) = <<b>>
  <1> DEFINE fresh == ByteFifo_init(NULL, RxBlock)
  <1>1. /\ IsByteFifo(fresh) /\ Contents(fresh) = <<>>
        /\ RxBlock \in Seq(Byte) /\ Len(RxBlock) > 0
    BY InitContents, UartAssumption, EmptySeq
  <1>2. ~ByteFifo_isFull(fresh)
    BY <1>1, UartAssumption, NullAssumption DEF ByteFifo_init, ByteFifo_isFull, Begin
  <1> HIDE DEF fresh
  <1>3. /\ IsByteFifo(ByteFifo_push(fresh, b))
        /\ Contents(ByteFifo_push(fresh, b)) = Append(<<>>, b)
    BY <1>1, <1>2, PushContents
  <1>4. QED
    BY <1>3 DEF Refilled, fresh

\* So does the swap of queues by the length callback.
LEMMA HandleRxRefilledType ==
  ASSUME NEW handler \in Refills, TypeOK, HandleRxRefilled(handler)
  PROVE  TypeOK'
  <1> DEFINE count == SentBytesAfter(Count)
             fifo == Refilled(Head(reg.hold))
  <1>1. Head(reg.hold) \in Byte /\ Tail(reg.hold) \in Seq(Byte)
    BY HeadTailProperties DEF TypeOK, RegType, HandleRxRefilled, RxReady, DR
  <1>2. IsByteFifo(fifo) /\ fifo \in ByteFifoRec
    BY <1>1, RefilledContents DEF IsByteFifo
  <1>3. count \in 0 .. Word - 1 /\ count \in Nat
    BY UartAssumption DEF HandleRxRefilled, SentBytesAfter
  <1>4. handler \in RxHandler
    BY UartAssumption
  <1>5. reg' \in RegType
    BY <1>1 DEF TypeOK, RegType, HandleRxRefilled
  <1>6. uart' = [[[uart EXCEPT !.sentBytes = count] EXCEPT !.rxHandler = handler]
                    EXCEPT !.rxFifo = fifo]
    BY DEF HandleRxRefilled
  <1>7. rxlog' = [RxCountFrom(count) EXCEPT !.taken = rxlog.taken \o Delivered]
    <2>1. RxCountFrom(count).taken = rxlog.taken
      BY <1>3, RxCountType
    <2>2. QED
      BY <2>1 DEF HandleRxRefilled
  <1> HIDE DEF count, fifo
  <1>8. /\ uart' \in UartType
        /\ uart'.txFifo = uart.txFifo /\ uart'.rxFifo = fifo
    <2>1. [uart EXCEPT !.sentBytes = count] \in UartType
      BY <1>3 DEF TypeOK, UartType
    <2>2. [[uart EXCEPT !.sentBytes = count] EXCEPT !.rxHandler = handler] \in UartType
      BY <1>4, <2>1 DEF UartType
    <2>3. QED
      BY <1>2, <1>6, <2>2 DEF TypeOK, UartType
  <1>9. FifosOK'
    BY <1>2, <1>8 DEF TypeOK, FifosOK
  <1>10. rxlog' \in RxLogType
    <2>1. rxlog.taken \o Delivered \in Seq(Byte)
      BY ByteSequences, ConcatProperties DEF TypeOK, RxLogType
    <2>2. RxCountFrom(count) \in RxLogType
      BY <1>3, RxCountType
    <2> DEFINE c == RxCountFrom(count)
               all == rxlog.taken \o Delivered
    <2> HIDE DEF c, all
    <2>3. QED
      BY <1>7, <2>1, <2>2 DEF RxLogType, c, all
  <1>11. vector' \in Vector({ENTRY})
    BY VectorType DEF TypeOK, HandleRxRefilled, Unmasked
  <1>12. used' \in [calls : Nat, frames : Nat]
    BY CallType DEF HandleRxRefilled
  <1>13. QED
    BY <1>5, <1>8, <1>9, <1>10, <1>11, <1>12 DEF TypeOK, HandleRxRefilled

\* A refused Uart_read keeps every type.
LEMMA ReadRefusedType == TypeOK /\ ReadRefused => TypeOK'
  <1> SUFFICES ASSUME TypeOK, ReadRefused PROVE TypeOK'
    OBVIOUS
  <1>1. vector' \in Vector({ENTRY})
    BY VectorType DEF TypeOK, ReadRefused, Unmasked
  <1>2. task' \in TaskType
    BY FailType DEF ReadRefused, Ops, Codes
  <1>3. used' \in [calls : Nat, frames : Nat]
    BY CallType DEF ReadRefused
  <1>4. QED
    BY <1>1, <1>2, <1>3 DEF TypeOK, ReadRefused, FifosOK

\* The beginning of Uart_read keeps every type.
LEMMA ReadBeginType ==
  ASSUME NEW limit \in ReadLimits, TypeOK, ReadBegin(limit)
  PROVE  TypeOK'
  <1>1. vector' \in Vector({ENTRY})
    BY VectorType DEF TypeOK, ReadBegin, Unmasked
  <1>2. task' \in TaskType
    <2>1. limit \in Nat
      BY UartAssumption
    <2>2. [[[task EXCEPT !.pc = "readFlag"] EXCEPT !.limit = limit]
             EXCEPT !.timeout = limit] \in TaskType
      BY <2>1 DEF TypeOK, TaskType
    <2>3. QED
      BY <2>2 DEF ReadBegin
  <1>3. used' \in [calls : Nat, frames : Nat]
    BY CallType DEF ReadBegin
  <1>4. QED
    BY <1>1, <1>2, <1>3 DEF TypeOK, ReadBegin, FifosOK

\* Its test of the full flag keeps every type.
LEMMA ReadFlagType == TypeOK /\ ReadFlag => TypeOK'
  <1> SUFFICES ASSUME TypeOK, ReadFlag PROVE TypeOK'
    OBVIOUS
  <1>1. CASE Fail("read", "RxFifoFull")
    <2>1. task' \in TaskType
      BY <1>1, FailType DEF Ops, Codes
    <2>2. QED
      BY <2>1 DEF TypeOK, ReadFlag, FifosOK
  <1>2. CASE task' = [task EXCEPT !.pc = "readData"]
    <2>1. task' \in TaskType
      BY <1>2 DEF TypeOK, TaskType
    <2>2. QED
      BY <2>1 DEF TypeOK, ReadFlag, FifosOK
  <1>3. QED
    BY <1>1, <1>2 DEF ReadFlag

\* Its reading of a byte keeps every type.
LEMMA ReadDataType == TypeOK /\ ReadData => TypeOK'
  <1> SUFFICES ASSUME TypeOK, ReadData PROVE TypeOK'
    OBVIOUS
  <1>1. Head(reg.hold) \in Byte /\ Tail(reg.hold) \in Seq(Byte)
    BY HeadTailProperties DEF TypeOK, RegType, ReadData, DR
  <1>2. reg' \in RegType
    BY <1>1 DEF TypeOK, RegType, ReadData
  <1>3. rxlog' \in RxLogType
    <2>1. Append(rxlog.taken, Head(reg.hold)) \in Seq(Byte)
      BY <1>1, AppendProperties DEF TypeOK, RxLogType
    <2>2. QED
      BY <2>1 DEF TypeOK, RxLogType, ReadData
  <1>4. task' \in TaskType
    BY AnswerType DEF ReadData, Return, Ops
  <1>5. QED
    BY <1>2, <1>3, <1>4 DEF TypeOK, ReadData, FifosOK

\* A round without data, or its timeout, keeps every type.
LEMMA ReadNoDataType == TypeOK /\ ReadNoData => TypeOK'
  <1> SUFFICES ASSUME TypeOK, ReadNoData PROVE TypeOK'
    OBVIOUS
  <1>1. CASE task.limit = 0 \/ task.timeout > 0
    <2> DEFINE n == IF task.limit = 0 THEN task.timeout ELSE task.timeout - 1
    <2>1. n \in Nat
      BY <1>1 DEF TypeOK, TaskType
    <2>2. task' = [[task EXCEPT !.pc = "readFlag"] EXCEPT !.timeout = n]
      BY <1>1 DEF ReadNoData, RoundsLeft
    <2> HIDE DEF n
    <2>3. task' \in TaskType
      BY <2>1, <2>2 DEF TypeOK, TaskType
    <2>4. QED
      BY <1>1, <2>3 DEF TypeOK, ReadNoData, FifosOK
  <1>2. CASE ~(task.limit = 0 \/ task.timeout > 0)
    <2>1. vector' \in Vector({ENTRY})
      BY <1>2, VectorType DEF TypeOK, ReadNoData, Unmasked
    <2>2. task' \in TaskType
      BY <1>2, FailType DEF ReadNoData, Ops, Codes
    <2>3. QED
      BY <2>1, <2>2 DEF TypeOK, ReadNoData, FifosOK
  <1>3. QED
    BY <1>1, <1>2

\* Uart_readAsync keeps every type.
LEMMA ReadAsyncType ==
  ASSUME NEW handler \in RxHandlers, TypeOK, Uart_readAsync(handler)
  PROVE  TypeOK'
  <1>1. PICK fifo \in {uart.rxFifo, ByteFifo_init(NULL, RxBlock)} :
          /\ fifo # NULL
          /\ uart' = [uart EXCEPT !.rxFifo = fifo, !.rxHandler = handler]
    BY DEF Uart_readAsync
  <1>2. IsByteFifo(fifo)
    BY <1>1, InitContents, UartAssumption DEF TypeOK, FifosOK
  <1>3. /\ uart' \in UartType
        /\ uart'.txFifo = uart.txFifo /\ uart'.rxFifo = fifo
    <2>1. fifo \in ByteFifoRec /\ handler \in RxHandler
      BY <1>2, UartAssumption DEF IsByteFifo
    <2>2. [uart EXCEPT !.rxFifo = fifo] \in UartType
      BY <2>1 DEF TypeOK, UartType
    <2>3. [[uart EXCEPT !.rxFifo = fifo] EXCEPT !.rxHandler = handler] \in UartType
      BY <2>1, <2>2 DEF UartType
    <2>4. QED
      BY <1>1, <2>3 DEF TypeOK, UartType
  <1>4. FifosOK'
    BY <1>2, <1>3 DEF TypeOK, FifosOK
  <1>5. rxlog' \in RxLogType
    <2>1. RxCountFrom(uart.sentBytes) \in RxLogType
      <3>1. uart.sentBytes \in Nat
        BY UartAssumption DEF TypeOK, UartType
      <3>2. QED
        BY <3>1, RxCountType
    <2>2. Len(reg.hold) \in Nat
      BY LenProperties DEF TypeOK, RegType
    <2>3. QED
      BY <2>1, <2>2 DEF Uart_readAsync, RxLogType
  <1>6. vector' \in Vector({ENTRY})
    BY VectorType DEF TypeOK, Uart_readAsync, Unmasked
  <1>7. task' \in TaskType
    BY AnswerType DEF Uart_readAsync, Done, Return, Ops
  <1>8. used' \in [calls : Nat, frames : Nat]
    BY CallType DEF Uart_readAsync
  <1>9. QED
    BY <1>3, <1>4, <1>5, <1>6, <1>7, <1>8 DEF TypeOK, Uart_readAsync

\* The task's pull keeps every type.
LEMMA PullType == TypeOK /\ Pull => TypeOK'
  <1> SUFFICES ASSUME TypeOK, Pull PROVE TypeOK'
    OBVIOUS
  <1> DEFINE rest == ByteFifo_pull(uart.rxFifo)
  <1>1. IsByteFifo(rest) /\ PullData(uart.rxFifo) \in Byte
    BY PullContents DEF TypeOK, FifosOK, Pull
  <1>2. rest \in ByteFifoRec
    BY <1>1 DEF IsByteFifo
  <1>3. uart' = [uart EXCEPT !.rxFifo = rest]
    BY DEF Pull
  <1> HIDE DEF rest
  <1>4. /\ uart' \in UartType
        /\ uart'.txFifo = uart.txFifo /\ uart'.rxFifo = rest
    BY <1>2, <1>3 DEF TypeOK, UartType
  <1>5. FifosOK'
    BY <1>1, <1>4 DEF TypeOK, FifosOK
  <1>6. rxlog' \in RxLogType
    <2>1. Append(rxlog.taken, PullData(uart.rxFifo)) \in Seq(Byte)
      BY <1>1, AppendProperties DEF TypeOK, RxLogType
    <2>2. QED
      BY <2>1 DEF TypeOK, RxLogType, Pull
  <1>7. QED
    BY <1>4, <1>5, <1>6 DEF TypeOK, Pull

\* The queries about reception keep every type.
LEMMA QueryRxType == TypeOK /\ QueryRx => TypeOK'
  <1> SUFFICES ASSUME TypeOK, QueryRx PROVE TypeOK'
    OBVIOUS
  <1>1. vector' \in Vector({ENTRY})
    BY VectorType DEF TypeOK, QueryRx, Unmasked
  <1>2. ByteFifo_getCount(uart.rxFifo) \in Nat
    BY CountRange DEF TypeOK, FifosOK, QueryRx, IsByteFifo, ByteFifoRec
  <1>3. ByteFifo_isEmpty(uart.rxFifo) \in BOOLEAN
    BY DEF ByteFifo_isEmpty
  <1>4. task' \in TaskType
    BY <1>2, <1>3, AnswerType DEF QueryRx, Return, Ops
  <1>5. QED
    BY <1>1, <1>4 DEF TypeOK, QueryRx, FifosOK

\* Uart_registerErrorHandler keeps every type.
LEMMA RegisterErrorHandlerType ==
  TypeOK /\ Uart_registerErrorHandler => TypeOK'
  <1> SUFFICES ASSUME TypeOK, Uart_registerErrorHandler PROVE TypeOK'
    OBVIOUS
  <1>1. vector' \in Vector({ENTRY})
    BY VectorType DEF TypeOK, Uart_registerErrorHandler, Unmasked
  <1>2. task' \in TaskType
    BY AnswerType DEF Uart_registerErrorHandler, Done, Return, Ops
  <1>3. uart' \in UartType
    BY DEF TypeOK, UartType, Uart_registerErrorHandler
  <1>4. FifosOK'
    BY FifosKept DEF TypeOK, UartType, Uart_registerErrorHandler
  <1>5. used' \in [calls : Nat, frames : Nat]
    BY CallType DEF Uart_registerErrorHandler
  <1>6. QED
    BY <1>1, <1>2, <1>3, <1>4, <1>5 DEF TypeOK, Uart_registerErrorHandler

\* What Uart_init leaves has the right shape.
LEMMA InitType == Init => TypeOK
  <1> SUFFICES ASSUME Init PROVE TypeOK
    OBVIOUS
  <1>1. reg \in RegType
    BY EmptySeq DEF Init, IdleReg, RegType
  <1>2. vector \in Vector({ENTRY})
    BY DEF Init, IdleVector, Vector
  <1>3. uart \in UartType /\ FifosOK
    BY UartAssumption DEF Init, NewUart, UartType, RxHandler, FifosOK
  <1>4. task \in TaskType
    BY UartAssumption DEF Init, TaskType, Reply, ReplyType, NoConfig, Config
  <1>5. txlog \in TxLogType
    BY EmptySeq DEF Init, TxLogType
  <1>6. rxlog \in RxLogType
    BY EmptySeq DEF Init, RxLogType
  <1>7. QED
    BY <1>1, <1>2, <1>3, <1>4, <1>5, <1>6 DEF Init, TypeOK

-----------------------------------------------------------------------------
(* The invariant.                                                          *)

\* No step attaches a queue while a polling loop of the same direction runs.
LEMMA NextPollsAlone == TypeOK /\ PollsAlone /\ [Next]_vars => PollsAlone'
  <1> SUFFICES ASSUME TypeOK, PollsAlone, [Next]_vars PROVE PollsAlone'
    OBVIOUS
  <1> USE DEF PollsAlone
  <1>0. uart \in UartType /\ task \in TaskType
    BY DEF TypeOK
  <1>1. CASE Device
    BY <1>1 DEF Device, TxDone, FrameArrives, BadFrameArrives
  <1>2. CASE IsrEnter
    BY <1>2 DEF IsrEnter
  <1>3. CASE Uart_handleError
    BY <1>0, <1>3 DEF Uart_handleError, UartType
  <1>4. CASE Uart_handleRx
    BY <1>0, <1>4 DEF Uart_handleRx, RxReady, DropByte, TakeByte, UartType
  <1>5. CASE Uart_handleTx
    <2>1. ASSUME uart.txFifo # NULL, ~ByteFifo_isEmpty(uart.txFifo)
          PROVE  ByteFifo_pull(uart.txFifo) # NULL
      BY <2>1, PullContents, NullAssumption DEF TypeOK, FifosOK, IsByteFifo
    <2>2. QED
      BY <1>0, <1>5, <2>1 DEF Uart_handleTx, UartType
  <1>6. CASE WritePoll \/ WriteTimesOut
    BY <1>0, <1>6 DEF WritePoll, WriteTimesOut, Return, Answer, TaskType
  <1>7. CASE ReadFlag \/ ReadData \/ ReadNoData
    BY <1>0, <1>7 DEF ReadFlag, ReadData, ReadNoData, Return, Answer, Fail, TaskType
  <1>8. CASE WriteRefused
    BY <1>0, <1>8 DEF WriteRefused, Fail, TaskType
  <1>9. ASSUME NEW data \in SyncBytes, NEW limit \in WriteLimits,
               WriteBegin(data, limit)
        PROVE  PollsAlone'
    BY <1>0, <1>9 DEF WriteBegin, TaskType
  <1>10. ASSUME NEW payload \in Payloads, Uart_writeAsync(payload)
         PROVE  PollsAlone'
    BY <1>0, <1>10
       DEF Uart_writeAsync, WriteAsync, Idle, TaskRuns, Done, Return, Answer,
           TaskType, UartType
  <1>11. CASE QueryTx \/ QueryRx
    BY <1>0, <1>11 DEF QueryTx, QueryRx, Return, Answer, TaskType
  <1>12. CASE ReadRefused
    BY <1>0, <1>12 DEF ReadRefused, Fail, TaskType
  <1>13. ASSUME NEW limit \in ReadLimits, ReadBegin(limit) PROVE PollsAlone'
    BY <1>0, <1>13 DEF ReadBegin, TaskType
  <1>14. ASSUME NEW handler \in RxHandlers, Uart_readAsync(handler)
         PROVE  PollsAlone'
    BY <1>0, <1>14 DEF Uart_readAsync, Done, Return, Answer, TaskType
  <1>15. CASE Pull
    BY <1>0, <1>15 DEF Pull, Idle, TaskRuns
  <1>16. CASE Lifecycle
    BY <1>0, <1>16
       DEF Lifecycle, Uart_init, Uart_setConfig, Uart_startup, Uart_shutdown,
           Uart_registerErrorHandler, Call, Idle, TaskRuns, Done, Return, Answer,
           TaskType, UartType
  <1>17. CASE UNCHANGED vars
    BY <1>17 DEF vars
  <1>18. ASSUME NEW handler \in Refills, HandleRxRefilled(handler)
         PROVE  PollsAlone'
    BY <1>0, <1>18 DEF HandleRxRefilled, RxReady, UartType
  <1>19. CASE EndReturns \/ \E payload \in Chained : EndChains(payload)
    BY <1>0, <1>19 DEF EndReturns, EndChains, WriteAsync, UartType
  <1>20. CASE SetInterrupts \/ SetLoopback
    BY <1>0, <1>20 DEF SetInterrupts, SetLoopback, Done, Return, Answer, TaskType
  <1>21. QED
    BY <1>1, <1>2, <1>3, <1>4, <1>5, <1>6, <1>7, <1>8, <1>9, <1>10, <1>11, <1>12,
       <1>13, <1>14, <1>15, <1>16, <1>17, <1>18, <1>19, <1>20
       DEF Next, Interrupt, TaskStep, Sending, Receiving

\* A frame that is kept is at the end of both.
LEMMA ReceivedConserves ==
  ASSUME TypeOK, RxConservation, NEW b \in Byte, NEW r \in RegType,
         r.hold = reg.hold, r.re = reg.re,
         reg' = Received(r, b), LogReceived(b), UNCHANGED uart
  PROVE  RxConservation'
  <1> DEFINE s == rxlog.taken \o Delivered
  <1>1. s \in Seq(Byte)
    <2>1. rxlog.taken \in Seq(Byte)
      BY DEF TypeOK, RxLogType
    <2>2. QED
      BY <2>1, ByteSequences, ConcatProperties
  <1>2. rxlog'.taken = rxlog.taken /\ Delivered' = Delivered
    BY DEF LogReceived, Delivered, TypeOK, RxLogType
  <1>3. CASE reg.re /\ Len(reg.hold) < HwDepth
    <2>1. /\ reg'.hold = Append(reg.hold, b)
          /\ rxlog'.accepted = Append(rxlog.accepted, b)
      BY <1>3 DEF Received, RegType, LogReceived, TypeOK, RxLogType
    <2>2. reg.hold \in Seq(Byte)
      BY DEF TypeOK, RegType
    <2>3. s \o Append(reg.hold, b) = Append(s \o reg.hold, b)
      <3> HIDE DEF s
      <3>1. QED
        BY <1>1, <2>2, AppendAtEnd
    <2>4. QED
      BY <1>2, <2>1, <2>3 DEF RxConservation
  <1>4. CASE ~(reg.re /\ Len(reg.hold) < HwDepth)
    <2>1. reg'.hold = reg.hold /\ rxlog' = rxlog
      BY <1>4 DEF Received, RegType, LogReceived
    <2>2. QED
      BY <1>2, <2>1 DEF RxConservation
  <1>5. QED
    BY <1>3, <1>4

\* The handler moves the oldest byte of the receiver to the end of the queue, or
\* drops it there and from the log.
LEMMA HandleRxConserves ==
  ASSUME TypeOK, RxConservation, Uart_handleRx
  PROVE  RxConservation'
  <1>1. CASE ~RxReady
    BY <1>1 DEF Uart_handleRx, RxConservation, Delivered
  <1>2. CASE RxReady
    <2> DEFINE t == rxlog.taken
               h == reg.hold
    <2>1. /\ h \in Seq(Byte) /\ h # <<>> /\ t \in Seq(Byte)
          /\ Delivered \in Seq(Byte)
      BY <1>2, ByteSequences DEF TypeOK, RegType, RxLogType, RxReady, DR
    <2>2. reg'.hold = Tail(h)
      BY <1>2 DEF Uart_handleRx, TypeOK, RegType
    <2>3. CASE ByteFifo_isFull(uart.rxFifo)
      <3>1. DropByte
        BY <1>2, <2>3 DEF Uart_handleRx
      <3>2. /\ rxlog'.accepted = (t \o Delivered) \o Tail(h)
            /\ rxlog'.taken = t
        BY <1>2, <3>1, DroppedByte DEF DropByte, RxReady, TypeOK, RxLogType
      <3>3. Delivered' = Delivered
        BY <3>1 DEF DropByte, Delivered, TypeOK, UartType
      <3>4. QED
        BY <2>2, <3>2, <3>3 DEF RxConservation
    <2>4. CASE ~ByteFifo_isFull(uart.rxFifo)
      <3>1. TakeByte(Head(h))
        BY <1>2, <2>4 DEF Uart_handleRx
      <3>2. /\ rxlog'.accepted = rxlog.accepted /\ rxlog'.taken = t
            /\ uart'.rxFifo = ByteFifo_push(uart.rxFifo, Head(h))
        BY <3>1 DEF TakeByte, TypeOK, RxLogType, UartType
      <3>3. Head(h) \in Byte
        BY <2>1, HeadTailProperties
      <3>4. Delivered' = Append(Delivered, Head(h))
        <4>1. uart.rxFifo # NULL /\ IsByteFifo(uart.rxFifo)
          BY <1>2 DEF RxReady, TypeOK, FifosOK
        <4>2. /\ IsByteFifo(ByteFifo_push(uart.rxFifo, Head(h)))
              /\ Contents(ByteFifo_push(uart.rxFifo, Head(h)))
                   = Append(Contents(uart.rxFifo), Head(h))
          BY <2>4, <3>3, <4>1, PushContents
        <4>3. ByteFifo_push(uart.rxFifo, Head(h)) # NULL
          BY <4>2, NullAssumption DEF IsByteFifo
        <4>4. QED
          BY <3>2, <4>1, <4>2, <4>3 DEF Delivered
      <3> HIDE DEF t, h
      <3>5. /\ t \o Append(Delivered, Head(h)) = Append(t \o Delivered, Head(h))
            /\ t \o Delivered \in Seq(Byte)
        BY <2>1, <3>3, AppendAtEnd, ConcatProperties
      <3>6. Append(t \o Delivered, Head(h)) \o Tail(h) = (t \o Delivered) \o h
        BY <2>1, <3>5, HeadMoves
      <3>7. QED
        BY <2>2, <3>2, <3>4, <3>5, <3>6 DEF RxConservation, t, h
    <2>5. QED
      BY <2>3, <2>4
  <1>3. QED
    BY <1>1, <1>2

\* The swap of queues leaves every byte in its place: those of the old queue
\* are the task's, and the one that caused it is the first of the new queue.
LEMMA HandleRxRefilledConserves ==
  ASSUME NEW handler \in Refills, TypeOK, RxConservation, HandleRxRefilled(handler)
  PROVE  RxConservation'
  <1> DEFINE s == rxlog.taken \o Delivered
             h == reg.hold
             c == RxCountFrom(SentBytesAfter(Count))
  <1>1. h \in Seq(Byte) /\ h # <<>>
    BY DEF TypeOK, RegType, HandleRxRefilled, RxReady, DR
  <1>2. s \in Seq(Byte)
    BY ByteSequences, ConcatProperties DEF TypeOK, RxLogType
  <1>3. Head(h) \in Byte
    BY <1>1, HeadTailProperties
  <1>4. c \in RxLogType /\ c.accepted = rxlog.accepted /\ c.taken = rxlog.taken
    <2>1. SentBytesAfter(Count) \in Nat
      BY DEF HandleRxRefilled, SentBytesAfter
    <2>2. QED
      BY <2>1, RxCountType
  <1>5. rxlog' = [c EXCEPT !.taken = s]
    BY <1>4 DEF HandleRxRefilled
  <1>6. /\ reg'.hold = Tail(h)
        /\ uart'.rxFifo = Refilled(Head(h))
    BY DEF HandleRxRefilled, TypeOK, RegType, UartType
  <1>7. Delivered' = <<Head(h)>>
    <2>1. Refilled(Head(h)) # NULL /\ Contents(Refilled(Head(h))) = <<Head(h)>>
      BY <1>3, RefilledContents, NullAssumption DEF IsByteFifo
    <2>2. QED
      BY <1>6, <2>1 DEF Delivered
  <1>8. rxlog.accepted = s \o h
    BY DEF RxConservation
  <1>9. RxConservation' <=>
          rxlog'.taken \o Delivered' \o reg'.hold = rxlog'.accepted
    BY DEF RxConservation
  <1> HIDE DEF s, h, c
  <1>10. rxlog'.taken = s /\ rxlog'.accepted = rxlog.accepted
    BY <1>4, <1>5 DEF RxLogType
  <1>11. (s \o <<Head(h)>>) \o Tail(h) = s \o h
    BY <1>1, <1>2, HeadMoves
  <1>12. QED
    BY <1>6, <1>7, <1>8, <1>9, <1>10, <1>11

\* A step that leaves the queue, the receiver and what was taken alone.
LEMMA SteadyConserves ==
  ASSUME RxConservation,
         rxlog'.accepted = rxlog.accepted, rxlog'.taken = rxlog.taken,
         reg'.hold = reg.hold, uart'.rxFifo = uart.rxFifo
  PROVE  RxConservation'
  <1>1. Delivered' = Delivered
    BY DEF Delivered
  <1>2. QED
    BY <1>1 DEF RxConservation

\* The device adds what it accepts to the receiver and to the log alike.
LEMMA DeviceConserves == TypeOK /\ RxConservation /\ Device => RxConservation'
  <1> SUFFICES ASSUME TypeOK, RxConservation, Device PROVE RxConservation'
    OBVIOUS
  <1>0. reg \in RegType
    BY DEF TypeOK
  <1>1. CASE TxDone
    <2> DEFINE sent == [reg EXCEPT !.shift = NULL]
    <2>1. /\ reg.shift \in Byte
          /\ sent \in RegType /\ sent.hold = reg.hold /\ sent.re = reg.re
      BY <1>0, <1>1 DEF RegType, TxDone
    <2>2. CASE reg.lb
      <3>1. reg' = Received(sent, reg.shift) /\ LogReceived(reg.shift) /\ UNCHANGED uart
        BY <1>1, <2>2 DEF TxDone
      <3> HIDE DEF sent
      <3>2. QED
        BY <2>1, <3>1, ReceivedConserves
    <2>3. CASE ~reg.lb
      BY <1>1, <2>1, <2>3, SteadyConserves DEF TxDone
    <2>4. QED
      BY <2>2, <2>3
  <1>2. ASSUME NEW b \in LineBytes, FrameArrives(b) PROVE RxConservation'
    <2>1. b \in Byte
      BY UartAssumption
    <2>2. reg' = Received(reg, b) /\ LogReceived(b) /\ UNCHANGED uart
      BY <1>2 DEF FrameArrives
    <2>3. QED
      BY <1>0, <2>1, <2>2, ReceivedConserves
  <1>3. ASSUME NEW error \in LineErrors, BadFrameArrives(error)
        PROVE  RxConservation'
    BY <1>0, <1>3, SteadyConserves DEF BadFrameArrives, RegType
  <1>4. QED
    BY <1>1, <1>2, <1>3 DEF Device

\* Uart_read takes the oldest byte of the receiver; the task has no queue.
LEMMA ReadDataConserves ==
  ASSUME TypeOK, PollsAlone, RxConservation, ReadData
  PROVE  RxConservation'
  <1> DEFINE t == rxlog.taken
             h == reg.hold
  <1>1. h \in Seq(Byte) /\ h # <<>> /\ t \in Seq(Byte)
    BY DEF TypeOK, RegType, RxLogType, ReadData, DR
  <1>2. /\ reg'.hold = Tail(h) /\ rxlog'.taken = Append(t, Head(h))
        /\ rxlog'.accepted = rxlog.accepted
    BY DEF ReadData, TypeOK, RegType, RxLogType
  <1>3. Delivered = <<>> /\ Delivered' = <<>>
    BY DEF ReadData, PollsAlone, Delivered
  <1>4. rxlog.accepted = t \o Delivered \o h
    BY DEF RxConservation
  <1>5. RxConservation' <=>
          rxlog'.taken \o Delivered' \o reg'.hold = rxlog'.accepted
    BY DEF RxConservation
  <1> HIDE DEF t, h
  <1>6. Append(t, Head(h)) \in Seq(Byte) /\ Append(t, Head(h)) \o Tail(h) = t \o h
    BY <1>1, HeadMoves
  <1>7. t \o <<>> = t /\ Append(t, Head(h)) \o <<>> = Append(t, Head(h))
    BY <1>1, <1>6, ConcatEmptySeq
  <1>8. QED
    BY <1>2, <1>3, <1>4, <1>5, <1>6, <1>7

\* The task takes the oldest byte of its queue.
LEMMA PullConserves ==
  ASSUME TypeOK, RxConservation, Pull
  PROVE  RxConservation'
  <1> DEFINE t == rxlog.taken
             d == Contents(uart.rxFifo)
             rest == ByteFifo_pull(uart.rxFifo)
  <1>1. uart.rxFifo # NULL /\ IsByteFifo(uart.rxFifo) /\ ~ByteFifo_isEmpty(uart.rxFifo)
    BY DEF Pull, TypeOK, FifosOK
  <1>2. /\ IsByteFifo(rest) /\ Contents(rest) = Tail(d)
        /\ d # <<>> /\ PullData(uart.rxFifo) = Head(d)
        /\ d \in Seq(Byte)
    BY <1>1, PullContents, ContentsType
  <1>3. t \in Seq(Byte)
    BY DEF TypeOK, RxLogType
  <1>4. /\ reg'.hold = reg.hold /\ rxlog'.taken = Append(t, Head(d))
        /\ rxlog'.accepted = rxlog.accepted /\ uart'.rxFifo = rest
    BY <1>2 DEF Pull, TypeOK, UartType, RxLogType
  <1>5. Delivered = d /\ Delivered' = Tail(d)
    <2>1. rest # NULL
      BY <1>2, NullAssumption DEF IsByteFifo
    <2>2. QED
      BY <1>1, <1>2, <1>4, <2>1 DEF Delivered
  <1>6. rxlog.accepted = t \o Delivered \o reg.hold
    BY DEF RxConservation
  <1>7. RxConservation' <=>
          rxlog'.taken \o Delivered' \o reg'.hold = rxlog'.accepted
    BY DEF RxConservation
  <1> HIDE DEF t, d
  <1>8. Append(t, Head(d)) \o Tail(d) = t \o d
    BY <1>2, <1>3, HeadMoves
  <1>9. QED
    BY <1>4, <1>5, <1>6, <1>7, <1>8

\* Uart_readAsync changes the queue only for another empty one.
LEMMA ReadAsyncConserves ==
  ASSUME NEW handler \in RxHandlers, TypeOK, RxConservation, Uart_readAsync(handler)
  PROVE  RxConservation'
  <1>1. /\ reg'.hold = reg.hold
        /\ rxlog'.accepted = rxlog.accepted /\ rxlog'.taken = rxlog.taken
    <2>1. uart.sentBytes \in Nat
      BY UartAssumption DEF TypeOK, UartType
    <2> DEFINE r == RxCountFrom(uart.sentBytes)
    <2>2. /\ r \in RxLogType
          /\ r.accepted = rxlog.accepted /\ r.taken = rxlog.taken
      BY <2>1, RxCountType
    <2>3. rxlog' = [r EXCEPT !.missed = Len(reg.hold)] /\ UNCHANGED reg
      BY DEF Uart_readAsync
    <2> HIDE DEF r
    <2>4. QED
      BY <2>2, <2>3 DEF RxLogType
  <1>2. PICK fifo \in {uart.rxFifo, ByteFifo_init(NULL, RxBlock)} :
          /\ fifo # NULL
          /\ fifo = uart.rxFifo \/ Delivered = <<>>
          /\ uart' = [uart EXCEPT !.rxFifo = fifo, !.rxHandler = handler]
    BY DEF Uart_readAsync
  <1>3. uart'.rxFifo = fifo
    BY <1>2 DEF TypeOK, UartType
  <1>4. Delivered' = Delivered
    <2>1. CASE fifo = uart.rxFifo
      BY <1>3, <2>1 DEF Delivered
    <2>2. CASE fifo # uart.rxFifo
      <3>1. Contents(fifo) = <<>>
        BY <1>2, <2>2, InitContents, UartAssumption
      <3>2. QED
        BY <1>2, <1>3, <2>2, <3>1 DEF Delivered
    <2>3. QED
      BY <2>1, <2>2
  <1>5. QED
    BY <1>1, <1>4 DEF RxConservation

\* Uart_init forgets the queue, and the log what was in it.
LEMMA InitActionConserves ==
  ASSUME TypeOK, RxConservation, Uart_init
  PROVE  RxConservation'
  <1> DEFINE t == rxlog.taken
             r == RxCountFrom(0)
  <1>1. RxKept = t \o reg.hold /\ RxKept \in Seq(Byte)
    BY RxKeptType
  <1>2. r \in RxLogType /\ r.taken = t
    BY RxCountType
  <1>3. t \in Seq(Byte)
    BY DEF TypeOK, RxLogType
  <1>4. rxlog' = [r EXCEPT !.accepted = RxKept, !.told = {}, !.lost = 0]
    BY DEF Uart_init
  <1>5. reg'.hold = reg.hold
    BY DEF Uart_init, TypeOK, RegType
  <1>6. Delivered' = <<>>
    BY DEF Uart_init, NewUart, Delivered
  <1>7. RxConservation' <=>
          rxlog'.taken \o Delivered' \o reg'.hold = rxlog'.accepted
    BY DEF RxConservation
  <1> HIDE DEF t, r, RxKept
  <1>8. rxlog'.accepted = RxKept /\ rxlog'.taken = t
    BY <1>2, <1>4 DEF RxLogType
  <1>9. t \o <<>> = t
    BY <1>3, ConcatEmptySeq
  <1>10. QED
    BY <1>1, <1>5, <1>6, <1>7, <1>8, <1>9

\* No other call touches the queue, the receiver or the bytes taken.
LEMMA OthersConserve ==
  ASSUME TypeOK, RxConservation,
         \/ Uart_shutdown \/ Uart_startup \/ Uart_registerErrorHandler
         \/ \E config \in Configs : Uart_setConfig(config)
         \/ SetInterrupts \/ SetLoopback
         \/ \E payload \in Payloads : Uart_writeAsync(payload) \/ EndChains(payload)
         \/ Uart_handleTx \/ Uart_handleError \/ WritePoll
  PROVE  RxConservation'
  <1> SUFFICES /\ rxlog'.accepted = rxlog.accepted /\ rxlog'.taken = rxlog.taken
               /\ reg'.hold = reg.hold /\ uart'.rxFifo = uart.rxFifo
    BY SteadyConserves
  <1>0. reg \in RegType /\ uart \in UartType /\ rxlog \in RxLogType
    BY DEF TypeOK
  <1>1. LET r == [RxCountFrom(0) EXCEPT !.told = {}, !.lost = 0] IN
        r.accepted = rxlog.accepted /\ r.taken = rxlog.taken
    <2> DEFINE c == RxCountFrom(0)
    <2>1. /\ c \in RxLogType
          /\ c.accepted = rxlog.accepted /\ c.taken = rxlog.taken
      BY RxCountType
    <2> HIDE DEF c
    <2>2. LET r == [c EXCEPT !.told = {}, !.lost = 0] IN
          r.accepted = rxlog.accepted /\ r.taken = rxlog.taken
      BY <2>1 DEF RxLogType
    <2>3. QED
      BY <2>2 DEF c
  <1>2. CASE Uart_shutdown
    BY <1>0, <1>1, <1>2 DEF Uart_shutdown, RegType, UartType
  <1>3. CASE Uart_startup
    BY <1>0, <1>1, <1>3 DEF Uart_startup, UartType
  <1>4. CASE Uart_registerErrorHandler
    BY <1>0, <1>4 DEF Uart_registerErrorHandler, UartType
  <1>5. CASE \E config \in Configs : Uart_setConfig(config)
    BY <1>0, <1>5 DEF Uart_setConfig, RegType, RxLogType
  <1>6. CASE \E payload \in Payloads : Uart_writeAsync(payload) \/ EndChains(payload)
    BY <1>0, <1>6 DEF Uart_writeAsync, EndChains, WriteAsync, RegType, UartType
  <1>7. CASE Uart_handleTx
    BY <1>0, <1>7 DEF Uart_handleTx, RegType, UartType
  <1>8. CASE Uart_handleError
    BY <1>0, <1>8 DEF Uart_handleError, UartType, RxLogType
  <1>9. CASE WritePoll
    BY <1>0, <1>9 DEF WritePoll, RegType
  <1>10. CASE SetInterrupts \/ SetLoopback
    BY <1>0, <1>10 DEF SetInterrupts, SetLoopback, RegType
  <1>11. QED
    BY <1>2, <1>3, <1>4, <1>5, <1>6, <1>7, <1>8, <1>9, <1>10

\* The invariant is inductive: one case per action.
LEMMA NextRxInv == RxInv /\ [Next]_vars => RxInv'
  <1> SUFFICES ASSUME TypeOK, PollsAlone, RxConservation, [Next]_vars
               PROVE  TypeOK' /\ RxConservation'
    BY NextPollsAlone DEF RxInv
  <1>1. CASE Device
    BY <1>1, TxDoneType, FrameArrivesType, BadFrameArrivesType, DeviceConserves
       DEF Device
  <1>2. CASE IsrEnter
    BY <1>2, IsrEnterType, SteadyConserves DEF IsrEnter
  <1>3. CASE Uart_handleError
    BY <1>3, HandleErrorType, OthersConserve
  <1>4. CASE Uart_handleRx
    BY <1>4, HandleRxType, HandleRxConserves
  <1>5. CASE Uart_handleTx
    BY <1>5, HandleTxType, OthersConserve
  <1>6. CASE WritePoll
    BY <1>6, WritePollType, OthersConserve
  <1>7. CASE WriteTimesOut
    BY <1>7, WriteTimesOutType, SteadyConserves DEF WriteTimesOut
  <1>8. CASE ReadFlag
    BY <1>8, ReadFlagType, SteadyConserves DEF ReadFlag
  <1>9. CASE ReadData
    BY <1>9, ReadDataType, ReadDataConserves
  <1>10. CASE ReadNoData
    BY <1>10, ReadNoDataType, SteadyConserves DEF ReadNoData
  <1>11. CASE WriteRefused
    BY <1>11, WriteRefusedType, SteadyConserves DEF WriteRefused
  <1>12. ASSUME NEW data \in SyncBytes, NEW limit \in WriteLimits,
                WriteBegin(data, limit)
         PROVE  TypeOK' /\ RxConservation'
    BY <1>12, WriteBeginType, SteadyConserves DEF WriteBegin
  <1>13. ASSUME NEW payload \in Payloads, Uart_writeAsync(payload)
         PROVE  TypeOK' /\ RxConservation'
    BY <1>13, WriteAsyncType, OthersConserve
  <1>14. CASE QueryTx
    BY <1>14, QueryTxType, SteadyConserves DEF QueryTx
  <1>15. CASE ReadRefused
    BY <1>15, ReadRefusedType, SteadyConserves DEF ReadRefused
  <1>16. ASSUME NEW limit \in ReadLimits, ReadBegin(limit)
         PROVE  TypeOK' /\ RxConservation'
    BY <1>16, ReadBeginType, SteadyConserves DEF ReadBegin
  <1>17. ASSUME NEW handler \in RxHandlers, Uart_readAsync(handler)
         PROVE  TypeOK' /\ RxConservation'
    BY <1>17, ReadAsyncType, ReadAsyncConserves
  <1>18. CASE Pull
    BY <1>18, PullType, PullConserves
  <1>19. CASE QueryRx
    BY <1>19, QueryRxType, SteadyConserves DEF QueryRx
  <1>20. CASE Uart_init
    BY <1>20, InitActionType, InitActionConserves
  <1>21. ASSUME NEW config \in Configs, Uart_setConfig(config)
         PROVE  TypeOK' /\ RxConservation'
    BY <1>21, SetConfigType, OthersConserve
  <1>22. CASE Uart_startup
    BY <1>22, StartupType, OthersConserve
  <1>23. CASE Uart_shutdown
    BY <1>23, ShutdownType, OthersConserve
  <1>24. CASE Uart_registerErrorHandler
    BY <1>24, RegisterErrorHandlerType, OthersConserve
  <1>25. CASE UNCHANGED vars
    BY <1>25, SteadyConserves DEF vars, TypeOK, FifosOK
  <1>26. ASSUME NEW handler \in Refills, HandleRxRefilled(handler)
         PROVE  TypeOK' /\ RxConservation'
    BY <1>26, HandleRxRefilledType, HandleRxRefilledConserves
  <1>27. CASE EndReturns
    BY <1>27, SteadyConserves DEF EndReturns, TypeOK, FifosOK
  <1>28. ASSUME NEW payload \in Chained, EndChains(payload)
         PROVE  TypeOK' /\ RxConservation'
    <2>1. payload \in Payloads
      BY UartAssumption
    <2>2. QED
      BY <1>28, <2>1, WriteAsyncType, OthersConserve
  <1>29. CASE SetInterrupts
    BY <1>29, SetInterruptsType, OthersConserve
  <1>30. CASE SetLoopback
    BY <1>30, SetLoopbackType, OthersConserve
  <1>31. QED
    BY <1>1, <1>2, <1>3, <1>4, <1>5, <1>6, <1>7, <1>8, <1>9, <1>10, <1>11, <1>12,
       <1>13, <1>14, <1>15, <1>16, <1>17, <1>18, <1>19, <1>20, <1>21, <1>22,
       <1>23, <1>24, <1>25, <1>26, <1>27, <1>28, <1>29, <1>30
       DEF Next, Interrupt, TaskStep, Sending, Receiving, Lifecycle

\* The invariant holds at the start.
LEMMA InitRxInv == Init => RxInv
  <1> SUFFICES ASSUME Init PROVE PollsAlone /\ RxConservation
    BY InitType DEF RxInv
  <1>1. PollsAlone
    BY DEF Init, PollsAlone
  <1>2. RxConservation
    <2>1. /\ rxlog.taken = <<>> /\ rxlog.accepted = <<>>
          /\ reg.hold = <<>> /\ Delivered = <<>>
      BY DEF Init, IdleReg, NewUart, Delivered
    <2>2. <<>> \o <<>> = <<>>
      BY ConcatEmptySeq, EmptySeq
    <2>3. QED
      BY <2>1, <2>2 DEF RxConservation
  <1>3. QED
    BY <1>1, <1>2

\* RxInv holds in every state the driver, its device and its task can reach.
LEMMA RxInvariant == Spec => []RxInv
  <1>1. Init => RxInv
    BY InitRxInv
  <1>2. RxInv /\ [Next]_vars => RxInv'
    BY NextRxInv
  <1>3. QED
    BY <1>1, <1>2, PTL DEF Spec

\* TypeOK: whatever the configurations, payloads, blocks and number of calls,
\* no step of Uart.c, of its interrupt handler or of the device leaves a queue
\* with a pointer outside its block or a register or counter out of its range.
THEOREM TypeCorrect == Spec => []TypeOK
  <1>1. RxInv => TypeOK
    BY DEF RxInv
  <1>2. QED
    BY <1>1, RxInvariant, PTL

\* RxConservation: Uart_handleRx, Uart_read, the task's pull and the device
\* never lose, repeat or reorder a received byte between them, but for those
\* dropped on a full queue.
THEOREM RxConserved == Spec => []RxConservation
  <1>1. RxInv => RxConservation
    BY DEF RxInv
  <1>2. QED
    BY <1>1, RxInvariant, PTL


-----------------------------------------------------------------------------
(* The bytes to send.                                                      *)

\* A step that leaves the queue, the shift register and the log alone.
LEMMA SteadySends ==
  ASSUME TxConservation,
         txlog'.wire = txlog.wire, txlog'.handed = txlog.handed,
         reg'.shift = reg.shift, uart'.txFifo = uart.txFifo
  PROVE  TxConservation'
  <1>1. Queued' = Queued /\ Shifting' = Shifting
    BY DEF Queued, Shifting
  <1>2. QED
    BY <1>1 DEF TxConservation

\* Without what is queued, the log holds what was sent and what is being sent.
LEMMA TxKeptIs ==
  ASSUME TypeOK, TxConservation
  PROVE  TxKept = txlog.wire \o Shifting /\ TxKept \in Seq(Byte)
  <1> DEFINE w == txlog.wire
  <1>1. w \in Seq(Byte) /\ Shifting \in Seq(Byte) /\ Queued \in Seq(Byte)
    BY ByteSequences DEF TypeOK, TxLogType
  <1>2. txlog.handed = (w \o Shifting) \o Queued
    BY DEF TxConservation
  <1> DEFINE s == w \o Shifting
  <1>3. s \in Seq(Byte)
    BY <1>1, ConcatProperties
  <1>4. TxKept = SubSeq(txlog.handed, 1, Len(txlog.handed) - Len(Queued))
    BY DEF TxKept
  <1>5. txlog.handed = s \o Queued
    BY <1>2
  <1> HIDE DEF s
  <1>6. TxKept = s
    BY <1>1, <1>3, <1>4, <1>5, FirstPart
  <1>7. QED
    BY <1>3, <1>6 DEF s

\* A frame that ends is on the wire and no longer in the shift register.
LEMMA TxDoneSends ==
  ASSUME TypeOK, TxConservation, TxDone
  PROVE  TxConservation'
  <1> DEFINE w == txlog.wire
             b == reg.shift
             sent == [reg EXCEPT !.shift = NULL]
  <1>1. w \in Seq(Byte) /\ b \in Byte /\ b # NULL /\ sent \in RegType
    BY DEF TypeOK, TxLogType, RegType, TxDone
  <1>2. reg'.shift = NULL
    <2>1. sent.shift = NULL
      BY DEF TypeOK, RegType
    <2>2. reg' = sent \/ reg' = Received(sent, b)
      BY DEF TxDone
    <2> HIDE DEF sent
    <2>3. Received(sent, b).shift = sent.shift
      BY <1>1 DEF Received, RegType
    <2>4. QED
      BY <2>1, <2>2, <2>3
  <1>3. txlog'.wire = Append(w, b) /\ txlog'.handed = txlog.handed
    BY DEF TxDone, TypeOK, TxLogType
  <1>4. Shifting = <<b>> /\ Shifting' = <<>> /\ Queued' = Queued
    BY <1>1, <1>2 DEF Shifting, Queued, TxDone
  <1>5. /\ txlog.handed = w \o Shifting \o Queued
        /\ TxConservation' <=>
             txlog'.wire \o Shifting' \o Queued' = txlog'.handed
    BY DEF TxConservation
  <1> HIDE DEF w, b
  <1>6. Append(w, b) = w \o <<b>> /\ Append(w, b) \in Seq(Byte)
    BY <1>1, AppendIsConcat, AppendProperties
  <1>7. Append(w, b) \o <<>> = Append(w, b)
    BY <1>6, ConcatEmptySeq
  <1>8. QED
    BY <1>3, <1>4, <1>5, <1>6, <1>7

\* The handler moves the oldest queued byte to the empty shift register.
LEMMA HandleTxSends ==
  ASSUME TypeOK, TxConservation, Uart_handleTx
  PROVE  TxConservation'
  <1>1. CASE UNCHANGED <<reg, uart, txlog>>
    BY <1>1, SteadySends
  <1>2. CASE ~UNCHANGED <<reg, uart, txlog>>
    <2> DEFINE w == txlog.wire
               q == Contents(uart.txFifo)
               rest == ByteFifo_pull(uart.txFifo)
    <2>1. /\ uart.txFifo # NULL /\ IsByteFifo(uart.txFifo)
          /\ ~ByteFifo_isEmpty(uart.txFifo)
          /\ reg.shift = NULL
      BY <1>2 DEF TypeOK, FifosOK, Uart_handleTx, TS
    <2>2. /\ IsByteFifo(rest) /\ Contents(rest) = Tail(q)
          /\ q # <<>> /\ q \in Seq(Byte)
          /\ PullData(uart.txFifo) = Head(q) /\ PullData(uart.txFifo) \in Byte
      BY <2>1, PullContents, ContentsType
    <2>3. w \in Seq(Byte)
      BY DEF TypeOK, TxLogType
    <2>4. /\ uart'.txFifo = rest /\ reg'.shift = Head(q)
          /\ txlog'.wire = w /\ txlog'.handed = txlog.handed
      BY <1>2, <2>2 DEF Uart_handleTx, TypeOK, UartType, RegType, TxLogType
    <2>5. rest # NULL /\ Head(q) # NULL
      BY <2>2, NullAssumption DEF IsByteFifo
    <2>6. /\ Shifting = <<>> /\ Shifting' = <<Head(q)>>
          /\ Queued = q /\ Queued' = Tail(q)
      BY <2>1, <2>2, <2>4, <2>5 DEF Shifting, Queued
    <2>7. /\ txlog.handed = w \o Shifting \o Queued
          /\ TxConservation' <=>
               txlog'.wire \o Shifting' \o Queued' = txlog'.handed
      BY DEF TxConservation
    <2> HIDE DEF w, q
    <2>8. (w \o <<Head(q)>>) \o Tail(q) = w \o q /\ w \o <<>> = w
      BY <2>2, <2>3, HeadMoves, ConcatEmptySeq
    <2>9. QED
      BY <2>4, <2>6, <2>7, <2>8
  <1>3. QED
    BY <1>1, <1>2

\* Uart_write puts its byte behind all the others: it has no queue to pass by.
LEMMA WritePollSends ==
  ASSUME TypeOK, PollsAlone, TxConservation, WritePoll
  PROVE  TxConservation'
  <1>1. CASE ~TS
    BY <1>1, SteadySends DEF WritePoll
  <1>2. CASE TS
    <2> DEFINE w == txlog.wire
               b == task.data
    <2>1. w \in Seq(Byte) /\ b \in Byte
      BY DEF TypeOK, TxLogType, TaskType
    <2>2. /\ reg'.shift = b /\ txlog'.wire = w
          /\ txlog'.handed = Append(txlog.handed, b)
      BY <1>2 DEF WritePoll, TypeOK, RegType, TxLogType
    <2>3. Shifting = <<>> /\ Queued = <<>>
      BY <1>2 DEF TS, Shifting, Queued, PollsAlone, WritePoll
    <2>4. Shifting' = <<b>> /\ Queued' = <<>>
      <3>1. b # NULL /\ uart'.txFifo = NULL
        BY <2>1, NullAssumption DEF PollsAlone, WritePoll
      <3>2. QED
        BY <2>2, <3>1 DEF Shifting, Queued
    <2>5. /\ txlog.handed = w \o Shifting \o Queued
          /\ TxConservation' <=>
               txlog'.wire \o Shifting' \o Queued' = txlog'.handed
      BY DEF TxConservation
    <2> HIDE DEF w, b
    <2>6. /\ w \o <<>> = w
          /\ Append(w, b) = w \o <<b>> /\ Append(w, b) \in Seq(Byte)
      BY <2>1, ConcatEmptySeq, AppendIsConcat, AppendProperties
    <2>7. Append(w, b) \o <<>> = Append(w, b)
      BY <2>6, ConcatEmptySeq
    <2>8. QED
      BY <2>2, <2>3, <2>4, <2>5, <2>6, <2>7
  <1>3. QED
    BY <1>1, <1>2

\* Uart_writeAsync puts its payload behind the byte being sent, and its first
\* byte in the shift register when that is empty.
LEMMA WriteAsyncSends ==
  ASSUME NEW payload \in Payloads, payload # <<>>,
         TypeOK, TxConservation, WriteAsync(payload)
  PROVE  TxConservation'
  <1> DEFINE w == txlog.wire
             fifo == Given(payload)
             left == IF TS THEN ByteFifo_pull(fifo) ELSE fifo
  <1>1. w \in Seq(Byte) /\ payload \in Seq(Byte)
    BY UartAssumption DEF TypeOK, TxLogType
  <1>2. TxKept = w \o Shifting
    BY TxKeptIs
  <1>3. /\ IsByteFifo(left)
        /\ Contents(fifo) = payload
        /\ Contents(ByteFifo_pull(fifo)) = Tail(payload)
        /\ First(fifo) = Head(payload) /\ First(fifo) \in Byte
    BY GivenType
  <1>4. /\ uart' = [uart EXCEPT !.txFifo = left, !.txHandler = txlog.sends + 1]
        /\ reg' = IF ~TS THEN reg ELSE [reg EXCEPT !.shift = First(fifo)]
        /\ txlog' = [txlog EXCEPT !.handed = TxKept \o payload, !.sends = @ + 1,
                                  !.active = TRUE]
    BY DEF WriteAsync, Given, First
  <1> HIDE DEF fifo, left
  <1>5. /\ uart'.txFifo = left
        /\ reg'.shift = IF TS THEN Head(payload) ELSE reg.shift
        /\ txlog'.wire = w /\ txlog'.handed = TxKept \o payload
    BY <1>3, <1>4 DEF TypeOK, UartType, RegType, TxLogType
  <1>6. left # NULL
    BY <1>3, NullAssumption DEF IsByteFifo
  <1>7. Queued' = Contents(left)
    BY <1>5, <1>6 DEF Queued
  <1>8. TxConservation' <=> txlog'.wire \o Shifting' \o Queued' = txlog'.handed
    BY DEF TxConservation
  <1>9. CASE TS
    <2>1. Shifting = <<>> /\ Shifting' = <<Head(payload)>>
      BY <1>3, <1>5, <1>9, NullAssumption DEF TS, Shifting
    <2>2. Queued' = Tail(payload)
      BY <1>3, <1>7, <1>9 DEF left
    <2> HIDE DEF w
    <2>3. w \o <<>> = w /\ (w \o <<Head(payload)>>) \o Tail(payload) = w \o payload
      BY <1>1, HeadMoves, ConcatEmptySeq
    <2>4. QED
      BY <1>2, <1>5, <1>8, <2>1, <2>2, <2>3
  <1>10. CASE ~TS
    <2>1. Shifting' = Shifting
      BY <1>5, <1>10 DEF Shifting
    <2>2. Queued' = payload
      BY <1>3, <1>7, <1>10 DEF left
    <2>3. QED
      BY <1>2, <1>5, <1>8, <2>1, <2>2
  <1>11. QED
    BY <1>9, <1>10

\* Uart_init forgets the queue, and the log what was in it.
LEMMA InitActionSends ==
  ASSUME TypeOK, TxConservation, Uart_init
  PROVE  TxConservation'
  <1>1. TxKept = txlog.wire \o Shifting /\ TxKept \in Seq(Byte)
    BY TxKeptIs
  <1>2. /\ txlog'.wire = txlog.wire /\ txlog'.handed = TxKept
        /\ reg'.shift = reg.shift
    BY DEF Uart_init, TypeOK, TxLogType, RegType
  <1>3. Shifting' = Shifting /\ Queued' = <<>>
    BY <1>2 DEF Uart_init, NewUart, Shifting, Queued
  <1>4. TxKept \o <<>> = TxKept
    BY <1>1, ConcatEmptySeq
  <1>5. QED
    BY <1>1, <1>2, <1>3, <1>4 DEF TxConservation

\* No other step touches the queue, the shift register or the log.
LEMMA OthersSend ==
  ASSUME TypeOK, TxConservation,
         \/ \E b \in LineBytes : FrameArrives(b)
         \/ \E error \in LineErrors : BadFrameArrives(error)
         \/ Uart_handleError \/ Uart_handleRx \/ ReadData \/ Pull
         \/ \E handler \in Refills : HandleRxRefilled(handler)
         \/ Uart_shutdown \/ Uart_startup \/ Uart_registerErrorHandler
         \/ \E config \in Configs : Uart_setConfig(config)
         \/ SetInterrupts \/ SetLoopback
         \/ \E handler \in RxHandlers : Uart_readAsync(handler)
  PROVE  TxConservation'
  <1> SUFFICES /\ txlog'.wire = txlog.wire /\ txlog'.handed = txlog.handed
               /\ reg'.shift = reg.shift /\ uart'.txFifo = uart.txFifo
    BY SteadySends
  <1>0. reg \in RegType /\ uart \in UartType /\ txlog \in TxLogType
    BY DEF TypeOK
  <1>1. CASE \E b \in LineBytes : FrameArrives(b)
    BY <1>0, <1>1 DEF FrameArrives, Received, RegType
  <1>2. CASE \E error \in LineErrors : BadFrameArrives(error)
    BY <1>0, <1>2 DEF BadFrameArrives, RegType
  <1>3. CASE Uart_handleError
    BY <1>0, <1>3 DEF Uart_handleError, UartType
  <1>4. CASE Uart_handleRx
    BY <1>0, <1>4 DEF Uart_handleRx, DropByte, TakeByte, UartType, RegType
  <1>5. CASE ReadData \/ Pull
    BY <1>0, <1>5 DEF ReadData, Pull, UartType, RegType
  <1>6. CASE Uart_shutdown
    BY <1>0, <1>6 DEF Uart_shutdown, UartType, RegType, TxLogType
  <1>7. CASE Uart_startup \/ Uart_registerErrorHandler
    BY <1>0, <1>7 DEF Uart_startup, Uart_registerErrorHandler, UartType
  <1>8. CASE \E config \in Configs : Uart_setConfig(config)
    BY <1>0, <1>8 DEF Uart_setConfig, RegType
  <1>9. CASE \E handler \in RxHandlers : Uart_readAsync(handler)
    BY <1>0, <1>9 DEF Uart_readAsync, UartType
  <1>10. CASE \E handler \in Refills : HandleRxRefilled(handler)
    BY <1>0, <1>10 DEF HandleRxRefilled, UartType, RegType
  <1>11. CASE SetInterrupts \/ SetLoopback
    BY <1>0, <1>11 DEF SetInterrupts, SetLoopback, RegType
  <1>12. QED
    BY <1>1, <1>2, <1>3, <1>4, <1>5, <1>6, <1>7, <1>8, <1>9, <1>10, <1>11

\* Every step keeps the bytes to send: one case per action that moves one.
LEMMA NextTxConservation ==
  ASSUME <<>> \notin Payloads, RxInv, TxConservation, [Next]_vars
  PROVE  TxConservation'
  <1>0. TypeOK /\ PollsAlone
    BY DEF RxInv
  <1>1. CASE TxDone
    BY <1>0, <1>1, TxDoneSends
  <1>2. CASE Uart_handleTx
    BY <1>0, <1>2, HandleTxSends
  <1>3. CASE WritePoll
    BY <1>0, <1>3, WritePollSends
  <1>4. ASSUME NEW payload \in Payloads, Uart_writeAsync(payload)
        PROVE  TxConservation'
    <2>1. payload # <<>>
      OBVIOUS
    <2>2. QED
      BY <1>0, <1>4, <2>1, WriteAsyncSends DEF Uart_writeAsync
  <1>5. CASE Uart_init
    BY <1>0, <1>5, InitActionSends
  <1>6. CASE \/ IsrEnter \/ EndReturns \/ WriteTimesOut \/ ReadFlag \/ ReadNoData \/ WriteRefused
             \/ QueryTx \/ ReadRefused \/ QueryRx
    BY <1>6, SteadySends
       DEF IsrEnter, EndReturns, WriteTimesOut, ReadFlag, ReadNoData, WriteRefused, QueryTx,
           ReadRefused, QueryRx
  <1>7. CASE \/ \E data \in SyncBytes, limit \in WriteLimits : WriteBegin(data, limit)
             \/ \E limit \in ReadLimits : ReadBegin(limit)
    BY <1>7, SteadySends DEF WriteBegin, ReadBegin
  <1>8. CASE UNCHANGED vars
    BY <1>8, SteadySends DEF vars
  <1>9. ASSUME NEW payload \in Chained, EndChains(payload)
        PROVE  TxConservation'
    <2>1. payload \in Payloads /\ payload # <<>>
      BY UartAssumption
    <2>2. QED
      BY <1>0, <1>9, <2>1, WriteAsyncSends DEF EndChains
  <1>10. QED
    BY <1>0, <1>1, <1>2, <1>3, <1>4, <1>5, <1>6, <1>7, <1>8, <1>9, OthersSend
       DEF Next, Device, Interrupt, TaskStep, Sending, Receiving, Lifecycle

\* TxConservation: Uart_write, Uart_writeAsync, Uart_handleTx and the
\* transmitter never drop, repeat, reorder or overwrite a byte between them,
\* whatever the payloads, as long as none is empty: for an empty one the driver
\* sends a byte nobody handed over.
THEOREM TxConserved ==
  ASSUME <<>> \notin Payloads
  PROVE  Spec => []TxConservation
  <1>1. Init => TxConservation
    <2> SUFFICES ASSUME Init PROVE TxConservation
      OBVIOUS
    <2>1. /\ txlog.wire = <<>> /\ txlog.handed = <<>>
          /\ Shifting = <<>> /\ Queued = <<>>
      BY DEF Init, IdleReg, NewUart, Shifting, Queued
    <2>2. <<>> \o <<>> = <<>>
      BY ConcatEmptySeq, EmptySeq
    <2>3. QED
      BY <2>1, <2>2 DEF TxConservation
  <1>2. RxInv /\ TxConservation /\ [Next]_vars => TxConservation'
    BY NextTxConservation
  <1>3. QED
    BY <1>1, <1>2, RxInvariant, PTL DEF Spec


-----------------------------------------------------------------------------
(* The queries.                                                            *)

\* What a query looks at is what the logs say is left.
LEMMA QueuedLength ==
  ASSUME TypeOK, TxConservation, uart.txFifo # NULL
  PROVE  /\ ByteFifo_getCount(uart.txFifo)
              = Len(txlog.handed) - Len(txlog.wire) - Len(Shifting)
         /\ ByteFifo_isEmpty(uart.txFifo) <=> ByteFifo_getCount(uart.txFifo) = 0
         /\ ByteFifo_isEmpty(uart.txFifo) \in BOOLEAN
  <1> DEFINE w == txlog.wire
  <1>1. w \in Seq(Byte) /\ Shifting \in Seq(Byte) /\ Queued \in Seq(Byte)
    BY ByteSequences DEF TypeOK, TxLogType
  <1>2. txlog.handed = (w \o Shifting) \o Queued
    BY DEF TxConservation
  <1>3. IsByteFifo(uart.txFifo) /\ Queued = Contents(uart.txFifo)
    BY DEF TypeOK, FifosOK, Queued
  <1>4. Len(Queued) = ByteFifo_getCount(uart.txFifo)
    BY <1>3, ContentsType
  <1>5. ByteFifo_isEmpty(uart.txFifo) <=> ByteFifo_getCount(uart.txFifo) = 0
    BY <1>3, CountRange
  <1> HIDE DEF w
  <1>6. Len(txlog.handed) = Len(w) + Len(Shifting) + Len(Queued)
    BY <1>1, <1>2, ConcatProperties
  <1>7. Len(w) \in Nat /\ Len(Shifting) \in Nat /\ Len(Queued) \in Nat
    BY <1>1, LenProperties
  <1>8. Len(txlog.handed) - Len(w) - Len(Shifting) = Len(Queued)
    BY <1>6, <1>7
  <1>9. QED
    BY <1>4, <1>5, <1>8 DEF w, ByteFifo_isEmpty

\* The same for reception.
LEMMA DeliveredLength ==
  ASSUME TypeOK, RxConservation, uart.rxFifo # NULL
  PROVE  /\ ByteFifo_getCount(uart.rxFifo)
              = Len(rxlog.accepted) - Len(rxlog.taken) - Len(reg.hold)
         /\ ByteFifo_isEmpty(uart.rxFifo) <=> ByteFifo_getCount(uart.rxFifo) = 0
         /\ ByteFifo_isEmpty(uart.rxFifo) \in BOOLEAN
  <1> DEFINE t == rxlog.taken
             h == reg.hold
  <1>1. t \in Seq(Byte) /\ Delivered \in Seq(Byte) /\ h \in Seq(Byte)
    BY ByteSequences DEF TypeOK, RxLogType, RegType
  <1>2. rxlog.accepted = (t \o Delivered) \o h
    BY DEF RxConservation
  <1>3. IsByteFifo(uart.rxFifo) /\ Delivered = Contents(uart.rxFifo)
    BY DEF TypeOK, FifosOK, Delivered
  <1>4. Len(Delivered) = ByteFifo_getCount(uart.rxFifo)
    BY <1>3, ContentsType
  <1>5. ByteFifo_isEmpty(uart.rxFifo) <=> ByteFifo_getCount(uart.rxFifo) = 0
    BY <1>3, CountRange
  <1> HIDE DEF t, h
  <1>6. Len(rxlog.accepted) = Len(t) + Len(Delivered) + Len(h)
    BY <1>1, <1>2, ConcatProperties
  <1>7. Len(t) \in Nat /\ Len(h) \in Nat /\ Len(Delivered) \in Nat
    BY <1>1, LenProperties
  <1>8. Len(rxlog.accepted) - Len(t) - Len(h) = Len(Delivered)
    BY <1>6, <1>7
  <1>9. QED
    BY <1>4, <1>5, <1>8 DEF t, h, ByteFifo_isEmpty

\* QueriesExact: Uart_getTxFifoCount, Uart_getRxFifoCount, Uart_isTxEmpty and
\* Uart_isRxEmpty answer with what is really left, whatever the handler and the
\* device did since the last call.
THEOREM QueriesAnswerExactly ==
  ASSUME <<>> \notin Payloads
  PROVE  Spec => QueriesExact
  <1> DEFINE inTx == Len(txlog.handed) - Len(txlog.wire) - Len(Shifting)
             inRx == Len(rxlog.accepted) - Len(rxlog.taken) - Len(reg.hold)
  <1>1. ASSUME TypeOK, TxConservation, QueryTx
        PROVE  task'.reply \in {Reply("isTxEmpty", inTx = 0, 0),
                                Reply("getTxFifoCount", TRUE, inTx)}
    <2> DEFINE c == ByteFifo_getCount(uart.txFifo)
               e == ByteFifo_isEmpty(uart.txFifo)
    <2>1. c = inTx /\ (e <=> c = 0) /\ e \in BOOLEAN
      BY <1>1, QueuedLength DEF QueryTx
    <2>2. task'.reply \in {Reply("isTxEmpty", e, 0), Reply("getTxFifoCount", TRUE, c)}
      BY <1>1 DEF QueryTx, Return, Answer, TypeOK, TaskType
    <2> HIDE DEF c, e, inTx
    <2>3. e = (inTx = 0)
      BY <2>1
    <2>4. QED
      BY <2>1, <2>2, <2>3
  <1>2. ASSUME TypeOK, RxConservation, QueryRx
        PROVE  task'.reply \in {Reply("isRxEmpty", inRx = 0, 0),
                                Reply("getRxFifoCount", TRUE, inRx)}
    <2> DEFINE c == ByteFifo_getCount(uart.rxFifo)
               e == ByteFifo_isEmpty(uart.rxFifo)
    <2>1. c = inRx /\ (e <=> c = 0) /\ e \in BOOLEAN
      BY <1>2, DeliveredLength DEF QueryRx
    <2>2. task'.reply \in {Reply("isRxEmpty", e, 0), Reply("getRxFifoCount", TRUE, c)}
      BY <1>2 DEF QueryRx, Return, Answer, TypeOK, TaskType
    <2> HIDE DEF c, e, inRx
    <2>3. e = (inRx = 0)
      BY <2>1
    <2>4. QED
      BY <2>1, <2>2, <2>3
  <1> DEFINE Exact ==
               /\ QueryTx => task'.reply \in {Reply("isTxEmpty", inTx = 0, 0),
                                              Reply("getTxFifoCount", TRUE, inTx)}
               /\ QueryRx => task'.reply \in {Reply("isRxEmpty", inRx = 0, 0),
                                              Reply("getRxFifoCount", TRUE, inRx)}
  <1>3. TypeOK /\ TxConservation /\ RxConservation => Exact
    BY <1>1, <1>2
  <1>4. QED
    BY <1>3, TypeCorrect, TxConserved, RxConserved, PTL DEF QueriesExact
=============================================================================
