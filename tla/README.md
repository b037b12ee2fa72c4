# Leon3-BSP: a TLA+ model of the UART and timer drivers

The repository is a board support package for LEON3 (GR712RC) under RTEMS: a
UART driver, a driver for the two groups of general purpose timers, the byte
queue the UART driver moves data through, and a compile-time RTEMS
configuration.  All of it is C; tests are under `src/test`.

This directory holds TLA+ modules translated from that code, configurations
under which TLC checks them on small instances, and theorems that TLAPS proves
for every value of the constants.  Paths below are relative to the repository
(`src/Uart/Uart.c` and so on); line numbers are those of the commit modelled.

## Parts of the system

| Part | Source | State | Operations |
|---|---|---|---|
| ByteFifo | `src/Utils/ByteFifo.[ch]` | `begin`, `end`, `first`, `last`, the block | init, initFromBytes, clear, isFull, isEmpty, getCount, push, pull |
| UART, transfers | `src/Uart/Uart.c` | descriptor: two queue pointers, three handlers, `sentBytes`, error flags; the control, status and data registers; one interrupt vector | init, startup, shutdown, setConfig, write, writeAsync, read, readAsync, isTxEmpty, isRxEmpty, the two counts, registerErrorHandler, the interrupt handler |
| UART, configuration | `src/Uart/Uart.c` | control bits, scaler register | setConfig, getConfig |
| Timers | `src/Timer/*.[ch]` | per timer: control, counter, reload; per group: base registers with the prescaler; interrupt vectors | init, setBaseScalerReloadValue, setConfigRegisters, getConfigRegisters, start, stop, shutdown, getCounterValue, hasFinished, for each of two groups |
| Addresses and vectors | `src/Uart/UartRegisters.h`, `src/Timer/TimerTypedefs.h` | none | getAddressBase, interruptNumber, getApbctrl1TimerAddressById and the like |
| RTEMS interrupt directives | not in the repository | vector enabled, request pending, entry | vector_enable, vector_disable, entry_install, entry_remove, interrupt_clear |
| SystemConfig | `src/SystemConfig` | none | compile-time options |

How they interact.  A task calls the drivers; a driver disables the interrupt
vector of its device, changes its descriptor, the queues and the registers, and
enables the vector again.  The device runs beside all this: it finishes a frame,
receives one, or counts down, and requests an interrupt.  The handler runs when
the vector is enabled and the request pending, to the end, before the task goes
on; it shares the descriptor, the queues and the registers with the task, and
calls the application's callbacks, which may call the driver in turn.  An
interrupt of another vector may come in the middle of a callback.

What is hard about it:

* the handler and the device act between any two steps of a driver call that
  does not mask them, and the device acts even between those that do;
* a request is one bit: two events before the handler runs are one interrupt;
* `ByteFifo` has no lock, and its pointers pass through states that mean
  something else (`first == last` is "full", but also "about to be empty");
* a timer's control register is changed flag by flag, by reading and writing it
  back, while the hardware clears one of the bits;
* state outlives the call that gave it meaning: `sentBytes` after a change of
  handler, error flags after the error, parity bits after a configuration, a
  queue or a request after a shutdown;
* polling loops run with the vector masked;
* callbacks run in the middle of the handler, and may replace the very queue or
  handler it is working on;
* the timers of a group share a prescaler, which is set in two writes.

What makes each part correct:

* ByteFifo: it is a bounded queue; shared between a task and the handler, it
  stays memory safe and, in stated circumstances, loses nothing.
* UART transfers: bytes handed over go out once, in order, all of them; bytes
  accepted by the receiver reach the reader once, in order; callbacks come as
  often as they should; a transfer never stalls; the vector is not left masked.
* UART configuration: what was set is read back.
* Timers: a callback comes for every underflow and only for one; stopping is
  final; flags survive concurrent underflows; "finished" means that; the counter
  and the prescaler tell the time left; a callback never comes inside a call for
  its own timer.

## Modules

| Module | Models | Extends |
|---|---|---|
| `ByteFifo` | the queue's functions, as operators, each split into its statements | |
| `BoundedQueue` | abstract specification: what a ByteFifo promises | |
| `ByteFifoCalls` | one caller and every operation; refines `BoundedQueue` | `ByteFifo` |
| `ByteFifoShared` | a task and the handler on one queue, statement by statement | `ByteFifo` |
| `Rtems` | one interrupt vector (external) | |
| `Uart` | the UART driver's transfers, life cycle and interrupt handler, with the device, one task and the interrupt | `ByteFifo`, `Rtems` |
| `UartClaims` | sentences of `Uart.h` the driver does not keep to | `Uart` |
| `Link` | abstract specification: what a UART that hears itself promises | |
| `UartLink` | both directions together: `Uart` refines `Link` | `Uart` |
| `UartConfig` | control bits, parity and baud rate of setConfig and getConfig | |
| `Board` | addresses, register blocks and interrupt vectors of all devices | |
| `Timer` | the timer driver, with the timers, one task, the interrupts and their callbacks | `Board`, `Rtems` |
| `ByteFifoTheorems` | lemmas on sequences and on the queue's functions | `ByteFifo` |
| `ByteFifoCallsProofs`, `ByteFifoSharedProofs` | theorems about the queue, called and shared | `ByteFifoTheorems` |
| `UartProofs`, `UartInterruptProofs` | theorems about transfers; about interrupts and callbacks | `Uart`, `ByteFifoTheorems` |
| `UartLinkProofs` | that `Uart` implements `Link` | `UartLink`, `UartProofs` |
| `UartConfigProofs` | theorems about the configuration | `UartConfig` |
| `TimerProofs` | theorems about the tables and the timer driver | `Timer` |
| `MC*` | constants for TLC | |

### ByteFifo

A pointer is an index into `mem`, `end` is `Len(mem) + 1`.  `ByteFifo_push` and
`ByteFifo_pull` are compositions of one operator per statement
(`PushClaim`, `PushStore`, `PushAdvance`, `PushWrap`; `PullAdvance`, `PullWrap`,
`PullSettle`), so that `ByteFifoCalls` and `Uart` use the whole function and
`ByteFifoShared` takes it apart.  `Contents` is the queue a ring stands for: the
refinement mapping of `ByteFifoCalls`.

In `ByteFifoShared` the task has either end; the handler has the other and runs
a whole function between two statements of the task.

### Uart

| Variable | Stands for |
|---|---|
| `reg` | control bits `re ri te ti lb`; `shift`, the shift register; `hold`, the receiver FIFO; `errors`, the error bits of the status register |
| `vector` | the interrupt vector: enabled, pending, entry |
| `uart` | the `Uart` descriptor |
| `isr` | which part of `Uart_handleInterrupt` runs next |
| `task` | which call is in progress, its locals, what the last one returned, the caller's `*errCode` |
| `txlog`, `rxlog` | history: what was handed over, sent, accepted, taken, announced |
| `used` | how much of the bounds is used |

A call that masks the vector from start to end and touches the device at one
point is one step: neither the handler nor the transmitter can be told to have
moved in the middle.  `Uart_setConfig` touches it at several: it enables the
receiver, then the interrupts and the transmitter (`SetInterrupts`), then the loop
back (`SetLoopback`), and frames come and go between these.  `Uart_write` and
`Uart_read` poll: they take one step to begin, one per test of a register, one to
give up.  The handler takes a step to be entered and one for each of
`Uart_handleError`, `Uart_handleRx`, `Uart_handleTx`, in this order, with the device
free to act between them.

Two callbacks call the driver.  The end-of-transmission callback may start the
next transfer: `Uart_handleTx` then leaves `isr` at `"end"`, and `EndReturns` or
`EndChains` follows, the device acting in between.  What `Uart_writeAsync` does is
one operator, `WriteAsync`, whether the task or the callback calls it.  The length
callback may take what the queue holds and hand over a fresh one
(`HandleRxRefilled`): the handler looks the queue up again afterwards and pushes
the byte to the new one.  `Chained` and `Refills` say what the callbacks call.

Device facts, from the comments of `UartRegisters.h` and the use the driver
makes of them: TS says the shift register is empty, DR that the receiver holds
a byte, RF that it is full; a frame sent or received requests an interrupt if
the direction's interrupt bit is set; a frame that finds the receiver full is an
overrun.  Since the driver writes data only after seeing TS, the transmitter
FIFO is never in play and `shift` is the whole transmitter.

The history variables restrict nothing.  `rxlog.missed` counts frames that
arrived while a request was pending already or before the receiver's interrupt
was enabled, the only ones that get no interrupt of their own.

`UartLink` puts the directions together.  In loop back mode the bytes that wait in
the transmission queue are `Link`'s `waiting`; those in the shift register, in the
receiver and in the reception queue are, newest first, what is on its `line`; those
the task took are `received`.  `Link` has no queues, registers, vector or handler:
a transfer may replace what waits, bytes move to the line and are read from it in
order, and one is lost only when an overflow is flagged or the link is down.

### UartConfig

Every call is one step: the handler touches neither register.  `given` remembers
the last configuration and whether it is the only one since a shutdown.

### Board

An address is a bus and an offset; a block is the bytes from the first register of
a device to its last, as the structures of the headers lay them out.

### Timer

| Variable | Stands for |
|---|---|
| `regs` | of each timer: control flags, counter, reload value |
| `base` | of the group: prescaler, its reload value, the flags `DF` and `SI` |
| `vectors` | interrupt vectors: one per timer in Apbctrl1, one for both in Apbctrl2 |
| `stack` | the task and the callbacks that interrupted it and one another; of each, the call it is in: its timer, the accesses left, the control value read |
| `log`, `scale` | history per timer, explained in the module; the prescaler as last asked for |
| `calls` | how much of the bound is used |

A call is a list of register accesses (`ConfigAccesses`, `StartAccesses`,
`BaseScalerAccesses` ...) taken one by one; a flag takes two steps, the read and
the write of `Timer_setFlag`.  Clock cycles, underflows and interrupts come between
any two.  An interrupt pushes a frame and the end of its callback
(`CallbackReturns`) pops it; a vector interrupts only a lower one, as the
processor's interrupt levels have it.  A callback may call the driver for its own
timer (`FromCallbacks`).

A cycle of the clock decrements the prescaler; at zero the prescaler reloads, and
the enabled timers count, a chained one only when the timer before it underflows.
Without `SI`, which `Timer_baseInit` sets, all requests would go to the group's
first vector.

`Timer_init` is one step: the timer it is about is not running, so that no cycle
changes its registers on the way.  `Group` selects `Timer_Apbctrl1_*` or
`Timer_Apbctrl2_*`: the functions differ in nothing but the vector and the width
of the prescaler's parameter, 16 bits and 8 (`ScalerType`).

## Runs

| Run | Module and cfg | Shows |
|---|---|---|
| `fifo_calls` | `MCByteFifoCalls` | every sequence of calls on blocks of 0 to 3 bytes behaves as `BoundedQueue`; pointers stay in the block |
| `fifo_shared` | `MCByteFifoShared` | either end interrupted at any statement: no access outside the block; a pull loses no byte unless a push fills the ring in the middle of it |
| `fifo_shared_lost` | `MCByteFifoSharedLost` | *violation*: it does lose them then |
| `uart_tx` | `MCUartTx` | asynchronous transfers of one and two bytes that replace each other, started by the task or by the callback that ended the last, also after a shutdown and a restart: every byte goes out once and in order, a transfer never stalls, drains, and is announced once |
| `uart_rx` | `MCUartRx` | asynchronous reception: conservation, what is left in the receiver, a character callback for every match, also when the length callback replaces the queue, a length callback by the time a queue left alone has filled to the target, delivery, errors reported |
| `uart_length` | `MCUartLength` | *violation*: a queue may hold more than the target and the length callback not come |
| `uart_mixed` | `MCUartMixed` | loop back, blocking and asynchronous calls in both directions: types, conservation both ways, exact queries, masking, `Uart_write` and `Uart_read` return, and `Uart` implements `Link` |
| `uart_timeout` | `MCUartTimeout` | *violation*: a timed-out `Uart_write` reports no error code |
| `uart_one_byte` | `MCUartOneByte` | *violation*: a transfer of one byte is not announced |
| `uart_config` | `MCUartConfig` | read-back over any history, no division by zero |
| `timer` | `MCTimer` | two timers of Apbctrl1 behind one prescaler, free-running, one-shot, chained or configured enabled, with callbacks that start and stop their timer: all of `Timer`'s properties |
| `timer_shared` | `MCTimerShared` | *violation*: on Apbctrl2 an underflow may never be called back |

The properties are stated, with the code they are about, in the modules.

### Bounds

* `fifo_calls`: no bound on the calls; three bytes is the least at which the
  pointers cross with one, two and three bytes stored.
* `fifo_shared`: `MaxPushes` 6 on three bytes takes both pointers around twice,
  with the ring empty, partly filled and full.
* `Uart`: `MaxCalls` bounds the calls that change the driver's state, `MaxFrames`
  the frames of the far end.  Two calls configure and start, so five or six
  leave room for two transfers, or a transfer, a shutdown and a restart.
  `uart_tx` has seven: a transfer, a shutdown, a restart, and a transfer after it,
  with the byte of the first still in the shift register or left in its queue.
  The receiver holds two frames and the queue two bytes: three frames overrun
  the one and overflow the other.  `Word` 4 makes `sentBytes` wrap.
* `Uart`, callbacks: the end callback chains a transfer of two bytes, the least
  that leaves one for the handler; the length callback hands over a queue with the
  handler that was there, so that it comes again.  They count against `MaxCalls`.
* `Timer`: counters have three values, of which the greatest is
  `TIMER_UNDERFLOWED` (the driver compares with that, and never computes with
  counters).  The prescaler starts at 1 and may be set to 0, the least values that
  tell a reload from a count: `Timer.h` asks for 5 or more, which the driver does
  not look at.  Five calls initialise, configure and start one timer and set the
  prescaler or let the callback restart it, or initialise and start both and stop
  one; `timer_shared`, without prescaler and callbacks, has seven.
* `UartConfig`: no bound on the calls; all control combinations, two real baud
  rates and an invalid one, three values of the scaler left by the boot monitor.

Deadlock is not checked where bounds stop the system, and in `UartConfig` and
`fifo_calls` it is.

### Fairness

Weak fairness, of: a frame in the shift register being sent (hardware); the
interrupt handler being entered and going on (the processor takes enabled
interrupts, the handler has no loop); a call going on once begun (one task);
the clock of the timers.  Nothing makes the application call or the far end
send.

`Timer` has strong fairness for each vector being taken, and for whatever runs at
each level going on: another timer's interrupts, coming again and again, must
leave time to those they interrupt.  This is an assumption on the load, which the
driver does nothing to enforce.  `Timer.h:51` asks for a prescaler of 5 at least,
but nothing looks at it, `test/integration/Timer/timer_interrupt.c` sets 1, and six
clock cycles would not be long beside a callback either: that the timers' callbacks
together take less than the whole of the processor is up to the reload values the
application chooses.  In the model a timer may underflow in every cycle, so that
under weak fairness callbacks at a higher level keep a call waiting for ever.

## What is proved

By TLAPS, for every value of the constants: any blocks of memory, bytes,
payloads, configurations and number of calls and frames.  The assumptions are
those the modules state: `NullAssumption`, `BlocksAssumption`, `ByteAssumption`,
`SharedAssumption`, `UartAssumption`, `UartConfigAssumption`, `TimerAssumption`.
They give the constants their types and exclude an empty block, which the task
of `ByteFifoShared` could not push into or pull from.

Every invariant and action property that a passing run checks is proved, and both
refinements.  Five theorems have a hypothesis on the constants besides, one of
three: `<<>> \notin Payloads`, `LineBytes = {}` and `OwnVectors`, each given with
its reason below.

The queue:

* `ByteFifoTheorems`: lemmas `CountRange`, `SlotRange`, `ContentsType`,
  `InitContents`, `ClearContents`, `PushContents`, `PullContents`.  What each
  function does to `Contents`, by cases on where `first` and `last` are.
* `ByteFifoCallsProofs!TypeCorrect`: `Spec => []TypeOK`.  `TypeOK` is inductive;
  each action follows from the lemma on its function.
* `ByteFifoCallsProofs!RingImplementsQueue`: `Spec => ImplementsQueue`.  Under
  the invariant, each step maps to the same operation of `BoundedQueue`, or to a
  stutter when an init is given no memory.
* `ByteFifoSharedProofs!PointersInBounds`: `InBounds` is not inductive, because
  `ByteFifo_pull` increments `first` without looking at it: that no handler empties
  the queue the task is pulling from, and which statement the task is at, are needed
  with it (`Bounded`).
* `ByteFifoSharedProofs!PullLosesOnlyWhenFilled`: with `Accounted`, that between two
  statements of the pull the bytes got and those in the queue *as the pull will leave
  it* are those pushed.  `Midway` says what that queue is; the step that needs work
  is a push of the handler into the half-pulled ring (`HandlerPushAccounts`), by cases
  on whether it fills it.

The UART, in `UartProofs`:

* `TypeCorrect`, `RxConserved`: `TypeOK` is not inductive.  `Uart_handleRx`,
  dropping a byte, takes one out of the middle of the log of accepted bytes, and
  that the log still holds sequences of bytes needs it to be as long as what the
  receiver holds: `RxConservation`.  And `Uart_read` moves a byte past the queue,
  which is in order only because there is none: `PollsAlone`.  The inductive
  invariant is `RxInv`, the conjunction of the three.  There is one lemma on types
  and one on conservation for each action that moves a byte; for a length callback
  that replaces the queue, `RefilledContents` gives what the new one holds.
* `TxConserved`: `TxConservation` is inductive relative to `RxInv`, if no payload
  is empty (`<<>> \notin Payloads`): for an empty queue `Uart_writeAsync` sends a
  null byte nobody handed over, so that the formula is false without it.  The
  runs that check it hand over no empty payload either.
* `QueriesAnswerExactly`: an action property, from the two conservations, under
  the same condition.

In `UartInterruptProofs`, `EndsOnce` relative to `TypeOK`, the others to `RxInv`:

* `Masked`: `MaskedOnlyByWrite` with `ReadsUnmasked` and `ConfigsStopped` (together
  `MaskInv`): the polling loop of `Uart_read` is left by a path that does not touch
  the vector, and `Uart_setConfig`, which does not either, runs on a stopped driver.
  That the vector stays masked only after a write that found no queue comes from
  `PollsAlone`.
* `NeverStalls`: `TxNeverStalls`, relative to `MaskInv` too, with `ActiveArmed`, that
  a transfer is under way only with the driver started, the transmitter on, and its
  interrupt enabled whenever it is.
* `EndsOnce`: `EndCallbackOnce` with `LatestAttached`: the queue attached carries
  the number of the last transfer.
* `BacklogIsExplained`: `RxBacklogExplained` is inductive as it stands, since
  `rxlog.missed` counts the frames that come before their interrupt is enabled.
* `CharacterCallbacksAreExact` and `LengthCallbacksComeInTime`: the second says
  nothing of the next byte while the target is not reached, and nothing at all once
  a byte is taken.  `CallbackInv` says what is behind it: as long as a handler did not
  take over a count that had reached its target, carry and bytes pushed are
  `lengthCalls * targetLength + sentBytes`, with `sentBytes` below the target, so that
  the counter never wraps for any `Word` and any `targetLength` it holds.  For the
  character callback, `MatchesAppended` and `LastAppended` count the matches among
  the last bytes of a log that grows at its end.

In `UartLinkProofs`:

* `LinkImplemented`: `LineBytes = {} /\ Spec => ImplementsLink`.  Under `RxInv` each
  step of task, handler, callback and device is a step of `Link` or leaves its
  variables alone; one lemma for each step of `Link` says what a step of `Uart` must
  do to queues and registers to be it (`Transfers`, `Reads`, `Overflows`,
  `GoesDown`, `Rereads`).  The link is up with loop back and receiver both on, so that
  any configuration will do, and any moment of one.  `LineBytes = {}` says that the
  far end sends nothing: a receiver that is on without loop back would hear bytes
  that were never written.

All of these hold whatever the callbacks chain or replace: `Chained` and `Refills`
are any subsets of the payloads and handlers.

In `UartConfigProofs`: `ScalerSaturates`, that at fewer ticks a second than eight
times the baud rate the scaler written is all ones whatever the rate (1000 ticks
and any rate the driver knows, as `SystemConfig.h` has it); `TypeCorrect`,
`NeverDividesByZero` (from the range of the scaler) and `ReadsBack` (with `ClearAtFirst`: after a shutdown no parity bit is
left to survive a configuration without parity).

In `TimerProofs`, first by arithmetic on the tables of `Board`: `RegistersDisjoint`,
that no two devices share a register, and `VectorsUnique`, that none share a vector
but the timers of Apbctrl2, which is what `timer_shared` shows the consequence of.
Then of `Timer`, for any timers, any depth of nested callbacks and any prescaler,
from one inductive invariant, `IInv`.  None of its parts holds without others:

* `Stacked`, `Typed`: the stack, the levels of its frames rising, only the task
  with a call for a timer that is not its own; and the types.
* `Entries`, `Masked`: a vector has only an entry of its timers, and is disabled
  from the first access of a call for one of them to the last.  `CallbacksExcluded`
  is this with `Stacked`.
* `Courses`: the accesses a call has left to make are what is missing between what
  the timer was told (`log`) and what its registers hold, and a control value that
  was read is still right in the flags that will be written back, but for `EN`.
  Underflows come in between, so that this is said of every suffix of every call
  (`AccessOK`, `Progress`, `ReadOK`).  Between calls nothing is missing, which is
  `AutoReloadRuns` and `ConfigKept`.
* `Finished`: what a counter at the greatest value means.  `HasFinished` is this.
* `Scaled`, `Timed`: the prescaler is in its round but while the task sets it,
  and a timer of known age counts in time.  `TellsTime` is this.

Two theorems, `CalledOnlyForUnderflow` and `StopsQuietly`, assume `OwnVectors`: no
two of the timers in use share a vector.  Of the program it leaves out the use of
both timers of Apbctrl2 (lemma `OwnVectorsMeans`), where one's callback is called
for the other's underflow.  They rest on `OwnInv` besides: requests go to the timer's
own vector (`Separate`), one that is pending is of an underflow still owed a
callback (`Owed`), and the vector of a stopped timer is disabled (`Quiet`).

The proofs see the ring only through `ByteFifoTheorems`, and sequences through its
first lemmas: a byte that moves from the head of one to the end of the one before
leaves the whole as it is (`HeadMoves`).

Model-checked only: liveness under fairness, which is out of the prover's reach, as
`ENABLED` is.  These are `TxDrains`, `EndCallbackEventually`, `RxDelivered`,
`ErrorReported`, `WriteReturns`, `ReadReturns` and `UnderflowCalledBack`.

## Where the code departs from its documentation

Runs marked *violation* show these:

* `Uart_write` that times out returns from inside its loop, leaving `*errCode`
  unset and the vector disabled; the statements after the loop that would do
  both are unreachable (`Uart.c:270`, `:276`).
* `Uart_writeAsync` of one byte sends it itself, and the end callback never
  comes (`Uart.c:321`).
* The length callback counts bytes received, not queued, and compares the count
  for equality; a handler takes over the count of the one before it.  So a queue
  may hold `targetLength` bytes, and more come, without a callback (`Uart.c:403`,
  `:334`; `Uart.h:127`).  What does hold, `LengthCallbackWhenReached`, is checked in
  `uart_rx`: with nothing counted before and nothing taken, it comes in time.
* The two timers of Apbctrl2 share vector 7, whose entry is unique: the second
  to be initialised has no callback, and stopping one masks both
  (`Timer_private.c:86`).
* A push that fills the ring during a pull makes the pull discard the whole
  queue (`ByteFifo.h:176`).

Others are visible in the models and have no run:

* the length callback is called before the byte is pushed; one that replaces a
  queue of just `targetLength` bytes finds the byte that made it be called in the
  new queue, which then fills one byte before its count is reached: the next bytes
  are dropped, and the callback does not come again (`Uart.c:407`);
* the baud rate scaler is computed from `rtems_clock_get_ticks_per_second` and not
  from `baudRateClkFreq`, "Baud rate clock source frequency" (`Uart.h:105`), which
  is never read: it comes out as all ones for every rate (`Uart.c:112`, theorem
  `ScalerSaturates`);
* bytes left in a transmission queue over a shutdown go out in the next session, if
  there is no `Uart_init` before it, once something makes the handler run, and
  their end is announced then (`Uart.c:222`); so is what is left in the reception
  queue read from it;
* `Uart_isTxEmpty` answers yes while the last byte is being shifted
  (`Uart.h:253`);
* `Uart_writeAsync` of an empty queue sends a null byte (`Uart.c:321`);
* bytes whose frames shared an interrupt stay in the receiver until another
  frame comes (`RxBacklogExplained` says how many);
* `Uart_read` fails on a full flag that only the handler updates, after the
  receiver was emptied (`Uart.c:292`), and the flag of a dropped byte is
  overwritten by the next interrupt (`Uart.c:462`);
* configuring no parity after a parity leaves it on (`Uart.c:183`);
  `getBaudRate` does not invert `setBaudRate` (`Uart.c:125`);
* `Timer_setConfigRegisters` sets EN first, and a tick before RS is set disables
  the timer (`Timer_private.c:37`); a one-shot timer that expires between the
  read and write of `Timer_setFlag` is enabled again;
* a stopped timer with the greatest reload value looks finished
  (`FinishedReported` excepts it); `Timer_hasFinished` does not remember that it
  was asked, although `Timer_private.h:62` says "since the last read";
* a push during the pull of the last byte may be refused; a pull during a push
  into an empty queue takes a byte not yet written (`ByteFifo.h:152`).

## Assumptions about callers

* One processor and one task (`SystemConfig.h` configures one processor; the
  tests use one task).
* A callback calls the driver only for its own device: the end callback
  `Uart_writeAsync`, the length callback `Uart_readAsync` with an empty queue, a
  timer's callback the calls in `FromCallbacks` for its timer.
* Only the task sets a group's prescaler, and initialises and configures timers.
* Calls come in the order every integration test has them: init, setConfig,
  startup, transfers, shutdown; no configuration of a started device.
* Blocking and asynchronous calls are made for an enabled direction.
* A queue handed to `Uart_writeAsync` is left alone while it is sent.
* Bytes are pulled from the reception queue with interrupts masked.
  `ByteFifoShared` shows what happens otherwise, and that it is harmless as long
  as the ring does not fill.

## Not modelled

* SystemConfig and the build files: no behaviour.  Two facts of `SystemConfig.h`
  are in the models: one processor, and 1000 clock ticks a second.
* FIFO level interrupts (`RF`, `TF`), which `Uart_setConfig` enables for the
  direction that is disabled: the device raises none for it.
* Two tasks sharing a descriptor: nothing in the driver is meant for it.  Its only
  lock is the vector, which each call enables on return.
* The latch of Apbctrl2 and the base system timer (`Timer_Id_0`): no function uses
  them.
* Identifiers out of range, for which the tables have an invalid address.
* Mocks and `MOCK_REGISTERS` branches: for unit tests.
* The status codes of RTEMS directives: no caller reads them.

## Plan

1. Done: `ByteFifo` and its refinement, `ByteFifoShared`, `Uart`, `UartConfig`,
   `Timer`; the proofs listed above.
2. Done: callbacks that call the drivers; the prescaler, nested interrupts and
   what the counters tell of `Timer`; `Link` and its refinement; `Board`.
3. Done: the proofs of every safety property and of both refinements.
4. Left: the lemmas of `TimerProofs` that treat two nearly equal steps apart could
   be joined; the hazards without a property.  Those of `Uart.c:312` and `:321` need an
   application the assumptions above rule out; of the flag at `Uart.c:292` nothing
   is known to hold but what the code says.
