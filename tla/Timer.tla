------------------------------- MODULE Timer --------------------------------
(***************************************************************************)
(* The timer driver, src/Timer: a task that sets up, starts, watches and   *)
(* stops the timers of one group, the timers counting down beside it, and  *)
(* the callbacks their interrupts run, which may call the driver as well.  *)
(* The two groups, Apbctrl1 and Apbctrl2, have the same functions and      *)
(* differ in their interrupt vectors and in the width of the prescaler     *)
(* parameter: Group says which one is modelled.                            *)
(*                                                                         *)
(* The driver changes a control register one flag at a time, each time by  *)
(* reading the register and writing it back (Timer_setFlag), and a clock   *)
(* cycle of the hardware, or an interrupt, may come between any two of     *)
(* these accesses.  A call is therefore a list of accesses, taken one by   *)
(* one.  An interrupt pushes a frame on the stack of whatever it           *)
(* interrupts; a vector may interrupt the callback of a lower one.         *)
(***************************************************************************)
EXTENDS Board, Sequences, FiniteSets, Rtems

CONSTANTS
  Group,         \* 1 for Apbctrl1, 2 for Apbctrl2
  Timers,        \* the timers in use
  Word,          \* 2^32, the range of the counters
  BootScaler,    \* the prescaler's reload value before it is first set
  Scalers,       \* the values the task sets it to
  Configs,       \* the configurations the task may choose
  FromCallbacks, \* what a callback may call, for its own timer
  MaxCalls       \* bound: calls

\* The bits of a control register that the driver sets and that stay set.
Flag == {"EN", "RS", "IE", "CH"}

\* A Timer_Config: the flags that are set, and the reload value.
Config == [flags : SUBSET Flag, reloadValue : 0 .. Word - 1]

\* The values the parameter of setBaseScalerReloadValue can have: uint16_t in
\* the first group, uint8_t in the second.
ScalerType == 0 .. (IF Group = 1 THEN 65535 ELSE 255)

ASSUME TimerAssumption ==
  /\ Group \in {1, 2}
  /\ Timers \subseteq TimerIds(Group)
  /\ Word \in Nat \ {0, 1}
  /\ BootScaler \in Nat
  /\ Scalers \subseteq ScalerType
  /\ Configs \subseteq Config
  /\ FromCallbacks \subseteq {"start", "stop", "shutdown"}
  /\ MaxCalls \in Nat

VectorOf(id) == InterruptNumber(Group, id)
Vectors == {VectorOf(id) : id \in Timers}

\* The entry in a timer's descriptor, whose handler calls that timer's callback.
Entry(id) == <<"timer 1", "timer 2", "timer 3", "timer 4">>[id]

TIMER_UNDERFLOWED == Word - 1

VARIABLES
  regs,    \* of each timer: control, counter, reload
  base,    \* of the group: configuration flags, prescaler, its reload value
  vectors, \* the interrupt vectors
  stack,   \* the task and the callbacks that interrupt it, the running one last
  log,     \* of each timer: what it was told, and what it did since
  scale,   \* the prescaler's reload value as the task last set it
  calls    \* calls made

vars == <<regs, base, vectors, stack, log, scale, calls>>

ClearRegs == [control |-> {}, counter |-> 0, reload |-> 0]

\* The task (level and owner 0), or the callback of timer owner at its
\* vector's level: the timer it calls the driver for, the accesses it still
\* has to make, and the control register it read for the next one.
Frame(level, owner) ==
  [level |-> level, owner |-> owner, id |-> 0, todo |-> <<>>, read |-> FALSE,
   control |-> {}]

Top == stack[Len(stack)]
TopBecomes(frame) == stack' = [stack EXCEPT ![Len(stack)] = frame]

\* What runs is not in the middle of a call.
Idle == Top.todo = <<>>

\* A call that sets the prescaler is half made.
Rescaling ==
  \E k \in DOMAIN stack : \E n \in DOMAIN stack[k].todo : stack[k].todo[n].access = "base"

InCall(id) == \E k \in DOMAIN stack : stack[k].todo # <<>> /\ stack[k].id = id

(* What a timer was told and did, for the properties only.                 *)
(*   ready       it is initialised                                         *)
(*   told        "run", "stop" (by stop or shutdown), "on" (configured     *)
(*               enabled) or "off"                                         *)
(*   config      its last configuration, or none since it was initialised  *)
(*   owed        it underflowed with IE set, and was not called back       *)
(*   unexplained it was called back when nothing was owed                  *)
(*   counted     it underflowed since its counter was loaded               *)
(*   full        its counter was loaded with the greatest value            *)
(*   expired     it underflowed with RS clear since it was loaded or told  *)
(*               to run                                                    *)
(*   age         the cycles since it was started or last reloaded, or -1   *)
(*               when a call has changed its course since, or it is chained,*)
(*               or was started while the prescaler was being set          *)
NewLog == [ready |-> FALSE, told |-> "off", config |-> <<>>, owed |-> FALSE,
           unexplained |-> FALSE, counted |-> FALSE, full |-> FALSE,
           expired |-> FALSE, age |-> -1]

\* A timer that has been initialised and not shut down.
Ready(id) == log[id].ready

-----------------------------------------------------------------------------
(* The timers.                                                             *)

\* A register r after its counter went below zero.  A timer that does not
\* restart disables itself.
Underflown(r) ==
  IF "RS" \in r.control THEN [r EXCEPT !.counter = r.reload]
  ELSE [r EXCEPT !.control = @ \ {"EN"}, !.counter = TIMER_UNDERFLOWED]

Noted(l, r) ==
  [l EXCEPT !.counted = TRUE,
            !.owed    = @ \/ "IE" \in r.control,
            !.expired = @ \/ "RS" \notin r.control,
            !.age     = IF @ >= 0 /\ "RS" \in r.control THEN 0 ELSE -1]

Aged(l, r) == IF l.age >= 0 /\ "EN" \in r.control THEN [l EXCEPT !.age = @ + 1] ELSE l

\* A timer counts the prescaler's underflows, or, if chained, those of the
\* timer before it.
Counts ==
  LET counts[id \in Timers] ==
        /\ base.scaler = 0
        /\ "EN" \in regs[id].control
        /\ "CH" \in regs[id].control =>
             /\ id - 1 \in Timers
             /\ counts[id - 1] /\ regs[id - 1].counter = 0
  IN counts

Underflows(id) == Counts[id] /\ regs[id].counter = 0

\* Without separate interrupts a group has one vector, its first.
Line(id) == IF "SI" \in base.flags THEN VectorOf(id) ELSE VectorOf(1)

Cycle ==
  /\ base' = [base EXCEPT !.scaler = IF @ = 0 THEN base.reload ELSE @ - 1]
  /\ regs' = [id \in Timers |->
       IF ~Counts[id] THEN regs[id]
       ELSE IF Underflows(id) THEN Underflown(regs[id])
       ELSE [regs[id] EXCEPT !.counter = @ - 1]]
  /\ vectors' = [v \in Vectors |->
       IF \E id \in Timers : Underflows(id) /\ "IE" \in regs[id].control /\ Line(id) = v
       THEN raise(vectors[v]) ELSE vectors[v]]
  /\ log' = [id \in Timers |-> IF Underflows(id) THEN Noted(log[id], regs[id])
                               ELSE Aged(log[id], regs[id])]
  /\ UNCHANGED <<stack, scale, calls>>

\* Timer_handleIrq calls the callback of the timer whose entry the vector has.
Timer_handleIrq(v) ==
  /\ Deliverable(vectors[v])
  /\ v > Top.level
  /\ vectors' = [vectors EXCEPT ![v] = acknowledge(@)]
  /\ \E id \in Timers :
       /\ vectors[v].entry = Entry(id)
       /\ stack' = Append(stack, Frame(v, id))
       /\ log' = [log EXCEPT ![id].owed = FALSE,
                             ![id].unexplained = @ \/ ~log[id].owed]
  /\ UNCHANGED <<regs, base, scale, calls>>

CallbackReturns ==
  /\ Len(stack) > 1 /\ Idle
  /\ stack' = SubSeq(stack, 1, Len(stack) - 1)
  /\ UNCHANGED <<regs, base, vectors, log, scale, calls>>

-----------------------------------------------------------------------------
(* The accesses a call is made of.                                         *)

SetFlag(flag, isSet) == [access |-> "flag", flag |-> flag, isSet |-> isSet]
SetReload(value) == [access |-> "reload", value |-> value]
SetBase(field, value) == [access |-> "base", field |-> field, value |-> value]
Enable == [access |-> "enable"]
Remove == [access |-> "remove"]

\* Mutant: the flag is written over the register, not into it.
FlagAlone(control, set) == IF set.isSet THEN {set.flag} ELSE {}

\* Timer_setFlag: what is written back after control was read.
Timer_setFlag(control, set) ==
  IF set.isSet THEN control \cup {set.flag} ELSE control \ {set.flag}

Next1 == Head(Top.todo)
NextAccess(kind) == ~Idle /\ Next1.access = kind

\* The access is made, and what was read for it forgotten.
Made == TopBecomes([Top EXCEPT !.todo = Tail(@), !.read = FALSE, !.control = {}])

ReadControl ==
  /\ NextAccess("flag") /\ ~Top.read
  /\ TopBecomes([Top EXCEPT !.read = TRUE, !.control = regs[Top.id].control])
  /\ UNCHANGED <<regs, base, vectors, log, scale, calls>>

\* Writing LD loads the counter; LD reads back as zero.
WriteControl ==
  /\ NextAccess("flag") /\ Top.read
  /\ LET id      == Top.id
         r       == regs[id]
         written == Timer_setFlag(Top.control, Next1)
         loads   == "LD" \in written
         after   == [r EXCEPT !.control = written \ {"LD"},
                              !.counter = IF loads THEN r.reload ELSE @]
         starts  == /\ log[id].told = "run" /\ ~Rescaling
                    /\ "EN" \in written /\ "CH" \notin written
                    /\ loads \/ ("EN" \notin r.control /\ r.counter = r.reload)
     IN
     /\ regs' = [regs EXCEPT ![id] = after]
     /\ log' = [log EXCEPT
          ![id].counted = @ /\ ~loads,
          ![id].full    = IF loads THEN r.reload = TIMER_UNDERFLOWED ELSE @,
          ![id].expired = /\ @ /\ ~loads
                          /\ ~("EN" \in written /\ log[id].told \in {"run", "on"}),
          ![id].age     = IF starts THEN 0 ELSE @]
  /\ Made
  /\ UNCHANGED <<base, vectors, scale, calls>>

WriteReload ==
  /\ NextAccess("reload")
  /\ regs' = [regs EXCEPT ![Top.id].reload = Next1.value]
  /\ Made
  /\ UNCHANGED <<base, vectors, log, scale, calls>>

\* One of the two registers of the prescaler, which every timer counts by.
WriteBase ==
  /\ NextAccess("base")
  /\ base' = [base EXCEPT ![Next1.field] = Next1.value]
  /\ Made
  /\ UNCHANGED <<regs, vectors, log, scale, calls>>

EnableVector ==
  /\ NextAccess("enable")
  /\ vectors' = [vectors EXCEPT ![VectorOf(Top.id)] = vector_enable(@)]
  /\ Made
  /\ UNCHANGED <<regs, base, log, scale, calls>>

irqDeinit ==
  /\ NextAccess("remove")
  /\ vectors' = [vectors EXCEPT ![VectorOf(Top.id)] =
                   entry_remove(vector_disable(@), Entry(Top.id))]
  /\ Made
  /\ UNCHANGED <<regs, base, log, scale, calls>>

\* What runs gets on with its call, or with its callback.
Step == \/ ReadControl \/ WriteControl \/ WriteReload \/ WriteBase
        \/ EnableVector \/ irqDeinit \/ CallbackReturns

-----------------------------------------------------------------------------
(* The calls, each in one version per group.                               *)

\* A call is made by the task, or, where it may be, by the timer's callback.
Caller(id, call) ==
  /\ Idle
  /\ Top.owner = 0 \/ (Top.owner = id /\ call \in FromCallbacks)
  /\ calls < MaxCalls /\ calls' = calls + 1

Starting(id, accesses) == TopBecomes([Top EXCEPT !.id = id, !.todo = accesses])

\* Mutant: the vector is not disabled first.
BeginUnmasked(id, accesses) ==
  /\ Ready(id)
  /\ Starting(id, accesses)
  /\ UNCHANGED <<regs, base, vectors, scale>>

\* A call disables the timer's vector and goes on to its accesses.
Begin(id, accesses) ==
  /\ Ready(id)
  /\ Starting(id, accesses)
  /\ vectors' = [vectors EXCEPT ![VectorOf(id)] = vector_disable(@)]
  /\ UNCHANGED <<regs, base, scale>>

\* Mutant: an interrupt left from before is not cleared.
irqInitNoClear(v, id) == vector_enable(entry_install(v, Entry(id)))

irqInit(v, id) == vector_enable(entry_install(interrupt_clear(v), Entry(id)))

\* Mutant: separate interrupts are not asked for.
BaseInitNoSI(flags) == flags \cup {"DF"}

Timer_baseInit(flags) == flags \cup {"DF", "SI"}

\* One step: the timer is not running, so that nothing happens to its registers
\* on the way, and what another timer does to a shared vector between clearing
\* and enabling it could as well be done before or after.
Timer_init(id) ==
  /\ Caller(id, "init")
  /\ ~Ready(id)
  /\ base' = [base EXCEPT !.flags = Timer_baseInit(@)]
  /\ regs' = [regs EXCEPT ![id] = ClearRegs]
  /\ vectors' = [vectors EXCEPT ![VectorOf(id)] = irqInit(@, id)]
  /\ log' = [log EXCEPT ![id] = [NewLog EXCEPT !.ready = TRUE]]
  /\ UNCHANGED <<stack, scale>>

\* Mutant: the prescaler is set first, and may still reload the old value.
BaseScalerFirst(value) == <<SetBase("scaler", value), SetBase("reload", value)>>

BaseScalerAccesses(value) == <<SetBase("reload", value), SetBase("scaler", value)>>

\* Whichever timer of the group it is called with.  No vector is disabled.
Timer_setBaseScalerReloadValue(id, value) ==
  /\ Caller(id, "setBaseScalerReloadValue")
  /\ Ready(id)
  /\ Starting(id, BaseScalerAccesses(value))
  /\ scale' = value
  /\ log' = [t \in Timers |-> [log[t] EXCEPT !.age = -1]]
  /\ UNCHANGED <<regs, base, vectors>>

\* Mutant: the vector is left disabled.
StartMasked == <<SetFlag("LD", TRUE), SetFlag("EN", TRUE)>>

StartAccesses == <<SetFlag("LD", TRUE), SetFlag("EN", TRUE), Enable>>

Timer_start(id) ==
  /\ Caller(id, "start")
  /\ Begin(id, StartAccesses)
  /\ log' = [log EXCEPT ![id].told = "run", ![id].age = -1]

\* Mutant: EN is set, or cleared, when the rest is in place.
EnableLast(config) ==
  <<SetFlag("IE", "IE" \in config.flags), SetFlag("RS", "RS" \in config.flags),
    SetFlag("CH", "CH" \in config.flags), SetFlag("EN", "EN" \in config.flags),
    SetReload(config.reloadValue), Enable>>

\* Mutant: the bit after CH, Debug Halt.
DebugHalt(config) ==
  <<SetFlag("EN", "EN" \in config.flags), SetFlag("IE", "IE" \in config.flags),
    SetFlag("RS", "RS" \in config.flags), SetFlag("DH", "CH" \in config.flags),
    SetReload(config.reloadValue), Enable>>

\* The flags in the order Timer_setConfigRegisters sets them: EN first.
ConfigAccesses(config) ==
  <<SetFlag("EN", "EN" \in config.flags), SetFlag("IE", "IE" \in config.flags),
    SetFlag("RS", "RS" \in config.flags), SetFlag("CH", "CH" \in config.flags),
    SetReload(config.reloadValue), Enable>>

Timer_setConfigRegisters(id, config) ==
  /\ Caller(id, "setConfigRegisters")
  /\ Begin(id, ConfigAccesses(config))
  /\ log' = [log EXCEPT
       ![id].told   = IF "EN" \in config.flags THEN "on" ELSE "off",
       ![id].config = <<config>>,
       ![id].age    = -1]

\* The vector stays disabled.
Timer_stop(id) ==
  /\ Caller(id, "stop")
  /\ Begin(id, <<SetFlag("EN", FALSE)>>)
  /\ log' = [log EXCEPT ![id].told = "stop", ![id].age = -1]

Timer_shutdown(id) ==
  /\ Caller(id, "shutdown")
  /\ Begin(id, <<SetFlag("EN", FALSE), Remove>>)
  /\ log' = [log EXCEPT ![id].told = "stop", ![id].age = -1, ![id].ready = FALSE]

Timer_hasFinished(r) == "EN" \notin r.control /\ r.counter = TIMER_UNDERFLOWED

Timer_getConfigRegisters(r) ==
  [flags |-> r.control, reloadValue |-> r.reload]

Timer_getCounterValue(r) == r.counter

-----------------------------------------------------------------------------
\* Timer 1 has none before it to be chained to.
Call(id) ==
  \/ Timer_init(id)
  \/ \E value \in Scalers : Timer_setBaseScalerReloadValue(id, value)
  \/ Timer_start(id)
  \/ \E config \in Configs :
       /\ "CH" \in config.flags => id > 1
       /\ Timer_setConfigRegisters(id, config)
  \/ Timer_stop(id)
  \/ Timer_shutdown(id)

Init ==
  /\ regs = [id \in Timers |-> ClearRegs]
  /\ base = [flags |-> {}, reload |-> BootScaler, scaler |-> BootScaler]
  /\ vectors = [v \in Vectors |-> IdleVector]
  /\ stack = <<Frame(0, 0)>>
  /\ log = [id \in Timers |-> NewLog]
  /\ scale = BootScaler
  /\ calls = 0

Next ==
  \/ Cycle
  \/ Step
  \/ \E v \in Vectors : Timer_handleIrq(v)
  \/ \E id \in Timers : Call(id)

Spec == Init /\ [][Next]_vars

\* The clock runs, and nobody has to make another call.  Strong fairness, for
\* each vector and each level, is an assumption on the load: the timers' interrupts
\* together take less than the whole of the processor, so that what they delay
\* still runs.  The driver does not see to it: a short reload value with a small
\* prescaler, which it accepts, starves whatever its callbacks interrupt.
FairSpec ==
  /\ Spec
  /\ WF_vars(Cycle)
  /\ \A v \in Vectors : SF_vars(Timer_handleIrq(v))
  /\ \A level \in Vectors \cup {0} : SF_vars(Top.level = level /\ Step)

-----------------------------------------------------------------------------
(* Properties.                                                             *)

Reg == [control : SUBSET Flag, counter : 0 .. Word - 1, reload : 0 .. Word - 1]

Base == [flags : SUBSET {"DF", "SI"}, reload : Nat, scaler : Nat]

Log == [ready : BOOLEAN, told : {"run", "stop", "on", "off"},
        config : {<<>>} \cup {<<c>> : c \in Configs}, owed : BOOLEAN,
        unexplained : BOOLEAN, counted : BOOLEAN, full : BOOLEAN,
        expired : BOOLEAN, age : Int]

\* The control registers hold the flags of a Timer_Config and no other bit, the
\* counters stay in a word, the vectors have only these timers' entries, and
\* the stack is as deep as it has levels, in their order.
TypeOK ==
  /\ regs \in [Timers -> Reg]
  /\ base \in Base
  /\ vectors \in [Vectors -> Vector({Entry(id) : id \in Timers})]
  /\ Len(stack) \in 1 .. 1 + Cardinality(Vectors)
  /\ \A k \in DOMAIN stack :
       /\ stack[k].owner \in Timers \cup {0}
       /\ stack[k].level = IF k = 1 THEN 0 ELSE VectorOf(stack[k].owner)
       /\ k > 1 => stack[k - 1].level < stack[k].level
       /\ stack[k].id \in Timers \cup {0}
       /\ stack[k].read \in BOOLEAN
       /\ stack[k].control \subseteq Flag
  /\ log \in [Timers -> Log]
  /\ scale \in Nat
  /\ calls \in 0 .. MaxCalls

\* A timer's callback is called only for an underflow of that timer, with its
\* interrupt enabled, which no callback was called for yet and which came after
\* the timer was initialised (irqInit clears what was left from before).
CalledForUnderflow == \A id \in Timers : ~log[id].unexplained

\* A callback never interrupts a call for its own timer, which it may call the
\* driver for: between the read and the write of Timer_setFlag it would undo,
\* or have undone, what the other does.  Setting the prescaler touches no
\* register of the timer, and may be interrupted.
CallbackExcluded ==
  \A k, l \in DOMAIN stack :
    /\ k < l /\ stack[k].todo # <<>>
    /\ Head(stack[k].todo).access # "base"
    => stack[l].owner # stack[k].id

\* Once Timer_stop or Timer_shutdown has returned, the timer neither counts nor
\* calls back until the next call, whatever was pending when it was stopped.
StopIsQuiet ==
  [][\A id \in Timers :
       ~InCall(id) /\ log[id].told = "stop" /\ calls' = calls
         => /\ regs'[id] = regs[id]
            /\ log'[id].owed = log[id].owed]_vars

\* A timer configured to reload and then started is enabled, whatever number of
\* times it underflowed in the middle of the calls.
AutoReloadKeepsRunning ==
  \A id \in Timers, c \in Configs :
    /\ ~InCall(id) /\ Ready(id) /\ log[id].told = "run"
    /\ log[id].config = <<c>> /\ "RS" \in c.flags
    => "EN" \in regs[id].control

\* Between calls, Timer_hasFinished answers yes of a timer whose countdown ran
\* out, and only if it did: but for one that counts from the greatest value,
\* which is also what the counter of a finished timer holds.
FinishedReported ==
  \A id \in Timers :
    ~InCall(id) /\ Ready(id)
      => /\ Timer_hasFinished(regs[id]) => log[id].counted \/ log[id].full
         /\ log[id].expired => Timer_hasFinished(regs[id])

\* Timer_getConfigRegisters gives back what Timer_setConfigRegisters was given,
\* for a timer that is not running now but may have run and expired, apart from
\* the enable flag that stopping clears.
ConfigReadsBack ==
  \A id \in Timers, c \in Configs :
    ~InCall(id) /\ Ready(id) /\ log[id].told \in {"off", "stop"} /\ log[id].config = <<c>>
      => Timer_getConfigRegisters(regs[id]) =
           [flags |-> c.flags \ {"EN"}, reloadValue |-> c.reloadValue]

\* The time since a timer was started or last reloaded, and the time left by
\* Timer_getCounterValue and the prescaler the task set, make its period, to
\* within one round of the prescaler: it never expires late, and early by less
\* than that, although Timer_start does not restart the prescaler, and however
\* the prescaler was set before.
CounterTellsTime ==
  \A id \in Timers :
    log[id].age >= 0 =>
      LET round  == scale + 1
          left   == Timer_getCounterValue(regs[id]) * round + base.scaler
          period == regs[id].reload * round
      IN log[id].age + left \in period .. period + scale

\* An underflow with the interrupt enabled is followed by the callback of the
\* timer it is of, unless that timer is stopped first.  Each has a handler,
\* "Pointer to a interrupt handler structure." (Timer.h:93), its own "Timer
\* interrupt handler" (TimerTypedefs.h:186).
UnderflowCalledBack ==
  \A id \in Timers :
    log[id].owed ~> (~log[id].owed \/ log[id].told = "stop")
=============================================================================
