----------------------------- MODULE TimerProofs ----------------------------
(***************************************************************************)
(* First what the tables of Board give each device to itself.  Then the    *)
(* safety properties of Timer, for every set of timers, word, set of       *)
(* configurations and number of calls.                                     *)
(***************************************************************************)
EXTENDS Timer, FiniteSetTheorems, SequenceTheorems, TLAPS

-----------------------------------------------------------------------------
(* The tables of Board give no register and no vector to two devices, but  *)
(* for the vector that the two timers of Apbctrl2 have in common.          *)

\* The register blocks of the board, by the device they belong to.
Devices ==
  {<<"uart", 0, id>> : id \in UartIds}
    \cup {<<"timers", group, 0>> : group \in {1, 2}}
    \cup {<<"timer", 1, id>> : id \in TimerIds(1)}
    \cup {<<"timer", 2, id>> : id \in TimerIds(2)}

BlockOf(device) ==
  IF device[1] = "uart" THEN UartBlock(device[3])
  ELSE IF device[1] = "timers" THEN TimerBaseBlock(device[2])
  ELSE TimerBlock(device[2], device[3])

\* No two devices share a register: initialising or running one (Uart_init,
\* Timer_Apbctrl1_init, Timer_Apbctrl2_init) never writes a register of another,
\* although UART 5 and the timers of Apbctrl2 are next to each other on the bus.
THEOREM RegistersDisjoint ==
  \A d, e \in Devices : d # e => ~Overlap(BlockOf(d), BlockOf(e))
<1> USE DEF Block, Overlap, UartIds, TimerIds, APBCTRL1, APBCTRL2,
            UartBlock, TimerBaseBlock, TimerBlock, Uart_getAddressBase,
            TimerBaseAddress, getApbctrl1TimerAddressById,
            getApbctrl2TimerAddressById
<1>1. ASSUME NEW i \in UartIds, NEW j \in UartIds, i # j
      PROVE  ~Overlap(UartBlock(i), UartBlock(j))
  BY <1>1
<1>2. ASSUME NEW i \in UartIds, NEW g \in {1, 2}
      PROVE  /\ ~Overlap(UartBlock(i), TimerBaseBlock(g))
             /\ ~Overlap(TimerBaseBlock(g), UartBlock(i))
  BY <1>2
<1>3. ASSUME NEW i \in UartIds, NEW g \in {1, 2}, NEW t \in TimerIds(g)
      PROVE  /\ ~Overlap(UartBlock(i), TimerBlock(g, t))
             /\ ~Overlap(TimerBlock(g, t), UartBlock(i))
  BY <1>3
<1>4. ASSUME NEW g \in {1, 2}, NEW h \in {1, 2}, NEW t \in TimerIds(h)
      PROVE  /\ ~Overlap(TimerBaseBlock(g), TimerBlock(h, t))
             /\ ~Overlap(TimerBlock(h, t), TimerBaseBlock(g))
  BY <1>4
<1>5. ASSUME NEW g \in {1, 2}, NEW h \in {1, 2}, g # h
      PROVE  ~Overlap(TimerBaseBlock(g), TimerBaseBlock(h))
  BY <1>5
<1>6. ASSUME NEW g \in {1, 2}, NEW h \in {1, 2},
             NEW t \in TimerIds(g), NEW u \in TimerIds(h), g # h \/ t # u
      PROVE  ~Overlap(TimerBlock(g, t), TimerBlock(h, u))
  BY <1>6
<1>7. SUFFICES ASSUME NEW d \in Devices, NEW e \in Devices, d # e
               PROVE  ~Overlap(BlockOf(d), BlockOf(e))
  OBVIOUS
<1> HIDE DEF Block, Overlap, UartIds, TimerIds, UartBlock, TimerBaseBlock, TimerBlock
<1>8. \A x \in Devices :
        \/ \E i \in UartIds : x = <<"uart", 0, i>> /\ BlockOf(x) = UartBlock(i)
        \/ \E g \in {1, 2} : x = <<"timers", g, 0>> /\ BlockOf(x) = TimerBaseBlock(g)
        \/ \E g \in {1, 2} : \E t \in TimerIds(g) :
             x = <<"timer", g, t>> /\ BlockOf(x) = TimerBlock(g, t)
  BY DEF Devices, BlockOf
<1> QED
  BY <1>1, <1>2, <1>3, <1>4, <1>5, <1>6, <1>7, <1>8

\* Every device's handler has a vector to itself, so that installing one
\* (RTEMS_INTERRUPT_UNIQUE) is never refused and none is called for another's
\* interrupt: but for the timers of Apbctrl2, both of which have vector 7.
THEOREM VectorsUnique ==
  /\ \A i, j \in UartIds : i # j => Uart_interruptNumber(i) # Uart_interruptNumber(j)
  /\ \A i \in UartIds, g \in {1, 2} : \A t \in TimerIds(g) :
       Uart_interruptNumber(i) # InterruptNumber(g, t)
  /\ \A g, h \in {1, 2} : \A t \in TimerIds(g), u \in TimerIds(h) :
       g # h \/ t # u
         => (InterruptNumber(g, t) = InterruptNumber(h, u) <=> g = 2 /\ h = 2)
BY DEF UartIds, TimerIds, Uart_interruptNumber, InterruptNumber,
       Timer_getApbctrl1InterruptNumber, Timer_getApbctrl2InterruptNumber

-----------------------------------------------------------------------------
(* The driver.                                                             *)

\* No two of the timers share a vector: those of Apbctrl1, or one of Apbctrl2.
OwnVectors == \A i, j \in Timers : VectorOf(i) = VectorOf(j) => i = j

\* What the theorems that assume it leave out is a program that uses both timers
\* of Apbctrl2.
LEMMA OwnVectorsMeans ==
  OwnVectors <=> Group = 1 \/ \A i, j \in Timers : i = j
  <1>1. \A i, j \in Timers : i # j => (VectorOf(i) = VectorOf(j) <=> Group = 2)
    BY VectorsUnique, TimerAssumption DEF VectorOf
  <1>2. Group \in {1, 2}
    BY TimerAssumption
  <1>3. QED
    BY <1>1, <1>2 DEF OwnVectors

\* A prescaler is a number, of either width.
LEMMA ScalersType == Scalers \subseteq Nat
  BY TimerAssumption DEF ScalerType

Access ==
  [access : {"flag"}, flag : Flag \cup {"LD"}, isSet : BOOLEAN]
    \cup [access : {"reload"}, value : 0 .. Word - 1]
    \cup [access : {"base"}, field : {"reload", "scaler"}, value : Nat]
    \cup {Enable, Remove}

FrameRec ==
  [level : Nat, owner : Timers \cup {0}, id : Timers \cup {0},
   todo : Seq(Access), read : BOOLEAN, control : SUBSET Flag]

\* A frame in a call that works on the registers or the vector of timer id.
Works(f, id) ==
  /\ f.id = id
  /\ f.todo # <<>> /\ f.todo[1].access # "base"

Depth == 1 .. Len(stack)

-----------------------------------------------------------------------------
(* The inductive invariant.  First the stack: the task at the bottom, and  *)
(* above it callbacks of higher and higher levels, each in a call for its  *)
(* own timer if in any.                                                    *)

FrameOK(k) ==
  LET f == stack[k] IN
  /\ f.level = IF k = 1 THEN 0 ELSE VectorOf(f.owner)
  /\ f.owner = 0 <=> k = 1
  /\ f.todo # <<>> => f.id \in Timers /\ (k = 1 \/ f.id = f.owner)
  /\ f.read => f.todo # <<>> /\ f.todo[1].access = "flag"

Stacked ==
  /\ stack \in Seq(FrameRec) /\ stack # <<>>
  /\ \A k \in Depth : FrameOK(k)
  /\ \A k, l \in Depth : k < l => stack[k].level < stack[l].level

Typed ==
  /\ regs \in [Timers -> Reg]
  /\ base \in Base
  /\ vectors \in [Vectors -> Vector({Entry(id) : id \in Timers})]
  /\ log \in [Timers -> Log]
  /\ scale \in Nat
  /\ calls \in 0 .. MaxCalls

\* A vector has only the entry of a timer that it is the vector of.
Entries == \A id \in Timers, v \in Vectors :
             vectors[v].entry = Entry(id) => v = VectorOf(id)

\* While a call works on a timer, that timer's vector is disabled, and the
\* frames above are those of timers with other vectors.
Masked ==
  \A k \in Depth, id \in Timers :
    Works(stack[k], id) =>
      /\ ~vectors[VectorOf(id)].enabled
      /\ \A l \in Depth : k < l => VectorOf(stack[l].owner) # VectorOf(id)

(* The prescaler, set by the task only.                                    *)

SetsBase(todo) == \E n \in DOMAIN todo : todo[n].access = "base"

Scaled ==
  /\ \A k \in Depth : SetsBase(stack[k].todo) =>
       /\ k = 1
       /\ stack[k].todo \in {BaseScalerAccesses(scale), <<SetBase("scaler", scale)>>}
       /\ stack[k].todo = <<SetBase("scaler", scale)>> => base.reload = scale
  /\ (\A k \in Depth : ~SetsBase(stack[k].todo)) =>
       base.reload = scale /\ base.scaler <= scale

(* A call on a timer: what is left to do goes with what the timer was told,*)
(* and what it was told is done, or left to do.                            *)

AccessOK(l, todo, i) ==
  LET a == todo[i] IN
  /\ a.access \in {"enable", "remove"} => i = Len(todo)
  /\ a.access = "enable" => l.told # "stop"
  /\ a.access = "reload" =>
       l.told \in {"on", "off"} /\ l.config # <<>> /\ a.value = l.config[1].reloadValue
  /\ a.access = "flag" /\ a.flag \in {"IE", "RS", "CH"} =>
       /\ l.told \in {"on", "off"} /\ l.config # <<>>
       /\ a.isSet <=> a.flag \in l.config[1].flags
  /\ a.access = "flag" /\ a.flag = "EN" =>
       /\ a.isSet <=> l.told \in {"run", "on"}
       /\ l.told # "run" => i = 1
  /\ a.access = "flag" /\ a.flag = "LD" =>
       l.told = "run" /\ a.isSet /\ l.age = -1 /\ i = 1
  /\ a.access = "flag" /\ l.told = "run" =>
       \E j \in i .. Len(todo) : todo[j] = SetFlag("EN", TRUE)

ToDo(todo, a) == \E i \in DOMAIN todo : todo[i] = a

Progress(l, r, todo) ==
  /\ l.config # <<>> =>
       LET c == l.config[1] IN
       /\ \A flag \in {"IE", "RS", "CH"} :
            \/ flag \in r.control <=> flag \in c.flags
            \/ ToDo(todo, SetFlag(flag, flag \in c.flags))
       /\ r.reload = c.reloadValue \/ ToDo(todo, SetReload(c.reloadValue))
  /\ l.told \in {"stop", "off"} =>
       "EN" \notin r.control \/ ToDo(todo, SetFlag("EN", FALSE))
  /\ l.told = "run" /\ "RS" \in r.control =>
       "EN" \in r.control \/ ToDo(todo, SetFlag("EN", TRUE))

ReadOK(l, r, f) ==
  f.read =>
    /\ f.control \ {"EN"} = r.control \ {"EN"}
    /\ l.told \in {"stop", "off"} /\ "EN" \in f.control =>
         f.todo[1] = SetFlag("EN", FALSE)

Course(l, r, f) ==
  /\ \A i \in DOMAIN f.todo : AccessOK(l, f.todo, i)
  /\ Progress(l, r, f.todo)
  /\ ReadOK(l, r, f)

Courses ==
  \A id \in Timers :
    /\ \A k \in Depth : Works(stack[k], id) => Course(log[id], regs[id], stack[k])
    /\ (\A k \in Depth : ~Works(stack[k], id)) => Progress(log[id], regs[id], <<>>)

(* What a timer did.                                                       *)

Finished ==
  \A id \in Timers :
    /\ regs[id].counter = TIMER_UNDERFLOWED => log[id].counted \/ log[id].full
    /\ log[id].expired => /\ "EN" \notin regs[id].control
                          /\ regs[id].counter = TIMER_UNDERFLOWED

InTime(age, r) ==
  LET round == scale + 1 IN
  age + r.counter * round + base.scaler \in r.reload * round .. r.reload * round + scale

TimedFor(id) ==
  log[id].age >= 0 =>
    /\ log[id].told = "run" /\ "EN" \in regs[id].control /\ "CH" \notin regs[id].control
    /\ ~Rescaling
    /\ InTime(log[id].age, regs[id])

Timed == \A id \in Timers : TimedFor(id)

(* With a vector to each timer.                                            *)

Separate == "SI" \notin base.flags =>
  /\ \A id \in Timers : ~log[id].ready /\ regs[id].control = {}
  /\ \A k \in Depth : stack[k].todo = <<>>

Owed == \A id \in Timers : vectors[VectorOf(id)].pending => log[id].owed

Quiet == \A id \in Timers : log[id].told = "stop" => ~vectors[VectorOf(id)].enabled

-----------------------------------------------------------------------------
(* Facts about the operators.                                              *)

\* The timers' vectors and entries: no two timers have the same entry, and every
\* vector is above the task's level.
LEMMA Names ==
  /\ Timers \subseteq 1 .. 4
  /\ \A id \in Timers : VectorOf(id) \in Vectors /\ VectorOf(id) \in Nat \ {0}
  /\ \A i, j \in Timers : Entry(i) = Entry(j) => i = j
  /\ \A id \in Timers : Entry(id) # NoEntry
  /\ Vectors \subseteq Nat \ {0}
  <1>1. Timers \subseteq 1 .. 4
    BY TimerAssumption DEF TimerIds
  <1>2. \A id \in Timers : VectorOf(id) \in Vectors /\ VectorOf(id) \in Nat \ {0}
    BY <1>1 DEF VectorOf, Vectors, InterruptNumber,
       Timer_getApbctrl1InterruptNumber, Timer_getApbctrl2InterruptNumber
  <1>3. /\ Entry(1) = "timer 1" /\ Entry(2) = "timer 2"
        /\ Entry(3) = "timer 3" /\ Entry(4) = "timer 4"
    BY DEF Entry
  <1>4. /\ \A i, j \in 1 .. 4 : Entry(i) = Entry(j) => i = j
        /\ \A id \in 1 .. 4 : Entry(id) # NoEntry
    <2>1. \A i \in 1 .. 4 : i = 1 \/ i = 2 \/ i = 3 \/ i = 4
      OBVIOUS
    <2>2. QED
      BY <1>3, <2>1 DEF NoEntry
  <1>5. QED
    BY <1>1, <1>2, <1>4 DEF Vectors

\* A timer counts when the prescaler underflows and it is enabled, and always
\* then if it is not chained.
LEMMA CountsIs ==
  \A id \in Timers :
    /\ Counts[id] => base.scaler = 0 /\ "EN" \in regs[id].control
    /\ base.scaler = 0 /\ "EN" \in regs[id].control /\ "CH" \notin regs[id].control
         => Counts[id]
  <1> DEFINE Due(id, before) ==
               /\ base.scaler = 0
               /\ "EN" \in regs[id].control
               /\ "CH" \in regs[id].control =>
                    /\ id - 1 \in Timers
                    /\ before /\ regs[id - 1].counter = 0
             Is(f) == f = [id \in Timers |-> Due(id, f[id - 1])]
  <1>1. Timers \subseteq 1 .. 4
    BY Names
  <1>2. Counts = CHOOSE f : Is(f)
    BY DEF Counts
  <1>3. \E f : Is(f)
    <2> DEFINE d1 == Due(1, FALSE)
               d2 == Due(2, d1)
               d3 == Due(3, d2)
               d4 == Due(4, d3)
               f == [id \in Timers |-> IF id = 1 THEN d1 ELSE IF id = 2 THEN d2
                                       ELSE IF id = 3 THEN d3 ELSE d4]
    <2> HIDE DEF Due
    <2>0. \A b : Due(1, b) = d1
      BY <1>1 DEF Due
    <2>1. \A id, b, c : id - 1 \notin Timers => Due(id, b) = Due(id, c)
      BY DEF Due
    <2>2. \A id \in Timers : f[id] = Due(id, f[id - 1])
      <3> SUFFICES ASSUME NEW id \in Timers PROVE f[id] = Due(id, f[id - 1])
        OBVIOUS
      <3>1. CASE id = 1
        BY <3>1, <2>0
      <3>2. CASE id = 2
        <4>1. 1 \in Timers => f[1] = d1
          OBVIOUS
        <4>2. f[2] = d2 /\ 2 - 1 = 1
          BY <3>2
        <4> HIDE DEF d1, d3, d4, f
        <4>3. QED
          BY <3>2, <4>1, <4>2, <2>1
      <3>3. CASE id = 3
        <4>1. 2 \in Timers => f[2] = d2
          OBVIOUS
        <4>2. f[3] = d3 /\ 3 - 1 = 2
          BY <3>3
        <4> HIDE DEF d1, d2, d4, f
        <4>3. QED
          BY <3>3, <4>1, <4>2, <2>1
      <3>4. CASE id = 4
        <4>1. 3 \in Timers => f[3] = d3
          OBVIOUS
        <4>2. f[4] = d4 /\ 4 - 1 = 3
          BY <3>4
        <4> HIDE DEF d1, d2, d3, f
        <4>3. QED
          BY <3>4, <4>1, <4>2, <2>1
      <3>5. id = 1 \/ id = 2 \/ id = 3 \/ id = 4
        BY <1>1
      <3>6. QED
        BY <3>1, <3>2, <3>3, <3>4, <3>5
    <2>3. Is(f)
      <3> HIDE DEF d1, d2, d3, d4
      <3>1. [id \in Timers |-> Due(id, f[id - 1])] = [id \in Timers |-> f[id]]
        <4> HIDE DEF f
        <4>1. QED
          BY <2>2
      <3>2. [id \in Timers |-> f[id]] = f
        OBVIOUS
      <3>3. QED
        BY <3>1, <3>2
    <2>4. QED
      BY <2>3
  <1>4. Is(Counts)
    <2> HIDE DEF Is
    <2>1. QED
      BY <1>2, <1>3
  <1>5. \A id \in Timers : Counts[id] = Due(id, Counts[id - 1])
    <2> HIDE DEF Due
    <2>1. QED
      BY <1>4
  <1>6. QED
    BY <1>5

\* What an access is, by its kind.
LEMMA AccessKinds ==
  ASSUME NEW a \in Access
  PROVE  /\ a.access \in {"flag", "reload", "base", "enable", "remove"}
         /\ a.access = "flag" =>
              a.flag \in Flag \cup {"LD"} /\ a.isSet \in BOOLEAN
              /\ a = SetFlag(a.flag, a.isSet)
         /\ a.access = "reload" => a.value \in 0 .. Word - 1 /\ a = SetReload(a.value)
         /\ a.access = "base" =>
              a.field \in {"reload", "scaler"} /\ a.value \in Nat
              /\ a = SetBase(a.field, a.value)
         /\ a.access = "enable" => a = Enable
         /\ a.access = "remove" => a = Remove
  <1>1. CASE a \in [access : {"flag"}, flag : Flag \cup {"LD"}, isSet : BOOLEAN]
    BY <1>1 DEF SetFlag
  <1>2. CASE a \in [access : {"reload"}, value : 0 .. Word - 1]
    BY <1>2 DEF SetReload
  <1>3. CASE a \in [access : {"base"}, field : {"reload", "scaler"}, value : Nat]
    BY <1>3 DEF SetBase
  <1>4. CASE a = Enable
    BY <1>4 DEF Enable
  <1>5. CASE a = Remove
    BY <1>5 DEF Remove
  <1>6. QED
    BY <1>1, <1>2, <1>3, <1>4, <1>5 DEF Access

\* What the driver writes down as accesses are accesses.
LEMMA AccessesAre ==
  /\ \A flag \in Flag \cup {"LD"}, isSet \in BOOLEAN :
       SetFlag(flag, isSet) \in Access
  /\ \A value \in 0 .. Word - 1 : SetReload(value) \in Access
  /\ \A field \in {"reload", "scaler"}, value \in Nat : SetBase(field, value) \in Access
  /\ Enable \in Access /\ Remove \in Access
  <1>1. ASSUME NEW flag \in Flag \cup {"LD"}, NEW isSet \in BOOLEAN
        PROVE  SetFlag(flag, isSet) \in Access
    <2>1. SetFlag(flag, isSet)
            \in [access : {"flag"}, flag : Flag \cup {"LD"}, isSet : BOOLEAN]
      BY DEF SetFlag
    <2>2. QED
      BY <2>1 DEF Access
  <1>2. ASSUME NEW value \in 0 .. Word - 1 PROVE SetReload(value) \in Access
    <2>1. SetReload(value) \in [access : {"reload"}, value : 0 .. Word - 1]
      BY DEF SetReload
    <2>2. QED
      BY <2>1 DEF Access
  <1>3. ASSUME NEW field \in {"reload", "scaler"}, NEW value \in Nat
        PROVE  SetBase(field, value) \in Access
    <2>1. SetBase(field, value)
            \in [access : {"base"}, field : {"reload", "scaler"}, value : Nat]
      BY DEF SetBase
    <2>2. QED
      BY <2>1 DEF Access
  <1>4. QED
    BY <1>1, <1>2, <1>3 DEF Access

\* Short lists of accesses are sequences of them.
LEMMA Lists ==
  ASSUME NEW S, NEW a \in S, NEW b \in S
  PROVE  <<a>> \in Seq(S) /\ <<a, b>> \in Seq(S)
  OBVIOUS

\* The lists of accesses the calls are made of.
LEMMA CallsAre ==
  /\ StartAccesses \in Seq(Access)
  /\ <<SetFlag("EN", FALSE)>> \in Seq(Access)
  /\ <<SetFlag("EN", FALSE), Remove>> \in Seq(Access)
  /\ \A config \in Configs : ConfigAccesses(config) \in Seq(Access)
  /\ \A value \in Nat :
       /\ BaseScalerAccesses(value) \in Seq(Access)
       /\ <<SetBase("scaler", value)>> \in Seq(Access)
  <1>1. /\ SetFlag("LD", TRUE) \in Access /\ SetFlag("EN", TRUE) \in Access
        /\ SetFlag("EN", FALSE) \in Access /\ Enable \in Access /\ Remove \in Access
    BY AccessesAre DEF Flag
  <1>2. ASSUME NEW config \in Configs PROVE ConfigAccesses(config) \in Seq(Access)
    <2> DEFINE en == SetFlag("EN", "EN" \in config.flags)
               ie == SetFlag("IE", "IE" \in config.flags)
               rs == SetFlag("RS", "RS" \in config.flags)
               ch == SetFlag("CH", "CH" \in config.flags)
               re == SetReload(config.reloadValue)
    <2>1. config \in Config
      BY TimerAssumption
    <2>2. config.reloadValue \in 0 .. Word - 1
      BY <2>1 DEF Config
    <2>3. en \in Access /\ ie \in Access /\ rs \in Access /\ ch \in Access
      BY DEF SetFlag, Access, Flag
    <2>4. re \in Access
      BY <2>2, AccessesAre
    <2>5. ConfigAccesses(config) = <<en, ie, rs, ch, re, Enable>>
      BY DEF ConfigAccesses
    <2> HIDE DEF en, ie, rs, ch, re
    <2>6. <<en, ie, rs, ch, re, Enable>> \in Seq(Access)
      BY <1>1, <2>3, <2>4
    <2>7. QED
      BY <2>5, <2>6
  <1>3. ASSUME NEW value \in Nat
        PROVE  /\ BaseScalerAccesses(value) \in Seq(Access)
               /\ <<SetBase("scaler", value)>> \in Seq(Access)
    <2>1. SetBase("reload", value) \in Access /\ SetBase("scaler", value) \in Access
      BY AccessesAre, Zenon
    <2>2. QED
      BY <2>1, Lists DEF BaseScalerAccesses
  <1>4. StartAccesses \in Seq(Access)
    <2> DEFINE ld == SetFlag("LD", TRUE)
               en == SetFlag("EN", TRUE)
    <2>1. ld \in Access /\ en \in Access /\ StartAccesses = <<ld, en, Enable>>
      BY <1>1 DEF StartAccesses
    <2> HIDE DEF ld, en
    <2>2. QED
      BY <1>1, <2>1
  <1>5. /\ <<SetFlag("EN", FALSE)>> \in Seq(Access)
        /\ <<SetFlag("EN", FALSE), Remove>> \in Seq(Access)
    BY <1>1, Lists
  <1>6. QED
    BY <1>2, <1>3, <1>4, <1>5

-----------------------------------------------------------------------------
(* How the stack changes.                                                  *)

\* The frame that runs.
LEMMA TopIs ==
  ASSUME Stacked
  PROVE  /\ Len(stack) \in Nat \ {0} /\ Len(stack) \in Depth
         /\ Top = stack[Len(stack)] /\ Top \in FrameRec /\ Top.todo \in Seq(Access)
         /\ FrameOK(Len(stack))
  <1>1. stack \in Seq(FrameRec) /\ stack # <<>>
    BY DEF Stacked
  <1>2. Len(stack) \in Nat \ {0} /\ stack[Len(stack)] \in FrameRec
    BY <1>1
  <1>3. Len(stack) \in Depth
    BY <1>2 DEF Depth
  <1>4. Top.todo \in Seq(Access)
    BY <1>2 DEF Top, FrameRec
  <1>5. QED
    BY <1>2, <1>3, <1>4 DEF Stacked, Top

\* A step of what runs changes the last frame and no other.
LEMMA TopChanges ==
  ASSUME Stacked, NEW f \in FrameRec, TopBecomes(f)
  PROVE  /\ stack' \in Seq(FrameRec) /\ stack' # <<>>
         /\ Len(stack') = Len(stack) /\ Depth' = Depth
         /\ \A k \in Depth : stack'[k] = IF k = Len(stack) THEN f ELSE stack[k]
  BY DEF Stacked, Depth, TopBecomes

\* The frame that a frame becomes when its next access is made.
LEMMA MadeIs ==
  ASSUME Stacked, Top.todo # <<>>, Made
  PROVE  LET f == [Top EXCEPT !.todo = Tail(@), !.read = FALSE, !.control = {}]
         IN  /\ TopBecomes(f) /\ f \in FrameRec
             /\ f.level = Top.level /\ f.owner = Top.owner /\ f.id = Top.id
             /\ f.todo = Tail(Top.todo) /\ f.read = FALSE
  <1>1. /\ Top \in FrameRec /\ Top.todo \in Seq(Access)
        /\ Tail(Top.todo) \in Seq(Access)
    BY TopIs
  <1>2. QED
    BY <1>1 DEF Made, FrameRec

\* What is left of a list of accesses when its first is taken.
LEMMA TailIs ==
  ASSUME NEW t \in Seq(Access), t # <<>>
  PROVE  /\ Tail(t) \in Seq(Access) /\ Len(Tail(t)) = Len(t) - 1
         /\ Head(t) = t[1] /\ t[1] \in Access
         /\ DOMAIN t = 1 .. Len(t) /\ Len(t) \in Nat \ {0}
         /\ DOMAIN Tail(t) = 1 .. Len(t) - 1
         /\ \A i \in 1 .. Len(t) - 1 : Tail(t)[i] = t[i + 1]
  OBVIOUS

\* A callback on top of the stack.
LEMMA Pushes ==
  ASSUME Stacked, NEW f \in FrameRec, stack' = Append(stack, f)
  PROVE  /\ stack' \in Seq(FrameRec) /\ stack' # <<>>
         /\ Len(stack') = Len(stack) + 1 /\ Depth' = Depth \cup {Len(stack) + 1}
         /\ \A k \in Depth : stack'[k] = stack[k]
         /\ stack'[Len(stack) + 1] = f
  BY DEF Stacked, Depth

\* A callback that returns leaves the stack it was pushed on.
LEMMA Pops ==
  ASSUME Stacked, CallbackReturns
  PROVE  /\ stack' \in Seq(FrameRec) /\ stack' # <<>>
         /\ Len(stack') = Len(stack) - 1 /\ Depth' = 1 .. Len(stack) - 1
         /\ Depth' \subseteq Depth /\ 1 \in Depth' /\ Depth = Depth' \cup {Len(stack)}
         /\ \A k \in Depth' : stack'[k] = stack[k]
         /\ stack[Len(stack)].todo = <<>>
  <1>1. /\ stack \in Seq(FrameRec) /\ Len(stack) \in Nat /\ Len(stack) > 1
        /\ stack' = SubSeq(stack, 1, Len(stack) - 1)
    BY DEF Stacked, CallbackReturns
  <1>2. /\ stack' \in Seq(FrameRec) /\ Len(stack') = Len(stack) - 1
        /\ \A k \in 1 .. Len(stack) - 1 : stack'[k] = stack[k]
    BY <1>1
  <1>3. stack[Len(stack)].todo = <<>>
    BY DEF CallbackReturns, Idle, Top
  <1>4. Len(stack') \in Nat \ {0} /\ stack' # <<>>
    <2>1. Len(stack') \in Nat \ {0}
      BY <1>1, <1>2
    <2>2. QED
      BY <1>2, <2>1
  <1>5. Depth' = 1 .. Len(stack) - 1 /\ Depth = 1 .. Len(stack)
    BY <1>2 DEF Depth
  <1>6. QED
    BY <1>1, <1>2, <1>3, <1>4, <1>5

\* What the directives leave of a vector.
LEMMA VectorFields ==
  ASSUME NEW E, NEW v \in Vector(E)
  PROVE  /\ vector_enable(v) \in Vector(E) /\ vector_enable(v).enabled
         /\ vector_enable(v).pending = v.pending /\ vector_enable(v).entry = v.entry
         /\ vector_disable(v) \in Vector(E) /\ ~vector_disable(v).enabled
         /\ vector_disable(v).pending = v.pending /\ vector_disable(v).entry = v.entry
         /\ raise(v) \in Vector(E) /\ raise(v).pending
         /\ raise(v).enabled = v.enabled /\ raise(v).entry = v.entry
         /\ acknowledge(v) \in Vector(E) /\ ~acknowledge(v).pending
         /\ acknowledge(v).enabled = v.enabled /\ acknowledge(v).entry = v.entry
         /\ interrupt_clear(v) = acknowledge(v)
  BY DEF Vector, vector_enable, vector_disable, raise, acknowledge,
         interrupt_clear

\* Installing and removing an entry changes the entry and nothing else.
LEMMA EntryFields ==
  ASSUME NEW E, NEW e \in E, NEW v \in Vector(E)
  PROVE  /\ entry_install(v, e) \in Vector(E)
         /\ entry_install(v, e).pending = v.pending
         /\ entry_install(v, e).enabled = v.enabled
         /\ entry_install(v, e).entry = IF v.entry = NoEntry THEN e ELSE v.entry
         /\ entry_remove(v, e) \in Vector(E)
         /\ entry_remove(v, e).pending = v.pending
         /\ entry_remove(v, e).enabled = v.enabled
         /\ entry_remove(v, e).entry = IF v.entry = e THEN NoEntry ELSE v.entry
  BY DEF Vector, entry_install, entry_remove

-----------------------------------------------------------------------------
(* The stack stays in order.                                               *)

\* A frame that keeps its level and owner, and is in a call for its own timer if
\* in any, keeps the stack in order.
LEMMA TopStacked ==
  ASSUME Stacked, NEW f \in FrameRec, TopBecomes(f),
         f.level = Top.level, f.owner = Top.owner,
         f.todo # <<>> => f.id \in Timers /\ (Top.owner = 0 \/ f.id = Top.owner),
         f.read => f.todo # <<>> /\ f.todo[1].access = "flag"
  PROVE  Stacked'
  <1> DEFINE n == Len(stack)
  <1>1. /\ stack' \in Seq(FrameRec) /\ stack' # <<>> /\ Depth' = Depth
        /\ \A k \in Depth : stack'[k] = IF k = n THEN f ELSE stack[k]
    BY TopChanges
  <1>2. Top = stack[n] /\ FrameOK(n) /\ n \in Depth
    BY TopIs
  <1>3. \A k \in Depth : stack'[k].level = stack[k].level
                         /\ stack'[k].owner = stack[k].owner
    BY <1>1, <1>2
  <1>4. ASSUME NEW k \in Depth PROVE FrameOK(k)'
    <2>1. CASE k = n
      BY <1>1, <1>2, <2>1 DEF FrameOK
    <2>2. CASE k # n
      <3>1. FrameOK(k)
        BY DEF Stacked
      <3>2. QED
        BY <1>1, <2>2, <3>1 DEF FrameOK
    <2>3. QED
      BY <2>1, <2>2
  <1>5. QED
    BY <1>1, <1>3, <1>4 DEF Stacked

\* So does the frame whose first access was made.
LEMMA MadeStacked ==
  ASSUME Stacked, Top.todo # <<>>, Made
  PROVE  Stacked'
  <1> DEFINE f == [Top EXCEPT !.todo = Tail(@), !.read = FALSE, !.control = {}]
  <1>1. /\ TopBecomes(f) /\ f \in FrameRec
        /\ f.level = Top.level /\ f.owner = Top.owner /\ f.id = Top.id
        /\ f.todo = Tail(Top.todo) /\ f.read = FALSE
    BY MadeIs
  <1>2. FrameOK(Len(stack)) /\ Top = stack[Len(stack)]
    BY TopIs
  <1>3. f.id \in Timers /\ (Top.owner = 0 \/ f.id = Top.owner)
    BY <1>1, <1>2 DEF FrameOK
  <1> HIDE DEF f
  <1>4. QED
    BY <1>1, <1>3, TopStacked

\* The frame of what starts a call.
LEMMA StartingIs ==
  ASSUME Stacked, Idle, NEW id \in Timers, NEW accesses \in Seq(Access),
         Top.owner = 0 \/ Top.owner = id, Starting(id, accesses)
  PROVE  LET f == [Top EXCEPT !.id = id, !.todo = accesses]
         IN  /\ TopBecomes(f) /\ f \in FrameRec
             /\ f.level = Top.level /\ f.owner = Top.owner /\ f.id = id
             /\ f.todo = accesses /\ f.read = FALSE
             /\ Stacked'
  <1> DEFINE f == [Top EXCEPT !.id = id, !.todo = accesses]
  <1>1. /\ Top \in FrameRec /\ Top = stack[Len(stack)] /\ FrameOK(Len(stack))
    BY TopIs
  <1>2. Top.read = FALSE
    BY <1>1 DEF FrameOK, Idle, FrameRec
  <1>3. /\ f \in FrameRec /\ f.level = Top.level /\ f.owner = Top.owner
        /\ f.id = id /\ f.todo = accesses /\ f.read = FALSE
    BY <1>1, <1>2 DEF FrameRec
  <1>4. TopBecomes(f)
    BY DEF Starting
  <1> HIDE DEF f
  <1>5. Stacked'
    BY <1>3, <1>4, TopStacked
  <1>6. QED
    BY <1>3, <1>4, <1>5 DEF f

\* Who makes a call is not in another; and Timer_init, the prescaler and the
\* configuration are called by the task alone, when nothing interrupts it.
LEMMA CallerIs ==
  ASSUME Stacked, NEW id \in Timers, NEW call, Caller(id, call)
  PROVE  /\ Idle /\ (Top.owner = 0 \/ Top.owner = id)
         /\ calls' = calls + 1 /\ calls < MaxCalls
         /\ call \in {"init", "setBaseScalerReloadValue", "setConfigRegisters"}
              => Len(stack) = 1 /\ \A k \in Depth : stack[k].todo = <<>>
  <1>1. Top = stack[Len(stack)] /\ FrameOK(Len(stack)) /\ Len(stack) \in Nat
    BY TopIs
  <1>2. call \in {"init", "setBaseScalerReloadValue", "setConfigRegisters"}
          => Top.owner = 0
    BY TimerAssumption DEF Caller
  <1>3. Top.owner = 0 => Len(stack) = 1
    BY <1>1 DEF FrameOK
  <1>4. Len(stack) = 1 => \A k \in Depth : stack[k].todo = <<>>
    BY <1>1 DEF Depth, Caller, Idle
  <1>5. QED
    BY <1>2, <1>3, <1>4 DEF Caller

\* At the start there is the task.
LEMMA InitStacked == Init => Stacked
  <1> SUFFICES ASSUME Init PROVE Stacked
    OBVIOUS
  <1>1. Frame(0, 0) \in FrameRec /\ Frame(0, 0).todo = <<>> /\ Frame(0, 0).level = 0
        /\ Frame(0, 0).owner = 0 /\ Frame(0, 0).read = FALSE
    BY DEF Frame, FrameRec
  <1> DEFINE f == Frame(0, 0)
  <1> HIDE DEF f
  <1>2. stack = <<f>> /\ f \in FrameRec
    BY <1>1 DEF Init, f
  <1>3. stack \in Seq(FrameRec) /\ stack # <<>> /\ Depth = {1} /\ stack[1] = f
    BY <1>2 DEF Depth
  <1>4. FrameOK(1)
    BY <1>1, <1>3 DEF FrameOK, f
  <1>5. QED
    BY <1>3, <1>4 DEF Stacked

\* The frame that has read a control register (the first half of Timer_setFlag).
LEMMA ReadStacked ==
  ASSUME Stacked, Typed, ReadControl
  PROVE  LET f == [Top EXCEPT !.read = TRUE, !.control = regs[Top.id].control]
         IN  /\ TopBecomes(f) /\ f \in FrameRec
             /\ f.id = Top.id /\ f.todo = Top.todo /\ f.read
             /\ f.control = regs[Top.id].control
             /\ Stacked'
  <1> DEFINE f == [Top EXCEPT !.read = TRUE, !.control = regs[Top.id].control]
  <1>1. /\ Top \in FrameRec /\ Top = stack[Len(stack)] /\ FrameOK(Len(stack))
        /\ Top.todo # <<>> /\ Top.todo[1].access = "flag"
    BY TopIs, TailIs DEF ReadControl, NextAccess, Next1, Idle
  <1>2. Top.id \in Timers /\ (Top.owner = 0 \/ Top.id = Top.owner)
    BY <1>1 DEF FrameOK
  <1>3. regs[Top.id].control \in SUBSET Flag
    BY <1>2 DEF Typed, Reg
  <1>4. /\ f \in FrameRec /\ f.level = Top.level /\ f.owner = Top.owner
        /\ f.id = Top.id /\ f.todo = Top.todo /\ f.read
        /\ f.control = regs[Top.id].control
    BY <1>1, <1>3 DEF FrameRec
  <1>5. TopBecomes(f)
    BY DEF ReadControl
  <1> HIDE DEF f
  <1>6. Stacked'
    BY <1>1, <1>2, <1>4, <1>5, TopStacked
  <1>7. QED
    BY <1>4, <1>5, <1>6 DEF f

\* The vector taken is that of the timer called back.
LEMMA IrqIs ==
  ASSUME Stacked, Typed, Entries, NEW v \in Vectors, Timer_handleIrq(v)
  PROVE  \E id \in Timers :
           /\ v = VectorOf(id)
           /\ vectors[v].enabled /\ vectors[v].pending
           /\ vectors[v].entry = Entry(id)
           /\ vectors' = [vectors EXCEPT ![v] = acknowledge(@)]
           /\ log' = [log EXCEPT ![id].owed = FALSE,
                                 ![id].unexplained = @ \/ ~log[id].owed]
           /\ stack' = Append(stack, Frame(v, id))
           /\ Frame(v, id) \in FrameRec
           /\ Stacked'
  <1>1. PICK id \in Timers :
          /\ vectors[v].entry = Entry(id)
          /\ stack' = Append(stack, Frame(v, id))
          /\ log' = [log EXCEPT ![id].owed = FALSE,
                                ![id].unexplained = @ \/ ~log[id].owed]
    BY DEF Timer_handleIrq
  <1>2. v = VectorOf(id) /\ v \in Nat \ {0} /\ id # 0
    BY <1>1, Names DEF Entries
  <1> DEFINE f == Frame(v, id)
             n == Len(stack)
  <1>3. /\ f \in FrameRec /\ f.level = v /\ f.owner = id /\ f.todo = <<>>
        /\ f.read = FALSE
    BY <1>2 DEF Frame, FrameRec
  <1> HIDE DEF f
  <1>4. /\ stack' \in Seq(FrameRec) /\ stack' # <<>>
        /\ Depth' = Depth \cup {n + 1}
        /\ \A k \in Depth : stack'[k] = stack[k]
        /\ stack'[n + 1] = f
    BY <1>1, <1>3, Pushes DEF f
  <1>5. n \in Nat \ {0} /\ Depth = 1 .. n /\ Top = stack[n]
    BY TopIs DEF Depth
  <1>6. \A k \in Depth : stack[k].level < v
    <2>1. v > stack[n].level /\ stack[n].level \in Nat
      BY <1>5, TopIs DEF Timer_handleIrq, FrameRec
    <2>2. ASSUME NEW k \in Depth, k # n PROVE stack[k].level < v
      <3>1. k < n /\ n \in Depth
        BY <1>5, <2>2
      <3>2. stack[k].level < stack[n].level /\ stack[k] \in FrameRec
        BY <3>1 DEF Stacked, Depth
      <3>3. stack[k].level \in Nat
        BY <3>2 DEF FrameRec
      <3>4. QED
        BY <1>2, <2>1, <3>2, <3>3
    <2>3. QED
      BY <2>1, <2>2
  <1>7. ASSUME NEW k \in Depth' PROVE FrameOK(k)'
    <2>1. CASE k \in Depth
      BY <1>4, <2>1 DEF Stacked, FrameOK
    <2>2. CASE k = n + 1
      BY <1>2, <1>3, <1>4, <1>5, <2>2 DEF FrameOK
    <2>3. QED
      BY <1>4, <2>1, <2>2
  <1>8. ASSUME NEW k \in Depth', NEW l \in Depth', k < l
        PROVE  stack'[k].level < stack'[l].level
    <2>1. k \in Depth
      BY <1>4, <1>5, <1>8
    <2>2. CASE l \in Depth
      BY <1>4, <1>8, <2>1, <2>2 DEF Stacked
    <2>3. CASE l = n + 1
      BY <1>3, <1>4, <1>6, <2>1, <2>3
    <2>4. QED
      BY <1>4, <2>2, <2>3
  <1>9. Stacked'
    BY <1>4, <1>7, <1>8 DEF Stacked
  <1>10. QED
    BY <1>1, <1>2, <1>3, <1>9 DEF Timer_handleIrq, Deliverable, f

\* A callback that returns leaves the stack in order.
LEMMA PopStacked ==
  ASSUME Stacked, CallbackReturns
  PROVE  Stacked'
  <1>1. /\ stack' \in Seq(FrameRec) /\ stack' # <<>>
        /\ Depth' \subseteq Depth
        /\ \A k \in Depth' : stack'[k] = stack[k]
    BY Pops
  <1>2. ASSUME NEW k \in Depth' PROVE FrameOK(k)'
    BY <1>1 DEF Stacked, FrameOK
  <1>3. QED
    BY <1>1, <1>2 DEF Stacked

\* The actions, one by one.
LEMMA Moves ==
  ASSUME [Next]_vars
  PROVE  \/ Cycle
         \/ \E v \in Vectors : Timer_handleIrq(v)
         \/ CallbackReturns
         \/ ReadControl \/ WriteControl \/ WriteReload \/ WriteBase
         \/ EnableVector \/ irqDeinit
         \/ \E id \in Timers :
              \/ Timer_init(id)
              \/ \E value \in Scalers : Timer_setBaseScalerReloadValue(id, value)
              \/ Timer_start(id)
              \/ \E config \in Configs : Timer_setConfigRegisters(id, config)
              \/ Timer_stop(id) \/ Timer_shutdown(id)
         \/ UNCHANGED vars
  BY DEF Next, Step, Call

\* An access takes the head off what the running frame has left to do.
Makes == /\ \/ WriteControl \/ WriteReload \/ WriteBase \/ EnableVector \/ irqDeinit
         /\ Top.todo # <<>> /\ Made

\* Each action that makes an access makes the first one, for a timer.
LEMMA AccessMakes ==
  ASSUME Stacked, WriteControl \/ WriteReload \/ WriteBase \/ EnableVector \/ irqDeinit
  PROVE  Makes /\ Next1 = Top.todo[1] /\ Next1 \in Access
         /\ Top.id \in Timers /\ scale' = scale /\ calls' = calls
  <1>1. Top.todo # <<>> /\ Made /\ scale' = scale /\ calls' = calls
    BY DEF WriteControl, WriteReload, WriteBase, EnableVector, irqDeinit,
           NextAccess, Idle
  <1>2. Next1 = Top.todo[1] /\ Next1 \in Access
    BY <1>1, TopIs, TailIs DEF Next1
  <1>3. Top.id \in Timers
    BY <1>1, TopIs DEF FrameOK
  <1>4. QED
    BY <1>1, <1>2, <1>3 DEF Makes

\* The calls that disable their vector: what is left to do, and who makes them.
Begins(id) == \/ Timer_start(id)
              \/ \E config \in Configs : Timer_setConfigRegisters(id, config)
              \/ Timer_stop(id) \/ Timer_shutdown(id)

\* A call that begins: for a timer that is ready, its vector disabled, and its
\* registers not yet touched.
LEMMA BeginIs ==
  ASSUME Stacked, NEW id \in Timers, Begins(id)
  PROVE  /\ Idle /\ (Top.owner = 0 \/ Top.owner = id)
         /\ calls' = calls + 1 /\ calls < MaxCalls
         /\ Ready(id)
         /\ vectors' = [vectors EXCEPT ![VectorOf(id)] = vector_disable(@)]
         /\ regs' = regs /\ base' = base /\ scale' = scale
         /\ \E accesses \in Seq(Access) : Begin(id, accesses)
  <1>1. CASE Timer_start(id)
    BY <1>1, CallerIs, CallsAre DEF Timer_start, Begin
  <1>2. ASSUME NEW config \in Configs, Timer_setConfigRegisters(id, config)
        PROVE  /\ Caller(id, "setConfigRegisters")
               /\ \E accesses \in Seq(Access) : Begin(id, accesses)
    BY <1>2, CallsAre DEF Timer_setConfigRegisters
  <1>3. CASE Timer_stop(id)
    BY <1>3, CallerIs, CallsAre DEF Timer_stop, Begin
  <1>4. CASE Timer_shutdown(id)
    BY <1>4, CallerIs, CallsAre DEF Timer_shutdown, Begin
  <1>5. QED
    BY <1>1, <1>2, <1>3, <1>4, CallerIs DEF Begins, Begin

\* Every step keeps the stack in order.
LEMMA NextStacked == Stacked /\ Typed /\ Entries /\ [Next]_vars => Stacked'
  <1> SUFFICES ASSUME Stacked, Typed, Entries, [Next]_vars PROVE Stacked'
    OBVIOUS
  <1>1. CASE Cycle
    BY <1>1 DEF Cycle, Stacked, Depth, FrameOK
  <1>2. ASSUME NEW v \in Vectors, Timer_handleIrq(v) PROVE Stacked'
    BY <1>2, IrqIs
  <1>3. CASE CallbackReturns
    BY <1>3, PopStacked
  <1>4. CASE ReadControl
    BY <1>4, ReadStacked
  <1>5. CASE WriteControl \/ WriteReload \/ WriteBase \/ EnableVector \/ irqDeinit
    BY <1>5, AccessMakes, MadeStacked DEF Makes
  <1>6. ASSUME NEW id \in Timers, Timer_init(id) PROVE Stacked'
    BY <1>6 DEF Timer_init, Stacked, Depth, FrameOK
  <1>7. ASSUME NEW id \in Timers, NEW value \in Scalers,
               Timer_setBaseScalerReloadValue(id, value)
        PROVE  Stacked'
    <2>1. value \in Nat
      BY ScalersType
    <2>2. QED
      BY <1>7, <2>1, CallerIs, CallsAre, StartingIs
         DEF Timer_setBaseScalerReloadValue
  <1>8. ASSUME NEW id \in Timers, Begins(id) PROVE Stacked'
    BY <1>8, BeginIs, StartingIs DEF Begin
  <1>9. CASE UNCHANGED vars
    BY <1>9 DEF vars, Stacked, Depth, FrameOK
  <1>10. QED
    BY <1>1, <1>2, <1>3, <1>4, <1>5, <1>6, <1>7, <1>8, <1>9, Moves DEF Begins

-----------------------------------------------------------------------------
(* The registers and the logs.                                             *)

Written == Timer_setFlag(Top.control, Next1)
Loads == "LD" \in Written
Starts ==
  /\ log[Top.id].told = "run" /\ ~Rescaling
  /\ "EN" \in Written /\ "CH" \notin Written
  /\ \/ Loads
     \/ /\ "EN" \notin regs[Top.id].control
        /\ regs[Top.id].counter = regs[Top.id].reload

\* A log with what its timer was told now is a log.
LEMMA LogTold ==
  ASSUME NEW l \in Log, NEW ready \in BOOLEAN, NEW told \in {"run", "stop", "on", "off"},
         NEW config, config = l.config \/ \E c \in Configs : config = <<c>>
  PROVE  [l EXCEPT !.ready = ready, !.told = told, !.config = config, !.age = -1] \in Log
  <1> DEFINE C == {<<>>} \cup {<<c>> : c \in Configs}
             T == {"run", "stop", "on", "off"}
  <1>1. Log = [ready : BOOLEAN, told : T, config : C, owed : BOOLEAN,
               unexplained : BOOLEAN, counted : BOOLEAN, full : BOOLEAN,
               expired : BOOLEAN, age : Int]
    BY DEF Log
  <1>2. l.config \in C
    BY <1>1
  <1>3. config \in C /\ told \in T
    BY <1>2
  <1> HIDE DEF C, T
  <1>4. -1 \in Int
    OBVIOUS
  <1>5. QED
    BY <1>1, <1>3, <1>4

\* So is the log of a timer that was just initialised.
LEMMA NewLogIs ==
  [NewLog EXCEPT !.ready = TRUE] \in Log /\ NewLog \in Log
  <1> DEFINE C == {<<>>} \cup {<<c>> : c \in Configs}
  <1>1. Log = [ready : BOOLEAN, told : {"run", "stop", "on", "off"}, config : C,
               owed : BOOLEAN, unexplained : BOOLEAN, counted : BOOLEAN,
               full : BOOLEAN, expired : BOOLEAN, age : Int]
    BY DEF Log
  <1>2. <<>> \in C
    OBVIOUS
  <1> HIDE DEF C
  <1>3. NewLog = [ready |-> FALSE, told |-> "off", config |-> <<>>, owed |-> FALSE,
                  unexplained |-> FALSE, counted |-> FALSE, full |-> FALSE,
                  expired |-> FALSE, age |-> -1]
    BY DEF NewLog
  <1> DEFINE none == <<>>
  <1>4. none \in C /\ NewLog.config = none
    BY <1>2, <1>3
  <1> HIDE DEF none
  <1>5. NewLog = [ready |-> FALSE, told |-> "off", config |-> none, owed |-> FALSE,
                  unexplained |-> FALSE, counted |-> FALSE, full |-> FALSE,
                  expired |-> FALSE, age |-> -1]
    BY <1>3, <1>4 DEF none
  <1>6. NewLog \in Log
    BY <1>1, <1>4, <1>5
  <1>7. [NewLog EXCEPT !.ready = TRUE] \in Log
    BY <1>1, <1>6
  <1>8. QED
    BY <1>6, <1>7

\* So is one whose age is no longer counted.
LEMMA LogReset ==
  ASSUME NEW l \in Log
  PROVE  [l EXCEPT !.age = -1] \in Log
  <1>1. -1 \in Int
    OBVIOUS
  <1> DEFINE minus == -1
  <1> HIDE DEF minus
  <1>2. [l EXCEPT !.age = minus] \in Log
    BY <1>1 DEF Log, minus
  <1>3. QED
    BY <1>2 DEF minus

\* So is one after a write of the control register.
LEMMA LogWritten ==
  ASSUME NEW l \in Log, NEW a \in BOOLEAN, NEW b \in BOOLEAN, NEW c \in BOOLEAN,
         NEW d \in Int
  PROVE  [l EXCEPT !.counted = a, !.full = b, !.expired = c, !.age = d] \in Log
  BY DEF Log

\* What a write of a control register (the second half of Timer_setFlag) leaves.
LEMMA WriteIs ==
  ASSUME Stacked, Typed, WriteControl
  PROVE  LET id == Top.id
             l  == log[id]
         IN
         /\ id \in Timers
         /\ regs' \in [Timers -> Reg] /\ log' \in [Timers -> Log]
         /\ \A j \in Timers \ {id} : regs'[j] = regs[j] /\ log'[j] = log[j]
         /\ regs'[id].control = Written \ {"LD"}
         /\ regs'[id].reload = regs[id].reload
         /\ regs'[id].counter = IF Loads THEN regs[id].reload ELSE regs[id].counter
         /\ log'[id].told = l.told /\ log'[id].config = l.config
         /\ log'[id].ready = l.ready /\ log'[id].owed = l.owed
         /\ log'[id].unexplained = l.unexplained
         /\ log'[id].counted = (l.counted /\ ~Loads)
         /\ log'[id].full = IF Loads THEN regs[id].reload = TIMER_UNDERFLOWED
                            ELSE l.full
         /\ log'[id].expired = /\ l.expired /\ ~Loads
                               /\ ~("EN" \in Written /\ l.told \in {"run", "on"})
         /\ log'[id].age = IF Starts THEN 0 ELSE l.age
  <1> DEFINE id == Top.id
             r == regs[id]
             l == log[id]
             after == [r EXCEPT !.control = Written \ {"LD"},
                                !.counter = IF Loads THEN r.reload ELSE @]
             noted == [l EXCEPT !.counted = @ /\ ~Loads,
                        !.full    = IF Loads THEN r.reload = TIMER_UNDERFLOWED ELSE @,
                        !.expired = /\ @ /\ ~Loads
                                    /\ ~("EN" \in Written /\ l.told \in {"run", "on"}),
                        !.age     = IF Starts THEN 0 ELSE @]
  <1>1. /\ id \in Timers /\ Next1 \in Access /\ Next1.access = "flag"
        /\ Top \in FrameRec
    BY AccessMakes, TopIs DEF WriteControl, NextAccess
  <1>2. Written \subseteq Flag \cup {"LD"}
    BY <1>1, AccessKinds DEF Written, Timer_setFlag, FrameRec
  <1>3. r \in Reg /\ l \in Log
    BY <1>1 DEF Typed
  <1>4. regs' = [regs EXCEPT ![id] = after]
    BY DEF WriteControl, Written, Loads
  <1>5. log' = [log EXCEPT ![id] = noted]
    BY DEF WriteControl, Written, Loads, Starts
  <1>6. /\ after \in Reg
        /\ after.control = Written \ {"LD"} /\ after.reload = r.reload
        /\ after.counter = IF Loads THEN r.reload ELSE r.counter
    BY <1>2, <1>3 DEF Reg
  <1>7. noted \in Log
    <2> DEFINE a == l.counted /\ ~Loads
               b == IF Loads THEN r.reload = TIMER_UNDERFLOWED ELSE l.full
               c == /\ l.expired /\ ~Loads
                    /\ ~("EN" \in Written /\ l.told \in {"run", "on"})
               d == IF Starts THEN 0 ELSE l.age
    <2>1. l.full \in BOOLEAN /\ l.age \in Int
      BY <1>3 DEF Log
    <2>2. a \in BOOLEAN /\ c \in BOOLEAN
      OBVIOUS
    <2>3. b \in BOOLEAN
      <3>1. CASE Loads
        BY <3>1
      <3>2. CASE ~Loads
        BY <2>1, <3>2
      <3>3. QED
        BY <3>1, <3>2
    <2>4. d \in Int
      BY <2>1
    <2>5. noted = [l EXCEPT !.counted = a, !.full = b, !.expired = c, !.age = d]
      BY <1>3 DEF Log
    <2> HIDE DEF a, b, c, d, noted
    <2>6. QED
      BY <1>3, <2>2, <2>3, <2>4, <2>5, LogWritten
  <1>8. /\ noted.told = l.told /\ noted.config = l.config
        /\ noted.ready = l.ready /\ noted.owed = l.owed
        /\ noted.unexplained = l.unexplained
        /\ noted.counted = (l.counted /\ ~Loads)
        /\ noted.full = IF Loads THEN r.reload = TIMER_UNDERFLOWED ELSE l.full
        /\ noted.expired = /\ l.expired /\ ~Loads
                           /\ ~("EN" \in Written /\ l.told \in {"run", "on"})
        /\ noted.age = IF Starts THEN 0 ELSE l.age
    BY <1>3 DEF Log
  <1>9. /\ regs' \in [Timers -> Reg] /\ regs'[id] = after
        /\ log' \in [Timers -> Log] /\ log'[id] = noted
        /\ \A j \in Timers \ {id} : regs'[j] = regs[j] /\ log'[j] = log[j]
    <2> HIDE DEF after, noted
    <2>1. QED
      BY <1>1, <1>4, <1>5, <1>6, <1>7 DEF Typed
  <1> HIDE DEF after, noted
  <1>10. QED
    BY <1>1, <1>6, <1>8, <1>9

\* What an underflow, and a cycle without one, write into a log.
LEMMA NotedIs ==
  ASSUME NEW l \in Log, NEW r \in Reg
  PROVE  /\ Noted(l, r) \in Log /\ Aged(l, r) \in Log
         /\ \A m \in {Noted(l, r), Aged(l, r)} :
              /\ m.told = l.told /\ m.config = l.config /\ m.ready = l.ready
              /\ m.unexplained = l.unexplained /\ m.full = l.full
              /\ l.owed => m.owed
              /\ l.age = -1 => m.age = -1
         /\ Noted(l, r).counted /\ Noted(l, r).owed = (l.owed \/ "IE" \in r.control)
         /\ Noted(l, r).expired = (l.expired \/ "RS" \notin r.control)
         /\ Noted(l, r).age = IF l.age >= 0 /\ "RS" \in r.control THEN 0 ELSE -1
         /\ Aged(l, r).counted = l.counted /\ Aged(l, r).expired = l.expired
         /\ Aged(l, r).owed = l.owed
         /\ Aged(l, r).age = IF l.age >= 0 /\ "EN" \in r.control THEN l.age + 1
                             ELSE l.age
         /\ "EN" \notin r.control => Aged(l, r) = l
  <1>1. /\ l.owed \in BOOLEAN /\ l.expired \in BOOLEAN /\ l.age \in Int
    BY DEF Log
  <1>2. Aged(l, r) \in Log
    BY <1>1 DEF Aged, Log
  <1>3. Noted(l, r) \in Log
    <2> DEFINE a == l.owed \/ "IE" \in r.control
               b == l.expired \/ "RS" \notin r.control
               c == IF l.age >= 0 /\ "RS" \in r.control THEN 0 ELSE -1
    <2>1. a \in BOOLEAN /\ b \in BOOLEAN
      OBVIOUS
    <2>2. c \in Int
      OBVIOUS
    <2>3. Noted(l, r) = [l EXCEPT !.counted = TRUE, !.owed = a, !.expired = b, !.age = c]
      BY DEF Noted, Log
    <2> HIDE DEF a, b, c
    <2>4. [l EXCEPT !.counted = TRUE, !.owed = a, !.expired = b, !.age = c] \in Log
      BY <2>1, <2>2 DEF Log
    <2>5. QED
      BY <2>3, <2>4
  <1>4. /\ Noted(l, r).told = l.told /\ Noted(l, r).config = l.config
        /\ Noted(l, r).ready = l.ready /\ Noted(l, r).unexplained = l.unexplained
        /\ Noted(l, r).full = l.full /\ Noted(l, r).counted
        /\ Noted(l, r).owed = (l.owed \/ "IE" \in r.control)
        /\ Noted(l, r).expired = (l.expired \/ "RS" \notin r.control)
        /\ Noted(l, r).age = IF l.age >= 0 /\ "RS" \in r.control THEN 0 ELSE -1
    BY DEF Noted, Log
  <1>5. /\ Aged(l, r).told = l.told /\ Aged(l, r).config = l.config
        /\ Aged(l, r).ready = l.ready /\ Aged(l, r).unexplained = l.unexplained
        /\ Aged(l, r).full = l.full /\ Aged(l, r).counted = l.counted
        /\ Aged(l, r).owed = l.owed /\ Aged(l, r).expired = l.expired
        /\ Aged(l, r).age = IF l.age >= 0 /\ "EN" \in r.control THEN l.age + 1
                            ELSE l.age
        /\ "EN" \notin r.control => Aged(l, r) = l
    BY DEF Aged, Log
  <1>6. QED
    BY <1>1, <1>2, <1>3, <1>4, <1>5

\* What an underflow leaves of a timer's registers.
LEMMA UnderflownIs ==
  ASSUME NEW r \in Reg
  PROVE  /\ Underflown(r) \in Reg
         /\ Underflown(r).reload = r.reload
         /\ Underflown(r).control = IF "RS" \in r.control THEN r.control
                                    ELSE r.control \ {"EN"}
         /\ Underflown(r).counter = IF "RS" \in r.control THEN r.reload
                                    ELSE TIMER_UNDERFLOWED
  <1>1. TIMER_UNDERFLOWED \in 0 .. Word - 1
    BY TimerAssumption DEF TIMER_UNDERFLOWED
  <1>2. CASE "RS" \in r.control
    BY <1>1, <1>2 DEF Underflown, Reg
  <1>3. CASE "RS" \notin r.control
    BY <1>1, <1>3 DEF Underflown, Reg
  <1>4. QED
    BY <1>2, <1>3

\* What a clock cycle does to a timer: nothing if it is disabled; it may disable
\* one that does not restart; and it changes neither the other flags nor what
\* the timer was told.
LEMMA CycleIs ==
  ASSUME Typed, Cycle, NEW id \in Timers
  PROVE  LET r == regs[id]
             s == regs'[id]
             l == log[id]
             m == log'[id]
         IN
         /\ s \in Reg /\ m \in Log
         /\ s.control \ {"EN"} = r.control \ {"EN"} /\ s.reload = r.reload
         /\ "EN" \in s.control => "EN" \in r.control
         /\ "EN" \in r.control /\ "RS" \in r.control => "EN" \in s.control
         /\ "EN" \notin r.control => s = r /\ m = l
         /\ m.told = l.told /\ m.config = l.config /\ m.ready = l.ready
         /\ m.unexplained = l.unexplained /\ m.full = l.full
         /\ l.owed => m.owed
         /\ l.age = -1 => m.age = -1
         /\ \/ ~Counts[id] /\ s = r /\ m = Aged(l, r)
            \/ /\ Counts[id] /\ r.counter # 0
               /\ s = [r EXCEPT !.counter = @ - 1] /\ m = Aged(l, r)
            \/ Underflows(id) /\ s = Underflown(r) /\ m = Noted(l, r)
  <1> DEFINE r == regs[id]
             s == regs'[id]
             l == log[id]
             m == log'[id]
  <1>1. r \in Reg /\ l \in Log /\ r.counter \in 0 .. Word - 1 /\ Word \in Nat
    BY TimerAssumption DEF Typed, Reg
  <1>2. /\ s = IF ~Counts[id] THEN r
               ELSE IF Underflows(id) THEN Underflown(r)
               ELSE [r EXCEPT !.counter = @ - 1]
        /\ m = IF Underflows(id) THEN Noted(l, r) ELSE Aged(l, r)
    BY DEF Cycle
  <1>3. Counts[id] => "EN" \in r.control
    BY CountsIs
  <1>4. m \in Log
    BY <1>1, <1>2, NotedIs
  <1>5. /\ m.told = l.told /\ m.config = l.config /\ m.ready = l.ready
        /\ m.unexplained = l.unexplained /\ m.full = l.full
        /\ l.owed => m.owed
        /\ l.age = -1 => m.age = -1
    <2> HIDE DEF r, s, l, m
    <2>1. m \in {Noted(l, r), Aged(l, r)}
      BY <1>2
    <2>2. QED
      BY <1>1, <2>1, NotedIs
  <1>6. CASE ~Counts[id]
    <2>1. s = r /\ m = Aged(l, r)
      BY <1>2, <1>6 DEF Underflows
    <2>2. "EN" \notin r.control => m = l
      BY <1>1, <2>1, NotedIs
    <2> HIDE DEF r, s, l, m
    <2>3. QED
      BY <1>1, <1>4, <1>5, <1>6, <2>1, <2>2 DEF r, s, l, m
  <1>7. CASE Counts[id] /\ r.counter # 0
    <2>1. s = [r EXCEPT !.counter = @ - 1] /\ m = Aged(l, r)
      BY <1>2, <1>7 DEF Underflows
    <2>2. s \in Reg /\ s.control = r.control /\ s.reload = r.reload
      BY <1>1, <1>7, <2>1 DEF Reg
    <2>3. "EN" \in r.control
      BY <1>3, <1>7
    <2> HIDE DEF r, s, l, m
    <2>4. QED
      BY <1>4, <1>5, <1>7, <2>1, <2>2, <2>3 DEF r, s, l, m
  <1>8. CASE Underflows(id)
    <2>1. s = Underflown(r) /\ m = Noted(l, r) /\ Counts[id]
      BY <1>2, <1>8 DEF Underflows
    <2>2. "EN" \in r.control
      BY <1>3, <2>1
    <2> HIDE DEF r, s, l, m
    <2>3. /\ s \in Reg /\ s.reload = r.reload
          /\ s.control = IF "RS" \in r.control THEN r.control ELSE r.control \ {"EN"}
      BY <1>1, <2>1, UnderflownIs
    <2>4. s.control \ {"EN"} = r.control \ {"EN"}
      BY <2>3
    <2>5. "RS" \in r.control => "EN" \in s.control
      BY <2>2, <2>3
    <2>6. QED
      BY <1>4, <1>5, <1>8, <2>1, <2>2, <2>3, <2>4, <2>5 DEF r, s, l, m
  <1>9. QED
    BY <1>6, <1>7, <1>8 DEF Underflows

\* What it does to a vector, and to the prescaler.
LEMMA CycleVectors ==
  ASSUME Typed, Cycle
  PROVE  /\ vectors' \in [Vectors -> Vector({Entry(id) : id \in Timers})]
         /\ \A v \in Vectors :
              /\ vectors'[v].enabled = vectors[v].enabled
              /\ vectors'[v].entry = vectors[v].entry
              /\ vectors'[v].pending => \/ vectors[v].pending
                                        \/ \E id \in Timers :
                                             /\ Underflows(id) /\ Line(id) = v
                                             /\ "IE" \in regs[id].control
         /\ base' \in Base /\ base'.flags = base.flags /\ base'.reload = base.reload
         /\ base'.scaler = IF base.scaler = 0 THEN base.reload ELSE base.scaler - 1
  <1> DEFINE E == {Entry(id) : id \in Timers}
             Raised(v) == \E id \in Timers : /\ Underflows(id) /\ Line(id) = v
                                             /\ "IE" \in regs[id].control
  <1>1. ASSUME NEW v \in Vectors
        PROVE  /\ vectors'[v] \in Vector(E)
               /\ vectors'[v].enabled = vectors[v].enabled
               /\ vectors'[v].entry = vectors[v].entry
               /\ vectors'[v].pending => vectors[v].pending \/ Raised(v)
    <2>1. vectors[v] \in Vector(E)
      BY DEF Typed
    <2>2. vectors'[v] = IF Raised(v) THEN raise(vectors[v]) ELSE vectors[v]
      BY DEF Cycle
    <2>3. /\ raise(vectors[v]) \in Vector(E)
          /\ raise(vectors[v]).enabled = vectors[v].enabled
          /\ raise(vectors[v]).entry = vectors[v].entry
      BY <2>1 DEF Vector, raise
    <2> HIDE DEF Raised, E
    <2>4. QED
      BY <2>1, <2>2, <2>3
  <1>2. vectors' = [v \in Vectors |-> vectors'[v]]
    BY DEF Cycle
  <1>3. vectors' \in [Vectors -> Vector(E)]
    <2> HIDE DEF E, Raised
    <2>1. QED
      BY <1>1, <1>2
  <1>4. /\ base' \in Base /\ base'.flags = base.flags /\ base'.reload = base.reload
        /\ base'.scaler = IF base.scaler = 0 THEN base.reload ELSE base.scaler - 1
    BY DEF Typed, Base, Cycle
  <1>5. QED
    BY <1>1, <1>3, <1>4

AllEntries == {Entry(id) : id \in Timers}

\* What Timer_init leaves of its timer's vector: nothing pending, enabled, and
\* its own entry unless another timer has the vector.
LEMMA InitIs ==
  ASSUME Typed, NEW id \in Timers, Timer_init(id)
  PROVE  LET v == VectorOf(id) IN
         /\ vectors' \in [Vectors -> Vector(AllEntries)]
         /\ \A w \in Vectors \ {v} : vectors'[w] = vectors[w]
         /\ ~vectors'[v].pending
         /\ vectors'[v].entry = IF vectors[v].entry = NoEntry THEN Entry(id)
                                ELSE vectors[v].entry
         /\ base' \in Base /\ base'.flags = base.flags \cup {"DF", "SI"}
         /\ base'.reload = base.reload /\ base'.scaler = base.scaler
         /\ regs' \in [Timers -> Reg] /\ regs'[id] = ClearRegs
         /\ log' \in [Timers -> Log] /\ log'[id] = [NewLog EXCEPT !.ready = TRUE]
         /\ \A j \in Timers \ {id} : regs'[j] = regs[j] /\ log'[j] = log[j]
         /\ stack' = stack /\ scale' = scale
  <1> DEFINE v == VectorOf(id)
             new == [NewLog EXCEPT !.ready = TRUE]
  <1>1. v \in Vectors /\ Entry(id) \in AllEntries /\ vectors[v] \in Vector(AllEntries)
    BY Names DEF AllEntries, Typed
  <1>2. /\ irqInit(vectors[v], id) \in Vector(AllEntries)
        /\ ~irqInit(vectors[v], id).pending
        /\ irqInit(vectors[v], id).entry =
             IF vectors[v].entry = NoEntry THEN Entry(id) ELSE vectors[v].entry
    <2> DEFINE c == interrupt_clear(vectors[v])
               e == entry_install(c, Entry(id))
    <2>1. /\ c \in Vector(AllEntries) /\ ~c.pending /\ c.entry = vectors[v].entry
      BY <1>1, VectorFields
    <2>2. /\ e \in Vector(AllEntries) /\ ~e.pending
          /\ e.entry = IF c.entry = NoEntry THEN Entry(id) ELSE c.entry
      <3> DEFINE entry == Entry(id)
      <3>1. entry \in AllEntries
        BY <1>1
      <3> HIDE DEF c, entry
      <3>2. /\ entry_install(c, entry) \in Vector(AllEntries)
            /\ ~entry_install(c, entry).pending
            /\ entry_install(c, entry).entry = IF c.entry = NoEntry THEN entry ELSE c.entry
        BY <2>1, <3>1, EntryFields
      <3>3. QED
        BY <3>2 DEF entry
    <2>3. irqInit(vectors[v], id) = vector_enable(e)
      BY DEF irqInit
    <2>4. /\ vector_enable(e) \in Vector(AllEntries) /\ ~vector_enable(e).pending
          /\ vector_enable(e).entry = e.entry
      <3> HIDE DEF e
      <3>1. QED
        BY <1>1, <2>2, VectorFields
    <2>5. QED
      BY <2>1, <2>2, <2>3, <2>4
  <1>3. /\ vectors' = [vectors EXCEPT ![v] = irqInit(@, id)]
        /\ vectors \in [Vectors -> Vector(AllEntries)]
    BY DEF Timer_init, Typed, AllEntries
  <1>4. /\ vectors' \in [Vectors -> Vector(AllEntries)]
        /\ vectors'[v] = irqInit(vectors[v], id)
        /\ \A w \in Vectors \ {v} : vectors'[w] = vectors[w]
    BY <1>1, <1>2, <1>3
  <1>5. /\ base' \in Base /\ base'.flags = base.flags \cup {"DF", "SI"}
        /\ base'.reload = base.reload /\ base'.scaler = base.scaler
    BY DEF Timer_init, Typed, Base, Timer_baseInit
  <1>6. ClearRegs \in Reg /\ new \in Log
    BY NewLogIs, TimerAssumption DEF ClearRegs, Reg
  <1>7. regs' = [regs EXCEPT ![id] = ClearRegs] /\ log' = [log EXCEPT ![id] = new]
        /\ stack' = stack /\ scale' = scale
    BY DEF Timer_init
  <1>8. /\ regs' \in [Timers -> Reg] /\ regs'[id] = ClearRegs
        /\ log' \in [Timers -> Log] /\ log'[id] = new
        /\ \A j \in Timers \ {id} : regs'[j] = regs[j] /\ log'[j] = log[j]
    <2> HIDE DEF new
    <2>1. QED
      BY <1>6, <1>7 DEF Typed
  <1>9. QED
    BY <1>2, <1>4, <1>5, <1>7, <1>8

\* What the calls that begin write down.
LEMMA BeginLogs ==
  ASSUME Typed, NEW id \in Timers, Begins(id)
  PROVE  LET l == log[id]
             m == log'[id]
         IN
         /\ log' \in [Timers -> Log]
         /\ \A j \in Timers \ {id} : log'[j] = log[j]
         /\ m.age = -1 /\ m.owed = l.owed /\ m.unexplained = l.unexplained
         /\ m.counted = l.counted /\ m.full = l.full /\ m.expired = l.expired
         /\ m.ready => l.ready
         /\ \/ /\ Timer_start(id) /\ m.told = "run" /\ m.config = l.config
            \/ \E config \in Configs :
                 /\ Timer_setConfigRegisters(id, config) /\ m.config = <<config>>
                 /\ m.told = IF "EN" \in config.flags THEN "on" ELSE "off"
            \/ /\ Timer_stop(id) \/ Timer_shutdown(id)
               /\ m.told = "stop" /\ m.config = l.config
  <1>1. log[id] \in Log /\ log \in [Timers -> Log]
    BY DEF Typed
  <1>2. CASE Timer_start(id)
    <2> DEFINE m == [log[id] EXCEPT !.ready = @, !.told = "run", !.config = @, !.age = -1]
    <2>1. m \in Log
      <3>1. log[id].ready \in BOOLEAN
        BY <1>1 DEF Log
      <3>2. QED
        BY <1>1, <3>1, LogTold
    <2>2. log' = [log EXCEPT ![id] = m]
      BY <1>2 DEF Timer_start
    <2>3. QED
      BY <1>1, <1>2, <2>1, <2>2 DEF Log
  <1>3. ASSUME NEW config \in Configs, Timer_setConfigRegisters(id, config)
        PROVE  /\ log' \in [Timers -> Log]
               /\ \A j \in Timers \ {id} : log'[j] = log[j]
               /\ log'[id].age = -1 /\ log'[id].owed = log[id].owed
               /\ log'[id].unexplained = log[id].unexplained
               /\ log'[id].counted = log[id].counted /\ log'[id].full = log[id].full
               /\ log'[id].expired = log[id].expired
               /\ log'[id].ready = log[id].ready /\ log'[id].config = <<config>>
               /\ log'[id].told = IF "EN" \in config.flags THEN "on" ELSE "off"
    <2> DEFINE told == IF "EN" \in config.flags THEN "on" ELSE "off"
               m == [log[id] EXCEPT !.told = told, !.config = <<config>>, !.age = -1]
    <2>1. told \in {"run", "stop", "on", "off"}
          /\ <<config>> \in {<<>>} \cup {<<c>> : c \in Configs}
      OBVIOUS
    <2> HIDE DEF told
    <2>2. log[id].ready \in BOOLEAN
      BY <1>1 DEF Log
    <2>3. [log[id] EXCEPT !.ready = log[id].ready, !.told = told,
                          !.config = <<config>>, !.age = -1] \in Log
      BY <1>1, <2>1, <2>2, LogTold
    <2>4. m \in Log
      BY <2>3
    <2>5. log' = [log EXCEPT ![id] = m]
      BY <1>3 DEF Timer_setConfigRegisters, told
    <2>6. QED
      BY <1>1, <2>4, <2>5 DEF Log, told
  <1>4. CASE Timer_stop(id)
    <2> DEFINE m == [log[id] EXCEPT !.ready = @, !.told = "stop", !.config = @, !.age = -1]
    <2>1. m \in Log
      <3>1. log[id].ready \in BOOLEAN
        BY <1>1 DEF Log
      <3>2. QED
        BY <1>1, <3>1, LogTold
    <2>2. log' = [log EXCEPT ![id] = m]
      BY <1>4 DEF Timer_stop
    <2>3. QED
      BY <1>1, <1>4, <2>1, <2>2 DEF Log
  <1>5. CASE Timer_shutdown(id)
    <2> DEFINE m == [log[id] EXCEPT !.ready = FALSE, !.told = "stop", !.config = @,
                                    !.age = -1]
    <2>1. m \in Log
      BY <1>1, LogTold
    <2>2. log' = [log EXCEPT ![id] = m]
      BY <1>5 DEF Timer_shutdown
    <2>3. QED
      BY <1>1, <1>5, <2>1, <2>2 DEF Log
  <1>6. QED
    BY <1>2, <1>3, <1>4, <1>5 DEF Begins

\* Every step keeps the types.
LEMMA NextTyped == Stacked /\ Typed /\ Entries /\ [Next]_vars => Typed'
  <1> SUFFICES ASSUME Stacked, Typed, Entries, [Next]_vars PROVE Typed'
    OBVIOUS
  <1>0. MaxCalls \in Nat /\ Word \in Nat
    BY TimerAssumption
  <1>1. CASE Cycle
    <2>1. /\ \A id \in Timers : regs'[id] \in Reg /\ log'[id] \in Log
          /\ regs' = [id \in Timers |-> regs'[id]] /\ log' = [id \in Timers |-> log'[id]]
      BY <1>1, CycleIs DEF Cycle
    <2>2. regs' \in [Timers -> Reg] /\ log' \in [Timers -> Log]
      BY <2>1
    <2>3. /\ vectors' \in [Vectors -> Vector({Entry(id) : id \in Timers})]
          /\ base' \in Base
      BY <1>1, CycleVectors
    <2>4. scale' = scale /\ calls' = calls
      BY <1>1 DEF Cycle
    <2>5. QED
      BY <2>2, <2>3, <2>4 DEF Typed
  <1>2. ASSUME NEW v \in Vectors, Timer_handleIrq(v) PROVE Typed'
    <2>1. PICK id \in Timers :
            /\ vectors' = [vectors EXCEPT ![v] = acknowledge(@)]
            /\ log' = [log EXCEPT ![id].owed = FALSE,
                                  ![id].unexplained = @ \/ ~log[id].owed]
      BY <1>2, IrqIs
    <2>2. acknowledge(vectors[v]) \in Vector({Entry(i) : i \in Timers})
      BY VectorFields DEF Typed
    <2>3. vectors' \in [Vectors -> Vector({Entry(i) : i \in Timers})]
      BY <2>1, <2>2 DEF Typed
    <2> DEFINE x == log[id].unexplained \/ ~log[id].owed
               m == [log[id] EXCEPT !.owed = FALSE, !.unexplained = x]
    <2>4. log' = [log EXCEPT ![id] = m]
      BY <2>1 DEF Typed, Log
    <2>5. m \in Log
      <3>1. x \in BOOLEAN
        OBVIOUS
      <3> HIDE DEF x
      <3>2. QED
        BY <3>1 DEF Typed, Log
    <2>6. log' \in [Timers -> Log]
      <3> HIDE DEF m
      <3>1. QED
        BY <2>4, <2>5 DEF Typed
    <2>7. QED
      BY <1>2, <2>3, <2>6 DEF Typed, Timer_handleIrq
  <1>3. CASE CallbackReturns \/ ReadControl
    BY <1>3 DEF CallbackReturns, ReadControl, Typed
  <1>4. CASE WriteControl
    BY <1>4, WriteIs DEF WriteControl, Typed
  <1>5. CASE WriteReload
    <2>1. Top.id \in Timers /\ Next1.value \in 0 .. Word - 1
      BY <1>5, AccessMakes, AccessKinds DEF WriteReload, NextAccess
    <2>2. [regs[Top.id] EXCEPT !.reload = Next1.value] \in Reg
      BY <2>1 DEF Typed, Reg
    <2>3. regs' = [regs EXCEPT ![Top.id] = [@ EXCEPT !.reload = Next1.value]]
      BY <1>5 DEF WriteReload
    <2>4. regs' \in [Timers -> Reg]
      BY <2>1, <2>2, <2>3 DEF Typed
    <2>5. QED
      BY <1>5, <2>4 DEF WriteReload, Typed
  <1>6. CASE WriteBase
    <2>1. Next1.field \in {"reload", "scaler"} /\ Next1.value \in Nat
      BY <1>6, AccessMakes, AccessKinds DEF WriteBase, NextAccess
    <2>2. base' \in Base
      BY <1>6, <2>1 DEF WriteBase, Typed, Base
    <2>3. QED
      BY <1>6, <2>2 DEF WriteBase, Typed
  <1>7. CASE EnableVector \/ irqDeinit
    <2> DEFINE v == VectorOf(Top.id)
    <2>1. Top.id \in Timers /\ v \in Vectors /\ Entry(Top.id) \in AllEntries
          /\ vectors[v] \in Vector(AllEntries)
      BY <1>7, AccessMakes, Names DEF Typed, AllEntries
    <2>2. vector_enable(vectors[v]) \in Vector(AllEntries)
          /\ vector_disable(vectors[v]) \in Vector(AllEntries)
      BY <2>1, VectorFields
    <2>3. entry_remove(vector_disable(vectors[v]), Entry(Top.id)) \in Vector(AllEntries)
      BY <2>1, <2>2, EntryFields
    <2>4. vectors' \in [Vectors -> Vector(AllEntries)]
      BY <1>7, <2>1, <2>2, <2>3 DEF EnableVector, irqDeinit, Typed, AllEntries
    <2>5. QED
      BY <1>7, <2>4 DEF EnableVector, irqDeinit, Typed, AllEntries
  <1>8. ASSUME NEW id \in Timers, Timer_init(id) PROVE Typed'
    <2>1. calls' \in 0 .. MaxCalls
      BY <1>0, <1>8, CallerIs DEF Timer_init, Typed
    <2>2. QED
      BY <1>8, <2>1, InitIs DEF Typed, AllEntries
  <1>9. ASSUME NEW id \in Timers, NEW value \in Scalers,
               Timer_setBaseScalerReloadValue(id, value)
        PROVE  Typed'
    <2>1. calls' \in 0 .. MaxCalls /\ scale' \in Nat
      BY <1>0, <1>9, CallerIs, ScalersType
         DEF Timer_setBaseScalerReloadValue, Typed
    <2>2. \A t \in Timers : [log[t] EXCEPT !.age = -1] \in Log
      BY LogReset DEF Typed
    <2>3. log' \in [Timers -> Log]
      BY <1>9, <2>2 DEF Timer_setBaseScalerReloadValue
    <2>4. QED
      BY <1>9, <2>1, <2>3 DEF Timer_setBaseScalerReloadValue, Typed
  <1>10. ASSUME NEW id \in Timers, Begins(id) PROVE Typed'
    <2> DEFINE v == VectorOf(id)
    <2>1. /\ vectors' = [vectors EXCEPT ![v] = vector_disable(@)]
          /\ calls' \in 0 .. MaxCalls
          /\ regs' = regs /\ base' = base /\ scale' = scale
      BY <1>0, <1>10, BeginIs DEF Typed
    <2>2. v \in Vectors /\ vectors[v] \in Vector(AllEntries)
      BY Names DEF Typed, AllEntries
    <2>3. vectors' \in [Vectors -> Vector(AllEntries)]
      BY <2>1, <2>2, VectorFields DEF Typed, AllEntries
    <2>4. log' \in [Timers -> Log]
      BY <1>10, BeginLogs
    <2>5. QED
      BY <2>1, <2>3, <2>4 DEF Typed, AllEntries
  <1>11. CASE UNCHANGED vars
    BY <1>11 DEF vars, Typed
  <1>12. QED
    BY <1>1, <1>2, <1>3, <1>4, <1>5, <1>6, <1>7, <1>8, <1>9, <1>10, <1>11, Moves
       DEF Begins

\* A vector's entry is installed by Timer_init and removed by Timer_shutdown,
\* both for the timer whose vector it is.
LEMMA NextEntries == Stacked /\ Typed /\ Entries /\ [Next]_vars => Entries'
  <1> SUFFICES ASSUME Stacked, Typed, Entries, [Next]_vars PROVE Entries'
    OBVIOUS
  <1>0. ASSUME \A v \in Vectors : vectors'[v].entry \in {vectors[v].entry, NoEntry}
        PROVE  Entries'
    BY <1>0, Names DEF Entries
  <1>1. CASE Cycle
    BY <1>0, <1>1, CycleVectors
  <1>2. ASSUME NEW v \in Vectors, Timer_handleIrq(v) PROVE Entries'
    <2>1. vectors[v] \in Vector(AllEntries)
      BY DEF Typed, AllEntries
    <2>2. acknowledge(vectors[v]).entry = vectors[v].entry
      BY <2>1, VectorFields
    <2>3. vectors' = [vectors EXCEPT ![v] = acknowledge(@)]
      BY <1>2 DEF Timer_handleIrq
    <2>4. QED
      BY <1>0, <2>2, <2>3 DEF Typed
  <1>3. CASE EnableVector \/ irqDeinit
    <2> DEFINE v == VectorOf(Top.id)
               d == vector_disable(vectors[v])
    <2>1. Top.id \in Timers /\ v \in Vectors /\ Entry(Top.id) \in AllEntries
          /\ vectors[v] \in Vector(AllEntries)
      BY <1>3, AccessMakes, Names DEF Typed, AllEntries
    <2>2. vector_enable(vectors[v]).entry = vectors[v].entry
          /\ d \in Vector(AllEntries) /\ d.entry = vectors[v].entry
      BY <2>1, VectorFields
    <2>3. entry_remove(d, Entry(Top.id)).entry \in {vectors[v].entry, NoEntry}
      <3> HIDE DEF d
      <3>1. QED
        BY <2>1, <2>2, EntryFields
    <2>4. \A w \in Vectors : vectors'[w].entry \in {vectors[w].entry, NoEntry}
      BY <1>3, <2>1, <2>2, <2>3 DEF EnableVector, irqDeinit, Typed
    <2>5. QED
      BY <1>0, <2>4
  <1>4. ASSUME NEW id \in Timers, Timer_init(id) PROVE Entries'
    <2> DEFINE v == VectorOf(id)
    <2>1. /\ \A w \in Vectors \ {v} : vectors'[w] = vectors[w]
          /\ vectors'[v].entry \in {Entry(id), vectors[v].entry}
      BY <1>4, InitIs
    <2>2. \A i \in Timers : Entry(i) = Entry(id) => v = VectorOf(i)
      BY Names
    <2>3. QED
      BY <2>1, <2>2 DEF Entries
  <1>5. ASSUME NEW id \in Timers, Begins(id) PROVE Entries'
    <2> DEFINE v == VectorOf(id)
    <2>1. vectors[v] \in Vector(AllEntries)
      BY Names DEF Typed, AllEntries
    <2>2. vector_disable(vectors[v]).entry = vectors[v].entry
      BY <2>1, VectorFields
    <2>3. vectors' = [vectors EXCEPT ![v] = vector_disable(@)]
      BY <1>5, BeginIs
    <2>4. QED
      BY <1>0, <2>2, <2>3 DEF Typed
  <1>6. CASE vectors' = vectors
    BY <1>6 DEF Entries
  <1>7. QED
    BY <1>1, <1>2, <1>3, <1>4, <1>5, <1>6, Moves
       DEF Begins, CallbackReturns, ReadControl, WriteControl, WriteReload, WriteBase,
           Timer_setBaseScalerReloadValue, vars

-----------------------------------------------------------------------------
(* The prescaler.                                                          *)

\* The two accesses that set the prescaler, and what is left after the first.
LEMMA BaseAccesses ==
  ASSUME NEW value \in Nat
  PROVE  LET two == BaseScalerAccesses(value)
             one == <<SetBase("scaler", value)>>
         IN
         /\ Tail(two) = one /\ Tail(one) = <<>>
         /\ two # <<>> /\ one # <<>> /\ two # one
         /\ two[1] = SetBase("reload", value) /\ one[1] = SetBase("scaler", value)
         /\ two[1].access = "base" /\ one[1].access = "base"
         /\ SetsBase(two) /\ SetsBase(one) /\ ~SetsBase(<<>>)
  <1> DEFINE a == SetBase("reload", value)
             b == SetBase("scaler", value)
  <1>1. a.access = "base" /\ b.access = "base"
    BY DEF SetBase
  <1>2. BaseScalerAccesses(value) = <<a, b>>
    BY DEF BaseScalerAccesses
  <1> HIDE DEF a, b
  <1>3. /\ Tail(<<a, b>>) = <<b>> /\ Tail(<<b>>) = <<>>
        /\ <<a, b>> # <<>> /\ <<b>> # <<>> /\ <<a, b>> # <<b>>
        /\ <<a, b>>[1] = a /\ <<b>>[1] = b
    OBVIOUS
  <1>4. SetsBase(<<a, b>>) /\ SetsBase(<<b>>) /\ ~SetsBase(<<>>)
    BY <1>1 DEF SetsBase
  <1>5. QED
    BY <1>1, <1>2, <1>3, <1>4 DEF b, a

\* The other calls have nothing to do with it.
LEMMA OtherAccesses ==
  /\ ~SetsBase(StartAccesses)
  /\ ~SetsBase(<<SetFlag("EN", FALSE)>>)
  /\ ~SetsBase(<<SetFlag("EN", FALSE), Remove>>)
  /\ \A config \in Configs : ~SetsBase(ConfigAccesses(config))
  <1>1. \A flag, isSet : SetFlag(flag, isSet).access # "base"
    BY DEF SetFlag
  <1>2. Enable.access # "base" /\ Remove.access # "base"
        /\ \A value : SetReload(value).access # "base"
    BY DEF Enable, Remove, SetReload
  <1>3. ~SetsBase(StartAccesses)
    BY <1>2 DEF SetsBase, StartAccesses, SetFlag
  <1>4. ~SetsBase(<<SetFlag("EN", FALSE)>>) /\ ~SetsBase(<<SetFlag("EN", FALSE), Remove>>)
    BY <1>2 DEF SetsBase, SetFlag
  <1>5. ASSUME NEW config \in Configs PROVE ~SetsBase(ConfigAccesses(config))
    BY <1>2 DEF SetsBase, ConfigAccesses, SetFlag
  <1>6. QED
    BY <1>3, <1>4, <1>5

\* They begin with a flag.
LEMMA FlagsFirst ==
  /\ StartAccesses # <<>> /\ StartAccesses[1].access # "base"
  /\ <<SetFlag("EN", FALSE)>> # <<>> /\ <<SetFlag("EN", FALSE)>>[1].access # "base"
  /\ <<SetFlag("EN", FALSE), Remove>> # <<>>
  /\ <<SetFlag("EN", FALSE), Remove>>[1].access # "base"
  /\ \A config \in Configs : /\ ConfigAccesses(config) # <<>>
                              /\ ConfigAccesses(config)[1].access # "base"
  <1>1. StartAccesses # <<>> /\ StartAccesses[1].access # "base"
    BY DEF StartAccesses, SetFlag
  <1>2. /\ <<SetFlag("EN", FALSE)>> # <<>> /\ <<SetFlag("EN", FALSE)>>[1].access # "base"
        /\ <<SetFlag("EN", FALSE), Remove>> # <<>>
        /\ <<SetFlag("EN", FALSE), Remove>>[1].access # "base"
    BY DEF SetFlag
  <1>3. ASSUME NEW config \in Configs
        PROVE  ConfigAccesses(config) # <<>> /\ ConfigAccesses(config)[1].access # "base"
    BY DEF ConfigAccesses, SetFlag
  <1>4. QED
    BY <1>1, <1>2, <1>3

\* What a call that begins has left to do: never the prescaler.
LEMMA BeginAccesses ==
  ASSUME NEW id \in Timers, Stacked, Begins(id)
  PROVE  \E accesses \in Seq(Access) :
           /\ Begin(id, accesses) /\ ~SetsBase(accesses)
           /\ \/ Timer_start(id) /\ accesses = StartAccesses
              \/ \E config \in Configs : /\ Timer_setConfigRegisters(id, config)
                                         /\ accesses = ConfigAccesses(config)
              \/ Timer_stop(id) /\ accesses = <<SetFlag("EN", FALSE)>>
              \/ Timer_shutdown(id) /\ accesses = <<SetFlag("EN", FALSE), Remove>>
  BY CallsAre, OtherAccesses, Zenon
     DEF Begins, Timer_start, Timer_setConfigRegisters, Timer_stop, Timer_shutdown

\* What is left of a call with nothing to do with it has nothing to do with it.
LEMMA TailsBase ==
  ASSUME NEW t \in Seq(Access), t # <<>>
  PROVE  SetsBase(Tail(t)) => SetsBase(t)
  BY TailIs DEF SetsBase

\* A step that has nothing to do with the prescaler keeps what is known of it.
LEMMA TopScaled ==
  ASSUME Stacked, Scaled, NEW f \in FrameRec, TopBecomes(f),
         SetsBase(f.todo) <=> SetsBase(Top.todo),
         SetsBase(Top.todo) => f.todo = Top.todo,
         base' = base, scale' = scale
  PROVE  Scaled'
  <1> DEFINE n == Len(stack)
  <1>1. /\ Depth' = Depth /\ Top = stack[n] /\ n \in Depth
        /\ \A k \in Depth : stack'[k] = IF k = n THEN f ELSE stack[k]
    BY TopChanges, TopIs
  <1>2. \A k \in Depth : /\ SetsBase(stack'[k].todo) <=> SetsBase(stack[k].todo)
                         /\ SetsBase(stack[k].todo) => stack'[k].todo = stack[k].todo
    BY <1>1
  <1>3. QED
    BY <1>1, <1>2 DEF Scaled

\* Every step keeps the prescaler set, or being set by the task, reload value
\* first.
LEMMA NextScaled ==
  Stacked /\ Typed /\ Entries /\ Scaled /\ [Next]_vars => Scaled'
  <1> SUFFICES ASSUME Stacked, Typed, Entries, Scaled, [Next]_vars PROVE Scaled'
    OBVIOUS
  <1>0. Top = stack[Len(stack)] /\ Len(stack) \in Depth /\ Top.todo \in Seq(Access)
        /\ scale \in Nat /\ base.scaler \in Nat /\ base.reload \in Nat
    BY TopIs DEF Typed, Base
  <1>1. CASE Cycle
    <2>1. /\ stack' = stack /\ scale' = scale /\ Depth' = Depth
          /\ base'.reload = base.reload
          /\ base'.scaler = IF base.scaler = 0 THEN base.reload ELSE base.scaler - 1
      BY <1>1, CycleVectors DEF Cycle, Depth
    <2>2. base.reload = scale /\ base.scaler <= scale
            => base'.reload = scale /\ base'.scaler <= scale
      BY <1>0, <2>1
    <2>3. QED
      BY <2>1, <2>2 DEF Scaled
  <1>2. ASSUME NEW v \in Vectors, Timer_handleIrq(v) PROVE Scaled'
    <2>1. PICK id \in Timers :
            stack' = Append(stack, Frame(v, id)) /\ Frame(v, id) \in FrameRec
      BY <1>2, IrqIs
    <2> DEFINE n == Len(stack)
    <2>2. /\ Depth' = Depth \cup {n + 1} /\ \A k \in Depth : stack'[k] = stack[k]
          /\ stack'[n + 1].todo = <<>>
      <3>1. Frame(v, id).todo = <<>>
        BY DEF Frame
      <3>2. QED
        BY <2>1, <3>1, Pushes
    <2>3. ~SetsBase(<<>>)
      BY <1>0, BaseAccesses
    <2>4. base' = base /\ scale' = scale
      BY <1>2 DEF Timer_handleIrq
    <2>5. QED
      BY <2>2, <2>3, <2>4 DEF Scaled
  <1>3. CASE CallbackReturns
    <2>1. /\ Depth = Depth' \cup {Len(stack)} /\ \A k \in Depth' : stack'[k] = stack[k]
          /\ stack[Len(stack)].todo = <<>>
      BY <1>3, Pops
    <2>2. ~SetsBase(<<>>)
      BY <1>0, BaseAccesses
    <2>3. base' = base /\ scale' = scale
      BY <1>3 DEF CallbackReturns
    <2>4. QED
      BY <2>1, <2>2, <2>3 DEF Scaled
  <1>4. CASE ReadControl
    <2> DEFINE f == [Top EXCEPT !.read = TRUE, !.control = regs[Top.id].control]
    <2>1. TopBecomes(f) /\ f \in FrameRec /\ f.todo = Top.todo
      BY <1>4, ReadStacked
    <2>2. base' = base /\ scale' = scale
      BY <1>4 DEF ReadControl
    <2> HIDE DEF f
    <2>3. QED
      BY <2>1, <2>2, TopScaled
  <1>5. CASE WriteControl \/ WriteReload \/ EnableVector \/ irqDeinit
    <2> DEFINE f == [Top EXCEPT !.todo = Tail(@), !.read = FALSE, !.control = {}]
    <2>1. Top.todo # <<>> /\ Made /\ Next1 = Top.todo[1] /\ scale' = scale
      BY <1>5, AccessMakes DEF Makes
    <2>2. TopBecomes(f) /\ f \in FrameRec /\ f.todo = Tail(Top.todo)
      BY <2>1, MadeIs
    <2>3. base' = base /\ Next1.access # "base"
      BY <1>5 DEF WriteControl, WriteReload, EnableVector, irqDeinit, NextAccess
    <2>4. ~SetsBase(Top.todo)
      BY <1>0, <2>1, <2>3, BaseAccesses DEF Scaled
    <2>5. ~SetsBase(f.todo)
      BY <1>0, <2>1, <2>2, <2>4, TailsBase
    <2> HIDE DEF f
    <2>6. QED
      BY <2>1, <2>2, <2>3, <2>4, <2>5, TopScaled
  <1>6. CASE WriteBase
    <2> DEFINE f == [Top EXCEPT !.todo = Tail(@), !.read = FALSE, !.control = {}]
               two == BaseScalerAccesses(scale)
               one == <<SetBase("scaler", scale)>>
    <2>1. /\ Top.todo # <<>> /\ Made /\ Next1 = Top.todo[1] /\ scale' = scale
          /\ Next1.access = "base"
          /\ base' = [base EXCEPT ![Next1.field] = Next1.value]
      BY <1>6, AccessMakes DEF Makes, WriteBase, NextAccess
    <2>2. SetsBase(Top.todo)
      BY <1>0, <2>1, TailIs DEF SetsBase
    <2>3. /\ Len(stack) = 1 /\ Top.todo \in {two, one}
          /\ Top.todo = one => base.reload = scale
      BY <1>0, <2>2 DEF Scaled
    <2>4. Depth' = {1} /\ stack'[1].todo = Tail(Top.todo)
      <3>1. TopBecomes(f) /\ f \in FrameRec /\ f.todo = Tail(Top.todo)
        BY <2>1, MadeIs
      <3>2. Depth = {1}
        BY <2>3 DEF Depth
      <3> HIDE DEF f
      <3>3. QED
        BY <2>3, <3>1, <3>2, TopChanges
    <2>5. CASE Top.todo = two
      <3>1. Next1 = SetBase("reload", scale)
        BY <1>0, <2>1, <2>5, BaseAccesses
      <3>2. base'.reload = scale
        BY <2>1, <3>1 DEF Typed, Base, SetBase
      <3>3. stack'[1].todo = one
        BY <1>0, <2>4, <2>5, BaseAccesses
      <3>4. SetsBase(one)
        BY <1>0, BaseAccesses
      <3>5. QED
        BY <2>1, <2>4, <3>2, <3>3, <3>4 DEF Scaled
    <2>6. CASE Top.todo = one
      <3>1. Next1 = SetBase("scaler", scale)
        BY <1>0, <2>1, <2>6, BaseAccesses
      <3>2. base'.scaler = scale /\ base'.reload = scale
        BY <2>1, <2>3, <2>6, <3>1 DEF Typed, Base, SetBase
      <3>3. stack'[1].todo = <<>> /\ ~SetsBase(<<>>)
        BY <1>0, <2>4, <2>6, BaseAccesses
      <3>4. QED
        BY <1>0, <2>1, <2>4, <3>2, <3>3 DEF Scaled
    <2>7. QED
      BY <2>3, <2>5, <2>6
  <1>7. ASSUME NEW id \in Timers, Timer_init(id) PROVE Scaled'
    <2>1. /\ base'.reload = base.reload /\ base'.scaler = base.scaler
          /\ stack' = stack /\ scale' = scale /\ Depth' = Depth
      BY <1>7, InitIs DEF Depth
    <2>2. QED
      BY <2>1 DEF Scaled
  <1>8. ASSUME NEW id \in Timers, NEW value \in Scalers,
               Timer_setBaseScalerReloadValue(id, value)
        PROVE  Scaled'
    <2> DEFINE f == [Top EXCEPT !.id = id, !.todo = BaseScalerAccesses(value)]
    <2>1. value \in Nat /\ BaseScalerAccesses(value) \in Seq(Access) /\ scale' = value
      BY <1>8, ScalersType, CallsAre DEF Timer_setBaseScalerReloadValue
    <2>2. Len(stack) = 1 /\ Depth = {1}
      <3>1. Caller(id, "setBaseScalerReloadValue")
        BY <1>8 DEF Timer_setBaseScalerReloadValue
      <3>2. Len(stack) = 1
        BY <3>1, CallerIs
      <3>3. QED
        BY <3>2 DEF Depth
    <2>3. TopBecomes(f) /\ f \in FrameRec /\ f.todo = BaseScalerAccesses(value)
      BY <1>8, <2>1, CallerIs, StartingIs DEF Timer_setBaseScalerReloadValue
    <2> HIDE DEF f
    <2>4. Depth' = {1} /\ stack'[1].todo = BaseScalerAccesses(value)
      BY <2>2, <2>3, TopChanges
    <2>5. QED
      BY <2>1, <2>4, BaseAccesses DEF Scaled
  <1>9. ASSUME NEW id \in Timers, Begins(id) PROVE Scaled'
    <2>1. PICK accesses \in Seq(Access) : Begin(id, accesses) /\ ~SetsBase(accesses)
      BY <1>9, BeginAccesses
    <2> DEFINE f == [Top EXCEPT !.id = id, !.todo = accesses]
    <2>2. TopBecomes(f) /\ f \in FrameRec /\ f.todo = accesses
      <3>1. Idle /\ (Top.owner = 0 \/ Top.owner = id)
        BY <1>9, BeginIs
      <3>2. Starting(id, accesses)
        BY <2>1 DEF Begin
      <3>3. QED
        BY <3>1, <3>2, StartingIs
    <2>3. ~SetsBase(Top.todo)
      BY <1>0, <1>9, BeginIs, BaseAccesses DEF Idle
    <2>4. base' = base /\ scale' = scale
      BY <1>9, BeginIs
    <2> HIDE DEF f
    <2>5. QED
      BY <2>1, <2>2, <2>3, <2>4, TopScaled
  <1>10. CASE UNCHANGED vars
    BY <1>10 DEF vars, Scaled, Depth
  <1>11. QED
    BY <1>1, <1>2, <1>3, <1>4, <1>5, <1>6, <1>7, <1>8, <1>9, <1>10, Moves DEF Begins

-----------------------------------------------------------------------------
(* The vector of a timer that a call works on.                             *)

\* The step of what runs keeps the vectors of all timers in calls disabled, if it
\* enables the vector of none of them.
LEMMA MaskedTop ==
  ASSUME Stacked, Masked, NEW f \in FrameRec, TopBecomes(f), f.owner = Top.owner,
         \A id \in Timers : Works(f, id) => ~vectors'[VectorOf(id)].enabled,
         \A id \in Timers, k \in Depth :
           k # Len(stack) /\ Works(stack[k], id) => ~vectors'[VectorOf(id)].enabled
  PROVE  Masked'
  <1> DEFINE n == Len(stack)
  <1>1. /\ Depth' = Depth /\ Top = stack[n] /\ n \in Depth
        /\ \A k \in Depth : stack'[k] = IF k = n THEN f ELSE stack[k]
    BY TopChanges, TopIs
  <1>2. \A k \in Depth : stack'[k].owner = stack[k].owner
    BY <1>1
  <1>3. \A l \in Depth : ~(n < l)
    BY <1>1 DEF Depth
  <1>4. SUFFICES ASSUME NEW k \in Depth, NEW id \in Timers, Works(stack'[k], id)
                 PROVE  /\ ~vectors'[VectorOf(id)].enabled
                        /\ \A l \in Depth :
                             k < l => VectorOf(stack'[l].owner) # VectorOf(id)
    BY <1>1 DEF Masked
  <1>5. CASE k = n
    BY <1>1, <1>3, <1>4, <1>5
  <1>6. CASE k # n
    BY <1>1, <1>2, <1>4, <1>6 DEF Masked
  <1>7. QED
    BY <1>5, <1>6

\* The frames under the running one work on timers with other vectors.
LEMMA UnderTop ==
  ASSUME Stacked, Masked, NEW id \in Timers, NEW j \in Timers, NEW k \in Depth,
         k # Len(stack), Works(stack[k], j),
         Top.owner = 0 \/ Top.owner = id
  PROVE  VectorOf(j) # VectorOf(id)
  <1> DEFINE n == Len(stack)
  <1>1. /\ Top = stack[n] /\ n \in Depth /\ FrameOK(n)
    BY TopIs
  <1>2. k < n
    BY <1>1 DEF Depth
  <1>3. Top.owner # 0
    BY <1>1, <1>2 DEF FrameOK, Depth
  <1>4. VectorOf(stack[n].owner) # VectorOf(j)
    BY <1>1, <1>2 DEF Masked
  <1>5. QED
    BY <1>1, <1>3, <1>4

\* What runs is in a call for its own timer, if in any.
LEMMA TopOwner ==
  ASSUME Stacked, Top.todo # <<>>
  PROVE  Top.id \in Timers /\ (Top.owner = 0 \/ Top.owner = Top.id)
  BY TopIs DEF FrameOK

\* No call is working on the timer that a new call is for.
LEMMA NoneWorks ==
  ASSUME Stacked, Masked, NEW id \in Timers, ~Works(Top, id),
         Top.owner = 0 \/ Top.owner = id
  PROVE  \A k \in Depth : ~Works(stack[k], id)
  <1>1. ASSUME NEW k \in Depth, Works(stack[k], id) PROVE FALSE
    <2>1. Top = stack[Len(stack)]
      BY TopIs
    <2>2. k # Len(stack)
      BY <1>1, <2>1
    <2>3. QED
      BY <1>1, <2>2, UnderTop
  <1>2. QED
    BY <1>1

\* Enabling the vector is the last access of a call.
LEMMA EnableLastOne ==
  ASSUME Stacked, Courses, EnableVector
  PROVE  Tail(Top.todo) = <<>>
  <1>1. Top.todo # <<>> /\ Top.todo[1].access = "enable" /\ Top.id \in Timers
    BY AccessMakes DEF EnableVector, NextAccess, Makes
  <1>2. Top = stack[Len(stack)] /\ Len(stack) \in Depth /\ Top.todo \in Seq(Access)
    BY TopIs
  <1>3. Works(Top, Top.id)
    BY <1>1 DEF Works
  <1>4. 1 \in DOMAIN Top.todo
    BY <1>1, <1>2
  <1>5. AccessOK(log[Top.id], Top.todo, 1)
    BY <1>1, <1>2, <1>3, <1>4 DEF Courses, Course
  <1>6. Len(Top.todo) = 1
    BY <1>1, <1>5 DEF AccessOK
  <1>7. Tail(Top.todo) \in Seq(Access) /\ Len(Tail(Top.todo)) = 0
    BY <1>1, <1>2, <1>6, TailIs
  <1>8. QED
    BY <1>7, EmptySeq

\* Every step keeps the vector of a timer disabled while a call works on it: the
\* only access that enables it is the last.
LEMMA NextMasked ==
  Stacked /\ Typed /\ Entries /\ Scaled /\ Masked /\ Courses /\ [Next]_vars => Masked'
  <1> SUFFICES ASSUME Stacked, Typed, Entries, Scaled, Masked, Courses, [Next]_vars
               PROVE  Masked'
    OBVIOUS
  <1> DEFINE n == Len(stack)
  <1>0. Top = stack[n] /\ n \in Depth /\ Top.todo \in Seq(Access) /\ scale \in Nat
    BY TopIs DEF Typed
  <1>1. CASE Cycle
    <2>1. stack' = stack /\ Depth' = Depth
      BY <1>1 DEF Cycle, Depth
    <2>2. \A id \in Timers :
            vectors'[VectorOf(id)].enabled = vectors[VectorOf(id)].enabled
      BY <1>1, CycleVectors, Names
    <2>3. QED
      BY <2>1, <2>2 DEF Masked
  <1>2. ASSUME NEW v \in Vectors, Timer_handleIrq(v) PROVE Masked'
    <2>1. PICK id \in Timers :
            /\ v = VectorOf(id) /\ vectors[v].enabled
            /\ vectors' = [vectors EXCEPT ![v] = acknowledge(@)]
            /\ stack' = Append(stack, Frame(v, id)) /\ Frame(v, id) \in FrameRec
      BY <1>2, IrqIs
    <2> DEFINE f == Frame(v, id)
    <2>2. f.todo = <<>> /\ f.owner = id
      BY DEF Frame
    <2> HIDE DEF f
    <2>3. /\ Depth' = Depth \cup {n + 1} /\ \A k \in Depth : stack'[k] = stack[k]
          /\ stack'[n + 1] = f
      BY <2>1, Pushes DEF f
    <2>4. \A w \in Vectors : vectors'[w].enabled = vectors[w].enabled
      <3>1. vectors[v] \in Vector(AllEntries)
        BY DEF Typed, AllEntries
      <3>2. acknowledge(vectors[v]).enabled = vectors[v].enabled
        BY <3>1, VectorFields
      <3>3. QED
        BY <2>1, <3>2 DEF Typed
    <2>5. SUFFICES ASSUME NEW k \in Depth', NEW j \in Timers, Works(stack'[k], j)
                   PROVE  /\ ~vectors'[VectorOf(j)].enabled
                          /\ \A l \in Depth' :
                               k < l => VectorOf(stack'[l].owner) # VectorOf(j)
      BY DEF Masked
    <2>6. k \in Depth /\ Works(stack[k], j)
      BY <2>2, <2>3, <2>5 DEF Works
    <2>7. /\ ~vectors[VectorOf(j)].enabled
          /\ \A l \in Depth : k < l => VectorOf(stack[l].owner) # VectorOf(j)
      BY <2>6 DEF Masked
    <2>8. VectorOf(j) \in Vectors /\ VectorOf(j) # VectorOf(id)
      BY <2>1, <2>7, Names
    <2>9. QED
      BY <2>2, <2>3, <2>4, <2>7, <2>8
  <1>3. CASE CallbackReturns
    <2>1. vectors' = vectors /\ Depth' \subseteq Depth
          /\ \A k \in Depth' : stack'[k] = stack[k]
      BY <1>3, Pops DEF CallbackReturns
    <2>2. QED
      BY <2>1 DEF Masked
  <1>4. CASE ReadControl
    <2> DEFINE f == [Top EXCEPT !.read = TRUE, !.control = regs[Top.id].control]
    <2>1. /\ TopBecomes(f) /\ f \in FrameRec /\ f.todo = Top.todo /\ f.id = Top.id
          /\ f.owner = Top.owner
      BY <1>4, <1>0, ReadStacked, TopIs DEF FrameRec
    <2>2. vectors' = vectors
      BY <1>4 DEF ReadControl
    <2> HIDE DEF f
    <2>3. \A id \in Timers : Works(f, id) => Works(stack[n], id)
      BY <1>0, <2>1 DEF Works
    <2>4. QED
      BY <1>0, <2>1, <2>2, <2>3, MaskedTop DEF Masked
  <1>5. CASE WriteControl \/ WriteReload \/ WriteBase \/ EnableVector \/ irqDeinit
    <2> DEFINE f == [Top EXCEPT !.todo = Tail(@), !.read = FALSE, !.control = {}]
               u == VectorOf(Top.id)
    <2>1. Top.todo # <<>> /\ Made /\ Next1 = Top.todo[1] /\ Top.id \in Timers
      BY <1>5, AccessMakes DEF Makes
    <2>2. TopBecomes(f) /\ f \in FrameRec /\ f.todo = Tail(Top.todo) /\ f.id = Top.id
          /\ f.owner = Top.owner
      BY <2>1, MadeIs
    <2> HIDE DEF f
    <2>3. u \in Vectors /\ vectors[u] \in Vector(AllEntries) /\ Entry(Top.id) \in AllEntries
      BY <2>1, Names DEF Typed, AllEntries
    <2>4. \A w \in Vectors : vectors'[w].enabled =>
            \/ vectors[w].enabled
            \/ w = u /\ EnableVector
      <3>1. CASE WriteControl \/ WriteReload \/ WriteBase
        BY <3>1 DEF WriteControl, WriteReload, WriteBase
      <3>2. CASE EnableVector
        BY <2>3, <3>2 DEF EnableVector, Typed
      <3>3. CASE irqDeinit
        <4> DEFINE d == vector_disable(vectors[u])
        <4>1. d \in Vector(AllEntries) /\ ~d.enabled
          BY <2>3, VectorFields
        <4> HIDE DEF d
        <4>2. ~entry_remove(d, Entry(Top.id)).enabled
          BY <2>3, <4>1, EntryFields
        <4>3. QED
          BY <2>3, <3>3, <4>2 DEF irqDeinit, Typed, d
      <3>4. QED
        BY <1>5, <3>1, <3>2, <3>3
    <2>5. Top.owner = 0 \/ Top.owner = Top.id
      BY <2>1, TopOwner
    <2>6. ASSUME NEW id \in Timers, NEW k \in Depth, k # n, Works(stack[k], id)
          PROVE  ~vectors'[VectorOf(id)].enabled
      <3>1. VectorOf(id) # u
        BY <2>1, <2>5, <2>6, UnderTop
      <3>2. ~vectors[VectorOf(id)].enabled /\ VectorOf(id) \in Vectors
        BY <2>6, Names DEF Masked
      <3>3. QED
        BY <2>4, <3>1, <3>2
    <2>7. ASSUME NEW id \in Timers, Works(f, id) PROVE ~vectors'[VectorOf(id)].enabled
      <3>1. id = Top.id /\ Tail(Top.todo) # <<>>
        BY <2>2, <2>7 DEF Works
      <3>2. ~EnableVector
        BY <3>1, EnableLastOne
      <3>3. Top.todo[1].access # "base"
        <4>1. SUFFICES ASSUME Top.todo[1].access = "base" PROVE FALSE
          OBVIOUS
        <4>2. SetsBase(Top.todo)
          BY <1>0, <2>1, <4>1, TailIs DEF SetsBase
        <4>3. Top.todo \in {BaseScalerAccesses(scale), <<SetBase("scaler", scale)>>}
          BY <1>0, <4>2 DEF Scaled
        <4>4. f.todo[1].access = "base"
          BY <1>0, <2>2, <3>1, <4>3, BaseAccesses
        <4>5. QED
          BY <2>7, <4>4 DEF Works
      <3>4. Works(stack[n], id)
        BY <1>0, <2>1, <3>1, <3>3 DEF Works
      <3>5. ~vectors[VectorOf(id)].enabled /\ VectorOf(id) \in Vectors
        BY <1>0, <3>4, Names DEF Masked
      <3>6. QED
        BY <2>4, <3>2, <3>5
    <2>8. QED
      BY <2>2, <2>6, <2>7, MaskedTop
  <1>6. ASSUME NEW id \in Timers, Timer_init(id) PROVE Masked'
    <2>1. \A k \in Depth : stack[k].todo = <<>>
      BY <1>6, CallerIs DEF Timer_init
    <2>2. stack' = stack /\ Depth' = Depth
      BY <1>6, InitIs DEF Depth
    <2>3. QED
      BY <2>1, <2>2 DEF Masked, Works
  <1>7. ASSUME NEW id \in Timers, NEW value \in Scalers,
               Timer_setBaseScalerReloadValue(id, value)
        PROVE  Masked'
    <2> DEFINE f == [Top EXCEPT !.id = id, !.todo = BaseScalerAccesses(value)]
    <2>1. value \in Nat /\ BaseScalerAccesses(value) \in Seq(Access)
          /\ vectors' = vectors /\ Starting(id, BaseScalerAccesses(value))
      BY <1>7, ScalersType, CallsAre DEF Timer_setBaseScalerReloadValue
    <2>2. Idle /\ (Top.owner = 0 \/ Top.owner = id)
      BY <1>7, CallerIs DEF Timer_setBaseScalerReloadValue
    <2>3. /\ TopBecomes(f) /\ f \in FrameRec /\ f.todo = BaseScalerAccesses(value)
          /\ f.owner = Top.owner
      BY <2>1, <2>2, StartingIs
    <2> HIDE DEF f
    <2>4. \A i \in Timers : ~Works(f, i)
      BY <2>1, <2>3, BaseAccesses DEF Works
    <2>5. QED
      BY <2>1, <2>3, <2>4, MaskedTop DEF Masked
  <1>8. ASSUME NEW id \in Timers, Begins(id) PROVE Masked'
    <2>1. PICK accesses \in Seq(Access) : Begin(id, accesses)
      BY <1>8, BeginAccesses
    <2> DEFINE f == [Top EXCEPT !.id = id, !.todo = accesses]
               u == VectorOf(id)
    <2>2. /\ TopBecomes(f) /\ f \in FrameRec /\ f.id = id /\ f.owner = Top.owner
      <3>1. Idle /\ (Top.owner = 0 \/ Top.owner = id)
        BY <1>8, BeginIs
      <3>2. Starting(id, accesses)
        BY <2>1 DEF Begin
      <3>3. QED
        BY <3>1, <3>2, StartingIs
    <2> HIDE DEF f
    <2>3. u \in Vectors /\ ~vector_disable(vectors[u]).enabled
      BY Names, VectorFields DEF Typed
    <2>4. vectors' = [vectors EXCEPT ![u] = vector_disable(@)]
      BY <1>8, BeginIs
    <2>5. ~vectors'[u].enabled
          /\ \A w \in Vectors : vectors'[w].enabled => vectors[w].enabled
      BY <2>3, <2>4 DEF Typed
    <2>6. \A i \in Timers, k \in Depth :
            Works(stack[k], i) => ~vectors'[VectorOf(i)].enabled
      BY <2>5, Names DEF Masked
    <2>7. \A i \in Timers : Works(f, i) => i = id
      BY <2>2 DEF Works
    <2>8. QED
      BY <2>2, <2>5, <2>6, <2>7, MaskedTop
  <1>9. CASE UNCHANGED vars
    BY <1>9 DEF vars, Masked, Depth
  <1>10. QED
    BY <1>1, <1>2, <1>3, <1>4, <1>5, <1>6, <1>7, <1>8, <1>9, Moves DEF Begins

-----------------------------------------------------------------------------
(* The course of a call.                                                   *)

\* Between l and m the timer was told nothing new, and between r and s its
\* registers did only what a clock cycle does to them.
Alike(l, r, m, s) ==
  /\ m.told = l.told /\ m.config = l.config
  /\ l.age = -1 => m.age = -1
  /\ s.reload = r.reload /\ s.control \ {"EN"} = r.control \ {"EN"}
  /\ "EN" \in s.control => "EN" \in r.control
  /\ "EN" \in r.control /\ "RS" \in r.control => "EN" \in s.control

\* Such a step keeps a call on its course.
LEMMA CourseKept ==
  ASSUME NEW l, NEW r, NEW m, NEW s, Alike(l, r, m, s)
  PROVE  /\ \A f : Course(l, r, f) => Course(m, s, f)
         /\ \A todo : Progress(l, r, todo) => Progress(m, s, todo)
  <1>1. ASSUME NEW todo, NEW i, AccessOK(l, todo, i) PROVE AccessOK(m, todo, i)
    BY <1>1, Zenon DEF Alike, AccessOK
  <1>2. ASSUME NEW todo, Progress(l, r, todo) PROVE Progress(m, s, todo)
    <2>1. \A flag \in {"IE", "RS", "CH"} : flag \in s.control <=> flag \in r.control
      BY DEF Alike
    <2>2. /\ m.told = l.told /\ m.config = l.config /\ s.reload = r.reload
          /\ "EN" \in s.control => "EN" \in r.control
          /\ "EN" \in r.control /\ "RS" \in r.control => "EN" \in s.control
      BY DEF Alike
    <2>3. m.config # <<>> =>
            LET c == m.config[1] IN
            /\ \A flag \in {"IE", "RS", "CH"} :
                 \/ flag \in s.control <=> flag \in c.flags
                 \/ ToDo(todo, SetFlag(flag, flag \in c.flags))
            /\ s.reload = c.reloadValue \/ ToDo(todo, SetReload(c.reloadValue))
      BY <1>2, <2>1, <2>2, Zenon DEF Progress
    <2>4. /\ m.told \in {"stop", "off"} =>
               "EN" \notin s.control \/ ToDo(todo, SetFlag("EN", FALSE))
          /\ m.told = "run" /\ "RS" \in s.control =>
               "EN" \in s.control \/ ToDo(todo, SetFlag("EN", TRUE))
      <3> DEFINE x == SetFlag("EN", FALSE)
                 y == SetFlag("EN", TRUE)
      <3>1. /\ l.told \in {"stop", "off"} => "EN" \notin r.control \/ ToDo(todo, x)
            /\ l.told = "run" /\ "RS" \in r.control => "EN" \in r.control \/ ToDo(todo, y)
        BY <1>2, Zenon DEF Progress
      <3> HIDE DEF x, y
      <3>2. /\ m.told \in {"stop", "off"} => "EN" \notin s.control \/ ToDo(todo, x)
            /\ m.told = "run" /\ "RS" \in s.control => "EN" \in s.control \/ ToDo(todo, y)
        BY <2>1, <2>2, <3>1
      <3>3. QED
        BY <3>2 DEF x, y
    <2>5. QED
      BY <2>3, <2>4, Zenon DEF Progress
  <1>3. ASSUME NEW f, ReadOK(l, r, f) PROVE ReadOK(m, s, f)
    <2>1. m.told = l.told /\ s.control \ {"EN"} = r.control \ {"EN"}
      BY DEF Alike
    <2>2. QED
      BY <1>3, <2>1, Zenon DEF ReadOK
  <1>4. QED
    BY <1>1, <1>2, <1>3, Zenon DEF Course

\* The step of what runs, for timer id, does not change the course of the calls
\* for others.
LEMMA CoursesTop ==
  ASSUME Stacked, Masked, Courses, NEW f \in FrameRec, TopBecomes(f),
         NEW id \in Timers, Top.owner = 0 \/ Top.owner = id,
         \A j \in Timers \ {id} : /\ Alike(log[j], regs[j], log'[j], regs'[j])
                                  /\ ~Works(Top, j) /\ ~Works(f, j),
         Works(f, id) => Course(log'[id], regs'[id], f),
         ~Works(f, id) => Progress(log'[id], regs'[id], <<>>)
  PROVE  Courses'
  <1> DEFINE n == Len(stack)
  <1>1. /\ Depth' = Depth /\ Top = stack[n] /\ n \in Depth
        /\ \A k \in Depth : stack'[k] = IF k = n THEN f ELSE stack[k]
    BY TopChanges, TopIs
  <1>2. SUFFICES ASSUME NEW j \in Timers
                 PROVE  /\ \A k \in Depth : Works(stack'[k], j) =>
                             Course(log'[j], regs'[j], stack'[k])
                        /\ (\A k \in Depth : ~Works(stack'[k], j)) =>
                             Progress(log'[j], regs'[j], <<>>)
    BY <1>1, Zenon DEF Courses
  <1>3. CASE j = id
    <2>1. ASSUME NEW k \in Depth, Works(stack'[k], id) PROVE k = n
      <3>1. SUFFICES ASSUME k # n PROVE FALSE
        OBVIOUS
      <3>2. Works(stack[k], id)
        BY <1>1, <2>1, <3>1
      <3>3. QED
        BY <3>1, <3>2, UnderTop
    <2>2. QED
      BY <1>1, <1>3, <2>1
  <1>4. CASE j # id
    <2>1. /\ \A g : Course(log[j], regs[j], g) => Course(log'[j], regs'[j], g)
          /\ \A todo : Progress(log[j], regs[j], todo) => Progress(log'[j], regs'[j], todo)
      BY <1>4, CourseKept
    <2>2. ~Works(stack[n], j) /\ ~Works(stack'[n], j)
      BY <1>1, <1>4
    <2>3. \A k \in Depth : k # n => stack'[k] = stack[k]
      BY <1>1
    <2>4. QED
      BY <2>1, <2>2, <2>3, Zenon DEF Courses
  <1>5. QED
    BY <1>3, <1>4

\* What the remaining accesses of a call are like when the first is made.
LEMMA TailAccess ==
  ASSUME NEW t \in Seq(Access), t # <<>>, NEW l, NEW m,
         m.told = l.told, m.config = l.config,
         \A i \in DOMAIN t : AccessOK(l, t, i)
  PROVE  \A i \in DOMAIN Tail(t) : AccessOK(m, Tail(t), i)
  <1> DEFINE u == Tail(t)
             n == Len(t)
  <1>1. /\ n \in Nat \ {0} /\ DOMAIN t = 1 .. n /\ DOMAIN u = 1 .. n - 1
        /\ Len(u) = n - 1 /\ \A i \in 1 .. n - 1 : u[i] = t[i + 1]
    BY TailIs
  <1> HIDE DEF u, n
  <1>2. SUFFICES ASSUME NEW i \in 1 .. n - 1 PROVE AccessOK(m, u, i)
    BY <1>1 DEF u
  <1>3. i + 1 \in 1 .. n /\ i + 1 # 1 /\ u[i] = t[i + 1] /\ AccessOK(l, t, i + 1)
    BY <1>1, <1>2
  <1> DEFINE a == u[i]
  <1>4. /\ a.access \in {"enable", "remove"} => i = Len(u)
        /\ a.access = "enable" => m.told # "stop"
    <2>1. /\ a.access \in {"enable", "remove"} => i + 1 = n
          /\ a.access = "enable" => m.told # "stop"
      BY <1>3, Zenon DEF AccessOK, n
    <2>2. QED
      BY <1>1, <1>2, <2>1
  <1>5. /\ a.access = "reload" => /\ m.told \in {"on", "off"} /\ m.config # <<>>
                                  /\ a.value = m.config[1].reloadValue
        /\ a.access = "flag" /\ a.flag \in {"IE", "RS", "CH"} =>
             /\ m.told \in {"on", "off"} /\ m.config # <<>>
             /\ a.isSet <=> a.flag \in m.config[1].flags
    BY <1>3, Zenon DEF AccessOK
  <1>6. a.access = "flag" /\ a.flag = "EN" => /\ a.isSet <=> m.told \in {"run", "on"}
                                              /\ m.told # "run" => i = 1
    BY <1>3, Zenon DEF AccessOK
  <1>7. ~(a.access = "flag" /\ a.flag = "LD")
    BY <1>3, Zenon DEF AccessOK
  <1>8. ASSUME a.access = "flag", m.told = "run"
        PROVE  \E j \in i .. Len(u) : u[j] = SetFlag("EN", TRUE)
    <2> DEFINE x == SetFlag("EN", TRUE)
    <2>1. PICK j \in i + 1 .. n : t[j] = x
      BY <1>3, <1>8, Zenon DEF AccessOK, n
    <2> HIDE DEF x
    <2>2. j - 1 \in 1 .. n - 1 /\ j - 1 \in i .. Len(u) /\ j - 1 + 1 = j
      BY <1>1, <1>2, <2>1
    <2>3. u[j - 1] = x
      BY <1>1, <2>1, <2>2
    <2>4. QED
      BY <2>2, <2>3 DEF x
  <1>9. QED
    BY <1>4, <1>5, <1>6, <1>7, <1>8, Zenon DEF AccessOK

\* An access is left to do until it is made.
LEMMA ToDoKept ==
  ASSUME NEW t \in Seq(Access), t # <<>>, NEW a, ToDo(t, a), t[1] # a
  PROVE  ToDo(Tail(t), a)
  <1>1. PICK i \in DOMAIN t : t[i] = a
    BY DEF ToDo
  <1>2. i - 1 \in DOMAIN Tail(t) /\ Tail(t)[i - 1] = t[i]
    BY <1>1, TailIs
  <1>3. QED
    BY <1>1, <1>2 DEF ToDo

\* The fields of an access to a flag.
LEMMA FlagFields ==
  ASSUME NEW flag, NEW isSet
  PROVE  /\ SetFlag(flag, isSet).access = "flag" /\ SetFlag(flag, isSet).flag = flag
         /\ SetFlag(flag, isSet).isSet = isSet
  BY DEF SetFlag

\* The course of a call goes on when one of its accesses is made.
LEMMA CoursesMade ==
  ASSUME Stacked, Scaled, Masked, Courses, scale \in Nat, Makes,
         Top.todo[1].access # "base",
         \A j \in Timers \ {Top.id} : log'[j] = log[j] /\ regs'[j] = regs[j],
         log'[Top.id].told = log[Top.id].told,
         log'[Top.id].config = log[Top.id].config,
         Course(log[Top.id], regs[Top.id], Top) =>
           Progress(log'[Top.id], regs'[Top.id], Tail(Top.todo))
  PROVE  Courses'
  <1> DEFINE n == Len(stack)
             id == Top.id
             f == [Top EXCEPT !.todo = Tail(@), !.read = FALSE, !.control = {}]
             u == Tail(Top.todo)
  <1>1. /\ Top.todo # <<>> /\ Made /\ Top = stack[n] /\ n \in Depth
        /\ Top.todo \in Seq(Access)
    BY TopIs DEF Makes
  <1>2. /\ TopBecomes(f) /\ f \in FrameRec /\ f.id = id /\ f.todo = u
        /\ f.read = FALSE
    BY <1>1, MadeIs
  <1>3. id \in Timers /\ (Top.owner = 0 \/ Top.owner = id)
    BY <1>1, TopOwner
  <1> HIDE DEF f
  <1>4. Works(Top, id)
    BY <1>1 DEF Works
  <1>5. Course(log[id], regs[id], Top)
    BY <1>1, <1>3, <1>4 DEF Courses
  <1>6. \A i \in DOMAIN u : AccessOK(log'[id], u, i)
    <2>1. \A i \in DOMAIN Top.todo : AccessOK(log[id], Top.todo, i)
      BY <1>5, Zenon DEF Course
    <2>2. QED
      BY <1>1, <2>1, TailAccess
  <1>7. Progress(log'[id], regs'[id], u)
    BY <1>5
  <1>8. Course(log'[id], regs'[id], f)
    <2>1. ReadOK(log'[id], regs'[id], f)
      BY <1>2, Zenon DEF ReadOK
    <2>2. QED
      BY <1>2, <1>6, <1>7, <2>1, Zenon DEF Course
  <1>9. u # <<>> => Works(f, id)
    <2>1. SUFFICES ASSUME u # <<>>, u[1].access = "base" PROVE FALSE
      BY <1>2 DEF Works
    <2>2. 1 \in DOMAIN u
      BY <1>1, <2>1, TailIs
    <2>3. SetsBase(u)
      BY <2>1, <2>2 DEF SetsBase
    <2>4. SetsBase(stack[n].todo)
      BY <1>1, <2>3, TailsBase
    <2>5. Top.todo \in {BaseScalerAccesses(scale), <<SetBase("scaler", scale)>>}
      BY <1>1, <2>4 DEF Scaled
    <2>6. QED
      BY <2>5, BaseAccesses
  <1>10. \A j \in Timers \ {id} : /\ Alike(log[j], regs[j], log'[j], regs'[j])
                                  /\ ~Works(Top, j) /\ ~Works(f, j)
    BY <1>2 DEF Alike, Works
  <1>11. Works(f, id) => Course(log'[id], regs'[id], f)
    BY <1>8
  <1>12. ~Works(f, id) => Progress(log'[id], regs'[id], <<>>)
    BY <1>7, <1>9
  <1> HIDE DEF id, u
  <1>13. QED
    BY <1>2, <1>3, <1>10, <1>11, <1>12, CoursesTop

\* Making an access keeps the rest to do, and does it.
LEMMA ProgressMade ==
  ASSUME Stacked, Typed, Makes, NEW m, NEW s,
         Course(log[Top.id], regs[Top.id], Top),
         m.told = log[Top.id].told, m.config = log[Top.id].config,
         Top.todo[1].access \in {"reload", "enable", "remove"},
         s.control = regs[Top.id].control,
         s.reload = IF Top.todo[1].access = "reload" THEN Top.todo[1].value
                    ELSE regs[Top.id].reload
  PROVE  Progress(m, s, Tail(Top.todo))
  <1> DEFINE l == log[Top.id]
             r == regs[Top.id]
             t == Top.todo
             a == t[1]
             c == l.config[1]
  <1>1. t \in Seq(Access) /\ t # <<>> /\ 1 \in DOMAIN t
    BY TopIs DEF Makes
  <1>2. AccessOK(l, t, 1) /\ Progress(l, r, t)
    BY <1>1, Zenon DEF Course
  <1>3. ASSUME NEW x, x.access = "flag", ToDo(t, x) PROVE ToDo(Tail(t), x)
    BY <1>1, <1>3, ToDoKept
  <1> DEFINE b(flag) == SetFlag(flag, flag \in c.flags)
  <1>4. \A flag : b(flag).access = "flag"
    BY DEF SetFlag
  <1>5. l.config # <<>> => \A flag \in {"IE", "RS", "CH"} :
          \/ flag \in r.control <=> flag \in c.flags
          \/ ToDo(t, b(flag))
    BY <1>2, Zenon DEF Progress
  <1>6. m.config # <<>> => \A flag \in {"IE", "RS", "CH"} :
          \/ flag \in s.control <=> flag \in c.flags
          \/ ToDo(Tail(t), b(flag))
    <2> HIDE DEF b, c, t
    <2>1. QED
      BY <1>3, <1>4, <1>5, Zenon
  <1>7. m.config # <<>> =>
          s.reload = c.reloadValue \/ ToDo(Tail(t), SetReload(c.reloadValue))
    <2> DEFINE x == SetReload(c.reloadValue)
    <2>1. l.config # <<>> => r.reload = c.reloadValue \/ ToDo(t, x)
      BY <1>2, Zenon DEF Progress
    <2>2. a.access = "reload" => a.value = c.reloadValue
      BY <1>2, Zenon DEF AccessOK
    <2>3. x.access = "reload"
      BY DEF SetReload
    <2> HIDE DEF x, c
    <2>4. CASE a.access = "reload"
      BY <2>2, <2>4
    <2>5. CASE a.access # "reload"
      <3>1. ToDo(t, x) => ToDo(Tail(t), x)
        BY <1>1, <2>3, <2>5, ToDoKept
      <3>2. QED
        BY <2>1, <2>5, <3>1 DEF x
    <2>6. QED
      BY <2>4, <2>5
  <1>8. /\ m.told \in {"stop", "off"} =>
             "EN" \notin s.control \/ ToDo(Tail(t), SetFlag("EN", FALSE))
        /\ m.told = "run" /\ "RS" \in s.control =>
             "EN" \in s.control \/ ToDo(Tail(t), SetFlag("EN", TRUE))
    <2> DEFINE x == SetFlag("EN", FALSE)
               y == SetFlag("EN", TRUE)
    <2>1. /\ l.told \in {"stop", "off"} => "EN" \notin r.control \/ ToDo(t, x)
          /\ l.told = "run" /\ "RS" \in r.control => "EN" \in r.control \/ ToDo(t, y)
      BY <1>2, Zenon DEF Progress
    <2>2. x.access = "flag" /\ y.access = "flag"
      BY DEF SetFlag
    <2> HIDE DEF x, y
    <2>3. QED
      BY <1>3, <2>1, <2>2 DEF x, y
  <1>9. QED
    BY <1>6, <1>7, <1>8, Zenon DEF Progress

\* The same of a flag: that is written with what was read before.
LEMMA ProgressWritten ==
  ASSUME Stacked, Typed, Makes, Top.read, NEW m, NEW s,
         Course(log[Top.id], regs[Top.id], Top),
         m.told = log[Top.id].told, m.config = log[Top.id].config,
         Top.todo[1].access = "flag", Next1 = Top.todo[1],
         s.control = Written \ {"LD"}, s.reload = regs[Top.id].reload
  PROVE  Progress(m, s, Tail(Top.todo))
  <1> DEFINE l == log[Top.id]
             r == regs[Top.id]
             t == Top.todo
             a == t[1]
             c == l.config[1]
  <1>1. t \in Seq(Access) /\ t # <<>> /\ 1 \in DOMAIN t
    BY TopIs DEF Makes
  <1>2. AccessOK(l, t, 1) /\ Progress(l, r, t) /\ ReadOK(l, r, Top)
    BY <1>1, Zenon DEF Course
  <1>3. /\ Written = IF a.isSet THEN Top.control \cup {a.flag} ELSE Top.control \ {a.flag}
        /\ a.isSet \in BOOLEAN
    <2>1. a.isSet \in BOOLEAN
      BY <1>1, TailIs, AccessKinds
    <2>2. QED
      BY <2>1 DEF Written, Timer_setFlag
  <1>4. ASSUME NEW x, x.access = "flag", x.flag # a.flag, ToDo(t, x)
        PROVE  ToDo(Tail(t), x)
    BY <1>1, <1>4, ToDoKept
  <1>5. Top.control \ {"EN"} = r.control \ {"EN"}
    BY <1>2, Zenon DEF ReadOK
  <1> DEFINE b(flag) == SetFlag(flag, flag \in c.flags)
  <1>6. ASSUME m.config # <<>>, NEW flag \in {"IE", "RS", "CH"},
               ~(flag \in s.control <=> flag \in c.flags)
        PROVE  ToDo(Tail(t), b(flag))
    <2>1. (flag \in r.control <=> flag \in c.flags) \/ ToDo(t, b(flag))
      BY <1>2, <1>6, Zenon DEF Progress
    <2>2. a.flag # flag
      <3>1. a.flag = flag => (a.isSet <=> flag \in c.flags)
        BY <1>2, <1>6, Zenon DEF AccessOK
      <3>2. a.flag = flag => (flag \in s.control <=> a.isSet)
        BY <1>3, <1>6
      <3>3. QED
        BY <1>6, <3>1, <3>2
    <2>3. flag \in s.control <=> flag \in r.control
      BY <1>3, <1>5, <1>6, <2>2
    <2>4. b(flag).access = "flag" /\ b(flag).flag = flag
      BY DEF SetFlag
    <2> HIDE DEF b, c, l, r, t
    <2>5. ToDo(t, b(flag))
      BY <1>6, <2>1, <2>3
    <2>6. QED
      BY <1>4, <2>2, <2>4, <2>5
  <1>7. m.config # <<>> =>
          s.reload = c.reloadValue \/ ToDo(Tail(t), SetReload(c.reloadValue))
    <2> DEFINE x == SetReload(c.reloadValue)
    <2>1. l.config # <<>> => r.reload = c.reloadValue \/ ToDo(t, x)
      BY <1>2, Zenon DEF Progress
    <2>2. x.access = "reload"
      BY DEF SetReload
    <2> HIDE DEF x, c
    <2>3. ToDo(t, x) => ToDo(Tail(t), x)
      BY <1>1, <2>2, ToDoKept
    <2>4. QED
      BY <2>1, <2>3 DEF x
  <1>8. ASSUME m.told \in {"stop", "off"}, "EN" \in s.control
        PROVE  ToDo(Tail(t), SetFlag("EN", FALSE))
    <2>1. a.flag # "EN"
      <3>1. a.flag = "EN" => ~a.isSet
        BY <1>2, <1>8, Zenon DEF AccessOK
      <3>2. QED
        BY <1>3, <1>8, <3>1
    <2>2. "EN" \in Top.control
      BY <1>3, <1>8, <2>1
    <2>3. a = SetFlag("EN", FALSE)
      BY <1>2, <1>8, <2>2, Zenon DEF ReadOK
    <2>4. SetFlag("EN", FALSE).flag = "EN"
      BY FlagFields
    <2>5. QED
      BY <2>1, <2>3, <2>4, Zenon
  <1>9. ASSUME m.told = "run", "EN" \notin s.control
        PROVE  ToDo(Tail(t), SetFlag("EN", TRUE))
    <2> DEFINE x == SetFlag("EN", TRUE)
    <2>1. \E j \in 1 .. Len(t) : t[j] = x
      BY <1>2, <1>9, Zenon DEF AccessOK
    <2>2. x.flag = "EN" /\ x.isSet = TRUE
      BY FlagFields
    <2> HIDE DEF x
    <2>3. ToDo(t, x)
      BY <1>1, <2>1, TailIs DEF ToDo
    <2>4. a # x
      BY <1>3, <1>9, <2>2
    <2>5. QED
      BY <1>1, <2>3, <2>4, ToDoKept DEF x
  <1>10. QED
    BY <1>6, <1>7, <1>8, <1>9, Zenon DEF Progress

\* A control register is read.
LEMMA ReadCourse ==
  ASSUME NEW l, NEW r, NEW f, NEW g, Course(l, r, f),
         f.todo \in Seq(Access), f.todo # <<>>,
         g.todo = f.todo, g.control = r.control
  PROVE  Course(l, r, g)
  <1> DEFINE x == SetFlag("EN", FALSE)
  <1>1. /\ \A i \in DOMAIN f.todo : AccessOK(l, f.todo, i)
        /\ Progress(l, r, f.todo)
    BY Zenon DEF Course
  <1>2. ASSUME l.told \in {"stop", "off"}, "EN" \in r.control PROVE f.todo[1] = x
    <2>1. ToDo(f.todo, x)
      BY <1>1, <1>2, Zenon DEF Progress
    <2>2. x.access = "flag" /\ x.flag = "EN"
      BY DEF SetFlag
    <2> HIDE DEF x
    <2>3. PICK i \in DOMAIN f.todo : f.todo[i] = x
      BY <2>1 DEF ToDo
    <2>4. i = 1
      <3>1. AccessOK(l, f.todo, i) /\ l.told # "run"
        BY <1>1, <1>2, <2>3
      <3>2. QED
        BY <2>2, <2>3, <3>1, Zenon DEF AccessOK
    <2>5. QED
      BY <2>3, <2>4
  <1>3. ReadOK(l, r, g)
    BY <1>2, Zenon DEF ReadOK
  <1>4. QED
    BY <1>1, <1>3, Zenon DEF Course

\* The calls for a timer begin on course.
LEMMA StartCourse ==
  ASSUME NEW l, NEW m, NEW r, NEW f, Progress(l, r, <<>>), m.config = l.config,
         m.told = "run", m.age = -1, f.todo = StartAccesses, f.read = FALSE
  PROVE  Course(m, r, f)
  <1> DEFINE ld == SetFlag("LD", TRUE)
             en == SetFlag("EN", TRUE)
             t == <<ld, en, Enable>>
  <1>1. /\ ld.access = "flag" /\ ld.flag = "LD" /\ ld.isSet
        /\ en.access = "flag" /\ en.flag = "EN" /\ en.isSet
        /\ Enable.access = "enable"
    BY DEF SetFlag, Enable
  <1>2. f.todo = t
    BY DEF StartAccesses
  <1> DEFINE rest == Enable
  <1> HIDE DEF ld, rest
  <1>3. \E i \in DOMAIN <<ld, en, rest>> : <<ld, en, rest>>[i] = en
    <2> HIDE DEF en
    <2>1. QED
      OBVIOUS
  <1>4. ToDo(t, SetFlag("EN", TRUE))
    BY <1>3, Zenon DEF ToDo, rest
  <1>5. Progress(m, r, t)
    <2>1. \A a : ~ToDo(<<>>, a)
      BY DEF ToDo
    <2>2. m.config # <<>> =>
            LET c == m.config[1] IN
            /\ \A flag \in {"IE", "RS", "CH"} : flag \in r.control <=> flag \in c.flags
            /\ r.reload = c.reloadValue
      BY <2>1, Zenon DEF Progress
    <2>3. m.told \notin {"stop", "off"}
      OBVIOUS
    <2>4. QED
      BY <1>4, <2>2, <2>3, Zenon DEF Progress
  <1>6. \A i \in DOMAIN t : AccessOK(m, t, i)
    <2> DEFINE u == <<ld, en, rest>>
    <2>1. /\ DOMAIN u = {1, 2, 3} /\ Len(u) = 3
          /\ u[1] = ld /\ u[2] = en /\ u[3] = rest
      <3> HIDE DEF en
      <3>1. QED
        OBVIOUS
    <2>2. \A i \in {1, 2} : \E j \in i .. Len(u) : u[j] = SetFlag("EN", TRUE)
      <3>1. 2 \in 1 .. Len(u) /\ 2 \in 2 .. Len(u) /\ u[2] = en
        BY <2>1
      <3>2. QED
        BY <3>1
    <2> HIDE DEF u, en
    <2>3. AccessOK(m, u, 1)
      BY <1>1, <2>1, <2>2, Zenon DEF AccessOK, rest
    <2>4. AccessOK(m, u, 2)
      BY <1>1, <2>1, <2>2, Zenon DEF AccessOK, rest
    <2>5. AccessOK(m, u, 3)
      BY <1>1, <2>1, <2>2, Zenon DEF AccessOK, rest
    <2>6. \A i \in DOMAIN u : AccessOK(m, u, i)
      BY <2>1, <2>3, <2>4, <2>5, Zenon
    <2>7. QED
      BY <2>6 DEF u, rest, en
  <1>7. ReadOK(m, r, f)
    BY Zenon DEF ReadOK
  <1>8. QED
    BY <1>2, <1>5, <1>6, <1>7, Zenon DEF Course

\* A call of Timer_stop or Timer_shutdown begins on course.
LEMMA StopCourse ==
  ASSUME NEW l, NEW m, NEW r, NEW f, Progress(l, r, <<>>), m.config = l.config,
         m.told = "stop",
         f.todo \in {<<SetFlag("EN", FALSE)>>, <<SetFlag("EN", FALSE), Remove>>},
         f.read = FALSE
  PROVE  Course(m, r, f)
  <1> DEFINE en == SetFlag("EN", FALSE)
             t == f.todo
  <1>1. /\ en.access = "flag" /\ en.flag = "EN" /\ ~en.isSet
        /\ Remove.access = "remove"
    BY DEF SetFlag, Remove
  <1> HIDE DEF en
  <1>2. \/ DOMAIN t = {1} /\ Len(t) = 1 /\ t[1] = en
        \/ DOMAIN t = {1, 2} /\ Len(t) = 2 /\ t[1] = en /\ t[2] = Remove
    <2>1. t = <<en>> \/ t = <<en, Remove>>
      BY DEF en
    <2> HIDE DEF t
    <2>2. QED
      BY <2>1
  <1> HIDE DEF t
  <1>3. ToDo(t, en)
    BY <1>2 DEF ToDo
  <1>4. Progress(m, r, t)
    <2>1. \A a : ~ToDo(<<>>, a)
      BY DEF ToDo
    <2>2. m.config # <<>> =>
            LET c == m.config[1] IN
            /\ \A flag \in {"IE", "RS", "CH"} : flag \in r.control <=> flag \in c.flags
            /\ r.reload = c.reloadValue
      BY <2>1, Zenon DEF Progress
    <2>3. m.told # "run"
      OBVIOUS
    <2>4. QED
      BY <1>3, <2>2, <2>3, Zenon DEF Progress, en
  <1>5. AccessOK(m, t, 1)
    BY <1>1, <1>2, Zenon DEF AccessOK
  <1>6. 2 \in DOMAIN t => AccessOK(m, t, 2)
    <2>1. 2 \in DOMAIN t => t[2] = Remove /\ Len(t) = 2
      BY <1>2
    <2>2. QED
      BY <1>1, <2>1, Zenon DEF AccessOK
  <1>7. \A i \in DOMAIN t : AccessOK(m, t, i)
    BY <1>2, <1>5, <1>6
  <1>8. ReadOK(m, r, f)
    BY Zenon DEF ReadOK
  <1>9. QED
    BY <1>4, <1>7, <1>8, Zenon DEF Course, t

\* A call of Timer_setConfigRegisters begins on course.
LEMMA ConfigCourse ==
  ASSUME NEW config \in Configs, NEW m, NEW r, NEW f, m.config = <<config>>,
         m.told = IF "EN" \in config.flags THEN "on" ELSE "off",
         f.todo = ConfigAccesses(config), f.read = FALSE
  PROVE  Course(m, r, f)
  <1> DEFINE b(flag) == SetFlag(flag, flag \in config.flags)
             en == b("EN")
             ie == b("IE")
             rs == b("RS")
             ch == b("CH")
             re == SetReload(config.reloadValue)
             last == Enable
             t == <<en, ie, rs, ch, re, last>>
  <1>1. /\ \A flag : b(flag).access = "flag" /\ b(flag).flag = flag
                     /\ (b(flag).isSet <=> flag \in config.flags)
        /\ re.access = "reload" /\ re.value = config.reloadValue
        /\ last.access = "enable"
    BY DEF SetFlag, SetReload, Enable
  <1>2. f.todo = t
    BY DEF ConfigAccesses
  <1>3. m.config # <<>> /\ m.config[1] = config
    OBVIOUS
  <1>4. ASSUME "EN" \notin config.flags PROVE en = SetFlag("EN", FALSE)
    <2>1. ("EN" \in config.flags) = FALSE
      BY <1>4
    <2>2. QED
      BY <2>1, Zenon
  <1>5. /\ en.access = "flag" /\ en.flag = "EN" /\ (en.isSet <=> "EN" \in config.flags)
        /\ ie.access = "flag" /\ ie.flag = "IE" /\ (ie.isSet <=> "IE" \in config.flags)
        /\ rs.access = "flag" /\ rs.flag = "RS" /\ (rs.isSet <=> "RS" \in config.flags)
        /\ ch.access = "flag" /\ ch.flag = "CH" /\ (ch.isSet <=> "CH" \in config.flags)
    BY <1>1
  <1> HIDE DEF en, ie, rs, ch, re, last
  <1>6. /\ DOMAIN t = 1 .. 6 /\ Len(t) = 6
        /\ t[1] = en /\ t[2] = ie /\ t[3] = rs /\ t[4] = ch /\ t[5] = re /\ t[6] = last
    OBVIOUS
  <1> HIDE DEF t
  <1>7. ToDo(t, en) /\ ToDo(t, ie) /\ ToDo(t, rs) /\ ToDo(t, ch) /\ ToDo(t, re)
    BY <1>6 DEF ToDo
  <1>8. m.told \in {"on", "off"} /\ m.told # "run" /\ m.told # "stop"
        /\ (m.told \in {"run", "on"} <=> "EN" \in config.flags)
        /\ (m.told \in {"stop", "off"} => "EN" \notin config.flags)
    OBVIOUS
  <1>9. Progress(m, r, t)
    <2>1. \A flag \in {"IE", "RS", "CH"} : ToDo(t, b(flag))
      <3> HIDE DEF b
      <3>1. ToDo(t, b("IE")) /\ ToDo(t, b("RS")) /\ ToDo(t, b("CH"))
        BY <1>7, Zenon DEF ie, rs, ch
      <3>2. QED
        BY <3>1
    <2>2. ToDo(t, SetReload(config.reloadValue))
      BY <1>7 DEF re
    <2>3. "EN" \notin config.flags => ToDo(t, SetFlag("EN", FALSE))
      BY <1>4, <1>7, Zenon
    <2>4. QED
      BY <1>3, <1>8, <2>1, <2>2, <2>3, Zenon DEF Progress
  <1>10. \A i \in DOMAIN t : AccessOK(m, t, i)
    <2>1. AccessOK(m, t, 1)
      BY <1>3, <1>5, <1>6, <1>8, Zenon DEF AccessOK
    <2>2. AccessOK(m, t, 2)
      BY <1>3, <1>5, <1>6, <1>8, Zenon DEF AccessOK
    <2>3. AccessOK(m, t, 3)
      BY <1>3, <1>5, <1>6, <1>8, Zenon DEF AccessOK
    <2>4. AccessOK(m, t, 4)
      BY <1>3, <1>5, <1>6, <1>8, Zenon DEF AccessOK
    <2>5. AccessOK(m, t, 5)
      BY <1>1, <1>3, <1>6, <1>8, Zenon DEF AccessOK
    <2>6. AccessOK(m, t, 6)
      BY <1>1, <1>3, <1>6, <1>8, Zenon DEF AccessOK
    <2>7. \A i \in 1 .. 6 : i = 1 \/ i = 2 \/ i = 3 \/ i = 4 \/ i = 5 \/ i = 6
      OBVIOUS
    <2>8. QED
      BY <1>6, <2>1, <2>2, <2>3, <2>4, <2>5, <2>6, <2>7, Zenon
  <1>11. ReadOK(m, r, f)
    BY Zenon DEF ReadOK
  <1>12. QED
    BY <1>2, <1>9, <1>10, <1>11, Zenon DEF Course

\* Every step keeps the calls on their courses.
LEMMA NextCourses ==
  Stacked /\ Typed /\ Entries /\ Scaled /\ Masked /\ Courses /\ [Next]_vars => Courses'
  <1> SUFFICES ASSUME Stacked, Typed, Entries, Scaled, Masked, Courses, [Next]_vars
               PROVE  Courses'
    OBVIOUS
  <1> DEFINE n == Len(stack)
  <1>0. Top = stack[n] /\ n \in Depth /\ Top.todo \in Seq(Access) /\ scale \in Nat
    BY TopIs DEF Typed
  <1>1. CASE Cycle
    <2>1. stack' = stack /\ Depth' = Depth
      BY <1>1 DEF Cycle, Depth
    <2>2. \A j \in Timers : Alike(log[j], regs[j], log'[j], regs'[j])
      BY <1>1, CycleIs DEF Alike
    <2>3. \A j \in Timers :
            /\ \A f : Course(log[j], regs[j], f) => Course(log'[j], regs'[j], f)
            /\ \A todo : Progress(log[j], regs[j], todo)
                           => Progress(log'[j], regs'[j], todo)
      BY <2>2, CourseKept
    <2>4. QED
      BY <2>1, <2>3, Zenon DEF Courses
  <1>2. ASSUME NEW v \in Vectors, Timer_handleIrq(v) PROVE Courses'
    <2>1. PICK id \in Timers :
            /\ log' = [log EXCEPT ![id].owed = FALSE,
                                  ![id].unexplained = @ \/ ~log[id].owed]
            /\ stack' = Append(stack, Frame(v, id)) /\ Frame(v, id) \in FrameRec
      BY <1>2, IrqIs
    <2> DEFINE f == Frame(v, id)
    <2>2. f.todo = <<>>
      BY DEF Frame
    <2> HIDE DEF f
    <2>3. /\ Depth' = Depth \cup {n + 1} /\ \A k \in Depth : stack'[k] = stack[k]
          /\ stack'[n + 1] = f
      BY <2>1, Pushes DEF f
    <2>4. \A j : ~Works(stack'[n + 1], j)
      BY <2>2, <2>3 DEF Works
    <2>5. \A j \in Timers : /\ log'[j].told = log[j].told
                            /\ log'[j].config = log[j].config
                            /\ log'[j].age = log[j].age
      BY <2>1 DEF Typed, Log
    <2>6. regs' = regs
      BY <1>2 DEF Timer_handleIrq
    <2>7. \A j \in Timers : Alike(log[j], regs[j], log'[j], regs'[j])
      BY <2>5, <2>6 DEF Alike
    <2>8. \A j \in Timers :
            /\ \A g : Course(log[j], regs[j], g) => Course(log'[j], regs'[j], g)
            /\ \A todo : Progress(log[j], regs[j], todo)
                           => Progress(log'[j], regs'[j], todo)
      BY <2>7, CourseKept
    <2>9. QED
      BY <2>3, <2>4, <2>8, Zenon DEF Courses
  <1>3. CASE CallbackReturns
    <2>1. /\ Depth = Depth' \cup {n} /\ \A k \in Depth' : stack'[k] = stack[k]
          /\ stack[n].todo = <<>>
      BY <1>3, Pops
    <2>2. \A j : ~Works(stack[n], j)
      BY <2>1 DEF Works
    <2>3. regs' = regs /\ log' = log
      BY <1>3 DEF CallbackReturns
    <2>4. QED
      BY <2>1, <2>2, <2>3, Zenon DEF Courses
  <1>4. CASE ReadControl
    <2> DEFINE f == [Top EXCEPT !.read = TRUE, !.control = regs[Top.id].control]
               id == Top.id
    <2>1. /\ TopBecomes(f) /\ f \in FrameRec /\ f.todo = Top.todo /\ f.id = id
          /\ f.control = regs[id].control
      BY <1>4, ReadStacked
    <2>2. regs' = regs /\ log' = log /\ Top.todo # <<>> /\ Next1.access = "flag"
      BY <1>4 DEF ReadControl, NextAccess, Idle
    <2>3. Next1 = Top.todo[1]
      BY <1>0, <2>2, TailIs DEF Next1
    <2> HIDE DEF f
    <2>4. id \in Timers /\ (Top.owner = 0 \/ Top.owner = id)
      BY <2>2, TopOwner
    <2>5. Works(Top, id) /\ Works(f, id)
      BY <2>1, <2>2, <2>3 DEF Works
    <2>6. Course(log[id], regs[id], Top)
      BY <1>0, <2>4, <2>5 DEF Courses
    <2>7. Course(log'[id], regs'[id], f)
      <3> HIDE DEF id
      <3>1. Course(log[id], regs[id], f)
        BY <1>0, <2>1, <2>2, <2>6, ReadCourse
      <3>2. QED
        BY <2>2, <3>1
    <2>8. \A j \in Timers \ {id} : /\ Alike(log[j], regs[j], log'[j], regs'[j])
                                   /\ ~Works(Top, j) /\ ~Works(f, j)
      BY <2>1, <2>2 DEF Alike, Works
    <2> HIDE DEF id
    <2>9. QED
      BY <2>1, <2>4, <2>5, <2>7, <2>8, CoursesTop
  <1>5. CASE WriteControl \/ WriteReload \/ EnableVector \/ irqDeinit
    <2> DEFINE id == Top.id
    <2>1. /\ Makes /\ Next1 = Top.todo[1] /\ id \in Timers
      BY <1>5, AccessMakes
    <2>2. Next1.access # "base"
      BY <1>5 DEF WriteControl, WriteReload, EnableVector, irqDeinit, NextAccess
    <2>3. CASE WriteControl
      <3>1. /\ \A j \in Timers \ {id} : regs'[j] = regs[j] /\ log'[j] = log[j]
            /\ log'[id].told = log[id].told /\ log'[id].config = log[id].config
            /\ regs'[id].control = Written \ {"LD"}
            /\ regs'[id].reload = regs[id].reload
        BY <2>3, WriteIs
      <3>2. Top.read /\ Next1.access = "flag"
        BY <2>3 DEF WriteControl, NextAccess
      <3>3. Course(log[id], regs[id], Top) =>
              Progress(log'[id], regs'[id], Tail(Top.todo))
        BY <2>1, <3>1, <3>2, ProgressWritten
      <3>4. QED
        BY <1>0, <2>1, <2>2, <3>1, <3>3, CoursesMade
    <2>4. CASE WriteReload
      <3>1. /\ Next1.access = "reload" /\ log' = log
            /\ regs' = [regs EXCEPT ![id].reload = Next1.value]
        BY <2>4 DEF WriteReload, NextAccess
      <3>2. /\ \A j \in Timers \ {id} : regs'[j] = regs[j]
            /\ regs'[id].control = regs[id].control /\ regs'[id].reload = Next1.value
        BY <2>1, <3>1 DEF Typed, Reg
      <3>3. Course(log[id], regs[id], Top) =>
              Progress(log'[id], regs'[id], Tail(Top.todo))
        BY <2>1, <3>1, <3>2, ProgressMade
      <3>4. QED
        BY <1>0, <2>1, <2>2, <3>1, <3>2, <3>3, CoursesMade
    <2>5. CASE EnableVector \/ irqDeinit
      <3>1. Next1.access \in {"enable", "remove"} /\ log' = log /\ regs' = regs
        BY <2>5 DEF EnableVector, irqDeinit, NextAccess
      <3>2. Course(log[id], regs[id], Top) =>
              Progress(log'[id], regs'[id], Tail(Top.todo))
        BY <2>1, <3>1, ProgressMade
      <3>3. QED
        BY <1>0, <2>1, <2>2, <3>1, <3>2, CoursesMade
    <2>6. QED
      BY <1>5, <2>3, <2>4, <2>5
  <1>6. CASE WriteBase
    <2> DEFINE f == [Top EXCEPT !.todo = Tail(@), !.read = FALSE, !.control = {}]
               id == Top.id
    <2>1. Top.todo # <<>> /\ Made /\ Next1 = Top.todo[1] /\ id \in Timers
      BY <1>6, AccessMakes DEF Makes
    <2>2. Next1.access = "base" /\ regs' = regs /\ log' = log
      BY <1>6 DEF WriteBase, NextAccess
    <2>3. TopBecomes(f) /\ f \in FrameRec /\ f.todo = Tail(Top.todo)
      BY <2>1, MadeIs
    <2>4. Top.owner = 0 \/ Top.owner = id
      BY <2>1, TopOwner
    <2> HIDE DEF f
    <2>5. SetsBase(Top.todo)
      BY <1>0, <2>1, <2>2, TailIs DEF SetsBase
    <2>6. Top.todo \in {BaseScalerAccesses(scale), <<SetBase("scaler", scale)>>}
      BY <1>0, <2>5 DEF Scaled
    <2>7. f.todo = <<>> \/ f.todo[1].access = "base"
      BY <1>0, <2>3, <2>6, BaseAccesses
    <2>8. \A j : ~Works(Top, j) /\ ~Works(f, j)
      BY <2>1, <2>2, <2>7 DEF Works
    <2>9. \A j \in Timers : Alike(log[j], regs[j], log'[j], regs'[j])
      BY <2>2 DEF Alike
    <2>10. Progress(log'[id], regs'[id], <<>>)
      <3>1. \A k \in Depth : ~Works(stack[k], id)
        BY <2>1, <2>4, <2>8, NoneWorks
      <3>2. QED
        BY <2>1, <2>2, <3>1, Zenon DEF Courses
    <2> HIDE DEF id
    <2>11. QED
      BY <2>1, <2>3, <2>4, <2>8, <2>9, <2>10, CoursesTop
  <1>7. ASSUME NEW id \in Timers, Timer_init(id) PROVE Courses'
    <2>1. \A k \in Depth : stack[k].todo = <<>>
      BY <1>7, CallerIs DEF Timer_init
    <2>2. /\ stack' = stack /\ Depth' = Depth
          /\ \A j \in Timers \ {id} : regs'[j] = regs[j] /\ log'[j] = log[j]
          /\ regs'[id] = ClearRegs /\ log'[id] = [NewLog EXCEPT !.ready = TRUE]
      BY <1>7, InitIs DEF Depth
    <2>3. \A k \in Depth, j \in Timers : ~Works(stack[k], j)
      BY <2>1 DEF Works
    <2>4. Progress(log'[id], regs'[id], <<>>)
      <3>1. /\ log'[id].config = <<>> /\ log'[id].told = "off"
            /\ regs'[id].control = {}
        BY <2>2 DEF NewLog, ClearRegs
      <3>2. QED
        BY <3>1, Zenon DEF Progress
    <2>5. \A j \in Timers \ {id} : Progress(log'[j], regs'[j], <<>>)
      BY <2>2, <2>3, Zenon DEF Courses
    <2>6. QED
      BY <2>2, <2>3, <2>4, <2>5, Zenon DEF Courses
  <1>8. ASSUME NEW id \in Timers, NEW value \in Scalers,
               Timer_setBaseScalerReloadValue(id, value)
        PROVE  Courses'
    <2> DEFINE f == [Top EXCEPT !.id = id, !.todo = BaseScalerAccesses(value)]
    <2>1. value \in Nat /\ BaseScalerAccesses(value) \in Seq(Access)
          /\ regs' = regs /\ Starting(id, BaseScalerAccesses(value))
          /\ log' = [t \in Timers |-> [log[t] EXCEPT !.age = -1]]
      BY <1>8, ScalersType, CallsAre DEF Timer_setBaseScalerReloadValue
    <2>2. Idle /\ (Top.owner = 0 \/ Top.owner = id)
      BY <1>8, CallerIs DEF Timer_setBaseScalerReloadValue
    <2>3. TopBecomes(f) /\ f \in FrameRec /\ f.todo = BaseScalerAccesses(value)
      BY <2>1, <2>2, StartingIs
    <2> HIDE DEF f
    <2>4. \A j \in Timers : ~Works(f, j) /\ ~Works(Top, j)
      BY <2>1, <2>2, <2>3, BaseAccesses DEF Works, Idle
    <2>5. \A j \in Timers : Alike(log[j], regs[j], log'[j], regs'[j])
      BY <2>1 DEF Alike, Typed, Log
    <2>6. Progress(log'[id], regs'[id], <<>>)
      <3>1. \A k \in Depth : ~Works(stack[k], id)
        BY <2>2, <2>4, NoneWorks
      <3>2. Progress(log[id], regs[id], <<>>)
        BY <3>1, Zenon DEF Courses
      <3>3. QED
        BY <2>5, <3>2, CourseKept
    <2>7. QED
      BY <2>2, <2>3, <2>4, <2>5, <2>6, CoursesTop
  <1>9. ASSUME NEW id \in Timers, Begins(id) PROVE Courses'
    <2>1. PICK accesses \in Seq(Access) :
            /\ Begin(id, accesses)
            /\ \/ Timer_start(id) /\ accesses = StartAccesses
               \/ \E config \in Configs : /\ Timer_setConfigRegisters(id, config)
                                          /\ accesses = ConfigAccesses(config)
               \/ Timer_stop(id) /\ accesses = <<SetFlag("EN", FALSE)>>
               \/ Timer_shutdown(id) /\ accesses = <<SetFlag("EN", FALSE), Remove>>
      BY <1>9, BeginAccesses
    <2> DEFINE f == [Top EXCEPT !.id = id, !.todo = accesses]
    <2>2. Idle /\ (Top.owner = 0 \/ Top.owner = id) /\ regs' = regs
      BY <1>9, BeginIs
    <2>3. TopBecomes(f) /\ f \in FrameRec /\ f.todo = accesses /\ f.id = id
          /\ f.read = FALSE
      <3>1. Starting(id, accesses)
        BY <2>1 DEF Begin
      <3>2. QED
        BY <2>2, <3>1, StartingIs
    <2> HIDE DEF f
    <2>4. \A j : ~Works(Top, j)
      BY <2>2 DEF Works, Idle
    <2>5. Progress(log[id], regs[id], <<>>)
      <3>1. \A k \in Depth : ~Works(stack[k], id)
        BY <2>2, <2>4, NoneWorks
      <3>2. QED
        BY <3>1, Zenon DEF Courses
    <2>6. Course(log'[id], regs'[id], f)
      <3>1. CASE Timer_start(id) /\ accesses = StartAccesses
        <4>1. /\ log'[id].config = log[id].config /\ log'[id].told = "run"
              /\ log'[id].age = -1
          BY <3>1 DEF Timer_start, Typed, Log
        <4>2. QED
          BY <2>2, <2>3, <2>5, <3>1, <4>1, StartCourse
      <3>2. ASSUME NEW config \in Configs, Timer_setConfigRegisters(id, config),
                   accesses = ConfigAccesses(config)
            PROVE  Course(log'[id], regs'[id], f)
        <4>1. /\ log'[id].config = <<config>>
              /\ log'[id].told = IF "EN" \in config.flags THEN "on" ELSE "off"
          BY <3>2 DEF Timer_setConfigRegisters, Typed, Log
        <4>2. QED
          BY <2>3, <3>2, <4>1, ConfigCourse
      <3>3. CASE \/ Timer_stop(id) /\ accesses = <<SetFlag("EN", FALSE)>>
                 \/ Timer_shutdown(id) /\ accesses = <<SetFlag("EN", FALSE), Remove>>
        <4>1. log'[id].config = log[id].config /\ log'[id].told = "stop"
          <5>1. CASE Timer_stop(id)
            BY <5>1 DEF Timer_stop, Typed, Log
          <5>2. CASE Timer_shutdown(id)
            BY <5>2 DEF Timer_shutdown, Typed, Log
          <5>3. QED
            BY <3>3, <5>1, <5>2
        <4>2. f.todo \in {<<SetFlag("EN", FALSE)>>, <<SetFlag("EN", FALSE), Remove>>}
          BY <2>3, <3>3
        <4>3. QED
          BY <2>2, <2>3, <2>5, <4>1, <4>2, StopCourse
      <3>4. QED
        BY <2>1, <3>1, <3>2, <3>3
    <2>7. Works(f, id)
      <3>1. accesses # <<>> /\ accesses[1].access # "base"
        BY <2>1, FlagsFirst
      <3>2. QED
        BY <2>3, <3>1 DEF Works
    <2>8. \A j \in Timers \ {id} : /\ Alike(log[j], regs[j], log'[j], regs'[j])
                                   /\ ~Works(Top, j) /\ ~Works(f, j)
      <3>1. \A j \in Timers \ {id} : log'[j] = log[j]
        BY <1>9, BeginLogs
      <3>2. QED
        BY <2>2, <2>3, <2>4, <3>1 DEF Alike, Works
    <2>9. QED
      BY <2>2, <2>3, <2>6, <2>7, <2>8, CoursesTop
  <1>10. CASE UNCHANGED vars
    <2>1. stack' = stack /\ log' = log /\ regs' = regs /\ Depth' = Depth
      BY <1>10 DEF vars, Depth
    <2>2. QED
      BY <2>1, Zenon DEF Courses
  <1>11. QED
    BY <1>1, <1>2, <1>3, <1>4, <1>5, <1>6, <1>7, <1>8, <1>9, <1>10, Moves DEF Begins

-----------------------------------------------------------------------------
(* What a timer did.                                                       *)

\* The timer that a call works on is on its course.
LEMMA TopCourse ==
  ASSUME Stacked, Courses, Top.todo # <<>>, Top.todo[1].access # "base"
  PROVE  /\ Top.id \in Timers /\ 1 \in DOMAIN Top.todo
         /\ AccessOK(log[Top.id], Top.todo, 1)
         /\ ReadOK(log[Top.id], regs[Top.id], Top)
  <1>1. Top = stack[Len(stack)] /\ Len(stack) \in Depth /\ Top.todo \in Seq(Access)
    BY TopIs
  <1>2. Top.id \in Timers /\ Works(Top, Top.id)
    BY TopOwner DEF Works
  <1>3. Course(log[Top.id], regs[Top.id], Top)
    BY <1>1, <1>2 DEF Courses
  <1>4. 1 \in DOMAIN Top.todo
    BY <1>1
  <1>5. QED
    BY <1>2, <1>3, <1>4, Zenon DEF Course

\* A timer that was told to stop, or configured off, is not enabled by a write.
LEMMA WrittenOff ==
  ASSUME Stacked, Courses, WriteControl, log[Top.id].told \in {"stop", "off"}
  PROVE  "EN" \notin Written
  <1> DEFINE a == Top.todo[1]
             l == log[Top.id]
  <1>1. Top.todo # <<>> /\ Next1 = a /\ a \in Access /\ a.access = "flag" /\ Top.read
    BY AccessMakes DEF WriteControl, NextAccess, Makes
  <1>2. AccessOK(l, Top.todo, 1) /\ ReadOK(l, regs[Top.id], Top)
    BY <1>1, TopCourse
  <1>3. Written = IF a.isSet THEN Top.control \cup {a.flag} ELSE Top.control \ {a.flag}
    BY <1>1 DEF Written, Timer_setFlag
  <1>4. a.flag = "EN" => ~a.isSet
    BY <1>1, <1>2, Zenon DEF AccessOK
  <1>5. "EN" \in Top.control => a.flag = "EN"
    <2>1. "EN" \in Top.control => a = SetFlag("EN", FALSE)
      BY <1>1, <1>2, Zenon DEF ReadOK
    <2>2. SetFlag("EN", FALSE).flag = "EN"
      BY FlagFields
    <2>3. QED
      BY <2>1, <2>2
  <1>6. QED
    BY <1>3, <1>4, <1>5

\* Every step keeps what a counter at its greatest value says of its timer.
LEMMA NextFinished ==
  Stacked /\ Typed /\ Entries /\ Courses /\ Finished /\ [Next]_vars => Finished'
  <1> SUFFICES ASSUME Stacked, Typed, Entries, Courses, Finished, [Next]_vars
               PROVE  Finished'
    OBVIOUS
  <1>0. TIMER_UNDERFLOWED = Word - 1 /\ Word \in Nat /\ Word > 1
    BY TimerAssumption DEF TIMER_UNDERFLOWED
  <1> DEFINE Same(j) == /\ regs'[j].control = regs[j].control
                        /\ regs'[j].counter = regs[j].counter
                        /\ log'[j].counted = log[j].counted
                        /\ log'[j].full = log[j].full
                        /\ log'[j].expired = log[j].expired
             Done(j) == /\ regs[j].counter = TIMER_UNDERFLOWED =>
                             log[j].counted \/ log[j].full
                        /\ log[j].expired => /\ "EN" \notin regs[j].control
                                             /\ regs[j].counter = TIMER_UNDERFLOWED
  <1>s. ASSUME NEW j \in Timers, Same(j) PROVE Done(j)'
    BY <1>s DEF Finished, TIMER_UNDERFLOWED
  <1>f. (\A j \in Timers : Done(j)') => Finished'
    BY DEF Finished
  <1>1. CASE Cycle
    <2> SUFFICES ASSUME NEW id \in Timers PROVE Done(id)'
      BY <1>f
    <2> DEFINE r == regs[id]
               s == regs'[id]
               l == log[id]
               m == log'[id]
    <2>1. /\ \/ ~Counts[id] /\ s = r /\ m = Aged(l, r)
             \/ /\ Counts[id] /\ r.counter # 0
                /\ s = [r EXCEPT !.counter = @ - 1] /\ m = Aged(l, r)
             \/ Underflows(id) /\ s = Underflown(r) /\ m = Noted(l, r)
          /\ m.full = l.full
      BY <1>1, CycleIs
    <2>2. r \in Reg /\ l \in Log /\ r.counter \in 0 .. Word - 1
      BY DEF Typed, Reg
    <2>3. Counts[id] => "EN" \in r.control
      BY CountsIs
    <2>4. Done(id)
      BY DEF Finished
    <2>5. CASE ~Counts[id] /\ s = r /\ m = Aged(l, r)
      <3>1. m.counted = l.counted /\ m.expired = l.expired
        BY <2>2, <2>5, NotedIs
      <3>2. QED
        BY <1>s, <2>1, <2>5, <3>1
    <2>6. CASE /\ Counts[id] /\ r.counter # 0
               /\ s = [r EXCEPT !.counter = @ - 1] /\ m = Aged(l, r)
      <3>1. m.expired = l.expired
        BY <2>2, <2>6, NotedIs
      <3>2. ~m.expired
        BY <2>3, <2>4, <2>6, <3>1
      <3>3. s.counter # Word - 1
        BY <1>0, <2>2, <2>6 DEF Reg
      <3>4. QED
        BY <1>0, <3>2, <3>3 DEF TIMER_UNDERFLOWED
    <2>7. CASE Underflows(id) /\ s = Underflown(r) /\ m = Noted(l, r)
      <3>1. "EN" \in r.control /\ ~l.expired
        BY <2>3, <2>4, <2>7 DEF Underflows
      <3>2. m.counted /\ m.expired = (l.expired \/ "RS" \notin r.control)
        BY <2>2, <2>7, NotedIs
      <3>3. "RS" \notin r.control =>
              "EN" \notin s.control /\ s.counter = TIMER_UNDERFLOWED
        BY <2>2, <2>7, UnderflownIs
      <3>4. QED
        BY <3>1, <3>2, <3>3 DEF TIMER_UNDERFLOWED
    <2>8. QED
      BY <2>1, <2>5, <2>6, <2>7
  <1>2. ASSUME NEW v \in Vectors, Timer_handleIrq(v) PROVE Finished'
    <2>1. PICK id \in Timers :
            log' = [log EXCEPT ![id].owed = FALSE,
                               ![id].unexplained = @ \/ ~log[id].owed]
      BY <1>2, IrqIs
    <2>2. \A j \in Timers : Same(j)
      BY <1>2, <2>1 DEF Timer_handleIrq, Typed, Log
    <2>3. QED
      BY <1>s, <1>f, <2>2
  <1>3. CASE regs' = regs /\ log' = log
    BY <1>3, <1>s, <1>f
  <1>4. CASE WriteControl
    <2>0. PICK id \in Timers : id = Top.id
      BY <1>4, AccessMakes
    <2>1. /\ \A j \in Timers \ {id} : regs'[j] = regs[j] /\ log'[j] = log[j]
          /\ regs'[id].control = Written \ {"LD"}
          /\ regs'[id].counter = IF Loads THEN regs[id].reload ELSE regs[id].counter
          /\ log'[id].counted = (log[id].counted /\ ~Loads)
          /\ log'[id].full = IF Loads THEN regs[id].reload = TIMER_UNDERFLOWED
                             ELSE log[id].full
          /\ log'[id].expired = /\ log[id].expired /\ ~Loads
                                /\ ~("EN" \in Written /\ log[id].told \in {"run", "on"})
      BY <1>4, <2>0, WriteIs
    <2>2. \A j \in Timers \ {id} : Done(j)'
      BY <1>s, <2>1
    <2>3. Done(id)
      BY DEF Finished
    <2>4. log'[id].expired => "EN" \notin Written
      <3>1. log[id].told \in {"run", "stop", "on", "off"}
        BY DEF Typed, Log
      <3>2. log[id].told \in {"stop", "off"} => "EN" \notin Written
        BY <1>4, <2>0, WrittenOff
      <3>3. QED
        BY <2>1, <3>1, <3>2
    <2>5. ASSUME Loads PROVE Done(id)'
      <3>1. /\ regs'[id].counter = regs[id].reload
            /\ log'[id].full = (regs[id].reload = TIMER_UNDERFLOWED)
            /\ ~log'[id].expired
        BY <2>1, <2>5
      <3>2. QED
        BY <3>1 DEF TIMER_UNDERFLOWED
    <2>6. ASSUME ~Loads PROVE Done(id)'
      <3>1. /\ regs'[id].counter = regs[id].counter
            /\ log'[id].full = log[id].full
            /\ log'[id].expired => log[id].expired /\ "EN" \notin Written
        BY <2>1, <2>4, <2>6
      <3>2. log[id].counted => log'[id].counted
        BY <2>1, <2>6
      <3>3. regs'[id].control = Written \ {"LD"}
        BY <2>1
      <3>4. QED
        BY <2>3, <3>1, <3>2, <3>3 DEF TIMER_UNDERFLOWED
    <2>7. QED
      BY <1>f, <2>2, <2>5, <2>6
  <1>5. CASE WriteReload
    <2>1. Top.id \in Timers
      BY <1>5, AccessMakes
    <2>2. \A j \in Timers : Same(j)
      BY <1>5, <2>1 DEF WriteReload, Typed, Reg
    <2>3. QED
      BY <1>s, <1>f, <2>2
  <1>6. ASSUME NEW id \in Timers, Timer_init(id) PROVE Finished'
    <2>1. /\ regs'[id] = ClearRegs /\ log'[id] = [NewLog EXCEPT !.ready = TRUE]
          /\ \A j \in Timers \ {id} : regs'[j] = regs[j] /\ log'[j] = log[j]
      BY <1>6, InitIs
    <2>2. \A j \in Timers \ {id} : Done(j)'
      BY <1>s, <2>1
    <2>3. Done(id)'
      <3>1. regs'[id].counter = 0 /\ ~log'[id].expired
        BY <2>1 DEF ClearRegs, NewLog
      <3>2. QED
        BY <1>0, <3>1 DEF TIMER_UNDERFLOWED
    <2>4. QED
      BY <1>f, <2>2, <2>3
  <1>7. ASSUME NEW id \in Timers, NEW value \in Scalers,
               Timer_setBaseScalerReloadValue(id, value)
        PROVE  Finished'
    <2>1. \A j \in Timers : Same(j)
      BY <1>7 DEF Timer_setBaseScalerReloadValue, Typed, Log
    <2>2. QED
      BY <1>s, <1>f, <2>1
  <1>8. ASSUME NEW id \in Timers, Begins(id) PROVE Finished'
    <2>1. \A j \in Timers : Same(j)
      BY <1>8, BeginIs, BeginLogs
    <2>2. QED
      BY <1>s, <1>f, <2>1
  <1>9. QED
    BY <1>1, <1>2, <1>3, <1>4, <1>5, <1>6, <1>7, <1>8, Moves
       DEF Begins, CallbackReturns, ReadControl, WriteBase, EnableVector, irqDeinit, vars

-----------------------------------------------------------------------------
(* The time a timer tells.                                                 *)

\* The arithmetic of a round of the prescaler.
LEMMA Products ==
  ASSUME NEW c \in Nat, NEW d \in Nat
  PROVE  /\ c * d \in Nat
         /\ c # 0 => (c - 1) * d + d = c * d
  OBVIOUS

\* The prescaler is being set by a call that has still to access it.
LEMMA RescalingIs ==
  Rescaling <=> \E k \in DOMAIN stack : SetsBase(stack[k].todo)
  BY DEF Rescaling, SetsBase

\* No step but the call that sets the prescaler begins to set it.
LEMMA RescalingTop ==
  ASSUME Stacked, NEW f \in FrameRec, TopBecomes(f),
         SetsBase(f.todo) => SetsBase(Top.todo)
  PROVE  Rescaling' => Rescaling
  <1> DEFINE n == Len(stack)
  <1>1. /\ Depth' = Depth /\ Top = stack[n] /\ n \in Depth
        /\ \A k \in Depth : stack'[k] = IF k = n THEN f ELSE stack[k]
        /\ stack \in Seq(FrameRec) /\ stack' \in Seq(FrameRec)
    BY TopChanges, TopIs DEF Stacked
  <1>2. DOMAIN stack = Depth /\ DOMAIN stack' = Depth
    BY <1>1 DEF Depth
  <1>3. ASSUME Rescaling' PROVE Rescaling
    <2>1. PICK k \in Depth : SetsBase(stack'[k].todo)
      BY <1>2, <1>3 DEF Rescaling, SetsBase
    <2>2. SetsBase(stack[k].todo)
      BY <1>1, <2>1
    <2>3. QED
      BY <1>2, <2>2, RescalingIs
  <1>4. QED
    BY <1>3

\* Only the call that sets the prescaler begins to set it.
LEMMA NextRescaling ==
  ASSUME Stacked, Typed, Entries, [Next]_vars,
         \A id \in Timers, value \in Scalers : ~Timer_setBaseScalerReloadValue(id, value)
  PROVE  Rescaling' => Rescaling
  <1>0. Top.todo \in Seq(Access) /\ ~SetsBase(<<>>)
    BY TopIs DEF SetsBase
  <1>1. CASE stack' = stack
    BY <1>1 DEF Rescaling
  <1>2. ASSUME NEW v \in Vectors, Timer_handleIrq(v) PROVE Rescaling' => Rescaling
    <2>1. PICK id \in Timers :
            stack' = Append(stack, Frame(v, id)) /\ Frame(v, id) \in FrameRec
      BY <1>2, IrqIs
    <2>2. /\ Depth' = Depth \cup {Len(stack) + 1}
          /\ \A k \in Depth : stack'[k] = stack[k]
          /\ stack'[Len(stack) + 1].todo = <<>>
          /\ stack' \in Seq(FrameRec) /\ stack \in Seq(FrameRec)
      <3>1. Frame(v, id).todo = <<>>
        BY DEF Frame
      <3>2. QED
        BY <2>1, <3>1, Pushes DEF Stacked
    <2>3. DOMAIN stack = Depth /\ DOMAIN stack' = Depth'
      BY <2>2 DEF Depth
    <2>4. ASSUME Rescaling' PROVE Rescaling
      <3>1. PICK k \in Depth' : SetsBase(stack'[k].todo)
        BY <2>3, <2>4 DEF Rescaling, SetsBase
      <3>2. k \in Depth /\ SetsBase(stack[k].todo)
        BY <1>0, <2>2, <3>1
      <3>3. QED
        BY <2>3, <3>2, RescalingIs
    <2>5. QED
      BY <2>4
  <1>3. CASE CallbackReturns
    <2>1. /\ Depth' \subseteq Depth /\ \A k \in Depth' : stack'[k] = stack[k]
          /\ stack' \in Seq(FrameRec) /\ stack \in Seq(FrameRec)
      BY <1>3, Pops DEF Stacked
    <2>2. DOMAIN stack = Depth /\ DOMAIN stack' = Depth'
      BY <2>1 DEF Depth
    <2>3. QED
      BY <2>1, <2>2 DEF Rescaling
  <1>4. CASE ReadControl
    <2> DEFINE f == [Top EXCEPT !.read = TRUE, !.control = regs[Top.id].control]
    <2>1. TopBecomes(f) /\ f \in FrameRec /\ f.todo = Top.todo
      BY <1>4, ReadStacked
    <2> HIDE DEF f
    <2>2. QED
      BY <2>1, RescalingTop
  <1>5. CASE WriteControl \/ WriteReload \/ WriteBase \/ EnableVector \/ irqDeinit
    <2> DEFINE f == [Top EXCEPT !.todo = Tail(@), !.read = FALSE, !.control = {}]
    <2>1. Top.todo # <<>> /\ Made
      BY <1>5, AccessMakes DEF Makes
    <2>2. TopBecomes(f) /\ f \in FrameRec /\ f.todo = Tail(Top.todo)
      BY <2>1, MadeIs
    <2> HIDE DEF f
    <2>3. QED
      BY <1>0, <2>1, <2>2, TailsBase, RescalingTop
  <1>6. ASSUME NEW id \in Timers, Begins(id) PROVE Rescaling' => Rescaling
    <2>1. PICK accesses \in Seq(Access) : Begin(id, accesses) /\ ~SetsBase(accesses)
      BY <1>6, BeginAccesses
    <2> DEFINE f == [Top EXCEPT !.id = id, !.todo = accesses]
    <2>2. TopBecomes(f) /\ f \in FrameRec /\ f.todo = accesses
      <3>1. Idle /\ (Top.owner = 0 \/ Top.owner = id)
        BY <1>6, BeginIs
      <3>2. Starting(id, accesses)
        BY <2>1 DEF Begin
      <3>3. QED
        BY <3>1, <3>2, StartingIs
    <2> HIDE DEF f
    <2>3. QED
      BY <2>1, <2>2, RescalingTop
  <1>7. QED
    BY <1>1, <1>2, <1>3, <1>4, <1>5, <1>6, Moves DEF Begins, Cycle, Timer_init, vars

\* A timer is being timed only if what is done to it is done by the clock, or
\* sets EN again.
LEMMA TimedWrite ==
  ASSUME Stacked, Typed, Courses, Timed, WriteControl, log[Top.id].age >= 0
  PROVE  "EN" \in Written /\ "CH" \notin Written /\ ~Loads
  <1> DEFINE a == Top.todo[1]
             l == log[Top.id]
             r == regs[Top.id]
  <1>1. Top.todo # <<>> /\ Next1 = a /\ a \in Access /\ a.access = "flag" /\ Top.read
        /\ Top.id \in Timers /\ Top \in FrameRec
    BY AccessMakes, TopIs DEF WriteControl, NextAccess, Makes
  <1>2. AccessOK(l, Top.todo, 1) /\ ReadOK(l, r, Top)
    BY <1>1, TopCourse
  <1>3. l.told = "run" /\ "CH" \notin r.control
    BY <1>1 DEF Timed, TimedFor
  <1>4. Written = IF a.isSet THEN Top.control \cup {a.flag} ELSE Top.control \ {a.flag}
    BY <1>1 DEF Written, Timer_setFlag
  <1>5. a.flag \notin {"IE", "RS", "CH"}
    BY <1>1, <1>2, <1>3, Zenon DEF AccessOK
  <1>6. a.flag # "LD"
    <2>1. a.flag = "LD" => l.age = -1
      BY <1>1, <1>2, Zenon DEF AccessOK
    <2>2. QED
      BY <2>1
  <1>7. a.flag = "EN"
    BY <1>1, <1>5, <1>6, AccessKinds DEF Flag
  <1>8. a.isSet
    BY <1>1, <1>2, <1>3, <1>7, Zenon DEF AccessOK
  <1>9. Top.control \ {"EN"} = r.control \ {"EN"}
    BY <1>1, <1>2, Zenon DEF ReadOK
  <1>10. "LD" \notin Top.control
    BY <1>1 DEF FrameRec, Flag
  <1>11. QED
    BY <1>3, <1>4, <1>7, <1>8, <1>9, <1>10 DEF Loads

\* Every step keeps the time: a cycle adds one to the age and takes one from what
\* is left, and no access comes between while a timer is being timed.
LEMMA NextTimed ==
  Stacked /\ Typed /\ Entries /\ Scaled /\ Courses /\ Timed /\ [Next]_vars => Timed'
  <1> SUFFICES ASSUME Stacked, Typed, Entries, Scaled, Courses, Timed, [Next]_vars
               PROVE  Timed'
    OBVIOUS
  <1>f. (\A j \in Timers : TimedFor(j)') => Timed'
    BY DEF Timed
  <1>n. scale \in Nat
    BY DEF Typed
  <1>k. ASSUME NEW j \in Timers, Rescaling' => Rescaling,
               base'.scaler = base.scaler, scale' = scale,
               log'[j].age = log[j].age, log'[j].told = log[j].told,
               regs'[j].control = regs[j].control, regs'[j].counter = regs[j].counter,
               regs'[j].reload = regs[j].reload
        PROVE  TimedFor(j)'
    <2>1. TimedFor(j)
      BY DEF Timed
    <2>2. QED
      BY <1>k, <2>1 DEF TimedFor, InTime
  <1>x. ASSUME NEW j \in Timers, ~(log'[j].age >= 0) PROVE TimedFor(j)'
    BY <1>x DEF TimedFor
  <1>b. ~Rescaling => base.reload = scale /\ base.scaler \in 0 .. scale
    <2>1. DOMAIN stack = Depth
      BY DEF Stacked, Depth
    <2>2. ~Rescaling => \A k \in Depth : ~SetsBase(stack[k].todo)
      BY <2>1, RescalingIs
    <2>3. QED
      BY <1>n, <2>2 DEF Scaled, Typed, Base
  <1>1. CASE Cycle
    <2> SUFFICES ASSUME NEW id \in Timers, log'[id].age >= 0 PROVE TimedFor(id)'
      BY <1>f, <1>x
    <2> DEFINE r == regs[id]
               s == regs'[id]
               l == log[id]
               m == log'[id]
    <2>1. /\ \/ ~Counts[id] /\ s = r /\ m = Aged(l, r)
             \/ /\ Counts[id] /\ r.counter # 0
                /\ s = [r EXCEPT !.counter = @ - 1] /\ m = Aged(l, r)
             \/ Underflows(id) /\ s = Underflown(r) /\ m = Noted(l, r)
          /\ m.told = l.told
      BY <1>1, CycleIs
    <2>2. r \in Reg /\ l \in Log /\ r.counter \in Nat /\ r.reload \in Nat /\ l.age \in Int
      BY TimerAssumption DEF Typed, Reg, Log
    <2>3. /\ Noted(l, r).age = IF l.age >= 0 /\ "RS" \in r.control THEN 0 ELSE -1
          /\ Aged(l, r).age = IF l.age >= 0 /\ "EN" \in r.control THEN l.age + 1
                              ELSE l.age
      BY <2>2, NotedIs
    <2>4. l.age >= 0
      <3>1. CASE m = Noted(l, r)
        BY <2>3, <3>1
      <3>2. CASE m = Aged(l, r)
        BY <2>2, <2>3, <3>2
      <3>3. QED
        BY <2>1, <3>1, <3>2
    <2>5. /\ l.told = "run" /\ "EN" \in r.control /\ "CH" \notin r.control
          /\ ~Rescaling /\ InTime(l.age, r)
      BY <2>4 DEF Timed, TimedFor
    <2>6. stack' = stack /\ scale' = scale /\ base'.reload = base.reload
          /\ base'.scaler = IF base.scaler = 0 THEN base.reload ELSE base.scaler - 1
      BY <1>1, CycleVectors DEF Cycle
    <2>7. ~Rescaling' /\ base.reload = scale /\ base.scaler \in 0 .. scale
      BY <1>b, <2>5, <2>6 DEF Rescaling
    <2>8. Counts[id] <=> base.scaler = 0
      BY <2>5, CountsIs
    <2> DEFINE round == scale + 1
    <2>9. l.age + r.counter * round + base.scaler
            \in r.reload * round .. r.reload * round + scale
      BY <2>5 DEF InTime
    <2>10. round \in Nat /\ r.counter * round \in Nat /\ r.reload * round \in Nat
      BY <1>n, <2>2, Products
    <2>11. ASSUME s.control = r.control, s.reload = r.reload,
                  m.age + s.counter * round + base'.scaler
                    \in r.reload * round .. r.reload * round + scale
           PROVE  TimedFor(id)'
      BY <2>1, <2>5, <2>6, <2>7, <2>11 DEF TimedFor, InTime
    <2>12. CASE base.scaler # 0
      <3>1. s = r /\ m = Aged(l, r)
        BY <2>1, <2>8, <2>12 DEF Underflows
      <3>2. m.age = l.age + 1
        BY <2>3, <2>4, <2>5, <3>1
      <3>3. base'.scaler = base.scaler - 1
        BY <2>6, <2>12
      <3> DEFINE p == r.counter * round
                 q == r.reload * round
      <3>4. s.counter * round = p
        BY <3>1
      <3> HIDE DEF p, q, round
      <3>5. m.age + p + base'.scaler \in q .. q + scale
        BY <1>n, <2>2, <2>7, <2>9, <2>10, <3>2, <3>3 DEF p, q
      <3>6. QED
        BY <2>11, <3>1, <3>4, <3>5 DEF q
    <2>13. CASE base.scaler = 0 /\ r.counter # 0
      <3>1. s = [r EXCEPT !.counter = @ - 1] /\ m = Aged(l, r)
        BY <2>1, <2>8, <2>13 DEF Underflows
      <3>2. m.age = l.age + 1
        BY <2>3, <2>4, <2>5, <3>1
      <3>3. base'.scaler = scale
        BY <2>6, <2>7, <2>13
      <3>4. s.counter = r.counter - 1 /\ s.control = r.control /\ s.reload = r.reload
        BY <2>2, <3>1 DEF Reg
      <3> DEFINE p == r.counter * round
                 q == r.reload * round
                 o == (r.counter - 1) * round
      <3>5. o + round = p /\ s.counter * round = o
        BY <2>2, <2>10, <2>13, <3>4, Products
      <3>6. p \in Nat /\ q \in Nat /\ o \in Int
        BY <1>n, <2>2, <2>10
      <3>7. l.age + p \in q .. q + scale
        BY <2>2, <2>9, <2>10, <2>13
      <3> HIDE DEF p, q, o
      <3>8. m.age + o + base'.scaler = l.age + p
        BY <1>n, <2>2, <3>2, <3>3, <3>5, <3>6
      <3>9. m.age + s.counter * round + base'.scaler \in q .. q + scale
        BY <3>5, <3>7, <3>8
      <3>10. QED
        BY <2>11, <3>4, <3>9 DEF q
    <2>14. CASE base.scaler = 0 /\ r.counter = 0
      <3>1. s = Underflown(r) /\ m = Noted(l, r)
        BY <2>1, <2>8, <2>14 DEF Underflows
      <3>2. m.age = 0 /\ "RS" \in r.control
        BY <2>3, <3>1
      <3>3. s.control = r.control /\ s.reload = r.reload /\ s.counter = r.reload
        BY <2>2, <3>1, <3>2, UnderflownIs
      <3>4. base'.scaler = scale
        BY <2>6, <2>7, <2>14
      <3> DEFINE q == r.reload * round
      <3>5. s.counter * round = q /\ q \in Nat
        BY <2>10, <3>3
      <3> HIDE DEF q, round
      <3>6. m.age + s.counter * round + base'.scaler \in q .. q + scale
        BY <1>n, <3>2, <3>4, <3>5
      <3>7. QED
        BY <2>11, <3>3, <3>6 DEF q, round
    <2>15. QED
      BY <2>12, <2>13, <2>14
  <1>2. ASSUME NEW id \in Timers, NEW value \in Scalers,
               Timer_setBaseScalerReloadValue(id, value)
        PROVE  Timed'
    <2>1. log' = [t \in Timers |-> [log[t] EXCEPT !.age = -1]]
      BY <1>2 DEF Timer_setBaseScalerReloadValue
    <2>2. \A j \in Timers : log'[j].age = -1
      BY <2>1 DEF Typed, Log
    <2>3. QED
      BY <1>f, <1>x, <2>2
  <1> SUFFICES ASSUME \A id \in Timers, value \in Scalers :
                        ~Timer_setBaseScalerReloadValue(id, value)
               PROVE  Timed'
    BY <1>2
  <1>r. Rescaling' => Rescaling
    BY NextRescaling
  <1>3. ASSUME NEW v \in Vectors, Timer_handleIrq(v) PROVE Timed'
    <2>1. PICK id \in Timers :
            log' = [log EXCEPT ![id].owed = FALSE,
                               ![id].unexplained = @ \/ ~log[id].owed]
      BY <1>3, IrqIs
    <2>2. \A j \in Timers : log'[j].age = log[j].age /\ log'[j].told = log[j].told
      BY <2>1 DEF Typed, Log
    <2>3. regs' = regs /\ base' = base /\ scale' = scale
      BY <1>3 DEF Timer_handleIrq
    <2>4. QED
      BY <1>f, <1>k, <1>r, <2>2, <2>3
  <1>4. CASE regs' = regs /\ log' = log /\ base' = base /\ scale' = scale
    BY <1>4, <1>f, <1>k, <1>r
  <1>5. CASE WriteControl
    <2>0. PICK id \in Timers : id = Top.id
      BY <1>5, AccessMakes
    <2>1. /\ \A j \in Timers \ {id} : regs'[j] = regs[j] /\ log'[j] = log[j]
          /\ regs'[id].control = Written \ {"LD"}
          /\ regs'[id].reload = regs[id].reload
          /\ regs'[id].counter = IF Loads THEN regs[id].reload ELSE regs[id].counter
          /\ log'[id].told = log[id].told
          /\ log'[id].age = IF Starts THEN 0 ELSE log[id].age
      BY <1>5, <2>0, WriteIs
    <2>2. base' = base /\ scale' = scale
      BY <1>5 DEF WriteControl
    <2>3. \A j \in Timers \ {id} : TimedFor(j)'
      BY <1>k, <1>r, <2>1, <2>2
    <2>4. CASE Starts
      <3>1. /\ log[id].told = "run" /\ ~Rescaling
            /\ "EN" \in Written /\ "CH" \notin Written
            /\ Loads \/ regs[id].counter = regs[id].reload
        BY <2>0, <2>4 DEF Starts
      <3>2. regs'[id].counter = regs[id].reload
        BY <2>1, <3>1
      <3> DEFINE q == regs[id].reload * (scale + 1)
      <3>3. regs[id].reload \in Nat
        BY TimerAssumption DEF Typed, Reg
      <3>4. q \in Nat /\ base.scaler \in 0 .. scale
        BY <1>b, <1>n, <3>1, <3>3, Products
      <3> HIDE DEF q
      <3>5. 0 + q + base.scaler \in q .. q + scale
        BY <1>n, <3>4
      <3>6. InTime(log[id].age, regs[id])'
        BY <2>1, <2>2, <2>4, <3>2, <3>5 DEF InTime, q
      <3>7. TimedFor(id)'
        BY <1>r, <2>1, <3>1, <3>6 DEF TimedFor
      <3>8. QED
        BY <1>f, <2>3, <3>7
    <2>5. CASE ~Starts /\ log[id].age >= 0
      <3>1. "EN" \in Written /\ "CH" \notin Written /\ ~Loads
        BY <1>5, <2>0, <2>5, TimedWrite
      <3>2. TimedFor(id)
        BY DEF Timed
      <3>3. TimedFor(id)'
        BY <1>r, <2>1, <2>2, <2>5, <3>1, <3>2 DEF TimedFor, InTime
      <3>4. QED
        BY <1>f, <2>3, <3>3
    <2>6. CASE ~Starts /\ ~(log[id].age >= 0)
      BY <1>f, <1>x, <2>1, <2>3, <2>6
    <2>7. QED
      BY <2>4, <2>5, <2>6
  <1>6. CASE WriteReload
    <2>0. PICK id \in Timers : id = Top.id
      BY <1>6, AccessMakes
    <2>1. /\ Next1.access = "reload" /\ log' = log /\ base' = base /\ scale' = scale
          /\ regs' = [regs EXCEPT ![id].reload = Next1.value]
      BY <1>6, <2>0 DEF WriteReload, NextAccess
    <2>2. log[id].told \in {"on", "off"}
      <3>1. Top.todo # <<>> /\ Top.todo[1].access = "reload"
        BY <1>6, <2>1, AccessMakes DEF Makes
      <3>2. AccessOK(log[id], Top.todo, 1)
        BY <2>0, <3>1, TopCourse
      <3>3. QED
        BY <3>1, <3>2, Zenon DEF AccessOK
    <2>3. ~(log'[id].age >= 0)
      BY <2>1, <2>2 DEF Timed, TimedFor
    <2>4. \A j \in Timers \ {id} : regs'[j] = regs[j]
      BY <2>1 DEF Typed
    <2>5. \A j \in Timers \ {id} : TimedFor(j)'
      BY <1>k, <1>r, <2>1, <2>4
    <2>6. QED
      BY <1>f, <1>x, <2>3, <2>5
  <1>7. CASE WriteBase
    <2>1. /\ Top.todo # <<>> /\ Top.todo[1].access = "base" /\ log' = log
          /\ Top = stack[Len(stack)] /\ Len(stack) \in Depth /\ Top.todo \in Seq(Access)
      BY <1>7, AccessMakes, TopIs DEF WriteBase, NextAccess, Makes
    <2>2. SetsBase(Top.todo) /\ DOMAIN stack = Depth
      BY <2>1, TailIs DEF SetsBase, Stacked, Depth
    <2>3. Rescaling
      BY <2>1, <2>2, RescalingIs
    <2>4. \A j \in Timers : ~(log'[j].age >= 0)
      BY <2>1, <2>3 DEF Timed, TimedFor
    <2>5. QED
      BY <1>f, <1>x, <2>4
  <1>8. ASSUME NEW id \in Timers, Timer_init(id) PROVE Timed'
    <2>1. /\ log'[id] = [NewLog EXCEPT !.ready = TRUE]
          /\ \A j \in Timers \ {id} : regs'[j] = regs[j] /\ log'[j] = log[j]
          /\ base'.scaler = base.scaler /\ scale' = scale
      BY <1>8, InitIs
    <2>2. log'[id].age = -1
      BY <2>1 DEF NewLog
    <2>3. \A j \in Timers \ {id} : TimedFor(j)'
      BY <1>k, <1>r, <2>1
    <2>4. QED
      BY <1>f, <1>x, <2>2, <2>3
  <1>9. ASSUME NEW id \in Timers, Begins(id) PROVE Timed'
    <2>1. /\ log'[id].age = -1 /\ \A j \in Timers \ {id} : log'[j] = log[j]
          /\ regs' = regs /\ base' = base /\ scale' = scale
      BY <1>9, BeginIs, BeginLogs
    <2>2. \A j \in Timers \ {id} : TimedFor(j)'
      BY <1>k, <1>r, <2>1
    <2>3. QED
      BY <1>f, <1>x, <2>1, <2>2
  <1>10. QED
    BY <1>1, <1>3, <1>4, <1>5, <1>6, <1>7, <1>8, <1>9, Moves
       DEF Begins, CallbackReturns, ReadControl, EnableVector, irqDeinit, vars

-----------------------------------------------------------------------------
(* With a vector to each timer.                                            *)

\* No timer is initialised, enabled or called for before separate interrupts
\* are asked for.
LEMMA NextSeparate ==
  Stacked /\ Typed /\ Entries /\ Separate /\ [Next]_vars => Separate'
  <1> SUFFICES ASSUME Stacked, Typed, Entries, Separate, [Next]_vars,
                      "SI" \notin base'.flags
               PROVE  /\ \A id \in Timers : ~log'[id].ready /\ regs'[id].control = {}
                      /\ \A k \in Depth' : stack'[k].todo = <<>>
    BY DEF Separate
  <1>0. "SI" \notin base.flags =>
          /\ \A id \in Timers : ~log[id].ready /\ regs[id].control = {}
          /\ \A k \in Depth : stack[k].todo = <<>>
    BY DEF Separate
  <1>t. "SI" \notin base.flags => Top.todo = <<>>
    BY <1>0, TopIs
  <1>1. CASE Cycle
    <2>1. "SI" \notin base.flags /\ stack' = stack /\ Depth' = Depth
      BY <1>1, CycleVectors DEF Cycle, Depth
    <2>2. \A id \in Timers : regs'[id] = regs[id] /\ log'[id] = log[id]
      BY <1>0, <1>1, <2>1, CycleIs
    <2>3. QED
      BY <1>0, <2>1, <2>2
  <1>2. ASSUME NEW v \in Vectors, Timer_handleIrq(v)
        PROVE  /\ \A id \in Timers : ~log'[id].ready /\ regs'[id].control = {}
               /\ \A k \in Depth' : stack'[k].todo = <<>>
    <2>1. PICK id \in Timers :
            /\ log' = [log EXCEPT ![id].owed = FALSE,
                                  ![id].unexplained = @ \/ ~log[id].owed]
            /\ stack' = Append(stack, Frame(v, id)) /\ Frame(v, id) \in FrameRec
      BY <1>2, IrqIs
    <2>2. /\ Depth' = Depth \cup {Len(stack) + 1}
          /\ \A k \in Depth : stack'[k] = stack[k]
          /\ stack'[Len(stack) + 1].todo = <<>>
      <3>1. Frame(v, id).todo = <<>>
        BY DEF Frame
      <3>2. QED
        BY <2>1, <3>1, Pushes
    <2>3. base' = base /\ regs' = regs
      BY <1>2 DEF Timer_handleIrq
    <2>4. \A j \in Timers : log'[j].ready = log[j].ready
      BY <2>1 DEF Typed, Log
    <2>5. QED
      BY <1>0, <2>2, <2>3, <2>4
  <1>3. CASE CallbackReturns
    <2>1. Depth' \subseteq Depth /\ \A k \in Depth' : stack'[k] = stack[k]
      BY <1>3, Pops
    <2>2. base' = base /\ regs' = regs /\ log' = log
      BY <1>3 DEF CallbackReturns
    <2>3. QED
      BY <1>0, <2>1, <2>2
  <1>4. CASE ReadControl
    BY <1>4, <1>t DEF ReadControl, NextAccess, Idle
  <1>5. CASE WriteControl \/ WriteReload \/ WriteBase \/ EnableVector \/ irqDeinit
    <2>1. Top.todo # <<>> /\ Next1 \in Access
      BY <1>5, AccessMakes DEF Makes
    <2>2. CASE WriteBase
      <3>1. Next1.field \in {"reload", "scaler"}
        BY <2>1, <2>2, AccessKinds DEF WriteBase, NextAccess
      <3>2. base'.flags = base.flags
        BY <2>2, <3>1 DEF WriteBase, Typed, Base
      <3>3. QED
        BY <1>t, <2>1, <3>2
    <2>3. CASE WriteControl \/ WriteReload \/ EnableVector \/ irqDeinit
      BY <1>t, <2>1, <2>3 DEF WriteControl, WriteReload, EnableVector, irqDeinit
    <2>4. QED
      BY <1>5, <2>2, <2>3
  <1>6. ASSUME NEW id \in Timers, Timer_init(id) PROVE FALSE
    BY <1>6, InitIs
  <1>7. ASSUME NEW id \in Timers, NEW value \in Scalers,
               Timer_setBaseScalerReloadValue(id, value)
        PROVE  FALSE
    BY <1>0, <1>7 DEF Timer_setBaseScalerReloadValue, Ready
  <1>8. ASSUME NEW id \in Timers, Begins(id) PROVE FALSE
    BY <1>0, <1>8, BeginIs DEF Ready
  <1>9. CASE UNCHANGED vars
    BY <1>0, <1>9 DEF vars, Depth
  <1>10. QED
    BY <1>1, <1>2, <1>3, <1>4, <1>5, <1>6, <1>7, <1>8, <1>9, Moves DEF Begins

\* What is pending of a vector is owed to its timer.
LEMMA NextOwed ==
  OwnVectors /\ Stacked /\ Typed /\ Entries /\ Separate /\ Owed /\ [Next]_vars => Owed'
  <1> SUFFICES ASSUME OwnVectors, Stacked, Typed, Entries, Separate, Owed, [Next]_vars
               PROVE  Owed'
    OBVIOUS
  <1>k. ASSUME \A v \in Vectors : vectors'[v].pending => vectors[v].pending,
               \A id \in Timers : log[id].owed => log'[id].owed
        PROVE  Owed'
    BY <1>k, Names DEF Owed
  <1>1. CASE Cycle
    <2> SUFFICES ASSUME NEW id \in Timers, vectors'[VectorOf(id)].pending
                 PROVE  log'[id].owed
      BY DEF Owed
    <2>1. VectorOf(id) \in Vectors
      BY Names
    <2>2. CASE vectors[VectorOf(id)].pending
      BY <1>1, <2>2, CycleIs DEF Owed
    <2>3. CASE ~vectors[VectorOf(id)].pending
      <3>1. PICK j \in Timers : /\ Underflows(j) /\ Line(j) = VectorOf(id)
                                /\ "IE" \in regs[j].control
        BY <1>1, <2>1, <2>3, CycleVectors
      <3>2. "SI" \in base.flags
        BY <3>1 DEF Separate
      <3>3. j = id
        BY <3>1, <3>2 DEF Line, OwnVectors
      <3>4. log'[id] = Noted(log[id], regs[id])
        BY <1>1, <3>1, <3>3 DEF Cycle
      <3>5. log[id] \in Log /\ regs[id] \in Reg
        BY DEF Typed
      <3>6. Noted(log[id], regs[id]).owed = (log[id].owed \/ "IE" \in regs[id].control)
        BY <3>5, NotedIs
      <3>7. QED
        BY <3>1, <3>3, <3>4, <3>6
    <2>4. QED
      BY <2>2, <2>3
  <1>2. ASSUME NEW v \in Vectors, Timer_handleIrq(v) PROVE Owed'
    <2>1. PICK id \in Timers :
            /\ v = VectorOf(id)
            /\ vectors' = [vectors EXCEPT ![v] = acknowledge(@)]
            /\ log' = [log EXCEPT ![id].owed = FALSE,
                                  ![id].unexplained = @ \/ ~log[id].owed]
      BY <1>2, IrqIs
    <2>2. ~acknowledge(vectors[v]).pending
      <3>1. vectors[v] \in Vector(AllEntries)
        BY DEF Typed, AllEntries
      <3>2. QED
        BY <3>1, VectorFields
    <2>3. ~vectors'[v].pending /\ \A w \in Vectors \ {v} : vectors'[w] = vectors[w]
      BY <2>1, <2>2 DEF Typed
    <2>4. \A j \in Timers \ {id} : log'[j] = log[j]
      BY <2>1 DEF Typed
    <2>5. QED
      BY <2>1, <2>3, <2>4, Names DEF Owed
  <1>3. CASE vectors' = vectors /\ log' = log
    BY <1>k, <1>3
  <1>4. CASE WriteControl
    <2>1. \A id \in Timers : log'[id].owed = log[id].owed
      BY <1>4, WriteIs
    <2>2. QED
      BY <1>4, <1>k, <2>1 DEF WriteControl
  <1>5. CASE EnableVector \/ irqDeinit
    <2> DEFINE u == VectorOf(Top.id)
               d == vector_disable(vectors[u])
    <2>1. u \in Vectors /\ vectors[u] \in Vector(AllEntries) /\ Entry(Top.id) \in AllEntries
      BY <1>5, AccessMakes, Names DEF Typed, AllEntries
    <2>2. /\ vector_enable(vectors[u]).pending = vectors[u].pending
          /\ d.pending = vectors[u].pending /\ d \in Vector(AllEntries)
      BY <2>1, VectorFields
    <2>3. entry_remove(d, Entry(Top.id)).pending = vectors[u].pending
      <3> HIDE DEF d
      <3>1. QED
        BY <2>1, <2>2, EntryFields
    <2>4. \A w \in Vectors : vectors'[w].pending = vectors[w].pending
      BY <1>5, <2>1, <2>2, <2>3 DEF EnableVector, irqDeinit, Typed
    <2>5. log' = log
      BY <1>5 DEF EnableVector, irqDeinit
    <2>6. QED
      BY <1>k, <2>4, <2>5
  <1>6. ASSUME NEW id \in Timers, Timer_init(id) PROVE Owed'
    <2>1. /\ \A w \in Vectors \ {VectorOf(id)} : vectors'[w] = vectors[w]
          /\ ~vectors'[VectorOf(id)].pending
          /\ \A j \in Timers \ {id} : log'[j] = log[j]
      BY <1>6, InitIs
    <2>2. QED
      BY <2>1, Names DEF Owed
  <1>7. ASSUME NEW id \in Timers, NEW value \in Scalers,
               Timer_setBaseScalerReloadValue(id, value)
        PROVE  Owed'
    <2>1. \A j \in Timers : log'[j].owed = log[j].owed
      BY <1>7 DEF Timer_setBaseScalerReloadValue, Typed, Log
    <2>2. QED
      BY <1>7, <1>k, <2>1 DEF Timer_setBaseScalerReloadValue
  <1>8. ASSUME NEW id \in Timers, Begins(id) PROVE Owed'
    <2>1. \A j \in Timers : log'[j].owed = log[j].owed
      BY <1>8, BeginLogs
    <2>2. VectorOf(id) \in Vectors /\ vectors[VectorOf(id)] \in Vector(AllEntries)
      BY Names DEF Typed, AllEntries
    <2>3. \A w \in Vectors : vectors'[w].pending = vectors[w].pending
      BY <1>8, <2>2, BeginIs, VectorFields DEF Typed
    <2>4. QED
      BY <1>k, <2>1, <2>3
  <1>9. QED
    BY <1>1, <1>2, <1>3, <1>4, <1>5, <1>6, <1>7, <1>8, Moves
       DEF Begins, CallbackReturns, ReadControl, WriteReload, WriteBase, vars

\* No callback is called but for what is owed.
LEMMA NextExplained ==
  ASSUME Stacked, Typed, Entries, Owed, CalledForUnderflow, [Next]_vars
  PROVE  CalledForUnderflow'
  <1>k. ASSUME \A id \in Timers : log'[id].unexplained = log[id].unexplained
        PROVE  CalledForUnderflow'
    BY <1>k DEF CalledForUnderflow
  <1>1. CASE Cycle
    BY <1>1, <1>k, CycleIs
  <1>2. ASSUME NEW v \in Vectors, Timer_handleIrq(v) PROVE CalledForUnderflow'
    <2>1. PICK id \in Timers :
            /\ v = VectorOf(id) /\ vectors[v].pending
            /\ log' = [log EXCEPT ![id].owed = FALSE,
                                  ![id].unexplained = @ \/ ~log[id].owed]
      BY <1>2, IrqIs
    <2>2. log[id].owed /\ ~log[id].unexplained
      BY <2>1 DEF Owed, CalledForUnderflow
    <2> DEFINE x == log[id].unexplained \/ ~log[id].owed
    <2>3. x = FALSE
      BY <2>2
    <2>4. log'[id].unexplained = x
      BY <2>1 DEF Typed, Log
    <2>5. \A j \in Timers \ {id} : log'[j] = log[j]
      BY <2>1 DEF Typed
    <2>6. QED
      BY <2>3, <2>4, <2>5 DEF CalledForUnderflow
  <1>3. CASE log' = log
    BY <1>3, <1>k
  <1>4. CASE WriteControl
    BY <1>4, <1>k, WriteIs
  <1>5. ASSUME NEW id \in Timers, Timer_init(id) PROVE CalledForUnderflow'
    <2>1. log'[id] = [NewLog EXCEPT !.ready = TRUE]
          /\ \A j \in Timers \ {id} : log'[j] = log[j]
      BY <1>5, InitIs
    <2>2. ~log'[id].unexplained
      BY <2>1 DEF NewLog
    <2>3. QED
      BY <2>1, <2>2 DEF CalledForUnderflow
  <1>6. ASSUME NEW id \in Timers, NEW value \in Scalers,
               Timer_setBaseScalerReloadValue(id, value)
        PROVE  CalledForUnderflow'
    BY <1>6, <1>k DEF Timer_setBaseScalerReloadValue, Typed, Log
  <1>7. ASSUME NEW id \in Timers, Begins(id) PROVE CalledForUnderflow'
    BY <1>7, <1>k, BeginLogs
  <1>8. QED
    BY <1>1, <1>2, <1>3, <1>4, <1>5, <1>6, <1>7, Moves
       DEF Begins, CallbackReturns, ReadControl, WriteReload, WriteBase, EnableVector,
           irqDeinit, vars

\* The vector of a timer that was told to stop is disabled.
LEMMA NextQuiet ==
  OwnVectors /\ Stacked /\ Typed /\ Entries /\ Courses /\ Quiet /\ [Next]_vars => Quiet'
  <1> SUFFICES ASSUME OwnVectors, Stacked, Typed, Entries, Courses, Quiet, [Next]_vars
               PROVE  Quiet'
    OBVIOUS
  <1>k. ASSUME \A v \in Vectors : vectors'[v].enabled => vectors[v].enabled,
               \A id \in Timers : log'[id].told = log[id].told
        PROVE  Quiet'
    BY <1>k, Names DEF Quiet
  <1>1. CASE Cycle
    BY <1>1, <1>k, CycleIs, CycleVectors
  <1>2. ASSUME NEW v \in Vectors, Timer_handleIrq(v) PROVE Quiet'
    <2>1. PICK id \in Timers :
            /\ vectors' = [vectors EXCEPT ![v] = acknowledge(@)]
            /\ log' = [log EXCEPT ![id].owed = FALSE,
                                  ![id].unexplained = @ \/ ~log[id].owed]
      BY <1>2, IrqIs
    <2>2. acknowledge(vectors[v]).enabled = vectors[v].enabled
      <3>1. vectors[v] \in Vector(AllEntries)
        BY DEF Typed, AllEntries
      <3>2. QED
        BY <3>1, VectorFields
    <2>3. \A w \in Vectors : vectors'[w].enabled = vectors[w].enabled
      BY <2>1, <2>2 DEF Typed
    <2>4. \A j \in Timers : log'[j].told = log[j].told
      BY <2>1 DEF Typed, Log
    <2>5. QED
      BY <1>k, <2>3, <2>4
  <1>3. CASE vectors' = vectors /\ log' = log
    BY <1>k, <1>3
  <1>4. CASE WriteControl
    <2>1. \A id \in Timers : log'[id].told = log[id].told
      BY <1>4, WriteIs
    <2>2. QED
      BY <1>4, <1>k, <2>1 DEF WriteControl
  <1>5. CASE EnableVector
    <2>0. PICK id \in Timers : id = Top.id
      BY <1>5, AccessMakes
    <2>1. log[id].told # "stop"
      <3>1. Top.todo # <<>> /\ Top.todo[1].access = "enable"
        BY <1>5, AccessMakes DEF EnableVector, NextAccess, Makes
      <3>2. AccessOK(log[id], Top.todo, 1)
        BY <2>0, <3>1, TopCourse
      <3>3. QED
        BY <3>1, <3>2, Zenon DEF AccessOK
    <2>2. log' = log /\ \A v \in Vectors \ {VectorOf(id)} : vectors'[v] = vectors[v]
      BY <1>5, <2>0 DEF EnableVector, Typed
    <2>3. QED
      BY <2>1, <2>2, Names DEF Quiet, OwnVectors
  <1>6. CASE irqDeinit
    <2> DEFINE u == VectorOf(Top.id)
               d == vector_disable(vectors[u])
    <2>1. u \in Vectors /\ vectors[u] \in Vector(AllEntries) /\ Entry(Top.id) \in AllEntries
      BY <1>6, AccessMakes, Names DEF Typed, AllEntries
    <2>2. ~d.enabled /\ d \in Vector(AllEntries)
      BY <2>1, VectorFields
    <2>3. ~entry_remove(d, Entry(Top.id)).enabled
      <3> HIDE DEF d
      <3>1. QED
        BY <2>1, <2>2, EntryFields
    <2>4. \A w \in Vectors : vectors'[w].enabled => vectors[w].enabled
      BY <1>6, <2>1, <2>3 DEF irqDeinit, Typed
    <2>5. log' = log
      BY <1>6 DEF irqDeinit
    <2>6. QED
      BY <1>k, <2>4, <2>5
  <1>7. ASSUME NEW id \in Timers, Timer_init(id) PROVE Quiet'
    <2>1. /\ \A w \in Vectors \ {VectorOf(id)} : vectors'[w] = vectors[w]
          /\ log'[id] = [NewLog EXCEPT !.ready = TRUE]
          /\ \A j \in Timers \ {id} : log'[j] = log[j]
      BY <1>7, InitIs
    <2>2. log'[id].told # "stop"
      BY <2>1 DEF NewLog
    <2>3. QED
      BY <2>1, <2>2, Names DEF Quiet, OwnVectors
  <1>8. ASSUME NEW id \in Timers, NEW value \in Scalers,
               Timer_setBaseScalerReloadValue(id, value)
        PROVE  Quiet'
    <2>1. \A j \in Timers : log'[j].told = log[j].told
      BY <1>8 DEF Timer_setBaseScalerReloadValue, Typed, Log
    <2>2. QED
      BY <1>8, <1>k, <2>1 DEF Timer_setBaseScalerReloadValue
  <1>9. ASSUME NEW id \in Timers, Begins(id) PROVE Quiet'
    <2>1. \A j \in Timers \ {id} : log'[j] = log[j]
      BY <1>9, BeginLogs
    <2>2. VectorOf(id) \in Vectors /\ vectors[VectorOf(id)] \in Vector(AllEntries)
      BY Names DEF Typed, AllEntries
    <2>3. /\ ~vectors'[VectorOf(id)].enabled
          /\ \A w \in Vectors \ {VectorOf(id)} : vectors'[w] = vectors[w]
      BY <1>9, <2>2, BeginIs, VectorFields DEF Typed
    <2>4. QED
      BY <2>1, <2>3, Names DEF Quiet, OwnVectors
  <1>10. QED
    BY <1>1, <1>2, <1>3, <1>4, <1>5, <1>6, <1>7, <1>8, <1>9, Moves
       DEF Begins, CallbackReturns, ReadControl, WriteReload, WriteBase, vars

-----------------------------------------------------------------------------
(* The theorems.                                                           *)

IInv == Stacked /\ Typed /\ Entries /\ Scaled /\ Masked /\ Courses /\ Finished /\ Timed

\* Nothing has been said, done or called for at the start.
LEMMA InitIInv == Init => IInv
  <1> SUFFICES ASSUME Init PROVE IInv
    OBVIOUS
  <1>0. Word \in Nat /\ Word > 1 /\ BootScaler \in Nat /\ MaxCalls \in Nat
    BY TimerAssumption
  <1>1. Stacked
    BY InitStacked
  <1>2. /\ \A id \in Timers : log[id] = NewLog /\ regs[id] = ClearRegs
        /\ \A v \in Vectors : vectors[v] = IdleVector
        /\ base.reload = BootScaler /\ base.scaler = BootScaler /\ scale = BootScaler
    BY DEF Init
  <1>3. Typed
    <2>1. regs \in [Timers -> Reg]
      <3>1. ClearRegs \in Reg
        BY <1>0 DEF ClearRegs, Reg
      <3>2. QED
        BY <3>1 DEF Init
    <2>2. base \in Base
      BY <1>0 DEF Init, Base
    <2>3. vectors \in [Vectors -> Vector({Entry(id) : id \in Timers})]
      <3>1. IdleVector \in Vector({Entry(id) : id \in Timers})
        BY DEF IdleVector, Vector
      <3>2. QED
        BY <3>1 DEF Init
    <2>4. log \in [Timers -> Log]
      BY NewLogIs DEF Init
    <2>5. scale \in Nat /\ calls \in 0 .. MaxCalls
      BY <1>0 DEF Init
    <2>6. QED
      BY <2>1, <2>2, <2>3, <2>4, <2>5 DEF Typed
  <1>4. Entries
    BY <1>2, Names DEF Entries, IdleVector
  <1>5. Depth = {1} /\ stack[1].todo = <<>> /\ Len(stack) = 1
    <2> DEFINE f == Frame(0, 0)
    <2>1. stack = <<f>> /\ f.todo = <<>>
      BY DEF Init, Frame
    <2> HIDE DEF f
    <2>2. QED
      BY <2>1 DEF Depth
  <1>6. Scaled
    <2>1. ~SetsBase(stack[1].todo)
      BY <1>5 DEF SetsBase
    <2>2. base.reload = scale /\ base.scaler <= scale
      BY <1>0, <1>2
    <2>3. QED
      BY <1>5, <2>1, <2>2 DEF Scaled
  <1>7. \A k \in Depth, id \in Timers : ~Works(stack[k], id)
    BY <1>5 DEF Works
  <1>8. Masked
    BY <1>7, Zenon DEF Masked
  <1>9. Courses
    <2>1. ASSUME NEW id \in Timers PROVE Progress(log[id], regs[id], <<>>)
      <3>1. /\ log[id].config = <<>> /\ log[id].told = "off" /\ regs[id].control = {}
        BY <1>2 DEF NewLog, ClearRegs
      <3>2. QED
        BY <3>1, Zenon DEF Progress
    <2>2. QED
      BY <1>7, <2>1, Zenon DEF Courses
  <1>10. Finished
    BY <1>0, <1>2 DEF Finished, NewLog, ClearRegs, TIMER_UNDERFLOWED
  <1>11. Timed
    BY <1>2 DEF Timed, TimedFor, NewLog
  <1>12. QED
    BY <1>1, <1>3, <1>4, <1>6, <1>8, <1>9, <1>10, <1>11 DEF IInv

\* The invariant holds always.
LEMMA Inductive == Spec => []IInv
  <1>1. IInv /\ [Next]_vars => IInv'
    BY NextStacked, NextTyped, NextEntries, NextScaled, NextMasked, NextCourses,
       NextFinished, NextTimed DEF IInv
  <1>2. QED
    BY InitIInv, <1>1, PTL DEF Spec

\* The stack is no deeper than there are vectors: each frame above the task's is
\* at the level of a vector of its own.
LEMMA StackDepth ==
  ASSUME Stacked
  PROVE  Len(stack) \in 1 .. 1 + Cardinality(Vectors)
  <1> DEFINE n == Len(stack)
             f == [k \in 2 .. n |-> stack[k].level]
  <1>1. n \in Nat \ {0} /\ Depth = 1 .. n
    BY TopIs DEF Depth
  <1>2. IsFiniteSet(Vectors) /\ Cardinality(Vectors) \in Nat
    <2>1. \A v \in Vectors : v <= 11
      <3>1. \A id \in 1 .. 4 : VectorOf(id) <= 11
        BY DEF VectorOf, InterruptNumber, Timer_getApbctrl1InterruptNumber,
               Timer_getApbctrl2InterruptNumber
      <3>2. QED
        BY <3>1, Names DEF Vectors
    <2>2. Vectors \in SUBSET Nat
      BY Names
    <2>3. IsFiniteSet(Vectors)
      BY <2>1, <2>2, FS_BoundedSetOfNaturals
    <2>4. QED
      BY <2>3, FS_CardinalityType
  <1>3. ASSUME NEW k \in 2 .. n PROVE stack[k].level \in Vectors /\ k \in Depth
    <2>1. k \in Depth /\ k # 1
      BY <1>1
    <2>2. FrameOK(k) /\ stack[k] \in FrameRec
      BY <2>1 DEF Stacked, Depth
    <2>3. stack[k].owner \in Timers /\ stack[k].level = VectorOf(stack[k].owner)
      BY <2>1, <2>2 DEF FrameOK, FrameRec
    <2>4. QED
      BY <2>1, <2>3, Names
  <1>4. \A k, l \in 2 .. n : stack[k].level = stack[l].level => k = l
    <2>1. SUFFICES ASSUME NEW k \in 2 .. n, NEW l \in 2 .. n, k < l
                   PROVE  stack[k].level # stack[l].level
      BY <1>1
    <2>2. stack[k].level < stack[l].level /\ stack[k] \in FrameRec
      BY <1>3, <2>1 DEF Stacked, Depth
    <2>3. stack[k].level \in Nat
      BY <2>2 DEF FrameRec
    <2>4. QED
      BY <1>3, <2>2, <2>3, Names
  <1>5. f \in Injection(2 .. n, Vectors)
    BY <1>3, <1>4 DEF Injection, IsInjective
  <1> HIDE DEF f
  <1>6. Cardinality(2 .. n) <= Cardinality(Vectors)
    BY <1>2, <1>5, FS_Injection
  <1>7. Cardinality(2 .. n) = IF 2 > n THEN 0 ELSE n - 2 + 1
    BY <1>1, FS_Interval
  <1>8. QED
    BY <1>1, <1>2, <1>6, <1>7

\* Every variable keeps its type, and the stack its order.
THEOREM TypeCorrect == Spec => []TypeOK
  <1>1. IInv => TypeOK
    <2> SUFFICES ASSUME IInv PROVE TypeOK
      OBVIOUS
    <2>1. Stacked /\ Typed
      BY DEF IInv
    <2>2. stack \in Seq(FrameRec) /\ DOMAIN stack = Depth
      BY <2>1 DEF Stacked, Depth
    <2>3. ASSUME NEW k \in Depth
          PROVE  /\ stack[k].owner \in Timers \cup {0}
                 /\ stack[k].level = IF k = 1 THEN 0 ELSE VectorOf(stack[k].owner)
                 /\ k > 1 => stack[k - 1].level < stack[k].level
                 /\ stack[k].id \in Timers \cup {0}
                 /\ stack[k].read \in BOOLEAN
                 /\ stack[k].control \subseteq Flag
      <3>1. stack[k] \in FrameRec /\ FrameOK(k)
        BY <2>1, <2>2 DEF Stacked, Depth
      <3>2. k > 1 => stack[k - 1].level < stack[k].level
        <4>1. k > 1 => k - 1 \in Depth /\ k - 1 < k
          BY <2>1, TopIs DEF Depth
        <4>2. QED
          BY <2>1, <4>1 DEF Stacked
      <3>3. QED
        BY <3>1, <3>2 DEF FrameRec, FrameOK
    <2>4. QED
      BY <2>1, <2>2, <2>3, StackDepth DEF Typed, TypeOK
  <1>2. QED
    BY Inductive, <1>1, PTL

\* A callback never comes in the middle of a call that works on its timer: the
\* call has the timer's vector disabled until its last access.
THEOREM CallbacksExcluded == Spec => []CallbackExcluded
  <1>1. IInv => CallbackExcluded
    <2> SUFFICES ASSUME IInv, NEW k \in DOMAIN stack, NEW l \in DOMAIN stack,
                        k < l, stack[k].todo # <<>>,
                        Head(stack[k].todo).access # "base"
                 PROVE  stack[l].owner # stack[k].id
      BY DEF CallbackExcluded
    <2>1. Stacked /\ Masked
      BY DEF IInv
    <2>2. stack \in Seq(FrameRec) /\ k \in Depth /\ l \in Depth
      BY <2>1 DEF Stacked, Depth
    <2>3. stack[k].todo \in Seq(Access) /\ FrameOK(k)
      <3>1. stack[k] \in FrameRec
        BY <2>2 DEF Depth
      <3>2. QED
        BY <2>1, <2>2, <3>1 DEF Stacked, FrameRec
    <2>4. stack[k].id \in Timers /\ Works(stack[k], stack[k].id)
      BY <2>3, TailIs DEF FrameOK, Works
    <2>5. VectorOf(stack[l].owner) # VectorOf(stack[k].id)
      BY <2>1, <2>2, <2>4 DEF Masked
    <2>6. QED
      BY <2>5
  <1>2. QED
    BY Inductive, <1>1, PTL

\* Between calls for a timer, everything it was told is done.
LEMMA Settled ==
  ASSUME IInv, NEW id \in Timers, ~InCall(id)
  PROVE  Progress(log[id], regs[id], <<>>)
  <1>1. Stacked /\ Courses
    BY DEF IInv
  <1>2. DOMAIN stack = Depth
    BY <1>1 DEF Stacked, Depth
  <1>3. \A k \in Depth : ~Works(stack[k], id)
    BY <1>2 DEF InCall, Works
  <1>4. QED
    BY <1>1, <1>3, Zenon DEF Courses

\* What that means, nothing being left to do.
LEMMA SettledIs ==
  ASSUME NEW l, NEW r, Progress(l, r, <<>>)
  PROVE  /\ \A c : l.config = <<c>> =>
              /\ \A flag \in {"IE", "RS", "CH"} : flag \in r.control <=> flag \in c.flags
              /\ r.reload = c.reloadValue
         /\ l.told \in {"stop", "off"} => "EN" \notin r.control
         /\ l.told = "run" /\ "RS" \in r.control => "EN" \in r.control
  <1>1. \A a : ~ToDo(<<>>, a)
    BY DEF ToDo
  <1>2. ASSUME NEW c, l.config = <<c>>
        PROVE  /\ \A flag \in {"IE", "RS", "CH"} : flag \in r.control <=> flag \in c.flags
               /\ r.reload = c.reloadValue
    <2>1. l.config # <<>> /\ l.config[1] = c
      BY <1>2
    <2>2. QED
      BY <1>1, <2>1, Zenon DEF Progress
  <1>3. /\ l.told \in {"stop", "off"} => "EN" \notin r.control
        /\ l.told = "run" /\ "RS" \in r.control => "EN" \in r.control
    BY <1>1, Zenon DEF Progress
  <1>4. QED
    BY <1>2, <1>3

\* A timer set to reload and started is enabled: a write of its control register
\* never takes back the EN that Timer_start set, and the clock never clears it.
THEOREM AutoReloadRuns == Spec => []AutoReloadKeepsRunning
  <1>1. IInv => AutoReloadKeepsRunning
    <2> SUFFICES ASSUME IInv, NEW id \in Timers, NEW c \in Configs,
                        ~InCall(id), log[id].told = "run",
                        log[id].config = <<c>>, "RS" \in c.flags
                 PROVE  "EN" \in regs[id].control
      BY DEF AutoReloadKeepsRunning
    <2>1. Progress(log[id], regs[id], <<>>)
      BY Settled
    <2>2. QED
      BY <2>1, SettledIs
  <1>2. QED
    BY Inductive, <1>1, PTL

\* Timer_hasFinished is right between calls, whatever a countdown that ran out
\* in the middle of one found there.
THEOREM HasFinished == Spec => []FinishedReported
  <1>1. IInv => FinishedReported
    BY DEF IInv, Finished, FinishedReported, Timer_hasFinished
  <1>2. QED
    BY Inductive, <1>1, PTL

\* Timer_getConfigRegisters gives back the flags and the reload value that were
\* set, from registers the timer itself writes.
THEOREM ConfigKept == Spec => []ConfigReadsBack
  <1>1. IInv => ConfigReadsBack
    <2> SUFFICES ASSUME IInv, NEW id \in Timers, NEW c \in Configs,
                        ~InCall(id), log[id].told \in {"off", "stop"},
                        log[id].config = <<c>>
                 PROVE  Timer_getConfigRegisters(regs[id]) =
                          [flags |-> c.flags \ {"EN"}, reloadValue |-> c.reloadValue]
      BY DEF ConfigReadsBack
    <2>1. Progress(log[id], regs[id], <<>>)
      BY Settled
    <2>2. /\ \A flag \in {"IE", "RS", "CH"} : flag \in regs[id].control <=> flag \in c.flags
          /\ regs[id].reload = c.reloadValue /\ "EN" \notin regs[id].control
      BY <2>1, SettledIs
    <2>3. regs[id].control \subseteq Flag /\ c.flags \subseteq Flag
      BY TimerAssumption DEF IInv, Typed, Reg, Config
    <2>4. regs[id].control = c.flags \ {"EN"}
      BY <2>2, <2>3 DEF Flag
    <2>5. QED
      BY <2>2, <2>4 DEF Timer_getConfigRegisters
  <1>2. QED
    BY Inductive, <1>1, PTL

\* The time since a timer was started, and what its counter and the prescaler
\* hold, make its period to within one round of the prescaler.
THEOREM TellsTime == Spec => []CounterTellsTime
  <1>1. IInv => CounterTellsTime
    <2> SUFFICES ASSUME IInv, NEW id \in Timers, log[id].age >= 0
                 PROVE  LET round  == scale + 1
                            left   == regs[id].counter * round + base.scaler
                            period == regs[id].reload * round
                        IN log[id].age + left \in period .. period + scale
      BY DEF CounterTellsTime, Timer_getCounterValue
    <2> DEFINE p == regs[id].counter * (scale + 1)
               q == regs[id].reload * (scale + 1)
    <2>1. /\ regs[id].counter \in Nat /\ base.scaler \in Nat /\ log[id].age \in Int
          /\ scale \in Nat
      BY TimerAssumption DEF IInv, Typed, Reg, Base, Log
    <2>2. log[id].age + p + base.scaler \in q .. q + scale
      BY DEF IInv, Timed, TimedFor, InTime
    <2>3. p \in Nat
      BY <2>1, Products
    <2> HIDE DEF p, q
    <2>4. log[id].age + (p + base.scaler) \in q .. q + scale
      BY <2>1, <2>2, <2>3
    <2>5. QED
      BY <2>4 DEF p, q
  <1>2. QED
    BY Inductive, <1>1, PTL

OwnInv == Separate /\ Owed /\ CalledForUnderflow /\ Quiet

\* So does what a vector to each timer adds to it.
LEMMA OwnInductive == OwnVectors /\ Spec => [](IInv /\ OwnInv)
  <1> SUFFICES ASSUME OwnVectors PROVE Spec => [](IInv /\ OwnInv)
    OBVIOUS
  <1>1. Init => OwnInv
    <2> SUFFICES ASSUME Init PROVE OwnInv
      OBVIOUS
    <2>1. /\ \A id \in Timers : log[id] = NewLog /\ regs[id] = ClearRegs
          /\ \A v \in Vectors : vectors[v] = IdleVector
      BY DEF Init
    <2>2. Depth = {1} /\ stack[1].todo = <<>>
      <3> DEFINE f == Frame(0, 0)
      <3>1. stack = <<f>> /\ f.todo = <<>>
        BY DEF Init, Frame
      <3> HIDE DEF f
      <3>2. QED
        BY <3>1 DEF Depth
    <2>3. Separate
      BY <2>1, <2>2 DEF Separate, NewLog, ClearRegs
    <2>4. Owed /\ Quiet
      BY <2>1, Names DEF Owed, Quiet, IdleVector
    <2>5. CalledForUnderflow
      BY <2>1 DEF CalledForUnderflow, NewLog
    <2>6. QED
      BY <2>3, <2>4, <2>5 DEF OwnInv
  <1>2. IInv /\ OwnInv /\ [Next]_vars => OwnInv'
    BY NextSeparate, NextOwed, NextExplained, NextQuiet DEF IInv, OwnInv
  <1>3. QED
    BY Inductive, <1>1, <1>2, PTL DEF Spec

\* With a vector to each timer, a callback is called only for an underflow of its
\* own timer, and no underflow from before Timer_init is left to call it.
THEOREM CalledOnlyForUnderflow == OwnVectors /\ Spec => []CalledForUnderflow
  <1>1. OwnInv => CalledForUnderflow
    BY DEF OwnInv
  <1>2. QED
    BY OwnInductive, <1>1, PTL

\* With a vector to each timer, one that was told to stop stays as it is until
\* the next call, though its interrupt may be pending and the others go on.
THEOREM StopsQuietly == OwnVectors /\ Spec => StopIsQuiet
  <1> SUFFICES ASSUME OwnVectors PROVE Spec => StopIsQuiet
    OBVIOUS
  <1> DEFINE Still == \A id \in Timers :
               ~InCall(id) /\ log[id].told = "stop" /\ calls' = calls
                 => /\ regs'[id] = regs[id]
                    /\ log'[id].owed = log[id].owed
  <1>1. ASSUME IInv, OwnInv, [Next]_vars PROVE Still
    <2> SUFFICES ASSUME NEW id \in Timers, ~InCall(id), log[id].told = "stop",
                        calls' = calls
                 PROVE  regs'[id] = regs[id] /\ log'[id].owed = log[id].owed
      OBVIOUS
    <2>1. Stacked /\ Typed /\ Entries /\ Quiet /\ calls \in Nat
      BY <1>1 DEF IInv, OwnInv, Typed
    <2>2. "EN" \notin regs[id].control
      <3>1. Progress(log[id], regs[id], <<>>)
        BY <1>1, Settled
      <3>2. QED
        BY <3>1, SettledIs
    <2>3. Top.todo # <<>> => Top.id # id
      BY <2>1, TopIs DEF InCall, Stacked, Depth
    <2>4. CASE Cycle
      BY <2>1, <2>2, <2>4, CycleIs
    <2>5. ASSUME NEW v \in Vectors, Timer_handleIrq(v)
          PROVE  regs'[id] = regs[id] /\ log'[id].owed = log[id].owed
      <3>1. PICK j \in Timers :
              /\ v = VectorOf(j) /\ vectors[v].enabled
              /\ log' = [log EXCEPT ![j].owed = FALSE,
                                    ![j].unexplained = @ \/ ~log[j].owed]
        BY <2>1, <2>5, IrqIs
      <3>2. j # id
        BY <2>1, <3>1 DEF Quiet
      <3>3. log'[id] = log[id]
        BY <2>1, <3>1, <3>2 DEF Typed
      <3>4. QED
        BY <2>5, <3>3 DEF Timer_handleIrq
    <2>6. CASE regs' = regs /\ log' = log
      BY <2>6
    <2>7. CASE WriteControl
      <3>1. Top.id # id
        BY <2>1, <2>3, <2>7, AccessMakes DEF Makes
      <3>2. QED
        BY <2>1, <2>7, <3>1, WriteIs
    <2>8. CASE WriteReload
      <3>1. Top.id # id
        BY <2>1, <2>3, <2>8, AccessMakes DEF Makes
      <3>2. QED
        BY <2>1, <2>8, <3>1 DEF WriteReload, Typed
    <2>9. ASSUME NEW j \in Timers, NEW call, Caller(j, call) PROVE FALSE
      BY <2>1, <2>9 DEF Caller
    <2>10. QED
      BY <1>1, <2>4, <2>5, <2>6, <2>7, <2>8, <2>9, Moves
         DEF CallbackReturns, ReadControl, WriteBase, EnableVector, irqDeinit, vars,
             Timer_init, Timer_setBaseScalerReloadValue, Timer_start,
             Timer_setConfigRegisters, Timer_stop, Timer_shutdown
  <1>2. ASSUME IInv, OwnInv, [Next]_vars PROVE [Still]_vars
    BY <1>1, <1>2
  <1>3. QED
    BY OwnInductive, <1>2, PTL DEF Spec, StopIsQuiet
=============================================================================
