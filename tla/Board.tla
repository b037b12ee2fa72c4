------------------------------- MODULE Board --------------------------------
(***************************************************************************)
(* Where the registers of the UARTs and the timers are, and which          *)
(* interrupt vectors they have: the tables of UartRegisters.h and          *)
(* TimerTypedefs.h, and the functions of Uart.c and Timer.c that look them *)
(* up.  An address is a peripheral bus and an offset on it, in bytes.      *)
(***************************************************************************)
EXTENDS Integers

\* 0x80000000 and 0x80100000.
APBCTRL1 == 1
APBCTRL2 == 2

UartIds == 0 .. 5
TimerIds(group) == IF group = 1 THEN 1 .. 4 ELSE 1 .. 2

Uart_getAddressBase(id) ==
  IF id = 0 THEN <<APBCTRL1, 256>> ELSE <<APBCTRL2, 256 * id>>

Uart_interruptNumber(id) == IF id = 0 THEN 2 ELSE 16 + id

\* GPTIMER_APBCTRL1_ADDRESS_BASE and GPTIMER_APBCTRL2_ADDRESS_BASE.
TimerBaseAddress(group) ==
  IF group = 1 THEN <<APBCTRL1, 768>> ELSE <<APBCTRL2, 1536>>

getApbctrl1TimerAddressById(id) == <<APBCTRL1, 768 + 16 * id>>
getApbctrl2TimerAddressById(id) == <<APBCTRL2, 1536 + 16 * id>>

Timer_getApbctrl1InterruptNumber(id) == 7 + id
Timer_getApbctrl2InterruptNumber(id) == 7

InterruptNumber(group, id) ==
  IF group = 1 THEN Timer_getApbctrl1InterruptNumber(id)
  ELSE Timer_getApbctrl2InterruptNumber(id)

-----------------------------------------------------------------------------
(* A block of registers, as the drivers' structures lay it out.            *)

Block(address, bytes) ==
  [bus |-> address[1], first |-> address[2], last |-> address[2] + bytes - 1]

UartBlock(id) == Block(Uart_getAddressBase(id), 20)

\* Apbctrl2 has a latch register more, in the base and in each timer.
TimerBaseBlock(group) ==
  Block(TimerBaseAddress(group), IF group = 1 THEN 12 ELSE 16)

TimerBlock(group, id) ==
  IF group = 1 THEN Block(getApbctrl1TimerAddressById(id), 12)
  ELSE Block(getApbctrl2TimerAddressById(id), 16)

Overlap(a, b) == a.bus = b.bus /\ a.first <= b.last /\ b.first <= a.last
=============================================================================
