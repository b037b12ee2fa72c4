--------------------------- MODULE ByteFifoShared ---------------------------
(***************************************************************************)
(* One ByteFifo between a task and an interrupt handler, the way the UART  *)
(* driver shares its queues: the handler pushes what the task pulls        *)
(* (uart->rxFifo), or pulls what the task pushes (a task that adds to a    *)
(* uart->txFifo being sent).  ByteFifo.h takes no lock; its pointers are   *)
(* volatile, so every statement reads and writes them in memory.           *)
(*                                                                         *)
(* There is one processor.  The handler's call runs whole, between two     *)
(* statements of the task's.  Statements of the task are one step when the *)
(* handler cannot tell: it never writes `last' and, unless the queue is    *)
(* empty, never `first', on the receiving side, and the other way round.   *)
(***************************************************************************)
EXTENDS ByteFifo

CONSTANTS Block,     \* the queue's memory
          MaxPushes  \* bound: accepted pushes

ASSUME SharedAssumption ==
  /\ Block \in Seq(Byte) \ {<<>>}
  /\ MaxPushes \in Nat

VARIABLES role,   \* which end the task has: "puller" or "pusher"
          fifo,   \* the structure and its block
          pc,     \* the next statement of the task's call, or "idle"
          data,   \* the byte it is pushing
          pushed, \* the bytes accepted, in order
          got,    \* the bytes pulled, in order
          filled  \* whether a push has filled the ring during a pull

vars == <<role, fifo, pc, data, pushed, got, filled>>

Init ==
  /\ role \in {"puller", "pusher"}
  /\ fifo = ByteFifo_init(NULL, Block)
  /\ pc = "idle"
  /\ data \in Byte
  /\ pushed = <<>> /\ got = <<>>
  /\ filled = FALSE

\* Where first will be once the pull in progress has wrapped it.
First == PullWrap(fifo).first

-----------------------------------------------------------------------------
(* The task pulls, the handler pushes.                                     *)

PullStart ==
  /\ role = "puller" /\ pc = "idle"
  /\ ~ByteFifo_isEmpty(fifo)
  /\ got' = Append(got, PullData(fifo))
  /\ fifo' = PullAdvance(fifo)
  /\ pc' = "wrap"
  /\ UNCHANGED <<role, data, pushed, filled>>

PullWraps ==
  /\ role = "puller" /\ pc = "wrap"
  /\ fifo' = PullWrap(fifo)
  /\ pc' = "settle"
  /\ UNCHANGED <<role, data, pushed, got, filled>>

PullSettles ==
  /\ role = "puller" /\ pc = "settle"
  /\ fifo' = PullSettle(fifo)
  /\ pc' = "idle"
  /\ UNCHANGED <<role, data, pushed, got, filled>>

\* Uart_handleRx: a byte for a full queue is dropped.
HandlerPush(byte) ==
  /\ role = "puller"
  /\ Len(pushed) < MaxPushes
  /\ fifo' = ByteFifo_push(fifo, byte)
  /\ IF ByteFifo_isFull(fifo)
     THEN UNCHANGED <<pushed, filled>>
     ELSE /\ pushed' = Append(pushed, byte)
          /\ filled' = (filled \/ (pc # "idle" /\ fifo'.last = First))
  /\ UNCHANGED <<role, pc, data, got>>

-----------------------------------------------------------------------------
(* The task pushes, the handler pulls.                                     *)

PushStart(byte) ==
  /\ role = "pusher" /\ pc = "idle"
  /\ Len(pushed) < MaxPushes
  /\ ~ByteFifo_isFull(fifo)
  /\ data' = byte
  /\ fifo' = PushClaim(fifo)
  /\ pc' = "store"
  /\ UNCHANGED <<role, pushed, got, filled>>

PushStores ==
  /\ role = "pusher" /\ pc = "store"
  /\ fifo' = PushStore(fifo, data)
  /\ pushed' = Append(pushed, data)
  /\ pc' = "advance"
  /\ UNCHANGED <<role, data, got, filled>>

PushAdvances ==
  /\ role = "pusher" /\ pc = "advance"
  /\ fifo' = PushAdvance(fifo)
  /\ pc' = "wrap"
  /\ UNCHANGED <<role, data, pushed, got, filled>>

PushWraps ==
  /\ role = "pusher" /\ pc = "wrap"
  /\ fifo' = PushWrap(fifo)
  /\ pc' = "idle"
  /\ UNCHANGED <<role, data, pushed, got, filled>>

\* Uart_handleTx.
HandlerPull ==
  /\ role = "pusher"
  /\ Len(got) < MaxPushes
  /\ ~ByteFifo_isEmpty(fifo)
  /\ got' = Append(got, PullData(fifo))
  /\ fifo' = ByteFifo_pull(fifo)
  /\ UNCHANGED <<role, pc, data, pushed, filled>>

-----------------------------------------------------------------------------
Task == \/ PullStart \/ PullWraps \/ PullSettles
        \/ \E byte \in Byte : PushStart(byte)
        \/ PushStores \/ PushAdvances \/ PushWraps

Handler == HandlerPull \/ \E byte \in Byte : HandlerPush(byte)

Next == Task \/ Handler

Spec == Init /\ [][Next]_vars

-----------------------------------------------------------------------------
(* What holds.                                                             *)

\* No interleaving takes a pointer out of the block where it is read or
\* written through, or leaves it outside for the handler to find: a pointer one
\* past the end is the task's own, between its increment and its wrap.
InBounds ==
  /\ fifo.last \in 1 .. Len(fifo.mem) + (IF role = "pusher" /\ pc = "wrap"
                                         THEN 1 ELSE 0)
  /\ fifo.first # NULL =>
       fifo.first \in 1 .. Len(fifo.mem) + (IF role = "puller" /\ pc = "wrap"
                                            THEN 1 ELSE 0)

\* The queue as the pull in progress will leave it.
Settled ==
  CASE pc = "wrap"   -> PullSettle(PullWrap(fifo))
    [] pc = "settle" -> PullSettle(fifo)
    [] OTHER         -> fifo

NothingLost == got \o Contents(Settled) = pushed

\* With the handler pushing between any two statements of ByteFifo_pull, the
\* bytes pulled and those still queued are the bytes accepted, in order, as long
\* as no push fills the ring while a pull is under way.
LossOnlyWhenFilled == role = "puller" /\ ~filled => NothingLost

(* What does not.                                                          *)

\* ByteFifo.h:161: a pull "Removes pulled item from queue", and leaves the
\* others.  A push that fills the ring between `first++' and the comparison of
\* first with last makes a full ring look like an empty one.
PullRemovesOne == role = "puller" => NothingLost
=============================================================================
