--------------------------- MODULE ByteFifoCalls ----------------------------
(***************************************************************************)
(* One ByteFifo driven by one caller: every operation of ByteFifo.h and    *)
(* ByteFifo.c is an action, run from its first statement to its last.  The *)
(* module shows that the pointer arithmetic implements BoundedQueue.       *)
(***************************************************************************)
EXTENDS ByteFifo

CONSTANT Blocks  \* the memory blocks, with their contents, the caller owns

ASSUME BlocksAssumption == Blocks \subseteq Seq(Byte)

ASSUME ByteAssumption == Byte \subseteq Nat

VARIABLES fifo,  \* the ByteFifo structure and its block
          reply  \* what the last call returned

vars == <<fifo, reply>>

NoVal == -1
Reply(op, ok, val) == [op |-> op, ok |-> ok, val |-> val]

\* The structure exists once it has been initialised with a real block:
\* ByteFifo.h:75 asks for that "before any use of ByteFifo".
Init ==
  /\ \E block \in Blocks \ {<<>>} :
       fifo \in {[first |-> NULL, last |-> Begin, mem |-> block],
                 [first |-> Begin, last |-> Begin, mem |-> block]}
  /\ reply = Reply("init", TRUE, NoVal)

AttachEmpty(block) ==
  /\ fifo' = ByteFifo_init(fifo, block)
  /\ reply' = IF block = <<>> THEN reply ELSE Reply("init", TRUE, NoVal)

AttachFilled(block) ==
  /\ fifo' = ByteFifo_initFromBytes(fifo, block)
  /\ reply' = IF block = <<>> THEN reply ELSE Reply("init", TRUE, NoVal)

Clear ==
  /\ fifo' = ByteFifo_clear(fifo)
  /\ reply' = Reply("clear", TRUE, NoVal)

Push(data) ==
  /\ fifo' = ByteFifo_push(fifo, data)
  /\ reply' = Reply("push", ~ByteFifo_isFull(fifo), NoVal)

Pull ==
  /\ fifo' = ByteFifo_pull(fifo)
  /\ reply' = IF ByteFifo_isEmpty(fifo) THEN Reply("pull", FALSE, NoVal)
              ELSE Reply("pull", TRUE, PullData(fifo))

Observe ==
  /\ \/ reply' = Reply("isEmpty", ByteFifo_isEmpty(fifo), NoVal)
     \/ reply' = Reply("isFull", ByteFifo_isFull(fifo), NoVal)
     \/ reply' = Reply("getCount", TRUE, ByteFifo_getCount(fifo))
  /\ UNCHANGED fifo

Next ==
  \/ \E block \in Blocks : AttachEmpty(block) \/ AttachFilled(block)
  \/ Clear
  \/ \E data \in Byte : Push(data)
  \/ Pull
  \/ Observe

Spec == Init /\ [][Next]_vars

-----------------------------------------------------------------------------
\* Between calls the pointers stay inside the block, and first is NULL
\* exactly when nothing is stored.
TypeOK ==
  /\ IsByteFifo(fifo)
  /\ reply \in [op : {"init", "clear", "push", "pull", "isEmpty", "isFull",
                     "getCount"},
               ok : BOOLEAN, val : Int]

\* Every call does to the bytes in the ring, and answers, what the same call
\* does and answers on a plain bounded queue: the wrap-around of first and
\* last, the use of NULL to tell an empty ring from a full one, and the count
\* computed from pointers that have crossed are invisible to the caller.
Queue == INSTANCE BoundedQueue WITH queue <- Contents(fifo),
                                    room <- Len(fifo.mem)

ImplementsQueue == Queue!Spec
=============================================================================
