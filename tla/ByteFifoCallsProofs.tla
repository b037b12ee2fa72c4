------------------------ MODULE ByteFifoCallsProofs -------------------------
(***************************************************************************)
(* ByteFifoCalls implements BoundedQueue, for every block and every set of *)
(* bytes.                                                                  *)
(***************************************************************************)
EXTENDS ByteFifoCalls, ByteFifoTheorems

\* No sequence of calls of ByteFifo.h and ByteFifo.c takes a pointer out of the
\* block.
THEOREM TypeCorrect == Spec => []TypeOK
  <1>1. Init => TypeOK
    <2> SUFFICES ASSUME Init PROVE TypeOK
      OBVIOUS
    <2>1. PICK block \in Blocks \ {<<>>} :
            fifo \in {[first |-> NULL, last |-> Begin, mem |-> block],
                      [first |-> Begin, last |-> Begin, mem |-> block]}
      BY DEF Init
    <2>2. block \in Seq(Byte) /\ Len(block) \in Nat \ {0}
      BY BlocksAssumption
    <2>3. IsByteFifo(fifo)
      BY <2>1, <2>2 DEF IsByteFifo, ByteFifoRec, Begin
    <2>4. QED
      BY <2>3 DEF Init, TypeOK, NoVal, Reply
  <1>2. TypeOK /\ [Next]_vars => TypeOK'
    <2> SUFFICES ASSUME TypeOK, [Next]_vars PROVE TypeOK'
      OBVIOUS
    <2> USE DEF TypeOK, NoVal, Reply
    <2>1. ASSUME NEW block \in Blocks, AttachEmpty(block) PROVE TypeOK'
      BY <2>1, BlocksAssumption, InitContents
         DEF AttachEmpty, ByteFifo_init, NoVal
    <2>2. ASSUME NEW block \in Blocks, AttachFilled(block) PROVE TypeOK'
      BY <2>2, BlocksAssumption, InitContents
         DEF AttachFilled, ByteFifo_initFromBytes, NoVal
    <2>3. CASE Clear
      <3>1. IsByteFifo(fifo')
        BY <2>3, ClearContents DEF Clear
      <3>2. QED
        BY <2>3, <3>1 DEF Clear, NoVal
    <2>4. ASSUME NEW data \in Byte, Push(data) PROVE TypeOK'
      <3>1. IsByteFifo(fifo')
        BY <2>4, PushContents DEF Push, ByteFifo_push
      <3>2. QED
        BY <2>4, <3>1 DEF Push, NoVal, ByteFifo_isFull
    <2>5. CASE Pull
      <3>1. IsByteFifo(fifo')
        BY <2>5, PullContents DEF Pull, ByteFifo_pull
      <3>2. CASE ByteFifo_isEmpty(fifo)
        BY <2>5, <3>1, <3>2 DEF Pull
      <3>3. CASE ~ByteFifo_isEmpty(fifo)
        <4>1. PullData(fifo) \in Byte
          BY <3>3, PullContents
        <4>2. PullData(fifo) \in Int
          <5> HIDE DEF TypeOK, NoVal, Reply
          <5>1. \A b \in Byte : b \in Int
            BY ByteAssumption
          <5>2. QED
            BY <4>1, <5>1
        <4>3. QED
          BY <2>5, <3>1, <3>3, <4>2 DEF Pull
      <3>4. QED
        BY <3>2, <3>3
    <2>6. CASE Observe
      <3>1. ByteFifo_getCount(fifo) \in Int
        BY CountRange DEF IsByteFifo, ByteFifoRec
      <3>2. IsByteFifo(fifo')
        BY <2>6 DEF Observe
      <3>3. CASE reply' = Reply("isEmpty", ByteFifo_isEmpty(fifo), NoVal)
        BY <3>2, <3>3 DEF ByteFifo_isEmpty
      <3>4. CASE reply' = Reply("isFull", ByteFifo_isFull(fifo), NoVal)
        BY <3>2, <3>4 DEF ByteFifo_isFull
      <3>5. CASE reply' = Reply("getCount", TRUE, ByteFifo_getCount(fifo))
        BY <3>1, <3>2, <3>5
      <3>6. QED
        BY <2>6, <3>3, <3>4, <3>5 DEF Observe
    <2>7. CASE UNCHANGED vars
      BY <2>7 DEF vars
    <2>8. QED
      BY <2>1, <2>2, <2>3, <2>4, <2>5, <2>6, <2>7 DEF Next
  <1>3. QED
    BY <1>1, <1>2, PTL DEF Spec

\* Whatever the calls, the ring behaves as a bounded queue: same bytes in the
\* same order, same refusals, same counts.
THEOREM RingImplementsQueue == Spec => ImplementsQueue
  <1>1. Init => Queue!Init
    <2> SUFFICES ASSUME Init PROVE Queue!Init
      OBVIOUS
    <2>1. PICK block \in Blocks \ {<<>>} :
            fifo \in {[first |-> NULL, last |-> Begin, mem |-> block],
                      [first |-> Begin, last |-> Begin, mem |-> block]}
      BY DEF Init
    <2>2. block \in Seq(Byte)
      BY BlocksAssumption
    <2>3. fifo \in {ByteFifo_init(NULL, block), ByteFifo_initFromBytes(NULL, block)}
      BY <2>1 DEF ByteFifo_init, ByteFifo_initFromBytes
    <2>4. Contents(fifo) \in {<<>>, block} /\ fifo.mem = block
      BY <2>2, <2>3, InitContents
    <2>5. QED
      BY <2>1, <2>4 DEF Init, Queue!Init, NoVal, Queue!NoVal, Reply, Queue!Reply
  <1>2. TypeOK /\ [Next]_vars => [Queue!Next]_(Queue!vars)
    <2> SUFFICES ASSUME TypeOK, [Next]_vars PROVE [Queue!Next]_(Queue!vars)
      OBVIOUS
    <2> USE DEF NoVal, Queue!NoVal, Reply, Queue!Reply
    <2>0. IsByteFifo(fifo) /\ Contents(fifo) \in Seq(Byte)
          /\ Len(Contents(fifo)) = ByteFifo_getCount(fifo)
      BY ContentsType DEF TypeOK
    <2>1. ASSUME NEW block \in Blocks, AttachEmpty(block) \/ AttachFilled(block)
          PROVE  [Queue!Next]_(Queue!vars)
      <3>1. CASE block = <<>>
        BY <2>1, <3>1 DEF AttachEmpty, AttachFilled, ByteFifo_init,
                          ByteFifo_initFromBytes, Queue!vars
      <3>2. CASE block # <<>>
        <4>1. Queue!Attach(block)
          BY <2>1, <3>2, BlocksAssumption, InitContents
             DEF AttachEmpty, AttachFilled, Queue!Attach
        <4>2. QED
          BY <4>1 DEF Queue!Next
      <3>3. QED
        BY <3>1, <3>2
    <2>2. CASE Clear
      <3>1. Queue!Clear
        BY <2>0, <2>2, ClearContents DEF Clear, Queue!Clear
      <3>2. QED
        BY <3>1 DEF Queue!Next
    <2>3. ASSUME NEW data \in Byte, Push(data) PROVE Queue!Next
      <3>1. ByteFifo_isFull(fifo) <=> ~(Len(Contents(fifo)) < Len(fifo.mem))
        BY <2>0, CountRange DEF IsByteFifo, ByteFifoRec
      <3>2. Queue!Push(data)
        BY <2>0, <2>3, <3>1, PushContents DEF Push, ByteFifo_push, Queue!Push
      <3>3. QED
        BY <3>2 DEF Queue!Next
    <2>4. CASE Pull
      <3>1. ByteFifo_isEmpty(fifo) <=> Contents(fifo) = <<>>
        BY <2>0, CountRange
      <3>2. CASE ByteFifo_isEmpty(fifo)
        BY <2>4, <3>1, <3>2 DEF Pull, ByteFifo_pull, Queue!Pull, Queue!Next
      <3>3. CASE ~ByteFifo_isEmpty(fifo)
        BY <2>0, <2>4, <3>1, <3>3, PullContents DEF Pull, Queue!Pull, Queue!Next
      <3>4. QED
        BY <3>2, <3>3
    <2>5. CASE Observe
      <3>1. /\ ByteFifo_isEmpty(fifo) <=> Contents(fifo) = <<>>
            /\ ByteFifo_isFull(fifo) <=> Len(Contents(fifo)) = Len(fifo.mem)
        BY <2>0, CountRange
      <3>2. Queue!Observe
        BY <2>0, <2>5, <3>1 DEF Observe, Queue!Observe, ByteFifo_isEmpty,
                                ByteFifo_isFull
      <3>3. QED
        BY <3>2 DEF Queue!Next
    <2>6. CASE UNCHANGED vars
      BY <2>6 DEF vars, Queue!vars, Contents, ByteFifo_getCount, ByteFifo_isEmpty, Slot
    <2>7. QED
      BY <2>1, <2>2, <2>3, <2>4, <2>5, <2>6 DEF Next
  <1>3. QED
    BY <1>1, <1>2, TypeCorrect, PTL DEF Spec, ImplementsQueue, Queue!Spec
=============================================================================
