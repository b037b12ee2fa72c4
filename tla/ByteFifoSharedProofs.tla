------------------------ MODULE ByteFifoSharedProofs ------------------------
(***************************************************************************)
(* What holds of a ByteFifo shared by a task and an interrupt handler, for *)
(* every block and every number of pushes: the pointers stay in the block, *)
(* and a task that pulls loses nothing unless a push fills the ring in the *)
(* middle of its pull.                                                     *)
(***************************************************************************)
EXTENDS ByteFifoShared, ByteFifoTheorems

\* The statements each end's call is made of, besides "idle".
Statements(end) ==
  IF end = "puller" THEN {"wrap", "settle"} ELSE {"store", "advance", "wrap"}

\* InBounds, end by end: the task's own pointer is one past the block between
\* its increment and its wrap, and nowhere else.
Ends ==
  LET n == Len(fifo.mem)
  IN  IF role = "puller"
      THEN /\ fifo.last \in 1 .. n
           /\ \/ fifo.first = NULL
              \/ fifo.first \in 1 .. n
              \/ pc = "wrap" /\ fifo.first = n + 1
      ELSE /\ \/ fifo.last \in 1 .. n
              \/ pc = "wrap" /\ fifo.last = n + 1
           /\ fifo.first = NULL \/ fifo.first \in 1 .. n

\* The bounds with what they rest on: the types, where each call can be, and
\* that a queue being pulled from is not empty for the handler to see.
Bounded ==
  /\ role \in {"puller", "pusher"}
  /\ fifo \in ByteFifoRec
  /\ Len(fifo.mem) \in Nat \ {0}
  /\ pc \in Statements(role) \cup {"idle"}
  /\ data \in Byte
  /\ role = "puller" /\ pc # "idle" => fifo.first # NULL
  /\ Ends

\* The bytes accounted for are bytes, and the queue to be left is a queue.
Accounted ==
  role = "puller" =>
    /\ got \in Seq(Byte)
    /\ NothingLost \/ filled

-----------------------------------------------------------------------------
(* The statements, one by one, as they change the three parts.             *)

\* A ByteFifoRec is its three parts.
LEMMA Parts ==
  ASSUME NEW f \in ByteFifoRec
  PROVE  /\ f = [first |-> f.first, last |-> f.last, mem |-> f.mem]
         /\ f.first \in Nat \cup {NULL} /\ f.last \in Nat /\ f.mem \in Seq(Byte)
         /\ NULL \notin Nat
  BY NullAssumption DEF ByteFifoRec

\* What the statements of ByteFifo_pull leave.
LEMMA PullStatements ==
  ASSUME NEW f \in ByteFifoRec, f.first # NULL
  PROVE  /\ PullAdvance(f) = [first |-> f.first + 1, last |-> f.last, mem |-> f.mem]
         /\ PullWrap(f) = [first |-> IF f.first = Len(f.mem) + 1 THEN 1 ELSE f.first,
                           last |-> f.last, mem |-> f.mem]
         /\ PullSettle(f) = [first |-> IF f.first = f.last THEN NULL ELSE f.first,
                             last |-> f.last, mem |-> f.mem]
         /\ PullAdvance(f) \in ByteFifoRec /\ PullAdvance(f).first # NULL
         /\ PullWrap(f) \in ByteFifoRec /\ PullWrap(f).first # NULL
         /\ PullSettle(f) \in ByteFifoRec
  <1>1. /\ f = [first |-> f.first, last |-> f.last, mem |-> f.mem]
        /\ f.first \in Nat /\ f.last \in Nat /\ f.mem \in Seq(Byte)
        /\ NULL \notin Nat
    BY Parts
  <1>2. PullAdvance(f) = [first |-> f.first + 1, last |-> f.last, mem |-> f.mem]
    BY <1>1 DEF PullAdvance
  <1>3. PullWrap(f) = [first |-> IF f.first = Len(f.mem) + 1 THEN 1 ELSE f.first,
                       last |-> f.last, mem |-> f.mem]
    BY <1>1 DEF PullWrap, End, Begin
  <1>4. PullSettle(f) = [first |-> IF f.first = f.last THEN NULL ELSE f.first,
                         last |-> f.last, mem |-> f.mem]
    BY <1>1 DEF PullSettle
  <1>5. QED
    BY <1>1, <1>2, <1>3, <1>4 DEF ByteFifoRec

\* What the statements of ByteFifo_push leave.
LEMMA PushStatements ==
  ASSUME NEW f \in ByteFifoRec, NEW byte \in Byte
  PROVE  /\ PushClaim(f) = [first |-> IF f.first = NULL THEN f.last ELSE f.first,
                            last |-> f.last, mem |-> f.mem]
         /\ PushStore(f, byte) = [first |-> f.first, last |-> f.last,
                                  mem |-> [f.mem EXCEPT ![f.last] = byte]]
         /\ PushAdvance(f) = [first |-> f.first, last |-> f.last + 1, mem |-> f.mem]
         /\ PushWrap(f) = [first |-> f.first,
                           last |-> IF f.last = Len(f.mem) + 1 THEN 1 ELSE f.last,
                           mem |-> f.mem]
         /\ PushClaim(f) \in ByteFifoRec /\ PushAdvance(f) \in ByteFifoRec
         /\ PushWrap(f) \in ByteFifoRec
         /\ f.last \in 1 .. Len(f.mem) =>
              /\ PushStore(f, byte) \in ByteFifoRec
              /\ Len(PushStore(f, byte).mem) = Len(f.mem)
  <1>1. /\ f = [first |-> f.first, last |-> f.last, mem |-> f.mem]
        /\ f.first \in Nat \cup {NULL} /\ f.last \in Nat /\ f.mem \in Seq(Byte)
    BY Parts
  <1>2. PushClaim(f) = [first |-> IF f.first = NULL THEN f.last ELSE f.first,
                        last |-> f.last, mem |-> f.mem]
    BY <1>1 DEF PushClaim
  <1>3. PushStore(f, byte) = [first |-> f.first, last |-> f.last,
                              mem |-> [f.mem EXCEPT ![f.last] = byte]]
    BY <1>1 DEF PushStore
  <1>4. PushAdvance(f) = [first |-> f.first, last |-> f.last + 1, mem |-> f.mem]
    BY <1>1 DEF PushAdvance
  <1>5. PushWrap(f) = [first |-> f.first,
                       last |-> IF f.last = Len(f.mem) + 1 THEN 1 ELSE f.last,
                       mem |-> f.mem]
    BY <1>1 DEF PushWrap, End, Begin
  <1>6. f.last \in 1 .. Len(f.mem) =>
          /\ [f.mem EXCEPT ![f.last] = byte] \in Seq(Byte)
          /\ Len([f.mem EXCEPT ![f.last] = byte]) = Len(f.mem)
    BY <1>1
  <1>7. QED
    BY <1>1, <1>2, <1>3, <1>4, <1>5, <1>6 DEF ByteFifoRec

\* What an accepted ByteFifo_push leaves, whole, even when first is one past the
\* end in the middle of a pull.
LEMMA PushParts ==
  ASSUME NEW f \in ByteFifoRec, NEW byte \in Byte,
         f.last \in 1 .. Len(f.mem), ~ByteFifo_isFull(f)
  PROVE  /\ ByteFifo_push(f, byte) =
              [first |-> IF f.first = NULL THEN f.last ELSE f.first,
               last  |-> IF f.last = Len(f.mem) THEN 1 ELSE f.last + 1,
               mem   |-> [f.mem EXCEPT ![f.last] = byte]]
         /\ ByteFifo_push(f, byte).last \in 1 .. Len(f.mem)
         /\ Len(ByteFifo_push(f, byte).mem) = Len(f.mem)
         /\ ByteFifo_push(f, byte) \in ByteFifoRec
  <1> DEFINE p == PushClaim(f)
             q == PushStore(p, byte)
             r == PushAdvance(q)
             s == PushWrap(r)
             n == Len(f.mem)
             mem == [f.mem EXCEPT ![f.last] = byte]
  <1>1. /\ p = [first |-> IF f.first = NULL THEN f.last ELSE f.first,
                last |-> f.last, mem |-> f.mem]
        /\ p \in ByteFifoRec /\ f.mem \in Seq(Byte) /\ n \in Nat
    BY PushStatements, Parts
  <1>2. /\ q = [first |-> p.first, last |-> p.last,
                mem |-> [p.mem EXCEPT ![p.last] = byte]]
        /\ q \in ByteFifoRec /\ Len(q.mem) = Len(p.mem)
    <2> HIDE DEF p
    <2>1. QED
      BY <1>1, PushStatements
  <1>3. /\ r = [first |-> q.first, last |-> q.last + 1, mem |-> q.mem]
        /\ r \in ByteFifoRec
    <2> HIDE DEF q
    <2>1. QED
      BY <1>2, PushStatements
  <1>4. /\ s = [first |-> r.first,
                last |-> IF r.last = Len(r.mem) + 1 THEN 1 ELSE r.last,
                mem |-> r.mem]
        /\ s \in ByteFifoRec
    <2> HIDE DEF r
    <2>1. QED
      BY <1>3, PushStatements
  <1>5. ByteFifo_push(f, byte) = s
    BY DEF ByteFifo_push
  <1> HIDE DEF p, q, r, s
  <1>6. /\ s.first = IF f.first = NULL THEN f.last ELSE f.first
        /\ s.mem = mem /\ Len(s.mem) = n
    BY <1>1, <1>2, <1>3, <1>4
  <1>7. s.last = IF f.last = n THEN 1 ELSE f.last + 1
    BY <1>1, <1>2, <1>3, <1>4
  <1>8. s = [first |-> s.first, last |-> s.last, mem |-> s.mem]
    BY <1>4
  <1>9. s.last \in 1 .. n
    BY <1>1, <1>7
  <1>10. QED
    BY <1>4, <1>5, <1>6, <1>7, <1>8, <1>9

-----------------------------------------------------------------------------
(* The pointers.                                                           *)

\* The queue is created inside its block.
LEMMA InitBounded == Init => Bounded
  <1> SUFFICES ASSUME Init PROVE Bounded
    OBVIOUS
  <1>1. /\ Block \in Seq(Byte) /\ Block # <<>>
        /\ fifo = [first |-> NULL, last |-> 1, mem |-> Block]
    BY SharedAssumption DEF Init, ByteFifo_init, Begin
  <1>2. Len(Block) \in Nat \ {0}
    BY <1>1
  <1>3. QED
    BY <1>1, <1>2 DEF Init, Bounded, Statements, Ends, ByteFifoRec

\* The task's pull leaves the block only between first's increment and its
\* comparison with the end.
LEMMA PullBounded ==
  ASSUME Bounded, PullStart \/ PullWraps \/ PullSettles
  PROVE  Bounded'
  <1>0. fifo \in ByteFifoRec /\ NULL \notin Nat
    BY Parts DEF Bounded
  <1>1. /\ role = "puller" /\ role' = role /\ data' = data
        /\ fifo.first # NULL
        /\ fifo.last \in 1 .. Len(fifo.mem) /\ Len(fifo.mem) \in Nat \ {0}
    BY DEF Bounded, Ends, PullStart, PullWraps, PullSettles, ByteFifo_isEmpty
  <1>2. CASE PullStart
    <2>1. /\ fifo' = [first |-> fifo.first + 1, last |-> fifo.last, mem |-> fifo.mem]
          /\ fifo' \in ByteFifoRec /\ fifo'.first # NULL
      BY <1>0, <1>1, <1>2, PullStatements DEF PullStart
    <2>2. fifo.first \in 1 .. Len(fifo.mem)
      BY <1>0, <1>1, <1>2 DEF Bounded, Ends, PullStart
    <2>3. pc' = "wrap"
      BY <1>2 DEF PullStart
    <2>4. Ends'
      BY <1>0, <1>1, <2>1, <2>2, <2>3 DEF Ends
    <2>5. QED
      BY <1>0, <1>1, <2>1, <2>3, <2>4 DEF Bounded, Statements
  <1>3. CASE PullWraps
    <2>1. /\ fifo' = [first |-> IF fifo.first = Len(fifo.mem) + 1 THEN 1
                                ELSE fifo.first,
                      last |-> fifo.last, mem |-> fifo.mem]
          /\ fifo' \in ByteFifoRec /\ fifo'.first # NULL
      BY <1>0, <1>1, <1>3, PullStatements DEF PullWraps
    <2>2. fifo.first \in 1 .. Len(fifo.mem) + 1
      BY <1>0, <1>1, <1>3 DEF Bounded, Ends, PullWraps
    <2>3. pc' = "settle"
      BY <1>3 DEF PullWraps
    <2>4. Ends'
      BY <1>0, <1>1, <2>1, <2>2, <2>3 DEF Ends
    <2>5. QED
      BY <1>0, <1>1, <2>1, <2>3, <2>4 DEF Bounded, Statements
  <1>4. CASE PullSettles
    <2>1. /\ fifo' = [first |-> IF fifo.first = fifo.last THEN NULL
                                ELSE fifo.first,
                      last |-> fifo.last, mem |-> fifo.mem]
          /\ fifo' \in ByteFifoRec
      BY <1>0, <1>1, <1>4, PullStatements DEF PullSettles
    <2>2. fifo.first \in 1 .. Len(fifo.mem)
      BY <1>0, <1>1, <1>4 DEF Bounded, Ends, PullSettles
    <2>3. pc' = "idle"
      BY <1>4 DEF PullSettles
    <2>4. Ends'
      BY <1>0, <1>1, <2>1, <2>2, <2>3 DEF Ends
    <2>5. QED
      BY <1>0, <1>1, <2>1, <2>3, <2>4 DEF Bounded, Statements
  <1>5. QED
    BY <1>2, <1>3, <1>4

\* So does the task's push, with last.
LEMMA PushBounded ==
  ASSUME Bounded,
         \/ \E byte \in Byte : PushStart(byte)
         \/ PushStores \/ PushAdvances \/ PushWraps
  PROVE  Bounded'
  <1>0. fifo \in ByteFifoRec /\ NULL \notin Nat
    BY Parts DEF Bounded
  <1>1. /\ role = "pusher" /\ role' = role /\ data \in Byte
        /\ fifo.first \in (1 .. Len(fifo.mem)) \cup {NULL}
        /\ Len(fifo.mem) \in Nat \ {0}
    BY DEF Bounded, Ends, PushStart, PushStores, PushAdvances, PushWraps
  <1>2. ASSUME NEW byte \in Byte, PushStart(byte) PROVE Bounded'
    <2>1. /\ fifo' = [first |-> IF fifo.first = NULL THEN fifo.last ELSE fifo.first,
                      last |-> fifo.last, mem |-> fifo.mem]
          /\ fifo' \in ByteFifoRec
      BY <1>0, <1>1, <1>2, PushStatements DEF PushStart
    <2>2. fifo.last \in 1 .. Len(fifo.mem)
      BY <1>0, <1>1, <1>2 DEF Bounded, Ends, PushStart
    <2>3. pc' = "store" /\ data' = byte
      BY <1>2 DEF PushStart
    <2>4. Ends'
      BY <1>0, <1>1, <2>1, <2>2, <2>3 DEF Ends
    <2>5. QED
      BY <1>0, <1>1, <2>1, <2>3, <2>4 DEF Bounded, Statements
  <1>3. CASE PushStores
    <2>1. fifo.last \in 1 .. Len(fifo.mem)
      BY <1>0, <1>1, <1>3 DEF Bounded, Ends, PushStores
    <2>2. /\ fifo'.first = fifo.first /\ fifo'.last = fifo.last
          /\ Len(fifo'.mem) = Len(fifo.mem)
          /\ fifo' \in ByteFifoRec
      <3>1. fifo' = PushStore(fifo, data)
        BY <1>3 DEF PushStores
      <3>2. /\ fifo' = [first |-> fifo.first, last |-> fifo.last,
                        mem |-> [fifo.mem EXCEPT ![fifo.last] = data]]
            /\ fifo' \in ByteFifoRec
            /\ Len(fifo'.mem) = Len(fifo.mem)
        BY <1>0, <1>1, <2>1, <3>1, PushStatements
      <3>3. QED
        BY <3>2
    <2>3. pc' = "advance" /\ data' = data
      BY <1>3 DEF PushStores
    <2>4. Ends'
      BY <1>0, <1>1, <2>1, <2>2, <2>3 DEF Ends
    <2>5. QED
      BY <1>0, <1>1, <2>2, <2>3, <2>4 DEF Bounded, Statements
  <1>4. CASE PushAdvances
    <2>1. fifo.last \in 1 .. Len(fifo.mem)
      BY <1>0, <1>1, <1>4 DEF Bounded, Ends, PushAdvances
    <2>2. /\ fifo' = [first |-> fifo.first, last |-> fifo.last + 1, mem |-> fifo.mem]
          /\ fifo' \in ByteFifoRec
      BY <1>0, <1>1, <1>4, PushStatements DEF PushAdvances
    <2>3. pc' = "wrap" /\ data' = data
      BY <1>4 DEF PushAdvances
    <2>4. Ends'
      BY <1>0, <1>1, <2>1, <2>2, <2>3 DEF Ends
    <2>5. QED
      BY <1>0, <1>1, <2>2, <2>3, <2>4 DEF Bounded, Statements
  <1>5. CASE PushWraps
    <2>1. fifo.last \in 1 .. Len(fifo.mem) + 1
      BY <1>0, <1>1, <1>5 DEF Bounded, Ends, PushWraps
    <2>2. /\ fifo' = [first |-> fifo.first,
                      last |-> IF fifo.last = Len(fifo.mem) + 1 THEN 1 ELSE fifo.last,
                      mem |-> fifo.mem]
          /\ fifo' \in ByteFifoRec
      BY <1>0, <1>1, <1>5, PushStatements DEF PushWraps
    <2>3. pc' = "idle" /\ data' = data
      BY <1>5 DEF PushWraps
    <2>4. Ends'
      BY <1>0, <1>1, <2>1, <2>2, <2>3 DEF Ends
    <2>5. QED
      BY <1>0, <1>1, <2>2, <2>3, <2>4 DEF Bounded, Statements
  <1>6. QED
    BY <1>2, <1>3, <1>4, <1>5

\* The handler's calls find the pointers of their own end inside the block, and
\* put them back there; they touch the other end's only to claim an empty queue
\* and to settle one they emptied.
LEMMA HandlerBounded ==
  ASSUME Bounded, HandlerPull \/ \E byte \in Byte : HandlerPush(byte)
  PROVE  Bounded'
  <1>0. fifo \in ByteFifoRec /\ NULL \notin Nat /\ Len(fifo.mem) \in Nat \ {0}
    BY Parts DEF Bounded
  <1>1. role' = role /\ pc' = pc /\ data' = data
    BY DEF HandlerPull, HandlerPush
  <1>2. CASE HandlerPull
    <2>1. /\ role = "pusher" /\ fifo.first \in 1 .. Len(fifo.mem)
          /\ ~ByteFifo_isEmpty(fifo)
      BY <1>2 DEF Bounded, Ends, HandlerPull, ByteFifo_isEmpty
    <2> DEFINE p == PullAdvance(fifo)
               q == PullWrap(p)
               r == PullSettle(q)
    <2>2. fifo' = r
      BY <1>2, <2>1 DEF HandlerPull, ByteFifo_pull
    <2>3. /\ p = [first |-> fifo.first + 1, last |-> fifo.last, mem |-> fifo.mem]
          /\ p \in ByteFifoRec /\ p.first # NULL
      BY <1>0, <2>1, PullStatements
    <2>4. /\ q = [first |-> IF p.first = Len(p.mem) + 1 THEN 1 ELSE p.first,
                  last |-> p.last, mem |-> p.mem]
          /\ q \in ByteFifoRec /\ q.first # NULL
      <3> HIDE DEF p
      <3>1. QED
        BY <2>3, PullStatements
    <2>5. /\ r = [first |-> IF q.first = q.last THEN NULL ELSE q.first,
                  last |-> q.last, mem |-> q.mem]
          /\ r \in ByteFifoRec
      <3> HIDE DEF q
      <3>1. QED
        BY <2>4, PullStatements
    <2> HIDE DEF p, q, r
    <2>6. /\ q.first \in 1 .. Len(fifo.mem) /\ q.last = fifo.last
          /\ q.mem = fifo.mem
      BY <1>0, <2>1, <2>3, <2>4
    <2>7. /\ fifo'.first \in (1 .. Len(fifo.mem)) \cup {NULL}
          /\ fifo'.last = fifo.last /\ fifo'.mem = fifo.mem
          /\ fifo' \in ByteFifoRec
      BY <2>2, <2>5, <2>6
    <2>8. Ends'
      BY <1>1, <2>1, <2>7 DEF Bounded, Ends
    <2>9. QED
      BY <1>1, <2>1, <2>7, <2>8 DEF Bounded
  <1>3. ASSUME NEW byte \in Byte, HandlerPush(byte) PROVE Bounded'
    <2>1. role = "puller" /\ fifo' = ByteFifo_push(fifo, byte)
      BY <1>3 DEF HandlerPush
    <2>2. /\ fifo.last \in 1 .. Len(fifo.mem)
          /\ fifo.first # NULL => fifo.first \in 1 .. Len(fifo.mem) + 1
      BY <1>0, <2>1 DEF Bounded, Ends
    <2>3. CASE ByteFifo_isFull(fifo)
      BY <1>1, <2>1, <2>3 DEF Bounded, Ends, ByteFifo_push
    <2>4. CASE ~ByteFifo_isFull(fifo)
      <3>1. /\ fifo'.first = IF fifo.first = NULL THEN fifo.last ELSE fifo.first
            /\ fifo'.last \in 1 .. Len(fifo.mem)
            /\ Len(fifo'.mem) = Len(fifo.mem)
            /\ fifo' \in ByteFifoRec
        BY <1>0, <2>1, <2>2, <2>4, PushParts
      <3>2. Ends'
        BY <1>0, <1>1, <2>1, <2>2, <3>1 DEF Bounded, Ends
      <3>3. QED
        BY <1>0, <1>1, <2>1, <2>2, <3>1, <3>2 DEF Bounded
    <2>5. QED
      BY <2>3, <2>4
  <1>4. QED
    BY <1>2, <1>3

\* The inductive invariant, and the theorem.
LEMMA BoundedInvariant == Spec => []Bounded
  <1>1. Bounded /\ [Next]_vars => Bounded'
    <2> SUFFICES ASSUME Bounded, [Next]_vars PROVE Bounded'
      OBVIOUS
    <2>1. CASE PullStart \/ PullWraps \/ PullSettles
      BY <2>1, PullBounded
    <2>2. CASE \/ \E byte \in Byte : PushStart(byte)
               \/ PushStores \/ PushAdvances \/ PushWraps
      BY <2>2, PushBounded
    <2>3. CASE Handler
      BY <2>3, HandlerBounded DEF Handler
    <2>4. CASE UNCHANGED vars
      BY <2>4 DEF vars, Bounded, Ends
    <2>5. QED
      BY <2>1, <2>2, <2>3, <2>4 DEF Next, Task
  <1>2. QED
    BY <1>1, InitBounded, PTL DEF Spec

\* Whatever the interleaving of the statements of ByteFifo_push or ByteFifo_pull
\* with the interrupt handler's calls, no pointer leaves the block but the
\* task's own, between its increment and its wrap.
THEOREM PointersInBounds == Spec => []InBounds
  <1>1. Bounded => InBounds
    <2> SUFFICES ASSUME Bounded PROVE InBounds
      OBVIOUS
    <2> DEFINE n == Len(fifo.mem)
               last  == fifo.last
               first == fifo.first
    <2>1. n \in Nat \ {0} /\ role \in {"puller", "pusher"}
      BY DEF Bounded
    <2>2. \/ /\ role = "puller"
             /\ last \in 1 .. n
             /\ \/ first = NULL
                \/ first \in 1 .. n
                \/ pc = "wrap" /\ first = n + 1
          \/ /\ role = "pusher"
             /\ \/ last \in 1 .. n
                \/ pc = "wrap" /\ last = n + 1
             /\ first = NULL \/ first \in 1 .. n
      BY <2>1 DEF Bounded, Ends
    <2> HIDE DEF n, last, first
    <2>3. last \in 1 .. n + (IF role = "pusher" /\ pc = "wrap" THEN 1 ELSE 0)
      BY <2>1, <2>2
    <2>4. first # NULL =>
            first \in 1 .. n + (IF role = "puller" /\ pc = "wrap" THEN 1 ELSE 0)
      BY <2>1, <2>2
    <2>5. QED
      BY <2>3, <2>4 DEF InBounds, n, last, first
  <1>2. QED
    BY <1>1, BoundedInvariant, PTL

-----------------------------------------------------------------------------
(* The bytes.                                                              *)

\* Half way through a pull, the structure has two parts that are in place and
\* one, first, that is where First says once it has wrapped.
LEMMA Midway ==
  ASSUME Bounded, role = "puller", pc # "idle"
  PROVE  LET n == Len(fifo.mem)
         IN  /\ First \in 1 .. n
             /\ First = IF fifo.first = n + 1 THEN 1 ELSE fifo.first
             /\ Settled = [first |-> IF First = fifo.last THEN NULL ELSE First,
                           last |-> fifo.last, mem |-> fifo.mem]
             /\ IsByteFifo(Settled)
  <1> DEFINE n == Len(fifo.mem)
             w == PullWrap(fifo)
  <1>1. /\ fifo \in ByteFifoRec /\ fifo.first # NULL /\ n \in Nat \ {0}
        /\ fifo.last \in 1 .. n
        /\ fifo.first \in 1 .. n \/ (pc = "wrap" /\ fifo.first = n + 1)
        /\ pc \in {"wrap", "settle"}
    BY DEF Bounded, Ends, Statements
  <1>2. /\ w = [first |-> IF fifo.first = n + 1 THEN 1 ELSE fifo.first,
                last |-> fifo.last, mem |-> fifo.mem]
        /\ w \in ByteFifoRec /\ w.first # NULL
    BY <1>1, PullStatements
  <1>3. /\ First = IF fifo.first = n + 1 THEN 1 ELSE fifo.first
        /\ First \in 1 .. n /\ w.first = First
    BY <1>1, <1>2 DEF First
  <1>4. Settled = [first |-> IF First = fifo.last THEN NULL ELSE First,
                   last |-> fifo.last, mem |-> fifo.mem]
    <2>1. CASE pc = "wrap"
      <3>1. Settled = PullSettle(w)
        BY <2>1 DEF Settled
      <3>2. PullSettle(w) = [first |-> IF w.first = w.last THEN NULL ELSE w.first,
                             last |-> w.last, mem |-> w.mem]
        <4> HIDE DEF w
        <4>1. QED
          BY <1>2, PullStatements
      <3>3. QED
        <4> HIDE DEF w
        <4>1. QED
          BY <1>2, <1>3, <3>1, <3>2
    <2>2. CASE pc = "settle"
      <3>1. Settled = PullSettle(fifo)
        BY <2>2 DEF Settled
      <3>2. fifo.first = First
        BY <1>1, <1>3, <2>2
      <3>3. QED
        BY <1>1, <3>1, <3>2, PullStatements
    <2>3. QED
      BY <1>1, <2>1, <2>2
  <1>5. IsByteFifo(Settled)
    <2>1. fifo.mem \in Seq(Byte)
      BY <1>1 DEF ByteFifoRec
    <2>2. QED
      BY <1>1, <1>3, <1>4, <2>1 DEF IsByteFifo, ByteFifoRec
  <1>6. QED
    BY <1>3, <1>4, <1>5

\* Between calls there is nothing to settle.
LEMMA AtRest ==
  ASSUME Bounded, role = "puller", pc = "idle"
  PROVE  Settled = fifo /\ IsByteFifo(fifo)
  <1>1. Settled = fifo
    BY DEF Settled
  <1>2. QED
    BY <1>1 DEF Bounded, Ends, IsByteFifo

\* The first statement of a pull does, as far as the bytes go, all of it.
LEMMA PullStartAccounts ==
  ASSUME Bounded, Accounted, PullStart
  PROVE  Accounted'
  <1>1. /\ role = "puller" /\ pc = "idle" /\ ~ByteFifo_isEmpty(fifo)
        /\ got' = Append(got, PullData(fifo)) /\ pushed' = pushed
        /\ fifo' = PullAdvance(fifo) /\ pc' = "wrap" /\ filled' = filled
        /\ role' = role
    BY DEF PullStart
  <1>2. Settled = fifo /\ IsByteFifo(fifo)
    BY <1>1, AtRest
  <1>3. Settled' = ByteFifo_pull(fifo)
    BY <1>1 DEF Settled, ByteFifo_pull
  <1>4. /\ Contents(fifo) # <<>> /\ Contents(fifo) \in Seq(Byte)
        /\ PullData(fifo) = Head(Contents(fifo)) /\ PullData(fifo) \in Byte
        /\ Contents(ByteFifo_pull(fifo)) = Tail(Contents(fifo))
    BY <1>1, <1>2, PullContents, ContentsType
  <1>5. got \in Seq(Byte) /\ (NothingLost \/ filled)
    BY <1>1 DEF Accounted
  <1>6. /\ got' \in Seq(Byte)
        /\ got' \o Tail(Contents(fifo)) = got \o Contents(fifo)
    BY <1>1, <1>4, <1>5, HeadMoves
  <1>7. NothingLost => NothingLost'
    BY <1>1, <1>2, <1>3, <1>4, <1>6 DEF NothingLost
  <1>8. QED
    BY <1>1, <1>5, <1>6, <1>7 DEF Accounted

\* The other two change nothing that is not already taken into account.
LEMMA PullEndsAccounts ==
  ASSUME Bounded, Accounted, PullWraps \/ PullSettles
  PROVE  Accounted'
  <1>1. /\ role' = role /\ got' = got /\ pushed' = pushed /\ filled' = filled
    BY DEF PullWraps, PullSettles
  <1>2. Settled' = Settled
    <2>1. CASE PullWraps
      BY <2>1 DEF PullWraps, Settled
    <2>2. CASE PullSettles
      BY <2>2 DEF PullSettles, Settled
    <2>3. QED
      BY <2>1, <2>2
  <1>3. NothingLost' <=> NothingLost
    BY <1>1, <1>2 DEF NothingLost
  <1>4. QED
    BY <1>1, <1>3 DEF Accounted

\* A push in the middle of a pull that does not fill the ring is a push on the
\* queue the pull will leave, even when the pull is about to empty it.
LEMMA PushSettles ==
  ASSUME Bounded, NEW byte \in Byte, HandlerPush(byte), pc # "idle",
         ~ByteFifo_isFull(fifo), fifo'.last # First
  PROVE  /\ ~ByteFifo_isFull(Settled)
         /\ Settled' = ByteFifo_push(Settled, byte)
  <1> DEFINE n == Len(fifo.mem)
             mem == [fifo.mem EXCEPT ![fifo.last] = byte]
             next == IF fifo.last = n THEN 1 ELSE fifo.last + 1
  <1>1. /\ role = "puller" /\ role' = role /\ pc' = pc
        /\ fifo' = ByteFifo_push(fifo, byte)
    BY DEF HandlerPush
  <1>2. /\ fifo \in ByteFifoRec /\ n \in Nat \ {0} /\ fifo.last \in 1 .. n
        /\ fifo.first # NULL /\ NULL \notin Nat
        /\ fifo.first # fifo.last
        /\ pc \in {"wrap", "settle"}
    BY <1>1, Parts DEF Bounded, Ends, Statements, ByteFifo_isFull
  <1>3. /\ First \in 1 .. n
        /\ First = IF fifo.first = n + 1 THEN 1 ELSE fifo.first
        /\ Settled = [first |-> IF First = fifo.last THEN NULL ELSE First,
                      last |-> fifo.last, mem |-> fifo.mem]
        /\ IsByteFifo(Settled)
    BY <1>1, Midway
  <1>4. ~ByteFifo_isFull(Settled)
    BY <1>2, <1>3 DEF ByteFifo_isFull
  <1>5. /\ fifo' = [first |-> fifo.first, last |-> next, mem |-> mem]
        /\ fifo' \in ByteFifoRec /\ next \in 1 .. n /\ Len(mem) = n
    BY <1>1, <1>2, PushParts
  <1>6. ByteFifo_push(Settled, byte) = [first |-> First, last |-> next, mem |-> mem]
    <2>1. Settled \in ByteFifoRec
      BY <1>3 DEF IsByteFifo
    <2>2. /\ Settled.last = fifo.last /\ Settled.mem = fifo.mem
          /\ Settled.first = IF First = fifo.last THEN NULL ELSE First
      BY <1>3
    <2>3. ByteFifo_push(Settled, byte) =
            [first |-> IF Settled.first = NULL THEN Settled.last ELSE Settled.first,
             last  |-> IF Settled.last = Len(Settled.mem) THEN 1 ELSE Settled.last + 1,
             mem   |-> [Settled.mem EXCEPT ![Settled.last] = byte]]
      BY <1>2, <1>4, <2>1, <2>2, PushParts
    <2>4. (IF Settled.first = NULL THEN Settled.last ELSE Settled.first) = First
      BY <1>2, <1>3, <2>2
    <2>5. QED
      BY <2>2, <2>3, <2>4
  <1>7. Settled' = [first |-> First, last |-> next, mem |-> mem]
    <2> DEFINE w == PullWrap(fifo')
    <2>1. fifo'.first = fifo.first /\ fifo'.last = next /\ fifo'.mem = mem
      BY <1>5
    <2>2. /\ w = [first |-> IF fifo.first = n + 1 THEN 1 ELSE fifo.first,
                  last |-> next, mem |-> mem]
          /\ w \in ByteFifoRec /\ w.first # NULL
      BY <1>2, <1>5, <2>1, PullStatements
    <2>3. w = [first |-> First, last |-> next, mem |-> mem]
      BY <1>3, <2>2
    <2>4. First # next
      BY <2>1
    <2>5. CASE pc = "wrap"
      <3>1. Settled' = PullSettle(w)
        BY <1>1, <2>5 DEF Settled
      <3>2. PullSettle(w) = [first |-> IF w.first = w.last THEN NULL ELSE w.first,
                             last |-> w.last, mem |-> w.mem]
        <4> HIDE DEF w
        <4>1. QED
          BY <2>2, PullStatements
      <3>3. QED
        <4> HIDE DEF w, next, mem
        <4>1. QED
          BY <2>3, <2>4, <3>1, <3>2
    <2>6. CASE pc = "settle"
      <3>1. Settled' = PullSettle(fifo')
        BY <1>1, <2>6 DEF Settled
      <3>2. fifo.first = First
        BY <1>1, <1>2, <1>3, <2>6 DEF Bounded, Ends
      <3>3. PullSettle(fifo') = [first |-> IF fifo'.first = fifo'.last THEN NULL
                                           ELSE fifo'.first,
                                 last |-> fifo'.last, mem |-> fifo'.mem]
        BY <1>2, <1>5, <2>1, PullStatements
      <3>4. QED
        BY <2>1, <2>4, <3>1, <3>2, <3>3
    <2>7. QED
      BY <1>2, <2>5, <2>6
  <1>8. QED
    BY <1>4, <1>6, <1>7

\* The handler's byte joins the end of the queue, or is dropped where it stands.
LEMMA HandlerPushAccounts ==
  ASSUME Bounded, Accounted, NEW byte \in Byte, HandlerPush(byte)
  PROVE  Accounted'
  <1>1. /\ role = "puller" /\ role' = role /\ got' = got /\ pc' = pc
        /\ fifo' = ByteFifo_push(fifo, byte)
        /\ got \in Seq(Byte) /\ (NothingLost \/ filled)
    BY DEF HandlerPush, Accounted
  <1>2. CASE ByteFifo_isFull(fifo)
    <2>1. fifo' = fifo /\ pushed' = pushed /\ filled' = filled
      BY <1>1, <1>2 DEF HandlerPush, ByteFifo_push
    <2>2. NothingLost' <=> NothingLost
      BY <1>1, <2>1 DEF NothingLost, Settled
    <2>3. QED
      BY <1>1, <2>1, <2>2 DEF Accounted
  <1>3. CASE ~ByteFifo_isFull(fifo)
    <2>1. /\ pushed' = Append(pushed, byte)
          /\ filled' = (filled \/ (pc # "idle" /\ fifo'.last = First))
      BY <1>3 DEF HandlerPush
    <2>2. CASE filled'
      BY <1>1, <2>2 DEF Accounted
    <2>3. CASE ~filled'
      <3>1. NothingLost /\ (pc # "idle" => fifo'.last # First)
        BY <1>1, <2>1, <2>3
      <3>2. /\ IsByteFifo(Settled) /\ ~ByteFifo_isFull(Settled)
            /\ Settled' = ByteFifo_push(Settled, byte)
        <4>1. CASE pc = "idle"
          <5>1. Settled = fifo /\ IsByteFifo(fifo)
            BY <1>1, <4>1, AtRest
          <5>2. Settled' = fifo'
            BY <1>1, <4>1 DEF Settled
          <5>3. QED
            BY <1>1, <1>3, <5>1, <5>2
        <4>2. CASE pc # "idle"
          BY <1>1, <1>3, <3>1, <4>2, Midway, PushSettles
        <4>3. QED
          BY <4>1, <4>2
      <3>3. /\ Contents(Settled) \in Seq(Byte)
            /\ Contents(Settled)' = Append(Contents(Settled), byte)
        BY <3>2, ContentsType, PushContents
      <3>4. got \o Append(Contents(Settled), byte)
              = Append(got \o Contents(Settled), byte)
        BY <1>1, <3>3, AppendAtEnd
      <3>5. NothingLost'
        BY <1>1, <2>1, <3>1, <3>3, <3>4 DEF NothingLost
      <3>6. QED
        BY <1>1, <3>5 DEF Accounted
    <2>4. QED
      BY <2>2, <2>3
  <1>4. QED
    BY <1>2, <1>3

\* With an interrupt between any two statements of ByteFifo_pull, what was
\* pulled and what is still queued are the bytes the handler pushed, in order,
\* unless a push filled the ring in the middle of a pull.
THEOREM PullLosesOnlyWhenFilled == Spec => []LossOnlyWhenFilled
  <1>1. Init => Accounted
    <2> SUFFICES ASSUME Init, role = "puller" PROVE Accounted
      BY DEF Accounted
    <2>1. fifo = ByteFifo_init(NULL, Block) /\ Block \in Seq(Byte) /\ Block # <<>>
      BY SharedAssumption DEF Init
    <2>2. Contents(Settled) = <<>>
      BY <2>1, InitContents DEF Init, Settled
    <2>3. QED
      BY <2>2 DEF Init, Accounted, NothingLost
  <1>2. Bounded /\ Accounted /\ [Next]_vars => Accounted'
    <2> SUFFICES ASSUME Bounded, Accounted, [Next]_vars PROVE Accounted'
      OBVIOUS
    <2>1. CASE PullStart
      BY <2>1, PullStartAccounts
    <2>2. CASE PullWraps \/ PullSettles
      BY <2>2, PullEndsAccounts
    <2>3. ASSUME NEW byte \in Byte, HandlerPush(byte) PROVE Accounted'
      BY <2>3, HandlerPushAccounts
    <2>4. CASE \/ \E byte \in Byte : PushStart(byte)
               \/ PushStores \/ PushAdvances \/ PushWraps \/ HandlerPull
      BY <2>4 DEF Accounted, PushStart, PushStores, PushAdvances, PushWraps,
                  HandlerPull
    <2>5. CASE UNCHANGED vars
      BY <2>5 DEF vars, Accounted, NothingLost, Settled
    <2>6. QED
      BY <2>1, <2>2, <2>3, <2>4, <2>5 DEF Next, Task, Handler
  <1>3. Accounted => LossOnlyWhenFilled
    BY DEF Accounted, LossOnlyWhenFilled
  <1>4. QED
    BY <1>1, <1>2, <1>3, BoundedInvariant, PTL DEF Spec
=============================================================================
