-------------------------- MODULE ByteFifoTheorems --------------------------
(***************************************************************************)
(* What the functions of ByteFifo.h do to the queue a ring stands for,     *)
(* proved for a block of any size and bytes of any kind.  No proof about a *)
(* module that holds a ByteFifo has to look at its pointers again.         *)
(***************************************************************************)
EXTENDS ByteFifo, SequenceTheorems, TLAPS

-----------------------------------------------------------------------------
(* Bytes move off the front of one sequence onto the end of the one before *)
(* it: facts about splitting and joining sequences, in that form.          *)

\* A sequence is its head and its tail.
LEMMA HeadAndTail ==
  ASSUME NEW S, NEW t \in Seq(S), t # <<>>
  PROVE  /\ Head(t) \in S
         /\ Tail(t) \in Seq(S)
         /\ <<Head(t)>> \o Tail(t) = t
  <1>1. Head(t) \in S /\ Tail(t) \in Seq(S) /\ Len(t) \in Nat \ {0}
    BY HeadTailProperties, EmptySeq
  <1>2. SubSeq(t, 1, Len(t)) = <<t[1]>> \o SubSeq(t, 2, Len(t))
    BY <1>1, SubSeqRecursiveFirst
  <1>3. Head(t) = t[1]
    OBVIOUS
  <1>4. QED
    BY <1>1, <1>2, <1>3, SubSeqFull, TailIsSubSeq

\* Moving the head of t to the end of s leaves the whole as it is.
LEMMA HeadMoves ==
  ASSUME NEW S, NEW s \in Seq(S), NEW t \in Seq(S), t # <<>>
  PROVE  /\ Append(s, Head(t)) \in Seq(S)
         /\ Append(s, Head(t)) \o Tail(t) = s \o t
         /\ (s \o <<Head(t)>>) \o Tail(t) = s \o t
  <1>1. /\ Head(t) \in S
        /\ Tail(t) \in Seq(S)
        /\ <<Head(t)>> \o Tail(t) = t
    BY HeadAndTail
  <1>2. <<Head(t)>> \in Seq(S)
    BY <1>1
  <1>3. Append(s, Head(t)) = s \o <<Head(t)>>
    BY <1>1, AppendIsConcat
  <1>4. (s \o <<Head(t)>>) \o Tail(t) = s \o (<<Head(t)>> \o Tail(t))
    BY <1>1, <1>2, ConcatAssociative
  <1>5. Append(s, Head(t)) \in Seq(S)
    BY <1>1, AppendProperties
  <1>6. QED
    BY <1>1, <1>3, <1>4, <1>5

\* An element added at the end of t is added at the end of the whole.
LEMMA AppendAtEnd ==
  ASSUME NEW S, NEW s \in Seq(S), NEW t \in Seq(S), NEW e \in S
  PROVE  /\ Append(t, e) \in Seq(S)
         /\ s \o Append(t, e) = Append(s \o t, e)
  <1>1. <<e>> \in Seq(S) /\ s \o t \in Seq(S)
    BY ConcatProperties
  <1>2. Append(t, e) = t \o <<e>> /\ Append(t, e) \in Seq(S)
    BY AppendIsConcat, AppendProperties
  <1>3. Append(s \o t, e) = (s \o t) \o <<e>>
    BY <1>1, AppendIsConcat
  <1>4. QED
    BY <1>1, <1>2, <1>3, ConcatAssociative

\* The beginning of s \o t as long as s is s.
LEMMA FirstPart ==
  ASSUME NEW S, NEW s \in Seq(S), NEW t \in Seq(S)
  PROVE  /\ SubSeq(s \o t, 1, Len(s)) = s
         /\ SubSeq(s \o t, 1, Len(s \o t) - Len(t)) = s
  <1>1. /\ Len(s) \in Nat /\ Len(t) \in Nat
        /\ Len(s \o t) = Len(s) + Len(t)
    BY ConcatProperties
  <1>2. SubSeq(s \o t, 1, Len(s)) = s
    <2>1. CASE s = <<>>
      <3>1. Len(s) = 0
        BY <2>1
      <3>2. SubSeq(s \o t, 1, 0) = <<>>
        BY SubSeqEmpty
      <3>3. QED
        BY <2>1, <3>1, <3>2
    <2>2. CASE s # <<>>
      <3>1. Len(s) \in 1 .. Len(s) /\ 1 \in 1 .. Len(s)
        BY <1>1, <2>2, EmptySeq
      <3>2. SubSeq(s \o t, 1, Len(s)) = SubSeq(s, 1, Len(s))
        BY <3>1, SubSeqOfConcat1
      <3>3. QED
        BY <3>2, SubSeqFull
    <2>3. QED
      BY <2>1, <2>2
  <1>3. Len(s \o t) - Len(t) = Len(s)
    BY <1>1
  <1>4. QED
    BY <1>2, <1>3

\* Leaving out the first element of t leaves s and the tail of t.
LEMMA HeadDropped ==
  ASSUME NEW S, NEW s \in Seq(S), NEW t \in Seq(S), t # <<>>
  PROVE  LET i == Len(s \o t) - Len(t) + 1
         IN  SubSeq(s \o t, 1, i - 1) \o SubSeq(s \o t, i + 1, Len(s \o t))
               = s \o Tail(t)
  <1> DEFINE n == Len(s)
             k == Len(t)
  <1>1. /\ n \in Nat /\ k \in Nat \ {0}
        /\ Len(s \o t) = n + k
    BY ConcatProperties, EmptySeq
  <1>2. SubSeq(s \o t, 1, n) = s
    BY FirstPart
  <1>3. SubSeq(s \o t, n + 2, n + k) = Tail(t)
    <2>1. CASE k = 1
      <3>1. SubSeq(s \o t, n + 2, n + k) = <<>>
        BY <1>1, <2>1, SubSeqEmpty
      <3>2. SubSeq(t, 2, k) = <<>>
        BY <1>1, <2>1, SubSeqEmpty
      <3>3. QED
        BY <3>1, <3>2, TailIsSubSeq
    <2>2. CASE k > 1
      <3>1. n + 2 \in n + 1 .. n + k /\ n + k \in n + 1 .. n + k
        BY <1>1, <2>2
      <3>2. SubSeq(s \o t, n + 2, n + k) = SubSeq(t, n + 2 - n, n + k - n)
        BY <3>1, SubSeqOfConcat2
      <3>3. n + 2 - n = 2 /\ n + k - n = k
        BY <1>1
      <3>4. QED
        BY <3>2, <3>3, TailIsSubSeq
    <2>3. QED
      BY <1>1, <2>1, <2>2
  <1> DEFINE i == Len(s \o t) - Len(t) + 1
  <1>4. i - 1 = n /\ i + 1 = n + 2 /\ Len(s \o t) = n + k
    BY <1>1
  <1>5. SubSeq(s \o t, 1, i - 1) \o SubSeq(s \o t, i + 1, Len(s \o t))
          = s \o Tail(t)
    <2> HIDE DEF i, n, k
    <2>1. QED
      BY <1>2, <1>3, <1>4
  <1>6. QED
    BY <1>5

-----------------------------------------------------------------------------
(* The ring.                                                               *)

\* ByteFifo_getCount answers between zero and the size of the block, and zero
\* only for an empty queue: the signed pointer difference and its correction
\* never leave that range.
LEMMA CountRange ==
  ASSUME NEW f, IsByteFifo(f)
  PROVE  /\ ByteFifo_getCount(f) \in 0 .. Len(f.mem)
         /\ ByteFifo_getCount(f) = 0 <=> ByteFifo_isEmpty(f)
         /\ ByteFifo_getCount(f) = Len(f.mem) <=> ByteFifo_isFull(f)
  BY NullAssumption
     DEF IsByteFifo, ByteFifoRec, ByteFifo_getCount, ByteFifo_isEmpty,
         ByteFifo_isFull

\* The bytes of the queue are read inside the block.
LEMMA SlotRange ==
  ASSUME NEW f, IsByteFifo(f), NEW i \in 1 .. ByteFifo_getCount(f)
  PROVE  Slot(f, i) \in 1 .. Len(f.mem)
  BY CountRange, NullAssumption
     DEF IsByteFifo, ByteFifoRec, ByteFifo_getCount, ByteFifo_isEmpty, Slot

\* A ring stands for a sequence of bytes.
LEMMA ContentsType ==
  ASSUME NEW f, IsByteFifo(f)
  PROVE  /\ Contents(f) \in Seq(Byte)
         /\ Len(Contents(f)) = ByteFifo_getCount(f)
  <1>1. \A i \in 1 .. ByteFifo_getCount(f) : f.mem[Slot(f, i)] \in Byte
    BY SlotRange DEF IsByteFifo, ByteFifoRec
  <1>2. ByteFifo_getCount(f) \in Nat
    BY CountRange DEF IsByteFifo, ByteFifoRec
  <1>3. QED
    BY <1>1, <1>2 DEF Contents

\* ByteFifo_init and ByteFifo_clear make an empty queue, ByteFifo_initFromBytes
\* one with the bytes of its block.
LEMMA InitContents ==
  ASSUME NEW f, NEW block \in Seq(Byte), block # <<>>
  PROVE  /\ IsByteFifo(ByteFifo_init(f, block))
         /\ ByteFifo_init(f, block).mem = block
         /\ Contents(ByteFifo_init(f, block)) = <<>>
         /\ IsByteFifo(ByteFifo_initFromBytes(f, block))
         /\ ByteFifo_initFromBytes(f, block).mem = block
         /\ Contents(ByteFifo_initFromBytes(f, block)) = block
  <1> DEFINE e == ByteFifo_init(f, block)
             b == ByteFifo_initFromBytes(f, block)
  <1>0. Len(block) \in Nat \ {0}
    OBVIOUS
  <1>1. e = [first |-> NULL, last |-> 1, mem |-> block]
    BY DEF ByteFifo_init, Begin
  <1>2. b = [first |-> 1, last |-> 1, mem |-> block]
    BY DEF ByteFifo_initFromBytes, Begin
  <1>3. IsByteFifo(e) /\ e.mem = block
    BY <1>0, <1>1 DEF IsByteFifo, ByteFifoRec
  <1>4. IsByteFifo(b) /\ b.mem = block
    BY <1>0, <1>2 DEF IsByteFifo, ByteFifoRec
  <1>5. Contents(e) = <<>>
    <2>1. ByteFifo_getCount(e) = 0
      BY <1>1 DEF ByteFifo_getCount, ByteFifo_isEmpty
    <2>2. QED
      BY <2>1, <1>3, ContentsType
  <1>6. Contents(b) = block
    <2>1. ByteFifo_getCount(b) = Len(block)
      BY <1>0, <1>2, NullAssumption DEF ByteFifo_getCount, ByteFifo_isEmpty
    <2>2. \A i \in 1 .. Len(block) : b.mem[Slot(b, i)] = block[i]
      BY <1>0, <1>2 DEF Slot
    <2>3. QED
      BY <2>1, <2>2, <1>4, ContentsType DEF Contents
  <1>7. QED
    BY <1>3, <1>4, <1>5, <1>6

\* ByteFifo_clear leaves an empty queue on the same block.
LEMMA ClearContents ==
  ASSUME NEW f, IsByteFifo(f)
  PROVE  /\ IsByteFifo(ByteFifo_clear(f))
         /\ ByteFifo_clear(f).mem = f.mem
         /\ Contents(ByteFifo_clear(f)) = <<>>
  <1> DEFINE g == ByteFifo_clear(f)
  <1>1. g = [first |-> NULL, last |-> 1, mem |-> f.mem]
    <2>1. f = [first |-> f.first, last |-> f.last, mem |-> f.mem]
      BY DEF IsByteFifo, ByteFifoRec
    <2>2. g = [f EXCEPT !.first = NULL, !.last = 1]
      BY DEF ByteFifo_clear, Begin
    <2>3. QED
      <3> HIDE DEF g
      <3>1. QED
        BY <2>1, <2>2
  <1>2. IsByteFifo(g) /\ g.mem = f.mem
    BY <1>1 DEF IsByteFifo, ByteFifoRec
  <1>3. ByteFifo_getCount(g) = 0
    BY <1>1 DEF ByteFifo_getCount, ByteFifo_isEmpty
  <1>4. QED
    BY <1>2, <1>3, ContentsType

-----------------------------------------------------------------------------
\* A push that is not refused keeps the pointers in the block and adds its byte
\* at the end of the queue, through the wrap-around of last and from the empty
\* queue.
LEMMA PushContents ==
  ASSUME NEW f, IsByteFifo(f), NEW data \in Byte, ~ByteFifo_isFull(f)
  PROVE  /\ IsByteFifo(ByteFifo_push(f, data))
         /\ Len(ByteFifo_push(f, data).mem) = Len(f.mem)
         /\ Contents(ByteFifo_push(f, data)) = Append(Contents(f), data)
  <1> DEFINE g == ByteFifo_push(f, data)
             n == Len(f.mem)
             c == ByteFifo_getCount(f)
             mem == [f.mem EXCEPT ![f.last] = data]
  <1>1. /\ f = [first |-> f.first, last |-> f.last, mem |-> f.mem]
        /\ f.mem \in Seq(Byte) /\ n \in Nat
        /\ f.last \in 1 .. n /\ f.first # f.last
        /\ f.first \in (1 .. n) \cup {NULL}
    BY DEF IsByteFifo, ByteFifoRec, ByteFifo_isFull
  <1>2. mem \in Seq(Byte) /\ Len(mem) = n
    BY <1>1
  <1>3. g = [first |-> IF f.first = NULL THEN f.last ELSE f.first,
             last  |-> IF f.last = n THEN 1 ELSE f.last + 1,
             mem   |-> mem]
    <2> DEFINE p == PushClaim(f)
               q == PushStore(p, data)
               r == PushAdvance(q)
               first == IF f.first = NULL THEN f.last ELSE f.first
    <2>1. p = [first |-> first, last |-> f.last, mem |-> f.mem]
      BY <1>1 DEF PushClaim
    <2>2. q = [first |-> first, last |-> f.last, mem |-> mem]
      BY <2>1 DEF PushStore
    <2>3. r = [first |-> first, last |-> f.last + 1, mem |-> mem]
      BY <2>2 DEF PushAdvance
    <2>4. PushWrap(r) = [first |-> first,
                         last |-> IF f.last = n THEN 1 ELSE f.last + 1,
                         mem |-> mem]
      <3> HIDE DEF r, first, mem
      <3>1. End(r) = n + 1
        BY <1>2, <2>3 DEF End
      <3>2. QED
        BY <1>1, <2>3, <3>1 DEF PushWrap, Begin
    <2>5. g = PushWrap(r)
      BY DEF ByteFifo_push
    <2>6. QED
      BY <2>4, <2>5
  <1>4. IsByteFifo(g) /\ Len(g.mem) = n
    BY <1>1, <1>2, <1>3, NullAssumption DEF IsByteFifo, ByteFifoRec
  <1>5. c \in Nat /\ c < n
    BY <1>1, CountRange DEF IsByteFifo, ByteFifoRec
  <1>6. ByteFifo_getCount(g) = c + 1
    BY <1>1, <1>2, <1>3, NullAssumption DEF ByteFifo_getCount, ByteFifo_isEmpty
  <1>7. ASSUME NEW i \in 1 .. c
        PROVE  g.mem[Slot(g, i)] = f.mem[Slot(f, i)]
    <2>1. f.first # NULL
      BY <1>5 DEF ByteFifo_getCount, ByteFifo_isEmpty
    <2>2. Slot(g, i) = Slot(f, i)
      BY <1>1, <1>2, <1>3, <2>1 DEF Slot
    <2>3. Slot(f, i) \in 1 .. n /\ Slot(f, i) # f.last
      BY <1>1, <1>5, <2>1, NullAssumption
         DEF Slot, ByteFifo_getCount, ByteFifo_isEmpty
    <2>4. QED
      BY <1>1, <1>3, <2>2, <2>3
  <1>8. g.mem[Slot(g, c + 1)] = data
    <2>1. Slot(g, c + 1) = f.last
      BY <1>1, <1>2, <1>3, <1>5, NullAssumption
         DEF Slot, ByteFifo_getCount, ByteFifo_isEmpty
    <2>2. QED
      BY <1>1, <1>3, <2>1
  <1>9. Contents(g) = Append(Contents(f), data)
    <2>1. /\ Contents(f) \in Seq(Byte) /\ Len(Contents(f)) = c
          /\ Contents(g) \in Seq(Byte) /\ Len(Contents(g)) = c + 1
      BY <1>4, <1>6, ContentsType
    <2>2. \A i \in 1 .. c : Contents(g)[i] = Contents(f)[i]
      BY <1>5, <1>6, <1>7 DEF Contents
    <2>3. Contents(g)[c + 1] = data
      BY <1>5, <1>6, <1>8 DEF Contents
    <2>4. QED
      BY <1>5, <2>1, <2>2, <2>3
  <1>10. QED
    BY <1>4, <1>9

\* A pull that is not refused keeps the pointers in the block, delivers the
\* oldest byte and leaves the others, down to the empty queue.
LEMMA PullContents ==
  ASSUME NEW f, IsByteFifo(f), ~ByteFifo_isEmpty(f)
  PROVE  /\ IsByteFifo(ByteFifo_pull(f))
         /\ ByteFifo_pull(f).mem = f.mem
         /\ Contents(f) # <<>>
         /\ PullData(f) \in Byte /\ PullData(f) = Head(Contents(f))
         /\ Contents(ByteFifo_pull(f)) = Tail(Contents(f))
  <1> DEFINE g == ByteFifo_pull(f)
             n == Len(f.mem)
             c == ByteFifo_getCount(f)
             next == IF f.first = n THEN 1 ELSE f.first + 1
  <1>1. /\ f = [first |-> f.first, last |-> f.last, mem |-> f.mem]
        /\ f.mem \in Seq(Byte) /\ n \in Nat
        /\ f.last \in 1 .. n /\ f.first \in 1 .. n
    BY DEF IsByteFifo, ByteFifoRec, ByteFifo_isEmpty
  <1>2. g = [first |-> IF next = f.last THEN NULL ELSE next,
             last |-> f.last, mem |-> f.mem]
    <2> DEFINE p == PullAdvance(f)
               q == PullWrap(p)
    <2>1. p = [first |-> f.first + 1, last |-> f.last, mem |-> f.mem]
      BY <1>1 DEF PullAdvance
    <2>2. q = [first |-> next, last |-> f.last, mem |-> f.mem]
      <3> HIDE DEF p
      <3>1. End(p) = n + 1
        BY <2>1 DEF End
      <3>2. QED
        BY <1>1, <2>1, <3>1 DEF PullWrap, Begin
    <2>3. PullSettle(q) = [first |-> IF next = f.last THEN NULL ELSE next,
                           last |-> f.last, mem |-> f.mem]
      <3> HIDE DEF q, next
      <3>1. QED
        BY <2>2 DEF PullSettle
    <2>4. QED
      BY <2>3 DEF ByteFifo_pull
  <1>3. IsByteFifo(g) /\ g.mem = f.mem
    BY <1>1, <1>2 DEF IsByteFifo, ByteFifoRec
  <1>4. c \in 1 .. n
    BY <1>1, CountRange DEF ByteFifo_isEmpty
  <1>5. ByteFifo_getCount(g) = c - 1
    BY <1>1, <1>2, NullAssumption DEF ByteFifo_getCount, ByteFifo_isEmpty
  <1>6. ASSUME NEW i \in 1 .. c - 1
        PROVE  g.mem[Slot(g, i)] = f.mem[Slot(f, i + 1)]
    <2>1. next # f.last
      BY <1>1, <1>2, <1>4, <1>5 DEF ByteFifo_getCount, ByteFifo_isEmpty
    <2>2. Slot(g, i) = Slot(f, i + 1)
      BY <1>1, <1>2, <1>4, <2>1 DEF Slot
    <2>3. QED
      BY <1>3, <2>2
  <1>7. PullData(f) = f.mem[Slot(f, 1)]
    BY <1>1 DEF PullData, Slot
  <1>8. /\ Contents(f) \in Seq(Byte) /\ Len(Contents(f)) = c
        /\ Contents(g) \in Seq(Byte) /\ Len(Contents(g)) = c - 1
    BY <1>3, <1>5, ContentsType
  <1>9. /\ Contents(f) # <<>>
        /\ PullData(f) \in Byte /\ PullData(f) = Head(Contents(f))
    BY <1>4, <1>7, <1>8 DEF Contents
  <1>10. Contents(g) = Tail(Contents(f))
    <2>1. \A i \in 1 .. c - 1 : Contents(g)[i] = Contents(f)[i + 1]
      BY <1>4, <1>5, <1>6 DEF Contents
    <2>2. QED
      BY <1>4, <1>8, <2>1
  <1>11. QED
    BY <1>3, <1>9, <1>10
=============================================================================
