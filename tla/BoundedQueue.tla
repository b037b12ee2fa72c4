---------------------------- MODULE BoundedQueue ----------------------------
(***************************************************************************)
(* What a ByteFifo promises its callers, in the words of ByteFifo.h: a     *)
(* fixed-size queue of bytes.  A push is accepted exactly when there is    *)
(* room, a pull exactly when there is a byte, and bytes leave in the order *)
(* they came.                                                              *)
(***************************************************************************)
EXTENDS Integers, Sequences

CONSTANTS Byte, Blocks

VARIABLES queue,  \* the bytes in the queue, oldest first
          room,   \* how many bytes it can hold
          reply   \* what the last call returned

vars == <<queue, room, reply>>

\* ok is the Boolean a call returns; val the byte or the count it delivers,
\* NoVal when it delivers none.
NoVal == -1
Reply(op, ok, val) == [op |-> op, ok |-> ok, val |-> val]

Init ==
  \E block \in Blocks \ {<<>>} :
    /\ queue \in {<<>>, block}
    /\ room = Len(block)
    /\ reply = Reply("init", TRUE, NoVal)

\* The queue is given other memory, to start empty or to start with the
\* bytes already there.
Attach(block) ==
  /\ block # <<>>
  /\ queue' \in {<<>>, block}
  /\ room' = Len(block)
  /\ reply' = Reply("init", TRUE, NoVal)

Clear ==
  /\ queue' = <<>>
  /\ reply' = Reply("clear", TRUE, NoVal)
  /\ UNCHANGED room

Push(data) ==
  /\ IF Len(queue) < room
       THEN queue' = Append(queue, data) /\ reply' = Reply("push", TRUE, NoVal)
       ELSE queue' = queue /\ reply' = Reply("push", FALSE, NoVal)
  /\ UNCHANGED room

Pull ==
  /\ IF queue # <<>>
       THEN queue' = Tail(queue) /\ reply' = Reply("pull", TRUE, Head(queue))
       ELSE queue' = queue /\ reply' = Reply("pull", FALSE, NoVal)
  /\ UNCHANGED room

Observe ==
  /\ \/ reply' = Reply("isEmpty", queue = <<>>, NoVal)
     \/ reply' = Reply("isFull", Len(queue) = room, NoVal)
     \/ reply' = Reply("getCount", TRUE, Len(queue))
  /\ UNCHANGED <<queue, room>>

Next ==
  \/ \E block \in Blocks : Attach(block)
  \/ Clear
  \/ \E data \in Byte : Push(data)
  \/ Pull
  \/ Observe

Spec == Init /\ [][Next]_vars
=============================================================================
