------------------------------ MODULE ByteFifo ------------------------------
(***************************************************************************)
(* The byte queue of src/Utils/ByteFifo.h: a ring buffer over a block of   *)
(* memory the caller owns.  The C structure holds four pointers; here a    *)
(* pointer is a position in the block, so that `begin' is 1, `end' is one  *)
(* past the last byte, and the block itself is the field mem.              *)
(*                                                                         *)
(* Each statement of ByteFifo_push and ByteFifo_pull that another context  *)
(* could interleave with is an operator of its own, and the two functions  *)
(* are their compositions: a module about a task and an interrupt handler  *)
(* sharing a queue executes the same statements one at a time.             *)
(***************************************************************************)
EXTENDS Integers, Sequences

CONSTANTS Byte,  \* the values of uint8_t
          NULL   \* the null pointer

\* The C structure: first is the oldest byte, NULL when the queue is empty;
\* last is where the next byte goes.
ByteFifoRec == [first : Nat \cup {NULL}, last : Nat, mem : Seq(Byte)]

ASSUME NullAssumption == NULL \notin Nat \cup Byte \cup ByteFifoRec

Begin == 1
End(f) == Len(f.mem) + 1

\* A queue no operation is in the middle of.
IsByteFifo(f) ==
  /\ f \in ByteFifoRec
  /\ f.last \in 1 .. Len(f.mem)
  /\ f.first # NULL => f.first \in 1 .. Len(f.mem)

-----------------------------------------------------------------------------
(* Construction.  An empty block is refused and f is left as it was.       *)

ByteFifo_init(f, block) ==
  IF block = <<>> THEN f ELSE [first |-> NULL, last |-> Begin, mem |-> block]

ByteFifo_initFromBytes(f, block) ==
  IF block = <<>> THEN f ELSE [first |-> Begin, last |-> Begin, mem |-> block]

ByteFifo_clear(f) == [f EXCEPT !.first = NULL, !.last = Begin]

-----------------------------------------------------------------------------
(* Observers.                                                              *)

\* Mutant: a push is never refused.
NeverFull(f) == FALSE

ByteFifo_isFull(f) == f.first = f.last

ByteFifo_isEmpty(f) == f.first = NULL

\* Mutant: a difference of zero is taken for an empty queue.
CountStrict(f) ==
  IF ByteFifo_isEmpty(f) THEN 0
  ELSE IF f.last - f.first < 0 THEN f.last - f.first + Len(f.mem)
  ELSE f.last - f.first

ByteFifo_getCount(f) ==
  IF ByteFifo_isEmpty(f) THEN 0
  ELSE IF f.last - f.first <= 0 THEN f.last - f.first + Len(f.mem)
  ELSE f.last - f.first

-----------------------------------------------------------------------------
(* The statements of ByteFifo_push, after its test for a full queue.       *)

PushClaim(f) == IF f.first = NULL THEN [f EXCEPT !.first = f.last] ELSE f

PushStore(f, data) == [f EXCEPT !.mem = [@ EXCEPT ![f.last] = data]]

PushAdvance(f) == [f EXCEPT !.last = @ + 1]

\* Mutant: the end of the block is not looked for.
NoWrap(f) == f

PushWrap(f) == IF f.last = End(f) THEN [f EXCEPT !.last = Begin] ELSE f

ByteFifo_push(f, data) ==
  IF ByteFifo_isFull(f) THEN f
  ELSE PushWrap(PushAdvance(PushStore(PushClaim(f), data)))

(* The statements of ByteFifo_pull, after its test for an empty queue.     *)
(* The byte is read through first before first moves.                      *)

PullData(f) == f.mem[f.first]

PullAdvance(f) == [f EXCEPT !.first = @ + 1]

PullWrap(f) == IF f.first = End(f) THEN [f EXCEPT !.first = Begin] ELSE f

\* Mutant: the emptied queue keeps its pointer.
NoSettle(f) == f

PullSettle(f) == IF f.first = f.last THEN [f EXCEPT !.first = NULL] ELSE f

ByteFifo_pull(f) ==
  IF ByteFifo_isEmpty(f) THEN f ELSE PullSettle(PullWrap(PullAdvance(f)))

-----------------------------------------------------------------------------
(* The queue a ByteFifo stands for, oldest byte first.                     *)

Slot(f, i) ==
  IF f.first + i - 1 > Len(f.mem) THEN f.first + i - 1 - Len(f.mem)
  ELSE f.first + i - 1

Contents(f) == [i \in 1 .. ByteFifo_getCount(f) |-> f.mem[Slot(f, i)]]
=============================================================================
