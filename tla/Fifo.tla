-------------------------------- MODULE Fifo --------------------------------
(***************************************************************************)
(* The ring buffer of hypervisor/common/fifo.c, which carries every byte a *)
(* guest console receives (in_fifo) and prints (out_fifo).                 *)
(*                                                                         *)
(* The operations are operators on a record, so that other modules can use *)
(* them; the state machine below is one buffer and one caller.             *)
(***************************************************************************)
EXTENDS Naturals, Sequences

CONSTANTS FIFO_SIZE,    \* 256 in the code
          Val,          \* the values a slot can hold (unsigned long)
          Zero          \* what memzero() leaves in a slot

ASSUME FifoAssumption == FIFO_SIZE \in Nat \ {0} /\ Zero \in Val

Index == 0 .. FIFO_SIZE - 1

FifoType == [head : Index, tail : Index, used : 0 .. FIFO_SIZE,
             buf : [Index -> Val]]

\* Mutant of NEXT_INDEX: the wrap test compares i itself, one slot late.
NEXT_INDEX_late(i) == IF i + 1 = FIFO_SIZE THEN i ELSE i + 1

NEXT_INDEX(i) == IF i + 1 = FIFO_SIZE THEN 0 ELSE i + 1

\* Mutants: a full test that comes one slot late, a clear that forgets a counter.
IsFullFifo_late(f) == f.used > FIFO_SIZE
ClearFifo_keepsTail(f) == [f EXCEPT !.head = 0, !.used = 0]

IsEmptyFifo(f) == f.used = 0
IsFullFifo(f) == f.used = FIFO_SIZE

\* create_fifo() on the page get_free_page() has just zeroed.
CreateFifo == [head |-> 0, tail |-> 0, used |-> 0, buf |-> [i \in Index |-> Zero]]

\* clear_fifo() resets the indices and leaves the slots as they are.
ClearFifo(f) == [head |-> 0, tail |-> 0, used |-> 0, buf |-> f.buf]

\* enqueue_fifo() and dequeue_fifo() past their early return.
EnqueueFifo(f, v) ==
  [head |-> NEXT_INDEX(f.head), tail |-> f.tail, used |-> f.used + 1,
   buf |-> [f.buf EXCEPT ![f.head] = v]]
DequeueFifo(f) ==
  [head |-> f.head, tail |-> NEXT_INDEX(f.tail), used |-> f.used - 1, buf |-> f.buf]

-----------------------------------------------------------------------------
VARIABLES fifo,     \* the buffer
          ret,      \* what the last operation did; "full" and "empty" are its -1
          val       \* the caller's variable that dequeue_fifo() writes

vars == <<fifo, ret, val>>

Init == fifo = CreateFifo /\ ret = "none" /\ val = Zero

Clear == fifo' = ClearFifo(fifo) /\ ret' = "none" /\ UNCHANGED val

Enqueue(v) ==
  /\ IF IsFullFifo(fifo)
       THEN ret' = "full" /\ UNCHANGED fifo
       ELSE ret' = "enqueued" /\ fifo' = EnqueueFifo(fifo, v)
  /\ UNCHANGED val

Dequeue ==
  IF IsEmptyFifo(fifo)
    THEN ret' = "empty" /\ UNCHANGED <<fifo, val>>
    ELSE ret' = "dequeued" /\ val' = fifo.buf[fifo.tail] /\ fifo' = DequeueFifo(fifo)

Next == Clear \/ Dequeue \/ \E v \in Val : Enqueue(v)

Spec == Init /\ [][Next]_vars

-----------------------------------------------------------------------------
\* The slots in use, oldest first: what the buffer means to its callers.
Slot(f, i) == IF f.tail + (i - 1) < FIFO_SIZE THEN f.tail + (i - 1)
              ELSE (f.tail + (i - 1)) - FIFO_SIZE

Contents(f) == [i \in 1 .. f.used |-> f.buf[Slot(f, i)]]

Outcomes == {"none", "enqueued", "full", "dequeued", "empty"}

\* The indices stay inside buf[] and `used` within its size (fifo.c:15-22).
TypeOK == fifo \in FifoType /\ ret \in Outcomes /\ val \in Val

\* `used` is kept apart from `head` and `tail`, which cannot tell an empty
\* buffer from a full one; the three must never disagree, across wraps,
\* refused operations and clears (fifo.c:51-75).
CountersAgree ==
  fifo.head = IF fifo.tail + fifo.used < FIFO_SIZE
                THEN fifo.tail + fifo.used
                ELSE (fifo.tail + fifo.used) - FIFO_SIZE

\* fifo.c delivers what was put in, in order, once, and refuses rather than
\* overwrites: it implements a bounded queue.
Abstract == INSTANCE BoundedQueue
              WITH CAPACITY <- FIFO_SIZE, queue <- Contents(fifo)
IsBoundedQueue == Abstract!Spec
=============================================================================
