---------------------------- MODULE BoundedQueue ----------------------------
(***************************************************************************)
(* What the users of fifo.c are promised: a first-in first-out queue of at *)
(* most CAPACITY values, which refuses a value only when it is full and    *)
(* a request only when it is empty, and then changes nothing.              *)
(***************************************************************************)
EXTENDS Naturals, Sequences

CONSTANTS CAPACITY, Val, Zero

VARIABLES queue, ret, val

Init == queue = <<>> /\ ret = "none" /\ val = Zero

Clear == queue' = <<>> /\ ret' = "none" /\ val' = val

Accept(v) ==
  Len(queue) < CAPACITY /\ queue' = Append(queue, v) /\ ret' = "enqueued" /\ val' = val

Deliver ==
  queue # <<>> /\ queue' = Tail(queue) /\ val' = Head(queue) /\ ret' = "dequeued"

Refuse ==
  /\ \/ Len(queue) = CAPACITY /\ ret' = "full"
     \/ queue = <<>> /\ ret' = "empty"
  /\ queue' = queue /\ val' = val

Next == Clear \/ Deliver \/ Refuse \/ \E v \in Val : Accept(v)

Spec == Init /\ [][Next]_<<queue, ret, val>>
=============================================================================
