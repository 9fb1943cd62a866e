----------------------------- MODULE LibraryProofs -----------------------------
(***************************************************************************)
(* The parts that run alone, as MCLibrary puts them side by side: the ring *)
(* buffer is a bounded queue, a mailbox call that is alone completes, and  *)
(* the shell is a line editor, each for every value of its constants.      *)
(***************************************************************************)
EXTENDS Fifo, Mailbox, Shell, SequenceTheorems, TLAPS

-----------------------------------------------------------------------------
(***************************************************************************)
(* The ring buffer.  The inductive invariant is TypeOK /\ CountersAgree:   *)
(* without CountersAgree an enqueue could write a slot that is in use.     *)
(***************************************************************************)
FifoInv == TypeOK /\ CountersAgree

\* A buffer whose counters agree, the hypothesis of the lemmas below.
Agrees(f) ==
  /\ f \in FifoType
  /\ f.head = IF f.tail + f.used < FIFO_SIZE THEN f.tail + f.used
              ELSE (f.tail + f.used) - FIFO_SIZE

\* The contents are a sequence of values as long as `used` says.
LEMMA ContentsIsSeq ==
  ASSUME NEW f \in FifoType
  PROVE  Contents(f) \in Seq(Val) /\ Len(Contents(f)) = f.used
<1>1. f.used \in Nat
  BY FifoAssumption DEF FifoType
<1>2. \A i \in 1 .. f.used : f.buf[Slot(f, i)] \in Val
  BY FifoAssumption DEF FifoType, Slot, Index
<1>3. Contents(f) \in [1 .. f.used -> Val]
  BY <1>2 DEF Contents
<1> QED
  BY <1>1, <1>3

\* An empty buffer has no contents, whatever its slots hold.
LEMMA EmptyContents ==
  ASSUME NEW f, f.used = 0
  PROVE  Contents(f) = <<>>
BY DEF Contents

\* enqueue_fifo() appends: it writes none of the slots in use.
LEMMA EnqueueAppends ==
  ASSUME NEW f, Agrees(f), ~IsFullFifo(f), NEW v \in Val
  PROVE  /\ Agrees(EnqueueFifo(f, v))
         /\ Contents(EnqueueFifo(f, v)) = Append(Contents(f), v)
<1> DEFINE g == EnqueueFifo(f, v)
<1>1. /\ f.head \in Index /\ f.tail \in Index /\ f.used \in 0 .. FIFO_SIZE - 1
      /\ f.buf \in [Index -> Val]
  BY FifoAssumption DEF Agrees, FifoType, IsFullFifo
<1>2. /\ g.head = NEXT_INDEX(f.head) /\ g.tail = f.tail /\ g.used = f.used + 1
      /\ g.buf = [f.buf EXCEPT ![f.head] = v]
  BY DEF EnqueueFifo
<1>3. g.head \in Index /\ g.used \in 0 .. FIFO_SIZE /\ g.buf \in [Index -> Val]
  BY <1>1, <1>2, FifoAssumption DEF NEXT_INDEX, Index
<1>4. Agrees(g)
  <2>1. g \in FifoType
    BY <1>1, <1>3 DEF FifoType, EnqueueFifo
  <2>2. g.head = IF g.tail + g.used < FIFO_SIZE THEN g.tail + g.used
                 ELSE (g.tail + g.used) - FIFO_SIZE
    BY <1>1, <1>2, FifoAssumption DEF Agrees, NEXT_INDEX, Index
  <2> QED BY <2>1, <2>2 DEF Agrees
<1>5. \A i \in 1 .. g.used : g.buf[Slot(g, i)] = IF i <= f.used THEN f.buf[Slot(f, i)]
                                                 ELSE v
  <2> SUFFICES ASSUME NEW i \in 1 .. f.used + 1
               PROVE  g.buf[Slot(g, i)] = IF i <= f.used THEN f.buf[Slot(f, i)] ELSE v
    BY <1>2
  <2>1. Slot(g, i) = Slot(f, i) /\ Slot(f, i) \in Index
    BY <1>1, <1>2, FifoAssumption DEF Slot, Index
  <2>2. (Slot(f, i) = f.head) <=> (i = f.used + 1)
    BY <1>1, FifoAssumption DEF Agrees, Slot, Index
  <2> QED
    BY <1>1, <1>2, <2>1, <2>2
<1>6. Contents(f) \in Seq(Val) /\ Len(Contents(f)) = f.used
  BY ContentsIsSeq DEF Agrees
<1>7. Contents(g) = Append(Contents(f), v)
  <2>1. Contents(g) \in Seq(Val) /\ Len(Contents(g)) = f.used + 1
    BY <1>2, <1>4, ContentsIsSeq DEF Agrees
  <2>2. /\ Append(Contents(f), v) \in Seq(Val)
        /\ Len(Append(Contents(f), v)) = f.used + 1
        /\ \A i \in 1 .. f.used : Append(Contents(f), v)[i] = Contents(f)[i]
        /\ Append(Contents(f), v)[f.used + 1] = v
    BY <1>6, AppendProperties
  <2>3. \A i \in 1 .. f.used : Contents(f)[i] = f.buf[Slot(f, i)]
    BY DEF Contents
  <2>4. \A i \in 1 .. f.used + 1 : Contents(g)[i] = g.buf[Slot(g, i)]
    BY <1>2 DEF Contents
  <2>5. \A i \in 1 .. f.used + 1 : Contents(g)[i] = Append(Contents(f), v)[i]
    BY <1>1, <1>2, <1>5, <2>2, <2>3, <2>4
  <2> QED
    BY <2>1, <2>2, <2>5, SeqEqual
<1> QED
  BY <1>4, <1>7

\* dequeue_fifo() returns the oldest value and keeps the others in order.
LEMMA DequeueIsTail ==
  ASSUME NEW f, Agrees(f), ~IsEmptyFifo(f)
  PROVE  /\ Agrees(DequeueFifo(f))
         /\ Contents(f) # <<>>
         /\ f.buf[f.tail] = Head(Contents(f)) /\ f.buf[f.tail] \in Val
         /\ Contents(DequeueFifo(f)) = Tail(Contents(f))
<1> DEFINE g == DequeueFifo(f)
<1>1. /\ f.head \in Index /\ f.tail \in Index /\ f.used \in 1 .. FIFO_SIZE
      /\ f.buf \in [Index -> Val]
  BY FifoAssumption DEF Agrees, FifoType, IsEmptyFifo
<1>2. /\ g.head = f.head /\ g.tail = NEXT_INDEX(f.tail) /\ g.used = f.used - 1
      /\ g.buf = f.buf
  BY DEF DequeueFifo
<1>3. Agrees(g)
  <2>1. g.tail \in Index /\ g.used \in 0 .. FIFO_SIZE
    BY <1>1, <1>2, FifoAssumption DEF NEXT_INDEX, Index
  <2>2. g \in FifoType
    BY <1>1, <2>1 DEF FifoType, DequeueFifo
  <2>3. g.head = IF g.tail + g.used < FIFO_SIZE THEN g.tail + g.used
                 ELSE (g.tail + g.used) - FIFO_SIZE
    BY <1>1, <1>2, FifoAssumption DEF Agrees, NEXT_INDEX, Index
  <2> QED BY <2>2, <2>3 DEF Agrees
<1>4. Contents(f) \in Seq(Val) /\ Len(Contents(f)) = f.used
  BY ContentsIsSeq DEF Agrees
<1>5. Contents(f) # <<>>
  BY <1>1, <1>4
<1>6. \A i \in 1 .. f.used : Contents(f)[i] = f.buf[Slot(f, i)]
  BY DEF Contents
<1>7. f.buf[f.tail] = Head(Contents(f))
  <2>1. Slot(f, 1) = f.tail
    BY <1>1, FifoAssumption DEF Slot, Index
  <2> QED
    BY <1>1, <1>4, <1>6, <2>1
<1>8. \A i \in 1 .. f.used - 1 : Slot(g, i) = Slot(f, i + 1)
  BY <1>1, <1>2, FifoAssumption DEF Slot, NEXT_INDEX, Index
<1>9. Contents(g) = Tail(Contents(f))
  <2>1. Contents(g) \in Seq(Val) /\ Len(Contents(g)) = f.used - 1
    BY <1>2, <1>3, ContentsIsSeq DEF Agrees
  <2>2. /\ Tail(Contents(f)) \in Seq(Val) /\ Len(Tail(Contents(f))) = f.used - 1
        /\ \A i \in 1 .. f.used - 1 : Tail(Contents(f))[i] = Contents(f)[i + 1]
    BY <1>4, <1>5, HeadTailProperties
  <2>3. \A i \in 1 .. f.used - 1 : Contents(g)[i] = f.buf[Slot(f, i + 1)]
    BY <1>2, <1>8 DEF Contents
  <2>4. \A i \in 1 .. f.used - 1 : Contents(g)[i] = Tail(Contents(f))[i]
    BY <1>1, <1>6, <2>2, <2>3
  <2> QED
    BY <2>1, <2>2, <2>4, SeqEqual
<1> QED
  BY <1>1, <1>3, <1>5, <1>7, <1>9

LEMMA ClearEmpties ==
  ASSUME NEW f, Agrees(f)
  PROVE  Agrees(ClearFifo(f)) /\ Contents(ClearFifo(f)) = <<>>
<1>1. Agrees(ClearFifo(f))
  BY FifoAssumption DEF Agrees, FifoType, ClearFifo, Index
<1>2. ClearFifo(f).used = 0
  BY DEF Agrees, FifoType, ClearFifo
<1> QED
  BY <1>1, <1>2, EmptyContents

LEMMA CreateAgrees == Agrees(CreateFifo) /\ Contents(CreateFifo) = <<>>
<1>1. Agrees(CreateFifo)
  BY FifoAssumption DEF Agrees, FifoType, CreateFifo, Index
<1> QED
  BY <1>1, EmptyContents DEF CreateFifo

-----------------------------------------------------------------------------
LEMMA FifoStarts == Init => FifoInv
BY CreateAgrees, FifoAssumption DEF Init, FifoInv, TypeOK, CountersAgree, Agrees, Outcomes

LEMMA FifoKeeps == FifoInv /\ [Next]_vars => FifoInv'
<1> SUFFICES ASSUME FifoInv, [Next]_vars PROVE FifoInv'
  OBVIOUS
<1>0. Agrees(fifo) /\ ret \in Outcomes /\ val \in Val
  BY DEF FifoInv, TypeOK, CountersAgree, Agrees
<1>1. Agrees(fifo') /\ ret' \in Outcomes /\ val' \in Val
  <2>1. CASE Clear
    BY <1>0, <2>1, ClearEmpties DEF Clear, Outcomes
  <2>2. CASE Dequeue
    BY <1>0, <2>2, DequeueIsTail DEF Dequeue, Outcomes
  <2>3. ASSUME NEW v \in Val, Enqueue(v) PROVE Agrees(fifo') /\ ret' \in Outcomes /\ val' \in Val
    BY <1>0, <2>3, EnqueueAppends DEF Enqueue, Outcomes
  <2>4. CASE UNCHANGED vars
    BY <1>0, <2>4 DEF vars
  <2> QED
    BY <2>1, <2>2, <2>3, <2>4 DEF Next
<1> QED
  BY <1>1 DEF FifoInv, TypeOK, CountersAgree, Agrees

LEMMA FifoInvariant == Spec => []FifoInv
BY FifoStarts, FifoKeeps, PTL DEF Spec

\* The counters of fifo.c stay in range for every FIFO_SIZE (fifo.c:15-22).
THEOREM TypeCorrect == Spec => []TypeOK
BY FifoInvariant, PTL DEF FifoInv

\* head, tail and used never disagree, for every FIFO_SIZE (fifo.c:51-75).
THEOREM CountersCorrect == Spec => []CountersAgree
BY FifoInvariant, PTL DEF FifoInv

\* fifo.c implements the bounded first-in first-out queue for every FIFO_SIZE.
THEOREM FifoImplementsQueue == Spec => IsBoundedQueue
<1>1. Init => Abstract!Init
  BY CreateAgrees DEF Init, Abstract!Init
<1>2. FifoInv /\ [Next]_vars => [Abstract!Next]_<<Contents(fifo), ret, val>>
  <2> SUFFICES ASSUME FifoInv, [Next]_vars
               PROVE  Abstract!Next \/ UNCHANGED <<Contents(fifo), ret, val>>
    OBVIOUS
  <2>0. Agrees(fifo)
    BY DEF FifoInv, TypeOK, CountersAgree, Agrees
  <2>1. CASE Clear
    BY <2>0, <2>1, ClearEmpties DEF Clear, Abstract!Next, Abstract!Clear
  <2>2. CASE Dequeue
    <3>1. CASE IsEmptyFifo(fifo)
      BY <2>2, <3>1, EmptyContents DEF Dequeue, IsEmptyFifo, Abstract!Next, Abstract!Refuse
    <3>2. CASE ~IsEmptyFifo(fifo)
      BY <2>0, <2>2, <3>2, DequeueIsTail DEF Dequeue, Abstract!Next, Abstract!Deliver
    <3> QED BY <3>1, <3>2
  <2>3. ASSUME NEW v \in Val, Enqueue(v) PROVE Abstract!Next
    <3>0. Len(Contents(fifo)) = fifo.used /\ fifo.used \in 0 .. FIFO_SIZE
      BY <2>0, ContentsIsSeq DEF Agrees, FifoType
    <3>1. CASE IsFullFifo(fifo)
      BY <2>3, <3>0, <3>1 DEF Enqueue, IsFullFifo, Abstract!Next, Abstract!Refuse
    <3>2. CASE ~IsFullFifo(fifo)
      <4>1. Len(Contents(fifo)) < FIFO_SIZE
        BY <3>0, <3>2, FifoAssumption DEF IsFullFifo
      <4>2. Abstract!Accept(v)
        BY <2>0, <2>3, <3>2, <4>1, EnqueueAppends DEF Enqueue, Abstract!Accept
      <4> QED BY <4>2 DEF Abstract!Next
    <3> QED BY <3>1, <3>2
  <2>4. CASE UNCHANGED vars
    BY <2>4 DEF vars
  <2> QED
    BY <2>1, <2>2, <2>3, <2>4 DEF Next
<1> QED
  BY <1>1, <1>2, FifoInvariant, PTL DEF Spec, IsBoundedQueue, Abstract!Spec

-----------------------------------------------------------------------------
(***************************************************************************)
(* The mailbox.  The buffer, the value and the STATUS bit are one for all  *)
(* VMs, so the invariant says what they hold at each step of a call that no *)
(* other VM's access falls into: the bit that alternates blindly is known  *)
(* from the drain on, and the value written stays the caller's until its   *)
(* answer has been read.                                                   *)
(***************************************************************************)
Steps == {"idle", "drain", "stale", "room", "send", "poll", "read", "done", "ended"}
Written == [of : MailVM \cup {Null}, chan : {"tags", "none"}]
Buffers == [type : {"request", "response"}, tag : Tag]

\* Every variable has its type.
MailTypes ==
  /\ mbox \in MailVM \cup {Null, Page0}
  /\ mbox_val \in Written
  /\ empty \in BOOLEAN
  /\ mail \in [MailVM \cup {Page0} -> Buffers]
  /\ step \in [MailVM -> Steps]
  /\ got \in [MailVM -> Written]
  /\ polls \in [MailVM -> 0 .. 3]
  /\ mixed \in [MailVM -> BOOLEAN]

\* A call has not polled before it polls.
PollsLate == \A v \in MailVM :
  step[v] \in {"idle", "drain", "stale", "room", "send", "ended"} => polls[v] = 0

\* What the STATUS bit says next, at each step of a call that is alone.
BitKnown(v) ==
  /\ step[v] = "room" => ~empty
  /\ step[v] = "send" => empty
  /\ step[v] = "poll" => polls[v] = IF empty THEN 0 ELSE 1
  /\ step[v] \in {"read", "done"} => polls[v] = 2

\* From the write on the mailbox holds the caller's value and buffer.
ValueMine(v) ==
  step[v] \in {"poll", "read", "done"} => mbox_val.of = v /\ mbox \in {v, Page0}

\* What was read is that value, and the buffer has been answered.
AnswerMine(v) ==
  step[v] = "done" =>
    /\ got[v] = mbox_val
    /\ mbox = v /\ mbox_val.chan = "tags" /\ mail[v].tag \in Supported
         => mail[v].type = "response"

LoneInv == \A v \in MailVM : ~mixed[v] => BitKnown(v) /\ ValueMine(v) /\ AnswerMine(v)

MailInv == MailTypes /\ PollsLate /\ LoneInv

-----------------------------------------------------------------------------
LEMMA MailStarts == MailboxInit => MailInv
<1> SUFFICES ASSUME MailboxInit PROVE MailInv
  OBVIOUS
<1>1. PICK tag \in Tag :
        mail = [b \in MailVM \cup {Page0} |-> [type |-> "request", tag |-> tag]]
  BY DEF MailboxInit
<1>2. MailTypes
  BY <1>1 DEF MailboxInit, MailTypes, Written, Buffers, Steps, Nothing
<1>3. PollsLate /\ LoneInv
  BY DEF MailboxInit, PollsLate, LoneInv, BitKnown, ValueMine, AnswerMine
<1> QED
  BY <1>2, <1>3 DEF MailInv

\* Another VM's access marks the calls it falls into.
LEMMA UseMixes ==
  ASSUME MailTypes, NEW u \in MailVM, Uses(u)
  PROVE  /\ mixed' \in [MailVM -> BOOLEAN]
         /\ \A v \in MailVM : ~mixed'[v] =>
              /\ ~mixed[v]
              /\ v = u \/ step[v] \in {"idle", "ended"}
BY DEF MailTypes, Uses

\* The program counter of the VM that moves, and of the others.
LEMMA Moves ==
  ASSUME MailTypes, NEW u \in MailVM, NEW s \in Steps, Goes(u, s)
  PROVE  /\ step' \in [MailVM -> Steps]
         /\ step'[u] = s
         /\ \A v \in MailVM : v # u => step'[v] = step[v]
BY DEF MailTypes, Goes

\* A request is answered in place; what it asks for stays.
LEMMA AnsweredKeeps ==
  ASSUME NEW b \in Buffers
  PROVE  /\ Answered(b) \in Buffers
         /\ Answered(b).tag = b.tag
         /\ mbox_val.chan = "tags" /\ b.tag \in Supported => Answered(b).type = "response"
BY DEF Answered, Buffers

LEMMA AskInv ==
  ASSUME MailInv, NEW u \in MailVM, Ask(u)
  PROVE  MailInv'
<1>1. MailTypes /\ PollsLate /\ LoneInv
  BY DEF MailInv
<1>2. PICK t \in Tag : mail' = [mail EXCEPT ![u] = [type |-> "request", tag |-> t]]
  BY DEF Ask
<1>3. /\ step[u] = "idle" /\ step'[u] = "drain" /\ step' \in [MailVM -> Steps]
      /\ \A v \in MailVM : v # u => step'[v] = step[v]
  BY <1>1, Moves DEF Ask, Steps
<1>4. UNCHANGED <<mbox, mbox_val, empty, got, polls, mixed>>
  BY DEF Ask
<1>5. mail' \in [MailVM \cup {Page0} -> Buffers] /\ \A v \in MailVM : v # u => mail'[v] = mail[v]
  BY <1>1, <1>2 DEF MailTypes, Buffers
<1>6. MailTypes'
  BY <1>1, <1>3, <1>4, <1>5 DEF MailTypes
<1>7. PollsLate'
  BY <1>1, <1>3, <1>4 DEF PollsLate
<1>8. ASSUME NEW v \in MailVM, ~mixed'[v]
      PROVE  (BitKnown(v) /\ ValueMine(v) /\ AnswerMine(v))'
  <2>1. CASE v = u
    BY <2>1, <1>3 DEF BitKnown, ValueMine, AnswerMine
  <2>2. CASE v # u
    BY <2>2, <1>1, <1>3, <1>4, <1>5, <1>8 DEF LoneInv, BitKnown, ValueMine, AnswerMine
  <2> QED
    BY <2>1, <2>2
<1> QED
  BY <1>6, <1>7, <1>8 DEF MailInv, LoneInv

LEMMA ReadStatusInv ==
  ASSUME MailInv, NEW u \in MailVM, ReadStatus(u)
  PROVE  MailInv'
<1>1. MailTypes /\ PollsLate /\ LoneInv
  BY DEF MailInv
<1>2. empty' = ~empty /\ UNCHANGED <<mbox, mbox_val, mail, got>>
  BY DEF ReadStatus, read_status, Toggled
<1>3. /\ mixed' \in [MailVM -> BOOLEAN]
      /\ \A v \in MailVM : ~mixed'[v] => ~mixed[v] /\ (v = u \/ step[v] \in {"idle", "ended"})
  BY <1>1, UseMixes DEF ReadStatus
<1>4. /\ step' \in [MailVM -> Steps]
      /\ \A v \in MailVM : v # u => step'[v] = step[v]
      /\ \/ step[u] = "drain" /\ step'[u] = (IF empty THEN "room" ELSE "stale") /\ polls' = polls
         \/ step[u] = "room" /\ step'[u] = "send" /\ polls' = polls
         \/ /\ step[u] = "poll" /\ step'[u] = IF empty THEN "poll" ELSE "read"
            /\ polls[u] < 3 /\ polls' = [polls EXCEPT ![u] = @ + 1]
  BY <1>1, Moves DEF ReadStatus, Steps
<1>5. polls' \in [MailVM -> 0 .. 3] /\ \A v \in MailVM : v # u => polls'[v] = polls[v]
  BY <1>1, <1>4 DEF MailTypes
<1>6. MailTypes'
  BY <1>1, <1>2, <1>3, <1>4, <1>5 DEF MailTypes
<1>7. PollsLate'
  BY <1>1, <1>4, <1>5 DEF PollsLate, MailTypes
<1>8. ASSUME NEW v \in MailVM, ~mixed'[v]
      PROVE  (BitKnown(v) /\ ValueMine(v) /\ AnswerMine(v))'
  <2>1. CASE v = u
    <3>1. BitKnown(u) /\ ValueMine(u) /\ (step[u] = "drain" => polls[u] = 0)
      BY <2>1, <1>1, <1>3, <1>8 DEF LoneInv, PollsLate
    <3>2. polls[u] \in 0 .. 3 /\ empty \in BOOLEAN
      BY <1>1 DEF MailTypes
    <3>3. step[u] = "poll" => polls'[u] = polls[u] + 1
      BY <1>1, <1>4 DEF MailTypes
    <3>4. step'[u] \in {"room", "stale", "send", "poll", "read"}
      BY <1>4
    <3>5. BitKnown(u)'
      <4>1. CASE step[u] = "drain"
        BY <4>1, <1>2, <1>4 DEF BitKnown
      <4>2. CASE step[u] = "room"
        BY <4>2, <1>2, <1>4, <3>1 DEF BitKnown
      <4>3. CASE step[u] = "poll" /\ empty
        <5>1. polls[u] = 0 /\ step'[u] = "poll" /\ ~empty'
          BY <4>3, <1>2, <1>4, <3>1 DEF BitKnown
        <5> QED
          BY <4>3, <5>1, <3>3 DEF BitKnown
      <4>4. CASE step[u] = "poll" /\ ~empty
        BY <4>4, <1>2, <1>4, <3>1, <3>3 DEF BitKnown
      <4> QED
        BY <4>1, <4>2, <4>3, <4>4, <1>4
    <3>6. ValueMine(u)' /\ AnswerMine(u)'
      BY <1>2, <1>4, <3>1 DEF ValueMine, AnswerMine
    <3> QED
      BY <2>1, <3>5, <3>6
  <2>2. CASE v # u
    <3>1. step'[v] \in {"idle", "ended"}
      BY <2>2, <1>3, <1>4, <1>8
    <3> QED
      BY <3>1 DEF BitKnown, ValueMine, AnswerMine
  <2> QED
    BY <2>1, <2>2
<1> QED
  BY <1>6, <1>7, <1>8 DEF MailInv, LoneInv

LEMMA ReadMailInv ==
  ASSUME MailInv, NEW u \in MailVM, ReadMail(u)
  PROVE  MailInv'
<1>1. MailTypes /\ PollsLate /\ LoneInv
  BY DEF MailInv
<1>2. /\ UNCHANGED <<mbox, mbox_val, empty, polls>>
      /\ got' = [got EXCEPT ![u] = mbox_val]
      /\ mail' = IF mbox = Null THEN mail ELSE [mail EXCEPT ![mbox] = Answered(@)]
  BY DEF ReadMail, emulate_mbox_read
<1>3. /\ mixed' \in [MailVM -> BOOLEAN]
      /\ \A v \in MailVM : ~mixed'[v] => ~mixed[v] /\ (v = u \/ step[v] \in {"idle", "ended"})
  BY <1>1, UseMixes DEF ReadMail
<1>4. /\ step' \in [MailVM -> Steps]
      /\ \A v \in MailVM : v # u => step'[v] = step[v]
      /\ \/ step[u] = "stale" /\ step'[u] = "drain"
         \/ step[u] = "read" /\ step'[u] = "done"
  BY <1>1, Moves DEF ReadMail, Steps
<1>5. mail' \in [MailVM \cup {Page0} -> Buffers]
  BY <1>1, <1>2, AnsweredKeeps DEF MailTypes
<1>6. got' \in [MailVM -> Written] /\ got'[u] = mbox_val
  BY <1>1, <1>2 DEF MailTypes
<1>7. MailTypes'
  BY <1>1, <1>2, <1>3, <1>4, <1>5, <1>6 DEF MailTypes
<1>8. PollsLate'
  BY <1>1, <1>2, <1>4 DEF PollsLate
<1>9. ASSUME NEW v \in MailVM, ~mixed'[v]
      PROVE  (BitKnown(v) /\ ValueMine(v) /\ AnswerMine(v))'
  <2>1. CASE v = u
    <3>1. BitKnown(u) /\ ValueMine(u)
      BY <2>1, <1>1, <1>3, <1>9 DEF LoneInv
    <3>2. BitKnown(u)'
      BY <1>2, <1>4, <3>1 DEF BitKnown
    <3>3. ValueMine(u)'
      BY <1>2, <1>4, <3>1 DEF ValueMine
    <3>4. ASSUME step'[u] = "done", mbox = u, mbox_val.chan = "tags", mail'[u].tag \in Supported
          PROVE  mail'[u].type = "response"
      <4>1. mbox # Null /\ mail[u] \in Buffers /\ u \in MailVM \cup {Page0}
        BY <3>4, <1>1, MailboxAssumption DEF MailTypes
      <4>2. mail'[u] = Answered(mail[u])
        BY <4>1, <1>1, <1>2, <3>4 DEF MailTypes
      <4> QED
        BY <4>1, <4>2, <3>4, AnsweredKeeps
    <3> QED
      BY <2>1, <1>2, <1>6, <3>2, <3>3, <3>4 DEF AnswerMine
  <2>2. CASE v # u
    <3>1. step'[v] \in {"idle", "ended"}
      BY <2>2, <1>3, <1>4, <1>9
    <3> QED
      BY <3>1 DEF BitKnown, ValueMine, AnswerMine
  <2> QED
    BY <2>1, <2>2
<1> QED
  BY <1>7, <1>8, <1>9 DEF MailInv, LoneInv

LEMMA WriteMailInv ==
  ASSUME MailInv, NEW u \in MailVM, WriteMail(u)
  PROVE  MailInv'
<1>1. MailTypes /\ PollsLate /\ LoneInv
  BY DEF MailInv
<1>2. PICK chan \in {"tags", "none"}, mapped \in {"mapped", "no page", "no tables"} :
        /\ step[u] = "send" /\ Goes(u, IF mapped = "no tables" THEN "ended" ELSE "poll")
        /\ emulate_mbox_write(u, chan, mapped) /\ Uses(u) /\ UNCHANGED polls
  BY DEF WriteMail
<1>3. /\ mixed' \in [MailVM -> BOOLEAN]
      /\ \A v \in MailVM : ~mixed'[v] => ~mixed[v] /\ (v = u \/ step[v] \in {"idle", "ended"})
  BY <1>1, <1>2, UseMixes
<1>4. /\ step' \in [MailVM -> Steps] /\ step'[u] \in {"poll", "ended"}
      /\ step'[u] = "poll" => mapped # "no tables"
      /\ \A v \in MailVM : v # u => step'[v] = step[v]
  BY <1>1, <1>2, Moves DEF Steps
<1>5. /\ mbox_val' = [of |-> u, chan |-> chan]
      /\ mbox' = IF mapped = "no tables" THEN mbox ELSE IF mapped = "mapped" THEN u ELSE Page0
      /\ UNCHANGED <<empty, mail, got, polls>>
  BY <1>2 DEF emulate_mbox_write, BufferOf
<1>6. MailTypes'
  BY <1>1, <1>3, <1>4, <1>5 DEF MailTypes, Written
<1>7. PollsLate' /\ polls'[u] = 0
  BY <1>1, <1>2, <1>4, <1>5 DEF PollsLate
<1>8. ASSUME NEW v \in MailVM, ~mixed'[v]
      PROVE  (BitKnown(v) /\ ValueMine(v) /\ AnswerMine(v))'
  <2>1. CASE v = u
    <3>1. BitKnown(u)
      BY <2>1, <1>1, <1>3, <1>8 DEF LoneInv
    <3>2. BitKnown(u)'
      BY <1>2, <1>4, <1>5, <1>7, <3>1 DEF BitKnown
    <3>3. ValueMine(u)' /\ AnswerMine(u)'
      BY <1>4, <1>5 DEF ValueMine, AnswerMine
    <3> QED
      BY <2>1, <3>2, <3>3
  <2>2. CASE v # u
    <3>1. step'[v] \in {"idle", "ended"}
      BY <2>2, <1>3, <1>4, <1>8
    <3> QED
      BY <3>1 DEF BitKnown, ValueMine, AnswerMine
  <2> QED
    BY <2>1, <2>2
<1> QED
  BY <1>6, <1>7, <1>8 DEF MailInv, LoneInv

LEMMA FinishInv ==
  ASSUME MailInv, NEW u \in MailVM, Finish(u)
  PROVE  MailInv'
<1>1. MailTypes /\ PollsLate /\ LoneInv
  BY DEF MailInv
<1>2. /\ step' \in [MailVM -> Steps] /\ step'[u] = "idle"
      /\ \A v \in MailVM : v # u => step'[v] = step[v]
  BY <1>1, Moves DEF Finish, Steps
<1>3. /\ got' = [got EXCEPT ![u] = Nothing] /\ polls' = [polls EXCEPT ![u] = 0]
      /\ mixed' = [mixed EXCEPT ![u] = FALSE]
      /\ UNCHANGED <<mbox, mbox_val, empty, mail>>
  BY DEF Finish
<1>4. Nothing \in Written
  BY DEF Nothing, Written
<1>5. MailTypes'
  BY <1>1, <1>2, <1>3, <1>4 DEF MailTypes
<1>6. PollsLate'
  BY <1>1, <1>2, <1>3 DEF PollsLate, MailTypes
<1>7. ASSUME NEW v \in MailVM, ~mixed'[v]
      PROVE  (BitKnown(v) /\ ValueMine(v) /\ AnswerMine(v))'
  <2>1. CASE v = u
    BY <2>1, <1>2 DEF BitKnown, ValueMine, AnswerMine
  <2>2. CASE v # u
    <3>1. /\ ~mixed[v] /\ step'[v] = step[v] /\ polls'[v] = polls[v] /\ got'[v] = got[v]
      BY <2>2, <1>1, <1>2, <1>3, <1>7 DEF MailTypes
    <3> QED
      BY <3>1, <1>1, <1>3 DEF LoneInv, BitKnown, ValueMine, AnswerMine
  <2> QED
    BY <2>1, <2>2
<1> QED
  BY <1>5, <1>6, <1>7 DEF MailInv, LoneInv

LEMMA MailKeeps == MailInv /\ [MailboxNext]_mailVars => MailInv'
<1> SUFFICES ASSUME MailInv, [MailboxNext]_mailVars PROVE MailInv'
  OBVIOUS
<1>1. CASE MailboxNext
  BY <1>1, AskInv, ReadStatusInv, ReadMailInv, WriteMailInv, FinishInv DEF MailboxNext
<1>2. CASE UNCHANGED mailVars
  BY <1>2 DEF mailVars, MailInv, MailTypes, PollsLate, LoneInv, BitKnown, ValueMine, AnswerMine
<1> QED
  BY <1>1, <1>2

LEMMA MailCompletes == MailInv => LoneCallCompletes
<1> SUFFICES ASSUME MailInv, NEW v \in MailVM, ~mixed[v]
    PROVE  /\ step[v] = "done" =>
                /\ got[v].of = v
                /\ mbox = v /\ got[v].chan = "tags" /\ mail[v].tag \in Supported
                     => mail[v].type = "response"
                /\ mbox \in {v, Page0}
           /\ polls[v] <= 2
           /\ polls[v] = 2 => step[v] # "poll"
  BY DEF LoneCallCompletes, LoneCallAnswered, LonePollEnds
<1>1. BitKnown(v) /\ ValueMine(v) /\ AnswerMine(v)
  BY DEF MailInv, LoneInv
<1>2. polls[v] \in 0 .. 3 /\ step[v] \in Steps
  BY DEF MailInv, MailTypes
<1>3. polls[v] <= 2 /\ (polls[v] = 2 => step[v] # "poll")
  BY <1>1, <1>2 DEF MailInv, PollsLate, BitKnown, Steps
<1> QED
  BY <1>1, <1>3 DEF ValueMine, AnswerMine

(***************************************************************************)
(* A guest whose call no other VM's access falls into polls at most twice  *)
(* and reads its own address and channel, with its request answered if the *)
(* tag is emulated and its buffer mapped (vmbox.c), however many other VMs *)
(* use the mailbox before and after.                                       *)
(***************************************************************************)
THEOREM LoneCallsComplete == MailboxSpec => []LoneCallCompletes
<1>1. MailboxSpec => []MailInv
  BY MailStarts, MailKeeps, PTL DEF MailboxSpec
<1> QED
  BY <1>1, MailCompletes, PTL

-----------------------------------------------------------------------------
(***************************************************************************)
(* The shell.  In the active buffer zeros begin behind the characters that *)
(* were typed: the clearing at the end of shell_kick() and the store of    *)
(* each rub-out keep it so, and it is why the string that Enter runs is    *)
(* the line, and why a dot of an older line is not taken for a repetition. *)
(***************************************************************************)
\* The buffer that is typed into, and the one that holds the line before.
Line == input_line[input_line_active]
Other == SHELL_INPUT_LINE_OTHER(input_line_active)

\* Only the active buffer is constrained: whatever string is in the other one is
\* the line that ran last.
LineInv ==
  /\ input_line \in [{0, 1} -> [Cells -> Nat]]
  /\ input_line_active \in {0, 1} /\ input_line_len \in 0 .. SHELL_CMD_MAX_LEN
  /\ \A i \in Cells : Line[i] # 0 <=> i <= input_line_len

\* The buffers take turns.
LEMMA Others ==
  ASSUME NEW a \in {0, 1}
  PROVE  SHELL_INPUT_LINE_OTHER(a) = 1 - a
BY DEF SHELL_INPUT_LINE_OTHER

\* What zeros behind the characters mean: the string Enter finds is the line.
TypedLine ==
  /\ InBuffer(Line) = Typed
  /\ Typed \in Seq(Nat) /\ Len(Typed) = input_line_len
  /\ \A i \in 1 .. input_line_len : Typed[i] = Line[i]

LEMMA LineIsTyped == LineInv => TypedLine
<1> SUFFICES ASSUME LineInv PROVE TypedLine
  OBVIOUS
<1>1. SHELL_CMD_MAX_LEN \in Nat
  BY ShellAssumption
<1>2. input_line_len \in Nat /\ input_line_len + 1 \in Cells /\ Line \in [Cells -> Nat]
  BY <1>1 DEF LineInv, Line, Cells
<1>3. Typed = [i \in 1 .. input_line_len |-> Line[i]]
  BY <1>1, <1>2 DEF Typed, Line, Cells
<1>4. \A i \in 1 .. input_line_len : Line[i] \in Nat
  BY <1>1, <1>2 DEF Cells, LineInv
<1>5. Typed \in Seq(Nat) /\ Len(Typed) = input_line_len
  BY <1>2, <1>3, <1>4
<1> DEFINE Ends_(n) == Line[n] = 0 /\ \A i \in 1 .. n - 1 : Line[i] # 0
<1>6. Ends_(input_line_len + 1)
  BY <1>1, <1>2 DEF LineInv, Cells
<1>7. ASSUME NEW n \in Cells, Ends_(n)
      PROVE  n = input_line_len + 1
  <2>1. n > input_line_len
    BY <1>1, <1>2, <1>7 DEF LineInv, Cells
  <2>2. ~(input_line_len + 1 < n)
    BY <1>1, <1>2, <1>7, <1>6 DEF Cells
  <2> QED BY <1>1, <1>2, <2>1, <2>2 DEF Cells
<1>8. NulIn(Line) = input_line_len + 1
  <2> HIDE DEF Ends_
  <2>1. (CHOOSE n \in Cells : Ends_(n)) = input_line_len + 1
    BY <1>2, <1>6, <1>7
  <2> QED BY <2>1, Zenon DEF Ends_, NulIn
<1>9. InBuffer(Line) = SubSeq(Line, 1, input_line_len)
  <2>1. NulIn(Line) - 1 = input_line_len
    BY <1>2, <1>8
  <2> QED BY <2>1, Zenon DEF InBuffer
<1> QED
  BY <1>2, <1>3, <1>5, <1>9 DEF Typed, Line, TypedLine

LEMMA NextLineIsTyped == LineInv' => TypedLine'
BY LineIsTyped, PTL

\* shell_process() looks at the first cell of the buffer: also of an empty line.
LEMMA Begun ==
  ASSUME LineInv
  PROVE  Line[1] = DOT <=> Typed # <<>> /\ Typed[1] = DOT
<1>1. 1 \in Cells /\ input_line_len \in Nat
  BY ShellAssumption DEF LineInv, Cells
<1>2. Line[1] # 0 <=> 1 <= input_line_len
  BY <1>1 DEF LineInv
<1> QED BY <1>1, <1>2, LineIsTyped DEF TypedLine, DOT

\* Nothing of the line changes, and none ran.
LEMMA Ignores ==
  ASSUME LineInv, UNCHANGED <<input_line, input_line_len, input_line_active>>,
         command' = NoCommand
  PROVE  LineInv' /\ L!Ignore
BY DEF LineInv, Line, L!Ignore, L!None, Typed, NoCommand

\* A rub-out shortens the line, and is ignored when there is none.
LEMMA BackspaceStep ==
  ASSUME LineInv, NEW ch \in Keys, ShellBackspace(ch)
  PROVE  LineInv' /\ (L!Ignore \/ L!Rub)
<1>1. CASE input_line_len = 0
  BY <1>1, Ignores DEF ShellBackspace, Shows
<1>2. CASE input_line_len # 0
  <2>1. /\ input_line_len' = input_line_len - 1 /\ command' = NoCommand
        /\ input_line_active' = input_line_active
        /\ input_line' = [input_line EXCEPT ![input_line_active][input_line_len] = 0]
    BY <1>2 DEF ShellBackspace, Shows
  <2>2. /\ SHELL_CMD_MAX_LEN \in Nat /\ input_line_len \in 1 .. SHELL_CMD_MAX_LEN
        /\ input_line_active \in {0, 1} /\ input_line \in [{0, 1} -> [Cells -> Nat]]
    BY <1>2, ShellAssumption DEF LineInv
  <2>3. /\ Line' = [Line EXCEPT ![input_line_len] = 0]
        /\ input_line'[1 - input_line_active] = input_line[1 - input_line_active]
        /\ input_line' \in [{0, 1} -> [Cells -> Nat]]
    BY <2>1, <2>2 DEF Line, Cells
  <2>4. Line \in [Cells -> Nat]
    BY <2>2 DEF Line
  <2>5. LineInv'
    <3>1. \A i \in Cells : Line'[i] # 0 <=> i <= input_line_len'
      BY <2>1, <2>2, <2>3 DEF LineInv, Cells, Line
    <3> QED BY <2>1, <2>2, <2>3, <3>1 DEF LineInv, Cells
  <2>6. Typed' = SubSeq(Typed, 1, Len(Typed) - 1)
    <3>1. /\ Typed \in Seq(Nat) /\ Len(Typed) = input_line_len
          /\ \A i \in 1 .. input_line_len : Typed[i] = Line[i]
      BY LineIsTyped DEF TypedLine
    <3>2. /\ Typed' \in Seq(Nat) /\ Len(Typed') = input_line_len - 1
          /\ \A i \in 1 .. input_line_len - 1 : Typed'[i] = Line'[i]
      BY <2>1, <2>5, NextLineIsTyped DEF TypedLine
    <3>3. \A i \in 1 .. input_line_len - 1 : Typed'[i] = Typed[i]
      BY <2>2, <2>3, <2>4, <3>1, <3>2 DEF Cells
    <3> QED BY <2>2, <3>1, <3>2, <3>3
  <2>7. Typed # <<>>
    BY <2>2, LineIsTyped DEF TypedLine
  <2> QED
    BY <2>1, <2>2, <2>3, <2>5, <2>6, <2>7, Others DEF L!Rub, L!None, NoCommand
<1> QED BY <1>1, <1>2

\* A printable character goes to the end of a line that has room.
LEMMA CharStep ==
  ASSUME LineInv, NEW ch \in Keys, ShellChar(ch)
  PROVE  /\ LineInv'
         /\ Len(Typed) < SHELL_CMD_MAX_LEN
         /\ \E c \in {k \in Keys : IsPrintable(k)} : L!Type(c)
<1>1. /\ input_line_len' = input_line_len + 1 /\ command' = NoCommand
      /\ input_line_active' = input_line_active
      /\ input_line' = [input_line EXCEPT ![input_line_active][input_line_len + 1] = ch]
      /\ input_line_len < SHELL_CMD_MAX_LEN /\ ch \in 32 .. 126
  BY DEF ShellChar, Shows, IsPrintable
<1>2. /\ SHELL_CMD_MAX_LEN \in Nat /\ input_line_len \in 0 .. SHELL_CMD_MAX_LEN
      /\ input_line_active \in {0, 1} /\ input_line \in [{0, 1} -> [Cells -> Nat]]
  BY ShellAssumption DEF LineInv
<1>3. Line \in [Cells -> Nat]
  BY <1>2 DEF Line
<1>4. input_line_len + 1 \in Cells /\ ch \in Nat
  BY <1>1, <1>2 DEF Cells
<1>5. /\ Line' = [Line EXCEPT ![input_line_len + 1] = ch]
      /\ input_line'[1 - input_line_active] = input_line[1 - input_line_active]
      /\ input_line' \in [{0, 1} -> [Cells -> Nat]]
  BY <1>1, <1>2, <1>4 DEF Line
<1>6. LineInv'
  <2>1. \A i \in Cells : Line'[i] # 0 <=> i <= input_line_len'
    BY <1>1, <1>2, <1>5 DEF LineInv, Cells, Line
  <2> QED BY <1>1, <1>2, <1>5, <2>1 DEF LineInv, Cells
<1>7. Typed' = Append(Typed, ch)
  <2>1. /\ Typed \in Seq(Nat) /\ Len(Typed) = input_line_len
        /\ \A i \in 1 .. input_line_len : Typed[i] = Line[i]
    BY LineIsTyped DEF TypedLine
  <2>2. /\ Typed' \in Seq(Nat) /\ Len(Typed') = input_line_len + 1
        /\ \A i \in 1 .. input_line_len + 1 : Typed'[i] = Line'[i]
    BY <1>1, <1>6, NextLineIsTyped DEF TypedLine
  <2>3. /\ \A i \in 1 .. input_line_len : Typed'[i] = Typed[i]
        /\ Typed'[input_line_len + 1] = ch
    BY <1>2, <1>5, <1>3, <2>1, <2>2 DEF Cells
  <2> QED BY <1>2, <2>1, <2>2, <2>3
<1>8. L!Type(ch)
  BY <1>1, <1>2, <1>5, <1>7, Others DEF L!Type, L!None, NoCommand
<1> QED
  BY <1>1, <1>2, <1>6, <1>8, LineIsTyped DEF TypedLine, IsPrintable

\* Enter runs the line, or the one in the other buffer; then the next line is empty
\* and the line that ran is in the other buffer.
LEMMA EnterStep ==
  ASSUME LineInv, NEW ch \in Keys, ShellEnter(ch)
  PROVE  LineInv' /\ L!Run
<1> DEFINE repeated == Line[1] = DOT
           next == NextActive(repeated)
<1>1. /\ SHELL_CMD_MAX_LEN \in Nat
      /\ input_line_active \in {0, 1} /\ input_line \in [{0, 1} -> [Cells -> Nat]]
  BY ShellAssumption DEF LineInv
<1>2. /\ input_line_len' = 0 /\ input_line_active' = next
      /\ input_line' = [input_line EXCEPT ![next] = Blank]
      /\ command'.lines = <<InBuffer(input_line[IF repeated THEN Other ELSE input_line_active])>>
  BY DEF ShellEnter, shell_process, Line, Other
<1>3. next = IF repeated THEN input_line_active ELSE 1 - input_line_active
  BY <1>1, Others DEF NextActive
<1>4. Blank \in [Cells -> Nat] /\ \A i \in Cells : Blank[i] = 0
  BY DEF Blank
<1>5. /\ input_line' \in [{0, 1} -> [Cells -> Nat]] /\ Line' = Blank /\ next \in {0, 1}
      /\ input_line'[1 - next] = input_line[1 - next]
  BY <1>1, <1>2, <1>3, <1>4 DEF Line
<1>6. LineInv'
  BY <1>1, <1>2, <1>4, <1>5 DEF LineInv, Cells
<1>7. Typed' = <<>>
  BY <1>2, <1>6, NextLineIsTyped DEF TypedLine
<1>8. L!Repeats <=> repeated
  BY Begun DEF L!Repeats
<1>9. InBuffer(input_line[SHELL_INPUT_LINE_OTHER(input_line_active)])'
        = InBuffer(input_line[1 - next])
  <2>1. input_line'[SHELL_INPUT_LINE_OTHER(input_line_active')] = input_line[1 - next]
    BY <1>2, <1>5, Others
  <2> QED BY <2>1 DEF InBuffer, SHELL_INPUT_LINE_OTHER
<1>10. CASE repeated
  BY <1>1, <1>2, <1>3, <1>6, <1>7, <1>8, <1>9, <1>10, Others DEF L!Run, Other
<1>11. CASE ~repeated
  <2>1. 1 - next = input_line_active /\ InBuffer(Line) = Typed
    BY <1>1, <1>3, <1>11, LineIsTyped DEF TypedLine
  <2> QED
    BY <1>2, <1>6, <1>7, <1>8, <1>9, <1>11, <2>1 DEF L!Run, Line
<1> QED
  BY <1>6, <1>10, <1>11

\* A key is a step of the editor and keeps the zeros where they belong.
LEMMA ShellStep ==
  ASSUME LineInv, [ShellNext]_shellVars
  PROVE  /\ LineInv'
         /\ [L!Next]_<<Typed, InBuffer(input_line[SHELL_INPUT_LINE_OTHER(input_line_active)]),
                      command.lines>>
<1>1. CASE UNCHANGED shellVars
  BY <1>1 DEF shellVars, LineInv, Line, Typed, InBuffer
<1>2. CASE ShellBack
  BY <1>2, Ignores DEF ShellBack, L!Next
<1>3. ASSUME NEW ch \in Keys, shell_kick(ch)
      PROVE  LineInv' /\ L!Next
  <2>1. CASE ShellSwallow
    BY <2>1, Ignores DEF ShellSwallow, Shows, L!Next
  <2>2. CASE ShellBackspace(ch)
    BY <2>2, BackspaceStep DEF L!Next
  <2>3. CASE ShellChar(ch)
    BY <2>3, CharStep DEF L!Next
  <2>4. CASE ShellSpecial(ch)
    BY <2>4, Ignores DEF ShellSpecial, Shows, L!Next
  <2>5. CASE ShellLineFeed(ch)
    BY <2>5, Ignores DEF ShellLineFeed, Shows, L!Next
  <2>6. CASE ShellEnter(ch)
    BY <2>6, EnterStep DEF L!Next
  <2> QED BY <1>3, <2>1, <2>2, <2>3, <2>4, <2>5, <2>6 DEF shell_kick
<1> QED
  BY <1>1, <1>2, <1>3 DEF ShellNext

\* Both buffers are zero at the start, as static variables and shell_init().
LEMMA ShellStart == ShellInit => LineInv /\ L!Init
<1> SUFFICES ASSUME ShellInit PROVE LineInv /\ L!Init
  OBVIOUS
<1>1. SHELL_CMD_MAX_LEN \in Nat /\ 1 \in Cells
  BY ShellAssumption DEF Cells
<1>2. LineInv
  BY <1>1 DEF ShellInit, LineInv, Line, Blank, Cells
<1>3. Typed = <<>> /\ InBuffer(Line) = <<>>
  BY <1>1, <1>2, LineIsTyped DEF TypedLine, ShellInit
<1> QED
  BY <1>2, <1>3, Others DEF ShellInit, L!Init, L!None, NoCommand, Line

(***************************************************************************)
(* shell.c implements the line editor for every line length, set of keys   *)
(* and table of commands: Enter runs exactly what is on the line, a dot    *)
(* the line that ran last, and the two buffers that take turns never show. *)
(***************************************************************************)
THEOREM ShellImplementsLineEditor == ShellSpec => IsLineEditor
<1>1. ShellInit => LineInv /\ L!Init
  BY ShellStart
<1>2. LineInv /\ [ShellNext]_shellVars =>
        /\ LineInv'
        /\ [L!Next]_<<Typed, InBuffer(input_line[SHELL_INPUT_LINE_OTHER(input_line_active)]),
                     command.lines>>
  BY ShellStep
<1> QED
  BY <1>1, <1>2, PTL DEF ShellSpec, IsLineEditor, L!Spec
=============================================================================
