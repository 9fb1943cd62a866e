----------------------------- MODULE ConsoleProofs -----------------------------
(***************************************************************************)
(* The console, for every number of VMs, room in the buffers, set of keys  *)
(* and of accesses: the buffers keep their bounds and their promises, keys *)
(* reach the VM they were typed at in order, output is printed once and in *)
(* order, and the interrupt lines are true while a VM runs.                *)
(*                                                                         *)
(* Effect says what any step does to the two buffers of a VM, to the keys  *)
(* that wait and to the console that is shown; it is shown once, action by *)
(* action, and the parts of the invariant follow from it.                  *)
(***************************************************************************)
EXTENDS Console, SequenceTheorems, TLAPS

\* A register is a set of bits, a character is one too.
Bits == SUBSET Nat

Device ==
  [fiq_control : Bits, irqs_1 : Bits, irqs_2 : Bits, basic : Bits,
   enables : Bits, ier : Bits, lcr : Bits, mcr : Bits, msr : Bits,
   scratch : Bits, cntl : Bits, baud : Bits, overrun : BOOLEAN,
   cs : Bits, in : Seq(Bits), out : Seq(Bits)]

LEMMA InitialDevice == initial_state \in Device /\ initial_state.in = <<>> /\ initial_state.out = <<>>
BY DEF initial_state, Device, Bits

LEMMA TruncIs ==
  ASSUME NEW w \in Nat, NEW val
  PROVE  Trunc(w, val) \in Bits
BY DEF Trunc, Bits

LEMMA EnqueueIs ==
  ASSUME NEW q \in Seq(Bits), NEW ch \in Bits, Len(q) <= FIFO_ROOM
  PROVE  /\ enqueue(q, ch) \in Seq(Bits)
         /\ Len(enqueue(q, ch)) <= FIFO_ROOM
         /\ enqueue(q, ch) = q \/ (enqueue(q, ch) = Append(q, ch) /\ Len(q) < FIFO_ROOM)
<1>1. FIFO_ROOM \in Nat
  BY DevicesAssumption
<1>2. Append(q, ch) \in Seq(Bits) /\ Len(Append(q, ch)) = Len(q) + 1
  BY AppendProperties
<1>3. Len(q) \in Nat
  BY LenProperties
<1> QED
  BY <1>1, <1>2, <1>3 DEF enqueue

\* What a read does to the buffers.
LEMMA ReadKeeps ==
  ASSUME NEW d \in Device, NEW addr
  PROVE  LET e == AfterMmioRead(d, addr) IN
         /\ e \in Device /\ e.out = d.out
         /\ \/ e.in = d.in
            \/ /\ addr = "AUX_MU_IO_REG" /\ d.in # <<>>
               /\ e.in = Tail(d.in) /\ MmioValue(d, addr) = Head(d.in)
<1> DEFINE e == AfterMmioRead(d, addr)
<1>1. CASE e = d
  BY <1>1
<1>2. CASE addr = "AUX_MU_LSR_REG" /\ e = [d EXCEPT !.overrun = FALSE]
  BY <1>2 DEF Device
<1>3. CASE addr = "AUX_MU_IO_REG" /\ e = [d EXCEPT !.lcr = @ \ {LCR_DLAB}]
  BY <1>3 DEF Device, Bits
<1>4. CASE /\ addr = "AUX_MU_IO_REG" /\ ~Disabled(d, addr) /\ ~Dlab(d) /\ ~is_empty(d.in)
           /\ e = [d EXCEPT !.in = Tail(@)]
  <2>1. d.in \in Seq(Bits) /\ d.in # <<>>
    BY <1>4 DEF Device, is_empty
  <2>2. Tail(d.in) \in Seq(Bits)
    BY <2>1, HeadTailProperties
  <2>3. e \in Device /\ e.out = d.out /\ e.in = Tail(d.in)
    BY <1>4, <2>2 DEF Device
  <2>4. MmioValue(d, addr) = Head(d.in)
    BY <1>4 DEF MmioValue, Intctrl, Aux, AuxMu, AuxValue
  <2> QED
    BY <1>4, <2>1, <2>3, <2>4
<1>5. \/ e = d
      \/ addr = "AUX_MU_LSR_REG" /\ e = [d EXCEPT !.overrun = FALSE]
      \/ addr = "AUX_MU_IO_REG" /\ e = [d EXCEPT !.lcr = @ \ {LCR_DLAB}]
      \/ /\ addr = "AUX_MU_IO_REG" /\ ~Disabled(d, addr) /\ ~Dlab(d) /\ ~is_empty(d.in)
         /\ e = [d EXCEPT !.in = Tail(@)]
  <2>1. CASE addr \notin Aux \/ Disabled(d, addr)
    BY <2>1 DEF AfterMmioRead, AfterAuxRead
  <2>2. CASE addr \in Aux /\ ~Disabled(d, addr)
    <3>1. e = AfterAuxRead(d, addr)
      BY <2>2 DEF AfterMmioRead
    <3>2. CASE addr = "AUX_MU_LSR_REG"
      BY <2>2, <3>1, <3>2 DEF AfterAuxRead
    <3>3. CASE addr = "AUX_MU_IO_REG"
      BY <2>2, <3>1, <3>3 DEF AfterAuxRead
    <3>4. CASE addr \notin {"AUX_MU_LSR_REG", "AUX_MU_IO_REG"}
      BY <2>2, <3>1, <3>4 DEF AfterAuxRead
    <3> QED
      BY <3>2, <3>3, <3>4
  <2> QED
    BY <2>1, <2>2
<1> QED
  BY <1>1, <1>2, <1>3, <1>4, <1>5

\* A write to another register leaves the buffers alone.
Apart(d, e) == e \in Device /\ e.in = d.in /\ e.out = d.out

LEMMA FieldWrites ==
  ASSUME NEW d \in Device, NEW x \in Bits
  PROVE  /\ Apart(d, [d EXCEPT !.fiq_control = x])
         /\ Apart(d, [d EXCEPT !.irqs_1 = x])
         /\ Apart(d, [d EXCEPT !.irqs_2 = x])
         /\ Apart(d, [d EXCEPT !.basic = x])
         /\ Apart(d, [d EXCEPT !.enables = x])
         /\ Apart(d, [d EXCEPT !.ier = x])
         /\ Apart(d, [d EXCEPT !.lcr = x])
         /\ Apart(d, [d EXCEPT !.mcr = x])
         /\ Apart(d, [d EXCEPT !.scratch = x])
         /\ Apart(d, [d EXCEPT !.cntl = x])
         /\ Apart(d, [d EXCEPT !.baud = x])
         /\ Apart(d, [d EXCEPT !.cs = x])
<1>1. Apart(d, [d EXCEPT !.fiq_control = x])
  BY DEF Device, Apart
<1>2. Apart(d, [d EXCEPT !.irqs_1 = x])
  BY DEF Device, Apart
<1>3. Apart(d, [d EXCEPT !.irqs_2 = x])
  BY DEF Device, Apart
<1>4. Apart(d, [d EXCEPT !.basic = x])
  BY DEF Device, Apart
<1>5. Apart(d, [d EXCEPT !.enables = x])
  BY DEF Device, Apart
<1>6. Apart(d, [d EXCEPT !.ier = x])
  BY DEF Device, Apart
<1>7. Apart(d, [d EXCEPT !.lcr = x])
  BY DEF Device, Apart
<1>8. Apart(d, [d EXCEPT !.mcr = x])
  BY DEF Device, Apart
<1>9. Apart(d, [d EXCEPT !.scratch = x])
  BY DEF Device, Apart
<1>10. Apart(d, [d EXCEPT !.cntl = x])
  BY DEF Device, Apart
<1>11. Apart(d, [d EXCEPT !.baud = x])
  BY DEF Device, Apart
<1>12. Apart(d, [d EXCEPT !.cs = x])
  BY DEF Device, Apart
<1> QED
  BY <1>1, <1>2, <1>3, <1>4, <1>5, <1>6, <1>7, <1>8, <1>9, <1>10, <1>11, <1>12

LEMMA BufferWrites ==
  ASSUME NEW d \in Device, NEW q \in Seq(Bits)
  PROVE  /\ [d EXCEPT !.in = q] \in Device
         /\ [d EXCEPT !.in = q].in = q /\ [d EXCEPT !.in = q].out = d.out
         /\ [d EXCEPT !.out = q] \in Device
         /\ [d EXCEPT !.out = q].out = q /\ [d EXCEPT !.out = q].in = d.in
BY DEF Device

\* A write to the interrupt controller leaves the buffers alone.
LEMMA IntctrlKeeps ==
  ASSUME NEW d \in Device, NEW addr \in Intctrl, NEW val
  PROVE  LET e == handle_intctrl_write(d, addr, val) IN
         Apart(d, e)
<1> DEFINE e == handle_intctrl_write(d, addr, val)
<1>1. /\ d.fiq_control \in Bits /\ d.irqs_1 \in Bits /\ d.irqs_2 \in Bits /\ d.basic \in Bits
  BY DEF Device
<1>2. /\ Trunc(8, val) \in Bits /\ d.irqs_1 \cup Trunc(32, val) \in Bits
      /\ d.irqs_2 \cup Trunc(32, val) \in Bits /\ d.basic \cup Trunc(8, val) \in Bits
      /\ d.irqs_1 \ val \in Bits /\ d.irqs_2 \ val \in Bits /\ d.basic \ val \in Bits
  BY <1>1, TruncIs DEF Bits
<1>3. CASE addr = "FIQ_CONTROL"
  BY <1>2, <1>3, FieldWrites DEF handle_intctrl_write
<1>4. CASE addr = "ENABLE_IRQS_1"
  BY <1>2, <1>4, FieldWrites DEF handle_intctrl_write
<1>5. CASE addr = "ENABLE_IRQS_2"
  BY <1>2, <1>5, FieldWrites DEF handle_intctrl_write
<1>6. CASE addr = "ENABLE_BASIC_IRQS"
  BY <1>2, <1>6, FieldWrites DEF handle_intctrl_write
<1>7. CASE addr = "DISABLE_IRQS_1"
  BY <1>2, <1>7, FieldWrites DEF handle_intctrl_write
<1>8. CASE addr = "DISABLE_IRQS_2"
  BY <1>2, <1>8, FieldWrites DEF handle_intctrl_write
<1>9. CASE addr = "DISABLE_BASIC_IRQS"
  BY <1>2, <1>9, FieldWrites DEF handle_intctrl_write
<1>10. CASE addr \in {"IRQ_BASIC_PENDING", "IRQ_PENDING_1", "IRQ_PENDING_2"}
  BY <1>10 DEF handle_intctrl_write, Apart
<1> QED
  BY <1>3, <1>4, <1>5, <1>6, <1>7, <1>8, <1>9, <1>10 DEF Intctrl

\* A write to the UART may empty its buffers; a character joins the output.
LEMMA AuxKeeps ==
  ASSUME NEW d \in Device, NEW addr \in Aux, NEW val, addr # "AUX_MU_IO_REG"
  PROVE  LET e == handle_aux_write(d, addr, val) IN
         e \in Device /\ e.in \in {d.in, <<>>} /\ e.out \in {d.out, <<>>}
<1> DEFINE e == handle_aux_write(d, addr, val)
<1>1. CASE Disabled(d, addr)
  BY <1>1 DEF handle_aux_write
<1>2. CASE ~Disabled(d, addr)
  <2> DEFINE high == Trunc(8, d.baud) \cup {b + 8 : b \in Trunc(8, val)}
  <2>1. Trunc(8, val) \in Bits /\ Trunc(16, val) \in Bits /\ high \in Bits
    BY TruncIs DEF Bits, Trunc
  <2> HIDE DEF high
  <2>2. CASE addr = "AUX_ENABLES"
    BY <1>2, <2>1, <2>2, FieldWrites DEF handle_aux_write, Apart
  <2>3. CASE addr = "AUX_MU_IER_REG"
    <3>1. e = [d EXCEPT !.baud = high] \/ e = [d EXCEPT !.ier = Trunc(8, val)]
      BY <1>2, <2>3 DEF handle_aux_write, high
    <3>2. Apart(d, [d EXCEPT !.baud = high]) /\ Apart(d, [d EXCEPT !.ier = Trunc(8, val)])
      BY <2>1, FieldWrites
    <3> QED
      BY <3>1, <3>2 DEF Apart
  <2>4. CASE addr = "AUX_MU_IIR_REG"
    <3>1. e = [d EXCEPT !.in = IF 1 \in val THEN <<>> ELSE @,
                        !.out = IF 2 \in val THEN <<>> ELSE @]
      BY <1>2, <2>4 DEF handle_aux_write
    <3>2. <<>> \in Seq(Bits)
      OBVIOUS
    <3> QED
      BY <3>1, <3>2 DEF Device
  <2>5. CASE addr = "AUX_MU_LCR_REG"
    BY <1>2, <2>1, <2>5, FieldWrites DEF handle_aux_write, Apart
  <2>6. CASE addr = "AUX_MU_MCR_REG"
    BY <1>2, <2>1, <2>6, FieldWrites DEF handle_aux_write, Apart
  <2>7. CASE addr = "AUX_MU_SCRATCH"
    BY <1>2, <2>1, <2>7, FieldWrites DEF handle_aux_write, Apart
  <2>8. CASE addr = "AUX_MU_CNTL_REG"
    BY <1>2, <2>1, <2>8, FieldWrites DEF handle_aux_write, Apart
  <2>9. CASE addr = "AUX_MU_BAUD_REG"
    BY <1>2, <2>1, <2>9, FieldWrites DEF handle_aux_write, Apart
  <2>10. CASE addr \in {"AUX_IRQ", "AUX_MU_LSR_REG", "AUX_MU_MSR_REG", "AUX_MU_STAT_REG"}
    BY <1>2, <2>10 DEF handle_aux_write
  <2> QED
    BY <2>2, <2>3, <2>4, <2>5, <2>6, <2>7, <2>8, <2>9, <2>10 DEF Aux, AuxMu
<1> QED
  BY <1>1, <1>2

LEMMA WriteKeeps ==
  ASSUME NEW d \in Device, NEW addr, NEW val, addr # "AUX_MU_IO_REG"
  PROVE  LET e == AfterMmioWrite(d, addr, val) IN
         e \in Device /\ e.in \in {d.in, <<>>} /\ e.out \in {d.out, <<>>}
<1>1. CASE addr \in Intctrl
  BY <1>1, IntctrlKeeps DEF AfterMmioWrite, Apart
<1>2. CASE addr \notin Intctrl /\ addr \in Aux
  BY <1>2, AuxKeeps DEF AfterMmioWrite
<1>3. CASE addr \notin Intctrl /\ addr \notin Aux
  BY <1>3 DEF AfterMmioWrite
<1> QED
  BY <1>1, <1>2, <1>3

LEMMA PutKeeps ==
  ASSUME NEW d \in Device, NEW n \in 0 .. 7, Len(d.out) <= FIFO_ROOM
  PROVE  LET e == AfterMmioWrite(d, "AUX_MU_IO_REG", Char(n)) IN
         /\ e \in Device /\ e.in = d.in /\ Len(e.out) <= FIFO_ROOM
         /\ e.out = d.out \/ e.out = Append(d.out, Char(n))
<1> DEFINE e == AfterMmioWrite(d, "AUX_MU_IO_REG", Char(n))
           low == (d.baud \ 0 .. 7) \cup Trunc(8, Char(n))
<1>1. Char(n) \in Bits /\ Trunc(8, Char(n)) = Char(n) /\ low \in Bits
  <2>1. Char(n) \in Bits
    BY DEF Char, Bits
  <2>2. Trunc(8, Char(n)) = Char(n)
    <3>1. Trunc(8, {n}) = {n} \cap 0 .. 8 - 1 /\ n \in 0 .. 8 - 1
      BY DEF Trunc
    <3>2. {n} \cap 0 .. 8 - 1 = {n}
      BY <3>1, Zenon
    <3> QED
      BY <3>1, <3>2 DEF Char
  <2>3. d.baud \in Bits
    BY DEF Device
  <2> QED
    BY <2>1, <2>2, <2>3 DEF Bits
<1> HIDE DEF low
<1>2. \/ e = d
      \/ e = [d EXCEPT !.lcr = @ \ {LCR_DLAB}, !.baud = low]
      \/ e = [d EXCEPT !.out = enqueue(@, Trunc(8, Char(n)))]
  BY DEF AfterMmioWrite, handle_aux_write, Intctrl, Aux, AuxMu, low
<1>3. CASE e = d
  BY <1>3
<1>4. CASE e = [d EXCEPT !.lcr = @ \ {LCR_DLAB}, !.baud = low]
  <2>1. d.lcr \ {LCR_DLAB} \in Bits
    BY DEF Device, Bits
  <2> DEFINE f == [d EXCEPT !.lcr = d.lcr \ {LCR_DLAB}]
  <2>2. e = [f EXCEPT !.baud = low]
    BY <1>4
  <2>3. Apart(d, f)
    BY <2>1, FieldWrites
  <2> HIDE DEF f
  <2>4. f \in Device
    BY <2>3 DEF Apart
  <2>5. Apart(f, [f EXCEPT !.baud = low])
    BY <1>1, <2>4, FieldWrites
  <2>6. e \in Device /\ e.in = d.in /\ e.out = d.out
    BY <2>2, <2>3, <2>5 DEF Apart
  <2> QED
    BY <2>6
<1>5. CASE e = [d EXCEPT !.out = enqueue(@, Trunc(8, Char(n)))]
  <2>1. d.out \in Seq(Bits)
    BY DEF Device
  <2>2. /\ enqueue(d.out, Char(n)) \in Seq(Bits)
        /\ Len(enqueue(d.out, Char(n))) <= FIFO_ROOM
        /\ enqueue(d.out, Char(n)) \in {d.out, Append(d.out, Char(n))}
    BY <1>1, <2>1, EnqueueIs
  <2>3. e = [d EXCEPT !.out = enqueue(d.out, Char(n))]
    BY <1>1, <1>5
  <2>4. e \in Device /\ e.in = d.in /\ e.out = enqueue(d.out, Char(n))
    BY <2>2, <2>3 DEF Device
  <2> QED
    BY <2>2, <2>4
<1> QED
  BY <1>2, <1>3, <1>4, <1>5

-----------------------------------------------------------------------------
\* Sequences and characters.

LEMMA ConcatAppend ==
  ASSUME NEW S, NEW s \in Seq(S), NEW t \in Seq(S), NEW c \in S
  PROVE  s \o Append(t, c) = Append(s \o t, c)
<1>1. s \o t \in Seq(S) /\ <<c>> \in Seq(S)
  BY ConcatProperties
<1>2. Append(t, c) = t \o <<c>> /\ Append(s \o t, c) = (s \o t) \o <<c>>
  BY <1>1, AppendIsConcat
<1> QED
  BY <1>1, <1>2, ConcatAssociative

LEMMA IdOfChar == ASSUME NEW n PROVE Id(Char(n)) = n
BY Zenon DEF Id, Char

-----------------------------------------------------------------------------
\* The state has its types, and the buffers keep their bounds.

KeyRecord == [id : 1 .. MAX_OPS, key : Keys, alone : BOOLEAN]

Bounded(d) == \A v \in VM : Len(d[v].in) <= FIFO_ROOM /\ Len(d[v].out) <= FIFO_ROOM

Types ==
  /\ current \in Task /\ alive \subseteq Task /\ HV \in alive /\ at \in At
  /\ uart_forwarded_task \in Task /\ is_escaped \in BOOLEAN
  /\ ops \in 0 .. MAX_OPS
  /\ rx \in Seq(KeyRecord) /\ Len(rx) <= RX_SIZE
  /\ dev \in [VM -> Device] /\ Bounded(dev)
  /\ virq \in BOOLEAN /\ vfiq \in BOOLEAN
  /\ home \in [1 .. MAX_OPS -> Task] /\ last = [v \in VM |-> last[v]]
  /\ shown \in [VM -> Seq(Bits)] /\ owed \in [VM -> Seq(Bits)]
  /\ promised \in [VM -> SUBSET {0, 5}]

LEMMA Constants ==
  /\ FIFO_ROOM \in Nat /\ FIFO_ROOM > 0 /\ LAST \in Nat /\ RX_SIZE \in Nat /\ MAX_OPS \in 0 .. 7
  /\ HV \in Task /\ HV \notin VM /\ \A t \in Task : t # HV => t \in VM
  /\ VM \subseteq Task
BY DevicesAssumption, ConsoleAssumption DEF HV, VM, Task

\* Printing a buffer empties it and leaves the other VMs' alone.
LEMMA FlushedIs ==
  ASSUME Types, NEW t \in Task, NEW d \in [VM -> Device], Bounded(d)
  PROVE  /\ Flushed(t, d) \in [VM -> Device] /\ Bounded(Flushed(t, d))
         /\ Terminal(t, d) \in [VM -> Seq(Bits)]
         /\ \A v \in VM :
              /\ Flushed(t, d)[v].in = d[v].in
              /\ Flushed(t, d)[v].out = IF v = t THEN <<>> ELSE d[v].out
              /\ Terminal(t, d)[v] = IF v = t THEN shown[v] \o d[v].out ELSE shown[v]
              /\ v # t => Flushed(t, d)[v] = d[v]
<1>1. CASE t = HV
  BY <1>1, Constants DEF Flushed, Terminal, Types
<1>2. CASE t # HV
  <2>1. t \in VM /\ d[t] \in Device /\ d[t].out \in Seq(Bits) /\ Len(d[t].out) \in Nat
    BY <1>2, Constants, LenProperties DEF Device
  <2>2. SubSeq(d[t].out, Len(d[t].out) + 1, Len(d[t].out)) = <<>>
    BY <2>1, SubSeqEmpty
  <2>3. Flushed(t, d) = [d EXCEPT ![t].out = <<>>]
    BY <1>2, <2>1, <2>2 DEF Flushed, Printed
  <2>4. Terminal(t, d) = [shown EXCEPT ![t] = shown[t] \o d[t].out]
    BY <1>2, <2>1 DEF Terminal, Printed, Types
  <2>5. [d[t] EXCEPT !.out = <<>>] \in Device /\ [d[t] EXCEPT !.out = <<>>].in = d[t].in
        /\ [d[t] EXCEPT !.out = <<>>].out = <<>>
    BY <2>1, BufferWrites, EmptySeq
  <2>6. Flushed(t, d) = [d EXCEPT ![t] = [d[t] EXCEPT !.out = <<>>]]
    BY <2>3
  <2>7. \A v \in VM : Flushed(t, d)[v] = IF v = t THEN [d[t] EXCEPT !.out = <<>>] ELSE d[v]
    BY <2>6
  <2>8. Flushed(t, d) \in [VM -> Device]
    BY <2>1, <2>5, <2>6
  <2>9. \A v \in VM : /\ Flushed(t, d)[v].in = d[v].in
                      /\ Flushed(t, d)[v].out = IF v = t THEN <<>> ELSE d[v].out
    BY <2>5, <2>7
  <2>10. Bounded(Flushed(t, d))
    BY <2>9, Constants DEF Bounded
  <2>11. shown[t] \o d[t].out \in Seq(Bits)
    BY <2>1, ConcatProperties DEF Types
  <2>12. /\ Terminal(t, d) \in [VM -> Seq(Bits)]
         /\ \A v \in VM : Terminal(t, d)[v] = IF v = t THEN shown[v] \o d[v].out ELSE shown[v]
    BY <2>1, <2>4, <2>11 DEF Types
  <2> QED
    BY <2>7, <2>8, <2>9, <2>10, <2>12
<1> QED
  BY <1>1, <1>2

\* A compare match changes no buffer.
LEMMA MatchedIs ==
  ASSUME NEW t \in Task, NEW m \in SUBSET Timers, NEW d \in [VM -> Device], Bounded(d)
  PROVE  /\ Matched(t, d, m) \in [VM -> Device] /\ Bounded(Matched(t, d, m))
         /\ \A v \in VM : Matched(t, d, m)[v].in = d[v].in /\ Matched(t, d, m)[v].out = d[v].out
<1>1. CASE t = HV
  BY <1>1 DEF Matched
<1>2. CASE t # HV
  <2>1. t \in VM /\ d[t] \in Device /\ d[t].cs \in Bits
    BY <1>2, Constants DEF Device
  <2>2. d[t].cs \cup m \in Bits
    BY <2>1, ConsoleAssumption DEF Bits
  <2>3. Matched(t, d, m) = [d EXCEPT ![t] = [d[t] EXCEPT !.cs = d[t].cs \cup m]]
    BY <1>2, <2>1 DEF Matched
  <2>4. /\ [d[t] EXCEPT !.cs = d[t].cs \cup m] \in Device
        /\ [d[t] EXCEPT !.cs = d[t].cs \cup m].in = d[t].in
        /\ [d[t] EXCEPT !.cs = d[t].cs \cup m].out = d[t].out
    BY <2>1, <2>2, FieldWrites DEF Apart
  <2>5. \A v \in VM : /\ Matched(t, d, m)[v].in = d[v].in
                      /\ Matched(t, d, m)[v].out = d[v].out
    BY <2>1, <2>3, <2>4
  <2>6. Matched(t, d, m) \in [VM -> Device]
    BY <2>1, <2>3, <2>4
  <2> QED
    BY <2>5, <2>6 DEF Bounded
<1> QED
  BY <1>1, <1>2

\* What vm_leaving_work() leaves.
Emptied(v) == v = current /\ v = uart_forwarded_task

LEMMA LeftIs ==
  ASSUME Types
  PROVE  /\ Left \in [VM -> Device] /\ Bounded(Left)
         /\ \A v \in VM :
              /\ Left[v].in = dev[v].in
              /\ Left[v].out = IF Emptied(v) THEN <<>> ELSE dev[v].out
<1>1. CASE current = uart_forwarded_task
  BY <1>1, FlushedIs DEF Types, Left, is_uart_forwarded_task, Emptied
<1>2. CASE current # uart_forwarded_task
  BY <1>2 DEF Types, Left, is_uart_forwarded_task, Emptied
<1> QED
  BY <1>1, <1>2

\* What is on the terminal after vm_leaving_work().
LEMMA LeaveIs ==
  ASSUME Types, NEW d, Leave(d)
  PROVE  /\ dev' = d /\ shown' \in [VM -> Seq(Bits)]
         /\ \A v \in VM : shown'[v] = IF Emptied(v) THEN shown[v] \o dev[v].out ELSE shown[v]
<1>1. CASE current = uart_forwarded_task
  BY <1>1, FlushedIs DEF Types, Leave, is_uart_forwarded_task, Emptied
<1>2. CASE current # uart_forwarded_task
  BY <1>2 DEF Types, Leave, is_uart_forwarded_task, Emptied
<1> QED
  BY <1>1, <1>2

-----------------------------------------------------------------------------
\* What a step does to the input buffer of a VM.
InKept(v) == dev'[v].in = dev[v].in /\ last'[v] = last[v]
InRead(v) ==
  /\ dev[v].in # <<>> /\ dev'[v].in = Tail(dev[v].in)
  /\ last'[v] = Id(Head(dev[v].in)) /\ 0 \notin promised'[v]
InCleared(v) == dev'[v].in = <<>> /\ last'[v] = last[v] /\ 0 \notin promised'[v]
InForwarded(v) ==
  /\ v = uart_forwarded_task /\ at = "irq" /\ rx # <<>> /\ rx' = Tail(rx)
  /\ dev'[v].in = Append(dev[v].in, Char(Head(rx).id)) /\ last'[v] = last[v]
InStep(v) == InKept(v) \/ InRead(v) \/ InCleared(v) \/ InForwarded(v)

\* What it does to its output: some is printed, then a character joins the rest
\* or the rest is taken back.
Prints(v, rest) ==
  \/ rest = dev[v].out /\ shown'[v] = shown[v]
  \/ v = uart_forwarded_task' /\ rest = <<>> /\ shown'[v] = shown[v] \o dev[v].out
OutStep(v) == \E rest \in Seq(Bits) : Prints(v, rest) /\
  \/ dev'[v].out = rest /\ owed'[v] = owed[v]
  \/ /\ \E c \in Bits : dev'[v].out = Append(rest, c) /\ owed'[v] = Append(owed[v], c)
     /\ v = current' /\ at' = "exit" /\ 5 \notin promised'[v]
  \/ dev'[v].out = <<>> /\ owed'[v] = shown'[v]

\* What it makes of the promises: only a look at the line status makes new ones.
PromiseStep(v) ==
  /\ 0 \in promised'[v] => 0 \in promised[v] \/ (dev[v].in # <<>> /\ InKept(v))
  /\ 5 \in promised'[v] => 5 \in promised[v] \/ ~is_full(dev'[v].out)

\* What it does to the keys that wait: they stay, one is taken by the handler,
\* they are lost at clear_int, or the user types one.
RxKept ==
  /\ UNCHANGED <<rx, home, uart_forwarded_task>> /\ ops' \in {ops, ops + 1}
  /\ at' = at \/ (at # "clear" /\ at' \in {"out", "irq", "exit", "sched"})
RxTaken ==
  /\ rx # <<>> /\ rx' = Tail(rx) /\ UNCHANGED <<home, ops>>
  /\ at \in {"irq", "esc2", "esc1"} /\ at' \in {"esc2", "esc1", "clear"}
  /\ at' # "clear" => UNCHANGED uart_forwarded_task
RxLost == at = "clear" /\ rx' = <<>> /\ UNCHANGED <<home, ops>>
RxTyped ==
  /\ UNCHANGED <<at, uart_forwarded_task>> /\ ops' = ops + 1
  /\ home' = [home EXCEPT ![ops + 1] = uart_forwarded_task]
  /\ rx' = rx \/ \E k \in Keys : rx' = Append(rx, Key(k))
RxStep == RxKept \/ RxTaken \/ RxLost \/ RxTyped

\* Which console is shown, and when what its VM wrote is printed.
ShowStep ==
  /\ alive' \subseteq alive
  /\ uart_forwarded_task' # uart_forwarded_task /\ uart_forwarded_task' \in VM \cap alive'
       => dev'[uart_forwarded_task'].out = <<>>
  /\ at = "exit" /\ current \in VM /\ current = uart_forwarded_task =>
       \/ at' = "exit" /\ UNCHANGED <<current, uart_forwarded_task>>
       \/ dev'[current].out = <<>>

\* All of it.
Effect ==
  /\ \A v \in VM : InStep(v) /\ OutStep(v) /\ PromiseStep(v)
  /\ RxStep /\ ShowStep

\* The rest of the output after the print on leaving.
LEMMA LeavePrints ==
  ASSUME Types, NEW d, Leave(d), UNCHANGED uart_forwarded_task, NEW v \in VM
  PROVE  Left[v].out \in Seq(Bits) /\ Prints(v, Left[v].out)
<1>1. Left[v] \in Device /\ Left[v].out = IF Emptied(v) THEN <<>> ELSE dev[v].out
  BY LeftIs
<1>2. shown'[v] = IF Emptied(v) THEN shown[v] \o dev[v].out ELSE shown[v]
  BY LeaveIs
<1>3. Left[v].out \in Seq(Bits)
  BY <1>1 DEF Device
<1>4. CASE Emptied(v)
  BY <1>1, <1>2, <1>3, <1>4 DEF Prints, Emptied
<1>5. CASE ~Emptied(v)
  BY <1>1, <1>2, <1>3, <1>5 DEF Prints
<1> QED
  BY <1>4, <1>5

\* A VM is left and nothing but its devices' other registers changes.
LEMMA LeaveEffect ==
  ASSUME Types, NEW d \in [VM -> Device], Leave(d), at = "out", at' \in {"sched", "exit", "irq"},
         \A v \in VM : d[v].in = Left[v].in /\ d[v].out = Left[v].out,
         alive' \subseteq alive, HV \in alive', current' \in Task,
         UNCHANGED <<uart, rx, home, last, ops, owed, promised>>,
         virq' \in BOOLEAN, vfiq' \in BOOLEAN
  PROVE  Types' /\ Effect
<1> USE DEF uart
<1>1. dev' = d /\ shown' \in [VM -> Seq(Bits)]
  BY LeaveIs
<1>2. \A v \in VM : d[v].in = dev[v].in
  BY LeftIs
<1>3. Bounded(d)
  BY LeftIs DEF Bounded
<1>4. Types'
  BY <1>1, <1>3 DEF Types, At
<1>5. ASSUME NEW v \in VM PROVE InStep(v) /\ OutStep(v) /\ PromiseStep(v)
  <2>1. InStep(v)
    BY <1>1, <1>2 DEF InStep, InKept
  <2>2. Left[v].out \in Seq(Bits) /\ Prints(v, Left[v].out)
    BY LeavePrints
  <2>3. OutStep(v)
    BY <1>1, <2>2 DEF OutStep
  <2> QED
    BY <2>1, <2>3 DEF PromiseStep
<1>6. RxStep
  BY DEF RxStep, RxKept
<1>7. ShowStep
  BY DEF ShowStep
<1> QED
  BY <1>4, <1>5, <1>6, <1>7 DEF Effect

LEMMA YieldEffect ==
  ASSUME Types, Yield
  PROVE  Types' /\ Effect
<1>1. Left \in [VM -> Device] /\ Leave(Left)
  BY LeftIs DEF Yield
<1> QED
  BY <1>1, LeaveEffect DEF Yield, Types, task, uart, lines, ghosts

LEMMA TakeIrqEffect ==
  ASSUME Types, TakeIrq
  PROVE  Types' /\ Effect
<1>1. Left \in [VM -> Device] /\ Leave(Left)
  BY LeftIs DEF TakeIrq
<1> QED
  BY <1>1, LeaveEffect DEF TakeIrq, Types, task, uart, lines, ghosts

LEMMA PanicEffect ==
  ASSUME Types, Panic
  PROVE  Types' /\ Effect
<1>1. Left \in [VM -> Device] /\ Leave(Left)
  BY LeftIs DEF Panic
<1>2. current # HV
  BY ConsoleAssumption, Constants DEF Panic
<1>3. alive' \subseteq alive /\ HV \in alive'
  BY <1>2 DEF Panic, Types
<1> QED
  BY <1>1, <1>3, LeaveEffect DEF Panic, Types, uart, lines, ghosts

LEMMA AckTimerEffect ==
  ASSUME Types, AckTimer
  PROVE  Types' /\ Effect
<1> DEFINE d == [Left EXCEPT ![current] = [Left[current] EXCEPT !.cs = {}]]
<1>1. current \in VM /\ Left[current] \in Device
  BY LeftIs, Constants DEF AckTimer, Trap, Types
<1>2. Leave(d)
  BY <1>1, LeftIs DEF AckTimer
<1>3. {} \in Bits
  BY DEF Bits
<1>4. /\ [Left[current] EXCEPT !.cs = {}] \in Device
      /\ [Left[current] EXCEPT !.cs = {}].in = Left[current].in
      /\ [Left[current] EXCEPT !.cs = {}].out = Left[current].out
  BY <1>1, <1>3, FieldWrites DEF Apart
<1>5. d \in [VM -> Device] /\ \A v \in VM : d[v].in = Left[v].in /\ d[v].out = Left[v].out
  BY <1>1, <1>4, LeftIs
<1> HIDE DEF d
<1> QED
  BY <1>2, <1>5, LeaveEffect DEF AckTimer, Trap, Types, task, uart, lines, ghosts

\* Nothing of the devices changes.
LEMMA StillEffect ==
  ASSUME Types, UNCHANGED <<alive, current, uart_forwarded_task, dev, shown, owed, promised, last>>,
         at = "exit" => at' = "exit"
  PROVE  /\ ShowStep
         /\ \A v \in VM : InStep(v) /\ OutStep(v) /\ PromiseStep(v)
<1>1. ASSUME NEW v \in VM PROVE InStep(v) /\ OutStep(v) /\ PromiseStep(v)
  <2>1. dev[v].out \in Seq(Bits)
    BY DEF Types, Device
  <2>2. OutStep(v)
    BY <2>1 DEF OutStep, Prints
  <2> QED
    BY <2>2 DEF InStep, InKept, PromiseStep
<1> QED
  BY <1>1 DEF ShowStep

LEMMA TypeEffect ==
  ASSUME Types, Type
  PROVE  Types' /\ Effect
<1>1. PICK k \in Keys : rx' = IF Len(rx) < RX_SIZE THEN Append(rx, Key(k)) ELSE rx
  BY DEF Type
<1>2. ops + 1 \in 1 .. MAX_OPS /\ Len(rx) \in Nat
  BY Constants, LenProperties DEF Type, Types
<1>3. Key(k) \in KeyRecord
  BY <1>2 DEF Key, KeyRecord
<1>4. rx' \in Seq(KeyRecord) /\ Len(rx') <= RX_SIZE
  BY <1>1, <1>2, <1>3, AppendProperties, Constants DEF Types
<1>5. home' \in [1 .. MAX_OPS -> Task] /\ ops' \in 0 .. MAX_OPS
  BY <1>2 DEF Type, Types
<1>6. Types'
  BY <1>4, <1>5 DEF Type, Types, task, uart, lines
<1>7. RxStep
  <2>1. rx' = rx \/ \E j \in Keys : rx' = Append(rx, Key(j))
    BY <1>1
  <2> QED
    BY <2>1 DEF Type, RxStep, RxTyped, uart
<1>8. ShowStep /\ \A v \in VM : InStep(v) /\ OutStep(v) /\ PromiseStep(v)
  BY StillEffect DEF Type, task, uart
<1> QED
  BY <1>6, <1>7, <1>8 DEF Effect

LEMMA ClearIntEffect ==
  ASSUME Types, ClearInt
  PROVE  Types' /\ Effect
<1>1. rx' \in Seq(KeyRecord) /\ Len(rx') <= RX_SIZE
  BY Constants, EmptySeq DEF ClearInt
<1>2. Types'
  BY <1>1 DEF ClearInt, Types, task, uart, lines, ghosts, At
<1>3. RxStep
  BY DEF ClearInt, RxStep, RxLost, ghosts
<1>4. ShowStep /\ \A v \in VM : InStep(v) /\ OutStep(v) /\ PromiseStep(v)
  BY StillEffect DEF ClearInt, task, uart, ghosts
<1> QED
  BY <1>2, <1>3, <1>4 DEF Effect

\* The key the handler takes.
LEMMA GetIs ==
  ASSUME Types, Get
  PROVE  /\ rx # <<>> /\ rx' = Tail(rx) /\ rx' \in Seq(KeyRecord) /\ Len(rx') <= RX_SIZE
         /\ Head(rx) \in KeyRecord
         /\ UNCHANGED <<current, alive, virq, vfiq, loaded, ops, home, last, owed, promised>>
<1>1. rx # <<>> /\ rx \in Seq(KeyRecord) /\ Len(rx) \in Nat /\ rx' = Tail(rx)
  BY LenProperties DEF Get, Types
<1>2. Tail(rx) \in Seq(KeyRecord) /\ Len(Tail(rx)) = Len(rx) - 1 /\ Head(rx) \in KeyRecord
  BY <1>1, HeadTailProperties
<1> QED
  BY <1>1, <1>2, Constants DEF Get, Types, task, lines, ghosts

\* A switch of the console prints the new console's buffer.
LEMMA SwitchEffect ==
  ASSUME Types, NEW t \in Task, SwitchTo(t), UNCHANGED <<alive, current, owed, promised, last>>,
         at # "exit"
  PROVE  /\ dev' \in [VM -> Device] /\ Bounded(dev)' /\ shown' \in [VM -> Seq(Bits)]
         /\ ShowStep
         /\ \A v \in VM : InStep(v) /\ OutStep(v) /\ PromiseStep(v)
<1>1. uart_forwarded_task' = t /\ dev' = Flushed(t, dev) /\ shown' = Terminal(t, dev)
  BY DEF SwitchTo
<1>2. dev \in [VM -> Device] /\ Bounded(dev)
  BY DEF Types
<1>3. /\ dev' \in [VM -> Device] /\ Bounded(dev') /\ shown' \in [VM -> Seq(Bits)]
      /\ \A v \in VM : /\ dev'[v].in = dev[v].in
                       /\ dev'[v].out = IF v = t THEN <<>> ELSE dev[v].out
                       /\ shown'[v] = IF v = t THEN shown[v] \o dev[v].out ELSE shown[v]
  BY <1>1, <1>2, FlushedIs
<1>4. Bounded(dev)'
  BY <1>3 DEF Bounded
<1>5. ASSUME NEW v \in VM PROVE InStep(v) /\ OutStep(v) /\ PromiseStep(v)
  <2>1. dev'[v].out \in Seq(Bits) /\ Prints(v, dev'[v].out)
    BY <1>1, <1>3 DEF Prints, Device
  <2>2. OutStep(v)
    BY <2>1 DEF OutStep
  <2> QED
    BY <1>3, <2>2 DEF InStep, InKept, PromiseStep
<1>6. ShowStep
  BY <1>1, <1>3 DEF ShowStep
<1> QED
  BY <1>3, <1>4, <1>5, <1>6

LEMMA ShellKeyEffect ==
  ASSUME Types, ShellKey
  PROVE  Types' /\ Effect
<1>1. /\ rx # <<>> /\ rx' = Tail(rx) /\ rx' \in Seq(KeyRecord) /\ Len(rx') <= RX_SIZE
      /\ UNCHANGED <<current, alive, virq, vfiq, loaded, ops, home, last, owed, promised>>
  BY GetIs DEF ShellKey
<1>2. /\ dev' \in [VM -> Device] /\ Bounded(dev)' /\ shown' \in [VM -> Seq(Bits)]
      /\ uart_forwarded_task' \in Task /\ ShowStep
      /\ \A v \in VM : InStep(v) /\ OutStep(v) /\ PromiseStep(v)
  <2>1. CASE UNCHANGED <<uart_forwarded_task, dev, shown>>
    <3>1. Bounded(dev)'
      BY <2>1 DEF Types, Bounded
    <3> QED
      BY <1>1, <2>1, <3>1, StillEffect DEF ShellKey, Types
  <2>2. CASE \E t \in VM : SwitchTo(t)
    <3>1. PICK t \in VM : SwitchTo(t)
      BY <2>2
    <3>2. t \in Task /\ uart_forwarded_task' = t
      BY <3>1, Constants DEF SwitchTo
    <3> QED
      BY <1>1, <3>1, <3>2, SwitchEffect DEF ShellKey
  <2> QED
    BY <2>1, <2>2 DEF ShellKey
<1>3. Types'
  BY <1>1, <1>2 DEF ShellKey, Types, At
<1>4. RxStep
  <2>1. at' # "clear" => UNCHANGED uart_forwarded_task
    BY DEF ShellKey
  <2> QED
    BY <1>1, <2>1 DEF ShellKey, RxStep, RxTaken
<1> QED
  BY <1>2, <1>3, <1>4 DEF Effect

LEMMA ShellEscapeEffect ==
  ASSUME Types, ShellEscape
  PROVE  Types' /\ Effect
<1>1. /\ rx # <<>> /\ rx' = Tail(rx) /\ rx' \in Seq(KeyRecord) /\ Len(rx') <= RX_SIZE
      /\ UNCHANGED <<current, alive, virq, vfiq, loaded, ops, home, last, owed, promised>>
  BY GetIs DEF ShellEscape
<1>2. Types'
  BY <1>1 DEF ShellEscape, Types, At, uart, Bounded
<1>3. RxStep
  BY <1>1 DEF ShellEscape, RxStep, RxTaken, uart
<1>4. ShowStep /\ \A v \in VM : InStep(v) /\ OutStep(v) /\ PromiseStep(v)
  BY <1>1, StillEffect DEF ShellEscape, uart
<1> QED
  BY <1>2, <1>3, <1>4 DEF Effect

LEMMA EnterIs ==
  ASSUME Types, NEW t \in Task, NEW m \in SUBSET Timers, Enter(t, m)
  PROVE  /\ dev' \in [VM -> Device] /\ Bounded(dev') /\ shown' \in [VM -> Seq(Bits)]
         /\ virq' \in BOOLEAN /\ vfiq' \in BOOLEAN
         /\ virq' = Asserted(t, dev').irq /\ vfiq' = Asserted(t, dev').fiq
         /\ \A v \in VM :
              /\ dev'[v].in = dev[v].in
              /\ dev'[v].out = IF v = t /\ v = uart_forwarded_task THEN <<>> ELSE dev[v].out
              /\ shown'[v] = IF v = t /\ v = uart_forwarded_task
                               THEN shown[v] \o dev[v].out ELSE shown[v]
<1> DEFINE d == Matched(t, dev, m)
<1>1. /\ d \in [VM -> Device] /\ Bounded(d)
      /\ \A v \in VM : d[v].in = dev[v].in /\ d[v].out = dev[v].out
  BY MatchedIs DEF Types
<1>2. FlushIfShown(t, d) /\ set_cpu_virtual_interrupt(t, dev')
  BY DEF Enter
<1> HIDE DEF d
<1>3. /\ virq' \in BOOLEAN /\ vfiq' \in BOOLEAN
      /\ virq' = Asserted(t, dev').irq /\ vfiq' = Asserted(t, dev').fiq
  BY <1>2, Zenon DEF set_cpu_virtual_interrupt, Asserted
<1>4. CASE t = uart_forwarded_task
  <2>1. dev' = Flushed(t, d) /\ shown' = Terminal(t, d)
    BY <1>2, <1>4 DEF FlushIfShown, is_uart_forwarded_task
  <2>2. /\ Flushed(t, d) \in [VM -> Device] /\ Bounded(Flushed(t, d))
        /\ Terminal(t, d) \in [VM -> Seq(Bits)]
        /\ \A v \in VM :
             /\ Flushed(t, d)[v].in = d[v].in
             /\ Flushed(t, d)[v].out = IF v = t THEN <<>> ELSE d[v].out
             /\ Terminal(t, d)[v] = IF v = t THEN shown[v] \o d[v].out ELSE shown[v]
    BY <1>1, FlushedIs
  <2> QED
    BY <1>1, <1>3, <1>4, <2>1, <2>2
<1>5. CASE t # uart_forwarded_task
  <2>1. dev' = d /\ shown' = shown
    BY <1>2, <1>5 DEF FlushIfShown, is_uart_forwarded_task
  <2> QED
    BY <1>1, <1>3, <1>5, <2>1 DEF Types
<1> QED
  BY <1>4, <1>5

LEMMA KernelExitEffect ==
  ASSUME Types, KernelExit
  PROVE  Types' /\ Effect
<1>1. PICK t \in Task, m \in SUBSET Timers :
        /\ IF at = "exit" THEN t = current ELSE t \in alive
        /\ m # {} => ops < MAX_OPS
        /\ Enter(t, m)
        /\ current' = t
        /\ ops' = IF m = {} THEN ops ELSE ops + 1
  BY DEF KernelExit
<1>2. /\ dev' \in [VM -> Device] /\ Bounded(dev') /\ shown' \in [VM -> Seq(Bits)]
      /\ virq' \in BOOLEAN /\ vfiq' \in BOOLEAN
      /\ \A v \in VM :
           /\ dev'[v].in = dev[v].in
           /\ dev'[v].out = IF v = t /\ v = uart_forwarded_task THEN <<>> ELSE dev[v].out
           /\ shown'[v] = IF v = t /\ v = uart_forwarded_task
                            THEN shown[v] \o dev[v].out ELSE shown[v]
  BY <1>1, EnterIs
<1>3. UNCHANGED <<alive, uart_forwarded_task, is_escaped, rx, home, last, owed, promised>>
      /\ at \in {"exit", "sched"} /\ at' = "out"
  BY DEF KernelExit, uart, ghosts
<1>4. ops' \in 0 .. MAX_OPS /\ ops' \in {ops, ops + 1}
  BY <1>1, Constants DEF Types
<1>5. Types'
  BY <1>1, <1>2, <1>3, <1>4 DEF Types, At
<1>6. ASSUME NEW v \in VM PROVE InStep(v) /\ OutStep(v) /\ PromiseStep(v)
  <2>1. dev'[v].out \in Seq(Bits) /\ Prints(v, dev'[v].out)
    BY <1>2, <1>3 DEF Prints, Device
  <2>2. OutStep(v)
    BY <1>3, <2>1 DEF OutStep
  <2> QED
    BY <1>2, <1>3, <2>2 DEF InStep, InKept, PromiseStep
<1>7. RxStep
  BY <1>3, <1>4 DEF RxStep, RxKept
<1>8. ShowStep
  BY <1>1, <1>2, <1>3 DEF ShowStep
<1> QED
  BY <1>5, <1>6, <1>7, <1>8 DEF Effect

\* The key goes to the VM whose console is shown.
LEMMA EnqueueEffect ==
  ASSUME Types, Get, EnqueueChar, at = "irq", at' = "clear",
         uart_forwarded_task # HV, UNCHANGED <<uart_forwarded_task, shown>>
  PROVE  /\ dev' \in [VM -> Device] /\ Bounded(dev') /\ shown' \in [VM -> Seq(Bits)]
         /\ ShowStep
         /\ \A v \in VM : InStep(v) /\ OutStep(v) /\ PromiseStep(v)
<1>1. /\ rx # <<>> /\ rx' = Tail(rx) /\ Head(rx) \in KeyRecord
      /\ UNCHANGED <<current, alive, last, owed, promised>>
  BY GetIs
<1>2. CASE UNCHANGED dev
  BY <1>1, <1>2, StillEffect DEF Types
<1>3. CASE dev' # dev
  <2> DEFINE u == uart_forwarded_task
             c == Char(Head(rx).id)
             q == enqueue(dev[u].in, c)
  <2>1. u \in VM /\ dev[u] \in Device /\ dev[u].in \in Seq(Bits) /\ Len(dev[u].in) <= FIFO_ROOM
    BY Constants DEF Types, Device, Bounded
  <2>2. c \in Bits
    BY <1>1 DEF KeyRecord, Char, Bits
  <2>3. q \in Seq(Bits) /\ Len(q) <= FIFO_ROOM /\ q \in {dev[u].in, Append(dev[u].in, c)}
    BY <2>1, <2>2, EnqueueIs
  <2>4. dev' = [dev EXCEPT ![u] = [dev[u] EXCEPT !.in = q]]
    BY <1>3, <2>1 DEF EnqueueChar, Types
  <2> HIDE DEF u, c, q
  <2>5. /\ [dev[u] EXCEPT !.in = q] \in Device
        /\ [dev[u] EXCEPT !.in = q].in = q /\ [dev[u] EXCEPT !.in = q].out = dev[u].out
    BY <2>1, <2>3, BufferWrites
  <2>6. \A v \in VM : /\ dev'[v].in = IF v = u THEN q ELSE dev[v].in
                      /\ dev'[v].out = dev[v].out
    BY <2>1, <2>4, <2>5 DEF Types
  <2>7. dev' \in [VM -> Device] /\ Bounded(dev')
    BY <2>1, <2>3, <2>4, <2>5, <2>6 DEF Types, Bounded
  <2>8. ASSUME NEW v \in VM PROVE InStep(v) /\ OutStep(v) /\ PromiseStep(v)
    <3>1. dev[v].out \in Seq(Bits) /\ Prints(v, dev[v].out)
      BY DEF Prints, Device, Types
    <3>2. OutStep(v)
      BY <1>1, <2>6, <3>1 DEF OutStep
    <3>3. InStep(v)
      BY <1>1, <2>3, <2>6 DEF InStep, InKept, InForwarded, u, c
    <3> QED
      BY <1>1, <3>2, <3>3 DEF PromiseStep
  <2>9. ShowStep
    BY <1>1 DEF ShowStep
  <2> QED
    BY <2>7, <2>8, <2>9 DEF Types
<1> QED
  BY <1>2, <1>3

LEMMA ForwardKeyEffect ==
  ASSUME Types, ForwardKey
  PROVE  Types' /\ Effect
<1>1. /\ rx # <<>> /\ rx' = Tail(rx) /\ rx' \in Seq(KeyRecord) /\ Len(rx') <= RX_SIZE
      /\ UNCHANGED <<current, alive, virq, vfiq, loaded, ops, home, last, owed, promised>>
  BY GetIs DEF ForwardKey
<1>2. Get /\ at = "irq" /\ at' = "clear" /\ uart_forwarded_task # HV
  BY DEF ForwardKey
<1>3. is_escaped' \in BOOLEAN
  BY DEF ForwardKey, Escaped, NotEscaped
<1>4. \/ EnqueueChar /\ UNCHANGED <<uart_forwarded_task, shown>>
      \/ \E t \in Task : SwitchTo(t)
      \/ /\ UNCHANGED <<dev, shown>> /\ uart_forwarded_task' \in Task
         /\ uart_forwarded_task' \in {uart_forwarded_task} \cup (Task \ alive)
  <2>1. CASE is_escaped /\ Received \in Digits /\ Digit[Received] <= LAST
    <3>1. Digit[Received] \in Task
      <4>1. \E n \in 0 .. 9 : DigitKeys[n + 1] = Received
        <5>1. PICK i \in 1 .. 10 : Received = DigitKeys[i]
          BY <2>1 DEF Digits
        <5>2. i - 1 \in 0 .. 9 /\ (i - 1) + 1 = i
          OBVIOUS
        <5> QED
          BY <5>1, <5>2
      <4>2. Digit[Received] = CHOOSE n \in 0 .. 9 : DigitKeys[n + 1] = Received
        BY <2>1 DEF Digit
      <4>3. Digit[Received] \in 0 .. 9
        BY <4>1, <4>2
      <4> QED
        BY <2>1, <4>3, Constants DEF Task
    <3> QED
      BY <2>1, <3>1 DEF ForwardKey, Escaped, Types
  <2>2. CASE ~(is_escaped /\ Received \in Digits /\ Digit[Received] <= LAST)
    BY <2>2 DEF ForwardKey, Escaped, NotEscaped, Types
  <2> QED
    BY <2>1, <2>2
<1>5. /\ dev' \in [VM -> Device] /\ Bounded(dev)' /\ shown' \in [VM -> Seq(Bits)]
      /\ uart_forwarded_task' \in Task /\ ShowStep
      /\ \A v \in VM : InStep(v) /\ OutStep(v) /\ PromiseStep(v)
  <2>1. CASE EnqueueChar /\ UNCHANGED <<uart_forwarded_task, shown>>
    <3>1. Bounded(dev') => Bounded(dev)'
      BY DEF Bounded
    <3> QED
      BY <1>2, <2>1, <3>1, EnqueueEffect DEF Types
  <2>2. CASE \E t \in Task : SwitchTo(t)
    <3>1. PICK t \in Task : SwitchTo(t)
      BY <2>2
    <3> QED
      BY <1>1, <1>2, <3>1, SwitchEffect DEF SwitchTo
  <2>3. CASE /\ UNCHANGED <<dev, shown>> /\ uart_forwarded_task' \in Task
             /\ uart_forwarded_task' \in {uart_forwarded_task} \cup (Task \ alive)
    <3>1. ASSUME NEW v \in VM PROVE InStep(v) /\ OutStep(v) /\ PromiseStep(v)
      <4>1. dev[v].out \in Seq(Bits)
        BY DEF Types, Device
      <4>2. OutStep(v)
        BY <1>1, <2>3, <4>1 DEF OutStep, Prints
      <4> QED
        BY <1>1, <2>3, <4>2 DEF InStep, InKept, PromiseStep
    <3>2. ShowStep
      BY <1>1, <1>2, <2>3 DEF ShowStep
    <3>3. Bounded(dev)'
      BY <2>3 DEF Types, Bounded
    <3> QED
      BY <2>3, <3>1, <3>2, <3>3 DEF Types
  <2> QED
    BY <1>4, <2>1, <2>2, <2>3
<1>6. Types'
  BY <1>1, <1>2, <1>3, <1>5 DEF Types, At
<1>7. RxStep
  BY <1>1, <1>2 DEF RxStep, RxTaken
<1> QED
  BY <1>5, <1>6, <1>7 DEF Effect

\* What the line status register tells.
LEMMA LsrTells ==
  ASSUME NEW d \in Device
  PROVE  /\ 0 \in MmioValue(d, "AUX_MU_LSR_REG") => d.in # <<>>
         /\ 5 \in MmioValue(d, "AUX_MU_LSR_REG") => ~is_full(d.out)
<1>1. MmioValue(d, "AUX_MU_LSR_REG") \in {{}, Lsr(d)}
  BY DEF MmioValue, Intctrl, Aux, AuxMu, AuxValue
<1> QED
  BY <1>1 DEF Lsr, Bit, is_empty

\* A VM at one of its devices: the devices and the terminal afterwards.
LEMMA AccessIs ==
  ASSUME Types, Trap, NEW e \in Device, Leave([Left EXCEPT ![current] = e]),
         Len(e.in) <= FIFO_ROOM, Len(e.out) <= FIFO_ROOM
  PROVE  /\ current \in VM /\ Mine \in Device
         /\ Mine.in = dev[current].in /\ Len(Mine.out) <= FIFO_ROOM
         /\ dev' \in [VM -> Device] /\ Bounded(dev') /\ shown' \in [VM -> Seq(Bits)]
         /\ dev'[current] = e
         /\ \A v \in VM : v # current => dev'[v].in = dev[v].in /\ dev'[v].out = Left[v].out
<1>1. current \in VM /\ Mine \in Device
  BY LeftIs, Constants DEF Trap, Types, Mine
<1>2. dev' = [Left EXCEPT ![current] = e] /\ shown' \in [VM -> Seq(Bits)]
  BY LeaveIs
<1>3. /\ Left \in [VM -> Device] /\ Bounded(Left)
      /\ \A v \in VM : Left[v].in = dev[v].in
  BY LeftIs
<1> QED
  BY <1>1, <1>2, <1>3 DEF Bounded, Mine

\* The other VMs' buffers do not change.
LEMMA OthersStep ==
  ASSUME Types, NEW v \in VM, NEW d, Leave(d), UNCHANGED uart_forwarded_task,
         dev'[v].in = dev[v].in, dev'[v].out = Left[v].out,
         UNCHANGED <<last[v], owed[v], promised[v]>>
  PROVE  InStep(v) /\ OutStep(v) /\ PromiseStep(v)
<1>1. Left[v].out \in Seq(Bits) /\ Prints(v, Left[v].out)
  BY LeavePrints
<1>2. OutStep(v)
  BY <1>1 DEF OutStep
<1> QED
  BY <1>2 DEF InStep, InKept, PromiseStep

LEMMA LoadEffect ==
  ASSUME Types, NEW addr, Load(addr)
  PROVE  Types' /\ Effect
<1> DEFINE e == AfterMmioRead(Mine, addr)
<1>1. current \in VM /\ Mine \in Device /\ Mine.in = dev[current].in
  BY LeftIs, Constants DEF Load, Trap, Types, Mine
<1>2. /\ e \in Device /\ e.out = Mine.out
      /\ \/ e.in = Mine.in
         \/ /\ addr = "AUX_MU_IO_REG" /\ Mine.in # <<>>
            /\ e.in = Tail(Mine.in) /\ MmioValue(Mine, addr) = Head(Mine.in)
  BY <1>1, ReadKeeps
<1>3. Mine.in \in Seq(Bits) /\ Len(Mine.in) \in Nat /\ Len(Mine.in) <= FIFO_ROOM
  BY <1>1, LenProperties DEF Device, Types, Bounded
<1>4. Mine.in # <<>> => Len(Tail(Mine.in)) = Len(Mine.in) - 1
  BY <1>3, HeadTailProperties
<1>5. Len(e.in) <= FIFO_ROOM /\ Len(e.out) <= FIFO_ROOM
  <2>1. Len(Mine.out) <= FIFO_ROOM
    BY <1>1, LeftIs DEF Bounded, Mine
  <2>2. Len(e.in) = Len(Mine.in) \/ Len(e.in) = Len(Mine.in) - 1
    BY <1>2, <1>4
  <2> HIDE DEF e
  <2> QED
    BY <1>2, <1>3, <2>1, <2>2, Constants
<1>6. Leave([Left EXCEPT ![current] = e])
  BY DEF Load, Mine
<1> HIDE DEF e
<1>7. /\ dev' \in [VM -> Device] /\ Bounded(dev') /\ shown' \in [VM -> Seq(Bits)]
      /\ dev'[current] = e
      /\ \A v \in VM : v # current => dev'[v].in = dev[v].in /\ dev'[v].out = Left[v].out
  BY <1>2, <1>5, <1>6, AccessIs DEF Load
<1>8. /\ UNCHANGED <<current, alive, uart_forwarded_task, is_escaped, rx, virq, vfiq, ops, home, owed>>
      /\ at = "out" /\ at' = "exit" /\ loaded' = MmioValue(Mine, addr)
  BY DEF Load, Trap, task, uart, lines
<1>9. last' = IF addr = "AUX_MU_IO_REG" /\ e.in # Mine.in
                THEN [last EXCEPT ![current] = Id(loaded')] ELSE last
  BY DEF Load, e
<1>10. promised' = [promised EXCEPT ![current] =
         IF addr = "AUX_MU_LSR_REG" THEN loaded' \cap {0, 5}
         ELSE IF addr = "AUX_MU_IO_REG" THEN promised[current] \ {0} ELSE promised[current]]
  BY DEF Load
<1>11. promised' \in [VM -> SUBSET {0, 5}]
  BY <1>10 DEF Types
<1>12. last' = [v \in VM |-> last'[v]]
  BY <1>1, <1>9 DEF Types
<1>13. Types'
  <2>1. Bounded(dev)'
    BY <1>7 DEF Bounded
  <2> QED
    BY <1>7, <1>8, <1>11, <1>12, <2>1 DEF Types, At
<1>14. ASSUME NEW v \in VM, v # current PROVE InStep(v) /\ OutStep(v) /\ PromiseStep(v)
  <2>1. last'[v] = last[v] /\ promised'[v] = promised[v]
    BY <1>9, <1>10, <1>14 DEF Types
  <2>2. dev'[v].in = dev[v].in /\ dev'[v].out = Left[v].out
    BY <1>7, <1>14
  <2> QED
    BY <1>6, <1>8, <2>1, <2>2, OthersStep
<1>15. InStep(current)
  <2>1. CASE e.in = Mine.in
    BY <1>1, <1>7, <1>9, <2>1 DEF InStep, InKept
  <2>2. CASE e.in # Mine.in
    <3>1. /\ addr = "AUX_MU_IO_REG" /\ Mine.in # <<>> /\ e.in = Tail(Mine.in)
          /\ loaded' = Head(Mine.in)
      BY <1>2, <1>8, <2>2
    <3>2. last'[current] = Id(Head(Mine.in))
      BY <1>1, <1>9, <2>2, <3>1 DEF Types
    <3>3. promised'[current] = promised[current] \ {0}
      BY <1>1, <1>10, <3>1 DEF Types
    <3> QED
      BY <1>1, <1>7, <3>1, <3>2, <3>3 DEF InStep, InRead
  <2> QED
    BY <2>1, <2>2
<1>16. OutStep(current)
  <2>1. Left[current].out \in Seq(Bits) /\ Prints(current, Left[current].out)
    BY <1>1, <1>6, <1>8, LeavePrints
  <2>2. dev'[current].out = Left[current].out
    BY <1>2, <1>7 DEF Mine
  <2> QED
    BY <1>8, <2>1, <2>2 DEF OutStep
<1>17. PromiseStep(current)
  <2>1. CASE addr = "AUX_MU_LSR_REG"
    <3>1. promised'[current] = loaded' \cap {0, 5}
      BY <1>1, <1>10, <2>1 DEF Types
    <3>2. e.in = Mine.in /\ last' = last
      BY <1>2, <1>9, <2>1
    <3>3. /\ 0 \in loaded' => Mine.in # <<>>
          /\ 5 \in loaded' => ~is_full(Mine.out)
      BY <1>1, <1>8, <2>1, LsrTells
    <3> QED
      BY <1>1, <1>2, <1>7, <3>1, <3>2, <3>3 DEF PromiseStep, InKept
  <2>2. CASE addr # "AUX_MU_LSR_REG"
    <3>1. promised'[current] \subseteq promised[current]
      BY <1>1, <1>10, <2>2 DEF Types
    <3> QED
      BY <3>1 DEF PromiseStep
  <2> QED
    BY <2>1, <2>2
<1>18. RxStep
  BY <1>8 DEF RxStep, RxKept
<1>19. ShowStep
  BY <1>8 DEF ShowStep
<1> QED
  BY <1>13, <1>14, <1>15, <1>16, <1>17, <1>18, <1>19 DEF Effect

LEMMA PutEffect ==
  ASSUME Types, Put
  PROVE  Types' /\ Effect
<1> DEFINE c == Char(ops + 1)
           e == AfterMmioWrite(Mine, "AUX_MU_IO_REG", c)
<1>1. current \in VM /\ Mine \in Device /\ Mine.in = dev[current].in
  BY LeftIs, Constants DEF Put, Trap, Types, Mine
<1>2. ops + 1 \in 1 .. MAX_OPS /\ ops + 1 \in 0 .. 7
  BY Constants DEF Put, Types
<1>3. Len(Mine.out) <= FIFO_ROOM /\ Len(Mine.in) <= FIFO_ROOM
  BY <1>1, LeftIs DEF Bounded, Mine
<1>4. /\ e \in Device /\ e.in = Mine.in /\ Len(e.out) <= FIFO_ROOM
      /\ e.out = Mine.out \/ e.out = Append(Mine.out, c)
  BY <1>1, <1>2, <1>3, PutKeeps
<1>5. Leave([Left EXCEPT ![current] = e])
  BY DEF Put, Mine
<1>6. c \in Bits
  BY <1>2 DEF Char, Bits
<1>7. /\ UNCHANGED <<current, alive, uart_forwarded_task, is_escaped, rx, virq, vfiq, home, last>>
      /\ ops' = ops + 1 /\ at = "out" /\ at' = "exit"
      /\ promised' = [promised EXCEPT ![current] = promised[current] \ {5}]
      /\ owed' = [owed EXCEPT ![current] =
           IF e.out # Mine.out THEN Append(owed[current], c) ELSE owed[current]]
  BY DEF Put, Trap, task, uart, lines
<1> HIDE DEF e, c
<1>8. /\ dev' \in [VM -> Device] /\ Bounded(dev') /\ shown' \in [VM -> Seq(Bits)]
      /\ dev'[current] = e
      /\ \A v \in VM : v # current => dev'[v].in = dev[v].in /\ dev'[v].out = Left[v].out
  BY <1>3, <1>4, <1>5, AccessIs DEF Put
<1>9. Types'
  <2>1. Bounded(dev)'
    BY <1>8 DEF Bounded
  <2>2. owed[current] \in Seq(Bits) /\ Append(owed[current], c) \in Seq(Bits)
    BY <1>1, <1>6, AppendProperties DEF Types
  <2>3. owed' \in [VM -> Seq(Bits)]
    BY <1>7, <2>2 DEF Types
  <2>4. promised' \in [VM -> SUBSET {0, 5}]
    BY <1>7 DEF Types
  <2>5. ops' \in 0 .. MAX_OPS
    BY <1>2, <1>7
  <2> QED
    BY <1>7, <1>8, <2>1, <2>3, <2>4, <2>5 DEF Types, At
<1>10. ASSUME NEW v \in VM, v # current PROVE InStep(v) /\ OutStep(v) /\ PromiseStep(v)
  <2>1. owed'[v] = owed[v] /\ promised'[v] = promised[v]
    BY <1>7, <1>10 DEF Types
  <2>2. dev'[v].in = dev[v].in /\ dev'[v].out = Left[v].out
    BY <1>8, <1>10
  <2> QED
    BY <1>5, <1>7, <2>1, <2>2, OthersStep
<1>11. InStep(current)
  BY <1>1, <1>4, <1>7, <1>8 DEF InStep, InKept
<1>12. promised'[current] = promised[current] \ {5}
  BY <1>1, <1>7 DEF Types
<1>13. OutStep(current)
  <2>1. Mine.out \in Seq(Bits) /\ Prints(current, Mine.out)
    BY <1>1, <1>5, <1>7, LeavePrints DEF Mine
  <2>2. CASE e.out = Mine.out
    <3>1. owed'[current] = owed[current]
      BY <1>1, <1>7, <2>2 DEF Types
    <3> QED
      BY <1>8, <2>1, <2>2, <3>1 DEF OutStep
  <2>3. CASE e.out # Mine.out
    <3>1. owed'[current] = Append(owed[current], c) /\ e.out = Append(Mine.out, c)
      BY <1>1, <1>4, <1>7, <2>3 DEF Types
    <3>2. dev'[current].out = Append(Mine.out, c) /\ 5 \notin promised'[current]
          /\ current = current' /\ at' = "exit"
      BY <1>7, <1>8, <1>12, <3>1
    <3> QED
      BY <1>6, <2>1, <3>1, <3>2 DEF OutStep
  <2> QED
    BY <2>2, <2>3
<1>14. PromiseStep(current)
  BY <1>12 DEF PromiseStep
<1>15. RxStep
  BY <1>7 DEF RxStep, RxKept
<1>16. ShowStep
  BY <1>7 DEF ShowStep
<1> QED
  BY <1>9, <1>10, <1>11, <1>13, <1>14, <1>15, <1>16 DEF Effect

LEMMA StoreEffect ==
  ASSUME Types, NEW addr, NEW val, addr # "AUX_MU_IO_REG", Store(addr, val)
  PROVE  Types' /\ Effect
<1> DEFINE e == AfterMmioWrite(Mine, addr, val)
<1>1. current \in VM /\ Mine \in Device /\ Mine.in = dev[current].in
  BY LeftIs, Constants DEF Store, Trap, Types, Mine
<1>2. e \in Device /\ e.in \in {Mine.in, <<>>} /\ e.out \in {Mine.out, <<>>}
  BY <1>1, WriteKeeps
<1>3. Leave([Left EXCEPT ![current] = e])
  BY DEF Store, Mine
<1>4. /\ UNCHANGED <<current, alive, uart_forwarded_task, is_escaped, rx, virq, vfiq, home, last>>
      /\ ops < MAX_OPS /\ ops' = ops + 1 /\ at = "out" /\ at' = "exit"
      /\ owed' = [owed EXCEPT ![current] =
           IF e.out # Mine.out THEN shown'[current] ELSE owed[current]]
      /\ promised' = [promised EXCEPT ![current] =
           IF e.in # Mine.in THEN promised[current] \ {0} ELSE promised[current]]
  BY DEF Store, Trap, task, uart, lines
<1> HIDE DEF e
<1>5. Len(e.in) <= FIFO_ROOM /\ Len(e.out) <= FIFO_ROOM
  <2>1. Len(Mine.out) <= FIFO_ROOM /\ Len(Mine.in) <= FIFO_ROOM
    BY <1>1, LeftIs DEF Bounded, Mine
  <2>2. Len(<<>>) = 0
    BY EmptySeq
  <2> QED
    BY <1>2, <2>1, <2>2, Constants
<1>6. /\ dev' \in [VM -> Device] /\ Bounded(dev') /\ shown' \in [VM -> Seq(Bits)]
      /\ dev'[current] = e
      /\ \A v \in VM : v # current => dev'[v].in = dev[v].in /\ dev'[v].out = Left[v].out
  BY <1>2, <1>3, <1>5, AccessIs DEF Store
<1>7. Types'
  <2>1. Bounded(dev)'
    BY <1>6 DEF Bounded
  <2>2. owed' \in [VM -> Seq(Bits)]
    BY <1>1, <1>4, <1>6 DEF Types
  <2>3. promised' \in [VM -> SUBSET {0, 5}]
    BY <1>4 DEF Types
  <2>4. ops' \in 0 .. MAX_OPS
    BY <1>4, Constants DEF Types
  <2> QED
    BY <1>4, <1>6, <2>1, <2>2, <2>3, <2>4 DEF Types, At
<1>8. ASSUME NEW v \in VM, v # current PROVE InStep(v) /\ OutStep(v) /\ PromiseStep(v)
  <2>1. owed'[v] = owed[v] /\ promised'[v] = promised[v]
    BY <1>4, <1>8 DEF Types
  <2>2. dev'[v].in = dev[v].in /\ dev'[v].out = Left[v].out
    BY <1>6, <1>8
  <2> QED
    BY <1>3, <1>4, <2>1, <2>2, OthersStep
<1>9. InStep(current)
  <2>1. CASE e.in = Mine.in
    BY <1>1, <1>4, <1>6, <2>1 DEF InStep, InKept
  <2>2. CASE e.in # Mine.in
    <3>1. e.in = <<>> /\ promised'[current] = promised[current] \ {0}
      BY <1>1, <1>2, <1>4, <2>2 DEF Types
    <3> QED
      BY <1>4, <1>6, <3>1 DEF InStep, InCleared
  <2> QED
    BY <2>1, <2>2
<1>10. OutStep(current)
  <2>1. Mine.out \in Seq(Bits) /\ Prints(current, Mine.out)
    BY <1>1, <1>3, <1>4, LeavePrints DEF Mine
  <2>2. CASE e.out = Mine.out
    <3>1. owed'[current] = owed[current]
      BY <1>1, <1>4, <2>2 DEF Types
    <3> QED
      BY <1>6, <2>1, <2>2, <3>1 DEF OutStep
  <2>3. CASE e.out # Mine.out
    <3>1. owed'[current] = shown'[current] /\ dev'[current].out = <<>>
      BY <1>1, <1>2, <1>4, <1>6, <2>3 DEF Types
    <3> QED
      BY <2>1, <3>1 DEF OutStep
  <2> QED
    BY <2>2, <2>3
<1>11. PromiseStep(current)
  <2>1. promised'[current] \subseteq promised[current]
    BY <1>1, <1>4 DEF Types
  <2> QED
    BY <2>1 DEF PromiseStep
<1>12. RxStep
  BY <1>4 DEF RxStep, RxKept
<1>13. ShowStep
  BY <1>4 DEF ShowStep
<1> QED
  BY <1>7, <1>8, <1>9, <1>10, <1>11, <1>12, <1>13 DEF Effect

\* Whatever the step is.
LEMMA StepEffect ==
  ASSUME Types, Next
  PROVE  Types' /\ Effect
<1>1. ASSUME NEW s \in Stores, Store(s[1], s[2]) PROVE Types' /\ Effect
  <2>1. s[1] # "AUX_MU_IO_REG"
    BY ConsoleAssumption
  <2> QED
    BY <1>1, <2>1, StoreEffect
<1>2. CASE Access
  BY <1>1, <1>2, LoadEffect, PutEffect, AckTimerEffect DEF Access
<1>3. CASE Handler
  BY <1>3, TakeIrqEffect, ShellKeyEffect, ShellEscapeEffect, ForwardKeyEffect,
     ClearIntEffect, KernelExitEffect DEF Handler
<1> QED
  BY <1>2, <1>3, TypeEffect, YieldEffect, PanicEffect DEF Next

-----------------------------------------------------------------------------
(***************************************************************************)
(* The inductive invariant.                                                *)
(***************************************************************************)

\* The keys that wait are in the order they were typed, at the console that is
\* still shown, unless the handler has switched it and is about to lose them.
KeysWait ==
  /\ \A i \in 1 .. Len(rx) : rx[i].id <= ops
  /\ \A i, j \in 1 .. Len(rx) : i < j => rx[i].id < rx[j].id
  /\ at # "clear" => \A i \in 1 .. Len(rx) : home[rx[i].id] = uart_forwarded_task

\* The keys a VM has were typed at its console, after those it has read and
\* before those that wait.
KeysOf(v) == LET q == dev[v].in IN
  /\ last[v] \in 0 .. ops
  /\ \A k \in 1 .. Len(rx) : last[v] < rx[k].id
  /\ \A i \in 1 .. Len(q) :
       /\ Id(q[i]) \in 1 .. ops /\ home[Id(q[i])] = v /\ last[v] < Id(q[i])
       /\ \A j \in 1 .. Len(q) : i < j => Id(q[i]) < Id(q[j])
       /\ \A k \in 1 .. Len(rx) : Id(q[i]) < rx[k].id

\* A key that came alone is the one the handler takes first.
AloneFirst ==
  \A i \in 1 .. Len(rx) : rx[i].alone => i = 1 /\ at \notin {"esc2", "esc1", "clear"}

\* The VM whose console is shown has nothing to print, except on its way back
\* from the trap it wrote in.
NothingWaits ==
  uart_forwarded_task \in VM \cap alive /\ ~(at = "exit" /\ current = uart_forwarded_task)
    => dev[uart_forwarded_task].out = <<>>

\* Only a task that has just ended is on the CPU without being alive.
CurrentAlive == at # "sched" => current \in alive

KeysInv == KeysWait /\ (\A v \in VM : KeysOf(v)) /\ AloneFirst
IInv ==
  /\ Types /\ KeysInv
  /\ OutputComplete /\ NothingWaits /\ LsrPromise
  /\ CurrentAlive /\ LinesTrue

LEMMA InitInv == Init => IInv
<1> SUFFICES ASSUME Init PROVE IInv
  OBVIOUS
<1>1. /\ Len(<<>>) = 0 /\ <<>> \in Seq(KeyRecord) /\ <<>> \in Seq(Bits)
  BY EmptySeq
<1>2. \A v \in VM : dev[v] = initial_state
  BY DEF Init
<1>3. dev \in [VM -> Device] /\ \A v \in VM : dev[v].in = <<>> /\ dev[v].out = <<>>
  BY InitialDevice DEF Init
<1>4. Bounded(dev)
  BY <1>1, <1>3, Constants DEF Bounded
<1>5. Types
  <2>1. last = [v \in VM |-> last[v]]
    BY DEF Init
  <2>2. /\ home \in [1 .. MAX_OPS -> Task] /\ ops \in 0 .. MAX_OPS
        /\ rx \in Seq(KeyRecord) /\ Len(rx) <= RX_SIZE
    BY <1>1, Constants DEF Init
  <2>3. /\ shown \in [VM -> Seq(Bits)] /\ owed \in [VM -> Seq(Bits)]
        /\ promised \in [VM -> SUBSET {0, 5}]
    BY <1>1 DEF Init
  <2> QED
    BY <1>3, <1>4, <2>1, <2>2, <2>3, Constants DEF Init, Types, At
<1>6. KeysInv
  <2>1. KeysWait /\ AloneFirst
    BY <1>1 DEF Init, KeysWait, AloneFirst
  <2>2. ASSUME NEW v \in VM PROVE KeysOf(v)
    BY <1>1, <1>3 DEF Init, KeysOf
  <2> QED
    BY <2>1, <2>2 DEF KeysInv
<1>7. OutputComplete
  <2>1. ASSUME NEW v \in VM PROVE shown[v] \o dev[v].out = owed[v]
    <3>1. shown[v] = <<>> /\ owed[v] = <<>> /\ dev[v].out = <<>>
      BY <1>3 DEF Init
    <3> QED
      BY <1>1, <3>1, ConcatEmptySeq
  <2> QED
    BY <2>1 DEF OutputComplete
<1>8. NothingWaits
  BY <1>3 DEF NothingWaits
<1>9. LsrPromise
  BY DEF Init, LsrPromise
<1>10. CurrentAlive /\ LinesTrue
  <2>1. CurrentAlive
    BY Constants DEF Init, CurrentAlive
  <2>2. Asserted(HV, dev).irq = FALSE /\ Asserted(HV, dev).fiq = FALSE
    BY Zenon DEF Asserted
  <2> QED
    BY <2>1, <2>2 DEF Init, LinesTrue
<1> QED
  BY <1>5, <1>6, <1>7, <1>8, <1>9, <1>10 DEF IInv

\* Sequence facts about the FIFO after a key was taken.
LEMMA TailIs ==
  ASSUME NEW S, NEW q \in Seq(S), q # <<>>
  PROVE  /\ Len(q) \in Nat \ {0} /\ Len(Tail(q)) = Len(q) - 1
         /\ \A i \in 1 .. Len(Tail(q)) : i + 1 \in 1 .. Len(q) /\ Tail(q)[i] = q[i + 1]
         /\ Head(q) = q[1] /\ 1 \in 1 .. Len(q)
         /\ \A i \in 1 .. Len(q) : q[i] \in S
<1>1. Len(q) \in Nat \ {0}
  BY EmptySeq, LenProperties
<1>2. Len(Tail(q)) = Len(q) - 1 /\ \A i \in 1 .. Len(Tail(q)) : Tail(q)[i] = q[i + 1]
  BY HeadTailProperties
<1>3. \A i \in 1 .. Len(q) : q[i] \in S
  BY ElementOfSeq
<1> QED
  BY <1>1, <1>2, <1>3

LEMMA AppendIs ==
  ASSUME NEW S, NEW q \in Seq(S), NEW e \in S
  PROVE  /\ Len(q) \in Nat /\ Len(Append(q, e)) = Len(q) + 1
         /\ \A i \in 1 .. Len(q) : Append(q, e)[i] = q[i]
         /\ Append(q, e)[Len(q) + 1] = e
BY AppendProperties, LenProperties

\* The keys that wait after a step are those that waited, from the first or from
\* the second on, and at most one that has just been typed.
RxMoved(n) ==
  \A k \in 1 .. Len(rx') :
    \/ k + n \in 1 .. Len(rx) /\ rx'[k] = rx[k + n]
    \/ RxTyped /\ k = Len(rx) + 1 /\ n = 0 /\ rx'[k].id = ops + 1
       /\ (rx'[k].alone => Len(rx) = 0 /\ at = "out")

LEMMA RxMoves ==
  ASSUME Types, Types', RxStep
  PROVE  /\ Len(rx) \in Nat /\ Len(rx') \in Nat
         /\ rx # <<>> /\ rx' = Tail(rx) => RxMoved(1)
         /\ ~RxTaken => RxMoved(0)
<1>1. rx \in Seq(KeyRecord) /\ Len(rx) \in Nat /\ Len(<<>>) = 0
  BY LenProperties, EmptySeq DEF Types
<1>2. rx # <<>> => /\ Len(Tail(rx)) = Len(rx) - 1 /\ Len(rx) > 0
                   /\ \A k \in 1 .. Len(Tail(rx)) : k + 1 \in 1 .. Len(rx) /\ Tail(rx)[k] = rx[k + 1]
  BY <1>1, TailIs
<1>3. rx # <<>> /\ rx' = Tail(rx) => Len(rx') \in Nat /\ RxMoved(1)
  BY <1>1, <1>2 DEF RxMoved
<1>4. CASE RxKept
  <2>1. rx' = rx
    BY <1>4 DEF RxKept
  <2> QED
    BY <1>1, <1>3, <2>1 DEF RxMoved
<1>5. CASE RxLost
  <2>1. rx' = <<>>
    BY <1>5 DEF RxLost
  <2> QED
    BY <1>1, <1>3, <2>1 DEF RxMoved
<1>6. CASE RxTyped
  <2>1. CASE rx' = rx
    BY <1>1, <1>3, <2>1 DEF RxMoved
  <2>2. CASE \E c \in Keys : rx' = Append(rx, Key(c))
    <3>1. PICK c \in Keys : rx' = Append(rx, Key(c))
      BY <2>2
    <3>2. Key(c).id = ops + 1 /\ (Key(c).alone => rx = <<>> /\ at = "out")
      BY DEF Key
    <3>3. ops + 1 \in 1 .. MAX_OPS
      BY <1>6 DEF RxTyped, Types
    <3>4. rx' = Append(rx, Key(c)) /\ Key(c) \in KeyRecord
      BY <3>1, <3>3 DEF Key, KeyRecord
    <3>5. /\ Len(rx') = Len(rx) + 1
          /\ \A k \in 1 .. Len(rx) : rx'[k] = rx[k]
          /\ rx'[Len(rx) + 1] = Key(c)
      BY <1>1, <3>4, AppendIs
    <3>6. ASSUME NEW k \in 1 .. Len(rx')
          PROVE  \/ k + 0 \in 1 .. Len(rx) /\ rx'[k] = rx[k + 0]
                 \/ RxTyped /\ k = Len(rx) + 1 /\ rx'[k].id = ops + 1
                    /\ (rx'[k].alone => Len(rx) = 0 /\ at = "out")
      <4>1. CASE k \in 1 .. Len(rx)
        BY <1>1, <3>5, <4>1
      <4>2. CASE k = Len(rx) + 1
        BY <1>1, <1>6, <3>2, <3>5, <4>2
      <4> QED
        BY <1>1, <3>5, <4>1, <4>2
    <3> QED
      BY <1>1, <1>3, <3>5, <3>6 DEF RxMoved
  <2> QED
    BY <1>6, <2>1, <2>2 DEF RxTyped
<1>7. CASE RxTaken
  BY <1>3, <1>7 DEF RxTaken
<1> QED
  BY <1>3, <1>4, <1>5, <1>6, <1>7 DEF RxStep

\* What is in the FIFO is a key, before a step and after it.
LEMMA RxKeys ==
  ASSUME Types
  PROVE  \A i \in 1 .. Len(rx) : rx[i] \in KeyRecord /\ rx[i].id \in 1 .. MAX_OPS
<1>1. rx \in Seq(KeyRecord)
  BY DEF Types
<1>2. \A i \in 1 .. Len(rx) : rx[i] \in KeyRecord
  BY <1>1, ElementOfSeq
<1> QED
  BY <1>2 DEF KeyRecord

\* Time goes on, and where a key was typed does not change.
LEMMA PastStays ==
  ASSUME Types, RxStep
  PROVE  /\ ops \in Nat /\ ops' \in {ops, ops + 1}
         /\ \A n \in 1 .. ops : home'[n] = home[n]
         /\ RxTyped => ops' = ops + 1
<1>1. ops \in Nat
  BY Constants DEF Types
<1>2. CASE RxTyped
  <2>1. ops' = ops + 1 /\ home' = [home EXCEPT ![ops + 1] = uart_forwarded_task]
    BY <1>2 DEF RxTyped
  <2>2. \A n \in 1 .. ops : n # ops + 1 /\ n \in 1 .. MAX_OPS
    BY <1>1, Constants DEF Types
  <2>3. \A n \in 1 .. ops : home'[n] = home[n]
    BY <2>1, <2>2 DEF Types
  <2> QED
    BY <1>1, <2>1, <2>3
<1>3. CASE ~RxTyped
  BY <1>1, <1>3 DEF RxStep, RxKept, RxTaken, RxLost
<1> QED
  BY <1>2, <1>3

LEMMA RxAgain ==
  ASSUME Types, Types', RxStep
  PROVE  RxMoved(0) \/ (RxMoved(1) /\ RxTaken)
BY RxMoves DEF RxTaken

LEMMA KeysWaitStep ==
  ASSUME Types, Types', KeysWait, RxStep
  PROVE  KeysWait'
<1>1. Len(rx) \in Nat /\ Len(rx') \in Nat
  BY RxMoves
<1>2. \A i \in 1 .. Len(rx) : rx[i].id \in 1 .. MAX_OPS
  BY RxKeys
<1>3. /\ ops \in Nat /\ ops' \in {ops, ops + 1}
      /\ \A n \in 1 .. ops : home'[n] = home[n]
      /\ RxTyped => ops' = ops + 1
  BY PastStays
<1>4. PICK n \in {0, 1} : RxMoved(n) /\ (n = 1 => RxTaken)
  BY RxAgain
<1>5. ASSUME NEW k \in 1 .. Len(rx') PROVE rx'[k].id <= ops'
  BY <1>1, <1>2, <1>3, <1>4 DEF RxMoved, KeysWait
<1>6. ASSUME NEW k \in 1 .. Len(rx'), NEW l \in 1 .. Len(rx'), k < l
      PROVE  rx'[k].id < rx'[l].id
  <2>1. CASE k + n \in 1 .. Len(rx) /\ rx'[k] = rx[k + n] /\ l + n \in 1 .. Len(rx) /\ rx'[l] = rx[l + n]
    BY <1>6, <2>1 DEF KeysWait
  <2>2. CASE /\ k + n \in 1 .. Len(rx) /\ rx'[k] = rx[k + n] /\ rx'[l].id = ops + 1
    BY <1>2, <1>3, <2>2 DEF KeysWait
  <2>3. ~(k = Len(rx) + 1 /\ n = 0)
    <3>1. SUFFICES ASSUME k = Len(rx) + 1, n = 0 PROVE FALSE
      OBVIOUS
    <3>2. l + n \in 1 .. Len(rx) \/ l = Len(rx) + 1
      BY <1>4 DEF RxMoved
    <3> QED
      BY <1>1, <1>6, <3>1, <3>2
  <2> QED
    BY <1>4, <2>1, <2>2, <2>3 DEF RxMoved
<1>7. ASSUME at' # "clear", NEW k \in 1 .. Len(rx')
      PROVE  home'[rx'[k].id] = uart_forwarded_task'
  <2>1. CASE RxTyped
    <3>1. at # "clear" /\ uart_forwarded_task' = uart_forwarded_task
      BY <1>7, <2>1 DEF RxTyped
    <3>2. CASE k + n \in 1 .. Len(rx) /\ rx'[k] = rx[k + n]
      <4>1. rx[k + n].id \in 1 .. ops
        BY <1>2, <1>3, <3>2 DEF KeysWait
      <4> QED
        BY <1>3, <3>1, <3>2, <4>1 DEF KeysWait
    <3>3. CASE rx'[k].id = ops + 1
      <4>1. ops + 1 \in 1 .. MAX_OPS
        BY <1>3, <2>1 DEF Types
      <4>2. home'[ops + 1] = uart_forwarded_task
        BY <2>1, <4>1 DEF RxTyped, Types
      <4> QED
        BY <3>1, <3>3, <4>2
    <3> QED
      BY <1>4, <3>2, <3>3 DEF RxMoved
  <2>2. CASE RxLost
    BY <1>7, <2>2, EmptySeq DEF RxLost
  <2>3. CASE ~RxTyped /\ ~RxLost
    <3>1. at # "clear" /\ UNCHANGED <<uart_forwarded_task, home>>
      BY <1>7, <2>3 DEF RxStep, RxKept, RxTaken
    <3>2. k + n \in 1 .. Len(rx) /\ rx'[k] = rx[k + n]
      BY <1>4, <2>3 DEF RxMoved
    <3> QED
      BY <3>1, <3>2 DEF KeysWait
  <2> QED
    BY <2>1, <2>2, <2>3
<1> QED
  BY <1>5, <1>6, <1>7 DEF KeysWait

LEMMA AloneFirstStep ==
  ASSUME Types, Types', AloneFirst, RxStep
  PROVE  AloneFirst'
<1>1. Len(rx) \in Nat /\ Len(rx') \in Nat
  BY RxMoves
<1>2. PICK n \in {0, 1} : RxMoved(n) /\ (n = 1 => RxTaken)
  BY RxAgain
<1>3. SUFFICES ASSUME NEW k \in 1 .. Len(rx'), rx'[k].alone
               PROVE  k = 1 /\ at' \notin {"esc2", "esc1", "clear"}
  BY DEF AloneFirst
<1>4. CASE RxTyped
  <2>1. at' = at
    BY <1>4 DEF RxTyped
  <2>2. CASE k + n \in 1 .. Len(rx) /\ rx'[k] = rx[k + n]
    <3>1. k + n = 1 /\ at \notin {"esc2", "esc1", "clear"}
      BY <1>3, <2>2 DEF AloneFirst
    <3> QED
      BY <1>1, <2>1, <3>1
  <2>3. CASE k = Len(rx) + 1 /\ Len(rx) = 0 /\ at = "out"
    BY <2>1, <2>3
  <2> QED
    BY <1>2, <1>3, <2>2, <2>3 DEF RxMoved
<1>5. CASE ~RxTyped
  <2>1. k + n \in 1 .. Len(rx) /\ rx'[k] = rx[k + n]
    BY <1>2, <1>5 DEF RxMoved
  <2>2. k + n = 1 /\ at \notin {"esc2", "esc1", "clear"}
    BY <1>3, <2>1 DEF AloneFirst
  <2>3. k = 1 /\ n = 0
    BY <1>1, <2>2
  <2>4. CASE RxKept
    BY <2>2, <2>3, <2>4 DEF RxKept
  <2>5. CASE RxLost
    BY <2>2, <2>5 DEF RxLost
  <2>6. CASE RxTaken
    <3>1. RxMoved(1)
      BY <2>6, RxMoves DEF RxTaken
    <3>2. k + 1 \in 1 .. Len(rx) /\ rx'[k] = rx[k + 1]
      BY <1>5, <3>1 DEF RxMoved
    <3>3. k + 1 = 1
      BY <1>3, <3>2 DEF AloneFirst
    <3> QED
      BY <2>3, <3>3
  <2> QED
    BY <1>5, <2>4, <2>5, <2>6 DEF RxStep
<1> QED
  BY <1>4, <1>5

\* A key older than every key that waits is older than those that wait next.
LEMMA StillOlder ==
  ASSUME Types, Types', RxStep, NEW m \in 0 .. ops, \A k \in 1 .. Len(rx) : m < rx[k].id
  PROVE  m \in 0 .. ops' /\ \A k \in 1 .. Len(rx') : m < rx'[k].id
<1>1. ops \in Nat /\ ops' \in {ops, ops + 1}
  BY PastStays
<1>2. PICK n \in {0, 1} : RxMoved(n) /\ (n = 1 => RxTaken)
  BY RxAgain
<1>3. ASSUME NEW k \in 1 .. Len(rx') PROVE m < rx'[k].id
  BY <1>1, <1>2 DEF RxMoved
<1> QED
  BY <1>1, <1>3

\* The keys in the buffer of a VM that are left as they were.
LEMMA KeysStay ==
  ASSUME Types, Types', RxStep, NEW v \in VM, KeysOf(v), NEW i \in 1 .. Len(dev[v].in)
  PROVE  LET n == Id(dev[v].in[i]) IN
         /\ n \in 1 .. ops' /\ home'[n] = v
         /\ \A k \in 1 .. Len(rx') : n < rx'[k].id
<1> DEFINE n == Id(dev[v].in[i])
<1>1. n \in 1 .. ops /\ home[n] = v /\ \A k \in 1 .. Len(rx) : n < rx[k].id
  BY DEF KeysOf
<1>2. /\ ops \in Nat /\ ops' \in {ops, ops + 1}
      /\ \A j \in 1 .. ops : home'[j] = home[j]
  BY PastStays
<1> HIDE DEF n
<1>3. n \in 0 .. ops /\ n \in 1 .. ops'
  BY <1>1, <1>2
<1>4. \A k \in 1 .. Len(rx') : n < rx'[k].id
  BY <1>1, <1>3, StillOlder
<1> QED
  BY <1>1, <1>2, <1>3, <1>4 DEF n

LEMMA KeysOfStep ==
  ASSUME Types, Types', KeysWait, RxStep, NEW v \in VM, KeysOf(v), InStep(v)
  PROVE  KeysOf(v)'
<1> DEFINE q == dev[v].in
           p == dev'[v].in
<1>1. q \in Seq(Bits) /\ Len(q) \in Nat
  BY LenProperties DEF Types, Device
<1>2. last[v] \in 0 .. ops' /\ \A k \in 1 .. Len(rx') : last[v] < rx'[k].id
  BY StillOlder DEF KeysOf
<1>3. CASE InKept(v)
  BY <1>2, <1>3, KeysStay DEF InKept, KeysOf
<1>4. CASE InCleared(v)
  BY <1>2, <1>4, EmptySeq DEF InCleared, KeysOf
<1>5. CASE InRead(v)
  <2>1. q # <<>> /\ p = Tail(q) /\ last'[v] = Id(q[1]) /\ 1 \in 1 .. Len(q)
        /\ Len(p) = Len(q) - 1
        /\ \A i \in 1 .. Len(p) : i + 1 \in 1 .. Len(q) /\ p[i] = q[i + 1]
    BY <1>1, <1>5, TailIs DEF InRead
  <2> HIDE DEF p
  <2>2. last'[v] \in 0 .. ops' /\ \A k \in 1 .. Len(rx') : last'[v] < rx'[k].id
    <3>1. Id(q[1]) \in 1 .. ops'
      BY <2>1, KeysStay
    <3>2. \A k \in 1 .. Len(rx') : Id(q[1]) < rx'[k].id
      BY <2>1, KeysStay
    <3> QED
      BY <2>1, <3>1, <3>2 DEF Types
  <2>3. ASSUME NEW i \in 1 .. Len(p)
        PROVE  /\ Id(p[i]) \in 1 .. ops' /\ home'[Id(p[i])] = v /\ last'[v] < Id(p[i])
               /\ \A j \in 1 .. Len(p) : i < j => Id(p[i]) < Id(p[j])
               /\ \A k \in 1 .. Len(rx') : Id(p[i]) < rx'[k].id
    <3>1. i + 1 \in 1 .. Len(q) /\ p[i] = q[i + 1] /\ 1 < i + 1
      BY <2>1
    <3>2. /\ Id(p[i]) \in 1 .. ops' /\ home'[Id(p[i])] = v
          /\ \A k \in 1 .. Len(rx') : Id(p[i]) < rx'[k].id
      BY <3>1, KeysStay
    <3>3. Id(q[1]) < Id(q[i + 1])
      BY <2>1, <3>1 DEF KeysOf
    <3>4. ASSUME NEW j \in 1 .. Len(p), i < j PROVE Id(p[i]) < Id(p[j])
      <4>1. j + 1 \in 1 .. Len(q) /\ p[j] = q[j + 1] /\ i + 1 < j + 1
        BY <2>1, <3>4
      <4> QED
        BY <3>1, <4>1 DEF KeysOf
    <3> QED
      BY <2>1, <3>1, <3>2, <3>3, <3>4
  <2> QED
    BY <2>2, <2>3 DEF KeysOf, p
<1>6. CASE InForwarded(v)
  <2> DEFINE n == rx[1].id
  <2>1. rx \in Seq(KeyRecord) /\ rx # <<>> /\ rx' = Tail(rx)
    BY <1>6 DEF InForwarded, Types
  <2>2. Head(rx) = rx[1] /\ 1 \in 1 .. Len(rx) /\ n \in 1 .. MAX_OPS
    BY <2>1, TailIs, RxKeys
  <2>3. Char(n) \in Bits
    BY <2>2 DEF Char, Bits
  <2>4. p = Append(q, Char(n)) /\ last'[v] = last[v]
    BY <1>6, <2>2 DEF InForwarded
  <2>5. /\ Len(p) = Len(q) + 1 /\ p[Len(q) + 1] = Char(n)
        /\ \A i \in 1 .. Len(q) : p[i] = q[i]
    BY <1>1, <2>3, <2>4, AppendIs
  <2>6. Id(p[Len(q) + 1]) = n
    BY <2>5, IdOfChar
  <2>7. n \in 1 .. ops /\ home[n] = v
    BY <1>6, <2>2 DEF InForwarded, KeysWait
  <2>8. n \in 1 .. ops' /\ home'[n] = v
    BY <2>7, PastStays
  <2>9. ASSUME NEW k \in 1 .. Len(rx') PROVE n < rx'[k].id
    <3>1. RxMoved(1)
      BY <2>1, RxMoves
    <3> QED
      BY <2>2, <3>1 DEF RxMoved, KeysWait
  <2>10. last[v] < n /\ \A i \in 1 .. Len(q) : Id(q[i]) < n
    BY <2>2 DEF KeysOf
  <2> HIDE DEF p, q, n
  <2>11. ASSUME NEW i \in 1 .. Len(p)
         PROVE  /\ Id(p[i]) \in 1 .. ops' /\ home'[Id(p[i])] = v /\ last'[v] < Id(p[i])
                /\ \A j \in 1 .. Len(p) : i < j => Id(p[i]) < Id(p[j])
                /\ \A k \in 1 .. Len(rx') : Id(p[i]) < rx'[k].id
    <3>1. CASE i \in 1 .. Len(q)
      <4>1. p[i] = q[i] /\ last[v] < Id(q[i])
            /\ \A j \in 1 .. Len(q) : i < j => Id(q[i]) < Id(q[j])
        BY <2>5, <3>1 DEF KeysOf, q
      <4>2. /\ Id(p[i]) \in 1 .. ops' /\ home'[Id(p[i])] = v
            /\ \A k \in 1 .. Len(rx') : Id(p[i]) < rx'[k].id
        BY <3>1, <4>1, KeysStay DEF q
      <4>3. ASSUME NEW j \in 1 .. Len(p), i < j PROVE Id(p[i]) < Id(p[j])
        BY <1>1, <2>5, <2>6, <2>10, <3>1, <4>1, <4>3
      <4> QED
        BY <2>4, <4>1, <4>2, <4>3
    <3>2. CASE i = Len(q) + 1
      <4>1. ASSUME NEW j \in 1 .. Len(p), i < j PROVE FALSE
        BY <1>1, <2>5, <3>2, <4>1
      <4> QED
        BY <2>4, <2>6, <2>8, <2>9, <2>10, <3>2, <4>1
    <3> QED
      BY <1>1, <2>5, <3>1, <3>2
  <2> QED
    BY <1>2, <2>4, <2>11 DEF KeysOf, p
<1> QED
  BY <1>3, <1>4, <1>5, <1>6 DEF InStep

LEMMA KeysInvStep ==
  ASSUME Types, Types', Effect, KeysInv
  PROVE  KeysInv'
BY KeysWaitStep, AloneFirstStep, KeysOfStep DEF Effect, KeysInv

-----------------------------------------------------------------------------
\* The output, the promises and the lines.

LEMMA OutputStep ==
  ASSUME Types, Types', OutputComplete, NEW v \in VM, OutStep(v)
  PROVE  (shown[v] \o dev[v].out = owed[v])'
<1>1. shown[v] \o dev[v].out = owed[v]
  BY DEF OutputComplete
<1>2. PICK rest \in Seq(Bits) : Prints(v, rest) /\
        \/ dev'[v].out = rest /\ owed'[v] = owed[v]
        \/ /\ \E c \in Bits : dev'[v].out = Append(rest, c) /\ owed'[v] = Append(owed[v], c)
           /\ v = current' /\ at' = "exit" /\ 5 \notin promised'[v]
        \/ dev'[v].out = <<>> /\ owed'[v] = shown'[v]
  BY DEF OutStep
<1>3. shown[v] \in Seq(Bits) /\ shown'[v] \in Seq(Bits) /\ dev[v].out \in Seq(Bits)
  BY DEF Types, Device
<1>4. shown'[v] \o rest = owed[v]
  <2>1. CASE rest = dev[v].out /\ shown'[v] = shown[v]
    BY <1>1, <2>1
  <2>2. CASE rest = <<>> /\ shown'[v] = shown[v] \o dev[v].out
    <3>1. shown'[v] \o <<>> = shown'[v]
      BY <1>3, ConcatEmptySeq
    <3> QED
      BY <1>1, <2>2, <3>1
  <2> QED
    BY <1>2, <2>1, <2>2 DEF Prints
<1>5. CASE dev'[v].out = rest /\ owed'[v] = owed[v]
  BY <1>4, <1>5
<1>6. CASE \E c \in Bits : dev'[v].out = Append(rest, c) /\ owed'[v] = Append(owed[v], c)
  <2>1. PICK c \in Bits : dev'[v].out = Append(rest, c) /\ owed'[v] = Append(owed[v], c)
    BY <1>6
  <2>2. \A s, t \in Seq(Bits) : s \o Append(t, c) = Append(s \o t, c)
    BY ConcatAppend
  <2>3. shown'[v] \o Append(rest, c) = Append(shown'[v] \o rest, c)
    BY <1>3, <2>2
  <2> QED
    BY <1>4, <2>1, <2>3
<1>7. CASE dev'[v].out = <<>> /\ owed'[v] = shown'[v]
  BY <1>3, <1>7, ConcatEmptySeq
<1> QED
  BY <1>2, <1>5, <1>6, <1>7

\* Output waits for the handler's way back only.
LEMMA NothingWaitsStep ==
  ASSUME Types, Types', Effect, NothingWaits
  PROVE  NothingWaits'
<1> DEFINE u == uart_forwarded_task'
<1>1. SUFFICES ASSUME u \in VM, u \in alive', ~(at' = "exit" /\ current' = u)
               PROVE  dev'[u].out = <<>>
  BY DEF NothingWaits
<1>2. u \in alive
  BY <1>1 DEF Effect, ShowStep
<1>3. CASE u # uart_forwarded_task
  BY <1>1, <1>2, <1>3 DEF Effect, ShowStep
<1>4. CASE u = uart_forwarded_task
  <2>1. CASE at = "exit" /\ current = uart_forwarded_task
    BY <1>1, <1>4, <2>1 DEF Effect, ShowStep
  <2>2. CASE ~(at = "exit" /\ current = uart_forwarded_task)
    <3>1. dev[u].out = <<>>
      BY <1>1, <1>2, <1>4, <2>2 DEF NothingWaits
    <3>2. PICK rest \in Seq(Bits) : Prints(u, rest) /\
            \/ dev'[u].out = rest /\ owed'[u] = owed[u]
            \/ /\ \E c \in Bits : dev'[u].out = Append(rest, c) /\ owed'[u] = Append(owed[u], c)
               /\ u = current' /\ at' = "exit" /\ 5 \notin promised'[u]
            \/ dev'[u].out = <<>> /\ owed'[u] = shown'[u]
      BY <1>1 DEF Effect, OutStep
    <3>3. rest = <<>>
      BY <3>1, <3>2 DEF Prints
    <3> QED
      BY <1>1, <3>2, <3>3
  <2> QED
    BY <2>1, <2>2
<1> QED
  BY <1>3, <1>4

\* A promise outlives every step of the others.
LEMMA PromisesKept ==
  ASSUME Types, Types', LsrPromise, NEW v \in VM, InStep(v), OutStep(v), PromiseStep(v)
  PROVE  /\ 0 \in promised'[v] => dev'[v].in # <<>>
         /\ 5 \in promised'[v] => ~is_full(dev'[v].out)
<1>1. ASSUME 0 \in promised'[v] PROVE dev'[v].in # <<>>
  <2>1. dev[v].in # <<>>
    BY <1>1 DEF PromiseStep, LsrPromise
  <2>2. CASE InKept(v)
    BY <2>1, <2>2 DEF InKept
  <2>3. CASE InForwarded(v)
    <3>1. dev'[v].in = Append(dev[v].in, Char(Head(rx).id)) /\ rx # <<>>
      BY <2>3 DEF InForwarded
    <3>2. rx \in Seq(KeyRecord) /\ dev[v].in \in Seq(Bits)
      BY DEF Types, Device
    <3>3. Head(rx) \in KeyRecord
      BY <3>1, <3>2, HeadTailProperties
    <3>4. Char(Head(rx).id) \in Bits
      BY <3>3 DEF KeyRecord, Char, Bits
    <3> QED
      BY <3>1, <3>2, <3>4, AppendProperties
  <2> QED
    BY <1>1, <2>2, <2>3 DEF InStep, InRead, InCleared
<1>2. ASSUME 5 \in promised'[v], 5 \in promised[v] PROVE ~is_full(dev'[v].out)
  <2>1. ~is_full(dev[v].out)
    BY <1>2 DEF LsrPromise
  <2>2. ~is_full(<<>>)
    BY EmptySeq, Constants DEF is_full
  <2>3. dev'[v].out = dev[v].out \/ dev'[v].out = <<>>
    BY <1>2 DEF OutStep, Prints
  <2> QED
    BY <2>1, <2>2, <2>3
<1> QED
  BY <1>1, <1>2 DEF PromiseStep

LEMMA CurrentAliveStep ==
  ASSUME Types, Next, CurrentAlive
  PROVE  CurrentAlive'
<1>1. CASE Type
  BY <1>1 DEF Type, task, CurrentAlive
<1>2. CASE Yield \/ Panic \/ ClearInt
  BY <1>2 DEF Yield, Panic, ClearInt, CurrentAlive
<1>3. CASE TakeIrq
  BY <1>3 DEF TakeIrq, task, CurrentAlive
<1>4. CASE ShellKey
  BY <1>4, GetIs DEF ShellKey, CurrentAlive
<1>5. CASE ShellEscape
  BY <1>5, GetIs DEF ShellEscape, CurrentAlive
<1>6. CASE ForwardKey
  BY <1>6, GetIs DEF ForwardKey, CurrentAlive
<1>7. CASE KernelExit
  BY <1>7 DEF KernelExit, CurrentAlive
<1>8. CASE Access
  <2>1. at = "out" /\ UNCHANGED <<current, alive>>
    BY <1>8 DEF Access, Load, Put, Store, AckTimer, Trap, task
  <2> QED
    BY <2>1 DEF CurrentAlive
<1> QED
  BY <1>1, <1>2, <1>3, <1>4, <1>5, <1>6, <1>7, <1>8 DEF Next, Handler

\* The lines are set when a task is entered, after its compare matches were
\* looked for, and nothing changes its devices until it traps.
LEMMA LinesTrueStep ==
  ASSUME Types, Next, LinesTrue
  PROVE  LinesTrue'
<1>1. CASE KernelExit
  <2>1. PICK t \in Task, m \in SUBSET Timers : Enter(t, m) /\ current' = t
    BY <1>1 DEF KernelExit
  <2>2. virq' = Asserted(t, dev').irq /\ vfiq' = Asserted(t, dev').fiq
    BY <2>1, EnterIs
  <2> QED
    BY <2>1, <2>2 DEF LinesTrue
<1>2. CASE Type
  BY <1>2 DEF Type, task, lines, LinesTrue
<1>3. CASE at' # "out"
  BY <1>3 DEF LinesTrue
<1>4. KernelExit \/ Type \/ at' # "out"
  BY DEF Next, Handler, Yield, Panic, TakeIrq, ShellKey, ShellEscape, ForwardKey, ClearInt,
     Access, Load, Put, Store, AckTimer, Trap
<1> QED
  BY <1>1, <1>2, <1>3, <1>4

LEMMA InvStep == IInv /\ [Next]_vars => IInv'
<1> SUFFICES ASSUME IInv, [Next]_vars PROVE IInv'
  OBVIOUS
<1> USE DEF IInv
<1>1. CASE Next
  <2>1. Types' /\ Effect
    BY <1>1, StepEffect
  <2>2. KeysInv'
    BY <2>1, KeysInvStep
  <2>3. OutputComplete'
    <3>1. \A v \in VM : (shown[v] \o dev[v].out = owed[v])'
      BY <2>1, OutputStep DEF Effect
    <3> QED
      BY <3>1 DEF OutputComplete
  <2>4. NothingWaits'
    BY <2>1, NothingWaitsStep
  <2>5. LsrPromise'
    <3>1. \A v \in VM : /\ 0 \in promised'[v] => dev'[v].in # <<>>
                        /\ 5 \in promised'[v] => ~is_full(dev'[v].out)
      BY <2>1, PromisesKept DEF Effect
    <3> QED
      BY <3>1 DEF LsrPromise, is_full
  <2>6. CurrentAlive' /\ LinesTrue'
    BY <1>1, CurrentAliveStep, LinesTrueStep
  <2> QED
    BY <2>1, <2>2, <2>3, <2>4, <2>5, <2>6
<1>2. CASE UNCHANGED vars
  BY <1>2 DEF vars, task, uart, lines, ghosts, Types, KeysInv, OutputComplete, NothingWaits,
     LsrPromise, CurrentAlive, LinesTrue, KeysWait, KeysOf, AloneFirst, Bounded
<1> QED
  BY <1>1, <1>2

-----------------------------------------------------------------------------
\* What the invariant says of the properties.

LEMMA InvTypes == IInv => TypeOK
BY DEF IInv, Types, TypeOK, Bounded

\* The UART of a VM asserts its interrupt whenever it is on (see AuxIrq), so a
\* receive interrupt that is wanted and enabled raises the line.
LEMMA KeyAsserts ==
  ASSUME NEW d \in Device, 0 \in d.enables, UartIrq \in d.irqs_1
  PROVE  is_irq_asserted(d)
<1>1. AuxIrq(d)
  <2>1. 1 \in Complement(32, Iir(d) \cap {0})
    BY DEF Complement
  <2> QED
    BY <2>1 DEF AuxIrq
<1>2. Pending2(d) = {UartIrq}
  BY <1>1 DEF Pending2, Bit
<1>3. 9 \in BasicPending(d)
  BY <1>2 DEF BasicPending, Bit
<1> QED
  BY <1>3 DEF is_irq_asserted, handle_intctrl_read

LEMMA InvInterrupts == IInv => InterruptsTrue
<1> SUFFICES ASSUME IInv PROVE InterruptsTrue
  OBVIOUS
<1>1. LinesTrue
  BY DEF IInv
<1>2. ASSUME at = "out", current # HV, 0 \in dev[current].enables, UartIrq \in dev[current].irqs_1
      PROVE  virq
  <2>1. dev[current] \in Device
    BY <1>2, Constants DEF IInv, Types
  <2>2. is_irq_asserted(dev[current])
    BY <1>2, <2>1, KeyAsserts
  <2>3. virq = Asserted(current, dev).irq
    BY <1>1, <1>2 DEF LinesTrue
  <2>4. Asserted(current, dev).irq
    BY <1>2, <2>2, Zenon DEF Asserted
  <2> QED
    BY <2>3, <2>4
<1>3. KeyInterrupts
  BY <1>2 DEF KeyInterrupts
<1> QED
  BY <1>1, <1>3 DEF InterruptsTrue

LEMMA InvKeys == IInv => KeysStayPut
<1> SUFFICES ASSUME IInv, NEW v \in VM, NEW i \in 1 .. Len(dev[v].in)
    PROVE  /\ home[Id(dev[v].in[i])] = v
           /\ Id(dev[v].in[i]) > IF i = 1 THEN last[v] ELSE Id(dev[v].in[i - 1])
  BY DEF KeysStayPut
<1>1. KeysOf(v) /\ Len(dev[v].in) \in Nat
  BY LenProperties DEF IInv, KeysInv, Types, Device
<1>2. Id(dev[v].in[i]) \in 1 .. ops /\ last[v] \in 0 .. ops /\ ops \in Nat
      /\ home[Id(dev[v].in[i])] = v /\ last[v] < Id(dev[v].in[i])
  BY <1>1, Constants DEF KeysOf, IInv, Types
<1>3. ASSUME i # 1 PROVE Id(dev[v].in[i - 1]) < Id(dev[v].in[i]) /\ Id(dev[v].in[i - 1]) \in 1 .. ops
  <2>1. i - 1 \in 1 .. Len(dev[v].in) /\ i - 1 < i
    BY <1>1, <1>3
  <2> QED
    BY <1>1, <2>1 DEF KeysOf
<1> QED
  BY <1>2, <1>3

LEMMA InvOutput == IInv => OutputKept
BY DEF IInv, OutputKept, ShownAtOnce, NothingWaits

-----------------------------------------------------------------------------
\* What no step does.

LEMMA PatientStep ==
  IInv /\ [Next]_vars => (at \notin {"irq", "esc2", "esc1"} => Alone(rx) \subseteq Alone(rx'))
<1> SUFFICES ASSUME IInv, [Next]_vars, at \notin {"irq", "esc2", "esc1"},
                    NEW i \in 1 .. Len(rx), rx[i].alone
             PROVE  \E k \in 1 .. Len(rx') : rx'[k].alone /\ rx'[k].id = rx[i].id
  BY DEF Alone
<1>1. CASE UNCHANGED vars
  BY <1>1 DEF vars
<1>2. CASE Next
  <2>1. Types /\ AloneFirst
    BY DEF IInv, KeysInv
  <2>2. RxStep
    BY <1>2, <2>1, StepEffect DEF Effect
  <2>3. CASE rx' = rx
    BY <2>3
  <2>4. CASE RxTyped /\ rx' # rx
    <3>1. PICK c \in Keys : rx' = Append(rx, Key(c))
      BY <2>4 DEF RxTyped
    <3>2. ops + 1 \in 1 .. MAX_OPS
      BY <1>2, <2>1, <2>4, StepEffect DEF RxTyped, Types
    <3>3. Key(c) \in KeyRecord /\ rx \in Seq(KeyRecord)
      BY <2>1, <3>2 DEF Key, KeyRecord, Types
    <3>4. rx'[i] = rx[i] /\ i \in 1 .. Len(rx')
      BY <3>1, <3>3, AppendIs
    <3> QED
      BY <3>4
  <2>5. at # "clear"
    BY <2>1 DEF AloneFirst
  <2> QED
    BY <2>2, <2>3, <2>4, <2>5 DEF RxStep, RxKept, RxTaken, RxLost
<1> QED
  BY <1>1, <1>2

LEMMA TerminalStep ==
  IInv /\ [Next]_vars => \A v \in VM : shown'[v] # shown[v] => v = uart_forwarded_task'
<1> SUFFICES ASSUME IInv, [Next]_vars, NEW v \in VM, shown'[v] # shown[v]
             PROVE  v = uart_forwarded_task'
  OBVIOUS
<1>1. Next
  BY DEF vars
<1>2. OutStep(v)
  BY <1>1, StepEffect DEF IInv, Effect
<1> QED
  BY <1>2 DEF OutStep, Prints

\* The VM that runs left nothing to print behind, so leaving it changes nothing of
\* its devices.
LEMMA PendingStep ==
  IInv /\ [Next]_vars => (Trap /\ Load("IRQ_BASIC_PENDING") => (loaded' # {} <=> virq))
<1> SUFFICES ASSUME IInv, Trap, Load("IRQ_BASIC_PENDING")
             PROVE  loaded' # {} <=> virq
  OBVIOUS
<1>1. at = "out" /\ current \in VM /\ current # HV /\ loaded' = MmioValue(Mine, "IRQ_BASIC_PENDING")
  BY Constants DEF IInv, Types, Trap, Load
<1>2. virq = Asserted(current, dev).irq
  BY <1>1 DEF IInv, LinesTrue
<1>3. Asserted(current, dev).irq <=> is_irq_asserted(dev[current])
  BY <1>1, Zenon DEF Asserted
<1>4. Mine = dev[current]
  <2>1. CASE current = uart_forwarded_task
    <3>1. dev[current].out = <<>> /\ dev[current] \in Device /\ dev \in [VM -> Device]
      BY <1>1, <2>1 DEF IInv, NothingWaits, CurrentAlive, Types
    <3>2. SubSeq(<<>>, Len(<<>>) + 1, Len(<<>>)) = <<>>
      BY EmptySeq, SubSeqEmpty
    <3>3. Flushed(current, dev) = [dev EXCEPT ![current] = [dev[current] EXCEPT !.out = <<>>]]
      BY <1>1, <3>1, <3>2 DEF Flushed, Printed
    <3>4. [dev[current] EXCEPT !.out = <<>>] = dev[current]
      BY <3>1 DEF Device
    <3> QED
      BY <1>1, <2>1, <3>1, <3>3, <3>4 DEF Mine, Left, is_uart_forwarded_task
  <2>2. CASE current # uart_forwarded_task
    BY <2>2 DEF Mine, Left, is_uart_forwarded_task
  <2> QED
    BY <2>1, <2>2
<1>5. MmioValue(dev[current], "IRQ_BASIC_PENDING") # {} <=> is_irq_asserted(dev[current])
  BY DEF MmioValue, Intctrl, is_irq_asserted
<1>6. virq \in BOOLEAN
  BY DEF IInv, Types
<1> QED
  BY <1>1, <1>2, <1>3, <1>4, <1>5, <1>6

LEMMA Always == Spec => []IInv
BY InitInv, InvStep, PTL DEF Spec

(***************************************************************************)
(* Neither the receive FIFO nor a console buffer ever holds more than it   *)
(* can, and what the line status register told a VM stays true until the   *)
(* VM uses it up: after "data ready" a read finds a key, after             *)
(* "transmitter empty" a write is not dropped (bcm2837.c over fifo.c).     *)
(***************************************************************************)
THEOREM BuffersCorrect == Spec => []BuffersTrue
<1>1. IInv => BuffersTrue
  BY InvTypes DEF BuffersTrue, IInv
<1> QED
  BY <1>1, Always, PTL

(***************************************************************************)
(* The virtual interrupt lines of the VM that runs are those its devices   *)
(* ask for, and a key that waits behind an enabled receive interrupt has   *)
(* raised one (set_cpu_virtual_interrupt() in sched.c).                    *)
(***************************************************************************)
THEOREM LinesCorrect == Spec => []InterruptsTrue
BY InvInterrupts, Always, PTL

(***************************************************************************)
(* The keys a VM gets were typed at its console and come in the order they *)
(* were typed, whatever switches of the console fall between               *)
(* (handle_uart_irq() in mini_uart.c).                                     *)
(***************************************************************************)
THEOREM KeysCorrect == Spec => []KeysStayPut
BY InvKeys, Always, PTL

(***************************************************************************)
(* What a VM wrote is on the terminal or in its buffer, once and in order, *)
(* and the VM whose console is shown has nothing waiting while a task runs *)
(* (flush_task_console() and its callers).                                 *)
(***************************************************************************)
THEOREM OutputCorrect == Spec => []OutputKept
BY InvOutput, Always, PTL

(***************************************************************************)
(* No step loses a key that came when none waited and no handler ran, or   *)
(* prints what a VM wrote whose console is not shown; and a VM that reads  *)
(* its pending register finds a source exactly when its line was up.       *)
(***************************************************************************)
THEOREM StepsCorrect == Spec => NoStepStrays
<1>1. Spec => PatientKeyServed
  BY PatientStep, Always, PTL DEF Spec, PatientKeyServed
<1>2. Spec => TerminalOwn
  BY TerminalStep, Always, PTL DEF Spec, TerminalOwn
<1>3. Spec => PendingExplainsLine
  BY PendingStep, Always, PTL DEF Spec, PendingExplainsLine
<1> QED
  BY <1>1, <1>2, <1>3 DEF NoStepStrays
===============================================================================
