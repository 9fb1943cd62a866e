------------------------------- MODULE Devices -------------------------------
(***************************************************************************)
(* The interrupt controller and the mini-UART that emulator/raspi/         *)
(* bcm2837.c gives to each VM, as operators on the record of one VM's      *)
(* registers and console buffers.  A register, and a value read from or    *)
(* written to one, is the set of its bits that are 1.  Addresses have the  *)
(* names of the source.  The system timer is in SysTimer.tla; of it there  *)
(* is only `cs`, the compare matches, which the pending registers look at. *)
(*                                                                         *)
(* The console buffers are sequences (Fifo, which implements BoundedQueue, *)
(* is their code) of at most FIFO_ROOM characters.                         *)
(***************************************************************************)
EXTENDS Naturals, Sequences, FiniteSets, FiniteSetsExt

CONSTANTS
  FIFO_ROOM,    \* characters a console buffer holds (FIFO_SIZE)
  Garbage       \* what a variable nobody wrote may hold

ASSUME DevicesAssumption == FIFO_ROOM \in Nat \ {0}

Bit(n, on) == IF on THEN {n} ELSE {}
Trunc(width, val) == val \cap 0 .. width - 1       \* a store to a narrow field
Complement(width, val) == (0 .. width - 1) \ val   \* ~val
AsNumber(val) == MapThenSumSet(LAMBDA b : 2 ^ b, val)

\* One VM's devices: struct bcm2837_state without the timer, and the console.
initial_state ==
  [fiq_control |-> {}, irqs_1 |-> {}, irqs_2 |-> {}, basic |-> {},
   enables |-> {}, ier |-> {}, lcr |-> {}, mcr |-> {}, msr |-> {4},
   scratch |-> {}, cntl |-> {0, 1}, baud |-> {}, overrun |-> FALSE,
   cs |-> {}, in |-> <<>>, out |-> <<>>]

-----------------------------------------------------------------------------
\* The console buffers

\* Mutant: a full buffer takes one more.
enqueue_always(q, ch) == IF Len(q) <= FIFO_ROOM THEN Append(q, ch) ELSE q
enqueue(q, ch) == IF Len(q) < FIFO_ROOM THEN Append(q, ch) ELSE q
is_full(q) == Len(q) = FIFO_ROOM

is_empty(q) == q = <<>>

-----------------------------------------------------------------------------
\* The mini-UART

LCR_DLAB == 7
AuxMu ==
  {"AUX_MU_IO_REG", "AUX_MU_IER_REG", "AUX_MU_IIR_REG", "AUX_MU_LCR_REG",
   "AUX_MU_MCR_REG", "AUX_MU_LSR_REG", "AUX_MU_MSR_REG", "AUX_MU_SCRATCH",
   "AUX_MU_CNTL_REG", "AUX_MU_STAT_REG", "AUX_MU_BAUD_REG"}
Aux == AuxMu \cup {"AUX_IRQ", "AUX_ENABLES"}

Disabled(d, addr) == 0 \notin d.enables /\ addr \in AuxMu
Dlab(d) == LCR_DLAB \in d.lcr

TxInt(d) == 1 \in d.ier /\ is_empty(d.out)
RxInt(d) == 0 \in d.ier /\ ~is_empty(d.in)

\* AUX_MU_IIR_REG: bit 0 is "nothing pending"; transmit (1) wins over
\* receive (2).
Iir(d) ==
  {6, 7} \cup (IF TxInt(d) THEN {1} ELSE IF RxInt(d) THEN {2} ELSE {0})

\* The read of AUX_MU_IIR_REG is 0 when the UART is off.  The complement of its
\* bit 0 is taken of the whole word, so it is never zero.
AuxIrq(d) ==
  0 \in d.enables /\ Complement(32, Iir(d) \cap {0}) # {}

Level(q, at) == {at + b : b \in {n \in 0 .. 3 :
                   (Min({Len(q), 8}) \div 2 ^ n) % 2 = 1}}

Stat(d) ==
  Bit(0, ~is_empty(d.in)) \cup Bit(1, ~is_full(d.out)) \cup Bit(2, is_empty(d.in))
    \cup Bit(3, ~is_empty(d.out)) \cup Bit(4, d.overrun)
    \cup Bit(5, is_full(d.out)) \cup Bit(8, is_empty(d.out))
    \cup Bit(9, is_empty(d.in) /\ is_empty(d.out))
    \cup Level(d.in, 16) \cup Level(d.out, 24)

\* Mutant: room is reported when the buffer has none.
Lsr_room(d) ==
  Bit(0, ~is_empty(d.in)) \cup Bit(1, d.overrun)
    \cup Bit(5, is_full(d.out) \/ is_empty(d.out)) \cup Bit(6, is_empty(d.out))
Lsr(d) ==
  Bit(0, ~is_empty(d.in)) \cup Bit(1, d.overrun)
    \cup Bit(5, ~is_full(d.out)) \cup Bit(6, is_empty(d.out))

\* The value of a read, and the devices after it.
AuxValue(d, addr) ==
  IF Disabled(d, addr) THEN {} ELSE
  CASE addr = "AUX_IRQ"           -> Bit(0, AuxIrq(d))
    [] addr = "AUX_ENABLES"       -> d.enables
    [] addr = "AUX_MU_IO_REG"     -> IF Dlab(d) THEN Trunc(8, d.baud)
                                     ELSE IF is_empty(d.in) THEN Garbage
                                     ELSE Head(d.in)
    [] addr = "AUX_MU_IER_REG"    -> IF Dlab(d) THEN {b \in 0 .. 7 : b + 8 \in d.baud}
                                     ELSE d.ier
    [] addr = "AUX_MU_IIR_REG"    -> Iir(d)
    [] addr = "AUX_MU_LCR_REG"    -> d.lcr
    [] addr = "AUX_MU_MCR_REG"    -> d.mcr
    [] addr = "AUX_MU_LSR_REG"    -> Lsr(d)
    [] addr = "AUX_MU_MSR_REG"    -> d.msr
    [] addr = "AUX_MU_SCRATCH"    -> d.scratch
    [] addr = "AUX_MU_CNTL_REG"   -> d.cntl
    [] addr = "AUX_MU_STAT_REG"   -> Stat(d)
    [] addr = "AUX_MU_BAUD_REG"   -> d.baud

AfterAuxRead(d, addr) ==
  IF Disabled(d, addr) THEN d ELSE
  CASE addr = "AUX_MU_LSR_REG"               -> [d EXCEPT !.overrun = FALSE]
    [] addr = "AUX_MU_IO_REG" /\ Dlab(d)     -> [d EXCEPT !.lcr = @ \ {LCR_DLAB}]
    [] addr = "AUX_MU_IO_REG" /\ ~Dlab(d) /\ ~is_empty(d.in)
                                             -> [d EXCEPT !.in = Tail(@)]
    [] OTHER                                 -> d

handle_aux_write(d, addr, val) ==
  IF Disabled(d, addr) THEN d ELSE
  CASE addr = "AUX_ENABLES" -> [d EXCEPT !.enables = Trunc(8, val)]
    [] addr = "AUX_MU_IO_REG" ->
         IF Dlab(d)
           THEN [d EXCEPT !.lcr = @ \ {LCR_DLAB},
                          !.baud = (@ \ 0 .. 7) \cup Trunc(8, val)]
           ELSE [d EXCEPT !.out = enqueue(@, Trunc(8, val))]
    [] addr = "AUX_MU_IER_REG" ->
         IF Dlab(d)
           THEN [d EXCEPT !.baud = Trunc(8, @) \cup {b + 8 : b \in Trunc(8, val)}]
           ELSE [d EXCEPT !.ier = Trunc(8, val)]
    [] addr = "AUX_MU_IIR_REG" ->
         [d EXCEPT !.in = IF 1 \in val THEN <<>> ELSE @,
                   !.out = IF 2 \in val THEN <<>> ELSE @]
    [] addr = "AUX_MU_LCR_REG" -> [d EXCEPT !.lcr = Trunc(8, val)]
    [] addr = "AUX_MU_MCR_REG" -> [d EXCEPT !.mcr = Trunc(8, val)]
    [] addr = "AUX_MU_SCRATCH" -> [d EXCEPT !.scratch = Trunc(8, val)]
    [] addr = "AUX_MU_CNTL_REG" -> [d EXCEPT !.cntl = Trunc(8, val)]
    [] addr = "AUX_MU_BAUD_REG" -> [d EXCEPT !.baud = Trunc(16, val)]
    [] OTHER -> d

-----------------------------------------------------------------------------
\* The interrupt controller

UartIrq == 57 - 32

Pending1(d) == d.cs \cap d.irqs_1 \cap {1, 3}
\* Mutant: the source is looked up in the second word, where it belongs.
Pending2_second(d) == Bit(UartIrq, UartIrq \in d.irqs_2 /\ AuxIrq(d))
\* The UART's source 57 is bit 25 of the second word, enabled by bit 25 of the
\* first.
Pending2(d) == Bit(UartIrq, UartIrq \in d.irqs_1 /\ AuxIrq(d))
BasicPending(d) == Bit(8, Pending1(d) # {}) \cup Bit(9, Pending2(d) # {})

Intctrl ==
  {"IRQ_BASIC_PENDING", "IRQ_PENDING_1", "IRQ_PENDING_2", "FIQ_CONTROL",
   "ENABLE_IRQS_1", "ENABLE_IRQS_2", "ENABLE_BASIC_IRQS",
   "DISABLE_IRQS_1", "DISABLE_IRQS_2", "DISABLE_BASIC_IRQS"}

handle_intctrl_read(d, addr) ==
  CASE addr = "IRQ_BASIC_PENDING"  -> BasicPending(d)
    [] addr = "IRQ_PENDING_1"      -> Pending1(d)
    [] addr = "IRQ_PENDING_2"      -> Pending2(d)
    [] addr = "FIQ_CONTROL"        -> d.fiq_control
    [] addr = "ENABLE_IRQS_1"      -> d.irqs_1
    [] addr = "ENABLE_IRQS_2"      -> d.irqs_2
    [] addr = "ENABLE_BASIC_IRQS"  -> d.basic
    [] addr = "DISABLE_IRQS_1"     -> Complement(32, d.irqs_1)
    [] addr = "DISABLE_IRQS_2"     -> Complement(32, d.irqs_2)
    [] addr = "DISABLE_BASIC_IRQS" -> Complement(64, d.basic)

handle_intctrl_write(d, addr, val) ==
  CASE addr = "FIQ_CONTROL"        -> [d EXCEPT !.fiq_control = Trunc(8, val)]
    [] addr = "ENABLE_IRQS_1"      -> [d EXCEPT !.irqs_1 = @ \cup Trunc(32, val)]
    [] addr = "ENABLE_IRQS_2"      -> [d EXCEPT !.irqs_2 = @ \cup Trunc(32, val)]
    [] addr = "ENABLE_BASIC_IRQS"  -> [d EXCEPT !.basic = @ \cup Trunc(8, val)]
    [] addr = "DISABLE_IRQS_1"     -> [d EXCEPT !.irqs_1 = @ \ val]
    [] addr = "DISABLE_IRQS_2"     -> [d EXCEPT !.irqs_2 = @ \ val]
    [] addr = "DISABLE_BASIC_IRQS" -> [d EXCEPT !.basic = @ \ val]
    [] OTHER                       -> d

is_irq_asserted(d) == handle_intctrl_read(d, "IRQ_BASIC_PENDING") # {}

\* The source that was made the FIQ: the first word, the second, or the basic
\* word, of which only bits 8 and 9 are ever set and 0 to 7 can be selected.
FiqPending(d, source) ==
  \/ source \in 0 .. 31  /\ source \in Pending1(d)
  \/ source \in 32 .. 63 /\ source - 32 \in Pending2(d)
  \/ source \in 64 .. 71 /\ source - 64 \in BasicPending(d)
is_fiq_asserted(d) ==
  7 \in d.fiq_control /\ FiqPending(d, AsNumber(d.fiq_control \ {7}))

-----------------------------------------------------------------------------
\* bcm2837_mmio_read() and bcm2837_mmio_write(), the timer and the mailbox
\* excepted.  GPFSEL1 reads as "UART on pins 14 and 15".

handle_gpio_read(addr) == IF addr = "GPFSEL1" THEN {13, 16} ELSE {}

MmioValue(d, addr) ==
  IF addr \in Intctrl THEN handle_intctrl_read(d, addr)
  ELSE IF addr \in Aux THEN AuxValue(d, addr) ELSE handle_gpio_read(addr)
AfterMmioRead(d, addr) == IF addr \in Aux THEN AfterAuxRead(d, addr) ELSE d
AfterMmioWrite(d, addr, val) ==
  IF addr \in Intctrl THEN handle_intctrl_write(d, addr, val)
  ELSE IF addr \in Aux THEN handle_aux_write(d, addr, val) ELSE d
==============================================================================
