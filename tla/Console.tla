------------------------------- MODULE Console -------------------------------
(***************************************************************************)
(* The console shared by the hypervisor's shell and the VMs: the keys the  *)
(* user types go through the mini-UART's receive FIFO and                  *)
(* handle_uart_irq() (mini_uart.c) to the shell or to the input buffer of  *)
(* the VM whose console is shown; what a VM writes to its emulated UART    *)
(* (Devices) waits in its output buffer until vm_entering_work(),          *)
(* vm_leaving_work() (sched.c) or a switch of the console prints it; and   *)
(* the interrupt lines of a VM are set when it is entered.                 *)
(*                                                                         *)
(* EL2 runs with interrupts masked, so a trap of a VM up to the choice of  *)
(* the task to go on with is one step; the handler of the UART interrupt   *)
(* is several, because keys arrive while it runs.  Which task goes on is   *)
(* Sched's subject: here it is any runnable one.  An interrupt handler     *)
(* whose stack was switched away in between is Sched's subject as well.    *)
(***************************************************************************)
EXTENDS Devices

CONSTANTS
  LAST,         \* the last task: 0 is the hypervisor, 1 to LAST are VMs
  Mortal,       \* the VMs that may end
  Keys,         \* what the user may type
  Loads,        \* the addresses VM 1 reads
  Stores,       \* the <<address, value>> pairs VM 1 writes
  Timers,       \* compare matches of the system timer that may come
  RX_SIZE,      \* characters the receive FIFO holds (8)
  MAX_OPS       \* bound on keys, writes and timer matches

HV == 0
Task == 0 .. LAST
VM == 1 .. LAST
DigitKeys == <<"0", "1", "2", "3", "4", "5", "6", "7", "8", "9">>
Digits == {DigitKeys[i] : i \in 1 .. 10}
Digit == [k \in Digits |-> CHOOSE n \in 0 .. 9 : DigitKeys[n + 1] = k]

ASSUME ConsoleAssumption ==
  /\ LAST \in Nat \ {0} /\ Mortal \subseteq VM /\ RX_SIZE \in Nat \ {0}
  /\ Keys \subseteq Digits \cup {"@", "l", "text", "enter", "esc"}
  \* The characters are written by Put.
  /\ Timers \subseteq Nat /\ \A s \in Stores : s[1] # "AUX_MU_IO_REG"
  \* A character is a set of bits of a byte.
  /\ MAX_OPS \in 0 .. 7

VARIABLES
  current, alive,               \* the task on the CPU; the tasks that run
  at,                           \* where the CPU is, see At
  uart_forwarded_task, is_escaped,
  rx,                           \* the receive FIFO of the board's mini-UART
  dev,                          \* the devices of each VM
  virq, vfiq,                   \* the virtual interrupt lines of the CPU
  loaded,                       \* what the load being emulated returns
  ops, home,                    \* operations so far; the console a key was typed at
  last,                         \* the last key a VM got
  shown, owed,                  \* characters of a VM on the terminal; that should be
  promised                      \* what a VM knows from reading AUX_MU_LSR_REG

At ==
  {"out",           \* outside EL2, or in the hypervisor's main loop
   "irq",           \* in handle_uart_irq(), before it reads a key
   "esc2", "esc1",  \* in the shell, waiting for two more keys or one
   "clear",         \* at clear_int
   "exit",          \* handler done, current goes on
   "sched"}         \* handler done, any task may go on

task == <<current, alive>>
uart == <<uart_forwarded_task, is_escaped>>
lines == <<virq, vfiq>>
ghosts == <<home, last, owed, promised>>
vars == <<task, at, uart, rx, dev, lines, loaded, ops, shown, ghosts>>

\* A character stands for the operation that made it.
Char(id) == {id}
Id(char) == CHOOSE n \in char : TRUE

-----------------------------------------------------------------------------
\* task.c and sched.c

\* Mutant: one character is printed at a time.
Printed_one(t, d) == IF t = HV THEN <<>> ELSE SubSeq(d[t].out, 1, Min({1, Len(d[t].out)}))
\* flush_task_console(t) on devices d: what it prints, what it leaves behind, and
\* what is on the terminal then.  Task 0 never has output in its buffer.
Printed(t, d) == IF t = HV THEN <<>> ELSE d[t].out

Flushed(t, d) ==
  IF t = HV THEN d
  ELSE [d EXCEPT ![t].out = SubSeq(@, Len(Printed(t, d)) + 1, Len(@))]
Terminal(t, d) ==
  IF t = HV THEN shown ELSE [shown EXCEPT ![t] = @ \o Printed(t, d)]

\* Mutant: the console need not be shown.
IsShown_any(t) == t \in Task
is_uart_forwarded_task(t) == t = uart_forwarded_task
FlushIfShown(t, d) ==
  IF is_uart_forwarded_task(t) THEN dev' = Flushed(t, d) /\ shown' = Terminal(t, d)
                               ELSE dev' = d /\ UNCHANGED shown

\* set_cpu_virtual_interrupt(); task 0 has no devices.
Asserted(t, d) == [irq |-> t # HV /\ is_irq_asserted(d[t]),
                   fiq |-> t # HV /\ is_fiq_asserted(d[t])]
set_cpu_virtual_interrupt(t, d) ==
  virq' = Asserted(t, d).irq /\ vfiq' = Asserted(t, d).fiq

\* The compare matches bcm2837_entering_vm() finds.
Matched(t, d, m) == IF t = HV THEN d ELSE [d EXCEPT ![t].cs = @ \cup m]

\* Mutant: the lines are set before the timers are looked at.
Enter_linesFirst(t, m) ==
  /\ FlushIfShown(t, Matched(t, dev, m))
  /\ set_cpu_virtual_interrupt(t, dev)
\* vm_entering_work()
Enter(t, m) ==
  /\ FlushIfShown(t, Matched(t, dev, m))
  /\ set_cpu_virtual_interrupt(t, dev')

\* Mutant: leaving a VM looks at the timers too.
Left_matches ==
  Matched(current,
          IF is_uart_forwarded_task(current) THEN Flushed(current, dev) ELSE dev, Timers)
\* vm_leaving_work(): the devices it leaves, which the handler goes on with.
Left == IF is_uart_forwarded_task(current) THEN Flushed(current, dev) ELSE dev
Leave(d) ==
  /\ dev' = d
  /\ shown' = IF is_uart_forwarded_task(current) THEN Terminal(current, dev) ELSE shown

\* kernel_exit, after a schedule() or not.
KernelExit ==
  /\ at \in {"exit", "sched"} /\ at' = "out"
  /\ \E t \in Task, m \in SUBSET Timers :
       /\ IF at = "exit" THEN t = current ELSE t \in alive
       /\ m # {} => ops < MAX_OPS
       /\ Enter(t, m)
       /\ current' = t
       /\ ops' = IF m = {} THEN ops ELSE ops + 1
  /\ loaded' = {}
  /\ UNCHANGED <<alive, uart, rx, ghosts>>

\* A trap, or the timer interrupt, that changes no device.
Yield ==
  /\ at = "out" /\ at' = "sched"
  /\ Leave(Left)
  /\ UNCHANGED <<task, uart, rx, lines, loaded, ops, ghosts>>

\* PANIC() ends the VM that was interrupted.
Panic ==
  /\ at = "out" /\ current \in Mortal /\ at' = "sched"
  /\ Leave(Left)
  /\ alive' = alive \ {current}
  /\ UNCHANGED <<current, uart, rx, lines, loaded, ops, ghosts>>

-----------------------------------------------------------------------------
\* The keyboard and mini_uart.c

Key(k) == [id |-> ops + 1, key |-> k, alone |-> rx = <<>> /\ at = "out"]

\* The user types; a full FIFO drops the key.
Type ==
  /\ ops < MAX_OPS /\ ops' = ops + 1
  /\ \E k \in Keys :
       rx' = IF Len(rx) < RX_SIZE THEN Append(rx, Key(k)) ELSE rx
  /\ home' = [home EXCEPT ![ops + 1] = uart_forwarded_task]
  /\ UNCHANGED <<task, at, uart, dev, lines, loaded, shown, last, owed, promised>>

\* Mutant: the interrupt is cleared when the handler starts.
TakeIrq_cleared ==
  /\ at = "out" /\ rx # <<>> /\ at' = "irq"
  /\ Leave(Left) /\ rx' = <<>>
  /\ UNCHANGED <<task, uart, lines, loaded, ops, ghosts>>
TakeIrq ==
  /\ at = "out" /\ rx # <<>> /\ at' = "irq"
  /\ Leave(Left)
  /\ UNCHANGED <<task, uart, rx, lines, loaded, ops, ghosts>>

Received == Head(rx).key
Get == rx # <<>> /\ rx' = Tail(rx) /\ UNCHANGED <<task, lines, loaded, ops, ghosts>>

\* Mutant: the new console's buffer is emptied without printing it.
SwitchTo_silent(t) ==
  uart_forwarded_task' = t /\ dev' = Flushed(t, dev) /\ UNCHANGED shown
\* The console is given to t and what t wrote is printed.
SwitchTo(t) ==
  uart_forwarded_task' = t /\ dev' = Flushed(t, dev) /\ shown' = Terminal(t, dev)

\* shell_kick(): one key.  ESC takes two more.  Enter, or whatever key finds the
\* line full, runs the line, which may be "vmc t": that prints what is left of a VM
\* that ended, too.
ShellKey ==
  /\ at = "irq" /\ uart_forwarded_task = HV /\ Get
  /\ UNCHANGED is_escaped
  /\ \/ /\ at' = IF Received = "esc" THEN "esc2" ELSE "clear"
        /\ UNCHANGED <<uart_forwarded_task, dev, shown>>
     \/ at' = "clear" /\ \E t \in VM : SwitchTo(t)
     \/ at' = "clear" /\ UNCHANGED <<uart_forwarded_task, dev, shown>>

ShellEscape ==
  /\ at \in {"esc2", "esc1"} /\ Get
  /\ at' = IF at = "esc2" THEN "esc1" ELSE "clear"
  /\ UNCHANGED <<uart, dev, shown>>

EnqueueChar ==
  IF uart_forwarded_task \in alive
    THEN dev' = [dev EXCEPT ![uart_forwarded_task].in = enqueue(@, Char(Head(rx).id))]
    ELSE UNCHANGED dev

\* After the escape character: a digit switches the console, if there is such a
\* task, and prints its output if it runs; the character again is a character.
Escaped ==
  /\ is_escaped' = FALSE
  /\ \/ /\ Received \in Digits /\ Digit[Received] <= LAST
        /\ IF Digit[Received] \in alive
             THEN SwitchTo(Digit[Received])
             ELSE uart_forwarded_task' = Digit[Received] /\ UNCHANGED <<dev, shown>>
     \/ /\ Received = "@"
        /\ EnqueueChar /\ UNCHANGED <<uart_forwarded_task, shown>>
     \/ /\ Received # "@" /\ (Received \in Digits => Digit[Received] > LAST)
        /\ UNCHANGED <<uart_forwarded_task, dev, shown>>

NotEscaped ==
  /\ is_escaped' = (Received = "@")
  /\ IF Received = "@" THEN UNCHANGED dev ELSE EnqueueChar
  /\ UNCHANGED <<uart_forwarded_task, shown>>

\* handle_uart_irq() when a VM's console is shown.
ForwardKey ==
  /\ at = "irq" /\ uart_forwarded_task # HV /\ Get
  /\ at' = "clear"
  /\ IF is_escaped THEN Escaped ELSE NotEscaped

\* Mutant: the keys that came since stay in the FIFO.
ClearInt_keeps ==
  /\ at = "clear" /\ at' = "sched"
  /\ UNCHANGED <<rx, task, uart, dev, lines, loaded, ops, shown, ghosts>>
\* clear_int: the write to AUX_MU_IIR_REG empties the receive FIFO.
ClearInt ==
  /\ at = "clear" /\ at' = "sched"
  /\ rx' = <<>>
  /\ UNCHANGED <<task, uart, dev, lines, loaded, ops, shown, ghosts>>

-----------------------------------------------------------------------------
\* Accesses of the VMs to their devices.  The VM that reads a register and then
\* acts on it is any program, so every access may follow every other one.

Trap == at = "out" /\ current # HV /\ at' = "exit"
Mine == Left[current]

Load(addr) ==
  /\ Trap
  /\ loaded' = MmioValue(Mine, addr)
  /\ Leave([Left EXCEPT ![current] = AfterMmioRead(@, addr)])
  /\ last' = IF addr = "AUX_MU_IO_REG" /\ AfterMmioRead(Mine, addr).in # Mine.in
               THEN [last EXCEPT ![current] = Id(loaded')] ELSE last
  /\ promised' = [promised EXCEPT ![current] =
       IF addr = "AUX_MU_LSR_REG" THEN loaded' \cap {0, 5}
       ELSE IF addr = "AUX_MU_IO_REG" THEN @ \ {0} ELSE @]
  /\ UNCHANGED <<task, uart, rx, lines, ops, home, owed>>

\* A VM writes the next character.
Put ==
  /\ Trap /\ ops < MAX_OPS /\ ops' = ops + 1
  /\ Leave([Left EXCEPT ![current] = AfterMmioWrite(@, "AUX_MU_IO_REG", Char(ops + 1))])
  /\ owed' = [owed EXCEPT ![current] =
       IF AfterMmioWrite(Mine, "AUX_MU_IO_REG", Char(ops + 1)).out # Mine.out
         THEN Append(@, Char(ops + 1)) ELSE @]
  /\ promised' = [promised EXCEPT ![current] = @ \ {5}]
  /\ UNCHANGED <<task, uart, rx, lines, loaded, home, last>>

\* Clearing the transmit FIFO takes back what is not printed yet.
Store(addr, val) ==
  /\ Trap /\ ops < MAX_OPS /\ ops' = ops + 1
  /\ Leave([Left EXCEPT ![current] = AfterMmioWrite(@, addr, val)])
  /\ owed' = [owed EXCEPT ![current] =
       IF AfterMmioWrite(Mine, addr, val).out # Mine.out THEN shown'[current] ELSE @]
  /\ promised' = [promised EXCEPT ![current] =
       IF AfterMmioWrite(Mine, addr, val).in # Mine.in THEN @ \ {0} ELSE @]
  /\ UNCHANGED <<task, uart, rx, lines, loaded, home, last>>

\* A write to TIMER_CS (see SysTimer) takes matches back.
AckTimer ==
  /\ Trap
  /\ Leave([Left EXCEPT ![current].cs = {}])
  /\ UNCHANGED <<task, uart, rx, lines, loaded, ops, ghosts>>
-----------------------------------------------------------------------------
Init ==
  /\ current = HV /\ alive = Task /\ at = "out"
  /\ uart_forwarded_task = HV /\ is_escaped = FALSE
  /\ rx = <<>>
  /\ dev = [v \in VM |-> initial_state]
  /\ virq = FALSE /\ vfiq = FALSE /\ loaded = {}
  /\ ops = 0 /\ home = [n \in 1 .. MAX_OPS |-> HV]
  /\ last = [v \in VM |-> 0]
  /\ shown = [v \in VM |-> <<>>] /\ owed = [v \in VM |-> <<>>]
  /\ promised = [v \in VM |-> {}]

Handler == TakeIrq \/ ShellKey \/ ShellEscape \/ ForwardKey \/ ClearInt \/ KernelExit

\* VM 1 drives its devices in any way it can; the others use the UART.
Access ==
  \/ \E addr \in Loads :
       (current = 1 \/ addr = "AUX_MU_IO_REG") /\ Load(addr)
  \/ Put \/ AckTimer
  \/ \E s \in Stores :
       (current = 1 \/ s[1] = "AUX_ENABLES") /\ Store(s[1], s[2])

Next == Type \/ Handler \/ Yield \/ Panic \/ Access

Spec == Init /\ [][Next]_vars

-----------------------------------------------------------------------------
\* Types; neither the receive FIFO nor a console buffer ever holds more than it
\* can.
TypeOK ==
  /\ current \in Task /\ alive \subseteq Task /\ HV \in alive /\ at \in At
  /\ uart_forwarded_task \in Task /\ is_escaped \in BOOLEAN
  /\ Len(rx) <= RX_SIZE
  /\ \A v \in VM : Len(dev[v].in) <= FIFO_ROOM /\ Len(dev[v].out) <= FIFO_ROOM
  /\ virq \in BOOLEAN /\ vfiq \in BOOLEAN
  /\ \A v \in VM : promised[v] \subseteq {0, 5}

\* While a VM runs, its interrupt lines say what its interrupt controller would
\* say now, although they were set when it was entered (sched.c:130): nothing
\* changes its devices behind its back.  The hypervisor's task has none.
LinesTrue ==
  at = "out" =>
    /\ virq = Asserted(current, dev).irq
    /\ vfiq = Asserted(current, dev).fiq

\* A VM with a key in its input buffer that has turned the receive interrupt on,
\* in its UART and in its interrupt controller, runs with an interrupt pending.
KeyInterrupts ==
  at = "out" /\ current # HV =>
    LET d == dev[current] IN
    d.in # <<>> /\ 0 \in d.enables /\ 0 \in d.ier /\ UartIrq \in d.irqs_1 => virq

\* The pending register a VM reads tells of an interrupt exactly when its line
\* was up, so a handler that is entered finds its source.
\* (An action property: the line is the one before the read.)
PendingExplainsLine ==
  [][Trap /\ Load("IRQ_BASIC_PENDING") => (loaded' # {} <=> virq)]_vars

\* The keys a VM has in its buffer were typed while its console was shown, and
\* they come in the order they were typed, after those it has read: a key typed
\* ahead of a switch of the console reaches neither console (mini_uart.c:88).
KeysStayPut ==
  \A v \in VM : LET q == dev[v].in IN
    \A i \in 1 .. Len(q) :
      /\ home[Id(q[i])] = v
      /\ Id(q[i]) > IF i = 1 THEN last[v] ELSE Id(q[i - 1])

\* Emptying the receive FIFO at the end of the handler loses only keys that were
\* typed before an earlier key was served: a key typed when none was waiting and
\* no handler ran stays until the handler reads it.
Alone(q) == {q[i].id : i \in {j \in 1 .. Len(q) : q[j].alone}}
PatientKeyServed ==
  [][at \notin {"irq", "esc2", "esc1"} => Alone(rx) \subseteq Alone(rx')]_vars

\* What a VM wrote is on the terminal or still in its buffer, once and in order,
\* whatever console was shown meanwhile.
OutputComplete == \A v \in VM : shown[v] \o dev[v].out = owed[v]

\* Only the VM whose console is shown prints.
TerminalOwn ==
  [][\A v \in VM : shown'[v] # shown[v] => v = uart_forwarded_task']_vars

\* Nothing the shown VM wrote waits while VMs run, unless it ended.
ShownAtOnce ==
  at = "out" /\ uart_forwarded_task \in VM \cap alive =>
    dev[uart_forwarded_task].out = <<>>

\* What the line status register told a VM stays true until the VM itself uses
\* it up: after "data ready" a read finds a key and not what happened to be in an
\* uninitialized variable (bcm2837.c:211), after "transmitter empty" a write is
\* not dropped.
LsrPromise ==
  \A v \in VM :
    /\ 0 \in promised[v] => dev[v].in # <<>>
    /\ 5 \in promised[v] => ~is_full(dev[v].out)

\* The console buffers keep their bounds, and a VM can trust what it was told of
\* them (fifo.c under bcm2837.c).
BuffersTrue == TypeOK /\ LsrPromise

\* The interrupt lines of the VM that runs are those its devices ask for, and a
\* key is among what they ask for (set_cpu_virtual_interrupt()).
InterruptsTrue == LinesTrue /\ KeyInterrupts

\* Output is kept until it is shown, and shown as soon as it may be
\* (flush_task_console() and its callers).
OutputKept == OutputComplete /\ ShownAtOnce

\* No step loses a key that was waiting alone, shows the output of a VM whose
\* console is not shown, or tells a handler of nothing.
NoStepStrays == PatientKeyServed /\ TerminalOwn /\ PendingExplainsLine
==============================================================================
