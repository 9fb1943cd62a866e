-------------------------------- MODULE Sched --------------------------------
(***************************************************************************)
(* The core of the hypervisor: one CPU shared by the hypervisor's own task *)
(* (task 0) and the virtual machines.  common/sched.c picks the task,      *)
(* arch/aarch64/entry.S saves and restores it, sync_exc.c and raspi/irq.c  *)
(* handle what brought the CPU to EL2, task.c and the shell create tasks,  *)
(* and PANIC() (debug.h) ends them.                                        *)
(*                                                                         *)
(* Exceptions are masked at EL2, so between two points where the code can  *)
(* be interrupted or can switch stacks it runs alone: those points are the *)
(* values of `at`, and each action takes `current` from one to the next.   *)
(* The devices act at any time.                                            *)
(*                                                                         *)
(* The system registers of EL1 are one value, the program counter of a     *)
(* guest counts instructions modulo PC_MOD, and the page pool is a number  *)
(* of free pages.                                                          *)
(***************************************************************************)
EXTENDS Naturals, FiniteSets

CONSTANTS
  NR_TASKS,       \* slots of task[] (64)
  INITIAL_VMS,    \* tasks hypervisor_main() creates (4)
  PRIORITY,       \* of the initial task, inherited by all (1)
  Reg, InitReg,   \* contents of the EL1 system registers; the first capture
  PC_MOD,         \* bound on program counters
  POOL,           \* free pages when the main loop starts
  TASK_PAGES,     \* pages a task takes before it enters task[]
  CONSOLE_PAGES,  \* pages it takes after that, for its two buffers (2)
  IMAGE_PAGES,    \* pages of an image
  MAX_RX          \* characters the mini-UART can hold (8)

ASSUME SchedAssumption ==
  /\ NR_TASKS \in Nat \ {0} /\ INITIAL_VMS \in 0 .. NR_TASKS - 1
  /\ PRIORITY \in Nat \ {0}
  /\ InitReg \in Reg /\ PC_MOD \in Nat \ {0}
  /\ POOL \in Nat /\ TASK_PAGES \in Nat /\ CONSOLE_PAGES \in Nat
  /\ IMAGE_PAGES \in Nat /\ MAX_RX \in Nat

HV == 0                       \* the hypervisor's own task
Task == 0 .. NR_TASKS - 1
VM == Task \ {HV}

\* The interrupt lines enable_interrupt_controller() turns on.
Timer == {"timer1", "timer3"}
Line == Timer \cup {"aux"}

Point ==
  {"absent",    \* no task in this slot
   "kthread",   \* created, about to run prepare_task()
   "guest",     \* a VM outside EL2
   "boot",      \* task 0 about to enter its main loop, interrupts masked
   "main",      \* task 0 in its main loop, interrupts enabled
   "resched",   \* task 0 in (or just after) the main loop's schedule()
   "irq",       \* in handle_irq(), with the snapshot irq[t] left to serve
   "esc2", "esc1", \* in the shell, waiting for 2 or 1 more characters
   "sync",      \* in handle_sync_exception()
   "wfx",       \* in (or just after) the schedule() of handle_trap_wfx()
   "ret",       \* handler done, at kernel_exit
   "panic"}     \* in the schedule() of exit_task()

VARIABLES
  nr_tasks, current, state, counter,    \* sched.c's globals and task fields
  at,             \* where each task's stack is
  irq,            \* handle_irq()'s local copy of IRQ_PENDING_1, per stack
  cpu,            \* live EL1 registers, program counter and VTTBR_EL2's VMID
  sysregs, pt_pc, \* the saved ones: task_struct.cpu_sysregs and pt_regs.pc
  raised, rx,     \* timer lines asserted; characters in the mini-UART
  uart_forwarded_task, is_escaped,      \* the console switch of mini_uart.c
  free            \* free pages

sched == <<nr_tasks, current, state, counter>>
regs == <<cpu, sysregs, pt_pc>>
dev == <<raised, rx>>
uart == <<uart_forwarded_task, is_escaped>>
vars == <<sched, at, irq, regs, dev, uart, free>>

-----------------------------------------------------------------------------
\* sched.c

\* Mutant: the scan of _schedule() forgets the state of the task.
Runnable_any(st) == {t \in Task : st[t] # "NONE"}
Runnable(st) == {t \in Task : st[t] = "RUNNING"}

\* The counters after _schedule()'s loop: when every runnable task has used
\* its credit, every task in the table, zombies included, gets a new one.
Refill(st, cnt) ==
  IF Runnable(st) # {} /\ \A t \in Runnable(st) : cnt[t] = 0
    THEN [t \in Task |-> IF st[t] = "NONE" THEN cnt[t]
                         ELSE (cnt[t] \div 2) + PRIORITY]
    ELSE cnt

\* The first task with the largest counter; task 0 when nothing is runnable.
IsNext(st, cnt, next) ==
  IF Runnable(st) = {}
    THEN next = HV
    ELSE /\ next \in Runnable(st)
         /\ \A t \in Runnable(st) :
              cnt[t] < cnt[next] \/ (cnt[t] = cnt[next] /\ next <= t)

\* _schedule() and switch_to(): the callee's stack becomes current's.
_schedule(st, cnt) ==
  /\ counter' = Refill(st, cnt)
  /\ \E next \in Task : IsNext(st, Refill(st, cnt), next) /\ current' = next

\* schedule() gives up the rest of current's credit first.
schedule == _schedule(state, [counter EXCEPT ![current] = 0])

\* Mutants: a tick that lets a task without credit go on; one that gives the
\* task new credit instead of none.
timer_tick_late ==
  IF counter[current] > 0
    THEN counter' = [counter EXCEPT ![current] = @ - 1] /\ UNCHANGED current
    ELSE _schedule(state, [counter EXCEPT ![current] = 0])
timer_tick_refills == _schedule(state, [counter EXCEPT ![current] = PRIORITY])

timer_tick ==
  IF counter[current] > 1
    THEN counter' = [counter EXCEPT ![current] = @ - 1] /\ UNCHANGED current
    ELSE _schedule(state, [counter EXCEPT ![current] = 0])

\* PANIC(): exit_task() on the interrupted task, whoever is to blame.
PANIC(st, cnt) ==
  /\ state' = [st EXCEPT ![current] = "ZOMBIE"]
  /\ _schedule([st EXCEPT ![current] = "ZOMBIE"], [cnt EXCEPT ![current] = 0])

-----------------------------------------------------------------------------
\* entry.S

\* Mutant: vm_leaving_work() without save_sysregs().
KernelEntry_unsaved ==
  pt_pc' = [pt_pc EXCEPT ![current] = cpu.pc] /\ UNCHANGED <<cpu, sysregs>>

\* kernel_entry: vm_leaving_work() saves current's registers.
KernelEntry ==
  /\ sysregs' = [sysregs EXCEPT ![current] = cpu.el1]
  /\ pt_pc' = [pt_pc EXCEPT ![current] = cpu.pc]
  /\ UNCHANGED cpu

Outside(t) == at[t] \in {"guest", "main"}

\* An interrupt; handle_irq() starts by copying the pending register.
Pending == raised \cup (IF rx > 0 THEN {"aux"} ELSE {})
TakeIrq ==
  /\ Outside(current) /\ Pending # {}
  /\ KernelEntry
  /\ irq' = [irq EXCEPT ![current] = Pending]
  /\ at' = [at EXCEPT ![current] = "irq"]
  /\ UNCHANGED <<sched, dev, uart, free>>

\* A guest instruction that EL2 has to handle.
TakeSync ==
  /\ at[current] = "guest"
  /\ KernelEntry
  /\ at' = [at EXCEPT ![current] = "sync"]
  /\ UNCHANGED <<sched, irq, dev, uart, free>>

\* Mutant: vm_entering_work() without set_stage2_pgd().
KernelExit_oldStage2 ==
  /\ at[current] = "ret"
  /\ cpu' = [cpu EXCEPT !.el1 = sysregs[current], !.pc = pt_pc[current]]
  /\ at' = [at EXCEPT ![current] = IF current = HV THEN "main" ELSE "guest"]
  /\ UNCHANGED <<sched, irq, sysregs, pt_pc, dev, uart, free>>

\* kernel_exit: vm_entering_work() and eret.
KernelExit ==
  /\ at[current] = "ret"
  /\ cpu' = [el1 |-> sysregs[current], pc |-> pt_pc[current], vmid |-> current]
  /\ at' = [at EXCEPT ![current] = IF current = HV THEN "main" ELSE "guest"]
  /\ UNCHANGED <<sched, irq, sysregs, pt_pc, dev, uart, free>>

\* A guest runs one instruction that needs no help, and may write its EL1
\* registers.
GuestRun ==
  /\ at[current] = "guest"
  /\ \E v \in Reg :
       cpu' = [el1 |-> v, pc |-> (cpu.pc + 1) % PC_MOD, vmid |-> cpu.vmid]
  /\ UNCHANGED <<sched, at, irq, sysregs, pt_pc, dev, uart, free>>

-----------------------------------------------------------------------------
\* sync_exc.c

Handled == at' = [at EXCEPT ![current] = "ret"]
increment_current_pc == pt_pc' = [pt_pc EXCEPT ![current] = (@ + 1) % PC_MOD]

HandleTrapWfx ==
  /\ at[current] = "sync"
  /\ at' = [at EXCEPT ![current] = "wfx"]
  /\ schedule
  /\ UNCHANGED <<nr_tasks, state, irq, regs, dev, uart, free>>

\* When schedule() returns, on the stack that called it.
ResumeWfx ==
  /\ at[current] = "wfx"
  /\ increment_current_pc /\ Handled
  /\ UNCHANGED <<sched, irq, cpu, sysregs, dev, uart, free>>

\* msr and mrs work on the saved registers; mrs and an unknown register
\* leave them alone.
HandleTrapSystem ==
  /\ at[current] = "sync"
  /\ \E v \in Reg : sysregs' = [sysregs EXCEPT ![current] = v]
  /\ increment_current_pc /\ Handled
  /\ UNCHANGED <<sched, irq, cpu, dev, uart, free>>

\* HVC (the CPU has moved past it) and trapped FP or SVE (nobody does).
HandleNothing ==
  /\ at[current] = "sync" /\ Handled
  /\ UNCHANGED <<sched, irq, regs, dev, uart, free>>

\* handle_mem_abort(): a translation fault gets a page, with up to two tables on
\* the way to it, and is retried; an access to the device window is emulated and
\* skipped.
HandleTranslationFault ==
  /\ at[current] = "sync"
  /\ \E n \in 1 .. 3 : n <= free /\ free' = free - n
  /\ Handled
  /\ UNCHANGED <<sched, irq, regs, dev, uart>>

HandleMmio ==
  /\ at[current] = "sync"
  /\ increment_current_pc /\ Handled
  /\ UNCHANGED <<sched, irq, cpu, sysregs, dev, uart, free>>

\* No page for the fault (or for its tables), a mailbox buffer that is not
\* mapped, an abort of another kind, an exception class nobody handles, an
\* SError or FIQ.
HandleFatal ==
  /\ at[current] = "sync"
  /\ free' \in {n \in 0 .. free : free <= n + 2}
  /\ PANIC(state, counter)
  /\ at' = [at EXCEPT ![current] = "panic"]
  /\ UNCHANGED <<nr_tasks, irq, regs, dev, uart>>

-----------------------------------------------------------------------------
\* raspi/irq.c, raspi/timer.c and the part of mini_uart.c and shell.c that
\* changes tasks

Serving(l) == at[current] = "irq" /\ l \in irq[current]
Served(l) == irq' = [irq EXCEPT ![current] = @ \ {l}]

\* Mutant: the bit of timer 1 stays in the snapshot.
HandleTimer1_unmasked ==
  /\ Serving("timer1")
  /\ raised' = raised \ {"timer1"} /\ timer_tick
  /\ UNCHANGED <<nr_tasks, state, at, irq, regs, rx, uart, free>>

\* timer_tick() may switch to another stack; this one goes on with the rest
\* of its snapshot when it is scheduled again.
HandleTimer1 ==
  /\ Serving("timer1")
  /\ raised' = raised \ {"timer1"} /\ Served("timer1")
  /\ timer_tick
  /\ UNCHANGED <<nr_tasks, state, at, regs, rx, uart, free>>

HandleTimer3 ==
  /\ Serving("timer3") /\ "timer1" \notin irq[current]
  /\ raised' = raised \ {"timer3"} /\ Served("timer3")
  /\ UNCHANGED <<sched, at, regs, rx, uart, free>>

IrqDone ==
  /\ at[current] = "irq" /\ irq[current] = {}
  /\ Handled
  /\ UNCHANGED <<sched, irq, regs, dev, uart, free>>

ServingUart == Serving("aux") /\ irq[current] \cap Timer = {}

\* The end of handle_uart_irq(): the write to AUX_MU_IIR_REG empties the
\* receive FIFO.
UartServed == Served("aux") /\ rx' = 0 /\ UNCHANGED raised

\* The console belongs to the hypervisor: uart_recv() waits for a character,
\* and a completed line may switch the console to a VM (vmc).
ShellKick ==
  /\ ServingUart /\ uart_forwarded_task = HV /\ rx > 0
  /\ UartServed
  /\ \/ UNCHANGED uart_forwarded_task
     \/ \E vm \in 1 .. nr_tasks - 1 : uart_forwarded_task' = vm
  /\ UNCHANGED <<sched, at, regs, is_escaped, free>>

\* An escape character makes the shell wait for two more.
ShellEscape ==
  /\ \/ ServingUart /\ uart_forwarded_task = HV
        /\ at' = [at EXCEPT ![current] = "esc2"]
     \/ at[current] = "esc2" /\ at' = [at EXCEPT ![current] = "esc1"]
  /\ rx > 0 /\ rx' = rx - 1
  /\ UNCHANGED <<sched, irq, regs, raised, uart, free>>

ShellEscaped ==
  /\ at[current] = "esc1" /\ rx > 0
  /\ UartServed
  /\ at' = [at EXCEPT ![current] = "irq"]
  /\ UNCHANGED <<sched, regs, uart, free>>

\* Mutant: the digit is not compared with nr_tasks.
ForwardChar_unchecked ==
  /\ ServingUart /\ uart_forwarded_task # HV
  /\ UartServed
  /\ IF is_escaped
       THEN is_escaped' = FALSE /\ uart_forwarded_task' \in Task
       ELSE is_escaped' \in BOOLEAN /\ UNCHANGED uart_forwarded_task
  /\ UNCHANGED <<sched, at, regs, free>>

\* The console belongs to a VM: '@' starts an escape, after which a digit
\* switches the console.
ForwardChar ==
  /\ ServingUart /\ uart_forwarded_task # HV
  /\ UartServed
  /\ IF is_escaped
       THEN /\ is_escaped' = FALSE
            /\ \/ UNCHANGED uart_forwarded_task
               \/ \E d \in 0 .. 9 : d <= nr_tasks - 1 /\ uart_forwarded_task' = d
       ELSE is_escaped' \in BOOLEAN /\ UNCHANGED uart_forwarded_task
  /\ UNCHANGED <<sched, at, regs, free>>

-----------------------------------------------------------------------------
\* task.c, called by the shell's vmld on the stack of the interrupted task.
\* There is room in task[] (the code does not check).

Vmld == ServingUart /\ uart_forwarded_task = HV /\ rx > 0 /\ nr_tasks < NR_TASKS

\* task[] gets a runnable task.
NewState == [state EXCEPT ![nr_tasks] = "RUNNING"]
NewCounter == [counter EXCEPT ![nr_tasks] = PRIORITY]
NewRegs ==
  /\ sysregs' = [sysregs EXCEPT ![nr_tasks] = InitReg]
  /\ UNCHANGED <<cpu, pt_pc>>

\* Mutant: the result of get_free_page() is not looked at.
CreateTask_unchecked ==
  /\ Vmld
  /\ free' = free - (TASK_PAGES + CONSOLE_PAGES)
  /\ nr_tasks' = nr_tasks + 1
  /\ state' = NewState /\ counter' = NewCounter /\ NewRegs
  /\ at' = [at EXCEPT ![nr_tasks] = "kthread"]
  /\ UartServed
  /\ UNCHANGED <<current, uart>>

CreateTask ==
  /\ Vmld /\ free >= TASK_PAGES + CONSOLE_PAGES
  /\ free' = free - (TASK_PAGES + CONSOLE_PAGES)
  /\ nr_tasks' = nr_tasks + 1
  /\ state' = NewState /\ counter' = NewCounter /\ NewRegs
  /\ at' = [at EXCEPT ![nr_tasks] = "kthread"]
  /\ UartServed
  /\ UNCHANGED <<current, uart>>

\* get_free_page() runs out: PANIC() on the task that was interrupted, with
\* the new task not yet in the table or already in it without a console.
CreateTaskFails ==
  /\ Vmld /\ free < TASK_PAGES
  /\ free' = 0 /\ rx' = rx - 1
  /\ PANIC(state, counter)
  /\ at' = [at EXCEPT ![current] = "panic"]
  /\ UNCHANGED <<nr_tasks, irq, regs, raised, uart>>

CreateTaskHalfDone ==
  /\ Vmld /\ TASK_PAGES <= free /\ free < TASK_PAGES + CONSOLE_PAGES
  /\ free' = 0 /\ rx' = rx - 1
  /\ nr_tasks' = nr_tasks + 1 /\ NewRegs
  /\ PANIC(NewState, NewCounter)
  /\ at' = [at EXCEPT ![nr_tasks] = "kthread", ![current] = "panic"]
  /\ UNCHANGED <<irq, raised, uart>>

\* prepare_task() on the new task's own stack; the loader needs one page
\* more than the image while it looks for the end of the file.
PrepareTask ==
  /\ at[current] = "kthread" /\ free > IMAGE_PAGES
  /\ free' = free - IMAGE_PAGES
  /\ pt_pc' = [pt_pc EXCEPT ![current] = 0]
  /\ cpu' = [el1 |-> sysregs[current], pc |-> cpu.pc, vmid |-> current]
  /\ Handled
  /\ UNCHANGED <<sched, irq, sysregs, dev, uart>>

\* No such file, an error while it is read, or no page for its contents.
PrepareTaskFails ==
  /\ at[current] = "kthread"
  /\ free' \in {n \in 0 .. free : free <= n + IMAGE_PAGES}
  /\ PANIC(state, counter)
  /\ at' = [at EXCEPT ![current] = "panic"]
  /\ UNCHANGED <<nr_tasks, irq, regs, dev, uart>>

-----------------------------------------------------------------------------
\* main.c: the loop of task 0

HvSchedule ==
  /\ at[current] \in {"boot", "main"}
  /\ at' = [at EXCEPT ![current] = "resched"]
  /\ schedule
  /\ UNCHANGED <<nr_tasks, state, irq, regs, dev, uart, free>>

HvEnableIrq ==
  /\ at[current] = "resched"
  /\ at' = [at EXCEPT ![current] = "main"]
  /\ UNCHANGED <<sched, irq, regs, dev, uart, free>>

\* Nothing else is runnable: task 0 comes back from its own PANIC(), and vmld
\* fails or leaves one more half-made task.
HvSurvives ==
  /\ at[current] = "panic"
  /\ UartServed
  /\ \/ /\ at' = [at EXCEPT ![current] = "irq"]
        /\ UNCHANGED <<sched, regs>>
     \/ /\ nr_tasks < NR_TASKS /\ nr_tasks' = nr_tasks + 1
        /\ state' = NewState /\ counter' = NewCounter /\ NewRegs
        /\ at' = [at EXCEPT ![nr_tasks] = "kthread", ![current] = "irq"]
        /\ UNCHANGED current
  /\ UNCHANGED <<uart, free>>

-----------------------------------------------------------------------------
\* The devices: a timer match, a key.

RaiseTimer(l) ==
  /\ l \notin raised /\ raised' = raised \cup {l}
  /\ UNCHANGED <<sched, at, irq, regs, rx, uart, free>>

KeyPressed ==
  /\ rx < MAX_RX /\ rx' = rx + 1
  /\ UNCHANGED <<sched, at, irq, regs, raised, uart, free>>

\* The state in which hypervisor_main() enters its loop.
Created(t) == t \in 1 .. INITIAL_VMS
Init ==
  /\ nr_tasks = INITIAL_VMS + 1 /\ current = HV
  /\ state = [t \in Task |-> IF t = HV \/ Created(t) THEN "RUNNING" ELSE "NONE"]
  /\ counter = [t \in Task |-> IF Created(t) THEN PRIORITY ELSE 0]
  /\ at = [t \in Task |-> IF t = HV THEN "boot"
                          ELSE IF Created(t) THEN "kthread" ELSE "absent"]
  /\ irq = [t \in Task |-> {}]
  /\ cpu = [el1 |-> InitReg, pc |-> 0, vmid |-> HV]
  /\ sysregs = [t \in Task |-> InitReg] /\ pt_pc = [t \in Task |-> 0]
  /\ raised = {} /\ rx = 0
  /\ uart_forwarded_task = HV /\ is_escaped = FALSE
  /\ free = POOL

HandleSync ==
  \/ HandleTrapWfx \/ HandleTrapSystem \/ HandleNothing
  \/ HandleTranslationFault \/ HandleMmio \/ HandleFatal
HandleUart ==
  \/ ShellKick \/ ShellEscape \/ ShellEscaped \/ ForwardChar
  \/ CreateTask \/ CreateTaskFails \/ CreateTaskHalfDone
HandleIrq == HandleTimer1 \/ HandleTimer3 \/ HandleUart \/ IrqDone
El2 ==
  \/ HandleSync \/ HandleIrq \/ ResumeWfx \/ PrepareTask \/ PrepareTaskFails
  \/ KernelExit \/ HvEnableIrq \/ HvSurvives
Device == KeyPressed \/ \E l \in Timer : RaiseTimer(l)

Next == El2 \/ TakeIrq \/ TakeSync \/ GuestRun \/ HvSchedule \/ Device

Spec == Init /\ [][Next]_vars

\* EL2 runs to the end of what it does when it can; timer 1 is periodic; an
\* interrupt that stays pending is taken between two guest instructions; task
\* 0 goes round its loop.  Nobody has to press a key: see KeysCome.
Fairness ==
  /\ WF_vars(El2) /\ SF_vars(TakeIrq) /\ WF_vars(HvSchedule)
  /\ WF_vars(RaiseTimer("timer1"))

FairSpec == Spec /\ Fairness

-----------------------------------------------------------------------------
\* Types of the variables above.
TypeOK ==
  /\ nr_tasks \in 1 .. NR_TASKS /\ current \in Task
  /\ state \in [Task -> {"NONE", "RUNNING", "ZOMBIE"}] /\ counter \in [Task -> Nat]
  /\ at \in [Task -> Point] /\ irq \in [Task -> SUBSET Line]
  /\ cpu \in [el1 : Reg, pc : 0 .. PC_MOD - 1, vmid : Task]
  /\ sysregs \in [Task -> Reg] /\ pt_pc \in [Task -> 0 .. PC_MOD - 1]
  /\ raised \in SUBSET Timer /\ rx \in 0 .. MAX_RX
  /\ uart_forwarded_task \in Task /\ is_escaped \in BOOLEAN
  /\ free \in 0 .. POOL

\* Where a stack may be when it is not current's: a place that called the
\* scheduler.  Only the stack that served timer 1 can be parked in
\* handle_irq(), and then timer 1 is no longer in its snapshot (irq.c:53-56).
Parked(t) ==
  \/ at[t] \in {"kthread", "resched", "wfx", "panic"}
  \/ at[t] = "irq" /\ "timer1" \notin irq[t]

StackAgrees(t) ==
  /\ t = current => t < nr_tasks
  /\ at[t] = "absent" <=> t >= nr_tasks
  /\ state[t] = "NONE" <=> t >= nr_tasks
  /\ t < nr_tasks /\ t # current => Parked(t)
  /\ at[t] = "panic" => state[t] = "ZOMBIE"
  /\ t # HV /\ state[t] = "ZOMBIE" => at[t] = "panic"
  /\ t = HV => at[t] \notin {"guest", "sync", "wfx", "kthread"}
  /\ t # HV => at[t] \notin {"boot", "main", "resched"}

\* The task table, the stacks and the task states agree: slots beyond
\* nr_tasks are empty, every other task is parked, a task is a zombie exactly
\* when PANIC() took it (task 0 may come back), and a VM is never on the
\* hypervisor's part of the code nor task 0 on the VMs' (sched.c:57-113,
\* entry.S:143-170).
StacksAgree == \A t \in Task : StackAgrees(t)

\* A VM that PANIC() ended never gets the CPU again, although its stack, its
\* registers and its credit stay in the table and _schedule() refills them
\* (sched.c:27-58, 103-113).
NoZombieRuns == state[current] = "ZOMBIE" => current = HV

\* A task that holds the CPU has credit left, so timer_tick() takes a positive
\* counter to zero and never below, and no refill passes twice the priority
\* (sched.c:46-54, 92-101).  Task 0 has none before its first schedule(), or
\* once it is a zombie.
CreditBounded ==
  /\ \A t \in Task : counter[t] < 2 * PRIORITY
  /\ state[current] = "RUNNING" /\ at[current] # "boot" => counter[current] > 0

\* What is counted stays within its bounds, through creations that fail half-way
\* and switches in the middle of a tick: the pool is never overdrawn, no tick
\* takes credit below zero and no refill to twice the priority (mm.c:54-73,
\* sched.c:46-54, 92-101).
BoundsKept == TypeOK /\ CreditBounded

\* Whenever a guest runs, the stage-2 tables and the VMID are its own, however
\* it was switched to (sched.c:115-131, task.c:41).
GuestHasOwnStage2 == at[current] = "guest" => cpu.vmid = current

\* The console belongs to an existing task, and an escape is never left half
\* done on the hypervisor's side, where nobody would finish it
\* (mini_uart.c:47-89, shell.c:476-487).
ConsoleConsistent ==
  /\ uart_forwarded_task < nr_tasks
  /\ uart_forwarded_task = HV => ~is_escaped

\* Every VM has a private CPU.
OnCpu(t) == t = current /\ at[t] = "guest"
PhaseOf(t) ==
  CASE state[t] = "ZOMBIE" -> "dead"
    [] state[t] # "ZOMBIE" /\ at[t] = "absent" -> "absent"
    [] state[t] # "ZOMBIE" /\ at[t] = "kthread" -> "loading"
    [] state[t] # "ZOMBIE" /\ at[t] = "guest" -> "user"
    [] state[t] # "ZOMBIE" /\ at[t] = "ret" -> "ready"
    [] OTHER -> "kernel"
El1Of(t) == IF OnCpu(t) THEN cpu.el1 ELSE sysregs[t]
PcOf(t) == IF OnCpu(t) THEN cpu.pc ELSE pt_pc[t]
Cpu == INSTANCE PrivateCpu WITH
  phase <- [t \in VM |-> PhaseOf(t)],
  el1 <- [t \in VM |-> El1Of(t)],
  pc <- [t \in VM |-> PcOf(t)]
IsPrivateCpu == Cpu!Spec

\* uart_recv() has no character and waits, with interrupts masked: after an
\* escape (shell.c:170-173), or because handle_irq() goes on with a UART bit
\* that another task has served since (irq.c:52-67).
WaitsForKey ==
  /\ rx = 0
  /\ at[current] \in {"esc2", "esc1"} \/ (ServingUart /\ uart_forwarded_task = HV)

\* Somebody goes on typing when uart_recv() waits; nothing else is assumed of
\* the keys.
KeysCome == []<>~WaitsForKey

\* Whatever the guests do and whatever is typed, every task that can run gets
\* the CPU again and again (sched.c:27-101), unless uart_recv() waits for ever:
\* the hypervisor too, as long as it is alive.
NoStarvation ==
  KeysCome => \A t \in Task : []<>(state[t] # "RUNNING" \/ current = t)

\* A guest that trapped or was interrupted returns, or ends: no handler keeps
\* it for ever, but uart_recv() when no key comes.
TrapsReturn ==
  KeysCome =>
    \A t \in VM : at[t] \in {"irq", "sync", "wfx"} ~> at[t] \in {"guest", "panic"}

=============================================================================
