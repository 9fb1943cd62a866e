----------------------------- MODULE SchedProofs -----------------------------
(***************************************************************************)
(* The safety properties of Sched and its refinement of PrivateCpu, for    *)
(* every number of tasks, priority, register contents and pool.            *)
(***************************************************************************)
EXTENDS Sched, TLAPS

\* No refill passes twice the priority, and the credit a tick takes is there.
Bounded(cnt) == cnt \in [Task -> Nat] /\ \A t \in Task : cnt[t] < 2 * PRIORITY

LEMMA TaskFacts ==
  /\ HV = 0 /\ HV \in Task /\ NR_TASKS \in Nat /\ NR_TASKS > 0
  /\ \A t : t \in Task <=> t \in Nat /\ t < NR_TASKS
  /\ PRIORITY \in Nat /\ PRIORITY > 0
  /\ \A n \in Nat : n % PC_MOD \in 0 .. PC_MOD - 1
BY SchedAssumption DEF Task, HV

\* _schedule() keeps the counters bounded whatever it starts from.
LEMMA RefillBounded ==
  ASSUME NEW st \in [Task -> {"NONE", "RUNNING", "ZOMBIE"}], NEW cnt, Bounded(cnt)
  PROVE  Bounded(Refill(st, cnt))
<1>1. \A c \in Nat : c < 2 * PRIORITY => /\ (c \div 2) + PRIORITY \in Nat
                                        /\ (c \div 2) + PRIORITY < 2 * PRIORITY
  BY TaskFacts
<1>2. CASE Refill(st, cnt) = cnt
  BY <1>2
<1>3. CASE Refill(st, cnt) = [t \in Task |-> IF st[t] = "NONE" THEN cnt[t]
                                             ELSE (cnt[t] \div 2) + PRIORITY]
  BY <1>1, <1>3 DEF Bounded
<1> QED
  BY <1>2, <1>3 DEF Refill

\* The task _schedule() switches to is runnable and has credit, unless nothing
\* is runnable: then it is task 0.
LEMMA NextHasCredit ==
  ASSUME NEW st \in [Task -> {"NONE", "RUNNING", "ZOMBIE"}], NEW cnt, Bounded(cnt),
         NEW next \in Task, IsNext(st, Refill(st, cnt), next)
  PROVE  \/ st[next] = "RUNNING" /\ Refill(st, cnt)[next] > 0
         \/ Runnable(st) = {} /\ next = HV
<1>1. CASE Runnable(st) = {}
  BY <1>1 DEF IsNext
<1>2. CASE Runnable(st) # {}
  <2>0. Bounded(Refill(st, cnt))
    BY RefillBounded
  <2>1. next \in Runnable(st) /\ st[next] = "RUNNING"
    BY <1>2 DEF IsNext, Runnable
  <2>2. PICK t \in Runnable(st) : Refill(st, cnt)[t] > 0
    <3>1. CASE \A u \in Runnable(st) : cnt[u] = 0
      <4>1. Refill(st, cnt)[next] = (cnt[next] \div 2) + PRIORITY
        BY <1>2, <2>1, <3>1 DEF Refill
      <4>2. (cnt[next] \div 2) + PRIORITY > 0
        BY <2>1, TaskFacts DEF Bounded
      <4> QED BY <2>1, <4>1, <4>2
    <3>2. CASE \E u \in Runnable(st) : cnt[u] # 0
      BY <3>2 DEF Refill, Bounded, Runnable
    <3> QED BY <3>1, <3>2
  <2>3. Refill(st, cnt)[t] \in Nat /\ Refill(st, cnt)[next] \in Nat
    BY <2>0, <2>2 DEF Bounded, Runnable
  <2>4. Refill(st, cnt)[t] <= Refill(st, cnt)[next]
    BY <1>2, <2>2, <2>3 DEF IsNext
  <2> QED
    BY <2>1, <2>2, <2>3, <2>4
<1> QED
  BY <1>1, <1>2

\* What a call of _schedule() establishes.
LEMMA ScheduleFacts ==
  ASSUME NEW st \in [Task -> {"NONE", "RUNNING", "ZOMBIE"}], NEW cnt, Bounded(cnt),
         _schedule(st, cnt)
  PROVE  /\ current' \in Task /\ Bounded(counter')
         /\ \/ st[current'] = "RUNNING" /\ counter'[current'] > 0
            \/ Runnable(st) = {} /\ current' = HV
BY RefillBounded, NextHasCredit DEF _schedule

-----------------------------------------------------------------------------
\* The inductive invariant.
IInv == /\ TypeOK /\ StacksAgree /\ NoZombieRuns /\ CreditBounded
        /\ GuestHasOwnStage2 /\ ConsoleConsistent

LEMMA InitIInv == Init => IInv
<1> SUFFICES ASSUME Init PROVE IInv
  OBVIOUS
<1> USE SchedAssumption, TaskFacts
<1>0. /\ INITIAL_VMS \in Nat /\ INITIAL_VMS < NR_TASKS /\ ~Created(HV)
      /\ \A t \in Task : Created(t) <=> t # HV /\ t < INITIAL_VMS + 1
  BY DEF Created
<1>1. TypeOK
  <2>1. /\ nr_tasks \in 1 .. NR_TASKS /\ current \in Task
        /\ state \in [Task -> {"NONE", "RUNNING", "ZOMBIE"}] /\ counter \in [Task -> Nat]
    BY <1>0 DEF Init
  <2>2. at \in [Task -> Point] /\ irq \in [Task -> SUBSET Line]
    BY DEF Init, Point
  <2>3. /\ cpu \in [el1 : Reg, pc : 0 .. PC_MOD - 1, vmid : Task]
        /\ sysregs \in [Task -> Reg] /\ pt_pc \in [Task -> 0 .. PC_MOD - 1]
    BY DEF Init
  <2>4. /\ raised \in SUBSET Timer /\ rx \in 0 .. MAX_RX
        /\ uart_forwarded_task \in Task /\ free \in 0 .. POOL
    BY DEF Init
  <2>5. is_escaped \in BOOLEAN
    BY DEF Init
  <2> QED BY <2>1, <2>2, <2>3, <2>4, <2>5 DEF TypeOK
<1>2. StacksAgree
  <2> SUFFICES ASSUME NEW t \in Task PROVE StackAgrees(t)
    BY DEF StacksAgree
  <2>1. /\ nr_tasks = INITIAL_VMS + 1 /\ current = HV
        /\ state[t] = IF t = HV \/ Created(t) THEN "RUNNING" ELSE "NONE"
        /\ at[t] = IF t = HV THEN "boot" ELSE IF Created(t) THEN "kthread" ELSE "absent"
    BY DEF Init
  <2> QED BY <1>0, <2>1 DEF StackAgrees, Parked
<1>3. NoZombieRuns /\ CreditBounded /\ GuestHasOwnStage2
  <2>1. state[current] = "RUNNING" /\ at[current] = "boot"
    BY DEF Init
  <2>2. \A t \in Task : counter[t] < 2 * PRIORITY
    BY DEF Init
  <2> QED BY <2>1, <2>2 DEF NoZombieRuns, CreditBounded, GuestHasOwnStage2
<1>4. ConsoleConsistent
  BY <1>0 DEF Init, ConsoleConsistent
<1> QED
  BY <1>1, <1>2, <1>3, <1>4 DEF IInv

\* A number the shell or the console escape accepts is a task.
LEMMA NumberIsTask ==
  ASSUME nr_tasks \in 1 .. NR_TASKS, NEW d \in Nat, d <= nr_tasks - 1
  PROVE  d \in Task
BY TaskFacts

\* Actions that leave the task table, the counters and current alone.
Local ==
  \/ TakeIrq \/ TakeSync \/ KernelExit \/ GuestRun
  \/ ResumeWfx \/ HandleTrapSystem \/ HandleNothing
  \/ HandleTranslationFault \/ HandleMmio
  \/ HandleTimer3 \/ IrqDone \/ ShellKick \/ ShellEscape \/ ShellEscaped
  \/ ForwardChar \/ PrepareTask \/ HvEnableIrq \/ Device

LEMMA LocalTypeOK == IInv /\ Local => TypeOK'
<1> SUFFICES ASSUME IInv, Local PROVE TypeOK'
  OBVIOUS
<1> USE SchedAssumption, TaskFacts DEF IInv, TypeOK, sched, regs, dev, uart
<1>1. CASE TakeIrq
  BY <1>1 DEF TakeIrq, KernelEntry, Pending, Timer, Line, Point
<1>2. CASE TakeSync
  BY <1>2 DEF TakeSync, KernelEntry, Point
<1>3. CASE KernelExit
  BY <1>3 DEF KernelExit, Point
<1>4. CASE GuestRun
  BY <1>4 DEF GuestRun
<1>5. CASE ResumeWfx
  BY <1>5 DEF ResumeWfx, Handled, increment_current_pc, Point
<1>6. CASE HandleTrapSystem
  BY <1>6 DEF HandleTrapSystem, Handled, increment_current_pc, Point
<1>7. CASE HandleNothing
  BY <1>7 DEF HandleNothing, Handled, Point
<1>8. CASE HandleTranslationFault
  BY <1>8 DEF HandleTranslationFault, Handled, Point
<1>9. CASE HandleMmio
  BY <1>9 DEF HandleMmio, Handled, increment_current_pc, Point
<1>10. CASE HandleTimer3
  BY <1>10 DEF HandleTimer3, Served, Line, Timer
<1>11. CASE IrqDone
  BY <1>11 DEF IrqDone, Handled, Point
<1>12. CASE ShellKick
  <2>0. \A vm : vm \in 1 .. nr_tasks - 1 => vm \in Task
    BY DEF Task
  <2>1. uart_forwarded_task' \in Task
    BY <1>12, <2>0 DEF ShellKick
  <2>2. irq' \in [Task -> SUBSET Line] /\ rx' = 0 /\ raised' = raised
    BY <1>12 DEF ShellKick, UartServed, Served
  <2>3. UNCHANGED <<sched, at, regs, is_escaped, free>>
    BY <1>12 DEF ShellKick
  <2> QED BY <2>1, <2>2, <2>3
<1>13. CASE ShellEscape
  <2>1. at' \in [Task -> Point]
    BY <1>13 DEF ShellEscape, Point
  <2>2. rx' \in 0 .. MAX_RX /\ UNCHANGED <<sched, irq, regs, raised, uart, free>>
    BY <1>13 DEF ShellEscape
  <2> QED BY <2>1, <2>2
<1>14. CASE ShellEscaped
  BY <1>14 DEF ShellEscaped, UartServed, Served, Point
<1>15. CASE ForwardChar
  <2>0. \A d \in 0 .. 9 : d <= nr_tasks - 1 => d \in Task
    <3>1. nr_tasks \in 1 .. NR_TASKS /\ 0 .. 9 \subseteq Nat
      OBVIOUS
    <3> QED BY <3>1, NumberIsTask
  <2>1. uart_forwarded_task' \in Task
    BY <1>15, <2>0 DEF ForwardChar
  <2>4. is_escaped' \in BOOLEAN
    BY <1>15 DEF ForwardChar
  <2>2. irq' \in [Task -> SUBSET Line] /\ rx' = 0 /\ raised' = raised
    BY <1>15 DEF ForwardChar, UartServed, Served
  <2>3. UNCHANGED <<sched, at, regs, free>>
    BY <1>15 DEF ForwardChar
  <2> QED BY <2>1, <2>2, <2>3, <2>4
<1>16. CASE PrepareTask
  BY <1>16 DEF PrepareTask, Handled, Point
<1>17. CASE HvEnableIrq
  BY <1>17 DEF HvEnableIrq, Point
<1>18. CASE Device
  BY <1>18 DEF Device, KeyPressed, RaiseTimer
<1> QED
  BY <1>1, <1>2, <1>3, <1>4, <1>5, <1>6, <1>7, <1>8, <1>9, <1>10, <1>11, <1>12,
     <1>13, <1>14, <1>15, <1>16, <1>17, <1>18 DEF Local

\* Between kernel_entry and kernel_exit a local step moves current's stack to
\* another point of the same side, never to "panic" or out of the table.
LEMMA LocalStacks == IInv /\ Local => StacksAgree' /\ NoZombieRuns' /\ CreditBounded'
<1> SUFFICES ASSUME IInv, Local
             PROVE  StacksAgree' /\ NoZombieRuns' /\ CreditBounded'
  OBVIOUS
<1> USE TaskFacts
<1>1. UNCHANGED sched
  BY DEF Local, TakeIrq, TakeSync, KernelExit, GuestRun, ResumeWfx, HandleTrapSystem,
         HandleNothing, HandleTranslationFault, HandleMmio, HandleTimer3, IrqDone,
         ShellKick, ShellEscape, ShellEscaped, ForwardChar, PrepareTask, HvEnableIrq,
         Device, KeyPressed, RaiseTimer
<1>2. \A t \in Task : t # current => at'[t] = at[t] /\ irq'[t] = irq[t]
  BY DEF IInv, TypeOK, Local, TakeIrq, TakeSync, KernelExit, GuestRun, ResumeWfx,
         HandleTrapSystem, HandleNothing, HandleTranslationFault, HandleMmio,
         HandleTimer3, IrqDone, ShellKick, ShellEscape, ShellEscaped, ForwardChar,
         PrepareTask, HvEnableIrq, Device, KeyPressed, RaiseTimer, Handled, Served,
         UartServed
<1>3. at'[current] # "boot" /\ at[current] = "boot" => FALSE
  BY DEF IInv, TypeOK, Local, TakeIrq, TakeSync, KernelExit, GuestRun, ResumeWfx,
         HandleTrapSystem, HandleNothing, HandleTranslationFault, HandleMmio,
         HandleTimer3, IrqDone, ShellKick, ShellEscape, ShellEscaped, ForwardChar,
         PrepareTask, HvEnableIrq, Device, KeyPressed, RaiseTimer, Handled, Serving,
         ServingUart, UartServed, Served, Outside
<1>4. /\ at'[current] \notin {"absent", "boot", "panic", "kthread"} \/ at'[current] = at[current]
      /\ current # HV => at'[current] \notin {"boot", "main", "resched"}
      /\ current = HV => at'[current] \notin {"guest", "sync", "wfx", "kthread"}
  BY DEF IInv, TypeOK, StacksAgree, StackAgrees, Local, TakeIrq, TakeSync, KernelExit, GuestRun, ResumeWfx,
         HandleTrapSystem, HandleNothing, HandleTranslationFault, HandleMmio,
         HandleTimer3, IrqDone, ShellKick, ShellEscape, ShellEscaped, ForwardChar,
         PrepareTask, HvEnableIrq, Device, KeyPressed, RaiseTimer, Handled, Serving,
         ServingUart, UartServed, Served, Outside
<1>5. StacksAgree'
  <2> SUFFICES ASSUME NEW t \in Task PROVE StackAgrees(t)'
    BY DEF StacksAgree
  <2>1. StackAgrees(t) /\ current \in Task /\ NoZombieRuns
    BY DEF IInv, TypeOK, StacksAgree
  <2>2. UNCHANGED <<nr_tasks, current, state>>
    BY <1>1 DEF sched
  <2>3. CASE t = current
    <3>1. t < nr_tasks /\ at[t] # "absent" /\ state[t] # "NONE"
      BY <2>1, <2>3 DEF StackAgrees, IInv, TypeOK
    <3>2. at'[t] # "absent"
      BY <1>4, <2>3, <3>1
    <3>3. at'[t] = "panic" => state[t] = "ZOMBIE"
      BY <1>4, <2>1, <2>3 DEF StackAgrees
    <3>4. t # HV => state[t] # "ZOMBIE"
      BY <2>1, <2>3 DEF NoZombieRuns
    <3> HIDE DEF HV
    <3> QED BY <1>4, <2>2, <2>3, <3>1, <3>2, <3>3, <3>4 DEF StackAgrees, IInv, TypeOK
  <2>4. CASE t # current
    BY <1>2, <2>1, <2>2, <2>4 DEF StackAgrees, Parked
  <2> QED BY <2>3, <2>4
<1>6. NoZombieRuns' /\ CreditBounded'
  BY <1>1, <1>3 DEF IInv, TypeOK, NoZombieRuns, CreditBounded, sched
<1> QED
  BY <1>5, <1>6

\* A local step never lets a guest run on another's tables nor leaves an escape
\* to the hypervisor.
LEMMA LocalRest == IInv /\ Local => GuestHasOwnStage2' /\ ConsoleConsistent'
<1> SUFFICES ASSUME IInv, Local PROVE GuestHasOwnStage2' /\ ConsoleConsistent'
  OBVIOUS
<1> USE TaskFacts
<1>1. UNCHANGED <<current, nr_tasks>> /\ current \in Task
  BY DEF IInv, TypeOK, Local, TakeIrq, TakeSync, KernelExit, GuestRun, ResumeWfx,
         HandleTrapSystem, HandleNothing, HandleTranslationFault, HandleMmio,
         HandleTimer3, IrqDone, ShellKick, ShellEscape, ShellEscaped, ForwardChar,
         PrepareTask, HvEnableIrq, Device, KeyPressed, RaiseTimer, sched
<1>2. at'[current] = "guest" => cpu'.vmid = current
  BY DEF IInv, TypeOK, GuestHasOwnStage2, Local, TakeIrq, TakeSync, KernelExit,
         GuestRun, ResumeWfx, HandleTrapSystem, HandleNothing, HandleTranslationFault,
         HandleMmio, HandleTimer3, IrqDone, ShellKick, ShellEscape, ShellEscaped,
         ForwardChar, PrepareTask, HvEnableIrq, Device, KeyPressed, RaiseTimer,
         Handled, KernelEntry, Serving, ServingUart, regs, Outside
<1>3. ConsoleConsistent'
  <2>1. CASE ShellKick
    <3>1. uart_forwarded_task = HV /\ ~is_escaped /\ UNCHANGED is_escaped
      BY <2>1 DEF ShellKick, IInv, ConsoleConsistent
    <3>2. uart_forwarded_task' < nr_tasks
      BY <2>1 DEF ShellKick, IInv, ConsoleConsistent, TypeOK
    <3> QED BY <1>1, <3>1, <3>2 DEF ConsoleConsistent
  <2>2. CASE ForwardChar
    <3>1. uart_forwarded_task' < nr_tasks
      BY <2>2 DEF ForwardChar, IInv, ConsoleConsistent, TypeOK
    <3>2. uart_forwarded_task' = HV => ~is_escaped'
      BY <2>2 DEF ForwardChar
    <3> QED BY <1>1, <3>1, <3>2 DEF ConsoleConsistent
  <2>3. CASE ~ShellKick /\ ~ForwardChar
    <3>1. UNCHANGED uart
      BY <2>3 DEF Local, TakeIrq, TakeSync, KernelExit,
         GuestRun, ResumeWfx, HandleTrapSystem, HandleNothing, HandleTranslationFault,
         HandleMmio, HandleTimer3, IrqDone, ShellEscape, ShellEscaped,
         PrepareTask, HvEnableIrq, Device, KeyPressed, RaiseTimer
    <3> QED BY <1>1, <3>1 DEF IInv, ConsoleConsistent, uart
  <2> QED BY <2>1, <2>2, <2>3
<1> QED
  BY <1>1, <1>2, <1>3 DEF GuestHasOwnStage2

-----------------------------------------------------------------------------
\* Actions that call the scheduler or put a task in the table.

\* Whoever the scheduler picks is alive and has credit, or is task 0.
LEMMA SwitchFacts ==
  ASSUME NEW st \in [Task -> {"NONE", "RUNNING", "ZOMBIE"}], NEW cnt, Bounded(cnt),
         _schedule(st, cnt), state' = st
  PROVE  /\ current' \in Task /\ counter' \in [Task -> Nat]
         /\ NoZombieRuns' /\ CreditBounded'
         /\ state'[current'] = "RUNNING" \/ current' = HV
<1>1. /\ current' \in Task /\ Bounded(counter')
      /\ \/ st[current'] = "RUNNING" /\ counter'[current'] > 0
         \/ Runnable(st) = {} /\ current' = HV
  BY ScheduleFacts
<1>2. Runnable(st) = {} => st[current'] # "RUNNING"
  BY <1>1 DEF Runnable
<1> QED
  BY <1>1, <1>2 DEF NoZombieRuns, CreditBounded, Bounded

\* A stack that is parked where the scheduler was called from keeps the table
\* consistent, and no guest runs at once.
LEMMA ParkStacks ==
  ASSUME IInv, NEW me \in Task, me = current, current' \in Task,
         UNCHANGED nr_tasks, Parked(me)',
         state'[current'] = "RUNNING" \/ current' = HV,
         \A t \in Task : t # me => /\ at'[t] = at[t] /\ irq'[t] = irq[t]
                                   /\ state'[t] = state[t],
         \/ at'[me] = "panic" /\ state'[me] = "ZOMBIE"
         \/ state'[me] = state[me]
            /\ at'[me] \in (IF me = HV THEN {"irq", "resched"} ELSE {"irq", "wfx"})
  PROVE  StacksAgree' /\ GuestHasOwnStage2'
<1> USE TaskFacts
<1>1. \A t \in Task : StackAgrees(t)
  BY DEF IInv, StacksAgree
<1>2. nr_tasks \in Nat /\ nr_tasks > 0 /\ NoZombieRuns
  BY DEF IInv, TypeOK
<1>3. me < nr_tasks /\ at[me] # "absent" /\ state[me] # "NONE"
  BY <1>1, <1>2 DEF StackAgrees
<1>4. me # HV => state[me] # "ZOMBIE"
  BY <1>2 DEF NoZombieRuns
<1>5. StackAgrees(me)'
  BY <1>2, <1>3, <1>4 DEF StackAgrees
<1>6. ASSUME NEW t \in Task, t # me PROVE StackAgrees(t)'
  <2>1. /\ at'[t] = at[t] /\ irq'[t] = irq[t] /\ state'[t] = state[t]
        /\ StackAgrees(t)
    BY <1>1, <1>6
  <2>2. t = current' => t < nr_tasks
    BY <1>2, <2>1 DEF StackAgrees
  <2>3. t < nr_tasks => Parked(t)'
    BY <1>6, <2>1 DEF StackAgrees, Parked
  <2> QED BY <2>1, <2>2, <2>3 DEF StackAgrees
<1>7. at'[current'] # "guest"
  <2>1. CASE current' = me
    BY <2>1
  <2>2. CASE current' # me
    <3>1. StackAgrees(current') /\ at'[current'] = at[current']
      BY <1>1, <2>2
    <3>2. current' < nr_tasks
      BY <1>5, <1>6, <2>2 DEF StackAgrees
    <3> QED BY <2>2, <3>1, <3>2 DEF StackAgrees, Parked
  <2> QED BY <2>1, <2>2
<1> QED
  BY <1>5, <1>6, <1>7 DEF StacksAgree, GuestHasOwnStage2


LEMMA GiveUpBounded == IInv => Bounded([counter EXCEPT ![current] = 0])
BY TaskFacts DEF IInv, TypeOK, CreditBounded, Bounded

LEMMA HandleTimer1IInv == IInv /\ HandleTimer1 => IInv'
<1> SUFFICES ASSUME IInv, HandleTimer1 PROVE IInv'
  OBVIOUS
<1> USE TaskFacts
<1>1. /\ at[current] = "irq" /\ "timer1" \in irq[current] /\ current \in Task
      /\ irq' = [irq EXCEPT ![current] = @ \ {"timer1"}]
      /\ raised' = raised \ {"timer1"} /\ timer_tick
      /\ UNCHANGED <<nr_tasks, state, at, cpu, sysregs, pt_pc, rx, uart_forwarded_task,
                     is_escaped, free>>
  BY DEF IInv, TypeOK, HandleTimer1, Serving, Served, regs, uart
<1>2. /\ raised' \in SUBSET Timer /\ irq' \in [Task -> SUBSET Line]
      /\ "timer1" \notin irq'[current]
  BY <1>1 DEF IInv, TypeOK
<1>3. \A t \in Task : t # current => irq'[t] = irq[t]
  BY <1>1 DEF IInv, TypeOK
<1>4. ConsoleConsistent'
  BY <1>1 DEF IInv, ConsoleConsistent
<1>5. CASE counter[current] > 1
  <2>1. /\ counter' = [counter EXCEPT ![current] = @ - 1] /\ current' = current
        /\ counter'[current] > 0 /\ counter' \in [Task -> Nat]
        /\ \A t \in Task : counter'[t] < 2 * PRIORITY
    BY <1>1, <1>5 DEF timer_tick, IInv, TypeOK, CreditBounded
  <2>2. TypeOK'
    BY <1>1, <1>2, <2>1 DEF IInv, TypeOK
  <2>3. StacksAgree'
    BY <1>1, <1>3, <2>1 DEF IInv, StacksAgree, StackAgrees, Parked
  <2>4. NoZombieRuns' /\ CreditBounded' /\ GuestHasOwnStage2'
    BY <1>1, <2>1 DEF IInv, NoZombieRuns, CreditBounded, GuestHasOwnStage2
  <2> QED BY <1>4, <2>2, <2>3, <2>4 DEF IInv
<1>6. CASE ~(counter[current] > 1)
  <2>1. _schedule(state, [counter EXCEPT ![current] = 0])
    BY <1>1, <1>6 DEF timer_tick
  <2>2. /\ current' \in Task /\ counter' \in [Task -> Nat]
        /\ NoZombieRuns' /\ CreditBounded'
        /\ state'[current'] = "RUNNING" \/ current' = HV
    BY <1>1, <2>1, GiveUpBounded, SwitchFacts DEF IInv, TypeOK
  <2>3. TypeOK'
    BY <1>1, <1>2, <2>2 DEF IInv, TypeOK
  <2>4. StacksAgree' /\ GuestHasOwnStage2'
    <3> DEFINE me == current
    <3>1. /\ me \in Task /\ me = current /\ UNCHANGED nr_tasks
          /\ at'[me] = "irq" /\ "timer1" \notin irq'[me] /\ state'[me] = state[me]
          /\ \A t \in Task : t # me => /\ at'[t] = at[t] /\ irq'[t] = irq[t]
                                       /\ state'[t] = state[t]
      BY <1>1, <1>2, <1>3
    <3>2. PICK m \in Task : m = me
      BY <3>1
    <3> HIDE DEF me
    <3>3. Parked(m)'
      BY <3>1, <3>2 DEF Parked
    <3> QED BY <2>2, <3>1, <3>2, <3>3, ParkStacks
  <2> QED BY <1>4, <2>2, <2>3, <2>4 DEF IInv
<1> QED
  BY <1>5, <1>6

\* A task that calls schedule() itself: WFI or WFE for a guest, the main loop.
LEMMA CallScheduleIInv ==
  ASSUME IInv, HandleTrapWfx \/ HvSchedule
  PROVE  IInv'
<1> USE TaskFacts
<1>1. /\ schedule /\ current \in Task
      /\ at' = [at EXCEPT ![current] = IF current = HV THEN "resched" ELSE "wfx"]
      /\ UNCHANGED <<nr_tasks, state, irq, cpu, sysregs, pt_pc, raised, rx,
                     uart_forwarded_task, is_escaped, free>>
  BY DEF IInv, TypeOK, StacksAgree, StackAgrees, HandleTrapWfx, HvSchedule, regs, dev, uart
<1>2. /\ current' \in Task /\ counter' \in [Task -> Nat]
      /\ NoZombieRuns' /\ CreditBounded'
      /\ state'[current'] = "RUNNING" \/ current' = HV
  BY <1>1, GiveUpBounded, SwitchFacts DEF IInv, TypeOK, schedule
<1>3. at' \in [Task -> Point]
  BY <1>1 DEF IInv, TypeOK, Point
<1>4. TypeOK'
  BY <1>1, <1>2, <1>3 DEF IInv, TypeOK
<1>5. StacksAgree' /\ GuestHasOwnStage2'
  <2>1. PICK me \in Task : me = current
    BY <1>1
  <2>2. /\ at'[me] = (IF me = HV THEN "resched" ELSE "wfx")
        /\ \A t \in Task : t # me => at'[t] = at[t]
    BY <1>1, <2>1 DEF IInv, TypeOK
  <2>3. Parked(me)'
    BY <2>2 DEF Parked
  <2> QED BY <1>1, <1>2, <2>1, <2>2, <2>3, ParkStacks
<1>6. ConsoleConsistent'
  BY <1>1 DEF IInv, ConsoleConsistent
<1> QED
  BY <1>2, <1>4, <1>5, <1>6 DEF IInv

\* PANIC() with the task table otherwise as it was.
LEMMA FatalIInv ==
  ASSUME IInv, HandleFatal \/ CreateTaskFails \/ PrepareTaskFails
  PROVE  IInv'
<1> USE TaskFacts
<1>1. /\ PANIC(state, counter) /\ current \in Task
      /\ at' = [at EXCEPT ![current] = "panic"]
      /\ UNCHANGED <<nr_tasks, irq, cpu, sysregs, pt_pc, raised,
                     uart_forwarded_task, is_escaped>>
  BY DEF IInv, TypeOK, HandleFatal, CreateTaskFails, PrepareTaskFails, regs, dev, uart
<1>2. free' \in 0 .. POOL /\ rx' \in 0 .. MAX_RX
  BY SchedAssumption DEF IInv, TypeOK, HandleFatal, CreateTaskFails, PrepareTaskFails,
     dev, Vmld
<1>3. /\ state' = [state EXCEPT ![current] = "ZOMBIE"]
      /\ state' \in [Task -> {"NONE", "RUNNING", "ZOMBIE"}]
      /\ _schedule(state', [counter EXCEPT ![current] = 0])
  BY <1>1 DEF PANIC, IInv, TypeOK
<1>4. /\ current' \in Task /\ counter' \in [Task -> Nat]
      /\ NoZombieRuns' /\ CreditBounded'
      /\ state'[current'] = "RUNNING" \/ current' = HV
  <2>1. PICK st \in [Task -> {"NONE", "RUNNING", "ZOMBIE"}] : state' = st
    BY <1>3
  <2> QED BY <1>3, <2>1, GiveUpBounded, SwitchFacts
<1>5. at' \in [Task -> Point]
  BY <1>1 DEF IInv, TypeOK, Point
<1>6. TypeOK'
  BY <1>1, <1>2, <1>3, <1>4, <1>5 DEF IInv, TypeOK
<1>7. StacksAgree' /\ GuestHasOwnStage2'
  <2>1. PICK me \in Task : me = current
    BY <1>1
  <2>2. /\ at'[me] = "panic" /\ state'[me] = "ZOMBIE"
        /\ \A t \in Task : t # me => at'[t] = at[t] /\ state'[t] = state[t]
    BY <1>1, <1>3, <2>1 DEF IInv, TypeOK
  <2>3. Parked(me)'
    BY <2>2 DEF Parked
  <2> QED BY <1>1, <1>4, <2>1, <2>2, <2>3, ParkStacks
<1>8. ConsoleConsistent'
  BY <1>1 DEF IInv, ConsoleConsistent
<1> QED
  BY <1>4, <1>6, <1>7, <1>8 DEF IInv

\* Serving a key keeps the current task: a new one is entered in the table, or
\* (task 0 back from PANIC()) not even that.
LEMMA ServeIInv ==
  ASSUME IInv, CreateTask \/ HvSurvives
  PROVE  IInv'
<1> USE TaskFacts
<1>1. current' = current /\ current \in Task /\ nr_tasks \in Nat /\ nr_tasks > 0
  BY DEF IInv, TypeOK, CreateTask, HvSurvives, sched
<1>2. /\ irq' = [irq EXCEPT ![current] = @ \ {"aux"}] /\ rx' = 0
      /\ UNCHANGED <<raised, cpu, pt_pc, uart_forwarded_task, is_escaped>>
      /\ free' \in 0 .. POOL
  <2>1. /\ UartServed
        /\ UNCHANGED <<cpu, pt_pc, uart_forwarded_task, is_escaped>>
    BY DEF CreateTask, HvSurvives, NewRegs, regs, uart
  <2>2. free' \in 0 .. POOL
    <3>1. free \in 0 .. POOL /\ \A n \in Nat : free >= n => free - n \in 0 .. POOL
      BY SchedAssumption DEF IInv, TypeOK
    <3>2. TASK_PAGES + CONSOLE_PAGES \in Nat
      BY SchedAssumption
    <3> QED BY <3>1, <3>2 DEF CreateTask, HvSurvives
  <2> QED BY <2>1, <2>2 DEF UartServed, Served
<1>3. at[current] \in {"irq", "panic"}
  BY DEF CreateTask, HvSurvives, Vmld, ServingUart, Serving
<1>4. current < nr_tasks /\ (at[current] = "panic" => current = HV)
  BY <1>1 DEF IInv, StacksAgree, StackAgrees, NoZombieRuns
<1>5. CASE /\ nr_tasks' = nr_tasks
           /\ UNCHANGED <<state, counter, sysregs>>
           /\ at' = [at EXCEPT ![current] = "irq"]
  <2>1. at' \in [Task -> Point] /\ irq' \in [Task -> SUBSET Line]
    BY <1>2, <1>5 DEF IInv, TypeOK, Point
  <2>2. TypeOK'
    BY SchedAssumption, <1>1, <1>2, <1>5, <2>1 DEF IInv, TypeOK
  <2>3. StacksAgree'
    <3> SUFFICES ASSUME NEW t \in Task PROVE StackAgrees(t)'
      BY DEF StacksAgree
    <3>1. StackAgrees(t) /\ NoZombieRuns /\ StackAgrees(current)
      BY <1>1 DEF IInv, StacksAgree
    <3>2. CASE t = current
      BY <1>1, <1>3, <1>4, <1>5, <3>1, <3>2 DEF StackAgrees, NoZombieRuns, IInv, TypeOK
    <3>3. CASE t # current
      <4>1. at'[t] = at[t] /\ irq'[t] = irq[t]
        BY <1>2, <1>5, <3>3 DEF IInv, TypeOK
      <4> QED BY <1>1, <1>5, <3>1, <3>3, <4>1 DEF StackAgrees, Parked
    <3> QED BY <3>2, <3>3
  <2>4. NoZombieRuns' /\ CreditBounded' /\ GuestHasOwnStage2' /\ ConsoleConsistent'
    BY <1>1, <1>2, <1>3, <1>5 DEF IInv, TypeOK, NoZombieRuns, CreditBounded,
       GuestHasOwnStage2, ConsoleConsistent
  <2> QED BY <2>2, <2>3, <2>4 DEF IInv
<1>6. CASE /\ nr_tasks < NR_TASKS /\ nr_tasks' = nr_tasks + 1
           /\ state' = NewState /\ counter' = NewCounter /\ NewRegs
           /\ at' = [at EXCEPT ![nr_tasks] = "kthread", ![current] = "irq"]
  <2>0. nr_tasks \in Task /\ nr_tasks # current /\ nr_tasks # HV
    BY <1>1, <1>4, <1>6
  <2>1. at' \in [Task -> Point] /\ irq' \in [Task -> SUBSET Line]
    BY <1>2, <1>6 DEF IInv, TypeOK, Point
  <2>2. /\ state' \in [Task -> {"NONE", "RUNNING", "ZOMBIE"}]
        /\ counter' \in [Task -> Nat] /\ sysregs' \in [Task -> Reg]
        /\ nr_tasks' \in 1 .. NR_TASKS
    <3>1. nr_tasks' \in 1 .. NR_TASKS
      BY <1>1, <1>6
    <3>2. state' \in [Task -> {"NONE", "RUNNING", "ZOMBIE"}]
      BY <1>6 DEF IInv, TypeOK, NewState
    <3>3. counter' \in [Task -> Nat] /\ sysregs' \in [Task -> Reg]
      BY SchedAssumption, <1>6 DEF IInv, TypeOK, NewCounter, NewRegs
    <3> QED BY <3>1, <3>2, <3>3
  <2>3. TypeOK'
    BY SchedAssumption, <1>1, <1>2, <2>1, <2>2 DEF IInv, TypeOK
  <2>4. /\ at'[nr_tasks] = "kthread" /\ state'[nr_tasks] = "RUNNING"
        /\ at'[current] = "irq" /\ state'[current] = state[current]
        /\ counter'[current] = counter[current]
        /\ \A t \in Task : counter'[t] < 2 * PRIORITY
        /\ \A t \in Task : t # nr_tasks /\ t # current =>
             at'[t] = at[t] /\ state'[t] = state[t] /\ irq'[t] = irq[t]
    BY <1>1, <1>2, <1>6, <2>0 DEF IInv, TypeOK, NewState, NewCounter, CreditBounded
  <2>5. StacksAgree'
    <3> SUFFICES ASSUME NEW t \in Task PROVE StackAgrees(t)'
      BY DEF StacksAgree
    <3>1. StackAgrees(t) /\ NoZombieRuns /\ StackAgrees(current)
      BY <1>1 DEF IInv, StacksAgree
    <3>2. CASE t = current
      BY <1>1, <1>3, <1>4, <1>6, <2>0, <2>4, <3>1, <3>2 DEF StackAgrees, NoZombieRuns
    <3>3. CASE t = nr_tasks
      BY <1>1, <1>4, <1>6, <2>0, <2>4, <3>3 DEF StackAgrees, Parked
    <3>4. CASE t # current /\ t # nr_tasks
      <4>1. (t < nr_tasks + 1 <=> t < nr_tasks) /\ (t >= nr_tasks + 1 <=> t >= nr_tasks)
        BY <1>1, <3>4
      <4>2. t < nr_tasks => Parked(t)'
        BY <2>4, <3>1, <3>4 DEF StackAgrees, Parked
      <4>3. at'[t] = at[t] /\ state'[t] = state[t] /\ current' = current
        BY <1>1, <2>4, <3>4
      <4> HIDE DEF HV
      <4> QED BY <1>6, <3>1, <3>4, <4>1, <4>2, <4>3 DEF StackAgrees
    <3> QED BY <3>2, <3>3, <3>4
  <2>6. NoZombieRuns' /\ CreditBounded' /\ GuestHasOwnStage2'
    BY <1>1, <1>3, <2>4 DEF IInv, NoZombieRuns, CreditBounded, GuestHasOwnStage2
  <2>7. ConsoleConsistent'
    BY <1>1, <1>2, <1>6 DEF IInv, TypeOK, ConsoleConsistent
  <2> QED BY <2>3, <2>5, <2>6, <2>7 DEF IInv
<1>7. CASE CreateTask
  <2>1. [at EXCEPT ![nr_tasks] = "kthread"]
          = [at EXCEPT ![nr_tasks] = "kthread", ![current] = "irq"]
    <3>1. at[current] = "irq" /\ current # nr_tasks
      BY <1>1, <1>4, <1>7 DEF CreateTask, Vmld, ServingUart, Serving
    <3>2. at \in [Task -> Point]
      BY DEF IInv, TypeOK
    <3> QED BY <3>1, <3>2
  <2> QED BY <1>6, <1>7, <2>1 DEF CreateTask, Vmld
<1>8. CASE HvSurvives
  BY <1>5, <1>6, <1>8 DEF HvSurvives, sched, regs
<1> QED
  BY <1>7, <1>8

\* PANIC() with the new task already in the table.
LEMMA HalfDoneIInv ==
  ASSUME IInv, CreateTaskHalfDone
  PROVE  IInv'
<1> USE TaskFacts
<1>1. /\ current \in Task /\ nr_tasks \in Nat /\ nr_tasks > 0 /\ current < nr_tasks
      /\ nr_tasks < NR_TASKS /\ nr_tasks \in Task /\ nr_tasks # current /\ nr_tasks # HV
      /\ at[current] = "irq"
  BY DEF IInv, TypeOK, StacksAgree, StackAgrees, CreateTaskHalfDone, Vmld, ServingUart, Serving
<1>2. /\ nr_tasks' = nr_tasks + 1 /\ NewRegs /\ free' = 0 /\ rx' = rx - 1 /\ rx > 0
      /\ PANIC(NewState, NewCounter)
      /\ at' = [at EXCEPT ![nr_tasks] = "kthread", ![current] = "panic"]
      /\ UNCHANGED <<irq, raised, uart_forwarded_task, is_escaped>>
  BY DEF CreateTaskHalfDone, Vmld, uart
<1>3. NewState \in [Task -> {"NONE", "RUNNING", "ZOMBIE"}] /\ Bounded(NewCounter)
  <2>1. NewState \in [Task -> {"NONE", "RUNNING", "ZOMBIE"}]
    BY <1>1 DEF IInv, TypeOK, NewState
  <2>2. NewCounter \in [Task -> Nat]
    BY <1>1 DEF IInv, TypeOK, NewCounter
  <2>3. PRIORITY < 2 * PRIORITY
    OBVIOUS
  <2>4. \A t \in Task : NewCounter[t] < 2 * PRIORITY
    BY <1>1, <2>3 DEF IInv, TypeOK, CreditBounded, NewCounter
  <2> QED BY <2>1, <2>2, <2>4 DEF Bounded
<1>4. /\ state' = [NewState EXCEPT ![current] = "ZOMBIE"]
      /\ state' \in [Task -> {"NONE", "RUNNING", "ZOMBIE"}]
      /\ _schedule(state', [NewCounter EXCEPT ![current] = 0])
  BY <1>1, <1>2, <1>3 DEF PANIC
<1>5. Bounded([NewCounter EXCEPT ![current] = 0])
  BY <1>1, <1>3 DEF Bounded
<1>6. /\ current' \in Task /\ counter' \in [Task -> Nat]
      /\ NoZombieRuns' /\ CreditBounded'
      /\ state'[current'] = "RUNNING" \/ current' = HV
  <2>1. PICK st \in [Task -> {"NONE", "RUNNING", "ZOMBIE"}] : state' = st
    BY <1>4
  <2>2. PICK cnt : cnt = [NewCounter EXCEPT ![current] = 0]
    OBVIOUS
  <2> QED BY <1>4, <1>5, <2>1, <2>2, SwitchFacts
<1>7. TypeOK'
  <2>1. nr_tasks' \in 1 .. NR_TASKS
    BY <1>1, <1>2
  <2>2. at' \in [Task -> Point]
    BY <1>2 DEF IInv, TypeOK, Point
  <2>3. sysregs' \in [Task -> Reg] /\ UNCHANGED <<cpu, pt_pc>>
    BY SchedAssumption, <1>2 DEF IInv, TypeOK, NewRegs
  <2>4. free' \in 0 .. POOL /\ rx' \in 0 .. MAX_RX
    BY SchedAssumption, <1>2 DEF IInv, TypeOK
  <2> QED BY <1>2, <1>4, <1>6, <2>1, <2>2, <2>3, <2>4 DEF IInv, TypeOK
<1>8. /\ at'[nr_tasks] = "kthread" /\ state'[nr_tasks] = "RUNNING"
      /\ at'[current] = "panic" /\ state'[current] = "ZOMBIE"
      /\ \A t \in Task : t # nr_tasks /\ t # current =>
           at'[t] = at[t] /\ state'[t] = state[t] /\ irq'[t] = irq[t]
  BY <1>1, <1>2, <1>3, <1>4 DEF IInv, TypeOK, NewState
<1>9. ASSUME NEW t \in Task PROVE StackAgrees(t)' /\ (t < nr_tasks' => Parked(t)')
  <2>1. StackAgrees(t)
    BY DEF IInv, StacksAgree
  <2>2. t = current' => t = HV \/ state'[t] = "RUNNING"
    BY <1>6
  <2>3. CASE t = current
    BY <1>1, <1>2, <1>8, <2>3 DEF StackAgrees, Parked
  <2>4. CASE t = nr_tasks
    BY <1>1, <1>2, <1>8, <2>4 DEF StackAgrees, Parked
  <2>5. CASE t # current /\ t # nr_tasks
    <3>1. (t < nr_tasks + 1 <=> t < nr_tasks) /\ (t >= nr_tasks + 1 <=> t >= nr_tasks)
      BY <1>1, <2>5
    <3>2. at'[t] = at[t] /\ irq'[t] = irq[t] /\ state'[t] = state[t]
      BY <1>8, <2>5
    <3>3. t < nr_tasks => Parked(t)'
      BY <2>1, <2>5, <3>2 DEF StackAgrees, Parked
    <3>4. t = current' => t < nr_tasks
      BY <1>1, <2>1, <2>2, <3>2 DEF StackAgrees
    <3> HIDE DEF HV
    <3> QED BY <1>2, <2>1, <3>1, <3>2, <3>3, <3>4 DEF StackAgrees
  <2> QED BY <2>3, <2>4, <2>5
<1>10. StacksAgree' /\ GuestHasOwnStage2'
  <2>1. PICK next \in Task : next = current'
    BY <1>6
  <2>2. Parked(next)'
    BY <1>9, <2>1 DEF StackAgrees
  <2>3. at'[next] # "guest"
    BY <2>2 DEF Parked
  <2> QED BY <1>9, <2>1, <2>3 DEF StacksAgree, GuestHasOwnStage2
<1>11. ConsoleConsistent'
  BY <1>1, <1>2 DEF IInv, TypeOK, ConsoleConsistent
<1> QED
  BY <1>6, <1>7, <1>10, <1>11 DEF IInv

-----------------------------------------------------------------------------
LEMMA NextIInv == IInv /\ [Next]_vars => IInv'
<1> SUFFICES ASSUME IInv, [Next]_vars PROVE IInv'
  OBVIOUS
<1>1. CASE Local
  BY <1>1, LocalTypeOK, LocalStacks, LocalRest DEF IInv
<1>2. CASE UNCHANGED vars
  BY <1>2 DEF vars, sched, regs, dev, uart, IInv, TypeOK, StacksAgree, StackAgrees, Parked,
     NoZombieRuns, CreditBounded, GuestHasOwnStage2, ConsoleConsistent
<1>3. CASE HandleTimer1
  BY <1>3, HandleTimer1IInv
<1>4. CASE HandleTrapWfx \/ HvSchedule
  BY <1>4, CallScheduleIInv
<1>5. CASE HandleFatal \/ CreateTaskFails \/ PrepareTaskFails
  BY <1>5, FatalIInv
<1>6. CASE CreateTask \/ HvSurvives
  BY <1>6, ServeIInv
<1>7. CASE CreateTaskHalfDone
  BY <1>7, HalfDoneIInv
<1> QED
  BY <1>1, <1>2, <1>3, <1>4, <1>5, <1>6, <1>7
     DEF Next, El2, HandleSync, HandleIrq, HandleUart, Local

LEMMA Invariance == Spec => []IInv
<1>1. Init => IInv
  BY InitIInv
<1>2. IInv /\ [Next]_vars => IInv'
  BY NextIInv
<1> QED
  BY <1>1, <1>2, PTL DEF Spec

\* Every stack but the running one is parked where it called the scheduler, and
\* the table, the stacks and the task states agree (sched.c:57-113).
THEOREM StacksCorrect == Spec => []StacksAgree
BY Invariance, PTL DEF IInv

\* A VM that PANIC() ended never gets the CPU again (sched.c:27-58, 103-113).
THEOREM NoZombieCorrect == Spec => []NoZombieRuns
BY Invariance, PTL DEF IInv

\* The pool is never overdrawn, whoever holds the CPU has credit for the next
\* tick, and no refill takes it to twice the priority (mm.c:54-73, sched.c:46-54,
\* 92-101).
THEOREM BoundsCorrect == Spec => []BoundsKept
BY Invariance, PTL DEF IInv, BoundsKept

\* A guest runs only on its own stage-2 tables (sched.c:115-131).
THEOREM Stage2Correct == Spec => []GuestHasOwnStage2
BY Invariance, PTL DEF IInv

\* The console belongs to an existing task and the hypervisor never inherits an
\* escape (mini_uart.c:47-89).
THEOREM ConsoleCorrect == Spec => []ConsoleConsistent
BY Invariance, PTL DEF IInv

-----------------------------------------------------------------------------
(***************************************************************************)
(* Sched implements PrivateCpu, for every number of tasks and all register *)
(* contents: each step is a step of one VM's own CPU, or none.             *)
(***************************************************************************)
\* A slot that was never used holds the registers that its first task gets.
Unused == \A t \in Task : at[t] = "absent" => sysregs[t] = InitReg

JInv == IInv /\ Unused

\* What the abstract CPU of t is left alone by.
SameRegs(t) == El1Of(t)' = El1Of(t) /\ PcOf(t)' = PcOf(t)
Same(t) == PhaseOf(t)' = PhaseOf(t) /\ SameRegs(t)

Phases == [t \in VM |-> PhaseOf(t)]
El1s == [t \in VM |-> El1Of(t)]
Pcs == [t \in VM |-> PcOf(t)]

LEMMA VmFacts ==
  /\ \A t : t \in VM <=> t \in Task /\ t # HV
  /\ IInv => current \in Task /\ nr_tasks \in Nat /\ nr_tasks > 0
BY TaskFacts DEF VM, IInv, TypeOK

\* Only the current task can be outside the hypervisor, and it is not a zombie
\* if it is a VM.
LEMMA CurrentFacts ==
  ASSUME IInv
  PROVE  /\ current < nr_tasks /\ at[current] # "absent"
         /\ current \in VM => state[current] = "RUNNING" /\ at[current] # "panic"
         /\ \A t \in Task : t # current => at[t] \notin {"guest", "ret", "sync"}
<1> USE TaskFacts, VmFacts
<1>1. \A t \in Task : StackAgrees(t)
  BY DEF IInv, StacksAgree
<1>2. current < nr_tasks /\ at[current] # "absent" /\ state[current] # "NONE"
  BY <1>1 DEF StackAgrees
<1>3. current \in VM => state[current] # "ZOMBIE"
  BY DEF IInv, NoZombieRuns
<1>4. current \in VM => at[current] # "panic"
  BY <1>1, <1>3 DEF StackAgrees
<1>5. ASSUME NEW t \in Task, t # current PROVE at[t] \notin {"guest", "ret", "sync"}
  <2>1. CASE t < nr_tasks
    BY <1>1, <1>5, <2>1 DEF StackAgrees, Parked
  <2>2. CASE t >= nr_tasks
    BY <1>1, <2>2 DEF StackAgrees
  <2> QED BY <2>1, <2>2
<1>6. state[current] \in {"NONE", "RUNNING", "ZOMBIE"}
  BY DEF IInv, TypeOK
<1> QED BY <1>2, <1>3, <1>4, <1>5, <1>6

-----------------------------------------------------------------------------
\* From facts about each VM to steps of the abstract CPUs.

LEMMA StutterStep ==
  ASSUME \A t \in VM : Same(t)
  PROVE  UNCHANGED <<Phases, El1s, Pcs>>
BY DEF Same, SameRegs, Phases, El1s, Pcs

LEMMA MoveStep ==
  ASSUME NEW v \in VM, NEW from, NEW to, PhaseOf(v) = from, PhaseOf(v)' = to,
         SameRegs(v), \A t \in VM : t # v => Same(t)
  PROVE  Cpu!Move(v, from, to) /\ UNCHANGED <<El1s, Pcs>>
<1>1. UNCHANGED <<El1s, Pcs>>
  BY DEF Same, SameRegs, El1s, Pcs
<1>2. Phases' = [Phases EXCEPT ![v] = to] /\ Phases[v] = from
  BY DEF Same, Phases
<1> QED BY <1>1, <1>2 DEF Cpu!Move, Phases

LEMMA AdvanceStep ==
  ASSUME NEW v \in VM, El1Of(v)' \in Reg, PcOf(v)' = (PcOf(v) + 1) % PC_MOD,
         \A t \in VM : t # v => SameRegs(t)
  PROVE  Cpu!Advance(v)
<1>1. Pcs' = [Pcs EXCEPT ![v] = (@ + 1) % PC_MOD]
  BY DEF SameRegs, Pcs
<1>2. El1s' = [El1s EXCEPT ![v] = El1Of(v)']
  BY DEF SameRegs, El1s
<1> QED BY <1>1, <1>2 DEF Cpu!Advance, El1s, Pcs

\* A task that neither runs nor is touched is the same to its abstract CPU,
\* also when it is the next to run.
LEMMA OthersSame ==
  ASSUME IInv, NEW t \in VM, t # current,
         at'[t] = at[t], state'[t] = state[t], sysregs'[t] = sysregs[t], pt_pc'[t] = pt_pc[t]
  PROVE  Same(t)
<1>1. at[t] # "guest"
  BY CurrentFacts, VmFacts
<1>2. ~OnCpu(t) /\ ~OnCpu(t)'
  BY <1>1 DEF OnCpu
<1>3. PhaseOf(t)' = PhaseOf(t)
  BY DEF PhaseOf
<1> QED BY <1>2, <1>3 DEF Same, SameRegs, El1Of, PcOf

\* What an action may touch when it runs on the current task's stack.
CurrentOnly ==
  \A t \in Task : t # current =>
    at'[t] = at[t] /\ state'[t] = state[t] /\ sysregs'[t] = sysregs[t] /\ pt_pc'[t] = pt_pc[t]

LEMMA CurrentOnlySame ==
  ASSUME IInv, CurrentOnly
  PROVE  \A t \in VM : t # current => Same(t)
BY OthersSame, VmFacts DEF CurrentOnly

\* The current task stays inside the hypervisor, with its registers saved, or
\* is task 0.
LEMMA InsideStep ==
  ASSUME IInv, CurrentOnly,
         \A v \in VM : v = current => /\ at[v] # "guest" /\ at'[v] # "guest"
                                      /\ PhaseOf(v)' = PhaseOf(v)
                                      /\ sysregs'[v] = sysregs[v]
                                      /\ pt_pc'[v] = pt_pc[v]
  PROVE  UNCHANGED <<Phases, El1s, Pcs>>
<1>1. \A v \in VM : v = current => Same(v)
  BY DEF Same, SameRegs, El1Of, PcOf, OnCpu
<1> QED BY <1>1, CurrentOnlySame, StutterStep

-----------------------------------------------------------------------------
\* One lemma for each kind of step.

AbsNext == Cpu!Next \/ UNCHANGED <<Phases, El1s, Pcs>>

LEMMA EnterStep == IInv /\ KernelExit => AbsNext
<1> SUFFICES ASSUME IInv, KernelExit PROVE AbsNext
  OBVIOUS
<1> USE VmFacts
<1>0. CurrentOnly /\ current' = current
  BY DEF CurrentOnly, KernelExit, IInv, TypeOK, sched
<1>1. CASE current = HV
  BY <1>0, <1>1, InsideStep DEF AbsNext
<1>2. CASE current # HV
  <2>1. /\ current \in VM /\ at[current] = "ret" /\ at'[current] = "guest"
        /\ state[current] = "RUNNING" /\ state'[current] = "RUNNING"
        /\ cpu'.el1 = sysregs[current] /\ cpu'.pc = pt_pc[current]
    BY <1>2, CurrentFacts DEF KernelExit, IInv, TypeOK, sched
  <2>2. PhaseOf(current) = "ready" /\ PhaseOf(current)' = "user"
    BY <1>0, <2>1 DEF PhaseOf
  <2>3. SameRegs(current)
    BY <1>0, <2>1 DEF SameRegs, El1Of, PcOf, OnCpu
  <2>4. Cpu!Move(current, "ready", "user") /\ UNCHANGED <<El1s, Pcs>>
    <3>1. PICK v \in VM : v = current
      BY <2>1
    <3> QED BY <1>0, <2>2, <2>3, <3>1, CurrentOnlySame, MoveStep
  <2>5. \A u \in VM : Phases[u] # "user"
    <3> SUFFICES ASSUME NEW u \in VM PROVE PhaseOf(u) # "user"
      BY DEF Phases
    <3>1. at[u] # "guest"
      BY <2>1, CurrentFacts
    <3> QED BY <3>1 DEF PhaseOf
  <2> QED BY <2>1, <2>4, <2>5 DEF AbsNext, Cpu!Next, Cpu!Enter, Phases, El1s, Pcs
<1> QED BY <1>1, <1>2

LEMMA TrapStep == IInv /\ (TakeIrq \/ TakeSync) => AbsNext
<1> SUFFICES ASSUME IInv, TakeIrq \/ TakeSync PROVE AbsNext
  OBVIOUS
<1> USE VmFacts
<1>0. /\ CurrentOnly /\ current' = current
      /\ at[current] \in {"guest", "main"} /\ at'[current] \in {"irq", "sync"}
      /\ sysregs'[current] = cpu.el1 /\ pt_pc'[current] = cpu.pc
      /\ state' = state
  BY DEF CurrentOnly, TakeIrq, TakeSync, KernelEntry, Outside, IInv, TypeOK, sched
<1>1. CASE current = HV
  BY <1>0, <1>1, InsideStep DEF AbsNext
<1>2. CASE current # HV
  <2>1. current \in VM /\ at[current] = "guest" /\ state[current] = "RUNNING"
    BY <1>0, <1>2, CurrentFacts DEF IInv, StacksAgree, StackAgrees
  <2>2. PhaseOf(current) = "user" /\ PhaseOf(current)' = "kernel"
    BY <1>0, <2>1 DEF PhaseOf
  <2>3. SameRegs(current)
    BY <1>0, <2>1 DEF SameRegs, El1Of, PcOf, OnCpu
  <2>4. Cpu!Move(current, "user", "kernel") /\ UNCHANGED <<El1s, Pcs>>
    <3>1. PICK v \in VM : v = current
      BY <2>1
    <3> QED BY <1>0, <2>2, <2>3, <3>1, CurrentOnlySame, MoveStep
  <2> QED BY <2>1, <2>4 DEF AbsNext, Cpu!Next, Cpu!Trap, El1s, Pcs
<1> QED BY <1>1, <1>2

LEMMA ExecuteStep == IInv /\ GuestRun => AbsNext
<1> SUFFICES ASSUME IInv, GuestRun PROVE AbsNext
  OBVIOUS
<1> USE VmFacts
<1>0. /\ CurrentOnly /\ current' = current
      /\ at[current] = "guest" /\ at' = at /\ state' = state
      /\ cpu'.el1 \in Reg /\ cpu'.pc = (cpu.pc + 1) % PC_MOD
  BY DEF CurrentOnly, GuestRun, IInv, TypeOK, sched
<1>1. current \in VM /\ state[current] = "RUNNING"
  BY <1>0, CurrentFacts DEF IInv, StacksAgree, StackAgrees
<1>2. PhaseOf(current) = "user" /\ PhaseOf(current)' = PhaseOf(current)
  BY <1>0, <1>1 DEF PhaseOf
<1>3. El1Of(current)' \in Reg /\ PcOf(current)' = (PcOf(current) + 1) % PC_MOD
  BY <1>0 DEF El1Of, PcOf, OnCpu
<1>4. PICK v \in VM : v = current
  BY <1>1
<1>5. \A t \in VM : t # v => Same(t)
  BY <1>0, <1>4, CurrentOnlySame
<1>6. Cpu!Advance(v)
  BY <1>0, <1>3, <1>4, <1>5, AdvanceStep DEF Same
<1>7. UNCHANGED Phases
  BY <1>0, <1>2, <1>4, <1>5 DEF Phases, Same
<1> QED BY <1>2, <1>4, <1>6, <1>7 DEF AbsNext, Cpu!Next, Cpu!Execute, Phases

\* The hypervisor is done with the trap: the instruction will run (again).
LEMMA RetryStep ==
  IInv /\ (IrqDone \/ HandleNothing \/ HandleTranslationFault) => AbsNext
<1> SUFFICES ASSUME IInv, IrqDone \/ HandleNothing \/ HandleTranslationFault
             PROVE  AbsNext
  OBVIOUS
<1> USE VmFacts
<1>0. /\ CurrentOnly /\ current' = current
      /\ at[current] \in {"irq", "sync"} /\ at'[current] = "ret"
      /\ UNCHANGED <<state, sysregs, pt_pc>>
  BY DEF CurrentOnly, IrqDone, HandleNothing, HandleTranslationFault, Handled, IInv,
         TypeOK, sched, regs
<1>1. CASE current = HV
  BY <1>0, <1>1, InsideStep DEF AbsNext
<1>2. CASE current # HV
  <2>1. current \in VM /\ state[current] = "RUNNING"
    BY <1>2, CurrentFacts
  <2>2. PhaseOf(current) = "kernel" /\ PhaseOf(current)' = "ready"
    BY <1>0, <2>1 DEF PhaseOf
  <2>3. SameRegs(current)
    BY <1>0 DEF SameRegs, El1Of, PcOf, OnCpu
  <2>4. Cpu!Move(current, "kernel", "ready") /\ UNCHANGED <<El1s, Pcs>>
    <3>1. PICK v \in VM : v = current
      BY <2>1
    <3> QED BY <1>0, <2>2, <2>3, <3>1, CurrentOnlySame, MoveStep
  <2> QED BY <2>1, <2>4 DEF AbsNext, Cpu!Next, Cpu!Retry, El1s, Pcs
<1> QED BY <1>1, <1>2

\* The hypervisor completes the trapped instruction, once.
LEMMA EmulateStep ==
  IInv /\ (ResumeWfx \/ HandleTrapSystem \/ HandleMmio) => AbsNext
<1> SUFFICES ASSUME IInv, ResumeWfx \/ HandleTrapSystem \/ HandleMmio
             PROVE  AbsNext
  OBVIOUS
<1> USE VmFacts
<1>0. /\ CurrentOnly /\ current' = current
      /\ at[current] \in {"wfx", "sync"} /\ at'[current] = "ret"
      /\ sysregs'[current] \in Reg /\ pt_pc'[current] = (pt_pc[current] + 1) % PC_MOD
      /\ state' = state
  BY DEF CurrentOnly, ResumeWfx, HandleTrapSystem, HandleMmio, Handled,
         increment_current_pc, IInv, TypeOK, sched
<1>1. current \in VM /\ state[current] = "RUNNING"
  BY <1>0, CurrentFacts DEF IInv, StacksAgree, StackAgrees
<1>2. PhaseOf(current) = "kernel" /\ PhaseOf(current)' = "ready"
  BY <1>0, <1>1 DEF PhaseOf
<1>3. El1Of(current)' \in Reg /\ PcOf(current)' = (PcOf(current) + 1) % PC_MOD
  BY <1>0 DEF El1Of, PcOf, OnCpu
<1>4. PICK v \in VM : v = current
  BY <1>1
<1>5. \A t \in VM : t # v => Same(t)
  BY <1>0, <1>4, CurrentOnlySame
<1>6. Cpu!Advance(v)
  BY <1>0, <1>3, <1>4, <1>5, AdvanceStep DEF Same
<1>7. Phases' = [Phases EXCEPT ![v] = "ready"] /\ Phases[v] = "kernel"
  BY <1>0, <1>2, <1>4, <1>5 DEF Phases, Same
<1>8. Cpu!Emulate(v)
  BY <1>6, <1>7 DEF Cpu!Emulate, Cpu!Move, Phases
<1> QED BY <1>8 DEF AbsNext, Cpu!Next

\* Devices, the console and the scheduler leave every VM's CPU alone.
LEMMA QuietStep ==
  IInv /\ (HandleTimer1 \/ HandleTrapWfx \/ HvSchedule \/ HandleTimer3 \/ ShellKick
           \/ ShellEscape \/ ShellEscaped \/ ForwardChar \/ HvEnableIrq) => AbsNext
<1> SUFFICES ASSUME IInv, HandleTimer1 \/ HandleTrapWfx \/ HvSchedule \/ HandleTimer3
                          \/ ShellKick \/ ShellEscape \/ ShellEscaped \/ ForwardChar
                          \/ HvEnableIrq
             PROVE  AbsNext
  OBVIOUS
<1> USE VmFacts
<1>1. /\ CurrentOnly /\ UNCHANGED <<state, sysregs, pt_pc>>
      /\ \/ /\ at[current] \in {"irq", "sync", "esc2", "esc1"}
            /\ at'[current] \in {"irq", "wfx", "esc2", "esc1"}
         \/ current = HV
  BY DEF CurrentOnly, HandleTimer1, HandleTrapWfx, HvSchedule, HandleTimer3, ShellKick,
         ShellEscape, ShellEscaped, ForwardChar, HvEnableIrq, Serving, ServingUart,
         UartServed, Served, IInv, TypeOK, StacksAgree, StackAgrees, sched, regs
<1>2. ASSUME NEW v \in VM, v = current
      PROVE  /\ at[v] # "guest" /\ at'[v] # "guest" /\ PhaseOf(v)' = PhaseOf(v)
             /\ sysregs'[v] = sysregs[v] /\ pt_pc'[v] = pt_pc[v]
  <2>1. at[v] \in {"irq", "sync", "esc2", "esc1"} /\ at'[v] \in {"irq", "wfx", "esc2", "esc1"}
    BY <1>1, <1>2
  <2> QED BY <1>1, <2>1 DEF PhaseOf
<1> QED BY <1>1, <1>2, InsideStep DEF AbsNext

LEMMA DeviceStep == IInv /\ (Device \/ UNCHANGED vars) => AbsNext
<1> SUFFICES ASSUME IInv, Device \/ UNCHANGED vars PROVE AbsNext
  OBVIOUS
<1>1. UNCHANGED <<current, state, at, cpu, sysregs, pt_pc>>
  BY DEF Device, KeyPressed, RaiseTimer, vars, sched, regs
<1>2. \A t \in VM : Same(t)
  BY <1>1 DEF Same, SameRegs, PhaseOf, El1Of, PcOf, OnCpu
<1> QED BY <1>2, StutterStep DEF AbsNext

\* PANIC() ends the current VM and leaves its registers where they were saved.
LEMMA KillStep ==
  IInv /\ (HandleFatal \/ CreateTaskFails \/ PrepareTaskFails) => AbsNext
<1> SUFFICES ASSUME IInv, HandleFatal \/ CreateTaskFails \/ PrepareTaskFails
             PROVE  AbsNext
  OBVIOUS
<1> USE VmFacts
<1>0. /\ CurrentOnly /\ UNCHANGED <<sysregs, pt_pc>>
      /\ at[current] \in {"irq", "sync", "kthread"} /\ at'[current] = "panic"
      /\ state'[current] = "ZOMBIE"
  BY DEF CurrentOnly, HandleFatal, CreateTaskFails, PrepareTaskFails, PANIC, Vmld,
         Serving, ServingUart, IInv, TypeOK, regs
<1>1. CASE current = HV
  BY <1>0, <1>1, InsideStep DEF AbsNext
<1>2. CASE current # HV
  <2>1. PICK v \in VM : v = current
    BY <1>2
  <2>2. state[v] = "RUNNING"
    BY <2>1, CurrentFacts
  <2>3. PhaseOf(v) \in {"kernel", "loading"} /\ PhaseOf(v)' = "dead"
    BY <1>0, <2>1, <2>2 DEF PhaseOf
  <2>4. SameRegs(v)
    BY <1>0, <2>1 DEF SameRegs, El1Of, PcOf, OnCpu
  <2>5. Cpu!Move(v, PhaseOf(v), "dead") /\ UNCHANGED <<El1s, Pcs>>
    BY <1>0, <2>1, <2>3, <2>4, CurrentOnlySame, MoveStep
  <2>6. Cpu!Kill(v)
    BY <2>3, <2>5 DEF Cpu!Kill, Cpu!Alive, Cpu!Move, El1s, Pcs
  <2> QED BY <2>6 DEF AbsNext, Cpu!Next
<1> QED BY <1>1, <1>2

LEMMA LoadStep == IInv /\ PrepareTask => AbsNext
<1> SUFFICES ASSUME IInv, PrepareTask PROVE AbsNext
  OBVIOUS
<1> USE VmFacts
<1>0. /\ CurrentOnly /\ current' = current
      /\ at[current] = "kthread" /\ at'[current] = "ret"
      /\ pt_pc'[current] = 0 /\ UNCHANGED <<state, sysregs>>
  BY DEF CurrentOnly, PrepareTask, Handled, IInv, TypeOK, sched
<1>1. PICK v \in VM : v = current
  BY <1>0 DEF IInv, StacksAgree, StackAgrees
<1>2. state[v] = "RUNNING"
  BY <1>1, CurrentFacts
<1>3. PhaseOf(v) = "loading" /\ PhaseOf(v)' = "ready"
  BY <1>0, <1>1, <1>2 DEF PhaseOf
<1>4. El1Of(v)' = El1Of(v) /\ PcOf(v)' = 0
  BY <1>0, <1>1 DEF El1Of, PcOf, OnCpu
<1>5. \A t \in VM : t # v => Same(t)
  BY <1>0, <1>1, CurrentOnlySame
<1>6. Phases[v] = "loading" /\ Phases' = [Phases EXCEPT ![v] = "ready"]
  BY <1>3, <1>5 DEF Phases, Same
<1>7. UNCHANGED El1s /\ Pcs' = [Pcs EXCEPT ![v] = 0]
  BY <1>4, <1>5 DEF El1s, Pcs, Same, SameRegs
<1>8. Cpu!Load(v)
  BY <1>6, <1>7 DEF Cpu!Load, Cpu!Move, Phases, El1s, Pcs
<1> QED BY <1>8 DEF AbsNext, Cpu!Next

-----------------------------------------------------------------------------
\* The slot that create_task() fills starts with the registers every task gets.
LEMMA NewSlot ==
  ASSUME JInv, nr_tasks < NR_TASKS, NewRegs,
         at'[nr_tasks] = "kthread", state'[nr_tasks] = "RUNNING"
  PROVE  /\ nr_tasks \in VM /\ nr_tasks # current
         /\ PhaseOf(nr_tasks) = "absent" /\ PhaseOf(nr_tasks) # "dead"
         /\ \A v \in VM : v = nr_tasks => SameRegs(v) /\ PhaseOf(v)' = "loading"
<1> USE VmFacts, TaskFacts
<1>1. nr_tasks \in VM /\ nr_tasks # current
  BY CurrentFacts DEF JInv
<1>2. at[nr_tasks] = "absent" /\ state[nr_tasks] = "NONE" /\ sysregs[nr_tasks] = InitReg
  BY <1>1 DEF JInv, IInv, StacksAgree, StackAgrees, Unused
<1>3. sysregs' = sysregs /\ pt_pc' = pt_pc
  BY <1>1, <1>2 DEF NewRegs, JInv, IInv, TypeOK
<1>4. \A v \in VM : v = nr_tasks => SameRegs(v) /\ PhaseOf(v)' = "loading"
  BY <1>1, <1>2, <1>3 DEF SameRegs, El1Of, PcOf, OnCpu, PhaseOf
<1> QED BY <1>1, <1>2, <1>4 DEF PhaseOf

LEMMA CreateStep == JInv /\ (CreateTask \/ HvSurvives) => AbsNext
<1> SUFFICES ASSUME JInv, CreateTask \/ HvSurvives PROVE AbsNext
  OBVIOUS
<1> USE VmFacts DEF JInv
<1>1. CASE HvSurvives /\ UNCHANGED <<sched, regs>> /\ at' = [at EXCEPT ![current] = "irq"]
  <2>1. current = HV
    BY <1>1, CurrentFacts DEF HvSurvives
  <2>2. CurrentOnly
    BY <1>1 DEF CurrentOnly, IInv, TypeOK, sched, regs
  <2> QED BY <2>1, <2>2, InsideStep DEF AbsNext
<1>2. CASE /\ nr_tasks < NR_TASKS /\ NewRegs /\ state' = NewState /\ current' = current
           /\ at'[nr_tasks] = "kthread"
           /\ \A t \in VM : t # nr_tasks => at'[t] = at[t]
           /\ at[current] # "guest"
  <2>1. state'[nr_tasks] = "RUNNING"
    BY <1>2, TaskFacts DEF NewState, IInv, TypeOK
  <2>2. PICK n \in VM : n = nr_tasks
    BY <1>2, <2>1, NewSlot
  <2>3. PhaseOf(n) = "absent" /\ SameRegs(n) /\ PhaseOf(n)' = "loading"
    BY <1>2, <2>1, <2>2, NewSlot
  <2>4. sysregs' = sysregs /\ pt_pc' = pt_pc
    BY <1>2, <2>2, TaskFacts DEF NewRegs, IInv, StacksAgree, StackAgrees, Unused, TypeOK
  <2>5. ASSUME NEW t \in VM, t # n PROVE Same(t)
    <3>1. at'[t] = at[t] /\ state'[t] = state[t]
      BY <1>2, <2>2, <2>5 DEF NewState, IInv, TypeOK
    <3>2. ~OnCpu(t) /\ ~OnCpu(t)'
      BY <1>2, <3>1, CurrentFacts DEF OnCpu
    <3> QED BY <2>4, <3>1, <3>2 DEF Same, SameRegs, PhaseOf, El1Of, PcOf
  <2>6. Cpu!Move(n, "absent", "loading") /\ UNCHANGED <<El1s, Pcs>>
    BY <2>3, <2>5, MoveStep
  <2> QED BY <2>6 DEF AbsNext, Cpu!Next, Cpu!Create, El1s, Pcs
<1>3. CASE CreateTask
  <2>1. at' = [at EXCEPT ![nr_tasks] = "kthread"] /\ at[current] = "irq"
        /\ nr_tasks < NR_TASKS /\ NewRegs /\ state' = NewState /\ current' = current
    BY <1>3 DEF CreateTask, Vmld, ServingUart, Serving
  <2>2. nr_tasks \in Task
    BY <2>1, TaskFacts
  <2> QED BY <1>2, <2>1, <2>2 DEF IInv, TypeOK
<1>4. CASE HvSurvives /\ ~(UNCHANGED <<sched, regs>> /\ at' = [at EXCEPT ![current] = "irq"])
  <2>1. /\ at' = [at EXCEPT ![nr_tasks] = "kthread", ![current] = "irq"]
        /\ at[current] = "panic"
        /\ nr_tasks < NR_TASKS /\ NewRegs /\ state' = NewState /\ current' = current
    BY <1>4 DEF HvSurvives
  <2>2. nr_tasks \in Task /\ current = HV /\ nr_tasks # HV
    BY <2>1, TaskFacts, CurrentFacts
  <2> QED BY <1>2, <2>1, <2>2 DEF IInv, TypeOK
<1> QED BY <1>1, <1>3, <1>4 DEF HvSurvives

\* PANIC() in the middle of create_task(): one CPU is made, another ends.
LEMMA CreateAndKillStep == JInv /\ CreateTaskHalfDone => AbsNext
<1> SUFFICES ASSUME JInv, CreateTaskHalfDone PROVE AbsNext
  OBVIOUS
<1> USE VmFacts DEF JInv
<1>1. /\ nr_tasks < NR_TASKS /\ NewRegs /\ at[current] = "irq"
      /\ at' = [at EXCEPT ![nr_tasks] = "kthread", ![current] = "panic"]
      /\ state' = [NewState EXCEPT ![current] = "ZOMBIE"]
  BY DEF CreateTaskHalfDone, Vmld, ServingUart, Serving, PANIC
<1>2. nr_tasks \in Task /\ nr_tasks # current
  BY <1>1, TaskFacts, CurrentFacts
<1>3. /\ at'[nr_tasks] = "kthread" /\ state'[nr_tasks] = "RUNNING"
      /\ at'[current] = "panic" /\ state'[current] = "ZOMBIE"
      /\ \A t \in Task : t # nr_tasks /\ t # current => at'[t] = at[t] /\ state'[t] = state[t]
  BY <1>1, <1>2 DEF NewState, IInv, TypeOK
<1>4. PICK n \in VM : n = nr_tasks
  BY <1>1, <1>3, NewSlot
<1>5. PhaseOf(n) = "absent" /\ SameRegs(n) /\ PhaseOf(n)' = "loading"
  BY <1>1, <1>3, <1>4, NewSlot
<1>6. sysregs' = sysregs /\ pt_pc' = pt_pc
  BY <1>1, <1>4, TaskFacts DEF NewRegs, IInv, StacksAgree, StackAgrees, Unused, TypeOK
<1>7. ASSUME NEW t \in VM, t # n, t # current PROVE Same(t)
  BY <1>3, <1>4, <1>6, <1>7, OthersSame
<1>8. CASE current = HV
  <2>1. Cpu!Move(n, "absent", "loading") /\ UNCHANGED <<El1s, Pcs>>
    BY <1>5, <1>7, <1>8, MoveStep
  <2> QED BY <2>1 DEF AbsNext, Cpu!Next, Cpu!Create, El1s, Pcs
<1>9. CASE current # HV
  <2>1. PICK v \in VM : v = current
    BY <1>9
  <2>2. state[v] = "RUNNING" /\ v # n
    BY <1>2, <1>4, <2>1, CurrentFacts
  <2>3. PhaseOf(v) = "kernel" /\ PhaseOf(v)' = "dead" /\ SameRegs(v)
    BY <1>1, <1>3, <1>6, <2>1, <2>2 DEF PhaseOf, SameRegs, El1Of, PcOf, OnCpu
  <2>4. UNCHANGED <<El1s, Pcs>>
    BY <1>5, <1>7, <2>1, <2>3 DEF Same, SameRegs, El1s, Pcs
  <2>5. Phases' = [Phases EXCEPT ![n] = "loading", ![v] = "dead"]
    BY <1>5, <1>7, <2>1, <2>2, <2>3 DEF Same, Phases
  <2>6. Phases[n] = "absent" /\ Phases[v] = "kernel"
    BY <1>5, <2>3 DEF Phases
  <2>7. Cpu!CreateAndKill(n, v)
    BY <2>4, <2>5, <2>6 DEF Cpu!CreateAndKill, Phases, El1s, Pcs
  <2> QED BY <2>7 DEF AbsNext, Cpu!Next
<1> QED BY <1>8, <1>9

-----------------------------------------------------------------------------
\* Registers are written only for the current task and for a new one.
LEMMA NextUnused == JInv /\ [Next]_vars => Unused'
<1> SUFFICES ASSUME JInv, [Next]_vars, NEW t \in Task, at'[t] = "absent"
             PROVE  sysregs'[t] = InitReg
  BY DEF Unused
<1> USE VmFacts, TaskFacts DEF JInv
<1>1. current \in Task /\ at[current] # "absent" /\ (at[t] = "absent" => t # current)
  BY CurrentFacts
<1>2. at \in [Task -> Point] /\ sysregs \in [Task -> Reg]
  BY DEF IInv, TypeOK
<1>3. CASE Local
  BY <1>1, <1>2, <1>3 DEF Unused, Local, TakeIrq, TakeSync, KernelExit, GuestRun,
     ResumeWfx, HandleTrapSystem, HandleNothing, HandleTranslationFault, HandleMmio,
     HandleTimer3, IrqDone, ShellKick, ShellEscape, ShellEscaped, ForwardChar,
     PrepareTask, HvEnableIrq, Device, KeyPressed, RaiseTimer, Handled, KernelEntry, regs
<1>4. CASE HandleTimer1 \/ HandleTrapWfx \/ HvSchedule \/ HandleFatal
           \/ CreateTaskFails \/ PrepareTaskFails \/ UNCHANGED vars
  BY <1>1, <1>2, <1>4 DEF Unused, HandleTimer1, HandleTrapWfx, HvSchedule, HandleFatal,
     CreateTaskFails, PrepareTaskFails, vars, regs
<1>5. CASE CreateTask \/ CreateTaskHalfDone \/ HvSurvives
  BY <1>1, <1>2, <1>5 DEF Unused, CreateTask, CreateTaskHalfDone, HvSurvives, NewRegs, regs
<1> QED
  BY <1>3, <1>4, <1>5 DEF Next, El2, HandleSync, HandleIrq, HandleUart, Local

LEMMA StrongInvariance == Spec => []JInv
<1>1. Init => JInv
  BY InitIInv DEF Init, JInv, Unused
<1>2. JInv /\ [Next]_vars => JInv'
  BY NextIInv, NextUnused DEF JInv
<1> QED
  BY <1>1, <1>2, PTL DEF Spec

\* Saving, switching, emulating and restoring give every VM a CPU of its own
\* (entry.S:28-83, sched.c:57-142, task.c:29-67): its registers and its program
\* counter change only when it runs or when a trapped instruction is completed.
THEOREM SchedImplementsPrivateCpu == Spec => IsPrivateCpu
<1>1. Init => Cpu!Init
  <2> SUFFICES ASSUME Init PROVE Cpu!Init
    OBVIOUS
  <2>1. \A t \in VM : /\ PhaseOf(t) \in {"absent", "loading"}
                      /\ El1Of(t) = InitReg /\ PcOf(t) = 0
    BY VmFacts, TaskFacts DEF Init, PhaseOf, El1Of, PcOf, OnCpu
  <2> QED BY <2>1 DEF Cpu!Init
<1>2. JInv /\ [Next]_vars => [Cpu!Next]_<<Phases, El1s, Pcs>>
  <2> SUFFICES ASSUME JInv, [Next]_vars PROVE AbsNext
    BY DEF AbsNext
  <2>1. IInv
    BY DEF JInv
  <2> QED
    BY <2>1, EnterStep, TrapStep, ExecuteStep, RetryStep, EmulateStep, QuietStep,
       DeviceStep, KillStep, LoadStep, CreateStep, CreateAndKillStep
       DEF Next, El2, HandleSync, HandleIrq, HandleUart
<1> QED
  BY <1>1, <1>2, StrongInvariance, PTL DEF Spec, IsPrivateCpu, Cpu!Spec, Phases, El1s, Pcs
=============================================================================
