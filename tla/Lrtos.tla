-------------------------------- MODULE Lrtos --------------------------------
(***************************************************************************)
(* The guest kernel lrtos with the user program it carries (guests/lrtos/  *)
(* src).  Unlike the hypervisor it runs with interrupts enabled in its     *)
(* system calls, its page faults and inside its scheduler, so the timer    *)
(* interrupt can come between any two steps; preempt_count says when it    *)
(* must not switch tasks.                                                  *)
(*                                                                         *)
(* A task's stack is a sequence of frames, the last one being where it is; *)
(* the CPU works on the stack of `sp`, which is not `current` in the       *)
(* middle of switch_to().  An interrupt adds frames, a return takes them   *)
(* away.  The handler up to enable_irq() is one step, since it is masked.  *)
(*                                                                         *)
(* The program makes two tasks besides the initial one: kernel_process(),  *)
(* which becomes user_process(), and the child it forks.                   *)
(***************************************************************************)
EXTENDS Integers, Sequences, FiniteSets, FiniteSetsExt

CONSTANTS
  PRIORITY,     \* of the initial task, inherited by all (5)
  PoolSizes,    \* how many pages there may be (PAGING_PAGES)
  MAX_LATE,     \* bound on timer interrupts while a task may not be switched
  MAX_DEPTH     \* bound on the frames of a stack

\* Pages that making a task, moving to user mode (a code page and four tables),
\* the user program's one page fault, and copying its memory take.
TaskPages == 1
MovePages == 5
AbortPages == 1
CopyPages == MovePages + AbortPages
BeforeFork == TaskPages + MovePages + AbortPages

\* Only the failure to get a page for a forked task is handled by the code.
ASSUME LrtosAssumption ==
  /\ PRIORITY \in Nat \ {0} /\ MAX_LATE \in Nat /\ MAX_DEPTH \in Nat
  /\ PoolSizes \subseteq Nat
  /\ \A n \in PoolSizes : n = BeforeFork \/ n >= BeforeFork + TaskPages + CopyPages

Task == 0 .. 2

VARIABLES
  current, nr_tasks, state, counter, preempt_count,   \* sched.c
  stack, sp, masked,                \* frames; whose stack; PSTATE.I
  pool, mem_map, own, ind           \* mm.c: own[t] are the pages taken for t

sched == <<current, nr_tasks, state, counter, preempt_count>>
cpu == <<stack, sp, masked>>
mm == <<pool, mem_map, own, ind>>
vars == <<sched, cpu, mm>>

-----------------------------------------------------------------------------
\* Frames.  A frame is a point and what the code keeps in registers there: the
\* task chosen (next), or how many pages are still wanted (n), for whom, and the
\* page that was found (page).

At(pt) == [pt |-> pt]
Want(n, t) == [pt |-> "get", n |-> n, for |-> t]

Top == stack[sp][Len(stack[sp])]
Is(pt) == Top.pt = pt

\* The stack of sp without its last k frames, with the frames of s on top.
Less(k) == SubSeq(stack[sp], 1, Len(stack[sp]) - k)
Becomes(k, s) == stack' = [stack EXCEPT ![sp] = Less(k) \o s]
Goto(f) == Becomes(1, <<f>>)
Call(s) == Becomes(0, s)
Return == Becomes(1, <<>>)
Keep == UNCHANGED <<sp, masked>>

\* preempt_disable() and preempt_enable() work on current.
PreemptAdd(n) == preempt_count' = [preempt_count EXCEPT ![current] = @ + n]

-----------------------------------------------------------------------------
\* sched.c

Running == {t \in Task : state[t] = "RUNNING"}
\* Mutant: the scan forgets the state.
Candidates_all == {t \in Task : state[t] # "NONE"}
Candidates == Running

\* The scan of _schedule(): the first task with the largest counter above -1.
Best ==
  IF \A t \in Candidates : counter[t] <= -1
    THEN [c |-> -1, next |-> 0]
    ELSE LET c == Max({counter[t] : t \in Candidates}) IN
         [c |-> c, next |-> Min({t \in Candidates : counter[t] = c})]

\* schedule(): gives up the credit, then _schedule().
ScheduleZero ==
  /\ Is("schedule") /\ Goto(At("s_disable")) /\ Keep
  /\ counter' = [counter EXCEPT ![current] = 0]
  /\ UNCHANGED <<current, nr_tasks, state, preempt_count, mm>>

\* Mutant: _schedule() that can be interrupted and entered again.
ScheduleDisable_not ==
  /\ Is("s_disable") /\ Goto(At("s_scan")) /\ Keep /\ UNCHANGED <<sched, mm>>
ScheduleDisable ==
  /\ Is("s_disable") /\ Goto(At("s_scan")) /\ Keep /\ PreemptAdd(1)
  /\ UNCHANGED <<current, nr_tasks, state, counter, mm>>

ScheduleScan ==
  /\ Is("s_scan") /\ Keep
  /\ Goto(IF Best.c # 0 THEN [pt |-> "s_current", next |-> Best.next]
          ELSE At("s_refill"))
  /\ UNCHANGED <<sched, mm>>

\* Mutant: what is left of the old credit is not halved.
ScheduleRefill_whole ==
  /\ Is("s_refill") /\ Goto(At("s_scan")) /\ Keep
  /\ counter' = [t \in Task |-> IF state[t] = "NONE" THEN counter[t]
                                ELSE counter[t] + PRIORITY]
  /\ UNCHANGED <<current, nr_tasks, state, preempt_count, mm>>
ScheduleRefill ==
  /\ Is("s_refill") /\ Goto(At("s_scan")) /\ Keep
  /\ counter' = [t \in Task |-> IF state[t] = "NONE" THEN counter[t]
                                ELSE (counter[t] \div 2) + PRIORITY]
  /\ UNCHANGED <<current, nr_tasks, state, preempt_count, mm>>

\* switch_to(): current first, then (set_pgd() and) the stack.
SwitchCurrent ==
  /\ Is("s_current") /\ Keep
  /\ IF Top.next = current
       THEN Goto(At("s_enable")) /\ UNCHANGED current
       ELSE Goto([Top EXCEPT !.pt = "s_switch"]) /\ current' = Top.next
  /\ UNCHANGED <<nr_tasks, state, counter, preempt_count, mm>>

\* cpu_switch_to(): the old stack will go on behind the call.
CpuSwitchTo ==
  /\ Is("s_switch") /\ Goto(At("s_enable"))
  /\ sp' = Top.next
  /\ UNCHANGED <<masked, sched, mm>>

ScheduleEnable ==
  /\ Is("s_enable") /\ Return /\ Keep /\ PreemptAdd(-1)
  /\ UNCHANGED <<current, nr_tasks, state, counter, mm>>

\* timer_tick() from the timer interrupt: switches when the credit is used up
\* and current may be switched.
Credit == counter[current] - 1
MayGoOn == Credit > 0 \/ preempt_count[current] > 0
TickOnly ==
  /\ ~masked /\ MayGoOn
  /\ preempt_count[current] > 0 => Credit >= -MAX_LATE
  /\ counter' = [counter EXCEPT ![current] = Credit]
  /\ UNCHANGED <<current, nr_tasks, state, preempt_count, cpu, mm>>

\* Mutant: _schedule() is called with interrupts masked.
TickSwitch_masked ==
  /\ ~masked /\ ~MayGoOn /\ Len(stack[sp]) + 2 <= MAX_DEPTH
  /\ counter' = [counter EXCEPT ![current] = 0]
  /\ Call(<<At("i_exit"), At("s_disable")>>) /\ masked' = TRUE
  /\ UNCHANGED <<current, nr_tasks, state, preempt_count, sp, mm>>
TickSwitch ==
  /\ ~masked /\ ~MayGoOn /\ Len(stack[sp]) + 2 <= MAX_DEPTH
  /\ counter' = [counter EXCEPT ![current] = 0]
  /\ Call(<<At("i_exit"), At("s_disable")>>)
  /\ UNCHANGED <<current, nr_tasks, state, preempt_count, sp, masked, mm>>

\* disable_irq(), kernel_exit: back to what was interrupted, which was not
\* masked.
IrqExit ==
  /\ Is("i_exit") /\ Return /\ masked' = FALSE
  /\ UNCHANGED <<sp, sched, mm>>

\* exit_process()
ExitDisable ==
  /\ Is("exit") /\ Goto(At("e_zombie")) /\ Keep /\ PreemptAdd(1)
  /\ UNCHANGED <<current, nr_tasks, state, counter, mm>>
ExitZombie ==
  /\ Is("e_zombie") /\ Goto(At("e_enable")) /\ Keep
  /\ state' = [state EXCEPT ![current] = "ZOMBIE"]
  /\ UNCHANGED <<current, nr_tasks, counter, preempt_count, mm>>
\* Mutant: exit_process() does not call schedule().
ExitEnable_stays ==
  /\ Is("e_enable") /\ Return /\ Keep /\ PreemptAdd(-1)
  /\ UNCHANGED <<current, nr_tasks, state, counter, mm>>
ExitEnable ==
  /\ Is("e_enable") /\ Goto(At("schedule")) /\ Keep /\ PreemptAdd(-1)
  /\ UNCHANGED <<current, nr_tasks, state, counter, mm>>

-----------------------------------------------------------------------------
\* mm.c: get_free_page(), which looks for a page and then marks it, with
\* interrupts enabled

Free == (0 .. pool - 1) \ mem_map

FindPage ==
  /\ Is("get") /\ Free # {} /\ Keep
  /\ Goto([pt |-> "take", n |-> Top.n, for |-> Top.for, page |-> Min(Free)])
  /\ UNCHANGED <<sched, mm>>

\* Mutant: the page is not marked.
TakePage_unmarked ==
  /\ Is("take") /\ Keep
  /\ own' = [own EXCEPT ![Top.for] = @ \cup {Top.page}]
  /\ IF Top.n > 1 THEN Goto(Want(Top.n - 1, Top.for)) ELSE Return
  /\ UNCHANGED <<sched, pool, mem_map, ind>>
TakePage ==
  /\ Is("take") /\ Keep
  /\ mem_map' = mem_map \cup {Top.page}
  /\ own' = [own EXCEPT ![Top.for] = @ \cup {Top.page}]
  /\ IF Top.n > 1 THEN Goto(Want(Top.n - 1, Top.for)) ELSE Return
  /\ UNCHANGED <<sched, pool, ind>>

-----------------------------------------------------------------------------
\* fork.c: copy_process().  The frame below it is what its caller does next.

ForkDisable ==
  /\ Is("fork") /\ Keep /\ PreemptAdd(1)
  /\ Becomes(1, <<At("f_copy"), Want(TaskPages, nr_tasks)>>)
  /\ UNCHANGED <<current, nr_tasks, state, counter, mm>>

\* No page: the caller gets -1, and preempt_enable() is not called.
ForkFails ==
  /\ Is("get") /\ Free = {} /\ Keep
  /\ Becomes(3, <<At("failed")>>)
  /\ UNCHANGED <<sched, mm>>

\* The child of a user process gets copies of its pages.
ForkCopy ==
  /\ Is("f_copy") /\ Keep
  /\ IF current = 0 THEN Goto(At("f_insert"))
     ELSE Becomes(1, <<At("f_insert"), Want(CopyPages, nr_tasks)>>)
  /\ UNCHANGED <<sched, mm>>

\* Mutant: a new task that may be switched away before schedule_tail().
NewPreemptCount_0 == 0
NewPreemptCount == 1

\* The new task starts at ret_from_fork.
ForkInsert ==
  /\ Is("f_insert") /\ Keep
  /\ state' = [state EXCEPT ![nr_tasks] = "RUNNING"]
  /\ counter' = [counter EXCEPT ![nr_tasks] = PRIORITY]
  /\ preempt_count' = [preempt_count EXCEPT ![nr_tasks] = NewPreemptCount]
  /\ stack' = [stack EXCEPT ![sp] = Less(1) \o <<At("f_enable")>>,
                 ![nr_tasks] = <<At(IF current = 0 THEN "kernel_process" ELSE "loop"),
                                 At("s_tail")>>]
  /\ nr_tasks' = nr_tasks + 1
  /\ UNCHANGED <<current, mm>>

\* Mutant: copy_process() leaves without preempt_enable() here as well.
ForkEnable_not ==
  /\ Is("f_enable") /\ Return /\ Keep /\ UNCHANGED <<sched, mm>>
ForkEnable ==
  /\ Is("f_enable") /\ Return /\ Keep /\ PreemptAdd(-1)
  /\ UNCHANGED <<current, nr_tasks, state, counter, mm>>

\* ret_from_fork: schedule_tail(), then the kernel thread's function or
\* ret_to_user.
ScheduleTail ==
  /\ Is("s_tail") /\ Return /\ Keep /\ PreemptAdd(-1)
  /\ UNCHANGED <<current, nr_tasks, state, counter, mm>>

-----------------------------------------------------------------------------
\* kernel.c and user.c: where each task is outside the kernel's services

Follow(pt, s) == Is(pt) /\ Becomes(1, s) /\ Keep /\ UNCHANGED <<sched, mm>>

\* kernel_main(): the first task, then schedule() for ever.
Main ==
  \/ Follow("kernel_main", <<At("main"), At("fork")>>)
  \/ Follow("main", <<At("main"), At("schedule")>>)

\* kernel_process(), move_to_user_mode() and, from user_process(), the fault at
\* the first use of its stack, a write and the fork.
UserProcess ==
  \/ Follow("kernel_process", <<At("user"), Want(MovePages, current)>>)
  \/ Follow("user", <<At("aborted"), Want(AbortPages, current)>>)
  \/ Follow("ready", <<At("forking"), At("write")>>)
  \/ Follow("forking", <<At("loop"), At("fork")>>)
  \* loop(): a write and a delay, for ever; or the fork failed.
  \/ Follow("loop", <<At("loop"), At("write")>>)
  \* (The frame under "exit" is for user code that would run after it.)
  \/ Follow("failed", <<At("loop"), At("exit"), At("write")>>)

\* The end of do_mem_abort(): only the first fault ever is answered.
MemAbort ==
  /\ Is("aborted") /\ Keep
  /\ ind' = ind + 1
  /\ Goto(At(IF ind + 1 > 2 THEN "hang" ELSE "ready"))
  /\ UNCHANGED <<sched, pool, mem_map, own>>

\* sys_write() prints.
SysWrite == Is("write") /\ Return /\ Keep /\ UNCHANGED <<sched, mm>>

-----------------------------------------------------------------------------
Init ==
  /\ current = 0 /\ nr_tasks = 1
  /\ state = [t \in Task |-> IF t = 0 THEN "RUNNING" ELSE "NONE"]
  /\ counter = [t \in Task |-> 0] /\ preempt_count = [t \in Task |-> 0]
  /\ stack = [t \in Task |-> IF t = 0 THEN <<At("kernel_main")>> ELSE <<>>]
  /\ sp = 0 /\ masked = FALSE
  /\ pool \in PoolSizes /\ mem_map = {} /\ own = [t \in Task |-> {}] /\ ind = 1

Schedule ==
  \/ ScheduleZero \/ ScheduleDisable \/ ScheduleScan \/ ScheduleRefill
  \/ SwitchCurrent \/ CpuSwitchTo \/ ScheduleEnable \/ IrqExit
Fork ==
  ForkDisable \/ ForkFails \/ ForkCopy \/ ForkInsert \/ ForkEnable \/ ScheduleTail
Cpu ==
  \/ Schedule \/ Fork \/ ExitDisable \/ ExitZombie \/ ExitEnable
  \/ FindPage \/ TakePage \/ Main \/ UserProcess \/ MemAbort \/ SysWrite
Tick == TickOnly \/ TickSwitch

Next == Cpu \/ Tick

\* The CPU goes on, and timer interrupts keep coming; a task that may be
\* switched again and again is interrupted there some time, since the interval
\* is much longer than the parts of the kernel that may not.  For the same reason
\* not every scan is preceded, within the same _schedule(), by an interrupt that
\* takes current's credit below 0.
TickPreemptible == Tick /\ preempt_count[current] = 0
ScanInTime == ScheduleScan /\ counter[current] >= 0
Fairness == WF_vars(Cpu) /\ SF_vars(TickPreemptible) /\ SF_vars(ScanInTime)

Spec == Init /\ [][Next]_vars
FairSpec == Spec /\ Fairness

-----------------------------------------------------------------------------
\* Types; the credit of a task never exceeds twice its priority, and no task is
\* held from being switched more than three deep.
TypeOK ==
  /\ current \in Task /\ sp \in Task /\ nr_tasks \in 1 .. 3
  /\ state \in [Task -> {"NONE", "RUNNING", "ZOMBIE"}]
  /\ \A t \in Task : counter[t] \in -MAX_LATE - 1 .. 2 * PRIORITY
  /\ \A t \in Task : preempt_count[t] \in 0 .. 3
  /\ \A t \in Task : state[t] # "NONE" => stack[t] # <<>>

\* The timer interrupt switches tasks only when the CPU is on the stack of the
\* task that `current` names: in the middle of switch_to() the two differ, and a
\* switch from there would save one task's stack as another's.
SwitchesOwnStack == ~masked /\ preempt_count[current] = 0 => sp = current

\* A task that is not on the CPU stopped inside _schedule() or has not started,
\* and has preempt_count 1, so that it cannot be switched before it is back.
SleepsInSchedule ==
  \A t \in Running \ {sp, current} :
    /\ stack[t][Len(stack[t])].pt \in {"s_enable", "s_tail"}
    /\ preempt_count[t] = 1

\* Outside _schedule() and copy_process() a user task may be switched: what it
\* disabled it has enabled, as often.  Not so one whose fork failed (fork.c:17):
\* copy_process() returned without preempt_enable(), and it is on its way to exit.
UserPreemptible ==
  sp = current /\ Top.pt \in {"loop", "write", "ready"} /\ state[sp] = "RUNNING" =>
    preempt_count[current] = IF \E i \in 1 .. Len(stack[sp]) : stack[sp][i].pt = "exit"
                               THEN 1 ELSE 0

\* No page belongs to two tasks although get_free_page() looks and takes with
\* interrupts enabled, and every page that was taken belongs to one.
OneOwner ==
  /\ \A t, u \in Task : t # u => own[t] \cap own[u] = {}
  /\ mem_map = UNION {own[t] : t \in Task}

\* A task that ended never gets the CPU again.
ZombieStays ==
  [][\A t \in Task : state[t] = "ZOMBIE" /\ sp # t => sp' # t]_vars

\* Every task that runs gets the CPU again and again.
EveryTaskRuns ==
  \A t \in Task : [](state[t] = "RUNNING" => <>(sp = t \/ state[t] = "ZOMBIE"))

\* A user process whose fork failed ends, although it can no longer be switched
\* by the timer.
FailedForkEnds ==
  \A t \in Task :
    (state[t] = "RUNNING" /\ stack[t][1].pt = "failed") ~> (state[t] = "ZOMBIE" /\ sp # t)

\* A task is switched only when its stack is its own to leave, comes back where
\* it left, and may be switched again when it does (switch_to(), preempt_count).
StacksKept == TypeOK /\ SwitchesOwnStack /\ SleepsInSchedule /\ UserPreemptible

\* Every task is served: it runs again and again, or ends when its fork fails.
TasksServed == EveryTaskRuns /\ FailedForkEnds
==============================================================================
