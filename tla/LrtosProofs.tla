---------------------------- MODULE LrtosProofs ----------------------------
(***************************************************************************)
(* The guest kernel's stacks and pages, for every priority, number of      *)
(* pages, lateness of interrupts and depth of stacks.                      *)
(*                                                                         *)
(* A stack is described by what may lie on what (LiesOn) and by its two    *)
(* uppermost frames, which are all that an action looks at: preempt_count  *)
(* of its task is the number of preempt_disable() whose preempt_enable()   *)
(* is still to come there, and one more for a task that left               *)
(* copy_process() without it.  Since the timer switches nothing on while   *)
(* it is not 0, the frames below never hold one.                           *)
(***************************************************************************)
EXTENDS Lrtos, FiniteSetTheorems, SequenceTheorems, WellFoundedInduction, TLAPS

\* The points of _schedule() with preemption disabled, and all of its points.
Inside == {"s_scan", "s_refill", "s_current", "s_switch", "s_enable"}
InScheduler == Inside \cup {"s_disable"}

\* The points of copy_process() with preemption disabled, and of get_free_page().
Forking == {"f_copy", "f_insert", "f_enable"}
Seeking == {"get", "take"}

Plain ==
  {"kernel_main", "main", "kernel_process", "user", "aborted", "ready", "forking", "loop",
   "failed", "hang", "exit", "e_zombie", "e_enable", "write", "fork", "s_tail", "schedule",
   "s_disable", "s_scan", "s_refill", "s_enable", "i_exit"} \cup Forking
Frame ==
  [pt : Plain]
    \cup [pt : {"s_current", "s_switch"}, next : Task]
    \cup [pt : {"get"}, n : Nat \ {0}, for : Task]
    \cup [pt : {"take"}, n : Nat \ {0}, for : Task, page : Nat]

\* Where each task is when no function of the kernel is on its stack.
BottomOf(t) ==
  IF t = 0 THEN {"kernel_main", "main"}
  ELSE IF t = 1 THEN {"kernel_process", "user", "aborted", "ready", "forking", "loop",
                      "failed", "hang"}
  ELSE {"loop"}

\* A frame at point b may lie on one at point a in the stack of t: what a calls,
\* and the timer interrupt where a may be switched.
LiesOn(t, b, a) ==
  \/ a = "main" /\ b \in {"fork", "schedule", "i_exit"} \cup Forking \cup InScheduler
  \/ a = "loop" /\ b \in {"write", "s_tail", "i_exit"}
  \/ /\ t = 1 /\ a = "loop"
     /\ b \in {"fork", "exit", "e_zombie", "e_enable", "schedule"} \cup Forking \cup InScheduler
  \/ a = "forking" /\ b \in {"write", "i_exit"}
  \/ a = "exit" /\ b = "write"
  \/ a = "kernel_process" /\ b \in {"s_tail", "i_exit"}
  \/ a \in {"user", "aborted"} /\ b \in Seeking \cup {"i_exit"}
  \/ a = "f_copy" /\ b \in Seeking
  \/ a = "f_insert" /\ b \in Seeking /\ t = 1
  \/ a = "i_exit" /\ b \in {"i_exit"} \cup InScheduler
  \/ /\ a \in {"kernel_main", "ready", "hang", "write", "fork", "get", "take",
               "schedule", "s_disable"}
     /\ b = "i_exit"

\* Only the page wanted lies on a fork, only a write on an exit.
Lone == {"f_copy", "f_insert", "exit"}
Fits(t, s) ==
  /\ s \in Seq(Frame) /\ Len(s) > 0
  /\ s[1].pt \in BottomOf(t)
  /\ \A i \in 1 .. Len(s) - 1 : LiesOn(t, s[i + 1].pt, s[i].pt)
  /\ \A i \in 1 .. Len(s) - 2 : s[i].pt \notin Lone

\* The point of frame i of s, counted from the bottom, and the pages it wants.
Pt(s, i) == IF i \in 1 .. Len(s) THEN s[i].pt ELSE "none"
Left(s, i) == IF Pt(s, i) \in Seeking THEN s[i].n ELSE 0

\* Preemption was disabled and is to be enabled, or never will be (fork.c:17), in
\* a task in state st with a frame at p on top of one at a.
One(b) == IF b THEN 1 ELSE 0
Disabled(p, a) ==
  \/ p \in Inside \cup Forking \cup {"s_tail", "e_zombie", "e_enable"}
  \/ a \in {"f_copy", "f_insert"}
Forgot(p, a, st) ==
  st = "ZOMBIE" \/ p \in {"failed", "exit", "e_zombie"} \/ a = "exit"
Count(p, a, st) == One(Disabled(p, a)) + One(Forgot(p, a, st))

\* The program forks twice, first in the initial task, and this is how many pages
\* it has taken where it may want another.
Early(t, s, nr, used) ==
  /\ t = 0 =>
       /\ Pt(s, 1) = "kernel_main" \/ Pt(s, 2) = "fork" => nr = 1 /\ used = 0
       /\ Pt(s, 2) = "f_copy" => nr = 1 /\ used = TaskPages - Left(s, 3)
       /\ Pt(s, 2) = "f_insert" => nr = 1 /\ used = TaskPages
  /\ t = 1 =>
       /\ Pt(s, 1) = "kernel_process" => nr = 2 /\ used = TaskPages
       /\ Pt(s, 1) = "user" => nr = 2 /\ used = TaskPages + MovePages - Left(s, 2)
       /\ Pt(s, 1) = "aborted" => nr = 2 /\ used = BeforeFork - Left(s, 2)
       /\ Pt(s, 1) \in {"ready", "forking"} \/ Pt(s, 2) = "fork"
            => nr = 2 /\ used = BeforeFork
       /\ Pt(s, 2) = "f_copy" => nr = 2 /\ used = BeforeFork + TaskPages - Left(s, 3)
       /\ Pt(s, 2) = "f_insert"
            => nr = 2 /\ used = BeforeFork + TaskPages + CopyPages - Left(s, 3)

\* The stack s of task t in state st, whose preempt_count is pc, while there are nr
\* tasks, `used` pages are taken and those of `free` are not.
Sound(t, s, st, pc, nr, used, free) ==
  /\ Fits(t, s)
  /\ pc = Count(Pt(s, Len(s)), Pt(s, Len(s) - 1), st)
  /\ Early(t, s, nr, used)
  /\ \A i \in 1 .. Len(s) : s[i].pt = "take" => s[i].page \in free

Live == {t \in Task : t < nr_tasks}
Soundly(t) ==
  Sound(t, stack[t], state[t], preempt_count[t], nr_tasks, Cardinality(mem_map), Free)

Types ==
  /\ current \in Task /\ sp \in Live /\ nr_tasks \in 1 .. 3 /\ masked = FALSE
  /\ state \in [Task -> {"NONE", "RUNNING", "ZOMBIE"}]
  /\ \A t \in Task : state[t] = "NONE" <=> t \notin Live
  /\ \A t \in Task : t \notin Live => stack[t] = <<>> /\ preempt_count[t] = 0
  /\ state[0] = "RUNNING"
  /\ counter \in [Task -> -MAX_LATE - 1 .. 2 * PRIORITY]
  /\ preempt_count \in [Task -> Int]
  /\ stack \in [Task -> Seq(Frame)]
  /\ own \in [Task -> SUBSET Nat]

Stacks == \A t \in Live : Soundly(t)

\* A task that the CPU left is in _schedule(), or has not run yet.
Sleeping == \A t \in Live \ {sp} : Pt(stack[t], Len(stack[t])) \in {"s_enable", "s_tail"}

\* The way of a task that ended out of exit_process() and _schedule().
Ended == {"e_enable", "schedule", "s_disable"} \cup (Inside \ {"s_enable"})

\* `current` is ahead of the stack only between the two halves of switch_to(), and
\* whoever is switched to runs; one that ended is still there on its way out only.
Switching ==
  /\ sp # current <=> Is("s_switch")
  /\ Is("s_switch") => Top.next = current
  /\ Top.pt \in {"s_current", "s_switch"} => state[Top.next] = "RUNNING"
  /\ state[sp] = "ZOMBIE" => Top.pt \in Ended

Pages ==
  /\ pool \in PoolSizes /\ mem_map \subseteq 0 .. pool - 1
  /\ OneOwner

IInv == Types /\ Stacks /\ Sleeping /\ Switching /\ Pages

-----------------------------------------------------------------------------
\* Sequences

\* q is the lower m frames of s with those of r on top.
Over(q, s, m, r) ==
  /\ q \in Seq(Frame) /\ Len(q) = m + Len(r)
  /\ \A i \in 1 .. m : q[i] = s[i]
  /\ \A i \in 1 .. Len(r) : q[m + i] = r[i]

LEMMA Spliced ==
  ASSUME NEW s \in Seq(Frame), NEW r \in Seq(Frame), NEW m \in 0 .. Len(s)
  PROVE  Over(SubSeq(s, 1, m) \o r, s, m, r)
<1> DEFINE low == SubSeq(s, 1, m)
           q == low \o r
<1>1. Len(s) \in Nat /\ Len(r) \in Nat /\ m \in Int /\ \A i \in 1 .. m : s[i] \in Frame
  BY ElementOfSeq, LenProperties
<1>2. /\ low \in Seq(Frame) /\ Len(low) = m
      /\ \A i \in 1 .. m : low[i] = s[i]
  BY <1>1, SubSeqProperties
<1> HIDE DEF low
<1>3. /\ q \in Seq(Frame) /\ Len(q) = m + Len(r)
      /\ \A i \in 1 .. m + Len(r) : q[i] = IF i <= m THEN low[i] ELSE r[i - m]
  BY <1>2, ConcatProperties
<1> HIDE DEF q
<1>4. \A i \in 1 .. Len(r) : m + i \in 1 .. m + Len(r) /\ ~(m + i <= m) /\ m + i - m = i
  BY <1>1
<1>5. Over(q, s, m, r)
  BY <1>1, <1>2, <1>3, <1>4 DEF Over
<1> QED
  BY <1>5 DEF q, low

\* s without its uppermost frame, and with one to three others in its place.
LEMMA Popped ==
  ASSUME NEW s \in Seq(Frame), Len(s) > 0
  PROVE  Over(SubSeq(s, 1, Len(s) - 1) \o <<>>, s, Len(s) - 1, <<>>)
<1>1. <<>> \in Seq(Frame) /\ Len(s) - 1 \in 0 .. Len(s)
  BY LenProperties
<1> QED
  BY <1>1, Spliced, Zenon

LEMMA Replaced1 ==
  ASSUME NEW s \in Seq(Frame), Len(s) > 0, NEW f \in Frame
  PROVE  Over(SubSeq(s, 1, Len(s) - 1) \o <<f>>, s, Len(s) - 1, <<f>>)
<1>1. Len(s) - 1 \in 0 .. Len(s)
  BY LenProperties
<1>2. <<f>> \in Seq(Frame)
  OBVIOUS
<1> QED
  BY <1>1, <1>2, Spliced, Zenon

LEMMA Replaced2 ==
  ASSUME NEW s \in Seq(Frame), Len(s) > 0, NEW f \in Frame, NEW g \in Frame
  PROVE  Over(SubSeq(s, 1, Len(s) - 1) \o <<f, g>>, s, Len(s) - 1, <<f, g>>)
<1>1. Len(s) - 1 \in 0 .. Len(s)
  BY LenProperties
<1>2. <<f, g>> \in Seq(Frame)
  OBVIOUS
<1> QED
  BY <1>1, <1>2, Spliced, Zenon

LEMMA Replaced3 ==
  ASSUME NEW s \in Seq(Frame), Len(s) > 0, NEW f \in Frame, NEW g \in Frame, NEW h \in Frame
  PROVE  Over(SubSeq(s, 1, Len(s) - 1) \o <<f, g, h>>, s, Len(s) - 1, <<f, g, h>>)
<1>1. Len(s) - 1 \in 0 .. Len(s)
  BY LenProperties
<1>2. <<f, g, h>> \in Seq(Frame)
  OBVIOUS
<1> QED
  BY <1>1, <1>2, Spliced, Zenon

\* Two frames on top of s.
LEMMA Pushed ==
  ASSUME NEW s \in Seq(Frame), NEW f \in Frame, NEW g \in Frame
  PROVE  Over(SubSeq(s, 1, Len(s) - 0) \o <<f, g>>, s, Len(s) - 0, <<f, g>>)
<1>1. Len(s) - 0 \in 0 .. Len(s)
  BY LenProperties
<1>2. <<f, g>> \in Seq(Frame)
  OBVIOUS
<1> QED
  BY <1>1, <1>2, Spliced, Zenon

\* What the frames of each of these are.
LEMMA Frames0 ==
  ASSUME NEW q, NEW s \in Seq(Frame), NEW m \in 0 .. Len(s), Over(q, s, m, <<>>)
  PROVE  q \in Seq(Frame) /\ Len(q) = m /\ \A i \in 1 .. m : q[i] = s[i]
BY LenProperties DEF Over

LEMMA Frames1 ==
  ASSUME NEW q, NEW s \in Seq(Frame), NEW m \in 0 .. Len(s), NEW f, Over(q, s, m, <<f>>)
  PROVE  /\ q \in Seq(Frame) /\ Len(q) = m + 1 /\ \A i \in 1 .. m : q[i] = s[i]
         /\ q[m + 1] = f
BY LenProperties DEF Over

LEMMA Frames2 ==
  ASSUME NEW q, NEW s \in Seq(Frame), NEW m \in 0 .. Len(s), NEW f, NEW g,
         Over(q, s, m, <<f, g>>)
  PROVE  /\ q \in Seq(Frame) /\ Len(q) = m + 2 /\ \A i \in 1 .. m : q[i] = s[i]
         /\ q[m + 1] = f /\ q[m + 2] = g
BY LenProperties DEF Over

LEMMA Frames3 ==
  ASSUME NEW q, NEW s \in Seq(Frame), NEW m \in 0 .. Len(s), NEW f, NEW g, NEW h,
         Over(q, s, m, <<f, g, h>>)
  PROVE  /\ q \in Seq(Frame) /\ Len(q) = m + 3 /\ \A i \in 1 .. m : q[i] = s[i]
         /\ q[m + 1] = f /\ q[m + 2] = g /\ q[m + 3] = h
BY LenProperties DEF Over

-----------------------------------------------------------------------------
\* The current stack

Stack == stack \in [Task -> Seq(Frame)] /\ sp \in Task /\ Len(stack[sp]) > 0

\* Only the current stack is changed, to a sequence of n frames that keeps the m
\* lowest.
Reaches(n, m) ==
  /\ stack' = [stack EXCEPT ![sp] = stack'[sp]] /\ stack' \in [Task -> Seq(Frame)]
  /\ stack'[sp] \in Seq(Frame) /\ Len(stack'[sp]) = n
  /\ \A i \in 1 .. m : stack'[sp][i] = stack[sp][i]

LEMMA GotoStep ==
  ASSUME Stack, NEW f \in Frame, Goto(f)
  PROVE  Reaches(Len(stack[sp]), Len(stack[sp]) - 1) /\ stack'[sp][Len(stack[sp])] = f
<1> DEFINE s == stack[sp]
           q == stack'[sp]
           m == Len(s) - 1
<1>1. s \in Seq(Frame) /\ Len(s) \in Nat /\ Len(s) > 0 /\ m \in 0 .. Len(s) /\ Len(s) = m + 1
  BY LenProperties DEF Stack
<1>2. q = SubSeq(s, 1, m) \o <<f>> /\ stack' = [stack EXCEPT ![sp] = q]
  BY DEF Stack, Goto, Becomes, Less
<1>3. Over(q, s, m, <<f>>)
  BY <1>1, <1>2, Replaced1, Zenon
<1> HIDE DEF s, q, m
<1>4. /\ q \in Seq(Frame) /\ Len(q) = m + 1 /\ q[m + 1] = f
      /\ \A i \in 1 .. m : q[i] = s[i]
  BY <1>1, <1>3, Frames1
<1>5. stack' \in [Task -> Seq(Frame)]
  BY <1>2, <1>4 DEF Stack
<1> QED
  BY <1>1, <1>2, <1>4, <1>5 DEF s, q, m, Reaches

LEMMA ReturnStep ==
  ASSUME Stack, Return
  PROVE  Reaches(Len(stack[sp]) - 1, Len(stack[sp]) - 1)
<1> DEFINE s == stack[sp]
           q == stack'[sp]
           m == Len(s) - 1
<1>1. s \in Seq(Frame) /\ Len(s) \in Nat /\ Len(s) > 0 /\ m \in 0 .. Len(s) /\ Len(s) = m + 1
  BY LenProperties DEF Stack
<1>2. q = SubSeq(s, 1, m) \o <<>> /\ stack' = [stack EXCEPT ![sp] = q]
  BY DEF Stack, Return, Becomes, Less
<1>3. Over(q, s, m, <<>>)
  BY <1>1, <1>2, Popped, Zenon
<1> HIDE DEF s, q, m
<1>4. /\ q \in Seq(Frame) /\ Len(q) = m
      /\ \A i \in 1 .. m : q[i] = s[i]
  BY <1>1, <1>3, Frames0
<1>5. Len(q) = Len(s) - 1 /\ Len(s) - 1 = m
  BY <1>1, <1>4
<1>6. stack' \in [Task -> Seq(Frame)]
  BY <1>2, <1>4 DEF Stack
<1> QED
  BY <1>2, <1>4, <1>5, <1>6 DEF s, q, Reaches

LEMMA TwoStep ==
  ASSUME Stack, NEW f \in Frame, NEW g \in Frame, Becomes(1, <<f, g>>)
  PROVE  /\ Reaches(Len(stack[sp]) + 1, Len(stack[sp]) - 1)
         /\ stack'[sp][Len(stack[sp])] = f /\ stack'[sp][Len(stack[sp]) + 1] = g
<1> DEFINE s == stack[sp]
           q == stack'[sp]
           m == Len(s) - 1
<1>1. s \in Seq(Frame) /\ Len(s) \in Nat /\ Len(s) > 0 /\ m \in 0 .. Len(s) /\ Len(s) = m + 1
  BY LenProperties DEF Stack
<1>2. q = SubSeq(s, 1, m) \o <<f, g>> /\ stack' = [stack EXCEPT ![sp] = q]
  BY DEF Stack, Becomes, Less
<1>3. Over(q, s, m, <<f, g>>)
  BY <1>1, <1>2, Replaced2, Zenon
<1> HIDE DEF s, q, m
<1>4. /\ q \in Seq(Frame) /\ Len(q) = m + 2 /\ q[m + 1] = f /\ q[m + 2] = g
      /\ \A i \in 1 .. m : q[i] = s[i]
  BY <1>1, <1>3, Frames2
<1>5. Len(q) = Len(s) + 1 /\ Len(s) - 1 = m /\ q[Len(s)] = f /\ q[Len(s) + 1] = g
  BY <1>1, <1>4
<1>6. stack' \in [Task -> Seq(Frame)]
  BY <1>2, <1>4 DEF Stack
<1> QED
  BY <1>2, <1>4, <1>5, <1>6 DEF s, q, Reaches

LEMMA ThreeStep ==
  ASSUME Stack, NEW f \in Frame, NEW g \in Frame, NEW h \in Frame, Becomes(1, <<f, g, h>>)
  PROVE  /\ Reaches(Len(stack[sp]) + 2, Len(stack[sp]) - 1)
         /\ stack'[sp][Len(stack[sp])] = f /\ stack'[sp][Len(stack[sp]) + 1] = g
         /\ stack'[sp][Len(stack[sp]) + 2] = h
<1> DEFINE s == stack[sp]
           q == stack'[sp]
           m == Len(s) - 1
<1>1. s \in Seq(Frame) /\ Len(s) \in Nat /\ Len(s) > 0 /\ m \in 0 .. Len(s) /\ Len(s) = m + 1
  BY LenProperties DEF Stack
<1>2. q = SubSeq(s, 1, m) \o <<f, g, h>> /\ stack' = [stack EXCEPT ![sp] = q]
  BY DEF Stack, Becomes, Less
<1>3. Over(q, s, m, <<f, g, h>>)
  BY <1>1, <1>2, Replaced3, Zenon
<1> HIDE DEF s, q, m
<1>4. /\ q \in Seq(Frame) /\ Len(q) = m + 3 /\ q[m + 1] = f /\ q[m + 2] = g /\ q[m + 3] = h
      /\ \A i \in 1 .. m : q[i] = s[i]
  BY <1>1, <1>3, Frames3
<1>5. /\ Len(q) = Len(s) + 2 /\ Len(s) - 1 = m
      /\ q[Len(s)] = f /\ q[Len(s) + 1] = g /\ q[Len(s) + 2] = h
  BY <1>1, <1>4
<1>6. stack' \in [Task -> Seq(Frame)]
  BY <1>2, <1>4 DEF Stack
<1> QED
  BY <1>2, <1>4, <1>5, <1>6 DEF s, q, Reaches

LEMMA CallStep ==
  ASSUME Stack, NEW f \in Frame, NEW g \in Frame, Call(<<f, g>>)
  PROVE  /\ Reaches(Len(stack[sp]) + 2, Len(stack[sp]))
         /\ stack'[sp][Len(stack[sp]) + 1] = f /\ stack'[sp][Len(stack[sp]) + 2] = g
<1> DEFINE s == stack[sp]
           q == stack'[sp]
           m == Len(s) - 0
<1>1. s \in Seq(Frame) /\ Len(s) \in Nat /\ Len(s) > 0 /\ m \in 0 .. Len(s) /\ Len(s) = m + 0
  BY LenProperties DEF Stack
<1>2. q = SubSeq(s, 1, m) \o <<f, g>> /\ stack' = [stack EXCEPT ![sp] = q]
  BY DEF Stack, Call, Becomes, Less
<1>3. Over(q, s, m, <<f, g>>)
  BY <1>1, <1>2, Pushed, Zenon
<1> HIDE DEF s, q, m
<1>4. /\ q \in Seq(Frame) /\ Len(q) = m + 2 /\ q[m + 1] = f /\ q[m + 2] = g
      /\ \A i \in 1 .. m : q[i] = s[i]
  BY <1>1, <1>3, Frames2
<1>5. Len(q) = Len(s) + 2 /\ Len(s) = m /\ q[Len(s) + 1] = f /\ q[Len(s) + 2] = g
  BY <1>1, <1>4
<1>6. stack' \in [Task -> Seq(Frame)]
  BY <1>2, <1>4 DEF Stack
<1> QED
  BY <1>2, <1>4, <1>5, <1>6 DEF s, q, Reaches

-----------------------------------------------------------------------------
\* A stack that fits, with frames put on what is left of it.
LEMMA FitsOn ==
  ASSUME NEW t \in Task, NEW s, Fits(t, s), NEW q \in Seq(Frame), NEW m \in 0 .. Len(s),
         Len(q) > 0, m <= Len(q), \A i \in 1 .. m : q[i] = s[i],
         m = 0 => q[1].pt \in BottomOf(t),
         \A i \in 1 .. Len(q) - 1 : i >= m => LiesOn(t, q[i + 1].pt, q[i].pt),
         \A i \in 1 .. Len(q) - 2 : i >= m \/ i >= Len(s) - 1 => q[i].pt \notin Lone
  PROVE  Fits(t, q)
<1>1. /\ s \in Seq(Frame) /\ Len(s) \in Nat /\ Len(s) > 0 /\ Len(q) \in Nat
      /\ s[1].pt \in BottomOf(t)
      /\ \A i \in 1 .. Len(s) - 1 : LiesOn(t, s[i + 1].pt, s[i].pt)
      /\ \A i \in 1 .. Len(s) - 2 : s[i].pt \notin Lone
  BY LenProperties DEF Fits
<1>2. q[1].pt \in BottomOf(t)
  BY <1>1
<1>3. ASSUME NEW i \in 1 .. Len(q) - 1
      PROVE  LiesOn(t, q[i + 1].pt, q[i].pt)
  <2>1. CASE i >= m
    BY <2>1
  <2>2. CASE i < m
    <3>1. i \in 1 .. m /\ i + 1 \in 1 .. m /\ i \in 1 .. Len(s) - 1
      BY <1>1, <2>2
    <3> QED
      BY <1>1, <3>1
  <2> QED
    BY <1>1, <2>1, <2>2
<1>4. ASSUME NEW i \in 1 .. Len(q) - 2
      PROVE  q[i].pt \notin Lone
  <2>1. CASE i >= m \/ i >= Len(s) - 1
    BY <2>1
  <2>2. CASE i < m /\ i < Len(s) - 1
    <3>1. i \in 1 .. m /\ i \in 1 .. Len(s) - 2
      BY <1>1, <2>2
    <3> QED
      BY <1>1, <3>1
  <2> QED
    BY <1>1, <2>1, <2>2
<1> QED
  BY <1>1, <1>2, <1>3, <1>4 DEF Fits

\* What is known of the current stack.
LEMMA Here ==
  ASSUME IInv
  PROVE  /\ Stack /\ sp \in Live /\ sp \in Task /\ current \in Task
         /\ Fits(sp, stack[sp]) /\ Soundly(sp)
         /\ stack[sp] \in Seq(Frame) /\ Len(stack[sp]) \in Nat /\ Len(stack[sp]) > 0
         /\ Len(stack[sp]) = 1 \/ Len(stack[sp]) > 1
         /\ Top = stack[sp][Len(stack[sp])] /\ Top \in Frame
         /\ Len(stack[sp]) = 1 => Top.pt \in BottomOf(sp)
         /\ Len(stack[sp]) > 1 =>
              LiesOn(sp, Top.pt, stack[sp][Len(stack[sp]) - 1].pt)
<1>1. sp \in Live /\ sp \in Task /\ current \in Task /\ stack[sp] \in Seq(Frame) /\ Soundly(sp)
  BY DEF IInv, Types, Live, Stacks
<1>2. Fits(sp, stack[sp])
  BY <1>1 DEF Soundly, Sound
<1>3. Len(stack[sp]) \in Nat /\ Len(stack[sp]) > 0
  BY <1>1, <1>2, LenProperties DEF Fits
<1>4. Stack
  BY <1>1, <1>3 DEF Stack, IInv, Types
<1>5. Top = stack[sp][Len(stack[sp])] /\ Top \in Frame
  BY <1>1, <1>3, ElementOfSeq DEF Top
<1>6. Len(stack[sp]) = 1 => Top.pt \in BottomOf(sp)
  BY <1>2, <1>5 DEF Fits
<1>7. ASSUME Len(stack[sp]) > 1
      PROVE  LiesOn(sp, Top.pt, stack[sp][Len(stack[sp]) - 1].pt)
  <2>1. Len(stack[sp]) - 1 \in 1 .. Len(stack[sp]) - 1 /\ Len(stack[sp]) - 1 + 1 = Len(stack[sp])
    BY <1>3, <1>7
  <2> QED
    BY <1>2, <1>5, <2>1 DEF Fits
<1>8. Len(stack[sp]) = 1 \/ Len(stack[sp]) > 1
  <2>1. \A n \in Nat : n > 0 => n = 1 \/ n > 1
    OBVIOUS
  <2> QED
    BY <1>3, <2>1, Zenon
<1> QED
  BY <1>1, <1>2, <1>3, <1>4, <1>5, <1>6, <1>7, <1>8

\* A step of the task on the CPU that changes its own stack, credit and count.
Steady ==
  /\ sp = current
  /\ UNCHANGED <<current, nr_tasks, state, sp, pool, mem_map, own>> /\ masked' = FALSE
  /\ counter' \in [Task -> -MAX_LATE - 1 .. 2 * PRIORITY]
  /\ preempt_count' \in [Task -> Int]
  /\ \A t \in Task \ {sp} : preempt_count'[t] = preempt_count[t]
Local ==
  /\ Steady
  /\ stack' = [stack EXCEPT ![sp] = stack'[sp]] /\ stack' \in [Task -> Seq(Frame)]

\* The frame such a step leaves on top is none at which `current` is ahead, and
\* the task it may have chosen runs.
Settled(f) == f.pt # "s_switch" /\ (f.pt = "s_current" => state[f.next] = "RUNNING")

LEMMA LocalStep ==
  ASSUME IInv, Local,
         Sound(sp, stack'[sp], state[sp], preempt_count'[sp], nr_tasks, Cardinality(mem_map), Free),
         Settled(stack'[sp][Len(stack'[sp])]),
         state[sp] = "ZOMBIE" /\ Top.pt \in Ended
           => stack'[sp][Len(stack'[sp])].pt \in Ended
  PROVE  IInv'
<1> USE DEF Local, Steady
<1>1. Types'
  BY DEF IInv, Types, Live
<1>2. Live' = Live /\ Free' = Free /\ Cardinality(mem_map)' = Cardinality(mem_map)
  BY DEF Live, Free
<1>3. ASSUME NEW t \in Live'
      PROVE  Soundly(t)'
  <2>1. t \in Live /\ t \in Task /\ state'[t] = state[t] /\ Soundly(t)
    BY <1>2, <1>3 DEF IInv, Stacks, Live
  <2>2. CASE t = sp
    BY <1>2, <2>2 DEF Soundly
  <2>3. CASE t # sp
    <3>1. stack'[t] = stack[t] /\ preempt_count'[t] = preempt_count[t]
      BY <2>1, <2>3 DEF IInv, Types
    <3> QED
      BY <1>2, <2>1, <3>1 DEF Soundly
  <2> QED
    BY <2>2, <2>3
<1>4. Sleeping'
  <2>1. ASSUME NEW t \in Live \ {sp}
        PROVE  stack'[t] = stack[t]
    BY DEF IInv, Types, Live
  <2> QED
    BY <1>2, <2>1 DEF IInv, Sleeping
<1>5. Switching'
  <2>1. Top' = stack'[sp][Len(stack'[sp])]
    BY DEF Top
  <2> QED
    BY <2>1 DEF IInv, Switching, Is, Settled
<1>6. Pages'
  BY DEF IInv, Pages, OneOwner
<1> QED
  BY <1>1, <1>3, <1>4, <1>5, <1>6 DEF IInv, Stacks

-----------------------------------------------------------------------------
\* b may be the point of a frame on one at a, or at the bottom.
Rests(t, b, a) == LiesOn(t, b, a) \/ (a = "none" /\ b \in BottomOf(t))

\* The current stack has p on top and a below it.
LEMMA OnTop ==
  ASSUME IInv, NEW p, Is(p)
  PROVE  LET s == stack[sp] IN
         /\ Pt(s, Len(s)) = p /\ Top.pt = p /\ Rests(sp, p, Pt(s, Len(s) - 1))
         /\ p # "s_switch" => sp = current
         /\ s \in Seq(Frame) /\ Len(s) \in Nat /\ Len(s) > 0 /\ Top = s[Len(s)] /\ Top \in Frame
         /\ sp \in Task /\ sp \in Live
         /\ Early(sp, s, nr_tasks, Cardinality(mem_map))
         /\ preempt_count[sp] = Count(p, Pt(s, Len(s) - 1), state[sp])
<1>1. /\ stack[sp] \in Seq(Frame) /\ Len(stack[sp]) \in Nat /\ Len(stack[sp]) > 0
      /\ sp \in Task /\ sp \in Live /\ Soundly(sp)
      /\ Top = stack[sp][Len(stack[sp])] /\ Top \in Frame /\ Top.pt = p
      /\ Len(stack[sp]) = 1 => Top.pt \in BottomOf(sp)
      /\ Len(stack[sp]) > 1 => LiesOn(sp, Top.pt, stack[sp][Len(stack[sp]) - 1].pt)
  BY Here DEF Is
<1>2. p # "s_switch" => sp = current
  BY DEF IInv, Switching, Is
<1>3. Pt(stack[sp], Len(stack[sp])) = p
  BY <1>1 DEF Pt
<1>4. Rests(sp, p, Pt(stack[sp], Len(stack[sp]) - 1))
  <2>1. Len(stack[sp]) = 1 \/ Len(stack[sp]) > 1
    BY Here, Zenon
  <2>2. CASE Len(stack[sp]) = 1
    <3>1. Pt(stack[sp], Len(stack[sp]) - 1) = "none"
      BY <2>2 DEF Pt
    <3>2. p \in BottomOf(sp)
      BY <1>1, <2>2
    <3> QED
      BY <3>1, <3>2 DEF Rests
  <2>3. CASE Len(stack[sp]) > 1
    <3>1. Pt(stack[sp], Len(stack[sp]) - 1) = stack[sp][Len(stack[sp]) - 1].pt
      BY <1>1, <2>3 DEF Pt
    <3>2. LiesOn(sp, Top.pt, stack[sp][Len(stack[sp]) - 1].pt) /\ Top.pt = p
      BY <1>1, <2>3
    <3>3. LiesOn(sp, p, Pt(stack[sp], Len(stack[sp]) - 1))
      BY <3>1, <3>2, Zenon
    <3> QED
      BY <3>3, Zenon DEF Rests
  <2> QED
    BY <2>1, <2>2, <2>3, Zenon
<1> QED
  BY <1>1, <1>2, <1>3, <1>4 DEF Soundly, Sound

\* The stack q agrees with s in the lowest m frames.
Kept(q, s, m) == \A i \in 1 .. m : Pt(q, i) = Pt(s, i) /\ Left(q, i) = Left(s, i)
Wants(f) == IF f.pt \in Seeking THEN f.n ELSE 0
Ends(q) == \A i \in Int : i > Len(q) => Pt(q, i) = "none" /\ Left(q, i) = 0
Proper(q) ==
  /\ Fits(sp, q) /\ Ends(q)
  /\ \A i \in 1 .. Len(q) : q[i].pt = "take" => q[i].page \in Free
  /\ stack' = [stack EXCEPT ![sp] = q] /\ stack' \in [Task -> Seq(Frame)]
Fresh(f) == f \in Frame /\ (f.pt = "take" => f.page \in Free)

\* The stack after a step that puts f in place of the uppermost frame.
LEMMA GotoFits ==
  ASSUME IInv, NEW f, Fresh(f), Goto(f), Rests(sp, f.pt, Pt(stack[sp], Len(stack[sp]) - 1))
  PROVE  LET s == stack[sp]
             q == stack'[sp]
         IN  /\ Proper(q) /\ Len(q) = Len(s) /\ q[Len(s)] = f /\ Kept(q, s, Len(s) - 1)
             /\ Pt(q, Len(s)) = f.pt /\ Left(q, Len(s)) = Wants(f)
<1> DEFINE s == stack[sp]
           q == stack'[sp]
<1>1. /\ sp \in Task /\ Fits(sp, s) /\ Soundly(sp) /\ Stack
      /\ s \in Seq(Frame) /\ Len(s) \in Nat /\ Len(s) > 0
  BY Here
<1>2. /\ Reaches(Len(s), Len(s) - 1) /\ q[Len(s)] = f
  BY <1>1, GotoStep DEF Fresh
<1>3. /\ q \in Seq(Frame) /\ Len(q) = Len(s) /\ \A i \in 1 .. Len(s) - 1 : q[i] = s[i]
      /\ stack' = [stack EXCEPT ![sp] = q] /\ stack' \in [Task -> Seq(Frame)]
  BY <1>2 DEF Reaches
<1>4. \A i \in 1 .. Len(s) : s[i].pt = "take" => s[i].page \in Free
  BY <1>1 DEF Soundly, Sound
<1>5. Rests(sp, f.pt, Pt(s, Len(s) - 1))
  OBVIOUS
<1> HIDE DEF s, q
<1>6. Len(s) > 1 => Pt(s, Len(s) - 1) = s[Len(s) - 1].pt
  BY <1>1 DEF Pt
<1>7. /\ Len(s) = 1 => f.pt \in BottomOf(sp)
      /\ Len(s) > 1 => LiesOn(sp, f.pt, s[Len(s) - 1].pt)
  <2>1. \A i \in 1 .. Len(s) : s[i].pt # "none"
    <3>1. \A x \in Frame : x.pt # "none"
      BY DEF Frame, Plain, Forking
    <3> QED
      BY <1>1, <3>1, ElementOfSeq
  <2>2. Len(s) = 1 => Pt(s, Len(s) - 1) = "none"
    BY <1>1 DEF Pt
  <2>3. \A b : ~LiesOn(sp, b, "none")
    BY DEF LiesOn
  <2>4. Len(s) > 1 => Len(s) - 1 \in 1 .. Len(s)
    BY <1>1
  <2> QED
    BY <1>1, <1>5, <1>6, <2>1, <2>2, <2>3, <2>4 DEF Rests
<1>8. Fits(sp, q)
  <2>1. Len(s) - 1 \in 0 .. Len(s) /\ Len(q) > 0 /\ Len(s) - 1 <= Len(q)
    BY <1>1, <1>3
  <2>2. Len(s) - 1 = 0 => q[1].pt \in BottomOf(sp)
    BY <1>1, <1>2, <1>3, <1>7
  <2>3. \A i \in 1 .. Len(q) - 1 : i >= Len(s) - 1 => LiesOn(sp, q[i + 1].pt, q[i].pt)
    BY <1>1, <1>2, <1>3, <1>7
  <2>4. \A i \in 1 .. Len(q) - 2 : i >= Len(s) - 1 \/ i >= Len(s) - 1 => q[i].pt \notin Lone
    BY <1>1, <1>3
  <2> QED
    BY <1>1, <1>3, <2>1, <2>2, <2>3, <2>4, FitsOn
<1>9. \A i \in 1 .. Len(q) : q[i].pt = "take" => q[i].page \in Free
  BY <1>1, <1>2, <1>3, <1>4 DEF Fresh
<1>10. Kept(q, s, Len(s) - 1) /\ Pt(q, Len(s)) = f.pt
  BY <1>1, <1>2, <1>3 DEF Kept, Pt, Left
<1>11. Left(q, Len(s)) = Wants(f)
  BY <1>2, <1>10 DEF Left, Wants
<1>12. Ends(q)
  BY <1>1, <1>3 DEF Ends, Pt, Left, Seeking
<1> QED
  BY <1>2, <1>3, <1>8, <1>9, <1>10, <1>11, <1>12 DEF s, q, Proper

\* What may change on top without a page or a fork between.
Marked ==
  {"kernel_main", "kernel_process", "user", "aborted", "ready", "forking", "fork",
   "f_copy", "f_insert"} \cup Seeking

LEMMA EarlyKept ==
  ASSUME NEW t, NEW s, NEW nr, NEW used, Early(t, s, nr, used),
         NEW q, NEW m \in Nat, Kept(q, s, m),
         \A i \in {1, 2, 3} : i > m => Pt(s, i) \notin Marked /\ Pt(q, i) \notin Marked
  PROVE  Early(t, q, nr, used)
<1>1. \A i \in {1, 2, 3} : i > m => Left(s, i) = 0 /\ Left(q, i) = 0
  BY DEF Left, Marked
<1>2. \A i \in {1, 2, 3} : i <= m => Pt(q, i) = Pt(s, i) /\ Left(q, i) = Left(s, i)
  BY DEF Kept
<1> QED
  BY <1>1, <1>2 DEF Early, Marked

\* A step that puts f in place of the uppermost frame, or at an unmarked point.
LEMMA GotoKeeps ==
  ASSUME IInv, Steady, NEW f, Fresh(f), Settled(f), Goto(f),
         state[sp] = "ZOMBIE" /\ Top.pt \in Ended => f.pt \in Ended,
         Rests(sp, f.pt, Pt(stack[sp], Len(stack[sp]) - 1)),
         preempt_count'[sp] = Count(f.pt, Pt(stack[sp], Len(stack[sp]) - 1), state[sp]),
         Early(sp, stack'[sp], nr_tasks, Cardinality(mem_map))
  PROVE  IInv'
<1> DEFINE s == stack[sp]
           q == stack'[sp]
<1>1. s \in Seq(Frame) /\ Len(s) \in Nat /\ Len(s) > 0
  BY Here
<1>2. /\ Proper(q) /\ Len(q) = Len(s) /\ q[Len(s)] = f /\ Kept(q, s, Len(s) - 1)
      /\ Pt(q, Len(s)) = f.pt
  BY GotoFits
<1>3. preempt_count'[sp] = Count(f.pt, Pt(s, Len(s) - 1), state[sp])
  OBVIOUS
<1>4. Early(sp, q, nr_tasks, Cardinality(mem_map))
  OBVIOUS
<1> HIDE DEF s, q
<1>5. Pt(q, Len(q) - 1) = Pt(s, Len(s) - 1)
  BY <1>1, <1>2 DEF Kept, Pt
<1>6. Sound(sp, q, state[sp], preempt_count'[sp], nr_tasks, Cardinality(mem_map), Free)
  BY <1>2, <1>3, <1>4, <1>5 DEF Sound, Proper
<1>7. Local
  BY <1>2 DEF Local, Proper, q
<1> QED
  BY <1>2, <1>6, <1>7, LocalStep DEF q

LEMMA UnmarkedGotoKeeps ==
  ASSUME IInv, Steady, NEW p, Is(p), p \notin Marked,
         NEW f, Fresh(f), Settled(f), Goto(f), f.pt \notin Marked,
         state[sp] = "ZOMBIE" /\ p \in Ended => f.pt \in Ended,
         Rests(sp, f.pt, Pt(stack[sp], Len(stack[sp]) - 1)),
         preempt_count'[sp] = Count(f.pt, Pt(stack[sp], Len(stack[sp]) - 1), state[sp])
  PROVE  IInv'
<1> DEFINE s == stack[sp]
           q == stack'[sp]
<1>1. /\ s \in Seq(Frame) /\ Len(s) \in Nat /\ Len(s) > 0 /\ Pt(s, Len(s)) = p
      /\ Early(sp, s, nr_tasks, Cardinality(mem_map))
  BY OnTop
<1>2. /\ Proper(q) /\ Len(q) = Len(s) /\ Kept(q, s, Len(s) - 1)
      /\ Pt(q, Len(s)) = f.pt
  BY GotoFits
<1> HIDE DEF s, q
<1>3. \A i \in Int : i > Len(s) => Pt(s, i) = "none" /\ Pt(q, i) = "none"
  BY <1>1, <1>2 DEF Pt, Proper, Ends
<1>4. Len(s) - 1 \in Nat
  BY <1>1
<1>5. \A i \in {1, 2, 3} : i > Len(s) - 1 => Pt(s, i) \notin Marked /\ Pt(q, i) \notin Marked
  <2>1. ASSUME NEW i \in {1, 2, 3}, i > Len(s) - 1
        PROVE  i = Len(s) \/ i > Len(s)
    BY <1>1, <2>1
  <2>2. "none" \notin Marked
    BY DEF Marked, Seeking
  <2> QED
    BY <1>1, <1>2, <1>3, <2>1, <2>2
<1>6. Early(sp, q, nr_tasks, Cardinality(mem_map))
  BY <1>1, <1>2, <1>4, <1>5, EarlyKept
<1> QED
  BY <1>6, GotoKeeps DEF q, Is

\* A frame that is a point alone.
LEMMA PlainFrames ==
  ASSUME NEW p \in Plain, p # "take"
  PROVE  Fresh(At(p)) /\ At(p).pt = p
BY DEF At, Frame, Fresh

LEMMA ScheduleDisableKeeps == IInv /\ ScheduleDisable => IInv'
<1> SUFFICES ASSUME IInv, ScheduleDisable PROVE IInv'
  OBVIOUS
<1> DEFINE a == Pt(stack[sp], Len(stack[sp]) - 1)
           f == At("s_scan")
<1>1. /\ Is("s_disable") /\ Rests(sp, "s_disable", a) /\ sp = current /\ sp \in Task
      /\ preempt_count[sp] = Count("s_disable", a, state[sp])
  BY OnTop DEF ScheduleDisable
<1>2. Fresh(f) /\ f.pt = "s_scan" /\ Goto(f)
  BY PlainFrames DEF ScheduleDisable, Plain
<1> HIDE DEF a, f
<1>3. Rests(sp, "s_scan", a) /\ a \notin Lone
  BY <1>1 DEF Rests, LiesOn, BottomOf, InScheduler, Inside, Forking, Seeking, Lone
<1>4. preempt_count' = [preempt_count EXCEPT ![sp] = @ + 1]
  BY <1>1 DEF ScheduleDisable, PreemptAdd
<1>5. preempt_count'[sp] = Count("s_scan", a, state[sp])
  BY <1>1, <1>3, <1>4 DEF IInv, Types, Count, Disabled, Forgot, One, Inside, Forking, Lone
<1>6. Steady
  BY <1>1, <1>4 DEF ScheduleDisable, Keep, mm, Steady, IInv, Types
<1> QED
  BY <1>1, <1>2, <1>3, <1>5, <1>6, UnmarkedGotoKeeps
    DEF Marked, Ended, Inside, Seeking, Settled, a

LEMMA ScheduleZeroKeeps == IInv /\ ScheduleZero => IInv'
<1> SUFFICES ASSUME IInv, ScheduleZero PROVE IInv'
  OBVIOUS
<1> DEFINE a == Pt(stack[sp], Len(stack[sp]) - 1)
           f == At("s_disable")
<1>1. /\ Is("schedule") /\ Rests(sp, "schedule", a) /\ sp = current /\ sp \in Task
      /\ preempt_count[sp] = Count("schedule", a, state[sp])
  BY OnTop DEF ScheduleZero
<1>2. Fresh(f) /\ f.pt = "s_disable" /\ Goto(f)
  BY PlainFrames DEF ScheduleZero, Plain
<1> HIDE DEF a, f
<1>3. Rests(sp, "s_disable", a)
  BY <1>1 DEF Rests, LiesOn, BottomOf, InScheduler, Inside, Forking, Seeking
<1>4. counter' = [counter EXCEPT ![sp] = 0] /\ 0 \in -MAX_LATE - 1 .. 2 * PRIORITY
  BY <1>1, LrtosAssumption DEF ScheduleZero
<1>5. preempt_count' = preempt_count /\ preempt_count'[sp] = Count("s_disable", a, state[sp])
  BY <1>1 DEF ScheduleZero, Count, Disabled, Forgot, Inside, Forking
<1>6. Steady
  BY <1>1, <1>4, <1>5 DEF ScheduleZero, Keep, mm, Steady, IInv, Types
<1> QED
  BY <1>1, <1>2, <1>3, <1>5, <1>6, UnmarkedGotoKeeps
    DEF Marked, Ended, Inside, Seeking, Settled, a

\* The scan picks a task that runs.
LEMMA BestRuns ==
  ASSUME IInv
  PROVE  Best.next \in Task /\ state[Best.next] = "RUNNING"
<1>1. state[0] = "RUNNING" /\ 0 \in Running /\ Running \subseteq Task
  BY DEF IInv, Types, Running, Task
<1>2. CASE \A t \in Running : counter[t] <= -1
  BY <1>1, <1>2 DEF Best, Candidates, Task
<1>3. CASE ~ \A t \in Running : counter[t] <= -1
  <2> DEFINE C == {counter[t] : t \in Running}
             c == Max(C)
             N == {t \in Running : counter[t] = c}
  <2>1. Best.next = Min(N)
    BY <1>3 DEF Best, Candidates
  <2>2. \A t \in Task : counter[t] \in Int
    BY LrtosAssumption DEF IInv, Types
  <2>3. PICK t \in Running : \A u \in Running : counter[t] >= counter[u]
    BY <1>1, <2>2 DEF Task
  <2>4. counter[t] \in C /\ \A y \in C : counter[t] >= y
    BY <2>3
  <2>5. c \in C
    BY <2>4 DEF Max
  <2>6. N # {} /\ N \subseteq Running
    BY <2>5
  <2> HIDE DEF N, C, c
  <2>7. PICK n \in N : \A y \in N : n <= y
    <3>1. \A y \in N : y \in {0, 1, 2}
      BY <1>1, <2>6 DEF Task
    <3>2. \E n \in N : n = 0 \/ (0 \notin N /\ n = 1) \/ (0 \notin N /\ 1 \notin N /\ n = 2)
      BY <2>6, <3>1
    <3> QED
      BY <3>1, <3>2
  <2>8. Min(N) \in N
    BY <2>7 DEF Min
  <2> QED
    BY <1>1, <2>1, <2>6, <2>8 DEF Running
<1> QED
  BY <1>2, <1>3

LEMMA ScheduleScanKeeps == IInv /\ ScheduleScan => IInv'
<1> SUFFICES ASSUME IInv, ScheduleScan PROVE IInv'
  OBVIOUS
<1> DEFINE a == Pt(stack[sp], Len(stack[sp]) - 1)
           f == IF Best.c # 0 THEN [pt |-> "s_current", next |-> Best.next] ELSE At("s_refill")
<1>1. /\ Is("s_scan") /\ Rests(sp, "s_scan", a) /\ sp = current /\ sp \in Task
      /\ preempt_count[sp] = Count("s_scan", a, state[sp])
  BY OnTop DEF ScheduleScan
<1>2. Goto(f)
  BY DEF ScheduleScan
<1>3. Fresh(f) /\ f.pt \in {"s_current", "s_refill"} /\ Settled(f)
  BY BestRuns DEF At, Fresh, Frame, Plain, Settled
<1> HIDE DEF a, f
<1>4. Rests(sp, f.pt, a)
  BY <1>1, <1>3 DEF Rests, LiesOn, BottomOf, InScheduler, Inside, Forking, Seeking
<1>5. preempt_count' = preempt_count /\ preempt_count'[sp] = Count(f.pt, a, state[sp])
  BY <1>1, <1>3 DEF ScheduleScan, sched, Count, Disabled, Forgot, Inside, Forking
<1>6. Steady
  BY <1>1, <1>5 DEF ScheduleScan, Keep, sched, mm, Steady, IInv, Types
<1>7. f.pt \notin Marked
  BY <1>3 DEF Marked, Seeking
<1> QED
  BY <1>1, <1>2, <1>3, <1>4, <1>5, <1>6, <1>7, UnmarkedGotoKeeps
    DEF Marked, Ended, Inside, Seeking, a

\* Half of what is left and the priority stay in the bounds of the credit.
LEMMA RefillBounded ==
  ASSUME NEW c \in -MAX_LATE - 1 .. 2 * PRIORITY
  PROVE  (c \div 2) + PRIORITY \in -MAX_LATE - 1 .. 2 * PRIORITY
BY LrtosAssumption

LEMMA ScheduleRefillKeeps == IInv /\ ScheduleRefill => IInv'
<1> SUFFICES ASSUME IInv, ScheduleRefill PROVE IInv'
  OBVIOUS
<1> DEFINE a == Pt(stack[sp], Len(stack[sp]) - 1)
           f == At("s_scan")
<1>1. /\ Is("s_refill") /\ Rests(sp, "s_refill", a) /\ sp = current /\ sp \in Task
      /\ preempt_count[sp] = Count("s_refill", a, state[sp])
  BY OnTop DEF ScheduleRefill
<1>2. Fresh(f) /\ f.pt = "s_scan" /\ Goto(f)
  BY PlainFrames DEF ScheduleRefill, Plain
<1> HIDE DEF a, f
<1>3. Rests(sp, "s_scan", a)
  BY <1>1 DEF Rests, LiesOn, BottomOf, InScheduler, Inside, Forking, Seeking
<1>4. counter' \in [Task -> -MAX_LATE - 1 .. 2 * PRIORITY]
  BY RefillBounded DEF ScheduleRefill, IInv, Types
<1>5. preempt_count' = preempt_count /\ preempt_count'[sp] = Count("s_scan", a, state[sp])
  BY <1>1 DEF ScheduleRefill, Count, Disabled, Forgot, Inside, Forking
<1>6. Steady
  BY <1>1, <1>4, <1>5 DEF ScheduleRefill, Keep, mm, Steady, IInv, Types
<1> QED
  BY <1>1, <1>2, <1>3, <1>5, <1>6, UnmarkedGotoKeeps
    DEF Marked, Ended, Inside, Seeking, Settled, a

LEMMA ExitDisableKeeps == IInv /\ ExitDisable => IInv'
<1> SUFFICES ASSUME IInv, ExitDisable PROVE IInv'
  OBVIOUS
<1> DEFINE a == Pt(stack[sp], Len(stack[sp]) - 1)
           f == At("e_zombie")
<1>1. /\ Is("exit") /\ Rests(sp, "exit", a) /\ sp = current /\ sp \in Task
      /\ preempt_count[sp] = Count("exit", a, state[sp])
  BY OnTop DEF ExitDisable
<1>2. Fresh(f) /\ f.pt = "e_zombie" /\ Goto(f)
  BY PlainFrames DEF ExitDisable, Plain
<1> HIDE DEF a, f
<1>3. Rests(sp, "e_zombie", a) /\ a \notin Lone
  BY <1>1 DEF Rests, LiesOn, BottomOf, InScheduler, Inside, Forking, Seeking, Lone
<1>4. preempt_count' = [preempt_count EXCEPT ![sp] = @ + 1]
  BY <1>1 DEF ExitDisable, PreemptAdd
<1>5. preempt_count'[sp] = Count("e_zombie", a, state[sp])
  BY <1>1, <1>3, <1>4 DEF IInv, Types, Count, Disabled, Forgot, One, Inside, Forking, Lone
<1>6. Steady
  BY <1>1, <1>4 DEF ExitDisable, Keep, mm, Steady, IInv, Types
<1> QED
  BY <1>1, <1>2, <1>3, <1>5, <1>6, UnmarkedGotoKeeps
    DEF Marked, Ended, Inside, Seeking, Settled, a

LEMMA ExitEnableKeeps == IInv /\ ExitEnable => IInv'
<1> SUFFICES ASSUME IInv, ExitEnable PROVE IInv'
  OBVIOUS
<1> DEFINE a == Pt(stack[sp], Len(stack[sp]) - 1)
           f == At("schedule")
<1>1. /\ Is("e_enable") /\ Rests(sp, "e_enable", a) /\ sp = current /\ sp \in Task
      /\ preempt_count[sp] = Count("e_enable", a, state[sp])
  BY OnTop DEF ExitEnable
<1>2. Fresh(f) /\ f.pt = "schedule" /\ Goto(f)
  BY PlainFrames DEF ExitEnable, Plain
<1> HIDE DEF a, f
<1>3. Rests(sp, "schedule", a) /\ a \notin Lone
  BY <1>1 DEF Rests, LiesOn, BottomOf, InScheduler, Inside, Forking, Seeking, Lone
<1>4. preempt_count' = [preempt_count EXCEPT ![sp] = @ + (-1)]
  BY <1>1 DEF ExitEnable, PreemptAdd
<1>5. preempt_count'[sp] = Count("schedule", a, state[sp])
  BY <1>1, <1>3, <1>4 DEF IInv, Types, Count, Disabled, Forgot, One, Inside, Forking, Lone
<1>6. Steady
  BY <1>1, <1>4 DEF ExitEnable, Keep, mm, Steady, IInv, Types
<1> QED
  BY <1>1, <1>2, <1>3, <1>5, <1>6, UnmarkedGotoKeeps
    DEF Marked, Ended, Inside, Seeking, Settled, a

\* A step that takes away the uppermost frame.
LEMMA ReturnFits ==
  ASSUME IInv, Return, NEW p, Is(p), p \notin BottomOf(sp)
  PROVE  LET s == stack[sp]
             q == stack'[sp]
         IN  /\ Proper(q) /\ Len(q) = Len(s) - 1 /\ Len(s) > 1 /\ Kept(q, s, Len(s) - 1)
             /\ q[Len(q)].pt = Pt(s, Len(s) - 1) /\ Pt(q, Len(q) - 1) \notin Lone
<1> DEFINE s == stack[sp]
           q == stack'[sp]
<1>1. /\ sp \in Task /\ Fits(sp, s) /\ Soundly(sp) /\ Stack
      /\ s \in Seq(Frame) /\ Len(s) \in Nat /\ Len(s) > 0
      /\ Len(s) = 1 \/ Len(s) > 1
      /\ Len(s) = 1 => Top.pt \in BottomOf(sp)
  BY Here
<1>2. Len(s) > 1
  BY <1>1 DEF Is
<1>3. /\ Reaches(Len(s) - 1, Len(s) - 1)
  BY <1>1, ReturnStep
<1>4. /\ q \in Seq(Frame) /\ Len(q) = Len(s) - 1 /\ \A i \in 1 .. Len(s) - 1 : q[i] = s[i]
      /\ stack' = [stack EXCEPT ![sp] = q] /\ stack' \in [Task -> Seq(Frame)]
  BY <1>3 DEF Reaches
<1>5. \A i \in 1 .. Len(s) : s[i].pt = "take" => s[i].page \in Free
  BY <1>1 DEF Soundly, Sound
<1> HIDE DEF s, q
<1>6. \A i \in 1 .. Len(s) - 2 : s[i].pt \notin Lone
  BY <1>1 DEF Fits
<1>7. Fits(sp, q)
  <2>1. Len(s) - 1 \in 0 .. Len(s) /\ Len(q) > 0 /\ Len(s) - 1 <= Len(q) /\ Len(s) - 1 # 0
    BY <1>1, <1>2, <1>4
  <2>2. \A i \in 1 .. Len(q) - 1 : i >= Len(s) - 1 => LiesOn(sp, q[i + 1].pt, q[i].pt)
    BY <1>1, <1>4
  <2>3. \A i \in 1 .. Len(q) - 2 : i >= Len(s) - 1 \/ i >= Len(s) - 1 => q[i].pt \notin Lone
    BY <1>1, <1>4
  <2> QED
    BY <1>1, <1>4, <2>1, <2>2, <2>3, FitsOn
<1>8. \A i \in 1 .. Len(q) : q[i].pt = "take" => q[i].page \in Free
  BY <1>1, <1>4, <1>5
<1>9. Kept(q, s, Len(s) - 1) /\ q[Len(q)].pt = Pt(s, Len(s) - 1)
  BY <1>1, <1>2, <1>4 DEF Kept, Pt, Left
<1>10. Pt(q, Len(q) - 1) \notin Lone
  BY <1>1, <1>2, <1>4, <1>6 DEF Pt, Lone
<1>11. Ends(q)
  BY <1>1, <1>4 DEF Ends, Pt, Left, Seeking
<1> QED
  BY <1>2, <1>4, <1>7, <1>8, <1>9, <1>10, <1>11 DEF s, q, Proper

LEMMA ReturnKeeps ==
  ASSUME IInv, Steady, Return, NEW p, Is(p), p \notin BottomOf(sp), p \notin Marked,
         p \notin Ended,
         preempt_count'[sp] = Count(Pt(stack[sp], Len(stack[sp]) - 1), "none", state[sp])
  PROVE  IInv'
<1> DEFINE s == stack[sp]
           q == stack'[sp]
           a == Pt(s, Len(s) - 1)
<1>1. /\ s \in Seq(Frame) /\ Len(s) \in Nat /\ Len(s) > 0 /\ Pt(s, Len(s)) = p
      /\ Early(sp, s, nr_tasks, Cardinality(mem_map)) /\ Rests(sp, p, a)
  BY OnTop
<1>2. /\ Proper(q) /\ Len(q) = Len(s) - 1 /\ Len(s) > 1 /\ Kept(q, s, Len(s) - 1)
      /\ q[Len(q)].pt = a /\ Pt(q, Len(q) - 1) \notin Lone
  BY ReturnFits
<1>3. preempt_count'[sp] = Count(a, "none", state[sp])
  OBVIOUS
<1> HIDE DEF s, q, a
<1>4. Pt(q, Len(q)) = a
  BY <1>1, <1>2 DEF Pt
<1>5. preempt_count'[sp] = Count(Pt(q, Len(q)), Pt(q, Len(q) - 1), state[sp])
  BY <1>2, <1>3, <1>4 DEF Count, Disabled, Forgot, Lone
<1>6. Early(sp, q, nr_tasks, Cardinality(mem_map))
  <2>1. \A i \in Int : i > Len(s) => Pt(s, i) = "none"
    BY <1>1 DEF Pt
  <2>2. \A i \in Int : i > Len(s) - 1 => Pt(q, i) = "none"
    BY <1>1, <1>2 DEF Proper, Ends
  <2>3. \A i \in {1, 2, 3} : i > Len(s) - 1 => i = Len(s) \/ i > Len(s)
    BY <1>1
  <2>4. "none" \notin Marked
    BY DEF Marked, Seeking
  <2>5. \A i \in {1, 2, 3} : i > Len(s) - 1 => Pt(s, i) \notin Marked /\ Pt(q, i) \notin Marked
    BY <1>1, <2>1, <2>2, <2>3, <2>4
  <2>6. Len(s) - 1 \in Nat
    BY <1>1
  <2> QED
    BY <1>1, <1>2, <2>5, <2>6, EarlyKept
<1>7. Settled(q[Len(q)])
  BY <1>1, <1>2 DEF Settled, Rests, LiesOn
<1>8. Sound(sp, q, state[sp], preempt_count'[sp], nr_tasks, Cardinality(mem_map), Free)
  BY <1>2, <1>5, <1>6 DEF Sound, Proper
<1>9. Local
  BY <1>2 DEF Local, Proper, q
<1> QED
  BY <1>7, <1>8, <1>9, LocalStep DEF q, Is

LEMMA ScheduleEnableKeeps == IInv /\ ScheduleEnable => IInv'
<1> SUFFICES ASSUME IInv, ScheduleEnable PROVE IInv'
  OBVIOUS
<1> DEFINE a == Pt(stack[sp], Len(stack[sp]) - 1)
<1>1. /\ Is("s_enable") /\ Rests(sp, "s_enable", a) /\ sp = current /\ sp \in Task
      /\ preempt_count[sp] = Count("s_enable", a, state[sp])
  BY OnTop DEF ScheduleEnable
<1> HIDE DEF a
<1>2. "s_enable" \notin BottomOf(sp) /\ Return
  BY <1>1 DEF ScheduleEnable, BottomOf
<1>3. preempt_count' = [preempt_count EXCEPT ![sp] = @ + (-1)]
  BY <1>1 DEF ScheduleEnable, PreemptAdd
<1>4. LiesOn(sp, "s_enable", a)
  BY <1>1, <1>2 DEF Rests
<1>5. preempt_count'[sp] = Count(a, "none", state[sp])
  BY <1>1, <1>3, <1>4
    DEF IInv, Types, Count, Disabled, Forgot, One, LiesOn, InScheduler, Inside, Forking, Seeking
<1>6. Steady
  BY <1>1, <1>3 DEF ScheduleEnable, Keep, sched, mm, Steady, IInv, Types
<1> QED
  BY <1>1, <1>2, <1>5, <1>6, ReturnKeeps DEF Marked, Ended, Inside, Seeking, a

LEMMA IrqExitKeeps == IInv /\ IrqExit => IInv'
<1> SUFFICES ASSUME IInv, IrqExit PROVE IInv'
  OBVIOUS
<1> DEFINE a == Pt(stack[sp], Len(stack[sp]) - 1)
<1>1. /\ Is("i_exit") /\ Rests(sp, "i_exit", a) /\ sp = current /\ sp \in Task
      /\ preempt_count[sp] = Count("i_exit", a, state[sp])
  BY OnTop DEF IrqExit
<1> HIDE DEF a
<1>2. "i_exit" \notin BottomOf(sp) /\ Return
  BY <1>1 DEF IrqExit, BottomOf
<1>3. preempt_count' = preempt_count
  BY DEF IrqExit, sched
<1>4. LiesOn(sp, "i_exit", a)
  BY <1>1, <1>2 DEF Rests
<1>5. preempt_count'[sp] = Count(a, "none", state[sp])
  BY <1>1, <1>3, <1>4
    DEF IInv, Types, Count, Disabled, Forgot, One, LiesOn, InScheduler, Inside, Forking, Seeking
<1>6. Steady
  BY <1>1, <1>3 DEF IrqExit, Keep, sched, mm, Steady, IInv, Types
<1> QED
  BY <1>1, <1>2, <1>5, <1>6, ReturnKeeps DEF Marked, Ended, Inside, Seeking, a

LEMMA ForkEnableKeeps == IInv /\ ForkEnable => IInv'
<1> SUFFICES ASSUME IInv, ForkEnable PROVE IInv'
  OBVIOUS
<1> DEFINE a == Pt(stack[sp], Len(stack[sp]) - 1)
<1>1. /\ Is("f_enable") /\ Rests(sp, "f_enable", a) /\ sp = current /\ sp \in Task
      /\ preempt_count[sp] = Count("f_enable", a, state[sp])
  BY OnTop DEF ForkEnable
<1> HIDE DEF a
<1>2. "f_enable" \notin BottomOf(sp) /\ Return
  BY <1>1 DEF ForkEnable, BottomOf
<1>3. preempt_count' = [preempt_count EXCEPT ![sp] = @ + (-1)]
  BY <1>1 DEF ForkEnable, PreemptAdd
<1>4. LiesOn(sp, "f_enable", a)
  BY <1>1, <1>2 DEF Rests
<1>5. preempt_count'[sp] = Count(a, "none", state[sp])
  BY <1>1, <1>3, <1>4
    DEF IInv, Types, Count, Disabled, Forgot, One, LiesOn, InScheduler, Inside, Forking, Seeking
<1>6. Steady
  BY <1>1, <1>3 DEF ForkEnable, Keep, sched, mm, Steady, IInv, Types
<1> QED
  BY <1>1, <1>2, <1>5, <1>6, ReturnKeeps DEF Marked, Ended, Inside, Seeking, a

LEMMA ScheduleTailKeeps == IInv /\ ScheduleTail => IInv'
<1> SUFFICES ASSUME IInv, ScheduleTail PROVE IInv'
  OBVIOUS
<1> DEFINE a == Pt(stack[sp], Len(stack[sp]) - 1)
<1>1. /\ Is("s_tail") /\ Rests(sp, "s_tail", a) /\ sp = current /\ sp \in Task
      /\ preempt_count[sp] = Count("s_tail", a, state[sp])
  BY OnTop DEF ScheduleTail
<1> HIDE DEF a
<1>2. "s_tail" \notin BottomOf(sp) /\ Return
  BY <1>1 DEF ScheduleTail, BottomOf
<1>3. preempt_count' = [preempt_count EXCEPT ![sp] = @ + (-1)]
  BY <1>1 DEF ScheduleTail, PreemptAdd
<1>4. LiesOn(sp, "s_tail", a)
  BY <1>1, <1>2 DEF Rests
<1>5. preempt_count'[sp] = Count(a, "none", state[sp])
  BY <1>1, <1>3, <1>4
    DEF IInv, Types, Count, Disabled, Forgot, One, LiesOn, InScheduler, Inside, Forking, Seeking
<1>6. Steady
  BY <1>1, <1>3 DEF ScheduleTail, Keep, sched, mm, Steady, IInv, Types
<1> QED
  BY <1>1, <1>2, <1>5, <1>6, ReturnKeeps DEF Marked, Ended, Inside, Seeking, a

LEMMA SysWriteKeeps == IInv /\ SysWrite => IInv'
<1> SUFFICES ASSUME IInv, SysWrite PROVE IInv'
  OBVIOUS
<1> DEFINE a == Pt(stack[sp], Len(stack[sp]) - 1)
<1>1. /\ Is("write") /\ Rests(sp, "write", a) /\ sp = current /\ sp \in Task
      /\ preempt_count[sp] = Count("write", a, state[sp])
  BY OnTop DEF SysWrite
<1> HIDE DEF a
<1>2. "write" \notin BottomOf(sp) /\ Return
  BY <1>1 DEF SysWrite, BottomOf
<1>3. preempt_count' = preempt_count
  BY DEF SysWrite, sched
<1>4. LiesOn(sp, "write", a)
  BY <1>1, <1>2 DEF Rests
<1>5. preempt_count'[sp] = Count(a, "none", state[sp])
  BY <1>1, <1>3, <1>4
    DEF IInv, Types, Count, Disabled, Forgot, One, LiesOn, InScheduler, Inside, Forking, Seeking
<1>6. Steady
  BY <1>1, <1>3 DEF SysWrite, Keep, sched, mm, Steady, IInv, Types
<1> QED
  BY <1>1, <1>2, <1>5, <1>6, ReturnKeeps DEF Marked, Ended, Inside, Seeking, a

\* What a frame rests on.
LEMMA RestsOn ==
  ASSUME NEW t, NEW b, NEW s \in Seq(Frame), Len(s) > 0, Rests(t, b, Pt(s, Len(s) - 1))
  PROVE  /\ Len(s) = 1 => b \in BottomOf(t)
         /\ Len(s) > 1 => LiesOn(t, b, s[Len(s) - 1].pt)
<1>1. Len(s) \in Nat
  BY LenProperties
<1>2. ASSUME Len(s) = 1
      PROVE  b \in BottomOf(t)
  <2>1. Pt(s, Len(s) - 1) = "none"
    BY <1>2 DEF Pt
  <2> QED
    BY <2>1 DEF Rests, LiesOn
<1>3. ASSUME Len(s) > 1
      PROVE  LiesOn(t, b, s[Len(s) - 1].pt)
  <2>1. Len(s) - 1 \in 1 .. Len(s)
    BY <1>1, <1>3
  <2>2. s[Len(s) - 1] \in Frame
    BY <2>1, ElementOfSeq
  <2>3. s[Len(s) - 1].pt # "none"
    BY <2>2 DEF Frame, Plain, Forking
  <2> QED
    BY <2>1, <2>3 DEF Rests, Pt
<1> QED
  BY <1>2, <1>3

\* Two frames in place of the uppermost one, three, and two on top of it.
LEMMA TwoFits ==
  ASSUME IInv, NEW f, Fresh(f), NEW g, Fresh(g),
         Becomes(1, <<f, g>>),
         Rests(sp, f.pt, Pt(stack[sp], Len(stack[sp]) - 1)),
         Pt(stack[sp], Len(stack[sp]) - 1) \notin Lone,
         LiesOn(sp, g.pt, f.pt)
  PROVE  LET s == stack[sp]
             q == stack'[sp]
         IN  /\ Proper(q) /\ Len(q) = Len(s) + 1 /\ Kept(q, s, Len(s) - 1)
             /\ q[Len(s)] = f /\ Pt(q, Len(s)) = f.pt /\ Left(q, Len(s)) = Wants(f)
             /\ q[Len(s) + 1] = g /\ Pt(q, Len(s) + 1) = g.pt /\ Left(q, Len(s) + 1) = Wants(g)
<1> DEFINE s == stack[sp]
           q == stack'[sp]
           a == Pt(s, Len(s) - 1)
<1>1. /\ sp \in Task /\ Fits(sp, s) /\ Soundly(sp) /\ Stack
      /\ s \in Seq(Frame) /\ Len(s) \in Nat /\ Len(s) > 0 /\ Top = s[Len(s)]
  BY Here
<1>2. /\ Reaches(Len(s) + 1, Len(s) - 1)
      /\ q[Len(s)] = f
      /\ q[Len(s) + 1] = g
  BY <1>1, TwoStep DEF Fresh
<1>3. /\ q \in Seq(Frame) /\ Len(q) = Len(s) + 1 /\ \A i \in 1 .. Len(s) - 1 : q[i] = s[i]
      /\ stack' = [stack EXCEPT ![sp] = q] /\ stack' \in [Task -> Seq(Frame)]
  BY <1>2 DEF Reaches
<1>4. \A i \in 1 .. Len(s) : s[i].pt = "take" => s[i].page \in Free
  BY <1>1 DEF Soundly, Sound
<1>5. Rests(sp, f.pt, a) /\ a \notin Lone
  OBVIOUS
<1> HIDE DEF s, q, a
<1>6. Len(s) > 1 => a = s[Len(s) - 1].pt
  BY <1>1 DEF Pt, a
<1>7. /\ Len(s) = 1 => f.pt \in BottomOf(sp)
      /\ Len(s) > 1 => LiesOn(sp, f.pt, s[Len(s) - 1].pt)
  BY <1>1, <1>5, <1>6, RestsOn DEF a
<1>8. Fits(sp, q)
  <2>1. Len(s) - 1 \in 0 .. Len(s) /\ Len(q) > 0 /\ Len(s) - 1 <= Len(q)
    BY <1>1, <1>3
  <2>2. ASSUME Len(s) - 1 = 0
        PROVE  q[1].pt \in BottomOf(sp)
    <3>1. Len(s) = 1
      BY <1>1, <2>2
    <3>2. q[1] = f /\ f.pt \in BottomOf(sp)
      BY <1>2, <1>7, <3>1
    <3> QED
      BY <3>2
  <2>3. \A i \in 1 .. Len(q) - 1 : i >= Len(s) - 1 => LiesOn(sp, q[i + 1].pt, q[i].pt)
    <3>1. \A i \in 1 .. Len(q) - 1 : i >= Len(s) - 1 => i = Len(s) - 1 \/ i = Len(s)
      BY <1>1, <1>3
    <3>2. Len(s) - 1 > 0 => q[Len(s) - 1] = s[Len(s) - 1]
      BY <1>1, <1>3
    <3>3. Len(s) - 1 + 1 = Len(s) /\ Len(s) + 1 + 1 = Len(s) + 2
      BY <1>1
    <3>4. ASSUME NEW i \in 1 .. Len(q) - 1, i = Len(s) - 1
          PROVE  LiesOn(sp, q[i + 1].pt, q[i].pt)
      <4>1. Len(s) > 1 /\ i + 1 = Len(s) /\ q[i] = s[Len(s) - 1]
        BY <1>1, <3>2, <3>4
      <4> QED
        BY <1>2, <1>7, <3>4, <4>1
    <3> QED
      BY <1>2, <3>1, <3>3, <3>4
  <2>4. \A i \in 1 .. Len(q) - 2 : i >= Len(s) - 1 \/ i >= Len(s) - 1 => q[i].pt \notin Lone
    <3>1. \A i \in 1 .. Len(q) - 2 : i >= Len(s) - 1 => i = Len(s) - 1
      BY <1>1, <1>3
    <3>2. ASSUME Len(s) > 1
          PROVE  q[Len(s) - 1].pt = a
      <4>1. Len(s) - 1 \in 1 .. Len(s) - 1
        BY <1>1, <3>2
      <4> QED
        BY <1>3, <1>6, <3>2, <4>1
    <3> QED
      BY <1>1, <1>5, <3>1, <3>2
  <2> QED
    BY <1>1, <1>3, <2>1, <2>2, <2>3, <2>4, FitsOn
<1>9. \A i \in 1 .. Len(q) : q[i].pt = "take" => q[i].page \in Free
  <2>1. \A i \in 1 .. Len(q) : i \in 1 .. Len(s) - 1 \/ i = Len(s) \/ i = Len(s) + 1
    BY <1>1, <1>3
  <2>2. \A i \in 1 .. Len(s) - 1 : q[i].pt = "take" => q[i].page \in Free
    <3>1. \A i \in 1 .. Len(s) - 1 : i \in 1 .. Len(s)
      BY <1>1
    <3> QED
      BY <1>3, <1>4, <3>1
  <2> QED
    BY <1>2, <2>1, <2>2 DEF Fresh
<1>10. Kept(q, s, Len(s) - 1)
  BY <1>1, <1>3 DEF Kept, Pt, Left
<1>11. /\ Pt(q, Len(s)) = f.pt /\ Left(q, Len(s)) = Wants(f)
       /\ Pt(q, Len(s) + 1) = g.pt /\ Left(q, Len(s) + 1) = Wants(g)
  <2>1. Len(s) \in 1 .. Len(q) /\ Len(s) + 1 \in 1 .. Len(q)
    BY <1>1, <1>3
  <2> QED
    BY <1>2, <2>1 DEF Pt, Left, Wants
<1>12. Ends(q)
  BY <1>1, <1>3 DEF Ends, Pt, Left, Seeking
<1> QED
  BY <1>2, <1>3, <1>8, <1>9, <1>10, <1>11, <1>12 DEF s, q, Proper

LEMMA ThreeFits ==
  ASSUME IInv, NEW f, Fresh(f), NEW g, Fresh(g), NEW h, Fresh(h),
         Becomes(1, <<f, g, h>>),
         Rests(sp, f.pt, Pt(stack[sp], Len(stack[sp]) - 1)),
         Pt(stack[sp], Len(stack[sp]) - 1) \notin Lone,
         LiesOn(sp, g.pt, f.pt), LiesOn(sp, h.pt, g.pt), f.pt \notin Lone
  PROVE  LET s == stack[sp]
             q == stack'[sp]
         IN  /\ Proper(q) /\ Len(q) = Len(s) + 2 /\ Kept(q, s, Len(s) - 1)
             /\ q[Len(s)] = f /\ Pt(q, Len(s)) = f.pt /\ Left(q, Len(s)) = Wants(f)
             /\ q[Len(s) + 1] = g /\ Pt(q, Len(s) + 1) = g.pt /\ Left(q, Len(s) + 1) = Wants(g)
             /\ q[Len(s) + 2] = h /\ Pt(q, Len(s) + 2) = h.pt /\ Left(q, Len(s) + 2) = Wants(h)
<1> DEFINE s == stack[sp]
           q == stack'[sp]
           a == Pt(s, Len(s) - 1)
<1>1. /\ sp \in Task /\ Fits(sp, s) /\ Soundly(sp) /\ Stack
      /\ s \in Seq(Frame) /\ Len(s) \in Nat /\ Len(s) > 0 /\ Top = s[Len(s)]
  BY Here
<1>2. /\ Reaches(Len(s) + 2, Len(s) - 1)
      /\ q[Len(s)] = f
      /\ q[Len(s) + 1] = g
      /\ q[Len(s) + 2] = h
  BY <1>1, ThreeStep DEF Fresh
<1>3. /\ q \in Seq(Frame) /\ Len(q) = Len(s) + 2 /\ \A i \in 1 .. Len(s) - 1 : q[i] = s[i]
      /\ stack' = [stack EXCEPT ![sp] = q] /\ stack' \in [Task -> Seq(Frame)]
  BY <1>2 DEF Reaches
<1>4. \A i \in 1 .. Len(s) : s[i].pt = "take" => s[i].page \in Free
  BY <1>1 DEF Soundly, Sound
<1>5. Rests(sp, f.pt, a) /\ a \notin Lone
  OBVIOUS
<1> HIDE DEF s, q, a
<1>6. Len(s) > 1 => a = s[Len(s) - 1].pt
  BY <1>1 DEF Pt, a
<1>7. /\ Len(s) = 1 => f.pt \in BottomOf(sp)
      /\ Len(s) > 1 => LiesOn(sp, f.pt, s[Len(s) - 1].pt)
  BY <1>1, <1>5, <1>6, RestsOn DEF a
<1>8. Fits(sp, q)
  <2>1. Len(s) - 1 \in 0 .. Len(s) /\ Len(q) > 0 /\ Len(s) - 1 <= Len(q)
    BY <1>1, <1>3
  <2>2. ASSUME Len(s) - 1 = 0
        PROVE  q[1].pt \in BottomOf(sp)
    <3>1. Len(s) = 1
      BY <1>1, <2>2
    <3>2. q[1] = f /\ f.pt \in BottomOf(sp)
      BY <1>2, <1>7, <3>1
    <3> QED
      BY <3>2
  <2>3. \A i \in 1 .. Len(q) - 1 : i >= Len(s) - 1 => LiesOn(sp, q[i + 1].pt, q[i].pt)
    <3>1. \A i \in 1 .. Len(q) - 1 :
            i >= Len(s) - 1 => i = Len(s) - 1 \/ i = Len(s) \/ i = Len(s) + 1
      BY <1>1, <1>3
    <3>2. Len(s) - 1 > 0 => q[Len(s) - 1] = s[Len(s) - 1]
      BY <1>1, <1>3
    <3>3. Len(s) - 1 + 1 = Len(s) /\ Len(s) + 1 + 1 = Len(s) + 2
      BY <1>1
    <3>4. ASSUME NEW i \in 1 .. Len(q) - 1, i = Len(s) - 1
          PROVE  LiesOn(sp, q[i + 1].pt, q[i].pt)
      <4>1. Len(s) > 1 /\ i + 1 = Len(s) /\ q[i] = s[Len(s) - 1]
        BY <1>1, <3>2, <3>4
      <4> QED
        BY <1>2, <1>7, <3>4, <4>1
    <3> QED
      BY <1>2, <3>1, <3>3, <3>4
  <2>4. \A i \in 1 .. Len(q) - 2 : i >= Len(s) - 1 \/ i >= Len(s) - 1 => q[i].pt \notin Lone
    <3>1. \A i \in 1 .. Len(q) - 2 : i >= Len(s) - 1 => i = Len(s) - 1 \/ i = Len(s)
      BY <1>1, <1>3
    <3>2. ASSUME Len(s) > 1
          PROVE  q[Len(s) - 1].pt = a
      <4>1. Len(s) - 1 \in 1 .. Len(s) - 1
        BY <1>1, <3>2
      <4> QED
        BY <1>3, <1>6, <3>2, <4>1
    <3>3. q[Len(s)].pt \notin Lone
      BY <1>2
    <3> QED
      BY <1>1, <1>5, <3>1, <3>2, <3>3
  <2> QED
    BY <1>1, <1>3, <2>1, <2>2, <2>3, <2>4, FitsOn
<1>9. \A i \in 1 .. Len(q) : q[i].pt = "take" => q[i].page \in Free
  <2>1. \A i \in 1 .. Len(q) :
          i \in 1 .. Len(s) - 1 \/ i = Len(s) \/ i = Len(s) + 1 \/ i = Len(s) + 2
    BY <1>1, <1>3
  <2>2. \A i \in 1 .. Len(s) - 1 : q[i].pt = "take" => q[i].page \in Free
    <3>1. \A i \in 1 .. Len(s) - 1 : i \in 1 .. Len(s)
      BY <1>1
    <3> QED
      BY <1>3, <1>4, <3>1
  <2> QED
    BY <1>2, <2>1, <2>2 DEF Fresh
<1>10. Kept(q, s, Len(s) - 1)
  BY <1>1, <1>3 DEF Kept, Pt, Left
<1>11. /\ Pt(q, Len(s)) = f.pt /\ Left(q, Len(s)) = Wants(f)
       /\ Pt(q, Len(s) + 1) = g.pt /\ Left(q, Len(s) + 1) = Wants(g)
       /\ Pt(q, Len(s) + 2) = h.pt /\ Left(q, Len(s) + 2) = Wants(h)
  <2>1. Len(s) \in 1 .. Len(q) /\ Len(s) + 1 \in 1 .. Len(q) /\ Len(s) + 2 \in 1 .. Len(q)
    BY <1>1, <1>3
  <2> QED
    BY <1>2, <2>1 DEF Pt, Left, Wants
<1>12. Ends(q)
  BY <1>1, <1>3 DEF Ends, Pt, Left, Seeking
<1> QED
  BY <1>2, <1>3, <1>8, <1>9, <1>10, <1>11, <1>12 DEF s, q, Proper

LEMMA CallFits ==
  ASSUME IInv, NEW f, Fresh(f), NEW g, Fresh(g),
         Call(<<f, g>>),
         LiesOn(sp, f.pt, Top.pt), Top.pt \notin Lone,
         Pt(stack[sp], Len(stack[sp]) - 1) \notin Lone,
         LiesOn(sp, g.pt, f.pt)
  PROVE  LET s == stack[sp]
             q == stack'[sp]
         IN  /\ Proper(q) /\ Len(q) = Len(s) + 2 /\ Kept(q, s, Len(s))
             /\ q[Len(s) + 1] = f /\ Pt(q, Len(s) + 1) = f.pt /\ Left(q, Len(s) + 1) = Wants(f)
             /\ q[Len(s) + 2] = g /\ Pt(q, Len(s) + 2) = g.pt /\ Left(q, Len(s) + 2) = Wants(g)
<1> DEFINE s == stack[sp]
           q == stack'[sp]
           a == Pt(s, Len(s) - 1)
<1>1. /\ sp \in Task /\ Fits(sp, s) /\ Soundly(sp) /\ Stack
      /\ s \in Seq(Frame) /\ Len(s) \in Nat /\ Len(s) > 0 /\ Top = s[Len(s)]
  BY Here
<1>2. /\ Reaches(Len(s) + 2, Len(s))
      /\ q[Len(s) + 1] = f
      /\ q[Len(s) + 2] = g
  BY <1>1, CallStep DEF Fresh
<1>3. /\ q \in Seq(Frame) /\ Len(q) = Len(s) + 2 /\ \A i \in 1 .. Len(s) : q[i] = s[i]
      /\ stack' = [stack EXCEPT ![sp] = q] /\ stack' \in [Task -> Seq(Frame)]
  BY <1>2 DEF Reaches
<1>4. \A i \in 1 .. Len(s) : s[i].pt = "take" => s[i].page \in Free
  BY <1>1 DEF Soundly, Sound
<1>5. LiesOn(sp, f.pt, s[Len(s)].pt) /\ s[Len(s)].pt \notin Lone /\ a \notin Lone
  BY <1>1
<1> HIDE DEF s, q, a
<1>6. Len(s) > 1 => a = s[Len(s) - 1].pt
  BY <1>1 DEF Pt, a
<1>7. Len(s) \in Nat /\ Len(s) > 0 /\ Len(q) = Len(s) + 2 /\ \A i \in 1 .. Len(s) : q[i] = s[i]
  BY <1>1, <1>3
<1>8. Fits(sp, q)
  <2>1. Len(s) \in 0 .. Len(s) /\ Len(q) > 0 /\ Len(s) <= Len(q)
    BY <1>1, <1>3
  <2>2. Len(s) = 0 => q[1].pt \in BottomOf(sp)
    BY <1>1, <1>2, <1>3
  <2>3. \A i \in 1 .. Len(q) - 1 : i >= Len(s) => LiesOn(sp, q[i + 1].pt, q[i].pt)
    <3>1. \A i \in 1 .. Len(q) - 1 : i >= Len(s) => i = Len(s) \/ i = Len(s) + 1
      BY <1>7
    <3>2. q[Len(s)] = s[Len(s)]
      BY <1>7
    <3>3. Len(s) + 1 + 1 = Len(s) + 2
      BY <1>7
    <3> QED
      BY <1>1, <1>2, <1>5, <3>1, <3>2, <3>3
  <2>4. \A i \in 1 .. Len(q) - 2 : i >= Len(s) \/ i >= Len(s) - 1 => q[i].pt \notin Lone
    <3>1. \A i \in 1 .. Len(q) - 2 : i >= Len(s) - 1 => i = Len(s) - 1 \/ i = Len(s)
      BY <1>1, <1>3
    <3>2. ASSUME Len(s) > 1
          PROVE  q[Len(s) - 1].pt = a
      <4>1. Len(s) - 1 \in 1 .. Len(s)
        BY <1>1, <3>2
      <4> QED
        BY <1>3, <1>6, <3>2, <4>1
    <3>3. q[Len(s)].pt \notin Lone
      BY <1>1, <1>3, <1>5
    <3> QED
      BY <1>1, <1>5, <3>1, <3>2, <3>3
  <2> QED
    BY <1>1, <1>3, <2>1, <2>2, <2>3, <2>4, FitsOn
<1>9. \A i \in 1 .. Len(q) : q[i].pt = "take" => q[i].page \in Free
  <2>1. \A i \in 1 .. Len(q) : i \in 1 .. Len(s) \/ i = Len(s) + 1 \/ i = Len(s) + 2
    BY <1>1, <1>3
  <2>2. \A i \in 1 .. Len(s) : q[i].pt = "take" => q[i].page \in Free
    <3>1. \A i \in 1 .. Len(s) : i \in 1 .. Len(s)
      BY <1>1
    <3> QED
      BY <1>3, <1>4, <3>1
  <2> QED
    BY <1>2, <2>1, <2>2 DEF Fresh
<1>10. Kept(q, s, Len(s))
  BY <1>1, <1>3 DEF Kept, Pt, Left
<1>11. /\ Pt(q, Len(s) + 1) = f.pt /\ Left(q, Len(s) + 1) = Wants(f)
       /\ Pt(q, Len(s) + 2) = g.pt /\ Left(q, Len(s) + 2) = Wants(g)
  <2>1. Len(s) + 1 \in 1 .. Len(q) /\ Len(s) + 2 \in 1 .. Len(q)
    BY <1>1, <1>3
  <2> QED
    BY <1>2, <2>1 DEF Pt, Left, Wants
<1>12. Ends(q)
  BY <1>1, <1>3 DEF Ends, Pt, Left, Seeking
<1> QED
  BY <1>2, <1>3, <1>8, <1>9, <1>10, <1>11, <1>12 DEF s, q, Proper

\* A step of the task on the CPU is known by the stack it leaves.
LEMMA ProperKeeps ==
  ASSUME IInv, Steady, Proper(stack'[sp]), NEW n \in Nat, n = Len(stack'[sp]), n > 0,
         NEW p, Is(p), p \in Ended => stack'[sp][n].pt \in Ended,
         preempt_count'[sp] = Count(Pt(stack'[sp], n), Pt(stack'[sp], n - 1), state[sp]),
         Early(sp, stack'[sp], nr_tasks, Cardinality(mem_map)),
         Settled(stack'[sp][n])
  PROVE  IInv'
<1> DEFINE q == stack'[sp]
<1>1. Sound(sp, q, state[sp], preempt_count'[sp], nr_tasks, Cardinality(mem_map), Free)
  BY DEF Sound, Proper
<1>2. Local
  BY DEF Local, Proper
<1> QED
  BY <1>1, <1>2, LocalStep DEF Is

-----------------------------------------------------------------------------
\* Where the frames of the program are

Bottoms == BottomOf(0) \cup BottomOf(1)

LEMMA BottomFirst ==
  ASSUME NEW t \in Task, NEW s, Fits(t, s), NEW i \in 1 .. Len(s), s[i].pt \in Bottoms
  PROVE  i = 1
<1>1. SUFFICES ASSUME i # 1 PROVE FALSE
  OBVIOUS
<1>2. Len(s) \in Nat
  BY LenProperties DEF Fits
<1>3. i - 1 \in 1 .. Len(s) - 1 /\ i - 1 + 1 = i
  BY <1>1, <1>2
<1>4. LiesOn(t, s[i].pt, s[i - 1].pt)
  BY <1>3 DEF Fits
<1> QED
  BY <1>4 DEF LiesOn, Bottoms, BottomOf, InScheduler, Inside, Forking, Seeking

\* A fork is called from main() or loop(), at the bottom.
LEMMA ForkPlace ==
  ASSUME NEW t \in Task, NEW s, Fits(t, s), NEW i \in 1 .. Len(s),
         s[i].pt \in {"fork", "f_copy", "f_insert", "f_enable"}
  PROVE  i = 2 /\ ((t = 0 /\ s[1].pt = "main") \/ (t = 1 /\ s[1].pt = "loop"))
<1>1. Len(s) \in Nat /\ Len(s) > 0 /\ s[1].pt \in BottomOf(t)
  BY LenProperties DEF Fits
<1>2. i # 1
  BY <1>1 DEF BottomOf
<1>3. i - 1 \in 1 .. Len(s) - 1 /\ i - 1 + 1 = i /\ i - 1 \in 1 .. Len(s)
  BY <1>1, <1>2
<1>4. LiesOn(t, s[i].pt, s[i - 1].pt)
  BY <1>3 DEF Fits
<1>5. s[i - 1].pt = "main" \/ (s[i - 1].pt = "loop" /\ t = 1)
  BY <1>4 DEF LiesOn, InScheduler, Inside, Forking, Seeking
<1>6. i - 1 = 1
  BY <1>3, <1>5, BottomFirst DEF Bottoms, BottomOf
<1>7. i = 2
  BY <1>6
<1> QED
  BY <1>1, <1>5, <1>6, <1>7 DEF BottomOf, Task

\* A page is looked for at a fault of the user process, or in a fork.
LEMMA WantPlace ==
  ASSUME NEW t \in Task, NEW s, Fits(t, s), NEW i \in 1 .. Len(s), s[i].pt \in Seeking
  PROVE  \/ t = 1 /\ i = 2 /\ s[1].pt \in {"user", "aborted"}
         \/ t = 0 /\ i = 3 /\ i = Len(s) /\ s[1].pt = "main" /\ s[2].pt = "f_copy"
         \/ /\ t = 1 /\ i = 3 /\ i = Len(s) /\ s[1].pt = "loop"
            /\ s[2].pt \in {"f_copy", "f_insert"}
<1>1. /\ Len(s) \in Nat /\ Len(s) > 0 /\ s[1].pt \in BottomOf(t)
      /\ \A j \in 1 .. Len(s) - 2 : s[j].pt \notin Lone
  BY LenProperties DEF Fits
<1>2. i # 1
  BY <1>1 DEF BottomOf, Seeking
<1>3. i - 1 \in 1 .. Len(s) - 1 /\ i - 1 + 1 = i /\ i - 1 \in 1 .. Len(s)
  BY <1>1, <1>2
<1>4. LiesOn(t, s[i].pt, s[i - 1].pt)
  BY <1>3 DEF Fits
<1>5. \/ s[i - 1].pt \in {"user", "aborted"}
      \/ s[i - 1].pt = "f_copy"
      \/ s[i - 1].pt = "f_insert" /\ t = 1
  BY <1>4 DEF LiesOn, InScheduler, Inside, Forking, Seeking
<1>6. CASE s[i - 1].pt \in {"user", "aborted"}
  <2>1. i - 1 = 1
    BY <1>3, <1>6, BottomFirst DEF Bottoms, BottomOf
  <2>2. i = 2
    BY <2>1
  <2> QED
    BY <1>1, <1>6, <2>1, <2>2 DEF BottomOf
<1>7. CASE s[i - 1].pt \in {"f_copy", "f_insert"}
  <2>1. /\ i - 1 = 2
        /\ (t = 0 /\ s[1].pt = "main") \/ (t = 1 /\ s[1].pt = "loop")
    BY <1>3, <1>7, ForkPlace
  <2>2. i = 3
    BY <2>1
  <2>3. i = Len(s)
    BY <1>1, <1>3, <1>7 DEF Lone
  <2> QED
    BY <1>5, <1>7, <2>1, <2>2, <2>3
<1> QED
  BY <1>5, <1>6, <1>7

LEMMA OnBottom ==
  ASSUME IInv, NEW p \in Bottoms, Is(p)
  PROVE  /\ Len(stack[sp]) = 1 /\ Pt(stack[sp], 1) = p /\ Pt(stack[sp], 0) = "none"
         /\ sp = current /\ sp \in Task /\ p \in BottomOf(sp)
         /\ Pt(stack[sp], 2) = "none" /\ Pt(stack[sp], 3) = "none" /\ Left(stack[sp], 2) = 0
         /\ Early(sp, stack[sp], nr_tasks, Cardinality(mem_map))
         /\ preempt_count[sp] = Count(p, "none", state[sp])
<1>1. p # "s_switch"
  BY DEF Bottoms, BottomOf
<1>2. /\ Pt(stack[sp], Len(stack[sp])) = p /\ sp = current /\ sp \in Task
      /\ Len(stack[sp]) \in Nat /\ Len(stack[sp]) > 0
      /\ Early(sp, stack[sp], nr_tasks, Cardinality(mem_map))
      /\ preempt_count[sp] = Count(p, Pt(stack[sp], Len(stack[sp]) - 1), state[sp])
  BY <1>1, OnTop
<1>3. Fits(sp, stack[sp]) /\ stack[sp][1].pt \in BottomOf(sp)
  BY Here DEF Fits
<1>4. Len(stack[sp]) \in 1 .. Len(stack[sp])
  BY <1>2
<1>5. stack[sp][Len(stack[sp])].pt = p
  BY <1>2, <1>4 DEF Pt
<1>6. Len(stack[sp]) = 1
  BY <1>2, <1>3, <1>4, <1>5, BottomFirst
<1>7. /\ Pt(stack[sp], 0) = "none" /\ Pt(stack[sp], 2) = "none" /\ Pt(stack[sp], 3) = "none"
  BY <1>6 DEF Pt
<1>8. Left(stack[sp], 2) = 0
  BY <1>7 DEF Left, Seeking
<1> QED
  BY <1>2, <1>3, <1>5, <1>6, <1>7, <1>8

\* A stack of two or three frames, of which the others are points alone.
Shows(q, f, g, n) ==
  /\ Pt(q, 1) = f /\ Pt(q, 2) = g /\ Left(q, 2) = n
  /\ Pt(q, 3) \in {"none", "write"} /\ Left(q, 3) = 0

LEMMA FollowKeeps ==
  ASSUME IInv, NEW p \in Bottoms, NEW f, Fresh(f), NEW g, Fresh(g), Follow(p, <<f, g>>),
         f.pt \in BottomOf(sp), LiesOn(sp, g.pt, f.pt), Settled(g),
         Count(g.pt, f.pt, state[sp]) = Count(p, "none", state[sp]),
         \A q : Shows(q, f.pt, g.pt, Wants(g))
                  => Early(sp, q, nr_tasks, Cardinality(mem_map))
  PROVE  IInv'
<1> DEFINE q == stack'[sp]
<1>1. /\ Len(stack[sp]) = 1 /\ sp = current /\ sp \in Task /\ Pt(stack[sp], 0) = "none"
      /\ preempt_count[sp] = Count(p, "none", state[sp])
  BY OnBottom DEF Follow
<1>2. Rests(sp, f.pt, Pt(stack[sp], Len(stack[sp]) - 1))
  BY <1>1 DEF Rests
<1>3. Pt(stack[sp], Len(stack[sp]) - 1) \notin Lone
  BY <1>1 DEF Lone
<1>4. Becomes(1, <<f, g>>) /\ preempt_count' = preempt_count
  BY DEF Follow, sched
<1>5. /\ Proper(q) /\ Len(q) = 2 /\ q[1] = f /\ q[2] = g
      /\ Pt(q, 1) = f.pt /\ Pt(q, 2) = g.pt /\ Left(q, 2) = Wants(g)
  <2>1. /\ Proper(q) /\ Len(q) = Len(stack[sp]) + 1
        /\ q[Len(stack[sp])] = f /\ q[Len(stack[sp]) + 1] = g
        /\ Pt(q, Len(stack[sp])) = f.pt /\ Pt(q, Len(stack[sp]) + 1) = g.pt
        /\ Left(q, Len(stack[sp]) + 1) = Wants(g)
    BY <1>2, <1>3, <1>4, TwoFits
  <2> HIDE DEF q
  <2>2. Len(stack[sp]) + 1 = 2
    BY <1>1
  <2> QED
    BY <1>1, <2>1, <2>2, Zenon
<1> HIDE DEF q
<1>6. Pt(q, 3) = "none" /\ Left(q, 3) = 0
  BY <1>5 DEF Proper, Ends
<1>7. Early(sp, q, nr_tasks, Cardinality(mem_map))
  BY <1>5, <1>6 DEF Shows
<1>8. preempt_count'[sp] = Count(Pt(q, 2), Pt(q, 2 - 1), state[sp])
  BY <1>1, <1>4, <1>5
<1>9. Steady
  BY <1>1 DEF Follow, Keep, sched, mm, Steady, IInv, Types
<1>10. Is(p) /\ p \notin Ended
  BY DEF Follow, Bottoms, BottomOf, Ended, Inside
<1> QED
  BY <1>5, <1>7, <1>8, <1>9, <1>10, ProperKeeps DEF q

\* A frame of get_free_page().
LEMMA WantFrames ==
  ASSUME NEW n \in Nat \ {0}, NEW t \in Task
  PROVE  /\ Fresh(Want(n, t)) /\ Want(n, t).pt = "get" /\ Wants(Want(n, t)) = n
         /\ Want(n, t).n = n /\ Want(n, t).for = t /\ Settled(Want(n, t))
BY DEF Want, Fresh, Frame, Wants, Seeking, Settled

LEMMA MainKeeps == IInv /\ Main => IInv'
<1> SUFFICES ASSUME IInv, Main PROVE IInv'
  OBVIOUS
<1>1. CASE Follow("kernel_main", <<At("main"), At("fork")>>)
  <2> DEFINE f == At("main")
             g == At("fork")
  <2>1. /\ Fresh(f) /\ f.pt = "main" /\ Fresh(g) /\ g.pt = "fork"
    BY PlainFrames DEF Plain
  <2>2. Settled(g) /\ Wants(g) = 0
    BY <2>1 DEF Settled, Wants, Seeking
  <2>3. "kernel_main" \in Bottoms
    BY DEF Bottoms, BottomOf
  <2>4. /\ sp \in Task /\ "kernel_main" \in BottomOf(sp) /\ Pt(stack[sp], 1) = "kernel_main"
        /\ Early(sp, stack[sp], nr_tasks, Cardinality(mem_map))
    BY <1>1, <2>3, OnBottom DEF Follow
  <2>5. Follow("kernel_main", <<f, g>>)
    BY <1>1
  <2> HIDE DEF f, g
  <2>6. sp = 0 /\ f.pt \in BottomOf(sp) /\ LiesOn(sp, g.pt, f.pt)
    BY <2>1, <2>4 DEF BottomOf, LiesOn
  <2>7. Count(g.pt, f.pt, state[sp]) = Count("kernel_main", "none", state[sp])
    BY <2>1 DEF Count, Disabled, Forgot, Inside, Forking
  <2>8. ASSUME NEW q, Shows(q, f.pt, g.pt, Wants(g))
        PROVE  Early(sp, q, nr_tasks, Cardinality(mem_map))
    BY <2>1, <2>4, <2>6, <2>8 DEF Early, Shows
  <2> QED
    BY <2>1, <2>2, <2>3, <2>5, <2>6, <2>7, <2>8, FollowKeeps
<1>2. CASE Follow("main", <<At("main"), At("schedule")>>)
  <2> DEFINE f == At("main")
             g == At("schedule")
  <2>1. /\ Fresh(f) /\ f.pt = "main" /\ Fresh(g) /\ g.pt = "schedule"
    BY PlainFrames DEF Plain
  <2>2. Settled(g) /\ Wants(g) = 0
    BY <2>1 DEF Settled, Wants, Seeking
  <2>3. "main" \in Bottoms
    BY DEF Bottoms, BottomOf
  <2>4. sp \in Task /\ "main" \in BottomOf(sp)
    BY <1>2, <2>3, OnBottom DEF Follow
  <2>5. Follow("main", <<f, g>>)
    BY <1>2
  <2> HIDE DEF f, g
  <2>6. sp = 0 /\ f.pt \in BottomOf(sp) /\ LiesOn(sp, g.pt, f.pt)
    BY <2>1, <2>4 DEF BottomOf, LiesOn
  <2>7. Count(g.pt, f.pt, state[sp]) = Count("main", "none", state[sp])
    BY <2>1 DEF Count, Disabled, Forgot, Inside, Forking
  <2>8. ASSUME NEW q, Shows(q, f.pt, g.pt, Wants(g))
        PROVE  Early(sp, q, nr_tasks, Cardinality(mem_map))
    BY <2>1, <2>6, <2>8 DEF Early, Shows
  <2> QED
    BY <2>1, <2>2, <2>3, <2>5, <2>6, <2>7, <2>8, FollowKeeps
<1> QED
  BY <1>1, <1>2 DEF Main

LEMMA UserProcessKeeps == IInv /\ UserProcess => IInv'
<1> SUFFICES ASSUME IInv, UserProcess PROVE IInv'
  OBVIOUS
<1>1. CASE Follow("kernel_process", <<At("user"), Want(MovePages, current)>>)
  <2> DEFINE f == At("user")
             g == Want(MovePages, current)
  <2>1. "kernel_process" \in Bottoms
    BY DEF Bottoms, BottomOf
  <2>2. /\ sp \in Task /\ sp = current /\ "kernel_process" \in BottomOf(sp)
        /\ Pt(stack[sp], 1) = "kernel_process"
        /\ Left(stack[sp], 2) = 0 /\ Early(sp, stack[sp], nr_tasks, Cardinality(mem_map))
    BY <1>1, <2>1, OnBottom DEF Follow
  <2>3. Fresh(f) /\ f.pt = "user"
    BY PlainFrames DEF Plain, Forking
  <2>4. Fresh(g) /\ g.pt = "get" /\ Settled(g) /\ Wants(g) = MovePages
    <3>1. MovePages \in Nat \ {0} /\ current \in Task
      BY <2>2 DEF MovePages
    <3> QED
      BY <3>1, WantFrames
  <2>5. Follow("kernel_process", <<f, g>>)
    BY <1>1
  <2> HIDE DEF f, g
  <2>6. sp = 1 /\ f.pt \in BottomOf(sp) /\ LiesOn(sp, g.pt, f.pt)
    BY <2>2, <2>3, <2>4 DEF BottomOf, LiesOn, Seeking
  <2>7. Count(g.pt, f.pt, state[sp]) = Count("kernel_process", "none", state[sp])
    BY <2>3, <2>4 DEF Count, Disabled, Forgot, Inside, Forking
  <2>8. ASSUME NEW q, Shows(q, f.pt, g.pt, Wants(g))
        PROVE  Early(sp, q, nr_tasks, Cardinality(mem_map))
    BY <2>2, <2>3, <2>4, <2>6, <2>8 DEF Early, Shows, BeforeFork, TaskPages, MovePages, AbortPages
  <2> QED
    BY <2>1, <2>3, <2>4, <2>5, <2>6, <2>7, <2>8, FollowKeeps
<1>2. CASE Follow("user", <<At("aborted"), Want(AbortPages, current)>>)
  <2> DEFINE f == At("aborted")
             g == Want(AbortPages, current)
  <2>1. "user" \in Bottoms
    BY DEF Bottoms, BottomOf
  <2>2. /\ sp \in Task /\ sp = current /\ "user" \in BottomOf(sp) /\ Pt(stack[sp], 1) = "user"
        /\ Left(stack[sp], 2) = 0 /\ Early(sp, stack[sp], nr_tasks, Cardinality(mem_map))
    BY <1>2, <2>1, OnBottom DEF Follow
  <2>3. Fresh(f) /\ f.pt = "aborted"
    BY PlainFrames DEF Plain, Forking
  <2>4. Fresh(g) /\ g.pt = "get" /\ Settled(g) /\ Wants(g) = AbortPages
    <3>1. AbortPages \in Nat \ {0} /\ current \in Task
      BY <2>2 DEF AbortPages
    <3> QED
      BY <3>1, WantFrames
  <2>5. Follow("user", <<f, g>>)
    BY <1>2
  <2> HIDE DEF f, g
  <2>6. sp = 1 /\ f.pt \in BottomOf(sp) /\ LiesOn(sp, g.pt, f.pt)
    BY <2>2, <2>3, <2>4 DEF BottomOf, LiesOn, Seeking
  <2>7. Count(g.pt, f.pt, state[sp]) = Count("user", "none", state[sp])
    BY <2>3, <2>4 DEF Count, Disabled, Forgot, Inside, Forking
  <2>8. ASSUME NEW q, Shows(q, f.pt, g.pt, Wants(g))
        PROVE  Early(sp, q, nr_tasks, Cardinality(mem_map))
    BY <2>2, <2>3, <2>4, <2>6, <2>8 DEF Early, Shows, BeforeFork, TaskPages, MovePages, AbortPages
  <2> QED
    BY <2>1, <2>3, <2>4, <2>5, <2>6, <2>7, <2>8, FollowKeeps
<1>3. CASE Follow("ready", <<At("forking"), At("write")>>)
  <2> DEFINE f == At("forking")
             g == At("write")
  <2>1. "ready" \in Bottoms
    BY DEF Bottoms, BottomOf
  <2>2. /\ sp \in Task /\ sp = current /\ "ready" \in BottomOf(sp) /\ Pt(stack[sp], 1) = "ready"
        /\ Left(stack[sp], 2) = 0 /\ Early(sp, stack[sp], nr_tasks, Cardinality(mem_map))
    BY <1>3, <2>1, OnBottom DEF Follow
  <2>3. Fresh(f) /\ f.pt = "forking"
    BY PlainFrames DEF Plain, Forking
  <2>4. Fresh(g) /\ g.pt = "write" /\ Settled(g) /\ Wants(g) = 0
    BY PlainFrames DEF Plain, Forking, Settled, Wants, Seeking
  <2>5. Follow("ready", <<f, g>>)
    BY <1>3
  <2> HIDE DEF f, g
  <2>6. sp = 1 /\ f.pt \in BottomOf(sp) /\ LiesOn(sp, g.pt, f.pt)
    BY <2>2, <2>3, <2>4 DEF BottomOf, LiesOn, Seeking
  <2>7. Count(g.pt, f.pt, state[sp]) = Count("ready", "none", state[sp])
    BY <2>3, <2>4 DEF Count, Disabled, Forgot, Inside, Forking
  <2>8. ASSUME NEW q, Shows(q, f.pt, g.pt, Wants(g))
        PROVE  Early(sp, q, nr_tasks, Cardinality(mem_map))
    BY <2>2, <2>3, <2>4, <2>6, <2>8 DEF Early, Shows, BeforeFork, TaskPages, MovePages, AbortPages
  <2> QED
    BY <2>1, <2>3, <2>4, <2>5, <2>6, <2>7, <2>8, FollowKeeps
<1>4. CASE Follow("forking", <<At("loop"), At("fork")>>)
  <2> DEFINE f == At("loop")
             g == At("fork")
  <2>1. "forking" \in Bottoms
    BY DEF Bottoms, BottomOf
  <2>2. /\ sp \in Task /\ sp = current /\ "forking" \in BottomOf(sp) /\ Pt(stack[sp], 1) = "forking"
        /\ Left(stack[sp], 2) = 0 /\ Early(sp, stack[sp], nr_tasks, Cardinality(mem_map))
    BY <1>4, <2>1, OnBottom DEF Follow
  <2>3. Fresh(f) /\ f.pt = "loop"
    BY PlainFrames DEF Plain, Forking
  <2>4. Fresh(g) /\ g.pt = "fork" /\ Settled(g) /\ Wants(g) = 0
    BY PlainFrames DEF Plain, Forking, Settled, Wants, Seeking
  <2>5. Follow("forking", <<f, g>>)
    BY <1>4
  <2> HIDE DEF f, g
  <2>6. sp = 1 /\ f.pt \in BottomOf(sp) /\ LiesOn(sp, g.pt, f.pt)
    BY <2>2, <2>3, <2>4 DEF BottomOf, LiesOn, Seeking
  <2>7. Count(g.pt, f.pt, state[sp]) = Count("forking", "none", state[sp])
    BY <2>3, <2>4 DEF Count, Disabled, Forgot, Inside, Forking
  <2>8. ASSUME NEW q, Shows(q, f.pt, g.pt, Wants(g))
        PROVE  Early(sp, q, nr_tasks, Cardinality(mem_map))
    BY <2>2, <2>3, <2>4, <2>6, <2>8 DEF Early, Shows, BeforeFork, TaskPages, MovePages, AbortPages
  <2> QED
    BY <2>1, <2>3, <2>4, <2>5, <2>6, <2>7, <2>8, FollowKeeps
<1>5. CASE Follow("loop", <<At("loop"), At("write")>>)
  <2> DEFINE f == At("loop")
             g == At("write")
  <2>1. "loop" \in Bottoms
    BY DEF Bottoms, BottomOf
  <2>2. /\ sp \in Task /\ sp = current /\ "loop" \in BottomOf(sp) /\ Pt(stack[sp], 1) = "loop"
        /\ Left(stack[sp], 2) = 0 /\ Early(sp, stack[sp], nr_tasks, Cardinality(mem_map))
    BY <1>5, <2>1, OnBottom DEF Follow
  <2>3. Fresh(f) /\ f.pt = "loop"
    BY PlainFrames DEF Plain, Forking
  <2>4. Fresh(g) /\ g.pt = "write" /\ Settled(g) /\ Wants(g) = 0
    BY PlainFrames DEF Plain, Forking, Settled, Wants, Seeking
  <2>5. Follow("loop", <<f, g>>)
    BY <1>5
  <2> HIDE DEF f, g
  <2>6. f.pt \in BottomOf(sp) /\ LiesOn(sp, g.pt, f.pt)
    BY <2>2, <2>3, <2>4 DEF LiesOn
  <2>7. Count(g.pt, f.pt, state[sp]) = Count("loop", "none", state[sp])
    BY <2>3, <2>4 DEF Count, Disabled, Forgot, Inside, Forking
  <2>8. ASSUME NEW q, Shows(q, f.pt, g.pt, Wants(g))
        PROVE  Early(sp, q, nr_tasks, Cardinality(mem_map))
    BY <2>2, <2>3, <2>4, <2>6, <2>8
      DEF Early, Shows, BeforeFork, TaskPages, MovePages, AbortPages, BottomOf
  <2> QED
    BY <2>1, <2>3, <2>4, <2>5, <2>6, <2>7, <2>8, FollowKeeps
<1>6. CASE Follow("failed", <<At("loop"), At("exit"), At("write")>>)
  <2> DEFINE f == At("loop")
             g == At("exit")
             h == At("write")
             q == stack'[sp]
  <2>1. "failed" \in Bottoms
    BY DEF Bottoms, BottomOf
  <2>2. /\ sp \in Task /\ sp = current /\ "failed" \in BottomOf(sp)
        /\ Len(stack[sp]) = 1 /\ Pt(stack[sp], 0) = "none"
        /\ preempt_count[sp] = Count("failed", "none", state[sp])
    BY <1>6, <2>1, OnBottom DEF Follow
  <2>3. /\ Fresh(f) /\ f.pt = "loop" /\ Fresh(g) /\ g.pt = "exit" /\ Fresh(h) /\ h.pt = "write"
    BY PlainFrames DEF Plain, Forking
  <2>4. Becomes(1, <<f, g, h>>) /\ preempt_count' = preempt_count
    BY <1>6 DEF Follow, sched
  <2> HIDE DEF f, g, h
  <2>5. sp = 1 /\ LiesOn(sp, g.pt, f.pt) /\ LiesOn(sp, h.pt, g.pt) /\ f.pt \notin Lone
    BY <2>2, <2>3 DEF BottomOf, LiesOn, Lone
  <2>6. /\ Rests(sp, f.pt, Pt(stack[sp], Len(stack[sp]) - 1))
        /\ Pt(stack[sp], Len(stack[sp]) - 1) \notin Lone
    BY <2>2, <2>3, <2>5 DEF Rests, BottomOf, Lone
  <2>7. /\ Proper(q) /\ Len(q) = Len(stack[sp]) + 2 /\ q[Len(stack[sp]) + 2] = h
        /\ Pt(q, Len(stack[sp])) = f.pt /\ Pt(q, Len(stack[sp]) + 1) = g.pt
        /\ Pt(q, Len(stack[sp]) + 2) = h.pt
    BY <2>3, <2>4, <2>5, <2>6, ThreeFits
  <2> HIDE DEF q
  <2>8. Len(stack[sp]) + 1 = 2 /\ Len(stack[sp]) + 2 = 3
    BY <2>2
  <2>9. Len(q) = 3 /\ q[3] = h /\ Pt(q, 1) = "loop" /\ Pt(q, 2) = "exit" /\ Pt(q, 3) = "write"
    BY <2>2, <2>3, <2>7, <2>8
  <2>10. Early(sp, q, nr_tasks, Cardinality(mem_map))
    BY <2>5, <2>9 DEF Early
  <2>11. preempt_count'[sp] = Count(Pt(q, 3), Pt(q, 3 - 1), state[sp])
    <3>1. Pt(q, 3 - 1) = "exit"
      BY <2>9
    <3>2. Count("failed", "none", state[sp]) = Count("write", "exit", state[sp])
      BY DEF Count, Disabled, Forgot, Inside, Forking
    <3> QED
      BY <2>2, <2>4, <2>9, <3>1, <3>2
  <2>12. Steady
    BY <1>6, <2>2 DEF Follow, Keep, sched, mm, Steady, IInv, Types
  <2>13. Settled(q[3]) /\ Is("failed") /\ "failed" \notin Ended
    BY <1>6, <2>3, <2>9 DEF Settled, Follow, Ended, Inside
  <2> QED
    BY <2>7, <2>9, <2>10, <2>11, <2>12, <2>13, ProperKeeps DEF q
<1> QED
  BY <1>1, <1>2, <1>3, <1>4, <1>5, <1>6 DEF UserProcess

-----------------------------------------------------------------------------
\* The timer interrupt

\* A step that only changes credits, and a step of nothing.
LEMMA CreditsKeep ==
  ASSUME IInv,
         UNCHANGED <<current, nr_tasks, state, preempt_count, cpu, pool, mem_map, own>>,
         counter' \in [Task -> -MAX_LATE - 1 .. 2 * PRIORITY]
  PROVE  IInv'
<1>1. Types'
  BY DEF IInv, Types, Live, cpu
<1>2. Live' = Live /\ Free' = Free /\ Top' = Top
  BY DEF Live, Free, Top, cpu
<1>3. \A t \in Live' : Soundly(t)'
  BY <1>2 DEF IInv, Stacks, Soundly, cpu
<1>4. Sleeping' /\ Switching' /\ Pages'
  BY <1>2 DEF IInv, Sleeping, Switching, Pages, OneOwner, Is, cpu
<1> QED
  BY <1>1, <1>3, <1>4 DEF IInv, Stacks

LEMMA TickOnlyKeeps == IInv /\ TickOnly => IInv'
<1> SUFFICES ASSUME IInv, TickOnly PROVE IInv'
  OBVIOUS
<1>1. /\ MAX_LATE \in Nat /\ PRIORITY \in Nat /\ current \in Task
      /\ counter[current] \in -MAX_LATE - 1 .. 2 * PRIORITY /\ preempt_count[current] \in Int
  BY LrtosAssumption DEF IInv, Types
<1>2. Credit \in -MAX_LATE - 1 .. 2 * PRIORITY
  BY <1>1 DEF TickOnly, Credit, MayGoOn
<1>3. counter' \in [Task -> -MAX_LATE - 1 .. 2 * PRIORITY]
  BY <1>1, <1>2 DEF TickOnly, IInv, Types
<1> QED
  BY <1>3, CreditsKeep DEF TickOnly, mm

\* A task whose preempt_count is 0 may be switched where it is.
LEMMA MaySwitch ==
  ASSUME IInv, preempt_count[current] <= 0
  PROVE  /\ sp = current /\ ~Disabled(Top.pt, Pt(stack[sp], Len(stack[sp]) - 1))
         /\ ~Forgot(Top.pt, Pt(stack[sp], Len(stack[sp]) - 1), state[sp])
<1> DEFINE a == Pt(stack[sp], Len(stack[sp]) - 1)
<1>1. /\ sp \in Task /\ current \in Task /\ Is(Top.pt)
      /\ preempt_count[sp] = Count(Top.pt, a, state[sp])
  BY Here, OnTop DEF Is
<1>2. sp = current
  <2>1. SUFFICES ASSUME sp # current PROVE FALSE
    OBVIOUS
  <2>2. Is("s_switch") /\ Top.next = current /\ state[current] = "RUNNING"
    BY <2>1 DEF IInv, Switching, Is
  <2>3. current \in Live \ {sp} /\ Soundly(current)
    BY <1>1, <2>1, <2>2 DEF IInv, Types, Stacks
  <2>4. Pt(stack[current], Len(stack[current])) \in {"s_enable", "s_tail"}
    BY <2>3 DEF IInv, Sleeping
  <2>5. preempt_count[current] > 0
    BY <2>3, <2>4 DEF Soundly, Sound, Count, One, Disabled, Inside
  <2> QED
    BY <1>1, <2>5 DEF IInv, Types
<1> HIDE DEF a
<1>3. ~Disabled(Top.pt, a) /\ ~Forgot(Top.pt, a, state[sp])
  BY <1>1, <1>2 DEF Count, One
<1> QED
  BY <1>2, <1>3 DEF a

LEMMA TickSwitchKeeps == IInv /\ TickSwitch => IInv'
<1> SUFFICES ASSUME IInv, TickSwitch PROVE IInv'
  OBVIOUS
<1> DEFINE s == stack[sp]
           q == stack'[sp]
           a == Pt(s, Len(s) - 1)
           f == At("i_exit")
           g == At("s_disable")
           p == Top.pt
<1>1. /\ sp \in Task /\ s \in Seq(Frame) /\ Len(s) \in Nat /\ Len(s) > 0 /\ Is(p)
      /\ Rests(sp, p, a) /\ Pt(s, Len(s)) = p /\ Top \in Frame
      /\ Early(sp, s, nr_tasks, Cardinality(mem_map))
      /\ preempt_count[sp] = Count(p, a, state[sp])
  BY Here, OnTop DEF Is
<1>2. preempt_count[current] <= 0
  BY Here DEF TickSwitch, MayGoOn, IInv, Types
<1>3. sp = current /\ ~Disabled(p, a) /\ ~Forgot(p, a, state[sp])
  BY <1>2, MaySwitch
<1>4. /\ Fresh(f) /\ f.pt = "i_exit" /\ Wants(f) = 0
      /\ Fresh(g) /\ g.pt = "s_disable" /\ Wants(g) = 0 /\ Settled(g)
  BY PlainFrames DEF Plain, Wants, Seeking, Settled
<1>5. Call(<<f, g>>)
  BY DEF TickSwitch
<1>6. counter' \in [Task -> -MAX_LATE - 1 .. 2 * PRIORITY]
  BY <1>1, <1>3, LrtosAssumption DEF TickSwitch, IInv, Types
<1>7. Steady
  BY <1>1, <1>3, <1>6 DEF TickSwitch, mm, Steady, IInv, Types
<1>8. preempt_count' = preempt_count
  BY DEF TickSwitch
<1>9. Top.pt = p
  OBVIOUS
<1> HIDE DEF s, q, a, f, g, p
<1>10. LiesOn(sp, "i_exit", p) /\ p \notin Lone /\ a \notin Lone
  BY <1>1, <1>3
    DEF Rests, BottomOf, LiesOn, Lone, Disabled, Forgot, InScheduler, Inside, Forking, Seeking
<1>11. LiesOn(sp, "s_disable", "i_exit")
  BY DEF LiesOn, InScheduler
<1>12. /\ Proper(q) /\ Len(q) = Len(s) + 2 /\ Kept(q, s, Len(s)) /\ q[Len(s) + 2] = g
       /\ Pt(q, Len(s) + 1) = "i_exit" /\ Left(q, Len(s) + 1) = 0
       /\ Pt(q, Len(s) + 2) = "s_disable" /\ Left(q, Len(s) + 2) = 0
  BY <1>4, <1>5, <1>9, <1>10, <1>11, CallFits DEF s, q, a
<1>13. \A i \in {1, 2, 3} : i > Len(s) => Pt(s, i) \notin Marked /\ Pt(q, i) \notin Marked
  <2>1. \A i \in {1, 2, 3} : i > Len(s) => i = Len(s) + 1 \/ i = Len(s) + 2 \/ i > Len(q)
    BY <1>1, <1>12
  <2>2. \A i \in Int : i > Len(q) => Pt(q, i) = "none"
    BY <1>12 DEF Proper, Ends
  <2>3. \A i \in Int : i > Len(s) => Pt(s, i) = "none"
    BY <1>1 DEF Pt
  <2>4. {"none", "i_exit", "s_disable"} \cap Marked = {}
    BY DEF Marked, Seeking
  <2> QED
    BY <1>12, <2>1, <2>2, <2>3, <2>4
<1>14. Early(sp, q, nr_tasks, Cardinality(mem_map))
  BY <1>1, <1>12, <1>13, EarlyKept
<1>15. Len(s) + 2 \in Nat /\ Len(s) + 2 = Len(q) /\ Len(s) + 2 > 0 /\ Len(s) + 2 - 1 = Len(s) + 1
  BY <1>1, <1>12
<1>16. preempt_count'[sp] = Count(Pt(q, Len(s) + 2), Pt(q, Len(s) + 2 - 1), state[sp])
  BY <1>1, <1>3, <1>8, <1>12, <1>15 DEF Count, One, Disabled, Forgot, Inside, Forking
<1>17. Is(p) /\ g.pt \in Ended
  BY <1>1, <1>4 DEF Ended
<1> QED
  BY <1>4, <1>7, <1>12, <1>14, <1>15, <1>16, <1>17, ProperKeeps DEF q

-----------------------------------------------------------------------------
\* copy_process() and get_free_page()

\* The stack in a fork, of which frame p is on top.
LEMMA InFork ==
  ASSUME IInv, NEW p \in {"fork", "f_copy", "f_insert", "f_enable"}, Is(p)
  PROVE  LET s == stack[sp] IN
         /\ Len(s) = 2 /\ Pt(s, 2) = p /\ sp = current /\ sp \in {0, 1}
         /\ sp = 0 => Pt(s, 1) = "main"
         /\ sp = 1 => Pt(s, 1) = "loop"
         /\ Pt(s, 3) = "none" /\ Left(s, 3) = 0
         /\ Early(sp, s, nr_tasks, Cardinality(mem_map))
         /\ preempt_count[sp] = Count(p, Pt(s, 1), state[sp])
<1> DEFINE s == stack[sp]
<1>1. /\ Pt(s, Len(s)) = p /\ sp = current /\ sp \in Task
      /\ Len(s) \in Nat /\ Len(s) > 0 /\ Top = s[Len(s)] /\ Top.pt = p
      /\ Early(sp, s, nr_tasks, Cardinality(mem_map))
      /\ preempt_count[sp] = Count(p, Pt(s, Len(s) - 1), state[sp])
  BY OnTop
<1>2. Fits(sp, s)
  BY Here
<1> HIDE DEF s
<1>3. Len(s) \in 1 .. Len(s) /\ s[Len(s)].pt = p
  BY <1>1
<1>4. Len(s) = 2 /\ ((sp = 0 /\ s[1].pt = "main") \/ (sp = 1 /\ s[1].pt = "loop"))
  BY <1>1, <1>2, <1>3, ForkPlace
<1>5. Pt(s, 1) = s[1].pt /\ Pt(s, 3) = "none"
  BY <1>4 DEF Pt
<1>6. Left(s, 3) = 0
  BY <1>5 DEF Left, Seeking
<1>7. Len(s) - 1 = 1
  BY <1>4
<1> QED
  BY <1>1, <1>4, <1>5, <1>6, <1>7 DEF s

LEMMA ForkDisableKeeps == IInv /\ ForkDisable => IInv'
<1> SUFFICES ASSUME IInv, ForkDisable PROVE IInv'
  OBVIOUS
<1> DEFINE s == stack[sp]
           q == stack'[sp]
           f == At("f_copy")
           g == Want(TaskPages, nr_tasks)
<1>1. /\ Len(s) = 2 /\ Pt(s, 2) = "fork" /\ sp = current /\ sp \in {0, 1}
      /\ sp = 0 => Pt(s, 1) = "main"
      /\ sp = 1 => Pt(s, 1) = "loop"
      /\ Early(sp, s, nr_tasks, Cardinality(mem_map))
      /\ preempt_count[sp] = Count("fork", Pt(s, 1), state[sp])
  BY InFork DEF ForkDisable
<1>2. nr_tasks \in Task
  BY <1>1 DEF Early, Task
<1>3. /\ Fresh(f) /\ f.pt = "f_copy" /\ Wants(f) = 0
      /\ Fresh(g) /\ g.pt = "get" /\ Wants(g) = TaskPages /\ Settled(g)
  <2>1. Fresh(f) /\ f.pt = "f_copy" /\ Wants(f) = 0
    BY PlainFrames DEF Plain, Forking, Wants, Seeking
  <2>2. TaskPages \in Nat \ {0}
    BY DEF TaskPages
  <2>3. Fresh(g) /\ g.pt = "get" /\ Wants(g) = TaskPages /\ Settled(g)
    BY <1>2, <2>2, WantFrames
  <2> QED
    BY <2>1, <2>3
<1>4. Becomes(1, <<f, g>>)
  BY DEF ForkDisable
<1>5. preempt_count' = [preempt_count EXCEPT ![sp] = @ + 1]
  BY <1>1 DEF ForkDisable, PreemptAdd
<1>6. Steady
  BY <1>1, <1>5 DEF ForkDisable, Keep, mm, Steady, IInv, Types
<1> HIDE DEF s, q, f, g
<1>7. Len(s) - 1 = 1 /\ Len(s) + 1 = 3
  BY <1>1
<1>8. Rests(sp, "f_copy", Pt(s, 1)) /\ Pt(s, 1) \notin Lone /\ LiesOn(sp, "get", "f_copy")
  BY <1>1 DEF Rests, LiesOn, Lone, Forking, Seeking
<1>9. /\ Proper(q) /\ Len(q) = 3 /\ Kept(q, s, 1) /\ q[3] = g
      /\ Pt(q, 2) = "f_copy" /\ Left(q, 2) = 0
      /\ Pt(q, 3) = "get" /\ Left(q, 3) = TaskPages
  <2>1. /\ Proper(q) /\ Len(q) = Len(s) + 1 /\ Kept(q, s, Len(s) - 1) /\ q[Len(s) + 1] = g
        /\ Pt(q, Len(s)) = f.pt /\ Left(q, Len(s)) = Wants(f)
        /\ Pt(q, Len(s) + 1) = g.pt /\ Left(q, Len(s) + 1) = Wants(g)
    BY <1>3, <1>4, <1>7, <1>8, TwoFits DEF s, q
  <2> QED
    BY <1>1, <1>3, <1>7, <2>1
<1>10. Pt(q, 1) = Pt(s, 1)
  BY <1>9 DEF Kept
<1>11. Early(sp, q, nr_tasks, Cardinality(mem_map))
  BY <1>1, <1>9, <1>10 DEF Early, TaskPages, BeforeFork, MovePages, AbortPages
<1>12. preempt_count'[sp] = Count(Pt(q, 3), Pt(q, 3 - 1), state[sp])
  <2>1. Pt(q, 3 - 1) = "f_copy"
    BY <1>9
  <2>2. preempt_count'[sp] = Count("fork", Pt(s, 1), state[sp]) + 1
    BY <1>1, <1>5 DEF IInv, Types, Task
  <2>3. Count("get", "f_copy", state[sp]) = Count("fork", Pt(s, 1), state[sp]) + 1
    BY <1>1 DEF Count, Disabled, Forgot, One, Inside, Forking
  <2> QED
    BY <1>9, <2>1, <2>2, <2>3
<1>13. Is("fork") /\ "fork" \notin Ended
  BY DEF ForkDisable, Ended, Inside
<1> QED
  BY <1>3, <1>6, <1>9, <1>11, <1>12, <1>13, ProperKeeps DEF q

LEMMA ForkCopyKeeps == IInv /\ ForkCopy => IInv'
<1> SUFFICES ASSUME IInv, ForkCopy PROVE IInv'
  OBVIOUS
<1> DEFINE s == stack[sp]
           q == stack'[sp]
           f == At("f_insert")
           g == Want(CopyPages, nr_tasks)
<1>1. /\ Len(s) = 2 /\ Pt(s, 2) = "f_copy" /\ sp = current /\ sp \in {0, 1}
      /\ sp = 0 => Pt(s, 1) = "main"
      /\ sp = 1 => Pt(s, 1) = "loop"
      /\ Pt(s, 3) = "none" /\ Left(s, 3) = 0
      /\ Early(sp, s, nr_tasks, Cardinality(mem_map))
      /\ preempt_count[sp] = Count("f_copy", Pt(s, 1), state[sp])
  BY InFork DEF ForkCopy
<1>2. nr_tasks \in Task
  BY <1>1 DEF Early, Task
<1>3. /\ Fresh(f) /\ f.pt = "f_insert" /\ Wants(f) = 0 /\ Settled(f)
      /\ Fresh(g) /\ g.pt = "get" /\ Wants(g) = CopyPages /\ Settled(g)
  <2>1. Fresh(f) /\ f.pt = "f_insert" /\ Wants(f) = 0 /\ Settled(f)
    BY PlainFrames DEF Plain, Forking, Wants, Seeking, Settled
  <2>2. CopyPages \in Nat \ {0}
    BY DEF CopyPages, MovePages, AbortPages
  <2>3. Fresh(g) /\ g.pt = "get" /\ Wants(g) = CopyPages /\ Settled(g)
    BY <1>2, <2>2, WantFrames
  <2> QED
    BY <2>1, <2>3
<1>4. IF current = 0 THEN Goto(f) ELSE Becomes(1, <<f, g>>)
  BY DEF ForkCopy
<1>5. preempt_count' = preempt_count
  BY DEF ForkCopy, sched
<1>6. Steady
  BY <1>1, <1>5 DEF ForkCopy, Keep, sched, mm, Steady, IInv, Types
<1> HIDE DEF s, q, f, g
<1>7. Len(s) - 1 = 1 /\ Len(s) + 1 = 3
  BY <1>1
<1>8. Rests(sp, "f_insert", Pt(s, 1)) /\ Pt(s, 1) \notin Lone
  BY <1>1 DEF Rests, LiesOn, Lone, Forking, Seeking
<1>9. Is("f_copy") /\ "f_copy" \notin Ended
  BY DEF ForkCopy, Ended, Inside
<1>10. CASE sp = 0
  <2>1. Goto(f)
    BY <1>1, <1>4, <1>10
  <2>2. /\ Proper(q) /\ Len(q) = 2 /\ Kept(q, s, 1) /\ q[2] = f
        /\ Pt(q, 2) = "f_insert" /\ Left(q, 2) = 0
    <3>1. /\ Proper(q) /\ Len(q) = Len(s) /\ Kept(q, s, Len(s) - 1) /\ q[Len(s)] = f
          /\ Pt(q, Len(s)) = f.pt /\ Left(q, Len(s)) = Wants(f)
      BY <1>3, <1>7, <1>8, <2>1, GotoFits DEF s, q
    <3> QED
      BY <1>1, <1>3, <1>7, <3>1
  <2>3. Pt(q, 1) = Pt(s, 1)
    BY <2>2 DEF Kept
  <2>4. Early(sp, q, nr_tasks, Cardinality(mem_map))
    BY <1>1, <1>10, <2>2, <2>3 DEF Early, TaskPages
  <2>5. preempt_count'[sp] = Count(Pt(q, 2), Pt(q, 2 - 1), state[sp])
    <3>1. Pt(q, 2 - 1) = Pt(s, 1)
      BY <2>3
    <3>2. Count("f_insert", Pt(s, 1), state[sp]) = Count("f_copy", Pt(s, 1), state[sp])
      BY DEF Count, Disabled, Forgot, Forking
    <3> QED
      BY <1>1, <1>5, <2>2, <3>1, <3>2
  <2> QED
    BY <1>3, <1>6, <1>9, <2>2, <2>4, <2>5, ProperKeeps DEF q
<1>11. CASE sp = 1
  <2>1. Becomes(1, <<f, g>>)
    BY <1>1, <1>4, <1>11
  <2>2. LiesOn(sp, "get", "f_insert")
    BY <1>11 DEF LiesOn, Seeking
  <2>3. /\ Proper(q) /\ Len(q) = 3 /\ Kept(q, s, 1) /\ q[3] = g
        /\ Pt(q, 2) = "f_insert" /\ Left(q, 2) = 0
        /\ Pt(q, 3) = "get" /\ Left(q, 3) = CopyPages
    <3>1. /\ Proper(q) /\ Len(q) = Len(s) + 1 /\ Kept(q, s, Len(s) - 1) /\ q[Len(s) + 1] = g
          /\ Pt(q, Len(s)) = f.pt /\ Left(q, Len(s)) = Wants(f)
          /\ Pt(q, Len(s) + 1) = g.pt /\ Left(q, Len(s) + 1) = Wants(g)
      BY <1>3, <1>7, <1>8, <2>1, <2>2, TwoFits DEF s, q
    <3> QED
      BY <1>1, <1>3, <1>7, <3>1
  <2>4. Pt(q, 1) = Pt(s, 1)
    BY <2>3 DEF Kept
  <2>5. Early(sp, q, nr_tasks, Cardinality(mem_map))
    BY <1>1, <1>11, <2>3, <2>4 DEF Early, CopyPages, TaskPages, BeforeFork, MovePages, AbortPages
  <2>6. preempt_count'[sp] = Count(Pt(q, 3), Pt(q, 3 - 1), state[sp])
    <3>1. Pt(q, 3 - 1) = "f_insert"
      BY <2>3
    <3>2. Count("get", "f_insert", state[sp]) = Count("f_copy", Pt(s, 1), state[sp])
      BY <1>1, <1>11 DEF Count, Disabled, Forgot, Forking, Inside
    <3> QED
      BY <1>1, <1>5, <2>3, <3>1, <3>2
  <2> QED
    BY <1>3, <1>6, <1>9, <2>3, <2>5, <2>6, ProperKeeps DEF q
<1> QED
  BY <1>1, <1>10, <1>11

\* The stack in get_free_page(), of which frame p is on top, and what it wants.
LEMMA InSeek ==
  ASSUME IInv, NEW p \in Seeking, Is(p)
  PROVE  LET s == stack[sp] IN
         /\ sp = current /\ sp \in {0, 1} /\ Len(s) \in {2, 3} /\ Pt(s, Len(s)) = p
         /\ Len(s) = 2 => sp = 1 /\ Pt(s, 1) \in {"user", "aborted"}
         /\ Len(s) = 3 /\ sp = 0 => Pt(s, 1) = "main" /\ Pt(s, 2) = "f_copy"
         /\ Len(s) = 3 /\ sp = 1 => Pt(s, 1) = "loop" /\ Pt(s, 2) \in {"f_copy", "f_insert"}
         /\ Left(s, Len(s)) = Top.n /\ Top.n \in Nat \ {0} /\ Top.for \in Task
         /\ p = "take" => Top.page \in Free
         /\ \A i \in Int : i > Len(s) => Pt(s, i) = "none" /\ Left(s, i) = 0
         /\ Early(sp, s, nr_tasks, Cardinality(mem_map))
         /\ preempt_count[sp] = Count(p, Pt(s, Len(s) - 1), state[sp])
         /\ state[sp] # "ZOMBIE"
<1> DEFINE s == stack[sp]
<1>1. /\ Pt(s, Len(s)) = p /\ sp = current /\ sp \in Task
      /\ Len(s) \in Nat /\ Len(s) > 0 /\ Top = s[Len(s)] /\ Top.pt = p /\ Top \in Frame
      /\ Early(sp, s, nr_tasks, Cardinality(mem_map))
      /\ preempt_count[sp] = Count(p, Pt(s, Len(s) - 1), state[sp])
  BY OnTop DEF Seeking
<1>2. Fits(sp, s) /\ \A i \in 1 .. Len(s) : s[i].pt = "take" => s[i].page \in Free
  BY Here DEF Soundly, Sound
<1>3. state[sp] # "ZOMBIE"
  BY <1>1 DEF IInv, Switching, Ended, Inside, Seeking
<1> HIDE DEF s
<1>4. Len(s) \in 1 .. Len(s) /\ s[Len(s)].pt = p
  BY <1>1
<1>5. \/ sp = 1 /\ Len(s) = 2 /\ s[1].pt \in {"user", "aborted"}
      \/ sp = 0 /\ Len(s) = 3 /\ s[1].pt = "main" /\ s[2].pt = "f_copy"
      \/ /\ sp = 1 /\ Len(s) = 3 /\ s[1].pt = "loop"
         /\ s[2].pt \in {"f_copy", "f_insert"}
  <2>1. \/ sp = 1 /\ Len(s) = 2 /\ s[1].pt \in {"user", "aborted"}
        \/ /\ sp = 0 /\ Len(s) = 3 /\ Len(s) = Len(s) /\ s[1].pt = "main"
           /\ s[2].pt = "f_copy"
        \/ /\ sp = 1 /\ Len(s) = 3 /\ Len(s) = Len(s) /\ s[1].pt = "loop"
           /\ s[2].pt \in {"f_copy", "f_insert"}
    <3>1. s[Len(s)].pt \in Seeking
      BY <1>4
    <3> QED
      BY <1>1, <1>2, <1>4, <3>1, WantPlace, Zenon
  <2> QED
    BY <2>1
<1>6. Pt(s, 1) = s[1].pt /\ Pt(s, 2) = s[2].pt
  BY <1>5 DEF Pt
<1>7. Left(s, Len(s)) = Top.n
  BY <1>1 DEF Left
<1>8. Top.n \in Nat \ {0} /\ Top.for \in Task
  BY <1>1 DEF Frame, Plain, Forking, Seeking
<1>9. \A i \in Int : i > Len(s) => Pt(s, i) = "none" /\ Left(s, i) = 0
  BY <1>1 DEF Pt, Left, Seeking
<1>10. p = "take" => Top.page \in Free
  BY <1>1, <1>2, <1>4
<1>11. /\ sp \in {0, 1} /\ Len(s) \in {2, 3}
       /\ Len(s) = 2 => sp = 1 /\ Pt(s, 1) \in {"user", "aborted"}
       /\ Len(s) = 3 /\ sp = 0 => Pt(s, 1) = "main" /\ Pt(s, 2) = "f_copy"
       /\ Len(s) = 3 /\ sp = 1 => Pt(s, 1) = "loop" /\ Pt(s, 2) \in {"f_copy", "f_insert"}
  BY <1>5, <1>6
<1> QED
  BY <1>1, <1>3, <1>7, <1>8, <1>9, <1>10, <1>11 DEF s

\* A set of numbers that is not empty has a least one, so CHOOSE finds it.
LEMMA LeastElement ==
  ASSUME NEW S \in SUBSET Nat, S # {}
  PROVE  Min(S) \in S
<1> DEFINE Below(n) == 1 .. n
           T == {Below(n) : n \in S}
<1>1. IsWellFoundedOn(StrictSubsetOrdering(Nat), FiniteSubsetsOf(Nat))
  BY FS_StrictSubsetOrderingWellFounded
<1>2. \A n \in Nat : Below(n) \in FiniteSubsetsOf(Nat)
  BY FS_Interval DEF FiniteSubsetsOf
<1>3. T \subseteq FiniteSubsetsOf(Nat) /\ T # {}
  BY <1>2
<1>4. PICK x \in T : \A y \in T : <<y, x>> \notin StrictSubsetOrdering(Nat)
  <2> HIDE DEF T
  <2> QED
    BY <1>1, <1>3, WFMin
<1>5. PICK m \in S : x = Below(m)
  BY <1>4
<1>6. ASSUME NEW k \in S, k < m
      PROVE  FALSE
  <2>1. Below(k) \subseteq Below(m) /\ m \in Below(m) /\ m \notin Below(k)
    BY <1>6
  <2>2. <<Below(k), Below(m)>> \in StrictSubsetOrdering(Nat)
    BY <2>1, <1>2 DEF StrictSubsetOrdering, FiniteSubsetsOf
  <2> QED
    BY <2>2, <1>4, <1>5
<1>7. \E n \in S : \A k \in S : n <= k
  BY <1>6
<1> QED
  BY <1>7 DEF Min

LEMMA FindPageKeeps == IInv /\ FindPage => IInv'
<1> SUFFICES ASSUME IInv, FindPage PROVE IInv'
  OBVIOUS
<1> DEFINE s == stack[sp]
           q == stack'[sp]
           f == [pt |-> "take", n |-> Top.n, for |-> Top.for, page |-> Min(Free)]
           a == Pt(s, Len(s) - 1)
<1>1. /\ sp = current /\ sp \in {0, 1} /\ Len(s) \in {2, 3} /\ Pt(s, Len(s)) = "get"
      /\ Left(s, Len(s)) = Top.n /\ Top.n \in Nat \ {0} /\ Top.for \in Task
      /\ \A i \in Int : i > Len(s) => Pt(s, i) = "none" /\ Left(s, i) = 0
      /\ Early(sp, s, nr_tasks, Cardinality(mem_map))
      /\ preempt_count[sp] = Count("get", a, state[sp])
  BY InSeek DEF FindPage, Seeking
<1>2. Rests(sp, "get", a)
  BY OnTop DEF FindPage
<1>3. Min(Free) \in Free /\ Min(Free) \in Nat
  <2>1. Free \in SUBSET Nat /\ Free # {}
    BY DEF FindPage, Free
  <2> QED
    BY <2>1, LeastElement
<1>4. Fresh(f) /\ f.pt = "take" /\ Settled(f) /\ Wants(f) = Top.n
  BY <1>1, <1>3 DEF Fresh, Frame, Settled, Wants, Seeking
<1>5. Goto(f)
  BY DEF FindPage
<1>6. Steady
  BY <1>1 DEF FindPage, Keep, sched, mm, Steady, IInv, Types
<1>7. preempt_count' = preempt_count
  BY DEF FindPage, sched
<1> HIDE DEF s, q, f, a
<1>8. Rests(sp, "take", a)
  BY <1>2 DEF Rests, LiesOn, BottomOf, InScheduler, Inside, Forking, Seeking
<1>9. /\ Proper(q) /\ Len(q) = Len(s) /\ Kept(q, s, Len(s) - 1)
      /\ Pt(q, Len(s)) = "take" /\ Left(q, Len(s)) = Top.n
  BY <1>4, <1>5, <1>8, GotoFits DEF s, q, a
<1>10. Early(sp, q, nr_tasks, Cardinality(mem_map))
  <2>1. /\ Pt(q, 1) = Pt(s, 1) /\ Left(q, 2) = Left(s, 2) /\ Left(q, 3) = Left(s, 3)
        /\ Pt(q, 2) = Pt(s, 2) \/ {Pt(q, 2), Pt(s, 2)} \subseteq Seeking
    <3>1. CASE Len(s) = 2
      <4>1. Kept(q, s, 1) /\ Pt(q, 2) = "take" /\ Pt(s, 2) = "get" /\ Left(q, 2) = Left(s, 2)
        BY <1>1, <1>9, <3>1
      <4>2. Left(q, 3) = 0 /\ Left(s, 3) = 0
        BY <1>1, <1>9, <3>1 DEF Proper, Ends
      <4> QED
        BY <4>1, <4>2 DEF Kept, Seeking
    <3>2. CASE Len(s) = 3
      <4>1. Kept(q, s, 2) /\ Left(q, 3) = Left(s, 3)
        BY <1>1, <1>9, <3>2
      <4> QED
        BY <4>1 DEF Kept
    <3> QED
      BY <1>1, <3>1, <3>2
  <2> QED
    BY <1>1, <2>1 DEF Early, Seeking
<1>11. preempt_count'[sp] = Count("take", a, state[sp])
  <2>1. Count("take", a, state[sp]) = Count("get", a, state[sp])
    BY DEF Count, Disabled, Forgot, Inside, Forking
  <2> QED
    BY <1>1, <1>7, <2>1
<1>12. Top.pt \notin Ended
  BY DEF FindPage, Is, Ended, Inside
<1> QED
  BY <1>4, <1>5, <1>6, <1>8, <1>10, <1>11, <1>12, GotoKeeps DEF q, s, a

LEMMA MemAbortKeeps == IInv /\ MemAbort => IInv'
<1> SUFFICES ASSUME IInv, MemAbort PROVE IInv'
  OBVIOUS
<1> DEFINE s == stack[sp]
           q == stack'[sp]
           f == At(IF ind + 1 > 2 THEN "hang" ELSE "ready")
<1>1. /\ Len(s) = 1 /\ Pt(s, 1) = "aborted" /\ Pt(s, 0) = "none" /\ sp = current
      /\ sp \in Task /\ "aborted" \in BottomOf(sp) /\ Left(s, 2) = 0
      /\ Early(sp, s, nr_tasks, Cardinality(mem_map))
      /\ preempt_count[sp] = Count("aborted", "none", state[sp])
  BY OnBottom DEF MemAbort, Bottoms, BottomOf
<1>2. Fresh(f) /\ f.pt \in {"hang", "ready"} /\ Settled(f)
  BY PlainFrames DEF Plain, Settled
<1>3. Goto(f) /\ preempt_count' = preempt_count
  BY DEF MemAbort, sched
<1>4. Steady
  BY <1>1 DEF MemAbort, Keep, sched, Steady, IInv, Types
<1> HIDE DEF s, q, f
<1>5. sp = 1 /\ Len(s) - 1 = 0
  BY <1>1 DEF BottomOf
<1>6. Rests(sp, f.pt, Pt(s, Len(s) - 1))
  BY <1>1, <1>2, <1>5 DEF Rests, BottomOf
<1>7. Proper(q) /\ Len(q) = 1 /\ Pt(q, 1) = f.pt
  BY <1>1, <1>2, <1>3, <1>6, GotoFits DEF s, q
<1>8. Pt(q, 2) = "none"
  BY <1>7 DEF Proper, Ends
<1>9. Early(sp, q, nr_tasks, Cardinality(mem_map))
  BY <1>1, <1>2, <1>5, <1>7, <1>8 DEF Early, BeforeFork, TaskPages, MovePages, AbortPages
<1>10. preempt_count'[sp] = Count(f.pt, Pt(s, Len(s) - 1), state[sp])
  BY <1>1, <1>2, <1>3, <1>5 DEF Count, Disabled, Forgot, Inside, Forking
<1>11. Top.pt \notin Ended
  BY DEF MemAbort, Is, Ended, Inside
<1> QED
  BY <1>2, <1>3, <1>4, <1>6, <1>9, <1>10, <1>11, GotoKeeps DEF q, s

\* A frame instead of the whole stack of three.
LEMMA OnlyStep ==
  ASSUME Stack, NEW f \in Frame, Becomes(3, <<f>>), Len(stack[sp]) = 3
  PROVE  /\ stack' = [stack EXCEPT ![sp] = stack'[sp]] /\ stack' \in [Task -> Seq(Frame)]
         /\ stack'[sp] \in Seq(Frame) /\ Len(stack'[sp]) = 1 /\ stack'[sp][1] = f
<1> DEFINE s == stack[sp]
           q == stack'[sp]
           m == Len(s) - 3
<1>1. s \in Seq(Frame) /\ m = 0 /\ m \in 0 .. Len(s)
  BY DEF Stack
<1>2. q = SubSeq(s, 1, m) \o <<f>> /\ stack' = [stack EXCEPT ![sp] = q]
  BY DEF Stack, Becomes, Less
<1>3. <<f>> \in Seq(Frame)
  OBVIOUS
<1>4. Over(q, s, m, <<f>>)
  BY <1>1, <1>2, <1>3, Spliced, Zenon
<1> HIDE DEF s, q, m
<1>5. q \in Seq(Frame) /\ Len(q) = m + 1 /\ q[m + 1] = f
  BY <1>1, <1>4, Frames1
<1>6. Len(q) = 1 /\ q[1] = f
  BY <1>1, <1>5
<1>7. stack' \in [Task -> Seq(Frame)]
  BY <1>2, <1>5 DEF Stack
<1> QED
  BY <1>2, <1>5, <1>6, <1>7 DEF q

\* get_free_page() fails only in the user process's fork: that is where the pages
\* may run out.
LEMMA FailsInFork ==
  ASSUME IInv, Is("get"), Free = {}
  PROVE  sp = 1 /\ Len(stack[sp]) = 3
<1> DEFINE s == stack[sp]
<1>1. /\ sp \in {0, 1} /\ Len(s) \in {2, 3} /\ Pt(s, Len(s)) = "get"
      /\ Len(s) = 2 => sp = 1 /\ Pt(s, 1) \in {"user", "aborted"}
      /\ Len(s) = 3 /\ sp = 0 => Pt(s, 1) = "main" /\ Pt(s, 2) = "f_copy"
      /\ Left(s, Len(s)) = Top.n /\ Top.n \in Nat \ {0}
      /\ Early(sp, s, nr_tasks, Cardinality(mem_map))
  BY InSeek DEF Seeking
<1> HIDE DEF s
<1>2. pool \in Nat /\ pool >= BeforeFork
  <2>1. pool = BeforeFork \/ (pool \in Nat /\ pool >= BeforeFork + TaskPages + CopyPages)
    BY LrtosAssumption DEF IInv, Pages
  <2> QED
    BY <2>1 DEF BeforeFork, TaskPages, CopyPages, MovePages, AbortPages
<1>3. Cardinality(mem_map) = pool
  <2>1. mem_map = 0 .. pool - 1
    BY DEF IInv, Pages, Free
  <2>2. Cardinality(0 .. pool - 1) = pool
    BY <1>2, FS_Interval
  <2> QED
    BY <2>1, <2>2
<1>4. Early(sp, s, nr_tasks, pool)
  BY <1>1, <1>3
<1>5. ASSUME Len(s) = 2
      PROVE  FALSE
  <2>1. sp = 1 /\ Pt(s, 1) \in {"user", "aborted"} /\ Left(s, 2) > 0 /\ Left(s, 2) \in Nat
    BY <1>1, <1>5
  <2> QED
    BY <1>2, <1>4, <2>1 DEF Early, BeforeFork, TaskPages, MovePages, AbortPages
<1>6. ASSUME Len(s) = 3, sp = 0
      PROVE  FALSE
  <2>1. Pt(s, 2) = "f_copy" /\ Left(s, 3) > 0 /\ Left(s, 3) \in Nat
    BY <1>1, <1>6
  <2> QED
    BY <1>2, <1>4, <1>6, <2>1 DEF Early, BeforeFork, TaskPages, MovePages, AbortPages
<1> QED
  BY <1>1, <1>5, <1>6 DEF s

LEMMA ForkFailsKeeps == IInv /\ ForkFails => IInv'
<1> SUFFICES ASSUME IInv, ForkFails PROVE IInv'
  OBVIOUS
<1> DEFINE s == stack[sp]
           q == stack'[sp]
           f == At("failed")
<1>1. sp = 1 /\ Len(s) = 3
  BY FailsInFork DEF ForkFails
<1>2. /\ sp = current /\ sp \in Task /\ state[sp] # "ZOMBIE"
      /\ Pt(s, 2) \in {"f_copy", "f_insert"}
      /\ preempt_count[sp] = Count("get", Pt(s, Len(s) - 1), state[sp])
  BY <1>1, InSeek DEF ForkFails, Seeking, Task
<1>3. Fresh(f) /\ f.pt = "failed" /\ Settled(f)
  BY PlainFrames DEF Plain, Settled
<1>4. Becomes(3, <<f>>) /\ preempt_count' = preempt_count
  BY DEF ForkFails, sched
<1>5. Steady
  BY <1>2 DEF ForkFails, Keep, sched, mm, Steady, IInv, Types
<1>6. /\ stack' = [stack EXCEPT ![sp] = q] /\ stack' \in [Task -> Seq(Frame)]
      /\ q \in Seq(Frame) /\ Len(q) = 1 /\ q[1] = f
  BY <1>1, <1>3, <1>4, Here, OnlyStep DEF Fresh
<1> HIDE DEF s, q, f
<1>7. \A i \in Int : i > 1 => Pt(q, i) = "none" /\ Left(q, i) = 0
  BY <1>6 DEF Pt, Left, Seeking
<1>8. Proper(q)
  <2>1. Fits(sp, q)
    BY <1>1, <1>3, <1>6 DEF Fits, BottomOf
  <2>2. \A i \in 1 .. Len(q) : q[i].pt = "take" => q[i].page \in Free
    BY <1>3, <1>6
  <2> QED
    BY <1>6, <1>7, <2>1, <2>2 DEF Proper, Ends
<1>9. Pt(q, 1) = "failed" /\ Pt(q, 1 - 1) = "none" /\ Pt(q, 2) = "none"
  BY <1>3, <1>6 DEF Pt
<1>10. Early(sp, q, nr_tasks, Cardinality(mem_map))
  BY <1>1, <1>9 DEF Early
<1>11. preempt_count'[sp] = Count(Pt(q, 1), Pt(q, 1 - 1), state[sp])
  <2>1. Pt(s, Len(s) - 1) = Pt(s, 2)
    BY <1>1
  <2>2. Count("get", Pt(s, 2), state[sp]) = 1
    BY <1>2 DEF Count, Disabled, Forgot, One, Inside, Forking
  <2>3. Count("failed", "none", state[sp]) = 1
    BY DEF Count, Disabled, Forgot, One, Inside, Forking
  <2> QED
    BY <1>2, <1>4, <1>9, <2>1, <2>2, <2>3
<1>12. Is("get") /\ "get" \notin Ended
  BY DEF ForkFails, Ended, Inside
<1> QED
  BY <1>3, <1>5, <1>6, <1>8, <1>10, <1>11, <1>12, ProperKeeps DEF q

-----------------------------------------------------------------------------
\* switch_to()

\* The uppermost frame changes from an unmarked point to one.
LEMMA UnmarkedKept ==
  ASSUME NEW t, NEW s, NEW q, NEW nr, NEW used, Early(t, s, nr, used),
         Len(s) \in Nat, Len(s) > 0, Len(q) = Len(s), Kept(q, s, Len(s) - 1),
         \A i \in Int : i > Len(s) => Pt(s, i) = "none" /\ Pt(q, i) = "none",
         Pt(s, Len(s)) \notin Marked, Pt(q, Len(s)) \notin Marked
  PROVE  Early(t, q, nr, used)
<1>1. Len(s) - 1 \in Nat
  OBVIOUS
<1>2. \A i \in {1, 2, 3} : i > Len(s) - 1 => i = Len(s) \/ i > Len(s)
  OBVIOUS
<1>3. "none" \notin Marked
  BY DEF Marked, Seeking
<1>4. \A i \in {1, 2, 3} : i > Len(s) - 1 => Pt(s, i) \notin Marked /\ Pt(q, i) \notin Marked
  BY <1>2, <1>3
<1> QED
  BY <1>1, <1>4, EarlyKept

\* What a change of the current stack, and of its task's state, leaves as it was.
LEMMA OthersKeep ==
  ASSUME IInv, UNCHANGED <<nr_tasks, preempt_count, pool, mem_map, own>>,
         stack' = [stack EXCEPT ![sp] = stack'[sp]],
         \A t \in Task \ {sp} : state'[t] = state[t],
         Sound(sp, stack'[sp], state'[sp], preempt_count[sp], nr_tasks, Cardinality(mem_map), Free)
  PROVE  Stacks' /\ Pages' /\ \A t \in Task \ {sp} : stack'[t] = stack[t]
<1>1. Live' = Live /\ Free' = Free /\ Cardinality(mem_map)' = Cardinality(mem_map)
  BY DEF Live, Free
<1>2. \A t \in Task \ {sp} : stack'[t] = stack[t]
  BY DEF IInv, Types
<1>3. ASSUME NEW t \in Live', t # sp
      PROVE  stack'[t] = stack[t] /\ state'[t] = state[t] /\ Soundly(t)
  BY <1>1, <1>2, <1>3 DEF IInv, Stacks, Live
<1>4. \A t \in Live' : Soundly(t)'
  BY <1>1, <1>3 DEF Soundly
<1>5. Pages'
  BY DEF IInv, Pages, OneOwner
<1> QED
  BY <1>2, <1>4, <1>5 DEF Stacks

LEMMA SwitchCurrentKeeps == IInv /\ SwitchCurrent => IInv'
<1> SUFFICES ASSUME IInv, SwitchCurrent PROVE IInv'
  OBVIOUS
<1> DEFINE s == stack[sp]
           q == stack'[sp]
           a == Pt(s, Len(s) - 1)
<1>1. /\ Is("s_current") /\ Rests(sp, "s_current", a) /\ sp = current /\ sp \in Task
      /\ s \in Seq(Frame) /\ Len(s) \in Nat /\ Len(s) > 0 /\ Pt(s, Len(s)) = "s_current"
      /\ Top \in Frame /\ Top.pt = "s_current"
      /\ Early(sp, s, nr_tasks, Cardinality(mem_map))
      /\ preempt_count[sp] = Count("s_current", a, state[sp])
  BY OnTop DEF SwitchCurrent
<1>2. state[Top.next] = "RUNNING"
  BY <1>1 DEF IInv, Switching
<1>3. preempt_count' = preempt_count
  BY DEF SwitchCurrent
<1> HIDE DEF s, q, a
<1>4. CASE Top.next = current
  <2> DEFINE f == At("s_enable")
  <2>1. Fresh(f) /\ f.pt = "s_enable" /\ Goto(f) /\ current' = current
    BY <1>4, PlainFrames DEF SwitchCurrent, Plain
  <2> HIDE DEF f
  <2>2. Rests(sp, "s_enable", a)
    BY <1>1 DEF Rests, LiesOn, BottomOf, InScheduler, Inside, Forking, Seeking
  <2>3. preempt_count'[sp] = Count("s_enable", a, state[sp])
    BY <1>1, <1>3 DEF Count, Disabled, Forgot, Inside, Forking
  <2>4. Steady
    BY <1>1, <2>1 DEF SwitchCurrent, Keep, mm, Steady, IInv, Types
  <2>5. state[sp] # "ZOMBIE"
    BY <1>1, <1>2, <1>4
  <2> QED
    BY <1>1, <2>1, <2>2, <2>3, <2>4, <2>5, UnmarkedGotoKeeps DEF Marked, Seeking, Settled, s, a
<1>5. CASE Top.next # current
  <2> DEFINE f == [Top EXCEPT !.pt = "s_switch"]
  <2>1. Goto(f) /\ current' = Top.next
    BY <1>5 DEF SwitchCurrent
  <2>2. Top \in [pt : {"s_current", "s_switch"}, next : Task]
    BY <1>1 DEF Frame, Plain, Forking
  <2>3. Fresh(f) /\ f.pt = "s_switch" /\ f.next = Top.next /\ Top.next \in Task
    BY <2>2 DEF Frame, Fresh
  <2> HIDE DEF f
  <2>4. Rests(sp, "s_switch", a)
    BY <1>1 DEF Rests, LiesOn, BottomOf, InScheduler, Inside, Forking, Seeking
  <2>5. /\ Proper(q) /\ Len(q) = Len(s) /\ q[Len(s)] = f /\ Kept(q, s, Len(s) - 1)
        /\ Pt(q, Len(s)) = "s_switch"
    BY <2>1, <2>3, <2>4, GotoFits DEF s, q, a
  <2>6. Early(sp, q, nr_tasks, Cardinality(mem_map))
    <3>1. \A i \in Int : i > Len(s) => Pt(s, i) = "none" /\ Pt(q, i) = "none"
      BY <1>1, <2>5 DEF Pt, Proper, Ends
    <3>2. "s_current" \notin Marked /\ "s_switch" \notin Marked
      BY DEF Marked, Seeking
    <3> QED
      BY <1>1, <2>5, <3>1, <3>2, UnmarkedKept
  <2>7. Pt(q, Len(q) - 1) = a
    BY <1>1, <2>5 DEF Kept, Pt, a
  <2>8. Count("s_switch", a, state[sp]) = Count("s_current", a, state[sp])
    BY DEF Count, Disabled, Forgot, Inside, Forking
  <2>9. Sound(sp, q, state[sp], preempt_count'[sp], nr_tasks, Cardinality(mem_map), Free)
    BY <1>1, <1>3, <2>5, <2>6, <2>7, <2>8 DEF Sound, Proper
  <2>10. /\ UNCHANGED <<nr_tasks, state, preempt_count, sp, pool, mem_map, own>>
         /\ stack' = [stack EXCEPT ![sp] = q] /\ stack' \in [Task -> Seq(Frame)]
    BY <2>5 DEF SwitchCurrent, Keep, mm, Proper
  <2>11. Stacks' /\ Sleeping' /\ Pages' /\ \A t \in Task \ {sp} : stack'[t] = stack[t]
    <3>1. Stacks' /\ Pages' /\ \A t \in Task \ {sp} : stack'[t] = stack[t]
      BY <1>3, <2>9, <2>10, OthersKeep DEF q
    <3>2. Live' = Live /\ Live \subseteq Task
      BY <2>10 DEF Live
    <3> QED
      BY <2>10, <3>1, <3>2 DEF IInv, Sleeping
  <2>12. Types'
    <3>1. Live' = Live /\ current' \in Task /\ UNCHANGED <<counter, masked>>
      BY <2>1, <2>3, <2>10 DEF SwitchCurrent, Keep, Live
    <3>2. \A t \in Task : t \notin Live => stack'[t] = <<>> /\ preempt_count'[t] = 0
      BY <2>10, <2>11 DEF IInv, Types
    <3> QED
      BY <2>10, <3>1, <3>2 DEF IInv, Types
  <2>13. Top' = f
    BY <1>1, <2>5, <2>10 DEF Top, q
  <2>14. Switching'
    BY <1>1, <1>2, <1>5, <2>1, <2>3, <2>10, <2>13 DEF Switching, Is, Ended, Inside
  <2> QED
    BY <2>11, <2>12, <2>14 DEF IInv
<1> QED
  BY <1>4, <1>5

LEMMA CpuSwitchToKeeps == IInv /\ CpuSwitchTo => IInv'
<1> SUFFICES ASSUME IInv, CpuSwitchTo PROVE IInv'
  OBVIOUS
<1> DEFINE s == stack[sp]
           q == stack'[sp]
           a == Pt(s, Len(s) - 1)
           f == At("s_enable")
<1>1. /\ Is("s_switch") /\ Top.pt = "s_switch" /\ Rests(sp, "s_switch", a) /\ sp \in Task
      /\ s \in Seq(Frame) /\ Len(s) \in Nat /\ Len(s) > 0 /\ Pt(s, Len(s)) = "s_switch"
      /\ Early(sp, s, nr_tasks, Cardinality(mem_map))
      /\ preempt_count[sp] = Count("s_switch", a, state[sp])
  BY OnTop DEF CpuSwitchTo
<1>2. /\ sp # current /\ Top.next = current /\ state[current] = "RUNNING"
      /\ current \in Task /\ current \in Live
  BY <1>1 DEF IInv, Switching, Types
<1>3. Fresh(f) /\ f.pt = "s_enable" /\ Goto(f)
  BY PlainFrames DEF CpuSwitchTo, Plain
<1> HIDE DEF s, q, a, f
<1>4. Rests(sp, "s_enable", a)
  BY <1>1 DEF Rests, LiesOn, BottomOf, InScheduler, Inside, Forking, Seeking
<1>5. /\ Proper(q) /\ Len(q) = Len(s) /\ Kept(q, s, Len(s) - 1) /\ Pt(q, Len(s)) = "s_enable"
  BY <1>3, <1>4, GotoFits DEF s, q, a
<1>6. Early(sp, q, nr_tasks, Cardinality(mem_map))
  <2>1. \A i \in Int : i > Len(s) => Pt(s, i) = "none" /\ Pt(q, i) = "none"
    BY <1>1, <1>5 DEF Pt, Proper, Ends
  <2>2. "s_enable" \notin Marked /\ "s_switch" \notin Marked
    BY DEF Marked, Seeking
  <2> QED
    BY <1>1, <1>5, <2>1, <2>2, UnmarkedKept
<1>7. Pt(q, Len(q) - 1) = a
  BY <1>1, <1>5 DEF Kept, Pt, a
<1>8. Count("s_enable", a, state[sp]) = Count("s_switch", a, state[sp])
  BY DEF Count, Disabled, Forgot, Inside, Forking
<1>9. Sound(sp, q, state[sp], preempt_count[sp], nr_tasks, Cardinality(mem_map), Free)
  BY <1>1, <1>5, <1>6, <1>7, <1>8 DEF Sound, Proper
<1>10. /\ UNCHANGED <<current, nr_tasks, state, counter, preempt_count, pool, mem_map, own>>
       /\ stack' = [stack EXCEPT ![sp] = q] /\ stack' \in [Task -> Seq(Frame)]
       /\ sp' = current /\ masked' = masked
  BY <1>2, <1>5 DEF CpuSwitchTo, sched, mm, Proper
<1>11. Stacks' /\ Pages' /\ \A t \in Task \ {sp} : stack'[t] = stack[t]
  BY <1>9, <1>10, OthersKeep DEF q
<1>12. Live' = Live /\ Live \subseteq Task
  BY <1>10 DEF Live
<1>13. Types'
  BY <1>2, <1>10, <1>11, <1>12, <1>1 DEF IInv, Types
<1>14. Sleeping'
  <2>1. Pt(q, Len(q)) = "s_enable"
    BY <1>5
  <2> QED
    BY <1>10, <1>11, <1>12, <2>1 DEF IInv, Sleeping, q
<1>15. Switching'
  <2>1. Pt(stack[current], Len(stack[current])) \in {"s_enable", "s_tail"}
    BY <1>2 DEF IInv, Sleeping
  <2>2. stack[current][Len(stack[current])].pt \in {"s_enable", "s_tail"}
    BY <2>1 DEF Pt
  <2>3. Top'.pt \in {"s_enable", "s_tail"}
    BY <1>2, <1>10, <1>11, <2>2 DEF Top
  <2> QED
    BY <1>2, <1>10, <2>3 DEF Switching, Is
<1> QED
  BY <1>11, <1>13, <1>14, <1>15 DEF IInv

\* exit_process()
LEMMA ExitZombieKeeps == IInv /\ ExitZombie => IInv'
<1> SUFFICES ASSUME IInv, ExitZombie PROVE IInv'
  OBVIOUS
<1> DEFINE s == stack[sp]
           q == stack'[sp]
           a == Pt(s, Len(s) - 1)
           f == At("e_enable")
<1>1. /\ Is("e_zombie") /\ Rests(sp, "e_zombie", a) /\ sp \in Task /\ sp = current
      /\ s \in Seq(Frame) /\ Len(s) \in Nat /\ Len(s) > 0 /\ Pt(s, Len(s)) = "e_zombie"
      /\ Early(sp, s, nr_tasks, Cardinality(mem_map)) /\ sp \in Live
      /\ preempt_count[sp] = Count("e_zombie", a, state[sp])
  BY OnTop DEF ExitZombie
<1>2. Fresh(f) /\ f.pt = "e_enable" /\ Goto(f)
  BY PlainFrames DEF ExitZombie, Plain
<1>3. state' = [state EXCEPT ![sp] = "ZOMBIE"]
  BY <1>1 DEF ExitZombie
<1> HIDE DEF s, q, a, f
<1>4. sp # 0 /\ Rests(sp, "e_enable", a)
  BY <1>1 DEF Rests, LiesOn, BottomOf, InScheduler, Inside, Forking, Seeking
<1>5. /\ Proper(q) /\ Len(q) = Len(s) /\ Kept(q, s, Len(s) - 1) /\ Pt(q, Len(s)) = "e_enable"
      /\ q[Len(s)] = f
  BY <1>2, <1>4, GotoFits DEF s, q, a
<1>6. Early(sp, q, nr_tasks, Cardinality(mem_map))
  <2>1. \A i \in Int : i > Len(s) => Pt(s, i) = "none" /\ Pt(q, i) = "none"
    BY <1>1, <1>5 DEF Pt, Proper, Ends
  <2>2. "e_enable" \notin Marked /\ "e_zombie" \notin Marked
    BY DEF Marked, Seeking
  <2> QED
    BY <1>1, <1>5, <2>1, <2>2, UnmarkedKept
<1>7. Pt(q, Len(q) - 1) = a
  BY <1>1, <1>5 DEF Kept, Pt, a
<1>8. Count("e_enable", a, "ZOMBIE") = Count("e_zombie", a, state[sp])
  BY DEF Count, Disabled, Forgot
<1>9. Sound(sp, q, "ZOMBIE", preempt_count[sp], nr_tasks, Cardinality(mem_map), Free)
  BY <1>1, <1>5, <1>6, <1>7, <1>8 DEF Sound, Proper
<1>10. /\ UNCHANGED <<current, nr_tasks, counter, preempt_count, sp, masked, pool, mem_map, own>>
       /\ stack' = [stack EXCEPT ![sp] = q] /\ stack' \in [Task -> Seq(Frame)]
  BY <1>5 DEF ExitZombie, Keep, mm, Proper
<1>11. state'[sp] = "ZOMBIE" /\ \A t \in Task \ {sp} : state'[t] = state[t]
  BY <1>1, <1>3 DEF IInv, Types
<1>12. Stacks' /\ Pages' /\ \A t \in Task \ {sp} : stack'[t] = stack[t]
  BY <1>9, <1>10, <1>11, OthersKeep DEF q
<1>13. Live' = Live /\ Live \subseteq Task
  BY <1>10 DEF Live
<1>14. Types'
  <2>1. state' \in [Task -> {"NONE", "RUNNING", "ZOMBIE"}]
    BY <1>3 DEF IInv, Types
  <2>2. state'[0] = "RUNNING"
    BY <1>4, <1>11 DEF IInv, Types, Task
  <2>3. \A t \in Task : state'[t] = "NONE" <=> t \notin Live
    BY <1>1, <1>11 DEF IInv, Types
  <2> QED
    BY <1>1, <1>10, <1>12, <1>13, <2>1, <2>2, <2>3 DEF IInv, Types
<1>15. Sleeping'
  BY <1>10, <1>12, <1>13 DEF IInv, Sleeping
<1>16. Switching'
  <2>1. Top' = f
    BY <1>5, <1>10 DEF Top, q
  <2> QED
    BY <1>1, <1>2, <1>10, <2>1 DEF Switching, Is, Ended
<1> QED
  BY <1>12, <1>14, <1>15, <1>16 DEF IInv

-----------------------------------------------------------------------------
\* A page is taken

\* The stack after it: one page less is wanted there.
LEMMA TakeStack ==
  ASSUME IInv, TakePage
  PROVE  LET s == stack[sp]
             q == stack'[sp]
         IN  /\ Fits(sp, q) /\ Len(q) \in 1 .. 3
             /\ \A i \in 1 .. Len(q) : q[i].pt # "take"
             /\ Kept(q, s, Len(s) - 1) /\ Pt(q, Len(s)) \in {"get", "none"}
             /\ Left(q, Len(s)) = Top.n - 1
             /\ \A i \in Int : i > Len(s) => Pt(q, i) = "none" /\ Left(q, i) = 0
             /\ preempt_count[sp] = Count(Pt(q, Len(q)), Pt(q, Len(q) - 1), state[sp])
             /\ q[Len(q)].pt \in {"get", "user", "aborted", "f_copy", "f_insert"}
             /\ stack' = [stack EXCEPT ![sp] = q] /\ stack' \in [Task -> Seq(Frame)]
<1> DEFINE s == stack[sp]
           q == stack'[sp]
           a == Pt(s, Len(s) - 1)
<1>1. /\ sp \in {0, 1} /\ Len(s) \in {2, 3} /\ Pt(s, Len(s)) = "take"
      /\ Len(s) = 2 => sp = 1 /\ Pt(s, 1) \in {"user", "aborted"}
      /\ Len(s) = 3 /\ sp = 0 => Pt(s, 1) = "main" /\ Pt(s, 2) = "f_copy"
      /\ Len(s) = 3 /\ sp = 1 => Pt(s, 1) = "loop" /\ Pt(s, 2) \in {"f_copy", "f_insert"}
      /\ Top.n \in Nat \ {0} /\ Top.for \in Task
      /\ preempt_count[sp] = Count("take", a, state[sp])
  BY InSeek DEF TakePage, Seeking
<1>2. Is("take") /\ Rests(sp, "take", a)
  BY OnTop DEF TakePage
<1> HIDE DEF s, q, a
<1>3. Len(s) = 2 => a = Pt(s, 1)
  BY DEF a
<1>4. Len(s) = 3 => a = Pt(s, 2)
  BY DEF a
<1>5. a \in {"user", "aborted", "f_copy", "f_insert"}
  BY <1>1, <1>3, <1>4
<1>6. /\ Proper(q) /\ Len(q) \in {Len(s) - 1, Len(s)}
      /\ Kept(q, s, Len(s) - 1) /\ Pt(q, Len(s)) \in {"get", "none"}
      /\ Left(q, Len(s)) = Top.n - 1
      /\ preempt_count[sp] = Count(Pt(q, Len(q)), Pt(q, Len(q) - 1), state[sp])
      /\ q[Len(q)].pt \in {"get", "user", "aborted", "f_copy", "f_insert"}
  <2>1. CASE Top.n > 1
    <3> DEFINE f == Want(Top.n - 1, Top.for)
    <3>1. Goto(f)
      BY <2>1 DEF TakePage
    <3>2. Fresh(f) /\ f.pt = "get" /\ Wants(f) = Top.n - 1
      <4>1. Top.n - 1 \in Nat \ {0} /\ Top.for \in Task
        BY <1>1, <2>1
      <4> QED
        BY <4>1, WantFrames
    <3> HIDE DEF f
    <3>3. Rests(sp, "get", a)
      BY <1>2 DEF Rests, LiesOn, BottomOf, InScheduler, Inside, Forking, Seeking
    <3>4. /\ Proper(q) /\ Len(q) = Len(s) /\ Kept(q, s, Len(s) - 1) /\ q[Len(s)] = f
          /\ Pt(q, Len(s)) = "get" /\ Left(q, Len(s)) = Top.n - 1
      BY <3>1, <3>2, <3>3, GotoFits DEF s, q, a
    <3>5. Pt(q, Len(q) - 1) = a
      BY <1>1, <3>4 DEF Kept, a
    <3>6. Count("get", a, state[sp]) = Count("take", a, state[sp])
      BY DEF Count, Disabled, Forgot, Inside, Forking
    <3> QED
      BY <1>1, <3>2, <3>4, <3>5, <3>6
  <2>2. CASE ~(Top.n > 1)
    <3>1. Return /\ Top.n - 1 = 0
      BY <1>1, <2>2 DEF TakePage
    <3>2. "take" \notin BottomOf(sp)
      BY DEF BottomOf
    <3>3. /\ Proper(q) /\ Len(q) = Len(s) - 1 /\ Kept(q, s, Len(s) - 1)
          /\ q[Len(q)].pt = a /\ Pt(q, Len(q) - 1) \notin Lone
      BY <1>2, <3>1, <3>2, ReturnFits DEF s, q, a
    <3>4. Pt(q, Len(s)) = "none" /\ Left(q, Len(s)) = 0
      BY <1>1, <3>3 DEF Proper, Ends
    <3>5. Pt(q, Len(q)) = a
      BY <1>1, <3>3 DEF Kept, a
    <3>6. Count(a, Pt(q, Len(q) - 1), state[sp]) = Count("take", a, state[sp])
      BY <1>5, <3>3 DEF Count, Disabled, Forgot, Lone, Inside, Forking
    <3> QED
      BY <1>1, <1>5, <3>1, <3>3, <3>4, <3>5, <3>6
  <2> QED
    BY <2>1, <2>2
<1>7. \A i \in Int : i > Len(s) => Pt(q, i) = "none" /\ Left(q, i) = 0
  BY <1>1, <1>6 DEF Proper, Ends
<1>8. \A i \in 1 .. Len(q) : q[i].pt # "take"
  <2>1. ASSUME NEW i \in 1 .. Len(q)
        PROVE  Pt(q, i) # "take"
    <3>1. i \in 1 .. Len(s) - 1 \/ i = Len(s)
      BY <1>1, <1>6
    <3>2. ASSUME i \in 1 .. Len(s) - 1
          PROVE  Pt(q, i) = Pt(s, i) /\ Pt(s, i) # "take"
      <4>1. Pt(q, i) = Pt(s, i)
        BY <1>6, <3>2 DEF Kept
      <4>2. i = 1 \/ (i = 2 /\ Len(s) = 3)
        <5>1. \A n \in {2, 3} : \A j \in 1 .. n - 1 : j = 1 \/ (j = 2 /\ n = 3)
          OBVIOUS
        <5> QED
          BY <1>1, <3>2, <5>1, Zenon
      <4> QED
        BY <1>1, <4>1, <4>2
    <3> QED
      BY <1>6, <3>1, <3>2
  <2> QED
    BY <2>1 DEF Pt
<1>9. Len(q) \in 1 .. 3
  <2>1. \A n \in {2, 3} : {n - 1, n} \subseteq 1 .. 3
    OBVIOUS
  <2> QED
    BY <1>1, <1>6, <2>1, Zenon
<1> QED
  BY <1>6, <1>7, <1>8, <1>9 DEF Proper, s, q

\* What is wanted and what is taken together are as many as before.
LEMMA TakeEarly ==
  ASSUME NEW t \in {0, 1}, NEW s, NEW q, NEW nr, NEW used \in Nat, Early(t, s, nr, used),
         Len(s) \in {2, 3}, Pt(s, Len(s)) = "take",
         Kept(q, s, Len(s) - 1), Pt(q, Len(s)) \in {"get", "none"},
         Left(s, Len(s)) \in Nat, Left(q, Len(s)) = Left(s, Len(s)) - 1,
         \A i \in Int : i > Len(s) => Pt(q, i) = "none" /\ Left(q, i) = 0,
         Len(s) = 2 => t = 1 /\ Pt(s, 1) \in {"user", "aborted"},
         Len(s) = 3 /\ t = 0 => Pt(s, 1) = "main" /\ Pt(s, 2) = "f_copy",
         Len(s) = 3 /\ t = 1 => Pt(s, 1) = "loop" /\ Pt(s, 2) \in {"f_copy", "f_insert"}
  PROVE  Early(t, q, nr, used + 1)
<1>1. CASE Len(s) = 2
  <2>1. Pt(q, 1) = Pt(s, 1) /\ Pt(q, 2) \in {"get", "none"} /\ Left(q, 2) = Left(s, 2) - 1
    BY <1>1 DEF Kept
  <2> QED
    BY <1>1, <2>1 DEF Early, BeforeFork, TaskPages, MovePages, AbortPages
<1>2. CASE Len(s) = 3
  <2>1. Pt(q, 1) = Pt(s, 1) /\ Pt(q, 2) = Pt(s, 2) /\ Left(q, 3) = Left(s, 3) - 1
    BY <1>2 DEF Kept
  <2> QED
    BY <1>2, <2>1 DEF Early, BeforeFork, TaskPages, MovePages, AbortPages, CopyPages
<1> QED
  BY <1>1, <1>2

\* No other task is where it wants a page, so its stack is as sound with one more
\* of them taken.
LEMMA NotHere ==
  ASSUME IInv, sp \in {0, 1}, sp = 0 => nr_tasks = 1,
         NEW t \in Live, t # sp, NEW used, NEW free
  PROVE  Sound(t, stack[t], state[t], preempt_count[t], nr_tasks, used, free)
<1> DEFINE s == stack[t]
<1>1. /\ t \in {0, 2} /\ nr_tasks # 1 /\ t \in Task
  BY DEF IInv, Types, Live, Task
<1>2. /\ Fits(t, s) /\ Early(t, s, nr_tasks, Cardinality(mem_map))
      /\ preempt_count[t] = Count(Pt(s, Len(s)), Pt(s, Len(s) - 1), state[t])
  BY DEF IInv, Stacks, Soundly, Sound
<1> HIDE DEF s
<1>3. Early(t, s, nr_tasks, used)
  BY <1>1, <1>2 DEF Early
<1>4. ASSUME NEW i \in 1 .. Len(s), s[i].pt = "take"
      PROVE  FALSE
  <2>1. s[i].pt \in Seeking
    BY <1>4 DEF Seeking
  <2>2. t = 0 /\ i = 3 /\ i = Len(s) /\ s[2].pt = "f_copy"
    BY <1>1, <1>2, <2>1, WantPlace
  <2>3. Pt(s, 2) = "f_copy"
    BY <2>2 DEF Pt
  <2> QED
    BY <1>1, <1>2, <2>2, <2>3 DEF Early
<1> QED
  BY <1>2, <1>3, <1>4 DEF Sound, s

LEMMA TakePageKeeps == IInv /\ TakePage => IInv'
<1> SUFFICES ASSUME IInv, TakePage PROVE IInv'
  OBVIOUS
<1> DEFINE s == stack[sp]
           q == stack'[sp]
           page == Top.page
           used == Cardinality(mem_map)
<1>1. /\ sp = current /\ sp \in {0, 1} /\ Len(s) \in {2, 3} /\ Pt(s, Len(s)) = "take"
      /\ Len(s) = 2 => sp = 1 /\ Pt(s, 1) \in {"user", "aborted"}
      /\ Len(s) = 3 /\ sp = 0 => Pt(s, 1) = "main" /\ Pt(s, 2) = "f_copy"
      /\ Len(s) = 3 /\ sp = 1 => Pt(s, 1) = "loop" /\ Pt(s, 2) \in {"f_copy", "f_insert"}
      /\ Left(s, Len(s)) = Top.n /\ Top.n \in Nat \ {0} /\ Top.for \in Task
      /\ page \in Free
      /\ Early(sp, s, nr_tasks, used)
      /\ state[sp] # "ZOMBIE"
  BY InSeek DEF TakePage, Seeking
<1>2. /\ Fits(sp, q) /\ Len(q) \in 1 .. 3
      /\ \A i \in 1 .. Len(q) : q[i].pt # "take"
      /\ Kept(q, s, Len(s) - 1) /\ Pt(q, Len(s)) \in {"get", "none"}
      /\ Left(q, Len(s)) = Top.n - 1
      /\ \A i \in Int : i > Len(s) => Pt(q, i) = "none" /\ Left(q, i) = 0
      /\ preempt_count[sp] = Count(Pt(q, Len(q)), Pt(q, Len(q) - 1), state[sp])
      /\ q[Len(q)].pt \in {"get", "user", "aborted", "f_copy", "f_insert"}
      /\ stack' = [stack EXCEPT ![sp] = q] /\ stack' \in [Task -> Seq(Frame)]
  BY TakeStack
<1>3. /\ UNCHANGED <<current, nr_tasks, state, counter, preempt_count, sp, masked, pool>>
      /\ mem_map' = mem_map \cup {page}
      /\ own' = [own EXCEPT ![Top.for] = @ \cup {page}]
  BY DEF TakePage, Keep, sched
<1>4. /\ pool \in Nat /\ mem_map \subseteq 0 .. pool - 1
      /\ page \in 0 .. pool - 1 /\ page \notin mem_map
  BY <1>1, LrtosAssumption DEF IInv, Pages, Free, BeforeFork, TaskPages, MovePages, AbortPages
<1>5. used \in Nat /\ Cardinality(mem_map') = used + 1
  <2>1. IsFiniteSet(0 .. pool - 1)
    BY <1>4, FS_Interval
  <2>2. IsFiniteSet(mem_map)
    BY <1>4, <2>1, FS_Subset
  <2> QED
    BY <1>3, <1>4, <2>2, FS_AddElement, FS_CardinalityType
<1> HIDE DEF s, q, page, used
<1>6. Live' = Live /\ sp \in Live /\ Live \subseteq Task
  BY <1>3 DEF IInv, Types, Live
<1>7. \A t \in Task \ {sp} : stack'[t] = stack[t]
  BY <1>2 DEF IInv, Types
<1>8. Early(sp, q, nr_tasks, used + 1)
  BY <1>1, <1>2, <1>5, TakeEarly
<1>9. Soundly(sp)'
  BY <1>2, <1>3, <1>5, <1>8 DEF Soundly, Sound, q
<1>10. ASSUME NEW t \in Live, t # sp
       PROVE  Soundly(t)'
  <2>1. sp = 0 => nr_tasks = 1
    BY <1>1 DEF Early
  <2>2. Sound(t, stack[t], state[t], preempt_count[t], nr_tasks, Cardinality(mem_map'), Free')
    BY <1>1, <1>10, <2>1, NotHere
  <2> QED
    BY <1>3, <1>6, <1>7, <1>10, <2>2 DEF Soundly
<1>11. Stacks'
  BY <1>3, <1>6, <1>9, <1>10 DEF Stacks
<1>12. Types'
  <2>1. own' \in [Task -> SUBSET Nat]
    <3>1. page \in Nat /\ own \in [Task -> SUBSET Nat]
      BY <1>4 DEF IInv, Types
    <3> QED
      BY <1>1, <1>3, <3>1
  <2> QED
    BY <1>1, <1>2, <1>3, <1>6, <1>7, <2>1 DEF IInv, Types
<1>13. Sleeping'
  BY <1>3, <1>6, <1>7 DEF IInv, Sleeping
<1>14. Switching'
  <2>1. Top' = q[Len(q)]
    BY <1>3 DEF Top, q
  <2> QED
    BY <1>1, <1>2, <1>3, <2>1 DEF Switching, Is
<1>15. Pages'
  <2>1. \A t \in Task : own'[t] = IF t = Top.for THEN own[t] \cup {page} ELSE own[t]
    BY <1>1, <1>3 DEF IInv, Types
  <2>2. mem_map = UNION {own[t] : t \in Task}
    BY DEF IInv, Pages, OneOwner
  <2>3. \A t \in Task : page \notin own[t]
    BY <1>4, <2>2
  <2>4. mem_map' = UNION {own'[t] : t \in Task}
    <3>1. \A x : x \in mem_map' <=> x \in mem_map \/ x = page
      BY <1>3
    <3>2. \A x : x \in mem_map <=> \E t \in Task : x \in own[t]
      BY <2>2
    <3>3. \A x : (\E t \in Task : x \in own'[t]) <=> (\E t \in Task : x \in own[t]) \/ x = page
      BY <1>1, <2>1
    <3> QED
      BY <3>1, <3>2, <3>3
  <2>5. ASSUME NEW t \in Task, NEW u \in Task, t # u
        PROVE  own'[t] \cap own'[u] = {}
    <3>1. own[t] \cap own[u] = {}
      BY <2>5 DEF IInv, Pages, OneOwner
    <3> QED
      BY <2>1, <2>3, <2>5, <3>1
  <2>6. mem_map' \subseteq 0 .. pool' - 1 /\ pool' \in PoolSizes
    BY <1>3, <1>4 DEF IInv, Pages
  <2> QED
    BY <2>4, <2>5, <2>6 DEF Pages, OneOwner
<1> QED
  BY <1>11, <1>12, <1>13, <1>14, <1>15 DEF IInv

-----------------------------------------------------------------------------
\* A task is made

LEMMA ForkInsertKeeps == IInv /\ ForkInsert => IInv'
<1> SUFFICES ASSUME IInv, ForkInsert PROVE IInv'
  OBVIOUS
<1> DEFINE s == stack[sp]
           q == stack'[sp]
           n == nr_tasks
           used == Cardinality(mem_map)
           first == At(IF current = 0 THEN "kernel_process" ELSE "loop")
           new == <<first, At("s_tail")>>
           f == At("f_enable")
<1>1. /\ Len(s) = 2 /\ Pt(s, 2) = "f_insert" /\ sp = current /\ sp \in {0, 1} /\ sp \in Task
      /\ sp = 0 => Pt(s, 1) = "main"
      /\ sp = 1 => Pt(s, 1) = "loop"
      /\ Left(s, 3) = 0 /\ Early(sp, s, n, used)
      /\ preempt_count[sp] = Count("f_insert", Pt(s, 1), state[sp])
  BY InFork DEF ForkInsert, Task
<1>2. n = sp + 1 /\ n \in Task /\ n # sp /\ n # 0 /\ (sp = 0 => used = TaskPages)
  BY <1>1 DEF Early, Task
<1>3. s \in Seq(Frame) /\ state[sp] # "ZOMBIE" /\ Fits(sp, s)
  <2>1. Top.pt = "f_insert"
    BY DEF ForkInsert, Is
  <2>2. state[sp] # "ZOMBIE"
    BY <2>1 DEF IInv, Switching, Ended, Inside
  <2> QED
    BY <2>2, Here
<1>4. /\ UNCHANGED <<current, sp, masked, pool, mem_map, own>> /\ nr_tasks' = n + 1
      /\ state' = [state EXCEPT ![n] = "RUNNING"]
      /\ counter' = [counter EXCEPT ![n] = PRIORITY]
      /\ preempt_count' = [preempt_count EXCEPT ![n] = 1]
  BY DEF ForkInsert, Keep, mm, NewPreemptCount
<1>5. /\ Fresh(first) /\ first.pt = IF sp = 0 THEN "kernel_process" ELSE "loop"
      /\ At("s_tail") \in Frame /\ At("s_tail").pt = "s_tail"
      /\ f \in Frame /\ f.pt = "f_enable"
  <2>1. At("s_tail") \in Frame /\ At("s_tail").pt = "s_tail"
    BY DEF At, Frame, Plain
  <2>2. f \in Frame /\ f.pt = "f_enable"
    BY DEF At, Frame, Plain, Forking
  <2>3. Fresh(first) /\ first.pt = IF sp = 0 THEN "kernel_process" ELSE "loop"
    BY <1>1 DEF At, Frame, Fresh, Plain
  <2> QED
    BY <2>1, <2>2, <2>3
<1>6. /\ new \in Seq(Frame) /\ Len(new) = 2 /\ new[1] = first /\ new[2] = At("s_tail")
  BY <1>5 DEF Fresh
<1> HIDE DEF first, f
<1>7. /\ q = SubSeq(s, 1, Len(s) - 1) \o <<f>>
      /\ stack'[n] = new /\ \A t \in Task \ {sp, n} : stack'[t] = stack[t]
      /\ DOMAIN stack' = Task
  BY <1>1, <1>2 DEF ForkInsert, Less, IInv, Types, first, f
<1>8. q \in Seq(Frame) /\ Len(q) = 2 /\ q[1] = s[1] /\ q[2] = f
  <2> DEFINE m == Len(s) - 1
  <2> HIDE DEF s, q
  <2>1. Len(s) > 0 /\ m = 1 /\ m \in 0 .. Len(s)
    BY <1>1
  <2>2. Over(q, s, m, <<f>>)
    BY <1>3, <1>5, <1>7, <2>1, Replaced1, Zenon
  <2> HIDE DEF m
  <2>3. /\ q \in Seq(Frame) /\ Len(q) = m + 1 /\ q[m + 1] = f
        /\ \A i \in 1 .. m : q[i] = s[i]
    BY <1>3, <2>1, <2>2, LenProperties DEF Over
  <2> QED
    BY <2>1, <2>3
<1>9. stack' = [t \in Task |-> stack'[t]]
  BY <1>1, <1>2 DEF ForkInsert, IInv, Types
<1> HIDE DEF s, q, n, used, new
<1>10. stack' \in [Task -> Seq(Frame)]
  <2>1. \A t \in Task : stack'[t] \in Seq(Frame)
    BY <1>6, <1>7, <1>8 DEF IInv, Types, q
  <2> QED
    BY <1>9, <2>1
<1>11. /\ Live = 0 .. sp /\ Live' = 0 .. n /\ Free' = Free /\ Cardinality(mem_map)' = used
  BY <1>1, <1>2, <1>4 DEF Live, Free, Task, n, used
<1>12. Pt(s, 1) = s[1].pt /\ Pt(q, 1) = s[1].pt /\ Pt(q, 2) = "f_enable"
  BY <1>1, <1>5, <1>8 DEF Pt
<1>13. Soundly(sp)'
  <2>1. Fits(sp, q)
    BY <1>1, <1>5, <1>8, <1>12 DEF Fits, BottomOf, LiesOn, Forking
  <2>2. preempt_count'[sp] = Count(Pt(q, Len(q)), Pt(q, Len(q) - 1), state'[sp])
    <3>1. Pt(q, Len(q)) = "f_enable" /\ Pt(q, Len(q) - 1) = Pt(s, 1)
      BY <1>8, <1>12
    <3>2. preempt_count'[sp] = preempt_count[sp] /\ state'[sp] = state[sp]
      BY <1>1, <1>2, <1>4 DEF IInv, Types
    <3>3. Count("f_enable", Pt(s, 1), state[sp]) = Count("f_insert", Pt(s, 1), state[sp])
      BY DEF Count, Disabled, Forgot, Forking
    <3> QED
      BY <1>1, <3>1, <3>2, <3>3
  <2>3. Early(sp, q, n + 1, used)
    BY <1>1, <1>12 DEF Early
  <2>4. \A i \in 1 .. Len(q) : q[i].pt # "take"
    BY <1>1, <1>5, <1>8, <1>12
  <2> QED
    BY <1>4, <1>11, <2>1, <2>2, <2>3, <2>4 DEF Soundly, Sound, q
<1>14. ASSUME NEW t, t = n
       PROVE  Soundly(t)'
  <2>1. Fits(n, new)
    BY <1>1, <1>2, <1>5, <1>6 DEF Fits, BottomOf, LiesOn
  <2>2. Pt(new, 1) = first.pt /\ Pt(new, 2) = "s_tail"
    BY <1>5, <1>6 DEF Pt
  <2>3. preempt_count'[n] = Count(Pt(new, Len(new)), Pt(new, Len(new) - 1), state'[n])
    <3>1. Pt(new, Len(new)) = "s_tail" /\ Pt(new, Len(new) - 1) = first.pt
      BY <1>6, <2>2
    <3>2. preempt_count'[n] = 1 /\ state'[n] = "RUNNING"
      BY <1>2, <1>4 DEF IInv, Types
    <3>3. Count("s_tail", first.pt, "RUNNING") = 1
      BY <1>5 DEF Count, One, Disabled, Forgot
    <3> QED
      BY <3>1, <3>2, <3>3
  <2>4. Early(n, new, n + 1, used)
    BY <1>1, <1>2, <1>5, <2>2 DEF Early
  <2>5. \A i \in 1 .. Len(new) : new[i].pt # "take"
    BY <1>5, <1>6
  <2> QED
    BY <1>2, <1>4, <1>7, <1>11, <1>14, <2>1, <2>3, <2>4, <2>5 DEF Soundly, Sound
<1>15. ASSUME NEW t \in Live, t # sp
       PROVE  Soundly(t)'
  <2>1. t = 0 /\ sp = 1 /\ t \in Task /\ t # n /\ n # 1
    <3>1. t \in 0 .. sp
      BY <1>11, <1>15
    <3>2. sp = 0 \/ sp = 1
      BY <1>1
    <3>3. sp = 1 /\ t = 0
      BY <1>15, <3>1, <3>2
    <3> QED
      BY <1>2, <3>3 DEF Task
  <2>2. Sound(t, stack[t], state[t], preempt_count[t], n, used, Free)
    BY <1>15 DEF IInv, Stacks, Soundly, n, used
  <2>3. Early(t, stack[t], n + 1, used)
    BY <1>1, <1>2, <2>1, <2>2 DEF Sound, Early
  <2>4. stack'[t] = stack[t] /\ state'[t] = state[t] /\ preempt_count'[t] = preempt_count[t]
    BY <1>2, <1>4, <1>7, <1>15, <2>1 DEF IInv, Types
  <2> QED
    BY <1>4, <1>11, <2>2, <2>3, <2>4 DEF Soundly, Sound
<1>16. Stacks'
  <2>1. \A t \in Live' : t \in Live \/ t = n
    BY <1>1, <1>2, <1>11
  <2>2. ASSUME NEW t \in Live'
        PROVE  Soundly(t)'
    <3>1. CASE t = n
      BY <1>14, <3>1
    <3>2. CASE t = sp
      BY <1>4, <1>13, <3>2 DEF Soundly
    <3>3. CASE t \in Live /\ t # sp
      BY <1>15, <3>3
    <3> QED
      BY <2>1, <2>2, <3>1, <3>2, <3>3
  <2> QED
    BY <2>2 DEF Stacks
<1>17. Types'
  <2>1. state' \in [Task -> {"NONE", "RUNNING", "ZOMBIE"}] /\ state'[0] = "RUNNING"
    BY <1>2, <1>4 DEF IInv, Types, Task
  <2>2. \A t \in Task : state'[t] = "NONE" <=> t \notin Live'
    BY <1>1, <1>2, <1>4, <1>11 DEF IInv, Types, Task
  <2>3. \A t \in Task : t \notin Live' => stack'[t] = <<>> /\ preempt_count'[t] = 0
    BY <1>1, <1>2, <1>4, <1>7, <1>11 DEF IInv, Types, Task
  <2>4. counter' \in [Task -> -MAX_LATE - 1 .. 2 * PRIORITY]
    BY <1>2, <1>4, LrtosAssumption DEF IInv, Types
  <2>5. preempt_count' \in [Task -> Int] /\ sp' \in Live' /\ nr_tasks' \in 1 .. 3
    BY <1>1, <1>2, <1>4, <1>11 DEF IInv, Types
  <2> QED
    BY <1>4, <1>10, <2>1, <2>2, <2>3, <2>4, <2>5 DEF IInv, Types
<1>18. Sleeping'
  <2>1. ASSUME NEW t \in Live' \ {sp}
        PROVE  Pt(stack'[t], Len(stack'[t])) \in {"s_enable", "s_tail"}
    <3>1. CASE t = n
      BY <1>5, <1>6, <1>7, <3>1 DEF Pt
    <3>2. CASE t # n
      <4>1. t \in Live \ {sp} /\ t \in Task \ {sp, n}
        BY <1>1, <1>2, <1>11, <2>1, <3>2 DEF Task
      <4> QED
        BY <1>7, <4>1 DEF IInv, Sleeping
    <3> QED
      BY <3>1, <3>2
  <2> QED
    BY <1>4, <2>1 DEF Sleeping
<1>19. Switching'
  <2>1. Top' = f
    BY <1>4, <1>8 DEF Top, q
  <2>2. state'[sp] = state[sp]
    BY <1>1, <1>2, <1>4 DEF IInv, Types
  <2> QED
    BY <1>1, <1>3, <1>4, <1>5, <2>1, <2>2 DEF Switching, Is
<1>20. Pages'
  BY <1>4 DEF IInv, Pages, OneOwner
<1> QED
  BY <1>16, <1>17, <1>18, <1>19, <1>20 DEF IInv

-----------------------------------------------------------------------------
\* The invariant and what it is for

LEMMA InitHolds == Init => IInv
<1> SUFFICES ASSUME Init PROVE IInv
  OBVIOUS
<1>1. /\ current = 0 /\ nr_tasks = 1 /\ sp = 0 /\ masked = FALSE /\ mem_map = {}
      /\ state = [t \in Task |-> IF t = 0 THEN "RUNNING" ELSE "NONE"]
      /\ counter = [t \in Task |-> 0] /\ preempt_count = [t \in Task |-> 0]
      /\ stack = [t \in Task |-> IF t = 0 THEN <<At("kernel_main")>> ELSE <<>>]
      /\ pool \in PoolSizes /\ own = [t \in Task |-> {}]
  BY DEF Init
<1>2. Live = {0} /\ Cardinality(mem_map) = 0
  BY <1>1, FS_EmptySet DEF Live, Task
<1>3. stack[0] = <<At("kernel_main")>> /\ At("kernel_main") \in Frame
  BY <1>1 DEF Task, At, Frame, Plain
<1>4. At("kernel_main").pt = "kernel_main"
  BY DEF At
<1>5. Types
  <2>1. stack \in [Task -> Seq(Frame)]
    BY <1>1, <1>3 DEF Task
  <2>2. counter \in [Task -> -MAX_LATE - 1 .. 2 * PRIORITY]
    BY <1>1, LrtosAssumption
  <2> QED
    BY <1>1, <1>2, <2>1, <2>2 DEF Types, Task
<1> DEFINE s == stack[0]
<1>6. s \in Seq(Frame) /\ Len(s) = 1 /\ s[1].pt = "kernel_main"
  BY <1>3, <1>4
<1>7. Top = s[1] /\ state[0] = "RUNNING" /\ preempt_count[0] = 0
  BY <1>1, <1>6 DEF Top, Task
<1> HIDE DEF s
<1>8. Pt(s, 1) = "kernel_main" /\ Pt(s, 0) = "none" /\ Pt(s, 2) = "none" /\ Pt(s, 3) = "none"
  BY <1>6 DEF Pt
<1>9. Sound(0, s, "RUNNING", 0, 1, 0, Free)
  <2>1. Fits(0, s)
    BY <1>6 DEF Fits, BottomOf
  <2>2. Count(Pt(s, Len(s)), Pt(s, Len(s) - 1), "RUNNING") = 0
    <3>1. Len(s) - 1 = 0
      BY <1>6
    <3> QED
      BY <1>6, <1>8, <3>1 DEF Count, One, Disabled, Forgot, Inside, Forking
  <2>3. Early(0, s, 1, 0)
    BY <1>8 DEF Early
  <2> QED
    BY <1>6, <2>1, <2>2, <2>3 DEF Sound
<1>10. Stacks
  BY <1>1, <1>2, <1>7, <1>9 DEF Stacks, Soundly, s
<1>11. Sleeping /\ Switching
  BY <1>1, <1>2, <1>6, <1>7 DEF Sleeping, Switching, Is
<1>12. Pages
  BY <1>1 DEF Pages, OneOwner
<1> QED
  BY <1>5, <1>10, <1>11, <1>12 DEF IInv

LEMMA NextKeeps == IInv /\ [Next]_vars => IInv'
<1> SUFFICES ASSUME IInv, [Next]_vars PROVE IInv'
  OBVIOUS
<1>1. CASE Schedule
  BY <1>1, ScheduleZeroKeeps, ScheduleDisableKeeps, ScheduleScanKeeps, ScheduleRefillKeeps,
     SwitchCurrentKeeps, CpuSwitchToKeeps, ScheduleEnableKeeps, IrqExitKeeps DEF Schedule
<1>2. CASE Fork
  BY <1>2, ForkDisableKeeps, ForkFailsKeeps, ForkCopyKeeps, ForkInsertKeeps, ForkEnableKeeps,
     ScheduleTailKeeps DEF Fork
<1>3. CASE Cpu /\ ~Schedule /\ ~Fork
  BY <1>3, ExitDisableKeeps, ExitZombieKeeps, ExitEnableKeeps, FindPageKeeps, TakePageKeeps,
     MainKeeps, UserProcessKeeps, MemAbortKeeps, SysWriteKeeps DEF Cpu
<1>4. CASE Tick
  BY <1>4, TickOnlyKeeps, TickSwitchKeeps DEF Tick
<1>5. CASE UNCHANGED vars
  <2>1. UNCHANGED <<current, nr_tasks, state, preempt_count, counter, cpu, pool, mem_map, own>>
    BY <1>5 DEF vars, sched, mm
  <2>2. counter' \in [Task -> -MAX_LATE - 1 .. 2 * PRIORITY]
    BY <2>1 DEF IInv, Types
  <2> QED
    BY <2>1, <2>2, CreditsKeep
<1> QED
  BY <1>1, <1>2, <1>3, <1>4, <1>5 DEF Next, Cpu

LEMMA Holds == Spec => []IInv
BY InitHolds, NextKeeps, PTL DEF Spec

\* The two uppermost frames of a task's stack.
LEMMA TwoUppermost ==
  ASSUME NEW t \in Task, NEW s, Fits(t, s)
  PROVE  /\ Len(s) \in Nat /\ Len(s) > 0 /\ Pt(s, Len(s)) = s[Len(s)].pt
         /\ Rests(t, Pt(s, Len(s)), Pt(s, Len(s) - 1))
<1>1. /\ s \in Seq(Frame) /\ Len(s) \in Nat /\ Len(s) > 0 /\ s[1].pt \in BottomOf(t)
      /\ \A i \in 1 .. Len(s) - 1 : LiesOn(t, s[i + 1].pt, s[i].pt)
  BY LenProperties DEF Fits
<1>2. Pt(s, Len(s)) = s[Len(s)].pt
  BY <1>1 DEF Pt
<1>3. CASE Len(s) = 1
  <2>1. Pt(s, Len(s) - 1) = "none" /\ Pt(s, Len(s)) \in BottomOf(t)
    BY <1>1, <1>3 DEF Pt
  <2> QED
    BY <1>1, <1>2, <2>1 DEF Rests
<1>4. CASE Len(s) > 1
  <2>1. Len(s) - 1 \in 1 .. Len(s) - 1 /\ Len(s) - 1 + 1 = Len(s) /\ Len(s) - 1 \in 1 .. Len(s)
    BY <1>1, <1>4
  <2>2. LiesOn(t, s[Len(s)].pt, s[Len(s) - 1].pt)
    BY <1>1, <2>1
  <2>3. Pt(s, Len(s) - 1) = s[Len(s) - 1].pt
    BY <2>1 DEF Pt
  <2> QED
    BY <1>1, <1>2, <2>2, <2>3 DEF Rests
<1>5. Len(s) = 1 \/ Len(s) > 1
  <2>1. \A n \in Nat : n > 0 => n = 1 \/ n > 1
    OBVIOUS
  <2> QED
    BY <1>1, <2>1, Zenon
<1> QED
  BY <1>3, <1>4, <1>5

LEMMA StacksFollow == IInv => StacksKept
<1> SUFFICES ASSUME IInv PROVE StacksKept
  OBVIOUS
<1>1. ASSUME NEW t \in Live
      PROVE  LET s == stack[t] IN
             /\ t \in Task /\ Fits(t, s) /\ Len(s) \in Nat /\ Len(s) > 0
             /\ Pt(s, Len(s)) = s[Len(s)].pt
             /\ Rests(t, Pt(s, Len(s)), Pt(s, Len(s) - 1))
             /\ preempt_count[t] = Count(Pt(s, Len(s)), Pt(s, Len(s) - 1), state[t])
  <2>1. Soundly(t) /\ t \in Task
    BY DEF IInv, Stacks, Live
  <2> QED
    BY <2>1, TwoUppermost DEF Soundly, Sound
<1>2. TypeOK
  <2>1. ASSUME NEW t \in Task
        PROVE  preempt_count[t] \in 0 .. 3 /\ (state[t] # "NONE" => stack[t] # <<>>)
    <3>1. CASE t \in Live
      <4>1. preempt_count[t] \in 0 .. 3
        BY <1>1, <3>1 DEF Count, One
      <4>2. stack[t] # <<>>
        BY <1>1, <3>1
      <4> QED
        BY <4>1, <4>2
    <3>2. CASE t \notin Live
      BY <3>2 DEF IInv, Types
    <3> QED
      BY <3>1, <3>2
  <2>2. \A t \in Task : counter[t] \in -MAX_LATE - 1 .. 2 * PRIORITY
    BY DEF IInv, Types
  <2> QED
    BY <2>1, <2>2 DEF TypeOK, IInv, Types, Live
<1>3. SwitchesOwnStack
  BY MaySwitch DEF SwitchesOwnStack
<1>4. SleepsInSchedule
  <2>1. SUFFICES ASSUME NEW t \in Running \ {sp, current}
                 PROVE  /\ stack[t][Len(stack[t])].pt \in {"s_enable", "s_tail"}
                        /\ preempt_count[t] = 1
    BY DEF SleepsInSchedule
  <2>2. t \in Live /\ t # sp /\ state[t] = "RUNNING"
    BY <2>1 DEF Running, IInv, Types
  <2> DEFINE p == Pt(stack[t], Len(stack[t]))
             a == Pt(stack[t], Len(stack[t]) - 1)
  <2>3. p \in {"s_enable", "s_tail"}
    BY <2>2 DEF IInv, Sleeping
  <2>4. /\ p = stack[t][Len(stack[t])].pt /\ Rests(t, p, a)
        /\ preempt_count[t] = Count(p, a, "RUNNING")
    BY <1>1, <2>2
  <2> HIDE DEF p, a
  <2>5. Count(p, a, "RUNNING") = 1
    BY <2>3, <2>4
      DEF Rests, LiesOn, BottomOf, InScheduler, Inside, Forking, Seeking, Count, One, Disabled,
          Forgot
  <2> QED
    BY <2>3, <2>4, <2>5
<1>5. UserPreemptible
  <2> DEFINE s == stack[sp]
             p == Pt(s, Len(s))
             a == Pt(s, Len(s) - 1)
             Exits == \E i \in 1 .. Len(s) : s[i].pt = "exit"
  <2>1. SUFFICES ASSUME sp = current, Top.pt \in {"loop", "write", "ready"},
                        state[sp] = "RUNNING"
                 PROVE  preempt_count[current] = IF Exits THEN 1 ELSE 0
    BY DEF UserPreemptible
  <2>2. /\ Fits(sp, s) /\ Len(s) \in Nat /\ Len(s) > 0 /\ p = s[Len(s)].pt /\ p = Top.pt
        /\ Rests(sp, p, a) /\ preempt_count[sp] = Count(p, a, "RUNNING")
    BY <1>1, <2>1, Here
  <2> HIDE DEF s, p, a
  <2>3. Count(p, a, "RUNNING") = One(a = "exit")
    BY <2>1, <2>2
      DEF Rests, LiesOn, BottomOf, InScheduler, Inside, Forking, Seeking, Count, One, Disabled,
          Forgot
  <2>4. Exits <=> a = "exit"
    <3>1. ASSUME NEW i \in 1 .. Len(s), s[i].pt = "exit"
          PROVE  a = "exit"
      <4>1. s[i].pt \in Lone
        BY <3>1 DEF Lone
      <4>2. i \notin 1 .. Len(s) - 2
        BY <2>2, <4>1 DEF Fits
      <4>3. i # Len(s)
        BY <2>1, <2>2, <3>1
      <4>4. i = Len(s) - 1
        BY <2>2, <4>2, <4>3
      <4> QED
        BY <3>1, <4>4 DEF a, Pt
    <3>2. ASSUME a = "exit"
          PROVE  Exits
      <4>1. Len(s) - 1 \in 1 .. Len(s) /\ s[Len(s) - 1].pt = "exit"
        BY <3>2 DEF a, Pt
      <4> QED
        BY <4>1
    <3> QED
      BY <3>1, <3>2
  <2> HIDE DEF Exits
  <2> QED
    BY <2>1, <2>2, <2>3, <2>4 DEF One
<1> QED
  BY <1>2, <1>3, <1>4, <1>5 DEF StacksKept

\* Whatever the priority, the number of pages, the lateness of the interrupts and
\* the depth of the stacks: the timer interrupt switches tasks only on the stack of
\* the task that `current` names (timer_tick() in sched.c), a task off the CPU waits
\* inside _schedule() or at ret_from_fork with preempt_count 1, and a user task
\* enables preemption as often as it disables it unless its fork failed.
THEOREM StacksCorrect == Spec => []StacksKept
<1>1. Spec => []IInv
  BY Holds
<1> QED
  BY <1>1, StacksFollow, PTL

\* No page belongs to two tasks although get_free_page() looks and takes with
\* interrupts enabled (mm.c): it is called with preemption disabled, or by
\* the only task that still wants pages.
THEOREM OwnersCorrect == Spec => []OneOwner
<1>1. IInv => OneOwner
  BY DEF IInv, Pages
<1> QED
  BY <1>1, Holds, PTL

\* A step gives the CPU only to a task that runs.
LEMMA SwitchesToRunning == IInv /\ [Next]_vars => (sp' # sp => state[sp'] = "RUNNING")
<1> SUFFICES ASSUME IInv, [Next]_vars, sp' # sp PROVE state[sp'] = "RUNNING"
  OBVIOUS
<1>1. CpuSwitchTo
  <2>1. Next
    BY DEF vars, cpu
  <2>2. CASE Schedule
    BY <2>2 DEF Schedule, ScheduleZero, ScheduleDisable, ScheduleScan, ScheduleRefill,
      SwitchCurrent, ScheduleEnable, IrqExit, Keep
  <2>3. CASE Fork
    BY <2>3 DEF Fork, ForkDisable, ForkFails, ForkCopy, ForkInsert, ForkEnable, ScheduleTail,
      Keep
  <2>4. CASE Cpu /\ ~Schedule /\ ~Fork
    BY <2>4 DEF Cpu, ExitDisable, ExitZombie, ExitEnable, FindPage, TakePage, Main,
      UserProcess, Follow, MemAbort, SysWrite, Keep
  <2>5. CASE Tick
    BY <2>5 DEF Tick, TickOnly, TickSwitch, cpu
  <2> QED
    BY <2>1, <2>2, <2>3, <2>4, <2>5 DEF Next, Cpu
<1>2. sp' = Top.next /\ Top.pt = "s_switch"
  BY <1>1 DEF CpuSwitchTo, Is
<1> QED
  BY <1>2 DEF IInv, Switching

\* A task that ended (exit_process() in sched.c) never gets the CPU again: the scan of
\* _schedule() skips it, and no interrupt between the scan and cpu_switch_to() can make
\* a task that was chosen end.
THEOREM ZombiesStay == Spec => ZombieStays
<1>1. IInv /\ [Next]_vars
        => [\A t \in Task : state[t] = "ZOMBIE" /\ sp # t => sp' # t]_vars
  BY SwitchesToRunning
<1> QED
  BY <1>1, Holds, PTL DEF Spec, ZombieStays
===============================================================================
