------------------------------ MODULE SysTimer ------------------------------
(***************************************************************************)
(* The system timer each VM sees (emulator/raspi/bcm2837.c) and the real   *)
(* one it is made of (boards/raspi/timer.c): virtual time, four compares   *)
(* and their status bits per VM, and the single physical compare C3 that   *)
(* they all share.                                                         *)
(*                                                                         *)
(* Time passes while the program runs: a step takes up to STEP ticks of    *)
(* the real clock, and each register it reads is read at some moment of    *)
(* the step, in the order of the code.                                     *)
(*                                                                         *)
(* A count of 64 bits is two words of WORD values, of which the high one   *)
(* takes HIGH.  A compare's register is the low word of its 64-bit value.  *)
(***************************************************************************)
EXTENDS Integers

CONSTANTS
  VM, NoVM,
  Timer,         \* the compares, {0, 1, 2, 3}
  WORD, HIGH,    \* values of a word (2^32) and of the high word
  MAX_TIME,      \* where the model's clock stops
  STEP,          \* the longest step, in ticks
  TEARS          \* whether a count may be read while its low word wraps

ASSUME SysTimerAssumption ==
  /\ NoVM \notin VM
  /\ WORD \in Nat \ {0} /\ HIGH \in Nat \ {0} /\ STEP \in Nat
  /\ MAX_TIME \in 0 .. WORD * HIGH - 1
  /\ TEARS \in BOOLEAN

Count == 0 .. WORD * HIGH - 1
Minus(x, y) == (x - y) % (WORD * HIGH)     \* uint64_t
Plus(x, y) == (x + y) % (WORD * HIGH)

VARIABLES
  now,             \* the real time
  physical_c3,     \* the physical compare C3 ...
  physical_m3,     \* ... and its status bit
  created,         \* the VMs that exist
  current,         \* the VM last entered
  at,              \* "guest", "access" (it touched its timer) or "hv"
  last_physical_count, offset, cs, c_64    \* of each VM

hardware == <<now, physical_c3, physical_m3>>
state == <<last_physical_count, offset, cs, c_64>>
vars == <<hardware, created, current, at, state>>

\* A step from now to `end`, in which the compare c3 may match.
Matches(c3, from, end) == \E time \in from + 1 .. end : time % WORD = c3
Passes(end) ==
  /\ end \in now .. now + STEP /\ end <= MAX_TIME
  /\ now' = end
  /\ physical_m3' = (physical_m3 \/ Matches(physical_c3, now, end))

-----------------------------------------------------------------------------
\* Mutant: the high word is shifted too far.
get_physical_timer_count_shifted(from, end) ==
  {(low % WORD) + (high \div WORD) * WORD * HIGH : low \in from .. end, high \in from .. end}

\* The counts that may be read between two moments: the low word, and then the
\* high one.
get_physical_timer_count(from, end) ==
  {(r[1] % WORD) + (r[2] \div WORD) * WORD :
     r \in {x \in (from .. end) \X (from .. end) :
              x[1] <= x[2] /\ (TEARS \/ x[1] \div WORD = x[2] \div WORD)}}

TO_VIRTUAL_COUNT(t, count) == Minus(count, offset[t])

\* Two counts are read: one for the low word, one for the high word.
calc_stc_64(t, val, first, second) ==
  LET current_clo == TO_VIRTUAL_COUNT(t, first) % WORD
      base == (TO_VIRTUAL_COUNT(t, second) \div WORD) * WORD
  IN  IF val > current_clo THEN Plus(base, val) ELSE Plus(base, val + WORD)

\* bcm2837_initialize()
Create(t) ==
  /\ at = "hv" /\ t \notin created
  /\ created' = created \cup {t}
  /\ \E end \in now .. now + STEP :
       /\ Passes(end)
       /\ \E count \in get_physical_timer_count(now, end) :
            last_physical_count' = [last_physical_count EXCEPT ![t] = count]
  /\ UNCHANGED <<physical_c3, current, at, offset, cs, c_64>>

\* bcm2837_leaving_vm(), for an interrupt or for an access to the timer.
Leave(reason) ==
  /\ at = "guest" /\ at' = reason
  /\ \E end \in now .. now + STEP :
       /\ Passes(end)
       /\ \E count \in get_physical_timer_count(now, end) :
            last_physical_count' = [last_physical_count EXCEPT ![current] = count]
  /\ UNCHANGED <<physical_c3, created, current, offset, cs, c_64>>

\* handle_systimer_write().  The registers have 32 bits and so has what a guest
\* stores; the code takes the whole register the store names, the bits above
\* included, which are taken to be 0 here.
WriteCompare(i, val) ==
  /\ at = "access" /\ at' = "hv"
  /\ \E middle \in now .. now + STEP : \E end \in middle .. now + STEP :
       /\ Passes(end)
       /\ \E first \in get_physical_timer_count(now, middle),
             second \in get_physical_timer_count(middle, end) :
            c_64' = [c_64 EXCEPT ![current][i] = calc_stc_64(current, val, first, second)]
  /\ UNCHANGED <<physical_c3, created, current, last_physical_count, offset, cs>>

WriteCs(val) ==
  /\ at = "access" /\ at' = "hv"
  /\ cs' = [cs EXCEPT ![current] = @ \ val]
  /\ \E end \in now .. now + STEP : Passes(end)
  /\ UNCHANGED <<physical_c3, created, current, last_physical_count, offset, c_64>>

\* handle_timer3_irq()
HandleTimer3 ==
  /\ at = "hv" /\ physical_m3
  /\ physical_m3' = FALSE
  /\ UNCHANGED <<now, physical_c3, created, current, at, state>>

\* Mutant: a compare is due only at its very moment.
check_expiration_equal(stc64, cvt) == cvt = stc64
check_expiration(stc64, cvt) == cvt >= stc64

\* The ticks to the nearest compare ahead, if there is one within a word.
Upcoming(t, cvt) ==
  {n \in 1 .. WORD - 2 : \E i \in Timer : c_64[t][i] = cvt + n}
Nearest(s) == CHOOSE n \in s : \A k \in s : n <= k

\* Mutant: the time a VM did not run is not taken off its clock.
Enter_keepsOffset(t) ==
  /\ at = "hv" /\ t \in created
  /\ at' = "guest" /\ current' = t
  /\ \E end \in now .. now + STEP :
       /\ Passes(end)
       /\ \E count \in get_physical_timer_count(now, end) :
            cs' = [cs EXCEPT ![t] = @ \cup
                     {i \in Timer : check_expiration(c_64[t][i], TO_VIRTUAL_COUNT(t, count))}]
  /\ UNCHANGED <<physical_c3, created, last_physical_count, offset, c_64>>

\* bcm2837_entering_vm() of the VM that the hypervisor goes (back) to: three
\* counts are read in turn, and C3 is written at the end.
Enter(t) ==
  /\ at = "hv" /\ t \in created
  /\ at' = "guest" /\ current' = t
  /\ \E a \in now .. now + STEP : \E b \in a .. now + STEP : \E c \in b .. now + STEP :
     \E end \in c .. now + STEP :
       /\ Passes(end)
       /\ \E current_physical_count \in get_physical_timer_count(now, a),
             count \in get_physical_timer_count(a, b) :
            LET lapse == Minus(current_physical_count, last_physical_count[t])
                moved == Plus(offset[t], lapse)
                cvt == Minus(count, moved)
                upcoming == Upcoming(t, cvt)
            IN  /\ offset' = [offset EXCEPT ![t] = moved]
                /\ cs' = [cs EXCEPT ![t] = @ \cup
                            {i \in Timer : check_expiration(c_64[t][i], cvt)}]
                /\ physical_c3' = IF upcoming = {} THEN physical_c3
                                  ELSE (c + Nearest(upcoming)) % WORD
  /\ UNCHANGED <<created, last_physical_count, c_64>>

\* Guest code.
Run ==
  /\ at = "guest"
  /\ \E end \in now + 1 .. now + STEP : Passes(end)
  /\ UNCHANGED <<physical_c3, created, current, at, state>>

\* Other code of the hypervisor, and its own task.
HvRuns ==
  /\ at = "hv"
  /\ \E end \in now + 1 .. now + STEP : Passes(end)
  /\ UNCHANGED <<physical_c3, created, current, at, state>>

-----------------------------------------------------------------------------
Init ==
  /\ now = 0 /\ physical_c3 = 0 /\ physical_m3 = FALSE
  /\ created = {} /\ current = NoVM /\ at = "hv"
  /\ last_physical_count = [t \in VM |-> 0] /\ offset = [t \in VM |-> 0]
  /\ cs = [t \in VM |-> {}] /\ c_64 = [t \in VM |-> [i \in Timer |-> 0]]

Next ==
  \/ Run \/ HvRuns \/ HandleTimer3
  \/ \E reason \in {"access", "hv"} : Leave(reason)
  \/ \E i \in Timer, val \in 0 .. WORD - 1 : WriteCompare(i, val)
  \/ \E val \in SUBSET Timer : WriteCs(val)
  \/ \E t \in VM : Create(t) \/ Enter(t)

Spec == Init /\ [][Next]_vars

\* Timer 1 interrupts whatever runs, again and again; a handler ends; and the
\* scheduler lets every VM run again (NoStarvation of Sched).
FairSpec ==
  /\ Spec
  /\ WF_vars(Leave("hv")) /\ WF_vars(\E val \in SUBSET Timer : WriteCs(val))
  /\ \A t \in VM : SF_vars(Enter(t))

-----------------------------------------------------------------------------
\* Types of the variables above.
TypeOK ==
  /\ now \in 0 .. MAX_TIME /\ physical_c3 \in 0 .. WORD - 1 /\ physical_m3 \in BOOLEAN
  /\ created \subseteq VM /\ current \in VM \cup {NoVM}
  /\ at \in {"guest", "access", "hv"}
  /\ last_physical_count \in [VM -> Count] /\ offset \in [VM -> Count]
  /\ cs \in [VM -> SUBSET Timer] /\ c_64 \in [VM -> [Timer -> Count]]

\* What a VM's clock shows: it stands still while the VM does not run.
Clock(t) ==
  IF at = "guest" /\ current = t THEN TO_VIRTUAL_COUNT(t, now)
  ELSE TO_VIRTUAL_COUNT(t, last_physical_count[t])

\* Each VM has a clock of its own that stands still while it does not run, its
\* compares are set to times to come, and those whose time is past when the VM
\* is entered are pending: for any switching, with counts that never tear
\* (bcm2837.c:352-388, 439-502).
Virtual == INSTANCE VirtualTimer WITH
  clock <- [t \in VM |-> Clock(t)], deadline <- c_64, pending <- cs,
  started <- created
IsVirtualTimer == Virtual!Spec

\* Although the physical compare may be written too late, and stands for every
\* VM, a compare that a VM's clock has passed gets its status bit, unless the
\* guest writes it anew first (bcm2837.c:439-495).
DeadlineDelivered ==
  \A t \in VM, i \in Timer :
    (t \in created /\ c_64[t][i] <= Clock(t)) ~> (i \in cs[t] \/ c_64[t][i] > Clock(t))

-----------------------------------------------------------------------------
\* What a comment says and the code does not do; refuted by a run.

\* timer.c:48-52 "we have to repeat it if high word changed during read": a
\* count is read as it was at some moment, so none lies in the future.
CountIsPast == \A t \in VM : last_physical_count[t] <= now
=============================================================================
