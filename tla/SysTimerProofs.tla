---------------------------- MODULE SysTimerProofs ----------------------------
(***************************************************************************)
(* The system timer of the VMs, for every number of VMs and compares, any  *)
(* width of the counter's words and any length of a step: its state has    *)
(* its types, and the offsets and compares that the hypervisor keeps make  *)
(* the timer that VirtualTimer promises to each VM.                        *)
(*                                                                         *)
(* The second holds under what the code relies on: a count that is not     *)
(* read while its low word wraps (TEARS = FALSE; the run systimer_torn     *)
(* shows what happens otherwise) and a machine that is switched off before *)
(* the high word of its clock has its last value (some 584000 years).      *)
(***************************************************************************)
EXTENDS SysTimer, FiniteSetTheorems, TLAPS

\* A clock before its last high word.
ClockIsYoung == MAX_TIME < WORD * (HIGH - 1)

-----------------------------------------------------------------------------
\* Arithmetic of words.

LEMMA Widths ==
  /\ WORD \in Nat /\ WORD > 0 /\ HIGH \in Nat /\ HIGH > 0 /\ STEP \in Nat
  /\ WORD * HIGH \in Nat /\ WORD * HIGH > 0
  /\ MAX_TIME \in Nat /\ MAX_TIME < WORD * HIGH
BY SysTimerAssumption

LEMMA Words ==
  ASSUME NEW n \in Int
  PROVE  /\ n \div WORD \in Int /\ n % WORD \in 0 .. WORD - 1
         /\ n = WORD * (n \div WORD) + (n % WORD)
BY Widths

LEMMA Wraps ==
  ASSUME NEW n \in Int
  PROVE  /\ n % (WORD * HIGH) \in Count
         /\ n \in Count => n % (WORD * HIGH) = n
BY Widths DEF Count

LEMMA TimesMonotone ==
  ASSUME NEW x \in Int, NEW y \in Int, x <= y
  PROVE  WORD * x <= WORD * y
BY Widths

\* The high word of a count before a whole number of words.
LEMMA HighWord ==
  ASSUME NEW n \in Nat, NEW k \in Int, n < WORD * k
  PROVE  n \div WORD \in 0 .. k - 1
<1>1. n \div WORD \in Int /\ n % WORD \in 0 .. WORD - 1 /\ n = WORD * (n \div WORD) + (n % WORD)
  BY Words
<1>2. ~(n \div WORD >= k)
  <2>1. SUFFICES ASSUME n \div WORD >= k PROVE FALSE
    OBVIOUS
  <2>2. WORD * k <= WORD * (n \div WORD)
    BY <1>1, <2>1, TimesMonotone
  <2> QED
    BY <1>1, <2>2, Widths
<1>3. n \div WORD >= 0
  BY Widths
<1> QED
  BY <1>1, <1>2, <1>3

\* The multiple of a word below a larger count is not smaller.
LEMMA HighWordMonotone ==
  ASSUME NEW m \in Nat, NEW n \in Nat, m <= n
  PROVE  m \div WORD <= n \div WORD
<1>1. m \div WORD \in Int /\ m % WORD \in 0 .. WORD - 1 /\ m = WORD * (m \div WORD) + (m % WORD)
  BY Words
<1>2. n \div WORD \in Int /\ n % WORD \in 0 .. WORD - 1 /\ n = WORD * (n \div WORD) + (n % WORD)
  BY Words
<1>3. SUFFICES ASSUME n \div WORD + 1 <= m \div WORD PROVE FALSE
  BY <1>1, <1>2
<1>4. WORD * (n \div WORD + 1) <= WORD * (m \div WORD)
  BY <1>1, <1>2, <1>3, TimesMonotone
<1>5. WORD * (n \div WORD + 1) = WORD * (n \div WORD) + WORD
  BY <1>2, Widths
<1> QED
  BY <1>1, <1>2, <1>4, <1>5, Widths

\* A set of numbers that is not empty has a least one, so CHOOSE finds it.
LEMMA LeastElement ==
  ASSUME NEW S \in SUBSET Nat, S # {}
  PROVE  \E m \in S : \A k \in S : m <= k
<1> DEFINE Below(n) == 1 .. n
           T == {Below(n) : n \in S}
<1>1. IsWellFoundedOn(StrictSubsetOrdering(Nat), FiniteSubsetsOf(Nat))
  BY FS_StrictSubsetOrderingWellFounded
<1>2. \A n \in Nat : Below(n) \in FiniteSubsetsOf(Nat)
  BY FS_Interval DEF FiniteSubsetsOf
<1>3. T \subseteq FiniteSubsetsOf(Nat) /\ T # {}
  BY <1>2
<1>4. PICK x \in T : \A y \in T : <<y, x>> \notin StrictSubsetOrdering(Nat)
  <2> HIDE DEF T
  <2> QED
    BY <1>1, <1>3, WFMin
<1>5. PICK m \in S : x = Below(m)
  BY <1>4
<1>6. ASSUME NEW k \in S, k < m
      PROVE  FALSE
  <2>1. Below(k) \subseteq Below(m) /\ m \in Below(m) /\ m \notin Below(k)
    BY <1>6
  <2>2. <<Below(k), Below(m)>> \in StrictSubsetOrdering(Nat)
    BY <2>1, <1>2 DEF StrictSubsetOrdering, FiniteSubsetsOf
  <2> QED
    BY <2>2, <1>4, <1>5
<1> QED
  BY <1>6

LEMMA NearestIsNat ==
  ASSUME NEW s \in SUBSET Nat, s # {}
  PROVE  Nearest(s) \in s
BY LeastElement DEF Nearest

\* What a read of the counter returns; a read that does not tear returns the
\* time at some moment of it.
LEMMA CountRead ==
  ASSUME NEW from \in Nat, NEW end \in from .. MAX_TIME,
         NEW count \in get_physical_timer_count(from, end)
  PROVE  /\ count \in Count
         /\ ~TEARS => count \in from .. end
<1>1. PICK x \in from .. end, y \in from .. end :
        /\ x <= y /\ (TEARS \/ x \div WORD = y \div WORD)
        /\ count = (x % WORD) + (y \div WORD) * WORD
  BY DEF get_physical_timer_count
<1>2. x \in Nat /\ y \in Nat /\ y < WORD * HIGH
  BY <1>1, Widths
<1>3. x \div WORD \in Int /\ x % WORD \in 0 .. WORD - 1 /\ x = WORD * (x \div WORD) + (x % WORD)
  BY <1>2, Words
<1>4. y \div WORD \in 0 .. HIGH - 1
  BY <1>2, HighWord, Widths
<1>5. WORD * (y \div WORD) <= WORD * (HIGH - 1)
  BY <1>4, Widths, TimesMonotone
<1>6. WORD * (HIGH - 1) = WORD * HIGH - WORD
  BY Widths
<1>7. (y \div WORD) * WORD = WORD * (y \div WORD) /\ WORD * (y \div WORD) \in Nat
  BY <1>4, Widths
<1>8. count \in Count
  BY <1>1, <1>3, <1>5, <1>6, <1>7, Widths DEF Count
<1>9. ~TEARS => count = x
  BY <1>1, <1>3, <1>7, Widths
<1> QED
  BY <1>1, <1>8, <1>9

-----------------------------------------------------------------------------
\* Type correctness.

LEMMA InitTypes == Init => TypeOK
<1>1. 0 \in Count /\ 0 \in 0 .. MAX_TIME /\ 0 \in 0 .. WORD - 1
  BY Widths DEF Count
<1>2. ASSUME Init
      PROVE  /\ last_physical_count \in [VM -> Count] /\ offset \in [VM -> Count]
             /\ cs \in [VM -> SUBSET Timer] /\ c_64 \in [VM -> [Timer -> Count]]
  BY <1>1, <1>2 DEF Init
<1> QED
  BY <1>1, <1>2 DEF Init, TypeOK

\* A step leaves the clock in range and after where it was.
LEMMA Passing ==
  ASSUME TypeOK, NEW end, Passes(end)
  PROVE  /\ now \in Nat /\ end \in now .. MAX_TIME /\ end <= now + STEP /\ now' = end
         /\ now' \in 0 .. MAX_TIME /\ physical_m3' \in BOOLEAN
BY Widths DEF TypeOK, Passes

\* A virtual count, and a compare's 64-bit value, are counts again.
LEMMA CompareTypes ==
  ASSUME TypeOK, NEW t \in VM, NEW val \in 0 .. WORD - 1,
         NEW first \in Count, NEW second \in Count
  PROVE  /\ TO_VIRTUAL_COUNT(t, first) \in Count
         /\ calc_stc_64(t, val, first, second) \in Count
<1>1. \A n \in Count : TO_VIRTUAL_COUNT(t, n) \in Count
  BY Wraps DEF TypeOK, TO_VIRTUAL_COUNT, Minus, Count
<1> DEFINE base == (TO_VIRTUAL_COUNT(t, second) \div WORD) * WORD
<1>2. base \in Int /\ base + val \in Int /\ base + val + WORD \in Int
  <2>1. TO_VIRTUAL_COUNT(t, second) \div WORD \in Int
    BY <1>1, Words DEF Count
  <2> QED
    BY <2>1, Widths
<1>3. Plus(base, val) \in Count /\ Plus(base, val + WORD) \in Count
  BY <1>2, Wraps, Widths DEF Plus
<1> QED
  BY <1>1, <1>3 DEF calc_stc_64

\* What entering a VM reads and computes: the offset, and the time the compares
\* are looked at.
Moved(t, count) == Plus(offset[t], Minus(count, last_physical_count[t]))

EnterSets(t, c, first, count) ==
  LET cvt == Minus(count, Moved(t, first))
  IN  /\ offset' = [offset EXCEPT ![t] = Moved(t, first)]
      /\ cs' = [cs EXCEPT ![t] = @ \cup {i \in Timer : check_expiration(c_64[t][i], cvt)}]
      /\ physical_c3' = IF Upcoming(t, cvt) = {} THEN physical_c3
                        ELSE (c + Nearest(Upcoming(t, cvt))) % WORD
EnterReads(t, a, b, c, end) ==
  /\ Passes(end)
  /\ \E first \in get_physical_timer_count(now, a), count \in get_physical_timer_count(a, b) :
       EnterSets(t, c, first, count)

LEMMA Entering ==
  ASSUME TypeOK, NEW t \in VM, Enter(t)
  PROVE  \E a \in Nat, b \in Nat, c \in Nat, end \in Nat, first \in Count, count \in Count :
           /\ now <= a /\ a <= b /\ b <= c /\ c <= end /\ end <= now + STEP /\ end <= MAX_TIME
           /\ Passes(end)
           /\ first \in get_physical_timer_count(now, a)
           /\ count \in get_physical_timer_count(a, b)
           /\ EnterSets(t, c, first, count)
<1>1. PICK a \in now .. now + STEP : \E b \in a .. now + STEP : \E c \in b .. now + STEP :
        \E end \in c .. now + STEP : EnterReads(t, a, b, c, end)
  BY DEF Enter, EnterReads, EnterSets, Moved
<1>2. PICK b \in a .. now + STEP : \E c \in b .. now + STEP :
        \E end \in c .. now + STEP : EnterReads(t, a, b, c, end)
  BY <1>1
<1>3. PICK c \in b .. now + STEP : \E end \in c .. now + STEP : EnterReads(t, a, b, c, end)
  BY <1>2
<1>4. PICK end \in c .. now + STEP : EnterReads(t, a, b, c, end)
  BY <1>3
<1>5. /\ now \in Nat /\ a \in Nat /\ b \in Nat /\ c \in Nat /\ end \in Nat
      /\ now <= a /\ a <= b /\ b <= c /\ c <= end /\ end <= now + STEP /\ end <= MAX_TIME
  BY <1>4, Widths, Passing DEF EnterReads
<1>6. PICK first \in get_physical_timer_count(now, a), count \in get_physical_timer_count(a, b) :
        EnterSets(t, c, first, count)
  BY <1>4 DEF EnterReads
<1>7. first \in Count /\ count \in Count
  BY <1>5, <1>6, CountRead, Widths
<1>8. Passes(end)
  BY <1>4 DEF EnterReads
<1> QED
  BY <1>5, <1>6, <1>7, <1>8

LEMMA NextTypes == TypeOK /\ [Next]_vars => TypeOK'
<1> SUFFICES ASSUME TypeOK, [Next]_vars
             PROVE  TypeOK'
  OBVIOUS
<1> USE Widths DEF TypeOK
<1>1. CASE Run \/ HvRuns
  BY <1>1, Passing DEF Run, HvRuns, state
<1>2. CASE HandleTimer3
  BY <1>2 DEF HandleTimer3, state
<1>3. ASSUME NEW reason \in {"access", "hv"}, Leave(reason)
      PROVE  TypeOK'
  <2>1. PICK end \in now .. now + STEP :
          /\ Passes(end)
          /\ \E count \in get_physical_timer_count(now, end) :
               last_physical_count' = [last_physical_count EXCEPT ![current] = count]
    BY <1>3 DEF Leave
  <2>2. last_physical_count' \in [VM -> Count]
    BY <2>1, Passing, CountRead
  <2> QED
    BY <1>3, <2>1, <2>2, Passing DEF Leave
<1>4. ASSUME NEW i \in Timer, NEW val \in 0 .. WORD - 1, WriteCompare(i, val)
      PROVE  TypeOK'
  <2>1. PICK middle \in now .. now + STEP : \E end \in middle .. now + STEP :
          /\ Passes(end)
          /\ \E first \in get_physical_timer_count(now, middle),
                second \in get_physical_timer_count(middle, end) :
               c_64' = [c_64 EXCEPT ![current][i] = calc_stc_64(current, val, first, second)]
    BY <1>4 DEF WriteCompare
  <2>2. PICK end \in middle .. now + STEP :
          /\ Passes(end)
          /\ \E first \in get_physical_timer_count(now, middle),
                second \in get_physical_timer_count(middle, end) :
               c_64' = [c_64 EXCEPT ![current][i] = calc_stc_64(current, val, first, second)]
    BY <2>1
  <2>3. now \in Nat /\ middle \in now .. MAX_TIME /\ end \in middle .. MAX_TIME /\ middle \in Nat
    BY <2>2, Passing
  <2>4. c_64' \in [VM -> [Timer -> Count]]
    <3>1. PICK first \in get_physical_timer_count(now, middle),
               second \in get_physical_timer_count(middle, end) :
            c_64' = [c_64 EXCEPT ![current][i] = calc_stc_64(current, val, first, second)]
      BY <2>2
    <3>2. CASE current \in VM
      <4>1. first \in Count /\ second \in Count
        BY <2>3, <3>1, CountRead
      <4>2. calc_stc_64(current, val, first, second) \in Count
        BY <3>2, <4>1, CompareTypes
      <4> QED
        BY <3>1, <4>2
    <3>3. CASE current \notin VM
      BY <3>1, <3>3
    <3> QED
      BY <3>2, <3>3
  <2> QED
    BY <1>4, <2>2, <2>4, Passing DEF WriteCompare
<1>5. ASSUME NEW val \in SUBSET Timer, WriteCs(val)
      PROVE  TypeOK'
  BY <1>5, Passing DEF WriteCs
<1>6. ASSUME NEW t \in VM, Create(t)
      PROVE  TypeOK'
  <2>1. PICK end \in now .. now + STEP :
          /\ Passes(end)
          /\ \E count \in get_physical_timer_count(now, end) :
               last_physical_count' = [last_physical_count EXCEPT ![t] = count]
    BY <1>6 DEF Create
  <2>2. last_physical_count' \in [VM -> Count]
    BY <2>1, Passing, CountRead
  <2> QED
    BY <1>6, <2>1, <2>2, Passing DEF Create
<1>7. ASSUME NEW t \in VM, Enter(t)
      PROVE  TypeOK'
  <2>1. PICK c \in Nat, end \in Nat, first \in Count, count \in Count :
          Passes(end) /\ EnterSets(t, c, first, count)
    BY <1>7, Entering
  <2>2. offset' \in [VM -> Count]
    <3>1. Minus(first, last_physical_count[t]) \in Count
      BY Wraps DEF Minus, Count
    <3>2. Moved(t, first) \in Count
      BY <3>1, Wraps DEF Moved, Plus, Count
    <3> QED
      BY <2>1, <3>2 DEF EnterSets
  <2>3. cs' \in [VM -> SUBSET Timer]
    BY <2>1 DEF EnterSets
  <2>4. physical_c3' \in 0 .. WORD - 1
    <3> DEFINE upcoming == Upcoming(t, Minus(count, Moved(t, first)))
    <3>1. upcoming \subseteq Nat
      BY DEF Upcoming
    <3> HIDE DEF upcoming
    <3>2. upcoming # {} => Nearest(upcoming) \in Nat
      BY <3>1, NearestIsNat
    <3>3. physical_c3' = IF upcoming = {} THEN physical_c3
                         ELSE (c + Nearest(upcoming)) % WORD
      BY <2>1 DEF upcoming, EnterSets
    <3>4. \A n \in Nat : (c + n) % WORD \in 0 .. WORD - 1
      BY Words
    <3> QED
      BY <3>2, <3>3, <3>4
  <2> QED
    BY <1>7, <2>1, <2>2, <2>3, <2>4, Passing DEF Enter
<1>8. CASE UNCHANGED vars
  BY <1>8 DEF vars, hardware, state
<1> QED
  BY <1>1, <1>2, <1>3, <1>4, <1>5, <1>6, <1>7, <1>8 DEF Next

\* Every variable of the timer keeps its type, for any number of VMs and
\* compares, any width of the words and whether or not counts tear
\* (bcm2837.c:352-502).
THEOREM TypeCorrect == Spec => []TypeOK
<1> QED
  BY InitTypes, NextTypes, PTL DEF Spec

-----------------------------------------------------------------------------
\* The invariant: a VM was last left in the past, and its offset, the time it
\* did not run, is no more than the time that passed until then.  While it runs
\* its offset is only bounded by the present: bcm2837_entering_vm() has moved it
\* beyond last_physical_count.

Running(t) == at = "guest" /\ current = t

TimesInOrder ==
  /\ at # "hv" => current \in created
  /\ \A t \in created :
       /\ last_physical_count[t] <= now
       /\ offset[t] <= IF Running(t) THEN now ELSE last_physical_count[t]
  /\ \A t \in VM \ created : offset[t] = 0 /\ last_physical_count[t] = 0

\* So no difference wraps, and what a VM sees is one of them.
ClocksAreDifferences ==
  \A t \in VM :
    /\ Clock(t) \in Nat
    /\ Running(t) => Clock(t) = now - offset[t]
    /\ ~Running(t) => Clock(t) = last_physical_count[t] - offset[t]

LEMMA ClockIs == TypeOK /\ TimesInOrder => ClocksAreDifferences
<1> SUFFICES ASSUME TypeOK, TimesInOrder, NEW t \in VM
             PROVE  /\ Clock(t) \in Nat
                    /\ Running(t) => Clock(t) = now - offset[t]
                    /\ ~Running(t) => Clock(t) = last_physical_count[t] - offset[t]
  BY DEF ClocksAreDifferences
<1>1. /\ now \in Count /\ offset[t] \in Nat /\ last_physical_count[t] \in Count
      /\ offset[t] <= IF Running(t) THEN now ELSE last_physical_count[t]
  BY Widths DEF TypeOK, TimesInOrder, Running, Count
<1>2. CASE Running(t)
  <2>1. now - offset[t] \in Count
    BY <1>1, <1>2, Widths DEF Count
  <2>2. Minus(now, offset[t]) = now - offset[t]
    BY <2>1, Wraps DEF Minus, Count
  <2> QED
    BY <1>2, <2>1, <2>2 DEF Clock, Running, TO_VIRTUAL_COUNT, Count
<1>3. CASE ~Running(t)
  <2>1. last_physical_count[t] - offset[t] \in Count
    BY <1>1, <1>3, Widths DEF Count
  <2>2. Minus(last_physical_count[t], offset[t]) = last_physical_count[t] - offset[t]
    BY <2>1, Wraps DEF Minus, Count
  <2> QED
    BY <1>3, <2>1, <2>2 DEF Clock, Running, TO_VIRTUAL_COUNT, Count
<1> QED
  BY <1>2, <1>3

\* What entering a VM does to its offset when counts do not tear.
LEMMA Entered ==
  ASSUME TypeOK, TimesInOrder, ~TEARS, NEW t \in VM, Enter(t)
  PROVE  \E c \in Nat, first \in Nat, count \in Nat :
           /\ now <= first /\ first <= count /\ count <= now'
           /\ now' <= now + STEP /\ now' \in Nat
           /\ EnterSets(t, c, first, count)
           /\ Moved(t, first) = offset[t] + (first - last_physical_count[t])
           /\ Minus(count, Moved(t, first)) = count - Moved(t, first)
           /\ Moved(t, first) \in Nat /\ Moved(t, first) <= first
<1>1. PICK a \in Nat, b \in Nat, c \in Nat, end \in Nat, first \in Count, count \in Count :
        /\ now <= a /\ a <= b /\ b <= c /\ c <= end /\ end <= now + STEP /\ end <= MAX_TIME
        /\ Passes(end)
        /\ first \in get_physical_timer_count(now, a)
        /\ count \in get_physical_timer_count(a, b)
        /\ EnterSets(t, c, first, count)
  BY Entering
<1>2. now \in Nat /\ a \in now .. MAX_TIME /\ b \in a .. MAX_TIME /\ now' = end
  BY <1>1, Widths, Passing
<1>3. first \in now .. a /\ count \in a .. b
  BY <1>1, <1>2, CountRead
<1>4. t \in created /\ ~Running(t)
  BY DEF Enter, Running
<1>5. /\ offset[t] \in Nat /\ last_physical_count[t] \in Nat
      /\ offset[t] <= last_physical_count[t] /\ last_physical_count[t] <= now
  BY <1>4 DEF TypeOK, TimesInOrder, Count
<1>6. Minus(first, last_physical_count[t]) = first - last_physical_count[t]
  <2>1. first - last_physical_count[t] \in Count
    BY <1>2, <1>3, <1>5, Widths DEF Count
  <2> QED
    BY <2>1, Wraps DEF Minus, Count
<1>7. Moved(t, first) = offset[t] + (first - last_physical_count[t])
  <2>1. offset[t] + (first - last_physical_count[t]) \in Count
    BY <1>2, <1>3, <1>5, Widths DEF Count
  <2> QED
    BY <1>6, <2>1, Wraps DEF Moved, Plus, Count
<1>8. Moved(t, first) \in Nat /\ Moved(t, first) <= first
  BY <1>3, <1>2, <1>5, <1>7
<1>9. Minus(count, Moved(t, first)) = count - Moved(t, first)
  <2>1. count - Moved(t, first) \in Count
    BY <1>1, <1>2, <1>3, <1>8, Widths DEF Count
  <2> QED
    BY <2>1, Wraps DEF Minus, Count
<1>10. /\ first \in Nat /\ count \in Nat /\ now <= first /\ first <= count /\ count <= now'
       /\ now' <= now + STEP /\ now' \in Nat
  BY <1>1, <1>2, <1>3
<1> QED
  BY <1>1, <1>7, <1>8, <1>9, <1>10

LEMMA InitInOrder == Init => TimesInOrder
BY DEF Init, TimesInOrder

\* What a count is that is read from now to the end of a step.
LEMMA LastCount ==
  ASSUME TypeOK, ~TEARS, NEW end, Passes(end), NEW count \in get_physical_timer_count(now, end)
  PROVE  count \in Nat /\ now <= count /\ count <= now' /\ now' = end /\ end <= now + STEP
BY Passing, CountRead

LEMMA NextInOrder ==
  ASSUME TypeOK, TimesInOrder, ~TEARS, [Next]_vars
  PROVE  TimesInOrder'
<1> USE DEF TypeOK, TimesInOrder, Running
<1>1. CASE Run \/ HvRuns
  <2>1. now \in Nat /\ now' \in Nat /\ now <= now'
    BY <1>1, Passing DEF Run, HvRuns
  <2>2. \A t \in VM : offset[t] \in Nat /\ last_physical_count[t] \in Nat
    BY DEF Count
  <2> QED
    BY <1>1, <2>1, <2>2 DEF Run, HvRuns, state
<1>2. CASE HandleTimer3
  BY <1>2 DEF HandleTimer3, state
<1>3. ASSUME NEW reason \in {"access", "hv"}, Leave(reason)
      PROVE  TimesInOrder'
  <2>1. PICK end, count :
          /\ Passes(end) /\ count \in get_physical_timer_count(now, end)
          /\ last_physical_count' = [last_physical_count EXCEPT ![current] = count]
    BY <1>3 DEF Leave
  <2>2. count \in Nat /\ now <= count /\ count <= now'
    BY <2>1, LastCount
  <2>3. now \in Nat /\ now' \in Nat
    BY <2>1, Passing
  <2>4. \A t \in VM : offset[t] \in Nat /\ last_physical_count[t] \in Nat
    BY DEF Count
  <2> QED
    BY <1>3, <2>1, <2>2, <2>3, <2>4 DEF Leave
<1>4. ASSUME NEW i \in Timer, NEW val \in 0 .. WORD - 1, WriteCompare(i, val)
      PROVE  TimesInOrder'
  <2>1. now \in Nat /\ now' \in Nat /\ now <= now'
    BY <1>4, Passing DEF WriteCompare
  <2>2. \A t \in VM : offset[t] \in Nat /\ last_physical_count[t] \in Nat
    BY DEF Count
  <2> QED
    BY <1>4, <2>1, <2>2 DEF WriteCompare
<1>5. ASSUME NEW val \in SUBSET Timer, WriteCs(val)
      PROVE  TimesInOrder'
  <2>1. now \in Nat /\ now' \in Nat /\ now <= now'
    BY <1>5, Passing DEF WriteCs
  <2>2. \A t \in VM : offset[t] \in Nat /\ last_physical_count[t] \in Nat
    BY DEF Count
  <2> QED
    BY <1>5, <2>1, <2>2 DEF WriteCs
<1>6. ASSUME NEW t \in VM, Create(t)
      PROVE  TimesInOrder'
  <2>1. PICK end, count :
          /\ Passes(end) /\ count \in get_physical_timer_count(now, end)
          /\ last_physical_count' = [last_physical_count EXCEPT ![t] = count]
    BY <1>6 DEF Create
  <2>2. count \in Nat /\ now <= count /\ count <= now'
    BY <2>1, LastCount
  <2>3. now \in Nat /\ now' \in Nat
    BY <2>1, Passing
  <2>4. \A u \in VM : offset[u] \in Nat /\ last_physical_count[u] \in Nat
    BY DEF Count
  <2> QED
    BY <1>6, <2>1, <2>2, <2>3, <2>4 DEF Create
<1>7. ASSUME NEW t \in VM, Enter(t)
      PROVE  TimesInOrder'
  <2>1. PICK c \in Nat, first \in Nat, count \in Nat :
          /\ now <= first /\ first <= count /\ count <= now' /\ now' \in Nat
          /\ EnterSets(t, c, first, count)
          /\ Moved(t, first) \in Nat /\ Moved(t, first) <= first
    BY <1>7, Entered
  <2>2. offset' = [offset EXCEPT ![t] = Moved(t, first)]
    BY <2>1 DEF EnterSets
  <2>3. \A u \in VM : offset[u] \in Nat /\ last_physical_count[u] \in Nat
    BY DEF Count
  <2> QED
    BY <1>7, <2>1, <2>2, <2>3 DEF Enter
<1>8. CASE UNCHANGED vars
  BY <1>8 DEF vars, hardware, state
<1> QED
  BY <1>1, <1>2, <1>3, <1>4, <1>5, <1>6, <1>7, <1>8 DEF Next

-----------------------------------------------------------------------------
\* The refinement, step by step.

Clocks == [t \in VM |-> Clock(t)]

LEMMA ClockIsThen == TypeOK' /\ TimesInOrder' => ClocksAreDifferences'
BY ClockIs, PTL

\* The clock of a VM that does not run stands.
LEMMA ClockStands ==
  ASSUME ClocksAreDifferences, ClocksAreDifferences', NEW t \in VM,
         offset'[t] = offset[t], last_physical_count'[t] = last_physical_count[t],
         ~Running(t), ~Running(t)'
  PROVE  Clock(t)' = Clock(t)
BY DEF ClocksAreDifferences

\* One clock runs on, the others stand.
LEMMA OneRuns ==
  ASSUME NEW t \in VM, \A u \in VM \ {t} : Clock(u)' = Clock(u),
         Clock(t)' \in Clock(t) .. Clock(t) + STEP
  PROVE  Virtual!Runs(t)
BY DEF Virtual!Runs

\* While no time passes for a VM that runs, nothing is seen of the step.
LEMMA NoneRuns ==
  ASSUME \A u \in VM : Clock(u)' = Clock(u), UNCHANGED <<created, c_64, cs>>
  PROVE  UNCHANGED <<created, Clocks, c_64, cs>>
BY DEF Clocks

\* A compare that is written is after what the counts read for it: the low word
\* is compared with the first, the high word is of the second (bcm2837.c:352-388).
LEMMA CompareAhead ==
  ASSUME TypeOK, ClockIsYoung, NEW t \in VM, NEW val \in 0 .. WORD - 1,
         NEW first \in Nat, NEW second \in Nat, first <= second, second <= MAX_TIME,
         offset[t] <= first
  PROVE  calc_stc_64(t, val, first, second) > first - offset[t]
<1> DEFINE x == first - offset[t]
           y == second - offset[t]
           base == (y \div WORD) * WORD
<1>1. offset[t] \in Nat /\ x \in Nat /\ y \in Nat /\ x <= y /\ y <= MAX_TIME
  BY Widths DEF TypeOK, Count
<1>2. TO_VIRTUAL_COUNT(t, first) = x /\ TO_VIRTUAL_COUNT(t, second) = y
  <2>1. x \in Count /\ y \in Count
    BY <1>1, Widths DEF Count
  <2> QED
    BY <2>1, Wraps DEF TO_VIRTUAL_COUNT, Minus, Count
<1>3. x \div WORD \in Int /\ x % WORD \in 0 .. WORD - 1 /\ x = WORD * (x \div WORD) + (x % WORD)
  BY <1>1, Words
<1>4. y \div WORD \in 0 .. HIGH - 2
  <2>1. y < WORD * (HIGH - 1)
    BY <1>1, Widths DEF ClockIsYoung
  <2> QED
    BY <1>1, <2>1, HighWord, Widths
<1>5. WORD * (x \div WORD) <= WORD * (y \div WORD)
  BY <1>1, <1>3, <1>4, HighWordMonotone, TimesMonotone
<1>6. WORD * (y \div WORD) <= WORD * HIGH - 2 * WORD
  <2>1. WORD * (y \div WORD) <= WORD * (HIGH - 2)
    BY <1>4, Widths, TimesMonotone
  <2>2. WORD * (HIGH - 2) = WORD * HIGH - 2 * WORD
    BY Widths
  <2> QED
    BY <2>1, <2>2, <1>4, Widths
<1>7. base = WORD * (y \div WORD) /\ base \in Nat
  BY <1>4, Widths
<1>8. base + val \in Count /\ base + (val + WORD) \in Count
  BY <1>6, <1>7, Widths DEF Count
<1> HIDE DEF base
<1>9. Plus(base, val) = base + val /\ Plus(base, val + WORD) = base + (val + WORD)
  BY <1>8, Wraps DEF Plus, Count
<1>10. calc_stc_64(t, val, first, second) =
         IF val > x % WORD THEN base + val ELSE base + (val + WORD)
  BY <1>2, <1>9 DEF calc_stc_64, base
<1> QED
  BY <1>1, <1>3, <1>5, <1>7, <1>10, Widths

LEMMA InitRefines == Init => Virtual!Init
<1> SUFFICES ASSUME Init
             PROVE  Virtual!Init
  OBVIOUS
<1>1. TypeOK /\ TimesInOrder
  BY InitTypes, InitInOrder
<1>2. ASSUME NEW t \in VM
      PROVE  Clock(t) = 0
  <2>1. ~Running(t) /\ last_physical_count[t] = 0 /\ offset[t] = 0
    BY DEF Init, Running
  <2>2. Clock(t) = last_physical_count[t] - offset[t]
    BY <1>1, <2>1, ClockIs DEF ClocksAreDifferences
  <2> QED
    BY <2>1, <2>2
<1> QED
  BY <1>2 DEF Init, Virtual!Init

LEMMA StepRefines ==
  ASSUME TypeOK, TimesInOrder, TypeOK', TimesInOrder', ~TEARS, ClockIsYoung, [Next]_vars
  PROVE  Virtual!Next \/ UNCHANGED <<created, Clocks, c_64, cs>>
<1> DEFINE Goal == Virtual!Next \/ UNCHANGED <<created, Clocks, c_64, cs>>
<1>a. ClocksAreDifferences /\ ClocksAreDifferences'
  BY ClockIs, ClockIsThen
<1>b. now \in Nat /\ \A t \in VM : /\ offset[t] \in Nat /\ last_physical_count[t] \in Nat
                                   /\ Clock(t) \in Nat
  BY <1>a DEF TypeOK, Count, ClocksAreDifferences
<1>1. CASE Run
  <2>1. current \in VM /\ Running(current) /\ Running(current)'
    BY <1>1 DEF Run, TimesInOrder, TypeOK, Running
  <2>2. now' \in now .. now + STEP
    BY <1>1, Passing DEF Run
  <2>3. \A u \in VM \ {current} : Clock(u)' = Clock(u)
    BY <1>1, <1>a, ClockStands DEF Run, state, Running
  <2>4. Clock(current)' \in Clock(current) .. Clock(current) + STEP
    BY <1>1, <1>a, <1>b, <2>1, <2>2, Widths DEF Run, state, ClocksAreDifferences
  <2>5. Virtual!Run(current)
    BY <1>1, <2>1, <2>3, <2>4, OneRuns DEF Run, state, Virtual!Run
  <2> QED
    BY <2>1, <2>5 DEF Virtual!Next
<1>2. CASE HvRuns \/ HandleTimer3
  <2>1. \A u \in VM : Clock(u)' = Clock(u)
    BY <1>2, <1>a, ClockStands DEF HvRuns, HandleTimer3, state, Running
  <2> QED
    BY <1>2, <2>1, NoneRuns DEF HvRuns, HandleTimer3, state
<1>3. ASSUME NEW reason \in {"access", "hv"}, Leave(reason)
      PROVE  Goal
  <2>1. PICK end, count :
          /\ Passes(end) /\ count \in get_physical_timer_count(now, end)
          /\ last_physical_count' = [last_physical_count EXCEPT ![current] = count]
    BY <1>3 DEF Leave
  <2>2. count \in Nat /\ now <= count /\ count <= now + STEP
    <3>1. count \in Nat /\ now <= count /\ count <= now' /\ now' <= now + STEP /\ now' \in Nat
      BY <2>1, LastCount, Passing
    <3> QED
      BY <3>1, <1>b, Widths
  <2>3. current \in VM /\ current' = current /\ Running(current) /\ ~Running(current)'
    BY <1>3 DEF Leave, TimesInOrder, TypeOK, Running
  <2>4. \A u \in VM \ {current} : Clock(u)' = Clock(u)
    BY <1>3, <1>a, <2>1, ClockStands DEF Leave, Running, TypeOK
  <2>5. last_physical_count'[current] = count /\ offset'[current] = offset[current]
    BY <1>3, <2>1, <2>3 DEF Leave, TypeOK
  <2>6. Clock(current)' = count - offset[current] /\ Clock(current) = now - offset[current]
    BY <1>a, <2>3, <2>5 DEF ClocksAreDifferences
  <2>7. Clock(current)' \in Clock(current) .. Clock(current) + STEP
    BY <1>b, <2>2, <2>3, <2>6, Widths
  <2>8. Virtual!Run(current)
    BY <1>3, <2>3, <2>4, <2>7, OneRuns DEF Leave, Virtual!Run
  <2> QED
    BY <2>3, <2>8 DEF Virtual!Next
<1>4. ASSUME NEW i \in Timer, NEW val \in 0 .. WORD - 1, WriteCompare(i, val)
      PROVE  Goal
  <2>1. PICK middle \in now .. now + STEP : \E end \in middle .. now + STEP :
          /\ Passes(end)
          /\ \E first \in get_physical_timer_count(now, middle),
                second \in get_physical_timer_count(middle, end) :
               c_64' = [c_64 EXCEPT ![current][i] = calc_stc_64(current, val, first, second)]
    BY <1>4 DEF WriteCompare
  <2>2. PICK end \in middle .. now + STEP :
          /\ Passes(end)
          /\ \E first \in get_physical_timer_count(now, middle),
                second \in get_physical_timer_count(middle, end) :
               c_64' = [c_64 EXCEPT ![current][i] = calc_stc_64(current, val, first, second)]
    BY <2>1
  <2>3. PICK first \in get_physical_timer_count(now, middle),
             second \in get_physical_timer_count(middle, end) :
          c_64' = [c_64 EXCEPT ![current][i] = calc_stc_64(current, val, first, second)]
    BY <2>2
  <2>4. now \in Nat /\ middle \in now .. MAX_TIME /\ end \in middle .. MAX_TIME /\ middle \in Nat
    BY <2>2, Passing, Widths
  <2>5. first \in now .. middle /\ second \in middle .. end
    BY <2>3, <2>4, CountRead
  <2>6. /\ first \in Nat /\ second \in Nat /\ now <= first /\ first <= second
        /\ second <= MAX_TIME
    BY <2>4, <2>5, Widths
  <2>7. /\ current \in VM /\ current \in created /\ ~Running(current)
        /\ offset[current] <= last_physical_count[current]
        /\ last_physical_count[current] <= now
    BY <1>4 DEF WriteCompare, TimesInOrder, TypeOK, Running
  <2> DEFINE time == calc_stc_64(current, val, first, second)
  <2>8. first \in Count /\ second \in Count
    BY <2>6, Widths DEF Count
  <2>9. time \in Count
    BY <2>7, <2>8, CompareTypes
  <2>10. time > first - offset[current]
    BY <1>b, <2>6, <2>7, CompareAhead
  <2>11. Clock(current) = last_physical_count[current] - offset[current]
    BY <1>a, <2>7 DEF ClocksAreDifferences
  <2> HIDE DEF time
  <2>12. time > Clock(current)
    BY <1>b, <2>6, <2>7, <2>9, <2>10, <2>11, Widths DEF Count
  <2>13. \A u \in VM : Clock(u)' = Clock(u)
    BY <1>4, <1>a, ClockStands DEF WriteCompare, Running
  <2>14. c_64' = [c_64 EXCEPT ![current][i] = time]
    BY <2>3 DEF time
  <2>15. Virtual!Write(current, i)
    BY <1>4, <2>7, <2>9, <2>12, <2>13, <2>14 DEF Virtual!Write, WriteCompare
  <2> QED
    BY <2>7, <2>15 DEF Virtual!Next
<1>5. ASSUME NEW val \in SUBSET Timer, WriteCs(val)
      PROVE  Goal
  <2>1. current \in VM
    BY <1>5 DEF WriteCs, TimesInOrder, TypeOK
  <2>2. \A u \in VM : Clock(u)' = Clock(u)
    BY <1>5, <1>a, ClockStands DEF WriteCs, Running
  <2>3. Virtual!Clear(current, val)
    BY <1>5, <2>2 DEF Virtual!Clear, WriteCs
  <2> QED
    BY <2>1, <2>3 DEF Virtual!Next
<1>6. ASSUME NEW t \in VM, Create(t)
      PROVE  Goal
  <2>1. \A u \in VM \ {t} : Clock(u)' = Clock(u)
    BY <1>6, <1>a, ClockStands DEF Create, Running, TypeOK
  <2>2. Clock(t)' \in Count
    <3>1. ~Running(t)' /\ offset'[t] = 0
      BY <1>6 DEF Create, Running, TimesInOrder
    <3>2. last_physical_count'[t] \in Count
      BY DEF TypeOK
    <3> QED
      BY <1>a, <3>1, <3>2 DEF ClocksAreDifferences, Count
  <2>3. Clocks' = [Clocks EXCEPT ![t] = Clock(t)']
    BY <2>1 DEF Clocks
  <2>4. Virtual!Start(t)
    BY <1>6, <2>2, <2>3 DEF Virtual!Start, Create, Clocks
  <2> QED
    BY <2>4 DEF Virtual!Next
<1>7. ASSUME NEW t \in VM, Enter(t)
      PROVE  Goal
  <2>1. PICK c \in Nat, first \in Nat, count \in Nat :
          /\ now <= first /\ first <= count /\ count <= now'
          /\ now' <= now + STEP /\ now' \in Nat
          /\ EnterSets(t, c, first, count)
          /\ Moved(t, first) = offset[t] + (first - last_physical_count[t])
          /\ Minus(count, Moved(t, first)) = count - Moved(t, first)
          /\ Moved(t, first) \in Nat /\ Moved(t, first) <= first
    BY <1>7, Entered
  <2>2. t \in created /\ ~Running(t) /\ Running(t)' /\ offset'[t] = Moved(t, first)
    BY <1>7, <2>1 DEF Enter, EnterSets, Running, TypeOK
  <2>3. \A u \in VM \ {t} : Clock(u)' = Clock(u)
    BY <1>7, <1>a, <2>1, ClockStands DEF Enter, EnterSets, Running, TypeOK
  <2> DEFINE cvt == count - Moved(t, first)
  <2>4. /\ Clock(t)' = now' - Moved(t, first)
        /\ Clock(t) = last_physical_count[t] - offset[t]
    BY <1>a, <2>2 DEF ClocksAreDifferences
  <2>5. Clock(t)' \in Clock(t) .. Clock(t) + STEP /\ cvt \in Clock(t) .. Clock(t)'
    BY <1>b, <2>1, <2>4, Widths
  <2>6. cs' = [cs EXCEPT ![t] = @ \cup {i \in Timer : c_64[t][i] <= cvt}]
    <3>1. \A i \in Timer : check_expiration(c_64[t][i], cvt) <=> c_64[t][i] <= cvt
      BY <2>1 DEF check_expiration, TypeOK, Count
    <3> QED
      BY <2>1, <3>1 DEF EnterSets
  <2>7. Virtual!Enter(t)
    BY <1>7, <2>2, <2>3, <2>5, <2>6, OneRuns DEF Virtual!Enter, Virtual!Runs, Enter
  <2> QED
    BY <2>7 DEF Virtual!Next
<1>8. CASE UNCHANGED vars
  <2>1. \A u \in VM : Clock(u)' = Clock(u)
    BY <1>8 DEF vars, hardware, state, Clock, TO_VIRTUAL_COUNT
  <2> QED
    BY <1>8, <2>1, NoneRuns DEF vars, state
<1> QED
  BY <1>1, <1>2, <1>3, <1>4, <1>5, <1>6, <1>7, <1>8 DEF Next

\* Each VM has a clock of its own that stands still while it does not run, its
\* compares are set to times to come, and those that are due are pending when it
\* is entered: leaving, entering and writing a compare (bcm2837.c:352-502)
\* implement the virtual timer, for any number of VMs, any order of switches and
\* any length of the steps, unless a count tears or the clock is at its end.
THEOREM TimerIsVirtual ==
  ASSUME ~TEARS, ClockIsYoung
  PROVE  Spec => IsVirtualTimer
<1>1. Init => TypeOK /\ TimesInOrder
  BY InitTypes, InitInOrder
<1>2. TypeOK /\ TimesInOrder /\ [Next]_vars => (TypeOK /\ TimesInOrder)'
  BY NextTypes, NextInOrder
<1>3. TypeOK /\ TimesInOrder /\ (TypeOK /\ TimesInOrder)' /\ [Next]_vars
        => [Virtual!Next]_<<created, Clocks, c_64, cs>>
  BY StepRefines
<1> QED
  BY <1>1, <1>2, <1>3, InitRefines, PTL DEF Spec, IsVirtualTimer, Virtual!Spec, Clocks

\* What the comment in timer.c:48-52 is after: were no count torn, none would lie
\* in the future.
THEOREM UntornCountsArePast ==
  ASSUME ~TEARS
  PROVE  Spec => []CountIsPast
<1>1. Init => TypeOK /\ TimesInOrder
  BY InitTypes, InitInOrder
<1>2. TypeOK /\ TimesInOrder /\ [Next]_vars => (TypeOK /\ TimesInOrder)'
  BY NextTypes, NextInOrder
<1>3. TypeOK /\ TimesInOrder => CountIsPast
  <2> SUFFICES ASSUME TypeOK, TimesInOrder, NEW t \in VM
               PROVE  last_physical_count[t] <= now
    BY DEF CountIsPast
  <2>1. CASE t \in created
    BY <2>1 DEF TimesInOrder
  <2>2. CASE t \notin created
    <3>1. last_physical_count[t] = 0 /\ now \in Nat
      BY <2>2, Widths DEF TypeOK, TimesInOrder
    <3> QED
      BY <3>1
  <2> QED
    BY <2>1, <2>2
<1> QED
  BY <1>1, <1>2, <1>3, PTL DEF Spec
===============================================================================
