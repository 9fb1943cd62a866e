---------------------------- MODULE VirtualTimer ----------------------------
(***************************************************************************)
(* What the emulated system timer promises a VM: a clock that runs only    *)
(* while the VM does, whatever the others and the hypervisor do meanwhile, *)
(* and compares whose time has come are pending when the VM runs again.    *)
(***************************************************************************)
EXTENDS Naturals

CONSTANTS VM, Timer, Count, STEP

VARIABLES started, clock, deadline, pending

\* A VM's first entry finds compares that were never written and are due.
Init ==
  /\ started = {}
  /\ clock = [t \in VM |-> 0]
  /\ deadline = [t \in VM |-> [i \in Timer |-> 0]]
  /\ pending = [t \in VM |-> {}]

Start(t) ==
  /\ t \notin started /\ started' = started \cup {t}
  /\ \E time \in Count : clock' = [clock EXCEPT ![t] = time]
  /\ UNCHANGED <<deadline, pending>>

\* The clock of t runs, by no more than one step of it takes.
Runs(t) ==
  /\ clock'[t] \in clock[t] .. clock[t] + STEP
  /\ clock' = [clock EXCEPT ![t] = clock'[t]]

Run(t) == Runs(t) /\ UNCHANGED <<started, deadline, pending>>

Enter(t) ==
  /\ t \in started /\ Runs(t)
  /\ \E time \in clock[t] .. clock'[t] :
       pending' = [pending EXCEPT ![t] = @ \cup {i \in Timer : deadline[t][i] <= time}]
  /\ UNCHANGED <<started, deadline>>

\* A compare that is written is in the future.
Write(t, i) ==
  /\ \E time \in Count :
       time > clock[t] /\ deadline' = [deadline EXCEPT ![t][i] = time]
  /\ UNCHANGED <<started, clock, pending>>

Clear(t, done) ==
  /\ pending' = [pending EXCEPT ![t] = @ \ done]
  /\ UNCHANGED <<started, clock, deadline>>

Next ==
  \E t \in VM :
    \/ Start(t) \/ Run(t) \/ Enter(t)
    \/ \E i \in Timer : Write(t, i)
    \/ \E done \in SUBSET Timer : Clear(t, done)

Spec == Init /\ [][Next]_<<started, clock, deadline, pending>>
=============================================================================
