----------------------------- MODULE PrivateCpu -----------------------------
(***************************************************************************)
(* What a virtual machine is promised of its CPU: registers and a program  *)
(* counter of its own.  They change only when the VM itself runs an        *)
(* instruction, or when the hypervisor completes, once, the instruction    *)
(* the VM trapped on; whatever happens to the others leaves them alone.    *)
(***************************************************************************)
EXTENDS Naturals

CONSTANTS VM, Reg, InitReg, PC_MOD

VARIABLES phase, el1, pc

Phase == {"absent", "loading", "user", "kernel", "ready", "dead"}

Init ==
  /\ phase \in [VM -> {"absent", "loading"}]
  /\ el1 = [v \in VM |-> InitReg]
  /\ pc = [v \in VM |-> 0]

Move(v, from, to) == phase[v] = from /\ phase' = [phase EXCEPT ![v] = to]
Advance(v) ==
  /\ pc' = [pc EXCEPT ![v] = (@ + 1) % PC_MOD]
  /\ \E r \in Reg : el1' = [el1 EXCEPT ![v] = r]

Create(v) == Move(v, "absent", "loading") /\ UNCHANGED <<el1, pc>>
Load(v) == Move(v, "loading", "ready") /\ pc' = [pc EXCEPT ![v] = 0] /\ UNCHANGED el1

\* One VM at a time is outside the hypervisor.
Enter(v) ==
  /\ \A u \in VM : phase[u] # "user"
  /\ Move(v, "ready", "user") /\ UNCHANGED <<el1, pc>>

Execute(v) == phase[v] = "user" /\ Advance(v) /\ UNCHANGED phase
Trap(v) == Move(v, "user", "kernel") /\ UNCHANGED <<el1, pc>>

\* The trapped instruction is completed for the VM, or will be run again.
Emulate(v) == Move(v, "kernel", "ready") /\ Advance(v)
Retry(v) == Move(v, "kernel", "ready") /\ UNCHANGED <<el1, pc>>

Alive(v) == phase[v] \in {"loading", "kernel"}
Kill(v) ==
  Alive(v) /\ phase' = [phase EXCEPT ![v] = "dead"] /\ UNCHANGED <<el1, pc>>

\* A VM can end while it is being used to create another.
CreateAndKill(u, v) ==
  /\ phase[u] = "absent" /\ phase[v] = "kernel"
  /\ phase' = [phase EXCEPT ![u] = "loading", ![v] = "dead"]
  /\ UNCHANGED <<el1, pc>>

Next ==
  \/ \E v \in VM : Create(v) \/ Load(v) \/ Enter(v) \/ Execute(v) \/ Trap(v)
                   \/ Emulate(v) \/ Retry(v) \/ Kill(v)
  \/ \E u, v \in VM : CreateAndKill(u, v)

Spec == Init /\ [][Next]_<<phase, el1, pc>>
=============================================================================
