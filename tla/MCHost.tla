------------------------------- MODULE MCHost -------------------------------
(***************************************************************************)
(* The hypervisor's tasks and their pages, side by side for TLC: Sched,    *)
(* where a page is only counted, and Memory, where a task only takes them. *)
(* The initial state chooses the part; the other stays as it is, so that   *)
(* the state spaces add up.                                                *)
(***************************************************************************)
EXTENDS MCSched, MCMemory

VARIABLE part

HostInit == part \in {"tasks", "pages"} /\ Init /\ MemoryInit

\* Tasks always go on; the pages may have no operation left that takes one.
HostNext ==
  \/ part = "tasks" /\ Next /\ UNCHANGED <<part, memoryVars>>
  \/ part = "pages" /\ MemoryNext /\ UNCHANGED <<part, vars>>
  \/ part = "pages" /\ UNCHANGED <<part, vars, memoryVars>>
HostSpec == HostInit /\ [][HostNext]_<<part, vars, memoryVars>>
=============================================================================
