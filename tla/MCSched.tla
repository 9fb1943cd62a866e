------------------------------- MODULE MCSched -------------------------------
(***************************************************************************)
(* Sched for TLC: two VMs and the hypervisor's task, of which one VM or    *)
(* both exist at the start and the rest is created by vmld.                *)
(***************************************************************************)
EXTENDS Sched
=============================================================================
