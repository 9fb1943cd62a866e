----------------------------- MODULE MCSysTimer -----------------------------
(***************************************************************************)
(* SysTimer for TLC: words of a few values, one or two VMs.                *)
(***************************************************************************)
EXTENDS SysTimer
=============================================================================
