------------------------------ MODULE MCMemory ------------------------------
(***************************************************************************)
(* Memory for TLC: tables of two entries, so that a few pages of memory    *)
(* take three levels, a device window of one page, images of one or two.   *)
(***************************************************************************)
EXTENDS Memory
=============================================================================
