----------------------------- MODULE AddressSpace -----------------------------
(***************************************************************************)
(* What stage 2 promises of a VM's memory: one flat map from the pages of  *)
(* its address space to pages of the machine.  An entry is filled in once  *)
(* and stays; the pages of the device window only ever trap; a VM whose    *)
(* creation starts over has no page yet and gets an empty map, and what is *)
(* done for one VM leaves the maps of the others alone.                    *)
(*                                                                         *)
(* The promise ends where somebody overwrites the tables themselves.       *)
(***************************************************************************)
CONSTANTS VM, Va, Window, Page, None, Trap

VARIABLES space,
          overwritten   \* the maps are no longer what was entered in them

Empty == [va \in Va |-> None]

Init == space = [t \in VM |-> Empty] /\ overwritten = FALSE

Fill(t, va) ==
  /\ space[t][va] = None
  /\ space'[t][va] \in (IF va \in Window THEN {Trap} ELSE Page)
  /\ space' = [space EXCEPT ![t][va] = space'[t][va]]

Reset(t) ==
  /\ \A va \in Va : space[t][va] \notin Page
  /\ space' = [space EXCEPT ![t] = Empty]

Mapped == \E t \in VM : Reset(t) \/ \E va \in Va : Fill(t, va)
Overwritten == overwritten' = TRUE      \* whatever the map becomes

Next == ~overwritten /\ ((Mapped /\ UNCHANGED overwritten) \/ Overwritten)

Spec == Init /\ [][Next]_<<space, overwritten>>
=============================================================================
