----------------------------- MODULE LineEditor -----------------------------
(***************************************************************************)
(* What the user of the hypervisor's shell sees: a line, and the line that *)
(* ran last.  Enter runs the line, or the last one again when the line     *)
(* begins with a dot; a full line is run by the next key, which is lost.   *)
(***************************************************************************)
EXTENDS Naturals, Sequences

CONSTANTS MAX_LEN,      \* characters a line holds
          Printable,    \* the characters that can be typed
          Dot           \* the one that repeats

VARIABLES text,     \* the line being typed
          last,     \* the line that ran last
          ran       \* the line that the last key ran, or none: one or no line

None == <<>>

Type(c) == text' = Append(text, c) /\ ran' = None /\ UNCHANGED last
Rub == text # <<>> /\ text' = SubSeq(text, 1, Len(text) - 1) /\ ran' = None /\ UNCHANGED last
Ignore == ran' = None /\ UNCHANGED <<text, last>>

Repeats == text # <<>> /\ text[1] = Dot

Run ==
  /\ ran' = <<IF Repeats THEN last ELSE text>>
  /\ last' = (IF Repeats THEN last ELSE text)
  /\ text' = <<>>

Init == text = <<>> /\ last = <<>> /\ ran = None
Next == \/ Rub \/ Ignore \/ Run
        \/ Len(text) < MAX_LEN /\ \E c \in Printable : Type(c)
Spec == Init /\ [][Next]_<<text, last, ran>>
=============================================================================
