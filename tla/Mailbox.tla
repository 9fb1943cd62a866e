------------------------------- MODULE Mailbox -------------------------------
(***************************************************************************)
(* The VideoCore mailbox the VMs see: hypervisor/emulator/raspi/vmbox.c.   *)
(* Its value, its buffer and its STATUS bit are one for all VMs.  The VMs  *)
(* are modelled as U-Boot's driver uses it (the source's comment names     *)
(* that driver): drain, wait for room, write, poll until not empty, read.  *)
(***************************************************************************)
EXTENDS Integers

CONSTANTS MailVM,       \* the VMs that use the mailbox
          Supported,    \* the tags that are answered (three in the code)
          OtherTag,     \* and one that is not
          Null, Page0   \* `mbox` before the first write, and physical address 0

ASSUME MailboxAssumption == /\ Null # Page0 /\ {Null, Page0} \cap MailVM = {}
                            /\ OtherTag \notin Supported /\ Supported # {}

VARIABLES mbox,         \* whose buffer mbox points to
          mbox_val,     \* the word last written: whose address, and the channel
          empty,        \* the bit the next read of STATUS returns
          mail,         \* the buffers in memory: [type, tag]
          step,         \* where each VM is in its call
          got,          \* what its last READ returned
          polls,        \* how often this call has polled for its answer
          mixed         \* another VM has used the mailbox during this call

mailVars == <<mbox, mbox_val, empty, mail, step, got, polls, mixed>>

Tag == Supported \cup {OtherTag}
Nothing == [of |-> Null, chan |-> "none"]

-----------------------------------------------------------------------------
\* emulate_mbox_read(): a request on the tags channel is answered in place, by
\* the VM that happens to read; a tag that is not emulated only warns.
Answered(b) ==
  IF mbox_val.chan = "tags" /\ b.type = "request" /\ b.tag \in Supported
    THEN [b EXCEPT !.type = "response"] ELSE b

emulate_mbox_read(v) ==
  /\ got' = [got EXCEPT ![v] = mbox_val]
  /\ mail' = IF mbox = Null THEN mail ELSE [mail EXCEPT ![mbox] = Answered(@)]
  /\ UNCHANGED <<mbox, mbox_val, empty>>

\* Mutant: the buffer stays the one of the write before.
BufferOf_old(v, mapped) == IF mbox = Null THEN v ELSE mbox

\* gvirt_to_maddr() leaves 0 for a page that is not mapped, which is not noticed.
BufferOf(v, mapped) == IF mapped = "mapped" THEN v ELSE Page0

\* emulate_mbox_write(): the value is set before the address is found unmapped;
\* PANIC() then ends the VM.  Tables without the page pass the check.
emulate_mbox_write(v, chan, mapped) ==
  /\ mbox_val' = [of |-> v, chan |-> chan]
  /\ mbox' = IF mapped = "no tables" THEN mbox ELSE BufferOf(v, mapped)
  /\ UNCHANGED <<empty, mail, got>>

\* Mutant: the bit is kept.
Toggled_never(e) == e
Toggled(e) == ~e

\* STATUS: the bit alternates, whatever was written or read; FULL is never set.
read_status == empty' = Toggled(empty) /\ UNCHANGED <<mbox, mbox_val, mail, got>>

-----------------------------------------------------------------------------
\* The VM's driver, outside src/ as far as it runs: which register it accesses
\* next and what it does with the answer.
Goes(v, s) == step' = [step EXCEPT ![v] = s]
Uses(v) == mixed' = [u \in MailVM |-> mixed[u] \/ (u # v /\ step[u] \notin {"idle", "ended"})]

Ask(v) ==
  /\ step[v] = "idle" /\ Goes(v, "drain")
  /\ \E t \in Tag : mail' = [mail EXCEPT ![v] = [type |-> "request", tag |-> t]]
  /\ UNCHANGED <<mbox, mbox_val, empty, got, polls, mixed>>

ReadStatus(v) ==
  /\ read_status /\ Uses(v)
  /\ \/ step[v] = "drain" /\ Goes(v, IF empty THEN "room" ELSE "stale") /\ UNCHANGED polls
     \/ step[v] = "room" /\ Goes(v, "send") /\ UNCHANGED polls
     \/ /\ step[v] = "poll" /\ Goes(v, IF empty THEN "poll" ELSE "read")
        /\ polls[v] < 3 /\ polls' = [polls EXCEPT ![v] = @ + 1]

ReadMail(v) ==
  /\ emulate_mbox_read(v) /\ Uses(v) /\ UNCHANGED polls
  /\ \/ step[v] = "stale" /\ Goes(v, "drain")
     \/ step[v] = "read" /\ Goes(v, "done")

WriteMail(v) == \E chan \in {"tags", "none"}, mapped \in {"mapped", "no page", "no tables"} :
  /\ step[v] = "send" /\ Goes(v, IF mapped = "no tables" THEN "ended" ELSE "poll")
  /\ emulate_mbox_write(v, chan, mapped) /\ Uses(v) /\ UNCHANGED polls

Finish(v) ==
  /\ step[v] = "done" /\ Goes(v, "idle")
  /\ got' = [got EXCEPT ![v] = Nothing] /\ polls' = [polls EXCEPT ![v] = 0]
  /\ mixed' = [mixed EXCEPT ![v] = FALSE]
  /\ UNCHANGED <<mbox, mbox_val, empty, mail>>

MailboxInit ==
  /\ mbox = Null /\ mbox_val = Nothing /\ empty = TRUE
  /\ \E tag \in Tag : mail = [b \in MailVM \cup {Page0} |-> [type |-> "request", tag |-> tag]]
  /\ step = [v \in MailVM |-> "idle"] /\ got = [v \in MailVM |-> Nothing]
  /\ polls = [v \in MailVM |-> 0] /\ mixed = [v \in MailVM |-> FALSE]

MailboxNext == \E v \in MailVM :
  Ask(v) \/ ReadStatus(v) \/ ReadMail(v) \/ WriteMail(v) \/ Finish(v)

MailboxSpec == MailboxInit /\ [][MailboxNext]_mailVars

-----------------------------------------------------------------------------
(***************************************************************************)
(* A VM whose call no other VM's access interrupts reads the address and   *)
(* channel it has just written, and finds its request answered when the    *)
(* tag is emulated and its buffer mapped.  With two VMs at once this fails,*)
(* which the first TODO of vmbox.c admits; `mixed` marks those calls.      *)
(***************************************************************************)
LoneCallAnswered == \A v \in MailVM : step[v] = "done" /\ ~mixed[v] =>
  /\ got[v].of = v
  /\ mbox = v /\ got[v].chan = "tags" /\ mail[v].tag \in Supported => mail[v].type = "response"
  /\ mbox \in {v, Page0}

(***************************************************************************)
(* The STATUS bit alternates blindly; a VM alone with it still polls at   *)
(* most twice for its answer.  A second VM that polls in step can keep a   *)
(* VM waiting for ever.                                                    *)
(***************************************************************************)
LonePollEnds == \A v \in MailVM : ~mixed[v] =>
  /\ polls[v] <= 2
  /\ polls[v] = 2 => step[v] # "poll"

(***************************************************************************)
(* A guest whose call no other interrupts gets to the end of it, with its  *)
(* answer (vmbox.c).                                                       *)
(***************************************************************************)
LoneCallCompletes == LoneCallAnswered /\ LonePollEnds
=============================================================================
