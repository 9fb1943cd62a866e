---------------------------------- MODULE Sd ----------------------------------
(***************************************************************************)
(* The SD card driver (boards/raspi/sd.c) under the disk layer             *)
(* (fs/diskio.c), the EMMC controller and a card.  Every command the driver *)
(* sends is one step; what becomes of it is up to the controller and the   *)
(* card: it may be lost, executed and not answered, garbled, or refused.    *)
(* The card (external) is the state machine of the SD specification as far  *)
(* as the driver's commands reach it; a command it does not take in its     *)
(* state is not answered.                                                   *)
(***************************************************************************)
EXTENDS Integers, Sequences, FiniteSets

CONSTANTS
  Kinds,        \* cards: [v2, ccs, width4, blkcnt, volts, warmup], the last the
                \* ACMD41s until it is ready (0: never)
  Versions,     \* host controller versions (HOST_SPEC_V1 = 0 ...)
  TRIES,        \* ACMD41s that sd_init() sends (6)
  BLOCK,        \* bytes per block (512)
  Lbas, Nums,   \* what disk_read() is asked for
  Faults,       \* what may happen to a command or a block
  MAX_FAULTS    \* how often it does

ASSUME SdAssumption ==
  /\ Kinds \subseteq [v2 : BOOLEAN, ccs : BOOLEAN, width4 : BOOLEAN, blkcnt : BOOLEAN,
                      volts : BOOLEAN, warmup : Nat]
  /\ Versions \subseteq Nat /\ TRIES \in Nat \ {0} /\ MAX_FAULTS \in Nat
  /\ BLOCK \in Nat \ {0} /\ Lbas \subseteq Nat /\ Nums \subseteq Nat
  /\ Faults \subseteq {"lost", "unanswered", "garbled", "refused", "busy", "late", "unstable"}

VARIABLES
  card,    \* the card: its kind and its state
  host,    \* the controller
  drv,     \* sd_err, sd_rca, sd_scr, what the last command returned
  pc,      \* where sd_init() or sd_readblock() is
  job,     \* the arguments, counters and buffer of the call
  stat,    \* diskio.c: STA_NOINIT taken back?
  faults   \* faults so far
vars == << card, host, drv, pc, job, stat, faults >>

HOST_SPEC_V2 == 1
BASE == 41666666     \* Hz of the controller's clock
IDENT == 400000      \* Hz asked for in identification
FAST == 25000000     \* and in transfer
NoScr == [width4 |-> FALSE, blkcnt |-> FALSE, ccs |-> FALSE]

----------------------------------------------------------------------------
\* The card.  `at` is the block it will send next, `count` how many are left
\* (-1: until it is told to stop).
Idle(c) == [c EXCEPT !.state = "idle", !.rca = 0, !.width = 1, !.app = FALSE, !.count = 0]
Address(c, arg) == IF c.kind.ccs THEN arg ELSE arg \div BLOCK

Takes(c, code, arg) ==
  CASE code = "GO_IDLE" -> TRUE
    [] code = "SEND_IF_COND" -> c.state = "idle" /\ c.kind.v2
    [] code = "APP_CMD" -> (c.state = "idle" \/ c.state \in {"stby", "tran"}) /\ arg = c.rca
    [] code = "SEND_OP_COND" -> c.app /\ c.state = "idle"
    [] code = "ALL_SEND_CID" -> c.state = "ready"
    [] code = "SEND_REL_ADDR" -> c.state \in {"ident", "stby"}
    [] code = "CARD_SELECT" -> c.state = "stby" /\ arg = c.rca
    [] code \in {"SEND_SCR", "SET_BUS_WIDTH"} -> c.app /\ c.state = "tran"
    [] code \in {"SET_BLOCKCNT", "READ_SINGLE", "READ_MULTI"} -> c.state = "tran"
    [] code = "STOP_TRANS" -> c.state = "data"

Sends(c, at, count) == [c EXCEPT !.state = "data", !.at = at, !.count = count]
Executed(c, code, arg) ==
  LET d == [c EXCEPT !.app = FALSE]
  IN CASE code = "GO_IDLE" -> Idle([c EXCEPT !.warm = c.kind.warmup])
       [] code = "SEND_IF_COND" -> d
       [] code = "APP_CMD" -> [c EXCEPT !.app = TRUE]
       [] code = "SEND_OP_COND" ->
            IF c.warm = 1 THEN [d EXCEPT !.state = "ready"]
            ELSE [d EXCEPT !.warm = IF @ > 0 THEN @ - 1 ELSE 0]
       [] code = "ALL_SEND_CID" -> [d EXCEPT !.state = "ident"]
       [] code = "SEND_REL_ADDR" -> [d EXCEPT !.state = "stby", !.rca = 1]
       [] code = "CARD_SELECT" -> [d EXCEPT !.state = "tran"]
       [] code = "SEND_SCR" -> Sends(d, -1, 1)
       [] code = "SET_BUS_WIDTH" -> [d EXCEPT !.width = 4]
       [] code = "SET_BLOCKCNT" -> [d EXCEPT !.count = arg]
       [] code = "READ_SINGLE" -> Sends(d, Address(c, arg), 1)
       [] code = "READ_MULTI" -> Sends(d, Address(c, arg), IF c.count > 0 THEN c.count ELSE -1)
       [] code = "STOP_TRANS" -> [d EXCEPT !.state = "tran", !.count = 0]

\* It sends the next block or the SCR; after the last it is in "tran" again.
AfterBlock(c) ==
  [c EXCEPT !.at = @ + 1, !.count = IF @ > 0 THEN @ - 1 ELSE @,
            !.state = IF c.count = 1 THEN "tran" ELSE @]

----------------------------------------------------------------------------
\* sd_cmd().  w is [card, host, drv, faults]; the answer is the set of states
\* that may result.  sd_err is drv.err, the value returned drv.r.
Now == [card |-> card, host |-> host, drv |-> drv, faults |-> faults]
Failed(w, err) == [w EXCEPT !.drv.err = err, !.drv.r = 0]
May(w) == IF w.faults < MAX_FAULTS THEN Faults ELSE {}
Fault(w) == [w EXCEPT !.faults = @ + 1]

\* The answer, as much of it as sd_cmd() passes on: the flags of a card that
\* refuses are looked at only after SEND_REL_ADDR (no caller tests the others).
Reply(w, code) ==
  CASE code = "APP_CMD" -> [w EXCEPT !.drv.r = IF w.drv.rca # 0 THEN 1 ELSE 0]
    [] code = "SEND_OP_COND" ->
         [w EXCEPT !.drv.r = IF w.card.state # "ready" THEN 0
                             ELSE IF w.card.kind.ccs THEN 2 ELSE 1]
    [] code = "SEND_REL_ADDR" -> [w EXCEPT !.drv.r = w.card.rca]
    [] OTHER -> [w EXCEPT !.drv.r = 0]
\* A block count holds for the very next command, also when that is refused.
Refused(c) == [c EXCEPT !.count = IF c.state = "tran" THEN 0 ELSE @]
Refusal(w, code) ==
  IF code = "SEND_REL_ADDR" THEN [w EXCEPT !.drv.err = "FLAGS", !.drv.r = w.card.rca]
  ELSE [w EXCEPT !.drv.r = 0, !.card = Refused(@)]

\* The controller opens a transfer of n blocks with a command that has data.
Data(code) == code \in {"SEND_SCR", "READ_SINGLE", "READ_MULTI"}
Opened(w, code) ==
  IF Data(code) THEN [w EXCEPT !.host.left = IF code = "READ_MULTI" THEN w.host.blocks ELSE 1]
  ELSE w
Reaches(w, code, arg) == [w EXCEPT !.card = Executed(@, code, arg)]

\* A transfer that failed stays open, for nothing resets the data line, or the
\* controller has given it up; a card that has still to send a known number of
\* blocks sends them to nobody.
SentOut(c) ==
  IF c.state = "data" /\ c.count > 0 THEN [c EXCEPT !.state = "tran", !.count = 0] ELSE c
Abandoned(w) == {w, [w EXCEPT !.host.left = 0, !.card = SentOut(@)]}

\* No answer is waited for: the driver does not learn whether the card took it.
NoAnswer(w, code) == code = "GO_IDLE" \/ (code = "APP_CMD" /\ w.drv.rca = 0)
Issue(w, code, arg) ==
  LET o == Reaches(Opened(w, code), code, arg)
      taken == Takes(w.card, code, arg)
      silent == IF NoAnswer(w, code) THEN w ELSE Failed(w, "TIMEOUT")
      may == IF taken /\ ~NoAnswer(w, code) THEN May(w) ELSE {}
  IN {IF taken THEN Reply(o, code) ELSE silent}
     \cup {Fault(silent) : f \in May(w) \cap {"lost"}}
     \cup {Fault(Refusal(w, code)) : f \in may \cap {"refused"}}
     \cup {Fault(Failed(x[1], x[2])) :
             x \in Abandoned(o) \X ({"TIMEOUT" : f \in may \cap {"unanswered"}}
                                    \cup {"ERROR" : f \in may \cap {"garbled"}})}

\* sd_status() fails when the line stays busy, and as long as an error is
\* pending, which only the reset of the controller or sd_int() takes back.
Busy(w) == w.host.err
Send(w, code, arg) ==
  IF Busy(w) THEN {Failed(w, "TIMEOUT")}
  ELSE Issue(w, code, arg) \cup {Fault(Failed(w, "TIMEOUT")) : f \in May(w) \cap {"busy"}}

Clear(w) == [w EXCEPT !.drv.err = "OK"]
sd_cmd(w, code, arg) == Send(Clear(w), code, arg)

\* An application command: once the card has an address APP_CMD must have been
\* answered; before, its failure only leaves its mark in sd_err.
AfterApp(a, code, arg) ==
  IF a.drv.rca # 0 /\ a.drv.r = 0 THEN {Failed(a, "ERROR")} ELSE Send(a, code, arg)
sd_acmd(w, code, arg) ==
  UNION {AfterApp(a, code, arg) : a \in sd_cmd(Clear(w), "APP_CMD", w.drv.rca)}

\* sd_int(INT_READ_RDY): a block is in the controller's buffer or it never is.
\* An error that comes after it ("late") is noticed by whoever looks next.
Arrives(w) == w.host.left > 0 /\ w.card.state = "data" /\ w.card.width = w.host.width
sd_int(w) ==
  LET got == [w EXCEPT !.host.left = @ - 1, !.card = AfterBlock(@)]
  IN IF w.host.err THEN {Failed([x EXCEPT !.host.err = FALSE], "ERROR") : x \in Abandoned(w)}
     ELSE IF ~Arrives(w) THEN {Failed(x, "TIMEOUT") : x \in Abandoned(w)}
     ELSE {got}
          \cup {Fault([got EXCEPT !.host.err = TRUE]) : f \in May(w) \cap {"late"}}
          \cup {Fault(Failed(x[1], x[2])) :
                  x \in Abandoned(w) \X ({"TIMEOUT" : f \in May(w) \cap {"lost"}}
                                         \cup {"ERROR" : f \in May(w) \cap {"garbled"}})}

\* sd_clk(): the divisor for f Hz, and the rate that the controller makes of it.
\* The highest bit of x, or of the shift's seven.
Highest(x) ==
  LET bits == {1, 2, 4, 8, 16, 32, 64, 128}
  IN CHOOSE d \in bits : d <= x /\ \A e \in bits : e <= x => e <= d
Shifted_half(c) == IF c = 1 THEN 1 ELSE Highest(c - 1) \div 2
Shifted(c) == IF c = 1 THEN 1 ELSE Highest(c - 1)
Divisor(f, version) ==
  LET c == BASE \div f
      d == IF version > HOST_SPEC_V2 THEN c ELSE Shifted(c)
  IN IF d <= 2 THEN 2 ELSE d
Rate(d) == BASE \div (2 * d)
\* It fails before it touches the clock, as the lines stay busy, or after it has
\* set the rate, as the clock does not get stable.
sd_clk(w, f) ==
  LET set == [w EXCEPT !.host.clock = Rate(Divisor(f, w.host.version))]
  IN {[set EXCEPT !.drv.r = 0]}
     \cup {Fault([x[1] EXCEPT !.drv.r = -1]) : x \in {w, set} \X (May(w) \cap {"unstable"})}

----------------------------------------------------------------------------
\* The calls.
Step(w) == card' = w.card /\ host' = w.host /\ drv' = w.drv /\ faults' = w.faults
Go(w, to) == Step(w) /\ pc' = to /\ UNCHANGED << job, stat >>
Ok(w) == w.drv.err = "OK"

\* sd_init() returns: disk_initialize() takes a negative answer for a failure.
InitReturns(w, err) ==
  /\ Step(w) /\ pc' = "idle"
  /\ stat' = (stat \/ err \notin {"TIMEOUT", "ERROR"})
  /\ job' = [job EXCEPT !.call = "init", !.ret = err]
InitDone_noCcs(w) == InitReturns(w, "OK")
InitDone(w) == InitReturns([w EXCEPT !.drv.scr.ccs = job.ccs], "OK")
Then(w, to) == IF Ok(w) THEN Go(w, to) ELSE InitReturns(w, w.drv.err)

Reset ==                                 \* pins, host reset, interrupt set-up
  /\ pc = "idle" /\ ~stat
  /\ \E v \in Versions :
       LET w == [Now EXCEPT !.host = [@ EXCEPT !.err = FALSE, !.left = 0, !.width = 1,
                                              !.version = v]]
       IN Go(w, "clk")
          \/ \E f \in May(w) \cap {"unstable"} : InitReturns(Fault(w), "ERROR")
Clock(from, f, to) ==
  pc = from /\ \E w \in sd_clk(Now, f) :
    IF w.drv.r = 0 THEN Go(w, to) ELSE InitReturns(w, "ERROR")
Fresh == [err |-> "OK", rca |-> 0, scr |-> NoScr, r |-> 0]
Forgotten(d) == Fresh
GoIdle ==
  /\ pc = "cmd0"
  /\ \E w \in sd_cmd([Now EXCEPT !.drv = Forgotten(@)], "GO_IDLE", 0) : Then(w, "cmd8")
SendIfCond ==
  /\ pc = "cmd8"
  /\ \E w \in sd_cmd(Now, "SEND_IF_COND", 0) :
       IF Ok(w) THEN Step(w) /\ pc' = "acmd41" /\ job' = [job EXCEPT !.c = TRIES] /\ UNCHANGED stat
       ELSE InitReturns(w, w.drv.err)
\* while (!complete && cnt--): the test after the loop wants some tries left.
Tried_notCounted(c) == c
Tried_up(c) == c + 1
Tried(c) == c - 1
SendOpCond ==
  /\ pc = "acmd41"
  /\ \E w \in sd_acmd(Now, "SEND_OP_COND", 0) :
       LET cnt == Tried(job.c)
       IN IF w.drv.err \notin {"OK", "TIMEOUT"} THEN InitReturns(w, w.drv.err)
          ELSE IF cnt = 0 THEN InitReturns(w, "TIMEOUT")
          ELSE IF w.drv.r # 0 /\ ~card.kind.volts THEN InitReturns(w, "ERROR")
          ELSE /\ Step(w) /\ UNCHANGED stat
               /\ pc' = IF w.drv.r = 0 THEN "acmd41" ELSE "cmd2"
               /\ job' = [job EXCEPT !.c = cnt, !.ccs = w.drv.r = 2]
AllSendCid == pc = "cmd2" /\ \E w \in sd_cmd(Now, "ALL_SEND_CID", 0) : Go(w, "cmd3")
SendRelAddr ==
  /\ pc = "cmd3"
  /\ \E w \in sd_cmd(Now, "SEND_REL_ADDR", 0) : Then([w EXCEPT !.drv.rca = w.drv.r], "fast")
CardSelect == pc = "cmd7" /\ \E w \in sd_cmd(Now, "CARD_SELECT", drv.rca) : Then(w, "scr")
SendScr ==
  /\ pc = "scr"
  /\ IF host.left > 0 \/ Busy(Now) THEN InitReturns(Now, "TIMEOUT")
     ELSE \E w \in sd_acmd(Now, "SEND_SCR", 0) : Then(w, "scr_ready")
ScrReady ==
  /\ pc = "scr_ready"
  /\ \E w \in sd_int(Now) : IF Ok(w) THEN Go(w, "scr_words") ELSE InitReturns(w, "TIMEOUT")
\* The loop over the two words of the SCR counts no tries: it waits for them.
CardHasWord ==
  /\ pc = "scr_words" /\ host.words < 2
  /\ host' = [host EXCEPT !.words = @ + 1]
  /\ UNCHANGED << card, drv, pc, job, stat, faults >>
ReadScr ==
  /\ pc = "scr_words" /\ host.words = 2
  /\ LET k == card.kind
         w == [Now EXCEPT !.host.words = 0,
                 !.drv.scr = [@ EXCEPT !.width4 = k.width4, !.blkcnt = k.blkcnt]]
     IN IF k.width4 THEN Go(w, "acmd6") ELSE InitDone(w)
SetBusWidth ==
  /\ pc = "acmd6"
  /\ \E w \in sd_acmd(Now, "SET_BUS_WIDTH", drv.rca) :
       IF Ok(w) THEN InitDone([w EXCEPT !.host.width = 4])
       ELSE InitReturns(w, w.drv.err)

----------------------------------------------------------------------------
\* sd_readblock(), called by disk_read().
ReadReturns(w, n) ==
  /\ Step(w) /\ pc' = "idle" /\ job' = [job EXCEPT !.ret = n] /\ UNCHANGED stat
Reads(w, to, buf, c) ==
  Step(w) /\ pc' = to /\ job' = [job EXCEPT !.buf = buf, !.c = c] /\ UNCHANGED stat
ByBlock == drv.scr.ccs
ByteAddress_ofBlock(lba) == lba
ByteAddress(lba) == lba * BLOCK

\* 0 bytes is the failure, all of them the success.
StartRead(lba, num) ==
  /\ pc = "idle" /\ stat
  /\ job' = [job EXCEPT !.call = "read", !.lba = lba, !.num = num,
                        !.c = 0, !.buf = << >>, !.ret = "failed"]
  /\ IF host.left > 0 \/ Busy(Now)          \* sd_status(SR_DAT_INHIBIT)
     THEN pc' = "idle" /\ drv' = [drv EXCEPT !.err = "TIMEOUT"] /\ UNCHANGED host
     ELSE /\ pc' = IF ~ByBlock THEN "single"
                   ELSE IF num > 1 /\ drv.scr.blkcnt THEN "cmd23" ELSE "cmd18"
          /\ host' = [host EXCEPT !.blocks = IF ByBlock THEN num ELSE 1]
          /\ UNCHANGED drv
  /\ UNCHANGED << card, stat, faults >>
DiskRead == \E lba \in Lbas, num \in Nums : StartRead(lba, IF num < 1 THEN 1 ELSE num)
SetBlockCount ==
  /\ pc = "cmd23"
  /\ \E w \in sd_cmd(Now, "SET_BLOCKCNT", job.num) :
       IF Ok(w) THEN Go(w, "cmd18") ELSE ReadReturns(w, "failed")
ReadCommand ==
  /\ pc = "cmd18"
  /\ \E w \in sd_cmd(Now, IF job.num = 1 THEN "READ_SINGLE" ELSE "READ_MULTI", job.lba) :
       IF Ok(w) THEN Go(w, "block") ELSE ReadReturns(w, "failed")
ReadSingle ==
  /\ pc = "single"
  /\ \E w \in sd_cmd(Now, "READ_SINGLE", ByteAddress(job.lba + job.c)) :
       IF Ok(w) THEN Go(w, "block") ELSE ReadReturns(w, "failed")
MustStop_never == FALSE
MustStop == job.num > 1 /\ ~drv.scr.blkcnt /\ ByBlock
ReadBlock ==
  /\ pc = "block"
  /\ \E w \in sd_int(Now) :
       LET c == job.c + 1
           buf == Append(job.buf, card.at)
       IN IF ~Ok(w) THEN ReadReturns(w, "failed")
          ELSE IF c < job.num THEN Reads(w, IF ByBlock THEN "block" ELSE "single", buf, c)
          ELSE IF MustStop THEN Reads(w, "stop", buf, c)
          ELSE /\ Step(w) /\ pc' = "idle" /\ UNCHANGED stat
               /\ job' = [job EXCEPT !.buf = buf, !.c = c, !.ret = "read"]
StopTransfer ==
  /\ pc = "stop"
  /\ \E w \in sd_cmd(Now, "STOP_TRANS", 0) : ReadReturns(w, IF Ok(w) THEN "read" ELSE "failed")

Init ==
  /\ \E k \in Kinds :
       card = [kind |-> k, state |-> "idle", rca |-> 0, width |-> 1, app |-> FALSE,
               warm |-> k.warmup, at |-> 0, count |-> 0]
  /\ host = [version |-> 0, err |-> FALSE, left |-> 0, blocks |-> 0, width |-> 1, words |-> 0,
             clock |-> 0]
  /\ drv = Fresh
  /\ pc = "idle" /\ stat = FALSE /\ faults = 0
  /\ job = [call |-> "none", lba |-> 0, num |-> 0, c |-> 0, ccs |-> FALSE,
            buf |-> << >>, ret |-> "none"]
SdInit ==
  \/ Clock("clk", IDENT, "cmd0") \/ GoIdle \/ SendIfCond \/ SendOpCond \/ AllSendCid
  \/ SendRelAddr \/ Clock("fast", FAST, "cmd7") \/ CardSelect \/ SendScr \/ ScrReady
  \/ ReadScr \/ SetBusWidth
SdReadBlock == SetBlockCount \/ ReadCommand \/ ReadSingle \/ ReadBlock \/ StopTransfer
Next == Reset \/ DiskRead \/ SdInit \/ SdReadBlock \/ CardHasWord
\* The driver runs to the end of a call, and the file system initialises a drive
\* that is not when it is next used.  Of the card and the controller nothing is assumed.
Spec ==
  Init /\ [][Next]_vars /\ WF_vars(SdInit) /\ WF_vars(SdReadBlock) /\ WF_vars(Reset)

----------------------------------------------------------------------------
TypeOK ==
  /\ card.kind \in Kinds /\ card.state \in {"idle", "ready", "ident", "stby", "tran", "data"}
  /\ host.left \in Nat /\ host.width \in {1, 4} /\ faults \in 0 .. MAX_FAULTS
  /\ drv.err \in {"OK", "TIMEOUT", "ERROR", "FLAGS"} /\ drv.rca \in {0, 1} /\ stat \in BOOLEAN
  /\ pc = "acmd41" => job.c \in 1 .. TRIES
  /\ Len(job.buf) <= job.num

\* When sd_init() has succeeded, driver, controller and card agree: the card is
\* selected and waits for commands, under the address and with the addressing that
\* the driver will use, whatever went wrong and was tried again on the way.
InitAgrees ==
  pc = "idle" /\ job.call = "init" /\ job.ret = "OK" =>
    /\ card.state = "tran" /\ card.rca = drv.rca /\ host.left = 0
    /\ drv.scr.ccs = card.kind.ccs /\ drv.scr.blkcnt = card.kind.blkcnt

\* A read that is answered with other than 0 has the blocks that were asked for,
\* also when the transfers before it broke off and left the card sending.
BlocksRight ==
  pc = "idle" /\ job.call = "read" /\ job.ret = "read" =>
    job.buf = [i \in 1 .. job.num |-> job.lba + i - 1]

\* A read that succeeds leaves no transfer open and the card ready for the next
\* command, but for one that refused the command that ends the transfer (CMD23 or
\* CMD12, whose flags are not looked at).
ReadCloses ==
  pc = "idle" /\ job.call = "read" /\ job.ret = "read" =>
    /\ host.left = 0
    /\ card.state = "tran" \/ (card.count = -1 /\ job.num > 1 /\ faults > 0)

\* The clock never runs faster than the card may be clocked in its state.
ClockInSpec ==
  /\ host.clock <= FAST
  /\ card.state \in {"idle", "ready", "ident"} => host.clock <= IDENT

\* The steps that the call has still to take, at most: a command, a wait for data
\* or a word of the SCR each.
Left ==
  CASE pc = "idle" -> 0
    [] pc = "clk" -> TRIES + 13
    [] pc = "cmd0" -> TRIES + 12
    [] pc = "cmd8" -> TRIES + 11
    [] pc = "acmd41" -> job.c + 10
    [] pc = "cmd2" -> 10
    [] pc = "cmd3" -> 9
    [] pc = "fast" -> 8
    [] pc = "cmd7" -> 7
    [] pc = "scr" -> 6
    [] pc = "scr_ready" -> 5
    [] pc = "scr_words" -> 4 - host.words
    [] pc = "acmd6" -> 1
    [] pc = "cmd23" -> 2 * job.num + 3
    [] pc = "cmd18" -> 2 * job.num + 2
    [] pc = "single" -> 2 * (job.num - job.c) + 2
    [] pc = "block" -> 2 * (job.num - job.c) + 1
    [] pc = "stop" -> 1

\* No call goes round for ever: whatever is lost or refused, each step brings it
\* nearer its end, which the tries of ACMD41 and the blocks of a read bound.  A
\* look at a register that has not changed yet is no step; that it does change,
\* as the loop of sd.c:541 takes for granted, is a matter of CallsReturn.
CallsAdvance == [][pc # "idle" => Left' \in 0 .. Left - 1]_vars

\* sd_init() and sd_readblock() return, unless the controller never has the words of
\* the SCR that it announced: cnt is to bound the wait for them (sd.c:539-549), but
\* the loop does not change it.  No other wait can be for ever.
WaitsForScr == pc = "scr_words" /\ host.words < 2
CallsReturn == []<>~WaitsForScr => (pc # "idle" ~> pc = "idle")

\* A card in a state in which it can be read, as the driver knows it.
Usable ==
  /\ card.state \in {"tran", "data"} /\ drv.rca = 1
  /\ drv.scr.ccs = card.kind.ccs /\ drv.scr.blkcnt = card.kind.blkcnt

\* A good card ends up initialised and usable, and stays so, whatever is lost or
\* refused on the way: no attempt of sd_init() leaves behind, in the driver or the
\* controller, what would make all later ones fail, nor does a read that breaks off.
\* There are two exceptions.  When the card refuses CMD3, sd_init() returns its flags,
\* a positive number that disk_initialize() takes for success: the drive is then
\* ready (`stat`) but not Usable, and is never initialised again (sd.c:515-516,
\* diskio.c:36).  And the words of the SCR must come.
Good(k) == k.v2 /\ k.volts /\ k.warmup \in 1 .. TRIES - 1
TakenForSuccess == pc = "idle" /\ job.call = "init" /\ job.ret = "FLAGS"
FindsCard ==
  []~TakenForSuccess /\ []<>~WaitsForScr => (Good(card.kind) ~> [](stat /\ Usable))

\* The driver and the card agree on the address, the addressing and the clock.
DriverAgrees == TypeOK /\ InitAgrees /\ ClockInSpec

\* A read returns the blocks asked for, and leaves the card ready for the next.
ReadsRight == BlocksRight /\ ReadCloses

=============================================================================
