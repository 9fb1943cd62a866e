------------------------------- MODULE SdProofs -------------------------------
(***************************************************************************)
(* The SD card driver, for every set of cards, of host controllers, of     *)
(* blocks asked for, any number of tries and of faults: after sd_init()    *)
(* has succeeded driver and card agree, the clock is never too fast, and a *)
(* read that succeeds has the blocks that were asked for.                  *)
(*                                                                         *)
(* What a command may lead to is said once (Taken, Refusing, Missed,       *)
(* Broken) and shown of sd_cmd(); every step of the driver is a case       *)
(* distinction over it.                                                    *)
(***************************************************************************)
EXTENDS Sd, SequenceTheorems, TLAPS

CardState == {"idle", "ready", "ident", "stby", "tran", "data"}
Unaddressed == {"idle", "ready", "ident"}
Card ==
  [kind : Kinds, state : CardState, rca : {0, 1}, width : {1, 4}, app : BOOLEAN,
   warm : Nat, at : Int, count : Int]
Host ==
  [version : Nat, err : BOOLEAN, left : Nat, blocks : Nat, width : {1, 4},
   words : {0, 1, 2}, clock : Nat]
Scr == [width4 : BOOLEAN, blkcnt : BOOLEAN, ccs : BOOLEAN]
Error == {"OK", "TIMEOUT", "ERROR", "FLAGS"}
Drv == [err : Error, rca : {0, 1}, scr : Scr, r : {-1, 0, 1, 2}]
World == [card : Card, host : Host, drv : Drv, faults : 0 .. MAX_FAULTS]
Job ==
  [call : {"none", "init", "read"}, lba : Nat, num : Nat, c : Nat, ccs : BOOLEAN,
   buf : Seq(Int), ret : {"none", "failed", "read"} \cup Error]

\* The points of sd_init(), in order, and those of sd_readblock().
Identifies == {"clk", "cmd0", "cmd8", "acmd41", "cmd2", "cmd3"}
Initialises ==
  Identifies \cup {"fast", "cmd7", "scr", "scr_ready", "scr_words", "acmd6"}
Reading == {"cmd23", "cmd18", "single", "block", "stop"}

Types ==
  /\ Now \in World /\ job \in Job /\ stat \in BOOLEAN
  /\ pc \in Initialises \cup Reading \cup {"idle"}

\* The card.  A count waits in the transfer state only for the read that CMD23
\* announced, so only after a driver that knows CMD23 of this card was set up.
Sound(c, initialised, announces) ==
  /\ c.rca = IF c.state \in Unaddressed THEN 0 ELSE 1
  /\ c.state \notin {"tran", "data"} => c.count = 0
  /\ c.state = "data" => c.count = -1 \/ c.count > 0
  /\ c.state = "tran" => c.count = 0 \/ (c.count > 0 /\ initialised /\ announces)
CardTrue == Sound(card, stat, drv.scr.blkcnt)

\* The way of sd_init().  A command that is refused is taken for one that was
\* carried out, except APP_CMD and CMD3.
Initialising ==
  /\ pc \in Initialises => ~stat
  /\ pc \in {"cmd8", "acmd41", "cmd2", "cmd3"} => drv.rca = 0 /\ drv.scr = NoScr
  /\ pc = "acmd41" => card.state \in {"idle", "ready"} /\ job.c \in 1 .. TRIES
  /\ pc = "cmd2" => card.state = "ready"
  /\ pc = "cmd3" => card.state \in {"ready", "ident"}
  /\ pc \in {"fast", "cmd7"} => card.state = "stby"
  /\ pc = "scr" => card.state \in {"stby", "tran"}
  /\ pc = "scr_ready" =>
       \/ card.state = "data" /\ card.count = 1 /\ host.left = 1
       \/ card.state = "tran" /\ host.left = 0
  /\ pc \in {"scr_words", "acmd6"} => card.state = "tran" /\ host.left = 0
  /\ pc \in Initialises \ Identifies => drv.rca = 1
  /\ pc \in {"cmd2", "cmd3"} \cup (Initialises \ Identifies) => job.ccs = card.kind.ccs
  /\ pc = "acmd6" => drv.scr.blkcnt = card.kind.blkcnt

\* The identification clock is set before CMD0 and kept until CMD3 is answered.
Clocked ==
  /\ ClockInSpec
  /\ pc \in (Identifies \ {"clk"}) \cup {"fast"} => host.clock <= IDENT

\* An initialised drive: driver and card agree, or CMD3 was refused, which
\* disk_initialize() takes for success, and the card takes no read.
Unusable == card.state \in {"ready", "ident"} /\ drv.scr = NoScr /\ pc \in {"idle", "single"}

\* The transfer that is open has still to bring the blocks that are missing, and the
\* card sends those unless the controller waits in vain.
Missing == IF ByBlock THEN job.num - job.c ELSE 1
Announced ==
  \/ card.count = Missing /\ (ByBlock => job.num = 1 \/ drv.scr.blkcnt)
  \/ card.count = -1 /\ job.num > 1 /\ ByBlock /\ (drv.scr.blkcnt => faults > 0)
Transfer ==
  host.left > 0 =>
    /\ host.left = Missing
    /\ card.state = "data" /\ card.at = job.lba + job.c /\ Announced

Filling ==
  /\ stat => Usable \/ Unusable
  /\ pc \in Reading =>
       /\ stat /\ job.call = "read" /\ job.num >= 1
       /\ job.c \in 0 .. job.num /\ (pc # "stop" => job.c < job.num)
       /\ job.buf = [i \in 1 .. job.c |-> job.lba + i - 1]
  /\ pc = "single" => ~ByBlock /\ host.left = 0
  /\ pc \in {"cmd23", "cmd18"} =>
       /\ ByBlock /\ job.c = 0 /\ host.left = 0
       /\ job.num > 1 => host.blocks = job.num
  /\ pc = "cmd23" => job.num > 1 /\ drv.scr.blkcnt
  /\ pc = "cmd18" /\ job.num > 1 /\ drv.scr.blkcnt =>
       card.state = "tran" /\ (card.count = job.num \/ (card.count = 0 /\ faults > 0))
  /\ pc = "block" => Transfer
  /\ pc = "stop" =>
       /\ MustStop /\ job.c = job.num /\ host.left = 0
       /\ card.state = "data" => card.count = -1
  /\ Len(job.buf) <= job.num

Results == InitAgrees /\ BlocksRight /\ ReadCloses

IInv == Types /\ CardTrue /\ Initialising /\ Clocked /\ Filling /\ Results

-----------------------------------------------------------------------------
(***************************************************************************)
(* What a command may lead to.                                             *)
(***************************************************************************)
Code ==
  {"GO_IDLE", "SEND_IF_COND", "APP_CMD", "SEND_OP_COND", "ALL_SEND_CID", "SEND_REL_ADDR",
   "CARD_SELECT", "SEND_SCR", "SET_BUS_WIDTH", "SET_BLOCKCNT", "READ_SINGLE", "READ_MULTI",
   "STOP_TRANS"}

LEMMA Constants ==
  /\ Kinds \subseteq [v2 : BOOLEAN, ccs : BOOLEAN, width4 : BOOLEAN, blkcnt : BOOLEAN,
                      volts : BOOLEAN, warmup : Nat]
  /\ Versions \subseteq Nat /\ TRIES \in Nat /\ TRIES > 0 /\ MAX_FAULTS \in Nat
  /\ BLOCK \in Nat /\ BLOCK > 0 /\ Lbas \subseteq Nat /\ Nums \subseteq Nat
BY SdAssumption

\* Nothing but the card, the open transfer, the result and the faults changes.
Kept(w, x) ==
  /\ x \in World /\ x.card.kind = w.card.kind
  /\ x.drv.rca = w.drv.rca /\ x.drv.scr = w.drv.scr
  /\ \E n \in Nat : x.host = [w.host EXCEPT !.left = n]
  /\ x.faults >= w.faults

OpenFor(w, code) ==
  IF Data(code) THEN IF code = "READ_MULTI" THEN w.host.blocks ELSE 1 ELSE w.host.left

Taken(w, x, code, arg) ==
  /\ Takes(w.card, code, arg) /\ x.card = Executed(w.card, code, arg)
  /\ x.host.left = OpenFor(w, code) /\ x.drv = Reply(x, code).drv
  /\ x.drv.err = w.drv.err
Refusing(w, x, code, arg) ==
  /\ Takes(w.card, code, arg) /\ x.card.state = w.card.state /\ x.host = w.host
  /\ x.drv.err = (IF code = "SEND_REL_ADDR" THEN "FLAGS" ELSE w.drv.err)
  /\ IF code = "SEND_REL_ADDR" THEN x.card = w.card /\ x.drv.r = w.card.rca
     ELSE x.card = Refused(w.card) /\ x.drv.r = 0
  /\ x.faults > w.faults
Missed(w, x, code) ==
  /\ x.card = w.card /\ x.host = w.host
  /\ IF NoAnswer(w, code) THEN x.drv = w.drv \/ (x.drv.err = "TIMEOUT" /\ x.drv.r = 0)
     ELSE x.drv.err = "TIMEOUT" /\ x.drv.r = 0
Broken(w, x, code, arg) ==
  /\ Takes(w.card, code, arg) /\ ~NoAnswer(w, code)
  /\ x.card \in {Executed(w.card, code, arg), SentOut(Executed(w.card, code, arg))}
  /\ x.drv.err \in {"TIMEOUT", "ERROR"} /\ x.drv.r = 0

LEMMA ExecutedIsCard ==
  ASSUME NEW c \in Card, NEW code \in Code, NEW arg \in Int
  PROVE  /\ Executed(c, code, arg) \in Card /\ Executed(c, code, arg).kind = c.kind
         /\ SentOut(Executed(c, code, arg)) \in Card
         /\ SentOut(Executed(c, code, arg)).kind = c.kind
         /\ Refused(c) \in Card /\ Refused(c).kind = c.kind /\ Refused(c).state = c.state
<1>1. Executed(c, code, arg) \in Card /\ Executed(c, code, arg).kind = c.kind
  <2>1. Address(c, arg) \in Int
    BY Constants DEF Address
  <2>2. c.kind.warmup \in Nat
    BY Constants DEF Card
  <2> DEFINE d == [c EXCEPT !.app = FALSE]
  <2>3. d \in Card /\ d.kind = c.kind
    BY DEF Card
  <2>4. CASE code = "GO_IDLE"
    <3> DEFINE e == [c EXCEPT !.warm = c.kind.warmup]
    <3>1. e \in Card /\ e.kind = c.kind
      BY <2>2 DEF Card
    <3> DEFINE idle == "idle"
               zero == 0
               one == 1
    <3>2. idle \in CardState /\ zero \in {0, 1} /\ zero \in Int /\ one \in {1, 4}
      BY DEF CardState
    <3>3. Executed(c, code, arg)
            = [e EXCEPT !.state = idle, !.rca = zero, !.width = one, !.app = FALSE, !.count = zero]
      BY <2>4 DEF Executed, Idle
    <3> HIDE DEF e, idle, zero, one
    <3> QED
      BY <3>1, <3>2, <3>3 DEF Card
  <2>5. CASE code = "APP_CMD"
    BY <2>5 DEF Executed, Card
  <2> HIDE DEF d
  <2>6. CASE code = "SEND_IF_COND"
    BY <2>3, <2>6 DEF Executed, d
  <2>7. ASSUME NEW at \in Int, NEW n \in Int
        PROVE  Sends(d, at, n) \in Card /\ Sends(d, at, n).kind = d.kind
    BY <2>3 DEF Sends, Card, CardState
  <2>8. CASE code = "SEND_OP_COND"
    <3>1. Executed(c, code, arg) =
            IF c.warm = 1 THEN [d EXCEPT !.state = "ready"]
            ELSE [d EXCEPT !.warm = IF d.warm > 0 THEN d.warm - 1 ELSE 0]
      BY <2>8 DEF Executed, d
    <3> QED
      BY <2>3, <3>1 DEF Card, CardState
  <2>9. CASE code \in {"ALL_SEND_CID", "SEND_REL_ADDR", "CARD_SELECT", "SET_BUS_WIDTH",
                       "SET_BLOCKCNT", "STOP_TRANS"}
    <3> DEFINE ident == "ident"
               stby == "stby"
               tran == "tran"
               zero == 0
               one == 1
               four == 4
    <3>1. /\ {ident, stby, tran} \subseteq CardState
          /\ zero \in Int /\ one \in {0, 1} /\ four \in {1, 4}
      BY DEF CardState
    <3>2. Executed(c, code, arg) \in
            {[d EXCEPT !.state = ident], [d EXCEPT !.state = stby, !.rca = one],
             [d EXCEPT !.state = tran], [d EXCEPT !.width = four], [d EXCEPT !.count = arg],
             [d EXCEPT !.state = tran, !.count = zero]}
      BY <2>9 DEF Executed, d
    <3> HIDE DEF ident, stby, tran, zero, one, four
    <3> QED
      BY <2>3, <3>1, <3>2 DEF Card
  <2>10. CASE code \in {"SEND_SCR", "READ_SINGLE", "READ_MULTI"}
    <3>1. \E at \in Int, n \in Int : Executed(c, code, arg) = Sends(d, at, n)
      BY <2>1, <2>10 DEF Executed, d, Card
    <3> QED
      BY <2>3, <2>7, <3>1
  <2> QED
    BY <2>4, <2>5, <2>6, <2>8, <2>9, <2>10 DEF Code
<1>2. ASSUME NEW d \in Card
      PROVE  SentOut(d) \in Card /\ SentOut(d).kind = d.kind
  <2>1. CASE d.state = "data" /\ d.count > 0
    <3> DEFINE st == "tran"
               n == 0
    <3>1. st \in CardState /\ n \in Int
      BY DEF CardState
    <3>2. SentOut(d) = [d EXCEPT !.state = st, !.count = n]
      BY <2>1 DEF SentOut
    <3> HIDE DEF st, n
    <3> QED
      BY <3>1, <3>2 DEF Card
  <2> QED
    BY <2>1 DEF SentOut
<1>3. Refused(c) \in Card /\ Refused(c).kind = c.kind /\ Refused(c).state = c.state
  BY DEF Refused, Card
<1> QED
  BY <1>1, <1>2, <1>3

LEMMA IssueOutcome ==
  ASSUME NEW w \in World, NEW code \in Code, NEW arg \in Int, NEW x \in Issue(w, code, arg)
  PROVE  /\ Kept(w, x)
         /\ \/ Taken(w, x, code, arg) \/ Refusing(w, x, code, arg)
            \/ Missed(w, x, code) \/ Broken(w, x, code, arg)
<1> DEFINE o == Reaches(Opened(w, code), code, arg)
           taken == Takes(w.card, code, arg)
           silent == IF NoAnswer(w, code) THEN w ELSE Failed(w, "TIMEOUT")
           may == IF taken /\ ~NoAnswer(w, code) THEN May(w) ELSE {}
<1>1. /\ o \in World /\ o.card = Executed(w.card, code, arg) /\ o.drv = w.drv
      /\ o.faults = w.faults /\ o.host = [w.host EXCEPT !.left = OpenFor(w, code)]
      /\ OpenFor(w, code) \in Nat
  <2>1. w.card \in Card /\ w.host \in Host
    BY DEF World
  <2>2. OpenFor(w, code) \in Nat
    BY <2>1 DEF OpenFor, Host
  <2>3. /\ Opened(w, code) \in World /\ Opened(w, code).card = w.card
        /\ Opened(w, code).drv = w.drv /\ Opened(w, code).faults = w.faults
        /\ Opened(w, code).host = [w.host EXCEPT !.left = OpenFor(w, code)]
    BY <2>2 DEF Opened, OpenFor, World, Host
  <2> QED
    BY <2>1, <2>2, <2>3, ExecutedIsCard DEF Reaches, World
<1>2. silent \in World /\ silent.card = w.card /\ silent.host = w.host /\ silent.faults = w.faults
      /\ silent.drv.rca = w.drv.rca /\ silent.drv.scr = w.drv.scr
      /\ IF NoAnswer(w, code) THEN silent.drv = w.drv
         ELSE silent.drv.err = "TIMEOUT" /\ silent.drv.r = 0
  BY DEF Failed, World, Drv, Error
<1>3. ASSUME NEW v \in World, v.faults < MAX_FAULTS
      PROVE  /\ Fault(v) \in World /\ Fault(v).card = v.card /\ Fault(v).host = v.host
             /\ Fault(v).drv = v.drv /\ Fault(v).faults = v.faults + 1
  BY <1>3, Constants DEF Fault, World
<1>4. May(w) # {} => w.faults < MAX_FAULTS
  BY DEF May
<1>5. CASE taken /\ x = Reply(o, code)
  <2>1. o.card.rca \in {0, 1} /\ o.drv.rca \in {0, 1}
    BY <1>1 DEF World, Card, Drv
  <2>2. /\ x \in World /\ x.card = o.card /\ x.host = o.host /\ x.faults = o.faults
        /\ x.drv.rca = o.drv.rca /\ x.drv.scr = o.drv.scr /\ x.drv.err = o.drv.err
        /\ x.drv = Reply(x, code).drv
    <3>1. \E r \in {0, 1, 2} : x = [o EXCEPT !.drv.r = r]
      BY <1>5, <2>1 DEF Reply, Code
    <3>2. Reply(x, code).drv = x.drv
      BY <1>1, <1>5 DEF Reply, Code, World, Drv
    <3> QED
      BY <1>1, <3>1, <3>2 DEF World, Drv
  <2>3. Kept(w, x)
    BY <1>1, <2>2, ExecutedIsCard DEF Kept, World
  <2>4. Taken(w, x, code, arg)
    BY <1>1, <1>5, <2>2 DEF Taken, World, Host
  <2> QED
    BY <2>3, <2>4
<1>6. CASE x = silent \/ (x = Fault(silent) /\ May(w) # {})
  <2>1. Kept(w, x)
    <3>1. w.host = [w.host EXCEPT !.left = w.host.left] /\ w.host.left \in Nat
      BY DEF World, Host
    <3> QED
      BY <1>2, <1>3, <1>4, <1>6, <3>1 DEF Kept, World
  <2>2. Missed(w, x, code)
    BY <1>2, <1>3, <1>4, <1>6 DEF Missed
  <2> QED
    BY <2>1, <2>2
<1>7. CASE taken /\ ~NoAnswer(w, code) /\ May(w) # {} /\ x = Fault(Refusal(w, code))
  <2> DEFINE f == Refusal(w, code)
  <2>1. w.card \in Card /\ w.card.rca \in {0, 1}
    BY DEF World, Card
  <2>2. /\ f \in World /\ f.host = w.host /\ f.faults = w.faults
        /\ f.drv.rca = w.drv.rca /\ f.drv.scr = w.drv.scr
        /\ f.drv.err = (IF code = "SEND_REL_ADDR" THEN "FLAGS" ELSE w.drv.err)
        /\ IF code = "SEND_REL_ADDR" THEN f.card = w.card /\ f.drv.r = w.card.rca
           ELSE f.card = Refused(w.card) /\ f.drv.r = 0
    BY <2>1, ExecutedIsCard DEF Refusal, World, Drv, Error
  <2> HIDE DEF f
  <2>3. /\ x \in World /\ x.card = f.card /\ x.host = f.host /\ x.drv = f.drv
        /\ x.faults = w.faults + 1
    BY <1>3, <1>4, <1>7, <2>2 DEF f
  <2>4. w.host = [w.host EXCEPT !.left = w.host.left] /\ w.host.left \in Nat /\ w.faults \in Nat
    BY DEF World, Host
  <2>5. Refused(w.card).kind = w.card.kind /\ Refused(w.card).state = w.card.state
    BY <2>1, ExecutedIsCard
  <2>6. Kept(w, x)
    BY <2>2, <2>3, <2>4, <2>5 DEF Kept
  <2>7. Refusing(w, x, code, arg)
    BY <1>7, <2>2, <2>3, <2>4, <2>5 DEF Refusing
  <2> QED
    BY <2>6, <2>7
<1>8. CASE /\ taken /\ ~NoAnswer(w, code) /\ May(w) # {}
           /\ \E a \in Abandoned(o), e \in {"TIMEOUT", "ERROR"} : x = Fault(Failed(a, e))
  <2>1. PICK a \in Abandoned(o), e \in {"TIMEOUT", "ERROR"} : x = Fault(Failed(a, e))
    BY <1>8
  <2>2. /\ a \in World /\ a.card \in {o.card, SentOut(o.card)} /\ a.drv = o.drv
        /\ a.faults = o.faults /\ \E n \in Nat : a.host = [o.host EXCEPT !.left = n]
    <3>1. SentOut(o.card) \in Card
      <4>1. w.card \in Card
        BY DEF World
      <4> QED
        BY <1>1, <4>1, ExecutedIsCard
    <3>2. o.host = [o.host EXCEPT !.left = o.host.left] /\ o.host.left \in Nat
      BY <1>1 DEF World, Host
    <3>3. CASE a = o
      BY <1>1, <3>2, <3>3
    <3>4. CASE a = [o EXCEPT !.host.left = 0, !.card = SentOut(@)]
      BY <1>1, <3>1, <3>4 DEF World, Host
    <3> QED
      BY <3>3, <3>4 DEF Abandoned
  <2>3. /\ Failed(a, e) \in World /\ Failed(a, e).card = a.card /\ Failed(a, e).host = a.host
        /\ Failed(a, e).faults = a.faults /\ Failed(a, e).drv.err = e /\ Failed(a, e).drv.r = 0
        /\ Failed(a, e).drv.rca = a.drv.rca /\ Failed(a, e).drv.scr = a.drv.scr
    BY <2>2 DEF Failed, World, Drv, Error
  <2>4. /\ x \in World /\ x.card = a.card /\ x.host = a.host /\ x.drv = Failed(a, e).drv
        /\ x.faults = w.faults + 1
    BY <1>1, <1>3, <1>4, <1>8, <2>1, <2>2, <2>3
  <2>5. \E n \in Nat : x.host = [w.host EXCEPT !.left = n]
    <3>1. PICK n \in Nat : a.host = [o.host EXCEPT !.left = n]
      BY <2>2
    <3>2. w.host \in Host
      BY DEF World
    <3>3. /\ x.host = a.host
          /\ a.host = [[w.host EXCEPT !.left = OpenFor(w, code)] EXCEPT !.left = n]
      BY <1>1, <2>4, <3>1
    <3>4. [[w.host EXCEPT !.left = OpenFor(w, code)] EXCEPT !.left = n]
            = [w.host EXCEPT !.left = n]
      BY <3>2 DEF Host
    <3> QED
      BY <3>3, <3>4
  <2>6. Kept(w, x)
    BY <1>1, <2>2, <2>3, <2>4, <2>5, ExecutedIsCard DEF Kept, World
  <2>7. Broken(w, x, code, arg)
    BY <1>1, <1>8, <2>2, <2>3, <2>4 DEF Broken
  <2> QED
    BY <2>6, <2>7
<1> HIDE DEF o, silent
<1>9. x \in {IF taken THEN Reply(o, code) ELSE silent}
        \cup {Fault(silent) : f \in May(w) \cap {"lost"}}
        \cup {Fault(Refusal(w, code)) : f \in may \cap {"refused"}}
        \cup {Fault(Failed(y[1], y[2])) :
                y \in Abandoned(o) \X ({"TIMEOUT" : f \in may \cap {"unanswered"}}
                                       \cup {"ERROR" : f \in may \cap {"garbled"}})}
  BY DEF Issue, o, silent
<1> QED
  BY <1>5, <1>6, <1>7, <1>8, <1>9

Outcome(w, x, code, arg) ==
  /\ Kept(w, x)
  /\ \/ Taken(w, x, code, arg) \/ Refusing(w, x, code, arg)
     \/ Missed(w, x, code) \/ Broken(w, x, code, arg)

LEMMA SendOutcome ==
  ASSUME NEW w \in World, NEW code \in Code, NEW arg \in Int, NEW x \in Send(w, code, arg)
  PROVE  Outcome(w, x, code, arg)
<1>1. CASE ~Busy(w) /\ x \in Issue(w, code, arg)
  BY <1>1, IssueOutcome DEF Outcome, Busy
<1>2. CASE x = Failed(w, "TIMEOUT") \/ (x = Fault(Failed(w, "TIMEOUT")) /\ May(w) # {})
  <2> DEFINE f == Failed(w, "TIMEOUT")
  <2>1. /\ f \in World /\ f.card = w.card /\ f.host = w.host /\ f.faults = w.faults
        /\ f.drv.rca = w.drv.rca /\ f.drv.scr = w.drv.scr /\ f.drv.err = "TIMEOUT" /\ f.drv.r = 0
    BY DEF Failed, World, Drv, Error
  <2>2. /\ x \in World /\ x.card = w.card /\ x.host = w.host /\ x.faults >= w.faults
        /\ x.drv = f.drv
    <3>1. CASE x = f
      BY <2>1, <3>1 DEF World
    <3>2. CASE x = Fault(f) /\ w.faults < MAX_FAULTS
      BY <2>1, <3>2, Constants DEF Fault, World
    <3> QED
      BY <1>2, <3>1, <3>2 DEF May
  <2>3. w.host = [w.host EXCEPT !.left = w.host.left] /\ w.host.left \in Nat
    BY DEF World, Host
  <2>4. Kept(w, x) /\ Missed(w, x, code)
    BY <2>1, <2>2, <2>3 DEF Kept, Missed
  <2> QED
    BY <2>4 DEF Outcome
<1> QED
  BY <1>1, <1>2 DEF Send

\* The same of a command that the driver sends now, in terms of the variables.
CmdTaken(x, code, arg) ==
  /\ Takes(card, code, arg) /\ x.card = Executed(card, code, arg)
  /\ x.host.left = OpenFor(Now, code) /\ x.drv.err = "OK" /\ x.drv = Reply(x, code).drv
CmdRefused(x, code, arg) ==
  /\ Takes(card, code, arg) /\ x.host = host /\ x.faults > faults
  /\ IF code = "SEND_REL_ADDR" THEN x.card = card /\ x.drv.err = "FLAGS" /\ x.drv.r = card.rca
     ELSE x.card = Refused(card) /\ x.drv.err = "OK" /\ x.drv.r = 0
CmdMissed(x, code) ==
  /\ x.card = card /\ x.host = host
  /\ \/ NoAnswer(Now, code) /\ x.drv.err \in {"OK", "TIMEOUT"}
     \/ x.drv.err = "TIMEOUT" /\ x.drv.r = 0
CmdBroken(x, code, arg) ==
  /\ Takes(card, code, arg) /\ ~NoAnswer(Now, code)
  /\ x.card \in {Executed(card, code, arg), SentOut(Executed(card, code, arg))}
  /\ x.drv.err \in {"TIMEOUT", "ERROR"} /\ x.drv.r = 0
CmdKept(x) ==
  /\ x \in World /\ x.card.kind = card.kind /\ x.drv.rca = drv.rca /\ x.drv.scr = drv.scr
  /\ x.host.clock = host.clock /\ x.host.blocks = host.blocks /\ x.host.words = host.words
  /\ x.host.err = host.err /\ x.faults >= faults

LEMMA Cleared ==
  ASSUME NEW w \in World
  PROVE  /\ Clear(w) \in World /\ Clear(w).card = w.card /\ Clear(w).host = w.host
         /\ Clear(w).faults = w.faults /\ Clear(w).drv.rca = w.drv.rca
         /\ Clear(w).drv.scr = w.drv.scr /\ Clear(w).drv.r = w.drv.r /\ Clear(w).drv.err = "OK"
BY DEF Clear, World, Drv, Error

LEMMA CmdOutcome ==
  ASSUME Now \in World, NEW w \in World, w.card = card, w.host = host, w.faults = faults,
         w.drv.rca = drv.rca, w.drv.scr = drv.scr,
         NEW code \in Code, NEW arg \in Int, NEW x \in sd_cmd(w, code, arg)
  PROVE  /\ CmdKept(x)
         /\ \/ CmdTaken(x, code, arg) \/ CmdRefused(x, code, arg)
            \/ CmdMissed(x, code) \/ CmdBroken(x, code, arg)
<1> DEFINE v == Clear(w)
<1>1. /\ v \in World /\ v.card = card /\ v.host = host /\ v.faults = faults
      /\ v.drv.rca = drv.rca /\ v.drv.scr = drv.scr /\ v.drv.err = "OK"
  BY Cleared
<1>2. Outcome(v, x, code, arg)
  BY <1>1, SendOutcome DEF sd_cmd
<1> HIDE DEF v
<1>3. CmdKept(x)
  <2>1. host \in Host
    BY DEF World, Now
  <2> QED
    BY <1>1, <1>2, <2>1 DEF Outcome, Kept, CmdKept, Host
<1>4. OpenFor(v, code) = OpenFor(Now, code) /\ (NoAnswer(v, code) <=> NoAnswer(Now, code))
  BY <1>1 DEF OpenFor, NoAnswer, Now
<1>5. Taken(v, x, code, arg) => CmdTaken(x, code, arg)
  BY <1>1, <1>4 DEF Taken, CmdTaken
<1>6. Refusing(v, x, code, arg) => CmdRefused(x, code, arg)
  BY <1>1 DEF Refusing, CmdRefused
<1>7. Missed(v, x, code) => CmdMissed(x, code)
  BY <1>1, <1>4 DEF Missed, CmdMissed
<1>8. Broken(v, x, code, arg) => CmdBroken(x, code, arg)
  BY <1>1, <1>4 DEF Broken, CmdBroken
<1> QED
  BY <1>2, <1>3, <1>5, <1>6, <1>7, <1>8 DEF Outcome

\* An application command is APP_CMD and then the command.
LEMMA AppOutcome ==
  ASSUME NEW w \in World, NEW code \in Code, NEW arg \in Int, NEW x \in sd_acmd(w, code, arg)
  PROVE  \E a \in World :
           /\ Outcome(Clear(Clear(w)), a, "APP_CMD", w.drv.rca)
           /\ IF a.drv.rca # 0 /\ a.drv.r = 0 THEN x = Failed(a, "ERROR")
              ELSE Outcome(a, x, code, arg)
<1>1. PICK a \in sd_cmd(Clear(w), "APP_CMD", w.drv.rca) : x \in AfterApp(a, code, arg)
  BY DEF sd_acmd
<1>2. Clear(Clear(w)) \in World /\ w.drv.rca \in Int
  BY Cleared DEF World, Drv
<1>3. Outcome(Clear(Clear(w)), a, "APP_CMD", w.drv.rca)
  BY <1>1, <1>2, SendOutcome DEF sd_cmd, Code
<1>4. a \in World
  BY <1>3 DEF Outcome, Kept
<1>5. CASE a.drv.rca # 0 /\ a.drv.r = 0
  BY <1>1, <1>3, <1>4, <1>5 DEF AfterApp
<1>6. CASE ~(a.drv.rca # 0 /\ a.drv.r = 0)
  BY <1>1, <1>3, <1>4, <1>6, SendOutcome DEF AfterApp
<1> QED
  BY <1>5, <1>6

\* What commands make of a sound card.
LEMMA ExecutedSound ==
  ASSUME NEW c \in Card, NEW b \in BOOLEAN, NEW i \in BOOLEAN, NEW code \in Code, NEW arg \in Int,
         Sound(c, i, b), Takes(c, code, arg),
         code = "SET_BLOCKCNT" => i /\ b /\ arg > 0
  PROVE  /\ Sound(Executed(c, code, arg), i, b) /\ Sound(SentOut(Executed(c, code, arg)), i, b)
         /\ Sound(Refused(c), i, b)
<1>1. Executed(c, code, arg) \in Card
  BY ExecutedIsCard
<1>2. Sound(Executed(c, code, arg), i, b)
  <2>1. CASE code = "GO_IDLE"
    BY <2>1 DEF Executed, Idle, Card, Sound, Unaddressed
  <2>2. CASE code \in {"SEND_IF_COND", "APP_CMD"}
    BY <2>2 DEF Executed, Card, Sound, Unaddressed
  <2>3. CASE code = "SEND_OP_COND"
    BY <2>3 DEF Executed, Takes, Card, Sound, Unaddressed
  <2>4. CASE code \in {"ALL_SEND_CID", "SEND_REL_ADDR", "CARD_SELECT", "SET_BUS_WIDTH"}
    BY <2>4 DEF Executed, Takes, Card, Sound, Unaddressed
  <2>5. CASE code \in {"SET_BLOCKCNT", "STOP_TRANS"}
    BY <2>5 DEF Executed, Takes, Card, Sound, Unaddressed
  <2>6. CASE code \in {"SEND_SCR", "READ_SINGLE", "READ_MULTI"}
    <3>1. c.state = "tran" /\ c.rca = 1
      BY <2>6 DEF Takes, Sound, Unaddressed
    <3>2. PICK at, n : /\ Executed(c, code, arg) = Sends([c EXCEPT !.app = FALSE], at, n)
                       /\ n = -1 \/ n > 0
      BY <2>6 DEF Executed, Card
    <3> QED
      BY <3>1, <3>2 DEF Sends, Card, Sound, Unaddressed
  <2> QED
    BY <2>1, <2>2, <2>3, <2>4, <2>5, <2>6 DEF Code
<1>3. ASSUME NEW d \in Card, Sound(d, i, b)
      PROVE  Sound(SentOut(d), i, b)
  BY <1>3 DEF SentOut, Sound, Card, Unaddressed
<1>4. Sound(Refused(c), i, b)
  BY DEF Refused, Sound, Card, Unaddressed
<1> QED
  BY <1>1, <1>2, <1>3, <1>4

\* A block that is waited for came, or will not.
IntGot(x) ==
  /\ Arrives(Now) /\ x.card = AfterBlock(card) /\ x.host.left = host.left - 1 /\ x.drv = drv
IntLost(x) ==
  x.card \in {card, SentOut(card)} /\ x.drv.err \in {"TIMEOUT", "ERROR"}
IntKept(x) ==
  /\ x \in World /\ x.card.kind = card.kind /\ x.drv.rca = drv.rca /\ x.drv.scr = drv.scr
  /\ x.host.clock = host.clock /\ x.host.blocks = host.blocks /\ x.host.words = host.words
  /\ x.faults >= faults

LEMMA AfterBlockIsCard ==
  ASSUME NEW c \in Card, c.state = "data"
  PROVE  AfterBlock(c) \in Card /\ AfterBlock(c).kind = c.kind
<1> DEFINE st == IF c.count = 1 THEN "tran" ELSE c.state
           n == IF c.count > 0 THEN c.count - 1 ELSE c.count
           at == c.at + 1
<1>1. st \in CardState /\ n \in Int /\ at \in Int
  BY DEF Card, CardState
<1>2. AfterBlock(c) = [c EXCEPT !.at = at, !.count = n, !.state = st]
  BY DEF AfterBlock
<1> HIDE DEF st, n, at
<1> QED
  BY <1>1, <1>2 DEF Card

LEMMA SentOutIsCard ==
  ASSUME NEW c \in Card
  PROVE  SentOut(c) \in Card /\ SentOut(c).kind = c.kind
<1> DEFINE st == "tran"
           n == 0
<1>1. st \in CardState /\ n \in Int
  BY DEF CardState
<1>2. SentOut(c) = c \/ SentOut(c) = [c EXCEPT !.state = st, !.count = n]
  BY DEF SentOut
<1> HIDE DEF st, n
<1> QED
  BY <1>1, <1>2 DEF Card

LEMMA IntOutcome ==
  ASSUME Now \in World, NEW x \in sd_int(Now)
  PROVE  IntKept(x) /\ (IntGot(x) \/ IntLost(x))
<1> DEFINE w == Now
           got == [w EXCEPT !.host.left = @ - 1, !.card = AfterBlock(@)]
           lost == [w EXCEPT !.host.left = 0, !.card = SentOut(@)]
<1>1. /\ w.card = card /\ w.host = host /\ w.drv = drv /\ w.faults = faults
      /\ card \in Card /\ host \in Host /\ drv \in Drv /\ faults \in 0 .. MAX_FAULTS
  BY DEF World, Now
<1>2. ASSUME NEW v \in World, v.faults < MAX_FAULTS
      PROVE  /\ Fault(v) \in World /\ Fault(v).card = v.card /\ Fault(v).host = v.host
             /\ Fault(v).drv = v.drv /\ Fault(v).faults = v.faults + 1
  BY <1>2, Constants DEF Fault, World
<1>3. May(w) # {} => faults < MAX_FAULTS
  BY <1>1 DEF May
<1>4. ASSUME NEW v \in World, NEW e \in {"TIMEOUT", "ERROR"}
      PROVE  /\ Failed(v, e) \in World /\ Failed(v, e).card = v.card
             /\ Failed(v, e).host = v.host /\ Failed(v, e).faults = v.faults
             /\ Failed(v, e).drv.err = e /\ Failed(v, e).drv.rca = v.drv.rca
             /\ Failed(v, e).drv.scr = v.drv.scr
  BY DEF Failed, World, Drv, Error
<1>5. ASSUME NEW v \in World, NEW b \in BOOLEAN
      PROVE  LET z == [v EXCEPT !.host.err = b]
             IN /\ z \in World /\ z.card = v.card /\ z.drv = v.drv /\ z.faults = v.faults
                /\ z.host.left = v.host.left /\ z.host.clock = v.host.clock
                /\ z.host.blocks = v.host.blocks /\ z.host.words = v.host.words
  BY DEF World, Host
<1>6. /\ lost \in World /\ lost.card = SentOut(card) /\ lost.drv = drv /\ lost.faults = faults
      /\ lost.host.clock = host.clock /\ lost.host.blocks = host.blocks
      /\ lost.host.words = host.words
  BY <1>1, SentOutIsCard DEF World, Host
<1>7. Abandoned(w) = {w, lost}
  BY DEF Abandoned
<1>8. ASSUME NEW v \in Abandoned(w)
      PROVE  /\ v \in World /\ v.card \in {card, SentOut(card)} /\ v.drv = drv
             /\ v.faults = faults /\ v.host.clock = host.clock
             /\ v.host.blocks = host.blocks /\ v.host.words = host.words
             /\ v.card.kind = card.kind
  BY <1>1, <1>6, <1>7, SentOutIsCard
<1>9. Arrives(w) =>
        /\ got \in World /\ got.card = AfterBlock(card) /\ got.drv = drv /\ got.faults = faults
        /\ got.host.left = host.left - 1 /\ got.host.clock = host.clock
        /\ got.host.blocks = host.blocks /\ got.host.words = host.words
  <2> SUFFICES ASSUME Arrives(w)
               PROVE  /\ got \in World /\ got.card = AfterBlock(card) /\ got.drv = drv
                      /\ got.faults = faults /\ got.host.left = host.left - 1
                      /\ got.host.clock = host.clock
                      /\ got.host.blocks = host.blocks /\ got.host.words = host.words
    OBVIOUS
  <2>1. host.left > 0 /\ card.state = "data"
    BY <1>1 DEF Arrives
  <2>2. AfterBlock(card) \in Card
    BY <1>1, <2>1, AfterBlockIsCard
  <2>3. host.left - 1 \in Nat
    BY <1>1, <2>1 DEF Host
  <2> QED
    BY <1>1, <2>2, <2>3 DEF World, Host
<1> HIDE DEF w, got, lost
<1>10. ASSUME NEW v \in Abandoned(w), NEW e \in {"TIMEOUT", "ERROR"},
              x = Failed(v, e) \/ (x = Fault(Failed(v, e)) /\ May(w) # {})
       PROVE  IntKept(x) /\ IntLost(x)
  <2>1. x \in World /\ x.card = v.card /\ x.host = v.host /\ x.faults >= v.faults
        /\ x.drv = Failed(v, e).drv
    BY <1>2, <1>3, <1>4, <1>8, <1>10, <1>1
  <2> QED
    BY <1>4, <1>8, <2>1 DEF IntKept, IntLost
<1>11. ASSUME NEW v \in Abandoned(w), x = Failed([v EXCEPT !.host.err = FALSE], "ERROR")
       PROVE  IntKept(x) /\ IntLost(x)
  <2> DEFINE z == [v EXCEPT !.host.err = FALSE]
  <2>1. /\ z \in World /\ z.card = v.card /\ z.drv = v.drv /\ z.faults = v.faults
        /\ z.host.clock = v.host.clock /\ z.host.blocks = v.host.blocks
        /\ z.host.words = v.host.words
    BY <1>5, <1>8
  <2> HIDE DEF z
  <2>2. x = Failed(z, "ERROR")
    BY <1>11 DEF z
  <2> QED
    BY <1>1, <1>4, <1>8, <2>1, <2>2 DEF IntKept, IntLost
<1>12. ASSUME Arrives(w), x = got \/ (x = Fault([got EXCEPT !.host.err = TRUE]) /\ May(w) # {})
       PROVE  IntKept(x) /\ IntGot(x)
  <2> DEFINE z == [got EXCEPT !.host.err = TRUE]
  <2>1. /\ z \in World /\ z.card = got.card /\ z.drv = got.drv /\ z.faults = got.faults
        /\ z.host.left = got.host.left /\ z.host.clock = got.host.clock
        /\ z.host.blocks = got.host.blocks /\ z.host.words = got.host.words
    BY <1>5, <1>9, <1>12
  <2> HIDE DEF z
  <2>2. /\ x \in World /\ x.card = got.card /\ x.drv = got.drv /\ x.faults >= got.faults
        /\ x.host.left = got.host.left /\ x.host.clock = got.host.clock
        /\ x.host.blocks = got.host.blocks /\ x.host.words = got.host.words
    <3>1. x = got \/ (x = Fault(z) /\ May(w) # {})
      BY <1>12 DEF z
    <3> QED
      BY <1>1, <1>2, <1>3, <1>9, <1>12, <2>1, <3>1
  <2>3. card.state = "data"
    BY <1>1, <1>12 DEF Arrives
  <2> QED
    BY <1>1, <1>9, <1>12, <2>2, <2>3, AfterBlockIsCard DEF IntKept, IntGot, w
<1> QED
  BY <1>10, <1>11, <1>12 DEF sd_int, w, got

-----------------------------------------------------------------------------
(***************************************************************************)
(* The clock: the highest bit of the quotient less one, doubled by the     *)
(* controller, never makes more than the frequency asked for.              *)
(***************************************************************************)
LEMMA Rates ==
  ASSUME NEW v \in Nat
  PROVE  /\ Rate(Divisor(IDENT, v)) \in Nat /\ Rate(Divisor(IDENT, v)) <= IDENT
         /\ Rate(Divisor(FAST, v)) \in Nat /\ Rate(Divisor(FAST, v)) <= FAST
<1>1. BASE \div IDENT = 104 /\ BASE \div FAST = 1
  BY DEF BASE, IDENT, FAST
<1>2. Highest(103) = 64
  BY DEF Highest
<1>3. Divisor(IDENT, v) \in {64, 104} /\ Divisor(FAST, v) = 2
  BY <1>1, <1>2 DEF Divisor, Shifted
<1> QED
  BY <1>3 DEF Rate, BASE, IDENT, FAST

LEMMA ClkOutcome ==
  ASSUME Now \in World, NEW f \in {IDENT, FAST}, NEW x \in sd_clk(Now, f)
  PROVE  /\ x \in World /\ x.card = card /\ x.faults >= faults
         /\ x.drv.rca = drv.rca /\ x.drv.scr = drv.scr
         /\ x.host.left = host.left
         /\ x.host.clock <= f \/ (x.drv.r # 0 /\ x.host.clock = host.clock)
<1>1. /\ Now.card = card /\ Now.host = host /\ Now.drv = drv /\ Now.faults = faults
      /\ card \in Card /\ host \in Host /\ drv \in Drv /\ faults \in 0 .. MAX_FAULTS
  BY DEF World, Now
<1> DEFINE n == Rate(Divisor(f, host.version))
<1>2. n \in Nat /\ n <= f
  BY <1>1, Rates DEF Host
<1> HIDE DEF n
\* What the call leaves: a rate, a result and, if it fails, a fault more.
<1> DEFINE Leaves(c, r, k) ==
      [card |-> card, host |-> [host EXCEPT !.clock = c], drv |-> [drv EXCEPT !.r = r],
       faults |-> k]
<1>3. ASSUME NEW c \in Nat, NEW r \in {-1, 0, 1, 2}, NEW k \in 0 .. MAX_FAULTS
      PROVE  /\ Leaves(c, r, k) \in World /\ Leaves(c, r, k).card = card
             /\ Leaves(c, r, k).faults = k
             /\ Leaves(c, r, k).drv.rca = drv.rca /\ Leaves(c, r, k).drv.scr = drv.scr
             /\ Leaves(c, r, k).host.left = host.left
             /\ Leaves(c, r, k).drv.r = r /\ Leaves(c, r, k).host.clock = c
  <2> DEFINE h == [host EXCEPT !.clock = c]
             d == [drv EXCEPT !.r = r]
  <2>1. h \in Host /\ h.clock = c /\ h.left = host.left
    BY <1>1 DEF Host
  <2>2. d \in Drv /\ d.r = r /\ d.rca = drv.rca /\ d.scr = drv.scr
    BY <1>1 DEF Drv
  <2>3. Leaves(c, r, k) = [card |-> card, host |-> h, drv |-> d, faults |-> k]
    OBVIOUS
  <2> HIDE DEF h, d, Leaves
  <2> QED
    BY <1>1, <2>1, <2>2, <2>3 DEF World
<1>4. host.clock \in Nat /\ host = [host EXCEPT !.clock = host.clock] /\ faults \in Nat
  BY <1>1 DEF Host
<1>5. Now = [card |-> card, host |-> host, drv |-> drv, faults |-> faults]
  BY DEF Now
<1>6. CASE x = [[Now EXCEPT !.host.clock = n] EXCEPT !.drv.r = 0]
  <2>1. x = Leaves(n, 0, faults)
    BY <1>5, <1>6
  <2> HIDE DEF Leaves
  <2> QED
    BY <1>1, <1>2, <1>3, <1>4, <2>1
<1>7. CASE x = Fault([[Now EXCEPT !.host.clock = n] EXCEPT !.drv.r = -1]) /\ faults < MAX_FAULTS
  <2>1. x = Leaves(n, -1, faults + 1)
    BY <1>5, <1>7 DEF Fault
  <2>2. faults + 1 \in 0 .. MAX_FAULTS
    BY <1>1, <1>7, Constants
  <2> HIDE DEF Leaves
  <2> QED
    BY <1>1, <1>2, <1>3, <1>4, <2>1, <2>2
<1>8. CASE x = Fault([Now EXCEPT !.drv.r = -1]) /\ faults < MAX_FAULTS
  <2>1. x = Leaves(host.clock, -1, faults + 1)
    BY <1>4, <1>5, <1>8 DEF Fault
  <2>2. faults + 1 \in 0 .. MAX_FAULTS
    BY <1>1, <1>8, Constants
  <2> HIDE DEF Leaves
  <2> QED
    BY <1>1, <1>3, <1>4, <2>1, <2>2
<1> QED
  BY <1>1, <1>6, <1>7, <1>8 DEF sd_clk, May, n

-----------------------------------------------------------------------------
(***************************************************************************)
(* sd_init().                                                              *)
(***************************************************************************)
\* What every step of it leaves behind, whether it goes on or gives up.
Safe(w) ==
  /\ w \in World /\ Sound(w.card, FALSE, w.drv.scr.blkcnt)
  /\ w.host.clock <= FAST
  /\ w.card.state \in Unaddressed => w.host.clock <= IDENT

LEMMA Stepped ==
  ASSUME NEW w \in World, Step(w)
  PROVE  /\ Now' \in World /\ card' = w.card /\ host' = w.host /\ drv' = w.drv
         /\ faults' = w.faults
BY DEF Step, Now, World

LEMMA JobReturned ==
  ASSUME job \in Job, NEW call \in {"init", "read"}, NEW ret \in {"failed", "read"} \cup Error
  PROVE  LET j == [job EXCEPT !.call = call, !.ret = ret]
         IN /\ j \in Job /\ j.call = call /\ j.ret = ret /\ j.buf = job.buf /\ j.num = job.num
            /\ j.lba = job.lba /\ j.c = job.c /\ j.ccs = job.ccs
BY DEF Job

\* sd_init() gives up, and the drive stays uninitialised.
LEMMA InitFails ==
  ASSUME IInv, ~stat, NEW w, Safe(w), NEW err \in {"TIMEOUT", "ERROR"}, InitReturns(w, err)
  PROVE  IInv'
<1>1. /\ Now' \in World /\ card' = w.card /\ host' = w.host /\ drv' = w.drv /\ faults' = w.faults
  BY Stepped DEF Safe, InitReturns
<1>2. stat' = FALSE /\ pc' = "idle"
  BY DEF InitReturns, IInv, Types
<1>3. job \in Job
  BY DEF IInv, Types
<1>4. /\ job' \in Job /\ job'.call = "init" /\ job'.ret = err
      /\ job'.buf = job.buf /\ job'.num = job.num
  BY <1>3, JobReturned DEF InitReturns, Error
<1>5. Types'
  BY <1>1, <1>2, <1>4 DEF Types
<1>6. CardTrue'
  BY <1>1, <1>2 DEF CardTrue, Safe, Sound
<1>7. Initialising'
  BY <1>2 DEF Initialising, Initialises, Identifies
<1>8. Clocked'
  BY <1>1, <1>2 DEF Clocked, ClockInSpec, Safe, Unaddressed, Identifies
<1>9. Filling'
  BY <1>2, <1>4 DEF Filling, IInv, Reading
<1>10. Results'
  BY <1>4 DEF Results, InitAgrees, BlocksRight, ReadCloses
<1> QED
  BY <1>5, <1>6, <1>7, <1>8, <1>9, <1>10 DEF IInv

\* sd_init() goes on at another point.
LEMMA InitGoes ==
  ASSUME IInv, ~stat, NEW w, Safe(w), Step(w), NEW to \in Initialises, pc' = to,
         stat' = stat, job' \in Job, job'.buf = job.buf, job'.num = job.num,
         Initialising', to \in (Identifies \ {"clk"}) \cup {"fast"} => w.host.clock <= IDENT
  PROVE  IInv'
<1>1. /\ Now' \in World /\ card' = w.card /\ host' = w.host /\ drv' = w.drv /\ faults' = w.faults
  BY Stepped DEF Safe
<1>2. stat' = FALSE /\ pc' # "idle" /\ pc' \notin Reading
  BY DEF IInv, Types, Initialises, Identifies, Reading
<1>3. Types'
  BY <1>1, <1>2 DEF Types
<1>4. CardTrue'
  BY <1>1, <1>2 DEF CardTrue, Safe, Sound
<1>5. Clocked'
  BY <1>1, <1>2 DEF Clocked, ClockInSpec, Safe, Unaddressed
<1>6. Filling'
  BY <1>2 DEF Filling, IInv, Reading
<1>7. Results'
  BY <1>2 DEF Results, InitAgrees, BlocksRight, ReadCloses
<1> QED
  BY <1>3, <1>4, <1>5, <1>6, <1>7 DEF IInv

\* sd_init() has succeeded: the drive is initialised, driver and card agree.
LEMMA InitSucceeds ==
  ASSUME IInv, ~stat, NEW w, Safe(w), InitReturns(w, "OK"),
         w.card.state = "tran", w.host.left = 0, w.drv.rca = 1,
         w.drv.scr.ccs = w.card.kind.ccs, w.drv.scr.blkcnt = w.card.kind.blkcnt
  PROVE  IInv'
<1>1. /\ Now' \in World /\ card' = w.card /\ host' = w.host /\ drv' = w.drv /\ faults' = w.faults
  BY Stepped DEF Safe, InitReturns
<1>2. stat' = TRUE /\ pc' = "idle"
  BY DEF InitReturns, IInv, Types
<1>3. job \in Job
  BY DEF IInv, Types
<1>4. /\ job' \in Job /\ job'.call = "init" /\ job'.ret = "OK"
      /\ job'.buf = job.buf /\ job'.num = job.num
  BY <1>3, JobReturned DEF InitReturns, Error
<1>5. w.card.rca = 1 /\ w.card.count = 0
  BY DEF Safe, Sound, Unaddressed
<1>6. Types'
  BY <1>1, <1>2, <1>4 DEF Types
<1>7. CardTrue'
  BY <1>1, <1>2, <1>5 DEF CardTrue, Sound, Unaddressed
<1>8. Initialising'
  BY <1>2 DEF Initialising, Initialises, Identifies
<1>9. Clocked'
  BY <1>1, <1>2 DEF Clocked, ClockInSpec, Safe, Unaddressed, Identifies
<1>10. Filling'
  BY <1>1, <1>2, <1>4 DEF Filling, IInv, Reading, Usable
<1>11. Results'
  BY <1>1, <1>4, <1>5 DEF Results, InitAgrees, BlocksRight, ReadCloses
<1> QED
  BY <1>6, <1>7, <1>8, <1>9, <1>10, <1>11 DEF IInv

\* A command of sd_init() leaves the card sound, and identified once it is.
LEMMA OutcomeSafe ==
  ASSUME NEW w \in World, NEW code \in Code \ {"SET_BLOCKCNT"}, NEW arg \in Int, NEW x,
         Outcome(w, x, code, arg), Sound(w.card, FALSE, w.drv.scr.blkcnt)
  PROVE  /\ x \in World /\ Sound(x.card, FALSE, x.drv.scr.blkcnt)
         /\ x.host.clock = w.host.clock
         /\ code # "GO_IDLE" /\ x.card.state \in Unaddressed => w.card.state \in Unaddressed
<1>1. w.card \in Card /\ w.host \in Host /\ w.drv.scr.blkcnt \in BOOLEAN
  BY DEF World, Drv, Scr
<1>2. x \in World /\ x.host.clock = w.host.clock /\ x.drv.scr = w.drv.scr
  BY <1>1 DEF Outcome, Kept, Host
<1>3. x.card = w.card \/ (Takes(w.card, code, arg)
        /\ x.card \in {Executed(w.card, code, arg), SentOut(Executed(w.card, code, arg)),
                       Refused(w.card)})
  BY DEF Outcome, Taken, Refusing, Missed, Broken
<1>4. Sound(x.card, FALSE, w.drv.scr.blkcnt)
  BY <1>1, <1>3, ExecutedSound
<1>5. ASSUME code # "GO_IDLE", Takes(w.card, code, arg)
      PROVE  LET d == Executed(w.card, code, arg)
             IN d.state \in Unaddressed => w.card.state \in Unaddressed
  <2>1. CASE code \in {"SEND_IF_COND", "APP_CMD", "SET_BUS_WIDTH"}
    BY <1>1, <2>1 DEF Executed, Card
  <2>2. CASE code \in {"SEND_OP_COND", "ALL_SEND_CID"}
    BY <1>5, <2>2 DEF Takes, Unaddressed
  <2>3. CASE code \in {"SEND_REL_ADDR", "CARD_SELECT", "STOP_TRANS"}
    BY <1>1, <2>3 DEF Executed, Card, Unaddressed
  <2>4. CASE code \in {"SEND_SCR", "READ_SINGLE", "READ_MULTI"}
    BY <1>1, <2>4 DEF Executed, Sends, Card, Unaddressed
  <2> QED
    BY <1>5, <2>1, <2>2, <2>3, <2>4 DEF Code
<1>6. ASSUME NEW d \in Card, SentOut(d).state \in Unaddressed PROVE d.state \in Unaddressed
  BY <1>6 DEF SentOut, Card, Unaddressed
<1>7. Executed(w.card, code, arg) \in Card /\ Refused(w.card).state = w.card.state
  BY <1>1, ExecutedIsCard
<1> QED
  BY <1>2, <1>3, <1>4, <1>5, <1>6, <1>7

LEMMA InvFacts ==
  ASSUME IInv
  PROVE  /\ Now \in World /\ Now.card = card /\ Now.host = host /\ Now.drv = drv
         /\ Now.faults = faults /\ card \in Card /\ host \in Host /\ drv \in Drv
         /\ faults \in 0 .. MAX_FAULTS /\ job \in Job /\ stat \in BOOLEAN
         /\ pc \in Initialises => ~stat
         /\ ~stat => Safe(Now)
<1>1. /\ Now \in World /\ Now.card = card /\ Now.host = host /\ Now.drv = drv
      /\ Now.faults = faults /\ card \in Card /\ host \in Host /\ drv \in Drv
      /\ faults \in 0 .. MAX_FAULTS /\ job \in Job /\ stat \in BOOLEAN
  BY DEF IInv, Types, World, Now
<1>2. pc \in Initialises => ~stat
  BY DEF IInv, Initialising
<1>3. ~stat => Safe(Now)
  BY <1>1 DEF IInv, CardTrue, Clocked, ClockInSpec, Safe, Sound, Unaddressed
<1> QED
  BY <1>1, <1>2, <1>3

\* A command of sd_init() after which the controller has the clock it had.
LEMMA InitCommand ==
  ASSUME IInv, pc \in Initialises, NEW code \in Code \ {"GO_IDLE", "SET_BLOCKCNT"},
         NEW arg \in Int, NEW x \in sd_cmd(Now, code, arg)
  PROVE  /\ Safe(x) /\ CmdKept(x)
         /\ \/ CmdTaken(x, code, arg) \/ CmdRefused(x, code, arg)
            \/ CmdMissed(x, code) \/ CmdBroken(x, code, arg)
<1>1. Now \in World /\ Safe(Now)
  BY InvFacts
<1>2. /\ CmdKept(x)
      /\ \/ CmdTaken(x, code, arg) \/ CmdRefused(x, code, arg)
         \/ CmdMissed(x, code) \/ CmdBroken(x, code, arg)
  BY <1>1, InvFacts, CmdOutcome
<1>3. /\ Clear(Now) \in World /\ Clear(Now).card = card /\ Clear(Now).host = host
      /\ Clear(Now).drv.scr = drv.scr
  BY <1>1, InvFacts, Cleared
<1>4. Outcome(Clear(Now), x, code, arg)
  BY <1>3, SendOutcome DEF sd_cmd
<1>5. /\ x \in World /\ Sound(x.card, FALSE, x.drv.scr.blkcnt) /\ x.host.clock = host.clock
      /\ x.card.state \in Unaddressed => card.state \in Unaddressed
  BY <1>1, <1>3, <1>4, InvFacts, OutcomeSafe DEF Safe
<1>6. Safe(x)
  BY <1>1, <1>5, InvFacts DEF Safe
<1> QED
  BY <1>2, <1>6

\* An application command of sd_init(): after the APP_CMD there is a state a.
AppKept(x) ==
  /\ x.card.kind = card.kind /\ x.drv.rca = drv.rca /\ x.drv.scr = drv.scr
  /\ x.drv.err \in {"OK", "TIMEOUT", "ERROR"}
  /\ x.host.clock = host.clock /\ x.host.words = host.words
AppCmd(a) ==
  /\ a \in World /\ AppKept(a) /\ Safe(a)
  /\ a.card.state = card.state /\ a.card.warm = card.warm /\ a.host.left = host.left
  /\ drv.rca # 0 /\ a.drv.r # 0 => a.drv.err = "OK"

LEMMA InitAppCommand ==
  ASSUME IInv, pc \in Initialises,
         NEW code \in {"SEND_OP_COND", "SEND_SCR", "SET_BUS_WIDTH"}, NEW arg \in Int,
         NEW x \in sd_acmd(Now, code, arg)
  PROVE  /\ Safe(x) /\ AppKept(x)
         /\ \/ /\ x.drv.err = "ERROR" /\ drv.rca # 0
            \/ \E a : /\ AppCmd(a) /\ (drv.rca # 0 => a.drv.err = "OK")
                      /\ \/ Taken(a, x, code, arg) \/ Refusing(a, x, code, arg)
                         \/ Missed(a, x, code) \/ Broken(a, x, code, arg)
<1> DEFINE v == Clear(Clear(Now))
<1>1. Now \in World /\ Safe(Now) /\ drv.rca \in Int
  BY InvFacts DEF Drv
<1>2. /\ v \in World /\ v.card = card /\ v.host = host /\ v.drv.rca = drv.rca
      /\ v.drv.scr = drv.scr /\ v.drv.err = "OK"
  BY <1>1, InvFacts, Cleared
<1>3. PICK a \in World :
        /\ Outcome(v, a, "APP_CMD", drv.rca)
        /\ IF a.drv.rca # 0 /\ a.drv.r = 0 THEN x = Failed(a, "ERROR")
           ELSE Outcome(a, x, code, arg)
  BY <1>1, InvFacts, AppOutcome DEF Code
<1> HIDE DEF v
<1>4. Safe(a) /\ a.host.clock = host.clock
  <2>1. /\ Sound(a.card, FALSE, a.drv.scr.blkcnt) /\ a.host.clock = host.clock
        /\ a.card.state \in Unaddressed => card.state \in Unaddressed
    <3>1. Sound(v.card, FALSE, v.drv.scr.blkcnt)
      BY <1>1, <1>2, InvFacts DEF Safe
    <3>2. "APP_CMD" \in Code \ {"SET_BLOCKCNT"} /\ "APP_CMD" # "GO_IDLE"
      BY DEF Code
    <3> QED
      BY <1>1, <1>2, <1>3, <3>1, <3>2, OutcomeSafe
  <2> QED
    BY <1>1, <2>1, InvFacts DEF Safe
<1>5. /\ a.card.kind = card.kind /\ a.drv.rca = drv.rca /\ a.drv.scr = drv.scr
      /\ a.host.words = host.words
  BY <1>2, <1>3, InvFacts DEF Outcome, Kept, Host
<1>6. a.drv.err \in {"OK", "TIMEOUT", "ERROR"}
  BY <1>2, <1>3 DEF Outcome, Taken, Refusing, Missed, Broken
<1>7. CASE a.drv.rca # 0 /\ a.drv.r = 0
  <2>1. x = Failed(a, "ERROR")
    BY <1>3, <1>7
  <2>2. /\ x \in World /\ x.card = a.card /\ x.host = a.host /\ x.drv.err = "ERROR"
        /\ x.drv.rca = a.drv.rca /\ x.drv.scr = a.drv.scr
    BY <2>1 DEF Failed, World, Drv, Error
  <2> QED
    BY <1>4, <1>5, <1>7, <2>2 DEF Safe, AppKept
<1>8. CASE ~(a.drv.rca # 0 /\ a.drv.r = 0)
  <2>1. Outcome(a, x, code, arg)
    BY <1>3, <1>8
  <2>2. /\ x \in World /\ Sound(x.card, FALSE, x.drv.scr.blkcnt) /\ x.host.clock = host.clock
        /\ x.card.state \in Unaddressed => a.card.state \in Unaddressed
    BY <1>4, <2>1, OutcomeSafe DEF Safe, Code
  <2>3. Safe(x)
    BY <1>4, <2>2 DEF Safe
  <2>4. x.drv.err \in {"OK", "TIMEOUT", "ERROR"}
    BY <1>6, <2>1 DEF Outcome, Taken, Refusing, Missed, Broken
  <2>5. AppKept(x)
    <3>1. a.host \in Host
      BY DEF World
    <3> QED
      BY <1>5, <2>1, <2>2, <2>4, <3>1 DEF AppKept, Outcome, Kept, Host
  <2>6. ~Broken(v, a, "APP_CMD", drv.rca)
    BY <1>2, <1>5, <1>8 DEF Broken, NoAnswer
  <2>7. Executed(card, "APP_CMD", drv.rca) = [card EXCEPT !.app = TRUE]
    BY DEF Executed
  <2>8. a.card.state = card.state /\ a.card.warm = card.warm
    BY <1>2, <1>3, <2>6, <2>7, InvFacts DEF Outcome, Taken, Refusing, Missed, Refused, Card
  <2>9. a.host.left = host.left
    BY <1>2, <1>3, <2>6 DEF Outcome, Taken, Refusing, Missed, OpenFor, Data
  <2>10. drv.rca # 0 => a.drv.err = "OK"
    BY <1>2, <1>3, <1>5, <1>8, <2>6 DEF Outcome, Taken, Refusing, Missed, NoAnswer
  <2>11. AppCmd(a)
    BY <1>4, <1>5, <1>6, <2>8, <2>9, <2>10 DEF AppCmd, AppKept
  <2> QED
    BY <2>1, <2>3, <2>5, <2>10, <2>11 DEF Outcome
<1> QED
  BY <1>7, <1>8

\* Each step of sd_init() preserves the invariant.
LEMMA ResetKeeps ==
  ASSUME IInv, Reset PROVE IInv'
<1>1. pc = "idle" /\ ~stat /\ Safe(Now)
  BY InvFacts DEF Reset
<1>2. PICK v \in Versions :
        LET w == [Now EXCEPT !.host = [@ EXCEPT !.err = FALSE, !.left = 0, !.width = 1,
                                               !.version = v]]
        IN Go(w, "clk")
           \/ \E f \in May(w) \cap {"unstable"} : InitReturns(Fault(w), "ERROR")
  BY DEF Reset
<1> DEFINE h == [host EXCEPT !.err = FALSE, !.left = 0, !.width = 1, !.version = v]
           w == [card |-> card, host |-> h, drv |-> drv, faults |-> faults]
<1>3. h \in Host /\ h.clock = host.clock
  <2> DEFINE zero == 0
             one == 1
  <2>1. zero \in Nat /\ one \in {1, 4} /\ v \in Nat
    BY Constants
  <2>2. h = [host EXCEPT !.err = FALSE, !.left = zero, !.width = one, !.version = v]
    OBVIOUS
  <2> HIDE DEF zero, one, h
  <2> QED
    BY <2>1, <2>2, InvFacts DEF Host
<1>4. w = [Now EXCEPT !.host = [@ EXCEPT !.err = FALSE, !.left = 0, !.width = 1, !.version = v]]
  BY DEF Now
<1> HIDE DEF h
<1>5. Safe(w)
  BY <1>1, <1>3, InvFacts DEF Safe, World
<1>6. w.faults = faults
  OBVIOUS
<1>7. \/ Go(w, "clk")
      \/ faults < MAX_FAULTS /\ InitReturns(Fault(w), "ERROR")
  BY <1>2, <1>4, <1>6 DEF May
<1> HIDE DEF w
<1>8. CASE Go(w, "clk")
  <2>1. pc' = "clk" /\ job' = job /\ stat' = stat /\ Step(w)
    BY <1>8 DEF Go
  <2>2. "clk" \in Initialises /\ "clk" \notin (Identifies \ {"clk"}) \cup {"fast"}
    BY DEF Initialises, Identifies
  <2>3. Initialising'
    BY <1>1, <2>1 DEF Initialising, Initialises, Identifies
  <2> QED
    BY <1>1, <1>5, <2>1, <2>2, <2>3, InitGoes, InvFacts
<1>9. CASE faults < MAX_FAULTS /\ InitReturns(Fault(w), "ERROR")
  <2>1. /\ Fault(w) \in World /\ Fault(w).card = w.card /\ Fault(w).host = w.host
        /\ Fault(w).drv = w.drv
    BY <1>5, <1>6, <1>9, Constants DEF Fault, World, Safe
  <2>2. Safe(Fault(w))
    BY <1>5, <2>1 DEF Safe
  <2> QED
    BY <1>1, <1>9, <2>2, InitFails
<1> QED
  BY <1>7, <1>8, <1>9

LEMMA ClockKeeps ==
  ASSUME IInv, NEW f \in {IDENT, FAST}, NEW from, NEW to, Clock(from, f, to),
         \/ from = "clk" /\ f = IDENT /\ to = "cmd0"
         \/ from = "fast" /\ f = FAST /\ to = "cmd7"
  PROVE  IInv'
<1>1. from \in Initialises /\ to \in Initialises /\ pc = from
  BY DEF Initialises, Identifies, Clock
<1>2. ~stat /\ Safe(Now) /\ Now \in World
  BY <1>1, InvFacts
<1>3. PICK x \in sd_clk(Now, f) : IF x.drv.r = 0 THEN Go(x, to) ELSE InitReturns(x, "ERROR")
  BY DEF Clock
<1>4. /\ x \in World /\ x.card = card /\ x.faults >= faults
      /\ x.drv.rca = drv.rca /\ x.drv.scr = drv.scr
      /\ x.host.left = host.left
      /\ x.host.clock <= f \/ (x.drv.r # 0 /\ x.host.clock = host.clock)
  BY <1>2, ClkOutcome
<1>5. IDENT \in Nat /\ FAST \in Nat /\ IDENT <= FAST
  BY DEF IDENT, FAST
<1>6. pc = "fast" => card.state = "stby" /\ drv.rca = 1 /\ job.ccs = card.kind.ccs
  BY DEF IInv, Initialising, Initialises, Identifies
<1>7. Safe(x)
  <2>1. Sound(x.card, FALSE, x.drv.scr.blkcnt)
    BY <1>2, <1>4, InvFacts DEF Safe
  <2>2. CASE x.host.clock <= f /\ from = "clk"
    <3>1. x.host.clock \in Nat /\ x.host.clock <= IDENT
      <4>1. f = IDENT
        BY <2>2
      <4> QED
        BY <1>4, <2>2, <4>1 DEF World, Host
    <3> QED
      <4>1. x.host.clock <= FAST
        BY <1>5, <3>1
      <4> QED
        BY <1>4, <2>1, <3>1, <4>1 DEF Safe
  <2>3. CASE x.host.clock <= f /\ from = "fast"
    BY <1>1, <1>4, <1>6, <2>1, <2>3 DEF Safe, Unaddressed
  <2>4. CASE x.host.clock = host.clock
    BY <1>2, <1>4, <2>1, <2>4, InvFacts DEF Safe
  <2> QED
    BY <1>4, <2>2, <2>3, <2>4
<1>8. CASE x.drv.r = 0
  <2>1. pc' = to /\ job' = job /\ stat' = stat /\ Step(x)
    BY <1>3, <1>8 DEF Go
  <2>2. card' = card /\ drv'.rca = drv.rca
    BY <1>4, <2>1, Stepped
  <2>3. Initialising'
    BY <1>1, <1>2, <1>6, <2>1, <2>2 DEF Initialising, Initialises, Identifies
  <2>4. to \in (Identifies \ {"clk"}) \cup {"fast"} => x.host.clock <= IDENT
    BY <1>4, <1>8 DEF Identifies
  <2> QED
    BY <1>1, <1>2, <1>7, <2>1, <2>3, <2>4, InitGoes, InvFacts
<1>9. CASE x.drv.r # 0
  BY <1>2, <1>3, <1>7, <1>9, InitFails
<1> QED
  BY <1>8, <1>9

LEMMA GoIdleKeeps ==
  ASSUME IInv, GoIdle PROVE IInv'
<1> DEFINE w == [Now EXCEPT !.drv = Fresh]
<1>1. pc = "cmd0" /\ pc \in Initialises /\ ~stat /\ Safe(Now)
  BY InvFacts DEF GoIdle, Initialises, Identifies
<1>2. PICK x \in sd_cmd(w, "GO_IDLE", 0) : Then(x, "cmd8")
  BY DEF GoIdle, Forgotten
<1>3. Fresh \in Drv /\ Fresh.scr = NoScr /\ Fresh.rca = 0
  <2> DEFINE zero == 0
             ok == "OK"
  <2>1. zero \in {0, 1} /\ zero \in {-1, 0, 1, 2} /\ ok \in Error
    BY DEF Error
  <2>2. NoScr \in Scr
    BY DEF NoScr, Scr
  <2>3. Fresh = [err |-> ok, rca |-> zero, scr |-> NoScr, r |-> zero]
    BY DEF Fresh
  <2> HIDE DEF zero, ok
  <2>4. Fresh \in Drv /\ Fresh.scr = NoScr /\ Fresh.rca = zero
    BY <2>1, <2>2, <2>3 DEF Drv
  <2> QED
    BY <2>4 DEF zero
<1>4. w \in World /\ w.card = card /\ w.host = host /\ w.drv = Fresh
  BY <1>3, InvFacts DEF World
<1> HIDE DEF w
<1>5. /\ Clear(w) \in World /\ Clear(w).card = card /\ Clear(w).host = host
      /\ Clear(w).drv.scr = NoScr /\ Clear(w).drv.rca = 0 /\ Clear(w).drv.err = "OK"
  BY <1>3, <1>4, Cleared
<1>6. Outcome(Clear(w), x, "GO_IDLE", 0)
  BY <1>2, <1>5, SendOutcome DEF sd_cmd, Code
<1>7. /\ x \in World /\ Sound(x.card, FALSE, x.drv.scr.blkcnt) /\ x.host.clock = host.clock
  <2>1. Sound(card, FALSE, NoScr.blkcnt)
    BY <1>1, InvFacts DEF Safe, Sound
  <2> QED
    <3>1. "GO_IDLE" \in Code \ {"SET_BLOCKCNT"} /\ 0 \in Int
      BY DEF Code
    <3> QED
      BY <1>5, <1>6, <2>1, <3>1, OutcomeSafe
<1>8. x.drv.rca = 0 /\ x.drv.scr = NoScr
  BY <1>5, <1>6 DEF Outcome, Kept
<1>9. x.drv.err \in {"OK", "TIMEOUT", "ERROR"}
  BY <1>5, <1>6 DEF Outcome, Taken, Refusing, Missed, Broken
<1>10. host.clock <= IDENT
  BY <1>1 DEF IInv, Clocked, Identifies
<1>11. Safe(x)
  BY <1>1, <1>7, <1>10, InvFacts DEF Safe
<1>12. CASE Ok(x)
  <2>1. pc' = "cmd8" /\ job' = job /\ stat' = stat /\ Step(x)
    BY <1>2, <1>12 DEF Then, Go
  <2>2. drv' = x.drv
    BY <1>7, <2>1, Stepped
  <2>3. Initialising'
    BY <1>1, <1>8, <2>1, <2>2 DEF Initialising, Initialises, Identifies
  <2>4. "cmd8" \in Initialises
    BY DEF Initialises, Identifies
  <2> QED
    BY <1>1, <1>7, <1>10, <1>11, <2>1, <2>3, <2>4, InitGoes, InvFacts
<1>13. CASE ~Ok(x)
  BY <1>1, <1>2, <1>9, <1>11, <1>13, InitFails DEF Then, Ok
<1> QED
  BY <1>12, <1>13

\* What a failed command returns is a failure of sd_init(), unless it is CMD3's flags.
LEMMA InitErr ==
  ASSUME NEW x, NEW code \in Code \ {"SEND_REL_ADDR"}, NEW arg,
         \/ CmdTaken(x, code, arg) \/ CmdRefused(x, code, arg)
         \/ CmdMissed(x, code) \/ CmdBroken(x, code, arg)
  PROVE  x.drv.err \in {"OK", "TIMEOUT", "ERROR"}
<1>1. CmdTaken(x, code, arg) => x.drv.err = "OK"
  BY DEF CmdTaken
<1>2. CmdRefused(x, code, arg) => x.drv.err = "OK"
  BY DEF CmdRefused
<1>3. CmdMissed(x, code) => x.drv.err \in {"OK", "TIMEOUT"}
  BY DEF CmdMissed
<1>4. CmdBroken(x, code, arg) => x.drv.err \in {"TIMEOUT", "ERROR"}
  BY DEF CmdBroken
<1> QED
  BY <1>1, <1>2, <1>3, <1>4

LEMMA SendIfCondKeeps ==
  ASSUME IInv, SendIfCond PROVE IInv'
<1>1. pc = "cmd8" /\ pc \in Initialises /\ ~stat
  BY InvFacts DEF SendIfCond, Initialises, Identifies
<1>2. PICK x \in sd_cmd(Now, "SEND_IF_COND", 0) :
        IF Ok(x) THEN Step(x) /\ pc' = "acmd41" /\ job' = [job EXCEPT !.c = TRIES] /\ stat' = stat
        ELSE InitReturns(x, x.drv.err)
  BY DEF SendIfCond
<1>3. /\ Safe(x) /\ CmdKept(x)
      /\ \/ CmdTaken(x, "SEND_IF_COND", 0) \/ CmdRefused(x, "SEND_IF_COND", 0)
         \/ CmdMissed(x, "SEND_IF_COND") \/ CmdBroken(x, "SEND_IF_COND", 0)
  BY <1>1, InitCommand DEF Code
<1>4. x.drv.err \in {"OK", "TIMEOUT", "ERROR"}
  BY <1>3, InitErr DEF Code
<1>5. CASE Ok(x)
  <2>1. /\ Step(x) /\ pc' = "acmd41" /\ job' = [job EXCEPT !.c = TRIES] /\ stat' = stat
    BY <1>2, <1>5
  <2>2. x \in World /\ x.drv.rca = drv.rca /\ x.drv.scr = drv.scr /\ x.host.clock = host.clock
    BY <1>3 DEF CmdKept
  <2>3. drv' = x.drv /\ card' = x.card
    BY <2>1, <2>2, Stepped
  <2>4. /\ job' \in Job /\ job'.buf = job.buf /\ job'.num = job.num /\ job'.c = TRIES
    BY <2>1, InvFacts, Constants DEF Job
  <2>5. drv.rca = 0 /\ drv.scr = NoScr /\ host.clock <= IDENT
    BY <1>1 DEF IInv, Initialising, Clocked, Identifies
  <2>6. x.card.state = "idle"
    <3>1. Takes(card, "SEND_IF_COND", 0)
            /\ (x.card = Executed(card, "SEND_IF_COND", 0) \/ x.card = Refused(card))
      BY <1>3, <1>5 DEF CmdTaken, CmdRefused, CmdMissed, CmdBroken, NoAnswer, Ok
    <3> QED
      BY <3>1, InvFacts DEF Takes, Executed, Refused, Card
  <2>7. Initialising'
    BY <1>1, <2>1, <2>2, <2>3, <2>4, <2>5, <2>6, Constants
    DEF Initialising, Initialises, Identifies
  <2>8. "acmd41" \in Initialises
    BY DEF Initialises, Identifies
  <2> QED
    BY <1>1, <1>3, <2>1, <2>2, <2>4, <2>5, <2>7, <2>8, InitGoes
<1>6. CASE ~Ok(x)
  BY <1>1, <1>2, <1>3, <1>4, <1>6, InitFails DEF Ok
<1> QED
  BY <1>5, <1>6

LEMMA SendOpCondKeeps ==
  ASSUME IInv, SendOpCond PROVE IInv'
<1>1. pc = "acmd41" /\ pc \in Initialises /\ ~stat /\ job \in Job
  BY InvFacts DEF SendOpCond, Initialises, Identifies
<1>2. drv.rca = 0 /\ drv.scr = NoScr /\ host.clock <= IDENT
      /\ card.state \in {"idle", "ready"} /\ job.c \in 1 .. TRIES
  BY <1>1 DEF IInv, Initialising, Clocked, Identifies
<1> DEFINE cnt == job.c - 1
<1>3. PICK x \in sd_acmd(Now, "SEND_OP_COND", 0) :
        IF x.drv.err \notin {"OK", "TIMEOUT"} THEN InitReturns(x, x.drv.err)
        ELSE IF cnt = 0 THEN InitReturns(x, "TIMEOUT")
        ELSE IF x.drv.r # 0 /\ ~card.kind.volts THEN InitReturns(x, "ERROR")
        ELSE /\ Step(x) /\ stat' = stat
             /\ pc' = IF x.drv.r = 0 THEN "acmd41" ELSE "cmd2"
             /\ job' = [job EXCEPT !.c = cnt, !.ccs = x.drv.r = 2]
  BY DEF SendOpCond, Tried
<1>4. Safe(x) /\ AppKept(x)
  BY <1>1, InitAppCommand
<1>5. PICK a : /\ AppCmd(a)
               /\ \/ Taken(a, x, "SEND_OP_COND", 0) \/ Refusing(a, x, "SEND_OP_COND", 0)
                  \/ Missed(a, x, "SEND_OP_COND") \/ Broken(a, x, "SEND_OP_COND", 0)
  BY <1>1, <1>2, InitAppCommand
<1>6. /\ a.card \in Card /\ a.card.state \in {"idle", "ready"} /\ a.card.kind = card.kind
      /\ x \in World /\ x.card \in Card /\ x.card.kind = card.kind
      /\ x.drv.scr = drv.scr /\ x.drv.rca = 0 /\ x.host.clock = host.clock
  BY <1>2, <1>4, <1>5 DEF AppCmd, AppKept, Safe, World
<1>7. /\ x.card.state \in {"idle", "ready"}
      /\ x.drv.r # 0 => x.card.state = "ready" /\ (x.drv.r = 2 <=> x.card.kind.ccs)
  <2>1. CASE Taken(a, x, "SEND_OP_COND", 0)
    <3>1. x.card = Executed(a.card, "SEND_OP_COND", 0) /\ x.drv = Reply(x, "SEND_OP_COND").drv
          /\ a.card.state = "idle"
      BY <2>1 DEF Taken, Takes
    <3>2. x.card.state \in {"idle", "ready"}
      BY <1>6, <3>1 DEF Executed, Card
    <3>3. x.drv \in Drv
      BY <1>6 DEF World
    <3>4. x.drv.r = IF x.card.state # "ready" THEN 0 ELSE IF x.card.kind.ccs THEN 2 ELSE 1
      <4> DEFINE r == IF x.card.state # "ready" THEN 0 ELSE IF x.card.kind.ccs THEN 2 ELSE 1
      <4>1. Reply(x, "SEND_OP_COND") = [x EXCEPT !.drv.r = r]
        BY DEF Reply
      <4> HIDE DEF r
      <4>2. x.drv = [x.drv EXCEPT !.r = r]
        BY <1>6, <3>1, <4>1 DEF World
      <4>3. x.drv.r = r
        BY <3>3, <4>2 DEF Drv
      <4> QED
        BY <4>3 DEF r
    <3> QED
      BY <3>2, <3>4
  <2>2. CASE Refusing(a, x, "SEND_OP_COND", 0)
    BY <1>6, <2>2 DEF Refusing
  <2>3. CASE Missed(a, x, "SEND_OP_COND")
    BY <1>6, <2>3 DEF Missed, NoAnswer
  <2>4. CASE Broken(a, x, "SEND_OP_COND", 0)
    <3>1. x.drv.r = 0 /\ a.card.state = "idle"
          /\ x.card \in {Executed(a.card, "SEND_OP_COND", 0),
                         SentOut(Executed(a.card, "SEND_OP_COND", 0))}
      BY <2>4 DEF Broken, Takes
    <3>2. Executed(a.card, "SEND_OP_COND", 0).state \in {"idle", "ready"}
      BY <1>6, <3>1 DEF Executed, Card
    <3> QED
      BY <3>1, <3>2 DEF SentOut
  <2> QED
    BY <1>5, <2>1, <2>2, <2>3, <2>4
<1>8. CASE x.drv.err \notin {"OK", "TIMEOUT"}
  BY <1>1, <1>3, <1>4, <1>8, InitFails DEF AppKept
<1>9. CASE InitReturns(x, "TIMEOUT") \/ InitReturns(x, "ERROR")
  BY <1>1, <1>3, <1>4, <1>9, InitFails
<1>10. CASE /\ x.drv.err \in {"OK", "TIMEOUT"} /\ cnt # 0
            /\ ~(x.drv.r # 0 /\ ~card.kind.volts)
  <2>1. /\ Step(x) /\ stat' = stat
        /\ pc' = IF x.drv.r = 0 THEN "acmd41" ELSE "cmd2"
        /\ job' = [job EXCEPT !.c = cnt, !.ccs = x.drv.r = 2]
    BY <1>3, <1>10
  <2>2. cnt \in Nat /\ cnt \in 1 .. TRIES
    BY <1>2, <1>10, Constants
  <2> HIDE DEF cnt
  <2>3. /\ job' \in Job /\ job'.buf = job.buf /\ job'.num = job.num /\ job'.c = cnt
        /\ job'.ccs = (x.drv.r = 2)
    BY <1>1, <2>1, <2>2 DEF Job
  <2>4. card' = x.card /\ drv' = x.drv
    BY <1>6, <2>1, Stepped
  <2>5. x.card.kind.ccs \in BOOLEAN
    BY <1>6, Constants DEF Card
  <2>6. pc' \in {"acmd41", "cmd2"} /\ (pc' = "cmd2" => x.drv.r # 0)
    BY <2>1
  <2>7. Initialising'
    BY <1>1, <1>2, <1>6, <1>7, <2>1, <2>2, <2>3, <2>4, <2>5, <2>6
    DEF Initialising, Initialises, Identifies
  <2>8. pc' \in Initialises
    BY <2>6 DEF Initialises, Identifies
  <2> QED
    BY <1>1, <1>2, <1>4, <1>6, <2>1, <2>3, <2>7, <2>8, InitGoes
<1> QED
  BY <1>3, <1>8, <1>9, <1>10

LEMMA AllSendCidKeeps ==
  ASSUME IInv, AllSendCid PROVE IInv'
<1>1. pc = "cmd2" /\ pc \in Initialises /\ ~stat /\ job \in Job
  BY InvFacts DEF AllSendCid, Initialises, Identifies
<1>2. /\ drv.rca = 0 /\ drv.scr = NoScr /\ card.state = "ready" /\ job.ccs = card.kind.ccs
      /\ host.clock <= IDENT
  BY <1>1 DEF IInv, Initialising, Clocked, Identifies
<1>3. PICK x \in sd_cmd(Now, "ALL_SEND_CID", 0) : Go(x, "cmd3")
  BY DEF AllSendCid
<1>4. /\ Safe(x) /\ CmdKept(x)
      /\ \/ CmdTaken(x, "ALL_SEND_CID", 0) \/ CmdRefused(x, "ALL_SEND_CID", 0)
         \/ CmdMissed(x, "ALL_SEND_CID") \/ CmdBroken(x, "ALL_SEND_CID", 0)
  BY <1>1, InitCommand DEF Code
<1>5. /\ x.drv.rca = 0 /\ x.drv.scr = NoScr /\ x.card.kind = card.kind /\ x \in World
      /\ x.host.clock = host.clock
  BY <1>2, <1>4 DEF CmdKept
<1>6. Executed(card, "ALL_SEND_CID", 0).state = "ident"
  BY InvFacts DEF Executed, Card
<1>7. x.card.state \in {"ready", "ident"}
  <2>1. Refused(card).state = "ready"
    BY <1>2 DEF Refused
  <2>2. SentOut(Executed(card, "ALL_SEND_CID", 0)).state = "ident"
    BY <1>6 DEF SentOut
  <2> QED
    BY <1>2, <1>4, <1>6, <2>1, <2>2 DEF CmdTaken, CmdRefused, CmdMissed, CmdBroken
<1>8. pc' = "cmd3" /\ job' = job /\ stat' = stat /\ Step(x)
  BY <1>3 DEF Go
<1>9. card' = x.card /\ drv' = x.drv
  BY <1>5, <1>8, Stepped
<1>10. Initialising'
  BY <1>1, <1>2, <1>5, <1>7, <1>8, <1>9 DEF Initialising, Initialises, Identifies
<1>11. "cmd3" \in Initialises
  BY DEF Initialises, Identifies
<1> QED
  BY <1>1, <1>2, <1>4, <1>5, <1>8, <1>10, <1>11, InitGoes

\* CMD3 refused: its flags are returned, and disk_initialize() takes the drive for
\* initialised; the card has no address and takes no read.
LEMMA InitFlags ==
  ASSUME IInv, ~stat, NEW w, Safe(w), InitReturns(w, "FLAGS"),
         w.card.state \in {"ready", "ident"}, w.drv.scr = NoScr
  PROVE  IInv'
<1>1. /\ Now' \in World /\ card' = w.card /\ host' = w.host /\ drv' = w.drv /\ faults' = w.faults
  BY Stepped DEF Safe, InitReturns
<1>2. stat' = TRUE /\ pc' = "idle"
  BY DEF InitReturns, IInv, Types
<1>3. job \in Job
  BY DEF IInv, Types
<1>4. /\ job' \in Job /\ job'.call = "init" /\ job'.ret = "FLAGS"
      /\ job'.buf = job.buf /\ job'.num = job.num
  BY <1>3, JobReturned DEF InitReturns, Error
<1>5. Types'
  BY <1>1, <1>2, <1>4 DEF Types
<1>6. CardTrue'
  BY <1>1, <1>2 DEF CardTrue, Safe, Sound, Unaddressed
<1>7. Initialising'
  BY <1>2 DEF Initialising, Initialises, Identifies
<1>8. Clocked'
  BY <1>1, <1>2 DEF Clocked, ClockInSpec, Safe, Unaddressed, Identifies
<1>9. Filling'
  BY <1>1, <1>2, <1>4 DEF Filling, IInv, Reading, Unusable
<1>10. Results'
  BY <1>4 DEF Results, InitAgrees, BlocksRight, ReadCloses
<1> QED
  BY <1>5, <1>6, <1>7, <1>8, <1>9, <1>10 DEF IInv

LEMMA SendRelAddrKeeps ==
  ASSUME IInv, SendRelAddr PROVE IInv'
<1>1. pc = "cmd3" /\ pc \in Initialises /\ ~stat /\ job \in Job
  BY InvFacts DEF SendRelAddr, Initialises, Identifies
<1>2. /\ drv.rca = 0 /\ drv.scr = NoScr /\ card.state \in {"ready", "ident"}
      /\ job.ccs = card.kind.ccs /\ host.clock <= IDENT
  BY <1>1 DEF IInv, Initialising, Clocked, Identifies
<1>3. PICK x \in sd_cmd(Now, "SEND_REL_ADDR", 0) : Then([x EXCEPT !.drv.rca = x.drv.r], "fast")
  BY DEF SendRelAddr
<1>4. /\ Safe(x) /\ CmdKept(x)
      /\ \/ CmdTaken(x, "SEND_REL_ADDR", 0) \/ CmdRefused(x, "SEND_REL_ADDR", 0)
         \/ CmdMissed(x, "SEND_REL_ADDR") \/ CmdBroken(x, "SEND_REL_ADDR", 0)
  BY <1>1, InitCommand DEF Code
<1>5. /\ x.drv.scr = NoScr /\ x.card.kind = card.kind /\ x \in World
      /\ x.host.clock = host.clock /\ x.card \in Card
  BY <1>2, <1>4 DEF CmdKept, World
<1>6. /\ Executed(card, "SEND_REL_ADDR", 0).state = "stby"
      /\ Executed(card, "SEND_REL_ADDR", 0).rca = 1
  BY InvFacts DEF Executed, Card
<1>7. \/ x.drv.err = "OK" /\ x.card.state = "stby" /\ x.drv.r = 1
      \/ x.drv.err = "FLAGS" /\ x.card.state \in {"ready", "ident"} /\ x.drv.r = 0
      \/ x.drv.err \in {"TIMEOUT", "ERROR"} /\ x.drv.r = 0
  <2>1. CASE CmdTaken(x, "SEND_REL_ADDR", 0)
    <3>1. /\ x.card = Executed(card, "SEND_REL_ADDR", 0) /\ x.drv.err = "OK"
          /\ x.drv = Reply(x, "SEND_REL_ADDR").drv
      BY <2>1 DEF CmdTaken
    <3>2. x.drv.r = x.card.rca
      <4>1. x.drv \in Drv
        BY <1>5 DEF World
      <4>2. x.drv = [x.drv EXCEPT !.r = x.card.rca]
        BY <1>5, <3>1 DEF World, Reply
      <4> QED
        BY <4>1, <4>2 DEF Drv
    <3> QED
      BY <1>6, <3>1, <3>2
  <2>2. CASE CmdRefused(x, "SEND_REL_ADDR", 0)
    <3>1. card.rca = 0
      BY <1>2 DEF IInv, CardTrue, Sound, Unaddressed
    <3> QED
      BY <1>2, <2>2, <3>1 DEF CmdRefused
  <2>3. CASE CmdMissed(x, "SEND_REL_ADDR")
    BY <2>3 DEF CmdMissed, NoAnswer
  <2>4. CASE CmdBroken(x, "SEND_REL_ADDR", 0)
    BY <2>4 DEF CmdBroken
  <2> QED
    BY <1>4, <2>1, <2>2, <2>3, <2>4
<1> DEFINE r == x.drv.r
           y == [x EXCEPT !.drv.rca = r]
<1>8. r \in {0, 1}
  BY <1>7
<1> HIDE DEF r
<1>9. /\ y \in World /\ y.card = x.card /\ y.host = x.host /\ y.drv.rca = r
      /\ y.drv.scr = x.drv.scr /\ y.drv.err = x.drv.err
  BY <1>5, <1>8 DEF World, Drv
<1>10. Then(y, "fast")
  BY <1>3 DEF r
<1> HIDE DEF y
<1>11. Safe(y)
  BY <1>4, <1>9 DEF Safe
<1>12. CASE x.drv.err = "OK"
  <2>1. pc' = "fast" /\ job' = job /\ stat' = stat /\ Step(y)
    BY <1>9, <1>10, <1>12 DEF Then, Go, Ok
  <2>2. card' = x.card /\ drv'.rca = 1
    BY <1>7, <1>9, <1>12, <2>1, Stepped DEF r
  <2>3. Initialising'
    BY <1>1, <1>2, <1>5, <1>7, <1>12, <2>1, <2>2 DEF Initialising, Initialises, Identifies
  <2>4. "fast" \in Initialises
    BY DEF Initialises, Identifies
  <2> QED
    BY <1>1, <1>2, <1>5, <1>9, <1>11, <2>1, <2>3, <2>4, InitGoes
<1>13. CASE x.drv.err = "FLAGS"
  BY <1>1, <1>5, <1>7, <1>9, <1>10, <1>11, <1>13, InitFlags DEF Then, Ok
<1>14. CASE x.drv.err \in {"TIMEOUT", "ERROR"}
  BY <1>1, <1>9, <1>10, <1>11, <1>14, InitFails DEF Then, Ok
<1> QED
  BY <1>7, <1>12, <1>13, <1>14

LEMMA CardSelectKeeps ==
  ASSUME IInv, CardSelect PROVE IInv'
<1>1. pc = "cmd7" /\ pc \in Initialises /\ ~stat /\ job \in Job
  BY InvFacts DEF CardSelect, Initialises, Identifies
<1>2. drv.rca = 1 /\ card.state = "stby" /\ job.ccs = card.kind.ccs
  BY <1>1 DEF IInv, Initialising, Initialises, Identifies
<1>3. PICK x \in sd_cmd(Now, "CARD_SELECT", drv.rca) : Then(x, "scr")
  BY DEF CardSelect
<1>4. /\ Safe(x) /\ CmdKept(x)
      /\ \/ CmdTaken(x, "CARD_SELECT", drv.rca) \/ CmdRefused(x, "CARD_SELECT", drv.rca)
         \/ CmdMissed(x, "CARD_SELECT") \/ CmdBroken(x, "CARD_SELECT", drv.rca)
  BY <1>1, <1>2, InitCommand DEF Code
<1>5. x.drv.rca = 1 /\ x.card.kind = card.kind /\ x \in World
  BY <1>2, <1>4 DEF CmdKept
<1>6. x.drv.err \in {"OK", "TIMEOUT", "ERROR"}
  BY <1>4, InitErr DEF Code
<1>7. CASE Ok(x)
  <2>1. pc' = "scr" /\ job' = job /\ stat' = stat /\ Step(x)
    BY <1>3, <1>7 DEF Then, Go
  <2>2. card' = x.card /\ drv' = x.drv
    BY <1>5, <2>1, Stepped
  <2>3. Executed(card, "CARD_SELECT", drv.rca).state = "tran" /\ Refused(card).state = "stby"
    BY <1>2, InvFacts DEF Executed, Refused, Card
  <2>4. x.card.state \in {"stby", "tran"}
    BY <1>2, <1>4, <1>7, <2>3 DEF CmdTaken, CmdRefused, CmdMissed, CmdBroken, Ok
  <2>5. Initialising'
    BY <1>1, <1>2, <1>5, <2>1, <2>2, <2>4 DEF Initialising, Initialises, Identifies
  <2>6. "scr" \in Initialises /\ "scr" \notin (Identifies \ {"clk"}) \cup {"fast"}
    BY DEF Initialises, Identifies
  <2> QED
    BY <1>1, <1>4, <2>1, <2>5, <2>6, InitGoes
<1>8. CASE ~Ok(x)
  BY <1>1, <1>3, <1>4, <1>6, <1>8, InitFails DEF Then, Ok
<1> QED
  BY <1>7, <1>8

LEMMA SendScrKeeps ==
  ASSUME IInv, SendScr PROVE IInv'
<1>1. pc = "scr" /\ pc \in Initialises /\ ~stat /\ job \in Job /\ Safe(Now)
  BY InvFacts DEF SendScr, Initialises, Identifies
<1>2. drv.rca = 1 /\ card.state \in {"stby", "tran"} /\ job.ccs = card.kind.ccs
  BY <1>1 DEF IInv, Initialising, Initialises, Identifies
<1>3. CASE host.left > 0 \/ Busy(Now)
  <2>1. InitReturns(Now, "TIMEOUT")
    BY <1>3 DEF SendScr
  <2> QED
    BY <1>1, <2>1, InitFails
<1>4. CASE ~(host.left > 0 \/ Busy(Now))
  <2>1. PICK x \in sd_acmd(Now, "SEND_SCR", 0) : Then(x, "scr_ready")
    BY <1>4 DEF SendScr
  <2>2. /\ Safe(x) /\ AppKept(x)
        /\ \/ x.drv.err = "ERROR"
           \/ \E a : /\ AppCmd(a) /\ a.drv.err = "OK"
                     /\ \/ Taken(a, x, "SEND_SCR", 0) \/ Refusing(a, x, "SEND_SCR", 0)
                        \/ Missed(a, x, "SEND_SCR") \/ Broken(a, x, "SEND_SCR", 0)
    BY <1>1, <1>2, InitAppCommand
  <2>3. x \in World /\ x.drv.rca = 1 /\ x.card.kind = card.kind
    BY <1>2, <2>2 DEF Safe, AppKept
  <2>4. CASE Ok(x)
    <3>1. pc' = "scr_ready" /\ job' = job /\ stat' = stat /\ Step(x)
      BY <2>1, <2>4 DEF Then, Go
    <3>2. card' = x.card /\ drv' = x.drv /\ host' = x.host
      BY <2>3, <3>1, Stepped
    <3>3. PICK a : /\ AppCmd(a) /\ a.drv.err = "OK"
                   /\ \/ Taken(a, x, "SEND_SCR", 0) \/ Refusing(a, x, "SEND_SCR", 0)
                      \/ Missed(a, x, "SEND_SCR") \/ Broken(a, x, "SEND_SCR", 0)
      BY <2>2, <2>4 DEF Ok
    <3>4. /\ a.card \in Card /\ a.card.state = card.state /\ a.host.left = 0 /\ a.drv.rca = 1
      <4>1. host.left = 0
        BY <1>4, InvFacts DEF Host
      <4> QED
        BY <1>2, <3>3, <4>1 DEF AppCmd, AppKept, World
    <3>5. \/ x.card.state = "data" /\ x.card.count = 1 /\ x.host.left = 1
          \/ x.card.state = "tran" /\ x.host.left = 0
      <4>1. CASE Taken(a, x, "SEND_SCR", 0)
        <5>1. x.card = Executed(a.card, "SEND_SCR", 0) /\ x.host.left = 1
          BY <4>1 DEF Taken, OpenFor, Data
        <5> QED
          BY <3>4, <5>1 DEF Executed, Sends, Card
      <4>2. CASE Refusing(a, x, "SEND_SCR", 0)
        BY <3>4, <4>2 DEF Refusing, Takes
      <4>3. CASE Missed(a, x, "SEND_SCR")
        BY <2>4, <3>4, <4>3 DEF Missed, NoAnswer, Ok
      <4>4. CASE Broken(a, x, "SEND_SCR", 0)
        BY <2>4, <4>4 DEF Broken, Ok
      <4> QED
        BY <3>3, <4>1, <4>2, <4>3, <4>4
    <3>6. Initialising'
      BY <1>1, <1>2, <2>3, <3>1, <3>2, <3>5 DEF Initialising, Initialises, Identifies
    <3>7. "scr_ready" \in Initialises /\ "scr_ready" \notin (Identifies \ {"clk"}) \cup {"fast"}
      BY DEF Initialises, Identifies
    <3> QED
      BY <1>1, <2>2, <3>1, <3>6, <3>7, InitGoes
  <2>5. CASE ~Ok(x)
    BY <1>1, <2>1, <2>2, <2>5, InitFails DEF Then, Ok, AppKept
  <2> QED
    BY <2>4, <2>5
<1> QED
  BY <1>3, <1>4

\* What waiting for a block makes of a sound card.
LEMMA IntSound ==
  ASSUME IInv, NEW x, IntKept(x), IntGot(x) \/ IntLost(x)
  PROVE  /\ Sound(x.card, stat, drv.scr.blkcnt)
         /\ x.card.state \in Unaddressed <=> card.state \in Unaddressed
         /\ card.state \in {"tran", "data"} => x.card.state \in {"tran", "data"}
<1>1. Sound(card, stat, drv.scr.blkcnt) /\ card \in Card
  BY InvFacts DEF IInv, CardTrue
<1>2. CASE IntGot(x)
  <2>1. card.state = "data" /\ x.card = AfterBlock(card)
    BY <1>2, InvFacts DEF IntGot, Arrives
  <2>2. x.card.state = IF card.count = 1 THEN "tran" ELSE "data"
    BY <1>1, <2>1 DEF AfterBlock, Card
  <2>3. x.card.count = IF card.count > 0 THEN card.count - 1 ELSE card.count
    BY <1>1, <2>1 DEF AfterBlock, Card
  <2>4. x.card.rca = card.rca
    BY <1>1, <2>1 DEF AfterBlock, Card
  <2>5. card.count \in Int
    BY <1>1 DEF Card
  <2> QED
    BY <1>1, <2>1, <2>2, <2>3, <2>4, <2>5 DEF Sound, Unaddressed
<1>3. CASE IntLost(x)
  <2>1. x.card = card \/ (card.state = "data" /\ x.card.state = "tran" /\ x.card.count = 0
                          /\ x.card.rca = card.rca)
    BY <1>1, <1>3 DEF IntLost, SentOut, Card
  <2> QED
    BY <1>1, <2>1 DEF Sound, Unaddressed
<1> QED
  BY <1>2, <1>3

LEMMA ScrReadyKeeps ==
  ASSUME IInv, ScrReady PROVE IInv'
<1>1. pc = "scr_ready" /\ pc \in Initialises /\ ~stat /\ job \in Job /\ Safe(Now)
  BY InvFacts DEF ScrReady, Initialises, Identifies
<1>2. /\ drv.rca = 1 /\ job.ccs = card.kind.ccs
      /\ \/ card.state = "data" /\ card.count = 1 /\ host.left = 1
         \/ card.state = "tran" /\ host.left = 0
  BY <1>1 DEF IInv, Initialising, Initialises, Identifies
<1>3. PICK x \in sd_int(Now) : IF Ok(x) THEN Go(x, "scr_words") ELSE InitReturns(x, "TIMEOUT")
  BY DEF ScrReady
<1>4. IntKept(x) /\ (IntGot(x) \/ IntLost(x))
  BY IntOutcome, InvFacts
<1>5. /\ x \in World /\ x.card.kind = card.kind /\ x.drv.rca = 1 /\ x.drv.scr = drv.scr
      /\ x.host.clock = host.clock
  BY <1>2, <1>4 DEF IntKept
<1>6. Safe(x)
  BY <1>1, <1>4, <1>5, IntSound, InvFacts DEF Safe, Sound
<1>7. CASE Ok(x)
  <2>1. pc' = "scr_words" /\ job' = job /\ stat' = stat /\ Step(x)
    BY <1>3, <1>7 DEF Go
  <2>2. card' = x.card /\ drv' = x.drv /\ host' = x.host
    BY <1>5, <2>1, Stepped
  <2>3. IntGot(x)
    BY <1>4, <1>7 DEF IntLost, Ok
  <2>4. card.count = 1 /\ host.left = 1
    BY <1>2, <2>3, InvFacts DEF IntGot, Arrives
  <2>5. x.card.state = "tran" /\ x.host.left = 0
    BY <2>3, <2>4, InvFacts DEF IntGot, AfterBlock, Card
  <2>6. Initialising'
    BY <1>1, <1>2, <1>5, <2>1, <2>2, <2>5 DEF Initialising, Initialises, Identifies
  <2>7. "scr_words" \in Initialises /\ "scr_words" \notin (Identifies \ {"clk"}) \cup {"fast"}
    BY DEF Initialises, Identifies
  <2> QED
    BY <1>1, <1>6, <2>1, <2>6, <2>7, InitGoes
<1>8. CASE ~Ok(x)
  BY <1>1, <1>3, <1>6, <1>8, InitFails
<1> QED
  BY <1>7, <1>8

LEMMA CardHasWordKeeps ==
  ASSUME IInv, CardHasWord PROVE IInv'
<1>1. /\ pc = "scr_words" /\ pc \in Initialises /\ host.words < 2 /\ ~stat /\ job \in Job
      /\ Safe(Now)
  BY InvFacts DEF CardHasWord, Initialises, Identifies
<1> DEFINE n == host.words + 1
           w == [card |-> card, host |-> [host EXCEPT !.words = n], drv |-> drv,
                 faults |-> faults]
<1>2. n \in {0, 1, 2}
  BY <1>1, InvFacts DEF Host
<1> HIDE DEF n
<1>3. w \in World /\ w.card = card /\ w.drv = drv /\ w.host.clock = host.clock
      /\ w.host.left = host.left
  BY <1>2, InvFacts DEF World, Host
<1>4. Step(w) /\ pc' = pc /\ job' = job /\ stat' = stat
  BY DEF CardHasWord, Step, n
<1> HIDE DEF w
<1>5. Safe(w)
  BY <1>1, <1>3, InvFacts DEF Safe
<1>6. card' = card /\ drv' = drv /\ host'.left = host.left
  BY <1>3, <1>4, Stepped
<1>7. Initialising'
  <2>1. Initialising
    BY DEF IInv
  <2> QED
    BY <1>1, <1>4, <1>6, <2>1 DEF Initialising, Initialises, Identifies
<1>8. "scr_words" \notin (Identifies \ {"clk"}) \cup {"fast"}
  BY DEF Identifies
<1> QED
  BY <1>1, <1>4, <1>5, <1>7, <1>8, InitGoes

LEMMA DoneKeeps ==
  ASSUME IInv, ~stat, NEW w, Safe(w), InitDone(w),
         w.card.state = "tran", w.host.left = 0, w.drv.rca = 1, w.card.kind = card.kind,
         job.ccs = card.kind.ccs, w.drv.scr.blkcnt = w.card.kind.blkcnt
  PROVE  IInv'
<1> DEFINE y == [w EXCEPT !.drv.scr.ccs = job.ccs]
<1>1. job.ccs \in BOOLEAN /\ w \in World
  BY InvFacts DEF Job, Safe
<1>2. w.drv \in Drv /\ w.drv.scr \in Scr
  BY <1>1 DEF World, Drv
<1> DEFINE s == [w.drv.scr EXCEPT !.ccs = job.ccs]
<1>3. s \in Scr /\ s.ccs = job.ccs /\ s.blkcnt = w.drv.scr.blkcnt
  BY <1>1, <1>2 DEF Scr
<1>4. y = [w EXCEPT !.drv.scr = s]
  BY <1>1, <1>2 DEF World, Drv
<1>5. InitReturns(y, "OK")
  BY DEF InitDone
<1> HIDE DEF s, y
<1>6. y \in World /\ y.card = w.card /\ y.host = w.host /\ y.drv.rca = w.drv.rca /\ y.drv.scr = s
  BY <1>1, <1>2, <1>3, <1>4 DEF World, Drv
<1>7. Safe(y)
  BY <1>3, <1>6 DEF Safe
<1> QED
  BY <1>3, <1>5, <1>6, <1>7, InitSucceeds

LEMMA ReadScrKeeps ==
  ASSUME IInv, ReadScr PROVE IInv'
<1>1. pc = "scr_words" /\ pc \in Initialises /\ ~stat /\ job \in Job /\ Safe(Now)
  BY InvFacts DEF ReadScr, Initialises, Identifies
<1>2. drv.rca = 1 /\ job.ccs = card.kind.ccs /\ card.state = "tran" /\ host.left = 0
  BY <1>1 DEF IInv, Initialising, Initialises, Identifies
<1> DEFINE k == card.kind
           zero == 0
           s == [drv.scr EXCEPT !.width4 = k.width4, !.blkcnt = k.blkcnt]
           w == [card |-> card, host |-> [host EXCEPT !.words = zero],
                 drv |-> [drv EXCEPT !.scr = s], faults |-> faults]
<1>3. IF k.width4 THEN Go(w, "acmd6") ELSE InitDone(w)
  <2>1. w = [Now EXCEPT !.host.words = 0,
                        !.drv.scr = [@ EXCEPT !.width4 = k.width4, !.blkcnt = k.blkcnt]]
    <3> DEFINE z == [Now EXCEPT !.host.words = 0,
                       !.drv.scr = [@ EXCEPT !.width4 = k.width4, !.blkcnt = k.blkcnt]]
               h == [Now.host EXCEPT !.words = 0]
               d == [Now.drv EXCEPT !.scr = [@ EXCEPT !.width4 = k.width4,
                                                      !.blkcnt = k.blkcnt]]
    <3> HIDE DEF k
    <3>1. z = [Now EXCEPT !.host = h, !.drv = d]
      BY InvFacts DEF World
    <3>2. h = [host EXCEPT !.words = zero] /\ d = [drv EXCEPT !.scr = s]
      BY InvFacts DEF k
    <3> HIDE DEF h, d, z
    <3>3. z = [card |-> Now.card, host |-> h, drv |-> d, faults |-> Now.faults]
      BY <3>1, InvFacts DEF World
    <3> QED
      BY <3>2, <3>3, InvFacts DEF z
  <2>2. IF k.width4 THEN Go([Now EXCEPT !.host.words = 0,
                               !.drv.scr = [@ EXCEPT !.width4 = k.width4, !.blkcnt = k.blkcnt]],
                            "acmd6")
        ELSE InitDone([Now EXCEPT !.host.words = 0,
                         !.drv.scr = [@ EXCEPT !.width4 = k.width4, !.blkcnt = k.blkcnt]])
    BY DEF ReadScr
  <2> HIDE DEF w, k
  <2> QED
    BY <2>1, <2>2
<1>4. k.width4 \in BOOLEAN /\ k.blkcnt \in BOOLEAN /\ k.ccs \in BOOLEAN
  BY InvFacts, Constants DEF Card
<1>5. s \in Scr /\ s.blkcnt = k.blkcnt /\ s.ccs = drv.scr.ccs
  BY <1>4, InvFacts DEF Drv, Scr
<1>6. zero \in {0, 1, 2}
  OBVIOUS
<1> HIDE DEF s, zero
<1>7. /\ w \in World /\ w.card = card /\ w.drv.rca = 1 /\ w.drv.scr = s
      /\ w.host.clock = host.clock /\ w.host.left = 0
  BY <1>2, <1>5, <1>6, InvFacts DEF World, Host, Drv
<1> HIDE DEF w
<1>8. Safe(w)
  BY <1>1, <1>7, InvFacts DEF Safe, Sound
<1>9. CASE k.width4
  <2>1. Step(w) /\ pc' = "acmd6" /\ job' = job /\ stat' = stat
    BY <1>3, <1>9 DEF Go
  <2>2. card' = card /\ drv' = w.drv /\ host' = w.host
    BY <1>7, <2>1, Stepped
  <2>3. Initialising'
    BY <1>1, <1>2, <1>5, <1>7, <2>1, <2>2 DEF Initialising, Initialises, Identifies
  <2>4. "acmd6" \in Initialises /\ "acmd6" \notin (Identifies \ {"clk"}) \cup {"fast"}
    BY DEF Initialises, Identifies
  <2> QED
    BY <1>1, <1>8, <2>1, <2>3, <2>4, InitGoes
<1>10. CASE ~k.width4
  <2>1. InitDone(w)
    BY <1>3, <1>10
  <2> QED
    BY <1>1, <1>2, <1>4, <1>5, <1>7, <1>8, <2>1, DoneKeeps
<1> QED
  BY <1>9, <1>10

LEMMA SetBusWidthKeeps ==
  ASSUME IInv, SetBusWidth PROVE IInv'
<1>1. pc = "acmd6" /\ pc \in Initialises /\ ~stat /\ job \in Job /\ Safe(Now)
  BY InvFacts DEF SetBusWidth, Initialises, Identifies
<1>2. /\ drv.rca = 1 /\ job.ccs = card.kind.ccs /\ card.state = "tran" /\ host.left = 0
      /\ drv.scr.blkcnt = card.kind.blkcnt
  BY <1>1 DEF IInv, Initialising, Initialises, Identifies
<1>3. PICK x \in sd_acmd(Now, "SET_BUS_WIDTH", drv.rca) :
        IF Ok(x) THEN InitDone([x EXCEPT !.host.width = 4]) ELSE InitReturns(x, x.drv.err)
  BY DEF SetBusWidth
<1>4. /\ Safe(x) /\ AppKept(x)
      /\ \/ x.drv.err = "ERROR"
         \/ \E a : /\ AppCmd(a) /\ a.drv.err = "OK"
                   /\ \/ Taken(a, x, "SET_BUS_WIDTH", drv.rca)
                      \/ Refusing(a, x, "SET_BUS_WIDTH", drv.rca)
                      \/ Missed(a, x, "SET_BUS_WIDTH")
                      \/ Broken(a, x, "SET_BUS_WIDTH", drv.rca)
  BY <1>1, <1>2, InitAppCommand
<1>5. /\ x \in World /\ x.drv.rca = 1 /\ x.card.kind = card.kind /\ x.drv.scr = drv.scr
  BY <1>2, <1>4 DEF Safe, AppKept
<1>6. CASE Ok(x)
  <2>1. PICK a : /\ AppCmd(a) /\ a.drv.err = "OK"
                 /\ \/ Taken(a, x, "SET_BUS_WIDTH", drv.rca)
                    \/ Refusing(a, x, "SET_BUS_WIDTH", drv.rca)
                    \/ Missed(a, x, "SET_BUS_WIDTH")
                    \/ Broken(a, x, "SET_BUS_WIDTH", drv.rca)
    BY <1>4, <1>6 DEF Ok
  <2>2. a.card \in Card /\ a.card.state = "tran" /\ a.host.left = 0 /\ a.drv.rca = 1
    BY <1>2, <2>1 DEF AppCmd, AppKept, World
  <2>3. x.card.state = "tran" /\ x.host.left = 0
    <3>1. CASE Taken(a, x, "SET_BUS_WIDTH", drv.rca)
      <4>1. x.card = Executed(a.card, "SET_BUS_WIDTH", drv.rca) /\ x.host.left = 0
        BY <2>2, <3>1 DEF Taken, OpenFor, Data
      <4> QED
        BY <2>2, <4>1 DEF Executed, Card
    <3>2. CASE Refusing(a, x, "SET_BUS_WIDTH", drv.rca)
      BY <2>2, <3>2 DEF Refusing
    <3>3. CASE Missed(a, x, "SET_BUS_WIDTH")
      BY <1>6, <2>2, <3>3 DEF Missed, NoAnswer, Ok
    <3>4. CASE Broken(a, x, "SET_BUS_WIDTH", drv.rca)
      BY <1>6, <3>4 DEF Broken, Ok
    <3> QED
      BY <2>1, <3>1, <3>2, <3>3, <3>4
  <2> DEFINE four == 4
             y == [x EXCEPT !.host.width = four]
  <2>4. four \in {1, 4}
    OBVIOUS
  <2>5. InitDone(y)
    BY <1>3, <1>6
  <2> HIDE DEF four
  <2>6. /\ y \in World /\ y.card = x.card /\ y.drv = x.drv /\ y.host.clock = x.host.clock
        /\ y.host.left = x.host.left
    BY <1>5, <2>4 DEF World, Host
  <2> HIDE DEF y
  <2>7. Safe(y)
    BY <1>4, <2>6 DEF Safe
  <2> QED
    BY <1>1, <1>2, <1>5, <2>3, <2>5, <2>6, <2>7, DoneKeeps
<1>7. CASE ~Ok(x)
  BY <1>1, <1>3, <1>4, <1>7, InitFails DEF Ok, AppKept
<1> QED
  BY <1>6, <1>7

-----------------------------------------------------------------------------
(***************************************************************************)
(* sd_readblock().                                                         *)
(***************************************************************************)
\* What every step of it leaves as it is.
Running(w) ==
  /\ w \in World /\ Sound(w.card, TRUE, drv.scr.blkcnt) /\ w.card.kind = card.kind
  /\ w.drv.rca = drv.rca /\ w.drv.scr = drv.scr
  /\ w.host.clock = host.clock /\ w.host.blocks = host.blocks /\ w.faults >= faults
  /\ IF card.state \in {"tran", "data"} THEN w.card.state \in {"tran", "data"}
     ELSE w.card.state = card.state

LEMMA ReadFacts ==
  ASSUME IInv, pc \in Reading
  PROVE  /\ stat /\ job.call = "read" /\ job.num \in Nat /\ job.num >= 1 /\ job.c \in Nat
         /\ job.c \in 0 .. job.num /\ job.lba \in Nat /\ job \in Job
         /\ Sound(card, TRUE, drv.scr.blkcnt)
         /\ card.state \in {"tran", "data", "ready", "ident"}
         /\ pc # "single" => Usable
<1>1. /\ stat /\ job.call = "read" /\ job.num >= 1 /\ job.c \in 0 .. job.num
      /\ Usable \/ Unusable
  BY DEF IInv, Filling
<1>2. job.num \in Nat /\ job.c \in Nat /\ job.lba \in Nat /\ job \in Job
  BY InvFacts DEF Job
<1>3. Sound(card, TRUE, drv.scr.blkcnt)
  BY <1>1 DEF IInv, CardTrue, Sound
<1> QED
  BY <1>1, <1>2, <1>3 DEF Usable, Unusable, Reading

LEMMA ReadStep ==
  ASSUME IInv, pc \in Reading, NEW w, Running(w), Step(w), stat' = stat, job' \in Job,
         pc' \in Reading \cup {"idle"}
  PROVE  /\ Types' /\ CardTrue' /\ Initialising' /\ Clocked'
         /\ card' = w.card /\ host' = w.host /\ drv' = w.drv /\ faults' = w.faults
         /\ drv'.scr = drv.scr /\ card'.kind = card.kind
         /\ Usable => Usable'
         /\ Unusable /\ pc' = "idle" => Unusable'
<1>1. /\ Now' \in World /\ card' = w.card /\ host' = w.host /\ drv' = w.drv /\ faults' = w.faults
  BY Stepped DEF Running
<1>2. stat /\ card.state \in {"tran", "data", "ready", "ident"}
  BY ReadFacts
<1>3. Types'
  BY <1>1, <1>2 DEF Types
<1>4. CardTrue'
  BY <1>1, <1>2 DEF CardTrue, Running, Sound
<1>5. Initialising'
  BY DEF Initialising, Initialises, Identifies, Reading
<1>6. Clocked'
  <2>1. ClockInSpec
    BY DEF IInv, Clocked
  <2>2. host'.clock = host.clock
        /\ (card'.state \in {"idle", "ready", "ident"} => card.state \in {"idle", "ready", "ident"})
    BY <1>1 DEF Running
  <2> QED
    BY <2>1, <2>2 DEF Clocked, ClockInSpec, Identifies, Reading
<1>7. /\ drv'.scr = drv.scr /\ card'.kind = card.kind /\ drv'.rca = drv.rca
      /\ Usable => card'.state \in {"tran", "data"}
      /\ Unusable => card'.state = card.state
  BY <1>1 DEF Running, Usable, Unusable
<1> QED
  BY <1>1, <1>3, <1>4, <1>5, <1>6, <1>7 DEF Usable, Unusable

LEMMA ReadFails ==
  ASSUME IInv, pc \in Reading, NEW w, Running(w), ReadReturns(w, "failed")
  PROVE  IInv'
<1>1. /\ Step(w) /\ pc' = "idle" /\ job' = [job EXCEPT !.ret = "failed"] /\ stat' = stat
  BY DEF ReadReturns
<1>2. job \in Job /\ stat /\ job.call = "read" /\ (Usable \/ Unusable)
  BY ReadFacts DEF IInv, Filling
<1>3. /\ job' \in Job /\ job'.call = "read" /\ job'.ret = "failed"
      /\ job'.buf = job.buf /\ job'.num = job.num
  BY <1>1, <1>2 DEF Job
<1>4. /\ Types' /\ CardTrue' /\ Initialising' /\ Clocked' /\ (Usable' \/ Unusable')
  BY <1>1, <1>2, <1>3, ReadStep
<1>5. Filling'
  BY <1>1, <1>3, <1>4 DEF Filling, IInv, Reading
<1>6. Results'
  BY <1>3 DEF Results, InitAgrees, BlocksRight, ReadCloses
<1> QED
  BY <1>4, <1>5, <1>6 DEF IInv

LEMMA ReadCmd ==
  ASSUME IInv, pc \in Reading,
         NEW code \in {"SET_BLOCKCNT", "READ_SINGLE", "READ_MULTI", "STOP_TRANS"},
         NEW arg \in Int, code = "SET_BLOCKCNT" => drv.scr.blkcnt /\ arg > 0,
         NEW x \in sd_cmd(Now, code, arg)
  PROVE  /\ Running(x)
         /\ x.drv.err = "OK" =>
              /\ Takes(card, code, arg)
              /\ \/ x.card = Executed(card, code, arg) /\ x.host.left = OpenFor(Now, code)
                 \/ x.card = Refused(card) /\ x.host.left = host.left /\ x.faults > faults
<1>1. code \in Code
  BY DEF Code
<1>2. /\ CmdKept(x)
      /\ \/ CmdTaken(x, code, arg) \/ CmdRefused(x, code, arg)
         \/ CmdMissed(x, code) \/ CmdBroken(x, code, arg)
  BY <1>1, InvFacts, CmdOutcome
<1>3. card \in Card /\ drv.scr.blkcnt \in BOOLEAN /\ Sound(card, TRUE, drv.scr.blkcnt)
  BY InvFacts, ReadFacts DEF Drv, Scr
<1>4. x.card = card \/ (Takes(card, code, arg)
        /\ x.card \in {Executed(card, code, arg), SentOut(Executed(card, code, arg)), Refused(card)})
  BY <1>2 DEF CmdTaken, CmdRefused, CmdMissed, CmdBroken
<1>5. Sound(x.card, TRUE, drv.scr.blkcnt)
  BY <1>1, <1>3, <1>4, ExecutedSound
<1>6. ASSUME Takes(card, code, arg)
      PROVE  /\ card.state \in {"tran", "data"}
             /\ Executed(card, code, arg).state \in {"tran", "data"}
  <2>1. CASE code = "SET_BLOCKCNT"
    BY <1>3, <1>6, <2>1 DEF Takes, Executed, Card
  <2>2. CASE code = "READ_SINGLE"
    BY <1>3, <1>6, <2>2 DEF Takes, Executed, Sends, Card
  <2>3. CASE code = "READ_MULTI"
    BY <1>3, <1>6, <2>3 DEF Takes, Executed, Sends, Card
  <2>4. CASE code = "STOP_TRANS"
    BY <1>3, <1>6, <2>4 DEF Takes, Executed, Card
  <2> QED
    BY <2>1, <2>2, <2>3, <2>4
<1>7. IF card.state \in {"tran", "data"} THEN x.card.state \in {"tran", "data"}
      ELSE x.card.state = card.state
  <2>1. Executed(card, code, arg) \in Card /\ Refused(card).state = card.state
    BY <1>1, <1>3, ExecutedIsCard
  <2>2. ASSUME NEW d \in Card, d.state \in {"tran", "data"}
        PROVE  SentOut(d).state \in {"tran", "data"}
    BY <2>2 DEF SentOut, Card
  <2> QED
    BY <1>4, <1>6, <2>1, <2>2
<1>8. Running(x)
  BY <1>2, <1>5, <1>7 DEF Running, CmdKept
<1>9. ASSUME x.drv.err = "OK"
      PROVE  /\ Takes(card, code, arg)
             /\ \/ x.card = Executed(card, code, arg) /\ x.host.left = OpenFor(Now, code)
                \/ x.card = Refused(card) /\ x.host.left = host.left /\ x.faults > faults
  <2>1. ~NoAnswer(Now, code)
    BY DEF NoAnswer
  <2> QED
    BY <1>2, <1>9, <2>1 DEF CmdTaken, CmdRefused, CmdMissed, CmdBroken
<1> QED
  BY <1>8, <1>9

\* The buffer holds the blocks from lba on.
LEMMA EmptyFilled ==
  ASSUME NEW lba \in Nat
  PROVE  << >> = [i \in 1 .. 0 |-> lba + i - 1]
<1>1. 1 .. 0 = {}
  OBVIOUS
<1> QED
  BY <1>1

LEMMA AppendFilled ==
  ASSUME NEW lba \in Nat, NEW c \in Nat
  PROVE  LET b == [i \in 1 .. c |-> lba + i - 1]
         IN /\ Append(b, lba + c) = [i \in 1 .. c + 1 |-> lba + i - 1]
            /\ Append(b, lba + c) \in Seq(Int) /\ Len(Append(b, lba + c)) = c + 1
<1> DEFINE b == [i \in 1 .. c |-> lba + i - 1]
           a == Append(b, lba + c)
           d == [i \in 1 .. c + 1 |-> lba + i - 1]
<1>1. b \in Seq(Int) /\ Len(b) = c
  OBVIOUS
<1>2. /\ a \in Seq(Int) /\ Len(a) = c + 1
      /\ \A i \in 1 .. c : a[i] = b[i]
      /\ a[c + 1] = lba + c
  BY <1>1, AppendProperties
<1>3. d \in Seq(Int) /\ Len(d) = c + 1
  OBVIOUS
<1>4. ASSUME NEW i \in 1 .. c + 1
      PROVE  a[i] = d[i]
  BY <1>2
<1>5. a = d
  BY <1>2, <1>3, <1>4, SeqEqual
<1> QED
  BY <1>2, <1>5

LEMMA DiskReadKeeps ==
  ASSUME IInv, DiskRead PROVE IInv'
<1>0. PICK lba \in Lbas, num \in Nat : num >= 1 /\ StartRead(lba, num)
  BY Constants DEF DiskRead
<1>1. /\ pc = "idle" /\ stat
      /\ job' = [job EXCEPT !.call = "read", !.lba = lba, !.num = num,
                            !.c = 0, !.buf = << >>, !.ret = "failed"]
      /\ IF host.left > 0 \/ Busy(Now)
         THEN pc' = "idle" /\ drv' = [drv EXCEPT !.err = "TIMEOUT"] /\ UNCHANGED host
         ELSE /\ pc' = IF ~ByBlock THEN "single"
                       ELSE IF num > 1 /\ drv.scr.blkcnt THEN "cmd23" ELSE "cmd18"
              /\ host' = [host EXCEPT !.blocks = IF ByBlock THEN num ELSE 1]
              /\ UNCHANGED drv
      /\ UNCHANGED << card, stat, faults >>
  BY <1>0 DEF StartRead
<1> DEFINE n == num
<1>2. lba \in Nat /\ num \in Nat /\ n \in Nat /\ n >= 1
  BY <1>0, Constants
<1>3. /\ job' \in Job /\ job'.call = "read" /\ job'.lba = lba /\ job'.num = n /\ job'.c = 0
      /\ job'.buf = << >> /\ job'.ret = "failed"
  <2> DEFINE zero == 0
             none == << >>
             read == "read"
             failed == "failed"
  <2>1. /\ zero \in Nat /\ none \in Seq(Int) /\ read \in {"none", "init", "read"}
        /\ failed \in {"none", "failed", "read"} \cup Error
    OBVIOUS
  <2>2. job' = [job EXCEPT !.call = read, !.lba = lba, !.num = n, !.c = zero, !.buf = none,
                           !.ret = failed]
    BY <1>1
  <2> HIDE DEF zero, none, read, failed, n
  <2>3. /\ job' \in Job /\ job'.call = read /\ job'.lba = lba /\ job'.num = n /\ job'.c = zero
        /\ job'.buf = none /\ job'.ret = failed
    BY <1>2, <2>1, <2>2, InvFacts DEF Job
  <2> QED
    BY <2>3 DEF zero, none, read, failed
<1>4. Len(job'.buf) <= job'.num
  BY <1>2, <1>3
<1>5. Results'
  BY <1>3 DEF Results, InitAgrees, BlocksRight, ReadCloses
<1>6. Usable \/ Unusable
  BY <1>1 DEF IInv, Filling
<1>7. card' = card /\ faults' = faults /\ stat' = stat
  BY <1>1
<1>8. CASE host.left > 0 \/ Busy(Now)
  <2>1. pc' = "idle" /\ drv' = [drv EXCEPT !.err = "TIMEOUT"] /\ host' = host
    BY <1>1, <1>8
  <2>2. drv' \in Drv /\ drv'.rca = drv.rca /\ drv'.scr = drv.scr
    BY <2>1, InvFacts DEF Drv, Error
  <2>3. Types'
    BY <1>1, <1>3, <1>7, <2>1, <2>2, InvFacts DEF Types, Now, World
  <2>4. CardTrue' /\ Initialising' /\ Clocked'
    BY <1>1, <1>7, <2>1, <2>2
    DEF IInv, CardTrue, Initialising, Clocked, ClockInSpec, Sound, Identifies, Initialises
  <2>5. Usable' \/ Unusable'
    BY <1>1, <1>6, <1>7, <2>1, <2>2 DEF Usable, Unusable
  <2>6. Filling'
    BY <1>4, <2>1, <2>5 DEF Filling, Reading
  <2> QED
    BY <1>5, <2>3, <2>4, <2>6 DEF IInv
<1>9. CASE ~(host.left > 0 \/ Busy(Now))
  <2> DEFINE b == IF ByBlock THEN num ELSE 1
  <2>1. /\ pc' = IF ~ByBlock THEN "single"
                 ELSE IF num > 1 /\ drv.scr.blkcnt THEN "cmd23" ELSE "cmd18"
        /\ host' = [host EXCEPT !.blocks = b] /\ drv' = drv
    BY <1>1, <1>9
  <2>2. b \in Nat /\ (ByBlock => b = num)
    BY <1>2
  <2> HIDE DEF b
  <2>3. host.left = 0
    BY <1>9, InvFacts DEF Host
  <2>4. host' \in Host /\ host'.left = 0 /\ host'.blocks = b /\ host'.clock = host.clock
    BY <2>1, <2>2, <2>3, InvFacts DEF Host
  <2>5. pc' \in {"single", "cmd23", "cmd18"}
    BY <2>1
  <2>6. Types'
    BY <1>1, <1>3, <1>7, <2>1, <2>4, <2>5, InvFacts DEF Types, Now, World, Reading
  <2>7. CardTrue' /\ Initialising' /\ Clocked'
    BY <1>1, <1>7, <2>1, <2>4, <2>5
    DEF IInv, CardTrue, Initialising, Clocked, ClockInSpec, Sound, Identifies, Initialises
  <2>8. ByBlock' = ByBlock
    BY <2>1 DEF ByBlock
  <2>9. Usable' \/ Unusable'
    <3>1. Unusable => ~ByBlock
      BY DEF Unusable, NoScr, ByBlock
    <3> QED
      BY <1>1, <1>6, <1>7, <2>1, <3>1 DEF Usable, Unusable
  <2>10. job'.buf = [i \in 1 .. job'.c |-> job'.lba + i - 1]
    BY <1>3, EmptyFilled
  <2>11. pc' \in {"cmd23", "cmd18"} => ByBlock /\ (job'.num > 1 => host'.blocks = job'.num)
    BY <1>2, <1>3, <2>1, <2>2, <2>4
  <2>12. pc' = "cmd23" => job'.num > 1 /\ drv'.scr.blkcnt
    BY <1>2, <1>3, <2>1
  <2>13. pc' = "cmd18" => ~(job'.num > 1 /\ drv'.scr.blkcnt)
    BY <1>2, <1>3, <2>1
  <2>14. pc' = "single" => ~ByBlock
    BY <2>1
  <2>15. stat' /\ job'.c \in 0 .. job'.num /\ job'.c < job'.num
    BY <1>1, <1>2, <1>3
  <2>16. job'.num >= 1 /\ job'.call = "read"
    BY <1>2, <1>3
  <2> HIDE DEF n
  <2>17. Filling'
    BY <1>3, <1>4, <2>4, <2>5, <2>8, <2>9, <2>10, <2>11, <2>12, <2>13, <2>14, <2>15, <2>16
    DEF Filling
  <2> QED
    BY <1>5, <2>6, <2>7, <2>17 DEF IInv
<1> QED
  BY <1>8, <1>9

LEMMA SetBlockCountKeeps ==
  ASSUME IInv, SetBlockCount PROVE IInv'
<1>1. pc = "cmd23" /\ pc \in Reading
  BY DEF SetBlockCount, Reading
<1>2. PICK x \in sd_cmd(Now, "SET_BLOCKCNT", job.num) :
        IF Ok(x) THEN Go(x, "cmd18") ELSE ReadReturns(x, "failed")
  BY DEF SetBlockCount
<1>3. /\ ByBlock /\ job.c = 0 /\ host.left = 0 /\ host.blocks = job.num
      /\ job.num > 1 /\ drv.scr.blkcnt
  BY <1>1 DEF IInv, Filling
<1>4. job.num \in Int /\ job.num > 0
  BY <1>1, ReadFacts
<1>5. /\ Running(x)
      /\ x.drv.err = "OK" =>
           /\ Takes(card, "SET_BLOCKCNT", job.num)
           /\ \/ /\ x.card = Executed(card, "SET_BLOCKCNT", job.num)
                 /\ x.host.left = OpenFor(Now, "SET_BLOCKCNT")
              \/ x.card = Refused(card) /\ x.host.left = host.left /\ x.faults > faults
  BY <1>1, <1>3, <1>4, ReadCmd
<1>6. CASE Ok(x)
  <2>1. Step(x) /\ pc' = "cmd18" /\ job' = job /\ stat' = stat
    BY <1>2, <1>6 DEF Go
  <2>2. /\ Types' /\ CardTrue' /\ Initialising' /\ Clocked'
        /\ card' = x.card /\ host' = x.host /\ drv' = x.drv /\ faults' = x.faults
        /\ drv'.scr = drv.scr /\ (Usable => Usable')
    BY <1>1, <1>5, <2>1, InvFacts, ReadStep DEF Reading
  <2>3. card.state = "tran" /\ x.host.left = 0
    BY <1>3, <1>5, <1>6, InvFacts DEF Takes, OpenFor, Data, Ok
  <2>4. x.card.state = "tran" /\ (x.card.count = job.num \/ (x.card.count = 0 /\ x.faults > 0))
    <3>1. CASE x.card = Executed(card, "SET_BLOCKCNT", job.num)
      BY <2>3, <3>1, InvFacts DEF Executed, Card
    <3>2. CASE x.card = Refused(card) /\ x.faults > faults
      BY <2>3, <3>2, InvFacts, <1>5 DEF Refused, Card, Running, World
    <3> QED
      BY <1>5, <1>6, <3>1, <3>2 DEF Ok
  <2>5. x.host.blocks = host.blocks
    BY <1>5 DEF Running
  <2>6. Usable
    BY <1>1, ReadFacts
  <2>7. Filling'
    BY <1>1, <1>3, <2>1, <2>2, <2>3, <2>4, <2>5, <2>6 DEF IInv, Filling, Reading, ByBlock
  <2>8. Results'
    BY <2>1 DEF Results, InitAgrees, BlocksRight, ReadCloses
  <2> QED
    BY <2>2, <2>7, <2>8 DEF IInv
<1>7. CASE ~Ok(x)
  BY <1>1, <1>2, <1>5, <1>7, ReadFails
<1> QED
  BY <1>6, <1>7

LEMMA ReadCommandKeeps ==
  ASSUME IInv, ReadCommand PROVE IInv'
<1> DEFINE code == IF job.num = 1 THEN "READ_SINGLE" ELSE "READ_MULTI"
<1>1. pc = "cmd18" /\ pc \in Reading
  BY DEF ReadCommand, Reading
<1>2. PICK x \in sd_cmd(Now, code, job.lba) :
        IF Ok(x) THEN Go(x, "block") ELSE ReadReturns(x, "failed")
  BY DEF ReadCommand
<1>3. /\ ByBlock /\ job.c = 0 /\ host.left = 0
      /\ job.num > 1 => host.blocks = job.num
      /\ job.num > 1 /\ drv.scr.blkcnt =>
           card.state = "tran" /\ (card.count = job.num \/ (card.count = 0 /\ faults > 0))
  BY <1>1 DEF IInv, Filling
<1>4. job.num \in Nat /\ job.num >= 1 /\ job.lba \in Int
  BY <1>1, ReadFacts
<1>5. code \in {"READ_SINGLE", "READ_MULTI"} /\ (code = "READ_SINGLE" <=> job.num = 1)
  OBVIOUS
<1> HIDE DEF code
<1>6. /\ Running(x)
      /\ x.drv.err = "OK" =>
           /\ Takes(card, code, job.lba)
           /\ \/ x.card = Executed(card, code, job.lba) /\ x.host.left = OpenFor(Now, code)
              \/ x.card = Refused(card) /\ x.host.left = host.left /\ x.faults > faults
  BY <1>1, <1>4, <1>5, ReadCmd
<1>7. CASE Ok(x)
  <2>1. Step(x) /\ pc' = "block" /\ job' = job /\ stat' = stat
    BY <1>2, <1>7 DEF Go
  <2>2. /\ Types' /\ CardTrue' /\ Initialising' /\ Clocked'
        /\ card' = x.card /\ host' = x.host /\ drv' = x.drv /\ faults' = x.faults
        /\ drv'.scr = drv.scr /\ (Usable => Usable')
    BY <1>1, <1>6, <2>1, InvFacts, ReadStep DEF Reading
  <2>3. Usable /\ Sound(card, TRUE, drv.scr.blkcnt)
    BY <1>1, ReadFacts
  <2>4. card.state = "tran" /\ card \in Card /\ card.kind.ccs = TRUE
    BY <1>3, <1>5, <1>6, <1>7, <2>3, InvFacts DEF Takes, Ok, Usable, ByBlock
  <2>5. x.faults >= faults /\ x.faults \in Nat /\ faults \in Nat
    BY <1>6, InvFacts, Constants DEF Running, World
  <2>6. x.host.left > 0 =>
          /\ x.host.left = job.num /\ x.card.state = "data" /\ x.card.at = job.lba
          /\ \/ x.card.count = job.num /\ (job.num = 1 \/ drv.scr.blkcnt)
             \/ x.card.count = -1 /\ job.num > 1 /\ (drv.scr.blkcnt => x.faults > 0)
    <3>1. CASE x.card = Executed(card, code, job.lba) /\ x.host.left = OpenFor(Now, code)
      <4>1. Address(card, job.lba) = job.lba
        BY <2>4 DEF Address
      <4> DEFINE n == IF job.num = 1 THEN 1 ELSE IF card.count > 0 THEN card.count ELSE -1
      <4>2. x.card = Sends([card EXCEPT !.app = FALSE], job.lba, n)
        BY <1>5, <3>1, <4>1, <2>4 DEF Executed, Card
      <4>3. x.host.left = job.num
        BY <1>3, <1>4, <1>5, <3>1, InvFacts DEF OpenFor, Data
      <4>4. \/ n = job.num /\ (job.num = 1 \/ drv.scr.blkcnt)
            \/ n = -1 /\ job.num > 1 /\ (drv.scr.blkcnt => x.faults > 0)
        <5>1. card.count \in Int
          BY <2>4 DEF Card
        <5>2. card.count = 0 \/ (card.count > 0 /\ drv.scr.blkcnt)
          BY <2>3, <2>4 DEF Sound
        <5>3. CASE job.num = 1
          BY <5>3
        <5>4. CASE job.num > 1 /\ drv.scr.blkcnt
          BY <1>3, <2>5, <5>1, <5>4
        <5>5. CASE job.num > 1 /\ ~drv.scr.blkcnt
          BY <5>1, <5>2, <5>5
        <5> QED
          BY <1>4, <5>3, <5>4, <5>5
      <4> HIDE DEF n
      <4>5. x.card.state = "data" /\ x.card.at = job.lba /\ x.card.count = n
        BY <2>4, <4>2 DEF Sends, Card
      <4> QED
        BY <4>3, <4>4, <4>5
    <3>2. CASE x.host.left = host.left
      BY <1>3, <3>2
    <3> QED
      BY <1>6, <1>7, <3>1, <3>2 DEF Ok
  <2>7. ByBlock' /\ Missing' = job.num
    BY <1>3, <1>4, <2>1, <2>2 DEF ByBlock, Missing
  <2>8. Transfer'
    BY <1>3, <1>4, <2>1, <2>2, <2>6, <2>7 DEF Transfer, Announced
  <2>9. Filling'
    BY <1>1, <2>1, <2>2, <2>3, <2>8 DEF IInv, Filling, Reading
  <2>10. Results'
    BY <2>1 DEF Results, InitAgrees, BlocksRight, ReadCloses
  <2> QED
    BY <2>2, <2>9, <2>10 DEF IInv
<1>8. CASE ~Ok(x)
  BY <1>1, <1>2, <1>6, <1>8, ReadFails
<1> QED
  BY <1>7, <1>8

\* A byte address is the block's, whatever the size of a block.
LEMMA ByteAddressed ==
  ASSUME NEW n \in Nat
  PROVE  (n * BLOCK) \div BLOCK = n
BY Constants

LEMMA ReadSingleKeeps ==
  ASSUME IInv, ReadSingle PROVE IInv'
<1> DEFINE arg == ByteAddress(job.lba + job.c)
<1>1. pc = "single" /\ pc \in Reading
  BY DEF ReadSingle, Reading
<1>2. PICK x \in sd_cmd(Now, "READ_SINGLE", arg) :
        IF Ok(x) THEN Go(x, "block") ELSE ReadReturns(x, "failed")
  BY DEF ReadSingle
<1>3. ~ByBlock /\ host.left = 0
  BY <1>1 DEF IInv, Filling
<1>4. job.num \in Nat /\ job.num >= 1 /\ job.lba \in Nat /\ job.c \in Nat
  BY <1>1, ReadFacts
<1>5. arg \in Int /\ arg \div BLOCK = job.lba + job.c
  BY <1>4, Constants, ByteAddressed DEF ByteAddress
<1> HIDE DEF arg
<1>6. /\ Running(x)
      /\ x.drv.err = "OK" =>
           /\ Takes(card, "READ_SINGLE", arg)
           /\ \/ /\ x.card = Executed(card, "READ_SINGLE", arg)
                 /\ x.host.left = OpenFor(Now, "READ_SINGLE")
              \/ x.card = Refused(card) /\ x.host.left = host.left /\ x.faults > faults
  BY <1>1, <1>5, ReadCmd
<1>7. CASE Ok(x)
  <2>1. Step(x) /\ pc' = "block" /\ job' = job /\ stat' = stat
    BY <1>2, <1>7 DEF Go
  <2>2. /\ Types' /\ CardTrue' /\ Initialising' /\ Clocked'
        /\ card' = x.card /\ host' = x.host /\ drv' = x.drv /\ faults' = x.faults
        /\ drv'.scr = drv.scr /\ (Usable => Usable')
    BY <1>1, <1>6, <2>1, InvFacts, ReadStep DEF Reading
  <2>3. card.state = "tran" /\ card \in Card
    BY <1>6, <1>7, InvFacts DEF Takes, Ok
  <2>4. Usable
    BY <1>1, <2>3 DEF IInv, Filling, Reading, Unusable
  <2>5. card.kind.ccs = FALSE
    <3>1. card.kind.ccs \in BOOLEAN
      BY <2>3, Constants DEF Card
    <3> QED
      BY <1>3, <2>4, <3>1 DEF Usable, ByBlock
  <2>6. x.host.left > 0 =>
          /\ x.host.left = 1 /\ x.card.state = "data" /\ x.card.at = job.lba + job.c
          /\ x.card.count = 1
    <3>1. CASE /\ x.card = Executed(card, "READ_SINGLE", arg)
               /\ x.host.left = OpenFor(Now, "READ_SINGLE")
      <4>1. Address(card, arg) = job.lba + job.c
        BY <1>5, <2>5 DEF Address
      <4>2. x.card = Sends([card EXCEPT !.app = FALSE], job.lba + job.c, 1)
        BY <3>1, <4>1 DEF Executed
      <4> QED
        BY <2>3, <3>1, <4>2 DEF Sends, Card, OpenFor, Data
    <3>2. CASE x.host.left = host.left
      BY <1>3, <3>2
    <3> QED
      BY <1>6, <1>7, <3>1, <3>2 DEF Ok
  <2>7. ~ByBlock' /\ Missing' = 1
    BY <1>3, <2>1, <2>2 DEF ByBlock, Missing
  <2>8. Transfer'
    BY <2>1, <2>2, <2>6, <2>7 DEF Transfer, Announced
  <2>9. Filling'
    BY <1>1, <2>1, <2>2, <2>4, <2>8 DEF IInv, Filling, Reading
  <2>10. Results'
    BY <2>1 DEF Results, InitAgrees, BlocksRight, ReadCloses
  <2> QED
    BY <2>2, <2>9, <2>10 DEF IInv
<1>8. CASE ~Ok(x)
  BY <1>1, <1>2, <1>6, <1>8, ReadFails
<1> QED
  BY <1>7, <1>8

LEMMA ReadBlockKeeps ==
  ASSUME IInv, ReadBlock PROVE IInv'
<1> DEFINE c == job.c + 1
           buf == Append(job.buf, card.at)
<1>1. pc = "block" /\ pc \in Reading
  BY DEF ReadBlock, Reading
<1>2. PICK x \in sd_int(Now) :
        IF ~Ok(x) THEN ReadReturns(x, "failed")
        ELSE IF c < job.num THEN Reads(x, IF ByBlock THEN "block" ELSE "single", buf, c)
        ELSE IF MustStop THEN Reads(x, "stop", buf, c)
        ELSE /\ Step(x) /\ pc' = "idle" /\ stat' = stat
             /\ job' = [job EXCEPT !.buf = buf, !.c = c, !.ret = "read"]
  BY DEF ReadBlock
<1>3. /\ Transfer /\ job.c < job.num /\ job.buf = [i \in 1 .. job.c |-> job.lba + i - 1]
  BY <1>1 DEF IInv, Filling
<1>4. /\ stat /\ job.call = "read" /\ job.num \in Nat /\ job.num >= 1 /\ job.c \in Nat
      /\ job.lba \in Nat /\ job \in Job /\ Usable
  BY <1>1, ReadFacts
<1>5. IntKept(x) /\ (IntGot(x) \/ IntLost(x))
  BY IntOutcome, InvFacts
<1>6. Running(x)
  <2>1. /\ Sound(x.card, stat, drv.scr.blkcnt)
        /\ card.state \in {"tran", "data"} => x.card.state \in {"tran", "data"}
    BY <1>5, IntSound
  <2> QED
    BY <1>4, <1>5, <2>1 DEF Running, IntKept, Usable
<1>7. CASE ~Ok(x)
  BY <1>1, <1>2, <1>6, <1>7, ReadFails
<1>8. CASE Ok(x)
  <2>1. IntGot(x)
    BY <1>5, <1>8 DEF IntLost, Ok
  <2>2. host.left > 0 /\ card.state = "data" /\ x.card = AfterBlock(card)
        /\ x.host.left = host.left - 1 /\ card \in Card /\ host.left \in Nat
    BY <2>1, InvFacts DEF IntGot, Arrives, Host
  <2>3. host.left = Missing /\ card.at = job.lba + job.c /\ Announced
    BY <1>3, <2>2 DEF Transfer
  <2>4. /\ x.card.at = card.at + 1
        /\ x.card.count = IF card.count > 0 THEN card.count - 1 ELSE card.count
        /\ x.card.state = IF card.count = 1 THEN "tran" ELSE "data"
    BY <2>2 DEF AfterBlock, Card
  <2>5. /\ buf = [i \in 1 .. c |-> job.lba + i - 1] /\ buf \in Seq(Int) /\ Len(buf) = c
    <3>1. buf = Append([i \in 1 .. job.c |-> job.lba + i - 1], job.lba + job.c)
      BY <1>3, <2>3
    <3> HIDE DEF buf
    <3> QED
      BY <1>4, <3>1, AppendFilled
  <2>6. c \in Nat /\ c \in 0 .. job.num
    BY <1>3, <1>4
  <2>7. faults \in Nat /\ x.faults \in Nat /\ x.faults >= faults
    BY <1>6, InvFacts, Constants DEF Running, World
  <2> HIDE DEF buf
  <2>8. ASSUME NEW to \in Reading, Reads(x, to, buf, c)
        PROVE  /\ Step(x) /\ pc' = to /\ job' \in Job /\ stat' = stat
               /\ job'.call = "read" /\ job'.lba = job.lba /\ job'.num = job.num
               /\ job'.buf = buf /\ job'.c = c
               /\ Types' /\ CardTrue' /\ Initialising' /\ Clocked' /\ Results'
               /\ card' = x.card /\ host' = x.host /\ drv'.scr = drv.scr /\ faults' = x.faults
               /\ Usable'
    <3>1. Step(x) /\ pc' = to /\ job' = [job EXCEPT !.buf = buf, !.c = c] /\ stat' = stat
      BY <2>8 DEF Reads
    <3> HIDE DEF c
    <3>2. /\ job' \in Job /\ job'.call = job.call /\ job'.lba = job.lba /\ job'.num = job.num
          /\ job'.buf = buf /\ job'.c = c
      BY <1>4, <2>5, <2>6, <3>1 DEF Job
    <3>3. /\ Types' /\ CardTrue' /\ Initialising' /\ Clocked'
          /\ card' = x.card /\ host' = x.host /\ drv'.scr = drv.scr /\ faults' = x.faults
          /\ Usable'
      BY <1>1, <1>4, <1>6, <3>1, <3>2, ReadStep
    <3>4. Results'
      BY <3>1, <2>8 DEF Results, InitAgrees, BlocksRight, ReadCloses, Reading
    <3> QED
      BY <1>4, <3>1, <3>2, <3>3, <3>4
  <2>9. CASE c < job.num /\ ByBlock
    <3>1. Reads(x, "block", buf, c)
      BY <1>2, <1>8, <2>9
    <3>2. /\ pc' = "block" /\ stat' = stat
          /\ job'.call = "read" /\ job'.lba = job.lba /\ job'.num = job.num
          /\ job'.buf = buf /\ job'.c = c
          /\ Types' /\ CardTrue' /\ Initialising' /\ Clocked' /\ Results'
          /\ card' = x.card /\ host' = x.host /\ drv'.scr = drv.scr /\ faults' = x.faults
          /\ Usable'
      BY <2>8, <3>1 DEF Reading
    <3>3. ByBlock' /\ Missing = job.num - job.c /\ Missing' = job.num - c
      BY <2>9, <3>2 DEF ByBlock, Missing
    <3>4. x.host.left = job.num - c /\ x.card.at = job.lba + c
      BY <1>4, <2>2, <2>3, <2>4, <3>3
    <3>5. /\ x.card.state = "data"
          /\ \/ x.card.count = job.num - c /\ (job.num = 1 \/ drv.scr.blkcnt)
             \/ x.card.count = -1 /\ job.num > 1 /\ (drv.scr.blkcnt => x.faults > 0)
      BY <1>4, <2>3, <2>4, <2>7, <2>9, <3>3 DEF Announced
    <3>6. Transfer'
      BY <3>2, <3>3, <3>4, <3>5 DEF Transfer, Announced
    <3>7. Filling'
      BY <1>4, <2>5, <2>6, <2>9, <3>2, <3>6 DEF Filling, Reading
    <3> QED
      BY <3>2, <3>7 DEF IInv
  <2>10. CASE c < job.num /\ ~ByBlock
    <3>1. Reads(x, "single", buf, c)
      BY <1>2, <1>8, <2>10
    <3>2. /\ pc' = "single" /\ stat' = stat
          /\ job'.call = "read" /\ job'.lba = job.lba /\ job'.num = job.num
          /\ job'.buf = buf /\ job'.c = c
          /\ Types' /\ CardTrue' /\ Initialising' /\ Clocked' /\ Results'
          /\ card' = x.card /\ host' = x.host /\ drv'.scr = drv.scr /\ faults' = x.faults
          /\ Usable'
      BY <2>8, <3>1 DEF Reading
    <3>3. ~ByBlock' /\ Missing = 1
      BY <2>10, <3>2 DEF ByBlock, Missing
    <3>4. host'.left = 0
      BY <2>2, <2>3, <3>2, <3>3
    <3>5. Filling'
      BY <1>4, <2>5, <2>6, <2>10, <3>2, <3>3, <3>4 DEF Filling, Reading
    <3> QED
      BY <3>2, <3>5 DEF IInv
  <2>11. CASE ~(c < job.num)
    <3>1. c = job.num /\ Missing = 1
      BY <1>3, <1>4, <2>11 DEF Missing
    <3>2. x.host.left = 0
      BY <2>2, <2>3, <3>1
    <3>3. \/ x.card.state = "tran"
          \/ x.card.count = -1 /\ job.num > 1 /\ ByBlock /\ (drv.scr.blkcnt => x.faults > 0)
      BY <2>3, <2>4, <2>7, <3>1 DEF Announced
    <3>4. CASE MustStop
      <4>1. Reads(x, "stop", buf, c)
        BY <1>2, <1>8, <2>11, <3>4
      <4>2. /\ pc' = "stop" /\ stat' = stat
            /\ job'.call = "read" /\ job'.lba = job.lba /\ job'.num = job.num
            /\ job'.buf = buf /\ job'.c = c
            /\ Types' /\ CardTrue' /\ Initialising' /\ Clocked' /\ Results'
            /\ card' = x.card /\ host' = x.host /\ drv'.scr = drv.scr /\ faults' = x.faults
            /\ Usable'
        BY <2>8, <4>1 DEF Reading
      <4>3. MustStop' /\ (card'.state = "data" => card'.count = -1)
        BY <3>3, <3>4, <4>2 DEF MustStop, ByBlock
      <4>4. Filling'
        BY <1>4, <2>5, <2>6, <3>1, <3>2, <4>2, <4>3 DEF Filling, Reading
      <4> QED
        BY <4>2, <4>4 DEF IInv
    <3>5. CASE ~MustStop
      <4>1. /\ Step(x) /\ pc' = "idle" /\ stat' = stat
            /\ job' = [job EXCEPT !.buf = buf, !.c = c, !.ret = "read"]
        BY <1>2, <1>8, <2>11, <3>5
      <4> HIDE DEF c
      <4>2. /\ job' \in Job /\ job'.call = "read" /\ job'.lba = job.lba /\ job'.num = job.num
            /\ job'.buf = buf /\ job'.c = c
        BY <1>4, <2>5, <2>6, <4>1 DEF Job
      <4>3. /\ Types' /\ CardTrue' /\ Initialising' /\ Clocked'
            /\ card' = x.card /\ host' = x.host /\ faults' = x.faults /\ Usable'
        BY <1>1, <1>4, <1>6, <4>1, <4>2, ReadStep
      <4>4. Filling'
        BY <1>4, <2>5, <3>1, <4>1, <4>2, <4>3 DEF Filling, Reading
      <4>5. drv.scr.blkcnt \in BOOLEAN
        BY InvFacts DEF Drv, Scr
      <4>6. /\ host'.left = 0
            /\ card'.state = "tran" \/ (card'.count = -1 /\ job'.num > 1 /\ faults' > 0)
        BY <3>2, <3>3, <3>5, <4>2, <4>3 DEF MustStop
      <4>7. Results'
        BY <2>5, <3>1, <4>2, <4>6 DEF Results, InitAgrees, BlocksRight, ReadCloses
      <4> QED
        BY <4>3, <4>4, <4>7 DEF IInv
    <3> QED
      BY <3>4, <3>5
  <2> QED
    BY <2>9, <2>10, <2>11
<1> QED
  BY <1>7, <1>8

LEMMA StopTransferKeeps ==
  ASSUME IInv, StopTransfer PROVE IInv'
<1>1. pc = "stop" /\ pc \in Reading
  BY DEF StopTransfer, Reading
<1>2. PICK x \in sd_cmd(Now, "STOP_TRANS", 0) :
        ReadReturns(x, IF Ok(x) THEN "read" ELSE "failed")
  BY DEF StopTransfer
<1>3. /\ MustStop /\ job.c = job.num /\ host.left = 0
      /\ card.state = "data" => card.count = -1
      /\ job.buf = [i \in 1 .. job.c |-> job.lba + i - 1]
  BY <1>1 DEF IInv, Filling
<1>4. /\ stat /\ job.call = "read" /\ job.num \in Nat /\ job \in Job /\ Usable
  BY <1>1, ReadFacts
<1>5. /\ Running(x)
      /\ x.drv.err = "OK" =>
           /\ Takes(card, "STOP_TRANS", 0)
           /\ \/ /\ x.card = Executed(card, "STOP_TRANS", 0)
                 /\ x.host.left = OpenFor(Now, "STOP_TRANS")
              \/ x.card = Refused(card) /\ x.host.left = host.left /\ x.faults > faults
  BY <1>1, ReadCmd
<1>6. CASE Ok(x)
  <2>1. Step(x) /\ pc' = "idle" /\ stat' = stat /\ job' = [job EXCEPT !.ret = "read"]
    BY <1>2, <1>6 DEF ReadReturns
  <2>2. /\ job' \in Job /\ job'.call = "read" /\ job'.lba = job.lba /\ job'.num = job.num
        /\ job'.buf = job.buf
    BY <1>4, <2>1 DEF Job
  <2>3. /\ Types' /\ CardTrue' /\ Initialising' /\ Clocked'
        /\ card' = x.card /\ host' = x.host /\ faults' = x.faults /\ Usable'
    BY <1>1, <1>4, <1>5, <2>1, <2>2, ReadStep
  <2>4. card.state = "data" /\ card \in Card /\ faults \in Nat
    BY <1>5, <1>6, InvFacts, Constants DEF Takes, Ok
  <2>5. x.host.left = 0
    BY <1>3, <1>5, <1>6, InvFacts DEF OpenFor, Data, Ok
  <2>6. x.card.state = "tran" \/ (x.card.count = -1 /\ job.num > 1 /\ x.faults > 0)
    <3>1. CASE x.card = Executed(card, "STOP_TRANS", 0)
      BY <2>4, <3>1 DEF Executed, Card
    <3>2. CASE x.card = Refused(card) /\ x.faults > faults
      <4>1. x.card.count = -1 /\ job.num > 1
        BY <1>3, <2>4, <3>2 DEF Refused, MustStop, Card
      <4>2. x.faults \in Nat
        BY <1>5, Constants DEF Running, World
      <4> QED
        BY <2>4, <3>2, <4>1, <4>2
    <3> QED
      BY <1>5, <1>6, <3>1, <3>2 DEF Ok
  <2>7. Filling'
    BY <2>1, <2>2, <2>3 DEF IInv, Filling, Reading
  <2>8. Results'
    BY <1>3, <2>2, <2>3, <2>5, <2>6 DEF Results, InitAgrees, BlocksRight, ReadCloses
  <2> QED
    BY <2>3, <2>7, <2>8 DEF IInv
<1>7. CASE ~Ok(x)
  BY <1>1, <1>2, <1>5, <1>7, ReadFails
<1> QED
  BY <1>6, <1>7

-----------------------------------------------------------------------------
LEMMA InitHolds ==
  ASSUME Init PROVE IInv
<1>1. PICK k \in Kinds :
        card = [kind |-> k, state |-> "idle", rca |-> 0, width |-> 1, app |-> FALSE,
                warm |-> k.warmup, at |-> 0, count |-> 0]
  BY DEF Init
<1> DEFINE idle == "idle"
           zero == 0
           one == 1
<1>2. /\ k.warmup \in Nat /\ idle \in CardState /\ zero \in {0, 1} /\ one \in {1, 4}
      /\ zero \in Nat /\ zero \in Int /\ zero \in {0, 1, 2} /\ zero \in {-1, 0, 1, 2}
      /\ zero \in 0 .. MAX_FAULTS
  BY Constants DEF CardState
<1>3. card = [kind |-> k, state |-> idle, rca |-> zero, width |-> one, app |-> FALSE,
              warm |-> k.warmup, at |-> zero, count |-> zero]
  BY <1>1
<1>4. host = [version |-> zero, err |-> FALSE, left |-> zero, blocks |-> zero, width |-> one,
              words |-> zero, clock |-> zero]
  BY DEF Init
<1>5. faults = zero /\ pc = "idle" /\ stat = FALSE
  BY DEF Init
<1>6. drv \in Drv
  <2> DEFINE ok == "OK"
  <2>1. ok \in Error /\ NoScr \in Scr
    BY DEF Error, NoScr, Scr
  <2>2. drv = [err |-> ok, rca |-> zero, scr |-> NoScr, r |-> zero]
    BY DEF Init, Fresh
  <2> HIDE DEF ok, zero
  <2> QED
    BY <1>2, <2>1, <2>2 DEF Drv
<1>7. job \in Job /\ job.call = "none" /\ job.buf = << >> /\ job.num = 0
  <2> DEFINE none == "none"
             empty == << >>
  <2>1. /\ none \in {"none", "init", "read"} /\ empty \in Seq(Int)
        /\ none \in {"none", "failed", "read"} \cup Error
    OBVIOUS
  <2>2. job = [call |-> none, lba |-> zero, num |-> zero, c |-> zero, ccs |-> FALSE,
               buf |-> empty, ret |-> none]
    BY DEF Init
  <2> HIDE DEF none, empty, zero
  <2>3. job \in Job /\ job.call = none /\ job.buf = empty /\ job.num = zero
    BY <1>2, <2>1, <2>2 DEF Job
  <2> QED
    BY <2>3 DEF none, empty, zero
<1>8. card.state = "idle" /\ card.rca = 0 /\ card.count = 0 /\ host.clock = 0
  BY <1>3, <1>4
<1> HIDE DEF idle, zero, one
<1>9. card \in Card /\ host \in Host
  BY <1>2, <1>3, <1>4 DEF Card, Host
<1>10. Types
  BY <1>2, <1>5, <1>6, <1>7, <1>9 DEF Types, Now, World
<1>11. CardTrue
  BY <1>8 DEF CardTrue, Sound, Unaddressed
<1>12. Initialising
  BY <1>5 DEF Initialising, Initialises, Identifies
<1>13. Clocked
  <2>1. IDENT \in Nat /\ FAST \in Nat /\ IDENT >= 0 /\ FAST >= 0
    BY DEF IDENT, FAST
  <2> QED
    BY <1>5, <1>8, <2>1 DEF Clocked, ClockInSpec, Identifies
<1>14. Filling
  BY <1>5, <1>7 DEF Filling, Reading
<1>15. Results
  BY <1>7 DEF Results, InitAgrees, BlocksRight, ReadCloses
<1> QED
  BY <1>10, <1>11, <1>12, <1>13, <1>14, <1>15 DEF IInv

LEMMA NextKeeps ==
  ASSUME IInv, [Next]_vars PROVE IInv'
<1>1. CASE Reset
  BY <1>1, ResetKeeps
<1>2. CASE DiskRead
  BY <1>2, DiskReadKeeps
<1>3. CASE SdInit
  BY <1>3, ClockKeeps, GoIdleKeeps, SendIfCondKeeps, SendOpCondKeeps, AllSendCidKeeps,
     SendRelAddrKeeps, CardSelectKeeps, SendScrKeeps, ScrReadyKeeps, ReadScrKeeps,
     SetBusWidthKeeps
  DEF SdInit
<1>4. CASE SdReadBlock
  BY <1>4, SetBlockCountKeeps, ReadCommandKeeps, ReadSingleKeeps, ReadBlockKeeps,
     StopTransferKeeps
  DEF SdReadBlock
<1>5. CASE CardHasWord
  BY <1>5, CardHasWordKeeps
<1>6. CASE UNCHANGED vars
  BY <1>6
  DEF vars, IInv, Types, Now, CardTrue, Sound, Initialising, Clocked, ClockInSpec, Filling,
      Usable, Unusable, Transfer, Announced, Missing, ByBlock, MustStop, Results, InitAgrees,
      BlocksRight, ReadCloses
<1> QED
  BY <1>1, <1>2, <1>3, <1>4, <1>5, <1>6 DEF Next

LEMMA IInvImplies ==
  ASSUME IInv PROVE DriverAgrees /\ ReadsRight
<1>1. TypeOK
  <2>1. /\ card \in Card /\ host \in Host /\ drv \in Drv /\ faults \in 0 .. MAX_FAULTS
        /\ stat \in BOOLEAN
    BY InvFacts
  <2>2. pc = "acmd41" => job.c \in 1 .. TRIES
    BY DEF IInv, Initialising
  <2>3. Len(job.buf) <= job.num
    BY DEF IInv, Filling
  <2> QED
    BY <2>1, <2>2, <2>3 DEF TypeOK, Card, CardState, Host, Drv, Error
<1>2. InitAgrees /\ ClockInSpec /\ BlocksRight /\ ReadCloses
  BY DEF IInv, Results, Clocked
<1> QED
  BY <1>1, <1>2 DEF DriverAgrees, ReadsRight

LEMMA Invariant == Spec => []IInv
<1>1. Init => IInv
  BY InitHolds
<1>2. IInv /\ [Next]_vars => IInv'
  BY NextKeeps
<1> QED
  BY <1>1, <1>2, PTL DEF Spec

\* When sd_init() has returned SD_OK the card is selected, under the address and with
\* the addressing that the driver goes on to use, and no transfer is open, whatever
\* commands were lost, garbled or refused and however often it was tried; and at no
\* time is the card clocked faster than its state allows.
THEOREM SdDriverAgrees == Spec => []DriverAgrees
<1>1. IInv => DriverAgrees
  BY IInvImplies
<1> QED
  BY <1>1, Invariant, PTL

\* A sd_readblock() that does not answer 0 has put the blocks asked for into the
\* buffer, one by one or in one transfer, with CMD23 or with CMD12, for a card of
\* any kind and after any earlier transfer that broke off; and it leaves the card
\* ready unless that refused CMD23 or CMD12.
THEOREM SdReadsRight == Spec => []ReadsRight
<1>1. IInv => ReadsRight
  BY IInvImplies
<1> QED
  BY <1>1, Invariant, PTL

-----------------------------------------------------------------------------
(***************************************************************************)
(* Every call ends: the measure.                                           *)
(***************************************************************************)
Measured ==
  /\ pc = "idle" => Left = 0
  /\ pc = "clk" => Left = TRIES + 13
  /\ pc = "cmd0" => Left = TRIES + 12
  /\ pc = "cmd8" => Left = TRIES + 11
  /\ pc = "acmd41" => Left = job.c + 10
  /\ pc = "cmd2" => Left = 10
  /\ pc = "cmd3" => Left = 9
  /\ pc = "fast" => Left = 8
  /\ pc = "cmd7" => Left = 7
  /\ pc = "scr" => Left = 6
  /\ pc = "scr_ready" => Left = 5
  /\ pc = "scr_words" => Left = 4 - host.words
  /\ pc = "acmd6" => Left = 1
  /\ pc = "cmd23" => Left = 2 * job.num + 3
  /\ pc = "cmd18" => Left = 2 * job.num + 2
  /\ pc = "single" => Left = 2 * (job.num - job.c) + 2
  /\ pc = "block" => Left = 2 * (job.num - job.c) + 1
  /\ pc = "stop" => Left = 1

LEMMA Measures == Measured
BY DEF Measured, Left

LEMMA NextMeasures == Measured'
BY Measures, PTL

\* What bounds the parts of the measure that are not constants.
Bounded ==
  /\ TRIES \in Nat /\ job.c \in Nat /\ job.num \in Nat
  /\ host.words \in {0, 1, 2}
  /\ pc = "acmd41" => job.c \in 1 .. TRIES
  /\ pc \in Reading =>
       job.c \in 0 .. job.num /\ job.num >= 1 /\ (pc # "stop" => job.c < job.num)

LEMMA IInvBounds == IInv => Bounded
<1> SUFFICES ASSUME IInv PROVE Bounded
  OBVIOUS
<1>1. TRIES \in Nat
  BY SdAssumption
<1>2. job.c \in Nat /\ job.num \in Nat /\ host.words \in {0, 1, 2}
  BY DEF IInv, Types, Now, World, Host, Job
<1> QED
  BY <1>1, <1>2 DEF Bounded, IInv, Initialising, Filling

LEMMA NextIInvBounds == IInv' => Bounded'
BY IInvBounds, PTL

LEMMA InitAdvances ==
  ASSUME IInv, IInv', SdInit
  PROVE  Left' \in 0 .. Left - 1
<1>1. Bounded /\ Bounded' /\ Measured /\ Measured'
  BY IInvBounds, NextIInvBounds, Measures, NextMeasures
<1>2. CASE Clock("clk", IDENT, "cmd0")
  <2>1. pc = "clk" /\ pc' \in {"cmd0", "idle"}
    BY <1>2 DEF Clock, Go, InitReturns
  <2> QED BY <1>1, <2>1 DEF Bounded, Measured
<1>3. CASE GoIdle
  <2>1. pc = "cmd0" /\ pc' \in {"cmd8", "idle"}
    BY <1>3 DEF GoIdle, Then, Go, InitReturns
  <2> QED BY <1>1, <2>1 DEF Bounded, Measured
<1>4. CASE SendIfCond
  <2>1. pc = "cmd8" /\ pc' \in {"acmd41", "idle"}
    BY <1>4 DEF SendIfCond, InitReturns
  <2> QED BY <1>1, <2>1 DEF Bounded, Measured
<1>5. CASE SendOpCond
  <2>1. job \in Job
    BY DEF IInv, Types
  <2>2. /\ pc = "acmd41" /\ pc' \in {"acmd41", "cmd2", "idle"}
        /\ pc' # "idle" => job'.c = job.c - 1
    <3>1. PICK x \in sd_acmd(Now, "SEND_OP_COND", 0) :
            IF x.drv.err \notin {"OK", "TIMEOUT"} THEN InitReturns(x, x.drv.err)
            ELSE IF job.c - 1 = 0 THEN InitReturns(x, "TIMEOUT")
            ELSE IF x.drv.r # 0 /\ ~card.kind.volts THEN InitReturns(x, "ERROR")
            ELSE /\ Step(x) /\ stat' = stat
                 /\ pc' = IF x.drv.r = 0 THEN "acmd41" ELSE "cmd2"
                 /\ job' = [job EXCEPT !.c = job.c - 1, !.ccs = x.drv.r = 2]
      BY <1>5 DEF SendOpCond, Tried
    <3>2. CASE pc' = "idle"
      BY <1>5, <3>2 DEF SendOpCond
    <3>3. CASE pc' # "idle"
      <4>1. /\ pc' = IF x.drv.r = 0 THEN "acmd41" ELSE "cmd2"
            /\ job' = [job EXCEPT !.c = job.c - 1, !.ccs = x.drv.r = 2]
        BY <3>1, <3>3 DEF InitReturns
      <4>2. job'.c = job.c - 1
        BY <4>1, <2>1 DEF Job
      <4> QED
        BY <1>5, <4>1, <4>2 DEF SendOpCond
    <3> QED BY <3>2, <3>3
  <2> QED BY <1>1, <2>2 DEF Bounded, Measured
<1>6. CASE AllSendCid
  <2>1. pc = "cmd2" /\ pc' = "cmd3"
    BY <1>6 DEF AllSendCid, Go
  <2> QED BY <1>1, <2>1 DEF Bounded, Measured
<1>7. CASE SendRelAddr
  <2>1. pc = "cmd3" /\ pc' \in {"fast", "idle"}
    BY <1>7 DEF SendRelAddr, Then, Go, InitReturns
  <2> QED BY <1>1, <2>1 DEF Bounded, Measured
<1>8. CASE Clock("fast", FAST, "cmd7")
  <2>1. pc = "fast" /\ pc' \in {"cmd7", "idle"}
    BY <1>8 DEF Clock, Go, InitReturns
  <2> QED BY <1>1, <2>1 DEF Bounded, Measured
<1>9. CASE CardSelect
  <2>1. pc = "cmd7" /\ pc' \in {"scr", "idle"}
    BY <1>9 DEF CardSelect, Then, Go, InitReturns
  <2> QED BY <1>1, <2>1 DEF Bounded, Measured
<1>10. CASE SendScr
  <2>1. pc = "scr" /\ pc' \in {"scr_ready", "idle"}
    <3>1. \E x : InitReturns(x, "TIMEOUT") \/ Then(x, "scr_ready")
      BY <1>10, Zenon DEF SendScr
    <3> QED BY <1>10, <3>1 DEF SendScr, Then, Go, InitReturns
  <2> QED BY <1>1, <2>1 DEF Bounded, Measured
<1>11. CASE ScrReady
  <2>1. pc = "scr_ready" /\ pc' \in {"scr_words", "idle"}
    BY <1>11 DEF ScrReady, Go, InitReturns
  <2> QED BY <1>1, <2>1 DEF Bounded, Measured
<1>12. CASE ReadScr
  <2>1. pc = "scr_words" /\ pc' \in {"acmd6", "idle"}
    BY <1>12 DEF ReadScr, InitDone, Go, InitReturns
  <2> QED BY <1>1, <2>1 DEF Bounded, Measured
<1>13. CASE SetBusWidth
  <2>1. pc = "acmd6" /\ pc' = "idle"
    BY <1>13 DEF SetBusWidth, InitDone, InitReturns
  <2> QED BY <1>1, <2>1 DEF Bounded, Measured
<1> QED
  BY <1>2, <1>3, <1>4, <1>5, <1>6, <1>7, <1>8, <1>9, <1>10, <1>11, <1>12, <1>13 DEF SdInit

LEMMA ReadAdvances ==
  ASSUME IInv, IInv', SdReadBlock
  PROVE  Left' \in 0 .. Left - 1
<1>1. Bounded /\ Bounded' /\ Measured /\ Measured' /\ job \in Job
  BY IInvBounds, NextIInvBounds, Measures, NextMeasures DEF IInv, Types
<1>2. CASE SetBlockCount
  <2>1. pc = "cmd23" /\ (pc' = "idle" \/ (pc' = "cmd18" /\ job' = job))
    BY <1>2 DEF SetBlockCount, Go, ReadReturns
  <2> QED BY <1>1, <2>1 DEF Bounded, Measured, Reading
<1>3. CASE ReadCommand
  <2>1. pc = "cmd18" /\ (pc' = "idle" \/ (pc' = "block" /\ job' = job))
    BY <1>3 DEF ReadCommand, Go, ReadReturns
  <2> QED BY <1>1, <2>1 DEF Bounded, Measured, Reading
<1>4. CASE ReadSingle
  <2>1. pc = "single" /\ (pc' = "idle" \/ (pc' = "block" /\ job' = job))
    BY <1>4 DEF ReadSingle, Go, ReadReturns
  <2>2. /\ job.c \in Nat /\ job.num \in Nat /\ job.c <= job.num
        /\ Left = 2 * (job.num - job.c) + 2
    BY <1>1, <2>1 DEF Bounded, Measured, Reading
  <2>3. Left' = 0 \/ Left' = 2 * (job.num - job.c) + 1
    BY <1>1, <2>1 DEF Measured
  <2> QED BY <2>2, <2>3
<1>5. CASE ReadBlock
  <2>1. /\ pc = "block"
        /\ \/ pc' \in {"idle", "stop"}
           \/ pc' \in {"block", "single"}
              /\ job' = [job EXCEPT !.buf = Append(job.buf, card.at), !.c = job.c + 1]
    BY <1>5 DEF ReadBlock, Reads, ReadReturns
  <2>2. pc' \in {"block", "single"} => job'.c = job.c + 1 /\ job'.num = job.num
    BY <1>1, <2>1 DEF Job
  <2>3. CASE pc' \in {"idle", "stop"}
    <3>1. /\ job.c \in Nat /\ job.num \in Nat
          /\ Left = 2 * (job.num - job.c) + 1
      BY <1>1, <2>1 DEF Bounded, Measured, Reading
    <3>2. job.c < job.num
      BY <1>1, <2>1 DEF Bounded, Reading
    <3>3. Left' = 0 \/ Left' = 1
      BY <1>1, <2>3 DEF Measured
    <3> QED BY <3>1, <3>2, <3>3
  <2>4. CASE pc' \in {"block", "single"}
    <3>1. job.c \in Nat /\ job.num \in Nat /\ job.c + 1 <= job.num
      BY <1>1, <2>2, <2>4 DEF Bounded, Reading
    <3>2. /\ Left = 2 * (job.num - job.c) + 1
          /\ Left' = 2 * (job.num - (job.c + 1)) + 1 \/ Left' = 2 * (job.num - (job.c + 1)) + 2
      BY <1>1, <2>1, <2>2, <2>4 DEF Measured
    <3> QED BY <3>1, <3>2
  <2> QED BY <2>1, <2>3, <2>4
<1>6. CASE StopTransfer
  <2>1. pc = "stop" /\ pc' = "idle"
    BY <1>6 DEF StopTransfer, ReadReturns
  <2> QED BY <1>1, <2>1 DEF Bounded, Measured
<1> QED
  BY <1>2, <1>3, <1>4, <1>5, <1>6 DEF SdReadBlock

LEMMA WordAdvances ==
  ASSUME IInv, CardHasWord
  PROVE  Left' \in 0 .. Left - 1
<1>1. host \in Host
  BY InvFacts
<1>2. host.words \in {0, 1} /\ host'.words = host.words + 1 /\ pc = "scr_words" /\ pc' = pc
  BY <1>1 DEF CardHasWord, Host
<1> QED
  BY <1>2, Measures, NextMeasures DEF Measured

\* sd_init() and sd_readblock() do not go round for ever, whatever the card and the bus
\* do: every step of a call lessens the number of steps it may still take, which for
\* sd_init() is that of its tries and a constant, for a read that of its blocks.
THEOREM SdCallsAdvance == Spec => CallsAdvance
<1>1. IInv /\ IInv' /\ [Next]_vars => [pc # "idle" => Left' \in 0 .. Left - 1]_vars
  <2> SUFFICES ASSUME IInv, IInv', Next, pc # "idle"
               PROVE  Left' \in 0 .. Left - 1
    OBVIOUS
  <2>1. ~Reset /\ ~DiskRead
    <3>1. Reset => pc = "idle"
      BY DEF Reset
    <3>2. DiskRead => pc = "idle"
      BY DEF DiskRead, StartRead
    <3> QED BY <3>1, <3>2
  <2> QED
    BY <2>1, InitAdvances, ReadAdvances, WordAdvances DEF Next
<1> QED
  BY <1>1, Invariant, PTL DEF Spec, CallsAdvance
===============================================================================
