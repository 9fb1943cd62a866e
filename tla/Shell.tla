-------------------------------- MODULE Shell --------------------------------
(***************************************************************************)
(* The shell of the hypervisor: hypervisor/common/shell.c, from the key to *)
(* the command.  Two line buffers take turns; a dot as the first character *)
(* runs the other one.  What vmld does to the VMs is in Sched and Memory,  *)
(* what ls reads in FatFs; here they are commands that return.             *)
(*                                                                         *)
(* A character is its code; the buffers are those of Text's memory with    *)
(* NUL = 0 behind what was typed.                                          *)
(***************************************************************************)
EXTENDS Text, FiniteSets
LOCAL INSTANCE FiniteSetsExt

CONSTANTS SHELL_CMD_MAX_LEN,    \* 100 in the code
          Keys,                 \* the codes of the keys that are pressed
          Commands,             \* what shell_cmds[] holds: name |-> function
          TASK_IDS,             \* 2^16: the numbers vmc can tell apart
          Tasks                 \* nr_tasks

ASSUME ShellAssumption ==
  /\ SHELL_CMD_MAX_LEN \in Nat \ {0} /\ TASK_IDS \in Nat \ {0} /\ Tasks \in Nat \ {0}
  /\ Keys \subseteq 1 .. 127

VARIABLES input_line,           \* the two buffers, strings of codes
          input_line_len,
          input_line_active,      \* 0 or 1
          swallow,              \* the keys an escape is still waiting for
          shown,                \* what the last key made the shell print
          command,              \* the line it ran, if any, and the words of it
          entered               \* the VM whose console vmc gave the keys to

shellVars == <<input_line, input_line_len, input_line_active, swallow, shown, command, entered>>

Backspace == {8, 127}
CR == 13
LF == 10
ESC == 27
SPACE == 32
COMMA == 44
DOT == 46
IsPrintable(c) == c \in 32 .. 126
HV == 0
NoCommand == [lines |-> <<>>, argv |-> <<>>]

SHELL_INPUT_LINE_OTHER(a) == (a + 1) % 2
Cells == 1 .. SHELL_CMD_MAX_LEN + 1
Blank == [i \in Cells |-> 0]

\* The string in a buffer.
NulIn(b) == CHOOSE n \in Cells : b[n] = 0 /\ \A i \in 1 .. n - 1 : b[i] # 0
InBuffer(b) == SubSeq(b, 1, NulIn(b) - 1)

-----------------------------------------------------------------------------
\* string_to_argv(): a blank or a comma ends an argument, further blanks are
\* skipped; a second comma begins an argument of its own, which is empty.
\* Mutant: a comma does not separate.
IsSeparator_blank(c) == c = SPACE
IsSeparator(c) == c \in {SPACE, COMMA}
FirstFrom(s, i, Is(_)) == Min({Len(s) + 1} \cup {j \in i .. Len(s) : Is(s[j])})

string_to_argv(s) ==
  LET Arguments[i \in 1 .. Len(s) + 2] ==      \* those from the i-th character on
        LET begin == FirstFrom(s, i, LAMBDA c : c # SPACE)
            end   == FirstFrom(s, begin, IsSeparator)
        IN  IF begin > Len(s) THEN <<>>
            ELSE <<SubSeq(s, begin, end - 1)>> \o Arguments[end + 1]
  IN  Arguments[1]

\* shell_find_cmd() compares with strcmp(): the whole word must be the name.
shell_find_cmd(word) == IF word \in DOMAIN Commands THEN Commands[word] ELSE "invalid"

\* vmc: no argument or task 0 is the hypervisor; the id is cut to 16 bits first.
TaskId(argv) ==
  IF Len(argv) # 2 THEN HV
  ELSE strtol_deci([a \in Memory |-> IF a < Len(argv[2]) THEN argv[2][a + 1] ELSE 0], 0) % TASK_IDS

\* What a command returns, and the console it leaves: "EINVAL", "ok", "failed"
\* or "entered".
\* Mutant: the id is not compared with the number of tasks.
IsTask_any(id) == TRUE
IsTask(id) == id <= Tasks - 1
shell_cmd_vmc(argv) ==
  LET id == TaskId(argv)
  IN  IF id = HV THEN {[status |-> "ok", console |-> HV]}
      ELSE IF ~IsTask(id) THEN {[status |-> "EINVAL", console |-> HV]}
      ELSE {[status |-> "entered", console |-> id]}

shell_cmd_vmld(argv) ==
  IF Len(argv) # 4 THEN {[status |-> "EINVAL", console |-> HV]}
  ELSE {[status |-> s, console |-> HV] : s \in {"EINVAL", "failed", "ok"}}

Function(f, argv) == CASE f = "vmc"  -> shell_cmd_vmc(argv)
                       [] f = "vmld" -> shell_cmd_vmld(argv)
                       [] f = "invalid" -> {[status |-> "no command", console |-> HV]}
                       [] OTHER      -> {[status |-> "ok", console |-> HV]}

\* shell_process_cmd(): a line without a word returns -EINVAL and prints nothing.
Outcomes_of(argv) == IF argv = <<>> THEN {[status |-> "empty", console |-> HV]}
                  ELSE Function(shell_find_cmd(argv[1]), argv)

\* Mutant: the buffers take turns even when the last line runs again.
NextActive_always(repeated) == SHELL_INPUT_LINE_OTHER(input_line_active)
NextActive(repeated) == IF repeated THEN input_line_active
                        ELSE SHELL_INPUT_LINE_OTHER(input_line_active)

\* shell_process() and the end of shell_kick(): the line runs, the buffer that
\* is active from now on is cleared, and the prompt follows unless a VM was
\* entered.
shell_process ==
  LET repeated == input_line[input_line_active][1] = DOT
      line == InBuffer(input_line[IF repeated THEN SHELL_INPUT_LINE_OTHER(input_line_active)
                                  ELSE input_line_active])
      argv == string_to_argv(line)
  IN  /\ input_line_len' = 0
      /\ input_line_active' = NextActive(repeated)
      /\ input_line' = [input_line EXCEPT ![NextActive(repeated)] = Blank]
      /\ command' = [lines |-> <<line>>, argv |-> argv]
      /\ \E o \in Outcomes_of(argv) :
           /\ entered' = o.console
           /\ shown' = <<"newline", o.status>>
                         \o (IF o.status = "entered" THEN <<>> ELSE <<"prompt">>)
      /\ UNCHANGED swallow

Shows(what) == shown' = what /\ command' = NoCommand /\ UNCHANGED <<input_line_active, entered>>

\* shell_input_line() for one key.
ShellBackspace(ch) ==
  /\ ch \in Backspace /\ UNCHANGED swallow
  /\ IF input_line_len = 0 THEN Shows(<<>>) /\ UNCHANGED <<input_line, input_line_len>>
     ELSE /\ input_line_len' = input_line_len - 1
          /\ input_line' = [input_line EXCEPT ![input_line_active][input_line_len] = 0]
          /\ Shows(<<"rubout">>)

\* The echo goes through printf(), to which % alone is a directive: not shown.
ShellChar(ch) ==
  /\ IsPrintable(ch) /\ input_line_len < SHELL_CMD_MAX_LEN
  /\ input_line' = [input_line EXCEPT ![input_line_active][input_line_len + 1] = ch]
  /\ input_line_len' = input_line_len + 1
  /\ Shows(IF ch = 37 THEN <<>> ELSE <<"echo">>) /\ UNCHANGED swallow

ShellSpecial(ch) ==
  /\ ch \notin Backspace \cup {CR, LF} /\ ~IsPrintable(ch) /\ input_line_len < SHELL_CMD_MAX_LEN
  /\ swallow' = (IF ch = ESC THEN 2 ELSE 0)
  /\ Shows(<<>>) /\ UNCHANGED <<input_line, input_line_len>>

ShellLineFeed(ch) == ch = LF /\ Shows(<<>>) /\ UNCHANGED <<input_line, input_line_len, swallow>>

\* Enter, or any other key on a full line.
ShellEnter(ch) ==
  /\ \/ ch = CR
     \/ ch \notin Backspace \cup {CR, LF} /\ input_line_len = SHELL_CMD_MAX_LEN
  /\ shell_process

\* A key while an escape waits in shell_getc() for its two characters.
ShellSwallow ==
  /\ swallow > 0 /\ swallow' = swallow - 1
  /\ Shows(<<>>) /\ UNCHANGED <<input_line, input_line_len>>

\* The console is the hypervisor's again after @0; see Console.
ShellBack ==
  /\ entered # HV /\ entered' = HV
  /\ shown' = <<>> /\ command' = NoCommand
  /\ UNCHANGED <<input_line, input_line_len, input_line_active, swallow>>

shell_kick(ch) ==
  /\ entered = HV
  /\ IF swallow > 0 THEN ShellSwallow
     ELSE \/ ShellBackspace(ch) \/ ShellChar(ch) \/ ShellSpecial(ch)
          \/ ShellLineFeed(ch) \/ ShellEnter(ch)

ShellInit ==
  /\ input_line = [a \in {0, 1} |-> Blank] /\ input_line_len = 0 /\ input_line_active = 0
  /\ swallow = 0 /\ shown = <<>> /\ command = NoCommand /\ entered = HV

ShellNext == ShellBack \/ \E ch \in Keys : shell_kick(ch)
ShellSpec == ShellInit /\ [][ShellNext]_shellVars

-----------------------------------------------------------------------------
Typed == SubSeq(input_line[input_line_active], 1, input_line_len)

(***************************************************************************)
(* The two buffers, their length, the index and the zeros behind them are  *)
(* a line editor: Enter runs exactly the characters on the line, a dot the *)
(* line that ran last, rubbed-out characters are gone, and keys of an      *)
(* escape sequence never reach the line.                                   *)
(***************************************************************************)
L == INSTANCE LineEditor WITH
       MAX_LEN <- SHELL_CMD_MAX_LEN, Printable <- {c \in Keys : IsPrintable(c)}, Dot <- DOT,
       text <- Typed, last <- InBuffer(input_line[SHELL_INPUT_LINE_OTHER(input_line_active)]),
       ran <- command.lines
IsLineEditor == L!Spec

Joined(words) ==
  LET Upto_[i \in 0 .. Len(words)] == IF i = 0 THEN <<>> ELSE Upto_[i - 1] \o words[i]
  IN  Upto_[Len(words)]
(***************************************************************************)
(* The words of a command are the characters of its line in their order    *)
(* without the blanks and commas, no word holds one, and there is an empty *)
(* word only where a comma stands.                                         *)
(***************************************************************************)
WordsOfLine == \A n \in 1 .. Len(command.lines) :
  LET line == command.lines[n]
      In(c) == Cardinality({i \in 1 .. Len(line) : line[i] = c})
  IN  /\ Joined(command.argv) = SelectSeq(line, LAMBDA c : c \notin {SPACE, COMMA})
      /\ Cardinality({i \in 1 .. Len(command.argv) : command.argv[i] = <<>>}) <= In(COMMA)
      /\ Len(command.argv) <= In(SPACE) + In(COMMA) + 1

(***************************************************************************)
(* The prompt comes back after every line that runs, whatever the command  *)
(* returned, except when vmc has given the keys to a VM: one that exists,  *)
(* whose number the line names (to the 16 bits vmc keeps of it, so a       *)
(* larger number also enters a VM).                                        *)
(***************************************************************************)
Decimal(word) == Value(word, 10)
PromptOrVm == command.lines # <<>> =>
  LET prompted == shown[Len(shown)] = "prompt"
      argv == command.argv
  IN  /\ entered # HV <=> ~prompted
      /\ entered # HV => /\ Len(argv) = 2 /\ entered \in 1 .. Tasks - 1
                         /\ Commands[argv[1]] = "vmc"
                         /\ (Decimal(argv[2]) - entered) % TASK_IDS = 0

(***************************************************************************)
(* A line that runs is split as it was typed, and leaves the user at the   *)
(* prompt or at the console of the VM that was named (shell.c).            *)
(***************************************************************************)
CommandsRun == WordsOfLine /\ PromptOrVm
=============================================================================
