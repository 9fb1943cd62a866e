----------------------------- MODULE MCLibrary -----------------------------
(***************************************************************************)
(* The parts of the hypervisor that run alone, side by side for TLC: the   *)
(* ring buffer, the string routines, the formatter, the mailbox, the shell *)
(* and the names of files.  The initial state chooses the part; the others *)
(* stay as they are, so that the state spaces add up.                      *)
(***************************************************************************)
EXTENDS Fifo, Shell, Printf, Mailbox, FatNames

VARIABLE part

\* Upper and lower case; blanks, signs and the digits of the largest numbers;
\* the characters of a hexadecimal number, its prefix and one that is none.
MCAlphabets == {{0, 65, 97}, {0, 32, 45, 49, 54}, {0, 48, 97, 103, 120}}

\* The words c, 2 and 5.
MCCommands == [w \in {<<99>>, <<50>>, <<53>>} |->
                 CASE w = <<99>> -> "vmc" [] w = <<50>> -> "vmld" [] OTHER -> "vml"]

Numbers == [flags : SUBSET Flags, width : {0, 2, 3, 6}, prec : {-1, 0, 3}, star : {FALSE},
              length : {<<>>, <<"l">>}, spec : {"d", "u", "x", "X", "o", "b"},
              arg : {0, 9, 31, 40}]
Starred == [flags : SUBSET {"0", "-"}, width : {-3, 3}, prec : {-1, 2}, star : {TRUE},
            length : {<<"h">>, <<"h", "h">>, <<"l", "l">>, <<"z">>}, spec : {"i", "u"},
            arg : {0, 6, 31}]
Strings == [flags : {{}, {"-"}}, width : {0, 1, 3}, prec : {-1, 0, 1, 3}, star : BOOLEAN,
            length : {<<>>}, spec : {"s"}, arg : {<<>>, <<"b">>, <<"b", "c">>}]
Others == [flags : {{}, {"-"}}, width : {0, 3}, prec : {-1}, star : {FALSE},
           length : {<<>>}, spec : {"c", "%"}, arg : {"b"}]
MCDirectives == Numbers \cup Starred \cup Strings \cup Others

\* Terminators and separators; a drive; Shift JIS whose second byte is a
\* separator; the mark of a deleted entry; characters no name has.
MCNames == {{0, 32, 46, 47, 65, 97}, {32, 47, 48, 49, 58, 65}, {46, 47, 65, 92, 97, 129},
            {5, 32, 46, 64, 129, 229}, {32, 42, 46, 65, 92, 129}}

Parts == {"fifo", "text", "printf", "mailbox", "shell", "names"}
printfVars == <<directive, count>>
LibraryInit ==
  /\ part \in Parts /\ Init /\ ShellInit /\ MailboxInit /\ TextInit /\ PrintfInit
  /\ NamesInit
LibraryNext ==
  \/ part = "fifo" /\ Next /\ UNCHANGED <<part, text, mem, printfVars, mailVars, shellVars>>
  \/ part = "text" /\ TextNext /\ UNCHANGED <<part, text, vars, printfVars, mailVars, shellVars>>
  \/ part = "printf" /\ PrintfNext /\ UNCHANGED <<part, text, vars, mem, mailVars, shellVars>>
  \/ part = "mailbox" /\ MailboxNext /\ UNCHANGED <<part, text, vars, mem, printfVars, shellVars>>
  \/ part = "shell" /\ ShellNext /\ UNCHANGED <<part, text, vars, mem, printfVars, mailVars>>
  \/ part = "names" /\ NamesNext /\ UNCHANGED <<part, vars, mem, printfVars, mailVars, shellVars>>
LibrarySpec ==
  LibraryInit /\ [][LibraryNext]_<<part, text, mem, printfVars, vars, mailVars, shellVars>>
=============================================================================
