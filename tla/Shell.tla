-------------------------------- MODULE Shell --------------------------------
(***************************************************************************)
(* The line editor of the shell (shell.c): the buffer the commands are     *)
(* read from, and the terminal the user looks at.                          *)
(***************************************************************************)
EXTENDS Integers, Sequences, FiniteSetsExt

CONSTANTS
  LINE_MAX,                 \* 64
  KEYS                      \* printable characters, SPACE among them

NUL == "NUL"
SPACE == "SPACE"

ASSUME ShellAssumption == LINE_MAX \in Nat \ {0} /\ NUL \notin KEYS

VARIABLES
  line, line_len,
  shown,                    \* ghost: what stands behind the prompt
  rubbed,                   \* ghost: backspace was the last key
  command                   \* ghost: [read, shown, rubbed] at the last execute

shellVars == <<line, line_len, shown, rubbed, command>>

NoCommand == [read |-> <<>>, shown |-> <<>>, rubbed |-> FALSE]

\* Static storage is zero; shell_task starts with line_reset.
ShellInit ==
  /\ line = [n \in 0 .. LINE_MAX - 1 |-> NUL]
  /\ line_len = 0
  /\ shown = <<>>
  /\ rubbed = FALSE
  /\ command = NoCommand

line_backspace ==
  /\ line_len' = IF line_len = 0 THEN 0 ELSE line_len - 1
  /\ shown' = IF line_len = 0 THEN shown ELSE SubSeq(shown, 1, line_len - 1)
  /\ rubbed' = (rubbed \/ line_len > 0)
  /\ UNCHANGED <<line, command>>

\* The character is not followed by a terminator.
Bug_Unterminated(c) ==
  LET room == line_len < LINE_MAX - 1
  IN /\ line_len' = IF room THEN line_len + 1 ELSE line_len
     /\ line' = IF room THEN [line EXCEPT ![line_len] = c] ELSE line
     /\ shown' = IF room THEN Append(shown, c) ELSE shown
     /\ rubbed' = (rubbed /\ ~room)
     /\ UNCHANGED command

line_accept_char(c) ==
  LET room == line_len < LINE_MAX - 1
  IN /\ line_len' = IF room THEN line_len + 1 ELSE line_len
     /\ line' = [n \in DOMAIN line |->
                   IF room /\ n = line_len THEN c
                   ELSE IF room /\ n = line_len + 1 THEN NUL ELSE line[n]]
     /\ shown' = IF room THEN Append(shown, c) ELSE shown
     /\ rubbed' = (rubbed /\ ~room)
     /\ UNCHANGED command

Terminators == {n \in DOMAIN line : line[n] = NUL}

\* What streq and the handlers take for the line: up to the first NUL
Read ==
  [n \in 1 .. Min(Terminators \cup {LINE_MAX}) |-> line[n - 1]]

\* cat, write and rm end the line at its first space.
cmd_arg ==
  LET spaces == {n \in 0 .. line_len - 1 : line[n] = SPACE}
  IN IF spaces = {} THEN line ELSE [line EXCEPT ![Min(spaces)] = NUL]

line_reset(after) == line_len' = 0 /\ line' = [after EXCEPT ![0] = NUL]

\* An empty line only prompts.
execute ==
  /\ shown' = <<>> /\ rubbed' = FALSE
  /\ IF line_len = 0
     THEN UNCHANGED <<line, line_len, command>>
     ELSE /\ command' = [read |-> Read, shown |-> shown, rubbed |-> rubbed]
          /\ \E after \in {line, cmd_arg} : line_reset(after)

\* shell_task: one key; other control characters are ignored.
ShellNext == execute \/ line_backspace \/ \E c \in KEYS : line_accept_char(c)

ShellSpec == ShellInit /\ [][ShellNext]_shellVars

-----------------------------------------------------------------------------
(* Properties                                                              *)

\* The commands find the end of the line within the buffer, although
\* backspace does not terminate it again and execute leaves the old bytes
\* (line_backspace, line_accept_char, line_reset).
Terminated == \E n \in Terminators : n >= line_len

\* Every line ends within the buffer; what is executed begins with what the
\* user sees, and is exactly that when the last key was not backspace
\* (execute).
ShellRunsShown ==
  /\ Terminated
  /\ command.shown = SubSeq(command.read, 1, Len(command.shown))
  /\ command.rubbed \/ command.read = command.shown

=============================================================================
