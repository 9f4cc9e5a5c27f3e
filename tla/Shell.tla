--------------------------------- MODULE Shell ---------------------------------
(***************************************************************************)
(* The interactive shell of kernel/shell/shell.cpp, on top of Console and  *)
(* Vfs: the line editor, the dispatch of commands and what they do to the  *)
(* screen.                                                                 *)
(*                                                                         *)
(* Nothing but the shell writes to the console, so handling a key is one   *)
(* step that puts what it prints into `out`, from where it reaches the     *)
(* console one character per step.  Fixed wording is the glyph T; command  *)
(* words and file names are sequences over a small alphabet.  print_serial *)
(* and colours are left out.  Characters that are neither printable nor    *)
(* Enter nor Backspace change nothing.                                     *)
(***************************************************************************)
EXTENDS Integers, SequencesExt

CONSTANTS
  COLS, ROWS,
  BUF_SIZE,      (* sizeof(buf), 128                                       *)
  Keys,          (* printable characters a user types                      *)
  Word,          (* the text of each command, with the blank of "cat "     *)
  MAX_VFS_FILES, MAX_FILENAME, BuiltIn

NUL == "NUL"
NL == "NL"
BS == "BS"
CLEAR == "CLEAR"   (* in `out`: a call of fb_clear                         *)
HALT == "HALT"     (* in `out`: the end of reboot and panic                *)
T == "t"
Prompt == <<">">>
Blank == " "
Digit == <<"0", "1", "2", "3", "4", "5", "6", "7", "8", "9">>
Glyphs == Keys \cup {T, ">"} \cup ToSet(Digit)

Commands == {"help", "clear", "meminfo", "ticks", "tasks", "ls",
             "cat", "echo", "reboot", "panic"}

(* Keys are printable, and so is what files contain, but for new lines; no *)
(* built-in file is empty.                                                 *)
ASSUME ShellAssumption ==
  /\ {COLS, ROWS, BUF_SIZE, MAX_FILENAME} \subseteq Nat \ {0}
  /\ MAX_VFS_FILES \in Nat
  /\ Blank \in Keys
  /\ Keys \cap {NUL, NL, BS, CLEAR, HALT} = {}
  /\ Word \in [Commands -> Seq(Keys)]
  /\ BuiltIn \in Seq([name : Seq(Glyphs), data : Seq(Glyphs \cup {NL}) \ {<<>>}])

VARIABLES
  screen, s_cur_col, s_cur_row,
  s_files,
  buf, idx,
  out,
  halted,        (* shell_execute does not return any more                 *)
  typed          (* history: the line as the user sees it                  *)

console == <<screen, s_cur_col, s_cur_row>>
vars == <<console, s_files, buf, idx, out, halted, typed>>

(* No tab reaches the console: neither keys nor files have one. *)
Fb == INSTANCE Console WITH TAB <- 4, next_tab <- 0

Vfs == INSTANCE Vfs

-----------------------------------------------------------------------------

(* shell_init, then the first prompt of shell_task. *)
Init ==
  /\ Fb!Init
  /\ s_files = Vfs!vfs_init
  /\ buf = [i \in 0 .. BUF_SIZE - 1 |-> NUL]
  /\ idx = 0
  /\ out = <<NL, T, NL, T, NL, NL>> \o Prompt
  /\ halted = FALSE
  /\ typed = <<>>

(* The text before the first NUL. *)
CString(b) ==
  LET n == Min({i \in DOMAIN b : b[i] = NUL}) IN [i \in 1 .. n |-> b[i - 1]]

SkipBlanks(s) ==
  LET k == Max({j \in 0 .. Len(s) : \A i \in 1 .. j : s[i] = Blank})
  IN  SubSeq(s, k + 1, Len(s))

(* help, meminfo, ticks, tasks: a few lines. *)
Report == <<T, NL>>

(* The digits of v, lowest first, as the loop writes them. *)
DigitsOf[v \in Nat] ==
  IF v = 0 THEN <<>> ELSE <<Digit[(v % 10) + 1]>> \o DigitsOf[v \div 10]

print_u64_dec(v) == IF v = 0 THEN <<Digit[1]>> ELSE Reverse(DigitsOf[v])

fb_print_dec(prefix, val) == prefix \o print_u64_dec(val) \o <<NL>>

(* fb_print_dec ends the line between the size and the word "bytes". *)
ls ==
  LET nodes == Vfs!vfs_list(s_files, 16)
  IN  Report \o FlattenSeq([k \in DOMAIN nodes |->
        <<T>> \o nodes[k].name \o fb_print_dec(<<T>>, nodes[k].size) \o <<T, NL>>])

cat(fname) ==
  LET node == Vfs!vfs_open(s_files, fname)
  IN  IF node.used
      THEN node.data \o (IF node.data[node.size] # NL THEN <<NL>> ELSE <<>>)
      ELSE <<T>> \o fname \o <<NL>>

(* What a command line prints. *)
shell_execute(cmdline) ==
  LET cmd == SkipBlanks(cmdline)
      Is(c) == cmd = Word[c]
      Starts(c) == IsPrefix(Word[c], cmd)
      Rest(c) == SubSeq(cmd, Len(Word[c]) + 1, Len(cmd))
  IN  CASE cmd = <<>> -> <<>>
        [] \E c \in {"help", "meminfo", "ticks", "tasks"} : Is(c) -> Report
        [] Is("clear") -> <<CLEAR, T, NL>>
        [] Is("ls") -> ls
        [] Starts("cat") -> cat(SkipBlanks(Rest("cat")))
        [] Starts("echo") -> Rest("echo") \o <<NL>>
        [] Is("reboot") -> <<T, NL, HALT>>
        [] Is("panic") -> <<HALT>>
        [] OTHER -> <<T>> \o cmd \o <<T, NL>>

Reading == out = <<>> /\ ~halted

(* Mutant: The line is not ended. *)
key_enter_no_nul ==
  /\ Reading
  /\ out' = <<NL>> \o shell_execute(CString(buf)) \o Prompt
  /\ idx' = 0
  /\ typed' = <<>>
  /\ UNCHANGED <<console, s_files, buf, halted>>

key_enter ==
  /\ Reading
  /\ buf' = [buf EXCEPT ![idx] = NUL]
  /\ out' = <<NL>> \o shell_execute(CString(buf')) \o Prompt
  /\ idx' = 0
  /\ typed' = <<>>
  /\ UNCHANGED <<console, s_files, halted>>

(* Mutant: The screen is erased although the line is empty. *)
key_backspace_always ==
  /\ Reading
  /\ idx' = IF idx > 0 THEN idx - 1 ELSE 0
  /\ out' = <<BS>>
  /\ typed' = IF typed = <<>> THEN typed ELSE Front(typed)
  /\ UNCHANGED <<console, s_files, buf, halted>>

key_backspace ==
  /\ Reading
  /\ idx > 0
  /\ idx' = idx - 1
  /\ out' = <<BS>>
  /\ typed' = Front(typed)
  /\ UNCHANGED <<console, s_files, buf, halted>>

(* Mutant: No room is left for the NUL. *)
RoomToTheEnd == idx < BUF_SIZE

Room == idx < BUF_SIZE - 1

key_char(c) ==
  /\ Reading
  /\ Room
  /\ buf' = [buf EXCEPT ![idx] = c]
  /\ idx' = idx + 1
  /\ out' = <<c>>
  /\ typed' = Append(typed, c)
  /\ UNCHANGED <<console, s_files, halted>>

(* fb_print: one character of `out` reaches the console. *)
fb_print ==
  /\ out # <<>> /\ Head(out) # HALT
  /\ CASE Head(out) = NL -> Fb!putchar_nl
       [] Head(out) = BS -> Fb!putchar_bs
       [] Head(out) = CLEAR -> Fb!fb_clear
       [] OTHER -> Fb!putchar_glyph(Head(out))
  /\ out' = Tail(out)
  /\ UNCHANGED <<s_files, buf, idx, halted, typed>>

(* reboot waits for the reset, kernel_panic halts. *)
halt ==
  /\ out # <<>> /\ Head(out) = HALT
  /\ halted' = TRUE
  /\ out' = <<>>
  /\ UNCHANGED <<console, s_files, buf, idx, typed>>

Next ==
  \/ key_enter
  \/ key_backspace
  \/ \E c \in Keys : key_char(c)
  \/ fb_print
  \/ halt

Spec == Init /\ [][Next]_vars

-----------------------------------------------------------------------------

(* The cursor is on the screen and the line leaves room for its NUL. *)
TypeOK ==
  /\ Fb!TypeOK
  /\ buf \in [0 .. BUF_SIZE - 1 -> Keys \cup {NUL}]
  /\ idx \in 0 .. BUF_SIZE - 1
  /\ halted \in BOOLEAN

(* Enter executes what the user has typed and not erased: no character of  *)
(* an earlier, longer line and none that was erased is left in it.         *)
EnterRunsTyped ==
  [][out = <<>> /\ out' # <<>> /\ Head(out') = NL
       => out' = <<NL>> \o shell_execute(typed) \o Prompt]_vars

(* Where a full line fits beside the prompt, the cursor's row shows the    *)
(* prompt and the line that Enter would execute, and nothing else.         *)
LineShown ==
  Len(Prompt) + BUF_SIZE <= COLS /\ Reading =>
    LET shown == Prompt \o typed
    IN  /\ s_cur_col = Len(shown)
        /\ \A x \in 0 .. COLS - 1 :
             screen[s_cur_row][x] = IF x < Len(shown) THEN shown[x + 1] ELSE Blank
==============================================================================
