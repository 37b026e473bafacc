------------------------------ MODULE Console ------------------------------
(***************************************************************************)
(* The console of n7OS (kernel/console.c), the clock that the timer        *)
(* interrupt writes on it (kernel/time.c) and the processes that share it. *)
(*                                                                         *)
(* The write system call runs with IF = 0: a character is one step.  The   *)
(* read system call echoes what it takes (kernel/sys.c) after a kgetch()   *)
(* that may have set IF (kernel/keyboard.c): its console_putchar() can     *)
(* then lose the CPU between any two accesses to what it shares, which are *)
(* cursor_line, cursor_col, last_line, a cell of scr_tab and a port.       *)
(* Nothing is kept in a register from one statement to the next, as in the *)
(* build of the Makefile, which optimises nothing.                         *)
(***************************************************************************)
EXTENDS Integers

CONSTANTS
  VGA_WIDTH, VGA_HEIGHT,  \* columns and lines of the screen (80, 25)
  CLOCK,                  \* columns the clock takes, at the end of line 0 (8)
  TAB,                    \* columns a tabulation skips (8)
  BYTE,                   \* values of a uint8_t: cursor_line, cursor_col, the card's data (256)
  Char,                   \* kinds of characters that are written: see Kind
  Reader                  \* the processes that echo with interrupts on

\* A printable character, \b \t \n \f \r, and those that are ignored.
Kind == {"ink", "bs", "tab", "nl", "ff", "cr", "other"}

ASSUME ConsoleAssumption ==
  /\ VGA_WIDTH \in Nat \ {0} /\ VGA_HEIGHT \in Nat \ {0, 1}
  /\ CLOCK \in 1 .. VGA_WIDTH
  /\ TAB \in 1 .. VGA_WIDTH
  /\ BYTE \in Nat /\ VGA_WIDTH + TAB <= BYTE /\ VGA_HEIGHT < BYTE
  /\ Char \subseteq Kind

Cell == 0 .. VGA_WIDTH * VGA_HEIGHT - 1

Byte == 0 .. BYTE - 1

\* The screen, the cursor, last_line, and the card: the register it was last told of
\* and the two halves of its cursor.  History: the cells written since the cursor
\* came to its line; stray: something was written outside the screen; torn: the last
\* character that was begun cut another one; cleared: it is a form feed; mixed: a
\* character was cut, and none since has erased the line without being cut.
Con == [scr_tab: [Cell -> {"blank", "ink", "clock"}], line: Byte, col: Byte, last_line: Byte,
        command: {"low", "high"}, low: Byte, high: Byte, fresh: SUBSET Cell,
        stray: BOOLEAN, torn: BOOLEAN, cleared: BOOLEAN, mixed: BOOLEAN]

VARIABLES
  con,     \* kernel/console.c and the card
  pc, c,   \* per reader: where it is in console_putchar(), and its argument
  reg      \* per reader: what it has loaded of the cursor, and its place in clear_line()

vars == <<con, pc, c, reg>>

\* The position of a cursor, and the two bytes of it that are sent to the card.
Position(v) == VGA_WIDTH * v.line + v.col
Low(v)  == Position(v) % BYTE
High(v) == (Position(v) \div BYTE) % BYTE

----------------------------------------------------------------------------
(* console_putchar(), statement by statement.                              *)

\* Mutant: the high half is never sent.
set_cursor_Low(v) == [v EXCEPT !.low = Low(v), !.command = "low"]

\* set_cursor(): the two halves of the position, each behind its command.
set_cursor(v) ==
  [v EXCEPT !.low = Low(v), !.high = High(v), !.command = "high"]

clear_screen(v) ==
  set_cursor([v EXCEPT !.scr_tab = [i \in Cell |-> "blank"], !.line = 0, !.col = 0,
                       !.fresh = {}, !.cleared = TRUE, !.mixed = @ /\ v.torn])

\* A printable character goes into cell i, which may be outside the screen.
Ink(v, i) ==
  IF i \in Cell
    THEN [v EXCEPT !.scr_tab[i] = "ink", !.fresh = @ \cup {i}]
    ELSE [v EXCEPT !.stray = TRUE]

\* A cell is erased.
Blank(v, i) ==
  IF i \in Cell THEN [v EXCEPT !.scr_tab[i] = "blank"] ELSE [v EXCEPT !.stray = TRUE]

\* What character ch does to a byte of the cursor that was read as line, or as col.
Advance(v, ch, line, col) ==
  CASE ch = "ink" -> [v EXCEPT !.col = (col + 1) % BYTE]
    [] ch = "bs"  -> [v EXCEPT !.col = (col - 1) % BYTE]
    [] ch = "tab" -> [v EXCEPT !.col = (col + TAB) % BYTE]
    [] ch = "nl"  -> [v EXCEPT !.line = (line + 1) % BYTE]
    [] OTHER      -> v

LineStart(v) == [v EXCEPT !.col = 0]

\* Where character ch leaves the cursor.
Move(v, ch) ==
  CASE ch = "cr"              -> LineStart(v)
    [] ch = "nl"              -> LineStart(Advance(v, ch, v.line, v.col))
    [] ch = "bs" /\ v.col = 0 -> v
    [] OTHER                  -> Advance(v, ch, v.line, v.col)

\* Mutant: the last column is one too far.
WrapColumn_Late(v) ==
  IF v.col > VGA_WIDTH THEN [v EXCEPT !.col = 0, !.line = (@ + 1) % BYTE] ELSE v

WrapColumn(v) ==
  IF v.col >= VGA_WIDTH THEN [v EXCEPT !.col = 0, !.line = (@ + 1) % BYTE] ELSE v

WrapLine(v) == IF v.line >= VGA_HEIGHT THEN [v EXCEPT !.line = 0] ELSE v

\* Mutant: the wrap to line 0 is not seen as a change of line.
NewLine_Down(v) ==
  IF v.line > v.last_line
    THEN [v EXCEPT !.scr_tab = [i \in Cell |-> IF i \div VGA_WIDTH = v.line
                                                 THEN "blank" ELSE v.scr_tab[i]],
                   !.fresh = {}, !.last_line = v.line]
    ELSE v

\* Mutant: last_line is never updated.
NewLine_Stale(v) ==
  IF v.line # v.last_line
    THEN [v EXCEPT !.scr_tab = [i \in Cell |-> IF i \div VGA_WIDTH = v.line
                                                 THEN "blank" ELSE v.scr_tab[i]],
                   !.fresh = {}]
    ELSE v

\* A line that the cursor has come to is erased; it may be outside the screen.
NewLine(v) ==
  IF v.line # v.last_line
    THEN [v EXCEPT !.scr_tab = [i \in Cell |-> IF i \div VGA_WIDTH = v.line
                                                 THEN "blank" ELSE v.scr_tab[i]],
                   !.fresh = {}, !.last_line = v.line, !.stray = @ \/ v.line >= VGA_HEIGHT,
                   !.mixed = @ /\ v.torn]
    ELSE v

console_putchar(v, ch) ==
  LET printed == IF ch = "ink" THEN Ink(v, Position(v)) ELSE v
  IN  IF ch = "ff"
        THEN clear_screen(v)
        ELSE set_cursor(NewLine(WrapLine(WrapColumn(Move(printed, ch)))))

\* Nothing that is still used is loaded.
Unloaded == [line |-> 0, col |-> 0]

\* init_console()
Init ==
  /\ con = [scr_tab |-> [i \in Cell |-> "blank"], line |-> 0, col |-> 0, last_line |-> 0,
            command |-> "high", low |-> 0, high |-> 0, fresh |-> {},
            stray |-> FALSE, torn |-> FALSE, cleared |-> FALSE, mixed |-> FALSE]
  /\ pc = [r \in Reader |-> "out"]
  /\ c = [r \in Reader |-> "other"]
  /\ reg = [r \in Reader |-> Unloaded]

----------------------------------------------------------------------------
\* Nobody is inside console_putchar().
Quiet == \A r \in Reader : pc[r] = "out"

\* A character is begun (history only).
Begin(v) ==
  [v EXCEPT !.torn = ~Quiet, !.stray = ~Quiet /\ @, !.cleared = FALSE, !.mixed = @ \/ ~Quiet]

----------------------------------------------------------------------------
(* Interrupts off: sys_write(), and the handler of the timer.              *)

\* A character of a string that a process writes.
sys_write(ch) ==
  /\ con' = console_putchar(Begin(con), ch)
  /\ UNCHANGED <<pc, c, reg>>

display_clock ==
  /\ con' = [con EXCEPT !.scr_tab =
               [i \in Cell |-> IF i \in VGA_WIDTH - CLOCK .. VGA_WIDTH - 1
                                 THEN "clock" ELSE con.scr_tab[i]],
               !.fresh = @ \ (VGA_WIDTH - CLOCK .. VGA_WIDTH - 1)]
  /\ UNCHANGED <<pc, c, reg>>

----------------------------------------------------------------------------
(* Interrupts on: sys_read() of process r echoes a character.              *)

Goto(r, m) == pc' = [pc EXCEPT ![r] = m] /\ UNCHANGED c

\* One access of r, on the way from label l to label m: it loads the value w, ...
Load(r, l, w, m) ==
  /\ pc[r] = l
  /\ reg' = [reg EXCEPT ![r] = w]
  /\ Goto(r, m)
  /\ UNCHANGED con

\* ... or writes, which makes the console v, ...
Store(r, l, v, m) ==
  /\ pc[r] = l
  /\ con' = v
  /\ reg' = [reg EXCEPT ![r] = Unloaded]
  /\ Goto(r, m)

\* ... or reads for a test.
Branch(r, l, test, yes, no) ==
  /\ pc[r] = l
  /\ reg' = [reg EXCEPT ![r] = Unloaded]
  /\ Goto(r, IF test THEN yes ELSE no)
  /\ UNCHANGED con

LoadLine(r, l, m) == Load(r, l, [reg[r] EXCEPT !.line = con.line], m)
LoadCol(r, l, m)  == Load(r, l, [reg[r] EXCEPT !.col = con.col], m)

echo(r, ch) ==
  /\ pc[r] = "out"
  /\ pc' = [pc EXCEPT ![r] = CASE ch = "ink" -> "ink_line"
                               [] ch = "bs"  -> "test"
                               [] OTHER      -> "read"]
  /\ c' = [c EXCEPT ![r] = ch]
  /\ con' = Begin(con)
  /\ UNCHANGED reg

ink(r) ==
  \/ LoadLine(r, "ink_line", "ink_col") \/ LoadCol(r, "ink_col", "ink")
  \/ Store(r, "ink", Ink(con, Position(reg[r])), "read")

\* A Backspace that finds another column than it has tested may go below 0.
move(r) ==
  \/ Branch(r, "test", con.col > 0, "read", "wrap_column")
  \/ Load(r, "read", [line |-> con.line, col |-> con.col], "move")
  \/ Store(r, "move", Advance(con, c[r], reg[r].line, reg[r].col),
           IF c[r] = "nl" THEN "line_start" ELSE "wrap_column")
  \/ Store(r, "line_start", LineStart(con), "wrap_column")

wrap_column(r) ==
  \/ Branch(r, "wrap_column", con.col >= VGA_WIDTH, "wrap_start", "wrap_line")
  \/ Store(r, "wrap_start", LineStart(con), "wrap_read")
  \/ LoadLine(r, "wrap_read", "wrap_next")
  \/ Store(r, "wrap_next", [con EXCEPT !.line = (reg[r].line + 1) % BYTE], "wrap_line")

wrap_line(r) ==
  \/ Branch(r, "wrap_line", con.line >= VGA_HEIGHT, "top", "new_line")
  \/ Store(r, "top", [con EXCEPT !.line = 0], "new_line")

\* The line to erase is loaded, for a loop over its cells.
clear_line(r) ==
  /\ pc[r] = "clear_line"
  /\ reg' = [reg EXCEPT ![r] = [line |-> con.line, col |-> 0]]
  /\ con' = [con EXCEPT !.fresh = {}]
  /\ Goto(r, "blank")

\* A cell of it is erased.
blank(r) ==
  LET last == reg[r].col = VGA_WIDTH - 1
      v    == Blank(con, Position(reg[r]))
  IN  /\ pc[r] = "blank"
      /\ con' = IF last THEN [v EXCEPT !.mixed = @ /\ con.torn] ELSE v
      /\ reg' = [reg EXCEPT ![r] = IF last THEN Unloaded
                                             ELSE [line |-> reg[r].line, col |-> reg[r].col + 1]]
      /\ Goto(r, IF last THEN "last_read" ELSE "blank")

\* cursor_line is read for the test, for clear_line() and for last_line.
new_line(r) ==
  \/ LoadLine(r, "new_line", "changed")
  \/ Branch(r, "changed", reg[r].line # con.last_line, "clear_line", "cursor_col")
  \/ clear_line(r) \/ blank(r)
  \/ LoadLine(r, "last_read", "last_write")
  \/ Store(r, "last_write", [con EXCEPT !.last_line = reg[r].line], "cursor_col")

\* outb(CMD_LOW or CMD_HIGH, PORT_CMD), on the way from label l to label m.
command(r, l, half, m) ==
  /\ pc[r] = l
  /\ con' = [con EXCEPT !.command = half]
  /\ Goto(r, m)
  /\ UNCHANGED reg

\* outb(value, PORT_DATA): it goes to the half that the card was last told of.
data(value) ==
  con' = IF con.command = "low" THEN [con EXCEPT !.low = value] ELSE [con EXCEPT !.high = value]

data_low(r) ==
  /\ pc[r] = "data_low"
  /\ data(Low(reg[r]))
  /\ Goto(r, "command_high")
  /\ UNCHANGED reg

\* The last instruction of console_putchar(): its locals are gone.
data_high(r) ==
  /\ pc[r] = "data_high"
  /\ data(High(reg[r]))
  /\ pc' = [pc EXCEPT ![r] = "out"]
  /\ c' = [c EXCEPT ![r] = "other"]
  /\ reg' = [reg EXCEPT ![r] = Unloaded]

\* The arguments of set_cursor(), and its four outb.
set_cursor_outb(r) ==
  \/ LoadCol(r, "cursor_col", "cursor_line") \/ LoadLine(r, "cursor_line", "command_low")
  \/ command(r, "command_low", "low", "data_low") \/ data_low(r)
  \/ command(r, "command_high", "high", "data_high") \/ data_high(r)

----------------------------------------------------------------------------
\* What a reader echoes: a key's character, \b \n, and the space of "\b \b".
Echo == Char \cap {"ink", "bs", "tab", "nl"}

EchoStep(r) ==
  \/ \E ch \in Echo : echo(r, ch)
  \/ ink(r) \/ move(r) \/ wrap_column(r) \/ wrap_line(r) \/ new_line(r)
  \/ set_cursor_outb(r)

Next ==
  \/ \E ch \in Char : sys_write(ch)
  \/ display_clock
  \/ \E r \in Reader : EchoStep(r)

Spec == Init /\ [][Next]_vars

----------------------------------------------------------------------------
(* Properties.                                                             *)

Label ==
  {"out", "ink_line", "ink_col", "ink", "test", "read", "move", "line_start",
   "wrap_column", "wrap_start", "wrap_read", "wrap_next", "wrap_line", "top",
   "new_line", "changed", "clear_line", "blank", "last_read", "last_write",
   "cursor_col", "cursor_line", "command_low", "data_low", "command_high", "data_high"}

TypeOK ==
  /\ con \in Con
  /\ pc \in [Reader -> Label]
  /\ c \in [Reader -> Kind]
  /\ reg \in [Reader -> [line: Byte, col: Byte]]

\* The cursor is on the screen whenever nobody is moving it, in whatever order the
\* processes have moved it (console.c:58-59), also when a Backspace has gone below
\* column 0 because another process came between its test and its write (69-70).
CursorOnScreen == Quiet => con.line < VGA_HEIGHT /\ con.col < VGA_WIDTH

\* The card shows the cursor where the console has it: the first character that nobody
\* cuts puts right what others have torn (console.c:8-9).
CursorSynced == Quiet /\ ~con.torn => con.high * BYTE + con.low = Position(con)

\* Nothing is written outside the screen but by a character that is cut; and what the
\* current line shows was written since the cursor came to it (console.c:40-42, 58-59,
\* 96-97).  A character that is cut before it writes last_line (103) leaves one that is
\* out of date, and a line may then be entered without being erased: this lasts until a
\* character that nobody cuts erases its line.
InkInPlace ==
  /\ con.stray => con.torn
  /\ Quiet /\ ~con.mixed => \A i \in Cell :
       i \div VGA_WIDTH = con.line /\ con.scr_tab[i] = "ink" => i \in con.fresh

\* A printable character that cuts nobody stays where it has been written, until
\* something else is written (console.c:56, 96-97): last_line is that of the character
\* before, provided that nobody has cut that one.  It is not after a form feed, which
\* leaves last_line as it was (79), nor after a character that was cut (103): line 0, or
\* its own line, is then erased behind a character.
InkKept ==
  [][Quiet /\ ~con.torn /\ ~con.cleared /\ sys_write("ink")
       => con'.scr_tab[Position(con)] = "ink"]_vars
=============================================================================
