------------------------------ MODULE ReadLine ------------------------------
(***************************************************************************)
(* The read system call of n7OS (kernel/sys.c): characters of kgetch() go  *)
(* into the caller's array and are echoed on the console, Backspace takes  *)
(* the last one back on both.  The keyboard buffer is the queue that       *)
(* Keyboard.tla shows it to be; nobody else writes on the console (the     *)
(* processes that do are in Console.tla and Apps.tla).                     *)
(***************************************************************************)
EXTENDS Integers, Sequences

CONSTANTS
  Key, ENTER, BS,  \* the characters that can be typed
  Capacity,        \* how many can wait in kbd_buffer (63)
  BLANK,           \* an empty cell, and the space that erases one
  LEN,             \* cells of the caller's array; it asks for at most as many
  WIDTH            \* columns of the screen (80); two lines of it are enough here

ASSUME ReadLineAssumption ==
  /\ ENTER \notin Key /\ BS \notin Key /\ BLANK \notin Key /\ ENTER # BS
  /\ BLANK \notin {ENTER, BS}
  /\ Capacity \in Nat \ {0} /\ LEN \in Nat \ {0} /\ WIDTH \in Nat \ {0, 1}

HEIGHT == 2

Cell == 0 .. WIDTH * HEIGHT - 1

VARIABLES
  queue,     \* kbd_buffer: the characters that wait
  pc,        \* "user"; "loop" in sys_read(); "back" once a call has returned
  len,       \* its argument
  s,         \* the caller's array; OLD is what the caller had there
  count,     \* its local, and then the result
  term,      \* the console
  start      \* the column where the echo began

OLD == "old"
NUL == "nul"

vars == <<queue, pc, len, s, count, term, start>>

----------------------------------------------------------------------------
(* The console, as far as an echo uses it.                                 *)

\* scr_tab is blank and the cursor is on line 0 at column col.
Prompted(col) == [cell |-> [i \in Cell |-> BLANK], line |-> 0, col |-> col]

\* A character that is neither \b nor \n is written.
Inked(t, ch) ==
  IF ch \in {BS, ENTER} THEN t
                        ELSE [t EXCEPT !.cell[WIDTH * t.line + t.col] = ch, !.col = @ + 1]

\* \b goes back, but not to the line before; \n goes to the next one.
Moved(t, ch) ==
  CASE ch = BS    -> [t EXCEPT !.col = IF @ > 0 THEN @ - 1 ELSE 0]
    [] ch = ENTER -> [t EXCEPT !.col = 0, !.line = @ + 1]
    [] OTHER      -> t

WrapColumn(t) == IF t.col < WIDTH THEN t ELSE [t EXCEPT !.col = 0, !.line = @ + 1]
WrapLine(t)   == IF t.line < HEIGHT THEN t ELSE [t EXCEPT !.line = 0]

\* A line that the cursor has come to, from another one, is erased.
NewLine(t, line) ==
  IF t.line = line
    THEN t
    ELSE [t EXCEPT !.cell = [i \in Cell |-> IF i \div WIDTH = t.line THEN BLANK ELSE t.cell[i]]]

console_putchar(t, ch) ==
  NewLine(WrapLine(WrapColumn(Moved(Inked(t, ch), ch))), t.line)

console_putbytes(t, bytes) ==
  LET put[i \in 0 .. Len(bytes)] == IF i = 0 THEN t ELSE console_putchar(put[i - 1], bytes[i])
  IN  put[Len(bytes)]

----------------------------------------------------------------------------
Init ==
  /\ queue = <<>>
  /\ pc = "user" /\ len = 1 /\ count = 0
  /\ s = [i \in 0 .. LEN - 1 |-> OLD]
  /\ term = Prompted(0) /\ start = 0

\* A key arrives: kbd_buffer_push().
Arrive(ch) ==
  /\ queue' = IF Len(queue) < Capacity THEN Append(queue, ch) ELSE queue
  /\ UNCHANGED <<pc, len, s, count, term, start>>

\* A process that has written a prompt of col columns calls read(s, n).
call(n, col) ==
  /\ pc # "loop"
  /\ pc' = "loop"
  /\ len' = n /\ count' = 0
  /\ s' = [i \in 0 .. LEN - 1 |-> OLD]
  /\ term' = Prompted(col) /\ start' = col
  /\ UNCHANGED queue

Return(n) == s' = [s EXCEPT ![n] = NUL] /\ pc' = "back" /\ UNCHANGED count

\* kgetch() takes the oldest character.
kgetch(ch) == queue # <<>> /\ ch = Head(queue) /\ queue' = Tail(queue)

\* Mutant: the line may fill the array.
HasRoom_Full == count < len

HasRoom == count < len - 1

enter ==
  /\ pc = "loop" /\ HasRoom
  /\ kgetch(ENTER)
  /\ term' = console_putbytes(term, <<ENTER>>)
  /\ Return(count)
  /\ UNCHANGED <<len, start>>

\* Mutant: the character goes from the screen only.
backspace_ScreenOnly ==
  /\ pc = "loop" /\ HasRoom
  /\ kgetch(BS)
  /\ term' = IF count > 0 THEN console_putbytes(term, <<BS, BLANK, BS>>) ELSE term
  /\ UNCHANGED <<pc, len, s, start, count>>

\* Mutant: the echo is made whether or not there is a character to take back.
backspace_AlwaysEchoed ==
  /\ pc = "loop" /\ HasRoom
  /\ kgetch(BS)
  /\ count' = IF count > 0 THEN count - 1 ELSE 0
  /\ term' = console_putbytes(term, <<BS, BLANK, BS>>)
  /\ UNCHANGED <<pc, len, s, start>>

\* Nothing is taken back, nor echoed, from an empty line.
backspace ==
  /\ pc = "loop" /\ HasRoom
  /\ kgetch(BS)
  /\ \/ /\ count > 0
        /\ count' = count - 1
        /\ term' = console_putbytes(term, <<BS, BLANK, BS>>)
     \/ count = 0 /\ UNCHANGED <<count, term>>
  /\ UNCHANGED <<pc, len, s, start>>

store(ch) ==
  /\ pc = "loop" /\ HasRoom
  /\ kgetch(ch)
  /\ s' = [s EXCEPT ![count] = ch]
  /\ count' = count + 1
  /\ term' = console_putbytes(term, <<ch>>)
  /\ UNCHANGED <<pc, len, start>>

\* Mutant: the loop goes on until Enter.
full_Never == FALSE /\ UNCHANGED vars

\* The loop ends without Enter: at once when len <= 1.
full ==
  /\ pc = "loop" /\ ~HasRoom
  /\ Return(count)
  /\ UNCHANGED <<queue, len, term, start>>

sys_read == enter \/ backspace \/ full \/ \E ch \in Key : store(ch)

Next ==
  \/ \E ch \in Key \cup {ENTER, BS} : Arrive(ch)
  \/ \E n \in 0 .. LEN, col \in 0 .. WIDTH - 1 : call(n, col)
  \/ sys_read

\* A process in a system call that does not wait goes on.
Spec == Init /\ [][Next]_vars /\ WF_vars(sys_read)

----------------------------------------------------------------------------
(* Properties.                                                             *)

Line == [i \in 1 .. count |-> s[i - 1]]

\* What a call gives back is what the keys typed during it leave of the line, and what
\* was typed after its end is still there for the next one (sys.c:31-37).  The line has
\* room for len - 1 characters, as sys.c says; the header that programs read says len
\* ("Lit jusqu'à len caractères", unistd.h:57), which no call gives.
Editor == INSTANCE LineEditor
            WITH line <- Line, room <- IF len > 0 THEN len - 1 ELSE 0,
                 open <- pc = "loop" /\ HasRoom
ReadEdits == Init /\ [][\/ Editor!Take
                        \/ \E ch \in Key \cup {ENTER, BS} : Editor!Type(ch)
                        \/ \E n \in 0 .. LEN : Editor!Open(n)]_<<queue, Line, pc = "loop" /\ HasRoom>>

\* A call leaves alone what lies beyond the len cells it was given and, whichever way it
\* ends, has written a '\0' behind the characters it counts (sys.c:31-34, 61); with
\* len = 0 it still writes s[0].
OnlyItsCells ==
  /\ \A i \in 0 .. LEN - 1 : i >= len /\ i > 0 => s[i] = OLD
  /\ pc = "back" => s[count] = NUL

\* As long as the prompt and the line fit in the width of the screen, the screen shows
\* the line after the prompt, nothing after the line, and the cursor at its end
\* (sys.c:34-36): the echo of a Backspace undoes that of the character.
EchoIsTheLine ==
  pc = "loop" /\ start + len - 1 < WIDTH =>
    /\ term.line = 0 /\ term.col = start + count
    /\ \A i \in 0 .. WIDTH - 1 :
         term.cell[i] = IF i \in start .. start + count - 1 THEN s[i - start] ELSE BLANK

\* A call returns when Enter has been typed, at the latest (sys.c:33).
EnterEnds ==
  pc = "loop" /\ (\E i \in 1 .. Len(queue) : queue[i] = ENTER) ~> pc = "back"
=============================================================================
