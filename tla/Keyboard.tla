------------------------------ MODULE Keyboard ------------------------------
(***************************************************************************)
(* The keyboard of n7OS (kernel/keyboard.c): the interrupt handler that    *)
(* turns scancodes into characters and pushes them into a ring buffer, and *)
(* kgetch(), which a process in the read system call runs to wait for a    *)
(* character and take it.                                                  *)
(*                                                                         *)
(* kgetch() is cut at every read or write of what it shares with the       *)
(* handler, and between sti and hlt: the compiler keeps both in functions  *)
(* of their own (include/n7OS/cpu.h, no optimisation), so an interrupt can *)
(* come between them.  A handler runs with IF = 0 and is one step.         *)
(***************************************************************************)
EXTENDS Integers, Sequences

CONSTANTS
  KBD_BUFFER_SIZE,  \* cells of kbd_buffer (64); "& KBD_BUFFER_MASK" is modulo this
  Key,              \* keys that have a character
  Shift,            \* the Shift keys: left and right
  NoChar, NoCode    \* no character; nothing in the keyboard controller

ASSUME KeyboardAssumption ==
  /\ KBD_BUFFER_SIZE \in Nat \ {0, 1}
  /\ NoChar \notin Key \X {0, 1}

Index == 0 .. KBD_BUFFER_SIZE - 1

\* The character of a key in scancode_map (0) or scancode_map_shift (1).
Char == Key \X {0, 1}

\* What the keyboard sends: presses and releases, of Shift and of the keys with a
\* character, and the codes of every other key (not ASCII, or beyond the table).
Scancode == [code: {"shift_down", "shift_up"}, key: Shift]
              \cup [code: {"down", "up"}, key: Key]
              \cup {[code |-> "other", key |-> NoChar]}

VARIABLES
  kbd_buffer, kbd_head, kbd_tail, shift_pressed,   \* kernel/keyboard.c
  port60,      \* the scancode in the controller, IRQ 1 raised
  held,        \* the Shift keys that are down
  IFlag,       \* the interrupt flag
  halted,      \* the CPU is in hlt
  pc,          \* where the reader is: "user", or in kgetch()
  c,           \* kgetch's local
  returned     \* the last character kgetch() has returned

bufVars    == <<kbd_buffer, kbd_head, kbd_tail>>
readerVars == <<pc, c, returned>>
vars == <<bufVars, shift_pressed, port60, held, IFlag, halted, readerVars>>

Init ==
  /\ kbd_buffer = [i \in Index |-> NoChar]
  /\ kbd_head = 0
  /\ kbd_tail = 0
  /\ shift_pressed = 0
  /\ port60 = NoCode
  /\ held = {}
  /\ IFlag = TRUE
  /\ halted = FALSE
  /\ pc = "user"
  /\ c = NoChar
  /\ returned = NoChar

----------------------------------------------------------------------------
(* The keyboard: a scancode for each press and release, the next one once  *)
(* the controller's has been read.                                         *)

Send(code, key) ==
  /\ port60 = NoCode
  /\ port60' = [code |-> code, key |-> key]
  /\ UNCHANGED <<bufVars, shift_pressed, IFlag, halted, readerVars>>

\* A key that stays down repeats its press.
PressShift(s) == held' = held \cup {s} /\ Send("shift_down", s)

ReleaseShift(s) == s \in held /\ held' = held \ {s} /\ Send("shift_up", s)

TypeKey(key) == UNCHANGED held /\ (Send("down", key) \/ Send("up", key))

OtherKey == UNCHANGED held /\ Send("other", NoChar)

----------------------------------------------------------------------------
(* The handlers.                                                           *)

\* Mutant: the buffer is never full.
kbd_buffer_push_NeverFull(ch) ==
  /\ kbd_buffer' = [kbd_buffer EXCEPT ![kbd_head] = ch]
  /\ kbd_head' = (kbd_head + 1) % KBD_BUFFER_SIZE
  /\ UNCHANGED kbd_tail

\* Mutant: full is told by the order of head and tail.
kbd_buffer_push_Unwrapped(ch) ==
  IF kbd_head >= kbd_tail /\ kbd_head # KBD_BUFFER_SIZE - 1
    THEN /\ kbd_buffer' = [kbd_buffer EXCEPT ![kbd_head] = ch]
         /\ kbd_head' = kbd_head + 1
         /\ UNCHANGED kbd_tail
    ELSE UNCHANGED bufVars

\* A character that finds the buffer full is lost.
kbd_buffer_push(ch) ==
  LET nxt == (kbd_head + 1) % KBD_BUFFER_SIZE
  IN  IF nxt # kbd_tail
        THEN /\ kbd_buffer' = [kbd_buffer EXCEPT ![kbd_head] = ch]
             /\ kbd_head' = nxt
             /\ UNCHANGED kbd_tail
        ELSE UNCHANGED bufVars

\* What keyboard_handler_C does with the scancode it has read.
keyboard_handler_C(code) ==
  \/ /\ code.code = "shift_down"
     /\ shift_pressed' = 1
     /\ UNCHANGED bufVars
  \/ /\ code.code = "shift_up"
     /\ shift_pressed' = 0
     /\ UNCHANGED bufVars
  \/ /\ code.code = "down"
     /\ kbd_buffer_push(<<code.key, shift_pressed>>)
     /\ UNCHANGED shift_pressed
  \/ /\ code.code \in {"up", "other"}
     /\ UNCHANGED <<bufVars, shift_pressed>>

\* IRQ 1: EOI, the scancode, the character, iret.
handler_keyboard ==
  /\ IFlag
  /\ port60 # NoCode
  /\ keyboard_handler_C(port60)
  /\ port60' = NoCode
  /\ halted' = FALSE
  /\ UNCHANGED <<held, IFlag, readerVars>>

\* IRQ 0, seen from here: it ends a hlt.
handler_timer ==
  /\ IFlag
  /\ halted
  /\ halted' = FALSE
  /\ UNCHANGED <<bufVars, shift_pressed, port60, held, IFlag, readerVars>>

----------------------------------------------------------------------------
(* The reader.  A pending interrupt comes before its next instruction.     *)

At(l) == pc = l /\ ~halted /\ ~(IFlag /\ port60 # NoCode)

Reader == UNCHANGED <<shift_pressed, port60, held>>

\* int $0x80, interrupt gate: read() reaches kgetch() with interrupts off.
call ==
  /\ At("user")
  /\ pc' = "check"
  /\ IFlag' = FALSE
  /\ Reader
  /\ UNCHANGED <<bufVars, halted, c, returned>>

\* Mutant: kgetch() waits in the test itself, neither sti nor hlt.
check_Spin ==
  /\ At("check")
  /\ pc' = IF kbd_head = kbd_tail THEN "check" ELSE "load"
  /\ Reader
  /\ UNCHANGED <<bufVars, IFlag, halted, c, returned>>

\* while (kbd_head == kbd_tail)
check ==
  /\ At("check")
  /\ pc' = IF kbd_head = kbd_tail THEN "sti" ELSE "load"
  /\ Reader
  /\ UNCHANGED <<bufVars, IFlag, halted, c, returned>>

\* Mutant: kgetch() waits without sti().
sti_Missing ==
  /\ At("sti")
  /\ pc' = "hlt"
  /\ Reader
  /\ UNCHANGED <<bufVars, IFlag, halted, c, returned>>

sti ==
  /\ At("sti")
  /\ pc' = "hlt"
  /\ IFlag' = TRUE
  /\ Reader
  /\ UNCHANGED <<bufVars, halted, c, returned>>

\* Mutant: the loop is around hlt, not around the test.
hlt_Once ==
  /\ At("hlt")
  /\ pc' = "hlt"
  /\ halted' = TRUE
  /\ Reader
  /\ UNCHANGED <<bufVars, IFlag, c, returned>>

hlt ==
  /\ At("hlt")
  /\ pc' = "check"
  /\ halted' = TRUE
  /\ Reader
  /\ UNCHANGED <<bufVars, IFlag, c, returned>>

load ==
  /\ At("load")
  /\ pc' = "advance"
  /\ c' = kbd_buffer[kbd_tail]
  /\ Reader
  /\ UNCHANGED <<bufVars, IFlag, halted, returned>>

\* kbd_tail moves, and kgetch() returns c to sys_read.
advance ==
  /\ At("advance")
  /\ pc' = "return"
  /\ kbd_tail' = (kbd_tail + 1) % KBD_BUFFER_SIZE
  /\ returned' = c
  /\ Reader
  /\ UNCHANGED <<kbd_buffer, kbd_head, IFlag, halted, c>>

\* sys_read asks for another character, with IF as kgetch() has left it.
again ==
  /\ At("return")
  /\ pc' = "check"
  /\ Reader
  /\ UNCHANGED <<bufVars, IFlag, halted, c, returned>>

\* sys_read returns; iret restores the IF of the process.
iret ==
  /\ At("return")
  /\ pc' = "user"
  /\ IFlag' = TRUE
  /\ Reader
  /\ UNCHANGED <<bufVars, halted, c, returned>>

----------------------------------------------------------------------------
Keys ==
  \/ \E s \in Shift : PressShift(s) \/ ReleaseShift(s)
  \/ \E key \in Key : TypeKey(key)
  \/ OtherKey

\* kgetch() and the end of sys_read; call is the process's own choice.
Kgetch == check \/ sti \/ hlt \/ load \/ advance \/ again \/ iret

Next == Keys \/ handler_keyboard \/ handler_timer \/ call \/ Kgetch

\* The timer ticks, a pending interrupt is taken, the system call goes on: strong
\* fairness, since scancodes are milliseconds apart and cannot hold the CPU in the
\* handler for ever.
Fairness == WF_vars(handler_keyboard) /\ WF_vars(handler_timer) /\ SF_vars(Kgetch)

Spec == Init /\ [][Next]_vars /\ Fairness

----------------------------------------------------------------------------
(* Properties.                                                             *)

TypeOK ==
  /\ kbd_buffer \in [Index -> Char \cup {NoChar}]
  /\ kbd_head \in Index /\ kbd_tail \in Index
  /\ shift_pressed \in {0, 1}
  /\ port60 \in Scancode \cup {NoCode}
  /\ held \subseteq Shift
  /\ IFlag \in BOOLEAN /\ halted \in BOOLEAN
  /\ pc \in {"user", "check", "sti", "hlt", "load", "advance", "return"}
  /\ c \in Char \cup {NoChar} /\ returned \in Char \cup {NoChar}

\* The characters in a ring buffer b, oldest first.
RingLen(h, t) == (h + KBD_BUFFER_SIZE - t) % KBD_BUFFER_SIZE
RingSeq(b, h, t) == [i \in 1 .. RingLen(h, t) |-> b[(t + i - 1) % KBD_BUFFER_SIZE]]

Waiting == RingLen(kbd_head, kbd_tail)
Queue == RingSeq(kbd_buffer, kbd_head, kbd_tail)

\* A character that was typed is returned at most once, and in order: a push never
\* disturbs the character kgetch() is taking (keyboard.c:23-24, 95-96).
Fifo == INSTANCE BoundedFifo
          WITH Capacity <- KBD_BUFFER_SIZE - 1, queue <- Queue, out <- returned
FifoOrder == Fifo!Spec

\* A character is lost only if KBD_BUFFER_SIZE - 1 others wait, whatever the head
\* and the tail are and wherever kgetch() is (keyboard.c:23-24, 43-44).
LostOnlyWhenFull ==
  [][\A key \in Key :
       handler_keyboard /\ port60 = [code |-> "down", key |-> key] =>
         \/ Waiting = KBD_BUFFER_SIZE - 1
         \/ Queue' = Append(Queue, <<key, shift_pressed>>)]_vars

\* The CPU never halts with interrupts masked (keyboard.c:96-98).
NoDeafHalt == halted => IFlag

\* A reader that waits while there is a character gets it: one that is pushed
\* between the test and the hlt is found at the next timer interrupt, at the
\* latest (keyboard.c:95-98).
ReaderServed ==
  (pc \in {"check", "sti", "hlt"} /\ kbd_head # kbd_tail) ~> pc = "return"

\* No scancode stays in the controller for ever: the system call that waits for a
\* key lets the key's interrupt in.
KeyTaken == port60 # NoCode ~> port60 = NoCode
=============================================================================
