-------------------------------- MODULE Apps --------------------------------
(***************************************************************************)
(* The programs of n7OS (bin/): the shell with its demo of the project's   *)
(* steps, and processus1, that the demo's step 5 wakes and puts to sleep   *)
(* with a flag they share.  They run in turn, as RoundRobin.tla says, and  *)
(* may lose the CPU between any two steps; the shell reads lines as        *)
(* LineEditor.tla says.  A word of a command, or a digit, is one key here; *)
(* what is shown is left out, and of the lines of processus1 the number    *)
(* they carry.                                                             *)
(***************************************************************************)
EXTENDS LineEditor

CONSTANTS
  LINE_MAX, DEMO_LINE_MAX  \* cells of the lines that the shell and the demo read (64, 16)

ASSUME AppsAssumption ==
  /\ {"demo", "5", "6", "7", "q"} \subseteq Key
  /\ LINE_MAX \in Nat \ {0, 1} /\ DEMO_LINE_MAX \in Nat \ {0, 1}

\* The words of the shell, and the choices of the demo, that print and return.
Printing == {"help", "clear", "time", "echo"}
Showing  == {"1", "2", "3", "4", "8"}

NB_PROC == 3          \* idle, processus1, shell: their pids are 0, 1, 2
P1 == 1
SHELL == 2

VARIABLES
  turn,        \* the process that is ELU
  at,          \* where the shell is
  i,           \* demo_keyboard()'s counter
  p1,          \* where processus1 is
  p1_active,
  late         \* lines processus1 has printed since the demo cleared p1_active

editor == <<queue, line, room, open>>
shell  == <<at, i>>
vars   == <<editor, turn, shell, p1, p1_active, late>>

Init ==
  /\ InitEditor
  /\ turn = 0 /\ at = "prompt" /\ i = 0
  /\ p1 = "test" /\ p1_active = FALSE /\ late = 0

RR == INSTANCE RoundRobin WITH N <- NB_PROC

\* The end of a quantum, or a key.
Preempt == RR!Next /\ UNCHANGED <<editor, shell, p1, p1_active, late>>

Press(ch) == Type(ch) /\ UNCHANGED <<turn, shell, p1, p1_active, late>>

----------------------------------------------------------------------------
(* The shell, and the demo that it calls.                                  *)

\* The shell's own steps leave the flag and the other process alone.
ShellAt(l) ==
  turn = SHELL /\ at = l /\ UNCHANGED <<turn, p1, p1_active, late>>

\* A prompt, then read(buf, n), whose result is for label m.
Ask(l, n, m) == ShellAt(l) /\ Open(n - 1) /\ at' = m /\ UNCHANGED i

prompt ==
  \/ Ask("prompt", LINE_MAX, "command")
  \/ Ask("menu", DEMO_LINE_MAX, "choice")
  \/ Ask("phrase", LINE_MAX, "said")

\* kgetch() in the read of whoever waits for a line.
reading == turn = SHELL /\ Take /\ UNCHANGED <<turn, shell, p1, p1_active, late>>

\* read() has returned to label l; the shell shows something and goes to m.
Then(l, m) == ShellAt(l) /\ ~open /\ at' = m /\ UNCHANGED <<editor, i>>

\* str_starts_with(): the word, then the end of the line or a space.
Command(w) == IF Len(line) > 1 THEN line[1] = w /\ line[2] = " " ELSE line = <<w>>

\* An empty line is ignored; one that is no command is shown again.
dispatch ==
  Then("command",
       CASE line = <<>>                        -> "prompt"
         [] \E w \in Printing : Command(w)     -> "prompt"
         [] Command("demo")                    -> "menu"
         [] OTHER                              -> "prompt")

\* The first character alone is looked at.
choose ==
  Then("choice",
       IF line = <<>> \/ line[1] \in Showing THEN "menu"
       ELSE CASE line[1] = "5" -> "activate"
              [] line[1] = "6" -> "key"
              [] line[1] = "7" -> "phrase"
              [] line[1] = "q" -> "prompt"
              [] OTHER         -> "menu")

demo_read == Then("said", "menu")

\* Step 6, three times: read(buf, 2), which leaves the Enter that is typed behind the
\* character for the next read, then the code of buf[0], '\0' when nothing was read.
demo_keyboard ==
  \/ /\ ShellAt("key")
     /\ i < 3 /\ Open(1)
     /\ at' = "code" /\ i' = i + 1
  \/ Then("code", "key")
  \/ /\ ShellAt("key")
     /\ i = 3
     /\ at' = "menu" /\ i' = 0
     /\ UNCHANGED editor

\* Step 5 shows the table and wakes processus1.
demo_process_activate ==
  /\ turn = SHELL /\ at = "activate"
  /\ at' = "poll" /\ p1_active' = TRUE /\ late' = 0
  /\ UNCHANGED <<editor, turn, i, p1>>

\* Woken from hlt: is there a key?
demo_process_poll ==
  /\ ShellAt("poll")
  /\ queue # <<>>
  /\ at' = "take"
  /\ UNCHANGED <<editor, i>>

\* Mutant: any key but q is left in the buffer.
demo_process_take_Peek ==
  /\ ShellAt("take")
  /\ queue' = IF Head(queue) = "q" THEN Tail(queue) ELSE queue
  /\ at' = IF Head(queue) = "q" THEN "clear" ELSE "poll"
  /\ UNCHANGED <<line, room, open, i>>

\* kgetch(), which has nothing to wait for.
demo_process_take ==
  /\ ShellAt("take")
  /\ queue # <<>> /\ queue' = Tail(queue)
  /\ at' = IF Head(queue) = "q" THEN "clear" ELSE "poll"
  /\ UNCHANGED <<line, room, open, i>>

demo_process_clear ==
  /\ turn = SHELL /\ at = "clear"
  /\ p1_active' = FALSE /\ late' = 0
  /\ at' = "menu"
  /\ UNCHANGED <<editor, turn, i, p1>>

Shell ==
  \/ prompt \/ reading \/ dispatch \/ choose \/ demo_read \/ demo_keyboard
  \/ demo_process_activate \/ demo_process_poll \/ demo_process_take \/ demo_process_clear

----------------------------------------------------------------------------
(* processus1                                                              *)

Worker(l, m) ==
  /\ turn = P1 /\ p1 = l /\ p1' = m
  /\ UNCHANGED <<editor, turn, shell, p1_active>>

\* Mutant: the flag is not looked at again once processus1 has slept.
p1_test_Asleep == Worker("test", IF p1_active THEN "print" ELSE "asleep") /\ UNCHANGED late

\* while (p1_active); when it is not set: sti, hlt, and the test again.
p1_test == Worker("test", IF p1_active THEN "print" ELSE "test") /\ UNCHANGED late

\* Mutant: the flag is tested once, before the first line.
p1_print_Forever ==
  /\ Worker("print", "print")
  /\ late' = IF p1_active \/ late = 2 THEN late ELSE late + 1

\* A line, and the wait that follows it.
p1_print ==
  /\ Worker("print", "test")
  /\ late' = IF p1_active \/ late = 2 THEN late ELSE late + 1

Processus1 == p1_test \/ p1_print

----------------------------------------------------------------------------
Next == Preempt \/ (\E ch \in Typed : Press(ch)) \/ Shell \/ Processus1

\* The quanta end, and a process that has its turn again and again goes on
\* (EveryProcessRuns in Process.tla); nobody has to type.
Fairness == WF_vars(Preempt) /\ SF_vars(Shell) /\ SF_vars(Processus1)

Spec == Init /\ [][Next]_vars /\ Fairness

----------------------------------------------------------------------------
(* Properties.                                                             *)

\* Once the demo has put processus1 to sleep, at most the line it had begun still
\* comes (processus1.c:4-7, demo.c:124).
OneLateLine == late <= 1

\* A 'q' that waits in the buffer ends step 5, whatever was typed before it
\* (demo.c:106, 110-112).
StopStops ==
  at \in {"poll", "take"} /\ (\E k \in 1 .. Len(queue) : queue[k] = "q") ~> ~p1_active

\* While step 5 lasts processus1 goes on printing (demo.c:93-95).
P1Works == p1_active ~> (p1 = "print" \/ ~p1_active)
=============================================================================
