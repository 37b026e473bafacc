------------------------------ MODULE Process ------------------------------
(***************************************************************************)
(* The processes of n7OS (kernel/process.c), the context switch            *)
(* (kernel/ctx_sw.S), the timer interrupt that preempts them               *)
(* (kernel/time.c, kernel/handler_timer.S) and the end of the boot that    *)
(* starts them (kernel/start.c, from sti() on).                            *)
(*                                                                         *)
(* One CPU.  A step is an instruction, or a run of instructions that no    *)
(* interrupt handler can tell apart; an interrupt may come between any two *)
(* steps while IF = 1.  One that is pending while IF = 1 is taken before   *)
(* the next step, as the processor does at every instruction boundary.     *)
(* Handlers run with IF = 0 (interrupt gates, kernel/irq.c).               *)
(***************************************************************************)
EXTENDS Integers

CONSTANTS
  NB_PROC,          \* slots of process_table (16)
  NB_BOOT,          \* create_process() calls of kernel_start (3)
  TIME_QUANTUM_MS,  \* ticks between two calls of schedule() (50)
  TICK_MOD,         \* system_ticks is counted modulo this (2^32)
  BootTicks         \* bound on the timer interrupts raised before idle's first
                    \* schedule() has switched away from the boot stack

ASSUME ConstantsAssumption ==
  /\ NB_PROC \in Nat \ {0}
  /\ NB_BOOT \in Nat \ {0}
  /\ TIME_QUANTUM_MS \in Nat \ {0}
  /\ TICK_MOD \in Nat
  /\ BootTicks \in Nat
  /\ TIME_QUANTUM_MS < TICK_MOD
  /\ BootTicks < TICK_MOD

PID   == 0 .. NB_PROC - 1
BOOT  == -1                    \* the stack crt0.S sets up; idle stays on it
NULL  == -2                    \* the esp of a slot nobody has prepared
Stack == PID \cup {BOOT}       \* stacks[pid], and the boot stack

\* idle() runs on the boot stack; it would also run on stacks[0] if the context
\* create_process("idle", idle) prepares for slot 0 were ever switched to.
IdleStack == {BOOT, 0}

\* Number of processes the boot creates: create_process() fails once the table is full.
Created == IF NB_BOOT <= NB_PROC THEN NB_BOOT ELSE NB_PROC

VARIABLES
  \* kernel/process.c
  state,               \* process_table[].state
  regs,                \* process_table[].regs: the stack (esp) and what is on its top (ret)
  current_pid,
  scheduling_enabled,
  \* kernel/time.c
  system_ticks,
  \* the CPU and the PIC
  esp,                 \* the stack the CPU runs on
  pc,                  \* per stack, where its code is (below an interrupt frame)
  mode,                \* "base", or "tick" / "iret": before / after tick_handler_C;
                       \* "undefined" once the CPU has jumped through a bad context
  IFlag,               \* the interrupt flag IF of EFLAGS
  halted,              \* the CPU has executed hlt and waits for an interrupt
  irq0,                \* the timer's request, one bit: a second one is lost
  in_service,          \* IRQ 0 acknowledged by the CPU, EOI not yet sent
  \* locals
  k, slot,             \* kernel_start's create_process() calls done; create_process' slot
  old_pid, next        \* schedule() called by idle(), per stack

tableVars == <<state, regs, current_pid, scheduling_enabled>>
cpuVars   == <<esp, mode, IFlag, halted>>
picVars   == <<irq0, in_service>>
bootVars  == <<k, slot>>
idleVars  == <<old_pid, next>>
vars == <<tableVars, system_ticks, cpuVars, pc, picVars, bootVars, idleVars>>

----------------------------------------------------------------------------
(* Program points.                                                         *)

CreateLabel   == {"init_process", "create", "publish", "context", "elu", "enable"}
ScheduleLabel == {"pick", "demote", "elect", "current", "ctx_sw"}
IdleLabel     == {"idle", "idle_hlt"}
BodyLabel     == {"body", "body_hlt", "syscall", "kgetch_hlt", "ended"}
Label == CreateLabel \cup ScheduleLabel \cup IdleLabel \cup BodyLabel
           \cup {"unused", "process_starter"}

NoContext == [stk |-> NULL, ret |-> "none"]
Context   == [stk: Stack \cup {NULL}, ret: {"none", "process_starter", "isr", "idle", "stale"}]

StackOf(p) == IF p = 0 THEN BOOT ELSE p

Init ==
  /\ state = [p \in PID |-> "LIBRE"]
  /\ regs = [p \in PID |-> NoContext]
  /\ current_pid = 0
  /\ scheduling_enabled = FALSE
  /\ system_ticks = 0
  /\ esp = BOOT
  /\ pc = [s \in Stack |-> IF s = BOOT THEN "init_process" ELSE "unused"]
  /\ mode = "base"
  /\ IFlag = TRUE
  /\ halted = FALSE
  /\ irq0 = FALSE
  /\ in_service = FALSE
  /\ k = 0
  /\ slot = 0
  /\ old_pid = [s \in IdleStack |-> 0]
  /\ next = [s \in IdleStack |-> 0]

----------------------------------------------------------------------------
(* The CPU executes its next instruction, at label l of stack s.           *)

Deliverable == IFlag /\ irq0 /\ ~in_service

At(s, l) ==
  /\ mode = "base"
  /\ ~halted
  /\ ~Deliverable
  /\ esp = s
  /\ pc[s] = l

Goto(s, l) == pc' = [pc EXCEPT ![s] = l]

\* A step that leaves the interrupt system and the stack alone.
Straight == UNCHANGED <<cpuVars, picVars, system_ticks>>

----------------------------------------------------------------------------
(* kernel_start, after sti(): the table, the processes, the first switch.  *)

init_process ==
  /\ At(BOOT, "init_process")
  /\ state' = [p \in PID |-> "LIBRE"]
  /\ regs' = [p \in PID |-> NoContext]
  /\ Goto(BOOT, "create")
  /\ Straight
  /\ UNCHANGED <<current_pid, scheduling_enabled, bootVars, idleVars>>

IsFreeSlot(s) == state[s] = "LIBRE" /\ \A p \in 0 .. s - 1 : state[p] # "LIBRE"

\* create_process: a free slot, if there is one.
find_free_slot ==
  /\ At(BOOT, "create")
  /\ k < NB_BOOT
  /\ \E s \in PID : IsFreeSlot(s) /\ slot' = s
  /\ Goto(BOOT, "publish")
  /\ Straight
  /\ UNCHANGED <<tableVars, k, idleVars>>

\* create_process returns -1, which kernel_start ignores.
create_fails ==
  /\ At(BOOT, "create")
  /\ k < NB_BOOT
  /\ \A p \in PID : state[p] # "LIBRE"
  /\ k' = k + 1
  /\ Straight
  /\ UNCHANGED <<tableVars, pc, slot, idleVars>>

\* create_process makes the slot PRET before its context is ready.
create_publish ==
  /\ At(BOOT, "publish")
  /\ state' = [state EXCEPT ![slot] = "PRET"]
  /\ Goto(BOOT, "context")
  /\ Straight
  /\ UNCHANGED <<regs, current_pid, scheduling_enabled, bootVars, idleVars>>

\* process_entry[slot], the trampoline on the top of the new stack, regs[].
create_context ==
  /\ At(BOOT, "context")
  /\ regs' = [regs EXCEPT ![slot] = [stk |-> slot, ret |-> "process_starter"]]
  /\ pc' = [pc EXCEPT ![slot] = "process_starter", ![BOOT] = "create"]
  /\ k' = k + 1
  /\ Straight
  /\ UNCHANGED <<state, current_pid, scheduling_enabled, slot, idleVars>>

all_created ==
  /\ At(BOOT, "create")
  /\ k = NB_BOOT
  /\ Goto(BOOT, "elu")
  /\ Straight
  /\ UNCHANGED <<tableVars, bootVars, idleVars>>

\* process_table[0].state = ELU
elect_idle ==
  /\ At(BOOT, "elu")
  /\ state' = [state EXCEPT ![0] = "ELU"]
  /\ Goto(BOOT, "enable")
  /\ Straight
  /\ UNCHANGED <<regs, current_pid, scheduling_enabled, bootVars, idleVars>>

start_scheduling ==
  /\ At(BOOT, "enable")
  /\ scheduling_enabled' = TRUE
  /\ Goto(BOOT, "pick")
  /\ Straight
  /\ UNCHANGED <<state, regs, current_pid, bootVars, idleVars>>

----------------------------------------------------------------------------
(* schedule().                                                             *)

\* Mutant: the scan always starts at slot 0.
IsNext_FromZero(old, n) ==
  \/ n # old /\ state[n] = "PRET" /\ \A p \in 0 .. n - 1 : p = old \/ state[p] # "PRET"
  \/ n = old /\ \A p \in PID \ {old} : state[p] # "PRET"

\* Mutant: the scan goes down the table.
IsNext_Backwards(old, n) ==
  \/ \E i \in 1 .. NB_PROC :
       /\ n = (old + NB_PROC - i) % NB_PROC
       /\ state[n] = "PRET"
       /\ \A j \in 1 .. i - 1 : state[(old + NB_PROC - j) % NB_PROC] # "PRET"
  \/ n = old /\ \A p \in PID : state[p] # "PRET"

\* The first PRET slot after old, in the order of the table; old if there is none.
IsNext(old, n) ==
  \/ \E i \in 1 .. NB_PROC :
       /\ n = (old + i) % NB_PROC
       /\ state[n] = "PRET"
       /\ \A j \in 1 .. i - 1 : state[(old + j) % NB_PROC] # "PRET"
  \/ /\ n = old
     /\ \A p \in PID : state[p] # "PRET"

\* Mutant: the process that loses the CPU stays ELU.
Demote_Forgotten(tbl, old) == tbl

Demote(tbl, old) == [tbl EXCEPT ![old] = IF @ = "ELU" THEN "PRET" ELSE @]

\* Mutant: the two arguments of ctx_sw are swapped when the old context is saved.
ctx_sw_Swapped(old, n, ret) ==
  /\ regs' = [regs EXCEPT ![n] = [stk |-> esp, ret |-> ret]]
  /\ esp' = regs[n].stk
  /\ mode' = IF regs[n].ret = "isr" THEN "iret" ELSE "base"

\* ctx_sw(regs of old, regs of n), called from the code that resumes at ret: the
\* stack pointer of the CPU goes to old's regs, n's is loaded, and "ret" jumps to
\* what is on the top of n's stack.  IF is neither saved nor restored.  Once a
\* stack runs again, what its saved pointer points at changes: the context is
\* stale, and a jump through it, or through a slot nobody prepared, is undefined.
ctx_sw(old, n, ret) ==
  LET saved == [regs EXCEPT ![old] = [stk |-> esp, ret |-> ret]]
  IN  /\ regs' = [saved EXCEPT ![n] = [stk |-> @.stk, ret |-> "stale"]]
      /\ esp' = saved[n].stk
      /\ mode' = CASE saved[n].ret = "isr" -> "iret"
                   [] saved[n].ret \in {"process_starter", "idle"} -> "base"
                   [] OTHER -> "undefined"

\* Mutant: schedule() without its scheduling_enabled guard.
schedule_isr_Unguarded ==
  \E n \in PID :
    /\ IsNext(current_pid, n)
    /\ IF n = current_pid
         THEN mode' = "iret" /\ UNCHANGED <<tableVars, esp>>
         ELSE /\ state' = [Demote(state, current_pid) EXCEPT ![n] = "ELU"]
              /\ current_pid' = n
              /\ ctx_sw(current_pid, n, "isr")
              /\ UNCHANGED scheduling_enabled

\* schedule() called by the timer interrupt: nothing can interrupt it.
schedule_isr ==
  \/ /\ ~scheduling_enabled
     /\ mode' = "iret"
     /\ UNCHANGED <<tableVars, esp>>
  \/ /\ scheduling_enabled
     /\ IsNext(current_pid, current_pid)
     /\ mode' = "iret"
     /\ UNCHANGED <<tableVars, esp>>
  \/ /\ scheduling_enabled
     /\ \E n \in PID \ {current_pid} :
          /\ IsNext(current_pid, n)
          /\ state' = [Demote(state, current_pid) EXCEPT ![n] = "ELU"]
          /\ current_pid' = n
          /\ ctx_sw(current_pid, n, "isr")
     /\ UNCHANGED scheduling_enabled

\* schedule() called by idle(), with interrupts on.  The scan is one step: a timer
\* interrupt in the middle of it leaves it the same choice to make.
schedule_pick(s) ==
  /\ At(s, "pick")
  /\ old_pid' = [old_pid EXCEPT ![s] = current_pid]
  /\ \E n \in PID :
       /\ IsNext(current_pid, n)
       /\ next' = [next EXCEPT ![s] = n]
       /\ Goto(s, IF n = current_pid THEN "idle" ELSE "demote")
  /\ Straight
  /\ UNCHANGED <<tableVars, bootVars>>

schedule_demote(s) ==
  /\ At(s, "demote")
  /\ state' = Demote(state, old_pid[s])
  /\ Goto(s, "elect")
  /\ Straight
  /\ UNCHANGED <<regs, current_pid, scheduling_enabled, bootVars, idleVars>>

schedule_elect(s) ==
  /\ At(s, "elect")
  /\ state' = [state EXCEPT ![next[s]] = "ELU"]
  /\ Goto(s, "current")
  /\ Straight
  /\ UNCHANGED <<regs, current_pid, scheduling_enabled, bootVars, idleVars>>

schedule_current(s) ==
  /\ At(s, "current")
  /\ current_pid' = next[s]
  /\ Goto(s, "ctx_sw")
  /\ Straight
  /\ UNCHANGED <<state, regs, scheduling_enabled, bootVars, idleVars>>

schedule_ctx_sw(s) ==
  /\ At(s, "ctx_sw")
  /\ ctx_sw(old_pid[s], next[s], "idle")
  /\ Goto(s, "idle")
  /\ UNCHANGED <<state, current_pid, scheduling_enabled, system_ticks, IFlag, halted,
                 picVars, bootVars, idleVars>>

----------------------------------------------------------------------------
(* The code of the processes.                                              *)

\* A step of the code on the current stack that touches neither table nor PIC.
Own == UNCHANGED <<tableVars, esp, mode, picVars, system_ticks, bootVars, idleVars>>

\* sti at label l, then on to label m.
sti(s, l, m) ==
  /\ At(s, l)
  /\ IFlag' = TRUE
  /\ Goto(s, m)
  /\ UNCHANGED halted
  /\ Own

\* hlt at label l; the interrupt that wakes the CPU returns to label m.
hlt(s, l, m) ==
  /\ At(s, l)
  /\ halted' = TRUE
  /\ Goto(s, m)
  /\ UNCHANGED IFlag
  /\ Own

\* process_starter: sti(), then the function of the process whose pid getpid()
\* returns.  That of pid 0 is idle(), which begins with a schedule() of its own.
process_starter(s) == sti(s, "process_starter", IF current_pid = 0 THEN "pick" ELSE "body")

\* Mutant: idle() halts without sti().
idle_sti_Missing(s) ==
  /\ At(s, "idle")
  /\ Goto(s, "idle_hlt")
  /\ UNCHANGED <<IFlag, halted>>
  /\ Own

idle_sti(s) == sti(s, "idle", "idle_hlt")

idle_hlt(s) == hlt(s, "idle_hlt", "idle")

\* int $0x80 through an interrupt gate, and the iret that ends it.
int80(s) ==
  /\ At(s, "body")
  /\ IFlag' = FALSE
  /\ Goto(s, "syscall")
  /\ UNCHANGED halted
  /\ Own

syscall_iret(s) == sti(s, "syscall", "body")

\* kgetch() on an empty buffer, inside the read system call.
kgetch_sti(s) == sti(s, "syscall", "kgetch_hlt")

kgetch_hlt(s) == hlt(s, "kgetch_hlt", "syscall")

\* A process that waits for the next interrupt (processus1).
body_sti(s) == sti(s, "body", "body_hlt")

body_hlt(s) == hlt(s, "body_hlt", "body")

\* The function of the process returns: process_starter halts for ever.
body_returns(s) ==
  /\ At(s, "body")
  /\ Goto(s, "ended")
  /\ UNCHANGED <<IFlag, halted>>
  /\ Own

ended_hlt(s) == hlt(s, "ended", "ended")

----------------------------------------------------------------------------
(* Interrupts.                                                             *)

Booting == esp = BOOT /\ pc[BOOT] \in CreateLabel \cup ScheduleLabel

\* Timer interrupts raised so far, handled or not.
TicksRaised ==
  system_ticks + (IF irq0 THEN 1 ELSE 0) + (IF mode = "tick" THEN 1 ELSE 0)

\* The PIT raises IRQ 0.  While a request is pending another one is lost.
PitPulse ==
  /\ ~irq0
  /\ Booting => TicksRaised < BootTicks
  /\ irq0' = TRUE
  /\ UNCHANGED <<tableVars, system_ticks, cpuVars, pc, in_service, bootVars, idleVars>>

\* The CPU takes the interrupt between two instructions, or out of hlt.
handler_timer ==
  /\ mode = "base"
  /\ Deliverable
  /\ irq0' = FALSE
  /\ in_service' = TRUE
  /\ IFlag' = FALSE
  /\ halted' = FALSE
  /\ mode' = "tick"
  /\ UNCHANGED <<tableVars, system_ticks, esp, pc, bootVars, idleVars>>

\* Mutant: system_ticks does not wrap.
tick_handler_C_Wide ==
  /\ mode = "tick"
  /\ in_service' = FALSE
  /\ system_ticks' = system_ticks + 1
  /\ IF system_ticks' % TIME_QUANTUM_MS = 0
       THEN schedule_isr
       ELSE mode' = "iret" /\ UNCHANGED <<tableVars, esp>>
  /\ UNCHANGED <<IFlag, halted, irq0, pc, bootVars, idleVars>>

\* EOI first, then the count, then schedule() at the end of a quantum.
tick_handler_C ==
  /\ mode = "tick"
  /\ in_service' = FALSE
  /\ system_ticks' = (system_ticks + 1) % TICK_MOD
  /\ IF system_ticks' % TIME_QUANTUM_MS = 0
       THEN schedule_isr
       ELSE mode' = "iret" /\ UNCHANGED <<tableVars, esp>>
  /\ UNCHANGED <<IFlag, halted, irq0, pc, bootVars, idleVars>>

\* iret: back to the interrupted code, which ran with IF = 1.
timer_iret ==
  /\ mode = "iret"
  /\ mode' = "base"
  /\ IFlag' = TRUE
  /\ UNCHANGED <<tableVars, system_ticks, esp, halted, pc, picVars, bootVars, idleVars>>

\* Any other interrupt (the keyboard's) wakes a halted CPU and returns.
OtherIrq ==
  /\ mode = "base"
  /\ halted
  /\ IFlag
  /\ ~in_service
  /\ halted' = FALSE
  /\ UNCHANGED <<tableVars, system_ticks, esp, mode, IFlag, pc, picVars, bootVars, idleVars>>

----------------------------------------------------------------------------
Boot ==
  \/ init_process \/ find_free_slot \/ create_fails \/ create_publish \/ create_context
  \/ all_created \/ elect_idle \/ start_scheduling

IdleStep(s) ==
  \/ schedule_pick(s) \/ schedule_demote(s) \/ schedule_elect(s) \/ schedule_current(s)
  \/ schedule_ctx_sw(s) \/ idle_sti(s) \/ idle_hlt(s)

SyscallStep(s) == syscall_iret(s) \/ kgetch_sti(s) \/ kgetch_hlt(s)

BodyStep(s) ==
  int80(s) \/ body_sti(s) \/ body_hlt(s) \/ body_returns(s) \/ ended_hlt(s)

\* The code that always goes on; a process in its own code may compute for ever.
Kernel ==
  \/ Boot
  \/ \E s \in IdleStack : IdleStep(s)
  \/ \E s \in PID : process_starter(s) \/ SyscallStep(s)

Next ==
  \/ Kernel
  \/ \E s \in PID : BodyStep(s)
  \/ PitPulse \/ handler_timer \/ tick_handler_C \/ timer_iret \/ OtherIrq

\* The PIT keeps ticking, the CPU takes interrupts and goes on with kernel code.
Fairness ==
  /\ WF_vars(Kernel)
  /\ WF_vars(PitPulse)
  /\ WF_vars(handler_timer)
  /\ WF_vars(tick_handler_C)
  /\ WF_vars(timer_iret)

Spec == Init /\ [][Next]_vars /\ Fairness

----------------------------------------------------------------------------
(* Properties.                                                             *)

TypeOK ==
  /\ state \in [PID -> {"LIBRE", "PRET", "ELU"}]
  /\ regs \in [PID -> Context]
  /\ current_pid \in PID
  /\ scheduling_enabled \in BOOLEAN
  /\ system_ticks \in 0 .. TICK_MOD - 1
  /\ esp \in Stack \cup {NULL}
  /\ pc \in [Stack -> Label]
  /\ mode \in {"base", "tick", "iret", "undefined"}
  /\ IFlag \in BOOLEAN /\ halted \in BOOLEAN
  /\ irq0 \in BOOLEAN /\ in_service \in BOOLEAN
  /\ k \in 0 .. NB_BOOT
  /\ slot \in PID
  /\ old_pid \in [IdleStack -> PID] /\ next \in [IdleStack -> PID]

\* schedule() is allowed to run and idle is not in the middle of its own.
Settled ==
  /\ scheduling_enabled
  /\ \A s \in IdleStack : pc[s] \notin {"elect", "current", "ctx_sw"}

\* current_pid is the pid of the process that is ELU, and no other process is
\* (process.c:15 and the meaning of ELU in process.h:18).
OneElected == Settled => \A p \in PID : state[p] = "ELU" <=> p = current_pid

\* Switching to p goes back to where p was, on p's own stack.
Resumable(p) ==
  /\ regs[p].stk = StackOf(p)
  /\ \/ regs[p].ret = "isr"
     \/ regs[p].ret \in {"process_starter", "idle"} /\ pc[StackOf(p)] = regs[p].ret

\* The CPU runs on the stack of the current process, and the saved context of
\* every other one is its own (what schedule() and ctx_sw promise each other).
ContextOwned ==
  Settled =>
    /\ mode # "undefined"
    /\ esp = StackOf(current_pid)
    /\ \A p \in 0 .. Created - 1 : p # current_pid => Resumable(p) /\ state[p] = "PRET"

\* The CPU never halts with interrupts masked: nothing would wake it
\* (process.c:153-155, 39-41 and keyboard.c:96-98).
NoDeafHalt == halted => IFlag

\* The CPU never jumps into a slot that create_process() has published but not
\* prepared, however early the timer fires (process.c:17-19).
NoHalfCreated == esp \in Stack /\ pc[esp] # "unused"

\* p executes its own code.
Runs(p) == current_pid = p /\ esp = StackOf(p) /\ mode = "base"

\* Every process the boot created gets the CPU again and again, whatever the
\* others do (process.c:102-106, time.c:95-99).
EveryProcessRuns == \A p \in 0 .. Created - 1 : []<>Runs(p)

\* The CPU goes round the table in order, for ever (process.c:102-106).
RR == INSTANCE RoundRobin WITH N <- Created, turn <- current_pid
RoundRobinOrder == RR!Spec
=============================================================================
