------------------------------ MODULE Startup ------------------------------
(***************************************************************************)
(* The start of n7OS, from boot/crt0.S to the sti() of kernel_start        *)
(* (kernel/start.c), with the processor's tables                           *)
(* (kernel/processor_structs.c, irq.c), the table of the system calls      *)
(* (kernel/sys.c, syscall_defs.c) and the exceptions, which switch to a    *)
(* task that shows the registers (kernel/handlers.S, debugger.c).  The     *)
(* memory is that of Memory.tla, whose three initialisations are calls of  *)
(* kernel_start, and which goes on once the machine runs.                  *)
(*                                                                         *)
(* The boot runs with interrupts off: a call is one step.  Segments, and   *)
(* how the bytes of a gate or of a descriptor are laid out, are left out.   *)
(***************************************************************************)
EXTENDS Memory, Sequences, TLC

CONSTANTS
  Exception,   \* exceptions that may be raised, of the vectors 0 .. 31
  IRQ,         \* lines of the PIC, 0 .. 15
  NB_SYSCALL,  \* entries of syscall_table (syscall_defs.h)
  nr_syscall   \* system calls that handler_syscall.S lets through

ASSUME StartupAssumption ==
  /\ Exception \subseteq 0 .. 31 /\ Exception # {}
  /\ {0, 1} \subseteq IRQ /\ IRQ \subseteq 0 .. 15
  /\ NB_SYSCALL \in Nat /\ nr_syscall \in Nat

\* crt0.S, then what kernel_start calls; printf() is the first system call.
Calls == <<"crt0", "init_console", "setup_base", "init_kheap", "init_mem",
           "initialise_paging", "init_syscall", "init_irq", "init_timer",
           "init_keyboard", "sti", "printf", "idle">>

VARIABLES
  at,             \* the call that comes next, an index of Calls
  cpu,            \* "kernel"; in trap_handler(), "dump" or "screen"; or "reset"
  IFlag,
  scr_tab,        \* whether the console has its screen
  idt,            \* the gates of the vectors that have one
  loaded,         \* the processor's registers among gdtr, idtr, tr that are loaded
  trap_cr3,       \* the frame that the exceptions' TSS load into CR3
  vector0, imr,   \* the PIC: the vector of IRQ 0, and the lines it masks
  pit,            \* whether the timer has its 1 kHz
  syscall_table,  \* the numbers that have a function
  cr3, paging     \* CR3, as a frame, and CR0.PG

tableVars  == <<scr_tab, idt, loaded, trap_cr3, vector0, imr, pit, syscall_table>>
pagingVars == <<cr3, paging>>
allVars == <<vars, at, cpu, IFlag, tableVars, pagingVars>>

\* The BIOS leaves its own vectors and masks, and a loader the interrupts off.
StartInit ==
  /\ Init
  /\ at = 1 /\ cpu = "kernel" /\ IFlag = FALSE
  /\ scr_tab = FALSE /\ idt = <<>> /\ loaded = {} /\ trap_cr3 = 0
  /\ vector0 = 8 /\ imr = {} /\ pit = FALSE /\ syscall_table = {}
  /\ cr3 = 0 /\ paging = FALSE

----------------------------------------------------------------------------
(* Gates, and the PIC.                                                     *)

Vector(n) == vector0 + n     \* of IRQ n
TimerGate == 32
KeyboardGate == 33
TestGate == 50
SyscallGate == 128

WithGate(table, v, gate) == [w \in DOMAIN table \cup {v} |-> IF w = v THEN gate ELSE table[w]]

\* A gate of the kernel (DPL 0), and one that user code may go through (DPL 3).
init_idt_entry(v, handler) == idt' = WithGate(idt, v, [to |-> handler, dpl |-> 0])
init_irq_entry(v, handler) == idt' = WithGate(idt, v, [to |-> handler, dpl |-> 3])

Unmask(n) == imr' = imr \ {n}

----------------------------------------------------------------------------
(* The calls of kernel_start.                                              *)

Call(name) ==
  /\ cpu = "kernel" /\ Calls[at] = name
  /\ at' = at + 1
  /\ UNCHANGED cpu

\* A call that touches neither the memory nor the paging.
Setup(name) == Call(name) /\ UNCHANGED <<vars, pagingVars>>

\* EFLAGS = 0, a stack, and zeroes up to mem_heap_end.
crt0 == Setup("crt0") /\ IFlag' = FALSE /\ UNCHANGED tableVars

init_console ==
  /\ Setup("init_console")
  /\ scr_tab' = TRUE
  /\ UNCHANGED <<IFlag, idt, loaded, trap_cr3, vector0, imr, pit, syscall_table>>

\* Mutant: the exceptions have interrupt gates to come.
setup_idt_Empty(pgdir) == idt' = <<>> /\ trap_cr3' = pgdir

\* A task gate for each exception, int3 open to user code; the rest is zeroed.
setup_idt(pgdir) ==
  /\ idt' = [v \in Exception |-> [to |-> "trap", dpl |-> IF v = 3 THEN 3 ELSE 0]]
  /\ trap_cr3' = pgdir

\* Mutant: the lines are left as the BIOS had them.
setup_pic_Unmasked == vector0' = 32 /\ imr' = {}

\* IRQ 0-15 to the vectors 0x20-0x2F, all of them masked.
setup_pic == vector0' = 32 /\ imr' = IRQ

setup_base(pgdir) ==
  /\ Setup("setup_base")
  /\ loaded' = {"gdtr", "idtr", "tr"}
  /\ setup_idt(pgdir)
  /\ setup_pic
  /\ UNCHANGED <<IFlag, scr_tab, pit, syscall_table>>

Memory_init ==
  /\ \/ Call("init_kheap") /\ init_kheap
     \/ Call("init_mem") /\ init_mem
  /\ UNCHANGED <<IFlag, tableVars, pagingVars>>

\* Mutant: CR3 is loaded with the first table.
Load_cr3_Table == cr3' = kernel_directory + 1

\* The directory is the block that kmalloc_a() has given first.
Load_cr3 == cr3' = kernel_directory

\* The end of initialise_paging(): CR3, then CR0.PG.
Paging_init ==
  /\ Call("initialise_paging") /\ initialise_paging
  /\ Load_cr3 /\ paging' = TRUE
  /\ UNCHANGED <<IFlag, tableVars>>

\* add_syscall() keeps what has a place in the table.
Registered(n) == n < NB_SYSCALL

\* example, write and read: 0, 1, 2.
init_syscall ==
  /\ Setup("init_syscall")
  /\ syscall_table' = {n \in 0 .. 2 : Registered(n)}
  /\ init_irq_entry(SyscallGate, "handler_syscall")
  /\ UNCHANGED <<IFlag, scr_tab, loaded, trap_cr3, vector0, imr, pit>>

init_irq ==
  /\ Setup("init_irq")
  /\ init_idt_entry(TestGate, "handler_IT")
  /\ UNCHANGED <<IFlag, scr_tab, loaded, trap_cr3, vector0, imr, pit, syscall_table>>

init_timer ==
  /\ Setup("init_timer")
  /\ pit' = TRUE
  /\ init_irq_entry(TimerGate, "handler_timer")
  /\ Unmask(0)
  /\ UNCHANGED <<IFlag, scr_tab, loaded, trap_cr3, vector0, syscall_table>>

init_keyboard ==
  /\ Setup("init_keyboard")
  /\ init_irq_entry(KeyboardGate, "handler_keyboard")
  /\ Unmask(1)
  /\ UNCHANGED <<IFlag, scr_tab, loaded, trap_cr3, vector0, pit, syscall_table>>

sti == Setup("sti") /\ IFlag' = TRUE /\ UNCHANGED tableVars

printf == Setup("printf") /\ UNCHANGED <<IFlag, tableVars>>

kernel_start ==
  \/ crt0 \/ init_console \/ setup_base(0) \/ Memory_init \/ Paging_init
  \/ init_syscall \/ init_irq \/ init_timer \/ init_keyboard \/ sti \/ printf

\* Once the machine runs, the calls of Memory.tla.
Running ==
  /\ cpu = "kernel" /\ Calls[at] = "idle"
  /\ Next
  /\ UNCHANGED <<at, cpu, IFlag, tableVars, pagingVars>>

----------------------------------------------------------------------------
(* Exceptions.                                                             *)

\* The page directory that the processor is about to use maps the kernel.
MapsKernel(frame) == paging => frame = kernel_directory

\* The switch to the task of exception v loads its CR3.  Where there is no gate, or
\* no kernel behind that directory, the processor gives up: a triple fault.
Fault(v) ==
  /\ cpu = "kernel"
  /\ IF v \in DOMAIN idt /\ loaded = {"gdtr", "idtr", "tr"} /\ MapsKernel(trap_cr3)
       THEN cpu' = "dump" /\ IFlag' = FALSE
       ELSE cpu' = "reset" /\ UNCHANGED IFlag
  /\ cr3' = IF paging THEN trap_cr3 ELSE cr3
  /\ UNCHANGED <<vars, at, tableVars, paging>>

\* trap_handler() never returns; SPACE shows the registers, or the screen as it was.
trap_handler ==
  /\ cpu \in {"dump", "screen"}
  /\ cpu' \in {"dump", "screen"} \ {cpu}
  /\ UNCHANGED <<vars, at, IFlag, tableVars, pagingVars>>

\* After a triple fault the machine starts again, as StartInit says: "reset" has no step.
StartNext == kernel_start \/ Running \/ (\E v \in Exception : Fault(v)) \/ trap_handler

StartSpec == StartInit /\ [][StartNext]_allVars

----------------------------------------------------------------------------
(* Properties.                                                             *)

\* With interrupts on, a line that is not masked leads to the handler of its device,
\* which has its screen, and the timer ticks at 1 kHz; int 0x80 is open to user code,
\* and every number that handler_syscall lets through has a function (start.c:42-58,
\* handler_syscall.S:7-19).
InterruptsReady ==
  IFlag =>
    /\ scr_tab /\ pit
    /\ \A n \in IRQ \ imr :
         /\ Vector(n) \in DOMAIN idt
         /\ idt[Vector(n)].to = (CASE n = 0 -> "handler_timer"
                                   [] n = 1 -> "handler_keyboard"
                                   [] OTHER -> "none")
    /\ SyscallGate \in DOMAIN idt /\ idt[SyscallGate].dpl = 3
    /\ 0 .. nr_syscall - 1 \subseteq syscall_table

\* When paging comes on, CR3 holds the directory and the code, the stacks and the
\* tables stay at their addresses (paging.c:21-26, 58-66).
PagingSeamless ==
  [][paging' /\ ~paging =>
       /\ cr3' = kernel_directory
       /\ \A p \in KernelPage : TranslatePage(p)' = p]_allVars

\* Until paging is on, an exception after setup_base() is shown and not a reset
\* (debugger.c:81-106).
FaultShown == cpu = "reset" => paging \/ at <= 3
=============================================================================
