---------------------------- MODULE StartupProofs ----------------------------
(***************************************************************************)
(* Proofs about Startup.tla, for every set of exceptions and interrupt     *)
(* lines and every layout of the memory: the boot and what runs after it   *)
(* use the memory as Memory.tla says, and the order of the calls of        *)
(* kernel_start has every table ready by the time it is needed.            *)
(***************************************************************************)
EXTENDS Startup, MemoryProofs

----------------------------------------------------------------------------
(* The memory.                                                             *)

\* A step of the machine is a step of Memory.tla, or leaves the memory alone.
LEMMA MemoryStep == [StartNext]_allVars => [Next]_vars
<1> SUFFICES ASSUME [StartNext]_allVars
             PROVE  Next \/ UNCHANGED vars
  OBVIOUS
<1>1. CASE Memory_init \/ Paging_init
  BY <1>1 DEF Memory_init, Paging_init, Next, Boot
<1>2. CASE Running
  BY <1>2 DEF Running
<1>3. CASE \/ crt0 \/ init_console \/ setup_base(0) \/ init_syscall \/ init_irq
           \/ init_timer \/ init_keyboard \/ sti \/ printf
  BY <1>3
     DEF crt0, init_console, setup_base, init_syscall, init_irq, init_timer, init_keyboard,
         sti, printf, Setup
<1>4. CASE (\E v \in Exception : Fault(v)) \/ trap_handler
  BY <1>4 DEF Fault, trap_handler
<1>5. CASE UNCHANGED allVars
  BY <1>5 DEF allVars
<1> QED
  BY <1>1, <1>2, <1>3, <1>4, <1>5 DEF StartNext, kernel_start

\* The machine uses the memory as Memory.tla says: the boot makes its three calls in
\* their order, once, and an exception changes nothing there (start.c:36-47).
THEOREM StartImplementsMemory == StartSpec => Spec
<1>1. StartInit => Init
  BY DEF StartInit
<1> QED
  BY <1>1, MemoryStep, PTL DEF StartSpec, Spec

\* So what holds of the memory holds of the whole machine: the kernel's pages are
\* never given out, what is given out has one owner, and mappings stay.
THEOREM StartKeepsMemory ==
  StartSpec => [](KernelPagesKept /\ Exclusive) /\ FramesFromPool /\ MappingStable
BY StartImplementsMemory, KernelKept, OneOwner, MemoryImplementsPool, MappingKept, PTL

----------------------------------------------------------------------------
(* The order of the calls.                                                 *)

\* What each call leaves behind, from the time it has returned.
StartInv ==
  /\ at \in 1 .. Len(Calls)
  /\ IFlag => at >= 12
  /\ paging <=> at >= 7
  /\ at >= 3 => scr_tab
  /\ at >= 4 =>
       /\ loaded = {"gdtr", "idtr", "tr"}
       /\ vector0 = 32
       /\ Exception \subseteq DOMAIN idt
       /\ IRQ \ imr = IF at >= 11 THEN {0, 1} ELSE IF at = 10 THEN {0} ELSE {}
  /\ at >= 8 =>
       /\ SyscallGate \in DOMAIN idt /\ idt[SyscallGate].dpl = 3
       /\ syscall_table = {n \in 0 .. 2 : Registered(n)}
  /\ at >= 10 => pit /\ TimerGate \in DOMAIN idt /\ idt[TimerGate].to = "handler_timer"
  /\ at >= 11 => KeyboardGate \in DOMAIN idt /\ idt[KeyboardGate].to = "handler_keyboard"
  /\ cpu = "reset" => paging \/ at <= 3

\* The calls, by their place.
LEMMA CallsFacts ==
  /\ Len(Calls) = 13
  /\ Calls[1] = "crt0" /\ Calls[2] = "init_console" /\ Calls[3] = "setup_base"
  /\ Calls[4] = "init_kheap" /\ Calls[5] = "init_mem" /\ Calls[6] = "initialise_paging"
  /\ Calls[7] = "init_syscall" /\ Calls[8] = "init_irq" /\ Calls[9] = "init_timer"
  /\ Calls[10] = "init_keyboard" /\ Calls[11] = "sti" /\ Calls[12] = "printf"
  /\ Calls[13] = "idle"
BY DEF Calls

LEMMA StartInvInit == StartInit => StartInv
BY CallsFacts DEF StartInit, StartInv

\* A call is made at its place.
LEMMA CallFacts ==
  ASSUME StartInv, NEW name, Call(name)
  PROVE  /\ at \in 1 .. 13 /\ at' = at + 1 /\ Calls[at] = name
         /\ cpu = "kernel" /\ cpu' = "kernel"
BY CallsFacts DEF StartInv, Call

LEMMA StartInvNext == StartInv /\ [StartNext]_allVars => StartInv'
<1> SUFFICES ASSUME StartInv, [StartNext]_allVars
             PROVE  StartInv'
  OBVIOUS
<1> USE CallsFacts DEF SyscallGate, TimerGate, KeyboardGate, TestGate, Registered
<1>1. CASE crt0
  <2>1. at = 1 /\ at' = 2 /\ ~IFlag' /\ cpu' = "kernel" /\ UNCHANGED <<tableVars, pagingVars>>
    BY <1>1, CallFacts DEF crt0, Setup, Call
  <2> QED
    BY <2>1 DEF StartInv, pagingVars
<1>2. CASE init_console
  <2>1. /\ at = 2 /\ at' = 3 /\ scr_tab' /\ cpu' = "kernel"
        /\ UNCHANGED <<IFlag, pagingVars>>
    BY <1>2, CallFacts DEF init_console, Setup
  <2> QED
    BY <2>1 DEF StartInv, pagingVars
<1>3. CASE setup_base(0)
  <2>1. /\ at = 3 /\ at' = 4 /\ cpu' = "kernel"
        /\ UNCHANGED <<IFlag, scr_tab, pagingVars>>
        /\ loaded' = {"gdtr", "idtr", "tr"} /\ vector0' = 32 /\ imr' = IRQ
        /\ DOMAIN idt' = Exception
    BY <1>3, CallFacts DEF setup_base, Setup, setup_idt, setup_pic
  <2> QED
    BY <2>1 DEF StartInv, pagingVars
<1>4. CASE Memory_init
  <2>1. at \in {4, 5} /\ at' = at + 1 /\ cpu' = "kernel"
    BY <1>4, CallFacts DEF Memory_init
  <2>2. UNCHANGED <<IFlag, tableVars, pagingVars>>
    BY <1>4 DEF Memory_init
  <2> QED
    BY <2>1, <2>2 DEF StartInv, tableVars, pagingVars
<1>5. CASE Paging_init
  <2>1. at = 6 /\ at' = 7 /\ cpu' = "kernel"
    BY <1>5, CallFacts DEF Paging_init
  <2>2. paging' = TRUE /\ UNCHANGED <<IFlag, tableVars>>
    BY <1>5 DEF Paging_init
  <2> QED
    BY <2>1, <2>2 DEF StartInv, tableVars
<1>6. CASE init_syscall
  <2>1. /\ at = 7 /\ at' = 8 /\ cpu' = "kernel"
        /\ syscall_table' = {n \in 0 .. 2 : Registered(n)}
        /\ idt' = WithGate(idt, SyscallGate, [to |-> "handler_syscall", dpl |-> 3])
        /\ UNCHANGED <<IFlag, scr_tab, loaded, vector0, imr, pagingVars>>
    BY <1>6, CallFacts DEF init_syscall, Setup, init_irq_entry
  <2>2. DOMAIN idt' = DOMAIN idt \cup {SyscallGate} /\ idt'[SyscallGate].dpl = 3
    BY <2>1 DEF WithGate
  <2> QED
    BY <2>1, <2>2 DEF StartInv, pagingVars
<1>7. CASE init_irq
  <2>1. /\ at = 8 /\ at' = 9 /\ cpu' = "kernel"
        /\ idt' = WithGate(idt, TestGate, [to |-> "handler_IT", dpl |-> 0])
        /\ UNCHANGED <<IFlag, scr_tab, loaded, vector0, imr, syscall_table, pagingVars>>
    BY <1>7, CallFacts DEF init_irq, Setup, init_idt_entry
  <2>2. /\ DOMAIN idt' = DOMAIN idt \cup {TestGate}
        /\ \A w \in DOMAIN idt : w # TestGate => idt'[w] = idt[w]
    BY <2>1 DEF WithGate
  <2> QED
    BY <2>1, <2>2 DEF StartInv, pagingVars
<1>8. CASE init_timer
  <2>1. /\ at = 9 /\ at' = 10 /\ cpu' = "kernel" /\ pit'
        /\ idt' = WithGate(idt, TimerGate, [to |-> "handler_timer", dpl |-> 3])
        /\ imr' = imr \ {0}
        /\ UNCHANGED <<IFlag, scr_tab, loaded, vector0, syscall_table, pagingVars>>
    BY <1>8, CallFacts DEF init_timer, Setup, init_irq_entry, Unmask
  <2>2. /\ DOMAIN idt' = DOMAIN idt \cup {TimerGate}
        /\ idt'[TimerGate].to = "handler_timer"
        /\ \A w \in DOMAIN idt : w # TimerGate => idt'[w] = idt[w]
    BY <2>1 DEF WithGate
  <2>3. IRQ \ imr' = {0}
    BY <2>1, StartupAssumption DEF StartInv
  <2> QED
    BY <2>1, <2>2, <2>3 DEF StartInv, pagingVars
<1>9. CASE init_keyboard
  <2>1. /\ at = 10 /\ at' = 11 /\ cpu' = "kernel"
        /\ idt' = WithGate(idt, KeyboardGate, [to |-> "handler_keyboard", dpl |-> 3])
        /\ imr' = imr \ {1}
        /\ UNCHANGED <<IFlag, scr_tab, loaded, vector0, pit, syscall_table, pagingVars>>
    BY <1>9, CallFacts DEF init_keyboard, Setup, init_irq_entry, Unmask
  <2>2. /\ DOMAIN idt' = DOMAIN idt \cup {KeyboardGate}
        /\ idt'[KeyboardGate].to = "handler_keyboard"
        /\ \A w \in DOMAIN idt : w # KeyboardGate => idt'[w] = idt[w]
    BY <2>1 DEF WithGate
  <2>3. IRQ \ imr' = {0, 1}
    BY <2>1, StartupAssumption DEF StartInv
  <2> QED
    BY <2>1, <2>2, <2>3 DEF StartInv, pagingVars
<1>10. CASE sti \/ printf
  <2>1. /\ at \in {11, 12} /\ at' = at + 1 /\ cpu' = "kernel"
        /\ UNCHANGED <<tableVars, pagingVars>>
    BY <1>10, CallFacts DEF sti, printf, Setup
  <2> QED
    BY <2>1 DEF StartInv, tableVars, pagingVars
<1>11. CASE Running \/ trap_handler
  <2>1. UNCHANGED <<at, IFlag, tableVars, pagingVars>> /\ cpu' # "reset"
    BY <1>11 DEF Running, trap_handler
  <2> QED
    BY <2>1 DEF StartInv, tableVars, pagingVars
<1>12. CASE \E v \in Exception : Fault(v)
  <2>1. PICK v \in Exception : Fault(v)
    BY <1>12
  <2>2. /\ UNCHANGED <<at, tableVars, paging>>
        /\ IFlag' => IFlag
    BY <2>1 DEF Fault
  \* Before paging the task's directory is not looked at, so the gate is enough.
  <2>3. cpu' = "reset" => paging \/ at <= 3
    BY <2>1 DEF Fault, StartInv, MapsKernel
  <2> QED
    BY <2>2, <2>3 DEF StartInv, tableVars
<1>13. CASE UNCHANGED allVars
  BY <1>13 DEF allVars, StartInv, tableVars, pagingVars
<1> QED
  BY <1>1, <1>2, <1>3, <1>4, <1>5, <1>6, <1>7, <1>8, <1>9, <1>10, <1>11, <1>12, <1>13
     DEF StartNext, kernel_start

\* When interrupts are on every line that is not masked has its handler, the handlers
\* have what they use, and every system call that is let through has a function.  That
\* nr_syscall counts functions there are is what handler_syscall.S relies on.
THEOREM StartReady ==
  ASSUME nr_syscall <= 3, nr_syscall <= NB_SYSCALL
  PROVE  StartSpec => []InterruptsReady
<1>1. StartInv => InterruptsReady
  <2> SUFFICES ASSUME StartInv, IFlag
               PROVE  InterruptsReady
    BY DEF InterruptsReady
  <2>1. at \in 12 .. 13
    BY CallsFacts DEF StartInv
  <2>2. /\ scr_tab /\ pit /\ vector0 = 32 /\ IRQ \ imr = {0, 1}
        /\ SyscallGate \in DOMAIN idt /\ idt[SyscallGate].dpl = 3
        /\ syscall_table = {n \in 0 .. 2 : Registered(n)}
        /\ TimerGate \in DOMAIN idt /\ idt[TimerGate].to = "handler_timer"
        /\ KeyboardGate \in DOMAIN idt /\ idt[KeyboardGate].to = "handler_keyboard"
    BY <2>1 DEF StartInv
  <2>3. 0 .. nr_syscall - 1 \subseteq syscall_table
    BY <2>2, StartupAssumption DEF Registered
  <2>4. Vector(0) = TimerGate /\ Vector(1) = KeyboardGate
    BY <2>2 DEF Vector, TimerGate, KeyboardGate
  <2>5. ASSUME NEW n \in IRQ \ imr
        PROVE  /\ Vector(n) \in DOMAIN idt
               /\ idt[Vector(n)].to = (CASE n = 0 -> "handler_timer"
                                         [] n = 1 -> "handler_keyboard"
                                         [] OTHER -> "none")
    <3>1. n = 0 \/ n = 1
      BY <2>2
    <3>2. CASE n = 0
      BY <2>2, <2>4, <3>2
    <3>3. CASE n = 1
      BY <2>2, <2>4, <3>3
    <3> QED
      BY <3>1, <3>2, <3>3
  <2> QED
    BY <2>2, <2>3, <2>5 DEF InterruptsReady
<1> QED
  BY <1>1, StartInvInit, StartInvNext, PTL DEF StartSpec

\* Until paging is on, an exception after setup_base() is shown and not a reset.
THEOREM FaultsShown == StartSpec => []FaultShown
<1>1. StartInv => FaultShown
  BY DEF StartInv, FaultShown
<1> QED
  BY <1>1, StartInvInit, StartInvNext, PTL DEF StartSpec

----------------------------------------------------------------------------
(* Paging comes on.                                                        *)

\* initialise_paging() maps the whole memory onto itself.
LEMMA BootMapping ==
  ASSUME initialise_paging, NEW p \in Page
  PROVE  TranslatePage(p)' = p
<1> DEFINE d == p \div PAGE_TABLE_ENTRIES
           e == p % PAGE_TABLE_ENTRIES
<1>1. /\ d \in 0 .. IDENTITY_TABLES - 1 /\ d \in Entry /\ e \in Entry
      /\ p = d * PAGE_TABLE_ENTRIES + e
  BY PageIndex
<1>2. TranslatePage(p)' = Translate(d, e)'
  BY DEF TranslatePage
<1> HIDE DEF d, e
<1>3. /\ kernel_directory \in Page /\ BootTable(d) \in Page /\ NotPresent \notin Page
      /\ BootTable(d) - BootTable(0) = d /\ BootTable(d) # kernel_directory
      /\ BootTable(d) \in BootTable(0) .. BootTable(IDENTITY_TABLES - 1)
      /\ kernel_directory \notin BootTable(0) .. BootTable(IDENTITY_TABLES - 1)
  BY <1>1, BootFacts, MemoryAssumption DEF BootTable, Page, NotPresent
<1>4. tables'[kernel_directory] = DirectoryAtBoot
  BY <1>3 DEF initialise_paging
<1>5. tables'[BootTable(d)] = TableAtBoot(d)
  BY <1>3 DEF initialise_paging
<1>6. tables'[kernel_directory][d] = BootTable(d)
  BY <1>1, <1>4, MemoryAssumption DEF DirectoryAtBoot
<1>7. tables'[BootTable(d)][e] = p
  BY <1>1, <1>5 DEF TableAtBoot
<1> QED
  BY <1>2, <1>3, <1>6, <1>7 DEF Translate

\* The code goes on at the same addresses when paging comes on.
THEOREM PagingKeepsAddresses == StartSpec => PagingSeamless
<1>1. [StartNext]_allVars =>
        [paging' /\ ~paging =>
           /\ cr3' = kernel_directory
           /\ \A p \in KernelPage : TranslatePage(p)' = p]_allVars
  <2> SUFFICES ASSUME StartNext, paging', ~paging
               PROVE  /\ cr3' = kernel_directory
                      /\ \A p \in KernelPage : TranslatePage(p)' = p
    OBVIOUS
  <2>1. Paging_init
    BY DEF StartNext, kernel_start, crt0, init_console, setup_base, Memory_init, init_syscall,
           init_irq, init_timer, init_keyboard, sti, printf, Setup, Running, Fault,
           trap_handler, pagingVars
  <2>2. initialise_paging /\ cr3' = kernel_directory
    BY <2>1 DEF Paging_init, Load_cr3
  <2> QED
    BY <2>2, BootMapping DEF KernelPage
<1> QED
  BY <1>1, PTL DEF StartSpec, PagingSeamless
=============================================================================
