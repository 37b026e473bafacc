# n7OS: TLA+ models, checks and proofs

n7OS is a small x86 (i386) teaching kernel: a preemptive round-robin scheduler, a
timer, a keyboard, a VGA text console, paging, three system calls, a shell and a
demo. It runs on one CPU, in ring 0, with one address space. All of its concurrency
comes from two interrupt lines (IRQ 0, the timer, and IRQ 1, the keyboard) and from
the context switches the timer causes; all of its protection is the interrupt flag
IF. There is no lock, no blocking queue and no process that ends on purpose: a
process waits by executing `sti; hlt` in a loop.

This directory holds TLA+ modules translated from that code, TLC configurations that
check them on small instances, and proofs checked by TLAPS that hold for every value
of the constants.

## 1. Inventory

| Component | Source | State | Operations | Talks to |
|---|---|---|---|---|
| Processes, scheduler | `kernel/process.c`, `kernel/ctx_sw.S` | `process_table[]` (state, regs), `stacks`, `current_pid`, `scheduling_enabled`, `process_entry` | `init_process`, `create_process`, `schedule`, `start_scheduling`, `idle`, `process_starter`, `ctx_sw` | called by the timer's handler and by `idle` |
| Timer | `kernel/time.c`, `kernel/handler_timer.S` | `system_ticks` | `init_timer`, `tick_handler_C`, `display_clock`, `get_ticks` | `schedule()` every 50 ticks; writes the clock straight into video memory |
| Keyboard | `kernel/keyboard.c` | `kbd_buffer`, `kbd_head`, `kbd_tail`, `shift_pressed` | `keyboard_handler_C`, `kgetch`, `kbd_has_input` | shares the buffer between the handler and `read` |
| Console | `kernel/console.c` | `scr_tab`, `cursor_line`, `cursor_col`, `last_line`, the card's cursor | `console_putchar`, `console_putbytes`, `init_console` | `write`, the echo of `read`, the clock |
| System calls | `kernel/sys.c`, `kernel/syscall_defs.c`, `kernel/handler_syscall.S`, `lib/read.c`, `lib/write.c` | `syscall_table` | `write`, `read`, `example` | interrupt gate: IF = 0 until something executes `sti` |
| Physical pages | `kernel/mem.c` | `page_bitmap` | `init_mem`, `setPage`, `clearPage`, `findfreePage` | page tables |
| Kernel heap | `kernel/kheap.c` | `placement_address` | `init_kheap`, `kmalloc*` | page tables |
| Page tables | `kernel/paging.c` | directory, tables, CR0, CR3 | `initialise_paging`, `alloc_page_entry` | heap and bitmap |
| Boot, tables of the CPU | `boot/`, `kernel/start.c`, `kernel/processor_structs.c`, `kernel/irq.c`, `kernel/test_irq.c` | GDT, IDT, TSS, PIC masks | `kernel_start`, `setup_base`, `init_irq_entry` | everything, in a fixed order |
| Exceptions | `kernel/handlers.S`, `kernel/debugger.c`, `kernel/panic.c` | - | show the registers and stop | a task switch, through the TSS |
| Shell, demo, processus1 | `bin/` | `p1_active`, `p1_iter`, line buffers | command loop, menu, periodic print | system calls; `p1_active` is shared |
| `malloc` | `lib/malloc.c` (dlmalloc), `kernel/sbrk.c` | `malloc_state`, `curptr`, the words of the heap | `malloc`, `free`, `realloc`..., `mem_alloc`, `mem_free` | `sbrk` |
| `printf` | `lib/printf.c`, `lib/doprnt.c`, `lib/sprintf.c` | the buffer of one call | `printf`, `puts`, `vsnprintf`, the directives | `write` |
| Strings, numbers | `lib/string.c`, `lib/strtol.c`, `lib/strtoul.c`, `lib/atoi.c`, `lib/div64.c` | the direction flag of the CPU | pure, but for that flag | - |

What makes each one correct:

* **Scheduler**: one process is ELU and it is the one on the CPU; a saved context
  belongs to its process and is used once; nobody starves; the CPU never halts with
  interrupts masked.
* **Keyboard**: a character typed comes out once and in order or, the buffer being
  full, not at all; a waiting reader is served.
* **Console**: the cursor is on the screen and the card knows where; a character
  stays where it was written; a line shows nothing of the turn before.
* **Memory**: a page has one owner; the kernel's pages are never given out; a mapping
  lasts while the heap is in place; what is mapped is free; heap blocks are disjoint.
* **System calls**: `read` returns the line as edited, shows the same line, stays in
  the array it was given and ends.
* **Boot**: nothing is used before it is set up; no interrupt finds its gate empty; an
  exception is shown and not a reset; paging comes on without moving the kernel.
* **Shell and demo**: the handshake on `p1_active` wakes processus1 and puts it to
  sleep, whatever the preemption.
* **malloc**: the boundary tags and lists agree; a block keeps what is written in it;
  no word is lost; a refusal means that nothing fits.
* **Library**: copies, searches, conversions and divisions give what their names say.

What is hard to test is listed in `PROJECT.json` under "hazards", each at its line:
the `schedule()` that `idle` runs with interrupts on; the window between `sti` and
`hlt`; the half-created process; IF, which no context saves; the EOI before the
switch; the echo of `read`, which can lose the CPU in the middle of
`console_putchar`; the heap that goes on after the bitmap has been marked; the
exceptions' page directory; the direction flag that `memmove` leaves set; the bits
that tell `malloc` what is free.

## 2. Modules

| Module | What it is |
|---|---|
| `Process` | process table, scheduler, `ctx_sw`, IRQ 0, end of the boot |
| `RoundRobin` | abstract: the CPU goes round `N` processes for ever |
| `Keyboard` | handler, ring buffer, `kgetch` |
| `BoundedFifo` | abstract: a bounded queue that loses what does not fit |
| `Console` | `console_putchar` as one step and cut into steps, the clock, the card |
| `ReadLine` | `sys_read` with its echo |
| `LineEditor` | abstract: keys that wait, a line that a call edits |
| `Apps` | shell, demo and processus1, on top of `LineEditor` and `RoundRobin` |
| `Memory` | heap, bitmap, page tables, in the order of the boot and after it |
| `FramePool` | abstract: frames with one owner each |
| `Startup` | `kernel_start` and the CPU's tables, extending `Memory`; exceptions |
| `Malloc` | dlmalloc's operations, on a heap given word by word |
| `Heap`, `MCHeap` | a program that calls them, and its instances |
| `Loops` | a loop as a function of the turns it has made |
| `Strings`, `Numbers`, `Format` | the routines of `lib/` as operators |
| `Division` | `do_div64`, for words of any size |
| `Library` | a program's memory and what it may expect of them |
| `ProcessProofs`, `KeyboardProofs`, `ConsoleProofs`, `MemoryProofs`, `StartupProofs`, `ReadLineProofs`, `AppsProofs`, `LibraryProofs` | theorems |

How they compose. `Process` shows that the CPU goes round the processes
(`RoundRobin`), `Keyboard` that its buffer is a bounded queue (`BoundedFifo`),
`ReadLine` that `read` edits a line (`LineEditor`); `Apps` is built on `RoundRobin` and
`LineEditor` and not on the details below them. `Startup` extends `Memory`: the three
initialisations of the memory are calls of `kernel_start`, and the machine that runs
goes on with `Memory`'s calls. `Console` has the interleavings of echo, `write` and
clock; `ReadLine` has the whole echo, alone on the screen.

Every module is parameterised by CONSTANTS whose names are the code's, with their
assumptions in a named ASSUME; actions have the names of the functions they model;
definitions whose name ends in a suffix after `_` and whose comment begins with
"Mutant" are faulty variants that no specification uses: each property is checked to
fail when one of them takes the place of the definition it varies.

### Process

The state is the code's: `state` and `regs` are the fields of `process_table`, with
`regs` reduced to the stack pointer and to what lies on the top of that stack
(`stk`, `ret`), which is all that a `ret` into another context depends on. The CPU
is `esp`, `mode`, `IFlag`, `halted`; the PIC is `irq0` and `in_service`; `pc` says, per
stack, where the code on it is. `ctx_sw` marks the context it loads as *stale*: its
stack runs again, and jumping a second time through it is undefined.

A step is an instruction or a run of instructions that no handler can tell apart.
`schedule()` called by `idle` is cut after every statement, because `idle` runs with
IF = 1; `schedule()` called by the timer is one step, because it runs with IF = 0.
A process is in its own code, in a system call (IF = 0), in `kgetch`'s `sti; hlt`, in
a `sti; hlt` of its own, or ended: the model lets it do any of these at any time. The
boot starts at the `sti()` of `kernel_start`: from there the timer runs.

### Keyboard

`kgetch` is cut at every access to what it shares with the handler and between `sti`
and `hlt`. A handler is one step. A pending interrupt is taken before the reader's
next instruction when IF = 1, as the CPU does, and never when IF = 0; that is what
makes the lost wake-up between `hlt`'s predecessor and `hlt` visible. A character is a
key with the Shift it was read with. The actions of the keyboard itself (`TypeKey`,
`PressShift`...) are external.

### Console

`con` holds the screen, the cursor, `last_line` and the card's registers. Each
statement of `console_putchar` is an operator on it; `console_putchar` is their
composition and is one step for `write` (IF = 0). A reader that echoes with IF = 1 makes
one step per access to what it shares: a load of `cursor_line`, `cursor_col` or
`last_line`, a store to one of them, the writing or erasing of one cell, one `outb`. What
it has loaded is kept in `reg` until the statement that uses it. The Makefile compiles
without optimisation: every statement reads the variables again, `x++` is a load and a
store, and a test and the statement behind it are two reads (console.c:69-70, 86-89,
101-103). The two loads of `move` are one step, since only one of the two values is used.
`uint8_t` arithmetic is modulo `BYTE`, so that a Backspace whose column another process
has taken back between its test and its decrement goes to the last byte, and wraps.

The history says which of these a property leaves out: `torn`, the last character begun
has cut another; `mixed`, a character has been cut and no line has been erased whole by
a character that cut nobody since; `cleared`, the last character was a form feed.

### Memory

Addresses are integers, frames are page numbers, the contents of physical memory are
kept as directories and page tables (`tables`), indexed by frame, so that a frame given
out twice is visible. The processor walks the frames from the directory's on
(`Translate`). The code, with paging on, does not: it reads and writes the directory and
the tables at their addresses of the boot, as virtual pages, which calls may have mapped
elsewhere meanwhile, and it never empties the TLB. So `tlb` keeps, for each page that
the boot maps, every frame that the tables have ever said, and `alloc_page_entry`
finds its directory and its table in any of them (`fd`, `ft`). A real TLB forgets, and
holds fewer: the model's choices include the processor's. `HeapInPlace` says that no page
with a block of the heap has been mapped elsewhere; once false it stays so. Then the
code writes its tables into frames of others, and what a frame given out or never
written to holds is not modelled (it holds no entry until a table is made there):
`MappingStable`, and `Exclusive` as far as it is about mappings, speak of a heap in place.
`asked` is the history of the virtual pages that were asked for. `init_kheap`, `init_mem`, `initialise_paging` run once in the order of
`kernel_start`; then kernel code may call `kmalloc`, `findfreePage`, `setPage`,
`clearPage` and `alloc_page_entry` in any order. The repository itself calls none of
them after the boot: what is checked is what they promise to code that will. Callers
are honest: they free a frame they own and that the tables map to no page they asked
for, they do not ask for the virtual pages of the kernel's code and data, and `setPage`
is called on a free page.

### Startup

`at` counts the calls of `kernel_start`, each a step with interrupts off; `idt`,
`imr`, `vector0`, `syscall_table`, `trap_cr3`, `cr3` and `paging` are what the calls
leave in the CPU, the PIC and the tables. An exception may come at any point: it is a
task switch if there is a gate, a loaded TSS and a kernel behind the page directory of
that TSS, else a triple fault, which ends the behaviour. `setup_base(0)` gives those
TSS directory 0 (start.c:32), so that an exception once paging is on is a reset.

### ReadLine, LineEditor, Apps

`sys_read`'s loop is one action per branch, each with its whole echo on a screen of two
lines. `LineEditor` keeps the queue, the line and whether a call is open: the mapping
reads the line out of the caller's array. In `Apps` a command is one key, a line is
read as `LineEditor` reads it, processes are preempted between any two steps, and
processus1 tests the flag, prints and waits. Step 6's `read(buf, 2)` returns after one
character: the Enter typed behind it is an empty line for the next `read`, whose code 0
the demo shows. That follows from `ReadEdits`; the codes themselves are left out.

### Malloc, Heap

Memory is words: headers, footers, data. Fast bins, the unsorted chunk, bins, the top
and the last remainder are those of malloc.c, sizes are in words of 4 bytes, a doubly
linked list is a sequence. `Heap` is the program: it numbers the words it is given and
checks them. Its `ForeignSbrk` is the call of `sbrk` by somebody else, that malloc.c
provides for. `HeapSound` is malloc.c's own checks (`do_check_*`), which a build without
DEBUG leaves out. After somebody else's `sbrk` has cut the heap, malloc may refuse
though pages are left: the new top must fit whole pages of its own. `RefusedOnlyWhenFull`
leaves that case out. Sizes wrap at `SIZE_RANGE`, 2^30 words in the code: a request
within two smallest chunks of it is refused before anything else, but the product of
`calloc`, the rounding of `pvalloc` and the sums of the independent_ calls wrap unseen, as
in the code. `mallopt(M_MXFAST, 0)` is left out (`HeapOptions`): with a `max_fast` of two
words the walk of `malloc_consolidate` (malloc.c:2428-2478) goes past the fastbins.

### Library

A loop of `lib/` is `After(n, start, turn)` of `Loops`: what `n` turns make of a state,
as a recursive function of the number of turns. A loop that ends at a test makes turns
that change nothing behind it; `n` is what the code counts down, or the number of cells
of the memory where it only stops at a `'\0'` (`Turns`), since a pointer that has gone
further has left it. In `Division`, `log2` is the highest bit and `corrected` the state
in which the loop of div64.c:41-48 stops, modulo the width of each word.

`Library` takes every memory of six cells and every double word of two four-bit halves,
and compares each routine with a definition by sets and sequences. `memmove` leaves the
direction flag set when it copies downwards; the next call must clear it. What the
models show of the routines, and the properties leave out: `do_div64` raises a divide
error for divisors of more than one word whose leading word is all ones;
`%-m.ns` pads a string that its precision cuts with one space too few; `vsnprintf` writes
its '\0' at `buf[size]`; `%r` and `%n` convert in radix 0, which divides by zero (no
caller uses them); `strtol` does not read a '+'; `strrchr` never finds the `'\0'` of its
string (`SearchesExact` says NULL there, not the place), and `memmem` and `strstr` never
find an empty needle (which is left out). `FieldsFilled` is about `%d`, `%u`, `%o`, `%x`
and `%z`, without '+', and `%s`: `%c` ignores its width and `%p` has one of its own.

## 3. Runs

| Run | Question | Bounds |
|---|---|---|
| `process` | types, contexts, no deaf halt, everyone runs for ever and in order, when the boot takes less than a quantum | 4 slots, 3 processes, quantum 3, ticks modulo 7, 2 boot ticks |
| `process_slowboot` | a boot of several quanta, a full table: nobody runs half-created | 2 slots, 3 creations (the last fails), 5 boot ticks, quantum 2 |
| `process_reentered` | a boot of one quantum, one ELU: **violated** | 3 processes, 2 boot ticks, quantum 2 |
| `keyboard_queue` | the buffer is a bounded FIFO, only what does not fit is lost, no deaf halt; a waiting reader is served, keys get in | 4 cells, 1 key, 1 Shift |
| `console_write` | cursor, card, leftovers, ink, with one echoing reader and any writers | screen of 3 lines of 2 columns, bytes modulo 4, every kind of character |
| `readline` | `read` edits a line, shows it, stays in its array, ends | 2 keys, Enter, Backspace; 2 waiting, lengths 0 to 3, 4 columns |
| `apps` | one late line, `q` stops step 5, processus1 works until then | 6 keys, 2 waiting, lines of 2 characters and of 1 |
| `startup` | gates before `sti`, exceptions shown, paging seamless; pool, owners, kernel pages, mappings | 6 pages, 3 entries a table, 2 identity tables, `Explored`; 2 exceptions, 3 lines |
| `memory_alias` | a page mapped is free: **violated** | same memory |
| `heap` | malloc.c's assertions, contents, nothing lost, honest refusals | 29 words in pages of 8, 2 blocks alive, sizes 3, 7 and 40, of which 40 is too large; sizes modulo 48 |
| `heap_elements` | the same assertions with `independent_comalloc` of a small element: **violated** | same |
| `library` | blocks, strings, searches, numbers, fields, division, writes | 6 cells of 3 values, halves of 4 bits, a buffer of 2 |

Why the bounds are enough. The interesting cases of the scheduler need a process
between two others, a slot that is free, a quantum longer than one tick and a tick
count that wraps where the quantum does not divide it: four slots, three processes,
`TICK_MOD` 7 give all of them. `BootTicks` bounds the timer interrupts before the
first switch; without it a boot could last for ever, and its value against the quantum
is the assumption under test. A buffer of four cells is filled, emptied and wrapped
with one key in two cases (shifted or not). A screen of three lines of two columns
wraps both ways and comes back to line 0, with a third line for a stale `last_line` to
name; a column and a line behind it are bytes too, and 0 minus 1 is a column outside. An array of three cells is filled, emptied by
Backspace and full without Enter; four columns hold a prompt and a line, or make it
wrap. Two keys that wait are a `q` behind another key, and a full buffer. Six pages
leave two to give out, so that memory fills up, a table is made while frames are out,
and the heap grows into a page that was asked for; `Explored`, a constraint, has what
follows a heap out of place looked at only while one page has been asked for, which
includes a second call that goes through the directory or the table that was moved. Two blocks and the rests between them, in a heap that grows by a page up to three
times, meet every case of split, merge, fast bin, trim and gap that one block's
neighbours can. Six cells hold two overlapping blocks, or two strings and their ends.
`CHECK_DEADLOCK FALSE` is said in `process_slowboot` (past the re-entered `schedule()`
the CPU may jump through a stale context, after which the model says nothing),
`startup` (a triple fault ends the behaviour) and `library` (a program with a number to
convert does nothing else).

### Fairness

`Process`: weak fairness of the PIT, of taking an interrupt that can be taken, of each
step of the handler, and of *kernel* code (boot, idle, `process_starter`, system calls)
going on. A process in its own code has none: it may compute for ever. A CPU that is
not halted executes, and the PIT is periodic: that is all that is assumed.
`Keyboard`: weak fairness of the two handlers, strong fairness of the reader, since a
pending interrupt disables its next instruction and scancodes, milliseconds apart,
cannot hold the CPU for ever. `ReadLine`: weak fairness of `sys_read`, which never
waits when a key is there. `Apps`: quanta end (weak fairness of the preemption), and a
process whose turn comes again and again goes on (strong fairness of each), which is
`EveryProcessRuns` of `Process`; nobody has to type. The other modules have no liveness
property.

### What the violated runs show

1. `process_reentered`: `idle` calls `schedule()` with IF = 1 (process.c:158). If a
   quantum ends inside it, two processes become ELU. The boot would have to last 50 ms:
   the printf of `kernel_start` makes that unlikely, nothing makes it impossible.
2. `memory_alias`: the page `alloc_page_entry` maps in a new part of the address space
   is the page of the table it has just made, since the heap's growth after the boot is
   not in the bitmap.
3. `heap_elements`: `independent_comalloc` of one small element that comes out of a fast
   bin sets a PREV_INUSE bit that was clear (malloc.c:3037): the free chunk before it is
   taken for one in use. The `heap` run asks for large elements only.

What the models show without a run of their own, and what the properties leave out
for it:

* A form feed on another line than the first leaves `last_line` as it was (console.c:79):
  the next character is erased as it is written, so that after the shell's `clear` the
  prompt loses its first letter. `InkKept` excepts the character after a form feed.
* Two Shift keys share one flag (keyboard.c:71): with both down, releasing one clears it.
* The echo of `read` is interruptible once `kgetch` has waited: another process'
  `write` then finds a cursor outside the screen and may write there, and can come
  between two `outb` of `set_cursor` and leave the card's cursor behind the console's.
  `InkInPlace` and `CursorSynced` except characters begun in the middle of another one.
  A reader that is cut between the test of `last_line` and its store (console.c:101-103)
  stores a line that may not be the cursor's any more: the next character that nobody
  cuts can then erase itself, or a line be entered later without being erased, even when
  nobody is inside `console_putchar`. So `InkKept` excepts the character after one that
  cut another, and `InkInPlace` everything until a line is erased again by a character
  that is left alone. Each exception is needed: without it `console_write` fails.
* `read` takes at most `len - 1` characters, as its comment says (sys.c:31-37). The header
  that programs include says `len` ("Lit jusqu'à len caractères", unistd.h:57-58):
  `ReadEdits` holds of `len - 1`, and would fail of `len`.
* Backspace does not go back over a line that wraps: `EchoIsTheLine` is about lines that
  fit in the width of the screen.
* A failed `findfreePage` makes `alloc_page_entry` map frame 0.
* `alloc_page_entry` asked for a page of the kernel heap, or a kernel heap that grows into
  a page that was asked for, ends what paging promises: the code writes the next entry, or
  the next table, through a page that leads elsewhere (paging.c:78-101), the processor
  looks in the old frame, and which of the two is meant no `invlpg` says. A frame given
  out is also reached through the page of the same number, mapped onto it by the boot.
  `Exclusive` and `MappingStable` except the former and name the latter.
* Once paging is on, an exception resets the machine (`FaultShown` stops there).

## 4. Proofs

TLC explores the instances above. TLAPS proves, for every value of the constants:

* `ProcessProofs!TypeCorrect`: types, without assumption on the boot.
* `ProcessProofs!SchedulerSafe`: `OneElected`, `ContextOwned`, `NoDeafHalt`, provided
  `BootTicks < TIME_QUANTUM_MS`; the violated run shows that the assumption is needed.
  None of the three is inductive: `ContextOwned` says nothing while `idle` is inside
  `schedule()`, and a context is right only because of where the program counters are.
  The invariant `Inv` is a conjunction: types, where each stack may be (`PcInv`), what
  the boot has created so far (`BootInv`), who is ELU and which contexts are whose at
  each label of `schedule()` (`RunInv`), and when IF may be 0 (`FlagInv`). Lemmas on the
  scan (`PickNext`, `Successor`) say that it finds exactly one slot, the next one.
* `ProcessProofs!SchedulerImplementsRoundRobin`: under the same assumption, a change of
  `current_pid` is a step of `RoundRobin`.
* `ProcessProofs!NeverHalfCreated`, `NeverDeaf`: `NoHalfCreated` and `NoDeafHalt` without
  that assumption: the timer may fire at any point of the boot and `schedule()` may be
  re-entered as often as one likes. `Inv` is then false, and `LongInv` takes its place:
  `CreateInv` (during the creations the only slot that is not filled is the one
  `create_process` is at), `SwitchInv` (every `schedule()` that is under way, on whatever
  stack, has chosen a slot that is filled) and `LiveInv` (as long as no context has been
  resumed twice, no two live contexts share a stack and none is on the stack that runs).
* `KeyboardProofs!KeyboardSafe`, `KeyboardImplementsFifo`: the ring buffer implements
  `BoundedFifo`. The refinement reads the queue out of the cells between tail and head;
  it needs that the character `kgetch` holds between its two steps is still the oldest
  one, which is why a push must not overwrite the cell at the tail (`ReaderInv`).
  `KeyboardKeepsWhatFits`: a character is lost only when the buffer is full.
  `RingProps` describes the cells of the queue once, for any head and tail.
* `ConsoleProofs!CursorStaysOnScreen`: with any number of processes moving the cursor
  at once, it is on the screen whenever none is. The invariant `Homing`: a cursor
  outside the screen has a reader that has not passed the test that brings it back yet
  (`StepInv` says it of a step from any label to any other).
* `ConsoleProofs!CardFollowsCursor`: `CursorSynced`. In `WriteInv`, unless a character
  was begun in the middle of another one, one reader at most is in `console_putchar`
  (`Alone`), what it has loaded of the cursor and sent to the card is up to date
  (`InStep`), and nothing was written outside the screen (`Inside`). That the two bytes
  give the position back follows from the bounds on the screen in `ConsoleAssumption`.
* `ConsoleProofs!InkStaysInPlace`, `InkIsKept`: in `TextInv`, `Current` says where
  `last_line` is the cursor's line again, `Erased` what a loop of `clear_line` has erased
  so far, and `Clean` that the line of `last_line` shows nothing of the turn before, from
  the first line that was erased whole on. What `console_putchar` does to the text and
  what it does to the cursor are separate lemmas about its statements (`Text`,
  `PositionFacts`), which the steps of a reader and the whole call of `write` share.
* `MemoryProofs!KernelKept`, `MemoryImplementsPool`: the kernel's pages are never given
  out, and the bitmap implements `FramePool`. The invariant `PoolInv` relates the bits,
  the owners and the stage of the boot.
* `MemoryProofs!OneOwner`, `MappingKept`: `Exclusive` and `MappingStable`. That a frame
  is given to one virtual page is not inductive: `alloc_page_entry` writes in a table, and
  two entries of the directory must not share one. They do not because directory and
  tables are blocks of a heap that only grows (`HeapInv`, `TableInv`), which rests on what
  `kmalloc` does with an address that it aligns (`AlignUpFacts`, `KmallocFacts`). That the
  code finds them in their frames is `HeapInPlace`: a block's page leads nowhere else, not
  even by a stale entry of the TLB (`BlockInPage`, `AllocFacts`), and a heap in place was
  in place before (`StaysOut`). `FrameInv` says the rest: a frame that is mapped is owned,
  or is the frame 0 of a `findfreePage` that has failed.
* `StartupProofs!StartImplementsMemory`: the machine that boots, with its exceptions, is
  a `Memory`; `StartKeepsMemory` carries the theorems about `Memory` over to it.
* `StartupProofs!StartReady`, `FaultsShown`, `PagingKeepsAddresses`: `InterruptsReady`,
  `FaultShown` and `PagingSeamless`. `StartInv` says what each of the calls of
  `kernel_start` leaves behind, by the place reached. `StartReady` assumes that
  `nr_syscall`, which handler_syscall.S has for itself, is at most 3 and at most
  `NB_SYSCALL`: the code keeps these numbers in two files.
* `ReadLineProofs!ReadStaysInside`: `OnlyItsCells`: nothing is written beyond the cells, and
  a call that is back has put a `'\0'` behind what it counts. It is inductive with the types and
  with the bound on `count`, which leaves a cell for the `'\0'` at every turn of the loop.
* `ReadLineProofs!ReadImplementsEditor`: every step of `read` is one of `LineEditor`, or
  changes nothing there. The array is mapped to the sequence of its first `count` cells;
  the `'\0'` written behind them is not seen (`LineSound` and the lemmas after it).
* `ReadLineProofs!EchoFollowsLine`: `EchoIsTheLine`. `Shown` says of each column of the
  screen what it shows, not only of those of the line: Backspace erases a cell, and the
  cells behind the cursor must be blank already.
* `AppsProofs!LateLineBounded`: `OneLateLine`. The invariant says that nothing is late
  while processus1 is awake, nor while a line it has begun is still to come.
* `LibraryProofs!CopiesProved`, `SearchesProved`, `StringsProved`: `CopiesExact`,
  `SearchesExact` and `StringsExact`, in memories of any size, over any set of characters
  and for `movsl` of any width. No invariant is needed but the type of the memory
  (`TypesInductive`): each property is about any memory. What a loop leaves is shown by
  induction over its turns (`TurnInduction`, from `Smallest`): where the state after j
  turns can be told, the loop is the function that tells it (`SameLoop`: `MovsUp`,
  `MemccpyCopies`); a pointer that goes up is where `UpFacts` says; where it cannot, a
  loop has a value at every turn first (`LoopExists`, `TokensLoop`) and an invariant then
  (`OffsetFacts`: no match begins before the offset of `memmem`, and its two skips jump
  over none; `SepStep`: what `strsep` has cut off, and the tokens of the text up to there).
* `LibraryProofs!PrintedProved`: `PrintedWhole`, for buffers of any size: the fold over
  the text is a loop (`PrintingIs`), and after each character what has been written and
  what is in the buffer make up the text so far, in writes that fit (`PrintingTurn`).
* `LibraryProofs!FieldsProved`: `FieldsFilled`, for the directives it names. The width of a field is what sign, prefix,
  zeros and digits need, and the rest of the width (`FieldLength`), whatever their digits.
* `LibraryProofs!NumbersProved`: `NumbersReadBack`, for words of any size. A text counts
  for a number when each of its digits continues what those before count for (`Counts`):
  the digits that `printnum` gives do (`NumberCounts`, by induction over the numbers below,
  `Below`, for a quotient is smaller), and `digits_from` stops behind them with what they
  count for (`DigitsRead`), as no digit is a blank, a sign or an `x` (`WorthFacts`). A
  field is blanks, a sign, a prefix, zeros, digits and blanks (`FieldShape`), of which
  `strtol` and `strtoul` skip the first and the last, take the second into account and
  tell the base from the third (`RestRead`). `atoi` goes through the digits from the
  left: what it has and what is left add up to the number (`AtoiReads`), and no power of
  ten that it needs is too large for a word (`LeadingPower`).
* `LibraryProofs!DivisionIsExact`: `DivisionExact`, for words of any size, 32 bits
  included. The estimate that the leading words give is not too large, since the
  divisor's is rounded up, and fits in a word (`ByDoubleWordFacts`); the loop that
  corrects it then ends, with the quotient (`CorrectedFacts`). The shift leaves one word
  because `bsr` gives the highest bit (`Log2Facts`, from `PowerFacts`, which counts
  subsets, as the library has no theorem on powers). "The first turn at which the rest
  is small enough" is a least element of a set of naturals (`Smallest`).

Only model-checked:

* every liveness property (`EveryProcessRuns`, `ReaderServed`, `KeyTaken`, `EnterEnds`,
  `StopStops`, `P1Works`) and the fairness of `RoundRobinOrder`: fairness and ENABLED are
  out of the prover's reach. The steps of `RoundRobinOrder` are proved.
* `HeapSound`, `BlocksKept`, `NothingLost`, `RefusedOnlyWhenFull` of `Heap`: the loops of
  malloc.c are RECURSIVE operators, of which the provers know neither the value nor an
  induction, and an allocation changes bins, tags and neighbours at once.

## 5. Not modelled

* `kernel/panic.c`: prints and stops; nothing calls it.
* `lib/scanf.c`: `gets` goes on for 255 characters at least, whatever is typed, and
  nothing calls it.
* The parsing of a format string: a format is a sequence of characters and directives.
  `strtok` is `strsep` on a static pointer.
* The bits of descriptors and gates, the segments, and privilege: everything runs in
  ring 0, and a layout of bits has little to check.
* Real time: lost ticks, the drift of the clock and its digits.
* `mallopt(M_MXFAST, 0)`, and calls of `malloc` by two processes at once: malloc.c is built
  without a lock. Its public wrappers (malloc.c:79-237) are not compiled.
* `sbrk` and `kmalloc` start at the same address; no program calls `sbrk`.

## 6. Plan

Done: all the modules above, and a theorem for every invariant and action property
whose module has no recursive operator. Next, in this order:

1. `Malloc`: state its bins, fast bins and boundary tags as facts on one chunk and its
   neighbours, and prove them of the operators that recursion does not reach (`freed`,
   `coalesced`, `top_split`, `take`).
2. `Process`: what `SchedulerSafe` keeps of `ContextOwned` when the boot is longer than a
   quantum.
