------------------------------- MODULE Memory -------------------------------
(***************************************************************************)
(* The memory of n7OS: the kernel heap (kernel/kheap.c), the bitmap of     *)
(* physical pages (kernel/mem.c) and the page tables (kernel/paging.c), as *)
(* the boot sets them up (kernel/start.c) and as kernel code calls them    *)
(* from then on.                                                           *)
(*                                                                         *)
(* A frame is a page number, phys >> 12.  An entry of the directory or of  *)
(* a table is the frame it points to, or NotPresent; its rw and user bits  *)
(* are left out, and the writes of one entry are one.  A table or a        *)
(* directory takes one page.  The boot runs with interrupts off, and no    *)
(* call below can be interrupted by another.                               *)
(*                                                                         *)
(* Once paging is on, the code reaches the directory and the tables as     *)
(* virtual pages, which calls may have mapped elsewhere, and it never      *)
(* empties the TLB: an access to a virtual page uses the frame that the    *)
(* tables say, or any that they have said.  What other code writes in its  *)
(* own frames is left out.                                                 *)
(***************************************************************************)
EXTENDS Integers, FiniteSets

CONSTANTS
  PAGE_SIZE,           \* bytes of a page (4096)
  NB_PAGES,            \* pages of physical memory (4096)
  PAGE_TABLE_ENTRIES,  \* entries of a table, and of the directory (1024)
  IDENTITY_TABLES,     \* tables that the boot maps onto themselves (4)
  mem_heap,            \* the first address after the kernel (boot/kernel.lds)
  Size                 \* the sizes kernel code asks kmalloc() for

AlignUp(a) == IF a % PAGE_SIZE = 0 THEN a ELSE (a \div PAGE_SIZE) * PAGE_SIZE + PAGE_SIZE

Page  == 0 .. NB_PAGES - 1
Entry == 0 .. PAGE_TABLE_ENTRIES - 1

\* The last address of memory, and where the boot leaves placement_address.
MemoryEnd == NB_PAGES * PAGE_SIZE
BootEnd   == AlignUp(mem_heap) + (1 + IDENTITY_TABLES) * PAGE_SIZE

ASSUME MemoryAssumption ==
  /\ PAGE_SIZE \in Nat \ {0}
  /\ NB_PAGES \in Nat \ {0}
  /\ PAGE_TABLE_ENTRIES \in Nat \ {0}
  /\ IDENTITY_TABLES \in 1 .. PAGE_TABLE_ENTRIES
  /\ NB_PAGES = IDENTITY_TABLES * PAGE_TABLE_ENTRIES
  /\ mem_heap \in Nat
  /\ Size \subseteq Nat
  /\ BootEnd <= MemoryEnd

NotPresent == -1

\* The pages in use when the boot ends: what lies below the heap, the directory
\* and the tables.
KernelPage == {p \in Page : p * PAGE_SIZE < BootEnd}

VARIABLES
  stage,               \* what kernel_start calls next, then "up"
  placement_address,   \* kernel/kheap.c
  page_bitmap,         \* kernel/mem.c: the pages whose bit is 1
  tables,              \* the contents of each frame, read as a directory or a table
  tlb,                 \* the frames that the tables have said for each of the boot's pages
  \* what has been given out: history, read by no action of the code
  blocks,              \* kmalloc()'s blocks
  owned,               \* the frames of findfreePage() and setPage()'s callers
  asked,               \* the virtual pages that alloc_page_entry() has been asked for
  phys                 \* the last answer of findfreePage()

pageTables == <<tables, tlb, asked>>
vars == <<stage, placement_address, page_bitmap, pageTables, blocks, owned, phys>>

Init ==
  /\ stage = "init_kheap"
  /\ placement_address = 0
  /\ page_bitmap = {}
  /\ tables = [p \in Page |-> [e \in Entry |-> NotPresent]]
  /\ tlb = [p \in Page |-> {}]
  /\ blocks = {}
  /\ owned = {}
  /\ asked = {}
  /\ phys = 0

----------------------------------------------------------------------------
(* kernel/kheap.c                                                          *)

init_kheap ==
  /\ stage = "init_kheap"
  /\ stage' = "init_mem"
  /\ placement_address' = mem_heap
  /\ UNCHANGED <<page_bitmap, pageTables, blocks, owned, phys>>

\* Where kmalloc_int puts the next block.
kmalloc_address(align) == IF align THEN AlignUp(placement_address) ELSE placement_address

\* kmalloc_int checks nothing: that the block fits in memory is a bound of the model.
kmalloc_int(sz, align) ==
  LET address == kmalloc_address(align)
  IN  /\ address + sz <= MemoryEnd
      /\ placement_address' = address + sz
      /\ blocks' = blocks \cup {[start |-> address, size |-> sz]}

kmalloc(sz, align) ==
  /\ stage = "up"
  /\ kmalloc_int(sz, align)
  /\ UNCHANGED <<stage, page_bitmap, pageTables, owned, phys>>

----------------------------------------------------------------------------
(* kernel/mem.c                                                            *)

init_mem ==
  /\ stage = "init_mem"
  /\ stage' = "initialise_paging"
  /\ page_bitmap' = {}
  /\ UNCHANGED <<placement_address, pageTables, blocks, owned, phys>>

\* Mutant: the last page is not looked at.
take_free_Short(f) ==
  \/ /\ f \in Page \ page_bitmap
     /\ f < NB_PAGES - 1
     /\ page_bitmap' = page_bitmap \cup {f}
     /\ owned' = owned \cup {f}
  \/ /\ 0 .. NB_PAGES - 2 \subseteq page_bitmap
     /\ f = 0
     /\ UNCHANGED <<page_bitmap, owned>>

\* Mutant: the page is not marked.
take_free_Unmarked(f) ==
  \/ /\ f \in Page \ page_bitmap
     /\ \A p \in 0 .. f - 1 : p \in page_bitmap
     /\ owned' = owned \cup {f}
     /\ UNCHANGED page_bitmap
  \/ /\ Page \subseteq page_bitmap
     /\ f = 0
     /\ UNCHANGED <<page_bitmap, owned>>

\* findfreePage() returns f: the first free page, which it marks, or 0 if there is none.
take_free(f) ==
  \/ /\ f \in Page \ page_bitmap
     /\ \A p \in 0 .. f - 1 : p \in page_bitmap
     /\ page_bitmap' = page_bitmap \cup {f}
     /\ owned' = owned \cup {f}
  \/ /\ Page \subseteq page_bitmap
     /\ f = 0
     /\ UNCHANGED <<page_bitmap, owned>>

findfreePage ==
  /\ stage = "up"
  /\ \E f \in Page : take_free(f) /\ phys' = f
  /\ UNCHANGED <<stage, placement_address, pageTables, blocks>>

\* Kernel code chooses a free page itself.
setPage(p) ==
  /\ stage = "up"
  /\ p \notin page_bitmap
  /\ page_bitmap' = page_bitmap \cup {p}
  /\ owned' = owned \cup {p}
  /\ UNCHANGED <<stage, placement_address, pageTables, blocks, phys>>

\* The directory is the block that initialise_paging() asks for first.
frame_addr(address) == address \div PAGE_SIZE
kernel_directory == frame_addr(AlignUp(mem_heap))

\* The frame that the processor finds for a virtual page <<d, e>> in the tables.
Translate(d, e) ==
  LET table == tables[kernel_directory][d]
  IN  IF table = NotPresent THEN NotPresent ELSE tables[table][e]

\* The same for virtual page p, of those that the boot maps.
TranslatePage(p) == Translate(p \div PAGE_TABLE_ENTRIES, p % PAGE_TABLE_ENTRIES)

MappedFrame == {Translate(v[1], v[2]) : v \in asked}

\* Kernel code gives back a frame that it owns and has not mapped.
clearPage(p) ==
  /\ stage = "up"
  /\ p \in owned \ MappedFrame
  /\ page_bitmap' = page_bitmap \ {p}
  /\ owned' = owned \ {p}
  /\ UNCHANGED <<stage, placement_address, pageTables, blocks, phys>>

----------------------------------------------------------------------------
(* kernel/paging.c                                                         *)

\* The tables, each in the page after the one before.
BootTable(d) == kernel_directory + 1 + d

\* Mutant: the bitmap is marked before the tables are allocated.
marked_at_boot_First == {p \in Page : p * PAGE_SIZE < mem_heap}

\* Every page below placement_address, once the tables are allocated.
marked_at_boot == {p \in Page : p * PAGE_SIZE < BootEnd}

\* Page i of the memory is mapped onto itself by entry i % 1024 of table i \div 1024.
DirectoryAtBoot == [d \in Entry |-> IF d < IDENTITY_TABLES THEN BootTable(d) ELSE NotPresent]
TableAtBoot(d)  == [e \in Entry |-> d * PAGE_TABLE_ENTRIES + e]

\* From now on the TLB may hold what the tables say at the end of this step.
SaidByTables == tlb' = [p \in Page |-> tlb[p] \cup ({TranslatePage(p)'} \ {NotPresent})]

initialise_paging ==
  /\ stage = "initialise_paging"
  /\ stage' = "up"
  /\ placement_address' = BootEnd
  /\ blocks' = {[start |-> AlignUp(mem_heap) + i * PAGE_SIZE, size |-> PAGE_SIZE] :
                  i \in 0 .. IDENTITY_TABLES}
  /\ tables' = [p \in Page |->
                  CASE p = kernel_directory -> DirectoryAtBoot
                    [] p \in BootTable(0) .. BootTable(IDENTITY_TABLES - 1) ->
                         TableAtBoot(p - BootTable(0))
                    [] OTHER -> tables[p]]
  /\ SaidByTables
  /\ page_bitmap' = page_bitmap \cup marked_at_boot
  /\ UNCHANGED <<owned, asked, phys>>

\* Mutant: a table that is there is made again.
has_table_Never(directory, d) == FALSE

has_table(directory, d) == directory[d] # NotPresent

\* A table for directory entry d if it has none, a free page, and the entry that
\* maps virtual page <<d, e>> to it, whatever findfreePage() has answered.  The code
\* finds the directory in frame fd and the table, page table, in frame ft.  Nobody
\* asks for the virtual pages of the kernel's own code and data.
alloc_page_entry(d, e) ==
  /\ stage = "up"
  /\ (d * PAGE_TABLE_ENTRIES + e) * PAGE_SIZE >= mem_heap
  /\ \E fd \in tlb[kernel_directory] :
       LET found == has_table(tables[fd], d)
           table == IF found THEN tables[fd][d] ELSE frame_addr(AlignUp(placement_address))
       IN  /\ IF found THEN UNCHANGED <<placement_address, blocks>>
                       ELSE kmalloc_int(PAGE_SIZE, TRUE)
           /\ \E ft \in tlb[table], f \in Page :
                LET zeroed == IF found THEN tables
                                       ELSE [tables EXCEPT ![ft] = [i \in Entry |-> NotPresent]]
                    linked == [zeroed EXCEPT ![fd][d] = table]
                IN  /\ take_free(f)
                    /\ phys' = f
                    /\ tables' = [linked EXCEPT ![ft][e] = f]
  /\ SaidByTables
  /\ asked' = asked \cup {<<d, e>>}
  /\ UNCHANGED stage

----------------------------------------------------------------------------
Boot == init_kheap \/ init_mem \/ initialise_paging

Next ==
  \/ Boot
  \/ \E sz \in Size, align \in BOOLEAN : kmalloc(sz, align)
  \/ findfreePage
  \/ \E p \in Page : setPage(p) \/ clearPage(p)
  \/ \E d, e \in Entry : alloc_page_entry(d, e)

Spec == Init /\ [][Next]_vars

----------------------------------------------------------------------------
(* Properties.                                                             *)

TypeOK ==
  /\ stage \in {"init_kheap", "init_mem", "initialise_paging", "up"}
  /\ placement_address \in Nat
  /\ page_bitmap \subseteq Page
  /\ tables \in [Page -> [Entry -> Page \cup {NotPresent}]]
  /\ tlb \in [Page -> SUBSET Page]
  /\ blocks \subseteq [start: Nat, size: Nat]
  /\ owned \subseteq Page
  /\ asked \subseteq Entry \X Entry
  /\ phys \in Page

\* Code, directory and tables stay out of reach of findfreePage() (paging.c:49-52).
KernelPagesKept == stage = "up" => KernelPage \subseteq page_bitmap \ owned

\* The frames are given out as a pool gives them (mem.h).
Pool == INSTANCE FramePool
          WITH Frame <- Page, free <- Page \ page_bitmap, owned <- owned, answer <- phys
FramesFromPool == Pool!Spec

\* No page in which the kernel heap has a block, the directory and the tables among
\* them, has ever been mapped elsewhere.  Once this is false it stays so, and the code
\* writes what it takes for its tables into the frames of others.
BlockPages(b) == {p \in Page : p * PAGE_SIZE < b.start + b.size /\ b.start < (p + 1) * PAGE_SIZE}
HeapInPlace == \A b \in blocks : \A p \in BlockPages(b) : tlb[p] \subseteq {p}

\* Bound of the runs: where the heap is no longer in place, what follows is looked at
\* while a single page has been asked for.
Explored == HeapInPlace \/ Cardinality(asked) <= 1

\* What is given out has one owner: two blocks of the kernel heap never overlap and,
\* while the heap is in place, the tables never have two of the virtual pages that were
\* asked for in one frame, save frame 0 when memory was full (kheap.c:14-27, mem.c:23-31).
\* The page that the boot has mapped onto that frame reaches it too, unless it was
\* asked for as well.
Exclusive ==
  /\ \A b1, b2 \in blocks :
       b1 # b2 => b1.start + b1.size <= b2.start \/ b2.start + b2.size <= b1.start
  /\ HeapInPlace =>
       \A v, w \in asked :
         v # w /\ Translate(v[1], v[2]) = Translate(w[1], w[2]) => Translate(v[1], v[2]) = 0

\* A call that leaves the heap in place changes the mapping of one virtual page at most:
\* the pages mapped before, the kernel's own among them, stay where the tables have them
\* (paging.c:21-26).
MappingStable ==
  [][stage = "up" /\ HeapInPlace' =>
       Cardinality({v \in Entry \X Entry :
                      Translate(v[1], v[2])' # Translate(v[1], v[2])}) <= 1]_vars

\* What alloc_page_entry() maps is a page that nothing else uses: no block of the
\* kernel heap lies in it (README.md:156, paging.c:49-52).
NewPageIsFree ==
  \A f \in MappedFrame, b \in blocks :
    f # 0 => (f + 1) * PAGE_SIZE <= b.start \/ b.start + b.size <= f * PAGE_SIZE
=============================================================================
