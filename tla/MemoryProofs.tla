---------------------------- MODULE MemoryProofs ----------------------------
(***************************************************************************)
(* Proofs about the heap, the physical pages and the page tables of        *)
(* Memory.tla, for every size of the memory, of the pages and of the       *)
(* kernel.                                                                 *)
(***************************************************************************)
EXTENDS Memory, FiniteSetTheorems, TLAPS

\* What the bitmap and the owners of frames keep true of each other.
PoolInv ==
  /\ stage \in {"init_kheap", "init_mem", "initialise_paging", "up"}
  /\ page_bitmap \subseteq Page
  /\ owned \subseteq page_bitmap
  /\ phys \in Page
  /\ stage # "up" => page_bitmap = {} /\ owned = {}
  /\ stage = "up" => KernelPage \subseteq page_bitmap \ owned

\* The directory and its tables take room, so that page 0 is the kernel's.
LEMMA PageZero == 0 \in Page /\ 0 \in KernelPage
<1>1. 0 \in Page
  BY MemoryAssumption DEF Page
<1>2. AlignUp(mem_heap) \in Nat
  <2>1. mem_heap \div PAGE_SIZE \in Nat
    BY MemoryAssumption
  <2>2. \A x, y \in Nat : x * y \in Nat
    OBVIOUS
  <2>3. (mem_heap \div PAGE_SIZE) * PAGE_SIZE \in Nat
    BY <2>1, <2>2, MemoryAssumption
  <2> QED
    BY <2>3, MemoryAssumption DEF AlignUp
<1>3. (1 + IDENTITY_TABLES) * PAGE_SIZE > 0
  <2>1. \A x, y \in Nat \ {0} : x * y > 0
    OBVIOUS
  <2>2. 1 + IDENTITY_TABLES \in Nat \ {0} /\ PAGE_SIZE \in Nat \ {0}
    BY MemoryAssumption
  <2> QED
    BY <2>1, <2>2
<1>4. (1 + IDENTITY_TABLES) * PAGE_SIZE \in Int
  BY MemoryAssumption
<1>5. 0 < BootEnd
  BY <1>2, <1>3, <1>4 DEF BootEnd
<1>6. 0 * PAGE_SIZE = 0
  BY MemoryAssumption
<1> QED
  BY <1>1, <1>5, <1>6 DEF KernelPage

LEMMA PoolInvInit == Init => PoolInv
BY PageZero DEF Init, PoolInv

\* A frame that findfreePage() takes was nobody's.
LEMMA TakeFacts ==
  ASSUME PoolInv, NEW f \in Page, take_free(f)
  PROVE  /\ page_bitmap' \subseteq Page
         /\ page_bitmap \subseteq page_bitmap'
         /\ owned' \subseteq page_bitmap'
         /\ owned' \cap page_bitmap \subseteq owned
BY DEF PoolInv, take_free

LEMMA PoolInvNext == PoolInv /\ [Next]_vars => PoolInv'
<1> SUFFICES ASSUME PoolInv, [Next]_vars
             PROVE  PoolInv'
  OBVIOUS
<1>1. CASE init_kheap \/ init_mem
  BY <1>1 DEF PoolInv, init_kheap, init_mem
<1>2. CASE initialise_paging
  <2>1. page_bitmap' = KernelPage /\ owned' = {} /\ phys' = phys /\ stage' = "up"
    BY <1>2 DEF PoolInv, initialise_paging, marked_at_boot, KernelPage
  <2> QED
    BY <2>1 DEF PoolInv, KernelPage
<1>3. CASE \E sz \in Size, align \in BOOLEAN : kmalloc(sz, align)
  BY <1>3 DEF PoolInv, kmalloc
<1>4. CASE findfreePage
  <2>1. PICK f \in Page : take_free(f) /\ phys' = f
    BY <1>4 DEF findfreePage
  <2> QED
    BY <1>4, <2>1, TakeFacts DEF PoolInv, findfreePage
<1>5. CASE \E p \in Page : setPage(p)
  BY <1>5 DEF PoolInv, setPage
<1>6. CASE \E p \in Page : clearPage(p)
  BY <1>6 DEF PoolInv, clearPage
<1>7. CASE \E d, e \in Entry : alloc_page_entry(d, e)
  <2>1. stage' = stage /\ \E f \in Page : take_free(f) /\ phys' = f
    BY <1>7 DEF alloc_page_entry
  <2>2. PICK f \in Page : take_free(f) /\ phys' = f
    BY <2>1
  <2>3. stage = "up"
    BY <1>7 DEF alloc_page_entry
  <2> QED
    BY <2>1, <2>2, <2>3, TakeFacts DEF PoolInv
<1>8. CASE UNCHANGED vars
  BY <1>8 DEF PoolInv, vars
<1> QED
  BY <1>1, <1>2, <1>3, <1>4, <1>5, <1>6, <1>7, <1>8 DEF Next, Boot

\* findfreePage() never gives out a page of the kernel's code, directory or tables.
THEOREM KernelKept == Spec => []KernelPagesKept
<1>1. PoolInv => KernelPagesKept
  BY DEF PoolInv, KernelPagesKept
<1> QED
  BY <1>1, PoolInvInit, PoolInvNext, PTL DEF Spec

----------------------------------------------------------------------------
(* The bitmap is a pool of frames.                                         *)

LEMMA TakeRefines ==
  ASSUME PoolInv, NEW f \in Page, take_free(f), phys' = f
  PROVE  Pool!Next
<1>1. CASE f \in Page \ page_bitmap /\ page_bitmap' = page_bitmap \cup {f}
           /\ owned' = owned \cup {f}
  <2>1. Page \ page_bitmap' = (Page \ page_bitmap) \ {f}
    BY <1>1
  <2>2. Pool!Give(f)
    BY <1>1, <2>1 DEF Pool!Give
  <2> QED
    BY <2>2 DEF Pool!Next
<1>2. CASE Page \subseteq page_bitmap /\ f = 0 /\ UNCHANGED <<page_bitmap, owned>>
  <2>1. Pool!TurnDown
    BY <1>2 DEF Pool!TurnDown
  <2> QED
    BY <2>1 DEF Pool!Next
<1> QED
  BY <1>1, <1>2 DEF take_free

LEMMA PoolNext ==
  PoolInv /\ [Next]_vars => [Pool!Next]_<<Page \ page_bitmap, owned, phys>>
<1> SUFFICES ASSUME PoolInv, [Next]_vars
             PROVE  Pool!Next \/ UNCHANGED <<page_bitmap, owned, phys>>
  BY DEF Pool!Next
<1>1. CASE init_kheap \/ init_mem
  BY <1>1 DEF PoolInv, init_kheap, init_mem
<1>2. CASE initialise_paging
  <2>1. /\ page_bitmap = {} /\ page_bitmap' = KernelPage
        /\ owned' = owned /\ phys' = phys
    BY <1>2 DEF PoolInv, initialise_paging, marked_at_boot, KernelPage
  <2>2. KernelPage \in SUBSET Page
    BY DEF KernelPage
  <2>3. Pool!Keep(KernelPage)
    BY <2>1 DEF Pool!Keep
  <2> QED
    BY <2>2, <2>3, PageZero DEF Pool!Next
<1>3. CASE \E sz \in Size, align \in BOOLEAN : kmalloc(sz, align)
  BY <1>3 DEF kmalloc
<1>4. CASE findfreePage
  BY <1>4, TakeRefines DEF findfreePage
<1>5. CASE \E p \in Page : setPage(p)
  <2>1. PICK p \in Page : setPage(p)
    BY <1>5
  <2>2. Page \ page_bitmap' = (Page \ page_bitmap) \ {p}
    BY <2>1 DEF setPage
  <2>3. Pool!Choose(p)
    BY <2>1, <2>2 DEF setPage, Pool!Choose
  <2> QED
    BY <2>3 DEF Pool!Next
<1>6. CASE \E p \in Page : clearPage(p)
  <2>1. PICK p \in Page : clearPage(p)
    BY <1>6
  <2>2. Page \ page_bitmap' = (Page \ page_bitmap) \cup {p}
    BY <2>1 DEF clearPage
  <2>3. Pool!TakeBack(p)
    BY <2>1, <2>2 DEF clearPage, Pool!TakeBack
  <2> QED
    BY <2>3 DEF Pool!Next
<1>7. CASE \E d, e \in Entry : alloc_page_entry(d, e)
  <2>1. \E f \in Page : take_free(f) /\ phys' = f
    BY <1>7 DEF alloc_page_entry
  <2> QED
    BY <2>1, TakeRefines
<1>8. CASE UNCHANGED vars
  BY <1>8 DEF vars
<1> QED
  BY <1>1, <1>2, <1>3, <1>4, <1>5, <1>6, <1>7, <1>8 DEF Next, Boot

\* A frame has one owner at a time, and findfreePage() fails only when all are taken.
THEOREM MemoryImplementsPool == Spec => FramesFromPool
<1>1. Init => Pool!Init
  BY DEF Init, Pool!Init
<1> QED
  BY <1>1, PoolInvInit, PoolInvNext, PoolNext, PTL DEF Spec, FramesFromPool, Pool!Spec

----------------------------------------------------------------------------
(* Addresses and pages.                                                    *)

LEMMA ProductFacts ==
  /\ \A x, y \in Nat : x * y \in Nat
  /\ \A x, y \in Int : x * y \in Int
  /\ \A x, y, z \in Nat : x <= y => x * z <= y * z
  /\ \A x, y, z \in Int : (x + y) * z = x * z + y * z
  /\ \A x, y \in Nat, z \in Nat \ {0} : x * z < y * z => x < y
OBVIOUS

\* AlignUp() gives the next page boundary, and frame_addr() the page that starts there.
LEMMA AlignUpFacts ==
  ASSUME NEW a \in Nat
  PROVE  /\ frame_addr(AlignUp(a)) \in Nat
         /\ AlignUp(a) = frame_addr(AlignUp(a)) * PAGE_SIZE
         /\ a <= AlignUp(a)
<1> DEFINE q == a \div PAGE_SIZE
           r == a % PAGE_SIZE
<1>1. q \in Nat /\ r \in 0 .. PAGE_SIZE - 1 /\ a = PAGE_SIZE * q + r
  BY MemoryAssumption
<1>2. \A x \in Nat : (x * PAGE_SIZE) \div PAGE_SIZE = x
  BY MemoryAssumption
<1>3. \A x, y \in Nat : x * y = y * x
  OBVIOUS
<1>4. q * PAGE_SIZE + PAGE_SIZE = (q + 1) * PAGE_SIZE
  BY <1>1, MemoryAssumption
<1>5. AlignUp(a) = IF r = 0 THEN q * PAGE_SIZE ELSE (q + 1) * PAGE_SIZE
  <2>1. r = 0 => a = q * PAGE_SIZE
    BY <1>1, <1>3, MemoryAssumption
  <2> QED
    BY <1>4, <2>1 DEF AlignUp
<1>6. a <= AlignUp(a)
  <2>1. a = q * PAGE_SIZE + r /\ q * PAGE_SIZE \in Nat
    BY <1>1, <1>3, ProductFacts, MemoryAssumption
  <2> HIDE DEF q, r
  <2> QED
    BY <1>1, <1>4, <1>5, <2>1, MemoryAssumption
<1> HIDE DEF q, r
<1> QED
  BY <1>1, <1>2, <1>5, <1>6 DEF frame_addr

\* The pages that the boot gives to the directory and to the tables.
LEMMA BootFacts ==
  /\ BootEnd \in Nat /\ AlignUp(mem_heap) \in Nat
  /\ kernel_directory \in Page /\ AlignUp(mem_heap) = kernel_directory * PAGE_SIZE
  /\ \A d \in 0 .. IDENTITY_TABLES - 1 :
       BootTable(d) \in Page /\ (BootTable(d) + 1) * PAGE_SIZE <= BootEnd
  /\ \A d \in 0 .. IDENTITY_TABLES - 1, e \in Entry : d * PAGE_TABLE_ENTRIES + e \in Page
<1> DEFINE first == frame_addr(AlignUp(mem_heap))
<1>1. first \in Nat /\ AlignUp(mem_heap) = first * PAGE_SIZE
  BY AlignUpFacts, MemoryAssumption
<1> HIDE DEF first
<1>2. \A d \in Nat : first + 1 + d \in Nat
  BY <1>1
<1>3. BootEnd = (first + 1 + IDENTITY_TABLES) * PAGE_SIZE
  <2>1. first \in Int /\ 1 + IDENTITY_TABLES \in Int /\ PAGE_SIZE \in Int
    BY <1>1, MemoryAssumption
  <2>2. (first + (1 + IDENTITY_TABLES)) * PAGE_SIZE
          = first * PAGE_SIZE + (1 + IDENTITY_TABLES) * PAGE_SIZE
    BY <2>1, ProductFacts
  <2>3. first + (1 + IDENTITY_TABLES) = first + 1 + IDENTITY_TABLES
    BY <2>1, MemoryAssumption
  <2> QED
    BY <1>1, <2>2, <2>3 DEF BootEnd
<1>4. BootEnd \in Nat /\ AlignUp(mem_heap) \in Nat
  BY <1>1, <1>3, ProductFacts, MemoryAssumption
<1>5. ASSUME NEW d \in 0 .. IDENTITY_TABLES - 1
      PROVE  BootTable(d) \in Page /\ (BootTable(d) + 1) * PAGE_SIZE <= BootEnd
  <2>1. BootTable(d) = first + 1 + d
    BY DEF BootTable, kernel_directory, first
  <2>2. /\ BootTable(d) + 1 \in Nat /\ first + 1 + IDENTITY_TABLES \in Nat
        /\ BootTable(d) + 1 <= first + 1 + IDENTITY_TABLES /\ BootTable(d) \in Nat
    BY <1>1, <2>1, MemoryAssumption
  <2>3. (BootTable(d) + 1) * PAGE_SIZE <= BootEnd
    BY <1>3, <2>2, ProductFacts, MemoryAssumption
  <2>4. (BootTable(d) + 1) * PAGE_SIZE = BootTable(d) * PAGE_SIZE + PAGE_SIZE
    BY <2>2, MemoryAssumption
  <2>5. BootTable(d) * PAGE_SIZE < NB_PAGES * PAGE_SIZE
    <3>1. BootTable(d) * PAGE_SIZE \in Nat /\ NB_PAGES * PAGE_SIZE \in Nat
      BY <2>2, ProductFacts, MemoryAssumption
    <3> QED
      BY <1>4, <2>3, <2>4, <3>1, MemoryAssumption DEF MemoryEnd
  <2>6. BootTable(d) < NB_PAGES
    BY <2>2, <2>5, ProductFacts, MemoryAssumption
  <2> QED
    BY <2>2, <2>3, <2>6, MemoryAssumption DEF Page
<1>6. ASSUME NEW d \in 0 .. IDENTITY_TABLES - 1, NEW e \in Entry
      PROVE  d * PAGE_TABLE_ENTRIES + e \in Page
  <2>1. (d + 1) * PAGE_TABLE_ENTRIES <= IDENTITY_TABLES * PAGE_TABLE_ENTRIES
    <3>1. d + 1 \in Nat /\ IDENTITY_TABLES \in Nat /\ d + 1 <= IDENTITY_TABLES
          /\ PAGE_TABLE_ENTRIES \in Nat
      BY MemoryAssumption
    <3> QED
      BY <3>1, ProductFacts
  <2>2. (d + 1) * PAGE_TABLE_ENTRIES = d * PAGE_TABLE_ENTRIES + PAGE_TABLE_ENTRIES
    BY MemoryAssumption
  <2>3. d * PAGE_TABLE_ENTRIES \in Nat
    BY ProductFacts, MemoryAssumption
  <2> QED
    BY <2>1, <2>2, <2>3, MemoryAssumption DEF Page, Entry
<1>7. kernel_directory \in Page
  <2>1. 0 \in 0 .. IDENTITY_TABLES - 1
    BY MemoryAssumption
  <2>2. BootTable(0) \in Page /\ BootTable(0) = first + 1
    BY <1>1, <1>5, <2>1 DEF BootTable, kernel_directory, first
  <2> QED
    BY <1>1, <2>2, MemoryAssumption DEF kernel_directory, first, Page
<1> QED
  BY <1>1, <1>4, <1>5, <1>6, <1>7 DEF kernel_directory, first

\* Virtual page p of the boot: entry p % 1024 of table p \div 1024.
LEMMA PageIndex ==
  ASSUME NEW p \in Page
  PROVE  /\ p \div PAGE_TABLE_ENTRIES \in 0 .. IDENTITY_TABLES - 1
         /\ p \div PAGE_TABLE_ENTRIES \in Entry /\ p % PAGE_TABLE_ENTRIES \in Entry
         /\ p = (p \div PAGE_TABLE_ENTRIES) * PAGE_TABLE_ENTRIES + (p % PAGE_TABLE_ENTRIES)
<1> DEFINE d == p \div PAGE_TABLE_ENTRIES
           e == p % PAGE_TABLE_ENTRIES
<1>1. /\ d \in Nat /\ e \in Entry
      /\ p = PAGE_TABLE_ENTRIES * d + e
  BY MemoryAssumption DEF Page, Entry
<1>2. p = d * PAGE_TABLE_ENTRIES + e
  <2>1. PAGE_TABLE_ENTRIES * d = d * PAGE_TABLE_ENTRIES
    BY <1>1, MemoryAssumption
  <2> QED
    BY <1>1, <2>1
<1> HIDE DEF d, e
<1>3. d \in 0 .. IDENTITY_TABLES - 1
  <2>1. d * PAGE_TABLE_ENTRIES < IDENTITY_TABLES * PAGE_TABLE_ENTRIES
    <3>1. d * PAGE_TABLE_ENTRIES \in Nat
      BY <1>1, ProductFacts, MemoryAssumption
    <3> QED
      BY <1>1, <1>2, <3>1, MemoryAssumption DEF Page, Entry
  <2>2. d < IDENTITY_TABLES
    BY <1>1, <2>1, ProductFacts, MemoryAssumption
  <2> QED
    BY <1>1, <2>2, MemoryAssumption
<1>4. d \in Entry
  BY <1>3, MemoryAssumption DEF Entry
<1> QED
  BY <1>1, <1>2, <1>3, <1>4 DEF d, e

\* A block of one page lies in that page.
PageBlock(p) == [start |-> p * PAGE_SIZE, size |-> PAGE_SIZE]

LEMMA BlockInPage ==
  ASSUME NEW p \in Page
  PROVE  /\ p \in BlockPages(PageBlock(p))
         /\ PageBlock(p).start = p * PAGE_SIZE /\ PageBlock(p).size = PAGE_SIZE
<1>1. p * PAGE_SIZE \in Nat
  BY ProductFacts, MemoryAssumption DEF Page
<1>2. (p + 1) * PAGE_SIZE = p * PAGE_SIZE + PAGE_SIZE
  BY MemoryAssumption DEF Page
<1>3. PageBlock(p).start = p * PAGE_SIZE /\ PageBlock(p).size = PAGE_SIZE
  BY DEF PageBlock
<1> QED
  BY <1>1, <1>2, <1>3, MemoryAssumption DEF BlockPages

----------------------------------------------------------------------------
(* What has been given out has one owner.                                  *)

\* The blocks of the kernel heap lie one after the other, below placement_address.
HeapInv ==
  /\ placement_address \in Nat
  /\ blocks \subseteq [start: Nat, size: Nat]
  /\ \A b \in blocks : b.start + b.size <= placement_address
  /\ \A b1, b2 \in blocks :
       b1 # b2 => b1.start + b1.size <= b2.start \/ b2.start + b2.size <= b1.start
  /\ stage # "up" => blocks = {}

\* What the frames and the TLB may hold, in place or not.
FrameTypes ==
  /\ tables \in [Page -> [Entry -> Page \cup {NotPresent}]]
  /\ tlb \in [Page -> SUBSET Page]
  /\ asked \subseteq Entry \X Entry
  /\ stage # "up" => asked = {}

\* The directory and the tables are blocks of the heap, and no two entries share one.
TableInv ==
  stage = "up" /\ HeapInPlace =>
    /\ PageBlock(kernel_directory) \in blocks
    /\ \A d \in Entry : has_table(tables[kernel_directory], d) =>
         /\ PageBlock(tables[kernel_directory][d]) \in blocks
         /\ tables[kernel_directory][d] # kernel_directory
    /\ \A c, d \in Entry :
         has_table(tables[kernel_directory], c) /\ c # d =>
           tables[kernel_directory][c] # tables[kernel_directory][d]

\* What a virtual page is moved to is owned, by that page alone.
FrameInv ==
  HeapInPlace =>
    /\ \A v \in asked : Translate(v[1], v[2]) \in owned \cup {0}
    /\ \A v, w \in asked :
         v # w /\ Translate(v[1], v[2]) = Translate(w[1], w[2]) => Translate(v[1], v[2]) = 0

OwnerInv == PoolInv /\ HeapInv /\ FrameTypes /\ TableInv /\ FrameInv

LEMMA TranslateType ==
  ASSUME FrameTypes, NEW d \in Entry, NEW e \in Entry
  PROVE  Translate(d, e) \in Page \cup {NotPresent}
<1>1. tables[kernel_directory][d] \in Page \cup {NotPresent}
  BY BootFacts DEF FrameTypes
<1> QED
  BY <1>1 DEF FrameTypes, Translate

\* The TLB keeps what it has held, within the memory.
LEMMA SaidFacts ==
  ASSUME FrameTypes, SaidByTables,
         tables' \in [Page -> [Entry -> Page \cup {NotPresent}]]
  PROVE  /\ tlb' \in [Page -> SUBSET Page]
         /\ \A p \in Page : tlb[p] \subseteq tlb'[p]
<1>1. ASSUME NEW p \in Page
      PROVE  TranslatePage(p)' \in Page \cup {NotPresent}
  <2> DEFINE d == p \div PAGE_TABLE_ENTRIES
             e == p % PAGE_TABLE_ENTRIES
  <2>1. d \in Entry /\ e \in Entry
    BY PageIndex
  <2>2. TranslatePage(p)' = Translate(d, e)'
    BY DEF TranslatePage
  <2> HIDE DEF d, e
  <2>3. tables'[kernel_directory][d] \in Page \cup {NotPresent}
    BY <2>1, BootFacts
  <2> QED
    BY <2>1, <2>2, <2>3 DEF Translate
<1>2. \A p \in Page : tlb[p] \subseteq Page
  BY DEF FrameTypes
<1> QED
  BY <1>1, <1>2 DEF SaidByTables

\* kmalloc() goes up: a block starts where the blocks before it have ended.
LEMMA KmallocFacts ==
  ASSUME HeapInv, NEW sz \in Nat, NEW align \in BOOLEAN,
         kmalloc_int(sz, align), stage = "up", stage' = "up"
  PROVE  HeapInv' /\ placement_address' = kmalloc_address(align) + sz
         /\ placement_address <= kmalloc_address(align)
         /\ kmalloc_address(align) \in Nat
<1> DEFINE new == [start |-> kmalloc_address(align), size |-> sz]
<1>1. /\ kmalloc_address(align) \in Nat
      /\ placement_address <= kmalloc_address(align) /\ placement_address \in Nat
  <2>1. placement_address \in Nat
    BY DEF HeapInv
  <2>2. AlignUp(placement_address) \in Nat /\ placement_address <= AlignUp(placement_address)
    BY <2>1, AlignUpFacts, ProductFacts, MemoryAssumption
  <2> QED
    BY <2>1, <2>2 DEF kmalloc_address
<1>2. placement_address' = kmalloc_address(align) + sz /\ blocks' = blocks \cup {new}
  BY DEF kmalloc_int
<1>3. \A b \in blocks :
        /\ b.start \in Nat /\ b.size \in Nat
        /\ b.start + b.size <= placement_address
  BY DEF HeapInv
<1>4. new \in [start: Nat, size: Nat] /\ new.start = kmalloc_address(align) /\ new.size = sz
  BY <1>1
<1> HIDE DEF new
<1>5. \A b \in blocks' : b.start + b.size <= placement_address'
  BY <1>1, <1>2, <1>3, <1>4
<1>6. \A b \in blocks : b.start + b.size <= new.start
  BY <1>1, <1>3, <1>4
<1>7. \A b1, b2 \in blocks' :
        b1 # b2 => b1.start + b1.size <= b2.start \/ b2.start + b2.size <= b1.start
  BY <1>2, <1>6 DEF HeapInv
<1>8. blocks' \subseteq [start: Nat, size: Nat]
  BY <1>2, <1>4 DEF HeapInv
<1> QED
  BY <1>1, <1>2, <1>5, <1>7, <1>8 DEF HeapInv

LEMMA OwnerInit == Init => OwnerInv
<1> SUFFICES ASSUME Init
             PROVE  OwnerInv
  OBVIOUS
<1>1. HeapInv
  BY DEF Init, HeapInv
<1>2. FrameTypes /\ stage # "up" /\ asked = {}
  BY DEF Init, FrameTypes
<1> QED
  BY <1>1, <1>2, PoolInvInit DEF OwnerInv, TableInv, FrameInv

\* The boot: the directory and the tables are consecutive pages, and every page is
\* mapped onto itself.
LEMMA OwnerBoot == OwnerInv /\ Boot => (HeapInv /\ FrameTypes /\ TableInv /\ FrameInv)'
<1> SUFFICES ASSUME OwnerInv, Boot
             PROVE  (HeapInv /\ FrameTypes /\ TableInv /\ FrameInv)'
  OBVIOUS
<1>1. CASE init_kheap \/ init_mem
  <2>1. /\ stage # "up" /\ stage' # "up" /\ placement_address' \in Nat
        /\ blocks = {} /\ blocks' = {}
        /\ UNCHANGED <<tables, tlb, asked, owned>>
    BY <1>1, MemoryAssumption DEF init_kheap, init_mem, pageTables, OwnerInv, HeapInv
  <2>2. asked = {}
    BY <2>1 DEF OwnerInv, FrameTypes
  <2>3. HeapInv'
    BY <2>1 DEF HeapInv
  <2>4. FrameTypes'
    BY <2>1 DEF OwnerInv, FrameTypes
  <2> QED
    BY <2>1, <2>2, <2>3, <2>4 DEF TableInv, FrameInv
<1>2. CASE initialise_paging
  <2> DEFINE first == AlignUp(mem_heap)
             Block(i) == [start |-> first + i * PAGE_SIZE, size |-> PAGE_SIZE]
             Table == 0 .. IDENTITY_TABLES - 1
  <2>1. /\ stage' = "up"
        /\ placement_address' = BootEnd
        /\ blocks' = {Block(i) : i \in 0 .. IDENTITY_TABLES}
        /\ tables' = [p \in Page |->
                        CASE p = kernel_directory -> DirectoryAtBoot
                          [] p \in BootTable(0) .. BootTable(IDENTITY_TABLES - 1) ->
                               TableAtBoot(p - BootTable(0))
                          [] OTHER -> tables[p]]
        /\ SaidByTables /\ asked' = asked /\ asked = {}
    BY <1>2 DEF initialise_paging, OwnerInv, FrameTypes
  <2>2. Entry \subseteq Nat /\ Table \subseteq Entry
    BY MemoryAssumption DEF Entry
  <2>3. first \in Nat /\ PAGE_SIZE \in Nat
    BY BootFacts, MemoryAssumption
  <2>4. \A i, j \in 0 .. IDENTITY_TABLES :
          /\ i * PAGE_SIZE \in Nat
          /\ i < j => i * PAGE_SIZE + PAGE_SIZE <= j * PAGE_SIZE
    <3>1. \A i, j \in Nat : i < j => (i + 1) * PAGE_SIZE <= j * PAGE_SIZE
      BY <2>3, ProductFacts
    <3>2. \A i \in Nat : (i + 1) * PAGE_SIZE = i * PAGE_SIZE + PAGE_SIZE
      BY <2>3
    <3> QED
      BY <2>3, <3>1, <3>2, ProductFacts, MemoryAssumption
  <2>5. HeapInv'
    <3>1. \A i \in 0 .. IDENTITY_TABLES : first + i * PAGE_SIZE + PAGE_SIZE <= BootEnd
      <4>1. BootEnd = first + (1 + IDENTITY_TABLES) * PAGE_SIZE
        BY DEF BootEnd
      <4>2. (1 + IDENTITY_TABLES) * PAGE_SIZE = IDENTITY_TABLES * PAGE_SIZE + PAGE_SIZE
        BY <2>3, MemoryAssumption
      <4>3. \A i \in 0 .. IDENTITY_TABLES : i * PAGE_SIZE <= IDENTITY_TABLES * PAGE_SIZE
        BY <2>3, ProductFacts, MemoryAssumption
      <4>4. IDENTITY_TABLES * PAGE_SIZE \in Nat
        BY <2>3, ProductFacts, MemoryAssumption
      <4> HIDE DEF first
      <4> QED
        BY <2>3, <2>4, <4>1, <4>2, <4>3, <4>4
    <3> HIDE DEF first
    <3>2. \A i \in 0 .. IDENTITY_TABLES :
            /\ Block(i) \in [start: Nat, size: Nat]
            /\ Block(i).start + Block(i).size <= BootEnd
      BY <2>3, <2>4, <3>1
    <3>3. \A i, j \in 0 .. IDENTITY_TABLES :
            i < j => Block(i).start + Block(i).size <= Block(j).start
      BY <2>3, <2>4
    <3>4. \A i, j \in 0 .. IDENTITY_TABLES : i < j \/ j < i \/ i = j
      BY MemoryAssumption
    <3> HIDE DEF Block
    <3>5. \A b1, b2 \in blocks' :
            b1 # b2 => b1.start + b1.size <= b2.start \/ b2.start + b2.size <= b1.start
      <4> SUFFICES ASSUME NEW i \in 0 .. IDENTITY_TABLES, NEW j \in 0 .. IDENTITY_TABLES,
                          Block(i) # Block(j)
                   PROVE  \/ Block(i).start + Block(i).size <= Block(j).start
                          \/ Block(j).start + Block(j).size <= Block(i).start
        BY <2>1
      <4> QED
        BY <3>3, <3>4
    <3> QED
      BY <2>1, <3>2, <3>5, BootFacts DEF HeapInv
  <2>6. kernel_directory \in Page /\ first = kernel_directory * PAGE_SIZE
    BY BootFacts
  <2>7. \A d \in Table : /\ BootTable(d) \in Page
                         /\ BootTable(d) = kernel_directory + 1 + d
                         /\ BootTable(d) - BootTable(0) = d
                         /\ BootTable(d) \in BootTable(0) .. BootTable(IDENTITY_TABLES - 1)
    BY <2>6, BootFacts, MemoryAssumption DEF BootTable, Page
  <2>8. \A p \in BootTable(0) .. BootTable(IDENTITY_TABLES - 1) :
          /\ p - BootTable(0) \in Table /\ p = BootTable(p - BootTable(0))
          /\ p # kernel_directory
    BY <2>6, MemoryAssumption DEF BootTable, Page
  <2>9. \A d \in Entry :
          tables'[kernel_directory][d] = IF d \in Table THEN BootTable(d) ELSE NotPresent
    <3>1. tables'[kernel_directory] = DirectoryAtBoot
      BY <2>1, <2>6, <2>8
    <3> QED
      BY <2>2, <3>1, MemoryAssumption DEF DirectoryAtBoot
  <2>10. FrameTypes'
    <3>1. tables' \in [Page -> [Entry -> Page \cup {NotPresent}]]
      <4>1. DirectoryAtBoot \in [Entry -> Page \cup {NotPresent}]
        BY <2>2, <2>7, MemoryAssumption DEF DirectoryAtBoot
      <4>2. \A d \in Table : TableAtBoot(d) \in [Entry -> Page \cup {NotPresent}]
        BY BootFacts DEF TableAtBoot
      <4>3. tables \in [Page -> [Entry -> Page \cup {NotPresent}]]
        BY DEF OwnerInv, FrameTypes
      <4>4. ASSUME NEW p \in Page
            PROVE  tables'[p] \in [Entry -> Page \cup {NotPresent}]
        <5>1. CASE p = kernel_directory
          BY <2>1, <2>8, <4>1, <5>1
        <5>2. CASE p \in BootTable(0) .. BootTable(IDENTITY_TABLES - 1)
          <6>1. tables'[p] = TableAtBoot(p - BootTable(0))
            BY <2>1, <2>8, <5>2
          <6> QED
            BY <2>8, <4>2, <5>2, <6>1
        <5>3. CASE ~ (p = kernel_directory
                      \/ p \in BootTable(0) .. BootTable(IDENTITY_TABLES - 1))
          BY <2>1, <4>3, <5>3
        <5> QED
          BY <5>1, <5>2, <5>3
      <4> QED
        BY <2>1, <4>4
    <3>2. tlb' \in [Page -> SUBSET Page]
      BY <2>1, <3>1, SaidFacts DEF OwnerInv
    <3> QED
      BY <2>1, <3>1, <3>2 DEF FrameTypes
  <2>11. TableInv'
    <3>1. NotPresent \notin Page
      BY DEF NotPresent, Page
    <3>2. \A d \in Entry : has_table(tables'[kernel_directory], d) <=> d \in Table
      BY <2>7, <2>9, <3>1 DEF has_table
    <3>3. \A i \in 0 .. IDENTITY_TABLES : PageBlock(kernel_directory + i) = Block(i)
      <4>1. \A i \in 0 .. IDENTITY_TABLES :
              (kernel_directory + i) * PAGE_SIZE = kernel_directory * PAGE_SIZE + i * PAGE_SIZE
        BY <2>6, ProductFacts, MemoryAssumption DEF Page
      <4> HIDE DEF first
      <4> QED
        BY <2>6, <4>1 DEF PageBlock
    <3>4. PageBlock(kernel_directory) \in blocks'
      <4>1. kernel_directory + 0 = kernel_directory /\ 0 \in 0 .. IDENTITY_TABLES
        BY <2>6, MemoryAssumption DEF Page
      <4> HIDE DEF Block
      <4> QED
        BY <2>1, <3>3, <4>1
    <3>5. \A d \in Table : PageBlock(BootTable(d)) \in blocks' /\ BootTable(d) # kernel_directory
      <4>1. \A d \in Table : d + 1 \in 0 .. IDENTITY_TABLES
        BY MemoryAssumption
      <4>2. \A d \in Table : BootTable(d) = kernel_directory + (d + 1)
        BY <2>6, <2>7 DEF Page
      <4> HIDE DEF Block
      <4>3. \A d \in Table : PageBlock(BootTable(d)) \in blocks'
        BY <2>1, <3>3, <4>1, <4>2
      <4> QED
        BY <2>7, <2>8, <4>3
    <3>6. \A c, d \in Table : c # d => BootTable(c) # BootTable(d)
      BY <2>6, <2>7 DEF Page
    <3>7. ASSUME NEW d \in Entry, has_table(tables'[kernel_directory], d)
          PROVE  d \in Table /\ tables'[kernel_directory][d] = BootTable(d)
      BY <2>9, <3>2, <3>7
    <3>8. \A c, d \in Entry :
            has_table(tables'[kernel_directory], c) /\ c # d =>
              tables'[kernel_directory][c] # tables'[kernel_directory][d]
      BY <2>7, <2>9, <3>1, <3>2, <3>6
    <3> QED
      BY <3>4, <3>5, <3>7, <3>8 DEF TableInv
  <2>12. FrameInv'
    BY <2>1 DEF FrameInv
  <2> QED
    BY <2>5, <2>10, <2>11, <2>12
<1> QED
  BY <1>1, <1>2 DEF Boot

\* alloc_page_entry() on virtual page <<d, e>>, where the directory was found in frame
\* fd and the table in frame ft, and findfreePage() has answered f.
TableOf(fd, d) ==
  IF has_table(tables[fd], d) THEN tables[fd][d] ELSE frame_addr(AlignUp(placement_address))

Zeroed(fd, ft, d) ==
  IF has_table(tables[fd], d) THEN tables
                              ELSE [tables EXCEPT ![ft] = [i \in Entry |-> NotPresent]]

Linked(fd, ft, d) == [Zeroed(fd, ft, d) EXCEPT ![fd][d] = TableOf(fd, d)]

TableMade(fd, d) ==
  IF has_table(tables[fd], d) THEN UNCHANGED <<placement_address, blocks>>
                              ELSE kmalloc_int(PAGE_SIZE, TRUE)

AllocStep(d, e, fd, ft, f) ==
  /\ TableMade(fd, d)
  /\ take_free(f)
  /\ tables' = [Linked(fd, ft, d) EXCEPT ![ft][e] = f]

LEMMA AllocCases ==
  ASSUME NEW d \in Entry, NEW e \in Entry, alloc_page_entry(d, e)
  PROVE  /\ stage = "up" /\ stage' = "up" /\ SaidByTables
         /\ asked' = asked \cup {<<d, e>>}
         /\ \E fd \in tlb[kernel_directory] : \E ft \in tlb[TableOf(fd, d)], f \in Page :
              AllocStep(d, e, fd, ft, f)
BY DEF alloc_page_entry, AllocStep, TableMade, TableOf, Zeroed, Linked

\* The table is a page of the memory; a new one lies above the blocks before it.
LEMMA TableFacts ==
  ASSUME OwnerInv, stage = "up", stage' = "up", NEW d \in Entry, NEW fd \in Page,
         TableMade(fd, d)
  PROVE  /\ TableOf(fd, d) \in Page
         /\ HeapInv' /\ blocks \subseteq blocks'
         /\ ~has_table(tables[fd], d) =>
              /\ PageBlock(TableOf(fd, d)) \in blocks'
              /\ \A p \in Page : PageBlock(p) \in blocks => p # TableOf(fd, d)
<1>1. /\ tables[fd][d] \in Page \cup {NotPresent} /\ HeapInv
      /\ placement_address \in Nat
  BY DEF OwnerInv, FrameTypes, HeapInv
<1>2. CASE has_table(tables[fd], d)
  <2>1. UNCHANGED <<placement_address, blocks>>
    BY <1>2 DEF TableMade
  <2> QED
    BY <1>1, <1>2, <2>1 DEF has_table, TableOf, HeapInv
<1>3. CASE ~has_table(tables[fd], d)
  <2> DEFINE q == frame_addr(AlignUp(placement_address))
  <2>1. /\ q \in Nat /\ AlignUp(placement_address) = q * PAGE_SIZE
        /\ placement_address <= q * PAGE_SIZE
    BY <1>1, AlignUpFacts
  <2>2. TableOf(fd, d) = q
    BY <1>3 DEF TableOf
  <2> HIDE DEF q
  <2>3. kmalloc_int(PAGE_SIZE, TRUE) /\ kmalloc_address(TRUE) = q * PAGE_SIZE
    BY <1>3, <2>1 DEF TableMade, kmalloc_address
  <2>4. q * PAGE_SIZE + PAGE_SIZE <= MemoryEnd
    BY <2>3 DEF kmalloc_int
  <2>5. HeapInv'
    <3>1. PAGE_SIZE \in Nat /\ TRUE \in BOOLEAN
      BY MemoryAssumption
    <3> QED
      BY <1>1, <2>3, <3>1, KmallocFacts
  <2>6. q * PAGE_SIZE \in Nat
    BY <2>1, ProductFacts, MemoryAssumption
  <2>7. q \in Page
    <3>1. q * PAGE_SIZE < NB_PAGES * PAGE_SIZE
      <4>1. NB_PAGES * PAGE_SIZE \in Nat
        BY ProductFacts, MemoryAssumption
      <4> QED
        BY <2>4, <2>6, <4>1, MemoryAssumption DEF MemoryEnd
    <3>2. q < NB_PAGES
      BY <2>1, <3>1, ProductFacts, MemoryAssumption
    <3> QED
      BY <2>1, <3>2, MemoryAssumption DEF Page
  <2>8. blocks' = blocks \cup {PageBlock(q)}
    BY <2>3 DEF kmalloc_int, PageBlock
  <2>9. \A p \in Page : PageBlock(p) \in blocks => p # q
    <3> SUFFICES ASSUME PageBlock(q) \in blocks
                 PROVE  FALSE
      OBVIOUS
    <3>1. PageBlock(q).start + PageBlock(q).size <= placement_address
      BY <1>1 DEF HeapInv
    <3>2. q * PAGE_SIZE + PAGE_SIZE <= placement_address
      BY <2>7, <3>1, BlockInPage
    <3> QED
      BY <1>1, <2>1, <2>6, <3>2, MemoryAssumption
  <2> QED
    BY <1>3, <2>2, <2>5, <2>7, <2>8, <2>9
<1> QED
  BY <1>2, <1>3

\* Whatever frames it reaches, it leaves entries in them, and the TLB what it had.
LEMMA AllocTypes ==
  ASSUME OwnerInv, NEW d \in Entry, NEW e \in Entry, alloc_page_entry(d, e)
  PROVE  /\ HeapInv' /\ FrameTypes' /\ blocks \subseteq blocks'
         /\ \A p \in Page : tlb[p] \subseteq tlb'[p]
         /\ \E fd \in Page \cap tlb[kernel_directory] :
              /\ TableMade(fd, d)
              /\ \E ft \in Page \cap tlb[TableOf(fd, d)], f \in Page :
                   AllocStep(d, e, fd, ft, f)
<1>1. /\ stage = "up" /\ stage' = "up" /\ SaidByTables
      /\ asked' = asked \cup {<<d, e>>}
  BY AllocCases
<1>2. PICK fd \in tlb[kernel_directory] : \E ft \in tlb[TableOf(fd, d)], f \in Page :
             AllocStep(d, e, fd, ft, f)
  BY AllocCases
<1>3. PICK ft \in tlb[TableOf(fd, d)], f \in Page : AllocStep(d, e, fd, ft, f)
  BY <1>2
<1>4. /\ FrameTypes /\ fd \in Page
      /\ tables \in [Page -> [Entry -> Page \cup {NotPresent}]]
  BY BootFacts DEF OwnerInv, FrameTypes
<1>5. /\ TableMade(fd, d)
      /\ tables' = [Linked(fd, ft, d) EXCEPT ![ft][e] = f]
  BY <1>3 DEF AllocStep
<1>6. TableOf(fd, d) \in Page /\ HeapInv' /\ blocks \subseteq blocks'
  BY <1>1, <1>4, <1>5, TableFacts
<1>7. ft \in Page
  BY <1>4, <1>6 DEF FrameTypes
<1>8. Zeroed(fd, ft, d) \in [Page -> [Entry -> Page \cup {NotPresent}]]
  BY <1>4, <1>7 DEF Zeroed
<1>9. Linked(fd, ft, d) \in [Page -> [Entry -> Page \cup {NotPresent}]]
  BY <1>4, <1>6, <1>8 DEF Linked
<1>10. tables' \in [Page -> [Entry -> Page \cup {NotPresent}]]
  BY <1>5, <1>7, <1>9
<1>11. tlb' \in [Page -> SUBSET Page] /\ \A p \in Page : tlb[p] \subseteq tlb'[p]
  BY <1>1, <1>4, <1>10, SaidFacts
<1>12. FrameTypes'
  BY <1>1, <1>4, <1>10, <1>11 DEF FrameTypes
<1> QED
  BY <1>3, <1>4, <1>5, <1>6, <1>7, <1>11, <1>12

\* While the heap is in place the directory and the table are found where they are,
\* one virtual page is mapped to the frame it has taken, and the others stay: a table
\* it makes is in none of the pages of the tables before it, and it maps nothing.
LEMMA AllocFacts ==
  ASSUME OwnerInv, NEW d \in Entry, NEW e \in Entry, alloc_page_entry(d, e),
         HeapInPlace, HeapInPlace'
  PROVE  /\ TableInv'
         /\ \E f \in Page :
              /\ take_free(f)
              /\ Translate(d, e)' = f
         /\ \A c, i \in Entry : <<c, i>> # <<d, e>> => Translate(c, i)' = Translate(c, i)
<1> DEFINE kd == kernel_directory
           dir == tables[kd]
<1>1. /\ stage = "up" /\ stage' = "up" /\ kd \in Page /\ NotPresent \notin Page
      /\ tables \in [Page -> [Entry -> Page \cup {NotPresent}]]
      /\ dir \in [Entry -> Page \cup {NotPresent}]
  BY AllocCases, BootFacts DEF OwnerInv, FrameTypes, NotPresent, Page
<1>2. /\ blocks \subseteq blocks' /\ \A p \in Page : tlb[p] \subseteq tlb'[p]
  BY AllocTypes
<1>3. /\ PageBlock(kd) \in blocks
      /\ \A c \in Entry : has_table(dir, c) =>
           dir[c] \in Page /\ PageBlock(dir[c]) \in blocks /\ dir[c] # kd
      /\ \A b, c \in Entry : has_table(dir, b) /\ b # c => dir[b] # dir[c]
  BY <1>1 DEF OwnerInv, TableInv, has_table
<1>4. \A p \in Page : PageBlock(p) \in blocks => tlb[p] \subseteq {p}
  BY BlockInPage DEF HeapInPlace
<1>5. \A p \in Page : PageBlock(p) \in blocks' => tlb[p] \subseteq {p}
  BY <1>2, BlockInPage DEF HeapInPlace
<1>6. PICK fd \in Page \cap tlb[kd] :
             /\ TableMade(fd, d)
             /\ \E ft \in Page \cap tlb[TableOf(fd, d)], f \in Page :
                  AllocStep(d, e, fd, ft, f)
  BY AllocTypes
<1>7. fd = kd
  BY <1>1, <1>3, <1>4, <1>6
<1> DEFINE t == TableOf(kd, d)
<1>8. PICK ft \in Page \cap tlb[t], f \in Page : AllocStep(d, e, kd, ft, f)
  BY <1>6, <1>7
<1>9. /\ t \in Page
      /\ has_table(dir, d) => t = dir[d]
      /\ ~has_table(dir, d) =>
           PageBlock(t) \in blocks' /\ \A p \in Page : PageBlock(p) \in blocks => p # t
  BY <1>1, <1>6, <1>7, TableFacts DEF TableOf
<1> HIDE DEF t
<1>10. PageBlock(t) \in blocks'
  BY <1>2, <1>3, <1>9
<1>11. ft = t
  BY <1>5, <1>8, <1>9, <1>10
<1>12. t # kd
  BY <1>1, <1>3, <1>9
<1>13. \A c \in Entry \ {d} : has_table(dir, c) => dir[c] # t
  <2>1. CASE has_table(dir, d)
    BY <1>3, <1>9, <2>1
  <2>2. CASE ~has_table(dir, d)
    BY <1>3, <1>9, <2>2
  <2> QED
    BY <2>1, <2>2
<1> DEFINE zeroed == Zeroed(kd, t, d)
           linked == Linked(kd, t, d)
<1>14. tables' = [linked EXCEPT ![t][e] = f] /\ take_free(f)
  BY <1>8, <1>11 DEF AllocStep
<1>15. /\ zeroed \in [Page -> [Entry -> Page \cup {NotPresent}]]
       /\ \A p \in Page \ {t} : zeroed[p] = tables[p]
       /\ has_table(dir, d) => zeroed[t] = tables[t]
       /\ ~has_table(dir, d) => \A i \in Entry : zeroed[t][i] = NotPresent
  BY <1>1, <1>9 DEF Zeroed
<1>16. linked = [zeroed EXCEPT ![kd][d] = t]
  BY DEF Linked, t
<1> HIDE DEF zeroed, linked, kd
<1>17. /\ linked \in [Page -> [Entry -> Page \cup {NotPresent}]]
       /\ \A p \in Page \ {kd} : linked[p] = zeroed[p]
       /\ linked[kd][d] = t
       /\ \A c \in Entry \ {d} : linked[kd][c] = zeroed[kd][c]
  BY <1>1, <1>9, <1>15, <1>16
<1>18. /\ \A p \in Page \ {t} : tables'[p] = linked[p]
       /\ tables'[t][e] = f
       /\ \A i \in Entry \ {e} : tables'[t][i] = linked[t][i]
  BY <1>9, <1>14, <1>17
<1>19. /\ tables'[kd][d] = t
       /\ \A c \in Entry \ {d} : tables'[kd][c] = dir[c]
       /\ \A p \in Page \ {kd, t} : tables'[p] = tables[p]
       /\ \A i \in Entry \ {e} : tables'[t][i] = zeroed[t][i]
  BY <1>1, <1>9, <1>12, <1>15, <1>17, <1>18
<1>20. Translate(d, e)' = f
  <2>1. tables'[kernel_directory][d] = t /\ t # NotPresent
    BY <1>1, <1>9, <1>19 DEF kd
  <2> QED
    BY <1>18, <2>1 DEF Translate
<1>21. ASSUME NEW c \in Entry, NEW i \in Entry, <<c, i>> # <<d, e>>
       PROVE  Translate(c, i)' = Translate(c, i)
  <2>1. /\ Translate(c, i) = IF has_table(dir, c) THEN tables[dir[c]][i] ELSE NotPresent
        /\ Translate(c, i)' = IF tables'[kd][c] = NotPresent THEN NotPresent
                                                            ELSE tables'[tables'[kd][c]][i]
    BY DEF Translate, has_table, kd
  <2>2. CASE c = d
    <3>1. i # e
      BY <1>21, <2>2
    <3>2. Translate(c, i)' = zeroed[t][i]
      BY <1>1, <1>9, <1>19, <2>1, <2>2, <3>1
    <3>3. zeroed[t][i] = IF has_table(dir, d) THEN tables[dir[d]][i] ELSE NotPresent
      BY <1>9, <1>15
    <3> QED
      BY <2>1, <2>2, <3>2, <3>3
  <2>3. CASE c # d /\ has_table(dir, c)
    <3>1. dir[c] \in Page \ {kd, t} /\ tables'[kd][c] = dir[c]
      BY <1>3, <1>13, <1>19, <2>3
    <3> QED
      BY <1>1, <1>19, <2>1, <2>3, <3>1
  <2>4. CASE c # d /\ ~has_table(dir, c)
    <3>1. tables'[kd][c] = NotPresent
      BY <1>19, <2>4 DEF has_table
    <3> QED
      BY <2>1, <2>4, <3>1
  <2> QED
    BY <2>2, <2>3, <2>4
<1>22. TableInv'
  <2>1. \A c \in Entry : has_table(tables'[kd], c) <=> has_table(dir, c) \/ c = d
    BY <1>1, <1>9, <1>19 DEF has_table
  <2>2. \A c \in Entry : tables'[kd][c] = IF c = d THEN t ELSE dir[c]
    BY <1>19
  <2>3. \A c \in Entry : has_table(tables'[kd], c) =>
          PageBlock(tables'[kd][c]) \in blocks' /\ tables'[kd][c] # kd
    BY <1>2, <1>3, <1>10, <1>12, <2>1, <2>2
  <2>4. \A b, c \in Entry :
          has_table(tables'[kd], b) /\ b # c => tables'[kd][b] # tables'[kd][c]
    <3> SUFFICES ASSUME NEW b \in Entry, NEW c \in Entry, has_table(tables'[kd], b), b # c
                 PROVE  tables'[kd][b] # tables'[kd][c]
      OBVIOUS
    <3>1. CASE b = d
      BY <1>1, <1>9, <1>13, <2>2, <3>1 DEF has_table
    <3>2. CASE c = d
      BY <1>13, <2>1, <2>2, <3>2
    <3>3. CASE b # d /\ c # d
      BY <1>3, <2>1, <2>2, <3>3
    <3> QED
      BY <3>1, <3>2, <3>3
  <2>5. PageBlock(kd) \in blocks'
    BY <1>2, <1>3
  <2> QED
    BY <2>3, <2>4, <2>5 DEF TableInv, kd
<1> QED
  BY <1>14, <1>20, <1>21, <1>22

\* Once out of place the heap stays so: blocks stay, and so does what the TLB may hold.
LEMMA StaysOut ==
  ASSUME OwnerInv, [Next]_vars, HeapInPlace'
  PROVE  HeapInPlace
<1>1. CASE stage # "up"
  BY <1>1 DEF OwnerInv, HeapInv, HeapInPlace
<1>2. CASE stage = "up"
  <2>1. blocks \subseteq blocks' /\ \A p \in Page : tlb[p] \subseteq tlb'[p]
    <3>1. CASE \E d, e \in Entry : alloc_page_entry(d, e)
      BY <3>1, AllocTypes
    <3>2. CASE \E sz \in Size, align \in BOOLEAN : kmalloc(sz, align)
      BY <3>2 DEF kmalloc, kmalloc_int, pageTables
    <3>3. CASE findfreePage \/ \E p \in Page : setPage(p) \/ clearPage(p)
      BY <3>3 DEF findfreePage, setPage, clearPage, pageTables
    <3>4. CASE UNCHANGED vars
      BY <3>4 DEF vars, pageTables
    <3>5. ~Boot
      BY <1>2 DEF Boot, init_kheap, init_mem, initialise_paging
    <3> QED
      BY <3>1, <3>2, <3>3, <3>4, <3>5 DEF Next
  <2>2. \A b \in blocks : BlockPages(b) \subseteq Page
    BY DEF BlockPages
  <2> QED
    BY <2>1, <2>2 DEF HeapInPlace
<1> QED
  BY <1>1, <1>2

\* A call that leaves the tables alone and takes no mapped frame back.
LEMMA OwnerKept ==
  ASSUME OwnerInv, UNCHANGED pageTables, HeapInPlace' => HeapInPlace,
         stage = "up", stage' = "up", HeapInv', blocks \subseteq blocks',
         owned \cap (MappedFrame \cup {0}) \subseteq owned'
  PROVE  (HeapInv /\ FrameTypes /\ TableInv /\ FrameInv)'
<1>1. tables' = tables /\ tlb' = tlb /\ asked' = asked
  BY DEF pageTables
<1>2. \A c, i \in Entry : Translate(c, i)' = Translate(c, i)
  BY <1>1 DEF Translate
<1>3. FrameTypes'
  BY <1>1 DEF OwnerInv, FrameTypes
<1>4. FrameInv'
  <2>1. \A v \in asked : Translate(v[1], v[2]) \in MappedFrame
    BY DEF MappedFrame
  <2>2. \A v \in asked : Translate(v[1], v[2])' = Translate(v[1], v[2])
    BY <1>2 DEF OwnerInv, FrameTypes
  <2> QED
    BY <1>1, <2>1, <2>2 DEF OwnerInv, FrameInv
<1>5. TableInv'
  BY <1>1 DEF OwnerInv, TableInv
<1> QED
  BY <1>3, <1>4, <1>5

LEMMA OwnerNext == OwnerInv /\ [Next]_vars => OwnerInv'
<1> SUFFICES ASSUME OwnerInv, [Next]_vars
             PROVE  (HeapInv /\ FrameTypes /\ TableInv /\ FrameInv)'
  BY PoolInvNext DEF OwnerInv
<1>1. CASE Boot
  BY <1>1, OwnerBoot
<1>2. CASE \E sz \in Size, align \in BOOLEAN : kmalloc(sz, align)
  <2>1. PICK sz \in Size, align \in BOOLEAN : kmalloc(sz, align)
    BY <1>2
  <2>2. sz \in Nat /\ HeapInv
    BY MemoryAssumption DEF OwnerInv
  <2>3. /\ stage = "up" /\ stage' = "up" /\ kmalloc_int(sz, align)
        /\ UNCHANGED <<pageTables, owned>>
    BY <2>1 DEF kmalloc
  <2>4. HeapInv' /\ blocks \subseteq blocks'
    BY <2>2, <2>3, KmallocFacts DEF kmalloc_int
  <2> QED
    BY <2>3, <2>4, StaysOut, OwnerKept
<1>3. CASE findfreePage \/ \E p \in Page : setPage(p) \/ clearPage(p)
  <2>1. /\ stage = "up" /\ stage' = "up"
        /\ UNCHANGED <<placement_address, blocks, pageTables>>
    BY <1>3 DEF findfreePage, setPage, clearPage
  <2>2. HeapInv'
    BY <2>1 DEF OwnerInv, HeapInv
  <2>3. owned \cap (MappedFrame \cup {0}) \subseteq owned'
    <3>1. 0 \notin owned
      BY <2>1, PageZero DEF OwnerInv, PoolInv
    <3> QED
      BY <1>3, <3>1 DEF findfreePage, take_free, setPage, clearPage
  <2> QED
    BY <2>1, <2>2, <2>3, StaysOut, OwnerKept
<1>4. CASE \E d, e \in Entry : alloc_page_entry(d, e)
  <2>1. PICK d \in Entry, e \in Entry : alloc_page_entry(d, e)
    BY <1>4
  <2>2. HeapInv' /\ FrameTypes' /\ FrameTypes /\ asked' = asked \cup {<<d, e>>}
    BY <2>1, AllocTypes, AllocCases DEF OwnerInv
  <2> SUFFICES ASSUME HeapInPlace'
               PROVE  TableInv' /\ FrameInv'
    BY <2>2 DEF TableInv, FrameInv
  <2>3. HeapInPlace
    BY StaysOut
  <2>4. /\ TableInv'
        /\ \E f \in Page : take_free(f) /\ Translate(d, e)' = f
        /\ \A c, i \in Entry : <<c, i>> # <<d, e>> => Translate(c, i)' = Translate(c, i)
    BY <2>1, <2>3, AllocFacts
  <2>5. PICK f \in Page : take_free(f) /\ Translate(d, e)' = f
    BY <2>4
  <2>6. f \notin owned /\ owned \subseteq owned' /\ (f = 0 \/ f \in owned')
    <3>1. stage = "up" /\ 0 \notin owned
      BY <2>1, AllocCases, PageZero DEF OwnerInv, PoolInv
    <3> QED
      BY <2>5, <3>1 DEF OwnerInv, PoolInv, take_free
  <2>7. ASSUME NEW v \in asked', v # <<d, e>>
        PROVE  v \in asked /\ Translate(v[1], v[2])' = Translate(v[1], v[2])
    <3>1. v \in asked /\ v \in Entry \X Entry /\ v = <<v[1], v[2]>>
      BY <2>2, <2>7 DEF FrameTypes
    <3> QED
      BY <2>4, <2>7, <3>1
  <2>8. \A v \in asked' : v = <<d, e>> => Translate(v[1], v[2])' = f
    BY <2>5
  <2>9. /\ \A v \in asked : Translate(v[1], v[2]) \in owned \cup {0}
        /\ \A v, w \in asked :
             v # w /\ Translate(v[1], v[2]) = Translate(w[1], w[2]) => Translate(v[1], v[2]) = 0
    BY <2>3 DEF OwnerInv, FrameInv
  <2>10. \A v \in asked' : Translate(v[1], v[2])' \in owned' \cup {0}
    BY <2>6, <2>7, <2>8, <2>9
  <2>11. \A v, w \in asked' :
          v # w /\ Translate(v[1], v[2])' = Translate(w[1], w[2])' => Translate(v[1], v[2])' = 0
    <3> SUFFICES ASSUME NEW v \in asked', NEW w \in asked', v # w,
                        Translate(v[1], v[2])' = Translate(w[1], w[2])'
                 PROVE  Translate(v[1], v[2])' = 0
      OBVIOUS
    <3>1. CASE v # <<d, e>> /\ w # <<d, e>>
      BY <2>7, <2>9, <3>1
    <3>2. CASE v = <<d, e>>
      BY <2>6, <2>7, <2>8, <2>9, <3>2
    <3>3. CASE w = <<d, e>>
      BY <2>6, <2>7, <2>8, <2>9, <3>3
    <3> QED
      BY <3>1, <3>2, <3>3
  <2> QED
    BY <2>4, <2>10, <2>11 DEF FrameInv
<1>5. CASE UNCHANGED vars
  <2>1. UNCHANGED <<stage, placement_address, blocks, owned, tables, tlb, asked>>
    BY <1>5 DEF vars, pageTables
  <2>2. \A c, i \in Entry : Translate(c, i)' = Translate(c, i)
    BY <2>1 DEF Translate
  <2>3. HeapInPlace' <=> HeapInPlace
    BY <2>1 DEF HeapInPlace
  <2>4. FrameInv'
    BY <2>1, <2>2, <2>3 DEF OwnerInv, FrameInv, FrameTypes
  <2> QED
    BY <2>1, <2>3, <2>4 DEF OwnerInv, HeapInv, FrameTypes, TableInv
<1> QED
  BY <1>1, <1>2, <1>3, <1>4, <1>5 DEF Next

\* Two blocks of the kernel heap never overlap and, while no page of a block has been
\* mapped elsewhere, the tables have two of the pages asked for in one frame only when
\* memory was full and the frame is 0.
THEOREM OneOwner == Spec => []Exclusive
<1>1. OwnerInv => Exclusive
  BY DEF OwnerInv, HeapInv, FrameInv, Exclusive
<1> QED
  BY <1>1, OwnerInit, OwnerNext, PTL DEF Spec

\* Every variable of the memory keeps its type.
THEOREM MemoryTypes == Spec => []TypeOK
<1>1. OwnerInv => TypeOK
  BY DEF OwnerInv, PoolInv, HeapInv, FrameTypes, TypeOK
<1> QED
  BY <1>1, OwnerInit, OwnerNext, PTL DEF Spec

\* Once the boot is over a call that leaves the heap in place moves one virtual page
\* at most.
LEMMA MovesOne ==
  ASSUME OwnerInv, [Next]_vars, stage = "up", HeapInPlace'
  PROVE  Cardinality({v \in Entry \X Entry :
                        Translate(v[1], v[2])' # Translate(v[1], v[2])}) <= 1
<1> DEFINE Moved == {v \in Entry \X Entry :
                       Translate(v[1], v[2])' # Translate(v[1], v[2])}
<1>1. \E x : Moved \subseteq {x}
  <2>1. CASE \E d, e \in Entry : alloc_page_entry(d, e)
    <3>1. PICK d \in Entry, e \in Entry : alloc_page_entry(d, e)
      BY <2>1
    <3>2. \A c, i \in Entry : <<c, i>> # <<d, e>> => Translate(c, i)' = Translate(c, i)
      BY <3>1, StaysOut, AllocFacts
    <3>3. Moved \subseteq {<<d, e>>}
      BY <3>2
    <3> QED
      BY <3>3
  <2>2. CASE UNCHANGED tables
    <3>1. Moved = {}
      BY <2>2 DEF Translate
    <3> QED
      BY <3>1
  <2>3. Next => \/ \E d, e \in Entry : alloc_page_entry(d, e)
                \/ UNCHANGED tables
    BY DEF Next, Boot, init_kheap, init_mem, initialise_paging, kmalloc, findfreePage,
           setPage, clearPage, pageTables
  <2> QED
    BY <2>1, <2>2, <2>3 DEF vars, pageTables
<1> HIDE DEF Moved
<1>2. PICK x : Moved \subseteq {x}
  BY <1>1
<1>3. IsFiniteSet({x}) /\ Cardinality({x}) = 1
  BY FS_Singleton
<1>4. Cardinality(Moved) <= 1
  BY <1>2, <1>3, FS_Subset
<1> QED
  BY <1>4 DEF Moved

\* The pages that are mapped stay where they are, whatever is mapped later, while the
\* heap is in place.
THEOREM MappingKept == Spec => MappingStable
<1>1. OwnerInv /\ [Next]_vars =>
        [stage = "up" /\ HeapInPlace' =>
           Cardinality({v \in Entry \X Entry :
                          Translate(v[1], v[2])' # Translate(v[1], v[2])}) <= 1]_vars
  BY MovesOne
<1> QED
  BY <1>1, OwnerInit, OwnerNext, PTL DEF Spec, MappingStable
=============================================================================
