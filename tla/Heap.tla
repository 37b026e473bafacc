-------------------------------- MODULE Heap --------------------------------
(***************************************************************************)
(* A program that calls the allocator of Malloc.tla: it keeps what it is   *)
(* given, numbers the words that malloc_usable_size() grants it, or leaves *)
(* calloc()'s zeros there, and gives the block back once.  live maps the   *)
(* chunk of each block in use to the call it is from.                      *)
(***************************************************************************)
EXTENDS Malloc, TLC

CONSTANTS
  MAX_BLOCKS,   \* bound on the blocks alive at once
  Requests,     \* the sizes asked for
  Resizes,      \* those asked of realloc()
  Alignments,   \* those asked of memalign()
  Elements,     \* the sequences of sizes for independent_calloc() and comalloc()
  Options,      \* pairs <<parameter, value>> for mallopt()
  FOREIGN       \* the words that somebody else takes with sbrk(), once

\* mallopt(M_MXFAST, 0) sends the next consolidation past the fastbins (malloc.c:2428).
ASSUME HeapOptions == <<"M_MXFAST", 0>> \notin Options

VARIABLES
  heap,      \* malloc_state, sbrk()'s curptr and the memory
  live,      \* the blocks in use
  foreign    \* where the words of somebody else's sbrk() are, or NIL

heapVars == <<heap, live, foreign>>

Data(i)        == [data |-> i]
Guard(what, v) == [guard |-> what, value |-> v]
Foreign        == [word |-> "foreign"]

Room(k) == Cardinality(DOMAIN live) + k <= MAX_BLOCKS

----------------------------------------------------------------------------
(* mem_alloc() and mem_free(): blocks between guards.                      *)

GUARDS == 4   \* words more than asked for

\* What the words of a block of mem_alloc() hold, from its first, when it has n in all.
guarded_word(p, n, i) ==
  CASE i = 0     -> Guard("length", n - GUARDS)
    [] i = 1     -> Guard("front", 0)
    [] i = n - 2 -> Guard("back", 0)
    [] i = n - 1 -> Guard("address", p)
    [] OTHER     -> Zero

\* The length that the block says it has, guards included.
guarded_size(h, p) == h.mem[chunk2mem(p)].value + GUARDS

\* The four tests of mem_free().
mem_free_checks(h, p) ==
  LET n == guarded_size(h, p)
  IN  \A i \in {0, 1, n - 2, n - 1} : h.mem[chunk2mem(p) + i] = guarded_word(p, n, i)

\* The block is wiped before it is freed.
mem_free(h, p) == fREe([h EXCEPT !.mem = cleared(h.mem, chunk2mem(p), guarded_size(h, p))], p)

----------------------------------------------------------------------------
(* The program.                                                            *)

\* The word i of a block that is the program's.
Content(p, call, i, n) ==
  CASE call = "calloc"    -> Zero
    [] call = "mem_alloc" -> guarded_word(p, n, i)
    [] OTHER              -> Data(i)

\* The words of the block in chunk p that the program uses.
Used(h, p, call) == IF call = "mem_alloc" THEN guarded_size(h, p) ELSE mUSABLe(h, p)

\* The program writes the words first .. n - 1 of its block in chunk p.
Written(h, p, call, first, n) ==
  [h EXCEPT !.mem = [a \in DOMAIN h.mem |->
                       IF a - chunk2mem(p) \in first .. n - 1
                         THEN Content(p, call, a - chunk2mem(p), n) ELSE h.mem[a]]]

\* It has asked for n words, and uses all that it is granted; calloc()'s words are left
\* as they came.
FirstWrite(h, p, call, n) ==
  CASE call = "calloc"    -> h
    [] call = "mem_alloc" -> Written(h, p, call, 0, n)
    [] OTHER              -> Written(h, p, call, 0, Max({n, mUSABLe(h, p)}))

Init_heap == heap = statics /\ live = <<>> /\ foreign = NIL

\* r: what the call returned for n words.
Answered(r, call, n) ==
  IF r.ret = NIL
    THEN heap' = r.h /\ UNCHANGED <<live, foreign>>
    ELSE /\ heap' = FirstWrite(r.h, r.ret, call, n)
         /\ live' = (r.ret :> call) @@ live
         /\ UNCHANGED foreign

Malloc(n)              == Room(1) /\ Answered(malloc(heap, n), "malloc", n)
Calloc(k, n)           == Room(1) /\ Answered(cALLOc(heap, k, n), "calloc", k * n)
Memalign(alignment, n) == Room(1) /\ Answered(mEMALIGn(heap, alignment, n), "malloc", n)
Valloc(n)              == Room(1) /\ Answered(vALLOc(heap, n), "malloc", n)
Pvalloc(n)             == Room(1) /\ Answered(pVALLOc(heap, n), "malloc", RoundUp(n, PAGESIZE))

\* The guards stand at the ends of what mem_alloc() asked for.
MemAlloc(n) == Room(1) /\ Answered(malloc(heap, n + GUARDS), "mem_alloc", n + GUARDS)

\* r: the chunks that the call returned for blocks of these sizes, and for the array.
AllAnswered(r, sizes, call) ==
  LET elem(p)   == \E i \in DOMAIN sizes : r.ret[i] = p
      owner(p)  == IF elem(p) THEN call ELSE "malloc"
      length(p) == IF elem(p) THEN sizes[CHOOSE i \in DOMAIN sizes : r.ret[i] = p] ELSE Len(sizes)
  IN  /\ heap' = FoldLeft(LAMBDA h, p : FirstWrite(h, p, owner(p), length(p)), r.h, r.ret)
      /\ live' = [p \in Range(r.ret) |-> owner(p)] @@ live
      /\ UNCHANGED foreign

\* independent_calloc(), whose sizes are all the same, and independent_comalloc(): the
\* array of addresses, when the caller has none, is a block too and comes last.
Independent(sizes, clear, array) ==
  /\ Room(Len(sizes) + (IF array THEN 1 ELSE 0))
  /\ clear => Cardinality(Range(sizes)) = 1
  /\ AllAnswered(iALLOc(heap, sizes, clear, array), sizes, IF clear THEN "calloc" ELSE "malloc")

Without(p) == [q \in DOMAIN live \ {p} |-> live[q]]

Free(p) ==
  /\ live[p] # "mem_alloc"
  /\ heap' = fREe(heap, p)
  /\ live' = Without(p)
  /\ UNCHANGED foreign

MemFree(p) ==
  /\ live[p] = "mem_alloc"
  /\ heap' = mem_free(heap, p)
  /\ live' = Without(p)
  /\ UNCHANGED foreign

\* r: what realloc() returned for the block in chunk p, which is to have n words.  The
\* program writes what it has got beyond its old words.
Moved(r, p, n) ==
  IF r.ret = NIL
    THEN heap' = r.h /\ UNCHANGED <<live, foreign>>
    ELSE /\ heap' = Written(r.h, r.ret, live[p], mUSABLe(heap, p), Max({n, mUSABLe(r.h, r.ret)}))
         /\ live' = (r.ret :> live[p]) @@ Without(p)
         /\ UNCHANGED foreign

Realloc(p, n) == live[p] # "mem_alloc" /\ Moved(rEALLOc(heap, p, n), p, n)

Mallopt(option) == heap' = mALLOPt(heap, option[1], option[2]) /\ UNCHANGED <<live, foreign>>

Trim == heap' = mTRIm(heap, 0).h /\ UNCHANGED <<live, foreign>>

ForeignSbrk ==
  LET r == sbrk(heap, FOREIGN)
  IN  /\ foreign = NIL /\ r.ret # NIL
      /\ foreign' = r.ret
      /\ heap' = [r.h EXCEPT !.mem = [a \in DOMAIN r.h.mem |->
                     IF a \in r.ret .. r.ret + FOREIGN - 1 THEN Foreign ELSE r.h.mem[a]]]
      /\ UNCHANGED live

Next_heap ==
  \/ \E n \in Requests : \/ Malloc(n) \/ Calloc(1, n) \/ MemAlloc(n) \/ Valloc(n) \/ Pvalloc(n)
                         \/ \E a \in Alignments : Memalign(a, n)
  \/ \E sizes \in Elements, clear, array \in BOOLEAN : Independent(sizes, clear, array)
  \/ \E p \in DOMAIN live : Free(p) \/ MemFree(p) \/ \E n \in Resizes : Realloc(p, n)
  \/ \E o \in Options : Mallopt(o)
  \/ Trim
  \/ ForeignSbrk

Spec == Init_heap /\ [][Next_heap]_heapVars

----------------------------------------------------------------------------
(* Properties.                                                             *)

\* What the code asserts of its heap when built with DEBUG holds between any two
\* calls, of every list and of every block in use (malloc.c:1057-1358).
HeapSound ==
  do_check_malloc_state(heap) /\ \A p \in DOMAIN live : do_check_inuse_chunk(heap, p)

\* A block holds what its owner wrote, in all the words he asked for, until he frees it,
\* realloc() or not; calloc()'s blocks are zero, the guards of mem_alloc() stand, and
\* what somebody else has from sbrk() is left alone (malloc.h:905-948, malloc.c:4095-4115).
BlocksKept ==
  /\ \A p \in DOMAIN live :
       LET n == Used(heap, p, live[p])
       IN  /\ \A i \in 0 .. n - 1 : heap.mem[chunk2mem(p) + i] = Content(p, live[p], i, n)
           /\ live[p] = "mem_alloc" => mem_free_checks(heap, p)
  /\ foreign # NIL => \A a \in foreign .. foreign + FOREIGN - 1 : heap.mem[a] = Foreign

\* Every word got from the system is in exactly one place: mallinfo()'s allocated space
\* is that of the blocks in use, but for the first word of an odd heap and what the gap
\* of somebody else's sbrk() costs (malloc.c:3180-3200).
NothingLost ==
  LET used  == FoldSet(LAMBDA p, n : n + chunksize(heap.mem, p), 0, DOMAIN live)
      front == RoundUp(HEAP_START, ALIGNMENT) - HEAP_START
  IN  heap.top # NIL => /\ mALLINFo(heap).uordblks >= used
                        /\ foreign = NIL => mALLINFo(heap).uordblks = used + front

\* malloc() refuses a size that would wrap around, and otherwise only when no free chunk
\* fits and the system has no pages left for it, unless somebody else's sbrk() has cut the
\* heap: then pages may be left (malloc.c:477-498, 1371-1791).
RefusedOnlyWhenFull ==
  foreign = NIL => \A n \in 0 .. SIZE_RANGE - 1 :
    LET r  == malloc(heap, n)
        nb == request2size(n)
    IN  r.ret = NIL =>
          \/ REQUEST_OUT_OF_RANGE(n) /\ r.h = heap
          \/ /\ fast_listed(r.h) = <<>>
             /\ \A i \in DOMAIN binned_all(r.h) : chunksize(r.h.mem, binned_all(r.h)[i]) < nb
             /\ topsize(r.h) < nb + MINSIZE
             /\ r.h.curptr + RoundUp(nb + r.h.top_pad + MINSIZE - topsize(r.h), PAGESIZE) > HEAP_END
=============================================================================
