------------------------------- MODULE Malloc -------------------------------
(***************************************************************************)
(* The allocator of n7OS' library (lib/malloc.c, built with the settings   *)
(* of include/malloc.h: no mmap, no lock) over sbrk() (kernel/sbrk.c).     *)
(*                                                                         *)
(* Sizes and addresses count 4-byte words: SIZE_SZ is 1, MALLOC_ALIGNMENT  *)
(* 2, MINSIZE 4.  A heap h is a record of what malloc_state and sbrk.c     *)
(* hold, and of the memory, word by word.  A doubly linked bin is the      *)
(* sequence of its chunks from first(b) to last(b), a fastbin the sequence *)
(* from its head.  An operator named after a function gives the heap after *)
(* it, or [h, ret] with the pointer it returns.                            *)
(***************************************************************************)
EXTENDS Integers, Sequences, SequencesExt, FiniteSetsExt

CONSTANTS
  HEAP_START,      \* mem_heap, the end of the kernel: on no page boundary
  HEAP_END,        \* mem_heap_end
  PAGESIZE,        \* malloc_getpagesize
  MIN_LARGE_SIZE,  \* 64 words
  MAX_FAST_SIZE,   \* 20 words
  DEFAULT_MXFAST,  \* 16 words
  NBINS,           \* 96
  THRESHOLD,       \* DEFAULT_TRIM_THRESHOLD
  SIZE_RANGE       \* 2^30 words: a size is less, and wraps

ASSUME MallocConstants ==
  /\ {HEAP_START, HEAP_END, PAGESIZE, MIN_LARGE_SIZE, MAX_FAST_SIZE,
      DEFAULT_MXFAST, NBINS, THRESHOLD, SIZE_RANGE} \subseteq Nat \ {0}
  /\ HEAP_START < HEAP_END /\ HEAP_END < SIZE_RANGE
  /\ DEFAULT_MXFAST <= MAX_FAST_SIZE

NIL     == -1    \* the null pointer; sbrk()'s failure; the top of a heap with none
SIZE_SZ == 1
ALIGNMENT == 2
MINSIZE == 4

----------------------------------------------------------------------------
(* Words of memory, and the header and footer of a chunk.                  *)

Junk         == [word |-> "junk"]
Header(s, b) == [size |-> s, pinuse |-> b]
Foot(s)      == [prev_size |-> s]

RoundUp(n, k)   == ((n + k - 1) \div k) * k
RoundDown(n, k) == (n \div k) * k

\* Such a request would wrap around zero when it is padded.
REQUEST_OUT_OF_RANGE(n) == n >= SIZE_RANGE - 2 * MINSIZE

\* A chunk lends its user the prev_size word of the next one.
request2size(n) ==
  IF n + SIZE_SZ < MINSIZE THEN MINSIZE ELSE RoundUp(n + SIZE_SZ, ALIGNMENT)

chunk2mem(p) == p + 2 * SIZE_SZ

chunksize(m, p)  == m[p + 1].size
prev_inuse(m, p) == m[p + 1].pinuse
next_chunk(m, p) == p + chunksize(m, p)
inuse(m, p)      == prev_inuse(m, next_chunk(m, p))

set_head(m, p, s)      == [m EXCEPT ![p + 1] = Header(s, TRUE)]
set_head_size(m, p, s) == [m EXCEPT ![p + 1].size = s]
set_foot(m, p, s)      == [m EXCEPT ![p + s] = Foot(s)]

set_inuse_bit_at_offset(m, p, s)   == [m EXCEPT ![p + s + 1].pinuse = TRUE]
clear_inuse_bit_at_offset(m, p, s) == [m EXCEPT ![p + s + 1].pinuse = FALSE]

\* What a chunk no user has holds behind its header is told apart by nobody.
forgotten(m, p, s) == [a \in DOMAIN m |-> IF a \in p + 2 .. p + s - 1 THEN Junk ELSE m[a]]

----------------------------------------------------------------------------
(* Bins: exact ones below MIN_LARGE_SIZE, then four for each power of two. *)

UNSORTED == 1

in_smallbin_range(s) == s < MIN_LARGE_SIZE
smallbin_index(s)    == s \div 2
NSMALLBINS           == smallbin_index(MIN_LARGE_SIZE)

largebin_index(s) ==
  LET x == s \div MIN_LARGE_SIZE
      m == Max({k \in 0 .. 15 : 2 ^ k <= x})
      i == NSMALLBINS + 4 * m + (((4 * s) \div (MIN_LARGE_SIZE * 2 ^ m)) % 4)
  IN  IF i >= NBINS THEN NBINS - 1 ELSE i

bin_index(s) == IF in_smallbin_range(s) THEN smallbin_index(s) ELSE largebin_index(s)

fastbin_index(s) == s \div 2 - 2
FastBins         == 0 .. fastbin_index(request2size(MAX_FAST_SIZE))

\* A chunk that is in no bin is left where it is.
unlink(h, p) == [h EXCEPT !.bins = [i \in DOMAIN h.bins |-> Remove(h.bins[i], p)]]

----------------------------------------------------------------------------
(* The heap: as C leaves its static variables, and once initialized.       *)

statics ==
  [mem |-> [a \in HEAP_START .. HEAP_END - 1 |-> Junk], curptr |-> HEAP_START,
   max_fast |-> 0, anychunks |-> FALSE, fastchunks |-> FALSE,
   fastbins |-> [i \in FastBins |-> <<>>], bins |-> [i \in 1 .. NBINS - 1 |-> <<>>],
   binmap |-> {}, top |-> NIL, last_remainder |-> NIL,
   top_pad |-> 0, trim_threshold |-> 0, sbrked_mem |-> 0]

\* The unsorted bin stands for a top of size 0: NIL.
malloc_init_state(h) ==
  [h EXCEPT !.max_fast = request2size(DEFAULT_MXFAST), !.trim_threshold = THRESHOLD]

topsize(h) == IF h.top = NIL THEN 0 ELSE chunksize(h.mem, h.top)

\* The chunk p takes s words of its surroundings as the new top.
new_top(h, p, s) ==
  [h EXCEPT !.top = p, !.mem = forgotten(set_head(h.mem, p, s), p, s)]

\* sbrk(): it only grows.
sbrk(h, diff) ==
  IF diff < 0 \/ h.curptr + diff > HEAP_END
    THEN [h |-> h, ret |-> NIL]
    ELSE [h |-> [h EXCEPT !.curptr = @ + diff], ret |-> h.curptr]

----------------------------------------------------------------------------
(* Giving chunks back.                                                     *)

\* Mutant: the chunk behind is not told that it has a free neighbour.
freed_Silent(h, p, s) ==
  [h EXCEPT !.bins[UNSORTED] = <<p>> \o @,
            !.mem = set_foot(forgotten(set_head(h.mem, p, s), p, s), p, s)]

\* The chunk p of size s becomes the newest free one; the chunk behind is told so.
freed(h, p, s) ==
  [h EXCEPT !.bins[UNSORTED] = <<p>> \o @,
            !.mem = clear_inuse_bit_at_offset(set_foot(forgotten(set_head(h.mem, p, s), p, s), p, s), p, s)]

\* Where the free space begins and ends that p becomes part of.
merge_start(h, p) == IF prev_inuse(h.mem, p) THEN p ELSE p - h.mem[p].prev_size

merge_end(h, p) ==
  LET next == next_chunk(h.mem, p)
  IN  IF next # h.top /\ inuse(h.mem, next) THEN next ELSE next_chunk(h.mem, next)

\* The chunk p is merged with the free chunks on its two sides, or with top.
coalesced(h, p) ==
  LET first == merge_start(h, p)
      next  == next_chunk(h.mem, p)
      s     == merge_end(h, p) - first
      h1    == unlink(unlink(h, first), next)
  IN  IF next = h.top THEN new_top(h1, first, s) ELSE freed(h1, first, s)

\* The chunks of the fastbins that max_fast allows, in the order of the walk.  It allows one
\* at least: after mallopt(M_MXFAST, 0) the walk would go past the array.
fast_chunks(h) == FlattenSeq([i \in 1 .. fastbin_index(h.max_fast) + 1 |-> h.fastbins[i - 1]])

\* Mutant: the chunks leave their fastbins and are merged with nothing.
malloc_consolidate_Drops(h) ==
  IF h.max_fast = 0 THEN malloc_init_state(h)
  ELSE [h EXCEPT !.fastchunks = FALSE, !.fastbins = [i \in FastBins |-> <<>>]]

\* The first call initializes.
malloc_consolidate(h) ==
  IF h.max_fast = 0 THEN malloc_init_state(h)
  ELSE FoldLeft(coalesced,
                [h EXCEPT !.fastchunks = FALSE, !.fastbins = [i \in FastBins |-> <<>>]],
                fast_chunks(h))

\* What lies beyond one page of top is offered to sbrk(), and taken back if it stays.
sYSTRIm(h, pad) ==
  LET extra == ((topsize(h) - pad - MINSIZE + PAGESIZE - 1) \div PAGESIZE - 1) * PAGESIZE
      after == sbrk(h, -extra).h
      released == h.curptr - after.curptr
  IN  IF extra <= 0 \/ h.curptr # h.top + topsize(h) \/ released = 0
        THEN [h |-> h, ret |-> 0]
        ELSE [h |-> [after EXCEPT !.sbrked_mem = @ - released,
                                  !.mem = set_head(h.mem, h.top, topsize(h) - released)],
              ret |-> 1]

consolidated(h) == IF h.fastchunks THEN malloc_consolidate(h) ELSE h

\* A top that has grown past the threshold is trimmed.
relieved(h) == IF topsize(h) >= h.trim_threshold THEN sYSTRIm(h, h.top_pad).h ELSE h

\* A small chunk goes to its fastbin as it is, any other is merged; p is the chunk, not mem.
fREe(h, p) ==
  LET s == chunksize(h.mem, p)
  IN  CASE s <= h.max_fast ->
             [h EXCEPT !.anychunks = TRUE, !.fastchunks = TRUE,
                       !.fastbins[fastbin_index(s)] = <<p>> \o @,
                       !.mem = forgotten(h.mem, p, s + 1)]
        [] s > h.max_fast /\ merge_end(h, p) - merge_start(h, p) < THRESHOLD \div 2 ->
             coalesced([h EXCEPT !.anychunks = TRUE], p)
        [] OTHER -> relieved(consolidated(coalesced([h EXCEPT !.anychunks = TRUE], p)))

----------------------------------------------------------------------------
(* malloc().                                                               *)

Refused(h)     == [h |-> h, ret |-> NIL]
Granted(h, p)  == [h |-> h, ret |-> p]

\* The first nb words of top.
top_split(h, nb) ==
  Granted(new_top([h EXCEPT !.mem = set_head(h.mem, h.top, nb)], h.top + nb, topsize(h) - nb), h.top)

\* The unusable marks that keep chunks of one region from merging into the next.
fenceposts(h, top, s) ==
  LET at == top + RoundDown(s - 3 * SIZE_SZ, ALIGNMENT)
      h1 == [h EXCEPT !.mem = [set_head(h.mem, top, at - top) EXCEPT
                                 ![at + 1] = Header(SIZE_SZ, TRUE),
                                 ![at + 2] = Header(SIZE_SZ, TRUE)]]
  IN  IF at - top < MINSIZE THEN h1
      ELSE [fREe([h1 EXCEPT !.trim_threshold = HEAP_END + 1], top)
              EXCEPT !.trim_threshold = h.trim_threshold]

\* more: what sbrk() answered for want words beyond brk + size, asked to end on a page.
region_from(h, brk, size, want, more) ==
  LET old == topsize(h)
      top == RoundUp(brk, ALIGNMENT)
      all == size + (IF more.ret = NIL THEN 0 ELSE want)
      gap == IF old = 0 THEN 0 ELSE brk - (h.top + old)
      new == [new_top(more.h, top, brk + all - top) EXCEPT !.sbrked_mem = @ + gap + all]
  IN  IF old = 0 THEN new ELSE fenceposts(new, h.top, old)

\* The first region, or one that somebody's sbrk() has cut off the last: from brk, size words.
new_region(h, brk, size) ==
  LET front == RoundUp(brk, ALIGNMENT) - brk
      want  == RoundUp(brk + size + front + topsize(h), PAGESIZE) - (brk + size)
  IN  region_from(h, brk, size, want, sbrk(h, want))

\* core: what sbrk() answered for size words, which either lengthen top or make a new one.
top_from(h, size, core) ==
  IF core.ret = NIL THEN h
  ELSE IF h.top # NIL /\ core.ret = h.top + topsize(h)
    THEN [new_top(core.h, h.top, topsize(h) + size) EXCEPT !.sbrked_mem = @ + size]
  ELSE new_region(core.h, core.ret, size)

\* Enough pages for nb words.
more_core(h, nb) ==
  LET size == RoundUp(nb + h.top_pad + MINSIZE - topsize(h), PAGESIZE)
  IN  top_from(h, size, sbrk(h, size))

from_top(h, nb) == IF topsize(h) >= nb + MINSIZE THEN top_split(h, nb) ELSE Refused(h)

RECURSIVE mALLOc(_, _)

\* Mutant: the fastbins are left full.
sYSMALLOc_Hoards(h, nb) == from_top(more_core(h, nb), nb)

\* nb: the size of the chunk.  Fastbins are emptied before the system is asked for more.
sYSMALLOc(h, nb) ==
  IF h.fastchunks THEN mALLOc(malloc_consolidate(h), nb) ELSE from_top(more_core(h, nb), nb)

use_top(h, nb) ==
  IF topsize(h) >= nb + MINSIZE THEN top_split(h, nb) ELSE sYSMALLOc(h, nb)

\* The free chunk p is taken out of its bin: whole, if the rest were too small for a chunk.
take(h, p, nb) ==
  LET s == chunksize(h.mem, p)
      m == set_head(set_head(h.mem, p, nb), p + nb, s - nb)
  IN  IF s - nb < MINSIZE
        THEN Granted([unlink(h, p) EXCEPT !.mem = set_inuse_bit_at_offset(h.mem, p, s)], p)
        ELSE Granted([unlink(h, p) EXCEPT !.bins[UNSORTED] = <<p + nb>>,
                                          !.mem = set_foot(m, p + nb, s - nb)], p)

\* r: a chunk just taken for a small request, of which the rest is worth remembering.
with_remainder(r, nb) ==
  IF in_smallbin_range(nb) /\ r.h.bins[UNSORTED] # <<>>
    THEN [r EXCEPT !.h.last_remainder = r.ret + nb] ELSE r

\* The first bin from i on that the map marks; marks of empty bins are wiped on the way.
RECURSIVE from_marked(_, _, _)
from_marked(h, nb, i) ==
  LET marked == {j \in h.binmap : j >= i}
      b      == Min(marked)
  IN  IF marked = {} THEN use_top(h, nb)
      ELSE IF h.bins[b] = <<>> THEN from_marked([h EXCEPT !.binmap = @ \ {b}], nb, b + 1)
      ELSE with_remainder(take(h, Last(h.bins[b]), nb), nb)

\* A large chunk may also fit in the bin of its own size: the smallest there that does.
from_bins(h, nb) ==
  LET bin == h.bins[bin_index(nb)]
      fit == {i \in DOMAIN bin : chunksize(h.mem, bin[i]) >= nb}
  IN  IF ~in_smallbin_range(nb) /\ fit # {} THEN take(h, bin[Max(fit)], nb)
      ELSE from_marked(h, nb, bin_index(nb) + 1)

\* Where a chunk of size s goes in a bin: large ones are kept in order of size.
place(h, bin, s) ==
  LET larger == {i \in DOMAIN bin : chunksize(h.mem, bin[i]) > s}
  IN  IF in_smallbin_range(s) \/ bin = <<>> THEN 1
      ELSE IF s <= chunksize(h.mem, Last(bin)) THEN Len(bin) + 1
      ELSE Cardinality(larger) + 1

binned(h, p) ==
  LET i == bin_index(chunksize(h.mem, p))
      u == unlink(h, p)
  IN  [u EXCEPT !.binmap = @ \cup {i},
                !.bins[i] = InsertAt(u.bins[i], place(h, u.bins[i], chunksize(h.mem, p)), p)]

\* The chunks freed since the last call, oldest first, are taken or put in their bins.
RECURSIVE from_unsorted(_, _)
from_unsorted(h, nb) ==
  IF h.bins[UNSORTED] = <<>> THEN from_bins(h, nb)
  ELSE LET victim == Last(h.bins[UNSORTED])
           s      == chunksize(h.mem, victim)
       IN  IF /\ in_smallbin_range(nb) /\ Len(h.bins[UNSORTED]) = 1
              /\ victim = h.last_remainder /\ s > nb + MINSIZE
             THEN take([h EXCEPT !.last_remainder = victim + nb], victim, nb)
           ELSE IF s = nb THEN take(h, victim, nb)
           ELSE from_unsorted(binned(h, victim), nb)

\* Past the exact fits: what was freed, larger chunks, top, the system.
search(h, nb) ==
  from_unsorted(IF ~in_smallbin_range(nb) /\ h.fastchunks THEN malloc_consolidate(h) ELSE h, nb)

\* malloc() of a chunk of nb words; the chunk, not mem.
mALLOc(h, nb) ==
  LET f == fastbin_index(nb)
  IN  IF h.max_fast = 0 THEN use_top(malloc_init_state(h), nb)
      ELSE IF ~h.anychunks THEN use_top(h, nb)
      ELSE IF nb <= h.max_fast /\ h.fastbins[f] # <<>>
             THEN Granted([h EXCEPT !.fastbins[f] = Tail(@)], h.fastbins[f][1])
      ELSE IF in_smallbin_range(nb) /\ h.bins[smallbin_index(nb)] # <<>>
             THEN take(h, Last(h.bins[smallbin_index(nb)]), nb)
      ELSE search(h, nb)

----------------------------------------------------------------------------
(* The other calls.  Each takes the number of words asked for.             *)

malloc(h, n) ==
  IF REQUEST_OUT_OF_RANGE(n) THEN Refused(h) ELSE mALLOc(h, request2size(n))

\* How many words of n the copy and the clearing unrolled by hand reach.
unrolled(n) == IF n > 9 THEN n ELSE Max({k \in {3, 5, 7, 9} : k <= n})

\* Mutant: the word shared with the next chunk stays behind.
copied_Short(m, from, to, n) ==
  [a \in DOMAIN m |-> IF a \in to .. to + n - 2 THEN m[a - to + from] ELSE m[a]]

copied(m, from, to, n) ==
  [a \in DOMAIN m |-> IF a \in to .. to + n - 1 THEN m[a - to + from] ELSE m[a]]

\* The chunk p keeps nb words, and the rest is freed if it is large enough for a chunk.
shrunk(h, p, s, nb) ==
  IF s - nb < MINSIZE
    THEN [h EXCEPT !.mem = set_inuse_bit_at_offset(set_head_size(h.mem, p, s), p, s)]
    ELSE fREe([h EXCEPT !.mem = set_inuse_bit_at_offset(
                                  set_head(set_head_size(h.mem, p, nb), p + nb, s - nb),
                                  p + nb, s - nb)], p + nb)

\* r: the new chunk.  Copy and free; or take r with p, if it is the chunk behind it.
moved(r, p, nb) ==
  LET old == chunksize(r.h.mem, p)
      m   == copied(r.h.mem, chunk2mem(p), chunk2mem(r.ret), unrolled(old - SIZE_SZ))
  IN  IF r.ret = NIL THEN r
      ELSE IF r.ret = p + old
             THEN Granted(shrunk(r.h, p, old + chunksize(r.h.mem, r.ret), nb), p)
      ELSE Granted(fREe([r.h EXCEPT !.mem = m], p), r.ret)

\* The chunk p of the s words it makes with top keeps nb.
top_after(h, p, nb, s) ==
  new_top([h EXCEPT !.mem = set_head_size(h.mem, p, nb)], p + nb, s - nb)

rEALLOc(h, p, n) ==
  LET nb   == request2size(n)
      old  == chunksize(h.mem, p)
      next == p + old
      both == old + chunksize(h.mem, next)
  IN  IF REQUEST_OUT_OF_RANGE(n) THEN Refused(h)
      ELSE IF old >= nb THEN Granted(shrunk(h, p, old, nb), p)
      ELSE IF next = h.top /\ both >= nb + MINSIZE
             THEN Granted(top_after(h, p, nb, both), p)
      ELSE IF next # h.top /\ ~inuse(h.mem, next) /\ both >= nb
             THEN Granted(shrunk(unlink(h, next), p, both, nb), p)
      ELSE moved(mALLOc(h, nb), p, nb)

PowerAbove(k) == Min({2 ^ e : e \in 0 .. 15} \cap {j \in 1 .. 2 * k : j >= k})

\* Where in the chunk p an aligned block can start, with room for a chunk before it.
aligned_chunk(p, alignment) ==
  LET at == RoundUp(chunk2mem(p), alignment) - 2 * SIZE_SZ
  IN  IF at - p < MINSIZE THEN at + alignment ELSE at

\* What the chunk p has beyond nb words is freed, when it is more than a chunk.
trimmed(h, p, nb) ==
  LET s == chunksize(h.mem, p)
  IN  IF s > nb + MINSIZE
        THEN fREe([h EXCEPT !.mem = set_head_size(set_head(h.mem, p + nb, s - nb), p, nb)], p + nb)
        ELSE h

\* r: a chunk with room for the alignment, of which both ends are given back.
aligned(r, k, nb) ==
  LET p  == r.ret
      q  == aligned_chunk(p, k)
      s  == chunksize(r.h.mem, p) - (q - p)
      h1 == [r.h EXCEPT !.mem = set_head_size(
                                  set_inuse_bit_at_offset(set_head(r.h.mem, q, s), q, s), p, q - p)]
  IN  IF p = NIL THEN r
      ELSE IF chunk2mem(p) % k = 0 THEN Granted(trimmed(r.h, p, nb), p)
      ELSE Granted(trimmed(fREe(h1, p), q, nb), q)

mEMALIGn(h, alignment, n) ==
  LET k  == PowerAbove(IF alignment < MINSIZE THEN MINSIZE ELSE alignment)
      nb == request2size(n)
  IN  IF alignment <= ALIGNMENT THEN malloc(h, n)
      ELSE IF REQUEST_OUT_OF_RANGE(n) THEN Refused(h)
      ELSE aligned(malloc(h, (nb + k + MINSIZE) % SIZE_RANGE), k, nb)

initialized(h) == IF h.max_fast = 0 THEN malloc_consolidate(h) ELSE h

vALLOc(h, n)  == mEMALIGn(initialized(h), PAGESIZE, n)
pVALLOc(h, n) == mEMALIGn(initialized(h), PAGESIZE, RoundUp(n, PAGESIZE) % SIZE_RANGE)

Zero == [word |-> "zero"]

cleared(m, mem, n) == [a \in DOMAIN m |-> IF a \in mem .. mem + n - 1 THEN Zero ELSE m[a]]

zeroed(r) ==
  LET n == unrolled(chunksize(r.h.mem, r.ret) - SIZE_SZ)
  IN  IF r.ret = NIL THEN r ELSE [r EXCEPT !.h.mem = cleared(r.h.mem, chunk2mem(r.ret), n)]

\* The product wraps unseen.
cALLOc(h, n_elements, elem_size) == zeroed(malloc(h, (n_elements * elem_size) % SIZE_RANGE))

Total(s) == FoldLeft(+, 0, s)

\* r: one chunk, cut into elements of these sizes and then the array of their addresses,
\* when the caller has none.  The last of all takes what is left over.  ret: the chunks.
elements(r, size, clear, array) ==
  LET n     == Len(size)
      tail  == IF array THEN request2size(n) ELSE 0
      all   == chunksize(r.h.mem, r.ret)
      start == [i \in 1 .. n + 1 |-> r.ret + Total(SubSeq(size, 1, i - 1))]
      last  == IF array THEN start[n + 1] ELSE r.ret + all
      m1    == IF clear THEN cleared(r.h.mem, chunk2mem(r.ret), all - SIZE_SZ - tail) ELSE r.h.mem
      m2    == IF array THEN set_head(m1, last, r.ret + all - last) ELSE m1
      heads == FoldLeft(LAMBDA m, i : set_head(m, start[i], IF i < n THEN size[i] ELSE last - start[n]),
                        m2, [i \in 1 .. n |-> i])
  IN  IF r.ret = NIL THEN [h |-> r.h, ret |-> <<>>]
      ELSE IF n = 0 THEN [h |-> r.h, ret |-> <<r.ret>>]
      ELSE [h |-> [r.h EXCEPT !.mem = heads],
            ret |-> SubSeq(start, 1, n) \o (IF array THEN <<last>> ELSE <<>>)]

\* The sizes are padded unchecked; their sum, less the padding, is what is asked of malloc().
iALLOc(h, sizes, clear, array) ==
  LET size == [i \in DOMAIN sizes |-> request2size(sizes[i])]
      all  == (Total(size) + (IF array THEN request2size(Len(sizes)) ELSE 0)) % SIZE_RANGE
      h1   == initialized(h)
  IN  IF sizes = <<>> /\ ~array THEN [h |-> h1, ret |-> <<>>]
      ELSE elements(IF REQUEST_OUT_OF_RANGE(all - ALIGNMENT) THEN Refused(h1) ELSE mALLOc(h1, all),
                    size, clear, array)

mTRIm(h, pad) == sYSTRIm(malloc_consolidate(h), pad)

mALLOPt(h, param, value) ==
  LET h1 == malloc_consolidate(h)
  IN  CASE param = "M_MXFAST" /\ value <= MAX_FAST_SIZE ->
             [h1 EXCEPT !.max_fast = IF value = 0 THEN 2 ELSE request2size(value)]
        [] param = "M_TRIM_THRESHOLD" -> [h1 EXCEPT !.trim_threshold = value]
        [] param = "M_TOP_PAD"        -> [h1 EXCEPT !.top_pad = value]
        [] OTHER                      -> h1

mUSABLe(h, p) == IF inuse(h.mem, p) THEN chunksize(h.mem, p) - SIZE_SZ ELSE 0

SizeOf(m, chunks) == FoldLeft(LAMBDA n, p : n + chunksize(m, p), 0, chunks)

\* The chunks that are in a list.
fast_listed(h) == FlattenSeq([i \in 1 .. Cardinality(FastBins) |-> h.fastbins[i - 1]])
binned_all(h)  == FlattenSeq([i \in 1 .. NBINS - 1 |-> h.bins[i]])

mALLINFo(h) ==
  LET avail == topsize(h) + SizeOf(h.mem, fast_listed(h)) + SizeOf(h.mem, binned_all(h))
  IN  [arena |-> h.sbrked_mem, fordblks |-> avail, uordblks |-> h.sbrked_mem - avail,
       smblks |-> Len(fast_listed(h)), ordblks |-> Len(binned_all(h)) + 1]

----------------------------------------------------------------------------
(* What the code asserts of the heap when it is built with DEBUG.          *)

do_check_chunk(h, p) ==
  LET max_address == h.top + topsize(h)
  IN  IF p = h.top THEN topsize(h) >= MINSIZE /\ prev_inuse(h.mem, p)
      ELSE p >= max_address - h.sbrked_mem /\ next_chunk(h.mem, p) <= h.top

\* A free chunk says so at both ends, has no free neighbour, and the links of its
\* neighbours in a bin lead to it: it is in one, once.  Markers are of one size.
do_check_free_chunk(h, p) ==
  LET next == next_chunk(h.mem, p)
      s    == chunksize(h.mem, p)
  IN  /\ do_check_chunk(h, p)
      /\ ~inuse(h.mem, p)
      /\ s < MINSIZE => s = SIZE_SZ
      /\ s >= MINSIZE => /\ s % ALIGNMENT = 0
                         /\ chunk2mem(p) % ALIGNMENT = 0
                         /\ h.mem[next] = Foot(s)
                         /\ prev_inuse(h.mem, p)
                         /\ next = h.top \/ inuse(h.mem, next)
                         /\ Len(SelectSeq(binned_all(h), LAMBDA q : q = p)) = 1

do_check_inuse_chunk(h, p) ==
  LET next == next_chunk(h.mem, p)
      prev == p - h.mem[p].prev_size
  IN  /\ do_check_chunk(h, p)
      /\ inuse(h.mem, p)
      /\ ~prev_inuse(h.mem, p) => next_chunk(h.mem, prev) = p /\ do_check_free_chunk(h, prev)
      /\ IF next = h.top THEN prev_inuse(h.mem, next) /\ topsize(h) >= MINSIZE
         ELSE ~inuse(h.mem, next) => do_check_free_chunk(h, next)

do_check_remalloced_chunk(h, p, nb) ==
  /\ do_check_inuse_chunk(h, p)
  /\ chunksize(h.mem, p) % ALIGNMENT = 0
  /\ chunk2mem(p) % ALIGNMENT = 0
  /\ chunksize(h.mem, p) >= nb
  /\ chunksize(h.mem, p) < nb + MINSIZE

check_fastbins(h) ==
  /\ h.max_fast <= request2size(MAX_FAST_SIZE)
  /\ \A i \in FastBins : \A j \in DOMAIN h.fastbins[i] :
       /\ i <= fastbin_index(h.max_fast)
       /\ h.fastchunks
       /\ do_check_inuse_chunk(h, h.fastbins[i][j])
       /\ fastbin_index(chunksize(h.mem, h.fastbins[i][j])) = i

\* The map marks every bin that is not empty, and large bins are sorted.
check_bins(h) ==
  \A i \in DOMAIN h.bins : \A j \in DOMAIN h.bins[i] :
    LET p == h.bins[i][j]
    IN  /\ do_check_free_chunk(h, p)
        /\ i # UNSORTED => i \in h.binmap /\ bin_index(chunksize(h.mem, p)) = i
        /\ i # UNSORTED /\ ~in_smallbin_range(chunksize(h.mem, p)) /\ j > 1 =>
             chunksize(h.mem, h.bins[i][j - 1]) >= chunksize(h.mem, p)

do_check_malloc_state(h) ==
  h.top # NIL => check_fastbins(h) /\ check_bins(h) /\ do_check_chunk(h, h.top)
=============================================================================
