----------------------------- MODULE KernelHeap -----------------------------
(***************************************************************************)
(* The kernel heap of kernel/mm/heap.cpp: kmalloc, kfree, the block list,  *)
(* the segregated free lists and the growth and shrinking of the mapped    *)
(* range.  heap is one record:                                             *)
(*                                                                         *)
(*   blk    the linked block headers, a function from header addresses to  *)
(*          [size, req, free, listed, next, prev, fnext, fprev]            *)
(*   bins   heap_free_bins, the head of each free list                     *)
(*   start, tail, top    heap_start, heap_tail, heap_next_virtual          *)
(*   mapped, used        heap_mapped_pages, heap_current_used_bytes        *)
(*                                                                         *)
(* Address 0 is the null pointer; the heap starts at HeapBase.  Sizes are  *)
(* scaled: a header is HeapHeader units and block sizes are multiples of   *)
(* HeapAlign.  heapLive is history: what kmalloc returned and nobody freed *)
(* yet, with the size asked for.  heapFrames counts the free page frames,  *)
(* which other users of the page allocator take and give back.             *)
(***************************************************************************)
EXTENDS Integers, FiniteSets, Sequences, TLC

CONSTANTS HeapHeader, HeapAlign, HeapPage,
          HeapBinLimits,     \* the upper sizes of all bins but the last
          HeapGrowPages,     \* pages a region has at least
          HeapPages,         \* VM_KERNEL_HEAP_LIMIT - VM_KERNEL_HEAP_BASE, in pages
          HeapMachine,       \* page frames of the machine
          HeapSizes,         \* sizes callers ask for
          HeapWord           \* 2^32, scaled: block sizes are uint32_t

ASSUME HeapAssumption ==
    /\ {HeapHeader, HeapAlign, HeapPage, HeapGrowPages} \subseteq Nat \ {0}
    /\ HeapPage % HeapAlign = 0 /\ HeapHeader % HeapAlign = 0

VARIABLES heap, heapLive, heapFrames

heapVars == <<heap, heapLive, heapFrames>>

HeapBase == HeapPage
HeapLimit == HeapBase + HeapPages * HeapPage
HeapUp(v, a) == ((v + a - 1) \div a) * a
HeapBins == 1 .. Len(HeapBinLimits) + 1

BlockValid(h, b) ==
    /\ b \in DOMAIN h.blk
    /\ b + HeapHeader <= h.top
    /\ h.blk[b].size >= HeapHeader
    /\ b + h.blk[b].size <= h.top

BinIndex(size) ==
    CHOOSE i \in HeapBins : /\ \A j \in 1 .. i - 1 : size > HeapBinLimits[j]
                            /\ i <= Len(HeapBinLimits) => size <= HeapBinLimits[i]

NewBlock(size, next, prev) ==
    [size |-> size, req |-> 0, free |-> TRUE, listed |-> FALSE,
     next |-> next, prev |-> prev, fnext |-> 0, fprev |-> 0]

(* A store through a pointer that the code has tested for null.            *)
SetField(h, b, f, v) == IF b = 0 THEN h ELSE [h EXCEPT !.blk[b][f] = v]

RemoveFree(h, b) ==
    IF ~BlockValid(h, b) \/ ~h.blk[b].listed THEN h
    ELSE LET r == h.blk[b]
             bin == BinIndex(r.size)
             head == IF r.fprev = 0 /\ h.bins[bin] = b
                     THEN [h EXCEPT !.bins[bin] = r.fnext]
                     ELSE SetField(h, r.fprev, "fnext", r.fnext)
             link == SetField(head, r.fnext, "fprev", r.fprev)
         IN  [link EXCEPT !.blk[b].fnext = 0, !.blk[b].fprev = 0, !.blk[b].listed = FALSE]

InsertFree(h, b) ==
    IF ~BlockValid(h, b) \/ ~h.blk[b].free \/ h.blk[b].listed THEN h
    ELSE LET bin == BinIndex(h.blk[b].size)
             head == h.bins[bin]
             link == SetField(h, head, "fprev", b)
         IN  [link EXCEPT !.blk[b].fprev = 0, !.blk[b].fnext = head,
                          !.blk[b].listed = TRUE, !.bins[bin] = b]

RECURSIVE FirstFit(_, _, _, _)
FirstFit(h, total, bin, b) ==
    CASE b # 0 /\ BlockValid(h, b) /\ h.blk[b].free /\ h.blk[b].size >= total -> b
      [] b # 0 /\ ~(BlockValid(h, b) /\ h.blk[b].free /\ h.blk[b].size >= total) ->
           FirstFit(h, total, bin, h.blk[b].fnext)
      [] b = 0 -> IF bin + 1 \in HeapBins THEN FirstFit(h, total, bin + 1, h.bins[bin + 1]) ELSE 0

FindFree(h, total) == FirstFit(h, total, BinIndex(total), h.bins[BinIndex(total)])

(* split_block: the remainder must hold a header and one aligned unit.     *)
Split(h, b, total) ==
    LET r == h.blk[b]
        n == b + total
        gone == RemoveFree(h, b)
        made == [gone EXCEPT !.blk = (n :> NewBlock(r.size - total, r.next, b)) @@ gone.blk]
        linked == SetField(made, r.next, "prev", n)
    IN  IF r.size < total + HeapHeader + HeapAlign THEN h
        ELSE InsertFree([linked EXCEPT !.blk[b].size = total, !.blk[b].next = n,
                                       !.tail = IF @ = b THEN n ELSE @], n)

Adjacent(h, l, r) ==
    BlockValid(h, l) /\ BlockValid(h, r) /\ l + h.blk[l].size = r

(* merge_with_next.  The swallowed header is dropped from blk: the memory  *)
(* keeps its bytes, but nothing links to it any more.                      *)
MergeUnchecked(h, b) ==
    LET n == h.blk[b].next
        out == RemoveFree(RemoveFree(h, b), n)
        after == out.blk[n].next
        linked == SetField(out, after, "prev", b)
        grown == [linked EXCEPT !.blk[b].size = @ + out.blk[n].size, !.blk[b].req = 0,
                                !.blk[b].next = after, !.tail = IF @ = n THEN b ELSE @]
        dropped == [grown EXCEPT !.blk = [x \in DOMAIN grown.blk \ {n} |-> grown.blk[x]]]
    IN  IF n = 0 \/ ~h.blk[b].free \/ ~Adjacent(h, b, n) THEN h ELSE InsertFree(dropped, b)

Merge(h, b) ==
    LET n == h.blk[b].next
        out == RemoveFree(RemoveFree(h, b), n)
        after == out.blk[n].next
        linked == SetField(out, after, "prev", b)
        grown == [linked EXCEPT !.blk[b].size = @ + out.blk[n].size, !.blk[b].req = 0,
                                !.blk[b].next = after, !.tail = IF @ = n THEN b ELSE @]
        dropped == [grown EXCEPT !.blk = [x \in DOMAIN grown.blk \ {n} |-> grown.blk[x]]]
    IN  IF n = 0 \/ ~h.blk[b].free \/ ~h.blk[n].free \/ ~Adjacent(h, b, n) THEN h
        ELSE InsertFree(dropped, b)

CoalesceAround(h, b) ==
    LET listed == InsertFree(h, b)
        p == h.blk[b].prev
    IN  IF p # 0 /\ h.blk[p].free /\ Adjacent(listed, p, b)
        THEN Merge(Merge(listed, p), p)
        ELSE Merge(listed, b)

(* append_region: vm_alloc_map_range maps page by page.  `can` is how many *)
(* pages can be mapped before a frame or a page table is missing; on a     *)
(* failure it gives back what it mapped, and the heap is as before.        *)
AppendRegion(h, pages) ==
    LET b == h.top
        made == [h EXCEPT !.blk = (b :> NewBlock(pages * HeapPage, 0, h.tail)) @@ @,
                          !.top = @ + pages * HeapPage, !.mapped = @ + pages,
                          !.start = IF @ = 0 THEN b ELSE @, !.tail = b]
    IN  InsertFree(SetField(made, h.tail, "next", b), b)

CanAppend(h, pages, can) == h.top + pages * HeapPage <= HeapLimit /\ can >= pages

(* shrink_heap_tail, the whole loop.  Returns the heap; the pages released *)
(* are the difference in `mapped`.                                         *)
RECURSIVE ShrinkTail(_)
ShrinkTail(h) ==
    LET b == h.tail
        end == b + h.blk[b].size
        whole == b % HeapPage = 0 /\ h.blk[b].size >= HeapPage
        from == IF whole THEN b ELSE HeapUp(b + HeapHeader, HeapPage)
        cut == [RemoveFree(h, b) EXCEPT !.mapped = @ - (end - from) \div HeapPage, !.top = from]
        prev == h.blk[b].prev
        without == [x \in DOMAIN cut.blk \ {b} |-> cut.blk[x]]
    IN  IF b = 0 \/ ~h.blk[b].free \/ end # h.top \/ from >= end THEN h
        ELSE IF whole
             THEN ShrinkTail(SetField([cut EXCEPT !.blk = without, !.tail = prev,
                                                  !.start = IF prev = 0 THEN 0 ELSE @],
                                      prev, "next", 0))
             ELSE InsertFree([cut EXCEPT !.blk[b].size = from - b, !.blk[b].next = 0], b)

(* heap_coalesce: one pass over the whole list.                            *)
RECURSIVE CoalesceFrom(_, _)
CoalesceFrom(h, b) ==
    IF b = 0 \/ h.blk[b].next = 0 THEN h
    ELSE IF h.blk[b].free /\ h.blk[h.blk[b].next].free /\ Adjacent(h, b, h.blk[b].next)
         THEN CoalesceFrom(Merge(h, b), b)
         ELSE CoalesceFrom(h, h.blk[b].next)

(***************************************************************************)
(* Operations.                                                             *)
(***************************************************************************)
EmptyHeap == [blk |-> <<>>, bins |-> [i \in HeapBins |-> 0], start |-> 0, tail |-> 0,
              top |-> HeapBase, mapped |-> 0, used |-> 0]

PagesFor(bytes) == ((bytes + HeapPage - 1) % HeapWord) \div HeapPage

HeapStart ==
    /\ heapLive = <<>>
    /\ \E can \in {0, HeapMachine} :
          heap = IF CanAppend(EmptyHeap, HeapGrowPages, can)
                 THEN AppendRegion(EmptyHeap, HeapGrowPages) ELSE EmptyHeap
    /\ heapFrames = HeapMachine - heap.mapped

MarkAllocated(h, b, size) ==
    [h EXCEPT !.blk[b].free = FALSE, !.blk[b].req = size, !.used = @ + size]

MarkBlockFree(h, b) ==
    LET req == h.blk[b].req
    IN  [h EXCEPT !.used = IF @ >= req THEN @ - req ELSE 0,
                  !.blk[b].free = TRUE, !.blk[b].req = 0]

TakeBlock(h, b, total, size) ==
    MarkAllocated(RemoveFree(Split(h, b, total), b), b, size)

(* kmalloc.  `injected` is KERNEL_FAULT_POINT_HEAP, `can` as above.        *)
Kmalloc(size, injected, can) ==
    LET total == HeapUp(size + HeapHeader, HeapAlign)
        found == FindFree(heap, total)
        grow == PagesFor(IF total < HeapGrowPages * HeapPage THEN HeapGrowPages * HeapPage
                         ELSE total)
        next == CASE size = 0 \/ injected -> heap
                  [] size > HeapWord - 1 - HeapHeader \/ total > HeapWord - 1 -> heap
                  [] OTHER -> IF found # 0 THEN TakeBlock(heap, found, total, size)
                              ELSE IF CanAppend(heap, grow, can)
                              THEN TakeBlock(AppendRegion(heap, grow), heap.top, total, size)
                              ELSE heap
        got == IF next = heap THEN {}
               ELSE {IF found # 0 THEN found ELSE heap.top}
    IN  /\ can <= heapFrames
        /\ heap' = next
        /\ heapLive' = [b \in DOMAIN heapLive \cup got |->
                           IF b \in got THEN size ELSE heapLive[b]]
        /\ heapFrames' = heapFrames - (next.mapped - heap.mapped)

(* kfree of the block whose header is at b.                                *)
Kfree(b) ==
    LET next == IF ~BlockValid(heap, b) \/ heap.blk[b].free THEN heap
                ELSE ShrinkTail(CoalesceAround(MarkBlockFree(heap, b), b))
    IN  /\ b \in DOMAIN heapLive
        /\ heap' = next
        /\ heapLive' = [x \in DOMAIN heapLive \ {b} |-> heapLive[x]]
        /\ heapFrames' = heapFrames + (heap.mapped - next.mapped)

HeapCoalesce ==
    /\ heap' = CoalesceFrom(heap, heap.start)
    /\ UNCHANGED <<heapLive, heapFrames>>

(* Another part of the kernel takes a frame or gives one back.             *)
OtherFrames ==
    /\ \E n \in {heapFrames - 1, heapFrames + 1} :
          n \in 0 .. HeapMachine - heap.mapped /\ heapFrames' = n
    /\ UNCHANGED <<heap, heapLive>>

HeapNext ==
    \/ \E size \in HeapSizes, injected \in BOOLEAN, can \in 0 .. heapFrames :
          Kmalloc(size, injected, can)
    \/ \E b \in DOMAIN heapLive : Kfree(b)
    \/ HeapCoalesce
    \/ OtherFrames

(* heap_total_free and heap_region_count, over the linked blocks.          *)
RECURSIVE Linked(_, _)
Linked(h, fuel) ==
    IF fuel = 0 THEN <<h.start>>
    ELSE LET s == Linked(h, fuel - 1)
             last == s[Len(s)]
         IN  IF last = 0 \/ last \notin DOMAIN h.blk THEN s ELSE Append(s, h.blk[last].next)

BlockList(h) == Linked(h, HeapPages * HeapPage)

(***************************************************************************)
(* Properties.                                                             *)
(***************************************************************************)
(* The list from heap_start covers the mapped range without a gap or an    *)
(* overlap, prev mirrors next, heap_tail is the last block, and every      *)
(* block can hold its header (split_block, merge_with_next, append_region, *)
(* shrink_heap_tail).                                                      *)
HeapTiles ==
    LET l == BlockList(heap)
        n == Len(l) - 1
    IN  /\ l[n + 1] = 0
        /\ {l[i] : i \in 1 .. n} = DOMAIN heap.blk
        /\ heap.tail = IF n = 0 THEN 0 ELSE l[n]
        /\ n = 0 => heap.top = HeapBase
        /\ n > 0 => /\ l[1] = HeapBase
                    /\ l[n] + heap.blk[l[n]].size = heap.top
        /\ \A i \in 1 .. n :
              /\ heap.blk[l[i]].size >= HeapHeader /\ heap.blk[l[i]].size % HeapAlign = 0
              /\ heap.blk[l[i]].prev = IF i = 1 THEN 0 ELSE l[i - 1]
              /\ i < n => l[i] + heap.blk[l[i]].size = l[i + 1]

(* Every free block is in the free list of its size class and no other     *)
(* block is in any: both directions of the lists agree, so a block that    *)
(* was split, merged or cut is never found under its old size.             *)
BinsExact ==
    LET free == {b \in DOMAIN heap.blk : heap.blk[b].free}
    IN  /\ \A b \in DOMAIN heap.blk : heap.blk[b].listed <=> b \in free
        /\ \A b \in free :
              LET r == heap.blk[b]
              IN  /\ r.fprev = 0 <=> heap.bins[BinIndex(r.size)] = b
                  /\ r.fprev # 0 => r.fprev \in free /\ heap.blk[r.fprev].fnext = b
                  /\ r.fnext # 0 => /\ r.fnext \in free /\ heap.blk[r.fnext].fprev = b
                                    /\ BinIndex(heap.blk[r.fnext].size) = BinIndex(r.size)
        /\ \A i \in HeapBins : heap.bins[i] # 0 =>
              heap.bins[i] \in free /\ BinIndex(heap.blk[heap.bins[i]].size) = i

(* No two neighbouring blocks are both free, although append_region puts a *)
(* new region behind a free tail without merging: kfree never leaves a     *)
(* split that a larger request could have used.                            *)
NoFreeNeighbours ==
    \A b \in DOMAIN heap.blk :
        heap.blk[b].free /\ heap.blk[b].next # 0 => ~heap.blk[heap.blk[b].next].free

(* What kmalloc returned stays allocated, large enough and inside the      *)
(* mapped range until kfree gets it, whatever is split, merged or unmapped *)
(* around it, and the byte counter is the sum of these requests.           *)
LiveIntact ==
    LET RECURSIVE Asked(_)
        Asked(S) == IF S = {} THEN 0
                    ELSE LET b == CHOOSE x \in S : TRUE IN heapLive[b] + Asked(S \ {b})
    IN  /\ \A b \in DOMAIN heapLive :
              /\ BlockValid(heap, b) /\ ~heap.blk[b].free
              /\ heap.blk[b].size >= heapLive[b] + HeapHeader
        /\ {b \in DOMAIN heap.blk : ~heap.blk[b].free} = DOMAIN heapLive
        /\ heap.used = Asked(DOMAIN heapLive)

(* The frames of the machine are free, in the heap, or with other users:   *)
(* a growth that fails half way and a shrink neither lose a page nor count *)
(* one twice, and heap_mapped_pages is the length of the mapped range.     *)
HeapPagesExact ==
    /\ heap.mapped * HeapPage = heap.top - HeapBase
    /\ heapFrames \in 0 .. HeapMachine - heap.mapped

(* heap_find_free_block looks only in the request's bin and the larger     *)
(* ones; it still finds a block whenever one is large enough.              *)
FindComplete ==
    \A size \in HeapSizes :
        LET total == HeapUp(size + HeapHeader, HeapAlign)
            fit == {b \in DOMAIN heap.blk : heap.blk[b].free /\ heap.blk[b].size >= total}
        IN  IF fit = {} THEN FindFree(heap, total) = 0 ELSE FindFree(heap, total) \in fit
=============================================================================
