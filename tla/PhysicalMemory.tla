--------------------------- MODULE PhysicalMemory ---------------------------
(***************************************************************************)
(* The physical page allocator of kernel/mm/pmm.cpp.                       *)
(*                                                                         *)
(* memory_bitmap64 is the set `used`, free_blocks64 and next_free_hint64   *)
(* are kept beside it as the code keeps them.  The statistics counters are *)
(* left out: nothing reads them but the diagnostics.  Byte addresses are   *)
(* kept, scaled: a page is PmmPage bytes and an address wraps at PmmWrap.  *)
(*                                                                         *)
(* pmmHeld and pmmBoot are history: the allocations handed out and not yet *)
(* returned, and the boot memory map while pmm_init's result is untouched. *)
(***************************************************************************)
EXTENDS Integers, FiniteSets, Sequences

CONSTANTS PmmTotal,      \* PMM_TOTAL_BLOCKS
          PmmPage,       \* PMM_PAGE_SIZE, a power of two
          PmmWrap,       \* 2^64, scaled
          PmmLow,        \* LOW_MEMORY_RESERVE_SIZE
          PmmRanges,     \* ranges [base, size] a boot map may list
          PmmCounts,     \* block counts callers ask for
          PmmMaxHeld     \* bound: allocations held at once

ASSUME PmmAssumption ==
    /\ {PmmTotal, PmmPage, PmmWrap} \subseteq Nat \ {0}
    /\ PmmWrap > PmmTotal * PmmPage
    /\ PmmWrap % PmmPage = 0

VARIABLES pmm, pmmHeld, pmmBoot

pmmVars == <<pmm, pmmHeld, pmmBoot>>

Blocks == 0 .. PmmTotal - 1
PmmMaxRam == PmmTotal * PmmPage
Nowhere == [base |-> 0, size |-> 0]
NoMap == [valid |-> FALSE, usable |-> <<>>, kernel |-> Nowhere, reserved |-> Nowhere]
BootMaps == [valid : BOOLEAN, usable : PmmRanges \X PmmRanges,
             kernel : PmmRanges \cup {Nowhere}, reserved : PmmRanges \cup {Nowhere}]

SmallerOf(a, b) == IF a < b THEN a ELSE b
AlignDown64(v) == v - (v % PmmPage)
AlignUp64(v) == AlignDown64((v + PmmPage - 1) % PmmWrap)

(* mark_block_used64 and mark_block_free64, over a set of blocks at once:  *)
(* the counters move only for the blocks whose bit changes.                *)
MarkUsed(m, S) ==
    LET change == (S \cap Blocks) \ m.used
    IN  [m EXCEPT !.used = @ \cup change,
                  !.free = IF @ > Cardinality(change) THEN @ - Cardinality(change) ELSE 0]

MarkFree(m, S) ==
    LET change == S \cap m.used
    IN  [m EXCEPT !.used = @ \ change,
                  !.free = @ + Cardinality(change),
                  !.hint = CHOOSE h \in change \cup {@} : \A c \in change \cup {@} : h <= c]

MarkAllUsed(m) == [used |-> Blocks, free |-> 0, hint |-> 0]

MarkRangeUsed(m, start, end) ==
    IF end <= start THEN m
    ELSE MarkUsed(m, AlignDown64(start) \div PmmPage
                     .. SmallerOf(AlignUp64(end) \div PmmPage, PmmTotal) - 1)

MarkRangeSizeUsed(m, r) ==
    LET end == (r.base + r.size) % PmmWrap
    IN  IF r.size = 0 THEN m
        ELSE MarkRangeUsed(m, r.base, IF end < r.base THEN PmmMaxRam ELSE end)

MarkRangeFree(m, start, end) ==
    MarkFree(m, AlignUp64(start) \div PmmPage
                .. SmallerOf(AlignDown64(end) \div PmmPage, PmmTotal) - 1)

EntryEnd(r) ==
    LET end == (r.base + r.size) % PmmWrap
    IN  IF end < r.base \/ end > PmmMaxRam THEN PmmMaxRam ELSE end

ReserveBootRanges(m, map) ==
    MarkRangeSizeUsed(IF map.kernel.base # 0 THEN MarkRangeSizeUsed(m, map.kernel) ELSE m,
                      map.reserved)

FreeEntry(m, r) ==
    IF r.base >= PmmMaxRam THEN m ELSE MarkRangeFree(m, r.base, EntryEnd(r))

InitFromE820(map) ==
    LET freed == FreeEntry(FreeEntry(MarkAllUsed(pmm), map.usable[1]), map.usable[2])
    IN  ReserveBootRanges(MarkRangeUsed(freed, 0, PmmLow), map)

(* pmm_init: a map without a valid header leaves every block used.         *)
PmmInit(map) ==
    /\ pmmBoot = NoMap /\ pmmHeld = {} /\ pmm.free = 0
    /\ pmm' = IF map.valid THEN InitFromE820(map) ELSE MarkAllUsed(pmm)
    /\ pmmBoot' = map
    /\ UNCHANGED pmmHeld

(***************************************************************************)
(* The searches.  Each returns the first block of the run it takes, or -1. *)
(***************************************************************************)
HintAfter(i) == IF i >= PmmTotal THEN 0 ELSE i

RECURSIVE NextFit(_, _)
NextFit(m, step) ==
    LET start == IF m.hint >= PmmTotal THEN 0 ELSE m.hint
        i == (start + step) % PmmTotal
    IN  CASE step = PmmTotal -> -1
          [] step < PmmTotal /\ i \notin m.used -> i
          [] OTHER -> NextFit(m, step + 1)

SearchOne(m) == IF m.free = 0 THEN -1 ELSE NextFit(m, 0)

RECURSIVE RunFrom(_, _, _, _, _)
RunFrom(m, count, i, start, length) ==
    LET from == IF length = 0 THEN i ELSE start
    IN  CASE i = PmmTotal -> -1
          [] i < PmmTotal /\ i \in m.used -> RunFrom(m, count, i + 1, 0, 0)
          [] i < PmmTotal /\ i \notin m.used ->
               IF length + 1 = count THEN from ELSE RunFrom(m, count, i + 1, from, length + 1)

SearchRun(m, count) ==
    IF count = 0 \/ count > m.free THEN -1 ELSE RunFrom(m, count, 0, 0, 0)

FreeAhead(m, start, count) ==
    CHOOSE n \in 0 .. count : /\ \A k \in 0 .. n - 1 : start + k \notin m.used
                              /\ n < count => start + n \in m.used

(* c is a constraint: [count, align, boundary, max], in blocks and bytes.  *)
Crosses(c, address) ==
    /\ c.boundary # 0
    /\ address \div c.boundary # (address + c.count * PmmPage - 1) \div c.boundary

PastMaximum(c, address) ==
    address > c.max \/ c.count * PmmPage - 1 > c.max - address

RECURSIVE ConstrainedFromSkipping(_, _, _)
ConstrainedFromSkipping(m, c, start) ==
    CASE start + c.count > PmmTotal -> -1
      [] start + c.count <= PmmTotal /\ start % c.align # 0 ->
           ConstrainedFromSkipping(m, c, start + 1)
      [] OTHER ->
           IF PastMaximum(c, start * PmmPage) THEN -1
           ELSE IF Crosses(c, start * PmmPage) THEN ConstrainedFromSkipping(m, c, start + 1)
           ELSE IF FreeAhead(m, start, c.count) = c.count THEN start
           ELSE ConstrainedFromSkipping(m, c, start + c.count + 1)

RECURSIVE ConstrainedFrom(_, _, _)
ConstrainedFrom(m, c, start) ==
    CASE start + c.count > PmmTotal -> -1
      [] start + c.count <= PmmTotal /\ start % c.align # 0 -> ConstrainedFrom(m, c, start + 1)
      [] OTHER ->
           IF PastMaximum(c, start * PmmPage) THEN -1
           ELSE IF Crosses(c, start * PmmPage) THEN ConstrainedFrom(m, c, start + 1)
           ELSE LET available == FreeAhead(m, start, c.count)
                IN  IF available = c.count THEN start
                    ELSE ConstrainedFrom(m, c, start + available + 1)

PowersOfTwo == {1, 2, 4}
Constraints == [count : PmmCounts, align : PowersOfTwo \cup {0, 3},
                boundary : {0, 2 * PmmPage, 4 * PmmPage},
                max : {PmmPage - 1, 4 * PmmPage - 1, 5 * PmmPage, PmmMaxRam}]

SearchConstrainedSkipping(m, c) ==
    IF c.count = 0 \/ c.align \notin PowersOfTwo \/ c.count > m.free THEN -1
    ELSE ConstrainedFromSkipping(m, c, 0)

SearchConstrained(m, c) ==
    IF c.count = 0 \/ c.align \notin PowersOfTwo \/ c.count > m.free THEN -1
    ELSE ConstrainedFrom(m, c, 0)

(***************************************************************************)
(* pmm_alloc_block, pmm_alloc_blocks, pmm_alloc_blocks_constrained and the *)
(* two frees.  `injected` is the fault injection point KERNEL_FAULT_POINT_ *)
(* PMM, which fails the call before it touches the bitmap.                 *)
(***************************************************************************)
TakeRun(start, count) ==
    /\ pmmBoot' = NoMap
    /\ IF start = -1 THEN UNCHANGED <<pmm, pmmHeld>>
       ELSE /\ pmm' = [MarkUsed(pmm, start .. start + count - 1)
                         EXCEPT !.hint = HintAfter(start + count)]
            /\ pmmHeld' = pmmHeld \cup {<<start, count>>}

AllocBlock(injected) ==
    /\ Cardinality(pmmHeld) < PmmMaxHeld
    /\ TakeRun(IF injected THEN -1 ELSE SearchOne(pmm), 1)

AllocBlocks(count, injected) ==
    /\ Cardinality(pmmHeld) < PmmMaxHeld
    /\ TakeRun(IF injected THEN -1 ELSE SearchRun(pmm, count), count)

AllocConstrained(c, injected) ==
    /\ Cardinality(pmmHeld) < PmmMaxHeld
    /\ TakeRun(IF injected THEN -1 ELSE SearchConstrained(pmm, c), c.count)

FreeBlock(a) ==
    /\ a \in pmmHeld /\ a[2] = 1
    /\ pmm' = MarkFree(pmm, {a[1]})
    /\ pmmHeld' = pmmHeld \ {a}
    /\ pmmBoot' = NoMap

FreeBlocks(a) ==
    /\ a \in pmmHeld
    /\ pmm' = MarkFree(pmm, a[1] .. a[1] + a[2] - 1)
    /\ pmmHeld' = pmmHeld \ {a}
    /\ pmmBoot' = NoMap

PmmStart ==
    /\ pmm = [used |-> Blocks, free |-> 0, hint |-> 0]
    /\ pmmHeld = {}
    /\ pmmBoot = NoMap

PmmNext ==
    \/ \E map \in BootMaps : PmmInit(map)
    \/ \E injected \in BOOLEAN : AllocBlock(injected)
    \/ \E count \in PmmCounts, injected \in BOOLEAN : AllocBlocks(count, injected)
    \/ \E c \in Constraints, injected \in BOOLEAN : AllocConstrained(c, injected)
    \/ \E a \in pmmHeld : FreeBlock(a) \/ FreeBlocks(a)

(***************************************************************************)
(* Properties.                                                             *)
(***************************************************************************)
BytesOf(b) == b * PmmPage .. (b + 1) * PmmPage - 1
Within(r) == {x \in 0 .. PmmMaxRam - 1 : x >= r.base /\ x < r.base + r.size}

(* free_blocks64, by which every allocation is refused or let through, is  *)
(* the number of clear bits: overlapping boot entries, failed searches and *)
(* frees never make the two drift apart.                                   *)
PmmFreeExact == pmm.free = Cardinality(Blocks \ pmm.used)

(* Two allocations never share a page, and what is handed out is marked    *)
(* used until it is returned (pmm_alloc_block, pmm_alloc_blocks and        *)
(* pmm_alloc_blocks_constrained against pmm_free_block and _blocks).       *)
HeldDisjoint ==
    /\ \A a \in pmmHeld : a[1] .. a[1] + a[2] - 1 \subseteq pmm.used
    /\ \A a, b \in pmmHeld : a # b =>
          (a[1] .. a[1] + a[2] - 1) \cap (b[1] .. b[1] + b[2] - 1) = {}

(* After pmm_init a free page lies wholly inside usable memory and touches *)
(* neither low memory, the kernel image nor a reserved range; an invalid   *)
(* map frees nothing (init_from_e820_64 and its rounding).                 *)
BootSafe ==
    pmmBoot # NoMap => \A b \in Blocks \ pmm.used :
        /\ pmmBoot.valid
        /\ BytesOf(b) \subseteq Within(pmmBoot.usable[1]) \cup Within(pmmBoot.usable[2])
        /\ BytesOf(b) \cap (0 .. PmmLow - 1) = {}
        /\ pmmBoot.kernel.base # 0 => BytesOf(b) \cap Within(pmmBoot.kernel) = {}
        /\ BytesOf(b) \cap Within(pmmBoot.reserved) = {}

(* pmm_alloc_blocks fails only when no run of that length is free, and     *)
(* what it returns is free; pmm_alloc_block likewise from any hint.        *)
RunSearchComplete ==
    \A count \in PmmCounts :
        LET good == {s \in Blocks : s + count <= PmmTotal
                                    /\ (s .. s + count - 1) \cap pmm.used = {}}
        IN  /\ count > 0 =>
                 IF good = {} THEN SearchRun(pmm, count) = -1
                 ELSE SearchRun(pmm, count) \in good
            /\ IF Blocks \subseteq pmm.used THEN SearchOne(pmm) = -1
               ELSE SearchOne(pmm) \in Blocks \ pmm.used

(* The constrained search skips ahead over what it has seen to be used; it *)
(* still fails only when no run meets the alignment, the boundary and the  *)
(* highest address, and what it returns meets all three.                   *)
ConstrainedComplete ==
    \A c \in {x \in Constraints : x.count > 0 /\ x.align \in PowersOfTwo} :
        LET found == SearchConstrained(pmm, c)
            good == {s \in Blocks :
                        /\ s + c.count <= PmmTotal
                        /\ (s .. s + c.count - 1) \cap pmm.used = {}
                        /\ s % c.align = 0
                        /\ (s + c.count) * PmmPage - 1 <= c.max
                        /\ c.boundary # 0 =>
                             \E k \in 0 .. PmmMaxRam :
                                /\ k * c.boundary <= s * PmmPage
                                /\ (s + c.count) * PmmPage <= (k + 1) * c.boundary}
        IN  IF good = {} THEN found = -1 ELSE found \in good
=============================================================================
