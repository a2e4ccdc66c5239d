----------------------------- MODULE PageTables -----------------------------
(***************************************************************************)
(* The four level page tables of arch/x86_64/mm/paging.cpp and the range   *)
(* operations of kernel/mm/vm.cpp, as operators on a record                *)
(*                                                                         *)
(*     p = [tab, free]                                                     *)
(*                                                                         *)
(* tab maps the frame of every table to its entries, free is the set of    *)
(* free frames.  A virtual page is a number; its indices are its digits    *)
(* base Fan, and one entry of the top table covers everything, as all      *)
(* addresses of this kernel lie below 512 GiB.  An entry is [to, huge, fl] *)
(* with fl among "w", "u" and "nx"; to = -1 is an absent entry.  Frame 0   *)
(* is never handed out.  Operations that can fail return [ok, p, at].      *)
(***************************************************************************)
EXTENDS Integers, FiniteSets, Sequences, TLC

CONSTANTS Fan,           \* entries of a table
          RetireChunk,   \* VM_TLB_RETIRE_CHUNK_PAGES
          KernelRoot     \* pml4_phys

Absent == [to |-> -1, huge |-> FALSE, fl |-> {}]
Present(e) == e.to >= 0
EmptyTable == [i \in 0 .. Fan - 1 |-> Absent]
TableEntry(f, fl) == [to |-> f, huge |-> FALSE, fl |-> {"w"} \cup (fl \cap {"u", "nx"})]

Index(v, level) == CASE level = 4 -> 0
                     [] level = 3 -> v \div (Fan * Fan)
                     [] level = 2 -> (v \div Fan) % Fan
                     [] level = 1 -> v % Fan

Done(p, at) == [ok |-> TRUE, p |-> p, at |-> at]
Fail(p) == [ok |-> FALSE, p |-> p, at |-> 0]
Then(r, Op(_)) == IF r.ok THEN Op(r) ELSE r

(* pmm_alloc_block.  Which free frame it takes does not matter here.       *)
TakeFrame(p) ==
    IF p.free = {} THEN Fail(p)
    ELSE LET f == CHOOSE x \in p.free : \A y \in p.free : x <= y
         IN  Done([p EXCEPT !.free = @ \ {f}], f)

GiveFrame(p, f) == [p EXCEPT !.free = @ \cup {f}]

AllocateTable(p) ==
    Then(TakeFrame(p), LAMBDA r : Done([r.p EXCEPT !.tab = (r.at :> EmptyTable) @@ @], r.at))

CloneTable(p, source) ==
    Then(AllocateTable(p), LAMBDA r : Done([r.p EXCEPT !.tab[r.at] = p.tab[source]], r.at))

SplitHugePage(p, pd, i) ==
    LET e == p.tab[pd][i]
    IN  IF ~Present(e) \/ ~e.huge THEN Fail(p)
        ELSE Then(AllocateTable(p), LAMBDA r :
               Done([r.p EXCEPT
                       !.tab[r.at] = [k \in 0 .. Fan - 1 |->
                                        [to |-> e.to + k, huge |-> FALSE, fl |-> e.fl]],
                       !.tab[pd][i] = TableEntry(r.at, e.fl)], r.at))

SharedChild(p, table, kernelTable, i) == Done(p, 0)

EnsurePrivateChild(p, table, kernelTable, i) ==
    IF kernelTable = 0 THEN Done(p, 0)
    ELSE LET e == p.tab[table][i]
             k == p.tab[kernelTable][i]
         IN  IF ~Present(e) \/ ~Present(k) \/ e.huge \/ k.huge \/ e.to # k.to THEN Done(p, 0)
             ELSE Then(CloneTable(p, e.to), LAMBDA r :
                    Done([r.p EXCEPT !.tab[table][i].to = r.at], 0))

KernelChild(p, table, i) ==
    IF table = 0 \/ ~Present(p.tab[table][i]) \/ p.tab[table][i].huge THEN 0
    ELSE p.tab[table][i].to

RelaxEntry(p, table, i, fl) ==
    LET e == p.tab[table][i]
    IN  IF ~Present(e) \/ e.huge THEN p
        ELSE [p EXCEPT !.tab[table][i].fl =
                (e.fl \cup (fl \cap {"u"})) \ (IF "nx" \in fl THEN {} ELSE {"nx"})]

GetOrCreateNext(p, table, i, fl) ==
    LET e == p.tab[table][i]
    IN  IF Present(e)
        THEN IF e.huge THEN Fail(p) ELSE Done(RelaxEntry(p, table, i, fl), e.to)
        ELSE Then(AllocateTable(p), LAMBDA r :
               Done([r.p EXCEPT !.tab[table][i] = TableEntry(r.at, fl)], r.at))

(* The common end of the two map functions: the page table under pd[i],    *)
(* split from a huge page or created where there is none.                  *)
PageTableUnder(p, pd, i, fl) ==
    IF Present(p.tab[pd][i]) /\ p.tab[pd][i].huge
    THEN Then(SplitHugePage(p, pd, i), LAMBDA r : GetOrCreateNext(r.p, pd, i, fl))
    ELSE GetOrCreateNext(p, pd, i, fl)

StoreLeaf(r, v, f, fl) ==
    Done([r.p EXCEPT !.tab[r.at][Index(v, 1)] = [to |-> f, huge |-> FALSE, fl |-> fl]], 0)

MapKernelPage(p, v, f, fl) ==
    Then(GetOrCreateNext(p, KernelRoot, Index(v, 4), fl), LAMBDA pdpt :
    Then(GetOrCreateNext(pdpt.p, pdpt.at, Index(v, 3), fl), LAMBDA pd :
    Then(PageTableUnder(pd.p, pd.at, Index(v, 2), fl), LAMBDA pt :
    StoreLeaf(pt, v, f, fl))))

(* arch_vm_map_page_in_root: at every level a table that the root still    *)
(* shares with the kernel is cloned before anything below it changes.      *)
MapPageInRoot(p, root, v, f, fl) ==
    IF root = KernelRoot THEN MapKernelPage(p, v, f, fl)
    ELSE
    Then(EnsurePrivateChild(p, root, KernelRoot, Index(v, 4)), LAMBDA a :
    Then(GetOrCreateNext(a.p, root, Index(v, 4), fl), LAMBDA pdpt :
    LET kernelPdpt == KernelChild(pdpt.p, KernelRoot, Index(v, 4)) IN
    Then(EnsurePrivateChild(pdpt.p, pdpt.at, kernelPdpt, Index(v, 3)), LAMBDA b :
    Then(GetOrCreateNext(b.p, pdpt.at, Index(v, 3), fl), LAMBDA pd :
    LET kernelPd == KernelChild(pd.p, kernelPdpt, Index(v, 3))
    IN
    Then(EnsurePrivateChild(pd.p, pd.at, kernelPd, Index(v, 2)), LAMBDA c :
    Then(PageTableUnder(c.p, pd.at, Index(v, 2), fl), LAMBDA pt :
    StoreLeaf(pt, v, f, fl)))))))

(* The entries a walk meets, from the root down to an absent entry, a huge *)
(* page or the last level.                                                 *)
RECURSIVE WalkFrom(_, _, _, _)
WalkFrom(p, table, level, v) ==
    LET e == p.tab[table][Index(v, level)]
    IN  IF ~Present(e) \/ e.huge \/ level = 1 THEN <<e>>
        ELSE <<e>> \o WalkFrom(p, e.to, level - 1, v)

Walk(p, root, v) == WalkFrom(p, root, 4, v)

GetPhysInRoot(p, root, v) ==
    LET w == Walk(p, root, v)
        e == w[Len(w)]
    IN  CASE ~Present(e) -> 0
          [] Present(e) /\ e.huge -> e.to + (IF Len(w) = 2 THEN v % (Fan * Fan) ELSE v % Fan)
          [] OTHER -> e.to

GetFlagsInRoot(p, root, v) ==
    LET w == Walk(p, root, v)
        e == w[Len(w)]
    IN  IF ~Present(e) THEN {}
        ELSE {"p"} \cup {x \in {"u", "w"} : \A i \in 1 .. Len(w) : x \in w[i].fl}
                   \cup (e.fl \cap {"nx"})

UnmapPageInRoot(p, root, v) ==
    LET w == Walk(p, root, v)
    IN  IF Len(w) < 4 \/ ~Present(w[Len(w)]) THEN Fail(p)
        ELSE Done([p EXCEPT !.tab[w[3].to][Index(v, 1)] = Absent], 0)

UnmapKernelPage(p, v) == UnmapPageInRoot(p, KernelRoot, v)
GetPhys(p, v) == GetPhysInRoot(p, KernelRoot, v)
GetFlags(p, v) == GetFlagsInRoot(p, KernelRoot, v)
CreateRoot(p) == CloneTable(p, KernelRoot)

(***************************************************************************)
(* kernel/mm/vm.cpp: n pages from v, page by page.                         *)
(***************************************************************************)
RECURSIVE UnmapEach(_, _, _)
UnmapEach(p, v, n) == IF n = 0 THEN p ELSE UnmapEach(UnmapKernelPage(p, v).p, v + 1, n - 1)

OneMore(at, m) == [m EXCEPT !.at = IF m.ok THEN at + 1 ELSE at]

RECURSIVE MapEach(_, _, _, _, _)
MapEach(r, v, f, fl, n) ==
    IF ~r.ok \/ n = 0 THEN r
    ELSE MapEach(OneMore(r.at, MapKernelPage(r.p, v, f, fl)), v + 1, f + 1, fl, n - 1)

(* vm_map_identity, which keeps what it mapped when a page fails.          *)
MapIdentity(p, v, n, fl) == MapEach(Done(p, 0), v, v, fl, n)

RECURSIVE ProtectRangeInRoot(_, _, _, _, _)
ProtectRangeInRoot(p, root, v, n, fl) ==
    IF n = 0 THEN Done(p, 0)
    ELSE LET f == GetPhysInRoot(p, root, v)
         IN  IF f = 0 THEN Fail(p)
             ELSE Then(MapPageInRoot(p, root, v, f, fl), LAMBDA m :
                    ProtectRangeInRoot(m.p, root, v + 1, n - 1, fl))

ProtectRange(p, v, n, fl) == ProtectRangeInRoot(p, KernelRoot, v, n, fl)

RECURSIVE UnmapFreeRange(_, _, _)
UnmapFreeRange(p, v, n) ==
    IF n = 0 THEN p
    ELSE LET f == GetPhys(p, v)
             u == UnmapKernelPage(p, v)
         IN  UnmapFreeRange(IF u.ok /\ f # 0 THEN GiveFrame(u.p, f) ELSE u.p, v + 1, n - 1)

(* One page of an allocating range: a frame that cannot be mapped goes     *)
(* back to the allocator.                                                  *)
OrGiveBack(m, f) == IF m.ok THEN m ELSE Fail(GiveFrame(m.p, f))

AllocMapPage(p, root, v, fl) ==
    Then(TakeFrame(p), LAMBDA f : OrGiveBack(MapPageInRoot(f.p, root, v, f.at, fl), f.at))

RECURSIVE AllocEach(_, _, _, _, _)
AllocEach(r, root, v, n, fl) ==
    IF ~r.ok \/ n = 0 THEN r
    ELSE AllocEach(OneMore(r.at, AllocMapPage(r.p, root, v, fl)), root, v + 1, n - 1, fl)

OrUnmap(r, v) == IF r.ok THEN r ELSE Fail(UnmapFreeRange(r.p, v, r.at))

AllocMapRange(p, v, n, fl) == OrUnmap(AllocEach(Done(p, 0), KernelRoot, v, n, fl), v)

(* vm_unmap_free_range_tlb_safe: chunk by chunk, a chunk's frames are      *)
(* freed only once its shootdown is acknowledged.  The walk stops at the   *)
(* first page that is not mapped and at the first chunk that is not        *)
(* acknowledged; acks is the number of chunks whose shootdown succeeds.    *)
RECURSIVE MappedAhead(_, _, _)
MappedAhead(p, v, n) ==
    IF n = 0 \/ GetPhys(p, v) = 0 \/ ~UnmapKernelPage(p, v).ok THEN 0
    ELSE 1 + MappedAhead(p, v + 1, n - 1)

RECURSIVE RetireChunks(_, _, _, _)
RetireChunks(r, v, n, acks) ==
    LET chunk == IF n < RetireChunk THEN n ELSE RetireChunk
        k == MappedAhead(r.p, v, chunk)
        gone == {GetPhys(r.p, v + i) : i \in 0 .. k - 1}
        cut == UnmapEach(r.p, v, k)
    IN  IF n = 0 \/ k = 0 THEN r
        ELSE IF acks = 0 THEN [r EXCEPT !.p = cut]
        ELSE LET next == [r EXCEPT !.p = [cut EXCEPT !.free = @ \cup gone], !.at = @ + k]
             IN  IF k # chunk THEN next ELSE RetireChunks(next, v + k, n - k, acks - 1)

UnmapFreeRangeTlbSafe(p, v, n, acks) == RetireChunks(Done(p, 0), v, n, acks)
=============================================================================
