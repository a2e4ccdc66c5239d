--------------------------- MODULE ProgramLoader ---------------------------
(***************************************************************************)
(* Programs being loaded, run and torn down (kernel/core/kernel64_user.cpp *)
(* and kernel/process/userprog64.cpp) in address spaces whose regions      *)
(* kernel/mm/address_space.cpp records beside the page tables, while the   *)
(* kernel maps and retires pages of its own and other users of physical    *)
(* memory take frames at any moment.                                       *)
(*                                                                         *)
(* Virtual pages: the kernel image is [0, Fan), programs are linked at     *)
(* LinkBase = Fan, slot s occupies Fan pages from (2 + s) * Fan, and the   *)
(* kernel arenas lie under another entry of the second level.  Inside a    *)
(* slot: CodeRoom pages of code, the guard page, the stack page, HeapRoom  *)
(* pages of heap, and a guard and a stack page for a second thread.        *)
(* Two launches do not overlap here: the loader does not lock the process  *)
(* table, and which record each would take is not modelled.                *)
(***************************************************************************)
EXTENDS PageTables

CONSTANTS Records,       \* process records
          ExecSlots,     \* 0 .. USER_PROGRAM_SLOT_COUNT - 1
          CodeRoom,      \* pages between code base and guard
          HeapRoom,      \* pages of heap
          RegionMax,     \* ADDRESS_SPACE_MAX_REGIONS
          Images,        \* programs on disk: [elf, flags]
          Pool,          \* allocatable frames
          Hoards,        \* numbers of frames another user leaves free
          HeapBreaks,    \* breaks a program asks for, in half pages
          ArenaSizes,    \* pages the kernel asks for at once
          ArenaPages,    \* kernel virtual pages an arena may use
          LeafAcks,      \* outcomes of a shootdown after one page is mapped
          MaxLaunches, MaxSide  \* launches, and other requests, in a behaviour

VARIABLES mem,           \* [tab, free]
          proc,          \* the process records
          arena,         \* kernel ranges <<first, pages>> now allocated
          lost,          \* frames kept out of use after a failed shootdown
          hoard,         \* frames held by the other user
          tally          \* launches and other requests so far

loaderVars == <<mem, proc, arena, lost, hoard, tally>>

LinkBase == Fan
CodeBase(s) == (2 + s) * Fan
GuardBase(s) == CodeBase(s) + CodeRoom
StackBase(s) == GuardBase(s) + 1
BreakBase(s) == StackBase(s) + 1
ThreadStack(s) == CodeBase(s) + Fan - 1
KernelPages == 0 .. Fan - 1
UserPages == (LinkBase .. LinkBase + CodeRoom) \cup (CodeBase(0) .. 4 * Fan - 1)

DataFlags == {"w", "u", "nx"}
Rights(fl) == {"r"} \cup (fl \cap {"w"}) \cup (IF "nx" \in fl THEN {} ELSE {"x"})

NoRegion == [start |-> 0, end |-> 0, rights |-> {}]
NoRegions == [i \in 1 .. RegionMax |-> NoRegion]

NoImage == [elf |-> FALSE, pages |-> <<>>]
IdleRecord == [stage |-> "off", slot |-> 0, root |-> 0, image |-> NoImage, code |-> 0, stack |-> 0,
               heap |-> 0, mappedEnd |-> 0, heapPages |-> 0, alias |-> 0, thread |-> FALSE,
               regions |-> NoRegions, count |-> 0]

(***************************************************************************)
(* address_space.cpp.  A space s is [p, q]: the page tables and the        *)
(* process record.                                                         *)
(***************************************************************************)
Active(g) == g.end # 0
Least(S) == CHOOSE i \in S : \A j \in S : i <= j

AddRegion(s, b, e, rights) ==
    LET Joins(i) == /\ Active(s.q.regions[i])
                    /\ s.q.regions[i].rights = rights
                    /\ s.q.regions[i].end = b \/ s.q.regions[i].start = e
        joins == {i \in 1 .. RegionMax : Joins(i)}
        spare == {i \in 1 .. RegionMax : ~Active(s.q.regions[i])}
    IN  CASE joins # {} ->
               LET i == Least(joins)
               IN  [ok |-> TRUE,
                    s |-> IF s.q.regions[i].end = b
                          THEN [s EXCEPT !.q.regions[i].end = e]
                          ELSE [s EXCEPT !.q.regions[i].start = b]]
          [] joins = {} /\ spare # {} ->
               [ok |-> TRUE,
                s |-> [s EXCEPT !.q.regions[Least(spare)] =
                                   [start |-> b, end |-> e, rights |-> rights],
                                !.q.count = @ + 1]]
          [] OTHER -> [ok |-> FALSE, s |-> s]

RECURSIVE RemoveRegionFrom(_, _, _, _)
RemoveRegionFrom(q, b, e, i) ==
    LET g == q.regions[i]
        spare == {j \in 1 .. RegionMax : ~Active(q.regions[j])}
    IN  CASE i > RegionMax -> q
          [] i <= RegionMax /\ (~Active(g) \/ b >= g.end \/ e <= g.start) ->
               RemoveRegionFrom(q, b, e, i + 1)
          [] i <= RegionMax /\ Active(g) /\ b <= g.start /\ e >= g.end ->
               RemoveRegionFrom([q EXCEPT !.regions[i] = NoRegion, !.count = @ - 1], b, e, i + 1)
          [] i <= RegionMax /\ Active(g) /\ b <= g.start /\ e > g.start /\ e < g.end ->
               RemoveRegionFrom([q EXCEPT !.regions[i].start = e], b, e, i + 1)
          [] i <= RegionMax /\ Active(g) /\ b > g.start /\ b < g.end /\ e >= g.end ->
               RemoveRegionFrom([q EXCEPT !.regions[i].end = b], b, e, i + 1)
          [] OTHER ->
               IF spare = {} THEN [q EXCEPT !.regions[i].end = b]
               ELSE [q EXCEPT !.regions[Least(spare)] = [g EXCEPT !.start = e],
                              !.regions[i].end = b, !.count = @ + 1]

RemoveRegion(s, b, e) == IF b = e THEN s ELSE [s EXCEPT !.q = RemoveRegionFrom(s.q, b, e, 1)]

FindRegion(q, v) == {i \in 1 .. RegionMax : q.regions[i].start <= v /\ v < q.regions[i].end}

AddressHasRights(p, q, v, rights) ==
    LET fl == IF q.root = 0 THEN {} ELSE GetFlagsInRoot(p, q.root, v)
    IN  /\ FindRegion(q, v) # {}
        /\ rights \subseteq q.regions[Least(FindRegion(q, v))].rights
        /\ "u" \in fl
        /\ "w" \in rights => "w" \in fl
        /\ "x" \in rights => "nx" \notin fl

BufferAccessible(p, q, v, n, writable) ==
    \A a \in v .. v + n - 1 :
        AddressHasRights(p, q, a, IF writable THEN {"r", "w"} ELSE {"r"})

EnsureRoot(s) ==
    IF s.q.root # 0 THEN [ok |-> TRUE, s |-> s]
    ELSE LET c == CreateRoot(s.p)
         IN  [ok |-> c.ok, s |-> [p |-> c.p, q |-> [s.q EXCEPT !.root = c.at]]]

(* address_space_map_page: the shootdown after the new entry may not be    *)
(* acknowledged, and the page then stays mapped.                           *)
SpaceMap(s, v, f, fl, ack) ==
    LET m == MapPageInRoot(s.p, s.q.root, v, f, fl)
    IN  [ok |-> m.ok /\ ack, s |-> [s EXCEPT !.p = m.p]]

RECURSIVE MappedRun(_, _, _, _)
MappedRun(p, root, v, n) ==
    IF n = 0 \/ GetPhysInRoot(p, root, v) = 0 \/ ~UnmapPageInRoot(p, root, v).ok THEN 0
    ELSE 1 + MappedRun(p, root, v + 1, n - 1)

RECURSIVE UnmapRun(_, _, _, _)
UnmapRun(p, root, v, n) ==
    IF n = 0 THEN p ELSE UnmapRun(UnmapPageInRoot(p, root, v).p, root, v + 1, n - 1)

UnmapFree(s, v, k) ==
    LET gone == {GetPhysInRoot(s.p, s.q.root, v + i) : i \in 0 .. k - 1}
        cut == UnmapRun(s.p, s.q.root, v, k)
    IN  RemoveRegion([s EXCEPT !.p = [cut EXCEPT !.free = @ \cup gone]], v, v + k)

SpaceUnmapFree(s, v, n) ==
    IF s.q.root = 0 THEN s ELSE UnmapFree(s, v, MappedRun(s.p, s.q.root, v, n))

OrUnmapFree(a, v, n) == IF a.ok THEN a ELSE [ok |-> FALSE, s |-> SpaceUnmapFree(a.s, v, n)]

RegionAdded(r, s, v, n, fl) ==
    OrUnmapFree(IF r.ok THEN AddRegion([s EXCEPT !.p = r.p], v, v + n, Rights(fl))
                ELSE [ok |-> FALSE, s |-> [s EXCEPT !.p = r.p]],
                v, r.at)

SpaceAllocMap(s, v, n, fl) ==
    IF n = 0 THEN [ok |-> TRUE, s |-> s]
    ELSE RegionAdded(AllocEach(Done(s.p, 0), s.q.root, v, n, fl), s, v, n, fl)

SpaceReset(s) == [s EXCEPT !.q.regions = NoRegions, !.q.count = 0]

(***************************************************************************)
(* userprog64.cpp and run_user_program_internal.                           *)
(***************************************************************************)
UnmapAlias(s) ==
    IF s.q.alias = 0 THEN s
    ELSE RemoveRegion([s EXCEPT !.p = UnmapRun(s.p, s.q.root, LinkBase, s.q.alias)],
                      LinkBase, LinkBase + s.q.alias)

(* cleanup_user_process_mapping, then process_mark_failed or               *)
(* process_mark_returned; the root stays with the record.                  *)
CleanupMapping(s) ==
    LET a == UnmapAlias(s)
        b == SpaceUnmapFree(a, CodeBase(s.q.slot), s.q.code)
        c == SpaceUnmapFree(b, StackBase(s.q.slot), s.q.stack)
        d == SpaceUnmapFree(c, ThreadStack(s.q.slot), IF s.q.thread THEN 1 ELSE 0)
        e == SpaceUnmapFree(d, BreakBase(s.q.slot), s.q.heapPages)
    IN  SpaceReset([e EXCEPT !.q = [IdleRecord EXCEPT !.root = s.q.root]])

(* pmm_alloc_block and address_space_map_page for pages k .. n - 1; the    *)
(* result counts the pages mapped.                                         *)
RECURSIVE LoadPages(_, _, _, _)
LoadPages(s, v, k, n) ==
    LET Loaded(m) ==
          IF ~m.ok THEN [ok |-> FALSE, s |-> [s EXCEPT !.p = m.p], at |-> k]
          ELSE LoadPages([s EXCEPT !.p = m.p], v, k + 1, n)
    IN  IF k = n THEN [ok |-> TRUE, s |-> s, at |-> k]
        ELSE Loaded(AllocMapPage(s.p, s.q.root, v + k, DataFlags))

(* The final flags of page k: readable and executable, and writable and    *)
(* never executable as soon as a writable segment touches it.              *)
PageFlags(image, k) ==
    {"u"} \cup (IF image.elf /\ "w" \in image.pages[k + 1] THEN {"w", "nx"} ELSE {})

StageThen(r, Next(_)) == IF r.ok THEN Next(r.s) ELSE r

RECURSIVE ProtectPages(_, _)
ProtectPages(s, k) ==
    LET v == CodeBase(s.q.slot) + k
        f == GetPhysInRoot(s.p, s.q.root, v)
        fl == PageFlags(s.q.image, k)
    IN  IF k = s.q.code THEN [ok |-> TRUE, s |-> s]
        ELSE IF f = 0 THEN [ok |-> FALSE, s |-> s]
        ELSE StageThen(SpaceMap(s, v, f, fl, TRUE), LAMBDA m :
             StageThen(AddRegion(m, v, v + 1, Rights(fl)), LAMBDA a :
             ProtectPages(a, k + 1)))

AliasComplete(s) ==
    \A k \in 0 .. s.q.alias - 1 :
        LET f == GetPhysInRoot(s.p, s.q.root, CodeBase(s.q.slot) + k)
        IN  /\ f # 0
            /\ GetPhysInRoot(s.p, s.q.root, LinkBase + k) = f
            /\ "p" \in GetFlagsInRoot(s.p, s.q.root, LinkBase + k)

MapAliasPage(t, k) ==
    LET f == GetPhysInRoot(t.p, t.q.root, CodeBase(t.q.slot) + k)
        fl == GetFlagsInRoot(t.p, t.q.root, CodeBase(t.q.slot) + k)
    IN  IF f = 0 \/ "p" \notin fl THEN [ok |-> FALSE, s |-> t]
        ELSE StageThen(SpaceMap(t, LinkBase + k, f, fl \ {"p"}, TRUE), LAMBDA m :
             AddRegion(m, LinkBase + k, LinkBase + k + 1, Rights(fl)))

RECURSIVE MapAliasPages(_, _)
MapAliasPages(s, k) ==
    LET unmapped == [s EXCEPT !.p = UnmapPageInRoot(s.p, s.q.root, LinkBase + k).p]
    IN  IF k = s.q.alias THEN [ok |-> TRUE, s |-> s]
        ELSE StageThen(MapAliasPage(unmapped, k), LAMBDA m : MapAliasPages(m, k + 1))

MapAlias(s) ==
    IF s.q.alias = 0 \/ AliasComplete(s) THEN [ok |-> TRUE, s |-> s]
    ELSE MapAliasPages(RemoveRegion(s, LinkBase, LinkBase + s.q.alias), 0)

Space(r) == [p |-> mem, q |-> proc[r]]

Become(r, s) == /\ mem' = s.p
                /\ proc' = [proc EXCEPT ![r] = s.q]
                /\ UNCHANGED <<arena, lost, hoard>>

Run(r, s) == Become(r, s) /\ UNCHANGED tally

CountSide == tally.side < MaxSide /\ tally' = [tally EXCEPT !.side = @ + 1]

(* run_user_program_internal up to the point where the program runs, as    *)
(* one step: the stages share nothing with other processes but the frames  *)
(* they take, and Hoard leaves every number of frames that makes a stage   *)
(* fail.  A stage that fails takes down everything mapped so far.          *)
MapCode(s) ==
    LET Counted(c) == [c EXCEPT !.s.q.code = c.at]
    IN  Counted(LoadPages(s, CodeBase(s.q.slot), 0, Len(s.q.image.pages)))

MapStack(s) ==
    LET b == StackBase(s.q.slot)
        Counted(c) == [c EXCEPT !.s.q.stack = c.at]
    IN  StageThen(Counted(LoadPages(s, b, 0, 1)), LAMBDA t : AddRegion(t, b, b + 1, {"r", "w"}))

ProtectCode(s) == ProtectPages(s, 0)

Load(s) == StageThen(StageThen(StageThen(MapCode(s), MapStack), ProtectCode), MapAlias)

FreeSlots == {s \in ExecSlots : \A t \in Records : proc[t].stage = "off" \/ proc[t].slot # s}

(* The load range may reach up to the stack base (kernel64_user.cpp:227).  *)
Fits(image) == Len(image.pages) > 0 /\ CodeBase(0) + Len(image.pages) <= StackBase(0)

OrCleanup(load) == IF load.ok THEN load.s ELSE CleanupMapping(load.s)

LoadInto(root, image, slot) ==
    IF ~root.ok \/ ~Fits(image) THEN root.s
    ELSE OrCleanup(Load([root.s EXCEPT !.q.stage = "run", !.q.slot = slot, !.q.image = image,
                                       !.q.mappedEnd = BreakBase(slot),
                                       !.q.alias = IF image.elf THEN Len(image.pages) ELSE 0]))

Launch(r, image) ==
    LET root == EnsureRoot([p |-> mem, q |-> [IdleRecord EXCEPT !.root = proc[r].root]])
    IN  /\ proc[r].stage = "off"
        /\ FreeSlots # {}
        /\ tally.launches < MaxLaunches
        /\ tally' = [tally EXCEPT !.launches = @ + 1]
        /\ Become(r, LoadInto(root, image, Least(FreeSlots)))

Exit(r) ==
    /\ proc[r].stage = "run"
    /\ Run(r, CleanupMapping(Space(r)))

(* resize_user_process_heap; the break is counted in half pages.           *)
HeapPagesFor(b) == (b + 1) \div 2

ResizeHeap(r, b) ==
    LET base == BreakBase(proc[r].slot)
        end == base + HeapPagesFor(b)
        Grown(grown) ==
          IF ~grown.ok THEN grown.s
          ELSE [grown.s EXCEPT !.q.heapPages = @ + (end - proc[r].mappedEnd),
                               !.q.mappedEnd = end, !.q.heap = b]
        drop == proc[r].mappedEnd - end
    IN  /\ proc[r].stage = "run"
        /\ b \in 0 .. 2 * HeapRoom
        /\ CountSide
        /\ Become(r,
             CASE end > proc[r].mappedEnd ->
                    Grown(SpaceAllocMap(Space(r), proc[r].mappedEnd,
                                        end - proc[r].mappedEnd, DataFlags))
               [] end < proc[r].mappedEnd ->
                    [SpaceUnmapFree(Space(r), end, drop)
                        EXCEPT !.q.heapPages = @ - drop, !.q.mappedEnd = end, !.q.heap = b]
               [] OTHER -> [Space(r) EXCEPT !.q.heap = b])

(* The stack of thread_create_user and its release.                        *)
StartThread(r, ack) ==
    LET f == TakeFrame(mem)
        v == ThreadStack(proc[r].slot)
        Started(a) == IF a.ok THEN [a.s EXCEPT !.q.thread = TRUE] ELSE SpaceUnmapFree(a.s, v, 1)
        Mapped(m) == IF m.ok THEN Started(AddRegion(m.s, v, v + 1, {"r", "w"}))
                     ELSE [m.s EXCEPT !.p = GiveFrame(@, f.at)]
    IN  /\ proc[r].stage = "run" /\ ~proc[r].thread
        /\ CountSide
        /\ Become(r, IF ~f.ok THEN Space(r)
                     ELSE Mapped(SpaceMap([Space(r) EXCEPT !.p = f.p], v, f.at, DataFlags, ack)))

StopThread(r) ==
    /\ proc[r].stage = "run" /\ proc[r].thread
    /\ Run(r, [SpaceUnmapFree(Space(r), ThreadStack(proc[r].slot), 1) EXCEPT !.q.thread = FALSE])

(* The kernel arenas (heap, drivers, surfaces) and everyone else.          *)
Held == UNION {a[1] .. a[1] + a[2] - 1 : a \in arena}

ArenaAlloc(v, n) ==
    LET r == AllocMapRange(mem, v, n, {"w", "nx"})
    IN  /\ (v .. v + n - 1) \subseteq ArenaPages \ Held
        /\ mem' = r.p
        /\ arena' = IF r.ok THEN arena \cup {<<v, n>>} ELSE arena
        /\ CountSide
        /\ UNCHANGED <<proc, lost, hoard>>

(* The driver loader's vm_protect_range on a section it has filled.        *)
ArenaProtect(a, fl) ==
    LET r == ProtectRange(mem, a[1], a[2], fl)
    IN  /\ \A v \in a[1] .. a[1] + a[2] - 1 : GetPhys(mem, v) # 0
        /\ mem' = r.p
        /\ CountSide
        /\ UNCHANGED <<proc, arena, lost, hoard>>

ArenaFree(a, acks) ==
    LET r == UnmapFreeRangeTlbSafe(mem, a[1], a[2], acks)
        frames == {GetPhys(mem, v) : v \in a[1] .. a[1] + a[2] - 1}
    IN  /\ mem' = r.p
        /\ lost' = lost \cup {f \in frames : f \notin r.p.free /\ \A v \in ArenaPages : GetPhys(r.p, v) # f}
        /\ IF r.at = a[2] THEN arena' = arena \ {a} ELSE arena' = arena
        /\ UNCHANGED <<proc, hoard, tally>>

Hoard(n) ==
    /\ hoard = {} /\ Cardinality(mem.free) > n
    /\ LET S == mem.free \ CHOOSE X \in SUBSET mem.free : Cardinality(X) = n
       IN  hoard' = S /\ mem' = [mem EXCEPT !.free = @ \ S]
    /\ CountSide
    /\ UNCHANGED <<proc, arena, lost>>

Give ==
    /\ hoard # {}
    /\ mem' = [mem EXCEPT !.free = @ \cup hoard]
    /\ hoard' = {}
    /\ UNCHANGED <<proc, arena, lost, tally>>

(***************************************************************************)
(* Boot: the loader's identity map in huge pages, then the kernel image    *)
(* remapped page by page with its own permissions.  Boot tables occupy the *)
(* four frames from KernelRoot.                                            *)
(***************************************************************************)
HugeEntry(f) == [to |-> f, huge |-> TRUE, fl |-> {"w"}]
BootDirectory(base) == [i \in 0 .. Fan - 1 |-> HugeEntry(base + i * Fan)]

FirmwareTables ==
       (KernelRoot :> [EmptyTable EXCEPT ![0] = TableEntry(KernelRoot + 1, {})])
    @@ (KernelRoot + 1 :> [EmptyTable EXCEPT ![0] = TableEntry(KernelRoot + 2, {}),
                                             ![1] = TableEntry(KernelRoot + 3, {})])
    @@ (KernelRoot + 2 :> BootDirectory(0))
    @@ (KernelRoot + 3 :> BootDirectory(Fan * Fan))

ApplyKernelNxPolicy(p) ==
    LET text == MapIdentity(p, 1, 1, {})
        rodata == MapIdentity(text.p, 2, 1, {"nx"})
        data == MapIdentity(rodata.p, 3, Fan - 3, {"w", "nx"})
    IN  data.p

LoaderStart ==
    /\ mem = ApplyKernelNxPolicy([tab |-> FirmwareTables, free |-> Pool])
    /\ proc = [r \in Records |-> IdleRecord]
    /\ arena = {} /\ lost = {} /\ hoard = {}
    /\ tally = [launches |-> 0, side |-> 0]

LoaderNext ==
    \/ \E r \in Records, image \in Images : Launch(r, image)
    \/ \E r \in Records : Exit(r) \/ StopThread(r)
    \/ \E r \in Records, b \in HeapBreaks : ResizeHeap(r, b)
    \/ \E r \in Records, ack \in LeafAcks : StartThread(r, ack)
    \/ \E v \in ArenaPages, n \in ArenaSizes : ArenaAlloc(v, n)
    \/ \E a \in arena, fl \in {{}, {"nx"}} : ArenaProtect(a, fl)
    \/ \E a \in arena, acks \in 0 .. 2 : ArenaFree(a, acks)
    \/ \E n \in Hoards : Hoard(n)
    \/ Give

(***************************************************************************)
(* Properties.                                                             *)
(***************************************************************************)
Roots == {KernelRoot} \cup ({proc[r].root : r \in Records} \ {0})
Translation(root, v) == <<GetPhysInRoot(mem, root, v), GetFlagsInRoot(mem, root, v)>>

RECURSIVE TablesUnder(_, _)
TablesUnder(table, level) ==
    {table} \cup IF level = 1 THEN {}
                 ELSE UNION {TablesUnder(e.to, level - 1) :
                               e \in {x \in {mem.tab[table][i] : i \in 0 .. Fan - 1} :
                                        Present(x) /\ ~x.huge}}

KernelTables == TablesUnder(KernelRoot, 4)
OwnTables(r) == IF proc[r].root = 0 THEN {} ELSE TablesUnder(proc[r].root, 4) \ KernelTables

UserMapped(r) ==
    IF proc[r].root = 0 THEN {}
    ELSE {v \in UserPages : "u" \in GetFlagsInRoot(mem, proc[r].root, v)}

UserFrames(r) == {GetPhysInRoot(mem, proc[r].root, v) : v \in UserMapped(r)}
ArenaFrames == {GetPhys(mem, v) : v \in ArenaPages} \cap Pool

(* The kernel image and the kernel arenas translate alike, and for the     *)
(* supervisor only, under every root, whenever the root was cloned and     *)
(* however its tables were split since; and no program ever changes what   *)
(* the kernel root maps at the addresses programs use                      *)
(* (ensure_private_child before every change, paging.cpp:112).             *)
KernelSharedByAll ==
    /\ \A root \in Roots, v \in KernelPages \cup ArenaPages :
         /\ Translation(root, v) = Translation(KernelRoot, v)
         /\ "u" \notin GetFlagsInRoot(mem, root, v)
    /\ \A v \in UserPages : GetPhys(mem, v) = v /\ "u" \notin GetFlags(mem, v)

(* Every frame is in exactly one place: free, a table of the kernel or of  *)
(* one root, a page of one process, a page of a kernel arena, held by      *)
(* another user, or set aside after a failed shootdown.  So no failed      *)
(* launch leaks a frame and no mapped frame is free or shared.             *)
FramesExact ==
    LET tables == UNION {OwnTables(r) : r \in Records} \cup (KernelTables \cap Pool)
        users == UNION {UserFrames(r) : r \in Records}
        RECURSIVE Total(_)
        Total(R) == IF R = {} THEN 0
                    ELSE LET r == CHOOSE x \in R : TRUE
                         IN  Cardinality(OwnTables(r)) + Cardinality(UserFrames(r)) + Total(R \ {r})
    IN  /\ mem.free \cup tables \cup users \cup ArenaFrames \cup lost \cup hoard = Pool
        /\ Cardinality(mem.free) + Cardinality(KernelTables \cap Pool) + Total(Records)
             + Cardinality(ArenaFrames) + Cardinality(lost) + Cardinality(hoard)
             = Cardinality(Pool)

(* The regions of a running process and its page tables tell the same      *)
(* story, whatever was mapped, protected, aliased and unmapped since: a    *)
(* page is in one region, with the rights of its entry, exactly when it is *)
(* mapped for the program; so a buffer passes                              *)
(* address_space_buffer_accessible exactly when the program itself could   *)
(* read (or write) it, and region_count is the number of regions.          *)
RegionsAgree ==
    \A r \in Records : proc[r].stage = "run" =>
        LET q == proc[r]
            Flags(v) == GetFlagsInRoot(mem, q.root, v)
        IN  /\ q.count = Cardinality({i \in 1 .. RegionMax : Active(q.regions[i])})
            /\ \A v \in UserPages :
                 {q.regions[i].rights : i \in FindRegion(q, v)}
                   = IF "u" \in Flags(v) THEN {Rights(Flags(v))} ELSE {}
            /\ \A v \in UserPages, w \in BOOLEAN :
                 BufferAccessible(mem, q, v, 2, w)
                   <=> \A a \in {v, v + 1} : (IF w THEN {"u", "w"} ELSE {"u"}) \subseteq Flags(a)

(* No page a program can reach is both writable and executable, in any     *)
(* root and at any stage of loading (stabilization.md, "Enforce W^X").     *)
WxHolds ==
    \A r \in Records, v \in UserPages : proc[r].root # 0 =>
        LET fl == GetFlagsInRoot(mem, proc[r].root, v)
        IN  {"u", "w"} \subseteq fl => "nx" \in fl

(* A running program finds at its link address the pages, with the rights, *)
(* that were loaded into its slot (map_user_elf_alias).                    *)
AliasSame ==
    \A r \in Records : proc[r].stage = "run" =>
        \A k \in 0 .. proc[r].alias - 1 :
            Translation(proc[r].root, LinkBase + k)
              = Translation(proc[r].root, CodeBase(proc[r].slot) + k)

(* When a program ends or its launch fails, at whatever stage, nothing of  *)
(* it stays mapped in the root its record keeps.                           *)
NothingLeftMapped ==
    \A r \in Records : proc[r].stage = "off" => UserMapped(r) = {} /\ proc[r].count = 0

(* Refuted: the page below a running program's stack is not mapped.        *)
GuardUnmapped ==
    \A r \in Records : proc[r].stage = "run" => GuardBase(proc[r].slot) \notin UserMapped(r)
=============================================================================
