---- MODULE DriverDma ----
(***************************************************************************)
(* Memory a driver owns: allocations (kernel/driver/driver_alloc.cpp) and  *)
(* the DMA objects that pin them (kernel/driver/driver_dma.cpp).           *)
(*                                                                         *)
(* A driver runs in a sleepable thread context and, on another CPU, in an  *)
(* interrupt handler that may only use the atomic pool.  Creating and      *)
(* releasing an allocation drops g_alloc_lock around the slow part, so each*)
(* is several actions of its caller.  The DMA calls are only admitted in   *)
(* the sleepable context, one at a time: each is one action.               *)
(***************************************************************************)
EXTENDS Integers, Sequences, FiniteSets

LOCAL INSTANCE FiniteSetsExt
LOCAL INSTANCE SequencesExt

CONSTANTS
    DmaOwner,      \* driver identities
    AllocSlots,    \* DRIVER_MAX_ALLOCATIONS
    AllocPages,    \* pages of the allocation arena
    AtomicSlots,   \* slots of the atomic pool of one owner
    AllocBudget,   \* DRIVER_ALLOCATION_BUDGET_BYTES, in pages
    DmaPages,      \* pages of the coherent window
    BufferSlots,   \* DRIVER_MAX_DMA_BUFFERS
    MappingSlots,  \* DRIVER_MAX_DMA_MAPPINGS
    OwnerBudget,   \* DRIVER_DMA_OWNER_BUDGET, in pages
    GlobalBudget,  \* DRIVER_DMA_GLOBAL_BUDGET, in pages
    MaxSources,    \* DRIVER_DMA_MAX_SOURCES
    Requests,      \* the allocations a driver asks for: [kind, size, high]
    Direction,     \* directions of a mapping: "to", "from" the device, "both"
    MaxAllocGen,   \* bounds on the generations a slot goes through
    MaxDmaGen

VARIABLES alloc, allocBits, atomicBits, call, closing,
          domain, buffer, mapping, dmaBits, coherent

allocVars == <<alloc, allocBits, atomicBits, call>>
dmaVars == <<domain, buffer, mapping, dmaBits, coherent>>
memVars == <<alloc, allocBits, atomicBits, call, closing,
             domain, buffer, mapping, dmaBits, coherent>>

Actor == {"thread", "irq"}

(* A device addresses the low half of memory (mask 1) or all of it (2).    *)
Mask == {1, 2}

NoAlloc(gen) ==
    [state |-> "FREE", gen |-> gen, owner |-> "none", kind |-> "heap",
     size |-> 0, held |-> {}, high |-> FALSE, pins |-> 0]

NoBuffer(gen) ==
    [state |-> "free", gen |-> gen, owner |-> "none", pages |-> {},
     high |-> FALSE]

NoMapping(gen) ==
    [active |-> FALSE, gen |-> gen, owner |-> "none", direction |-> "to",
     sync |-> 0, sources |-> <<>>, bounce |-> 0, high |-> FALSE]

NoDomain == [on |-> FALSE, mask |-> 0, bus |-> FALSE, count |-> 0]

(* driver_manager_identity_accepts_resources.                              *)
Open(o) == closing[o] = "open"

NoCall == [at |-> "idle", slot |-> 0, gen |-> 0]

MemInit ==
    /\ alloc = [s \in 1..AllocSlots |-> NoAlloc(0)]
    /\ allocBits = {}
    /\ atomicBits = [o \in DmaOwner |-> {}]
    /\ call = [a \in Actor |-> NoCall]
    /\ closing = [o \in DmaOwner |-> "open"]
    /\ domain = [o \in DmaOwner |-> NoDomain]
    /\ buffer = [b \in 1..BufferSlots |-> NoBuffer(0)]
    /\ mapping = [m \in 1..MappingSlots |-> NoMapping(0)]
    /\ dmaBits = {}
    /\ coherent = 0

-----------------------------------------------------------------------------
(* Allocations.                                                            *)

FreeRun(bits, total, n) ==
    {f \in 0..(total - n) : (f..(f + n - 1)) \cap bits = {}}

(* owner_bytes_locked: every record that is not FREE is charged.           *)
Charged(o) ==
    MapThenSumSet(LAMBDA s : alloc[s].size,
        {s \in 1..AllocSlots : alloc[s].state # "FREE" /\ alloc[s].owner = o})

WithinBudget(o, size) == Charged(o) + size <= AllocBudget

FreeAlloc == {s \in 1..AllocSlots : alloc[s].state = "FREE"}

(* A driver's release, or driver_allocation_release_owner, which runs once *)
(* the DMA layer holds nothing of the owner.                               *)
MayCall(a, o) ==
    \/ Open(o)
    \/ a = "thread" /\ closing[o] = "exit"
    \/ a = "thread" /\ closing[o] = "done" /\ ~domain[o].on

ContextAllows(a, kind) == a = "thread" \/ kind = "atomic"

(* driver_alloc_create up to the backing store: the record becomes PENDING *)
(* and an atomic slot or a run of pages is taken under the same lock; heap *)
(* memory comes from kmalloc.  ok says whether the map or kmalloc works.   *)
CreateBegin(a, o, kind, size, high, ok) ==
    /\ call[a].at = "idle"
    /\ Open(o)
    /\ ContextAllows(a, kind)
    /\ WithinBudget(o, size)
    /\ FreeAlloc # {}
    /\ LET s == Min(FreeAlloc)
           gen == alloc[s].gen + 1
           slots == (1..AtomicSlots) \ atomicBits[o]
           runs == FreeRun(allocBits, AllocPages, size)
           got == /\ ok
                  /\ kind = "atomic" => slots # {}
                  /\ kind = "pages" => runs # {}
           held == CASE ~got -> {}
                     [] kind = "atomic" -> {Min(slots)}
                     [] kind = "pages" -> Min(runs)..(Min(runs) + size - 1)
                     [] OTHER -> {}
       IN  /\ gen <= MaxAllocGen
           /\ alloc' = [alloc EXCEPT ![s] =
                  [NoAlloc(gen) EXCEPT !.state = "PENDING", !.owner = o,
                      !.kind = kind, !.size = size, !.held = held,
                      !.high = high]]
           /\ allocBits' = IF kind = "pages" THEN allocBits \cup held
                                             ELSE allocBits
           /\ atomicBits' = IF kind = "atomic"
                            THEN [atomicBits EXCEPT ![o] = @ \cup held]
                            ELSE atomicBits
           /\ call' = [call EXCEPT ![a] =
                  [at |-> IF got THEN "register" ELSE "undo",
                   slot |-> s, gen |-> gen]]
    /\ UNCHANGED <<closing, dmaVars>>

(* driver_resource_register: refused once the driver no longer accepts     *)
(* resources, or when the resource table is full (ok = FALSE).             *)
CreateRegister(a, ok) ==
    /\ call[a].at = "register"
    /\ call' = [call EXCEPT ![a].at =
           IF ok /\ Open(alloc[call[a].slot].owner) THEN "publish" ELSE "undo"]
    /\ UNCHANGED <<alloc, allocBits, atomicBits, closing, dmaVars>>

(* Giving a record's backing store and the record back.                    *)
Returned(s) ==
    /\ alloc' = [alloc EXCEPT ![s] = NoAlloc(@.gen)]
    /\ allocBits' = IF alloc[s].kind = "pages"
                    THEN allocBits \ alloc[s].held ELSE allocBits
    /\ atomicBits' = IF alloc[s].kind = "atomic"
                     THEN [atomicBits EXCEPT
                               ![alloc[s].owner] = @ \ alloc[s].held]
                     ELSE atomicBits

CreateUndo(a) ==
    /\ call[a].at = "undo"
    /\ Returned(call[a].slot)
    /\ call' = [call EXCEPT ![a] = NoCall]
    /\ UNCHANGED <<closing, dmaVars>>

CreatePublish(a) ==
    /\ call[a].at = "publish"
    /\ alloc' = [alloc EXCEPT ![call[a].slot].state = "ACTIVE"]
    /\ call' = [call EXCEPT ![a] = NoCall]
    /\ UNCHANGED <<allocBits, atomicBits, closing, dmaVars>>

LiveAlloc(o, h) ==
    /\ alloc[h.slot].state = "ACTIVE"
    /\ alloc[h.slot].gen = h.gen
    /\ alloc[h.slot].owner = o

(* Mutant: a pinned allocation may be released.                            *)
ReleasableAlways(s) == TRUE

Releasable(s) == alloc[s].pins = 0

ReleaseBegin(a, o, h) ==
    /\ call[a].at = "idle"
    /\ LiveAlloc(o, h)
    /\ MayCall(a, o)
    /\ ContextAllows(a, alloc[h.slot].kind)
    /\ Releasable(h.slot)
    /\ alloc' = [alloc EXCEPT ![h.slot].state = "RELEASING"]
    /\ call' = [call EXCEPT ![a] = [at |-> "free", slot |-> h.slot,
                                    gen |-> h.gen]]
    /\ UNCHANGED <<allocBits, atomicBits, closing, dmaVars>>

(* The backing store is freed without the lock; an unmap of pages that the *)
(* TLB shootdown does not confirm quarantines the record for good.         *)
ReleaseBacking(a, ok) ==
    LET s == call[a].slot
    IN  /\ call[a].at = "free"
        /\ ok \/ alloc[s].kind = "pages"
        /\ IF ok
           THEN /\ call' = [call EXCEPT ![a].at = "finish"]
                /\ UNCHANGED alloc
           ELSE /\ alloc' = [alloc EXCEPT ![s].state = "QUARANTINED"]
                /\ call' = [call EXCEPT ![a] = NoCall]
        /\ UNCHANGED <<allocBits, atomicBits, closing, dmaVars>>

ReleaseFinish(a) ==
    /\ call[a].at = "finish"
    /\ Returned(call[a].slot)
    /\ call' = [call EXCEPT ![a] = NoCall]
    /\ UNCHANGED <<closing, dmaVars>>

-----------------------------------------------------------------------------
(* DMA.  Each owner has one bound device and so at most one domain.        *)

Sleepable == call["thread"].at = "idle"

(* The driver itself calls from its entry points and from driver_exit.     *)
DriverCalls(o) == Sleepable /\ closing[o] \in {"open", "exit"}

PrepareDevice(o) ==
    /\ Sleepable /\ Open(o) /\ ~domain[o].on
    /\ domain' = [domain EXCEPT ![o] = [NoDomain EXCEPT !.on = TRUE]]
    /\ UNCHANGED <<allocVars, closing, buffer, mapping, dmaBits, coherent>>

MaskMayChange(o) == domain[o].count = 0 /\ ~domain[o].bus

SetMask(o, mask) ==
    /\ DriverCalls(o) /\ domain[o].on /\ MaskMayChange(o)
    /\ domain' = [domain EXCEPT ![o].mask = mask]
    /\ UNCHANGED <<allocVars, closing, buffer, mapping, dmaBits, coherent>>

EnableBus(o) ==
    /\ Sleepable /\ Open(o) /\ domain[o].on /\ domain[o].mask # 0
    /\ domain' = [domain EXCEPT ![o].bus = TRUE]
    /\ UNCHANGED <<allocVars, closing, buffer, mapping, dmaBits, coherent>>

DisableBus(o) ==
    /\ DriverCalls(o) /\ domain[o].on
    /\ domain' = [domain EXCEPT ![o].bus = FALSE]
    /\ UNCHANGED <<allocVars, closing, buffer, mapping, dmaBits, coherent>>

(* owner_bytes_locked of the DMA layer charges active buffers only.        *)
CoherentOf(o) ==
    MapThenSumSet(LAMBDA b : Cardinality(buffer[b].pages),
        {b \in 1..BufferSlots : buffer[b].state = "active"
                                /\ buffer[b].owner = o})

FreeBuffers == {b \in 1..BufferSlots : buffer[b].state = "free"}

(* The buffer, if any, an allocation of n pages gets; high memory only for *)
(* a device that addresses it.                                             *)
BufferFits(o, n, high) ==
    /\ Open(o) /\ domain[o].on /\ domain[o].mask # 0
    /\ CoherentOf(o) + n <= OwnerBudget
    /\ coherent + n <= GlobalBudget
    /\ FreeBuffers # {}
    /\ FreeRun(dmaBits, DmaPages, n) # {}
    /\ high => domain[o].mask = 2
    /\ buffer[Min(FreeBuffers)].gen < MaxDmaGen

NewBuffer(o, n, high) ==
    LET b == Min(FreeBuffers)
        f == Min(FreeRun(dmaBits, DmaPages, n))
    IN  [buffer EXCEPT ![b] =
            [state |-> "active", gen |-> @.gen + 1, owner |-> o,
             pages |-> f..(f + n - 1), high |-> high]]

NewBits(n) ==
    LET f == Min(FreeRun(dmaBits, DmaPages, n))
    IN  dmaBits \cup f..(f + n - 1)

AllocCoherent(o, n, high) ==
    /\ Sleepable /\ BufferFits(o, n, high)
    /\ buffer' = NewBuffer(o, n, high)
    /\ dmaBits' = NewBits(n)
    /\ coherent' = coherent + n
    /\ domain' = [domain EXCEPT ![o].count = @ + 1]
    /\ UNCHANGED <<allocVars, closing, mapping>>

(* driver_dma_free_coherent: the buffer leaves service first; when its     *)
(* pages cannot be unmapped it stays quarantined, still charged.           *)
BufferFreed(b, ok) ==
    /\ buffer' = [buffer EXCEPT ![b] =
           IF ok THEN NoBuffer(@.gen) ELSE [@ EXCEPT !.state = "quarantined"]]
    /\ dmaBits' = IF ok THEN dmaBits \ buffer[b].pages ELSE dmaBits
    /\ coherent' = IF ok THEN coherent - Cardinality(buffer[b].pages)
                         ELSE coherent

Uncounted(ok) == IF ok THEN 1 ELSE 0

FreeCoherent(o, b, gen, ok) ==
    /\ DriverCalls(o)
    /\ buffer[b].state = "active" /\ buffer[b].gen = gen
    /\ buffer[b].owner = o
    /\ \A m \in 1..MappingSlots : mapping[m].bounce # b  \* never handed out
    /\ BufferFreed(b, ok)
    /\ domain' = [domain EXCEPT ![o].count = @ - Uncounted(ok)]
    /\ UNCHANGED <<allocVars, closing, mapping>>

FreeMappings == {m \in 1..MappingSlots : ~mapping[m].active}

(* driver_dma_map_sg: each source is pinned in turn; a source that cannot  *)
(* be pinned, a full mapping table or a bounce buffer that cannot be had   *)
(* unpins what was pinned and frees the bounce buffer, so a failing call   *)
(* changes nothing.  Sources the device cannot reach go through a bounce   *)
(* buffer in low memory.                                                   *)
Pinnable(o, h) == LiveAlloc(o, h) /\ alloc[h.slot].kind # "atomic"

Occurrences(s, sources) ==
    Cardinality({i \in DOMAIN sources : sources[i].slot = s})

Pinned(sources) ==
    [s \in 1..AllocSlots |->
        [alloc[s] EXCEPT !.pins = @ + Occurrences(s, sources)]]

TotalSize(sources) ==
    MapThenSumSet(LAMBDA i : alloc[sources[i].slot].size, DOMAIN sources)

MapSg(o, sources, direction) ==
    LET anyHigh == \E i \in DOMAIN sources : alloc[sources[i].slot].high
        bounced == anyHigh /\ domain[o].mask = 1
        n == TotalSize(sources)
        m == Min(FreeMappings)
    IN  /\ Sleepable /\ Open(o)
        /\ domain[o].on /\ domain[o].mask # 0
        /\ \A i \in DOMAIN sources : Pinnable(o, sources[i])
        /\ FreeMappings # {}
        /\ mapping[m].gen < MaxDmaGen
        /\ IF bounced
           THEN /\ BufferFits(o, n, FALSE)
                /\ buffer' = NewBuffer(o, n, FALSE)
                /\ dmaBits' = NewBits(n)
                /\ coherent' = coherent + n
                /\ domain' = [domain EXCEPT ![o].count = @ + 2]
           ELSE /\ domain' = [domain EXCEPT ![o].count = @ + 1]
                /\ UNCHANGED <<buffer, dmaBits, coherent>>
        /\ alloc' = Pinned(sources)
        /\ mapping' = [mapping EXCEPT ![m] =
               [active |-> TRUE, gen |-> @.gen + 1, owner |-> o,
                direction |-> direction, sync |-> 1, sources |-> sources,
                bounce |-> IF bounced THEN Min(FreeBuffers) ELSE 0,
                high |-> anyHigh /\ ~bounced]]
        /\ UNCHANGED <<allocBits, atomicBits, call, closing>>

MappingOf(o, m, gen) ==
    mapping[m].active /\ mapping[m].gen = gen /\ mapping[m].owner = o

SyncForCpu(o, m, gen) ==
    /\ DriverCalls(o) /\ MappingOf(o, m, gen)
    /\ mapping[m].direction # "to" /\ mapping[m].sync = 1
    /\ mapping' = [mapping EXCEPT ![m].sync = 2]
    /\ UNCHANGED <<allocVars, closing, domain, buffer, dmaBits, coherent>>

SyncForDevice(o, m, gen) ==
    /\ DriverCalls(o) /\ MappingOf(o, m, gen)
    /\ mapping[m].direction # "to" /\ mapping[m].sync = 2
    /\ mapping' = [mapping EXCEPT ![m].sync = 1]
    /\ UNCHANGED <<allocVars, closing, domain, buffer, dmaBits, coherent>>

(* The part of driver_dma_unmap behind its checks: the mapping goes, its   *)
(* sources are unpinned and its bounce buffer is freed.                    *)
Unmapped(o, m, ok) ==
    LET b == mapping[m].bounce
    IN  /\ mapping' = [mapping EXCEPT ![m] = NoMapping(@.gen)]
        /\ alloc' = [s \in 1..AllocSlots |->
               [alloc[s] EXCEPT !.pins =
                   @ - Occurrences(s, mapping[m].sources)]]
        /\ IF b # 0
           THEN /\ BufferFreed(b, ok)
                /\ domain' = [domain EXCEPT ![o].count =
                                  @ - 1 - Uncounted(ok)]
           ELSE /\ ok
                /\ domain' = [domain EXCEPT ![o].count = @ - 1]
                /\ UNCHANGED <<buffer, dmaBits, coherent>>
        /\ UNCHANGED <<allocBits, atomicBits, call, closing>>

DmaUnmap(o, m, gen, ok) ==
    /\ DriverCalls(o) /\ MappingOf(o, m, gen)
    /\ mapping[m].direction = "to" \/ mapping[m].sync = 2
    /\ Unmapped(o, m, ok)

-----------------------------------------------------------------------------
(* Unloading the driver.                                                   *)

(* driver_manager_begin_quiesce closes the owner to new resources;         *)
(* driver_dma_quiesce_owner turns bus mastering off.                       *)
Quiesce(o) ==
    /\ Sleepable /\ Open(o)
    /\ closing' = [closing EXCEPT ![o] = "exit"]
    /\ domain' = [domain EXCEPT ![o].bus = FALSE]
    /\ UNCHANGED <<allocVars, buffer, mapping, dmaBits, coherent>>

(* driver_exit has returned.                                               *)
ReleaseOwner(o) ==
    /\ Sleepable /\ closing[o] = "exit"
    /\ closing' = [closing EXCEPT ![o] = "unmapping"]
    /\ UNCHANGED <<allocVars, dmaVars>>

MappingsOf(o) ==
    {m \in 1..MappingSlots : mapping[m].active /\ mapping[m].owner = o}

BuffersOf(o) ==
    {b \in 1..BufferSlots : buffer[b].state = "active" /\ buffer[b].owner = o}

(* driver_dma_release_owner, one object at a time: the mappings (made      *)
(* ready for the CPU first), then the buffers up to the first whose unmap  *)
(* fails, then the domain when nothing counts on it any more.              *)
ReleaseMapping(o, ok) ==
    /\ Sleepable /\ closing[o] = "unmapping" /\ MappingsOf(o) # {}
    /\ Unmapped(o, Min(MappingsOf(o)), ok)

ReleaseMappingsDone(o) ==
    /\ Sleepable /\ closing[o] = "unmapping" /\ MappingsOf(o) = {}
    /\ closing' = [closing EXCEPT ![o] = "freeing"]
    /\ UNCHANGED <<allocVars, dmaVars>>

ReleaseBuffer(o, ok) ==
    /\ Sleepable /\ closing[o] = "freeing" /\ BuffersOf(o) # {}
    /\ BufferFreed(Min(BuffersOf(o)), ok)
    /\ domain' = [domain EXCEPT ![o].count = @ - Uncounted(ok)]
    /\ closing' = IF ok THEN closing ELSE [closing EXCEPT ![o] = "domain"]
    /\ UNCHANGED <<allocVars, mapping>>

ReleaseDomain(o) ==
    /\ Sleepable
    /\ closing[o] = "domain" \/ (closing[o] = "freeing" /\ BuffersOf(o) = {})
    /\ domain' = IF domain[o].count = 0
                 THEN [domain EXCEPT ![o] = NoDomain] ELSE domain
    /\ closing' = [closing EXCEPT ![o] = "done"]
    /\ UNCHANGED <<allocVars, buffer, mapping, dmaBits, coherent>>

-----------------------------------------------------------------------------
AllocHandle == [slot : 1..AllocSlots, gen : 1..MaxAllocGen]

SourceLists == UNION {[1..n -> AllocHandle] : n \in 1..MaxSources}

AllocStep(a) ==
    \/ \E o \in DmaOwner, r \in Requests, ok \in BOOLEAN :
           CreateBegin(a, o, r.kind, r.size, r.high, ok)
    \/ \E ok \in BOOLEAN : CreateRegister(a, ok) \/ ReleaseBacking(a, ok)
    \/ CreateUndo(a) \/ CreatePublish(a) \/ ReleaseFinish(a)
    \/ \E o \in DmaOwner, h \in AllocHandle : ReleaseBegin(a, o, h)

DmaNext ==
    \E o \in DmaOwner :
        \/ PrepareDevice(o) \/ EnableBus(o) \/ DisableBus(o) \/ Quiesce(o)
        \/ \E mask \in Mask : SetMask(o, mask)
        \/ \E n \in 1..DmaPages, high \in BOOLEAN : AllocCoherent(o, n, high)
        \/ \E b \in 1..BufferSlots, gen \in 1..MaxDmaGen, ok \in BOOLEAN :
               FreeCoherent(o, b, gen, ok)
        \/ \E sources \in SourceLists, direction \in Direction :
               MapSg(o, sources, direction)
        \/ \E m \in 1..MappingSlots, gen \in 1..MaxDmaGen :
               \/ SyncForCpu(o, m, gen) \/ SyncForDevice(o, m, gen)
               \/ \E ok \in BOOLEAN : DmaUnmap(o, m, gen, ok)
        \/ \E ok \in BOOLEAN : ReleaseMapping(o, ok) \/ ReleaseBuffer(o, ok)
        \/ ReleaseOwner(o) \/ ReleaseMappingsDone(o) \/ ReleaseDomain(o)

MemNext == DmaNext \/ \E a \in Actor : AllocStep(a)

MemSpec == MemInit /\ [][MemNext]_memVars

-----------------------------------------------------------------------------
MemTypeOK ==
    /\ \A s \in 1..AllocSlots :
           /\ alloc[s].state \in
                  {"FREE", "PENDING", "ACTIVE", "RELEASING", "QUARANTINED"}
           /\ alloc[s].gen \in 0..MaxAllocGen
           /\ alloc[s].owner \in DmaOwner \cup {"none"}
           /\ alloc[s].pins \in Nat
    /\ allocBits \subseteq 0..AllocPages - 1
    /\ \A a \in Actor : call[a].at \in
           {"idle", "register", "undo", "publish", "free", "finish"}
    /\ \A o \in DmaOwner :
           /\ closing[o] \in
                  {"open", "exit", "unmapping", "freeing", "domain", "done"}
           /\ domain[o].count \in Nat /\ domain[o].mask \in Mask \cup {0}
    /\ dmaBits \subseteq 0..DmaPages - 1 /\ coherent \in Nat

HoldingPages == {s \in 1..AllocSlots : alloc[s].kind = "pages"}
HoldingAtomic(o) ==
    {s \in 1..AllocSlots : alloc[s].kind = "atomic" /\ alloc[s].owner = o}

(* The page bitmap and each owner's atomic pool hold exactly what the      *)
(* records hold, and no page or atomic slot belongs to two records, while  *)
(* a thread and an interrupt handler create and release at the same time   *)
(* and every step may fail: nothing is leaked by an undo path and a        *)
(* quarantined run is never handed out again.                              *)
BackingExact ==
    /\ allocBits = UNION {alloc[s].held : s \in HoldingPages}
    /\ \A s, t \in HoldingPages :
           s # t => alloc[s].held \cap alloc[t].held = {}
    /\ \A o \in DmaOwner :
           /\ atomicBits[o] = UNION {alloc[s].held : s \in HoldingAtomic(o)}
           /\ \A s, t \in HoldingAtomic(o) :
                  s # t => alloc[s].held \cap alloc[t].held = {}

(* An owner never holds more than its budget: what a creation under way on *)
(* another CPU will need, and what a failed release left quarantined, is   *)
(* charged from the moment it is reserved.                                 *)
AllocBudgetHolds ==
    \A o \in DmaOwner :
        MapThenSumSet(LAMBDA s : alloc[s].size,
            {s \in 1..AllocSlots : alloc[s].owner = o}) <= AllocBudget

UsesOf(s) ==
    MapThenSumSet(LAMBDA m : Occurrences(s, mapping[m].sources),
        {m \in 1..MappingSlots : mapping[m].active})

(* Memory a device may write is not freed: an allocation's pin count is    *)
(* the number of times live DMA mappings name it, and every source of a    *)
(* live mapping is still the ACTIVE allocation it was when it was pinned.  *)
PinnedWhileMapped ==
    /\ \A s \in 1..AllocSlots : alloc[s].pins = UsesOf(s)
    /\ \A m \in 1..MappingSlots : mapping[m].active =>
           \A i \in DOMAIN mapping[m].sources :
               LiveAlloc(mapping[m].owner, mapping[m].sources[i])

(* A domain counts its live mappings and its buffers, quarantined ones     *)
(* included: it outlives every object that names its slot, and neither the *)
(* mask nor the domain can change under them.                              *)
DomainCountExact ==
    \A o \in DmaOwner :
        /\ domain[o].count = Cardinality(MappingsOf(o))
               + Cardinality({b \in 1..BufferSlots :
                     buffer[b].state # "free" /\ buffer[b].owner = o})
        /\ domain[o].count > 0 => domain[o].on

(* Every address a device was given is one it can reach: buffers and       *)
(* unbounced mappings in high memory exist only under a full mask, however *)
(* the mask, the mappings and the bus are changed in between.              *)
WithinMask ==
    /\ \A b \in 1..BufferSlots :
           buffer[b].high => domain[buffer[b].owner].mask = 2
    /\ \A m \in 1..MappingSlots :
           mapping[m].high => domain[mapping[m].owner].mask = 2

(* The coherent window: its bitmap and its byte count are those of the     *)
(* buffers not free, and no page belongs to two of them.                   *)
CoherentExact ==
    /\ dmaBits = UNION {buffer[b].pages : b \in 1..BufferSlots}
    /\ coherent = Cardinality(dmaBits)
    /\ coherent = MapThenSumSet(LAMBDA b : Cardinality(buffer[b].pages),
                                1..BufferSlots)
    /\ coherent <= GlobalBudget

(* After driver_dma_release_owner no allocation of the owner is pinned, so *)
(* driver_allocation_release_owner can free them all; the domain is gone   *)
(* unless a buffer is stuck, and no bus mastering is left on.              *)
TeardownUnpins ==
    \A o \in DmaOwner : closing[o] = "done" =>
        /\ \A s \in 1..AllocSlots : alloc[s].owner = o => alloc[s].pins = 0
        /\ ~domain[o].bus
        /\ domain[o].on => \E b \in 1..BufferSlots :
               buffer[b].state # "free" /\ buffer[b].owner = o
====
