---- MODULE DriverArena ----
(***************************************************************************)
(* The virtual address arena of driver images (kernel/driver/driver_va.cpp)*)
(* and the MMIO window (kernel/driver/driver_mmio.cpp).                    *)
(*                                                                         *)
(* The image arena is a sorted table of free extents and a table of        *)
(* records; every operation runs under g_va_lock and is one action.  The   *)
(* MMIO window is a page bitmap with shared, reference-counted mappings;   *)
(* its unmap drops the lock between taking the mapping down and giving     *)
(* the pages back, so it is three actions of a caller.                     *)
(***************************************************************************)
EXTENDS Integers, Sequences, FiniteSets

LOCAL INSTANCE SequencesExt
LOCAL INSTANCE FiniteSetsExt

CONSTANTS
    ArenaPages,   \* pages of the image arena
    GuardPages,   \* DRIVER_IMAGE_VA_GUARD_PAGES
    VaSlots,      \* DRIVER_IMAGE_VA_MAX_ALLOCATIONS; extents: one more
    VaOwner,      \* driver identities
    MaxVaGen,     \* bound on the generations a slot goes through
    MmioPages,    \* pages of the MMIO window
    MmioSlots,    \* DRIVER_MAX_MMIO_MAPPINGS
    MmioCaller,   \* contexts that call the MMIO layer at the same time
    Window,       \* the BAR ranges a driver may ask for: [owner, pages]
    MaxMmioGen

VARIABLES extents, vaRecord, mmio, mmioPages, mmioBad, mmioFree, pageTable,
          unmapping

arenaVars == <<extents, vaRecord>>
mmioVars == <<mmio, mmioPages, mmioBad, mmioFree, pageTable, unmapping>>

MaxExtents == VaSlots + 1

-----------------------------------------------------------------------------
(* The image arena.  Pages are numbered from the arena's base.             *)

NoVaRecord(gen) ==
    [active |-> FALSE, quarantined |-> FALSE, gen |-> gen, owner |-> "none",
     base |-> 0, pages |-> 0, usable |-> 0]

ExtentEnd(e) == e.base + e.pages

RecordEnd(r) == r.base + r.pages

ArenaInit ==
    /\ extents = <<[base |-> 0, pages |-> ArenaPages]>>
    /\ vaRecord = [s \in 1..VaSlots |-> NoVaRecord(0)]

(* The slots of the table that pass a test, lowest first.                  *)
FirstOf(S) == Min(S)

FreeVaSlots == {s \in 1..VaSlots : ~vaRecord[s].active}

Fitting(pages) == {i \in DOMAIN extents : extents[i].pages >= pages}

(* Taking pages from the base of an extent; an empty extent is removed.    *)
TakeFrom(i, pages) ==
    LET e == extents[i]
    IN  IF e.pages = pages
        THEN RemoveAt(extents, i)
        ELSE [extents EXCEPT ![i] = [base |-> e.base + pages,
                                     pages |-> e.pages - pages]]

ReservedPages(pages) == pages + 2 * GuardPages

VaAllocate(owner, pages) ==
    LET reserved == ReservedPages(pages)
    IN  /\ FreeVaSlots # {}
        /\ Fitting(reserved) # {}
        /\ LET s == FirstOf(FreeVaSlots)
               i == FirstOf(Fitting(reserved))
           IN  /\ vaRecord[s].gen < MaxVaGen
               /\ vaRecord' = [vaRecord EXCEPT ![s] =
                      [active |-> TRUE, quarantined |-> FALSE,
                       gen |-> @.gen + 1, owner |-> owner,
                       base |-> extents[i].base, pages |-> reserved,
                       usable |-> pages]]
               /\ extents' = TakeFrom(i, reserved)
        /\ UNCHANGED mmioVars

(* The first position whose extent lies behind the returned range.         *)
InsertPosition(base) ==
    LET behind == {i \in DOMAIN extents : extents[i].base >= base}
    IN  IF behind = {} THEN Len(extents) + 1 ELSE FirstOf(behind)

InsertFits(base, pages) ==
    LET i == InsertPosition(base)
    IN  /\ Len(extents) < MaxExtents
        /\ base + pages <= ArenaPages
        /\ i > 1 => ExtentEnd(extents[i - 1]) <= base
        /\ i <= Len(extents) => base + pages <= extents[i].base

(* Mutant: the returned range is not joined with the extent behind it.     *)
InsertExtentLeftOnly(base, pages) ==
    LET i == InsertPosition(base)
        left == i > 1 /\ ExtentEnd(extents[i - 1]) = base
    IN  IF left
        THEN [extents EXCEPT ![i - 1].pages = @ + pages]
        ELSE InsertAt(extents, i, [base |-> base, pages |-> pages])

InsertExtent(base, pages) ==
    LET i == InsertPosition(base)
        left == i > 1 /\ ExtentEnd(extents[i - 1]) = base
        right == i <= Len(extents) /\ base + pages = extents[i].base
        grown == IF left
                 THEN [base |-> extents[i - 1].base,
                       pages |-> extents[i - 1].pages + pages]
                 ELSE [base |-> base, pages |-> pages]
        joined == IF right
                  THEN [grown EXCEPT !.pages = @ + extents[i].pages]
                  ELSE grown
    IN  SubSeq(extents, 1, IF left THEN i - 2 ELSE i - 1)
            \o <<joined>>
            \o SubSeq(extents, IF right THEN i + 1 ELSE i, Len(extents))

VaResolves(owner, s, gen) ==
    /\ vaRecord[s].active
    /\ vaRecord[s].gen = gen
    /\ vaRecord[s].owner = owner

MayRelease(r) == ~r.quarantined

VaRelease(owner, s, gen) ==
    /\ VaResolves(owner, s, gen)
    /\ MayRelease(vaRecord[s])
    /\ InsertFits(vaRecord[s].base, vaRecord[s].pages)
    /\ extents' = InsertExtent(vaRecord[s].base, vaRecord[s].pages)
    /\ vaRecord' = [vaRecord EXCEPT ![s] = NoVaRecord(gen)]
    /\ UNCHANGED mmioVars

VaQuarantine(owner, s, gen) ==
    /\ VaResolves(owner, s, gen)
    /\ vaRecord' = [vaRecord EXCEPT ![s].quarantined = TRUE]
    /\ UNCHANGED extents
    /\ UNCHANGED mmioVars

VaNext ==
    \E owner \in VaOwner :
        \/ \E pages \in 1..ArenaPages : VaAllocate(owner, pages)
        \/ \E s \in 1..VaSlots, gen \in 1..MaxVaGen :
               \/ VaRelease(owner, s, gen)
               \/ VaQuarantine(owner, s, gen)

-----------------------------------------------------------------------------
(* The MMIO window.                                                        *)

NoMmio(gen) ==
    [active |-> FALSE, quarantined |-> FALSE, gen |-> gen, window |-> "none",
     first |-> 0, refs |-> 0]

Run(first, n) == first .. (first + n - 1)

PagesOf(w) == Window[w].pages

MmioRange(r) ==
    IF r.window = "none" THEN {} ELSE Run(r.first, PagesOf(r.window))

Idle == [at |-> "idle", slot |-> 0]

MmioInit ==
    /\ mmio = [s \in 1..MmioSlots |-> NoMmio(0)]
    /\ mmioPages = {}
    /\ mmioBad = {}
    /\ mmioFree = MmioPages
    /\ pageTable = {}
    /\ unmapping = [c \in MmioCaller |-> Idle]

(* reserve_pages: the first run free in both bitmaps.                      *)
FreeRuns(n) ==
    {f \in 0..(MmioPages - n) : Run(f, n) \cap (mmioPages \cup mmioBad) = {}}

SharedMmio(w) == {s \in 1..MmioSlots : mmio[s].active /\ mmio[s].window = w}

FreeMmioSlots ==
    {s \in 1..MmioSlots : ~mmio[s].active /\ ~mmio[s].quarantined}

(* driver_mmio_map: a range already mapped is shared; otherwise pages, page*)
(* table entries and the resource row are taken under the lock, and a      *)
(* failure (mapped = FALSE) undoes all of them but the generation.         *)
MmioMap(c, w, mapped) ==
    /\ unmapping[c].at = "idle"
    /\ IF SharedMmio(w) # {}
       THEN /\ mapped
            /\ mmio[FirstOf(SharedMmio(w))].refs <= MmioSlots
            /\ mmio' = [mmio EXCEPT ![FirstOf(SharedMmio(w))].refs = @ + 1]
            /\ UNCHANGED <<mmioPages, mmioFree, pageTable>>
       ELSE /\ FreeMmioSlots # {}
            /\ FreeRuns(PagesOf(w)) # {}
            /\ LET s == FirstOf(FreeMmioSlots)
                   f == FirstOf(FreeRuns(PagesOf(w)))
                   run == IF mapped THEN Run(f, PagesOf(w)) ELSE {}
                   gen == mmio[s].gen + 1
               IN  /\ gen <= MaxMmioGen
                   /\ mmio' = [mmio EXCEPT ![s] =
                          IF mapped
                          THEN [active |-> TRUE, quarantined |-> FALSE,
                                gen |-> gen, window |-> w, first |-> f,
                                refs |-> 1]
                          ELSE NoMmio(gen)]
                   /\ mmioPages' = mmioPages \cup run
                   /\ pageTable' = pageTable \cup run
                   /\ mmioFree' = mmioFree - Cardinality(run)
    /\ UNCHANGED <<mmioBad, unmapping>>
    /\ UNCHANGED arenaVars

(* driver_mmio_unmap, first hold of the lock: a shared mapping loses one   *)
(* reference, the last one takes the record out of service.                *)
MmioUnmapBegin(c, s, gen) ==
    /\ \/ unmapping[c].at = "idle"
       \/ unmapping[c].at = "release" /\ unmapping[c].slot = s
    /\ mmio[s].active /\ mmio[s].gen = gen
    /\ IF mmio[s].refs > 1
       THEN /\ mmio' = [mmio EXCEPT ![s].refs = @ - 1]
            /\ unmapping' = [unmapping EXCEPT ![c] = Idle]
       ELSE /\ mmio' = [mmio EXCEPT ![s].refs = 0, ![s].active = FALSE,
                                    ![s].quarantined = TRUE]
            /\ unmapping' = [unmapping EXCEPT ![c] =
                                 [at |-> "unmap", slot |-> s]]
    /\ UNCHANGED <<mmioPages, mmioBad, mmioFree, pageTable>>
    /\ UNCHANGED arenaVars

(* The page tables are cleared without the lock; the TLB shootdown may     *)
(* fail, and then some entries may still be cached.                        *)
MmioUnmapPages(c, ok) ==
    /\ unmapping[c].at = "unmap"
    /\ pageTable' = IF ok THEN pageTable \ MmioRange(mmio[unmapping[c].slot])
                          ELSE pageTable
    /\ unmapping' = [unmapping EXCEPT ![c].at = IF ok THEN "done" ELSE "bad"]
    /\ UNCHANGED <<mmio, mmioPages, mmioBad, mmioFree>>
    /\ UNCHANGED arenaVars

(* The lock is taken again: the pages go back to the window, or into the   *)
(* quarantine bitmap while the record stays quarantined for ever.          *)
MmioUnmapEnd(c) ==
    LET s == unmapping[c].slot
        run == MmioRange(mmio[s])
    IN  /\ unmapping[c].at \in {"done", "bad"}
        /\ mmioPages' = mmioPages \ run
        /\ IF unmapping[c].at = "done"
           THEN /\ mmio' = [mmio EXCEPT ![s] = NoMmio(@.gen)]
                /\ mmioFree' = mmioFree + Cardinality(run)
                /\ UNCHANGED mmioBad
           ELSE /\ mmioBad' = mmioBad \cup run
                /\ UNCHANGED <<mmio, mmioFree>>
        /\ unmapping' = [unmapping EXCEPT ![c] = Idle]
        /\ UNCHANGED pageTable
        /\ UNCHANGED arenaVars

(* driver_mmio_release_owner: a mapping of the owner is left with a single *)
(* reference and then unmapped; the lock is dropped in between, and the    *)
(* loop ends when the mapping was unmapped by another caller meanwhile.    *)
MmioReleaseOwner(c, owner) ==
    LET mine == {s \in 1..MmioSlots :
                    mmio[s].active /\ Window[mmio[s].window].owner = owner}
    IN  /\ unmapping[c].at = "idle"
        /\ mine # {}
        /\ LET s == FirstOf(mine)
           IN  /\ mmio' = [mmio EXCEPT ![s].refs = 1]
               /\ unmapping' = [unmapping EXCEPT ![c] =
                                    [at |-> "release", slot |-> s]]
        /\ UNCHANGED <<mmioPages, mmioBad, mmioFree, pageTable>>
        /\ UNCHANGED arenaVars

MmioReleaseLost(c) ==
    /\ unmapping[c].at = "release"
    /\ ~mmio[unmapping[c].slot].active
    /\ unmapping' = [unmapping EXCEPT ![c] = Idle]
    /\ UNCHANGED <<mmio, mmioPages, mmioBad, mmioFree, pageTable>>
    /\ UNCHANGED arenaVars

MmioNext ==
    \E c \in MmioCaller :
        \/ \E w \in DOMAIN Window, mapped \in BOOLEAN : MmioMap(c, w, mapped)
        \/ \E s \in 1..MmioSlots, gen \in 1..MaxMmioGen :
               MmioUnmapBegin(c, s, gen)
        \/ \E ok \in BOOLEAN : MmioUnmapPages(c, ok)
        \/ MmioUnmapEnd(c)
        \/ \E owner \in VaOwner : MmioReleaseOwner(c, owner)
        \/ MmioReleaseLost(c)

-----------------------------------------------------------------------------
ArenaTypeOK ==
    /\ \A i \in DOMAIN extents :
           extents[i] \in [base : 0..ArenaPages, pages : 1..ArenaPages]
    /\ vaRecord \in [1..VaSlots ->
           [active : BOOLEAN, quarantined : BOOLEAN, gen : 0..MaxVaGen,
            owner : VaOwner \cup {"none"}, base : 0..ArenaPages,
            pages : 0..ArenaPages, usable : 0..ArenaPages]]
    /\ mmio \in [1..MmioSlots ->
           [active : BOOLEAN, quarantined : BOOLEAN, gen : 0..MaxMmioGen,
            window : DOMAIN Window \cup {"none"}, first : 0..MmioPages,
            refs : 0..MmioSlots + 1]]
    /\ mmioFree \in 0..MmioPages
    /\ mmioPages \cup mmioBad \cup pageTable \subseteq 0..MmioPages - 1

LiveVa == {s \in 1..VaSlots : vaRecord[s].active}

(* No page of the arena is lost or handed out twice: the free extents are  *)
(* sorted, never touch each other (insert_extent joins neighbours), and    *)
(* with the records, quarantined ones included, they tile the arena.       *)
ArenaTiled ==
    /\ \A i \in 1..Len(extents) - 1 :
           ExtentEnd(extents[i]) < extents[i + 1].base
    /\ \A s, t \in LiveVa :
           s # t => \/ RecordEnd(vaRecord[s]) <= vaRecord[t].base
                    \/ RecordEnd(vaRecord[t]) <= vaRecord[s].base
    /\ \A s \in LiveVa, i \in DOMAIN extents :
           \/ RecordEnd(vaRecord[s]) <= extents[i].base
           \/ ExtentEnd(extents[i]) <= vaRecord[s].base
    /\ ArenaPages = MapThenSumSet(LAMBDA s : vaRecord[s].pages, LiveVa)
           + MapThenSumSet(LAMBDA i : extents[i].pages, DOMAIN extents)

(* insert_extent refuses when the extent table is full, before it tries to *)
(* join the range with a neighbour.  The table has one entry more than the *)
(* records, and that is enough: whatever the order of allocations and      *)
(* releases, a live record that is not quarantined can always be released. *)
ReleaseAlwaysFits ==
    \A s \in LiveVa : InsertFits(vaRecord[s].base, vaRecord[s].pages)

UsablePages(r) == (r.base + GuardPages) .. (r.base + GuardPages + r.usable - 1)

(* Two images, whenever and wherever they were placed, are at least the    *)
(* guard pages of both apart: an overrun of one faults on its own guard    *)
(* before it reaches another.                                              *)
GuardsHold ==
    \A s, t \in LiveVa :
        s # t => \A p \in UsablePages(vaRecord[s]) :
                     (p - 2 * GuardPages)..(p + 2 * GuardPages)
                         \cap UsablePages(vaRecord[t]) = {}

(* A quarantined range is never given to another image: the record keeps   *)
(* its slot, its generation and its range in every step.                   *)
QuarantineKept ==
    [][\A s \in 1..VaSlots :
           vaRecord[s].quarantined => vaRecord'[s] = vaRecord[s]]_arenaVars

MmioHolders(p) == {s \in 1..MmioSlots : p \in MmioRange(mmio[s])}

(* Every page of the MMIO window belongs to at most one record, a record   *)
(* being unmapped or quarantined included; the bitmaps hold exactly the    *)
(* records' pages and the count of free pages agrees with them.            *)
MmioPagesExact ==
    /\ \A p \in 0..MmioPages - 1 :
           /\ Cardinality(MmioHolders(p)) <= 1
           /\ (p \in mmioPages \cup mmioBad) <=> MmioHolders(p) # {}
    /\ mmioFree = MmioPages - Cardinality(mmioPages \cup mmioBad)

(* driver_mmio_read and write touch the pages of an active record under    *)
(* the lock: those pages are mapped, and mapped for this record only.  A   *)
(* page whose unmap failed stays out of use because the old entry may      *)
(* still be cached.                                                        *)
MmioAccessMapped ==
    /\ \A s \in 1..MmioSlots :
           mmio[s].active => MmioRange(mmio[s]) \subseteq pageTable \ mmioBad
    /\ pageTable \subseteq mmioPages \cup mmioBad

ArenaSpecInit == ArenaInit /\ MmioInit
ArenaSpecNext == VaNext \/ MmioNext
ArenaSpec == ArenaSpecInit /\ [][ArenaSpecNext]_<<arenaVars, mmioVars>>
====
