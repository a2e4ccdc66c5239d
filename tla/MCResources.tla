---------------------------- MODULE MCResources ----------------------------
(* Instances of the kernel's shared resources: spinlocks, kernel objects    *)
(* and handles, and the memory of drivers (the loader's sections, the image *)
(* arena, the MMIO window, allocations and DMA).  They share no state; part *)
(* names the one that runs.                                                 *)
EXTENDS Spinlock, KernelObjects, DriverImage, DriverArena, DriverDma, TLC

CONSTANTS l1, l2, l3, l4, p1, p2, t1, t2

(* Two locks share a class (two address spaces, or the mailbox and the       *)
(* service registry); one lock was never given a class.                      *)
MCClass == (l1 :> 1) @@ (l2 :> 2) @@ (l3 :> 2) @@ (l4 :> 0)

(* Two processes of one thread each.                                         *)
MCOwner   == t1 :> p1 @@ t2 :> p2
MCCreations == [shared |-> 1, surface |-> 2]
MCHistories == {[shared |-> 1, surface |-> 0], [shared |-> 0, surface |-> 2]}
MCRestarts == p1 :> 0 @@ p2 :> 1
MCObjects == [k \in {"shared", "surface"} |-> 1]

(* A well-formed image of 16 bytes in a 6-bit address space, and the images *)
(* that differ from it in one part, with values at the edges of its ranges. *)
Edge == {0, 1, 4, 8, 12, 15, 16, 17, 60, 62, 63}
Part(o, n) == [offset |-> o, size |-> n]
Sect(k, o, f, m) == [kind |-> k, alignment |-> 4, offset |-> o, file |-> f, memory |-> m]
GoodTable == [t \in Table |-> [offset |-> 8, count |-> 2, entry |-> 2]]
GoodImage ==
    [size |-> 16, headerOk |-> TRUE, manifestOk |-> TRUE, namesOk |-> TRUE,
     signatureOk |-> TRUE, resolvable |-> TRUE, dependencies |-> 0,
     manifest |-> Part(0, 4), signature |-> Part(12, 2), certificate |-> Part(14, 2),
     table |-> GoodTable,
     sections |-> <<Sect("CODE", 0, 6, 6), Sect("DATA", 4, 2, 4)>>,
     symbols |-> <<[section |-> 1, value |-> 2, size |-> 2]>>,
     imports |-> <<[section |-> 2, offset |-> 0]>>,
     exports |-> <<2>>,
     relocations |-> <<[abs |-> FALSE, section |-> 1, offset |-> 4, symbol |-> 1, addend |-> 0]>>]

MCImages ==
    {[GoodImage EXCEPT ![f] = FALSE] :
        f \in {"headerOk", "manifestOk", "namesOk", "signatureOk", "resolvable"}}
    \cup {[GoodImage EXCEPT !.manifest = Part(o, n)] : o, n \in Edge}
    \cup {[GoodImage EXCEPT !.signature = Part(o, n)] : o, n \in Edge}
    \cup {[GoodImage EXCEPT !.certificate = Part(o, n)] : o, n \in Edge}
    \cup {[GoodImage EXCEPT !.dependencies = n] : n \in {1, 2, 7}}
    \cup {[GoodImage EXCEPT !.table["symbol"] = [offset |-> o, count |-> c, entry |-> e]] :
             o \in Edge, c \in 0..3, e \in {1, 2, 7}}
    \cup {[GoodImage EXCEPT !.sections = <<Sect(k, o, f, m), Sect("DATA", 4, 2, 4)>>] :
             k \in {"CODE", "BSS", "RODATA"}, o \in {0, 12, 16, 63}, f \in {0, 4, 6}, m \in Edge}
    \cup {[GoodImage EXCEPT !.sections[1].alignment = a] : a \in {0, 3, 8}}
    \cup {[GoodImage EXCEPT !.symbols[1] = [section |-> s, value |-> v, size |-> n]] :
             s \in 1..3, v \in {0, 5, 6, 7, 63}, n \in {0, 1, 62}}
    \cup {[GoodImage EXCEPT !.imports[1] = [section |-> s, offset |-> o]] : s \in 1..3, o \in 0..7}
    \cup {[GoodImage EXCEPT !.exports[1] = a] : a \in {0, 5, 6, 63}}
    \cup {[GoodImage EXCEPT !.relocations[1] =
               [abs |-> b, section |-> s, offset |-> o, symbol |-> 1, addend |-> d]] :
             b \in BOOLEAN, s \in 1..2, o \in {0, 3, 4, 5, 6, 63}, d \in {-8, -1, 0, 3, 30}}

MCWindow == [bar0 |-> [owner |-> "disk", pages |-> 2],
             bar1 |-> [owner |-> "net", pages |-> 1]]

MCRequests ==
    {[kind |-> k, size |-> IF k = "pages" THEN 2 ELSE 1, high |-> k = "heap"] :
        k \in {"atomic", "pages", "heap"}}

VARIABLE part

memoryVars == <<imageVars, arenaVars, mmioVars, memVars>>
allVars == <<spinVars, objectVars, memoryVars, part>>

(* The parts that do not run keep one of their initial states.               *)
Init ==
    /\ part \in {"locks", "objects", "image", "va", "mmio", "alloc", "dma"}
    /\ SpinInit /\ ObjectsInit /\ ImageInit /\ ArenaInit /\ MmioInit /\ MemInit
    /\ part # "image" => img = GoodImage
    /\ part # "objects" => \A i \in Index("surface") : obj["surface"][i].gen = 0

Next ==
    /\ \/ part = "locks" /\ SpinNext /\ UNCHANGED <<objectVars, memoryVars>>
       \/ part = "objects" /\ ObjectsNext /\ UNCHANGED <<spinVars, memoryVars>>
       \/ /\ part = "image" /\ ImageNext
          /\ UNCHANGED <<spinVars, objectVars, arenaVars, mmioVars, memVars>>
       \/ part = "va" /\ VaNext /\ UNCHANGED <<spinVars, objectVars, imageVars, memVars>>
       \/ part = "mmio" /\ MmioNext /\ UNCHANGED <<spinVars, objectVars, imageVars, memVars>>
       \/ /\ part = "alloc"
          /\ (\E a \in Actor : AllocStep(a)) \/ (\E o \in DmaOwner : Quiesce(o))
          /\ UNCHANGED <<spinVars, objectVars, imageVars, arenaVars, mmioVars>>
       \/ /\ part = "dma"
          /\ AllocStep("thread") \/ DmaNext
          /\ UNCHANGED <<spinVars, objectVars, imageVars, arenaVars, mmioVars>>
    /\ UNCHANGED part

Spec == Init /\ [][Next]_allVars

(* Handles keep what they name: no object is destroyed under a holder and    *)
(* no chain of transfers gives a surface a second writer.                    *)
HandlesSound ==
    part = "objects" =>
        ObjectsTypeOK /\ NoPrematureFree /\ SingleWriter

(* The pages behind surfaces are in one place each and are counted exactly   *)
(* (surface_backing_allocate, its rollback and surface_backing_release).     *)
BackingSound ==
    part = "objects" =>
        FramesExclusive /\ BackingAccounted

(* Whatever the image says, with sums that wrap included, loading it reads   *)
(* the file and writes the sections only inside their bounds, links to the   *)
(* right addresses, never makes a page writable and executable, and a        *)
(* failure gives everything back (driver_loader.cpp, driver_relocate.cpp).   *)
ImageConfined ==
    part = "image" =>
        ReadsInside /\ WritesInside /\ RelativeReaches /\ WriteXorExecute /\ FailureFrees

(* The arena of driver images and the MMIO window neither lose nor share a   *)
(* page, a range can always be given back, guards keep images apart, and an  *)
(* access to a device reaches pages mapped for its own record.  A range that  *)
(* could not be unmapped stays out of use.                                   *)
ArenaExact ==
    /\ [](part \in {"va", "mmio"} =>
            /\ ArenaTypeOK /\ ArenaTiled /\ ReleaseAlwaysFits /\ GuardsHold
            /\ MmioPagesExact /\ MmioAccessMapped)
    /\ QuarantineKept

(* Driver memory is accounted exactly while a thread and an interrupt create *)
(* and release it: pages and budgets agree with the records, what a device   *)
(* may write is pinned and reachable for it, domains outlive their objects,  *)
(* and an owner's teardown leaves nothing pinned.                            *)
DmaExact ==
    part \in {"alloc", "dma"} =>
        /\ MemTypeOK /\ BackingExact /\ AllocBudgetHolds /\ PinnedWhileMapped
        /\ DomainCountExact /\ WithinMask /\ CoherentExact /\ TeardownUnpins
=============================================================================
