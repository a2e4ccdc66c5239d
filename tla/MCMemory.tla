------------------------------ MODULE MCMemory ------------------------------
(***************************************************************************)
(* Small instances of the memory side of the kernel: the page allocator,   *)
(* the kernel heap, the loader above the page tables, the checks on an     *)
(* image and its arguments, and the copies between kernel and program.     *)
(* The variable part says which of them this behaviour is about; the       *)
(* others stand still.                                                     *)
(***************************************************************************)
EXTENDS PhysicalMemory, KernelHeap, ProgramLoader, UserImage, UserCopy

CONSTANT Parts
VARIABLE part

\* Overlapping, unaligned, wrapping and out-of-reach boot entries.
MCPmmRanges == {[base |-> b[1], size |-> b[2]] :
                  b \in {<<0, 14>>, <<3, 8>>, <<9, 3>>, <<8, 31>>, <<16, 5>>}}
MCHeapBinLimits == <<4, 8>>

Flat == [elf |-> FALSE, pages |-> <<{}>>]
TwoSegments == [elf |-> TRUE, pages |-> <<{}, {"w"}>>]
MCImages == {Flat, TwoSegments}
MCPool == 300 .. 316
MCArenaPages == 49 .. 51

MCHeaders ==
    {h \in [load : {TRUE}, off : {0, 2}, filesz : {0, 2, 31}, memsz : {0, 2, 6, 31},
            vaddr : {0, 4, 7, 28}, w : BOOLEAN] : h.w => h.memsz = 6}
    \cup {[load |-> FALSE, off |-> 0, filesz |-> 31, memsz |-> 0, vaddr |-> 0, w |-> FALSE]}

MCUcRequests ==
         [op : {"in", "out"}, addr : {0, 3, 6, 7}, n : {0, 1, 3}, m : {1}]
    \cup [op : {"array"}, addr : {2}, n : {0, 2, 3, 5}, m : {0, 2, 3}]
    \cup [op : {"string"}, addr : {3, 6}, n : {1, 2, 4}, m : {0}]
    \cup [op : {"struct"}, addr : {2, 3}, n : {0}, m : {0}]

AnyRecord == Permutations(Records)

imgVars == <<img, line>>
memoryVars == <<pmmVars, heapVars, loaderVars, imgVars, ucVars, part>>

Init ==
    /\ part \in Parts
    /\ PmmStart /\ HeapStart /\ LoaderStart /\ ImageStart /\ CopyStart
    /\ part # "heap" => heap.mapped > 0
    /\ part # "image" => img.valid
    /\ part # "copy" => \A g \in UcPages : ucMap[g] = "none"

Next ==
    \/ /\ part = "pmm" /\ PmmNext
       /\ UNCHANGED <<part, heapVars, loaderVars, imgVars, ucVars>>
    \/ /\ part = "heap" /\ HeapNext
       /\ UNCHANGED <<part, pmmVars, loaderVars, imgVars, ucVars>>
    \/ /\ part = "loader" /\ LoaderNext
       /\ UNCHANGED <<part, pmmVars, heapVars, imgVars, ucVars>>
    \/ /\ part = "image" /\ ImageNext
       /\ UNCHANGED <<part, pmmVars, heapVars, loaderVars, ucVars>>
    \/ /\ part = "copy" /\ CopyNext
       /\ UNCHANGED <<part, pmmVars, heapVars, loaderVars, imgVars>>

Spec == Init /\ [][Next]_memoryVars

(* What a program hands to the kernel is used only inside the bounds it was   *)
(* checked against: an accepted image and its argument block lie in the       *)
(* program's room, and a copy, string or array that succeeds is whole, ended  *)
(* and inside its pages although another thread remaps them.                  *)
CopySound ==
    /\ part = "image" => /\ AcceptedImageInBounds /\ AliasKeepsOffsets
                         /\ WordsAreArguments /\ ArgumentBlockSound
    /\ part = "copy" => /\ CopyStaysInside /\ StructSnapshotConsistent
                        /\ StringTerminated /\ ArrayWhole /\ Utf8Exact

(* The page allocator neither loses nor shares a page from the boot map on,  *)
(* and each of its searches finds a run exactly when there is one.           *)
PmmExact ==
    part = "pmm" =>
        PmmFreeExact /\ HeldDisjoint /\ BootSafe /\ RunSearchComplete /\ ConstrainedComplete

(* The heap's block list tiles the mapped range, its bins hold exactly the   *)
(* free blocks, live blocks stay intact, and a fitting block is found.       *)
HeapExact ==
    part = "heap" =>
        HeapTiles /\ BinsExact /\ NoFreeNeighbours /\ LiveIntact /\ HeapPagesExact /\ FindComplete

(* Launching, growing, aliasing and ending programs keeps every frame in one *)
(* place, the kernel's mappings the same everywhere, regions and tables in   *)
(* agreement, and writable pages from being executable.                      *)
LoaderExact ==
    part = "loader" =>
        /\ KernelSharedByAll /\ FramesExact /\ RegionsAgree /\ WxHolds
        /\ AliasSame /\ NothingLeftMapped
=============================================================================
