-------------------------------- MODULE Fat32 --------------------------------
(***************************************************************************)
(* The FAT32 volume driver: the allocation table, the directory slots with *)
(* their long names, and the operations the VFS calls.  Each operation is  *)
(* one action, for one caller at a time: the driver takes no lock.  A      *)
(* sector write may fail (the ATA disk; the boot RAM disk never does), so  *)
(* the operations are written over a device record that counts the writes  *)
(* and knows which of them fail.                                           *)
(*                                                                         *)
(* Sizes are counted in sectors, a data sector is one value, and the       *)
(* checksum of a short name stands for the name it is computed from.       *)
(***************************************************************************)
EXTENDS Naturals, Sequences, SequencesExt, FiniteSets, TLC

CONSTANTS
    ClusterCount, SectorsPerCluster, SlotsPerSector, FatCopies,
    Names,          \* segments a path may use
    LfnCount,       \* long-name slots each of them needs; 0 for an 8.3 name
    Alias,          \* the short name of a long one, for each serial number
    Values,         \* contents of a data sector
    MaxSectors, MaxDepth,
    FaultyOps       \* operations during which a sector write may fail

\* volTree is the auxiliary variable of the refinement: what a caller who reads
\* every path would see.
VARIABLES vol, volTree, volReply, volFaulted

volVars == <<vol, volTree, volReply, volFaulted>>

ASSUME VolumeAssumption ==
    /\ {ClusterCount, SectorsPerCluster, SlotsPerSector, FatCopies} \subseteq Nat \ {0}
    /\ LfnCount \in [Names -> 0..SlotsPerSector - 1]

Clusters == 2..(ClusterCount + 1)
RootCluster == 2
EndOfChain == ClusterCount + 2
Free == 0

Slot(kind) ==
    [kind |-> kind, short |-> "", long |-> "", order |-> 0, cluster |-> 0, size |-> 0]
Sector(kind) == [i \in 1..SlotsPerSector |-> Slot(kind)]
InUse(slot) == slot.kind \notin {"end", "deleted"}
IsEntry(slot) == slot.kind \in {"file", "dir"}

(************************ the device and the table *************************)
Device(bad) == [fat |-> vol.fat, sec |-> vol.sec, writes |-> 0, bad |-> bad, ok |-> TRUE, out |-> 0]

WriteSector(d, c, s, slots) ==
    LET n == d.writes + 1
    IN  IF n \in d.bad THEN [d EXCEPT !.writes = n, !.ok = FALSE]
        ELSE [d EXCEPT !.writes = n, !.ok = TRUE, !.sec[c][s] = slots]

\* Every copy of the table is written in turn; a failure stops there.
RECURSIVE WriteFatCopies(_, _, _, _)
WriteFatCopies(d, c, v, k) ==
    LET n == d.writes + 1
    IN  IF k > FatCopies THEN [d EXCEPT !.ok = TRUE]
        ELSE IF n \in d.bad THEN [d EXCEPT !.writes = n, !.ok = FALSE]
        ELSE WriteFatCopies([d EXCEPT !.writes = n, !.fat[k][c] = v], c, v, k + 1)
WriteFatEntry(d, c, v) == WriteFatCopies(d, c, v, 1)

ReadFatEntry(d, c) == d.fat[1][c]

FreeClusters(d) == {c \in Clusters : ReadFatEntry(d, c) = Free}

AllocFreeCluster(d) ==
    IF FreeClusters(d) = {} THEN [d EXCEPT !.ok = FALSE]
    ELSE LET c == CHOOSE c \in FreeClusters(d) : \A e \in FreeClusters(d) : c <= e
         IN  [WriteFatEntry(d, c, EndOfChain) EXCEPT !.out = c]

\* What a freed cluster held is forgotten: whoever reads it before writing it
\* finds "stale".
Stale == [s \in 1..SectorsPerCluster |-> Sector("stale")]

IfOk(d, Op(_)) == IF d.ok THEN Op(d) ELSE d

RECURSIVE FreeClusterChain(_, _)
FreeClusterChain(d, c) ==
    IF c \notin Clusters THEN [d EXCEPT !.ok = TRUE]
    ELSE IfOk(WriteFatEntry(d, c, Free), LAMBDA cut :
           LET next == ReadFatEntry(d, c)
               freed == [cut EXCEPT !.sec[c] = Stale]
           IN  IF next = c THEN freed ELSE FreeClusterChain(freed, next))

\* A plausible slip: the clusters of a failed write stay allocated.
AbandonNot(d, first) == [d EXCEPT !.ok = FALSE, !.out = 0]
\* A failure part-way undoes what was allocated and is reported as such.
Abandon(d, first) == [FreeClusterChain(d, first) EXCEPT !.ok = FALSE, !.out = 0]
OrAbandon(d, first) == IF d.ok THEN d ELSE Abandon(d, first)


DataSector(v) == [i \in 1..SlotsPerSector |-> [Slot("data") EXCEPT !.long = v]]

\* The sectors of a cluster in turn, as far as there is something for them.
RECURSIVE FillFrom(_, _, _, _)
FillFrom(d, c, sectors, s) ==
    IF s > Len(sectors) \/ ~d.ok THEN d
    ELSE FillFrom(WriteSector(d, c, s, sectors[s]), c, sectors, s + 1)
FillCluster(d, c, sectors) == FillFrom(d, c, sectors, 1)

RECURSIVE WriteRest(_, _, _, _)
WriteRest(d, data, first, previous) ==
    IF data = << >> THEN [d EXCEPT !.ok = TRUE, !.out = first]
    ELSE LET n == IF Len(data) < SectorsPerCluster THEN Len(data) ELSE SectorsPerCluster
             Start(c) == IF first = 0 THEN c ELSE first
             Link(got) == IF previous = 0 THEN got ELSE WriteFatEntry(got, previous, got.out)
             Fill(linked, c) == FillCluster(linked, c, [s \in 1..n |-> DataSector(data[s])])
         IN  IfOk(OrAbandon(AllocFreeCluster(d), first), LAMBDA got :
             IfOk(OrAbandon(Link(got), Start(got.out)), LAMBDA linked :
             IfOk(OrAbandon(Fill(linked, got.out), Start(got.out)), LAMBDA filled :
             WriteRest(filled, SubSeq(data, n + 1, Len(data)), Start(got.out), got.out))))

WriteClusterChain(d, data) == WriteRest(d, data, 0, 0)

RECURSIVE ChainFrom(_, _, _)
ChainFrom(d, c, fuel) ==
    IF c \notin Clusters \/ fuel = 0 THEN << >>
    ELSE <<c>> \o ChainFrom(d, ReadFatEntry(d, c), fuel - 1)
Chain(d, c) == ChainFrom(d, c, ClusterCount)

(****************************** directories ********************************)
\* Every slot of a directory in the order a scan meets it.
Slots(d, dir) ==
    LET chain == Chain(d, dir)
        per == SectorsPerCluster * SlotsPerSector
        At(k) == [c |-> chain[k \div per + 1],
                  s |-> (k % per) \div SlotsPerSector + 1,
                  i |-> (k % SlotsPerSector) + 1]
    IN  [k \in 1..(Len(chain) * per) |->
            LET at == At(k - 1)
            IN  [c |-> at.c, s |-> at.s, i |-> at.i, slot |-> d.sec[at.c][at.s][at.i]]]

\* A long name counts only when its pieces lead up to the entry whose checksum
\* they carry.
CollectLfn(run, slot) ==
    IF \/ slot.order = LfnCount[slot.long] \/ run = << >>
       \/ slot.short # run[1].short
    THEN <<slot>> ELSE Append(run, slot)

VisibleName(run, slot) ==
    IF run # << >> /\ run[1].short = slot.short
    THEN IF [k \in DOMAIN run |-> run[k].order] = Reverse([k \in 1..LfnCount[run[1].long] |-> k])
         THEN run[1].long ELSE ""
    ELSE slot.short

\* The entries a directory shows, up to its end marker.
RECURSIVE ScanFrom(_, _, _)
ScanFrom(all, k, run) ==
    IF k > Len(all) \/ all[k].slot.kind = "end" THEN << >>
    ELSE IF all[k].slot.kind = "lfn" THEN ScanFrom(all, k + 1, CollectLfn(run, all[k].slot))
    ELSE (IF IsEntry(all[k].slot)
          THEN <<[name |-> VisibleName(run, all[k].slot), at |-> all[k]]>> ELSE << >>)
         \o ScanFrom(all, k + 1, << >>)
ReadDirEntries(d, dir) == ScanFrom(Slots(d, dir), 1, << >>)

FindInDirectory(d, dir, name) == SelectSeq(ReadDirEntries(d, dir), LAMBDA e : e.name = name)

FindShortName(d, dir, short) ==
    LET all == Slots(d, dir)
    IN  \E k \in DOMAIN all :
            /\ all[k].slot.kind \in {"file", "dir"} /\ all[k].slot.short = short
            /\ \A j \in 1..k : all[j].slot.kind # "end"

\* The cluster of the directory a path names; 0 when there is none.
RECURSIVE ResolveFrom(_, _, _)
ResolveFrom(d, dir, path) ==
    LET Into(found) == IF found = << >> \/ found[1].at.slot.kind # "dir" THEN 0
                       ELSE ResolveFrom(d, found[1].at.slot.cluster, Tail(path))
    IN  IF path = << >> THEN dir ELSE Into(FindInDirectory(d, dir, Head(path)))
ResolveDir(d, path) == ResolveFrom(d, RootCluster, path)
ResolveParentPath(d, path) == ResolveDir(d, SubSeq(path, 1, Len(path) - 1))

\* End markers of every sector looked at become deleted ones, so that nothing
\* placed after them is hidden.
Normalised(slots) == [i \in DOMAIN slots |-> IF slots[i].kind = "end" THEN Slot("deleted") ELSE slots[i]]


FreeRuns(slots, count) ==
    {i \in 1..SlotsPerSector : /\ i + count - 1 <= SlotsPerSector
                               /\ \A j \in i..(i + count - 1) : ~InUse(slots[j])}

\* The directory grows by one zeroed cluster when no sector has the room.
GrowDirectory(d, last) ==
    LET zeros == [s \in 1..SectorsPerCluster |-> Sector("end")]
    IN  IfOk(AllocFreeCluster(d), LAMBDA got :
        IfOk(OrAbandon(FillCluster(got, got.out, zeros), got.out), LAMBDA zeroed :
        IfOk(OrAbandon(WriteFatEntry(zeroed, last, got.out), got.out), LAMBDA linked :
        [linked EXCEPT !.out = [c |-> got.out, s |-> 1, i |-> 1]])))

RECURSIVE FindFreeFrom(_, _, _, _)
FindFreeFrom(d, c, s, count) ==
    LET slots == d.sec[c][s]
        normal == IF Normalised(slots) = slots THEN [d EXCEPT !.ok = TRUE]
                  ELSE WriteSector(d, c, s, Normalised(slots))
        runs == FreeRuns(slots, count)
        next == ReadFatEntry(d, c)
        Search(n) ==
            IF runs # {}
            THEN [n EXCEPT !.out = [c |-> c, s |-> s,
                                    i |-> CHOOSE i \in runs : \A j \in runs : i <= j]]
            ELSE IF s < SectorsPerCluster THEN FindFreeFrom(n, c, s + 1, count)
            ELSE IF next \in Clusters THEN FindFreeFrom(n, next, 1, count)
            ELSE GrowDirectory(n, c)
    IN  IfOk(normal, Search)

FindFreeDirSlots(d, dir, count) == FindFreeFrom(d, dir, 1, count)

\* The long-name pieces followed by the entry itself, in one sector.
NewSlots(name, short, entry) ==
    [k \in 1..(LfnCount[name] + 1) |->
        IF k > LfnCount[name] THEN [entry EXCEPT !.short = short]
        ELSE [Slot("lfn") EXCEPT !.short = short, !.long = name, !.order = LfnCount[name] + 1 - k]]

PutSlots(d, at, new) ==
    WriteSector(d, at.c, at.s,
                [i \in 1..SlotsPerSector |->
                    IF i \in at.i..(at.i + Len(new) - 1) THEN new[i - at.i + 1] ELSE d.sec[at.c][at.s][i]])

\* An entry goes together with the long-name pieces that carry its checksum.
PiecesOf(slots, i) ==
    {j \in 1..(i - 1) : \A k \in j..(i - 1) : slots[k].kind = "lfn" /\ slots[k].short = slots[i].short}


DeleteEntryChain(d, at) ==
    LET slots == d.sec[at.c][at.s]
    IN  WriteSector(d, at.c, at.s,
                    [i \in DOMAIN slots |->
                        IF i \in PiecesOf(slots, at.i) \cup {at.i} THEN Slot("deleted") ELSE slots[i]])

\* An 8.3 name is its own short name; a long one takes the first serial whose
\* alias the directory does not have, 0 when all are taken.
ShortNames(d, dir, name) ==
    IF LfnCount[name] = 0 THEN <<name>>
    ELSE SelectSeq(Alias[name], LAMBDA short : ~FindShortName(d, dir, short))

Failed(d) == [d EXCEPT !.ok = FALSE]

(****************************** operations *********************************)
WriteFilePath(d, path, data) ==
    LET name == Last(path)
        Entry(short, c) ==
            [Slot("file") EXCEPT !.short = short, !.cluster = c, !.size = Len(data)]
        \* The entry replaces the old one in place, long name and all; only
        \* then are the old clusters given back.
        Replace(old) ==
            IfOk(WriteClusterChain(d, data), LAMBDA chain :
            IfOk(OrAbandon(PutSlots(chain, old, <<Entry(old.slot.short, chain.out)>>),
                           chain.out), LAMBDA put :
            FreeClusterChain(put, old.slot.cluster)))
        Create(dir, short) ==
            IfOk(FindFreeDirSlots(d, dir, LfnCount[name] + 1), LAMBDA room :
            IfOk(WriteClusterChain(room, data), LAMBDA chain :
            OrAbandon(PutSlots(chain, room.out, NewSlots(name, short, Entry("", chain.out))),
                      chain.out)))
        In(dir, found, shorts) ==
            IF dir = 0 THEN Failed(d)
            ELSE IF found # << >>
            THEN IF found[1].at.slot.kind = "dir" THEN Failed(d) ELSE Replace(found[1].at)
            ELSE IF shorts = << >> THEN Failed(d)
            ELSE Create(dir, shorts[1])
        Under(dir) == In(dir, FindInDirectory(d, dir, name), ShortNames(d, dir, name))
    IN  Under(ResolveParentPath(d, path))

TouchFilePath(d, path) == WriteFilePath(d, path, << >>)

DeleteFilePath(d, path) ==
    LET In(dir, found) ==
            IF dir = 0 \/ found = << >> \/ found[1].at.slot.kind = "dir" THEN Failed(d)
            ELSE IfOk(DeleteEntryChain(d, found[1].at), LAMBDA gone :
                   FreeClusterChain(gone, found[1].at.slot.cluster))
        Under(dir) == In(dir, FindInDirectory(d, dir, Last(path)))
    IN  Under(ResolveParentPath(d, path))

DotSector(self, parent) ==
    [i \in 1..SlotsPerSector |->
        CASE i = 1 -> [Slot("dot") EXCEPT !.cluster = self]
          [] i = 2 -> [Slot("dot") EXCEPT !.cluster = parent]
          [] OTHER -> Slot("end")]

MkdirPath(d, path) ==
    LET name == Last(path)
        Sectors(c, dir) == [s \in 1..SectorsPerCluster |->
                              IF s = 1 THEN DotSector(c, dir) ELSE Sector("end")]
        Create(dir, short) ==
            IfOk(FindFreeDirSlots(d, dir, LfnCount[name] + 1), LAMBDA room :
            IfOk(AllocFreeCluster(room), LAMBDA got :
            IfOk(OrAbandon(FillCluster(got, got.out, Sectors(got.out, dir)), got.out), LAMBDA filled :
            OrAbandon(PutSlots(filled, room.out,
                               NewSlots(name, short, [Slot("dir") EXCEPT !.cluster = got.out])),
                      got.out))))
        In(dir, shorts) ==
            IF dir = 0 \/ FindInDirectory(d, dir, name) # << >> \/ shorts = << >> THEN Failed(d)
            ELSE Create(dir, shorts[1])
        Under(dir) == In(dir, ShortNames(d, dir, name))
    IN  Under(ResolveParentPath(d, path))

\* A directory is empty when no sector of it holds an entry before the
\* sector's end marker.
HoldsEntry(d, c) ==
    \E s \in 1..SectorsPerCluster, i \in 1..SlotsPerSector :
        /\ IsEntry(d.sec[c][s][i])
        /\ \A j \in 1..i : d.sec[c][s][j].kind # "end"
DirectoryEmpty(d, dir) == \A k \in DOMAIN Chain(d, dir) : ~HoldsEntry(d, Chain(d, dir)[k])


RmdirPath(d, path) ==
    LET Vacate(at) ==
            IF ~DirectoryEmpty(d, at.slot.cluster) THEN Failed(d)
            ELSE IfOk(DeleteEntryChain(d, at), LAMBDA gone : FreeClusterChain(gone, at.slot.cluster))
        In(dir, found) ==
            IF dir = 0 \/ found = << >> \/ found[1].at.slot.kind # "dir" THEN Failed(d)
            ELSE Vacate(found[1].at)
        Under(dir) == In(dir, FindInDirectory(d, dir, Last(path)))
    IN  Under(ResolveParentPath(d, path))

ReadDirectoryParentLink(d, dir) == d.sec[dir][1][2].cluster

UpdateDirectoryParentLink(d, dir, parent) ==
    WriteSector(d, dir, 1, [d.sec[dir][1] EXCEPT ![2].cluster = parent])

RECURSIVE DescendantWithin(_, _, _, _)
DescendantWithin(d, dir, ancestor, fuel) ==
    \/ dir = ancestor
    \/ /\ dir # RootCluster /\ fuel > 0
       /\ LET parent == ReadDirectoryParentLink(d, dir)
          IN  parent # dir /\ parent \in Clusters /\ DescendantWithin(d, parent, ancestor, fuel - 1)
DirectoryIsDescendantOf(d, dir, ancestor) == DescendantWithin(d, dir, ancestor, ClusterCount)

RenamePath(d, old, new) ==
    LET name == Last(new)
        Link(put, from, to, source) ==
            IF source.slot.kind = "dir" /\ from # to
            THEN UpdateDirectoryParentLink(put, source.slot.cluster, to) ELSE put
        \* The slot cleaned up is the first of the run, a piece of the long name
        \* when there is one.
        Finished(linked, at, source) ==
            IF ~linked.ok THEN Failed(DeleteEntryChain(linked, at))
            ELSE DeleteEntryChain(linked, source)
        Move(from, to, source, short) ==
            IfOk(FindFreeDirSlots(d, to, LfnCount[name] + 1), LAMBDA room :
            IfOk(PutSlots(room, room.out, NewSlots(name, short, source.slot)), LAMBDA put :
            Finished(Link(put, from, to, source), room.out, source)))
        In(from, to, found, shorts) ==
            IF \/ from = 0 \/ to = 0 \/ found = << >>
               \/ FindInDirectory(d, to, name) # << >>
               \/ /\ found[1].at.slot.kind = "dir"
                  /\ DirectoryIsDescendantOf(d, to, found[1].at.slot.cluster)
               \/ shorts = << >> THEN Failed(d)
            ELSE Move(from, to, found[1].at, shorts[1])
        Under(from, to) == In(from, to, FindInDirectory(d, from, Last(old)), ShortNames(d, to, name))
    IN  Under(ResolveParentPath(d, old), ResolveParentPath(d, new))

\* What reading a file returns: its sectors as far as its size says.
ReadFilePath(d, slot) ==
    LET chain == Chain(d, slot.cluster)
        all == [k \in 1..(Len(chain) * SectorsPerCluster) |->
                  d.sec[chain[(k - 1) \div SectorsPerCluster + 1]][((k - 1) % SectorsPerCluster) + 1][1].long]
    IN  IF Len(all) < slot.size THEN <<"short">> ELSE SubSeq(all, 1, slot.size)

(******************************** actions **********************************)
Paths == UNION {[1..n -> Names] : n \in 1..MaxDepth}
Contents == UNION {{[i \in 1..n |-> v] : v \in Values} : n \in 1..MaxSectors}

\* Every path that resolves, and what is there.
RECURSIVE ShownBelow(_, _, _, _)
ShownBelow(d, dir, path, fuel) ==
    UNION {LET slot == FindInDirectory(d, dir, name)[1].at.slot
               p == Append(path, name)
           IN  IF slot.kind = "dir"
               THEN {<<p, [kind |-> "dir", data |-> << >>]>>}
                    \cup (IF fuel = 0 THEN {} ELSE ShownBelow(d, slot.cluster, p, fuel - 1))
               ELSE {<<p, [kind |-> "file", data |-> ReadFilePath(d, slot)]>>} :
           name \in {e.name : e \in ToSet(ReadDirEntries(d, dir))}}
TreeOf(d) ==
    LET AsTree(shown) ==
            [p \in {x[1] : x \in shown} |-> (CHOOSE x \in shown : x[1] = p)[2]]
    IN  AsTree({<<<< >>, [kind |-> "dir", data |-> << >>]>>}
                 \cup ShownBelow(d, RootCluster, << >>, ClusterCount))

\* At most one write of a behaviour fails: any one of those that the operation
\* makes when none does.
Faults(op, sound) ==
    {{}} \cup (IF op \in FaultyOps /\ ~volFaulted THEN {{n} : n \in 1..sound.writes} ELSE {})

Finish(op, d) ==
    /\ vol' = [fat |-> d.fat, sec |-> d.sec]
    /\ volTree' = IF vol' = vol THEN volTree ELSE TreeOf(d)
    /\ volReply' = IF d.ok THEN op ELSE "error"
    /\ volFaulted' = (volFaulted \/ d.bad \cap 1..d.writes # {})

VolumeWrite(path, data) ==
    LET Done(bad) == WriteFilePath(Device(bad), path, data)
    IN  \E bad \in Faults("write", Done({})) : Finish("write", Done(bad))
VolumeTouch(path) ==
    LET Done(bad) == TouchFilePath(Device(bad), path)
    IN  \E bad \in Faults("write", Done({})) : Finish("write", Done(bad))
VolumeDelete(path) ==
    LET Done(bad) == DeleteFilePath(Device(bad), path)
    IN  \E bad \in Faults("delete", Done({})) : Finish("delete", Done(bad))
VolumeMkdir(path) ==
    LET Done(bad) == MkdirPath(Device(bad), path)
    IN  \E bad \in Faults("mkdir", Done({})) : Finish("mkdir", Done(bad))
VolumeRmdir(path) ==
    LET Done(bad) == RmdirPath(Device(bad), path)
    IN  \E bad \in Faults("rmdir", Done({})) : Finish("rmdir", Done(bad))

\* Renaming a path to itself succeeds without looking whether it exists.
VolumeRename(old, new) ==
    \/ /\ old # new
       /\ LET Done(bad) == RenamePath(Device(bad), old, new)
          IN  \E bad \in Faults("rename", Done({})) : Finish("rename", Done(bad))
    \/ /\ old = new
       /\ volReply' = IF ResolveParentPath(Device({}), old) = 0 THEN "error" ELSE "same"
       /\ UNCHANGED <<vol, volTree, volFaulted>>

VolumeInit ==
    /\ vol = [fat |-> [k \in 1..FatCopies |->
                         [c \in Clusters |-> IF c = RootCluster THEN EndOfChain ELSE Free]],
              sec |-> [c \in Clusters |->
                         IF c = RootCluster THEN [s \in 1..SectorsPerCluster |-> Sector("end")] ELSE Stale]]
    /\ volTree = (<< >> :> [kind |-> "dir", data |-> << >>])
    /\ volReply = "error"
    /\ volFaulted = FALSE

VolumeNext ==
    \E path \in Paths :
        \/ \E data \in Contents : VolumeWrite(path, data)
        \/ VolumeTouch(path)
        \/ VolumeDelete(path)
        \/ VolumeMkdir(path)
        \/ VolumeRmdir(path)
        \/ \E new \in Paths : VolumeRename(path, new)

VolumeSpec == VolumeInit /\ [][VolumeNext]_volVars

(******************************* properties ********************************)
Now == Device({})

Implemented == INSTANCE FileTree WITH tree <- volTree, reply <- volReply

\* The volume behaves as a tree of files: an operation that reports success has
\* made exactly its change, one that reports an error has made it or none, and
\* no operation loses, duplicates or alters any other path
\* (FAT32Driver::write_file_path .. rename_path).
VolumeImplementsTree == Implemented!TreeSpec

\* Everything that owns a chain: the root and the entries of the directories
\* reachable from it.
RECURSIVE EntriesBelow(_, _)
EntriesBelow(dir, fuel) ==
    LET here == ToSet(ReadDirEntries(Now, dir))
    IN  here \cup (IF fuel = 0 THEN {}
                   ELSE UNION {EntriesBelow(e.at.slot.cluster, fuel - 1) :
                                  e \in {x \in here : x.at.slot.kind = "dir"}})
AllEntries == EntriesBelow(RootCluster, MaxDepth)
Owned(e) == ToSet(Chain(Now, e.at.slot.cluster))
Reachable == ToSet(Chain(Now, RootCluster)) \cup UNION {Owned(e) : e \in AllEntries}
Used == {c \in Clusters : vol.fat[1][c] # Free}

VolumeTypeOK ==
    /\ vol.fat \in [1..FatCopies -> [Clusters -> Clusters \cup {Free, EndOfChain}]]
    /\ \A c \in Clusters, s \in 1..SectorsPerCluster :
           DOMAIN vol.sec[c][s] = 1..SlotsPerSector
    /\ volReply \in {"write", "delete", "mkdir", "rmdir", "rename", "same", "error"}
    /\ volFaulted \in BOOLEAN

\* No cluster belongs to two files or directories, none that is in use is
\* marked free, and a file has the clusters its size needs
\* (write_cluster_chain, free_cluster_chain, find_free_dir_slots).
ChainsDisjoint ==
    /\ \A e, f \in AllEntries : e.at # f.at => Owned(e) \cap Owned(f) = {}
    /\ \A e \in AllEntries : Owned(e) \cap ToSet(Chain(Now, RootCluster)) = {}
    /\ Reachable \subseteq Used
    /\ \A e \in AllEntries : e.at.slot.kind = "file" =>
           Cardinality(Owned(e)) = (e.at.slot.size + SectorsPerCluster - 1) \div SectorsPerCluster

\* Without a failing write no cluster is lost: whatever the table marks used can
\* be reached from the root (the clean-up paths of write_file_path, mkdir_path
\* and find_free_dir_slots, a full volume included).
NoLostCluster == ~volFaulted => Used \subseteq Reachable

\* No entry lies behind its directory's end marker, where a scan would not see
\* it (find_free_dir_slots).
NothingHidden ==
    \A dir \in {RootCluster} \cup {e.at.slot.cluster : e \in {x \in AllEntries : x.at.slot.kind = "dir"}} :
        LET all == Slots(Now, dir)
        IN  \A j, k \in DOMAIN all : j < k /\ InUse(all[k].slot) => all[j].slot.kind # "end"

\* Every piece of a long name stands before the entry it names: the slots of a
\* deleted or moved entry are all given back (delete_entry_chain).
LongNamesPaired ==
    \A c \in Reachable, s \in 1..SectorsPerCluster, i \in 1..SlotsPerSector :
        LET slots == vol.sec[c][s]
        IN  slots[i].kind = "lfn" =>
                /\ i < SlotsPerSector
                /\ slots[i + 1].short = slots[i].short
                /\ IF slots[i].order = 1 THEN IsEntry(slots[i + 1])
                   ELSE slots[i + 1].kind = "lfn" /\ slots[i + 1].order = slots[i].order - 1

\* Refuted when an 8.3 name equals the alias of a long one.
ShortNamesUnique ==
    \A e, f \in AllEntries :
        /\ e.at.c = f.at.c /\ e.at # f.at => e.at.slot.short # f.at.slot.short

(* The allocation table and the directories agree after every operation,     *)
(* failed ones included: no cluster has two owners or is lost, no entry is   *)
(* hidden behind an end marker and no piece of a long name stands alone.     *)
VolumeSound ==
    VolumeTypeOK /\ ChainsDisjoint /\ NoLostCluster /\ NothingHidden /\ LongNamesPaired
=============================================================================
