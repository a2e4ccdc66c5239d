-------------------------------- MODULE MemFs --------------------------------
(***************************************************************************)
(* The memory file system mounted at /mem (kernel/vfs/vfs_memfs.cpp): a    *)
(* fixed table of nodes, each directory's children threaded through the    *)
(* table.  Each backend operation is a function of the table that returns  *)
(* the table it leaves and whether it succeeded; the module OpenFiles       *)
(* calls them as the VFS does.                                             *)
(***************************************************************************)
EXTENDS Integers, Sequences, FiniteSets, TLC

CONSTANT MaxFileSize    \* MEMFS_MAX_FILE_SIZE

ASSUME MemAssumption == MaxFileSize \in Nat

\* The table is a function from 0..limit - 1; limit is MEMFS_MAX_NODES.
FreeNode == [type |-> "none", parent |-> -1, first |-> -1, next |-> -1,
             name |-> "", data |-> << >>]
EmptyRoot == [FreeNode EXCEPT !.type = "dir"]

\* vfs_mount_memfs: every node is cleared, and node 0 is the root.
MountMemfs(limit) == [i \in 0..limit - 1 |-> IF i = 0 THEN EmptyRoot ELSE FreeNode]

Active(n, i) == i \in DOMAIN n /\ n[i].type # "none"

----------------------------------------------------------------------------
(* The children of a directory, in the order of its list; a list that came *)
(* back to itself is cut after more nodes than there are.                  *)
RECURSIVE ListFrom(_, _, _)
ListFrom(n, i, fuel) ==
    IF ~Active(n, i) \/ fuel = 0 THEN << >> ELSE <<i>> \o ListFrom(n, n[i].next, fuel - 1)
Children(n, d) == ListFrom(n, n[d].first, Cardinality(DOMAIN n) + 1)

FindChild(n, d, name) ==
    LET list == Children(n, d)
        hits == {k \in DOMAIN list : n[list[k]].name = name}
    IN  IF n[d].type # "dir" \/ hits = {} THEN -1
        ELSE list[CHOOSE k \in hits : \A j \in hits : k <= j]

\* A new node goes to the head of its parent's list.
AllocNode(n, type, parent, name) ==
    LET free == {i \in DOMAIN n \ {0} : n[i].type = "none"} IN
    IF free = {} THEN [at |-> -1, n |-> n]
    ELSE LET i == CHOOSE k \in free : \A j \in free : k <= j IN
         [at |-> i,
          n |-> [n EXCEPT ![i] = [FreeNode EXCEPT !.type = type, !.parent = parent,
                                                  !.name = name, !.next = n[parent].first],
                          ![parent].first = i]]

\* A plausible slip: the list is cut before the node instead of around it.
UnlinkChildHead(n, p, c) == [n EXCEPT ![p].first = n[c].next]
UnlinkChild(n, p, c) ==
    LET list == Children(n, p)
        at == CHOOSE k \in DOMAIN list : list[k] = c
    IN  IF \A k \in DOMAIN list : list[k] # c THEN n
        ELSE IF at = 1 THEN [n EXCEPT ![p].first = n[c].next]
        ELSE [n EXCEPT ![list[at - 1]].next = n[c].next]

ResetNode(n, i) ==
    [(IF n[i].parent >= 0 THEN UnlinkChild(n, n[i].parent, i) ELSE n) EXCEPT ![i] = FreeNode]

(* A path relative to the mount is a sequence of names; the segments "."    *)
(* and "..", which memfs_next_segment refuses, are outside Names.           *)
RECURSIVE WalkFrom(_, _, _)
WalkFrom(n, i, path) ==
    IF path = << >> THEN i
    ELSE LET c == FindChild(n, i, Head(path)) IN
         IF c < 0 THEN -1 ELSE WalkFrom(n, c, Tail(path))
LookupPath(n, path) == WalkFrom(n, 0, path)

Leaf(path) == path[Len(path)]
LookupParent(n, path) ==
    IF path = << >> THEN -1
    ELSE LET d == LookupPath(n, SubSeq(path, 1, Len(path) - 1)) IN
         IF d >= 0 /\ n[d].type = "dir" THEN d ELSE -1

RECURSIVE IsDescendant(_, _, _)
IsDescendant(n, i, above) ==
    i >= 0 /\ (i = above \/ (Active(n, i) /\ IsDescendant(n, n[i].parent, above)))

----------------------------------------------------------------------------
(* The backend operations: [ok, n].                                         *)
Refuse(n) == [ok |-> FALSE, n |-> n]
Did(n) == [ok |-> TRUE, n |-> n]

MemWrite(n, path, data) ==
    LET d == LookupParent(n, path)
        c == FindChild(n, d, Leaf(path))
        new == AllocNode(n, "file", d, Leaf(path))
    IN  IF Len(data) > MaxFileSize \/ d < 0 THEN Refuse(n)
        ELSE IF c >= 0
        THEN IF n[c].type = "file" THEN Did([n EXCEPT ![c].data = data]) ELSE Refuse(n)
        ELSE IF new.at < 0 THEN Refuse(n) ELSE Did([new.n EXCEPT ![new.at].data = data])

MemDelete(n, path) ==
    LET i == LookupPath(n, path) IN
    IF i >= 0 /\ n[i].type = "file" THEN Did(ResetNode(n, i)) ELSE Refuse(n)

MemMkdir(n, path) ==
    LET d == LookupParent(n, path)
        new == AllocNode(n, "dir", d, Leaf(path))
    IN  IF d < 0 \/ FindChild(n, d, Leaf(path)) >= 0 \/ new.at < 0 THEN Refuse(n)
        ELSE Did(new.n)

MemRmdir(n, path) ==
    LET i == LookupPath(n, path) IN
    IF i > 0 /\ n[i].type = "dir" /\ n[i].first < 0 THEN Did(ResetNode(n, i)) ELSE Refuse(n)

\* A node that changes directory goes to the head of its new list.
Relink(n, i, d) ==
    LET cut == UnlinkChild(n, n[i].parent, i) IN
    [cut EXCEPT ![i].next = cut[d].first, ![i].parent = d, ![d].first = i]

BelowItself(n, i, d) == n[i].type = "dir" /\ (d = i \/ IsDescendant(n, d, i))
MemRename(n, old, new) ==
    LET i == LookupPath(n, old)
        d == LookupParent(n, new)
        moved == IF n[i].parent = d THEN n ELSE Relink(n, i, d)
    IN  IF i <= 0 \/ d < 0 THEN Refuse(n)
        ELSE IF n[i].parent = d /\ n[i].name = Leaf(new) THEN Did(n)
        ELSE IF FindChild(n, d, Leaf(new)) >= 0 \/ BelowItself(n, i, d) THEN Refuse(n)
        ELSE Did([moved EXCEPT ![i].name = Leaf(new)])

\* memfs_backend_get_file_info and memfs_backend_read_file.
MemInfo(n, path) ==
    LET i == LookupPath(n, path) IN
    IF i < 0 THEN [type |-> "none", size |-> 0]
    ELSE [type |-> n[i].type, size |-> Len(n[i].data)]
MemRead(n, path) == n[LookupPath(n, path)].data

\* memfs_backend_read_dir_entry: the entry at a cursor, counted from the head.
MemDirEntry(n, path, cursor) ==
    LET i == LookupPath(n, path)
        list == Children(n, i)
    IN  IF i < 0 \/ n[i].type # "dir" THEN "error"
        ELSE IF cursor >= Len(list) THEN "end"
        ELSE n[list[cursor + 1]].name

----------------------------------------------------------------------------
(* The tree a table stands for.                                             *)
RECURSIVE PathTo(_, _)
PathTo(n, i) == IF i = 0 THEN << >> ELSE Append(PathTo(n, n[i].parent), n[i].name)
ReachedNodes(n) ==
    LET Grow[k \in Nat, s \in SUBSET DOMAIN n] ==
            IF k = 0 THEN s
            ELSE Grow[k - 1, s \cup UNION {{list[j] : j \in DOMAIN list} :
                                           list \in {Children(n, i) : i \in s}}]
    IN  Grow[Cardinality(DOMAIN n), {0}]
NodeTree(n) ==
    LET at == ReachedNodes(n) IN
    [p \in {PathTo(n, i) : i \in at} |->
        LET i == CHOOSE j \in at : PathTo(n, j) = p IN [kind |-> n[i].type, data |-> n[i].data]]
=============================================================================
