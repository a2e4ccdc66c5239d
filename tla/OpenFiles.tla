----------------------------- MODULE OpenFiles ------------------------------
(***************************************************************************)
(* Open files: the VFS's table of open files and directories               *)
(* (kernel/vfs/vfs_core.cpp, vfs_open.cpp) and the system calls that reach *)
(* it through a process's handles (kernel/syscall/vfs_syscalls.cpp), over  *)
(* the memory file system of MemFs.                                        *)
(*                                                                         *)
(* Nothing in the VFS takes a lock.  A call is modelled by the steps that  *)
(* matter when two of them overlap: an open looks for a free slot and then *)
(* fills it, the other calls resolve their handle and then use the slot.   *)
(* MaxInside is the number of processes inside the VFS at once, which is 1 *)
(* on one processor: a system call is not preempted.                       *)
(***************************************************************************)
EXTENDS MemFs

CONSTANTS
    NodeLimits,   \* the sizes of the node table that are tried
    Pids,         \* the processes
    OpenLimit,    \* VFS_MAX_OPEN_FILES
    HandleLimit,  \* the handles of a process
    FilePaths,    \* the paths that are opened
    DirPaths,     \* the paths that are made, removed, listed and renamed
    Modes,        \* the open modes, sets of the VFS_OPEN_* flags
    MaxPosition,  \* the largest position a seek or a write starts from,
    MaxShared,    \* and while more than one process runs
    MaxInside     \* the processes inside the VFS at once

ASSUME OpenAssumption ==
    OpenLimit \in Nat \ {0} /\ HandleLimit \in Nat \ {0} /\ MaxInside \in Nat \ {0}

VARIABLES
    nodes,        \* g_memfs_nodes
    files,        \* g_vfs_open_files
    handles,      \* the VFS handles of each process
    call,         \* where each process is in its call
    exited,       \* the processes that are gone
    memTree,      \* the tree that nodes stands for (auxiliary)
    memReply      \* the operation last done on it, or "error" (auxiliary)

openVars == <<nodes, files, handles, call, exited, memTree, memReply>>

Fd == 0..OpenLimit - 1
NoFile == [active |-> FALSE, dirty |-> FALSE, kind |-> "none", mode |-> {}, owner |-> 0,
           pos |-> 0, buf |-> << >>, cap |-> 0, cursor |-> 0, path |-> << >>]
NoHandle == [fd |-> -1, kind |-> "none", mode |-> {}]
Idle == [op |-> "idle"]

\* A path is its text split at the slashes: "/mem/a" is <<"", "mem", "a">>.
\* The root mount's volume is modelled in Fat32; here every path is one of /mem.
FindMount(path) == SubSeq(path, 3, Len(path))
Mounted(path) == Len(path) >= 2 /\ path[1] = "" /\ path[2] = "mem"

Least(s) == CHOOSE i \in s : \A j \in s : i <= j

AllocOpenSlot == LET free == {fd \in Fd : ~files[fd].active} IN
                 IF free = {} THEN -1 ELSE Least(free)

GrowthCapacity(required) ==
    LET doubled == {2 ^ k : k \in 0..required} IN Least({c \in doubled : c >= required})

DescendantOrSame(path, prefix) ==
    Len(prefix) <= Len(path) /\ SubSeq(path, 1, Len(prefix)) = prefix
HasOpenDescendant(path) ==
    \E fd \in Fd : files[fd].active /\ DescendantOrSame(files[fd].path, path)

\* vfs_get_file_info: the mount point itself is a directory.
FileInfo(path) ==
    IF FindMount(path) = << >> THEN [type |-> "dir", size |-> 0]
    ELSE MemInfo(nodes, FindMount(path))

----------------------------------------------------------------------------
OpenInit ==
    /\ \E limit \in NodeLimits : nodes = MountMemfs(limit)
    /\ files = [fd \in Fd |-> NoFile]
    /\ handles = [p \in Pids |-> [h \in 1..HandleLimit |-> NoHandle]]
    /\ call = [p \in Pids |-> Idle]
    /\ exited = {}
    /\ memTree = NodeTree(nodes) /\ memReply = "error"

Ready(p) == p \notin exited /\ call[p] = Idle
           /\ Cardinality({q \in Pids : call[q] # Idle}) < MaxInside
At(p, op) == call[p].op = op
Positions == 0..(IF Cardinality(Pids \ exited) > 1 THEN MaxShared ELSE MaxPosition)

\* What an operation leaves in the node table, and what it replied.
Leaves(n, op) ==
    /\ nodes' = n
    /\ memTree' = IF n = nodes THEN memTree ELSE NodeTree(n)
    /\ memReply' = op
Untouched == memReply' = "same" /\ UNCHANGED <<nodes, memTree>>
Back(p) == call' = [call EXCEPT ![p] = Idle]

\* vfs_close: a dirty file is written back whole; when that fails, the slot
\* stays as it is.
\* A plausible slip: the slot is given up whatever the write returned.
CloseAnyway(fs, fd) ==
    LET f == fs[fd]
        r == MemWrite(nodes, FindMount(f.path), f.buf)
    IN  IF f.kind = "file" /\ f.dirty THEN [ok |-> r.ok, n |-> r.n, fs |-> [fs EXCEPT ![fd] = NoFile]]
        ELSE [ok |-> TRUE, n |-> nodes, fs |-> [fs EXCEPT ![fd] = NoFile]]
Close(fs, fd) ==
    LET f == fs[fd]
        r == MemWrite(nodes, FindMount(f.path), f.buf)
        reset == [fs EXCEPT ![fd] = NoFile]
    IN  IF ~f.active THEN [ok |-> FALSE, n |-> nodes, fs |-> fs]
        ELSE IF f.kind = "dir" \/ ~f.dirty THEN [ok |-> TRUE, n |-> nodes, fs |-> reset]
        ELSE IF r.ok THEN [ok |-> TRUE, n |-> r.n, fs |-> reset]
        ELSE [ok |-> FALSE, n |-> nodes, fs |-> fs]
Closed(c) ==
    /\ files' = c.fs
    /\ IF c.n # nodes THEN Leaves(c.n, "write") ELSE Leaves(nodes, IF c.ok THEN "same" ELSE "error")
CloseSlot(fs, fd) == Closed(Close(fs, fd))

----------------------------------------------------------------------------
(* dispatch_open and dispatch_opendir, up to the slot they find.            *)
OpenLook(p, path, mode) ==
    LET info == FileInfo(path)
        fd == AllocOpenSlot
    IN  /\ Ready(p) /\ mode \cap {"read", "write"} # {}
        /\ IF info.type = "none" THEN "create" \in mode ELSE info.type = "file"
        /\ fd >= 0
        /\ call' = [call EXCEPT ![p] =
                       [op |-> "open", fd |-> fd, path |-> path, mode |-> mode,
                        exists |-> info.type = "file",
                        size |-> IF "truncate" \in mode THEN 0 ELSE info.size]]
        /\ UNCHANGED <<files, handles, exited>> /\ Untouched
OpendirLook(p, path) ==
    /\ Ready(p) /\ FileInfo(path).type = "dir" /\ AllocOpenSlot >= 0
    /\ call' = [call EXCEPT ![p] = [op |-> "opendir", fd |-> AllocOpenSlot, path |-> path]]
    /\ UNCHANGED <<files, handles, exited>> /\ Untouched

\* The handle for the slot; when the process has none left, the slot is closed.
GiveHandle(p, fs, fd, kind, mode) ==
    LET free == {h \in 1..HandleLimit : handles[p][h] = NoHandle} IN
    IF free = {} THEN CloseSlot(fs, fd) /\ UNCHANGED handles
    ELSE /\ handles' = [handles EXCEPT ![p][Least(free)] = [fd |-> fd, kind |-> kind, mode |-> mode]]
         /\ files' = fs /\ Untouched

\* vfs_open_for_owner from the slot on; the buffer may be refused by kmalloc,
\* and the file may have gone or grown since it was looked up.
OpenFill(p) ==
    LET c == call[p]
        cap == GrowthCapacity(IF c.size > 0 THEN c.size ELSE 1)
        rel == FindMount(c.path)
        readable == MemInfo(nodes, rel).type = "file" /\ MemInfo(nodes, rel).size <= cap
        content == IF c.size > 0 THEN MemRead(nodes, rel) ELSE << >>
        dirty == (~c.exists /\ "create" \in c.mode) \/ {"write", "truncate"} \subseteq c.mode
        file == [active |-> TRUE, dirty |-> dirty, kind |-> "file", mode |-> c.mode, owner |-> p,
                 pos |-> IF "append" \in c.mode THEN Len(content) ELSE 0,
                 buf |-> content, cap |-> cap, cursor |-> 0, path |-> c.path]
    IN  /\ At(p, "open") /\ Back(p)
        /\ IF c.size > 0 /\ ~readable
           THEN files' = [files EXCEPT ![c.fd] = NoFile] /\ UNCHANGED handles /\ Untouched
           ELSE GiveHandle(p, [files EXCEPT ![c.fd] = file], c.fd, "file", c.mode)
        /\ UNCHANGED exited
OpenNoMemory(p) == At(p, "open") /\ Back(p) /\ UNCHANGED <<files, handles, exited>> /\ Untouched
OpendirFill(p) ==
    LET c == call[p]
        dir == [NoFile EXCEPT !.active = TRUE, !.kind = "dir", !.owner = p, !.path = c.path]
    IN  /\ At(p, "opendir") /\ Back(p)
        /\ GiveHandle(p, [files EXCEPT ![c.fd] = dir], c.fd, "dir", {})
        /\ UNCHANGED exited

(* The calls that name a handle resolve it, with the right they need.       *)
Resolve(p, h, op, kind) ==
    /\ Ready(p) /\ handles[p][h].kind = kind
    /\ op \in {"read", "write"} => op \in handles[p][h].mode
    /\ op = "write" => files[handles[p][h].fd].pos \in Positions
    /\ call' = [call EXCEPT ![p] = [op |-> op, fd |-> handles[p][h].fd]]
    /\ UNCHANGED <<files, handles, exited>> /\ Untouched

ReadCall(p, h) == Resolve(p, h, "read", "file")
WriteCall(p, h) == Resolve(p, h, "write", "file")
SeekCall(p, h) == Resolve(p, h, "seek", "file")
ReaddirCall(p, h) == Resolve(p, h, "readdir", "dir")

Usable(fd, kind) == files[fd].active /\ files[fd].kind = kind
OnFile(p, op, kind, file) ==
    LET fd == call[p].fd IN
    /\ At(p, op) /\ Back(p)
    /\ files' = IF Usable(fd, kind) THEN [files EXCEPT ![fd] = file] ELSE files
    /\ UNCHANGED <<handles, exited>> /\ Untouched
Least2(a, b) == IF a < b THEN a ELSE b

ReadFile(p) ==
    LET f == files[call[p].fd] IN
    OnFile(p, "read", "file",
           [f EXCEPT !.pos = IF @ < Len(f.buf) THEN Least2(@ + 1, Len(f.buf)) ELSE @])
\* Bytes between the old end and the position are whatever the buffer held.
WriteFile(p) ==
    LET f == files[call[p].fd]
        end == f.pos + 1
        Byte(i) == IF i = end THEN "x" ELSE IF i <= Len(f.buf) THEN f.buf[i] ELSE "unset"
        size == IF Len(f.buf) > end THEN Len(f.buf) ELSE end
    IN  OnFile(p, "write", "file",
               [f EXCEPT !.pos = end, !.dirty = TRUE, !.buf = [i \in 1..size |-> Byte(i)],
                         !.cap = IF end <= @ THEN @ ELSE GrowthCapacity(end)])
WriteNoMemory(p) ==
    LET f == files[call[p].fd] IN
    At(p, "write") /\ f.pos + 1 > f.cap /\ OnFile(p, "write", "file", f)
SeekFile(p) ==
    LET f == files[call[p].fd] IN
    \E to \in Positions : OnFile(p, "seek", "file", [f EXCEPT !.pos = to])
ReadDirectory(p) ==
    LET f == files[call[p].fd]
        entry == MemDirEntry(nodes, FindMount(f.path), f.cursor)
    IN  OnFile(p, "readdir", "dir",
               [f EXCEPT !.cursor = IF entry \in {"error", "end"} THEN @ ELSE @ + 1])

\* dispatch_close_typed: the handle goes first, then the slot.
DropHandle(p, h) == [handles EXCEPT ![p][h] = NoHandle]
CloseLook(p, h) ==
    /\ Ready(p) /\ handles[p][h] # NoHandle
    /\ handles' = DropHandle(p, h)
    /\ call' = [call EXCEPT ![p] = [op |-> "close", fd |-> handles[p][h].fd]]
    /\ UNCHANGED <<files, exited>> /\ Untouched
CloseEnd(p) ==
    /\ At(p, "close") /\ Back(p)
    /\ CloseSlot(files, call[p].fd)
    /\ UNCHANGED <<handles, exited>>

(* The calls that name a path.                                              *)
PathCall(p, r, op) ==
    /\ Ready(p)
    /\ Leaves(r.n, IF ~r.ok THEN "error" ELSE IF r.n = nodes THEN "same" ELSE op)
    /\ UNCHANGED <<files, handles, call, exited>>
NotMountPoint(path) == Mounted(path) /\ FindMount(path) # << >>
TouchPath(p, path) == NotMountPoint(path) /\ PathCall(p, MemWrite(nodes, FindMount(path), << >>), "write")
DeletePath(p, path) == NotMountPoint(path) /\ PathCall(p, MemDelete(nodes, FindMount(path)), "delete")
Mkdir(p, path) == NotMountPoint(path) /\ PathCall(p, MemMkdir(nodes, FindMount(path)), "mkdir")
Rmdir(p, path) == NotMountPoint(path) /\ PathCall(p, MemRmdir(nodes, FindMount(path)), "rmdir")
Rename(p, old, new) ==
    /\ NotMountPoint(old) /\ NotMountPoint(new) /\ ~HasOpenDescendant(old)
    /\ PathCall(p, MemRename(nodes, FindMount(old), FindMount(new)), "rename")

(* A process ends: vfs_close_all_for_owner goes through the slots and        *)
(* ignores what each close returns; then the handles are cleared.           *)
ExitBegin(p) ==
    /\ Ready(p)
    /\ call' = [call EXCEPT ![p] = [op |-> "exit", fd |-> 0]]
    /\ UNCHANGED <<files, handles, exited>> /\ Untouched
ExitClose(p) ==
    LET fd == call[p].fd IN
    /\ At(p, "exit") /\ fd < OpenLimit
    /\ IF files[fd].active /\ files[fd].owner = p THEN CloseSlot(files, fd)
       ELSE UNCHANGED files /\ Untouched
    /\ call' = [call EXCEPT ![p].fd = @ + 1]
    /\ UNCHANGED <<handles, exited>>
ExitEnd(p) ==
    /\ At(p, "exit") /\ call[p].fd = OpenLimit /\ Back(p)
    /\ handles' = [handles EXCEPT ![p] = [h \in 1..HandleLimit |-> NoHandle]]
    /\ exited' = exited \cup {p}
    /\ UNCHANGED files /\ Untouched

----------------------------------------------------------------------------
PathStep(p, fpaths, dpaths) ==
    \/ \E path \in fpaths : TouchPath(p, path) \/ DeletePath(p, path)
    \/ \E path \in dpaths : Mkdir(p, path) \/ Rmdir(p, path)
    \/ \E old, new \in fpaths \cup dpaths : Rename(p, old, new)
OpenStep(p) ==
    \/ \E path \in FilePaths, mode \in Modes : OpenLook(p, path, mode)
    \/ \E path \in DirPaths : OpendirLook(p, path)
    \/ OpenFill(p) \/ OpenNoMemory(p) \/ OpendirFill(p)
UseStep(p) ==
    \/ \E h \in 1..HandleLimit :
          \/ CloseLook(p, h) \/ ReaddirCall(p, h)
          \/ ReadCall(p, h) \/ WriteCall(p, h) \/ SeekCall(p, h)
    \/ ReadFile(p) \/ WriteFile(p) \/ WriteNoMemory(p) \/ SeekFile(p)
    \/ ReadDirectory(p) \/ CloseEnd(p)
ExitStep(p) == ExitBegin(p) \/ ExitClose(p) \/ ExitEnd(p)

OpenNext ==
    \E p \in Pids : \/ OpenStep(p) \/ UseStep(p) \/ ExitStep(p)
                    \/ PathStep(p, FilePaths, DirPaths)

OpenSpec == OpenInit /\ [][OpenNext]_openVars

----------------------------------------------------------------------------
(* Types of the open-file table and of the handles.                          *)
OpenTypeOK ==
    /\ \A i \in DOMAIN nodes : /\ nodes[i].type \in {"none", "file", "dir"}
                        /\ Len(nodes[i].data) <= MaxFileSize
    /\ DOMAIN files = Fd
    /\ \A fd \in Fd : /\ files[fd].kind \in {"none", "file", "dir"}
                      /\ files[fd].active = (files[fd].kind # "none")
    /\ \A p \in Pids : /\ \A h \in 1..HandleLimit : handles[p][h].fd \in Fd \cup {-1}
                       /\ call[p] # Idle => call[p].fd \in Fd \/ At(p, "exit")

(* The memory file system's links agree: every node in use stands exactly    *)
(* once in the list of the directory it names as its parent, and in no       *)
(* other list.                                                                *)
ListsExact ==
    /\ nodes[0].type = "dir" /\ nodes[0].parent = -1
    /\ \A d \in {i \in DOMAIN nodes : nodes[i].type # "none"} :
          LET list == Children(nodes, d) IN
          /\ \A j, k \in DOMAIN list : list[j] = list[k] => j = k
          /\ {list[k] : k \in DOMAIN list}
               = {i \in DOMAIN nodes : nodes[i].type # "none" /\ nodes[i].parent = d}

(* Through the VFS the memory file system is a tree of files: every call     *)
(* changes it as the abstract operation does or not at all, write-backs at   *)
(* close and at exit included.                                                *)
Tree == INSTANCE FileTree WITH tree <- memTree, reply <- memReply
MemImplementsTree == Tree!TreeSpec

(* A handle names a slot of its own: it is in use, belongs to the process    *)
(* and is of the handle's kind, and no other handle names it.                 *)
HandleOwnsFd ==
    \A p \in Pids, h \in 1..HandleLimit : LET e == handles[p][h] IN
        (e # NoHandle /\ call[p].op # "exit") =>
            /\ files[e.fd].owner = p /\ files[e.fd].kind = e.kind
            /\ \A q \in Pids, g \in 1..HandleLimit :
                   handles[q][g].fd = e.fd => <<q, g>> = <<p, h>>

(* Renaming never moves a file or a directory away from under an open path.  *)
OpenPathsStable ==
    [][memReply' = "rename" =>
         \A fd \in Fd : (files[fd].active /\ FindMount(files[fd].path) \in DOMAIN memTree) =>
            /\ FindMount(files[fd].path) \in DOMAIN memTree'
            /\ memTree'[FindMount(files[fd].path)] = memTree[FindMount(files[fd].path)]]_openVars

(* What was written to a file is not given up: a slot with unwritten data    *)
(* is only freed once the file holds exactly that data.                       *)
DirtyWrittenBack ==
    [][\A fd \in Fd : LET f == files[fd] IN
         (f.active /\ f.dirty /\ ~files'[fd].active) =>
            LET at == FindMount(f.path) IN
            at \in DOMAIN memTree' /\ memTree'[at] = [kind |-> "file", data |-> f.buf]]_openVars

(* The buffer of an open file holds its whole contents, however the file was *)
(* grown by seeks and writes.                                                 *)
BufferCovers == \A fd \in Fd : Len(files[fd].buf) <= files[fd].cap

(* Refuted: a process that has ended has no open file left, as the           *)
(* scheduler's invariants document says.                                      *)
FilesClosedAtExit == \A fd \in Fd : files[fd].active => files[fd].owner \notin exited

(* No file holds bytes nobody wrote: refuted, a write beyond the end leaves   *)
(* what the buffer held before.                                               *)
NothingUnset == \A i \in DOMAIN nodes : \A k \in DOMAIN nodes[i].data : nodes[i].data[k] # "unset"

(* Open files keep what they promise: a handle has a slot and a buffer of    *)
(* its own, a rename moves nothing from under an open path, and what was     *)
(* written reaches the file before its slot is given up.                     *)
OpenFilesSound ==
    [](OpenTypeOK /\ HandleOwnsFd /\ BufferCovers) /\ OpenPathsStable /\ DirtyWrittenBack
=============================================================================
