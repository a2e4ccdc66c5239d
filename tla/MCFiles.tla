------------------------------ MODULE MCFiles -------------------------------
(***************************************************************************)
(* Small instances of the file systems: the FAT32 volume, the memory file  *)
(* system through the calls that name a path, and the open files above it. *)
(* The variable part says which of them this behaviour is about; the       *)
(* others stand still.                                                     *)
(***************************************************************************)
EXTENDS Fat32, OpenFiles

CONSTANT Parts
VARIABLE part

\* "A" is an 8.3 name; "b" needs one long-name slot and has one short alias.
MCLfnCount == ("A" :> 0) @@ ("b" :> 1)
MCAlias == ("A" :> << >>) @@ ("b" :> <<"B~1">>)

InMem(path) == <<"", "mem">> \o path
MCFilePaths == {InMem(<<"d", "a">>)}
MCDirPaths == {InMem(<<"d">>), InMem(<<"e">>)}
MCModes == {{"read"}, {"write", "create", "append"}}
TreePaths == {InMem(p) : p \in {<<"a">>, <<"b">>, <<"a", "a">>, <<"a", "b">>, <<"b", "a">>}}
OnePid == CHOOSE p \in Pids : TRUE

AnyPid == Permutations(Pids)

\* No step reads the reply of the one before it, so states in which two other
\* operations succeeded last are explored once.  A state that follows an error
\* stays apart: in it no success is taken for a stuttering step of FileTree.
ApartFromSuccess ==
    <<vol, volTree, volFaulted, volReply = "error",
      nodes, files, handles, call, exited, memTree, memReply \in {"error", "same"}, part>>

fileVars == <<volVars, openVars, part>>
Init ==
    /\ part \in Parts /\ VolumeInit /\ OpenInit
    /\ Cardinality(DOMAIN nodes) = IF part = "paths" THEN 4 ELSE 3

Next ==
    \/ part = "volume" /\ VolumeNext /\ UNCHANGED <<part, openVars>>
    \/ part = "open" /\ OpenNext /\ UNCHANGED <<part, volVars>>
    \/ part = "paths" /\ PathStep(OnePid, TreePaths, TreePaths) /\ UNCHANGED <<part, volVars>>

Spec == Init /\ [][Next]_fileVars

(* Both file systems are trees of names: whatever their tables hold, every    *)
(* call changes them as one step of FileTree or not at all.                   *)
FilesImplementTrees == VolumeImplementsTree /\ MemImplementsTree

(* The volume's table and directories, and the memory file system's lists,    *)
(* agree after every call, failed ones included.                              *)
TreesSound == IF part = "volume" THEN VolumeSound ELSE ListsExact
=============================================================================
