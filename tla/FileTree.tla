------------------------------ MODULE FileTree ------------------------------
(***************************************************************************)
(* What a file system of this kernel promises its caller: a tree of named  *)
(* files and directories that each operation changes in one way or not at  *)
(* all.  The FAT32 volume (Fat32) and the memory file system (MemFs) are   *)
(* shown to implement it.  The operations are written as relations between *)
(* the tree t before the step and u after it.                              *)
(***************************************************************************)
EXTENDS Naturals, Sequences, TLC

\* A path is the sequence of its segments; << >> is the root.  tree maps the
\* paths that exist to what is there; reply names the operation that last
\* succeeded, or is "error".
VARIABLES tree, reply

Directory == [kind |-> "dir", data |-> << >>]

Beneath(p, q) == Len(p) <= Len(q) /\ SubSeq(q, 1, Len(p)) = p
IsDirectory(t, p) == p \in DOMAIN t /\ t[p].kind = "dir"
Placeable(t, p) == p # << >> /\ IsDirectory(t, SubSeq(p, 1, Len(p) - 1))

\* Create or replace a file: only that path changes.
PutFile(t, u, p) ==
    /\ Placeable(t, p) /\ ~IsDirectory(t, p)
    /\ u[p].kind = "file"
    /\ u = (p :> u[p]) @@ t

RemoveFile(t, u, p) ==
    /\ t[p].kind = "file"
    /\ u = [r \in DOMAIN t \ {p} |-> t[r]]

MakeDirectory(t, u, p) ==
    /\ Placeable(t, p) /\ p \notin DOMAIN t
    /\ u = (p :> Directory) @@ t

RemoveDirectory(t, u, p) ==
    /\ p # << >> /\ IsDirectory(t, p)
    /\ \A r \in DOMAIN t : Beneath(p, r) => r = p
    /\ u = [r \in DOMAIN t \ {p} |-> t[r]]

\* Moving a path moves everything beneath it and nothing else.
MovePath(t, u, p, q) ==
    /\ p # << >> /\ q \notin DOMAIN t /\ Placeable(t, q) /\ ~Beneath(p, q)
    /\ LET kept == {r \in DOMAIN t : ~Beneath(p, r)}
           Rebased(r) == q \o SubSeq(r, Len(p) + 1, Len(r))
           Original(r) == p \o SubSeq(r, Len(q) + 1, Len(r))
           moved == {Rebased(r) : r \in DOMAIN t \ kept}
       IN  u = [r \in kept \cup moved |-> IF r \in kept THEN t[r] ELSE t[Original(r)]]

TreeInit == tree = (<< >> :> Directory) /\ reply = "error"

\* An operation that reports success has been done.  One that reports an error
\* has been done or not, and a path moved onto itself changes nothing.
TreeNext ==
    LET t == tree
        u == tree'
        Replied(op) == reply' \in {op, "error"}
    IN  \/ \E p \in DOMAIN u : \/ Replied("write") /\ PutFile(t, u, p)
                               \/ Replied("mkdir") /\ MakeDirectory(t, u, p)
        \/ \E p \in DOMAIN t : \/ Replied("delete") /\ RemoveFile(t, u, p)
                               \/ Replied("rmdir") /\ RemoveDirectory(t, u, p)
        \/ Replied("rename") /\ \E p \in DOMAIN t, q \in DOMAIN u : MovePath(t, u, p, q)
        \/ Replied("same") /\ u = t

TreeSpec == TreeInit /\ [][TreeNext]_<<tree, reply>>
=============================================================================
