--------------------------- MODULE KernelObjects ---------------------------
(***************************************************************************)
(* Handle tables, reference-counted kernel objects and the pages behind    *)
(* graphics surfaces, with the operations that move handles between        *)
(* processes and the end of a process:                                     *)
(*   kernel/handle/kernel_handle.cpp, kernel/handle/kernel_objects.cpp,    *)
(*   kernel/graphics/surface_backing.cpp, kernel/process/process_surface.cpp,*)
(*   the transfer half of kernel/ipc/ipc.cpp and of process64.cpp.         *)
(*                                                                         *)
(* A handle table has its own lock, all objects share object_lock, the     *)
(* slots of the backing store are claimed by compare-and-swap, and no two  *)
(* of these are held together: one action is one such section.  pc[t] is   *)
(* where thread t is.  A token is <<slot, generation>>, an object          *)
(* identifier <<index, generation>>.  Payloads, sizes and dimensions are   *)
(* left out; every surface has Pages pages.                                *)
(***************************************************************************)
EXTENDS Integers, Sequences, FiniteSets

CONSTANTS Process, Thread,
          Owner,         \* Owner[t]: the process of thread t
          TableSize,     \* KERNEL_HANDLE_TABLE_SIZE
          Objects,       \* Objects[k]: how many objects of kind k there are
          Pages,         \* page_count of a surface
          Frames,        \* how many frames the allocator has
          MaxTotal,      \* KERNEL_GRAPHICS_SURFACE_MAX_TOTAL_PAGES
          MailCapacity,  \* IPC_MAILBOX_CAPACITY
          MaxHandles,    \* OS_IPC_V2_MAX_HANDLES
          MappingMax,    \* PROCESS_SURFACE_MAPPING_MAX
          UnmapMayFail,  \* can vm_unmap_page fail
          Histories,     \* Histories: generations the objects of each kind may start at
          Creations,     \* bound: Creations[k] objects of kind k are created per index
          Allocations,   \* bound: handles allocated per table
          Restarts       \* bound: Restarts[p]: how often the slot of p is used again

Kind    == {"shared", "surface"}
Right   == {"read", "write", "map", "transfer"}
Slot    == 0..(TableSize - 1)
Index(k) == 0..(Objects[k] - 1)
Id      == Nat \X Nat
NoEntry == [gen |-> 0]
Empty   == [s \in Slot |-> NoEntry]

VARIABLES
    live,      \* live[p]: process->active in a state that is not terminal
    entry,     \* entry[p][s]: the active entries of the handle table of p
    nextGen,   \* nextGen[p]: table->next_generation
    obj,       \* obj[k][i]: active (0, 1, or 2 while reserved), generation, ref_count
    back,      \* back[i]: the backing slot of surface i: active and its frames
    free,      \* the free frames
    mapped,    \* backing_stats.mapped_pages
    reserved,  \* backing_reserved_pages
    maps,      \* maps[p]: the surface mappings of p, as <<id, frames>>
    mail,      \* mail[p]: the tokens carried by the queued messages
    starts,    \* starts[p]: how often the slot of p was used again
    pc, loc    \* pc[t] and loc[t]: where thread t is, and its local variables

objectVars == <<live, entry, nextGen, obj, back, free, mapped, reserved, maps,
          mail, starts, pc, loc>>

NoHandle == [kind |-> "none", rights |-> {}, id |-> <<0, 0>>]
NoLocals == [h |-> NoHandle, slot |-> 0, to |-> CHOOSE p \in Process : TRUE,
             toks |-> <<>>, new |-> <<>>, todo |-> <<>>, ret |-> "idle",
             back |-> "idle"]

backingVars == <<back, free, mapped, reserved>>
tableVars   == <<entry, nextGen>>
procVars    == <<live, maps, mail, starts>>

ObjectsInit ==
    /\ live = [p \in Process |-> TRUE]
    /\ entry = [p \in Process |-> Empty]
    /\ nextGen = [p \in Process |-> 1]
    /\ \E g \in Histories :
         obj = [k \in Kind |-> [i \in Index(k) |-> [active |-> 0, gen |-> g[k], ref |-> 0]]]
    /\ back = [i \in Index("surface") |-> [active |-> 0, frames |-> {}]]
    /\ free = 1..Frames
    /\ mapped = 0 /\ reserved = 0
    /\ maps = [p \in Process |-> {}]
    /\ mail = [p \in Process |-> <<>>]
    /\ starts = [p \in Process |-> 0]
    /\ pc = [t \in Thread |-> "idle"]
    /\ loc = [t \in Thread |-> NoLocals]

(* Leave for label l; the local variables are dead outside a call.         *)
Goto(t, l) == /\ pc' = [pc EXCEPT ![t] = l]
              /\ loc' = IF l \in {"idle", "dead"} THEN [loc EXCEPT ![t] = NoLocals] ELSE loc

GotoWith(t, l, r) == pc' = [pc EXCEPT ![t] = l] /\ loc' = [loc EXCEPT ![t] = r]

Least(S) == CHOOSE x \in S : \A y \in S : x <= y

Used(p) == {s \in Slot : entry[p][s] # NoEntry}

(* resolve_unlocked_result: the slot is active and the generations agree.  *)
Resolves(p, tok) == tok[1] \in Used(p) /\ entry[p][tok[1]].gen = tok[2]

HandleOf(e) == [kind |-> e.kind, rights |-> e.rights, id |-> e.id]

(* shared_from_id and surface_from_id.  A reserved surface slot (active 2) *)
(* still has the generation of its last object.                            *)
FromId(h) == /\ h.kind \in Kind
             /\ h.id[1] \in Index(h.kind)
             /\ obj[h.kind][h.id[1]].active # 0
             /\ obj[h.kind][h.id[1]].gen = h.id[2]

FreeObject(k) == {i \in Index(k) : obj[k][i].active = 0}

-----------------------------------------------------------------------------
(* Creating objects                                                        *)

MayCreate(t) == /\ pc[t] = "idle" /\ live[Owner[t]]

(* kernel_shared_memory_create, up to the handle                           *)
SharedCreate(t) ==
    /\ MayCreate(t)
    /\ FreeObject("shared") # {}
    /\ LET i == Least(FreeObject("shared"))
           g == obj["shared"][i].gen + 1
       IN  /\ g <= Creations["shared"]
           /\ obj' = [obj EXCEPT !["shared"][i] = [active |-> 1, gen |-> g, ref |-> 1]]
           /\ GotoWith(t, "alloc", [NoLocals EXCEPT !.to = Owner[t],
                   !.h = [kind |-> "shared", rights |-> Right, id |-> <<i, g>>]])
    /\ UNCHANGED <<tableVars, backingVars, procVars>>

(* kernel_graphics_surface_create: the slot is reserved under object_lock, *)
(* the pages are found without it.                                         *)
SurfaceReserve(t) ==
    /\ MayCreate(t)
    /\ FreeObject("surface") # {}
    /\ LET i == Least(FreeObject("surface"))
       IN  /\ obj["surface"][i].gen < Creations["surface"]
           /\ obj' = [obj EXCEPT !["surface"][i].active = 2]
           /\ GotoWith(t, "claim", [NoLocals EXCEPT !.slot = i, !.to = Owner[t]])
    /\ UNCHANGED <<tableVars, backingVars, procVars>>

(* kernel_graphics_surface_backing_allocate: the compare-and-swap          *)
BackingClaim(t) ==
    /\ pc[t] = "claim"
    /\ LET i == loc[t].slot
       IN  IF back[i].active = 0
           THEN back' = [back EXCEPT ![i].active = 2] /\ Goto(t, "quota")
           ELSE back' = back /\ GotoWith(t, "relclaim", [loc[t] EXCEPT !.back = "unreserve"])
    /\ UNCHANGED <<obj, free, mapped, reserved, tableVars, procVars>>

(* The loop on backing_reserved_pages, taken in one step: it goes round    *)
(* again when another processor changed the counter.                       *)
BackingQuota(t) ==
    /\ pc[t] = "quota"
    /\ IF mapped + reserved + Pages <= MaxTotal
       THEN reserved' = reserved + Pages /\ back' = back /\ Goto(t, "page")
       ELSE /\ reserved' = reserved
            /\ back' = [back EXCEPT ![loc[t].slot].active = 0]
            /\ GotoWith(t, "relclaim", [loc[t] EXCEPT !.back = "unreserve"])
    /\ UNCHANGED <<obj, free, mapped, tableVars, procVars>>

BackingPage(t) ==
    /\ pc[t] = "page" /\ free # {}
    /\ LET i == loc[t].slot
           f == Least(free)
       IN  /\ back' = [back EXCEPT ![i].frames = @ \cup {f}]
           /\ free' = free \ {f}
           /\ Goto(t, IF Cardinality(back[i].frames) + 1 = Pages THEN "commit" ELSE "page")
    /\ UNCHANGED <<obj, mapped, reserved, tableVars, procVars>>

(* rollback_allocation, when there is no frame or vm_map_page fails: pages *)
(* that cannot be unmapped stay in the slot, which stays active.           *)
Kept(S) == IF UnmapMayFail THEN SUBSET S ELSE {{}}

BackingRollback(t) ==
    /\ pc[t] = "page"
    /\ LET i == loc[t].slot
       IN  \E keep \in Kept(back[i].frames) :
             /\ back' = [back EXCEPT ![i] = [active |-> IF keep = {} THEN 0 ELSE 1,
                                             frames |-> keep]]
             /\ free' = free \cup (back[i].frames \ keep)
             /\ mapped' = mapped + Cardinality(keep)
    /\ reserved' = reserved - Pages
    /\ GotoWith(t, "relclaim", [loc[t] EXCEPT !.back = "unreserve"])
    /\ UNCHANGED <<obj, tableVars, procVars>>

(* The reservation is given back before the pages are counted as mapped.   *)
BackingCommit(t) ==
    /\ pc[t] = "commit"
    /\ reserved' = reserved - Pages
    /\ Goto(t, "active")
    /\ UNCHANGED <<obj, back, free, mapped, tableVars, procVars>>

BackingActive(t) ==
    /\ pc[t] = "active"
    /\ mapped' = mapped + Pages
    /\ back' = [back EXCEPT ![loc[t].slot].active = 1]
    /\ Goto(t, "publish")
    /\ UNCHANGED <<obj, free, reserved, tableVars, procVars>>

(* kernel_graphics_surface_backing_release: claimed by compare-and-swap,   *)
(* a slot that is not active is left alone.                                *)
ReleaseClaim(t) ==
    /\ pc[t] = "relclaim"
    /\ LET i == loc[t].slot
       IN  IF back[i].active = 1
           THEN back' = [back EXCEPT ![i].active = 2] /\ Goto(t, "relpages")
           ELSE back' = back /\ Goto(t, loc[t].back)
    /\ UNCHANGED <<obj, free, mapped, reserved, tableVars, procVars>>

(* Variant without clear_slot_metadata.                                    *)
ReleasePagesUncleared(t) ==
    /\ pc[t] = "relpages"
    /\ LET i == loc[t].slot
       IN  /\ back' = [back EXCEPT ![i].active = 0]
           /\ free' = free \cup back[i].frames
           /\ mapped' = mapped - Cardinality(back[i].frames)
    /\ Goto(t, loc[t].back)
    /\ UNCHANGED <<obj, reserved, tableVars, procVars>>

ReleasePages(t) ==
    /\ pc[t] = "relpages"
    /\ LET i == loc[t].slot
       IN  \E keep \in Kept(back[i].frames) :
             /\ back' = [back EXCEPT ![i] = [active |-> IF keep = {} THEN 0 ELSE 1,
                                             frames |-> keep]]
             /\ free' = free \cup (back[i].frames \ keep)
             /\ mapped' = mapped - Cardinality(back[i].frames \ keep)
    /\ Goto(t, loc[t].back)
    /\ UNCHANGED <<obj, reserved, tableVars, procVars>>

(* The error path of kernel_graphics_surface_create                        *)
SurfaceUnreserve(t) ==
    /\ pc[t] = "unreserve"
    /\ obj' = [obj EXCEPT !["surface"][loc[t].slot].active = 0]
    /\ Goto(t, "idle")
    /\ UNCHANGED <<tableVars, backingVars, procVars>>

SurfacePublish(t) ==
    /\ pc[t] = "publish"
    /\ LET i == loc[t].slot
           g == obj["surface"][i].gen + 1
       IN  /\ obj' = [obj EXCEPT !["surface"][i] = [active |-> 1, gen |-> g, ref |-> 1]]
           /\ GotoWith(t, "alloc", [loc[t] EXCEPT
                   !.h = [kind |-> "surface", rights |-> Right, id |-> <<i, g>>]])
    /\ UNCHANGED <<tableVars, backingVars, procVars>>

-----------------------------------------------------------------------------
(* Handles and references                                                  *)

(* kernel_handle_alloc into the table of loc.to; it fails on a full table  *)
(* or an injected fault, and the reference taken for the handle is dropped.*)
HandleAlloc(t) ==
    /\ pc[t] = "alloc"
    /\ LET p == loc[t].to
           s == Least(Slot \ Used(p))
           e == [gen |-> nextGen[p], kind |-> loc[t].h.kind,
                 rights |-> loc[t].h.rights, id |-> loc[t].h.id]
       IN  /\ Used(p) # Slot
           /\ nextGen[p] <= Allocations
           /\ entry' = [entry EXCEPT ![p][s] = e]
           /\ nextGen' = [nextGen EXCEPT ![p] = @ + 1]
           /\ IF loc[t].toks = <<>>
              THEN Goto(t, "idle")
              ELSE GotoWith(t, "resolve", [loc[t] EXCEPT !.toks = Tail(@),
                       !.new = Append(@, <<s, e.gen>>)])
    /\ UNCHANGED <<obj, backingVars, procVars>>

HandleAllocFails(t) ==
    /\ pc[t] = "alloc"
    /\ GotoWith(t, "release", [loc[t] EXCEPT !.todo = <<loc[t].h>>,
           !.ret = IF loc[t].toks = <<>> THEN "idle" ELSE "rollback"])
    /\ UNCHANGED <<obj, tableVars, backingVars, procVars>>

(* release_shared_locked and release_surface_locked                        *)
Drop(o) == IF o.ref = 0 THEN o
           ELSE [o EXCEPT !.ref = @ - 1, !.active = IF o.ref = 1 THEN 0 ELSE @]

(* kernel_object_release_handle_object for the first handle of todo: the   *)
(* count under object_lock, the pages of a surface after it.               *)
ReleaseObject(t) ==
    /\ pc[t] = "release" /\ loc[t].todo # <<>>
    /\ LET h == Head(loc[t].todo)
           o == obj[h.kind][h.id[1]]
           last == FromId(h) /\ o.ref = 1
           rest == [loc[t] EXCEPT !.todo = Tail(@), !.slot = h.id[1], !.back = "release"]
       IN  /\ obj' = IF FromId(h) THEN [obj EXCEPT ![h.kind][h.id[1]] = Drop(@)] ELSE obj
           /\ GotoWith(t, IF last /\ h.kind = "surface" THEN "relclaim" ELSE "release", rest)
    /\ UNCHANGED <<tableVars, backingVars, procVars>>

ReleaseReturn(t) ==
    /\ pc[t] = "release" /\ loc[t].todo = <<>>
    /\ Goto(t, loc[t].ret)
    /\ UNCHANGED <<obj, tableVars, backingVars, procVars>>

(* dispatch_surface_close and dispatch_handle_close: the mapping of the    *)
(* process goes first, then the handle.                                    *)
Close(t) ==
    /\ MayCreate(t)
    /\ LET p == Owner[t]
       IN  \E s \in Used(p) :
             /\ maps' = [maps EXCEPT ![p] = {m \in @ : m[1] # entry[p][s].id}]
             /\ GotoWith(t, "close", [NoLocals EXCEPT !.to = p,
                    !.new = <<<<s, entry[p][s].gen>>>>])
    /\ UNCHANGED <<live, mail, starts, obj, tableVars, backingVars>>

(* kernel_handle_close: the entry becomes the thread's to release          *)
Detach(t, tok, ret) ==
    IF Resolves(loc[t].to, tok)
    THEN /\ entry' = [entry EXCEPT ![loc[t].to][tok[1]] = NoEntry]
         /\ GotoWith(t, "release", [loc[t] EXCEPT !.new = Tail(@), !.ret = ret,
                !.todo = <<HandleOf(entry[loc[t].to][tok[1]])>>])
    ELSE entry' = entry /\ GotoWith(t, ret, IF ret = "idle" THEN NoLocals
                                            ELSE [loc[t] EXCEPT !.new = Tail(@)])

HandleClose(t) ==
    /\ pc[t] = "close"
    /\ Detach(t, Head(loc[t].new), "idle")
    /\ UNCHANGED <<nextGen, obj, backingVars, procVars>>

-----------------------------------------------------------------------------
(* Transfer of handles: ipc_send_message_v2                                *)

Send(t) ==
    /\ MayCreate(t)
    /\ Used(Owner[t]) # {}
    /\ \E q \in Process \ {Owner[t]}, n \in 1..MaxHandles :
         /\ live[q]
         /\ \E f \in [1..n -> Used(Owner[t])] :
              GotoWith(t, "resolve", [NoLocals EXCEPT !.to = q,
                  !.toks = [j \in 1..n |-> <<f[j], entry[Owner[t]][f[j]].gen>>]])
    /\ UNCHANGED <<obj, tableVars, backingVars, procVars>>

(* Variant that transfers all rights.                                      *)
TransferredWhole(h) == h.rights

(* One round of transfer_handles: a surface keeps READ and MAP only.       *)
Transferred(h) == IF h.kind = "surface" THEN h.rights \cap {"read", "map"} ELSE h.rights

TransferResolve(t) ==
    /\ pc[t] = "resolve" /\ loc[t].toks # <<>>
    /\ LET tok == Head(loc[t].toks)
           h == HandleOf(entry[Owner[t]][tok[1]])
       IN  IF /\ Resolves(Owner[t], tok)
              /\ "transfer" \in h.rights
              /\ h.kind = "surface" => {"read", "map"} \subseteq h.rights
           THEN GotoWith(t, "retain", [loc[t] EXCEPT !.h = [h EXCEPT !.rights = Transferred(h)]])
           ELSE Goto(t, "rollback")
    /\ UNCHANGED <<obj, tableVars, backingVars, procVars>>

(* kernel_object_retain_handle_object                                      *)
Retain(t) ==
    /\ pc[t] = "retain"
    /\ LET h == loc[t].h
       IN  IF FromId(h)
           THEN obj' = [obj EXCEPT ![h.kind][h.id[1]].ref = @ + 1] /\ Goto(t, "alloc")
           ELSE obj' = obj /\ Goto(t, "rollback")
    /\ UNCHANGED <<tableVars, backingVars, procVars>>

(* All handles are in the table of the receiver: the message is queued, or *)
(* the mailbox is full (or a fault is injected) and they are taken back.   *)
SendPush(t) ==
    /\ pc[t] = "resolve" /\ loc[t].toks = <<>>
    /\ \/ /\ Len(mail[loc[t].to]) < MailCapacity
          /\ mail' = [mail EXCEPT ![loc[t].to] = Append(@, loc[t].new)]
          /\ Goto(t, "idle")
       \/ mail' = mail /\ Goto(t, "rollback")
    /\ UNCHANGED <<live, maps, starts, obj, tableVars, backingVars>>

(* rollback_transferred_handles                                            *)
Rollback(t) ==
    /\ pc[t] = "rollback"
    /\ IF loc[t].new = <<>>
       THEN entry' = entry /\ Goto(t, "idle")
       ELSE Detach(t, Head(loc[t].new), "rollback")
    /\ UNCHANGED <<nextGen, obj, backingVars, procVars>>

Receive(t) ==
    /\ MayCreate(t)
    /\ mail[Owner[t]] # <<>>
    /\ mail' = [mail EXCEPT ![Owner[t]] = Tail(@)]
    /\ UNCHANGED <<live, maps, starts, obj, pc, loc, tableVars, backingVars>>

-----------------------------------------------------------------------------
(* Mapping a surface: process_surface_map                                  *)

SurfaceMap(t) ==
    /\ MayCreate(t)
    /\ Cardinality(maps[Owner[t]]) < MappingMax
    /\ \E s \in Used(Owner[t]) :
         LET e == entry[Owner[t]][s]
         IN  /\ e.kind = "surface" /\ "map" \in e.rights
             /\ \A m \in maps[Owner[t]] : m[1] # e.id
             /\ GotoWith(t, "getbacking", [NoLocals EXCEPT !.h = HandleOf(e)])
    /\ UNCHANGED <<obj, tableVars, backingVars, procVars>>

(* kernel_graphics_surface_get_backing: a reserved slot has no pages yet   *)
SurfaceGetBacking(t) ==
    /\ pc[t] = "getbacking"
    /\ Goto(t, IF FromId(loc[t].h) /\ obj["surface"][loc[t].h.id[1]].active = 1
               THEN "mappages" ELSE "idle")
    /\ UNCHANGED <<obj, tableVars, backingVars, procVars>>

(* The frames come from the backing slot, if it is active; without them    *)
(* the pages mapped so far are unmapped again.                             *)
SurfaceMapPages(t) ==
    /\ pc[t] = "mappages"
    /\ LET i == loc[t].h.id[1]
       IN  maps' = IF back[i].active = 1 /\ Cardinality(back[i].frames) = Pages
                   THEN [maps EXCEPT ![Owner[t]] = @ \cup {<<loc[t].h.id, back[i].frames>>}]
                   ELSE maps
    /\ Goto(t, "idle")
    /\ UNCHANGED <<live, mail, starts, obj, tableVars, backingVars>>

SurfaceUnmap(t) ==
    /\ MayCreate(t)
    /\ \E s \in Used(Owner[t]) :
         /\ "map" \in entry[Owner[t]][s].rights
         /\ \E m \in maps[Owner[t]] :
              /\ m[1] = entry[Owner[t]][s].id
              /\ maps' = [maps EXCEPT ![Owner[t]] = @ \ {m}]
    /\ UNCHANGED <<live, mail, starts, obj, pc, loc, tableVars, backingVars>>

-----------------------------------------------------------------------------
(* The end of a process and the next use of its slot                       *)

(* process_finish, the section under process_lock                          *)
Exit(t) ==
    /\ MayCreate(t)
    /\ live' = [live EXCEPT ![Owner[t]] = FALSE]
    /\ GotoWith(t, "detach", [NoLocals EXCEPT !.ret = "tableinit"])
    /\ UNCHANGED <<maps, mail, starts, obj, tableVars, backingVars>>

SlotOrder(S) == CHOOSE f \in [1..Cardinality(S) -> S] :
                  \A i, j \in DOMAIN f : i < j => f[i] < f[j]

(* process_surface_unmap_all, then kernel_object_release_table             *)
DetachAll(t) ==
    /\ pc[t] = "detach"
    /\ LET p == Owner[t]
           order == SlotOrder(Used(p))
       IN  /\ maps' = [maps EXCEPT ![p] = {}]
           /\ entry' = [entry EXCEPT ![p] = Empty]
           /\ GotoWith(t, "release", [loc[t] EXCEPT
                  !.todo = [j \in DOMAIN order |-> HandleOf(entry[p][order[j]])]])
    /\ UNCHANGED <<live, mail, starts, nextGen, obj, backingVars>>

(* kernel_handle_table_init and the reset of the mailbox                   *)
Forget(p) ==
    /\ entry' = [entry EXCEPT ![p] = Empty]
    /\ nextGen' = [nextGen EXCEPT ![p] = 1]
    /\ mail' = [mail EXCEPT ![p] = <<>>]

TableInit(t) ==
    /\ pc[t] = "tableinit"
    /\ Forget(Owner[t])
    /\ Goto(t, "dead")
    /\ UNCHANGED <<live, maps, starts, obj, backingVars>>

(* process_clear, before the slot gets its next process                    *)
ProcessClear(t) ==
    /\ pc[t] = "dead"
    /\ starts[Owner[t]] < Restarts[Owner[t]]
    /\ starts' = [starts EXCEPT ![Owner[t]] = @ + 1]
    /\ GotoWith(t, "detach", [NoLocals EXCEPT !.ret = "start"])
    /\ UNCHANGED <<live, maps, mail, obj, tableVars, backingVars>>

ProcessStart(t) ==
    /\ pc[t] = "start"
    /\ Forget(Owner[t])
    /\ live' = [live EXCEPT ![Owner[t]] = TRUE]
    /\ Goto(t, "idle")
    /\ UNCHANGED <<maps, starts, obj, backingVars>>

ObjectsStep(t) ==
    \/ SharedCreate(t)      \/ SurfaceReserve(t)    \/ BackingClaim(t)
    \/ BackingQuota(t)      \/ BackingPage(t)       \/ BackingRollback(t)
    \/ BackingCommit(t)     \/ BackingActive(t)     \/ ReleaseClaim(t)
    \/ ReleasePages(t)      \/ SurfaceUnreserve(t)  \/ SurfacePublish(t)
    \/ HandleAlloc(t)       \/ HandleAllocFails(t)  \/ ReleaseObject(t)
    \/ ReleaseReturn(t)     \/ Close(t)             \/ HandleClose(t)
    \/ Send(t)              \/ TransferResolve(t)   \/ Retain(t)
    \/ SendPush(t)          \/ Rollback(t)          \/ Receive(t)
    \/ SurfaceMap(t)        \/ SurfaceGetBacking(t) \/ SurfaceMapPages(t)
    \/ SurfaceUnmap(t)      \/ Exit(t)              \/ DetachAll(t)
    \/ TableInit(t)         \/ ProcessClear(t)      \/ ProcessStart(t)

ObjectsNext == \E t \in Thread : ObjectsStep(t)

ObjectsSpec == ObjectsInit /\ [][ObjectsNext]_objectVars

-----------------------------------------------------------------------------
(* Properties                                                              *)

Handle == [kind : Kind, rights : SUBSET Right, id : Id]

(* Every variable holds what the code can store in it: counters are not    *)
(* negative, and a backing slot never has more pages than a surface.       *)
ObjectsTypeOK ==
    /\ live \in [Process -> BOOLEAN]
    /\ \A p \in Process, s \in Slot :
         entry[p][s] # NoEntry => entry[p][s].gen > 0 /\ HandleOf(entry[p][s]) \in Handle
    /\ nextGen \in [Process -> Nat]
    /\ \A k \in Kind : \A i \in Index(k) : obj[k][i] \in [active : 0..2, gen : Nat, ref : Nat]
    /\ \A i \in Index("surface") :
         back[i] \in [active : 0..2, frames : SUBSET (1..Frames)]
           /\ Cardinality(back[i].frames) <= Pages
    /\ free \subseteq 1..Frames
    /\ mapped \in Nat /\ reserved \in Nat

(* The references to object <<k, id>>: entries of handle tables, and       *)
(* handles a thread holds between taking or removing one and the count.    *)
Entries(k, id) == {x \in Process \X Slot :
    LET e == entry[x[1]][x[2]] IN e # NoEntry /\ e.kind = k /\ e.id = id}

InFlight(k, id) ==
    {t \in Thread : pc[t] = "alloc" /\ loc[t].h.kind = k /\ loc[t].h.id = id}
    \cup {x \in Thread \X (1..(TableSize + 1)) :
            /\ x[2] \in DOMAIN loc[x[1]].todo
            /\ loc[x[1]].todo[x[2]].kind = k /\ loc[x[1]].todo[x[2]].id = id}

(* An object that a handle names, in a table or in the hands of a thread,  *)
(* is alive, is the object the handle was made for (same generation), and  *)
(* its count covers all of them: it cannot be destroyed under a holder,    *)
(* whatever transfers, rollbacks, closes and process ends overlap.  It is  *)
(* stated until a process slot is used again: rollback_transferred_handles *)
(* may then close a handle of the slot's next process.                     *)
NoPrematureFree ==
    \A k \in Kind : \A i \in Index(k), g \in 1..Creations[k] :
      LET holders == Cardinality(Entries(k, <<i, g>>)) + Cardinality(InFlight(k, <<i, g>>))
      IN  holders > 0 /\ (\A p \in Process : starts[p] = 0) => /\ obj[k][i].active = 1
                         /\ obj[k][i].gen = g
                         /\ obj[k][i].ref >= holders

(* A surface is writable through one handle only, that of the process that *)
(* created it: transfers remove WRITE and TRANSFER (transfer_handles), so  *)
(* no chain of transfers gives a second writer.                            *)
SingleWriter ==
    \A i \in Index("surface"), g \in 1..Creations["surface"] :
      Cardinality({x \in Entries("surface", <<i, g>>) :
                     "write" \in entry[x[1]][x[2]].rights}) <= 1

(* A frame is free or in one backing slot, never both and never in two:    *)
(* no interleaving of allocation, rollback and release frees a page twice. *)
FramesExclusive ==
    /\ \A i \in Index("surface") : back[i].frames \cap free = {}
    /\ \A i, j \in Index("surface") : i # j => back[i].frames \cap back[j].frames = {}

(* Whenever no thread is inside the backing code, the page counters agree  *)
(* with the slots and nothing is left reserved, so the quota is not used   *)
(* up by allocations that failed.                                          *)
BackingAccounted ==
    (\A t \in Thread : pc[t] \notin {"quota", "page", "commit", "active", "relpages"})
      => /\ reserved = 0
         /\ mapped = Cardinality(UNION {back[i].frames : i \in Index("surface")})

(* Refuted: docs/architecture/kernel_handles.md, "Closing the final reference       *)
(* unmaps the kernel view and returns every backing page", and nothing     *)
(* else does: a published surface has its pages.                           *)
SurfaceBacked ==
    \A i \in Index("surface") :
      obj["surface"][i].active = 1 =>
        back[i].active = 1 /\ Cardinality(back[i].frames) = Pages

(* Refuted: same document, "process exit leaves no live owned handle",     *)
(* objects are destroyed "after their final handle reference is closed":   *)
(* no count stays above the references there are.                          *)
NoLeakedReference ==
    \A k \in Kind : \A i \in Index(k) :
      obj[k][i].active = 1 =>
        obj[k][i].ref <= Cardinality(Entries(k, <<i, obj[k][i].gen>>))
                         + Cardinality(InFlight(k, <<i, obj[k][i].gen>>))
=============================================================================
