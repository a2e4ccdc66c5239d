---------------------------- MODULE AddressSpace ----------------------------
(***************************************************************************)
(* Changes of user page tables (kernel/mm/address_space.cpp) and the TLB   *)
(* shootdown that makes them visible to the other processors               *)
(* (kernel/cpu/smp.cpp).                                                   *)
(*                                                                         *)
(* An address space has one user page: what the protocol promises, it      *)
(* promises page by page.  tlb[c] is the translation of that page which    *)
(* processor c may hold for the root it has loaded; the hardware fills it  *)
(* from the page table at any time and only a CR3 load or an invlpg        *)
(* empties it.  pc[c] is where the kernel code of c is, handler[c] where   *)
(* the shootdown interrupt that it may be serving is.  active_cpu_mask,    *)
(* observed_tlb_generation and the counters are only ever written and are  *)
(* left out.                                                               *)
(***************************************************************************)
EXTENDS Integers, FiniteSets

CONSTANTS Cpu,            \* logical processor numbers
          Spaces,         \* the number of address_space records in the process table
          Frame,          \* physical frames for user pages
          NoEntry,        \* a page-table entry that is not present
          ActivateMasked, \* is the switch of address space free of interrupts
          KernelRanges,   \* page_count > LIMIT of the kernel shootdowns: set of BOOLEANs
          Mutators,       \* the processors whose threads change page tables
          Readers,        \* the processors whose threads take leases
          Operations,     \* the mutations they perform
          Fails,          \* may a deadline expire or an IPI not be sent
          MaxToken,       \* bound: mutations of one address space, and of the kernel
          MaxIdentity     \* bound: address-space identities

Space  == 1..Spaces
Kernel == 0                             \* the kernel's own root: no address space
Root   == 0..Spaces
Entry  == [frame : Frame, write : BOOLEAN]

ASSUME AddressSpaceAssumption ==
    /\ Cpu \subseteq Nat /\ IsFiniteSet(Cpu)
    /\ Spaces \in Nat /\ NoEntry \notin Entry
    /\ ActivateMasked \in BOOLEAN /\ KernelRanges \subseteq BOOLEAN
    /\ Mutators \subseteq Cpu /\ Readers \subseteq Cpu
    /\ Operations \subseteq {"map", "unmap", "free", "protect"}
    /\ Fails \in BOOLEAN /\ MaxToken \in Nat /\ MaxIdentity \in Nat

VARIABLES
    pt,        \* pt[s]: the page-table entry of the user page
    free,      \* the frames pmm_alloc_block may return
    identity,  \* identity[s], 0 for the kernel
    nextId,    \* next_address_space_identity
    gen,       \* gen[s]: tlb_generation, gen[Kernel]: kernel_tlb_generation
    token,     \* token[s]: operation_token
    cached,    \* cached[s]: cached_cpu_mask
    gate,      \* the address spaces with shootdown_active
    accesses,  \* accesses[s]: active_user_accesses
    frozen,    \* the address spaces with shootdown_timeout_count # 0
    cr3,       \* cr3[c]: the root processor c translates with
    tlb,       \* tlb[c]: the translation it may use
    loaded,    \* loaded[c]: loaded_address_space and its identity
    pending,   \* the processors with pending_tlb_shootdown
    req,       \* req[c]: the tlb_request_ fields
    ack,       \* ack[c]: tlb_ack_token and tlb_ack_generation
    ipi,       \* the processors with a latched shootdown interrupt
    handler,   \* handler[c]: "none", "flush" or "clear"
    hreq,      \* hreq[c]: the request its handler has read
    pc,        \* pc[c]: where its kernel code is
    on,        \* on[c]: the address space that code works on
    kind,      \* kind[c]: what the mutation does
    freeing,   \* freeing[c]: the entry taken out of the page table
    mine,      \* mine[c]: the request it has to publish
    todo,      \* todo[c]: the targets it has not published to
    waiting,   \* waiting[c]: the targets that have not acknowledged
    ok         \* ok[c]: has the shootdown succeeded so far

spaceVars == <<pt, free, identity, nextId, gen, token, cached, gate, accesses, frozen>>
cpuVars   == <<cr3, tlb, loaded>>
mailVars  == <<pending, req, ack, ipi, handler, hreq>>
opVars    == <<on, kind, freeing, mine, todo, waiting, ok>>
vars      == <<spaceVars, cpuVars, mailVars, opVars, pc>>

-----------------------------------------------------------------------------
Request == [root : Root, id : 0..MaxIdentity, gen : 0..MaxToken + 1,
            token : 0..MaxToken, full : BOOLEAN]
Kinds   == {"map", "unmap", "free", "protect", "kernel"}
NoRequest == [root |-> Kernel, id |-> 0, gen |-> 0, token |-> 0, full |-> FALSE]

Least(S) == CHOOSE c \in S : \A d \in S : c <= d

Goto(c, l) == pc' = [pc EXCEPT ![c] = l]

\* The call returns: its local variables are gone.
Return(c) ==
    /\ pc' = [pc EXCEPT ![c] = "idle"]
    /\ on' = [on EXCEPT ![c] = Kernel]
    /\ kind' = [kind EXCEPT ![c] = "kernel"]
    /\ freeing' = [freeing EXCEPT ![c] = NoEntry]
    /\ mine' = [mine EXCEPT ![c] = NoRequest]
    /\ todo' = [todo EXCEPT ![c] = {}]
    /\ waiting' = [waiting EXCEPT ![c] = {}]
    /\ ok' = [ok EXCEPT ![c] = TRUE]

\* The interrupt flag: clear under a spinlock, while a mutation waits for user
\* accesses to end, in the handler itself, and, if ActivateMasked, while the
\* address space is switched.
Interruptible(c) ==
    /\ handler[c] = "none"
    /\ pc[c] \notin {"drain", "mutate", "complete"}
    /\ ActivateMasked => pc[c] \notin {"switch", "record"}

\* A step of the code of c: its handler is not running on top of it.
At(c, l) == pc[c] = l /\ handler[c] = "none"

Init ==
    /\ pt = [s \in Space |-> NoEntry]
    /\ free = Frame
    /\ identity = [s \in Root |-> s]
    /\ nextId = Spaces + 1
    /\ gen = [s \in Root |-> IF s = Kernel THEN 0 ELSE 1]
    /\ token = [s \in Root |-> 0]
    /\ cached = [s \in Space |-> {}]
    /\ gate = {}
    /\ accesses = [s \in Space |-> 0]
    /\ frozen = {}
    /\ cr3 = [c \in Cpu |-> Kernel]
    /\ tlb = [c \in Cpu |-> NoEntry]
    /\ loaded = [c \in Cpu |-> [root |-> Kernel, id |-> 0]]
    /\ pending = {} /\ ipi = {}
    /\ req = [c \in Cpu |-> NoRequest]
    /\ ack = [c \in Cpu |-> [gen |-> 0, token |-> 0]]
    /\ handler = [c \in Cpu |-> "none"]
    /\ hreq = [c \in Cpu |-> NoRequest]
    /\ pc = [c \in Cpu |-> "idle"]
    /\ on = [c \in Cpu |-> Kernel]
    /\ kind = [c \in Cpu |-> "kernel"]
    /\ freeing = [c \in Cpu |-> NoEntry]
    /\ mine = [c \in Cpu |-> NoRequest]
    /\ todo = [c \in Cpu |-> {}]
    /\ waiting = [c \in Cpu |-> {}]
    /\ ok = [c \in Cpu |-> TRUE]

-----------------------------------------------------------------------------
(* The hardware, and the switch of address space.                          *)

\* The processor walks the page table it has loaded.
TlbFill(c) ==
    /\ cr3[c] \in Space
    /\ pt[cr3[c]] # NoEntry
    /\ tlb[c] = NoEntry
    /\ tlb' = [tlb EXCEPT ![c] = pt[cr3[c]]]
    /\ UNCHANGED <<spaceVars, cr3, loaded, mailVars, opVars, pc>>

\* address_space_activate: the processor joins the mask of the address space ...
Activate(c) == \E s \in Space :
    /\ At(c, "idle")
    /\ on' = [on EXCEPT ![c] = s]
    /\ cached' = [cached EXCEPT ![s] = @ \cup {c}]
    /\ Goto(c, "switch")
    /\ UNCHANGED <<pt, free, identity, nextId, gen, token, gate, accesses, frozen,
                   cpuVars, mailVars, kind, freeing, mine, todo, waiting, ok>>

\* ... loads its root, which empties the TLB ...
SwitchRoot(c) ==
    /\ At(c, "switch")
    /\ cr3' = [cr3 EXCEPT ![c] = on[c]]
    /\ tlb' = [tlb EXCEPT ![c] = NoEntry]
    /\ Goto(c, "record")
    /\ UNCHANGED <<spaceVars, loaded, mailVars, opVars>>

\* ... and records what it has loaded.
RecordLoaded(c) ==
    /\ At(c, "record")
    /\ loaded' = [loaded EXCEPT ![c] = [root |-> on[c], id |-> identity[on[c]]]]
    /\ Return(c)
    /\ UNCHANGED <<spaceVars, cr3, tlb, mailVars>>

\* address_space_activate_kernel records first and then loads the root.
ActivateKernel(c) ==
    /\ At(c, "idle")
    /\ loaded' = [loaded EXCEPT ![c] = [root |-> Kernel, id |-> 0]]
    /\ on' = [on EXCEPT ![c] = Kernel]
    /\ Goto(c, "leave")
    /\ UNCHANGED <<spaceVars, cr3, tlb, mailVars, kind, freeing, mine, todo, waiting, ok>>

LeaveRoot(c) ==
    /\ At(c, "leave")
    /\ cr3' = [cr3 EXCEPT ![c] = Kernel]
    /\ tlb' = [tlb EXCEPT ![c] = NoEntry]
    /\ Return(c)
    /\ UNCHANGED <<spaceVars, loaded, mailVars>>

\* process_clear gives the record of a finished process a new identity and
\* keeps its root.  cleanup_user_process_mapping has unmapped the pages, unless
\* the address space refuses to be changed.
Recycle(s) ==
    /\ nextId <= MaxIdentity
    /\ \A c \in Cpu : loaded[c].root # s /\ on[c] # s
    /\ pt[s] = NoEntry \/ s \in frozen
    /\ identity' = [identity EXCEPT ![s] = nextId]
    /\ nextId' = nextId + 1
    /\ gen' = [gen EXCEPT ![s] = 1]
    /\ token' = [token EXCEPT ![s] = 0]
    /\ cached' = [cached EXCEPT ![s] = {}]
    /\ gate' = gate \ {s}
    /\ accesses' = [accesses EXCEPT ![s] = 0]
    /\ frozen' = frozen \ {s}
    /\ UNCHANGED <<pt, free, cpuVars, mailVars, opVars, pc>>

-----------------------------------------------------------------------------
(* User accesses of the kernel (leases of kernel/syscall/user_memory.cpp). *)

\* address_space_user_access_begin: nobody changes the space ...
AccessBegin(c) ==
    /\ c \in Readers
    /\ At(c, "idle")
    /\ loaded[c].root \in Space \ (frozen \cup gate)
    /\ on' = [on EXCEPT ![c] = loaded[c].root]
    /\ Goto(c, "count")
    /\ UNCHANGED <<spaceVars, cpuVars, mailVars, kind, freeing, mine, todo, waiting, ok>>

\* ... so count the access ...
AccessCount(c) ==
    /\ At(c, "count")
    /\ accesses' = [accesses EXCEPT ![on[c]] = @ + 1]
    /\ Goto(c, "recheck")
    /\ UNCHANGED <<pt, free, identity, nextId, gen, token, cached, gate, frozen,
                   cpuVars, mailVars, opVars>>

\* Variant that trusts its first look at the gate.
AccessRecheckNever(c) ==
    /\ At(c, "recheck")
    /\ Goto(c, "access")
    /\ UNCHANGED <<spaceVars, cpuVars, mailVars, opVars>>

\* ... and look again, now that a mutation can see it; back out if one began.
AccessRecheck(c) ==
    /\ At(c, "recheck")
    /\ IF on[c] \in gate \/ identity[on[c]] # loaded[c].id
       THEN /\ accesses' = [accesses EXCEPT ![on[c]] = @ - 1]
            /\ Return(c)
       ELSE Goto(c, "access") /\ UNCHANGED <<accesses, opVars>>
    /\ UNCHANGED <<pt, free, identity, nextId, gen, token, cached, gate, frozen,
                   cpuVars, mailVars>>

\* address_space_user_access_end.
AccessEnd(c) ==
    /\ At(c, "access")
    /\ accesses' = [accesses EXCEPT ![on[c]] = IF @ = 0 THEN 0 ELSE @ - 1]
    /\ Return(c)
    /\ UNCHANGED <<pt, free, identity, nextId, gen, token, cached, gate, frozen,
                   cpuVars, mailVars>>

-----------------------------------------------------------------------------
(* A mutation: address_space_map_page, _alloc_map_range, _unmap_page,      *)
(* _unmap_free_range and _protect_range.                                   *)

Begin(c) == \E s \in Space, k \in Operations :
    /\ c \in Mutators
    /\ At(c, "idle")
    /\ token[s] + Cardinality({d \in Cpu : on[d] = s /\ pc[d] \in {"gate", "drain", "mutate"}})
         < MaxToken
    /\ on' = [on EXCEPT ![c] = s]
    /\ kind' = [kind EXCEPT ![c] = k]
    /\ Goto(c, "gate")
    /\ UNCHANGED <<spaceVars, cpuVars, mailVars, freeing, mine, todo, waiting, ok>>

\* mutation_gate_enter spins, interruptible, until it has shootdown_active; it
\* refuses an address space on which a shootdown has failed.
GateEnter(c) ==
    /\ At(c, "gate")
    /\ IF on[c] \in frozen
       THEN Return(c) /\ UNCHANGED gate
       ELSE /\ on[c] \notin gate
            /\ gate' = gate \cup {on[c]}
            /\ Goto(c, "drain")
            /\ UNCHANGED opVars
    /\ UNCHANGED <<pt, free, identity, nextId, gen, token, cached, accesses, frozen,
                   cpuVars, mailVars>>

\* It then waits for the user accesses that came first.
GateDrain(c) ==
    /\ At(c, "drain")
    /\ accesses[on[c]] = 0
    /\ Goto(c, "mutate")
    /\ UNCHANGED <<spaceVars, cpuVars, mailVars, opVars>>

\* Can the page table be changed in this way: a page to unmap or to protect is
\* present, a page to map gets a frame.
Changes(c, e) ==
    LET old == pt[on[c]] IN
    CASE kind[c] = "map"     -> old = NoEntry /\ e \in [frame : free, write : BOOLEAN]
      [] kind[c] = "protect" -> /\ old # NoEntry
                                /\ e \in [frame : {old.frame}, write : BOOLEAN]
      [] OTHER               -> old # NoEntry /\ e = NoEntry

\* Variant that asks only the processors which have recorded the address space.
TargetsLoaded(s) == {d \in Cpu : loaded[d].root = s}

\* The processors that may hold translations: cached_cpu_mask.
Targets(s) == cached[s]

\* Under the lock of the address space: change the entry, drop the local
\* translation, and take the generation, the token and the targets of the
\* shootdown (begin_invalidation_unlocked).
Mutate(c) ==
    LET s == on[c] IN
    /\ At(c, "mutate")
    /\ \E e \in Entry \cup {NoEntry} :
          /\ Changes(c, e)
          /\ pt' = [pt EXCEPT ![s] = e]
          /\ free' = IF kind[c] = "map" THEN free \ {e.frame} ELSE free
    /\ freeing' = [freeing EXCEPT ![c] = pt[s]]
    /\ tlb' = [tlb EXCEPT ![c] = NoEntry]
    /\ gen' = [gen EXCEPT ![s] = @ + 1]
    /\ token' = [token EXCEPT ![s] = @ + 1]
    /\ mine' = [mine EXCEPT ![c] = [root |-> s, id |-> identity[s], gen |-> gen[s] + 1,
                                    token |-> token[s] + 1, full |-> FALSE]]
    /\ todo' = [todo EXCEPT ![c] = Targets(s)]
    /\ Goto(c, "shoot")
    /\ UNCHANGED <<identity, nextId, cached, gate, accesses, frozen, cr3, loaded,
                   mailVars, on, kind, waiting, ok>>

\* The page table cannot be changed: the gate is released and nothing happens.
MutateFailed(c) ==
    /\ At(c, "mutate")
    /\ ~ \E e \in Entry \cup {NoEntry} : Changes(c, e)
    /\ gate' = gate \ {on[c]}
    /\ Return(c)
    /\ UNCHANGED <<pt, free, identity, nextId, gen, token, cached, accesses, frozen,
                   cpuVars, mailVars>>

\* smp_kernel_tlb_shootdown: every processor is a target, and no gate is taken.
KernelShootdown(c) == \E full \in KernelRanges :
    /\ c \in Mutators
    /\ At(c, "idle")
    /\ token[Kernel] < MaxToken
    /\ gen' = [gen EXCEPT ![Kernel] = @ + 1]
    /\ token' = [token EXCEPT ![Kernel] = @ + 1]
    /\ on' = [on EXCEPT ![c] = Kernel]
    /\ kind' = [kind EXCEPT ![c] = "kernel"]
    /\ mine' = [mine EXCEPT ![c] = [root |-> Kernel, id |-> 0, gen |-> gen[Kernel] + 1,
                                    token |-> token[Kernel] + 1, full |-> full]]
    /\ todo' = [todo EXCEPT ![c] = Cpu]
    /\ Goto(c, "shoot")
    /\ UNCHANGED <<pt, free, identity, nextId, cached, gate, accesses, frozen, cpuVars,
                   mailVars, freeing, waiting, ok>>

-----------------------------------------------------------------------------
(* smp_tlb_shootdown, interruptible throughout.                            *)

\* flush_loaded_address_space on processor d: a request for an address space
\* that d has not loaded is ignored.
Flush(d, r) ==
    LET hit == r.root = Kernel \/ loaded[d] = [root |-> r.root, id |-> r.id] IN
    /\ cr3' = IF hit /\ r.full THEN [cr3 EXCEPT ![d] = r.root] ELSE cr3
    /\ tlb' = IF hit /\ (r.full \/ r.root # Kernel)
              THEN [tlb EXCEPT ![d] = NoEntry] ELSE tlb

\* It refuses to start in an interrupt, or when a fault is injected.
ShootRefused(c) ==
    /\ Fails
    /\ At(c, "shoot")
    /\ todo[c] # {}
    /\ ok' = [ok EXCEPT ![c] = FALSE]
    /\ Goto(c, "complete")
    /\ UNCHANGED <<spaceVars, cpuVars, mailVars, on, kind, freeing, mine, todo, waiting>>

\* The initiating processor flushes its own translations.
ShootSelf(c) ==
    /\ At(c, "shoot")
    /\ IF c \in todo[c] THEN Flush(c, mine[c]) ELSE UNCHANGED <<cr3, tlb>>
    /\ ok' = [ok EXCEPT ![c] = TRUE]
    /\ waiting' = [waiting EXCEPT ![c] = todo[c] \ {c}]
    /\ todo' = [todo EXCEPT ![c] = @ \ {c}]
    /\ Goto(c, "target")
    /\ UNCHANGED <<spaceVars, loaded, mailVars, on, kind, freeing, mine>>

\* It waits until the mailbox of the next target is empty ...
TargetReady(c) ==
    /\ At(c, "target")
    /\ todo[c] # {} /\ Least(todo[c]) \notin pending
    /\ Goto(c, "who")
    /\ UNCHANGED <<spaceVars, cpuVars, mailVars, opVars>>

TargetsDone(c) ==
    /\ At(c, "target")
    /\ todo[c] = {}
    /\ Goto(c, "wait")
    /\ UNCHANGED <<spaceVars, cpuVars, mailVars, opVars>>

\* ... writes which address space, and then which operation it is about ...
PublishWho(c) ==
    LET d == Least(todo[c]) IN
    /\ At(c, "who")
    /\ req' = [req EXCEPT ![d] = [@ EXCEPT !.root = mine[c].root, !.id = mine[c].id]]
    /\ Goto(c, "what")
    /\ UNCHANGED <<spaceVars, cpuVars, pending, ack, ipi, handler, hreq, opVars>>

PublishWhat(c) ==
    LET d == Least(todo[c]) IN
    /\ At(c, "what")
    /\ req' = [req EXCEPT ![d] = [@ EXCEPT !.gen = mine[c].gen, !.token = mine[c].token,
                                           !.full = mine[c].full]]
    /\ Goto(c, "send")
    /\ UNCHANGED <<spaceVars, cpuVars, pending, ack, ipi, handler, hreq, opVars>>

\* ... and raises the mailbox flag and the interrupt.
PublishSend(c) ==
    LET d == Least(todo[c]) IN
    /\ At(c, "send")
    /\ pending' = pending \cup {d}
    /\ ipi' = ipi \cup {d}
    /\ todo' = [todo EXCEPT ![c] = @ \ {d}]
    /\ Goto(c, "target")
    /\ UNCHANGED <<spaceVars, cpuVars, req, ack, handler, hreq, on, kind, freeing, mine,
                   waiting, ok>>

\* The interrupt controller does not take the interrupt.
SendFailed(c) ==
    /\ Fails
    /\ At(c, "send")
    /\ pending' = pending \ {Least(todo[c])}
    /\ ok' = [ok EXCEPT ![c] = FALSE]
    /\ Goto(c, "complete")
    /\ UNCHANGED <<spaceVars, cpuVars, req, ack, ipi, handler, hreq, on, kind, freeing,
                   mine, todo, waiting>>

\* Does the acknowledgement word of d show this operation.
AckMatches(c, d) ==
    ack[d].token = mine[c].token /\ ack[d].gen = mine[c].gen

\* Poll the acknowledgement words.
AckSeen(c) == \E d \in waiting[c] :
    /\ At(c, "wait")
    /\ AckMatches(c, d)
    /\ waiting' = [waiting EXCEPT ![c] = @ \ {d}]
    /\ UNCHANGED <<spaceVars, cpuVars, mailVars, on, kind, freeing, mine, todo, ok, pc>>

AllAcked(c) ==
    /\ At(c, "wait")
    /\ waiting[c] = {}
    /\ Goto(c, "complete")
    /\ UNCHANGED <<spaceVars, cpuVars, mailVars, opVars>>

\* The deadline passes while it waits for a mailbox or for acknowledgements.
Deadline(c) ==
    /\ Fails
    /\ \/ At(c, "target") /\ todo[c] # {} /\ Least(todo[c]) \in pending
       \/ At(c, "wait") /\ waiting[c] # {}
    /\ ok' = [ok EXCEPT ![c] = FALSE]
    /\ Goto(c, "complete")
    /\ UNCHANGED <<spaceVars, cpuVars, mailVars, on, kind, freeing, mine, todo, waiting>>

\* complete_invalidation: a mutation that is not acknowledged freezes the address
\* space; either way the gate is released.  The kernel's shootdown only returns.
Complete(c) ==
    LET s == on[c]
        valid == ok[c] /\ token[s] = mine[c].token /\ gen[s] = mine[c].gen
    IN
    /\ At(c, "complete")
    /\ frozen' = IF s \in Space /\ ~valid THEN frozen \cup {s} ELSE frozen
    /\ gate' = gate \ {s}
    /\ IF valid /\ kind[c] = "free" THEN Goto(c, "free") /\ UNCHANGED opVars ELSE Return(c)
    /\ UNCHANGED <<pt, free, identity, nextId, gen, token, cached, accesses,
                   cpuVars, mailVars>>

\* address_space_unmap_free_range returns the quarantined frame.
FreeFrame(c) ==
    /\ At(c, "free")
    /\ free' = free \cup {freeing[c].frame}
    /\ Return(c)
    /\ UNCHANGED <<pt, identity, nextId, gen, token, cached, gate, accesses, frozen,
                   cpuVars, mailVars>>

-----------------------------------------------------------------------------
(* smp_tlb_shootdown_handler.                                              *)

\* It reads the mailbox; an interrupt without a request is only counted.
HandlerRead(c) ==
    /\ c \in ipi /\ Interruptible(c)
    /\ ipi' = ipi \ {c}
    /\ IF c \in pending
       THEN /\ hreq' = [hreq EXCEPT ![c] = req[c]]
            /\ handler' = [handler EXCEPT ![c] = "flush"]
       ELSE UNCHANGED <<hreq, handler>>
    /\ UNCHANGED <<spaceVars, cpuVars, pending, req, ack, opVars, pc>>

\* Variant that acknowledges before it has flushed anything.
HandlerFlushNothing(c) ==
    /\ handler[c] = "flush"
    /\ ack' = [ack EXCEPT ![c] = [gen |-> hreq[c].gen, token |-> hreq[c].token]]
    /\ handler' = [handler EXCEPT ![c] = "clear"]
    /\ UNCHANGED <<spaceVars, cpuVars, pending, req, ipi, hreq, opVars, pc>>

\* It flushes and acknowledges ...
HandlerFlush(c) ==
    /\ handler[c] = "flush"
    /\ Flush(c, hreq[c])
    /\ ack' = [ack EXCEPT ![c] = [gen |-> hreq[c].gen, token |-> hreq[c].token]]
    /\ handler' = [handler EXCEPT ![c] = "clear"]
    /\ UNCHANGED <<spaceVars, loaded, pending, req, ipi, hreq, opVars, pc>>

\* Variant that leaves the mailbox occupied.
HandlerClearNever(c) ==
    /\ handler[c] = "clear"
    /\ handler' = [handler EXCEPT ![c] = "none"]
    /\ UNCHANGED <<spaceVars, cpuVars, pending, req, ack, ipi, hreq, opVars, pc>>

\* ... and then empties the mailbox.
HandlerClear(c) ==
    /\ handler[c] = "clear"
    /\ pending' = pending \ {c}
    /\ handler' = [handler EXCEPT ![c] = "none"]
    /\ hreq' = [hreq EXCEPT ![c] = NoRequest]
    /\ UNCHANGED <<spaceVars, cpuVars, req, ack, ipi, opVars, pc>>

-----------------------------------------------------------------------------
\* What a processor does of itself once an operation has begun.
Step(c) ==
    \/ SwitchRoot(c) \/ RecordLoaded(c) \/ LeaveRoot(c)
    \/ AccessCount(c) \/ AccessRecheck(c) \/ AccessEnd(c)
    \/ GateEnter(c) \/ GateDrain(c) \/ Mutate(c) \/ MutateFailed(c)
    \/ ShootSelf(c) \/ TargetReady(c) \/ TargetsDone(c)
    \/ PublishWho(c) \/ PublishWhat(c) \/ PublishSend(c)
    \/ AckSeen(c) \/ AllAcked(c) \/ Complete(c) \/ FreeFrame(c)

Handler(c) == HandlerRead(c) \/ HandlerFlush(c) \/ HandlerClear(c)

Next ==
    \/ \E c \in Cpu :
          \/ TlbFill(c) \/ Activate(c) \/ ActivateKernel(c)
          \/ AccessBegin(c) \/ Begin(c) \/ KernelShootdown(c)
          \/ ShootRefused(c) \/ SendFailed(c) \/ Deadline(c)
          \/ Step(c) \/ Handler(c)
    \/ \E s \in Space : Recycle(s)

Spec == Init /\ [][Next]_vars

\* Kernel code runs on, and a latched interrupt is taken at the first instruction
\* boundary with the interrupt flag set, hence the strong fairness.  Nothing
\* obliges a processor to begin an operation or a deadline to pass.
Fairness == \A c \in Cpu :
    WF_vars(Step(c)) /\ WF_vars(Handler(c)) /\ SF_vars(HandlerRead(c))

FairSpec == Spec /\ Fairness

-----------------------------------------------------------------------------
(* Properties.                                                             *)

TypeOK ==
    /\ pt \in [Space -> Entry \cup {NoEntry}] /\ free \subseteq Frame
    /\ identity \in [Root -> Nat] /\ nextId \in Nat
    /\ gen \in [Root -> Nat] /\ token \in [Root -> Nat]
    /\ cached \in [Space -> SUBSET Cpu] /\ gate \subseteq Space
    /\ accesses \in [Space -> Nat] /\ frozen \subseteq Space
    /\ cr3 \in [Cpu -> Root] /\ tlb \in [Cpu -> Entry \cup {NoEntry}]
    /\ loaded \in [Cpu -> [root : Root, id : Nat]]
    /\ pending \subseteq Cpu /\ ipi \subseteq Cpu
    /\ req \in [Cpu -> Request] /\ hreq \in [Cpu -> Request] /\ mine \in [Cpu -> Request]
    /\ ack \in [Cpu -> [gen : Nat, token : Nat]]
    /\ handler \in [Cpu -> {"none", "flush", "clear"}]
    /\ pc \in [Cpu -> {"idle", "switch", "record", "leave", "count", "recheck", "access", "gate",
                       "drain", "mutate", "shoot", "target", "who", "what", "send",
                       "wait", "complete", "free"}]
    /\ on \in [Cpu -> Root] /\ kind \in [Cpu -> Kinds]
    /\ freeing \in [Cpu -> Entry \cup {NoEntry}]
    /\ todo \in [Cpu -> SUBSET Cpu] /\ waiting \in [Cpu -> SUBSET Cpu]
    /\ ok \in [Cpu -> BOOLEAN]

\* The processors that translate user addresses through s.
Users(s) == {c \in Cpu : cr3[c] = s /\ loaded[c].root = s}

\* When no mutation of an address space is under way and none has failed, no
\* processor that uses it holds a translation other than the one in its page
\* table: a mutation that returned success is visible everywhere.
Coherent ==
    \A s \in Space \ (gate \cup frozen) : \A c \in Users(s) : tlb[c] \in {NoEntry, pt[s]}

\* A frame that may be handed out again is not reachable through any TLB:
\* address_space_unmap_free_range frees a frame only when every processor that
\* could have cached it has acknowledged.
NoStaleFrame ==
    \A c \in Cpu : cr3[c] \in Space /\ c \in Users(cr3[c]) /\ tlb[c] # NoEntry =>
        tlb[c].frame \notin free

\* Refuted: a processor that has left the switch code translates through the
\* address space it has recorded.
LoadedRoot == \A c \in Cpu : pc[c] = "idle" => cr3[c] = loaded[c].root

\* While the kernel holds a lease on user memory, the page table under it does
\* not change: address_space_user_access_begin and mutation_gate_enter exclude
\* each other.
LeaseStable == [][\A c \in Cpu : pc[c] = "access" => pt'[on[c]] = pt[on[c]]]_vars

\* After a shootdown of an address space has failed, its page table never
\* changes again in that incarnation.
FrozenStays ==
    [][\A s \in frozen : pt'[s] = pt[s] /\ (identity'[s] = identity[s] => s \in frozen')]_vars

\* The frame that a failed shootdown took out of a page table stays out of use:
\* a frame only becomes free in a step of the operation that was acknowledged.
QuarantineKept ==
    [][\A f \in free' \ free : \E c \in Cpu :
          /\ pc[c] = "free" /\ ok[c] /\ waiting[c] = {}
          /\ freeing[c].frame = f]_vars

\* Every mutation that has passed the gate, and every kernel shootdown, comes to
\* its end even if no deadline ever passes: no set of processors waits for
\* itself.  (The gate itself is a spin without a queue.)
OperationEnds == \A c \in Cpu : pc[c] \notin {"idle", "gate"} ~> pc[c] = "idle"

\* What a change of the page tables may not do: change a translation under a
\* lease, change a frozen address space, or bring back a frame whose removal
\* some processor has not acknowledged.
MutationsExact == LeaseStable /\ FrozenStays /\ QuarantineKept
=============================================================================
