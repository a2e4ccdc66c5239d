-------------------------- MODULE DriverLifecycle --------------------------
(***************************************************************************)
(* Loading, running and unloading of packaged drivers:                     *)
(*   kernel/driver/driver_manager.cpp (records, states, activity pins),    *)
(*   driver_loader.cpp (the load sequence and its rollback),               *)
(*   driver_unload.cpp, driver_irq.cpp, driver_binding.cpp,                *)
(*   driver_exports.cpp, driver_resource.cpp and the execution contexts of *)
(*   driver_alloc.cpp.                                                     *)
(*                                                                         *)
(* One thread, the kernel shell, loads and unloads (job); driver entry,    *)
(* probe and exit run on it.  Every processor may meanwhile dispatch an    *)
(* interrupt (irq[c]) to the hooked drivers.  An identity is               *)
(* <<slot, generation>>.  A driver owns at most one thing of each kind;    *)
(* names stand for what they name, package contents are DriverImage's.     *)
(***************************************************************************)
EXTENDS Integers, FiniteSets, Sequences

CONSTANTS Name, Cpu, Device,
          Records,        \* DRIVER_MAX_RECORDS
          MaxHooks,       \* DRIVER_MAX_IRQ_HOOKS
          Imports,        \* Imports[n]: modules that n links against and depends on
          Permissions,    \* Permissions[n]: what its manifest asks for
          MaxGeneration   \* bound on the generation of a record

ASSUME DriverAssumption ==
    /\ Records \in Nat /\ MaxHooks \in Nat /\ MaxGeneration \in Nat
    /\ IsFiniteSet(Cpu) /\ "free" \notin Cpu

Slot   == 1..Records
Hook   == 1..MaxHooks
NoId   == <<0, 0>>
NoName == "none"
Owned  == {"alloc", "mmio", "dma"}
NoHook == [name |-> NoName, owner |-> NoId]

VARIABLES
    record,   \* record[s]: state, generation, name and instance of g_drivers[s]
    gate,     \* gate[s]: generation, accepting and in_flight of g_quiesce[s]
    image,    \* identities whose DriverLoadedImage is allocated
    code,     \* identities whose sections are mapped or quarantined
    links,    \* <<importer, exporter>>: addresses patched into a loaded image
    hook,     \* hook[h]: the published interrupt hooks
    export,   \* export[n]: the owner of the exports published under name n
    binding,  \* binding[d]: name and owner that device d is bound to
    held,     \* <<kind, identity>>: allocations, mappings and DMA buffers
    master,   \* identities with a domain whose bus mastering is on
    registry, \* <<kind, identity>>: the rows of g_driver_resources
    job,      \* what the shell thread is doing
    irq,      \* irq[c]: the dispatch running on processor c
    irqLock,  \* the processor that holds g_irq_lock
    context,  \* context[c]: owner in g_cpu_contexts[c]
    retired   \* identities whose record an unload removed

devices == <<export, binding, held, master>>
irqVars == <<irq, irqLock, context>>
driverVars == <<record, gate, image, code, links, hook, export, binding, held,
                master, registry, job, irq, irqLock, context, retired>>

Idle    == [op |-> "idle", at |-> "idle", name |-> NoName, id |-> NoId,
            loaded |-> NoId, failure |-> "FAILED", again |-> FALSE, busOn |-> FALSE,
            probed |-> <<>>]
NoIrq   == [at |-> "idle", todo |-> {}, owner |-> NoId, admitted |-> <<>>]

DriverInit ==
    /\ record = [s \in Slot |-> [state |-> "EMPTY", gen |-> 0, name |-> NoName,
                                 instance |-> NoId]]
    /\ gate = [s \in Slot |-> [gen |-> 0, accepting |-> FALSE, inFlight |-> 0]]
    /\ image = {} /\ code = {} /\ links = {}
    /\ hook = [h \in Hook |-> NoHook]
    /\ export = [n \in Name |-> NoId]
    /\ binding = [d \in Device |-> NoHook]
    /\ held = {} /\ master = {} /\ registry = {}
    /\ job = Idle
    /\ irq = [c \in Cpu |-> NoIrq] /\ irqLock = "free"
    /\ context = [c \in Cpu |-> NoId]
    /\ retired = {}

-----------------------------------------------------------------------------
(* The records.                                                            *)

Live(r, id) == id # NoId /\ r[id[1]].state # "EMPTY" /\ r[id[1]].gen = id[2]

AcceptsResources(id) ==
    Live(record, id) /\ record[id[1]].state \in {"REGISTERED", "LOADING", "LINKED", "READY"}

Find(n) == {s \in Slot : record[s].state # "EMPTY" /\ record[s].name = n}

IdentityOf(n) ==
    IF Find(n) = {} THEN NoId
    ELSE LET s == CHOOSE s \in Find(n) : TRUE IN <<s, record[s].gen>>

LegalTransition(from, to) ==
    \/ from = to
    \/ from = "REGISTERED" /\ to \in {"LOADING", "LINKED", "READY", "FAILED", "REJECTED"}
    \/ from = "LOADING" /\ to \in {"LINKED", "FAILED", "REJECTED"}
    \/ from = "LINKED" /\ to \in {"READY", "FAILED", "REJECTED", "QUIESCING"}
    \/ from = "READY" /\ to \in {"QUIESCING", "FAILED"}
    \/ from = "QUIESCING" /\ to = "FAILED"

SetState(r, id, state) ==
    IF Live(r, id) /\ LegalTransition(r[id[1]].state, state)
    THEN [r EXCEPT ![id[1]].state = state] ELSE r

ClearRecord(r, ss) ==
    [s \in Slot |-> IF s \in ss THEN [r[s] EXCEPT !.state = "EMPTY", !.name = NoName,
                                                  !.instance = NoId]
                    ELSE r[s]]

CloseGate(g, ss) == [s \in Slot |-> [g[s] EXCEPT !.accepting = @ /\ s \notin ss]]

Activate(r, s, n) ==
    [r EXCEPT ![s] = [state |-> "REGISTERED", gen |-> r[s].gen + 1, name |-> n,
                      instance |-> NoId]]

ReleaseOwner(rows, id) == {row \in rows : row[2] # id}

(* Only a failed or rejected record may be taken over; its registry rows go *)
(* with it, everything else it still owns stays where it is.                *)
BeginLoad(n) ==
    /\ \A s \in Slot : record[s].gen < MaxGeneration
    /\ \A s \in Find(n) : record[s].state \in {"FAILED", "REJECTED"}
    /\ LET room == {s \in Slot : record[s].state = "EMPTY"} \cup Find(n)
       IN  \E s \in room : LET id == <<s, record[s].gen + 1>> IN
           /\ \A u \in room : s <= u
           /\ record' = SetState(Activate(ClearRecord(record, Find(n)), s, n), id, "LOADING")
           /\ gate' = [CloseGate(gate, Find(n)) EXCEPT
                          ![s] = [gen |-> id[2], accepting |-> TRUE, inFlight |-> 0]]
           /\ job' = [Idle EXCEPT !.op = "load", !.at = "link", !.name = n, !.id = id]
    /\ registry' = ReleaseOwner(registry, IdentityOf(n))
    /\ UNCHANGED <<image, code, links, hook, irqVars, retired>> /\ UNCHANGED devices

Load(n) == job.op = "idle" /\ BeginLoad(n)

-----------------------------------------------------------------------------
(* Activity pins.  in_flight is raised before the admission is checked     *)
(* again, so that a drain either sees the pin or makes it fail.            *)

PinAdmitted(id) == gate[id[1]].gen = id[2] /\ gate[id[1]].accepting

PinConfirmed(id) ==
    /\ gate[id[1]].accepting
    /\ Live(record, id)
    /\ record[id[1]].state \in {"LOADING", "LINKED", "READY"}

Pinned(g, id, n) == [g EXCEPT ![id[1]].inFlight = @ + n]

Unpinned(g, id) == IF g[id[1]].gen = id[2] THEN Pinned(g, id, -1) ELSE g

-----------------------------------------------------------------------------
(* The load sequence.                                                      *)

Satisfied(m) ==
    LET id == IdentityOf(m)
    IN  id # NoId /\ record[id[1]].state = "READY" /\ export[m] = id /\ id \in code

(* Sections, dependencies, imports, relocations, protection and exports: any *)
(* of them may fail, and then the image loaded so far is rolled back.        *)
LinkImage ==
    /\ job.at = "link"
    /\ \A m \in Imports[job.name] : Satisfied(m)
    /\ export[job.name] \in {NoId, job.id}
    /\ image' = image \cup {job.id} /\ code' = code \cup {job.id}
    /\ links' = links \cup {<<job.id, IdentityOf(m)>> : m \in Imports[job.name]}
    /\ export' = [export EXCEPT ![job.name] = job.id]
    /\ registry' = registry \cup {<<"image", job.id>>, <<"export", job.id>>}
    /\ record' = [SetState(record, job.id, "LINKED") EXCEPT ![job.id[1]].instance = job.id]
    /\ job' = [job EXCEPT !.at = "enter", !.loaded = job.id]
    /\ UNCHANGED <<gate, hook, binding, held, master, irqVars, retired>>

LinkFails ==
    /\ job.at = "link"
    /\ image' = image \cup {job.id} /\ code' = code \cup {job.id}
    /\ registry' = registry \cup {<<"image", job.id>>}
    /\ \E f \in {"FAILED", "REJECTED"} :
           job' = [job EXCEPT !.at = "abort", !.loaded = job.id, !.failure = f]
    /\ UNCHANGED <<record, gate, links, hook, irqVars, retired>> /\ UNCHANGED devices

NoImageMemory ==
    /\ job.at = "link"
    /\ record' = SetState(record, job.id, "FAILED")
    /\ job' = Idle
    /\ UNCHANGED <<gate, image, code, links, hook, registry, irqVars, retired>>
    /\ UNCHANGED devices

CallEntry ==
    /\ job.at = "enter"
    /\ PinAdmitted(job.id) /\ PinConfirmed(job.id)
    /\ gate' = Pinned(gate, job.id, 1)
    /\ job' = [job EXCEPT !.at = "entry"]
    /\ UNCHANGED <<record, image, code, links, hook, registry, irqVars, retired>>
    /\ UNCHANGED devices

EntryReturns(ok) ==
    /\ job.at = "entry"
    /\ gate' = Unpinned(gate, job.id)
    /\ record' = IF ok THEN SetState(record, job.id, "READY") ELSE record
    /\ job' = [job EXCEPT !.at = IF ok THEN "probe" ELSE "abort"]
    /\ UNCHANGED <<image, code, links, hook, registry, irqVars, retired>>
    /\ UNCHANGED devices

Bound(d) == binding[d].owner # NoId /\ Live(record, binding[d].owner)
Probed   == {job.probed[i] : i \in 1..Len(job.probed)}

CallProbe(d) ==
    /\ job.at = "probe" /\ "PCI" \in Permissions[job.name]
    /\ d \notin Probed /\ ~ Bound(d)
    /\ PinAdmitted(job.id) /\ PinConfirmed(job.id)
    /\ gate' = Pinned(gate, job.id, 1)
    /\ job' = [job EXCEPT !.at = "probing", !.probed = Append(@, d)]
    /\ UNCHANGED <<record, image, code, links, hook, registry, irqVars, retired>>
    /\ UNCHANGED devices

(* driver_manager_bind_pci: the probe may have bound the device itself.  The *)
(* binding table or the registry may be full, and then the load fails.       *)
BindTo(d) ==
    IF Bound(d) THEN UNCHANGED <<binding, registry>>
    ELSE /\ binding' = [binding EXCEPT ![d] = [name |-> job.name, owner |-> job.id]]
         /\ registry' = registry \cup {<<"binding", job.id>>}

ProbeReturns(d, matched, full) ==
    /\ job.at = "probing" /\ d = job.probed[Len(job.probed)]
    /\ gate' = Unpinned(gate, job.id)
    /\ full => matched /\ ~ Bound(d)
    /\ IF matched /\ ~ full THEN BindTo(d) ELSE UNCHANGED <<binding, registry>>
    /\ job' = [job EXCEPT !.at = IF full THEN "abort" ELSE "probe"]
    /\ UNCHANGED <<record, image, code, links, hook, export, held, master, irqVars, retired>>

NothingToProbe ==
    /\ job.at = "probe"
    /\ "PCI" \in Permissions[job.name] => \A d \in Device : d \in Probed \/ Bound(d)
    /\ job' = Idle
    /\ UNCHANGED <<record, gate, image, code, links, hook, registry, irqVars, retired>>
    /\ UNCHANGED devices

(* Admission closes first; code that was linked leaves a FAILED record.     *)
AbortLoad ==
    /\ job.at = "abort"
    /\ gate' = CloseGate(gate, {job.id[1]})
    /\ LET was == record[job.id[1]].state
       IN  record' = SetState(record, job.id,
                       IF was \in {"LINKED", "READY", "QUIESCING"} THEN "FAILED"
                       ELSE job.failure)
    /\ job' = [job EXCEPT !.at = "hooks"]
    /\ UNCHANGED <<image, code, links, hook, registry, irqVars, retired>>
    /\ UNCHANGED devices

-----------------------------------------------------------------------------
(* What entry, probe and exit may call.                                    *)

InDriver == job.at \in {"entry", "probing"}
MayDispatch == irqLock = "free"

(* The hook is reserved, registered as a resource and published; only the   *)
(* shell thread adds and removes hooks, so dispatch sees one step.          *)
RegisterHook ==
    /\ InDriver /\ "INTERRUPT" \in Permissions[job.name]
    /\ AcceptsResources(job.id) /\ MayDispatch
    /\ \A h \in Hook : hook[h].owner # job.id
    /\ \E h \in Hook :
          /\ hook[h] = NoHook /\ \A g \in Hook : hook[g] = NoHook => h <= g
          /\ hook' = [hook EXCEPT ![h] = [name |-> job.name, owner |-> job.id]]
    /\ registry' = registry \cup {<<"hook", job.id>>}
    /\ UNCHANGED <<record, gate, image, code, links, job, irqVars, retired>>
    /\ UNCHANGED devices

UnregisterHook(h) ==
    /\ InDriver \/ job.at = "exit"
    /\ MayDispatch
    /\ hook[h].name = job.name
    /\ hook' = [hook EXCEPT ![h] = NoHook]
    /\ registry' = registry \ {<<"hook", hook[h].owner>>}
    /\ UNCHANGED <<record, gate, image, code, links, job, irqVars, retired>>
    /\ UNCHANGED devices

BindPci(d) ==
    /\ InDriver /\ "PCI" \in Permissions[job.name] /\ AcceptsResources(job.id)
    /\ ~ Bound(d) /\ BindTo(d)
    /\ UNCHANGED <<record, gate, image, code, links, hook, export, held, master, job,
                   irqVars, retired>>

Resolves(id) == Live(record, id) /\ \E d \in Device : binding[d].owner = id

Needs(kind) == IF kind = "mmio" THEN "MMIO" ELSE "DMA"

Acquire(kind) ==
    /\ InDriver /\ AcceptsResources(job.id)
    /\ kind # "alloc" => Resolves(job.id) /\ Needs(kind) \in Permissions[job.name]
    /\ held' = held \cup {<<kind, job.id>>}
    /\ registry' = registry \cup {<<kind, job.id>>}
    /\ UNCHANGED <<record, gate, image, code, links, hook, export, binding, master, job,
                   irqVars, retired>>

EnableBusMastering ==
    /\ InDriver /\ AcceptsResources(job.id)
    /\ Resolves(job.id) /\ <<"dma", job.id>> \in held
    /\ master' = master \cup {job.id}
    /\ UNCHANGED <<record, gate, image, code, links, hook, export, binding, held, registry,
                   job, irqVars, retired>>

-----------------------------------------------------------------------------
(* Unload, and the part of it that a failed load shares.                   *)

HasReadyDependents(n) ==
    \E s \in Slot :
        /\ record[s].state \in {"READY", "LINKED"}
        /\ record[s].name # n /\ record[s].instance # NoId
        /\ n \in Imports[record[s].name]

(* driver_manager_unload up to driver_manager_begin_quiesce.  reload unloads *)
(* a record of that name first and stops if that fails.                      *)
BeginUnload(n, again) ==
    /\ job.op = "idle"
    /\ LET id == IdentityOf(n)
       IN  /\ id # NoId /\ record[id[1]].state \in {"READY", "LINKED", "FAILED", "REJECTED"}
           /\ ~ HasReadyDependents(n)
           /\ gate' = CloseGate(gate, {id[1]})
           /\ record' = SetState(record, id, "QUIESCING")
           /\ job' = [Idle EXCEPT !.op = "unload", !.at = "hooks", !.name = n, !.id = id,
                                  !.loaded = record[id[1]].instance, !.again = again]
    /\ UNCHANGED <<image, code, links, hook, registry, irqVars, retired>>
    /\ UNCHANGED devices

UnregisterModuleHooks ==
    /\ job.at = "hooks" /\ MayDispatch
    /\ hook' = [h \in Hook |-> IF hook[h].name = job.name THEN NoHook ELSE hook[h]]
    /\ registry' = registry \ {<<"hook", hook[h].owner>> : h \in {g \in Hook : hook[g].name = job.name}}
    /\ job' = [job EXCEPT !.at = "bus"]
    /\ UNCHANGED <<record, gate, image, code, links, irqVars, retired>>
    /\ UNCHANGED devices

(* A step of the teardown failed: an unload leaves a FAILED record and stops. *)
Stopped == IF job.op = "unload" THEN SetState(record, job.id, "FAILED") ELSE record

QuiesceDma(ok) ==
    /\ job.at = "bus"
    /\ IF ok THEN /\ job.id \in master => Resolves(job.id)
                  /\ master' = master \ {job.id}
                  /\ job' = [job EXCEPT !.at = "drain"]
                  /\ UNCHANGED record
       ELSE /\ job.id \in master
            /\ record' = Stopped
            /\ job' = IF job.op = "unload" THEN Idle ELSE [job EXCEPT !.at = "drain", !.busOn = TRUE]
            /\ UNCHANGED master
    /\ UNCHANGED <<gate, image, code, links, hook, export, binding, held, registry,
                   irqVars, retired>>

WaitQuiescedNot ==
    /\ job.at = "drain"
    /\ job' = IF job.busOn THEN Idle
              ELSE [job EXCEPT !.at = IF job.op = "unload" THEN "exit" ELSE "exports"]
    /\ UNCHANGED <<record, gate, image, code, links, hook, registry, irqVars, retired>>
    /\ UNCHANGED devices

(* in_flight is zero.  A rollback that could not switch bus mastering off    *)
(* stops all the same.                                                       *)
WaitQuiesced ==
    /\ job.at = "drain"
    /\ gate[job.id[1]].inFlight = 0
    /\ job' = IF job.busOn THEN Idle
              ELSE [job EXCEPT !.at = IF job.op = "unload" THEN "exit" ELSE "exports"]
    /\ UNCHANGED <<record, gate, image, code, links, hook, registry, irqVars, retired>>
    /\ UNCHANGED devices

QuiesceTimeoutIgnored ==
    /\ job.at = "drain"
    /\ job' = [job EXCEPT !.at = "exit"]
    /\ UNCHANGED <<record, gate, image, code, links, hook, registry, irqVars, retired>>
    /\ UNCHANGED devices

(* The spin limit ran out, or the fault injection set it to zero.            *)
QuiesceTimeout ==
    /\ job.at = "drain"
    /\ record' = Stopped
    /\ job' = Idle
    /\ UNCHANGED <<gate, image, code, links, hook, registry, irqVars, retired>>
    /\ UNCHANGED devices

ExitReturns ==
    /\ job.at = "exit"
    /\ job' = [job EXCEPT !.at = "exports"]
    /\ UNCHANGED <<record, gate, image, code, links, hook, registry, irqVars, retired>>
    /\ UNCHANGED devices

RevokeExports ==
    /\ job.at = "exports"
    /\ export' = [export EXCEPT ![job.name] = NoId]
    /\ registry' = registry \ {<<"export", export[job.name]>>}
    /\ job' = [job EXCEPT !.at = "dma"]
    /\ UNCHANGED <<record, gate, image, code, links, hook, binding, held, master,
                   irqVars, retired>>

(* loaded->owner.  A record that a rollback left behind has no instance, and *)
(* one whose image could not be retired has a dangling one: what is read     *)
(* there may still be the identity, or match none.                           *)
OwnersRead == IF job.loaded \in image THEN {job.loaded} ELSE {NoId, job.loaded}

Following(kind) == CASE kind = "dma" -> "mmio" [] kind = "mmio" -> "unbind"
                     [] kind = "alloc" -> "image"

(* Buffers, mappings or allocations of the owner.  Pages that not every     *)
(* processor retired stay quarantined under the owner, and stop an unload.   *)
ReleaseOwned(kind, stuck) ==
    /\ job.at = kind
    /\ \E owner \in OwnersRead :
          LET mine == {<<kind, owner>>} \cap held
          IN  /\ stuck => mine # {}
              /\ held' = IF stuck THEN held ELSE held \ mine
              /\ registry' = IF stuck THEN registry ELSE registry \ mine
              /\ master' = IF kind = "dma" /\ Resolves(owner) THEN master \ {owner} ELSE master
    /\ IF stuck /\ job.op = "unload"
       THEN record' = Stopped /\ job' = Idle
       ELSE /\ job' = [job EXCEPT !.at = Following(kind)]
            /\ UNCHANGED record
    /\ UNCHANGED <<gate, image, code, links, hook, export, binding, irqVars, retired>>

UnbindModuleForgotten ==
    /\ job.at = "unbind"
    /\ binding' = binding /\ registry' = registry
    /\ job' = [job EXCEPT !.at = "alloc"]
    /\ UNCHANGED <<record, gate, image, code, links, hook, export, held, master,
                   irqVars, retired>>

UnbindModule ==
    /\ job.at = "unbind"
    /\ binding' = [d \in Device |-> IF binding[d].name = job.name THEN NoHook ELSE binding[d]]
    /\ registry' = registry \ {<<"binding", binding[d].owner>> :
                                 d \in {e \in Device : binding[e].name = job.name}}
    /\ job' = [job EXCEPT !.at = "alloc"]
    /\ UNCHANGED <<record, gate, image, code, links, hook, export, held, master,
                   irqVars, retired>>

(* The descriptor is deleted in any case, sections that cannot be retired    *)
(* are quarantined.  A rollback has cleared the instance before.             *)
FreeImage(stuck) ==
    /\ job.at = "image"
    /\ stuck => job.loaded \in image
    /\ image' = image \ {job.loaded}
    /\ code' = IF stuck THEN code ELSE code \ {job.loaded}
    /\ links' = {l \in links : l[1] # job.loaded}
    /\ CASE job.op = "load" ->
              /\ record' = [record EXCEPT ![job.id[1]].instance = NoId]
              /\ registry' = IF stuck THEN registry ELSE registry \ {<<"image", job.loaded>>}
              /\ UNCHANGED <<gate, retired>>
         [] job.op = "unload" /\ stuck ->
              /\ record' = Stopped
              /\ UNCHANGED <<gate, registry, retired>>
         [] OTHER ->
              /\ record' = ClearRecord(record, {job.id[1]})
              /\ gate' = CloseGate(gate, {job.id[1]})
              /\ registry' = ReleaseOwner(registry, job.id)
              /\ retired' = retired \cup {job.id}
    /\ job' = IF job.again /\ ~ stuck THEN [job EXCEPT !.at = "reload"] ELSE Idle
    /\ UNCHANGED <<hook, irqVars>> /\ UNCHANGED devices

Reload == job.at = "reload" /\ BeginLoad(job.name)

-----------------------------------------------------------------------------
(* driver_irq_dispatch: under g_irq_lock every hooked driver is entered,    *)
(* then, without the lock, the handlers of those admitted are called.       *)

Dispatch(c) ==
    /\ irq[c].at = "idle" /\ irqLock = "free"
    /\ \E h \in Hook : hook[h] # NoHook
    /\ irqLock' = c
    /\ irq' = [irq EXCEPT ![c].at = "next", ![c].todo = {h \in Hook : hook[h] # NoHook}]
    /\ UNCHANGED <<record, gate, image, code, links, hook, registry, job, context, retired>>
    /\ UNCHANGED devices

DispatchNext(c) ==
    /\ irq[c].at = "next"
    /\ \E h \in irq[c].todo : LET id == hook[h].owner IN
          /\ \A g \in irq[c].todo : h <= g
          /\ irq' = [irq EXCEPT ![c].todo = @ \ {h}, ![c].owner = id,
                       ![c].at = IF Live(record, id) /\ PinAdmitted(id) THEN "pin" ELSE "next"]
    /\ UNCHANGED <<record, gate, image, code, links, hook, registry, job, irqLock, context,
                   retired>>
    /\ UNCHANGED devices

DispatchPin(c) ==
    /\ irq[c].at = "pin"
    /\ gate' = Pinned(gate, irq[c].owner, 1)
    /\ irq' = [irq EXCEPT ![c].at = "confirm"]
    /\ UNCHANGED <<record, image, code, links, hook, registry, job, irqLock, context, retired>>
    /\ UNCHANGED devices

(* An admitted driver becomes the context of the processor at once.          *)
DispatchConfirm(c) ==
    /\ irq[c].at = "confirm"
    /\ LET id == irq[c].owner
       IN  IF PinConfirmed(id)
           THEN /\ irq' = [irq EXCEPT ![c].at = "next",
                             ![c].admitted = Append(@, [owner |-> id, previous |-> context[c]])]
                /\ context' = [context EXCEPT ![c] = id]
                /\ UNCHANGED gate
           ELSE /\ gate' = Pinned(gate, id, -1)
                /\ irq' = [irq EXCEPT ![c].at = "next"]
                /\ UNCHANGED context
    /\ UNCHANGED <<record, image, code, links, hook, registry, job, irqLock, retired>>
    /\ UNCHANGED devices

DispatchUnlock(c) ==
    /\ irq[c].at = "next" /\ irq[c].todo = {}
    /\ irqLock' = "free"
    /\ irq' = [irq EXCEPT ![c] = IF @.admitted = <<>> THEN NoIrq
                                 ELSE [@ EXCEPT !.at = "handler", !.owner = NoId]]
    /\ UNCHANGED <<record, gate, image, code, links, hook, registry, job, context, retired>>
    /\ UNCHANGED devices

(* A handler may take atomic memory; it is charged to the context's owner.   *)
HandlerAllocates(c) ==
    /\ irq[c].at = "handler"
    /\ AcceptsResources(context[c])
    /\ held' = held \cup {<<"alloc", context[c]>>}
    /\ registry' = registry \cup {<<"alloc", context[c]>>}
    /\ UNCHANGED <<record, gate, image, code, links, hook, export, binding, master, job,
                   irqVars, retired>>

HandlerReturns(c) ==
    /\ irq[c].at = "handler"
    /\ LET done == Head(irq[c].admitted) rest == Tail(irq[c].admitted)
       IN  /\ context' = [context EXCEPT ![c] = done.previous]
           /\ gate' = Unpinned(gate, done.owner)
           /\ irq' = [irq EXCEPT ![c] = IF rest = <<>> THEN NoIrq
                                        ELSE [@ EXCEPT !.admitted = rest]]
    /\ UNCHANGED <<record, image, code, links, hook, registry, job, irqLock, retired>>
    /\ UNCHANGED devices

-----------------------------------------------------------------------------
ShellNext ==
    \/ \E n \in Name : Load(n)
    \/ \E n \in Name, again \in BOOLEAN : BeginUnload(n, again)
    \/ LinkImage \/ LinkFails \/ NoImageMemory \/ CallEntry \/ NothingToProbe
    \/ \E ok \in BOOLEAN : EntryReturns(ok)
    \/ \E d \in Device : CallProbe(d) \/ BindPci(d)
    \/ \E d \in Device, matched, full \in BOOLEAN : ProbeReturns(d, matched, full)
    \/ AbortLoad \/ RegisterHook \/ EnableBusMastering
    \/ \E h \in Hook : UnregisterHook(h)
    \/ \E kind \in Owned : Acquire(kind)
    \/ UnregisterModuleHooks \/ WaitQuiesced \/ QuiesceTimeout \/ ExitReturns
    \/ \E ok \in BOOLEAN : QuiesceDma(ok)
    \/ RevokeExports \/ UnbindModule \/ Reload
    \/ \E kind \in Owned, stuck \in BOOLEAN : ReleaseOwned(kind, stuck)
    \/ \E stuck \in BOOLEAN : FreeImage(stuck)

IrqNext(c) ==
    \/ Dispatch(c) \/ DispatchNext(c) \/ DispatchPin(c) \/ DispatchConfirm(c)
    \/ DispatchUnlock(c) \/ HandlerAllocates(c) \/ HandlerReturns(c)

DriverNext == ShellNext \/ \E c \in Cpu : IrqNext(c)

DriverSpec == DriverInit /\ [][DriverNext]_driverVars

-----------------------------------------------------------------------------
Identity == {NoId} \cup (Slot \X (1..MaxGeneration))

DriverTypeOK ==
    /\ \A s \in Slot :
          /\ record[s].gen \in 0..MaxGeneration /\ record[s].instance \in Identity
          /\ gate[s].inFlight \in 0..(Cardinality(Cpu) + 1) /\ gate[s].gen = record[s].gen
    /\ image \subseteq Identity /\ code \subseteq Identity
    /\ irqLock \in Cpu \cup {"free"}

Running(c) == {irq[c].admitted[i].owner : i \in 1..Len(irq[c].admitted)}

(* The code of a driver stays mapped while any processor is admitted to it.  *)
(* Unloading waits for in_flight, and a drain that times out keeps the image *)
(* (docs/reference/driver_abi.md: "a drain timeout quarantines the image     *)
(* instead of freeing code that a CPU may still execute").                   *)
NoFreedCodeRuns == \A c \in Cpu : Running(c) \subseteq code

(* driver_exit runs, and exports, mappings and memory are revoked, only when *)
(* no processor is in the driver ("driver_exit() runs only after             *)
(* quiescence").                                                             *)
TeardownAfterDrain ==
    job.at \in {"exit", "exports", "dma", "mmio", "unbind", "alloc", "image"} =>
        \A c \in Cpu : job.id \notin Running(c)

Pins(id) ==
    Cardinality({c \in Cpu : id \in Running(c)})
      + Cardinality({c \in Cpu : irq[c].at = "confirm" /\ irq[c].owner = id})
      + (IF job.id = id /\ InDriver THEN 1 ELSE 0)

(* in_flight counts exactly the pins of the current generation, so it never  *)
(* wraps below zero and reaches zero when the last one is given back, also   *)
(* when a pin of an earlier generation of the slot outlives its record.      *)
InFlightExact == \A s \in Slot : gate[s].inFlight = Pins(<<s, gate[s].gen>>)

(* After a completed unload nothing of the driver is left: no hook, no       *)
(* export, no device, no bus mastering, and what could not be retired is     *)
(* out of the registry.                                                      *)
RetiredOwnsNothing ==
    \A id \in retired :
        /\ \A h \in Hook : hook[h].owner # id
        /\ \A n \in Name : export[n] # id
        /\ \A d \in Device : binding[d].owner # id
        /\ id \notin master
        /\ \A row \in registry : row[2] # id

(* A driver that is linked or ready never holds addresses into code that is  *)
(* gone: "a module with ready dependents cannot be unloaded".                *)
ImportsStayMapped ==
    \A l \in links :
        Live(record, l[1]) /\ record[l[1][1]].state \in {"LINKED", "READY"} => l[2] \in code

(* The registry of resources agrees with the tables it accounts for.         *)
RegistryAgrees ==
    \A s \in Slot : LET id == <<s, record[s].gen>> IN
        record[s].state # "EMPTY" =>
            /\ <<"hook", id>> \in registry <=> \E h \in Hook : hook[h].owner = id
            /\ <<"binding", id>> \in registry <=> \E d \in Device : binding[d].owner = id
            /\ <<"export", id>> \in registry <=> \E n \in Name : export[n] = id
            /\ \A k \in Owned : <<k, id>> \in registry <=> <<k, id>> \in held

(* Refuted: the context of a processor names the driver whose handler runs.  *)
(* driver_irq_dispatch enters all admitted drivers before it calls the first *)
(* handler ("IRQ callbacks may allocate only from eight fixed 256-byte       *)
(* atomic slots assigned to that driver").                                   *)
HandlerContext ==
    \A c \in Cpu : irq[c].at = "handler" => context[c] = Head(irq[c].admitted).owner

(* Refuted: what a running driver imported stays mapped as well.  A driver    *)
(* whose drain timed out is FAILED, and no longer counts as a dependent.      *)
RunningImportsMapped ==
    \A c \in Cpu, l \in links : l[1] \in Running(c) => l[2] \in code

(* Refuted: an unload reads the descriptor of an image that exists.           *)
DescriptorExists ==
    job.op = "unload" /\ job.at \in {"dma", "mmio", "alloc", "image"} => job.loaded \in image

(* Nothing is taken down under a processor inside the driver, and in_flight  *)
(* counts exactly the processors that are (driver_execution_enter, _leave    *)
(* and driver_manager_wait_quiesced).                                        *)
DrainExact == TeardownAfterDrain /\ InFlightExact

(* The tables agree on who owns what: a retired driver owns nothing, a       *)
(* linked one imports only mapped code, and the resource registry lists      *)
(* exactly the hooks, exports, bindings and mappings that exist.             *)
OwnershipAgrees == DriverTypeOK /\ RetiredOwnsNothing /\ ImportsStayMapped /\ RegistryAgrees
=============================================================================
