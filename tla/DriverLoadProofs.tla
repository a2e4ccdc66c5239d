-------------------------- MODULE DriverLoadProofs --------------------------
(***************************************************************************)
(* The inductive invariant of the driver lifecycle, the operators it is    *)
(* built from, and the steps of a load: from the link of an image to the   *)
(* entry and the probes of its driver, the hooks these install, and the    *)
(* rollback.                                                               *)
(***************************************************************************)
EXTENDS DriverLifecycle, FiniteSetTheorems, TLAPS

-----------------------------------------------------------------------------
(* The inductive invariant.                                                *)

Id      == (0..Records) \X Nat
State   == {"EMPTY", "REGISTERED", "LOADING", "LINKED", "READY", "QUIESCING",
            "FAILED", "REJECTED"}
Loading == {"link", "enter", "entry", "probe", "probing", "abort"}
Drained == {"exit", "exports", "dma", "mmio", "unbind", "alloc", "image"}
Closed  == {"hooks", "bus", "drain"} \cup Drained
Working == Loading \cup Closed

RecordT == [state : State, gen : Nat, name : Name \cup {NoName}, instance : Id]
GateT   == [gen : Nat, accepting : BOOLEAN, inFlight : Int]
HookT   == [name : Name \cup {NoName}, owner : Id]
JobT    == [op : {"idle", "load", "unload"}, at : Working \cup {"idle", "reload"},
            name : Name \cup {NoName}, id : Id, loaded : Id,
            failure : {"FAILED", "REJECTED"}, again : BOOLEAN, busOn : BOOLEAN,
            probed : Seq(Device)]
EntryT  == [owner : Id, previous : Id]
IrqT    == [at : {"idle", "next", "pin", "confirm", "handler"}, todo : SUBSET Hook,
            owner : Id, admitted : Seq(EntryT)]

Types ==
    /\ record \in [Slot -> RecordT] /\ gate \in [Slot -> GateT]
    /\ hook \in [Hook -> HookT] /\ job \in JobT
    /\ irq \in [Cpu -> IrqT] /\ irqLock \in Cpu \cup {"free"}
    /\ context \in [Cpu -> Id]

\* The job works on the current generation of one record, and the state of
\* that record follows from how far the job is.
JobOK ==
    /\ job.op = "idle" <=> job.at = "idle"
    /\ job.at # "idle" => job.name \in Name
    /\ job.at \in Working =>
          /\ job.id[1] \in Slot /\ job.id = <<job.id[1], record[job.id[1]].gen>>
          /\ record[job.id[1]].name = job.name
          /\ job.loaded \in {NoId, job.id}
    /\ job.at = "link" => record[job.id[1]].state = "LOADING"
    /\ job.at \in {"enter", "entry"} => record[job.id[1]].state = "LINKED"
    /\ job.at \in {"probe", "probing"} => record[job.id[1]].state = "READY"
    /\ job.at = "abort" => record[job.id[1]].state \in {"LOADING", "LINKED", "READY"}
    /\ job.at \in Closed => record[job.id[1]].state \in {"QUIESCING", "FAILED", "REJECTED"}
    /\ job.at \in Loading \ {"link"} => job.id \in code

\* Admission is closed while a record is taken down; an open gate of a record
\* that may run leads to mapped code, except while its image is being linked.
GateOK ==
    \A s \in Slot :
      /\ gate[s].gen = record[s].gen
      /\ record[s].instance \in {NoId, <<s, record[s].gen>>}
      /\ job.at \in Closed /\ s = job.id[1] => ~ gate[s].accepting
      /\ gate[s].accepting /\ record[s].state \in {"LOADING", "LINKED", "READY"} =>
            \/ <<s, record[s].gen>> \in code
            \/ job.at = "link" /\ job.id = <<s, record[s].gen>>

\* A hook belongs to a linked or ready record, or to the one whose hooks are
\* removed next.
HookOK ==
    \A h \in Hook : hook[h] # NoHook =>
      /\ hook[h].owner[1] \in Slot
      /\ hook[h].owner = <<hook[h].owner[1], record[hook[h].owner[1]].gen>>
      /\ record[hook[h].owner[1]].name = hook[h].name
      /\ \/ record[hook[h].owner[1]].state \in {"LINKED", "READY"}
         \/ job.id = hook[h].owner /\ job.at = "hooks"

OneHookEach ==
    \A g, h \in Hook : hook[g] # NoHook /\ hook[g].owner = hook[h].owner => g = h

Locked(c) == irq[c].at \in {"next", "pin", "confirm"}

\* Under g_irq_lock the hooks stay, and no driver is entered twice.
IrqOK ==
    \A c \in Cpu :
      /\ Locked(c) <=> irqLock = c
      /\ irq[c].at = "idle" => irq[c].admitted = <<>>
      /\ irq[c].at = "handler" => irq[c].admitted # <<>>
      /\ Locked(c) => \A h \in irq[c].todo : hook[h] # NoHook /\ hook[h].owner \notin Running(c)
      /\ irq[c].at \in {"pin", "confirm"} =>
            /\ irq[c].owner \notin Running(c)
            /\ \E h \in Hook \ irq[c].todo : hook[h] # NoHook /\ hook[h].owner = irq[c].owner

\* A processor is inside a driver once, and in no driver that is yet to come.
InsideOK ==
    \A c \in Cpu :
      /\ \A i, j \in 1..Len(irq[c].admitted) :
            irq[c].admitted[i].owner = irq[c].admitted[j].owner => i = j
      /\ \A id \in Running(c) : id[1] \in Slot /\ id[2] <= record[id[1]].gen

DriverInv ==
    /\ Types /\ JobOK /\ GateOK /\ HookOK /\ OneHookEach /\ IrqOK /\ InsideOK
    /\ NoFreedCodeRuns /\ TeardownAfterDrain /\ InFlightExact

-----------------------------------------------------------------------------
(* The operators of the model.                                             *)

\* q is r with, at most, another state of record s.
OnlyState(q, r, s) ==
    /\ q \in [Slot -> RecordT]
    /\ \A u \in Slot : /\ q[u].gen = r[u].gen
                       /\ q[u].name = r[u].name
                       /\ q[u].instance = r[u].instance
                       /\ u # s => q[u] = r[u]

\* What set_state changes: the state of the named record, to the one asked for
\* or not at all.
LEMMA SetStateIs ==
  ASSUME NEW r \in [Slot -> RecordT], NEW id \in Slot \X Nat, NEW to \in State
  PROVE  /\ OnlyState(SetState(r, id, to), r, id[1])
         /\ SetState(r, id, to)[id[1]].state =
               IF Live(r, id) /\ LegalTransition(r[id[1]].state, to)
               THEN to ELSE r[id[1]].state
  BY DEF SetState, RecordT, OnlyState

LEMMA ClearRecordIs ==
  ASSUME NEW r \in [Slot -> RecordT], NEW ss, NoId \in Id
  PROVE  /\ ClearRecord(r, ss) \in [Slot -> RecordT]
         /\ \A s \in Slot :
               /\ ClearRecord(r, ss)[s].gen = r[s].gen
               /\ s \in ss => /\ ClearRecord(r, ss)[s].state = "EMPTY"
                              /\ ClearRecord(r, ss)[s].instance = NoId
               /\ s \notin ss => ClearRecord(r, ss)[s] = r[s]
  <1>1. ASSUME NEW s \in Slot, s \in ss
        PROVE  /\ ClearRecord(r, ss)[s] \in RecordT
               /\ ClearRecord(r, ss)[s].gen = r[s].gen
               /\ ClearRecord(r, ss)[s].state = "EMPTY"
               /\ ClearRecord(r, ss)[s].instance = NoId
    BY <1>1, Zenon DEF ClearRecord, RecordT, State
  <1>2. ASSUME NEW s \in Slot, s \notin ss
        PROVE  ClearRecord(r, ss)[s] = r[s]
    BY <1>2 DEF ClearRecord
  <1>3. \A s \in Slot : ClearRecord(r, ss)[s] \in RecordT
    BY <1>1, <1>2
  <1>4. ClearRecord(r, ss) \in [Slot -> RecordT]
    BY <1>3, Zenon DEF ClearRecord
  <1> QED
    BY <1>1, <1>2, <1>4

OwnersOf(q) == {q[i].owner : i \in 1..Len(q)}

LEMMA OwnersAppend ==
  ASSUME NEW q \in Seq(EntryT), NEW e \in EntryT
  PROVE  OwnersOf(Append(q, e)) = OwnersOf(q) \cup {e.owner}
  <1>1. Len(Append(q, e)) = Len(q) + 1 /\ Len(q) \in Nat
    OBVIOUS
  <1>2. Append(q, e)[Len(q) + 1] = e
    OBVIOUS
  <1>3. \A i \in 1..Len(q) : Append(q, e)[i] = q[i]
    OBVIOUS
  <1>4. 1..(Len(q) + 1) = (1..Len(q)) \cup {Len(q) + 1}
    BY <1>1
  <1> QED
    BY <1>1, <1>2, <1>3, <1>4 DEF OwnersOf

\* No driver is listed twice.
Once(q) == \A i, j \in 1..Len(q) : q[i].owner = q[j].owner => i = j

LEMMA OnceAppend ==
  ASSUME NEW q \in Seq(EntryT), NEW e \in EntryT, Once(q), e.owner \notin OwnersOf(q)
  PROVE  Once(Append(q, e))
  <1>1. Len(Append(q, e)) = Len(q) + 1 /\ Len(q) \in Nat
    OBVIOUS
  <1>2. Append(q, e)[Len(q) + 1] = e
    OBVIOUS
  <1>3. \A i \in 1..Len(q) : Append(q, e)[i] = q[i]
    OBVIOUS
  <1>4. \A i \in 1..(Len(q) + 1) : i \in 1..Len(q) \/ i = Len(q) + 1
    BY <1>1
  <1> QED
    BY <1>1, <1>2, <1>3, <1>4 DEF OwnersOf, Once

LEMMA OwnersTail ==
  ASSUME NEW q \in Seq(EntryT), q # <<>>, Once(q)
  PROVE  /\ Tail(q) \in Seq(EntryT) /\ Head(q) \in EntryT
         /\ Head(q).owner \in OwnersOf(q)
         /\ OwnersOf(Tail(q)) = OwnersOf(q) \ {Head(q).owner}
         /\ Once(Tail(q))
  <1>1. Len(q) \in Nat /\ Len(q) >= 1 /\ Len(Tail(q)) = Len(q) - 1
    OBVIOUS
  <1>2. Head(q) = q[1] /\ Tail(q) \in Seq(EntryT) /\ Head(q) \in EntryT
    OBVIOUS
  <1>3. \A i \in 1..(Len(q) - 1) : Tail(q)[i] = q[i + 1]
    OBVIOUS
  <1>4. \A i \in 1..(Len(q) - 1) : i + 1 \in 1..Len(q) /\ i + 1 # 1
    BY <1>1
  <1>5. \A i \in 1..Len(q) : i # 1 => i - 1 \in 1..(Len(q) - 1) /\ (i - 1) + 1 = i
    BY <1>1
  <1>6. 1 \in 1..Len(q)
    BY <1>1
  <1>7. OwnersOf(Tail(q)) \subseteq OwnersOf(q) \ {Head(q).owner}
    BY <1>1, <1>2, <1>3, <1>4, <1>6 DEF OwnersOf, Once
  <1>8. OwnersOf(q) \ {Head(q).owner} \subseteq OwnersOf(Tail(q))
    BY <1>1, <1>2, <1>3, <1>5 DEF OwnersOf
  <1>9. Once(Tail(q))
    BY <1>1, <1>3, <1>4 DEF Once
  <1> QED
    BY <1>1, <1>2, <1>6, <1>7, <1>8, <1>9, Zenon DEF OwnersOf

LEMMA NoIrqType == NoIrq \in IrqT /\ NoId \in Id
  <1>1. NoId \in Id
    BY DriverAssumption DEF NoId, Id
  <1>2. <<>> \in Seq(EntryT) /\ {} \in SUBSET Hook
    OBVIOUS
  <1> QED
    BY <1>1, <1>2, Zenon DEF NoIrq, IrqT

LEMMA IdleType == Idle \in JobT
  <1>1. NoId \in Id
    BY DriverAssumption DEF NoId, Id
  <1> QED
    BY <1>1 DEF Idle, JobT

\* Closing gates clears their accepting flags and nothing else.
LEMMA CloseGateIs ==
  ASSUME NEW g \in [Slot -> GateT], NEW ss
  PROVE  /\ CloseGate(g, ss) \in [Slot -> GateT]
         /\ \A s \in Slot : /\ CloseGate(g, ss)[s].gen = g[s].gen
                            /\ CloseGate(g, ss)[s].inFlight = g[s].inFlight
                            /\ s \in ss => ~ CloseGate(g, ss)[s].accepting
                            /\ s \notin ss => CloseGate(g, ss)[s] = g[s]
  <1>1. ASSUME NEW s \in Slot
        PROVE  /\ CloseGate(g, ss)[s] = [gen |-> g[s].gen, inFlight |-> g[s].inFlight,
                                         accepting |-> g[s].accepting /\ s \notin ss]
               /\ g[s] = [gen |-> g[s].gen, inFlight |-> g[s].inFlight,
                          accepting |-> g[s].accepting]
               /\ g[s].gen \in Nat /\ g[s].inFlight \in Int /\ g[s].accepting \in BOOLEAN
    BY DEF CloseGate, GateT
  <1>2. ASSUME NEW s \in Slot, s \notin ss PROVE CloseGate(g, ss)[s] = g[s]
    BY <1>1, <1>2, Zenon
  <1>3. CloseGate(g, ss) \in [Slot -> GateT]
    BY <1>1, ZenonT(30) DEF CloseGate, GateT
  <1>4. ASSUME NEW s \in Slot
        PROVE  /\ CloseGate(g, ss)[s].gen = g[s].gen
               /\ CloseGate(g, ss)[s].inFlight = g[s].inFlight
               /\ s \in ss => ~ CloseGate(g, ss)[s].accepting
    <2>1. CloseGate(g, ss)[s].gen = g[s].gen /\ CloseGate(g, ss)[s].inFlight = g[s].inFlight
      BY DEF CloseGate, GateT
    <2>2. CloseGate(g, ss)[s].accepting = (g[s].accepting /\ s \notin ss)
      BY DEF CloseGate, GateT
    <2> QED
      BY <2>1, <2>2, Zenon
  <1> QED
    BY <1>2, <1>3, <1>4, Zenon

-----------------------------------------------------------------------------
(* Pins.                                                                   *)

Inside(id)     == {c \in Cpu : id \in Running(c)}
Confirming(id) == {c \in Cpu : irq[c].at = "confirm" /\ irq[c].owner = id}
ShellPin(id)   == IF job.id = id /\ InDriver THEN 1 ELSE 0

LEMMA PinsAre ==
  ASSUME NEW id
  PROVE  /\ Pins(id) = Cardinality(Inside(id)) + Cardinality(Confirming(id)) + ShellPin(id)
         /\ IsFiniteSet(Inside(id)) /\ IsFiniteSet(Confirming(id))
         /\ Cardinality(Inside(id)) \in Nat /\ Cardinality(Confirming(id)) \in Nat
         /\ ShellPin(id) \in {0, 1}
  <1>1. Inside(id) \subseteq Cpu /\ Confirming(id) \subseteq Cpu
    BY DEF Inside, Confirming
  <1>2. IsFiniteSet(Inside(id)) /\ IsFiniteSet(Confirming(id))
    BY <1>1, FS_Subset, DriverAssumption
  <1> QED
    BY <1>2, FS_CardinalityType DEF Pins, Inside, Confirming, ShellPin

\* A step that leaves the dispatches alone and neither starts nor ends a call
\* of the shell thread into the driver keeps the pins.
LEMMA SamePins ==
  ASSUME UNCHANGED irq, NEW id, ShellPin(id)' = ShellPin(id)
  PROVE  Pins(id)' = Pins(id)
  <1>1. Inside(id)' = Inside(id) /\ Confirming(id)' = Confirming(id)
    BY DEF Inside, Confirming, Running
  <1> QED
    BY <1>1 DEF Pins, Inside, Confirming, ShellPin

\* Who runs was admitted under the current or an earlier generation.
LEMMA RunningIds ==
  ASSUME DriverInv, NEW c \in Cpu, NEW id \in Running(c)
  PROVE  id \in Id /\ id[1] \in Slot /\ id[2] <= record[id[1]].gen
  <1>1. irq[c].admitted \in Seq(EntryT)
    BY DEF DriverInv, Types, IrqT
  <1>2. PICK i \in 1..Len(irq[c].admitted) : id = irq[c].admitted[i].owner
    BY DEF Running
  <1>3. irq[c].admitted[i] \in EntryT
    BY <1>1, <1>2
  <1> QED
    BY <1>2, <1>3 DEF EntryT, DriverInv, InsideOK

-----------------------------------------------------------------------------
(* Steps of the shell thread.                                              *)

\* A step of the shell thread keeps the invariant when it keeps what is said
\* of the tables, changes hooks only under g_irq_lock, frees no code that runs
\* and passes the drain only with in_flight at zero.
LEMMA ShellStep ==
  ASSUME DriverInv, UNCHANGED <<irq, irqLock, context>>,
         record' \in [Slot -> RecordT], gate' \in [Slot -> GateT],
         hook' \in [Hook -> HookT], job' \in JobT,
         JobOK', GateOK', HookOK', OneHookEach', InFlightExact',
         \A s \in Slot : record[s].gen <= record'[s].gen,
         hook' = hook \/ irqLock = "free",
         \A c \in Cpu : Running(c) \subseteq code',
         job'.at \in Drained =>
            /\ job'.id = job.id
            /\ \/ job.at \in Drained
               \/ job.at \in Closed /\ gate[job.id[1]].inFlight = 0
  PROVE  DriverInv'
  <1>1. \A c \in Cpu : Running(c)' = Running(c)
    BY DEF Running
  <1>2. Types'
    BY DEF DriverInv, Types
  <1>3. IrqOK'
    <2>1. CASE hook' = hook
      BY <2>1, <1>1 DEF DriverInv, IrqOK, Locked
    <2>2. CASE irqLock = "free"
      <3>1. \A c \in Cpu : ~ Locked(c) /\ irq[c].at \notin {"pin", "confirm"}
        BY <2>2, DriverAssumption DEF DriverInv, IrqOK, Locked
      <3>2. \A c \in Cpu : Locked(c)' = Locked(c)
        BY DEF Locked
      <3> QED
        BY <3>1, <3>2 DEF DriverInv, IrqOK
    <2> QED
      BY <2>1, <2>2
  <1>4. ASSUME NEW c \in Cpu, NEW id \in Running(c)
        PROVE  id[1] \in Slot /\ id[2] <= record'[id[1]].gen
    <2>1. id \in Id /\ id[1] \in Slot /\ id[2] <= record[id[1]].gen
      BY RunningIds
    <2>2. id[2] \in Nat /\ record[id[1]].gen \in Nat /\ record'[id[1]].gen \in Nat
      BY <2>1 DEF Id, RecordT, DriverInv, Types
    <2> QED
      BY <2>1, <2>2
  <1>5. InsideOK'
    BY <1>1, <1>4 DEF DriverInv, InsideOK
  <1>6. NoFreedCodeRuns'
    BY <1>1 DEF NoFreedCodeRuns
  <1>7. TeardownAfterDrain'
    <2>1. SUFFICES ASSUME job'.at \in Drained
                   PROVE  \A c \in Cpu : job.id \notin Running(c)
      BY <1>1 DEF TeardownAfterDrain, Drained
    <2>2. CASE job.at \in Drained
      BY <2>2 DEF DriverInv, TeardownAfterDrain, Drained
    <2>3. CASE job.at \in Closed /\ gate[job.id[1]].inFlight = 0
      <3>1. job.id[1] \in Slot /\ job.id = <<job.id[1], gate[job.id[1]].gen>>
        BY <2>3, Zenon DEF DriverInv, JobOK, GateOK, Working
      <3>2. Pins(job.id) = 0
        BY <2>3, <3>1, Zenon DEF DriverInv, InFlightExact
      <3>3. Cardinality(Inside(job.id)) = 0
        BY <3>2, PinsAre
      <3>4. Inside(job.id) = {}
        BY <3>3, PinsAre, FS_EmptySet
      <3> QED
        BY <3>4 DEF Inside
    <2> QED
      BY <2>1, <2>2, <2>3
  <1> QED
    BY <1>2, <1>3, <1>5, <1>6, <1>7 DEF DriverInv

\* Steps that neither enter nor leave a driver keep in_flight exact.
LEMMA PinsKept ==
  ASSUME DriverInv, UNCHANGED irq,
         \A s \in Slot : gate'[s].gen = gate[s].gen /\ gate'[s].inFlight = gate[s].inFlight,
         InDriver' <=> InDriver, InDriver => job'.id = job.id
  PROVE  InFlightExact'
  <1>1. \A id : ShellPin(id)' = ShellPin(id)
    BY DEF ShellPin
  <1>2. \A id : Pins(id)' = Pins(id)
    BY <1>1, SamePins
  <1> QED
    BY <1>2 DEF DriverInv, InFlightExact

\* The facts about the record under work that every step of the job uses.
LEMMA JobFacts ==
  ASSUME DriverInv, job.at \in Working
  PROVE  /\ job.id \in Slot \X Nat /\ job.id[1] \in Slot
         /\ job.id = <<job.id[1], record[job.id[1]].gen>>
         /\ record \in [Slot -> RecordT] /\ gate \in [Slot -> GateT]
         /\ hook \in [Hook -> HookT] /\ job \in JobT
         /\ job.op \in {"load", "unload"} /\ job.name \in Name
         /\ gate[job.id[1]].gen = job.id[2]
         /\ Live(record, job.id) <=> record[job.id[1]].state # "EMPTY"
  <1>1. job.at # "idle" /\ job.at # "reload"
    BY DEF Working, Loading, Closed, Drained
  <1>2. job.id[1] \in Slot /\ job.id = <<job.id[1], record[job.id[1]].gen>>
    BY DEF DriverInv, JobOK
  <1>3. record \in [Slot -> RecordT] /\ gate \in [Slot -> GateT]
        /\ hook \in [Hook -> HookT] /\ job \in JobT
    BY DEF DriverInv, Types
  <1>4. record[job.id[1]].gen \in Nat
    BY <1>2, <1>3 DEF RecordT
  <1>5. job.op # "idle" /\ job.name \in Name
    BY <1>1 DEF DriverInv, JobOK
  <1>6. job.op \in {"load", "unload"}
    BY <1>3, <1>5 DEF JobT
  <1>7. job.id \in Slot \X Nat
    BY <1>2, <1>4
  <1>8. job.id[2] = record[job.id[1]].gen
    BY <1>2
  <1>9. job.id # NoId
    BY <1>2, DriverAssumption DEF Slot, NoId
  <1>10. gate[job.id[1]].gen = job.id[2]
    BY <1>2, <1>8 DEF DriverInv, GateOK
  <1>11. Live(record, job.id) <=> record[job.id[1]].state # "EMPTY"
    BY <1>8, <1>9 DEF Live
  <1> QED
    BY <1>2, <1>3, <1>5, <1>6, <1>7, <1>10, <1>11

\* The state of the record that the job works on, and nothing else, is set.
LEMMA JobSetState ==
  ASSUME DriverInv, job.at \in Working, NEW to \in State
  PROVE  /\ OnlyState(SetState(record, job.id, to), record, job.id[1])
         /\ SetState(record, job.id, to)[job.id[1]].state =
               IF Live(record, job.id) /\ LegalTransition(record[job.id[1]].state, to)
               THEN to ELSE record[job.id[1]].state
  <1>1. job.id \in Slot \X Nat /\ record \in [Slot -> RecordT]
    BY JobFacts
  <1> QED
    BY <1>1, SetStateIs, Zenon

\* The hooks stay where the records of their owners keep generation, name and
\* a state that may be hooked.
LEMMA HooksKept ==
  ASSUME DriverInv, UNCHANGED hook,
         \A h \in Hook : hook[h] # NoHook =>
            /\ record'[hook[h].owner[1]].gen = record[hook[h].owner[1]].gen
            /\ record'[hook[h].owner[1]].name = record[hook[h].owner[1]].name
            /\ \/ record'[hook[h].owner[1]].state \in {"LINKED", "READY"}
               \/ job'.id = hook[h].owner /\ job'.at = "hooks"
  PROVE  HookOK' /\ OneHookEach'
  <1>1. HookOK'
    BY DEF DriverInv, HookOK
  <1>2. OneHookEach'
    BY DEF DriverInv, OneHookEach
  <1> QED
    BY <1>1, <1>2

\* Once its hooks are removed, a record that is taken down has none.
LEMMA NoHookLeft ==
  ASSUME DriverInv, job.at \in Closed \ {"hooks"}, NEW h \in Hook, hook[h] # NoHook
  PROVE  /\ hook[h].owner[1] # job.id[1]
         /\ record[hook[h].owner[1]].state \in {"LINKED", "READY"}
  <1>1. record[hook[h].owner[1]].state \in {"LINKED", "READY"}
    BY DEF DriverInv, HookOK
  <1>2. record[job.id[1]].state \notin {"LINKED", "READY"}
    BY DEF DriverInv, JobOK
  <1> QED
    BY <1>1, <1>2

\* A teardown that moves on or stops, with the record as it is or FAILED.
LEMMA TeardownMoves ==
  ASSUME DriverInv, job.at \in Closed \ {"hooks"},
         UNCHANGED <<gate, code, hook, irq, irqLock, context>>,
         record' \in {record, Stopped},
         job' \in JobT,
         \/ job' = Idle
         \/ /\ record' = record
            /\ job'.at \in Closed \ {"hooks"} /\ job'.op = job.op /\ job'.name = job.name
            /\ job'.id = job.id /\ job'.loaded = job.loaded
            /\ job'.at \in Drained => job.at \in Drained \/ gate[job.id[1]].inFlight = 0
  PROVE  DriverInv'
  <1>1. job.at \in Working /\ ~ InDriver /\ job.at # "link" /\ job.at # "hooks"
    BY DEF Working, Closed, Drained, InDriver
  <1>2. /\ record' \in [Slot -> RecordT]
        /\ \A s \in Slot : /\ record'[s].gen = record[s].gen /\ record'[s].name = record[s].name
                           /\ record'[s].instance = record[s].instance
                           /\ s # job.id[1] => record'[s] = record[s]
        /\ record'[job.id[1]].state \in {"QUIESCING", "FAILED", "REJECTED"}
    <2>1. record[job.id[1]].state \in {"QUIESCING", "FAILED", "REJECTED"}
      BY DEF DriverInv, JobOK
    <2>2. CASE record' = record
      BY <2>1, <2>2, <1>1, JobFacts
    <2>3. CASE record' = SetState(record, job.id, "FAILED")
      <3>1. "FAILED" \in State
        BY DEF State
      <3> QED
        <4>1. /\ OnlyState(SetState(record, job.id, "FAILED"), record, job.id[1])
              /\ SetState(record, job.id, "FAILED")[job.id[1]].state \in
                    {"FAILED", record[job.id[1]].state}
          BY <1>1, <3>1, JobSetState
        <4> QED
          BY <2>1, <2>3, <4>1 DEF OnlyState
    <2> QED
      BY <2>2, <2>3 DEF Stopped
  <1>3. job'.at = "idle" \/ job'.at \in Closed \ {"hooks"}
    BY DEF Idle
  <1>5. JobOK'
    <2>1. CASE job' = Idle
      BY <2>1 DEF JobOK, Idle, Working, Loading, Closed, Drained
    <2>2. CASE job'.at \in Closed \ {"hooks"} /\ record' = record /\ job'.op = job.op
               /\ job'.name = job.name /\ job'.id = job.id /\ job'.loaded = job.loaded
      BY <2>2, <1>1, JobFacts, Zenon DEF DriverInv, JobOK, Working, Loading, Closed, Drained
    <2> QED
      BY <2>1, <2>2
  <1>6. GateOK'
    <2>1. ~ gate[job.id[1]].accepting
      BY <1>1, JobFacts DEF DriverInv, GateOK
    <2>2. job'.at \in Closed => job'.id = job.id
      BY DEF Idle, Closed, Drained
    <2>3. ASSUME NEW s \in Slot
          PROVE  /\ gate'[s].gen = record'[s].gen
                 /\ record'[s].instance \in {NoId, <<s, record'[s].gen>>}
                 /\ job'.at \in Closed /\ s = job'.id[1] => ~ gate'[s].accepting
                 /\ gate'[s].accepting /\ record'[s].state \in {"LOADING", "LINKED", "READY"} =>
                       <<s, record'[s].gen>> \in code
      <3>1. gate[s].gen = record[s].gen /\ record[s].instance \in {NoId, <<s, record[s].gen>>}
        BY Zenon DEF DriverInv, GateOK
      <3>2. job'.at \in Closed /\ s = job'.id[1] => ~ gate'[s].accepting
        BY <2>1, <2>2
      <3>3. gate'[s].accepting => s # job.id[1]
        BY <2>1, Zenon
      <3>4. gate'[s].accepting => record'[s] = record[s]
        BY <1>2, <3>3, Zenon
      <3>5. gate[s].accepting /\ record[s].state \in {"LOADING", "LINKED", "READY"} =>
               <<s, record[s].gen>> \in code
        BY <1>1 DEF DriverInv, GateOK
      <3>6. record'[s].gen = record[s].gen /\ record'[s].instance = record[s].instance
        BY <1>2, Zenon
      <3>7. gate' = gate
        OBVIOUS
      <3>8. gate'[s].accepting /\ record'[s].state \in {"LOADING", "LINKED", "READY"} =>
               <<s, record'[s].gen>> \in code
        BY <3>4, <3>5, <3>6, <3>7
      <3> QED
        BY <3>1, <3>2, <3>6, <3>7, <3>8
    <2> QED
      BY <2>3 DEF GateOK
  <1>7. HookOK' /\ OneHookEach'
    <2>1. \A h \in Hook : hook[h] # NoHook => hook[h].owner[1] \in Slot
      BY DEF DriverInv, HookOK
    <2>2. \A h \in Hook : hook[h] # NoHook =>
             record'[hook[h].owner[1]] = record[hook[h].owner[1]]
      <3>1. \A h \in Hook : hook[h] # NoHook => hook[h].owner[1] # job.id[1]
        BY NoHookLeft
      <3>2. \A s \in Slot : s # job.id[1] => record'[s] = record[s]
        BY <1>2, Zenon
      <3> QED
        BY <2>1, <3>1, <3>2, Zenon
    <2> QED
      BY <2>2, HooksKept, NoHookLeft
  <1>8. InFlightExact'
    <2>1. ~ InDriver'
      BY <1>3 DEF InDriver, Closed, Drained
    <2> QED
      BY <1>1, <2>1, PinsKept
  <1>9. \A s \in Slot : record[s].gen <= record'[s].gen
    <2>1. \A s \in Slot : record'[s].gen = record[s].gen
      BY <1>2, Zenon
    <2>2. \A s \in Slot : record[s].gen \in Nat
      BY DEF DriverInv, Types, RecordT
    <2> QED
      BY <2>1, <2>2
  <1>10. \A c \in Cpu : Running(c) \subseteq code'
    BY DEF DriverInv, NoFreedCodeRuns
  <1>11. job'.at \in Drained => job'.id = job.id
    BY DEF Idle, Drained
  <1>12. gate' \in [Slot -> GateT] /\ hook' \in [Hook -> HookT]
    BY DEF DriverInv, Types
  <1>13. job'.at \in Drained => job.at \in Drained \/ gate[job.id[1]].inFlight = 0
    BY DEF Idle, Drained
  <1> QED
    BY <1>2, <1>5, <1>6, <1>7, <1>8, <1>9, <1>10, <1>11, <1>12, <1>13, ShellStep

LEMMA TeardownSteps ==
  ASSUME DriverInv,
         \/ WaitQuiesced \/ QuiesceTimeout \/ ExitReturns \/ RevokeExports \/ UnbindModule
         \/ \E ok \in BOOLEAN : QuiesceDma(ok)
         \/ \E kind \in Owned, stuck \in BOOLEAN : ReleaseOwned(kind, stuck)
  PROVE  DriverInv'
  <1> USE DEF irqVars, devices
  <1>1. job \in JobT /\ Idle \in JobT
    BY IdleType DEF DriverInv, Types
  <1>2. CASE WaitQuiesced
    <2>1. job.at \in Closed \ {"hooks"} /\ job' \in JobT
      BY <1>1, <1>2 DEF WaitQuiesced, JobT, Working, Closed, Drained
    <2>2. \/ job' = Idle
          \/ /\ job'.at \in Closed \ {"hooks"} /\ job'.op = job.op /\ job'.name = job.name
             /\ job'.id = job.id /\ job'.loaded = job.loaded
      BY <1>1, <1>2 DEF WaitQuiesced, JobT, Closed, Drained
    <2> QED
      BY <1>2, <2>1, <2>2, TeardownMoves DEF WaitQuiesced
  <1>3. CASE QuiesceTimeout
    BY <1>1, <1>3, TeardownMoves DEF QuiesceTimeout, Closed
  <1>4. ASSUME job.at \in Drained, NEW to \in Drained, job' = [job EXCEPT !.at = to],
               UNCHANGED <<record, gate, code, hook, irq, irqLock, context>>
        PROVE  DriverInv'
    <2>1. job.at \in Closed \ {"hooks"} /\ to \in Closed \ {"hooks"} /\ job' \in JobT
      BY <1>1, <1>4, Zenon DEF JobT, Working, Closed, Drained
    <2>2. /\ job'.at = to /\ job'.op = job.op /\ job'.name = job.name
          /\ job'.id = job.id /\ job'.loaded = job.loaded
      BY <1>1, <1>4 DEF JobT
    <2> QED
      BY <1>4, <2>1, <2>2, TeardownMoves
  <1>5. CASE ExitReturns
    BY <1>4, <1>5 DEF ExitReturns, Drained
  <1>6. CASE RevokeExports
    BY <1>4, <1>6 DEF RevokeExports, Drained
  <1>7. CASE UnbindModule
    BY <1>4, <1>7 DEF UnbindModule, Drained
  <1>8. ASSUME NEW ok \in BOOLEAN, QuiesceDma(ok) PROVE DriverInv'
    <2>1. job.at \in Closed \ {"hooks"} /\ job' \in JobT
      <3>1. job.at = "bus" /\ job' \in {Idle, [job EXCEPT !.at = "drain"],
                                          [job EXCEPT !.at = "drain", !.busOn = TRUE]}
        BY <1>8 DEF QuiesceDma
      <3>2. [job EXCEPT !.at = "drain"] \in JobT
        BY <1>1 DEF JobT, Working, Closed
      <3>3. [job EXCEPT !.at = "drain", !.busOn = TRUE] \in JobT
        BY <1>1, Zenon DEF JobT, Working, Closed
      <3> QED
        BY <1>1, <3>1, <3>2, <3>3 DEF Closed
    <2>2. \/ job' = Idle /\ record' = Stopped
          \/ /\ record' = record
             /\ job'.at = "drain" /\ job'.op = job.op /\ job'.name = job.name
             /\ job'.id = job.id /\ job'.loaded = job.loaded
      BY <1>1, <1>8, ZenonT(30) DEF QuiesceDma, JobT, Stopped
    <2> QED
      BY <1>8, <2>1, <2>2, TeardownMoves DEF QuiesceDma, Closed, Drained
  <1>9. ASSUME NEW kind \in Owned, NEW stuck \in BOOLEAN, ReleaseOwned(kind, stuck)
        PROVE  DriverInv'
    <2>1. kind \in Drained /\ job.at = kind /\ Following(kind) \in Drained
      BY <1>9 DEF ReleaseOwned, Owned, Drained, Following
    <2>2. CASE stuck /\ job.op = "unload"
      BY <1>1, <1>9, <2>1, <2>2, TeardownMoves DEF ReleaseOwned, Closed, Drained
    <2>3. CASE ~ (stuck /\ job.op = "unload")
      BY <1>4, <1>9, <2>1, <2>3 DEF ReleaseOwned
    <2> QED
      BY <2>2, <2>3
  <1> QED
    BY <1>2, <1>3, <1>5, <1>6, <1>7, <1>8, <1>9

-----------------------------------------------------------------------------
(* The load sequence.                                                      *)

\* The shell thread enters or leaves the driver it is loading.
LEMMA ShellPins ==
  ASSUME DriverInv, job.at \in Working, UNCHANGED irq, job'.id = job.id,
         NEW n \in Int, gate' = Pinned(gate, job.id, n),
         \/ n = 1 /\ ~ InDriver /\ InDriver'
         \/ n = -1 /\ InDriver /\ ~ InDriver'
  PROVE  InFlightExact'
  <1>1. job.id[1] \in Slot /\ job.id = <<job.id[1], gate[job.id[1]].gen>> /\ gate \in [Slot -> GateT]
    BY JobFacts DEF DriverInv, GateOK
  <1>2. /\ \A s \in Slot : gate'[s].gen = gate[s].gen
        /\ \A s \in Slot : s # job.id[1] => gate'[s].inFlight = gate[s].inFlight
        /\ gate'[job.id[1]].inFlight = gate[job.id[1]].inFlight + n
    BY <1>1 DEF Pinned, GateT
  <1>3. ASSUME NEW id
        PROVE  Pins(id)' = Cardinality(Inside(id)) + Cardinality(Confirming(id)) + ShellPin(id)'
    <2>1. Inside(id)' = Inside(id) /\ Confirming(id)' = Confirming(id)
      BY DEF Inside, Confirming, Running
    <2> QED
      BY <2>1, Zenon DEF Pins, Inside, Confirming, ShellPin
  <1>4. ASSUME NEW s \in Slot, NEW id, id = <<s, gate'[s].gen>>
        PROVE  gate'[s].inFlight = Pins(id)'
    <2>0. id = <<s, gate[s].gen>>
      BY <1>2, <1>4
    <2>1. gate[s].inFlight = Pins(id)
      BY <2>0 DEF DriverInv, InFlightExact
    <2>2. Pins(id)' = Cardinality(Inside(id)) + Cardinality(Confirming(id)) + ShellPin(id)'
      BY <1>3
    <2>3. Pins(id) = Cardinality(Inside(id)) + Cardinality(Confirming(id)) + ShellPin(id)
          /\ Cardinality(Inside(id)) \in Nat /\ Cardinality(Confirming(id)) \in Nat
      BY PinsAre
    <2>4. CASE s = job.id[1]
      <3>1. job.id = id
        BY <1>1, <2>0, <2>4
      <3>2. ShellPin(id)' = ShellPin(id) + n
        BY <3>1 DEF ShellPin
      <3>3. ShellPin(id) \in Int
        BY DEF ShellPin
      <3>4. Pins(id)' = Pins(id) + n
        BY <2>2, <2>3, <3>2, <3>3
      <3> QED
        BY <1>2, <2>1, <2>4, <3>4
    <2>5. CASE s # job.id[1]
      <3>1. job.id # id
        BY <1>1, <2>0, <2>5
      <3>2. ShellPin(id)' = ShellPin(id)
        BY <3>1 DEF ShellPin
      <3> QED
        BY <1>2, <2>1, <2>2, <2>3, <2>5, <3>2
    <2> QED
      BY <2>4, <2>5
  <1> QED
    BY <1>4 DEF InFlightExact

\* How far the job is, and the state of the record it works on.
Fits(at, state) ==
    /\ at \in {"enter", "entry"} => state = "LINKED"
    /\ at \in {"probe", "probing"} => state = "READY"
    /\ at = "abort" => state \in {"LOADING", "LINKED", "READY"}
    /\ at = "hooks" => state \in {"FAILED", "REJECTED"}

\* A step of a load touches its own record and gate only; it leaves the link
\* step with the code mapped or with a record that cannot run.
LEMMA LoadMoves ==
  ASSUME DriverInv, job.at \in Loading, UNCHANGED <<hook, irq, irqLock, context>>,
         code \subseteq code',
         record' \in [Slot -> RecordT], gate' \in [Slot -> GateT], job' \in JobT,
         \A s \in Slot : s # job.id[1] => record'[s] = record[s] /\ gate'[s] = gate[s],
         record'[job.id[1]].gen = record[job.id[1]].gen,
         record'[job.id[1]].name = record[job.id[1]].name,
         record'[job.id[1]].instance \in {NoId, job.id},
         gate'[job.id[1]].gen = gate[job.id[1]].gen,
         record'[job.id[1]].state \in {"LOADING", "LINKED", "READY"} => job.id \in code',
         record[job.id[1]].state \in {"LINKED", "READY"} =>
            record'[job.id[1]].state \in {"LINKED", "READY"} \/ job'.at = "hooks",
         job'.at = "hooks" => ~ gate'[job.id[1]].accepting,
         \/ job' = Idle
         \/ /\ job'.at \in (Loading \ {"link"}) \cup {"hooks"}
            /\ job'.op = job.op /\ job'.name = job.name /\ job'.id = job.id
            /\ job'.loaded \in {NoId, job.id}
            /\ job'.at \in Loading => job.id \in code'
            /\ Fits(job'.at, record'[job.id[1]].state),
         InFlightExact'
  PROVE  DriverInv'
  <1>1. job.at \in Working /\ job.at \notin Closed
    BY DEF Working, Loading, Closed, Drained
  <1>2. job'.at # "link" /\ job'.at \notin Drained /\ (job'.at \in Closed => job'.at = "hooks")
    BY DEF Idle, Loading, Closed, Drained
  <1>3. JobOK'
    <2>1. CASE job' = Idle
      BY <2>1 DEF JobOK, Idle, Working, Loading, Closed, Drained
    <2>2. CASE job' # Idle
      <3>1. /\ job'.at \in (Loading \ {"link"}) \cup {"hooks"}
            /\ job'.op = job.op /\ job'.name = job.name /\ job'.id = job.id
            /\ job'.loaded \in {NoId, job.id}
            /\ job'.at \in Loading => job.id \in code'
            /\ Fits(job'.at, record'[job.id[1]].state)
        BY <2>2, Zenon
      <3>2. job'.at # "idle" /\ job'.at # "reload" /\ job'.at # "link" /\ job'.op # "idle"
        BY <3>1, <1>1, JobFacts, Zenon DEF Loading
      <3>3. job'.id[1] \in Slot /\ job'.id = <<job'.id[1], record'[job'.id[1]].gen>>
            /\ record'[job'.id[1]].name = job'.name
        BY <3>1, <1>1, JobFacts, ZenonT(30) DEF DriverInv, JobOK
      <3>4. job'.at \in Closed => record'[job'.id[1]].state \in {"QUIESCING", "FAILED", "REJECTED"}
        BY <3>1, <1>2, Zenon DEF Fits
      <3> QED
        BY <3>1, <3>2, <3>3, <3>4, <1>1, JobFacts, Zenon DEF JobOK, Fits
    <2> QED
      BY <2>1, <2>2, Zenon
  <1>4. GateOK'
    <2>1. ASSUME NEW s \in Slot
          PROVE  /\ gate'[s].gen = record'[s].gen
                 /\ record'[s].instance \in {NoId, <<s, record'[s].gen>>}
                 /\ job'.at \in Closed /\ s = job'.id[1] => ~ gate'[s].accepting
                 /\ gate'[s].accepting /\ record'[s].state \in {"LOADING", "LINKED", "READY"} =>
                       <<s, record'[s].gen>> \in code'
      <3>0. job'.at \in Closed => job'.id = job.id /\ ~ gate'[job.id[1]].accepting
        BY <1>2 DEF Idle
      <3>1. CASE s = job.id[1]
        <4>1. job.id = <<s, record'[s].gen>>
          BY <3>1, <1>1, JobFacts, Zenon
        <4>2. gate'[s].gen = record'[s].gen
          BY <3>1, Zenon DEF DriverInv, GateOK
        <4> QED
          BY <3>0, <3>1, <4>1, <4>2, Zenon
      <3>2. CASE s # job.id[1]
        <4>1. record'[s] = record[s] /\ gate'[s] = gate[s]
          BY <3>2, Zenon
        <4>2. job.id # <<s, record[s].gen>>
          <5>1. <<s, record[s].gen>>[1] = s
            OBVIOUS
          <5> QED
            BY <3>2, <5>1, Zenon
        <4>3. job'.at \in Closed => s # job'.id[1]
          BY <3>0, <3>2
        <4> QED
          BY <4>1, <4>2, <4>3, Zenon DEF DriverInv, GateOK
      <3> QED
        BY <3>1, <3>2, Zenon
    <2> QED
      BY <2>1, Zenon DEF GateOK
  <1>5. HookOK' /\ OneHookEach'
    <2>1. ASSUME NEW h \in Hook, hook[h] # NoHook
          PROVE  /\ record'[hook[h].owner[1]].gen = record[hook[h].owner[1]].gen
                 /\ record'[hook[h].owner[1]].name = record[hook[h].owner[1]].name
                 /\ \/ record'[hook[h].owner[1]].state \in {"LINKED", "READY"}
                    \/ job'.id = hook[h].owner /\ job'.at = "hooks"
      <3>1. /\ hook[h].owner[1] \in Slot
            /\ hook[h].owner = <<hook[h].owner[1], record[hook[h].owner[1]].gen>>
        BY <2>1, Zenon DEF DriverInv, HookOK
      <3>2. record[hook[h].owner[1]].state \in {"LINKED", "READY"}
        BY <2>1, <1>1, Zenon DEF DriverInv, HookOK, Closed
      <3>3. CASE hook[h].owner[1] # job.id[1]
        BY <3>1, <3>2, <3>3, Zenon
      <3>4. CASE hook[h].owner[1] = job.id[1]
        <4>1. hook[h].owner = job.id
          BY <3>1, <3>4, <1>1, JobFacts, Zenon
        <4>2. job'.at = "hooks" => job'.id = job.id
          BY DEF Idle
        <4> QED
          BY <3>2, <3>4, <4>1, <4>2
      <3> QED
        BY <3>3, <3>4, Zenon
    <2> QED
      BY <2>1, HooksKept, Zenon
  <1>6. \A s \in Slot : record[s].gen <= record'[s].gen
    <2>1. \A s \in Slot : record'[s].gen = record[s].gen
      BY Zenon
    <2>2. \A s \in Slot : record[s].gen \in Nat
      BY DEF DriverInv, Types, RecordT
    <2> QED
      BY <2>1, <2>2
  <1>7. \A c \in Cpu : Running(c) \subseteq code'
    BY DEF DriverInv, NoFreedCodeRuns
  <1>8. hook' \in [Hook -> HookT]
    BY Zenon DEF DriverInv, Types
  <1> QED
    BY <1>2, <1>3, <1>4, <1>5, <1>6, <1>7, <1>8, ShellStep, Zenon

LEMMA LinkSteps ==
  ASSUME DriverInv, LinkImage \/ LinkFails \/ NoImageMemory
  PROVE  DriverInv'
  <1> USE DEF irqVars, devices
  <1> DEFINE s == job.id[1]
  <1>1. job.at = "link" /\ job.at \in Loading /\ job.at \in Working /\ ~ InDriver
    BY DEF LinkImage, LinkFails, NoImageMemory, Loading, Working, InDriver
  <1>2. record[s].state = "LOADING" /\ Live(record, job.id)
    BY <1>1, JobFacts, Zenon DEF DriverInv, JobOK
  <1>3. record[s].instance \in {NoId, job.id}
    BY <1>1, JobFacts, Zenon DEF DriverInv, GateOK
  <1>4. UNCHANGED <<gate, hook, irq, irqLock, context>> /\ gate' \in [Slot -> GateT]
    BY <1>1, JobFacts DEF LinkImage, LinkFails, NoImageMemory
  <1>5. CASE LinkImage
    <2> DEFINE r == SetState(record, job.id, "LINKED")
    <2>1. /\ r \in [Slot -> RecordT] /\ r[s].state = "LINKED"
          /\ \A u \in Slot : r[u].gen = record[u].gen /\ r[u].name = record[u].name
          /\ \A u \in Slot : u # s => r[u] = record[u]
      <3>1. LegalTransition(record[s].state, "LINKED") /\ "LINKED" \in State
        BY <1>2, Zenon DEF LegalTransition, State
      <3> QED
        <4>1. OnlyState(r, record, s) /\ r[s].state = "LINKED"
          BY <1>1, <1>2, <3>1, JobSetState
        <4> QED
          BY <4>1 DEF OnlyState
    <2>2. record' = [r EXCEPT ![s].instance = job.id] /\ code' = code \cup {job.id}
          /\ job' = [job EXCEPT !.at = "enter", !.loaded = job.id]
      BY <1>5 DEF LinkImage
    <2>3. job.id \in Id /\ s \in Slot /\ job \in JobT
      BY <1>1, JobFacts, Zenon DEF JobT
    <2>4. /\ record' \in [Slot -> RecordT] /\ record'[s].state = "LINKED"
          /\ record'[s].instance = job.id
          /\ record'[s].gen = record[s].gen /\ record'[s].name = record[s].name
          /\ \A u \in Slot : u # s => record'[u] = record[u]
      BY <2>1, <2>2, <2>3 DEF RecordT
    <2>5. /\ job' \in JobT /\ job'.at = "enter" /\ job'.loaded = job.id /\ job'.id = job.id
          /\ job'.op = job.op /\ job'.name = job.name
      BY <2>2, <2>3, Zenon DEF JobT, Working, Loading
    <2>6. InFlightExact'
      BY <1>1, <1>4, <2>5, PinsKept DEF InDriver
    <2> QED
      BY <1>1, <1>4, <2>2, <2>4, <2>5, <2>6, LoadMoves DEF Fits, Loading
  <1>6. CASE LinkFails
    <2>1. PICK f \in {"FAILED", "REJECTED"} :
             job' = [job EXCEPT !.at = "abort", !.loaded = job.id, !.failure = f]
      BY <1>6, Zenon DEF LinkFails
    <2>2. record' = record /\ code' = code \cup {job.id}
      BY <1>6 DEF LinkFails
    <2>3. job.id \in Id /\ s \in Slot /\ job \in JobT /\ record \in [Slot -> RecordT]
      BY <1>1, JobFacts, Zenon DEF JobT
    <2>4. /\ job' \in JobT /\ job'.at = "abort" /\ job'.loaded = job.id /\ job'.id = job.id
          /\ job'.op = job.op /\ job'.name = job.name
      BY <2>1, <2>3, Zenon DEF JobT, Working, Loading
    <2>5. InFlightExact'
      BY <1>1, <1>4, <2>4, PinsKept DEF InDriver
    <2> QED
      BY <1>1, <1>2, <1>3, <1>4, <2>2, <2>3, <2>4, <2>5, LoadMoves, Zenon DEF Fits, Loading
  <1>7. CASE NoImageMemory
    <2>1. record' = SetState(record, job.id, "FAILED") /\ code' = code /\ job' = Idle
      BY <1>7 DEF NoImageMemory
    <2>2. /\ record' \in [Slot -> RecordT] /\ record'[s].state = "FAILED"
          /\ \A u \in Slot : /\ record'[u].gen = record[u].gen /\ record'[u].name = record[u].name
                             /\ record'[u].instance = record[u].instance
                             /\ u # s => record'[u] = record[u]
      <3>1. LegalTransition(record[s].state, "FAILED") /\ "FAILED" \in State
        BY <1>2, Zenon DEF LegalTransition, State
      <3> QED
        <4>1. OnlyState(record', record, s) /\ record'[s].state = "FAILED"
          BY <1>1, <1>2, <2>1, <3>1, JobSetState
        <4> QED
          BY <4>1, Zenon DEF OnlyState
    <2>3. job' \in JobT /\ job'.at = "idle"
      BY <2>1, IdleType DEF Idle
    <2>4. InFlightExact'
      BY <1>1, <1>4, <2>3, PinsKept, Zenon DEF InDriver
    <2> QED
      BY <1>1, <1>2, <1>3, <1>4, <2>1, <2>2, <2>3, <2>4, JobFacts, LoadMoves, Zenon
  <1> QED
    BY <1>5, <1>6, <1>7

LEMMA CallSteps ==
  ASSUME DriverInv,
         \/ CallEntry \/ NothingToProbe
         \/ \E ok \in BOOLEAN : EntryReturns(ok)
         \/ \E d \in Device : CallProbe(d)
         \/ \E d \in Device, matched, full \in BOOLEAN : ProbeReturns(d, matched, full)
  PROVE  DriverInv'
  <1> USE DEF irqVars, devices
  <1> DEFINE s == job.id[1]
  <1>1. job.at \in {"enter", "entry", "probe", "probing"}
    BY Zenon DEF CallEntry, NothingToProbe, EntryReturns, CallProbe, ProbeReturns
  <1>2. job.at \in Loading /\ job.at \in Working
    BY <1>1 DEF Loading, Working
  <1>3. UNCHANGED <<code, hook, irq, irqLock, context>>
    BY Zenon DEF CallEntry, NothingToProbe, EntryReturns, CallProbe, ProbeReturns, BindTo
  <1>4. /\ job.id \in code /\ job.loaded \in {NoId, job.id}
        /\ record[s].instance \in {NoId, job.id}
    BY <1>1, <1>2, JobFacts, Zenon DEF DriverInv, JobOK, GateOK, Loading
  <1>5. s \in Slot /\ job \in JobT /\ record \in [Slot -> RecordT] /\ gate \in [Slot -> GateT]
    BY <1>2, JobFacts, Zenon
  <1>6. ASSUME NEW to \in Loading \ {"link"}, job'.at = to, job' \in JobT, job'.op = job.op,
               job'.name = job.name, job'.id = job.id, job'.loaded = job.loaded,
               NEW n \in Int, gate' = Pinned(gate, job.id, n),
               \/ n = 1 /\ ~ InDriver /\ InDriver'
               \/ n = -1 /\ InDriver /\ ~ InDriver',
               record' \in [Slot -> RecordT],
               \A u \in Slot : /\ record'[u].gen = record[u].gen
                               /\ record'[u].name = record[u].name
                               /\ record'[u].instance = record[u].instance
                               /\ u # s => record'[u] = record[u],
               record'[s].state \in {"LINKED", "READY"}, Fits(to, record'[s].state)
        PROVE  DriverInv'
    <2>1. InFlightExact'
      BY <1>2, <1>3, <1>6, ShellPins
    <2>2. /\ gate' \in [Slot -> GateT] /\ gate'[s].gen = gate[s].gen
          /\ \A u \in Slot : u # s => gate'[u] = gate[u]
      BY <1>5, <1>6 DEF Pinned, GateT
    <2>3. job'.at # "hooks"
      BY <1>6, Zenon DEF Loading
    <2> QED
      BY <1>2, <1>3, <1>4, <1>5, <1>6, <2>1, <2>2, <2>3, LoadMoves, Zenon
  <1>7. CASE CallEntry
    <2>1. job.at = "enter" /\ record[s].state = "LINKED" /\ record' = record
          /\ gate' = Pinned(gate, job.id, 1) /\ job' = [job EXCEPT !.at = "entry"]
      BY <1>7 DEF CallEntry, DriverInv, JobOK
    <2>2. /\ job' \in JobT /\ job'.at = "entry" /\ job'.op = job.op /\ job'.name = job.name
          /\ job'.id = job.id /\ job'.loaded = job.loaded
      BY <1>5, <2>1 DEF JobT, Working, Loading
    <2> QED
      BY <1>5, <1>6, <2>1, <2>2 DEF Loading, Fits, InDriver
  <1>8. ASSUME NEW d \in Device, CallProbe(d) PROVE DriverInv'
    <2>1. job.at = "probe" /\ record[s].state = "READY" /\ record' = record
          /\ gate' = Pinned(gate, job.id, 1)
          /\ job' = [job EXCEPT !.at = "probing", !.probed = Append(@, d)]
      BY <1>8, Zenon DEF CallProbe, DriverInv, JobOK
    <2>2. Append(job.probed, d) \in Seq(Device)
      BY <1>5, <1>8 DEF JobT
    <2>3. /\ job' \in JobT /\ job'.at = "probing" /\ job'.op = job.op /\ job'.name = job.name
          /\ job'.id = job.id /\ job'.loaded = job.loaded
      BY <1>5, <2>1, <2>2, Zenon DEF JobT, Working, Loading
    <2> QED
      BY <1>5, <1>6, <2>1, <2>3 DEF Loading, Fits, InDriver
  <1>9. Unpinned(gate, job.id) = Pinned(gate, job.id, -1)
    BY <1>2, JobFacts DEF Unpinned
  <1>10. ASSUME NEW ok \in BOOLEAN, EntryReturns(ok) PROVE DriverInv'
    <2>1. job.at = "entry" /\ record[s].state = "LINKED" /\ gate' = Pinned(gate, job.id, -1)
          /\ record' = (IF ok THEN SetState(record, job.id, "READY") ELSE record)
          /\ job' = [job EXCEPT !.at = IF ok THEN "probe" ELSE "abort"]
      BY <1>9, <1>10 DEF EntryReturns, DriverInv, JobOK
    <2>2. /\ job' \in JobT /\ job'.at = (IF ok THEN "probe" ELSE "abort") /\ job'.op = job.op
          /\ job'.name = job.name /\ job'.id = job.id /\ job'.loaded = job.loaded
      BY <1>5, <2>1 DEF JobT, Working, Loading
    <2>3. /\ record' \in [Slot -> RecordT]
          /\ \A u \in Slot : /\ record'[u].gen = record[u].gen /\ record'[u].name = record[u].name
                             /\ record'[u].instance = record[u].instance
                             /\ u # s => record'[u] = record[u]
          /\ record'[s].state = IF ok THEN "READY" ELSE "LINKED"
      <3>1. CASE ok
        <4>1. LegalTransition(record[s].state, "READY") /\ "READY" \in State
          BY <2>1, Zenon DEF LegalTransition, State
        <4>2. Live(record, job.id)
          BY <1>2, <2>1, JobFacts
        <4>3. record' = SetState(record, job.id, "READY")
          BY <2>1, <3>1
        <4>4. OnlyState(record', record, s) /\ record'[s].state = "READY"
          BY <1>2, <4>1, <4>2, <4>3, JobSetState
        <4> QED
          BY <3>1, <4>4, Zenon DEF OnlyState
      <3>2. CASE ~ ok
        BY <3>2, <1>5, <2>1
      <3> QED
        BY <3>1, <3>2, Zenon
    <2> QED
      BY <1>5, <1>6, <2>1, <2>2, <2>3 DEF Loading, Fits, InDriver
  <1>11. ASSUME NEW d \in Device, NEW matched \in BOOLEAN, NEW full \in BOOLEAN,
                ProbeReturns(d, matched, full)
         PROVE  DriverInv'
    <2>1. job.at = "probing" /\ record[s].state = "READY" /\ gate' = Pinned(gate, job.id, -1)
          /\ record' = record /\ job' = [job EXCEPT !.at = IF full THEN "abort" ELSE "probe"]
      BY <1>9, <1>11 DEF ProbeReturns, DriverInv, JobOK
    <2>2. /\ job' \in JobT /\ job'.at = (IF full THEN "abort" ELSE "probe") /\ job'.op = job.op
          /\ job'.name = job.name /\ job'.id = job.id /\ job'.loaded = job.loaded
      BY <1>5, <2>1 DEF JobT, Working, Loading
    <2> QED
      BY <1>5, <1>6, <2>1, <2>2 DEF Loading, Fits, InDriver
  <1>12. CASE NothingToProbe
    <2>1. job.at = "probe" /\ record' = record /\ gate' = gate /\ job' = Idle
      BY <1>12, Zenon DEF NothingToProbe
    <2>2. job' \in JobT /\ job'.at = "idle"
      BY <2>1, IdleType DEF Idle
    <2>3. InFlightExact'
      BY <1>3, <2>1, <2>2, PinsKept DEF InDriver
    <2> QED
      BY <1>2, <1>3, <1>4, <1>5, <2>1, <2>2, <2>3, LoadMoves, Zenon
  <1> QED
    BY <1>7, <1>8, <1>10, <1>11, <1>12

LEMMA AbortStep ==
  ASSUME DriverInv, AbortLoad
  PROVE  DriverInv'
  <1> USE DEF irqVars, devices
  <1> DEFINE s == job.id[1]
  <1>1. job.at = "abort" /\ job.at \in Loading /\ job.at \in Working /\ ~ InDriver
    BY DEF AbortLoad, Loading, Working, InDriver
  <1>2. /\ s \in Slot /\ job \in JobT /\ record \in [Slot -> RecordT] /\ gate \in [Slot -> GateT]
        /\ record[s].state \in {"LOADING", "LINKED", "READY"} /\ Live(record, job.id)
        /\ record[s].instance \in {NoId, job.id} /\ job.loaded \in {NoId, job.id}
    BY <1>1, JobFacts, Zenon DEF DriverInv, JobOK, GateOK
  <1>3. PICK to \in {"FAILED", "REJECTED"} :
           /\ record' = SetState(record, job.id, to)
           /\ LegalTransition(record[s].state, to)
    <2>1. CASE record[s].state = "LOADING"
      BY <2>1, <1>2 DEF AbortLoad, LegalTransition, JobT
    <2>2. CASE record[s].state \in {"LINKED", "READY"}
      BY <2>2 DEF AbortLoad, LegalTransition
    <2> QED
      BY <2>1, <2>2, <1>2, Zenon
  <1>4. /\ record' \in [Slot -> RecordT] /\ record'[s].state = to
        /\ \A u \in Slot : /\ record'[u].gen = record[u].gen /\ record'[u].name = record[u].name
                           /\ record'[u].instance = record[u].instance
                           /\ u # s => record'[u] = record[u]
    <2>1. to \in State
      BY DEF State
    <2> QED
      <3>1. OnlyState(record', record, s) /\ record'[s].state = to
        BY <1>1, <1>2, <1>3, <2>1, JobSetState
      <3> QED
        BY <3>1, Zenon DEF OnlyState
  <1>5. gate' = [u \in Slot |-> [gate[u] EXCEPT !.accepting = @ /\ u \notin {s}]]
    BY DEF AbortLoad, CloseGate
  <1>6. /\ gate' \in [Slot -> GateT] /\ ~ gate'[s].accepting
        /\ \A u \in Slot : gate'[u].gen = gate[u].gen /\ gate'[u].inFlight = gate[u].inFlight
        /\ \A u \in Slot : u # s => gate'[u] = gate[u]
    BY <1>2, <1>5, CloseGateIs DEF AbortLoad
  <1>7. /\ job' \in JobT /\ job'.at = "hooks" /\ job'.op = job.op
        /\ job'.name = job.name /\ job'.id = job.id /\ job'.loaded = job.loaded
    BY <1>2 DEF AbortLoad, JobT, Working, Closed
  <1>8. InFlightExact'
    BY <1>1, <1>6, <1>7, PinsKept, Zenon DEF InDriver, AbortLoad
  <1>9. UNCHANGED <<code, hook, irq, irqLock, context>>
    BY DEF AbortLoad
  <1> QED
    BY <1>1, <1>2, <1>4, <1>6, <1>7, <1>8, <1>9, LoadMoves, Zenon DEF Fits, Loading

-----------------------------------------------------------------------------
(* Hooks.                                                                  *)

\* Steps that change the hooks and leave the job where it is.
LEMMA HookSteps ==
  ASSUME DriverInv, RegisterHook \/ \E h \in Hook : UnregisterHook(h)
  PROVE  DriverInv'
  <1> USE DEF irqVars, devices
  <1>1. /\ UNCHANGED <<record, gate, code, job, irq, irqLock, context>> /\ irqLock = "free"
        /\ record \in [Slot -> RecordT] /\ gate \in [Slot -> GateT] /\ hook \in [Hook -> HookT]
        /\ job \in JobT
    BY Zenon DEF RegisterHook, UnregisterHook, MayDispatch, DriverInv, Types
  <1>2. JobOK' /\ GateOK'
    BY <1>1, Zenon DEF DriverInv, JobOK, GateOK
  <1>3. InFlightExact'
    BY <1>1, PinsKept DEF InDriver
  <1>4. \A s \in Slot : record[s].gen <= record'[s].gen
    BY <1>1 DEF RecordT
  <1>5. \A c \in Cpu : Running(c) \subseteq code'
    BY <1>1 DEF DriverInv, NoFreedCodeRuns
  <1>6. job'.at \in Drained => job'.id = job.id /\ job.at \in Drained
    BY <1>1
  <1>7. NoHook \in HookT
    BY DriverAssumption DEF NoHook, HookT, NoId, Id
  <1>8. hook' \in [Hook -> HookT] /\ HookOK' /\ OneHookEach'
    <2>1. CASE RegisterHook
      <3>1. PICK h \in Hook :
               /\ hook[h] = NoHook
               /\ hook' = [hook EXCEPT ![h] = [name |-> job.name, owner |-> job.id]]
        BY <2>1, Zenon DEF RegisterHook
      <3>2. \A g \in Hook : hook[g].owner # job.id
        BY <2>1, Zenon DEF RegisterHook
      <3>3. job.at \in Working /\ job.at \in {"entry", "probing"}
        BY <2>1, Zenon DEF RegisterHook, InDriver, Working, Loading
      <3>4. record[job.id[1]].state \in {"LINKED", "READY"} /\ record[job.id[1]].name = job.name
        BY <3>3, Zenon DEF DriverInv, JobOK
      <3>5. [name |-> job.name, owner |-> job.id] \in HookT
        BY <1>1 DEF JobT, HookT
      <3>6. hook' \in [Hook -> HookT]
        BY <1>1, <3>1, <3>5
      <3>7. /\ hook'[h].owner = job.id /\ hook'[h].name = job.name
            /\ \A g \in Hook : g # h => hook'[g] = hook[g]
        BY <1>1, <3>1
      <3>8. HookOK'
        <4>1. ASSUME NEW g \in Hook, hook'[g] # NoHook
              PROVE  /\ hook'[g].owner[1] \in Slot
                     /\ hook'[g].owner = <<hook'[g].owner[1], record[hook'[g].owner[1]].gen>>
                     /\ record[hook'[g].owner[1]].name = hook'[g].name
                     /\ \/ record[hook'[g].owner[1]].state \in {"LINKED", "READY"}
                        \/ job.id = hook'[g].owner /\ job.at = "hooks"
          <5>1. CASE g = h
            BY <5>1, <3>3, <3>4, <3>7, JobFacts, Zenon
          <5>2. CASE g # h
            BY <5>2, <4>1, <3>7, Zenon DEF DriverInv, HookOK
          <5> QED
            BY <5>1, <5>2, Zenon
        <4> QED
          BY <4>1, <1>1, Zenon DEF HookOK
      <3>9. OneHookEach'
        BY <3>2, <3>7, Zenon DEF DriverInv, OneHookEach
      <3> QED
        BY <3>6, <3>8, <3>9
    <2>2. ASSUME NEW h \in Hook, UnregisterHook(h)
          PROVE  hook' \in [Hook -> HookT] /\ HookOK' /\ OneHookEach'
      <3>1. hook' = [hook EXCEPT ![h] = NoHook]
        BY <2>2, Zenon DEF UnregisterHook
      <3>2. /\ hook' \in [Hook -> HookT] /\ hook'[h] = NoHook
            /\ \A g \in Hook : g # h => hook'[g] = hook[g]
        BY <1>1, <1>7, <3>1
      <3>3. HookOK'
        BY <1>1, <3>2, ZenonT(30) DEF DriverInv, HookOK
      <3>4. OneHookEach'
        <4>1. ASSUME NEW g \in Hook, hook[g] # NoHook PROVE hook[g].owner # NoId
          BY <4>1, DriverAssumption DEF DriverInv, HookOK, Slot, NoId
        <4> QED
          BY <3>2, <4>1 DEF DriverInv, OneHookEach, NoHook
      <3> QED
        BY <3>2, <3>3, <3>4
    <2> QED
      BY <2>1, <2>2
  <1> QED
    BY <1>1, <1>2, <1>3, <1>4, <1>5, <1>6, <1>8, ShellStep, Zenon

\* The identity found for a name is the current one of a record of that name.
LEMMA IdentityIs ==
  ASSUME NEW n, IdentityOf(n) # NoId
  PROVE  \E s \in Find(n) : IdentityOf(n) = <<s, record[s].gen>>
  <1>1. Find(n) # {}
    BY DEF IdentityOf
  <1>2. (CHOOSE s \in Find(n) : TRUE) \in Find(n)
    BY <1>1
  <1> QED
    BY <1>1, <1>2, Zenon DEF IdentityOf

LEMMA BeginUnloadStep ==
  ASSUME DriverInv, NEW n \in Name, NEW again \in BOOLEAN, BeginUnload(n, again)
  PROVE  DriverInv'
  <1> USE DEF irqVars, devices
  <1>1. PICK s \in Find(n) : IdentityOf(n) = <<s, record[s].gen>>
    BY IdentityIs DEF BeginUnload
  <1> DEFINE id == <<s, record[s].gen>>
  <1>2. /\ record \in [Slot -> RecordT] /\ gate \in [Slot -> GateT] /\ hook \in [Hook -> HookT]
        /\ s \in Slot /\ record[s].name = n /\ record[s].gen \in Nat
        /\ record[s].instance \in Id
    BY <1>1 DEF DriverInv, Types, Find, RecordT
  <1>3. /\ job.at = "idle" /\ job.op = "idle"
    BY DEF BeginUnload, DriverInv, JobOK
  <1>4. /\ record[s].state \in {"READY", "LINKED", "FAILED", "REJECTED"}
        /\ gate' = CloseGate(gate, {s})
        /\ record' = SetState(record, id, "QUIESCING")
        /\ job' = [Idle EXCEPT !.op = "unload", !.at = "hooks", !.name = n, !.id = id,
                               !.loaded = record[s].instance, !.again = again]
    BY <1>1 DEF BeginUnload
  <1>5. id \in Slot \X Nat /\ id \in Id /\ id[1] = s
    BY <1>2 DEF Id, Slot
  <1>6. /\ job' \in JobT /\ job'.op = "unload" /\ job'.at = "hooks" /\ job'.name = n
        /\ job'.id = id /\ job'.loaded = record[s].instance
    BY <1>2, <1>4, <1>5, IdleType, Zenon DEF JobT, Idle, Working, Closed
  <1>7. /\ record' \in [Slot -> RecordT]
        /\ \A u \in Slot : /\ record'[u].gen = record[u].gen /\ record'[u].name = record[u].name
                           /\ record'[u].instance = record[u].instance
                           /\ u # s => record'[u] = record[u]
        /\ record'[s].state \in {"QUIESCING", "FAILED", "REJECTED"}
    <2>1. id # NoId
      BY <1>2, DriverAssumption DEF Slot, NoId
    <2>2. Live(record, id)
      BY <1>4, <2>1 DEF Live
    <2> QED
      <3>1. /\ "QUIESCING" \in State
            /\ record[s].state \in {"READY", "LINKED"} =>
                  LegalTransition(record[s].state, "QUIESCING")
        BY Zenon DEF State, LegalTransition
      <3>2. record'[s].state = IF Live(record, id) /\ LegalTransition(record[s].state, "QUIESCING")
                               THEN "QUIESCING" ELSE record[s].state
        BY <1>2, <1>4, <1>5, <3>1, SetStateIs
      <3>3. record'[s].state \in {"QUIESCING", "FAILED", "REJECTED"}
        BY <1>4, <2>2, <3>1, <3>2
      <3> QED
        <4>1. OnlyState(record', record, s)
          BY <1>2, <1>4, <1>5, <3>1, SetStateIs
        <4> QED
          BY <4>1, <3>3, Zenon DEF OnlyState
  <1>8. /\ gate' \in [Slot -> GateT] /\ ~ gate'[s].accepting
        /\ \A u \in Slot : gate'[u].gen = gate[u].gen /\ gate'[u].inFlight = gate[u].inFlight
        /\ \A u \in Slot : u # s => gate'[u] = gate[u]
    BY <1>2, <1>4, CloseGateIs
  <1>9. UNCHANGED <<code, hook, irq, irqLock, context>>
    BY DEF BeginUnload
  <1>10. \A u \in Slot : gate[u].gen = record[u].gen /\ record[u].instance \in {NoId, <<u, record[u].gen>>}
    BY Zenon DEF DriverInv, GateOK
  <1>11. JobOK'
    <2>1. /\ job'.at \in Closed /\ job'.at \notin {"idle", "link", "enter", "entry", "probe",
                                                 "probing", "abort"}
          /\ job'.at \notin Loading
      BY <1>6 DEF Loading, Closed
    <2>2. job'.id[1] = s /\ job'.id = <<s, record'[s].gen>> /\ record'[s].name = job'.name
      BY <1>2, <1>5, <1>6, <1>7
    <2>3. job'.loaded \in {NoId, job'.id}
      BY <1>2, <1>6, <1>10
    <2> QED
      BY <1>2, <1>6, <1>7, <2>1, <2>2, <2>3, Zenon DEF JobOK
  <1>12. GateOK'
    <2>1. ASSUME NEW u \in Slot
          PROVE  /\ gate'[u].gen = record'[u].gen
                 /\ record'[u].instance \in {NoId, <<u, record'[u].gen>>}
                 /\ job'.at \in Closed /\ u = job'.id[1] => ~ gate'[u].accepting
                 /\ gate'[u].accepting /\ record'[u].state \in {"LOADING", "LINKED", "READY"} =>
                       <<u, record'[u].gen>> \in code'
      <3>1. CASE u = s
        BY <3>1, <1>7, <1>8, <1>10
      <3>2. CASE u # s
        BY <3>2, <1>3, <1>5, <1>6, <1>7, <1>8, <1>9 DEF DriverInv, GateOK
      <3> QED
        BY <3>1, <3>2
    <2> QED
      BY <2>1, Zenon DEF GateOK
  <1>13. HookOK' /\ OneHookEach'
    <2>1. ASSUME NEW h \in Hook, hook[h] # NoHook
          PROVE  /\ hook[h].owner[1] \in Slot
                 /\ hook[h].owner = <<hook[h].owner[1], record[hook[h].owner[1]].gen>>
                 /\ record[hook[h].owner[1]].state \in {"LINKED", "READY"}
      BY <2>1, <1>3 DEF DriverInv, HookOK
    <2>2. ASSUME NEW h \in Hook, hook[h] # NoHook
          PROVE  /\ record'[hook[h].owner[1]].gen = record[hook[h].owner[1]].gen
                 /\ record'[hook[h].owner[1]].name = record[hook[h].owner[1]].name
                 /\ \/ record'[hook[h].owner[1]].state \in {"LINKED", "READY"}
                    \/ job'.id = hook[h].owner /\ job'.at = "hooks"
      <3>1. CASE hook[h].owner[1] = s
        <4>1. hook[h].owner = id
          BY <2>1, <2>2, <3>1
        <4> QED
          BY <1>2, <1>6, <1>7, <3>1, <4>1
      <3>2. CASE hook[h].owner[1] # s
        BY <3>2, <1>7, <2>1, <2>2
      <3> QED
        BY <3>1, <3>2
    <2> QED
      BY <1>9, <2>2, HooksKept
  <1>14. InFlightExact'
    BY <1>3, <1>6, <1>8, <1>9, PinsKept DEF InDriver
  <1>15. \A u \in Slot : record[u].gen <= record'[u].gen
    BY <1>2, <1>7 DEF RecordT
  <1>16. \A c \in Cpu : Running(c) \subseteq code'
    BY <1>9 DEF DriverInv, NoFreedCodeRuns
  <1>17. job'.at \notin Drained /\ hook' \in [Hook -> HookT]
    BY <1>2, <1>6, <1>9 DEF Drained
  <1> QED
    BY <1>6, <1>7, <1>8, <1>9, <1>11, <1>12, <1>13, <1>14, <1>15, <1>16, <1>17, ShellStep

LEMMA UnhookStep ==
  ASSUME DriverInv, UnregisterModuleHooks
  PROVE  DriverInv'
  <1> USE DEF irqVars, devices
  <1>1. job.at = "hooks" /\ job.at \in Closed /\ job.at \in Working /\ ~ InDriver
    BY DEF UnregisterModuleHooks, Closed, Working, InDriver
  <1>2. /\ UNCHANGED <<record, gate, code, irq, irqLock, context>> /\ irqLock = "free"
        /\ record \in [Slot -> RecordT] /\ gate \in [Slot -> GateT] /\ hook \in [Hook -> HookT]
        /\ job \in JobT
    BY DEF UnregisterModuleHooks, MayDispatch, DriverInv, Types
  <1>3. /\ job' \in JobT /\ job'.at = "bus" /\ job'.op = job.op /\ job'.name = job.name
        /\ job'.id = job.id /\ job'.loaded = job.loaded
    BY <1>2 DEF UnregisterModuleHooks, JobT, Working, Closed
  <1>4. JobOK'
    BY <1>1, <1>2, <1>3, JobFacts, Zenon DEF DriverInv, JobOK, Working, Loading, Closed, Drained
  <1>5. GateOK'
    <2>1. job'.at \in Closed /\ job'.at # "link" /\ job.at # "link"
      BY <1>1, <1>3 DEF Closed
    <2> QED
      BY <1>1, <1>2, <1>3, <2>1, Zenon DEF DriverInv, GateOK
  <1>6. NoHook \in HookT
    BY DriverAssumption DEF NoHook, HookT, NoId, Id
  <1>7. hook' = [h \in Hook |-> IF hook[h].name = job.name THEN NoHook ELSE hook[h]]
    BY DEF UnregisterModuleHooks
  <1>8. hook' \in [Hook -> HookT]
    BY <1>2, <1>6, <1>7, Zenon
  <1>9. ASSUME NEW h \in Hook, hook'[h] # NoHook
        PROVE  hook'[h] = hook[h] /\ hook[h] # NoHook /\ hook[h].name # job.name
    BY <1>7, <1>9
  <1>10. HookOK'
    <2>1. ASSUME NEW h \in Hook, hook'[h] # NoHook
          PROVE  /\ hook[h].owner[1] \in Slot
                 /\ hook[h].owner = <<hook[h].owner[1], record[hook[h].owner[1]].gen>>
                 /\ record[hook[h].owner[1]].name = hook[h].name
                 /\ record[hook[h].owner[1]].state \in {"LINKED", "READY"}
      <3>1. record[job.id[1]].name = job.name
        BY <1>1 DEF DriverInv, JobOK
      <3>2. record[hook[h].owner[1]].name = hook[h].name
        BY <1>9, <2>1 DEF DriverInv, HookOK
      <3>3. hook[h].owner # job.id
        BY <1>9, <2>1, <3>1, <3>2
      <3> QED
        BY <1>9, <2>1, <3>2, <3>3 DEF DriverInv, HookOK
    <2> QED
      BY <1>2, <1>9, <2>1 DEF HookOK
  <1>11. OneHookEach'
    <2>1. ASSUME NEW g \in Hook, hook[g] # NoHook PROVE hook[g].owner # NoId
      BY <2>1, DriverAssumption DEF DriverInv, HookOK, Slot, NoId
    <2>2. \A h \in Hook : hook'[h] = NoHook \/ hook'[h] = hook[h]
      BY <1>7
    <2> QED
      BY <1>9, <2>1, <2>2 DEF DriverInv, OneHookEach, NoHook
  <1>12. InFlightExact'
    BY <1>1, <1>2, <1>3, PinsKept DEF InDriver
  <1>13. \A s \in Slot : record[s].gen <= record'[s].gen
    BY <1>2 DEF RecordT
  <1>14. \A c \in Cpu : Running(c) \subseteq code'
    BY <1>2 DEF DriverInv, NoFreedCodeRuns
  <1>15. job'.at \notin Drained
    BY <1>3 DEF Drained
  <1> QED
    BY <1>2, <1>3, <1>4, <1>5, <1>8, <1>10, <1>11, <1>12, <1>13, <1>14, <1>15, ShellStep
=============================================================================
