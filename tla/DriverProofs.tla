---------------------------- MODULE DriverProofs ----------------------------
(***************************************************************************)
(* The unload protocol of drivers, for any number of records, hooks and    *)
(* processors: no code is freed under a processor that is inside it,       *)
(* nothing of a driver is taken down before the drain, and in_flight       *)
(* counts exactly the pins.                                                *)
(***************************************************************************)
EXTENDS DriverLoadProofs

-----------------------------------------------------------------------------
(* Unload, and the beginning of a load.                                    *)

\* The image goes when no processor is inside it: the drain has seen to that,
\* and admission has been closed since.
LEMMA FreeImageStep ==
  ASSUME DriverInv, NEW stuck \in BOOLEAN, FreeImage(stuck)
  PROVE  DriverInv'
  <1> USE DEF irqVars, devices
  <1> DEFINE s == job.id[1]
  <1>1. job.at = "image" /\ job.at \in Closed \ {"hooks"} /\ job.at \in Working /\ ~ InDriver
        /\ job.at \in Drained /\ job.at # "link"
    BY DEF FreeImage, Closed, Drained, Working, InDriver
  <1>2. /\ s \in Slot /\ job \in JobT /\ record \in [Slot -> RecordT] /\ gate \in [Slot -> GateT]
        /\ record[s].state \in {"QUIESCING", "FAILED", "REJECTED"} /\ job.loaded \in {NoId, job.id}
        /\ hook \in [Hook -> HookT] /\ NoId \in Id
    <2>1. /\ s \in Slot /\ job \in JobT /\ record \in [Slot -> RecordT] /\ gate \in [Slot -> GateT]
          /\ hook \in [Hook -> HookT]
      BY <1>1, JobFacts, Zenon
    <2>2. record[s].state \in {"QUIESCING", "FAILED", "REJECTED"} /\ job.loaded \in {NoId, job.id}
      BY <1>1 DEF DriverInv, JobOK
    <2>3. NoId \in Id
      BY DriverAssumption DEF NoId, Id
    <2> QED
      BY <2>1, <2>2, <2>3, Zenon
  <1>3. UNCHANGED <<hook, irq, irqLock, context>>
    BY DEF FreeImage
  <1>4. /\ record' \in [Slot -> RecordT]
        /\ \A u \in Slot : /\ record'[u].gen = record[u].gen
                           /\ record'[u].instance \in {NoId, record[u].instance}
                           /\ u # s => record'[u] = record[u]
        /\ record'[s].state \notin {"LOADING", "LINKED", "READY"}
    <2>1. CASE record' = [record EXCEPT ![s].instance = NoId]
      BY <2>1, <1>2 DEF RecordT
    <2>2. CASE record' = SetState(record, job.id, "FAILED")
      <3>1. "FAILED" \in State
        BY DEF State
      <3>2. /\ record' \in [Slot -> RecordT]
            /\ \A u \in Slot : /\ record'[u].gen = record[u].gen
                               /\ record'[u].instance = record[u].instance
                               /\ u # s => record'[u] = record[u]
            /\ record'[s].state \in {record[s].state, "FAILED"}
        <4>1. OnlyState(record', record, s) /\ record'[s].state \in {record[s].state, "FAILED"}
          BY <1>1, <2>2, <3>1, JobSetState
        <4> QED
          BY <4>1, Zenon DEF OnlyState
      <3>3. record'[s].state \notin {"LOADING", "LINKED", "READY"}
        BY <1>2, <3>2
      <3> QED
        BY <3>2, <3>3, Zenon
    <2>3. CASE record' = record
      BY <2>3, <1>2
    <2>4. CASE record' = ClearRecord(record, {s})
      BY <2>4, <1>2, ClearRecordIs
    <2> QED
      BY <2>1, <2>2, <2>3, <2>4, <1>1, JobFacts DEF FreeImage, Stopped
  <1>5. /\ gate' \in [Slot -> GateT] /\ ~ gate'[s].accepting
        /\ \A u \in Slot : gate'[u].gen = gate[u].gen /\ gate'[u].inFlight = gate[u].inFlight
        /\ \A u \in Slot : u # s => gate'[u] = gate[u]
    <2>1. ~ gate[s].accepting
      BY <1>1, <1>2, Zenon DEF DriverInv, GateOK
    <2>2. gate' = gate \/ gate' = CloseGate(gate, {s})
      BY <1>1, JobFacts DEF FreeImage
    <2> QED
      BY <1>2, <2>1, <2>2, CloseGateIs
  <1>6. job' \in JobT /\ \/ job' = Idle
                         \/ job'.at = "reload" /\ job'.op = job.op /\ job'.name = job.name
    BY <1>2, IdleType, Zenon DEF FreeImage, JobT
  <1>7. job'.at \in {"idle", "reload"}
    BY <1>6 DEF Idle
  <1>8. JobOK'
    BY <1>1, <1>6, JobFacts DEF JobOK, Idle, Working, Loading, Closed, Drained
  <1>9. code \ {job.loaded} \subseteq code'
    BY DEF FreeImage
  <1>10. GateOK'
    <2>1. ASSUME NEW u \in Slot
          PROVE  /\ gate'[u].gen = record'[u].gen
                 /\ record'[u].instance \in {NoId, <<u, record'[u].gen>>}
                 /\ gate'[u].accepting /\ record'[u].state \in {"LOADING", "LINKED", "READY"} =>
                       <<u, record'[u].gen>> \in code'
      <3>1. gate[u].gen = record[u].gen /\ record[u].instance \in {NoId, <<u, record[u].gen>>}
        BY Zenon DEF DriverInv, GateOK
      <3>2. CASE u = s
        BY <3>1, <3>2, <1>4, <1>5
      <3>3. CASE u # s
        <4>1. record'[u] = record[u] /\ gate'[u] = gate[u]
          BY <3>3, <1>4, <1>5
        <4>2. <<u, record[u].gen>> # job.loaded
          <5>1. <<u, record[u].gen>> # job.id
            BY <3>3
          <5>2. <<u, record[u].gen>> # NoId
            BY DriverAssumption DEF NoId, Slot
          <5> QED
            BY <5>1, <5>2, <1>2
        <4> QED
          BY <4>1, <4>2, <1>1, <1>9 DEF DriverInv, GateOK
      <3> QED
        BY <3>2, <3>3
    <2> QED
      BY <1>7, <2>1 DEF GateOK, Closed, Drained
  <1>11. HookOK' /\ OneHookEach'
    <2>1. \A h \in Hook : hook[h] # NoHook => hook[h].owner[1] \in Slot
      BY DEF DriverInv, HookOK
    <2>2. \A h \in Hook : hook[h] # NoHook =>
             record'[hook[h].owner[1]] = record[hook[h].owner[1]]
      BY <1>1, <1>4, <2>1, NoHookLeft
    <2> QED
      BY <1>1, <1>3, <2>2, HooksKept, NoHookLeft
  <1>12. InFlightExact'
    BY <1>1, <1>3, <1>5, <1>7, PinsKept DEF InDriver
  <1>13. \A u \in Slot : record[u].gen <= record'[u].gen
    BY <1>2, <1>4 DEF RecordT
  <1>14. ASSUME NEW c \in Cpu, NEW id \in Running(c) PROVE id \in code'
    <2>1. id \in code
      BY DEF DriverInv, NoFreedCodeRuns
    <2>2. id # job.id
      BY <1>1 DEF DriverInv, TeardownAfterDrain
    <2>3. id # NoId
      BY RunningIds, DriverAssumption DEF NoId, Slot
    <2> QED
      BY <1>2, <1>9, <2>1, <2>2, <2>3
  <1>15. job'.at \notin Drained /\ hook' \in [Hook -> HookT]
    BY <1>2, <1>3, <1>7 DEF Drained
  <1> QED
    BY <1>3, <1>4, <1>5, <1>6, <1>8, <1>10, <1>11, <1>12, <1>13, <1>14, <1>15, ShellStep

\* A new generation: no pin and no hook of the slot is of that generation, and
\* a slot that is taken over has no hooks.
LEMMA BeginLoadStep ==
  ASSUME DriverInv, job.at \in {"idle", "reload"}, NEW n \in Name, BeginLoad(n)
  PROVE  DriverInv'
  <1> USE DEF irqVars, devices
  <1> DEFINE room == {u \in Slot : record[u].state = "EMPTY"} \cup Find(n)
  <1>1. PICK s \in room :
          /\ record' = SetState(Activate(ClearRecord(record, Find(n)), s, n),
                                <<s, record[s].gen + 1>>, "LOADING")
          /\ gate' = [CloseGate(gate, Find(n)) EXCEPT
                         ![s] = [gen |-> record[s].gen + 1, accepting |-> TRUE, inFlight |-> 0]]
          /\ job' = [Idle EXCEPT !.op = "load", !.at = "link", !.name = n,
                                 !.id = <<s, record[s].gen + 1>>]
    BY Zenon DEF BeginLoad
  <1> DEFINE id == <<s, record[s].gen + 1>>
             cleared == ClearRecord(record, Find(n))
             active == Activate(cleared, s, n)
  <1>2. /\ record \in [Slot -> RecordT] /\ gate \in [Slot -> GateT] /\ hook \in [Hook -> HookT]
        /\ s \in Slot /\ record[s].gen \in Nat /\ id \in Slot \X Nat /\ id \in Id /\ id[1] = s
        /\ NoId \in Id /\ id[2] = record[s].gen + 1
    <2>1. record \in [Slot -> RecordT] /\ gate \in [Slot -> GateT] /\ hook \in [Hook -> HookT]
      BY DEF DriverInv, Types
    <2>2. s \in Slot /\ NoId \in Id /\ Slot \subseteq 0..Records
      BY DriverAssumption DEF Find, Id, NoId, Slot
    <2>3. record[s].gen \in Nat
      BY <2>1, <2>2 DEF RecordT
    <2>4. record[s].gen + 1 \in Nat
      BY <2>3
    <2> QED
      BY <2>1, <2>2, <2>3, <2>4 DEF Id
  <1>3. /\ UNCHANGED <<code, hook, irq, irqLock, context>>
        /\ \A u \in Find(n) : u \in Slot /\ record[u].state \in {"FAILED", "REJECTED"}
    BY DEF BeginLoad, Find
  <1>4. record[s].state \in {"EMPTY", "FAILED", "REJECTED"}
    BY <1>3
  <1>5. /\ cleared \in [Slot -> RecordT]
        /\ \A u \in Slot : cleared[u].gen = record[u].gen
        /\ \A u \in Slot : u \notin Find(n) => cleared[u] = record[u]
        /\ \A u \in Find(n) : cleared[u].state = "EMPTY" /\ cleared[u].instance = NoId
    BY <1>2, <1>3, ZenonT(30) DEF ClearRecord, RecordT, State
  <1>6. /\ active \in [Slot -> RecordT]
        /\ \A u \in Slot : u # s => active[u] = cleared[u]
        /\ active[s] = [state |-> "REGISTERED", gen |-> record[s].gen + 1, name |-> n,
                        instance |-> NoId]
    BY <1>2, <1>5, Zenon DEF Activate, RecordT, State
  <1>7. Live(active, id)
    <2>1. id # NoId
      BY <1>2, DriverAssumption DEF NoId, Slot
    <2> QED
      BY <1>2, <1>6, <2>1 DEF Live
  <1>8. /\ record' \in [Slot -> RecordT]
        /\ record'[s].state = "LOADING" /\ record'[s].gen = record[s].gen + 1
        /\ record'[s].name = n /\ record'[s].instance = NoId
        /\ \A u \in Slot : u # s => record'[u] = cleared[u]
    <2>1. LegalTransition(active[s].state, "LOADING") /\ "LOADING" \in State
      BY <1>6 DEF LegalTransition, State
    <2>2. OnlyState(record', active, s) /\ record'[s].state = "LOADING"
      BY <1>1, <1>2, <1>6, <1>7, <2>1, SetStateIs
    <2> QED
      BY <1>2, <1>6, <2>2 DEF OnlyState
  <1>9. /\ gate' \in [Slot -> GateT]
        /\ gate'[s] = [gen |-> record[s].gen + 1, accepting |-> TRUE, inFlight |-> 0]
        /\ \A u \in Slot : u # s =>
              /\ gate'[u].gen = gate[u].gen /\ gate'[u].inFlight = gate[u].inFlight
              /\ u \notin Find(n) => gate'[u] = gate[u]
    BY <1>1, <1>2, CloseGateIs DEF GateT
  <1>10. /\ job' \in JobT /\ job'.op = "load" /\ job'.at = "link" /\ job'.name = n
         /\ job'.id = id /\ job'.loaded = NoId
    BY <1>1, <1>2, IdleType, Zenon DEF JobT, Idle, Working, Loading
  <1>11. JobOK'
    BY <1>2, <1>8, <1>10 DEF JobOK, Working, Loading, Closed, Drained
  <1>12. GateOK'
    <2>1. ASSUME NEW u \in Slot
          PROVE  /\ gate'[u].gen = record'[u].gen
                 /\ record'[u].instance \in {NoId, <<u, record'[u].gen>>}
                 /\ gate'[u].accepting /\ record'[u].state \in {"LOADING", "LINKED", "READY"} =>
                       \/ <<u, record'[u].gen>> \in code'
                       \/ job'.at = "link" /\ job'.id = <<u, record'[u].gen>>
      <3>1. gate[u].gen = record[u].gen /\ record[u].instance \in {NoId, <<u, record[u].gen>>}
        BY Zenon DEF DriverInv, GateOK
      <3>2. CASE u = s
        BY <3>2, <1>8, <1>9, <1>10
      <3>3. CASE u # s /\ u \in Find(n)
        BY <3>1, <3>3, <1>5, <1>8, <1>9
      <3>4. CASE u # s /\ u \notin Find(n)
        <4>1. record'[u] = record[u] /\ gate'[u] = gate[u]
          BY <3>4, <1>5, <1>8, <1>9, Zenon
        <4> QED
          BY <3>1, <4>1, <1>3, Zenon DEF DriverInv, GateOK
      <3> QED
        BY <3>2, <3>3, <3>4
    <2>2. job'.at \notin Closed
      BY <1>10 DEF Closed, Drained
    <2> QED
      BY <2>1, <2>2 DEF GateOK
  <1>13. ASSUME NEW h \in Hook, hook[h] # NoHook
         PROVE  /\ hook[h].owner[1] \in Slot
                /\ hook[h].owner = <<hook[h].owner[1], record[hook[h].owner[1]].gen>>
                /\ record[hook[h].owner[1]].state \in {"LINKED", "READY"}
    BY <1>13, Zenon DEF DriverInv, HookOK
  <1>14. HookOK' /\ OneHookEach'
    <2>1. ASSUME NEW h \in Hook, hook[h] # NoHook
          PROVE  record'[hook[h].owner[1]] = record[hook[h].owner[1]]
      <3>1. hook[h].owner[1] # s /\ hook[h].owner[1] \notin Find(n)
        BY <1>3, <1>4, <1>13, <2>1, Zenon
      <3> QED
        BY <1>5, <1>8, <1>13, <2>1, <3>1
    <2> QED
      BY <1>3, <1>13, <2>1, HooksKept, Zenon
  <1>15. InFlightExact'
    <2>1. ~ InDriver /\ ~ InDriver'
      BY <1>10 DEF InDriver
    <2>2. \A i : ShellPin(i)' = ShellPin(i) /\ ShellPin(i) = 0
      BY <2>1 DEF ShellPin
    <2>3. \A i : Pins(i)' = Pins(i)
      BY <1>3, <2>2, SamePins
    <2>4. Inside(id) = {}
      <3>1. ASSUME NEW c \in Cpu, id \in Running(c) PROVE FALSE
        <4>1. id[2] <= record[id[1]].gen
          BY <3>1, RunningIds
        <4> QED
          BY <4>1, <1>2
      <3> QED
        BY <3>1 DEF Inside
    <2>5. Confirming(id) = {}
      <3>1. ASSUME NEW c \in Cpu, irq[c].at = "confirm", irq[c].owner = id PROVE FALSE
        <4>1. PICK h \in Hook : hook[h] # NoHook /\ hook[h].owner = id
          BY <3>1 DEF DriverInv, IrqOK
        <4>2. id = <<id[1], record[id[1]].gen>>
          BY <1>13, <4>1
        <4>3. id[2] = record[id[1]].gen
          BY <4>2
        <4> QED
          BY <1>2, <4>3
      <3> QED
        BY <3>1 DEF Confirming
    <2>6. Pins(id) = 0
      <3>1. Cardinality(Inside(id)) = 0 /\ Cardinality(Confirming(id)) = 0
        BY <2>4, <2>5, FS_EmptySet
      <3> QED
        BY <3>1, <2>2, PinsAre
    <2>7. ASSUME NEW u \in Slot, NEW i, i = <<u, gate'[u].gen>>
          PROVE  gate'[u].inFlight = Pins(i)'
      <3>1. CASE u = s
        BY <3>1, <1>9, <2>3, <2>6, <2>7
      <3>2. CASE u # s
        BY <3>2, <1>9, <2>3, <2>7 DEF DriverInv, InFlightExact
      <3> QED
        BY <3>1, <3>2
    <2> QED
      BY <2>7 DEF InFlightExact
  <1>16. \A u \in Slot : record[u].gen <= record'[u].gen
    <2>1. ASSUME NEW u \in Slot PROVE record[u].gen <= record'[u].gen
      <3>1. record[u].gen \in Nat
        BY <1>2 DEF RecordT
      <3>2. record'[u].gen \in {record[u].gen, record[u].gen + 1}
        BY <1>5, <1>8
      <3> QED
        BY <3>1, <3>2
    <2> QED
      BY <2>1
  <1>17. \A c \in Cpu : Running(c) \subseteq code'
    BY <1>3 DEF DriverInv, NoFreedCodeRuns
  <1>18. job'.at \notin Drained /\ hook' \in [Hook -> HookT]
    BY <1>2, <1>3, <1>10 DEF Drained
  <1> QED
    BY <1>3, <1>8, <1>9, <1>10, <1>11, <1>12, <1>14, <1>15, <1>16, <1>17, <1>18, ShellStep

-----------------------------------------------------------------------------
(* Steps that change nothing the invariant speaks of.                      *)

LEMMA QuietStep ==
  ASSUME DriverInv, UNCHANGED <<record, gate, code, hook, job, irq, irqLock, context>>
  PROVE  DriverInv'
  <1>1. \A c \in Cpu : Running(c)' = Running(c)
    BY DEF Running
  <1>2. Types' /\ JobOK' /\ GateOK' /\ HookOK' /\ OneHookEach'
    BY Zenon DEF DriverInv, Types, JobOK, GateOK, HookOK, OneHookEach
  <1>3. IrqOK' /\ InsideOK'
    <2>1. IrqOK'
      BY <1>1, Zenon DEF DriverInv, IrqOK, Locked
    <2>2. InsideOK'
      BY <1>1, Zenon DEF DriverInv, InsideOK
    <2> QED
      BY <2>1, <2>2
  <1>4. NoFreedCodeRuns' /\ TeardownAfterDrain'
    BY <1>1 DEF DriverInv, NoFreedCodeRuns, TeardownAfterDrain
  <1>5. InFlightExact'
    <2>1. \A id : ShellPin(id)' = ShellPin(id)
      BY DEF ShellPin, InDriver
    <2>2. \A id : Pins(id)' = Pins(id)
      BY <2>1, SamePins
    <2> QED
      BY <2>2 DEF DriverInv, InFlightExact
  <1> QED
    BY <1>2, <1>3, <1>4, <1>5 DEF DriverInv

-----------------------------------------------------------------------------
(* Steps of an interrupt dispatch.                                         *)

LEMMA IrqStep ==
  ASSUME DriverInv, UNCHANGED <<record, code, hook, job>>,
         gate' \in [Slot -> GateT], irq' \in [Cpu -> IrqT],
         irqLock' \in Cpu \cup {"free"}, context' \in [Cpu -> Id],
         \A s \in Slot : gate'[s].gen = gate[s].gen /\ gate'[s].accepting = gate[s].accepting,
         IrqOK', InsideOK', InFlightExact',
         \A c \in Cpu : \A id \in Running(c)' :
            id \in code /\ (job.at \in Drained => id # job.id)
  PROVE  DriverInv'
  <1>1. Types'
    BY DEF DriverInv, Types
  <1>2. JobOK' /\ HookOK' /\ OneHookEach'
    BY Zenon DEF DriverInv, JobOK, HookOK, OneHookEach
  <1>3. GateOK'
    BY Zenon DEF DriverInv, GateOK
  <1>4. NoFreedCodeRuns'
    BY Zenon DEF NoFreedCodeRuns
  <1>5. TeardownAfterDrain'
    BY DEF TeardownAfterDrain, Drained
  <1> QED
    BY <1>1, <1>2, <1>3, <1>4, <1>5 DEF DriverInv

One(p) == IF p THEN 1 ELSE 0

LEMMA CountWithout ==
  ASSUME NEW S, IsFiniteSet(S), NEW c
  PROVE  /\ Cardinality(S) = Cardinality(S \ {c}) + One(c \in S)
         /\ Cardinality(S \ {c}) \in Nat
  <1>1. IsFiniteSet(S \ {c}) /\ Cardinality(S \ {c}) = (IF c \in S THEN Cardinality(S) - 1 ELSE Cardinality(S))
    BY FS_RemoveElement
  <1>2. Cardinality(S) \in Nat /\ Cardinality(S \ {c}) \in Nat
    BY <1>1, FS_CardinalityType
  <1> QED
    BY <1>1, <1>2 DEF One

\* A dispatch changes the pins by what changes on its own processor.
LEMMA PinsChange ==
  ASSUME UNCHANGED job, NEW c \in Cpu, \A d \in Cpu : d # c => irq'[d] = irq[d], NEW id
  PROVE  Pins(id)' = Pins(id) - One(id \in Running(c)) + One(id \in Running(c))'
                       - One(irq[c].at = "confirm" /\ irq[c].owner = id)
                       + One(irq[c].at = "confirm" /\ irq[c].owner = id)'
  <1>1. Inside(id)' \ {c} = Inside(id) \ {c} /\ Confirming(id)' \ {c} = Confirming(id) \ {c}
    BY DEF Inside, Confirming, Running
  <1>2. IsFiniteSet(Inside(id)') /\ IsFiniteSet(Confirming(id)')
    <2>1. Inside(id)' \subseteq Cpu /\ Confirming(id)' \subseteq Cpu
      BY DEF Inside, Confirming
    <2> QED
      BY <2>1, FS_Subset, DriverAssumption
  <1>3. /\ Cardinality(Inside(id)) = Cardinality(Inside(id) \ {c}) + One(c \in Inside(id))
        /\ Cardinality(Confirming(id)) = Cardinality(Confirming(id) \ {c}) + One(c \in Confirming(id))
        /\ Cardinality(Inside(id) \ {c}) \in Nat /\ Cardinality(Confirming(id) \ {c}) \in Nat
    BY PinsAre, CountWithout
  <1>4. /\ Cardinality(Inside(id)') = Cardinality(Inside(id) \ {c}) + One(c \in Inside(id)')
        /\ Cardinality(Confirming(id)') = Cardinality(Confirming(id) \ {c}) + One(c \in Confirming(id)')
    BY <1>1, <1>2, CountWithout
  <1>5. ShellPin(id)' = ShellPin(id) /\ ShellPin(id) \in Int
    BY DEF ShellPin, InDriver
  <1>6. Pins(id) = Cardinality(Inside(id)) + Cardinality(Confirming(id)) + ShellPin(id)
    BY PinsAre
  <1>7. Pins(id)' = Cardinality(Inside(id)') + Cardinality(Confirming(id)') + ShellPin(id)'
    BY DEF Pins, Inside, Confirming, ShellPin
  <1>8. /\ One(c \in Inside(id)) = One(id \in Running(c))
        /\ One(c \in Inside(id)') = One(id \in Running(c))'
        /\ One(c \in Confirming(id)) = One(irq[c].at = "confirm" /\ irq[c].owner = id)
        /\ One(c \in Confirming(id)') = One(irq[c].at = "confirm" /\ irq[c].owner = id)'
    BY DEF Inside, Confirming, One
  <1>9. /\ One(c \in Inside(id)) \in Int /\ One(c \in Inside(id)') \in Int
        /\ One(c \in Confirming(id)) \in Int /\ One(c \in Confirming(id)') \in Int
    BY DEF One
  <1>10. ASSUME NEW p, NEW q, NEW i \in Nat, NEW j \in Nat, NEW k \in Int,
                NEW a \in Int, NEW d \in Int, NEW e \in Int, NEW f \in Int,
                p = i + a + (j + e) + k, q = i + d + (j + f) + k
         PROVE  q = p - a + d - e + f
    BY <1>10
  <1>11. /\ Pins(id) = Cardinality(Inside(id) \ {c}) + One(c \in Inside(id))
                       + (Cardinality(Confirming(id) \ {c}) + One(c \in Confirming(id))) + ShellPin(id)
         /\ Pins(id)' = Cardinality(Inside(id) \ {c}) + One(c \in Inside(id)')
                       + (Cardinality(Confirming(id) \ {c}) + One(c \in Confirming(id)')) + ShellPin(id)
    BY <1>3, <1>4, <1>5, <1>6, <1>7, Zenon
  <1>12. Pins(id)' = Pins(id) - One(c \in Inside(id)) + One(c \in Inside(id)')
                       - One(c \in Confirming(id)) + One(c \in Confirming(id)')
    BY <1>3, <1>5, <1>9, <1>10, <1>11
  <1> QED
    BY <1>8, <1>12, Zenon

LEMMA RunningIs ==
  ASSUME NEW c \in Cpu
  PROVE  /\ Running(c) = OwnersOf(irq[c].admitted)
         /\ Running(c)' = OwnersOf(irq'[c].admitted)
  BY DEF Running, OwnersOf

\* The facts about a processor that every step of its dispatch uses.
LEMMA CpuFacts ==
  ASSUME DriverInv, NEW c \in Cpu
  PROVE  /\ irq \in [Cpu -> IrqT] /\ irq[c] \in IrqT /\ irq[c].admitted \in Seq(EntryT)
         /\ gate \in [Slot -> GateT] /\ context \in [Cpu -> Id] /\ hook \in [Hook -> HookT]
         /\ record \in [Slot -> RecordT] /\ irqLock \in Cpu \cup {"free"}
         /\ Once(irq[c].admitted)
         /\ \A id \in Running(c) : id \in code /\ (job.at \in Drained => id # job.id)
  <1>1. irq \in [Cpu -> IrqT] /\ irq[c] \in IrqT
    BY DEF DriverInv, Types
  <1>2. irq[c].admitted \in Seq(EntryT)
    BY <1>1 DEF IrqT
  <1>3. Once(irq[c].admitted)
    BY DEF DriverInv, InsideOK, Once
  <1>4. \A id \in Running(c) : id \in code
    BY DEF DriverInv, NoFreedCodeRuns
  <1>5. job.at \in Drained => job.id \notin Running(c)
    BY DEF DriverInv, TeardownAfterDrain, Drained
  <1> QED
    BY <1>1, <1>2, <1>3, <1>4, <1>5 DEF DriverInv, Types

\* What the other processors do is not touched; what is said of this one has
\* to be shown.
LEMMA OneCpu ==
  ASSUME DriverInv, UNCHANGED <<record, hook, job>>, NEW c \in Cpu,
         irq' \in [Cpu -> IrqT],
         \A d \in Cpu : d # c => irq'[d] = irq[d],
         irqLock' = irqLock \/ (irqLock \in {"free", c} /\ irqLock' \in {"free", c}),
         Locked(c)' <=> irqLock' = c,
         irq'[c].at = "idle" => irq'[c].admitted = <<>>,
         irq'[c].at = "handler" => irq'[c].admitted # <<>>,
         Locked(c)' => \A h \in irq'[c].todo : hook[h] # NoHook /\ hook[h].owner \notin Running(c)',
         irq'[c].at \in {"pin", "confirm"} =>
            /\ irq'[c].owner \notin Running(c)'
            /\ \E h \in Hook \ irq'[c].todo : hook[h] # NoHook /\ hook[h].owner = irq'[c].owner,
         Once(irq'[c].admitted),
         \A id \in Running(c)' : id[1] \in Slot /\ id[2] <= record[id[1]].gen
  PROVE  IrqOK' /\ InsideOK'
  <1>1. \A d \in Cpu : d # c => Running(d)' = Running(d)
    BY Zenon DEF Running
  <1>2. ASSUME NEW d \in Cpu, d # c PROVE Locked(d)' <=> irqLock' = d
    <2>1. Locked(d)' = Locked(d)
      BY <1>2 DEF Locked
    <2>2. Locked(d) <=> irqLock = d
      BY Zenon DEF DriverInv, IrqOK
    <2>3. d # "free"
      BY DriverAssumption, Zenon
    <2> QED
      BY <1>2, <2>1, <2>2, <2>3
  <1>3. IrqOK'
    <2>1. ASSUME NEW d \in Cpu, d # c
          PROVE  /\ Locked(d)' <=> irqLock' = d
                 /\ irq'[d].at = "idle" => irq'[d].admitted = <<>>
                 /\ irq'[d].at = "handler" => irq'[d].admitted # <<>>
                 /\ Locked(d)' => \A h \in irq'[d].todo :
                                     hook[h] # NoHook /\ hook[h].owner \notin Running(d)'
                 /\ irq'[d].at \in {"pin", "confirm"} =>
                      /\ irq'[d].owner \notin Running(d)'
                      /\ \E h \in Hook \ irq'[d].todo :
                            hook[h] # NoHook /\ hook[h].owner = irq'[d].owner
      <3>1. irq'[d] = irq[d] /\ Running(d)' = Running(d) /\ Locked(d)' = Locked(d)
        BY <1>1, <2>1, Zenon DEF Locked
      <3>2. /\ irq[d].at = "idle" => irq[d].admitted = <<>>
            /\ irq[d].at = "handler" => irq[d].admitted # <<>>
            /\ Locked(d) => \A h \in irq[d].todo : hook[h] # NoHook /\ hook[h].owner \notin Running(d)
            /\ irq[d].at \in {"pin", "confirm"} =>
                 /\ irq[d].owner \notin Running(d)
                 /\ \E h \in Hook \ irq[d].todo : hook[h] # NoHook /\ hook[h].owner = irq[d].owner
        BY Zenon DEF DriverInv, IrqOK
      <3> QED
        BY <1>2, <2>1, <3>1, <3>2, Zenon
    <2> QED
      BY <2>1, Zenon DEF IrqOK
  <1>4. InsideOK'
    <2>1. ASSUME NEW d \in Cpu, d # c
          PROVE  /\ Once(irq'[d].admitted)
                 /\ \A id \in Running(d)' : id[1] \in Slot /\ id[2] <= record[id[1]].gen
      BY <1>1, <2>1, Zenon DEF DriverInv, InsideOK, Once
    <2> QED
      BY <2>1, Zenon DEF InsideOK, Once
  <1> QED
    BY <1>3, <1>4

\* Steps that take no pin and give none back.
LEMMA WalkSteps ==
  ASSUME DriverInv, NEW c \in Cpu, Dispatch(c) \/ DispatchNext(c) \/ DispatchUnlock(c)
  PROVE  DriverInv'
  <1> USE DEF irqVars, devices
  <1>1. UNCHANGED <<record, gate, code, hook, job, context>>
    BY Zenon DEF Dispatch, DispatchNext, DispatchUnlock
  <1>2. NoIrq \in IrqT /\ NoId \in Id
    BY NoIrqType
  <1>3. ASSUME irq' \in [Cpu -> IrqT], \A d \in Cpu : d # c => irq'[d] = irq[d],
               irq'[c].admitted = irq[c].admitted, irq[c].at # "confirm", irq'[c].at # "confirm",
               irqLock' \in Cpu \cup {"free"}, IrqOK' /\ InsideOK'
        PROVE  DriverInv'
    <2>1. \A d \in Cpu : Running(d)' = Running(d)
      BY <1>3, Zenon DEF Running
    <2>2. ASSUME NEW id PROVE Pins(id)' = Pins(id)
      <3>1. Pins(id)' = Pins(id) - One(id \in Running(c)) + One(id \in Running(c))' - 0 + 0
        BY <1>1, <1>3, PinsChange DEF One
      <3>2. One(id \in Running(c))' = One(id \in Running(c)) /\ One(id \in Running(c)) \in Int
        BY <2>1 DEF One
      <3>3. Pins(id) \in Int
        BY PinsAre
      <3> QED
        BY <3>1, <3>2, <3>3
    <2>3. InFlightExact'
      BY <1>1, <2>2 DEF DriverInv, InFlightExact
    <2>4. \A d \in Cpu : \A id \in Running(d)' : id \in code /\ (job.at \in Drained => id # job.id)
      BY <2>1, CpuFacts
    <2> QED
      BY <1>1, <1>3, <2>3, <2>4, CpuFacts, IrqStep, Zenon
  <1>4. /\ Once(irq[c].admitted)
        /\ \A id \in Running(c) : id[1] \in Slot /\ id[2] <= record[id[1]].gen
    BY CpuFacts, RunningIds, Zenon
  <1>5. CASE Dispatch(c)
    <2>1. /\ irq[c].at = "idle" /\ irqLock = "free" /\ irqLock' = c
          /\ irq' = [irq EXCEPT ![c].at = "next", ![c].todo = {h \in Hook : hook[h] # NoHook}]
      BY <1>5 DEF Dispatch
    <2>2. /\ irq' \in [Cpu -> IrqT] /\ \A d \in Cpu : d # c => irq'[d] = irq[d]
          /\ irq'[c].at = "next" /\ irq'[c].todo = {h \in Hook : hook[h] # NoHook}
          /\ irq'[c].admitted = irq[c].admitted
      BY <2>1, CpuFacts, Zenon DEF IrqT
    <2>3. irq[c].admitted = <<>> /\ Running(c)' = {} /\ Running(c) = {}
      BY <2>1, <2>2 DEF DriverInv, IrqOK, Running
    <2>4. IrqOK' /\ InsideOK'
      BY <1>1, <1>4, <2>1, <2>2, <2>3, OneCpu, Zenon DEF Locked
    <2> QED
      BY <1>3, <2>1, <2>2, <2>4
  <1>6. CASE DispatchNext(c)
    <2>1. PICK h \in irq[c].todo : 
             irq' = [irq EXCEPT ![c].todo = @ \ {h}, ![c].owner = hook[h].owner,
                        ![c].at = IF Live(record, hook[h].owner) /\ PinAdmitted(hook[h].owner)
                                  THEN "pin" ELSE "next"]
      BY <1>6, Zenon DEF DispatchNext
    <2>2. irq[c].at = "next" /\ irqLock' = irqLock /\ Locked(c) /\ irqLock = c
      BY <1>6, Zenon DEF DispatchNext, Locked, DriverInv, IrqOK
    <2>3. irq[c].todo \subseteq Hook /\ h \in Hook /\ hook[h].owner \in Id
      BY CpuFacts, Zenon DEF IrqT, HookT
    <2>4. PICK at \in {"pin", "next"} :
             irq' = [irq EXCEPT ![c].todo = @ \ {h}, ![c].owner = hook[h].owner, ![c].at = at]
      BY <2>1, Zenon
    <2>5. /\ irq' \in [Cpu -> IrqT] /\ \A d \in Cpu : d # c => irq'[d] = irq[d]
          /\ irq'[c].at = at /\ irq'[c].todo = irq[c].todo \ {h}
          /\ irq'[c].owner = hook[h].owner /\ irq'[c].admitted = irq[c].admitted
      BY <2>3, <2>4, CpuFacts, Zenon DEF IrqT
    <2>6. Running(c)' = Running(c)
      BY <2>5 DEF Running
    <2>7. \A g \in irq[c].todo : hook[g] # NoHook /\ hook[g].owner \notin Running(c)
      BY <2>2, Zenon DEF DriverInv, IrqOK
    <2>8. Locked(c)'
      BY <2>5, Zenon DEF Locked
    <2>9. \E g \in Hook \ irq'[c].todo : hook[g] # NoHook /\ hook[g].owner = irq'[c].owner
      BY <2>3, <2>5, <2>7
    <2>10. IrqOK' /\ InsideOK'
      BY <1>1, <1>4, <2>2, <2>5, <2>6, <2>7, <2>8, <2>9, OneCpu, ZenonT(30)
    <2> QED
      BY <1>3, <2>2, <2>5, <2>10
  <1>7. CASE DispatchUnlock(c)
    <2>1. irq[c].at = "next" /\ irqLock' = "free" /\ irqLock = c
      BY <1>7 DEF DispatchUnlock, Locked, DriverInv, IrqOK
    <2>2. /\ irq' \in [Cpu -> IrqT] /\ \A d \in Cpu : d # c => irq'[d] = irq[d]
          /\ irq'[c].at = (IF irq[c].admitted = <<>> THEN "idle" ELSE "handler")
          /\ irq'[c].admitted = irq[c].admitted
      <3>1. CASE irq[c].admitted = <<>>
        <4>1. irq' = [irq EXCEPT ![c] = NoIrq]
          BY <1>7, <3>1 DEF DispatchUnlock
        <4> QED
          BY <3>1, <4>1, <1>2, CpuFacts, Zenon DEF NoIrq
      <3>2. CASE irq[c].admitted # <<>>
        <4>1. irq' = [irq EXCEPT ![c] = [irq[c] EXCEPT !.at = "handler", !.owner = NoId]]
          BY <1>7, <3>2 DEF DispatchUnlock
        <4> QED
          BY <3>2, <4>1, <1>2, CpuFacts, Zenon DEF IrqT
      <3> QED
        BY <3>1, <3>2, Zenon
    <2>3. ~ Locked(c)' /\ c # "free" /\ irq'[c].at \notin {"pin", "confirm"}
      BY <2>2, DriverAssumption DEF Locked
    <2>4. Running(c)' = Running(c)
      BY <2>2 DEF Running
    <2>5. IrqOK' /\ InsideOK'
      BY <1>1, <1>4, <2>1, <2>2, <2>3, <2>4, OneCpu, Zenon
    <2> QED
      BY <1>3, <2>1, <2>2, <2>3, <2>5, Zenon
  <1> QED
    BY <1>5, <1>6, <1>7

\* The owner that is being pinned or confirmed is the current generation of a
\* hooked record.
LEMMA HookedOwner ==
  ASSUME DriverInv, NEW c \in Cpu, irq[c].at \in {"pin", "confirm"}
  PROVE  LET id == irq[c].owner
         IN  /\ id \in Id /\ id[1] \in Slot /\ id = <<id[1], gate[id[1]].gen>>
             /\ id[2] = record[id[1]].gen /\ id \notin Running(c)
             /\ irqLock = c /\ Locked(c)
             /\ \/ record[id[1]].state \in {"LINKED", "READY"}
                \/ job.id = id /\ job.at = "hooks"
  <1>1. PICK h \in Hook : hook[h] # NoHook /\ hook[h].owner = irq[c].owner
    BY DEF DriverInv, IrqOK
  <1>2. /\ irq[c].owner[1] \in Slot
        /\ irq[c].owner = <<irq[c].owner[1], record[irq[c].owner[1]].gen>>
        /\ \/ record[irq[c].owner[1]].state \in {"LINKED", "READY"}
           \/ job.id = irq[c].owner /\ job.at = "hooks"
    BY <1>1, Zenon DEF DriverInv, HookOK
  <1>3. gate[irq[c].owner[1]].gen = record[irq[c].owner[1]].gen
    BY <1>2, Zenon DEF DriverInv, GateOK
  <1>4. irq[c].owner[2] = record[irq[c].owner[1]].gen
    BY <1>2
  <1>5. irq[c].owner \notin Running(c) /\ irqLock = c /\ Locked(c)
    BY DEF DriverInv, IrqOK, Locked
  <1>6. irq[c].owner \in Id
    BY CpuFacts DEF IrqT
  <1> QED
    BY <1>2, <1>3, <1>4, <1>5, <1>6, Zenon

\* Adding n pins to one gate is exact when the pins of its current generation
\* change by n and no others.
LEMMA PinnedExact ==
  ASSUME DriverInv, NEW id, id[1] \in Slot, id = <<id[1], gate[id[1]].gen>>, NEW n \in Int,
         gate' = Pinned(gate, id, n),
         Pins(id)' = Pins(id) + n,
         \A i : i # id => Pins(i)' = Pins(i)
  PROVE  /\ gate' \in [Slot -> GateT] /\ InFlightExact'
         /\ \A s \in Slot : gate'[s].gen = gate[s].gen /\ gate'[s].accepting = gate[s].accepting
  <1>1. gate \in [Slot -> GateT]
    BY DEF DriverInv, Types
  <1>2. /\ gate' \in [Slot -> GateT]
        /\ \A s \in Slot : gate'[s].gen = gate[s].gen /\ gate'[s].accepting = gate[s].accepting
        /\ \A s \in Slot : s # id[1] => gate'[s].inFlight = gate[s].inFlight
        /\ gate'[id[1]].inFlight = gate[id[1]].inFlight + n
    BY <1>1 DEF Pinned, GateT
  <1>3. ASSUME NEW s \in Slot, NEW i, i = <<s, gate'[s].gen>>
        PROVE  gate'[s].inFlight = Pins(i)'
    <2>1. i = <<s, gate[s].gen>> /\ gate[s].inFlight = Pins(i)
      BY <1>2, <1>3 DEF DriverInv, InFlightExact
    <2>2. CASE s = id[1]
      BY <1>2, <2>1, <2>2
    <2>3. CASE s # id[1]
      <3>1. i # id
        BY <2>1, <2>3
      <3> QED
        BY <1>2, <2>1, <2>3, <3>1
    <2> QED
      BY <2>2, <2>3
  <1> QED
    BY <1>2, <1>3 DEF InFlightExact

LEMMA PinStep ==
  ASSUME DriverInv, NEW c \in Cpu, DispatchPin(c)
  PROVE  DriverInv'
  <1> USE DEF irqVars, devices
  <1> PICK id : id = irq[c].owner
    OBVIOUS
  <1>1. /\ irq[c].at = "pin" /\ gate' = Pinned(gate, id, 1)
        /\ irq' = [irq EXCEPT ![c].at = "confirm"]
        /\ UNCHANGED <<record, code, hook, job, irqLock, context>>
    BY DEF DispatchPin
  <1>2. /\ irq' \in [Cpu -> IrqT] /\ \A d \in Cpu : d # c => irq'[d] = irq[d]
        /\ irq'[c].at = "confirm" /\ irq'[c].owner = id /\ irq'[c].todo = irq[c].todo
        /\ irq'[c].admitted = irq[c].admitted
    BY <1>1, CpuFacts, Zenon DEF IrqT
  <1>3. \A d \in Cpu : Running(d)' = Running(d)
    BY <1>2 DEF Running
  <1>4. ASSUME NEW i PROVE Pins(i)' = Pins(i) + One(i = id)
    <2>1. Pins(i)' = Pins(i) - One(i \in Running(c)) + One(i \in Running(c))' - 0 + One(i = id)
      BY <1>1, <1>2, PinsChange DEF One
    <2>2. One(i \in Running(c))' = One(i \in Running(c)) /\ One(i \in Running(c)) \in Int
      BY <1>3 DEF One
    <2>3. Pins(i) \in Int /\ One(i = id) \in Int
      BY PinsAre DEF One
    <2> QED
      BY <2>1, <2>2, <2>3
  <1>5. Pins(id)' = Pins(id) + 1 /\ \A i : i # id => Pins(i)' = Pins(i)
    <2>1. \A i : Pins(i) \in Int
      BY PinsAre
    <2>2. One(id = id) = 1 /\ \A i : i # id => One(i = id) = 0
      BY DEF One
    <2> QED
      BY <1>4, <2>1, <2>2
  <1>6. /\ gate' \in [Slot -> GateT] /\ InFlightExact'
        /\ \A s \in Slot : gate'[s].gen = gate[s].gen /\ gate'[s].accepting = gate[s].accepting
    <2>1. id[1] \in Slot /\ id = <<id[1], gate[id[1]].gen>>
      BY <1>1, HookedOwner
    <2>2. gate' = Pinned(gate, id, 1) /\ 1 \in Int
      BY <1>1
    <2> QED
      BY <1>5, <2>1, <2>2, PinnedExact, Zenon
  <1>7. /\ Locked(c)' /\ irqLock' = c /\ irq[c].owner \notin Running(c)
        /\ \A h \in irq[c].todo : hook[h] # NoHook /\ hook[h].owner \notin Running(c)
        /\ \E h \in Hook \ irq[c].todo : hook[h] # NoHook /\ hook[h].owner = id
    BY <1>1, <1>2, HookedOwner DEF Locked, DriverInv, IrqOK
  <1>8. /\ Once(irq[c].admitted)
        /\ \A i \in Running(c) : i[1] \in Slot /\ i[2] <= record[i[1]].gen
    BY CpuFacts, RunningIds
  <1>9. IrqOK' /\ InsideOK'
    BY <1>1, <1>2, <1>3, <1>7, <1>8, OneCpu
  <1>10. \A d \in Cpu : \A i \in Running(d)' : i \in code /\ (job.at \in Drained => i # job.id)
    BY <1>3, CpuFacts
  <1> QED
    BY <1>1, <1>2, <1>6, <1>9, <1>10, CpuFacts, IrqStep

\* Admission is confirmed only while the gate is open, so the code is mapped
\* and the record is not taken down.
LEMMA ConfirmStep ==
  ASSUME DriverInv, NEW c \in Cpu, DispatchConfirm(c)
  PROVE  DriverInv'
  <1> USE DEF irqVars, devices
  <1> PICK id : id = irq[c].owner
    OBVIOUS
  <1> DEFINE entry == [owner |-> id, previous |-> context[c]]
  <1>1. irq[c].at = "confirm" /\ UNCHANGED <<record, code, hook, job, irqLock>>
    BY DEF DispatchConfirm
  <1>2. /\ id \in Id /\ id[1] \in Slot /\ id = <<id[1], gate[id[1]].gen>>
        /\ id[2] = record[id[1]].gen /\ id \notin Running(c) /\ irqLock = c /\ Locked(c)
    BY <1>1, HookedOwner, Zenon
  <1>3. /\ \A h \in irq[c].todo : hook[h] # NoHook /\ hook[h].owner \notin Running(c)
        /\ Once(irq[c].admitted)
        /\ \A i \in Running(c) : i[1] \in Slot /\ i[2] <= record[i[1]].gen
    BY <1>2, CpuFacts, RunningIds, Zenon DEF DriverInv, IrqOK
  <1>4. \A h \in irq[c].todo : hook[h].owner # id
    <2>1. PICK g \in Hook \ irq[c].todo : hook[g] # NoHook /\ hook[g].owner = id
      BY <1>1, Zenon DEF DriverInv, IrqOK
    <2>2. irq[c].todo \subseteq Hook
      BY CpuFacts DEF IrqT
    <2> QED
      BY <2>1, <2>2 DEF DriverInv, OneHookEach
  <1>5. CASE PinConfirmed(id)
    <2>1. /\ irq' = [irq EXCEPT ![c].at = "next", ![c].admitted = Append(@, entry)]
          /\ context' = [context EXCEPT ![c] = id] /\ gate' = gate
      BY <1>5 DEF DispatchConfirm
    <2>2. entry \in EntryT /\ context' \in [Cpu -> Id]
      BY <1>2, <2>1, CpuFacts DEF EntryT
    <2>3. Append(irq[c].admitted, entry) \in Seq(EntryT)
      BY <2>2, CpuFacts
    <2>4. /\ irq' \in [Cpu -> IrqT] /\ \A d \in Cpu : d # c => irq'[d] = irq[d]
          /\ irq'[c].at = "next" /\ irq'[c].todo = irq[c].todo
          /\ irq'[c].admitted = Append(irq[c].admitted, entry)
      BY <2>1, <2>3, CpuFacts, Zenon DEF IrqT
    <2>5. Running(c)' = Running(c) \cup {id} /\ Once(irq'[c].admitted)
      <3>1. Running(c)' = OwnersOf(irq'[c].admitted) /\ Running(c) = OwnersOf(irq[c].admitted)
        BY RunningIs
      <3>2. irq[c].admitted \in Seq(EntryT)
        BY CpuFacts
      <3>3. entry.owner = id
        OBVIOUS
      <3>4. OwnersOf(Append(irq[c].admitted, entry)) = OwnersOf(irq[c].admitted) \cup {id}
        BY <2>2, <3>2, <3>3, OwnersAppend, Zenon
      <3>5. Once(Append(irq[c].admitted, entry))
        BY <1>2, <1>3, <2>2, <3>1, <3>2, <3>3, OnceAppend, Zenon
      <3> QED
        BY <2>4, <3>1, <3>4, <3>5, Zenon
    <2>6. \A d \in Cpu : d # c => Running(d)' = Running(d)
      BY <2>4, Zenon DEF Running
    <2>7. ASSUME NEW i PROVE Pins(i)' = Pins(i)
      <3>1. Pins(i)' = Pins(i) - One(i \in Running(c)) + One(i \in Running(c))' - One(i = id) + 0
        BY <1>1, <2>4, PinsChange, Zenon DEF One
      <3>2. One(i \in Running(c))' = One(i \in Running(c)) + One(i = id)
        BY <1>2, <2>5 DEF One
      <3>3. Pins(i) \in Int /\ One(i \in Running(c)) \in Int /\ One(i = id) \in Int
        BY PinsAre DEF One
      <3> QED
        BY <3>1, <3>2, <3>3
    <2>8. InFlightExact' /\ gate' \in [Slot -> GateT]
      BY <2>1, <2>7, CpuFacts DEF DriverInv, InFlightExact
    <2>9. id \in code /\ (job.at \in Drained => id # job.id)
      <3>1. /\ gate[id[1]].accepting /\ record[id[1]].state \in {"LOADING", "LINKED", "READY"}
        BY <1>5 DEF PinConfirmed
      <3>2. id = <<id[1], record[id[1]].gen>>
        BY <1>2
      <3>3. id \in code \/ (job.at = "link" /\ job.id = id)
        BY <1>2, <3>1, <3>2, Zenon DEF DriverInv, GateOK
      <3>4. ~ (job.at = "link" /\ job.id = id)
        BY <1>1, HookedOwner, Zenon DEF DriverInv, JobOK
      <3>5. job.at \in Closed => id[1] # job.id[1]
        BY <1>2, <3>1, Zenon DEF DriverInv, GateOK
      <3> QED
        BY <3>3, <3>4, <3>5 DEF Closed
    <2>10. \A i \in Running(c)' : i[1] \in Slot /\ i[2] <= record[i[1]].gen
      <3>1. record[id[1]].gen \in Nat
        BY <1>2, CpuFacts, Zenon DEF RecordT
      <3>2. id[2] <= record[id[1]].gen
        BY <1>2, <3>1
      <3> QED
        BY <1>2, <1>3, <2>5, <3>2
    <2>11. IrqOK' /\ InsideOK'
      <3>1. Locked(c)' /\ irqLock' = c
        BY <1>1, <1>2, <2>4, Zenon DEF Locked
      <3>2. \A h \in irq'[c].todo : hook[h] # NoHook /\ hook[h].owner \notin Running(c)'
        BY <1>3, <1>4, <2>4, <2>5, Zenon
      <3> QED
        BY <1>1, <2>4, <2>5, <2>10, <3>1, <3>2, OneCpu, Zenon
    <2>12. ASSUME NEW d \in Cpu, NEW i \in Running(d)'
           PROVE  i \in code /\ (job.at \in Drained => i # job.id)
      BY <2>5, <2>6, <2>9, CpuFacts
    <2> QED
      BY <1>1, <2>1, <2>2, <2>4, <2>8, <2>11, <2>12, CpuFacts, IrqStep
  <1>6. CASE ~ PinConfirmed(id)
    <2>1. /\ irq' = [irq EXCEPT ![c].at = "next"]
          /\ context' = context /\ gate' = Pinned(gate, id, -1)
      BY <1>6 DEF DispatchConfirm
    <2>2. /\ irq' \in [Cpu -> IrqT] /\ \A d \in Cpu : d # c => irq'[d] = irq[d]
          /\ irq'[c].at = "next" /\ irq'[c].todo = irq[c].todo
          /\ irq'[c].admitted = irq[c].admitted
      BY <2>1, CpuFacts, Zenon DEF IrqT
    <2>3. \A d \in Cpu : Running(d)' = Running(d)
      BY <2>2 DEF Running
    <2>4. ASSUME NEW i PROVE Pins(i)' = Pins(i) - One(i = id)
      <3>1. Pins(i)' = Pins(i) - One(i \in Running(c)) + One(i \in Running(c))' - One(i = id) + 0
        BY <1>1, <2>2, PinsChange DEF One
      <3>2. One(i \in Running(c))' = One(i \in Running(c))
        BY <2>3 DEF One
      <3>3. Pins(i) \in Int /\ One(i \in Running(c)) \in Int /\ One(i = id) \in Int
        BY PinsAre DEF One
      <3> QED
        BY <3>1, <3>2, <3>3
    <2>5. Pins(id)' = Pins(id) + (-1) /\ \A i : i # id => Pins(i)' = Pins(i)
      <3>1. \A i : Pins(i) \in Int
        BY PinsAre
      <3>2. One(id = id) = 1 /\ \A i : i # id => One(i = id) = 0
        BY DEF One
      <3> QED
        BY <2>4, <3>1, <3>2
    <2>6. /\ gate' \in [Slot -> GateT] /\ InFlightExact'
          /\ \A s \in Slot : gate'[s].gen = gate[s].gen /\ gate'[s].accepting = gate[s].accepting
      <3>1. -1 \in Int
        OBVIOUS
      <3> QED
        BY <1>2, <2>1, <2>5, <3>1, PinnedExact, Zenon
    <2>7. IrqOK' /\ InsideOK'
      <3>1. Locked(c)' /\ irqLock' = c
        BY <1>1, <1>2, <2>2, Zenon DEF Locked
      <3> QED
        BY <1>1, <1>3, <2>2, <2>3, <3>1, OneCpu, Zenon
    <2>8. \A d \in Cpu : \A i \in Running(d)' : i \in code /\ (job.at \in Drained => i # job.id)
      BY <2>3, CpuFacts
    <2> QED
      BY <1>1, <2>1, <2>2, <2>6, <2>7, <2>8, CpuFacts, IrqStep
  <1> QED
    BY <1>5, <1>6

\* A pin given back under a later generation of the slot leaves in_flight alone.
LEMMA ReturnStep ==
  ASSUME DriverInv, NEW c \in Cpu, HandlerReturns(c)
  PROVE  DriverInv'
  <1> USE DEF irqVars, devices
  <1> DEFINE done == Head(irq[c].admitted)
             rest == Tail(irq[c].admitted)
  <1> PICK id : id = done.owner
    OBVIOUS
  <1>1. /\ irq[c].at = "handler" /\ UNCHANGED <<record, code, hook, job, irqLock>>
        /\ context' = [context EXCEPT ![c] = done.previous]
        /\ gate' = Unpinned(gate, id)
        /\ irq' = [irq EXCEPT ![c] = IF rest = <<>> THEN NoIrq
                                     ELSE [irq[c] EXCEPT !.admitted = rest]]
    BY DEF HandlerReturns
  <1>2. /\ irq[c].admitted # <<>> /\ ~ Locked(c) /\ irqLock # c
    BY <1>1 DEF DriverInv, IrqOK, Locked
  <1>3. /\ rest \in Seq(EntryT) /\ done \in EntryT /\ id \in Running(c)
        /\ OwnersOf(rest) = Running(c) \ {id} /\ Once(rest)
    BY <1>2, CpuFacts, RunningIs, OwnersTail, Zenon
  <1>4. id \in Id /\ done.previous \in Id /\ id[1] \in Slot
    BY <1>3, RunningIds DEF EntryT
  <1>5. NoIrq \in IrqT
    BY NoIrqType
  <1>6. /\ irq' \in [Cpu -> IrqT] /\ \A d \in Cpu : d # c => irq'[d] = irq[d]
        /\ irq'[c].admitted = rest
        /\ irq'[c].at = (IF rest = <<>> THEN "idle" ELSE "handler")
    <2>1. CASE rest = <<>>
      <3>1. irq' = [irq EXCEPT ![c] = NoIrq]
        BY <1>1, <2>1
      <3> QED
        BY <2>1, <3>1, <1>5, CpuFacts, Zenon DEF NoIrq
    <2>2. CASE rest # <<>>
      <3>1. irq' = [irq EXCEPT ![c] = [irq[c] EXCEPT !.admitted = rest]]
        BY <1>1, <2>2
      <3>2. [irq[c] EXCEPT !.admitted = rest] \in IrqT
        BY <1>3, CpuFacts, Zenon DEF IrqT
      <3>3. irq[c] \in IrqT
        BY CpuFacts
      <3>4. /\ [irq[c] EXCEPT !.admitted = rest].admitted = rest
            /\ [irq[c] EXCEPT !.admitted = rest].at = "handler"
        BY <1>1, <3>3 DEF IrqT
      <3> QED
        BY <2>2, <3>1, <3>2, <3>4, CpuFacts
    <2> QED
      BY <2>1, <2>2, Zenon
  <1>7. Running(c)' = Running(c) \ {id} /\ \A d \in Cpu : d # c => Running(d)' = Running(d)
    <2>1. Running(c)' = OwnersOf(irq'[c].admitted)
      BY RunningIs
    <2> QED
      <3>1. Running(c)' = Running(c) \ {id}
        BY <1>3, <1>6, <2>1
      <3>2. \A d \in Cpu : d # c => Running(d)' = Running(d)
        BY <1>6, Zenon DEF Running
      <3> QED
        BY <3>1, <3>2
  <1>8. ASSUME NEW i PROVE Pins(i)' = Pins(i) - One(i = id)
    <2>1. Pins(i)' = Pins(i) - One(i \in Running(c)) + One(i \in Running(c))' - 0 + 0
      BY <1>1, <1>6, PinsChange DEF One
    <2>2. One(i \in Running(c))' = One(i \in Running(c)) - One(i = id)
      BY <1>3, <1>7 DEF One
    <2>3. Pins(i) \in Int /\ One(i \in Running(c)) \in Int /\ One(i = id) \in Int
      BY PinsAre DEF One
    <2> QED
      BY <2>1, <2>2, <2>3
  <1>9. /\ gate' \in [Slot -> GateT] /\ InFlightExact'
        /\ \A s \in Slot : gate'[s].gen = gate[s].gen /\ gate'[s].accepting = gate[s].accepting
    <2>0. \A i : Pins(i) \in Int
      BY PinsAre
    <2>1. CASE gate[id[1]].gen = id[2]
      <3>1. gate' = Pinned(gate, id, -1)
        BY <1>1, <2>1 DEF Unpinned
      <3>2. id = <<id[1], gate[id[1]].gen>>
        <4>1. id = <<id[1], id[2]>>
          BY <1>4 DEF Id
        <4> QED
          BY <2>1, <4>1
      <3>3. Pins(id)' = Pins(id) + (-1) /\ \A i : i # id => Pins(i)' = Pins(i)
        <4>1. One(id = id) = 1 /\ \A i : i # id => One(i = id) = 0
          BY DEF One
        <4> QED
          BY <1>8, <2>0, <4>1
      <3> QED
        <4>1. -1 \in Int
          OBVIOUS
        <4> QED
          BY <1>4, <3>1, <3>2, <3>3, <4>1, PinnedExact, Zenon
    <2>2. CASE gate[id[1]].gen # id[2]
      <3>1. gate' = gate
        BY <1>1, <2>2 DEF Unpinned
      <3>2. ASSUME NEW s \in Slot, NEW i, i = <<s, gate'[s].gen>>
            PROVE  gate'[s].inFlight = Pins(i)'
        <4>1. i = <<s, gate[s].gen>> /\ gate[s].inFlight = Pins(i)
          BY <3>1, <3>2 DEF DriverInv, InFlightExact
        <4>2. i # id
          BY <2>2, <4>1
        <4>3. Pins(i)' = Pins(i)
          BY <1>8, <2>0, <4>2 DEF One
        <4> QED
          BY <3>1, <4>1, <4>3
      <3> QED
        BY <3>1, <3>2, CpuFacts DEF InFlightExact
    <2> QED
      BY <2>1, <2>2, Zenon
  <1>10. IrqOK' /\ InsideOK'
    <2>1. ~ Locked(c)' /\ irqLock' # c /\ irq'[c].at \notin {"pin", "confirm"}
      BY <1>1, <1>2, <1>6 DEF Locked
    <2>2. \A i \in Running(c)' : i[1] \in Slot /\ i[2] <= record[i[1]].gen
      BY <1>7, RunningIds
    <2> QED
      BY <1>1, <1>3, <1>6, <2>1, <2>2, OneCpu, Zenon
  <1>11. \A d \in Cpu : \A i \in Running(d)' : i \in code /\ (job.at \in Drained => i # job.id)
    BY <1>7, CpuFacts
  <1>12. context' \in [Cpu -> Id]
    BY <1>1, <1>4, CpuFacts
  <1> QED
    BY <1>1, <1>6, <1>9, <1>10, <1>11, <1>12, CpuFacts, IrqStep, Zenon

-----------------------------------------------------------------------------
(* The theorems.                                                           *)

LEMMA DriverInvInit ==
  ASSUME DriverInit
  PROVE  DriverInv
  <1>1. NoId \in Id
    BY DriverAssumption DEF NoId, Id
  <1>2. Types
    <2>1. record \in [Slot -> RecordT]
      BY <1>1 DEF DriverInit, RecordT, State
    <2>2. gate \in [Slot -> GateT]
      BY DEF DriverInit, GateT
    <2>3. hook \in [Hook -> HookT]
      BY <1>1 DEF DriverInit, HookT, NoHook
    <2>4. irq \in [Cpu -> IrqT] /\ irqLock \in Cpu \cup {"free"} /\ context \in [Cpu -> Id]
      BY NoIrqType DEF DriverInit
    <2> QED
      BY <2>1, <2>2, <2>3, <2>4, IdleType DEF DriverInit, Types
  <1>3. job = Idle
    BY DEF DriverInit
  <1>4. JobOK
    BY <1>3, Zenon DEF JobOK, Idle, Working, Loading, Closed, Drained
  <1>5. GateOK
    BY <1>3, Zenon DEF DriverInit, GateOK, Idle, Closed, Drained
  <1>6. HookOK /\ OneHookEach
    BY Zenon DEF DriverInit, HookOK, OneHookEach
  <1>7. \A c \in Cpu : Running(c) = {}
    <2>1. \A c \in Cpu : irq[c].admitted = <<>>
      BY DEF DriverInit, NoIrq
    <2>2. 1..Len(<<>>) = {}
      OBVIOUS
    <2> QED
      BY <2>1, <2>2, Zenon DEF Running
  <1>8. IrqOK /\ InsideOK
    <2>1. ASSUME NEW c \in Cpu
          PROVE  irq[c].at = "idle" /\ irq[c].admitted = <<>> /\ irqLock # c
      BY DriverAssumption DEF DriverInit, NoIrq
    <2>2. IrqOK
      BY <2>1 DEF IrqOK, Locked
    <2>3. 1..Len(<<>>) = {}
      OBVIOUS
    <2>4. InsideOK
      BY <1>7, <2>1, <2>3, Zenon DEF InsideOK
    <2> QED
      BY <2>2, <2>4
  <1>9. NoFreedCodeRuns /\ TeardownAfterDrain
    BY <1>7 DEF NoFreedCodeRuns, TeardownAfterDrain
  <1>10. InFlightExact
    <2>1. ASSUME NEW id PROVE Pins(id) = 0
      <3>1. Inside(id) = {} /\ Confirming(id) = {}
        BY <1>7, Zenon DEF Inside, Confirming, DriverInit, NoIrq
      <3>2. ShellPin(id) = 0
        BY <1>3 DEF ShellPin, InDriver, Idle
      <3>3. Cardinality(Inside(id)) = 0 /\ Cardinality(Confirming(id)) = 0
        BY <3>1, FS_EmptySet
      <3> QED
        BY <3>2, <3>3, PinsAre
    <2> QED
      BY <2>1 DEF InFlightExact, DriverInit
  <1> QED
    BY <1>2, <1>4, <1>5, <1>6, <1>8, <1>9, <1>10 DEF DriverInv

LEMMA DriverInvStep ==
  ASSUME DriverInv, [DriverNext]_driverVars
  PROVE  DriverInv'
  <1>1. CASE UNCHANGED driverVars
    BY <1>1, QuietStep DEF driverVars, irqVars, devices
  <1>2. ASSUME NEW n \in Name, Load(n) PROVE DriverInv'
    BY <1>2, BeginLoadStep, Zenon DEF Load, DriverInv, JobOK
  <1>3. ASSUME NEW n \in Name, NEW again \in BOOLEAN, BeginUnload(n, again) PROVE DriverInv'
    BY <1>3, BeginUnloadStep
  <1>4. CASE Reload
    BY <1>4, BeginLoadStep, Zenon DEF Reload, DriverInv, JobOK
  <1>5. ASSUME NEW d \in Device, BindPci(d) PROVE DriverInv'
    BY <1>5, QuietStep, Zenon DEF BindPci, irqVars, devices
  <1>6. CASE EnableBusMastering
    BY <1>6, QuietStep DEF EnableBusMastering, irqVars, devices
  <1>7. ASSUME NEW kind \in Owned, Acquire(kind) PROVE DriverInv'
    BY <1>7, QuietStep DEF Acquire, irqVars, devices
  <1>8. ASSUME NEW stuck \in BOOLEAN, FreeImage(stuck) PROVE DriverInv'
    BY <1>8, FreeImageStep
  <1>9. CASE ShellNext
    BY <1>2, <1>3, <1>4, <1>5, <1>6, <1>7, <1>8, <1>9, LinkSteps, CallSteps, AbortStep,
       HookSteps, UnhookStep, TeardownSteps DEF ShellNext
  <1>10. ASSUME NEW c \in Cpu, IrqNext(c) PROVE DriverInv'
    <2>1. CASE HandlerAllocates(c)
      BY <2>1, QuietStep DEF HandlerAllocates, irqVars, devices
    <2> QED
      BY <1>10, <2>1, WalkSteps, PinStep, ConfirmStep, ReturnStep DEF IrqNext
  <1> QED
    BY <1>1, <1>9, <1>10 DEF DriverNext

\* The inductive invariant holds in every state of load, unload, rollback and
\* dispatch, for any number of records, hooks and processors.
THEOREM DriverInvariant == DriverSpec => []DriverInv
  <1>1. DriverInit => DriverInv
    BY DriverInvInit
  <1>2. DriverInv /\ [DriverNext]_driverVars => DriverInv'
    BY DriverInvStep
  <1> QED
    BY <1>1, <1>2, PTL DEF DriverSpec

\* A driver's code stays mapped while any processor is admitted to one of its
\* handlers, however the unload, the rollback of a failed load, timeouts and
\* dispatches on the other processors interleave.
THEOREM CodeOutlivesHandlers == DriverSpec => []NoFreedCodeRuns
  <1>1. DriverInv => NoFreedCodeRuns
    BY DEF DriverInv
  <1> QED
    BY <1>1, DriverInvariant, PTL

\* driver_exit and the revocations come only after the last handler has
\* returned, and in_flight is exactly the number of pins: it never wraps, also
\* when a pin of an earlier generation of the slot is given back.
THEOREM DrainIsExact == DriverSpec => []DrainExact
  <1>1. DriverInv => DrainExact
    BY DEF DriverInv, DrainExact
  <1> QED
    BY <1>1, DriverInvariant, PTL
=============================================================================
