------------------------- MODULE AddressSpaceProofs -------------------------
(***************************************************************************)
(* Proofs about the mutation gate of an address space, the leases it       *)
(* excludes and the frames a failed shootdown keeps out of use, for any    *)
(* number of processors, address spaces and frames.                        *)
(***************************************************************************)
EXTENDS AddressSpace, FiniteSetTheorems, TLAPS

\* Where code holds the gate of the address space it works on, where it is
\* counted in active_user_accesses, and where it needs an address space.
Holding  == {"drain", "mutate", "shoot", "target", "who", "what", "send", "wait", "complete"}
Counting == {"recheck", "access"}
Working  == {"count", "recheck", "access", "gate", "drain", "mutate"}
Labels   == {"idle", "switch", "record", "leave", "free"} \cup Working \cup Holding

Types ==
    /\ pt \in [Space -> Entry \cup {NoEntry}]
    /\ identity \in [Root -> Nat] /\ nextId \in Nat
    /\ gate \subseteq Space /\ frozen \subseteq Space
    /\ accesses \in [Space -> Nat]
    /\ pc \in [Cpu -> Labels] /\ on \in [Cpu -> Root]
    /\ ok \in [Cpu -> BOOLEAN]
    /\ waiting \in [Cpu -> SUBSET Cpu] /\ todo \in [Cpu -> SUBSET Cpu]
    /\ cached \in [Space -> SUBSET Cpu]

Located == \A c \in Cpu : pc[c] \in Working => on[c] \in Space

\* The gate is held by the processor between mutation_gate_enter and
\* complete_invalidation, and by no other.
Gated == \A c \in Cpu : pc[c] \in Holding /\ on[c] \in Space => on[c] \in gate

Exclusive ==
    \A c, d \in Cpu :
        /\ pc[c] \in Holding /\ pc[d] \in Holding
        /\ on[c] = on[d] /\ on[c] \in Space
        => c = d

\* A frozen address space is not being changed.
Apart == gate \cap frozen = {}

\* active_user_accesses counts the leases and the attempts at one.
Counted(s) == {c \in Cpu : pc[c] \in Counting /\ on[c] = s}
Exact == \A s \in Space : accesses[s] = Cardinality(Counted(s))

\* Past the drain of the gate there is no lease.
Excluded == \A c, d \in Cpu : pc[c] = "mutate" /\ pc[d] = "access" => on[c] # on[d]

\* A shootdown that is believed to have succeeded has all its acknowledgements.
Acked ==
    \A c \in Cpu :
        /\ pc[c] \in {"target", "who", "what", "send", "wait"} => ok[c]
        /\ pc[c] = "complete" /\ ok[c] => waiting[c] = {}
        /\ pc[c] = "free" => ok[c] /\ waiting[c] = {}

\* next_address_space_identity has not been given out.
Fresh == \A s \in Root : identity[s] < nextId

SpaceInv ==
    /\ Types /\ Located /\ Gated /\ Exclusive /\ Apart /\ Exact /\ Excluded
    /\ Acked /\ Fresh

-----------------------------------------------------------------------------
(* Steps of one processor that leave the shared words of the gate alone.   *)

\* Nothing of the other processors changes.
OthersStay(c) == \A d \in Cpu : d # c => /\ pc'[d] = pc[d] /\ on'[d] = on[d]
                                         /\ ok'[d] = ok[d] /\ waiting'[d] = waiting[d]
SharedStay == UNCHANGED <<identity, nextId, gate, frozen, accesses>>

\* A processor neither takes the gate, nor begins or ends to be counted, nor
\* comes to the two points that exclude each other.
LEMMA QuietStep ==
    ASSUME SpaceInv, NEW c \in Cpu, OthersStay(c), SharedStay,
           pc'[c] \notin Counting \cup {"mutate"}, pc[c] \notin Counting,
           pc'[c] \in Holding /\ on'[c] \in Space => pc[c] \in Holding /\ on'[c] = on[c]
    PROVE  Gated' /\ Exclusive' /\ Apart' /\ Exact' /\ Excluded' /\ Fresh'
  <1>1. Gated'
    BY DEF SpaceInv, Gated, OthersStay, SharedStay
  <1>2. Exclusive'
    BY DEF SpaceInv, Exclusive, OthersStay
  <1>3. Apart' /\ Fresh'
    BY DEF SpaceInv, Apart, Fresh, SharedStay
  <1>4. Exact'
    <2>1. ASSUME NEW s \in Space PROVE Counted(s)' = Counted(s)
      BY DEF Counted, OthersStay
    <2> QED
      BY <2>1 DEF SpaceInv, Exact, SharedStay
  <1>5. Excluded'
    BY DEF SpaceInv, Excluded, OthersStay, Counting
  <1> QED
    BY <1>1, <1>2, <1>3, <1>4, <1>5

\* The facts every step of a processor has to add to QuietStep.
OwnOK(c) ==
    /\ pc'[c] \in Working => on'[c] \in Space
    /\ pc'[c] \in {"target", "who", "what", "send", "wait"} => ok'[c]
    /\ pc'[c] = "complete" /\ ok'[c] => waiting'[c] = {}
    /\ pc'[c] = "free" => ok'[c] /\ waiting'[c] = {}

LEMMA OwnStep ==
    ASSUME SpaceInv, NEW c \in Cpu, OthersStay(c), OwnOK(c)
    PROVE  Located' /\ Acked'
  <1>1. ASSUME NEW d \in Cpu
        PROVE  pc'[d] \in Working => on'[d] \in Space
    BY <1>1 DEF SpaceInv, Located, OthersStay, OwnOK
  <1>2. ASSUME NEW d \in Cpu
        PROVE  /\ pc'[d] \in {"target", "who", "what", "send", "wait"} => ok'[d]
               /\ pc'[d] = "complete" /\ ok'[d] => waiting'[d] = {}
               /\ pc'[d] = "free" => ok'[d] /\ waiting'[d] = {}
    BY <1>2, Zenon DEF SpaceInv, Acked, OthersStay, OwnOK
  <1> QED
    BY <1>1, <1>2, Zenon DEF Located, Acked

LEMMA QuietInv ==
    ASSUME SpaceInv, NEW c \in Cpu, Types', OthersStay(c), SharedStay, OwnOK(c),
           pc'[c] \notin Counting \cup {"mutate"}, pc[c] \notin Counting,
           pc'[c] \in Holding /\ on'[c] \in Space => pc[c] \in Holding /\ on'[c] = on[c]
    PROVE  SpaceInv'
  BY QuietStep, OwnStep DEF SpaceInv

LEMMA CachedTypes ==
    ASSUME cached \in [Space -> SUBSET Cpu], NEW c \in Cpu, NEW s \in Space,
           cached' = [cached EXCEPT ![s] = @ \cup {c}]
    PROVE  cached' \in [Space -> SUBSET Cpu]
  <1>1. cached[s] \cup {c} \in SUBSET Cpu
    OBVIOUS
  <1> QED
    BY <1>1

\* The two ways in which the code of a processor moves on.
LEMMA GotoFacts ==
    ASSUME Types, NEW c \in Cpu, NEW l \in Labels, Goto(c, l)
    PROVE  /\ pc' \in [Cpu -> Labels] /\ pc'[c] = l
           /\ \A d \in Cpu : d # c => pc'[d] = pc[d]
  BY DEF Types, Goto

LEMMA ReturnFacts ==
    ASSUME Types, NEW c \in Cpu, Return(c)
    PROVE  /\ pc' \in [Cpu -> Labels] /\ on' \in [Cpu -> Root] /\ ok' \in [Cpu -> BOOLEAN]
           /\ waiting' \in [Cpu -> SUBSET Cpu] /\ todo' \in [Cpu -> SUBSET Cpu]
           /\ OthersStay(c) /\ OwnOK(c) /\ pc'[c] = "idle"
  <1>1. "idle" \in Labels /\ Kernel \in Root
    BY AddressSpaceAssumption DEF Labels, Root, Kernel
  <1>2. /\ pc' \in [Cpu -> Labels] /\ on' \in [Cpu -> Root]
        /\ waiting' \in [Cpu -> SUBSET Cpu] /\ todo' \in [Cpu -> SUBSET Cpu]
        /\ pc'[c] = "idle"
    BY <1>1 DEF Types, Return
  <1>3. ok' \in [Cpu -> BOOLEAN]
    BY Zenon DEF Types, Return
  <1>4. \A d \in Cpu : d # c => /\ pc'[d] = pc[d] /\ on'[d] = on[d]
                                /\ waiting'[d] = waiting[d]
    BY DEF Types, Return
  <1>5. \A d \in Cpu : d # c => ok'[d] = ok[d]
    BY Zenon DEF Types, Return
  <1>6. OthersStay(c)
    BY <1>4, <1>5, Zenon DEF OthersStay
  <1>7. OwnOK(c)
    BY <1>2 DEF OwnOK, Working
  <1> QED
    BY <1>2, <1>3, <1>6, <1>7

-----------------------------------------------------------------------------
(* The steps that QuietInv covers.                                         *)

\* The hardware and the handler change nothing of this.
LEMMA OutsideSteps ==
    ASSUME SpaceInv, NEW c \in Cpu, TlbFill(c) \/ Handler(c)
    PROVE  SpaceInv'
  <1>1. UNCHANGED <<pt, identity, nextId, gate, frozen, accesses, pc, on, ok, waiting,
                    todo, cached>>
    BY DEF TlbFill, Handler, HandlerRead, HandlerFlush, HandlerClear, spaceVars, opVars
  <1> QED
    BY <1>1 DEF SpaceInv, Types, Located, Gated, Exclusive, Apart, Exact, Counted,
                Excluded, Acked, Fresh

\* Steps that only move on.
LEMMA MoveSteps ==
    ASSUME SpaceInv, NEW c \in Cpu,
           \/ SwitchRoot(c) \/ TargetReady(c) \/ TargetsDone(c)
           \/ PublishWho(c) \/ PublishWhat(c) \/ AllAcked(c)
    PROVE  SpaceInv'
  <1>1. UNCHANGED <<pt, identity, nextId, gate, frozen, accesses, on, ok, waiting, todo, cached>>
    BY DEF SwitchRoot, TargetReady, TargetsDone, PublishWho, PublishWhat, AllAcked,
           spaceVars, opVars
  <1>2. \/ pc[c] = "switch" /\ Goto(c, "record")
        \/ pc[c] = "target" /\ (Goto(c, "who") \/ Goto(c, "wait"))
        \/ pc[c] = "who" /\ Goto(c, "what")
        \/ pc[c] = "what" /\ Goto(c, "send")
        \/ pc[c] = "wait" /\ waiting[c] = {} /\ Goto(c, "complete")
    BY DEF SwitchRoot, TargetReady, TargetsDone, PublishWho, PublishWhat, AllAcked, At
  <1>3. /\ pc' \in [Cpu -> Labels]
        /\ \A d \in Cpu : d # c => pc'[d] = pc[d]
        /\ \/ pc[c] = "switch" /\ pc'[c] = "record"
           \/ pc[c] = "target" /\ pc'[c] \in {"who", "wait"}
           \/ pc[c] = "who" /\ pc'[c] = "what"
           \/ pc[c] = "what" /\ pc'[c] = "send"
           \/ pc[c] = "wait" /\ waiting[c] = {} /\ pc'[c] = "complete"
    BY <1>2, GotoFacts DEF SpaceInv, Labels, Working, Holding
  <1>4. Types' /\ SharedStay
    BY <1>1, <1>3, Zenon DEF SpaceInv, Types, SharedStay
  <1>5. OthersStay(c)
    BY <1>1, <1>3, Zenon DEF OthersStay
  <1>6. OwnOK(c)
    <2>1. pc[c] \in {"target", "who", "what", "send", "wait"} => ok[c]
      BY Zenon DEF SpaceInv, Acked
    <2>2. pc[c] # "switch" => ok'[c]
      BY <1>1, <1>3, <2>1, Zenon
    <2>3. pc'[c] \notin Working /\ pc'[c] # "free"
      BY <1>3 DEF Working
    <2>4. pc'[c] = "complete" => waiting'[c] = {}
      BY <1>1, <1>3
    <2>5. pc'[c] \in {"target", "who", "what", "send", "wait"} => pc[c] # "switch"
      BY <1>3
    <2> QED
      BY <2>2, <2>3, <2>4, <2>5, Zenon DEF OwnOK
  <1>7. /\ pc'[c] \notin Counting \cup {"mutate"} /\ pc[c] \notin Counting
        /\ pc'[c] \in Holding => pc[c] \in Holding
        /\ on'[c] = on[c]
    BY <1>1, <1>3 DEF Counting, Holding
  <1> QED
    BY <1>4, <1>5, <1>6, <1>7, QuietInv

\* Steps that only return from a call that is not counted.
LEMMA ReturnSteps ==
    ASSUME SpaceInv, NEW c \in Cpu,
           \/ RecordLoaded(c) \/ LeaveRoot(c) \/ FreeFrame(c)
           \/ GateEnter(c) /\ on[c] \in frozen
    PROVE  SpaceInv'
  <1>1. /\ UNCHANGED <<pt, identity, nextId, gate, frozen, accesses, cached>>
        /\ Return(c) /\ pc[c] \in {"record", "leave", "free", "gate"}
    BY DEF RecordLoaded, LeaveRoot, FreeFrame, GateEnter, At, spaceVars
  <1>2. /\ pc' \in [Cpu -> Labels] /\ on' \in [Cpu -> Root] /\ ok' \in [Cpu -> BOOLEAN]
        /\ waiting' \in [Cpu -> SUBSET Cpu] /\ todo' \in [Cpu -> SUBSET Cpu]
        /\ OthersStay(c) /\ OwnOK(c) /\ pc'[c] = "idle"
    BY <1>1, ReturnFacts DEF SpaceInv
  <1>3. Types' /\ SharedStay
    BY <1>1, <1>2, Zenon DEF SpaceInv, Types, SharedStay
  <1>4. /\ pc'[c] \notin Counting \cup {"mutate"} /\ pc[c] \notin Counting
        /\ pc'[c] \notin Holding
    BY <1>1, <1>2 DEF Counting, Holding
  <1> QED
    BY <1>2, <1>3, <1>4, QuietInv

\* Steps that begin a call.
LEMMA BeginSteps ==
    ASSUME SpaceInv, NEW c \in Cpu,
           \/ Activate(c) \/ ActivateKernel(c) \/ AccessBegin(c) \/ Begin(c)
           \/ KernelShootdown(c)
    PROVE  SpaceInv'
  <1>0. /\ Kernel \in Root /\ Kernel \notin Space /\ Space \subseteq Root
        /\ {"switch", "leave", "count", "gate", "shoot"} \subseteq Labels
    BY AddressSpaceAssumption DEF Kernel, Root, Space, Labels, Working, Holding
  <1>1. UNCHANGED <<pt, identity, nextId, gate, frozen, accesses, ok, waiting>>
    BY Zenon DEF Activate, ActivateKernel, AccessBegin, Begin, KernelShootdown, spaceVars
  <1>2. PICK r \in Root, l \in {"switch", "leave", "count", "gate", "shoot"} :
           /\ on' = [on EXCEPT ![c] = r] /\ Goto(c, l)
           /\ l \in {"count", "gate"} => r \in Space
           /\ l = "shoot" => r = Kernel
    <2>1. CASE Activate(c)
      BY Zenon, <1>0, <2>1 DEF Activate
    <2>2. CASE ActivateKernel(c)
      BY Zenon, <1>0, <2>2 DEF ActivateKernel
    <2>3. CASE AccessBegin(c)
      BY Zenon, <1>0, <2>3 DEF AccessBegin
    <2>4. CASE Begin(c)
      BY Zenon, <1>0, <2>4 DEF Begin
    <2>5. CASE KernelShootdown(c)
      BY Zenon, <1>0, <2>5 DEF KernelShootdown
    <2> QED
      BY <2>1, <2>2, <2>3, <2>4, <2>5
  <1>3. pc[c] = "idle"
    BY Zenon DEF Activate, ActivateKernel, AccessBegin, Begin, KernelShootdown, At
  <1>4. /\ pc' \in [Cpu -> Labels] /\ pc'[c] = l
        /\ \A d \in Cpu : d # c => pc'[d] = pc[d]
    BY <1>0, <1>2, GotoFacts DEF SpaceInv
  <1>5. /\ on' \in [Cpu -> Root] /\ on'[c] = r
        /\ \A d \in Cpu : d # c => on'[d] = on[d]
    BY <1>2 DEF SpaceInv, Types
  <1>6. todo' \in [Cpu -> SUBSET Cpu] /\ cached' \in [Space -> SUBSET Cpu]
    <2>1. todo' = todo \/ todo' = [todo EXCEPT ![c] = Cpu]
      BY Zenon DEF Activate, ActivateKernel, AccessBegin, Begin, KernelShootdown
    <2>2. cached' = cached \/ \E s \in Space : cached' = [cached EXCEPT ![s] = @ \cup {c}]
      BY Zenon DEF Activate, ActivateKernel, AccessBegin, Begin, KernelShootdown, spaceVars
    <2>3. todo' \in [Cpu -> SUBSET Cpu]
      BY <2>1 DEF SpaceInv, Types
    <2>4. cached' \in [Space -> SUBSET Cpu]
      BY <2>2, CachedTypes DEF SpaceInv, Types
    <2> QED
      BY <2>3, <2>4
  <1>7. Types' /\ SharedStay
    BY <1>1, <1>4, <1>5, <1>6, Zenon DEF SpaceInv, Types, SharedStay
  <1>8. OthersStay(c)
    BY <1>1, <1>4, <1>5, Zenon DEF OthersStay
  <1>9. OwnOK(c)
    BY <1>2, <1>4, <1>5 DEF OwnOK, Working
  <1>10. /\ pc'[c] \notin Counting \cup {"mutate"} /\ pc[c] \notin Counting
         /\ pc'[c] \in Holding => on'[c] \notin Space
    BY <1>0, <1>2, <1>3, <1>4, <1>5 DEF Counting, Holding
  <1> QED
    BY <1>7, <1>8, <1>9, <1>10, QuietInv

\* Steps of the shootdown that change what it waits for or believes.
LEMMA ShootSteps ==
    ASSUME SpaceInv, NEW c \in Cpu,
           \/ Mutate(c) \/ ShootRefused(c) \/ ShootSelf(c) \/ PublishSend(c)
           \/ SendFailed(c) \/ AckSeen(c) \/ Deadline(c)
    PROVE  SpaceInv'
  <1>1. UNCHANGED <<identity, nextId, gate, frozen, accesses, on, cached>>
    BY DEF Mutate, ShootRefused, ShootSelf, PublishSend, SendFailed, AckSeen, Deadline,
           spaceVars
  <1>2. pt' \in [Space -> Entry \cup {NoEntry}]
    <2>1. CASE Mutate(c)
      BY Zenon, <2>1 DEF Mutate, SpaceInv, Types
    <2>2. CASE ~ Mutate(c)
      BY <2>2 DEF ShootRefused, ShootSelf, PublishSend, SendFailed, AckSeen, Deadline,
                  spaceVars, SpaceInv, Types
    <2> QED
      BY <2>1, <2>2
  <1>3. \/ pc[c] = "mutate" /\ Goto(c, "shoot") /\ UNCHANGED <<waiting, ok>>
        \/ /\ pc[c] \in {"shoot", "send", "target", "wait"} /\ Goto(c, "complete")
           /\ ok' = [ok EXCEPT ![c] = FALSE] /\ UNCHANGED waiting
        \/ /\ pc[c] = "shoot" /\ Goto(c, "target") /\ ok' = [ok EXCEPT ![c] = TRUE]
           /\ waiting' = [waiting EXCEPT ![c] = todo[c] \ {c}]
        \/ pc[c] = "send" /\ Goto(c, "target") /\ UNCHANGED <<waiting, ok>>
        \/ /\ pc[c] = "wait" /\ UNCHANGED <<pc, ok>>
           /\ \E d \in waiting[c] : waiting' = [waiting EXCEPT ![c] = @ \ {d}]
    BY DEF Mutate, ShootRefused, ShootSelf, PublishSend, SendFailed, AckSeen, Deadline, At
  <1>4. todo' \in [Cpu -> SUBSET Cpu]
    <2>1. CASE Mutate(c)
      <3>1. on[c] \in Space /\ todo' = [todo EXCEPT ![c] = cached[on[c]]]
        BY <2>1 DEF Mutate, At, Targets, SpaceInv, Located, Working
      <3>2. cached[on[c]] \in SUBSET Cpu
        BY <3>1 DEF SpaceInv, Types
      <3> QED
        BY <3>1, <3>2 DEF SpaceInv, Types
    <2>2. CASE ~ Mutate(c)
      <3>1. todo' = todo \/ \E d : todo' = [todo EXCEPT ![c] = @ \ {d}]
        BY Zenon, <2>2 DEF ShootRefused, ShootSelf, PublishSend, SendFailed, AckSeen, Deadline
      <3> QED
        BY <3>1 DEF SpaceInv, Types
    <2> QED
      BY <2>1, <2>2
  <1>5. /\ pc' \in [Cpu -> Labels] /\ \A d \in Cpu : d # c => pc'[d] = pc[d]
        /\ pc'[c] \in {"shoot", "complete", "target", "wait"} /\ pc[c] \in Holding
    BY <1>3, GotoFacts DEF SpaceInv, Types, Labels, Holding
  <1>6. /\ waiting' \in [Cpu -> SUBSET Cpu]
        /\ \A d \in Cpu : d # c => waiting'[d] = waiting[d]
    BY <1>3 DEF SpaceInv, Types
  <1>7. /\ ok' \in [Cpu -> BOOLEAN] /\ \A d \in Cpu : d # c => ok'[d] = ok[d]
    BY <1>3, Zenon DEF SpaceInv, Types
  <1>8. /\ pc'[c] \in {"target", "wait"} => ok'[c]
        /\ pc'[c] = "complete" => ~ ok'[c]
    <2>1. "target" # "complete" /\ "shoot" # "target" /\ "shoot" # "complete"
          /\ "wait" # "complete" /\ "shoot" # "wait" /\ "wait" # "target"
      OBVIOUS
    <2>2. pc[c] \in {"target", "who", "what", "send", "wait"} => ok[c]
      BY Zenon DEF SpaceInv, Acked
    <2>3. c \in DOMAIN ok /\ pc \in [Cpu -> Labels]
      BY Zenon DEF SpaceInv, Types
    <2>4. CASE pc[c] = "mutate" /\ Goto(c, "shoot") /\ UNCHANGED <<waiting, ok>>
      BY <2>1, <2>3, <2>4, Zenon DEF Goto
    <2>5. CASE /\ pc[c] \in {"shoot", "send", "target", "wait"} /\ Goto(c, "complete")
               /\ ok' = [ok EXCEPT ![c] = FALSE]
      BY <2>1, <2>3, <2>5, Zenon DEF Goto
    <2>6. CASE pc[c] = "shoot" /\ Goto(c, "target") /\ ok' = [ok EXCEPT ![c] = TRUE]
      BY <2>1, <2>3, <2>6, Zenon DEF Goto
    <2>7. CASE pc[c] = "send" /\ Goto(c, "target") /\ UNCHANGED <<waiting, ok>>
      BY <2>1, <2>2, <2>3, <2>7, Zenon DEF Goto
    <2>8. CASE pc[c] = "wait" /\ UNCHANGED <<pc, ok>>
      BY <2>1, <2>2, <2>8, Zenon
    <2> QED
      BY <1>3, <2>4, <2>5, <2>6, <2>7, <2>8, Zenon
  <1>9. Types' /\ SharedStay
    BY <1>1, <1>2, <1>4, <1>5, <1>6, <1>7, Zenon DEF SpaceInv, Types, SharedStay
  <1>10. OthersStay(c)
    BY <1>1, <1>5, <1>6, <1>7, Zenon DEF OthersStay
  <1>11. OwnOK(c)
    <2>1. /\ pc'[c] \notin Working /\ pc'[c] # "free"
          /\ pc'[c] \in {"target", "who", "what", "send", "wait"} => pc'[c] \in {"target", "wait"}
      BY <1>5 DEF Working
    <2> QED
      BY <1>8, <2>1, Zenon DEF OwnOK
  <1>12. pc'[c] \notin Counting \cup {"mutate"} /\ pc[c] \notin Counting
    BY <1>5 DEF Counting, Holding
  <1> QED
    BY <1>1, <1>5, <1>9, <1>10, <1>11, <1>12, QuietInv

-----------------------------------------------------------------------------
(* The gate.                                                               *)

\* Steps that change neither the counts nor who is counted.
LEMMA CountStays ==
    ASSUME SpaceInv, NEW c \in Cpu, OthersStay(c), accesses' = accesses,
           pc'[c] \notin Counting, pc[c] \notin Counting
    PROVE  Exact'
  <1>1. ASSUME NEW s \in Space PROVE Counted(s)' = Counted(s)
    BY DEF Counted, OthersStay
  <1> QED
    BY <1>1 DEF SpaceInv, Exact

\* mutation_gate_enter takes the gate.
LEMMA GateEnterStep ==
    ASSUME SpaceInv, NEW c \in Cpu, GateEnter(c), on[c] \notin frozen
    PROVE  SpaceInv'
  <1>1. /\ UNCHANGED <<pt, identity, nextId, frozen, accesses, on, ok, waiting, todo, cached>>
        /\ pc[c] = "gate" /\ Goto(c, "drain")
        /\ on[c] \notin gate /\ gate' = gate \cup {on[c]}
    BY DEF GateEnter, At, opVars
  <1>2. /\ pc' \in [Cpu -> Labels] /\ pc'[c] = "drain"
        /\ \A d \in Cpu : d # c => pc'[d] = pc[d]
    BY <1>1, GotoFacts DEF SpaceInv, Labels, Working
  <1>3. on[c] \in Space
    BY <1>1 DEF SpaceInv, Located, Working
  <1>4. gate' \subseteq Space
    BY <1>1, <1>3 DEF SpaceInv, Types
  <1>5. Types'
    BY <1>1, <1>2, <1>4, Zenon DEF SpaceInv, Types
  <1>6. OthersStay(c)
    BY <1>1, <1>2, Zenon DEF OthersStay
  <1>7. OwnOK(c)
    BY <1>1, <1>2, <1>3 DEF OwnOK
  <1>8. Gated'
    BY <1>1, <1>2 DEF SpaceInv, Gated, Holding
  <1>9. Exclusive'
    <2>1. ASSUME NEW d \in Cpu, d # c, pc[d] \in Holding PROVE on[d] # on[c]
      BY <1>1, <1>3, <2>1 DEF SpaceInv, Gated
    <2> QED
      BY <1>1, <1>2, <2>1 DEF SpaceInv, Exclusive
  <1>10. Apart' /\ Fresh'
    BY <1>1 DEF SpaceInv, Apart, Fresh
  <1>11. Exact'
    BY <1>1, <1>2, <1>6, CountStays DEF Counting
  <1>12. Excluded'
    BY <1>1, <1>2 DEF SpaceInv, Excluded
  <1> QED
    BY <1>5, <1>6, <1>7, <1>8, <1>9, <1>10, <1>11, <1>12, OwnStep DEF SpaceInv

\* It has waited for the accesses that came first.
LEMMA GateDrainStep ==
    ASSUME SpaceInv, NEW c \in Cpu, GateDrain(c)
    PROVE  SpaceInv'
  <1>1. /\ UNCHANGED <<pt, identity, nextId, gate, frozen, accesses, on, ok, waiting, todo, cached>>
        /\ pc[c] = "drain" /\ Goto(c, "mutate") /\ accesses[on[c]] = 0
    BY DEF GateDrain, At, opVars, spaceVars
  <1>2. /\ pc' \in [Cpu -> Labels] /\ pc'[c] = "mutate"
        /\ \A d \in Cpu : d # c => pc'[d] = pc[d]
    BY <1>1, GotoFacts DEF SpaceInv, Labels, Working
  <1>3. on[c] \in Space
    BY <1>1 DEF SpaceInv, Located, Working
  <1>4. Types'
    BY <1>1, <1>2, Zenon DEF SpaceInv, Types
  <1>5. OthersStay(c)
    BY <1>1, <1>2, Zenon DEF OthersStay
  <1>6. OwnOK(c)
    BY <1>1, <1>2, <1>3 DEF OwnOK
  <1>7. Gated' /\ Exclusive'
    BY <1>1, <1>2 DEF SpaceInv, Gated, Exclusive, Holding
  <1>8. Apart' /\ Fresh'
    BY <1>1 DEF SpaceInv, Apart, Fresh
  <1>9. Exact'
    BY <1>1, <1>2, <1>5, CountStays DEF Counting
  <1>10. Excluded'
    <2>1. IsFiniteSet(Counted(on[c])) /\ Cardinality(Counted(on[c])) = 0
      BY <1>1, <1>3, AddressSpaceAssumption, FS_Subset DEF SpaceInv, Exact, Counted
    <2>2. Counted(on[c]) = {}
      BY <2>1, FS_EmptySet
    <2>3. \A d \in Cpu : pc[d] = "access" => on[d] # on[c]
      BY <2>2 DEF Counted, Counting
    <2> QED
      BY <1>1, <1>2, <2>3 DEF SpaceInv, Excluded
  <1> QED
    BY <1>4, <1>5, <1>6, <1>7, <1>8, <1>9, <1>10, OwnStep DEF SpaceInv

\* The gate is released: the page table could not be changed, or
\* complete_invalidation.
LEMMA ReleaseStep ==
    ASSUME SpaceInv, NEW c \in Cpu, MutateFailed(c) \/ Complete(c)
    PROVE  SpaceInv'
  <1>1. /\ UNCHANGED <<pt, identity, nextId, accesses, cached>>
        /\ pc[c] \in {"mutate", "complete"} /\ gate' = gate \ {on[c]}
    BY DEF MutateFailed, Complete, At
  <1>2. frozen' = frozen \/ (on[c] \in Space /\ frozen' = frozen \cup {on[c]})
    BY DEF MutateFailed, Complete
  <1>3. \/ Return(c)
        \/ pc[c] = "complete" /\ ok[c] /\ Goto(c, "free") /\ UNCHANGED <<on, ok, waiting, todo>>
    BY Zenon DEF MutateFailed, Complete, At, opVars
  <1>4. /\ pc' \in [Cpu -> Labels] /\ on' \in [Cpu -> Root] /\ ok' \in [Cpu -> BOOLEAN]
        /\ waiting' \in [Cpu -> SUBSET Cpu] /\ todo' \in [Cpu -> SUBSET Cpu]
        /\ OthersStay(c) /\ OwnOK(c) /\ pc'[c] \in {"idle", "free"}
    <2>1. CASE Return(c)
      BY <2>1, ReturnFacts DEF SpaceInv
    <2>2. CASE /\ pc[c] = "complete" /\ ok[c] /\ Goto(c, "free")
               /\ UNCHANGED <<on, ok, waiting, todo>>
      <3>1. /\ pc' \in [Cpu -> Labels] /\ pc'[c] = "free"
            /\ \A d \in Cpu : d # c => pc'[d] = pc[d]
        BY <2>2, GotoFacts DEF SpaceInv, Labels
      <3>2. ok'[c] /\ waiting'[c] = {}
        BY <2>2, Zenon DEF SpaceInv, Acked
      <3>3. OwnOK(c)
        BY <3>1, <3>2 DEF OwnOK, Working
      <3>4. OthersStay(c)
        BY <2>2, <3>1, Zenon DEF OthersStay
      <3>5. /\ on' \in [Cpu -> Root] /\ ok' \in [Cpu -> BOOLEAN]
            /\ waiting' \in [Cpu -> SUBSET Cpu] /\ todo' \in [Cpu -> SUBSET Cpu]
        BY <2>2, Zenon DEF SpaceInv, Types
      <3> QED
        BY <3>1, <3>3, <3>4, <3>5, Zenon
    <2> QED
      BY <1>3, <2>1, <2>2, Zenon
  <1>5. gate' \subseteq Space /\ frozen' \subseteq Space
    BY <1>1, <1>2 DEF SpaceInv, Types
  <1>6. Types'
    BY <1>1, <1>4, <1>5, Zenon DEF SpaceInv, Types
  <1>7. pc'[c] \notin Holding \cup Counting \cup {"mutate"} /\ pc[c] \notin Counting
        /\ pc[c] \in Holding
    BY <1>1, <1>4 DEF Holding, Counting
  <1>8. Gated'
    <2>1. ASSUME NEW d \in Cpu, pc'[d] \in Holding, on'[d] \in Space
          PROVE  on'[d] \in gate'
      <3>1. d # c /\ pc'[d] = pc[d] /\ on'[d] = on[d]
        BY <1>4, <1>7, <2>1 DEF OthersStay
      <3>2. on[d] # on[c]
        BY <1>7, <2>1, <3>1 DEF SpaceInv, Exclusive
      <3> QED
        BY <1>1, <2>1, <3>1, <3>2 DEF SpaceInv, Gated
    <2> QED
      BY <2>1 DEF Gated
  <1>9. Exclusive'
    BY <1>4, <1>7 DEF SpaceInv, Exclusive, OthersStay
  <1>10. Apart' /\ Fresh'
    BY <1>1, <1>2 DEF SpaceInv, Apart, Fresh
  <1>11. Exact'
    BY <1>1, <1>4, <1>7, CountStays
  <1>12. Excluded'
    BY <1>4, <1>7 DEF SpaceInv, Excluded, OthersStay, Counting
  <1> QED
    BY <1>4, <1>6, <1>8, <1>9, <1>10, <1>11, <1>12, OwnStep DEF SpaceInv

-----------------------------------------------------------------------------
(* The leases.                                                             *)

\* What the steps of a lease leave alone: they take no gate.
LEMMA LeaseQuiet ==
    ASSUME SpaceInv, NEW c \in Cpu, OthersStay(c), UNCHANGED <<identity, nextId, gate, frozen>>,
           pc'[c] \notin Holding
    PROVE  Gated' /\ Exclusive' /\ Apart' /\ Fresh'
  BY DEF SpaceInv, Gated, Exclusive, Apart, Fresh, OthersStay

\* address_space_user_access_begin counts the access.
LEMMA AccessCountStep ==
    ASSUME SpaceInv, NEW c \in Cpu, AccessCount(c)
    PROVE  SpaceInv'
  <1>1. /\ UNCHANGED <<pt, identity, nextId, gate, frozen, on, ok, waiting, todo, cached>>
        /\ pc[c] = "count" /\ Goto(c, "recheck")
        /\ accesses' = [accesses EXCEPT ![on[c]] = @ + 1]
    BY DEF AccessCount, At, opVars
  <1>2. /\ pc' \in [Cpu -> Labels] /\ pc'[c] = "recheck"
        /\ \A d \in Cpu : d # c => pc'[d] = pc[d]
    BY <1>1, GotoFacts DEF SpaceInv, Labels, Working
  <1>3. on[c] \in Space
    BY <1>1 DEF SpaceInv, Located, Working
  <1>4. accesses' \in [Space -> Nat]
    BY <1>1, <1>3 DEF SpaceInv, Types
  <1>5. Types'
    BY <1>1, <1>2, <1>4, Zenon DEF SpaceInv, Types
  <1>6. OthersStay(c)
    BY <1>1, <1>2, Zenon DEF OthersStay
  <1>7. OwnOK(c)
    BY <1>1, <1>2, <1>3 DEF OwnOK
  <1>8. Gated' /\ Exclusive' /\ Apart' /\ Fresh'
    BY <1>1, <1>2, <1>6, LeaseQuiet DEF Holding
  <1>9. Exact'
    <2>1. ASSUME NEW s \in Space PROVE accesses'[s] = Cardinality(Counted(s)')
      <3>1. IsFiniteSet(Counted(s)) /\ accesses[s] = Cardinality(Counted(s))
        BY Zenon, AddressSpaceAssumption, FS_Subset DEF SpaceInv, Exact, Counted
      <3>2. CASE s = on[c]
        <4>1. Counted(s)' = Counted(s) \cup {c} /\ c \notin Counted(s)
          BY <1>1, <1>2, <3>2 DEF Counted, Counting
        <4>2. Cardinality(Counted(s)') = Cardinality(Counted(s)) + 1
          BY Zenon, <3>1, <4>1, FS_AddElement
        <4> QED
          BY <1>1, <3>1, <3>2, <4>2 DEF SpaceInv, Types
      <3>3. CASE s # on[c]
        <4>1. Counted(s)' = Counted(s)
          BY <1>1, <1>2, <3>3 DEF Counted, Counting
        <4> QED
          BY <1>1, <3>1, <3>3, <4>1 DEF SpaceInv, Types
      <3> QED
        BY <3>2, <3>3
    <2> QED
      BY <2>1 DEF Exact
  <1>10. Excluded'
    BY <1>1, <1>2 DEF SpaceInv, Excluded
  <1> QED
    BY <1>5, <1>6, <1>7, <1>8, <1>9, <1>10, OwnStep DEF SpaceInv

\* A lease ends, or an attempt at one backs out.
LEMMA UncountStep ==
    ASSUME SpaceInv, NEW c \in Cpu, pc[c] \in Counting, Return(c),
           accesses' = [accesses EXCEPT ![on[c]] = IF @ = 0 THEN 0 ELSE @ - 1],
           UNCHANGED <<pt, identity, nextId, gate, frozen, cached>>
    PROVE  SpaceInv'
  <1>1. /\ pc' \in [Cpu -> Labels] /\ on' \in [Cpu -> Root] /\ ok' \in [Cpu -> BOOLEAN]
        /\ waiting' \in [Cpu -> SUBSET Cpu] /\ todo' \in [Cpu -> SUBSET Cpu]
        /\ OthersStay(c) /\ OwnOK(c) /\ pc'[c] = "idle"
    BY ReturnFacts DEF SpaceInv
  <1>2. on[c] \in Space
    BY DEF SpaceInv, Located, Working, Counting
  <1>3. accesses' \in [Space -> Nat]
    BY <1>2 DEF SpaceInv, Types
  <1>4. Types'
    BY <1>1, <1>3, Zenon DEF SpaceInv, Types
  <1>5. Gated' /\ Exclusive' /\ Apart' /\ Fresh'
    BY <1>1, LeaseQuiet DEF Holding
  <1>6. Exact'
    <2>1. ASSUME NEW s \in Space PROVE accesses'[s] = Cardinality(Counted(s)')
      <3>1. IsFiniteSet(Counted(s)) /\ accesses[s] = Cardinality(Counted(s))
        BY AddressSpaceAssumption, FS_Subset DEF SpaceInv, Exact, Counted
      <3>2. CASE s = on[c]
        <4>1. Counted(s)' = Counted(s) \ {c} /\ c \in Counted(s)
          BY <1>1, <3>2 DEF Counted, Counting, OthersStay
        <4>2. Cardinality(Counted(s)') = Cardinality(Counted(s)) - 1
          BY Zenon, <3>1, <4>1, FS_RemoveElement
        <4>3. Counted(s) # {} /\ Cardinality(Counted(s)) \in Nat
          BY <3>1, <4>1, FS_CardinalityType
        <4>4. Cardinality(Counted(s)) # 0
          BY <3>1, <4>3, FS_EmptySet
        <4> QED
          BY <3>1, <3>2, <4>2, <4>3, <4>4 DEF SpaceInv, Types
      <3>3. CASE s # on[c]
        <4>1. Counted(s)' = Counted(s)
          BY <1>1, <3>3 DEF Counted, Counting, OthersStay
        <4> QED
          BY <3>1, <3>3, <4>1 DEF SpaceInv, Types
      <3> QED
        BY <3>2, <3>3
    <2> QED
      BY <2>1 DEF Exact
  <1>7. Excluded'
    BY <1>1 DEF SpaceInv, Excluded, OthersStay
  <1> QED
    BY <1>1, <1>4, <1>5, <1>6, <1>7, OwnStep DEF SpaceInv

\* The second look at the gate, and address_space_user_access_end.
LEMMA LeaseSteps ==
    ASSUME SpaceInv, NEW c \in Cpu, AccessRecheck(c) \/ AccessEnd(c)
    PROVE  SpaceInv'
  <1>1. CASE AccessEnd(c)
    BY Zenon, <1>1, UncountStep DEF AccessEnd, At, Counting
  <1>2. CASE AccessRecheck(c) /\ (on[c] \in gate \/ identity[on[c]] # loaded[c].id)
    <2>1. pc[c] = "recheck" /\ Return(c) /\ UNCHANGED <<pt, identity, nextId, gate, frozen, cached>>
          /\ accesses' = [accesses EXCEPT ![on[c]] = @ - 1]
      BY <1>2 DEF AccessRecheck, At
    <2>2. on[c] \in Space
      BY <2>1 DEF SpaceInv, Located, Working
    <2>3. accesses[on[c]] # 0
      <3>1. IsFiniteSet(Counted(on[c])) /\ accesses[on[c]] = Cardinality(Counted(on[c]))
        BY Zenon, <2>2, AddressSpaceAssumption, FS_Subset DEF SpaceInv, Exact, Counted
      <3>2. Counted(on[c]) # {}
        BY <2>1 DEF Counted, Counting
      <3> QED
        BY <3>1, <3>2, FS_EmptySet
    <2>4. accesses' = [accesses EXCEPT ![on[c]] = IF @ = 0 THEN 0 ELSE @ - 1]
      BY <2>1, <2>3
    <2> QED
      BY Zenon, <2>1, <2>4, UncountStep DEF Counting
  <1>3. CASE AccessRecheck(c) /\ ~ (on[c] \in gate \/ identity[on[c]] # loaded[c].id)
    <2>1. /\ UNCHANGED <<pt, identity, nextId, gate, frozen, accesses, on, ok, waiting, todo, cached>>
          /\ pc[c] = "recheck" /\ Goto(c, "access") /\ on[c] \notin gate
      BY <1>3 DEF AccessRecheck, At, opVars
    <2>2. /\ pc' \in [Cpu -> Labels] /\ pc'[c] = "access"
          /\ \A d \in Cpu : d # c => pc'[d] = pc[d]
      BY <2>1, GotoFacts DEF SpaceInv, Labels, Working
    <2>3. on[c] \in Space
      BY <2>1 DEF SpaceInv, Located, Working
    <2>4. Types'
      BY <2>1, <2>2, Zenon DEF SpaceInv, Types
    <2>5. OthersStay(c)
      BY <2>1, <2>2, Zenon DEF OthersStay
    <2>6. OwnOK(c)
      BY <2>1, <2>2, <2>3 DEF OwnOK
    <2>7. Gated' /\ Exclusive' /\ Apart' /\ Fresh'
      BY <2>1, <2>2, <2>5, LeaseQuiet DEF Holding
    <2>8. Exact'
      <3>1. ASSUME NEW s \in Space PROVE Counted(s)' = Counted(s)
        BY <2>1, <2>2 DEF Counted, Counting
      <3> QED
        BY <2>1, <3>1 DEF SpaceInv, Exact
    <2>9. Excluded'
      <3>1. \A d \in Cpu : pc[d] = "mutate" => on[d] # on[c]
        BY <2>1, <2>3 DEF SpaceInv, Gated, Holding
      <3> QED
        BY <2>1, <2>2, <3>1 DEF SpaceInv, Excluded
    <2> QED
      BY <2>4, <2>5, <2>6, <2>7, <2>8, <2>9, OwnStep DEF SpaceInv
  <1> QED
    BY <1>1, <1>2, <1>3

-----------------------------------------------------------------------------
\* process_clear gives the record to a new process.
LEMMA RecycleStep ==
    ASSUME SpaceInv, NEW s \in Space, Recycle(s)
    PROVE  SpaceInv'
  <1>1. /\ UNCHANGED <<pt, pc, on, ok, waiting, todo>>
        /\ \A c \in Cpu : on[c] # s
        /\ identity' = [identity EXCEPT ![s] = nextId] /\ nextId' = nextId + 1
        /\ gate' = gate \ {s} /\ frozen' = frozen \ {s}
        /\ accesses' = [accesses EXCEPT ![s] = 0]
        /\ cached' = [cached EXCEPT ![s] = {}]
    BY DEF Recycle, opVars
  <1>2. /\ pt' \in [Space -> Entry \cup {NoEntry}] /\ pc' \in [Cpu -> Labels]
        /\ on' \in [Cpu -> Root] /\ ok' \in [Cpu -> BOOLEAN]
        /\ waiting' \in [Cpu -> SUBSET Cpu] /\ todo' \in [Cpu -> SUBSET Cpu]
    BY <1>1, Zenon DEF SpaceInv, Types
  <1>3. /\ identity' \in [Root -> Nat] /\ nextId' \in Nat /\ gate' \subseteq Space
        /\ frozen' \subseteq Space /\ accesses' \in [Space -> Nat]
        /\ cached' \in [Space -> SUBSET Cpu]
    <2>1. identity' \in [Root -> Nat] /\ nextId' \in Nat
      <3>1. identity \in [Root -> Nat] /\ nextId \in Nat
        BY DEF SpaceInv, Types
      <3>2. nextId' \in Nat
        BY <1>1, <3>1
      <3>3. identity' \in [Root -> Nat]
        BY Zenon, <1>1, <3>1
      <3> QED
        BY <3>2, <3>3
    <2>2. gate' \subseteq Space /\ frozen' \subseteq Space
      BY <1>1 DEF SpaceInv, Types
    <2>3. accesses' \in [Space -> Nat]
      BY <1>1 DEF SpaceInv, Types
    <2>4. cached' \in [Space -> SUBSET Cpu]
      <3>1. {} \in SUBSET Cpu /\ cached \in [Space -> SUBSET Cpu]
        BY DEF SpaceInv, Types
      <3> QED
        BY <1>1, <3>1
    <2> QED
      BY <2>1, <2>2, <2>3, <2>4
  <1>4. Types'
    BY <1>2, <1>3 DEF Types
  <1>5. Located' /\ Exclusive' /\ Excluded' /\ Acked'
    BY <1>1, Zenon DEF SpaceInv, Located, Exclusive, Excluded, Acked
  <1>6. Gated' /\ Apart'
    BY <1>1 DEF SpaceInv, Gated, Apart
  <1>7. Fresh'
    BY <1>1 DEF SpaceInv, Fresh, Types
  <1>8. Exact'
    <2>1. ASSUME NEW r \in Space PROVE accesses'[r] = Cardinality(Counted(r)')
      <3>1. Counted(r)' = Counted(r)
        BY <1>1 DEF Counted
      <3>2. r = s => Counted(r) = {}
        BY <1>1 DEF Counted
      <3> QED
        BY Zenon, <1>1, <3>1, <3>2, FS_EmptySet DEF SpaceInv, Exact, Types
    <2> QED
      BY <2>1 DEF Exact
  <1> QED
    BY <1>4, <1>5, <1>6, <1>7, <1>8 DEF SpaceInv

LEMMA InitInv == Init => SpaceInv
  <1> SUFFICES ASSUME Init PROVE SpaceInv
    OBVIOUS
  <1>1. /\ pc = [c \in Cpu |-> "idle"] /\ on = [c \in Cpu |-> Kernel]
        /\ gate = {} /\ frozen = {} /\ accesses = [s \in Space |-> 0]
        /\ identity = [s \in Root |-> s] /\ nextId = Spaces + 1
    BY DEF Init
  <1>2. Types
    <2>1. /\ pt \in [Space -> Entry \cup {NoEntry}] /\ ok \in [Cpu -> BOOLEAN]
          /\ waiting \in [Cpu -> SUBSET Cpu] /\ todo \in [Cpu -> SUBSET Cpu]
          /\ cached \in [Space -> SUBSET Cpu]
      BY DEF Init
    <2>2. identity \in [Root -> Nat] /\ nextId \in Nat /\ accesses \in [Space -> Nat]
      BY <1>1, AddressSpaceAssumption DEF Root
    <2>3. pc \in [Cpu -> Labels] /\ on \in [Cpu -> Root]
      BY <1>1, AddressSpaceAssumption DEF Labels, Root, Kernel
    <2> QED
      BY <1>1, <2>1, <2>2, <2>3 DEF Types
  <1>3. Located /\ Gated /\ Exclusive /\ Apart /\ Excluded /\ Acked
    BY <1>1 DEF Located, Gated, Exclusive, Apart, Excluded, Acked, Working, Holding
  <1>4. Fresh
    BY <1>1, AddressSpaceAssumption DEF Fresh, Root
  <1>5. Exact
    <2>1. ASSUME NEW s \in Space PROVE Counted(s) = {}
      BY <1>1 DEF Counted, Counting
    <2> QED
      BY <1>1, <2>1, FS_EmptySet DEF Exact
  <1> QED
    BY <1>2, <1>3, <1>4, <1>5 DEF SpaceInv

LEMMA NextInv == SpaceInv /\ [Next]_vars => SpaceInv'
  <1> SUFFICES ASSUME SpaceInv, [Next]_vars PROVE SpaceInv'
    OBVIOUS
  <1>1. CASE UNCHANGED vars
    BY <1>1 DEF vars, spaceVars, opVars, SpaceInv, Types, Located, Gated, Exclusive, Apart,
                Exact, Counted, Excluded, Acked, Fresh
  <1>2. ASSUME NEW s \in Space, Recycle(s) PROVE SpaceInv'
    BY <1>2, RecycleStep
  <1>3. ASSUME NEW c \in Cpu, TlbFill(c) \/ Handler(c) PROVE SpaceInv'
    BY <1>3, OutsideSteps
  <1>4. ASSUME NEW c \in Cpu,
               \/ Activate(c) \/ ActivateKernel(c) \/ AccessBegin(c) \/ Begin(c)
               \/ KernelShootdown(c)
        PROVE  SpaceInv'
    BY <1>4, BeginSteps
  <1>5. ASSUME NEW c \in Cpu, ShootRefused(c) \/ SendFailed(c) \/ Deadline(c)
        PROVE  SpaceInv'
    BY <1>5, ShootSteps
  <1>6. ASSUME NEW c \in Cpu, Step(c) PROVE SpaceInv'
    BY <1>6, MoveSteps, ReturnSteps, ShootSteps, GateEnterStep, GateDrainStep, ReleaseStep,
       AccessCountStep, LeaseSteps DEF Step
  <1> QED
    BY <1>1, <1>2, <1>3, <1>4, <1>5, <1>6 DEF Next

\* Whoever changes a page table holds its gate, alone; leases and changes of an
\* address space exclude each other; active_user_accesses is the number of
\* leases and attempts; a shootdown reports success with every acknowledgement
\* in hand.
THEOREM GateInvariant == Spec => []SpaceInv
  BY InitInv, NextInv, PTL DEF Spec

\* Which steps write the page tables, the freezes and the free frames.
LEMMA Writers ==
    ASSUME SpaceInv, Next
    PROVE  /\ pt' = pt \/ \E c \in Cpu : Mutate(c)
           /\ free' \subseteq free \/ \E c \in Cpu : FreeFrame(c)
           /\ frozen \subseteq frozen' \/ \E s \in Space : Recycle(s)
  <1>1. CASE \E s \in Space : Recycle(s)
    BY Zenon, <1>1 DEF Recycle
  <1>2. ASSUME NEW c \in Cpu,
               \/ TlbFill(c) \/ Activate(c) \/ ActivateKernel(c) \/ AccessBegin(c) \/ Begin(c)
               \/ KernelShootdown(c) \/ ShootRefused(c) \/ SendFailed(c) \/ Deadline(c)
               \/ Handler(c) \/ SwitchRoot(c) \/ RecordLoaded(c) \/ LeaveRoot(c)
               \/ AccessCount(c) \/ AccessRecheck(c) \/ AccessEnd(c)
               \/ GateEnter(c) \/ GateDrain(c) \/ MutateFailed(c)
               \/ ShootSelf(c) \/ TargetReady(c) \/ TargetsDone(c)
               \/ PublishWho(c) \/ PublishWhat(c) \/ PublishSend(c)
               \/ AckSeen(c) \/ AllAcked(c)
        PROVE  UNCHANGED <<pt, free, frozen>>
    BY Zenon, <1>2 DEF TlbFill, Activate, ActivateKernel, AccessBegin, Begin, KernelShootdown,
        ShootRefused, SendFailed, Deadline, Handler, HandlerRead, HandlerFlush, HandlerClear,
        SwitchRoot, RecordLoaded, LeaveRoot, AccessCount, AccessRecheck, AccessEnd, GateEnter,
        GateDrain, MutateFailed, ShootSelf, TargetReady, TargetsDone, PublishWho, PublishWhat,
        PublishSend, AckSeen, AllAcked, spaceVars
  <1>3. ASSUME NEW c \in Cpu, Complete(c)
        PROVE  pt' = pt /\ free' = free /\ frozen \subseteq frozen'
    BY <1>3 DEF Complete
  <1>4. ASSUME NEW c \in Cpu, FreeFrame(c)
        PROVE  pt' = pt /\ frozen' = frozen
    BY <1>4 DEF FreeFrame
  <1>5. ASSUME NEW c \in Cpu, Mutate(c)
        PROVE  free' \subseteq free /\ frozen' = frozen
    BY <1>5 DEF Mutate
  <1> QED
    BY <1>1, <1>2, <1>3, <1>4, <1>5 DEF Next, Step

LEMMA LeaseStep ==
    ASSUME SpaceInv, Next, NEW c \in Cpu, pc[c] = "access"
    PROVE  pt'[on[c]] = pt[on[c]]
  <1>1. ASSUME NEW d \in Cpu, Mutate(d)
        PROVE  pt'[on[c]] = pt[on[c]]
    <2>1. pc[d] = "mutate"
      BY <1>1 DEF Mutate, At
    <2>2. on[c] # on[d] /\ on[c] \in Space
      BY <2>1 DEF SpaceInv, Excluded, Located, Working
    <2>3. PICK e \in Entry \cup {NoEntry} : pt' = [pt EXCEPT ![on[d]] = e]
      BY Zenon, <1>1 DEF Mutate
    <2> QED
      BY <2>2, <2>3 DEF SpaceInv, Types
  <1> QED
    BY <1>1, Writers

LEMMA FrozenStep ==
    ASSUME SpaceInv, Next, NEW s \in frozen
    PROVE  pt'[s] = pt[s] /\ (identity'[s] = identity[s] => s \in frozen')
  <1>0. s \in Space /\ s \in Root
    BY DEF SpaceInv, Types, Space, Root
  <1>1. ASSUME NEW d \in Cpu, Mutate(d)
        PROVE  pt'[s] = pt[s]
    <2>1. pc[d] = "mutate"
      BY <1>1 DEF Mutate, At
    <2>2. on[d] \in gate
      BY <2>1 DEF SpaceInv, Gated, Located, Working, Holding
    <2>3. s # on[d]
      BY <2>2 DEF SpaceInv, Apart
    <2>4. PICK e \in Entry \cup {NoEntry} : pt' = [pt EXCEPT ![on[d]] = e]
      BY Zenon, <1>1 DEF Mutate
    <2> QED
      BY <1>0, <2>3, <2>4 DEF SpaceInv, Types
  <1>2. ASSUME NEW r \in Space, Recycle(r)
        PROVE  identity'[s] = identity[s] => s \in frozen'
    <2>1. identity' = [identity EXCEPT ![r] = nextId] /\ frozen' = frozen \ {r}
      BY <1>2 DEF Recycle
    <2>2. identity[s] < nextId /\ identity[s] \in Nat /\ nextId \in Nat
      BY <1>0 DEF SpaceInv, Fresh, Types
    <2>3. s = r => identity'[s] = nextId
      BY <1>0, <2>1 DEF SpaceInv, Types
    <2> QED
      BY <2>1, <2>2, <2>3
  <1> QED
    BY <1>1, <1>2, Writers

LEMMA QuarantineStep ==
    ASSUME SpaceInv, Next, NEW f \in free' \ free
    PROVE  \E c \in Cpu : /\ pc[c] = "free" /\ ok[c] /\ waiting[c] = {}
                          /\ freeing[c].frame = f
  <1>1. PICK c \in Cpu : FreeFrame(c)
    BY Writers
  <1>2. pc[c] = "free" /\ free' = free \cup {freeing[c].frame}
    BY <1>1 DEF FreeFrame, At
  <1>3. ok[c] /\ waiting[c] = {}
    BY <1>2, Zenon DEF SpaceInv, Acked
  <1>4. freeing[c].frame = f
    BY <1>2
  <1> QED
    BY <1>2, <1>3, <1>4, Zenon

\* mutation_gate_enter, complete_invalidation and address_space_unmap_free_range
\* never change a translation under a lease, nor a frozen address space, and
\* bring back no frame whose removal was not acknowledged: MutationsExact, for
\* any number of processors, address spaces and frames.
THEOREM MutationsAreExact == Spec => MutationsExact
  <1>1. ASSUME SpaceInv, [Next]_vars
        PROVE  [\A c \in Cpu : pc[c] = "access" => pt'[on[c]] = pt[on[c]]]_vars
    BY <1>1, LeaseStep
  <1>2. ASSUME SpaceInv, [Next]_vars
        PROVE  [\A s \in frozen : pt'[s] = pt[s] /\ (identity'[s] = identity[s] => s \in frozen')]_vars
    BY <1>2, FrozenStep
  <1>3. ASSUME SpaceInv, [Next]_vars
        PROVE  [\A f \in free' \ free : \E c \in Cpu :
                  /\ pc[c] = "free" /\ ok[c] /\ waiting[c] = {}
                  /\ freeing[c].frame = f]_vars
    BY <1>3, QuarantineStep
  <1> QED
    BY <1>1, <1>2, <1>3, GateInvariant, PTL DEF Spec, MutationsExact, LeaseStable, FrozenStays,
       QuarantineKept
=============================================================================
