------------------------ MODULE SchedulerQueueProofs ------------------------
(***************************************************************************)
(* Proofs that the ready queue holds exactly the threads that wait for a   *)
(* processor and that affinity strands no work, for any number of          *)
(* processors, threads and processes.                                      *)
(***************************************************************************)
EXTENDS SchedulerProofs, FiniteSetTheorems, WellFoundedInduction

In(q, t) == \E i \in DOMAIN q : q[i] = t

Distinct(q) == \A i, j \in DOMAIN q : q[i] = q[j] => i = j

\* The threads that wait for a processor.
Ready(t) == /\ t \in live \cap resumable
            /\ sched[t] = "READY" /\ runCpu[t] = NoCpu

\* QueueExact, with the type of the queue.
QueueInv ==
    /\ queue \in Seq(Thread) /\ Distinct(queue)
    /\ \A t \in Thread : In(queue, t) <=> Ready(t)

LEMMA LeastNat ==
    ASSUME NEW S, S \subseteq Nat, S # {}
    PROVE  \E x \in S : \A y \in S : x <= y
  <1> DEFINE Less == OpToRel(<, Nat)
  <1>1. ASSUME NEW x \in Nat, NEW y \in Nat, y < x PROVE <<y, x>> \in Less
    BY <1>1 DEF OpToRel
  <1>2. IsWellFoundedOn(Less, Nat)
    BY Zenon, NatLessThanWellFounded
  <1> HIDE DEF Less
  <1>3. PICK x \in S : \A y \in S : ~ (<<y, x>> \in Less)
    BY Zenon, <1>2, WFMin
  <1>4. ASSUME NEW y \in S PROVE x <= y
    <2>1. x \in Nat /\ y \in Nat
      OBVIOUS
    <2>2. ~ (y < x)
      BY Zenon, <1>1, <1>3, <2>1
    <2> QED
      BY <2>1, <2>2
  <1> QED
    BY <1>4

-----------------------------------------------------------------------------
(* What compaction does to a queue.                                        *)

\* The places of the kept entries are 1..Cardinality(kept), each taken once.
LEMMA Places ==
    ASSUME NEW n \in Nat, NEW kept, kept \subseteq 1..n
    PROVE  /\ IsFiniteSet(kept) /\ Cardinality(kept) \in Nat
           /\ \A i \in kept : Place(kept, i) \in 1..Cardinality(kept)
           /\ \A i, j \in kept : Place(kept, i) = Place(kept, j) => i = j
           /\ \A k \in 1..Cardinality(kept) : \E i \in kept : Place(kept, i) = k
  <1>1. IsFiniteSet(1..n)
    BY FS_Interval
  <1>2. IsFiniteSet(kept) /\ Cardinality(kept) \in Nat
    BY Zenon, <1>1, FS_Subset, FS_CardinalityType
  <1> DEFINE Upto(i) == {j \in kept : j <= i}
  <1>3. ASSUME NEW i \in kept
        PROVE  /\ IsFiniteSet(Upto(i)) /\ Cardinality(Upto(i)) \in Nat
               /\ Cardinality(Upto(i)) <= Cardinality(kept)
               /\ Cardinality(Upto(i)) # 0
    <2>1. Upto(i) \in SUBSET kept /\ i \in Upto(i)
      BY <1>3
    <2>2. IsFiniteSet(Upto(i)) /\ Cardinality(Upto(i)) <= Cardinality(kept)
      BY <1>2, <2>1, FS_Subset
    <2>3. Cardinality(Upto(i)) \in Nat
      BY <2>2, FS_CardinalityType
    <2>4. Cardinality(Upto(i)) # 0
      BY <2>1, <2>2, FS_EmptySet
    <2> QED
      BY <2>2, <2>3, <2>4
  <1>4. ASSUME NEW i \in kept PROVE Place(kept, i) \in 1..Cardinality(kept)
    BY <1>2, <1>3, <1>4 DEF Place
  <1>5. ASSUME NEW i \in kept, NEW j \in kept, i < j
        PROVE  Place(kept, i) # Place(kept, j)
    <2>0. i \in Int /\ j \in Int /\ \A k \in kept : k \in Int
      OBVIOUS
    <2>1. Upto(i) \in SUBSET Upto(j) /\ j \in Upto(j) /\ j \notin Upto(i)
      <3>1. \A k \in kept : k <= i => k <= j
        BY <1>5, <2>0
      <3>2. j <= j /\ ~ (j <= i)
        BY <1>5, <2>0
      <3> QED
        BY Zenon, <3>1, <3>2
    <2>2. Cardinality(Upto(j)) = Cardinality(Upto(i)) => Upto(j) = Upto(i)
      BY <1>3, <2>1, FS_Subset
    <2> QED
      BY <2>1, <2>2 DEF Place
  <1>6. ASSUME NEW i \in kept, NEW j \in kept, Place(kept, i) = Place(kept, j)
        PROVE  i = j
    <2>1. i \in Int /\ j \in Int
      OBVIOUS
    <2>2. ~ (i < j) /\ ~ (j < i)
      BY <1>5, <1>6
    <2> QED
      BY <2>1, <2>2
  <1>7. ASSUME NEW k \in 1..Cardinality(kept)
        PROVE  \E i \in kept : Place(kept, i) = k
    <2> DEFINE f == [i \in kept |-> Place(kept, i)]
               T == (1..Cardinality(kept)) \ {k}
    <2>1. SUFFICES ASSUME \A i \in kept : Place(kept, i) # k PROVE FALSE
      OBVIOUS
    <2>2. f \in [kept -> T]
      BY <1>4, <2>1
    <2>3. /\ IsFiniteSet(1..Cardinality(kept))
          /\ Cardinality(1..Cardinality(kept)) = Cardinality(kept)
      BY <1>2, FS_Interval
    <2>4. IsFiniteSet(T) /\ Cardinality(T) = Cardinality(kept) - 1
      BY Zenon, <1>7, <2>3, FS_RemoveElement
    <2>5. Cardinality(T) < Cardinality(kept)
      BY <1>2, <2>4
    <2>6. PICK x, y \in kept : x # y /\ f[x] = f[y]
      <3> HIDE DEF f, T
      <3> QED BY Zenon, <1>2, <2>2, <2>4, <2>5, FS_PigeonHole
    <2>7. Place(kept, x) = Place(kept, y)
      BY <2>6
    <2> QED
      BY <1>6, <2>6, <2>7
  <1> QED
    BY <1>2, <1>4, <1>6, <1>7

\* scheduler_remove_unlocked drops the thread, and nothing else.
LEMMA DequeueFacts ==
    ASSUME NEW q \in Seq(Thread), Distinct(q), NEW ts
    PROVE  /\ Dequeue(q, ts) \in Seq(Thread) /\ Distinct(Dequeue(q, ts))
           /\ \A t \in Thread : In(Dequeue(q, ts), t) <=> In(q, t) /\ t \notin ts
  <1> DEFINE kept == {i \in DOMAIN q : q[i] \notin ts}
             at(k) == CHOOSE i \in kept : Place(kept, i) = k
             r == Dequeue(q, ts)
  <1>1. DOMAIN q = 1..Len(q) /\ Len(q) \in Nat /\ kept \subseteq 1..Len(q)
    OBVIOUS
  <1>2. r = [k \in 1..Cardinality(kept) |-> q[at(k)]]
    BY DEF Dequeue
  <1> HIDE DEF r
  <1>3. /\ Cardinality(kept) \in Nat
        /\ \A i \in kept : Place(kept, i) \in 1..Cardinality(kept)
        /\ \A i, j \in kept : Place(kept, i) = Place(kept, j) => i = j
        /\ \A k \in 1..Cardinality(kept) : \E i \in kept : Place(kept, i) = k
    <2> HIDE DEF kept
    <2> QED BY Zenon, <1>1, Places
  <1>4. \A i \in kept : i \in DOMAIN q /\ q[i] \notin ts /\ q[i] \in Thread
    OBVIOUS
  <1>5. \A i \in DOMAIN q : q[i] \notin ts => i \in kept
    OBVIOUS
  <1> HIDE DEF kept
  <1>6. ASSUME NEW k \in 1..Cardinality(kept)
        PROVE  at(k) \in kept /\ Place(kept, at(k)) = k
    BY <1>3
  <1> HIDE DEF at
  <1>7. r \in Seq(Thread) /\ DOMAIN r = 1..Cardinality(kept)
    <2>1. \A k \in 1..Cardinality(kept) : q[at(k)] \in Thread
      BY <1>4, <1>6
    <2>2. r \in [1..Cardinality(kept) -> Thread]
      BY <1>2, <2>1
    <2> QED
      BY <1>3, <2>2
  <1>8. Distinct(r)
    <2>1. ASSUME NEW k \in 1..Cardinality(kept), NEW l \in 1..Cardinality(kept), r[k] = r[l]
          PROVE  k = l
      <3>1. q[at(k)] = q[at(l)]
        BY <1>2, <2>1
      <3>2. at(k) = at(l)
        BY <1>4, <1>6, <3>1 DEF Distinct
      <3> QED
        BY <1>6, <3>2
    <2> QED
      BY <1>7, <2>1 DEF Distinct
  <1>9. ASSUME NEW t \in Thread, In(r, t) PROVE In(q, t) /\ t \notin ts
    <2>1. PICK k \in 1..Cardinality(kept) : r[k] = t
      BY <1>7, <1>9 DEF In
    <2>2. t = q[at(k)] /\ at(k) \in kept
      BY <1>2, <1>6, <2>1
    <2> QED
      BY <1>4, <2>2 DEF In
  <1>10. ASSUME NEW t \in Thread, In(q, t), t \notin ts PROVE In(r, t)
    <2>1. PICK i \in DOMAIN q : q[i] = t
      BY <1>10 DEF In
    <2>2. i \in kept
      BY <1>5, <1>10, <2>1
    <2>3. Place(kept, i) \in 1..Cardinality(kept) /\ at(Place(kept, i)) = i
      BY <1>3, <1>6, <2>2
    <2>4. r[Place(kept, i)] = t
      BY <1>2, <2>1, <2>3
    <2> QED
      BY <1>7, <2>3, <2>4 DEF In
  <1> QED
    BY <1>7, <1>8, <1>9, <1>10 DEF r

LEMMA AppendFacts ==
    ASSUME NEW q \in Seq(Thread), Distinct(q), NEW u \in Thread, ~ In(q, u)
    PROVE  /\ Append(q, u) \in Seq(Thread) /\ Distinct(Append(q, u))
           /\ \A t \in Thread : In(Append(q, u), t) <=> In(q, t) \/ t = u
  <1>1. /\ Len(q) \in Nat /\ DOMAIN q = 1..Len(q)
        /\ Append(q, u) \in Seq(Thread) /\ DOMAIN Append(q, u) = 1..(Len(q) + 1)
        /\ Append(q, u)[Len(q) + 1] = u
        /\ \A i \in 1..Len(q) : Append(q, u)[i] = q[i]
    OBVIOUS
  <1>2. \A i \in 1..Len(q) : q[i] # u
    BY <1>1 DEF In
  <1>3. \A i \in 1..(Len(q) + 1) : i \in 1..Len(q) \/ i = Len(q) + 1
    BY <1>1
  <1>4. Distinct(Append(q, u))
    BY <1>1, <1>2, <1>3 DEF Distinct
  <1>5. ASSUME NEW t \in Thread PROVE In(Append(q, u), t) <=> In(q, t) \/ t = u
    <2>1. 1..Len(q) \subseteq 1..(Len(q) + 1) /\ Len(q) + 1 \in 1..(Len(q) + 1)
      BY <1>1
    <2> QED
      BY <1>1, <1>3, <2>1 DEF In
  <1> QED
    BY <1>1, <1>4, <1>5

LEMMA Upwards ==
    ASSUME NEW n \in Nat
    PROVE  IsFiniteSet(1..n) /\ Cardinality(1..n) = n
  BY FS_Interval

\* The queue has room for a thread that is not in it (SCHED_QUEUE_SIZE).
LEMMA Room ==
    ASSUME NEW q \in Seq(Thread), Distinct(q), NEW u \in Thread, ~ In(q, u)
    PROVE  Len(q) < Cardinality(Thread)
  <1>1. Len(q) \in Nat /\ DOMAIN q = 1..Len(q) /\ q \in [1..Len(q) -> Thread \ {u}]
    <2>1. Len(q) \in Nat /\ DOMAIN q = 1..Len(q) /\ q \in [1..Len(q) -> Thread]
      OBVIOUS
    <2>2. \A i \in 1..Len(q) : q[i] \in Thread \ {u}
      BY <2>1 DEF In
    <2> QED
      BY <2>1, <2>2
  <1>2. /\ IsFiniteSet(1..Len(q)) /\ Cardinality(1..Len(q)) = Len(q)
    BY <1>1, Upwards
  <1>3. /\ IsFiniteSet(Thread \ {u}) /\ Cardinality(Thread) \in Nat
        /\ Cardinality(Thread \ {u}) = Cardinality(Thread) - 1
    BY ThreadsAssumption, FS_RemoveElement, FS_CardinalityType
  <1>4. SUFFICES ASSUME Cardinality(Thread \ {u}) < Cardinality(1..Len(q)) PROVE FALSE
    BY <1>1, <1>2, <1>3
  <1>5. PICK x, y \in 1..Len(q) : x # y /\ q[x] = q[y]
    BY <1>1, <1>2, <1>3, <1>4, FS_PigeonHole
  <1> QED
    BY <1>1, <1>5 DEF Distinct

-----------------------------------------------------------------------------
(* The three things a step does to the queue.                              *)

LEMMA QueueStays ==
    ASSUME QueueInv, queue' = queue, \A t \in Thread : Ready(t)' <=> Ready(t)
    PROVE  QueueInv'
  BY Zenon DEF QueueInv

LEMMA QueueDrops ==
    ASSUME QueueInv, NEW ts, queue' = Dequeue(queue, ts),
           \A t \in Thread : Ready(t)' <=> Ready(t) /\ t \notin ts
    PROVE  QueueInv'
  <1>1. /\ queue' \in Seq(Thread) /\ Distinct(queue')
        /\ \A t \in Thread : In(queue', t) <=> In(queue, t) /\ t \notin ts
    BY Zenon, DequeueFacts DEF QueueInv
  <1> QED
    BY Zenon, <1>1 DEF QueueInv

LEMMA QueueAdds ==
    ASSUME QueueInv, NEW u \in Thread, ~ Ready(u), queue' = Append(queue, u),
           \A t \in Thread : Ready(t)' <=> Ready(t) \/ t = u
    PROVE  QueueInv'
  <1>1. /\ queue' \in Seq(Thread) /\ Distinct(queue')
        /\ \A t \in Thread : In(queue', t) <=> In(queue, t) \/ t = u
    BY Zenon, AppendFacts DEF QueueInv
  <1> QED
    BY Zenon, <1>1 DEF QueueInv

\* scheduler_enqueue_unlocked accepts a live thread that no processor owns
\* unless it is queued already.
LEMMA Accepts ==
    ASSUME QueueInv, NEW run, NEW u \in Thread
    PROVE  EnqueueAllowed(queue, run, u)
             <=> u \in live /\ Owner[u] \in pLive /\ run[u] = NoCpu /\ ~ Ready(u)
  <1>1. In(queue, u) <=> Ready(u)
    BY DEF QueueInv
  <1>2. ~ In(queue, u) <=> \A i \in DOMAIN queue : queue[i] # u
    BY DEF In
  <1>3. ~ In(queue, u) => Len(queue) < Cardinality(Thread)
    BY Room DEF QueueInv
  <1> QED
    BY <1>1, <1>2, <1>3 DEF EnqueueAllowed

-----------------------------------------------------------------------------
(* The steps.                                                              *)

USE SchedulerAssumption
    DEF Goto, tVars, pVars, cpuVars, Terminal, SchedState, Label, OnStackPcs,
        Here, Carries, Stage, Settled, OwnerExact, NoLostWakeup,
        PendingWaits, StageExact, ReturnExact, TerminalDead

\* Steps that touch neither the queue nor what makes a thread ready.
LEMMA OtherSteps ==
    ASSUME TypeOK, IInv, QueueInv, NEW c \in CPU,
           \/ ExecuteClaimed(c) \/ ExecutionPush(c) \/ CompleteWait(c)
           \/ ReleaseOther(c) \/ Teardown(c) \/ Return(c) \/ ExecutionPop(c)
           \/ ReturnExited(c) \/ ReturnPaused(c) \/ ReturnTerminal(c)
           \/ ThreadExit(c) \/ ProcessExit(c) \/ Fault(c) \/ RejectedSyscall(c)
    PROVE  QueueInv'
  <1>1. UNCHANGED <<queue, live, resumable, sched, runCpu>>
    BY DEF ExecuteClaimed, ExecutionPush, CompleteWait, ReleaseOther, Teardown, Return,
       ExecutionPop, ReturnExited, ReturnPaused, ReturnTerminal, ThreadExit, ProcessExit,
       Fault, RejectedSyscall
  <1> QED
    BY <1>1, QueueStays DEF Ready

\* A live thread that is carried is not ready.
LEMMA CarriedNotReady ==
    ASSUME TypeOK, IInv, NEW c \in CPU,
           pc[c] \notin {"idle", "returned", "dismiss", "reaped", "continue"},
           caller[c] # "reap"
    PROVE  cur[c] \in Thread /\ (cur[c] \in live => runCpu[cur[c]] = c) /\ c # NoCpu
  BY DEF TypeOK, IInv

\* Saving and dropping a context does not change who waits for a processor.
LEMMA ContextSteps ==
    ASSUME TypeOK, IInv, QueueInv, NEW c \in CPU,
           \/ EnterUser(c) \/ Yield(c) \/ Sleep(c) \/ Preempt(c) \/ SaveWait(c)
    PROVE  QueueInv'
  <1>1. /\ UNCHANGED <<queue, live, sched, runCpu>>
        /\ \/ resumable' = resumable \ {cur[c]} \/ resumable' = resumable \cup {cur[c]}
           \/ resumable' = resumable
        /\ pc[c] \in {"marked", "user", "armed"}
    BY DEF EnterUser, Yield, Sleep, Preempt, SaveWait, Save, SavePaused, SyscallAccepted
  <1>2. cur[c] \in live => runCpu[cur[c]] # NoCpu
    BY <1>1 DEF TypeOK, IInv
  <1> QED
    BY <1>1, <1>2, QueueStays DEF Ready

LEMMA MarkRunningQueue ==
    ASSUME TypeOK, IInv, QueueInv, NEW c \in CPU, MarkRunning(c)
    PROVE  QueueInv'
  <1>1. UNCHANGED <<live, resumable>> /\ pc[c] = "woken"
    BY DEF MarkRunning
  <1>2. /\ cur[c] \in Thread /\ (cur[c] \in live => runCpu[cur[c]] = c)
        /\ sched \in [Thread -> SchedState] /\ runCpu \in [Thread -> CPU \cup {NoCpu}]
    BY <1>1 DEF TypeOK, IInv
  <1>3. CASE UNCHANGED queue
    <2>1. runCpu' = runCpu \/ runCpu' = [runCpu EXCEPT ![cur[c]] = c]
      BY DEF MarkRunning
    <2>2. sched' = sched \/ sched' = [sched EXCEPT ![cur[c]] = "RUNNING"]
      BY DEF MarkRunning
    <2>3. \A t \in Thread : Ready(t)' <=> Ready(t)
      BY <1>1, <1>2, <2>1, <2>2 DEF Ready
    <2> QED
      BY <1>3, <2>3, QueueStays
  <1>4. CASE queue' = Dequeue(queue, {cur[c]})
             /\ sched' = [sched EXCEPT ![cur[c]] = "RUNNING"]
             /\ runCpu' = [runCpu EXCEPT ![cur[c]] = c]
    <2>1. \A t \in Thread : Ready(t)' <=> Ready(t) /\ t \notin {cur[c]}
      BY <1>1, <1>2, <1>4 DEF Ready
    <2> QED
      BY <1>4, <2>1, QueueDrops
  <1> QED
    BY <1>3, <1>4 DEF MarkRunning

LEMMA YieldCurrentQueue ==
    ASSUME TypeOK, IInv, QueueInv, NEW c \in CPU, YieldCurrent(c)
    PROVE  QueueInv'
  <1>1. /\ UNCHANGED <<live, resumable, runCpu>> /\ pc[c] = "yielding"
        /\ sched' = [sched EXCEPT ![cur[c]] = "READY"]
    BY DEF YieldCurrent
  <1>2. /\ cur[c] \in Thread /\ (cur[c] \in live => runCpu[cur[c]] # NoCpu)
        /\ sched \in [Thread -> SchedState]
    BY <1>1 DEF TypeOK, IInv
  <1>3. queue' = Dequeue(queue, {cur[c]})
    BY <1>2 DEF YieldCurrent, EnqueueAllowed
  <1>4. \A t \in Thread : Ready(t)' <=> Ready(t) /\ t \notin {cur[c]}
    BY <1>1, <1>2 DEF Ready
  <1> QED
    BY <1>3, <1>4, QueueDrops

LEMMA WaitBeginQueue ==
    ASSUME TypeOK, IInv, QueueInv, NEW c \in CPU, SleepWait(c) \/ ArmWait(c)
    PROVE  QueueInv'
  <1>1. UNCHANGED <<live, resumable, runCpu>> /\ cur[c] \in Thread
    BY DEF SleepWait, ArmWait, SyscallAccepted, TypeOK
  <1>2. CASE UNCHANGED <<queue, sched>>
    BY <1>1, <1>2, QueueStays DEF Ready
  <1>3. CASE queue' = Dequeue(queue, {cur[c]}) /\ sched' = [sched EXCEPT ![cur[c]] = "WAITING"]
    <2>1. \A t \in Thread : Ready(t)' <=> Ready(t) /\ t \notin {cur[c]}
      BY <1>1, <1>3 DEF Ready, TypeOK
    <2> QED
      BY <1>3, <2>1, QueueDrops
  <1> QED
    BY <1>2, <1>3 DEF SleepWait, ArmWait, WaitBegin

LEMMA WaitCommitQueue ==
    ASSUME TypeOK, IInv, QueueInv, NEW c \in CPU, WaitCommit(c)
    PROVE  QueueInv'
  <1>1. UNCHANGED <<live, resumable, runCpu>> /\ pc[c] = "waitSaved"
    BY DEF WaitCommit
  <1>2. cur[c] \in live => runCpu[cur[c]] # NoCpu
    BY <1>1 DEF TypeOK, IInv
  <1>3. UNCHANGED <<queue, sched>>
    BY <1>2 DEF WaitCommit, EnqueueAllowed
  <1> QED
    BY <1>1, <1>3, QueueStays DEF Ready

LEMMA WaitSignalQueue ==
    ASSUME TypeOK, IInv, QueueInv, NEW u \in Thread, WaitSignal(u)
    PROVE  QueueInv'
  <1>1. /\ UNCHANGED <<live, resumable, runCpu>> /\ u \in live /\ Owner[u] \in pLive
        /\ sched' = [sched EXCEPT ![u] = "READY"] /\ sched[u] = "WAITING"
    BY DEF WaitSignal, TypeOK, IInv
  <1>2. ~ Ready(u)
    BY <1>1 DEF Ready
  <1>3. sched \in [Thread -> SchedState]
    BY DEF TypeOK
  <1>4. CASE u \in resumable /\ runCpu[u] = NoCpu
    <2>1. queue' = Append(queue, u)
      BY <1>1, <1>2, <1>4, Accepts DEF WaitSignal
    <2>2. \A t \in Thread : Ready(t)' <=> Ready(t) \/ t = u
      BY <1>1, <1>3, <1>4 DEF Ready
    <2> QED
      BY <1>2, <2>1, <2>2, QueueAdds
  <1>5. CASE ~ (u \in resumable /\ runCpu[u] = NoCpu)
    <2>1. queue' = queue
      BY <1>5 DEF WaitSignal, EnqueueAllowed
    <2>2. \A t \in Thread : Ready(t)' <=> Ready(t)
      BY <1>1, <1>3, <1>5 DEF Ready
    <2> QED
      BY <2>1, <2>2, QueueStays
  <1> QED
    BY <1>4, <1>5

\* A resumable thread outside any wait is in the queue already.
LEMMA NotifyQueuedIpcQueue ==
    ASSUME TypeOK, IInv, QueueInv, NEW p \in Process, NotifyQueuedIpc(p)
    PROVE  QueueInv'
  <1>1. PICK u \in Thread :
           /\ u \in live /\ u \in resumable /\ reason[u] = "NONE"
           /\ queue' = IF EnqueueAllowed(queue, runCpu, u) THEN Append(queue, u) ELSE queue
           /\ sched' = IF EnqueueAllowed(queue, runCpu, u)
                       THEN [sched EXCEPT ![u] = "READY"] ELSE sched
           /\ UNCHANGED <<live, resumable, runCpu>>
    BY Zenon DEF NotifyQueuedIpc
  <1>2. runCpu[u] = NoCpu => Ready(u)
    BY <1>1 DEF TypeOK, IInv, Ready
  <1>3. ~ EnqueueAllowed(queue, runCpu, u)
    BY <1>2, Accepts
  <1> QED
    BY <1>1, <1>3, QueueStays DEF Ready

LEMMA ExitSteps ==
    ASSUME TypeOK, IInv, QueueInv, NEW c \in CPU,
           ThreadMarkExited(c) \/ ProcessFinish(c)
    PROVE  QueueInv'
  <1>1. CASE ThreadMarkExited(c) /\ cur[c] \notin live
    BY <1>1, QueueStays DEF ThreadMarkExited, Ready
  <1>2. CASE ThreadMarkExited(c) /\ cur[c] \in live
    <2>1. /\ queue' = Dequeue(queue, {cur[c]}) /\ live' = live \ {cur[c]}
          /\ resumable' = resumable \ {cur[c]} /\ runCpu' = runCpu
          /\ sched' = [sched EXCEPT ![cur[c]] = "FINISHED"]
      BY <1>2 DEF ThreadMarkExited
    <2>2. \A t \in Thread : Ready(t)' <=> Ready(t) /\ t \notin {cur[c]}
      BY <2>1 DEF Ready, TypeOK
    <2> QED
      BY <2>1, <2>2, QueueDrops
  <1>3. CASE ProcessFinish(c)
    <2> DEFINE ts == {t \in Thread : Owner[t] = Owner[cur[c]]}
    <2>1. /\ queue' = Dequeue(queue, ts) /\ live' = live \ ts
          /\ resumable' = resumable \ ts /\ runCpu' = runCpu
          /\ sched' = [t \in Thread |-> IF t \in ts THEN "FINISHED" ELSE sched[t]]
      BY <1>3 DEF ProcessFinish
    <2> HIDE DEF ts
    <2>2. \A t \in Thread : Ready(t)' <=> Ready(t) /\ t \notin ts
      BY <2>1 DEF Ready, TypeOK
    <2> QED
      BY <2>1, <2>2, QueueDrops
  <1> QED
    BY <1>1, <1>2, <1>3

LEMMA MarkFinishedQueue ==
    ASSUME TypeOK, IInv, QueueInv, NEW c \in CPU, MarkFinished(c)
    PROVE  QueueInv'
  <1> DEFINE m == Main[Owner[cur[c]]]
  <1>1. /\ pc[c] = "reaped" /\ resumable' = resumable \ {cur[c]}
        /\ queue' = Dequeue(queue, {m}) /\ sched' = [sched EXCEPT ![m] = "FINISHED"]
        /\ UNCHANGED <<live, runCpu>>
    BY DEF MarkFinished
  <1>2. cur[c] \in Thread /\ cur[c] \notin live /\ m \in Thread
    BY <1>1 DEF TypeOK, IInv
  <1> HIDE DEF m
  <1>3. \A t \in Thread : Ready(t)' <=> Ready(t) /\ t \notin {m}
    BY <1>1, <1>2 DEF Ready, TypeOK
  <1> QED
    BY <1>1, <1>3, QueueDrops

\* The thread leaves its processor, and is queued if it is ready.
LEMMA KernelReturnQueue ==
    ASSUME TypeOK, IInv, QueueInv, NEW c \in CPU, LeaveCpu(c) \/ Dismiss(c)
    PROVE  QueueInv'
  <1>1. UNCHANGED <<live, resumable, sched>> /\ pc[c] \in {"popped", "dismiss"}
    BY DEF LeaveCpu, Dismiss
  <1>2. cur[c] \in Thread /\ runCpu \in [Thread -> CPU \cup {NoCpu}] /\ c # NoCpu
    BY <1>1 DEF TypeOK
  <1> DEFINE u == cur[c]
             run == IF runCpu[u] = c THEN [runCpu EXCEPT ![u] = NoCpu] ELSE runCpu
  <1>3. u \in live => runCpu[u] = c /\ Owner[u] \in pLive
    BY <1>1 DEF TypeOK, IInv
  <1>4. CASE UNCHANGED <<runCpu, queue>>
    BY <1>1, <1>4, QueueStays DEF Ready
  <1>5. CASE CompleteKernelReturn(c, u)
    <2>1. /\ runCpu' = run
          /\ queue' = IF u \in resumable /\ sched[u] = "READY" /\ EnqueueAllowed(queue, run, u)
                      THEN Append(queue, u) ELSE queue
      BY <1>5 DEF CompleteKernelReturn
    <2>2. CASE u \in live /\ u \in resumable /\ sched[u] = "READY"
      <3>1. run[u] = NoCpu /\ ~ Ready(u)
        BY <1>2, <1>3, <2>2 DEF Ready
      <3>2. EnqueueAllowed(queue, run, u)
        BY Zenon, <1>2, <1>3, <2>2, <3>1, Accepts
      <3>3. \A t \in Thread : Ready(t)' <=> Ready(t) \/ t = u
        BY <1>1, <1>2, <1>3, <2>1, <2>2 DEF Ready
      <3> QED
        BY <1>2, <2>1, <2>2, <3>1, <3>2, <3>3, QueueAdds
    <2>3. CASE ~ (u \in live /\ u \in resumable /\ sched[u] = "READY")
      <3>1. queue' = queue
        BY <2>1, <2>3 DEF EnqueueAllowed
      <3>2. \A t \in Thread : Ready(t)' <=> Ready(t)
        BY <1>1, <1>2, <2>1, <2>3 DEF Ready
      <3> QED
        BY <3>1, <3>2, QueueStays
    <2> QED
      BY <2>2, <2>3
  <1> QED
    BY <1>4, <1>5 DEF LeaveCpu, Dismiss

-----------------------------------------------------------------------------
(* Claim and resume.                                                       *)

LEMMA ClaimQueue ==
    ASSUME TypeOK, IInv, QueueInv, NEW c \in CPU, NEW excluded, NEW label,
           Claim(c, excluded, label)
    PROVE  QueueInv'
  <1>1. PICK u \in FindNext(c, excluded) :
          /\ queue'  = Dequeue(queue, {u})
          /\ sched'  = [sched EXCEPT ![u] = "RUNNING"]
          /\ runCpu' = [runCpu EXCEPT ![u] = c]
          /\ UNCHANGED <<resumable, live>>
    BY Zenon DEF Claim
  <1>2. u \in Thread
    BY FindNextSelectable DEF TypeOK
  <1>3. \A t \in Thread : Ready(t)' <=> Ready(t) /\ t \notin {u}
    BY <1>1, <1>2 DEF Ready, TypeOK
  <1> QED
    BY <1>1, <1>3, QueueDrops

LEMMA ClaimersQueue ==
    ASSUME TypeOK, IInv, QueueInv, NEW c \in CPU,
           IdleClaim(c) \/ NestedClaim(c) \/ ContinueReady(c)
    PROVE  QueueInv'
  <1>1. CASE UNCHANGED tVars
    BY <1>1, QueueStays DEF Ready
  <1>2. CASE \E excluded, label : Claim(c, excluded, label)
    BY <1>2, ClaimQueue
  <1> QED
    BY <1>1, <1>2 DEF IdleClaim, NestedClaim, ContinueReady

-----------------------------------------------------------------------------
(* The theorems.                                                           *)

\* At boot every thread is in the queue.
LEMMA InitQueue == Init => QueueInv
  <1> SUFFICES ASSUME Init PROVE QueueInv
    OBVIOUS
  <1> DEFINE n == Cardinality(Thread)
  <1>1. /\ queue \in [1..n -> Thread] /\ Distinct(queue)
    BY DEF Init, Distinct
  <1>2. n \in Nat /\ IsFiniteSet(Thread)
    BY ThreadsAssumption, FS_CardinalityType
  <1>3. IsFiniteSet(1..n) /\ Cardinality(1..n) = n
    BY <1>2, FS_Interval
  <1>4. queue \in Seq(Thread)
    BY <1>1, <1>2
  <1>5. queue \in Injection(1..n, Thread)
    BY <1>1 DEF Injection, IsInjective, Distinct
  <1>6. queue \in Surjection(1..n, Thread)
    BY <1>2, <1>3, <1>5, FS_Injection
  <1>7. \A t \in Thread : In(queue, t)
    BY <1>1, <1>6 DEF Surjection, In
  <1>8. \A t \in Thread : Ready(t)
    BY DEF Init, Ready
  <1> QED
    BY <1>1, <1>4, <1>7, <1>8 DEF QueueInv

LEMMA KernelStepQueue ==
    ASSUME TypeOK, IInv, QueueInv, NEW c \in CPU, KernelStep(c)
    PROVE  QueueInv'
  BY OtherSteps, MarkRunningQueue, ContextSteps, YieldCurrentQueue, WaitBeginQueue,
     WaitCommitQueue, ExitSteps, KernelReturnQueue, MarkFinishedQueue, ClaimersQueue
     DEF KernelStep

LEMMA NextQueue == TypeOK /\ IInv /\ QueueInv /\ [Next]_vars => QueueInv'
  <1> SUFFICES ASSUME TypeOK, IInv, QueueInv, [Next]_vars PROVE QueueInv'
    OBVIOUS
  <1>1. CASE UNCHANGED vars
    BY <1>1, QueueStays DEF vars, Ready
  <1>2. ASSUME NEW c \in CPU, UserStep(c) \/ Preempt(c) PROVE QueueInv'
    BY <1>2, OtherSteps, ContextSteps, WaitBeginQueue DEF UserStep
  <1>3. ASSUME NEW c \in CPU, IdleClaim(c) \/ NestedClaim(c) \/ KernelStep(c) PROVE QueueInv'
    BY <1>3, ClaimersQueue, KernelStepQueue
  <1>4. ASSUME NEW t \in Thread, Signal(t) \/ Tick(t) PROVE QueueInv'
    BY <1>4, WaitSignalQueue DEF Signal, Tick
  <1>5. ASSUME NEW t \in Thread, NEW mask \in Masks, SetAffinity(t, mask) PROVE QueueInv'
    BY <1>5, QueueStays DEF SetAffinity, Ready
  <1>6. ASSUME NEW p \in Process, NotifyQueuedIpc(p) PROVE QueueInv'
    BY <1>6, NotifyQueuedIpcQueue
  <1> QED
    BY <1>1, <1>2, <1>3, <1>4, <1>5, <1>6 DEF Next

LEMMA SchedulerQueueInv == Spec => []QueueInv
  BY InitQueue, NextQueue, SchedulerTypeOK, SchedulerInvariant, PTL DEF Spec

\* The ready queue names every thread at most once and names exactly the live
\* threads that wait for a processor, through every enqueue, removal, claim,
\* signal and exit (scheduler_enqueue_unlocked, scheduler_remove_unlocked).
THEOREM SchedulerQueueExact == Spec => []QueueExact
  <1>1. QueueInv => QueueExact
    BY DEF QueueInv, QueueExact, Queued, In, Distinct, Ready
  <1> QED
    BY <1>1, SchedulerQueueInv, PTL

\* find_next_ready_thread_unlocked finds a thread on each processor that the
\* affinity of some ready thread allows.
THEOREM SchedulerNoStrandedWork == Spec => []NoStrandedWork
  <1>1. ASSUME TypeOK, IInv, QueueInv PROVE NoStrandedWork
    <2>1. SUFFICES ASSUME NEW t \in live, NEW c \in CPU,
                          Owner[t] \in pLive, sched[t] = "READY", runCpu[t] = NoCpu,
                          c \in affinity[t]
                   PROVE  FindNext(c, {}) # {}
      BY DEF NoStrandedWork
    <2>2. t \in Thread /\ Selectable(c, t)
      BY <1>1, <2>1 DEF TypeOK, IInv, Selectable
    <2> DEFINE hits == {i \in DOMAIN queue : Selectable(c, queue[i]) /\ queue[i] \notin {}}
    <2>3. FindNext(c, {}) = IF hits # {}
                            THEN {queue[i] : i \in {i \in hits : \A j \in hits : i <= j}}
                            ELSE {u \in Thread \ {} : Selectable(c, u)}
      BY Zenon DEF FindNext
    <2>4. hits \subseteq Nat
      BY <1>1 DEF QueueInv
    <2> HIDE DEF hits
    <2>5. CASE hits = {}
      BY <2>2, <2>3, <2>5
    <2>6. CASE hits # {}
      <3>1. PICK x \in hits : \A y \in hits : x <= y
        BY Zenon, <2>4, <2>6, LeastNat
      <3>2. x \in {i \in hits : \A j \in hits : i <= j}
        BY <3>1
      <3>3. queue[x] \in {queue[i] : i \in {i \in hits : \A j \in hits : i <= j}}
        BY <3>2
      <3> QED
        BY <2>3, <2>6, <3>3
    <2> QED
      BY <2>5, <2>6
  <1> QED
    BY <1>1, SchedulerQueueInv, SchedulerTypeOK, SchedulerInvariant, PTL
=============================================================================
