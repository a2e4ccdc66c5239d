-------------------------- MODULE SchedulerProofs ---------------------------
(***************************************************************************)
(* Proofs that a thread is carried by one processor at a time and that no  *)
(* wakeup is lost, for any number of processors, threads and processes.    *)
(***************************************************************************)
EXTENDS SchedulerTypes

\* The thread c carries is the running thread of its process, or c is in
\* the kernel on its behalf.
Here(c) == Carries(c, cur[c])

\* What is known of a live thread at each point of the path.
Stage(c) ==
    LET t == cur[c] IN
    /\ pc[c] \in {"claimed", "resume", "pushed", "woken", "marked", "user"}
          => t \notin pending /\ sched[t] = "RUNNING"
    /\ pc[c] \in {"yielding", "sleeping"}
          => t \notin pending /\ t \in resumable /\ ret[c] = "PAUSED"
    /\ pc[c] = "exit" => t \notin pending
    /\ pc[c] = "armed"
          => /\ reason[t] # "NONE"
             /\ sched[t] = IF t \in pending THEN "WAITING" ELSE "READY"
    /\ pc[c] \in {"waitSaved", "return", "unwind", "popped"}
          => Settled(t) /\ ret[c] = "PAUSED"
    /\ pc[c] # "release"

\* A live thread has one processor, the one that carries it, or none.
OwnerExact ==
    /\ \A c \in CPU : Here(c) => runCpu[cur[c]] = c
    /\ \A t \in live : runCpu[t] # NoCpu => Carries(runCpu[t], t)

\* What the return path knows of a thread it ends.
ReturnExact ==
    \A c \in CPU :
        /\ caller[c] = "reap" => pc[c] \in {"finish", "release"} /\ cur[c] \notin live
        /\ pc[c] = "returned" /\ ret[c] = "NONE" => cur[c] \notin live
        /\ pc[c] \in {"reaped", "dismiss"} => cur[c] \notin live
        /\ pc[c] \in {"release", "reaped"} => Owner[cur[c]] \notin pLive

StageExact == \A c \in CPU : Here(c) /\ cur[c] \in live => Stage(c)

\* A terminal process state is written with process->active = 0.
TerminalDead == \A p \in Process : pState[p] \in Terminal => p \notin pLive

IInv ==
    /\ OwnerExact
    /\ NoLostWakeup
    /\ PendingWaits
    /\ StageExact
    /\ ReturnExact
    /\ TerminalDead

USE SchedulerAssumption
    DEF Goto, tVars, pVars, cpuVars, Terminal, SchedState, Label, OnStackPcs,
        Here, Carries, Stage, Settled, OwnerExact, NoLostWakeup,
        PendingWaits, StageExact, ReturnExact, TerminalDead

LEMMA ExecuteClaimedIInv ==
    ASSUME TypeOK, IInv, NEW c \in CPU, ExecuteClaimed(c)
    PROVE  IInv'
BY SMTT(30) DEF ExecuteClaimed, TypeOK, IInv

LEMMA ExecutionPushIInv ==
    ASSUME TypeOK, IInv, NEW c \in CPU, ExecutionPush(c)
    PROVE  IInv'
BY SMTT(30) DEF ExecutionPush, TypeOK, IInv

LEMMA CompleteWaitIInv ==
    ASSUME TypeOK, IInv, NEW c \in CPU, CompleteWait(c)
    PROVE  IInv'
BY SMTT(30) DEF CompleteWait, TypeOK, IInv

LEMMA MarkRunningIInv ==
    ASSUME TypeOK, IInv, NEW c \in CPU, MarkRunning(c)
    PROVE  IInv'
BY SMTT(30) DEF MarkRunning, TypeOK, IInv

LEMMA EnterUserIInv ==
    ASSUME TypeOK, IInv, NEW c \in CPU, EnterUser(c)
    PROVE  IInv'
BY SMTT(30) DEF EnterUser, TypeOK, IInv

-----------------------------------------------------------------------------
(* Pauses and waits.                                                        *)

LEMMA YieldIInv == ASSUME TypeOK, IInv, NEW c \in CPU, Yield(c) PROVE IInv'
BY SMTT(30) DEF Yield, Save, SavePaused, SyscallAccepted, TypeOK, IInv

LEMMA PreemptIInv ==
    ASSUME TypeOK, IInv, NEW c \in CPU, Preempt(c)
    PROVE  IInv'
BY SMTT(30) DEF Preempt, Save, SavePaused, TypeOK, IInv

LEMMA SleepIInv == ASSUME TypeOK, IInv, NEW c \in CPU, Sleep(c) PROVE IInv'
BY SMTT(30) DEF Sleep, Save, SavePaused, SyscallAccepted, TypeOK, IInv

LEMMA YieldCurrentIInv ==
    ASSUME TypeOK, IInv, NEW c \in CPU, YieldCurrent(c)
    PROVE  IInv'
BY SMTT(30) DEF YieldCurrent, EnqueueAllowed, TypeOK, IInv

LEMMA SleepWaitIInv ==
    ASSUME TypeOK, IInv, NEW c \in CPU, SleepWait(c)
    PROVE  IInv'
<1>0. /\ pc[c] = "sleeping"
      /\ UNCHANGED <<runCpu, resumable, live, freed, affinity, pVars, cur,
                     ret, todo, caller, final>>
  BY DEF SleepWait
<1>1. CASE WaitBegin(c, "TIMER") /\ Goto(c, "return")
  BY SMTT(30), <1>0, <1>1 DEF WaitBegin, WaitAllowed, TypeOK, IInv
<1>2. CASE Goto(c, "yielding") /\ UNCHANGED <<pending, reason, sched>>
  BY SMTT(30), <1>0, <1>2 DEF TypeOK, IInv
<1> QED BY <1>1, <1>2 DEF SleepWait

LEMMA ArmWaitIInv ==
    ASSUME TypeOK, IInv, NEW c \in CPU, ArmWait(c)
    PROVE  IInv'
BY SMTT(30) DEF ArmWait, WaitBegin, WaitAllowed, SyscallAccepted, TypeOK,
   IInv

LEMMA SaveWaitIInv ==
    ASSUME TypeOK, IInv, NEW c \in CPU, SaveWait(c)
    PROVE  IInv'
BY SMTT(30) DEF SaveWait, Save, SavePaused, TypeOK, IInv

LEMMA WaitCommitIInv ==
    ASSUME TypeOK, IInv, NEW c \in CPU, WaitCommit(c)
    PROVE  IInv'
<1>0. /\ pc[c] = "waitSaved" /\ Goto(c, "return")
      /\ UNCHANGED <<runCpu, resumable, pending, reason, live, freed, affinity,
                     pVars, cur, ret, todo, caller, final>>
  BY DEF WaitCommit
<1>1. CASE cur[c] \notin pending /\ EnqueueAllowed(queue, runCpu, cur[c])
  <2>1. queue' = Append(queue, cur[c]) /\ sched' = [sched EXCEPT ![cur[c]] = "READY"]
    BY <1>1 DEF WaitCommit
  <2> QED
    BY SMTT(60), <1>0, <1>1, <2>1 DEF EnqueueAllowed, TypeOK, IInv
<1>2. CASE ~ (cur[c] \notin pending /\ EnqueueAllowed(queue, runCpu, cur[c]))
  <2>1. UNCHANGED <<queue, sched>>
    BY <1>2 DEF WaitCommit
  <2> QED
    BY SMTT(60), <1>0, <2>1 DEF TypeOK, IInv
<1> QED
  BY <1>1, <1>2

LEMMA WaitSignalIInv ==
    ASSUME TypeOK, IInv, NEW t \in Thread, WaitSignal(t)
    PROVE  IInv'
BY DEF WaitSignal, TypeOK, IInv

LEMMA NotifyQueuedIpcIInv ==
    ASSUME TypeOK, IInv, NEW p \in Process, NotifyQueuedIpc(p)
    PROVE  IInv'
BY DEF NotifyQueuedIpc, EnqueueAllowed, TypeOK, IInv

LEMMA SetAffinityIInv ==
    ASSUME TypeOK, IInv, NEW t \in Thread, NEW mask \in Masks,
           SetAffinity(t, mask)
    PROVE  IInv'
BY DEF SetAffinity, TypeOK, IInv

-----------------------------------------------------------------------------
(* Exits.                                                                   *)

LEMMA ThreadExitIInv ==
    ASSUME TypeOK, IInv, NEW c \in CPU, ThreadExit(c)
    PROVE  IInv'
BY SMTT(30) DEF ThreadExit, SyscallAccepted, TypeOK, IInv

LEMMA ProcessExitIInv ==
    ASSUME TypeOK, IInv, NEW c \in CPU, ProcessExit(c)
    PROVE  IInv'
BY SMTT(30) DEF ProcessExit, SyscallAccepted, CallFinish, TypeOK, IInv

LEMMA FaultIInv == ASSUME TypeOK, IInv, NEW c \in CPU, Fault(c) PROVE IInv'
BY SMTT(30) DEF Fault, CallFinish, TypeOK, IInv

LEMMA RejectedSyscallIInv ==
    ASSUME TypeOK, IInv, NEW c \in CPU, RejectedSyscall(c)
    PROVE  IInv'
BY SMTT(30) DEF RejectedSyscall, CallFinish, TypeOK, IInv

LEMMA ThreadMarkExitedIInv ==
    ASSUME TypeOK, IInv, NEW c \in CPU, ThreadMarkExited(c)
    PROVE  IInv'
BY SMTT(30) DEF ThreadMarkExited, CallFinish, TypeOK, IInv

LEMMA ProcessFinishIInv ==
    ASSUME TypeOK, IInv, NEW c \in CPU, ProcessFinish(c)
    PROVE  IInv'
BY SMTT(30) DEF ProcessFinish, TypeOK, IInv

LEMMA ReleaseOtherIInv ==
    ASSUME TypeOK, IInv, NEW c \in CPU, ReleaseOther(c)
    PROVE  IInv'
BY SMTT(30) DEF ReleaseOther, Released, TypeOK, IInv

LEMMA TeardownIInv ==
    ASSUME TypeOK, IInv, NEW c \in CPU, Teardown(c)
    PROVE  IInv'
BY SMTT(30) DEF Teardown, TypeOK, IInv

-----------------------------------------------------------------------------
(* The return path.                                                         *)

LEMMA ReturnIInv == ASSUME TypeOK, IInv, NEW c \in CPU, Return(c) PROVE IInv'
BY SMTT(30) DEF Return, TypeOK, IInv

LEMMA ExecutionPopIInv ==
    ASSUME TypeOK, IInv, NEW c \in CPU, ExecutionPop(c)
    PROVE  IInv'
BY SMTT(30) DEF ExecutionPop, TypeOK, IInv

LEMMA LeaveCpuIInv ==
    ASSUME TypeOK, IInv, NEW c \in CPU, LeaveCpu(c)
    PROVE  IInv'
BY SMTT(30) DEF LeaveCpu, CompleteKernelReturn, TypeOK, IInv

LEMMA ReturnExitedIInv ==
    ASSUME TypeOK, IInv, NEW c \in CPU, ReturnExited(c)
    PROVE  IInv'
BY SMTT(30) DEF ReturnExited, ExitedAlone, Released, TypeOK, IInv

LEMMA ReturnPausedIInv ==
    ASSUME TypeOK, IInv, NEW c \in CPU, ReturnPaused(c)
    PROVE  IInv'
BY SMTT(30) DEF ReturnPaused, ExitedAlone, TypeOK, IInv

LEMMA ReturnTerminalIInv ==
    ASSUME TypeOK, IInv, NEW c \in CPU, ReturnTerminal(c)
    PROVE  IInv'
BY SMTT(30) DEF ReturnTerminal, ExitedAlone, Released, CallFinish, TypeOK,
   IInv

LEMMA MarkFinishedIInv ==
    ASSUME TypeOK, IInv, NEW c \in CPU, MarkFinished(c)
    PROVE  IInv'
BY SMTT(30) DEF MarkFinished, TypeOK, IInv

LEMMA DismissIInv ==
    ASSUME TypeOK, IInv, NEW c \in CPU, Dismiss(c)
    PROVE  IInv'
BY SMTT(30) DEF Dismiss, CompleteKernelReturn, TypeOK, IInv

-----------------------------------------------------------------------------
(* Claim and resume.                                                       *)

LEMMA ClaimIInv ==
    ASSUME TypeOK, IInv, NEW c \in CPU, NEW excluded,
           NEW label \in {"claimed", "resume"},
           pc[c] \in {"idle", "continue"}, Claim(c, excluded, label)
    PROVE  IInv'
<1>1. PICK t \in FindNext(c, excluded) :
        /\ sched'  = [sched EXCEPT ![t] = "RUNNING"]
        /\ runCpu' = [runCpu EXCEPT ![t] = c]
        /\ cur'    = [cur EXCEPT ![c] = t]
        /\ pc'     = [pc EXCEPT ![c] = label]
        /\ UNCHANGED <<resumable, pending, reason, live, freed, affinity,
                       pVars, ret, todo, caller, final>>
  BY Zenon, ClaimSteps
<1>2. t \in Thread /\ Selectable(c, t)
  BY FindNextSelectable DEF TypeOK
<1>3. t \in live /\ sched[t] = "READY" /\ runCpu[t] = NoCpu
  BY <1>2 DEF Selectable
<1> QED BY SMTT(30), <1>1, <1>2, <1>3 DEF TypeOK, IInv

LEMMA IdleClaimIInv ==
    ASSUME TypeOK, IInv, NEW c \in CPU, IdleClaim(c)
    PROVE  IInv'
BY ClaimIInv DEF IdleClaim

LEMMA NestedClaimIInv ==
    ASSUME TypeOK, IInv, NEW c \in CPU, NestedClaim(c)
    PROVE  IInv'
BY ClaimIInv DEF NestedClaim

LEMMA ContinueReadyIInv ==
    ASSUME TypeOK, IInv, NEW c \in CPU, ContinueReady(c)
    PROVE  IInv'
<1>1. CASE Claim(c, {cur[c]}, "resume")
  BY <1>1, ClaimIInv DEF ContinueReady
<1>2. CASE /\ pc[c] = "continue"
           /\ pc'  = [pc EXCEPT ![c] = "idle"]
           /\ cur' = [cur EXCEPT ![c] = NoThread]
           /\ UNCHANGED <<tVars, affinity, pVars, ret, todo, caller, final>>
  BY <1>2 DEF TypeOK, IInv
<1> QED BY <1>1, <1>2 DEF ContinueReady

-----------------------------------------------------------------------------
(* The theorems.                                                           *)

LEMMA InitIInv == Init => IInv
BY DEF Init, IInv

LEMMA KernelStepIInv ==
    ASSUME TypeOK, IInv, NEW c \in CPU, KernelStep(c)
    PROVE  IInv'
BY ExecuteClaimedIInv, ExecutionPushIInv, CompleteWaitIInv, MarkRunningIInv,
   EnterUserIInv, YieldCurrentIInv, SleepWaitIInv, SaveWaitIInv,
   WaitCommitIInv, ThreadMarkExitedIInv, ProcessFinishIInv,
   ReleaseOtherIInv, TeardownIInv, ReturnIInv, ExecutionPopIInv,
   LeaveCpuIInv, ReturnExitedIInv, ReturnPausedIInv, ReturnTerminalIInv,
   MarkFinishedIInv, DismissIInv, ContinueReadyIInv DEF KernelStep

LEMMA UserStepIInv ==
    ASSUME TypeOK, IInv, NEW c \in CPU, UserStep(c)
    PROVE  IInv'
BY YieldIInv, SleepIInv, ArmWaitIInv, ThreadExitIInv, ProcessExitIInv,
   FaultIInv, RejectedSyscallIInv DEF UserStep

LEMMA NextIInv == TypeOK /\ IInv /\ [Next]_vars => IInv'
<1> SUFFICES ASSUME TypeOK, IInv, [Next]_vars PROVE IInv'
  OBVIOUS
<1>1. CASE UNCHANGED vars
  BY <1>1 DEF vars, IInv
<1>2. CASE \E c \in CPU : \/ IdleClaim(c) \/ NestedClaim(c) \/ KernelStep(c)
                          \/ UserStep(c) \/ Preempt(c)
  BY <1>2, IdleClaimIInv, NestedClaimIInv, KernelStepIInv, UserStepIInv,
     PreemptIInv
<1>3. CASE \E t \in Thread : Signal(t) \/ Tick(t)
  BY <1>3, WaitSignalIInv DEF Signal, Tick
<1>4. CASE \E t \in Thread : \E mask \in Masks : SetAffinity(t, mask)
  BY <1>4, SetAffinityIInv
<1>5. CASE \E p \in Process : NotifyQueuedIpc(p)
  BY <1>5, NotifyQueuedIpcIInv
<1> QED BY <1>1, <1>2, <1>3, <1>4, <1>5 DEF Next

\* The inductive invariant of the scheduler.
THEOREM SchedulerInvariant == Spec => []IInv
BY InitIInv, NextIInv, SchedulerTypeOK, PTL DEF Spec

\* No two processors ever carry the same thread: running_cpu of the thread a
\* processor carries names that processor (scheduler_claim_ready_thread to
\* scheduler_complete_kernel_return).
THEOREM SchedulerSingleRunner == Spec => []SingleRunner
<1>1. IInv => SingleRunner BY DEF IInv, SingleRunner
<1> QED BY <1>1, SchedulerInvariant, PTL

\* No wakeup is lost between arming a wait and leaving the processor
\* (save_wait_context64, thread_wait_signal_unlocked,
\* scheduler_complete_kernel_return).
THEOREM SchedulerNoLostWakeup == Spec => []NoLostWakeup
<1>1. IInv => NoLostWakeup BY DEF IInv
<1> QED BY <1>1, SchedulerInvariant, PTL

\* A pending wait always belongs to a live thread in state WAITING, also when
\* its process exits on another processor while the wait is being armed.
THEOREM SchedulerPendingWaits == Spec => []PendingWaits
<1>1. IInv => PendingWaits BY DEF IInv
<1> QED BY <1>1, SchedulerInvariant, PTL
=============================================================================
