--------------------------- MODULE SchedulerTypes ---------------------------
(***************************************************************************)
(* Type correctness of the scheduler: TypeOK is inductive by itself.  The  *)
(* lemmas go through the actions in the order of Scheduler.tla.            *)
(***************************************************************************)
EXTENDS Scheduler, TLAPS

USE SchedulerAssumption
    DEF Goto, tVars, pVars, cpuVars, Terminal, SchedState, Label, OnStackPcs

LEMMA ExecuteClaimedTypes ==
    ASSUME TypeOK, NEW c \in CPU, ExecuteClaimed(c)
    PROVE  TypeOK'
BY SMTT(30) DEF ExecuteClaimed, TypeOK

LEMMA ExecutionPushTypes ==
    ASSUME TypeOK, NEW c \in CPU, ExecutionPush(c)
    PROVE  TypeOK'
BY SMTT(30) DEF ExecutionPush, TypeOK

LEMMA CompleteWaitTypes ==
    ASSUME TypeOK, NEW c \in CPU, CompleteWait(c)
    PROVE  TypeOK'
BY SMTT(30) DEF CompleteWait, TypeOK

LEMMA MarkRunningTypes ==
    ASSUME TypeOK, NEW c \in CPU, MarkRunning(c)
    PROVE  TypeOK'
BY SMTT(30) DEF MarkRunning, TypeOK

LEMMA EnterUserTypes ==
    ASSUME TypeOK, NEW c \in CPU, EnterUser(c)
    PROVE  TypeOK'
BY SMTT(30) DEF EnterUser, TypeOK

-----------------------------------------------------------------------------
(* Pauses and waits.                                                        *)

LEMMA YieldTypes == ASSUME TypeOK, NEW c \in CPU, Yield(c) PROVE TypeOK'
BY SMTT(30) DEF Yield, Save, SavePaused, SyscallAccepted, TypeOK

LEMMA PreemptTypes == ASSUME TypeOK, NEW c \in CPU, Preempt(c) PROVE TypeOK'
BY SMTT(30) DEF Preempt, Save, SavePaused, TypeOK

LEMMA SleepTypes == ASSUME TypeOK, NEW c \in CPU, Sleep(c) PROVE TypeOK'
BY SMTT(30) DEF Sleep, Save, SavePaused, SyscallAccepted, TypeOK

LEMMA YieldCurrentTypes ==
    ASSUME TypeOK, NEW c \in CPU, YieldCurrent(c)
    PROVE  TypeOK'
BY SMTT(30) DEF YieldCurrent, EnqueueAllowed, TypeOK

LEMMA SleepWaitTypes ==
    ASSUME TypeOK, NEW c \in CPU, SleepWait(c)
    PROVE  TypeOK'
<1>0. /\ pc[c] = "sleeping"
      /\ UNCHANGED <<runCpu, resumable, live, freed, affinity, pVars, cur,
                     ret, todo, caller, final>>
  BY DEF SleepWait
<1>1. CASE WaitBegin(c, "TIMER") /\ Goto(c, "return")
  BY SMTT(30), <1>0, <1>1 DEF WaitBegin, WaitAllowed, TypeOK
<1>2. CASE Goto(c, "yielding") /\ UNCHANGED <<pending, reason, sched>>
  BY SMTT(30), <1>0, <1>2 DEF TypeOK
<1> QED BY <1>1, <1>2 DEF SleepWait

LEMMA ArmWaitTypes == ASSUME TypeOK, NEW c \in CPU, ArmWait(c) PROVE TypeOK'
BY SMTT(30) DEF ArmWait, WaitBegin, WaitAllowed, SyscallAccepted, TypeOK

LEMMA SaveWaitTypes == ASSUME TypeOK, NEW c \in CPU, SaveWait(c) PROVE TypeOK'
<1>1. CASE reason[cur[c]] = "NONE"
  BY <1>1 DEF SaveWait, TypeOK
<1>2. CASE reason[cur[c]] # "NONE"
  BY <1>2 DEF SaveWait, Save, SavePaused, TypeOK
<1> QED BY <1>1, <1>2

LEMMA WaitCommitTypes ==
    ASSUME TypeOK, NEW c \in CPU, WaitCommit(c)
    PROVE  TypeOK'
BY SMTT(30) DEF WaitCommit, EnqueueAllowed, TypeOK

LEMMA WaitSignalTypes ==
    ASSUME TypeOK, NEW t \in Thread, WaitSignal(t)
    PROVE  TypeOK'
BY DEF WaitSignal, TypeOK

LEMMA NotifyQueuedIpcTypes ==
    ASSUME TypeOK, NEW p \in Process, NotifyQueuedIpc(p)
    PROVE  TypeOK'
BY DEF NotifyQueuedIpc, EnqueueAllowed, TypeOK

LEMMA SetAffinityTypes ==
    ASSUME TypeOK, NEW t \in Thread, NEW mask \in Masks,
           SetAffinity(t, mask)
    PROVE  TypeOK'
BY DEF SetAffinity, TypeOK

-----------------------------------------------------------------------------
(* Exits.                                                                   *)

LEMMA ThreadExitTypes ==
    ASSUME TypeOK, NEW c \in CPU, ThreadExit(c)
    PROVE  TypeOK'
BY SMTT(30) DEF ThreadExit, SyscallAccepted, TypeOK

LEMMA ProcessExitTypes ==
    ASSUME TypeOK, NEW c \in CPU, ProcessExit(c)
    PROVE  TypeOK'
BY SMTT(30) DEF ProcessExit, SyscallAccepted, CallFinish, TypeOK

LEMMA FaultTypes == ASSUME TypeOK, NEW c \in CPU, Fault(c) PROVE TypeOK'
BY SMTT(30) DEF Fault, CallFinish, TypeOK

LEMMA RejectedSyscallTypes ==
    ASSUME TypeOK, NEW c \in CPU, RejectedSyscall(c)
    PROVE  TypeOK'
BY SMTT(30) DEF RejectedSyscall, CallFinish, TypeOK

LEMMA ThreadMarkExitedTypes ==
    ASSUME TypeOK, NEW c \in CPU, ThreadMarkExited(c)
    PROVE  TypeOK'
<1>1. CASE cur[c] \in live
  BY <1>1 DEF ThreadMarkExited, CallFinish, TypeOK
<1>2. CASE cur[c] \notin live
  BY <1>2 DEF ThreadMarkExited, TypeOK
<1> QED BY <1>1, <1>2

LEMMA ProcessFinishTypes ==
    ASSUME TypeOK, NEW c \in CPU, ProcessFinish(c)
    PROVE  TypeOK'
BY SMTT(30) DEF ProcessFinish, TypeOK

LEMMA ReleaseOtherTypes ==
    ASSUME TypeOK, NEW c \in CPU, ReleaseOther(c)
    PROVE  TypeOK'
BY SMTT(30) DEF ReleaseOther, Released, TypeOK

LEMMA TeardownTypes == ASSUME TypeOK, NEW c \in CPU, Teardown(c) PROVE TypeOK'
BY SMTT(30) DEF Teardown, TypeOK

-----------------------------------------------------------------------------
(* The return path.                                                         *)

LEMMA ReturnTypes == ASSUME TypeOK, NEW c \in CPU, Return(c) PROVE TypeOK'
BY SMTT(30) DEF Return, TypeOK

LEMMA ExecutionPopTypes ==
    ASSUME TypeOK, NEW c \in CPU, ExecutionPop(c)
    PROVE  TypeOK'
BY SMTT(30) DEF ExecutionPop, TypeOK

LEMMA LeaveCpuTypes == ASSUME TypeOK, NEW c \in CPU, LeaveCpu(c) PROVE TypeOK'
BY SMTT(30) DEF LeaveCpu, CompleteKernelReturn, TypeOK

LEMMA ReturnExitedTypes ==
    ASSUME TypeOK, NEW c \in CPU, ReturnExited(c)
    PROVE  TypeOK'
BY SMTT(30) DEF ReturnExited, ExitedAlone, Released, TypeOK

LEMMA ReturnPausedTypes ==
    ASSUME TypeOK, NEW c \in CPU, ReturnPaused(c)
    PROVE  TypeOK'
BY SMTT(30) DEF ReturnPaused, ExitedAlone, TypeOK

LEMMA ReturnTerminalTypes ==
    ASSUME TypeOK, NEW c \in CPU, ReturnTerminal(c)
    PROVE  TypeOK'
BY SMTT(30) DEF ReturnTerminal, ExitedAlone, Released, CallFinish, TypeOK

LEMMA MarkFinishedTypes ==
    ASSUME TypeOK, NEW c \in CPU, MarkFinished(c)
    PROVE  TypeOK'
BY SMTT(30) DEF MarkFinished, TypeOK

LEMMA DismissTypes == ASSUME TypeOK, NEW c \in CPU, Dismiss(c) PROVE TypeOK'
BY SMTT(30) DEF Dismiss, CompleteKernelReturn, TypeOK

-----------------------------------------------------------------------------
(* Claim and resume.                                                       *)

\* The scheduler only returns selectable threads.
LEMMA FindNextSelectable ==
    ASSUME NEW c \in CPU, NEW excluded, live \subseteq Thread,
           NEW t \in FindNext(c, excluded)
    PROVE  t \in Thread /\ Selectable(c, t)
BY DEF FindNext, Selectable

\* What a claim assigns.
LEMMA ClaimSteps ==
    ASSUME NEW c, NEW excluded, NEW label, Claim(c, excluded, label)
    PROVE  \E t \in FindNext(c, excluded) :
             /\ sched'  = [sched EXCEPT ![t] = "RUNNING"]
             /\ runCpu' = [runCpu EXCEPT ![t] = c]
             /\ cur'    = [cur EXCEPT ![c] = t]
             /\ pc'     = [pc EXCEPT ![c] = label]
             /\ UNCHANGED <<resumable, pending, reason, live, freed, affinity,
                            pVars, ret, todo, caller, final>>
BY Zenon DEF Claim

LEMMA ClaimTypes ==
    ASSUME TypeOK, NEW c \in CPU, NEW excluded,
           NEW label \in {"claimed", "resume"},
           pc[c] \in {"idle", "continue"}, Claim(c, excluded, label)
    PROVE  TypeOK'
<1>1. PICK t \in FindNext(c, excluded) :
        /\ sched'  = [sched EXCEPT ![t] = "RUNNING"]
        /\ runCpu' = [runCpu EXCEPT ![t] = c]
        /\ cur'    = [cur EXCEPT ![c] = t]
        /\ pc'     = [pc EXCEPT ![c] = label]
        /\ UNCHANGED <<resumable, pending, reason, live, freed, affinity,
                       pVars, ret, todo, caller, final>>
  BY Zenon, ClaimSteps
<1>2. t \in Thread /\ Selectable(c, t)
  BY FindNextSelectable DEF TypeOK
<1>3. t \in live /\ sched[t] = "READY" /\ runCpu[t] = NoCpu
  BY <1>2 DEF Selectable
<1> QED BY SMTT(30), <1>1, <1>2, <1>3 DEF TypeOK

LEMMA IdleClaimTypes ==
    ASSUME TypeOK, NEW c \in CPU, IdleClaim(c)
    PROVE  TypeOK'
BY ClaimTypes DEF IdleClaim

LEMMA NestedClaimTypes ==
    ASSUME TypeOK, NEW c \in CPU, NestedClaim(c)
    PROVE  TypeOK'
BY ClaimTypes DEF NestedClaim

LEMMA ContinueReadyTypes ==
    ASSUME TypeOK, NEW c \in CPU, ContinueReady(c)
    PROVE  TypeOK'
<1>1. CASE Claim(c, {cur[c]}, "resume")
  BY <1>1, ClaimTypes DEF ContinueReady
<1>2. CASE /\ pc[c] = "continue"
           /\ pc'  = [pc EXCEPT ![c] = "idle"]
           /\ cur' = [cur EXCEPT ![c] = NoThread]
           /\ UNCHANGED <<tVars, affinity, pVars, ret, todo, caller, final>>
  BY <1>2 DEF TypeOK
<1> QED BY <1>1, <1>2 DEF ContinueReady

-----------------------------------------------------------------------------
(* The theorem.                                                            *)

LEMMA InitTypes == Init => TypeOK
BY DEF Init, TypeOK

LEMMA KernelStepTypes ==
    ASSUME TypeOK, NEW c \in CPU, KernelStep(c)
    PROVE  TypeOK'
BY ExecuteClaimedTypes, ExecutionPushTypes, CompleteWaitTypes,
   MarkRunningTypes, EnterUserTypes, YieldCurrentTypes, SleepWaitTypes,
   SaveWaitTypes, WaitCommitTypes, ThreadMarkExitedTypes,
   ProcessFinishTypes, ReleaseOtherTypes, TeardownTypes, ReturnTypes,
   ExecutionPopTypes, LeaveCpuTypes, ReturnExitedTypes, ReturnPausedTypes,
   ReturnTerminalTypes, MarkFinishedTypes, DismissTypes, ContinueReadyTypes
   DEF KernelStep

LEMMA UserStepTypes == ASSUME TypeOK, NEW c \in CPU, UserStep(c) PROVE TypeOK'
BY YieldTypes, SleepTypes, ArmWaitTypes, ThreadExitTypes, ProcessExitTypes,
   FaultTypes, RejectedSyscallTypes DEF UserStep

LEMMA NextTypes == TypeOK /\ [Next]_vars => TypeOK'
<1> SUFFICES ASSUME TypeOK, [Next]_vars PROVE TypeOK'
  OBVIOUS
<1>1. CASE UNCHANGED vars
  BY <1>1 DEF vars, TypeOK
<1>2. CASE \E c \in CPU : \/ IdleClaim(c) \/ NestedClaim(c) \/ KernelStep(c)
                          \/ UserStep(c) \/ Preempt(c)
  BY <1>2, IdleClaimTypes, NestedClaimTypes, KernelStepTypes, UserStepTypes,
     PreemptTypes
<1>3. CASE \E t \in Thread : Signal(t) \/ Tick(t)
  BY <1>3, WaitSignalTypes DEF Signal, Tick
<1>4. CASE \E t \in Thread : \E mask \in Masks : SetAffinity(t, mask)
  BY <1>4, SetAffinityTypes
<1>5. CASE \E p \in Process : NotifyQueuedIpc(p)
  BY <1>5, NotifyQueuedIpcTypes
<1> QED BY <1>1, <1>2, <1>3, <1>4, <1>5 DEF Next

\* Every field keeps its type, and a processor is idle exactly when it has no
\* current thread.
THEOREM SchedulerTypeOK == Spec => []TypeOK
BY InitTypes, NextTypes, PTL DEF Spec
=============================================================================
