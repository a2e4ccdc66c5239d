----------------------------- MODULE Scheduler -----------------------------
(***************************************************************************)
(* The SMP thread scheduler: the ready queue and the claim of a thread by  *)
(* one processor (kernel/process/process64.cpp), the resume and return     *)
(* path every processor walks (kernel/core/kernel64_user.cpp), the context *)
(* saves of yield, preemption, sleep and wait                              *)
(* (kernel/core/kernel64_process.cpp), the wait record that signals and    *)
(* timer ticks complete, and the exit of a thread or of its process while  *)
(* other processors hold threads of the same process.                      *)
(*                                                                         *)
(* One action is one section under process_lock, or one stretch of code    *)
(* between two such sections.  pc[c] says where processor c is in that     *)
(* path and cur[c] is the thread it carries.  Processes have no parent     *)
(* here: the hand-over to a waiting parent is not part of this module.     *)
(***************************************************************************)
EXTENDS Integers, Sequences, FiniteSets

CONSTANTS CPU, AP,          \* processors, and those running the smp_ap_entry loop
          Thread, Process,  \* the thread and process records in use
          Owner,            \* Owner[t]: thread->owner
          Main,             \* Main[p]: process_main_thread(p)
          Masks,            \* the affinity masks user programs ask for
          NoCpu, NoThread   \* THREAD_CPU_INVALID and the null thread

ASSUME SchedulerAssumption ==
    /\ AP \subseteq CPU
    /\ Owner \in [Thread -> Process]
    /\ Main \in [Process -> Thread]
    /\ \A p \in Process : Owner[Main[p]] = p
    /\ Masks \subseteq ((SUBSET CPU) \ {{}})
    /\ NoCpu \notin CPU
    /\ NoThread \notin Thread

\* The thread table is finite (MAX_THREADS).
ASSUME ThreadsAssumption == IsFiniteSet(Thread)

VARIABLES
    queue,      \* sched_queue from sched_queue_head, sched_queue_count long
    sched,      \* sched[t]: context->scheduler_state
    runCpu,     \* runCpu[t]: thread->running_cpu
    resumable,  \* the threads with context->resumable
    pending,    \* the threads with context->wait_pending
    reason,     \* reason[t]: context->wait_reason
    live,       \* the threads with thread->active (the others have exited)
    freed,      \* the threads with runtime_released: both stacks are gone
    affinity,   \* affinity[t]: thread->affinity_mask
    pLive,      \* the processes with process->active (the others are exiting)
    pState,     \* pState[p]: process->state
    torn,       \* the processes whose handles, files and mailbox are gone
    mapped,     \* the processes whose user pages are still mapped
    pc, cur,    \* pc[c], cur[c]: where processor c is, with which thread
    ret,        \* ret[c]: return_reason computed by the resume path
    todo,       \* todo[c]: threads process_finish has yet to release on c
    caller,     \* caller[c]: "reap" while c finishes a process in its return path
    final       \* final[c]: the final_state given to process_finish on c

tVars == <<queue, sched, runCpu, resumable, pending, reason, live, freed>>
pVars == <<pLive, pState, torn, mapped>>
cpuVars == <<pc, cur, ret, todo, caller, final>>
vars  == <<tVars, affinity, pVars, cpuVars>>

Terminal == {"RETURNED", "FAILED"}

\* The stretch between process_execution_push and process_execution_pop.
OnStackPcs == {"pushed", "woken", "marked", "user", "yielding", "sleeping",
               "armed", "waitSaved", "exit", "finish", "release", "return",
               "unwind"}

\* A finish called from the return path runs after the pop.
OnStack(c, t) == cur[c] = t /\ pc[c] \in OnStackPcs /\ caller[c] # "reap"

Queued(t) == \E i \in DOMAIN queue : queue[i] = t

\* scheduler_remove_unlocked compacts the queue without the thread;
\* process_finish does so for every thread of the process.  An entry that is
\* kept moves to the place that counts the kept entries up to it.
Place(kept, i) == Cardinality({j \in kept : j <= i})

Dequeue(q, ts) ==
    LET kept == {i \in DOMAIN q : q[i] \notin ts} IN
    [k \in 1..Cardinality(kept) |-> q[CHOOSE i \in kept : Place(kept, i) = k]]

\* Variant that queues a thread its processor has not given up yet.
EnqueueAllowedWhileRunning(q, run, t) ==
    /\ t \in live /\ Owner[t] \in pLive
    /\ \A i \in DOMAIN q : q[i] # t
    /\ Len(q) < Cardinality(Thread)

\* scheduler_enqueue_unlocked: the conditions under which it appends t.  The
\* queue has room for every thread record (SCHED_QUEUE_SIZE).
EnqueueAllowed(q, run, t) ==
    /\ t \in live /\ Owner[t] \in pLive
    /\ \A i \in DOMAIN q : q[i] # t
    /\ Len(q) < Cardinality(Thread)
    /\ run[t] = NoCpu

Init ==
    /\ queue \in {q \in [1..Cardinality(Thread) -> Thread] :
                     \A i, j \in DOMAIN q : q[i] = q[j] => i = j}
    /\ sched     = [t \in Thread |-> "READY"]
    /\ runCpu    = [t \in Thread |-> NoCpu]
    /\ resumable = Thread
    /\ pending   = {}
    /\ reason    = [t \in Thread |-> "NONE"]
    /\ live      = Thread
    /\ freed     = {}
    /\ affinity  = [t \in Thread |-> CPU]
    /\ pLive     = Process
    /\ pState    = [p \in Process |-> "PAUSED"]
    /\ torn      = {}
    /\ mapped    = Process
    /\ pc        = [c \in CPU |-> "idle"]
    /\ cur       = [c \in CPU |-> NoThread]
    /\ ret       = [c \in CPU |-> "NONE"]
    /\ todo      = [c \in CPU |-> {}]
    /\ caller    = [c \in CPU |-> "user"]
    /\ final     = [c \in CPU |-> "RETURNED"]

Goto(c, l) == pc' = [pc EXCEPT ![c] = l]

-----------------------------------------------------------------------------
(* Selection and claim (under process_lock).                               *)

\* Variant that does not look at the processor that still owns the thread.
SelectableIgnoringCpu(c, t) ==
    /\ t \in live /\ Owner[t] \in pLive
    /\ t \in resumable
    /\ sched[t] = "READY"
    /\ c \in affinity[t]

\* find_next_ready_thread_unlocked: what makes a record selectable on c.
Selectable(c, t) ==
    /\ t \in live /\ Owner[t] \in pLive
    /\ t \in resumable
    /\ sched[t] = "READY"
    /\ runCpu[t] = NoCpu
    /\ c \in affinity[t]

\* Variant that looks at the head of the queue only.
FindNextAtHead(c, excluded) ==
    {t \in Thread \ excluded : /\ Selectable(c, t)
                               /\ Len(queue) # 0 /\ queue[1] = t}

\* The first selectable thread of the queue; if the queue has none, a
\* selectable record of the thread table.
FindNext(c, excluded) ==
    LET hits == {i \in DOMAIN queue : /\ Selectable(c, queue[i])
                                      /\ queue[i] \notin excluded}
    IN  IF hits # {}
        THEN {queue[i] : i \in {i \in hits : \A j \in hits : i <= j}}
        ELSE {t \in Thread \ excluded : Selectable(c, t)}

\* scheduler_claim_ready_thread: dequeue and thread_claim_cpu_unlocked.
Claim(c, excluded, label) ==
    \E t \in FindNext(c, excluded) :
        /\ queue'  = Dequeue(queue, {t})
        /\ sched'  = [sched EXCEPT ![t] = "RUNNING"]
        /\ runCpu' = [runCpu EXCEPT ![t] = c]
        /\ cur'    = [cur EXCEPT ![c] = t]
        /\ Goto(c, label)
        /\ UNCHANGED <<resumable, pending, reason, live, freed, affinity,
                       pVars, ret, todo, caller, final>>

\* The idle loop of an application processor.
IdleClaim(c) == c \in AP /\ pc[c] = "idle" /\ Claim(c, {}, "claimed")

\* The claims of the shell loop and of wait_for_terminal_process, which go
\* straight to resume_user_thread_internal.
NestedClaim(c) == pc[c] = "idle" /\ Claim(c, {}, "resume")

\* scheduler_execute_claimed_thread: a thread that is no longer RUNNING is
\* not resumed; nothing else happens to it.
ExecuteClaimed(c) ==
    /\ pc[c] = "claimed"
    /\ Goto(c, IF sched[cur[c]] = "RUNNING" THEN "resume" ELSE "idle")
    /\ cur' = [cur EXCEPT ![c] = IF sched[@] = "RUNNING" THEN @ ELSE NoThread]
    /\ UNCHANGED <<tVars, affinity, pVars, ret, todo, caller, final>>

-----------------------------------------------------------------------------
(* resume_user_thread_internal up to user mode.                            *)

\* process_execution_push, after the kernel stack of the thread was loaded.
ExecutionPush(c) ==
    /\ pc[c] = "resume"
    /\ Goto(c, "pushed")
    /\ UNCHANGED <<tVars, affinity, pVars, cur, ret, todo, caller, final>>

\* complete_waiting_syscall64: a completed wait hands over its result once.
CompleteWait(c) ==
    /\ pc[c] = "pushed"
    /\ reason' = IF cur[c] \in pending THEN reason
                 ELSE [reason EXCEPT ![cur[c]] = "NONE"]
    /\ Goto(c, "woken")
    /\ UNCHANGED <<queue, sched, runCpu, resumable, pending, live, freed,
                   affinity, pVars, cur, ret, todo, caller, final>>

\* scheduler_mark_thread_running.
MarkRunning(c) ==
    LET t == cur[c] IN
    /\ pc[c] = "woken"
    /\ IF runCpu[t] = c
       THEN /\ sched' = [sched EXCEPT ![t] = "RUNNING"]
            /\ UNCHANGED <<queue, runCpu>>
       ELSE IF runCpu[t] = NoCpu /\ c \in affinity[t]
       THEN /\ queue'  = Dequeue(queue, {t})
            /\ sched'  = [sched EXCEPT ![t] = "RUNNING"]
            /\ runCpu' = [runCpu EXCEPT ![t] = c]
       ELSE UNCHANGED <<queue, sched, runCpu>>
    /\ Goto(c, "marked")
    /\ UNCHANGED <<resumable, pending, reason, live, freed, affinity, pVars,
                   cur, ret, todo, caller, final>>

\* The unlocked writes before resume_user_mode.
EnterUser(c) ==
    /\ pc[c] = "marked"
    /\ pState'    = [pState EXCEPT ![Owner[cur[c]]] = "RUNNING"]
    /\ resumable' = resumable \ {cur[c]}
    /\ ret'       = [ret EXCEPT ![c] = "NONE"]
    /\ Goto(c, "user")
    /\ UNCHANGED <<queue, sched, runCpu, pending, reason, live, freed,
                   affinity, pLive, torn, mapped, cur, todo, caller, final>>

-----------------------------------------------------------------------------
(* Leaving user mode with a saved context.                                 *)

\* syscall_fast_enter64 refuses a process or thread that has exited.
SyscallAccepted(c) ==
    /\ pc[c] = "user"
    /\ cur[c] \in live
    /\ Owner[cur[c]] \in pLive
    /\ pState[Owner[cur[c]]] \in {"RUNNING", "PAUSED"}

\* save_paused_context64: the pause is remembered for the return path, and
\* a main thread's save makes its process PAUSED.
SavePaused(c) ==
    LET t == cur[c] IN
    /\ resumable' = resumable \cup {t}
    /\ ret'       = [ret EXCEPT ![c] = "PAUSED"]
    /\ pState'    = IF Main[Owner[t]] = t
                    THEN [pState EXCEPT ![Owner[t]] = "PAUSED"] ELSE pState
    /\ UNCHANGED <<pLive, torn, mapped>>

Save(c, label) ==
    /\ SavePaused(c)
    /\ Goto(c, label)
    /\ UNCHANGED <<queue, sched, runCpu, pending, reason, live, freed,
                   affinity, cur, todo, caller, final>>

\* save_yield_context64.
Yield(c) == SyscallAccepted(c) /\ Save(c, "yielding")

\* The local timer or a reschedule IPI interrupts user mode:
\* scheduler_should_preempt_current, scheduler_should_reschedule_current,
\* then save_preempt_context64.
Preempt(c) ==
    /\ pc[c] = "user"
    /\ sched[cur[c]] = "RUNNING"
    /\ FindNext(c, {cur[c]}) # {} \/ c \notin affinity[cur[c]]
    /\ Save(c, "yielding")

\* scheduler_yield_current: READY at once, queued only when the return path
\* has given the processor up.
YieldCurrent(c) ==
    LET t == cur[c]
        q == Dequeue(queue, {t}) IN
    /\ pc[c] = "yielding"
    /\ sched' = [sched EXCEPT ![t] = "READY"]
    /\ queue' = IF EnqueueAllowed(q, runCpu, t) THEN Append(q, t) ELSE q
    /\ Goto(c, "return")
    /\ UNCHANGED <<runCpu, resumable, pending, reason, live, freed, affinity,
                   pVars, cur, ret, todo, caller, final>>

\* thread_wait_begin_unlocked on the current thread of c.
WaitAllowed(t) == t \in live /\ Owner[t] \in pLive /\ t \notin pending

WaitBegin(c, why) ==
    LET t == cur[c] IN
    /\ WaitAllowed(t)
    /\ queue'   = Dequeue(queue, {t})
    /\ pending' = pending \cup {t}
    /\ reason'  = [reason EXCEPT ![t] = why]
    /\ sched'   = [sched EXCEPT ![t] = "WAITING"]

\* save_sleep_context64 saves first, arms the timer afterwards, and turns a
\* refused wait into a yield.
Sleep(c) == SyscallAccepted(c) /\ Save(c, "sleeping")

SleepWait(c) ==
    /\ pc[c] = "sleeping"
    /\ \/ WaitBegin(c, "TIMER") /\ Goto(c, "return")
       \/ /\ ~WaitAllowed(cur[c])
          /\ Goto(c, "yielding")
          /\ UNCHANGED <<queue, pending, reason, sched>>
    /\ UNCHANGED <<runCpu, resumable, live, freed, affinity, pVars, cur, ret,
                   todo, caller, final>>

\* A blocking receive, input or join call arms its wait record first ...
ArmWait(c) ==
    /\ SyscallAccepted(c)
    /\ WaitBegin(c, "EVENT")
    /\ Goto(c, "armed")
    /\ UNCHANGED <<runCpu, resumable, live, freed, affinity, pVars, cur, ret,
                   todo, caller, final>>

\* ... and save_wait_context64 saves the context on the way out.  A process
\* exit in between has reset the wait record, and then nothing is saved.
SaveWait(c) ==
    /\ pc[c] = "armed"
    /\ IF reason[cur[c]] = "NONE"
       THEN /\ Goto(c, "return")
            /\ UNCHANGED <<tVars, affinity, pVars, cur, ret, todo, caller, final>>
       ELSE Save(c, "waitSaved")

\* The end of save_wait_context64: commit a wait that was already completed.
WaitCommit(c) ==
    LET t == cur[c]
        enqueue == t \notin pending /\ EnqueueAllowed(queue, runCpu, t) IN
    /\ pc[c] = "waitSaved"
    /\ queue' = IF enqueue THEN Append(queue, t) ELSE queue
    /\ sched' = IF enqueue THEN [sched EXCEPT ![t] = "READY"] ELSE sched
    /\ Goto(c, "return")
    /\ UNCHANGED <<runCpu, resumable, pending, reason, live, freed, affinity,
                   pVars, cur, ret, todo, caller, final>>

-----------------------------------------------------------------------------
(* Completion of a wait from any processor or interrupt handler.           *)

\* Variant that makes only threads with a saved context READY.
WaitSignalSaved(t) ==
    LET awake == t \in live /\ Owner[t] \in pLive /\ t \in resumable IN
    /\ t \in pending
    /\ pending' = pending \ {t}
    /\ sched'   = IF awake THEN [sched EXCEPT ![t] = "READY"] ELSE sched
    /\ queue'   = IF awake /\ EnqueueAllowed(queue, runCpu, t)
                  THEN Append(queue, t) ELSE queue
    /\ UNCHANGED <<runCpu, resumable, reason, live, freed, affinity, pVars,
                   cpuVars>>

\* thread_wait_signal_unlocked.
WaitSignal(t) ==
    LET awake == t \in live /\ Owner[t] \in pLive IN
    /\ t \in pending
    /\ pending' = pending \ {t}
    /\ sched'   = IF awake THEN [sched EXCEPT ![t] = "READY"] ELSE sched
    /\ queue'   = IF awake /\ t \in resumable /\ EnqueueAllowed(queue, runCpu, t)
                  THEN Append(queue, t) ELSE queue
    /\ UNCHANGED <<runCpu, resumable, reason, live, freed, affinity, pVars,
                   cpuVars>>

\* process_wait_signal, process_wait_cancel: a message, an event, a cancel.
Signal(t) == reason[t] = "EVENT" /\ WaitSignal(t)

\* Variant that only wakes threads whose context is not saved yet.
TickUnsaved(t) ==
    reason[t] = "TIMER" /\ t \in live /\ t \notin resumable /\ WaitSignal(t)

\* process_wait_tick reaches the deadline of a sleeping thread.
Tick(t) == reason[t] = "TIMER" /\ t \in live /\ WaitSignal(t)

\* process_notify_queued_ipc: requeue a resumable thread outside any wait.
NotifyQueuedIpc(p) ==
    \E t \in Thread :
        LET enqueue == EnqueueAllowed(queue, runCpu, t) IN
        /\ Owner[t] = p /\ t \in live /\ t \in resumable
        /\ reason[t] = "NONE"
        /\ queue' = IF enqueue THEN Append(queue, t) ELSE queue
        /\ sched' = IF enqueue THEN [sched EXCEPT ![t] = "READY"] ELSE sched
        /\ UNCHANGED <<runCpu, resumable, pending, reason, live, freed,
                       affinity, pVars, cpuVars>>

\* thread_set_affinity, called by some thread of the owner.
SetAffinity(t, mask) ==
    /\ t \in live
    /\ affinity' = [affinity EXCEPT ![t] = mask]
    /\ UNCHANGED <<tVars, pVars, cpuVars>>

-----------------------------------------------------------------------------
(* Exit of a thread, exit or failure of a process.                         *)

CallFinish(c, state) ==
    /\ Goto(c, "finish")
    /\ final' = [final EXCEPT ![c] = state]

ThreadExit(c) ==
    /\ SyscallAccepted(c)
    /\ Goto(c, "exit")
    /\ UNCHANGED <<tVars, affinity, pVars, cur, ret, todo, caller, final>>

\* thread_mark_exited: the last thread takes its process with it.
ThreadMarkExited(c) ==
    LET t == cur[c]
        p == Owner[t]
        last == p \in pLive /\ \A u \in live \ {t} : Owner[u] # p IN
    /\ pc[c] = "exit"
    /\ IF t \in live
       THEN /\ queue'     = Dequeue(queue, {t})
            /\ live'      = live \ {t}
            /\ sched'     = [sched EXCEPT ![t] = "FINISHED"]
            /\ resumable' = resumable \ {t}
            /\ pending'   = pending \ {t}
            /\ reason'    = [reason EXCEPT ![t] = "NONE"]
            /\ IF last THEN CallFinish(c, "RETURNED")
                       ELSE Goto(c, "return") /\ UNCHANGED final
       ELSE /\ Goto(c, "return")
            /\ UNCHANGED <<queue, live, sched, resumable, pending, reason, final>>
    /\ UNCHANGED <<runCpu, freed, affinity, pVars, cur, ret, todo, caller>>

\* SYS_EXIT.
ProcessExit(c) ==
    /\ SyscallAccepted(c)
    /\ CallFinish(c, "RETURNED")
    /\ UNCHANGED <<tVars, affinity, pVars, cur, ret, todo, caller>>

\* process_record_fault64: an exception in user mode.
Fault(c) ==
    /\ pc[c] = "user"
    /\ CallFinish(c, "FAILED")
    /\ UNCHANGED <<tVars, affinity, pVars, cur, ret, todo, caller>>

\* A system call that syscall_fast_enter64 refuses: fail_current_return.
RejectedSyscall(c) ==
    /\ pc[c] = "user" /\ ~SyscallAccepted(c)
    /\ IF Owner[cur[c]] \in pLive
       THEN CallFinish(c, "FAILED")
       ELSE Goto(c, "return") /\ UNCHANGED final
    /\ UNCHANGED <<tVars, affinity, pVars, cur, ret, todo, caller>>

\* process_finish, the section under process_lock.  The caller's own stacks
\* are left to its return path.
ProcessFinish(c) ==
    LET p  == Owner[cur[c]]
        ts == {t \in Thread : Owner[t] = p} IN
    /\ pc[c] = "finish"
    /\ queue'     = Dequeue(queue, ts)
    /\ live'      = live \ ts
    /\ sched'     = [t \in Thread |-> IF t \in ts THEN "FINISHED" ELSE sched[t]]
    /\ resumable' = resumable \ ts
    /\ pending'   = pending \ ts
    /\ reason'    = [t \in Thread |-> IF t \in ts THEN "NONE" ELSE reason[t]]
    /\ pLive'     = pLive \ {p}
    /\ pState'    = [pState EXCEPT ![p] = final[c]]
    /\ todo'      = [todo EXCEPT ![c] = IF caller[c] = "reap" THEN ts
                                        ELSE ts \ {cur[c]}]
    /\ Goto(c, "release")
    /\ UNCHANGED <<runCpu, freed, affinity, torn, mapped, cur, ret, caller, final>>

\* thread_release_runtime frees the stacks of a thread no execution stack holds.
Released(t) == IF \E d \in CPU : OnStack(d, t) THEN freed ELSE freed \cup {t}

ReleaseOther(c) ==
    /\ pc[c] = "release"
    /\ \E t \in todo[c] : /\ freed' = Released(t)
                          /\ todo'  = [todo EXCEPT ![c] = @ \ {t}]
    /\ UNCHANGED <<queue, sched, runCpu, resumable, pending, reason, live,
                   affinity, pVars, pc, cur, ret, caller, final>>

\* The rest of process_finish: files, surfaces, handles, service, mailbox.
Teardown(c) ==
    /\ pc[c] = "release" /\ todo[c] = {}
    /\ torn'   = torn \cup {Owner[cur[c]]}
    /\ Goto(c, IF caller[c] = "reap" THEN "reaped" ELSE "return")
    /\ caller' = [caller EXCEPT ![c] = "user"]
    /\ UNCHANGED <<tVars, affinity, pLive, pState, mapped, cur, ret, todo, final>>

-----------------------------------------------------------------------------
(* The return path of resume_user_thread_internal.                         *)

\* Back from user mode: an exit dominates a captured pause reason.
Return(c) ==
    /\ pc[c] = "return"
    /\ ret' = [ret EXCEPT ![c] = IF cur[c] \in live THEN @ ELSE "NONE"]
    /\ Goto(c, "unwind")
    /\ UNCHANGED <<tVars, affinity, pVars, cur, todo, caller, final>>

\* process_execution_pop.
ExecutionPop(c) ==
    /\ pc[c] = "unwind"
    /\ Goto(c, "popped")
    /\ UNCHANGED <<tVars, affinity, pVars, cur, ret, todo, caller, final>>

\* scheduler_complete_kernel_return: give the processor up, then queue a
\* thread that a yield or a signal has made READY.
CompleteKernelReturn(c, t) ==
    LET run == IF runCpu[t] = c THEN [runCpu EXCEPT ![t] = NoCpu] ELSE runCpu
        enqueue == /\ t \in resumable /\ sched[t] = "READY"
                   /\ EnqueueAllowed(queue, run, t) IN
    /\ runCpu' = run
    /\ queue'  = IF enqueue THEN Append(queue, t) ELSE queue

\* A thread that is not FINISHED leaves the processor here.
LeaveCpu(c) ==
    /\ pc[c] = "popped"
    /\ IF sched[cur[c]] # "FINISHED" THEN CompleteKernelReturn(c, cur[c])
                                     ELSE UNCHANGED <<runCpu, queue>>
    /\ Goto(c, "returned")
    /\ UNCHANGED <<sched, resumable, pending, reason, live, freed, affinity,
                   pVars, cur, ret, todo, caller, final>>

ExitedAlone(c) == cur[c] \notin live /\ Owner[cur[c]] \in pLive

\* A thread exited and its process goes on.
ReturnExited(c) ==
    /\ pc[c] = "returned" /\ ExitedAlone(c)
    /\ freed' = Released(cur[c])
    /\ Goto(c, "dismiss")
    /\ UNCHANGED <<queue, sched, runCpu, resumable, pending, reason, live,
                   affinity, pVars, cur, ret, todo, caller, final>>

\* A pause: look for other work.
ReturnPaused(c) ==
    /\ pc[c] = "returned" /\ ~ExitedAlone(c) /\ ret[c] = "PAUSED"
    /\ Goto(c, "continue")
    /\ UNCHANGED <<tVars, affinity, pVars, cur, ret, todo, caller, final>>

\* The end of a process: free the stacks, cleanup_user_process_mapping, and
\* process_mark_returned unless the state is already terminal.
ReturnTerminal(c) ==
    LET p == Owner[cur[c]] IN
    /\ pc[c] = "returned" /\ ~ExitedAlone(c) /\ ret[c] = "NONE"
    /\ freed'  = IF cur[c] \in live THEN freed ELSE Released(cur[c])
    /\ mapped' = mapped \ {p}
    /\ IF pState[p] \in Terminal
       THEN Goto(c, "reaped") /\ UNCHANGED <<caller, final>>
       ELSE CallFinish(c, "RETURNED") /\ caller' = [caller EXCEPT ![c] = "reap"]
    /\ UNCHANGED <<queue, sched, runCpu, resumable, pending, reason, live,
                   affinity, pLive, pState, torn, cur, ret, todo>>

\* scheduler_mark_finished works on the main thread of the process.
MarkFinished(c) ==
    LET m == Main[Owner[cur[c]]] IN
    /\ pc[c] = "reaped"
    /\ resumable' = resumable \ {cur[c]}
    /\ queue'     = Dequeue(queue, {m})
    /\ sched'     = [sched EXCEPT ![m] = "FINISHED"]
    /\ Goto(c, "dismiss")
    /\ UNCHANGED <<runCpu, pending, reason, live, freed, affinity, pVars,
                   cur, ret, todo, caller, final>>

\* The second scheduler_complete_kernel_return of both exit paths.
Dismiss(c) ==
    /\ pc[c] = "dismiss"
    /\ CompleteKernelReturn(c, cur[c])
    /\ Goto(c, "continue")
    /\ UNCHANGED <<sched, resumable, pending, reason, live, freed, affinity,
                   pVars, cur, ret, todo, caller, final>>

\* continue_ready_threads: claim another thread, or unwind to the idle loop.
ContinueReady(c) ==
    /\ pc[c] = "continue"
    /\ \/ Claim(c, {cur[c]}, "resume")
       \/ /\ FindNext(c, {cur[c]}) = {}
          /\ Goto(c, "idle")
          /\ cur' = [cur EXCEPT ![c] = NoThread]
          /\ UNCHANGED <<tVars, affinity, pVars, ret, todo, caller, final>>

-----------------------------------------------------------------------------
\* What a processor does in the kernel, without waiting for anyone.
KernelStep(c) ==
    \/ ExecuteClaimed(c) \/ ExecutionPush(c) \/ CompleteWait(c)
    \/ MarkRunning(c) \/ EnterUser(c)
    \/ YieldCurrent(c) \/ SleepWait(c) \/ SaveWait(c) \/ WaitCommit(c)
    \/ ThreadMarkExited(c) \/ ProcessFinish(c) \/ ReleaseOther(c) \/ Teardown(c)
    \/ Return(c) \/ ExecutionPop(c) \/ LeaveCpu(c)
    \/ ReturnExited(c) \/ ReturnPaused(c) \/ ReturnTerminal(c)
    \/ MarkFinished(c) \/ Dismiss(c) \/ ContinueReady(c)

\* What the user program on a processor may choose to do.
UserStep(c) ==
    \/ Yield(c) \/ Sleep(c) \/ ArmWait(c)
    \/ ThreadExit(c) \/ ProcessExit(c) \/ Fault(c) \/ RejectedSyscall(c)

Next ==
    \/ \E c \in CPU : \/ IdleClaim(c) \/ NestedClaim(c) \/ KernelStep(c)
                      \/ UserStep(c) \/ Preempt(c)
    \/ \E t \in Thread : \/ Signal(t) \/ Tick(t)
                         \/ \E mask \in Masks : SetAffinity(t, mask)
    \/ \E p \in Process : NotifyQueuedIpc(p)

Spec == Init /\ [][Next]_vars

\* Kernel code runs to completion; an idle processor is woken by its local
\* timer and tries to claim; the local timer preempts user code when another
\* thread is ready; the tick reaches every deadline; user code whose pages
\* are unmapped faults.
Fairness ==
    /\ \A c \in CPU : /\ WF_vars(KernelStep(c))
                      /\ WF_vars(IdleClaim(c) \/ NestedClaim(c))
                      /\ WF_vars(Preempt(c))
                      /\ WF_vars(Fault(c) /\ Owner[cur[c]] \notin mapped)
    /\ \A t \in Thread : WF_vars(Tick(t))

FairSpec == Spec /\ Fairness

-----------------------------------------------------------------------------
(* Properties.                                                             *)

SchedState == {"READY", "RUNNING", "WAITING", "FINISHED"}
Label == OnStackPcs \cup {"idle", "claimed", "resume", "popped", "returned",
                          "dismiss", "reaped", "continue"}

\* Every field holds a value the code gives it, and a processor outside its
\* idle loop carries a thread.
TypeOK ==
    /\ sched \in [Thread -> SchedState]
    /\ runCpu \in [Thread -> CPU \cup {NoCpu}]
    /\ reason \in [Thread -> {"NONE", "TIMER", "EVENT"}]
    /\ affinity \in [Thread -> SUBSET CPU]
    /\ resumable \subseteq Thread /\ pending \subseteq Thread
    /\ live \subseteq Thread /\ freed \subseteq Thread
    /\ pLive \subseteq Process /\ torn \subseteq Process /\ mapped \subseteq Process
    /\ pState \in [Process -> {"PAUSED", "RUNNING"} \cup Terminal]
    /\ pc \in [CPU -> Label]
    /\ cur \in [CPU -> Thread \cup {NoThread}]
    /\ \A c \in CPU : cur[c] = NoThread <=> pc[c] = "idle"
    /\ ret \in [CPU -> {"NONE", "PAUSED"}]
    /\ todo \in [CPU -> SUBSET Thread]
    /\ caller \in [CPU -> {"user", "reap"}]
    /\ final \in [CPU -> Terminal]

\* A processor carries a thread from the claim to the kernel return.
Carries(c, t) ==
    /\ cur[c] = t
    /\ pc[c] \in OnStackPcs \cup {"claimed", "resume", "popped"}
    /\ caller[c] # "reap"

\* "One live thread may be RUNNING on at most one logical CPU": no two
\* processors carry the same thread, from the claim in the scheduler to the
\* kernel return, whatever signals, yields and exits happen meanwhile.
SingleRunner ==
    \A c, d \in CPU, t \in Thread : Carries(c, t) /\ Carries(d, t) => c = d

\* The ready queue names every thread at most once, and it names exactly the
\* live threads that wait for a processor: nothing that runs, waits or has
\* exited, and no ready thread is left to the recovery scan of the table.
QueueExact ==
    /\ \A i, j \in DOMAIN queue : queue[i] = queue[j] => i = j
    /\ \A t \in Thread :
          Queued(t) <=> /\ t \in live \cap resumable
                        /\ sched[t] = "READY" /\ runCpu[t] = NoCpu

\* The state in which a thread may be without a processor: its context is
\* saved, and it waits for a signal or for the scheduler.
Settled(t) ==
    /\ t \in resumable
    /\ sched[t] = IF t \in pending THEN "WAITING" ELSE "READY"

\* No wakeup is lost between arming a wait, saving the context and leaving
\* the processor: a live thread that no processor owns either waits for a
\* signal that can still come or is selectable.
NoLostWakeup ==
    \A t \in live : /\ Owner[t] \in pLive
                    /\ runCpu[t] = NoCpu => Settled(t)

\* "A thread is in at most one of ready, running, waiting, or terminal
\* state": a pending wait belongs to a live thread in state WAITING.
PendingWaits ==
    \A t \in pending : t \in live /\ sched[t] = "WAITING" /\ reason[t] # "NONE"

\* "Affinity ... cannot strand runnable work": whenever a thread is ready,
\* each processor its mask allows finds some thread to claim, also when the
\* head of the queue is not eligible there.
NoStrandedWork ==
    \A t \in live, c \in CPU :
        /\ Owner[t] \in pLive /\ sched[t] = "READY" /\ runCpu[t] = NoCpu
        /\ c \in affinity[t]
        => FindNext(c, {}) # {}

\* A queued thread is eventually claimed, or exits.
ReadyRuns == \A t \in Thread : Queued(t) ~> ~Queued(t)

\* A sleeping thread runs again once its deadline passed, unless it exits.
SleepEnds ==
    \A t \in Thread : (t \in pending /\ reason[t] = "TIMER")
                         ~> (t \notin live \/ (runCpu[t] # NoCpu /\ t \notin pending))

\* Process exit "stops and reaps every remaining thread": once a process has
\* left the active state, none of its threads keeps a processor for ever.
ExitDrains ==
    \A p \in Process :
        (p \notin pLive) ~> (\A t \in Thread : Owner[t] = p => runCpu[t] = NoCpu)

\* The stacks of a thread that exited are eventually freed.
StacksReclaimed == \A t \in Thread : (t \notin live) ~> (t \in freed)

\* Refuted: "Terminal or stale threads are never queued or resumed", a
\* processor that enters user mode does so with a live thread.
TerminalNeverResumed ==
    [][\A c \in CPU : pc[c] = "marked" /\ pc'[c] = "user" => cur[c] \in live]_vars

\* Refuted: the kernel stack of a thread is not reclaimed while a processor has the
\* thread on its execution stack.
StackInUse == \A c \in CPU, t \in Thread : OnStack(c, t) => t \notin freed

\* Refuted: "RETURNED and FAILED are terminal", the state and the result of a process
\* that has ended do not change any more.
TerminalStable ==
    [][\A p \in Process : pState[p] \in Terminal => pState'[p] = pState[p]]_vars

\* Refuted: "Process-owned resources are destroyed only after all owned threads stop".
ResourcesOutliveThreads ==
    \A p \in torn, c \in CPU :
        pc[c] = "user" => Owner[cur[c]] # p

\* The scheduler loop serves everybody: a queued thread is claimed, a sleeper
\* wakes, an ended process loses its processors and its stacks are freed.
ThreadsProgress == ReadyRuns /\ SleepEnds /\ ExitDrains /\ StacksReclaimed
=============================================================================
