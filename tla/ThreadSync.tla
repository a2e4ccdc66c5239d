----------------------------- MODULE ThreadSync -----------------------------
(***************************************************************************)
(* Mutexes, semaphores and condition variables                             *)
(* (kernel/sync/thread_sync.cpp) on top of the wait record of a thread     *)
(* (kernel/process/process64.cpp), for the threads of one process.         *)
(*                                                                         *)
(* The objects are guarded by sync_lock, the wait records by process_lock, *)
(* and no operation holds both: one action is one section under one of the *)
(* two locks, with the unlocked reads that feed it.  pc[a] is where thread *)
(* a, or the timer interrupt, is in that code.  Which processor a thread   *)
(* runs on does not matter here (module Scheduler): a thread is in user    *)
(* mode, in a system call, or blocked until its wait record is complete.   *)
(*                                                                         *)
(* Object identifiers carry a generation, so an identifier is never used   *)
(* again; a handle that does not resolve makes the call return at once.    *)
(***************************************************************************)
EXTENDS Integers, Sequences, FiniteSets

CONSTANTS Thread,                       \* the threads of the process
          Timer,                        \* the interrupt that runs process_wait_tick
          Mutex, Semaphore, Condition,  \* the identifiers of the objects
          Maximum,                      \* semaphore_maximum
          Closable,                     \* the objects the program closes
          Programs,                     \* programs: the objects created, the number of threads
          Timed,                        \* the objects it waits for with a deadline
          Disciplined,                  \* do programs unlock only what they hold, and
                                        \* use conditions only while holding the mutex
          PostBound,                    \* bound: the posts that are followed
          NoThread, NoObject

Object == Mutex \cup Semaphore \cup Condition
Actor  == Thread \cup {Timer}

ASSUME ThreadSyncAssumption ==
    /\ Mutex \cap Semaphore = {} /\ Mutex \cap Condition = {}
    /\ Semaphore \cap Condition = {} /\ NoObject \notin Object
    /\ Timer \notin Thread /\ NoThread \notin Actor
    /\ Maximum \in Nat \ {0} /\ PostBound \in Nat
    /\ Closable \subseteq Object /\ Timed \subseteq Object
    /\ Programs \subseteq (SUBSET Object) \X (1..Cardinality(Thread)) /\ Disciplined \in BOOLEAN

VARIABLES
    fresh,     \* the identifiers not created yet
    active,    \* the objects with object->active
    owner,     \* owner[m]: mutex_owner
    count,     \* count[s]: semaphore_count
    pending,   \* the threads with wait_pending
    reason,    \* reason[t]: wait_reason
    obj, aux,  \* obj[t], aux[t]: wait_object_id and wait_aux_object_id
    result,    \* result[t]: wait_result
    deadline,  \* the threads with wait_has_deadline
    order,     \* the pending threads by wait_sequence
    pc,        \* pc[a]: where actor a is
    on,        \* on[a]: the object its call works on
    with,      \* with[a]: the mutex of a condition wait
    who,       \* who[a]: the waiter it is completing
    left,      \* left[a]: posts still to make; 2 while broadcasting
    after,     \* after[a]: where wake_mutex_waiter returns to
    released,  \* released[t]: mutexes an exiting thread has still to hand on
    expired,   \* sync_timeouts of the timer
    late,      \* the reason kernel_sync_timeout_thread has read
    held,      \* held[t]: the mutexes t was told it holds
    tokens,    \* tokens[s]: initial count, plus posts, minus waits that returned
    posted     \* the number of posts so far

objVars  == <<fresh, active, owner, count>>
waitVars == <<pending, reason, obj, aux, result, deadline, order>>
callVars == <<on, with, who, left, after, released, expired, late>>
userVars == <<held, tokens, posted>>
vars     == <<objVars, waitVars, pc, callVars, userVars>>

Kind(o) == IF o \in Mutex THEN "MUTEX"
           ELSE IF o \in Semaphore THEN "SEMAPHORE" ELSE "CONDITION"

Init ==
    /\ active = {}
    /\ \E p \in Programs : \E run \in SUBSET Thread :
         /\ fresh = p[1] /\ Cardinality(run) = p[2]
         /\ pc = [a \in Actor |-> IF a \in Thread \ run THEN "exited" ELSE "user"]
    /\ owner   = [m \in Mutex |-> NoThread]
    /\ count   = [s \in Semaphore |-> 0]
    /\ pending = {} /\ deadline = {} /\ order = <<>>
    /\ reason  = [t \in Thread |-> "NONE"]
    /\ obj     = [t \in Thread |-> NoObject]
    /\ aux     = [t \in Thread |-> NoObject]
    /\ result  = [t \in Thread |-> "OK"]
    /\ on      = [a \in Actor |-> NoObject]
    /\ with    = [a \in Actor |-> NoObject]
    /\ who     = [a \in Actor |-> NoThread]
    /\ left    = [a \in Actor |-> 0]
    /\ after   = [a \in Actor |-> "user"]
    /\ released = [t \in Thread |-> {}]
    /\ expired = {} /\ late = "NONE"
    /\ held    = [t \in Thread |-> {}]
    /\ tokens  = [s \in Semaphore |-> 0]
    /\ posted  = 0

Goto(a, l) == pc' = [pc EXCEPT ![a] = l]

\* An actor that returns to its caller forgets the locals of the call.
Leave(a, l) ==
    /\ Goto(a, l)
    /\ on'    = [on EXCEPT ![a] = NoObject]
    /\ with'  = [with EXCEPT ![a] = NoObject]
    /\ who'   = [who EXCEPT ![a] = NoThread]
    /\ left'  = [left EXCEPT ![a] = 0]
    /\ after' = [after EXCEPT ![a] = "user"]
    /\ UNCHANGED <<released, expired, late>>

Stay(a, l) == Goto(a, l) /\ UNCHANGED callVars

-----------------------------------------------------------------------------
(* The wait record (under process_lock).                                   *)

Without(q, t) == SelectSeq(q, LAMBDA u : u # t)

\* thread_wait_signal_unlocked: completes a pending wait of the given reason
\* and does nothing otherwise.
WaitSignal(t, why, res) ==
    IF t \in pending /\ reason[t] = why
    THEN /\ pending'  = pending \ {t}
         /\ deadline' = deadline \ {t}
         /\ result'   = [result EXCEPT ![t] = res]
         /\ order'    = Without(order, t)
         /\ UNCHANGED <<reason, obj, aux>>
    ELSE UNCHANGED waitVars

\* thread_wait_begin.
WaitBegin(t, why, timed) ==
    /\ pending'  = pending \cup {t}
    /\ reason'   = [reason EXCEPT ![t] = why]
    /\ result'   = [result EXCEPT ![t] = "OK"]
    /\ deadline' = IF timed THEN deadline \cup {t} ELSE deadline
    /\ order'    = Append(order, t)
    /\ UNCHANGED <<obj, aux>>

\* thread_wait_find_oldest.
Oldest(why, o) ==
    LET hits == {i \in DOMAIN order : /\ reason[order[i]] = why
                                      /\ obj[order[i]] = o}
    IN  IF hits = {} THEN NoThread
        ELSE order[CHOOSE i \in hits : \A j \in hits : i <= j]

\* thread_wait_reset_unlocked.
WaitReset(t) ==
    /\ pending'  = pending \ {t}
    /\ deadline' = deadline \ {t}
    /\ reason'   = [reason EXCEPT ![t] = "NONE"]
    /\ result'   = [result EXCEPT ![t] = "OK"]
    /\ obj'      = [obj EXCEPT ![t] = NoObject]
    /\ aux'      = [aux EXCEPT ![t] = NoObject]
    /\ order'    = Without(order, t)

-----------------------------------------------------------------------------
(* Creation, and the first attempt of a lock or a semaphore wait.          *)

\* create_object and kernel_semaphore_create.
Create(t, o) ==
    /\ pc[t] = "user" /\ o \in fresh
    /\ fresh'  = fresh \ {o}
    /\ active' = active \cup {o}
    /\ IF o \in Semaphore
       THEN \E n \in 0..Maximum : /\ count'  = [count EXCEPT ![o] = n]
                                  /\ tokens' = [tokens EXCEPT ![o] = n]
       ELSE UNCHANGED <<count, tokens>>
    /\ UNCHANGED <<owner, waitVars, pc, callVars, held, posted>>

\* mutex_try_acquire succeeds for thread t.
MutexFree(m) == m \in active /\ owner[m] = NoThread

\* kernel_mutex_lock: taken at once, or on to thread_wait_begin.
MutexLock(t, m) ==
    /\ pc[t] = "user" /\ m \in active /\ owner[m] # t
    /\ IF MutexFree(m)
       THEN /\ owner' = [owner EXCEPT ![m] = t]
            /\ held'  = [held EXCEPT ![t] = @ \cup {m}]
            /\ UNCHANGED <<pc, on>>
       ELSE /\ Goto(t, "arm")
            /\ on' = [on EXCEPT ![t] = m]
            /\ UNCHANGED <<owner, held>>
    /\ UNCHANGED <<fresh, active, count, waitVars, with, who, left, after,
                   released, expired, late, tokens, posted>>

\* kernel_semaphore_wait, in the same way.
SemaphoreWait(t, s) ==
    /\ pc[t] = "user" /\ s \in active
    /\ IF count[s] # 0
       THEN /\ count'  = [count EXCEPT ![s] = @ - 1]
            /\ tokens' = [tokens EXCEPT ![s] = @ - 1]
            /\ UNCHANGED <<pc, on>>
       ELSE /\ Goto(t, "arm")
            /\ on' = [on EXCEPT ![t] = s]
            /\ UNCHANGED <<count, tokens>>
    /\ UNCHANGED <<fresh, active, owner, waitVars, with, who, left, after,
                   released, expired, late, held, posted>>

\* kernel_condition_wait resolves both handles and arms at once.
ConditionWait(t, c, m) ==
    /\ pc[t] = "user" /\ c \in active /\ m \in active
    /\ Disciplined => m \in held[t]
    /\ Goto(t, "arm")
    /\ on'   = [on EXCEPT ![t] = c]
    /\ with' = [with EXCEPT ![t] = m]
    /\ UNCHANGED <<objVars, waitVars, who, left, after, released, expired,
                   late, userVars>>

\* thread_wait_begin of all three.
Arm(t) ==
    /\ pc[t] = "arm"
    /\ \E timed \in {FALSE, on[t] \in Timed} : WaitBegin(t, Kind(on[t]), timed)
    /\ Stay(t, "set")
    /\ UNCHANGED <<objVars, userVars>>

\* thread_wait_set_objects; a wait that is over already makes the call fail.
SetObjects(t) ==
    /\ pc[t] = "set"
    /\ IF t \in pending
       THEN /\ obj' = [obj EXCEPT ![t] = on[t]]
            /\ aux' = [aux EXCEPT ![t] = with[t]]
            /\ Stay(t, IF on[t] \in Condition THEN "unlock" ELSE "retry")
       ELSE /\ Leave(t, "user")
            /\ UNCHANGED <<obj, aux>>
    /\ UNCHANGED <<objVars, pending, reason, result, deadline, order, userVars>>

\* Variant that trusts the attempt made before the wait was armed.
RetryNever(t) ==
    /\ pc[t] = "retry"
    /\ Leave(t, "blocked")
    /\ UNCHANGED <<objVars, waitVars, userVars>>

\* Variant that reports a token without taking it from the count.
RetryKeepsToken(t) ==
    /\ pc[t] = "retry"
    /\ IF on[t] \in Semaphore \cap active THEN Stay(t, "selfSignal") ELSE Leave(t, "blocked")
    /\ UNCHANGED <<objVars, waitVars, userVars>>

\* The final non-blocking attempt; its error is ignored.
Retry(t) ==
    LET o == on[t]
        taken == \/ o \in Mutex /\ MutexFree(o)
                 \/ o \in Semaphore /\ o \in active /\ count[o] # 0 IN
    /\ pc[t] = "retry"
    /\ owner' = IF taken /\ o \in Mutex THEN [owner EXCEPT ![o] = t] ELSE owner
    /\ count' = IF taken /\ o \in Semaphore THEN [count EXCEPT ![o] = @ - 1] ELSE count
    /\ IF taken THEN Stay(t, "selfSignal") ELSE Leave(t, "blocked")
    /\ UNCHANGED <<fresh, active, waitVars, userVars>>

\* Its thread_wait_signal; a wait that was completed meanwhile keeps its result.
SelfSignal(t) ==
    /\ pc[t] = "selfSignal"
    /\ WaitSignal(t, Kind(on[t]), "OK")
    /\ Leave(t, "blocked")
    /\ UNCHANGED <<objVars, userVars>>

\* The mutexes a completed call reports as held: a lock that succeeded, or a
\* condition wait that was signalled or timed out.
Reported(t) ==
    IF \/ result[t] = "OK"
       \/ result[t] = "TIMEOUT" /\ (reason[t] = "CONDITION" \/ aux[t] # NoObject)
    THEN Mutex \cap {obj[t], aux[t]} ELSE {}

\* complete_waiting_syscall64: the result reaches the program.
Resume(t) ==
    /\ pc[t] = "blocked" /\ t \notin pending
    /\ held'   = [held EXCEPT ![t] = @ \cup Reported(t)]
    /\ tokens' = [s \in Semaphore |-> IF s = obj[t] /\ result[t] = "OK"
                                      THEN tokens[s] - 1 ELSE tokens[s]]
    /\ WaitReset(t)
    /\ Goto(t, "user")
    /\ UNCHANGED <<objVars, callVars, posted>>

-----------------------------------------------------------------------------
(* Unlock and the hand-over to the oldest waiter.                          *)

\* The section of kernel_mutex_unlock.
MutexRelease(t, m) ==
    /\ m \in active /\ owner[m] = t
    /\ owner' = [owner EXCEPT ![m] = NoThread]
    /\ held'  = [held EXCEPT ![t] = @ \ {m}]
    /\ on'    = [on EXCEPT ![t] = m]
    /\ Goto(t, "wakeFind")
    /\ UNCHANGED <<fresh, active, count, waitVars, with, who, left, released,
                   expired, late, tokens, posted>>

MutexUnlock(t, m) ==
    /\ pc[t] = "user"
    /\ Disciplined => m \in held[t]
    /\ MutexRelease(t, m)
    /\ after' = [after EXCEPT ![t] = "user"]

\* The unlock inside kernel_condition_wait.
ConditionUnlock(t) ==
    /\ pc[t] = "unlock"
    /\ \/ /\ MutexRelease(t, with[t])
          /\ after' = [after EXCEPT ![t] = "blocked"]
       \/ /\ with[t] \notin active \/ owner[with[t]] # t
          /\ Stay(t, "unlockFailed")
          /\ UNCHANGED <<objVars, waitVars, userVars>>

ConditionUnlockFailed(t) ==
    /\ pc[t] = "unlockFailed"
    /\ WaitSignal(t, "CONDITION", "ERROR")
    /\ Leave(t, "blocked")
    /\ UNCHANGED <<objVars, userVars>>

\* wake_mutex_waiter: find the oldest waiter ...
WakeFind(t) ==
    LET w == Oldest("MUTEX", on[t]) IN
    /\ pc[t] = "wakeFind"
    /\ IF w = NoThread THEN Leave(t, after[t])
       ELSE /\ who' = [who EXCEPT ![t] = w]
            /\ Goto(t, "wakeAcquire")
            /\ UNCHANGED <<on, with, left, after, released, expired, late>>
    /\ UNCHANGED <<objVars, waitVars, userVars>>

\* ... take the mutex for it, unless somebody else has it ...
WakeAcquire(t) ==
    LET m == on[t] IN
    /\ pc[t] = "wakeAcquire"
    /\ IF MutexFree(m)
       THEN owner' = [owner EXCEPT ![m] = who[t]] /\ Stay(t, "wakeSignal")
       ELSE UNCHANGED owner /\ Leave(t, after[t])
    /\ UNCHANGED <<fresh, active, count, waitVars, userVars>>

\* ... complete its wait with the result it carries ...
WakeSignal(t) ==
    LET w == who[t]
        signalled == w \in pending /\ reason[w] = "MUTEX" IN
    /\ pc[t] = "wakeSignal"
    /\ WaitSignal(w, "MUTEX", result[w])
    /\ IF signalled THEN Leave(t, after[t]) ELSE Stay(t, "wakeUndo")
    /\ UNCHANGED <<objVars, userVars>>

\* Variant of the roll-back that does not look who owns the mutex.
WakeUndoBlind(t) ==
    LET m == on[t] IN
    /\ pc[t] = "wakeUndo"
    /\ owner' = IF m \in active THEN [owner EXCEPT ![m] = NoThread] ELSE owner
    /\ Stay(t, "wakeFind")
    /\ UNCHANGED <<fresh, active, count, waitVars, userVars>>

\* ... or take it back when the waiter has left, and try the next one.
WakeUndo(t) ==
    LET m == on[t] IN
    /\ pc[t] = "wakeUndo"
    /\ owner' = IF m \in active /\ owner[m] = who[t]
                THEN [owner EXCEPT ![m] = NoThread] ELSE owner
    /\ Stay(t, "wakeFind")
    /\ UNCHANGED <<fresh, active, count, waitVars, userVars>>

-----------------------------------------------------------------------------
(* kernel_semaphore_post.                                                  *)

SemaphorePost(t, s, n) ==
    /\ pc[t] = "user" /\ s \in active /\ posted + n <= PostBound
    /\ Goto(t, "postFind")
    /\ on'     = [on EXCEPT ![t] = s]
    /\ left'   = [left EXCEPT ![t] = n]
    /\ posted' = posted + n
    /\ UNCHANGED <<objVars, waitVars, with, who, after, released, expired,
                   late, held, tokens>>

PostFind(t) ==
    LET w == Oldest("SEMAPHORE", on[t]) IN
    /\ pc[t] = "postFind"
    /\ who' = [who EXCEPT ![t] = w]
    /\ Goto(t, IF w = NoThread THEN "postCount" ELSE "postSignal")
    /\ UNCHANGED <<objVars, waitVars, on, with, left, after, released,
                   expired, late, userVars>>

\* One post is made; the loop goes on or the call returns.
PostNext(t) ==
    IF left[t] = 1 THEN Leave(t, "user")
    ELSE /\ Goto(t, "postFind")
         /\ left' = [left EXCEPT ![t] = @ - 1]
         /\ UNCHANGED <<on, with, who, after, released, expired, late>>

\* A waiter takes the token directly.
PostSignal(t) ==
    LET w == who[t] IN
    /\ pc[t] = "postSignal"
    /\ WaitSignal(w, "SEMAPHORE", "OK")
    /\ IF w \in pending /\ reason[w] = "SEMAPHORE"
       THEN /\ PostNext(t)
            /\ tokens' = [tokens EXCEPT ![on[t]] = @ + 1]
       ELSE Stay(t, "postCount") /\ UNCHANGED tokens
    /\ UNCHANGED <<objVars, held, posted>>

PostRoom(s) == count[s] # Maximum

\* Nobody waits: count the token, up to the maximum.
PostCount(t) ==
    LET s == on[t] IN
    /\ pc[t] = "postCount"
    /\ IF s \in active /\ PostRoom(s)
       THEN /\ count'  = [count EXCEPT ![s] = @ + 1]
            /\ tokens' = [tokens EXCEPT ![s] = @ + 1]
            /\ PostNext(t)
       ELSE UNCHANGED <<count, tokens>> /\ Leave(t, "user")
    /\ UNCHANGED <<fresh, active, owner, waitVars, held, posted>>

-----------------------------------------------------------------------------
(* Condition signal, and the timer interrupt.                              *)

\* kernel_condition_signal; left = 2 stands for broadcast.
ConditionSignal(t, c, n) ==
    /\ pc[t] = "user" /\ c \in active
    /\ Disciplined => held[t] # {}
    /\ Goto(t, "condFind")
    /\ on'   = [on EXCEPT ![t] = c]
    /\ left' = [left EXCEPT ![t] = n]
    /\ UNCHANGED <<objVars, waitVars, with, who, after, released, expired,
                   late, userVars>>

CondFind(t) ==
    LET w == Oldest("CONDITION", on[t]) IN
    /\ pc[t] = "condFind"
    /\ IF w = NoThread THEN Leave(t, "user")
       ELSE /\ who' = [who EXCEPT ![t] = w]
            /\ Goto(t, "condTry")
            /\ UNCHANGED <<on, with, left, after, released, expired, late>>
    /\ UNCHANGED <<objVars, waitVars, userVars>>

\* finish_condition_wait: take the mutex of the waiter for it, or send the
\* waiter to the queue of the mutex, or report that there is no mutex to take.
CondTry(a) ==
    LET w == who[a]
        m == aux[w] IN
    /\ pc[a] = "condTry"
    /\ with' = [with EXCEPT ![a] = m]
    /\ IF m \in Mutex /\ MutexFree(m)
       THEN owner' = [owner EXCEPT ![m] = w] /\ Goto(a, "condSignal")
       ELSE /\ UNCHANGED owner
            /\ Goto(a, IF m \in Mutex \cap active /\ owner[m] # w
                       THEN "condRetarget" ELSE "condError")
    /\ UNCHANGED <<fresh, active, count, waitVars, on, who, left, after,
                   released, expired, late, userVars>>

\* The result of the wait: the timer completes waits with TIMEOUT.
Outcome(a) == IF a = Timer THEN "TIMEOUT" ELSE "OK"

\* One waiter is done: a broadcast looks for the next one.
CondNext(a) ==
    IF left[a] = 2
    THEN /\ Goto(a, "condFind")
         /\ with' = [with EXCEPT ![a] = NoObject]
         /\ UNCHANGED <<on, who, left, after, released, expired, late>>
    ELSE Leave(a, "user")

CondSignal(a) ==
    /\ pc[a] = "condSignal"
    /\ WaitSignal(who[a], "CONDITION", Outcome(a))
    /\ CondNext(a)
    /\ UNCHANGED <<objVars, userVars>>

CondError(a) ==
    /\ pc[a] = "condError"
    /\ WaitSignal(who[a], "CONDITION", "ERROR")
    /\ CondNext(a)
    /\ UNCHANGED <<objVars, userVars>>

\* Variant that reports the signal and forgets the mutex.
CondRetargetSignals(a) ==
    /\ pc[a] = "condRetarget"
    /\ WaitSignal(who[a], "CONDITION", Outcome(a))
    /\ CondNext(a)
    /\ UNCHANGED <<objVars, userVars>>

\* thread_wait_retarget: the wait goes on, on the mutex, without a deadline.
CondRetarget(a) ==
    LET w == who[a] IN
    /\ pc[a] = "condRetarget"
    /\ IF w \in pending /\ reason[w] = "CONDITION"
       THEN /\ reason'   = [reason EXCEPT ![w] = "MUTEX"]
            /\ obj'      = [obj EXCEPT ![w] = with[a]]
            /\ aux'      = [aux EXCEPT ![w] = obj[w]]
            /\ result'   = [result EXCEPT ![w] = Outcome(a)]
            /\ deadline' = deadline \ {w}
            /\ order'    = Append(Without(order, w), w)
            /\ UNCHANGED pending
       ELSE UNCHANGED waitVars
    /\ CondNext(a)
    /\ UNCHANGED <<objVars, userVars>>

\* process_wait_tick, the section under process_lock: the waits whose deadline
\* has passed lose it and are put on a list.
WaitTick(ts) ==
    /\ pc[Timer] = "user" /\ expired = {}
    /\ ts # {} /\ ts \subseteq pending \cap deadline
    /\ deadline' = deadline \ ts
    /\ expired'  = ts
    /\ UNCHANGED <<objVars, pending, reason, obj, aux, result, order, pc, on,
                   with, who, left, after, released, late, userVars>>

\* kernel_sync_timeout_thread reads the record of a thread on the list.
TimeoutThread(t) ==
    /\ pc[Timer] = "user" /\ t \in expired
    /\ expired' = expired \ {t}
    /\ IF t \in pending
       THEN /\ who'  = [who EXCEPT ![Timer] = t]
            /\ late' = reason[t]
            /\ Goto(Timer, IF reason[t] = "CONDITION" THEN "condTry" ELSE "timeout")
       ELSE UNCHANGED <<pc, who, late>>
    /\ UNCHANGED <<objVars, waitVars, on, with, left, after, released, userVars>>

\* Its thread_wait_signal.
TimeoutSignal ==
    /\ pc[Timer] = "timeout"
    /\ WaitSignal(who[Timer], late, "TIMEOUT")
    /\ Leave(Timer, "user")
    /\ UNCHANGED <<objVars, userVars>>

-----------------------------------------------------------------------------
(* Close and exit.                                                         *)

\* kernel_sync_release_handle_object: the object goes first ...
Close(t, o) ==
    /\ pc[t] = "user" /\ o \in active \cap Closable
    /\ active' = active \ {o}
    /\ owner'  = IF o \in Mutex THEN [owner EXCEPT ![o] = NoThread] ELSE owner
    /\ count'  = IF o \in Semaphore THEN [count EXCEPT ![o] = 0] ELSE count
    /\ held'   = [u \in Thread |-> held[u] \ {o}]
    /\ Goto(t, "cancel")
    /\ on'     = [on EXCEPT ![t] = o]
    /\ UNCHANGED <<fresh, waitVars, with, who, left, after, released, expired,
                   late, tokens, posted>>

\* ... then thread_wait_cancel_object ends the waits that name it.
CancelObject(t) ==
    LET ts == {u \in pending : on[t] \in {obj[u], aux[u]}} IN
    /\ pc[t] = "cancel"
    /\ pending'  = pending \ ts
    /\ deadline' = deadline \ ts
    /\ result'   = [u \in Thread |-> IF u \in ts THEN "CANCELLED" ELSE result[u]]
    /\ order'    = SelectSeq(order, LAMBDA u : u \notin ts)
    /\ Leave(t, "user")
    /\ UNCHANGED <<objVars, reason, obj, aux, userVars>>

\* kernel_sync_thread_exit: all mutexes of the thread are given up ...
SyncThreadExit(t) ==
    LET ms == {m \in Mutex \cap active : owner[m] = t} IN
    /\ pc[t] = "user"
    /\ owner'    = [m \in Mutex |-> IF m \in ms THEN NoThread ELSE owner[m]]
    /\ held'     = [held EXCEPT ![t] = {}]
    /\ released' = [released EXCEPT ![t] = ms]
    /\ Goto(t, "exit")
    /\ UNCHANGED <<fresh, active, count, waitVars, on, with, who, left, after,
                   expired, late, tokens, posted>>

\* ... and handed on one by one; thread_mark_exited ends the thread.
ExitWake(t) ==
    /\ pc[t] = "exit"
    /\ \/ /\ released[t] = {}
          /\ WaitReset(t)
          /\ Goto(t, "exited")
          /\ UNCHANGED <<on, after, released>>
       \/ \E m \in released[t] :
             /\ released' = [released EXCEPT ![t] = @ \ {m}]
             /\ on'    = [on EXCEPT ![t] = m]
             /\ after' = [after EXCEPT ![t] = "exit"]
             /\ Goto(t, "wakeFind")
             /\ UNCHANGED waitVars
    /\ UNCHANGED <<objVars, with, who, left, expired, late, userVars>>

-----------------------------------------------------------------------------
\* The steps a call makes by itself.
KernelStep(t) ==
    \/ Arm(t) \/ SetObjects(t) \/ Retry(t) \/ SelfSignal(t) \/ Resume(t)
    \/ ConditionUnlock(t) \/ ConditionUnlockFailed(t)
    \/ WakeFind(t) \/ WakeAcquire(t) \/ WakeSignal(t) \/ WakeUndo(t)
    \/ PostFind(t) \/ PostSignal(t) \/ PostCount(t)
    \/ CondFind(t) \/ CancelObject(t) \/ ExitWake(t)

\* finish_condition_wait, called by a thread or by the timer.
FinishStep(a) == CondTry(a) \/ CondSignal(a) \/ CondError(a) \/ CondRetarget(a)

\* The calls a program makes.
Call(t) ==
    \/ \E o \in Object : Create(t, o) \/ Close(t, o)
    \/ \E m \in Mutex : MutexLock(t, m) \/ MutexUnlock(t, m)
    \/ \E s \in Semaphore : \/ SemaphoreWait(t, s)
                            \/ \E n \in 1..2 : SemaphorePost(t, s, n)
    \/ \E c \in Condition : \/ \E m \in Mutex : ConditionWait(t, c, m)
                            \/ \E n \in 1..2 : ConditionSignal(t, c, n)
    \/ SyncThreadExit(t)

TimerStep ==
    \/ \E ts \in SUBSET Thread : WaitTick(ts)
    \/ \E t \in Thread : TimeoutThread(t)
    \/ TimeoutSignal

Next ==
    \/ \E t \in Thread : KernelStep(t) \/ Call(t)
    \/ \E a \in Actor : FinishStep(a)
    \/ TimerStep

Spec == Init /\ [][Next]_vars

-----------------------------------------------------------------------------
(* Properties.                                                             *)

Reason == {"NONE", "MUTEX", "SEMAPHORE", "CONDITION"}
Result == {"OK", "TIMEOUT", "CANCELLED", "ERROR"}

\* Every field holds a value the code gives it; a semaphore never exceeds its
\* maximum; the pending waits and the wait sequence agree.
TypeOK ==
    /\ fresh \subseteq Object /\ active \subseteq Object \ fresh
    /\ owner \in [Mutex -> Thread \cup {NoThread}]
    /\ count \in [Semaphore -> 0..Maximum]
    /\ pending \subseteq Thread /\ deadline \subseteq pending
    /\ {order[i] : i \in DOMAIN order} = pending /\ Len(order) = Cardinality(pending)
    /\ reason \in [Thread -> Reason] /\ result \in [Thread -> Result]
    /\ obj \in [Thread -> Object \cup {NoObject}]
    /\ aux \in [Thread -> Object \cup {NoObject}]
    /\ who \in [Actor -> Thread \cup {NoThread}]
    /\ held \in [Thread -> SUBSET Mutex]

\* "Mutex ownership ... remain[s] correct under contention and teardown": a
\* mutex a program was told it holds is owned by that thread, so no two
\* threads are in the same critical section.
MutexExclusion == \A t \in Thread : \A m \in held[t] \cap active : owner[m] = t

\* Somebody is on the way to hand m on.
Waking(m) ==
    \E t \in Thread : \/ /\ on[t] = m
                         /\ pc[t] \in {"wakeFind", "wakeAcquire", "wakeSignal", "wakeUndo"}
                      \/ m \in released[t]

\* "Owner exit ... cannot leak or deadlock": while a thread is blocked on a
\* mutex, the mutex has an owner or somebody is about to hand it on.
MutexNoLostWakeup ==
    \A t \in pending :
        pc[t] = "blocked" /\ reason[t] = "MUTEX" /\ obj[t] \in active
        => owner[obj[t]] # NoThread \/ Waking(obj[t])

\* "... without stale owner references": a mutex is not left with a thread
\* that has exited, unless the thread that put it there takes it back.
NoDeadOwner ==
    \A m \in active \cap Mutex, t \in Thread :
        pc[t] = "exited" /\ owner[m] = t => Waking(m)

\* The token a semaphore call has been given and has not reported yet.
Granted(t, s) ==
    \/ on[t] = s /\ pc[t] = "selfSignal"
    \/ t \notin pending /\ obj[t] = s /\ reason[t] = "SEMAPHORE" /\ result[t] = "OK"

InFlight(s) == Cardinality({t \in Thread : Granted(t, s)})

\* "Semaphore counts remain correct under contention": no wait succeeds
\* without a token that was there or was posted for it.
SemaphoreNoForgery ==
    \A s \in Semaphore \cap active : count[s] + InFlight(s) <= tokens[s]

\* Refuted: a thread does not stay blocked on a semaphore that has tokens.
SemaphoreNoLostWakeup ==
    \A t \in pending :
        pc[t] = "blocked" /\ reason[t] = "SEMAPHORE" /\ obj[t] \in active
        => \/ count[obj[t]] = 0
           \/ \E u \in Thread : on[u] = obj[t] /\ pc[u] # "user"

\* Refuted: a thread in user mode owns no mutex that it was not told it holds,
\* unless somebody is about to take it back.
NoLeakedMutex ==
    \A t \in Thread, m \in Mutex :
        owner[m] = t /\ pc[t] = "user" /\ (\A a \in Actor : who[a] # t) => m \in held[t]

\* Condition wait is "followed by mutex reacquisition before return": a wait
\* that ends with OK or TIMEOUT has its mutex, unless it was closed.  (A wait
\* that expires before its own unlock ends with an error and without it.)
ConditionReacquires ==
    [][\A t \in Thread, m \in Mutex \cap active :
          /\ pc[t] = "blocked" /\ pc'[t] = "user" /\ result[t] \in {"OK", "TIMEOUT"}
          /\ {obj[t], aux[t]} \cap Condition # {} /\ m \in {obj[t], aux[t]}
          => owner[m] = t]_vars

\* Refuted: "Object close cannot leak or deadlock", nobody stays blocked on an object
\* that is gone.
CloseCompletes ==
    \A t \in pending :
        pc[t] = "blocked" => \/ obj[t] \in active
                            \/ \E u \in Thread : pc[u] = "cancel" /\ on[u] = obj[t]

\* A mutex has the owner the programs believe in: the thread that was told it
\* holds it, and never one that has exited (thread_mutex_lock, _unlock and
\* thread_sync_release_thread).
MutexOwned == MutexExclusion /\ NoDeadOwner
=============================================================================
