------------------------------ MODULE Spinlock ------------------------------
(***************************************************************************)
(* The kernel's ordinary spinlock (kernel/sync/spinlock.cpp): an irqsave   *)
(* lock with a per-CPU LIFO stack of held locks, a lock-class order that   *)
(* is enforced at acquisition, a preemption-disable count, and the         *)
(* TLB_WAIT barrier, a phase in which a CPU waits for remote               *)
(* acknowledgements with interrupts on and may own no ordinary lock.       *)
(*                                                                         *)
(* A CPU executes one context at a time.  An interrupt may be delivered    *)
(* whenever its interrupt flag is set; the handler then runs on the same   *)
(* CPU-local lock stack until it returns, exactly as the code's CpuLocal   *)
(* record is shared by thread context and handlers.                        *)
(***************************************************************************)
EXTENDS Integers, Sequences

CONSTANTS CPU,             \* the logical processors
          Lock,            \* the ordinary spinlocks
          Class,           \* Class[l]: the lock class given to kernel_spinlock_init
          MaxClass,        \* KERNEL_LOCK_CLASS_VFS_DEVICE
          StackMax,        \* KERNEL_LOCK_STACK_MAX
          NoOwner          \* KERNEL_LOCK_NO_OWNER

\* Every lock of the kernel is initialised with one of the classes
\* PROCESS .. VFS_DEVICE; class NONE (0) never reaches the spinning loop.
ASSUME SpinlockAssumption ==
    /\ MaxClass \in Nat
    /\ StackMax \in Nat \ {0}
    /\ Class \in [Lock -> 0..MaxClass]
    /\ NoOwner \notin CPU \cup Lock

VARIABLES
    owner,       \* owner[l]: lock->owner_cpu, NoOwner exactly while lock->locked = 0
    held,        \* held[c]: local->held_locks[0 .. held_lock_depth-1]
    token,       \* token[c]: interrupt_flags (IF) of the token of each held lock
    preempt,     \* preempt[c]: local->preemption_disable_count
    tlbWait,     \* tlbWait[c]: local->tlb_wait_depth
    IF_,         \* IF_[c]: the interrupt flag of the processor, 0 or 1
    want,        \* want[c]: the lock c is spinning on, or NoOwner
    wantIF,      \* wantIF[c]: interrupt_flags of the token being acquired
    inIrq        \* inIrq[c]: local->interrupt_depth, 1 while a handler executes

spinVars == <<owner, held, token, preempt, tlbWait, IF_, want, wantIF, inIrq>>

Depth(c)    == Len(held[c])
Top(c)      == held[c][Depth(c)]
Spinning(c) == want[c] # NoOwner

SpinInit ==
    /\ owner   = [l \in Lock |-> NoOwner]
    /\ held    = [c \in CPU |-> << >>]
    /\ token   = [c \in CPU |-> << >>]
    /\ preempt = [c \in CPU |-> 0]
    /\ tlbWait = [c \in CPU |-> 0]
    /\ IF_     = [c \in CPU |-> 1]
    /\ want    = [c \in CPU |-> NoOwner]
    /\ wantIF  = [c \in CPU |-> 1]
    /\ inIrq   = [c \in CPU |-> 0]

-----------------------------------------------------------------------------
(* kernel_spinlock_acquire: the checks, made with interrupts already off.  *)

\* Variant used to show that the order property depends on the strict test.
AcquireAllowedSameClass(c, l) ==
    /\ tlbWait[c] = 0
    /\ Class[l] # 0
    /\ Class[l] <= MaxClass
    /\ Depth(c) < StackMax
    /\ Depth(c) # 0 => /\ Top(c) # l
                       /\ Class[l] >= Class[Top(c)]

AcquireAllowed(c, l) ==
    /\ tlbWait[c] = 0
    /\ Class[l] # 0
    /\ Class[l] <= MaxClass
    /\ Depth(c) < StackMax
    /\ Depth(c) # 0 => /\ Top(c) # l
                       /\ Class[l] > Class[Top(c)]

\* The request passes every check: preemption and interrupts are disabled and
\* the CPU enters the exchange loop.
AcquireEnter(c, l) ==
    /\ ~Spinning(c)
    /\ AcquireAllowed(c, l)
    /\ wantIF'  = [wantIF EXCEPT ![c] = IF_[c]]
    /\ IF_'     = [IF_ EXCEPT ![c] = 0]
    /\ preempt' = [preempt EXCEPT ![c] = @ + 1]
    /\ want'    = [want EXCEPT ![c] = l]
    /\ UNCHANGED <<owner, held, token, tlbWait, inIrq>>

\* A rejected request restores the interrupt flag and the preemption count
\* before it returns 0, so only the failure result is visible.
AcquireReject(c, l) ==
    /\ ~Spinning(c)
    /\ ~AcquireAllowed(c, l)
    /\ UNCHANGED spinVars

\* The atomic exchange finds the lock free: the CPU becomes owner and pushes
\* the lock.  A failing exchange (the pause loop) changes nothing.
AcquireExchange(c) ==
    /\ Spinning(c)
    /\ owner[want[c]] = NoOwner
    /\ owner' = [owner EXCEPT ![want[c]] = c]
    /\ held'  = [held EXCEPT ![c] = Append(@, want[c])]
    /\ token' = [token EXCEPT ![c] = Append(@, wantIF[c])]
    /\ want'  = [want EXCEPT ![c] = NoOwner]
    /\ UNCHANGED <<preempt, tlbWait, IF_, wantIF, inIrq>>

\* Variant that does not insist on the top of the stack.
ReleaseAllowedAnyDepth(c, l) ==
    /\ owner[l] = c
    /\ Depth(c) # 0
    /\ preempt[c] # 0

\* kernel_spinlock_release: only the owner CPU, and only the top of its stack.
ReleaseAllowed(c, l) ==
    /\ owner[l] = c
    /\ Depth(c) # 0
    /\ Top(c) = l
    /\ preempt[c] # 0

\* interrupt_restore only ever sets the flag: a token that saved "disabled"
\* leaves the flag as it is.
InterruptRestore(c, flag) == IF flag = 1 THEN [IF_ EXCEPT ![c] = 1] ELSE IF_

\* The owner pops its top lock, unlocks it, enables preemption and restores
\* the flag saved in the lock's token.
Release(c, l) ==
    /\ ~Spinning(c)
    /\ ReleaseAllowed(c, l)
    /\ held'    = [held EXCEPT ![c] = SubSeq(@, 1, Depth(c) - 1)]
    /\ token'   = [token EXCEPT ![c] = SubSeq(@, 1, Depth(c) - 1)]
    /\ owner'   = [owner EXCEPT ![l] = NoOwner]
    /\ preempt' = [preempt EXCEPT ![c] = @ - 1]
    /\ IF_'     = InterruptRestore(c, token[c][Depth(c)])
    /\ UNCHANGED <<tlbWait, want, wantIF, inIrq>>

\* Any other release is counted as a violation and changes no lock state.
ReleaseReject(c, l) ==
    /\ ~Spinning(c)
    /\ ~ReleaseAllowed(c, l)
    /\ UNCHANGED spinVars

-----------------------------------------------------------------------------
(* The TLB_WAIT barrier.                                                   *)

TlbWaitEnter(c) ==
    /\ ~Spinning(c)
    /\ Depth(c) = 0
    /\ IF_[c] = 1
    /\ tlbWait[c] = 0
    /\ preempt' = [preempt EXCEPT ![c] = @ + 1]
    /\ tlbWait' = [tlbWait EXCEPT ![c] = 1]
    /\ UNCHANGED <<owner, held, token, IF_, want, wantIF, inIrq>>

\* Only the context that entered the phase leaves it: handlers return first.
TlbWaitLeave(c) ==
    /\ ~Spinning(c)
    /\ inIrq[c] = 0
    /\ tlbWait[c] = 1
    /\ preempt[c] # 0
    /\ tlbWait' = [tlbWait EXCEPT ![c] = 0]
    /\ preempt' = [preempt EXCEPT ![c] = @ - 1]
    /\ UNCHANGED <<owner, held, token, IF_, want, wantIF, inIrq>>

-----------------------------------------------------------------------------
(* The processor: interrupt delivery through an interrupt gate, iret, and  *)
(* the cli / sti a lock-free kernel context executes around its waits.     *)

Interrupt(c) ==
    /\ IF_[c] = 1
    /\ inIrq[c] = 0
    /\ inIrq' = [inIrq EXCEPT ![c] = 1]
    /\ IF_'   = [IF_ EXCEPT ![c] = 0]
    /\ UNCHANGED <<owner, held, token, preempt, tlbWait, want, wantIF>>

\* A handler returns once it has released the locks it took.
InterruptReturn(c) ==
    /\ inIrq[c] = 1
    /\ ~Spinning(c)
    /\ Depth(c) = 0
    /\ inIrq' = [inIrq EXCEPT ![c] = 0]
    /\ IF_'   = [IF_ EXCEPT ![c] = 1]
    /\ UNCHANGED <<owner, held, token, preempt, tlbWait, want, wantIF>>

\* "sti" before TLB_WAIT and "cli" after it, in thread context.
ToggleInterrupts(c) ==
    /\ ~Spinning(c)
    /\ inIrq[c] = 0
    /\ Depth(c) = 0
    /\ tlbWait[c] = 0
    /\ IF_' = [IF_ EXCEPT ![c] = 1 - @]
    /\ UNCHANGED <<owner, held, token, preempt, tlbWait, want, wantIF, inIrq>>

-----------------------------------------------------------------------------
SpinNext ==
    \E c \in CPU :
        \/ \E l \in Lock : AcquireEnter(c, l) \/ AcquireReject(c, l)
        \/ AcquireExchange(c)
        \/ \E l \in Lock : Release(c, l) \/ ReleaseReject(c, l)
        \/ TlbWaitEnter(c)
        \/ TlbWaitLeave(c)
        \/ Interrupt(c)
        \/ InterruptReturn(c)
        \/ ToggleInterrupts(c)

SpinSpec == SpinInit /\ [][SpinNext]_spinVars

-----------------------------------------------------------------------------
(* Properties.                                                             *)

SpinTypeOK ==
    /\ owner   \in [Lock -> CPU \cup {NoOwner}]
    /\ held    \in [CPU -> Seq(Lock)]
    /\ token   \in [CPU -> Seq({0, 1})]
    /\ preempt \in [CPU -> Nat]
    /\ tlbWait \in [CPU -> {0, 1}]
    /\ IF_     \in [CPU -> {0, 1}]
    /\ want    \in [CPU -> Lock \cup {NoOwner}]
    /\ wantIF  \in [CPU -> {0, 1}]
    /\ inIrq   \in [CPU -> {0, 1}]

Holds(c, l) == \E i \in 1..Depth(c) : held[c][i] = l

\* A lock is on the stack of exactly the CPU recorded as its owner, once, and
\* on no stack while it is free: lock->locked, lock->owner_cpu and the CPU-local
\* lock stacks never disagree, whatever handlers and releases interleave.
OwnershipExact ==
    /\ \A c \in CPU, l \in Lock : owner[l] = c <=> Holds(c, l)
    /\ \A c \in CPU : \A i, j \in 1..Depth(c) :
           held[c][i] = held[c][j] => i = j

\* The locks a CPU holds, handler and interrupted context together, have
\* strictly increasing classes, and so has the lock it spins on.
ClassOrder ==
    \A c \in CPU :
        /\ \A i, j \in 1..Depth(c) :
               i < j => Class[held[c][i]] < Class[held[c][j]]
        /\ Spinning(c) => \A i \in 1..Depth(c) :
               Class[held[c][i]] < Class[want[c]]

\* No set of CPUs can wait for each other in the exchange loop: a set in which
\* every member spins on a lock owned by a member does not exist.  The case of
\* one CPU is the handler that spins on a lock of the context it interrupted.
NoSpinCycle ==
    \A S \in SUBSET CPU :
        (\A c \in S : Spinning(c) /\ owner[want[c]] \in S) => S = {}

\* While a CPU owns or spins on an ordinary lock its interrupts are off, so no
\* handler runs inside a critical section.
IrqsOffWhileHolding ==
    \A c \in CPU : Depth(c) # 0 \/ Spinning(c) => IF_[c] = 0

\* preemption_disable_count is exactly the number of reasons not to schedule:
\* kernel_spinlock_assert_can_schedule cannot stay blocked after the last
\* release, nor succeed inside a critical section or TLB_WAIT.
PreemptBalanced ==
    \A c \in CPU :
        preempt[c] = Depth(c) + tlbWait[c] + (IF Spinning(c) THEN 1 ELSE 0)

\* TLB_WAIT and ordinary locks exclude each other on a CPU, handlers included,
\* and the waiting context itself has interrupts on, so that it can answer the
\* shootdown requests of the CPUs it waits for.
TlbWaitExcludesLocks ==
    \A c \in CPU : tlbWait[c] = 1 =>
        /\ Depth(c) = 0
        /\ ~Spinning(c)
        /\ inIrq[c] = 1 \/ IF_[c] = 1

\* A CPU that gives back its last lock gets back the interrupt flag that the
\* outermost acquisition saved: a critical section neither enables nor leaks
\* disabled interrupts, however deeply it nested.
LastReleaseRestoresIF ==
    [][\A c \in CPU :
           (Depth(c) # 0 /\ Len(held'[c]) = 0) => IF_'[c] = token[c][1]]_spinVars

\* The saved flags: tokens parallel the lock stack, and every acquisition but
\* the outermost saved "disabled".
TokensNested ==
    \A c \in CPU :
        /\ Len(token[c]) = Depth(c)
        /\ \A i \in 1..Depth(c) : i > 1 => token[c][i] = 0
        /\ Spinning(c) /\ Depth(c) # 0 => wantIF[c] = 0

\* The inductive invariant: the stated properties and the nesting of tokens.
IInv ==
    /\ SpinTypeOK
    /\ OwnershipExact
    /\ ClassOrder
    /\ IrqsOffWhileHolding
    /\ PreemptBalanced
    /\ TlbWaitExcludesLocks
    /\ TokensNested

\* The lock words, the lock stacks, the order of classes, the interrupt flag,
\* the preemption count and TLB_WAIT agree on every CPU at every step of
\* kernel_spinlock_acquire, _release and the barrier, handlers included.
LockDiscipline ==
    /\ OwnershipExact /\ ClassOrder
    /\ IrqsOffWhileHolding /\ PreemptBalanced /\ TlbWaitExcludesLocks
=============================================================================
