--------------------------- MODULE BlockingReceive ---------------------------
(***************************************************************************)
(* Blocking receive: the system calls that wait for an IPC message         *)
(* (ipc_v2_wait, ipc_wait), for an input event, a key or a character, the  *)
(* senders and the input interrupt that wake them (kernel/ipc/ipc.cpp,     *)
(* kernel/input/input_events.cpp), timeouts and changes of input focus.    *)
(* A call looks into its queue, registers the wait under process_lock,     *)
(* looks again and only then parks; a sender queues under the queue's own  *)
(* lock and signals afterwards under process_lock.  No lock spans two of   *)
(* these steps.  Threads in Service belong to the process registered as    *)
(* the "input" service, the others to the application "app".  Messages are *)
(* counted; events keep the sort that the wakeup rules tell apart.         *)
(***************************************************************************)
EXTENDS Naturals, Sequences, FiniteSets

CONSTANTS
  Caller,        \* the threads that receive
  Service,       \* those of them that belong to the input service
  Sender,        \* the threads that send IPC messages to the application
  MailLimit,     \* IPC_MAILBOX_CAPACITY
  EventLimit,    \* INPUT_EVENT_QUEUE_CAPACITY
  Scenario       \* bounds: messages sent, events reported, changes of focus
                 \* and GUI session, and the reasons each thread waits for

Sort == {"char", "key", "pointer"}
Reason == {"IPC", "INPUT", "KEY", "CHAR"}

VARIABLES
  mail,          \* messages in the application's mailbox
  own,           \* the application's event queue
  global,        \* events in the kernel's global queue
  place,         \* where each caller is in its system call
  reason, pending, result, timed,   \* the wait_* fields of its context
  order,         \* the pending threads by wait_sequence
  sending,       \* senders between queueing and signalling
  irq,           \* the input interrupt: where it is and the event it holds
  focus, mover,  \* input_focus_pid, and where a change of focus is
  losing,        \* waits that were pending when the change of focus began
  gui, flush,    \* display_session_gui_active, and the discards that follow
  budget         \* what is left of the bounds

waitVars == <<place, reason, pending, result, timed, order>>
queueVars == <<mail, own, global>>
moveVars == <<focus, mover, losing, gui, flush>>
recvVars == <<waitVars, queueVars, moveVars, sending, irq, budget>>

Owner(t) == IF t \in Service THEN "input" ELSE "app"

RecvInit ==
  /\ mail = 0 /\ own = <<>> /\ global = 0
  /\ place = [t \in Caller |-> "user"]
  /\ reason = [t \in Caller |-> "none"]
  /\ pending = [t \in Caller |-> FALSE]
  /\ result = [t \in Caller |-> "OK"]
  /\ timed = [t \in Caller |-> FALSE]
  /\ order = <<>>
  /\ sending = {}
  /\ irq = [at |-> "idle", event |-> "none"]
  /\ focus = "app" /\ mover = "idle" /\ losing = {}
  /\ gui = FALSE /\ flush = {}
  /\ budget \in Scenario

Spend(f) == budget[f] > 0 /\ budget' = [budget EXCEPT ![f] = @ - 1]

-----------------------------------------------------------------------------
(* The queues.                                                             *)

\* input_event_queue_has_key, input_event_queue_has_character.
Wanted(r, e) ==
  CASE r = "KEY" -> e \in {"char", "key"}
    [] r = "CHAR" -> e = "char"
    [] OTHER -> TRUE

\* What the second look of a wait finds: process_ipc_mailbox_count,
\* input_events_pending or the scan of the process's event queue.
Held(t, r) ==
  CASE r = "IPC" -> mail # 0
    [] t \in Service -> global # 0
    [] OTHER -> \E i \in DOMAIN own : Wanted(r, own[i])

\* What a receive would find; the input service reads only while a GUI
\* session is active (pop_current_input_event).
Receivable(t, r) == Held(t, r) /\ (t \in Service /\ r # "IPC" => gui)

\* The queue behind the first wanted event: pop_process_key_event and
\* pop_process_character throw away what they pass over.
After(q, r) ==
  LET hits == {i \in DOMAIN q : Wanted(r, q[i])}
      first == CHOOSE i \in hits : \A j \in hits : i <= j
  IN  IF hits = {} THEN <<>> ELSE SubSeq(q, first + 1, Len(q))

\* One receive by thread t: ipc_receive_message_v2, input_events_pop or a pop
\* of the process's queue.  A receive that finds nothing leaves a mailbox
\* alone, but an own queue without what it wants is drained.
Receive(t, r) ==
  CASE r = "IPC" ->
         /\ mail' = IF mail # 0 THEN mail - 1 ELSE 0
         /\ UNCHANGED <<own, global>>
    [] t \in Service ->
         /\ global' = IF gui /\ global # 0 THEN global - 1 ELSE global
         /\ UNCHANGED <<own, mail>>
    [] OTHER -> own' = After(own, r) /\ UNCHANGED <<mail, global>>

-----------------------------------------------------------------------------
(* Waits, under process_lock.                                              *)

OffList(S) == SelectSeq(order, LAMBDA t : t \notin S)

\* thread_wait_signal_unlocked for every thread of S.
SignalAll(S, res) ==
  /\ pending' = [t \in Caller |-> pending[t] /\ t \notin S]
  /\ result' = [t \in Caller |-> IF t \in S THEN res ELSE result[t]]
  /\ timed' = [t \in Caller |-> timed[t] /\ t \notin S]
  /\ order' = OffList(S)
  /\ losing' = losing \ S
  /\ UNCHANGED reason

Waiting(p, r) == {t \in Caller : pending[t] /\ Owner(t) = p /\ reason[t] = r}

\* process_wait_signal: the oldest wait of process p for reason r, if any.
Oldest1(p, r) ==
  {t \in Waiting(p, r) :
     t = SelectSeq(order, LAMBDA u : u \in Waiting(p, r))[1]}

SignalOldest(p, r) == SignalAll(Oldest1(p, r), "OK")

\* The call's first look.  A receive that finds something returns it.  The
\* input service may not even look outside a GUI session, and a thread of a
\* process without the focus does not go on to wait.
MayWait(t, r) == r = "IPC" \/ t \in Service \/ focus = "app"

Call(t, r) ==
  /\ place[t] = "user" /\ r \in budget.waits[t]
  /\ Receive(t, r)
  /\ place' = [place EXCEPT ![t] =
              IF ~ Receivable(t, r) /\ MayWait(t, r)
                   /\ (t \in Service /\ r # "IPC" => gui)
                THEN "checked" ELSE "user"]
  /\ reason' = [reason EXCEPT ![t] = IF place'[t] = "checked" THEN r ELSE "none"]
  /\ UNCHANGED <<pending, result, timed, order, sending, irq, budget, moveVars>>

\* process_wait_begin, with or without a deadline.
BeginWait(t, deadline) ==
  /\ place[t] = "checked"
  /\ place' = [place EXCEPT ![t] = "registered"]
  /\ pending' = [pending EXCEPT ![t] = TRUE]
  /\ result' = [result EXCEPT ![t] = "OK"]
  /\ timed' = [timed EXCEPT ![t] = deadline]
  /\ order' = Append(order, t)
  /\ UNCHANGED <<reason, queueVars, moveVars, sending, irq, budget>>

\* A plausible slip: the call parks without a second look.
SecondLookSkipped(t) == FALSE

SecondLook(t) == Held(t, reason[t])

\* The second look reads the queue under the queue's lock ...
Look(t) ==
  /\ place[t] = "registered"
  /\ place' = [place EXCEPT ![t] = IF SecondLook(t) THEN "found" ELSE "parked"]
  /\ UNCHANGED <<reason, pending, result, timed, order, queueVars, moveVars,
                 sending, irq, budget>>

\* ... and wakes the oldest waiter, which need not be the caller.
WakeSelf(t) ==
  /\ place[t] = "found"
  /\ SignalOldest(Owner(t), reason[t])
  /\ place' = [place EXCEPT ![t] = "parked"]
  /\ UNCHANGED <<queueVars, focus, mover, gui, flush, sending, irq, budget>>

\* complete_waiting_syscall64 and thread_wait_reset: a thread woken with OK
\* receives again, and may come away empty.
Complete(t) ==
  /\ place[t] = "parked" /\ ~ pending[t]
  /\ IF result[t] = "OK" THEN Receive(t, reason[t]) ELSE UNCHANGED queueVars
  /\ place' = [place EXCEPT ![t] = "user"]
  /\ reason' = [reason EXCEPT ![t] = "none"]
  /\ result' = [result EXCEPT ![t] = "OK"]
  /\ UNCHANGED <<pending, timed, order, moveVars, sending, irq, budget>>

\* process_wait_tick past the deadline of t.
WaitTick(t) ==
  /\ pending[t] /\ timed[t]
  /\ SignalAll({t}, "TIMEOUT")
  /\ UNCHANGED <<place, queueVars, focus, mover, gui, flush, sending, irq, budget>>

-----------------------------------------------------------------------------
(* Senders and the input interrupt.                                        *)

\* ipc_send_message(_v2): the message is queued; a full mailbox refuses it.
SendQueue(s) ==
  /\ s \notin sending /\ Spend("mail")
  /\ IF mail < MailLimit
       THEN mail' = mail + 1 /\ sending' = sending \cup {s}
       ELSE UNCHANGED <<mail, sending>>
  /\ UNCHANGED <<own, global, waitVars, moveVars, irq>>

\* process_wait_signal(target, PROCESS_WAIT_IPC, OK).
SendSignal(s) ==
  /\ s \in sending
  /\ sending' = sending \ {s}
  /\ SignalOldest("app", "IPC")
  /\ UNCHANGED <<place, queueVars, focus, mover, gui, flush, irq, budget>>

Pushed(q, e) == IF Len(q) < EventLimit THEN Append(q, e) ELSE Append(Tail(q), e)

\* input_events_push: the global queue first ...
ReportEvent(e) ==
  /\ irq.at = "idle" /\ Spend("input")
  /\ global' = IF global < EventLimit THEN global + 1 ELSE global
  /\ irq' = [at |-> "route", event |-> e]
  /\ UNCHANGED <<mail, own, waitVars, moveVars, sending>>

\* ... then the GUI session and the focus decide who else is told ...
Route ==
  /\ irq.at = "route"
  /\ irq' = [irq EXCEPT !.at = IF gui THEN "service"
                               ELSE IF focus = "app" THEN "queue" ELSE "idle"]
  /\ UNCHANGED <<queueVars, waitVars, moveVars, sending, budget>>

\* ... the focused process's queue ...
QueueOwn ==
  /\ irq.at = "queue"
  /\ own' = Pushed(own, irq.event)
  /\ irq' = [irq EXCEPT !.at = IF irq.event = "pointer" THEN "INPUT" ELSE irq.event]
  /\ UNCHANGED <<mail, global, waitVars, moveVars, sending, budget>>

\* ... and the reason to signal: a character waiter, else a key waiter, else
\* an event waiter; process_wait_count and process_wait_signal take the lock
\* separately.
Choose ==
  \/ /\ irq.at = "char"
     /\ irq' = [irq EXCEPT !.at = IF Waiting("app", "CHAR") # {} THEN "CHAR" ELSE "key"]
     /\ UNCHANGED <<queueVars, waitVars, moveVars, sending, budget>>
  \/ /\ irq.at = "key"
     /\ irq' = [irq EXCEPT !.at = IF Waiting("app", "KEY") # {} THEN "KEY" ELSE "INPUT"]
     /\ UNCHANGED <<queueVars, waitVars, moveVars, sending, budget>>

Wake ==
  \/ /\ irq.at \in {"CHAR", "KEY", "INPUT"}
     /\ SignalOldest("app", irq.at)
     /\ irq' = [at |-> "idle", event |-> "none"]
     /\ UNCHANGED <<place, queueVars, focus, mover, gui, flush, sending, budget>>
  \/ /\ irq.at = "service"
     /\ SignalOldest("input", "INPUT")
     /\ irq' = [at |-> "idle", event |-> "none"]
     /\ UNCHANGED <<place, queueVars, focus, mover, gui, flush, sending, budget>>

-----------------------------------------------------------------------------
(* Focus and GUI session.                                                  *)

InputWaits == UNION {Waiting("app", r) : r \in {"INPUT", "KEY", "CHAR"}}

\* process_set_focus of another process while the application has the focus.
LoseFocus ==
  /\ mover = "idle" /\ focus = "app" /\ Spend("moves")
  /\ mover' = "INPUT" /\ losing' = InputWaits
  /\ UNCHANGED <<queueVars, waitVars, focus, gui, flush, sending, irq>>

NextCancel == [INPUT |-> "KEY", KEY |-> "CHAR", CHAR |-> "assign"]

\* process_wait_cancel of the old focus, one reason after the other.
CancelWaits ==
  /\ mover \in DOMAIN NextCancel
  /\ SignalAll(Waiting("app", mover), "CANCELLED")
  /\ mover' = NextCancel[mover]
  /\ UNCHANGED <<place, queueVars, focus, gui, flush, sending, irq, budget>>

MoveFocus ==
  /\ mover = "assign"
  /\ focus' = "other" /\ mover' = "idle"
  /\ UNCHANGED <<queueVars, waitVars, losing, gui, flush, sending, irq, budget>>

\* process_set_focus of the application; nobody of the old focus waits here.
GainFocus ==
  /\ mover = "idle" /\ focus = "other" /\ Spend("moves")
  /\ focus' = "app"
  /\ UNCHANGED <<queueVars, waitVars, mover, losing, gui, flush, sending, irq>>

\* A GUI session is committed, or ends: either is followed by a discard of
\* the global queue, and a new session begins only after the discard of the
\* restore.
GuiBegin ==
  /\ ~ gui /\ "restored" \notin flush /\ Spend("moves")
  /\ gui' = TRUE /\ flush' = flush \cup {"acquired"}
  /\ UNCHANGED <<queueVars, waitVars, focus, mover, losing, sending, irq>>

GuiEnd ==
  /\ gui /\ Spend("moves")
  /\ gui' = FALSE /\ flush' = flush \cup {"restored"}
  /\ UNCHANGED <<queueVars, waitVars, focus, mover, losing, sending, irq>>

DiscardAll ==
  \E call \in flush :
    /\ global' = 0 /\ flush' = flush \ {call}
    /\ UNCHANGED <<mail, own, waitVars, focus, mover, losing, gui, sending, irq, budget>>

CallerStep(t) == (\E d \in BOOLEAN : BeginWait(t, d)) \/ Look(t) \/ WakeSelf(t) \/ Complete(t)
KernelStep == Route \/ QueueOwn \/ Choose \/ Wake \/ CancelWaits \/ MoveFocus \/ DiscardAll

RecvNext ==
  \/ \E t \in Caller :
       CallerStep(t) \/ WaitTick(t) \/ (\E r \in Reason : Call(t, r))
  \/ \E s \in Sender : SendQueue(s) \/ SendSignal(s)
  \/ \E e \in Sort : ReportEvent(e)
  \/ KernelStep
  \/ LoseFocus \/ GainFocus \/ GuiBegin \/ GuiEnd

\* A thread in the kernel, a sender and the interrupt run on; a caller in
\* user mode need not call again, and nobody need send.
RecvFairness ==
  /\ \A t \in Caller : WF_recvVars(CallerStep(t))
  /\ \A s \in Sender : WF_recvVars(SendSignal(s))
  /\ WF_recvVars(KernelStep)

RecvSpec == RecvInit /\ [][RecvNext]_recvVars /\ RecvFairness

-----------------------------------------------------------------------------
\* Threads of (p, r) that will still take their second look, and threads
\* that were woken and will still receive.
Looking(p, r) ==
  {t \in Caller : Owner(t) = p /\ reason[t] = r /\ place[t] \in {"registered", "found"}}
Woken(p, r) ==
  {t \in Caller : /\ Owner(t) = p /\ reason[t] = r /\ place[t] # "checked"
                  /\ ~ pending[t] /\ result[t] = "OK"}

Stuck(p, r) == {t \in Waiting(p, r) : place[t] = "parked"}

\* Types of the blocking calls; a pending wait is on the list, in order, once.
RecvTypeOK ==
  /\ mail \in 0 .. MailLimit /\ global \in 0 .. EventLimit /\ Len(own) <= EventLimit
  /\ place \in [Caller -> {"user", "checked", "registered", "found", "parked"}]
  /\ \A t \in Caller : pending[t] <=> \E i \in DOMAIN order : order[i] = t
  /\ \A i, j \in DOMAIN order : order[i] = order[j] => i = j
  /\ \A t \in Caller : pending[t] => place[t] \in {"registered", "found", "parked"}

\* No IPC wakeup is lost: a thread is parked beside a mailbox that holds a
\* message only while a woken thread is on its way to the mailbox, a sender is
\* about to signal, or a call is about to look again.
MailWakeups ==
  (Stuck("app", "IPC") # {} /\ mail # 0) =>
    Looking("app", "IPC") \cup Woken("app", "IPC") # {} \/ sending # {}

\* No input wakeup is lost: a thread parked for an event, a key or a
\* character has no such event in its queue unless the interrupt has yet to
\* signal or a woken thread has yet to look.
InputWakeups ==
  \A r \in {"INPUT", "KEY", "CHAR"} :
    (Stuck("app", r) # {} /\ irq.at \in {"idle", "route"}) =>
      \/ Looking("app", r) \cup Woken("app", r) # {}
      \/ \A i \in DOMAIN own : ~ Wanted(r, own[i])

\* The input service is never left parked beside a queued event in an
\* active GUI session, whatever the order of session changes and events.
ServiceWakeups ==
  (gui /\ flush = {} /\ irq.at = "idle" /\ Stuck("input", "INPUT") # {}) =>
    global = 0 \/ Looking("input", "INPUT") \cup Woken("input", "INPUT") # {}

\* A change of focus leaves none of the waits behind that the old focus had
\* when it began.
FocusLossCancels == mover = "idle" => losing = {}

\* A thread parked for a message does not stay parked while messages are
\* waiting for it.
MailReceived ==
  \A t \in Caller :
    (place[t] = "parked" /\ reason[t] = "IPC" /\ mail # 0) ~> (place[t] # "parked" \/ mail = 0)
=============================================================================
