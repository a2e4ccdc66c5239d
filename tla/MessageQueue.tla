---------------------------- MODULE MessageQueue ----------------------------
(***************************************************************************)
(* What a bounded kernel message queue promises its callers, with no ring  *)
(* behind it: a sequence of at most Capacity items, a count of the items   *)
(* handed to a receiver and a count of the items thrown away.  The IPC     *)
(* mailbox of a process (IpcMailbox) and the input event queues            *)
(* (InputQueue) are shown to implement this module.                        *)
(***************************************************************************)
EXTENDS Naturals, Sequences

CONSTANTS Item, Capacity, Filter, Selected(_, _)

VARIABLES queue, delivered, dropped

QueueVars == <<queue, delivered, dropped>>

\* The sequence q without its k-th item; the others keep their order.
Without(q, k) == [i \in 1 .. Len(q) - 1 |-> IF i < k THEN q[i] ELSE q[i + 1]]

\* The sequence q with the item m behind its last one.
Behind(q, m) == [i \in 1 .. Len(q) + 1 |-> IF i <= Len(q) THEN q[i] ELSE m]

QueueInit == queue = <<>> /\ delivered = 0 /\ dropped = 0

\* An item is accepted behind the others.
Accept(m) ==
  /\ Len(queue) < Capacity
  /\ queue' = Behind(queue, m)
  /\ UNCHANGED <<delivered, dropped>>

\* A full queue refuses an item and counts it.
Refuse ==
  /\ Len(queue) = Capacity
  /\ dropped' = dropped + 1
  /\ UNCHANGED <<queue, delivered>>

\* A full queue gives up its oldest item for a new one.
Displace(m) ==
  /\ Len(queue) = Capacity
  /\ queue' = Behind(Without(queue, 1), m)
  /\ dropped' = dropped + 1
  /\ UNCHANGED delivered

\* A receiver takes the oldest item its filter selects, and no other.
Deliver(f, k) ==
  /\ Selected(f, queue[k])
  /\ \A j \in 1 .. k - 1 : ~ Selected(f, queue[j])
  /\ queue' = Without(queue, k)
  /\ delivered' = delivered + 1
  /\ UNCHANGED dropped

\* Everything queued is thrown away at once.
Discard ==
  /\ queue' = <<>>
  /\ dropped' = dropped + Len(queue)
  /\ UNCHANGED delivered

QueueNext ==
  \/ \E m \in Item : Accept(m) \/ Displace(m)
  \/ Refuse
  \/ \E f \in Filter, k \in 1 .. Len(queue) : Deliver(f, k)
  \/ Discard

QueueSpec == QueueInit /\ [][QueueNext]_QueueVars
=============================================================================
