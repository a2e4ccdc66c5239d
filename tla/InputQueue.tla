----------------------------- MODULE InputQueue -----------------------------
(***************************************************************************)
(* An input event queue (kernel/input/input_event_queue.cpp): the ring     *)
(* behind the kernel's global queue and the queue of every process.  A     *)
(* full queue gives up its oldest event.  Each operation runs under the    *)
(* queue's lock.                                                           *)
(***************************************************************************)
EXTENDS Naturals, Sequences

CONSTANTS
  Event,         \* the events the drivers report
  NoEvent,       \* what clear_event leaves in a slot
  EventSlots,    \* INPUT_EVENT_QUEUE_CAPACITY
  MaxEvents      \* bound on the events delivered and dropped

ASSUME EventSlotsAssumption == EventSlots \in Nat \ {0}

VARIABLES events, ehead, etail, ecount, edelivered, edropped

eventVars == <<events, ehead, etail, ecount, edelivered, edropped>>

EventIndex == 0 .. EventSlots - 1

EventInit ==
  /\ events = [i \in EventIndex |-> NoEvent]
  /\ ehead = 0 /\ etail = 0 /\ ecount = 0 /\ edelivered = 0 /\ edropped = 0

Advance(i) == (i + 1) % EventSlots

\* push_unlocked, called with room in the queue.
PushUnlocked(e, slots, count) ==
  /\ events' = [slots EXCEPT ![etail] = e]
  /\ etail' = Advance(etail)
  /\ ecount' = count + 1

\* input_event_queue_push.  A full queue is left as it is.
EventPush(e) ==
  /\ ecount # EventSlots
  /\ PushUnlocked(e, events, ecount)
  /\ UNCHANGED <<ehead, edelivered, edropped>>

\* The oldest event is cleared, then the new one is stored.
MakeRoom(e) == PushUnlocked(e, [events EXCEPT ![ehead] = NoEvent], ecount - 1)

\* input_event_queue_push_drop_oldest.
EventPushDropOldest(e) ==
  \/ EventPush(e)
  \/ /\ ecount = EventSlots
     /\ ehead' = Advance(ehead)
     /\ edropped' = edropped + 1
     /\ MakeRoom(e)
     /\ UNCHANGED edelivered

\* input_event_queue_pop.
EventPop ==
  /\ ecount # 0
  /\ events' = [events EXCEPT ![ehead] = NoEvent]
  /\ ehead' = Advance(ehead)
  /\ ecount' = ecount - 1
  /\ edelivered' = edelivered + 1
  /\ UNCHANGED <<etail, edropped>>

EventNext ==
  /\ edelivered + edropped < MaxEvents
  /\ \/ \E e \in Event : EventPushDropOldest(e)
     \/ EventPop

EventSpec == EventInit /\ [][EventNext]_eventVars

-----------------------------------------------------------------------------
EventContents == [i \in 1 .. ecount |-> events[(ehead + i - 1) % EventSlots]]

Always(f, e) == TRUE

EventQueue == INSTANCE MessageQueue WITH
  queue <- EventContents, delivered <- edelivered, dropped <- edropped,
  Item <- Event, Capacity <- EventSlots, Filter <- {0}, Selected <- Always

\* The event ring implements the abstract queue: events are delivered in the
\* order they arrived and a full queue loses exactly its oldest event, which
\* it counts.
EventRingImplementsQueue == EventQueue!QueueSpec

\* Types of the event ring.
EventTypeOK ==
  /\ events \in [EventIndex -> Event \cup {NoEvent}]
  /\ ehead \in EventIndex /\ etail \in EventIndex /\ ecount \in 0 .. EventSlots
  /\ etail = (ehead + ecount) % EventSlots
=============================================================================
