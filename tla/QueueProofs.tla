----------------------------- MODULE QueueProofs -----------------------------
(***************************************************************************)
(* The ring of input events and the ring of IPC messages implement the     *)
(* bounded queue of MessageQueue, for every capacity, every set of items   *)
(* and every filter.                                                       *)
(***************************************************************************)
EXTENDS IpcMailbox, InputQueue, Integers, TLAPS

USE EventSlotsAssumption, MailSlotsAssumption

\* Below twice the capacity, the remainder is one conditional subtraction.
LEMMA ModSmall ==
  ASSUME NEW N \in Nat \ {0}, NEW i \in 0 .. (2 * N - 1)
  PROVE  i % N = IF i < N THEN i ELSE i - N
  <1>1. i < N => i % N = i
    BY Z3
  <1>2. i >= N => i % N = i - N
    BY Z3
  <1> QED
    BY <1>1, <1>2

\* A function on 1 .. n is a sequence of length n.
LEMMA LenOfRun ==
  ASSUME NEW n \in Nat, NEW S, NEW f \in [1 .. n -> S]
  PROVE  f \in Seq(S) /\ Len(f) = n
  OBVIOUS

-----------------------------------------------------------------------------
(***************************************************************************)
(* The event ring.                                                         *)
(***************************************************************************)
EventWrap(i) == IF i < EventSlots THEN i ELSE i - EventSlots

EventCell == Event \cup {NoEvent}

\* EventTypeOK with the remainder written out.
EventRing ==
  /\ events \in [EventIndex -> EventCell]
  /\ ehead \in EventIndex /\ etail \in EventIndex /\ ecount \in 0 .. EventSlots
  /\ etail = EventWrap(ehead + ecount)

\* The queue behind the ring, with the remainder written out.
EventRun == [i \in 1 .. ecount |-> events[EventWrap(ehead + i - 1)]]

LEMMA EventAdvance ==
  ASSUME NEW i \in EventIndex
  PROVE  Advance(i) = EventWrap(i + 1)
  <1>1. i + 1 \in 0 .. (2 * EventSlots - 1)
    BY DEF EventIndex
  <1> QED
    BY <1>1, ModSmall DEF Advance, EventWrap

LEMMA EventRingType == EventTypeOK <=> EventRing
  <1>1. ASSUME ehead \in EventIndex, ecount \in 0 .. EventSlots
        PROVE  (ehead + ecount) % EventSlots = EventWrap(ehead + ecount)
    <2>1. ehead + ecount \in 0 .. (2 * EventSlots - 1)
      BY <1>1 DEF EventIndex
    <2> QED
      BY <2>1, ModSmall DEF EventWrap
  <1> QED
    BY <1>1 DEF EventTypeOK, EventRing, EventCell

LEMMA EventRunContents ==
  EventRing => /\ EventContents = EventRun
               /\ EventContents \in Seq(EventCell)
               /\ Len(EventContents) = ecount
  <1> HAVE EventRing
  <1>1. ASSUME NEW i \in 1 .. ecount
        PROVE  /\ (ehead + i - 1) % EventSlots = EventWrap(ehead + i - 1)
               /\ EventWrap(ehead + i - 1) \in EventIndex
    <2>1. ehead + i - 1 \in 0 .. (2 * EventSlots - 1)
      BY DEF EventIndex, EventRing
    <2> QED
      BY <2>1, ModSmall DEF EventWrap, EventIndex
  <1>2. EventContents = EventRun
    BY <1>1 DEF EventContents, EventRun
  <1>3. ecount \in Nat /\ EventRun \in [1 .. ecount -> EventCell]
    BY <1>1 DEF EventRun, EventRing
  <1> QED
    BY <1>2, <1>3, LenOfRun

LEMMA EventRingInit == EventInit => EventRing
  BY DEF EventInit, EventRing, EventWrap, EventIndex, EventCell

LEMMA EventRingStep == EventRing /\ [EventNext]_eventVars => EventRing'
  <1> SUFFICES ASSUME EventRing, [EventNext]_eventVars PROVE EventRing'
    OBVIOUS
  <1> USE DEF EventRing, EventIndex, EventCell, EventWrap
  <1>1. ASSUME NEW e \in Event, EventPush(e) PROVE EventRing'
    BY <1>1, EventAdvance DEF EventPush, PushUnlocked
  <1>2. ASSUME NEW e \in Event, ecount = EventSlots, ehead' = Advance(ehead), MakeRoom(e)
        PROVE  EventRing'
    BY <1>2, EventAdvance DEF MakeRoom, PushUnlocked
  <1>3. CASE EventPop
    <2>1. ehead' = IF ehead + 1 < EventSlots THEN ehead + 1 ELSE 0
      BY <1>3, EventAdvance DEF EventPop
    <2>2. events' \in [EventIndex -> EventCell] /\ ecount' = ecount - 1 /\ ecount # 0
      BY <1>3 DEF EventPop
    <2>3. etail' = etail
      BY <1>3 DEF EventPop
    <2> QED
      BY <2>1, <2>2, <2>3
  <1>4. CASE UNCHANGED eventVars
    BY <1>4 DEF eventVars
  <1> QED
    BY <1>1, <1>2, <1>3, <1>4 DEF EventNext, EventPushDropOldest

\* A push stores behind the newest event.
LEMMA EventPushAccepts ==
  ASSUME EventRing, EventRing', NEW e \in Event, EventPush(e)
  PROVE  EventQueue!Accept(e)
  <1>1. Len(EventContents) = ecount /\ EventContents = EventRun
    BY EventRunContents
  <1>2. (EventContents = EventRun)'
    BY EventRunContents, PTL
  <1>3. EventRun' = EventQueue!Behind(EventContents, e)
    <2>1. ecount' = ecount + 1 /\ ehead' = ehead /\ ecount < EventSlots
      BY DEF EventPush, PushUnlocked, EventRing
    <2>2. events' = [events EXCEPT ![etail] = e]
      BY DEF EventPush, PushUnlocked
    <2>3. ASSUME NEW i \in 1 .. ecount + 1
          PROVE  events'[EventWrap(ehead + i - 1)] = IF i <= ecount THEN EventRun[i] ELSE e
      BY <2>1, <2>2 DEF EventRing, EventWrap, EventIndex, EventRun
    <2> QED
      BY <2>1, <2>3, <1>1 DEF EventRun, EventQueue!Behind, EventWrap
  <1> QED
    BY <1>1, <1>2, <1>3 DEF EventQueue!Accept, EventPush, EventRing

\* A full ring gives up its oldest event for the new one.
LEMMA EventMakeRoomDisplaces ==
  ASSUME EventRing, EventRing', NEW e \in Event, ecount = EventSlots,
         ehead' = Advance(ehead), edropped' = edropped + 1, MakeRoom(e), UNCHANGED edelivered
  PROVE  EventQueue!Displace(e)
  <1>1. Len(EventContents) = ecount /\ EventContents = EventRun
    BY EventRunContents
  <1>2. (EventContents = EventRun)'
    BY EventRunContents, PTL
  <1>3. /\ ecount' = ecount /\ etail = ehead
        /\ ehead' = IF ehead + 1 < EventSlots THEN ehead + 1 ELSE 0
    BY EventAdvance DEF MakeRoom, PushUnlocked, EventRing, EventWrap, EventIndex
  <1>4. events' = [events EXCEPT ![ehead] = e]
    BY <1>3 DEF MakeRoom, PushUnlocked, EventRing
  <1>5. EventRun' = EventQueue!Behind(EventQueue!Without(EventContents, 1), e)
    <2>1. EventQueue!Without(EventContents, 1) = [i \in 1 .. ecount - 1 |-> EventRun[i + 1]]
      BY <1>1 DEF EventQueue!Without, EventRing
    <2>2. Len([i \in 1 .. ecount - 1 |-> EventRun[i + 1]]) = ecount - 1
      BY DEF EventRing
    <2>3. ASSUME NEW i \in 1 .. ecount
          PROVE  events'[EventWrap(ehead' + i - 1)] = IF i <= ecount - 1 THEN EventRun[i + 1] ELSE e
      BY <1>3, <1>4 DEF EventRing, EventWrap, EventIndex, EventRun
    <2>4. EventRun' = [i \in 1 .. ecount' |-> events'[EventWrap(ehead' + i - 1)]]
      BY DEF EventRun, EventWrap
    <2>5. ecount \in Nat
      BY DEF EventRing
    <2>6. EventQueue!Behind([i \in 1 .. ecount - 1 |-> EventRun[i + 1]], e)
            = [i \in 1 .. ecount |-> IF i <= ecount - 1 THEN EventRun[i + 1] ELSE e]
      BY <2>2, <2>5 DEF EventQueue!Behind
    <2> QED
      BY <2>1, <2>3, <2>4, <2>5, <2>6, <1>3
  <1> QED
    BY <1>1, <1>2, <1>5 DEF EventQueue!Displace

\* A pop delivers the oldest event.
LEMMA EventPopDelivers ==
  ASSUME EventRing, EventRing', EventPop
  PROVE  1 \in 1 .. Len(EventContents) /\ EventQueue!Deliver(0, 1)
  <1>1. Len(EventContents) = ecount /\ EventContents = EventRun
    BY EventRunContents
  <1>2. (EventContents = EventRun)'
    BY EventRunContents, PTL
  <1>3. /\ ecount' = ecount - 1 /\ ecount # 0
        /\ ehead' = IF ehead + 1 < EventSlots THEN ehead + 1 ELSE 0
        /\ events' = [events EXCEPT ![ehead] = NoEvent]
    BY EventAdvance DEF EventPop, EventRing, EventWrap, EventIndex
  <1>4. EventRun' = EventQueue!Without(EventContents, 1)
    <2>1. ASSUME NEW i \in 1 .. ecount - 1
          PROVE  events'[EventWrap(ehead' + i - 1)] = EventRun[i + 1]
      BY <1>3 DEF EventRing, EventWrap, EventIndex, EventRun
    <2>2. EventRun' = [i \in 1 .. ecount' |-> events'[EventWrap(ehead' + i - 1)]]
      BY DEF EventRun, EventWrap
    <2>3. ecount \in Nat
      BY DEF EventRing
    <2> QED
      BY <2>1, <2>2, <2>3, <1>1, <1>3 DEF EventQueue!Without
  <1> QED
    BY <1>1, <1>2, <1>3, <1>4 DEF EventQueue!Deliver, Always, EventPop, EventRing

\* The event ring stays a ring: its indices and its count agree.
THEOREM EventRingInvariant == EventSpec => []EventTypeOK
  <1>1. EventSpec => []EventRing
    BY EventRingInit, EventRingStep, PTL DEF EventSpec
  <1> QED
    BY <1>1, EventRingType, PTL

\* input_event_queue.cpp: the ring behind an input event queue is a bounded
\* queue that loses only its oldest event, and counts what it loses.
THEOREM EventRingRefinement == EventSpec => EventRingImplementsQueue
  <1>1. EventInit => EventQueue!QueueInit
    <2> SUFFICES ASSUME EventInit PROVE EventQueue!QueueInit
      OBVIOUS
    <2>1. ecount = 0 /\ edelivered = 0 /\ edropped = 0
      BY DEF EventInit
    <2>2. EventContents = <<>>
      BY <2>1 DEF EventContents
    <2> QED
      BY <2>1, <2>2 DEF EventQueue!QueueInit
  <1>2. EventRing /\ EventRing' /\ [EventNext]_eventVars
          => [EventQueue!QueueNext]_(EventQueue!QueueVars)
    <2> SUFFICES ASSUME EventRing, EventRing', [EventNext]_eventVars
                 PROVE  [EventQueue!QueueNext]_(EventQueue!QueueVars)
      OBVIOUS
    <2>1. ASSUME NEW e \in Event, EventPush(e) PROVE EventQueue!QueueNext
      BY <2>1, EventPushAccepts DEF EventQueue!QueueNext
    <2>2. ASSUME NEW e \in Event, ecount = EventSlots, ehead' = Advance(ehead),
                 edropped' = edropped + 1, MakeRoom(e), UNCHANGED edelivered
          PROVE  EventQueue!QueueNext
      BY <2>2, EventMakeRoomDisplaces DEF EventQueue!QueueNext
    <2>3. CASE EventPop
      BY <2>3, EventPopDelivers DEF EventQueue!QueueNext
    <2>4. CASE UNCHANGED eventVars
      BY <2>4 DEF eventVars, EventQueue!QueueVars, EventContents
    <2> QED
      BY <2>1, <2>2, <2>3, <2>4 DEF EventNext, EventPushDropOldest
  <1> QED
    BY <1>1, <1>2, EventRingInit, EventRingStep, PTL
    DEF EventSpec, EventRingImplementsQueue, EventQueue!QueueSpec

-----------------------------------------------------------------------------
(***************************************************************************)
(* The mailbox.                                                            *)
(***************************************************************************)
MailWrap(i) == IF i < MailSlots THEN i ELSE i - MailSlots

MailCell == AllMail \cup {Cleared}

\* How far slot i is behind the head.
MailOffset(i) == IF i >= mhead THEN i - mhead ELSE i + MailSlots - mhead

\* MailboxSound with the remainders written out.
MailRing ==
  /\ messages \in [MailIndex -> MailCell]
  /\ mhead \in MailIndex /\ mtail \in MailIndex /\ mcount \in 0 .. MailSlots
  /\ mdelivered \in Nat /\ mdropped \in Nat
  /\ mtail = MailWrap(mhead + mcount)
  /\ \A i \in MailIndex : MailOffset(i) >= mcount => messages[i] = Cleared

MailRun == [i \in 1 .. mcount |-> messages[MailWrap(mhead + i - 1)]]

LEMMA MailMod ==
  ASSUME NEW i \in 0 .. (2 * MailSlots - 1)
  PROVE  i % MailSlots = MailWrap(i)
  BY ModSmall DEF MailWrap

LEMMA MailSlotWrap ==
  ASSUME mhead \in MailIndex, NEW k \in MailIndex
  PROVE  MailSlot(k) = MailWrap(mhead + k) /\ MailSlot(k) \in MailIndex
  <1>1. mhead + k \in 0 .. (2 * MailSlots - 1)
    BY DEF MailIndex
  <1>2. MailSlot(k) = MailWrap(mhead + k)
    BY <1>1, MailMod DEF MailSlot
  <1> QED
    BY <1>1, <1>2 DEF MailWrap, MailIndex

\* A slot is queued when its offset is below the count.
LEMMA MailQueued ==
  ASSUME mhead \in MailIndex, NEW i \in MailIndex, NEW lo \in Nat, NEW hi \in Int, hi < MailSlots
  PROVE  (\E k \in lo .. hi : i = MailSlot(k)) <=> (lo <= MailOffset(i) /\ MailOffset(i) <= hi)
  <1>1. MailOffset(i) \in MailIndex /\ i = MailWrap(mhead + MailOffset(i))
    BY DEF MailOffset, MailIndex, MailWrap
  <1>2. i = MailSlot(MailOffset(i))
    BY <1>1, MailSlotWrap
  <1>3. ASSUME NEW k \in lo .. hi, i = MailSlot(k)
        PROVE  k = MailOffset(i)
    <2>1. k \in MailIndex
      BY DEF MailIndex
    <2>2. i = MailWrap(mhead + k)
      BY <1>3, <2>1, MailSlotWrap
    <2> QED
      BY <2>1, <2>2 DEF MailOffset, MailIndex, MailWrap
  <1> QED
    BY <1>1, <1>2, <1>3 DEF MailIndex

LEMMA MailRingSound == MailRing <=> MailboxSound
  <1>1. ASSUME mhead \in MailIndex, mcount \in 0 .. MailSlots
        PROVE  (mhead + mcount) % MailSlots = MailWrap(mhead + mcount)
    <2>1. mhead + mcount \in 0 .. (2 * MailSlots - 1)
      BY <1>1 DEF MailIndex
    <2> QED
      BY <2>1, MailMod
  <1>2. ASSUME mhead \in MailIndex, mcount \in 0 .. MailSlots
        PROVE  (\A i \in MailIndex : MailOffset(i) >= mcount => messages[i] = Cleared)
                 <=> UnusedCleared
    <2>1. ASSUME NEW i \in MailIndex
          PROVE  (\E k \in 0 .. mcount - 1 : i = MailSlot(k)) <=> ~(MailOffset(i) >= mcount)
      <3>1. MailOffset(i) \in Nat
        BY <1>2 DEF MailOffset, MailIndex
      <3> QED
        BY <1>2, <3>1, MailQueued
    <2> QED
      BY <2>1 DEF UnusedCleared
  <1> QED
    BY <1>1, <1>2 DEF MailRing, MailboxSound, MailTypeOK, RingExact, MailCell

LEMMA MailRunContents ==
  MailRing => /\ MailContents = MailRun
              /\ MailContents \in Seq(MailCell)
              /\ Len(MailContents) = mcount
  <1> HAVE MailRing
  <1>1. ASSUME NEW i \in 1 .. mcount
        PROVE  /\ MailSlot(i - 1) = MailWrap(mhead + i - 1)
               /\ MailWrap(mhead + i - 1) \in MailIndex
    <2>1. i - 1 \in MailIndex /\ mhead + (i - 1) = mhead + i - 1
      BY DEF MailIndex, MailRing
    <2> QED
      BY <2>1, MailSlotWrap DEF MailRing
  <1>2. MailContents = MailRun
    BY <1>1 DEF MailContents, MailRun
  <1>3. mcount \in Nat /\ MailRun \in [1 .. mcount -> MailCell]
    BY <1>1 DEF MailRun, MailRing
  <1> QED
    BY <1>2, <1>3, LenOfRun

\* What each operation does to the ring, with the remainders written out.
LEMMA PushFacts ==
  ASSUME MailRing, NEW m, PushV2(m)
  PROVE  /\ mtail' = MailWrap(mtail + 1) /\ mhead' = mhead
         /\ mcount < MailSlots /\ mcount' = mcount + 1
         /\ messages' = [messages EXCEPT ![mtail] = m]
         /\ mdelivered' = mdelivered /\ mdropped' = mdropped
  <1>1. mtail + 1 \in 0 .. (2 * MailSlots - 1)
    BY DEF MailRing, MailIndex
  <1>2. mtail' = MailWrap(mtail + 1)
    BY <1>1, MailMod DEF PushV2
  <1>3. mcount < MailSlots
    BY DEF PushV2, Room, MailRing
  <1> QED
    BY <1>2, <1>3 DEF PushV2

LEMMA TakeFacts ==
  ASSUME MailRing, TakeHead
  PROVE  /\ mhead' = MailWrap(mhead + 1) /\ mtail' = mtail
         /\ mcount # 0 /\ mcount' = mcount - 1
         /\ messages' = [messages EXCEPT ![mhead] = Cleared]
         /\ mdelivered' = mdelivered + 1 /\ mdropped' = mdropped
  <1>1. mhead + 1 \in 0 .. (2 * MailSlots - 1)
    BY DEF MailRing, MailIndex
  <1> QED
    BY <1>1, MailMod DEF TakeHead, Vacate

LEMMA MatchFacts ==
  ASSUME MailRing, NEW f, NEW found \in MailIndex, PopMatch(f, found)
  PROVE  /\ mtail' = MailWrap(mhead + mcount - 1) /\ mhead' = mhead
         /\ found < mcount /\ mcount' = mcount - 1
         /\ messages' = [i \in MailIndex |->
              IF MailOffset(i) = mcount - 1 THEN Cleared
              ELSE IF found <= MailOffset(i) /\ MailOffset(i) <= mcount - 2
              THEN messages[MailWrap(i + 1)] ELSE messages[i]]
         /\ mdelivered' = mdelivered + 1 /\ mdropped' = mdropped
  <1>1. mtail + MailSlots - 1 \in 0 .. (2 * MailSlots - 1)
    BY DEF MailRing, MailIndex
  <1>2. found < mcount
    BY DEF PopMatch
  <1>3. mtail' = MailWrap(mtail + MailSlots - 1)
    BY <1>1, MailMod DEF PopMatch
  <1>4. mtail' = MailWrap(mhead + mcount - 1)
    BY <1>2, <1>3 DEF MailRing, MailIndex, MailWrap
  <1>5. CloseGap(found) = [i \in MailIndex |->
          IF found <= MailOffset(i) /\ MailOffset(i) <= mcount - 2
          THEN messages[MailWrap(i + 1)] ELSE messages[i]]
    <2>1. ASSUME NEW i \in MailIndex
          PROVE  (i + 1) % MailSlots = MailWrap(i + 1)
      <3>1. i + 1 \in 0 .. (2 * MailSlots - 1)
        BY DEF MailIndex
      <3> QED
        BY <3>1, MailMod
    <2>2. ASSUME NEW i \in MailIndex
          PROVE  (\E k \in found .. mcount - 2 : i = MailSlot(k))
                   <=> (found <= MailOffset(i) /\ MailOffset(i) <= mcount - 2)
      <3>1. found \in Nat /\ mcount - 2 \in Int /\ mcount - 2 < MailSlots /\ mhead \in MailIndex
        BY DEF MailRing, MailIndex
      <3> QED
        BY <3>1, MailQueued
    <2> QED
      BY <2>1, <2>2 DEF CloseGap
  <1>6. \A i \in MailIndex : (i = mtail') <=> (MailOffset(i) = mcount - 1)
    BY <1>2, <1>4 DEF MailRing, MailIndex, MailWrap, MailOffset
  <1>7. messages' = [CloseGap(found) EXCEPT ![mtail'] = Cleared]
    BY DEF PopMatch, Vacate
  <1> QED
    BY <1>2, <1>4, <1>5, <1>6, <1>7 DEF PopMatch

LEMMA MailRingInit == MailInit => MailRing
  BY DEF MailInit, MailRing, MailWrap, MailIndex, MailCell

LEMMA MailRingPush ==
  ASSUME MailRing, NEW m \in AllMail, PushV2(m)
  PROVE  MailRing'
  <1>1. messages' \in [MailIndex -> MailCell]
    BY PushFacts DEF MailRing, MailCell
  <1>2. ASSUME NEW i \in MailIndex, MailOffset(i)' >= mcount'
        PROVE  messages'[i] = Cleared
    <2>1. mhead' = mhead /\ mcount' = mcount + 1 /\ mcount < MailSlots
      BY PushFacts
    <2>2. MailOffset(i) \in Nat /\ MailOffset(i) >= mcount + 1
      BY <1>2, <2>1 DEF MailOffset, MailRing, MailIndex
    <2>3. i # mtail
      BY <2>1, <2>2 DEF MailRing, MailIndex, MailWrap, MailOffset
    <2> QED
      BY <2>2, <2>3, PushFacts DEF MailRing
  <1>3. mtail' = MailWrap(mhead' + mcount') /\ mtail' \in MailIndex /\ mcount' \in 0 .. MailSlots
    <2>1. mtail' = MailWrap(mtail + 1) /\ mhead' = mhead /\ mcount' = mcount + 1 /\ mcount < MailSlots
      BY PushFacts
    <2> QED
      BY <2>1 DEF MailRing, MailIndex, MailWrap
  <1>4. (mtail = MailWrap(mhead + mcount))'
    BY <1>3 DEF MailWrap
  <1>5. mhead' \in MailIndex /\ mdelivered' \in Nat /\ mdropped' \in Nat
    BY PushFacts DEF MailRing
  <1> QED
    BY <1>1, <1>2, <1>3, <1>4, <1>5 DEF MailRing

LEMMA MailRingTake ==
  ASSUME MailRing, TakeHead
  PROVE  MailRing'
  <1>1. messages' \in [MailIndex -> MailCell]
    BY TakeFacts DEF MailRing, MailCell
  <1>2. ASSUME NEW i \in MailIndex, MailOffset(i)' >= mcount'
        PROVE  messages'[i] = Cleared
    <2>1. mhead' = MailWrap(mhead + 1) /\ mcount' = mcount - 1 /\ mcount # 0
      BY TakeFacts
    <2>2. i = mhead \/ MailOffset(i) >= mcount
      BY <1>2, <2>1 DEF MailOffset, MailRing, MailIndex, MailWrap
    <2> QED
      BY <2>2, TakeFacts DEF MailRing
  <1>3. mtail' = MailWrap(mhead' + mcount') /\ mhead' \in MailIndex /\ mcount' \in 0 .. MailSlots
    BY TakeFacts DEF MailRing, MailIndex, MailWrap
  <1>4. (mtail = MailWrap(mhead + mcount))'
    BY <1>3 DEF MailWrap
  <1>5. mtail' \in MailIndex /\ mdelivered' \in Nat /\ mdropped' \in Nat
    BY TakeFacts DEF MailRing
  <1> QED
    BY <1>1, <1>2, <1>3, <1>4, <1>5 DEF MailRing

LEMMA MailRingMatch ==
  ASSUME MailRing, NEW f, NEW found \in MailIndex, PopMatch(f, found)
  PROVE  MailRing'
  <1>1. \A i \in MailIndex : MailWrap(i + 1) \in MailIndex
    BY DEF MailIndex, MailWrap
  <1>2. messages' \in [MailIndex -> MailCell]
    BY <1>1, MatchFacts DEF MailRing, MailCell
  <1>3. ASSUME NEW i \in MailIndex, MailOffset(i)' >= mcount'
        PROVE  messages'[i] = Cleared
    <2>1. MailOffset(i)' = MailOffset(i) /\ MailOffset(i) \in Nat
      BY MatchFacts DEF MailOffset, MailRing, MailIndex
    <2>2. MailOffset(i) = mcount - 1 \/ MailOffset(i) >= mcount
      BY <1>3, <2>1, MatchFacts DEF MailRing
    <2> QED
      BY <2>1, <2>2, MatchFacts DEF MailRing
  <1>4. mtail' = MailWrap(mhead' + mcount') /\ mtail' \in MailIndex /\ mcount' \in 0 .. MailSlots
    BY MatchFacts DEF MailRing, MailIndex, MailWrap
  <1>5. (mtail = MailWrap(mhead + mcount))'
    BY <1>4 DEF MailWrap
  <1>6. mhead' \in MailIndex /\ mdelivered' \in Nat /\ mdropped' \in Nat
    BY MatchFacts DEF MailRing
  <1> QED
    BY <1>2, <1>3, <1>4, <1>5, <1>6 DEF MailRing

LEMMA FromV1InAllMail == \A m \in Mail : m \in AllMail /\ FromV1(m) \in AllMail
  BY DEF AllMail

LEMMA MailRingStep == MailRing /\ [MailNext]_mailVars => MailRing'
  <1> SUFFICES ASSUME MailRing, [MailNext]_mailVars PROVE MailRing'
    OBVIOUS
  <1>1. ASSUME NEW m \in Mail, PushV2(m) \/ PushV1(m) PROVE MailRing'
    BY <1>1, MailRingPush, FromV1InAllMail DEF PushV1
  <1>2. CASE PushFull
    BY <1>2 DEF PushFull, MailRing, MailOffset
  <1>3. CASE PopV2 \/ PopV1
    BY <1>3, MailRingTake DEF PopV2, PopV1
  <1>4. ASSUME NEW f \in MailFilter, NEW found \in MailIndex, PopMatch(f, found) PROVE MailRing'
    BY <1>4, MailRingMatch
  <1>5. CASE DropAll
    BY <1>5 DEF DropAll, Emptied, MailRing, MailWrap, MailIndex, MailCell, MailOffset
  <1>6. CASE UNCHANGED mailVars
    BY <1>6 DEF mailVars, MailRing, MailOffset
  <1> QED
    BY <1>1, <1>2, <1>3, <1>4, <1>5, <1>6 DEF MailNext, MailOp

\* ipc_mailbox.cpp: whichever mix of pushes, pops and filtered pops ran, the
\* tail is mcount slots behind the head and an unused slot is wiped.
THEOREM MailboxInvariant == MailSpec => []MailboxSound
  <1>1. MailSpec => []MailRing
    BY MailRingInit, MailRingStep, PTL DEF MailSpec
  <1> QED
    BY <1>1, MailRingSound, PTL

-----------------------------------------------------------------------------
LEMMA MailRunPrime == MailRun' = [i \in 1 .. mcount' |-> messages'[MailWrap(mhead' + i - 1)]]
  BY DEF MailRun, MailWrap

LEMMA PushAccepts ==
  ASSUME MailRing, MailRing', NEW m \in AllMail, PushV2(m)
  PROVE  MailQueue!Accept(m)
  <1>1. Len(MailContents) = mcount /\ MailContents = MailRun
    BY MailRunContents
  <1>2. (MailContents = MailRun)'
    BY MailRunContents, PTL
  <1>3. ASSUME NEW i \in 1 .. mcount + 1
        PROVE  messages'[MailWrap(mhead + i - 1)] = IF i <= mcount THEN MailRun[i] ELSE m
    <2>1. messages' = [messages EXCEPT ![mtail] = m] /\ mcount < MailSlots
      BY PushFacts
    <2>2. MailWrap(mhead + i - 1) \in MailIndex /\ (MailWrap(mhead + i - 1) = mtail <=> i = mcount + 1)
      BY <2>1 DEF MailRing, MailWrap, MailIndex
    <2>3. i <= mcount => MailRun[i] = messages[MailWrap(mhead + i - 1)]
      BY DEF MailRun, MailRing
    <2> QED
      BY <2>1, <2>2, <2>3 DEF MailRing
  <1>4. MailRun' = MailQueue!Behind(MailContents, m)
    BY <1>1, <1>3, MailRunPrime, PushFacts DEF MailQueue!Behind
  <1>5. mcount < MailSlots /\ UNCHANGED <<mdelivered, mdropped>>
    BY PushFacts
  <1> QED
    BY <1>1, <1>2, <1>4, <1>5 DEF MailQueue!Accept

LEMMA TakeDelivers ==
  ASSUME MailRing, MailRing', TakeHead
  PROVE  1 \in 1 .. Len(MailContents) /\ MailQueue!Deliver(AnyMail, 1)
  <1>1. Len(MailContents) = mcount /\ MailContents = MailRun
    BY MailRunContents
  <1>2. (MailContents = MailRun)'
    BY MailRunContents, PTL
  <1>3. mcount \in Nat /\ mcount # 0 /\ mcount' = mcount - 1
    BY TakeFacts DEF MailRing
  <1>4. ASSUME NEW i \in 1 .. mcount - 1
        PROVE  messages'[MailWrap(mhead' + i - 1)] = MailRun[i + 1]
    <2>1. mhead' = MailWrap(mhead + 1) /\ messages' = [messages EXCEPT ![mhead] = Cleared]
      BY TakeFacts
    <2>2. /\ MailWrap(mhead' + i - 1) = MailWrap(mhead + (i + 1) - 1)
          /\ MailWrap(mhead' + i - 1) \in MailIndex /\ MailWrap(mhead' + i - 1) # mhead
      BY <2>1 DEF MailRing, MailWrap, MailIndex
    <2>3. MailRun[i + 1] = messages[MailWrap(mhead + (i + 1) - 1)]
      BY DEF MailRun, MailRing
    <2> QED
      BY <2>1, <2>2, <2>3 DEF MailRing
  <1>5. MailRun' = MailQueue!Without(MailContents, 1)
    BY <1>1, <1>3, <1>4, MailRunPrime DEF MailQueue!Without
  <1>6. FilterMatches(AnyMail, MailContents[1])
    BY DEF FilterMatches, AnyMail
  <1>7. mdelivered' = mdelivered + 1 /\ UNCHANGED mdropped
    BY TakeFacts
  <1> QED
    BY <1>1, <1>2, <1>3, <1>5, <1>6, <1>7 DEF MailQueue!Deliver

LEMMA MatchDelivers ==
  ASSUME MailRing, MailRing', NEW f, NEW found \in MailIndex, PopMatch(f, found)
  PROVE  found + 1 \in 1 .. Len(MailContents) /\ MailQueue!Deliver(f, found + 1)
  <1>1. Len(MailContents) = mcount /\ MailContents = MailRun
    BY MailRunContents
  <1>2. (MailContents = MailRun)'
    BY MailRunContents, PTL
  <1>3. mcount \in Nat /\ found \in Nat /\ found < mcount /\ mcount' = mcount - 1
    <2>1. found < mcount /\ mcount' = mcount - 1
      BY MatchFacts
    <2> QED
      BY <2>1 DEF MailRing, MailIndex
  <1>4. ASSUME NEW i \in 1 .. mcount - 1
        PROVE  messages'[MailWrap(mhead' + i - 1)] = IF i < found + 1 THEN MailRun[i] ELSE MailRun[i + 1]
    <2>1. MailWrap(mhead + i - 1) \in MailIndex /\ MailOffset(MailWrap(mhead + i - 1)) = i - 1
      BY DEF MailRing, MailIndex, MailWrap, MailOffset
    <2>2. MailWrap(MailWrap(mhead + i - 1) + 1) = MailWrap(mhead + i)
      BY DEF MailRing, MailIndex, MailWrap
    <2>3. MailRun[i] = messages[MailWrap(mhead + i - 1)] /\ MailRun[i + 1] = messages[MailWrap(mhead + i)]
      BY DEF MailRun, MailRing
    <2>4. mhead' = mhead
      BY MatchFacts
    <2> DEFINE s == MailWrap(mhead + i - 1)
    <2>5. messages'[s] = IF MailOffset(s) = mcount - 1 THEN Cleared
                         ELSE IF found <= MailOffset(s) /\ MailOffset(s) <= mcount - 2
                         THEN messages[MailWrap(s + 1)] ELSE messages[s]
      BY <2>1, MatchFacts
    <2> QED
      BY <1>3, <2>1, <2>2, <2>3, <2>4, <2>5
  <1>5. MailRun' = MailQueue!Without(MailContents, found + 1)
    BY <1>1, <1>3, <1>4, MailRunPrime DEF MailQueue!Without
  <1>6. ASSUME NEW k \in 0 .. mcount - 1
        PROVE  messages[MailSlot(k)] = MailContents[k + 1]
    BY <1>3 DEF MailContents
  <1>7. /\ FilterMatches(f, MailContents[found + 1])
        /\ \A j \in 1 .. found : ~FilterMatches(f, MailContents[j])
    <2>1. FilterMatches(f, MailContents[found + 1])
      BY <1>3, <1>6 DEF PopMatch
    <2>2. ASSUME NEW j \in 1 .. found PROVE ~FilterMatches(f, MailContents[j])
      <3>1. j - 1 \in 0 .. mcount - 1 /\ j - 1 \in 0 .. found - 1 /\ (j - 1) + 1 = j
        BY <1>3
      <3> QED
        BY <3>1, <1>6 DEF PopMatch
    <2> QED
      BY <2>1, <2>2
  <1>8. mdelivered' = mdelivered + 1 /\ UNCHANGED mdropped
    BY MatchFacts
  <1> QED
    BY <1>1, <1>2, <1>3, <1>5, <1>7, <1>8 DEF MailQueue!Deliver

\* ipc_mailbox.cpp: the mailbox is a bounded queue.  Messages leave in order,
\* a filtered receive takes the oldest match and leaves the others in order,
\* and the shift across the wrap of the ring loses and duplicates none.
THEOREM MailboxRefinement == MailSpec => MailboxImplementsQueue
  <1>1. MailInit => MailQueue!QueueInit
    <2> SUFFICES ASSUME MailInit PROVE MailQueue!QueueInit
      OBVIOUS
    <2>1. mcount = 0 /\ mdelivered = 0 /\ mdropped = 0
      BY DEF MailInit
    <2>2. MailContents = <<>>
      BY <2>1 DEF MailContents
    <2> QED
      BY <2>1, <2>2 DEF MailQueue!QueueInit
  <1>2. MailRing /\ MailRing' /\ [MailNext]_mailVars
          => [MailQueue!QueueNext]_(MailQueue!QueueVars)
    <2> SUFFICES ASSUME MailRing, MailRing', [MailNext]_mailVars
                 PROVE  [MailQueue!QueueNext]_(MailQueue!QueueVars)
      OBVIOUS
    <2>1. ASSUME NEW m \in Mail, PushV2(m) \/ PushV1(m) PROVE MailQueue!QueueNext
      BY <2>1, PushAccepts, FromV1InAllMail DEF MailQueue!QueueNext, PushV1
    <2>2. CASE PushFull
      BY <2>2, MailRunContents DEF PushFull, MailQueue!QueueNext, MailQueue!Refuse, MailContents, MailSlot
    <2>3. CASE PopV2 \/ PopV1
      BY <2>3, TakeDelivers DEF PopV2, PopV1, MailQueue!QueueNext
    <2>4. ASSUME NEW f \in MailFilter, NEW found \in MailIndex, PopMatch(f, found)
          PROVE  MailQueue!QueueNext
      BY <2>4, MatchDelivers DEF MailQueue!QueueNext
    <2>5. CASE DropAll
      <3>1. mcount' = 0 /\ mdropped' = mdropped + mcount /\ UNCHANGED mdelivered
        BY <2>5 DEF DropAll, Emptied
      <3>2. MailContents' = <<>>
        BY <3>1 DEF MailContents
      <3> QED
        BY <3>1, <3>2, MailRunContents DEF MailQueue!QueueNext, MailQueue!Discard
    <2>6. CASE UNCHANGED mailVars
      BY <2>6 DEF mailVars, MailQueue!QueueVars, MailContents, MailSlot
    <2> QED
      BY <2>1, <2>2, <2>3, <2>4, <2>5, <2>6 DEF MailNext, MailOp
  <1> QED
    BY <1>1, <1>2, MailRingInit, MailRingStep, PTL
    DEF MailSpec, MailboxImplementsQueue, MailQueue!QueueSpec
=============================================================================
