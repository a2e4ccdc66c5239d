----------------------------- MODULE IpcMailbox -----------------------------
(***************************************************************************)
(* The IPC mailbox of a process (kernel/ipc/ipc_mailbox.cpp): a ring of    *)
(* version 2 messages that version 1 senders and receivers reach through a *)
(* conversion.  Every operation runs under the mailbox's lock, so each is  *)
(* one step.  A message keeps its sender, type, reply_to, payload length   *)
(* and number of handles; the payload bytes are left out.                  *)
(***************************************************************************)
EXTENDS Naturals, Sequences

CONSTANTS
  Mail,          \* the messages senders may push
  MailFilter,    \* the filters receivers may pass
  MailSlots,     \* IPC_MAILBOX_CAPACITY
  PayloadV1,     \* OS_IPC_MESSAGE_PAYLOAD_SIZE
  MaxTraffic     \* bound on the messages delivered and dropped

ASSUME MailSlotsAssumption == MailSlots \in Nat \ {0}

VARIABLES
  messages,      \* KernelIpcMailbox.messages
  mhead, mtail, mcount,
  mdelivered, mdropped,
  received       \* what the last receive returned to its caller

mailVars == <<messages, mhead, mtail, mcount, mdelivered, mdropped, received>>

MailIndex == 0 .. MailSlots - 1

\* clear_message_v2: an unused slot names no sender and carries no handle.
Cleared == [sender |-> 0, type |-> "none", reply |-> 0, length |-> 0, handles |-> 0]

\* message_v1_to_v2: correlation and handles do not exist in version 1.
FromV1(m) == [m EXCEPT !.reply = 0, !.handles = 0]

\* message_v2_to_v1: a longer payload is cut, correlation and handles are lost.
ToV1(m) ==
  [m EXCEPT !.length = IF @ < PayloadV1 THEN @ ELSE PayloadV1,
            !.reply = 0, !.handles = 0]

\* filter_matches: every criterion the filter's flags name must agree.
FilterMatches(f, m) ==
  /\ "sender" \in f.flags => m.sender = f.sender
  /\ "type" \in f.flags => m.type = f.type
  /\ "reply" \in f.flags => m.reply = f.reply

AnyMail == [flags |-> {}, sender |-> 0, type |-> "none", reply |-> 0]

MailInit ==
  /\ messages = [i \in MailIndex |-> Cleared]
  /\ mhead = 0 /\ mtail = 0 /\ mcount = 0
  /\ mdelivered = 0 /\ mdropped = 0
  /\ received = Cleared

\* The slot of the i-th message behind the head, counted from 0.
MailSlot(i) == (mhead + i) % MailSlots

Room == mcount # MailSlots

\* ipc_mailbox_push_v2 into a mailbox with room.
PushV2(m) ==
  /\ Room
  /\ messages' = [messages EXCEPT ![mtail] = m]
  /\ mtail' = (mtail + 1) % MailSlots
  /\ mcount' = mcount + 1
  /\ UNCHANGED <<mhead, mdelivered, mdropped, received>>

\* ipc_mailbox_push: the message, which ipc_send has bounded, is converted
\* first.
PushV1(m) == m.length <= PayloadV1 /\ PushV2(FromV1(m))

\* ipc_mailbox_push_v2 into a full mailbox.
PushFull ==
  /\ mcount = MailSlots
  /\ mdropped' = mdropped + 1
  /\ UNCHANGED <<messages, mhead, mtail, mcount, mdelivered, received>>

\* clear_message_v2 of the slot a message left.
Vacate(slots, i) == [slots EXCEPT ![i] = Cleared]

\* ipc_mailbox_pop_v2 of a mailbox that is not empty.
TakeHead ==
  /\ mcount # 0
  /\ messages' = Vacate(messages, mhead)
  /\ mhead' = (mhead + 1) % MailSlots
  /\ mcount' = mcount - 1
  /\ mdelivered' = mdelivered + 1
  /\ UNCHANGED <<mtail, mdropped>>

PopV2 == TakeHead /\ received' = messages[mhead]
PopV1 == TakeHead /\ received' = ToV1(messages[mhead])

\* A plausible slip: the hole is not closed, the last message stays behind.
CloseGapNot(found) == messages

\* The messages behind the one taken move one slot towards the head.
CloseGap(found) ==
  [i \in MailIndex |->
     IF \E k \in found .. mcount - 2 : i = MailSlot(k)
       THEN messages[(i + 1) % MailSlots]
       ELSE messages[i]]

\* ipc_mailbox_pop_v2_match: found is the offset of the first message that
\* the filter matches; the tail moves back over the slot that came free.
PopMatch(f, found) ==
  /\ found < mcount
  /\ FilterMatches(f, messages[MailSlot(found)])
  /\ \A k \in 0 .. found - 1 : ~ FilterMatches(f, messages[MailSlot(k)])
  /\ received' = messages[MailSlot(found)]
  /\ mtail' = (mtail + MailSlots - 1) % MailSlots
  /\ messages' = Vacate(CloseGap(found), mtail')
  /\ mcount' = mcount - 1
  /\ mdelivered' = mdelivered + 1
  /\ UNCHANGED <<mhead, mdropped>>

\* A plausible slip: the ring is emptied but the tail stays where it was.
EmptiedKeepsTail == mhead' = 0 /\ mtail' = mtail /\ mcount' = 0

Emptied == mhead' = 0 /\ mtail' = 0 /\ mcount' = 0

\* ipc_mailbox_drop_all.
DropAll ==
  /\ mdropped' = mdropped + mcount
  /\ messages' = [i \in MailIndex |-> Cleared]
  /\ Emptied
  /\ UNCHANGED <<mdelivered, received>>

MailOp ==
  \/ \E m \in Mail : PushV2(m) \/ PushV1(m)
  \/ PushFull
  \/ PopV2
  \/ PopV1
  \/ \E f \in MailFilter, found \in MailIndex : PopMatch(f, found)
  \/ DropAll

MailNext == mdelivered + mdropped < MaxTraffic /\ MailOp

MailSpec == MailInit /\ [][MailNext]_mailVars

-----------------------------------------------------------------------------
\* The queue the ring stands for: mcount messages from the head on.
MailContents == [i \in 1 .. mcount |-> messages[MailSlot(i - 1)]]

AllMail == Mail \cup {FromV1(m) : m \in Mail}

MailQueue == INSTANCE MessageQueue WITH
  queue <- MailContents, delivered <- mdelivered, dropped <- mdropped,
  Item <- AllMail, Capacity <- MailSlots,
  Filter <- MailFilter \cup {AnyMail}, Selected <- FilterMatches

\* The mailbox implements the abstract queue: messages leave in the order
\* they came, a filtered receive takes the oldest match and leaves the
\* others in order, none is lost or duplicated by the shift across the wrap
\* of the ring, and every message not delivered is counted as dropped.
MailboxImplementsQueue == MailQueue!QueueSpec

\* Types of the mailbox.
MailTypeOK ==
  /\ messages \in [MailIndex -> AllMail \cup {Cleared}]
  /\ mhead \in MailIndex /\ mtail \in MailIndex /\ mcount \in 0 .. MailSlots
  /\ mdelivered \in Nat /\ mdropped \in Nat

\* The tail is mcount slots behind the head whichever of the receives,
\* which move different ends, was used; the next push lands behind the
\* newest message and never on a queued one.
RingExact == mtail = (mhead + mcount) % MailSlots

\* A slot outside the queued run holds nothing of an earlier message: a
\* receiver never sees another sender's payload or handles again.
UnusedCleared ==
  \A i \in MailIndex :
    (\A k \in 0 .. mcount - 1 : i # MailSlot(k)) => messages[i] = Cleared

(* The ring's indices and count agree with the messages it holds, taken in   *)
(* any order by filtered receives, and an empty place keeps no message data. *)
MailboxSound == MailTypeOK /\ RingExact /\ UnusedCleared
=============================================================================
