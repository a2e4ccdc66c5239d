--------------------------- MODULE DisplayServer ---------------------------
(* The display service's frame transactions: user/programs/displayd_c.c and  *)
(* user/sdk/src/display_server_protocol.c.                                    *)
(*                                                                            *)
(* A client sends BEGIN with a surface handle, then the damage rectangles in  *)
(* numbered chunks, then COMMIT; displayd keeps at most one transaction, maps  *)
(* its surface, and presents it.  Messages of several clients interleave in   *)
(* the service's mailbox and may be wrong, repeated or missing.  Receiving a  *)
(* message installs its handles in displayd's table: `held' is what is open.  *)
(* A message carries which of the handler's checks it fails (`check'), and a   *)
(* request identifier is one with the frame generation it names.               *)
EXTENDS Naturals, Sequences, FiniteSets

CONSTANTS
    FrameClient,    \* the senders' identities; 0 is none
    MaxGen,         \* frame generations are 1..MaxGen
    MaxRects,       \* OS_DISPLAY_DAMAGE_MAX_RECTS
    PerChunk,       \* OS_DISPLAY_DAMAGE_RECTS_PER_CHUNK
    WaitTicks,      \* DISPLAY_TRANSACTION_TIMEOUT_TICKS
    MaxRequests     \* bound: messages received in a behaviour

ASSUME DisplayServerAssumption ==
    /\ 0 \notin FrameClient
    /\ MaxGen \in Nat \ {0} /\ MaxRects \in Nat \ {0} /\ PerChunk \in Nat \ {0}
    /\ WaitTicks \in Nat \ {0} /\ MaxRequests \in Nat

VARIABLES
    tr,         \* the transaction (OsDisplayPresentTransaction)
    lastGen,    \* transaction.last_accepted_generation
    surf,       \* transaction_surface and transaction_mapping (0: neither)
    left,       \* ticks to transaction_deadline (0: reached)
    quiet,      \* ticks the current os_msg_v2_wait_timeout has waited
    held,       \* handles open in displayd's handle table
    requests,   \* messages received so far; a message's handle bears its number
    msg,        \* the message being handled: its sender and command
    shown       \* the last frame presented: its transaction's content

frameVars == <<tr, lastGen, surf, left, quiet, held, requests, msg, shown>>

NoSender == 0

(* clear_active: every field but last_accepted_generation.                    *)
NoTransaction == [active |-> FALSE, sender |-> NoSender, gen |-> 0, full |-> FALSE,
            rects |-> 0, chunks |-> 0, next |-> 0, got |-> <<>>]

ChunksFor(n) == (n + PerChunk - 1) \div PerChunk

(* One damage rectangle, by where it came from.                               *)
Rect == [from : FrameClient, gen : 1..MaxGen, index : 1..MaxRects]

(* A BEGIN may be malformed ("shape": wrong size, version, flags or counts),   *)
(* have bad dimensions ("fields") or disagree with its surface ("surface").    *)
(* rects = 0 is a full frame.                                                  *)
Begins == [op : {"begin"}, from : FrameClient, gen : 1..MaxGen, rects : 0..MaxRects,
           check : {"ok", "shape", "fields", "surface"}]
Damages == [op : {"damage"}, from : FrameClient, gen : 1..MaxGen,
            chunk : 0..ChunksFor(MaxRects), rects : 0..PerChunk,
            check : {"ok", "shape"}]
Commits == [op : {"commit"}, from : FrameClient, gen : 1..MaxGen,
            check : {"ok", "shape"}]

FrameInit ==
    /\ tr = NoTransaction /\ lastGen = 0 /\ surf = 0
    /\ left = 0 /\ quiet = 0 /\ held = {} /\ requests = 0 /\ msg = <<NoSender, "none">>
    /\ shown = NoTransaction

(* A message has been received: it is number requests', and its handle (one   *)
(* per BEGIN) is now open.                                                    *)
Arrived(m) ==
    /\ requests < MaxRequests /\ requests' = requests + 1
    /\ quiet' = 0
    /\ msg' = <<m.from, m.op>>

(* release_transaction: unmap and close the surface, abort the transaction.   *)
OpenAfterRelease == held \ {surf}
Released(open) ==
    /\ tr' = NoTransaction /\ surf' = 0 /\ left' = 0
    /\ held' = open
    /\ UNCHANGED <<lastGen, shown>>

(* os_display_server_protocol_should_replace: only a newer full frame replaces *)
(* the pending transaction.                                                    *)
ShouldReplace(m) ==
    tr.active /\ m.check # "shape" /\ m.rects = 0 /\ m.gen > tr.gen

(* os_display_server_protocol_begin: the message is sound, no transaction is   *)
(* pending and the frame is newer than the last one accepted.                  *)
MayBegin(m, active) ==
    m.check \in {"ok", "surface"} /\ ~active /\ m.gen > lastGen

Opened(m) ==
    [active |-> TRUE, sender |-> m.from, gen |-> m.gen, full |-> m.rects = 0,
     rects |-> m.rects, chunks |-> ChunksFor(m.rects), next |-> 0, got |-> <<>>]

(* What is open once BEGIN's message has arrived: its handle, and not the      *)
(* replaced transaction's.                                                     *)
OpenAtBegin(m) ==
    (IF ShouldReplace(m) THEN OpenAfterRelease ELSE held) \cup {requests'}

(* handle_begin, its early returns included: "surface" stands for the display  *)
(* and surface queries disagreeing with the message and for a failed mapping.  *)
HandleBegin(m) ==
    /\ Arrived(m)
    /\ LET busy == tr.active /\ ~ShouldReplace(m)
           accepted == MayBegin(m, busy) /\ m.check = "ok"
           open == OpenAtBegin(m)
       IN  /\ tr' = IF accepted THEN Opened(m) ELSE IF busy THEN tr ELSE NoTransaction
           /\ surf' = IF accepted THEN requests' ELSE IF busy THEN surf ELSE 0
           /\ left' = IF accepted THEN WaitTicks ELSE IF busy THEN left ELSE 0
           /\ held' = IF accepted THEN open ELSE open \ {requests'}
    /\ UNCHANGED <<lastGen, shown>>

RemainingRects == tr.rects - Len(tr.got)

(* The checks of os_display_server_protocol_damage.                            *)
InOrder(m) == m.chunk = tr.next /\ m.chunk < tr.chunks
DamageFits(m) ==
    /\ m.check = "ok" /\ m.gen = tr.gen /\ InOrder(m)
    /\ m.rects = (IF RemainingRects > PerChunk THEN PerChunk ELSE RemainingRects)
    /\ m.rects > 0

(* The rectangles of the message, tagged with their sender, frame and place.   *)
RectsOf(m) ==
    [i \in 1..m.rects |->
        [from |-> m.from, gen |-> m.gen, index |-> m.chunk * PerChunk + i]]

(* A failed DAMAGE or COMMIT of the transaction's own sender releases it; the  *)
(* failure of another sender leaves it alone.                                  *)
Refused(m) == m.from = tr.sender
Refuse(m) ==
    IF Refused(m) THEN Released(OpenAfterRelease)
    ELSE UNCHANGED <<tr, lastGen, surf, left, held, shown>>

HandleDamage(m) ==
    /\ Arrived(m)
    /\ IF tr.active /\ m.from = tr.sender /\ DamageFits(m)
       THEN /\ tr' = [tr EXCEPT !.got = @ \o RectsOf(m), !.next = @ + 1]
            /\ left' = WaitTicks
            /\ UNCHANGED <<lastGen, surf, held, shown>>
       ELSE Refuse(m)

(* os_display_server_protocol_commit.                                          *)
(* A plausible slip. *)
AllArrivedUnchecked(m) == m.check = "ok" /\ m.gen = tr.gen
AllArrived(m) ==
    /\ m.check = "ok" /\ m.gen = tr.gen
    /\ tr.next = tr.chunks /\ Len(tr.got) = tr.rects

(* os_display_server_protocol_accept.                                          *)
Accepted == tr.gen

(* handle_commit: the frame is presented and accepted; presenting may fail, as *)
(* may the query of the display's size, and then the sender may commit again.  *)
HandleCommit(m) ==
    /\ Arrived(m)
    /\ IF tr.active /\ m.from = tr.sender /\ AllArrived(m)
       THEN \/ /\ shown' = tr
               /\ lastGen' = Accepted
               /\ tr' = NoTransaction /\ surf' = 0 /\ left' = 0
               /\ held' = held \ {surf}
            \/ /\ left' = WaitTicks
               /\ UNCHANGED <<tr, lastGen, surf, held, shown>>
            \/ /\ tr.full
               /\ UNCHANGED <<tr, lastGen, surf, left, held, shown>>
       ELSE Refuse(m)

(* handle_message's remaining arms: a service query has no handles and changes *)
(* nothing; a malformed or unknown message has its handles closed.             *)
HandleOther ==
    /\ \E c \in FrameClient : Arrived([op |-> "other", from |-> c])
    /\ UNCHANGED <<tr, lastGen, surf, left, held, shown>>

(* Time passes while the service waits.                                        *)
FrameTick ==
    /\ tr.active /\ quiet < WaitTicks
    /\ quiet' = quiet + 1
    /\ left' = IF left > 0 THEN left - 1 ELSE 0
    /\ UNCHANGED <<tr, lastGen, surf, held, requests, msg, shown>>

(* The wait timed out: the transaction is released if its deadline is reached. *)
DeadlineReached == left = 0
WaitTimeout ==
    /\ tr.active /\ quiet = WaitTicks
    /\ quiet' = 0
    /\ IF DeadlineReached THEN Released(OpenAfterRelease)
       ELSE UNCHANGED <<tr, lastGen, surf, left, held, shown>>
    /\ UNCHANGED <<requests, msg>>

Serve ==
    \/ \E m \in Begins : HandleBegin(m)
    \/ \E m \in Damages : HandleDamage(m)
    \/ \E m \in Commits : HandleCommit(m)
    \/ HandleOther

FrameNext == Serve \/ FrameTick \/ WaitTimeout

(* The clock advances, and the service runs when its wait ends.                *)
FrameFairness == WF_frameVars(FrameTick) /\ WF_frameVars(WaitTimeout)

FrameSpec == FrameInit /\ [][FrameNext]_frameVars /\ FrameFairness

----------------------------------------------------------------------------
(* Types of displayd's transaction, its handles and its clock.                 *)
FrameTypeOK ==
    /\ tr.active \in BOOLEAN /\ tr.sender \in FrameClient \cup {NoSender}
    /\ tr.gen \in 0..MaxGen /\ tr.full \in BOOLEAN
    /\ tr.rects \in 0..MaxRects /\ tr.chunks \in 0..ChunksFor(MaxRects)
    /\ tr.next \in 0..tr.chunks
    /\ tr.got \in Seq(Rect) /\ Len(tr.got) <= tr.rects
    /\ lastGen \in 0..MaxGen
    /\ surf \in 0..MaxRequests /\ left \in 0..WaitTicks /\ quiet \in 0..WaitTicks
    /\ held \subseteq 1..MaxRequests /\ requests \in 0..MaxRequests

(* displayd keeps exactly one handle per pending transaction and none          *)
(* otherwise: every error path of handle_begin, handle_damage, handle_commit   *)
(* and the timeout closes what the message brought or the transaction held.    *)
NoHandleLeak == held = (IF tr.active THEN {surf} ELSE {}) /\ (tr.active <=> surf # 0)

(* A frame that was presented holds exactly the rectangles of its own sender's *)
(* own frame, all of them and in order, whatever other clients sent meanwhile  *)
(* (next_chunk, request_id and sender checks of the protocol).                 *)
ShownWhole ==
    /\ Len(shown.got) = shown.rects
    /\ \A i \in 1..Len(shown.got) :
          shown.got[i] = [from |-> shown.sender, gen |-> shown.gen, index |-> i]

(* Accepted generations only grow: an older frame never replaces a newer one   *)
(* on the screen, even after a replacement, an abort or a timeout.             *)
NoOlderFrame == [][shown' # shown => shown'.gen > shown.gen]_frameVars

(* A pending transaction is not ended by another client's DAMAGE, COMMIT or    *)
(* query; another client ends it only by a BEGIN of a newer full frame.        *)
OnlyOwnerAborts ==
    [][(tr.active /\ tr' = NoTransaction /\ requests' > requests)
         => msg'[1] = tr.sender \/ msg'[2] = "begin"]_frameVars

(* An abandoned transaction is given up: once its clients fall silent the      *)
(* timeout of the service's wait ends it.                                      *)
TransactionEnds == tr.active ~> ~tr.active
============================================================================
