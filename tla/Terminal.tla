------------------------------ MODULE Terminal ------------------------------
(* A terminal session: the kernel's output stream and input path              *)
(* (kernel/process/process_terminal.cpp, SYS_GETCHAR in                        *)
(* kernel/syscall/syscall64.cpp), the shell that owns it and the window front  *)
(* end that drains it (user/programs/terminal.c).                              *)
(*                                                                            *)
(* Output: the shell and the programs it starts write packets; a packet takes  *)
(* its sequence number and its overflow flag before the stream's lock.  The    *)
(* front end shows packets with growing numbers.  Input: the front end posts   *)
(* packets to the shell's mailbox, and a reader consumes them character by     *)
(* character.  Teardown: HANGUP, a bounded wait, kill, reap, close.            *)
EXTENDS Naturals, Sequences, FiniteSets

CONSTANTS
    Scenes,         \* sessions, one chosen at the start: the writing processes,
                    \* and the bounds on packets written and on characters typed
    StreamSlots,    \* PROCESS_TERMINAL_OUTPUT_CAPACITY
    Patience        \* ticks the front end waits after HANGUP (200)

ASSUME TerminalAssumption ==
    /\ StreamSlots \in Nat \ {0} /\ Patience \in Nat
    /\ \A s \in Scenes : s.writes \in Nat /\ s.keys \in Nat

VARIABLES
    scene,      \* the session's scene
    holding,    \* per writer: the packet made and not yet queued, or {}
    ring,       \* terminal_output, oldest packet first
    seqNo,      \* terminal_output_sequence
    overflow,   \* terminal_output_dropped # 0
    written,    \* packets written so far; packet n is the n-th
    displayed,      \* packets the front end has displayed, in order
    shellSeq,   \* the front end's shell_sequence
    inbox,      \* input packets in the shell's mailbox: characters and "hangup"
    typed,      \* characters posted so far
    note,       \* input messages queued whose notify has not run yet
    ready,      \* terminal_input: the character taken from a packet, or <<>>
    hung,       \* terminal_hung_up
    reader,     \* where the reading thread is
    got,        \* characters returned to the shell
    shell,      \* "live", "dead" (record kept), "reaped"
    stream,     \* "open" or "closed": terminal_output allocated
    front,      \* the front end: "run", "wait", "reap", "close", "done"
    patience    \* ticks left of the wait after HANGUP

outVars == <<scene, holding, ring, seqNo, overflow, written, displayed, shellSeq>>
inVars == <<inbox, typed, note, ready, hung, reader, got>>
endVars == <<shell, stream, front, patience>>
termVars == <<outVars, inVars, endVars>>

TermInit ==
    /\ scene \in Scenes
    /\ holding = [w \in scene.crew |-> {}]
    /\ ring = <<>> /\ seqNo = 1 /\ overflow = FALSE /\ written = 0
    /\ displayed = <<>> /\ shellSeq = 1
    /\ inbox = <<>> /\ typed = 0 /\ note = 0 /\ ready = <<>> /\ hung = FALSE
    /\ reader = "user" /\ got = <<>>
    /\ shell = "live" /\ stream = "open" /\ front = "run" /\ patience = Patience

----------------------------------------------------------------------------
(* send_packet up to the lock: the number and the flag are taken.              *)
MakePacket(w) ==
    /\ holding[w] = {} /\ written < scene.writes /\ shell = "live" /\ front # "done"
    /\ written' = written + 1
    /\ seqNo' = seqNo + 1
    /\ holding' = [holding EXCEPT ![w] =
                      {[n |-> written + 1, seq |-> seqNo + 1, flag |-> overflow, kind |-> "out"]}]
    /\ UNCHANGED <<scene, ring, overflow, displayed, shellSeq, inVars, endVars>>

RoomInStream == Len(ring) < StreamSlots

(* send_packet under the lock: a packet that does not fit, or whose stream is  *)
(* closed, is lost, and the flag is cleared by a packet that is queued.        *)
QueuePacket(w) ==
    /\ \E p \in holding[w] :
       /\ p.kind = "out"
       /\ IF RoomInStream /\ stream = "open"
          THEN /\ ring' = Append(ring, p) /\ overflow' = FALSE
               /\ holding' = [holding EXCEPT ![w] = {}]
          ELSE /\ holding' = [holding EXCEPT ![w] = {[p EXCEPT !.kind = "lost"]}]
               /\ UNCHANGED <<ring, overflow>>
    /\ UNCHANGED <<scene, seqNo, written, displayed, shellSeq, inVars, endVars>>

(* process_terminal_write records the loss, outside the lock.                  *)
LossRecorded == TRUE
RecordLoss(w) ==
    /\ \E p \in holding[w] : p.kind = "lost"
    /\ holding' = [holding EXCEPT ![w] = {}]
    /\ overflow' = LossRecorded
    /\ UNCHANGED <<scene, ring, seqNo, written, displayed, shellSeq, inVars, endVars>>

(* drain_shell_output: one os_terminal_session_read.  A packet that is not     *)
(* newer than the last one is skipped.                                         *)
Fresh(p) == p.seq > shellSeq
ShowPacket ==
    /\ front \in {"run", "wait"} /\ ring # <<>> /\ stream = "open"
    /\ ring' = Tail(ring)
    /\ LET p == Head(ring) IN
       IF Fresh(p) THEN /\ shellSeq' = p.seq
                        /\ displayed' = IF p.kind = "out" THEN Append(displayed, p) ELSE displayed
                        /\ front' = IF p.kind = "exit" /\ front = "run" THEN "wait" ELSE front
       ELSE UNCHANGED <<shellSeq, displayed, front>>
    /\ UNCHANGED <<scene, holding, seqNo, overflow, written, inVars, shell, stream, patience>>

----------------------------------------------------------------------------
(* send_control: a key or HANGUP is queued in the shell's mailbox, and then    *)
(* process_terminal_notify_message wakes the reader.                           *)
Post(m) ==
    /\ shell = "live"
    /\ inbox' = Append(inbox, m) /\ note' = note + 1
TypeKey ==
    /\ front = "run" /\ typed < scene.keys
    /\ Post(typed + 1)
    /\ typed' = typed + 1
    /\ UNCHANGED <<outVars, ready, hung, reader, got, endVars>>

(* A plausible slip. *)
NotifyDropped == reader
Notified == IF reader \in {"second", "parked"} THEN reader \o "!" ELSE reader
Notify ==
    /\ note > 0
    /\ note' = note - 1
    /\ reader' = Notified
    /\ UNCHANGED <<outVars, inbox, typed, ready, hung, got, endVars>>

(* refill_input: with no character at hand, packets are taken until one has    *)
(* one, the mailbox is empty, or the session hangs up; an empty mailbox whose  *)
(* front end is gone is a hang-up.                                             *)
Rest(box) == Tail(box)
Refilled(box, at, over) ==
    IF over \/ at # <<>> THEN [box |-> box, at |-> at, over |-> over]
    ELSE IF box = <<>> THEN [box |-> box, at |-> at, over |-> front = "done"]
    ELSE IF Head(box) = 0 THEN [box |-> Rest(box), at |-> at, over |-> TRUE]
    ELSE [box |-> Rest(box), at |-> <<Head(box)>>, over |-> over]

(* process_terminal_read_char: a character, "cancelled" or "block".            *)
Found == Refilled(inbox, ready, hung)
Kind(r) == IF r.over THEN "cancelled" ELSE IF r.at # <<>> THEN "char" ELSE "block"
Taken(r) == IF Kind(r) = "char" THEN r.at ELSE <<>>
ReadChar(r) ==
    /\ inbox' = r.box /\ hung' = r.over
    /\ ready' = IF Kind(r) = "char" THEN <<>> ELSE r.at

(* SYS_GETCHAR: look; if there is nothing, begin a wait.                       *)
GetChar ==
    /\ shell = "live" /\ reader = "user"
    /\ ReadChar(Found)
    /\ got' = got \o Taken(Found)
    /\ reader' = CASE Kind(Found) = "block" -> "second"
                    [] Kind(Found) = "cancelled" -> "exit"
                    [] OTHER -> "user"
    /\ UNCHANGED <<outVars, typed, note, endVars>>

(* SYS_GETCHAR after process_wait_begin: look again, and signal the own wait;  *)
(* a character found here is read and not kept.                                *)
AfterSecondLook(kind) ==
    CASE kind = "block" -> IF reader = "second!" THEN "woken" ELSE "parked"
      [] kind = "cancelled" -> "exit"
      [] OTHER -> "woken"
GetCharSecond ==
    /\ shell = "live" /\ reader \in {"second", "second!"}
    /\ ReadChar(Found)
    /\ reader' = AfterSecondLook(Kind(Found))
    /\ UNCHANGED <<outVars, typed, note, got, endVars>>

(* complete_waiting_syscall64 for a woken reader.                              *)
CompleteWait ==
    /\ shell = "live" /\ reader \in {"parked!", "woken"}
    /\ ReadChar(Found)
    /\ got' = got \o Taken(Found)
    /\ reader' = IF Kind(Found) = "cancelled" THEN "exit" ELSE "user"
    /\ UNCHANGED <<outVars, typed, note, endVars>>

(* The shell's loop ends on a cancelled read: EXIT is sent (its loss is not    *)
(* noticed) and the process exits.                                             *)
ShellExit ==
    /\ shell = "live" /\ reader = "exit" /\ \A w \in scene.crew : holding[w] = {}
    /\ seqNo' = seqNo + 1
    /\ ring' = IF RoomInStream
               THEN Append(ring, [n |-> 0, seq |-> seqNo + 1, flag |-> FALSE, kind |-> "exit"])
               ELSE ring
    /\ shell' = "dead"
    /\ UNCHANGED <<scene, holding, overflow, written, displayed, shellSeq,
                   inVars, stream, front, patience>>

(* The shell dies at any time; the packets its children hold go nowhere.       *)
ShellDies ==
    /\ shell = "live" /\ shell' = "dead"
    /\ UNCHANGED <<outVars, inVars, stream, front, patience>>

----------------------------------------------------------------------------
(* The main loop ends: the user closes the window, or the shell is seen gone.  *)
FrontCloses ==
    /\ front = "run"
    /\ front' = "wait" /\ patience' = Patience
    /\ IF shell = "live" THEN Post(0) ELSE UNCHANGED <<inbox, note>>
    /\ UNCHANGED <<outVars, typed, ready, hung, reader, got, shell, stream>>

(* terminate_child: wait a bounded time for the shell to go, drain, and kill   *)
(* it if it has not gone.  kill_user_program refuses a process that is not     *)
(* paused: one whose reader waits is, one that runs is not, and one in user    *)
(* mode may be either.                                                         *)
Tick ==
    /\ front = "wait" /\ shell = "live" /\ patience > 0
    /\ patience' = patience - 1
    /\ UNCHANGED <<outVars, inVars, shell, stream, front>>
KillOutcomes ==
    CASE shell # "live" -> {shell}
      [] reader \in {"parked", "parked!", "woken"} -> {"dead"}
      [] reader \in {"user", "exit"} -> {"live", "dead"}
      [] OTHER -> {"live"}
GivesUp == shell # "live" \/ patience = 0
WaitOver ==
    /\ front = "wait" /\ GivesUp /\ ring = <<>>
    /\ shell' \in KillOutcomes
    /\ front' = "reap"
    /\ UNCHANGED <<outVars, inVars, stream, patience>>
Reap ==
    /\ front = "reap"
    /\ shell' = IF shell = "dead" THEN "reaped" ELSE shell
    /\ front' = "close"
    /\ UNCHANGED <<outVars, inVars, stream, patience>>
Closable == shell # "live"
CloseSession ==
    /\ front = "close"
    /\ IF Closable THEN stream' = "closed" /\ ring' = <<>>
       ELSE UNCHANGED <<stream, ring>>
    /\ front' = "done"
    /\ UNCHANGED <<scene, holding, seqNo, overflow, written, displayed, shellSeq,
                   inVars, shell, patience>>

WriterStep == \E w \in scene.crew : MakePacket(w) \/ QueuePacket(w) \/ RecordLoss(w)
InCall == GetCharSecond \/ CompleteWait
ReaderStep == GetChar \/ InCall
FrontStep == ShowPacket \/ Tick \/ WaitOver \/ Reap \/ CloseSession

TermNext ==
    \/ WriterStep \/ ReaderStep \/ FrontStep \/ ShellExit \/ ShellDies
    \/ TypeKey \/ Notify \/ FrontCloses

(* A call once made is finished, and time passes; the shell need not make its  *)
(* next call: the program it runs may compute for ever.                        *)
TermFairness ==
    /\ WF_termVars(InCall) /\ WF_termVars(Notify) /\ WF_termVars(ShellExit)
    /\ WF_termVars(Tick \/ WaitOver) /\ WF_termVars(Reap) /\ WF_termVars(CloseSession)
    /\ WF_termVars(ShowPacket) /\ WF_termVars(\E w \in scene.crew : QueuePacket(w) \/ RecordLoss(w))
    /\ WF_termVars(shell # "live" /\ FrontCloses)

TermSpec == TermInit /\ [][TermNext]_termVars /\ TermFairness

----------------------------------------------------------------------------
Packet == [n : 0..scene.writes, seq : Nat, flag : BOOLEAN, kind : {"out", "exit"}]

(* Types of the session's stream, of the reader and of the front end.          *)
TermTypeOK ==
    /\ ring \in Seq(Packet) /\ Len(ring) <= StreamSlots
    /\ displayed \in Seq(Packet) /\ shellSeq \in 1..seqNo
    /\ typed \in 0..scene.keys /\ note \in 0..scene.keys + 1 /\ Len(ready) <= 1
    /\ reader \in {"user", "second", "second!", "parked", "parked!", "woken", "exit"}
    /\ shell \in {"live", "dead", "reaped"} /\ stream \in {"open", "closed"}
    /\ front \in {"run", "wait", "reap", "close", "done"}

(* The front end never shows a packet twice or out of order, however the       *)
(* writers interleave between taking a number and queueing.                    *)
ShownInOrder == \A i, j \in 1..Len(displayed) : i < j => displayed[i].seq < displayed[j].seq

(* With one writer, a gap in what the front end shows is marked on the next    *)
(* packet it shows: the overflow flag survives until a packet carries it.      *)
GapMarked ==
    Cardinality(scene.crew) = 1 =>
        \A i \in 1..Len(displayed) :
            LET before == IF i = 1 THEN 0 ELSE displayed[i - 1].n IN
            displayed[i].n > before + 1 => displayed[i].flag

(* The same for every session, as the terminal's documentation says: refuted   *)
(* when two programs write at once.                                            *)
GapAlwaysMarked ==
    \A i \in 1..Len(displayed) :
        LET before == IF i = 1 THEN 0 ELSE displayed[i - 1].n IN
        displayed[i].n > before + 1 => displayed[i].flag

(* The shell reads characters in the order they were typed, none twice.        *)
InputInOrder == \A i, j \in 1..Len(got) : i < j => got[i] < got[j]

(* Every character typed is either read or still on its way: refuted, the      *)
(* second look of SYS_GETCHAR drops the character it finds.                    *)
InputKept == \A i \in 1..Len(got) : got[i] = i

(* A reader does not sleep on input: one that is parked with a message in the  *)
(* mailbox has a notification on its way.                                      *)
ReaderNotStranded == (reader = "parked" /\ (inbox # <<>> \/ ready # <<>>)) => note > 0

(* The stream is closed under no live shell, and a front end that has reaped   *)
(* its shell leaves no stream behind.                                          *)
StreamReleased ==
    /\ stream = "closed" => shell # "live" /\ ring = <<>>
    /\ front = "done" /\ shell = "reaped" => stream = "closed"

(* The teardown always ends the shell: refuted, a shell that is running when   *)
(* the bounded wait ends is not killed.                                        *)
TeardownComplete == front = "done" => shell # "live"

(* A front end that starts to close, or whose shell is gone, finishes: the     *)
(* wait after HANGUP is bounded.                                               *)
FrontFinishes == (front = "wait" \/ shell # "live") ~> front = "done"

(* A session shows its shell's output in order with losses marked, hands the *)
(* keys over in order, strands no reader and releases its stream.            *)
SessionSound ==
    TermTypeOK /\ ShownInOrder /\ GapMarked /\ InputInOrder /\ ReaderNotStranded /\ StreamReleased
=============================================================================
