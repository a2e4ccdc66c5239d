----------------------------- MODULE MCServices -----------------------------
(* Instances of the user-space services and of the kernel services under them:*)
(* the mailbox, the event queue, blocking receives, the display session, the  *)
(* display server's frames, the window server, the supervisor, a terminal     *)
(* session and its screen.  They share no state; part names the one that runs.*)
EXTENDS IpcMailbox, InputQueue, BlockingReceive, DisplaySession, DisplayServer,
        WindowServer, Supervisor, TerminalGrid, Terminal

Letter(s, t, r, n, h) == [sender |-> s, type |-> t, reply |-> r, length |-> n, handles |-> h]
MCMail == {Letter(1, "event", 0, 1, 0), Letter(2, "reply", 1, 2, 1), Letter(2, "event", 1, 3, 0)}
MCMailFilter == {[flags |-> {"sender", "type"}, sender |-> 2, type |-> "event", reply |-> 0],
                 [flags |-> {"reply"}, sender |-> 0, type |-> "none", reply |-> 1]}

Waits(a, b, d) == [a |-> a, b |-> b, d |-> d]
Traffic(m, i, v, w) == [mail |-> m, input |-> i, moves |-> v, waits |-> w]
MCScenario ==
    {Traffic(3, 0, 0, Waits({"IPC"}, {"IPC"}, {})),
     Traffic(0, 2, 2, Waits({"INPUT", "KEY", "CHAR"}, {}, {})),
     Traffic(0, 2, 3, Waits({}, {}, {"INPUT"}))}

MCOffers == [w1 |-> "window", w2 |-> "window", d1 |-> "display"]
MCCalls == [w1 |-> {"register", "acquire", "unregister", "release"},
            w2 |-> {"register", "acquire"},
            d1 |-> {"register", "present"}]

Form(x, w, layer, deco) == [x |-> x, w |-> w, layer |-> layer, deco |-> deco]
MCForms == {Form(1, 2, Normal, TRUE), Form(1, 1, Panel, FALSE)}

MCDeps == <<<<>>, <<>>, <<1, 2>>>>
MCCommand == {<<"START", 3>>, <<"STOP", 2>>, <<"RESTART", 1>>,
              <<"CRASH", 2>>, <<"HEALTH", 1>>, <<"EXIT", 1>>}

Session(c, w, k) == [crew |-> c, writes |-> w, keys |-> k]
MCScenes == {Session({"a"}, 4, 0), Session({"a", "b"}, 3, 0), Session({}, 0, 2),
             Session({"a"}, 1, 1)}

(* Smaller instances for the liveness properties.                             *)
MCScenarioSmall == {Traffic(2, 0, 0, Waits({"IPC"}, {"IPC"}, {}))}
MCScenesSmall == {Session({"a"}, 2, 0), Session({}, 0, 1)}

CONSTANT Parts     \* the parts that run
VARIABLE part

allVars == <<mailVars, eventVars, recvVars, displayVars, frameVars, superVars,
             gridVars, termVars, winVars, part>>

(* The parts that do not run keep one of their initial states.                *)
Init ==
    /\ part \in Parts
    /\ MailInit /\ EventInit /\ DisplayInit /\ FrameInit /\ SuperInit /\ WindowInit
    /\ GridInit /\ (part # "grid" => cols = 2 /\ rows = 1)
    /\ RecvInit /\ (part # "receive" => budget = CHOOSE s \in Scenario : TRUE)
    /\ TermInit /\ (part # "terminal" => scene = CHOOSE s \in Scenes : TRUE)

(* Only the part p runs.                                                      *)
OnlyMail ==
    part = "mail" /\ UNCHANGED <<part, eventVars, recvVars, displayVars, frameVars, superVars, gridVars, termVars, winVars>>
OnlyEvents ==
    part = "events" /\ UNCHANGED <<part, mailVars, recvVars, displayVars, frameVars, superVars, gridVars, termVars, winVars>>
OnlyReceive ==
    part = "receive" /\ UNCHANGED <<part, mailVars, eventVars, displayVars, frameVars, superVars, gridVars, termVars, winVars>>
OnlyDisplay ==
    part = "display" /\ UNCHANGED <<part, mailVars, eventVars, recvVars, frameVars, superVars, gridVars, termVars, winVars>>
OnlyFrames ==
    part = "frames" /\ UNCHANGED <<part, mailVars, eventVars, recvVars, displayVars, superVars, gridVars, termVars, winVars>>
OnlySupervisor ==
    part = "supervisor" /\ UNCHANGED <<part, mailVars, eventVars, recvVars, displayVars, frameVars, gridVars, termVars, winVars>>
OnlyGrid ==
    part = "grid" /\ UNCHANGED <<part, mailVars, eventVars, recvVars, displayVars, frameVars, superVars, termVars, winVars>>
OnlyTerminal ==
    part = "terminal" /\ UNCHANGED <<part, mailVars, eventVars, recvVars, displayVars, frameVars, superVars, gridVars, winVars>>

OnlyWindows ==
    part = "windows" /\ UNCHANGED <<part, mailVars, eventVars, recvVars, displayVars, frameVars, superVars, gridVars, termVars>>

Next ==
    \/ OnlyMail /\ MailNext
    \/ OnlyEvents /\ EventNext
    \/ OnlyReceive /\ RecvNext
    \/ OnlyDisplay /\ DisplayNext
    \/ OnlyFrames /\ FrameNext
    \/ OnlySupervisor /\ SuperNext
    \/ OnlyGrid /\ GridNext
    \/ OnlyTerminal /\ TermNext
    \/ OnlyWindows /\ WindowNext

(* The fairness of each part, as its module states it.                        *)
Fairness ==
    /\ \A t \in Caller : WF_allVars(OnlyReceive /\ CallerStep(t))
    /\ \A s \in Sender : WF_allVars(OnlyReceive /\ SendSignal(s))
    /\ WF_allVars(OnlyReceive /\ KernelStep)
    /\ \A p \in Proc : WF_allVars(OnlyDisplay /\ Inside(p))
    /\ WF_allVars(OnlyFrames /\ FrameTick) /\ WF_allVars(OnlyFrames /\ WaitTimeout)
    /\ WF_allVars(OnlySupervisor /\ ManagerStep) /\ WF_allVars(OnlySupervisor /\ SuperviseBegin)
    /\ \A s \in Managed : /\ WF_allVars(OnlySupervisor /\ ServiceRegisters(s))
                           /\ WF_allVars(OnlySupervisor /\ BackoffEnds(s))
    /\ WF_allVars(OnlyTerminal /\ InCall) /\ WF_allVars(OnlyTerminal /\ Notify)
    /\ WF_allVars(OnlyTerminal /\ ShellExit) /\ WF_allVars(OnlyTerminal /\ (Tick \/ WaitOver))
    /\ WF_allVars(OnlyTerminal /\ (Reap \/ CloseSession \/ ShowPacket))
    /\ WF_allVars(OnlyTerminal /\ \E w \in scene.crew : QueuePacket(w) \/ RecordLoss(w))
    /\ WF_allVars(OnlyTerminal /\ shell # "live" /\ FrontCloses)

Spec == Init /\ [][Next]_allVars /\ Fairness

(* Both rings with wrapping indices, the one that gives out messages in any   *)
(* order and the one that overwrites its oldest event, are plain queues.      *)
RingsImplementQueues == MailboxImplementsQueue /\ EventRingImplementsQueue

(* A terminal's cursor and view stay on its screen and in its history, and    *)
(* its session hands input and output over in order, with losses marked.      *)
TerminalSound ==
    /\ [](part = "grid" => CursorInGrid /\ ViewInHistory)
    /\ [](part = "terminal" => SessionSound)

(* What a service begins ends: queued mail reaches a waiting receiver, a      *)
(* handover of the screen and a frame transaction are finished or given up,   *)
(* a failed service is started again or given up, and a closing terminal      *)
(* lets go of its shell.                                                      *)
ServicesProgress ==
    MailReceived /\ HandoffEnds /\ TransactionEnds /\ FailureHandled /\ FrontFinishes

(* No wakeup is lost and no wait outlives the focus it was for, whatever the *)
(* order of senders, interrupts, session and focus changes.                  *)
NoLostReceive ==
    part = "receive" =>
        RecvTypeOK /\ MailWakeups /\ InputWakeups /\ ServiceWakeups /\ FocusLossCancels

(* windowd's tables agree after every message and deadline: the stacking     *)
(* order lists exactly the open windows, the focus is on one that can take   *)
(* it, every surface handle it holds backs one window, and the screen shows  *)
(* what the tables say whenever no frame is owed.                            *)
WindowsSound ==
    part = "windows" =>
        ZOrderExact /\ FocusVisible /\ HandlesExact /\ ScreenCurrent

(* The screen has one renderer, the session one live owner and a service     *)
(* name one live registration, although draws, session changes, registration *)
(* and process ends overlap.                                                 *)
ScreenOwned ==
    /\ [](part = "display" => /\ DisplayTypeOK /\ NoConsoleOverGui /\ OneRenderer
                              /\ SessionOwned /\ WindowOwnerLive /\ NamesUnique)
    /\ RegistrationStays

(* Frames are shown whole and in order: a presented frame is exactly what    *)
(* its sender sent, an older one never replaces a newer one, and displayd    *)
(* holds one handle per pending transaction.                                 *)
FramesWhole ==
    /\ [](part = "frames" => FrameTypeOK /\ NoHandleLeak /\ ShownWhole)
    /\ NoOlderFrame /\ OnlyOwnerAborts

(* The manager never forgets a failed service, leaves none half started,     *)
(* starts one only behind its dependencies and stops none under a dependent. *)
SupervisorSound ==
    /\ [](part = "supervisor" =>
            SuperTypeOK /\ FailedIsScheduled /\ NothingHalfDone /\ StopSparesDependents)
    /\ LaunchAfterDependencies
=============================================================================
