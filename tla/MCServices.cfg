CONSTANTS
    Mail <- MCMail
    MailFilter <- MCMailFilter
    MailSlots = 3
    PayloadV1 = 2
    MaxTraffic = 3
    Event = {"e1", "e2"}
    NoEvent = "none"
    EventSlots = 2
    MaxEvents = 4
    Caller = {"a", "b", "d"}
    Service = {"d"}
    Sender = {"s1", "s2"}
    MailLimit = 2
    EventLimit = 2
    Scenario <- MCScenario
    Proc = {"w1", "w2", "d1"}
    Offers <- MCOffers
    Calls <- MCCalls
    Slots = 2
    MaxSession = 2
    MaxService = 2
    FrameClient = {1, 2}
    MaxGen = 2
    MaxRects = 3
    PerChunk = 2
    WaitTicks = 2
    MaxRequests = 5
    Managed = {1, 2, 3}
    Deps <- MCDeps
    Command <- MCCommand
    OnFailure = {2, 3}
    RestartLimit = 2
    MaxCommands = 2
    MaxFaults = 3
    HistoryRows = 4
    Columns = {2, 3}
    Rows = {1, 3}
    TabWidth = 2
    Word = 64
    Scenes <- MCScenes
    StreamSlots = 2
    Patience = 2
    MaxWindows = 2
    Border = 1
    WClient = {"a", "b"}
    Shell = "a"
    Screen = 4
    KeepOn = 1
    MinWidth = 1
    PresentResults = {"ack", "lost"}
    ReleaseResults = {"ok", "io"}
    Forms <- MCForms
    Places = {0, 2}
    Widths = {1}
    MaxWinGen = 2
    MaxContent = 2
    MaxLease = 2
    MaxDisplay = 2
    MaxServed = 4
    Parts = {"mail", "events", "receive", "display", "frames", "supervisor", "grid", "terminal",
             "windows"}
INIT Init
NEXT Next
INVARIANTS MailboxSound  WindowsSound
PROPERTIES RingsImplementQueues ScreenOwned FramesWhole SupervisorSound TerminalSound WindowHistory
CHECK_DEADLOCK FALSE
