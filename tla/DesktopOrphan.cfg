SPECIFICATION MCSpec
CONSTANTS
    page1 = page1
    handler1 = handler1
    Standalone <- MCStandalone
    Pages <- MCPages
    Handlers <- MCHandlers
    Targets <- MCTargets
    Statuses <- MCStatuses
    MaxLaunches = 2
    MaxFaults = 2
    ProbeWait = 10
    QtWait = 3
    ReadyWait = 15
    Drain = 5
    AskWait = 2
    DoneWait = 3
    HistoryLimit = 2
    Buffer = 1
    QueueSize = 1
    MaxMessages = 3
    MaxVisits = 2
INVARIANTS
    ShutsDownWithApplication
CHECK_DEADLOCK FALSE
