SPECIFICATION FairSpec
CONSTANTS
    KickEvents = {k1}
    TwitchEvents = {t1}
    YouTubeEvents = {y1}
    QueueSize = 2
    MaxRuns = 2
INVARIANTS
    TypeOK
    ShownIsArchived
    ShownOnce
    AtMostOneUnrelayedPerRun
PROPERTIES
    NothingShownAfterFailure
    ImplementsArchivedRelay
    PipelineGoesOn
CHECK_DEADLOCK FALSE
