SPECIFICATION Spec
CONSTANTS
    KickEvents = {k1}
    TwitchEvents = {t1}
    YouTubeEvents = {}
    QueueSize = 2
    MaxRuns = 2
INVARIANT AnsweredIsArchived
CHECK_DEADLOCK FALSE
