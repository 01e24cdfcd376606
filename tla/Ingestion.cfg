SPECIFICATION MCSpec
CONSTANTS
    Notifications = {e1, e2}
    MaxSockets = 4
    TwitchFaults = 1
    MaxReconnects = 2
    URLsExpire = TRUE
    Window = 1
    FixedVideo = FALSE
    Malformed = {2}
    Answers = {"network", "liveChatEnded", "notFound", "quotaExceeded", "rate", "forbidden", "other", "broken"}
    YouTubeQueue = 1
    MaxMessages = 3
    YouTubeFaults = 6
    Watchers = {"youtube", "discord"}
    Confirmations <- MCConfirmations
    MaxSessions = 2
    MaxBroadcasts = 4
    MaxFaults = 2
    MaxRestarts = 1
INVARIANTS
    TwitchSafety
    YouTubeSafety
    InputSafety
PROPERTIES
    IngestionGoesOn
CHECK_DEADLOCK FALSE
