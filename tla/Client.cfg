SPECIFICATION MCSpec
CONSTANTS
    Adapters = {"kick", "twitch"}
    PipeMessages <- MCMessages
    Invalid = {3}
    PipeQueue = 2
    DuplicateCapacity = 1
    MaxPublished = 3
    Platforms = {"kick", "twitch"}
    None = "none"
    DisplayLimit = 2
    MaxMessages = 3
    MaxFaults = 1
    MaxSessions = 2
    Emotes = {"a", "b", "c"}
    Texts <- MCTexts
    Unsupported = {"c"}
    Rows = 2
    MaxFailures = 1
    MaxResizes = 1
INVARIANTS
    PipelineSafety
    TerminalSafety
PROPERTIES
    PipelineImplementsMerge
    ClientGoesOn
CHECK_DEADLOCK FALSE
