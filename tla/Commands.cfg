SPECIFICATION MCSpec
CONSTANTS
    Callers = {"a", "b"}
    PlatformsOf <- MCPlatformsOf
    Available = {"kick", "twitch", "youtube"}
    Refreshable = {"kick", "twitch", "youtube"}
    Ops = {"ban", "timeout", "title", "category", "send", "status"}
    Titles = {"t", "u"}
    Durations <- Lengths
    Directory <- Searches
    MaxCommands = 2
    MaxFaults = 2
    ClearPlatforms = {"kick", "twitch"}
    Day = 2
    Typed <- MCTyped
    MaxDays = 2
    MaxMessages = 2
    MaxTime = 5
    MaxLost = 1
INVARIANTS
    ControlSafety
    ClearSafety
PROPERTIES
    CommandsGoOn
CHECK_DEADLOCK FALSE
