SPECIFICATION MCSpec
CONSTANTS
    Holders = {"user", "bot"}
    Bots = {"bot"}
    Editors = {"settings", "wizard"}
    BotConfigured = TRUE
    MaxTokens = 4
    MaxFaults = 3
    MaxEdits = 1
    MaxCrashes = 2
    Platforms = {"twitch", "youtube"}
    Commands = {"!commands", "!gender"}
    Others = {"chat", "alert", "other"}
    QueueSize = 2
    Escape = 2
    Cooldowns = {1, 2, 3}
    MaxEvents = 5
    MaxTime = 5
    MaxUpdates = 1
    MaxTests = 1
    Services = {"youtube", "youtube-server", "youtube-bot", "kick", "twitch", "twitch-bot"}
    SectionOf <- MCSectionOf
    Keyed = {"youtube"}
    Anonymous = {"youtube-server"}
    Bot = {"youtube-bot", "twitch-bot"}
    Live = {"youtube-bot"}
    PrimaryOf <- MCPrimaryOf
    Accounts = {"owner", "bot"}
    Selections <- MCSelections
    MaxRuns = 3
    MaxApps = 2
INVARIANTS
    TokenSafety
    BotSafety
PROPERTIES
    WizardSafety
    EveryEventIsTaken
CHECK_DEADLOCK FALSE
