---- MODULE ChatCommands ----
(* The commands of the chat clients: moderation, titles, categories,       *)
(* messages and status requests (ChannelControl, by its own names) and,    *)
(* with the prefix Clear, /clear (RemoteClear).  The two share no state:   *)
(* whatever one of them does leaves the other alone.                       *)
EXTENDS ChannelControl

CONSTANTS ClearPlatforms, Day, Typed, MaxDays, MaxMessages, MaxTime, MaxLost
VARIABLES now, message, visible, archive, clear, clearHist

Clear == INSTANCE RemoteClear WITH Platforms <- ClearPlatforms, hist <- clearHist

commandVars == vars
clearVars == <<now, message, visible, archive, clear, clearHist>>

(* /clear deletes its snapshot and nothing else, and says what it did.     *)
ClearSafety == Clear!ClearSafety
====
