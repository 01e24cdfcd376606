------------------------------- MODULE Ingestion -------------------------------
(***************************************************************************)
(* What the server reads from the providers and does when its input goes   *)
(* on and off: with the prefix Twitch the EventSub client (TwitchSession), *)
(* with the prefix YT the live chat adapter (YouTubeIngest), and with      *)
(* the prefix Input the watchers of the input (InputLifecycle).  The three *)
(* share no state: the adapters meet in the channel of ServerPipeline, and *)
(* a watcher knows of the others only what the relay tells it.             *)
(***************************************************************************)
EXTENDS Integers, Sequences, FiniteSets

CONSTANTS Notifications, MaxSockets, TwitchFaults, MaxReconnects, URLsExpire, Window
VARIABLES state, url, inherited, adopted, conn, previous, started, oldReaders, hand,
          recorded, delivered, asked, cancelled, sockets, open, lost, inbox, subscribed,
          published, urlAlive, reconnects, twitchFaults

Twitch == INSTANCE TwitchSession WITH
    Events <- Notifications, MaxFaults <- TwitchFaults, faults <- twitchFaults

CONSTANTS FixedVideo, Malformed, Answers, YouTubeQueue, MaxMessages, YouTubeFaults
VARIABLES provider, yt, messages, main, hist

YT == INSTANCE YouTubeIngest WITH QueueSize <- YouTubeQueue, MaxFaults <- YouTubeFaults

CONSTANTS Watchers, Confirmations, MaxSessions, MaxBroadcasts, MaxFaults, MaxRestarts
VARIABLES input, session, signal, w, step, mine, status, posted, lostAnswers, faults,
          restarts, offline, confirmed

Input == INSTANCE InputLifecycle

twitchVars == <<state, url, inherited, adopted, conn, previous, started, oldReaders,
                hand, recorded, delivered, asked, cancelled, sockets, open, lost, inbox,
                subscribed, published, urlAlive, reconnects, twitchFaults>>
youtubeVars == <<provider, yt, messages, main, hist>>
inputVars == <<input, session, signal, w, step, mine, status, posted, lostAnswers,
               faults, restarts, offline, confirmed>>

(* The EventSub client takes every notification once in its window and     *)
(* drops none it remembers, and through handovers and losses it keeps the  *)
(* right sockets and subscribes only when it must.                         *)
TwitchSafety == Twitch!TwitchSafety

(* A YouTube session leaves nothing out and repeats nothing, ends only for *)
(* what should end it and before the process does, and waits as long as it *)
(* should.                                                                 *)
YouTubeSafety == YT!YouTubeSafety

(* Broadcasts and announcements follow from a confirmed edge of the input, *)
(* and lost answers, retries and restarts make neither too many of them.   *)
InputSafety == Input!InputSafety
================================================================================
