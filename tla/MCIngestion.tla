------------------------------ MODULE MCIngestion ------------------------------
(***************************************************************************)
(* The providers and the watchers of the input on a small instance.  The   *)
(* modules share no state, and each has parts that exercise it: part says  *)
(* which one a behaviour belongs to, and what that one leaves out.  The    *)
(* variables of the other modules keep their initial value.                *)
(*   twitch      all of the EventSub client                                *)
(*   youtube     every way a request may fail, once; two messages          *)
(*   pages       three messages, the second of which cannot be parsed, in  *)
(*               pages of any length, and no fault                         *)
(*   failing     one message, and requests that fail again and again,      *)
(*               until the wait is at its limit                            *)
(*   broadcasts  four broadcasts and two faults, without Discord           *)
(*   both        the two watchers, two broadcasts and one fault            *)
(***************************************************************************)
EXTENDS Ingestion

VARIABLE part

ASSUME IngestionAssumption == Twitch!ConstantsOK /\ YT!ConstantsOK /\ Input!ConstantsOK

\* The YouTube watcher acts at once, the one of Discord on two observations.
MCConfirmations == [x \in {"youtube", "discord"} |-> IF x = "youtube" THEN 1 ELSE 2]

YouTubeParts == {"youtube", "pages", "failing"}
InputParts == {"broadcasts", "both"}

MCInit ==
    /\ Twitch!Init /\ YT!Init /\ Input!Init
    /\ part \in {"twitch"} \cup YouTubeParts \cup InputParts

YouTubeNext ==
    /\ YT!Next
    /\ CASE part = "youtube" -> provider'.last <= 2 /\ hist'.faults <= 1
         [] part = "pages"   -> hist'.faults = 0
         [] part = "failing" ->
                /\ provider'.last <= 1 /\ main'.twitch = "running"
                /\ yt'.error \in {"nil", "recoverable"}
                /\ hist'.failed > hist.failed => yt'.pc = "backoff"

InputNext ==
    /\ Input!Next
    /\ IF part = "broadcasts"
       THEN w'["discord"] = w["discord"] \/ restarts' # restarts
       ELSE faults' <= 1 /\ \A b \in Input!Broadcasts : b > 2 => status'[b] = "none"

MCNext ==
    \/ part = "twitch" /\ Twitch!Next /\ UNCHANGED <<part, youtubeVars, inputVars>>
    \/ part \in YouTubeParts /\ YouTubeNext /\ UNCHANGED <<part, twitchVars, inputVars>>
    \/ part \in InputParts /\ InputNext /\ UNCHANGED <<part, twitchVars, youtubeVars>>

MCSpec == MCInit /\ [][MCNext]_<<part, twitchVars, youtubeVars, inputVars>>

\* The fairness of each module, asked for in the states of its part only; of the
\* watchers the one for YouTube goes on, and its calls are answered.
Connecting == part = "twitch" /\ WF_twitchVars(part = "twitch" /\ Twitch!Client)
Reading ==
    /\ part = "youtube"
    /\ WF_youtubeVars(part = "youtube" /\ YT!Adapter)
    /\ WF_youtubeVars(part = "youtube" /\ YT!Main)
    /\ WF_youtubeVars(part = "youtube" /\ YT!Take)
    /\ WF_youtubeVars(part = "youtube" /\ ~main.serverCtx /\ YT!ServerEnds)
Broadcasting ==
    /\ part = "broadcasts"
    /\ WF_inputVars(part = "broadcasts" /\ Input!Tick("youtube"))
    /\ WF_inputVars(part = "broadcasts" /\ Input!MayRetry("youtube"))
    /\ WF_inputVars(part = "broadcasts" /\ Input!YouTubeStep)

\* Sessions come back, live chats are read, broadcasts go live, and a signal ends
\* it all.
IngestionGoesOn ==
    /\ Connecting => Twitch!AlwaysReconnects
    /\ Reading => YT!LiveChatIsFollowed
    /\ Reading => YT!SignalEnds
    /\ Broadcasting => Input!LiveInTheEnd
=============================================================================
