------------------------------ MODULE MCAccounts -------------------------------
(***************************************************************************)
(* The accounts and the bot on a small instance.  The modules share no     *)
(* state, and each has parts that exercise it: part says which one a       *)
(* behaviour belongs to, and what that one leaves out.  The variables of   *)
(* the other modules keep an initial value.                                *)
(*                                                                         *)
(*   wizard: the setup wizard; single: one account, whose tokens are       *)
(*   rotated, with faults and crashes; double: two accounts in one file,   *)
(*   which the wizard rewrites too; edited: two accounts and the settings  *)
(*   page, without other faults; answers: two commands, a cooldown and the *)
(*   messages that end it; spaced: a command and alerts on YouTube, whose  *)
(*   replies are spaced, while the settings change.                        *)
(***************************************************************************)
EXTENDS Accounts, TLC

VARIABLE part

ASSUME AccountsAssumption == ConstantsOK /\ Engine!ConstantsOK /\ Wizard!ConstantsOK

\* A user selects a service by name or several from the list.
MCSelections == {<<"youtube-server">>, <<"youtube-bot">>, <<"twitch-bot">>, <<"twitch">>,
                 <<"youtube", "kick">>}
MCSectionOf == [s \in Services |-> IF s = "youtube-server" THEN "youtube" ELSE s]
MCPrimaryOf == "twitch-bot" :> "twitch" @@ "youtube-bot" :> "youtube"

MCInit ==
    /\ Init /\ Engine!Init /\ Wizard!Init
    /\ part \in {"wizard", "single", "double", "edited", "answers", "spaced"}
    /\ IF part = "spaced" THEN cfg.cooldown < 3 ELSE cfg.cooldown = 3

Within(faults, edits, crashes, granted) ==
    /\ spent'.faults <= faults /\ spent'.edits <= edits /\ spent'.crashes <= crashes
    /\ \A s \in Sections : issued'[s] <= granted

TokensNext ==
    /\ Next
    /\ CASE part = "single" -> /\ Within(3, 0, 2, 4) /\ touched' \subseteq {"user"}
                               /\ holder'["bot"] = holder["bot"]
         [] part = "double" -> Within(1, 1, 1, 2) /\ "settings" \notin touched'
         [] part = "edited" -> Within(0, 1, 1, 2) /\ "wizard" \notin touched'

Asked(platform, kinds) ==
    \A i \in DOMAIN queue' : queue'[i].platform = platform /\ queue'[i].kind \in kinds

EngineNext ==
    /\ Engine!Next
    /\ botSpent'.faults <= 1
    /\ CASE part = "answers" -> /\ Asked("twitch", Commands \cup {"chat", "other"})
                                /\ now' <= 4 /\ botSpent'.updates = 0 /\ botSpent'.tests = 0
         [] part = "spaced" -> /\ Asked("youtube", {"!commands", "alert"})
                               /\ botSpent'.events <= 3
                               /\ cfg'.cooldown < 3 /\ cfg'.disabled \subseteq {"youtube"}

MCNext ==
    \/ part = "wizard" /\ Wizard!Next /\ UNCHANGED <<part, tokenVars, botVars>>
    \/ /\ part \in {"single", "double", "edited"}
       /\ TokensNext /\ UNCHANGED <<part, wizardVars, botVars>>
    \/ /\ part \in {"answers", "spaced"}
       /\ EngineNext /\ UNCHANGED <<part, wizardVars, tokenVars>>

MCSpec == MCInit /\ [][MCNext]_<<part, wizardVars, tokenVars, botVars>>

\* An event in the queue is taken in the end, unless it waits for a reply that
\* the bounded clock does not reach.
EveryEventIsTaken == (part = "spaced" /\ Engine!Fairness) => Engine!EveryEventIsTaken
=============================================================================
