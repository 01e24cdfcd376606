------------------------------ MODULE TokenStore ------------------------------
(***************************************************************************)
(* The OAuth tokens of the configuration file and everybody who rewrites   *)
(* it: internal/config/config.go (Load, Save), internal/clientruntime      *)
(* (botConfig, persist*Identity, the refreshes of the three targets),      *)
(* internal/platform/twitch/user_client.go, cmd/streamchat/main.go (the    *)
(* persist functions of the ingestion and the settings page's Save) and    *)
(* the setup wizard of another process.                                    *)
(*                                                                         *)
(* One platform is modelled; its section of the file is "primary" and the  *)
(* dedicated bot account's is "bot".  A token is the identity it was       *)
(* granted to and a serial number; the provider may rotate the refresh     *)
(* token at every use, which ends the old one.  A holder keeps its tokens  *)
(* in memory behind a mutex of its own; the file has no lock.  Tokens that *)
(* come from environment variables are never saved and are left out.       *)
(***************************************************************************)
EXTENDS Naturals

CONSTANTS
    Holders,        \* the runtimes and adapters of the server process
    Bots,           \* those made by NewBot
    Editors,        \* who else rewrites the file
    BotConfigured,  \* whether the file has a bot account at first
    MaxTokens,      \* bound on the tokens granted to an identity
    MaxFaults,      \* bound on failed calls, lost answers and failed saves
    MaxEdits,       \* bound on the editors' saves
    MaxCrashes      \* bound on restarts of the server

ConstantsOK ==
    /\ Bots \subseteq Holders /\ BotConfigured \in BOOLEAN
    /\ Editors \subseteq {"settings", "wizard"} /\ Editors \cap Holders = {}
    /\ MaxTokens \in Nat \ {0} /\ {MaxFaults, MaxEdits, MaxCrashes} \subseteq Nat

VARIABLES
    file,       \* the tokens of both sections, or Torn
    holder,     \* what each holder has in memory and where it is
    editor,     \* each editor's copy of the whole file, and where it is
    valid,      \* the refresh tokens the provider accepts
    issued,     \* how many tokens each identity was granted
    spent,      \* faults, edits and crashes so far
    lost,       \* history: a new token was lost with an answer or a crash
    touched     \* history: who has used a refresh token, or loaded the file to edit it

vars == <<file, holder, editor, valid, issued, spent, lost, touched>>

-----------------------------------------------------------------------------
Sections == {"primary", "bot"}
Granted(id, n) == [id |-> id, n |-> n]
None == Granted("none", 0)
Tokens == {Granted(id, n) : id \in Sections, n \in 1..MaxTokens}
Configs == [Sections -> Tokens \cup {None}]
NoCopy == [s \in Sections |-> None]
Torn == [s \in Sections |-> Granted("torn", 0)]

\* Deviation: the bot's tokens go to the section of the primary account.
SectionPrimary(h, c) == "primary"

\* The section a holder's tokens are saved to, given the file loaded for it.
Section(h, c) == IF h \in Bots /\ c["bot"] # None THEN "bot" ELSE "primary"

\* The account of a holder whose process has just loaded the file.
Account(h, c) == c[IF h \in Bots /\ c["bot"] # None THEN "bot" ELSE "primary"]

Fresh(h, c) == [pc |-> "idle", token |-> Account(h, c), good |-> TRUE,
                retried |-> FALSE, copy |-> NoCopy, told |-> FALSE]

Init ==
    /\ file = [s \in Sections |-> IF s = "bot" /\ ~BotConfigured
                                  THEN None ELSE Granted(s, 1)]
    /\ holder = [h \in Holders |-> Fresh(h, file)]
    /\ editor = [e \in Editors |-> [pc |-> "idle", copy |-> NoCopy]]
    /\ valid = {file[s] : s \in Sections} \ {None}
    /\ issued = [s \in Sections |-> IF file[s] = None THEN 0 ELSE 1]
    /\ spent = [faults |-> 0, edits |-> 0, crashes |-> 0]
    /\ lost = FALSE /\ touched = {}

Spend(what, bound) ==
    spent[what] < bound /\ spent' = [spent EXCEPT ![what] = @ + 1]
Fault == Spend("faults", MaxFaults)

At(h, pc) == holder[h].pc = pc
Become(h, r) == holder' = [holder EXCEPT ![h] = r]
Goto(h, pc) == Become(h, [holder[h] EXCEPT !.pc = pc])

\* The operation answers its caller; a failure is reported to it.
Answer(h, r, ok) ==
    Become(h, [r EXCEPT !.pc = "idle", !.retried = FALSE, !.copy = NoCopy,
                        !.told = @ \/ ~ok])
Fails(h) == Answer(h, holder[h], FALSE)

-----------------------------------------------------------------------------
(* A holder uses its token. *)

\* The provider stops accepting the access token: it expired or was revoked.
Expire(h) ==
    /\ holder[h].pc \in {"idle", "call"} /\ holder[h].good
    /\ Become(h, [holder[h] EXCEPT !.good = FALSE])
    /\ UNCHANGED <<file, editor, valid, issued, spent, lost, touched>>

\* withToken, Do, requestJSON: a token known to have expired is refreshed
\* first, any other is tried.
Begin(h) ==
    /\ At(h, "idle")
    /\ \/ ~holder[h].good /\ Goto(h, "refresh")
       \/ Goto(h, "call")
    /\ UNCHANGED <<file, editor, valid, issued, spent, lost, touched>>

\* The request is answered; a rejected token is refreshed once.
Call(h) ==
    /\ At(h, "call")
    /\ \/ holder[h].good /\ Answer(h, holder[h], TRUE)
       \/ ~holder[h].good /\ holder[h].retried /\ Fails(h)
       \/ /\ ~holder[h].good /\ ~holder[h].retried
          /\ Become(h, [holder[h] EXCEPT !.pc = "refresh", !.retried = TRUE])
    /\ UNCHANGED <<file, editor, valid, issued, spent, lost, touched>>

\* The provider accepts a refresh token and may put a new one in its place.
Rotate(t, new) ==
    /\ t \in valid
    /\ \/ new = t /\ UNCHANGED <<valid, issued>>
       \/ /\ issued[t.id] < MaxTokens /\ new = Granted(t.id, issued[t.id] + 1)
          /\ issued' = [issued EXCEPT ![t.id] = @ + 1]
          /\ valid' = (valid \ {t}) \cup {new}

\* Deviation: the refresh token of the answer is dropped.
RefreshedOld(h, new) ==
    Become(h, [holder[h] EXCEPT !.pc = "load", !.good = TRUE])

\* The answer: memory has the new tokens before the file has them.
Refreshed(h, new) ==
    Become(h, [holder[h] EXCEPT !.pc = "load", !.good = TRUE, !.token = new])

Refresh(h) ==
    /\ At(h, "refresh") /\ touched' = touched \cup {h}
    /\ \/ /\ \E new \in Tokens : Rotate(holder[h].token, new) /\ Refreshed(h, new)
          /\ UNCHANGED <<spent, lost>>
       \/ \* the provider refuses it
          /\ holder[h].token \notin valid /\ Fails(h)
          /\ UNCHANGED <<valid, issued, spent, lost>>
       \/ \* the provider's answer does not arrive
          /\ \E new \in Tokens \ {holder[h].token} : Rotate(holder[h].token, new)
          /\ Fault /\ lost' = TRUE /\ Fails(h)
       \/ Fault /\ Fails(h) /\ UNCHANGED <<valid, issued, lost>>
    /\ UNCHANGED <<file, editor>>

-----------------------------------------------------------------------------
(* persist*Identity and persist*Tokens: load, change a section, save. *)

\* Deviation: an operation goes on when its token could not be saved.
SaveErrorIgnored(h) == Goto(h, "call")

\* A save that fails fails the operation, memory keeps the new tokens.
SaveError(h) == Fails(h)

Load(h) ==
    /\ At(h, "load")
    /\ \/ /\ file # Torn
          /\ Become(h, [holder[h] EXCEPT !.pc = "write", !.copy = file])
          /\ UNCHANGED spent
       \/ Fault /\ SaveError(h)
    /\ UNCHANGED <<file, editor, valid, issued, lost, touched>>

\* Deviation: the configuration is truncated and written in place.
WrittenInPlace == Torn

\* Save writes a temporary file beside the configuration.
Written == file

Write(h) ==
    /\ At(h, "write")
    /\ \/ Goto(h, "rename") /\ file' = Written /\ UNCHANGED spent
       \/ Fault /\ SaveError(h) /\ UNCHANGED file
    /\ UNCHANGED <<editor, valid, issued, lost, touched>>

\* ... and renames it; only then may the last chmod fail.
Rename(h) ==
    LET c == holder[h].copy
    IN  /\ At(h, "rename")
        /\ \/ /\ file' = [c EXCEPT ![Section(h, c)] = holder[h].token]
              /\ Become(h, [holder[h] EXCEPT !.pc = "call", !.told = FALSE,
                                        !.copy = NoCopy])
              /\ UNCHANGED spent
           \/ /\ file' = [c EXCEPT ![Section(h, c)] = holder[h].token]
              /\ Fault /\ SaveError(h)
           \/ Fault /\ SaveError(h) /\ UNCHANGED file
        /\ UNCHANGED <<editor, valid, issued, lost, touched>>

-----------------------------------------------------------------------------
(* The settings page and the wizard rewrite the whole file as well. *)

EditorLoads(e) ==
    /\ editor[e].pc = "idle" /\ spent.edits < MaxEdits /\ file # Torn
    /\ editor' = [editor EXCEPT ![e] = [pc |-> "editing", copy |-> file]]
    /\ touched' = touched \cup {e}
    /\ UNCHANGED <<file, holder, valid, issued, spent, lost>>

Saves(e, c) ==
    /\ editor[e].pc = "editing" /\ Spend("edits", MaxEdits)
    /\ editor' = [editor EXCEPT ![e] = [pc |-> "idle", copy |-> NoCopy]]
    /\ file' = c
    /\ UNCHANGED <<holder, lost, touched>>

\* The settings page changes none of the tokens.
SettingsSave ==
    /\ "settings" \in Editors
    /\ Saves("settings", editor["settings"].copy)
    /\ UNCHANGED <<valid, issued>>

\* The wizard stores the tokens of a new bot account.
WizardSave ==
    /\ "wizard" \in Editors /\ issued["bot"] < MaxTokens
    /\ LET new == Granted("bot", issued["bot"] + 1)
       IN  /\ Saves("wizard", [editor["wizard"].copy EXCEPT !["bot"] = new])
           /\ valid' = valid \cup {new}
           /\ issued' = [issued EXCEPT !["bot"] = @ + 1]

-----------------------------------------------------------------------------
\* The server process ends anywhere and is started again; the wizard is a
\* process of its own.
Restart ==
    /\ Spend("crashes", MaxCrashes) /\ file # Torn
    /\ lost' = (lost \/ \E h \in Holders :
                          holder[h].token # file[Section(h, file)])
    /\ holder' = [h \in Holders |-> Fresh(h, file)]
    /\ editor' = [e \in Editors |-> IF e = "settings"
                                    THEN [pc |-> "idle", copy |-> NoCopy]
                                    ELSE editor[e]]
    /\ UNCHANGED <<file, valid, issued, touched>>

Uses(h) == Expire(h) \/ Begin(h) \/ Call(h) \/ Refresh(h)
Persists(h) == Load(h) \/ Write(h) \/ Rename(h)

Next ==
    \/ \E h \in Holders : Uses(h) \/ Persists(h)
    \/ \E e \in Editors : EditorLoads(e)
    \/ SettingsSave \/ WizardSave \/ Restart

Spec == Init /\ [][Next]_vars

-----------------------------------------------------------------------------
(* Properties. *)

\* Whoever crashes, and wherever, leaves a file that can be loaded, because
\* Save replaces it by a rename.
TypeOK ==
    /\ file \in Configs
    /\ holder \in [Holders ->
           [pc : {"idle", "call", "refresh", "load", "write", "rename"},
            token : Tokens, good : BOOLEAN, retried : BOOLEAN,
            copy : Configs, told : BOOLEAN]]
    /\ editor \in [Editors -> [pc : {"idle", "editing"}, copy : Configs]]
    /\ valid \subseteq Tokens /\ issued \in [Sections -> 0..MaxTokens]
    /\ spent \in [{"faults", "edits", "crashes"} -> Nat] /\ lost \in BOOLEAN
    /\ touched \subseteq Holders \cup Editors

\* Nobody but h has had an effect on the tokens and the file.
Alone(h) == touched \subseteq {h}

\* When a holder that is alone with the file is at rest, the file has its refresh
\* token, unless an operation since the last good save told its caller that
\* something failed: no rotated token is left unsaved in silence.
SavedOrReported ==
    \A h \in Holders :
        Alone(h) /\ At(h, "idle") =>
            holder[h].told \/ file[Section(h, file)] = holder[h].token

\* Its refresh token is one the provider accepts, through rotations, failed saves
\* and restarts, unless a new token was lost with an answer or with the memory of a
\* process that had not saved it.
LockedOutOnlyByLoss ==
    \A h \in Holders : Alone(h) => holder[h].token \in valid \/ lost

\* Each section has tokens of the identity it is for, however the saves of
\* the primary account's and the bot's holders interleave.
SectionsKeepTheirIdentity ==
    \A s \in Sections : file[s].id \in {s, "none"}

\* The first bot account is not stored while a bot of the server runs without one.
BotsHaveAccounts == BotConfigured \/ Bots = {} \/ "wizard" \notin Editors

\* The file can always be loaded; a holder alone with it has the token that works,
\* in memory and in the file; several never mix their accounts.
TokenSafety ==
    /\ TypeOK /\ SavedOrReported /\ LockedOutOnlyByLoss
    /\ BotsHaveAccounts => SectionsKeepTheirIdentity

\* A token that a section has had replaced is not put back by somebody's
\* older copy of the file.
NoTokenComesBack ==
    [][\A s \in Sections : file'[s].n >= file[s].n]_file
===============================================================================
