------------------------------ MODULE SetupWizard ------------------------------
(***************************************************************************)
(* The setup wizard, internal/setup/wizard.go, with the authorization on a *)
(* loopback listener of internal/oauth/local.go and the message the        *)
(* command ends with (finish in cmd/streamchat/main.go).                   *)
(*                                                                         *)
(* A run loads the configuration once, takes the selected services one     *)
(* after the other and saves everything it has in memory after each.  The  *)
(* handlers differ in where they keep a half-finished section: the primary *)
(* accounts are changed in place, the bot accounts are a copy until they   *)
(* are complete.                                                           *)
(*                                                                         *)
(* A section records the API key and the one that was tried last, the      *)
(* application its user configured, the application and the account its    *)
(* token was granted to, how often the token was renewed since, the        *)
(* account the section names, and whether the last step (Kick's            *)
(* subscription, Twitch's channel) was done.  YouTube's section is shared: *)
(* youtube asks for its API key, youtube-server for its application and    *)
(* its authorization, and it names no account.                             *)
(***************************************************************************)
EXTENDS Naturals, Sequences

CONSTANTS
    Services,       \* what "streamchat setup" may set up
    SectionOf,      \* the section of the configuration each of them writes
    Keyed,          \* those that need an API key and nothing else
    Anonymous,      \* those that do not ask whose token they were granted
    Bot,            \* those with a dedicated bot account
    Live,           \* bots whose primary account has to be asked who it is
    PrimaryOf,      \* the section of each bot's primary account
    Accounts,       \* accounts the browser may be signed in to
    Selections,     \* what the user may select
    MaxRuns,        \* bound on runs of the wizard
    MaxApps         \* bound on applications and keys the user enters

Names == {SectionOf[s] : s \in Services}

\* The sections that name no account.
Unnamed == {SectionOf[s] : s \in Anonymous}

ConstantsOK ==
    /\ SectionOf \in [Services -> Names]
    /\ Keyed \cup Anonymous \cup Bot \subseteq Services /\ Live \subseteq Bot
    /\ Keyed \cap Anonymous = {} /\ Bot \cap (Keyed \cup Anonymous) = {}
    \* Only the service with the API key shares its section, and not with a bot.
    /\ \A s, t \in Services \ Keyed : SectionOf[s] = SectionOf[t] => s = t
    /\ \A b \in Bot, s \in Services : SectionOf[s] = SectionOf[b] => s = b
    /\ PrimaryOf \in [Bot -> Names]
    /\ \A a, b \in Bot : PrimaryOf[a] # SectionOf[b]
    /\ \A b \in Bot : b \in Live <=> PrimaryOf[b] \in Unnamed
    /\ "nobody" \notin Accounts
    \* An empty selection cancels the run before it has done anything.
    /\ Selections \subseteq Seq(Services) \ {<<>>}
    /\ MaxRuns \in Nat /\ MaxApps \in Nat

VARIABLES
    file,       \* the saved configuration
    c,          \* the configuration in the wizard's memory
    account,    \* the section that is being set up
    todo,       \* the services left, the first is being set up
    step,       \* where the wizard is
    runs,       \* runs so far
    before,     \* history: the file when this run began
    outcome     \* how the last run ended

vars == <<file, c, account, todo, step, runs, before, outcome>>

-----------------------------------------------------------------------------
Nobody == "nobody"
Unset == [key |-> 0, tried |-> 0, app |-> 0, granted |-> 0, token |-> Nobody,
          renewed |-> 0, user |-> Nobody, ready |-> FALSE]

Init ==
    /\ file = [s \in Names |-> Unset] /\ c = file /\ account = Unset
    /\ todo = <<>> /\ step = "idle" /\ runs = 0
    /\ before = file /\ outcome = "none"

\* The service that is being set up, and its section.
This == Head(todo)
Mine == SectionOf[This]

\* Deviation: the bot's handler works on the section of the primary account.
EditPrimary(r) ==
    /\ account' = r
    /\ c' = [c EXCEPT ![IF This \in Bot THEN PrimaryOf[This] ELSE Mine] = r]

\* The handler works in memory: a primary section in place, a bot's on a copy.
Edit(r) ==
    /\ account' = r
    /\ c' = IF This \in Bot THEN c ELSE [c EXCEPT ![Mine] = r]

\* Deviation: the selection is kept when Run returns.
EndsSelected(how) ==
    /\ outcome' = how /\ step' = "idle" /\ c' = file /\ account' = Unset
    /\ UNCHANGED <<todo, file, runs, before>>

\* Deviation: after a service that failed the next one is set up.
EndsNever(how) ==
    /\ IF Len(todo) > 1 THEN step' = "begin" /\ todo' = Tail(todo)
                        ELSE step' = "idle" /\ todo' = <<>>
    /\ outcome' = how /\ account' = Unset
    /\ UNCHANGED <<file, c, runs, before>>

\* Run returns: what was not saved is forgotten.
Ends(how) ==
    /\ outcome' = how /\ step' = "idle" /\ todo' = <<>>
    /\ c' = file /\ account' = Unset
    /\ UNCHANGED <<file, runs, before>>

\* A step of a handler that returns an error.
Fails == Ends("failed")

Goto(s) == step' = s
Stays == UNCHANGED <<file, todo, runs, before, outcome>>

-----------------------------------------------------------------------------
\* The configuration is loaded and the services are selected.
Start ==
    /\ step = "idle" /\ runs < MaxRuns
    /\ todo' \in Selections
    /\ runs' = runs + 1 /\ before' = file /\ c' = file
    /\ Goto("begin") /\ outcome' = "none"
    /\ UNCHANGED <<file, account>>

\* A bot without an application of its own reuses the primary account's.
Begin ==
    /\ step = "begin"
    /\ account' = IF This \in Bot /\ c[Mine].app = 0
                  THEN [c[Mine] EXCEPT !.app = c[PrimaryOf[This]].app]
                  ELSE c[Mine]
    /\ Goto("prompt") /\ UNCHANGED c /\ Stays

\* value: the key is kept, which includes entering the same one again, or entered anew.
PromptKey ==
    /\ This \in Keyed /\ Stays
    /\ \/ account.key # 0 /\ Edit(account) /\ Goto("save")
       \/ \E k \in (1..MaxApps) \ {account.key} :
              Edit([account EXCEPT !.key = k]) /\ Goto("validate")

\* The application's ID and secret likewise.
PromptApp ==
    /\ This \notin Keyed /\ Goto("authorize") /\ Stays
    /\ \/ account.app # 0 /\ Edit(account)
       \/ \E a \in 1..MaxApps : Edit([account EXCEPT !.app = a])

\* An empty answer fails, the end of the input cancels.
Prompt ==
    /\ step = "prompt"
    /\ PromptKey \/ PromptApp \/ Fails \/ Ends("cancelled")

\* A new API key is tried with one request.
Validate ==
    /\ step = "validate"
    /\ \/ Edit([account EXCEPT !.tried = account.key]) /\ Goto("save") /\ Stays
       \/ Fails

\* The browser comes back to the listener.  A callback with another state is
\* refused and the wizard goes on waiting; the user may refuse, or give up.
Authorize ==
    /\ step = "authorize"
    /\ \/ Goto("exchange") /\ UNCHANGED <<account, c>> /\ Stays
       \/ Fails
       \/ Ends("cancelled")

\* account with a new token of this account.
Granted(who) ==
    [account EXCEPT !.token = who, !.granted = account.app, !.renewed = 0,
                    !.ready = This \in Anonymous]

\* The code becomes a token of the account the browser was signed in to.  The
\* server's handler stores it without asking whose it is.
Exchange ==
    /\ step = "exchange"
    /\ \/ /\ This \in Anonymous /\ Goto("save") /\ Stays
          /\ \E who \in Accounts : Edit(Granted(who))
       \/ /\ This \notin Anonymous /\ Goto("identify") /\ UNCHANGED c /\ Stays
          /\ \E who \in Accounts : account' = Granted(who)
       \/ Fails

\* Who is that, and may the token do what it is for?
Identify ==
    /\ step = "identify"
    /\ \/ /\ account' = [account EXCEPT !.user = account.token]
          /\ Goto("compare") /\ UNCHANGED c /\ Stays
       \/ Fails

\* Deviation: the new account is compared with the bot account it replaces.
SameAsBot ==
    /\ This \in Bot
    /\ c[Mine].user # Nobody
    /\ c[Mine].user = account.user

\* same*Identity: the account the primary section names, if it names one.  YouTube's
\* names none; its token, if it has one, is used to ask whose it is.
SameAsPrimary ==
    /\ This \in Bot
    /\ LET primary == c[PrimaryOf[This]]
           known == IF This \in Live THEN primary.token ELSE primary.user
       IN  known # Nobody /\ known = account.user

AsksPrimary == This \in Live /\ c[PrimaryOf[This]].token # Nobody

\* To ask, the primary account's token may have to be renewed; OnToken stores the
\* renewed one in the configuration in memory.
Renews ==
    /\ AsksPrimary
    /\ c' = [c EXCEPT ![PrimaryOf[This]].renewed = @ + 1]
    /\ UNCHANGED account

\* A bot account that is the primary account is refused, and so is one that cannot be
\* compared because the request fails.
Compare ==
    /\ step = "compare"
    /\ \/ ~SameAsPrimary /\ (Edit(account) \/ Renews) /\ Goto("finish") /\ Stays
       \/ (SameAsPrimary \/ AsksPrimary) /\ Fails

\* Kick's subscriptions are created, Twitch's channel is asked for; both may
\* fail when the new token is in memory already.
Finish ==
    /\ step = "finish"
    /\ \/ /\ account' = [account EXCEPT !.ready = TRUE]
          /\ c' = [c EXCEPT ![Mine] = account'] \* a bot's copy is stored here
          /\ Goto("save") /\ Stays
       \/ This \notin Bot /\ Fails
       \/ This \notin Bot /\ Ends("cancelled")

Save ==
    /\ step = "save"
    /\ \/ /\ file' = c
          /\ IF Len(todo) > 1
             THEN Goto("begin") /\ todo' = Tail(todo) /\ UNCHANGED outcome
             ELSE Goto("idle") /\ todo' = <<>> /\ outcome' = "done"
          /\ account' = Unset /\ UNCHANGED <<c, runs, before>>
       \/ Fails

Next ==
    \/ Start \/ Begin \/ Prompt \/ Validate \/ Authorize \/ Exchange
    \/ Identify \/ Compare \/ Finish \/ Save

Spec == Init /\ [][Next]_vars

-----------------------------------------------------------------------------
(* Properties. *)

Section == [key : 0..MaxApps, tried : 0..MaxApps, app : 0..MaxApps, granted : 0..MaxApps,
            token : Accounts \cup {Nobody}, renewed : Nat,
            user : Accounts \cup {Nobody}, ready : BOOLEAN]

TypeOK ==
    /\ {file, c, before} \subseteq [Names -> Section] /\ account \in Section
    /\ todo \in Seq(Services) /\ runs \in 0..MaxRuns
    /\ step \in {"idle", "begin", "prompt", "validate", "authorize", "exchange",
                 "identify", "compare", "finish", "save"}
    /\ (step = "idle") = (todo = <<>>)
    /\ outcome \in {"none", "done", "failed", "cancelled"}

\* The section r may be in the file under this name.
Complete(name, r) ==
    /\ r.key = r.tried
    /\ \/ r.token = Nobody /\ r.app = 0 /\ r.granted = 0 /\ r.user = Nobody
       \/ /\ r.token # Nobody /\ r.granted = r.app /\ r.ready
          /\ r.user = IF name \in Unnamed THEN Nobody ELSE r.token

\* A saved section is complete: its key was tried; its token was granted to the
\* application and to the account the section names, if it names one, and the last
\* step was done.  Nothing of a service whose setup failed or was given up gets into
\* the file.
SavedIsComplete == \A s \in Names : Complete(s, file[s])

\* A bot section is only stored when its account is not the one to which the token in
\* the primary section of the same file belongs.
BotIsSomebodyElse ==
    [][\A b \in Bot :
           file'[SectionOf[b]] # file[SectionOf[b]] =>
               file'[SectionOf[b]].user # file'[PrimaryOf[b]].token]_file

\* The sections q and r differ in nothing but the key, in everything but the key, and
\* in nothing but how often the token was renewed.
OnlyKey(q, r) == r = [q EXCEPT !.key = r.key, !.tried = r.tried]
NotKey(q, r) == q.key = r.key /\ q.tried = r.tried
OnlyRenewed(q, r) == r = [q EXCEPT !.renewed = r.renewed]

\* Setting up one service changes its section only, and of a section that is shared
\* only its part.  A bot whose primary account is asked who it is may renew the token
\* of that account: it stays with the account and the application it was granted to.
OthersUntouched ==
    [][\A s \in Names : file'[s] # file[s] =>
           \/ s = Mine /\ This \in Keyed /\ OnlyKey(file[s], file'[s])
           \/ s = Mine /\ This \notin Keyed /\ NotKey(file[s], file'[s])
           \/ This \in Live /\ s = PrimaryOf[This] /\ OnlyRenewed(file[s], file'[s])]_file

\* What the wizard saves is complete, belongs to whom it should, and leaves
\* everything else alone but for the renewal of a token it uses.
WizardSafety ==
    /\ [](TypeOK /\ SavedIsComplete)
    /\ BotIsSomebodyElse /\ OthersUntouched

\* "Setup cancelled; existing configuration was not changed."
CancelledIsUnchanged ==
    (outcome = "cancelled") => (file = before)

\* "The primary YouTube credentials and video target remain unchanged."
PrimaryIsUnchanged ==
    [][\A s \in Names : file'[s] # file[s] => s = Mine]_file
================================================================================
