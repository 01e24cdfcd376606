-------------------------------- MODULE Accounts -------------------------------
(***************************************************************************)
(* The accounts and the bot: the refresh tokens in the configuration file  *)
(* (TokenStore, by its own names), with the prefix Engine the bot's        *)
(* answers (BotEngine), and with the prefix Wizard the setup wizard        *)
(* (SetupWizard), whose sections say more of an account than its token.    *)
(* The three share no state: whatever one of them does leaves the others   *)
(* alone.                                                                  *)
(***************************************************************************)
EXTENDS TokenStore, Sequences

CONSTANTS
    Platforms, Commands, Others, QueueSize, Escape, Cooldowns,
    MaxEvents, MaxTime, MaxUpdates, MaxTests

VARIABLES queue, cfg, job, now, last, seq, lastSent, journal, botSpent, botHist

Engine == INSTANCE BotEngine WITH spent <- botSpent, hist <- botHist

CONSTANTS
    Services, SectionOf, Keyed, Anonymous, Bot, Live, PrimaryOf, Accounts, Selections,
    MaxRuns, MaxApps

VARIABLES saved, memory, account, todo, step, runs, before, outcome

Wizard == INSTANCE SetupWizard WITH file <- saved, c <- memory

tokenVars == vars
botVars == <<queue, cfg, job, now, last, seq, lastSent, journal, botSpent, botHist>>
wizardVars == <<saved, memory, account, todo, step, runs, before, outcome>>

(* The bot answers no more often than its settings allow, and accounts for *)
(* what it did.                                                            *)
BotSafety == Engine!BotSafety

(* What the wizard saves is complete, belongs to whom it should, and       *)
(* leaves everything else alone but for the renewal of a token it uses.    *)
WizardSafety == Wizard!WizardSafety
================================================================================
