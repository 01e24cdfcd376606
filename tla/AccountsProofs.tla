---------------------------- MODULE AccountsProofs ----------------------------
(***************************************************************************)
(* Proofs about the accounts and the bot.  For every set of holders and    *)
(* editors of the configuration file and any number of tokens, failures,   *)
(* edits and crashes, the file can always be loaded, several processes     *)
(* that rewrite it never mix the tokens of two accounts, and a process     *)
(* that has the file to itself keeps in it the token that works, or says   *)
(* that it could not (TokenStore).  For every traffic, settings and        *)
(* failure, the bot answers no more often than it is set to and accounts   *)
(* for every command (BotEngine).  And for every selection of services and *)
(* every way a run of it ends, the setup wizard saves complete sections    *)
(* that belong to whom they should (SetupWizard).                          *)
(***************************************************************************)
EXTENDS Accounts, SequenceTheorems, TLAPS

-----------------------------------------------------------------------------
(* The inductive invariant.                                                *)

Saving(h) == holder[h].pc \in {"write", "rename"}
Editing(e) == editor[e].pc = "editing"

\* The configurations that are in the file or may still be written to it.
LiveFiles == {file}
        \cup {holder[h].copy : h \in {g \in Holders : Saving(g)}}
        \cup {editor[e].copy : e \in {d \in Editors : Editing(d)}}

\* The account of a holder's tokens never changes.
Identity(h) == IF h \in Bots /\ BotConfigured THEN "bot" ELSE "primary"

\* Every configuration names the primary account.
Loadable(c) == c \in Configs /\ c["primary"] # None
AlwaysLoadable == \A c \in LiveFiles : Loadable(c)

\* Every configuration has in each section tokens of its account, and the bot's
\* holders find the section they have always had.
Unmixed(c) ==
    /\ \A s \in Sections : c[s].id \in {s, "none"}
    /\ Bots # {} => ((c["bot"] # None) <=> BotConfigured)
NeverMixed ==
    /\ \A c \in LiveFiles : Unmixed(c)
    /\ \A h \in Holders : holder[h].token.id = Identity(h)

\* Outside a save the file has the token, or the failure was reported; and the
\* token works, or a new one was lost.
Kept(h) ==
    /\ holder[h].pc \notin {"load", "write", "rename"} =>
          holder[h].told \/ file[Section(h, file)] = holder[h].token
    /\ holder[h].token \in valid \/ lost

\* Whoever is about to save has touched the file.
SaversTouched ==
    /\ \A h \in Holders : holder[h].pc \in {"load", "write", "rename"} => h \in touched
    /\ \A e \in Editors : Editing(e) => e \in touched

IInv ==
    /\ TypeOK /\ AlwaysLoadable /\ SaversTouched
    /\ BotsHaveAccounts => NeverMixed
    /\ \A h \in Holders : Alone(h) => Kept(h)

-----------------------------------------------------------------------------
(* Values and the initial state.                                           *)

LEMMA Values ==
    ASSUME ConstantsOK
    PROVE  /\ None \notin Tokens /\ Sections = {"primary", "bot"}
           /\ \A s \in Sections, n \in 1 .. MaxTokens :
                 Granted(s, n) \in Tokens /\ Granted(s, n).id = s
           /\ \A t \in Tokens : t.id \in Sections /\ t.id # "none"
           /\ None.id = "none"
           /\ NoCopy \in Configs
           /\ 1 \in 1 .. MaxTokens /\ MaxTokens \in Nat
           /\ Bots \subseteq Holders /\ Editors \subseteq {"settings", "wizard"}
<1>1. None.id = "none" /\ Sections = {"primary", "bot"}
  BY DEF None, Granted, Sections
<1>2. NoCopy \in Configs
  BY DEF NoCopy, Configs
<1>3. \A s, n : Granted(s, n).id = s
  BY DEF Granted
<1>4. \A t \in Tokens : t.id \in Sections /\ t.id # "none"
  BY <1>1, <1>3 DEF Tokens
<1>5. \A s \in Sections, n \in 1 .. MaxTokens : Granted(s, n) \in Tokens
  BY DEF Tokens
<1>6. None \notin Tokens
  BY <1>1, <1>4
<1>7. /\ 1 \in 1 .. MaxTokens /\ MaxTokens \in Nat
      /\ Bots \subseteq Holders /\ Editors \subseteq {"settings", "wizard"}
  BY DEF ConstantsOK
<1>8. QED
  BY <1>1, <1>2, <1>3, <1>4, <1>5, <1>6, <1>7

\* A holder takes the account of its section.
LEMMA AccountOf ==
    ASSUME ConstantsOK, NEW h \in Holders, NEW c, Loadable(c)
    PROVE  /\ Section(h, c) \in Sections
           /\ Account(h, c) = c[Section(h, c)]
           /\ Account(h, c) \in Tokens
           /\ Section(h, c) = IF h \in Bots /\ c["bot"] # None THEN "bot" ELSE "primary"
  BY Values DEF Loadable, Configs, Section, Account

LEMMA FreshHolder ==
    ASSUME ConstantsOK, NEW h \in Holders, NEW c, Loadable(c)
    PROVE  /\ Fresh(h, c) \in
                  [pc : {"idle", "call", "refresh", "load", "write", "rename"},
                   token : Tokens, good : BOOLEAN, retried : BOOLEAN,
                   copy : Configs, told : BOOLEAN]
           /\ Fresh(h, c).pc = "idle" /\ Fresh(h, c).token = c[Section(h, c)]
  BY AccountOf, Values DEF Fresh

LEMMA InvInit ==
    ASSUME ConstantsOK, Init
    PROVE  IInv
<1>1. /\ file \in Configs /\ file["primary"] = Granted("primary", 1)
      /\ file["bot"] = IF BotConfigured THEN Granted("bot", 1) ELSE None
      /\ \A s \in Sections : file[s].id \in {s, "none"}
      /\ \A s \in Sections : file[s] \in Tokens \cup {None}
  BY Values DEF Init, Configs
<1>2. Loadable(file)
  BY <1>1, Values DEF Loadable
<1>3. /\ holder = [h \in Holders |-> Fresh(h, file)]
      /\ \A h \in Holders : /\ holder[h].pc = "idle"
                            /\ holder[h].token = file[Section(h, file)]
                            /\ holder[h].token \in Tokens
  BY <1>2, FreshHolder, AccountOf DEF Init
<1>4. TypeOK
  <2>1. holder \in [Holders ->
           [pc : {"idle", "call", "refresh", "load", "write", "rename"},
            token : Tokens, good : BOOLEAN, retried : BOOLEAN,
            copy : Configs, told : BOOLEAN]]
    BY <1>2, <1>3, FreshHolder
  <2>2. editor \in [Editors -> [pc : {"idle", "editing"}, copy : Configs]]
    BY Values DEF Init
  <2>3. valid \subseteq Tokens
    BY <1>1 DEF Init
  <2>4. issued \in [Sections -> 0 .. MaxTokens]
    BY Values DEF Init
  <2>5. spent \in [{"faults", "edits", "crashes"} -> Nat]
    BY DEF Init
  <2>6. lost \in BOOLEAN
    BY Zenon DEF Init
  <2>7. QED
    BY <1>1, <2>1, <2>2, <2>3, <2>4, <2>5, <2>6 DEF TypeOK, Init
<1>5. LiveFiles = {file}
  <2>1. {h \in Holders : Saving(h)} = {}
    BY <1>3 DEF Saving
  <2>2. {e \in Editors : Editing(e)} = {}
    BY DEF Init, Editing
  <2>3. QED
    BY <2>1, <2>2 DEF LiveFiles
<1>6. NeverMixed
  <2>1. Unmixed(file)
    BY <1>1, Values DEF Unmixed
  <2>2. ASSUME NEW h \in Holders
        PROVE  holder[h].token.id = Identity(h)
    BY <1>1, <1>2, <1>3, AccountOf, Values DEF Identity
  <2>3. QED
    BY <1>5, <2>1, <2>2 DEF NeverMixed
<1>7. ASSUME NEW h \in Holders
      PROVE  Kept(h)
  <2>1. holder[h].token = file[Section(h, file)] /\ holder[h].token # None
    BY <1>3, Values
  <2>2. Section(h, file) \in Sections
    BY <1>2, AccountOf
  <2>3. holder[h].token \in valid
    BY <2>1, <2>2 DEF Init
  <2>4. QED
    BY <2>1, <2>3 DEF Kept
<1>8. SaversTouched
  <2>1. \A e \in Editors : ~Editing(e)
    BY DEF Init, Editing
  <2>2. QED
    BY <1>3, <2>1 DEF SaversTouched
<1>9. QED
  BY <1>2, <1>4, <1>5, <1>6, <1>7, <1>8 DEF IInv, AlwaysLoadable

-----------------------------------------------------------------------------
(* What is written, and what a step does to a holder.                      *)

HolderStates == [pc : {"idle", "call", "refresh", "load", "write", "rename"},
                 token : Tokens, good : BOOLEAN, retried : BOOLEAN,
                 copy : Configs, told : BOOLEAN]

Saved(h, c) == [c EXCEPT ![Section(h, c)] = holder[h].token]
WithBot(c, n) == [c EXCEPT !["bot"] = Granted("bot", n)]

\* A holder's save changes the section of its account.
LEMMA SaveSound ==
    ASSUME ConstantsOK, NEW h \in Holders, holder[h].token \in Tokens,
           NEW c, Loadable(c)
    PROVE  /\ Loadable(Saved(h, c))
           /\ Section(h, Saved(h, c)) = Section(h, c)
           /\ Saved(h, c)[Section(h, c)] = holder[h].token
           /\ Unmixed(c) /\ holder[h].token.id = Identity(h) => Unmixed(Saved(h, c))
<1>1. /\ Section(h, c) \in Sections /\ c \in [Sections -> Tokens \cup {None}]
      /\ Section(h, c) = IF h \in Bots /\ c["bot"] # None THEN "bot" ELSE "primary"
  BY AccountOf DEF Loadable, Configs
<1>2. /\ Saved(h, c) \in Configs
      /\ Saved(h, c)[Section(h, c)] = holder[h].token
      /\ \A s \in Sections \ {Section(h, c)} : Saved(h, c)[s] = c[s]
  BY <1>1 DEF Saved, Configs
<1>3. Loadable(Saved(h, c)) /\ Section(h, Saved(h, c)) = Section(h, c)
  BY <1>1, <1>2, Values DEF Loadable, Section
<1>4. ASSUME Unmixed(c), holder[h].token.id = Identity(h)
      PROVE  Unmixed(Saved(h, c))
  <2>1. Section(h, c) = Identity(h)
    BY <1>1, <1>4 DEF Unmixed, Identity
  <2>2. \A s \in Sections : Saved(h, c)[s].id \in {s, "none"}
    BY <1>2, <1>4, <2>1 DEF Unmixed
  <2>3. Bots # {} => ((Saved(h, c)["bot"] # None) <=> BotConfigured)
    BY <1>2, <1>4, <2>1, Values DEF Unmixed, Identity
  <2>4. QED
    BY <2>2, <2>3 DEF Unmixed
<1>5. QED
  BY <1>2, <1>3, <1>4

\* The wizard stores a bot account where the bots of the server know of one.
LEMMA WizardSaveSound ==
    ASSUME ConstantsOK, "wizard" \in Editors, NEW n \in 1 .. MaxTokens,
           NEW c, Loadable(c)
    PROVE  /\ Loadable(WithBot(c, n))
           /\ BotsHaveAccounts /\ Unmixed(c) => Unmixed(WithBot(c, n))
<1>1. Granted("bot", n) \in Tokens /\ Granted("bot", n).id = "bot"
      /\ Granted("bot", n) # None
  BY Values
<1>2. /\ WithBot(c, n) \in Configs
      /\ WithBot(c, n)["bot"] = Granted("bot", n)
      /\ WithBot(c, n)["primary"] = c["primary"]
  BY <1>1, Values DEF WithBot, Configs, Loadable
<1>3. QED
  BY <1>1, <1>2, Values DEF Loadable, Unmixed, BotsHaveAccounts

LEMMA Becomes ==
    ASSUME holder \in [Holders -> HolderStates], NEW h \in Holders,
           NEW r \in HolderStates, Become(h, r)
    PROVE  /\ holder' \in [Holders -> HolderStates]
           /\ holder'[h] = r
           /\ \A g \in Holders \ {h} : holder'[g] = holder[g]
  BY DEF Become

\* The provider's answer is to the account that asked.
LEMMA RotateSound ==
    ASSUME ConstantsOK, TypeOK, NEW t \in Tokens, NEW new \in Tokens, Rotate(t, new)
    PROVE  /\ valid' \subseteq Tokens /\ issued' \in [Sections -> 0 .. MaxTokens]
           /\ new \in valid' /\ new.id = t.id
<1>1. t.id \in Sections /\ MaxTokens \in Nat
  BY Values
<1>2. CASE new = t /\ UNCHANGED <<valid, issued>>
  BY <1>2 DEF Rotate, TypeOK
<1>3. CASE /\ issued[t.id] < MaxTokens /\ new = Granted(t.id, issued[t.id] + 1)
           /\ issued' = [issued EXCEPT ![t.id] = @ + 1]
           /\ valid' = (valid \ {t}) \cup {new}
  <2>1. issued[t.id] \in 0 .. MaxTokens /\ issued[t.id] + 1 \in 1 .. MaxTokens
    BY <1>1, <1>3 DEF TypeOK
  <2>2. new.id = t.id
    BY <1>3 DEF Granted
  <2>3. QED
    BY <1>1, <1>3, <2>1, <2>2 DEF TypeOK
<1>4. QED
  BY <1>2, <1>3 DEF Rotate

\* A step of one holder that saves nothing keeps its account, takes at most the
\* file into its hands, and keeps what it promises for its token.
QuietStep(h, r) ==
    /\ r \in HolderStates /\ Become(h, r)
    /\ UNCHANGED <<file, editor>>
    /\ r.token.id = holder[h].token.id
    /\ r.pc \in {"write", "rename"} => r.copy \in LiveFiles
    /\ valid' \subseteq Tokens /\ issued' \in [Sections -> 0 .. MaxTokens]
    /\ spent' \in [{"faults", "edits", "crashes"} -> Nat] /\ lost' \in BOOLEAN
    /\ \/ touched' = touched \cup {h}
       \/ touched' = touched /\ valid' = valid /\ (lost => lost')
    /\ r.pc \in {"load", "write", "rename"} => h \in touched'
    /\ Kept(h) =>
          /\ r.pc \notin {"load", "write", "rename"} =>
                r.told \/ file[Section(h, file)] = r.token
          /\ r.token \in valid' \/ lost'

LEMMA QuietKeepsInv ==
    ASSUME ConstantsOK, IInv, NEW h \in Holders, NEW r, QuietStep(h, r)
    PROVE  IInv'
<1>1. /\ holder \in [Holders -> HolderStates]
      /\ holder' \in [Holders -> HolderStates]
      /\ holder'[h] = r
      /\ \A g \in Holders \ {h} : holder'[g] = holder[g]
  BY Becomes DEF IInv, TypeOK, HolderStates, QuietStep
<1>2. TypeOK'
  BY <1>1 DEF IInv, TypeOK, QuietStep, HolderStates
<1>3. ASSUME NEW c \in LiveFiles'
      PROVE  c \in LiveFiles
  <2>1. CASE c = file'
    BY <2>1 DEF LiveFiles, QuietStep
  <2>2. ASSUME NEW g \in Holders, Saving(g)', c = holder'[g].copy
        PROVE  c \in LiveFiles
    <3>1. CASE g = h
      BY <1>1, <2>2, <3>1 DEF QuietStep, Saving
    <3>2. CASE g # h
      BY <1>1, <2>2, <3>2 DEF LiveFiles, Saving
    <3>3. QED
      BY <3>1, <3>2
  <2>3. ASSUME NEW e \in Editors, Editing(e)', c = editor'[e].copy
        PROVE  c \in LiveFiles
    BY <2>3 DEF QuietStep, LiveFiles, Editing
  <2>4. QED
    BY <1>3, <2>1, <2>2, <2>3 DEF LiveFiles
<1>4. AlwaysLoadable'
  BY <1>3 DEF IInv, AlwaysLoadable, Loadable
<1>5. BotsHaveAccounts => NeverMixed'
  <2>. SUFFICES ASSUME BotsHaveAccounts PROVE NeverMixed'
    OBVIOUS
  <2>1. \A c \in LiveFiles' : Unmixed(c)
    BY <1>3 DEF IInv, NeverMixed
  <2>2. \A g \in Holders : holder'[g].token.id = Identity(g)
    BY <1>1 DEF IInv, NeverMixed, QuietStep
  <2>3. QED
    BY <2>1, <2>2 DEF NeverMixed
<1>6. ASSUME NEW g \in Holders, Alone(g)'
      PROVE  Kept(g)'
  <2>1. Alone(g) /\ Kept(g)
    BY <1>6 DEF IInv, Alone, QuietStep
  <2>2. CASE g = h
    BY <1>1, <2>1, <2>2 DEF Kept, QuietStep
  <2>3. CASE g # h
    <3>1. touched' = touched /\ valid' = valid /\ (lost => lost')
      BY <1>6, <2>3 DEF QuietStep, Alone
    <3>2. QED
      BY <1>1, <2>1, <2>3, <3>1 DEF Kept, QuietStep
  <2>4. QED
    BY <2>2, <2>3
<1>7. SaversTouched'
  BY <1>1 DEF IInv, SaversTouched, Editing, QuietStep
<1>8. QED
  BY <1>2, <1>4, <1>5, <1>6, <1>7 DEF IInv

-----------------------------------------------------------------------------
(* The steps of a holder.                                                  *)

LEMMA HolderFacts ==
    ASSUME ConstantsOK, IInv, NEW h \in Holders
    PROVE  /\ TypeOK /\ holder[h] \in HolderStates
           /\ holder[h].token \in Tokens /\ holder[h].copy \in Configs
           /\ Loadable(file) /\ file \in LiveFiles
           /\ Saving(h) => holder[h].copy \in LiveFiles
           /\ NoCopy \in Configs
  BY Values DEF IInv, TypeOK, HolderStates, AlwaysLoadable, LiveFiles

\* An operation that fails tells its caller.
LEMMA FailsQuietly ==
    ASSUME ConstantsOK, IInv, NEW h \in Holders, Fails(h),
           UNCHANGED <<file, editor>>,
           valid' \subseteq Tokens, issued' \in [Sections -> 0 .. MaxTokens],
           spent' \in [{"faults", "edits", "crashes"} -> Nat], lost' \in BOOLEAN,
           \/ touched' = touched /\ valid' = valid /\ lost' = lost
           \/ touched' = touched \cup {h} /\ ((valid' = valid /\ lost' = lost) \/ lost')
    PROVE  IInv'
<1>. DEFINE r == [holder[h] EXCEPT !.pc = "idle", !.retried = FALSE,
                                   !.copy = NoCopy, !.told = @ \/ ~FALSE]
<1>1. Become(h, r)
  BY DEF Fails, Answer
<1>2. /\ r \in HolderStates /\ r.pc = "idle" /\ r.token = holder[h].token
      /\ r.told
  BY HolderFacts DEF HolderStates
<1>3. Kept(h) => r.token \in valid' \/ lost'
  BY <1>2 DEF Kept
<1>. HIDE DEF r
<1>4. QuietStep(h, r)
  BY <1>1, <1>2, <1>3 DEF QuietStep
<1>5. QED
  BY <1>4, QuietKeepsInv

LEMMA FaultType ==
    ASSUME ConstantsOK, TypeOK, NEW bound, NEW what \in {"faults", "edits", "crashes"},
           Spend(what, bound)
    PROVE  spent' \in [{"faults", "edits", "crashes"} -> Nat]
  BY DEF Spend, TypeOK

LEMMA UsesStep ==
    ASSUME ConstantsOK, IInv, NEW h \in Holders, Uses(h)
    PROVE  IInv'
<1>0. /\ TypeOK /\ holder[h] \in HolderStates /\ holder[h].token \in Tokens
      /\ NoCopy \in Configs
  BY HolderFacts
<1>1. ASSUME NEW r \in HolderStates, Become(h, r),
             UNCHANGED <<file, editor, valid, issued, spent, lost, touched>>,
             r.token = holder[h].token, r.told = holder[h].told,
             r.pc \in {"idle", "call", "refresh"},
             holder[h].pc \in {"idle", "call", "refresh"}
      PROVE  IInv'
  <2>1. QuietStep(h, r)
    BY <1>0, <1>1 DEF QuietStep, Kept, TypeOK
  <2>2. QED
    BY <2>1, QuietKeepsInv
<1>2. CASE Expire(h)
  <2>. DEFINE r == [holder[h] EXCEPT !.good = FALSE]
  <2>1. r \in HolderStates /\ r.token = holder[h].token /\ r.told = holder[h].told
        /\ r.pc = holder[h].pc
    BY <1>0 DEF HolderStates
  <2>. HIDE DEF r
  <2>2. QED
    BY <1>1, <1>2, <2>1 DEF Expire, r
<1>3. CASE Begin(h)
  <2>1. PICK pc \in {"call", "refresh"} : Goto(h, pc)
    BY <1>3 DEF Begin
  <2>. DEFINE r == [holder[h] EXCEPT !.pc = pc]
  <2>2. r \in HolderStates /\ r.token = holder[h].token /\ r.told = holder[h].told
        /\ r.pc = pc
    BY <1>0 DEF HolderStates
  <2>3. Become(h, r)
    BY <2>1 DEF Goto
  <2>. HIDE DEF r
  <2>4. QED
    BY <1>1, <1>3, <2>2, <2>3 DEF Begin, At
<1>4. CASE Call(h)
  <2>0. UNCHANGED <<file, editor, valid, issued, spent, lost, touched>> /\ holder[h].pc = "call"
    BY <1>4 DEF Call, At
  <2>1. CASE Answer(h, holder[h], TRUE)
    <3>. DEFINE r == [holder[h] EXCEPT !.pc = "idle", !.retried = FALSE,
                                       !.copy = NoCopy, !.told = @ \/ ~TRUE]
    <3>1. r \in HolderStates /\ r.token = holder[h].token /\ r.pc = "idle"
      BY <1>0 DEF HolderStates
    <3>2. r.told = holder[h].told
      BY <1>0 DEF HolderStates
    <3>3. Become(h, r)
      BY <2>1 DEF Answer
    <3>. HIDE DEF r
    <3>4. QED
      BY <1>1, <2>0, <3>1, <3>2, <3>3
  <2>2. CASE Fails(h)
    BY <1>0, <2>0, <2>2, FailsQuietly DEF TypeOK
  <2>3. CASE Become(h, [holder[h] EXCEPT !.pc = "refresh", !.retried = TRUE])
    <3>. DEFINE r == [holder[h] EXCEPT !.pc = "refresh", !.retried = TRUE]
    <3>1. r \in HolderStates /\ r.token = holder[h].token /\ r.told = holder[h].told
          /\ r.pc = "refresh"
      BY <1>0 DEF HolderStates
    <3>. HIDE DEF r
    <3>2. QED
      BY <1>1, <2>0, <2>3, <3>1 DEF r
  <2>4. QED
    BY <1>4, <2>1, <2>2, <2>3 DEF Call
<1>5. CASE Refresh(h)
  <2>0. UNCHANGED <<file, editor>> /\ holder[h].pc = "refresh" /\ touched' = touched \cup {h}
    BY <1>5 DEF Refresh, At
  <2>1. CASE /\ \E new \in Tokens : Rotate(holder[h].token, new) /\ Refreshed(h, new)
             /\ UNCHANGED <<spent, lost>>
    <3>1. PICK new \in Tokens : Rotate(holder[h].token, new) /\ Refreshed(h, new)
      BY <2>1
    <3>. DEFINE r == [holder[h] EXCEPT !.pc = "load", !.good = TRUE, !.token = new]
    <3>2. r \in HolderStates /\ r.token = new /\ r.pc = "load"
      BY <1>0 DEF HolderStates
    <3>3. Become(h, r)
      BY <3>1 DEF Refreshed
    <3>4. /\ valid' \subseteq Tokens /\ issued' \in [Sections -> 0 .. MaxTokens]
          /\ new \in valid' /\ new.id = holder[h].token.id
      BY <1>0, <3>1, RotateSound
    <3>. HIDE DEF r
    <3>5. QuietStep(h, r)
      BY <1>0, <2>0, <2>1, <3>2, <3>3, <3>4 DEF QuietStep, TypeOK
    <3>6. QED
      BY <3>5, QuietKeepsInv
  <2>2. CASE Fails(h) /\ UNCHANGED <<valid, issued, spent, lost>>
    BY <1>0, <2>0, <2>2, FailsQuietly DEF TypeOK
  <2>3. CASE /\ \E new \in Tokens \ {holder[h].token} : Rotate(holder[h].token, new)
             /\ Fault /\ lost' = TRUE /\ Fails(h)
    <3>1. valid' \subseteq Tokens /\ issued' \in [Sections -> 0 .. MaxTokens]
      BY <1>0, <2>3, RotateSound
    <3>2. spent' \in [{"faults", "edits", "crashes"} -> Nat]
      BY <1>0, <2>3, FaultType DEF Fault
    <3>3. lost' \in BOOLEAN /\ lost'
      BY <2>3, Zenon
    <3>4. QED
      BY <2>0, <2>3, <3>1, <3>2, <3>3, FailsQuietly
  <2>4. CASE Fault /\ Fails(h) /\ UNCHANGED <<valid, issued, lost>>
    <3>1. spent' \in [{"faults", "edits", "crashes"} -> Nat]
      BY <1>0, <2>4, FaultType DEF Fault
    <3>2. QED
      BY <1>0, <2>0, <2>4, <3>1, FailsQuietly DEF TypeOK
  <2>5. QED
    BY <1>5, <2>1, <2>2, <2>3, <2>4 DEF Refresh
<1>6. QED
  BY <1>2, <1>3, <1>4, <1>5 DEF Uses

\* A holder that has loaded the file, or written the new one beside it.
LEMMA PreparesStep ==
    ASSUME ConstantsOK, IInv, NEW h \in Holders, Load(h) \/ Write(h)
    PROVE  IInv'
<1>0. /\ TypeOK /\ holder[h] \in HolderStates /\ file \in LiveFiles /\ file \in Configs
  BY HolderFacts DEF TypeOK
<1>1. UNCHANGED <<file, editor, valid, issued, lost, touched>> /\ h \in touched
  BY DEF Load, Write, Written, At, IInv, SaversTouched
<1>2. CASE Fault /\ SaveError(h)
  <2>1. spent' \in [{"faults", "edits", "crashes"} -> Nat]
    BY <1>0, <1>2, FaultType DEF Fault
  <2>2. QED
    BY <1>0, <1>1, <1>2, <2>1, FailsQuietly DEF TypeOK, SaveError
<1>3. ASSUME NEW r \in HolderStates, Become(h, r), UNCHANGED spent,
             r.token = holder[h].token, r.pc \in {"write", "rename"},
             r.copy \in LiveFiles
      PROVE  IInv'
  <2>1. QuietStep(h, r)
    BY <1>0, <1>1, <1>3 DEF QuietStep, Kept, TypeOK
  <2>2. QED
    BY <2>1, QuietKeepsInv
<1>4. CASE Become(h, [holder[h] EXCEPT !.pc = "write", !.copy = file]) /\ UNCHANGED spent
  <2>. DEFINE r == [holder[h] EXCEPT !.pc = "write", !.copy = file]
  <2>1. r \in HolderStates /\ r.token = holder[h].token /\ r.pc = "write" /\ r.copy = file
    BY <1>0 DEF HolderStates
  <2>. HIDE DEF r
  <2>2. QED
    BY <1>0, <1>3, <1>4, <2>1 DEF r
<1>5. CASE At(h, "write") /\ Goto(h, "rename") /\ UNCHANGED spent
  <2>. DEFINE r == [holder[h] EXCEPT !.pc = "rename"]
  <2>1. /\ r \in HolderStates /\ r.token = holder[h].token /\ r.pc = "rename"
        /\ r.copy = holder[h].copy
    BY <1>0 DEF HolderStates
  <2>2. holder[h].copy \in LiveFiles
    BY <1>5, HolderFacts DEF At, Saving
  <2>. HIDE DEF r
  <2>3. QED
    BY <1>3, <1>5, <2>1, <2>2 DEF Goto, r
<1>6. QED
  BY <1>2, <1>4, <1>5 DEF Load, Write

LEMMA RenameStep ==
    ASSUME ConstantsOK, IInv, NEW h \in Holders, Rename(h)
    PROVE  IInv'
<1>. DEFINE c == holder[h].copy
            new == Saved(h, c)
<1>0. /\ TypeOK /\ holder[h] \in HolderStates /\ holder[h].token \in Tokens
      /\ holder[h].pc = "rename" /\ c \in LiveFiles /\ Loadable(c) /\ NoCopy \in Configs
      /\ UNCHANGED <<editor, valid, issued, lost, touched>> /\ h \in touched
  BY HolderFacts DEF Rename, At, Saving, IInv, AlwaysLoadable, SaversTouched
<1>1. CASE Fault /\ SaveError(h) /\ UNCHANGED file
  <2>1. spent' \in [{"faults", "edits", "crashes"} -> Nat]
    BY <1>0, <1>1, FaultType DEF Fault
  <2>2. QED
    BY <1>0, <1>1, <2>1, FailsQuietly DEF TypeOK, SaveError
<1>2. ASSUME NEW r \in HolderStates, Become(h, r), file' = new,
             spent' \in [{"faults", "edits", "crashes"} -> Nat],
             r.token = holder[h].token, r.pc \notin {"write", "rename"}
      PROVE  IInv'
  <2>1. /\ holder' \in [Holders -> HolderStates] /\ holder'[h] = r
        /\ \A g \in Holders \ {h} : holder'[g] = holder[g]
    BY <1>0, <1>2, Becomes DEF TypeOK, HolderStates
  <2>2. /\ Loadable(new) /\ new[Section(h, new)] = holder[h].token
        /\ Unmixed(c) /\ holder[h].token.id = Identity(h) => Unmixed(new)
    BY <1>0, SaveSound
  <2>3. TypeOK'
    BY <1>0, <1>2, <2>1, <2>2 DEF TypeOK, HolderStates, Loadable
  <2>4. ASSUME NEW d \in LiveFiles'
        PROVE  d \in LiveFiles \/ d = new
    <3>1. CASE d = file'
      BY <1>2, <3>1
    <3>2. ASSUME NEW g \in Holders, Saving(g)', d = holder'[g].copy
          PROVE  d \in LiveFiles
      <4>1. g # h
        BY <1>2, <2>1, <3>2 DEF Saving
      <4>2. QED
        BY <2>1, <3>2, <4>1 DEF LiveFiles, Saving
    <3>3. ASSUME NEW e \in Editors, Editing(e)', d = editor'[e].copy
          PROVE  d \in LiveFiles
      BY <1>0, <3>3 DEF LiveFiles, Editing
    <3>4. QED
      BY <2>4, <3>1, <3>2, <3>3 DEF LiveFiles
  <2>5. AlwaysLoadable'
    BY <2>2, <2>4 DEF IInv, AlwaysLoadable, Loadable
  <2>6. BotsHaveAccounts => NeverMixed'
    <3>. SUFFICES ASSUME BotsHaveAccounts PROVE NeverMixed'
      OBVIOUS
    <3>1. Unmixed(new)
      BY <1>0, <2>2 DEF IInv, NeverMixed
    <3>2. \A d \in LiveFiles' : Unmixed(d)
      BY <2>4, <3>1 DEF IInv, NeverMixed
    <3>3. \A g \in Holders : holder'[g].token.id = Identity(g)
      BY <1>2, <2>1 DEF IInv, NeverMixed
    <3>4. QED
      BY <3>2, <3>3 DEF NeverMixed
  <2>7. \A g \in Holders : Alone(g)' => Kept(g)'
    <3>. SUFFICES ASSUME NEW g \in Holders, Alone(g)' PROVE Kept(g)'
      OBVIOUS
    <3>1. g = h /\ Kept(h)
      BY <1>0 DEF Alone, IInv
    <3>2. file'[Section(h, file')] = holder'[h].token
      BY <1>2, <2>1, <2>2
    <3>3. holder'[h].token \in valid' \/ lost'
      BY <1>0, <1>2, <2>1, <3>1 DEF Kept
    <3>4. QED
      BY <3>1, <3>2, <3>3 DEF Kept
  <2>8. SaversTouched'
    <3>1. \A g \in Holders : holder'[g].pc \in {"load", "write", "rename"} => g \in touched
      BY <1>0, <2>1 DEF IInv, SaversTouched
    <3>2. QED
      BY <1>0, <3>1 DEF IInv, SaversTouched, Editing
  <2>9. QED
    BY <2>3, <2>5, <2>6, <2>7, <2>8 DEF IInv
<1>3. CASE /\ file' = new /\ UNCHANGED spent
           /\ Become(h, [holder[h] EXCEPT !.pc = "call", !.told = FALSE, !.copy = NoCopy])
  <2>. DEFINE r == [holder[h] EXCEPT !.pc = "call", !.told = FALSE, !.copy = NoCopy]
  <2>1. r \in HolderStates /\ r.token = holder[h].token /\ r.pc = "call"
    BY <1>0 DEF HolderStates
  <2>. HIDE DEF r
  <2>2. QED
    BY <1>0, <1>2, <1>3, <2>1 DEF r, TypeOK
<1>4. CASE file' = new /\ Fault /\ SaveError(h)
  <2>. DEFINE r == [holder[h] EXCEPT !.pc = "idle", !.retried = FALSE,
                                     !.copy = NoCopy, !.told = @ \/ ~FALSE]
  <2>1. r \in HolderStates /\ r.token = holder[h].token /\ r.pc = "idle"
    BY <1>0 DEF HolderStates
  <2>2. Become(h, r)
    BY <1>4 DEF SaveError, Fails, Answer
  <2>3. spent' \in [{"faults", "edits", "crashes"} -> Nat]
    BY <1>0, <1>4, FaultType DEF Fault
  <2>. HIDE DEF r
  <2>4. QED
    BY <1>2, <1>4, <2>1, <2>2, <2>3
<1>5. QED
  BY <1>1, <1>3, <1>4 DEF Rename, Saved

-----------------------------------------------------------------------------
(* The steps of the editors, and a restart.                                *)

\* An editor that has loaded the file leaves no holder alone.
LEMMA EditorStep ==
    ASSUME ConstantsOK, IInv,
           (\E e \in Editors : EditorLoads(e)) \/ SettingsSave \/ WizardSave
    PROVE  IInv'
<1>0. /\ TypeOK /\ AlwaysLoadable /\ file \in LiveFiles /\ NoCopy \in Configs
      /\ UNCHANGED <<holder, lost>>
      /\ \E e \in Editors : touched' = touched \cup {e}
  <2>1. ASSUME NEW e \in Editors, NEW c, Saves(e, c)
        PROVE  e \in touched /\ touched' = touched
    BY <2>1 DEF Saves, IInv, SaversTouched, Editing
  <2>2. \E e \in Editors : touched' = touched \cup {e}
    BY <2>1 DEF SettingsSave, WizardSave, EditorLoads
  <2>3. QED
    BY <2>2, Values DEF IInv, SettingsSave, WizardSave, Saves, LiveFiles, EditorLoads
<1>1. ASSUME NEW new, file' = new \/ UNCHANGED file, Loadable(new),
             BotsHaveAccounts => Unmixed(new),
             editor' \in [Editors -> [pc : {"idle", "editing"}, copy : Configs]],
             \A e \in Editors : editor'[e].pc = "editing" =>
                 editor'[e].copy \in LiveFiles /\ e \in touched',
             valid' \subseteq Tokens, issued' \in [Sections -> 0 .. MaxTokens],
             spent' \in [{"faults", "edits", "crashes"} -> Nat]
      PROVE  IInv'
  <2>1. TypeOK'
    BY <1>0, <1>1 DEF TypeOK, Loadable
  <2>2. \A c \in LiveFiles' : c \in LiveFiles \/ c = new
    BY <1>0, <1>1 DEF LiveFiles, Saving, Editing
  <2>3. AlwaysLoadable'
    BY <1>0, <1>1, <2>2 DEF AlwaysLoadable, Loadable
  <2>4. BotsHaveAccounts => NeverMixed'
    BY <1>0, <1>1, <2>2 DEF IInv, NeverMixed
  <2>5. \A h \in Holders : ~Alone(h)'
    BY <1>0 DEF Alone, ConstantsOK
  <2>6. SaversTouched'
    BY <1>0, <1>1 DEF IInv, SaversTouched, Editing
  <2>7. QED
    BY <2>1, <2>3, <2>4, <2>5, <2>6 DEF IInv
<1>2. ASSUME NEW e \in Editors, EditorLoads(e)
      PROVE  IInv'
  <2>1. /\ editor' = [editor EXCEPT ![e] = [pc |-> "editing", copy |-> file]]
        /\ touched' = touched \cup {e}
        /\ UNCHANGED <<file, valid, issued, spent>>
    BY <1>2 DEF EditorLoads
  <2>2. /\ editor' \in [Editors -> [pc : {"idle", "editing"}, copy : Configs]]
        /\ \A d \in Editors : editor'[d].pc = "editing" =>
               editor'[d].copy \in LiveFiles /\ d \in touched'
    BY <1>0, <2>1 DEF TypeOK, LiveFiles, Editing, IInv, SaversTouched
  <2>3. Loadable(file) /\ (BotsHaveAccounts => Unmixed(file))
    BY <1>0 DEF AlwaysLoadable, IInv, NeverMixed
  <2>4. QED
    BY <1>0, <1>1, <2>1, <2>2, <2>3 DEF TypeOK
<1>3. ASSUME NEW e \in Editors, NEW c, Saves(e, c)
      PROVE  /\ file' = c /\ editor[e].copy \in LiveFiles /\ Loadable(editor[e].copy)
             /\ BotsHaveAccounts => Unmixed(editor[e].copy)
             /\ editor' \in [Editors -> [pc : {"idle", "editing"}, copy : Configs]]
             /\ \A d \in Editors : editor'[d].pc = "editing" =>
                    editor'[d].copy \in LiveFiles /\ d \in touched'
             /\ spent' \in [{"faults", "edits", "crashes"} -> Nat]
  <2>1. editor[e].copy \in LiveFiles
    BY <1>3 DEF Saves, LiveFiles, Editing
  <2>2. /\ editor' \in [Editors -> [pc : {"idle", "editing"}, copy : Configs]]
        /\ \A d \in Editors : editor'[d].pc = "editing" =>
               editor'[d].copy \in LiveFiles /\ d \in touched'
    <3>1. editor' = [editor EXCEPT ![e] = [pc |-> "idle", copy |-> NoCopy]]
          /\ touched' = touched
      BY <1>3 DEF Saves
    <3>2. QED
      BY <1>0, <3>1 DEF TypeOK, LiveFiles, Editing, IInv, SaversTouched
  <2>3. spent' \in [{"faults", "edits", "crashes"} -> Nat]
    BY <1>0, <1>3, FaultType DEF Saves
  <2>4. QED
    BY <1>0, <1>3, <2>1, <2>2, <2>3 DEF Saves, IInv, AlwaysLoadable, NeverMixed
<1>4. CASE SettingsSave
  <2>1. "settings" \in Editors /\ Saves("settings", editor["settings"].copy)
        /\ UNCHANGED <<valid, issued>>
    BY <1>4 DEF SettingsSave
  <2>2. QED
    BY <1>0, <1>1, <1>3, <2>1 DEF TypeOK
<1>5. CASE WizardSave
  <2>. DEFINE n == issued["bot"] + 1
              c == editor["wizard"].copy
  <2>1. /\ "wizard" \in Editors /\ n \in 1 .. MaxTokens
        /\ Saves("wizard", WithBot(c, n))
        /\ valid' = valid \cup {Granted("bot", n)}
        /\ issued' = [issued EXCEPT !["bot"] = n]
    BY <1>0, <1>5, Values DEF WizardSave, WithBot, TypeOK
  <2>2. valid' \subseteq Tokens /\ issued' \in [Sections -> 0 .. MaxTokens]
    <3>1. Granted("bot", n) \in Tokens /\ n \in 0 .. MaxTokens
      BY <2>1, Values
    <3>2. QED
      BY <1>0, <2>1, <3>1 DEF TypeOK
  <2>3. /\ Loadable(WithBot(c, n))
        /\ BotsHaveAccounts => Unmixed(WithBot(c, n))
    BY <1>3, <2>1, WizardSaveSound
  <2>. HIDE DEF n, c
  <2>4. QED
    BY <1>1, <1>3, <2>1, <2>2, <2>3
<1>6. QED
  BY <1>2, <1>4, <1>5

\* A process that starts has what the file has.
LEMMA RestartStep ==
    ASSUME ConstantsOK, IInv, Restart
    PROVE  IInv'
<1>0. /\ TypeOK /\ AlwaysLoadable /\ file \in LiveFiles /\ Loadable(file) /\ NoCopy \in Configs
      /\ UNCHANGED <<file, valid, issued, touched>>
      /\ holder' = [h \in Holders |-> Fresh(h, file)]
      /\ editor' = [e \in Editors |-> IF e = "settings"
                                      THEN [pc |-> "idle", copy |-> NoCopy]
                                      ELSE editor[e]]
  BY Values DEF IInv, LiveFiles, AlwaysLoadable, Restart
<1>1. /\ holder' \in [Holders -> HolderStates]
      /\ \A h \in Holders : /\ holder'[h].pc = "idle"
                            /\ holder'[h].token = file[Section(h, file)]
  BY <1>0, FreshHolder DEF HolderStates
<1>2. lost' \in BOOLEAN
      /\ (lost' <=> lost \/ \E h \in Holders : holder[h].token # file[Section(h, file)])
  BY Zenon DEF Restart
<1>3. TypeOK'
  <2>1. editor' \in [Editors -> [pc : {"idle", "editing"}, copy : Configs]]
    BY <1>0 DEF TypeOK
  <2>2. spent' \in [{"faults", "edits", "crashes"} -> Nat]
    BY <1>0, FaultType DEF Restart
  <2>3. QED
    BY <1>0, <1>1, <1>2, <2>1, <2>2 DEF TypeOK, HolderStates
<1>4. \A c \in LiveFiles' : c \in LiveFiles
  <2>1. \A h \in Holders : ~Saving(h)'
    BY <1>1 DEF Saving
  <2>2. ASSUME NEW e \in Editors, Editing(e)'
        PROVE  Editing(e) /\ editor'[e] = editor[e]
    BY <1>0, <2>2 DEF Editing
  <2>3. QED
    BY <1>0, <2>1, <2>2 DEF LiveFiles
<1>5. AlwaysLoadable'
  BY <1>0, <1>4 DEF AlwaysLoadable, Loadable
<1>6. BotsHaveAccounts => NeverMixed'
  <2>. SUFFICES ASSUME BotsHaveAccounts PROVE NeverMixed'
    OBVIOUS
  <2>1. Unmixed(file) /\ \A c \in LiveFiles' : Unmixed(c)
    BY <1>0, <1>4 DEF IInv, NeverMixed
  <2>2. ASSUME NEW h \in Holders
        PROVE  holder'[h].token.id = Identity(h)
    <3>1. /\ holder'[h].token = file[Section(h, file)] /\ file[Section(h, file)] \in Tokens
          /\ Section(h, file) \in Sections
          /\ Section(h, file) = IF h \in Bots /\ file["bot"] # None THEN "bot" ELSE "primary"
      BY <1>0, <1>1, AccountOf
    <3>2. QED
      BY <2>1, <3>1, Values DEF Unmixed, Identity
  <2>3. QED
    BY <2>1, <2>2 DEF NeverMixed
<1>7. \A h \in Holders : Alone(h)' => Kept(h)'
  <2>. SUFFICES ASSUME NEW h \in Holders, Alone(h) PROVE Kept(h)'
    BY <1>0 DEF Alone
  <2>1. holder'[h].token \in valid' \/ lost'
    <3>1. CASE holder[h].token = file[Section(h, file)]
      BY <1>0, <1>1, <1>2, <3>1 DEF IInv, Kept
    <3>2. CASE holder[h].token # file[Section(h, file)]
      BY <1>2, <3>2
    <3>3. QED
      BY <3>1, <3>2
  <2>2. QED
    BY <1>0, <1>1, <2>1 DEF Kept
<1>8. SaversTouched'
  <2>1. \A e \in Editors : Editing(e)' => Editing(e)
    BY <1>0 DEF Editing
  <2>2. QED
    BY <1>0, <1>1, <2>1 DEF IInv, SaversTouched
<1>9. QED
  BY <1>3, <1>5, <1>6, <1>7, <1>8 DEF IInv

-----------------------------------------------------------------------------
(* The theorem.                                                            *)

LEMMA InvStep ==
    ASSUME ConstantsOK, IInv, [Next]_vars
    PROVE  IInv'
<1>1. CASE UNCHANGED vars
  BY <1>1
  DEF vars, IInv, TypeOK, AlwaysLoadable, LiveFiles, Saving, Editing, Loadable,
      NeverMixed, Kept, Alone, SaversTouched
<1>2. QED
  BY <1>1, UsesStep, PreparesStep, RenameStep, EditorStep, RestartStep
  DEF Next, Persists

\* Wherever a holder, the settings page, the wizard or the process stops, the file
\* can be loaded; a holder beside which nobody has touched it never ends an operation without
\* its token in the file or an error to its caller, and is locked out only by a
\* token that was lost with an answer or a process; the accounts of several are
\* never mixed, as long as the first bot account is not stored under a running bot.
THEOREM TokensAreSafe ==
    ASSUME ConstantsOK
    PROVE  Spec => []TokenSafety
<1>1. Init => IInv
  BY InvInit
<1>2. IInv /\ [Next]_vars => IInv'
  BY InvStep
<1>3. IInv => TokenSafety
  <2>. SUFFICES ASSUME IInv PROVE TokenSafety
    OBVIOUS
  <2>1. SavedOrReported /\ LockedOutOnlyByLoss
    BY DEF IInv, Kept, SavedOrReported, LockedOutOnlyByLoss, At
  <2>2. BotsHaveAccounts => SectionsKeepTheirIdentity
    BY DEF IInv, NeverMixed, Unmixed, LiveFiles, SectionsKeepTheirIdentity
  <2>3. QED
    BY <2>1, <2>2 DEF IInv, TokenSafety
<1>4. QED
  BY <1>1, <1>2, <1>3, PTL DEF Spec

-----------------------------------------------------------------------------
(* The bot's answers.                                                      *)

\* The inductive invariant of BotEngine.
Settings == [enabled : BOOLEAN, disabled : SUBSET Platforms, cooldown : Cooldowns]
Replying == [pc : {"wait", "send"}, event : Engine!Events, until : Nat, gap : Nat]
Recording == [pc : {"record"}, command : BOOLEAN]
Heard == [at : Nat, seq : Nat]
BotSpending == [{"events", "updates", "tests", "faults"} -> Nat]
BotHistory ==
    [began : [Engine!Keys -> Nat], heard : [Engine!Keys -> Nat], hasty : BOOLEAN,
     executed : Nat, reported : Nat, posted : Nat, crowded : BOOLEAN, tested : BOOLEAN,
     late : [Platforms -> Nat]]

BotShapes ==
    /\ queue \in Seq(Engine!Events) /\ Len(queue) <= QueueSize
    /\ cfg \in Settings
    /\ job \in {Engine!Free} \cup Replying \cup Recording
    /\ now \in 1 .. MaxTime /\ lastSent \in Nat /\ lastSent <= now
    /\ last \in [Engine!Keys -> Heard] /\ seq \in [Platforms -> Nat]
    /\ journal \in [records : Nat, failed : BOOLEAN]
    /\ botSpent \in BotSpending /\ botHist \in BotHistory

\* What the bot remembers of a command's last answer is what happened: when it was,
\* and how many ordinary messages there were since.
RemembersAnswers ==
    /\ ~botHist.hasty
    /\ \A k \in Engine!Keys :
         /\ last[k].at = botHist.began[k] /\ last[k].at <= now
         /\ last[k].seq + botHist.heard[k] = seq[k[1]]

\* A reply is on its way in the states "wait" and "send".
ReplyTo(p) == job.pc \in {"wait", "send"} /\ job.event.platform = p

\* A reply to YouTube waits until the gap since the last one is over.
SpacedReplies ==
    /\ ~botHist.tested => ~botHist.crowded /\ botHist.posted = lastSent
    /\ ReplyTo("youtube") /\ lastSent # 0 => lastSent + job.gap <= job.until
    /\ job.pc = "send" => job.until <= now

\* One execution is not yet in the journal while its reply is on its way.
Owed ==
    IF \/ job.pc \in {"wait", "send"} /\ job.event.kind \in Commands
       \/ job.pc = "record" /\ job.command
    THEN 1 ELSE 0
Accounted ==
    /\ botHist.executed = journal.records + botHist.reported + Owed
    /\ botHist.executed + Len(queue) <= botSpent["events"]
    /\ botSpent["events"] <= MaxEvents

\* After a reply to a disabled platform no other is on its way there.
QuietOnce ==
    \A p \in Platforms :
        /\ botHist.late[p] <= 1
        /\ botHist.late[p] = 1 => Engine!Off(p, cfg) /\ ~ReplyTo(p)

BotInv == BotShapes /\ RemembersAnswers /\ SpacedReplies /\ Accounted /\ QuietOnce

LEMMA BotNumbers ==
    ASSUME Engine!ConstantsOK
    PROVE  /\ QueueSize \in Nat \ {0} /\ Escape \in Nat /\ Cooldowns \subseteq Nat
           /\ MaxEvents \in Nat /\ MaxTime \in Nat \ {0}
           /\ "alert" \notin Commands /\ "chat" \notin Commands /\ "other" \notin Commands
BY DEF Engine!ConstantsOK

LEMMA EventIs ==
    ASSUME NEW e \in Engine!Events
    PROVE  /\ e.platform \in Platforms
           /\ e.kind \in Commands =>
                Engine!Key(e) \in Engine!Keys /\ Engine!Key(e)[1] = e.platform
BY DEF Engine!Events, Engine!Kinds, Engine!Key, Engine!Keys

LEMMA KeyIs ==
    ASSUME NEW k \in Engine!Keys
    PROVE  k[1] \in Platforms
BY DEF Engine!Keys

LEMMA JobIs ==
    ASSUME job \in {Engine!Free} \cup Replying \cup Recording
    PROVE  /\ job.pc = "idle" => job = Engine!Free
           /\ job.pc \in {"wait", "send"} => job \in Replying
           /\ job.pc = "record" => job \in Recording
           /\ job.pc \in {"idle", "wait", "send", "record"}
BY DEF Engine!Free, Replying, Recording

LEMMA BotInit ==
    ASSUME Engine!ConstantsOK, Engine!Init
    PROVE  BotInv
<1>. DEFINE none == [k \in Engine!Keys |-> 0]
            quiet == [p \in Platforms |-> 0]
<1>1. /\ queue = <<>> /\ job = Engine!Free /\ now = 1 /\ lastSent = 0
      /\ last = [k \in Engine!Keys |-> Engine!Never] /\ seq = quiet
      /\ journal = [records |-> 0, failed |-> FALSE]
      /\ botSpent = [events |-> 0, updates |-> 0, tests |-> 0, faults |-> 0]
      /\ botHist = [began |-> none, heard |-> none, hasty |-> FALSE, executed |-> 0,
                    reported |-> 0, posted |-> 0, crowded |-> FALSE, tested |-> FALSE,
                    late |-> quiet]
  BY DEF Engine!Init
<1>2. cfg \in Settings
  <2>1. PICK d \in Cooldowns : cfg = [enabled |-> TRUE, disabled |-> {}, cooldown |-> d]
    BY DEF Engine!Init
  <2>2. QED
    BY <2>1 DEF Settings
<1>3. /\ none \in [Engine!Keys -> Nat] /\ quiet \in [Platforms -> Nat]
      /\ (\A k \in Engine!Keys : none[k] = 0) /\ (\A p \in Platforms : quiet[p] = 0)
  OBVIOUS
<1>. HIDE DEF none, quiet
<1>4. botHist \in BotHistory
  BY <1>1, <1>3 DEF BotHistory
<1>5. botSpent \in BotSpending /\ botSpent["events"] = 0
  BY <1>1 DEF BotSpending
<1>6. last \in [Engine!Keys -> Heard] /\ \A k \in Engine!Keys : last[k].at = 0 /\ last[k].seq = 0
  BY <1>1 DEF Heard, Engine!Never
<1>7. journal \in [records : Nat, failed : BOOLEAN]
  BY <1>1
<1>8. queue \in Seq(Engine!Events) /\ Len(queue) = 0
  BY <1>1
<1>9. now \in 1 .. MaxTime /\ lastSent \in Nat /\ lastSent <= now
  BY <1>1, BotNumbers
<1>10. BotShapes
  BY <1>1, <1>2, <1>3, <1>4, <1>5, <1>6, <1>7, <1>8, <1>9, BotNumbers DEF BotShapes
<1>11. RemembersAnswers
  <2>1. ~botHist.hasty /\ botHist.began = none /\ botHist.heard = none
    BY <1>1
  <2>2. QED
    BY <1>1, <1>3, <1>6, <2>1, KeyIs DEF RemembersAnswers
<1>12. SpacedReplies /\ Accounted
  <2>1. job.pc = "idle"
    BY <1>1 DEF Engine!Free
  <2>2. /\ botHist.posted = 0 /\ ~botHist.crowded /\ botHist.executed = 0
        /\ botHist.reported = 0 /\ journal.records = 0
    BY <1>1
  <2>3. SpacedReplies
    BY <1>1, <2>1, <2>2 DEF SpacedReplies, ReplyTo
  <2>4. Accounted
    BY <1>5, <1>8, <2>1, <2>2, BotNumbers DEF Accounted, Owed
  <2>5. QED
    BY <2>3, <2>4
<1>13. QuietOnce
  <2>1. botHist.late = quiet
    BY <1>1
  <2>2. QED
    BY <1>3, <2>1 DEF QuietOnce
<1>14. QED
  BY <1>10, <1>11, <1>12, <1>13 DEF BotInv

\* Time passes.
LEMMA TickKeeps ==
    ASSUME Engine!ConstantsOK, BotInv, Engine!Tick
    PROVE  BotInv'
<1>1. /\ now < MaxTime /\ now' = now + 1
      /\ UNCHANGED <<queue, cfg, job, last, seq, lastSent, journal, botSpent, botHist>>
  BY DEF Engine!Tick
<1>2. BotShapes /\ RemembersAnswers /\ SpacedReplies /\ Accounted /\ QuietOnce
  BY DEF BotInv
<1>3. now \in 1 .. MaxTime /\ MaxTime \in Nat /\ lastSent \in Nat /\ lastSent <= now
  BY <1>2, BotNumbers DEF BotShapes
<1>4. now' \in 1 .. MaxTime /\ lastSent <= now' /\ now <= now'
  BY <1>1, <1>3
<1>5. BotShapes'
  BY <1>1, <1>2, <1>4 DEF BotShapes
<1>6. RemembersAnswers'
  <2>1. \A k \in Engine!Keys : last[k].at \in Nat
    BY <1>2 DEF BotShapes, Heard
  <2>2. \A k \in Engine!Keys : last[k].at <= now'
    BY <1>1, <1>2, <1>3, <2>1 DEF RemembersAnswers
  <2>3. QED
    BY <1>1, <1>2, <2>2 DEF RemembersAnswers
<1>7. SpacedReplies'
  <2>1. job.pc = "send" => job.until \in Nat /\ job.until <= now
    BY <1>2, JobIs DEF BotShapes, Replying, SpacedReplies
  <2>2. job.pc = "send" => job.until <= now'
    BY <1>1, <1>3, <2>1
  <2>3. QED
    BY <1>1, <1>2, <2>2 DEF SpacedReplies, ReplyTo
<1>8. Accounted' /\ QuietOnce'
  BY <1>1, <1>2 DEF Accounted, Owed, QuietOnce, ReplyTo, Engine!Off
<1>9. QED
  BY <1>5, <1>6, <1>7, <1>8 DEF BotInv

LEMMA BotSpends ==
    ASSUME botSpent \in BotSpending, NEW bound,
           NEW what \in {"events", "updates", "tests", "faults"}, Engine!Spend(what, bound)
    PROVE  /\ botSpent' \in BotSpending
           /\ what # "events" => botSpent'["events"] = botSpent["events"]
           /\ what = "events" => botSpent["events"] < bound
                                 /\ botSpent'["events"] = botSpent["events"] + 1
BY DEF Engine!Spend, BotSpending

\* An event is queued, or dropped.
LEMMA EnqueueKeeps ==
    ASSUME Engine!ConstantsOK, BotInv, Engine!Enqueue
    PROVE  BotInv'
<1>1. PICK e \in Engine!Events :
        queue' = IF Len(queue) < QueueSize THEN Append(queue, e) ELSE queue
  BY DEF Engine!Enqueue
<1>2. /\ Engine!Spend("events", MaxEvents)
      /\ UNCHANGED <<cfg, job, now, last, seq, lastSent, journal, botHist>>
  BY DEF Engine!Enqueue
<1>3. BotShapes /\ RemembersAnswers /\ SpacedReplies /\ Accounted /\ QuietOnce
  BY DEF BotInv
<1>4. /\ queue \in Seq(Engine!Events) /\ Len(queue) \in Nat /\ Len(queue) <= QueueSize
      /\ QueueSize \in Nat /\ MaxEvents \in Nat /\ botSpent \in BotSpending
      /\ botSpent["events"] \in Nat
  BY <1>3, BotNumbers, LenProperties DEF BotShapes, BotSpending
<1>5. /\ queue' \in Seq(Engine!Events) /\ Len(queue') <= QueueSize
      /\ Len(queue') \in Nat /\ Len(queue') <= Len(queue) + 1
  <2>1. /\ Append(queue, e) \in Seq(Engine!Events)
        /\ Len(Append(queue, e)) = Len(queue) + 1
    BY <1>4, AppendProperties
  <2>2. QED
    BY <1>1, <1>4, <2>1
<1>6. /\ botSpent' \in BotSpending /\ botSpent["events"] < MaxEvents
      /\ botSpent'["events"] = botSpent["events"] + 1
  BY <1>2, <1>4, BotSpends
<1>7. BotShapes'
  BY <1>2, <1>3, <1>5, <1>6 DEF BotShapes
<1>8. Accounted'
  <2>1. botHist.executed \in Nat
    BY <1>3 DEF BotShapes, BotHistory
  <2>2. /\ botHist'.executed + Len(queue') <= botSpent'["events"]
        /\ botSpent'["events"] <= MaxEvents
    BY <1>2, <1>3, <1>4, <1>5, <1>6, <2>1 DEF Accounted
  <2>3. QED
    BY <1>2, <1>3, <2>2 DEF Accounted, Owed
<1>9. RemembersAnswers' /\ SpacedReplies' /\ QuietOnce'
  BY <1>2, <1>3 DEF RemembersAnswers, SpacedReplies, QuietOnce, ReplyTo, Engine!Off
<1>10. QED
  BY <1>7, <1>8, <1>9 DEF BotInv

\* A reply begins to wait for the gap after the last one.
LEMMA ReplyIs ==
    ASSUME Engine!ConstantsOK, BotShapes, NEW e \in Engine!Events, Engine!Reply(e)
    PROVE  /\ job' \in Replying /\ job'.pc = "wait" /\ job'.event = e
           /\ e.platform = "youtube" /\ lastSent # 0 => lastSent + job'.gap <= job'.until
<1>. DEFINE u == IF e.platform = "youtube" /\ lastSent # 0 THEN lastSent + cfg.cooldown ELSE now
            g == IF e.platform = "youtube" THEN cfg.cooldown ELSE 0
<1>1. cfg.cooldown \in Nat /\ lastSent \in Nat /\ now \in Nat
  BY BotNumbers DEF BotShapes, Settings
<1>2. u \in Nat /\ g \in Nat /\ (e.platform = "youtube" /\ lastSent # 0 => lastSent + g <= u)
  BY <1>1
<1>3. job' = [pc |-> "wait", event |-> e, until |-> u, gap |-> g]
  BY DEF Engine!Reply
<1>. HIDE DEF u, g
<1>4. QED
  BY <1>2, <1>3 DEF Replying

\* What remains to be shown of the event that is taken, when it does not add to what the
\* bot owes, and when it does.
Rest == <<cfg, now, lastSent, journal, botSpent>>

LEMMA EventTaken ==
    ASSUME Engine!ConstantsOK, BotInv, queue # <<>>, queue' = Tail(queue), UNCHANGED Rest
    PROVE  /\ queue' \in Seq(Engine!Events) /\ Len(queue') <= QueueSize
           /\ Len(queue') + 1 = Len(queue) /\ Len(queue') \in Nat /\ Len(queue) \in Nat
           /\ Head(queue) \in Engine!Events
           /\ botHist.executed \in Nat /\ botHist.reported \in Nat /\ journal.records \in Nat
           /\ botSpent["events"] \in Nat
<1>1. /\ queue \in Seq(Engine!Events) /\ Len(queue) <= QueueSize /\ QueueSize \in Nat
      /\ botHist \in BotHistory /\ botSpent \in BotSpending
      /\ journal \in [records : Nat, failed : BOOLEAN]
  BY BotNumbers DEF BotInv, BotShapes
<1>. DEFINE t == Tail(queue)
<1>2. /\ t \in Seq(Engine!Events) /\ Len(t) = Len(queue) - 1 /\ Head(queue) \in Engine!Events
      /\ Len(t) \in Nat /\ Len(queue) \in Nat
  BY <1>1, HeadTailProperties, LenProperties
<1>. HIDE DEF t
<1>3. Len(t) <= QueueSize /\ Len(t) + 1 = Len(queue)
  BY <1>1, <1>2
<1>4. queue' = t
  BY DEF t
<1>5. QED
  BY <1>1, <1>2, <1>3, <1>4 DEF BotHistory, BotSpending

\* An event that is not answered.
LEMMA IgnoresEvent ==
    ASSUME Engine!ConstantsOK, BotInv, queue # <<>>, queue' = Tail(queue), UNCHANGED Rest,
           UNCHANGED <<job, last, seq, botHist>>
    PROVE  BotInv'
<1>1. BotShapes /\ RemembersAnswers /\ SpacedReplies /\ Accounted /\ QuietOnce
  BY DEF BotInv
<1>2. UNCHANGED <<cfg, now, lastSent, journal, botSpent>>
  BY DEF Rest
<1>3. BotShapes'
  BY <1>1, <1>2, EventTaken DEF BotShapes
<1>4. Accounted'
  <2>1. botHist.executed + Len(queue') <= botSpent["events"]
    BY <1>1, EventTaken DEF Accounted
  <2>2. QED
    BY <1>1, <1>2, <2>1 DEF Accounted, Owed
<1>5. RemembersAnswers' /\ SpacedReplies' /\ QuietOnce'
  BY <1>1, <1>2 DEF RemembersAnswers, SpacedReplies, QuietOnce, ReplyTo, Engine!Off
<1>6. QED
  BY <1>3, <1>4, <1>5 DEF BotInv

\* An ordinary message.
LEMMA CountsEvent ==
    ASSUME Engine!ConstantsOK, BotInv, queue # <<>>, queue' = Tail(queue), UNCHANGED Rest,
           Engine!Count(Head(queue)), UNCHANGED <<job, last>>
    PROVE  BotInv'
<1>1. BotShapes /\ RemembersAnswers /\ SpacedReplies /\ Accounted /\ QuietOnce
  BY DEF BotInv
<1>2. UNCHANGED <<cfg, now, lastSent, journal, botSpent>>
  BY DEF Rest
<1>. DEFINE p == Head(queue).platform
            old == botHist.heard
            heard == [k \in Engine!Keys |-> IF k[1] = p THEN old[k] + 1 ELSE old[k]]
<1>3. /\ seq' = [seq EXCEPT ![p] = @ + 1]
      /\ botHist' = [botHist EXCEPT !.heard = heard]
  BY DEF Engine!Count
<1>4. /\ p \in Platforms /\ old \in [Engine!Keys -> Nat] /\ botHist \in BotHistory
      /\ seq \in [Platforms -> Nat]
  <2>1. Head(queue) \in Engine!Events
    BY EventTaken
  <2>2. QED
    BY <1>1, <2>1, EventIs DEF BotShapes, BotHistory
<1>. HIDE DEF p, old
<1>5. /\ heard \in [Engine!Keys -> Nat]
      /\ \A k \in Engine!Keys : heard[k] = IF k[1] = p THEN old[k] + 1 ELSE old[k]
  BY <1>4
<1>. HIDE DEF heard
<1>6. /\ seq' \in [Platforms -> Nat]
      /\ \A r \in Platforms : seq'[r] = IF r = p THEN seq[r] + 1 ELSE seq[r]
  BY <1>3, <1>4
<1>7. /\ botHist' \in BotHistory
      /\ botHist'.heard = heard /\ botHist'.began = botHist.began
      /\ botHist'.executed = botHist.executed /\ botHist'.reported = botHist.reported
      /\ botHist'.posted = botHist.posted /\ botHist'.late = botHist.late
  BY <1>3, <1>4, <1>5 DEF BotHistory
<1>8. /\ botHist'.hasty = botHist.hasty /\ botHist'.crowded = botHist.crowded
      /\ botHist'.tested = botHist.tested
  BY <1>3, <1>4, Zenon DEF BotHistory
<1>9. BotShapes'
  BY <1>1, <1>2, <1>6, <1>7, EventTaken DEF BotShapes
<1>10. RemembersAnswers'
  <2>1. ASSUME NEW k \in Engine!Keys
        PROVE  /\ last[k].at = botHist'.began[k] /\ last[k].at <= now
               /\ last[k].seq + heard[k] = seq'[k[1]]
    <3>1. k[1] \in Platforms /\ last[k].seq \in Nat /\ old[k] \in Nat
      BY <1>1, <1>4, KeyIs DEF BotShapes, Heard
    <3>2. /\ last[k].at = botHist.began[k] /\ last[k].at <= now
          /\ last[k].seq + old[k] = seq[k[1]]
      BY <1>1 DEF RemembersAnswers, old
    <3>3. last[k].seq + heard[k] = seq'[k[1]]
      <4>. DEFINE r == k[1]
      <4>1. seq[r] \in Nat /\ r \in Platforms
        BY <1>4, <3>1
      <4>2. /\ heard[k] = IF r = p THEN old[k] + 1 ELSE old[k]
            /\ seq'[r] = IF r = p THEN seq[r] + 1 ELSE seq[r]
        BY <1>5, <1>6, <4>1
      <4>. HIDE DEF r
      <4>3. last[k].seq + old[k] = seq[r]
        BY <3>2 DEF r
      <4>4. last[k].seq + heard[k] = seq'[r]
        BY <3>1, <4>1, <4>2, <4>3
      <4>5. QED
        BY <4>4 DEF r
    <3>4. QED
      BY <1>7, <3>2, <3>3
  <2>2. QED
    BY <1>1, <1>2, <1>7, <1>8, <2>1 DEF RemembersAnswers
<1>11. Accounted'
  <2>1. botHist'.executed + Len(queue') <= botSpent["events"]
    BY <1>1, <1>7, EventTaken DEF Accounted
  <2>2. QED
    BY <1>1, <1>2, <1>7, <2>1 DEF Accounted, Owed
<1>12. SpacedReplies' /\ QuietOnce'
  BY <1>1, <1>2, <1>7, <1>8 DEF SpacedReplies, QuietOnce, ReplyTo, Engine!Off
<1>13. QED
  BY <1>9, <1>10, <1>11, <1>12 DEF BotInv

\* A reply that begins: its platform is not disabled, so none was late.
LEMMA ReplyBegins ==
    ASSUME Engine!ConstantsOK, BotInv, NEW e \in Engine!Events, Engine!Reply(e),
           job.pc = "idle", ~Engine!Off(e.platform, cfg), UNCHANGED Rest,
           botHist'.late = botHist.late, botHist'.posted = botHist.posted,
           botHist'.crowded = botHist.crowded, botHist'.tested = botHist.tested
    PROVE  SpacedReplies' /\ QuietOnce'
<1>1. BotShapes /\ SpacedReplies /\ QuietOnce
  BY DEF BotInv
<1>2. /\ job' \in Replying /\ job'.pc = "wait" /\ job'.event = e
      /\ e.platform = "youtube" /\ lastSent # 0 => lastSent + job'.gap <= job'.until
  BY <1>1, ReplyIs
<1>3. UNCHANGED <<cfg, now, lastSent, journal, botSpent>>
  BY DEF Rest
<1>4. SpacedReplies'
  BY <1>1, <1>2, <1>3 DEF SpacedReplies, ReplyTo
<1>5. QuietOnce'
  BY <1>1, <1>2, <1>3 DEF QuietOnce, ReplyTo, Engine!Off
<1>6. QED
  BY <1>4, <1>5

\* An alert is answered.
LEMMA AnswersAlert ==
    ASSUME Engine!ConstantsOK, BotInv, queue # <<>>, queue' = Tail(queue), UNCHANGED Rest,
           job.pc = "idle", NEW e, e = Head(queue), ~Engine!Off(e.platform, cfg),
           e.kind = "alert", Engine!Reply(e), UNCHANGED <<last, seq, botHist>>
    PROVE  BotInv'
<1>1. BotShapes /\ RemembersAnswers /\ Accounted
  BY DEF BotInv
<1>2. UNCHANGED <<cfg, now, lastSent, journal, botSpent>>
  BY DEF Rest
<1>3. e \in Engine!Events
  BY EventTaken
<1>4. job' \in Replying /\ job'.pc = "wait" /\ job'.event = e
  BY <1>1, <1>3, ReplyIs
<1>5. BotShapes'
  BY <1>1, <1>2, <1>4, EventTaken DEF BotShapes
<1>6. SpacedReplies' /\ QuietOnce'
  BY <1>3, ReplyBegins
<1>7. Accounted'
  <2>1. Owed = 0 /\ Owed' = 0
    BY <1>4, BotNumbers DEF Owed
  <2>2. botHist.executed + Len(queue') <= botSpent["events"]
    BY <1>1, EventTaken DEF Accounted
  <2>3. QED
    BY <1>1, <1>2, <2>1, <2>2 DEF Accounted
<1>8. RemembersAnswers'
  BY <1>1, <1>2 DEF RemembersAnswers
<1>9. QED
  BY <1>5, <1>6, <1>7, <1>8 DEF BotInv

\* A command is executed.
LEMMA AnswersCommand ==
    ASSUME Engine!ConstantsOK, BotInv, queue # <<>>, queue' = Tail(queue), UNCHANGED Rest,
           job.pc = "idle", NEW e, e = Head(queue), ~Engine!Off(e.platform, cfg),
           e.kind \in Commands, ~Engine!Duplicate(e, cfg), Engine!Execute(e, cfg), UNCHANGED seq
    PROVE  BotInv'
<1>1. BotShapes /\ RemembersAnswers /\ Accounted
  BY DEF BotInv
<1>2. UNCHANGED <<cfg, now, lastSent, journal, botSpent>>
  BY DEF Rest
<1>3. e \in Engine!Events /\ e.platform \in Platforms
  BY EventTaken, EventIs
<1>. DEFINE key == Engine!Key(e)
            began == [botHist.began EXCEPT ![key] = now]
            heard == [botHist.heard EXCEPT ![key] = 0]
            n == botHist.executed + 1
            early == /\ botHist.began[key] # 0
                     /\ now - botHist.began[key] < cfg.cooldown
                     /\ botHist.heard[key] < Escape
            hasty == botHist.hasty \/ early
            answer == [at |-> now, seq |-> seq[e.platform]]
<1>4. key \in Engine!Keys /\ key[1] = e.platform
  BY <1>3, EventIs
<1>5. /\ Engine!Reply(e)
      /\ last' = [last EXCEPT ![key] = answer]
      /\ botHist' = [botHist EXCEPT !.began[key] = now, !.heard[key] = 0,
                                    !.executed = n, !.hasty = hasty]
  BY DEF Engine!Execute
<1>6. job' \in Replying /\ job'.pc = "wait" /\ job'.event = e
  BY <1>1, <1>3, <1>5, ReplyIs
<1>7. /\ botHist \in BotHistory /\ botHist.began \in [Engine!Keys -> Nat]
      /\ botHist.heard \in [Engine!Keys -> Nat] /\ now \in Nat /\ n \in Nat
      /\ last \in [Engine!Keys -> Heard] /\ seq \in [Platforms -> Nat]
      /\ cfg.cooldown \in Nat /\ Escape \in Nat
  <2>1. /\ botHist \in BotHistory /\ now \in Nat /\ seq \in [Platforms -> Nat]
        /\ last \in [Engine!Keys -> Heard] /\ cfg \in Settings
    BY <1>1, BotNumbers DEF BotShapes
  <2>2. /\ botHist.began \in [Engine!Keys -> Nat] /\ botHist.heard \in [Engine!Keys -> Nat]
        /\ botHist.executed \in Nat
    BY <2>1 DEF BotHistory
  <2>3. cfg.cooldown \in Nat /\ Escape \in Nat
    BY <2>1, BotNumbers DEF Settings
  <2>4. n \in Nat
    BY <2>2
  <2>. HIDE DEF n
  <2>5. QED
    BY <2>1, <2>2, <2>3, <2>4
<1>8. ~early
  <2>1. /\ last[key].at = botHist.began[key] /\ last[key].seq + botHist.heard[key] = seq[key[1]]
        /\ last[key].seq \in Nat /\ botHist.heard[key] \in Nat /\ seq[key[1]] \in Nat
    BY <1>1, <1>3, <1>4, <1>7 DEF RemembersAnswers, Heard
  <2>2. ~(/\ last[key].at # 0 /\ now - last[key].at < cfg.cooldown
          /\ seq[e.platform] - last[key].seq < Escape)
    BY DEF Engine!Duplicate
  <2>3. seq[e.platform] - last[key].seq = botHist.heard[key]
    BY <1>4, <2>1
  <2>. HIDE DEF key
  <2>4. QED
    BY <2>1, <2>2, <2>3
<1>9. ~hasty
  BY <1>1, <1>8 DEF RemembersAnswers
<1>. HIDE DEF key, n, early, hasty
<1>10. botHist' = [botHist EXCEPT !.began = began, !.heard = heard,
                                  !.executed = n, !.hasty = hasty]
  BY <1>5, <1>7 DEF BotHistory
<1>11. began \in [Engine!Keys -> Nat] /\ heard \in [Engine!Keys -> Nat]
       /\ \A k \in Engine!Keys : /\ began[k] = IF k = key THEN now ELSE botHist.began[k]
                                 /\ heard[k] = IF k = key THEN 0 ELSE botHist.heard[k]
  BY <1>7
<1>12. hasty = FALSE
  BY <1>9 DEF hasty
<1>. HIDE DEF began, heard
<1>13. botHist' \in BotHistory
  BY <1>7, <1>10, <1>11, <1>12 DEF BotHistory
<1>14. /\ botHist'.began = began /\ botHist'.heard = heard /\ botHist'.executed = n
       /\ botHist'.reported = botHist.reported
       /\ botHist'.posted = botHist.posted /\ botHist'.late = botHist.late
  BY <1>7, <1>10 DEF BotHistory
<1>15. /\ ~botHist'.hasty /\ botHist'.crowded = botHist.crowded
       /\ botHist'.tested = botHist.tested
  BY <1>7, <1>9, <1>10, Zenon DEF BotHistory
<1>16. /\ last' \in [Engine!Keys -> Heard] /\ answer.at = now /\ answer.seq = seq[e.platform]
       /\ \A k \in Engine!Keys : last'[k] = IF k = key THEN answer ELSE last[k]
  <2>1. answer \in Heard
    BY <1>3, <1>7 DEF Heard
  <2>. HIDE DEF answer
  <2>2. QED
    BY <1>5, <1>7, <2>1 DEF answer
<1>. HIDE DEF answer
<1>17. BotShapes'
  BY <1>1, <1>2, <1>6, <1>13, <1>16, EventTaken DEF BotShapes
<1>18. RemembersAnswers'
  <2>1. ASSUME NEW k \in Engine!Keys
        PROVE  /\ last'[k].at = began[k] /\ last'[k].at <= now
               /\ last'[k].seq + heard[k] = seq[k[1]]
    <3>1. CASE k = key
      BY <1>3, <1>4, <1>7, <1>11, <1>16, <3>1
    <3>2. CASE k # key
      BY <1>1, <1>11, <1>16, <3>2 DEF RemembersAnswers
    <3>3. QED
      BY <3>1, <3>2
  <2>2. QED
    BY <1>2, <1>14, <1>15, <2>1 DEF RemembersAnswers
<1>19. SpacedReplies' /\ QuietOnce'
  BY <1>3, <1>5, <1>14, <1>15, ReplyBegins
<1>20. Accounted'
  <2>1. Owed = 0 /\ Owed' = 1
    BY <1>6 DEF Owed
  <2>2. n + Len(queue') <= botSpent["events"]
    BY <1>1, EventTaken DEF Accounted, n
  <2>3. n = journal.records + botHist.reported + 1
    BY <1>1, <2>1, EventTaken DEF Accounted, n
  <2>4. QED
    BY <1>1, <1>2, <1>14, <2>1, <2>2, <2>3 DEF Accounted
<1>21. QED
  BY <1>17, <1>18, <1>19, <1>20 DEF BotInv

LEMMA TakeKeeps ==
    ASSUME Engine!ConstantsOK, BotInv, Engine!Take
    PROVE  BotInv'
<1>. DEFINE e == Head(queue)
<1>1. /\ job.pc = "idle" /\ queue # <<>> /\ queue' = Tail(queue) /\ UNCHANGED Rest
      /\ Engine!Handle(e, cfg)
  BY DEF Engine!Take, Rest
<1>2. CASE UNCHANGED <<job, last, seq, botHist>>
  BY <1>1, <1>2, IgnoresEvent
<1>3. CASE ~Engine!Off(e.platform, cfg) /\ e.kind = "alert" /\ Engine!Reply(e)
           /\ UNCHANGED <<last, seq, botHist>>
  BY <1>1, <1>3, AnswersAlert
<1>4. CASE Engine!Count(e) /\ UNCHANGED <<job, last>>
  BY <1>1, <1>4, CountsEvent
<1>5. CASE Engine!Suppress(e) /\ UNCHANGED <<job, last, botHist>>
  BY <1>1, <1>5, IgnoresEvent DEF Engine!Suppress
<1>6. CASE ~Engine!Off(e.platform, cfg) /\ e.kind \in Commands /\ ~Engine!Duplicate(e, cfg)
           /\ Engine!Execute(e, cfg) /\ UNCHANGED seq
  BY <1>1, <1>6, AnswersCommand
<1>. HIDE DEF e
<1>7. QED
  BY <1>1, <1>2, <1>3, <1>4, <1>5, <1>6 DEF Engine!Handle

\* What does not touch what the bot remembers of its answers.
LEMMA StillRemembers ==
    ASSUME RemembersAnswers, UNCHANGED <<last, seq, now>>, botHist'.began = botHist.began,
           botHist'.heard = botHist.heard, botHist'.hasty = botHist.hasty
    PROVE  RemembersAnswers'
BY DEF RemembersAnswers

\* The wait is over.
LEMMA WakeKeeps ==
    ASSUME BotInv, Engine!Wake
    PROVE  BotInv'
<1>1. /\ job.pc = "wait" /\ job.until <= now /\ job' = [job EXCEPT !.pc = "send"]
      /\ UNCHANGED <<queue, cfg, now, last, seq, lastSent, journal, botSpent, botHist>>
  <2>1. now >= job.until
    BY DEF Engine!Wake
  <2>2. job.pc = "wait"
    BY DEF Engine!Wake
  <2>3. job \in Replying /\ now \in Nat
    BY <2>2, JobIs DEF BotInv, BotShapes
  <2>4. job.until <= now
    BY <2>1, <2>3 DEF Replying
  <2>5. QED
    BY <2>4 DEF Engine!Wake
<1>2. BotShapes /\ RemembersAnswers /\ SpacedReplies /\ Accounted /\ QuietOnce
  BY DEF BotInv
<1>3. job \in Replying
  BY <1>1, <1>2, JobIs DEF BotShapes
<1>4. /\ job' \in Replying /\ job'.pc = "send" /\ job'.event = job.event
      /\ job'.until = job.until /\ job'.gap = job.gap
  BY <1>1, <1>3 DEF Replying
<1>5. BotShapes'
  BY <1>1, <1>2, <1>4 DEF BotShapes
<1>6. SpacedReplies'
  BY <1>1, <1>2, <1>4 DEF SpacedReplies, ReplyTo
<1>7. Accounted' /\ QuietOnce'
  BY <1>1, <1>2, <1>4 DEF Accounted, Owed, QuietOnce, ReplyTo, Engine!Off
<1>8. RemembersAnswers'
  BY <1>1, <1>2 DEF RemembersAnswers
<1>9. QED
  BY <1>5, <1>6, <1>7, <1>8 DEF BotInv

\* A send is over: what was owed is owed to the journal.
LEMMA JobDone ==
    ASSUME Engine!ConstantsOK, BotInv, job.pc = "send",
           job' = [pc |-> "record", command |-> job.event.kind \in Commands]
    PROVE  /\ job' \in Recording /\ job'.pc = "record" /\ Owed' = Owed
           /\ job.event.platform \in Platforms
<1>1. job \in Replying
  BY JobIs DEF BotInv, BotShapes
<1>. DEFINE c == job.event.kind \in Commands
<1>2. c \in BOOLEAN /\ job' = [pc |-> "record", command |-> c]
  OBVIOUS
<1>3. Owed = IF c THEN 1 ELSE 0
  BY DEF Owed
<1>4. job.event.platform \in Platforms
  BY <1>1, EventIs DEF Replying
<1>. HIDE DEF c
<1>5. job' \in Recording
  BY <1>2 DEF Recording
<1>6. job'.pc = "record"
  BY <1>2
<1>7. job'.command <=> c
  BY <1>2
<1>8. Owed' = IF c THEN 1 ELSE 0
  BY <1>6, <1>7 DEF Owed
<1>9. QED
  BY <1>3, <1>4, <1>5, <1>6, <1>8

LEMMA SendFailsKeeps ==
    ASSUME Engine!ConstantsOK, BotInv, Engine!SendFails
    PROVE  BotInv'
<1>1. /\ job.pc = "send" /\ Engine!Spend("faults", MaxFaults)
      /\ job' = [pc |-> "record", command |-> job.event.kind \in Commands]
      /\ UNCHANGED <<queue, cfg, now, last, seq, lastSent, journal, botHist>>
  BY DEF Engine!SendFails, Engine!Done
<1>2. BotShapes /\ RemembersAnswers /\ SpacedReplies /\ Accounted /\ QuietOnce
  BY DEF BotInv
<1>3. job' \in Recording /\ job'.pc = "record" /\ Owed' = Owed
  BY <1>1, JobDone
<1>4. botSpent' \in BotSpending /\ botSpent'["events"] = botSpent["events"]
  BY <1>1, <1>2, BotSpends DEF BotShapes
<1>5. BotShapes'
  BY <1>1, <1>2, <1>3, <1>4 DEF BotShapes
<1>6. Accounted'
  BY <1>1, <1>2, <1>3, <1>4 DEF Accounted
<1>7. SpacedReplies' /\ QuietOnce'
  BY <1>1, <1>2, <1>3 DEF SpacedReplies, QuietOnce, ReplyTo, Engine!Off
<1>8. RemembersAnswers'
  BY <1>1, <1>2 DEF RemembersAnswers
<1>9. QED
  BY <1>5, <1>6, <1>7, <1>8 DEF BotInv

\* A message that reaches YouTube is noted.
LEMMA PostedIs ==
    ASSUME botHist \in BotHistory, now \in Nat, NEW p, NEW gap \in Nat
    PROVE  /\ Engine!Posted(botHist, p, gap) \in BotHistory
           /\ Engine!Posted(botHist, p, gap).began = botHist.began
           /\ Engine!Posted(botHist, p, gap).heard = botHist.heard
           /\ Engine!Posted(botHist, p, gap).hasty = botHist.hasty
           /\ Engine!Posted(botHist, p, gap).executed = botHist.executed
           /\ Engine!Posted(botHist, p, gap).reported = botHist.reported
           /\ Engine!Posted(botHist, p, gap).tested = botHist.tested
           /\ Engine!Posted(botHist, p, gap).late = botHist.late
           /\ p # "youtube" => /\ Engine!Posted(botHist, p, gap).posted = botHist.posted
                               /\ Engine!Posted(botHist, p, gap).crowded = botHist.crowded
           /\ p = "youtube" =>
                /\ Engine!Posted(botHist, p, gap).posted = now
                /\ ~botHist.crowded /\ ~(botHist.posted # 0 /\ now - botHist.posted < gap)
                     => ~Engine!Posted(botHist, p, gap).crowded
<1>. DEFINE new == botHist.crowded \/ (botHist.posted # 0 /\ now - botHist.posted < gap)
            h == Engine!Posted(botHist, p, gap)
<1>1. CASE p # "youtube"
  <2>1. h = botHist
    BY <1>1 DEF Engine!Posted
  <2>. HIDE DEF h
  <2>2. QED
    BY <1>1, <2>1 DEF h
<1>2. CASE p = "youtube"
  <2>1. new \in BOOLEAN
    BY DEF BotHistory
  <2>2. ~botHist.crowded /\ ~(botHist.posted # 0 /\ now - botHist.posted < gap) => ~new
    OBVIOUS
  <2>3. h = [botHist EXCEPT !.posted = now, !.crowded = new]
    BY <1>2 DEF Engine!Posted
  <2>. HIDE DEF h, new
  <2>4. h \in BotHistory
    BY <2>1, <2>3 DEF BotHistory
  <2>5. /\ h.began = botHist.began /\ h.heard = botHist.heard /\ h.executed = botHist.executed
        /\ h.reported = botHist.reported /\ h.late = botHist.late /\ h.posted = now
    BY <2>3 DEF BotHistory
  <2>6. h.hasty = botHist.hasty /\ h.tested = botHist.tested /\ h.crowded = new
    BY <2>3, Zenon DEF BotHistory
  <2>7. QED
    BY <1>2, <2>2, <2>4, <2>5, <2>6 DEF h
<1>3. QED
  BY <1>1, <1>2

LEMMA SentKeeps ==
    ASSUME Engine!ConstantsOK, BotInv, Engine!Sent
    PROVE  BotInv'
<1>. DEFINE p == job.event.platform
            h == Engine!Posted(botHist, p, job.gap)
            n == IF Engine!Off(p, cfg) THEN h.late[p] + 1 ELSE 0
            late == [botHist.late EXCEPT ![p] = n]
<1>1. /\ job.pc = "send"
      /\ lastSent' = (IF p = "youtube" THEN now ELSE lastSent)
      /\ job' = [pc |-> "record", command |-> job.event.kind \in Commands]
      /\ botHist' = [h EXCEPT !.late[p] = IF Engine!Off(p, cfg) THEN @ + 1 ELSE 0]
      /\ UNCHANGED <<queue, cfg, now, last, seq, journal, botSpent>>
  BY DEF Engine!Sent, Engine!Done, Engine!SentAt
<1>2. BotShapes /\ RemembersAnswers /\ SpacedReplies /\ Accounted /\ QuietOnce
  BY DEF BotInv
<1>3. job' \in Recording /\ job'.pc = "record" /\ Owed' = Owed /\ p \in Platforms
  BY <1>1, JobDone
<1>4. /\ botHist \in BotHistory /\ now \in Nat /\ now \in 1 .. MaxTime /\ lastSent \in Nat
      /\ lastSent <= now /\ job \in Replying
  BY <1>1, <1>2, JobIs, BotNumbers DEF BotShapes
<1>5. job.gap \in Nat /\ job.until \in Nat
  BY <1>4 DEF Replying
<1>. DEFINE gap == job.gap
<1>6. /\ h \in BotHistory /\ h.began = botHist.began /\ h.heard = botHist.heard
      /\ h.hasty = botHist.hasty /\ h.executed = botHist.executed
      /\ h.reported = botHist.reported /\ h.tested = botHist.tested /\ h.late = botHist.late
      /\ p # "youtube" => h.posted = botHist.posted /\ h.crowded = botHist.crowded
      /\ p = "youtube" =>
           /\ h.posted = now
           /\ ~botHist.crowded /\ ~(botHist.posted # 0 /\ now - botHist.posted < gap)
                => ~h.crowded
  <2>1. gap \in Nat /\ h = Engine!Posted(botHist, p, gap)
    BY <1>5
  <2>. HIDE DEF h, p, gap
  <2>2. QED
    BY <1>4, <2>1, PostedIs
<1>. HIDE DEF h
<1>7. botHist' = [h EXCEPT !.late = late]
  BY <1>1, <1>6 DEF BotHistory
<1>8. /\ n \in Nat /\ late \in [Platforms -> Nat] /\ late[p] = n
      /\ \A r \in Platforms : r # p => late[r] = botHist.late[r]
  <2>1. botHist.late \in [Platforms -> Nat]
    BY <1>4 DEF BotHistory
  <2>2. n \in Nat
    BY <1>3, <1>6, <2>1
  <2>. HIDE DEF n
  <2>3. QED
    BY <1>3, <2>1, <2>2
<1>9. QuietOnce'
  <2>1. ReplyTo(p)
    BY <1>1 DEF ReplyTo
  <2>2. botHist.late[p] \in Nat /\ botHist.late[p] <= 1 /\ botHist.late[p] # 1
    BY <1>2, <1>3, <1>4, <2>1 DEF QuietOnce, BotHistory
  <2>3. n <= 1 /\ (n = 1 => Engine!Off(p, cfg))
    BY <1>6, <2>2
  <2>4. \A r \in Platforms : late[r] <= 1 /\ (late[r] = 1 => Engine!Off(r, cfg))
    BY <1>2, <1>8, <2>3 DEF QuietOnce
  <2>5. botHist'.late = late
    BY <1>6, <1>7 DEF BotHistory
  <2>6. QED
    BY <1>1, <1>3, <2>4, <2>5 DEF QuietOnce, ReplyTo, Engine!Off
<1>. HIDE DEF n, late
<1>10. botHist' \in BotHistory
  BY <1>6, <1>7, <1>8 DEF BotHistory
<1>11. /\ botHist'.began = h.began /\ botHist'.heard = h.heard
       /\ botHist'.executed = h.executed /\ botHist'.reported = h.reported
       /\ botHist'.posted = h.posted
  BY <1>6, <1>7 DEF BotHistory
<1>12. /\ botHist'.hasty = h.hasty /\ botHist'.crowded = h.crowded
       /\ botHist'.tested = h.tested
  BY <1>6, <1>7, Zenon DEF BotHistory
<1>13. BotShapes'
  <2>1. lastSent' \in Nat /\ lastSent' <= now'
    BY <1>1, <1>4
  <2>2. QED
    BY <1>1, <1>2, <1>3, <1>10, <2>1 DEF BotShapes
<1>14. SpacedReplies'
  <2>1. SUFFICES ASSUME ~botHist'.tested
                 PROVE  ~botHist'.crowded /\ botHist'.posted = lastSent'
    BY <1>3 DEF SpacedReplies, ReplyTo
  <2>2. ~botHist.crowded /\ botHist.posted = lastSent
    BY <1>2, <1>6, <1>12, <2>1 DEF SpacedReplies
  <2>3. CASE p = "youtube"
    <3>1. lastSent # 0 => lastSent + gap <= job.until
      BY <1>1, <1>2, <2>3 DEF SpacedReplies, ReplyTo
    <3>2. job.until <= now
      BY <1>1, <1>2 DEF SpacedReplies
    <3>. DEFINE until == job.until
    <3>3. until \in Nat /\ gap \in Nat /\ until <= now /\ (lastSent # 0 => lastSent + gap <= until)
      BY <1>5, <3>1, <3>2
    <3>. HIDE DEF until, gap
    <3>4. ~(lastSent # 0 /\ now - lastSent < gap)
      BY <1>4, <3>3
    <3>5. ~h.crowded /\ h.posted = now
      BY <1>6, <2>2, <2>3, <3>4
    <3>6. QED
      BY <1>1, <1>11, <1>12, <2>3, <3>5
  <2>4. CASE p # "youtube"
    BY <1>1, <1>6, <1>11, <1>12, <2>2, <2>4
  <2>5. QED
    BY <2>3, <2>4
<1>15. Accounted'
  BY <1>1, <1>2, <1>3, <1>6, <1>11 DEF Accounted
<1>16. RemembersAnswers'
  BY <1>1, <1>2, <1>6, <1>11, <1>12, StillRemembers
<1>17. QED
  BY <1>9, <1>13, <1>14, <1>15, <1>16 DEF BotInv

\* The journal gets what it is owed, or the error is reported.
LEMMA RecordKeeps ==
    ASSUME Engine!ConstantsOK, BotInv, Engine!Record
    PROVE  BotInv'
<1>. DEFINE m == journal.records + 1
            n == botHist.reported + 1
<1>1. /\ job.pc = "record" /\ job' = Engine!Free
      /\ UNCHANGED <<queue, cfg, now, last, seq, lastSent>>
      /\ \/ ~job.command /\ UNCHANGED <<journal, botSpent, botHist>>
         \/ /\ job.command /\ journal' = [journal EXCEPT !.records = m]
            /\ UNCHANGED <<botSpent, botHist>>
         \/ /\ job.command /\ (botSpent' = botSpent \/ Engine!Spend("faults", MaxFaults))
            /\ journal' = [journal EXCEPT !.failed = TRUE]
            /\ botHist' = [botHist EXCEPT !.reported = n]
  BY DEF Engine!Record, Engine!Journal, Engine!JournalFails
<1>2. BotShapes /\ RemembersAnswers /\ SpacedReplies /\ Accounted /\ QuietOnce
  BY DEF BotInv
<1>3. /\ botHist \in BotHistory /\ botSpent \in BotSpending
      /\ journal \in [records : Nat, failed : BOOLEAN]
      /\ botHist.executed \in Nat /\ journal.records \in Nat /\ botHist.reported \in Nat
      /\ m \in Nat /\ n \in Nat
  <2>1. /\ botHist \in BotHistory /\ botSpent \in BotSpending
        /\ journal \in [records : Nat, failed : BOOLEAN]
    BY <1>2 DEF BotShapes
  <2>2. botHist.executed \in Nat /\ journal.records \in Nat /\ botHist.reported \in Nat
    BY <2>1 DEF BotHistory
  <2>3. m \in Nat /\ n \in Nat
    BY <2>2
  <2>. HIDE DEF m, n
  <2>4. QED
    BY <2>1, <2>2, <2>3
<1>4. botSpent' \in BotSpending /\ botSpent'["events"] = botSpent["events"]
  BY <1>1, <1>3, BotSpends
<1>5. job' = Engine!Free /\ job'.pc = "idle" /\ Owed' = 0 /\ Owed = IF job.command THEN 1 ELSE 0
  BY <1>1 DEF Engine!Free, Owed
<1>6. /\ botHist' \in BotHistory
      /\ botHist'.began = botHist.began /\ botHist'.heard = botHist.heard
      /\ botHist'.executed = botHist.executed
      /\ botHist'.posted = botHist.posted /\ botHist'.late = botHist.late
  <2>. HIDE DEF n
  <2>1. botHist' = botHist \/ botHist' = [botHist EXCEPT !.reported = n]
    BY <1>1
  <2>2. QED
    BY <1>3, <2>1 DEF BotHistory
<1>7. /\ botHist'.hasty = botHist.hasty /\ botHist'.crowded = botHist.crowded
      /\ botHist'.tested = botHist.tested
  <2>. HIDE DEF n
  <2>1. CASE botHist' = botHist
    BY <2>1
  <2>2. CASE botHist' = [botHist EXCEPT !.reported = n]
    BY <1>3, <2>2, Zenon DEF BotHistory
  <2>3. QED
    BY <1>1, <2>1, <2>2
<1>8. journal' \in [records : Nat, failed : BOOLEAN]
  <2>. HIDE DEF m
  <2>1. QED
    BY <1>1, <1>3
<1>9. journal'.records + botHist'.reported + Owed' = journal.records + botHist.reported + Owed
  <2>1. CASE ~job.command
    BY <1>1, <1>5, <2>1
  <2>2. CASE job.command /\ journal' = [journal EXCEPT !.records = m] /\ botHist' = botHist
    <3>. HIDE DEF m
    <3>1. journal'.records = m /\ botHist'.reported = botHist.reported
      BY <1>3, <2>2
    <3>2. QED
      BY <1>3, <1>5, <2>2, <3>1 DEF m
  <2>3. CASE /\ job.command /\ journal' = [journal EXCEPT !.failed = TRUE]
             /\ botHist' = [botHist EXCEPT !.reported = n]
    <3>. HIDE DEF n
    <3>1. journal'.records = journal.records /\ botHist'.reported = n
      BY <1>3, <2>3 DEF BotHistory
    <3>2. QED
      BY <1>3, <1>5, <2>3, <3>1 DEF n
  <2>4. QED
    BY <1>1, <2>1, <2>2, <2>3
<1>. HIDE DEF m, n
<1>10. BotShapes'
  BY <1>1, <1>2, <1>4, <1>5, <1>6, <1>8 DEF BotShapes
<1>11. Accounted'
  BY <1>1, <1>2, <1>4, <1>6, <1>9 DEF Accounted
<1>12. SpacedReplies' /\ QuietOnce'
  BY <1>1, <1>2, <1>5, <1>6, <1>7 DEF SpacedReplies, QuietOnce, ReplyTo, Engine!Off
<1>13. RemembersAnswers'
  BY <1>1, <1>2, <1>6, <1>7, StillRemembers
<1>14. QED
  BY <1>10, <1>11, <1>12, <1>13 DEF BotInv

\* The settings change.
LEMMA UpdateKeeps ==
    ASSUME Engine!ConstantsOK, BotInv, Engine!Update
    PROVE  BotInv'
<1>. DEFINE late == [p \in Platforms |->
                       IF Engine!Off(p, cfg) /\ Engine!Off(p, cfg') THEN botHist.late[p] ELSE 0]
<1>1. /\ Engine!Spend("updates", MaxUpdates)
      /\ botHist' = [botHist EXCEPT !.late = late]
      /\ UNCHANGED <<queue, job, now, last, seq, lastSent, journal>>
  BY DEF Engine!Update
<1>2. BotShapes /\ RemembersAnswers /\ SpacedReplies /\ Accounted /\ QuietOnce
  BY DEF BotInv
<1>3. cfg' \in Settings
  <2>1. PICK on \in BOOLEAN, off \in SUBSET Platforms, d \in Cooldowns :
          cfg' = [enabled |-> on, disabled |-> off, cooldown |-> d]
    BY DEF Engine!Update
  <2>2. QED
    BY <2>1 DEF Settings
<1>4. /\ botHist \in BotHistory /\ botHist.late \in [Platforms -> Nat]
      /\ botSpent' \in BotSpending /\ botSpent'["events"] = botSpent["events"]
  BY <1>1, <1>2, BotSpends DEF BotShapes, BotHistory
<1>5. /\ late \in [Platforms -> Nat]
      /\ \A p \in Platforms :
           /\ late[p] <= 1
           /\ late[p] = 1 => Engine!Off(p, cfg') /\ ~ReplyTo(p)
  BY <1>2, <1>4 DEF QuietOnce
<1>. HIDE DEF late
<1>6. /\ botHist' \in BotHistory /\ botHist'.late = late
      /\ botHist'.began = botHist.began /\ botHist'.heard = botHist.heard
      /\ botHist'.executed = botHist.executed /\ botHist'.reported = botHist.reported
      /\ botHist'.posted = botHist.posted
  BY <1>1, <1>4, <1>5 DEF BotHistory
<1>7. /\ botHist'.hasty = botHist.hasty /\ botHist'.crowded = botHist.crowded
      /\ botHist'.tested = botHist.tested
  BY <1>1, <1>4, Zenon DEF BotHistory
<1>8. BotShapes'
  BY <1>1, <1>2, <1>3, <1>4, <1>6 DEF BotShapes
<1>9. Accounted'
  BY <1>1, <1>2, <1>4, <1>6 DEF Accounted, Owed
<1>10. SpacedReplies'
  BY <1>1, <1>2, <1>6, <1>7 DEF SpacedReplies, ReplyTo
<1>11. QuietOnce'
  BY <1>1, <1>5, <1>6 DEF QuietOnce, ReplyTo, Engine!Off
<1>12. RemembersAnswers'
  BY <1>1, <1>2, <1>6, <1>7, StillRemembers
<1>13. QED
  BY <1>8, <1>9, <1>10, <1>11, <1>12 DEF BotInv

\* The settings page sends a test reply.
LEMMA TestKeeps ==
    ASSUME Engine!ConstantsOK, BotInv, Engine!Test
    PROVE  BotInv'
<1>1. PICK p \in Platforms :
        botHist' = [Engine!Posted(botHist, p, cfg.cooldown) EXCEPT !.tested = TRUE]
  BY DEF Engine!Test
<1>2. /\ Engine!Spend("tests", MaxTests)
      /\ UNCHANGED <<queue, cfg, job, now, last, seq, lastSent, journal>>
  BY DEF Engine!Test
<1>3. BotShapes /\ RemembersAnswers /\ SpacedReplies /\ Accounted /\ QuietOnce
  BY DEF BotInv
<1>4. /\ botHist \in BotHistory /\ cfg.cooldown \in Nat /\ now \in Nat
      /\ botSpent' \in BotSpending /\ botSpent'["events"] = botSpent["events"]
  <2>1. now \in Nat /\ cfg.cooldown \in Nat
    BY <1>3, BotNumbers DEF BotShapes, Settings
  <2>2. QED
    BY <1>2, <1>3, <2>1, BotSpends DEF BotShapes
<1>. DEFINE gap == cfg.cooldown
            h == Engine!Posted(botHist, p, gap)
<1>5. /\ h \in BotHistory /\ h.began = botHist.began /\ h.heard = botHist.heard
      /\ h.hasty = botHist.hasty /\ h.executed = botHist.executed
      /\ h.reported = botHist.reported /\ h.late = botHist.late
  <2>1. gap \in Nat
    BY <1>4
  <2>. HIDE DEF gap
  <2>2. QED
    BY <1>4, <2>1, PostedIs
<1>6. botHist' = [h EXCEPT !.tested = TRUE]
  BY <1>1
<1>. HIDE DEF h, gap
<1>7. /\ botHist' \in BotHistory /\ botHist'.late = botHist.late
      /\ botHist'.began = botHist.began /\ botHist'.heard = botHist.heard
      /\ botHist'.executed = botHist.executed /\ botHist'.reported = botHist.reported
      /\ botHist'.tested
  BY <1>5, <1>6 DEF BotHistory
<1>8. botHist'.hasty = botHist.hasty
  <2>1. botHist'.hasty = h.hasty
    BY <1>5, <1>6, Zenon DEF BotHistory
  <2>2. QED
    BY <1>5, <2>1
<1>9. BotShapes'
  BY <1>2, <1>3, <1>4, <1>7 DEF BotShapes
<1>10. Accounted'
  BY <1>2, <1>3, <1>4, <1>7 DEF Accounted, Owed
<1>11. SpacedReplies' /\ QuietOnce'
  BY <1>2, <1>3, <1>7 DEF SpacedReplies, QuietOnce, ReplyTo, Engine!Off
<1>12. RemembersAnswers'
  BY <1>2, <1>3, <1>7, <1>8, StillRemembers
<1>13. QED
  BY <1>9, <1>10, <1>11, <1>12 DEF BotInv

LEMMA BotNext ==
    ASSUME Engine!ConstantsOK, BotInv, [Engine!Next]_(Engine!vars)
    PROVE  BotInv'
<1>1. CASE UNCHANGED Engine!vars
  <2>1. UNCHANGED <<queue, cfg, job, now, last, seq, lastSent, journal, botSpent, botHist>>
    BY <1>1 DEF Engine!vars
  <2>2. BotShapes' /\ RemembersAnswers' /\ SpacedReplies'
    BY <2>1 DEF BotInv, BotShapes, RemembersAnswers, SpacedReplies, ReplyTo
  <2>3. Accounted' /\ QuietOnce'
    BY <2>1 DEF BotInv, Accounted, Owed, QuietOnce, ReplyTo, Engine!Off
  <2>4. QED
    BY <2>2, <2>3 DEF BotInv
<1>2. QED
  BY <1>1, TickKeeps, EnqueueKeeps, TakeKeeps, WakeKeeps, SentKeeps, SendFailsKeeps,
     RecordKeeps, UpdateKeeps, TestKeeps
  DEF Engine!Next

LEMMA BotImplies ==
    ASSUME Engine!ConstantsOK, BotInv
    PROVE  Engine!BotSafety
<1>1. BotShapes /\ RemembersAnswers /\ SpacedReplies /\ Accounted /\ QuietOnce
  BY DEF BotInv
<1>2. Engine!TypeOK
  <2>1. /\ queue \in Seq(Engine!Events) /\ Len(queue) <= QueueSize /\ now \in 1 .. MaxTime
        /\ cfg \in [enabled : BOOLEAN, disabled : SUBSET Platforms, cooldown : Cooldowns]
        /\ lastSent <= now
    BY <1>1 DEF BotShapes, Settings
  <2>2. job.pc \in {"idle", "wait", "send", "record"}
    BY <1>1, JobIs DEF BotShapes
  <2>3. ASSUME NEW k \in Engine!Keys
        PROVE  last[k].at <= now /\ last[k].seq <= seq[k[1]]
    <3>1. last[k].at <= now /\ last[k].seq + botHist.heard[k] = seq[k[1]]
      BY <1>1 DEF RemembersAnswers
    <3>2. last[k].seq \in Nat /\ botHist.heard[k] \in Nat /\ seq[k[1]] \in Nat
      BY <1>1, KeyIs DEF BotShapes, BotHistory, Heard
    <3>3. QED
      BY <3>1, <3>2
  <2>4. journal.records <= MaxEvents
    <3>1. /\ botHist.executed \in Nat /\ botHist.reported \in Nat /\ journal.records \in Nat
          /\ Len(queue) \in Nat /\ botSpent["events"] \in Nat /\ MaxEvents \in Nat
      BY <1>1, BotNumbers, LenProperties DEF BotShapes, BotHistory, BotSpending
    <3>2. Owed \in Nat
      BY DEF Owed
    <3>3. QED
      BY <1>1, <3>1, <3>2 DEF Accounted
  <2>5. QED
    BY <2>1, <2>2, <2>3, <2>4 DEF Engine!TypeOK
<1>3. Engine!NoHastyAnswer /\ Engine!YouTubeIsSpaced
  BY <1>1 DEF RemembersAnswers, SpacedReplies, Engine!NoHastyAnswer, Engine!YouTubeIsSpaced
<1>4. Engine!ExecutedIsRecorded
  <2>1. /\ botHist.executed \in Nat /\ botHist.reported \in Nat /\ journal.records \in Nat
    BY <1>1 DEF BotShapes, BotHistory
  <2>2. job.pc = "idle" => Owed = 0
    BY DEF Owed
  <2>3. QED
    BY <1>1, <2>1, <2>2 DEF Accounted, Engine!ExecutedIsRecorded
<1>5. Engine!DisabledSoonIsQuiet
  BY <1>1 DEF QuietOnce, Engine!DisabledSoonIsQuiet
<1>6. QED
  BY <1>2, <1>3, <1>4, <1>5 DEF Engine!BotSafety

(* The bot of internal/bot, for any settings, however they change, and     *)
(* whatever sends and journal writes fail: a command is executed again     *)
(* only after the cooldown or enough ordinary messages; unless a test      *)
(* reply was sent, its messages to YouTube are a cooldown apart; between   *)
(* events, each executed command is in the journal or its error was        *)
(* reported; and a platform that is disabled gets at most the one reply    *)
(* that was on its way.                                                    *)
THEOREM BotIsSafe ==
    ASSUME Engine!ConstantsOK
    PROVE  Engine!Spec => []BotSafety
<1>1. Engine!Init => BotInv
  BY BotInit
<1>2. BotInv /\ [Engine!Next]_(Engine!vars) => BotInv'
  BY BotNext
<1>3. BotInv => BotSafety
  BY BotImplies DEF BotSafety
<1>4. QED
  BY <1>1, <1>2, <1>3, PTL DEF Engine!Spec

-----------------------------------------------------------------------------
(* The setup wizard.                                                       *)

\* The inductive invariant of SetupWizard.
Handling == {"prompt", "validate", "authorize", "exchange", "identify", "compare", "finish",
             "save"}
Configurations == [Wizard!Names -> Wizard!Section]

WizardShapes ==
    /\ saved \in Configurations /\ memory \in Configurations /\ before \in Configurations
    /\ account \in Wizard!Section
    /\ todo \in Seq(Services) /\ runs \in 0 .. MaxRuns
    /\ step \in Handling \cup {"idle", "begin"} /\ (step = "idle" <=> todo = <<>>)
    /\ outcome \in {"none", "done", "failed", "cancelled"}

SavedComplete == \A s \in Wizard!Names : Wizard!Complete(s, saved[s])

\* Between two saves the memory differs from the file in the section being set up, and
\* in the renewals of the token that was used to ask for the primary account.
AsSaved(s) ==
    \/ memory[s] = saved[s]
    \/ /\ Wizard!This \in Live /\ s = PrimaryOf[Wizard!This]
       /\ Wizard!OnlyRenewed(saved[s], memory[s])
OthersAsSaved ==
    /\ step \in {"idle", "begin"} => memory = saved
    /\ step \in Handling => \A s \in Wizard!Names : s # Wizard!Mine => AsSaved(s)

\* Of its section, a service changes its own part.
Alike(r) ==
    IF Wizard!This \in Keyed THEN Wizard!OnlyKey(saved[Wizard!Mine], r)
                             ELSE Wizard!NotKey(saved[Wizard!Mine], r)
OwnPart == step \in Handling => Alike(account) /\ Alike(memory[Wizard!Mine])

\* From step to step, the section comes closer to what may be saved.
GrantedTo(r) == r.token # Wizard!Nobody /\ r.granted = r.app
Named(r) == GrantedTo(r) /\ r.user = r.token
Asked == Wizard!This \notin Keyed \cup Anonymous
Differs(r) == Wizard!This \in Bot => memory[PrimaryOf[Wizard!This]].token # r.user
Progress ==
    /\ step = "prompt" => (Wizard!This \in Keyed => account = saved[Wizard!Mine])
    /\ step \in {"prompt", "authorize", "exchange"} =>
         (Wizard!This \in Anonymous => account.user = Wizard!Nobody)
    /\ step = "validate" => Wizard!This \in Keyed
    /\ step \in {"authorize", "exchange"} => Wizard!This \notin Keyed
    /\ step = "identify" => Asked /\ GrantedTo(account)
    /\ step = "compare" => Asked /\ Named(account)
    /\ step = "finish" => Asked /\ Named(account) /\ Differs(account)
    /\ step = "save" =>
         Wizard!Complete(Wizard!Mine, memory[Wizard!Mine]) /\ Differs(memory[Wizard!Mine])

WizardInv == WizardShapes /\ SavedComplete /\ OthersAsSaved /\ OwnPart /\ Progress

LEMMA WizardConstants ==
    ASSUME Wizard!ConstantsOK
    PROVE  /\ MaxApps \in Nat /\ MaxRuns \in Nat /\ Wizard!Nobody \notin Accounts
           /\ Selections \subseteq Seq(Services) \ {<<>>}
           /\ Bot \subseteq Services /\ Live \subseteq Bot /\ Anonymous \subseteq Services
           /\ Keyed \cap Anonymous = {} /\ Bot \cap (Keyed \cup Anonymous) = {}
BY DEF Wizard!ConstantsOK, Wizard!Nobody

\* Which sections services share.
LEMMA SectionsAre ==
    ASSUME Wizard!ConstantsOK
    PROVE  /\ \A s \in Services : SectionOf[s] \in Wizard!Names
           /\ \A b \in Bot : PrimaryOf[b] \in Wizard!Names
           /\ \A a, b \in Bot : PrimaryOf[a] # SectionOf[b]
           /\ \A b \in Bot, s \in Services : SectionOf[s] = SectionOf[b] => s = b
           /\ \A b \in Bot : b \in Live <=> PrimaryOf[b] \in Wizard!Unnamed
           /\ \A s \in Services \ (Keyed \cup Anonymous) : SectionOf[s] \notin Wizard!Unnamed
           /\ \A s \in Anonymous : SectionOf[s] \in Wizard!Unnamed
<1>1. /\ SectionOf \in [Services -> Wizard!Names] /\ PrimaryOf \in [Bot -> Wizard!Names]
      /\ Anonymous \subseteq Services /\ Keyed \cap Anonymous = {}
      /\ \A s, t \in Services \ Keyed : SectionOf[s] = SectionOf[t] => s = t
      /\ \A b \in Bot, s \in Services : SectionOf[s] = SectionOf[b] => s = b
      /\ \A a, b \in Bot : PrimaryOf[a] # SectionOf[b]
      /\ \A b \in Bot : b \in Live <=> PrimaryOf[b] \in Wizard!Unnamed
  BY DEF Wizard!ConstantsOK
<1>2. \A s \in Services \ (Keyed \cup Anonymous) : SectionOf[s] \notin Wizard!Unnamed
  BY <1>1 DEF Wizard!Unnamed
<1>3. \A s \in Anonymous : SectionOf[s] \in Wizard!Unnamed
  BY DEF Wizard!Unnamed
<1>4. QED
  BY <1>1, <1>2, <1>3

LEMMA UnsetIs ==
    ASSUME Wizard!ConstantsOK
    PROVE  Wizard!Unset \in Wizard!Section
<1>1. 0 \in 0 .. MaxApps
  BY WizardConstants
<1>2. QED
  BY <1>1 DEF Wizard!Unset, Wizard!Section

\* The services left, the first of them and its section.
LEMMA TodoIs ==
    ASSUME Wizard!ConstantsOK, WizardShapes, step # "idle"
    PROVE  /\ Wizard!This \in Services /\ Wizard!Mine \in Wizard!Names
           /\ Wizard!This \in Bot => PrimaryOf[Wizard!This] \in Wizard!Names \ {Wizard!Mine}
           /\ Tail(todo) \in Seq(Services)
           /\ Len(todo) > 1 => Tail(todo) # <<>>
<1>1. todo \in Seq(Services) /\ todo # <<>>
  BY DEF WizardShapes
<1>. DEFINE t == Tail(todo)
<1>2. Head(todo) \in Services /\ t \in Seq(Services) /\ Len(t) = Len(todo) - 1
  BY <1>1, HeadTailProperties
<1>3. Len(todo) \in Nat
  BY <1>1, LenProperties
<1>. HIDE DEF t
<1>4. Len(todo) > 1 => t # <<>>
  BY <1>2, <1>3
<1>5. Wizard!This \in Services
  BY <1>2 DEF Wizard!This
<1>6. QED
  BY <1>2, <1>4, <1>5, SectionsAre DEF t, Wizard!Mine

LEMMA WizardInit ==
    ASSUME Wizard!ConstantsOK, Wizard!Init
    PROVE  WizardInv
<1>1. /\ saved = [s \in Wizard!Names |-> Wizard!Unset] /\ memory = saved /\ before = saved
      /\ account = Wizard!Unset /\ todo = <<>> /\ step = "idle" /\ runs = 0 /\ outcome = "none"
  BY DEF Wizard!Init
<1>2. WizardShapes
  BY <1>1, UnsetIs, WizardConstants DEF WizardShapes, Configurations
<1>3. SavedComplete
  BY <1>1 DEF SavedComplete, Wizard!Complete, Wizard!Unset
<1>4. OthersAsSaved /\ OwnPart /\ Progress
  BY <1>1 DEF OthersAsSaved, OwnPart, Progress, Handling
<1>5. QED
  BY <1>2, <1>3, <1>4 DEF WizardInv

\* A run that ends.
LEMMA EndsKeeps ==
    ASSUME Wizard!ConstantsOK, WizardInv, NEW how \in {"failed", "cancelled"}, Wizard!Ends(how)
    PROVE  WizardInv' /\ saved' = saved
<1>1. /\ outcome' = how /\ step' = "idle" /\ todo' = <<>> /\ memory' = saved
      /\ account' = Wizard!Unset /\ UNCHANGED <<saved, runs, before>>
  BY DEF Wizard!Ends
<1>2. WizardShapes /\ SavedComplete
  BY DEF WizardInv
<1>3. WizardShapes'
  BY <1>1, <1>2, UnsetIs DEF WizardShapes
<1>4. SavedComplete'
  BY <1>1, <1>2 DEF SavedComplete
<1>5. OthersAsSaved' /\ OwnPart' /\ Progress'
  BY <1>1 DEF OthersAsSaved, OwnPart, Progress, Handling
<1>6. QED
  BY <1>1, <1>3, <1>4, <1>5 DEF WizardInv

LEMMA StaysThis ==
    ASSUME Wizard!Stays
    PROVE  /\ Wizard!This' = Wizard!This /\ Wizard!Mine' = Wizard!Mine /\ saved' = saved
           /\ UNCHANGED <<todo, runs, before, outcome>>
BY DEF Wizard!Stays, Wizard!This, Wizard!Mine

\* A step within a handler: the memory keeps the sections of the other services.
LEMMA HandlerKeeps ==
    ASSUME WizardInv, step # "idle", Wizard!Stays, step' \in Handling,
           account' \in Wizard!Section, memory' \in Configurations,
           (\A s \in Wizard!Names : s # Wizard!Mine => AsSaved(s))',
           Alike(account'), Alike(memory'[Wizard!Mine]), Progress'
    PROVE  WizardInv' /\ saved' = saved
<1>1. /\ UNCHANGED <<saved, todo, runs, before, outcome>>
      /\ Wizard!This' = Wizard!This /\ Wizard!Mine' = Wizard!Mine
  BY StaysThis
<1>2. WizardShapes /\ SavedComplete
  BY DEF WizardInv
<1>3. step' \notin {"idle", "begin"}
  BY DEF Handling
<1>4. WizardShapes'
  BY <1>1, <1>2, <1>3 DEF WizardShapes
<1>5. SavedComplete'
  BY <1>1, <1>2 DEF SavedComplete
<1>6. OthersAsSaved'
  BY <1>3 DEF OthersAsSaved
<1>7. OwnPart'
  BY <1>1 DEF OwnPart, Alike
<1>8. QED
  BY <1>1, <1>4, <1>5, <1>6, <1>7 DEF WizardInv

\* What the handler works on has changed in its own part only, and so has the section
\* in the memory.
LEMMA Working ==
    ASSUME Wizard!ConstantsOK, WizardInv, step # "idle"
    PROVE  /\ \A s \in Wizard!Names : s # Wizard!Mine => AsSaved(s)
           /\ Alike(memory[Wizard!Mine])
           /\ step \in Handling => Alike(account)
<1>. DEFINE q == saved[Wizard!Mine]
<1>1. WizardShapes /\ OthersAsSaved /\ OwnPart
  BY DEF WizardInv
<1>2. CASE step = "begin"
  <2>1. memory = saved
    BY <1>1, <1>2 DEF OthersAsSaved
  <2>2. q \in Wizard!Section
    BY <1>1, TodoIs DEF WizardShapes, Configurations
  <2>. HIDE DEF q
  <2>3. Wizard!OnlyKey(q, q) /\ Wizard!NotKey(q, q)
    BY <2>2 DEF Wizard!OnlyKey, Wizard!NotKey, Wizard!Section
  <2>4. Alike(memory[Wizard!Mine])
    BY <2>1, <2>3 DEF Alike, q
  <2>5. QED
    BY <1>2, <2>1, <2>4 DEF AsSaved, Handling
<1>3. CASE step \in Handling
  BY <1>1, <1>3 DEF OthersAsSaved, OwnPart
<1>4. QED
  BY <1>1, <1>2, <1>3 DEF WizardShapes

\* A step that stores the section it works on, or does not yet.
LEMMA StepKeeps ==
    ASSUME Wizard!ConstantsOK, WizardInv, step # "idle", Wizard!Stays, step' \in Handling,
           account' \in Wizard!Section, Alike(account'),
           memory' = memory \/ memory' = [memory EXCEPT ![Wizard!Mine] = account'],
           Progress'
    PROVE  WizardInv' /\ saved' = saved
<1>1. /\ saved' = saved /\ Wizard!This' = Wizard!This /\ Wizard!Mine' = Wizard!Mine
  BY StaysThis
<1>2. memory \in Configurations /\ Wizard!Mine \in Wizard!Names
  BY TodoIs DEF WizardInv, WizardShapes
<1>. DEFINE m == Wizard!Mine
<1>. HIDE DEF m
<1>3. /\ memory' \in Configurations
      /\ \A s \in Wizard!Names : s # m => memory'[s] = memory[s]
      /\ memory'[m] = memory[m] \/ memory'[m] = account'
  BY <1>2 DEF Configurations, m
<1>4. (\A s \in Wizard!Names : s # Wizard!Mine => AsSaved(s))'
  BY <1>1, <1>3, Working DEF AsSaved, m
<1>5. Alike(memory'[Wizard!Mine])
  BY <1>3, Working DEF m
<1>6. QED
  BY <1>3, <1>4, <1>5, HandlerKeeps

\* Edit changes a primary section in place.
LEMMA EditIs ==
    ASSUME NEW r, Wizard!Edit(r)
    PROVE  /\ account' = r
           /\ memory' = memory \/ memory' = [memory EXCEPT ![Wizard!Mine] = account']
           /\ Wizard!This \notin Bot => memory' = [memory EXCEPT ![Wizard!Mine] = r]
           /\ Wizard!This \in Bot => memory' = memory
BY DEF Wizard!Edit

\* What has been stored is in the memory.
LEMMA Stored ==
    ASSUME Wizard!ConstantsOK, WizardInv, step # "idle",
           memory' = [memory EXCEPT ![Wizard!Mine] = account']
    PROVE  memory'[Wizard!Mine] = account'
BY TodoIs DEF WizardInv, WizardShapes, Configurations

LEMMA StartKeeps ==
    ASSUME Wizard!ConstantsOK, WizardInv, Wizard!Start
    PROVE  WizardInv' /\ saved' = saved
<1>1. /\ runs < MaxRuns /\ todo' \in Selections /\ runs' = runs + 1 /\ before' = saved
      /\ memory' = saved /\ step' = "begin" /\ outcome' = "none" /\ UNCHANGED <<saved, account>>
  BY DEF Wizard!Start, Wizard!Goto
<1>2. WizardShapes /\ SavedComplete
  BY DEF WizardInv
<1>3. todo' \in Seq(Services) /\ todo' # <<>> /\ runs' \in 0 .. MaxRuns
  BY <1>1, <1>2, WizardConstants DEF WizardShapes
<1>4. WizardShapes'
  BY <1>1, <1>2, <1>3 DEF WizardShapes
<1>5. SavedComplete'
  BY <1>1, <1>2 DEF SavedComplete
<1>6. OthersAsSaved' /\ OwnPart' /\ Progress'
  BY <1>1 DEF OthersAsSaved, OwnPart, Progress, Handling
<1>7. QED
  BY <1>1, <1>4, <1>5, <1>6 DEF WizardInv

LEMMA BeginKeeps ==
    ASSUME Wizard!ConstantsOK, WizardInv, Wizard!Begin
    PROVE  WizardInv' /\ saved' = saved
<1>. DEFINE t == Wizard!This
            m == Wizard!Mine
            app == memory[PrimaryOf[t]].app
            r == [memory[m] EXCEPT !.app = app]
<1>1. /\ step = "begin" /\ step' = "prompt" /\ memory' = memory /\ Wizard!Stays
      /\ account' = IF t \in Bot /\ memory[m].app = 0 THEN r ELSE memory[m]
  BY DEF Wizard!Begin, Wizard!Goto
<1>2. WizardShapes /\ SavedComplete /\ memory = saved
  BY <1>1 DEF WizardInv, OthersAsSaved
<1>3. m \in Wizard!Names /\ t \in Services /\ (t \in Bot => PrimaryOf[t] \in Wizard!Names)
  BY <1>1, <1>2, TodoIs
<1>4. Alike(memory[m]) /\ (t \in Anonymous => m \in Wizard!Unnamed)
  BY <1>1, Working, SectionsAre DEF Wizard!Mine
<1>. HIDE DEF t, m
<1>5. memory[m] \in Wizard!Section /\ (t \in Bot => app \in 0 .. MaxApps)
  BY <1>2, <1>3 DEF WizardShapes, Configurations, Wizard!Section
<1>. HIDE DEF app
<1>6. t \in Bot => r \in Wizard!Section /\ r.key = memory[m].key /\ r.tried = memory[m].tried
  BY <1>5 DEF Wizard!Section
<1>. HIDE DEF r
<1>7. t \in Bot => t \notin Keyed /\ t \notin Anonymous
  BY WizardConstants
<1>8. account' \in Wizard!Section /\ Alike(account')
  BY <1>1, <1>4, <1>5, <1>6, <1>7 DEF Alike, Wizard!NotKey, t, m
<1>9. Wizard!Complete(m, memory[m])
  BY <1>2, <1>3 DEF SavedComplete
<1>10. m \in Wizard!Unnamed => memory[m].user = Wizard!Nobody
  BY <1>9 DEF Wizard!Complete
<1>11. Wizard!This' = t /\ Wizard!Mine' = m /\ saved' = saved
  BY <1>1, StaysThis DEF t, m
<1>12. t \in Keyed => account' = saved[m]
  BY <1>1, <1>2, <1>7
<1>13. t \in Anonymous => account'.user = Wizard!Nobody
  BY <1>1, <1>4, <1>7, <1>10
<1>14. Progress'
  BY <1>1, <1>11, <1>12, <1>13 DEF Progress
<1>15. step # "idle" /\ step' \in Handling
  BY <1>1 DEF Handling
<1>16. QED
  BY <1>1, <1>8, <1>14, <1>15, StepKeeps

\* The key that is kept has been tried; another one is to be tried.
LEMMA PromptKeyKeeps ==
    ASSUME Wizard!ConstantsOK, WizardInv, step = "prompt", Wizard!PromptKey
    PROVE  WizardInv' /\ saved' = saved
<1>. DEFINE t == Wizard!This
            m == Wizard!Mine
<1>1. t \in Keyed /\ Wizard!Stays
  BY DEF Wizard!PromptKey
<1>2. WizardShapes /\ SavedComplete /\ account \in Wizard!Section /\ account = saved[m]
  BY <1>1 DEF WizardInv, WizardShapes, Progress
<1>3. t \notin Bot /\ t \notin Anonymous /\ m \in Wizard!Names
  BY <1>1, <1>2, WizardConstants, TodoIs
<1>4. Wizard!This' = t /\ Wizard!Mine' = m /\ saved' = saved
  BY <1>1, StaysThis
<1>5. Alike(account) /\ step # "idle"
  BY Working DEF Handling
<1>6. CASE Wizard!Edit(account) /\ Wizard!Goto("save")
  <2>1. /\ account' = account /\ memory' = [memory EXCEPT ![m] = account'] /\ step' = "save"
    BY <1>3, <1>6, EditIs DEF Wizard!Goto
  <2>2. memory'[m] = account
    BY <1>5, <2>1, Stored
  <2>. HIDE DEF t, m
  <2>3. Wizard!Complete(m, memory'[m])
    BY <1>2, <1>3, <2>2 DEF SavedComplete
  <2>4. Progress'
    BY <1>3, <1>4, <2>1, <2>3 DEF Progress, Differs
  <2>5. step' \in Handling
    BY <2>1 DEF Handling
  <2>6. QED
    BY <1>1, <1>2, <1>5, <2>1, <2>4, <2>5, StepKeeps DEF m
<1>7. ASSUME NEW k \in 1 .. MaxApps, Wizard!Edit([account EXCEPT !.key = k]),
             Wizard!Goto("validate")
      PROVE  WizardInv' /\ saved' = saved
  <2>1. account' = [account EXCEPT !.key = k] /\ step' = "validate"
    BY <1>7 DEF Wizard!Goto, Wizard!Edit
  <2>2. k \in 0 .. MaxApps
    BY <1>7, WizardConstants
  <2>3. account' \in Wizard!Section
    BY <1>2, <2>1, <2>2 DEF Wizard!Section
  <2>4. account' = [account EXCEPT !.key = account'.key, !.tried = account'.tried]
    BY <1>2, <2>1 DEF Wizard!Section
  <2>5. Alike(account')
    BY <1>1, <1>2, <2>4 DEF Alike, Wizard!OnlyKey
  <2>6. Progress'
    BY <1>1, <1>4, <2>1 DEF Progress
  <2>7. step' \in Handling
    BY <2>1 DEF Handling
  <2>8. QED
    BY <1>1, <1>5, <1>7, <2>3, <2>5, <2>6, <2>7, EditIs, StepKeeps
<1>8. QED
  BY <1>6, <1>7 DEF Wizard!PromptKey

LEMMA PromptAppKeeps ==
    ASSUME Wizard!ConstantsOK, WizardInv, step = "prompt", Wizard!PromptApp
    PROVE  WizardInv' /\ saved' = saved
<1>. DEFINE t == Wizard!This
<1>1. t \notin Keyed /\ Wizard!Stays /\ step' = "authorize"
  BY DEF Wizard!PromptApp, Wizard!Goto
<1>2. /\ account \in Wizard!Section /\ Alike(account) /\ step # "idle"
      /\ t \in Anonymous => account.user = Wizard!Nobody
  BY Working DEF WizardInv, WizardShapes, Progress, Handling
<1>3. ASSUME NEW r \in Wizard!Section, Alike(r), Wizard!Edit(r), r.user = account.user
      PROVE  WizardInv' /\ saved' = saved
  <2>1. account' = r /\ Wizard!This' = t
    BY <1>1, <1>3, EditIs, StaysThis
  <2>2. Progress'
    BY <1>1, <1>2, <1>3, <2>1 DEF Progress
  <2>3. step' \in Handling
    BY <1>1 DEF Handling
  <2>4. QED
    BY <1>1, <1>2, <1>3, <2>1, <2>2, <2>3, EditIs, StepKeeps
<1>4. ASSUME NEW a \in 1 .. MaxApps
      PROVE  /\ [account EXCEPT !.app = a] \in Wizard!Section
             /\ Alike([account EXCEPT !.app = a])
             /\ [account EXCEPT !.app = a].user = account.user
  <2>. DEFINE r == [account EXCEPT !.app = a]
  <2>1. a \in 0 .. MaxApps
    BY WizardConstants
  <2>2. /\ r \in Wizard!Section /\ r.user = account.user
        /\ r.key = account.key /\ r.tried = account.tried
    BY <1>2, <2>1 DEF Wizard!Section
  <2>. HIDE DEF r
  <2>3. Alike(r)
    BY <1>1, <1>2, <2>2 DEF Alike, Wizard!NotKey
  <2>4. QED
    BY <2>2, <2>3 DEF r
<1>5. QED
  BY <1>2, <1>3, <1>4 DEF Wizard!PromptApp

LEMMA PromptKeeps ==
    ASSUME Wizard!ConstantsOK, WizardInv, Wizard!Prompt
    PROVE  WizardInv' /\ saved' = saved
BY EndsKeeps, PromptKeyKeeps, PromptAppKeeps DEF Wizard!Fails, Wizard!Prompt

\* A key that differs from what is saved in nothing else, and was tried.
LEMMA KeyIsComplete ==
    ASSUME NEW n, NEW q \in Wizard!Section, NEW r \in Wizard!Section,
           Wizard!Complete(n, q), Wizard!OnlyKey(q, r), r.key = r.tried
    PROVE  Wizard!Complete(n, r)
<1>. DEFINE k == r.key
            d == r.tried
<1>1. r = [q EXCEPT !.key = k, !.tried = d]
  BY DEF Wizard!OnlyKey
<1>. HIDE DEF k, d
<1>2. /\ r.app = q.app /\ r.granted = q.granted /\ r.token = q.token /\ r.user = q.user
      /\ r.ready = q.ready
  BY <1>1 DEF Wizard!Section
<1>3. QED
  BY <1>2 DEF Wizard!Complete

LEMMA ValidateKeeps ==
    ASSUME Wizard!ConstantsOK, WizardInv, Wizard!Validate
    PROVE  WizardInv' /\ saved' = saved
<1>1. CASE Wizard!Fails
  BY <1>1, EndsKeeps DEF Wizard!Fails
<1>2. CASE /\ step = "validate" /\ Wizard!Edit([account EXCEPT !.tried = account.key])
           /\ Wizard!Goto("save") /\ Wizard!Stays
  <2>. DEFINE t == Wizard!This
              m == Wizard!Mine
              q == saved[m]
              k == account.key
  <2>1. WizardShapes /\ SavedComplete /\ account \in Wizard!Section /\ t \in Keyed
    BY <1>2 DEF WizardInv, WizardShapes, Progress
  <2>2. t \notin Bot /\ m \in Wizard!Names /\ step # "idle"
    BY <1>2, <2>1, WizardConstants, TodoIs
  <2>3. Wizard!This' = t /\ Wizard!Mine' = m
    BY <1>2, StaysThis
  <2>4. /\ account' = [account EXCEPT !.tried = k] /\ step' = "save" /\ step' \in Handling
        /\ memory' = [memory EXCEPT ![m] = account']
    BY <1>2, <2>2, EditIs DEF Wizard!Goto, Handling
  <2>5. memory'[m] = account'
    BY <2>2, <2>4, Stored
  <2>6. Wizard!OnlyKey(q, account)
    BY <1>2, <2>1, Working DEF Alike, Handling
  <2>7. q \in Wizard!Section /\ Wizard!Complete(m, q)
    BY <2>1, <2>2 DEF WizardShapes, Configurations, SavedComplete
  <2>. HIDE DEF q, m, t
  <2>8. k \in 0 .. MaxApps
    BY <2>1 DEF Wizard!Section
  <2>9. account' \in Wizard!Section /\ account'.key = account'.tried
    BY <2>1, <2>4, <2>8 DEF Wizard!Section
  <2>10. account' = [q EXCEPT !.key = account'.key, !.tried = account'.tried]
    <3>. DEFINE d == account.tried
    <3>1. account = [q EXCEPT !.key = k, !.tried = d]
      BY <2>6 DEF Wizard!OnlyKey
    <3>2. account'.key = k /\ account'.tried = k
      BY <2>1, <2>4 DEF Wizard!Section
    <3>. HIDE DEF k, d
    <3>3. account' = [q EXCEPT !.key = k, !.tried = k]
      BY <2>4, <2>7, <3>1 DEF Wizard!Section
    <3>4. QED
      BY <3>2, <3>3
  <2>11. Wizard!OnlyKey(q, account')
    BY <2>10 DEF Wizard!OnlyKey
  <2>12. Wizard!Complete(m, account')
    BY <2>7, <2>9, <2>11, KeyIsComplete
  <2>13. Alike(account')
    BY <2>1, <2>11 DEF Alike, q, m, t
  <2>14. Progress'
    BY <2>2, <2>3, <2>4, <2>5, <2>12 DEF Progress, Differs
  <2>15. QED
    BY <1>2, <2>2, <2>4, <2>9, <2>13, <2>14, StepKeeps DEF m
<1>3. QED
  BY <1>1, <1>2 DEF Wizard!Validate

LEMMA AuthorizeKeeps ==
    ASSUME Wizard!ConstantsOK, WizardInv, Wizard!Authorize
    PROVE  WizardInv' /\ saved' = saved
<1>1. CASE Wizard!Fails \/ Wizard!Ends("cancelled")
  BY <1>1, EndsKeeps DEF Wizard!Fails
<1>2. CASE /\ step = "authorize" /\ Wizard!Goto("exchange") /\ UNCHANGED <<account, memory>>
           /\ Wizard!Stays
  <2>1. step # "idle" /\ step' = "exchange" /\ step' \in Handling
    BY <1>2 DEF Wizard!Goto, Handling
  <2>2. Wizard!This' = Wizard!This
    BY <1>2, StaysThis
  <2>3. Progress'
    BY <1>2, <2>1, <2>2 DEF WizardInv, Progress
  <2>4. account' \in Wizard!Section /\ Alike(account')
    BY <1>2, Working DEF WizardInv, WizardShapes, Handling
  <2>5. QED
    BY <1>2, <2>1, <2>3, <2>4, StepKeeps
<1>3. QED
  BY <1>1, <1>2 DEF Wizard!Authorize

\* The section with a new token.
LEMMA GrantedIs ==
    ASSUME Wizard!ConstantsOK, WizardInv, NEW who \in Accounts, step = "exchange",
           account' = Wizard!Granted(who)
    PROVE  /\ account' \in Wizard!Section /\ Alike(account') /\ GrantedTo(account')
           /\ account'.key = account'.tried /\ account'.user = account.user
           /\ Wizard!This \in Anonymous => account'.ready
<1>. DEFINE b == Wizard!This \in Anonymous
            a == account.app
<1>1. /\ WizardShapes /\ SavedComplete /\ account \in Wizard!Section
      /\ Wizard!This \notin Keyed /\ step # "idle"
  BY DEF WizardInv, WizardShapes, Progress
<1>2. Wizard!NotKey(saved[Wizard!Mine], account)
  BY <1>1, Working DEF Alike, Handling
<1>3. saved[Wizard!Mine].key = saved[Wizard!Mine].tried
  BY <1>1, TodoIs DEF SavedComplete, Wizard!Complete
<1>4. a \in 0 .. MaxApps /\ b \in BOOLEAN /\ 0 \in Nat
  BY <1>1 DEF Wizard!Section
<1>5. account' = [account EXCEPT !.token = who, !.granted = a, !.renewed = 0, !.ready = b]
  BY DEF Wizard!Granted
<1>. HIDE DEF b
<1>6. /\ account'.key = account.key /\ account'.tried = account.tried /\ account'.app = a
      /\ account'.token = who /\ account'.granted = a /\ account'.user = account.user
      /\ account'.ready = b
  BY <1>1, <1>5 DEF Wizard!Section
<1>. HIDE DEF a
<1>7. account' \in Wizard!Section
  BY <1>1, <1>4, <1>5 DEF Wizard!Section
<1>8. Alike(account')
  BY <1>1, <1>2, <1>6 DEF Alike, Wizard!NotKey
<1>9. GrantedTo(account')
  BY <1>6, WizardConstants DEF GrantedTo
<1>10. account'.key = account'.tried
  BY <1>2, <1>3, <1>6 DEF Wizard!NotKey
<1>11. QED
  BY <1>6, <1>7, <1>8, <1>9, <1>10 DEF b

\* The server's account is complete with its token.
LEMMA ServerKeeps ==
    ASSUME Wizard!ConstantsOK, WizardInv, step = "exchange", Wizard!This \in Anonymous,
           NEW who \in Accounts, Wizard!Edit(Wizard!Granted(who)), Wizard!Goto("save"),
           Wizard!Stays
    PROVE  WizardInv' /\ saved' = saved
<1>. DEFINE t == Wizard!This
            m == Wizard!Mine
<1>1. step # "idle" /\ step' = "save" /\ step' \in Handling
  BY DEF Wizard!Goto, Handling
<1>2. t \notin Bot /\ t \in Services
  BY <1>1, WizardConstants
<1>3. account' = Wizard!Granted(who) /\ memory' = [memory EXCEPT ![m] = account']
  BY <1>2, EditIs
<1>4. /\ account' \in Wizard!Section /\ Alike(account') /\ GrantedTo(account')
      /\ account'.key = account'.tried /\ account'.user = account.user /\ account'.ready
  BY <1>3, GrantedIs
<1>5. account.user = Wizard!Nobody
  BY DEF WizardInv, Progress
<1>6. m \in Wizard!Unnamed
  BY <1>2, SectionsAre DEF Wizard!Mine
<1>7. Wizard!Complete(m, account')
  BY <1>4, <1>5, <1>6 DEF Wizard!Complete, GrantedTo
<1>8. memory'[m] = account' /\ Wizard!This' = t /\ Wizard!Mine' = m
  BY <1>1, <1>3, Stored, StaysThis
<1>9. Progress'
  BY <1>1, <1>2, <1>7, <1>8 DEF Progress, Differs
<1>10. QED
  BY <1>1, <1>3, <1>4, <1>9, StepKeeps

LEMMA ExchangeKeeps ==
    ASSUME Wizard!ConstantsOK, WizardInv, Wizard!Exchange
    PROVE  WizardInv' /\ saved' = saved
<1>1. CASE Wizard!Fails
  BY <1>1, EndsKeeps DEF Wizard!Fails
<1>2. ASSUME NEW who \in Accounts, step = "exchange", Wizard!This \notin Anonymous,
             Wizard!Goto("identify"), Wizard!Stays, memory' = memory,
             account' = Wizard!Granted(who)
      PROVE  WizardInv' /\ saved' = saved
  <2>1. account' \in Wizard!Section /\ Alike(account') /\ GrantedTo(account')
    BY <1>2, GrantedIs
  <2>2. step # "idle" /\ step' = "identify" /\ step' \in Handling
    BY <1>2 DEF Wizard!Goto, Handling
  <2>3. Wizard!This' = Wizard!This /\ Wizard!This \notin Keyed
    BY <1>2, StaysThis DEF WizardInv, Progress
  <2>4. Progress'
    BY <1>2, <2>1, <2>2, <2>3 DEF Progress, Asked, GrantedTo
  <2>5. QED
    BY <1>2, <2>1, <2>2, <2>4, StepKeeps
<1>3. QED
  BY <1>1, <1>2, ServerKeeps DEF Wizard!Exchange

LEMMA IdentifyKeeps ==
    ASSUME Wizard!ConstantsOK, WizardInv, Wizard!Identify
    PROVE  WizardInv' /\ saved' = saved
<1>1. CASE Wizard!Fails
  BY <1>1, EndsKeeps DEF Wizard!Fails
<1>2. CASE /\ step = "identify" /\ Wizard!Goto("compare") /\ Wizard!Stays /\ memory' = memory
           /\ account' = [account EXCEPT !.user = account.token]
  <2>. DEFINE u == account.token
  <2>1. account \in Wizard!Section /\ GrantedTo(account) /\ Asked /\ Alike(account)
    BY <1>2, Working DEF WizardInv, WizardShapes, Progress, Handling
  <2>2. u \in Accounts \cup {Wizard!Nobody} /\ account' = [account EXCEPT !.user = u]
    BY <1>2, <2>1 DEF Wizard!Section
  <2>3. /\ account'.token = u /\ account'.granted = account.granted
        /\ account'.app = account.app /\ account'.user = u
        /\ account'.key = account.key /\ account'.tried = account.tried
    BY <2>1, <2>2 DEF Wizard!Section
  <2>. HIDE DEF u
  <2>4. account' \in Wizard!Section
    BY <2>1, <2>2 DEF Wizard!Section
  <2>5. Alike(account')
    BY <2>1, <2>3 DEF Alike, Asked, Wizard!NotKey
  <2>6. step # "idle" /\ step' = "compare" /\ step' \in Handling /\ Asked'
    BY <1>2, <2>1, StaysThis DEF Wizard!Goto, Handling, Asked
  <2>7. Named(account')
    BY <2>1, <2>3 DEF Named, GrantedTo, u
  <2>8. Progress'
    BY <2>6, <2>7 DEF Progress, Named, GrantedTo
  <2>9. QED
    BY <1>2, <2>4, <2>5, <2>6, <2>8, StepKeeps
<1>3. QED
  BY <1>1, <1>2 DEF Wizard!Identify

\* An account that is compared with the primary one is not that one.
LEMMA ComparedDiffers ==
    ASSUME Wizard!ConstantsOK, WizardInv, step = "compare", ~Wizard!SameAsPrimary
    PROVE  Differs(account)
<1>. DEFINE t == Wizard!This
            p == PrimaryOf[t]
<1>1. SUFFICES ASSUME t \in Bot PROVE memory[p].token # account.user
  BY DEF Differs
<1>2. /\ WizardShapes /\ SavedComplete /\ step # "idle"
      /\ account.user # Wizard!Nobody
  BY DEF WizardInv, Progress, Named, GrantedTo
<1>3. p \in Wizard!Names /\ p # Wizard!Mine /\ (t \in Live <=> p \in Wizard!Unnamed)
  BY <1>1, <1>2, TodoIs, SectionsAre
<1>4. AsSaved(p) /\ Wizard!Complete(p, saved[p]) /\ saved[p] \in Wizard!Section
  BY <1>2, <1>3, Working DEF SavedComplete, WizardShapes, Configurations
<1>5. CASE t \in Live
  BY <1>1, <1>2, <1>5 DEF Wizard!SameAsPrimary
<1>6. CASE t \notin Live
  <2>1. memory[p] = saved[p] /\ memory[p].user = memory[p].token
    BY <1>3, <1>4, <1>6 DEF AsSaved, Wizard!Complete
  <2>2. QED
    BY <1>1, <1>2, <1>6, <2>1 DEF Wizard!SameAsPrimary
<1>7. QED
  BY <1>5, <1>6

\* Asking for the primary account renews its token.
LEMMA RenewsKeeps ==
    ASSUME Wizard!ConstantsOK, WizardInv, step = "compare", ~Wizard!SameAsPrimary,
           Wizard!Renews, Wizard!Goto("finish"), Wizard!Stays
    PROVE  WizardInv' /\ saved' = saved
<1>. DEFINE t == Wizard!This
            p == PrimaryOf[t]
            n == memory[p].renewed + 1
<1>1. t \in Live /\ t \in Bot /\ account' = account
      /\ memory' = [memory EXCEPT ![p].renewed = @ + 1]
  BY WizardConstants DEF Wizard!Renews, Wizard!AsksPrimary
<1>2. /\ WizardShapes /\ account \in Wizard!Section /\ Named(account) /\ Asked
      /\ Alike(account) /\ Alike(memory[Wizard!Mine]) /\ Differs(account)
      /\ \A s \in Wizard!Names : s # Wizard!Mine => AsSaved(s)
  BY Working, ComparedDiffers DEF WizardInv, WizardShapes, Progress, Handling
<1>3. step # "idle" /\ step' = "finish" /\ step' \in Handling
  BY DEF Wizard!Goto, Handling
<1>4. p \in Wizard!Names /\ p # Wizard!Mine /\ Wizard!Mine \in Wizard!Names
  BY <1>1, <1>2, <1>3, TodoIs
<1>5. saved' = saved /\ Wizard!This' = t /\ Wizard!Mine' = Wizard!Mine
  BY StaysThis
<1>6. memory[p] \in Wizard!Section /\ saved[p] \in Wizard!Section /\ AsSaved(p)
  BY <1>2, <1>4 DEF WizardShapes, Configurations
<1>7. n \in Nat /\ memory' = [memory EXCEPT ![p] = [memory[p] EXCEPT !.renewed = n]]
  BY <1>1, <1>6 DEF Wizard!Section
<1>. HIDE DEF p, n
<1>8. /\ \A s \in Wizard!Names : s # p => memory'[s] = memory[s]
      /\ memory'[p] = [memory[p] EXCEPT !.renewed = n]
      /\ [memory[p] EXCEPT !.renewed = n] \in Wizard!Section
      /\ memory' \in Configurations
  <2>1. [memory[p] EXCEPT !.renewed = n] \in Wizard!Section
    BY <1>6, <1>7 DEF Wizard!Section
  <2>. DEFINE r == [memory[p] EXCEPT !.renewed = n]
  <2>2. r \in Wizard!Section /\ memory' = [memory EXCEPT ![p] = r]
    BY <1>7, <2>1
  <2>. HIDE DEF r
  <2>3. memory' \in Configurations /\ memory'[p] = r
        /\ \A s \in Wizard!Names : s # p => memory'[s] = memory[s]
    BY <1>2, <1>4, <2>2 DEF WizardShapes, Configurations
  <2>4. QED
    BY <2>1, <2>3 DEF r
<1>9. Wizard!OnlyRenewed(saved[p], memory'[p])
  <2>. DEFINE k == memory[p].renewed
  <2>1. memory[p] \in {saved[p], [saved[p] EXCEPT !.renewed = k]}
    BY <1>6 DEF AsSaved, Wizard!OnlyRenewed, Wizard!Section
  <2>. HIDE DEF k
  <2>2. memory'[p] = [saved[p] EXCEPT !.renewed = n]
    BY <1>6, <1>8, <2>1 DEF Wizard!Section
  <2>3. memory'[p].renewed = n
    BY <1>6, <2>2 DEF Wizard!Section
  <2>4. QED
    BY <2>2, <2>3 DEF Wizard!OnlyRenewed
<1>10. (\A s \in Wizard!Names : s # Wizard!Mine => AsSaved(s))'
  BY <1>1, <1>2, <1>5, <1>8, <1>9 DEF AsSaved, p
<1>11. Alike(memory'[Wizard!Mine]) /\ Alike(account')
  BY <1>1, <1>2, <1>4, <1>8
<1>12. memory'[p].token = memory[p].token
  BY <1>6, <1>8 DEF Wizard!Section
<1>13. Differs(account)' /\ Asked' /\ Named(account)'
  BY <1>1, <1>2, <1>5, <1>12 DEF Differs, Asked, Named, GrantedTo, p
<1>14. Progress'
  BY <1>3, <1>13 DEF Progress
<1>15. QED
  BY <1>1, <1>2, <1>3, <1>8, <1>10, <1>11, <1>14, HandlerKeeps

LEMMA CompareKeeps ==
    ASSUME Wizard!ConstantsOK, WizardInv, Wizard!Compare
    PROVE  WizardInv' /\ saved' = saved
<1>1. CASE Wizard!Fails
  BY <1>1, EndsKeeps DEF Wizard!Fails
<1>2. CASE /\ step = "compare" /\ ~Wizard!SameAsPrimary /\ Wizard!Edit(account)
           /\ Wizard!Goto("finish") /\ Wizard!Stays
  <2>1. /\ WizardShapes /\ account \in Wizard!Section /\ Named(account) /\ Asked
        /\ Alike(account) /\ Differs(account)
    BY <1>2, Working, ComparedDiffers DEF WizardInv, WizardShapes, Progress, Handling
  <2>2. /\ step # "idle" /\ step' = "finish" /\ step' \in Handling /\ account' = account
        /\ Wizard!This' = Wizard!This
    BY <1>2, EditIs, StaysThis DEF Wizard!Goto, Handling
  <2>3. Wizard!This \in Bot => memory' = memory
    BY <1>2, EditIs
  <2>4. Progress'
    BY <2>1, <2>2, <2>3 DEF Progress, Asked, Differs, Named, GrantedTo
  <2>5. QED
    BY <1>2, <2>1, <2>2, <2>4, EditIs, StepKeeps
<1>3. QED
  BY <1>1, <1>2, RenewsKeeps DEF Wizard!Compare

LEMMA FinishKeeps ==
    ASSUME Wizard!ConstantsOK, WizardInv, Wizard!Finish
    PROVE  WizardInv' /\ saved' = saved
<1>1. CASE Wizard!Fails \/ Wizard!Ends("cancelled")
  BY <1>1, EndsKeeps DEF Wizard!Fails
<1>2. CASE /\ step = "finish" /\ account' = [account EXCEPT !.ready = TRUE]
           /\ memory' = [memory EXCEPT ![Wizard!Mine] = account']
           /\ Wizard!Goto("save") /\ Wizard!Stays
  <2>. DEFINE t == Wizard!This
              m == Wizard!Mine
              p == PrimaryOf[t]
  <2>1. /\ WizardShapes /\ SavedComplete /\ Named(account) /\ Differs(account) /\ Asked
        /\ account \in Wizard!Section /\ Alike(account)
    BY <1>2, Working DEF WizardInv, WizardShapes, Progress, Handling
  <2>2. step # "idle" /\ step' = "save" /\ step' \in Handling
    BY <1>2 DEF Wizard!Goto, Handling
  <2>3. /\ t \in Services \ (Keyed \cup Anonymous) /\ m \in Wizard!Names
        /\ memory \in Configurations /\ Wizard!This' = t /\ Wizard!Mine' = m
        /\ t \in Bot => p \in Wizard!Names \ {m}
    BY <1>2, <2>1, <2>2, TodoIs, StaysThis DEF Asked, WizardShapes
  <2>4. m \notin Wizard!Unnamed
    BY <2>3, SectionsAre DEF Wizard!Mine
  <2>5. account' \in Wizard!Section /\ account'.ready
    BY <1>2, <2>1 DEF Wizard!Section
  <2>6. /\ account'.token = account.token /\ account'.granted = account.granted
        /\ account'.app = account.app /\ account'.user = account.user
        /\ account'.key = account.key /\ account'.tried = account.tried
    BY <1>2, <2>1 DEF Wizard!Section
  <2>7. Wizard!NotKey(saved[m], account) /\ saved[m].key = saved[m].tried
    BY <2>1, <2>3 DEF Alike, Asked, SavedComplete, Wizard!Complete
  <2>8. account'.key = account'.tried /\ Alike(account')
    BY <2>1, <2>6, <2>7 DEF Alike, Asked, Wizard!NotKey
  <2>9. Wizard!Complete(m, account')
    BY <2>1, <2>4, <2>5, <2>6, <2>8 DEF Wizard!Complete, Named, GrantedTo
  <2>10. memory'[m] = account'
    BY <1>2, <2>2, Stored
  <2>11. t \in Bot => memory'[p] = memory[p]
    <3>. HIDE DEF p
    <3>1. QED
      BY <1>2, <2>3 DEF Configurations
  <2>12. Differs(memory[m])'
    BY <2>1, <2>3, <2>6, <2>10, <2>11 DEF Differs
  <2>13. Progress'
    BY <2>2, <2>3, <2>9, <2>10, <2>12 DEF Progress
  <2>14. QED
    BY <1>2, <2>2, <2>5, <2>8, <2>13, StepKeeps
<1>3. QED
  BY <1>1, <1>2 DEF Wizard!Finish

\* The one step that changes the file.
OwnSection ==
    \A s \in Wizard!Names : saved'[s] # saved[s] =>
        \/ s = Wizard!Mine /\ Wizard!This \in Keyed /\ Wizard!OnlyKey(saved[s], saved'[s])
        \/ s = Wizard!Mine /\ Wizard!This \notin Keyed /\ Wizard!NotKey(saved[s], saved'[s])
        \/ Wizard!This \in Live /\ s = PrimaryOf[Wizard!This]
              /\ Wizard!OnlyRenewed(saved[s], saved'[s])
BotsDiffer ==
    \A b \in Bot :
        saved'[SectionOf[b]] # saved[SectionOf[b]] =>
            saved'[SectionOf[b]].user # saved'[PrimaryOf[b]].token

LEMMA SaveKeeps ==
    ASSUME Wizard!ConstantsOK, WizardInv, Wizard!Save
    PROVE  WizardInv' /\ ((OwnSection /\ BotsDiffer) \/ saved' = saved)
<1>1. CASE Wizard!Fails
  BY <1>1, EndsKeeps DEF Wizard!Fails
<1>2. CASE /\ step = "save" /\ saved' = memory /\ account' = Wizard!Unset
           /\ UNCHANGED <<memory, runs, before>>
           /\ IF Len(todo) > 1
              THEN step' = "begin" /\ todo' = Tail(todo) /\ outcome' = outcome
              ELSE step' = "idle" /\ todo' = <<>> /\ outcome' = "done"
  <2>. DEFINE t == Wizard!This
              m == Wizard!Mine
  <2>1. WizardShapes /\ SavedComplete /\ Progress /\ step # "idle"
    BY <1>2 DEF WizardInv
  <2>2. /\ \A s \in Wizard!Names : s # m => AsSaved(s)
        /\ Alike(memory[m]) /\ Wizard!Complete(m, memory[m]) /\ Differs(memory[m])
    BY <1>2, <2>1, Working DEF Progress
  <2>3. /\ todo' \in Seq(Services) /\ step' \in {"begin", "idle"}
        /\ (step' = "idle" <=> todo' = <<>>)
        /\ outcome' \in {"none", "done", "failed", "cancelled"}
    <3>0. todo \in Seq(Services) /\ outcome \in {"none", "done", "failed", "cancelled"}
      BY <2>1 DEF WizardShapes
    <3>1. CASE Len(todo) > 1
      <4>1. step' = "begin" /\ todo' = Tail(todo) /\ outcome' = outcome
        BY <1>2, <3>1
      <4>2. Tail(todo) \in Seq(Services) /\ Tail(todo) # <<>>
        BY <2>1, <3>1, TodoIs
      <4>3. QED
        BY <3>0, <4>1, <4>2
    <3>2. CASE ~(Len(todo) > 1)
      <4>1. step' = "idle" /\ todo' = <<>> /\ outcome' = "done"
        BY <1>2, <3>2
      <4>2. <<>> \in Seq(Services)
        OBVIOUS
      <4>3. QED
        BY <4>1, <4>2
    <3>3. QED
      BY <3>1, <3>2
  <2>4. WizardShapes'
    BY <1>2, <2>1, <2>3, UnsetIs DEF WizardShapes
  <2>5. \A s \in Wizard!Names : Wizard!Complete(s, memory[s])
    <3>1. SUFFICES ASSUME NEW s \in Wizard!Names, s # m PROVE Wizard!Complete(s, memory[s])
      BY <2>2
    <3>2. Wizard!Complete(s, saved[s]) /\ saved[s] \in Wizard!Section
      BY <2>1 DEF SavedComplete, WizardShapes, Configurations
    <3>3. CASE memory[s] = saved[s]
      BY <3>2, <3>3
    <3>4. CASE Wizard!OnlyRenewed(saved[s], memory[s])
      <4>. DEFINE k == memory[s].renewed
                  q == saved[s]
                  r == memory[s]
      <4>1. r = [q EXCEPT !.renewed = k]
        BY <3>4 DEF Wizard!OnlyRenewed
      <4>. HIDE DEF k, q, r
      <4>2. /\ r.key = q.key /\ r.tried = q.tried /\ r.app = q.app /\ r.granted = q.granted
            /\ r.token = q.token /\ r.user = q.user /\ r.ready = q.ready
        BY <3>2, <4>1 DEF Wizard!Section, q
      <4>3. QED
        BY <3>2, <4>2 DEF Wizard!Complete, q, r
    <3>5. QED
      BY <2>2, <3>1, <3>3, <3>4 DEF AsSaved
  <2>6. SavedComplete'
    BY <1>2, <2>5 DEF SavedComplete
  <2>7. OthersAsSaved' /\ OwnPart' /\ Progress'
    BY <1>2, <2>3 DEF OthersAsSaved, OwnPart, Progress, Handling
  <2>8. OwnSection
    BY <1>2, <2>2 DEF OwnSection, AsSaved, Alike
  <2>9. BotsDiffer
    <3>1. SUFFICES ASSUME NEW b \in Bot, saved'[SectionOf[b]] # saved[SectionOf[b]]
                   PROVE  memory[SectionOf[b]].user # memory[PrimaryOf[b]].token
      BY <1>2 DEF BotsDiffer
    <3>2. /\ SectionOf[b] \in Wizard!Names /\ t \in Services
          /\ \A a \in Bot : PrimaryOf[a] # SectionOf[b]
      BY <2>1, SectionsAre, TodoIs, WizardConstants
    <3>3. t \in Live => t \in Bot
      BY WizardConstants
    <3>4. SectionOf[b] = m
      BY <1>2, <2>2, <3>1, <3>2, <3>3 DEF AsSaved
    <3>5. t = b
      BY <3>2, <3>4, SectionsAre DEF Wizard!Mine
    <3>6. QED
      BY <2>2, <3>1, <3>4, <3>5 DEF Differs
  <2>10. QED
    BY <2>4, <2>6, <2>7, <2>8, <2>9 DEF WizardInv
<1>3. QED
  BY <1>1, <1>2 DEF Wizard!Save, Wizard!Goto

LEMMA WizardNext ==
    ASSUME Wizard!ConstantsOK, WizardInv, [Wizard!Next]_(Wizard!vars)
    PROVE  WizardInv' /\ ((OwnSection /\ BotsDiffer) \/ saved' = saved)
<1>1. CASE UNCHANGED Wizard!vars
  <2>1. UNCHANGED <<saved, memory, account, todo, step, runs, before, outcome>>
    BY <1>1 DEF Wizard!vars
  <2>2. WizardShapes' /\ SavedComplete'
    BY <2>1 DEF WizardInv, WizardShapes, SavedComplete
  <2>3. Wizard!This' = Wizard!This /\ Wizard!Mine' = Wizard!Mine
    BY <2>1 DEF Wizard!This, Wizard!Mine
  <2>4. OthersAsSaved' /\ OwnPart' /\ Progress'
    BY <2>1, <2>3
    DEF WizardInv, OthersAsSaved, AsSaved, OwnPart, Alike, Progress, Differs, Asked
  <2>5. QED
    BY <2>1, <2>2, <2>4 DEF WizardInv
<1>2. QED
  BY <1>1, StartKeeps, BeginKeeps, PromptKeeps, ValidateKeeps, AuthorizeKeeps, ExchangeKeeps,
     IdentifyKeeps, CompareKeeps, FinishKeeps, SaveKeeps
  DEF Wizard!Next

LEMMA WizardImplies ==
    ASSUME WizardInv
    PROVE  Wizard!TypeOK /\ Wizard!SavedIsComplete
<1>1. WizardShapes /\ SavedComplete
  BY DEF WizardInv
<1>2. Wizard!TypeOK
  BY <1>1 DEF WizardShapes, Configurations, Handling, Wizard!TypeOK
<1>3. Wizard!SavedIsComplete
  BY <1>1 DEF SavedComplete, Wizard!SavedIsComplete
<1>4. QED
  BY <1>2, <1>3

(* The setup wizard, however many services, accounts, applications and runs *)
(* there are and wherever a run fails or is given up: every section it      *)
(* saves is complete, with a key that was tried and a token of the account  *)
(* and the application that the section names; a bot section is written     *)
(* only when its account is not the one whose token is in the primary       *)
(* section of the same file; and a service changes its part of its section  *)
(* only, except that a bot whose primary account is asked who it is may     *)
(* renew the token of that account.                                         *)
THEOREM WizardIsSafe ==
    ASSUME Wizard!ConstantsOK
    PROVE  Wizard!Spec => WizardSafety
<1>1. Wizard!Init => WizardInv
  BY WizardInit
<1>2. WizardInv /\ [Wizard!Next]_(Wizard!vars) => WizardInv'
  BY WizardNext
<1>3. WizardInv => Wizard!TypeOK /\ Wizard!SavedIsComplete
  BY WizardImplies
<1>4. WizardInv /\ [Wizard!Next]_(Wizard!vars) => [BotsDiffer]_saved
  BY WizardNext
<1>5. WizardInv /\ [Wizard!Next]_(Wizard!vars) => [OwnSection]_saved
  BY WizardNext
<1>6. QED
  BY <1>1, <1>2, <1>3, <1>4, <1>5, PTL
  DEF Wizard!Spec, WizardSafety, Wizard!WizardSafety, Wizard!BotIsSomebodyElse,
      Wizard!OthersUntouched, BotsDiffer, OwnSection
================================================================================
