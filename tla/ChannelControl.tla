---------------------------- MODULE ChannelControl ----------------------------
(***************************************************************************)
(* /ban, /timeout, /title, /category, chat sends and status requests of    *)
(* clientruntime.Runtime (internal/clientruntime/runtime.go), carried out  *)
(* by the provider clients of platform/kick, platform/twitch and           *)
(* platform/youtube.                                                       *)
(*                                                                         *)
(* A command is a plan of requests.  The providers differ in what they do  *)
(* when a token is refused: Kick holds one mutex for the whole operation   *)
(* and starts it again once, Twitch holds one for a request and repeats    *)
(* that request once, YouTube repeats a request without any lock.  A       *)
(* refresh takes two steps, the request and its answer, because Kick and   *)
(* Twitch accept each refresh token once.  A YouTube command of a client   *)
(* crosses the relay: an answer lost there is an answer lost.              *)
(***************************************************************************)
EXTENDS Integers, Sequences, FiniteSets

CONSTANTS
    Callers,        \* the terminal, HTTP handlers, the bot
    PlatformsOf,    \* caller -> the platforms it gives commands for
    Available,      \* targets that were configured when the runtime started
    Refreshable,    \* platforms with a refresh token
    Ops,
    Titles,
    Durations,      \* [amount, unit] as typed after /timeout
    Directory,      \* what a search may answer: sets of [id, exact]
    MaxCommands,    \* bound on commands of a caller
    MaxFaults       \* bound on revoked tokens, expiries and lost answers

Platforms == {"kick", "twitch", "youtube"}
Nobody == "nobody"
Self == "self"      \* the broadcaster or the authenticated moderator
NoSnippet == [title |-> "", category |-> ""]
Units == {"s", "m", "h", "d"}

ConstantsOK ==
    /\ PlatformsOf \in [Callers -> SUBSET (Platforms \cup {"other"})]
    /\ Nobody \notin Callers
    /\ Available \cup Refreshable \subseteq Platforms
    /\ Ops \subseteq {"ban", "timeout", "title", "category", "send", "status"}
    /\ \A d \in Durations : d.amount \in Int /\ d.unit \in Units
    /\ \A found \in Directory :
         IsFiniteSet(found) /\ \A e \in found : e.exact \in BOOLEAN
    /\ {MaxCommands, MaxFaults} \subseteq Nat

VARIABLES
    cmd,        \* per caller: the command under way or the last one
    token,      \* per platform: what the client and the provider know
    holder,     \* who holds kickTarget.mu and twitch.UserClient.mu
    twitch,     \* scope: it may manage; owner: the channel is its own
    channel,    \* per platform: title and category at the provider
    writes,     \* per caller: what the command did at the provider
    hist        \* commands per caller, faults

vars == <<cmd, token, holder, twitch, channel, writes, hist>>

NoDuration == [amount |-> 0, unit |-> "s"]
NoCommand == [pc |-> "idle", op |-> "status", platform |-> "kick", title |-> "",
              length |-> NoDuration, todo |-> <<>>, target |-> "", found |-> {},
              again |-> FALSE, snippet |-> NoSnippet, presented |-> 0, result |-> "ok"]

Init ==
    /\ cmd = [c \in Callers |-> NoCommand]
    /\ token = [p \in Platforms |->
                  [state |-> "good", mine |-> 0, grant |-> 0, lost |-> FALSE]]
    /\ holder = [p \in {"kick", "twitch"} |-> Nobody]
    /\ twitch \in [scope : BOOLEAN, owner : BOOLEAN]
    /\ channel = [p \in Platforms |-> [title |-> "old", category |-> "old"]]
    /\ writes = [c \in Callers |-> <<>>]
    /\ hist = [commands |-> [c \in Callers |-> 0], faults |-> 0]

Faulty == hist.faults < MaxFaults /\ hist' = [hist EXCEPT !.faults = @ + 1]

(******************************* durations *********************************)

UnitSeconds == [s |-> 1, m |-> 60, h |-> 3600, d |-> 86400]

MaxKickMinutes == 10080
MaxTwitchSeconds == 1209600

\* Deviation: seconds are rounded up to minutes.
KickMinutesRounded(d) ==
    {n \in {CASE d.unit = "s" -> (d.amount + 59) \div 60
              [] d.unit = "m" -> d.amount
              [] d.unit = "h" -> IF d.amount > MaxKickMinutes \div 60 THEN 0 ELSE d.amount * 60
              [] OTHER -> 0} :
       d.amount > 0 /\ n \in 1 .. MaxKickMinutes}

\* ParseTimeoutDuration of Kick: whole minutes, no days.  The empty set is an
\* error.
KickMinutes(d) ==
    {n \in {CASE d.unit = "s" -> IF d.amount % 60 = 0 THEN d.amount \div 60 ELSE 0
              [] d.unit = "m" -> d.amount
              [] d.unit = "h" -> IF d.amount > MaxKickMinutes \div 60 THEN 0 ELSE d.amount * 60
              [] OTHER -> 0} :
       d.amount > 0 /\ n \in 1 .. MaxKickMinutes}

\* ParseTimeoutDuration of Twitch, which YouTube uses too: seconds.
TwitchSeconds(d) ==
    {d.amount * n : n \in {m \in {UnitSeconds[d.unit]} :
                             d.amount > 0 /\ d.amount <= MaxTwitchSeconds \div m}}

\* The length the provider is asked for, in seconds.
Length(p, d) == IF p = "kick" THEN {n * 60 : n \in KickMinutes(d)} ELSE TwitchSeconds(d)

Asked(p, d) == CHOOSE n \in Length(p, d) : TRUE

(******************************** commands *********************************)

\* The requests of a command, in order.
KickPlan(op) ==
    CASE op = "status" -> <<"read">>
      [] op \in {"send", "title"} -> <<"write">>
      [] OTHER -> <<"lookup", "write">>

TwitchPlan(op) == IF op = "status" THEN <<"read", "read">> ELSE KickPlan(op)

\* YouTube finds the active broadcast first; users come from the archive.
YouTubePlan(op) ==
    CASE op = "status" -> <<"read", "read">>
      [] op \in {"send", "ban", "timeout"} -> <<"read", "write">>
      [] op = "title" -> <<"read", "snippet", "write">>
      [] OTHER -> <<"lookup", "read", "snippet", "write">>

Plan(p, op) ==
    CASE p = "kick" -> KickPlan(op)
      [] p = "twitch" -> TwitchPlan(op)
      [] OTHER -> YouTubePlan(op)

Managing(op) == op \in {"ban", "timeout", "title", "category"}

\* What is refused before any request: a provider that is unknown or not set
\* up, a duration out of range, a YouTube name the archive does not know, and
\* on Twitch a missing scope or somebody else's channel.
Refused(p, op, d, authors) ==
    \/ p \notin Available
    \/ op = "timeout" /\ Length(p, d) = {}
    \/ p = "youtube" /\ op \in {"ban", "timeout"} /\ authors = {}
    \/ p = "twitch" /\ Managing(op) /\ ~twitch.scope
    \/ p = "twitch" /\ op \in {"title", "category"} /\ ~twitch.owner

\* A command is given.  The archive answers the latest author of that name.
Issue(c, p, op) ==
    /\ cmd[c].pc = "idle" /\ hist.commands[c] < MaxCommands
    /\ p \in PlatformsOf[c]
    /\ \E title \in IF op = "title" THEN Titles ELSE {""},
          d \in IF op = "timeout" THEN Durations ELSE {NoDuration},
          authors \in IF p = "youtube" /\ op \in {"ban", "timeout"}
                      THEN {found \in Directory : Cardinality(found) <= 1} ELSE {{}} :
         LET new == [NoCommand EXCEPT !.op = op, !.platform = p, !.title = title,
                       !.length = d, !.found = authors,
                       !.target = IF authors = {} THEN "" ELSE (CHOOSE a \in authors : TRUE).id]
         IN cmd' = [cmd EXCEPT ![c] =
              IF Refused(p, op, d, authors) THEN [new EXCEPT !.result = "refused"]
              ELSE [new EXCEPT !.pc = IF p = "kick" THEN "lock" ELSE "request",
                               !.todo = Plan(p, op)]]
    /\ writes' = [writes EXCEPT ![c] = <<>>]
    /\ hist' = [hist EXCEPT !.commands[c] = @ + 1]
    /\ UNCHANGED <<token, holder, twitch, channel>>

Released(c) == [p \in DOMAIN holder |-> IF holder[p] = c THEN Nobody ELSE holder[p]]

\* Deviation: a command that ends early keeps its mutex.
FinishHolding(c, result) ==
    /\ cmd' = [cmd EXCEPT ![c].pc = "idle", ![c].todo = <<>>, ![c].result = result]
    /\ holder' = IF result = "refused" THEN holder ELSE Released(c)

Finish(c, result) ==
    /\ cmd' = [cmd EXCEPT ![c].pc = "idle", ![c].todo = <<>>, ![c].result = result]
    /\ holder' = Released(c)

\* Deviation: without the mutex.
LockKickFree(c) ==
    /\ cmd[c].pc = "lock"
    /\ cmd' = [cmd EXCEPT ![c].pc =
                 IF token["kick"].state = "due" THEN "refresh" ELSE "request"]
    /\ UNCHANGED <<token, holder, twitch, channel, writes, hist>>

\* withToken: the mutex is taken for the whole operation, and a token that is
\* about to expire is refreshed first.
LockKick(c) ==
    /\ cmd[c].pc = "lock" /\ holder["kick"] = Nobody
    /\ IF token["kick"].state = "due" /\ "kick" \notin Refreshable
       THEN Finish(c, "refused")
       ELSE /\ holder' = [holder EXCEPT !["kick"] = c]
            /\ cmd' = [cmd EXCEPT ![c].pc =
                         IF token["kick"].state = "due" THEN "refresh" ELSE "request"]
    /\ UNCHANGED <<token, twitch, channel, writes, hist>>

(******************************** requests *********************************)

\* c may make its next request: Twitch requests exclude each other, and
\* YouTube refreshes a token known to be due first.
MayRequest(c) ==
    /\ cmd[c].pc = "request"
    /\ cmd[c].platform = "twitch" => holder["twitch"] \in {Nobody, c}
    /\ ~(cmd[c].platform = "youtube" /\ token["youtube"].state = "due"
         /\ "youtube" \in Refreshable)

Accepted(c) == MayRequest(c) /\ token[cmd[c].platform].state # "revoked"

\* The request succeeded: Twitch's lock is released, and the next request may
\* be repeated once again.  Kick repeats an operation only once.
Advance(c, changes) ==
    /\ cmd' = [cmd EXCEPT ![c] = [changes EXCEPT
                 !.todo = Tail(@), !.again = @ /\ changes.platform = "kick"]]
    /\ holder' = IF cmd[c].platform = "kick" THEN holder ELSE Released(c)

\* Deviation: the last answer does not end a status request.
ReadOn(c) ==
    /\ Accepted(c) /\ Head(cmd[c].todo) = "read"
    /\ Advance(c, cmd[c])
    /\ UNCHANGED <<token, twitch, channel, writes, hist>>

\* A status page, the active broadcast.
Read(c) ==
    /\ Accepted(c) /\ Head(cmd[c].todo) = "read"
    /\ IF Len(cmd[c].todo) = 1 THEN Finish(c, "ok") ELSE Advance(c, cmd[c])
    /\ UNCHANGED <<token, twitch, channel, writes, hist>>

\* Which of the candidates a command may take.
Exact(found) == {e \in found : e.exact}
\* Deviation: the first match is good enough.
ChoicesFirst(p, op, found) == IF Exact(found) # {} THEN Exact(found) ELSE found

Choices(p, op, found) ==
    CASE op = "category" /\ p = "kick" ->
           IF Cardinality(Exact(found)) = 1 THEN Exact(found)
           ELSE IF Cardinality(found) = 1 THEN found ELSE {}
      [] op = "category" /\ p = "youtube" ->
           IF Exact(found) # {} THEN Exact(found)
           ELSE IF Cardinality(found) = 1 THEN found ELSE {}
      [] OTHER -> IF Cardinality(Exact(found)) = 1 THEN Exact(found) ELSE {}

\* Twitch looks up one login; the other searches may answer anything.
Answers(p, op) ==
    IF p = "twitch" /\ op # "category"
    THEN {found \in Directory : Cardinality(found) <= 1 /\ found = Exact(found)}
    ELSE Directory

\* ResolveUser, ResolveCategory: no candidate, or several, ends the command,
\* and Twitch never acts against the broadcaster or the moderator itself.
Lookup(c) ==
    /\ Accepted(c) /\ Head(cmd[c].todo) = "lookup"
    /\ \E found \in Answers(cmd[c].platform, cmd[c].op) :
         LET choices == Choices(cmd[c].platform, cmd[c].op, found)
         IN \/ /\ choices = {}
               /\ Finish(c, "refused")
            \/ \E e \in choices :
                 IF cmd[c].platform = "twitch" /\ cmd[c].op # "category" /\ e.id = Self
                 THEN Finish(c, "refused")
                 ELSE Advance(c, [cmd[c] EXCEPT !.target = e.id, !.found = found])
    /\ UNCHANGED <<token, twitch, channel, writes, hist>>

\* updateSnippet reads the whole snippet.
ReadSnippet(c) ==
    /\ Accepted(c) /\ Head(cmd[c].todo) = "snippet"
    /\ Advance(c, [cmd[c] EXCEPT !.snippet = channel[cmd[c].platform]])
    /\ UNCHANGED <<token, twitch, channel, writes, hist>>

\* Deviation: YouTube is sent a snippet with only the field that changes.
PatchedAlone(cm) ==
    LET base == IF cm.platform = "youtube" THEN NoSnippet ELSE channel[cm.platform]
    IN CASE cm.op = "title" -> [base EXCEPT !.title = cm.title]
         [] cm.op = "category" -> [base EXCEPT !.category = cm.target]
         [] OTHER -> channel[cm.platform]

\* The fields after the write: Kick and Twitch send the field that changes,
\* YouTube sends the snippet that was read with one field changed.
Patched(cm) ==
    LET base == IF cm.platform = "youtube" THEN cm.snippet ELSE channel[cm.platform]
    IN CASE cm.op = "title" -> [base EXCEPT !.title = cm.title]
         [] cm.op = "category" -> [base EXCEPT !.category = cm.target]
         [] OTHER -> channel[cm.platform]

\* What the provider executes for a command.
Effect(cm) ==
    [op |-> cm.op, platform |-> cm.platform, id |-> cm.target, title |-> cm.title,
     seconds |-> IF cm.op = "timeout" THEN Asked(cm.platform, cm.length) ELSE 0]

Executed(c) ==
    /\ writes' = [writes EXCEPT ![c] = Append(@, Effect(cmd[c]))]
    /\ channel' = [channel EXCEPT ![cmd[c].platform] = Patched(cmd[c])]

Write(c) ==
    /\ Accepted(c) /\ Head(cmd[c].todo) = "write"
    /\ Executed(c)
    /\ Finish(c, "ok")
    /\ UNCHANGED <<token, twitch, hist>>

\* Deviation: the status of the answer is not looked at.
RejectedUnseen(c) ==
    /\ Accepted(c)
    /\ Finish(c, "ok")
    /\ UNCHANGED <<token, twitch, channel, writes, hist>>

\* An answer that is an error: nothing was done.  A server error after which
\* the change may exist counts as a lost answer.
Rejected(c) ==
    /\ Accepted(c)
    /\ Finish(c, "refused")
    /\ UNCHANGED <<token, twitch, channel, writes, hist>>

\* Deviation: a lost answer is reported as a refusal.
LostRefused(c) ==
    /\ Accepted(c) /\ Faulty
    /\ \/ UNCHANGED <<channel, writes>>
       \/ Head(cmd[c].todo) = "write" /\ Executed(c)
    /\ Finish(c, "refused")
    /\ UNCHANGED <<token, twitch>>

\* Deviation: a request without an answer is made again.
LostAgain(c) ==
    /\ Accepted(c) /\ Faulty
    /\ \/ UNCHANGED <<channel, writes>>
       \/ Head(cmd[c].todo) = "write" /\ Executed(c)
    /\ UNCHANGED <<cmd, holder, token, twitch>>

\* No answer: a timeout, a lost connection, here or at the relay.  The
\* provider may have executed the request.
Lost(c) ==
    /\ Accepted(c) /\ Faulty
    /\ \/ UNCHANGED <<channel, writes>>
       \/ Head(cmd[c].todo) = "write" /\ Executed(c)
    /\ Finish(c, "failed")
    /\ UNCHANGED <<token, twitch>>

\* HTTP 401.  The first one leads to a refresh, the second ends the command.
Unauthorized(c) ==
    /\ MayRequest(c) /\ token[cmd[c].platform].state = "revoked"
    /\ IF cmd[c].again \/ cmd[c].platform \notin Refreshable
       THEN Finish(c, "refused")
       ELSE /\ cmd' = [cmd EXCEPT ![c].pc = "refresh", ![c].again = TRUE]
            /\ holder' = IF cmd[c].platform = "twitch"
                         THEN [holder EXCEPT !["twitch"] = c] ELSE holder
    /\ UNCHANGED <<token, twitch, channel, writes, hist>>

(******************************** refreshing *******************************)

\* requestJSON: a YouTube token that is due is refreshed before the request.
RefreshDue(c) ==
    /\ cmd[c].pc = "request" /\ cmd[c].platform = "youtube"
    /\ token["youtube"].state = "due" /\ "youtube" \in Refreshable
    /\ cmd' = [cmd EXCEPT ![c].pc = "refresh"]
    /\ UNCHANGED <<token, holder, twitch, channel, writes, hist>>

SendRefresh(c) ==
    /\ cmd[c].pc = "refresh"
    /\ cmd' = [cmd EXCEPT ![c].pc = "refreshing",
                          ![c].presented = token[cmd[c].platform].mine]
    /\ UNCHANGED <<token, holder, twitch, channel, writes, hist>>

Granted(c) == /\ cmd[c].pc = "refreshing"
              /\ cmd[c].presented = token[cmd[c].platform].grant

\* Kick and Twitch replace the refresh token; Google keeps it.
NextGrant(p) == IF p = "youtube" THEN token[p].grant ELSE token[p].grant + 1

\* What is done with the new token: Kick starts the operation again, Twitch
\* and YouTube repeat the request.
Resume(cm) ==
    IF cm.platform = "kick" THEN [cm EXCEPT !.pc = "request", !.todo = Plan(cm.platform, cm.op)]
    ELSE [cm EXCEPT !.pc = "request"]

\* Do demands scopes of the request that manages, not of lookups.
Lacking(cm, scope) == Head(cm.todo) = "write" /\ Managing(cm.op) /\ ~scope

\* The answer arrives.  Twitch's new token may have fewer scopes, and a token
\* that cannot be validated or saved ends the command although it is in use.
Refreshed(c) ==
    /\ Granted(c)
    /\ LET p == cmd[c].platform
       IN /\ token' = [token EXCEPT ![p] =
                         [state |-> "good", mine |-> NextGrant(p), grant |-> NextGrant(p),
                          lost |-> FALSE]]
          /\ \E scope \in IF p = "twitch" THEN {twitch.scope, FALSE} ELSE {twitch.scope} :
               /\ twitch' = [twitch EXCEPT !.scope = scope]
               /\ \/ Finish(c, "refused")
                  \/ /\ ~(p = "twitch" /\ Lacking(cmd[c], scope))
                     /\ cmd' = [cmd EXCEPT ![c] = Resume(cmd[c])]
                     /\ UNCHANGED holder
    /\ UNCHANGED <<channel, writes, hist>>

\* The refresh is rejected, or its answer is lost after the token was used.
RefreshFails(c) ==
    /\ \/ /\ cmd[c].pc = "refreshing" /\ ~Granted(c)
          /\ UNCHANGED <<token, hist>>
       \/ /\ Granted(c) /\ Faulty
          /\ LET p == cmd[c].platform
             IN token' = [token EXCEPT ![p].grant = NextGrant(p), ![p].lost = TRUE]
    /\ Finish(c, "refused")
    /\ UNCHANGED <<twitch, channel, writes>>

(******************************* environment *******************************)

\* A token comes near its expiry, or the provider stops accepting it.
TokenAges(p) ==
    /\ Faulty
    /\ \E s \in {"due", "revoked"} :
         s # token[p].state /\ token' = [token EXCEPT ![p].state = s]
    /\ UNCHANGED <<cmd, holder, twitch, channel, writes>>

Request(c) ==
    \/ Read(c) \/ Lookup(c) \/ ReadSnippet(c) \/ Write(c)
    \/ Rejected(c) \/ Lost(c) \/ Unauthorized(c)

Refresh(c) == RefreshDue(c) \/ SendRefresh(c) \/ Refreshed(c) \/ RefreshFails(c)

Next ==
    \/ \E c \in Callers :
         \/ \E p \in PlatformsOf[c], op \in Ops : Issue(c, p, op)
         \/ LockKick(c) \/ Request(c) \/ Refresh(c)
    \/ \E p \in Platforms : TokenAges(p)

\* Every request ends, since the HTTP clients have timeouts, and a Go mutex
\* does not starve a waiter.
Fairness ==
    \A c \in Callers :
      SF_vars(LockKick(c) \/ Request(c)) /\ WF_vars(Refresh(c))

Spec == Init /\ [][Next]_vars
LiveSpec == Spec /\ Fairness

(******************************* properties ********************************)

TypeOK ==
    /\ \A c \in Callers :
         /\ cmd[c].pc \in {"idle", "lock", "request", "refresh", "refreshing"}
         /\ cmd[c].result \in {"ok", "refused", "failed"}
         /\ (cmd[c].pc = "idle") = (cmd[c].todo = <<>>)
    /\ \A p \in Platforms :
         token[p].state \in {"good", "due", "revoked"} /\ token[p].mine <= token[p].grant
    /\ holder \in [{"kick", "twitch"} -> Callers \cup {Nobody}]
    /\ twitch \in [scope : BOOLEAN, owner : BOOLEAN]

\* A command that reported success did exactly one thing at the provider, and
\* it is the thing it reported: the operation, the user or category that was
\* found, and the title that was typed.  Kick's second attempt looks the user
\* up again, so what is reported must be what that attempt used.
ReportedIsDone ==
    \A c \in Callers :
      cmd[c].pc = "idle" /\ cmd[c].result = "ok" /\ cmd[c].op # "status"
        => writes[c] = <<Effect(cmd[c])>>

\* Whatever happens to tokens and answers, a command acts at most once: only
\* requests refused with 401, which did nothing, are made again.
ActsAtMostOnce == \A c \in Callers : Len(writes[c]) <= 1

\* A command that was refused, as ambiguous, unknown, not permitted or not
\* authorized, has changed nothing.
RefusedIsUndone ==
    \A c \in Callers : cmd[c].pc = "idle" /\ cmd[c].result = "refused" => writes[c] = <<>>

\* On Kick and Twitch nobody is moderated, and no Twitch category chosen, by a guess
\* (YouTube moderates the latest author of a display name, which is not unique): what was
\* acted on was the only exact match of the lookup (README: "Streamchat never
\* guesses from Twitch's broad substring matches"), and on Twitch never the
\* broadcaster or the moderator.
NeverGuesses ==
    \A c \in Callers : \A i \in DOMAIN writes[c] :
      LET w == writes[c][i]
      IN /\ \/ w.platform # "youtube" /\ w.op \in {"ban", "timeout"}
            \/ w.platform = "twitch" /\ w.op = "category"
            => \E e \in cmd[c].found : e.id = w.id /\ Exact(cmd[c].found) = {e}
         /\ w.platform = "twitch" /\ w.op \in {"ban", "timeout"} => w.id # Self

\* The provider's maximum: 7 and 14 days.
Longest(p) == (IF p = "kick" THEN 7 ELSE 14) * 86400

\* A timeout lasts exactly as long as was typed, and no longer than the
\* provider's maximum: a value Kick cannot express in minutes is refused
\* instead of rounded.
DurationIsExact ==
    \A c \in Callers : \A i \in DOMAIN writes[c] :
      LET w == writes[c][i]
          d == cmd[c].length
      IN w.op = "timeout" =>
           /\ w.seconds = d.amount * UnitSeconds[d.unit]
           /\ w.seconds \in 1 .. Longest(w.platform)

\* Two commands never use up one refresh token: a token the provider has
\* already replaced is presented only after the answer that replaced it was
\* lost.  Without the two mutexes the slower command would be refused.
NoTokenPresentedTwice ==
    \A c \in Callers :
      cmd[c].pc = "refreshing" /\ cmd[c].presented # token[cmd[c].platform].grant
        => token[cmd[c].platform].lost

\* A command does what it reports, once, to whom it was meant for and for as
\* long as was typed, or nothing; and no token is used up twice.
ControlSafety ==
    /\ TypeOK
    /\ ReportedIsDone /\ ActsAtMostOnce /\ RefusedIsUndone
    /\ NeverGuesses /\ DurationIsExact /\ NoTokenPresentedTwice

\* Changing the title leaves the category alone and conversely, although
\* YouTube is always sent the whole snippet.  It takes a single caller for
\* YouTube: two would send each other's old field.
OtherFieldIsKept ==
    [][\A p \in Platforms :
         \/ channel'[p].title = channel[p].title
         \/ channel'[p].category = channel[p].category]_vars

\* Every command is answered, whatever the tokens do.
EveryCommandAnswers ==
    \A c \in Callers : cmd[c].pc # "idle" ~> cmd[c].pc = "idle"
=============================================================================
