---------------------------- MODULE InputLifecycle ----------------------------
(***************************************************************************)
(* What a new OBS input session sets off: the hook of relay.go sets the    *)
(* signal, and two polling watchers act on it.  The watcher of             *)
(* internal/inputtrigger prepares, binds and starts a YouTube broadcast,   *)
(* the one of internal/discordnotify announces the stream.  Both confirm   *)
(* an edge, are armed by an offline input, and retry what failed.          *)
(***************************************************************************)
EXTENDS Naturals, FiniteSets

CONSTANTS
    Watchers,       \* the watchers that are configured
    Confirmations,  \* [Watchers -> equal observations that make a state stable]
    MaxSessions,    \* bound on OBS connections
    MaxBroadcasts,  \* bound on broadcasts created
    MaxFaults,      \* bound on failed or unanswered calls
    MaxRestarts     \* bound on restarts of the process

ConstantsOK ==
    /\ Watchers \subseteq {"youtube", "discord"}
    /\ Confirmations \in [Watchers -> Nat \ {0}]
    /\ MaxSessions \in Nat /\ MaxBroadcasts \in Nat
    /\ MaxFaults \in Nat /\ MaxRestarts \in Nat

Broadcasts == 1 .. MaxBroadcasts
None == 0
Steps == {"idle", "listing", "creating", "binding", "polling", "starting",
          "transition", "building", "sending"}
Statuses == {"none", "unbound", "ready", "live", "complete"}

VARIABLES
    input,      \* OBS is connected
    session,    \* number of OBS connections so far
    signal,     \* Signal.online
    w,          \* [Watchers -> the local variables of Run]
    step,       \* [Watchers -> the call its action is in]
    mine,       \* the broadcast the YouTube action works on
    status,     \* [Broadcasts -> its state at YouTube]
    posted,     \* [Sessions -> announcements Discord has accepted]
    lostAnswers, faults, restarts,
    offline,    \* [Watchers -> equal offline observations in a row] (history)
    confirmed   \* the watchers that saw enough of them since they last acted

world == <<input, session, status, posted>>
bounds == <<lostAnswers, faults, restarts>>
history == <<offline, confirmed>>
vars == <<world, signal, w, step, mine, bounds, history>>

Sessions == 1 .. MaxSessions
Fresh == [initialized |-> FALSE, stable |-> FALSE, candidate |-> FALSE,
          armed |-> FALSE, count |-> 0, waiting |-> FALSE]

TypeOK ==
    /\ input \in BOOLEAN /\ signal \in BOOLEAN
    /\ session \in 0 .. MaxSessions
    /\ \A x \in Watchers :
          /\ w[x] \in [initialized : BOOLEAN, stable : BOOLEAN, candidate : BOOLEAN,
                       armed : BOOLEAN, waiting : BOOLEAN,
                       count : 0 .. Confirmations[x] - 1]
    /\ step \in [Watchers -> Steps]
    /\ mine \in Broadcasts \cup {None}
    /\ status \in [Broadcasts -> Statuses]
    /\ posted \in [Sessions -> Nat]
    /\ lostAnswers \in 0 .. MaxFaults /\ faults \in 0 .. MaxFaults
    /\ restarts \in 0 .. MaxRestarts
    /\ offline \in [Watchers -> Nat]
    /\ confirmed \subseteq Watchers

Init ==
    /\ input = FALSE /\ session = 0 /\ signal = FALSE
    /\ w = [x \in Watchers |-> Fresh]
    /\ step = [x \in Watchers |-> "idle"]
    /\ mine = None
    /\ status = [b \in Broadcasts |-> "none"]
    /\ posted = [s \in Sessions |-> 0]
    /\ lostAnswers = 0 /\ faults = 0 /\ restarts = 0
    /\ offline = [x \in Watchers |-> 0]
    /\ confirmed = {}

-----------------------------------------------------------------------------
(* OBS and its hook, YouTube, and the process.                             *)

InputStarts ==
    /\ ~input
    /\ session < MaxSessions
    /\ session' = session + 1
    /\ input' = TRUE
    /\ signal' = TRUE
    /\ UNCHANGED <<w, step, mine, status, posted, bounds, history>>

InputEnds ==
    /\ input
    /\ input' = FALSE
    /\ signal' = FALSE
    /\ UNCHANGED <<w, step, mine, session, status, posted, bounds, history>>

\* enableAutoStart and enableAutoStop, with whatever delay.
AutoStart(b) ==
    /\ input /\ status[b] = "ready"
    /\ status' = [status EXCEPT ![b] = "live"]
    /\ UNCHANGED <<input, session, posted, signal, w, step, mine, bounds, history>>

AutoStop(b) ==
    /\ ~input /\ status[b] = "live"
    /\ status' = [status EXCEPT ![b] = "complete"]
    /\ UNCHANGED <<input, session, posted, signal, w, step, mine, bounds, history>>

\* The signal of a new process is offline until a hook is called.
Restart ==
    /\ restarts < MaxRestarts
    /\ restarts' = restarts + 1
    /\ signal' = FALSE
    /\ w' = [x \in Watchers |-> Fresh]
    /\ step' = [x \in Watchers |-> "idle"]
    /\ mine' = None
    /\ offline' = [x \in Watchers |-> 0]
    /\ confirmed' = {}
    /\ UNCHANGED <<world, lostAnswers, faults>>

-----------------------------------------------------------------------------
(* One tick of a watcher: it samples the signal and, past the confirmation,*)
(* may begin its action, in the same goroutine.                            *)

\* Deviation: an observation that differs does not start the count again.
CountAll(x) == w[x].count + 1

Counted(x) ==
    IF w[x].count = 0 \/ w[x].candidate # signal THEN 1 ELSE w[x].count + 1

\* Deviation: one observation more than asked for.
EnoughOffByOne(x) == Counted(x) > Confirmations[x]

Enough(x) == Counted(x) >= Confirmations[x]

\* What Run does with a confirmed state; YouTube retries while the state is
\* stable, Discord when it becomes stable again.
Confirm(x) ==
    IF ~w[x].initialized
    THEN [w[x] EXCEPT !.initialized = TRUE, !.stable = signal, !.armed = ~signal,
                      !.candidate = signal, !.count = 0]
    ELSE [w[x] EXCEPT !.stable = signal, !.candidate = signal, !.count = 0,
                      !.armed = @ \/ (w[x].stable /\ ~signal),
                      !.waiting = @ /\ ~(w[x].stable /\ ~signal)]

Acts(x) ==
    /\ w[x].initialized /\ signal
    /\ w[x].armed /\ ~w[x].waiting
    /\ x = "discord" => ~w[x].stable

FirstStep == [x \in Watchers |-> IF x = "youtube" THEN "listing" ELSE "building"]

Tick(x) ==
    /\ step[x] = "idle"
    /\ offline' = [offline EXCEPT ![x] = IF signal THEN 0
                      ELSE IF @ < Confirmations[x] THEN @ + 1 ELSE @]
    /\ confirmed' = IF offline'[x] >= Confirmations[x] THEN confirmed \cup {x} ELSE confirmed
    /\ IF ~Enough(x)
       THEN /\ w' = [w EXCEPT ![x].candidate = signal, ![x].count = Counted(x)]
            /\ UNCHANGED step
       ELSE /\ w' = [w EXCEPT ![x] = Confirm(x)]
            /\ step' = IF Acts(x) THEN [step EXCEPT ![x] = FirstStep[x]] ELSE step
    /\ UNCHANGED <<world, signal, mine, bounds>>

\* RetryDelay has passed.
MayRetry(x) ==
    /\ w[x].waiting
    /\ w' = [w EXCEPT ![x].waiting = FALSE]
    /\ UNCHANGED <<world, signal, step, mine, bounds, history>>

\* Deviation: a success is treated as a failure.
DoneFails(x) ==
    /\ step' = [step EXCEPT ![x] = "idle"]
    /\ w' = [w EXCEPT ![x].stable = FALSE]
    /\ UNCHANGED confirmed

Done(x) ==
    /\ step' = [step EXCEPT ![x] = "idle"]
    /\ w' = [w EXCEPT ![x].armed = FALSE]
    /\ confirmed' = confirmed \ {x}

\* Deviation: a failed action is not tried again.
FailForGood(x) ==
    /\ step' = [step EXCEPT ![x] = "idle"]
    /\ w' = [w EXCEPT ![x].armed = FALSE]

\* The action returns an error and stays armed.
Fail(x) ==
    /\ step' = [step EXCEPT ![x] = "idle"]
    /\ w' = IF x = "youtube" THEN [w EXCEPT ![x].waiting = TRUE]
                             ELSE [w EXCEPT ![x].stable = FALSE]

Fault == faults < MaxFaults /\ faults' = faults + 1 /\ UNCHANGED <<restarts>>
NoFault == UNCHANGED bounds

Goto(x, s) == step' = [step EXCEPT ![x] = s] /\ UNCHANGED w

\* The YouTube call in step s fails without effect.
CallFails(s) ==
    /\ step["youtube"] = s
    /\ Fault /\ UNCHANGED lostAnswers
    /\ Fail("youtube")
    /\ UNCHANGED <<world, signal, mine, history>>

-----------------------------------------------------------------------------
(* PrepareBroadcast, the wait for the ingest, and StartBroadcast.          *)

Unfinished == {b \in Broadcasts : status[b] \in {"ready", "live"}}

\* Deviation: the broadcasts there are are not looked at.
FoundNone == {}

\* An unfinished broadcast bound to the stream is used again.
Found == Unfinished

List ==
    /\ step["youtube"] = "listing"
    /\ \/ /\ Found = {}
          /\ Goto("youtube", "creating")
          /\ UNCHANGED <<mine, confirmed>>
       \/ \E b \in Found :
             /\ mine' = b
             /\ IF status[b] = "live" THEN Done("youtube")
                ELSE Goto("youtube", "polling") /\ UNCHANGED confirmed
    /\ NoFault
    /\ UNCHANGED <<world, signal, offline>>

\* The answer of the creation may be lost: nothing then binds the broadcast.
Create ==
    /\ step["youtube"] = "creating"
    /\ \E b \in Broadcasts :
          /\ status[b] = "none"
          /\ status' = [status EXCEPT ![b] = "unbound"]
          /\ \/ mine' = b /\ Goto("youtube", "binding") /\ NoFault
             \/ /\ Fault /\ lostAnswers' = lostAnswers + 1
                /\ Fail("youtube") /\ UNCHANGED mine
    /\ UNCHANGED <<input, session, posted, signal, history>>

Bind ==
    /\ step["youtube"] = "binding"
    /\ status' = [status EXCEPT ![mine] = "ready"]
    /\ \/ /\ Goto("youtube", "polling") /\ NoFault
       \/ /\ Fault /\ lostAnswers' = lostAnswers + 1
          /\ Fail("youtube")
    /\ UNCHANGED <<input, session, posted, signal, mine, history>>

\* Every two seconds: the input first, then the ingest, which YouTube reports
\* active only while there is an input, and late.
Poll ==
    /\ step["youtube"] = "polling"
    /\ IF signal /\ input THEN Goto("youtube", "starting") ELSE Fail("youtube")
    /\ NoFault
    /\ UNCHANGED <<world, signal, mine, history>>

DeadlinePasses ==
    /\ step["youtube"] = "polling"
    /\ Fault /\ UNCHANGED lostAnswers
    /\ Fail("youtube")
    /\ UNCHANGED <<world, signal, mine, history>>

\* The status request that saves a redundant transition.
Start ==
    /\ step["youtube"] = "starting"
    /\ IF status[mine] = "live" THEN Done("youtube")
       ELSE Goto("youtube", "transition") /\ UNCHANGED confirmed
    /\ NoFault
    /\ UNCHANGED <<world, signal, mine, offline>>

\* After an error, a broadcast that is live is what was asked for.
AlreadyLive == status'[mine] = "live"

Transition ==
    /\ step["youtube"] = "transition"
    /\ \/ /\ status[mine] = "ready" /\ input
          /\ status' = [status EXCEPT ![mine] = "live"]
          /\ NoFault /\ Done("youtube")
       \/ /\ \/ NoFault /\ ~(status[mine] = "ready" /\ input)
             \/ Fault /\ UNCHANGED lostAnswers
          /\ UNCHANGED status
          /\ IF AlreadyLive THEN Done("youtube")
             ELSE Fail("youtube") /\ UNCHANGED confirmed
    /\ UNCHANGED <<input, session, posted, signal, mine, offline>>

-----------------------------------------------------------------------------
(* The announcement.                                                       *)

Build ==
    /\ step["discord"] = "building"
    /\ \/ Goto("discord", "sending") /\ NoFault
       \/ Fault /\ UNCHANGED lostAnswers /\ Fail("discord")
    /\ UNCHANGED <<world, signal, mine, history>>

Post == posted' = [posted EXCEPT ![session] = @ + 1]

Send ==
    /\ step["discord"] = "sending"
    /\ \/ Post /\ Done("discord") /\ NoFault
       \/ /\ Post /\ Fault /\ lostAnswers' = lostAnswers + 1
          /\ Fail("discord") /\ UNCHANGED confirmed
       \/ /\ UNCHANGED posted /\ Fault /\ UNCHANGED lostAnswers
          /\ Fail("discord") /\ UNCHANGED confirmed
    /\ UNCHANGED <<input, session, status, signal, mine, offline>>

YouTubeStep ==
    /\ "youtube" \in Watchers
    /\ \/ List \/ Create \/ Bind \/ Poll \/ DeadlinePasses \/ Start \/ Transition
       \/ \E s \in {"listing", "creating", "binding", "polling", "starting"} : CallFails(s)

DiscordStep == "discord" \in Watchers /\ (Build \/ Send)

Run(x) == Tick(x) \/ MayRetry(x)

Next ==
    \/ InputStarts \/ InputEnds \/ Restart
    \/ \E b \in Broadcasts : AutoStart(b) \/ AutoStop(b)
    \/ \E x \in Watchers : Run(x)
    \/ YouTubeStep \/ DiscordStep

Spec == Init /\ [][Next]_vars

\* The watchers tick and their calls return, all with a timeout; OBS, YouTube's
\* automatics and restarts owe nothing.
Fairness ==
    /\ \A x \in Watchers : WF_vars(Tick(x)) /\ WF_vars(MayRetry(x))
    /\ WF_vars(YouTubeStep) /\ WF_vars(DiscordStep)

FairSpec == Spec /\ Fairness

-----------------------------------------------------------------------------
(* Properties.                                                             *)

\* A watcher acts only after it has seen the input offline for as many
\* consecutive observations as confirm a state: neither the input that is
\* online at startup nor a dip that is too short sets anything off
\* (inputtrigger: "ignores the initial online state").
ActsOnlyAfterConfirmedOffline ==
    \A x \in Watchers : step[x] # "idle" => x \in confirmed

\* However often the action is retried, calls are lost or the process is
\* restarted, never two broadcasts are bound to the stream and unfinished.
AtMostOneUnfinished ==
    \A b, c \in Broadcasts : {b, c} \subseteq Unfinished => b = c

\* Discord announces a session a second time only when the answer to an
\* accepted announcement was lost.
AnnouncedOncePerAnswer ==
    \A s \in Sessions : posted[s] <= 1 + lostAnswers

\* Broadcasts and announcements follow from a confirmed edge of the input, and
\* lost answers, retries and restarts make neither too many of them.
InputSafety ==
    /\ TypeOK
    /\ AtMostOneUnfinished /\ ActsOnlyAfterConfirmedOffline /\ AnnouncedOncePerAnswer

\* A session the YouTube watcher is armed for ends up live, or ends, or the
\* process is restarted.
LiveInTheEnd ==
    (signal /\ w["youtube"].armed /\ w["youtube"].initialized)
        ~> (~signal \/ \E b \in DOMAIN status : status[b] = "live")

\* README: "prepares and binds exactly one broadcast for every new input
\* session".
OneBroadcastPerSession ==
    Cardinality({b \in Broadcasts : status[b] # "none"}) <= session
=============================================================================
