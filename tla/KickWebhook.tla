---------------------------- MODULE KickWebhook ----------------------------
(***************************************************************************)
(* The Kick webhook receiver of internal/platform/kick/kick.go: concurrent *)
(* HTTP handlers that check an event's age, then, under one mutex, look it *)
(* up in the map of events already accepted and offer it to the bounded    *)
(* message queue.  Time is the server's clock in some unit; an event is    *)
(* its Kick-Event-Message-Id.  Only well-formed, correctly signed requests *)
(* are modelled past the first check: any other request is refused before  *)
(* it can touch the state.                                                 *)
(***************************************************************************)
EXTENDS Naturals, Sequences, Functions

CONSTANTS
    Events,         \* provider events
    Requests,       \* HTTP handler goroutines that may run at once
    QueueSize,      \* capacity of the message queue (Out)
    MaxAge,         \* webhook.MaxAge: five minutes
    MaxSkew,        \* how far Kick's clock may be ahead of the server's
    MaxHandling,    \* longest time from the age check to the mutex
    MaxTime         \* bound on the clock

\* ReadTimeout (ten seconds) bounds the handling time, so an age limit of five
\* minutes leaves minutes for clock skew.
ConstantsOK ==
    /\ QueueSize \in Nat \ {0}
    /\ MaxAge \in Nat
    /\ MaxSkew \in Nat
    /\ MaxHandling \in Nat
    /\ MaxTime \in Nat
    /\ MaxSkew + MaxHandling <= MaxAge

VARIABLES
    now,        \* the server's clock
    stamp,      \* [Events -> Nat]: Kick-Event-Message-Timestamp
    seen,       \* the map s.seen: a function from some events to times
    queue,      \* the message queue Out
    handling,   \* [Requests -> Events]: the event a handler deals with
    arrived,    \* [Requests -> Nat]: when that handler checked its age
    phase,      \* [Requests -> {"idle", "checked"}]
    accepted,   \* [Events -> Nat]: times the event entered the queue
    answers     \* events answered 204: the provider does not send them again

vars == <<now, stamp, seen, queue, handling, arrived, phase, accepted, answers>>

Inside(r) == phase[r] = "checked"

TypeOK ==
    /\ now \in 0 .. MaxTime
    /\ stamp \in [Events -> Nat]
    /\ DOMAIN seen \in SUBSET Events
    /\ seen \in [DOMAIN seen -> Nat]
    /\ queue \in Seq(Events)
    /\ Len(queue) <= QueueSize
    /\ handling \in [Requests -> Events]
    /\ arrived \in [Requests -> Nat]
    /\ phase \in [Requests -> {"idle", "checked"}]
    /\ accepted \in [Events -> Nat]
    /\ answers \in SUBSET Events

Init ==
    /\ now = 0
    /\ stamp \in [Events -> 0 .. MaxTime]
    /\ seen = [e \in {} |-> 0]
    /\ queue = <<>>
    /\ handling \in {[r \in Requests |-> e] : e \in Events}
    /\ arrived = [r \in Requests |-> 0]
    /\ phase = [r \in Requests |-> "idle"]
    /\ accepted = [e \in Events |-> 0]
    /\ answers = {}

-----------------------------------------------------------------------------

\* Deviation: replays are refused by age only if they come from the future.
FreshFutureOnly(e) == stamp[e] <= now + MaxAge

\* dabs(s.Now().Sub(ts)) <= s.MaxAge
Fresh(e) == now <= stamp[e] + MaxAge /\ stamp[e] <= now + MaxAge

\* The clock advances; a handler past the age check reaches the mutex in time.
Tick ==
    /\ now < MaxTime
    /\ \A r \in Requests : Inside(r) => now < arrived[r] + MaxHandling
    /\ now' = now + 1
    /\ UNCHANGED <<stamp, seen, queue, handling, arrived, phase, accepted, answers>>

\* A request for e comes in and passes the checks made before the lock.  Kick
\* does not send an event its own clock has not reached.  A request that fails
\* a check is answered 400, 401, 405 or 413 and changes nothing.
Arrive(r, e) ==
    /\ ~Inside(r)
    /\ stamp[e] <= now + MaxSkew
    /\ Fresh(e)
    /\ phase' = [phase EXCEPT ![r] = "checked"]
    /\ handling' = [handling EXCEPT ![r] = e]
    /\ arrived' = [arrived EXCEPT ![r] = now]
    /\ UNCHANGED <<now, stamp, seen, queue, accepted, answers>>

Return(r) ==
    /\ phase' = [phase EXCEPT ![r] = "idle"]
    /\ UNCHANGED <<now, stamp, handling, arrived>>

\* Deviation: entries are forgotten after MaxAge.
ForgetsTooSoon(age) == age > MaxAge

\* now.Sub(t) > s.MaxAge*2
Forgotten(age) == age > MaxAge * 2

\* Deviation: one message more than the queue holds.
QueueHasRoomOffByOne == Len(queue) <= QueueSize

QueueHasRoom == Len(queue) < QueueSize

\* s.seen[id] = now, and the sweep of old entries.
Remember(e) ==
    LET updated == [k \in DOMAIN seen \cup {e} |-> IF k = e THEN now ELSE seen[k]]
    IN  seen' = Restrict(updated, {k \in DOMAIN updated : ~Forgotten(now - updated[k])})

\* Already in the map: 204 without a second delivery.
AnswerDuplicate(r) ==
    /\ Inside(r)
    /\ handling[r] \in DOMAIN seen
    /\ answers' = answers \cup {handling[r]}
    /\ UNCHANGED <<seen, queue, accepted>>
    /\ Return(r)

\* case s.Out <- m: remembered, then 204.
Accept(r) ==
    LET e == handling[r] IN
    /\ Inside(r)
    /\ e \notin DOMAIN seen
    /\ QueueHasRoom
    /\ queue' = Append(queue, e)
    /\ accepted' = [accepted EXCEPT ![e] = @ + 1]
    /\ Remember(e)
    /\ answers' = answers \cup {e}
    /\ Return(r)

\* Deviation: the event is remembered before the queue is tried.
AnswerBusyRemembering(r) ==
    /\ Inside(r)
    /\ handling[r] \notin DOMAIN seen
    /\ ~QueueHasRoom
    /\ Remember(handling[r])
    /\ UNCHANGED <<queue, accepted, answers>>
    /\ Return(r)

\* default: the queue is full, 503 asks for a retry and nothing is remembered.
AnswerBusy(r) ==
    /\ Inside(r)
    /\ handling[r] \notin DOMAIN seen
    /\ ~QueueHasRoom
    /\ UNCHANGED <<seen, queue, accepted, answers>>
    /\ Return(r)

\* The forwarder takes the next message.
Drain ==
    /\ queue # <<>>
    /\ queue' = Tail(queue)
    /\ UNCHANGED <<now, stamp, seen, handling, arrived, phase, accepted, answers>>

Next ==
    \/ Tick
    \/ Drain
    \/ \E r \in Requests :
          \/ AnswerDuplicate(r) \/ Accept(r) \/ AnswerBusy(r)
          \/ \E e \in Events : Arrive(r, e)

Spec == Init /\ [][Next]_vars

-----------------------------------------------------------------------------
(* Properties.                                                             *)

\* One process lets an event into the queue at most once, however often, late
\* and concurrently Kick redelivers it: the sweep forgets an entry only when no
\* request for it can pass, or has already passed, the age check
\* (kick.go:443 and 463-480).
AcceptedAtMostOnce == \A e \in Events : accepted[e] <= 1

\* A 204 is never sent for an event that was not queued, so an event refused as
\* busy is not lost: a retry of it is still let in.
AnsweredWasAccepted == \A e \in answers : accepted[e] >= 1

\* As long as a request for an accepted event could still get past the age
\* check, or one that has is on its way to the mutex, the map holds the event.
RememberedWhileAcceptable ==
    \A e \in Events :
        /\ accepted[e] > 0
        /\ Fresh(e) \/ \E r \in Requests : Inside(r) /\ handling[r] = e
        => e \in DOMAIN seen
=============================================================================
