--------------------------- MODULE ServerPipeline ---------------------------
(***************************************************************************)
(* The server of cmd/streamchat/main.go serve() from the providers to the  *)
(* relay: the Kick webhook and the Twitch and YouTube adapters put         *)
(* messages into one bounded channel; forward() of internal/relay takes    *)
(* them out one by one, stores each in the SQLite archive, and shows those *)
(* that were new to the observers and the hub.  The process may crash, be  *)
(* stopped or fail to write the archive, and is started again by systemd;  *)
(* only the archive and what the providers know survive.                   *)
(*                                                                         *)
(* The hub behind Broadcast is RelayHub; the age of webhook requests is    *)
(* KickWebhook, whose theorem says what `accepted' assumes here: one       *)
(* process queues a Kick event at most once.                               *)
(***************************************************************************)
EXTENDS Naturals, Sequences, FiniteSets, Functions

CONSTANTS
    KickEvents, TwitchEvents, YouTubeEvents,    \* messages by provider
    QueueSize,                                  \* capacity of messages
    MaxRuns                                     \* bound on process starts

Messages == KickEvents \cup TwitchEvents \cup YouTubeEvents

ASSUME PipelineAssumption ==
    /\ KickEvents \cap TwitchEvents = {}
    /\ KickEvents \cap YouTubeEvents = {}
    /\ TwitchEvents \cap YouTubeEvents = {}
    /\ QueueSize \in Nat \ {0}
    /\ MaxRuns \in Nat \ {0}

Sockets == {"twitch", "youtube"}
EventsOf(s) == IF s = "twitch" THEN TwitchEvents ELSE YouTubeEvents

VARIABLES
    process,    \* "up", "stopping" (contexts cancelled) or "down"
    runs,       \* number of process starts so far
    queue,      \* the channel messages
    accepted,   \* the Kick events in the webhook's map seen
    answered,   \* the Kick events Kick got a 204 for (Kick's own memory)
    pending,    \* [Sockets -> SUBSET Messages]: what an adapter is about to send
    forward,    \* where the forward goroutine is
    current,    \* the message it has in hand: a set of at most one
    archive,    \* the rows of the archive, in order of insertion
    failed,     \* an archive write of this process has failed
    observed,   \* the messages shown to Observe, of all processes
    relayed     \* the messages broadcast, of all processes

memory == <<queue, accepted, pending, forward, current, failed>>
vars == <<process, runs, memory, answered, archive, observed, relayed>>

Running == process # "down"
Stored(m) == m \in Range(archive)

TypeOK ==
    /\ process \in {"up", "stopping", "down"}
    /\ runs \in 1 .. MaxRuns
    /\ queue \in Seq(Messages)
    /\ Len(queue) <= QueueSize
    /\ accepted \in SUBSET KickEvents
    /\ answered \in SUBSET KickEvents
    /\ pending \in [Sockets -> SUBSET Messages]
    /\ \A s \in Sockets : pending[s] \subseteq EventsOf(s)
    /\ forward \in {"waiting", "accepting", "observing", "relaying", "exited"}
    /\ current \in SUBSET Messages
    /\ archive \in Seq(Messages)
    /\ failed \in BOOLEAN
    /\ observed \in Seq(Messages)
    /\ relayed \in Seq(Messages)

Init ==
    /\ process = "up"
    /\ runs = 1
    /\ queue = <<>>
    /\ accepted = {}
    /\ pending = [s \in Sockets |-> {}]
    /\ forward = "waiting"
    /\ current = {}
    /\ failed = FALSE
    /\ answered = {}
    /\ archive = <<>>
    /\ observed = <<>>
    /\ relayed = <<>>

-----------------------------------------------------------------------------
(* The producers.                                                          *)

\* Deviation: one message more than the channel holds.
QueueHasRoomOffByOne == Len(queue) <= QueueSize

QueueHasRoom == Len(queue) < QueueSize

\* A signed webhook for an event Kick has no 204 for.  The answer may be lost
\* on its way, in which case Kick sends the event again.
Answer(e) == answered' = answered \cup {e} \/ UNCHANGED answered

KickQueued(e) ==
    /\ Running
    /\ e \notin answered
    /\ e \notin accepted
    /\ QueueHasRoom
    /\ queue' = Append(queue, e)
    /\ accepted' = accepted \cup {e}
    /\ Answer(e)
    /\ UNCHANGED <<process, runs, pending, forward, current, failed, archive,
                   observed, relayed>>

\* A repeat is answered 204 from the map; a full queue is answered 503, and
\* leaves everything as it is.
KickRepeated(e) ==
    /\ Running
    /\ e \notin answered
    /\ e \in accepted
    /\ answered' = answered \cup {e}
    /\ UNCHANGED <<process, runs, memory, archive, observed, relayed>>

\* An adapter reads a message from its provider; a provider that is read again
\* from an earlier point, or reconnected to, repeats messages.
SocketReads(s, m) ==
    /\ Running
    /\ m \in EventsOf(s)
    /\ pending[s] = {}
    /\ pending' = [pending EXCEPT ![s] = {m}]
    /\ UNCHANGED <<process, runs, queue, accepted, forward, current, failed,
                   answered, archive, observed, relayed>>

\* case out <- message
SocketSends(s, m) ==
    /\ Running
    /\ pending[s] = {m}
    /\ QueueHasRoom
    /\ queue' = Append(queue, m)
    /\ pending' = [pending EXCEPT ![s] = {}]
    /\ UNCHANGED <<process, runs, accepted, forward, current, failed,
                   answered, archive, observed, relayed>>

\* case <-ctx.Done(): the adapter returns with the message in hand
SocketGivesUp(s) ==
    /\ process = "stopping"
    /\ pending[s] # {}
    /\ pending' = [pending EXCEPT ![s] = {}]
    /\ UNCHANGED <<process, runs, queue, accepted, forward, current, failed,
                   answered, archive, observed, relayed>>

-----------------------------------------------------------------------------
(* The forward goroutine: take, Accept, Observe, Broadcast.                *)

Holds(m) == current = {m}

Take ==
    /\ Running
    /\ forward = "waiting"
    /\ queue # <<>>
    /\ current' = {Head(queue)}
    /\ queue' = Tail(queue)
    /\ forward' = "accepting"
    /\ UNCHANGED <<process, runs, accepted, pending, failed, answered,
                   archive, observed, relayed>>

\* archive.Store inserts a row and reports true.
StoreNew(m) ==
    /\ Running
    /\ forward = "accepting"
    /\ Holds(m)
    /\ ~Stored(m)
    /\ archive' = Append(archive, m)
    /\ forward' = "observing"
    /\ UNCHANGED <<process, runs, queue, accepted, pending, current, failed,
                   answered, observed, relayed>>

\* Deviation: the duplicate is shown all the same.
DuplicateShown(m) ==
    /\ Running
    /\ forward = "accepting"
    /\ Holds(m)
    /\ Stored(m)
    /\ forward' = "observing"
    /\ UNCHANGED <<process, runs, queue, accepted, pending, current, failed,
                   answered, archive, observed, relayed>>

\* ON CONFLICT(platform, message_id) DO NOTHING: false, and the loop goes on.
StoreDuplicate(m) ==
    /\ Running
    /\ forward = "accepting"
    /\ Holds(m)
    /\ Stored(m)
    /\ current' = {}
    /\ forward' = "waiting"
    /\ UNCHANGED <<process, runs, queue, accepted, pending, failed, answered,
                   archive, observed, relayed>>

\* An error may be reported of a row that was committed all the same.
RowMayBeWritten(m) ==
    \/ UNCHANGED archive
    \/ ~Stored(m) /\ archive' = Append(archive, m)

\* Deviations: the message is shown although its write failed; the loop goes on
\* with the next message.
StoreFailureIgnored(m) ==
    /\ Running
    /\ forward = "accepting"
    /\ Holds(m)
    /\ RowMayBeWritten(m)
    /\ forward' = "observing"
    /\ UNCHANGED <<process, runs, queue, accepted, pending, current, failed,
                   answered, observed, relayed>>
StoreFailureSkipped(m) ==
    /\ Running
    /\ forward = "accepting"
    /\ Holds(m)
    /\ RowMayBeWritten(m)
    /\ forward' = "waiting"
    /\ current' = {}
    /\ failed' = TRUE
    /\ UNCHANGED <<process, runs, queue, accepted, pending, answered,
                   observed, relayed>>

\* archive.Store returns an error and so does forward.
StoreFails(m) ==
    /\ Running
    /\ forward = "accepting"
    /\ Holds(m)
    /\ RowMayBeWritten(m)
    /\ forward' = "exited"
    /\ failed' = TRUE
    /\ UNCHANGED <<process, runs, queue, accepted, pending, current, answered,
                   observed, relayed>>

\* Deviation: a message the observers have no room for is not relayed.
ObserveOrDrop(m) ==
    /\ Running
    /\ forward = "observing"
    /\ Holds(m)
    /\ \/ observed' = Append(observed, m) /\ forward' = "relaying" /\ UNCHANGED current
       \/ UNCHANGED observed /\ forward' = "waiting" /\ current' = {}
    /\ UNCHANGED <<process, runs, queue, accepted, pending, failed, answered,
                   archive, relayed>>

\* server.Observe: the status service, and the bot engine, which drops what its
\* own queue has no room for.
Observe(m) ==
    /\ Running
    /\ forward = "observing"
    /\ Holds(m)
    /\ observed' = Append(observed, m)
    /\ forward' = "relaying"
    /\ UNCHANGED <<process, runs, queue, accepted, pending, current, failed,
                   answered, archive, relayed>>

\* server.Broadcast to the hub.  A message that was stored is valid, so
\* Broadcast does not fail.
Relay(m) ==
    /\ Running
    /\ forward = "relaying"
    /\ Holds(m)
    /\ relayed' = Append(relayed, m)
    /\ current' = {}
    /\ forward' = "waiting"
    /\ UNCHANGED <<process, runs, queue, accepted, pending, failed, answered,
                   archive, observed>>

\* case <-ctx.Done(), which the select may also leave for a later turn
ForwardStops ==
    /\ process = "stopping"
    /\ forward = "waiting"
    /\ forward' = "exited"
    /\ UNCHANGED <<process, runs, queue, accepted, pending, current, failed,
                   answered, archive, observed, relayed>>

-----------------------------------------------------------------------------
(* The process.                                                            *)

\* A signal, a failed listener, or a YouTube adapter that ends: the contexts
\* are cancelled.  Kick's requests are served until Shutdown returns.
StopRequested ==
    /\ process = "up"
    /\ process' = "stopping"
    /\ UNCHANGED <<runs, memory, answered, archive, observed, relayed>>

\* Deviation: the error of forward is not looked at.
FailureUnnoticed == FALSE /\ UNCHANGED vars

\* Run receives forwardErr, cancels and returns it; so does serve.
FailureStops ==
    /\ process = "up"
    /\ forward = "exited"
    /\ process' = "stopping"
    /\ UNCHANGED <<runs, memory, answered, archive, observed, relayed>>

Ends ==
    /\ process' = "down"
    /\ queue' = <<>>
    /\ accepted' = {}
    /\ pending' = [s \in Sockets |-> {}]
    /\ forward' = "waiting"
    /\ current' = {}
    /\ failed' = FALSE
    /\ UNCHANGED <<runs, answered, archive, observed, relayed>>

\* Run waits five seconds at most for the HTTP server and not at all for the
\* forward goroutine, the adapters or the queue.
Exit == process = "stopping" /\ Ends

Crash == Running /\ Ends

Restart ==
    /\ process = "down"
    /\ runs < MaxRuns
    /\ process' = "up"
    /\ runs' = runs + 1
    /\ UNCHANGED <<memory, answered, archive, observed, relayed>>

-----------------------------------------------------------------------------

Produce ==
    \/ \E e \in KickEvents : KickQueued(e) \/ KickRepeated(e)
    \/ \E s \in Sockets :
          \/ SocketGivesUp(s)
          \/ \E m \in Messages : SocketReads(s, m) \/ SocketSends(s, m)

Accept(m) == StoreNew(m) \/ StoreDuplicate(m) \/ StoreFails(m)

Forward ==
    \/ Take \/ ForwardStops
    \/ \E m \in Messages : Accept(m) \/ Observe(m) \/ Relay(m)

Process == StopRequested \/ FailureStops \/ Exit \/ Crash \/ Restart

Next == Produce \/ Forward \/ Process

Spec == Init /\ [][Next]_vars

\* The forward goroutine runs when it can; Run sees its error; a stopping
\* process ends.  Nothing makes a provider send, an operator stop the server or
\* systemd start it.
Fairness ==
    /\ WF_vars(Take)
    /\ \A m \in Messages :
        WF_vars(Accept(m)) /\ WF_vars(Observe(m)) /\ WF_vars(Relay(m))
    /\ WF_vars(FailureStops)
    /\ WF_vars(Exit)

FairSpec == Spec /\ Fairness

-----------------------------------------------------------------------------
(* Properties.                                                             *)

NoRepetition(seq) == \A i, j \in 1 .. Len(seq) : seq[i] = seq[j] => i = j

\* The SQLite-before-relay gate (README.md:207): whatever fails, crashes or is
\* delivered again, no client and no observer is shown a message that is not in
\* the archive.
ShownIsArchived == Range(observed) \cup Range(relayed) \subseteq Range(archive)

\* No message is shown twice to the clients or to the observers (who answer
\* events in chat), even when providers repeat it to a later process
\* (archive.go:135-166, relay.go:310-312).
ShownOnce == NoRepetition(observed) /\ NoRepetition(relayed)

\* A process archives at most one message that is never relayed: the one
\* forward has in hand when it ends.
AtMostOneUnrelayedPerRun ==
    Cardinality(Range(archive) \ Range(relayed)) <= runs

\* After an archive write has failed, the process shows nothing and stores
\* nothing any more (README.md:294, relay.go:306-309).
NothingShownAfterFailure ==
    [][failed => UNCHANGED <<archive, observed, relayed>>]_vars

\* A failed archive write ends the process; it does not limp on.
FailureEndsProcess == failed ~> process = "down"

\* A message that reached the queue is archived unless the process stops.
QueuedIsArchived ==
    \A m \in Messages : m \in Range(queue) ~> Stored(m) \/ process # "up"

\* The pipeline goes on or ends: it neither limps on after a failure nor sits on
\* messages it could archive.
PipelineGoesOn == FailureEndsProcess /\ QueuedIsArchived

\* An event Kick was answered 204 for is archived, at the latest, when the
\* process ends: README.md:48 has it that events "enter Streamchat's ordinary
\* relay and archive exactly once".
AnsweredIsArchived == ~Running => answered \subseteq Range(archive)

\* The server, with its queue, failures and restarts, keeps the promise of
\* ArchivedRelay: the message stored last is the only one that may be relayed.
Promise == INSTANCE ArchivedRelay WITH
    fresh <- IF forward \in {"observing", "relaying"} THEN current ELSE {}

ImplementsArchivedRelay == Promise!Spec
=============================================================================
