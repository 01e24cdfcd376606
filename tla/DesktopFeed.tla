----------------------------- MODULE DesktopFeed ------------------------------
(***************************************************************************)
(* How chat and state reach the pages of the desktop client: relay.Client  *)
(* (internal/relay/relay.go) reads the relay and reports its own state,    *)
(* Runtime (internal/clientruntime/runtime.go) turns reports, changes of   *)
(* target and refreshed statuses into notifications, and gui.Server        *)
(* (internal/gui/gui.go) keeps the history and feeds the pages that read   *)
(* /events.                                                                *)
(*                                                                         *)
(* A notification takes three steps: the value is set under the lock of    *)
(* the runtime, the state is read under it again, and the listener is      *)
(* called without it.  The client notifies, and so does every request that *)
(* selects a target or asks for the state, all of them at once if need be. *)
(* (The selection is no part of what the lock covers, and is read after    *)
(* the rest; here the state is read in one step.)  Publishing, and a       *)
(* page's registration together with its copy of the history, hold the     *)
(* lock of the server.                                                     *)
(***************************************************************************)
EXTENDS Naturals, Sequences, FiniteSets, SequencesExt, FiniteSetsExt

CONSTANTS
    Pages,          \* browsers that read /events
    Handlers,       \* requests that select a target or refresh the statuses
    Targets,
    Statuses,       \* what the platforms say of the streams
    HistoryLimit,   \* messages kept for new pages, 500
    Buffer,         \* events a slow page may lag behind, 128
    QueueSize,      \* cfg.QueueSize
    MaxMessages,    \* bound on messages of the relay
    MaxFaults,      \* bound on lost connections, failed dials and bad messages
    MaxVisits       \* bound on registrations of pages

ConstantsOK ==
    /\ {HistoryLimit, Buffer, QueueSize} \subseteq Nat \ {0}
    /\ {MaxMessages, MaxFaults, MaxVisits} \subseteq Nat
    /\ "client" \notin Handlers /\ "none" \notin Targets

VARIABLES
    relay,      \* relay.Client: pc, the messages in the socket, the report to
                \* be made and where it leads
    queue,      \* the channel between the client and the publishing goroutine
    runtime,    \* the relay state, the selected target and the statuses
    notifier,   \* per actor: the notification under way
    server,     \* gui.Server: the history and everything published, and whether
                \* the publishing goroutine runs
    page,       \* per page: its channel, what it was sent, the state it shows
    hist        \* ctx, messages sent, faults, visits; since: the values the state
                \* had since notifications are under way, or in the last such time

vars == <<relay, queue, runtime, notifier, server, page, hist>>

Actors == {"client"} \cup Handlers
NoTarget == "none"
Unasked == "unasked"
NoState == [relay |-> "?", selected |-> NoTarget, streams |-> Unasked]
Quiet == [pc |-> "idle", state |-> NoState]
MessageEvent(n) == [name |-> "message", id |-> n, state |-> NoState]
StateEvent(state) == [name |-> "state", id |-> 0, state |-> state]
Unvisited == [pc |-> "away", open |-> FALSE, buffer |-> <<>>, sent |-> <<>>,
              from |-> 1, state |-> NoState]

Init ==
    /\ relay = [pc |-> "report", conn |-> <<>>, report |-> "connecting", then |-> "dial"]
    /\ queue = <<>>
    /\ runtime = [relay |-> "disconnected", selected |-> NoTarget, streams |-> Unasked]
    /\ notifier = [a \in Actors |-> Quiet]
    /\ server = [history |-> <<>>, published |-> <<>>, publishing |-> TRUE]
    /\ page = [p \in Pages |-> Unvisited]
    /\ hist = [ctx |-> TRUE, sent |-> 0, faults |-> 0, visits |-> 0,
               since |-> {runtime}]

Fault == hist.faults < MaxFaults

\* hist after one more of these faults.
Faulty == [hist EXCEPT !.faults = @ + 1]

(************************* Runtime: notifications **************************)

\* Publish and publishEvent never wait: a page that has not read as many
\* events as its buffer holds is dropped.
Sent(pages, event) ==
    [p \in Pages |->
       IF ~pages[p].open THEN pages[p]
       ELSE IF Len(pages[p].buffer) < Buffer
            THEN [pages[p] EXCEPT !.buffer = Append(@, event)]
            ELSE [pages[p] EXCEPT !.open = FALSE]]

\* notify: State() reads what is current, and the listener publishes it later.
ReadState(a) ==
    /\ notifier[a].pc = "read"
    /\ notifier' = [notifier EXCEPT ![a] = [pc |-> "publish", state |-> runtime]]
    /\ UNCHANGED <<relay, queue, runtime, server, page, hist>>

PublishState(a) ==
    /\ notifier[a].pc = "publish"
    /\ notifier' = [notifier EXCEPT ![a] = Quiet]
    /\ page' = Sent(page, StateEvent(notifier[a].state))
    /\ UNCHANGED <<relay, queue, runtime, server, hist>>

\* No notification is under way.
Still == \A a \in Actors : notifier[a].pc = "idle"

\* a changes the runtime and begins to notify of it.
Notify(a, state) ==
    /\ runtime' = state
    /\ notifier' = [notifier EXCEPT ![a].pc = "read"]
    /\ hist' = [hist EXCEPT !.since = (IF Still THEN {} ELSE @) \cup {state}]

\* A request selects a target; Session.selectTarget tells the runtime.
SelectTarget(h) ==
    /\ notifier[h].pc = "idle"
    /\ \E target \in Targets \ {runtime.selected} :
         Notify(h, [runtime EXCEPT !.selected = target])
    /\ UNCHANGED <<relay, queue, server, page>>

\* A request for the state asks the platforms and notifies whatever they said.
RefreshStatus(h) ==
    /\ notifier[h].pc = "idle"
    /\ \E status \in Statuses : Notify(h, [runtime EXCEPT !.streams = status])
    /\ UNCHANGED <<relay, queue, server, page>>

(************************** relay.Client.Run *******************************)

\* SetRelayState notifies of a change only, and returns when the listener has.
Report ==
    /\ relay.pc = "report" /\ notifier["client"].pc = "idle"
    /\ \/ runtime.relay = relay.report /\ UNCHANGED <<runtime, notifier, hist>>
       \/ /\ runtime.relay # relay.report
          /\ Notify("client", [runtime EXCEPT !.relay = relay.report])
    /\ relay' = [relay EXCEPT !.pc = relay.then]
    /\ UNCHANGED <<queue, server, page>>

\* The client goes on when its notification is done.
ClientAt(pc) == relay.pc = pc /\ notifier["client"].pc = "idle"

Reporting(value, then) ==
    [pc |-> "report", conn |-> <<>>, report |-> value, then |-> then]

\* What Run reports when read has failed.
Failed == IF hist.ctx THEN Reporting("reconnecting", "wait") ELSE Reporting("stopped", "ended")

Dial ==
    /\ ClientAt("dial")
    /\ \/ hist.ctx /\ relay' = Reporting("connected", "reading") /\ UNCHANGED hist
       \/ ~hist.ctx /\ relay' = Failed /\ UNCHANGED hist
       \/ hist.ctx /\ Fault /\ relay' = Failed /\ hist' = Faulty
    /\ UNCHANGED <<queue, runtime, notifier, server, page>>

\* HTTP 401: Run gives up, and run of streamchat-gui reports its error.
DialRejected ==
    /\ ClientAt("dial") /\ hist.ctx /\ Fault
    /\ relay' = Reporting("authentication failed", "rejected")
    /\ hist' = Faulty
    /\ UNCHANGED <<queue, runtime, notifier, server, page>>

ReportRejected ==
    /\ ClientAt("rejected")
    /\ relay' = Reporting("failed", "ended")
    /\ UNCHANGED <<queue, runtime, notifier, server, page, hist>>

Connected == relay.pc = "reading" \/ (relay.pc = "report" /\ relay.then = "reading")

\* The relay sends a message to whoever is connected.
Broadcast ==
    /\ hist.sent < MaxMessages
    /\ hist' = [hist EXCEPT !.sent = @ + 1]
    /\ relay' = IF Connected THEN [relay EXCEPT !.conn = Append(@, hist.sent + 1)] ELSE relay
    /\ UNCHANGED <<queue, runtime, notifier, server, page>>

\* Deviation: a message that finds the queue full is read again later.
ReadMessageAgain ==
    /\ ClientAt("reading") /\ relay.conn # <<>>
    /\ queue' = IF Len(queue) < QueueSize THEN Append(queue, Head(relay.conn)) ELSE queue
    /\ relay' = [relay EXCEPT !.conn = IF Len(queue) < QueueSize THEN Tail(@)
                                       ELSE Append(Tail(@), Head(@))]
    /\ UNCHANGED <<runtime, notifier, server, page, hist>>

ReadMessage ==
    /\ ClientAt("reading") /\ relay.conn # <<>> /\ Len(queue) < QueueSize
    /\ queue' = Append(queue, Head(relay.conn))
    /\ relay' = [relay EXCEPT !.conn = Tail(@)]
    /\ UNCHANGED <<runtime, notifier, server, page, hist>>

\* The connection is lost with what was in it, or a message is invalid.
ConnectionLost ==
    /\ ClientAt("reading") /\ Fault
    /\ relay' = Failed
    /\ hist' = Faulty
    /\ UNCHANGED <<queue, runtime, notifier, server, page>>

\* The context is cancelled: a goroutine closes the connection.
ReadCancelled ==
    /\ ClientAt("reading") /\ ~hist.ctx
    /\ relay' = Failed
    /\ UNCHANGED <<queue, runtime, notifier, server, page, hist>>

\* Deviation: only the context ends the wait.
RetryTimerNever ==
    /\ ClientAt("wait") /\ hist.ctx /\ Fault
    /\ relay' = [relay EXCEPT !.pc = "dial"]
    /\ UNCHANGED <<queue, runtime, notifier, server, page, hist>>

RetryTimer ==
    /\ ClientAt("wait") /\ hist.ctx
    /\ relay' = [relay EXCEPT !.pc = "dial"]
    /\ UNCHANGED <<queue, runtime, notifier, server, page, hist>>

WaitCancelled ==
    /\ ClientAt("wait") /\ ~hist.ctx
    /\ relay' = [relay EXCEPT !.pc = "ended"]
    /\ UNCHANGED <<queue, runtime, notifier, server, page, hist>>

(**************************** gui.Server ***********************************)

\* Deviation: the history is trimmed before the message is added.
PublishTrimmedFirst ==
    /\ server.publishing /\ queue # <<>>
    /\ queue' = Tail(queue)
    /\ server' = [server EXCEPT
                    !.history = Append(IF Len(@) > HistoryLimit THEN Tail(@) ELSE @, Head(queue)),
                    !.published = Append(@, Head(queue))]
    /\ page' = Sent(page, MessageEvent(Head(queue)))
    /\ UNCHANGED <<relay, runtime, notifier, hist>>

\* Deviation: publishing waits for the slowest page.
PublishBlocking ==
    /\ server.publishing /\ queue # <<>>
    /\ \A p \in Pages : page[p].open => Len(page[p].buffer) < Buffer
    /\ queue' = Tail(queue)
    /\ server' = [server EXCEPT
                    !.history = LET all == Append(@, Head(queue))
                                IN IF Len(all) > HistoryLimit THEN Tail(all) ELSE all,
                    !.published = Append(@, Head(queue))]
    /\ page' = Sent(page, MessageEvent(Head(queue)))
    /\ UNCHANGED <<relay, runtime, notifier, hist>>

\* Publish: one message into the history and to every page.
Publish ==
    /\ server.publishing /\ queue # <<>>
    /\ queue' = Tail(queue)
    /\ server' = [server EXCEPT
                    !.history = LET all == Append(@, Head(queue))
                                IN IF Len(all) > HistoryLimit THEN Tail(all) ELSE all,
                    !.published = Append(@, Head(queue))]
    /\ page' = Sent(page, MessageEvent(Head(queue)))
    /\ UNCHANGED <<relay, runtime, notifier, hist>>

\* The publishing goroutine returns, and what is in the queue stays there.
PublisherReturns ==
    /\ server.publishing /\ ~hist.ctx
    /\ server' = [server EXCEPT !.publishing = FALSE]
    /\ UNCHANGED <<relay, queue, runtime, notifier, page, hist>>

\* A page opens /events: its channel and its copy of the history are made
\* under one lock.
Subscribe(p) ==
    /\ page[p].pc = "away" /\ hist.visits < MaxVisits
    /\ page' = [page EXCEPT ![p] =
                  [pc |-> "first", open |-> TRUE, buffer |-> <<>>, state |-> NoState,
                   sent |-> server.history,
                   from |-> Len(server.published) - Len(server.history) + 1]]
    /\ hist' = [hist EXCEPT !.visits = @ + 1]
    /\ UNCHANGED <<relay, queue, runtime, notifier, server>>

\* Deviation: the history is copied when it is written.
WriteFirstLate(p) ==
    /\ page[p].pc = "first"
    /\ page' = [page EXCEPT ![p].pc = "live", ![p].state = runtime,
                            ![p].sent = server.history,
                            ![p].from = Len(server.published) - Len(server.history) + 1]
    /\ UNCHANGED <<relay, queue, runtime, notifier, server, hist>>

\* Deviation: the state is not sent to a page that opens.
WriteFirstStateless(p) ==
    /\ page[p].pc = "first"
    /\ page' = [page EXCEPT ![p].pc = "live"]
    /\ UNCHANGED <<relay, queue, runtime, notifier, server, hist>>

\* It is first sent the state, which is read now, and the history.
WriteFirst(p) ==
    /\ page[p].pc = "first"
    /\ page' = [page EXCEPT ![p].pc = "live", ![p].state = runtime]
    /\ UNCHANGED <<relay, queue, runtime, notifier, server, hist>>

\* Then every event of its channel, also those left when it was dropped.
WriteEvent(p) ==
    /\ page[p].pc = "live" /\ page[p].buffer # <<>>
    /\ LET event == Head(page[p].buffer) IN
         page' = [page EXCEPT ![p].buffer = Tail(@),
                              ![p].sent = IF event.name = "message" THEN Append(@, event.id) ELSE @,
                              ![p].state = IF event.name = "state" THEN event.state ELSE @]
    /\ UNCHANGED <<relay, queue, runtime, notifier, server, hist>>

\* The page closes, or its closed channel is empty; the page opens /events
\* again if it likes.
Leave(p) ==
    /\ page[p].pc = "live"
    /\ page' = [page EXCEPT ![p] = Unvisited]
    /\ UNCHANGED <<relay, queue, runtime, notifier, server, hist>>

Cancel ==
    /\ hist.ctx
    /\ hist' = [hist EXCEPT !.ctx = FALSE]
    /\ UNCHANGED <<relay, queue, runtime, notifier, server, page>>

Client ==
    \/ Report \/ Dial \/ DialRejected \/ ReportRejected \/ ReadMessage
    \/ ConnectionLost \/ ReadCancelled \/ RetryTimer \/ WaitCancelled

Next ==
    \/ Client \/ Broadcast \/ Publish \/ PublisherReturns \/ Cancel
    \/ \E a \in Actors : ReadState(a) \/ PublishState(a)
    \/ \E h \in Handlers : SelectTarget(h) \/ RefreshStatus(h)
    \/ \E p \in Pages : Subscribe(p) \/ WriteFirst(p) \/ WriteEvent(p) \/ Leave(p)

Spec == Init /\ [][Next]_vars

\* Goroutines of the process run; no page has to read anything.
Fairness ==
    /\ WF_vars(Client) /\ WF_vars(Publish \/ PublisherReturns)
    /\ \A a \in Actors : WF_vars(ReadState(a) \/ PublishState(a))

LiveSpec == Spec /\ Fairness

-----------------------------------------------------------------------------

(* The variables have their types, the queue and the channels keep within  *)
(* their capacities, and the history is the newest part of what was        *)
(* published, as long as it may be.                                        *)
TypeOK ==
    /\ relay.pc \in {"report", "dial", "reading", "wait", "rejected", "ended"}
    /\ Len(queue) <= QueueSize
    /\ \A a \in Actors : notifier[a].pc \in {"idle", "read", "publish"}
    /\ \A p \in Pages : Len(page[p].buffer) <= Buffer
    /\ LET n == Len(server.published) IN
         server.history = SubSeq(server.published, n - Min({n, HistoryLimit}) + 1, n)

MessageIds(events) ==
    LET ids[i \in 0 .. Len(events)] ==
            IF i = 0 THEN <<>>
            ELSE IF events[i].name = "message" THEN Append(ids[i - 1], events[i].id)
            ELSE ids[i - 1]
    IN ids[Len(events)]

(* A page gets the history it registered with and then every message, none *)
(* twice and none missing: what it was sent and what waits in its channel  *)
(* are published messages in a row, up to the newest unless it was dropped *)
(* for being slow.                                                         *)
PageIsGapless ==
    \A p \in Pages : page[p].pc # "away" =>
        LET got == page[p].sent \o MessageIds(page[p].buffer)
            last == page[p].from + Len(got) - 1
        IN  /\ last <= Len(server.published)
            /\ got = SubSeq(server.published, page[p].from, last)
            /\ page[p].open => last = Len(server.published)

(* Lost connections lose messages, and nothing else: what is published is  *)
(* in the order of the relay, each message once.                           *)
PublishedInOrder ==
    \A i, j \in 1 .. Len(server.published) :
        i < j => server.published[i] < server.published[j]

(* The last state a page was sent, once it has read all of its events and  *)
(* was not dropped and no notification is under way, is one that the       *)
(* runtime had since the last notifications began; if it was a single one  *)
(* and none overlapped with it, that is the state there is.  The state     *)
(* read for a new page may be newer than one still in its channel, but     *)
(* what the notifications publish always follows.  Of several at once the  *)
(* one that read first may publish last, so part of what the page was sent *)
(* may be as old as the first of them.                                     *)
PageIsCurrent ==
    Still =>
        \A p \in Pages :
            (page[p].pc = "live" /\ page[p].open /\ page[p].buffer = <<>>) =>
                \A part \in DOMAIN runtime :
                    \E state \in hist.since : page[p].state[part] = state[part]

(* What is published, and what each page is sent, is every message once    *)
(* and in order, and a state from the last notifications.                  *)
FeedSafety == TypeOK /\ PageIsGapless /\ PublishedInOrder /\ PageIsCurrent

(* A message read from the relay is published whatever the pages do: a     *)
(* page that reads nothing is dropped, not waited for.  Only the end of    *)
(* the application leaves messages in the queue.                           *)
QueuedIsPublished == \A n \in 1 .. MaxMessages :
    (n \in ToSet(queue)) ~> (n \in ToSet(server.published) \/ ~hist.ctx)

(* The client does not stop trying: it is connected in the end, unless the *)
(* application ends or the relay refuses its token.                        *)
ReconnectsUntilRefused == (relay.pc = "wait") ~> (relay.pc \in {"reading", "rejected", "ended"})

(* relay_test.go: a client whose context is cancelled reports "stopped"    *)
(* before Run returns.                                                     *)
StoppedIsReported ==
    (relay.pc = "ended" /\ runtime.relay # "failed") => runtime.relay = "stopped"
=============================================================================
