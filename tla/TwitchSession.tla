---------------------------- MODULE TwitchSession ----------------------------
(***************************************************************************)
(* The EventSub session of internal/platform/twitch/twitch.go: Run dials   *)
(* and reads one socket at a time, follows a session_reconnect to a        *)
(* replacement that inherits the subscriptions, and lets a second          *)
(* goroutine read the old socket until the replacement is welcomed.        *)
(* Twitch and the network are the environment.                             *)
(***************************************************************************)
EXTENDS Naturals, Sequences, FiniteSets, SequencesExt

CONSTANTS
    Events,         \* the notifications Twitch may send
    MaxSockets,     \* bound on the sockets that are ever opened
    MaxFaults,      \* bound on lost sockets, failed calls and repeated sends
    MaxReconnects,  \* bound on session_reconnect messages
    URLsExpire,     \* may a reconnect URL stop answering?
    Window          \* the 10000 message IDs of Client.order

ConstantsOK ==
    /\ MaxSockets \in Nat /\ MaxFaults \in Nat /\ MaxReconnects \in Nat
    /\ URLsExpire \in BOOLEAN
    /\ Window \in Nat \ {0}
    /\ Events \cap {"none", "welcome", "reconnect", "revoked", "failure"} = {}

Sockets == 1 .. MaxSockets
None == 0
NoEvent == "none"

VARIABLES
    state,      \* Run: "dialling", "reading", "waiting", "returned"
    url,        \* "default" or "reconnect"
    inherited,  \* the next socket inherits the subscriptions of previous
    adopted,    \* the socket being read has been welcomed, or is not inherited
    conn,       \* the socket Run reads
    previous,   \* the socket it reads no longer but keeps open
    started,    \* previousDone is set: previous has got its own reader
    oldReaders, \* the replaced sockets that goroutines of their own still read
    hand,       \* [Sockets -> the event its reader is putting in the channel]
    recorded,   \* every ID put in Client.order, oldest first
    delivered,  \* what went into the channel
    asked,      \* sessions for which subscriptions were requested
    cancelled,  \* ctx is done
    sockets,    \* sockets opened so far
    open,       \* the sockets the client has not closed
    lost,       \* the sockets the network or Twitch has ended
    inbox,      \* [Sockets -> frames not yet read]
    subscribed, \* the sockets Twitch sends notifications to
    published,  \* the notifications that have happened
    urlAlive,   \* the reconnect URL answers
    reconnects, faults

client == <<state, url, inherited, adopted, conn, previous, started, oldReaders,
            hand, recorded, delivered, asked>>
network == <<sockets, open, lost, inbox, subscribed, published, urlAlive,
             reconnects, faults>>
vars == <<client, cancelled, network>>

Frames == Events \cup {"welcome", "reconnect", "revoked", "failure"}

TypeOK ==
    /\ state \in {"dialling", "reading", "waiting", "returned"}
    /\ url \in {"default", "reconnect"}
    /\ inherited \in BOOLEAN /\ adopted \in BOOLEAN /\ cancelled \in BOOLEAN
    /\ conn \in Sockets \cup {None} /\ previous \in Sockets \cup {None}
    /\ started \in BOOLEAN /\ (started => previous # None \/ state = "returned")
    /\ oldReaders \subseteq Sockets
    /\ hand \in [Sockets -> Events \cup {NoEvent}]
    /\ recorded \in Seq(Events) /\ delivered \in Seq(Events)
    /\ sockets \in 0 .. MaxSockets
    /\ open \subseteq Sockets /\ lost \subseteq Sockets /\ subscribed \subseteq Sockets
    /\ inbox \in [Sockets -> Seq(Frames)]
    /\ published \subseteq Events
    /\ asked \in 0 .. MaxSockets
    /\ urlAlive \in BOOLEAN
    /\ reconnects \in 0 .. MaxReconnects /\ faults \in 0 .. MaxFaults

Init ==
    /\ state = "dialling" /\ url = "default"
    /\ inherited = FALSE /\ adopted = FALSE /\ cancelled = FALSE
    /\ conn = None /\ previous = None
    /\ started = FALSE /\ oldReaders = {}
    /\ hand = [s \in Sockets |-> NoEvent]
    /\ recorded = <<>> /\ delivered = <<>> /\ asked = 0
    /\ sockets = 0
    /\ open = {} /\ lost = {} /\ subscribed = {}
    /\ inbox = [s \in Sockets |-> <<>>]
    /\ published = {}
    /\ urlAlive = FALSE
    /\ reconnects = 0 /\ faults = 0

-----------------------------------------------------------------------------
(* Twitch and the network.                                                 *)

Alive(s) == s \in open \ lost

Receive(s, frame) == inbox' = [inbox EXCEPT ![s] = Append(@, frame)]

Fault == faults < MaxFaults /\ faults' = faults + 1

\* A notification goes to every socket that holds the subscriptions.
Publish(e) ==
    /\ e \notin published
    /\ published' = published \cup {e}
    /\ inbox' = [s \in Sockets |-> IF s \in subscribed /\ Alive(s)
                                   THEN Append(inbox[s], e) ELSE inbox[s]]
    /\ UNCHANGED <<client, cancelled, sockets, open, lost, subscribed, urlAlive,
                   reconnects, faults>>

\* Delivery is at least once: a notification may be sent again.
SendAgain(e, s) ==
    /\ e \in published
    /\ s \in subscribed /\ Alive(s)
    /\ Fault
    /\ Receive(s, e)
    /\ UNCHANGED <<client, cancelled, sockets, open, lost, subscribed, published,
                   urlAlive, reconnects>>

AskReconnect(s) ==
    /\ s \in subscribed /\ Alive(s)
    /\ reconnects < MaxReconnects
    /\ reconnects' = reconnects + 1
    /\ urlAlive' = TRUE
    /\ Receive(s, "reconnect")
    /\ UNCHANGED <<client, cancelled, sockets, open, lost, subscribed, published,
                   faults>>

\* The frame that follows a revocation is never read.
Revoke(s) ==
    /\ s \in subscribed /\ Alive(s)
    /\ Fault
    /\ Receive(s, "revoked")
    /\ subscribed' = subscribed \ {s}
    /\ UNCHANGED <<client, cancelled, sockets, open, lost, published, urlAlive,
                   reconnects>>

\* The socket fails: by an error, a read deadline or a frame that is no JSON.
LoseSocket(s) ==
    /\ Alive(s)
    /\ Fault
    /\ lost' = lost \cup {s}
    /\ subscribed' = subscribed \ {s}
    /\ UNCHANGED <<client, cancelled, sockets, open, inbox, published, urlAlive,
                   reconnects>>

URLExpires ==
    /\ URLsExpire
    /\ urlAlive
    /\ urlAlive' = FALSE
    /\ UNCHANGED <<client, cancelled, sockets, open, lost, inbox, subscribed,
                   published, reconnects, faults>>

Cancel ==
    /\ ~cancelled
    /\ cancelled' = TRUE
    /\ UNCHANGED <<client, network>>

-----------------------------------------------------------------------------
(* Dialling.                                                               *)

\* The goroutine that reads the replaced socket starts with the first
\* replacement that can be dialled.
StartOldReader ==
    IF inherited /\ previous # None /\ ~started
    THEN started' = TRUE /\ oldReaders' = oldReaders \cup {previous}
    ELSE UNCHANGED <<started, oldReaders>>

DialSucceeds ==
    /\ state = "dialling" /\ ~cancelled
    /\ url = "reconnect" => urlAlive
    /\ sockets < MaxSockets
    /\ sockets' = sockets + 1
    /\ open' = open \cup {sockets + 1}
    /\ Receive(sockets + 1, "welcome")
    \* Twitch moves the subscriptions to the replacement it welcomes.
    /\ subscribed' = IF url = "reconnect" THEN {sockets + 1} ELSE subscribed
    /\ conn' = sockets + 1
    /\ adopted' = ~inherited
    /\ state' = "reading"
    /\ StartOldReader
    /\ UNCHANGED <<url, inherited, previous, hand, recorded, delivered, asked, cancelled,
                   lost, published, urlAlive, reconnects, faults>>

\* An inherited session keeps the reconnect URL.
DialFails ==
    /\ state = "dialling"
    /\ \/ (cancelled \/ (previous # None /\ ~urlAlive)) /\ UNCHANGED faults
       \/ Fault
    /\ state' = "waiting"
    /\ url' = IF inherited THEN url ELSE "default"
    /\ UNCHANGED <<inherited, adopted, conn, previous, started, oldReaders, hand,
                   recorded, delivered, asked, cancelled, sockets, open, lost, inbox,
                   subscribed, published, urlAlive, reconnects>>

Waited ==
    /\ state = "waiting" /\ ~cancelled
    /\ state' = "dialling"
    /\ UNCHANGED <<url, inherited, adopted, conn, previous, started, oldReaders,
                   hand, recorded, delivered, asked, cancelled, network>>

\* The end of Run: its deferred call closes the previous socket.
Return(closed) ==
    /\ state' = "returned"
    /\ previous' = None
    /\ open' = open \ (closed \cup {previous})

WaitCancelled ==
    /\ state = "waiting" /\ cancelled
    /\ Return({})
    /\ UNCHANGED <<url, inherited, adopted, conn, started, oldReaders, hand,
                   recorded, delivered, asked, cancelled, sockets, lost, inbox, subscribed,
                   published, urlAlive, reconnects, faults>>

-----------------------------------------------------------------------------
(* Reading.  A socket is read by Run, or by a goroutine of its own once it *)
(* is replaced; the frames of a socket the client has closed are gone.     *)

Reads(s) ==
    /\ (s = conn /\ state = "reading") \/ s \in oldReaders
    /\ hand[s] = NoEvent

ReadsFrame(s, frame) ==
    /\ Reads(s)
    /\ s \in open /\ inbox[s] # <<>>
    /\ Head(inbox[s]) = frame
    /\ inbox' = [inbox EXCEPT ![s] = Tail(@)]

\* Deviation: the window is one ID too short.
SeenShort == ToSet(IF Len(recorded) >= Window
                   THEN SubSeq(recorded, Len(recorded) - Window + 2, Len(recorded))
                   ELSE recorded)

\* Client.duplicate, under Client.mu: seen holds the last Window IDs of order.
Seen == ToSet(IF Len(recorded) > Window
              THEN SubSeq(recorded, Len(recorded) - Window + 1, Len(recorded))
              ELSE recorded)

\* Deviation: the ID that is looked up is not remembered.
ForgetID(s, e) ==
    /\ hand' = [hand EXCEPT ![s] = IF e \in Seen THEN @ ELSE e]
    /\ UNCHANGED recorded

Keep(s, e) ==
    IF e \in Seen
    THEN UNCHANGED <<recorded, hand>>
    ELSE /\ recorded' = Append(recorded, e)
         /\ hand' = [hand EXCEPT ![s] = e]

ReadNotification(s) ==
    /\ \E e \in Events : ReadsFrame(s, e) /\ Keep(s, e)
    /\ UNCHANGED <<state, url, inherited, adopted, conn, previous, started,
                   oldReaders, delivered, asked, cancelled, sockets, open, lost, subscribed,
                   published, urlAlive, reconnects, faults>>

Deliver(s) ==
    /\ hand[s] # NoEvent
    /\ delivered' = Append(delivered, hand[s])
    /\ hand' = [hand EXCEPT ![s] = NoEvent]
    /\ UNCHANGED <<state, url, inherited, adopted, conn, previous, started,
                   oldReaders, recorded, asked, cancelled, network>>

\* Deviation: the next replaced socket is taken to have its reader already.
KeepStarted ==
    /\ open' = open \ {previous}
    /\ previous' = None
    /\ UNCHANGED started

\* onWelcome closes the socket that is replaced, whatever it still holds.
ClosePrevious ==
    /\ open' = open \ {previous}
    /\ previous' = None
    /\ started' = FALSE

Ask ==
    /\ asked' = asked + 1
    /\ subscribed' = IF Alive(conn) THEN subscribed \cup {conn} ELSE subscribed

\* Deviation: the replacement subscribes too, as every other session.
SubscribeAlways == Ask

\* Only a session that inherits nothing subscribes.
Subscribe == IF inherited THEN UNCHANGED <<asked, subscribed>> ELSE Ask

Welcome ==
    /\ state = "reading" /\ ReadsFrame(conn, "welcome")
    /\ adopted' = TRUE
    /\ ClosePrevious
    /\ Subscribe
    /\ UNCHANGED <<state, url, inherited, conn, oldReaders, hand, recorded,
                   delivered, cancelled, sockets, lost, published, urlAlive,
                   reconnects, faults>>

\* Deviation: the replaced socket is given up with the replacement.
CloseBoth == open' = open \ {conn, previous}

\* Deviation: the socket that failed is left open.
LeaveOpen == UNCHANGED open

\* A socket that failed is closed, and Run waits before it dials again; only a
\* session that was adopted gives up its reconnect URL.
CloseFailed == open' = open \ {conn}

\* Deviation: the reconnect URL is used again although it was adopted.
KeepURL == UNCHANGED <<url, inherited>>

GiveUpURL ==
    IF adopted THEN url' = "default" /\ inherited' = FALSE
               ELSE UNCHANGED <<url, inherited>>

ReadFails ==
    /\ state = "reading" /\ Reads(conn)
    /\ conn \in lost
    /\ ~cancelled
    /\ state' = "waiting"
    /\ CloseFailed
    /\ GiveUpURL
    /\ UNCHANGED <<adopted, conn, previous, started, oldReaders, hand, recorded,
                   delivered, asked, cancelled, sockets, lost, inbox, subscribed, published,
                   urlAlive, reconnects, faults>>

\* A welcome whose Subscribe fails ends Run when Twitch refuses, and is tried
\* again after a network error.
SubscribeFails ==
    /\ state = "reading" /\ ~inherited /\ ReadsFrame(conn, "welcome")
    /\ Fault
    /\ adopted' = TRUE
    /\ asked' = asked + 1
    /\ open' = open \ {conn, previous}
    /\ previous' = None
    /\ started' = FALSE
    /\ state' \in {"waiting", "returned"}
    /\ url' = "default"
    /\ UNCHANGED <<inherited, conn, oldReaders, hand, recorded, delivered, cancelled,
                   sockets, lost, subscribed, published, urlAlive, reconnects>>

Revoked ==
    /\ state = "reading" /\ ReadsFrame(conn, "revoked")
    /\ Return({conn})
    /\ UNCHANGED <<url, inherited, adopted, conn, started, oldReaders, hand,
                   recorded, delivered, asked, cancelled, sockets, lost, subscribed,
                   published, urlAlive, reconnects, faults>>

\* ctx is done: the socket being read is closed under the reader.
ReadCancelled ==
    /\ state = "reading" /\ cancelled
    /\ Return({conn})
    /\ hand' = [hand EXCEPT ![conn] = NoEvent]
    /\ UNCHANGED <<url, inherited, adopted, conn, started, oldReaders, recorded,
                   delivered, asked, cancelled, sockets, lost, inbox, subscribed, published,
                   urlAlive, reconnects, faults>>

\* session_reconnect: the socket becomes the previous one and is kept open.
Reconnect ==
    /\ state = "reading" /\ ReadsFrame(conn, "reconnect")
    /\ open' = open \ {previous}
    /\ previous' = conn
    /\ started' = FALSE
    /\ url' = "reconnect"
    /\ inherited' = TRUE
    /\ state' = "dialling"
    /\ UNCHANGED <<adopted, conn, oldReaders, hand, recorded, delivered, asked, cancelled,
                   sockets, lost, subscribed, published, urlAlive, reconnects, faults>>

\* What the reader of a replaced socket does not deliver it ignores, and its end
\* is reported to nobody.
OldReaderSkips(s) ==
    /\ s \in oldReaders
    /\ ReadsFrame(s, "welcome")
    /\ UNCHANGED <<client, cancelled, sockets, open, lost, subscribed, published,
                   urlAlive, reconnects, faults>>

OldReaderEnds(s) ==
    /\ s \in oldReaders
    /\ \/ cancelled
       \/ hand[s] = NoEvent /\ s \notin open \ lost
       \/ hand[s] = NoEvent /\ inbox[s] # <<>> /\ Head(inbox[s]) \in {"revoked", "reconnect"}
    /\ oldReaders' = oldReaders \ {s}
    /\ hand' = [hand EXCEPT ![s] = NoEvent]
    /\ UNCHANGED <<state, url, inherited, adopted, conn, previous, started,
                   recorded, delivered, asked, cancelled, network>>

Client ==
    \/ DialSucceeds \/ DialFails \/ Waited \/ WaitCancelled
    \/ Welcome \/ ReadFails \/ SubscribeFails \/ Revoked \/ ReadCancelled \/ Reconnect
    \/ \E s \in Sockets : ReadNotification(s) \/ Deliver(s) \/ OldReaderEnds(s)

Network ==
    \/ \E e \in Events : Publish(e)
    \/ \E e \in Events, s \in Sockets : SendAgain(e, s)
    \/ \E s \in Sockets : AskReconnect(s) \/ Revoke(s) \/ LoseSocket(s)
    \/ URLExpires \/ Cancel

Next == Client \/ Network

Spec == Init /\ [][Next]_vars

\* Every goroutine goes on; the network owes nothing.
Fairness == WF_vars(Client)

FairSpec == Spec /\ Fairness

-----------------------------------------------------------------------------
(* Properties.                                                             *)

\* A notification is taken a second time only when at least Window others were
\* recorded after it, whichever of the two readers meets it (duplicate).
TakenOncePerWindow ==
    \A i, j \in DOMAIN recorded :
        i < j /\ recorded[i] = recorded[j] => j - i > Window

\* What was recorded as seen is delivered, or being delivered, exactly as often,
\* unless the run is being stopped: a repeat is never dropped in favour of a
\* notification that was itself lost.
Copies(e, q) == Cardinality({i \in DOMAIN q : q[i] = e})
RecordedIsDelivered ==
    ~cancelled => \A e \in Events :
        Copies(e, recorded) = Copies(e, delivered)
                              + Cardinality({s \in Sockets : hand[s] = e})

\* The client leaks no socket: what it keeps open is the socket it reads and, in
\* a reconnect, the one being replaced; after Run it has none.
NoSocketLeak ==
    open \subseteq (IF state = "reading" THEN {conn} ELSE {})
                   \cup (IF previous # None THEN {previous} ELSE {})

\* Subscriptions are requested again only after a session was lost: a reconnect
\* Twitch asked for never does (README: "follows EventSub reconnect URLs without
\* creating duplicate subscriptions").
SubscribedOncePerLoss == asked <= faults + 1

\* While a replacement has not been welcomed, the replaced socket is kept open,
\* so that it can still be read.
OldSocketKept ==
    inherited /\ ~adopted /\ state = "reading" => previous \in open

\* A notification on a socket that was neither lost nor revoked is delivered
\* (test of twitch_test.go: "notification from old socket was lost during
\* reconnect").
NothingUnreadIsClosed ==
    [][\A s \in Sockets : s \in open \ open' /\ s \notin lost /\ ~cancelled'
         /\ state' # "returned"
           => \A i \in DOMAIN inbox[s] : inbox[s][i] \notin Events]_vars

\* The EventSub client takes every notification once in its window and drops
\* none it remembers, and through handovers and losses it keeps the right
\* sockets and subscribes only when it must.
TwitchSafety ==
    /\ TypeOK
    /\ TakenOncePerWindow /\ RecordedIsDelivered
    /\ NoSocketLeak /\ OldSocketKept /\ SubscribedOncePerLoss

\* A client that is not stopped or revoked is welcomed again, whatever was lost,
\* unless the URL of a handover that is not finished has stopped answering.
Welcomed == state = "reading" /\ adopted /\ conn \in subscribed
AlwaysReconnects ==
    []<>(\/ Welcomed
         \/ state = "returned" \/ cancelled
         \/ (previous # None /\ ~urlAlive))
=============================================================================
