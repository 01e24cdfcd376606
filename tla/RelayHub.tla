------------------------------ MODULE RelayHub ------------------------------
(***************************************************************************)
(* The relay hub of internal/relay/relay.go: the map of connected peers,   *)
(* the mutex that guards it, one buffered send channel per peer, and the   *)
(* goroutines that meet there: the forwarder that broadcasts, the handler  *)
(* and the writer of every WebSocket connection, and Server.Run, which     *)
(* stops them.  A payload is its position in the broadcast order.          *)
(***************************************************************************)
EXTENDS Naturals, Sequences, FiniteSets

CONSTANTS
    Peers,          \* the connections that may be opened, each used once
    SendCapacity,   \* the capacity of peer.send (64 in the code)
    MaxBroadcasts   \* bound on the number of broadcasts of a behaviour

ASSUME HubAssumption ==
    /\ SendCapacity \in Nat \ {0}
    /\ MaxBroadcasts \in Nat

VARIABLES
    sent,       \* number of broadcasts begun: the last one has this payload
    mu,         \* who holds hub.mu across its range loop, "free" if nobody
    todo,       \* the peers that loop still has to visit
    clients,    \* hub.clients
    send,       \* [Peers -> Seq(payload)]: what is in the channel p.send
    closed,     \* [Peers -> BOOLEAN]: p.send has been closed
    conn,       \* [Peers -> {"none", "open", "closed"}]: p.conn, server side
    handler,    \* [Peers -> ...]: the goroutine of websocket()
    writer,     \* [Peers -> ...]: the goroutine that ranges over p.send
    hand,       \* [Peers -> Nat]: the payload the writer last took, 0 if none
    joined,     \* [Peers -> Nat]: sent when the peer was added
    received,   \* [Peers -> Seq(payload)]: what was written to the connection
    run,        \* where Server.Run is
    forwarder,  \* "running" or "exited": the goroutine of forward()
    panicked    \* a send on, or a second close of, a closed channel happened

hubVars == <<mu, todo, clients>>
peerVars == <<send, closed, conn, handler, writer, hand, joined, received>>
runVars == <<run, forwarder>>
vars == <<sent, hubVars, peerVars, runVars, panicked>>

HandlerStates == {"idle", "upgraded", "reading", "removing", "closing", "done"}
WriterStates == {"idle", "waiting", "writing", "done"}
RunStates == {"serving", "cancelled", "closingAll", "shutdown", "stopped"}

TypeOK ==
    /\ sent \in 0 .. MaxBroadcasts
    /\ mu \in {"free", "broadcast", "closeAll"}
    /\ todo \in SUBSET Peers
    /\ clients \in SUBSET Peers
    /\ send \in [Peers -> Seq(Nat)]
    /\ \A p \in Peers : Len(send[p]) <= SendCapacity
    /\ closed \in [Peers -> BOOLEAN]
    /\ conn \in [Peers -> {"none", "open", "closed"}]
    /\ handler \in [Peers -> HandlerStates]
    /\ writer \in [Peers -> WriterStates]
    /\ hand \in [Peers -> Nat]
    /\ joined \in [Peers -> Nat]
    /\ received \in [Peers -> Seq(Nat)]
    /\ run \in RunStates
    /\ forwarder \in {"running", "exited"}
    /\ panicked \in BOOLEAN

Init ==
    /\ sent = 0
    /\ mu = "free"
    /\ todo = {}
    /\ clients = {}
    /\ send = [p \in Peers |-> <<>>]
    /\ closed = [p \in Peers |-> FALSE]
    /\ conn = [p \in Peers |-> "none"]
    /\ handler = [p \in Peers |-> "idle"]
    /\ writer = [p \in Peers |-> "idle"]
    /\ hand = [p \in Peers |-> 0]
    /\ joined = [p \in Peers |-> 0]
    /\ received = [p \in Peers |-> <<>>]
    /\ run = "serving"
    /\ forwarder = "running"
    /\ panicked = FALSE

-----------------------------------------------------------------------------
(* What Go does to the map entry, the channel and the connection.          *)

\* delete(h.clients, p); close(p.send): a second close panics.
DeleteAndClose(p) ==
    /\ clients' = clients \ {p}
    /\ closed' = [closed EXCEPT ![p] = TRUE]
    /\ panicked' = (panicked \/ closed[p])

CloseConn(p) == conn' = [conn EXCEPT ![p] = "closed"]

\* Deviation: one payload more than the channel holds.
HasRoomOffByOne(p) == Len(send[p]) <= SendCapacity

HasRoom(p) == Len(send[p]) < SendCapacity

-----------------------------------------------------------------------------
(* websocket(): one goroutine per connection.                              *)

\* An authorised upgrade succeeds while the HTTP server still serves.
Upgrade(p) ==
    /\ handler[p] = "idle"
    /\ run # "stopped"
    /\ handler' = [handler EXCEPT ![p] = "upgraded"]
    /\ conn' = [conn EXCEPT ![p] = "open"]
    /\ UNCHANGED <<sent, hubVars, send, closed, writer, hand, joined,
                   received, runVars, panicked>>

\* hub.add(p), and the writer goroutine is started.
Add(p) ==
    /\ handler[p] = "upgraded"
    /\ mu = "free"
    /\ clients' = clients \cup {p}
    /\ joined' = [joined EXCEPT ![p] = sent]
    /\ handler' = [handler EXCEPT ![p] = "reading"]
    /\ writer' = [writer EXCEPT ![p] = "waiting"]
    /\ UNCHANGED <<sent, mu, todo, send, closed, conn, hand, received,
                   runVars, panicked>>

\* conn.ReadMessage returns an error: deferred hub.remove is next.
StopReading(p) ==
    /\ handler[p] = "reading"
    /\ handler' = [handler EXCEPT ![p] = "removing"]
    /\ UNCHANGED <<sent, hubVars, send, closed, conn, writer, hand, joined,
                   received, runVars, panicked>>

\* The server closed the connection, so the read must fail.
ReadFailsLocally(p) == conn[p] = "closed" /\ StopReading(p)

\* The client left, or sent a frame beyond the read limit.
ClientLeaves(p) == conn[p] = "open" /\ StopReading(p)

\* Deviation: hub.remove closes the channel without looking the peer up.
RemoveUnchecked(p) ==
    /\ handler[p] = "removing"
    /\ mu = "free"
    /\ DeleteAndClose(p)
    /\ handler' = [handler EXCEPT ![p] = "closing"]
    /\ UNCHANGED <<sent, mu, todo, send, conn, writer, hand, joined,
                   received, runVars>>

\* The locked part of hub.remove(p) ...
Remove(p) ==
    /\ handler[p] = "removing"
    /\ mu = "free"
    /\ \/ p \in clients /\ DeleteAndClose(p)
       \/ p \notin clients /\ UNCHANGED <<clients, closed, panicked>>
    /\ handler' = [handler EXCEPT ![p] = "closing"]
    /\ UNCHANGED <<sent, mu, todo, send, conn, writer, hand, joined,
                   received, runVars>>

\* ... and the connection closed after the unlock.
HandlerCloses(p) ==
    /\ handler[p] = "closing"
    /\ handler' = [handler EXCEPT ![p] = "done"]
    /\ CloseConn(p)
    /\ UNCHANGED <<sent, hubVars, send, closed, writer, hand, joined,
                   received, runVars, panicked>>

-----------------------------------------------------------------------------
(* The writer goroutine of a connection: for payload := range p.send.      *)

WriterTakes(p) ==
    /\ writer[p] = "waiting"
    /\ send[p] # <<>>
    /\ hand' = [hand EXCEPT ![p] = Head(send[p])]
    /\ send' = [send EXCEPT ![p] = Tail(@)]
    /\ writer' = [writer EXCEPT ![p] = "writing"]
    /\ UNCHANGED <<sent, hubVars, closed, conn, handler, joined, received,
                   runVars, panicked>>

\* The range ends when the channel is closed and drained.
WriterEnds(p) ==
    /\ writer[p] = "waiting"
    /\ send[p] = <<>>
    /\ closed[p]
    /\ writer' = [writer EXCEPT ![p] = "done"]
    /\ UNCHANGED <<sent, hubVars, send, closed, conn, handler, hand, joined,
                   received, runVars, panicked>>

\* WriteMessage returns once the client's side takes the bytes: it may never.
WriteSucceeds(p) ==
    /\ writer[p] = "writing"
    /\ conn[p] = "open"
    /\ received' = [received EXCEPT ![p] = Append(@, hand[p])]
    /\ hand' = [hand EXCEPT ![p] = 0]
    /\ writer' = [writer EXCEPT ![p] = "waiting"]
    /\ UNCHANGED <<sent, hubVars, send, closed, conn, handler, joined,
                   runVars, panicked>>

\* Deviation: the writer goes on with the next payload after a failed write.
WriteFailureIgnored(p) ==
    /\ writer[p] = "writing"
    /\ writer' = [writer EXCEPT ![p] = "waiting"]
    /\ hand' = [hand EXCEPT ![p] = 0]
    /\ UNCHANGED <<sent, hubVars, send, closed, conn, handler, joined,
                   received, runVars, panicked>>

\* WriteMessage returns an error: the writer closes the connection and returns.
WriteFails(p) ==
    /\ writer[p] = "writing"
    /\ writer' = [writer EXCEPT ![p] = "done"]
    /\ CloseConn(p)
    /\ UNCHANGED <<sent, hubVars, send, closed, handler, hand, joined,
                   received, runVars, panicked>>

WriteFailsLocally(p) == conn[p] = "closed" /\ WriteFails(p)

NetworkFails(p) == conn[p] = "open" /\ WriteFails(p)

-----------------------------------------------------------------------------
(* hub.broadcast: the forwarder holds hub.mu across the whole range loop.  *)

\* forward() broadcasts an accepted message; its select may still prefer one
\* to ctx.Done() after Run has cancelled the context.
BroadcastBegins ==
    /\ forwarder = "running"
    /\ mu = "free"
    /\ sent < MaxBroadcasts
    /\ sent' = sent + 1
    /\ mu' = "broadcast"
    /\ todo' = clients
    /\ UNCHANGED <<clients, peerVars, runVars, panicked>>

\* case p.send <- payload (a send on a closed channel panics)
SendToPeer(p) ==
    /\ HasRoom(p)
    /\ send' = [send EXCEPT ![p] = Append(@, sent)]
    /\ panicked' = (panicked \/ closed[p])
    /\ UNCHANGED <<clients, closed, conn>>

\* Deviations: the payload is skipped for a full peer; the send blocks on it;
\* the peer is dropped with its connection left open.
SkipPayload(p) == ~HasRoom(p) /\ UNCHANGED <<clients, closed, conn, send, panicked>>
BlockOnFullPeer(p) == HasRoom(p) /\ SendToPeer(p)
DropLeavingConnOpen(p) == ~HasRoom(p) /\ DeleteAndClose(p) /\ UNCHANGED <<conn, send>>

\* default: the buffer is full, the slow peer is dropped
DropPeer(p) ==
    /\ ~HasRoom(p)
    /\ DeleteAndClose(p)
    /\ CloseConn(p)
    /\ UNCHANGED send

BroadcastVisits(p) ==
    /\ mu = "broadcast"
    /\ p \in todo
    /\ todo' = todo \ {p}
    /\ SendToPeer(p) \/ DropPeer(p)
    /\ UNCHANGED <<sent, mu, handler, writer, hand, joined, received, runVars>>

\* Deviation: the loop returns at the first peer it drops.
BroadcastEndsEarly ==
    /\ mu = "broadcast"
    /\ \/ todo = {}
       \/ \E p \in Peers \ todo : closed[p] /\ Len(send[p]) = SendCapacity
    /\ mu' = "free"
    /\ UNCHANGED <<sent, todo, clients, peerVars, runVars, panicked>>

BroadcastEnds ==
    /\ mu = "broadcast"
    /\ todo = {}
    /\ mu' = "free"
    /\ UNCHANGED <<sent, todo, clients, peerVars, runVars, panicked>>

\* ctx.Done() of the cancelled run context is chosen.
ForwarderExits ==
    /\ forwarder = "running"
    /\ mu # "broadcast"
    /\ run # "serving"
    /\ forwarder' = "exited"
    /\ UNCHANGED <<sent, hubVars, peerVars, run, panicked>>

-----------------------------------------------------------------------------
(* Server.Run: cancel, hub.closeAll, then http.Server.Shutdown.            *)

\* The context ends, or forward or the HTTP server fails: Run cancels.  The
\* forwarder has exited only if its error is the reason.
Cancel ==
    /\ run = "serving"
    /\ run' = "cancelled"
    /\ \/ UNCHANGED forwarder
       \/ mu # "broadcast" /\ forwarder' = "exited"
    /\ UNCHANGED <<sent, hubVars, peerVars, panicked>>

CloseAllBegins ==
    /\ run = "cancelled"
    /\ mu = "free"
    /\ run' = "closingAll"
    /\ mu' = "closeAll"
    /\ todo' = clients
    /\ UNCHANGED <<sent, clients, peerVars, forwarder, panicked>>

CloseAllVisits(p) ==
    /\ mu = "closeAll"
    /\ p \in todo
    /\ todo' = todo \ {p}
    /\ DeleteAndClose(p)
    /\ CloseConn(p)
    /\ UNCHANGED <<sent, mu, send, handler, writer, hand, joined, received,
                   runVars>>

CloseAllEnds ==
    /\ mu = "closeAll"
    /\ todo = {}
    /\ mu' = "free"
    /\ run' = "shutdown"
    /\ UNCHANGED <<sent, todo, clients, peerVars, forwarder, panicked>>

\* The listener is closed; connections already upgraded are not its to close.
Shutdown ==
    /\ run = "shutdown"
    /\ run' = "stopped"
    /\ UNCHANGED <<sent, hubVars, peerVars, forwarder, panicked>>

-----------------------------------------------------------------------------

Handler(p) ==
    \/ Upgrade(p) \/ Add(p)
    \/ ReadFailsLocally(p) \/ ClientLeaves(p)
    \/ Remove(p) \/ HandlerCloses(p)

Writer(p) ==
    \/ WriterTakes(p) \/ WriterEnds(p)
    \/ WriteSucceeds(p) \/ WriteFailsLocally(p) \/ NetworkFails(p)

Broadcast ==
    \/ BroadcastBegins \/ BroadcastEnds \/ ForwarderExits
    \/ \E p \in Peers : BroadcastVisits(p)

Stop ==
    \/ Cancel \/ CloseAllBegins \/ CloseAllEnds \/ Shutdown
    \/ \E p \in Peers : CloseAllVisits(p)

Next ==
    \/ Broadcast
    \/ Stop
    \/ \E p \in Peers : Handler(p) \/ Writer(p)

Spec == Init /\ [][Next]_vars

\* The steps the process owes: those of goroutines that need nobody else.
\* Nothing makes a client connect, read or leave, or the network deliver;
\* nothing makes the server stop or a message arrive.
Owed ==
    \/ BroadcastEnds \/ CloseAllBegins \/ CloseAllEnds \/ Shutdown
    \/ \E p \in Peers :
         \/ BroadcastVisits(p) \/ CloseAllVisits(p)
         \/ ReadFailsLocally(p) \/ Remove(p) \/ HandlerCloses(p)
         \/ WriterTakes(p) \/ WriterEnds(p) \/ WriteFailsLocally(p)

\* While goroutines can go on, one does.  No behaviour has infinitely many
\* steps, so each of them gets its turn in the end, the mutex included.
Fairness == WF_vars(Owed)

FairSpec == Spec /\ Fairness

-----------------------------------------------------------------------------
(* Properties.                                                             *)

\* The forwarder, the handlers and Run all close send channels; no order of
\* theirs ever closes one twice or sends on a closed one, either of which
\* would panic and end the process (relay.go:41-73).
NoChannelPanic == ~panicked

\* How many payloads the writer has taken from a peer's channel.
Taken(p) == Len(received[p]) + (IF hand[p] = 0 THEN 0 ELSE 1)

\* Whatever is dropped, a connection is handed a gapless run of the broadcast
\* order that starts with the first payload after it was added: what it has
\* received, what its writer holds and what its channel holds follow one
\* another (relay.go:51-63 and 143-150).
GaplessStream ==
    \A p \in Peers :
        /\ \A i \in 1 .. Len(received[p]) : received[p][i] = joined[p] + i
        /\ hand[p] # 0 => hand[p] = joined[p] + Len(received[p]) + 1
        /\ \A i \in 1 .. Len(send[p]) : send[p][i] = joined[p] + Taken(p) + i

\* A peer still in the hub has missed nothing: every payload broadcast since
\* it was added is received, held or queued, but for the one the broadcast in
\* progress has yet to offer it.  Slowness ends in removal, never in a gap.
RegisteredPeerMissesNothing ==
    \A p \in clients :
        joined[p] + Taken(p) + Len(send[p])
            = IF mu = "broadcast" /\ p \in todo THEN sent - 1 ELSE sent

\* Slow or not, a connection is served in order and whole for as long as it is
\* registered, and never again after it was dropped.
StreamSafety == GaplessStream /\ RegisteredPeerMissesNothing

\* A client that does not read never holds the relay up: a broadcast ends
\* whatever the clients, and the network to them, do or fail to do.
BroadcastNeverStalls == mu = "broadcast" ~> mu = "free"

\* A peer whose channel was closed, by whichever of the three, leaves no
\* goroutine behind: its writer and its handler end and its connection is
\* closed, even if the client never reads again.
RemovedPeerIsReleased ==
    \A p \in Peers :
        closed[p] ~> /\ writer[p] = "done"
                     /\ handler[p] = "done"
                     /\ conn[p] = "closed"

\* A server told to stop does stop: closeAll gets the lock whatever the clients
\* of a broadcast in progress do (relay.go:355-360).
StopCompletes == run = "cancelled" ~> run = "stopped"

\* The hub goes on: no client, however slow or silent, holds up a broadcast, the
\* stop or the release of what another one used.
HubGoesOn == BroadcastNeverStalls /\ RemovedPeerIsReleased /\ StopCompletes

\* Seen from the clients, the hub is an ordered fan-out: a connection is
\* subscribed by hub.add and handed payloads until its connection is closed.
Fanout == INSTANCE OrderedFanout WITH
    Subscribers <- Peers,
    published <- sent,
    session <- [p \in Peers |->
                   IF conn[p] = "closed" THEN "over"
                   ELSE IF handler[p] \in {"idle", "upgraded"} THEN "none"
                   ELSE "live"],
    from <- joined,
    got <- received

\* The hub, with its buffers and drops, implements OrderedFanout.
ImplementsFanout == Fanout!Spec
=============================================================================
