--------------------------- MODULE RelayHubProofs ---------------------------
(***************************************************************************)
(* Proofs about RelayHub for every set of connections, channel capacity    *)
(* and number of broadcasts: no send on, and no second close of, a closed  *)
(* channel; every connection is handed a gapless run of the broadcasts;    *)
(* and the hub implements OrderedFanout.                                   *)
(***************************************************************************)
EXTENDS RelayHub, SequenceTheorems, TLAPS

-----------------------------------------------------------------------------
(* Type correctness.                                                       *)

LEMMA TypeInit == Init => TypeOK
<1>1. <<>> \in Seq(Nat) /\ Len(<<>>) = 0
  BY EmptySeq
<1>2. ASSUME Init
      PROVE  TypeOK
  <2>1. panicked \in BOOLEAN /\ closed \in [Peers -> BOOLEAN]
    BY <1>2, Zenon DEF Init
  <2>2. send \in [Peers -> Seq(Nat)] /\ \A p \in Peers : send[p] = <<>>
    BY <1>1, <1>2 DEF Init
  <2>3. received \in [Peers -> Seq(Nat)]
    BY <1>1, <1>2 DEF Init
  <2>4. \A p \in Peers : Len(send[p]) <= SendCapacity
    BY <1>1, <2>2, HubAssumption DEF HubAssumption
  <2>5. QED
    BY <1>2, <2>1, <2>2, <2>3, <2>4, HubAssumption
    DEF Init, TypeOK, HubAssumption, HandlerStates, WriterStates, RunStates
<1>3. QED
  BY <1>2

\* Closing a channel and forgetting its peer keeps their types.
LEMMA DeleteAndCloseType ==
    ASSUME TypeOK, NEW p \in Peers, DeleteAndClose(p)
    PROVE  /\ clients' \in SUBSET Peers
           /\ closed' \in [Peers -> BOOLEAN]
           /\ panicked' \in BOOLEAN
<1>1. clients' \in SUBSET Peers
  BY DEF TypeOK, DeleteAndClose
<1>2. closed' \in [Peers -> BOOLEAN]
  BY DEF TypeOK, DeleteAndClose
<1>3. panicked' \in BOOLEAN
  BY Zenon DEF DeleteAndClose
<1>4. QED
  BY <1>1, <1>2, <1>3

LEMMA TypeStep ==
    ASSUME TypeOK, [Next]_vars
    PROVE  TypeOK'
<1>. USE HubAssumption DEF TypeOK, HubAssumption, HandlerStates, WriterStates,
                           RunStates, hubVars, peerVars, runVars, CloseConn
<1>1. ASSUME NEW p \in Peers, Upgrade(p)
      PROVE  TypeOK'
  BY <1>1 DEF Upgrade
<1>2. ASSUME NEW p \in Peers, Add(p)
      PROVE  TypeOK'
  BY <1>2 DEF Add
<1>3. ASSUME NEW p \in Peers, StopReading(p)
      PROVE  TypeOK'
  BY <1>3 DEF StopReading
<1>4. ASSUME NEW p \in Peers, Remove(p)
      PROVE  TypeOK'
  <2>1. /\ clients' \in SUBSET Peers
        /\ closed' \in [Peers -> BOOLEAN]
        /\ panicked' \in BOOLEAN
    BY <1>4, DeleteAndCloseType DEF Remove
  <2>2. QED
    BY <1>4, <2>1 DEF Remove
<1>5. ASSUME NEW p \in Peers, HandlerCloses(p)
      PROVE  TypeOK'
  BY <1>5 DEF HandlerCloses
<1>6. ASSUME NEW p \in Peers, WriterTakes(p)
      PROVE  TypeOK'
  <2>1. /\ Head(send[p]) \in Nat
        /\ Tail(send[p]) \in Seq(Nat)
        /\ Len(Tail(send[p])) = Len(send[p]) - 1
    BY <1>6, HeadTailProperties DEF WriterTakes
  <2>2. send' \in [Peers -> Seq(Nat)]
    BY <1>6, <2>1 DEF WriterTakes
  <2>3. \A q \in Peers : Len(send'[q]) <= SendCapacity
    BY <1>6, <2>1, LenProperties DEF WriterTakes
  <2>4. hand' \in [Peers -> Nat]
    BY <1>6, <2>1 DEF WriterTakes
  <2>5. QED
    BY <1>6, <2>2, <2>3, <2>4 DEF WriterTakes
<1>7. ASSUME NEW p \in Peers, WriterEnds(p)
      PROVE  TypeOK'
  BY <1>7 DEF WriterEnds
<1>8. ASSUME NEW p \in Peers, WriteSucceeds(p)
      PROVE  TypeOK'
  <2>1. received' \in [Peers -> Seq(Nat)]
    BY <1>8, AppendProperties DEF WriteSucceeds
  <2>2. QED
    BY <1>8, <2>1 DEF WriteSucceeds
<1>9. ASSUME NEW p \in Peers, WriteFails(p)
      PROVE  TypeOK'
  BY <1>9 DEF WriteFails
<1>10. ASSUME BroadcastBegins \/ BroadcastEnds \/ ForwarderExits
       PROVE  TypeOK'
  BY <1>10 DEF BroadcastBegins, BroadcastEnds, ForwarderExits
<1>11. ASSUME NEW p \in Peers, BroadcastVisits(p)
       PROVE  TypeOK'
  <2>1. CASE SendToPeer(p)
    <3>1. /\ Append(send[p], sent) \in Seq(Nat)
          /\ Len(Append(send[p], sent)) = Len(send[p]) + 1
      BY AppendProperties
    <3>2. send' \in [Peers -> Seq(Nat)]
      BY <2>1, <3>1 DEF SendToPeer
    <3>3. \A q \in Peers : Len(send'[q]) <= SendCapacity
      BY <2>1, <3>1, LenProperties DEF SendToPeer, HasRoom
    <3>4. panicked' \in BOOLEAN
      BY <2>1, Zenon DEF SendToPeer
    <3>5. QED
      BY <1>11, <2>1, <3>2, <3>3, <3>4 DEF BroadcastVisits, SendToPeer
  <2>2. CASE DropPeer(p)
    <3>1. /\ clients' \in SUBSET Peers
          /\ closed' \in [Peers -> BOOLEAN]
          /\ panicked' \in BOOLEAN
      BY <2>2, DeleteAndCloseType DEF DropPeer
    <3>2. QED
      BY <1>11, <2>2, <3>1 DEF BroadcastVisits, DropPeer
  <2>3. QED
    BY <1>11, <2>1, <2>2 DEF BroadcastVisits
<1>12. ASSUME Cancel \/ CloseAllBegins \/ CloseAllEnds \/ Shutdown
       PROVE  TypeOK'
  BY <1>12 DEF Cancel, CloseAllBegins, CloseAllEnds, Shutdown
<1>13. ASSUME NEW p \in Peers, CloseAllVisits(p)
       PROVE  TypeOK'
  <2>1. /\ clients' \in SUBSET Peers
        /\ closed' \in [Peers -> BOOLEAN]
        /\ panicked' \in BOOLEAN
    BY <1>13, DeleteAndCloseType DEF CloseAllVisits
  <2>2. QED
    BY <1>13, <2>1 DEF CloseAllVisits
<1>14. ASSUME UNCHANGED vars
       PROVE  TypeOK'
  BY <1>14 DEF vars
<1>15. QED
  BY <1>1, <1>2, <1>3, <1>4, <1>5, <1>6, <1>7, <1>8, <1>9, <1>10, <1>11,
     <1>12, <1>13, <1>14
  DEF Next, Handler, Writer, Broadcast, Stop, ReadFailsLocally, ClientLeaves,
      WriteFailsLocally, NetworkFails

\* Every reachable state of the hub has its type; in particular no channel
\* ever holds more than its capacity.
THEOREM TypeCorrect == Spec => []TypeOK
  BY TypeInit, TypeStep, PTL DEF Spec

-----------------------------------------------------------------------------
(* The inductive invariant.  A registered peer has an open channel, and a  *)
(* range loop only meets registered peers because it holds the mutex, so   *)
(* nobody closes or sends twice.  What a peer has received, holds and has  *)
(* queued is exactly what was broadcast since it joined, so the payload a  *)
(* broadcast appends is the next one.                                      *)

Registered ==
    /\ \A p \in clients : ~closed[p]
    /\ mu # "free" => todo \subseteq clients

Unstarted ==
    \A p \in Peers :
        handler[p] \in {"idle", "upgraded"} =>
            /\ p \notin clients
            /\ ~closed[p]
            /\ send[p] = <<>>
            /\ received[p] = <<>>
            /\ hand[p] = 0
            /\ writer[p] = "idle"
            /\ conn[p] = IF handler[p] = "idle" THEN "none" ELSE "open"

HandHeld ==
    \A p \in Peers :
        /\ writer[p] \in {"idle", "waiting"} => hand[p] = 0
        /\ writer[p] = "writing" => hand[p] # 0

NotAhead ==
    \A p \in Peers : joined[p] + Taken(p) + Len(send[p]) <= sent

HubInv == NoChannelPanic /\ Registered /\ Unstarted

StreamInv == HandHeld /\ NotAhead /\ GaplessStream /\ RegisteredPeerMissesNothing

IInv == TypeOK /\ HubInv /\ StreamInv

streamVars == <<send, hand, joined, received>>

LEMMA InvInit == Init => IInv
<1>. SUFFICES ASSUME Init
              PROVE  IInv
  OBVIOUS
<1>1. TypeOK
  BY TypeInit
<1>2. Len(<<>>) = 0
  BY EmptySeq
<1>3. NoChannelPanic /\ Registered /\ Unstarted
  BY DEF Init, NoChannelPanic, Registered, Unstarted
<1>4. \A p \in Peers : Taken(p) = 0
  BY <1>2 DEF Init, Taken
<1>5. HandHeld /\ NotAhead
  BY <1>2, <1>4 DEF Init, HandHeld, NotAhead
<1>6. GaplessStream
  BY <1>2, <1>4 DEF Init, GaplessStream
<1>7. RegisteredPeerMissesNothing
  BY DEF Init, RegisteredPeerMissesNothing
<1>8. QED
  BY <1>1, <1>3, <1>5, <1>6, <1>7 DEF IInv, HubInv, StreamInv

-----------------------------------------------------------------------------
(* No channel panic.                                                       *)

LEMMA HubStep ==
    ASSUME TypeOK, StreamInv, HubInv, [Next]_vars
    PROVE  HubInv'
<1>. USE DEF TypeOK, HubInv, NoChannelPanic, Registered, Unstarted, hubVars,
             peerVars, runVars, CloseConn
<1>1. ASSUME NEW p \in Peers, Upgrade(p)
      PROVE  HubInv'
  BY <1>1 DEF Upgrade
<1>2. ASSUME NEW p \in Peers, Add(p)
      PROVE  HubInv'
  BY <1>2 DEF Add
<1>3. ASSUME NEW p \in Peers, StopReading(p) \/ HandlerCloses(p)
      PROVE  HubInv'
  BY <1>3 DEF StopReading, HandlerCloses
<1>4. ASSUME NEW p \in Peers, Remove(p)
      PROVE  HubInv'
  BY <1>4 DEF Remove, DeleteAndClose
<1>5. ASSUME NEW p \in Peers,
             WriterTakes(p) \/ WriterEnds(p) \/ WriteSucceeds(p) \/ WriteFails(p)
      PROVE  HubInv'
  BY <1>5, SMTT(30) DEF WriterTakes, WriterEnds, WriteSucceeds, WriteFails
<1>6. ASSUME BroadcastBegins \/ BroadcastEnds \/ ForwarderExits
      PROVE  HubInv'
  BY <1>6 DEF BroadcastBegins, BroadcastEnds, ForwarderExits
<1>7. ASSUME NEW p \in Peers, BroadcastVisits(p)
      PROVE  HubInv'
  <2>1. p \in clients /\ ~closed[p]
    BY <1>7 DEF BroadcastVisits
  <2>2. handler[p] \notin {"idle", "upgraded"}
    BY <2>1
  <2>3. CASE SendToPeer(p)
    BY <1>7, <2>1, <2>2, <2>3 DEF BroadcastVisits, SendToPeer
  <2>4. CASE DropPeer(p)
    BY <1>7, <2>1, <2>2, <2>4 DEF BroadcastVisits, DropPeer, DeleteAndClose
  <2>5. QED
    BY <1>7, <2>3, <2>4 DEF BroadcastVisits
<1>8. ASSUME Cancel \/ CloseAllBegins \/ CloseAllEnds \/ Shutdown
      PROVE  HubInv'
  BY <1>8 DEF Cancel, CloseAllBegins, CloseAllEnds, Shutdown
<1>9. ASSUME NEW p \in Peers, CloseAllVisits(p)
      PROVE  HubInv'
  <2>1. p \in clients /\ ~closed[p]
    BY <1>9 DEF CloseAllVisits
  <2>2. handler[p] \notin {"idle", "upgraded"}
    BY <2>1
  <2>3. QED
    BY <1>9, <2>1, <2>2 DEF CloseAllVisits, DeleteAndClose
<1>10. ASSUME UNCHANGED vars
       PROVE  HubInv'
  BY <1>10 DEF vars
<1>11. QED
  BY <1>1, <1>2, <1>3, <1>4, <1>5, <1>6, <1>7, <1>8, <1>9, <1>10
  DEF Next, Handler, Writer, Broadcast, Stop, ReadFailsLocally, ClientLeaves,
      WriteFailsLocally, NetworkFails

-----------------------------------------------------------------------------
(* The streams.                                                            *)

\* Sums, regrouped.
LEMMA Regroup ==
    \A a, b, c \in Nat : /\ a + (b + 1) + (c - 1) = a + b + c
                         /\ a + b + 1 = a + (b + 1)
OBVIOUS

\* What the counts of the streams are.
LEMMA Counts ==
    ASSUME TypeOK
    PROVE  /\ sent \in Nat
           /\ \A q \in Peers : /\ Len(received[q]) \in Nat
                               /\ Len(send[q]) \in Nat
                               /\ joined[q] \in Nat
                               /\ hand[q] \in Nat
                               /\ Taken(q) \in Nat
<1>1. sent \in Nat
  BY HubAssumption DEF TypeOK, HubAssumption
<1>2. ASSUME NEW q \in Peers
      PROVE  /\ Len(received[q]) \in Nat
             /\ Len(send[q]) \in Nat
             /\ joined[q] \in Nat
             /\ hand[q] \in Nat
  <2>1. received[q] \in Seq(Nat) /\ send[q] \in Seq(Nat)
    BY DEF TypeOK
  <2>2. QED
    BY <2>1, LenProperties DEF TypeOK
<1>3. ASSUME NEW q \in Peers
      PROVE  Taken(q) \in Nat
  <2>1. Len(received[q]) \in Nat
    BY <1>2
  <2>2. CASE hand[q] = 0
    BY <2>1, <2>2 DEF Taken
  <2>3. CASE hand[q] # 0
    BY <2>1, <2>3 DEF Taken
  <2>4. QED
    BY <2>2, <2>3
<1>4. QED
  BY <1>1, <1>2, <1>3

\* A step that touches no stream, registers nobody and makes no broadcast or
\* its loop begin preserves the invariant of the streams.
LEMMA StreamQuiet ==
    ASSUME StreamInv, HandHeld', UNCHANGED <<streamVars, sent>>,
           clients' \subseteq clients,
           \A p \in clients' :
               (mu' = "broadcast" /\ p \in todo') <=> (mu = "broadcast" /\ p \in todo)
    PROVE  StreamInv'
<1>1. \A p \in Peers : Taken(p)' = Taken(p)
  BY DEF Taken, streamVars
<1>2. NotAhead'
  BY <1>1 DEF StreamInv, NotAhead, streamVars
<1>3. GaplessStream'
  BY <1>1 DEF StreamInv, GaplessStream, streamVars
<1>4. QED
  BY <1>1, <1>2, <1>3
  DEF StreamInv, RegisteredPeerMissesNothing, Taken, streamVars

LEMMA StreamStep ==
    ASSUME TypeOK, HubInv, StreamInv, [Next]_vars
    PROVE  StreamInv'
<1>0. TypeOK'
  BY TypeStep
<1>1. ASSUME \/ \E p \in Peers : \/ Upgrade(p) \/ StopReading(p)
                               \/ Remove(p) \/ HandlerCloses(p)
                               \/ WriterEnds(p) \/ WriteFails(p)
             \/ ForwarderExits \/ Cancel \/ Shutdown \/ UNCHANGED vars
      PROVE  StreamInv'
  <2>1. HandHeld'
    BY <1>1
    DEF StreamInv, HandHeld, TypeOK, Upgrade, StopReading, Remove, HandlerCloses,
        WriterEnds, WriteFails, ForwarderExits, Cancel, Shutdown, vars, peerVars
  <2>2. UNCHANGED <<streamVars, sent, mu, todo>> /\ clients' \subseteq clients
    BY <1>1
    DEF Upgrade, StopReading, Remove, DeleteAndClose, HandlerCloses, WriterEnds,
        WriteFails, ForwarderExits, Cancel, Shutdown, vars, peerVars, hubVars,
        streamVars
  <2>3. QED
    BY <2>1, <2>2, StreamQuiet
<1>2. ASSUME \/ BroadcastEnds \/ CloseAllBegins \/ CloseAllEnds
             \/ \E p \in Peers : CloseAllVisits(p)
      PROVE  StreamInv'
  <2>1. UNCHANGED <<streamVars, sent, writer>> /\ clients' \subseteq clients
    BY <1>2
    DEF BroadcastEnds, CloseAllBegins, CloseAllEnds, CloseAllVisits,
        DeleteAndClose, peerVars, streamVars
  <2>2. HandHeld'
    BY <2>1 DEF StreamInv, HandHeld, streamVars
  <2>3. \A p \in clients' :
            (mu' = "broadcast" /\ p \in todo') <=> (mu = "broadcast" /\ p \in todo)
    BY <1>2 DEF BroadcastEnds, CloseAllBegins, CloseAllEnds, CloseAllVisits
  <2>4. QED
    BY <2>1, <2>2, <2>3, StreamQuiet
<1>3. ASSUME NEW p \in Peers, Add(p)
      PROVE  StreamInv'
  <2>1. /\ send[p] = <<>> /\ received[p] = <<>> /\ hand[p] = 0
        /\ UNCHANGED <<sent, mu, send, hand, received>>
        /\ joined' = [joined EXCEPT ![p] = sent]
        /\ mu = "free" /\ clients' = clients \cup {p}
        /\ writer' = [writer EXCEPT ![p] = "waiting"]
    BY <1>3 DEF Add, HubInv, Unstarted
  <2>2. Len(<<>>) = 0
    BY EmptySeq
  <2>3. /\ \A q \in Peers : Taken(q)' = Taken(q)
        /\ Taken(p) = 0
    BY <2>1, <2>2 DEF Taken
  <2>4. HandHeld'
    BY <2>1 DEF StreamInv, HandHeld, TypeOK
  <2>5. NotAhead'
    BY <2>1, <2>2, <2>3 DEF StreamInv, NotAhead, TypeOK
  <2>6. GaplessStream'
    BY <2>1, <2>2, <2>3 DEF StreamInv, GaplessStream, TypeOK
  <2>7. RegisteredPeerMissesNothing'
    BY <2>1, <2>2, <2>3 DEF StreamInv, RegisteredPeerMissesNothing, TypeOK
  <2>8. QED
    BY <2>4, <2>5, <2>6, <2>7 DEF StreamInv
<1>4. ASSUME NEW p \in Peers, WriterTakes(p)
      PROVE  StreamInv'
  <2>1. /\ hand[p] = 0 /\ writer[p] = "waiting" /\ send[p] # <<>>
        /\ UNCHANGED <<sent, mu, todo, clients, joined, received>>
        /\ hand' = [hand EXCEPT ![p] = Head(send[p])]
        /\ send' = [send EXCEPT ![p] = Tail(send[p])]
        /\ writer' = [writer EXCEPT ![p] = "writing"]
    BY <1>4 DEF WriterTakes, StreamInv, HandHeld, hubVars
  <2>2. /\ Len(Tail(send[p])) = Len(send[p]) - 1
        /\ \A i \in 1 .. Len(Tail(send[p])) : Tail(send[p])[i] = send[p][i + 1]
        /\ Head(send[p]) = send[p][1]
        /\ Len(send[p]) \in Nat \ {0}
    BY <2>1, HeadTailProperties, EmptySeq DEF TypeOK
  <2>3. \A q \in Peers : Len(received[q]) \in Nat /\ Len(send[q]) \in Nat
    BY Counts
  <2>4. Taken(p) = Len(received[p])
    BY <2>1 DEF Taken
  <2>5. Head(send[p]) = joined[p] + Len(received[p]) + 1
    BY <2>2, <2>3, <2>4 DEF StreamInv, GaplessStream, TypeOK
  <2>6. /\ Taken(p)' = Taken(p) + 1
        /\ \A q \in Peers \ {p} : Taken(q)' = Taken(q)
    BY <2>1, <2>3, <2>4, <2>5 DEF Taken, TypeOK
  <2>7. HandHeld'
    BY <2>1, <2>3, <2>5 DEF StreamInv, HandHeld, TypeOK
  <2>8. \A q \in Peers : Taken(q) \in Nat
    BY Counts
  <2>9. \A q \in Peers :
            joined'[q] + Taken(q)' + Len(send'[q]) = joined[q] + Taken(q) + Len(send[q])
    <3>1. /\ send'[p] = Tail(send[p])
          /\ \A q \in Peers \ {p} : send'[q] = send[q]
      BY <2>1 DEF TypeOK
    <3>2. joined[p] \in Nat /\ Taken(p) \in Nat /\ Len(send[p]) \in Nat
      BY Counts
    <3>3. joined[p] + (Taken(p) + 1) + (Len(send[p]) - 1)
              = joined[p] + Taken(p) + Len(send[p])
      BY <3>2, Regroup
    <3>4. joined'[p] + Taken(p)' + Len(send'[p]) = joined[p] + Taken(p) + Len(send[p])
      BY <2>1, <2>2, <2>6, <3>1, <3>3
    <3>5. QED
      BY <2>1, <2>6, <3>1, <3>4
  <2>10. NotAhead' /\ RegisteredPeerMissesNothing'
    <3>1. clients \subseteq Peers
      BY DEF TypeOK
    <3>2. NotAhead'
      BY <2>1, <2>9 DEF StreamInv, NotAhead
    <3>3. QED
      BY <2>1, <2>9, <3>1, <3>2 DEF StreamInv, RegisteredPeerMissesNothing
  <2>11. ASSUME NEW q \in Peers
         PROVE  /\ \A i \in 1 .. Len(received'[q]) : received'[q][i] = joined'[q] + i
                /\ hand'[q] # 0 => hand'[q] = joined'[q] + Len(received'[q]) + 1
                /\ \A i \in 1 .. Len(send'[q]) :
                       send'[q][i] = joined'[q] + Taken(q)' + i
    <3>1. CASE q # p
      BY <2>1, <2>6, <3>1 DEF StreamInv, GaplessStream, TypeOK
    <3>2. CASE q = p
      <4>1. \A i \in 1 .. Len(send[p]) : send[p][i] = joined[p] + Taken(p) + i
        BY DEF StreamInv, GaplessStream
      <4>2. \A i \in 1 .. Len(Tail(send[p])) :
                Tail(send[p])[i] = joined[p] + Taken(p) + 1 + i
        <5>1. ASSUME NEW i \in 1 .. Len(Tail(send[p]))
              PROVE  Tail(send[p])[i] = joined[p] + Taken(p) + 1 + i
          <6>1. i + 1 \in 1 .. Len(send[p]) /\ i \in Nat
            BY <2>2
          <6>2. send[p][i + 1] = joined[p] + Taken(p) + (i + 1)
            BY <4>1, <6>1
          <6>3. QED
            BY <2>2, <6>1, <6>2, Counts
        <5>2. QED
          BY <5>1
      <4>3. \A i \in 1 .. Len(received[p]) : received[p][i] = joined[p] + i
        BY DEF StreamInv, GaplessStream
      <4>4. send'[p] = Tail(send[p]) /\ hand'[p] = Head(send[p])
        BY <2>1 DEF TypeOK
      <4>5. QED
        <5>1. Taken(p)' = Taken(p) + 1
          BY <2>6
        <5>2. /\ received'[p] = received[p]
              /\ joined'[p] = joined[p]
          BY <2>1
        <5>3. hand'[p] = joined'[p] + Len(received'[p]) + 1
          BY <2>5, <4>4, <5>2
        <5>4. \A i \in 1 .. Len(send'[p]) :
                  send'[p][i] = joined'[p] + Taken(p)' + i
          <6>1. \A i \in 1 .. Len(send'[p]) :
                    send'[p][i] = joined[p] + Taken(p) + 1 + i
            BY <4>2, <4>4
          <6>2. joined[p] + Taken(p) + 1 = joined[p] + (Taken(p) + 1)
            BY Counts, Regroup
          <6>3. QED
            BY <5>1, <5>2, <6>1, <6>2
        <5>5. QED
          BY <3>2, <4>3, <5>2, <5>3, <5>4
    <3>3. QED
      BY <3>1, <3>2
  <2>12. GaplessStream'
    BY <2>11 DEF GaplessStream
  <2>13. QED
    BY <2>7, <2>9, <2>10, <2>12 DEF StreamInv
<1>5. ASSUME NEW p \in Peers, WriteSucceeds(p)
      PROVE  StreamInv'
  <2>1. /\ hand[p] # 0
        /\ UNCHANGED <<sent, mu, todo, clients, joined, send>>
        /\ hand' = [hand EXCEPT ![p] = 0]
        /\ received' = [received EXCEPT ![p] = Append(received[p], hand[p])]
        /\ writer' = [writer EXCEPT ![p] = "waiting"]
    BY <1>5 DEF WriteSucceeds, StreamInv, HandHeld, hubVars
  <2>2. /\ Len(Append(received[p], hand[p])) = Len(received[p]) + 1
        /\ \A i \in 1 .. Len(received[p]) :
               Append(received[p], hand[p])[i] = received[p][i]
        /\ Append(received[p], hand[p])[Len(received[p]) + 1] = hand[p]
    BY AppendProperties DEF TypeOK
  <2>3. \A q \in Peers : Len(received[q]) \in Nat /\ Len(send[q]) \in Nat
    BY LenProperties DEF TypeOK
  <2>4. received'[p] = Append(received[p], hand[p]) /\ hand'[p] = 0
    BY <2>1 DEF TypeOK
  <2>5. \A q \in Peers : Taken(q)' = Taken(q)
    <3>1. \A q \in Peers \ {p} : received'[q] = received[q] /\ hand'[q] = hand[q]
      BY <2>1 DEF TypeOK
    <3>2. Taken(p)' = Taken(p)
      BY <2>1, <2>2, <2>3, <2>4 DEF Taken
    <3>3. QED
      BY <3>1, <3>2 DEF Taken
  <2>6. HandHeld'
    BY <2>1 DEF StreamInv, HandHeld, TypeOK
  <2>7. NotAhead'
    BY <2>1, <2>5 DEF StreamInv, NotAhead
  <2>8. RegisteredPeerMissesNothing'
    BY <2>1, <2>5 DEF StreamInv, RegisteredPeerMissesNothing, TypeOK
  <2>9. ASSUME NEW q \in Peers
         PROVE  /\ \A i \in 1 .. Len(received'[q]) : received'[q][i] = joined'[q] + i
                /\ hand'[q] # 0 => hand'[q] = joined'[q] + Len(received'[q]) + 1
                /\ \A i \in 1 .. Len(send'[q]) :
                       send'[q][i] = joined'[q] + Taken(q)' + i
    <3>1. CASE q # p
      BY <2>1, <2>5, <3>1 DEF StreamInv, GaplessStream, TypeOK
    <3>2. CASE q = p
      <4>1. /\ \A i \in 1 .. Len(received[p]) : received[p][i] = joined[p] + i
            /\ hand[p] = joined[p] + (Len(received[p]) + 1)
        BY <2>1, <2>3, SMTT(30) DEF StreamInv, GaplessStream, TypeOK
      <4>2. \A i \in 1 .. Len(received[p]) + 1 : received'[p][i] = joined[p] + i
        BY <2>2, <2>3, <2>4, <4>1
      <4>3. \A i \in 1 .. Len(send[p]) : send[p][i] = joined[p] + Taken(p) + i
        BY DEF StreamInv, GaplessStream
      <4>4. QED
        BY <2>1, <2>2, <2>4, <2>5, <3>2, <4>2, <4>3
    <3>3. QED
      BY <3>1, <3>2
  <2>10. GaplessStream'
    BY <2>9 DEF GaplessStream
  <2>11. QED
    BY <2>6, <2>7, <2>8, <2>10 DEF StreamInv
<1>6. ASSUME BroadcastBegins
      PROVE  StreamInv'
  <2>1. /\ UNCHANGED <<streamVars, writer, clients>>
        /\ sent' = sent + 1 /\ mu = "free" /\ mu' = "broadcast" /\ todo' = clients
    BY <1>6 DEF BroadcastBegins, peerVars, streamVars
  <2>2. \A q \in Peers : Taken(q)' = Taken(q) /\ Taken(q) \in Nat
                         /\ Len(send[q]) \in Nat
    BY <2>1, LenProperties DEF Taken, streamVars, TypeOK
  <2>3. HandHeld' /\ GaplessStream'
    BY <2>1, <2>2 DEF StreamInv, HandHeld, GaplessStream, streamVars
  <2>4. NotAhead'
    BY <2>1, <2>2 DEF StreamInv, NotAhead, streamVars, TypeOK
  <2>5. RegisteredPeerMissesNothing'
    BY <2>1, <2>2 DEF StreamInv, RegisteredPeerMissesNothing, streamVars, TypeOK
  <2>6. QED
    BY <2>3, <2>4, <2>5 DEF StreamInv
<1>7. ASSUME NEW p \in Peers, BroadcastVisits(p), SendToPeer(p)
      PROVE  StreamInv'
  <2>1. /\ UNCHANGED <<sent, mu, clients, hand, joined, received, writer>>
        /\ send' = [send EXCEPT ![p] = Append(send[p], sent)]
        /\ mu = "broadcast" /\ p \in todo /\ todo' = todo \ {p}
    BY <1>7 DEF BroadcastVisits, SendToPeer
  <2>2. p \in clients
    BY <2>1 DEF HubInv, Registered
  <2>3. /\ Len(Append(send[p], sent)) = Len(send[p]) + 1
        /\ \A i \in 1 .. Len(send[p]) : Append(send[p], sent)[i] = send[p][i]
        /\ Append(send[p], sent)[Len(send[p]) + 1] = sent
    BY AppendProperties DEF TypeOK
  <2>4. \A q \in Peers : Taken(q)' = Taken(q) /\ Taken(q) \in Nat
                         /\ Len(send[q]) \in Nat
    BY <2>1, LenProperties DEF Taken, TypeOK
  <2>5. joined[p] + Taken(p) + Len(send[p]) = sent - 1
    BY <2>1, <2>2 DEF StreamInv, RegisteredPeerMissesNothing
  <2>6. send'[p] = Append(send[p], sent) /\ \A q \in Peers \ {p} : send'[q] = send[q]
    BY <2>1 DEF TypeOK
  <2>7. HandHeld'
    BY <2>1 DEF StreamInv, HandHeld
  <2>8. NotAhead'
    BY <2>1, <2>3, <2>4, <2>5, <2>6, SMTT(30) DEF StreamInv, NotAhead, TypeOK
  <2>9. RegisteredPeerMissesNothing'
    BY <2>1, <2>3, <2>4, <2>5, <2>6, SMTT(30) DEF StreamInv, RegisteredPeerMissesNothing, TypeOK
  <2>10. ASSUME NEW q \in Peers
         PROVE  \A i \in 1 .. Len(send'[q]) : send'[q][i] = joined'[q] + Taken(q)' + i
    <3>1. CASE q # p
      BY <2>1, <2>4, <2>6, <3>1 DEF StreamInv, GaplessStream
    <3>2. CASE q = p
      <4>1. \A i \in 1 .. Len(send[p]) : send[p][i] = joined[p] + Taken(p) + i
        BY DEF StreamInv, GaplessStream
      <4>2. sent = joined[p] + Taken(p) + (Len(send[p]) + 1)
        <5>1. /\ joined[p] \in Nat /\ Taken(p) \in Nat
              /\ Len(send[p]) \in Nat /\ sent \in Nat
          BY Counts
        <5>2. QED
          BY SMTT(30), <2>5, <5>1
      <4>3. \A i \in 1 .. Len(send[p]) + 1 : send'[p][i] = joined[p] + Taken(p) + i
        BY <2>3, <2>4, <2>6, <4>1, <4>2
      <4>4. QED
        BY <2>1, <2>3, <2>4, <2>6, <3>2, <4>3
    <3>3. QED
      BY <3>1, <3>2
  <2>11. GaplessStream'
    BY <2>1, <2>4, <2>10 DEF StreamInv, GaplessStream
  <2>12. QED
    BY <2>7, <2>8, <2>9, <2>11 DEF StreamInv
<1>8. ASSUME NEW p \in Peers, BroadcastVisits(p), DropPeer(p)
      PROVE  StreamInv'
  <2>1. /\ UNCHANGED <<streamVars, sent, mu, writer>>
        /\ clients' = clients \ {p} /\ todo' = todo \ {p}
    BY <1>8 DEF BroadcastVisits, DropPeer, DeleteAndClose, streamVars
  <2>2. HandHeld'
    BY <2>1 DEF StreamInv, HandHeld, streamVars
  <2>3. QED
    BY <2>1, <2>2, StreamQuiet
<1>9. QED
  BY <1>1, <1>2, <1>3, <1>4, <1>5, <1>6, <1>7, <1>8
  DEF Next, Handler, Writer, Broadcast, Stop, ReadFailsLocally, ClientLeaves,
      WriteFailsLocally, NetworkFails, BroadcastVisits

\* The strengthening is an invariant of the hub.
THEOREM Invariance == Spec => []IInv
<1>1. IInv /\ [Next]_vars => IInv'
  BY TypeStep, HubStep, StreamStep DEF IInv
<1>2. QED
  BY <1>1, InvInit, PTL DEF Spec

\* No interleaving of the forwarder, the handlers and Run sends on a closed
\* channel or closes one twice, whatever the number of peers and broadcasts.
THEOREM ChannelsNeverPanic == Spec => []NoChannelPanic
  BY Invariance, PTL DEF IInv, HubInv

\* Every connection is handed a gapless run of the broadcasts, from the first
\* one after it was added.
THEOREM StreamsAreGapless == Spec => []GaplessStream
  BY Invariance, PTL DEF IInv, StreamInv

\* A peer that is still registered has missed no broadcast.
THEOREM NothingIsMissed == Spec => []RegisteredPeerMissesNothing
  BY Invariance, PTL DEF IInv, StreamInv

\* Every stream is served in order and whole, and then not at all: the two above
\* together.
THEOREM StreamsAreWhole == Spec => []StreamSafety
<1>1. IInv => StreamSafety
  BY DEF IInv, StreamInv, StreamSafety
<1>2. QED
  BY <1>1, Invariance, PTL

-----------------------------------------------------------------------------
(* Refinement of OrderedFanout.                                            *)

\* The session of a connection, as the refinement mapping of RelayHub has it.
Session ==
    [p \in Peers |->
        IF conn[p] = "closed" THEN "over"
        ELSE IF handler[p] \in {"idle", "upgraded"} THEN "none"
        ELSE "live"]

\* The session of one connection, in this state and the next.
LEMMA SessionValue ==
    ASSUME NEW p \in Peers
    PROVE  /\ conn[p] = "closed" => Session[p] = "over"
           /\ conn[p] # "closed" /\ handler[p] \in {"idle", "upgraded"} => Session[p] = "none"
           /\ conn[p] # "closed" /\ handler[p] \notin {"idle", "upgraded"} => Session[p] = "live"
           /\ conn'[p] = "closed" => Session'[p] = "over"
           /\ conn'[p] # "closed" /\ handler'[p] \in {"idle", "upgraded"} => Session'[p] = "none"
           /\ conn'[p] # "closed" /\ handler'[p] \notin {"idle", "upgraded"} => Session'[p] = "live"
  BY DEF Session

\* A function that differs from Session in one place.
LEMMA SessionUpdate ==
    ASSUME NEW p \in Peers, NEW value, Session'[p] = value,
           \A q \in Peers \ {p} : Session'[q] = Session[q]
    PROVE  Session' = [Session EXCEPT ![p] = value]
<1>1. Session = [q \in Peers |-> Session[q]] /\ Session' = [q \in Peers |-> Session'[q]]
  BY DEF Session
<1>2. QED
  BY <1>1

LEMMA SessionSame ==
    ASSUME \A q \in Peers : Session'[q] = Session[q]
    PROVE  Session' = Session
<1>1. Session = [q \in Peers |-> Session[q]] /\ Session' = [q \in Peers |-> Session'[q]]
  BY DEF Session
<1>2. QED
  BY <1>1

LEMMA SessionMapping ==
    /\ UNCHANGED <<sent, Session, joined, received>> => UNCHANGED Fanout!vars
    /\ \A p \in Peers : Fanout!Subscribe(p) <=>
          /\ Session[p] = "none"
          /\ Session' = [Session EXCEPT ![p] = "live"]
          /\ joined' = [joined EXCEPT ![p] = sent]
          /\ UNCHANGED <<sent, received>>
    /\ \A p \in Peers : Fanout!Unsubscribe(p) <=>
          /\ Session[p] # "over"
          /\ Session' = [Session EXCEPT ![p] = "over"]
          /\ UNCHANGED <<sent, joined, received>>
    /\ \A p \in Peers : Fanout!Deliver(p) <=>
          /\ Session[p] = "live"
          /\ joined[p] + Len(received[p]) + 1 <= sent
          /\ received' = [received EXCEPT
                            ![p] = Append(@, joined[p] + Len(received[p]) + 1)]
          /\ UNCHANGED <<sent, Session, joined>>
    /\ Fanout!Publish <=> sent' = sent + 1 /\ UNCHANGED <<Session, joined, received>>
  BY DEF Fanout!vars, Fanout!Subscribe, Fanout!Unsubscribe, Fanout!Deliver,
         Fanout!Publish, Session

\* Closing a connection ends its session, if it had not ended yet.
LEMMA ClosingEndsSession ==
    ASSUME TypeOK, NEW p \in Peers, CloseConn(p),
           UNCHANGED <<sent, joined, received>>,
           \A q \in Peers \ {p} : handler'[q] = handler[q]
    PROVE  [Fanout!Next]_(Fanout!vars)
<1>1. conn'[p] = "closed" /\ \A q \in Peers \ {p} : conn'[q] = conn[q]
  BY DEF CloseConn, TypeOK
<1>2. Session'[p] = "over" /\ \A q \in Peers \ {p} : Session'[q] = Session[q]
  <2>1. Session'[p] = "over"
    BY <1>1, SessionValue
  <2>2. \A q \in Peers \ {p} : Session'[q] = Session[q]
    BY <1>1, SessionValue
  <2>3. QED
    BY <2>1, <2>2
<1>3. Session' = [Session EXCEPT ![p] = "over"]
  BY <1>2, SessionUpdate
<1>4. CASE Session[p] = "over"
  <2>1. Session' = Session
    BY <1>2, <1>4, SessionSame
  <2>2. QED
    BY <2>1, SessionMapping
<1>5. CASE Session[p] # "over"
  BY <1>3, <1>5, SessionMapping DEF Fanout!Next
<1>6. QED
  BY <1>4, <1>5

LEMMA FanoutStep ==
    ASSUME IInv, [Next]_vars
    PROVE  [Fanout!Next]_(Fanout!vars)
<1>0. TypeOK
  BY DEF IInv
<1>1. ASSUME \/ \E p \in Peers : \/ StopReading(p) \/ Remove(p) \/ Upgrade(p)
                               \/ WriterTakes(p) \/ WriterEnds(p)
             \/ BroadcastEnds \/ ForwarderExits
             \/ Cancel \/ CloseAllBegins \/ CloseAllEnds \/ Shutdown
             \/ UNCHANGED vars
      PROVE  UNCHANGED Fanout!vars
  <2>1. UNCHANGED <<sent, joined, received>>
    BY <1>1
    DEF StopReading, Remove, Upgrade, WriterTakes, WriterEnds, BroadcastEnds,
        ForwarderExits, Cancel, CloseAllBegins, CloseAllEnds, Shutdown, vars,
        peerVars
  <2>2. ASSUME NEW q \in Peers
        PROVE  /\ conn'[q] = "closed" <=> conn[q] = "closed"
               /\ handler'[q] \in {"idle", "upgraded"} <=> handler[q] \in {"idle", "upgraded"}
    <3>1. CASE \E p \in Peers : StopReading(p) \/ Remove(p)
      BY <1>0, <3>1 DEF StopReading, Remove, TypeOK
    <3>2. CASE \E p \in Peers : Upgrade(p)
      BY <1>0, <3>2 DEF Upgrade, TypeOK, IInv, HubInv, Unstarted
    <3>3. CASE ~\E p \in Peers : StopReading(p) \/ Remove(p) \/ Upgrade(p)
      BY <1>1, <3>3
      DEF WriterTakes, WriterEnds, BroadcastEnds, ForwarderExits, Cancel,
          CloseAllBegins, CloseAllEnds, Shutdown, vars, peerVars
    <3>4. QED
      BY <3>1, <3>2, <3>3
  <2>3. Session' = Session
    BY <2>2, SessionValue, SessionSame
  <2>4. QED
    BY <2>1, <2>3, SessionMapping
<1>2. ASSUME NEW p \in Peers, Add(p)
      PROVE  Fanout!Next
  <2>1. conn[p] = "open" /\ conn' = conn /\ handler' = [handler EXCEPT ![p] = "reading"]
    BY <1>2 DEF Add, IInv, HubInv, Unstarted
  <2>2. /\ Session[p] = "none" /\ Session'[p] = "live"
        /\ \A q \in Peers \ {p} : Session'[q] = Session[q]
    <3>1. /\ handler[p] = "upgraded" /\ handler'[p] = "reading"
          /\ \A q \in Peers \ {p} : handler'[q] = handler[q]
      BY <1>0, <1>2, <2>1 DEF Add, TypeOK
    <3>2. QED
      BY <2>1, <3>1, SessionValue
  <2>3. Session' = [Session EXCEPT ![p] = "live"]
    BY <2>2, SessionUpdate
  <2>4. Fanout!Subscribe(p)
    BY <1>2, <2>2, <2>3, SessionMapping DEF Add
  <2>5. QED
    BY <2>4 DEF Fanout!Next
<1>3. ASSUME NEW p \in Peers, HandlerCloses(p)
      PROVE  [Fanout!Next]_(Fanout!vars)
  BY <1>0, <1>3, ClosingEndsSession DEF HandlerCloses, TypeOK
<1>4. ASSUME NEW p \in Peers, WriteFails(p)
      PROVE  [Fanout!Next]_(Fanout!vars)
  BY <1>0, <1>4, ClosingEndsSession DEF WriteFails
<1>5. ASSUME NEW p \in Peers, CloseAllVisits(p)
      PROVE  [Fanout!Next]_(Fanout!vars)
  BY <1>0, <1>5, ClosingEndsSession DEF CloseAllVisits
<1>6. ASSUME NEW p \in Peers, BroadcastVisits(p)
      PROVE  [Fanout!Next]_(Fanout!vars)
  <2>1. CASE SendToPeer(p)
    <3>1. UNCHANGED <<sent, joined, received, conn, handler>>
      BY <1>6, <2>1 DEF BroadcastVisits, SendToPeer
    <3>2. Session' = Session
      BY <3>1, SessionValue, SessionSame
    <3>3. QED
      BY <3>1, <3>2, SessionMapping
  <2>2. CASE DropPeer(p)
    BY <1>0, <1>6, <2>2, ClosingEndsSession DEF BroadcastVisits, DropPeer
  <2>3. QED
    BY <1>6, <2>1, <2>2 DEF BroadcastVisits
<1>7. ASSUME NEW p \in Peers, WriteSucceeds(p)
      PROVE  Fanout!Next
  <2>1. hand[p] # 0 /\ conn[p] = "open" /\ handler[p] \notin {"idle", "upgraded"}
    BY <1>7 DEF WriteSucceeds, IInv, HubInv, Unstarted, StreamInv, HandHeld
  <2>2. hand[p] = joined[p] + Len(received[p]) + 1
    BY <2>1 DEF IInv, StreamInv, GaplessStream
  <2>3. hand[p] <= sent
    <3>1. /\ Taken(p) = Len(received[p]) + 1
          /\ joined[p] + Taken(p) + Len(send[p]) <= sent
      BY <2>1 DEF Taken, IInv, StreamInv, NotAhead
    <3>2. /\ joined[p] \in Nat /\ Len(received[p]) \in Nat
          /\ Len(send[p]) \in Nat /\ sent \in Nat
      BY <1>0, Counts
    <3>3. QED
      BY <2>2, <3>1, <3>2
  <2>4. Session[p] = "live" /\ Session' = Session
    BY <1>7, <2>1 DEF Session, WriteSucceeds
  <2>5. Fanout!Deliver(p)
    BY <1>7, <2>2, <2>3, <2>4, SessionMapping DEF WriteSucceeds
  <2>6. QED
    BY <2>5 DEF Fanout!Next
<1>8. ASSUME BroadcastBegins
      PROVE  Fanout!Next
  <2>1. sent' = sent + 1 /\ UNCHANGED <<conn, handler, joined, received>>
    BY <1>8 DEF BroadcastBegins, peerVars
  <2>2. Fanout!Publish
    BY <2>1, SessionMapping DEF Session
  <2>3. QED
    BY <2>2 DEF Fanout!Next
<1>9. QED
  BY <1>1, <1>2, <1>3, <1>4, <1>5, <1>6, <1>7, <1>8
  DEF Next, Handler, Writer, Broadcast, Stop, ReadFailsLocally, ClientLeaves,
      WriteFailsLocally, NetworkFails

\* The hub, with its buffers, its drops and its goroutines, gives its clients
\* an ordered fan-out, for every number of them.
THEOREM HubIsOrderedFanout == Spec => ImplementsFanout
<1>1. Init => Fanout!Init
  BY DEF Init, Fanout!Init
<1>2. QED
  BY <1>1, FanoutStep, Invariance, PTL DEF Spec, ImplementsFanout, Fanout!Spec
=============================================================================
