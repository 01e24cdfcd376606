------------------------ MODULE ServerPipelineProofs ------------------------
(***************************************************************************)
(* Proofs about ServerPipeline for every set of messages, queue capacity   *)
(* and number of restarts: nothing unarchived is shown, nothing is shown   *)
(* twice, a process archives at most one message it never relays, a failed *)
(* archive write silences the process, and the pipeline implements         *)
(* ArchivedRelay.                                                          *)
(***************************************************************************)
EXTENDS ServerPipeline, SequenceTheorems, FiniteSetTheorems, TLAPS

-----------------------------------------------------------------------------
(* Lemmas about sequences.                                                 *)

\* Appending an element adds it, and nothing else, to the range.
LEMMA RangeAppend ==
    ASSUME NEW S, NEW seq \in Seq(S), NEW e \in S
    PROVE  Range(Append(seq, e)) = Range(seq) \cup {e}
<1>. DEFINE long == Append(seq, e)
<1>1. /\ DOMAIN seq = 1 .. Len(seq)
      /\ DOMAIN long = 1 .. Len(seq) + 1
      /\ Len(seq) \in Nat
  BY AppendProperties, LenProperties
<1>2. \A i \in 1 .. Len(seq) : long[i] = seq[i]
  BY AppendProperties
<1>3. long[Len(seq) + 1] = e
  BY AppendProperties
<1>4. 1 .. Len(seq) + 1 = 1 .. Len(seq) \cup {Len(seq) + 1}
  BY <1>1
<1>. HIDE DEF long
<1>5. Range(long) = {long[i] : i \in 1 .. Len(seq)} \cup {e}
  BY <1>1, <1>3, <1>4 DEF Range
<1>6. QED
  BY <1>1, <1>2, <1>5 DEF Range, long

\* Appending an element that is not there keeps a sequence free of repeats.
LEMMA NoRepetitionAppend ==
    ASSUME NEW S, NEW seq \in Seq(S), NEW e \in S,
           NoRepetition(seq), e \notin Range(seq)
    PROVE  NoRepetition(Append(seq, e))
<1>. DEFINE long == Append(seq, e)
<1>1. /\ Len(long) = Len(seq) + 1
      /\ Len(seq) \in Nat
      /\ DOMAIN seq = 1 .. Len(seq)
  BY AppendProperties, LenProperties
<1>2. /\ \A i \in 1 .. Len(seq) : long[i] = seq[i]
      /\ long[Len(seq) + 1] = e
  BY AppendProperties
<1>3. \A i \in 1 .. Len(seq) : seq[i] # e
  BY <1>1 DEF Range
<1>. HIDE DEF long
<1>4. ASSUME NEW i \in 1 .. Len(long), NEW j \in 1 .. Len(long), long[i] = long[j]
      PROVE  i = j
  <2>1. CASE i \in 1 .. Len(seq) /\ j \in 1 .. Len(seq)
    BY <1>2, <1>4, <2>1 DEF NoRepetition
  <2>2. CASE i = Len(seq) + 1 /\ j \in 1 .. Len(seq)
    BY <1>2, <1>3, <1>4, <2>2
  <2>3. CASE i \in 1 .. Len(seq) /\ j = Len(seq) + 1
    BY <1>2, <1>3, <1>4, <2>3
  <2>4. CASE i = Len(seq) + 1 /\ j = Len(seq) + 1
    BY <2>4
  <2>5. QED
    BY <1>1, <2>1, <2>2, <2>3, <2>4
<1>5. QED
  BY <1>4 DEF NoRepetition, long

-----------------------------------------------------------------------------
(* Type correctness.                                                       *)

LEMMA TypeInit == Init => TypeOK
<1>1. <<>> \in Seq(Messages) /\ Len(<<>>) = 0
  BY EmptySeq
<1>2. [s \in Sockets |-> {}] \in [Sockets -> SUBSET Messages]
  OBVIOUS
<1>3. ASSUME Init
      PROVE  TypeOK
  <2>1. \A s \in Sockets : pending[s] = {}
    BY <1>3 DEF Init
  <2>2. failed \in BOOLEAN
    BY <1>3, Zenon DEF Init
  <2>3. QED
    BY <1>1, <1>2, <1>3, <2>1, <2>2, PipelineAssumption
    DEF Init, TypeOK, PipelineAssumption
<1>4. QED
  BY <1>3

LEMMA TypeStep ==
    ASSUME TypeOK, [Next]_vars
    PROVE  TypeOK'
<1>. USE PipelineAssumption DEF TypeOK, PipelineAssumption
<1>1. ASSUME NEW e \in KickEvents, KickQueued(e)
      PROVE  TypeOK'
  <2>1. e \in Messages
    BY DEF Messages
  <2>2. queue' \in Seq(Messages) /\ Len(queue') = Len(queue) + 1
    BY <1>1, <2>1, AppendProperties DEF KickQueued
  <2>3. QED
    BY <1>1, <2>2, LenProperties DEF KickQueued, QueueHasRoom, Answer
<1>2. ASSUME NEW e \in KickEvents, KickRepeated(e)
      PROVE  TypeOK'
  BY <1>2 DEF KickRepeated, memory
<1>3. ASSUME NEW s \in Sockets, NEW m \in Messages, SocketReads(s, m)
      PROVE  TypeOK'
  BY <1>3 DEF SocketReads
<1>4. ASSUME NEW s \in Sockets, NEW m \in Messages, SocketSends(s, m)
      PROVE  TypeOK'
  <2>1. queue' \in Seq(Messages) /\ Len(queue') = Len(queue) + 1
    BY <1>4, AppendProperties DEF SocketSends
  <2>2. pending' \in [Sockets -> SUBSET Messages]
        /\ \A t \in Sockets : pending'[t] \subseteq EventsOf(t)
    BY <1>4 DEF SocketSends
  <2>3. QED
    BY <1>4, <2>1, <2>2, LenProperties DEF SocketSends, QueueHasRoom
<1>5. ASSUME NEW s \in Sockets, SocketGivesUp(s)
      PROVE  TypeOK'
  BY <1>5 DEF SocketGivesUp
<1>6. ASSUME Take
      PROVE  TypeOK'
  <2>1. Head(queue) \in Messages /\ queue' \in Seq(Messages)
        /\ Len(queue') = Len(queue) - 1
    BY <1>6, HeadTailProperties DEF Take
  <2>2. QED
    BY <1>6, <2>1, LenProperties DEF Take
<1>7. ASSUME NEW m \in Messages, StoreNew(m)
      PROVE  TypeOK'
  BY <1>7, AppendProperties DEF StoreNew
<1>8. ASSUME NEW m \in Messages, StoreDuplicate(m)
      PROVE  TypeOK'
  BY <1>8 DEF StoreDuplicate
<1>9. ASSUME NEW m \in Messages, StoreFails(m)
      PROVE  TypeOK'
  <2>1. archive' = archive \/ archive' = Append(archive, m)
    BY <1>9, Zenon DEF StoreFails, RowMayBeWritten
  <2>2. archive' \in Seq(Messages)
    <3>1. Append(archive, m) \in Seq(Messages)
      BY AppendProperties
    <3>2. QED
      BY <2>1, <3>1
  <2>3. QED
    BY <1>9, <2>2 DEF StoreFails
<1>10. ASSUME NEW m \in Messages, Observe(m)
       PROVE  TypeOK'
  BY <1>10, AppendProperties DEF Observe
<1>11. ASSUME NEW m \in Messages, Relay(m)
       PROVE  TypeOK'
  BY <1>11, AppendProperties DEF Relay
<1>12. ASSUME ForwardStops
       PROVE  TypeOK'
  BY <1>12 DEF ForwardStops
<1>13. ASSUME StopRequested \/ FailureStops
       PROVE  TypeOK'
  BY <1>13 DEF StopRequested, FailureStops, memory
<1>14. ASSUME Ends
       PROVE  TypeOK'
  <2>1. queue' \in Seq(Messages) /\ Len(queue') = 0
    BY <1>14, EmptySeq DEF Ends
  <2>2. pending' \in [Sockets -> SUBSET Messages]
        /\ \A s \in Sockets : pending'[s] = {}
    BY <1>14 DEF Ends
  <2>3. failed' \in BOOLEAN
    BY <1>14, Zenon DEF Ends
  <2>4. QED
    BY <1>14, <2>1, <2>2, <2>3 DEF Ends
<1>15. ASSUME Restart
       PROVE  TypeOK'
  BY <1>15 DEF Restart, memory
<1>16. ASSUME UNCHANGED vars
       PROVE  TypeOK'
  BY <1>16 DEF vars, memory
<1>17. QED
  BY <1>1, <1>2, <1>3, <1>4, <1>5, <1>6, <1>7, <1>8, <1>9, <1>10, <1>11,
     <1>12, <1>13, <1>14, <1>15, <1>16
  DEF Next, Produce, Forward, Process, Accept, Exit, Crash

\* Every reachable state of the pipeline has its type; in particular the
\* channel of messages never holds more than its capacity (main.go:478).
THEOREM TypeCorrect == Spec => []TypeOK
  BY TypeInit, TypeStep, PTL DEF Spec

-----------------------------------------------------------------------------
(* The inductive invariant.  What is shown is in the archive only because  *)
(* the message in hand is, once it may be shown; it is shown once only     *)
(* because StoreNew has checked it against an archive that holds all that  *)
(* was ever shown; and a failure is final because forward has returned.    *)

CurrentIsArchived ==
    forward \in {"observing", "relaying"} => current \subseteq Range(archive)

CurrentIsUnshown ==
    /\ forward = "observing" => current \cap Range(observed) = {}
    /\ forward \in {"observing", "relaying"} => current \cap Range(relayed) = {}

FailedHasExited == failed => forward = "exited"

IInv ==
    /\ TypeOK
    /\ ShownIsArchived
    /\ ShownOnce
    /\ CurrentIsArchived
    /\ CurrentIsUnshown
    /\ FailedHasExited

shownVars == <<forward, current, failed, archive, observed, relayed>>

LEMMA InvInit == Init => IInv
<1>. SUFFICES ASSUME Init
              PROVE  IInv
  OBVIOUS
<1>1. TypeOK
  BY TypeInit
<1>2. observed = <<>> /\ relayed = <<>> /\ DOMAIN <<>> = {}
  BY LenProperties, EmptySeq DEF Init
<1>3. Range(observed) = {} /\ Range(relayed) = {}
  BY <1>2 DEF Range
<1>4. ShownOnce
  BY <1>2 DEF ShownOnce, NoRepetition
<1>5. CurrentIsArchived /\ CurrentIsUnshown /\ FailedHasExited
  BY Zenon DEF Init, CurrentIsArchived, CurrentIsUnshown, FailedHasExited
<1>6. QED
  BY <1>1, <1>3, <1>4, <1>5 DEF IInv, ShownIsArchived

\* A step that touches nothing of what is shown, or is about to be, preserves
\* the invariant.
LEMMA QuietStep ==
    ASSUME IInv, TypeOK', UNCHANGED shownVars
    PROVE  IInv'
  BY DEF IInv, ShownIsArchived, ShownOnce, CurrentIsArchived,
         CurrentIsUnshown, FailedHasExited, shownVars

LEMMA InvStep ==
    ASSUME IInv, [Next]_vars
    PROVE  IInv'
<1>0. TypeOK /\ TypeOK'
  BY TypeStep DEF IInv
<1>1. ASSUME \/ \E e \in KickEvents : KickQueued(e) \/ KickRepeated(e)
             \/ \E s \in Sockets :
                   \/ SocketGivesUp(s)
                   \/ \E m \in Messages : SocketReads(s, m) \/ SocketSends(s, m)
             \/ StopRequested \/ FailureStops \/ Restart
             \/ UNCHANGED vars
      PROVE  IInv'
  <2>1. UNCHANGED shownVars
    BY <1>1
    DEF KickQueued, KickRepeated, SocketGivesUp, SocketReads, SocketSends,
        StopRequested, FailureStops, Restart, vars, memory, shownVars
  <2>2. QED
    BY <1>0, <2>1, QuietStep
<1>2. ASSUME \/ Take \/ ForwardStops \/ Ends
             \/ \E m \in Messages : StoreDuplicate(m)
      PROVE  IInv'
  <2>1. /\ UNCHANGED <<archive, observed, relayed>>
        /\ forward' \notin {"observing", "relaying"}
    BY <1>2 DEF Take, ForwardStops, Ends, StoreDuplicate
  <2>2. FailedHasExited'
    BY <1>2, Zenon
    DEF IInv, FailedHasExited, Take, ForwardStops, Ends, StoreDuplicate
  <2>3. QED
    BY <1>0, <2>1, <2>2
    DEF IInv, ShownIsArchived, ShownOnce, CurrentIsArchived, CurrentIsUnshown
<1>3. ASSUME NEW m \in Messages, StoreNew(m)
      PROVE  IInv'
  <2>1. Range(archive') = Range(archive) \cup {m}
    BY <1>0, <1>3, RangeAppend DEF TypeOK, StoreNew
  <2>2. m \notin Range(observed) /\ m \notin Range(relayed)
    BY <1>3 DEF IInv, ShownIsArchived, StoreNew, Stored
  <2>3. ShownIsArchived' /\ ShownOnce' /\ CurrentIsArchived' /\ CurrentIsUnshown'
    BY <1>3, <2>1, <2>2
    DEF IInv, StoreNew, Holds, ShownIsArchived, ShownOnce,
        CurrentIsArchived, CurrentIsUnshown
  <2>4. FailedHasExited'
    BY <1>3, Zenon DEF IInv, FailedHasExited, StoreNew
  <2>5. QED
    BY <1>0, <2>3, <2>4 DEF IInv
<1>4. ASSUME NEW m \in Messages, StoreFails(m)
      PROVE  IInv'
  <2>1. archive' = archive \/ archive' = Append(archive, m)
    BY <1>4, Zenon DEF StoreFails, RowMayBeWritten
  <2>2. Range(archive) \subseteq Range(archive')
    <3>1. Range(Append(archive, m)) = Range(archive) \cup {m}
      BY <1>0, RangeAppend DEF TypeOK
    <3>2. QED
      BY <2>1, <3>1
  <2>3. forward' = "exited" /\ UNCHANGED <<observed, relayed>>
    BY <1>4 DEF StoreFails
  <2>4. QED
    BY <1>0, <2>2, <2>3
    DEF IInv, ShownIsArchived, ShownOnce, CurrentIsArchived,
        CurrentIsUnshown, FailedHasExited
<1>5. ASSUME NEW m \in Messages, Observe(m)
      PROVE  IInv'
  <2>1. m \in Range(archive) /\ m \notin Range(observed) /\ m \notin Range(relayed)
    BY <1>5 DEF IInv, CurrentIsArchived, CurrentIsUnshown, Observe, Holds
  <2>2. Range(observed') = Range(observed) \cup {m}
    BY <1>0, <1>5, RangeAppend DEF TypeOK, Observe
  <2>3. NoRepetition(observed')
    BY <1>0, <1>5, <2>1, NoRepetitionAppend DEF IInv, TypeOK, ShownOnce, Observe
  <2>4. UNCHANGED <<archive, relayed, current, failed>> /\ forward' = "relaying"
    BY <1>5 DEF Observe
  <2>5. ~failed
    BY <1>5 DEF IInv, FailedHasExited, Observe
  <2>6. FailedHasExited'
    BY <2>4, <2>5, Zenon DEF FailedHasExited
  <2>7. QED
    BY <1>0, <1>5, <2>1, <2>2, <2>3, <2>4, <2>6
    DEF IInv, ShownIsArchived, ShownOnce, CurrentIsArchived, CurrentIsUnshown,
        Observe, Holds
<1>6. ASSUME NEW m \in Messages, Relay(m)
      PROVE  IInv'
  <2>1. m \in Range(archive) /\ m \notin Range(relayed)
    BY <1>6 DEF IInv, CurrentIsArchived, CurrentIsUnshown, Relay, Holds
  <2>2. Range(relayed') = Range(relayed) \cup {m}
    BY <1>0, <1>6, RangeAppend DEF TypeOK, Relay
  <2>3. NoRepetition(relayed')
    BY <1>0, <1>6, <2>1, NoRepetitionAppend DEF IInv, TypeOK, ShownOnce, Relay
  <2>4. UNCHANGED <<archive, observed, failed>> /\ forward' = "waiting"
    BY <1>6 DEF Relay
  <2>5. FailedHasExited'
    BY <1>6, Zenon DEF IInv, FailedHasExited, Relay
  <2>6. QED
    BY <1>0, <2>1, <2>2, <2>3, <2>4, <2>5
    DEF IInv, ShownIsArchived, ShownOnce, CurrentIsArchived, CurrentIsUnshown
<1>7. QED
  BY <1>1, <1>2, <1>3, <1>4, <1>5, <1>6
  DEF Next, Produce, Forward, Process, Accept, Exit, Crash

\* The strengthening is an invariant of the pipeline.
THEOREM Invariance == Spec => []IInv
  BY InvInit, InvStep, PTL DEF Spec

\* No client and no observer is shown a message that is not in the archive,
\* for every capacity, set of messages and number of restarts: the gate of
\* relay.go:305-319 and archive.go:135-167.
THEOREM ArchivedBeforeShown == Spec => []ShownIsArchived
  BY Invariance, PTL DEF IInv

\* No message is relayed, or shown to the observers, twice.
THEOREM ShownAtMostOnce == Spec => []ShownOnce
  BY Invariance, PTL DEF IInv

\* A process whose archive write has failed stores and shows nothing more.
THEOREM SilentAfterFailure == Spec => NothingShownAfterFailure
<1>1. ASSUME IInv, [Next]_vars, failed
      PROVE  UNCHANGED <<archive, observed, relayed>>
  <2>1. forward = "exited"
    BY <1>1 DEF IInv, FailedHasExited
  <2>2. QED
    BY <1>1, <2>1
    DEF Next, Produce, Forward, Process, Accept, Exit, Crash, KickQueued,
        KickRepeated, SocketReads, SocketSends, SocketGivesUp, Take, StoreNew,
        StoreDuplicate, StoreFails, Observe, Relay, ForwardStops,
        StopRequested, FailureStops, Ends, Restart, vars
<1>2. IInv /\ [Next]_vars => [failed => UNCHANGED <<archive, observed, relayed>>]_vars
  BY <1>1
<1>3. QED
  BY <1>2, Invariance, PTL DEF Spec, NothingShownAfterFailure

-----------------------------------------------------------------------------
(* Messages archived and never relayed.  A process owes at most one, and   *)
(* while its forward goroutine has archived nothing it has not relayed, it *)
(* owes none yet: the messages owed are those of the earlier processes.    *)

Unrelayed == Range(archive) \ Range(relayed)

Owing == forward \in {"observing", "relaying", "exited"}

OneOwedPerRun ==
    /\ IsFiniteSet(Unrelayed)
    /\ Cardinality(Unrelayed) <= runs
    /\ Running /\ ~Owing => Cardinality(Unrelayed) <= runs - 1

LEMMA OwedInit == Init => OneOwedPerRun
<1>. SUFFICES ASSUME Init
              PROVE  OneOwedPerRun
  OBVIOUS
<1>1. archive = <<>> /\ runs = 1 /\ DOMAIN <<>> = {}
  BY LenProperties, EmptySeq DEF Init
<1>2. Unrelayed = {}
  BY <1>1 DEF Unrelayed, Range
<1>3. IsFiniteSet({}) /\ Cardinality({}) = 0
  BY FS_EmptySet
<1>4. QED
  BY <1>1, <1>2, <1>3 DEF OneOwedPerRun

\* A message more is one more owed, at most.
LEMMA OneMoreOwed ==
    ASSUME OneOwedPerRun, TypeOK, NEW m, Unrelayed' = Unrelayed \cup {m}
    PROVE  /\ IsFiniteSet(Unrelayed')
           /\ Cardinality(Unrelayed') <= Cardinality(Unrelayed) + 1
           /\ Cardinality(Unrelayed) \in Nat
           /\ Cardinality(Unrelayed') \in Nat
<1>1. IsFiniteSet(Unrelayed) /\ Cardinality(Unrelayed) \in Nat
  BY FS_CardinalityType DEF OneOwedPerRun
<1>2. IsFiniteSet(Unrelayed \cup {m})
      /\ \/ Cardinality(Unrelayed \cup {m}) = Cardinality(Unrelayed)
         \/ Cardinality(Unrelayed \cup {m}) = Cardinality(Unrelayed) + 1
  BY <1>1, FS_AddElement
<1>3. QED
  BY <1>1, <1>2

LEMMA OwedStep ==
    ASSUME IInv, OneOwedPerRun, [Next]_vars
    PROVE  OneOwedPerRun'
<1>0. TypeOK /\ TypeOK' /\ runs \in Nat /\ Cardinality(Unrelayed) \in Nat
  BY TypeStep, FS_CardinalityType, PipelineAssumption
  DEF IInv, TypeOK, OneOwedPerRun, PipelineAssumption
\* Steps that archive and relay nothing, and leave a debt where there is one.
<1>1. ASSUME UNCHANGED <<archive, relayed, runs>>,
             Running' => Running /\ (Owing' <=> Owing)
      PROVE  OneOwedPerRun'
  BY <1>1 DEF OneOwedPerRun, Unrelayed
<1>2. ASSUME \/ \E e \in KickEvents : KickQueued(e) \/ KickRepeated(e)
             \/ \E s \in Sockets :
                   \/ SocketGivesUp(s)
                   \/ \E m \in Messages : SocketReads(s, m) \/ SocketSends(s, m)
             \/ StopRequested \/ FailureStops \/ Take \/ Ends
             \/ \E m \in Messages : StoreDuplicate(m) \/ Observe(m)
             \/ UNCHANGED vars
      PROVE  OneOwedPerRun'
  <2>1. /\ UNCHANGED <<archive, relayed, runs>>
        /\ Running' => Running /\ (Owing' <=> Owing)
    BY <1>2
    DEF KickQueued, KickRepeated, SocketGivesUp, SocketReads, SocketSends,
        StopRequested, FailureStops, Take, Ends, StoreDuplicate, Observe, vars,
        memory, Owing, Running
  <2>2. QED
    BY <1>1, <2>1
<1>3. ASSUME ForwardStops
      PROVE  OneOwedPerRun'
  BY <1>3 DEF ForwardStops, OneOwedPerRun, Unrelayed, Owing
<1>4. ASSUME NEW m \in Messages, StoreNew(m) \/ StoreFails(m)
      PROVE  OneOwedPerRun'
  <2>1. Running /\ ~Owing /\ Owing' /\ UNCHANGED <<relayed, runs>>
    BY <1>4 DEF StoreNew, StoreFails, Owing
  <2>2. Unrelayed' = Unrelayed \/ Unrelayed' = Unrelayed \cup {m}
    <3>1. CASE UNCHANGED archive
      BY <2>1, <3>1 DEF Unrelayed
    <3>2. CASE ~Stored(m) /\ archive' = Append(archive, m)
      <4>1. Range(archive') = Range(archive) \cup {m}
        BY <1>0, <3>2, RangeAppend DEF TypeOK
      <4>2. m \notin Range(relayed)
        BY <3>2 DEF IInv, ShownIsArchived, Stored
      <4>3. QED
        BY <2>1, <4>1, <4>2 DEF Unrelayed
    <3>3. QED
      BY <1>4, <3>1, <3>2 DEF StoreNew, StoreFails, RowMayBeWritten
  <2>3. Cardinality(Unrelayed) <= runs - 1
    BY <2>1 DEF OneOwedPerRun
  <2>4. CASE Unrelayed' = Unrelayed
    BY <2>1, <2>4 DEF OneOwedPerRun
  <2>5. CASE Unrelayed' = Unrelayed \cup {m}
    <3>1. /\ IsFiniteSet(Unrelayed')
          /\ Cardinality(Unrelayed') <= Cardinality(Unrelayed) + 1
          /\ Cardinality(Unrelayed') \in Nat
      BY <1>0, <2>5, OneMoreOwed
    <3>2. Cardinality(Unrelayed') <= runs'
      BY <1>0, <2>1, <2>3, <3>1
    <3>3. QED
      BY <2>1, <3>1, <3>2 DEF OneOwedPerRun
  <2>6. QED
    BY <2>2, <2>4, <2>5
<1>5. ASSUME NEW m \in Messages, Relay(m)
      PROVE  OneOwedPerRun'
  <2>1. m \in Unrelayed
    BY <1>5 DEF IInv, CurrentIsArchived, CurrentIsUnshown, Relay, Holds, Unrelayed
  <2>2. Range(relayed') = Range(relayed) \cup {m}
    BY <1>0, <1>5, RangeAppend DEF TypeOK, Relay
  <2>3. Unrelayed' = Unrelayed \ {m} /\ UNCHANGED runs
    BY <1>5, <2>2 DEF Unrelayed, Relay
  <2>4. /\ IsFiniteSet(Unrelayed \ {m})
        /\ Cardinality(Unrelayed \ {m}) = Cardinality(Unrelayed) - 1
    BY <2>1, FS_RemoveElement DEF OneOwedPerRun
  <2>5. QED
    BY <1>0, <2>3, <2>4 DEF OneOwedPerRun
<1>6. ASSUME Restart
      PROVE  OneOwedPerRun'
  <2>1. UNCHANGED <<archive, relayed>> /\ runs' = runs + 1
    BY <1>6 DEF Restart
  <2>2. QED
    BY <1>0, <2>1 DEF OneOwedPerRun, Unrelayed
<1>7. QED
  BY <1>2, <1>3, <1>4, <1>5, <1>6
  DEF Next, Produce, Forward, Process, Accept, Exit, Crash

\* A process archives at most one message that it never relays, however it
\* fails or is stopped: the one forward has in hand (relay.go:305-319).
THEOREM OneMessageOwedPerRun == Spec => []AtMostOneUnrelayedPerRun
<1>1. OneOwedPerRun => AtMostOneUnrelayedPerRun
  BY DEF OneOwedPerRun, AtMostOneUnrelayedPerRun, Unrelayed
<1>2. QED
  BY <1>1, OwedInit, OwedStep, Invariance, PTL DEF Spec

-----------------------------------------------------------------------------
(* Refinement.                                                             *)

\* Whatever the pipeline does is a step of ArchivedRelay or invisible to it:
\* storing is Store, broadcasting is Relay, and a crash between the two is
\* Abandon.
LEMMA RefinesStep ==
    ASSUME [Next]_vars
    PROVE  [Promise!Next]_(Promise!vars)
<1>. USE DEF Promise!vars, Promise!Range, Range
<1>1. ASSUME UNCHANGED shownVars
      PROVE  UNCHANGED Promise!vars
  BY <1>1 DEF shownVars
<1>2. ASSUME \/ \E e \in KickEvents : KickQueued(e) \/ KickRepeated(e)
             \/ \E s \in Sockets :
                   \/ SocketGivesUp(s)
                   \/ \E m \in Messages : SocketReads(s, m) \/ SocketSends(s, m)
             \/ StopRequested \/ FailureStops \/ Restart
             \/ UNCHANGED vars
      PROVE  UNCHANGED shownVars
  BY <1>2
  DEF KickQueued, KickRepeated, SocketGivesUp, SocketReads, SocketSends,
      StopRequested, FailureStops, Restart, vars, memory, shownVars
<1>3. ASSUME \/ Take \/ ForwardStops \/ Ends
             \/ \E m \in Messages : StoreDuplicate(m)
      PROVE  Promise!Abandon
  BY <1>3 DEF Take, ForwardStops, Ends, StoreDuplicate, Promise!Abandon
<1>4. ASSUME NEW m \in Messages, StoreNew(m)
      PROVE  Promise!Store(m)
  BY <1>4 DEF StoreNew, Stored, Holds, Promise!Store
<1>5. ASSUME NEW m \in Messages, StoreFails(m)
      PROVE  Promise!Store(m) \/ Promise!Abandon
  <2>1. CASE UNCHANGED archive
    BY <1>5, <2>1 DEF StoreFails, Promise!Abandon
  <2>2. CASE ~Stored(m) /\ archive' = Append(archive, m)
    BY <1>5, <2>2 DEF StoreFails, Stored, Promise!Store
  <2>3. QED
    BY <1>5, <2>1, <2>2 DEF StoreFails, RowMayBeWritten
<1>6. ASSUME NEW m \in Messages, Observe(m)
      PROVE  UNCHANGED Promise!vars
  BY <1>6 DEF Observe
<1>7. ASSUME NEW m \in Messages, Relay(m)
      PROVE  Promise!Relay(m)
  BY <1>7 DEF Relay, Holds, Promise!Relay
<1>8. QED
  BY <1>1, <1>2, <1>3, <1>4, <1>5, <1>6, <1>7
  DEF Next, Produce, Forward, Process, Accept, Exit, Crash, Promise!Next

\* The server implements the promise of ArchivedRelay whatever its queue holds
\* and however often it fails and is started again.
THEOREM KeepsPromise == Spec => ImplementsArchivedRelay
<1>1. Init => Promise!Init
  BY DEF Init, Promise!Init
<1>2. QED
  BY <1>1, RefinesStep, PTL DEF Spec, ImplementsArchivedRelay, Promise!Spec
=============================================================================
