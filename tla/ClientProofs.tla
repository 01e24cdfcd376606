----------------------------- MODULE ClientProofs ------------------------------
(***************************************************************************)
(* Proofs about the clients: the reading side of the terminal client       *)
(* (ClientPipeline), for every number of adapters, every size of its       *)
(* queues and of its cache of IDs, and any failure; the terminal with its  *)
(* prompt and its writing side (TerminalClient), for any screen, lines and *)
(* sessions; and the emotes on the screen (EmoteDisplay).                  *)
(***************************************************************************)
EXTENDS Client, FiniteSetTheorems, SequenceTheorems, WellFoundedInduction, TLAPS

-----------------------------------------------------------------------------
(* The reading side of the terminal client: the inductive invariant of     *)
(* ClientPipeline.                                                         *)

AggRecord ==
    [pc : {"select", "full", "flush", "last", "done"}, heap : SUBSET (PipeMessages \X Nat),
     timer : BOOLEAN, sequence : Nat, closed : BOOLEAN]
LoopResults ==
    {"none", "render failed", "logging failed", "shutdown", "cancelled", "adapter failed",
     "done"}
LoopRecord ==
    [pc : {"select", "render", "log", "drain", "returned"}, msg : Nat, remaining : Nat,
     merged : BOOLEAN, failed : BOOLEAN, result : LoopResults]
PipeRecord ==
    [published : Seq(PipeMessages), accepted : Seq(PipeMessages), rendered : Seq(Nat),
     logged : Seq(Nat), disorder : BOOLEAN]

PipeShapes ==
    /\ adapter \in [Adapters -> {"running", "ended", "failed"}]
    /\ pipeInput \in [Adapters -> Seq(PipeMessages)]
    /\ incoming \in Seq(PipeMessages) /\ seen \in Seq(PipeMessages)
    /\ out \in Seq(PipeMessages)
    /\ agg \in AggRecord /\ loop \in LoopRecord /\ pipeHist \in PipeRecord

\* Nothing holds more than it may; who takes a message finds room in the heap.
WithinBounds ==
    /\ \A a \in Adapters : Len(pipeInput[a]) <= PipeQueue
    /\ Len(incoming) <= PipeQueue /\ Len(out) <= PipeQueue
    /\ IsFiniteSet(agg.heap) /\ Cardinality(agg.heap) <= PipeQueue
    /\ agg.pc = "select" => Cardinality(agg.heap) < PipeQueue

\* The timer runs while the heap waits, and goes on running when a full heap
\* gives up its oldest message.
TimerRuns ==
    /\ agg.pc \in {"select", "full"} /\ agg.heap # {} => agg.timer
    /\ agg.pc = "full" => agg.heap # {}
InOrder == pipeHist.disorder = FALSE

\* The IDs remembered are those of the messages accepted last, as many as the
\* cache holds or as there were.
Recent ==
    LET n == Len(pipeHist.accepted)
        k == Len(seen)
    IN  /\ k <= n /\ k <= DuplicateCapacity /\ (k = n \/ k = DuplicateCapacity)
        /\ \A i \in 1 .. k : seen[i] = pipeHist.accepted[n - k + i]

\* Every valid message that was published is on its way to the aggregator or
\* was accepted, and what was accepted is in the heap, in the output, at hand
\* or in the log.
AtHand ==
    IF \/ loop.pc \in {"render", "log"}
       \/ loop.result \in {"render failed", "logging failed"}
    THEN {loop.msg} ELSE {}
Arriving(m) ==
    \/ m \in Pipe!Range(incoming)
    \/ \E a \in Adapters : m \in Pipe!Range(pipeInput[a])
Whereabouts ==
    /\ \A m \in Pipe!Range(pipeHist.published) \ Invalid :
         m \in Pipe!Range(pipeHist.accepted) \/ Arriving(m)
    /\ \A m : Arriving(m) => m \in Pipe!Range(pipeHist.published)
    /\ Pipe!Range(pipeHist.accepted) \subseteq Pipe!Range(pipeHist.published) \ Invalid
    /\ Pipe!Range(pipeHist.accepted) =
         {q[1] : q \in agg.heap} \cup Pipe!Range(out) \cup AtHand
           \cup Pipe!Range(pipeHist.logged)

\* The aggregator ends when nothing can come any more, unless the context
\* ended it, and the main loop after it has taken everything.
Drying ==
    /\ agg.closed = (agg.pc = "done")
    /\ ctx /\ agg.pc \in {"last", "done"} =>
         /\ incoming = <<>>
         /\ \A a \in Adapters : adapter[a] # "running" /\ pipeInput[a] = <<>>
    /\ ctx /\ agg.pc = "done" => agg.heap = {}
    /\ ~loop.merged => agg.pc = "done" /\ out = <<>>

Returned ==
    /\ (loop.result # "none") = (loop.pc = "returned")
    /\ loop.result \in {"done", "adapter failed"} => ~loop.merged
    /\ loop.result = "shutdown" => loop.remaining = 0

Written ==
    IF loop.pc = "log" \/ loop.result = "logging failed"
    THEN pipeHist.rendered = Append(pipeHist.logged, loop.msg)
    ELSE pipeHist.rendered = pipeHist.logged

\* An adapter is heard of once, after it has ended.
HeardOnce ==
    /\ loop.remaining <= Cardinality(Adapters)
    /\ Cardinality(Pipe!Ended) + loop.remaining >= Cardinality(Adapters)

PipeInv ==
    /\ PipeShapes /\ WithinBounds /\ TimerRuns /\ InOrder /\ Recent
    /\ Pipe!DuplicatesAreFarApart /\ Whereabouts /\ Drying /\ Returned /\ Written
    /\ HeardOnce

-----------------------------------------------------------------------------
(* Ranges, sizes and the order of the heap.                                *)

LEMMA PipeRangeAppend ==
    ASSUME NEW S, NEW s \in Seq(S), NEW x \in S
    PROVE  Pipe!Range(Append(s, x)) = Pipe!Range(s) \cup {x}
<1>1. DOMAIN Append(s, x) = 1 .. Len(s) + 1 /\ DOMAIN s = 1 .. Len(s)
  OBVIOUS
<1>2. Append(s, x)[Len(s) + 1] = x /\ \A i \in 1 .. Len(s) : Append(s, x)[i] = s[i]
  OBVIOUS
<1>3. Len(s) \in Nat /\ Len(s) + 1 \in 1 .. Len(s) + 1
  OBVIOUS
<1>4. \A i \in 1 .. Len(s) + 1 : i \in 1 .. Len(s) \/ i = Len(s) + 1
  OBVIOUS
<1>5. QED
  BY <1>1, <1>2, <1>3, <1>4 DEF Pipe!Range

LEMMA PipeRangeTail ==
    ASSUME NEW S, NEW s \in Seq(S), s # <<>>
    PROVE  /\ Head(s) \in S /\ Tail(s) \in Seq(S) /\ Len(Tail(s)) = Len(s) - 1
           /\ Pipe!Range(s) = Pipe!Range(Tail(s)) \cup {Head(s)}
<1>1. /\ Head(s) = s[1] /\ Tail(s) \in Seq(S) /\ Len(Tail(s)) = Len(s) - 1
      /\ \A i \in 1 .. Len(s) - 1 : Tail(s)[i] = s[i + 1]
      /\ Len(s) \in Nat /\ Len(s) >= 1
  BY HeadTailProperties
<1>2. DOMAIN s = 1 .. Len(s) /\ DOMAIN Tail(s) = 1 .. Len(s) - 1
  BY <1>1
<1>3. \A i \in 1 .. Len(s) : i = 1 \/ i - 1 \in 1 .. Len(s) - 1
  BY <1>1
<1>4. \A i \in 1 .. Len(s) - 1 : i + 1 \in 1 .. Len(s)
  BY <1>1
<1>5. ASSUME NEW v \in Pipe!Range(s)
      PROVE  v \in Pipe!Range(Tail(s)) \cup {Head(s)}
  <2>1. PICK i \in 1 .. Len(s) : v = s[i]
    BY <1>2 DEF Pipe!Range
  <2>2. CASE i - 1 \in 1 .. Len(s) - 1
    <3>1. Tail(s)[i - 1] = s[i]
      BY <1>1, <2>1, <2>2
    <3>2. QED
      BY <1>2, <2>1, <2>2, <3>1 DEF Pipe!Range
  <2>3. QED
    BY <1>1, <1>3, <2>1, <2>2
<1>6. ASSUME NEW v \in Pipe!Range(Tail(s))
      PROVE  v \in Pipe!Range(s)
  BY <1>1, <1>2, <1>4 DEF Pipe!Range
<1>7. Head(s) \in Pipe!Range(s)
  BY <1>1, <1>2 DEF Pipe!Range
<1>8. Head(s) \in S
  BY <1>1
<1>9. QED
  BY <1>1, <1>5, <1>6, <1>7, <1>8

LEMMA PipeRangeEmpty == Pipe!Range(<<>>) = {}
  BY DEF Pipe!Range

LEMMA PipeSize == \A S : Pipe!Cardinality(S) = Cardinality(S)
  BY Zenon DEF Pipe!Cardinality, Cardinality

\* A set of naturals that is not empty has a least element.
LEMMA LeastNat ==
    ASSUME NEW S \in SUBSET Nat, S # {}
    PROVE  \E x \in S : \A y \in S : x <= y
<1> DEFINE R == OpToRel(<, Nat)
<1>1. PICK x \in S : \A y \in S : <<y, x>> \notin R
  BY NatLessThanWellFounded, WFMin
<1>2. ASSUME NEW y \in S
      PROVE  x <= y
  <2>1. x \in Nat /\ y \in Nat
    OBVIOUS
  <2>2. ASSUME y < x PROVE <<y, x>> \in R
    BY <2>1, <2>2 DEF OpToRel
  <2>3. ~(y < x)
    BY <1>1, <2>2
  <2>4. QED
    BY <2>1, <2>3
<1>3. QED
  BY <1>2

\* The message that leaves the heap is in it, and none in it is before it.
LEMMA OldestLeaves ==
    ASSUME agg.heap \in SUBSET (Nat \X Nat), agg.heap # {}
    PROVE  /\ Pipe!Oldest \in agg.heap
           /\ \A r \in agg.heap : ~Pipe!Before(r, Pipe!Oldest)
           /\ \A r \in agg.heap \ {Pipe!Oldest} : Pipe!Before(Pipe!Oldest, r)
<1> DEFINE H == agg.heap
           ms == {q[1] : q \in H}
<1>1. PICK m \in ms : \A y \in ms : m <= y
  <2>1. ms \in SUBSET Nat /\ ms # {}
    OBVIOUS
  <2>2. QED
    BY <2>1, LeastNat
<1> DEFINE ns == {q[2] : q \in {r \in H : r[1] = m}}
<1>2. PICK n \in ns : \A y \in ns : n <= y
  <2>1. ns \in SUBSET Nat /\ ns # {}
    OBVIOUS
  <2>2. QED
    BY <2>1, LeastNat
<1>3. PICK q \in H : q[1] = m /\ q[2] = n
  OBVIOUS
<1>4. ASSUME NEW r \in H \ {q}
      PROVE  Pipe!Before(q, r)
  <2>1. r = <<r[1], r[2]>> /\ q = <<q[1], q[2]>> /\ r[1] \in Nat /\ r[2] \in Nat
        /\ q[1] \in Nat /\ q[2] \in Nat
    OBVIOUS
  <2>2. q[1] <= r[1]
    BY <1>1, <1>3
  <2>3. r[1] = q[1] => q[2] <= r[2]
    BY <1>2, <1>3
  <2>4. r[1] # q[1] \/ r[2] # q[2]
    BY <2>1
  <2>5. QED
    BY <2>1, <2>2, <2>3, <2>4 DEF Pipe!Before
<1>5. Pipe!Oldest \in H /\ \A r \in H \ {Pipe!Oldest} : Pipe!Before(Pipe!Oldest, r)
  BY <1>4 DEF Pipe!Oldest
<1>6. ASSUME NEW p \in H, NEW r \in H, Pipe!Before(p, r) \/ p = r
      PROVE  ~Pipe!Before(r, p)
  <2>1. r[1] \in Nat /\ r[2] \in Nat /\ p[1] \in Nat /\ p[2] \in Nat
    OBVIOUS
  <2>2. QED
    BY <1>6, <2>1 DEF Pipe!Before
<1>7. QED
  BY <1>5, <1>6

-----------------------------------------------------------------------------
(* The adapters and their forwarders.                                      *)

AggSame == agg' = agg /\ seen' = seen /\ out' = out
LoopSame == ctx' = ctx /\ shutdown' = shutdown /\ loop' = loop

\* A step that ends no adapter, and leaves the main loop where it is, leaves
\* what the main loop knows as it was.
LEMMA LoopKept ==
    ASSUME PipeInv, adapter' = adapter, loop' = loop, pipeHist'.rendered = pipeHist.rendered,
           pipeHist'.logged = pipeHist.logged
    PROVE  Returned' /\ Written' /\ HeardOnce' /\ AtHand' = AtHand
<1>1. Pipe!Ended' = Pipe!Ended
  BY DEF Pipe!Ended
<1>2. Returned' /\ Written'
  BY DEF PipeInv, Returned, Written
<1>3. HeardOnce'
  BY <1>1 DEF PipeInv, HeardOnce
<1>4. AtHand' = AtHand
  BY DEF AtHand
<1>5. QED
  BY <1>2, <1>3, <1>4

\* A step that accepts nothing leaves what was accepted as far apart as it was.
LEMMA AcceptedKept ==
    ASSUME PipeInv, seen' = seen, pipeHist'.accepted = pipeHist.accepted
    PROVE  Recent' /\ Pipe!DuplicatesAreFarApart'
BY DEF PipeInv, Recent, Pipe!DuplicatesAreFarApart

LEMMA PipePublish ==
    ASSUME Pipe!ConstantsOK, PipeInv, NEW a \in Adapters, Pipe!Publish(a)
    PROVE  PipeInv'
<1>1. PICK m \in PipeMessages :
        /\ adapter[a] = "running" /\ ctx /\ Len(pipeInput[a]) < PipeQueue
        /\ pipeInput' = [pipeInput EXCEPT ![a] = Append(@, m)]
        /\ pipeHist' = [pipeHist EXCEPT !.published = Append(@, m)]
        /\ adapter' = adapter /\ incoming' = incoming /\ AggSame /\ LoopSame
  BY DEF Pipe!Publish, Pipe!aggVars, Pipe!loopVars, AggSame, LoopSame
<1>2. /\ pipeInput[a] \in Seq(PipeMessages) /\ Len(pipeInput[a]) \in Nat
      /\ pipeInput'[a] = Append(pipeInput[a], m)
      /\ \A b \in Adapters \ {a} : pipeInput'[b] = pipeInput[b]
      /\ pipeInput' \in [Adapters -> Seq(PipeMessages)]
  BY <1>1 DEF PipeInv, PipeShapes
<1>3. /\ pipeHist' \in PipeRecord /\ pipeHist.published \in Seq(PipeMessages)
      /\ pipeHist'.published = Append(pipeHist.published, m)
      /\ pipeHist'.accepted = pipeHist.accepted /\ pipeHist'.rendered = pipeHist.rendered
      /\ pipeHist'.logged = pipeHist.logged /\ pipeHist'.disorder = pipeHist.disorder
  <2> DEFINE more == Append(pipeHist.published, m)
  <2>1. pipeHist \in PipeRecord /\ pipeHist.published \in Seq(PipeMessages)
    BY DEF PipeInv, PipeShapes, PipeRecord
  <2>2. more \in Seq(PipeMessages) /\ pipeHist' = [pipeHist EXCEPT !.published = more]
    BY <1>1, <2>1
  <2> HIDE DEF more
  <2>3. /\ pipeHist' \in PipeRecord /\ pipeHist'.published = more
        /\ pipeHist'.accepted = pipeHist.accepted /\ pipeHist'.rendered = pipeHist.rendered
        /\ pipeHist'.logged = pipeHist.logged /\ pipeHist'.disorder = pipeHist.disorder
    BY <2>1, <2>2 DEF PipeRecord
  <2>4. QED
    BY <2>1, <2>3 DEF more
<1>4. PipeQueue \in Nat
  BY DEF Pipe!ConstantsOK
<1>5. PipeShapes'
  BY <1>1, <1>2, <1>3 DEF PipeInv, PipeShapes, AggSame, LoopSame
<1>6. WithinBounds'
  <2>1. Len(pipeInput'[a]) = Len(pipeInput[a]) + 1
    BY <1>2
  <2>2. \A b \in Adapters : Len(pipeInput'[b]) <= PipeQueue
    BY <1>1, <1>2, <1>4, <2>1 DEF PipeInv, WithinBounds
  <2>3. QED
    BY <1>1, <2>2 DEF PipeInv, WithinBounds, AggSame
<1>7. TimerRuns' /\ InOrder'
  BY <1>1, <1>3 DEF PipeInv, TimerRuns, InOrder, AggSame
<1>8. Recent' /\ Pipe!DuplicatesAreFarApart'
  BY <1>1, <1>3, AcceptedKept DEF AggSame
<1>9. Returned' /\ Written' /\ HeardOnce' /\ AtHand' = AtHand
  BY <1>1, <1>3, LoopKept DEF LoopSame
<1>10. Whereabouts'
  <2>1. /\ Pipe!Range(pipeInput'[a]) = Pipe!Range(pipeInput[a]) \cup {m}
        /\ Pipe!Range(pipeHist'.published) = Pipe!Range(pipeHist.published) \cup {m}
    BY <1>2, <1>3, PipeRangeAppend
  <2>2. \A v : Arriving(v)' <=> Arriving(v) \/ v = m
    BY <1>1, <1>2, <2>1 DEF Arriving
  <2>3. m \notin Invalid \/ m \in Invalid
    OBVIOUS
  <2>4. /\ \A v \in Pipe!Range(pipeHist'.published) \ Invalid :
             v \in Pipe!Range(pipeHist'.accepted) \/ Arriving(v)'
        /\ \A v : Arriving(v)' => v \in Pipe!Range(pipeHist'.published)
    BY <1>3, <2>1, <2>2 DEF PipeInv, Whereabouts
  <2>5. /\ Pipe!Range(pipeHist'.accepted) \subseteq Pipe!Range(pipeHist'.published) \ Invalid
        /\ Pipe!Range(pipeHist'.accepted) =
             {q[1] : q \in agg'.heap} \cup Pipe!Range(out') \cup AtHand'
               \cup Pipe!Range(pipeHist'.logged)
    BY <1>1, <1>3, <1>9, <2>1 DEF PipeInv, Whereabouts, AggSame
  <2>6. QED
    BY <2>4, <2>5 DEF Whereabouts
<1>11. Drying'
  BY <1>1, <1>2 DEF PipeInv, Drying, AggSame, LoopSame
<1>12. QED
  BY <1>5, <1>6, <1>7, <1>8, <1>9, <1>10, <1>11 DEF PipeInv

LEMMA PipeAdapterEnds ==
    ASSUME Pipe!ConstantsOK, PipeInv, NEW a \in Adapters, Pipe!AdapterEnds(a)
    PROVE  PipeInv'
<1>1. /\ adapter[a] = "running"
      /\ adapter' \in [Adapters -> {"running", "ended", "failed"}]
      /\ \A b \in Adapters : adapter[b] # "running" => adapter'[b] # "running"
      /\ pipeInput' = pipeInput /\ incoming' = incoming /\ pipeHist' = pipeHist
      /\ AggSame /\ LoopSame
  BY DEF Pipe!AdapterEnds, Pipe!aggVars, Pipe!loopVars, AggSame, LoopSame, PipeInv, PipeShapes
<1>2. PipeShapes'
  BY <1>1 DEF PipeInv, PipeShapes, AggSame, LoopSame
<1>3. WithinBounds' /\ TimerRuns' /\ InOrder'
  BY <1>1 DEF PipeInv, WithinBounds, TimerRuns, InOrder, AggSame
<1>4. Recent' /\ Pipe!DuplicatesAreFarApart'
  BY <1>1, AcceptedKept DEF AggSame
<1>5. Whereabouts'
  BY <1>1 DEF PipeInv, Whereabouts, Arriving, AtHand, AggSame, LoopSame
<1>6. Drying' /\ Returned' /\ Written'
  BY <1>1 DEF PipeInv, Drying, Returned, Written, AggSame, LoopSame
<1>7. HeardOnce'
  <2>1. Pipe!Ended \subseteq Pipe!Ended' /\ Pipe!Ended' \subseteq Adapters
    BY <1>1 DEF Pipe!Ended
  <2>2. IsFiniteSet(Adapters)
    BY Zenon DEF Pipe!ConstantsOK, Pipe!IsFiniteSet, IsFiniteSet
  <2>3. IsFiniteSet(Pipe!Ended')
    BY <2>1, <2>2, FS_Subset
  <2>4. /\ Cardinality(Pipe!Ended) <= Cardinality(Pipe!Ended')
        /\ IsFiniteSet(Pipe!Ended)
    BY <2>1, <2>3, FS_Subset
  <2>5. /\ Cardinality(Pipe!Ended) \in Nat /\ Cardinality(Pipe!Ended') \in Nat
        /\ Cardinality(Adapters) \in Nat
    BY <2>2, <2>3, <2>4, FS_CardinalityType
  <2>6. loop' = loop /\ loop.remaining \in Nat
    BY <1>1 DEF PipeInv, PipeShapes, LoopRecord, LoopSame
  <2>7. QED
    BY <2>4, <2>5, <2>6 DEF PipeInv, HeardOnce
<1>8. QED
  BY <1>2, <1>3, <1>4, <1>5, <1>6, <1>7 DEF PipeInv

LEMMA PipeForward ==
    ASSUME Pipe!ConstantsOK, PipeInv, NEW a \in Adapters, Pipe!Forward(a)
    PROVE  PipeInv'
<1> DEFINE m == Head(pipeInput[a])
<1>1. /\ pipeInput[a] # <<>> /\ Len(incoming) < PipeQueue
      /\ incoming' = Append(incoming, m)
      /\ pipeInput' = [pipeInput EXCEPT ![a] = Tail(@)]
      /\ adapter' = adapter /\ pipeHist' = pipeHist /\ AggSame /\ LoopSame
  BY DEF Pipe!Forward, Pipe!loopVars, AggSame, LoopSame
<1>2. /\ m \in PipeMessages /\ Tail(pipeInput[a]) \in Seq(PipeMessages)
      /\ Len(Tail(pipeInput[a])) = Len(pipeInput[a]) - 1
      /\ Pipe!Range(pipeInput[a]) = Pipe!Range(Tail(pipeInput[a])) \cup {m}
      /\ Len(pipeInput[a]) \in Nat
  BY <1>1, PipeRangeTail DEF PipeInv, PipeShapes
<1> HIDE DEF m
<1>3. /\ pipeInput'[a] = Tail(pipeInput[a])
      /\ \A b \in Adapters \ {a} : pipeInput'[b] = pipeInput[b]
      /\ pipeInput' \in [Adapters -> Seq(PipeMessages)]
  BY <1>1, <1>2 DEF PipeInv, PipeShapes
<1>4. /\ incoming \in Seq(PipeMessages) /\ incoming' \in Seq(PipeMessages)
      /\ Len(incoming') = Len(incoming) + 1 /\ Len(incoming) \in Nat
      /\ Pipe!Range(incoming') = Pipe!Range(incoming) \cup {m}
  BY <1>1, <1>2, PipeRangeAppend DEF PipeInv, PipeShapes
<1>5. PipeQueue \in Nat
  BY DEF Pipe!ConstantsOK
<1>6. PipeShapes'
  BY <1>1, <1>3, <1>4 DEF PipeInv, PipeShapes, AggSame, LoopSame
<1>7. WithinBounds'
  <2>1. Len(pipeInput'[a]) <= PipeQueue /\ Len(incoming') <= PipeQueue
    BY <1>1, <1>2, <1>3, <1>4, <1>5 DEF PipeInv, WithinBounds
  <2>2. \A b \in Adapters : Len(pipeInput'[b]) <= PipeQueue
    BY <1>3, <2>1 DEF PipeInv, WithinBounds
  <2>3. QED
    BY <1>1, <2>1, <2>2 DEF PipeInv, WithinBounds, AggSame
<1>8. TimerRuns' /\ InOrder'
  BY <1>1 DEF PipeInv, TimerRuns, InOrder, AggSame
<1>9. Recent' /\ Pipe!DuplicatesAreFarApart'
  BY <1>1, AcceptedKept DEF AggSame
<1>10. Returned' /\ Written' /\ HeardOnce' /\ AtHand' = AtHand
  BY <1>1, LoopKept DEF LoopSame
<1>11. Whereabouts'
  <2>1. \A v : Arriving(v)' <=> Arriving(v)
    BY <1>2, <1>3, <1>4 DEF Arriving
  <2>2. QED
    BY <1>1, <1>10, <2>1 DEF PipeInv, Whereabouts, AggSame
<1>12. Drying'
  BY <1>1, <1>3 DEF PipeInv, Drying, AggSame, LoopSame
<1>13. QED
  BY <1>6, <1>7, <1>8, <1>9, <1>10, <1>11, <1>12 DEF PipeInv

-----------------------------------------------------------------------------
(* The aggregator.                                                         *)

AdaptersSame == adapter' = adapter /\ pipeInput' = pipeInput

\* Places in a sequence of n counted from the last k.
LEMMA PlaceOf ==
    ASSUME NEW n \in Nat, NEW k \in Nat, k <= n, NEW i \in 1 .. n, i > n - k
    PROVE  i - (n - k) \in 1 .. k /\ n - k + (i - (n - k)) = i
  OBVIOUS

LEMMA PlaceNext ==
    ASSUME NEW n \in Nat, NEW k \in Nat, k <= n, NEW i \in 1 .. k, i # k
    PROVE  /\ i \in 1 .. k - 1 /\ i + 1 \in 1 .. k
           /\ (n + 1) - k + i \in 1 .. n
           /\ (n + 1) - k + i = n - k + (i + 1)
  OBVIOUS

\* What is remembered after one more message.
LEMMA RecentNext ==
    ASSUME Pipe!ConstantsOK, PipeInv, NEW m \in PipeMessages, m \notin Pipe!Range(seen),
           seen' = Pipe!Remember(seen, m),
           pipeHist'.accepted = Append(pipeHist.accepted, m)
    PROVE  /\ seen' \in Seq(PipeMessages) /\ Recent' /\ Pipe!DuplicatesAreFarApart'
           /\ Pipe!Range(pipeHist'.accepted) = Pipe!Range(pipeHist.accepted) \cup {m}
<1> DEFINE acc == pipeHist.accepted
           n == Len(acc)
           k == Len(seen)
<1>1. /\ acc \in Seq(PipeMessages) /\ seen \in Seq(PipeMessages) /\ n \in Nat /\ k \in Nat
      /\ DuplicateCapacity \in Nat \ {0}
  BY DEF PipeInv, PipeShapes, PipeRecord, Pipe!ConstantsOK
<1>2. /\ k <= n /\ k <= DuplicateCapacity /\ (k = n \/ k = DuplicateCapacity)
      /\ \A i \in 1 .. k : seen[i] = acc[n - k + i]
  BY DEF PipeInv, Recent
<1>3. /\ pipeHist'.accepted \in Seq(PipeMessages) /\ Len(pipeHist'.accepted) = n + 1
      /\ pipeHist'.accepted[n + 1] = m
      /\ \A i \in 1 .. n : pipeHist'.accepted[i] = acc[i]
  BY <1>1
<1>4. /\ seen' \in Seq(PipeMessages) /\ Recent'
  <2>1. CASE k < DuplicateCapacity
    <3>1. seen' = Append(seen, m)
      BY <2>1 DEF Pipe!Remember
    <3>2. /\ seen' \in Seq(PipeMessages) /\ Len(seen') = k + 1 /\ seen'[k + 1] = m
          /\ \A i \in 1 .. k : seen'[i] = seen[i]
      BY <1>1, <3>1
    <3>3. k = n
      BY <1>1, <1>2, <2>1
    <3>4. \A i \in 1 .. k + 1 : seen'[i] = pipeHist'.accepted[(n + 1) - (k + 1) + i]
      <4>1. TAKE i \in 1 .. k + 1
      <4>2. (n + 1) - (k + 1) + i = i /\ (i \in 1 .. k \/ i = k + 1) /\ n - k + i = i
        BY <1>1, <3>3
      <4>3. QED
        BY <1>2, <1>3, <3>2, <3>3, <4>2
    <3>5. /\ Len(seen') = Len(pipeHist'.accepted) /\ Len(seen') <= DuplicateCapacity
          /\ Len(seen') <= Len(pipeHist'.accepted)
      BY <1>1, <1>3, <2>1, <3>2, <3>3
    <3>6. \A i \in 1 .. Len(seen') :
             seen'[i] = pipeHist'.accepted[Len(pipeHist'.accepted) - Len(seen') + i]
      BY <1>3, <3>2, <3>4, Zenon
    <3>7. QED
      BY <3>2, <3>5, <3>6, Zenon DEF Recent
  <2>2. CASE ~(k < DuplicateCapacity)
    <3>1. seen' = Append(Tail(seen), m) /\ k = DuplicateCapacity /\ seen # <<>>
      BY <1>1, <1>2, <2>2 DEF Pipe!Remember
    <3>2. /\ Tail(seen) \in Seq(PipeMessages) /\ Len(Tail(seen)) = k - 1
          /\ \A i \in 1 .. k - 1 : Tail(seen)[i] = seen[i + 1]
      BY <1>1, <3>1, HeadTailProperties
    <3>3. /\ seen' \in Seq(PipeMessages) /\ Len(seen') = k /\ seen'[k] = m
          /\ \A i \in 1 .. k - 1 : seen'[i] = seen[i + 1]
      BY <1>1, <3>1, <3>2
    <3>4. \A i \in 1 .. k : seen'[i] = pipeHist'.accepted[(n + 1) - k + i]
      <4>1. TAKE i \in 1 .. k
      <4>2. CASE i = k
        <5>1. (n + 1) - k + i = n + 1
          BY <1>1, <4>2
        <5>2. QED
          BY <1>3, <3>3, <4>2, <5>1
      <4>3. CASE i # k
        <5>1. /\ i \in 1 .. k - 1 /\ i + 1 \in 1 .. k /\ (n + 1) - k + i \in 1 .. n
              /\ (n + 1) - k + i = n - k + (i + 1)
          BY ZenonT(30), <1>1, <1>2, <4>3, PlaceNext
        <5>2. seen'[i] = seen[i + 1]
          BY <3>3, <5>1
        <5>3. seen[i + 1] = acc[n - k + (i + 1)]
          BY <1>2, <5>1
        <5>4. pipeHist'.accepted[(n + 1) - k + i] = acc[(n + 1) - k + i]
          BY <1>3, <5>1
        <5>5. QED
          BY <5>1, <5>2, <5>3, <5>4
      <4>4. QED
        BY <4>2, <4>3
    <3>5. QED
      <4>1. Len(seen') = k /\ Len(pipeHist'.accepted) = n + 1
        BY <1>3, <3>3
      <4>2. k <= n + 1 /\ k <= DuplicateCapacity /\ k = DuplicateCapacity
        BY <1>1, <1>2, <3>1
      <4>3. Recent'
        BY <3>4, <4>1, <4>2 DEF Recent
      <4>4. QED
        BY <3>3, <4>3
  <2>3. QED
    BY <2>1, <2>2
<1>5. Pipe!DuplicatesAreFarApart'
  <2>1. SUFFICES ASSUME NEW i \in 1 .. n + 1, NEW j \in 1 .. n + 1, i < j,
                        pipeHist'.accepted[i] = pipeHist'.accepted[j]
                 PROVE  j - i > DuplicateCapacity
    BY <1>3 DEF Pipe!DuplicatesAreFarApart
  <2>2. i \in 1 .. n
    BY <1>1, <2>1
  <2>3. CASE j \in 1 .. n
    <3>1. acc[i] = acc[j] /\ DOMAIN acc = 1 .. n
      BY <1>1, <1>3, <2>1, <2>2, <2>3
    <3>2. QED
      BY <2>1, <2>2, <2>3, <3>1 DEF PipeInv, Pipe!DuplicatesAreFarApart
  <2>4. CASE j = n + 1
    <3>1. acc[i] = m
      BY <1>3, <2>1, <2>2, <2>4
    <3>2. ASSUME i > n - k
          PROVE  FALSE
      <4>1. i - (n - k) \in 1 .. k /\ n - k + (i - (n - k)) = i
        BY ZenonT(30), <1>1, <1>2, <2>2, <3>2, PlaceOf
      <4>2. seen[i - (n - k)] = m
        BY <1>2, <3>1, <4>1
      <4>3. DOMAIN seen = 1 .. k
        BY <1>1
      <4>4. QED
        BY <4>1, <4>2, <4>3 DEF Pipe!Range
    <3>3. k # n
      BY <1>1, <2>2, <3>2
    <3>4. QED
      BY <1>1, <1>2, <2>2, <2>4, <3>2, <3>3
  <2>5. QED
    BY <1>1, <2>3, <2>4
<1>6. Pipe!Range(pipeHist'.accepted) = Pipe!Range(pipeHist.accepted) \cup {m}
  BY <1>1, PipeRangeAppend
<1>7. QED
  BY <1>4, <1>5, <1>6

LEMMA PipeAccept ==
    ASSUME Pipe!ConstantsOK, PipeInv, agg.pc = "select", incoming # <<>>,
           incoming' = Tail(incoming), AdaptersSame, out' = out, LoopSame,
           Head(incoming) \notin Invalid, Head(incoming) \notin Pipe!Range(seen),
           Pipe!Accept(Head(incoming))
    PROVE  PipeInv'
<1> DEFINE m == Head(incoming)
           q == <<m, agg.sequence>>
           heap == agg.heap \cup {q}
<1>1. /\ m \in PipeMessages /\ incoming' \in Seq(PipeMessages)
      /\ Len(incoming') = Len(incoming) - 1 /\ Len(incoming) \in Nat
      /\ Pipe!Range(incoming) = Pipe!Range(incoming') \cup {m}
  BY PipeRangeTail DEF PipeInv, PipeShapes
<1>2. /\ seen' = Pipe!Remember(seen, m)
      /\ pipeHist' = [pipeHist EXCEPT !.accepted = Append(@, m)]
      /\ agg' = [agg EXCEPT !.heap = heap, !.sequence = @ + 1, !.timer = TRUE,
                            !.pc = IF Cardinality(heap) >= PipeQueue
                                   THEN "full" ELSE "select"]
  BY PipeSize DEF Pipe!Accept
<1> HIDE DEF m
<1>3. agg \in AggRecord /\ agg.sequence \in Nat /\ agg.sequence + 1 \in Nat
  BY DEF PipeInv, PipeShapes, AggRecord
<1>4. heap \in SUBSET (PipeMessages \X Nat)
  BY <1>1, <1>3 DEF AggRecord
<1>5. /\ IsFiniteSet(heap) /\ Cardinality(heap) <= PipeQueue /\ heap # {}
      /\ Cardinality(heap) \in Nat
  <2>1. /\ IsFiniteSet(agg.heap) /\ Cardinality(agg.heap) < PipeQueue
    BY DEF PipeInv, WithinBounds
  <2>2. Cardinality(agg.heap) \in Nat /\ PipeQueue \in Nat
    BY <2>1, FS_CardinalityType DEF Pipe!ConstantsOK
  <2>3. /\ IsFiniteSet(heap)
        /\ Cardinality(heap) \in {Cardinality(agg.heap), Cardinality(agg.heap) + 1}
    BY <2>1, FS_AddElement
  <2>4. q \in heap
    OBVIOUS
  <2> HIDE DEF heap, q
  <2>5. Cardinality(heap) \in Nat /\ heap # {}
    BY <2>3, <2>4, FS_CardinalityType
  <2>6. QED
    BY <2>1, <2>2, <2>3, <2>5
<1>6. {p[1] : p \in heap} = {p[1] : p \in agg.heap} \cup {m}
  <2>1. q[1] = m /\ heap = agg.heap \cup {q}
    OBVIOUS
  <2> HIDE DEF heap, q
  <2>2. QED
    BY <2>1
<1> HIDE DEF q
<1> HIDE DEF heap
<1>7. /\ agg' \in AggRecord /\ agg'.heap = heap /\ agg'.timer = TRUE
      /\ agg'.closed = agg.closed
      /\ agg'.pc = IF Cardinality(heap) >= PipeQueue THEN "full" ELSE "select"
  BY <1>2, <1>3, <1>4 DEF AggRecord
<1>8. /\ pipeHist' \in PipeRecord /\ pipeHist'.accepted = Append(pipeHist.accepted, m)
      /\ pipeHist'.published = pipeHist.published /\ pipeHist'.rendered = pipeHist.rendered
      /\ pipeHist'.logged = pipeHist.logged /\ pipeHist'.disorder = pipeHist.disorder
  <2> DEFINE more == Append(pipeHist.accepted, m)
  <2>1. pipeHist \in PipeRecord /\ more \in Seq(PipeMessages)
    BY <1>1 DEF PipeInv, PipeShapes, PipeRecord
  <2>2. pipeHist' = [pipeHist EXCEPT !.accepted = more]
    BY <1>2, <2>1
  <2> HIDE DEF more
  <2>3. /\ pipeHist' \in PipeRecord /\ pipeHist'.accepted = more
        /\ pipeHist'.published = pipeHist.published /\ pipeHist'.rendered = pipeHist.rendered
        /\ pipeHist'.logged = pipeHist.logged /\ pipeHist'.disorder = pipeHist.disorder
    BY <2>1, <2>2 DEF PipeRecord
  <2>4. QED
    BY <2>3 DEF more
<1>9. /\ seen' \in Seq(PipeMessages) /\ Recent' /\ Pipe!DuplicatesAreFarApart'
      /\ Pipe!Range(pipeHist'.accepted) = Pipe!Range(pipeHist.accepted) \cup {m}
  BY <1>1, <1>2, <1>8, RecentNext DEF m
<1>10. PipeShapes'
  BY <1>1, <1>7, <1>8, <1>9 DEF PipeInv, PipeShapes, AdaptersSame, LoopSame
<1>11. WithinBounds'
  <2>1. PipeQueue \in Nat
    BY DEF Pipe!ConstantsOK
  <2>2. Len(incoming') <= PipeQueue
    BY <1>1, <2>1 DEF PipeInv, WithinBounds
  <2>3. agg'.pc = "select" => Cardinality(heap) < PipeQueue
    BY <1>5, <1>7, <2>1
  <2>4. QED
    BY <1>5, <1>7, <2>2, <2>3 DEF PipeInv, WithinBounds, AdaptersSame
<1>12. TimerRuns' /\ InOrder'
  BY <1>5, <1>7, <1>8 DEF PipeInv, TimerRuns, InOrder
<1>13. Returned' /\ Written' /\ HeardOnce' /\ AtHand' = AtHand
  BY <1>8, LoopKept DEF AdaptersSame, LoopSame
<1>14. Whereabouts'
  <2>1. \A v : Arriving(v) <=> Arriving(v)' \/ v = m
    BY <1>1 DEF Arriving, AdaptersSame
  <2>2. m \notin Invalid
    BY DEF m
  <2>3. QED
    BY <1>6, <1>7, <1>8, <1>9, <1>13, <2>1, <2>2 DEF PipeInv, Whereabouts
<1>15. Drying'
  BY <1>7 DEF PipeInv, Drying, LoopSame
<1>16. QED
  BY <1>9, <1>10, <1>11, <1>12, <1>13, <1>14, <1>15 DEF PipeInv

LEMMA PipeReceive ==
    ASSUME Pipe!ConstantsOK, PipeInv, Pipe!Receive
    PROVE  PipeInv'
<1> DEFINE m == Head(incoming)
<1>1. /\ agg.pc = "select" /\ incoming # <<>> /\ incoming' = Tail(incoming)
      /\ AdaptersSame /\ out' = out /\ LoopSame
  BY DEF Pipe!Receive, Pipe!loopVars, AdaptersSame, LoopSame
<1>2. CASE /\ m \in Invalid \/ m \in Pipe!Range(seen)
           /\ agg' = agg /\ seen' = seen /\ pipeHist' = pipeHist
  <2>1. /\ incoming' \in Seq(PipeMessages)
        /\ Len(incoming') = Len(incoming) - 1 /\ Len(incoming) \in Nat
        /\ Pipe!Range(incoming) = Pipe!Range(incoming') \cup {m}
    BY <1>1, PipeRangeTail DEF PipeInv, PipeShapes
  <2>2. m \in Invalid \/ m \in Pipe!Range(pipeHist.accepted)
    <3>1. CASE m \in Pipe!Range(seen)
      <4>1. DOMAIN seen = 1 .. Len(seen) /\ Len(seen) \in Nat
            /\ DOMAIN pipeHist.accepted = 1 .. Len(pipeHist.accepted)
            /\ Len(pipeHist.accepted) \in Nat
        BY DEF PipeInv, PipeShapes, PipeRecord
      <4>2. PICK i \in 1 .. Len(seen) : seen[i] = m
        BY <3>1, <4>1 DEF Pipe!Range
      <4>3. /\ m = pipeHist.accepted[Len(pipeHist.accepted) - Len(seen) + i]
            /\ Len(seen) <= Len(pipeHist.accepted)
        BY <4>2 DEF PipeInv, Recent
      <4>4. Len(pipeHist.accepted) - Len(seen) + i \in 1 .. Len(pipeHist.accepted)
        BY <4>1, <4>3
      <4>5. QED
        BY <4>1, <4>3, <4>4 DEF Pipe!Range
    <3>2. QED
      BY <1>2, <3>1
  <2> HIDE DEF m
  <2>3. PipeShapes'
    BY <1>1, <1>2, <2>1 DEF PipeInv, PipeShapes, AdaptersSame, LoopSame
  <2>4. WithinBounds'
    <3>1. PipeQueue \in Nat
      BY DEF Pipe!ConstantsOK
    <3>2. Len(incoming') <= PipeQueue
      BY <2>1, <3>1 DEF PipeInv, WithinBounds
    <3>3. QED
      BY <1>1, <1>2, <3>2 DEF PipeInv, WithinBounds, AdaptersSame
  <2>5. TimerRuns' /\ InOrder'
    BY <1>2 DEF PipeInv, TimerRuns, InOrder
  <2>6. Recent' /\ Pipe!DuplicatesAreFarApart'
    BY <1>2, AcceptedKept
  <2>7. Returned' /\ Written' /\ HeardOnce' /\ AtHand' = AtHand
    BY <1>1, <1>2, LoopKept DEF AdaptersSame, LoopSame
  <2>8. Whereabouts'
    <3>1. \A v : Arriving(v) <=> Arriving(v)' \/ v = m
      BY <1>1, <2>1 DEF Arriving, AdaptersSame
    <3>2. QED
      BY <1>1, <1>2, <2>2, <2>7, <3>1 DEF PipeInv, Whereabouts
  <2>9. Drying'
    BY <1>1, <1>2 DEF PipeInv, Drying, LoopSame
  <2>10. QED
    BY <2>3, <2>4, <2>5, <2>6, <2>7, <2>8, <2>9 DEF PipeInv
<1>3. CASE m \notin Invalid /\ m \notin Pipe!Range(seen) /\ Pipe!Accept(m)
  BY <1>1, <1>3, PipeAccept
<1>4. QED
  BY <1>2, <1>3 DEF Pipe!Receive

\* A message that leaves the heap leaves none behind that should go before it.
LEMMA PipeEmit ==
    ASSUME Pipe!ConstantsOK, PipeInv, agg.heap # {}, NEW pcAfter,
           \/ agg.pc = "full" /\ pcAfter = "select"
           \/ agg.pc \in {"flush", "last"} /\ pcAfter = agg.pc,
           Pipe!Emit(pcAfter), AdaptersSame, incoming' = incoming, seen' = seen, LoopSame
    PROVE  PipeInv'
<1> DEFINE q == Pipe!Oldest
           rest == agg.heap \ {q}
<1>1. /\ Len(out) < PipeQueue /\ out' = Append(out, q[1])
      /\ agg' = [agg EXCEPT !.heap = rest, !.pc = pcAfter]
      /\ pipeHist' = [pipeHist EXCEPT !.disorder =
                         @ \/ \E r \in agg.heap : Pipe!Before(r, q)]
  BY DEF Pipe!Emit, PipeInv, PipeShapes, AggRecord
<1>2. /\ q \in agg.heap /\ \A r \in agg.heap : ~Pipe!Before(r, q)
      /\ q \in PipeMessages \X Nat
  <2>1. agg.heap \in SUBSET (PipeMessages \X Nat) /\ PipeMessages \subseteq Nat
    BY DEF PipeInv, PipeShapes, AggRecord, Pipe!ConstantsOK
  <2>2. agg.heap \in SUBSET (Nat \X Nat)
    BY <2>1
  <2>3. QED
    BY <2>1, <2>2, OldestLeaves
<1> HIDE DEF q
<1>3. /\ q[1] \in PipeMessages
      /\ {p[1] : p \in agg.heap} = {p[1] : p \in rest} \cup {q[1]}
  BY <1>2
<1>4. /\ rest \in SUBSET (PipeMessages \X Nat) /\ IsFiniteSet(rest)
      /\ Cardinality(rest) < PipeQueue
  <2>1. /\ IsFiniteSet(agg.heap) /\ Cardinality(agg.heap) <= PipeQueue
        /\ agg.heap \in SUBSET (PipeMessages \X Nat) /\ PipeQueue \in Nat
    BY DEF PipeInv, PipeShapes, WithinBounds, AggRecord, Pipe!ConstantsOK
  <2>2. IsFiniteSet(rest) /\ Cardinality(rest) = Cardinality(agg.heap) - 1
    BY <1>2, <2>1, FS_RemoveElement
  <2>3. Cardinality(agg.heap) \in Nat
    BY <2>1, FS_CardinalityType
  <2>4. Cardinality(rest) < PipeQueue
    BY <2>1, <2>2, <2>3
  <2>5. QED
    BY <2>1, <2>2, <2>4
<1>5. rest \subseteq agg.heap
  OBVIOUS
<1> HIDE DEF rest
<1>6. /\ agg' \in AggRecord /\ agg'.heap = rest /\ agg'.pc = pcAfter
      /\ agg'.timer = agg.timer /\ agg'.closed = agg.closed
  BY <1>1, <1>4 DEF PipeInv, PipeShapes, AggRecord
<1>7. (\E r \in agg.heap : Pipe!Before(r, q)) = FALSE
  BY <1>2
<1>8. /\ pipeHist' \in PipeRecord /\ pipeHist'.accepted = pipeHist.accepted
      /\ pipeHist'.published = pipeHist.published /\ pipeHist'.rendered = pipeHist.rendered
      /\ pipeHist'.logged = pipeHist.logged /\ pipeHist'.disorder = FALSE
  <2>1. pipeHist \in PipeRecord /\ pipeHist.disorder = FALSE
    BY DEF PipeInv, PipeShapes, InOrder
  <2>2. pipeHist' = [pipeHist EXCEPT !.disorder = FALSE]
    BY <1>1, <1>7, <2>1, Zenon
  <2>3. QED
    BY <2>1, <2>2 DEF PipeRecord
<1>9. /\ out' \in Seq(PipeMessages) /\ Len(out') <= PipeQueue
      /\ Pipe!Range(out') = Pipe!Range(out) \cup {q[1]}
  <2>1. out \in Seq(PipeMessages) /\ PipeQueue \in Nat
    BY DEF PipeInv, PipeShapes, Pipe!ConstantsOK
  <2>2. QED
    BY <1>1, <1>3, <2>1, PipeRangeAppend
<1>10. PipeShapes'
  BY <1>6, <1>8, <1>9 DEF PipeInv, PipeShapes, AdaptersSame, LoopSame
<1>11. WithinBounds'
  <2>1. Cardinality(rest) <= PipeQueue
    BY <1>4, FS_CardinalityType DEF Pipe!ConstantsOK
  <2>2. QED
    BY <1>4, <1>6, <1>9, <2>1 DEF PipeInv, WithinBounds, AdaptersSame
<1>12. TimerRuns' /\ InOrder'
  BY <1>5, <1>6, <1>8 DEF PipeInv, TimerRuns, InOrder
<1>13. Recent' /\ Pipe!DuplicatesAreFarApart'
  BY <1>8, AcceptedKept
<1>14. Returned' /\ Written' /\ HeardOnce' /\ AtHand' = AtHand
  BY <1>8, LoopKept DEF AdaptersSame, LoopSame
<1>15. Whereabouts'
  <2>1. \A v : Arriving(v)' <=> Arriving(v)
    BY DEF Arriving, AdaptersSame
  <2>2. QED
    BY <1>3, <1>6, <1>8, <1>9, <1>14, <2>1 DEF PipeInv, Whereabouts
<1>16. Drying'
  BY <1>6 DEF PipeInv, Drying, AdaptersSame, LoopSame
<1>17. QED
  BY <1>10, <1>11, <1>12, <1>13, <1>14, <1>15, <1>16 DEF PipeInv

\* The aggregator goes on to another state and leaves its heap as it is.
LEMMA PipeTurns ==
    ASSUME Pipe!ConstantsOK, PipeInv, AdaptersSame, incoming' = incoming, seen' = seen,
           out' = out, LoopSame, pipeHist' = pipeHist,
           agg' \in AggRecord, agg'.heap = agg.heap,
           agg'.pc = "select" => agg.heap = {}, agg'.pc # "full",
           Drying'
    PROVE  PipeInv'
<1>1. PipeShapes'
  BY DEF PipeInv, PipeShapes, AdaptersSame, LoopSame
<1>2. WithinBounds'
  <2>1. Cardinality({}) = 0 /\ PipeQueue \in Nat \ {0}
    BY FS_EmptySet DEF Pipe!ConstantsOK
  <2>2. agg'.pc = "select" => Cardinality(agg'.heap) < PipeQueue
    BY <2>1
  <2>3. QED
    BY <2>2 DEF PipeInv, WithinBounds, AdaptersSame
<1>3. TimerRuns' /\ InOrder'
  BY DEF PipeInv, TimerRuns, InOrder
<1>4. Recent' /\ Pipe!DuplicatesAreFarApart'
  BY AcceptedKept
<1>5. Returned' /\ Written' /\ HeardOnce' /\ AtHand' = AtHand
  BY LoopKept DEF AdaptersSame, LoopSame
<1>6. Whereabouts'
  <2>1. \A v : Arriving(v)' <=> Arriving(v)
    BY DEF Arriving, AdaptersSame
  <2>2. QED
    BY <1>5, <2>1 DEF PipeInv, Whereabouts
<1>7. QED
  BY <1>1, <1>2, <1>3, <1>4, <1>5, <1>6 DEF PipeInv

LEMMA PipeAggregate ==
    ASSUME Pipe!ConstantsOK, PipeInv, Pipe!Aggregate
    PROVE  PipeInv'
<1>1. CASE Pipe!Receive
  BY <1>1, PipeReceive
<1>2. CASE Pipe!EmitFull
  <2>1. agg.heap # {}
    BY <1>2 DEF Pipe!EmitFull, PipeInv, TimerRuns
  <2>2. QED
    BY <1>2, <2>1, PipeEmit DEF Pipe!EmitFull, Pipe!loopVars, AdaptersSame, LoopSame
<1>3. CASE Pipe!TimerFires
  <2>1. /\ agg.pc = "select" /\ agg' = [agg EXCEPT !.pc = "flush"]
        /\ AdaptersSame /\ incoming' = incoming /\ seen' = seen /\ out' = out
        /\ LoopSame /\ pipeHist' = pipeHist
    BY <1>3 DEF Pipe!TimerFires, Pipe!loopVars, AdaptersSame, LoopSame
  <2>2. /\ agg' \in AggRecord /\ agg'.heap = agg.heap /\ agg'.pc = "flush"
        /\ agg'.closed = agg.closed
    BY <2>1 DEF PipeInv, PipeShapes, AggRecord
  <2>3. Drying'
    BY <2>1, <2>2 DEF PipeInv, Drying, AdaptersSame, LoopSame
  <2>4. QED
    BY <2>1, <2>2, <2>3, PipeTurns
<1>4. CASE Pipe!EndOfInputs
  <2>1. /\ agg.pc = "select" /\ incoming = <<>> /\ Pipe!InputsClosed
        /\ agg' = [agg EXCEPT !.pc = "last"]
        /\ AdaptersSame /\ incoming' = incoming /\ seen' = seen /\ out' = out
        /\ LoopSame /\ pipeHist' = pipeHist
    BY <1>4 DEF Pipe!EndOfInputs, Pipe!loopVars, AdaptersSame, LoopSame
  <2>2. /\ agg' \in AggRecord /\ agg'.heap = agg.heap /\ agg'.pc = "last"
        /\ agg'.closed = agg.closed
    BY <2>1 DEF PipeInv, PipeShapes, AggRecord
  <2>3. Drying'
    BY <2>1, <2>2 DEF PipeInv, Drying, AdaptersSame, LoopSame, Pipe!InputsClosed
  <2>4. QED
    BY <2>1, <2>2, <2>3, PipeTurns
<1>5. CASE Pipe!Flush
  <2>1. /\ agg.pc \in {"flush", "last"}
        /\ AdaptersSame /\ incoming' = incoming /\ seen' = seen /\ LoopSame
    BY <1>5 DEF Pipe!Flush, Pipe!loopVars, AdaptersSame, LoopSame
  <2>2. CASE agg.heap # {} /\ Pipe!Emit(agg.pc)
    BY <2>1, <2>2, PipeEmit
  <2>3. CASE /\ agg.heap = {} /\ out' = out /\ pipeHist' = pipeHist
             /\ agg' = IF agg.pc = "flush" THEN Pipe!Flushed
                       ELSE [agg EXCEPT !.pc = "done", !.closed = TRUE]
    <3>1. /\ agg' \in AggRecord /\ agg'.heap = agg.heap
          /\ agg.pc = "flush" => agg'.pc = "select" /\ agg'.closed = agg.closed
          /\ agg.pc = "last" => agg'.pc = "done" /\ agg'.closed = TRUE
      BY <2>1, <2>3 DEF PipeInv, PipeShapes, AggRecord, Pipe!Flushed
    <3>2. Drying'
      BY <2>1, <2>3, <3>1 DEF PipeInv, Drying, AdaptersSame, LoopSame
    <3>3. agg'.pc \in {"select", "done"}
      BY <2>1, <3>1
    <3>4. QED
      BY <2>1, <2>3, <3>1, <3>2, <3>3, PipeTurns
  <2>4. QED
    BY <1>5, <2>2, <2>3 DEF Pipe!Flush
<1>6. CASE Pipe!AggregatorCancelled
  <2>1. /\ ~ctx /\ agg' = [agg EXCEPT !.pc = "done", !.closed = TRUE]
        /\ agg.pc # "done"
        /\ AdaptersSame /\ incoming' = incoming /\ seen' = seen /\ out' = out
        /\ LoopSame /\ pipeHist' = pipeHist
    BY <1>6 DEF Pipe!AggregatorCancelled, Pipe!loopVars, AdaptersSame, LoopSame
  <2>2. /\ agg' \in AggRecord /\ agg'.heap = agg.heap /\ agg'.pc = "done"
        /\ agg'.closed = TRUE
    BY <2>1 DEF PipeInv, PipeShapes, AggRecord
  <2>3. Drying'
    BY <2>1, <2>2 DEF PipeInv, Drying, AdaptersSame, LoopSame
  <2>4. QED
    BY <2>1, <2>2, <2>3, PipeTurns
<1>7. QED
  BY <1>1, <1>2, <1>3, <1>4, <1>5, <1>6 DEF Pipe!Aggregate

-----------------------------------------------------------------------------
(* The main loop.                                                          *)

AggregatorSame ==
    AdaptersSame /\ incoming' = incoming /\ agg' = agg /\ seen' = seen

\* A step of the main loop, which takes messages out of the output at most.
LEMMA LoopTurns ==
    ASSUME PipeInv, AggregatorSame, loop' \in LoopRecord,
           out' \in Seq(PipeMessages), Len(out') <= PipeQueue,
           pipeHist' \in PipeRecord, pipeHist'.accepted = pipeHist.accepted,
           pipeHist'.published = pipeHist.published, pipeHist'.disorder = pipeHist.disorder,
           AtHand' \cup Pipe!Range(out') \cup Pipe!Range(pipeHist'.logged)
             = AtHand \cup Pipe!Range(out) \cup Pipe!Range(pipeHist.logged),
           Drying', Returned', Written', HeardOnce'
    PROVE  PipeInv'
<1>1. PipeShapes' /\ WithinBounds'
  BY DEF PipeInv, PipeShapes, WithinBounds, AggregatorSame, AdaptersSame
<1>2. TimerRuns' /\ InOrder'
  BY DEF PipeInv, TimerRuns, InOrder, AggregatorSame
<1>3. Recent' /\ Pipe!DuplicatesAreFarApart'
  BY AcceptedKept DEF AggregatorSame
<1>4. Whereabouts'
  <2>1. \A v : Arriving(v)' <=> Arriving(v)
    BY DEF Arriving, AggregatorSame, AdaptersSame
  <2>2. {q[1] : q \in agg.heap} \cup Pipe!Range(out') \cup AtHand'
            \cup Pipe!Range(pipeHist'.logged)
          = {q[1] : q \in agg.heap} \cup Pipe!Range(out) \cup AtHand
            \cup Pipe!Range(pipeHist.logged)
    OBVIOUS
  <2>3. QED
    BY <2>1, <2>2 DEF PipeInv, Whereabouts, AggregatorSame
<1>5. QED
  BY <1>1, <1>2, <1>3, <1>4 DEF PipeInv

\* The same for a step that takes and logs nothing and hears of nobody.
LEMMA LoopGoes ==
    ASSUME PipeInv, AggregatorSame, out' = out, pipeHist' = pipeHist, ctx' => ctx,
           loop' \in LoopRecord, loop'.merged = loop.merged, loop'.msg = loop.msg,
           loop'.remaining = loop.remaining, AtHand' = AtHand, Returned', Written'
    PROVE  PipeInv'
<1>1. Drying'
  BY DEF PipeInv, Drying, AggregatorSame, AdaptersSame
<1>2. HeardOnce'
  <2>1. Pipe!Ended' = Pipe!Ended
    BY DEF Pipe!Ended, AggregatorSame, AdaptersSame
  <2>2. QED
    BY <2>1 DEF PipeInv, HeardOnce
<1>3. /\ out' \in Seq(PipeMessages) /\ Len(out') <= PipeQueue /\ pipeHist' \in PipeRecord
  BY DEF PipeInv, PipeShapes, WithinBounds
<1>4. QED
  BY <1>1, <1>2, <1>3, LoopTurns

\* One more adapter is heard of.
LEMMA HeardOneMore ==
    ASSUME Pipe!ConstantsOK, PipeInv, Pipe!Unheard > 0, adapter' = adapter,
           loop' \in LoopRecord, loop'.remaining = loop.remaining - 1
    PROVE  HeardOnce'
<1>1. Pipe!Ended' = Pipe!Ended /\ Pipe!Ended \subseteq Adapters
  BY DEF Pipe!Ended
<1>2. IsFiniteSet(Adapters)
  BY Zenon DEF Pipe!ConstantsOK, Pipe!IsFiniteSet, IsFiniteSet
<1>3. Cardinality(Pipe!Ended) \in Nat /\ Cardinality(Adapters) \in Nat
  BY <1>1, <1>2, FS_Subset, FS_CardinalityType
<1>4. Cardinality(Pipe!Ended) - (Cardinality(Adapters) - loop.remaining) > 0
  BY PipeSize DEF Pipe!Unheard
<1>5. loop.remaining \in Nat
  BY DEF PipeInv, PipeShapes, LoopRecord
<1>6. QED
  BY <1>1, <1>3, <1>4, <1>5 DEF PipeInv, HeardOnce

\* The main loop returns with a result that loses no message.
LEMMA PipeReturns ==
    ASSUME PipeInv, AggregatorSame, out' = out, pipeHist' = pipeHist, ctx' = ctx,
           loop.pc \in {"select", "drain"}, NEW r \in LoopResults, Pipe!Returns(r),
           r \notin {"none", "render failed", "logging failed"},
           r \in {"done", "adapter failed"} => ~loop.merged,
           r = "shutdown" => loop.remaining = 0
    PROVE  PipeInv'
<1>1. /\ loop' \in LoopRecord /\ loop'.pc = "returned" /\ loop'.result = r
      /\ loop'.msg = loop.msg /\ loop'.remaining = loop.remaining
      /\ loop'.merged = loop.merged /\ loop.result = "none"
  BY DEF Pipe!Returns, PipeInv, PipeShapes, LoopRecord, Returned
<1>2. Returned' /\ Written' /\ AtHand' = AtHand
  BY <1>1 DEF PipeInv, Returned, Written, AtHand
<1>3. QED
  BY <1>1, <1>2, LoopGoes

LEMMA PipeMerged ==
    ASSUME Pipe!ConstantsOK, PipeInv, Pipe!Merged
    PROVE  PipeInv'
<1>1. /\ loop.pc = "select" /\ loop.merged /\ AggregatorSame /\ ctx' = ctx
      /\ pipeHist' = pipeHist
  BY DEF Pipe!Merged, Pipe!Looping, AggregatorSame, AdaptersSame
<1>2. loop \in LoopRecord /\ loop.result = "none" /\ pipeHist' \in PipeRecord
  BY <1>1 DEF PipeInv, PipeShapes, Returned
<1>3. ASSUME loop'.remaining = loop.remaining
      PROVE  HeardOnce'
  <2>1. Pipe!Ended' = Pipe!Ended
    BY <1>1 DEF Pipe!Ended, AggregatorSame, AdaptersSame
  <2>2. QED
    BY <1>3, <2>1 DEF PipeInv, HeardOnce
<1>4. CASE /\ out # <<>> /\ out' = Tail(out)
           /\ loop' = [loop EXCEPT !.pc = "render", !.msg = Head(out)]
  <2>1. /\ Head(out) \in PipeMessages /\ out' \in Seq(PipeMessages)
        /\ Len(out') = Len(out) - 1 /\ Len(out) \in Nat
        /\ Pipe!Range(out) = Pipe!Range(out') \cup {Head(out)}
    BY <1>4, PipeRangeTail DEF PipeInv, PipeShapes
  <2>2. Head(out) \in Nat /\ PipeQueue \in Nat
    BY <2>1 DEF Pipe!ConstantsOK
  <2>3. /\ loop' \in LoopRecord /\ loop'.pc = "render" /\ loop'.msg = Head(out)
        /\ loop'.result = "none" /\ loop'.remaining = loop.remaining
        /\ loop'.merged = loop.merged
    BY <1>2, <1>4, <2>2 DEF LoopRecord
  <2>4. AtHand' = {Head(out)} /\ AtHand = {}
    BY <1>1, <1>2, <2>3 DEF AtHand
  <2>5. Drying' /\ Returned' /\ Written'
    BY <1>1, <1>2, <2>3 DEF PipeInv, Drying, Returned, Written, AggregatorSame, AdaptersSame
  <2>6. Len(out') <= PipeQueue
    BY <2>1, <2>2 DEF PipeInv, WithinBounds
  <2>7. AtHand' \cup Pipe!Range(out') \cup Pipe!Range(pipeHist'.logged)
          = AtHand \cup Pipe!Range(out) \cup Pipe!Range(pipeHist.logged)
    BY <1>1, <2>1, <2>4
  <2>8. QED
    BY <1>1, <1>2, <1>3, <2>1, <2>3, <2>5, <2>6, <2>7, LoopTurns
<1>5. CASE /\ out = <<>> /\ agg.closed /\ out' = out
           /\ loop' = [loop EXCEPT !.merged = FALSE]
  <2>1. /\ loop' \in LoopRecord /\ loop'.pc = "select" /\ loop'.msg = loop.msg
        /\ loop'.result = "none" /\ loop'.remaining = loop.remaining
        /\ loop'.merged = FALSE
    BY <1>1, <1>2, <1>5 DEF LoopRecord
  <2>2. AtHand' = AtHand
    BY <1>1, <1>2, <2>1 DEF AtHand
  <2>3. Drying' /\ Returned' /\ Written'
    BY <1>1, <1>2, <1>5, <2>1 DEF PipeInv, Drying, Returned, Written, AggregatorSame,
       AdaptersSame
  <2>4. out' \in Seq(PipeMessages) /\ Len(out') <= PipeQueue
    BY <1>5 DEF PipeInv, PipeShapes, WithinBounds
  <2>5. QED
    BY <1>1, <1>2, <1>3, <1>5, <2>1, <2>2, <2>3, <2>4, LoopTurns
<1>6. QED
  BY <1>4, <1>5 DEF Pipe!Merged

LEMMA PipeRender ==
    ASSUME Pipe!ConstantsOK, PipeInv, Pipe!Render
    PROVE  PipeInv'
<1>1. /\ loop.pc = "render" /\ AggregatorSame /\ ctx' = ctx /\ out' = out
  BY DEF Pipe!Render, Pipe!aggVars, AggregatorSame, AdaptersSame
<1>2. loop \in LoopRecord /\ loop.result = "none" /\ pipeHist \in PipeRecord
  BY <1>1 DEF PipeInv, PipeShapes, Returned
<1>3. CASE /\ loop' = [loop EXCEPT !.pc = "log"]
           /\ pipeHist' = [pipeHist EXCEPT !.rendered = Append(@, loop.msg)]
  <2> DEFINE more == Append(pipeHist.rendered, loop.msg)
  <2>1. more \in Seq(Nat) /\ pipeHist' = [pipeHist EXCEPT !.rendered = more]
    BY <1>2, <1>3 DEF PipeRecord, LoopRecord
  <2> HIDE DEF more
  <2>2. /\ pipeHist' \in PipeRecord /\ pipeHist'.rendered = more
        /\ pipeHist'.logged = pipeHist.logged /\ pipeHist'.accepted = pipeHist.accepted
        /\ pipeHist'.published = pipeHist.published /\ pipeHist'.disorder = pipeHist.disorder
    BY <1>2, <2>1 DEF PipeRecord
  <2>3. /\ loop' \in LoopRecord /\ loop'.pc = "log" /\ loop'.msg = loop.msg
        /\ loop'.result = "none" /\ loop'.remaining = loop.remaining
        /\ loop'.merged = loop.merged
    BY <1>2, <1>3 DEF LoopRecord
  <2>4. AtHand' = AtHand
    BY <1>1, <1>2, <2>3 DEF AtHand
  <2>5. Drying' /\ Returned'
    BY <1>1, <1>2, <2>3 DEF PipeInv, Drying, Returned, AggregatorSame, AdaptersSame
  <2>6. Written'
    <3>1. pipeHist.rendered = pipeHist.logged
      BY <1>1, <1>2 DEF PipeInv, Written
    <3>2. QED
      BY <2>2, <2>3, <3>1 DEF Written, more
  <2>7. HeardOnce'
    <3>1. Pipe!Ended' = Pipe!Ended
      BY <1>1 DEF Pipe!Ended, AggregatorSame, AdaptersSame
    <3>2. QED
      BY <2>3, <3>1 DEF PipeInv, HeardOnce
  <2>8. out' \in Seq(PipeMessages) /\ Len(out') <= PipeQueue
    BY <1>1 DEF PipeInv, PipeShapes, WithinBounds
  <2>9. QED
    BY <1>1, <2>2, <2>3, <2>4, <2>5, <2>6, <2>7, <2>8, LoopTurns
<1>4. CASE Pipe!Returns("render failed") /\ pipeHist' = pipeHist
  <2>1. /\ loop' \in LoopRecord /\ loop'.pc = "returned" /\ loop'.msg = loop.msg
        /\ loop'.result = "render failed" /\ loop'.remaining = loop.remaining
        /\ loop'.merged = loop.merged
    BY <1>2, <1>4 DEF LoopRecord, LoopResults, Pipe!Returns
  <2>2. AtHand' = AtHand /\ Returned' /\ Written'
    BY <1>1, <1>2, <1>4, <2>1 DEF AtHand, PipeInv, Returned, Written
  <2>3. QED
    BY <1>1, <1>4, <2>1, <2>2, LoopGoes
<1>5. QED
  BY <1>3, <1>4 DEF Pipe!Render

LEMMA PipeWriteLog ==
    ASSUME Pipe!ConstantsOK, PipeInv, Pipe!WriteLog
    PROVE  PipeInv'
<1>1. /\ loop.pc = "log" /\ AggregatorSame /\ ctx' = ctx /\ out' = out
  BY DEF Pipe!WriteLog, Pipe!aggVars, AggregatorSame, AdaptersSame
<1>2. loop \in LoopRecord /\ loop.result = "none" /\ pipeHist \in PipeRecord
  BY <1>1 DEF PipeInv, PipeShapes, Returned
<1>3. CASE /\ loop' = [loop EXCEPT !.pc = "select"]
           /\ pipeHist' = [pipeHist EXCEPT !.logged = Append(@, loop.msg)]
  <2> DEFINE more == Append(pipeHist.logged, loop.msg)
  <2>1. /\ more \in Seq(Nat) /\ pipeHist' = [pipeHist EXCEPT !.logged = more]
        /\ Pipe!Range(more) = Pipe!Range(pipeHist.logged) \cup {loop.msg}
    <3>1. pipeHist.logged \in Seq(Nat) /\ loop.msg \in Nat
      BY <1>2 DEF PipeRecord, LoopRecord
    <3>2. more \in Seq(Nat) /\ Pipe!Range(more) = Pipe!Range(pipeHist.logged) \cup {loop.msg}
      BY <3>1, PipeRangeAppend
    <3>3. pipeHist' = [pipeHist EXCEPT !.logged = more]
      BY <1>2, <1>3 DEF PipeRecord
    <3>4. QED
      BY <3>2, <3>3
  <2> HIDE DEF more
  <2>2. /\ pipeHist' \in PipeRecord /\ pipeHist'.rendered = pipeHist.rendered
        /\ pipeHist'.logged = more /\ pipeHist'.accepted = pipeHist.accepted
        /\ pipeHist'.published = pipeHist.published /\ pipeHist'.disorder = pipeHist.disorder
    BY <1>2, <2>1 DEF PipeRecord
  <2>3. /\ loop' \in LoopRecord /\ loop'.pc = "select" /\ loop'.msg = loop.msg
        /\ loop'.result = "none" /\ loop'.remaining = loop.remaining
        /\ loop'.merged = loop.merged
    BY <1>2, <1>3 DEF LoopRecord
  <2>4. AtHand' = {} /\ AtHand = {loop.msg}
    BY <1>1, <1>2, <2>3 DEF AtHand
  <2>5. Drying' /\ Returned'
    BY <1>1, <1>2, <2>3 DEF PipeInv, Drying, Returned, AggregatorSame, AdaptersSame
  <2>6. Written'
    <3>1. pipeHist.rendered = more
      BY <1>1 DEF PipeInv, Written, more
    <3>2. QED
      BY <2>2, <2>3, <3>1 DEF Written
  <2>7. HeardOnce'
    <3>1. Pipe!Ended' = Pipe!Ended
      BY <1>1 DEF Pipe!Ended, AggregatorSame, AdaptersSame
    <3>2. QED
      BY <2>3, <3>1 DEF PipeInv, HeardOnce
  <2>8. out' \in Seq(PipeMessages) /\ Len(out') <= PipeQueue
    BY <1>1 DEF PipeInv, PipeShapes, WithinBounds
  <2>9. AtHand' \cup Pipe!Range(out') \cup Pipe!Range(pipeHist'.logged)
          = AtHand \cup Pipe!Range(out) \cup Pipe!Range(pipeHist.logged)
    BY <1>1, <2>1, <2>2, <2>4
  <2>10. QED
    BY <1>1, <2>2, <2>3, <2>5, <2>6, <2>7, <2>8, <2>9, LoopTurns
<1>4. CASE Pipe!LogFailure /\ pipeHist' = pipeHist
  <2>1. /\ loop' \in LoopRecord /\ loop'.pc = "returned" /\ loop'.msg = loop.msg
        /\ loop'.result = "logging failed" /\ loop'.remaining = loop.remaining
        /\ loop'.merged = loop.merged
    BY <1>2, <1>4 DEF LoopRecord, LoopResults, Pipe!LogFailure, Pipe!Returns
  <2>2. AtHand' = AtHand /\ Returned' /\ Written'
    BY <1>1, <1>2, <1>4, <2>1 DEF AtHand, PipeInv, Returned, Written
  <2>3. QED
    BY <1>1, <1>4, <2>1, <2>2, LoopGoes
<1>5. QED
  BY <1>3, <1>4 DEF Pipe!WriteLog

LEMMA PipeHears ==
    ASSUME Pipe!ConstantsOK, PipeInv, Pipe!HearAdapter \/ Pipe!Drain
    PROVE  PipeInv'
<1>1. /\ loop.pc \in {"select", "drain"} /\ AggregatorSame /\ ctx' = ctx
      /\ out' = out /\ pipeHist' = pipeHist
  BY DEF Pipe!HearAdapter, Pipe!Drain, Pipe!Looping, Pipe!aggVars, AggregatorSame,
     AdaptersSame
<1>2. loop \in LoopRecord /\ loop.result = "none" /\ loop.remaining \in Nat
  BY <1>1 DEF PipeInv, PipeShapes, Returned, LoopRecord
<1>3. ASSUME Pipe!Unheard > 0, NEW f \in BOOLEAN,
             loop' = [loop EXCEPT !.remaining = loop.remaining - 1, !.failed = f]
      PROVE  PipeInv'
  <2>1. loop.remaining - 1 \in Nat
    <3>1. Pipe!Ended \subseteq Adapters /\ IsFiniteSet(Adapters)
      BY Zenon DEF Pipe!ConstantsOK, Pipe!IsFiniteSet, IsFiniteSet, Pipe!Ended
    <3>2. /\ Cardinality(Pipe!Ended) \in Nat /\ Cardinality(Adapters) \in Nat
          /\ Cardinality(Pipe!Ended) <= Cardinality(Adapters)
      BY <3>1, FS_Subset, FS_CardinalityType
    <3>3. Cardinality(Pipe!Ended) - (Cardinality(Adapters) - loop.remaining) > 0
      BY <1>3, PipeSize DEF Pipe!Unheard
    <3>4. QED
      BY <1>2, <3>2, <3>3
  <2>2. /\ loop' \in LoopRecord /\ loop'.pc = loop.pc /\ loop'.msg = loop.msg
        /\ loop'.result = "none" /\ loop'.remaining = loop.remaining - 1
        /\ loop'.merged = loop.merged
    BY <1>2, <1>3, <2>1 DEF LoopRecord
  <2>3. HeardOnce'
    BY <1>1, <1>3, <2>2, HeardOneMore DEF AggregatorSame, AdaptersSame
  <2>4. /\ AtHand' = AtHand /\ Returned' /\ Written' /\ Drying'
    BY <1>1, <1>2, <2>2 DEF AtHand, PipeInv, Returned, Written, Drying, AggregatorSame,
       AdaptersSame
  <2>5. out' \in Seq(PipeMessages) /\ Len(out') <= PipeQueue /\ pipeHist' \in PipeRecord
    BY <1>1 DEF PipeInv, PipeShapes, WithinBounds
  <2>6. QED
    BY <1>1, <2>2, <2>3, <2>4, <2>5, LoopTurns
<1>4. CASE Pipe!HearAdapter
  <2>1. PICK f \in {adapter[a] = "failed" : a \in Pipe!Ended} :
          loop' = [loop EXCEPT !.remaining = loop.remaining - 1, !.failed = @ \/ f]
    BY <1>2, <1>4 DEF Pipe!HearAdapter, LoopRecord
  <2>2. (loop.failed \/ f) \in BOOLEAN
    BY <1>2
  <2> DEFINE g == loop.failed \/ f
  <2>3. loop' = [loop EXCEPT !.remaining = loop.remaining - 1, !.failed = g]
    BY <1>2, <2>1, Zenon DEF LoopRecord
  <2> HIDE DEF g
  <2>4. g \in BOOLEAN
    BY <2>2, Zenon DEF g
  <2>5. QED
    BY <1>3, <1>4, <2>3, <2>4 DEF Pipe!HearAdapter
<1>5. CASE Pipe!Drain /\ ~Pipe!Drained
  <2>1. Pipe!Unheard > 0 /\ loop' = [loop EXCEPT !.remaining = loop.remaining - 1]
    BY <1>2, <1>5 DEF Pipe!Drain, LoopRecord
  <2>2. /\ loop.failed \in BOOLEAN
        /\ loop' = [loop EXCEPT !.remaining = loop.remaining - 1, !.failed = loop.failed]
    BY <1>2, <2>1 DEF LoopRecord
  <2>3. QED
    BY <1>3, <2>1, <2>2
<1>6. CASE Pipe!Drain /\ Pipe!Drained
  <2>1. Pipe!Returns("shutdown") /\ loop.remaining = 0
    BY <1>6 DEF Pipe!Drain, Pipe!Drained
  <2>2. "shutdown" \in LoopResults
    BY DEF LoopResults
  <2>3. QED
    BY <1>1, <2>1, <2>2, PipeReturns
<1>7. QED
  BY <1>4, <1>5, <1>6

LEMMA PipeMainLoop ==
    ASSUME Pipe!ConstantsOK, PipeInv, Pipe!MainLoop
    PROVE  PipeInv'
<1>1. CASE Pipe!Shutdown
  <2>1. /\ loop.pc = "select" /\ AggregatorSame /\ out' = out /\ pipeHist' = pipeHist
        /\ ctx' = FALSE /\ loop' = [loop EXCEPT !.pc = "drain"]
    BY <1>1 DEF Pipe!Shutdown, Pipe!Looping, Pipe!aggVars, AggregatorSame, AdaptersSame
  <2>2. loop \in LoopRecord /\ loop.result = "none"
    BY <2>1 DEF PipeInv, PipeShapes, Returned
  <2>3. /\ loop' \in LoopRecord /\ loop'.pc = "drain" /\ loop'.msg = loop.msg
        /\ loop'.result = "none" /\ loop'.remaining = loop.remaining
        /\ loop'.merged = loop.merged
    BY <2>1, <2>2 DEF LoopRecord
  <2>4. AtHand' = AtHand /\ Returned' /\ Written'
    BY <2>1, <2>2, <2>3 DEF AtHand, PipeInv, Returned, Written
  <2>5. QED
    BY <2>1, <2>3, <2>4, LoopGoes
<1>2. CASE Pipe!ContextDone
  <2>1. /\ loop.pc = "select" /\ AggregatorSame /\ out' = out /\ pipeHist' = pipeHist
        /\ ctx' = ctx /\ Pipe!Returns("cancelled") /\ "cancelled" \in LoopResults
    BY <1>2 DEF Pipe!ContextDone, Pipe!Looping, Pipe!aggVars, AggregatorSame, AdaptersSame,
       LoopResults
  <2>2. QED
    BY <2>1, PipeReturns
<1>3. CASE Pipe!AllDone
  <2> DEFINE r == IF loop.failed THEN "adapter failed" ELSE "done"
  <2>1. /\ loop.pc = "select" /\ AggregatorSame /\ out' = out /\ pipeHist' = pipeHist
        /\ ctx' = ctx /\ Pipe!Returns(r) /\ ~loop.merged
    BY <1>3 DEF Pipe!AllDone, Pipe!Looping, Pipe!aggVars, AggregatorSame, AdaptersSame
  <2>2. r \in {"adapter failed", "done"} /\ r \in LoopResults
    BY DEF LoopResults
  <2> HIDE DEF r
  <2>3. QED
    BY <2>1, <2>2, PipeReturns
<1>4. QED
  BY <1>1, <1>2, <1>3, PipeHears, PipeMerged, PipeRender, PipeWriteLog DEF Pipe!MainLoop

-----------------------------------------------------------------------------
LEMMA PipeInit ==
    ASSUME Pipe!ConstantsOK, Pipe!Init
    PROVE  PipeInv
<1>1. /\ adapter = [a \in Adapters |-> "running"]
      /\ pipeInput = [a \in Adapters |-> <<>>] /\ incoming = <<>> /\ seen = <<>> /\ out = <<>>
      /\ agg.pc = "select" /\ agg.heap = {} /\ agg.closed = FALSE /\ agg \in AggRecord
      /\ ctx = TRUE
      /\ pipeHist.published = <<>> /\ pipeHist.accepted = <<>> /\ pipeHist.rendered = <<>>
      /\ pipeHist.logged = <<>> /\ pipeHist.disorder = FALSE /\ pipeHist \in PipeRecord
  BY DEF Pipe!Init, AggRecord, PipeRecord
<1>2. IsFiniteSet(Adapters) /\ PipeQueue \in Nat \ {0} /\ DuplicateCapacity \in Nat \ {0}
  BY Zenon DEF Pipe!ConstantsOK, Pipe!IsFiniteSet, IsFiniteSet
<1>3. Cardinality(Adapters) \in Nat /\ IsFiniteSet({}) /\ Cardinality({}) = 0
  BY <1>2, FS_CardinalityType, FS_EmptySet
<1>4. /\ loop.pc = "select" /\ loop.merged = TRUE /\ loop.result = "none"
      /\ loop.remaining = Cardinality(Adapters) /\ loop \in LoopRecord
  <2>1. loop = [pc |-> "select", msg |-> 0, remaining |-> Cardinality(Adapters),
                merged |-> TRUE, failed |-> FALSE, result |-> "none"]
    BY PipeSize DEF Pipe!Init
  <2>2. QED
    BY <1>3, <2>1 DEF LoopRecord, LoopResults
<1>5. PipeShapes
  BY <1>1, <1>4 DEF PipeShapes
<1>6. WithinBounds
  BY <1>1, <1>2, <1>3 DEF WithinBounds
<1>7. TimerRuns /\ InOrder /\ Drying /\ Returned /\ Written
  BY <1>1, <1>4 DEF TimerRuns, InOrder, Drying, Returned, Written
<1>8. Recent /\ Pipe!DuplicatesAreFarApart
  BY <1>1, <1>2 DEF Recent, Pipe!DuplicatesAreFarApart
<1>9. Whereabouts
  <2>1. \A v : ~Arriving(v)
    BY <1>1, PipeRangeEmpty DEF Arriving
  <2>2. AtHand = {}
    BY <1>4 DEF AtHand
  <2>3. QED
    BY <1>1, <2>1, <2>2, PipeRangeEmpty DEF Whereabouts
<1>10. HeardOnce
  <2>1. Pipe!Ended = {}
    BY <1>1 DEF Pipe!Ended
  <2>2. QED
    BY <1>3, <1>4, <2>1 DEF HeardOnce
<1>11. QED
  BY <1>5, <1>6, <1>7, <1>8, <1>9, <1>10 DEF PipeInv

LEMMA PipeNext ==
    ASSUME Pipe!ConstantsOK, PipeInv, [Pipe!Next]_(Pipe!vars)
    PROVE  PipeInv'
<1>1. CASE \E a \in Adapters : Pipe!Publish(a) \/ Pipe!AdapterEnds(a) \/ Pipe!Forward(a)
  BY <1>1, PipePublish, PipeAdapterEnds, PipeForward
<1>2. CASE Pipe!Aggregate
  BY <1>2, PipeAggregate
<1>3. CASE Pipe!MainLoop
  BY <1>3, PipeMainLoop
<1>4. CASE Pipe!RequestShutdown \/ Pipe!Signal \/ UNCHANGED Pipe!vars
  <2>1. /\ AggregatorSame /\ out' = out /\ pipeHist' = pipeHist /\ (ctx' => ctx)
        /\ loop' = loop
    BY <1>4 DEF Pipe!RequestShutdown, Pipe!Signal, Pipe!vars, Pipe!aggVars, AggregatorSame,
       AdaptersSame
  <2>2. loop' \in LoopRecord /\ AtHand' = AtHand /\ Returned' /\ Written'
    BY <2>1 DEF PipeInv, PipeShapes, AtHand, Returned, Written
  <2>3. QED
    BY <2>1, <2>2, LoopGoes
<1>5. QED
  BY <1>1, <1>2, <1>3, <1>4 DEF Pipe!Next

LEMMA PipeImplies ==
    ASSUME Pipe!ConstantsOK, PipeInv
    PROVE  Pipe!PipelineSafety
<1>1. /\ Pipe!Ended \subseteq Adapters /\ IsFiniteSet(Adapters)
      /\ Cardinality(Pipe!Ended) \in Nat /\ Cardinality(Adapters) \in Nat
      /\ loop.remaining \in Nat /\ loop.remaining <= Cardinality(Adapters)
      /\ Cardinality(Pipe!Ended) + loop.remaining >= Cardinality(Adapters)
  <2>1. Pipe!Ended \subseteq Adapters /\ IsFiniteSet(Adapters)
    BY Zenon DEF Pipe!ConstantsOK, Pipe!IsFiniteSet, IsFiniteSet, Pipe!Ended
  <2>2. QED
    BY <2>1, FS_Subset, FS_CardinalityType DEF PipeInv, PipeShapes, LoopRecord, HeardOnce
<1>2. Pipe!TypeOK
  <2>1. loop.remaining \in 0 .. Cardinality(Adapters) /\ Pipe!Unheard >= 0
    BY <1>1, PipeSize DEF Pipe!Unheard
  <2>2. /\ agg.heap \subseteq PipeMessages \X Nat
        /\ agg.pc \in {"select", "full", "flush", "last", "done"}
    BY DEF PipeInv, PipeShapes, AggRecord
  <2>3. Len(seen) <= DuplicateCapacity
    BY DEF PipeInv, Recent
  <2>4. \A a \in Adapters : pipeInput[a] \in Seq(PipeMessages) /\ Len(pipeInput[a]) <= PipeQueue
    BY DEF PipeInv, PipeShapes, WithinBounds
  <2>5. QED
    BY <2>1, <2>2, <2>3, <2>4, PipeSize DEF PipeInv, PipeShapes, WithinBounds, Pipe!TypeOK
<1>3. Pipe!OrderedWhileWaiting
  BY DEF PipeInv, InOrder, Pipe!OrderedWhileWaiting
<1>4. Pipe!WaitingHasTimer
  BY DEF PipeInv, TimerRuns, Pipe!WaitingHasTimer
<1>5. Pipe!RenderedIsLogged
  BY DEF PipeInv, Written, Pipe!RenderedIsLogged
<1>6. Pipe!NothingIsLeftBehind
  <2>1. SUFFICES ASSUME loop.result \in {"done", "adapter failed"}, ctx
                 PROVE  Pipe!Range(pipeHist.published) \ Invalid = Pipe!Range(pipeHist.logged)
    BY DEF Pipe!NothingIsLeftBehind
  <2>2. loop.pc = "returned" /\ agg.pc = "done" /\ out = <<>>
    BY <2>1 DEF PipeInv, Returned, Drying
  <2>3. /\ agg.heap = {} /\ incoming = <<>>
        /\ \A a \in Adapters : pipeInput[a] = <<>>
    BY <2>1, <2>2 DEF PipeInv, Drying
  <2>4. \A v : ~Arriving(v)
    BY <2>3, PipeRangeEmpty DEF Arriving
  <2>5. AtHand = {}
    BY <2>1, <2>2 DEF AtHand
  <2>6. Pipe!Range(pipeHist.accepted) = Pipe!Range(pipeHist.logged)
    BY <2>2, <2>3, <2>5, PipeRangeEmpty DEF PipeInv, Whereabouts
  <2>7. QED
    BY <2>4, <2>6 DEF PipeInv, Whereabouts
<1>7. Pipe!ShutdownWaits
  <2>1. SUFFICES ASSUME loop.result = "shutdown"
                 PROVE  \A a \in Adapters : adapter[a] # "running"
    BY DEF Pipe!ShutdownWaits
  <2>2. loop.remaining = 0
    BY <2>1 DEF PipeInv, Returned
  <2>3. Cardinality(Pipe!Ended) <= Cardinality(Adapters)
    BY <1>1, FS_Subset
  <2>4. Cardinality(Pipe!Ended) = Cardinality(Adapters)
    BY <1>1, <2>2, <2>3
  <2>5. Pipe!Ended = Adapters
    BY <1>1, <2>4, FS_Subset
  <2>6. QED
    BY <2>5 DEF Pipe!Ended
<1>8. Pipe!DuplicatesAreFarApart
  BY DEF PipeInv
<1>9. QED
  BY <1>2, <1>3, <1>4, <1>5, <1>6, <1>7, <1>8 DEF Pipe!PipelineSafety

\* However many adapters publish, whatever the queues and the cache of IDs hold,
\* and whenever an adapter fails, the context is cancelled or a message cannot be
\* rendered or logged: no message overtakes an older one beside it in the heap
\* or waits there without a timer, duplicates are accepted only when as many
\* others as the cache holds lie in between, what was rendered is in the log,
\* nothing is left behind when the adapters end, and /exit waits for them.
THEOREM PipelineIsSafe == ASSUME Pipe!ConstantsOK PROVE Pipe!Spec => []PipelineSafety
<1>1. Pipe!Init => PipeInv
  BY PipeInit
<1>2. PipeInv /\ [Pipe!Next]_(Pipe!vars) => PipeInv'
  BY PipeNext
<1>3. PipeInv => PipelineSafety
  BY PipeImplies DEF PipelineSafety
<1>4. QED
  BY <1>1, <1>2, <1>3, PTL DEF Pipe!Spec

-----------------------------------------------------------------------------
(* The reading side implements OrderedMerge.                               *)

\* The second component of what enters the heap counts what was accepted.
CountsAccepted == agg.sequence = Len(pipeHist.accepted)

\* What the passing side holds is made of numbers.
LEMMA PassingTypes ==
    ASSUME Pipe!ConstantsOK, PipeInv
    PROVE  pipeHist.logged \in Seq(Nat) /\ InHand \in Seq(Nat) /\ out \in Seq(Nat)
<1>1. /\ out \in Seq(PipeMessages) /\ pipeHist.logged \in Seq(Nat) /\ loop.msg \in Nat
  BY DEF PipeInv, PipeShapes, PipeRecord, LoopRecord
<1>2. Seq(PipeMessages) \subseteq Seq(Nat)
  <2>1. PipeMessages \subseteq Nat
    BY DEF Pipe!ConstantsOK
  <2>2. ASSUME NEW s \in Seq(PipeMessages) PROVE s \in Seq(Nat)
    <3>1. /\ Len(s) \in Nat /\ s = [i \in 1 .. Len(s) |-> s[i]]
          /\ \A i \in 1 .. Len(s) : s[i] \in PipeMessages
      BY LenProperties
    <3>2. [i \in 1 .. Len(s) |-> s[i]] \in Seq(Nat)
      BY <2>1, <3>1
    <3>3. QED
      BY <3>1, <3>2
  <2>3. QED
    BY <2>2
<1>3. <<loop.msg>> \in Seq(Nat) /\ <<>> \in Seq(Nat)
  BY <1>1
<1>4. InHand \in Seq(Nat)
  BY <1>3, Zenon DEF InHand
<1>5. QED
  BY <1>1, <1>2, <1>4

\* ConcatAssociative for sequences of numbers.
LEMMA Regrouped ==
    ASSUME NEW s \in Seq(Nat), NEW t \in Seq(Nat), NEW u \in Seq(Nat)
    PROVE  (s \o t) \o u = s \o (t \o u)
<1>. DEFINE N == Nat
<1>1. s \in Seq(N) /\ t \in Seq(N) /\ u \in Seq(N)
  OBVIOUS
<1>. HIDE DEF N
<1>2. QED
  BY <1>1, SMTT(30)

\* A message is added to what is passed on.
LEMMA Passing ==
    ASSUME NEW u \in Seq(Nat), NEW t \in Seq(Nat), NEW x \in Nat
    PROVE  u \o Append(t, x) = Append(u \o t, x)
<1>. DEFINE one == <<x>>
<1>1. one \in Seq(Nat)
  OBVIOUS
<1>2. Append(t, x) = t \o one /\ u \o t \in Seq(Nat)
  BY AppendIsConcat, ConcatProperties
<1>3. Append(u \o t, x) = (u \o t) \o one
  BY <1>2, AppendIsConcat
<1>. HIDE DEF one
<1>4. (u \o t) \o one = u \o (t \o one)
  BY <1>1, Regrouped, Zenon
<1>5. QED
  BY <1>2, <1>3, <1>4

\* The message in hand is the first of what is passed on that is not logged.
LEMMA NextToLog ==
    ASSUME NEW s \in Seq(Nat), NEW t \in Seq(Nat), NEW x \in Nat
    PROVE  /\ (s \o <<x>>) \o t = (Append(s, x) \o <<>>) \o t
           /\ Len(s) < Len((s \o <<x>>) \o t)
           /\ ((s \o <<x>>) \o t)[Len(s) + 1] = x
<1>. DEFINE v == Append(s, x)
<1>1. /\ v \in Seq(Nat) /\ Len(v) = Len(s) + 1 /\ v[Len(s) + 1] = x
      /\ Len(s) \in Nat /\ Len(t) \in Nat
  OBVIOUS
<1>2. v = s \o <<x>>
  BY AppendIsConcat
<1>. HIDE DEF v
<1>3. v \o <<>> = v
  BY <1>1, ConcatEmptySeq
<1>4. /\ Len(v \o t) = Len(v) + Len(t)
      /\ \A i \in 1 .. Len(v) + Len(t) :
           (v \o t)[i] = IF i <= Len(v) THEN v[i] ELSE t[i - Len(v)]
  BY <1>1, ConcatProperties
<1>5. /\ Len(s) + 1 \in 1 .. Len(v) + Len(t) /\ Len(s) + 1 <= Len(v)
      /\ Len(s) < Len(v) + Len(t)
  BY <1>1
<1>6. Len(s) < Len(v \o t) /\ (v \o t)[Len(s) + 1] = x
  BY <1>1, <1>4, <1>5
<1>7. (s \o <<x>>) \o t = v \o t /\ (Append(s, x) \o <<>>) \o t = v \o t
  BY <1>2, <1>3, Zenon DEF v
<1>8. QED
  BY <1>6, <1>7, Zenon

\* The first message of the output is taken in hand.
LEMMA TakenInHand ==
    ASSUME NEW s \in Seq(Nat), NEW t \in Seq(Nat), t # <<>>
    PROVE  (s \o <<Head(t)>>) \o Tail(t) = (s \o <<>>) \o t
<1>. DEFINE x == Head(t)
            r == Tail(t)
            one == <<x>>
<1>1. x \in Nat /\ r \in Seq(Nat) /\ one \in Seq(Nat)
  BY HeadTailProperties
<1>2. t = one \o r
  BY ConcatProperties, HeadTailProperties, <1>1
<1>. HIDE DEF x, r, one
<1>3. (s \o one) \o r = s \o (one \o r)
  BY <1>1, Regrouped, Zenon
<1>4. s \o <<>> = s
  BY ConcatEmptySeq
<1>5. QED
  BY <1>2, <1>3, <1>4 DEF x, r, one

\* The actions of OrderedMerge in terms of the reading side.
LEMMA MergeMapping ==
    /\ UNCHANGED <<pipeHist.published, pipeHist.accepted, agg.heap, Passed, pipeHist.logged>>
         => UNCHANGED Ordered!vars
    /\ \A m : Ordered!Publish(m) <=>
         /\ pipeHist'.published = Append(pipeHist.published, m)
         /\ UNCHANGED <<pipeHist.accepted, agg.heap, Passed, pipeHist.logged>>
    /\ \A m : Ordered!Known(m) <=>
         \E i \in 1 .. Len(pipeHist.accepted) :
            i > Len(pipeHist.accepted) - DuplicateCapacity /\ pipeHist.accepted[i] = m
    /\ \A m : Ordered!Accept(m) <=>
         /\ m \notin Invalid /\ ~Ordered!Known(m)
         /\ \E i \in 1 .. Len(pipeHist.published) : pipeHist.published[i] = m
         /\ pipeHist'.accepted = Append(pipeHist.accepted, m)
         /\ agg'.heap = agg.heap \cup {<<m, Len(pipeHist.accepted)>>}
         /\ UNCHANGED <<pipeHist.published, Passed, pipeHist.logged>>
    /\ Ordered!Pass <=>
         /\ \E q \in agg.heap :
               /\ \A r \in agg.heap \ {q} : Pipe!Before(q, r)
               /\ agg'.heap = agg.heap \ {q}
               /\ Passed' = Append(Passed, q[1])
         /\ UNCHANGED <<pipeHist.published, pipeHist.accepted, pipeHist.logged>>
    /\ Ordered!Log <=>
         /\ Len(pipeHist.logged) < Len(Passed)
         /\ pipeHist'.logged = Append(pipeHist.logged, Passed[Len(pipeHist.logged) + 1])
         /\ UNCHANGED <<pipeHist.published, pipeHist.accepted, agg.heap, Passed>>
BY DEF Ordered!vars, Ordered!Publish, Ordered!Known, Ordered!Accept, Ordered!Pass,
       Ordered!Older, Ordered!Log, Pipe!Before

\* A step of OrderedMerge, or none.
Implemented == CountsAccepted' /\ [Ordered!Next]_(Ordered!vars)

LEMMA MergeKept ==
    ASSUME CountsAccepted, pipeHist'.published = pipeHist.published,
           pipeHist'.accepted = pipeHist.accepted, pipeHist'.logged = pipeHist.logged,
           agg'.heap = agg.heap, agg'.sequence = agg.sequence, InHand' = InHand, out' = out
    PROVE  Implemented
<1>1. Passed' = Passed
  BY DEF Passed
<1>2. UNCHANGED Ordered!vars
  BY <1>1, MergeMapping
<1>3. QED
  BY <1>2 DEF Implemented, CountsAccepted

LEMMA MergePublish ==
    ASSUME PipeInv, CountsAccepted, NEW a \in Adapters, Pipe!Publish(a)
    PROVE  Implemented
<1>1. PICK m \in PipeMessages : pipeHist' = [pipeHist EXCEPT !.published = Append(@, m)]
  BY DEF Pipe!Publish
<1>2. agg' = agg /\ out' = out /\ loop' = loop
  BY DEF Pipe!Publish, Pipe!aggVars, Pipe!loopVars
<1>3. pipeHist \in PipeRecord
  BY DEF PipeInv, PipeShapes
<1>4. /\ pipeHist'.published = Append(pipeHist.published, m)
      /\ pipeHist'.accepted = pipeHist.accepted /\ pipeHist'.logged = pipeHist.logged
  BY <1>1, <1>3 DEF PipeRecord
<1>5. Passed' = Passed
  BY <1>2, <1>4 DEF Passed, InHand
<1>6. Ordered!Publish(m)
  BY <1>2, <1>4, <1>5, MergeMapping
<1>7. Ordered!Next
  BY <1>6 DEF Ordered!Next
<1>8. CountsAccepted'
  BY <1>2, <1>4 DEF CountsAccepted
<1>9. QED
  BY <1>7, <1>8 DEF Implemented

\* A message that is not remembered is none of those accepted last.
LEMMA NotKnown ==
    ASSUME Pipe!ConstantsOK, PipeInv, NEW m, m \notin Pipe!Range(seen)
    PROVE  ~Ordered!Known(m)
<1>. DEFINE acc == pipeHist.accepted
            n == Len(acc)
            k == Len(seen)
<1>1. n \in Nat /\ k \in Nat /\ DuplicateCapacity \in Nat /\ DOMAIN seen = 1 .. k
  BY DEF PipeInv, PipeShapes, PipeRecord, Pipe!ConstantsOK
<1>2. /\ k <= n /\ (k = n \/ k = DuplicateCapacity)
      /\ \A i \in 1 .. k : seen[i] = acc[n - k + i]
  BY DEF PipeInv, Recent
<1>3. ASSUME NEW i \in 1 .. n, i > n - DuplicateCapacity, acc[i] = m
      PROVE  FALSE
  <2>. HIDE DEF acc, n, k
  <2>1. i > n - k
    BY <1>1, <1>2, <1>3
  <2>2. i - (n - k) \in 1 .. k /\ n - k + (i - (n - k)) = i
    BY <1>1, <1>2, <2>1, PlaceOf, ZenonT(30)
  <2>3. seen[i - (n - k)] = m
    BY <1>2, <1>3, <2>2
  <2>4. QED
    BY <1>1, <2>2, <2>3 DEF Pipe!Range
<1>4. QED
  BY <1>3, MergeMapping

LEMMA MergeReceive ==
    ASSUME Pipe!ConstantsOK, PipeInv, CountsAccepted, Pipe!Receive
    PROVE  Implemented
<1>. DEFINE m == Head(incoming)
<1>1. incoming # <<>> /\ out' = out /\ loop' = loop
  BY DEF Pipe!Receive, Pipe!loopVars
<1>2. m \in PipeMessages /\ m \in Pipe!Range(incoming)
  BY <1>1, PipeRangeTail DEF PipeInv, PipeShapes
<1>3. InHand' = InHand
  BY <1>1 DEF InHand
<1>. HIDE DEF m
<1>4. CASE agg' = agg /\ pipeHist' = pipeHist
  BY <1>1, <1>3, <1>4, MergeKept
<1>5. CASE m \notin Invalid /\ m \notin Pipe!Range(seen) /\ Pipe!Accept(m)
  <2>. DEFINE heap == agg.heap \cup {<<m, agg.sequence>>}
              more == Append(pipeHist.accepted, m)
  <2>1. /\ pipeHist' = [pipeHist EXCEPT !.accepted = more]
        /\ agg' = [agg EXCEPT !.heap = heap, !.sequence = @ + 1, !.timer = TRUE,
                              !.pc = IF Pipe!Cardinality(heap) >= PipeQueue
                                     THEN "full" ELSE "select"]
    BY <1>5 DEF Pipe!Accept
  <2>2. pipeHist \in PipeRecord /\ agg \in AggRecord
    BY DEF PipeInv, PipeShapes
  <2>3. Len(more) = Len(pipeHist.accepted) + 1
    BY <1>2, <2>2 DEF PipeRecord
  <2>. HIDE DEF heap, more
  <2>4. /\ pipeHist'.accepted = more /\ pipeHist'.published = pipeHist.published
        /\ pipeHist'.logged = pipeHist.logged
    BY <2>1, <2>2 DEF PipeRecord
  <2>5. agg'.heap = heap /\ agg'.sequence = agg.sequence + 1
    BY <2>1, <2>2 DEF AggRecord
  <2>6. heap = agg.heap \cup {<<m, Len(pipeHist.accepted)>>}
    BY DEF heap, CountsAccepted
  <2>7. \E i \in 1 .. Len(pipeHist.published) : pipeHist.published[i] = m
    <3>1. m \in Pipe!Range(pipeHist.published)
      BY <1>2 DEF PipeInv, Whereabouts, Arriving
    <3>2. DOMAIN pipeHist.published = 1 .. Len(pipeHist.published)
      BY <2>2 DEF PipeRecord
    <3>3. QED
      BY <3>1, <3>2 DEF Pipe!Range
  <2>8. ~Ordered!Known(m)
    BY <1>5, NotKnown
  <2>9. Passed' = Passed
    BY <1>1, <1>3, <2>4 DEF Passed
  <2>10. Ordered!Accept(m)
    BY <1>5, <2>4, <2>5, <2>6, <2>7, <2>8, <2>9, MergeMapping DEF more
  <2>11. Ordered!Next
    BY <1>2, <2>10 DEF Ordered!Next
  <2>12. CountsAccepted'
    BY <2>3, <2>4, <2>5 DEF CountsAccepted
  <2>13. QED
    BY <2>11, <2>12 DEF Implemented
<1>6. QED
  BY <1>4, <1>5 DEF Pipe!Receive, m

LEMMA MergeEmit ==
    ASSUME Pipe!ConstantsOK, PipeInv, CountsAccepted, agg.heap # {}, NEW pcAfter,
           Pipe!Emit(pcAfter), loop' = loop
    PROVE  Implemented
<1>. DEFINE q == Pipe!Oldest
            rest == agg.heap \ {q}
<1>1. /\ out' = Append(out, q[1])
      /\ agg' = [agg EXCEPT !.heap = rest, !.pc = pcAfter]
      /\ pipeHist' = [pipeHist EXCEPT !.disorder =
                         @ \/ \E r \in agg.heap : Pipe!Before(r, q)]
  BY DEF Pipe!Emit, PipeInv, PipeShapes, AggRecord
<1>2. /\ q \in agg.heap /\ \A r \in agg.heap \ {q} : Pipe!Before(q, r)
      /\ q[1] \in Nat
  <2>1. agg.heap \in SUBSET (PipeMessages \X Nat) /\ PipeMessages \subseteq Nat
    BY DEF PipeInv, PipeShapes, AggRecord, Pipe!ConstantsOK
  <2>2. agg.heap \in SUBSET (Nat \X Nat)
    BY <2>1
  <2>3. QED
    BY <2>2, OldestLeaves
<1>. HIDE DEF q, rest
<1>3. /\ pipeHist'.published = pipeHist.published /\ pipeHist'.accepted = pipeHist.accepted
      /\ pipeHist'.logged = pipeHist.logged
      /\ agg'.heap = rest /\ agg'.sequence = agg.sequence
  BY <1>1 DEF PipeInv, PipeShapes, PipeRecord, AggRecord
<1>4. Passed' = Append(Passed, q[1])
  <2>1. InHand' = InHand
    BY DEF InHand
  <2>2. pipeHist.logged \in Seq(Nat) /\ InHand \in Seq(Nat) /\ out \in Seq(Nat)
    BY PassingTypes
  <2>3. (pipeHist.logged \o InHand) \o Append(out, q[1])
          = Append((pipeHist.logged \o InHand) \o out, q[1])
    <3>1. pipeHist.logged \o InHand \in Seq(Nat)
      BY <2>2, ConcatProperties
    <3>. DEFINE u == pipeHist.logged \o InHand
    <3>2. u \in Seq(Nat)
      BY <3>1
    <3>. HIDE DEF u
    <3>3. u \o Append(out, q[1]) = Append(u \o out, q[1])
      BY <1>2, <2>2, <3>2, Passing
    <3>4. QED
      BY <3>3 DEF u
  <2>4. QED
    BY <1>1, <1>3, <2>1, <2>3 DEF Passed
<1>5. Ordered!Pass
  BY <1>2, <1>3, <1>4, MergeMapping DEF rest
<1>6. Ordered!Next
  BY <1>5 DEF Ordered!Next
<1>7. CountsAccepted'
  BY <1>3 DEF CountsAccepted
<1>8. QED
  BY <1>6, <1>7 DEF Implemented

LEMMA MergeAggregate ==
    ASSUME Pipe!ConstantsOK, PipeInv, CountsAccepted, Pipe!Aggregate
    PROVE  Implemented
<1>1. CASE Pipe!Receive
  BY <1>1, MergeReceive
<1>2. loop' = loop /\ InHand' = InHand
  BY DEF Pipe!Aggregate, Pipe!Receive, Pipe!EmitFull, Pipe!TimerFires, Pipe!EndOfInputs,
     Pipe!Flush, Pipe!AggregatorCancelled, Pipe!loopVars, InHand
<1>3. CASE Pipe!EmitFull
  <2>1. agg.heap # {} /\ Pipe!Emit("select")
    BY <1>3 DEF Pipe!EmitFull, PipeInv, TimerRuns
  <2>2. QED
    BY <1>2, <2>1, MergeEmit
<1>4. CASE Pipe!Flush /\ agg.heap # {}
  <2>1. Pipe!Emit(agg.pc)
    BY <1>4 DEF Pipe!Flush
  <2>2. QED
    BY <1>2, <1>4, <2>1, MergeEmit
<1>5. CASE \/ Pipe!TimerFires \/ Pipe!EndOfInputs \/ Pipe!AggregatorCancelled
           \/ Pipe!Flush /\ agg.heap = {}
  <2>1. pipeHist' = pipeHist /\ out' = out
    BY <1>5 DEF Pipe!TimerFires, Pipe!EndOfInputs, Pipe!AggregatorCancelled, Pipe!Flush
  <2>2. agg \in AggRecord
    BY DEF PipeInv, PipeShapes
  <2>3. agg'.heap = agg.heap /\ agg'.sequence = agg.sequence
    <3>1. CASE Pipe!TimerFires
      BY <2>2, <3>1 DEF Pipe!TimerFires, AggRecord
    <3>2. CASE Pipe!EndOfInputs
      BY <2>2, <3>2 DEF Pipe!EndOfInputs, AggRecord
    <3>3. CASE Pipe!AggregatorCancelled
      <4>1. agg' = [agg EXCEPT !.pc = "done", !.closed = TRUE]
        BY <3>3 DEF Pipe!AggregatorCancelled
      <4>2. QED
        BY <2>2, <4>1 DEF AggRecord
    <3>4. CASE Pipe!Flush /\ agg.heap = {}
      <4>1. \/ agg' = [agg EXCEPT !.pc = "done", !.closed = TRUE]
            \/ agg' = [agg EXCEPT !.pc = "select", !.timer = FALSE]
        BY <3>4 DEF Pipe!Flush, Pipe!Flushed
      <4>2. QED
        BY <2>2, <4>1 DEF AggRecord
    <3>5. QED
      BY <1>5, <3>1, <3>2, <3>3, <3>4
  <2>4. QED
    BY <1>2, <2>1, <2>3, MergeKept
<1>6. QED
  BY <1>1, <1>3, <1>4, <1>5 DEF Pipe!Aggregate

LEMMA MergeMerged ==
    ASSUME Pipe!ConstantsOK, PipeInv, CountsAccepted, Pipe!Merged
    PROVE  Implemented
<1>1. /\ loop.pc = "select" /\ agg' = agg /\ pipeHist' = pipeHist
      /\ loop \in LoopRecord /\ loop.result = "none"
  BY DEF Pipe!Merged, Pipe!Looping, PipeInv, PipeShapes, Returned
<1>2. InHand = <<>>
  BY <1>1 DEF InHand
<1>3. CASE /\ out # <<>> /\ out' = Tail(out)
           /\ loop' = [loop EXCEPT !.pc = "render", !.msg = Head(out)]
  <2>1. loop'.pc = "render" /\ loop'.msg = Head(out)
    BY <1>1, <1>3 DEF LoopRecord
  <2>2. InHand' = <<Head(out)>>
    BY <2>1 DEF InHand
  <2>3. pipeHist.logged \in Seq(Nat) /\ out \in Seq(Nat)
    BY PassingTypes
  <2>4. (pipeHist.logged \o <<Head(out)>>) \o Tail(out) = (pipeHist.logged \o <<>>) \o out
    BY <1>3, <2>3, TakenInHand
  <2>5. Passed' = Passed
    BY <1>1, <1>2, <1>3, <2>2, <2>4 DEF Passed
  <2>6. UNCHANGED Ordered!vars
    BY <1>1, <2>5, MergeMapping
  <2>7. QED
    BY <1>1, <2>6 DEF Implemented, CountsAccepted
<1>4. CASE out' = out /\ loop' = [loop EXCEPT !.merged = FALSE]
  <2>1. loop'.pc = "select" /\ loop'.result = "none"
    BY <1>1, <1>4 DEF LoopRecord
  <2>2. InHand' = InHand
    BY <1>2, <2>1 DEF InHand
  <2>3. QED
    BY <1>1, <1>4, <2>2, MergeKept
<1>5. QED
  BY <1>3, <1>4 DEF Pipe!Merged

LEMMA MergeRender ==
    ASSUME PipeInv, CountsAccepted, Pipe!Render
    PROVE  Implemented
<1>1. loop.pc = "render" /\ agg' = agg /\ out' = out /\ loop \in LoopRecord
  BY DEF Pipe!Render, Pipe!aggVars, PipeInv, PipeShapes
<1>2. /\ pipeHist'.published = pipeHist.published /\ pipeHist'.accepted = pipeHist.accepted
      /\ pipeHist'.logged = pipeHist.logged
  BY DEF Pipe!Render, PipeInv, PipeShapes, PipeRecord
<1>3. /\ loop'.msg = loop.msg
      /\ loop'.pc = "log" \/ loop'.result = "render failed"
  BY <1>1 DEF Pipe!Render, Pipe!Returns, LoopRecord
<1>4. InHand' = InHand
  BY <1>1, <1>3 DEF InHand
<1>5. QED
  BY <1>1, <1>2, <1>4, MergeKept

LEMMA MergeWriteLog ==
    ASSUME Pipe!ConstantsOK, PipeInv, CountsAccepted, Pipe!WriteLog
    PROVE  Implemented
<1>1. /\ loop.pc = "log" /\ agg' = agg /\ out' = out /\ loop \in LoopRecord
      /\ loop.result = "none" /\ pipeHist \in PipeRecord
  BY DEF Pipe!WriteLog, Pipe!aggVars, PipeInv, PipeShapes, Returned
<1>2. InHand = <<loop.msg>>
  BY <1>1 DEF InHand
<1>3. CASE /\ loop' = [loop EXCEPT !.pc = "select"]
           /\ pipeHist' = [pipeHist EXCEPT !.logged = Append(@, loop.msg)]
  <2>1. /\ pipeHist'.logged = Append(pipeHist.logged, loop.msg)
        /\ pipeHist'.published = pipeHist.published /\ pipeHist'.accepted = pipeHist.accepted
    BY <1>1, <1>3 DEF PipeRecord
  <2>2. loop'.pc = "select" /\ loop'.result = "none"
    BY <1>1, <1>3 DEF LoopRecord
  <2>3. InHand' = <<>>
    BY <2>2 DEF InHand
  <2>4. pipeHist.logged \in Seq(Nat) /\ out \in Seq(Nat) /\ loop.msg \in Nat
    BY <1>1, PassingTypes DEF LoopRecord
  <2>. DEFINE s == pipeHist.logged
              x == loop.msg
  <2>5. /\ (s \o <<x>>) \o out = (Append(s, x) \o <<>>) \o out
        /\ Len(s) < Len((s \o <<x>>) \o out)
        /\ ((s \o <<x>>) \o out)[Len(s) + 1] = x
    <3>1. s \in Seq(Nat) /\ x \in Nat
      BY <2>4
    <3>. HIDE DEF s, x
    <3>2. QED
      BY <2>4, <3>1, NextToLog
  <2>6. Passed = (s \o <<x>>) \o out /\ Passed' = (Append(s, x) \o <<>>) \o out
    BY <1>1, <1>2, <2>1, <2>3 DEF Passed
  <2>7. Passed' = Passed /\ Len(s) < Len(Passed) /\ Passed[Len(s) + 1] = x
    BY <2>5, <2>6
  <2>8. Ordered!Log
    BY <1>1, <2>1, <2>7, MergeMapping
  <2>9. Ordered!Next
    BY <2>8 DEF Ordered!Next
  <2>10. QED
    BY <1>1, <2>1, <2>9 DEF Implemented, CountsAccepted
<1>4. CASE Pipe!LogFailure /\ pipeHist' = pipeHist
  <2>1. loop'.result = "logging failed" /\ loop'.msg = loop.msg
    BY <1>1, <1>4 DEF Pipe!LogFailure, Pipe!Returns, LoopRecord
  <2>2. InHand' = InHand
    BY <1>2, <2>1 DEF InHand
  <2>3. QED
    BY <1>1, <1>4, <2>2, MergeKept
<1>5. QED
  BY <1>3, <1>4 DEF Pipe!WriteLog

\* A step of the main loop with no message in hand.
LEMMA MergeElse ==
    ASSUME PipeInv, CountsAccepted,
           \/ Pipe!HearAdapter \/ Pipe!Shutdown \/ Pipe!Drain \/ Pipe!ContextDone
           \/ Pipe!AllDone
    PROVE  Implemented
<1>1. /\ loop.pc \in {"select", "drain"} /\ agg' = agg /\ out' = out /\ pipeHist' = pipeHist
      /\ loop \in LoopRecord
  BY DEF Pipe!HearAdapter, Pipe!Shutdown, Pipe!Drain, Pipe!ContextDone, Pipe!AllDone,
     Pipe!Looping, Pipe!aggVars, PipeInv, PipeShapes
<1>2. loop.result = "none"
  BY <1>1 DEF PipeInv, Returned
<1>3. /\ loop'.pc \in {"select", "drain", "returned"}
      /\ loop'.result \in {"none", "shutdown", "cancelled", "adapter failed", "done"}
  BY <1>1, <1>2 DEF Pipe!HearAdapter, Pipe!Shutdown, Pipe!Drain, Pipe!ContextDone,
     Pipe!AllDone, Pipe!Returns, LoopRecord
<1>4. InHand' = InHand
  BY <1>1, <1>2, <1>3 DEF InHand
<1>5. QED
  BY <1>1, <1>4, MergeKept

LEMMA MergeStep ==
    ASSUME Pipe!ConstantsOK, PipeInv, CountsAccepted, [Pipe!Next]_(Pipe!vars)
    PROVE  Implemented
<1>1. CASE \E a \in Adapters : Pipe!Publish(a)
  BY <1>1, MergePublish
<1>2. CASE \/ \E a \in Adapters : Pipe!AdapterEnds(a) \/ Pipe!Forward(a)
           \/ Pipe!RequestShutdown \/ Pipe!Signal \/ UNCHANGED Pipe!vars
  <2>1. agg' = agg /\ out' = out /\ pipeHist' = pipeHist /\ loop' = loop
    BY <1>2 DEF Pipe!AdapterEnds, Pipe!Forward, Pipe!RequestShutdown, Pipe!Signal, Pipe!vars,
       Pipe!aggVars, Pipe!loopVars
  <2>2. InHand' = InHand
    BY <2>1 DEF InHand
  <2>3. QED
    BY <2>1, <2>2, MergeKept
<1>3. CASE Pipe!Aggregate
  BY <1>3, MergeAggregate
<1>4. CASE Pipe!MainLoop
  BY <1>4, MergeMerged, MergeRender, MergeWriteLog, MergeElse DEF Pipe!MainLoop
<1>5. QED
  BY <1>1, <1>2, <1>3, <1>4 DEF Pipe!Next

\* However many adapters publish, whatever the queues and the cache hold and
\* however the client ends: the reading side accepts what was published and is
\* valid, a message again only when as many others as the cache holds lie in
\* between, passes on the oldest of what waits, and logs what was passed on in
\* this order, none left out and none twice.
THEOREM PipelineIsMerge ==
    ASSUME Pipe!ConstantsOK
    PROVE  Pipe!Spec => PipelineImplementsMerge
<1>1. Pipe!Init => PipeInv /\ CountsAccepted /\ Ordered!Init
  <2>1. SUFFICES ASSUME Pipe!Init PROVE PipeInv /\ CountsAccepted /\ Ordered!Init
    OBVIOUS
  <2>2. /\ pipeHist.published = <<>> /\ pipeHist.accepted = <<>> /\ pipeHist.logged = <<>>
        /\ agg.heap = {} /\ agg.sequence = 0 /\ out = <<>>
        /\ loop.pc = "select" /\ loop.result = "none"
    BY <2>1 DEF Pipe!Init
  <2>3. Passed = <<>>
    <3>1. InHand = <<>>
      BY <2>2 DEF InHand
    <3>2. <<>> \o <<>> = <<>>
      BY EmptySeq, ConcatEmptySeq
    <3>3. QED
      BY <2>2, <3>1, <3>2 DEF Passed
  <2>4. QED
    BY <2>1, <2>2, <2>3, PipeInit DEF CountsAccepted, Ordered!Init
<1>2. PipeInv /\ CountsAccepted /\ [Pipe!Next]_(Pipe!vars) => PipeInv' /\ CountsAccepted'
  BY PipeNext, MergeStep DEF Implemented
<1>3. PipeInv /\ CountsAccepted /\ [Pipe!Next]_(Pipe!vars) => [Ordered!Next]_(Ordered!vars)
  BY MergeStep DEF Implemented
<1>4. QED
  BY <1>1, <1>2, <1>3, PTL DEF Pipe!Spec, PipelineImplementsMerge, Ordered!Spec

-----------------------------------------------------------------------------
(* The terminal: the inductive invariant of TerminalClient.                *)

Targets == Platforms \cup {None}
Messages == [platform : Platforms, id : 1 .. MaxMessages]

InputRecord ==
    [pc : {"read", "sending", "sent", "label", "done"}, platform : Targets,
     id : 0 .. MaxMessages]
SessionRecord == [available : SUBSET Platforms, saved : Targets, selected : Targets]
ScreenRecord ==
    [visible : BOOLEAN, messages : Seq(Term!Lines), target : Targets, status : Targets]
RefresherRecord == [pc : {"refresh", "asked", "wait", "done"}, platform : Targets]
MainRecord ==
    [pc : {"loop", "shutdown", "deferred", "stopStatus", "closed"}, ctx : BOOLEAN,
     observer : BOOLEAN]
HistRecord ==
    [written : 0 .. MaxMessages, delivered : SUBSET Messages, trimmed : SUBSET Messages,
     faults : Nat, unsaved : BOOLEAN, sessions : Nat]

TermShapes ==
    /\ input \in InputRecord /\ session \in SessionRecord /\ screen \in ScreenRecord
    /\ refresher \in RefresherRecord /\ main \in MainRecord /\ hist \in HistRecord
    /\ provider \in SUBSET Messages
    /\ input.pc \in {"sending", "sent"} => input.platform \in Platforms /\ input.id > 0

\* The messages on a screen, and what an own message in flight is.
OnScreen(messages) == {messages[i].message : i \in DOMAIN messages}
Own == Term!Message(input.platform, input.id)

\* A message is accepted once and delivered once; the number of a message still to
\* be accepted is new.
Numbered ==
    /\ provider \cap hist.delivered = {}
    /\ \A m \in provider \cup hist.delivered : m.id <= hist.written
    /\ input.pc = "sending" =>
         /\ input.id <= hist.written
         /\ \A m \in provider \cup hist.delivered : m.id # input.id
    /\ input.pc = "sent" => Own \in provider \cup hist.delivered

\* A line that is not provisional came back from its provider.
LinesDelivered ==
    \A i \in DOMAIN screen.messages :
        ~screen.messages[i].provisional => screen.messages[i].message \in hist.delivered

\* While the echo of an own message is awaited, the message that has overtaken it is
\* on the screen, or its line was pushed out.
EchoOvertaken ==
    input.pc = "sent" /\ Own \in hist.delivered
        => Own \in hist.trimmed \cup OnScreen(screen.messages)

LineLimit == Len(screen.messages) <= DisplayLimit

\* The deferred calls run in their order.
Closing ==
    /\ main.ctx => main.pc = "loop"
    /\ main.pc \in {"stopStatus", "closed"} => ~main.observer
    /\ ~screen.visible => main.pc = "closed"
    /\ main.pc = "closed" => refresher.pc = "done"

TermInv ==
    /\ TermShapes /\ LineLimit /\ Numbered
    /\ Term!ShownOnce /\ Term!DeliveredIsAuthoritative /\ LinesDelivered /\ EchoOvertaken
    /\ Term!PromptIsTruthful /\ Term!SelectionIsSaved /\ Closing

-----------------------------------------------------------------------------
(* What cleaning keeps.                                                    *)

\* The loop of cleanMessages up to its i-th round, given the rounds before.
Round(s, gone, f, i) ==
    IF i = 0 THEN <<>>
    ELSE IF s[i].message.platform \in gone THEN f[i - 1]
    ELSE Append(f[i - 1], s[i])

LEMMA RoundsExist ==
    ASSUME NEW S, NEW s \in Seq(S), NEW gone
    PROVE  \E f : f = [i \in 0 .. Len(s) |-> Round(s, gone, f, i)]
<1>. DEFINE Has(n) == \E f : f = [i \in 0 .. n |-> Round(s, gone, f, i)]
            Bad == {n \in Nat : ~Has(n)}
<1>1. Has(0)
  <2>. DEFINE f == [i \in 0 .. 0 |-> <<>>]
  <2>1. \A i \in 0 .. 0 : Round(s, gone, f, i) = <<>>
    BY DEF Round
  <2>2. f = [i \in 0 .. 0 |-> Round(s, gone, f, i)]
    BY <2>1
  <2>3. QED
    BY <2>2
<1>2. ASSUME NEW n \in Nat, Has(n)
      PROVE  Has(n + 1)
  <2>1. PICK f : f = [i \in 0 .. n |-> Round(s, gone, f, i)]
    BY <1>2
  <2>. DEFINE g == [i \in 0 .. n + 1 |-> IF i = n + 1 THEN Round(s, gone, f, i) ELSE f[i]]
  <2>2. \A i \in 0 .. n : g[i] = f[i] /\ f[i] = Round(s, gone, f, i)
    <3>. DEFINE r == [i \in 0 .. n |-> Round(s, gone, f, i)]
    <3>1. \A i \in 0 .. n : r[i] = Round(s, gone, f, i)
      OBVIOUS
    <3>2. f = r
      BY <2>1
    <3>. HIDE DEF r
    <3>3. \A i \in 0 .. n : i \in 0 .. n + 1 /\ i # n + 1
      OBVIOUS
    <3>4. \A i \in 0 .. n : g[i] = f[i]
      BY <3>3
    <3>. HIDE DEF g
    <3>5. QED
      BY <3>1, <3>2, <3>4
  <2>3. ASSUME NEW i \in 0 .. n + 1
        PROVE  g[i] = Round(s, gone, g, i)
    <3>1. g[i] = Round(s, gone, f, i)
      <4>1. CASE i = n + 1
        BY <4>1
      <4>2. CASE i # n + 1
        <5>1. i \in 0 .. n
          BY <4>2
        <5>. HIDE DEF g
        <5>2. QED
          BY <2>2, <5>1
      <4>3. QED
        BY <4>1, <4>2
    <3>2. i # 0 => i - 1 \in 0 .. n
      OBVIOUS
    <3>3. i # 0 => g[i - 1] = f[i - 1]
      BY <2>2, <3>2
    <3>. HIDE DEF g
    <3>4. QED
      BY <3>1, <3>3 DEF Round
  <2>4. g = [i \in 0 .. n + 1 |-> g[i]]
    OBVIOUS
  <2>. HIDE DEF g
  <2>5. g = [i \in 0 .. n + 1 |-> Round(s, gone, g, i)]
    BY <2>3, <2>4
  <2>6. QED
    BY <2>5
<1>. HIDE DEF Has
<1>3. Bad = {}
  <2>1. SUFFICES ASSUME Bad # {}
                 PROVE  FALSE
    OBVIOUS
  <2>2. PICK x \in Bad : \A y \in Bad : x <= y
    BY <2>1, LeastNat
  <2>3. x \in Nat /\ ~Has(x)
    OBVIOUS
  <2>4. x # 0
    BY <1>1, <2>3
  <2>5. x - 1 \in Nat /\ x - 1 \notin Bad
    BY <2>2, <2>3, <2>4
  <2>6. Has(x - 1 + 1)
    BY <1>2, <2>5
  <2>7. x - 1 + 1 = x
    BY <2>3
  <2>8. QED
    BY <2>3, <2>6, <2>7
<1>4. Len(s) \in Nat
  OBVIOUS
<1>5. QED
  BY <1>3, <1>4 DEF Has

\* The lines that stay are lines of the screen, in other places but each once.
StaysOf(t, s, n) ==
    /\ Len(t) <= n
    /\ \E h \in [1 .. Len(t) -> 1 .. n] :
          /\ \A k \in 1 .. Len(t) : t[k] = s[h[k]]
          /\ \A k, l \in 1 .. Len(t) : h[k] = h[l] => k = l

LEMMA CleanedStays ==
    ASSUME NEW S, NEW s \in Seq(S), NEW gone
    PROVE  Term!Cleaned(s, gone) \in Seq(S) /\ StaysOf(Term!Cleaned(s, gone), s, Len(s))
<1>. DEFINE F == CHOOSE f : f = [i \in 0 .. Len(s) |-> Round(s, gone, f, i)]
            Good(i) == F[i] \in Seq(S) /\ StaysOf(F[i], s, i)
            Bad == {i \in 0 .. Len(s) : ~Good(i)}
<1>0. Len(s) \in Nat
  OBVIOUS
<1>1. F = [i \in 0 .. Len(s) |-> Round(s, gone, F, i)]
  BY RoundsExist
<1>2. Term!Cleaned(s, gone) = F[Len(s)]
  BY DEF Term!Cleaned, Round
<1>. HIDE DEF F
<1>3. \A i \in 0 .. Len(s) : F[i] = Round(s, gone, F, i)
  BY <1>1
<1>4. Good(0)
  <2>1. F[0] = <<>>
    BY <1>0, <1>3 DEF Round
  <2>2. <<>> \in Seq(S) /\ Len(<<>>) = 0
    OBVIOUS
  <2>3. ASSUME NEW t, Len(t) = 0
        PROVE  StaysOf(t, s, 0)
    <3>. DEFINE h == [k \in 1 .. 0 |-> 1]
    <3>1. 1 .. Len(t) = {}
      BY <2>3
    <3>2. h \in [1 .. Len(t) -> 1 .. 0]
      BY <2>3
    <3>3. \A k \in 1 .. Len(t) : FALSE
      BY <3>1
    <3>. HIDE DEF h
    <3>4. /\ \A k \in 1 .. Len(t) : t[k] = s[h[k]]
          /\ \A k, l \in 1 .. Len(t) : h[k] = h[l] => k = l
      BY <3>3
    <3>5. Len(t) <= 0
      BY <2>3
    <3>6. \E g \in [1 .. Len(t) -> 1 .. 0] :
            /\ \A k \in 1 .. Len(t) : t[k] = s[g[k]]
            /\ \A k, l \in 1 .. Len(t) : g[k] = g[l] => k = l
      BY <3>2, <3>4, Zenon
    <3>7. QED
      BY <3>5, <3>6, Zenon DEF StaysOf
  <2>4. QED
    BY <2>1, <2>2, <2>3
<1>5. ASSUME NEW n \in Nat, n + 1 \in 0 .. Len(s), Good(n)
      PROVE  Good(n + 1)
  <2>. DEFINE t == F[n]
  <2>1. t \in Seq(S) /\ Len(t) <= n /\ Len(t) \in Nat
    BY <1>5 DEF StaysOf
  <2>2. PICK h \in [1 .. Len(t) -> 1 .. n] :
           /\ \A k \in 1 .. Len(t) : t[k] = s[h[k]]
           /\ \A k, l \in 1 .. Len(t) : h[k] = h[l] => k = l
    BY <1>5 DEF StaysOf
  <2>3. F[n + 1] = t \/ F[n + 1] = Append(t, s[n + 1])
    <3>1. F[n + 1] = Round(s, gone, F, n + 1) /\ n + 1 # 0 /\ n + 1 - 1 = n
      BY <1>3, <1>5
    <3>2. QED
      BY <3>1 DEF Round
  <2>. HIDE DEF t
  <2>4. CASE F[n + 1] = t
    <3>1. h \in [1 .. Len(t) -> 1 .. n + 1]
      OBVIOUS
    <3>2. StaysOf(t, s, n + 1)
      BY <2>1, <2>2, <3>1 DEF StaysOf
    <3>3. QED
      BY <2>1, <2>4, <3>2
  <2>5. CASE F[n + 1] = Append(t, s[n + 1])
    <3>. DEFINE u == Append(t, s[n + 1])
                g == [k \in 1 .. Len(t) + 1 |-> IF k = Len(t) + 1 THEN n + 1 ELSE h[k]]
    <3>1. s[n + 1] \in S
      BY <1>5
    <3>2. u \in Seq(S) /\ Len(u) = Len(t) + 1
      BY <2>1, <3>1
    <3>3. u[Len(t) + 1] = s[n + 1] /\ \A k \in 1 .. Len(t) : u[k] = t[k]
      BY <2>1, <3>1
    <3>. HIDE DEF u
    <3>4. \A k \in 1 .. Len(t) + 1 : k # Len(t) + 1 => k \in 1 .. Len(t)
      BY <2>1
    <3>5. \A k \in 1 .. Len(t) : h[k] \in 1 .. n
      OBVIOUS
    <3>6. /\ g \in [1 .. Len(t) + 1 -> 1 .. n + 1]
          /\ g[Len(t) + 1] = n + 1
          /\ \A k \in 1 .. Len(t) : g[k] = h[k]
      BY <2>1, <3>4, <3>5
    <3>. HIDE DEF g
    <3>7. \A k \in 1 .. Len(t) + 1 : u[k] = s[g[k]]
      BY <2>2, <3>3, <3>4, <3>6
    <3>8. \A k, l \in 1 .. Len(t) + 1 : g[k] = g[l] => k = l
      <4>1. \A k \in 1 .. Len(t) : g[k] # n + 1
        BY <3>5, <3>6
      <4>2. QED
        BY <2>2, <3>4, <3>6, <4>1
    <3>9. StaysOf(u, s, n + 1)
      BY <2>1, <3>2, <3>6, <3>7, <3>8 DEF StaysOf
    <3>10. QED
      BY <2>5, <3>2, <3>9 DEF u
  <2>6. QED
    BY <2>3, <2>4, <2>5
<1>. HIDE DEF Good
<1>6. Bad = {}
  <2>1. SUFFICES ASSUME Bad # {}
                 PROVE  FALSE
    OBVIOUS
  <2>2. PICK x \in Bad : \A y \in Bad : x <= y
    <3>1. Bad \in SUBSET Nat
      BY <1>0
    <3>. HIDE DEF Bad
    <3>2. QED
      BY <2>1, <3>1, LeastNat
  <2>3. x \in 0 .. Len(s) /\ ~Good(x)
    OBVIOUS
  <2>4. x # 0
    BY <1>4, <2>3
  <2>5. x - 1 \in Nat /\ x - 1 \in 0 .. Len(s) /\ x - 1 \notin Bad
    BY <1>0, <2>2, <2>3, <2>4
  <2>6. Good(x - 1) /\ x - 1 + 1 = x
    BY <2>3, <2>5
  <2>7. QED
    BY <1>5, <2>3, <2>5, <2>6
<1>7. QED
  BY <1>0, <1>2, <1>6 DEF Good

-----------------------------------------------------------------------------
(* What showing a message does to the screen.                              *)

Distinct(s) == \A i, j \in DOMAIN s : s[i].message = s[j].message => i = j
Line(m, provisional) == [message |-> m, provisional |-> provisional]
SameLines(s, m, provisional) ==
    {i \in DOMAIN s : s[i].message = m /\ (s[i].provisional \/ provisional)}

LEMMA ShownCases ==
    ASSUME NEW s, NEW m, NEW provisional
    PROVE  Term!Shown(s, m, provisional) =
             IF SameLines(s, m, provisional) = {}
             THEN Term!Trimmed(Append(s, Line(m, provisional)))
             ELSE IF /\ provisional
                     /\ ~s[Term!Min(SameLines(s, m, provisional))].provisional
             THEN s
             ELSE [s EXCEPT ![Term!Min(SameLines(s, m, provisional))] = Line(m, provisional)]
BY DEF Term!Shown, SameLines, Line

\* A line is appended, and the oldest leaves a full screen.
OneMore(t, s, x) ==
    \E d \in {0, 1} :
        /\ Len(t) = Len(s) + 1 - d
        /\ \A i \in 1 .. Len(t) : t[i] = IF i + d = Len(s) + 1 THEN x ELSE s[i + d]

LEMMA TrimmedLines ==
    ASSUME NEW s \in Seq(Term!Lines), NEW x \in Term!Lines, Len(s) <= DisplayLimit,
           DisplayLimit \in Nat \ {0}, NEW t, t = Term!Trimmed(Append(s, x))
    PROVE  t \in Seq(Term!Lines) /\ Len(t) <= DisplayLimit /\ OneMore(t, s, x)
<1>. DEFINE a == Append(s, x)
<1>1. /\ a \in Seq(Term!Lines) /\ Len(a) = Len(s) + 1 /\ Len(s) \in Nat
      /\ \A i \in 1 .. Len(a) : a[i] = IF i = Len(s) + 1 THEN x ELSE s[i]
  BY AppendProperties
<1>. HIDE DEF a
<1>2. CASE Len(a) > DisplayLimit
  <2>1. a # <<>>
    BY <1>1
  <2>2. /\ Tail(a) \in Seq(Term!Lines) /\ Len(Tail(a)) = Len(a) - 1
        /\ \A i \in 1 .. Len(Tail(a)) : Tail(a)[i] = a[i + 1]
    BY <1>1, <2>1, HeadTailProperties
  <2>3. \A i \in 1 .. Len(Tail(a)) : i + 1 \in 1 .. Len(a)
    BY <1>1, <2>2
  <2>4. \A i \in 1 .. Len(Tail(a)) :
           Tail(a)[i] = IF i + 1 = Len(s) + 1 THEN x ELSE s[i + 1]
    BY <1>1, <2>2, <2>3
  <2>5. Len(Tail(a)) = Len(s) + 1 - 1 /\ Len(Tail(a)) <= DisplayLimit
    BY <1>1, <2>2
  <2>6. Term!Trimmed(a) = Tail(a)
    BY <1>2 DEF Term!Trimmed
  <2>7. QED
    BY <2>2, <2>4, <2>5, <2>6 DEF a, OneMore
<1>3. CASE ~(Len(a) > DisplayLimit)
  <2>1. Term!Trimmed(a) = a
    BY <1>3 DEF Term!Trimmed
  <2>2. \A i \in 1 .. Len(a) : a[i] = IF i + 0 = Len(s) + 1 THEN x ELSE s[i + 0]
    BY <1>1
  <2>3. Len(a) = Len(s) + 1 - 0 /\ Len(a) <= DisplayLimit
    BY <1>1, <1>3
  <2>4. QED
    BY <1>1, <2>1, <2>2, <2>3 DEF a, OneMore
<1>4. QED
  BY <1>2, <1>3

\* Every message keeps at most one line, if the authoritative form of a message is
\* shown once; the message shown is on the screen, and the other lines were there.
LEMMA ShownLines ==
    ASSUME NEW s \in Seq(Term!Lines), Len(s) <= DisplayLimit, Distinct(s),
           DisplayLimit \in Nat \ {0}, NEW m \in Messages, NEW provisional \in BOOLEAN,
           \A i \in DOMAIN s : s[i].message = m => provisional \/ s[i].provisional,
           NEW t, t = Term!Shown(s, m, provisional)
    PROVE  /\ t \in Seq(Term!Lines) /\ Len(t) <= DisplayLimit /\ Distinct(t)
           /\ m \in OnScreen(t)
           /\ \A i \in DOMAIN t :
                \/ t[i].message # m /\ \E j \in DOMAIN s : t[i] = s[j]
                \/ /\ t[i] = Line(m, provisional)
                   /\ \A j \in DOMAIN s : s[j].message = m => s[j].provisional
                \/ \E j \in DOMAIN s : t[i] = s[j] /\ provisional
<1>. DEFINE line == Line(m, provisional)
            same == SameLines(s, m, provisional)
<1>1. line \in Term!Lines /\ line.message = m
  BY DEF Line, Term!Lines, Messages
<1>2. DOMAIN s = 1 .. Len(s) /\ Len(s) \in Nat
  OBVIOUS
<1>3. CASE same = {}
  <2>1. t = Term!Trimmed(Append(s, line))
    BY <1>3, ShownCases
  <2>. HIDE DEF line
  <2>2. t \in Seq(Term!Lines) /\ Len(t) <= DisplayLimit /\ OneMore(t, s, line)
    BY <1>1, <2>1, TrimmedLines
  <2>3. PICK d \in {0, 1} :
           /\ Len(t) = Len(s) + 1 - d
           /\ \A i \in 1 .. Len(t) :
                t[i] = IF i + d = Len(s) + 1 THEN line ELSE s[i + d]
    BY <2>2 DEF OneMore
  <2>4. DOMAIN t = 1 .. Len(t) /\ Len(t) \in Nat
    BY <2>2
  <2>5. \A j \in DOMAIN s : s[j].message # m
    BY <1>3 DEF SameLines
  <2>6. \A i \in 1 .. Len(t) : i + d = Len(s) + 1 \/ i + d \in DOMAIN s
    BY <1>2, <2>3
  <2>7. Distinct(t)
    <3>1. SUFFICES ASSUME NEW i \in 1 .. Len(t), NEW j \in 1 .. Len(t),
                          t[i].message = t[j].message
                   PROVE  i = j
      BY <2>4 DEF Distinct
    <3>2. i + d = j + d
      <4>1. i + d = Len(s) + 1 <=> j + d = Len(s) + 1
        BY <1>1, <2>3, <2>5, <2>6, <3>1
      <4>2. CASE i + d = Len(s) + 1
        BY <4>1, <4>2
      <4>3. CASE i + d # Len(s) + 1
        <5>1. i + d \in DOMAIN s /\ j + d \in DOMAIN s
          BY <2>6, <4>1, <4>3
        <5>2. t[i] = s[i + d] /\ t[j] = s[j + d]
          BY <2>3, <4>1, <4>3
        <5>3. QED
          BY <3>1, <5>1, <5>2 DEF Distinct
      <4>4. QED
        BY <4>2, <4>3
    <3>3. QED
      BY <3>2
  <2>8. m \in OnScreen(t)
    <3>1. Len(t) \in 1 .. Len(t) /\ Len(t) + d = Len(s) + 1
      <4>1. Len(t) >= 1
        <5>1. CASE Len(s) >= 1
          BY <1>2, <2>3, <5>1
        <5>2. CASE Len(s) = 0
          <6>1. t = Append(s, line)
            <7>1. Len(Append(s, line)) = 1
              BY <1>1, <5>2
            <7>2. QED
              BY <2>1, <7>1 DEF Term!Trimmed
          <6>2. Len(t) = 1
            BY <1>1, <5>2, <6>1
          <6>3. QED
            BY <6>2
        <5>3. QED
          BY <1>2, <5>1, <5>2
      <4>2. QED
        BY <1>2, <2>3, <2>4, <4>1
    <3>2. t[Len(t)] = line
      BY <2>3, <3>1
    <3>3. QED
      BY <1>1, <2>4, <3>1, <3>2 DEF OnScreen
  <2>9. \A i \in DOMAIN t :
          \/ t[i].message # m /\ \E j \in DOMAIN s : t[i] = s[j]
          \/ t[i] = line
    BY <2>3, <2>4, <2>5, <2>6
  <2>10. QED
    BY <2>2, <2>5, <2>7, <2>8, <2>9 DEF line
<1>4. ASSUME NEW k \in same
      PROVE  same = {k} /\ Term!Min(same) = k /\ s[k].message = m /\ k \in DOMAIN s
  <2>1. s[k].message = m /\ k \in DOMAIN s
    BY DEF SameLines
  <2>2. same = {k}
    BY <1>4, <2>1 DEF SameLines, Distinct
  <2>3. k <= k
    BY <1>2, <2>1
  <2>. HIDE DEF same
  <2>4. Term!Min({k}) = k
    BY <2>3 DEF Term!Min
  <2>5. QED
    BY <2>1, <2>2, <2>4
<1>5. ASSUME NEW k \in same, provisional /\ ~s[k].provisional
      PROVE  t = s /\ m \in OnScreen(s)
  <2>1. Term!Min(same) = k /\ same # {} /\ s[k].message = m /\ k \in DOMAIN s
    BY <1>4
  <2>2. QED
    BY <1>5, <2>1, ShownCases DEF OnScreen
<1>6. ASSUME NEW k \in same, ~(provisional /\ ~s[k].provisional)
      PROVE  /\ t \in Seq(Term!Lines) /\ Len(t) = Len(s) /\ DOMAIN t = DOMAIN s
             /\ k \in DOMAIN s /\ s[k].message = m
             /\ t[k] = line /\ \A i \in DOMAIN s \ {k} : t[i] = s[i]
             /\ s[k].provisional
  <2>1. Term!Min(same) = k /\ same # {} /\ s[k].message = m /\ k \in DOMAIN s
    BY <1>4
  <2>2. t = [s EXCEPT ![k] = line]
    BY <1>6, <2>1, ShownCases
  <2>3. s[k].provisional
    BY <1>6, <2>1
  <2>. HIDE DEF line, same
  <2>4. t \in Seq(Term!Lines) /\ Len(t) = Len(s) /\ DOMAIN t = DOMAIN s
    BY <1>1, <1>2, <2>1, <2>2
  <2>5. QED
    BY <1>2, <2>1, <2>2, <2>3, <2>4
<1>7. ASSUME NEW k \in same, ~(provisional /\ ~s[k].provisional)
      PROVE  /\ Distinct(t) /\ m \in OnScreen(t)
             /\ \A j \in DOMAIN s : s[j].message = m => s[j].provisional
             /\ \A i \in DOMAIN t :
                  \/ t[i].message # m /\ \E j \in DOMAIN s : t[i] = s[j]
                  \/ t[i] = line
  <2>1. /\ DOMAIN t = DOMAIN s /\ k \in DOMAIN s /\ s[k].message = m
        /\ t[k] = line /\ \A i \in DOMAIN s \ {k} : t[i] = s[i]
        /\ s[k].provisional
    BY <1>6, <1>7
  <2>. HIDE DEF line, same
  <2>2. \A i \in DOMAIN s : t[i].message = s[i].message
    BY <1>1, <2>1
  <2>3. Distinct(t)
    BY <2>1, <2>2 DEF Distinct
  <2>4. \A j \in DOMAIN s : s[j].message = m => j = k
    BY <2>1 DEF Distinct
  <2>5. QED
    BY <1>1, <2>1, <2>2, <2>3, <2>4 DEF OnScreen
<1>8. CASE same # {}
  <2>1. PICK k \in same : TRUE
    BY <1>8
  <2>2. CASE provisional /\ ~s[k].provisional
    <3>1. t = s /\ m \in OnScreen(s)
      BY <1>5, <2>1, <2>2
    <3>2. QED
      BY <2>2, <3>1
  <2>3. CASE ~(provisional /\ ~s[k].provisional)
    <3>1. t \in Seq(Term!Lines) /\ Len(t) = Len(s)
      BY <1>6, <2>1, <2>3
    <3>2. /\ Distinct(t) /\ m \in OnScreen(t)
          /\ \A j \in DOMAIN s : s[j].message = m => s[j].provisional
          /\ \A i \in DOMAIN t :
               \/ t[i].message # m /\ \E j \in DOMAIN s : t[i] = s[j]
               \/ t[i] = line
      BY <1>7, <2>1, <2>3
    <3>. HIDE DEF line
    <3>3. QED
      BY <3>1, <3>2 DEF line
  <2>4. QED
    BY <2>2, <2>3
<1>9. QED
  BY <1>3, <1>8

-----------------------------------------------------------------------------
(* What a step of the terminal leaves alone.                               *)

\* Nothing is shown, delivered or pushed out.
LEMMA LinesKept ==
    ASSUME TermInv, screen'.messages = screen.messages,
           hist'.delivered = hist.delivered, hist'.trimmed = hist.trimmed,
           input' = input \/ input'.pc # "sent" \/ Own' \notin hist.delivered
    PROVE  /\ LineLimit' /\ Term!ShownOnce' /\ Term!DeliveredIsAuthoritative'
           /\ LinesDelivered' /\ EchoOvertaken'
BY DEF TermInv, LineLimit, Term!ShownOnce, Term!DeliveredIsAuthoritative, LinesDelivered,
       EchoOvertaken, OnScreen, Own, Term!Message

\* Nothing is written, accepted or delivered.
LEMMA NumbersKept ==
    ASSUME TermInv, provider' = provider, hist'.delivered = hist.delivered,
           hist'.written = hist.written,
           input' = input \/ input'.pc \notin {"sending", "sent"}
    PROVE  Numbered'
BY DEF TermInv, Numbered, Own, Term!Message

LEMMA TargetKept ==
    ASSUME TermInv, screen'.target = screen.target, session' = session,
           hist'.unsaved = hist.unsaved, input' = input \/ input'.pc # "read"
    PROVE  Term!PromptIsTruthful' /\ Term!SelectionIsSaved'
BY DEF TermInv, Term!PromptIsTruthful, Term!SelectionIsSaved

LEMMA ClosingKept ==
    ASSUME TermInv, main' = main, refresher'.pc = refresher.pc,
           screen'.visible = screen.visible
    PROVE  Closing'
BY DEF TermInv, Closing

LEMMA TermTypes ==
    ASSUME Term!ConstantsOK, TermShapes
    PROVE  /\ hist.written \in 0 .. MaxMessages /\ MaxMessages \in Nat
           /\ hist.faults \in Nat /\ hist.sessions \in Nat /\ hist.unsaved \in BOOLEAN
           /\ hist.delivered \in SUBSET Messages /\ hist.trimmed \in SUBSET Messages
           /\ session.selected \in Targets /\ session.saved \in Targets
           /\ session.available \in SUBSET Platforms
           /\ screen.messages \in Seq(Term!Lines) /\ screen.visible \in BOOLEAN
           /\ None \in Targets /\ Platforms \subseteq Targets /\ None \notin Platforms
           /\ DisplayLimit \in Nat \ {0}
           /\ Term!Idle \in InputRecord /\ Term!Idle.pc = "read"
           /\ [Term!Idle EXCEPT !.pc = "label"] \in InputRecord
           /\ [Term!Idle EXCEPT !.pc = "label"].pc = "label"
BY DEF Term!ConstantsOK, TermShapes, HistRecord, SessionRecord, ScreenRecord, Targets,
       InputRecord, Term!Idle

LEMMA FaultCounted ==
    ASSUME hist \in HistRecord, NEW f, f = hist.faults \/ f = hist.faults + 1,
           hist' = [hist EXCEPT !.faults = f]
    PROVE  /\ hist' \in HistRecord
           /\ hist'.written = hist.written /\ hist'.delivered = hist.delivered
           /\ hist'.trimmed = hist.trimmed /\ hist'.unsaved = hist.unsaved
<1>1. f \in Nat
  BY DEF HistRecord
<1>2. QED
  BY <1>1 DEF HistRecord

-----------------------------------------------------------------------------
(* The user's lines.                                                       *)

\* A message of the user is numbered and on its way to the provider.
LEMMA SendingOne ==
    ASSUME Term!ConstantsOK, TermInv, NEW p \in Platforms, hist.written < MaxMessages,
           input' = [pc |-> "sending", platform |-> p, id |-> hist.written + 1],
           hist'.written = hist.written + 1, hist'.delivered = hist.delivered,
           provider' = provider
    PROVE  /\ input' \in InputRecord /\ input'.pc = "sending"
           /\ input'.platform \in Platforms /\ input'.id > 0
           /\ Numbered' /\ hist.written + 1 \in 0 .. MaxMessages
<1>1. hist.written \in 0 .. MaxMessages /\ MaxMessages \in Nat
  BY TermTypes DEF TermInv
<1>. DEFINE n == hist.written + 1
<1>2. n \in 0 .. MaxMessages /\ n > 0 /\ n > hist.written
  BY <1>1
<1>3. \A m \in provider \cup hist.delivered : m.id <= hist.written
  BY DEF TermInv, Numbered
<1>4. \A m \in provider \cup hist.delivered : m.id \in Nat
  BY DEF TermInv, TermShapes, HistRecord, Messages
<1>5. \A m \in provider \cup hist.delivered : m.id <= n /\ m.id # n
  BY <1>1, <1>3, <1>4
<1>. HIDE DEF n
<1>6. input' = [pc |-> "sending", platform |-> p, id |-> n] /\ hist'.written = n
  BY DEF n
<1>7. input' \in InputRecord
  BY <1>2, <1>6 DEF InputRecord, Targets
<1>8. Numbered'
  BY <1>2, <1>5, <1>6 DEF TermInv, Numbered
<1>9. QED
  BY <1>2, <1>6, <1>7, <1>8 DEF n

LEMMA TermPlainLine ==
    ASSUME Term!ConstantsOK, TermInv, Term!PlainLine
    PROVE  TermInv'
<1>1. /\ UNCHANGED <<session, screen, refresher, main, provider>>
      /\ TermShapes /\ hist \in HistRecord
  BY DEF Term!PlainLine, TermInv, TermShapes
<1>2. CASE session.selected = None
  <2>1. input' = [Term!Idle EXCEPT !.pc = "label"] /\ hist' = hist
    BY <1>2 DEF Term!PlainLine, Term!Answered
  <2>2. input' \in InputRecord /\ input'.pc = "label"
    BY <1>1, <2>1, TermTypes
  <2>3. TermShapes'
    BY <1>1, <2>1, <2>2 DEF TermShapes
  <2>4. QED
    BY <1>1, <2>1, <2>2, <2>3, LinesKept, NumbersKept, TargetKept, ClosingKept DEF TermInv
<1>3. CASE session.selected # None
  <2>1. /\ hist.written < MaxMessages
        /\ input' = [pc |-> "sending", platform |-> session.selected,
                     id |-> hist.written + 1]
        /\ hist' = [hist EXCEPT !.written = hist.written + 1]
    BY <1>3 DEF Term!PlainLine, Term!Sending
  <2>2. session.selected \in Platforms
    BY <1>1, <1>3, TermTypes DEF Targets
  <2>3. /\ hist'.written = hist.written + 1 /\ hist'.delivered = hist.delivered
        /\ hist'.trimmed = hist.trimmed /\ hist'.unsaved = hist.unsaved
    BY <1>1, <2>1 DEF HistRecord
  <2>4. /\ input' \in InputRecord /\ input'.pc = "sending"
        /\ input'.platform \in Platforms /\ input'.id > 0
        /\ Numbered' /\ hist.written + 1 \in 0 .. MaxMessages
    BY <1>1, <2>1, <2>2, <2>3, SendingOne
  <2>5. hist' \in HistRecord
    BY <1>1, <2>1, <2>4 DEF HistRecord
  <2>6. TermShapes'
    BY <1>1, <2>4, <2>5 DEF TermShapes
  <2>7. QED
    BY <1>1, <2>3, <2>4, <2>6, LinesKept, TargetKept, ClosingKept DEF TermInv
<1>4. QED
  BY <1>2, <1>3

LEMMA TermSelectLine ==
    ASSUME Term!ConstantsOK, TermInv, Term!SelectLine
    PROVE  TermInv'
<1>1. /\ UNCHANGED <<screen, refresher, main, provider>>
      /\ TermShapes /\ hist \in HistRecord /\ session \in SessionRecord
      /\ input' = [Term!Idle EXCEPT !.pc = "label"]
  BY DEF Term!SelectLine, Term!Answered, TermInv, TermShapes
<1>2. input' \in InputRecord /\ input'.pc = "label"
  BY <1>1, TermTypes
<1>3. PICK p \in Platforms :
         IF p \in session.available THEN Term!Select(p) ELSE UNCHANGED <<session, hist>>
  BY DEF Term!SelectLine
<1>4. /\ hist' \in HistRecord /\ session' \in SessionRecord
      /\ hist'.written = hist.written /\ hist'.delivered = hist.delivered
      /\ hist'.trimmed = hist.trimmed
      /\ Term!SelectionIsSaved'
  <2>1. CASE session' = session /\ hist' = hist
    BY <1>1, <2>1 DEF TermInv, Term!SelectionIsSaved
  <2>2. CASE /\ session' = [session EXCEPT !.selected = p, !.saved = p]
             /\ hist' = [hist EXCEPT !.unsaved = FALSE]
    BY <1>1, <2>2 DEF HistRecord, SessionRecord, Targets, Term!SelectionIsSaved
  <2>3. CASE /\ session' = [session EXCEPT !.selected = p]
             /\ hist' = [hist EXCEPT !.unsaved = TRUE, !.faults = @ + 1]
    <3>. DEFINE f == hist.faults + 1
    <3>1. f \in Nat /\ hist' = [hist EXCEPT !.unsaved = TRUE, !.faults = f]
      BY <1>1, <2>3 DEF HistRecord
    <3>. HIDE DEF f
    <3>2. QED
      BY <1>1, <2>3, <3>1 DEF HistRecord, SessionRecord, Targets, Term!SelectionIsSaved
  <2>4. QED
    BY <1>3, <2>1, <2>2, <2>3 DEF Term!Select
<1>5. Term!PromptIsTruthful'
  BY <1>2 DEF Term!PromptIsTruthful
<1>6. TermShapes'
  BY <1>1, <1>2, <1>4 DEF TermShapes
<1>7. QED
  BY <1>1, <1>2, <1>4, <1>5, <1>6, LinesKept, NumbersKept, ClosingKept DEF TermInv

LEMMA TermSelectAndSendLine ==
    ASSUME Term!ConstantsOK, TermInv, Term!SelectAndSendLine
    PROVE  TermInv'
<1>1. /\ UNCHANGED <<screen, refresher, main, provider>>
      /\ TermShapes /\ hist \in HistRecord /\ session \in SessionRecord
  BY DEF Term!SelectAndSendLine, TermInv, TermShapes
<1>2. PICK p \in Platforms :
         /\ session' = [session EXCEPT !.selected = p, !.saved = p]
         /\ hist.written < MaxMessages
         /\ input' = [pc |-> "sending", platform |-> p, id |-> hist.written + 1]
         /\ hist' = [hist EXCEPT !.written = hist.written + 1, !.unsaved = FALSE]
  BY <1>1 DEF Term!SelectAndSendLine, SessionRecord
<1>3. /\ hist'.written = hist.written + 1 /\ hist'.delivered = hist.delivered
      /\ hist'.trimmed = hist.trimmed /\ hist'.unsaved = FALSE
  BY <1>1, <1>2 DEF HistRecord
<1>4. /\ input' \in InputRecord /\ input'.pc = "sending"
      /\ input'.platform \in Platforms /\ input'.id > 0
      /\ Numbered' /\ hist.written + 1 \in 0 .. MaxMessages
  BY <1>1, <1>2, <1>3, SendingOne
<1>5. hist' \in HistRecord
  BY <1>1, <1>2, <1>4 DEF HistRecord
<1>6. session' \in SessionRecord /\ session'.saved = p /\ session'.selected = p
  BY <1>1, <1>2 DEF SessionRecord, Targets
<1>7. TermShapes'
  BY <1>1, <1>4, <1>5, <1>6 DEF TermShapes
<1>8. Term!PromptIsTruthful' /\ Term!SelectionIsSaved'
  BY <1>4, <1>6 DEF Term!PromptIsTruthful, Term!SelectionIsSaved
<1>9. QED
  BY <1>1, <1>3, <1>4, <1>7, <1>8, LinesKept, ClosingKept DEF TermInv

LEMMA TermCleanLine ==
    ASSUME Term!ConstantsOK, TermInv, Term!CleanLine
    PROVE  TermInv'
<1>1. /\ UNCHANGED <<session, refresher, main, provider, hist>>
      /\ TermShapes /\ screen \in ScreenRecord
      /\ input' = [Term!Idle EXCEPT !.pc = "label"]
  BY DEF Term!CleanLine, Term!Answered, TermInv, TermShapes
<1>2. input' \in InputRecord /\ input'.pc = "label"
  BY <1>1, TermTypes
<1>3. PICK gone : screen' =
         [screen EXCEPT !.messages = Term!Cleaned(screen.messages, gone)]
  BY DEF Term!CleanLine, Term!Clean
<1>. DEFINE s == screen.messages
            t == Term!Cleaned(s, gone)
<1>4. s \in Seq(Term!Lines) /\ Len(s) <= DisplayLimit /\ DisplayLimit \in Nat
  BY <1>1, TermTypes DEF TermInv, LineLimit
<1>5. t \in Seq(Term!Lines) /\ StaysOf(t, s, Len(s))
  BY <1>4, CleanedStays
<1>. HIDE DEF t
<1>6. screen' = [screen EXCEPT !.messages = t]
  BY <1>3 DEF t
<1>7. /\ screen' \in ScreenRecord /\ screen'.messages = t
      /\ screen'.target = screen.target /\ screen'.visible = screen.visible
  BY <1>1, <1>5, <1>6 DEF ScreenRecord
<1>8. PICK h \in [1 .. Len(t) -> 1 .. Len(s)] :
         /\ \A k \in 1 .. Len(t) : t[k] = s[h[k]]
         /\ \A k, l \in 1 .. Len(t) : h[k] = h[l] => k = l
  BY <1>5 DEF StaysOf
<1>9. DOMAIN t = 1 .. Len(t) /\ DOMAIN s = 1 .. Len(s)
  BY <1>4, <1>5
<1>10. \A k \in DOMAIN t : h[k] \in DOMAIN s /\ t[k] = s[h[k]]
  BY <1>8, <1>9
<1>11. LineLimit'
  <2>1. Len(t) <= Len(s) /\ Len(t) \in Nat /\ Len(s) \in Nat
    BY <1>4, <1>5 DEF StaysOf
  <2>2. QED
    BY <1>4, <1>7, <2>1 DEF LineLimit
<1>. HIDE DEF s
<1>12. Term!ShownOnce'
  <2>1. \A i, j \in DOMAIN s : s[i].message = s[j].message => i = j
    BY DEF TermInv, Term!ShownOnce, s
  <2>2. QED
    BY <1>7, <1>8, <1>9, <1>10, <2>1 DEF Term!ShownOnce
<1>13. Term!DeliveredIsAuthoritative' /\ LinesDelivered'
  <2>1. \A i \in DOMAIN s :
          /\ s[i].provisional => s[i].message \notin hist.delivered \ hist.trimmed
          /\ ~s[i].provisional => s[i].message \in hist.delivered
    BY DEF TermInv, Term!DeliveredIsAuthoritative, LinesDelivered, s
  <2>2. QED
    BY <1>1, <1>7, <1>10, <2>1 DEF Term!DeliveredIsAuthoritative, LinesDelivered
<1>14. EchoOvertaken'
  BY <1>2 DEF EchoOvertaken
<1>15. TermShapes'
  BY <1>1, <1>2, <1>7 DEF TermShapes
<1>16. QED
  BY <1>1, <1>2, <1>7, <1>11, <1>12, <1>13, <1>14, <1>15, NumbersKept, TargetKept, ClosingKept
  DEF TermInv

-----------------------------------------------------------------------------
(* Messages that are shown.                                                *)

LEMMA AppendShows ==
    ASSUME Term!ConstantsOK, TermInv, NEW m \in Messages, NEW provisional \in BOOLEAN,
           ~provisional => m \notin hist.delivered,
           provisional /\ m \in hist.delivered
               => m \in hist.trimmed \cup OnScreen(screen.messages),
           Term!AppendMessage(m, provisional)
    PROVE  /\ screen' \in ScreenRecord /\ screen'.target = screen.target
           /\ screen'.visible = screen.visible
           /\ LineLimit' /\ Term!ShownOnce' /\ Term!DeliveredIsAuthoritative'
           /\ LinesDelivered'
           /\ hist' \in HistRecord /\ hist'.written = hist.written
           /\ hist'.unsaved = hist.unsaved
           /\ hist'.delivered = hist.delivered \cup (IF provisional THEN {} ELSE {m})
           /\ \A x \in hist.trimmed \cup OnScreen(screen.messages) \cup {m} :
                x \in hist'.trimmed \cup OnScreen(screen'.messages)
<1>. DEFINE s == screen.messages
            t == Term!Shown(s, m, provisional)
            gone == hist.trimmed \cup Term!PushedOut(s, t)
            delivered == hist.delivered \cup (IF provisional THEN {} ELSE {m})
<1>1. /\ TermShapes /\ screen \in ScreenRecord /\ hist \in HistRecord
      /\ s \in Seq(Term!Lines) /\ Len(s) <= DisplayLimit /\ DisplayLimit \in Nat \ {0}
      /\ hist.delivered \in SUBSET Messages /\ hist.trimmed \in SUBSET Messages
  BY TermTypes DEF TermInv, TermShapes, LineLimit
<1>2. \A i \in DOMAIN s :
         /\ s[i].provisional => s[i].message \notin hist.delivered \ hist.trimmed
         /\ ~s[i].provisional => s[i].message \in hist.delivered
  BY DEF TermInv, Term!DeliveredIsAuthoritative, LinesDelivered
<1>3. Distinct(s)
  BY DEF TermInv, Term!ShownOnce, Distinct
<1>4. \A i \in DOMAIN s : s[i].message = m => provisional \/ s[i].provisional
  BY <1>2
<1>5. /\ screen' = [screen EXCEPT !.messages = t]
      /\ hist' = [hist EXCEPT !.trimmed = gone, !.delivered = delivered]
  <2>1. delivered = IF provisional THEN hist.delivered ELSE hist.delivered \cup {m}
    OBVIOUS
  <2>2. hist' = [hist EXCEPT !.trimmed = gone,
                    !.delivered = IF provisional THEN @ ELSE @ \cup {m}]
    BY <1>1 DEF Term!AppendMessage, HistRecord
  <2>3. hist' = [hist EXCEPT !.trimmed = gone,
                    !.delivered = IF provisional THEN hist.delivered
                                  ELSE hist.delivered \cup {m}]
    BY <1>1, <2>2 DEF HistRecord
  <2>4. QED
    BY <2>1, <2>3 DEF Term!AppendMessage
<1>. HIDE DEF s, t
<1>6. /\ t \in Seq(Term!Lines) /\ Len(t) <= DisplayLimit /\ Distinct(t)
      /\ m \in OnScreen(t)
      /\ \A i \in DOMAIN t :
           \/ t[i].message # m /\ \E j \in DOMAIN s : t[i] = s[j]
           \/ /\ t[i] = Line(m, provisional)
              /\ \A j \in DOMAIN s : s[j].message = m => s[j].provisional
           \/ \E j \in DOMAIN s : t[i] = s[j] /\ provisional
  BY <1>1, <1>3, <1>4, ShownLines DEF s, t
<1>7. OnScreen(s) \in SUBSET Messages
  <2>1. \A i \in DOMAIN s : s[i] \in Term!Lines
    BY <1>1
  <2>2. \A x \in Term!Lines : x.message \in Messages
    BY DEF Term!Lines, Messages
  <2>3. QED
    BY <2>1, <2>2 DEF OnScreen
<1>8. Term!PushedOut(s, t) = OnScreen(s) \ OnScreen(t)
  BY DEF Term!PushedOut, OnScreen
<1>9. gone \in SUBSET Messages /\ delivered \in SUBSET Messages
  BY <1>1, <1>7, <1>8
<1>10. hist.trimmed \subseteq gone /\ \A x \in OnScreen(s) : x \in gone \cup OnScreen(t)
  BY <1>8
<1>. HIDE DEF gone
<1>11. /\ hist' \in HistRecord /\ hist'.written = hist.written
       /\ hist'.unsaved = hist.unsaved
       /\ hist'.delivered = delivered /\ hist'.trimmed = gone
  <2>. HIDE DEF delivered
  <2>1. QED
    BY <1>1, <1>5, <1>9 DEF HistRecord
<1>12. /\ screen' \in ScreenRecord /\ screen'.target = screen.target
       /\ screen'.visible = screen.visible /\ screen'.messages = t
  BY <1>1, <1>5, <1>6 DEF ScreenRecord
<1>13. LineLimit' /\ Term!ShownOnce'
  BY <1>6, <1>12 DEF LineLimit, Term!ShownOnce, Distinct
<1>14. ASSUME NEW i \in DOMAIN t
       PROVE  /\ t[i].provisional => t[i].message \notin delivered \ gone
              /\ ~t[i].provisional => t[i].message \in delivered
  <2>1. CASE t[i].message # m /\ \E j \in DOMAIN s : t[i] = s[j]
    BY <1>2, <1>10, <2>1 DEF s
  <2>2. CASE /\ t[i] = Line(m, provisional)
             /\ \A j \in DOMAIN s : s[j].message = m => s[j].provisional
    <3>1. t[i].message = m /\ t[i].provisional = provisional
      BY <2>2 DEF Line
    <3>2. CASE ~provisional
      BY <3>1, <3>2
    <3>3. CASE provisional
      <4>1. m \notin hist.delivered \ hist.trimmed
        <5>1. SUFFICES ASSUME m \in hist.delivered, m \notin hist.trimmed
                       PROVE  FALSE
          OBVIOUS
        <5>2. m \in OnScreen(s)
          BY <3>3, <5>1 DEF s
        <5>3. PICK j \in DOMAIN s : s[j].message = m
          BY <5>2 DEF OnScreen
        <5>4. s[j].provisional
          BY <2>2, <5>3
        <5>5. QED
          BY <1>2, <5>1, <5>3, <5>4 DEF s
      <4>2. QED
        BY <1>10, <3>1, <3>3, <4>1
    <3>4. QED
      BY <3>2, <3>3
  <2>3. CASE \E j \in DOMAIN s : t[i] = s[j] /\ provisional
    BY <1>2, <1>10, <2>3 DEF s
  <2>4. QED
    BY <1>6, <2>1, <2>2, <2>3
<1>15. Term!DeliveredIsAuthoritative' /\ LinesDelivered'
  <2>. HIDE DEF delivered
  <2>1. QED
    BY <1>11, <1>12, <1>14 DEF Term!DeliveredIsAuthoritative, LinesDelivered
<1>16. QED
  BY <1>6, <1>10, <1>11, <1>12, <1>13, <1>15 DEF s

LEMMA TermObserved ==
    ASSUME Term!ConstantsOK, TermInv, Term!Observed
    PROVE  TermInv'
<1>1. /\ UNCHANGED <<session, refresher, main, provider>> /\ input.pc = "sent"
      /\ TermShapes /\ input' = [Term!Idle EXCEPT !.pc = "label"]
  BY DEF Term!Observed, Term!Answered, TermInv, TermShapes
<1>2. input' \in InputRecord /\ input'.pc = "label"
  BY <1>1, TermTypes
<1>3. CASE screen' = screen /\ hist' = hist
  <2>1. TermShapes'
    BY <1>1, <1>2, <1>3 DEF TermShapes
  <2>2. QED
    BY <1>1, <1>2, <1>3, <2>1, LinesKept, NumbersKept, TargetKept, ClosingKept DEF TermInv
<1>4. CASE Term!AppendMessage(Own, TRUE)
  <2>1. Own \in Messages
    <3>1. Own \in provider \cup hist.delivered
      BY <1>1 DEF TermInv, Numbered
    <3>2. QED
      BY <1>1, <3>1, TermTypes DEF TermShapes
  <2>2. Own \in hist.delivered => Own \in hist.trimmed \cup OnScreen(screen.messages)
    BY <1>1 DEF TermInv, EchoOvertaken
  <2>3. /\ screen' \in ScreenRecord /\ screen'.target = screen.target
        /\ screen'.visible = screen.visible
        /\ LineLimit' /\ Term!ShownOnce' /\ Term!DeliveredIsAuthoritative'
        /\ LinesDelivered'
        /\ hist' \in HistRecord /\ hist'.written = hist.written
        /\ hist'.unsaved = hist.unsaved
        /\ hist'.delivered = hist.delivered \cup (IF TRUE THEN {} ELSE {Own})
    BY <1>4, <2>1, <2>2, AppendShows
  <2>4. TermShapes'
    BY <1>1, <1>2, <2>3 DEF TermShapes
  <2>5. EchoOvertaken'
    BY <1>2 DEF EchoOvertaken
  <2>6. QED
    BY <1>1, <1>2, <2>3, <2>4, <2>5, NumbersKept, TargetKept, ClosingKept DEF TermInv
<1>5. QED
  BY <1>3, <1>4 DEF Term!Observed, Own

LEMMA TermDeliver ==
    ASSUME Term!ConstantsOK, TermInv, Term!Deliver
    PROVE  TermInv'
<1>1. UNCHANGED <<input, session, refresher, main>> /\ TermShapes
  BY DEF Term!Deliver, TermInv
<1>2. PICK m \in provider : provider' = provider \ {m} /\ Term!AppendMessage(m, FALSE)
  BY DEF Term!Deliver
<1>3. m \in Messages /\ m \notin hist.delivered
  BY <1>1 DEF TermInv, TermShapes, Numbered
<1>4. /\ screen' \in ScreenRecord /\ screen'.target = screen.target
      /\ screen'.visible = screen.visible
      /\ LineLimit' /\ Term!ShownOnce' /\ Term!DeliveredIsAuthoritative'
      /\ LinesDelivered'
      /\ hist' \in HistRecord /\ hist'.written = hist.written
      /\ hist'.unsaved = hist.unsaved
      /\ hist'.delivered = hist.delivered \cup (IF FALSE THEN {} ELSE {m})
      /\ \A x \in hist.trimmed \cup OnScreen(screen.messages) \cup {m} :
           x \in hist'.trimmed \cup OnScreen(screen'.messages)
  BY <1>2, <1>3, AppendShows
<1>5. hist'.delivered = hist.delivered \cup {m}
  BY <1>4
<1>6. TermShapes'
  BY <1>1, <1>2, <1>4 DEF TermShapes
<1>7. provider' \cup hist'.delivered = provider \cup hist.delivered
  BY <1>2, <1>5
<1>8. Numbered'
  <2>1. provider' \cap hist'.delivered = {}
    BY <1>2, <1>5 DEF TermInv, Numbered
  <2>2. Own' = Own
    BY <1>1 DEF Own, Term!Message
  <2>3. QED
    BY <1>1, <1>4, <1>7, <2>1, <2>2 DEF TermInv, Numbered
<1>9. EchoOvertaken'
  <2>1. Own' = Own
    BY <1>1 DEF Own, Term!Message
  <2>2. QED
    BY <1>1, <1>4, <1>5, <2>1 DEF TermInv, EchoOvertaken
<1>10. QED
  BY <1>1, <1>4, <1>6, <1>8, <1>9, TargetKept, ClosingKept DEF TermInv

-----------------------------------------------------------------------------
(* The other steps.                                                        *)

LEMMA TermAccepted ==
    ASSUME Term!ConstantsOK, TermInv, Term!Accepted
    PROVE  TermInv'
<1>1. /\ UNCHANGED <<session, screen, refresher, main>> /\ input.pc = "sending"
      /\ TermShapes /\ input \in InputRecord /\ hist \in HistRecord
      /\ provider' = provider \cup {Own}
  BY DEF Term!Accepted, TermInv, TermShapes, Own
<1>2. Own \in Messages
  <2>1. input.platform \in Platforms /\ input.id \in 1 .. MaxMessages
    BY <1>1, TermTypes DEF TermShapes, InputRecord
  <2>2. QED
    BY <2>1 DEF Own, Term!Message, Messages
<1>3. Own \notin provider \cup hist.delivered /\ Own.id <= hist.written
  BY <1>1 DEF TermInv, Numbered, Own, Term!Message
<1>4. /\ input' \in InputRecord /\ hist' \in HistRecord
      /\ input' = [input EXCEPT !.pc = "sent"] \/ input'.pc = "label"
      /\ hist'.written = hist.written /\ hist'.delivered = hist.delivered
      /\ hist'.trimmed = hist.trimmed /\ hist'.unsaved = hist.unsaved
  <2>1. CASE input' = [input EXCEPT !.pc = "sent"] /\ hist' = hist
    BY <1>1, <2>1 DEF InputRecord
  <2>2. CASE /\ input' = [Term!Idle EXCEPT !.pc = "label"]
             /\ hist' = [hist EXCEPT !.faults = @ + 1]
    <3>1. hist' = [hist EXCEPT !.faults = hist.faults + 1]
      BY <1>1, <2>2 DEF HistRecord
    <3>2. QED
      BY <1>1, <2>2, <3>1, FaultCounted, TermTypes
  <2>3. QED
    BY <2>1, <2>2 DEF Term!Accepted
<1>5. input'.pc = "sent" => input'.platform = input.platform /\ input'.id = input.id
  BY <1>1, <1>4 DEF InputRecord
<1>6. input'.pc \in {"sent", "label"}
  BY <1>1, <1>4 DEF InputRecord
<1>7. TermShapes'
  BY <1>1, <1>2, <1>4, <1>5, <1>6 DEF TermShapes
<1>8. input'.pc = "sent" => Own' = Own
  BY <1>5 DEF Own, Term!Message
<1>9. Numbered'
  <2>1. provider' \cap hist'.delivered = {}
    BY <1>1, <1>3, <1>4 DEF TermInv, Numbered
  <2>2. \A m \in provider' \cup hist'.delivered : m.id <= hist'.written
    BY <1>1, <1>3, <1>4 DEF TermInv, Numbered
  <2>3. QED
    BY <1>1, <1>6, <1>8, <2>1, <2>2 DEF Numbered
<1>10. input'.pc # "sent" \/ Own' \notin hist.delivered
  BY <1>3, <1>8
<1>11. QED
  BY <1>1, <1>4, <1>6, <1>7, <1>9, <1>10, LinesKept, TargetKept, ClosingKept DEF TermInv

\* Steps of the input that leave the messages alone.
LEMMA TermInputGoes ==
    ASSUME Term!ConstantsOK, TermInv,
           Term!SendFails \/ Term!SetTarget \/ Term!RequestShutdown
    PROVE  TermInv'
<1>1. /\ UNCHANGED <<session, refresher, provider>>
      /\ TermShapes /\ hist \in HistRecord /\ screen \in ScreenRecord
      /\ main \in MainRecord
  BY DEF Term!SendFails, Term!SetTarget, Term!RequestShutdown, TermInv, TermShapes
<1>2. CASE Term!SendFails
  <2>1. /\ input' = [Term!Idle EXCEPT !.pc = "label"] /\ UNCHANGED <<screen, main>>
        /\ \E f : /\ f = hist.faults \/ f = hist.faults + 1
                  /\ hist' = [hist EXCEPT !.faults = f]
    BY <1>1, <1>2 DEF Term!SendFails, Term!Answered, HistRecord
  <2>2. /\ hist' \in HistRecord
        /\ hist'.written = hist.written /\ hist'.delivered = hist.delivered
        /\ hist'.trimmed = hist.trimmed /\ hist'.unsaved = hist.unsaved
    BY <1>1, <2>1, FaultCounted
  <2>3. input' \in InputRecord /\ input'.pc = "label"
    BY <1>1, <2>1, TermTypes
  <2>4. TermShapes'
    BY <1>1, <2>1, <2>2, <2>3 DEF TermShapes
  <2>5. QED
    BY <1>1, <2>1, <2>2, <2>3, <2>4, LinesKept, NumbersKept, TargetKept, ClosingKept
    DEF TermInv
<1>3. CASE Term!SetTarget
  <2>1. /\ screen' = [screen EXCEPT !.target = session.selected] /\ input' = Term!Idle
        /\ UNCHANGED <<main, hist>>
    BY <1>3 DEF Term!SetTarget
  <2>2. input' \in InputRecord /\ input'.pc = "read" /\ session.selected \in Targets
    BY <1>1, <2>1, TermTypes
  <2>3. /\ screen' \in ScreenRecord /\ screen'.target = session.selected
        /\ screen'.visible = screen.visible /\ screen'.messages = screen.messages
    BY <1>1, <2>1, <2>2 DEF ScreenRecord
  <2>4. TermShapes'
    BY <1>1, <2>1, <2>2, <2>3 DEF TermShapes
  <2>5. Term!PromptIsTruthful' /\ Term!SelectionIsSaved'
    BY <1>1, <2>1, <2>3 DEF TermInv, Term!PromptIsTruthful, Term!SelectionIsSaved
  <2>6. QED
    BY <1>1, <2>1, <2>2, <2>3, <2>4, <2>5, LinesKept, NumbersKept, ClosingKept DEF TermInv
<1>4. CASE Term!RequestShutdown
  <2>1. /\ input' = [Term!Idle EXCEPT !.pc = "done"]
        /\ main' = [main EXCEPT !.pc = "shutdown", !.ctx = FALSE]
        /\ UNCHANGED <<screen, hist>>
        /\ main.ctx
    BY <1>4 DEF Term!RequestShutdown, Term!Reading
  <2>2. input' \in InputRecord /\ input'.pc = "done"
    BY <1>1, <2>1, TermTypes DEF InputRecord
  <2>3. /\ main' \in MainRecord /\ main'.pc = "shutdown"
    BY <1>1, <2>1 DEF MainRecord
  <2>4. TermShapes'
    BY <1>1, <2>1, <2>2, <2>3 DEF TermShapes
  <2>5. Closing'
    <3>1. screen.visible
      BY <2>1 DEF TermInv, Closing
    <3>2. ~main'.ctx
      BY <1>1, <2>1 DEF MainRecord
    <3>3. QED
      BY <2>1, <2>3, <3>1, <3>2 DEF Closing
  <2>6. QED
    BY <1>1, <2>1, <2>2, <2>4, <2>5, LinesKept, NumbersKept, TargetKept DEF TermInv
<1>5. QED
  BY <1>2, <1>3, <1>4

LEMMA TermOthersWrite ==
    ASSUME Term!ConstantsOK, TermInv, Term!OthersWrite
    PROVE  TermInv'
<1>1. /\ UNCHANGED <<input, session, screen, refresher, main>> /\ TermShapes
      /\ hist \in HistRecord /\ hist.written < MaxMessages
  BY DEF Term!OthersWrite, TermInv, TermShapes
<1>. DEFINE n == hist.written + 1
<1>2. PICK p \in Platforms : provider' = provider \cup {Term!Message(p, n)}
  BY DEF Term!OthersWrite
<1>3. n \in 1 .. MaxMessages /\ n \in 0 .. MaxMessages /\ n > hist.written
  BY <1>1, TermTypes
<1>4. hist' = [hist EXCEPT !.written = n]
  BY <1>1 DEF Term!OthersWrite, HistRecord
<1>5. \A x \in provider \cup hist.delivered : x.id <= n /\ x.id # n
  <2>1. \A x \in provider \cup hist.delivered : x.id <= hist.written /\ x.id \in Nat
    BY <1>1 DEF TermInv, TermShapes, Numbered, HistRecord, Messages
  <2>2. QED
    BY <1>1, <2>1 DEF HistRecord
<1>6. input.pc = "sending" => input.id <= n /\ input.id # n
  <2>1. input.pc = "sending" => input.id <= hist.written /\ input.id \in Nat
    BY <1>1 DEF TermInv, TermShapes, Numbered, InputRecord
  <2>2. QED
    BY <1>1, <2>1 DEF HistRecord
<1>. HIDE DEF n
<1>7. /\ hist' \in HistRecord /\ hist'.written = n /\ hist'.delivered = hist.delivered
      /\ hist'.trimmed = hist.trimmed /\ hist'.unsaved = hist.unsaved
  BY <1>1, <1>3, <1>4 DEF HistRecord
<1>. DEFINE m == Term!Message(p, n)
<1>8. m \in Messages /\ m.id = n
  BY <1>3 DEF Term!Message, Messages
<1>. HIDE DEF m
<1>9. provider' = provider \cup {m}
  BY <1>2 DEF m
<1>10. TermShapes'
  BY <1>1, <1>7, <1>8, <1>9 DEF TermShapes
<1>11. Numbered'
  <2>1. Own' = Own
    BY <1>1 DEF Own, Term!Message
  <2>2. m \notin provider \cup hist.delivered
    BY <1>5, <1>8
  <2>3. provider' \cap hist'.delivered = {}
    BY <1>7, <1>9, <2>2 DEF TermInv, Numbered
  <2>4. \A x \in provider' \cup hist'.delivered : x.id <= hist'.written
    BY <1>3, <1>5, <1>7, <1>8, <1>9
  <2>5. input'.pc = "sending" =>
          /\ input'.id <= hist'.written
          /\ \A x \in provider' \cup hist'.delivered : x.id # input'.id
    BY <1>1, <1>6, <1>7, <1>8, <1>9 DEF TermInv, Numbered
  <2>6. input'.pc = "sent" => Own' \in provider' \cup hist'.delivered
    BY <1>1, <1>7, <1>9, <2>1 DEF TermInv, Numbered
  <2>7. QED
    BY <2>3, <2>4, <2>5, <2>6 DEF Numbered
<1>12. QED
  BY <1>1, <1>7, <1>10, <1>11, LinesKept, TargetKept, ClosingKept DEF TermInv

LEMMA TermRefresher ==
    ASSUME Term!ConstantsOK, TermInv, Term!Refresher
    PROVE  TermInv'
<1>1. /\ UNCHANGED <<input, session, main, provider>>
      /\ TermShapes /\ hist \in HistRecord /\ screen \in ScreenRecord
      /\ refresher \in RefresherRecord /\ session \in SessionRecord
      /\ refresher.pc # "done"
  BY DEF Term!Refresher, Term!StatusAsked, Term!StatusAnswered, Term!Tick,
         Term!RefresherEnds, TermInv, TermShapes
<1>2. main.pc # "closed"
  BY <1>1 DEF TermInv, Closing
<1>3. refresher' \in RefresherRecord
  BY <1>1 DEF Term!Refresher, Term!StatusAsked, Term!StatusAnswered, Term!Tick,
              Term!RefresherEnds, RefresherRecord, SessionRecord
<1>4. /\ screen' \in ScreenRecord /\ screen'.messages = screen.messages
      /\ screen'.target = screen.target /\ screen'.visible = screen.visible
  <2>1. CASE screen' = screen
    BY <1>1, <2>1
  <2>2. CASE screen' = [screen EXCEPT !.status = refresher.platform]
    BY <1>1, <2>2 DEF ScreenRecord, RefresherRecord
  <2>3. QED
    BY <2>1, <2>2 DEF Term!Refresher, Term!StatusAsked, Term!StatusAnswered, Term!Tick,
                      Term!RefresherEnds
<1>5. /\ hist' \in HistRecord
      /\ hist'.written = hist.written /\ hist'.delivered = hist.delivered
      /\ hist'.trimmed = hist.trimmed /\ hist'.unsaved = hist.unsaved
  <2>1. CASE hist' = hist
    BY <1>1, <2>1
  <2>2. CASE \E f : /\ f = hist.faults \/ f = hist.faults + 1
                    /\ hist' = [hist EXCEPT !.faults = f]
    BY <1>1, <2>2, FaultCounted
  <2>3. Term!StatusAnswered =>
          \/ hist' = hist
          \/ \E f : /\ f = hist.faults \/ f = hist.faults + 1
                    /\ hist' = [hist EXCEPT !.faults = f]
    BY <1>1 DEF Term!StatusAnswered, HistRecord
  <2>4. QED
    BY <2>1, <2>2, <2>3 DEF Term!Refresher, Term!StatusAsked, Term!Tick, Term!RefresherEnds
<1>6. TermShapes'
  BY <1>1, <1>3, <1>4, <1>5 DEF TermShapes
<1>7. Closing'
  BY <1>1, <1>2, <1>4 DEF TermInv, Closing
<1>8. QED
  BY <1>1, <1>4, <1>5, <1>6, <1>7, LinesKept, NumbersKept, TargetKept DEF TermInv

LEMMA TermEnding ==
    ASSUME Term!ConstantsOK, TermInv, Term!Signal \/ Term!Ending
    PROVE  TermInv'
<1>1. /\ UNCHANGED <<input, session, refresher, provider, hist>>
      /\ TermShapes /\ screen \in ScreenRecord /\ main \in MainRecord
  BY DEF Term!Signal, Term!Ending, Term!ShutdownTaken, Term!Unobserve, Term!CloseTerminal,
         TermInv, TermShapes
<1>2. /\ main' \in MainRecord /\ ~main'.ctx
      /\ screen' \in ScreenRecord /\ screen'.messages = screen.messages
      /\ screen'.target = screen.target
      /\ main'.pc \in {"stopStatus", "closed"} => ~main'.observer
      /\ ~screen'.visible => main'.pc = "closed"
      /\ main'.pc = "closed" => refresher.pc = "done"
  <2>1. CASE Term!Signal
    <3>1. main' = [main EXCEPT !.pc = "deferred", !.ctx = FALSE] /\ screen' = screen
      BY <2>1 DEF Term!Signal
    <3>2. screen.visible
      BY <2>1 DEF Term!Signal, TermInv, Closing
    <3>3. QED
      BY <1>1, <3>1, <3>2 DEF MainRecord
  <2>2. CASE Term!ShutdownTaken
    <3>1. main' = [main EXCEPT !.pc = "deferred"] /\ screen' = screen
      BY <2>2 DEF Term!ShutdownTaken
    <3>2. screen.visible /\ ~main.ctx
      BY <2>2 DEF Term!ShutdownTaken, TermInv, Closing
    <3>3. QED
      BY <1>1, <3>1, <3>2 DEF MainRecord
  <2>3. CASE Term!Unobserve
    <3>1. /\ main' = [main EXCEPT !.pc = "stopStatus", !.observer = FALSE]
          /\ screen' = screen
      BY <2>3 DEF Term!Unobserve
    <3>2. screen.visible /\ ~main.ctx
      BY <2>3 DEF Term!Unobserve, TermInv, Closing
    <3>3. QED
      BY <1>1, <3>1, <3>2 DEF MainRecord
  <2>4. CASE Term!CloseTerminal
    <3>1. /\ main' = [main EXCEPT !.pc = "closed"] /\ refresher.pc = "done"
          /\ screen' = [screen EXCEPT !.visible = FALSE]
      BY <2>4 DEF Term!CloseTerminal
    <3>2. ~main.observer /\ ~main.ctx
      BY <2>4 DEF Term!CloseTerminal, TermInv, Closing
    <3>3. QED
      BY <1>1, <3>1, <3>2 DEF MainRecord, ScreenRecord
  <2>5. QED
    BY <2>1, <2>2, <2>3, <2>4 DEF Term!Ending
<1>3. TermShapes'
  BY <1>1, <1>2 DEF TermShapes
<1>4. Closing'
  BY <1>1, <1>2 DEF Closing
<1>5. QED
  BY <1>1, <1>2, <1>3, <1>4, LinesKept, NumbersKept, TargetKept DEF TermInv

\* What a screen shows when the client starts.
LEMMA TermStarts ==
    ASSUME Term!ConstantsOK, input' = Term!Idle,
           refresher' = [pc |-> "refresh", platform |-> None],
           main' = [pc |-> "loop", ctx |-> TRUE, observer |-> TRUE],
           NEW target \in Targets, session' \in SessionRecord,
           session'.selected = target, target # None => session'.saved = target,
           screen' = [visible |-> TRUE, messages |-> <<>>, target |-> target,
                      status |-> None],
           provider' \in SUBSET Messages, hist' \in HistRecord,
           provider' \cap hist'.delivered = {},
           \A m \in provider' \cup hist'.delivered : m.id <= hist'.written
    PROVE  TermInv'
<1>1. <<>> \in Seq(Term!Lines) /\ Len(<<>>) = 0 /\ DOMAIN <<>> = {}
  OBVIOUS
<1>. DEFINE none == <<>>
<1>2. none \in Seq(Term!Lines) /\ Len(none) = 0 /\ DOMAIN none = {}
  BY <1>1
<1>. HIDE DEF none
<1>3. screen' = [visible |-> TRUE, messages |-> none, target |-> target, status |-> None]
  BY DEF none
<1>4. None \in Targets
  BY DEF Targets
<1>5. input' \in InputRecord /\ input'.pc = "read"
  BY <1>4 DEF Term!Idle, InputRecord, Term!ConstantsOK
<1>6. refresher' \in RefresherRecord /\ main' \in MainRecord
  BY <1>4 DEF RefresherRecord, MainRecord
<1>7. screen' \in ScreenRecord
  BY <1>2, <1>3, <1>4 DEF ScreenRecord
<1>8. TermShapes'
  BY <1>5, <1>6, <1>7 DEF TermShapes
<1>9. screen'.messages = none /\ screen'.target = target /\ screen'.visible
  BY <1>3
<1>10. /\ LineLimit' /\ Term!ShownOnce' /\ Term!DeliveredIsAuthoritative'
       /\ LinesDelivered'
  BY <1>2, <1>9 DEF LineLimit, Term!ShownOnce, Term!DeliveredIsAuthoritative,
                    LinesDelivered, Term!ConstantsOK
<1>11. Numbered' /\ EchoOvertaken'
  BY <1>5 DEF Numbered, EchoOvertaken
<1>12. Term!PromptIsTruthful' /\ Term!SelectionIsSaved'
  BY <1>9 DEF Term!PromptIsTruthful, Term!SelectionIsSaved
<1>13. Closing'
  BY <1>9 DEF Closing
<1>14. QED
  BY <1>8, <1>10, <1>11, <1>12, <1>13 DEF TermInv

\* The same of the first start.
LEMMA TermStarted ==
    ASSUME Term!ConstantsOK, input = Term!Idle,
           refresher = [pc |-> "refresh", platform |-> None],
           main = [pc |-> "loop", ctx |-> TRUE, observer |-> TRUE],
           NEW target \in Targets, session \in SessionRecord,
           session.selected = target, target # None => session.saved = target,
           screen = [visible |-> TRUE, messages |-> <<>>, target |-> target,
                      status |-> None],
           provider \in SUBSET Messages, hist \in HistRecord,
           provider \cap hist.delivered = {},
           \A m \in provider \cup hist.delivered : m.id <= hist.written
    PROVE  TermInv
<1>1. <<>> \in Seq(Term!Lines) /\ Len(<<>>) = 0 /\ DOMAIN <<>> = {}
  OBVIOUS
<1>. DEFINE none == <<>>
<1>2. none \in Seq(Term!Lines) /\ Len(none) = 0 /\ DOMAIN none = {}
  BY <1>1
<1>. HIDE DEF none
<1>3. screen = [visible |-> TRUE, messages |-> none, target |-> target, status |-> None]
  BY DEF none
<1>4. None \in Targets
  BY DEF Targets
<1>5. input \in InputRecord /\ input.pc = "read"
  BY <1>4 DEF Term!Idle, InputRecord, Term!ConstantsOK
<1>6. refresher \in RefresherRecord /\ main \in MainRecord
  BY <1>4 DEF RefresherRecord, MainRecord
<1>7. screen \in ScreenRecord
  BY <1>2, <1>3, <1>4 DEF ScreenRecord
<1>8. TermShapes
  BY <1>5, <1>6, <1>7 DEF TermShapes
<1>9. screen.messages = none /\ screen.target = target /\ screen.visible
  BY <1>3
<1>10. /\ LineLimit /\ Term!ShownOnce /\ Term!DeliveredIsAuthoritative
       /\ LinesDelivered
  BY <1>2, <1>9 DEF LineLimit, Term!ShownOnce, Term!DeliveredIsAuthoritative,
                    LinesDelivered, Term!ConstantsOK
<1>11. Numbered /\ EchoOvertaken
  BY <1>5 DEF Numbered, EchoOvertaken
<1>12. Term!PromptIsTruthful /\ Term!SelectionIsSaved
  BY <1>9 DEF Term!PromptIsTruthful, Term!SelectionIsSaved
<1>13. Closing
  BY <1>9 DEF Closing
<1>14. QED
  BY <1>8, <1>10, <1>11, <1>12, <1>13 DEF TermInv

LEMMA TermInit ==
    ASSUME Term!ConstantsOK, Term!Init
    PROVE  TermInv
<1>1. PICK available \in SUBSET Platforms, saved \in Targets :
         /\ session = [available |-> available, saved |-> saved,
                       selected |-> Term!Restored(saved, available)]
         /\ screen = [visible |-> TRUE, messages |-> <<>>,
                      target |-> Term!Restored(saved, available), status |-> None]
  BY DEF Term!Init, Targets
<1>. DEFINE target == Term!Restored(saved, available)
<1>2. target \in Targets /\ (target # None => saved = target)
  BY DEF Term!Restored, Targets
<1>. HIDE DEF target
<1>3. /\ session \in SessionRecord /\ session.selected = target
      /\ session.saved = saved
  BY <1>1, <1>2 DEF SessionRecord, target
<1>4. provider = {} /\ hist \in HistRecord /\ hist.delivered = {}
  <2>1. 0 \in 0 .. MaxMessages
    BY DEF Term!ConstantsOK
  <2>2. QED
    BY <2>1 DEF Term!Init, HistRecord
<1>5. /\ input = Term!Idle /\ refresher = [pc |-> "refresh", platform |-> None]
      /\ main = [pc |-> "loop", ctx |-> TRUE, observer |-> TRUE]
  BY DEF Term!Init
<1>6. screen = [visible |-> TRUE, messages |-> <<>>, target |-> target, status |-> None]
  BY <1>1 DEF target
<1>7. /\ provider \in SUBSET Messages /\ provider \cap hist.delivered = {}
      /\ \A m \in provider \cup hist.delivered : m.id <= hist.written
  BY <1>4
<1>8. QED
  BY <1>2, <1>3, <1>4, <1>5, <1>6, <1>7, TermStarted

LEMMA TermRestart ==
    ASSUME Term!ConstantsOK, TermInv, Term!Restart
    PROVE  TermInv'
<1>1. /\ TermShapes /\ session \in SessionRecord /\ hist \in HistRecord
      /\ provider' = provider
  BY DEF Term!Restart, TermInv, TermShapes
<1>2. PICK available \in SUBSET Platforms :
         /\ session' = [session EXCEPT !.available = available,
                           !.selected = Term!Restored(session.saved, available)]
         /\ screen' = [visible |-> TRUE, messages |-> <<>>,
                       target |-> Term!Restored(session.saved, available),
                       status |-> None]
  BY DEF Term!Restart
<1>. DEFINE target == Term!Restored(session.saved, available)
<1>3. target \in Targets /\ (target # None => session.saved = target)
  BY <1>1 DEF Term!Restored, Targets, SessionRecord
<1>. HIDE DEF target
<1>4. /\ session' = [session EXCEPT !.available = available, !.selected = target]
      /\ screen' = [visible |-> TRUE, messages |-> <<>>, target |-> target,
                    status |-> None]
  BY <1>2 DEF target
<1>5. /\ session' \in SessionRecord /\ session'.selected = target
      /\ session'.saved = session.saved
  BY <1>1, <1>3, <1>4 DEF SessionRecord
<1>. DEFINE n == hist.sessions + 1
<1>6. n \in Nat /\ hist' = [hist EXCEPT !.sessions = n, !.unsaved = FALSE, !.trimmed = {}]
  BY <1>1 DEF Term!Restart, HistRecord
<1>. HIDE DEF n
<1>7. /\ hist' \in HistRecord /\ hist'.delivered = hist.delivered
      /\ hist'.written = hist.written
  BY <1>1, <1>6 DEF HistRecord
<1>8. /\ provider' \in SUBSET Messages /\ provider' \cap hist'.delivered = {}
      /\ \A m \in provider' \cup hist'.delivered : m.id <= hist'.written
  BY <1>1, <1>7 DEF TermInv, TermShapes, Numbered
<1>9. /\ input' = Term!Idle /\ refresher' = [pc |-> "refresh", platform |-> None]
      /\ main' = [pc |-> "loop", ctx |-> TRUE, observer |-> TRUE]
  BY DEF Term!Restart
<1>10. QED
  BY <1>3, <1>4, <1>5, <1>7, <1>8, <1>9, TermStarts

LEMMA TermNext ==
    ASSUME Term!ConstantsOK, TermInv, [Term!Next]_(Term!vars)
    PROVE  TermInv'
<1>1. CASE Term!Input
  BY <1>1, TermPlainLine, TermSelectLine, TermSelectAndSendLine, TermCleanLine,
     TermInputGoes DEF Term!Input
<1>2. CASE Term!Signal \/ Term!Ending
  BY <1>2, TermEnding
<1>3. CASE UNCHANGED Term!vars
  <2>1. UNCHANGED <<input, session, screen, refresher, main, provider, hist>>
    BY <1>3 DEF Term!vars
  <2>2. TermShapes'
    BY <2>1 DEF TermInv, TermShapes
  <2>3. QED
    BY <2>1, <2>2, LinesKept, NumbersKept, TargetKept, ClosingKept DEF TermInv
<1>4. QED
  BY <1>1, <1>2, <1>3, TermAccepted, TermInputGoes, TermObserved, TermOthersWrite,
     TermDeliver, TermRefresher, TermRestart DEF Term!Next

LEMMA TermImplies ==
    ASSUME Term!ConstantsOK, TermInv
    PROVE  Term!TerminalSafety
<1>1. TermShapes /\ LineLimit
  BY DEF TermInv
<1>2. Term!TypeOK
  BY <1>1 DEF TermShapes, LineLimit, InputRecord, SessionRecord, ScreenRecord,
              RefresherRecord, MainRecord, Targets, Term!TypeOK
<1>3. Term!ClosedLast
  BY DEF TermInv, Closing, Term!ClosedLast
<1>4. QED
  BY <1>2, <1>3 DEF TermInv, Term!TerminalSafety

\* main.go, session.go and terminal.go: whichever of its two forms comes first, a
\* message has one line, and once it has come back it is not shown as provisional;
\* the prompt names the target a plain line goes to, the next start restores what
\* was selected last, and the terminal is restored after everything that uses it.
THEOREM TerminalIsSafe ==
    ASSUME Term!ConstantsOK PROVE Term!Spec => []Term!TerminalSafety
<1>1. Term!Init => TermInv
  BY TermInit
<1>2. TermInv /\ [Term!Next]_(Term!vars) => TermInv'
  BY TermNext
<1>3. TermInv => Term!TerminalSafety
  BY TermImplies
<1>4. QED
  BY <1>1, <1>2, <1>3, PTL DEF Term!Spec

-----------------------------------------------------------------------------
(* The emotes on the screen: the inductive invariant of EmoteDisplay.      *)

Places == Image!AllOccurrences

\* An emote is pending exactly while one goroutine downloads it.
CacheInv ==
    /\ cached \subseteq Emotes /\ pending \subseteq Emotes /\ failed \subseteq Emotes
    /\ downloads \in [Emotes -> Seq({"get", "stored", "failed"})]
    /\ \A e \in Emotes : Len(downloads[e]) = IF e \in pending THEN 1 ELSE 0
    /\ redraws \in Nat /\ failures \in Nat /\ failures <= MaxFailures
    /\ resizes \in Nat /\ resizes <= MaxResizes

\* Who looks for images does it to the end before the next turn.
LookupInv ==
    /\ left \in [Image!Renderers -> Seq(Places)] /\ missed \in [Image!Renderers -> BOOLEAN]
    /\ \A r \in Image!Renderers : missed[r] => left[r] # <<>>
    /\ formatter \in {"read", "format", "append"}
    /\ formatter # "format" => left["main"] = <<>>
    /\ lock \in {"free", "append", "redraw"} /\ phase \in {"draw", "refresh"}
    /\ lock = "free" => left["screen"] = <<>>
    /\ lock = "append" => formatter = "append"
    /\ shown \in 0 .. Len(Texts)
    /\ formatter # "read" /\ lock # "append" => shown < Len(Texts)

\* What is drawn or found has its image in the cache, for good; what the terminal
\* has confirmed, and so what is drawn, is of a kind it accepts.
DrawnInv ==
    /\ found \subseteq Places /\ drawn \subseteq Places
    /\ DOMAIN current \subseteq Places /\ confirmed \subseteq Places
    /\ \A o \in drawn \cup found : Image!EmoteOf(o) \in cached
    /\ \A o \in drawn \cup confirmed : Image!EmoteOf(o) \notin Unsupported

\* A refresh finds every image that is drawn: the file that is missing is never that
\* of a blank.
RefreshFinds ==
    /\ missed["screen"] => Head(left["screen"]) \notin drawn
    /\ lock # "free" /\ phase = "refresh" =>
         \A o \in drawn : Image!Visible(o) => o \in found \cup Image!ToSet(left["screen"])

ImageInv ==
    /\ CacheInv /\ LookupInv /\ DrawnInv /\ RefreshFinds /\ Image!NamesUntilAccepted

-----------------------------------------------------------------------------
(* Every emote of every message: FlattenSeq joins all its sequences.       *)

Joined(q, f, i) == IF i = 1 THEN q[i] ELSE f[i - 1] \o q[i]

LEMMA JoinedAfter ==
    ASSUME NEW q, NEW f, NEW i, i # 1
    PROVE  Joined(q, f, i) = f[i - 1] \o q[i]
BY DEF Joined

LEMMA JoinsExist ==
    ASSUME NEW S, NEW q \in Seq(Seq(S)), Len(q) # 0
    PROVE  \E f : f = [i \in 1 .. Len(q) |-> Joined(q, f, i)]
<1>. DEFINE Has(n) == \E f : f = [i \in 1 .. n + 1 |-> Joined(q, f, i)]
            Bad == {n \in Nat : ~Has(n)}
<1>1. Has(0)
  <2>. DEFINE f == [i \in 1 .. 0 + 1 |-> q[1]]
  <2>1. \A i \in 1 .. 0 + 1 : Joined(q, f, i) = q[1]
    BY DEF Joined
  <2>2. f = [i \in 1 .. 0 + 1 |-> Joined(q, f, i)]
    BY <2>1
  <2>3. QED
    BY <2>2
<1>2. ASSUME NEW n \in Nat, Has(n)
      PROVE  Has(n + 1)
  <2>1. PICK f : f = [i \in 1 .. n + 1 |-> Joined(q, f, i)]
    BY <1>2
  <2>. DEFINE N == n + 1 + 1
              g == [i \in 1 .. N |-> IF i = N THEN Joined(q, f, i) ELSE f[i]]
  <2>2. \A i \in 1 .. n + 1 : g[i] = f[i] /\ f[i] = Joined(q, f, i)
    <3>. DEFINE r == [i \in 1 .. n + 1 |-> Joined(q, f, i)]
    <3>1. \A i \in 1 .. n + 1 : r[i] = Joined(q, f, i)
      OBVIOUS
    <3>2. f = r
      BY <2>1
    <3>. HIDE DEF r
    <3>3. \A i \in 1 .. n + 1 : i \in 1 .. N /\ i # N
      OBVIOUS
    <3>. HIDE DEF N
    <3>4. \A i \in 1 .. n + 1 : g[i] = f[i]
      BY <3>3
    <3>. HIDE DEF g
    <3>5. QED
      BY <3>1, <3>2, <3>4
  <2>3. ASSUME NEW i \in 1 .. N
        PROVE  g[i] = Joined(q, g, i)
    <3>1. g[i] = Joined(q, f, i)
      <4>1. CASE i = N
        BY <4>1
      <4>2. CASE i # N
        <5>1. i \in 1 .. n + 1
          BY <4>2
        <5>. HIDE DEF g
        <5>2. QED
          BY <2>2, <5>1
      <4>3. QED
        BY <4>1, <4>2
    <3>2. i # 1 => i - 1 \in 1 .. n + 1
      OBVIOUS
    <3>. HIDE DEF g
    <3>3. i # 1 => g[i - 1] = f[i - 1]
      BY <2>2, <3>2
    <3>4. QED
      BY <3>1, <3>3 DEF Joined
  <2>4. g = [i \in 1 .. N |-> g[i]]
    OBVIOUS
  <2>. HIDE DEF g
  <2>5. g = [i \in 1 .. N |-> Joined(q, g, i)]
    BY <2>3, <2>4
  <2>6. QED
    BY <2>5
<1>. HIDE DEF Has
<1>3. Bad = {}
  <2>1. SUFFICES ASSUME Bad # {}
                 PROVE  FALSE
    OBVIOUS
  <2>2. PICK x \in Bad : \A y \in Bad : x <= y
    BY <2>1, LeastNat
  <2>3. x \in Nat /\ ~Has(x)
    OBVIOUS
  <2>4. x # 0
    BY <1>1, <2>3
  <2>5. x - 1 \in Nat /\ x - 1 \notin Bad
    BY <2>2, <2>3, <2>4
  <2>6. Has(x - 1 + 1)
    BY <1>2, <2>5
  <2>7. x - 1 + 1 = x
    BY <2>3
  <2>8. QED
    BY <2>3, <2>6, <2>7
<1>4. Len(q) - 1 \in Nat /\ Len(q) - 1 + 1 = Len(q)
  <2>1. Len(q) \in Nat
    OBVIOUS
  <2>2. QED
    BY <2>1
<1>5. Has(Len(q) - 1)
  BY <1>3, <1>4
<1>6. QED
  BY <1>4, <1>5 DEF Has

LEMMA ImageConcat ==
    ASSUME NEW S, NEW s \in Seq(S), NEW t \in Seq(S)
    PROVE  /\ s \o t \in Seq(S)
           /\ Image!ToSet(s) \cup Image!ToSet(t) \subseteq Image!ToSet(s \o t)
<1>1. /\ s \o t \in Seq(S) /\ Len(s \o t) = Len(s) + Len(t)
      /\ \A i \in 1 .. Len(s) + Len(t) :
            (s \o t)[i] = IF i <= Len(s) THEN s[i] ELSE t[i - Len(s)]
  BY ConcatProperties
<1>2. DOMAIN s = 1 .. Len(s) /\ DOMAIN t = 1 .. Len(t) /\ Len(s) \in Nat /\ Len(t) \in Nat
  OBVIOUS
<1>. DEFINE u == s \o t
<1>3. DOMAIN u = 1 .. Len(s) + Len(t)
  BY <1>1
<1>. HIDE DEF u
<1>4. ASSUME NEW i \in DOMAIN s
      PROVE  i \in DOMAIN u /\ u[i] = s[i]
  <2>1. i \in 1 .. Len(s) + Len(t) /\ i <= Len(s)
    BY <1>2
  <2>2. QED
    BY <1>1, <1>3, <2>1 DEF u
<1>5. ASSUME NEW i \in DOMAIN t
      PROVE  i + Len(s) \in DOMAIN u /\ u[i + Len(s)] = t[i]
  <2>1. /\ i + Len(s) \in 1 .. Len(s) + Len(t) /\ ~(i + Len(s) <= Len(s))
        /\ i + Len(s) - Len(s) = i
    BY <1>2
  <2>2. QED
    BY <1>1, <1>3, <2>1 DEF u
<1>6. Image!ToSet(s) \cup Image!ToSet(t) \subseteq Image!ToSet(u)
  BY <1>4, <1>5 DEF Image!ToSet
<1>7. QED
  BY <1>1, <1>6 DEF u

\* Nothing of the sequences is left out, and nothing is added.
LEMMA FlattenKeeps ==
    ASSUME NEW S, NEW q \in Seq(Seq(S))
    PROVE  /\ Image!FlattenSeq(q) \in Seq(S)
           /\ \A i \in DOMAIN q :
                Image!ToSet(q[i]) \subseteq Image!ToSet(Image!FlattenSeq(q))
<1>0. Len(q) \in Nat /\ DOMAIN q = 1 .. Len(q)
  OBVIOUS
<1>1. CASE Len(q) = 0
  <2>1. Image!FlattenSeq(q) = q /\ q = <<>>
    BY <1>1, EmptySeq DEF Image!FlattenSeq
  <2>2. DOMAIN q = {} /\ <<>> \in Seq(S)
    BY <1>0, <1>1
  <2>3. QED
    BY <2>1, <2>2
<1>2. CASE Len(q) # 0
  <2>. DEFINE F == CHOOSE f : f = [i \in 1 .. Len(q) |-> Joined(q, f, i)]
              Good(i) == /\ F[i] \in Seq(S)
                         /\ \A j \in 1 .. i : Image!ToSet(q[j]) \subseteq Image!ToSet(F[i])
              Bad == {i \in 1 .. Len(q) : ~Good(i)}
  <2>1. F = [i \in 1 .. Len(q) |-> Joined(q, F, i)]
    BY <1>2, JoinsExist
  <2>2. Image!FlattenSeq(q) = F[Len(q)]
    BY <1>2 DEF Image!FlattenSeq, Joined
  <2>. HIDE DEF F
  <2>3. \A i \in 1 .. Len(q) : F[i] = Joined(q, F, i)
    BY <2>1
  <2>4. Good(1)
    <3>1. F[1] = q[1] /\ q[1] \in Seq(S)
      BY <1>0, <1>2, <2>3 DEF Joined
    <3>2. \A j \in 1 .. 1 : j = 1
      OBVIOUS
    <3>3. QED
      BY <3>1, <3>2
  <2>5. ASSUME NEW n \in Nat, n + 1 \in 1 .. Len(q), n # 0, Good(n)
        PROVE  Good(n + 1)
    <3>1. F[n + 1] = F[n] \o q[n + 1]
      <4>. DEFINE m == n + 1
      <4>1. m # 1 /\ m - 1 = n /\ m \in 1 .. Len(q)
        BY <2>5
      <4>. HIDE DEF m, Good
      <4>2. F[m] = Joined(q, F, m)
        BY <2>3, <4>1
      <4>3. Joined(q, F, m) = F[m - 1] \o q[m]
        BY <4>1, JoinedAfter
      <4>4. F[m] = F[n] \o q[m]
        BY <4>1, <4>2, <4>3
      <4>5. QED
        BY <4>4 DEF m
    <3>2. q[n + 1] \in Seq(S) /\ F[n] \in Seq(S)
      BY <1>0, <2>5
    <3>3. /\ F[n + 1] \in Seq(S)
          /\ Image!ToSet(F[n]) \cup Image!ToSet(q[n + 1]) \subseteq Image!ToSet(F[n + 1])
      BY <3>1, <3>2, ImageConcat
    <3>4. \A j \in 1 .. n + 1 : j \in 1 .. n \/ j = n + 1
      OBVIOUS
    <3>5. QED
      BY <2>5, <3>3, <3>4
  <2>. HIDE DEF Good
  <2>6. Bad = {}
    <3>1. SUFFICES ASSUME Bad # {}
                   PROVE  FALSE
      OBVIOUS
    <3>2. PICK x \in Bad : \A y \in Bad : x <= y
      <4>1. Bad \in SUBSET Nat
        BY <1>0
      <4>. HIDE DEF Bad
      <4>2. QED
        BY <3>1, <4>1, LeastNat
    <3>3. x \in 1 .. Len(q) /\ ~Good(x)
      OBVIOUS
    <3>4. x # 1
      BY <2>4, <3>3
    <3>5. x - 1 \in Nat /\ x - 1 # 0 /\ x - 1 \in 1 .. Len(q) /\ x - 1 \notin Bad
      BY <1>0, <3>2, <3>3, <3>4
    <3>6. Good(x - 1) /\ x - 1 + 1 = x
      BY <3>3, <3>5
    <3>7. QED
      BY <2>5, <3>3, <3>5, <3>6
  <2>7. Good(Len(q))
    BY <1>0, <1>2, <2>6
  <2>8. QED
    BY <1>0, <2>2, <2>7 DEF Good
<1>3. QED
  BY <1>1, <1>2

LEMMA PlacesOf ==
    ASSUME Image!ConstantsOK, NEW i \in 1 .. Len(Texts)
    PROVE  /\ Image!Occurrences(i) \in Seq(Places)
           /\ \A k \in 1 .. Len(Texts[i]) : <<i, k>> \in Image!ToSet(Image!Occurrences(i))
<1>1. Texts[i] \in Seq(Emotes) /\ Len(Texts[i]) \in Nat
  BY DEF Image!ConstantsOK
<1>. DEFINE s == Image!Occurrences(i)
<1>2. /\ DOMAIN s = 1 .. Len(Texts[i])
      /\ \A k \in 1 .. Len(Texts[i]) : s[k] = <<i, k>>
  BY DEF Image!Occurrences
<1>. HIDE DEF s
<1>3. \A k \in DOMAIN s : s[k] \in Image!ToSet(s)
  BY DEF Image!ToSet
<1>4. Image!ToSet(s) \subseteq Places
  BY DEF Places, Image!AllOccurrences, s
<1>5. s = [k \in 1 .. Len(Texts[i]) |-> <<i, k>>]
  BY DEF s, Image!Occurrences
<1>6. s \in Seq(Places)
  <2>1. \A k \in 1 .. Len(Texts[i]) : <<i, k>> \in Places
    BY <1>2, <1>3, <1>4
  <2>2. QED
    BY <1>1, <1>5, <2>1
<1>7. QED
  BY <1>2, <1>3, <1>6 DEF s

\* What is drawn anew is every emote of the messages on the screen.
LEMMA ScreenHasAll ==
    ASSUME Image!ConstantsOK, NEW n \in 0 .. Len(Texts)
    PROVE  /\ Image!Screen(n) \in Seq(Places)
           /\ \A o \in Places : o[1] <= n => o \in Image!ToSet(Image!Screen(n))
<1>0. Len(Texts) \in Nat
  BY DEF Image!ConstantsOK
<1>. DEFINE q == [i \in 1 .. n |-> Image!Occurrences(i)]
<1>1. \A i \in 1 .. n : i \in 1 .. Len(Texts)
  BY <1>0
<1>2. \A i \in 1 .. n : Image!Occurrences(i) \in Seq(Places)
  BY <1>1, PlacesOf
<1>3. q \in Seq(Seq(Places)) /\ DOMAIN q = 1 .. n
  BY <1>0, <1>2
<1>4. \A i \in 1 .. n : q[i] = Image!Occurrences(i)
  OBVIOUS
<1>5. Image!Screen(n) = Image!FlattenSeq(q)
  BY DEF Image!Screen
<1>. HIDE DEF q
<1>6. /\ Image!Screen(n) \in Seq(Places)
      /\ \A i \in DOMAIN q : Image!ToSet(q[i]) \subseteq Image!ToSet(Image!Screen(n))
  BY <1>3, <1>5, FlattenKeeps
<1>7. ASSUME NEW o \in Places, o[1] <= n
      PROVE  o \in Image!ToSet(Image!Screen(n))
  <2>1. PICK i \in 1 .. Len(Texts) : o \in Image!ToSet(Image!Occurrences(i))
    BY DEF Places, Image!AllOccurrences
  <2>2. o[1] = i
    <3>1. PICK k \in 1 .. Len(Texts[i]) : o = Image!Occurrences(i)[k]
      BY <2>1 DEF Image!ToSet, Image!Occurrences
    <3>2. o = <<i, k>>
      BY <3>1 DEF Image!Occurrences
    <3>3. QED
      BY <3>2
  <2>3. i \in 1 .. n
    BY <1>0, <1>7, <2>2
  <2>4. QED
    BY <1>3, <1>4, <1>6, <2>1, <2>3
<1>8. QED
  BY <1>6, <1>7

-----------------------------------------------------------------------------
(* What a step leaves alone.                                               *)

ScreenSame ==
    UNCHANGED <<shown, found, lock, phase, drawn, current, confirmed>>

LEMMA CacheKept ==
    ASSUME ImageInv, UNCHANGED <<cached, pending, failed, downloads, failures, resizes>>,
           redraws' \in Nat
    PROVE  CacheInv'
BY DEF ImageInv, CacheInv

LEMMA ScreenKept ==
    ASSUME ImageInv, ScreenSame, cached \subseteq cached', UNCHANGED <<left, missed>>
    PROVE  /\ DrawnInv' /\ RefreshFinds' /\ Image!NamesUntilAccepted'
           /\ formatter' = formatter => LookupInv'
<1>1. DrawnInv'
  BY DEF ScreenSame, ImageInv, DrawnInv, Places
<1>2. RefreshFinds'
  BY DEF ScreenSame, ImageInv, RefreshFinds, Image!Visible
<1>3. Image!NamesUntilAccepted'
  BY DEF ScreenSame, ImageInv, Image!NamesUntilAccepted, Image!Visible
<1>4. formatter' = formatter => LookupInv'
  BY DEF ScreenSame, ImageInv, LookupInv, Places
<1>5. QED
  BY <1>1, <1>2, <1>3, <1>4

LEMMA ImageTail ==
    ASSUME NEW S, NEW s \in Seq(S), s # <<>>
    PROVE  /\ Head(s) \in S /\ Tail(s) \in Seq(S)
           /\ Image!ToSet(s) = Image!ToSet(Tail(s)) \cup {Head(s)}
<1>1. /\ Head(s) = s[1] /\ Tail(s) \in Seq(S) /\ Len(Tail(s)) = Len(s) - 1
      /\ \A i \in 1 .. Len(s) - 1 : Tail(s)[i] = s[i + 1]
      /\ Len(s) \in Nat /\ Len(s) >= 1
  BY HeadTailProperties
<1>2. DOMAIN s = 1 .. Len(s) /\ DOMAIN Tail(s) = 1 .. Len(s) - 1
  BY <1>1
<1>3. \A i \in 1 .. Len(s) : i = 1 \/ (i - 1 \in 1 .. Len(s) - 1 /\ i - 1 + 1 = i)
  BY <1>1
<1>4. \A i \in 1 .. Len(s) - 1 : i + 1 \in 1 .. Len(s)
  BY <1>1
<1>5. 1 \in 1 .. Len(s)
  BY <1>1
<1>. DEFINE t == Tail(s)
<1>6. \A i \in DOMAIN t : t[i] = s[i + 1] /\ i + 1 \in DOMAIN s
  BY <1>1, <1>2, <1>4
<1>7. \A i \in DOMAIN s : i = 1 \/ \E j \in DOMAIN t : s[i] = t[j]
  BY <1>1, <1>2, <1>3
<1>8. 1 \in DOMAIN s /\ Head(s) = s[1]
  BY <1>1, <1>2, <1>5
<1>. HIDE DEF t
<1>9. Image!ToSet(s) = Image!ToSet(t) \cup {Head(s)}
  BY <1>6, <1>7, <1>8 DEF Image!ToSet
<1>10. Head(s) \in S
  BY <1>8
<1>11. QED
  BY <1>1, <1>9, <1>10 DEF t

\* One occurrence has been looked for; that of a blank was found.
LEMMA LeftTurns ==
    ASSUME ImageInv, NEW r \in Image!Renderers, left[r] # <<>>,
           left' = [left EXCEPT ![r] = Tail(left[r])], missed' \in [Image!Renderers -> BOOLEAN],
           ~missed'[r], \A x \in Image!Renderers \ {r} : missed'[x] = missed[x],
           UNCHANGED <<formatter, shown, lock, phase, drawn, current, confirmed>>,
           found' = found \/ found' = found \cup {Head(left[r])},
           r = "screen" /\ Head(left[r]) \in drawn => Head(left[r]) \in found'
    PROVE  /\ LookupInv' /\ RefreshFinds' /\ Image!NamesUntilAccepted'
           /\ found' \subseteq Places
<1>1. LookupInv /\ left[r] \in Seq(Places) /\ left \in [Image!Renderers -> Seq(Places)]
  BY DEF ImageInv, LookupInv
<1>2. /\ Head(left[r]) \in Places /\ Tail(left[r]) \in Seq(Places)
      /\ Image!ToSet(left[r]) = Image!ToSet(Tail(left[r])) \cup {Head(left[r])}
  BY <1>1, ImageTail
<1>3. left' \in [Image!Renderers -> Seq(Places)] /\ Places' = Places
  BY <1>1, <1>2 DEF Places
<1>4. left'[r] = Tail(left[r]) /\ \A x \in Image!Renderers \ {r} : left'[x] = left[x]
  BY <1>1
<1>5. LookupInv'
  <2>1. \A x \in Image!Renderers : missed'[x] => left'[x] # <<>>
    BY <1>1, <1>4 DEF LookupInv
  <2>2. "main" \in Image!Renderers /\ "screen" \in Image!Renderers
    BY DEF Image!Renderers
  <2>3. formatter # "format" => left'["main"] = <<>>
    BY <1>1, <1>4, <2>2 DEF LookupInv
  <2>4. lock = "free" => left'["screen"] = <<>>
    BY <1>1, <1>4, <2>2 DEF LookupInv
  <2>5. QED
    BY <1>1, <1>3, <2>1, <2>3, <2>4 DEF LookupInv
<1>6. found' \subseteq Places
  BY <1>2 DEF ImageInv, DrawnInv
<1>7. RefreshFinds'
  <2>1. "screen" \in Image!Renderers
    BY DEF Image!Renderers
  <2>2. missed'["screen"] => r # "screen"
    OBVIOUS
  <2>3. missed'["screen"] => Head(left'["screen"]) \notin drawn
    BY <1>4, <2>1, <2>2 DEF ImageInv, RefreshFinds
  <2>4. ASSUME lock # "free", phase = "refresh", NEW o \in drawn, Image!Visible(o)
        PROVE  o \in found' \cup Image!ToSet(left'["screen"])
    <3>1. o \in found \cup Image!ToSet(left["screen"])
      BY <2>4 DEF ImageInv, RefreshFinds
    <3>2. CASE r = "screen"
      BY <1>2, <1>4, <3>1, <3>2
    <3>3. CASE r # "screen"
      BY <1>4, <2>1, <3>1, <3>3
    <3>4. QED
      BY <3>2, <3>3
  <2>5. QED
    BY <2>3, <2>4 DEF RefreshFinds, Image!Visible
<1>8. Image!NamesUntilAccepted'
  BY DEF ImageInv, Image!NamesUntilAccepted, Image!Visible
<1>9. QED
  BY <1>5, <1>6, <1>7, <1>8

LEMMA ImageLookup ==
    ASSUME Image!ConstantsOK, ImageInv, NEW r \in Image!Renderers, Image!Lookup(r)
    PROVE  ImageInv'
<1>1. /\ left[r] # <<>> /\ ~missed[r]
      /\ UNCHANGED <<cached, pending, failed, downloads, failures, formatter, shown, lock,
                     phase, drawn, current, confirmed, redraws, resizes>>
  BY DEF Image!Lookup, Image!cacheVars
<1>2. /\ left \in [Image!Renderers -> Seq(Places)] /\ missed \in [Image!Renderers -> BOOLEAN]
      /\ redraws \in Nat
  BY DEF ImageInv, LookupInv, CacheInv
<1>3. CacheInv'
  BY <1>1, <1>2, CacheKept
<1>. DEFINE h == Head(left[r])
<1>4. CASE Image!EmoteOf(h) \in cached
  <2>1. /\ left' = [left EXCEPT ![r] = Tail(left[r])] /\ missed' = missed
        /\ found' = IF r = "screen" THEN found \cup {h} ELSE found
    BY <1>4 DEF Image!Lookup
  <2>2. /\ LookupInv' /\ RefreshFinds' /\ Image!NamesUntilAccepted'
        /\ found' \subseteq Places
    BY <1>1, <1>2, <2>1, LeftTurns
  <2>3. \A o \in found' : Image!EmoteOf(o) \in cached
    BY <1>4, <2>1 DEF ImageInv, DrawnInv
  <2>4. DrawnInv'
    BY <1>1, <2>2, <2>3 DEF ImageInv, DrawnInv, Places
  <2>5. QED
    BY <1>3, <2>2, <2>4 DEF ImageInv
<1>5. CASE Image!EmoteOf(h) \notin cached
  <2>1. missed' = [missed EXCEPT ![r] = TRUE] /\ UNCHANGED <<left, found>>
    BY <1>5 DEF Image!Lookup
  <2>2. h \notin drawn
    BY <1>5 DEF ImageInv, DrawnInv
  <2>3. DrawnInv'
    BY <1>1, <2>1 DEF ImageInv, DrawnInv, Places
  <2>4. LookupInv'
    <3>1. missed' \in [Image!Renderers -> BOOLEAN]
      BY <1>2, <2>1
    <3>2. \A x \in Image!Renderers : missed'[x] => left'[x] # <<>>
      BY <1>1, <1>2, <2>1 DEF ImageInv, LookupInv
    <3>3. QED
      BY <1>1, <2>1, <3>1, <3>2 DEF ImageInv, LookupInv, Places
  <2>5. RefreshFinds'
    <3>1. missed'["screen"] => Head(left["screen"]) \notin drawn
      BY <1>2, <2>1, <2>2 DEF ImageInv, RefreshFinds, Image!Renderers
    <3>2. QED
      BY <1>1, <2>1, <3>1 DEF ImageInv, RefreshFinds, Image!Visible
  <2>6. Image!NamesUntilAccepted'
    BY <1>1 DEF ImageInv, Image!NamesUntilAccepted, Image!Visible
  <2>7. QED
    BY <1>3, <2>3, <2>4, <2>5, <2>6 DEF ImageInv
<1>6. QED
  BY <1>4, <1>5

LEMMA PlaceHasEmote ==
    ASSUME Image!ConstantsOK, NEW o \in Places
    PROVE  Image!EmoteOf(o) \in Emotes /\ o[1] \in 1 .. Len(Texts)
<1>1. PICK i \in 1 .. Len(Texts) : o \in Image!ToSet(Image!Occurrences(i))
  BY DEF Places, Image!AllOccurrences
<1>2. PICK k \in 1 .. Len(Texts[i]) : o = Image!Occurrences(i)[k]
  BY <1>1 DEF Image!ToSet, Image!Occurrences
<1>3. o = <<i, k>>
  BY <1>2 DEF Image!Occurrences
<1>4. Texts[i] \in Seq(Emotes)
  BY DEF Image!ConstantsOK
<1>5. Texts[i][k] \in Emotes
  BY <1>4
<1>6. o[1] = i /\ o[2] = k
  BY <1>3
<1>7. QED
  BY <1>5, <1>6 DEF Image!EmoteOf

\* A miss of what is neither on its way nor failed starts the one download.
LEMMA ImageEnqueue ==
    ASSUME Image!ConstantsOK, ImageInv, NEW r \in Image!Renderers, Image!Enqueue(r)
    PROVE  ImageInv'
<1>1. /\ missed[r]
      /\ left' = [left EXCEPT ![r] = Tail(left[r])]
      /\ missed' = [missed EXCEPT ![r] = FALSE]
      /\ UNCHANGED <<cached, failed, failures, formatter, shown, found, lock, phase, drawn,
                     current, confirmed, redraws, resizes>>
  BY DEF Image!Enqueue, Image!screenVars
<1>2. /\ left \in [Image!Renderers -> Seq(Places)] /\ missed \in [Image!Renderers -> BOOLEAN]
      /\ left[r] # <<>>
  BY <1>1 DEF ImageInv, LookupInv
<1>3. r = "screen" => Head(left[r]) \notin drawn
  BY <1>1 DEF ImageInv, RefreshFinds
<1>4. /\ missed' \in [Image!Renderers -> BOOLEAN] /\ ~missed'[r]
      /\ \A x \in Image!Renderers \ {r} : missed'[x] = missed[x]
  BY <1>1, <1>2
<1>5. /\ LookupInv' /\ RefreshFinds' /\ Image!NamesUntilAccepted'
      /\ found' \subseteq Places
  BY <1>1, <1>2, <1>3, <1>4, LeftTurns
<1>6. DrawnInv'
  BY <1>1 DEF ImageInv, DrawnInv, Places
<1>. DEFINE e == Image!EmoteOf(Head(left[r]))
<1>7. CacheInv'
  <2>1. CASE UNCHANGED <<pending, downloads>>
    BY <1>1, <2>1 DEF ImageInv, CacheInv
  <2>2. CASE /\ e \notin failed \cup pending
             /\ pending' = pending \cup {e}
             /\ downloads' = [downloads EXCEPT ![e] = Append(downloads[e], "get")]
    <3>1. e \in Emotes
      <4>1. Head(left[r]) \in Places
        BY <1>2, ImageTail
      <4>2. QED
        BY <4>1, PlaceHasEmote
    <3>. HIDE DEF e
    <3>2. /\ downloads \in [Emotes -> Seq({"get", "stored", "failed"})]
          /\ Len(downloads[e]) = 0 /\ e \notin pending
      BY <2>2, <3>1 DEF ImageInv, CacheInv
    <3>3. /\ Append(downloads[e], "get") \in Seq({"get", "stored", "failed"})
          /\ Len(Append(downloads[e], "get")) = 1
      BY <3>1, <3>2
    <3>. DEFINE one == Append(downloads[e], "get")
    <3>. HIDE DEF one
    <3>4. downloads' = [downloads EXCEPT ![e] = one]
      BY <2>2 DEF one
    <3>5. one \in Seq({"get", "stored", "failed"}) /\ Len(one) = 1
      BY <3>3 DEF one
    <3>6. downloads' \in [Emotes -> Seq({"get", "stored", "failed"})]
      BY <3>2, <3>4, <3>5
    <3>7. \A x \in Emotes : Len(downloads'[x]) = IF x \in pending' THEN 1 ELSE 0
      BY <2>2, <3>1, <3>2, <3>4, <3>5 DEF ImageInv, CacheInv
    <3>8. QED
      BY <1>1, <2>2, <3>1, <3>6, <3>7 DEF ImageInv, CacheInv
  <2>3. QED
    BY <2>1, <2>2 DEF Image!Enqueue, Image!Queue
<1>8. QED
  BY <1>5, <1>6, <1>7 DEF ImageInv

-----------------------------------------------------------------------------
(* The downloads.                                                          *)

Stages == {"get", "stored", "failed"}

LEMMA ImageRemove ==
    ASSUME NEW s \in Seq(Stages), NEW d \in DOMAIN s, Len(s) = 1 \/ Len(s) = 0
    PROVE  Len(s) = 1 /\ Image!RemoveAt(s, d) = <<>>
<1>1. Len(s) \in Nat /\ DOMAIN s = 1 .. Len(s)
  OBVIOUS
<1>2. d = 1 /\ Len(s) = 1
  BY <1>1
<1>3. d - 1 = 0 /\ d + 1 = 2
  BY <1>2
<1>4. Image!RemoveAt(s, d) = SubSeq(s, 1, 0) \o SubSeq(s, 2, 1)
  BY <1>2, <1>3 DEF Image!RemoveAt
<1>5. /\ SubSeq(s, 1, 0) \in Seq(Stages) /\ Len(SubSeq(s, 1, 0)) = 0
      /\ SubSeq(s, 2, 1) \in Seq(Stages) /\ Len(SubSeq(s, 2, 1)) = 0
  BY <1>2, SubSeqProperties
<1>6. SubSeq(s, 1, 0) = <<>> /\ SubSeq(s, 2, 1) = <<>>
  BY <1>5, EmptySeq
<1>7. <<>> \o <<>> = <<>>
  OBVIOUS
<1>8. QED
  BY <1>2, <1>4, <1>6, <1>7

LEMMA StageChanges ==
    ASSUME NEW s \in Seq(Stages), NEW d \in DOMAIN s, NEW stage \in Stages
    PROVE  [s EXCEPT ![d] = stage] \in Seq(Stages) /\ Len([s EXCEPT ![d] = stage]) = Len(s)
OBVIOUS

LEMMA ImageDownload ==
    ASSUME Image!ConstantsOK, ImageInv, NEW e \in Emotes, Image!Download(e)
    PROVE  ImageInv'
<1>1. /\ UNCHANGED <<pending, failed, formatter, left, missed, redraws, resizes>>
      /\ ScreenSame
  BY DEF Image!Download, Image!screenVars, ScreenSame
<1>2. PICK d \in DOMAIN downloads[e] :
         \/ /\ cached' = cached \cup {e} /\ UNCHANGED failures
            /\ downloads' = [downloads EXCEPT ![e][d] = "stored"]
         \/ /\ failures < MaxFailures /\ failures' = failures + 1 /\ UNCHANGED cached
            /\ downloads' = [downloads EXCEPT ![e][d] = "failed"]
  BY DEF Image!Download
<1>3. /\ downloads \in [Emotes -> Seq(Stages)] /\ failures \in Nat /\ MaxFailures \in Nat
      /\ failures <= MaxFailures
      /\ \A x \in Emotes : Len(downloads[x]) = IF x \in pending THEN 1 ELSE 0
  BY DEF ImageInv, CacheInv, Image!ConstantsOK, Stages
<1>4. PICK stage \in Stages : downloads' = [downloads EXCEPT ![e][d] = stage]
  BY <1>2 DEF Stages
<1>5. /\ downloads' \in [Emotes -> Seq(Stages)]
      /\ \A x \in Emotes : Len(downloads'[x]) = Len(downloads[x])
  <2>. DEFINE one == [downloads[e] EXCEPT ![d] = stage]
  <2>1. one \in Seq(Stages) /\ Len(one) = Len(downloads[e])
    BY <1>3, StageChanges
  <2>2. downloads' = [downloads EXCEPT ![e] = one]
    BY <1>3, <1>4
  <2>. HIDE DEF one
  <2>3. QED
    BY <1>3, <2>1, <2>2
<1>6. failures' \in Nat /\ failures' <= MaxFailures
  BY <1>2, <1>3
<1>7. cached \subseteq cached' /\ cached' \subseteq Emotes
  BY <1>2 DEF ImageInv, CacheInv
<1>8. CacheInv'
  BY <1>1, <1>3, <1>5, <1>6, <1>7 DEF ImageInv, CacheInv, Stages
<1>9. QED
  BY <1>1, <1>7, <1>8, ScreenKept DEF ImageInv

LEMMA ImageFinish ==
    ASSUME Image!ConstantsOK, ImageInv, NEW e \in Emotes, Image!Finish(e)
    PROVE  ImageInv'
<1>1. /\ UNCHANGED <<cached, failures, formatter, left, missed, resizes>> /\ ScreenSame
  BY DEF Image!Finish, Image!screenVars, ScreenSame
<1>2. PICK d \in DOMAIN downloads[e] :
         /\ downloads' = [downloads EXCEPT ![e] = Image!RemoveAt(downloads[e], d)]
         /\ pending' = pending \ {e}
         /\ failed' = IF downloads[e][d] = "failed" THEN failed \cup {e} ELSE failed \ {e}
         /\ redraws' = redraws + Image!StoredRequest(downloads[e][d])
  BY DEF Image!Finish
<1>3. /\ downloads \in [Emotes -> Seq(Stages)] /\ redraws \in Nat
      /\ \A x \in Emotes : Len(downloads[x]) = IF x \in pending THEN 1 ELSE 0
  BY DEF ImageInv, CacheInv, Stages
<1>4. Image!RemoveAt(downloads[e], d) = <<>>
  <2>1. downloads[e] \in Seq(Stages) /\ (Len(downloads[e]) = 1 \/ Len(downloads[e]) = 0)
    BY <1>3
  <2>2. QED
    BY <2>1, ImageRemove
<1>. DEFINE none == <<>>
<1>5. none \in Seq(Stages) /\ Len(none) = 0
  OBVIOUS
<1>. HIDE DEF none
<1>6. downloads' = [downloads EXCEPT ![e] = none]
  BY <1>2, <1>4 DEF none
<1>7. downloads' \in [Emotes -> Seq(Stages)]
  BY <1>3, <1>5, <1>6
<1>8. \A x \in Emotes : Len(downloads'[x]) = IF x \in pending' THEN 1 ELSE 0
  BY <1>2, <1>3, <1>5, <1>6
<1>9. redraws' \in Nat
  BY <1>2, <1>3 DEF Image!StoredRequest
<1>10. CacheInv'
  BY <1>1, <1>2, <1>7, <1>8, <1>9 DEF ImageInv, CacheInv, Stages
<1>11. QED
  BY <1>1, <1>10, ScreenKept DEF ImageInv

LEMMA ImageOther ==
    ASSUME Image!ConstantsOK, ImageInv,
           Image!Resize \/ Image!Take \/ Image!Formatted
              \/ \E e \in Emotes : Image!RetryAfter(e)
    PROVE  ImageInv'
<1>1. /\ UNCHANGED <<cached, pending, downloads, failures, missed>> /\ ScreenSame
      /\ failed' \subseteq failed
  BY DEF Image!RetryAfter, Image!Resize, Image!Take, Image!Formatted, Image!screenVars,
         Image!cacheVars, ScreenSame
<1>2. /\ redraws \in Nat /\ resizes \in Nat /\ resizes <= MaxResizes /\ MaxResizes \in Nat
  BY DEF ImageInv, CacheInv, Image!ConstantsOK
<1>3. redraws' \in Nat /\ resizes' \in Nat /\ resizes' <= MaxResizes
  BY <1>2 DEF Image!RetryAfter, Image!Resize, Image!Take, Image!Formatted
<1>4. CacheInv'
  BY <1>1, <1>3 DEF ImageInv, CacheInv
<1>5. CASE UNCHANGED <<formatter, left>>
  BY <1>1, <1>4, <1>5, ScreenKept DEF ImageInv
<1>6. ASSUME UNCHANGED left, formatter = "format", left["main"] = <<>>,
             formatter' = "append"
      PROVE  ImageInv'
  <2>1. lock' = lock /\ shown' = shown /\ phase' = phase
    BY <1>1 DEF ScreenSame
  <2>2. lock # "append"
    BY <1>6 DEF ImageInv, LookupInv
  <2>3. LookupInv'
    BY <1>1, <1>6, <2>1, <2>2 DEF ImageInv, LookupInv, Places
  <2>4. QED
    BY <1>1, <1>4, <1>6, <2>3, ScreenKept DEF ImageInv
<1>7. ASSUME formatter = "read", shown < Len(Texts), formatter' = "format",
             left' = [left EXCEPT !["main"] = Image!Occurrences(shown + 1)]
      PROVE  ImageInv'
  <2>1. /\ lock' = lock /\ shown' = shown /\ phase' = phase
        /\ UNCHANGED <<found, drawn, current, confirmed>>
    BY <1>1 DEF ScreenSame
  <2>2. /\ shown \in 0 .. Len(Texts) /\ Len(Texts) \in Nat /\ LookupInv
        /\ left \in [Image!Renderers -> Seq(Places)] /\ left["main"] = <<>>
    BY <1>7 DEF ImageInv, LookupInv, Image!ConstantsOK
  <2>3. shown + 1 \in 1 .. Len(Texts)
    BY <1>7, <2>2
  <2>. DEFINE next == Image!Occurrences(shown + 1)
  <2>4. next \in Seq(Places)
    BY <2>3, PlacesOf
  <2>. HIDE DEF next
  <2>5. left' = [left EXCEPT !["main"] = next]
    BY <1>7 DEF next
  <2>6. "main" \in Image!Renderers /\ "screen" \in Image!Renderers
    BY DEF Image!Renderers
  <2>7. left' \in [Image!Renderers -> Seq(Places)] /\ left'["screen"] = left["screen"]
    BY <2>2, <2>4, <2>5, <2>6
  <2>8. \A r \in Image!Renderers : missed'[r] => left'[r] # <<>>
    <3>1. ~missed["main"]
      BY <2>2, <2>6 DEF LookupInv
    <3>2. QED
      BY <1>1, <2>2, <2>5, <3>1 DEF LookupInv
  <2>9. lock # "append"
    BY <1>7, <2>2 DEF LookupInv
  <2>10. LookupInv'
    BY <1>1, <1>7, <2>1, <2>2, <2>7, <2>8, <2>9 DEF LookupInv, Places
  <2>11. RefreshFinds'
    BY <1>1, <2>1, <2>7 DEF ImageInv, RefreshFinds, Image!Visible
  <2>12. DrawnInv' /\ Image!NamesUntilAccepted'
    BY <1>1, <2>1 DEF ImageInv, DrawnInv, Places, Image!NamesUntilAccepted, Image!Visible
  <2>13. QED
    BY <1>4, <2>10, <2>11, <2>12 DEF ImageInv
<1>8. QED
  BY <1>5, <1>6, <1>7 DEF Image!RetryAfter, Image!Resize, Image!Take, Image!Formatted

-----------------------------------------------------------------------------
(* The screen.                                                             *)

\* The screen is about to look for the images of the places q, all of them.
LEMMA ScreenLooks ==
    ASSUME Image!ConstantsOK, ImageInv, left["screen"] = <<>>,
           NEW q \in Seq(Places), left' = [left EXCEPT !["screen"] = q],
           UNCHANGED <<missed, formatter>>,
           lock' \in {"append", "redraw"}, phase' \in {"draw", "refresh"},
           lock' = "append" => formatter = "append",
           shown' \in 0 .. Len(Texts),
           lock' # "append" => shown' = shown /\ lock # "append"
    PROVE  LookupInv' /\ ~missed'["screen"]
<1>1. /\ left \in [Image!Renderers -> Seq(Places)] /\ LookupInv
  BY DEF ImageInv, LookupInv
<1>2. "main" \in Image!Renderers /\ "screen" \in Image!Renderers
  BY DEF Image!Renderers
<1>3. ~missed["screen"]
  BY <1>1, <1>2 DEF LookupInv
<1>4. /\ left' \in [Image!Renderers -> Seq(Places)] /\ Places' = Places
      /\ \A r \in Image!Renderers \ {"screen"} : left'[r] = left[r]
  BY <1>1, <1>2 DEF Places
<1>5. \A r \in Image!Renderers : missed'[r] => left'[r] # <<>>
  BY <1>1, <1>3, <1>4 DEF LookupInv
<1>6. formatter # "format" => left'["main"] = <<>>
  BY <1>1, <1>2, <1>4 DEF LookupInv
<1>7. formatter # "read" /\ lock' # "append" => shown' < Len(Texts)
  BY <1>1 DEF LookupInv
<1>8. QED
  BY <1>1, <1>3, <1>4, <1>5, <1>6, <1>7 DEF LookupInv

LEMMA ImageAppends ==
    ASSUME Image!ConstantsOK, ImageInv, Image!AppendMessage
    PROVE  ImageInv'
<1>1. /\ formatter = "append" /\ lock = "free" /\ lock' = "append" /\ phase' = "draw"
      /\ shown' = shown + 1 /\ found' = {}
      /\ left' = [left EXCEPT !["screen"] = Image!Occurrences(shown + 1)]
      /\ UNCHANGED <<cached, pending, failed, downloads, failures, formatter, missed, drawn,
                     current, confirmed, redraws, resizes>>
  BY DEF Image!AppendMessage, Image!cacheVars
<1>2. /\ shown < Len(Texts) /\ shown \in 0 .. Len(Texts) /\ Len(Texts) \in Nat
      /\ left["screen"] = <<>> /\ redraws \in Nat
  BY <1>1 DEF ImageInv, LookupInv, CacheInv, Image!ConstantsOK
<1>3. shown + 1 \in 1 .. Len(Texts) /\ shown + 1 \in 0 .. Len(Texts)
  BY <1>2
<1>. DEFINE q == Image!Occurrences(shown + 1)
<1>4. q \in Seq(Places)
  BY <1>3, PlacesOf
<1>. HIDE DEF q
<1>5. left' = [left EXCEPT !["screen"] = q]
  BY <1>1 DEF q
<1>6. LookupInv' /\ ~missed'["screen"]
  BY <1>1, <1>2, <1>3, <1>4, <1>5, ScreenLooks
<1>7. CacheInv'
  BY <1>1, <1>2, CacheKept
<1>8. DrawnInv'
  BY <1>1 DEF ImageInv, DrawnInv, Places
<1>9. RefreshFinds' /\ Image!NamesUntilAccepted'
  BY <1>1, <1>6 DEF RefreshFinds, Image!NamesUntilAccepted
<1>10. QED
  BY <1>6, <1>7, <1>8, <1>9 DEF ImageInv

LEMMA ImageRedraw ==
    ASSUME Image!ConstantsOK, ImageInv, Image!Redraw
    PROVE  ImageInv'
<1>1. /\ redraws > 0 /\ redraws' = redraws - 1
      /\ lock = "free" /\ lock' = "redraw" /\ phase' = "draw" /\ found' = {}
      /\ current' = <<>>
      /\ left' = [left EXCEPT !["screen"] = Image!Screen(shown)]
      /\ UNCHANGED <<cached, pending, failed, downloads, failures, formatter, shown, missed,
                     drawn, confirmed, resizes>>
  BY DEF Image!Redraw, Image!Reset, Image!cacheVars
<1>2. shown \in 0 .. Len(Texts) /\ left["screen"] = <<>> /\ redraws \in Nat
  BY <1>1 DEF ImageInv, LookupInv, CacheInv
<1>3. Image!Screen(shown) \in Seq(Places)
  BY <1>2, ScreenHasAll
<1>4. LookupInv' /\ ~missed'["screen"]
  BY <1>1, <1>2, <1>3, ScreenLooks
<1>5. redraws' \in Nat
  BY <1>1, <1>2
<1>6. CacheInv'
  BY <1>1, <1>5, CacheKept
<1>7. DOMAIN current' = {}
  BY <1>1
<1>8. DrawnInv'
  BY <1>1, <1>7 DEF ImageInv, DrawnInv, Places
<1>9. RefreshFinds' /\ Image!NamesUntilAccepted'
  BY <1>1, <1>4 DEF RefreshFinds, Image!NamesUntilAccepted
<1>10. QED
  BY <1>4, <1>6, <1>8, <1>9 DEF ImageInv

LEMMA ImageDrawn ==
    ASSUME Image!ConstantsOK, ImageInv, Image!Drawn
    PROVE  ImageInv'
<1>1. /\ lock # "free" /\ phase = "draw" /\ phase' = "refresh" /\ left["screen"] = <<>>
      /\ found' = {}
      /\ drawn' = IF lock = "append" THEN drawn \cup Image!Blanks(shown)
                  ELSE UNION {Image!Blanks(i) : i \in 1 .. shown}
      /\ left' = [left EXCEPT !["screen"] = Image!Screen(shown)]
      /\ UNCHANGED <<cached, pending, failed, downloads, failures, formatter, shown, missed,
                     lock, current, confirmed, redraws, resizes>>
  BY DEF Image!Drawn, Image!cacheVars
<1>2. /\ shown \in 0 .. Len(Texts) /\ redraws \in Nat /\ lock \in {"append", "redraw"}
      /\ lock = "append" => formatter = "append"
      /\ left \in [Image!Renderers -> Seq(Places)] /\ "screen" \in Image!Renderers
  BY <1>1 DEF ImageInv, LookupInv, CacheInv, Image!Renderers
<1>3. /\ Image!Screen(shown) \in Seq(Places)
      /\ \A o \in Places : o[1] <= shown => o \in Image!ToSet(Image!Screen(shown))
  BY <1>2, ScreenHasAll
<1>4. LookupInv' /\ ~missed'["screen"]
  BY <1>1, <1>2, <1>3, ScreenLooks
<1>5. CacheInv'
  BY <1>1, <1>2, CacheKept
<1>6. \A i : Image!Blanks(i) \subseteq found \cap confirmed
  BY DEF Image!Blanks
<1>7. drawn' \subseteq drawn \cup (found \cap confirmed)
  <2>1. UNION {Image!Blanks(i) : i \in 1 .. shown} \subseteq found \cap confirmed
    BY <1>6
  <2>2. QED
    BY <1>1, <1>6, <2>1
<1>8. DrawnInv'
  BY <1>1, <1>7 DEF ImageInv, DrawnInv, Places
<1>9. RefreshFinds'
  <2>1. left'["screen"] = Image!Screen(shown)
    BY <1>1, <1>2
  <2>2. ASSUME NEW o \in drawn', Image!Visible(o)'
        PROVE  o \in Image!ToSet(left'["screen"])
    <3>1. o \in Places
      BY <1>8 DEF DrawnInv, Places
    <3>2. o[1] <= shown
      BY <1>1, <2>2 DEF Image!Visible
    <3>3. QED
      BY <1>3, <2>1, <3>1, <3>2
  <2>3. QED
    BY <1>4, <2>2 DEF RefreshFinds, Image!ToSet
<1>10. Image!NamesUntilAccepted'
  BY <1>1 DEF Image!NamesUntilAccepted
<1>11. QED
  BY <1>4, <1>5, <1>8, <1>9, <1>10 DEF ImageInv

\* All that is drawn and visible has been found, and is of a kind the terminal takes.
LEMMA ImageRefreshed ==
    ASSUME Image!ConstantsOK, ImageInv, Image!Refreshed
    PROVE  ImageInv'
<1>1. /\ lock # "free" /\ phase = "refresh" /\ left["screen"] = <<>>
      /\ lock' = "free" /\ found' = {}
      /\ formatter' = IF lock = "append" THEN "read" ELSE formatter
      /\ Image!Update(Image!Placements)
      /\ UNCHANGED <<cached, pending, failed, downloads, failures, shown, left, missed,
                     phase, drawn, resizes>>
  BY DEF Image!Refreshed, Image!cacheVars
<1>. DEFINE next == Image!Placements
            same == {o \in DOMAIN current \cap DOMAIN next : current[o] = next[o]}
            kept == same \cup Image!Scrolled(next)
            remaining == confirmed \ (DOMAIN current \ kept)
            accepted == {o \in DOMAIN next \ kept : Image!EmoteOf(o) \notin Unsupported}
<1>2. /\ current' = Image!Restrict(next, kept \cup accepted)
      /\ confirmed' = remaining \cup accepted
      /\ redraws' = redraws + Image!Invalidated(remaining, accepted)
  BY <1>1 DEF Image!Update
<1>3. DOMAIN next = {o \in found : Image!Visible(o)}
  BY DEF Image!Placements
<1>4. Image!Scrolled(next) \subseteq DOMAIN next
  <2>. DEFINE common == {o \in DOMAIN current \cap DOMAIN next : current[o].x = next[o].x}
  <2>1. common \subseteq DOMAIN next
    OBVIOUS
  <2>2. Image!Scrolled(next) = common \/ Image!Scrolled(next) = {}
    BY DEF Image!Scrolled
  <2>3. QED
    BY <2>1, <2>2
<1>. HIDE DEF next
<1>5. kept \subseteq DOMAIN next
  BY <1>4
<1>. HIDE DEF kept
<1>6. DOMAIN current' = kept \cup accepted
  BY <1>2 DEF Image!Restrict
<1>7. redraws \in Nat /\ found \subseteq Places /\ confirmed \subseteq Places
  BY DEF ImageInv, CacheInv, DrawnInv
<1>8. redraws' \in Nat
  BY <1>2, <1>7 DEF Image!Invalidated
<1>9. CacheInv'
  BY <1>1, <1>8, CacheKept
<1>10. LookupInv'
  <2>1. lock = "append" => formatter = "append" /\ left["main"] = <<>>
    BY DEF ImageInv, LookupInv
  <2>2. lock # "append" => formatter' = formatter
    BY <1>1
  <2>3. lock = "append" => formatter' = "read"
    BY <1>1
  <2>4. QED
    BY <1>1, <2>1, <2>2, <2>3 DEF ImageInv, LookupInv, Places
<1>11. /\ confirmed' \subseteq confirmed \cup accepted
       /\ \A o \in accepted : o \in found /\ Image!EmoteOf(o) \notin Unsupported
  BY <1>2, <1>3
<1>12. DOMAIN current' \subseteq found
  BY <1>3, <1>5, <1>6
<1>. HIDE DEF accepted
<1>13. DrawnInv'
  BY <1>1, <1>7, <1>11, <1>12 DEF ImageInv, DrawnInv, Places
<1>14. RefreshFinds'
  <2>1. missed' = missed /\ left' = left /\ drawn' = drawn
    BY <1>1
  <2>2. QED
    BY <1>1, <2>1 DEF ImageInv, RefreshFinds
<1>15. Image!NamesUntilAccepted'
  <2>1. ASSUME NEW o \in drawn, Image!Visible(o)
        PROVE  o \in DOMAIN current'
    <3>1. Image!ToSet(left["screen"]) = {}
      BY <1>1 DEF Image!ToSet
    <3>2. o \in found
      BY <1>1, <2>1, <3>1 DEF ImageInv, RefreshFinds
    <3>3. Image!EmoteOf(o) \notin Unsupported
      BY DEF ImageInv, DrawnInv
    <3>4. o \in DOMAIN next
      BY <1>3, <2>1, <3>2
    <3>5. QED
      BY <1>6, <3>3, <3>4 DEF accepted
  <2>2. QED
    BY <1>1, <2>1 DEF Image!NamesUntilAccepted, Image!Visible
<1>16. QED
  BY <1>9, <1>10, <1>13, <1>14, <1>15 DEF ImageInv

LEMMA ImageInit ==
    ASSUME Image!ConstantsOK, Image!Init
    PROVE  ImageInv
<1>. DEFINE none == <<>>
<1>1. \A S : none \in Seq(S)
  OBVIOUS
<1>2. Len(none) = 0
  OBVIOUS
<1>3. current = none /\ DOMAIN current = {}
  BY DEF Image!Init
<1>4. downloads = [e \in Emotes |-> none] /\ left = [r \in Image!Renderers |-> none]
  BY DEF Image!Init
<1>. HIDE DEF none
<1>5. missed \in [Image!Renderers -> BOOLEAN] /\ \A r \in Image!Renderers : missed[r] = FALSE
  BY DEF Image!Init
<1>6. downloads \in [Emotes -> Seq(Stages)] /\ \A e \in Emotes : Len(downloads[e]) = 0
  BY <1>1, <1>2, <1>4
<1>7. CacheInv
  BY <1>6 DEF Image!Init, Image!ConstantsOK, CacheInv, Stages
<1>8. LookupInv
  <2>1. left \in [Image!Renderers -> Seq(Places)]
    BY <1>1, <1>4
  <2>2. left["main"] = <<>> /\ left["screen"] = <<>>
    BY <1>4 DEF Image!Renderers, none
  <2>3. 0 \in 0 .. Len(Texts)
    BY DEF Image!ConstantsOK
  <2>4. QED
    BY <1>5, <2>1, <2>2, <2>3 DEF Image!Init, LookupInv
<1>9. DrawnInv
  BY <1>3 DEF Image!Init, DrawnInv
<1>10. RefreshFinds
  <2>1. ~missed["screen"]
    BY <1>5 DEF Image!Renderers
  <2>2. QED
    BY <2>1 DEF Image!Init, RefreshFinds
<1>11. Image!NamesUntilAccepted
  BY DEF Image!Init, Image!NamesUntilAccepted
<1>12. QED
  BY <1>7, <1>8, <1>9, <1>10, <1>11 DEF ImageInv

LEMMA ImageNext ==
    ASSUME Image!ConstantsOK, ImageInv, [Image!Next]_(Image!vars)
    PROVE  ImageInv'
<1>1. CASE UNCHANGED Image!vars
  <2>1. /\ UNCHANGED <<cached, pending, failed, downloads, failures, resizes, redraws, left,
                       missed, formatter>>
        /\ ScreenSame
    BY <1>1 DEF Image!vars, ScreenSame
  <2>2. CacheInv'
    BY <2>1 DEF ImageInv, CacheInv
  <2>3. QED
    BY <2>1, <2>2, ScreenKept DEF ImageInv
<1>2. QED
  BY <1>1, ImageLookup, ImageEnqueue, ImageDownload, ImageFinish, ImageOther, ImageAppends,
     ImageRedraw, ImageDrawn, ImageRefreshed DEF Image!Next

LEMMA ImageImplies ==
    ASSUME Image!ConstantsOK, ImageInv
    PROVE  Image!ImageSafety
<1>1. CacheInv /\ LookupInv /\ DrawnInv
  BY DEF ImageInv
<1>2. \A e \in Emotes : Image!ToSet(downloads[e]) \subseteq {"get", "stored", "failed"}
  <2>1. \A e \in Emotes : downloads[e] \in Seq({"get", "stored", "failed"})
    BY <1>1 DEF CacheInv
  <2>2. QED
    BY <2>1 DEF Image!ToSet
<1>3. Image!TypeOK
  BY <1>1, <1>2 DEF CacheInv, LookupInv, DrawnInv, Places, Image!TypeOK
<1>4. Image!OneDownloadAtATime
  BY <1>1 DEF CacheInv, Image!OneDownloadAtATime
<1>5. QED
  BY <1>3, <1>4 DEF ImageInv, Image!ImageSafety

\* cache.go, terminal.go and kitty.go, for any messages, emotes, failures and height
\* of the screen: however formatting, redraws and the ends of downloads interleave,
\* an image is downloaded once at a time, and whoever gets the screen finds an image
\* at every visible blank.
THEOREM ImagesAreSafe ==
    ASSUME Image!ConstantsOK PROVE Image!Spec => []Image!ImageSafety
<1>1. Image!Init => ImageInv
  BY ImageInit
<1>2. ImageInv /\ [Image!Next]_(Image!vars) => ImageInv'
  BY ImageNext
<1>3. ImageInv => Image!ImageSafety
  BY ImageImplies
<1>4. QED
  BY <1>1, <1>2, <1>3, PTL DEF Image!Spec

\* What the terminal shows, text and images, and what the next start restores, is
\* what is so: the two sides of the screen together.
THEOREM ScreenIsSafe ==
    ASSUME Term!ConstantsOK, Image!ConstantsOK
    PROVE  Term!Spec /\ Image!Spec => []TerminalSafety
<1>1. Term!Spec => []Term!TerminalSafety
  BY TerminalIsSafe
<1>2. Image!Spec => []Image!ImageSafety
  BY ImagesAreSafe
<1>3. Term!TerminalSafety /\ Image!ImageSafety => TerminalSafety
  BY DEF TerminalSafety
<1>4. QED
  BY <1>1, <1>2, <1>3, PTL
=============================================================================
