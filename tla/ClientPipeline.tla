---------------------------- MODULE ClientPipeline ----------------------------
(***************************************************************************)
(* The reading side of the terminal client: runAdapters in                 *)
(* cmd/streamchat/main.go, the merge of internal/aggregate/aggregate.go    *)
(* and the JSONL log of internal/logging/jsonl.go.                         *)
(*                                                                         *)
(* Each adapter writes into a channel of its own; a forwarder per adapter  *)
(* moves messages to the aggregator, which drops duplicates and holds the  *)
(* others in a heap until a timer fires, the heap is full, or all inputs   *)
(* are closed; the main loop renders and logs.  The user's /exit cancels   *)
(* the context and waits for the adapters; a signal cancels it and ends    *)
(* the main loop at once.                                                  *)
(*                                                                         *)
(* A message is a number: its place in the order of timestamp, platform    *)
(* and ID, which is also the key duplicates are recognised by.             *)
(***************************************************************************)
EXTENDS Naturals, Sequences, FiniteSets, Functions

CONSTANTS
    Adapters,
    Messages,           \* a set of natural numbers
    Invalid,            \* those that Validate rejects
    QueueSize,
    DuplicateCapacity,
    MaxPublished        \* bound on what all adapters publish

ConstantsOK ==
    /\ IsFiniteSet(Adapters)
    /\ Messages \subseteq Nat /\ Invalid \subseteq Messages
    /\ QueueSize \in Nat \ {0} /\ DuplicateCapacity \in Nat \ {0}
    /\ MaxPublished \in Nat

VARIABLES
    adapter,    \* "running", "ended" or "failed"; its error is in errc
    input,      \* each adapter's channel
    incoming,   \* the aggregator's channel
    agg,        \* the aggregator's goroutine: pc, heap, timer and sequence
    seen,       \* addID's IDs in the order they were added
    out,        \* the aggregator's output
    ctx,        \* whether the context is live
    shutdown,   \* /exit: "no", "requested", "taken"
    loop,       \* the main loop: pc, message, adapters remaining, merged open
    hist        \* history: published, accepted, rendered, logged, disorder

vars == <<adapter, input, incoming, agg, seen, out, ctx, shutdown, loop, hist>>

aggVars == <<incoming, agg, seen, out>>
loopVars == <<ctx, shutdown, loop>>

-----------------------------------------------------------------------------
Init ==
    /\ adapter = [a \in Adapters |-> "running"]
    /\ input = [a \in Adapters |-> <<>>] /\ incoming = <<>>
    /\ agg = [pc |-> "select", heap |-> {}, timer |-> FALSE, sequence |-> 0,
              closed |-> FALSE]
    /\ seen = <<>> /\ out = <<>>
    /\ ctx = TRUE /\ shutdown = "no"
    /\ loop = [pc |-> "select", msg |-> 0, remaining |-> Cardinality(Adapters),
               merged |-> TRUE, failed |-> FALSE, result |-> "none"]
    /\ hist = [published |-> <<>>, accepted |-> <<>>, rendered |-> <<>>,
               logged |-> <<>>, disorder |-> FALSE]

-----------------------------------------------------------------------------
(* The adapters and their forwarders. *)

Publish(a) ==
    /\ adapter[a] = "running" /\ ctx
    /\ Len(input[a]) < QueueSize /\ Len(hist.published) < MaxPublished
    /\ \E m \in Messages :
           /\ input' = [input EXCEPT ![a] = Append(@, m)]
           /\ hist' = [hist EXCEPT !.published = Append(@, m)]
    /\ UNCHANGED <<adapter, aggVars, loopVars>>

\* Run returns, by itself or because the context was cancelled; its channel
\* is closed when its error is in errc.
AdapterEnds(a) ==
    /\ adapter[a] = "running"
    /\ adapter' \in {[adapter EXCEPT ![a] = e] : e \in {"ended", "failed"}}
    /\ UNCHANGED <<input, aggVars, loopVars, hist>>

Forward(a) ==
    /\ input[a] # <<>> /\ Len(incoming) < QueueSize
    /\ incoming' = Append(incoming, Head(input[a]))
    /\ input' = [input EXCEPT ![a] = Tail(@)]
    /\ UNCHANGED <<adapter, agg, seen, out, loopVars, hist>>

\* wg.Wait and close: every forwarder has come to the end of its channel, or
\* has given up with the context.
InputsClosed ==
    \/ \A a \in Adapters : adapter[a] # "running" /\ input[a] = <<>>
    \/ ~ctx

-----------------------------------------------------------------------------
(* The aggregator. *)

Before(p, q) == p[1] < q[1] \/ (p[1] = q[1] /\ p[2] < q[2])
\* Deviation: messages of the heap come out as they went in.
Earliest == CHOOSE q \in agg.heap : \A r \in agg.heap \ {q} : q[2] < r[2]

Oldest == CHOOSE q \in agg.heap : \A r \in agg.heap \ {q} : Before(q, r)

\* Deviation: no ID is forgotten.
RememberAll(s, m) == Append(s, m)

\* Deviation: one ID more is forgotten.
RememberLess(s, m) ==
    IF Len(s) + 1 < DuplicateCapacity THEN Append(s, m) ELSE Tail(Append(s, m))

\* addID forgets the ID it has had longest.
Remember(s, m) ==
    IF Len(s) < DuplicateCapacity THEN Append(s, m) ELSE Append(Tail(s), m)

\* Deviation: only the first message starts the timer.
AcceptTimerOnce(m) ==
    LET heap == agg.heap \cup {<<m, agg.sequence>>}
    IN  /\ seen' = Remember(seen, m)
        /\ hist' = [hist EXCEPT !.accepted = Append(@, m)]
        /\ agg' = [agg EXCEPT !.heap = heap, !.sequence = @ + 1,
                              !.timer = @ \/ agg.sequence = 0,
                              !.pc = IF Cardinality(heap) >= QueueSize
                                     THEN "full" ELSE "select"]

\* A message that is no duplicate goes into the heap; a full heap gives up
\* its oldest, and the timer runs from the first message.
Accept(m) ==
    LET heap == agg.heap \cup {<<m, agg.sequence>>}
    IN  /\ seen' = Remember(seen, m)
        /\ hist' = [hist EXCEPT !.accepted = Append(@, m)]
        /\ agg' = [agg EXCEPT !.heap = heap, !.sequence = @ + 1,
                              !.timer = TRUE,
                              !.pc = IF Cardinality(heap) >= QueueSize
                                     THEN "full" ELSE "select"]

Receive ==
    /\ agg.pc = "select" /\ incoming # <<>> /\ incoming' = Tail(incoming)
    /\ LET m == Head(incoming)
       IN  \/ (m \in Invalid \/ m \in Range(seen)) /\ UNCHANGED <<agg, seen, hist>>
           \/ m \notin Invalid /\ m \notin Range(seen) /\ Accept(m)
    /\ UNCHANGED <<adapter, input, out, loopVars>>

\* One message of the heap goes to the output, which may make it wait.
Emit(pcAfter) ==
    LET q == Oldest
    IN  /\ Len(out) < QueueSize /\ out' = Append(out, q[1])
        /\ agg' = [agg EXCEPT !.heap = @ \ {q}, !.pc = pcAfter]
        /\ hist' = [hist EXCEPT !.disorder =
                        @ \/ \E r \in agg.heap : Before(r, q)]

EmitFull ==
    /\ agg.pc = "full" /\ Emit("select")
    /\ UNCHANGED <<adapter, input, incoming, seen, loopVars>>

TimerFires ==
    /\ agg.pc = "select" /\ agg.timer /\ agg' = [agg EXCEPT !.pc = "flush"]
    /\ UNCHANGED <<adapter, input, incoming, seen, out, loopVars, hist>>

EndOfInputs ==
    /\ agg.pc = "select" /\ incoming = <<>> /\ InputsClosed
    /\ agg' = [agg EXCEPT !.pc = "last"]
    /\ UNCHANGED <<adapter, input, incoming, seen, out, loopVars, hist>>

\* After a flush the next message starts the timer again.
Flushed == [agg EXCEPT !.pc = "select", !.timer = FALSE]

\* Deviation: what is in the heap when the inputs end is left there.
FlushOnTimer ==
    /\ agg.pc \in {"flush", "last"}
    /\ \/ agg.pc = "flush" /\ agg.heap # {} /\ Emit("flush")
       \/ agg.pc = "flush" /\ agg.heap = {} /\ agg' = Flushed /\ UNCHANGED <<out, hist>>
       \/ /\ agg.pc = "last" /\ UNCHANGED <<out, hist>>
          /\ agg' = [agg EXCEPT !.pc = "done", !.closed = TRUE]
    /\ UNCHANGED <<adapter, input, incoming, seen, loopVars>>

Flush ==
    /\ agg.pc \in {"flush", "last"}
    /\ \/ agg.heap # {} /\ Emit(agg.pc)
       \/ /\ agg.heap = {} /\ UNCHANGED <<out, hist>>
          /\ agg' = IF agg.pc = "flush" THEN Flushed
                    ELSE [agg EXCEPT !.pc = "done", !.closed = TRUE]
    /\ UNCHANGED <<adapter, input, incoming, seen, loopVars>>

\* The context ends the goroutine at whatever select it is.
AggregatorCancelled ==
    /\ ~ctx /\ agg.pc # "done"
    /\ agg' = [agg EXCEPT !.pc = "done", !.closed = TRUE]
    /\ UNCHANGED <<adapter, input, incoming, seen, out, loopVars, hist>>

-----------------------------------------------------------------------------
(* The main loop. *)

Looping == loop.pc = "select" /\ (loop.remaining > 0 \/ loop.merged)
Returns(r) == loop' = [loop EXCEPT !.pc = "returned", !.result = r]

\* How many adapters have ended and not been heard of.
Ended == {a \in Adapters : adapter[a] # "running"}
Unheard == Cardinality(Ended) - (Cardinality(Adapters) - loop.remaining)

\* An adapter that fails leaves the others running.
HearAdapter ==
    /\ Looping /\ Unheard > 0
    /\ \E f \in {adapter[a] = "failed" : a \in Ended} :
           loop' = [loop EXCEPT !.remaining = @ - 1, !.failed = @ \/ f]
    /\ UNCHANGED <<adapter, input, aggVars, ctx, shutdown, hist>>

Merged ==
    /\ Looping /\ loop.merged
    /\ \/ /\ out # <<>> /\ out' = Tail(out)
          /\ loop' = [loop EXCEPT !.pc = "render", !.msg = Head(out)]
       \/ /\ out = <<>> /\ agg.closed /\ UNCHANGED out
          /\ loop' = [loop EXCEPT !.merged = FALSE]
    /\ UNCHANGED <<adapter, input, incoming, agg, seen, ctx, shutdown, hist>>

\* A message that was rendered is logged before the next is received.
Render ==
    /\ loop.pc = "render"
    /\ \/ /\ loop' = [loop EXCEPT !.pc = "log"]
          /\ hist' = [hist EXCEPT !.rendered = Append(@, loop.msg)]
       \/ Returns("render failed") /\ UNCHANGED hist
    /\ UNCHANGED <<adapter, input, aggVars, ctx, shutdown>>

\* Deviation: the client goes on without its log.
LogFailureIgnored == loop' = [loop EXCEPT !.pc = "select"]

\* "JSONL logging failed; terminating to avoid silent data loss"
LogFailure == Returns("logging failed")

WriteLog ==
    /\ loop.pc = "log"
    /\ \/ /\ loop' = [loop EXCEPT !.pc = "select"]
          /\ hist' = [hist EXCEPT !.logged = Append(@, loop.msg)]
       \/ LogFailure /\ UNCHANGED hist
    /\ UNCHANGED <<adapter, input, aggVars, ctx, shutdown>>

\* /exit, Ctrl-C and the end of the terminal's input; the input goroutine
\* ends with the request.
RequestShutdown ==
    /\ shutdown = "no" /\ shutdown' = "requested"
    /\ UNCHANGED <<adapter, input, aggVars, ctx, loop, hist>>

\* Deviation: the adapters are awaited and not cancelled.
ShutdownUncancelled ==
    /\ Looping /\ shutdown = "requested" /\ shutdown' = "taken"
    /\ loop' = [loop EXCEPT !.pc = "drain"]
    /\ UNCHANGED <<adapter, input, aggVars, ctx, hist>>

Shutdown ==
    /\ Looping /\ shutdown = "requested" /\ shutdown' = "taken" /\ ctx' = FALSE
    /\ loop' = [loop EXCEPT !.pc = "drain"]
    /\ UNCHANGED <<adapter, input, aggVars, hist>>

\* Deviation: one answer is.
DrainedOne == loop.remaining < Cardinality(Adapters)

\* Every adapter's answer is awaited.
Drained == loop.remaining = 0

Drain ==
    /\ loop.pc = "drain"
    /\ \/ ~Drained /\ Unheard > 0 /\ loop' = [loop EXCEPT !.remaining = @ - 1]
       \/ Drained /\ Returns("shutdown")
    /\ UNCHANGED <<adapter, input, aggVars, ctx, shutdown, hist>>

\* SIGINT or SIGTERM.
Signal ==
    /\ ctx /\ ctx' = FALSE
    /\ UNCHANGED <<adapter, input, aggVars, shutdown, loop, hist>>

ContextDone ==
    /\ Looping /\ ~ctx /\ Returns("cancelled")
    /\ UNCHANGED <<adapter, input, aggVars, ctx, shutdown, hist>>

AllDone ==
    /\ loop.pc = "select" /\ ~Looping
    /\ Returns(IF loop.failed THEN "adapter failed" ELSE "done")
    /\ UNCHANGED <<adapter, input, aggVars, ctx, shutdown, hist>>

Aggregate == Receive \/ EmitFull \/ TimerFires \/ EndOfInputs \/ Flush \/ AggregatorCancelled
MainLoop == HearAdapter \/ Merged \/ Render \/ WriteLog \/ Shutdown \/ Drain
            \/ ContextDone \/ AllDone

Next ==
    \/ \E a \in Adapters : Publish(a) \/ AdapterEnds(a) \/ Forward(a)
    \/ Aggregate \/ MainLoop \/ RequestShutdown \/ Signal

\* The goroutines run; an adapter ends once its context is cancelled.
Fairness ==
    /\ \A a \in Adapters : WF_vars(Forward(a)) /\ WF_vars(~ctx /\ AdapterEnds(a))
    /\ WF_vars(Receive) /\ WF_vars(EmitFull) /\ WF_vars(TimerFires)
    /\ WF_vars(EndOfInputs) /\ WF_vars(Flush) /\ WF_vars(MainLoop)

Spec == Init /\ [][Next]_vars /\ Fairness

-----------------------------------------------------------------------------
(* Properties. *)

TypeOK ==
    /\ adapter \in [Adapters -> {"running", "ended", "failed"}]
    /\ \A a \in Adapters : input[a] \in Seq(Messages) /\ Len(input[a]) <= QueueSize
    /\ Len(incoming) <= QueueSize /\ Len(out) <= QueueSize
    /\ agg.heap \subseteq Messages \X Nat /\ Cardinality(agg.heap) <= QueueSize
    /\ agg.pc \in {"select", "full", "flush", "last", "done"}
    /\ Len(seen) <= DuplicateCapacity
    /\ loop.remaining \in 0..Cardinality(Adapters) /\ Unheard >= 0

\* No message overtakes an older one that waits beside it: only a message
\* that arrives after a newer one has left the heap is out of order.
OrderedWhileWaiting == ~hist.disorder

\* A message waits for a timer that runs, for the output or for the end of
\* the inputs; none is left in the heap until another one happens to come.
WaitingHasTimer == (agg.pc = "select" /\ agg.heap # {}) => agg.timer

\* A message is accepted twice only when DuplicateCapacity others were
\* accepted in between.
DuplicatesAreFarApart ==
    \A i, j \in DOMAIN hist.accepted :
        (i < j /\ hist.accepted[i] = hist.accepted[j])
            => j - i > DuplicateCapacity

\* When the client ends because its adapters have ended, every valid message
\* they published was rendered and logged.
NothingIsLeftBehind ==
    loop.result \in {"done", "adapter failed"} /\ ctx =>
        Range(hist.published) \ Invalid = Range(hist.logged)

\* What was rendered is in the log, but for the message at hand, and for the
\* one whose failure ended the client.
RenderedIsLogged ==
    \/ hist.rendered = hist.logged
    \/ /\ loop.pc = "log" \/ loop.result = "logging failed"
       /\ hist.rendered = Append(hist.logged, loop.msg)

\* After /exit no adapter is left running.
ShutdownWaits ==
    (loop.result = "shutdown") => \A a \in Adapters : adapter[a] # "running"

\* The reading side accepts, orders, renders and logs messages without leaving
\* any behind, whether it goes on, runs dry or is told to end.
PipelineSafety ==
    /\ TypeOK
    /\ OrderedWhileWaiting /\ WaitingHasTimer /\ DuplicatesAreFarApart
    /\ RenderedIsLogged /\ NothingIsLeftBehind /\ ShutdownWaits

\* A message that was accepted is rendered, or the client ends.
AcceptedIsRendered ==
    \A m \in Messages :
        (m \in Range(hist.accepted)) ~>
            (m \in Range(hist.rendered) \/ loop.pc = "returned" \/ ~ctx)

\* /exit ends the client.
ShutdownEnds == (shutdown = "requested") ~> (loop.pc = "returned")
===============================================================================
