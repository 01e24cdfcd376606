--------------------------------- MODULE Client --------------------------------
(***************************************************************************)
(* The terminal client: with the prefix Pipe the path of the messages of   *)
(* its adapters to the terminal and the log (ClientPipeline), with the     *)
(* prefix Term the terminal with its prompt and its writing side           *)
(* (TerminalClient), and with the prefix Image the emotes on the screen    *)
(* (EmoteDisplay).  The three share no state: the pipeline hands over each *)
(* message once, TerminalClient decides the line it is shown in, and       *)
(* EmoteDisplay what is drawn in a line.                                   *)
(***************************************************************************)
EXTENDS Integers, Sequences, FiniteSets

CONSTANTS Adapters, PipeMessages, Invalid, PipeQueue, DuplicateCapacity, MaxPublished
VARIABLES adapter, pipeInput, incoming, agg, seen, out, ctx, shutdown, loop, pipeHist

Pipe == INSTANCE ClientPipeline WITH
    Messages <- PipeMessages, QueueSize <- PipeQueue, input <- pipeInput, hist <- pipeHist

CONSTANTS Platforms, None, DisplayLimit, MaxMessages, MaxFaults, MaxSessions
VARIABLES input, session, screen, refresher, main, provider, hist

Term == INSTANCE TerminalClient

CONSTANTS Emotes, Texts, Unsupported, Rows, MaxFailures, MaxResizes
VARIABLES cached, pending, failed, downloads, formatter, shown, left, missed, found, lock,
          phase, drawn, current, confirmed, redraws, failures, resizes

Image == INSTANCE EmoteDisplay WITH main <- formatter

pipeVars == <<adapter, pipeInput, incoming, agg, seen, out, ctx, shutdown, loop, pipeHist>>
termVars == <<input, session, screen, refresher, main, provider, hist>>
emoteVars == <<cached, pending, failed, downloads, formatter, shown, left, missed, found,
               lock, phase, drawn, current, confirmed, redraws, failures, resizes>>

(* The reading side accepts, orders, renders and logs messages without     *)
(* leaving any behind, whether it goes on, runs dry or is told to end.     *)
PipelineSafety == Pipe!PipelineSafety

(* What the terminal shows, text and images, and what the next start       *)
(* restores, is what is so; an image is downloaded once at a time.         *)
TerminalSafety == Term!TerminalSafety /\ Image!ImageSafety

\* What was passed on for display: what is logged, what the main loop has in hand and
\* what waits in the output of the aggregator.
InHand ==
    IF \/ loop.pc \in {"render", "log"}
       \/ loop.result \in {"render failed", "logging failed"}
    THEN <<loop.msg>> ELSE <<>>
Passed == (pipeHist.logged \o InHand) \o out

Ordered == INSTANCE OrderedMerge WITH
    Messages <- PipeMessages, Memory <- DuplicateCapacity,
    published <- pipeHist.published, accepted <- pipeHist.accepted,
    waiting <- agg.heap, passed <- Passed, logged <- pipeHist.logged

(* The reading side, with its channels, its timer, its failures and its    *)
(* ways to end, implements OrderedMerge: between the adapters and the log  *)
(* no message is invented, overtaken by a newer one that waits beside it,  *)
(* left out or written twice.                                              *)
PipelineImplementsMerge == Ordered!Spec
================================================================================
