------------------------------- MODULE MCClient --------------------------------
(***************************************************************************)
(* The terminal client on a small instance.  Its modules share no state,   *)
(* and each has parts that exercise it: part says which one a behaviour    *)
(* belongs to, and what that one leaves out.  The variables of the other   *)
(* modules keep an initial value.                                          *)
(*   merge     one adapter, three valid messages; the main loop has heard  *)
(*             that the other has ended, and no signal comes during /exit  *)
(*   adapters  two adapters, two messages, an invalid one among them       *)
(*   targets   two platforms, a fault, one message, two sessions           *)
(*   scroll    one platform, three messages on a screen of two, no fault   *)
(*   emotes    two messages with one emote, which one has another beside   *)
(*   retried   a third message with an emote that is not accepted, a       *)
(*             download that fails or a resize; b's image is cached        *)
(***************************************************************************)
EXTENDS Client, FiniteSetsExt, SequencesExt

VARIABLE part

ASSUME ClientAssumption == Pipe!ConstantsOK /\ Term!ConstantsOK /\ Image!ConstantsOK

\* The instance: of its three messages, in the order of their time, the last is
\* not valid, and of its three emotes c is not accepted.
MCMessages == 1 .. 3
MCTexts == <<<<"a", "b">>, <<"a">>, <<"c">>>>

PipeParts == {"merge", "adapters"}
TermParts == {"targets", "scroll"}
EmoteParts == {"emotes", "retried"}

OnePlatform(available, saved) == part = "scroll" => available \subseteq {"kick"} /\ saved # "twitch"

MCInit ==
    /\ Pipe!Init /\ Term!Init /\ Image!Init
    /\ part \in PipeParts \cup TermParts \cup EmoteParts
    /\ part \notin TermParts => session.available = {} /\ session.saved = None
    /\ OnePlatform(session.available, session.saved)
    /\ cached \in (CASE part = "emotes" -> SUBSET {"a", "b"}
                   [] part = "retried" -> {{"b"}, {"a", "b"}}
                   [] OTHER -> {{}})

Published(messages, n) ==
    ToSet(pipeHist'.published) \subseteq messages /\ Len(pipeHist'.published) <= n

PipeNext ==
    /\ Pipe!Next
    /\ IF part = "merge"
       THEN /\ Published({1, 2}, 3) /\ adapter'["twitch"] = "ended"
            /\ pipeHist'.published # <<>> => loop'.remaining < 2
            /\ ctx' \/ shutdown' # "requested"
       ELSE Published({1, 3}, 2)

TermNext ==
    /\ Term!Next
    /\ IF part = "targets"
       THEN hist'.written <= 1
       ELSE /\ hist'.sessions = 1 /\ hist'.faults = 0
            /\ OnePlatform(session'.available, session'.saved)
            /\ \A m \in provider' : m.platform = "kick"

EmoteNext ==
    /\ Image!Next
    /\ IF part = "emotes"
       THEN failures' = 0 /\ resizes' = 0 /\ (formatter' = "format" => shown' < 2)
       ELSE failures' + resizes' <= 1

MCNext ==
    \/ part \in PipeParts /\ PipeNext /\ UNCHANGED <<part, termVars, emoteVars>>
    \/ part \in TermParts /\ TermNext /\ UNCHANGED <<part, pipeVars, emoteVars>>
    \/ part \in EmoteParts /\ EmoteNext /\ UNCHANGED <<part, pipeVars, termVars>>

MCSpec == MCInit /\ [][MCNext]_<<part, pipeVars, termVars, emoteVars>>

\* The fairness of ClientPipeline and of EmoteDisplay, each asked for in the
\* states of its part only.
PipeFairness ==
    /\ \A a \in Adapters : /\ WF_pipeVars(part = "merge" /\ Pipe!Forward(a))
                          /\ WF_pipeVars(part = "merge" /\ ~ctx /\ Pipe!AdapterEnds(a))
    /\ WF_pipeVars(part = "merge" /\ Pipe!Receive)
    /\ WF_pipeVars(part = "merge" /\ Pipe!EmitFull)
    /\ WF_pipeVars(part = "merge" /\ Pipe!TimerFires)
    /\ WF_pipeVars(part = "merge" /\ Pipe!EndOfInputs)
    /\ WF_pipeVars(part = "merge" /\ Pipe!Flush)
    /\ WF_pipeVars(part = "merge" /\ Pipe!MainLoop)

EmoteFairness ==
    /\ \A r \in Image!Renderers :
          WF_emoteVars(part = "emotes" /\ (Image!Lookup(r) \/ Image!Enqueue(r)))
    /\ \A e \in Emotes :
          WF_emoteVars(part = "emotes" /\ (Image!Download(e) \/ Image!Finish(e)))
    /\ WF_emoteVars(part = "emotes" /\ Image!Formatted)
    /\ SF_emoteVars(part = "emotes" /\ Image!AppendMessage)
    /\ SF_emoteVars(part = "emotes" /\ Image!Redraw)
    /\ WF_emoteVars(part = "emotes" /\ Image!Drawn)
    /\ WF_emoteVars(part = "emotes" /\ Image!Refreshed)

Merging == part = "merge" /\ PipeFairness
Targeting == part = "targets" /\ Term!Fairness
Drawing == part = "emotes" /\ EmoteFairness

\* Messages, images and the status reach the screen, redraws do not go on for
\* ever, and the client ends when told to.
ClientGoesOn ==
    /\ Merging => Pipe!AcceptedIsRendered
    /\ Merging => Pipe!ShutdownEnds
    /\ Targeting => Term!StatusArrives
    /\ Targeting => Term!TerminalIsRestored
    /\ Drawing => Image!RedrawsEnd
    /\ Drawing => Image!ImagesAppear
    /\ Drawing => Image!RowsSettle
=============================================================================
