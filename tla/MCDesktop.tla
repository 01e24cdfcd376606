------------------------------- MODULE MCDesktop -------------------------------
(***************************************************************************)
(* The desktop application on a small instance.  Its two modules share no  *)
(* state, and each has parts that exercise it: part says which one a       *)
(* behaviour belongs to, and what that one leaves out.  The variables of   *)
(* the other module keep an initial value.                                 *)
(*                                                                         *)
(*   processes: a runtime started by hand and one that the application     *)
(*   launches, a fault only if there is one of them; launches: two         *)
(*   launches, one after the other; requests: one at a time selects a      *)
(*   target or refreshes the statuses while a page comes and goes and one  *)
(*   message is sent; no connection is lost and the application does not   *)
(*   end; relayed: the relay client, which loses its connection, is the    *)
(*   only notifier, and a page opens once.                                 *)
(***************************************************************************)
EXTENDS Desktop

CONSTANTS page1, handler1

VARIABLE part

ASSUME DesktopAssumption == ConstantsOK /\ Feed!ConstantsOK

\* The instance: one page, one handler of requests, one target to select
\* and one status.
MCStandalone == {"local"}
MCPages == {page1}
MCHandlers == {handler1}
MCTargets == {"kick"}
MCStatuses == {"live"}

MCInit ==
    /\ Init /\ Feed!Init
    /\ \/ part = "processes"
       \/ part = "launches" /\ runtime[0] = NoRuntime
       \/ part \in {"requests", "relayed"} /\ runtime[0] = NoRuntime /\ qt.mode = "local"

ProcessesNext ==
    /\ Next
    /\ hist'.faults <= 1
    /\ part = "processes" => hist'.launched <= 1
    /\ runtime[0] # NoRuntime => hist'.faults + hist'.launched <= 1

FeedNext ==
    /\ Feed!Next
    /\ IF part = "requests"
       THEN feedHist'.ctx /\ feedHist'.sent <= 1 /\ feedHist'.faults = 0
       ELSE feedHist'.visits <= 1 /\ \A h \in Handlers : notifier'[h].pc = "idle"

MCNext ==
    \/ part \in {"processes", "launches"} /\ ProcessesNext /\ UNCHANGED <<part, feedVars>>
    \/ part \in {"requests", "relayed"} /\ FeedNext /\ UNCHANGED <<part, processVars>>

MCSpec == MCInit /\ [][MCNext]_<<part, processVars, feedVars>>

\* The launches the part leaves out follow a change of mode or, beside a runtime
\* started by hand, a fault: an application that is about to quit launches nothing,
\* and waits for none of them.
Scheduled == part = "processes" /\ Fairness

Relayed == part = "relayed" /\ Feed!Fairness

\* Runtimes follow one another, whoever quits gets the application quit, and
\* neither slow pages nor lost connections stop the feed.
DesktopGoesOn ==
    /\ LaunchedOneAtATime
    /\ Scheduled => QuitEnds
    /\ Relayed => Feed!QueuedIsPublished
    /\ Relayed => Feed!ReconnectsUntilRefused
=============================================================================
