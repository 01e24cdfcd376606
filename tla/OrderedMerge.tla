----------------------------- MODULE OrderedMerge ------------------------------
(***************************************************************************)
(* What the reading side of the terminal client makes of the messages of   *)
(* its adapters, without their channels, the forwarders, the timer and the *)
(* way the client ends: a valid message is accepted unless it is one of    *)
(* those accepted last, of the messages that wait the oldest is passed on, *)
(* and the log has what was passed on, in this order and none left out.    *)
(* ClientPipeline implements this specification.                           *)
(***************************************************************************)
EXTENDS Naturals, Sequences

CONSTANTS
    Messages,   \* numbers: places in the order of timestamp, platform and ID
    Invalid,
    Memory      \* how many of the messages accepted last are known

VARIABLES
    published,  \* what the adapters published
    accepted,   \* in the order of acceptance
    waiting,    \* pairs of a message and how many were accepted before it
    passed,     \* what was passed on for display
    logged      \* the log

vars == <<published, accepted, waiting, passed, logged>>

Init ==
    /\ published = <<>> /\ accepted = <<>> /\ waiting = {}
    /\ passed = <<>> /\ logged = <<>>

Publish(m) ==
    /\ published' = Append(published, m)
    /\ UNCHANGED <<accepted, waiting, passed, logged>>

\* The order of waiting messages; of the same message, the one accepted first.
Older(p, q) == p[1] < q[1] \/ (p[1] = q[1] /\ p[2] < q[2])

Known(m) ==
    \E i \in 1 .. Len(accepted) : i > Len(accepted) - Memory /\ accepted[i] = m

Accept(m) ==
    /\ m \notin Invalid /\ ~Known(m)
    /\ \E i \in 1 .. Len(published) : published[i] = m
    /\ accepted' = Append(accepted, m)
    /\ waiting' = waiting \cup {<<m, Len(accepted)>>}
    /\ UNCHANGED <<published, passed, logged>>

Pass ==
    /\ \E q \in waiting :
          /\ \A r \in waiting \ {q} : Older(q, r)
          /\ waiting' = waiting \ {q}
          /\ passed' = Append(passed, q[1])
    /\ UNCHANGED <<published, accepted, logged>>

Log ==
    /\ Len(logged) < Len(passed)
    /\ logged' = Append(logged, passed[Len(logged) + 1])
    /\ UNCHANGED <<published, accepted, waiting, passed>>

Next ==
    \/ Pass \/ Log
    \/ \E m \in Messages : Publish(m) \/ Accept(m)

Spec == Init /\ [][Next]_vars
================================================================================
