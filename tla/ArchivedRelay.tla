--------------------------- MODULE ArchivedRelay ---------------------------
(***************************************************************************)
(* What the Streamchat server promises about the messages of its           *)
(* providers, without queues, goroutines, failures and restarts: a message *)
(* is stored once, one at a time, and the one just stored is relayed       *)
(* before the next is stored, or never.  ServerPipeline implements it.     *)
(***************************************************************************)
EXTENDS Naturals, Sequences, Functions

CONSTANT Messages

VARIABLES
    archive,    \* the messages stored, in the order of storing
    relayed,    \* the messages relayed, in the order of relaying
    fresh       \* the message stored last, as long as it may be relayed: a
                \* set of at most one message

vars == <<archive, relayed, fresh>>

Init ==
    /\ archive = <<>>
    /\ relayed = <<>>
    /\ fresh = {}

Store(m) ==
    /\ fresh = {}
    /\ m \notin Range(archive)
    /\ archive' = Append(archive, m)
    /\ fresh' \in {{m}, {}}
    /\ UNCHANGED relayed

Relay(m) ==
    /\ fresh = {m}
    /\ relayed' = Append(relayed, m)
    /\ fresh' = {}
    /\ UNCHANGED archive

Abandon ==
    /\ fresh' = {}
    /\ UNCHANGED <<archive, relayed>>

Next == Abandon \/ \E m \in Messages : Store(m) \/ Relay(m)

Spec == Init /\ [][Next]_vars
=============================================================================
