--------------------------- MODULE OrderedFanout ---------------------------
(***************************************************************************)
(* What the relay promises the clients connected to it, without the hub,   *)
(* its buffers, goroutines and locks: payloads are published one after the *)
(* other, and each connection is handed a gapless run of them, in order,   *)
(* that begins with the first one published after it subscribed.  A        *)
(* connection may end at any point; it is never resumed and nothing is     *)
(* replayed.  RelayHub implements this specification.                      *)
(***************************************************************************)
EXTENDS Naturals, Sequences

CONSTANT Subscribers    \* the connections, each used once

VARIABLES
    published,  \* how many payloads have been published; payload i is number i
    session,    \* [Subscribers -> {"none", "live", "over"}]
    from,       \* published when the connection subscribed
    got         \* the payloads the connection has been handed, in order

vars == <<published, session, from, got>>

Init ==
    /\ published = 0
    /\ session = [s \in Subscribers |-> "none"]
    /\ from = [s \in Subscribers |-> 0]
    /\ got = [s \in Subscribers |-> <<>>]

Publish ==
    /\ published' = published + 1
    /\ UNCHANGED <<session, from, got>>

Subscribe(s) ==
    /\ session[s] = "none"
    /\ session' = [session EXCEPT ![s] = "live"]
    /\ from' = [from EXCEPT ![s] = published]
    /\ UNCHANGED <<published, got>>

\* The next payload, and no other, may reach the connection.
Deliver(s) ==
    LET next == from[s] + Len(got[s]) + 1
    IN  /\ session[s] = "live"
        /\ next <= published
        /\ got' = [got EXCEPT ![s] = Append(@, next)]
        /\ UNCHANGED <<published, session, from>>

Unsubscribe(s) ==
    /\ session[s] # "over"
    /\ session' = [session EXCEPT ![s] = "over"]
    /\ UNCHANGED <<published, from, got>>

Next ==
    \/ Publish
    \/ \E s \in Subscribers : Subscribe(s) \/ Deliver(s) \/ Unsubscribe(s)

Spec == Init /\ [][Next]_vars
============================================================================
