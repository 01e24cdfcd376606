---------------------------- MODULE HistoryFanout -----------------------------
(***************************************************************************)
(* What the desktop client promises its pages, without the server's queue, *)
(* its channels and its locks: messages are published in order, and a page *)
(* that opens /events gets the newest ones and then, one after the other,  *)
(* those that follow.  A page may be given up at any time.  From then on   *)
(* it gets what it still had coming, and when it opens /events again it    *)
(* starts anew.  DesktopFeed implements this specification.                *)
(***************************************************************************)
EXTENDS Naturals, Sequences

CONSTANTS
    Pages,
    Messages,   \* natural numbers
    Limit       \* how many messages a page is given when it opens

VARIABLES
    published,  \* the messages, in the order of their publication
    visit,      \* [Pages -> {"away", "live", "dropped"}]
    first,      \* the place in published of the first message of the visit
    got,        \* the messages the page has been given
    until       \* the place of the last one that a dropped page has coming

vars == <<published, visit, first, got, until>>

Init ==
    /\ published = <<>>
    /\ visit = [p \in Pages |-> "away"]
    /\ first = [p \in Pages |-> 1]
    /\ got = [p \in Pages |-> <<>>]
    /\ until = [p \in Pages |-> 0]

\* These pages are given up; what was published so far is all they get.
Dropping(pages) ==
    /\ \A p \in pages : visit[p] = "live"
    /\ visit' = [p \in Pages |-> IF p \in pages THEN "dropped" ELSE visit[p]]
    /\ until' = [p \in Pages |-> IF p \in pages THEN Len(published) ELSE until[p]]

Publish(m) ==
    /\ \A i \in 1 .. Len(published) : published[i] < m
    /\ published' = Append(published, m)
    /\ \E pages \in SUBSET Pages : Dropping(pages)
    /\ UNCHANGED <<first, got>>

Drop ==
    /\ \E pages \in SUBSET Pages : Dropping(pages)
    /\ UNCHANGED <<published, first, got>>

\* A page opens: it is given as many of the newest messages as are kept.
Open(p) ==
    LET n == Len(published)
        kept == IF n <= Limit THEN n ELSE Limit
    IN  /\ visit[p] = "away"
        /\ visit' = [visit EXCEPT ![p] = "live"]
        /\ first' = [first EXCEPT ![p] = n - kept + 1]
        /\ got' = [got EXCEPT ![p] = SubSeq(published, n - kept + 1, n)]
        /\ UNCHANGED <<published, until>>

\* The next message, and no other, is given to the page.
Give(p) ==
    LET next == first[p] + Len(got[p])
    IN  /\ visit[p] # "away"
        /\ next <= IF visit[p] = "live" THEN Len(published) ELSE until[p]
        /\ got' = [got EXCEPT ![p] = Append(@, published[next])]
        /\ UNCHANGED <<published, visit, first, until>>

Close(p) ==
    /\ visit[p] # "away"
    /\ visit' = [visit EXCEPT ![p] = "away"]
    /\ first' = [first EXCEPT ![p] = 1]
    /\ got' = [got EXCEPT ![p] = <<>>]
    /\ until' = [until EXCEPT ![p] = 0]
    /\ UNCHANGED published

Next ==
    \/ Drop
    \/ \E m \in Messages : Publish(m)
    \/ \E p \in Pages : Open(p) \/ Give(p) \/ Close(p)

Spec == Init /\ [][Next]_vars
============================================================================
