-------------------------------- MODULE Desktop --------------------------------
(***************************************************************************)
(* The desktop application: its processes (DesktopProcesses, by its own    *)
(* names) and, with the prefix Feed, the way of messages and state to its  *)
(* pages (DesktopFeed).  The two share no state: whatever one of them does *)
(* leaves the other alone.                                                 *)
(***************************************************************************)
EXTENDS DesktopProcesses, Sequences

CONSTANTS
    Pages, Handlers, Targets, Statuses, HistoryLimit, Buffer, QueueSize, MaxMessages,
    MaxVisits

VARIABLES relay, queue, guiRuntime, notifier, guiServer, page, feedHist

Feed == INSTANCE DesktopFeed WITH
    runtime <- guiRuntime, server <- guiServer, hist <- feedHist

processVars == vars
feedVars == <<relay, queue, guiRuntime, notifier, guiServer, page, feedHist>>

(* What is published is in the relay's order, each message once; a page is *)
(* sent the history it registered with and then every message, unless it   *)
(* is dropped for being slow, and once it has read all, the state it was   *)
(* sent is from the last notifications.                                    *)
FeedSafety == Feed!FeedSafety

\* Seen from the pages, the feed is a fan-out that begins with the history.  A page
\* that was dropped has coming what its channel held.
Visit == [p \in Pages |-> IF page[p].pc = "away" THEN "away"
                          ELSE IF page[p].open THEN "live" ELSE "dropped"]
First == [p \in Pages |-> page[p].from]
Given == [p \in Pages |-> page[p].sent]
UntilOf(pg) ==
    IF pg.pc = "away" \/ pg.open THEN 0
    ELSE pg.from + Len(pg.sent) + Len(Feed!MessageIds(pg.buffer)) - 1
Until == [p \in Pages |-> UntilOf(page[p])]

Promise == INSTANCE HistoryFanout WITH
    Messages <- 0 .. MaxMessages, Limit <- HistoryLimit,
    published <- guiServer.published, visit <- Visit,
    first <- First, got <- Given, until <- Until

(* The feed, with its queue, the channels of its pages and the pages that  *)
(* are dropped for being slow, implements HistoryFanout: what a page is    *)
(* given over all its visits, and when it is given it, is what publishing  *)
(* one message after the other and handing out the next would have done.   *)
FeedImplementsFanout == Promise!Spec
================================================================================
