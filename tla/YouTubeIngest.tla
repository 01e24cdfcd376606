---------------------------- MODULE YouTubeIngest ----------------------------
(***************************************************************************)
(* YouTube ingestion in server mode: requestAttempt, Discover, run,        *)
(* RunServer and listResponse of internal/platform/youtube/youtube.go,     *)
(* and waitForServer of cmd/streamchat/main.go, which watches the adapter, *)
(* the server and the Twitch adapter.                                      *)
(*                                                                         *)
(* The provider numbers the messages of all live chats consecutively, and  *)
(* the continuation token of a page is the number of its last message; 0   *)
(* is the empty token.  A chat is known by the number of its first         *)
(* message.  That the archive drops repeated messages is not part of this  *)
(* module.  Time is counted in half seconds.                               *)
(***************************************************************************)
EXTENDS Integers, Sequences, FiniteSetsExt

CONSTANTS
    FixedVideo,         \* youtube.video_id is set
    Malformed,          \* messages ParseMessage rejects
    Answers,            \* what a request may be answered with besides a success
    QueueSize,          \* the channel to the server
    MaxMessages,        \* bound on the messages of all chats
    MaxFaults           \* bound on failed requests and expired access tokens

Failures == {"network", "liveChatEnded", "notFound", "quotaExceeded", "rate",
             "forbidden", "other", "broken"}

ConstantsOK ==
    /\ FixedVideo \in BOOLEAN /\ Malformed \subseteq Nat
    /\ Answers \subseteq Failures
    /\ QueueSize \in Nat \ {0} /\ MaxMessages \in Nat /\ MaxFaults \in Nat

VARIABLES
    provider,   \* the chats, whether the last is live, messages, access token
    yt,         \* the adapter: where it is, chat, token, backoff, wait, page, error
    messages,   \* the channel to the server
    main,       \* waitForServer and the goroutines it watches
    hist        \* history: delivered in this run, faults, failures in a row,
                \* the last token received, whether a chat was begun anew

vars == <<provider, yt, messages, main, hist>>

NoPage == [items |-> <<>>, token |-> 0, offline |-> FALSE]

Init ==
    /\ provider = [chats |-> {}, live |-> FALSE, last |-> 0, access |-> "valid"]
    /\ yt = [pc |-> "discover", chat |-> 0, token |-> 0, backoff |-> 2, wait |-> 0,
             page |-> NoPage, retried |-> FALSE, error |-> "nil"]
    /\ messages = <<>>
    /\ main = [pc |-> "select", ctx |-> TRUE, serverCtx |-> TRUE,
               server |-> "running", youtube |-> "running",
               twitch |-> "running", result |-> "none"]
    /\ hist = [delivered |-> <<>>, faults |-> 0, failed |-> 0,
               known |-> <<0, 0>>, anew |-> FALSE]

-----------------------------------------------------------------------------
(* The provider. *)

LiveChat == IF provider.live THEN Max(provider.chats) ELSE 0

LastOf(chat) ==
    LET later == {c \in provider.chats : c > chat}
    IN  IF later = {} THEN provider.last ELSE Min(later) - 1

\* A chat that has had no message yet does not end.
BroadcastStarts ==
    /\ ~provider.live /\ provider.last < MaxMessages
    /\ FixedVideo => provider.chats = {}
    /\ provider' = [provider EXCEPT !.chats = @ \cup {provider.last + 1}, !.live = TRUE]
    /\ UNCHANGED <<yt, messages, main, hist>>

Chatted ==
    /\ provider.live /\ provider.last < MaxMessages
    /\ provider' = [provider EXCEPT !.last = @ + 1]
    /\ UNCHANGED <<yt, messages, main, hist>>

BroadcastEnds ==
    /\ provider.live /\ provider.last >= LiveChat
    /\ provider' = [provider EXCEPT !.live = FALSE]
    /\ UNCHANGED <<yt, messages, main, hist>>

AccessExpires ==
    /\ provider.access = "valid" /\ hist.faults < MaxFaults
    /\ provider' = [provider EXCEPT !.access = "expired"]
    /\ hist' = [hist EXCEPT !.faults = @ + 1]
    /\ UNCHANGED <<yt, messages, main>>

-----------------------------------------------------------------------------
(* requestAttempt: what an answer means to the caller. *)

Kind(answer) ==
    CASE answer = "liveChatEnded"               -> "chatEnded"
      [] answer = "notFound"                    -> "notFound"
      [] answer = "quotaExceeded"               -> "quota"
      [] answer \in {"network", "rate"}         -> "recoverable"
      [] answer \in {"unauthorized", "forbidden"} -> "authentication"
      [] answer = "other"                       -> "terminal"
      [] answer = "broken"                      -> "plain"  \* the body ends early

Requesting == yt.pc \in {"discover", "stream"} /\ main.serverCtx

\* A 401 is answered by one forced refresh and one more attempt.
Unauthorized ==
    /\ Requesting /\ provider.access = "expired" /\ ~yt.retried
    /\ yt' = [yt EXCEPT !.retried = TRUE]
    /\ provider' = [provider EXCEPT !.access = "valid"]
    /\ UNCHANGED <<messages, main, hist>>

\* A refresh may not be answered, or be refused, or its answer may not be readable or
\* not be saved ("broken"): that is a plain error and ends the adapter, so that it is of
\* no account whether the token was renewed.
RefreshAnswers == {"network", "forbidden", "broken"}

(* run: what it does with an error. *)

OnDiscoverError(kind) ==
    yt' = [yt EXCEPT !.pc = "returned", !.error = kind, !.retried = FALSE]

\* The next request waits for the backoff and up to half as long again.
BacksOff ==
    \E j \in 0 .. yt.backoff \div 2 :
        yt' = [yt EXCEPT !.pc = "backoff", !.wait = yt.backoff + j, !.retried = FALSE]

\* Deviation: an ended chat is an error like another.
OnStreamErrorEnds(kind) ==
    \/ /\ kind = "recoverable"
       /\ BacksOff
    \/ /\ kind # "recoverable"
       /\ yt' = [yt EXCEPT !.pc = "returned", !.error = kind, !.retried = FALSE]

OnStreamError(kind) ==
    \/ /\ kind \in {"chatEnded", "notFound"}
       /\ yt' = [yt EXCEPT !.pc = "returned", !.error = "nil", !.retried = FALSE]
    \/ /\ kind = "recoverable"
       /\ BacksOff
    \/ /\ kind \notin {"chatEnded", "notFound", "recoverable"}
       /\ yt' = [yt EXCEPT !.pc = "returned", !.error = kind, !.retried = FALSE]

\* The chat that is followed does not end while it is live; any request may be
\* answered that what it asks for is not found, the search for a broadcast as well.
RequestFails ==
    /\ Requesting
    /\ \E answer \in Answers \cup {"unauthorized"} :
        /\ answer # "unauthorized" => hist.faults < MaxFaults
        /\ answer = "unauthorized" => provider.access = "expired" /\ yt.retried
        /\ provider.access = "expired" /\ ~yt.retried => answer \in RefreshAnswers
        /\ answer = "liveChatEnded" /\ yt.pc = "stream" => LiveChat # yt.chat
        /\ IF yt.pc = "discover" THEN OnDiscoverError(Kind(answer))
                                 ELSE OnStreamError(Kind(answer))
        /\ hist' = [hist EXCEPT !.faults = IF answer = "unauthorized" THEN @ ELSE @ + 1,
                                !.failed = IF yt.pc = "stream" THEN @ + 1 ELSE @]
    /\ UNCHANGED <<provider, messages, main>>

-----------------------------------------------------------------------------
Answered == Requesting /\ provider.access = "valid"

\* Discover: the active broadcast, or the configured one.
Discover ==
    /\ Answered /\ yt.pc = "discover"
    /\ IF provider.live
       THEN yt' = [yt EXCEPT !.pc = "stream", !.chat = LiveChat, !.token = 0,
                             !.backoff = 2, !.retried = FALSE]
       ELSE OnDiscoverError(IF FixedVideo THEN "plain" ELSE "noActiveBroadcast")
    /\ hist' = [hist EXCEPT !.failed = 0, !.delivered = <<>>]
    /\ UNCHANGED <<provider, messages, main>>

\* Deviation: the last page's token, even when it has none.
MergeLast(first, second) ==
    [items   |-> first.items \o second.items,
     token   |-> second.token,
     offline |-> first.offline \/ second.offline]

\* listResponse.UnmarshalJSON: the pages of one stream become one response.
Merge(first, second) ==
    [items   |-> first.items \o second.items,
     token   |-> IF second.token # 0 THEN second.token ELSE first.token,
     offline |-> first.offline \/ second.offline]

Numbers(a, b) == [i \in 1 .. (b - a + 1) |-> a + i - 1]

EndEvent == -1

\* The messages from a to b; a page without items has no token.
Page(a, b) == [items |-> Numbers(a, b), token |-> IF a <= b THEN b ELSE 0, offline |-> FALSE]

\* A chat that is over is closed by an event or by offlineAt.
Closing(page, over, byEvent) ==
    [page EXCEPT !.items = IF byEvent THEN Append(@, EndEvent) ELSE @,
                 !.offline = over /\ ~byEvent]

\* The provider streams everything after the token, or from anywhere in the chat
\* without one, cut in two pages anywhere.
Stream ==
    /\ Answered /\ yt.pc = "stream"
    /\ \E a \in yt.chat .. LastOf(yt.chat) + 1, cut \in 0 .. LastOf(yt.chat),
          byEvent \in BOOLEAN :
         LET over == LiveChat # yt.chat
             v == Merge(Page(a, cut),
                        Closing(Page(cut + 1, LastOf(yt.chat)), over, byEvent))
             token == IF v.token # 0 THEN v.token ELSE yt.token
         IN  /\ yt.token # 0 => a = yt.token + 1
             /\ cut >= a - 1
             /\ byEvent => over
             /\ yt' = [yt EXCEPT !.pc = "publish", !.page = v, !.backoff = 2,
                                 !.token = token, !.retried = FALSE]
             /\ hist' = [hist EXCEPT !.failed = 0, !.known = <<yt.chat, token>>,
                           !.anew = \/ @
                                    \/ /\ yt.token = 0 /\ hist.known[1] = yt.chat
                                       /\ hist.known[2] # 0]
    /\ UNCHANGED <<provider, messages, main>>

\* The items in their order; an item that cannot be parsed is passed over.
PublishItem ==
    /\ yt.pc = "publish" /\ yt.page.items # <<>>
    /\ LET x == Head(yt.page.items)
           rest == [yt EXCEPT !.page.items = Tail(@)]
       IN  \/ /\ x \in Malformed
              /\ yt' = rest
              /\ UNCHANGED <<messages, hist>>
           \/ /\ x \notin Malformed /\ Len(messages) < QueueSize
              /\ messages' = Append(messages, x)
              /\ hist' = [hist EXCEPT !.delivered = Append(@, x)]
              /\ yt' = IF x = EndEvent
                       THEN [yt EXCEPT !.pc = "returned", !.error = "nil", !.page = NoPage]
                       ELSE rest
    /\ UNCHANGED <<provider, main>>

\* Deviation: a chat that went offline is streamed again.
PageDoneOnline ==
    /\ yt.pc = "publish" /\ yt.page.items = <<>>
    /\ yt' = [yt EXCEPT !.pc = "stream", !.page = NoPage]
    /\ UNCHANGED <<provider, messages, main, hist>>

PageDone ==
    /\ yt.pc = "publish" /\ yt.page.items = <<>>
    /\ yt' = IF yt.page.offline
             THEN [yt EXCEPT !.pc = "returned", !.error = "nil", !.page = NoPage]
             ELSE [yt EXCEPT !.pc = "stream", !.page = NoPage]
    /\ UNCHANGED <<provider, messages, main, hist>>

\* Deviation: the wait is not capped.
DoubledUncapped(backoff) == 2 * backoff

Doubled(backoff) == IF 2 * backoff > 60 THEN 60 ELSE 2 * backoff

BackedOff ==
    /\ yt.pc = "backoff" /\ main.serverCtx
    /\ yt' = [yt EXCEPT !.pc = "stream", !.backoff = Doubled(@), !.wait = 0]
    /\ UNCHANGED <<provider, messages, main, hist>>

-----------------------------------------------------------------------------
(* RunServer *)

\* Deviation: exhausted quota is not told from other refusals.
WaitsNoQuota(error) == error \in {"nil", "recoverable", "noActiveBroadcast"}

Waits(error) == error \in {"nil", "quota", "recoverable", "noActiveBroadcast"}

RunReturned ==
    /\ yt.pc = "returned" /\ main.serverCtx
    /\ IF Waits(yt.error)
       THEN /\ yt' = [yt EXCEPT !.pc = IF yt.error = "quota" THEN "quotaDelay"
                                                             ELSE "retryDelay"]
            /\ UNCHANGED main
       ELSE /\ yt' = [yt EXCEPT !.pc = "ended"]
            /\ main' = [main EXCEPT !.youtube = "failed"]
    /\ UNCHANGED <<provider, messages, hist>>

\* The next run knows no chat and no token.
Delayed ==
    /\ yt.pc \in {"quotaDelay", "retryDelay"} /\ main.serverCtx
    /\ yt' = [yt EXCEPT !.pc = "discover", !.chat = 0, !.token = 0, !.error = "nil"]
    /\ UNCHANGED <<provider, messages, main, hist>>

\* Every request, send and sleep ends with the context; RunServer returns nil.
AdapterCancelled ==
    /\ ~main.serverCtx /\ yt.pc # "ended"
    /\ yt' = [yt EXCEPT !.pc = "ended", !.page = NoPage, !.wait = 0]
    /\ main' = [main EXCEPT !.youtube = "nil"]
    /\ UNCHANGED <<provider, messages, hist>>

-----------------------------------------------------------------------------
(* The server takes the messages, and ends when its context does. *)

Take ==
    /\ main.server = "running" /\ messages # <<>>
    /\ messages' = Tail(messages)
    /\ UNCHANGED <<provider, yt, main, hist>>

ServerEnds ==
    /\ main.server = "running"
    /\ ~main.serverCtx \/ hist.faults < MaxFaults
    /\ main' = [main EXCEPT !.server = "sent"]
    /\ hist' = [hist EXCEPT !.faults = IF main.serverCtx THEN @ + 1 ELSE @]
    /\ UNCHANGED <<provider, yt, messages>>

TwitchEnds ==
    /\ main.twitch = "running"
    /\ main' = [main EXCEPT !.twitch = "sent"]
    /\ UNCHANGED <<provider, yt, messages, hist>>

\* The signal reaches a select that is waiting at once.
Signal ==
    /\ main.ctx
    /\ main' = [main EXCEPT !.ctx = FALSE, !.serverCtx = FALSE,
                            !.pc = IF @ = "select" THEN "stopping" ELSE @,
                            !.result = IF main.pc = "select" THEN "nil" ELSE @]
    /\ UNCHANGED <<provider, yt, messages, hist>>

\* waitForServer's cases.
Selected ==
    /\ main.pc = "select"
    /\ \/ /\ ~main.ctx
          /\ main' = [main EXCEPT !.pc = "stopping", !.result = "nil"]
       \/ /\ main.server = "sent"
          /\ main' = [main EXCEPT !.pc = "returned", !.serverCtx = FALSE,
                                  !.server = "received", !.result = "server"]
       \/ /\ main.youtube \in {"nil", "failed"}
          /\ main' = [main EXCEPT !.pc = "stopping", !.serverCtx = FALSE,
                                  !.youtube = "received",
                                  !.result = IF main.youtube = "nil"
                                             THEN "unexpected" ELSE "youtube"]
       \/ /\ main.twitch = "sent"
          /\ main' = [main EXCEPT !.pc = "report", !.twitch = "received"]
    /\ UNCHANGED <<provider, yt, messages, hist>>

\* The line about Twitch is printed.
Reported ==
    /\ main.pc = "report"
    /\ main' = [main EXCEPT !.pc = "select"]
    /\ UNCHANGED <<provider, yt, messages, hist>>

\* Deviation: the adapter's end is awaited as well, even if it was received before.
StoppedAwaitsAll ==
    /\ main.pc = "stopping" /\ main.server = "sent"
    /\ main.youtube \in {"nil", "failed"}
    /\ main' = [main EXCEPT !.pc = "returned", !.server = "received"]
    /\ UNCHANGED <<provider, yt, messages, hist>>

\* Deviation: the server's end is not awaited.
StoppedAtOnce ==
    /\ main.pc = "stopping"
    /\ main' = [main EXCEPT !.pc = "returned"]
    /\ UNCHANGED <<provider, yt, messages, hist>>

Stopped ==
    /\ main.pc = "stopping" /\ main.server = "sent"
    /\ main' = [main EXCEPT !.pc = "returned", !.server = "received"]
    /\ UNCHANGED <<provider, yt, messages, hist>>

-----------------------------------------------------------------------------
Adapter ==
    \/ Unauthorized \/ RequestFails \/ Discover \/ Stream \/ PublishItem
    \/ PageDone \/ BackedOff \/ RunReturned \/ Delayed \/ AdapterCancelled

Main == Selected \/ Reported \/ Stopped

Next ==
    \/ BroadcastStarts \/ Chatted \/ BroadcastEnds \/ AccessExpires
    \/ Adapter \/ Take \/ ServerEnds \/ TwitchEnds \/ Signal \/ Main

Spec == Init /\ [][Next]_vars

\* Every goroutine that can step does; the server ends when its context has, and
\* until then takes messages.  The provider owes nothing.
Fairness ==
    /\ WF_vars(Adapter) /\ WF_vars(Main) /\ WF_vars(Take)
    /\ WF_vars(ServerEnds /\ ~main.serverCtx)

LiveSpec == Spec /\ Fairness

-----------------------------------------------------------------------------
\* The types of the variables.
TypeOK ==
    /\ provider.chats \subseteq 1 .. MaxMessages /\ provider.live \in BOOLEAN
    /\ provider.last \in 0 .. MaxMessages
    /\ provider.access \in {"valid", "expired"}
    /\ yt.pc \in {"discover", "stream", "publish", "backoff", "returned",
                  "quotaDelay", "retryDelay", "ended"}
    /\ yt.chat \in 0 .. MaxMessages /\ yt.token \in 0 .. MaxMessages
    /\ yt.backoff \in 2 .. 60 /\ yt.wait \in 0 .. 90 /\ yt.retried \in BOOLEAN
    /\ yt.error \in {"nil", "quota", "recoverable", "noActiveBroadcast", "chatEnded",
                     "notFound", "authentication", "terminal", "plain"}
    /\ messages \in Seq(Nat \cup {EndEvent}) /\ Len(messages) <= QueueSize
    /\ main.pc \in {"select", "report", "stopping", "returned"}
    /\ main.server \in {"running", "sent", "received"}
    /\ main.youtube \in {"running", "nil", "failed", "received"}
    /\ main.result \in {"none", "nil", "server", "youtube", "unexpected"}

\* Within one session (one run of the adapter) every message is passed on once, in
\* the provider's order, and none is left out but those that cannot be parsed,
\* whatever requests failed in between and however the provider cut its pages.
SessionIsGapless ==
    \A i \in 1 .. Len(hist.delivered) - 1 :
        LET a == hist.delivered[i]  b == hist.delivered[i + 1]
        IN  b # EndEvent => a # EndEvent /\ a < b /\ (a + 1) .. (b - 1) \subseteq Malformed

\* In half seconds.
WaitAfter(failures) == IF failures > 5 THEN 60 ELSE <<2, 4, 8, 16, 32>>[failures]

\* Consecutive failures of one session are spaced by 1, 2, 4, ... up to 30 seconds, and
\* at random up to half as long again, so never more than 45; an answer resets the wait.
BackoffFollowsFailures ==
    yt.pc = "backoff" =>
        LET w == WaitAfter(hist.failed) IN w <= yt.wait /\ 2 * yt.wait <= 3 * w

\* The end or deletion of the chat that is followed, the lack of a broadcast, exhausted
\* quota and recoverable failures do not end the adapter, and so not the server.  What
\* ends it: a refused credential, a terminal or plain error, and an answer to the search
\* for a broadcast, when no chat is followed yet, that what it asks for does not exist.
EndedChatsAreSurvived ==
    main.youtube = "failed" =>
        \/ yt.error \in {"authentication", "terminal", "plain"}
        \/ yt.error \in {"chatEnded", "notFound"} /\ yt.chat = 0

\* The process does not return before its server has: no request is cut off.
ServerEndsFirst == main.pc = "returned" => main.server = "received"

\* A YouTube session leaves nothing out and repeats nothing, ends only for what
\* should end it and before the process does, and waits as long as it should.
YouTubeSafety ==
    /\ TypeOK
    /\ SessionIsGapless /\ EndedChatsAreSurvived /\ ServerEndsFirst
    /\ BackoffFollowsFailures

\* A live chat is found and read, unless it ends or the adapter does.
LiveChatIsFollowed ==
    \A c \in 1 .. MaxMessages :
        LiveChat = c ~> (\/ yt.chat = c /\ yt.pc \in {"stream", "publish", "backoff"}
                         \/ LiveChat # c \/ ~main.serverCtx \/ yt.pc = "ended")

\* A signal ends the process.
SignalEnds == ~main.ctx ~> main.pc = "returned"

\* Streamchat reconnects with the continuation token after recoverable failures: a
\* chat whose token is known is never begun without it.
TokenIsKept == ~hist.anew

\* The service remains running between broadcasts and after network failures: the
\* adapter does not end while its credential is accepted.
RunsContinuously == main.youtube # "failed"

\* An ordinary shutdown is not reported as an unexpected end of ingestion.
ShutdownIsExpected == main.result # "unexpected"
=============================================================================
