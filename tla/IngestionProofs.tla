---------------------------- MODULE IngestionProofs ----------------------------
(***************************************************************************)
(* Proofs about what the server reads from YouTube (YouTubeIngest), for    *)
(* any number of messages and faults and any size of the channel; about    *)
(* what an input sets in motion (InputLifecycle), for any number of        *)
(* sessions, broadcasts, failures and restarts and any number of           *)
(* observations that confirm the input; about what Kick delivers           *)
(* (KickWebhook), for any number of events and concurrent requests, any    *)
(* queue size and any age limit that leaves room for the clock skew and    *)
(* the handling time; and about the sessions with Twitch (TwitchSession),  *)
(* for every set of notifications, every length of the window of           *)
(* remembered IDs and any number of sockets, reconnects and faults.        *)
(***************************************************************************)
EXTENDS Ingestion, KickWebhook, SequenceTheorems, FiniteSetTheorems, WellFoundedInduction,
        TLAPS

-----------------------------------------------------------------------------
(* The least and the greatest member of a set of numbers.                  *)

LEMMA Least ==
    ASSUME NEW S \in SUBSET Nat, S # {}
    PROVE  YT!Min(S) \in S /\ \A y \in S : YT!Min(S) <= y
<1>. DEFINE R == OpToRel(<, Nat)
<1>1. PICK x \in S : \A y \in S : <<y, x>> \notin R
  BY NatLessThanWellFounded, WFMin
<1>2. ASSUME NEW a \in Nat, NEW b \in Nat, a < b
      PROVE  <<a, b>> \in R
  BY <1>2 DEF OpToRel
<1>3. ASSUME NEW y \in S
      PROVE  x <= y
  <2>1. x \in Nat /\ y \in Nat
    OBVIOUS
  <2>2. CASE y < x
    <3>1. <<y, x>> \in R
      BY <1>2, <2>1, <2>2
    <3>2. QED
      BY <1>1, <3>1
  <2>3. QED
    BY <2>1, <2>2
<1>4. QED
  BY <1>3 DEF YT!Min

LEMMA Greatest ==
    ASSUME NEW M \in Nat, NEW S \in SUBSET (0 .. M), S # {}
    PROVE  YT!Max(S) \in S /\ \A y \in S : y <= YT!Max(S)
<1>. DEFINE T == {M - y : y \in S}
<1>1. T \in SUBSET Nat /\ T # {}
  <2>1. \A y \in S : M - y \in Nat
    OBVIOUS
  <2>2. PICK y \in S : TRUE
    OBVIOUS
  <2>3. M - y \in T
    OBVIOUS
  <2>4. QED
    BY <2>1, <2>3
<1>2. YT!Min(T) \in T /\ \A y \in T : YT!Min(T) <= y
  BY <1>1, Least
<1>3. PICK x \in S : YT!Min(T) = M - x
  BY <1>2
<1>4. ASSUME NEW y \in S
      PROVE  y <= x
  <2>1. M - x <= M - y
    BY <1>2, <1>3
  <2>2. QED
    BY <2>1
<1>5. QED
  BY <1>4 DEF YT!Max

-----------------------------------------------------------------------------
(* The live chat.                                                          *)

Items == (1 .. MaxMessages) \cup {YT!EndEvent}

ProviderOK ==
    /\ provider \in [chats : SUBSET (1 .. MaxMessages), live : BOOLEAN,
                     last : 0 .. MaxMessages, access : {"valid", "expired"}]
    /\ provider.live => provider.chats # {}

Adapters == [pc : {"discover", "stream", "publish", "backoff", "returned",
                   "quotaDelay", "retryDelay", "ended"},
             chat : 0 .. MaxMessages, token : 0 .. MaxMessages,
             backoff : 2 .. 60, wait : 0 .. 90,
             page : [items : Seq(Items), token : 0 .. MaxMessages, offline : BOOLEAN],
             retried : BOOLEAN,
             error : {"nil", "quota", "recoverable", "noActiveBroadcast", "chatEnded",
                      "notFound", "authentication", "terminal", "plain"}]

Waiters == [pc : {"select", "report", "stopping", "returned"},
            ctx : BOOLEAN, serverCtx : BOOLEAN,
            server : {"running", "sent", "received"},
            youtube : {"running", "nil", "failed", "received"},
            twitch : {"running", "sent", "received"},
            result : {"none", "nil", "server", "youtube", "unexpected"}]

Histories == [delivered : Seq(Items), faults : Nat, failed : Nat,
              known : (0 .. MaxMessages) \X (0 .. MaxMessages), anew : BOOLEAN]

Shapes ==
    /\ ProviderOK /\ yt \in Adapters /\ main \in Waiters /\ hist \in Histories
    /\ messages \in Seq(Nat \cup {YT!EndEvent}) /\ Len(messages) <= YouTubeQueue

InSession == yt.pc \in {"stream", "publish", "backoff"}
LastDelivered == hist.delivered[Len(hist.delivered)]
Pending == yt.page.items

\* Message b may come next: what lies between it and the last one delivered cannot
\* be parsed.
Follows(b) ==
    hist.delivered # <<>> =>
        LastDelivered < b /\ (LastDelivered + 1) .. (b - 1) \subseteq Malformed

\* Between pages the token stands for the last message delivered, up to those that
\* cannot be parsed.
TokenIsPosition ==
    InSession =>
        /\ yt.chat > 0
        /\ hist.delivered # <<>> => LastDelivered # YT!EndEvent
        /\ yt.pc # "publish" \/ Pending = <<>> => Follows(yt.token + 1)

\* A page starts with the message that may come next and goes on up to its token,
\* or to the end of the chat.
PageIsConsecutive ==
    yt.pc = "publish" /\ Pending # <<>> =>
        /\ Head(Pending) # YT!EndEvent => Follows(Head(Pending))
        /\ \A i \in 1 .. Len(Pending) - 1 :
              Pending[i] # YT!EndEvent /\ Pending[i + 1] \in {Pending[i] + 1, YT!EndEvent}
        /\ Pending[Len(Pending)] \in {yt.token, YT!EndEvent}

\* The backoff is the one that follows the failures so far, and the wait it and up to
\* half of it.
WaitsDouble ==
    /\ yt.pc = "stream" => yt.backoff = YT!WaitAfter(hist.failed + 1)
    /\ yt.pc = "publish" => yt.backoff = 2 /\ hist.failed = 0
    /\ yt.pc = "backoff" => /\ hist.failed > 0 /\ yt.backoff = YT!WaitAfter(hist.failed)
                            /\ yt.backoff <= yt.wait /\ 2 * yt.wait <= 3 * yt.backoff

EndedForGood == main.youtube # "running" => yt.pc = "ended"

\* Only the search for a broadcast returns that there is none, and it knows no chat.
Unfound ==
    /\ yt.pc = "discover" => yt.chat = 0
    /\ yt.error \in {"chatEnded", "notFound"} => yt.chat = 0 /\ yt.pc \in {"returned", "ended"}

YouTubeInv ==
    /\ Shapes
    /\ TokenIsPosition /\ PageIsConsecutive /\ YT!SessionIsGapless
    /\ WaitsDouble /\ Unfound
    /\ EndedForGood /\ YT!EndedChatsAreSurvived /\ YT!ServerEndsFirst

LEMMA YouTubeTyped ==
    ASSUME YouTubeInv
    PROVE  YT!TypeOK
  BY DEF YouTubeInv, Shapes, ProviderOK, Adapters, Waiters, YT!TypeOK

LEMMA YouTubeInit ==
    ASSUME YT!ConstantsOK, YT!Init
    PROVE  YouTubeInv
<1>1. provider \in [chats : SUBSET (1 .. MaxMessages), live : BOOLEAN,
                    last : 0 .. MaxMessages, access : {"valid", "expired"}]
      /\ ~provider.live
  BY DEF YT!Init, YT!ConstantsOK
<1>2. yt \in Adapters /\ yt.pc = "discover" /\ yt.chat = 0 /\ yt.error = "nil"
  BY DEF YT!Init, YT!ConstantsOK, Adapters, YT!NoPage, Items
<1>3. main \in Waiters /\ main.youtube = "running" /\ main.pc = "select"
  BY DEF YT!Init, Waiters
<1>4. hist \in Histories /\ hist.delivered = <<>>
  BY DEF YT!Init, YT!ConstantsOK, Histories
<1>5. messages \in Seq(Nat \cup {YT!EndEvent}) /\ Len(messages) <= YouTubeQueue
  BY DEF YT!Init, YT!ConstantsOK
<1>6. Shapes
  BY <1>1, <1>2, <1>3, <1>4, <1>5 DEF Shapes, ProviderOK
<1>7. YT!SessionIsGapless
  BY <1>4 DEF YT!SessionIsGapless
<1>8. QED
  BY <1>2, <1>3, <1>6, <1>7
  DEF YouTubeInv, TokenIsPosition, PageIsConsecutive, InSession, WaitsDouble, Unfound,
      EndedForGood, YT!EndedChatsAreSurvived, YT!ServerEndsFirst

\* The first message of the live chat, and the last one of any.
LEMMA ChatFacts ==
    ASSUME YT!ConstantsOK, ProviderOK
    PROVE  /\ YT!LiveChat \in 0 .. MaxMessages /\ (provider.live => YT!LiveChat > 0)
           /\ \A chat \in Nat : YT!LastOf(chat) \in 0 .. MaxMessages
<1>0. MaxMessages \in Nat
  BY DEF YT!ConstantsOK
<1>1. provider.live => YT!LiveChat \in 1 .. MaxMessages
  <2>1. SUFFICES ASSUME provider.live PROVE YT!LiveChat \in 1 .. MaxMessages
    OBVIOUS
  <2>2. provider.chats \in SUBSET (0 .. MaxMessages) /\ provider.chats # {}
        /\ provider.chats \subseteq 1 .. MaxMessages
    BY <1>0, <2>1 DEF ProviderOK
  <2>3. YT!Max(provider.chats) \in provider.chats
    BY <1>0, <2>2, Greatest
  <2>4. QED
    BY <2>1, <2>2, <2>3 DEF YT!LiveChat
<1>2. ASSUME NEW chat \in Nat
      PROVE  YT!LastOf(chat) \in 0 .. MaxMessages
  <2>. DEFINE later == {c \in provider.chats : c > chat}
  <2>1. CASE later = {}
    BY <2>1 DEF YT!LastOf, ProviderOK
  <2>2. CASE later # {}
    <3>1. later \in SUBSET Nat /\ later \subseteq 1 .. MaxMessages
      BY DEF ProviderOK
    <3>2. YT!Min(later) \in 1 .. MaxMessages
      <4>. HIDE DEF later
      <4>1. QED
        BY <2>2, <3>1, Least
    <3>3. QED
      BY <1>0, <2>2, <3>2 DEF YT!LastOf
  <2>3. QED
    BY <2>1, <2>2
<1>3. QED
  BY <1>0, <1>1, <1>2 DEF YT!LiveChat

-----------------------------------------------------------------------------
(* The steps beside the adapter.                                           *)

LEMMA BesideAdapter ==
    ASSUME YouTubeInv, Shapes', UNCHANGED yt,
           hist'.delivered = hist.delivered, hist'.failed = hist.failed,
           main'.youtube # "running" => main.youtube # "running",
           main'.youtube = "failed" => main.youtube = "failed",
           YT!ServerEndsFirst'
    PROVE  YouTubeInv'
  BY DEF YouTubeInv, TokenIsPosition, PageIsConsecutive, YT!SessionIsGapless, InSession,
         LastDelivered, Pending, Follows, WaitsDouble, Unfound, YT!WaitAfter, EndedForGood,
         YT!EndedChatsAreSurvived

LEMMA ProviderStep ==
    ASSUME YT!ConstantsOK, YouTubeInv,
           YT!BroadcastStarts \/ YT!Chatted \/ YT!BroadcastEnds \/ YT!AccessExpires
    PROVE  YouTubeInv'
<1>0. Shapes /\ YT!ServerEndsFirst /\ MaxMessages \in Nat
  BY DEF YouTubeInv, YT!ConstantsOK
<1>1. UNCHANGED <<yt, messages, main>>
  BY DEF YT!BroadcastStarts, YT!Chatted, YT!BroadcastEnds, YT!AccessExpires
<1>2. ProviderOK'
  <2>1. CASE YT!BroadcastStarts
    <3>1. provider.last + 1 \in 1 .. MaxMessages
          /\ provider' = [provider EXCEPT !.chats = @ \cup {provider.last + 1}, !.live = TRUE]
      BY <1>0, <2>1 DEF YT!BroadcastStarts, Shapes, ProviderOK
    <3>2. QED
      BY <1>0, <3>1 DEF Shapes, ProviderOK
  <2>2. CASE YT!Chatted
    BY <1>0, <2>2 DEF YT!Chatted, Shapes, ProviderOK
  <2>3. CASE YT!BroadcastEnds
    BY <1>0, <2>3 DEF YT!BroadcastEnds, Shapes, ProviderOK
  <2>4. CASE YT!AccessExpires
    BY <1>0, <2>4 DEF YT!AccessExpires, Shapes, ProviderOK
  <2>5. QED
    BY <2>1, <2>2, <2>3, <2>4
<1>3. hist' \in Histories /\ hist'.delivered = hist.delivered /\ hist'.failed = hist.failed
  <2>1. hist' = hist \/ hist' = [hist EXCEPT !.faults = @ + 1]
    BY DEF YT!BroadcastStarts, YT!Chatted, YT!BroadcastEnds, YT!AccessExpires
  <2>2. QED
    BY <1>0, <2>1 DEF Shapes, Histories
<1>4. Shapes' /\ YT!ServerEndsFirst'
  BY <1>0, <1>1, <1>2, <1>3 DEF Shapes, YT!ServerEndsFirst
<1>5. QED
  BY <1>1, <1>3, <1>4, BesideAdapter

LEMMA MainStep ==
    ASSUME YT!ConstantsOK, YouTubeInv,
           YT!Take \/ YT!ServerEnds \/ YT!TwitchEnds \/ YT!Signal \/ YT!Main
    PROVE  YouTubeInv'
<1>0. Shapes /\ YT!ServerEndsFirst /\ main \in Waiters /\ hist \in Histories
  BY DEF YouTubeInv, Shapes
<1>1. UNCHANGED <<yt, provider>>
  BY DEF YT!Take, YT!ServerEnds, YT!TwitchEnds, YT!Signal, YT!Main, YT!Selected, YT!Reported,
         YT!Stopped
<1>2. hist' \in Histories /\ hist'.delivered = hist.delivered /\ hist'.failed = hist.failed
  <2>1. CASE YT!ServerEnds
    BY <1>0, <2>1, SMTT(30) DEF YT!ServerEnds, Histories
  <2>2. CASE ~YT!ServerEnds
    BY <1>0, <2>2 DEF YT!Take, YT!TwitchEnds, YT!Signal, YT!Main, YT!Selected, YT!Reported,
                      YT!Stopped
  <2>3. QED
    BY <2>1, <2>2
<1>3. messages' \in Seq(Nat \cup {YT!EndEvent}) /\ Len(messages') <= YouTubeQueue
  <2>1. CASE YT!Take
    <3>1. messages # <<>> /\ messages' = Tail(messages) /\ YouTubeQueue \in Nat
      BY <2>1 DEF YT!Take, YT!ConstantsOK
    <3>2. QED
      BY <1>0, <3>1, HeadTailProperties, LenProperties DEF Shapes
  <2>2. CASE ~YT!Take
    BY <1>0, <2>2 DEF Shapes, YT!ServerEnds, YT!TwitchEnds, YT!Signal, YT!Main, YT!Selected,
                      YT!Reported, YT!Stopped
  <2>3. QED
    BY <2>1, <2>2
<1>4. /\ main' \in Waiters
      /\ main'.youtube # "running" => main.youtube # "running"
      /\ main'.youtube = "failed" => main.youtube = "failed"
      /\ main'.pc = "returned" => main'.server = "received"
  <2>1. CASE YT!Take
    BY <1>0, <2>1 DEF YT!Take, YT!ServerEndsFirst
  <2>2. CASE YT!ServerEnds
    BY <1>0, <2>2 DEF YT!ServerEnds, Waiters, YT!ServerEndsFirst
  <2>3. CASE YT!TwitchEnds
    BY <1>0, <2>3 DEF YT!TwitchEnds, Waiters, YT!ServerEndsFirst
  <2>4. CASE YT!Signal
    BY <1>0, <2>4 DEF YT!Signal, Waiters, YT!ServerEndsFirst
  <2>5. CASE YT!Selected
    <3>. DEFINE r == IF main.youtube = "nil" THEN "unexpected" ELSE "youtube"
    <3>0. r \in {"unexpected", "youtube"}
      OBVIOUS
    <3>1. \/ main' = [main EXCEPT !.pc = "stopping", !.result = "nil"]
          \/ main' = [main EXCEPT !.pc = "returned", !.serverCtx = FALSE,
                                  !.server = "received", !.result = "server"]
          \/ /\ main.youtube \in {"nil", "failed"}
             /\ main' = [main EXCEPT !.pc = "stopping", !.serverCtx = FALSE,
                                     !.youtube = "received", !.result = r]
          \/ main' = [main EXCEPT !.pc = "report", !.twitch = "received"]
      BY <2>5, Zenon DEF YT!Selected
    <3>. HIDE DEF r
    <3>2. CASE main' = [main EXCEPT !.pc = "stopping", !.result = "nil"]
      BY <1>0, <3>2 DEF Waiters
    <3>3. CASE main' = [main EXCEPT !.pc = "returned", !.serverCtx = FALSE,
                                    !.server = "received", !.result = "server"]
      BY <1>0, <3>3 DEF Waiters
    <3>4. CASE /\ main.youtube \in {"nil", "failed"}
               /\ main' = [main EXCEPT !.pc = "stopping", !.serverCtx = FALSE,
                                       !.youtube = "received", !.result = r]
      BY <1>0, <3>0, <3>4 DEF Waiters
    <3>5. CASE main' = [main EXCEPT !.pc = "report", !.twitch = "received"]
      BY <1>0, <3>5 DEF Waiters
    <3>6. QED
      BY <3>1, <3>2, <3>3, <3>4, <3>5
  <2>6. CASE YT!Reported
    BY <1>0, <2>6 DEF YT!Reported, Waiters, YT!ServerEndsFirst
  <2>7. CASE YT!Stopped
    BY <1>0, <2>7 DEF YT!Stopped, Waiters, YT!ServerEndsFirst
  <2>8. QED
    BY <2>1, <2>2, <2>3, <2>4, <2>5, <2>6, <2>7 DEF YT!Main
<1>5. Shapes' /\ YT!ServerEndsFirst'
  BY <1>0, <1>1, <1>2, <1>3, <1>4 DEF Shapes, ProviderOK, YT!ServerEndsFirst
<1>6. QED
  BY <1>1, <1>2, <1>4, <1>5, BesideAdapter

-----------------------------------------------------------------------------
(* The steps of the adapter.                                               *)

LEMMA AdapterRuns ==
    ASSUME YouTubeInv, Shapes', UNCHANGED main, yt.pc # "ended",
           TokenIsPosition', PageIsConsecutive', YT!SessionIsGapless', WaitsDouble', Unfound'
    PROVE  YouTubeInv'
  BY DEF YouTubeInv, EndedForGood, YT!EndedChatsAreSurvived, YT!ServerEndsFirst

\* A step that finds no fault with what it asks for.
LEMMA Found ==
    ASSUME YouTubeInv, yt.pc \notin {"returned", "ended"}, yt'.pc # "discover",
           yt'.error \in {yt.error, "nil", "plain", "noActiveBroadcast"}
    PROVE  Unfound'
  BY DEF YouTubeInv, Unfound

\* A step that only leaves the session, or goes on where it was.
LEMMA SessionGoesOn ==
    ASSUME YouTubeInv, Shapes', UNCHANGED main, yt.pc # "ended",
           hist'.delivered = hist.delivered,
           \/ yt'.pc \notin {"stream", "publish", "backoff"}
           \/ /\ yt.pc \in {"stream", "backoff"} /\ yt'.pc \in {"stream", "backoff"}
              /\ yt'.chat = yt.chat /\ yt'.token = yt.token /\ yt'.page = yt.page,
           WaitsDouble', Unfound'
    PROVE  YouTubeInv'
<1>1. TokenIsPosition' /\ PageIsConsecutive' /\ YT!SessionIsGapless'
  BY DEF YouTubeInv, TokenIsPosition, PageIsConsecutive, YT!SessionIsGapless, InSession,
         LastDelivered, Pending, Follows
<1>2. QED
  BY <1>1, AdapterRuns

LEMMA UnauthorizedStep ==
    ASSUME YT!ConstantsOK, YouTubeInv, YT!Unauthorized
    PROVE  YouTubeInv'
<1>0. Shapes
  BY DEF YouTubeInv
<1>1. /\ yt.pc \in {"discover", "stream"}
      /\ yt' = [yt EXCEPT !.retried = TRUE]
      /\ provider' = [provider EXCEPT !.access = "valid"]
      /\ UNCHANGED <<messages, main, hist>>
  BY DEF YT!Unauthorized, YT!Requesting
<1>2. /\ yt' \in Adapters /\ yt'.pc = yt.pc /\ yt'.chat = yt.chat /\ yt'.token = yt.token
      /\ yt'.page = yt.page /\ yt'.backoff = yt.backoff /\ yt'.error = yt.error
  BY <1>0, <1>1 DEF Shapes, Adapters
<1>3. ProviderOK'
  BY <1>0, <1>1 DEF Shapes, ProviderOK
<1>4. Shapes'
  BY <1>0, <1>1, <1>2, <1>3 DEF Shapes
<1>5. WaitsDouble' /\ Unfound'
  BY <1>1, <1>2 DEF YouTubeInv, WaitsDouble, Unfound, YT!WaitAfter
<1>6. QED
  BY <1>1, <1>2, <1>4, <1>5, SessionGoesOn

\* Only a recoverable failure of the stream is followed by a wait, and only the search
\* for a broadcast returns that something was not found.
LEMMA RequestFailsStep ==
    ASSUME YT!ConstantsOK, YouTubeInv, YT!RequestFails
    PROVE  YouTubeInv'
<1>0. Shapes /\ yt \in Adapters /\ hist \in Histories
  BY DEF YouTubeInv, Shapes
<1>1. PICK answer \in YT!Failures \cup {"unauthorized"} :
         /\ IF yt.pc = "discover" THEN YT!OnDiscoverError(YT!Kind(answer))
                                  ELSE YT!OnStreamError(YT!Kind(answer))
         /\ hist' = [hist EXCEPT !.faults = IF answer = "unauthorized" THEN @ ELSE @ + 1,
                                 !.failed = IF yt.pc = "stream" THEN @ + 1 ELSE @]
  BY DEF YT!RequestFails, YT!ConstantsOK
<1>2. yt.pc \in {"discover", "stream"} /\ UNCHANGED <<provider, messages, main>>
  BY DEF YT!RequestFails, YT!Requesting
<1>3. /\ hist' \in Histories /\ hist'.delivered = hist.delivered
      /\ yt.pc = "stream" => hist'.failed = hist.failed + 1
  <2>. DEFINE f == IF answer = "unauthorized" THEN hist.faults ELSE hist.faults + 1
              k == IF yt.pc = "stream" THEN hist.failed + 1 ELSE hist.failed
  <2>1. f \in Nat /\ k \in Nat /\ (yt.pc = "stream" => k = hist.failed + 1)
    BY <1>0 DEF Histories
  <2>2. hist' = [hist EXCEPT !.faults = f, !.failed = k]
    BY <1>1
  <2>. HIDE DEF f, k
  <2>3. QED
    BY <1>0, <2>1, <2>2 DEF Histories
<1>4. YT!Kind(answer) \in {"chatEnded", "notFound", "quota", "recoverable",
                         "authentication", "terminal", "plain"}
  BY <1>1 DEF YT!Kind, YT!Failures
<1>5. yt.error \notin {"chatEnded", "notFound"} /\ (yt.pc = "discover" => yt.chat = 0)
  BY <1>2 DEF YouTubeInv, Unfound
<1>6. /\ yt' \in Adapters /\ yt'.chat = yt.chat /\ yt'.token = yt.token
      /\ yt'.page = yt.page /\ yt'.backoff = yt.backoff
      /\ yt'.pc \in {"returned", "backoff"}
      /\ yt'.pc = "backoff" => /\ yt.pc = "stream" /\ yt.backoff <= yt'.wait
                               /\ 2 * yt'.wait <= 3 * yt.backoff
                               /\ yt'.error \notin {"chatEnded", "notFound"}
      /\ yt'.error \in {"chatEnded", "notFound"} => yt.pc = "discover"
  <2>1. CASE yt.pc = "discover"
    <3>1. yt' = [yt EXCEPT !.pc = "returned", !.error = YT!Kind(answer), !.retried = FALSE]
      BY <1>1, <2>1 DEF YT!OnDiscoverError
    <3>2. QED
      BY ZenonT(30), <1>0, <1>4, <2>1, <3>1 DEF Adapters
  <2>2. CASE yt.pc = "stream" /\ YT!BacksOff
    <3>1. PICK j \in 0 .. yt.backoff \div 2 :
             yt' = [yt EXCEPT !.pc = "backoff", !.wait = yt.backoff + j, !.retried = FALSE]
      BY <2>2 DEF YT!BacksOff
    <3>2. yt.backoff \in 2 .. 60
      BY <1>0 DEF Adapters
    <3>. DEFINE pause == yt.backoff + j
    <3>3. pause \in 0 .. 90 /\ yt.backoff <= pause /\ 2 * pause <= 3 * yt.backoff
      BY <3>2
    <3>4. yt' = [yt EXCEPT !.pc = "backoff", !.wait = pause, !.retried = FALSE]
      BY <3>1
    <3>. HIDE DEF pause
    <3>5. QED
      BY <1>0, <1>5, <2>2, <3>3, <3>4 DEF Adapters
  <2>3. CASE yt.pc = "stream" /\ ~YT!BacksOff
    <3>1. PICK kind \in {"nil", "quota", "authentication", "terminal", "plain"} :
             yt' = [yt EXCEPT !.pc = "returned", !.error = kind, !.retried = FALSE]
      BY <1>1, <1>4, <2>3 DEF YT!OnStreamError
    <3>2. QED
      BY <1>0, <2>3, <3>1 DEF Adapters
  <2>4. QED
    BY <1>2, <2>1, <2>2, <2>3
<1>7. Shapes' /\ Unfound'
  BY <1>0, <1>2, <1>3, <1>5, <1>6 DEF Shapes, ProviderOK, Unfound
<1>8. WaitsDouble'
  <2>1. hist.failed \in Nat
    BY <1>0 DEF Histories
  <2>2. QED
    BY <1>3, <1>6, <2>1 DEF YouTubeInv, WaitsDouble
<1>9. QED
  BY <1>2, <1>3, <1>6, <1>7, <1>8, SessionGoesOn

\* An answer starts the waits again.
LEMMA WaitsAnew ==
    ASSUME NEW y \in Adapters
    PROVE  [y EXCEPT !.backoff = 2, !.retried = FALSE] \in Adapters
<1>1. [y EXCEPT !.backoff = 2] \in Adapters
  <2>1. \A b \in 2 .. 60 : [y EXCEPT !.backoff = b] \in Adapters
    BY Zenon DEF Adapters
  <2>2. 2 \in 2 .. 60
    OBVIOUS
  <2>3. QED
    BY <2>1, <2>2
<1>. DEFINE z == [y EXCEPT !.backoff = 2]
<1>. HIDE DEF z
<1>2. [z EXCEPT !.retried = FALSE] \in Adapters
  BY <1>1 DEF Adapters, z
<1>3. QED
  BY <1>2 DEF z

\* A session begins with nothing delivered and no failures.
LEMMA DiscoverStep ==
    ASSUME YT!ConstantsOK, YouTubeInv, YT!Discover
    PROVE  YouTubeInv'
<1>0. Shapes /\ yt \in Adapters /\ hist \in Histories /\ FixedVideo \in BOOLEAN
      /\ MaxMessages \in Nat
  BY DEF YouTubeInv, Shapes, YT!ConstantsOK
<1>1. yt.pc = "discover" /\ UNCHANGED <<provider, messages, main>>
      /\ hist' = [hist EXCEPT !.failed = 0, !.delivered = <<>>]
  BY DEF YT!Discover
<1>2. hist' \in Histories /\ hist'.failed = 0 /\ hist'.delivered = <<>>
  <2>1. <<>> \in Seq(Items)
    OBVIOUS
  <2>2. QED
    BY <1>0, <1>1, <2>1 DEF Histories
<1>3. YT!SessionIsGapless'
  BY <1>2 DEF YT!SessionIsGapless
<1>4. CASE provider.live
  <2>1. yt' = [yt EXCEPT !.pc = "stream", !.chat = YT!LiveChat, !.token = 0,
                         !.backoff = 2, !.retried = FALSE]
    BY <1>4 DEF YT!Discover
  <2>2. YT!LiveChat \in 0 .. MaxMessages /\ YT!LiveChat > 0 /\ 0 \in 0 .. MaxMessages
    BY <1>0, <1>4, ChatFacts DEF Shapes
  <2>3. /\ yt' \in Adapters /\ yt'.pc = "stream" /\ yt'.chat > 0 /\ yt'.backoff = 2
        /\ yt'.error = yt.error
    <3>1. /\ yt'.pc = "stream" /\ yt'.chat = YT!LiveChat /\ yt'.backoff = 2 /\ yt'.token = 0
          /\ yt'.page = yt.page /\ yt'.error = yt.error /\ yt'.retried = FALSE
      BY <1>0, <2>1 DEF Adapters
    <3>2. [yt EXCEPT !.pc = "stream", !.chat = YT!LiveChat, !.token = 0] \in Adapters
      BY <1>0, <2>2 DEF Adapters
    <3>3. yt' \in Adapters
      <4>. DEFINE y == [yt EXCEPT !.pc = "stream", !.chat = YT!LiveChat, !.token = 0]
      <4>1. yt' = [y EXCEPT !.backoff = 2, !.retried = FALSE]
        BY <2>1
      <4>. HIDE DEF y
      <4>2. y \in Adapters
        BY <3>2 DEF y
      <4>3. QED
        BY <4>1, <4>2, WaitsAnew
    <3>4. QED
      BY <2>2, <3>1, <3>3
  <2>4. Shapes' /\ TokenIsPosition' /\ PageIsConsecutive' /\ WaitsDouble'
    BY <1>0, <1>1, <1>2, <2>3
    DEF Shapes, ProviderOK, TokenIsPosition, PageIsConsecutive, WaitsDouble, YT!WaitAfter,
        Follows
  <2>5. Unfound'
    BY <1>1, <2>3, Found
  <2>6. QED
    BY <1>1, <1>3, <2>4, <2>5, AdapterRuns
<1>5. CASE ~provider.live
  <2>1. PICK kind \in {"plain", "noActiveBroadcast"} :
           yt' = [yt EXCEPT !.pc = "returned", !.error = kind, !.retried = FALSE]
    BY <1>0, <1>5 DEF YT!Discover, YT!OnDiscoverError
  <2>2. yt' \in Adapters /\ yt'.pc = "returned" /\ yt'.error = kind
    BY <1>0, <2>1 DEF Adapters
  <2>3. Shapes' /\ TokenIsPosition' /\ PageIsConsecutive' /\ WaitsDouble'
    BY <1>0, <1>1, <1>2, <2>2
    DEF Shapes, ProviderOK, TokenIsPosition, PageIsConsecutive, InSession, WaitsDouble
  <2>4. Unfound'
    BY <1>1, <2>2, Found
  <2>5. QED
    BY <1>1, <1>3, <2>3, <2>4, AdapterRuns
<1>6. QED
  BY <1>4, <1>5

\* The next wait is twice as long.
LEMMA BackedOffStep ==
    ASSUME YT!ConstantsOK, YouTubeInv, YT!BackedOff
    PROVE  YouTubeInv'
<1>0. Shapes /\ yt \in Adapters /\ hist \in Histories
  BY DEF YouTubeInv, Shapes
<1>1. yt.pc = "backoff" /\ UNCHANGED <<provider, messages, main, hist>>
      /\ yt' = [yt EXCEPT !.pc = "stream", !.backoff = YT!Doubled(@), !.wait = 0]
  BY DEF YT!BackedOff
<1>2. yt.backoff = YT!WaitAfter(hist.failed) /\ hist.failed \in Nat \ {0}
  BY <1>0, <1>1 DEF YouTubeInv, WaitsDouble, Histories
<1>3. YT!Doubled(yt.backoff) = YT!WaitAfter(hist.failed + 1) /\ YT!Doubled(yt.backoff) \in 2 .. 60
  <2>1. CASE hist.failed \in 1 .. 4
    <3>1. hist.failed = 1 \/ hist.failed = 2 \/ hist.failed = 3 \/ hist.failed = 4
      BY <2>1
    <3>2. QED
      BY <1>2, <3>1 DEF YT!WaitAfter, YT!Doubled
  <2>2. CASE hist.failed >= 5
    BY <1>2, <2>2 DEF YT!WaitAfter, YT!Doubled
  <2>3. QED
    BY <1>2, <2>1, <2>2
<1>4. /\ yt' \in Adapters /\ yt'.pc = "stream" /\ yt'.chat = yt.chat /\ yt'.token = yt.token
      /\ yt'.page = yt.page /\ yt'.backoff = YT!Doubled(yt.backoff) /\ yt'.error = yt.error
  <2>. DEFINE b == YT!Doubled(yt.backoff)
  <2>1. b \in 2 .. 60 /\ 0 \in 0 .. 90
    BY <1>3
  <2>2. yt' = [yt EXCEPT !.pc = "stream", !.backoff = b, !.wait = 0]
    BY <1>1
  <2>. HIDE DEF b
  <2>3. [yt EXCEPT !.pc = "stream", !.backoff = b] \in Adapters
    BY <1>0, <2>1 DEF Adapters
  <2>4. yt' \in Adapters
    BY <1>0, <2>1, <2>2, <2>3 DEF Adapters
  <2>5. QED
    BY <1>0, <2>2, <2>4 DEF Adapters, b
<1>5. Shapes' /\ WaitsDouble'
  BY <1>0, <1>1, <1>3, <1>4 DEF Shapes, ProviderOK, WaitsDouble, YT!WaitAfter
<1>6. Unfound'
  BY <1>1, <1>4, Found
<1>7. QED
  BY <1>1, <1>4, <1>5, <1>6, SessionGoesOn

LEMMA RunServerStep ==
    ASSUME YT!ConstantsOK, YouTubeInv, YT!RunReturned \/ YT!Delayed \/ YT!AdapterCancelled
    PROVE  YouTubeInv'
<1>0. Shapes /\ yt \in Adapters /\ main \in Waiters
  BY DEF YouTubeInv, Shapes
<1>1. yt.pc # "ended" /\ UNCHANGED <<provider, messages, hist>>
  BY DEF YT!RunReturned, YT!Delayed, YT!AdapterCancelled
<1>2. main.youtube = "running"
  BY <1>0, <1>1 DEF YouTubeInv, EndedForGood, Waiters
<1>3. /\ yt' \in Adapters /\ yt'.pc \notin {"stream", "publish", "backoff"}
      /\ main' \in Waiters /\ main'.pc = main.pc /\ main'.server = main.server
      /\ main'.youtube # "running" => yt'.pc = "ended"
      /\ main'.youtube = "failed" =>
           \/ yt'.error \in {"authentication", "terminal", "plain"}
           \/ yt'.error \in {"chatEnded", "notFound"} /\ yt'.chat = 0
      /\ Unfound'
  <2>1. CASE YT!RunReturned /\ YT!Waits(yt.error)
    <3>1. \E p \in {"quotaDelay", "retryDelay"} : yt' = [yt EXCEPT !.pc = p]
      BY <2>1, Zenon DEF YT!RunReturned
    <3>2. UNCHANGED main
      BY <2>1, Zenon DEF YT!RunReturned
    <3>3. yt.error \notin {"chatEnded", "notFound"}
      BY <2>1 DEF YT!Waits
    <3>4. QED
      BY ZenonT(30), <1>0, <1>2, <3>1, <3>2, <3>3 DEF Adapters, Unfound
  <2>2. CASE YT!RunReturned /\ ~YT!Waits(yt.error)
    <3>1. /\ yt' = [yt EXCEPT !.pc = "ended"]
          /\ main' = [main EXCEPT !.youtube = "failed"]
      BY <2>2 DEF YT!RunReturned
    <3>2. \/ yt.error \in {"authentication", "terminal", "plain"}
          \/ yt.error \in {"chatEnded", "notFound"} /\ yt.chat = 0
      BY <1>0, <2>2 DEF YT!Waits, Adapters, YouTubeInv, Unfound
    <3>3. QED
      BY ZenonT(30), <1>0, <3>1, <3>2 DEF Adapters, Waiters, Unfound
  <2>3. CASE YT!Delayed
    <3>1. /\ yt' = [yt EXCEPT !.pc = "discover", !.chat = 0, !.token = 0, !.error = "nil"]
          /\ UNCHANGED main
      BY <2>3 DEF YT!Delayed
    <3>2. 0 \in 0 .. MaxMessages
      BY DEF YT!ConstantsOK
    <3>3. yt' \in Adapters /\ yt'.pc = "discover" /\ yt'.chat = 0 /\ yt'.error = "nil"
      BY <1>0, <3>1, <3>2 DEF Adapters
    <3>4. QED
      BY <1>0, <1>2, <3>1, <3>3 DEF Unfound
  <2>4. CASE YT!AdapterCancelled
    <3>1. YT!NoPage \in [items : Seq(Items), token : 0 .. MaxMessages, offline : BOOLEAN]
      BY DEF YT!NoPage, YT!ConstantsOK
    <3>2. /\ yt' = [yt EXCEPT !.pc = "ended", !.page = YT!NoPage, !.wait = 0]
          /\ main' = [main EXCEPT !.youtube = "nil"]
      BY <2>4 DEF YT!AdapterCancelled
    <3>3. yt.error \in {"chatEnded", "notFound"} => yt.chat = 0
      BY DEF YouTubeInv, Unfound
    <3>4. main' \in Waiters /\ main'.pc = main.pc /\ main'.server = main.server
          /\ main'.youtube = "nil"
      BY <1>0, <3>2 DEF Waiters
    <3>5. [yt EXCEPT !.pc = "ended", !.page = YT!NoPage] \in Adapters
      BY <1>0, <3>1 DEF Adapters
    <3>6. 0 \in 0 .. 90
      OBVIOUS
    <3>7. yt' \in Adapters
      BY ZenonT(30), <1>0, <3>2, <3>5, <3>6 DEF Adapters
    <3>8. yt'.pc = "ended" /\ yt'.error = yt.error /\ yt'.chat = yt.chat
      BY <1>0, <3>2 DEF Adapters
    <3>9. QED
      BY <3>3, <3>4, <3>7, <3>8 DEF Unfound
  <2>5. QED
    BY <2>1, <2>2, <2>3, <2>4
<1>4. Shapes' /\ WaitsDouble' /\ YT!ServerEndsFirst'
  BY <1>0, <1>1, <1>3 DEF YouTubeInv, Shapes, ProviderOK, WaitsDouble, YT!ServerEndsFirst
<1>5. TokenIsPosition' /\ PageIsConsecutive' /\ YT!SessionIsGapless'
  BY <1>1, <1>3 DEF YouTubeInv, TokenIsPosition, PageIsConsecutive, InSession,
                    YT!SessionIsGapless
<1>6. QED
  BY <1>3, <1>4, <1>5 DEF YouTubeInv, EndedForGood, YT!EndedChatsAreSurvived

-----------------------------------------------------------------------------
(* What is streamed and passed on.                                         *)

LEMMA NumbersFacts ==
    ASSUME MaxMessages \in Nat, NEW a \in Nat \ {0}, NEW b \in 0 .. MaxMessages, b >= a - 1
    PROVE  /\ YT!Numbers(a, b) \in Seq(Items) /\ Len(YT!Numbers(a, b)) = b - a + 1
           /\ \A i \in 1 .. (b - a + 1) : YT!Numbers(a, b)[i] = a + i - 1
<1>1. b - a + 1 \in Nat
  OBVIOUS
<1>2. \A i \in 1 .. (b - a + 1) : a + i - 1 \in Items
  BY DEF Items
<1>3. QED
  BY <1>1, <1>2 DEF YT!Numbers

\* The response v holds the messages from a to the last one, and possibly the end of
\* the chat; its token is that of the last message.
Continues(v, a, last, byEvent) ==
    /\ v \in [items : Seq(Items), token : 0 .. MaxMessages, offline : BOOLEAN]
    /\ byEvent => Len(v.items) = last - a + 2 /\ v.items[Len(v.items)] = YT!EndEvent
    /\ ~byEvent => Len(v.items) = last - a + 1
    /\ \A i \in 1 .. (last - a + 1) : v.items[i] = a + i - 1
    /\ v.token = IF a <= last THEN last ELSE 0

\* That is so however the stream is cut.
LEMMA Streamed ==
    ASSUME MaxMessages \in Nat,
           NEW a \in Nat \ {0}, NEW cut \in Nat, NEW last \in 0 .. MaxMessages,
           a - 1 <= cut, cut <= last, NEW over \in BOOLEAN, NEW byEvent \in BOOLEAN,
           NEW v, v = YT!Merge(YT!Page(a, cut), YT!Closing(YT!Page(cut + 1, last), over, byEvent))
    PROVE  Continues(v, a, last, byEvent)
<1>. DEFINE s == YT!Numbers(a, cut)
            t == YT!Numbers(cut + 1, last)
            u == IF byEvent THEN Append(t, YT!EndEvent) ELSE t
            second == YT!Closing(YT!Page(cut + 1, last), over, byEvent)
<1>0. /\ a \in Int /\ cut \in Int /\ last \in Int /\ MaxMessages \in Int
      /\ cut \in 0 .. MaxMessages /\ cut + 1 \in Nat \ {0} /\ last >= (cut + 1) - 1
  OBVIOUS
<1>1. /\ s \in Seq(Items) /\ Len(s) = cut - a + 1
      /\ \A i \in 1 .. (cut - a + 1) : s[i] = a + i - 1
  BY <1>0, NumbersFacts
<1>2. /\ t \in Seq(Items) /\ Len(t) = last - cut
      /\ \A i \in 1 .. (last - cut) : t[i] = cut + i
  <2>1. /\ t \in Seq(Items) /\ Len(t) = last - (cut + 1) + 1
        /\ \A i \in 1 .. (last - (cut + 1) + 1) : t[i] = (cut + 1) + i - 1
    BY <1>0, NumbersFacts
  <2>. HIDE DEF t
  <2>2. QED
    BY <1>0, <2>1
<1>3. /\ second.items = u /\ second.token = (IF cut + 1 <= last THEN last ELSE 0)
      /\ second.offline = (over /\ ~byEvent)
      /\ v = YT!Merge(YT!Page(a, cut), second)
  BY DEF YT!Closing, YT!Page
<1>. HIDE DEF t, second
<1>4. /\ u \in Seq(Items)
      /\ byEvent => Len(u) = last - cut + 1 /\ u[last - cut + 1] = YT!EndEvent
      /\ ~byEvent => Len(u) = last - cut
      /\ \A i \in 1 .. (last - cut) : u[i] = cut + i
  <2>1. YT!EndEvent \in Items
    BY DEF Items
  <2>2. CASE byEvent
    BY <1>2, <2>1, <2>2, AppendProperties
  <2>3. CASE ~byEvent
    BY <1>2, <2>3
  <2>4. QED
    BY <2>2, <2>3
<1>. HIDE DEF u
<1>5. v = [items |-> s \o u,
           token |-> IF second.token # 0 THEN second.token
                     ELSE IF a <= cut THEN cut ELSE 0,
           offline |-> FALSE \/ second.offline]
  BY <1>3 DEF YT!Merge, YT!Page
<1>. HIDE DEF s
<1>6. v.items = s \o u /\ v.token = (IF a <= last THEN last ELSE 0)
  <2>1. v.items = s \o u /\ v.token = (IF second.token # 0 THEN second.token
                                       ELSE IF a <= cut THEN cut ELSE 0)
    BY <1>5
  <2>2. QED
    BY <1>0, <1>3, <2>1
<1>7. v.offline \in BOOLEAN
  <2>1. second.offline \in BOOLEAN
    BY <1>3, Zenon
  <2>2. v.offline = (FALSE \/ second.offline)
    BY <1>5
  <2>3. QED
    BY <2>1, <2>2, Zenon
<1>8. /\ v.items \in Seq(Items) /\ Len(v.items) = Len(s) + Len(u)
      /\ \A i \in 1 .. Len(s) + Len(u) :
            v.items[i] = IF i <= Len(s) THEN s[i] ELSE u[i - Len(s)]
  <2>1. /\ s \o u \in Seq(Items) /\ Len(s \o u) = Len(s) + Len(u)
        /\ \A i \in 1 .. Len(s) + Len(u) :
              (s \o u)[i] = IF i <= Len(s) THEN s[i] ELSE u[i - Len(s)]
    BY <1>1, <1>4, ConcatProperties
  <2>2. v.items = s \o u
    BY <1>6
  <2>3. QED
    BY ONLY <2>1, <2>2
<1>9. Len(s) \in Nat /\ Len(u) \in Nat /\ Len(v.items) = Len(s) + Len(u)
  <2>1. Len(s) \in Nat /\ Len(u) \in Nat
    BY <1>1, <1>4, LenProperties
  <2>2. QED
    BY <1>8, <2>1
<1>10. /\ byEvent => Len(v.items) = last - a + 2 /\ v.items[Len(v.items)] = YT!EndEvent
       /\ ~byEvent => Len(v.items) = last - a + 1
  <2>1. CASE byEvent
    <3>1. Len(u) = last - cut + 1 /\ u[last - cut + 1] = YT!EndEvent
      BY <1>4, <2>1
    <3>2. Len(v.items) = last - a + 2
      BY ONLY <1>0, <1>1, <1>9, <3>1
    <3>3. v.items[last - a + 2] = u[last - cut + 1]
      <4>1. last - a + 2 \in 1 .. Len(s) + Len(u) /\ ~(last - a + 2 <= Len(s))
            /\ last - a + 2 - Len(s) = last - cut + 1
        BY <1>0, <1>1, <3>1
      <4>2. v.items[last - a + 2] = u[last - a + 2 - Len(s)]
        BY ONLY <1>8, <4>1
      <4>3. QED
        BY <4>1, <4>2
    <3>4. QED
      BY <2>1, <3>1, <3>2, <3>3
  <2>2. CASE ~byEvent
    <3>1. Len(u) = last - cut
      BY <1>4, <2>2
    <3>2. Len(v.items) = last - a + 1
      BY ONLY <1>0, <1>1, <1>9, <3>1
    <3>3. QED
      BY <2>2, <3>2
  <2>3. QED
    BY <2>1, <2>2
<1>11. ASSUME NEW i \in 1 .. (last - a + 1)
       PROVE  v.items[i] = a + i - 1
  <2>1. Len(u) >= last - cut
    BY <1>0, <1>4
  <2>2. i \in Int /\ i \in 1 .. Len(s) + Len(u)
    BY <1>0, <1>1, <1>9, <2>1
  <2>3. CASE i <= cut - a + 1
    BY <1>0, <1>1, <1>8, <2>2, <2>3
  <2>4. CASE ~(i <= cut - a + 1)
    <3>1. i - Len(s) \in 1 .. (last - cut) /\ cut + (i - Len(s)) = a + i - 1
      BY <1>0, <1>1, <2>2, <2>4
    <3>2. v.items[i] = u[i - Len(s)]
      BY <1>0, <1>1, <1>8, <2>2, <2>4
    <3>3. QED
      BY <1>4, <3>1, <3>2
  <2>5. QED
    BY <2>3, <2>4
<1>12. v \in [items : Seq(Items), token : 0 .. MaxMessages, offline : BOOLEAN]
  <2>1. v = [items |-> v.items, token |-> v.token, offline |-> v.offline]
    BY <1>5
  <2>2. v.token \in 0 .. MaxMessages
    BY <1>0, <1>6
  <2>3. QED
    BY <1>7, <1>8, <2>1, <2>2
<1>13. QED
  BY <1>6, <1>10, <1>11, <1>12 DEF Continues

\* Every message delivered in a session has a number.
LEMMA DeliveredFacts ==
    ASSUME hist \in Histories, hist.delivered # <<>>
    PROVE  LastDelivered \in Items
  BY LenProperties, ElementOfSeq DEF Histories, LastDelivered

\* An answer of the stream goes on after the token.
LEMMA StreamStep ==
    ASSUME YT!ConstantsOK, YouTubeInv, YT!Stream
    PROVE  YouTubeInv'
<1>. DEFINE last == YT!LastOf(yt.chat)
            position(v) == IF v.token # 0 THEN v.token ELSE yt.token
<1>0. /\ Shapes /\ yt \in Adapters /\ hist \in Histories /\ MaxMessages \in Nat
      /\ yt.pc = "stream" /\ yt.chat \in 1 .. MaxMessages
      /\ yt.token \in 0 .. MaxMessages
      /\ hist.delivered # <<>> => LastDelivered # YT!EndEvent
      /\ Follows(yt.token + 1)
  BY DEF YouTubeInv, Shapes, YT!ConstantsOK, YT!Stream, TokenIsPosition, InSession, Adapters
<1>1. last \in 0 .. MaxMessages
  <2>1. ProviderOK /\ yt.chat \in Nat
    BY <1>0 DEF Shapes
  <2>2. \A chat \in Nat : YT!LastOf(chat) \in 0 .. MaxMessages
    BY <2>1, ChatFacts
  <2>3. QED
    BY <2>1, <2>2
<1>. HIDE DEF last
<1>2. PICK a \in yt.chat .. last + 1, cut \in 0 .. last, byEvent \in BOOLEAN :
         LET over == YT!LiveChat # yt.chat
             v == YT!Merge(YT!Page(a, cut), YT!Closing(YT!Page(cut + 1, last), over, byEvent))
             token == IF v.token # 0 THEN v.token ELSE yt.token
         IN  /\ yt.token # 0 => a = yt.token + 1
             /\ cut >= a - 1
             /\ byEvent => over
             /\ yt' = [yt EXCEPT !.pc = "publish", !.page = v, !.backoff = 2,
                                 !.token = token, !.retried = FALSE]
             /\ hist' = [hist EXCEPT !.failed = 0, !.known = <<yt.chat, token>>,
                           !.anew = \/ @
                                    \/ /\ yt.token = 0 /\ hist.known[1] = yt.chat
                                       /\ hist.known[2] # 0]
  BY Zenon DEF YT!Stream, last
<1>. DEFINE over == YT!LiveChat # yt.chat
            v == YT!Merge(YT!Page(a, cut), YT!Closing(YT!Page(cut + 1, last), over, byEvent))
            s == v.items
            token == position(v)
            anew == hist.anew \/ (yt.token = 0 /\ hist.known[1] = yt.chat
                                  /\ hist.known[2] # 0)
<1>3. /\ yt.token # 0 => a = yt.token + 1
      /\ cut >= a - 1
      /\ yt' = [[yt EXCEPT !.pc = "publish", !.page = v, !.token = token]
                    EXCEPT !.backoff = 2, !.retried = FALSE]
      /\ hist' = [hist EXCEPT !.failed = 0, !.known = <<yt.chat, token>>, !.anew = anew]
  <2>1. yt' = [yt EXCEPT !.pc = "publish", !.page = v, !.backoff = 2,
                         !.token = token, !.retried = FALSE]
    BY <1>2
  <2>. HIDE DEF v, token
  <2>2. yt' = [[yt EXCEPT !.pc = "publish", !.page = v, !.token = token]
                    EXCEPT !.backoff = 2, !.retried = FALSE]
    BY <1>0, <2>1 DEF Adapters
  <2>3. QED
    BY <1>2, <2>2 DEF v, token
<1>4. UNCHANGED <<provider, messages, main>>
  BY DEF YT!Stream
<1>5. /\ a \in Nat \ {0} /\ a \in Int /\ a <= last + 1 /\ cut \in Nat
      /\ last \in Int /\ a - 1 <= cut /\ cut <= last
  BY <1>0, <1>1, <1>3
<1>6. over \in BOOLEAN /\ anew \in BOOLEAN
  BY <1>0, Zenon DEF Histories
<1>7. /\ v \in [items : Seq(Items), token : 0 .. MaxMessages, offline : BOOLEAN]
      /\ byEvent => Len(s) = last - a + 2 /\ s[Len(s)] = YT!EndEvent
      /\ ~byEvent => Len(s) = last - a + 1
      /\ \A i \in 1 .. (last - a + 1) : s[i] = a + i - 1
      /\ v.token = IF a <= last THEN last ELSE 0
  <2>. HIDE DEF v, over
  <2>1. v = YT!Merge(YT!Page(a, cut), YT!Closing(YT!Page(cut + 1, last), over, byEvent))
    BY DEF v
  <2>2. MaxMessages \in Nat /\ byEvent \in BOOLEAN
    BY <1>0
  <2>3. Continues(v, a, last, byEvent)
    BY <1>1, <1>5, <1>6, <2>1, <2>2, Streamed
  <2>4. QED
    BY <2>3 DEF Continues
<1>. HIDE DEF v, over, anew
<1>8. token \in 0 .. MaxMessages /\ (a <= last => token = last)
      /\ (~(a <= last) => token = yt.token)
  BY <1>0, <1>1, <1>5, <1>7
<1>. HIDE DEF token
<1>9. /\ yt' \in Adapters /\ yt'.pc = "publish" /\ yt'.page = v /\ yt'.token = token
      /\ yt'.chat = yt.chat /\ yt'.backoff = 2 /\ yt'.error = yt.error
  <2>. DEFINE y == [yt EXCEPT !.pc = "publish", !.page = v, !.token = token]
  <2>1. /\ y \in Adapters /\ y.pc = "publish" /\ y.page = v /\ y.token = token
        /\ y.chat = yt.chat /\ y.error = yt.error
    BY <1>0, <1>7, <1>8 DEF Adapters
  <2>2. yt' = [y EXCEPT !.backoff = 2, !.retried = FALSE]
    BY <1>3
  <2>. HIDE DEF y
  <2>3. yt' \in Adapters
    BY <2>1, <2>2, WaitsAnew
  <2>4. /\ yt'.pc = y.pc /\ yt'.page = y.page /\ yt'.token = y.token /\ yt'.chat = y.chat
        /\ yt'.backoff = 2 /\ yt'.error = y.error
    BY <2>1, <2>2 DEF Adapters
  <2>5. QED
    BY <2>1, <2>3, <2>4
<1>10. hist' \in Histories /\ hist'.delivered = hist.delivered /\ hist'.failed = 0
  <2>1. <<yt.chat, token>> \in (0 .. MaxMessages) \X (0 .. MaxMessages)
    BY <1>0, <1>8
  <2>. DEFINE known == <<yt.chat, token>>
  <2>. HIDE DEF known
  <2>2. known \in (0 .. MaxMessages) \X (0 .. MaxMessages)
        /\ hist' = [hist EXCEPT !.failed = 0, !.known = known, !.anew = anew]
    BY <1>3, <2>1 DEF known
  <2>3. QED
    BY <1>0, <1>6, <2>2 DEF Histories
<1>11. Shapes'
  BY <1>0, <1>4, <1>9, <1>10 DEF Shapes, ProviderOK
<1>12. WaitsDouble' /\ YT!SessionIsGapless'
  BY <1>9, <1>10 DEF YouTubeInv, WaitsDouble, YT!SessionIsGapless
<1>13. UNCHANGED LastDelivered /\ Pending' = s
  BY <1>9, <1>10 DEF LastDelivered, Pending
<1>14. Follows(a)
  <2>1. CASE yt.token # 0
    BY <1>0, <1>3, <2>1
  <2>2. CASE yt.token = 0
    <3>1. hist.delivered = <<>>
      BY <1>0, <2>2, DeliveredFacts DEF Follows, Items
    <3>2. QED
      BY <3>1 DEF Follows
  <2>3. QED
    BY <2>1, <2>2
<1>15. s \in Seq(Items) /\ Len(s) \in Nat /\ (s # <<>> <=> Len(s) > 0)
  BY <1>7, LenProperties, EmptySeq
<1>16. TokenIsPosition'
  <2>1. s = <<>> => token = yt.token
    BY <1>5, <1>7, <1>8, <1>15
  <2>2. s = <<>> => Follows(yt.token + 1)'
    BY <1>0, <1>9, <1>10, <1>13, <2>1 DEF Follows
  <2>3. QED
    BY <1>0, <1>9, <1>10, <1>13, <2>2 DEF TokenIsPosition
<1>17. PageIsConsecutive'
  <2>1. SUFFICES ASSUME s # <<>> PROVE PageIsConsecutive'
    BY <1>13 DEF PageIsConsecutive
  <2>2. Head(s) = s[1]
    BY <1>15, <2>1, HeadTailProperties
  <2>3. s[1] # YT!EndEvent => s[1] = a
    BY <1>5, <1>7, <1>15, <2>1
  <2>4. hist'.delivered # <<>> => LastDelivered' < a /\ (LastDelivered' + 1) .. (a - 1)
                                                           \subseteq Malformed
    BY <1>10, <1>13, <1>14 DEF Follows
  <2>5. ASSUME NEW i \in 1 .. Len(s) - 1
        PROVE  s[i] # YT!EndEvent /\ s[i + 1] \in {s[i] + 1, YT!EndEvent}
    <3>1. s[i] = a + i - 1 /\ i \in Int /\ i > 0
      BY <1>5, <1>7, <1>15
    <3>2. CASE i + 1 <= last - a + 1
      BY <1>5, <1>7, <3>1, <3>2 DEF YT!EndEvent
    <3>3. CASE ~(i + 1 <= last - a + 1)
      BY <1>5, <1>7, <1>15, <3>1, <3>3 DEF YT!EndEvent
    <3>4. QED
      BY <3>2, <3>3
  <2>6. s[Len(s)] \in {token, YT!EndEvent}
    <3>1. CASE byEvent
      BY <1>7, <3>1
    <3>2. CASE ~byEvent
      BY <1>5, <1>7, <1>8, <1>15, <2>1, <3>2
    <3>3. QED
      BY <3>1, <3>2
  <2>. HIDE DEF s
  <2>7. QED
    BY <1>9, <1>13, <2>2, <2>3, <2>4, <2>5, <2>6 DEF PageIsConsecutive, Follows
<1>18. Unfound'
  BY <1>0, <1>9, Found
<1>19. QED
  BY <1>0, <1>4, <1>11, <1>12, <1>16, <1>17, <1>18, AdapterRuns

\* The next message of the page is passed over or on; after it the one that may come
\* next is the one it is followed by.
LEMMA PublishItemStep ==
    ASSUME YT!ConstantsOK, YouTubeInv, YT!PublishItem
    PROVE  YouTubeInv'
<1>. DEFINE s == yt.page.items
            x == Head(s)
            n == Len(s)
            d == hist.delivered
            page == [yt.page EXCEPT !.items = Tail(s)]
<1>0. /\ Shapes /\ yt \in Adapters /\ hist \in Histories /\ Malformed \subseteq Nat
      /\ yt.pc = "publish" /\ yt.chat > 0
      /\ d \in Seq(Items) /\ s \in Seq(Items) /\ s # <<>>
      /\ d # <<>> => LastDelivered # YT!EndEvent
      /\ YT!SessionIsGapless
      /\ yt.backoff = 2 /\ hist.failed = 0
      /\ UNCHANGED <<provider, main>>
  BY DEF YouTubeInv, Shapes, YT!ConstantsOK, YT!PublishItem, TokenIsPosition, InSession,
         Adapters,
         Histories, WaitsDouble
<1>1. /\ x # YT!EndEvent => Follows(x)
      /\ \A i \in 1 .. n - 1 : s[i] # YT!EndEvent /\ s[i + 1] \in {s[i] + 1, YT!EndEvent}
      /\ s[n] \in {yt.token, YT!EndEvent}
  BY <1>0 DEF YouTubeInv, PageIsConsecutive, Pending
<1>2. /\ x = s[1] /\ x \in Items /\ n \in Nat \ {0}
      /\ Tail(s) \in Seq(Items) /\ Len(Tail(s)) = n - 1
      /\ \A i \in 1 .. n - 1 : Tail(s)[i] = s[i + 1]
      /\ Tail(s) = <<>> <=> n = 1
  <2>1. /\ x = s[1] /\ x \in Items /\ n \in Nat \ {0}
        /\ Tail(s) \in Seq(Items) /\ Len(Tail(s)) = n - 1
        /\ \A i \in 1 .. n - 1 : Tail(s)[i] = s[i + 1]
    BY <1>0, HeadTailProperties, LenProperties, EmptySeq
  <2>2. Tail(s) = <<>> <=> Len(Tail(s)) = 0
    BY <2>1, EmptySeq
  <2>3. QED
    BY <2>1, <2>2
<1>3. /\ page \in [items : Seq(Items), token : 0 .. MaxMessages, offline : BOOLEAN]
      /\ page.items = Tail(s)
  BY <1>0, <1>2 DEF Adapters
<1>4. \/ x \in Malformed /\ yt' = [yt EXCEPT !.page = page] /\ UNCHANGED <<messages, hist>>
      \/ /\ x \notin Malformed /\ Len(messages) < YouTubeQueue /\ messages' = Append(messages, x)
         /\ hist' = [hist EXCEPT !.delivered = Append(d, x)]
         /\ \/ x = YT!EndEvent
               /\ yt' = [yt EXCEPT !.pc = "returned", !.error = "nil", !.page = YT!NoPage]
            \/ x # YT!EndEvent /\ yt' = [yt EXCEPT !.page = page]
  BY DEF YT!PublishItem
<1>. HIDE DEF page
\* What follows x.
<1>5. ASSUME x # YT!EndEvent
      PROVE  /\ n = 1 => x = yt.token
             /\ n > 1 => s[2] \in {x + 1, YT!EndEvent}
             /\ \A i \in 1 .. n - 2 :
                   Tail(s)[i] # YT!EndEvent /\ Tail(s)[i + 1] \in {Tail(s)[i] + 1, YT!EndEvent}
             /\ n > 1 => Head(Tail(s)) = s[2] /\ Tail(s)[n - 1] = s[n]
  <2>1. n = 1 => x = yt.token
    BY <1>1, <1>2, <1>5
  <2>2. n > 1 => s[2] \in {x + 1, YT!EndEvent}
    BY <1>1, <1>2
  <2>3. ASSUME NEW i \in 1 .. n - 2
        PROVE  Tail(s)[i] # YT!EndEvent /\ Tail(s)[i + 1] \in {Tail(s)[i] + 1, YT!EndEvent}
    <3>1. /\ i + 1 \in 1 .. n - 1 /\ i \in 1 .. n - 1
          /\ Tail(s)[i] = s[i + 1] /\ Tail(s)[i + 1] = s[i + 2] /\ (i + 1) + 1 = i + 2
      BY SMTT(30), <1>2
    <3>2. s[i + 1] # YT!EndEvent /\ s[(i + 1) + 1] \in {s[i + 1] + 1, YT!EndEvent}
      BY <1>1, <3>1
    <3>3. QED
      BY <3>1, <3>2
  <2>4. n > 1 => Head(Tail(s)) = s[2] /\ Tail(s)[n - 1] = s[n]
    <3>1. SUFFICES ASSUME n > 1 PROVE Head(Tail(s)) = s[2] /\ Tail(s)[n - 1] = s[n]
      OBVIOUS
    <3>2. Tail(s)[1] = s[2] /\ Tail(s)[n - 1] = s[n] /\ Tail(s) # <<>>
      BY <1>2, <3>1
    <3>3. Head(Tail(s)) = Tail(s)[1]
      BY <1>2, <3>2, HeadTailProperties
    <3>4. QED
      BY <3>2, <3>3
  <2>5. QED
    BY <2>1, <2>2, <2>3, <2>4
<1>6. CASE yt' = [yt EXCEPT !.page = page]
  <2>1. /\ yt' \in Adapters /\ yt'.pc = "publish" /\ yt'.page.items = Tail(s)
        /\ yt'.token = yt.token /\ yt'.chat = yt.chat /\ yt'.backoff = 2
        /\ yt'.error = yt.error
    BY ZenonT(30), <1>0, <1>3, <1>6 DEF Adapters
  <2>2. x # YT!EndEvent /\ Follows(x) /\ x \in Int /\ x > 0
    <3>1. x # YT!EndEvent
      <4>1. CASE x \in Malformed
        BY <1>0, <4>1 DEF YT!EndEvent
      <4>2. CASE x \notin Malformed
        <5>1. CASE x = YT!EndEvent
          <6>1. yt' = [yt EXCEPT !.pc = "returned", !.error = "nil", !.page = YT!NoPage]
            BY <1>4, <4>2, <5>1
          <6>2. yt'.pc = "returned"
            BY <1>0, <6>1 DEF Adapters
          <6>3. QED
            BY <2>1, <6>2
        <5>2. QED
          BY <5>1
      <4>3. QED
        BY <4>1, <4>2
    <3>2. QED
      BY <1>1, <1>2, <3>1 DEF Items, YT!EndEvent
  \* What was delivered, and what may come after x.
  <2>3. /\ hist' \in Histories /\ hist'.failed = 0
        /\ messages' \in Seq(Nat \cup {YT!EndEvent}) /\ Len(messages') <= YouTubeQueue
        /\ YT!SessionIsGapless'
        /\ hist'.delivered # <<>> =>
              /\ LastDelivered' # YT!EndEvent /\ LastDelivered' < x + 1
              /\ (LastDelivered' + 1) .. x \subseteq Malformed
    <3>1. CASE x \in Malformed
      <4>1. UNCHANGED <<hist, messages>>
        BY <1>4, <3>1
      <4>2. d # <<>> => LastDelivered < x /\ (LastDelivered + 1) .. (x - 1) \subseteq Malformed
        BY <2>2 DEF Follows
      <4>3. d # <<>> => /\ LastDelivered < x + 1
                        /\ (LastDelivered + 1) .. x \subseteq Malformed
        <5>1. SUFFICES ASSUME d # <<>> PROVE /\ LastDelivered < x + 1
                                             /\ (LastDelivered + 1) .. x \subseteq Malformed
          OBVIOUS
        <5>2. LastDelivered \in Int
          BY <1>0, <5>1, DeliveredFacts DEF Items, YT!EndEvent
        <5>3. \A k \in (LastDelivered + 1) .. x : k = x \/ k \in (LastDelivered + 1) .. (x - 1)
          BY <2>2, <5>2
        <5>4. QED
          BY <2>2, <3>1, <4>2, <5>1, <5>2, <5>3
      <4>4. QED
        BY <1>0, <4>1, <4>3 DEF Shapes, YT!SessionIsGapless, LastDelivered
    <3>2. CASE x \notin Malformed
      <4>1. /\ messages' = Append(messages, x) /\ Len(messages) < YouTubeQueue
            /\ hist' = [hist EXCEPT !.delivered = Append(d, x)]
        BY <1>4, <3>2
      <4>2. /\ Append(d, x) \in Seq(Items) /\ Len(Append(d, x)) = Len(d) + 1
            /\ Append(d, x)[Len(d) + 1] = x
            /\ \A i \in 1 .. Len(d) : Append(d, x)[i] = d[i]
            /\ Len(d) \in Nat
        BY <1>0, <1>2, AppendProperties, LenProperties
      <4>3. hist' \in Histories /\ hist'.failed = 0 /\ hist'.delivered = Append(d, x)
        BY <1>0, <4>1, <4>2 DEF Histories
      <4>4. messages' \in Seq(Nat \cup {YT!EndEvent}) /\ Len(messages') <= YouTubeQueue
        <5>1. /\ messages \in Seq(Nat \cup {YT!EndEvent}) /\ x \in Nat \cup {YT!EndEvent}
              /\ YouTubeQueue \in Nat /\ Len(messages) \in Nat
          BY <1>0, <2>2, LenProperties DEF Shapes, YT!ConstantsOK
        <5>2. QED
          BY <4>1, <5>1, AppendProperties
      <4>5. LastDelivered' = x
        BY <4>2, <4>3 DEF LastDelivered
      <4>6. ASSUME NEW i \in 1 .. Len(d), Append(d, x)[i + 1] # YT!EndEvent
            PROVE  /\ Append(d, x)[i] # YT!EndEvent /\ Append(d, x)[i] < Append(d, x)[i + 1]
                   /\ (Append(d, x)[i] + 1) .. (Append(d, x)[i + 1] - 1) \subseteq Malformed
        <5>1. CASE i < Len(d)
          <6>1. /\ i \in 1 .. Len(d) - 1 /\ Append(d, x)[i] = d[i]
                /\ Append(d, x)[i + 1] = d[i + 1]
            BY <4>2, <5>1
          <6>2. QED
            BY <1>0, <4>6, <6>1 DEF YT!SessionIsGapless
        <5>2. CASE i = Len(d)
          <6>1. /\ d # <<>> /\ Append(d, x)[i] = LastDelivered /\ Append(d, x)[i + 1] = x
            BY <1>0, <4>2, <5>2, EmptySeq DEF LastDelivered
          <6>2. QED
            BY <1>0, <2>2, <6>1 DEF Follows
        <5>3. QED
          BY <4>2, <5>1, <5>2
      <4>7. YT!SessionIsGapless'
        BY <4>2, <4>3, <4>6 DEF YT!SessionIsGapless
      <4>8. (x + 1) .. x = {}
        BY <2>2
      <4>9. QED
        BY <2>2, <4>3, <4>4, <4>5, <4>7, <4>8
    <3>3. QED
      BY <3>1, <3>2
  <2>4. Shapes' /\ WaitsDouble'
    BY <1>0, <2>1, <2>3 DEF Shapes, ProviderOK, WaitsDouble
  <2>5. TokenIsPosition'
    <3>1. Pending' = Tail(s)
      BY <2>1 DEF Pending
    <3>2. Tail(s) = <<>> => yt'.token = x
      BY <1>2, <1>5, <2>1, <2>2
    <3>3. (x + 1) - 1 = x
      BY <2>2
    <3>. HIDE DEF x
    <3>4. Tail(s) = <<>> => Follows(yt.token + 1)'
      BY <2>3, <3>2, <3>3 DEF Follows
    <3>5. QED
      BY <1>0, <2>1, <2>3, <3>1, <3>4 DEF TokenIsPosition
  <2>6. PageIsConsecutive'
    <3>1. Pending' = Tail(s)
      BY <2>1 DEF Pending
    <3>2. SUFFICES ASSUME Tail(s) # <<>> PROVE PageIsConsecutive'
      BY <3>1 DEF PageIsConsecutive
    <3>3. n > 1 /\ Len(Tail(s)) = n - 1
      BY <1>2, <3>2
    <3>4. Head(Tail(s)) # YT!EndEvent => Head(Tail(s)) = x + 1 /\ (x + 1) - 1 = x
      BY <1>5, <2>2, <3>3
    <3>5. \A i \in 1 .. Len(Tail(s)) - 1 :
             Tail(s)[i] # YT!EndEvent /\ Tail(s)[i + 1] \in {Tail(s)[i] + 1, YT!EndEvent}
      BY <1>2, <1>5, <2>2
    <3>6. Tail(s)[Len(Tail(s))] \in {yt'.token, YT!EndEvent}
      BY <1>1, <1>2, <1>5, <2>1, <2>2, <3>3
    <3>. HIDE DEF x
    <3>7. QED
      BY <2>3, <3>1, <3>4, <3>5, <3>6 DEF PageIsConsecutive, Follows
  <2>7. Unfound'
    BY <1>0, <2>1, Found
  <2>8. QED
    BY <1>0, <2>3, <2>4, <2>5, <2>6, <2>7, AdapterRuns
<1>7. CASE x = YT!EndEvent
           /\ yt' = [yt EXCEPT !.pc = "returned", !.error = "nil", !.page = YT!NoPage]
  <2>1. x \notin Malformed
    BY <1>0, <1>7 DEF YT!EndEvent
  <2>2. /\ messages' = Append(messages, x) /\ Len(messages) < YouTubeQueue
        /\ hist' = [hist EXCEPT !.delivered = Append(d, x)]
    BY <1>4, <2>1
  <2>3. YT!NoPage \in [items : Seq(Items), token : 0 .. MaxMessages, offline : BOOLEAN]
    BY DEF YT!NoPage, YT!ConstantsOK
  <2>4. yt' \in Adapters /\ yt'.pc = "returned" /\ yt'.error = "nil"
    BY ZenonT(30), <1>0, <1>7, <2>3 DEF Adapters
  <2>5. /\ Append(d, x) \in Seq(Items) /\ Len(Append(d, x)) = Len(d) + 1
        /\ Append(d, x)[Len(d) + 1] = x
        /\ \A i \in 1 .. Len(d) : Append(d, x)[i] = d[i]
        /\ Len(d) \in Nat
    BY <1>0, <1>2, AppendProperties, LenProperties
  <2>6. hist' \in Histories /\ hist'.delivered = Append(d, x)
    BY <1>0, <2>2, <2>5 DEF Histories
  <2>7. messages' \in Seq(Nat \cup {YT!EndEvent}) /\ Len(messages') <= YouTubeQueue
    <3>1. /\ messages \in Seq(Nat \cup {YT!EndEvent}) /\ x \in Nat \cup {YT!EndEvent}
          /\ YouTubeQueue \in Nat /\ Len(messages) \in Nat
      BY <1>0, <1>7, LenProperties DEF Shapes, YT!ConstantsOK
    <3>2. QED
      BY <2>2, <3>1, AppendProperties
  <2>8. Shapes'
    BY <1>0, <2>4, <2>6, <2>7 DEF Shapes, ProviderOK
  <2>9. YT!SessionIsGapless'
    <3>1. ASSUME NEW i \in 1 .. Len(d), Append(d, x)[i + 1] # YT!EndEvent
          PROVE  i \in 1 .. Len(d) - 1 /\ Append(d, x)[i] = d[i]
                 /\ Append(d, x)[i + 1] = d[i + 1]
      <4>1. i # Len(d)
        BY <1>7, <2>5, <3>1
      <4>2. QED
        BY <2>5, <4>1
    <3>2. QED
      BY <1>0, <2>5, <2>6, <3>1 DEF YT!SessionIsGapless
  <2>10. TokenIsPosition' /\ PageIsConsecutive' /\ WaitsDouble'
    BY <2>4 DEF TokenIsPosition, PageIsConsecutive, InSession, WaitsDouble
  <2>11. Unfound'
    BY <1>0, <2>4, Found
  <2>12. QED
    BY <1>0, <2>8, <2>9, <2>10, <2>11, AdapterRuns
<1>8. QED
  BY <1>4, <1>6, <1>7

\* After the page the token stands for what was delivered.
LEMMA PageDoneStep ==
    ASSUME YT!ConstantsOK, YouTubeInv, YT!PageDone
    PROVE  YouTubeInv'
<1>0. /\ Shapes /\ yt \in Adapters /\ hist \in Histories
      /\ yt.pc = "publish" /\ Pending = <<>> /\ yt.backoff = 2 /\ hist.failed = 0
      /\ UNCHANGED <<provider, messages, main, hist>>
      /\ yt.chat > 0 /\ Follows(yt.token + 1)
      /\ hist.delivered # <<>> => LastDelivered # YT!EndEvent
      /\ YT!SessionIsGapless
  BY DEF YouTubeInv, Shapes, YT!PageDone, Pending, TokenIsPosition, InSession, WaitsDouble
<1>1. YT!NoPage \in [items : Seq(Items), token : 0 .. MaxMessages, offline : BOOLEAN]
  BY DEF YT!NoPage, YT!ConstantsOK
<1>2. /\ yt' \in Adapters /\ yt'.token = yt.token /\ yt'.chat = yt.chat
      /\ yt'.backoff = yt.backoff /\ yt'.pc \in {"returned", "stream"}
      /\ yt'.error \in {yt.error, "nil"}
  <2>1. \/ yt' = [yt EXCEPT !.pc = "returned", !.error = "nil", !.page = YT!NoPage]
        \/ yt' = [yt EXCEPT !.pc = "stream", !.page = YT!NoPage]
    BY DEF YT!PageDone
  <2>2. CASE yt' = [yt EXCEPT !.pc = "returned", !.error = "nil", !.page = YT!NoPage]
    BY ZenonT(30), <1>0, <1>1, <2>2 DEF Adapters
  <2>3. CASE yt' = [yt EXCEPT !.pc = "stream", !.page = YT!NoPage]
    BY ZenonT(30), <1>0, <1>1, <2>3 DEF Adapters
  <2>4. QED
    BY <2>1, <2>2, <2>3
<1>3. Shapes' /\ YT!SessionIsGapless'
  BY <1>0, <1>2 DEF Shapes, ProviderOK, YT!SessionIsGapless
<1>4. TokenIsPosition' /\ PageIsConsecutive' /\ WaitsDouble'
  BY <1>0, <1>2
  DEF TokenIsPosition, PageIsConsecutive, LastDelivered, Follows, WaitsDouble, YT!WaitAfter
<1>5. Unfound'
  BY <1>0, <1>2, Found
<1>6. QED
  BY <1>0, <1>3, <1>4, <1>5, AdapterRuns

LEMMA YouTubeStep ==
    ASSUME YT!ConstantsOK, YouTubeInv, [YT!Next]_(YT!vars)
    PROVE  YouTubeInv'
<1>1. CASE UNCHANGED YT!vars
  <2>1. UNCHANGED <<provider, yt, messages, main, hist>>
    BY <1>1 DEF YT!vars
  <2>2. Shapes' /\ YT!ServerEndsFirst'
    BY <2>1 DEF YouTubeInv, Shapes, ProviderOK, YT!ServerEndsFirst
  <2>3. QED
    BY <2>1, <2>2, BesideAdapter
<1>2. CASE YT!Next
  BY <1>2, ProviderStep, MainStep, UnauthorizedStep, RequestFailsStep, DiscoverStep,
     StreamStep, PublishItemStep, PageDoneStep, BackedOffStep, RunServerStep
  DEF YT!Next, YT!Adapter
<1>3. QED
  BY <1>1, <1>2

\* However requests fail, tokens expire and the provider cuts its pages, a session
\* leaves out nothing but what cannot be parsed and repeats nothing, waits longer
\* after every failure up to its limit, and up to half as long again, and ends the
\* adapter only for a refused credential, a terminal or plain error and a search that
\* is not found; the process does not return before its server.
THEOREM YouTubeIsSafe ==
    ASSUME YT!ConstantsOK
    PROVE  YT!Spec => []YouTubeSafety
<1>1. YT!Init => YouTubeInv
  BY YouTubeInit
<1>2. YouTubeInv /\ [YT!Next]_(YT!vars) => YouTubeInv'
  BY YouTubeStep
<1>3. YouTubeInv => YouTubeSafety
  <2>1. SUFFICES ASSUME YouTubeInv PROVE YouTubeSafety
    OBVIOUS
  <2>2. YT!TypeOK
    BY <2>1, YouTubeTyped
  <2>3. YT!BackoffFollowsFailures
    BY <2>1 DEF YouTubeInv, WaitsDouble, YT!BackoffFollowsFailures
  <2>4. QED
    BY <2>1, <2>2, <2>3 DEF YouTubeInv, YouTubeSafety, YT!YouTubeSafety
<1>4. QED
  BY <1>1, <1>2, <1>3, PTL DEF YT!Spec

-----------------------------------------------------------------------------
(* The watchers of the input.                                              *)

WatcherStates == [initialized : BOOLEAN, stable : BOOLEAN, candidate : BOOLEAN,
                  armed : BOOLEAN, count : Nat, waiting : BOOLEAN]

\* Nothing is bound to the stream while a broadcast is made for it.
BoundAlone ==
    "youtube" \in Watchers /\ step["youtube"] \in {"creating", "binding"}
        => Input!Unfinished = {}

\* A watcher counts no more offline observations than it made; it is armed by
\* enough of them, and acts only when it is armed.
ArmedIsConfirmed(x) ==
    /\ w[x].count > 0 /\ ~w[x].candidate => offline[x] >= w[x].count
    /\ w[x].armed => x \in confirmed
    /\ step[x] # "idle" => w[x].armed

\* What may still be announced for the session was not announced, unless the answer
\* was lost.
MayAnnounce ==
    /\ "discord" \in Watchers /\ w["discord"].armed
    /\ signal \/ step["discord"] # "idle"
AnnouncementsPaidFor ==
    /\ \A s \in Input!Sessions :
          /\ posted[s] <= 1 + lostAnswers
          /\ s > session => posted[s] = 0
    /\ MayAnnounce /\ session \in Input!Sessions => posted[session] <= lostAnswers

InputInv ==
    /\ Input!TypeOK /\ w \in [Watchers -> WatcherStates] /\ lostAnswers <= faults
    /\ Input!AtMostOneUnfinished /\ BoundAlone
    /\ \A x \in Watchers : ArmedIsConfirmed(x)
    /\ AnnouncementsPaidFor

LEMMA InputInit ==
    ASSUME Input!ConstantsOK, Input!Init
    PROVE  InputInv
<1>1. Input!TypeOK /\ w \in [Watchers -> WatcherStates] /\ lostAnswers <= faults
  <2>1. w \in [Watchers -> WatcherStates] /\ \A x \in Watchers : w[x] = Input!Fresh
    BY DEF Input!Init, Input!Fresh, WatcherStates
  <2>2. input \in BOOLEAN /\ signal \in BOOLEAN
    BY Zenon DEF Input!Init
  <2>3. \A x \in Watchers : Input!Fresh \in
           [initialized : BOOLEAN, stable : BOOLEAN, candidate : BOOLEAN,
            armed : BOOLEAN, waiting : BOOLEAN, count : 0 .. Confirmations[x] - 1]
    BY DEF Input!Fresh, Input!ConstantsOK
  <2>4. QED
    BY <2>1, <2>2, <2>3 DEF Input!Init, Input!TypeOK, Input!ConstantsOK, Input!Steps,
                            Input!Statuses
<1>2. Input!Unfinished = {}
  BY DEF Input!Init, Input!Unfinished
<1>3. ASSUME NEW x \in Watchers
      PROVE  ArmedIsConfirmed(x)
  BY DEF Input!Init, Input!Fresh, ArmedIsConfirmed
<1>4. AnnouncementsPaidFor
  BY DEF Input!Init, Input!Fresh, AnnouncementsPaidFor, MayAnnounce
<1>5. QED
  BY <1>1, <1>2, <1>3, <1>4 DEF InputInv, BoundAlone, Input!AtMostOneUnfinished

-----------------------------------------------------------------------------
(* The end of a watcher's call.                                            *)

Typed(x) == w[x] \in [initialized : BOOLEAN, stable : BOOLEAN, candidate : BOOLEAN,
                      armed : BOOLEAN, waiting : BOOLEAN,
                      count : 0 .. Confirmations[x] - 1]

\* A call is followed by another one, or the action ends; a watcher that has done
\* what it was armed for is no longer armed.
CallEnds(x) ==
    \/ Input!Done(x)
    \/ Input!Fail(x) /\ UNCHANGED confirmed
    \/ (\E s \in Input!Steps : Input!Goto(x, s)) /\ UNCHANGED confirmed

LEMMA AfterCall ==
    ASSUME Input!ConstantsOK, InputInv, NEW x \in Watchers, step[x] # "idle",
           CallEnds(x), UNCHANGED offline
    PROVE  /\ w' \in [Watchers -> WatcherStates] /\ \A y \in Watchers : Typed(y)'
           /\ step' \in [Watchers -> Input!Steps] /\ confirmed' \subseteq Watchers
           /\ \A y \in Watchers \ {x} : step'[y] = step[y] /\ w'[y] = w[y]
           /\ w'[x].armed => w[x].armed
           /\ \A y \in Watchers : ArmedIsConfirmed(y)'
<1>0. /\ Input!TypeOK /\ w \in [Watchers -> WatcherStates]
      /\ step \in [Watchers -> Input!Steps] /\ confirmed \subseteq Watchers
      /\ \A y \in Watchers : Typed(y)
      /\ \A y \in Watchers : ArmedIsConfirmed(y)
      /\ "idle" \in Input!Steps
  BY DEF InputInv, Input!TypeOK, Typed, Input!Steps
<1>1. /\ step' \in [Watchers -> Input!Steps]
      /\ \A y \in Watchers \ {x} : step'[y] = step[y]
  BY <1>0 DEF CallEnds, Input!Done, Input!Fail, Input!Goto
<1>2. CASE Input!Done(x)
  <2>. DEFINE r == [w[x] EXCEPT !.armed = FALSE]
  <2>1. w' = [w EXCEPT ![x] = r] /\ confirmed' = confirmed \ {x} /\ step'[x] = "idle"
    BY <1>0, <1>2 DEF Input!Done
  <2>2. /\ r \in WatcherStates /\ ~r.armed
        /\ r.count = w[x].count /\ r.candidate = w[x].candidate
        /\ r \in [initialized : BOOLEAN, stable : BOOLEAN, candidate : BOOLEAN,
                  armed : BOOLEAN, waiting : BOOLEAN, count : 0 .. Confirmations[x] - 1]
    BY <1>0 DEF WatcherStates, Typed
  <2>. HIDE DEF r
  <2>3. w' \in [Watchers -> WatcherStates] /\ w'[x] = r
        /\ \A y \in Watchers \ {x} : w'[y] = w[y]
    BY <1>0, <2>1, <2>2
  <2>4. \A y \in Watchers : Typed(y)'
    BY <1>0, <2>2, <2>3 DEF Typed
  <2>5. \A y \in Watchers : ArmedIsConfirmed(y)'
    BY <1>0, <1>1, <2>1, <2>2, <2>3 DEF ArmedIsConfirmed
  <2>6. QED
    BY <1>0, <1>1, <2>1, <2>2, <2>3, <2>4, <2>5
<1>3. CASE Input!Fail(x) /\ UNCHANGED confirmed
  <2>1. PICK r \in WatcherStates :
            /\ w' = [w EXCEPT ![x] = r]
            /\ r.armed = w[x].armed /\ r.count = w[x].count /\ r.candidate = w[x].candidate
    <3>1. CASE x = "youtube"
      <4>. DEFINE r == [w[x] EXCEPT !.waiting = TRUE]
      <4>1. r \in WatcherStates /\ r.armed = w[x].armed /\ r.count = w[x].count
            /\ r.candidate = w[x].candidate
        BY <1>0 DEF WatcherStates
      <4>2. QED
        BY <1>3, <3>1, <4>1 DEF Input!Fail
    <3>2. CASE x # "youtube"
      <4>. DEFINE r == [w[x] EXCEPT !.stable = FALSE]
      <4>1. r \in WatcherStates /\ r.armed = w[x].armed /\ r.count = w[x].count
            /\ r.candidate = w[x].candidate
        BY <1>0 DEF WatcherStates
      <4>2. QED
        BY <1>3, <3>2, <4>1 DEF Input!Fail
    <3>3. QED
      BY <3>1, <3>2
  <2>2. w' \in [Watchers -> WatcherStates] /\ w'[x] = r
        /\ \A y \in Watchers \ {x} : w'[y] = w[y]
    BY <1>0, <2>1
  <2>3. \A y \in Watchers : Typed(y)'
    BY <1>0, <2>1, <2>2 DEF Typed, WatcherStates
  <2>4. step'[x] = "idle"
    BY <1>0, <1>3 DEF Input!Fail
  <2>5. \A y \in Watchers : ArmedIsConfirmed(y)'
    BY <1>0, <1>1, <1>3, <2>1, <2>2, <2>4 DEF ArmedIsConfirmed
  <2>6. QED
    BY <1>0, <1>1, <1>3, <2>1, <2>2, <2>3, <2>5
<1>4. CASE (\E s \in Input!Steps : Input!Goto(x, s)) /\ UNCHANGED confirmed
  <2>1. w' = w
    BY <1>4 DEF Input!Goto
  <2>2. \A y \in Watchers : Typed(y)' /\ ArmedIsConfirmed(y)'
    BY <1>0, <1>1, <1>4, <2>1 DEF Typed, ArmedIsConfirmed
  <2>3. QED
    BY <1>0, <1>1, <1>4, <2>1, <2>2
<1>5. QED
  BY <1>2, <1>3, <1>4 DEF CallEnds

\* Faults are counted.
LEMMA FaultCounted ==
    ASSUME Input!ConstantsOK, Input!TypeOK,
           \/ Input!NoFault
           \/ Input!Fault /\ (UNCHANGED lostAnswers \/ lostAnswers' = lostAnswers + 1),
           lostAnswers <= faults
    PROVE  /\ lostAnswers' \in 0 .. MaxFaults /\ faults' \in 0 .. MaxFaults
           /\ restarts' \in 0 .. MaxRestarts
           /\ lostAnswers <= lostAnswers'
           /\ lostAnswers' <= faults'
  BY DEF Input!ConstantsOK, Input!TypeOK, Input!NoFault, Input!Fault, Input!bounds

-----------------------------------------------------------------------------
(* The steps.                                                              *)

LEMMA InputFacts ==
    ASSUME Input!ConstantsOK, InputInv
    PROVE  /\ Input!TypeOK /\ w \in [Watchers -> WatcherStates]
           /\ \A x \in Watchers : Typed(x) /\ ArmedIsConfirmed(x)
           /\ lostAnswers \in Nat /\ faults \in Nat /\ lostAnswers <= faults
           /\ Input!Unfinished \subseteq Input!Broadcasts
           /\ \A b, c \in Input!Unfinished : b = c
           /\ step \in [Watchers -> Input!Steps] /\ session \in Nat
           /\ status \in [Input!Broadcasts -> Input!Statuses]
  BY DEF InputInv, Input!TypeOK, Input!ConstantsOK, Typed, Input!AtMostOneUnfinished,
         Input!Unfinished

\* A step that leaves the watchers and the announcements alone.
LEMMA WorldStep ==
    ASSUME Input!ConstantsOK, InputInv, Input!TypeOK', UNCHANGED <<w, step, offline, confirmed>>,
           UNCHANGED <<posted, lostAnswers, faults>>,
           Input!Unfinished' \subseteq Input!Unfinished,
           \/ UNCHANGED session /\ (signal' => signal)
           \/ session' = session + 1
    PROVE  InputInv'
<1>1. BoundAlone' /\ Input!AtMostOneUnfinished'
  BY DEF InputInv, BoundAlone, Input!AtMostOneUnfinished
<1>2. \A x \in Watchers : ArmedIsConfirmed(x)'
  BY DEF InputInv, ArmedIsConfirmed
<1>3. AnnouncementsPaidFor'
  BY InputFacts DEF InputInv, AnnouncementsPaidFor, MayAnnounce, Input!Sessions
<1>4. QED
  BY <1>1, <1>2, <1>3 DEF InputInv

LEMMA EnvironmentStep ==
    ASSUME Input!ConstantsOK, InputInv,
           \/ Input!InputStarts \/ Input!InputEnds
           \/ \E b \in Input!Broadcasts : Input!AutoStart(b) \/ Input!AutoStop(b)
    PROVE  InputInv'
<1>0. Input!TypeOK /\ MaxSessions \in Nat
  BY InputFacts DEF Input!ConstantsOK
<1>1. CASE Input!InputStarts
  <2>1. input' \in BOOLEAN /\ signal' \in BOOLEAN
    BY <1>1, Zenon DEF Input!InputStarts
  <2>2. Input!TypeOK'
    BY <1>0, <1>1, <2>1 DEF Input!InputStarts, Input!TypeOK, Input!bounds, Input!history
  <2>3. QED
    BY <1>1, <2>2, WorldStep
    DEF Input!InputStarts, Input!bounds, Input!history, Input!Unfinished
<1>2. CASE Input!InputEnds
  <2>1. input' \in BOOLEAN /\ signal' \in BOOLEAN /\ ~signal'
    BY <1>2, Zenon DEF Input!InputEnds
  <2>2. Input!TypeOK'
    BY <1>0, <1>2, <2>1 DEF Input!InputEnds, Input!TypeOK, Input!bounds, Input!history
  <2>3. QED
    BY <1>2, <2>1, <2>2, WorldStep
    DEF Input!InputEnds, Input!bounds, Input!history, Input!Unfinished
<1>3. ASSUME NEW b \in Input!Broadcasts, Input!AutoStart(b) \/ Input!AutoStop(b)
      PROVE  InputInv'
  <2>1. /\ \/ status[b] = "ready" /\ status' = [status EXCEPT ![b] = "live"]
           \/ status[b] = "live" /\ status' = [status EXCEPT ![b] = "complete"]
        /\ UNCHANGED <<input, session, posted, signal, w, step, mine, Input!bounds, Input!history>>
    BY <1>3 DEF Input!AutoStart, Input!AutoStop
  <2>2. status' \in [Input!Broadcasts -> Input!Statuses]
        /\ Input!Unfinished' \subseteq Input!Unfinished
    BY <1>0, <2>1 DEF Input!TypeOK, Input!Statuses, Input!Unfinished
  <2>3. Input!TypeOK'
    BY <1>0, <2>1, <2>2 DEF Input!TypeOK, Input!bounds, Input!history
  <2>4. QED
    BY <2>1, <2>2, <2>3, WorldStep DEF Input!bounds, Input!history
<1>4. QED
  BY <1>1, <1>2, <1>3

\* A process that starts has seen nothing and has done nothing.
LEMMA RestartedStep ==
    ASSUME Input!ConstantsOK, InputInv, Input!Restart
    PROVE  InputInv'
<1>0. Input!TypeOK /\ MaxRestarts \in Nat
  BY InputFacts DEF Input!ConstantsOK
<1>1. /\ w' = [x \in Watchers |-> Input!Fresh] /\ step' = [x \in Watchers |-> "idle"]
      /\ confirmed' = {} /\ restarts' = restarts + 1 /\ restarts < MaxRestarts
      /\ offline' = [x \in Watchers |-> 0] /\ mine' = Input!None
      /\ UNCHANGED <<input, session, status, posted, lostAnswers, faults>>
  BY DEF Input!Restart, Input!world
<1>2. /\ Input!Fresh \in WatcherStates /\ ~Input!Fresh.armed /\ Input!Fresh.count = 0
      /\ \A x \in Watchers : w'[x] = Input!Fresh /\ step'[x] = "idle"
  BY <1>1 DEF Input!Fresh, WatcherStates
<1>3. w' \in [Watchers -> WatcherStates]
  BY <1>1, <1>2
<1>4. Input!TypeOK'
  <2>1. signal' \in BOOLEAN
    BY Zenon DEF Input!Restart
  <2>2. \A x \in Watchers : Typed(x)'
    <3>1. \A x \in Watchers : Input!Fresh \in
             [initialized : BOOLEAN, stable : BOOLEAN, candidate : BOOLEAN,
              armed : BOOLEAN, waiting : BOOLEAN, count : 0 .. Confirmations[x] - 1]
      BY DEF Input!Fresh, Input!ConstantsOK
    <3>2. QED
      BY <1>2, <3>1 DEF Typed
  <2>3. QED
    BY <1>0, <1>1, <2>1, <2>2 DEF Input!TypeOK, Typed, Input!Steps
<1>5. \A x \in Watchers : ArmedIsConfirmed(x)'
  BY <1>2 DEF ArmedIsConfirmed
<1>6. BoundAlone' /\ Input!AtMostOneUnfinished'
  BY <1>1 DEF InputInv, BoundAlone, Input!AtMostOneUnfinished, Input!Unfinished
<1>7. AnnouncementsPaidFor'
  BY <1>1, <1>2 DEF InputInv, AnnouncementsPaidFor, MayAnnounce
<1>8. QED
  BY <1>1, <1>3, <1>4, <1>5, <1>6, <1>7 DEF InputInv

\* An observation that differs starts the count again; one that confirms an offline
\* input arms the watcher.
LEMMA TickStep ==
    ASSUME Input!ConstantsOK, InputInv, NEW x \in Watchers, Input!Tick(x)
    PROVE  InputInv'
<1>. DEFINE n == Input!Counted(x)
            C == Confirmations[x]
<1>0. /\ Input!TypeOK /\ w \in [Watchers -> WatcherStates]
      /\ \A y \in Watchers : Typed(y) /\ ArmedIsConfirmed(y)
      /\ step[x] = "idle" /\ C \in Nat \ {0} /\ n \in Nat \ {0}
      /\ offline \in [Watchers -> Nat] /\ offline[x] \in Nat /\ confirmed \subseteq Watchers
      /\ UNCHANGED <<input, session, status, posted, signal, mine, lostAnswers, faults, restarts>>
      /\ signal \in BOOLEAN
      /\ step \in [Watchers -> Input!Steps]
  BY InputFacts
  DEF Input!Tick, Input!TypeOK, Input!ConstantsOK, Input!Counted, WatcherStates,
      Input!world, Input!bounds
<1>1. /\ offline' \in [Watchers -> Nat] /\ \A y \in Watchers \ {x} : offline'[y] = offline[y]
      /\ ~signal => offline'[x] = IF offline[x] < C THEN offline[x] + 1 ELSE offline[x]
      /\ confirmed' = IF offline'[x] >= C THEN confirmed \cup {x} ELSE confirmed
  BY <1>0 DEF Input!Tick
<1>2. ~signal => (n < C => offline'[x] >= n) /\ (n >= C => offline'[x] >= C)
  <2>1. SUFFICES ASSUME ~signal
                 PROVE  (n < C => offline'[x] >= n) /\ (n >= C => offline'[x] >= C)
    OBVIOUS
  <2>2. /\ w[x].count \in Nat /\ w[x].count <= C - 1
        /\ w[x].count > 0 /\ ~w[x].candidate => offline[x] >= w[x].count
        /\ w[x].candidate \in BOOLEAN
    BY <1>0 DEF Typed, ArmedIsConfirmed
  <2>3. CASE w[x].count = 0 \/ w[x].candidate
    <3>1. w[x].candidate => w[x].candidate # signal
      BY <2>1
    <3>2. n = 1
      BY <2>3, <3>1 DEF Input!Counted
    <3>. HIDE DEF n
    <3>3. QED
      BY <1>0, <1>1, <2>1, <3>2
  <2>4. CASE w[x].count > 0 /\ ~w[x].candidate
    <3>1. w[x].candidate = signal
      BY <2>1, <2>2, <2>4, <1>0
    <3>2. n = w[x].count + 1
      BY <2>2, <2>4, <3>1 DEF Input!Counted
    <3>. HIDE DEF n
    <3>3. QED
      BY <1>0, <1>1, <2>1, <2>2, <2>4, <3>2
  <2>5. QED
    BY <2>2, <2>3, <2>4
<1>3. PICK r \in WatcherStates :
          /\ w' = [w EXCEPT ![x] = r]
          /\ r.count \in 0 .. C - 1
          /\ r.count > 0 /\ ~r.candidate => offline'[x] >= r.count
          /\ r.armed => x \in confirmed'
          /\ r.armed => w[x].armed \/ ~signal
          /\ step' = step \/ (signal /\ w[x].armed /\ r.armed
                              /\ step' = [step EXCEPT ![x] = Input!FirstStep[x]])
  <2>1. CASE ~Input!Enough(x)
    <3>. DEFINE r == [[w[x] EXCEPT !.candidate = signal] EXCEPT !.count = n]
    <3>1. /\ r \in WatcherStates /\ r.count = n /\ r.candidate = signal
          /\ r.armed = w[x].armed
      BY <1>0 DEF WatcherStates
    <3>2. w' = [w EXCEPT ![x] = r] /\ step' = step
      BY <1>0, <2>1 DEF Input!Tick
    <3>3. n < C
      BY <1>0, <2>1 DEF Input!Enough
    <3>4. r.armed => x \in confirmed'
      BY <1>0, <1>1, <3>1 DEF ArmedIsConfirmed
    <3>5. n \in 0 .. C - 1
      BY <1>0, <3>3
    <3>. HIDE DEF r, n
    <3>6. QED
      BY <1>2, <3>1, <3>2, <3>3, <3>4, <3>5
  <2>2. CASE Input!Enough(x)
    <3>. DEFINE r == Input!Confirm(x)
    <3>1. /\ r \in WatcherStates /\ r.count = 0
          /\ r.armed => w[x].armed \/ ~signal
          /\ w[x].initialized /\ w[x].armed => r.armed
      BY <1>0 DEF Input!Confirm, WatcherStates
    <3>2. w' = [w EXCEPT ![x] = r]
          /\ step' = IF Input!Acts(x) THEN [step EXCEPT ![x] = Input!FirstStep[x]] ELSE step
      BY <2>2 DEF Input!Tick
    <3>3. n >= C
      BY <1>0, <2>2 DEF Input!Enough
    <3>4. r.armed => x \in confirmed'
      BY <1>0, <1>1, <1>2, <3>1, <3>3 DEF ArmedIsConfirmed
    <3>5. Input!Acts(x) => w[x].initialized /\ signal /\ w[x].armed
      BY Zenon DEF Input!Acts
    <3>. HIDE DEF r, n
    <3>6. r.count \in 0 .. C - 1 /\ ~(r.count > 0)
      BY <1>0, <3>1
    <3>7. step' = step \/ (signal /\ w[x].armed /\ r.armed
                           /\ step' = [step EXCEPT ![x] = Input!FirstStep[x]])
      <4>1. CASE Input!Acts(x)
        BY <3>1, <3>2, <3>5, <4>1
      <4>2. CASE ~Input!Acts(x)
        BY <3>2, <4>2
      <4>3. QED
        BY <4>1, <4>2
    <3>8. QED
      BY <3>1, <3>2, <3>4, <3>6, <3>7
  <2>3. QED
    BY <2>1, <2>2
<1>4. /\ w' \in [Watchers -> WatcherStates] /\ w'[x] = r
      /\ \A y \in Watchers \ {x} : w'[y] = w[y]
  BY <1>0, <1>3
<1>5. /\ step' \in [Watchers -> Input!Steps]
      /\ \A y \in Watchers \ {x} : step'[y] = step[y]
      /\ step'[x] \in {"idle", "listing", "building"}
      /\ step'[x] # "idle" => signal /\ w[x].armed /\ r.armed
  BY <1>0, <1>3 DEF Input!FirstStep, Input!Steps
<1>6. \A y \in Watchers : Typed(y)'
  BY <1>0, <1>3, <1>4 DEF Typed, WatcherStates
<1>7. \A y \in Watchers : ArmedIsConfirmed(y)'
  <2>1. ArmedIsConfirmed(x)'
    BY <1>3, <1>4, <1>5 DEF ArmedIsConfirmed
  <2>2. \A y \in Watchers \ {x} : ArmedIsConfirmed(y)'
    BY <1>0, <1>1, <1>4, <1>5 DEF ArmedIsConfirmed
  <2>3. QED
    BY <2>1, <2>2
<1>8. Input!TypeOK'
  BY <1>0, <1>1, <1>5, <1>6 DEF Input!TypeOK, Typed
<1>9. BoundAlone' /\ Input!AtMostOneUnfinished'
  BY <1>0, <1>5 DEF InputInv, BoundAlone, Input!AtMostOneUnfinished, Input!Unfinished
<1>10. AnnouncementsPaidFor'
  <2>1. MayAnnounce' => MayAnnounce
    BY <1>0, <1>3, <1>4, <1>5 DEF MayAnnounce
  <2>2. QED
    BY <1>0, <2>1 DEF InputInv, AnnouncementsPaidFor
<1>11. QED
  BY <1>0, <1>4, <1>7, <1>8, <1>9, <1>10 DEF InputInv

LEMMA MayRetryStep ==
    ASSUME Input!ConstantsOK, InputInv, NEW x \in Watchers, Input!MayRetry(x)
    PROVE  InputInv'
<1>. DEFINE r == [w[x] EXCEPT !.waiting = FALSE]
<1>0. /\ Input!TypeOK /\ w \in [Watchers -> WatcherStates]
      /\ \A y \in Watchers : Typed(y) /\ ArmedIsConfirmed(y)
      /\ w' = [w EXCEPT ![x] = r]
      /\ UNCHANGED <<input, session, status, posted, signal, step, mine, lostAnswers,
                     faults, restarts, offline, confirmed>>
  BY InputFacts DEF Input!MayRetry, Input!world, Input!bounds, Input!history
<1>1. /\ r \in WatcherStates /\ r.armed = w[x].armed /\ r.count = w[x].count
      /\ r.candidate = w[x].candidate
  BY <1>0 DEF WatcherStates
<1>. HIDE DEF r
<1>2. /\ w' \in [Watchers -> WatcherStates]
      /\ \A y \in Watchers : /\ w'[y].armed = w[y].armed /\ w'[y].count = w[y].count
                             /\ w'[y].candidate = w[y].candidate
  BY <1>0, <1>1
<1>3. Input!TypeOK'
  BY <1>0, <1>2 DEF Input!TypeOK, WatcherStates, Typed
<1>4. \A y \in Watchers : ArmedIsConfirmed(y)'
  BY <1>0, <1>2 DEF ArmedIsConfirmed
<1>5. BoundAlone' /\ Input!AtMostOneUnfinished'
  BY <1>0 DEF InputInv, BoundAlone, Input!AtMostOneUnfinished, Input!Unfinished
<1>6. AnnouncementsPaidFor'
  BY <1>0, <1>2 DEF InputInv, AnnouncementsPaidFor, MayAnnounce
<1>7. QED
  BY <1>0, <1>2, <1>3, <1>4, <1>5, <1>6 DEF InputInv

\* A call of the YouTube watcher.
LEMMA YouTubeCall ==
    ASSUME Input!ConstantsOK, InputInv, "youtube" \in Watchers, step["youtube"] # "idle",
           CallEnds("youtube"),
           UNCHANGED <<input, session, signal, posted, offline>>,
           mine' \in Input!Broadcasts \cup {Input!None},
           status' \in [Input!Broadcasts -> Input!Statuses],
           \/ Input!NoFault
           \/ Input!Fault /\ (UNCHANGED lostAnswers \/ lostAnswers' = lostAnswers + 1),
           \A b, c \in Input!Unfinished' : b = c,
           step'["youtube"] \in {"creating", "binding"} => Input!Unfinished' = {}
    PROVE  InputInv'
<1>0. Input!TypeOK /\ lostAnswers <= faults /\ lostAnswers \in Nat
  BY InputFacts
<1>1. /\ lostAnswers' \in 0 .. MaxFaults /\ faults' \in 0 .. MaxFaults
      /\ restarts' \in 0 .. MaxRestarts
      /\ lostAnswers <= lostAnswers' /\ lostAnswers' <= faults'
  BY <1>0, FaultCounted
<1>2. /\ w' \in [Watchers -> WatcherStates] /\ \A y \in Watchers : Typed(y)'
      /\ step' \in [Watchers -> Input!Steps] /\ confirmed' \subseteq Watchers
      /\ \A y \in Watchers \ {"youtube"} : step'[y] = step[y] /\ w'[y] = w[y]
      /\ \A y \in Watchers : ArmedIsConfirmed(y)'
  BY AfterCall
<1>3. Input!TypeOK'
  BY <1>0, <1>1, <1>2 DEF Input!TypeOK, Typed
<1>4. BoundAlone' /\ Input!AtMostOneUnfinished'
  BY DEF BoundAlone, Input!AtMostOneUnfinished, Input!Unfinished
<1>5. AnnouncementsPaidFor'
  <2>1. MayAnnounce' => MayAnnounce
    BY <1>2 DEF MayAnnounce
  <2>2. posted \in [Input!Sessions -> Nat] /\ lostAnswers' \in Nat
    BY <1>0, <1>1 DEF Input!TypeOK
  <2>3. QED
    BY <1>0, <1>1, <2>1, <2>2 DEF InputInv, AnnouncementsPaidFor, Input!Sessions
<1>6. QED
  BY <1>1, <1>2, <1>3, <1>4, <1>5 DEF InputInv

\* A broadcast is made and bound only when none is unfinished.
LEMMA YouTubeSteps ==
    ASSUME Input!ConstantsOK, InputInv, Input!YouTubeStep
    PROVE  InputInv'
<1>0. /\ "youtube" \in Watchers /\ Input!TypeOK
      /\ \A b, c \in Input!Unfinished : b = c
      /\ step \in [Watchers -> Input!Steps]
      /\ status \in [Input!Broadcasts -> Input!Statuses]
      /\ mine \in Input!Broadcasts \cup {Input!None}
      /\ Input!Unfinished \subseteq Input!Broadcasts
      /\ step["youtube"] \in {"creating", "binding"} => Input!Unfinished = {}
  BY InputFacts DEF InputInv, BoundAlone, Input!YouTubeStep, Input!TypeOK
<1>. DEFINE Gone(s) == step' = [step EXCEPT !["youtube"] = s]
<1>1. ASSUME NEW s \in Input!Steps, Gone(s)
      PROVE  step'["youtube"] = s
  BY <1>0, <1>1
<1>2. /\ Input!Done("youtube") => Gone("idle")
      /\ Input!Fail("youtube") => Gone("idle")
      /\ \A s \in Input!Steps : Input!Goto("youtube", s) => Gone(s)
  BY DEF Input!Done, Input!Fail, Input!Goto
<1>3. /\ Input!Done("youtube") => CallEnds("youtube")
      /\ Input!Fail("youtube") /\ UNCHANGED confirmed => CallEnds("youtube")
      /\ \A s \in Input!Steps : Input!Goto("youtube", s) /\ UNCHANGED confirmed
                                   => CallEnds("youtube")
  BY DEF CallEnds
<1>. HIDE DEF Gone
<1>4. /\ "idle" \in Input!Steps /\ "creating" \in Input!Steps /\ "binding" \in Input!Steps
      /\ "polling" \in Input!Steps /\ "starting" \in Input!Steps
      /\ "transition" \in Input!Steps
  BY DEF Input!Steps
<1>5. UNCHANGED status => Input!Unfinished' = Input!Unfinished
  BY DEF Input!Unfinished
<1>6. CASE Input!List
  <2>1. /\ step["youtube"] = "listing" /\ Input!NoFault
        /\ UNCHANGED <<input, session, signal, posted, status, offline>>
    BY <1>6 DEF Input!List, Input!world
  <2>2. /\ mine' \in Input!Broadcasts \cup {Input!None} /\ CallEnds("youtube")
        /\ step'["youtube"] \in {"creating", "binding"} => Input!Unfinished = {}
    <3>1. CASE /\ Input!Found = {} /\ Input!Goto("youtube", "creating")
               /\ UNCHANGED <<mine, confirmed>>
      BY <1>0, <1>3, <1>4, <3>1 DEF Input!Found
    <3>2. CASE \E b \in Input!Found :
                  /\ mine' = b
                  /\ IF status[b] = "live" THEN Input!Done("youtube")
                     ELSE Input!Goto("youtube", "polling") /\ UNCHANGED confirmed
      <4>0. PICK b \in Input!Unfinished :
                  /\ mine' = b
                  /\ IF status[b] = "live" THEN Input!Done("youtube")
                     ELSE Input!Goto("youtube", "polling") /\ UNCHANGED confirmed
        BY <3>2 DEF Input!Found
      <4>1. mine' \in Input!Broadcasts
            /\ \/ Input!Done("youtube")
               \/ Input!Goto("youtube", "polling") /\ UNCHANGED confirmed
        BY <1>0, <4>0
      <4>2. step'["youtube"] \in {"idle", "polling"}
        BY <1>1, <1>2, <1>4, <4>1
      <4>3. QED
        BY <1>3, <1>4, <4>1, <4>2
    <3>3. QED
      BY <1>6, <3>1, <3>2 DEF Input!List
  <2>3. QED
    BY <1>0, <1>5, <2>1, <2>2, YouTubeCall
<1>7. CASE Input!Create
  <2>1. PICK b \in Input!Broadcasts :
            /\ status[b] = "none" /\ status' = [status EXCEPT ![b] = "unbound"]
            /\ \/ mine' = b /\ Input!Goto("youtube", "binding") /\ Input!NoFault
               \/ /\ Input!Fault /\ lostAnswers' = lostAnswers + 1
                  /\ Input!Fail("youtube") /\ UNCHANGED mine
    BY <1>7 DEF Input!Create
  <2>2. /\ step["youtube"] = "creating"
        /\ UNCHANGED <<input, session, signal, posted, offline, confirmed>>
    BY <1>7 DEF Input!Create, Input!history
  <2>3. Input!Unfinished' = {} /\ status' \in [Input!Broadcasts -> Input!Statuses]
    BY <1>0, <2>1, <2>2 DEF Input!Unfinished, Input!Statuses
  <2>4. UNCHANGED confirmed
    BY <2>2
  <2>5. CallEnds("youtube")
    BY Zenon, <1>3, <1>4, <2>1, <2>4
  <2>6. /\ mine' \in Input!Broadcasts \cup {Input!None}
        /\ (Input!NoFault \/ (Input!Fault /\ lostAnswers' = lostAnswers + 1))
    BY <1>0, <2>1
  <2>7. QED
    BY <1>0, <2>2, <2>3, <2>5, <2>6, YouTubeCall
<1>8. CASE Input!Bind
  <2>1. /\ step["youtube"] = "binding" /\ status' = [status EXCEPT ![mine] = "ready"]
        /\ \/ Input!Goto("youtube", "polling") /\ Input!NoFault
           \/ Input!Fault /\ lostAnswers' = lostAnswers + 1 /\ Input!Fail("youtube")
        /\ UNCHANGED <<input, session, signal, posted, mine, offline, confirmed>>
    BY <1>8 DEF Input!Bind, Input!history
  <2>2. Input!Unfinished' \subseteq {mine} /\ status' \in [Input!Broadcasts -> Input!Statuses]
    BY <1>0, <2>1 DEF Input!Unfinished, Input!Statuses
  <2>3. step'["youtube"] \in {"idle", "polling"}
    BY <1>1, <1>2, <1>4, <2>1
  <2>4. UNCHANGED confirmed
    BY <2>1
  <2>5. CallEnds("youtube")
    BY Zenon, <1>3, <1>4, <2>1, <2>4
  <2>6. Input!NoFault \/ (Input!Fault /\ lostAnswers' = lostAnswers + 1)
    BY <2>1
  <2>7. QED
    BY <1>0, <2>1, <2>2, <2>3, <2>5, <2>6, YouTubeCall
<1>9. CASE Input!Poll \/ Input!DeadlinePasses \/ Input!Start
  <2>1. /\ step["youtube"] \in {"polling", "starting"}
        /\ \/ Input!Done("youtube")
           \/ Input!Fail("youtube") /\ UNCHANGED confirmed
           \/ Input!Goto("youtube", "starting") /\ UNCHANGED confirmed
           \/ Input!Goto("youtube", "transition") /\ UNCHANGED confirmed
        /\ UNCHANGED <<input, session, signal, posted, mine, status, offline>>
        /\ Input!NoFault \/ (Input!Fault /\ UNCHANGED lostAnswers)
    <3>1. CASE Input!Poll
      BY <3>1 DEF Input!Poll, Input!world, Input!history
    <3>2. CASE Input!DeadlinePasses
      BY <3>2 DEF Input!DeadlinePasses, Input!world, Input!history
    <3>3. CASE Input!Start
      BY <3>3 DEF Input!Start, Input!world
    <3>4. QED
      BY <1>9, <3>1, <3>2, <3>3
  <2>2. step'["youtube"] \in {"idle", "starting", "transition"} /\ CallEnds("youtube")
    BY <1>1, <1>2, <1>3, <1>4, <2>1
  <2>3. QED
    BY <1>0, <1>5, <2>1, <2>2, YouTubeCall
<1>10. CASE Input!Transition
  <2>1. /\ step["youtube"] = "transition"
        /\ UNCHANGED <<input, session, signal, posted, mine, offline>>
        /\ \/ status[mine] = "ready" /\ status' = [status EXCEPT ![mine] = "live"]
           \/ UNCHANGED status
        /\ Input!NoFault \/ (Input!Fault /\ UNCHANGED lostAnswers)
        /\ Input!Done("youtube") \/ (Input!Fail("youtube") /\ UNCHANGED confirmed)
    <3>1. CASE /\ status[mine] = "ready" /\ input
               /\ status' = [status EXCEPT ![mine] = "live"]
               /\ Input!NoFault /\ Input!Done("youtube")
      BY <1>10, <3>1 DEF Input!Transition
    <3>2. CASE /\ \/ Input!NoFault /\ ~(status[mine] = "ready" /\ input)
                  \/ Input!Fault /\ UNCHANGED lostAnswers
               /\ UNCHANGED status
               /\ IF Input!AlreadyLive THEN Input!Done("youtube")
                  ELSE Input!Fail("youtube") /\ UNCHANGED confirmed
      BY <1>10, <3>2 DEF Input!Transition
    <3>3. QED
      BY <1>10, <3>1, <3>2 DEF Input!Transition
  <2>2. /\ Input!Unfinished' \subseteq Input!Unfinished
        /\ status' \in [Input!Broadcasts -> Input!Statuses]
    BY <1>0, <2>1 DEF Input!Unfinished, Input!Statuses
  <2>3. step'["youtube"] = "idle" /\ CallEnds("youtube")
    BY <1>1, <1>2, <1>3, <1>4, <2>1
  <2>4. QED
    BY <1>0, <2>1, <2>2, <2>3, YouTubeCall
<1>11. ASSUME NEW s \in {"listing", "creating", "binding", "polling", "starting"},
              Input!CallFails(s)
       PROVE  InputInv'
  <2>1. /\ step["youtube"] = s /\ Input!Fail("youtube")
        /\ UNCHANGED <<input, session, signal, posted, mine, status, offline, confirmed>>
        /\ Input!Fault /\ UNCHANGED lostAnswers
    BY <1>11 DEF Input!CallFails, Input!world, Input!history
  <2>2. step'["youtube"] = "idle" /\ CallEnds("youtube")
    BY <1>1, <1>2, <1>3, <1>4, <2>1
  <2>3. QED
    BY <1>0, <1>5, <2>1, <2>2, YouTubeCall
<1>12. QED
  BY <1>6, <1>7, <1>8, <1>9, <1>10, <1>11 DEF Input!YouTubeStep

\* An announcement that is answered is the last one of its session.
LEMMA DiscordSteps ==
    ASSUME Input!ConstantsOK, InputInv, Input!DiscordStep
    PROVE  InputInv'
<1>0. /\ "discord" \in Watchers /\ Input!TypeOK /\ lostAnswers <= faults
      /\ lostAnswers \in Nat /\ session \in Nat
      /\ step \in [Watchers -> Input!Steps] /\ w \in [Watchers -> WatcherStates]
      /\ posted \in [Input!Sessions -> Nat]
      /\ AnnouncementsPaidFor
      /\ \A y \in Watchers : ArmedIsConfirmed(y)
      /\ {"idle", "sending"} \subseteq Input!Steps
  BY InputFacts DEF InputInv, Input!DiscordStep, Input!TypeOK, Input!Steps
<1>1. /\ step["discord"] # "idle"
      /\ UNCHANGED <<input, session, status, signal, mine, offline>>
      /\ \/ Input!NoFault
         \/ Input!Fault /\ (UNCHANGED lostAnswers \/ lostAnswers' = lostAnswers + 1)
      /\ CallEnds("discord")
      /\ \/ UNCHANGED posted
         \/ /\ posted' = [posted EXCEPT ![session] = @ + 1]
            /\ Input!Done("discord") \/ lostAnswers' = lostAnswers + 1
  <2>1. CASE Input!Build
    BY <1>0, <2>1 DEF Input!Build, Input!world, Input!history, CallEnds
  <2>2. CASE Input!Send
    BY <2>2 DEF Input!Send, Input!Post, CallEnds
  <2>3. QED
    BY <2>1, <2>2 DEF Input!DiscordStep
<1>2. /\ lostAnswers' \in 0 .. MaxFaults /\ faults' \in 0 .. MaxFaults
      /\ restarts' \in 0 .. MaxRestarts
      /\ lostAnswers <= lostAnswers' /\ lostAnswers' <= faults'
  BY <1>0, <1>1, FaultCounted
<1>3. /\ w' \in [Watchers -> WatcherStates] /\ \A y \in Watchers : Typed(y)'
      /\ step' \in [Watchers -> Input!Steps] /\ confirmed' \subseteq Watchers
      /\ \A y \in Watchers \ {"discord"} : step'[y] = step[y] /\ w'[y] = w[y]
      /\ w'["discord"].armed => w["discord"].armed
      /\ \A y \in Watchers : ArmedIsConfirmed(y)'
  BY <1>0, <1>1, AfterCall
<1>4. posted' \in [Input!Sessions -> Nat]
  BY <1>0, <1>1
<1>5. Input!TypeOK'
  BY <1>0, <1>1, <1>2, <1>3, <1>4 DEF Input!TypeOK, Typed
<1>6. BoundAlone' /\ Input!AtMostOneUnfinished'
  BY <1>0, <1>1, <1>3 DEF InputInv, BoundAlone, Input!AtMostOneUnfinished, Input!Unfinished
<1>7. AnnouncementsPaidFor'
  <2>1. lostAnswers' \in Nat
    BY <1>2
  <2>2. MayAnnounce
    BY <1>0, <1>1 DEF MayAnnounce, ArmedIsConfirmed
  <2>3. CASE UNCHANGED posted
    BY <1>0, <1>1, <1>2, <2>1, <2>2, <2>3 DEF AnnouncementsPaidFor, Input!Sessions
  <2>4. CASE /\ posted' = [posted EXCEPT ![session] = @ + 1]
             /\ Input!Done("discord") \/ lostAnswers' = lostAnswers + 1
    <3>1. \A s \in Input!Sessions : posted'[s] = IF s = session THEN posted[s] + 1 ELSE posted[s]
      BY <1>0, <2>4
    <3>2. CASE lostAnswers' = lostAnswers + 1
      BY <1>0, <1>1, <2>1, <2>2, <3>1, <3>2 DEF AnnouncementsPaidFor, Input!Sessions
    <3>3. CASE Input!Done("discord")
      <4>1. w' = [w EXCEPT !["discord"].armed = FALSE]
        BY <3>3 DEF Input!Done
      <4>2. ~w'["discord"].armed
        BY <1>0, <4>1 DEF WatcherStates
      <4>3. ~MayAnnounce'
        BY <4>2 DEF MayAnnounce
      <4>4. QED
        BY <1>0, <1>1, <1>2, <2>1, <2>2, <3>1, <4>3 DEF AnnouncementsPaidFor, Input!Sessions
    <3>4. QED
      BY <2>4, <3>2, <3>3
  <2>5. QED
    BY <1>1, <2>3, <2>4
<1>8. QED
  BY <1>2, <1>3, <1>5, <1>6, <1>7 DEF InputInv

LEMMA InputStep ==
    ASSUME Input!ConstantsOK, InputInv, [Input!Next]_(Input!vars)
    PROVE  InputInv'
<1>1. CASE UNCHANGED Input!vars
  <2>1. UNCHANGED <<input, session, status, posted, signal, w, step, mine, lostAnswers, faults,
                    restarts, offline, confirmed>>
    BY <1>1 DEF Input!vars, Input!world, Input!bounds, Input!history
  <2>2. Input!TypeOK'
    BY <2>1, InputFacts DEF Input!TypeOK
  <2>3. QED
    BY <2>1, <2>2, WorldStep DEF Input!Unfinished
<1>2. CASE Input!Next
  BY <1>2, EnvironmentStep, RestartedStep, TickStep, MayRetryStep, YouTubeSteps, DiscordSteps
  DEF Input!Next, Input!Run
<1>3. QED
  BY <1>1, <1>2

\* However often calls fail or lose their answers, the input drops or the process
\* is restarted, the watchers act only after a confirmed offline input, never two
\* unfinished broadcasts are bound to the stream, and a session is announced once
\* and once more for every lost answer.
THEOREM InputIsSafe ==
    ASSUME Input!ConstantsOK
    PROVE  Input!Spec => []InputSafety
<1>1. Input!Init => InputInv
  BY InputInit
<1>2. InputInv /\ [Input!Next]_(Input!vars) => InputInv'
  BY InputStep
<1>3. InputInv => InputSafety
  BY DEF InputInv, InputSafety, Input!InputSafety, Input!ActsOnlyAfterConfirmedOffline,
         ArmedIsConfirmed,
         Input!AnnouncedOncePerAnswer, AnnouncementsPaidFor
<1>4. QED
  BY <1>1, <1>2, <1>3, PTL DEF Input!Spec
-----------------------------------------------------------------------------
(* The Kick webhook receiver: its map of accepted events.                  *)

\* Remembering an event adds it, with the present time, and removes exactly the
\* entries that are old enough to be forgotten.
LEMMA RememberAddsAndSweeps ==
    ASSUME ConstantsOK, TypeOK, NEW e \in Events, Remember(e)
    PROVE  /\ \A k : k \in DOMAIN seen' <=>
                        k = e \/ (k \in DOMAIN seen /\ ~Forgotten(now - seen[k]))
           /\ \A k \in DOMAIN seen' : seen'[k] = IF k = e THEN now ELSE seen[k]
           /\ DOMAIN seen' \in SUBSET Events
           /\ seen' \in [DOMAIN seen' -> Nat]
<1>. DEFINE updated == [k \in DOMAIN seen \cup {e} |-> IF k = e THEN now ELSE seen[k]]
            kept == {k \in DOMAIN updated : ~Forgotten(now - updated[k])}
<1>1. seen' = [k \in kept |-> updated[k]]
  BY DEF Remember, Restrict
<1>2. now \in Nat /\ MaxAge \in Nat
  BY DEF TypeOK, ConstantsOK
<1>3. ~Forgotten(now - now)
  BY <1>2 DEF Forgotten
<1>4. DOMAIN updated = DOMAIN seen \cup {e}
  OBVIOUS
<1>5. /\ updated[e] = now
      /\ \A k \in DOMAIN seen \ {e} : updated[k] = seen[k]
  OBVIOUS
<1>. HIDE DEF updated
<1>6. \A k : k \in kept <=> k = e \/ (k \in DOMAIN seen /\ ~Forgotten(now - seen[k]))
  BY <1>3, <1>4, <1>5
<1>7. \A k \in kept : updated[k] = IF k = e THEN now ELSE seen[k]
  BY <1>4, <1>5
<1>8. \A k \in DOMAIN seen : k \in Events /\ seen[k] \in Nat
  BY DEF TypeOK
<1>9. kept \in SUBSET Events /\ \A k \in kept : updated[k] \in Nat
  BY <1>2, <1>6, <1>7, <1>8
<1>. HIDE DEF kept
<1>10. DOMAIN seen' = kept /\ \A k \in kept : seen'[k] = updated[k]
  BY <1>1
<1>11. QED
  BY <1>1, <1>6, <1>7, <1>9, <1>10

-----------------------------------------------------------------------------
(* Type correctness.                                                       *)

LEMMA WebhookTypeInit ==
    ASSUME ConstantsOK
    PROVE  Init => TypeOK
<1>. SUFFICES ASSUME Init
              PROVE  TypeOK
  OBVIOUS
<1>1. queue \in Seq(Events) /\ Len(queue) = 0
  BY EmptySeq DEF Init
<1>2. DOMAIN seen = {} /\ seen \in [DOMAIN seen -> Nat]
  BY DEF Init
<1>3. handling \in [Requests -> Events]
  BY DEF Init
<1>4. stamp \in [Events -> Nat]
  BY DEF Init, ConstantsOK
<1>5. QED
  BY <1>1, <1>2, <1>3, <1>4 DEF Init, TypeOK, ConstantsOK

LEMMA WebhookTypeStep ==
    ASSUME ConstantsOK, TypeOK, [Next]_vars
    PROVE  TypeOK'
<1>. USE DEF ConstantsOK, TypeOK
<1>1. ASSUME Tick
      PROVE  TypeOK'
  BY <1>1 DEF Tick
<1>2. ASSUME Drain
      PROVE  TypeOK'
  <2>1. queue' \in Seq(Events) /\ Len(queue') <= QueueSize
    BY <1>2, HeadTailProperties, LenProperties DEF Drain
  <2>2. QED
    BY <1>2, <2>1 DEF Drain
<1>3. ASSUME NEW r \in Requests, NEW e \in Events, Arrive(r, e)
      PROVE  TypeOK'
  BY <1>3, SMTT(30) DEF Arrive
<1>4. ASSUME NEW r \in Requests, AnswerDuplicate(r) \/ AnswerBusy(r)
      PROVE  TypeOK'
  BY <1>4 DEF AnswerDuplicate, AnswerBusy, Return
<1>5. ASSUME NEW r \in Requests, Accept(r)
      PROVE  TypeOK'
  <2>1. handling[r] \in Events
    OBVIOUS
  <2>2. queue' \in Seq(Events) /\ Len(queue') <= QueueSize
    <3>1. /\ Append(queue, handling[r]) \in Seq(Events)
          /\ Len(Append(queue, handling[r])) = Len(queue) + 1
          /\ Len(queue) \in Nat
      BY <2>1, AppendProperties, LenProperties
    <3>2. QED
      BY <1>5, <3>1 DEF Accept, QueueHasRoom
  <2>3. DOMAIN seen' \in SUBSET Events /\ seen' \in [DOMAIN seen' -> Nat]
    BY <1>5, <2>1, RememberAddsAndSweeps DEF Accept
  <2>4. accepted' \in [Events -> Nat]
    BY <1>5, <2>1 DEF Accept
  <2>5. answers' \in SUBSET Events /\ phase' \in [Requests -> {"idle", "checked"}]
    BY <1>5, <2>1 DEF Accept, Return
  <2>6. QED
    BY <1>5, <2>2, <2>3, <2>4, <2>5 DEF Accept, Return
<1>6. ASSUME UNCHANGED vars
      PROVE  TypeOK'
  BY <1>6 DEF vars
<1>7. QED
  BY <1>1, <1>2, <1>3, <1>4, <1>5, <1>6 DEF Next

\* Every reachable state of the receiver has its type; in particular the
\* message queue never holds more than its capacity (kick.go:471-481).
THEOREM WebhookIsTyped ==
    ASSUME ConstantsOK
    PROVE  Spec => []TypeOK
<1>1. Init => TypeOK
  BY WebhookTypeInit
<1>2. TypeOK /\ [Next]_vars => TypeOK'
  BY WebhookTypeStep
<1>3. QED
  BY <1>1, <1>2, PTL DEF Spec

-----------------------------------------------------------------------------
(* The inductive invariant: a duplicate is recognised although the map is  *)
(* swept, because an entry is only swept when every request for its event  *)
(* that could pass the age check has passed it and left.                   *)

\* A handler past the age check got there with a timestamp that was in order,
\* and reaches the mutex in time.
HandlersInTime ==
    \A r \in Requests : Inside(r) =>
        /\ arrived[r] <= now
        /\ now <= arrived[r] + MaxHandling
        /\ stamp[handling[r]] <= arrived[r] + MaxSkew
        /\ arrived[r] <= stamp[handling[r]] + MaxAge

\* An entry of the map is of an accepted event, and not older than its stamp
\* by more than the skew.
EntriesAccepted ==
    \A e \in DOMAIN seen :
        /\ accepted[e] >= 1
        /\ seen[e] <= now
        /\ stamp[e] <= seen[e] + MaxSkew

\* An event that was accepted and is no longer in the map is too old for every
\* request, even for one that passed the age check at the last moment.
ForgottenTooOld ==
    \A e \in Events :
        accepted[e] > 0 /\ e \notin DOMAIN seen
            => now > stamp[e] + MaxAge + MaxHandling

WebhookInv ==
    /\ TypeOK
    /\ HandlersInTime
    /\ EntriesAccepted
    /\ ForgottenTooOld
    /\ AcceptedAtMostOnce
    /\ AnsweredWasAccepted

\* The invariant says why the map is enough.
LEMMA WebhookRemembers ==
    ASSUME ConstantsOK
    PROVE  WebhookInv => RememberedWhileAcceptable
<1>. SUFFICES ASSUME WebhookInv, NEW e \in Events, accepted[e] > 0, e \notin DOMAIN seen,
                     Fresh(e) \/ \E r \in Requests : Inside(r) /\ handling[r] = e
              PROVE  FALSE
  BY DEF RememberedWhileAcceptable
<1>1. /\ now \in Nat /\ stamp[e] \in Nat /\ MaxAge \in Nat /\ MaxHandling \in Nat
      /\ \A r \in Requests : arrived[r] \in Nat
  BY DEF WebhookInv, TypeOK, ConstantsOK
<1>2. now > stamp[e] + MaxAge + MaxHandling
  BY DEF WebhookInv, ForgottenTooOld
<1>3. CASE Fresh(e)
  BY <1>1, <1>2, <1>3 DEF Fresh
<1>4. ASSUME NEW r \in Requests, Inside(r), handling[r] = e
      PROVE  FALSE
  <2>1. now <= arrived[r] + MaxHandling /\ arrived[r] <= stamp[e] + MaxAge
    BY <1>4 DEF WebhookInv, HandlersInTime
  <2>2. QED
    BY <1>1, <1>2, <2>1
<1>5. QED
  BY <1>3, <1>4

LEMMA WebhookInit ==
    ASSUME ConstantsOK
    PROVE  Init => WebhookInv
<1>. SUFFICES ASSUME Init
              PROVE  WebhookInv
  OBVIOUS
<1>1. TypeOK
  BY WebhookTypeInit
<1>2. HandlersInTime /\ ForgottenTooOld /\ AcceptedAtMostOnce /\ AnsweredWasAccepted
  BY DEF Init, HandlersInTime, Inside, ForgottenTooOld, AcceptedAtMostOnce,
         AnsweredWasAccepted
<1>3. EntriesAccepted
  BY DEF Init, EntriesAccepted
<1>4. QED
  BY <1>1, <1>2, <1>3 DEF WebhookInv

LEMMA WebhookStep ==
    ASSUME ConstantsOK, WebhookInv, [Next]_vars
    PROVE  WebhookInv'
<1>. USE DEF ConstantsOK
<1>0. TypeOK /\ TypeOK'
  BY WebhookTypeStep DEF WebhookInv
<1>1. ASSUME Tick
      PROVE  WebhookInv'
  <2>1. /\ now' = now + 1 /\ now \in Nat
        /\ UNCHANGED <<stamp, seen, handling, arrived, phase, accepted, answers>>
    BY <1>0, <1>1 DEF Tick, TypeOK
  <2>2. HandlersInTime'
    BY <1>0, <1>1, <2>1 DEF WebhookInv, HandlersInTime, Inside, Tick, TypeOK
  <2>3. EntriesAccepted'
    BY <1>0, <2>1 DEF WebhookInv, EntriesAccepted, TypeOK
  <2>4. ForgottenTooOld'
    BY <1>0, <2>1 DEF WebhookInv, ForgottenTooOld, TypeOK
  <2>5. AcceptedAtMostOnce' /\ AnsweredWasAccepted'
    BY <2>1 DEF WebhookInv, AcceptedAtMostOnce, AnsweredWasAccepted
  <2>6. QED
    BY <1>0, <2>2, <2>3, <2>4, <2>5 DEF WebhookInv
<1>2. ASSUME Drain \/ UNCHANGED vars
      PROVE  WebhookInv'
  <2>1. UNCHANGED <<now, stamp, seen, handling, arrived, phase, accepted, answers>>
    BY <1>2 DEF Drain, vars
  <2>2. QED
    BY <1>0, <2>1
    DEF WebhookInv, HandlersInTime, Inside, EntriesAccepted, ForgottenTooOld,
        AcceptedAtMostOnce, AnsweredWasAccepted
<1>3. ASSUME NEW r \in Requests, NEW e \in Events, Arrive(r, e)
      PROVE  WebhookInv'
  <2>1. /\ UNCHANGED <<now, stamp, seen, accepted, answers>>
        /\ phase' = [phase EXCEPT ![r] = "checked"]
        /\ handling' = [handling EXCEPT ![r] = e]
        /\ arrived' = [arrived EXCEPT ![r] = now]
        /\ stamp[e] <= now + MaxSkew /\ now <= stamp[e] + MaxAge
    BY <1>3 DEF Arrive, Fresh
  <2>2. ASSUME NEW q \in Requests, Inside(q)'
        PROVE  /\ arrived'[q] <= now'
               /\ now' <= arrived'[q] + MaxHandling
               /\ stamp'[handling'[q]] <= arrived'[q] + MaxSkew
               /\ arrived'[q] <= stamp'[handling'[q]] + MaxAge
    <3>1. CASE q = r
      <4>1. handling'[q] = e /\ arrived'[q] = now
        BY <1>0, <2>1, <3>1 DEF TypeOK
      <4>2. now \in Nat /\ MaxHandling \in Nat
        BY <1>0 DEF TypeOK
      <4>3. QED
        BY <2>1, <4>1, <4>2
    <3>2. CASE q # r
      <4>1. Inside(q) /\ handling'[q] = handling[q] /\ arrived'[q] = arrived[q]
        BY <1>0, <2>1, <2>2, <3>2 DEF TypeOK, Inside
      <4>2. QED
        BY <2>1, <4>1 DEF WebhookInv, HandlersInTime
    <3>3. QED
      BY <3>1, <3>2
  <2>3. HandlersInTime'
    BY <2>2 DEF HandlersInTime
  <2>4. QED
    BY <1>0, <2>1, <2>3
    DEF WebhookInv, EntriesAccepted, ForgottenTooOld, AcceptedAtMostOnce,
        AnsweredWasAccepted
<1>4. ASSUME NEW r \in Requests, AnswerDuplicate(r) \/ AnswerBusy(r) \/ Accept(r)
      PROVE  HandlersInTime'
  <2>1. UNCHANGED <<now, stamp, handling, arrived>> /\ phase' = [phase EXCEPT ![r] = "idle"]
    BY <1>4 DEF AnswerDuplicate, AnswerBusy, Accept, Return
  <2>2. QED
    BY <1>0, <2>1 DEF WebhookInv, HandlersInTime, Inside, TypeOK
<1>5. ASSUME NEW r \in Requests, AnswerDuplicate(r) \/ AnswerBusy(r)
      PROVE  WebhookInv'
  <2>1. UNCHANGED <<now, stamp, seen, accepted>>
    BY <1>5 DEF AnswerDuplicate, AnswerBusy, Return
  <2>2. \/ answers' = answers
        \/ answers' = answers \cup {handling[r]} /\ handling[r] \in DOMAIN seen
    BY <1>5 DEF AnswerDuplicate, AnswerBusy
  <2>3. AnsweredWasAccepted'
    BY <2>1, <2>2 DEF WebhookInv, AnsweredWasAccepted, EntriesAccepted
  <2>4. QED
    BY <1>0, <1>4, <1>5, <2>1, <2>3
    DEF WebhookInv, EntriesAccepted, ForgottenTooOld, AcceptedAtMostOnce
<1>6. ASSUME NEW r \in Requests, Accept(r)
      PROVE  WebhookInv'
  <2>. DEFINE e == handling[r]
  <2>1. /\ e \in Events /\ Inside(r) /\ e \notin DOMAIN seen /\ Remember(e)
        /\ UNCHANGED <<now, stamp>>
        /\ accepted' = [accepted EXCEPT ![e] = accepted[e] + 1]
        /\ answers' = answers \cup {e}
    BY <1>0, <1>6 DEF Accept, Return, TypeOK
  <2>. HIDE DEF e
  <2>2. accepted[e] = 0
    <3>1. ~(accepted[e] > 0)
      BY <2>1, WebhookRemembers DEF RememberedWhileAcceptable, e
    <3>2. QED
      BY <1>0, <2>1, <3>1 DEF TypeOK
  <2>3. /\ accepted'[e] = 1
        /\ \A k \in Events \ {e} : accepted'[k] = accepted[k]
    BY <1>0, <2>1, <2>2 DEF TypeOK
  <2>4. /\ \A k : k \in DOMAIN seen' <=>
                     k = e \/ (k \in DOMAIN seen /\ ~Forgotten(now - seen[k]))
        /\ \A k \in DOMAIN seen' : seen'[k] = IF k = e THEN now ELSE seen[k]
    BY <1>0, <2>1, RememberAddsAndSweeps
  <2>5. stamp[e] <= now + MaxSkew
    <3>1. arrived[r] <= now /\ stamp[e] <= arrived[r] + MaxSkew
      BY <2>1 DEF WebhookInv, HandlersInTime, e
    <3>2. now \in Nat /\ arrived[r] \in Nat /\ stamp[e] \in Nat /\ MaxSkew \in Nat
      BY <1>0, <2>1 DEF TypeOK
    <3>3. QED
      BY <3>1, <3>2
  <2>6. EntriesAccepted'
    <3>1. ASSUME NEW k \in DOMAIN seen', k = e
          PROVE  accepted'[k] >= 1 /\ seen'[k] <= now' /\ stamp'[k] <= seen'[k] + MaxSkew
      <4>1. now \in Nat /\ seen'[k] = now /\ accepted'[k] = 1
        BY <1>0, <2>3, <2>4, <3>1 DEF TypeOK
      <4>2. QED
        BY <2>1, <2>5, <3>1, <4>1
    <3>2. ASSUME NEW k \in DOMAIN seen', k # e
          PROVE  accepted'[k] >= 1 /\ seen'[k] <= now' /\ stamp'[k] <= seen'[k] + MaxSkew
      BY <1>0, <2>1, <2>3, <2>4, <3>2 DEF WebhookInv, EntriesAccepted, TypeOK
    <3>3. QED
      BY <3>1, <3>2 DEF EntriesAccepted
  <2>7. ForgottenTooOld'
    <3>1. SUFFICES ASSUME NEW k \in Events, accepted'[k] > 0, k \notin DOMAIN seen'
                   PROVE  now > stamp[k] + MaxAge + MaxHandling
      BY <2>1 DEF ForgottenTooOld
    <3>2. k # e /\ accepted[k] > 0
      BY <2>3, <2>4, <3>1
    <3>3. CASE k \notin DOMAIN seen
      BY <3>2, <3>3 DEF WebhookInv, ForgottenTooOld
    <3>4. CASE k \in DOMAIN seen
      <4>1. now - seen[k] > MaxAge * 2
        BY <2>4, <3>1, <3>4 DEF Forgotten
      <4>2. stamp[k] <= seen[k] + MaxSkew
        BY <3>4 DEF WebhookInv, EntriesAccepted
      <4>3. /\ now \in Nat /\ seen[k] \in Nat /\ stamp[k] \in Nat
            /\ MaxAge \in Nat /\ MaxSkew \in Nat /\ MaxHandling \in Nat
            /\ MaxSkew + MaxHandling <= MaxAge
        BY <1>0, <3>1, <3>4 DEF TypeOK
      <4>4. QED
        BY <4>1, <4>2, <4>3
    <3>5. QED
      BY <3>3, <3>4
  <2>8. AcceptedAtMostOnce'
    BY <2>3 DEF WebhookInv, AcceptedAtMostOnce
  <2>9. AnsweredWasAccepted'
    <3>1. ASSUME NEW k \in answers'
          PROVE  accepted'[k] >= 1
      <4>1. CASE k = e
        BY <2>3, <4>1
      <4>2. CASE k # e
        <5>1. k \in answers /\ k \in Events
          BY <1>0, <2>1, <4>2 DEF TypeOK
        <5>2. QED
          BY <2>3, <4>2, <5>1 DEF WebhookInv, AnsweredWasAccepted
      <4>3. QED
        BY <4>1, <4>2
    <3>2. QED
      BY <3>1 DEF AnsweredWasAccepted
  <2>10. QED
    BY <1>0, <1>4, <1>6, <2>6, <2>7, <2>8, <2>9 DEF WebhookInv
<1>7. QED
  BY <1>1, <1>2, <1>3, <1>5, <1>6 DEF Next

\* The strengthening is an invariant of the receiver.
THEOREM WebhookInvariance ==
    ASSUME ConstantsOK
    PROVE  Spec => []WebhookInv
<1>1. Init => WebhookInv
  BY WebhookInit
<1>2. WebhookInv /\ [Next]_vars => WebhookInv'
  BY WebhookStep
<1>3. QED
  BY <1>1, <1>2, PTL DEF Spec

\* One process queues a Kick event at most once, however often and late it is
\* delivered and however many handlers deal with it at once (kick.go:461-482).
THEOREM NoEventAcceptedTwice ==
    ASSUME ConstantsOK
    PROVE  Spec => []AcceptedAtMostOnce
<1>1. Spec => []WebhookInv
  BY WebhookInvariance
<1>2. WebhookInv => AcceptedAtMostOnce
  BY DEF WebhookInv
<1>3. QED
  BY <1>1, <1>2, PTL

\* No event that was refused as busy is answered 204 before it is accepted.
THEOREM AnswersAreHonest ==
    ASSUME ConstantsOK
    PROVE  Spec => []AnsweredWasAccepted
<1>1. Spec => []WebhookInv
  BY WebhookInvariance
<1>2. WebhookInv => AnsweredWasAccepted
  BY DEF WebhookInv
<1>3. QED
  BY <1>1, <1>2, PTL

\* The map holds an accepted event as long as a request for it could pass.
THEOREM MapIsLongEnough ==
    ASSUME ConstantsOK
    PROVE  Spec => []RememberedWhileAcceptable
<1>1. Spec => []WebhookInv
  BY WebhookInvariance
<1>2. WebhookInv => RememberedWhileAcceptable
  BY WebhookRemembers
<1>3. QED
  BY <1>1, <1>2, PTL

-----------------------------------------------------------------------------
(* Twitch's EventSub sessions.                                             *)

\* How TwitchSession counts is how everything else does.
LEMMA SameCount ==
    ASSUME NEW S
    PROVE  Twitch!Cardinality(S) = Cardinality(S)
BY DEF Twitch!Cardinality, Cardinality

-----------------------------------------------------------------------------
(* The inductive invariant.                                                *)

\* Sockets are numbered as they are opened, and nothing happens to those to come.
OpenedInOrder ==
    /\ open \subseteq 1 .. sockets /\ lost \subseteq 1 .. sockets
    /\ conn \in 0 .. sockets /\ previous \in 0 .. sockets
    /\ state = "reading" => conn # Twitch!None /\ conn # previous
    /\ \A s \in Twitch!Sockets : s > sockets => inbox[s] = <<>>

\* A socket is welcomed once, by its first frame.
WelcomedFirst ==
    \A s \in Twitch!Sockets : \A i \in 1 .. Len(inbox[s]) : inbox[s][i] = "welcome" => i = 1

Welcoming(s) == inbox[s] # <<>> /\ Head(inbox[s]) = "welcome"
Unwelcomed == state = "reading" /\ Welcoming(conn)

\* A session asks for its subscriptions once.
AskedOncePerSocket ==
    /\ asked <= sockets
    /\ Unwelcomed => asked < sockets

\* What was asked for, is about to be and will have to be again is paid for by
\* faults, but for the first session's subscriptions.
AboutToAsk == ~inherited /\ (state \in {"dialling", "waiting"} \/ Unwelcomed)
Failing == state = "reading" /\ conn \in lost
AskedIsPaidFor ==
    /\ asked <= twitchFaults + 1
    /\ AboutToAsk \/ Failing => asked <= twitchFaults
    /\ AboutToAsk /\ Failing => asked < twitchFaults

\* From the session_reconnect to the welcome of a replacement, however many are
\* dialled, the replaced socket is open.
HandoverKept ==
    /\ inherited
    /\ state \in {"dialling", "waiting"} \/ (state = "reading" /\ ~adopted)
    => previous \in open

SocketInv ==
    /\ Twitch!TypeOK
    /\ OpenedInOrder
    /\ WelcomedFirst
    /\ AskedOncePerSocket
    /\ AskedIsPaidFor
    /\ Twitch!NoSocketLeak
    /\ HandoverKept

IInv == SocketInv /\ Twitch!TakenOncePerWindow /\ Twitch!RecordedIsDelivered

LEMMA InvInit ==
    ASSUME Twitch!ConstantsOK, Twitch!Init
    PROVE  SocketInv
<1>1. Twitch!TypeOK
  <2>1. <<>> \in Seq(Notifications) /\ <<>> \in Seq(Twitch!Frames)
    BY EmptySeq
  <2>2. inherited \in BOOLEAN /\ adopted \in BOOLEAN /\ cancelled \in BOOLEAN
        /\ started \in BOOLEAN /\ urlAlive \in BOOLEAN /\ ~started
    BY Zenon DEF Twitch!Init
  <2>3. QED
    BY <2>1, <2>2 DEF Twitch!Init, Twitch!TypeOK, Twitch!ConstantsOK, Twitch!None
<1>2. OpenedInOrder /\ Twitch!NoSocketLeak /\ HandoverKept
  BY DEF Twitch!Init, OpenedInOrder, Twitch!NoSocketLeak, HandoverKept, Twitch!None
<1>3. WelcomedFirst
  BY EmptySeq DEF Twitch!Init, WelcomedFirst
<1>4. AskedOncePerSocket /\ AskedIsPaidFor
  BY DEF Twitch!Init, AskedOncePerSocket, AskedIsPaidFor, AboutToAsk, Failing, Unwelcomed
<1>5. QED
  BY <1>1, <1>2, <1>3, <1>4 DEF SocketInv

-----------------------------------------------------------------------------
(* What the steps do to the inboxes.                                       *)

LEMMA FrameTypes ==
    ASSUME Twitch!ConstantsOK
    PROVE  /\ Notifications \subseteq Twitch!Frames \ {"welcome"}
           /\ {"reconnect", "revoked"} \subseteq Twitch!Frames \ {"welcome"}
           /\ "welcome" \in Twitch!Frames
           /\ Twitch!NoEvent \notin Notifications
  BY DEF Twitch!ConstantsOK, Twitch!Frames, Twitch!NoEvent

\* Frames arrive, if any, on open sockets, and are no welcomes.
FramesArrive ==
    \A s \in Twitch!Sockets :
        \/ inbox'[s] = inbox[s]
        \/ /\ s \in open
           /\ \E f \in Twitch!Frames \ {"welcome"} : inbox'[s] = Append(inbox[s], f)

\* A frame that arrives waits behind those that are there.
LEMMA Arrival ==
    ASSUME inbox \in [Twitch!Sockets -> Seq(Twitch!Frames)], WelcomedFirst,
           inbox' \in [Twitch!Sockets -> Seq(Twitch!Frames)], FramesArrive
    PROVE  /\ WelcomedFirst'
           /\ \A s \in Twitch!Sockets : Welcoming(s)' <=> Welcoming(s)
<1>1. ASSUME NEW s \in Twitch!Sockets
      PROVE  /\ \A i \in 1 .. Len(inbox'[s]) : inbox'[s][i] = "welcome" => i = 1
             /\ Welcoming(s)' <=> Welcoming(s)
  <2>0. inbox[s] \in Seq(Twitch!Frames) /\ inbox'[s] \in Seq(Twitch!Frames)
    OBVIOUS
  <2>1. CASE inbox'[s] = inbox[s]
    BY <2>1 DEF WelcomedFirst, Welcoming
  <2>2. CASE \E f \in Twitch!Frames \ {"welcome"} : inbox'[s] = Append(inbox[s], f)
    <3>1. PICK f \in Twitch!Frames \ {"welcome"} : inbox'[s] = Append(inbox[s], f)
      BY <2>2
    <3>2. /\ inbox'[s] # <<>>
          /\ Len(inbox'[s]) = Len(inbox[s]) + 1 /\ Len(inbox[s]) \in Nat
          /\ \A i \in 1 .. Len(inbox[s]) : inbox'[s][i] = inbox[s][i]
          /\ inbox'[s][Len(inbox[s]) + 1] = f
      BY <2>0, <3>1, AppendProperties, LenProperties
    <3>3. ASSUME NEW i \in 1 .. Len(inbox'[s]), inbox'[s][i] = "welcome"
          PROVE  i = 1
      <4>1. i \in 1 .. Len(inbox[s])
        BY <3>2, <3>3
      <4>2. QED
        BY <3>2, <3>3, <4>1 DEF WelcomedFirst
    <3>4. Head(inbox'[s]) = IF inbox[s] = <<>> THEN f ELSE Head(inbox[s])
      BY <2>0, <3>1, HeadTailAppend
    <3>5. QED
      BY <3>2, <3>3, <3>4 DEF Welcoming
  <2>3. QED
    BY <2>1, <2>2 DEF FramesArrive
<1>2. QED
  BY <1>1 DEF WelcomedFirst

\* A reader takes the first frame of its socket; what is left is no welcome.
LEMMA FrameRead ==
    ASSUME inbox \in [Twitch!Sockets -> Seq(Twitch!Frames)], WelcomedFirst,
           NEW s \in Twitch!Sockets, NEW frame, Twitch!ReadsFrame(s, frame)
    PROVE  /\ inbox' \in [Twitch!Sockets -> Seq(Twitch!Frames)]
           /\ WelcomedFirst'
           /\ ~Welcoming(s)'
           /\ Welcoming(s) <=> frame = "welcome"
           /\ \A t \in Twitch!Sockets \ {s} :
                inbox'[t] = inbox[t] /\ (Welcoming(t)' <=> Welcoming(t))
           /\ s \in open
<1>1. /\ inbox[s] \in Seq(Twitch!Frames) /\ inbox[s] # <<>> /\ s \in open
      /\ Head(inbox[s]) = frame
      /\ inbox' = [inbox EXCEPT ![s] = Tail(inbox[s])]
  BY DEF Twitch!ReadsFrame
<1>2. /\ Tail(inbox[s]) \in Seq(Twitch!Frames)
      /\ Len(Tail(inbox[s])) = Len(inbox[s]) - 1
      /\ \A i \in 1 .. Len(Tail(inbox[s])) : Tail(inbox[s])[i] = inbox[s][i + 1]
      /\ Len(inbox[s]) \in Nat
  BY <1>1, HeadTailProperties, LenProperties
<1>3. inbox' \in [Twitch!Sockets -> Seq(Twitch!Frames)] /\ inbox'[s] = Tail(inbox[s])
      /\ \A t \in Twitch!Sockets \ {s} : inbox'[t] = inbox[t]
  BY <1>1, <1>2
<1>4. \A i \in 1 .. Len(inbox'[s]) : inbox'[s][i] # "welcome"
  BY <1>2, <1>3 DEF WelcomedFirst
<1>5. WelcomedFirst'
  BY <1>3, <1>4 DEF WelcomedFirst
<1>6. ~Welcoming(s)'
  <2>. SUFFICES ASSUME inbox'[s] # <<>>, Head(inbox'[s]) = "welcome"
                PROVE  FALSE
    BY DEF Welcoming
  <2>1. inbox'[s] \in Seq(Twitch!Frames) /\ Len(inbox'[s]) \in Nat \ {0}
    BY <1>3, EmptySeq
  <2>2. Head(inbox'[s]) = inbox'[s][1]
    BY <2>1
  <2>3. QED
    BY <1>4, <2>1, <2>2
<1>7. QED
  BY <1>1, <1>3, <1>5, <1>6 DEF Welcoming

-----------------------------------------------------------------------------
(* The steps of Twitch and the network.                                    *)

\* Frames that arrive, and time and faults that pass, disturb no socket.
LEMMA ArrivalStep ==
    ASSUME Twitch!ConstantsOK, SocketInv, Twitch!TypeOK', FramesArrive,
           UNCHANGED <<state, inherited, adopted, conn, previous, asked, sockets,
                       open, lost>>,
           twitchFaults' = twitchFaults \/ twitchFaults' = twitchFaults + 1
    PROVE  SocketInv'
<1>1. WelcomedFirst' /\ \A s \in Twitch!Sockets : Welcoming(s)' <=> Welcoming(s)
  BY Arrival DEF SocketInv, Twitch!TypeOK
<1>2. conn \in Twitch!Sockets \/ state # "reading"
  BY DEF SocketInv, Twitch!TypeOK, OpenedInOrder
<1>3. (Unwelcomed' <=> Unwelcomed) /\ (AboutToAsk' <=> AboutToAsk) /\ (Failing' <=> Failing)
  BY <1>1, <1>2 DEF Unwelcomed, AboutToAsk, Failing
<1>4. OpenedInOrder'
  BY DEF SocketInv, Twitch!TypeOK, OpenedInOrder, FramesArrive
<1>5. AskedOncePerSocket' /\ AskedIsPaidFor'
  <2>1. asked \in Nat /\ twitchFaults \in Nat
    BY DEF Twitch!ConstantsOK, SocketInv, Twitch!TypeOK
  <2>2. AskedIsPaidFor'
    BY <1>3, <2>1 DEF SocketInv, AskedIsPaidFor
  <2>3. QED
    BY <1>3, <2>2 DEF SocketInv, AskedOncePerSocket
<1>6. Twitch!NoSocketLeak' /\ HandoverKept'
  BY DEF SocketInv, Twitch!NoSocketLeak, HandoverKept
<1>7. QED
  BY <1>1, <1>4, <1>5, <1>6 DEF SocketInv

LEMMA NetworkStep ==
    ASSUME Twitch!ConstantsOK, SocketInv, Twitch!Network
    PROVE  SocketInv'
<1>0. Twitch!TypeOK /\ TwitchFaults \in Nat /\ MaxReconnects \in Nat
      /\ open \subseteq Twitch!Sockets
  BY DEF SocketInv, Twitch!TypeOK, Twitch!ConstantsOK
<1>1. ASSUME NEW s \in open, NEW f \in Twitch!Frames \ {"welcome"}, Twitch!Receive(s, f)
      PROVE  /\ inbox' \in [Twitch!Sockets -> Seq(Twitch!Frames)]
             /\ \A t \in Twitch!Sockets :
                   \/ inbox'[t] = inbox[t]
                   \/ t \in open /\ inbox'[t] = Append(inbox[t], f)
  <2>1. s \in Twitch!Sockets /\ Append(inbox[s], f) \in Seq(Twitch!Frames)
    BY <1>0, AppendProperties DEF Twitch!TypeOK
  <2>2. QED
    BY <1>0, <1>1, <2>1 DEF Twitch!Receive, Twitch!TypeOK
<1>2. ASSUME NEW e \in Notifications, Twitch!Publish(e)
      PROVE  SocketInv'
  <2>1. e \in Twitch!Frames \ {"welcome"}
    BY FrameTypes
  <2>2. \A s \in Twitch!Sockets : Append(inbox[s], e) \in Seq(Twitch!Frames)
    BY <1>0, <2>1, AppendProperties DEF Twitch!TypeOK
  <2>3. inbox' \in [Twitch!Sockets -> Seq(Twitch!Frames)]
    BY <1>0, <1>2, <2>2 DEF Twitch!Publish, Twitch!TypeOK
  <2>4. Twitch!TypeOK'
    BY <1>0, <1>2, <2>3 DEF Twitch!Publish, Twitch!TypeOK, Twitch!client
  <2>5. QED
    BY <1>0, <1>2, <2>1, <2>4, ArrivalStep
    DEF Twitch!Publish, Twitch!client, Twitch!Alive, FramesArrive
<1>3. ASSUME NEW e \in Notifications, NEW s \in Twitch!Sockets, Twitch!SendAgain(e, s)
      PROVE  SocketInv'
  <2>1. e \in Twitch!Frames \ {"welcome"} /\ s \in open
    BY <1>3, FrameTypes DEF Twitch!SendAgain, Twitch!Alive
  <2>2. /\ inbox' \in [Twitch!Sockets -> Seq(Twitch!Frames)]
        /\ \A t \in Twitch!Sockets :
              \/ inbox'[t] = inbox[t]
              \/ t \in open /\ inbox'[t] = Append(inbox[t], e)
    BY <1>1, <1>3, <2>1 DEF Twitch!SendAgain
  <2>3. Twitch!TypeOK'
    BY <1>0, <1>3, <2>2 DEF Twitch!SendAgain, Twitch!Fault, Twitch!TypeOK, Twitch!client
  <2>4. QED
    BY <1>3, <2>1, <2>2, <2>3, ArrivalStep
    DEF Twitch!SendAgain, Twitch!Fault, Twitch!client, FramesArrive
<1>4. ASSUME NEW s \in Twitch!Sockets, Twitch!AskReconnect(s)
      PROVE  SocketInv'
  <2>1. "reconnect" \in Twitch!Frames \ {"welcome"} /\ s \in open
    BY <1>4, FrameTypes DEF Twitch!AskReconnect, Twitch!Alive
  <2>2. /\ inbox' \in [Twitch!Sockets -> Seq(Twitch!Frames)]
        /\ \A t \in Twitch!Sockets :
              \/ inbox'[t] = inbox[t]
              \/ t \in open /\ inbox'[t] = Append(inbox[t], "reconnect")
    BY <1>1, <1>4, <2>1 DEF Twitch!AskReconnect
  <2>3. urlAlive' \in BOOLEAN
    BY <1>4, Zenon DEF Twitch!AskReconnect
  <2>4. Twitch!TypeOK'
    BY <1>0, <1>4, <2>2, <2>3 DEF Twitch!AskReconnect, Twitch!TypeOK, Twitch!client
  <2>5. QED
    BY <1>4, <2>1, <2>2, <2>4, ArrivalStep DEF Twitch!AskReconnect, Twitch!client, FramesArrive
<1>5. ASSUME NEW s \in Twitch!Sockets, Twitch!Revoke(s)
      PROVE  SocketInv'
  <2>1. "revoked" \in Twitch!Frames \ {"welcome"} /\ s \in open
    BY <1>5, FrameTypes DEF Twitch!Revoke, Twitch!Alive
  <2>2. /\ inbox' \in [Twitch!Sockets -> Seq(Twitch!Frames)]
        /\ \A t \in Twitch!Sockets :
              \/ inbox'[t] = inbox[t]
              \/ t \in open /\ inbox'[t] = Append(inbox[t], "revoked")
    BY <1>1, <1>5, <2>1 DEF Twitch!Revoke
  <2>3. Twitch!TypeOK'
    BY <1>0, <1>5, <2>2 DEF Twitch!Revoke, Twitch!Fault, Twitch!TypeOK, Twitch!client
  <2>4. QED
    BY <1>5, <2>1, <2>2, <2>3, ArrivalStep
    DEF Twitch!Revoke, Twitch!Fault, Twitch!client, FramesArrive
<1>6. ASSUME NEW s \in Twitch!Sockets, Twitch!LoseSocket(s)
      PROVE  SocketInv'
  <2>1. Twitch!TypeOK'
    BY <1>0, <1>6
    DEF Twitch!LoseSocket, Twitch!Alive, Twitch!Fault, Twitch!TypeOK, Twitch!client
  <2>2. OpenedInOrder' /\ WelcomedFirst' /\ AskedOncePerSocket'
    BY <1>6
    DEF Twitch!LoseSocket, Twitch!Alive, Twitch!client, SocketInv, OpenedInOrder,
        WelcomedFirst,
        AskedOncePerSocket, Unwelcomed, Welcoming
  <2>3. AskedIsPaidFor'
    BY <1>0, <1>6
    DEF Twitch!LoseSocket, Twitch!Alive, Twitch!Fault, Twitch!client, SocketInv,
        Twitch!TypeOK, AskedIsPaidFor,
        AboutToAsk, Failing, Unwelcomed, Welcoming
  <2>4. Twitch!NoSocketLeak' /\ HandoverKept'
    BY <1>6 DEF Twitch!LoseSocket, Twitch!client, SocketInv, Twitch!NoSocketLeak, HandoverKept
  <2>5. QED
    BY <2>1, <2>2, <2>3, <2>4 DEF SocketInv
<1>7. ASSUME Twitch!URLExpires \/ Twitch!Cancel
      PROVE  SocketInv'
  <2>1. urlAlive' \in BOOLEAN /\ cancelled' \in BOOLEAN
    <3>1. CASE Twitch!URLExpires
      BY <1>0, <3>1, Zenon DEF Twitch!URLExpires, Twitch!TypeOK
    <3>2. CASE Twitch!Cancel
      BY <1>0, <3>2, Zenon DEF Twitch!Cancel, Twitch!TypeOK, Twitch!network
    <3>3. QED
      BY <1>7, <3>1, <3>2
  <2>2. Twitch!TypeOK'
    BY <1>0, <1>7, <2>1
    DEF Twitch!URLExpires, Twitch!Cancel, Twitch!client, Twitch!network, Twitch!TypeOK
  <2>3. QED
    BY <1>7, <2>2, ArrivalStep
    DEF Twitch!URLExpires, Twitch!Cancel, Twitch!client, Twitch!network, FramesArrive
<1>8. QED
  BY <1>2, <1>3, <1>4, <1>5, <1>6, <1>7 DEF Twitch!Network

-----------------------------------------------------------------------------
(* The steps of Run and of the readers.                                    *)

LEMMA DialStep ==
    ASSUME Twitch!ConstantsOK, SocketInv, Twitch!DialSucceeds
    PROVE  SocketInv'
<1>. DEFINE new == sockets + 1
<1>0. /\ Twitch!TypeOK /\ new \in Twitch!Sockets /\ sockets \in Nat /\ asked \in Nat
      /\ twitchFaults \in Nat
      /\ OpenedInOrder /\ WelcomedFirst
  BY DEF SocketInv, Twitch!TypeOK, Twitch!ConstantsOK, Twitch!DialSucceeds, Twitch!Sockets
<1>1. inbox[new] = <<>> /\ new \notin lost /\ new # previous /\ new # Twitch!None
  BY <1>0 DEF OpenedInOrder, Twitch!None
<1>2. /\ inbox' \in [Twitch!Sockets -> Seq(Twitch!Frames)]
      /\ inbox'[new] = Append(<<>>, "welcome")
      /\ \A s \in Twitch!Sockets \ {new} : inbox'[s] = inbox[s]
  <2>1. Append(inbox[new], "welcome") \in Seq(Twitch!Frames)
    BY <1>0, AppendProperties DEF Twitch!TypeOK, Twitch!Frames
  <2>2. QED
    BY <1>0, <1>1, <2>1 DEF Twitch!DialSucceeds, Twitch!Receive, Twitch!TypeOK
<1>3. /\ inbox'[new] # <<>> /\ Head(inbox'[new]) = "welcome" /\ Len(inbox'[new]) = 1
  BY <1>2
<1>4. /\ state = "dialling" /\ state' = "reading" /\ conn' = new /\ sockets' = new
      /\ open' = open \cup {new}
      /\ UNCHANGED <<inherited, previous, lost, asked, twitchFaults>>
  BY DEF Twitch!DialSucceeds
<1>5. Twitch!TypeOK'
  <2>1. adopted' \in BOOLEAN /\ (adopted' = ~inherited)
    BY Zenon DEF Twitch!DialSucceeds
  <2>2. /\ started' \in BOOLEAN /\ (started' => previous # Twitch!None)
        /\ oldReaders' \subseteq Twitch!Sockets
    <3>1. CASE inherited /\ previous # Twitch!None /\ ~started
      <4>1. started' /\ started' \in BOOLEAN
        BY <3>1, Zenon DEF Twitch!DialSucceeds, Twitch!StartOldReader
      <4>2. oldReaders' = oldReaders \cup {previous}
        BY <3>1, Zenon DEF Twitch!DialSucceeds, Twitch!StartOldReader
      <4>3. QED
        BY <1>0, <3>1, <4>1, <4>2 DEF Twitch!TypeOK
    <3>2. CASE ~(inherited /\ previous # Twitch!None /\ ~started)
      <4>1. UNCHANGED <<started, oldReaders>>
        BY <3>2, Zenon DEF Twitch!DialSucceeds, Twitch!StartOldReader
      <4>2. QED
        BY <1>0, <1>4, <4>1 DEF Twitch!TypeOK
    <3>3. QED
      BY <3>1, <3>2
  <2>3. /\ sockets' \in 0 .. MaxSockets /\ open' \subseteq Twitch!Sockets
        /\ conn' \in Twitch!Sockets
    <3>1. new \in 0 .. MaxSockets
      BY <1>0 DEF Twitch!Sockets
    <3>2. QED
      BY <1>0, <1>4, <3>1 DEF Twitch!TypeOK
  <2>4. subscribed' \subseteq Twitch!Sockets
    BY <1>0 DEF Twitch!TypeOK, Twitch!DialSucceeds
  <2>5. QED
    BY <1>0, <1>2, <1>4, <2>1, <2>2, <2>3, <2>4 DEF Twitch!TypeOK, Twitch!DialSucceeds
<1>6. OpenedInOrder'
  <2>1. \A s \in Twitch!Sockets : s > new => inbox'[s] = <<>>
    BY <1>0, <1>1, <1>2 DEF OpenedInOrder, Twitch!Sockets
  <2>2. /\ conn' # previous' /\ conn' # Twitch!None
        /\ conn' \in 0 .. sockets' /\ previous' \in 0 .. sockets'
    BY <1>0, <1>1, <1>4 DEF OpenedInOrder
  <2>3. open' \subseteq 1 .. sockets' /\ lost' \subseteq 1 .. sockets'
    <3>1. open \subseteq 1 .. sockets /\ lost \subseteq 1 .. sockets
      BY <1>0 DEF OpenedInOrder
    <3>2. 1 .. sockets \subseteq 1 .. new /\ new \in 1 .. new
      BY <1>0
    <3>3. QED
      BY <1>4, <3>1, <3>2, Zenon
  <2>4. QED
    BY <1>4, <2>1, <2>2, <2>3 DEF OpenedInOrder
<1>7. WelcomedFirst'
  BY <1>0, <1>2, <1>3 DEF WelcomedFirst
<1>. HIDE DEF new
<1>8. Unwelcomed' /\ ~Failing'
  BY <1>1, <1>3, <1>4 DEF Unwelcomed, Welcoming, Failing
<1>9. AskedOncePerSocket'
  BY <1>0, <1>4 DEF SocketInv, AskedOncePerSocket, new
<1>10. AskedIsPaidFor'
  <2>1. AboutToAsk' <=> AboutToAsk
    BY <1>4, <1>8 DEF AboutToAsk
  <2>2. AskedIsPaidFor
    BY DEF SocketInv
  <2>3. QED
    BY <1>0, <1>4, <1>8, <2>1, <2>2 DEF AskedIsPaidFor
<1>11. Twitch!NoSocketLeak' /\ HandoverKept'
  <2>1. open \subseteq (IF previous # Twitch!None THEN {previous} ELSE {})
    BY <1>4 DEF SocketInv, Twitch!NoSocketLeak
  <2>2. inherited => previous \in open
    BY <1>4 DEF SocketInv, HandoverKept
  <2>3. QED
    BY <1>4, <2>1, <2>2 DEF Twitch!NoSocketLeak, HandoverKept
<1>12. QED
  BY <1>5, <1>6, <1>7, <1>9, <1>10, <1>11 DEF SocketInv

\* A dial that fails, the wait after it, and the end of that.
LEMMA WaitStep ==
    ASSUME Twitch!ConstantsOK, SocketInv,
           Twitch!DialFails \/ Twitch!Waited \/ Twitch!WaitCancelled
    PROVE  SocketInv'
<1>0. Twitch!TypeOK /\ asked \in Nat /\ twitchFaults \in Nat
  BY DEF SocketInv, Twitch!TypeOK, Twitch!ConstantsOK
<1>1. /\ state \in {"dialling", "waiting"}
      /\ \/ state' \in {"dialling", "waiting"} /\ UNCHANGED <<previous, open>>
         \/ state' = "returned" /\ previous' = Twitch!None /\ open' = open \ {previous}
      /\ UNCHANGED <<inherited, adopted, conn, asked, sockets, lost, inbox>>
      /\ twitchFaults' = twitchFaults \/ twitchFaults' = twitchFaults + 1
  BY DEF Twitch!DialFails, Twitch!Waited, Twitch!WaitCancelled, Twitch!Return, Twitch!Fault,
         Twitch!network
<1>2. Twitch!TypeOK'
  <2>1. CASE Twitch!DialFails \/ Twitch!Waited
    BY SMTT(30), <1>0, <2>1
    DEF Twitch!DialFails, Twitch!Waited, Twitch!Fault, Twitch!TypeOK, Twitch!network,
        Twitch!ConstantsOK
  <2>2. CASE Twitch!WaitCancelled
    BY <1>0, <2>2 DEF Twitch!WaitCancelled, Twitch!Return, Twitch!TypeOK
  <2>3. QED
    BY <2>1, <2>2
<1>3. OpenedInOrder' /\ WelcomedFirst'
  <2>1. previous' \in 0 .. sockets /\ sockets \in Nat
    BY <1>0, <1>1 DEF SocketInv, Twitch!TypeOK, OpenedInOrder, Twitch!None
  <2>2. open' \subseteq open /\ state' # "reading"
    BY <1>1
  <2>3. OpenedInOrder'
    BY <1>1, <2>1, <2>2 DEF SocketInv, OpenedInOrder
  <2>4. QED
    BY <1>1, <2>3 DEF SocketInv, WelcomedFirst
<1>4. ~Unwelcomed' /\ ~Failing' /\ (AboutToAsk' => AboutToAsk)
  BY <1>1 DEF Unwelcomed, Failing, AboutToAsk
<1>5. AskedOncePerSocket' /\ AskedIsPaidFor'
  <2>1. AskedIsPaidFor /\ AskedOncePerSocket
    BY DEF SocketInv
  <2>2. QED
    BY <1>0, <1>1, <1>4, <2>1 DEF AskedIsPaidFor, AskedOncePerSocket
<1>6. Twitch!NoSocketLeak' /\ HandoverKept'
  BY <1>1 DEF SocketInv, Twitch!NoSocketLeak, HandoverKept
<1>7. QED
  BY <1>2, <1>3, <1>5, <1>6 DEF SocketInv

\* Readers of notifications, and the end of one, change no socket.
LEMMA ReaderStep ==
    ASSUME Twitch!ConstantsOK, SocketInv, NEW s \in Twitch!Sockets,
           Twitch!ReadNotification(s) \/ Twitch!Deliver(s) \/ Twitch!OldReaderEnds(s)
    PROVE  SocketInv'
<1>0. Twitch!TypeOK /\ asked \in Nat /\ twitchFaults \in Nat
  BY DEF SocketInv, Twitch!TypeOK, Twitch!ConstantsOK
<1>1. UNCHANGED <<state, inherited, adopted, conn, previous, started, asked,
                  sockets, open, lost, twitchFaults>>
  BY DEF Twitch!ReadNotification, Twitch!Deliver, Twitch!OldReaderEnds, Twitch!network
<1>2. /\ inbox' \in [Twitch!Sockets -> Seq(Twitch!Frames)] /\ WelcomedFirst'
      /\ \A t \in Twitch!Sockets : Welcoming(t)' => Welcoming(t)
      /\ \A t \in Twitch!Sockets : inbox[t] = <<>> => inbox'[t] = <<>>
  <2>1. CASE Twitch!ReadNotification(s)
    <3>1. PICK e \in Notifications : Twitch!ReadsFrame(s, e)
      BY <2>1 DEF Twitch!ReadNotification
    <3>2. inbox[s] # <<>>
      BY <3>1 DEF Twitch!ReadsFrame
    <3>3. QED
      BY <1>0, <3>1, <3>2, FrameRead DEF SocketInv, Twitch!TypeOK
  <2>2. CASE UNCHANGED inbox
    BY <1>0, <2>2 DEF SocketInv, Twitch!TypeOK, WelcomedFirst, Welcoming
  <2>3. QED
    BY <2>1, <2>2 DEF Twitch!Deliver, Twitch!OldReaderEnds, Twitch!network
<1>3. Twitch!TypeOK'
  <2>1. CASE Twitch!ReadNotification(s)
    <3>1. PICK e \in Notifications : Twitch!Keep(s, e)
      BY <2>1 DEF Twitch!ReadNotification
    <3>2. /\ recorded' \in Seq(Notifications)
          /\ hand' \in [Twitch!Sockets -> Notifications \cup {Twitch!NoEvent}]
      <4>1. Append(recorded, e) \in Seq(Notifications)
        BY <1>0, AppendProperties DEF Twitch!TypeOK
      <4>2. QED
        BY <1>0, <3>1, <4>1 DEF Twitch!Keep, Twitch!TypeOK
    <3>3. QED
      BY <1>0, <1>1, <1>2, <2>1, <3>2 DEF Twitch!TypeOK, Twitch!ReadNotification
  <2>2. CASE Twitch!Deliver(s)
    <3>1. hand[s] \in Notifications
      BY <1>0, <2>2 DEF Twitch!Deliver, Twitch!TypeOK
    <3>2. delivered' \in Seq(Notifications)
      BY <1>0, <2>2, <3>1, AppendProperties DEF Twitch!Deliver, Twitch!TypeOK
    <3>3. QED
      BY <1>0, <1>1, <2>2, <3>2 DEF Twitch!TypeOK, Twitch!Deliver, Twitch!network
  <2>3. CASE Twitch!OldReaderEnds(s)
    BY <1>0, <1>1, <2>3 DEF Twitch!TypeOK, Twitch!OldReaderEnds, Twitch!network
  <2>4. QED
    BY <2>1, <2>2, <2>3
<1>4. OpenedInOrder'
  BY <1>1, <1>2 DEF SocketInv, OpenedInOrder
<1>5. (Unwelcomed' => Unwelcomed) /\ (AboutToAsk' => AboutToAsk) /\ (Failing' <=> Failing)
  <2>1. state = "reading" => conn \in Twitch!Sockets
    BY <1>0 DEF SocketInv, Twitch!TypeOK, OpenedInOrder
  <2>2. QED
    BY <1>1, <1>2, <2>1 DEF Unwelcomed, AboutToAsk, Failing
<1>6. AskedOncePerSocket' /\ AskedIsPaidFor'
  <2>1. AskedIsPaidFor /\ AskedOncePerSocket
    BY DEF SocketInv
  <2>2. QED
    BY <1>1, <1>5, <2>1 DEF AskedIsPaidFor, AskedOncePerSocket
<1>7. Twitch!NoSocketLeak' /\ HandoverKept'
  BY <1>1 DEF SocketInv, Twitch!NoSocketLeak, HandoverKept
<1>8. QED
  BY <1>2, <1>3, <1>4, <1>6, <1>7 DEF SocketInv

\* What a step of Run finds when it reads.
LEMMA RunReads ==
    ASSUME Twitch!ConstantsOK, SocketInv, state = "reading"
    PROVE  /\ Twitch!TypeOK /\ OpenedInOrder /\ WelcomedFirst
           /\ AskedOncePerSocket /\ AskedIsPaidFor
           /\ conn \in Twitch!Sockets /\ conn \in 1 .. sockets /\ conn # previous
           /\ open \subseteq {conn} \cup (IF previous # Twitch!None THEN {previous} ELSE {})
           /\ asked \in Nat /\ twitchFaults \in Nat /\ sockets \in Nat
  BY DEF SocketInv, Twitch!TypeOK, Twitch!ConstantsOK, OpenedInOrder, Twitch!None,
         Twitch!Sockets, Twitch!NoSocketLeak

LEMMA WelcomeStep ==
    ASSUME Twitch!ConstantsOK, SocketInv, Twitch!Welcome
    PROVE  SocketInv'
<1>0. /\ state = "reading" /\ Twitch!ReadsFrame(conn, "welcome")
      /\ open' = open \ {previous} /\ previous' = Twitch!None
      /\ UNCHANGED <<state, url, inherited, conn, oldReaders, hand, recorded,
                     delivered, cancelled, sockets, lost, published, urlAlive,
                     reconnects, twitchFaults>>
  BY DEF Twitch!Welcome, Twitch!ClosePrevious
<1>1. /\ Twitch!TypeOK /\ OpenedInOrder /\ WelcomedFirst
      /\ AskedOncePerSocket /\ AskedIsPaidFor
      /\ conn \in Twitch!Sockets /\ conn \in 1 .. sockets /\ conn # previous
      /\ open \subseteq {conn} \cup (IF previous # Twitch!None THEN {previous} ELSE {})
      /\ asked \in Nat /\ twitchFaults \in Nat /\ sockets \in Nat
  BY <1>0, RunReads
<1>2. /\ inbox' \in [Twitch!Sockets -> Seq(Twitch!Frames)] /\ WelcomedFirst'
      /\ ~Welcoming(conn)' /\ Welcoming(conn)
      /\ \A t \in Twitch!Sockets \ {conn} : inbox'[t] = inbox[t]
  BY <1>0, <1>1, FrameRead DEF Twitch!TypeOK
<1>3. Unwelcomed /\ ~Unwelcomed' /\ asked < sockets
  BY <1>0, <1>1, <1>2 DEF Unwelcomed, Welcoming, AskedOncePerSocket
<1>4. /\ asked' = asked \/ (asked' = asked + 1 /\ ~inherited)
      /\ subscribed' \subseteq Twitch!Sockets
  BY <1>1 DEF Twitch!Welcome, Twitch!Subscribe, Twitch!Ask, Twitch!TypeOK
<1>5. Twitch!TypeOK'
  <2>1. adopted' \in BOOLEAN /\ started' \in BOOLEAN /\ ~started'
    BY Zenon DEF Twitch!Welcome, Twitch!ClosePrevious
  <2>2. asked' \in 0 .. MaxSockets
    BY <1>1, <1>3, <1>4 DEF Twitch!TypeOK, Twitch!ConstantsOK
  <2>3. QED
    BY <1>0, <1>1, <1>2, <1>4, <2>1, <2>2 DEF Twitch!TypeOK
<1>6. OpenedInOrder'
  <2>1. \A s \in Twitch!Sockets : s > sockets => inbox'[s] = <<>>
    BY <1>1, <1>2 DEF OpenedInOrder
  <2>2. open' \subseteq 1 .. sockets /\ previous' = 0 /\ conn # 0
    BY <1>0, <1>1 DEF OpenedInOrder, Twitch!None
  <2>3. QED
    BY <1>0, <1>1, <2>1, <2>2 DEF OpenedInOrder, Twitch!None
<1>7. ~AboutToAsk' /\ (Failing' <=> Failing) /\ (AboutToAsk <=> ~inherited)
  BY <1>0, <1>3 DEF AboutToAsk, Failing
<1>8. AskedOncePerSocket' /\ AskedIsPaidFor'
  BY <1>0, <1>1, <1>3, <1>4, <1>7 DEF AskedOncePerSocket, AskedIsPaidFor
<1>9. Twitch!NoSocketLeak' /\ HandoverKept'
  <2>1. adopted'
    BY Zenon DEF Twitch!Welcome
  <2>2. QED
    BY <1>0, <1>1, <2>1 DEF Twitch!NoSocketLeak, HandoverKept
<1>10. QED
  BY <1>2, <1>5, <1>6, <1>8, <1>9 DEF SocketInv

LEMMA ReadFailsStep ==
    ASSUME Twitch!ConstantsOK, SocketInv, Twitch!ReadFails
    PROVE  SocketInv'
<1>0. /\ state = "reading" /\ state' = "waiting" /\ conn \in lost
      /\ open' = open \ {conn}
      /\ IF adopted THEN url' = "default" /\ inherited' = FALSE
                    ELSE UNCHANGED <<url, inherited>>
      /\ UNCHANGED <<adopted, conn, previous, started, oldReaders, hand, recorded,
                     delivered, asked, cancelled, sockets, lost, inbox,
                     subscribed, published, urlAlive, reconnects, twitchFaults>>
  BY DEF Twitch!ReadFails, Twitch!CloseFailed, Twitch!GiveUpURL
<1>1. /\ Twitch!TypeOK /\ OpenedInOrder /\ WelcomedFirst
      /\ AskedOncePerSocket /\ AskedIsPaidFor
      /\ conn \in Twitch!Sockets /\ conn \in 1 .. sockets /\ conn # previous
      /\ open \subseteq {conn} \cup (IF previous # Twitch!None THEN {previous} ELSE {})
      /\ asked \in Nat /\ twitchFaults \in Nat /\ sockets \in Nat
  BY <1>0, RunReads
<1>2. inherited' \in BOOLEAN /\ (inherited' => inherited /\ ~adopted)
      /\ url' \in {"default", "reconnect"}
  <2>1. CASE adopted
    <3>1. inherited' = FALSE
      BY <1>0, <2>1, Zenon
    <3>2. inherited' \in BOOLEAN /\ ~inherited'
      BY <3>1, Zenon
    <3>3. QED
      BY <1>0, <2>1, <3>2
  <2>2. CASE ~adopted
    BY <1>0, <1>1, <2>2 DEF Twitch!TypeOK
  <2>3. QED
    BY <2>1, <2>2
<1>3. Twitch!TypeOK'
  BY <1>0, <1>1, <1>2 DEF Twitch!TypeOK
<1>4. OpenedInOrder' /\ WelcomedFirst'
  <2>1. open' \subseteq open
    BY <1>0
  <2>2. QED
    BY <1>0, <1>1, <2>1 DEF OpenedInOrder, WelcomedFirst
<1>5. Failing /\ ~Failing' /\ ~Unwelcomed'
  BY <1>0 DEF Failing, Unwelcomed
<1>6. AskedOncePerSocket' /\ AskedIsPaidFor'
  BY <1>0, <1>1, <1>5 DEF AskedOncePerSocket, AskedIsPaidFor
<1>7. Twitch!NoSocketLeak'
  BY <1>0, <1>1 DEF Twitch!NoSocketLeak
<1>8. HandoverKept'
  <2>1. inherited /\ ~adopted => previous \in open
    BY <1>0 DEF SocketInv, HandoverKept
  <2>2. QED
    BY <1>0, <1>1, <1>2, <2>1 DEF HandoverKept
<1>9. QED
  BY <1>3, <1>4, <1>6, <1>7, <1>8 DEF SocketInv

LEMMA SubscribeFailsStep ==
    ASSUME Twitch!ConstantsOK, SocketInv, Twitch!SubscribeFails
    PROVE  SocketInv'
<1>0. /\ state = "reading" /\ ~inherited /\ Twitch!ReadsFrame(conn, "welcome")
      /\ twitchFaults < TwitchFaults /\ twitchFaults' = twitchFaults + 1
      /\ asked' = asked + 1
      /\ open' = open \ {conn, previous} /\ previous' = Twitch!None
      /\ state' \in {"waiting", "returned"}
      /\ UNCHANGED <<inherited, conn, oldReaders, hand, recorded, delivered,
                     cancelled, sockets, lost, subscribed, published, urlAlive,
                     reconnects>>
  BY DEF Twitch!SubscribeFails, Twitch!Fault
<1>1. /\ Twitch!TypeOK /\ OpenedInOrder /\ WelcomedFirst
      /\ AskedOncePerSocket /\ AskedIsPaidFor
      /\ conn \in Twitch!Sockets /\ conn \in 1 .. sockets /\ conn # previous
      /\ open \subseteq {conn} \cup (IF previous # Twitch!None THEN {previous} ELSE {})
      /\ asked \in Nat /\ twitchFaults \in Nat /\ sockets \in Nat
  BY <1>0, RunReads
<1>2. /\ inbox' \in [Twitch!Sockets -> Seq(Twitch!Frames)] /\ WelcomedFirst'
      /\ Welcoming(conn)
      /\ \A t \in Twitch!Sockets \ {conn} : inbox'[t] = inbox[t]
  BY <1>0, <1>1, FrameRead DEF Twitch!TypeOK
<1>3. Unwelcomed /\ AboutToAsk /\ ~Unwelcomed' /\ ~Failing' /\ asked < sockets
  BY <1>0, <1>1, <1>2 DEF Unwelcomed, AboutToAsk, Failing, AskedOncePerSocket
<1>4. Twitch!TypeOK'
  <2>1. adopted' \in BOOLEAN /\ started' \in BOOLEAN /\ ~started'
    BY Zenon DEF Twitch!SubscribeFails
  <2>2. asked' \in 0 .. MaxSockets /\ twitchFaults' \in 0 .. TwitchFaults
    BY <1>0, <1>1, <1>3 DEF Twitch!TypeOK, Twitch!ConstantsOK
  <2>3. url' = "default"
    BY DEF Twitch!SubscribeFails
  <2>4. QED
    BY <1>0, <1>1, <1>2, <2>1, <2>2, <2>3 DEF Twitch!TypeOK
<1>5. OpenedInOrder'
  <2>1. \A s \in Twitch!Sockets : s > sockets => inbox'[s] = <<>>
    BY <1>1, <1>2 DEF OpenedInOrder
  <2>2. QED
    BY <1>0, <1>1, <2>1 DEF OpenedInOrder, Twitch!None
<1>6. AskedOncePerSocket' /\ AskedIsPaidFor'
  BY <1>0, <1>1, <1>3 DEF AskedOncePerSocket, AskedIsPaidFor
<1>7. Twitch!NoSocketLeak' /\ HandoverKept'
  BY <1>0, <1>1 DEF Twitch!NoSocketLeak, HandoverKept
<1>8. QED
  BY <1>2, <1>4, <1>5, <1>6, <1>7 DEF SocketInv

\* Run returns while it reads: a revocation, or the end of its context.
LEMMA ReturnStep ==
    ASSUME Twitch!ConstantsOK, SocketInv, Twitch!Revoked \/ Twitch!ReadCancelled
    PROVE  SocketInv'
<1>0. /\ state = "reading" /\ state' = "returned"
      /\ open' = open \ {conn, previous} /\ previous' = Twitch!None
      /\ UNCHANGED <<url, inherited, adopted, conn, started, oldReaders, recorded,
                     delivered, asked, cancelled, sockets, lost, subscribed,
                     published, urlAlive, reconnects, twitchFaults>>
  BY DEF Twitch!Revoked, Twitch!ReadCancelled, Twitch!Return
<1>1. /\ Twitch!TypeOK /\ OpenedInOrder /\ WelcomedFirst
      /\ AskedOncePerSocket /\ AskedIsPaidFor
      /\ conn \in Twitch!Sockets /\ conn \in 1 .. sockets /\ conn # previous
      /\ open \subseteq {conn} \cup (IF previous # Twitch!None THEN {previous} ELSE {})
      /\ asked \in Nat /\ twitchFaults \in Nat /\ sockets \in Nat
  BY <1>0, RunReads
<1>2. /\ inbox' \in [Twitch!Sockets -> Seq(Twitch!Frames)] /\ WelcomedFirst'
      /\ \A t \in Twitch!Sockets : inbox[t] = <<>> => inbox'[t] = <<>>
      /\ hand' \in [Twitch!Sockets -> Notifications \cup {Twitch!NoEvent}]
  <2>1. CASE Twitch!Revoked
    <3>1. Twitch!ReadsFrame(conn, "revoked") /\ inbox[conn] # <<>> /\ UNCHANGED hand
      BY <2>1 DEF Twitch!Revoked, Twitch!ReadsFrame
    <3>2. /\ inbox' \in [Twitch!Sockets -> Seq(Twitch!Frames)] /\ WelcomedFirst'
          /\ \A t \in Twitch!Sockets \ {conn} : inbox'[t] = inbox[t]
      BY <1>1, <3>1, FrameRead DEF Twitch!TypeOK
    <3>3. QED
      BY <1>1, <3>1, <3>2 DEF Twitch!TypeOK
  <2>2. CASE Twitch!ReadCancelled
    BY <1>1, <2>2 DEF Twitch!ReadCancelled, Twitch!TypeOK, WelcomedFirst
  <2>3. QED
    BY <2>1, <2>2
<1>3. Twitch!TypeOK'
  BY <1>0, <1>1, <1>2 DEF Twitch!TypeOK
<1>4. OpenedInOrder'
  <2>1. \A s \in Twitch!Sockets : s > sockets => inbox'[s] = <<>>
    BY <1>1, <1>2 DEF OpenedInOrder
  <2>2. open' \subseteq 1 .. sockets
    BY <1>0, <1>1 DEF OpenedInOrder
  <2>3. previous' \in 0 .. sockets /\ state' # "reading"
    BY <1>0, <1>1 DEF OpenedInOrder, Twitch!None
  <2>4. QED
    BY <1>0, <1>1, <2>1, <2>2, <2>3 DEF OpenedInOrder
<1>5. ~Unwelcomed' /\ ~AboutToAsk' /\ ~Failing'
  BY <1>0 DEF Unwelcomed, AboutToAsk, Failing
<1>6. AskedOncePerSocket' /\ AskedIsPaidFor'
  BY <1>0, <1>1, <1>5 DEF AskedOncePerSocket, AskedIsPaidFor
<1>7. Twitch!NoSocketLeak' /\ HandoverKept'
  BY <1>0, <1>1 DEF Twitch!NoSocketLeak, HandoverKept
<1>8. QED
  BY <1>2, <1>3, <1>4, <1>6, <1>7 DEF SocketInv

LEMMA ReconnectStep ==
    ASSUME Twitch!ConstantsOK, SocketInv, Twitch!Reconnect
    PROVE  SocketInv'
<1>0. /\ state = "reading" /\ state' = "dialling" /\ Twitch!ReadsFrame(conn, "reconnect")
      /\ open' = open \ {previous} /\ previous' = conn
      /\ url' = "reconnect"
      /\ UNCHANGED <<adopted, conn, oldReaders, hand, recorded, delivered, asked,
                     cancelled, sockets, lost, subscribed, published, urlAlive,
                     reconnects, twitchFaults>>
  BY DEF Twitch!Reconnect
<1>1. /\ Twitch!TypeOK /\ OpenedInOrder /\ WelcomedFirst
      /\ AskedOncePerSocket /\ AskedIsPaidFor
      /\ conn \in Twitch!Sockets /\ conn \in 1 .. sockets /\ conn # previous
      /\ open \subseteq {conn} \cup (IF previous # Twitch!None THEN {previous} ELSE {})
      /\ asked \in Nat /\ twitchFaults \in Nat /\ sockets \in Nat
  BY <1>0, RunReads
<1>2. /\ inbox' \in [Twitch!Sockets -> Seq(Twitch!Frames)] /\ WelcomedFirst'
      /\ conn \in open
      /\ \A t \in Twitch!Sockets \ {conn} : inbox'[t] = inbox[t]
  BY <1>0, <1>1, FrameRead DEF Twitch!TypeOK
<1>3. inherited' \in BOOLEAN /\ inherited' /\ started' \in BOOLEAN /\ ~started'
  BY Zenon DEF Twitch!Reconnect
<1>4. Twitch!TypeOK'
  BY <1>0, <1>1, <1>2, <1>3 DEF Twitch!TypeOK
<1>5. OpenedInOrder'
  <2>1. ASSUME NEW s \in Twitch!Sockets, s > sockets
        PROVE  inbox'[s] = <<>>
    <3>1. s # conn
      BY <1>1, <2>1
    <3>2. QED
      BY <1>1, <1>2, <2>1, <3>1 DEF OpenedInOrder
  <2>2. QED
    BY <1>0, <1>1, <2>1 DEF OpenedInOrder
<1>6. ~Unwelcomed' /\ ~AboutToAsk' /\ ~Failing'
  BY <1>0, <1>3 DEF Unwelcomed, AboutToAsk, Failing
<1>7. AskedOncePerSocket' /\ AskedIsPaidFor'
  BY <1>0, <1>1, <1>6 DEF AskedOncePerSocket, AskedIsPaidFor
<1>8. Twitch!NoSocketLeak' /\ HandoverKept'
  <2>1. conn # Twitch!None
    BY <1>1 DEF Twitch!None
  <2>2. open' \subseteq {conn} /\ conn \in open'
    BY <1>0, <1>1, <1>2
  <2>3. QED
    BY <1>0, <2>1, <2>2 DEF Twitch!NoSocketLeak, HandoverKept
<1>9. QED
  BY <1>2, <1>4, <1>5, <1>7, <1>8 DEF SocketInv

LEMMA SocketStep ==
    ASSUME Twitch!ConstantsOK, SocketInv, [Twitch!Next]_(Twitch!vars)
    PROVE  SocketInv'
<1>1. ASSUME UNCHANGED Twitch!vars
      PROVE  SocketInv'
  BY <1>1
  DEF Twitch!vars, Twitch!client, Twitch!network, SocketInv, Twitch!TypeOK, OpenedInOrder,
      WelcomedFirst,
      AskedOncePerSocket, AskedIsPaidFor, AboutToAsk, Failing, Unwelcomed,
      Welcoming, Twitch!NoSocketLeak, HandoverKept
<1>2. QED
  BY <1>1, NetworkStep, DialStep, WaitStep, ReaderStep, WelcomeStep,
     ReadFailsStep, SubscribeFailsStep, ReturnStep, ReconnectStep
  DEF Twitch!Next, Twitch!Client

-----------------------------------------------------------------------------
(* What is recorded, handed on and delivered.                              *)

\* The remembered IDs are at least the last Window ones that were recorded.
LEMMA WindowIsSeen ==
    ASSUME Twitch!ConstantsOK, recorded \in Seq(Notifications),
           NEW i \in 1 .. Len(recorded), i > Len(recorded) - Window
    PROVE  recorded[i] \in Twitch!Seen
<1>. DEFINE n == Len(recorded)
            last == SubSeq(recorded, n - Window + 1, n)
<1>0. n \in Nat /\ Window \in Nat \ {0} /\ i \in Nat /\ i <= n
  BY LenProperties DEF Twitch!ConstantsOK
<1>1. CASE n > Window
  <2>1. \A k \in (n - Window + 1) .. n : recorded[k] \in Notifications
    BY <1>0, <1>1, ElementOfSeq
  <2>2. /\ last \in Seq(Notifications) /\ Len(last) = Window
        /\ \A k \in 1 .. Window : last[k] = recorded[n - Window + k]
    <3>1. n - Window + 1 \in Int /\ n \in Int
      BY <1>0
    <3>2. /\ last \in Seq(Notifications)
          /\ Len(last) = IF n - Window + 1 <= n THEN n - (n - Window + 1) + 1 ELSE 0
          /\ \A k \in 1 .. n - (n - Window + 1) + 1 :
               last[k] = recorded[(n - Window + 1) + k - 1]
      BY <2>1, <3>1, SubSeqProperties
    <3>3. QED
      BY <1>0, <3>2
  <2>3. /\ i - (n - Window) \in 1 .. Window
        /\ n - Window + (i - (n - Window)) = i
    BY <1>0, <1>1
  <2>4. recorded[i] = last[i - (n - Window)] /\ i - (n - Window) \in DOMAIN last
    <3>1. DOMAIN last = 1 .. Window
      BY <2>2, LenProperties
    <3>2. QED
      BY <2>2, <2>3, <3>1
  <2>5. recorded[i] \in Twitch!ToSet(last)
    BY <2>4 DEF Twitch!ToSet
  <2>6. QED
    BY <1>1, <2>5 DEF Twitch!Seen
<1>2. CASE ~(n > Window)
  <2>1. i \in DOMAIN recorded
    BY LenProperties
  <2>2. QED
    BY <1>2, <2>1 DEF Twitch!Seen, Twitch!ToSet
<1>3. QED
  BY <1>1, <1>2

\* One more notification leaves the copies of the others, and adds one of its own.
LEMMA OneMoreCopy ==
    ASSUME NEW q \in Seq(Notifications), NEW x \in Notifications, NEW e \in Notifications
    PROVE  /\ Twitch!Copies(e, q) \in Nat
           /\ e = x => Twitch!Copies(e, Append(q, x)) = Twitch!Copies(e, q) + 1
           /\ e # x => Twitch!Copies(e, Append(q, x)) = Twitch!Copies(e, q)
<1>. DEFINE At(p) == {i \in DOMAIN p : p[i] = e}
            p == Append(q, x)
<1>1. /\ p \in Seq(Notifications) /\ Len(p) = Len(q) + 1 /\ Len(q) \in Nat
      /\ \A i \in 1 .. Len(q) : p[i] = q[i]
      /\ p[Len(q) + 1] = x
      /\ DOMAIN p = 1 .. Len(p) /\ DOMAIN q = 1 .. Len(q)
  BY AppendProperties, LenProperties
<1>2. IsFiniteSet(At(q)) /\ Cardinality(At(q)) \in Nat
  <2>1. IsFiniteSet(1 .. Len(q))
    BY <1>1, FS_Interval
  <2>2. At(q) \in SUBSET (1 .. Len(q))
    BY <1>1
  <2>3. QED
    BY <2>1, <2>2, FS_Subset, FS_CardinalityType
<1>3. CASE e = x
  <2>1. At(p) = At(q) \cup {Len(q) + 1} /\ Len(q) + 1 \notin At(q)
    BY <1>1, <1>3
  <2>2. Cardinality(At(p)) = Cardinality(At(q)) + 1
    BY <1>2, <2>1, FS_AddElement
  <2>3. QED
    BY <1>2, <1>3, <2>2, SameCount DEF Twitch!Copies
<1>4. CASE e # x
  <2>1. At(p) = At(q)
    BY <1>1, <1>4
  <2>2. QED
    BY <1>2, <1>4, <2>1, SameCount DEF Twitch!Copies
<1>5. QED
  BY <1>3, <1>4

\* The readers that hold a notification.
Holding(e) == Cardinality({s \in Twitch!Sockets : hand[s] = e})

\* A reader with nothing in hand takes a notification.
LEMMA Taking ==
    ASSUME Twitch!ConstantsOK,
           hand \in [Twitch!Sockets -> Notifications \cup {Twitch!NoEvent}],
           NEW s \in Twitch!Sockets, NEW x \in Notifications, hand[s] = Twitch!NoEvent,
           hand' = [hand EXCEPT ![s] = x],
           NEW e \in Notifications
    PROVE  /\ Holding(e) \in Nat
           /\ e = x => Holding(e)' = Holding(e) + 1
           /\ e # x => Holding(e)' = Holding(e)
<1>. DEFINE Before == {t \in Twitch!Sockets : hand[t] = e}
            After == {t \in Twitch!Sockets : hand'[t] = e}
<1>1. IsFiniteSet(Before) /\ Cardinality(Before) \in Nat
  <2>1. IsFiniteSet(Twitch!Sockets)
    BY FS_Interval DEF Twitch!ConstantsOK, Twitch!Sockets
  <2>2. Before \in SUBSET Twitch!Sockets
    OBVIOUS
  <2>3. QED
    BY <2>1, <2>2, FS_Subset, FS_CardinalityType
<1>2. s \notin Before
  BY FrameTypes
<1>3. CASE e = x
  <2>1. After = Before \cup {s}
    BY <1>3
  <2>2. Cardinality(After) = Cardinality(Before) + 1
    BY <1>1, <1>2, <2>1, FS_AddElement
  <2>3. QED
    BY <1>1, <1>3, <2>2 DEF Holding
<1>4. CASE e # x
  <2>1. After = Before
    BY <1>2, <1>4
  <2>2. QED
    BY <1>1, <1>4, <2>1 DEF Holding
<1>5. QED
  BY <1>3, <1>4

\* A reader puts what it has in hand into the channel.
LEMMA Giving ==
    ASSUME Twitch!ConstantsOK,
           hand \in [Twitch!Sockets -> Notifications \cup {Twitch!NoEvent}],
           NEW s \in Twitch!Sockets, hand[s] # Twitch!NoEvent,
           hand' = [hand EXCEPT ![s] = Twitch!NoEvent],
           NEW e \in Notifications
    PROVE  /\ Holding(e) \in Nat
           /\ e = hand[s] => Holding(e) = Holding(e)' + 1 /\ Holding(e)' \in Nat
           /\ e # hand[s] => Holding(e)' = Holding(e)
<1>. DEFINE Before == {t \in Twitch!Sockets : hand[t] = e}
            After == {t \in Twitch!Sockets : hand'[t] = e}
<1>1. IsFiniteSet(Before) /\ Cardinality(Before) \in Nat
      /\ IsFiniteSet(After) /\ Cardinality(After) \in Nat
  <2>1. IsFiniteSet(Twitch!Sockets)
    BY FS_Interval DEF Twitch!ConstantsOK, Twitch!Sockets
  <2>2. Before \in SUBSET Twitch!Sockets /\ After \in SUBSET Twitch!Sockets
    OBVIOUS
  <2>3. QED
    BY <2>1, <2>2, FS_Subset, FS_CardinalityType
<1>2. s \notin After
  BY FrameTypes
<1>3. CASE e = hand[s]
  <2>1. Before = After \cup {s}
    BY <1>3, FrameTypes
  <2>2. Cardinality(Before) = Cardinality(After) + 1
    BY <1>1, <1>2, <2>1, FS_AddElement
  <2>3. QED
    BY <1>1, <1>3, <2>2 DEF Holding
<1>4. CASE e # hand[s]
  <2>1. After = Before
    BY <1>2, <1>4
  <2>2. QED
    BY <1>1, <1>4, <2>1 DEF Holding
<1>5. QED
  BY <1>3, <1>4

\* A notification that is recorded is none of the last Window ones.
LEMMA RecordOnce ==
    ASSUME Twitch!ConstantsOK, Twitch!TypeOK, Twitch!TakenOncePerWindow,
           NEW e \in Notifications,
           e \notin Twitch!Seen, recorded' = Append(recorded, e)
    PROVE  Twitch!TakenOncePerWindow'
<1>. DEFINE n == Len(recorded)
<1>0. /\ recorded \in Seq(Notifications) /\ n \in Nat /\ Window \in Nat \ {0}
      /\ DOMAIN recorded = 1 .. n /\ DOMAIN recorded' = 1 .. n + 1
      /\ \A i \in 1 .. n : recorded'[i] = recorded[i]
      /\ recorded'[n + 1] = e
  BY AppendProperties, LenProperties DEF Twitch!TypeOK, Twitch!ConstantsOK
<1>1. ASSUME NEW i \in 1 .. n + 1, NEW j \in 1 .. n + 1, i < j,
             recorded'[i] = recorded'[j]
      PROVE  j - i > Window
  <2>1. i \in 1 .. n
    BY <1>0, <1>1
  <2>2. CASE j \in 1 .. n
    BY <1>0, <1>1, <2>1, <2>2 DEF Twitch!TakenOncePerWindow
  <2>3. CASE j = n + 1
    <3>1. recorded[i] = e
      BY <1>0, <1>1, <2>1, <2>3
    <3>2. ~(i > n - Window)
      BY <1>0, <2>1, <3>1, WindowIsSeen
    <3>3. QED
      BY <1>0, <2>1, <2>3, <3>2
  <2>4. QED
    BY <1>0, <2>2, <2>3
<1>2. QED
  BY <1>0, <1>1 DEF Twitch!TakenOncePerWindow

LEMMA RecordInit ==
    ASSUME Twitch!ConstantsOK, Twitch!Init
    PROVE  Twitch!TakenOncePerWindow /\ Twitch!RecordedIsDelivered
<1>1. \A e \in Notifications :
        Twitch!Copies(e, <<>>) = 0 /\ Cardinality({s \in Twitch!Sockets : hand[s] = e}) = 0
  <2>. SUFFICES ASSUME NEW e \in Notifications
                PROVE  /\ Twitch!Copies(e, <<>>) = 0
                       /\ Cardinality({s \in Twitch!Sockets : hand[s] = e}) = 0
    OBVIOUS
  <2>1. {s \in Twitch!Sockets : hand[s] = e} = {}
    BY FrameTypes DEF Twitch!Init
  <2>2. {i \in DOMAIN <<>> : <<>>[i] = e} = {}
    OBVIOUS
  <2>3. QED
    BY <2>1, <2>2, FS_EmptySet, SameCount DEF Twitch!Copies
<1>2. QED
  BY <1>1, SameCount DEF Twitch!Init, Twitch!TakenOncePerWindow, Twitch!RecordedIsDelivered

\* A repeat is dropped; any other notification is recorded as it is taken.
LEMMA TakeStep ==
    ASSUME Twitch!ConstantsOK, Twitch!TypeOK, Twitch!TakenOncePerWindow,
           Twitch!RecordedIsDelivered,
           NEW s \in Twitch!Sockets, Twitch!ReadNotification(s)
    PROVE  Twitch!TakenOncePerWindow' /\ Twitch!RecordedIsDelivered'
<1>1. PICK e \in Notifications : hand[s] = Twitch!NoEvent /\ Twitch!Keep(s, e)
  BY DEF Twitch!ReadNotification, Twitch!ReadsFrame, Twitch!Reads
<1>2. UNCHANGED <<delivered, cancelled>>
  BY DEF Twitch!ReadNotification
<1>3. CASE e \in Twitch!Seen
  <2>1. UNCHANGED <<recorded, hand>>
    BY <1>1, <1>3 DEF Twitch!Keep
  <2>2. QED
    BY <1>2, <2>1 DEF Twitch!TakenOncePerWindow, Twitch!RecordedIsDelivered
<1>4. CASE e \notin Twitch!Seen
  <2>1. recorded' = Append(recorded, e) /\ hand' = [hand EXCEPT ![s] = e]
    BY <1>1, <1>4 DEF Twitch!Keep
  <2>2. Twitch!TakenOncePerWindow'
    BY <1>4, <2>1, RecordOnce
  <2>3. ASSUME ~cancelled, NEW x \in Notifications
        PROVE  Twitch!Copies(x, recorded') = Twitch!Copies(x, delivered) + Holding(x)'
    <3>1. Twitch!Copies(x, recorded) = Twitch!Copies(x, delivered) + Holding(x)
      BY <2>3, SameCount DEF Twitch!RecordedIsDelivered, Holding
    <3>2. /\ Twitch!Copies(x, recorded) \in Nat /\ Twitch!Copies(x, delivered) \in Nat
          /\ x = e => Twitch!Copies(x, recorded') = Twitch!Copies(x, recorded) + 1
          /\ x # e => Twitch!Copies(x, recorded') = Twitch!Copies(x, recorded)
      BY <2>1, OneMoreCopy DEF Twitch!TypeOK
    <3>3. /\ Holding(x) \in Nat
          /\ x = e => Holding(x)' = Holding(x) + 1
          /\ x # e => Holding(x)' = Holding(x)
      BY <1>1, <2>1, Taking DEF Twitch!TypeOK
    <3>. HIDE DEF Holding, Twitch!Copies
    <3>4. QED
      BY <3>1, <3>2, <3>3
  <2>4. QED
    BY <1>2, <2>2, <2>3, SameCount DEF Twitch!RecordedIsDelivered, Holding
<1>5. QED
  BY <1>3, <1>4

LEMMA DeliverStep ==
    ASSUME Twitch!ConstantsOK, Twitch!TypeOK, Twitch!TakenOncePerWindow,
           Twitch!RecordedIsDelivered,
           NEW s \in Twitch!Sockets, Twitch!Deliver(s)
    PROVE  Twitch!TakenOncePerWindow' /\ Twitch!RecordedIsDelivered'
<1>1. /\ hand[s] # Twitch!NoEvent /\ hand[s] \in Notifications
      /\ delivered' = Append(delivered, hand[s])
      /\ hand' = [hand EXCEPT ![s] = Twitch!NoEvent]
      /\ UNCHANGED <<recorded, cancelled>>
  BY DEF Twitch!Deliver, Twitch!TypeOK
<1>2. ASSUME ~cancelled, NEW x \in Notifications
      PROVE  Twitch!Copies(x, recorded) = Twitch!Copies(x, delivered') + Holding(x)'
  <2>1. Twitch!Copies(x, recorded) = Twitch!Copies(x, delivered) + Holding(x)
    BY <1>2, SameCount DEF Twitch!RecordedIsDelivered, Holding
  <2>2. /\ Twitch!Copies(x, delivered) \in Nat
        /\ x = hand[s] => Twitch!Copies(x, delivered') = Twitch!Copies(x, delivered) + 1
        /\ x # hand[s] => Twitch!Copies(x, delivered') = Twitch!Copies(x, delivered)
    BY <1>1, OneMoreCopy DEF Twitch!TypeOK
  <2>3. /\ Holding(x) \in Nat
        /\ x = hand[s] => Holding(x) = Holding(x)' + 1 /\ Holding(x)' \in Nat
        /\ x # hand[s] => Holding(x)' = Holding(x)
    BY <1>1, Giving DEF Twitch!TypeOK
  <2>4. QED
    BY <2>1, <2>2, <2>3
<1>3. QED
  BY <1>1, <1>2, SameCount DEF Twitch!TakenOncePerWindow, Twitch!RecordedIsDelivered, Holding

\* Only the end of the client takes a notification out of a reader's hand.
LEMMA RecordStep ==
    ASSUME Twitch!ConstantsOK, Twitch!TypeOK, Twitch!TakenOncePerWindow,
           Twitch!RecordedIsDelivered,
           [Twitch!Next]_(Twitch!vars)
    PROVE  Twitch!TakenOncePerWindow' /\ Twitch!RecordedIsDelivered'
<1>1. ASSUME UNCHANGED <<recorded, delivered, hand>>, cancelled => cancelled'
      PROVE  Twitch!TakenOncePerWindow' /\ Twitch!RecordedIsDelivered'
  BY <1>1 DEF Twitch!TakenOncePerWindow, Twitch!RecordedIsDelivered
<1>2. ASSUME UNCHANGED recorded, cancelled'
      PROVE  Twitch!TakenOncePerWindow' /\ Twitch!RecordedIsDelivered'
  BY <1>2 DEF Twitch!TakenOncePerWindow, Twitch!RecordedIsDelivered
<1>3. CASE UNCHANGED Twitch!vars
  BY <1>1, <1>3 DEF Twitch!vars, Twitch!client
<1>4. CASE Twitch!Network
  <2>1. UNCHANGED Twitch!client /\ (cancelled => cancelled')
    BY <1>4
    DEF Twitch!Network, Twitch!Publish, Twitch!SendAgain, Twitch!AskReconnect, Twitch!Revoke,
        Twitch!LoseSocket, Twitch!URLExpires, Twitch!Cancel
  <2>2. QED
    BY <1>1, <2>1 DEF Twitch!client
<1>5. CASE \/ Twitch!DialSucceeds \/ Twitch!DialFails \/ Twitch!Waited \/ Twitch!WaitCancelled
           \/ Twitch!Welcome \/ Twitch!ReadFails \/ Twitch!SubscribeFails \/ Twitch!Revoked
           \/ Twitch!Reconnect
  <2>1. UNCHANGED <<recorded, delivered, hand, cancelled>>
    BY <1>5
    DEF Twitch!DialSucceeds, Twitch!DialFails, Twitch!Waited, Twitch!WaitCancelled,
        Twitch!Welcome, Twitch!ReadFails,
        Twitch!SubscribeFails, Twitch!Revoked, Twitch!Reconnect
  <2>2. QED
    BY <1>1, <2>1
<1>6. CASE Twitch!ReadCancelled
  BY <1>2, <1>6 DEF Twitch!ReadCancelled
<1>7. ASSUME NEW s \in Twitch!Sockets, Twitch!OldReaderEnds(s)
      PROVE  Twitch!TakenOncePerWindow' /\ Twitch!RecordedIsDelivered'
  <2>1. CASE cancelled
    BY <1>2, <1>7, <2>1 DEF Twitch!OldReaderEnds
  <2>2. CASE ~cancelled
    <3>1. hand[s] = Twitch!NoEvent /\ UNCHANGED <<recorded, delivered, cancelled>>
          /\ hand' = [hand EXCEPT ![s] = Twitch!NoEvent]
      BY <1>7, <2>2 DEF Twitch!OldReaderEnds
    <3>2. hand' = hand
      BY <3>1 DEF Twitch!TypeOK
    <3>3. QED
      BY <1>1, <3>1, <3>2
  <2>3. QED
    BY <2>1, <2>2
<1>8. QED
  BY <1>3, <1>4, <1>5, <1>6, <1>7, TakeStep, DeliverStep DEF Twitch!Next, Twitch!Client

-----------------------------------------------------------------------------
(* The theorems.                                                           *)

LEMMA Invariance ==
    ASSUME Twitch!ConstantsOK
    PROVE  Twitch!Spec => []IInv
<1>1. Twitch!Init => IInv
  BY InvInit, RecordInit DEF IInv
<1>2. IInv /\ [Twitch!Next]_(Twitch!vars) => IInv'
  BY SocketStep, RecordStep DEF IInv, SocketInv
<1>3. QED
  BY <1>1, <1>2, PTL DEF Twitch!Spec

\* However notifications are repeated, sockets lost and replaced, and the two
\* readers take turns, the client takes a notification once in its window and
\* drops none it remembers, keeps the replaced socket through a handover and no
\* socket longer, and subscribes again only for a session that was lost.
THEOREM TwitchIsSafe ==
    ASSUME Twitch!ConstantsOK
    PROVE  Twitch!Spec => []TwitchSafety
<1>1. IInv => Twitch!SubscribedOncePerLoss /\ Twitch!OldSocketKept
  BY DEF IInv, SocketInv, AskedIsPaidFor, Twitch!SubscribedOncePerLoss, HandoverKept,
         Twitch!OldSocketKept
<1>2. IInv => TwitchSafety
  BY <1>1 DEF TwitchSafety, IInv, SocketInv, Twitch!TwitchSafety
<1>3. QED
  BY <1>2, Invariance, PTL
================================================================================
