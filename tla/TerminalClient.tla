---------------------------- MODULE TerminalClient ----------------------------
(***************************************************************************)
(* The writing side of the terminal client: runTerminalInput and           *)
(* runStatusRefresher of cmd/streamchat/main.go, the outbound session of   *)
(* internal/outbound/session.go with the selection it keeps in             *)
(* internal/clientstate, Runtime.StreamStatus, and the Screen of           *)
(* internal/terminalui/terminal.go that they share with the reading side.  *)
(*                                                                         *)
(* A sent message is shown at once as provisional, when the provider's     *)
(* answer carries its ID, and again when it comes back through the reading *)
(* side; the screen makes one line of the two.  The reading side           *)
(* (ClientPipeline) delivers a message once.  What the lines look like is  *)
(* left out; every operation of the screen holds its lock throughout.      *)
(***************************************************************************)
EXTENDS Naturals, Sequences, FiniteSetsExt

CONSTANTS
    Platforms,
    None,               \* no target selected
    DisplayLimit,       \* displayMessageLimit
    MaxMessages,        \* bound on messages written, by the user and by others
    MaxFaults,          \* bound on failed sends, saves and status requests
    MaxSessions         \* bound on starts of the client

ConstantsOK ==
    /\ None \notin Platforms /\ DisplayLimit \in Nat \ {0}
    /\ MaxMessages \in Nat /\ MaxFaults \in Nat /\ MaxSessions \in Nat \ {0}

VARIABLES
    input,      \* runTerminalInput: pc, the platform and number being sent
    session,    \* the targets available, the selected one, client.json
    screen,     \* visible, messages, the prompt's target, the status shown
    refresher,  \* runStatusRefresher: pc and the platform asked
    main,       \* pc, whether the context is live and the observer set
    provider,   \* messages the providers have accepted, not yet delivered
    hist        \* history: messages so far, delivered, pushed out, faults, ...

vars == <<input, session, screen, refresher, main, provider, hist>>

Message(platform, n) == [platform |-> platform, id |-> n]

Idle == [pc |-> "read", platform |-> None, id |-> 0]

\* newRuntime restores the saved target if it is available.
Restored(saved, available) == IF saved \in available THEN saved ELSE None

Init ==
    /\ \E available \in SUBSET Platforms, saved \in Platforms \cup {None} :
         /\ session = [available |-> available, saved |-> saved,
                       selected |-> Restored(saved, available)]
         /\ screen = [visible |-> TRUE, messages |-> <<>>,
                      target |-> Restored(saved, available), status |-> None]
    /\ input = Idle
    /\ refresher = [pc |-> "refresh", platform |-> None]
    /\ main = [pc |-> "loop", ctx |-> TRUE, observer |-> TRUE]
    /\ provider = {}
    /\ hist = [written |-> 0, delivered |-> {}, trimmed |-> {}, faults |-> 0,
               unsaved |-> FALSE, sessions |-> 1]

Fault == hist.faults < MaxFaults

-----------------------------------------------------------------------------
(* Screen *)

\* Deviation: no limit.
TrimmedNot(messages) == messages

Trimmed(messages) ==
    IF Len(messages) > DisplayLimit THEN Tail(messages) ELSE messages

\* Deviation: the later of the two wins.
ShownLast(messages, m, provisional) ==
    LET line == [message |-> m, provisional |-> provisional]
        same == {i \in DOMAIN messages :
                    /\ messages[i].message = m
                    /\ messages[i].provisional \/ provisional}
    IN  IF same = {} THEN Trimmed(Append(messages, line))
        ELSE [messages EXCEPT ![Min(same)] = line]

\* Deviation: only a provisional line is looked for.
ShownTwice(messages, m, provisional) ==
    LET line == [message |-> m, provisional |-> provisional]
        same == {i \in DOMAIN messages :
                    messages[i].message = m /\ messages[i].provisional}
    IN  IF same = {} THEN Trimmed(Append(messages, line))
        ELSE [messages EXCEPT ![Min(same)] = line]

\* AppendMessage: a message takes the line of its other form, and a provisional
\* one does not take that of the authoritative one.
Shown(messages, m, provisional) ==
    LET line == [message |-> m, provisional |-> provisional]
        same == {i \in DOMAIN messages :
                    /\ messages[i].message = m
                    /\ messages[i].provisional \/ provisional}
    IN  IF same = {} THEN Trimmed(Append(messages, line))
        ELSE IF provisional /\ ~messages[Min(same)].provisional THEN messages
        ELSE [messages EXCEPT ![Min(same)] = line]

PushedOut(messages, shown) ==
    {messages[i].message : i \in DOMAIN messages} \
        {shown[i].message : i \in DOMAIN shown}

AppendMessage(m, provisional) ==
    LET shown == Shown(screen.messages, m, provisional)
    IN  /\ screen' = [screen EXCEPT !.messages = shown]
        /\ hist' = [hist EXCEPT
              !.trimmed = @ \cup PushedOut(screen.messages, shown),
              !.delivered = IF provisional THEN @ ELSE @ \cup {m}]

\* What cleanMessages keeps, in its order.
Cleaned(messages, platforms) ==
    LET kept[i \in 0 .. Len(messages)] ==
          IF i = 0 THEN <<>>
          ELSE IF messages[i].message.platform \in platforms THEN kept[i - 1]
          ELSE Append(kept[i - 1], messages[i])
    IN  kept[Len(messages)]

\* CleanPlatform and Clean, for one platform or all of them.
Clean(platforms) == screen' = [screen EXCEPT !.messages = Cleaned(@, platforms)]

-----------------------------------------------------------------------------
(* runTerminalInput and Session.Process *)

Reading == input.pc = "read" /\ main.ctx

Sending(platform) ==
    /\ hist.written < MaxMessages
    /\ input' = [pc |-> "sending", platform |-> platform, id |-> hist.written + 1]
    /\ hist' = [hist EXCEPT !.written = @ + 1]

Answered == input' = [Idle EXCEPT !.pc = "label"]

PlainLine ==
    /\ Reading
    /\ IF session.selected = None
       THEN Answered /\ UNCHANGED hist
       ELSE Sending(session.selected)
    /\ UNCHANGED <<session, screen, refresher, main, provider>>

\* Deviation: the hook is not called.
SelectUnsaved(platform) ==
    /\ session' = [session EXCEPT !.selected = platform]
    /\ UNCHANGED hist

\* selectTarget: the hook saves the selection; a failed save is ignored.
Select(platform) ==
    IF platform = session.selected
    THEN UNCHANGED session /\ hist' = hist
    ELSE \/ /\ session' = [session EXCEPT !.selected = platform, !.saved = platform]
            /\ hist' = [hist EXCEPT !.unsaved = FALSE]
         \/ /\ Fault
            /\ session' = [session EXCEPT !.selected = platform]
            /\ hist' = [hist EXCEPT !.unsaved = TRUE, !.faults = @ + 1]

\* "/kick", alone; an unavailable target is refused.
SelectLine ==
    /\ Reading
    /\ \E platform \in Platforms :
         IF platform \in session.available THEN Select(platform)
                                           ELSE UNCHANGED <<session, hist>>
    /\ Answered
    /\ UNCHANGED <<screen, refresher, main, provider>>

\* "/kick hello": selected first, then sent; the selection stays if sending fails.
SelectAndSendLine ==
    /\ Reading
    /\ \E platform \in session.available \ {session.selected} :
         /\ session' = [session EXCEPT !.selected = platform, !.saved = platform]
         /\ hist.written < MaxMessages
         /\ input' = [pc |-> "sending", platform |-> platform, id |-> hist.written + 1]
         /\ hist' = [hist EXCEPT !.written = @ + 1, !.unsaved = FALSE]
    /\ UNCHANGED <<screen, refresher, main, provider>>

CleanLine ==
    /\ Reading
    /\ \E platforms \in {Platforms} \cup {{p} : p \in Platforms} : Clean(platforms)
    /\ Answered
    /\ UNCHANGED <<session, refresher, main, provider, hist>>

\* The provider accepts the message.  Its answer may be lost; then the line is
\* reported as failed, though the message comes back.
Accepted ==
    /\ input.pc = "sending"
    /\ provider' = provider \cup {Message(input.platform, input.id)}
    /\ \/ /\ input' = [input EXCEPT !.pc = "sent"]
          /\ UNCHANGED hist
       \/ /\ Fault
          /\ input' = [Idle EXCEPT !.pc = "label"]
          /\ hist' = [hist EXCEPT !.faults = @ + 1]
    /\ UNCHANGED <<session, screen, refresher, main>>

SendFails ==
    /\ input.pc = "sending" /\ (Fault \/ ~main.ctx)
    /\ Answered
    /\ hist' = [hist EXCEPT !.faults = IF main.ctx THEN @ + 1 ELSE @]
    /\ UNCHANGED <<session, screen, refresher, main, provider>>

\* Session.send: the observer shows what was sent, if the answer names it.  (An
\* observer taken away while it runs reaches a closed screen, which does not draw.)
Observed ==
    /\ input.pc = "sent"
    /\ \/ main.observer /\ AppendMessage(Message(input.platform, input.id), TRUE)
       \/ UNCHANGED <<screen, hist>>
    /\ Answered
    /\ UNCHANGED <<session, refresher, main, provider>>

\* Deviation: the prompt names what was saved.
SetTargetSaved ==
    /\ input.pc = "label"
    /\ screen' = [screen EXCEPT !.target = session.saved]
    /\ input' = Idle
    /\ UNCHANGED <<session, refresher, main, provider, hist>>

\* After every line: the prompt names the target.
SetTarget ==
    /\ input.pc = "label"
    /\ screen' = [screen EXCEPT !.target = session.selected]
    /\ input' = Idle
    /\ UNCHANGED <<session, refresher, main, provider, hist>>

\* "/exit", the end of the input, or Ctrl-C.
RequestShutdown ==
    /\ Reading
    /\ input' = [Idle EXCEPT !.pc = "done"]
    /\ main' = [main EXCEPT !.pc = "shutdown", !.ctx = FALSE]
    /\ UNCHANGED <<session, screen, refresher, provider, hist>>

-----------------------------------------------------------------------------
(* The reading side *)

OthersWrite ==
    /\ hist.written < MaxMessages
    /\ \E platform \in Platforms :
         provider' = provider \cup {Message(platform, hist.written + 1)}
    /\ hist' = [hist EXCEPT !.written = @ + 1]
    /\ UNCHANGED <<input, session, screen, refresher, main>>

Deliver ==
    /\ main.pc = "loop"
    /\ \E m \in provider :
         /\ provider' = provider \ {m}
         /\ AppendMessage(m, FALSE)
    /\ UNCHANGED <<input, session, refresher, main>>

-----------------------------------------------------------------------------
(* runStatusRefresher.  Nothing triggers it: Runtime has no setStatusRefresh. *)

\* Runtime.StreamStatus reads the selection, then asks.
StatusAsked ==
    /\ refresher.pc = "refresh" /\ main.ctx
    /\ refresher' = IF session.selected = None
                    THEN [refresher EXCEPT !.pc = "wait"]
                    ELSE [pc |-> "asked", platform |-> session.selected]
    /\ UNCHANGED <<input, session, screen, main, provider, hist>>

StatusAnswered ==
    /\ refresher.pc = "asked"
    /\ \/ /\ screen' = [screen EXCEPT !.status = refresher.platform]
          /\ UNCHANGED hist
       \/ /\ Fault \/ ~main.ctx
          /\ hist' = [hist EXCEPT !.faults = IF main.ctx THEN @ + 1 ELSE @]
          /\ UNCHANGED screen
    /\ refresher' = [refresher EXCEPT !.pc = "wait"]
    /\ UNCHANGED <<input, session, main, provider>>

\* Deviation: without a selected target the refresher is done.
TickSelected ==
    /\ refresher.pc = "wait" /\ main.ctx
    /\ refresher' = [refresher EXCEPT !.pc =
                        IF refresher.platform = None THEN "done" ELSE "refresh"]
    /\ UNCHANGED <<input, session, screen, main, provider, hist>>

Tick ==
    /\ refresher.pc = "wait" /\ main.ctx
    /\ refresher' = [refresher EXCEPT !.pc = "refresh"]
    /\ UNCHANGED <<input, session, screen, main, provider, hist>>

RefresherEnds ==
    /\ refresher.pc \in {"wait", "refresh"} /\ ~main.ctx
    /\ refresher' = [refresher EXCEPT !.pc = "done"]
    /\ UNCHANGED <<input, session, screen, main, provider, hist>>

-----------------------------------------------------------------------------
(* The end of runAdapters *)

Signal ==
    /\ main.pc = "loop"
    /\ main' = [main EXCEPT !.pc = "deferred", !.ctx = FALSE]
    /\ UNCHANGED <<input, session, screen, refresher, provider, hist>>

ShutdownTaken ==
    /\ main.pc = "shutdown" /\ input.pc = "done"
    /\ main' = [main EXCEPT !.pc = "deferred"]
    /\ UNCHANGED <<input, session, screen, refresher, provider, hist>>

\* The deferred calls, in their order: the observer, the refresher, the terminal.
Unobserve ==
    /\ main.pc = "deferred"
    /\ main' = [main EXCEPT !.pc = "stopStatus", !.observer = FALSE]
    /\ UNCHANGED <<input, session, screen, refresher, provider, hist>>

\* Deviation: the input is waited for too.
CloseTerminalAfterInput ==
    /\ main.pc = "stopStatus" /\ refresher.pc = "done" /\ input.pc = "done"
    /\ screen' = [screen EXCEPT !.visible = FALSE]
    /\ main' = [main EXCEPT !.pc = "closed"]
    /\ UNCHANGED <<input, session, refresher, provider, hist>>

\* Deviation: the refresher is not waited for.
CloseTerminalEarly ==
    /\ main.pc = "stopStatus"
    /\ screen' = [screen EXCEPT !.visible = FALSE]
    /\ main' = [main EXCEPT !.pc = "closed"]
    /\ UNCHANGED <<input, session, refresher, provider, hist>>

CloseTerminal ==
    /\ main.pc = "stopStatus" /\ refresher.pc = "done"
    /\ screen' = [screen EXCEPT !.visible = FALSE]
    /\ main' = [main EXCEPT !.pc = "closed"]
    /\ UNCHANGED <<input, session, refresher, provider, hist>>

\* The client is started again; what is available may have changed.
Restart ==
    /\ main.pc = "closed" /\ hist.sessions < MaxSessions
    /\ \E available \in SUBSET Platforms :
         LET target == Restored(session.saved, available)
         IN  /\ session' = [session EXCEPT !.available = available,
                                           !.selected = target]
             /\ screen' = [visible |-> TRUE, messages |-> <<>>, target |-> target,
                           status |-> None]
    /\ input' = Idle /\ refresher' = [pc |-> "refresh", platform |-> None]
    /\ main' = [pc |-> "loop", ctx |-> TRUE, observer |-> TRUE]
    /\ hist' = [hist EXCEPT !.sessions = @ + 1, !.unsaved = FALSE, !.trimmed = {}]
    /\ UNCHANGED provider

-----------------------------------------------------------------------------
Input ==
    \/ PlainLine \/ SelectLine \/ SelectAndSendLine \/ CleanLine \/ RequestShutdown

Refresher == StatusAsked \/ StatusAnswered \/ Tick \/ RefresherEnds

Ending == ShutdownTaken \/ Unobserve \/ CloseTerminal

Next ==
    \/ Input \/ Accepted \/ SendFails \/ Observed \/ SetTarget
    \/ OthersWrite \/ Deliver \/ Refresher \/ Signal \/ Ending \/ Restart

Spec == Init /\ [][Next]_vars

\* The refresher's ticker fires and its requests end (they have a timeout); the
\* deferred calls run.  The user and the providers owe nothing.
Fairness == WF_vars(Refresher) /\ WF_vars(Ending)

LiveSpec == Spec /\ Fairness

-----------------------------------------------------------------------------
Lines == [message : [platform : Platforms, id : 1 .. MaxMessages], provisional : BOOLEAN]

\* The types of the variables; the screen keeps no more lines than its limit.
TypeOK ==
    /\ input.pc \in {"read", "sending", "sent", "label", "done"}
    /\ input.platform \in Platforms \cup {None} /\ input.id \in 0 .. MaxMessages
    /\ session.available \subseteq Platforms
    /\ {session.saved, session.selected} \subseteq Platforms \cup {None}
    /\ screen.messages \in Seq(Lines) /\ Len(screen.messages) <= DisplayLimit
    /\ {screen.target, screen.status} \subseteq Platforms \cup {None}
    /\ screen.visible \in BOOLEAN
    /\ refresher.pc \in {"refresh", "asked", "wait", "done"}
    /\ main.pc \in {"loop", "shutdown", "deferred", "stopStatus", "closed"}

\* A message is on the screen once, whichever of its two forms came first.
ShownOnce ==
    \A i, j \in DOMAIN screen.messages :
        screen.messages[i].message = screen.messages[j].message => i = j

\* What has come back from the provider is no longer shown as provisional, unless
\* its line was pushed out in between.
DeliveredIsAuthoritative ==
    \A i \in DOMAIN screen.messages :
        screen.messages[i].provisional =>
            screen.messages[i].message \notin hist.delivered \ hist.trimmed

\* The prompt the user types at names the target a plain line goes to.
PromptIsTruthful == input.pc = "read" => screen.target = session.selected

\* What the next start restores is what was selected last, unless saving it failed.
SelectionIsSaved ==
    session.selected # None /\ ~hist.unsaved => session.saved = session.selected

\* The terminal is restored after everything that asks for it has ended.
ClosedLast == ~screen.visible => refresher.pc = "done" /\ ~main.observer

\* What the terminal shows, and what the next start restores, is what is so.
TerminalSafety ==
    /\ TypeOK
    /\ ShownOnce /\ DeliveredIsAuthoritative
    /\ PromptIsTruthful /\ SelectionIsSaved /\ ClosedLast

\* The status of the selected target is shown eventually.
StatusArrives ==
    \A p \in Platforms :
        session.selected = p ~>
            (screen.status = p \/ session.selected # p \/ ~main.ctx)

\* Whatever ends the client, the terminal is restored.
TerminalIsRestored == ~main.ctx ~> ~screen.visible

\* Target changes clear the old provider's data: while the user types, the status
\* is that of the target, or none.
StatusIsOfTheTarget ==
    input.pc = "read" => screen.status \in {None, session.selected}

\* A slower response from the previous provider does not overwrite the new selection.
LateStatusIsDropped ==
    [][screen'.status # screen.status => screen'.status \in {None, session.selected}]_vars
=============================================================================
