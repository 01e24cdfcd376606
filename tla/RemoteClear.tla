----------------------------- MODULE RemoteClear ------------------------------
(***************************************************************************)
(* /clear: Runtime.clear (internal/clientruntime/runtime.go) takes a       *)
(* snapshot of archived message identifiers and deletes them at the        *)
(* provider one by one, or asks Twitch to clear the chat, while chat goes  *)
(* on, the archive grows and moderators delete messages themselves.  A     *)
(* YouTube clear runs in the server, behind the relay: its caller may give *)
(* up, which cancels what is left.                                         *)
(*                                                                         *)
(* Time is in half seconds.  The archive compares times as text, and text  *)
(* in RFC 3339 omits a fraction of zero.                                   *)
(***************************************************************************)
EXTENDS Integers, FiniteSets, FiniteSetsExt

CONSTANTS
    Platforms,      \* subset of kick, twitch, youtube
    Day,            \* half seconds of a day, an even number
    Typed,          \* numbers of days after the platform
    MaxDays,        \* 3650
    MaxMessages,    \* bound on messages
    MaxTime,        \* bound on the clock
    MaxLost         \* bound on lost answers

None == -1          \* no number of days was typed
NoPlatform == "none"

ConstantsOK ==
    /\ Platforms \subseteq {"kick", "twitch", "youtube"}
    /\ Day \in Nat \ {0} /\ Day % 2 = 0
    /\ Typed \subseteq Int /\ None \in Typed
    /\ {MaxDays, MaxMessages, MaxTime, MaxLost} \subseteq Nat

VARIABLES
    now,        \* time.Now
    message,    \* per identifier that was sent: its platform and time
    visible,    \* identifiers shown in the provider's chat
    archive,    \* identifiers in the archive
    clear,      \* the command: its state, snapshot and counts
    hist        \* what the command erased, requests refused, answers lost, and
                \* what was stored after its snapshot

vars == <<now, message, visible, archive, clear, hist>>

Sent == DOMAIN message

NoClear == [pc |-> "none", platform |-> NoPlatform, days |-> None, since |-> 0,
            snapshot |-> {}, left |-> {}, deleted |-> 0, failed |-> 0, result |-> "none"]

Init ==
    /\ now \in Day .. Day + 1
    /\ message = <<>>
    /\ visible = {}
    /\ archive = {}
    /\ clear = NoClear
    /\ hist = [erased |-> {}, refused |-> 0, lost |-> 0, late |-> {}]

Platform(m) == message[m].platform

(********************************** chat ***********************************)

Send(p) ==
    /\ Cardinality(Sent) < MaxMessages
    /\ message' = [m \in 1 .. Cardinality(Sent) + 1 |->
                     IF m \in Sent THEN message[m] ELSE [platform |-> p, at |-> now]]
    /\ visible' = visible \cup {Cardinality(Sent) + 1}
    /\ UNCHANGED <<now, archive, clear, hist>>

\* The server receives and stores a message, soon or late.
Store(m) ==
    /\ m \in Sent \ archive
    /\ archive' = archive \cup {m}
    /\ hist' = IF clear.pc = "delete" THEN [hist EXCEPT !.late = @ \cup {m}] ELSE hist
    /\ UNCHANGED <<now, message, visible, clear>>

\* A moderator deletes it.
Vanish(m) ==
    /\ m \in visible
    /\ visible' = visible \ {m}
    /\ UNCHANGED <<now, message, archive, clear, hist>>

Tick ==
    /\ now < MaxTime
    /\ now' = now + 1
    /\ UNCHANGED <<message, visible, archive, clear, hist>>

(********************************* /clear **********************************)

\* RFC3339Nano as SQLite compares it: in one second, no fraction is last.
TextNotBefore(t, since) ==
    IF t \div 2 = since \div 2 THEN t % 2 = 0 \/ since % 2 = 1
    ELSE t \div 2 > since \div 2

Answer(result) == [clear EXCEPT !.pc = "done", !.result = result]

\* The platform and the number of days are checked; without a number Twitch
\* is asked to clear the chat.
Issue(p, days) ==
    /\ clear.pc = "none"
    /\ LET window == IF days = None THEN 1 ELSE days
           new == [NoClear EXCEPT !.platform = p, !.days = days,
                                  !.since = now - window * Day]
       IN clear' =
            CASE p = "twitch" /\ days = None -> [new EXCEPT !.pc = "chat"]
              [] p = "twitch" /\ days # None -> [new EXCEPT !.pc = "done", !.result = "unsupported"]
              [] window \notin 1 .. MaxDays -> [new EXCEPT !.pc = "done", !.result = "refused"]
              [] OTHER -> [new EXCEPT !.pc = "query"]
    /\ UNCHANGED <<now, message, visible, archive, hist>>

ClearChat ==
    /\ clear.pc = "chat"
    /\ LET all == {m \in visible : Platform(m) = "twitch"}
       IN \/ /\ visible' = visible \ all
             /\ hist' = [hist EXCEPT !.erased = all]
             /\ clear' = Answer("ok")
          \/ /\ clear' = Answer("refused")
             /\ UNCHANGED <<visible, hist>>
    /\ UNCHANGED <<now, message, archive>>

InWindow(m) == Platform(m) = clear.platform /\ TextNotBefore(message[m].at, clear.since)

\* Deviation: the archive is asked again while messages are deleted.
SnapshotRunning ==
    /\ clear.pc \in {"query", "delete"}
    /\ LET ids == {m \in archive : InWindow(m)}
       IN clear' = [clear EXCEPT !.pc = "delete", !.snapshot = ids, !.left = ids]
    /\ UNCHANGED <<now, message, visible, archive, hist>>

\* MessageIDsSince: one query, complete before anything is deleted.
Snapshot ==
    /\ clear.pc = "query"
    /\ LET ids == {m \in archive : InWindow(m)}
       IN clear' = [clear EXCEPT !.pc = "delete", !.snapshot = ids, !.left = ids]
    /\ UNCHANGED <<now, message, visible, archive, hist>>

Oldest == Min(clear.left)

\* Deviation: a failed deletion is counted as deleted too.
CountedAsDeleted(deleted) ==
    [clear EXCEPT !.left = @ \ {Oldest}, !.deleted = @ + 1]

Counted(deleted) ==
    [clear EXCEPT !.left = @ \ {Oldest},
                  !.deleted = IF deleted THEN @ + 1 ELSE @,
                  !.failed = IF deleted THEN @ ELSE @ + 1]

\* Deviation: a message that cannot be deleted is tried again.
DeleteUntilDone ==
    /\ clear.pc = "delete" /\ clear.left # {} /\ Oldest \in visible
    /\ visible' = visible \ {Oldest}
    /\ clear' = Counted(TRUE)
    /\ hist' = [hist EXCEPT !.erased = @ \cup {Oldest}]
    /\ UNCHANGED <<now, message, archive>>

\* Deviation: the first error ends the loop.
DeleteUntilRefused ==
    /\ clear.pc = "delete" /\ clear.left # {}
    /\ \/ /\ Oldest \in visible
          /\ visible' = visible \ {Oldest}
          /\ clear' = Counted(TRUE)
          /\ hist' = [hist EXCEPT !.erased = @ \cup {Oldest}]
       \/ /\ clear' = [clear EXCEPT !.left = {}]
          /\ hist' = [hist EXCEPT !.refused = @ + 1]
          /\ UNCHANGED visible
    /\ UNCHANGED <<now, message, archive>>

\* DeleteMessage returned: a message that is no longer there, like any other
\* error, is counted as failed, and the loop goes on.
Delete ==
    /\ clear.pc = "delete" /\ clear.left # {}
    /\ \/ /\ Oldest \in visible
          /\ visible' = visible \ {Oldest}
          /\ clear' = Counted(TRUE)
          /\ hist' = [hist EXCEPT !.erased = @ \cup {Oldest}]
       \/ /\ Oldest \notin visible
          /\ clear' = Counted(FALSE)
          /\ UNCHANGED <<visible, hist>>
       \/ /\ clear' = Counted(FALSE)
          /\ hist' = [hist EXCEPT !.refused = @ + 1]
          /\ UNCHANGED visible
    /\ UNCHANGED <<now, message, archive>>

\* The provider deleted the message and the answer was lost.
DeleteLost ==
    /\ clear.pc = "delete" /\ clear.left # {} /\ hist.lost < MaxLost
    /\ visible' = visible \ {Oldest}
    /\ clear' = Counted(FALSE)
    /\ hist' = [hist EXCEPT !.erased = @ \cup {Oldest}, !.refused = @ + 1, !.lost = @ + 1]
    /\ UNCHANGED <<now, message, archive>>

\* Deviation: the end of the context ends the run without an answer.
GiveUpWithoutAnswer ==
    /\ clear.pc = "delete" /\ clear.left # {} /\ hist.lost < MaxLost
    /\ clear' = [clear EXCEPT !.pc = "done"]
    /\ UNCHANGED <<now, message, visible, archive, hist>>

\* Every request that is left fails when the context has ended: the relay
\* client waits 30 seconds, a terminal may exit.
GiveUp ==
    /\ clear.pc = "delete" /\ clear.left # {} /\ hist.lost < MaxLost
    /\ clear' = [clear EXCEPT !.left = {}, !.failed = @ + Cardinality(clear.left)]
    /\ hist' = [hist EXCEPT !.refused = @ + Cardinality(clear.left), !.lost = @ + 1]
    /\ UNCHANGED <<now, message, visible, archive>>

Report ==
    /\ clear.pc = "delete" /\ clear.left = {}
    /\ clear' = Answer("ok")
    /\ UNCHANGED <<now, message, visible, archive, hist>>

Command == ClearChat \/ Snapshot \/ Delete \/ DeleteLost \/ GiveUp \/ Report

Next ==
    \/ \E p \in Platforms : Send(p) \/ \E days \in Typed : Issue(p, days)
    \/ \E m \in Sent : Store(m) \/ Vanish(m)
    \/ Tick
    \/ Command

\* Requests end within the timeouts of the HTTP clients.
Fairness == WF_vars(Command)

Spec == Init /\ [][Next]_vars
LiveSpec == Spec /\ Fairness

(******************************* properties ********************************)

TypeOK ==
    /\ now \in Nat
    /\ visible \cup archive \subseteq Sent
    /\ clear.pc \in {"none", "chat", "query", "delete", "done"}
    /\ clear.left \subseteq clear.snapshot
    /\ clear.result \in {"none", "ok", "refused", "unsupported"}
    /\ (clear.result # "none") = (clear.pc = "done")

\* A run deletes only messages of its platform that the archive held when it
\* began and that are not older than the window, to the second in which it
\* begins: what is archived later is left alone (README: "Messages archived
\* after the snapshot begins are not included in that run").
OnlyTheSnapshotIsDeleted ==
    clear.pc # "none" /\ clear.days # None =>
      \A m \in hist.erased :
        /\ m \in archive \ hist.late
        /\ Platform(m) = clear.platform
        /\ message[m].at \div 2 >= clear.since \div 2

\* The two numbers reported account for every message of the snapshot, and no
\* message is counted as deleted that this run did not delete.
CountsAreTruthful ==
    clear.pc = "done" /\ clear.result = "ok" =>
      /\ clear.deleted + clear.failed = Cardinality(clear.snapshot)
      /\ clear.snapshot # {} => clear.deleted <= Cardinality(hist.erased)

\* A run that reports no failure leaves nothing of its snapshot on display.
NoFailureMeansGone ==
    clear.pc = "done" /\ clear.result = "ok" /\ clear.failed = 0
      => clear.snapshot \cap visible = {}

\* /clear deletes its snapshot and nothing else, and says what it did.
ClearSafety ==
    /\ TypeOK
    /\ OnlyTheSnapshotIsDeleted /\ CountsAreTruthful /\ NoFailureMeansGone

\* Messages that keep arriving do not prolong a run: it ends.
ClearEnds == clear.pc = "query" ~> clear.pc = "done"

\* README: "an already-absent message counts as cleared".
AbsentCountsAsCleared ==
    clear.pc = "done" => clear.failed <= hist.refused

\* README: "A time-qualified /clear twitch Nd uses known archived Twitch IDs".
TwitchWindowIsSupported ==
    clear.pc = "done" /\ clear.days \in 1 .. MaxDays => clear.result # "unsupported"
=============================================================================
