------------------------------- MODULE BotEngine -------------------------------
(***************************************************************************)
(* The chat bot: internal/bot/bot.go with the events of architecture.go,   *)
(* the command journal of commandlog.go and the settings and test handlers *)
(* of internal/botgui/gui.go.                                              *)
(*                                                                         *)
(* Any goroutine may enqueue an event; a full queue drops it.  One         *)
(* goroutine handles the events one by one with the settings it found when *)
(* it began, sleeping before a YouTube reply and sending without holding   *)
(* the lock, while the settings page changes the settings and sends test   *)
(* replies beside it.  Every platform has one channel.  The clock ticks at *)
(* any time.                                                               *)
(***************************************************************************)
EXTENDS Naturals, Sequences, Functions

CONSTANTS
    Platforms,      \* a subset of "kick", "twitch", "youtube"
    Commands,       \* the commands the bot answers
    Others,         \* kinds of events that are none: "chat", "alert", "other"
    QueueSize,      \* 32 in New
    Escape,         \* the ordinary messages that end a cooldown: 4
    Cooldowns,      \* cooldowns the settings page may set
    MaxEvents,      \* bound on events
    MaxTime,        \* bound on the clock
    MaxUpdates,     \* bound on changed settings
    MaxTests,       \* bound on test replies
    MaxFaults       \* bound on sends and journal writes that fail

ConstantsOK ==
    /\ QueueSize \in Nat \ {0} /\ Escape \in Nat /\ Cooldowns \subseteq Nat \ {0}
    /\ Commands \cap {"chat", "alert", "other"} = {}
    /\ MaxTime \in Nat \ {0} /\ {MaxEvents, MaxUpdates, MaxTests, MaxFaults} \subseteq Nat

VARIABLES
    queue,      \* events enqueued and not taken
    cfg,        \* the settings
    job,        \* what the goroutine of Run is doing
    now,        \* the clock
    last,       \* each command's last answer: when, and at which message
    seq,        \* ordinary messages of each platform
    lastSent,   \* when the last YouTube reply was sent, 0 if none was
    journal,    \* records of the command journal, and whether it has failed
    spent,      \* events, updates, tests and faults so far
    hist        \* history: see Init

vars == <<queue, cfg, job, now, last, seq, lastSent, journal, spent, hist>>

-----------------------------------------------------------------------------
Kinds == Commands \cup Others
Events == [platform : Platforms, kind : Kinds]
Keys == Platforms \X Commands
Key(e) == <<e.platform, e.kind>>
Never == [at |-> 0, seq |-> 0]
Free == [pc |-> "idle"]

Init ==
    /\ queue = <<>> /\ job = Free /\ now = 1
    /\ \E d \in Cooldowns :
           cfg = [enabled |-> TRUE, disabled |-> {}, cooldown |-> d]
    /\ last = [k \in Keys |-> Never] /\ seq = [p \in Platforms |-> 0]
    /\ lastSent = 0 /\ journal = [records |-> 0, failed |-> FALSE]
    /\ spent = [events |-> 0, updates |-> 0, tests |-> 0, faults |-> 0]
    /\ hist = [began |-> [k \in Keys |-> 0],    \* the last execution
               heard |-> [k \in Keys |-> 0],    \* ordinary messages since then
               hasty |-> FALSE,                 \* executed too early
               executed |-> 0, reported |-> 0,  \* commands, journal errors
               posted |-> 0,                    \* the last YouTube message
               crowded |-> FALSE, tested |-> FALSE, \* posted too early, by Test
               late |-> [p \in Platforms |-> 0]]    \* replies since disabled

Spend(what, bound) ==
    spent[what] < bound /\ spent' = [spent EXCEPT ![what] = @ + 1]

Tick ==
    /\ now < MaxTime /\ now' = now + 1
    /\ UNCHANGED <<queue, cfg, job, last, seq, lastSent, journal, spent, hist>>

\* Deviation: the queue grows.
EnqueueAnyway ==
    /\ Spend("events", MaxEvents)
    /\ \E e \in Events : queue' = Append(queue, e)
    /\ UNCHANGED <<cfg, job, now, last, seq, lastSent, journal, hist>>

\* EnqueueEvent never blocks the relay.
Enqueue ==
    /\ Spend("events", MaxEvents)
    /\ \E e \in Events : queue' = IF Len(queue) < QueueSize
                                  THEN Append(queue, e) ELSE queue
    /\ UNCHANGED <<cfg, job, now, last, seq, lastSent, journal, hist>>

-----------------------------------------------------------------------------
(* handleEvent. *)

Off(p, c) == ~c.enabled \/ p \in c.disabled

\* A reply is sent by sendReply; the time it has to wait is settled at once,
\* with the cooldown of that moment.
Reply(e) ==
    job' = [pc |-> "wait", event |-> e,
            until |-> IF e.platform = "youtube" /\ lastSent # 0
                      THEN lastSent + cfg.cooldown ELSE now,
            gap |-> IF e.platform = "youtube" THEN cfg.cooldown ELSE 0]

\* A duplicate within the cooldown, with fewer ordinary messages in between
\* than end it.
Duplicate(e, c) ==
    LET l == last[Key(e)]
    IN  /\ l.at # 0 /\ now - l.at < c.cooldown
        /\ seq[e.platform] - l.seq < Escape

\* Deviation: a suppressed duplicate is counted as well.
SuppressCounted(e) == seq' = [seq EXCEPT ![e.platform] = @ + 1]

\* Only ordinary messages are counted.
Suppress(e) == UNCHANGED seq

Execute(e, c) ==
    /\ last' = [last EXCEPT ![Key(e)] = [at |-> now, seq |-> seq[e.platform]]]
    /\ hist' = [hist EXCEPT
                  !.began[Key(e)] = now, !.heard[Key(e)] = 0,
                  !.executed = @ + 1,
                  !.hasty = @ \/ /\ hist.began[Key(e)] # 0
                                 /\ now - hist.began[Key(e)] < c.cooldown
                                 /\ hist.heard[Key(e)] < Escape]
    /\ Reply(e)

\* An ordinary message is counted, for every command of its channel.
Count(e) ==
    /\ seq' = [seq EXCEPT ![e.platform] = @ + 1]
    /\ hist' = [hist EXCEPT !.heard = [k \in Keys |->
                    IF k[1] = e.platform THEN @[k] + 1 ELSE @[k]]]

\* One event with the settings of that moment.
Handle(e, c) ==
    \/ /\ Off(e.platform, c) \/ e.kind = "other"
       /\ UNCHANGED <<job, last, seq, hist>>
    \/ /\ ~Off(e.platform, c) /\ e.kind = "alert"
       /\ Reply(e) /\ UNCHANGED <<last, seq, hist>>
    \/ /\ ~Off(e.platform, c) /\ e.kind = "chat"
       /\ Count(e) /\ UNCHANGED <<job, last>>
    \/ /\ ~Off(e.platform, c) /\ e.kind \in Commands /\ Duplicate(e, c)
       /\ Suppress(e) /\ UNCHANGED <<job, last, hist>>
    \/ /\ ~Off(e.platform, c) /\ e.kind \in Commands /\ ~Duplicate(e, c)
       /\ Execute(e, c) /\ UNCHANGED seq

\* Deviation: the platforms are those that were enabled at the start.
TakeAnyPlatform ==
    /\ job.pc = "idle" /\ queue # <<>>
    /\ queue' = Tail(queue)
    /\ Handle(Head(queue), [cfg EXCEPT !.disabled = {}])
    /\ UNCHANGED <<cfg, now, lastSent, journal, spent>>

\* The settings are read anew for each event.
Take ==
    /\ job.pc = "idle" /\ queue # <<>>
    /\ queue' = Tail(queue) /\ Handle(Head(queue), cfg)
    /\ UNCHANGED <<cfg, now, lastSent, journal, spent>>

\* Deviation: the sleep is taken again when its time has come.
WakeNever ==
    /\ job.pc = "wait" /\ now >= job.until /\ job.until < now
    /\ job' = [job EXCEPT !.until = now]
    /\ UNCHANGED <<queue, cfg, now, last, seq, lastSent, journal, spent, hist>>

\* The sleep before a YouTube reply ends.
Wake ==
    /\ job.pc = "wait" /\ now >= job.until
    /\ job' = [job EXCEPT !.pc = "send"]
    /\ UNCHANGED <<queue, cfg, now, last, seq, lastSent, journal, spent, hist>>

\* Deviation: it is the time at which the reply was due.
SentWhenDue == job.until

\* The time of a sent YouTube reply is that of the answer.
SentAt == now

\* A message reaches the platform after its gap, or too early.
Posted(h, p, gap) ==
    IF p # "youtube" THEN h
    ELSE [h EXCEPT !.posted = now,
                   !.crowded = @ \/ (h.posted # 0 /\ now - h.posted < gap)]

\* Answered or not: the journal gets a record of a command.
Journal == journal' = [journal EXCEPT !.records = @ + 1]

Done(h) == job' = [pc |-> "record", command |-> job.event.kind \in Commands] /\ hist' = h

Sent ==
    /\ job.pc = "send"
    /\ lastSent' = IF job.event.platform = "youtube" THEN SentAt ELSE lastSent
    /\ Done([Posted(hist, job.event.platform, job.gap) EXCEPT
               !.late[job.event.platform] =
                   IF Off(job.event.platform, cfg) THEN @ + 1 ELSE 0])
    /\ UNCHANGED <<queue, cfg, now, last, seq, journal, spent>>

\* The request fails before the provider has posted anything.
SendFails ==
    /\ job.pc = "send" /\ Spend("faults", MaxFaults)
    /\ Done(hist)
    /\ UNCHANGED <<queue, cfg, now, last, seq, lastSent, journal>>

\* WriteCommand: one failure, and the journal fails from then on.
JournalFails == journal.failed \/ Spend("faults", MaxFaults)

\* Deviation: only answers that were sent are recorded, after a failed
\* journal nothing is reported.
RecordQuietly ==
    /\ job.pc = "record" /\ job' = Free
    /\ \/ (~job.command \/ journal.failed) /\ UNCHANGED <<journal, spent>>
       \/ job.command /\ ~journal.failed /\ Journal /\ UNCHANGED spent
       \/ /\ job.command /\ Spend("faults", MaxFaults)
          /\ journal' = [journal EXCEPT !.failed = TRUE]
    /\ UNCHANGED <<hist, queue, cfg, now, last, seq, lastSent>>

\* recordCommand: an execution is recorded, or the error is reported.
Record ==
    /\ job.pc = "record" /\ job' = Free
    /\ \/ ~job.command /\ UNCHANGED <<journal, spent, hist>>
       \/ /\ job.command /\ ~journal.failed /\ Journal /\ UNCHANGED <<spent, hist>>
       \/ /\ job.command /\ JournalFails /\ (journal.failed => UNCHANGED spent)
          /\ journal' = [journal EXCEPT !.failed = TRUE]
          /\ hist' = [hist EXCEPT !.reported = @ + 1]
    /\ UNCHANGED <<queue, cfg, now, last, seq, lastSent>>

-----------------------------------------------------------------------------
(* The settings page. *)

Update ==
    /\ Spend("updates", MaxUpdates)
    /\ \E on \in BOOLEAN, off \in SUBSET Platforms, d \in Cooldowns :
           /\ cfg' = [enabled |-> on, disabled |-> off, cooldown |-> d]
           /\ cfg' # cfg
    /\ hist' = [hist EXCEPT !.late = [p \in Platforms |->
                    IF Off(p, cfg) /\ Off(p, cfg') THEN @[p] ELSE 0]]
    /\ UNCHANGED <<queue, job, now, last, seq, lastSent, journal>>

\* Test sends from the handler's goroutine, whatever Run is doing.
Test ==
    /\ Spend("tests", MaxTests)
    /\ \E p \in Platforms :
           hist' = [Posted(hist, p, cfg.cooldown) EXCEPT !.tested = TRUE]
    /\ UNCHANGED <<queue, cfg, job, now, last, seq, lastSent, journal>>

Next ==
    \/ Tick \/ Enqueue \/ Take \/ Wake \/ Sent \/ SendFails \/ Record
    \/ Update \/ Test

\* The goroutine of Run goes on, and time passes.
Fairness == WF_vars(Take) /\ WF_vars(Wake) /\ WF_vars(Sent)
            /\ WF_vars(Record) /\ WF_vars(Tick)

Spec == Init /\ [][Next]_vars /\ Fairness

-----------------------------------------------------------------------------
(* Properties. *)

TypeOK ==
    /\ queue \in Seq(Events) /\ Len(queue) <= QueueSize
    /\ cfg \in [enabled : BOOLEAN, disabled : SUBSET Platforms,
                cooldown : Cooldowns]
    /\ job.pc \in {"idle", "wait", "send", "record"} /\ now \in 1..MaxTime
    /\ \A k \in Keys : last[k].at <= now /\ last[k].seq <= seq[k[1]]
    /\ lastSent <= now /\ journal.records <= MaxEvents

\* A command is executed again in its channel only after the cooldown or
\* after Escape ordinary messages; duplicates that were suppressed are not
\* among them.
NoHastyAnswer == ~hist.hasty

\* The replies to commands and alerts reach YouTube a cooldown apart, however
\* long the sends take and whatever fails in between.
YouTubeIsSpaced == ~hist.tested => ~hist.crowded

\* The same of every message the bot sends to YouTube, the test replies too.
EveryReplyIsSpaced == ~hist.crowded

\* When Run is idle, every command that was executed is in the journal, or
\* the journal's error was reported.
ExecutedIsRecorded ==
    (job.pc = "idle") => (hist.executed = journal.records + hist.reported)

\* Once a platform is disabled, the reply that was under way is the last one.
DisabledSoonIsQuiet == \A p \in Platforms : hist.late[p] <= 1

\* The bot answers no more often than its settings allow, and accounts for
\* what it did.
BotSafety ==
    /\ TypeOK /\ NoHastyAnswer /\ YouTubeIsSpaced /\ ExecutedIsRecorded
    /\ DisabledSoonIsQuiet

\* An event that is in the queue is taken in the end, unless it waits for a
\* reply that the bounded clock does not reach.
EveryEventIsTaken ==
    (queue # <<>>) ~> (queue = <<>> \/ (job.pc = "wait" /\ job.until > MaxTime))
================================================================================
