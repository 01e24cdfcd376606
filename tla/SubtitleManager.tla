--------------------------- MODULE SubtitleManager ---------------------------
(***************************************************************************)
(* The controller of paid GPU subtitle workers, internal/subtitles/        *)
(* manager.go: Start, Stop, Heartbeat and the monitor goroutine, the state *)
(* file that survives the process, and the provider whose calls may fail   *)
(* or take effect although their answer is lost.  Time is abstracted: a    *)
(* limit of the session may pass at any moment.                            *)
(***************************************************************************)
EXTENDS Naturals, FiniteSets

CONSTANTS
    Pods,       \* the workers the provider can ever create
    NoPod,      \* not a worker
    Faults,     \* the provider calls that may fail: a subset of FaultyCalls
    MaxRuns     \* bound on process starts

FaultyCalls == {"create", "delete", "save"}

\* The goroutines that call Stop: an HTTP request, the cleanup New starts for a
\* recovered session, the one that waits for the context to end, a Start whose
\* save failed, the price guard of updatePod, and the monitor of each worker.
OtherCallers == {"user", "startup", "shutdown", "starter", "price"}
Callers == OtherCallers \cup Pods

ASSUME ManagerAssumption ==
    /\ NoPod \notin Pods
    /\ Faults \subseteq FaultyCalls
    /\ MaxRuns \in Nat \ {0}

States == {"starting", "ready", "stopping", "error"}
NoSession == [pod |-> NoPod, state |-> "idle"]
Sessions == [pod : Pods, state : States] \cup {NoSession}

VARIABLES
    process,    \* "up", "stopping" (the context has ended) or "down"
    runs,       \* number of process starts so far
    alive,      \* the workers that exist at the provider, and are paid for
    used,       \* the workers ever created
    current,    \* m.current: the session, or NoSession
    file,       \* what the state file says: a session, or NoSession
    due,        \* the limit the session has passed: "no", "silent", "expired"
    starter,    \* the Start that is past the creating flag
    created,    \* the worker that Start has been given
    stopper,    \* [Callers -> {"idle", "queued", "deleting", "deleted", "failed"}]
    target,     \* the worker the holder of stopMu deletes, NoPod if nobody does
    monitor,    \* [Pods -> {"none", "ticking", "polling", "done"}]
    cancelled,  \* the workers whose monitor context is cancelled
    abandoned   \* the workers given up while they may still exist (history)

memory == <<current, due, starter, created, stopper, target, monitor, cancelled>>
vars == <<process, runs, alive, used, memory, file, abandoned>>

Running == process # "down"

TypeOK ==
    /\ process \in {"up", "stopping", "down"}
    /\ runs \in 1 .. MaxRuns
    /\ alive \subseteq used /\ used \subseteq Pods
    /\ current \in Sessions
    /\ file \in Sessions
    /\ due \in {"no", "silent", "expired"}
    /\ starter \in {"idle", "creating", "created"}
    /\ created \in Pods \cup {NoPod}
    /\ stopper \in [Callers -> {"idle", "queued", "deleting", "deleted", "failed"}]
    /\ target \in Pods \cup {NoPod}
    /\ monitor \in [Pods -> {"none", "ticking", "polling", "done"}]
    /\ cancelled \subseteq Pods
    /\ abandoned \subseteq used

Init ==
    /\ process = "up"
    /\ runs = 1
    /\ alive = {}
    /\ used = {}
    /\ current = NoSession
    /\ file = NoSession
    /\ due = "no"
    /\ starter = "idle"
    /\ created = NoPod
    /\ stopper = [c \in Callers |-> "idle"]
    /\ target = NoPod
    /\ monitor = [p \in Pods |-> "none"]
    /\ cancelled = {}
    /\ abandoned = {}

-----------------------------------------------------------------------------

\* saveLocked: the file is replaced by a rename, or left as it was.
Save(session) ==
    \/ file' = session
    \/ "save" \in Faults /\ UNCHANGED file

\* go Stop(...), or a call of it: the caller waits for stopMu.
Queue(c) == stopper' = [stopper EXCEPT ![c] = "queued"]

\* A Delete whose error is not looked at.
DeleteIgnoringError(p) ==
    \/ alive' = alive \ {p} /\ UNCHANGED abandoned
    \/ "delete" \in Faults /\ abandoned' = abandoned \cup {p} /\ UNCHANGED alive

-----------------------------------------------------------------------------
(* Start.  A second Start is rejected, or handed the lease there is, and   *)
(* changes nothing.                                                        *)

\* Deviation: the creating flag is not looked at, so nor is the session a
\* Start in progress is about to record.
StartAnyway ==
    /\ Running
    /\ starter = "idle"
    /\ starter' = "creating"
    /\ UNCHANGED <<process, runs, alive, used, current, file, due, created,
                   stopper, target, monitor, cancelled, abandoned>>

StartBegins ==
    /\ Running
    /\ starter = "idle"
    /\ stopper["starter"] = "idle"
    /\ current = NoSession
    /\ starter' = "creating"
    /\ UNCHANGED <<process, runs, alive, used, current, file, due, created,
                   stopper, target, monitor, cancelled, abandoned>>

CreateSucceeds(p) ==
    /\ starter = "creating"
    /\ p \notin used
    /\ alive' = alive \cup {p}
    /\ used' = used \cup {p}
    /\ created' = p
    /\ starter' = "created"
    /\ UNCHANGED <<process, runs, current, file, due, stopper, target, monitor,
                   cancelled, abandoned>>

\* Deviation: an answer that names no worker is taken for a worker.
NamelessAccepted ==
    /\ starter = "creating"
    /\ "create" \in Faults
    /\ starter' = "created"
    /\ UNCHANGED <<process, runs, alive, used, current, file, due, created,
                   stopper, target, monitor, cancelled, abandoned>>

\* The provider refuses, answers without an ID, or times out after it has
\* created the worker.
CreateFails ==
    /\ starter = "creating"
    /\ "create" \in Faults
    /\ \/ UNCHANGED <<alive, used, abandoned>>
       \/ \E p \in Pods \ used :
             /\ alive' = alive \cup {p}
             /\ used' = used \cup {p}
             /\ abandoned' = abandoned \cup {p}
    /\ starter' = "idle"
    /\ UNCHANGED <<process, runs, current, file, due, created, stopper, target,
                   monitor, cancelled>>

\* The worker costs more than the ceiling, or the code finds a session after
\* all: the worker is deleted and never recorded.
WorkerRefused ==
    /\ starter = "created"
    /\ DeleteIgnoringError(created)
    /\ starter' = "idle"
    /\ created' = NoPod
    /\ UNCHANGED <<process, runs, used, current, file, due, stopper, target,
                   monitor, cancelled>>

\* The session is recorded and saved, and its monitor starts.
Record ==
    LET session == [pod |-> created, state |-> "starting"] IN
    /\ starter = "created"
    /\ current = NoSession
    /\ current' = session
    /\ due' = "no"
    /\ created' = NoPod
    /\ starter' = "idle"
    /\ \/ /\ file' = session
          /\ monitor' = [monitor EXCEPT ![created] = "ticking"]
          /\ UNCHANGED stopper
       \/ /\ "save" \in Faults
          /\ UNCHANGED <<file, monitor>>
          /\ Queue("starter")
    /\ UNCHANGED <<process, runs, alive, used, target, cancelled, abandoned>>

-----------------------------------------------------------------------------
(* Stop.                                                                   *)

UserStops ==
    /\ Running
    /\ stopper["user"] = "idle"
    /\ Queue("user")
    /\ UNCHANGED <<process, runs, alive, used, current, file, due, starter,
                   created, target, monitor, cancelled, abandoned>>

\* stopMu is taken.  With no session there is nothing to do; otherwise the
\* session is marked, saved, and its monitor is cancelled.
StopBegins(c) ==
    /\ Running
    /\ stopper[c] = "queued"
    /\ target = NoPod
    /\ \/ /\ current = NoSession
          /\ stopper' = [stopper EXCEPT ![c] = "idle"]
          /\ UNCHANGED <<current, file, target, cancelled>>
       \/ /\ current # NoSession
          /\ stopper' = [stopper EXCEPT ![c] = "deleting"]
          /\ target' = current.pod
          /\ current' = [current EXCEPT !.state = "stopping"]
          /\ Save(current')
          /\ cancelled' = cancelled \cup {current.pod}
    /\ UNCHANGED <<process, runs, alive, used, due, starter, created, monitor,
                   abandoned>>

\* provider.Delete: a worker that is gone already (404) counts as deleted; a
\* failed call may or may not have deleted it.
DeleteReturns(c) ==
    /\ stopper[c] = "deleting"
    /\ \/ /\ alive' = alive \ {target}
          /\ stopper' = [stopper EXCEPT ![c] = "deleted"]
       \/ /\ "delete" \in Faults
          /\ alive' \in {alive, alive \ {target}}
          /\ stopper' = [stopper EXCEPT ![c] = "failed"]
    /\ UNCHANGED <<process, runs, used, current, file, due, starter, created,
                   target, monitor, cancelled, abandoned>>

ReleaseStop(c) ==
    /\ stopper' = [stopper EXCEPT ![c] = "idle"]
    /\ target' = NoPod
    /\ UNCHANGED <<process, runs, alive, used, due, starter, created, monitor,
                   cancelled, abandoned>>

\* Deviation: the session is forgotten even though its worker may exist.
ForgetAnyway(c) ==
    /\ stopper[c] = "failed"
    /\ current' = NoSession
    /\ file' = NoSession
    /\ ReleaseStop(c)

\* The deletion failed: the session stays, in error.
KeepSession(c) ==
    /\ stopper[c] = "failed"
    /\ IF current.pod = target
       THEN /\ current' = [current EXCEPT !.state = "error"]
            /\ Save(current')
       ELSE UNCHANGED <<current, file>>
    /\ ReleaseStop(c)

\* The worker is gone: the session is forgotten and its file removed.
ForgetSession(c) ==
    /\ stopper[c] = "deleted"
    /\ IF current.pod = target
       THEN current' = NoSession /\ Save(NoSession)
       ELSE UNCHANGED <<current, file>>
    /\ ReleaseStop(c)

-----------------------------------------------------------------------------
(* The monitor goroutine of a worker, and Heartbeat.                       *)

\* The controller falls silent, or the session reaches its deadline.
LimitPasses ==
    /\ current # NoSession
    /\ \/ due = "no" /\ due' = "silent"
       \/ due # "expired" /\ due' = "expired"
    /\ UNCHANGED <<process, runs, alive, used, current, file, starter, created,
                   stopper, target, monitor, cancelled, abandoned>>

\* A heartbeat moves no deadline, and asks for no state of the session.
Heartbeat ==
    /\ current # NoSession
    /\ due' = IF due = "expired" THEN "expired" ELSE "no"
    /\ Save(current)
    /\ UNCHANGED <<process, runs, alive, used, current, starter, created,
                   stopper, target, monitor, cancelled, abandoned>>

\* ctx.Done() is chosen, or the tick finds another session or none.
MonitorLeaves(p) ==
    /\ monitor[p] = "ticking"
    /\ p \in cancelled \/ current.pod # p
    /\ monitor' = [monitor EXCEPT ![p] = "done"]
    /\ UNCHANGED <<process, runs, alive, used, current, file, due, starter,
                   created, stopper, target, cancelled, abandoned>>

\* Deviation: only the heartbeat is looked at.
MonitorStopsSilent(p) ==
    /\ monitor[p] = "ticking"
    /\ current.pod = p
    /\ due = "silent"
    /\ monitor' = [monitor EXCEPT ![p] = "done"]
    /\ Queue(p)
    /\ UNCHANGED <<process, runs, alive, used, current, file, due, starter,
                   created, target, cancelled, abandoned>>

\* A limit has passed (the ready timeout may pass as long as the worker is
\* starting): the monitor calls Stop, whatever comes of it, and returns.
MonitorStops(p) ==
    /\ monitor[p] = "ticking"
    /\ current.pod = p
    /\ due # "no" \/ current.state = "starting"
    /\ monitor' = [monitor EXCEPT ![p] = "done"]
    /\ Queue(p)
    /\ UNCHANGED <<process, runs, alive, used, current, file, due, starter,
                   created, target, cancelled, abandoned>>

\* No limit has passed: the provider, and the worker if it is starting, are
\* asked without the lock.
MonitorAsks(p) ==
    /\ monitor[p] = "ticking"
    /\ current.pod = p
    /\ due = "no"
    /\ monitor' = [monitor EXCEPT ![p] = "polling"]
    /\ UNCHANGED <<process, runs, alive, used, current, file, due, starter,
                   created, stopper, target, cancelled, abandoned>>

\* An error, or a worker that is the session's no more; or updatePod finds
\* nothing that matters here, and saves the session.
PollEnds(p) ==
    /\ monitor[p] = "polling"
    /\ monitor' = [monitor EXCEPT ![p] = "ticking"]
    /\ UNCHANGED file \/ (current.pod = p /\ Save(current))
    /\ UNCHANGED <<process, runs, alive, used, current, due, starter,
                   created, stopper, target, cancelled, abandoned>>

\* updatePod: the price has risen above the ceiling, whatever the state.  The
\* model lets one Stop of the price guard wait at a time.
PriceRises(p) ==
    /\ monitor[p] = "polling"
    /\ current.pod = p
    /\ current' = [current EXCEPT !.state = "error"]
    /\ Save(current')
    /\ stopper' = [stopper EXCEPT !["price"] = IF @ = "idle" THEN "queued" ELSE @]
    /\ UNCHANGED <<process, runs, alive, used, due, starter, created, target,
                   monitor, cancelled, abandoned>>

\* Deviation: the state read before the worker was asked is trusted.
ReadyUnchecked(p) ==
    /\ monitor[p] = "polling"
    /\ current.pod = p
    /\ current' = [current EXCEPT !.state = "ready"]
    /\ Save(current')
    /\ monitor' = [monitor EXCEPT ![p] = "ticking"]
    /\ UNCHANGED <<process, runs, alive, used, due, starter, created, stopper,
                   target, cancelled, abandoned>>

\* markReady, if the session is still the same and still starting.
BecomesReady(p) ==
    /\ monitor[p] = "polling"
    /\ current.pod = p
    /\ current.state = "starting"
    /\ current' = [current EXCEPT !.state = "ready"]
    /\ Save(current')
    /\ monitor' = [monitor EXCEPT ![p] = "ticking"]
    /\ UNCHANGED <<process, runs, alive, used, due, starter, created, stopper,
                   target, cancelled, abandoned>>

-----------------------------------------------------------------------------
(* The process.                                                            *)

\* The context ends: New's second goroutine calls Stop.
ContextEnds ==
    /\ process = "up"
    /\ process' = "stopping"
    /\ Queue("shutdown")
    /\ UNCHANGED <<runs, alive, used, current, file, due, starter, created,
                   target, monitor, cancelled, abandoned>>

\* The process ends and what it has not written to the file is forgotten.  The
\* main goroutine does not wait for any Stop.
Ends ==
    /\ process' = "down"
    /\ current' = NoSession
    /\ due' = "no"
    /\ starter' = "idle"
    /\ created' = NoPod
    /\ stopper' = [c \in Callers |-> "idle"]
    /\ target' = NoPod
    /\ monitor' = [p \in Pods |-> "none"]
    /\ cancelled' = {}
    /\ abandoned' = abandoned \cup ({created, current.pod} \ {NoPod, file.pod})
    /\ UNCHANGED <<runs, alive, used, file>>

Exit == process = "stopping" /\ Ends

Crash == Running /\ Ends

\* Deviation: the recovered session is not loaded.
RestartBlank ==
    /\ process = "down"
    /\ runs < MaxRuns
    /\ process' = "up"
    /\ runs' = runs + 1
    /\ UNCHANGED <<alive, used, memory, file, abandoned>>

\* New: a session found in the file is loaded and a goroutine is to stop it.
Restart ==
    /\ process = "down"
    /\ runs < MaxRuns
    /\ process' = "up"
    /\ runs' = runs + 1
    /\ current' = file
    /\ \/ file = NoSession /\ UNCHANGED stopper
       \/ file # NoSession /\ Queue("startup")
    /\ UNCHANGED <<alive, used, file, due, starter, created, target, monitor,
                   cancelled, abandoned>>

-----------------------------------------------------------------------------

Start ==
    \/ StartBegins \/ CreateFails \/ WorkerRefused \/ Record
    \/ \E p \in Pods : CreateSucceeds(p)

Stop(c) ==
    StopBegins(c) \/ DeleteReturns(c) \/ KeepSession(c) \/ ForgetSession(c)

Monitor(p) ==
    \/ MonitorLeaves(p) \/ MonitorStops(p) \/ MonitorAsks(p)
    \/ PollEnds(p) \/ PriceRises(p) \/ BecomesReady(p)

Next ==
    \/ Start \/ UserStops \/ LimitPasses \/ Heartbeat
    \/ \E c \in Callers : Stop(c)
    \/ \E p \in Pods : Monitor(p)
    \/ ContextEnds \/ Exit \/ Crash \/ Restart

Spec == Init /\ [][Next]_vars

\* Goroutines run, stopMu is given to one of those that wait for it, and every
\* provider call has a timeout.  Nothing makes a user act, a limit pass or the
\* process end; a provider that is asked again and again does delete a worker in
\* the end.
Fairness ==
    /\ SF_vars(\E c \in Callers : StopBegins(c))
    /\ SF_vars(\E c \in Callers : DeleteReturns(c) /\ stopper'[c] = "deleted")
    /\ \A c \in Callers : WF_vars(DeleteReturns(c) \/ KeepSession(c) \/ ForgetSession(c))
    /\ \A p \in Pods :
        /\ WF_vars(MonitorLeaves(p))
        /\ WF_vars(MonitorStops(p))
        /\ WF_vars(PollEnds(p))

FairSpec == Spec /\ Fairness

-----------------------------------------------------------------------------
(* Properties.                                                             *)

\* Every worker that is paid for is the session's or about to become it, is
\* named by the state file if the process is down, or was given up in one of
\* the ways the code does give one up: a create whose answer was lost, a delete
\* whose error is ignored, a process that ends before the first save.  Stopping
\* twice, failed deletions, failed saves and restarts lose no other.
WorkersAccountedFor ==
    alive \ abandoned \subseteq
        IF Running THEN {current.pod, created} ELSE {file.pod}

\* Two workers are never paid for at once, those given up apart: the creating
\* flag and the session together admit one (manager.go:264-278).
OneWorkerAtATime == Cardinality(alive \ abandoned) <= 1

\* While a Start waits for the provider no session appears, so the check of
\* manager.go:308 never finds one.
CreatingExcludesSession == starter # "idle" => current = NoSession

\* A session that is being stopped, or could not be, is never reported as
\* starting or ready again, however late the monitor's polls return.
StoppingIsFinal ==
    [][current.state \in {"stopping", "error"} /\ current'.pod = current.pod
          => current'.state \in {"stopping", "error"}]_vars

\* A session that passes its deadline is stopped, or the attempt fails: the
\* monitor neither sleeps through it nor leaves before it.
ExpiredIsStopped ==
    due = "expired" ~> current.state \notin {"starting", "ready"}

\* docs/bot-architecture.md:29 has it that the controller "enforces both a
\* heartbeat timeout and a six-hour default maximum lifetime": a worker past
\* its deadline is deleted, unless the process ends first.
ExpiredIsDeleted ==
    \A p \in Pods :
        due = "expired" /\ current.pod = p ~> p \notin alive \/ process # "up"

\* "A service restart must not leave an unowned paid worker behind"
\* (manager.go:248): what is alive when the process is down is in the file.
RestartLeavesNoneUnowned == ~Running => alive \subseteq {file.pod}
=============================================================================
