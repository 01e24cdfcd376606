--------------------------- MODULE DesktopProcesses ---------------------------
(***************************************************************************)
(* The three processes of the desktop application and how they end: the Qt *)
(* application (desktop/backend.cpp), the frontend runtime it launches     *)
(* (cmd/streamchat-gui/main.go) and the private local server the runtime   *)
(* launches in local mode (startLocalServer, stopLocalServer).             *)
(*                                                                         *)
(* Time is counted in seconds because the three wait for each other with   *)
(* timeouts of their own.  A timer that has run out is acted on before     *)
(* time goes on; everything else takes as long as it likes.  Launch 0 is a *)
(* runtime somebody started by hand.  The /events stream is the only       *)
(* connection that stays open at a runtime.                                *)
(***************************************************************************)
EXTENDS Integers, FiniteSets, FiniteSetsExt

CONSTANTS
    Standalone,     \* modes a runtime may be started in by hand
    MaxLaunches,    \* bound on runtimes launched by the application
    MaxFaults,      \* bound on failed starts and crashes of local servers
    ProbeWait,      \* 40 probes, 250 ms apart
    QtWait,         \* waitForFinished(3000) of stopRuntime
    ReadyWait,      \* the deadline of startLocalServer, 15 s
    Drain,          \* the shutdown context of gui.Server.Run, 5 s
    AskWait,        \* the client timeout of stopLocalServer, 2 s
    DoneWait        \* time.After in stopLocalServer, 3 s

ConstantsOK ==
    /\ Standalone \subseteq {"local", "remote"}
    /\ {MaxLaunches, MaxFaults} \subseteq Nat
    /\ {ProbeWait, QtWait, ReadyWait, Drain, AskWait, DoneWait} \subseteq Nat \ {0}

Launches == 0 .. MaxLaunches
Modes == {"local", "remote"}

VARIABLES
    qt,         \* pc, mode, the launch it owns (-1: none), the launch whose
                \* event stream it reads, its timer, and what comes after a stop
    runtime,    \* per launch: pc, mode, cancelled, timer, seconds since cancelled
    server,     \* per launch: the local server
    temporary,  \* per launch: whether the temporary configuration exists
    hist        \* launches so far, faults, launches a notice gave up

vars == <<qt, runtime, server, temporary, hist>>

NoRuntime == [pc |-> "none", mode |-> "remote", cancelled |-> FALSE, timer |-> 0, age |-> 0]

Starting(mode) == [NoRuntime EXCEPT !.pc = "starting", !.mode = mode]

Init ==
    /\ qt \in {[pc |-> "check", mode |-> mode, owns |-> -1, events |-> -1,
                timer |-> 0, after |-> "check"] : mode \in Modes}
    /\ \E standalone \in {NoRuntime} \cup {Starting(mode) : mode \in Standalone} :
         runtime = [i \in Launches |-> IF i = 0 THEN standalone ELSE NoRuntime]
    /\ server = [i \in Launches |-> "none"]
    /\ temporary = [i \in Launches |-> FALSE]
    /\ hist = [launched |-> 0, faults |-> 0, givenUp |-> {}]

Gone == {"none", "ended", "killed"}
Stopping == {"draining", "asking", "waiting"}
Serving(i) == runtime[i].pc = "serving"
Fault == hist.faults < MaxFaults

(************************* The frontend runtime ****************************)

\* A runtime ends; the event stream read from it ends with it.
Ends(i, how) ==
    /\ runtime' = [runtime EXCEPT ![i].pc = how, ![i].timer = 0]
    /\ qt' = [qt EXCEPT !.events = IF @ = i THEN -1 ELSE @]

\* startLocalServer writes the temporary configuration and starts the server;
\* in remote mode the runtime goes on at once.
StartServer(i) ==
    /\ runtime[i].pc = "starting"
    /\ IF runtime[i].mode = "local"
       THEN /\ runtime' = [runtime EXCEPT ![i].pc = "polling", ![i].timer = ReadyWait]
            /\ server' = [server EXCEPT ![i] = "booting"]
            /\ temporary' = [temporary EXCEPT ![i] = TRUE]
       ELSE /\ runtime' = [runtime EXCEPT ![i].pc = "listen"]
            /\ UNCHANGED <<server, temporary>>
    /\ UNCHANGED <<qt, hist>>

\* The local server cannot be started: the temporary directory is removed.
StartFails(i) ==
    /\ runtime[i].pc = "starting" /\ runtime[i].mode = "local" /\ Fault
    /\ hist' = [hist EXCEPT !.faults = @ + 1]
    /\ Ends(i, "ended")
    /\ UNCHANGED <<server, temporary>>

DialSucceeds(i) ==
    /\ runtime[i].pc = "polling" /\ server[i] = "ready"
    /\ runtime' = [runtime EXCEPT ![i].pc = "listen", ![i].timer = 0]
    /\ UNCHANGED <<qt, server, temporary, hist>>

\* The server did not become ready: it is killed, and the process exits
\* whether or not the goroutine that removes the directory has run.
NotReady(i) ==
    /\ runtime[i].pc = "polling" /\ runtime[i].timer = 0
    /\ server' = [server EXCEPT ![i] = "dead"]
    /\ \E removed \in BOOLEAN :
         temporary' = [temporary EXCEPT ![i] = @ /\ ~removed]
    /\ Ends(i, "ended")
    /\ UNCHANGED hist

\* Deviation: the request to the local server has no timeout of its own.
ReturnSameTimer(i) ==
    IF server[i] = "none"
    THEN Ends(i, "ended")
    ELSE /\ runtime' = [runtime EXCEPT ![i].pc = "asking"]
         /\ UNCHANGED qt

\* Where run returns: stopLocalServer is deferred.
Return(i) ==
    IF server[i] = "none"
    THEN Ends(i, "ended")
    ELSE /\ runtime' = [runtime EXCEPT ![i].pc = "asking", ![i].timer = AskWait]
         /\ UNCHANGED qt

\* gui.Server.Run: the address may be in use.
Listen(i) ==
    /\ runtime[i].pc = "listen"
    /\ IF \E j \in Launches : Serving(j)
       THEN Return(i)
       ELSE /\ runtime' = [runtime EXCEPT ![i].pc = "serving"]
            /\ UNCHANGED qt
    /\ UNCHANGED <<server, temporary, hist>>

Cancelled(i) ==
    /\ Serving(i) /\ runtime[i].cancelled
    /\ runtime' = [runtime EXCEPT ![i].pc = "draining", ![i].timer = Drain]
    /\ UNCHANGED <<qt, server, temporary, hist>>

\* Shutdown waits for the connections that are not idle.
Drained(i) ==
    /\ runtime[i].pc = "draining"
    /\ qt.events # i \/ runtime[i].timer = 0
    /\ Return(i)
    /\ UNCHANGED <<server, temporary, hist>>

\* Deviation: a request that timed out is tried once more.
AskedAgain(i) ==
    /\ runtime[i].pc = "asking"
    /\ \/ server[i] \in {"ready", "stopping"} /\ server' = [server EXCEPT ![i] = "stopping"]
       \/ server[i] = "dead" /\ UNCHANGED server
       \/ runtime[i].timer = 0 /\ UNCHANGED server
    /\ runtime' = IF runtime[i].timer = 0 /\ runtime[i].age <= Drain + AskWait
                  THEN [runtime EXCEPT ![i].timer = AskWait]
                  ELSE [runtime EXCEPT ![i].pc = "waiting", ![i].timer = DoneWait]
    /\ UNCHANGED <<qt, temporary, hist>>

\* stopLocalServer asks the server to end, and goes on however that ended.
Asked(i) ==
    /\ runtime[i].pc = "asking"
    /\ \/ server[i] \in {"ready", "stopping"} /\ server' = [server EXCEPT ![i] = "stopping"]
       \/ server[i] = "dead" /\ UNCHANGED server
       \/ runtime[i].timer = 0 /\ UNCHANGED server
    /\ runtime' = [runtime EXCEPT ![i].pc = "waiting", ![i].timer = DoneWait]
    /\ UNCHANGED <<qt, temporary, hist>>

\* Deviation: a server that does not end in time is killed but not waited for,
\* so the process exits before the directory is removed.
ServerDoneUnwaited(i) ==
    /\ runtime[i].pc = "waiting"
    /\ server[i] = "dead" \/ runtime[i].timer = 0
    /\ server' = [server EXCEPT ![i] = "dead"]
    /\ temporary' = [temporary EXCEPT ![i] = @ /\ server[i] # "dead"]
    /\ Ends(i, "ended")
    /\ UNCHANGED hist

\* process.done is closed once the server is gone and the directory removed;
\* a server that does not end in time is killed, and then waited for.
ServerDone(i) ==
    /\ runtime[i].pc = "waiting"
    /\ server[i] = "dead" \/ runtime[i].timer = 0
    /\ server' = [server EXCEPT ![i] = "dead"]
    /\ temporary' = [temporary EXCEPT ![i] = FALSE]
    /\ Ends(i, "ended")
    /\ UNCHANGED hist

\* An interrupt or a termination signal reaches a runtime started by hand.
Signal ==
    /\ runtime[0].pc \notin Gone /\ ~runtime[0].cancelled
    /\ runtime' = [runtime EXCEPT ![0].cancelled = TRUE]
    /\ UNCHANGED <<qt, server, temporary, hist>>

(*************************** The local server ******************************)

ServerReady(i) ==
    /\ server[i] = "booting"
    /\ server' = [server EXCEPT ![i] = "ready"]
    /\ UNCHANGED <<qt, runtime, temporary, hist>>

\* The server ends, when told to or by a failure of its own.  The runtime, if
\* there still is one, removes the directory.
ServerEnds(i) ==
    /\ \/ server[i] = "stopping" /\ UNCHANGED hist
       \/ /\ server[i] \in {"booting", "ready"} /\ Fault
          /\ hist' = [hist EXCEPT !.faults = @ + 1]
    /\ server' = [server EXCEPT ![i] = "dead"]
    /\ temporary' = [temporary EXCEPT ![i] = @ /\ runtime[i].pc \in Gone]
    /\ UNCHANGED <<qt, runtime>>

(************************** The Qt application *****************************)

\* launchRuntime, unless the bound on launches is reached.
Launch ==
    /\ hist.launched < MaxLaunches
    /\ hist' = [hist EXCEPT !.launched = @ + 1]
    /\ runtime' = [runtime EXCEPT ![hist.launched + 1] = Starting(qt.mode)]
    /\ qt' = [qt EXCEPT !.pc = "probing", !.owns = hist.launched + 1, !.timer = ProbeWait]

\* checkRuntime, at the start and after a change of mode: a runtime that
\* answers is used, whoever started it.
CheckRuntime ==
    /\ qt.pc = "check"
    /\ \/ \E i \in Launches :
            /\ Serving(i)
            /\ qt' = [qt EXCEPT !.pc = "connected", !.events = i]
            /\ UNCHANGED <<runtime, hist>>
       \/ (\A i \in Launches : ~Serving(i)) /\ Launch
    /\ UNCHANGED <<server, temporary>>

Probe ==
    /\ qt.pc = "probing"
    /\ \E i \in Launches :
         /\ Serving(i)
         /\ qt' = [qt EXCEPT !.pc = "connected", !.events = i, !.timer = 0]
    /\ UNCHANGED <<runtime, server, temporary, hist>>

\* "The Streamchat runtime did not start."
ProbeGivesUp ==
    /\ qt.pc = "probing" /\ qt.timer = 0
    /\ \A i \in Launches : ~Serving(i)
    /\ qt' = [qt EXCEPT !.pc = "gaveUp"]
    /\ hist' = [hist EXCEPT !.givenUp = @ \cup {qt.owns}]
    /\ UNCHANGED <<runtime, server, temporary>>

\* The stream is opened again 1.5 s after it ended.
Reconnect ==
    /\ qt.pc = "connected" /\ qt.events = -1
    /\ \E i \in Launches : Serving(i) /\ qt' = [qt EXCEPT !.events = i]
    /\ UNCHANGED <<runtime, server, temporary, hist>>

\* stopRuntime, for the end of the application or before another check: the
\* request goes to whichever runtime listens.
StopRuntime(after, events, mode) ==
    /\ IF qt.owns = -1
       THEN /\ qt' = [qt EXCEPT !.pc = after, !.events = events, !.mode = mode, !.timer = 0]
            /\ UNCHANGED runtime
       ELSE /\ qt' = [qt EXCEPT !.pc = "stopping", !.after = after, !.events = events,
                                !.mode = mode, !.timer = QtWait]
            /\ runtime' = [i \in Launches |->
                             [runtime[i] EXCEPT !.cancelled = @ \/ Serving(i)]]
    /\ UNCHANGED <<server, temporary, hist>>

\* The destructor leaves the event stream open.
Quit ==
    /\ qt.pc \in {"probing", "connected", "gaveUp"}
    /\ StopRuntime("quit", qt.events, qt.mode)

\* Deviation: the old runtime is told to end, and a new one launched at once.
ConfigureAtOnce ==
    /\ qt.pc \in {"probing", "connected", "gaveUp"}
    /\ runtime' = [i \in Launches |-> [runtime[i] EXCEPT !.cancelled = @ \/ Serving(i)]]
    /\ \E mode \in Modes :
         qt' = [qt EXCEPT !.pc = "check", !.events = -1, !.owns = -1, !.mode = mode, !.timer = 0]
    /\ UNCHANGED <<server, temporary, hist>>

\* configureConnection aborts the event stream, stops the runtime it owns and
\* checks again.
Configure ==
    /\ qt.pc \in {"probing", "connected", "gaveUp"}
    /\ \E mode \in Modes : StopRuntime("check", -1, mode)

\* The shutdown button: the runtime answers, and the application quits.
ShutdownButton ==
    /\ qt.pc = "connected"
    /\ \E i \in Launches :
         /\ Serving(i)
         /\ runtime' = [runtime EXCEPT ![i].cancelled = TRUE]
    /\ qt' = [qt EXCEPT !.pc = IF qt.owns = -1 THEN "quit" ELSE "stopping",
                        !.after = "quit", !.timer = IF qt.owns = -1 THEN 0 ELSE QtWait]
    /\ UNCHANGED <<server, temporary, hist>>

\* The runtime finished while it was waited for.
Finished ==
    /\ qt.pc = "stopping" /\ runtime[qt.owns].pc \in Gone
    /\ qt' = [qt EXCEPT !.pc = qt.after, !.owns = -1, !.timer = 0]
    /\ UNCHANGED <<runtime, server, temporary, hist>>

\* Deviation: the application waits for the runtime without a limit, and
\* without the shutdown request having reached it.
KillNever ==
    /\ qt.pc = "stopping" /\ qt.timer = 0 /\ runtime[qt.owns].pc \notin Gone
    /\ qt' = [qt EXCEPT !.timer = QtWait]
    /\ UNCHANGED <<runtime, server, temporary, hist>>

\* It did not: it is killed, which runs none of its deferred calls.
Kill ==
    /\ qt.pc = "stopping" /\ qt.timer = 0 /\ runtime[qt.owns].pc \notin Gone
    /\ runtime' = [runtime EXCEPT ![qt.owns].pc = "killed", ![qt.owns].timer = 0]
    /\ qt' = [qt EXCEPT !.pc = qt.after, !.owns = -1, !.timer = 0,
                        !.events = IF @ = qt.owns THEN -1 ELSE @]
    /\ UNCHANGED <<server, temporary, hist>>

(******************************** Time *************************************)

TimedRuntime(i) == runtime[i].pc \in {"polling"} \cup Stopping
TimedQt == qt.pc \in {"probing", "stopping"}

\* Steps that wait for nobody.
Prompt(i) == runtime[i].pc \in {"starting", "listen"} \/ (Serving(i) /\ runtime[i].cancelled)

\* A second passes, unless some timeout has to be acted on first or a step
\* waits for nobody.  A runtime counts the seconds since it began to end.
Tick ==
    /\ TimedQt \/ \E i \in Launches : TimedRuntime(i)
    /\ qt.pc # "check" /\ \A i \in Launches : ~Prompt(i)
    /\ TimedQt => qt.timer > 0
    /\ \A i \in Launches : TimedRuntime(i) => runtime[i].timer > 0
    /\ qt' = [qt EXCEPT !.timer = IF TimedQt THEN @ - 1 ELSE @]
    /\ runtime' = [i \in Launches |->
                     [runtime[i] EXCEPT
                        !.timer = IF TimedRuntime(i) THEN @ - 1 ELSE @,
                        !.age = IF @ <= Drain + AskWait + DoneWait
                                   /\ runtime[i].pc \in Stopping THEN @ + 1 ELSE @]]
    /\ UNCHANGED <<server, temporary, hist>>

Runtime(i) ==
    \/ StartServer(i) \/ StartFails(i) \/ DialSucceeds(i) \/ NotReady(i) \/ Listen(i)
    \/ Cancelled(i) \/ Drained(i) \/ Asked(i) \/ ServerDone(i)

Application ==
    \/ CheckRuntime \/ Probe \/ ProbeGivesUp \/ Reconnect
    \/ Quit \/ Configure \/ ShutdownButton \/ Finished \/ Kill

Next ==
    \/ \E i \in Launches : Runtime(i) \/ ServerReady(i) \/ ServerEnds(i)
    \/ Signal \/ Application \/ Tick

Spec == Init /\ [][Next]_vars

\* Processes are scheduled, time passes, and a server told to end does end;
\* nobody has to quit.
Fairness ==
    /\ \A i \in Launches :
         /\ WF_vars(Runtime(i))
         /\ WF_vars(ServerEnds(i) /\ server[i] = "stopping")
    /\ WF_vars(CheckRuntime) /\ WF_vars(Probe) /\ WF_vars(ProbeGivesUp)
    /\ WF_vars(Finished) /\ WF_vars(Kill) /\ WF_vars(Tick)

LiveSpec == Spec /\ Fairness

-----------------------------------------------------------------------------

(* The variables have their types, every timer stays within the timeout of *)
(* the state it belongs to, and a process that waits for nothing has none. *)
TypeOK ==
    /\ qt.pc \in {"check", "probing", "connected", "gaveUp", "stopping", "quit"}
    /\ qt.owns \in -1 .. MaxLaunches /\ qt.events \in -1 .. MaxLaunches
    /\ qt.timer \in 0 .. (IF qt.pc = "probing" THEN ProbeWait
                          ELSE IF qt.pc = "stopping" THEN QtWait ELSE 0)
    /\ \A i \in Launches :
         /\ runtime[i].pc \in Gone \cup Stopping \cup {"starting", "polling", "listen", "serving"}
         /\ runtime[i].timer <= (CASE runtime[i].pc = "polling" -> ReadyWait
                                   [] runtime[i].pc = "draining" -> Drain
                                   [] runtime[i].pc = "asking" -> AskWait
                                   [] runtime[i].pc = "waiting" -> DoneWait
                                   [] OTHER -> 0)
         /\ server[i] \in {"none", "booting", "ready", "stopping", "dead"}

(* A runtime that ends by itself takes its local server and the temporary  *)
(* configuration with it: stopLocalServer asks, waits, kills and waits     *)
(* again.  The configuration of a server that never became ready may stay. *)
EndsWithItsServer ==
    \A i \in Launches : runtime[i].pc = "ended" =>
        /\ server[i] \in {"none", "dead"}
        /\ runtime[i].age > 0 => ~temporary[i]

(* However long its pages stay open and its server takes to end, a runtime *)
(* ends within the sum of its three timeouts: five seconds for the pages,  *)
(* two for the request and three for the server.                           *)
StopsInTime ==
    \A i \in Launches : runtime[i].age <= Drain + AskWait + DoneWait

(* Runtimes end in time and take their servers with them.                  *)
ProcessesSafety == TypeOK /\ EndsWithItsServer /\ StopsInTime

(* The application launches a runtime only when every runtime it launched  *)
(* before is gone: a change of mode stops, or kills, and waits first.      *)
LaunchedOneAtATime ==
    [][hist'.launched > hist.launched =>
         \A i \in DOMAIN runtime \ {0} : runtime[i].pc \in Gone]_vars

(* Whoever quits the application gets it quit, and no runtime it launched  *)
(* is left: stopRuntime waits, kills and waits.                            *)
QuitEnds ==
    (qt.pc = "stopping" /\ qt.after = "quit") ~>
        (qt.pc = "quit" /\ \A i \in Launches \ {0} : runtime[i].pc \in Gone)

(* README.md: the local server "shuts down with the application".  Once    *)
(* the application has quit and nothing it launched is still ending, no    *)
(* local server of a runtime that was told to end runs.                    *)
ShutsDownWithApplication ==
    (qt.pc = "quit" /\ \A i \in Launches \ {0} : runtime[i].pc \in Gone) =>
        \A i \in Launches \ {0} :
            runtime[i].cancelled => server[i] \in {"none", "stopping", "dead"}

(* "The Streamchat runtime did not start.": a runtime the application gave *)
(* up on does not start to serve afterwards.                               *)
GivenUpIsDown ==
    \A i \in hist.givenUp : i \in Launches => ~Serving(i)
=============================================================================
