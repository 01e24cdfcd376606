----------------------------- MODULE DesktopProofs -----------------------------
(***************************************************************************)
(* Proofs about the desktop client.  However often the application is      *)
(* started and whatever fails, a runtime that ends by itself has ended its *)
(* server, and in time, and no two that the application launched run at    *)
(* once (DesktopProcesses).  However many pages read, and however slowly,  *)
(* each is sent every message once and in order, and a state from the last *)
(* notifications (DesktopFeed), and the feed implements HistoryFanout.     *)
(* WellFoundedInduction is there for the order on numbers: what a fold     *)
(* over a sequence of events yields (MessageIds) is proved by counting up  *)
(* to its length.                                                          *)
(***************************************************************************)
EXTENDS Desktop, SequenceTheorems, WellFoundedInduction, TLAPS

-----------------------------------------------------------------------------
(* The processes: the inductive invariant of DesktopProcesses.             *)

QtStates == {"check", "probing", "connected", "gaveUp", "stopping", "quit"}
QtRecord ==
    [pc : QtStates, mode : Modes, owns : -1 .. MaxLaunches, events : -1 .. MaxLaunches,
     timer : Nat, after : {"check", "quit"}]
RuntimeStates == Gone \cup Stopping \cup {"starting", "polling", "listen", "serving"}
RuntimeRecord ==
    [pc : RuntimeStates, mode : Modes, cancelled : BOOLEAN, timer : Nat, age : Nat]
ServerStates == {"none", "booting", "ready", "stopping", "dead"}

ProcessShapes ==
    /\ runtime \in [Launches -> RuntimeRecord]
    /\ server \in [Launches -> ServerStates]
    /\ temporary \in [Launches -> BOOLEAN]

\* The application waits no longer than it may, and for a runtime it owns.
QtFits ==
    /\ qt \in QtRecord
    /\ qt.timer <= (IF qt.pc = "probing" THEN ProbeWait
                    ELSE IF qt.pc = "stopping" THEN QtWait ELSE 0)
    /\ qt.pc = "stopping" => qt.owns \in Launches

\* The time a runtime has taken to end and its timer add up to the timeouts of the
\* states it has come through.
InTime(r) ==
    /\ r.pc \in {"none", "starting", "polling", "listen", "serving"} => r.age = 0
    /\ r.pc = "polling" => r.timer <= ReadyWait
    /\ r.pc = "draining" => r.timer <= Drain /\ r.age + r.timer <= Drain
    /\ r.pc = "asking" => r.timer <= AskWait /\ r.age + r.timer <= Drain + AskWait
    /\ r.pc = "waiting" =>
         r.timer <= DoneWait /\ r.age + r.timer <= Drain + AskWait + DoneWait
    /\ r.pc \notin {"polling"} \cup Stopping => r.timer = 0
    /\ r.age <= Drain + AskWait + DoneWait

\* A runtime has a server only after it has started one, and the configuration only
\* with the server; one that ends by itself has seen to both.
Kept(r, s, t) ==
    /\ s = "none" => ~t
    /\ r.pc \in {"none", "starting"} => s = "none"
    /\ r.pc = "ended" => s \in {"none", "dead"}
    /\ r.pc = "ended" /\ r.age > 0 => ~t

HistRecord ==
    [launched : 0 .. MaxLaunches, faults : Nat, givenUp : SUBSET (-1 .. MaxLaunches)]

LaunchedInOrder ==
    /\ hist \in HistRecord
    /\ \A i \in Launches : i > hist.launched => runtime[i].pc = "none"

ProcessInv ==
    /\ ProcessShapes /\ QtFits /\ LaunchedInOrder
    /\ \A i \in Launches :
         InTime(runtime[i]) /\ Kept(runtime[i], server[i], temporary[i])

LEMMA ProcessInit ==
    ASSUME ConstantsOK, Init
    PROVE  ProcessInv
<1>1. MaxLaunches \in Nat /\ ProbeWait \in Nat /\ Drain \in Nat /\ AskWait \in Nat
      /\ DoneWait \in Nat
  BY DEF ConstantsOK
<1>2. QtFits
  BY <1>1 DEF Init, QtFits, QtRecord, QtStates, Modes
<1>3. PICK r \in {NoRuntime} \cup {Starting(mode) : mode \in Standalone} :
        runtime = [i \in Launches |-> IF i = 0 THEN r ELSE NoRuntime]
  BY DEF Init
<1>4. /\ NoRuntime \in RuntimeRecord /\ r \in RuntimeRecord
      /\ NoRuntime.pc = "none" /\ NoRuntime.timer = 0 /\ NoRuntime.age = 0
      /\ r.pc \in {"none", "starting"} /\ r.timer = 0 /\ r.age = 0
  <2>1. /\ NoRuntime \in RuntimeRecord
        /\ NoRuntime.pc = "none" /\ NoRuntime.timer = 0 /\ NoRuntime.age = 0
    BY DEF NoRuntime, RuntimeRecord, RuntimeStates, Gone, Modes
  <2>2. ASSUME NEW mode \in Modes
        PROVE  /\ Starting(mode) \in RuntimeRecord /\ Starting(mode).pc = "starting"
               /\ Starting(mode).timer = 0 /\ Starting(mode).age = 0
    BY <2>1, <2>2 DEF Starting, RuntimeRecord, RuntimeStates
  <2>3. Standalone \subseteq Modes
    BY DEF ConstantsOK, Modes
  <2>4. QED
    BY <2>1, <2>2, <2>3
<1>5. ProcessShapes
  BY <1>3, <1>4 DEF Init, ProcessShapes, ServerStates
<1>6. LaunchedInOrder
  BY <1>1, <1>3, <1>4 DEF Init, LaunchedInOrder, HistRecord, Launches
<1>7. ASSUME NEW i \in Launches
      PROVE  InTime(runtime[i]) /\ Kept(runtime[i], server[i], temporary[i])
  <2>1. runtime[i].pc \in {"none", "starting"} /\ runtime[i].timer = 0 /\ runtime[i].age = 0
    BY <1>3, <1>4
  <2>2. server[i] = "none" /\ ~temporary[i]
    BY DEF Init
  <2>3. QED
    BY <1>1, <2>1, <2>2 DEF InTime, Kept, Stopping
<1>8. QED
  BY <1>2, <1>5, <1>6, <1>7 DEF ProcessInv

-----------------------------------------------------------------------------
(* Steps of the processes.                                                 *)

TimesAreNumbers ==
    /\ MaxLaunches \in Nat /\ ProbeWait \in Nat /\ QtWait \in Nat /\ ReadyWait \in Nat
    /\ Drain \in Nat /\ AskWait \in Nat /\ DoneWait \in Nat

LEMMA Numbers ==
    ASSUME ConstantsOK
    PROVE  TimesAreNumbers
BY DEF ConstantsOK, TimesAreNumbers

\* One runtime, its server and its configuration change, if anything does.
Becomes(i, r, s, t) ==
    /\ runtime' = [runtime EXCEPT ![i] = r] \/ (UNCHANGED runtime /\ r = runtime[i])
    /\ server' = [server EXCEPT ![i] = s] \/ (UNCHANGED server /\ s = server[i])
    /\ \/ temporary' = [temporary EXCEPT ![i] = t]
       \/ UNCHANGED temporary /\ t = temporary[i]

\* At most one more fault.
AtMostAFault == hist' = hist \/ hist' = [hist EXCEPT !.faults = @ + 1]

LEMMA OneChanges ==
    ASSUME ConstantsOK, ProcessInv, NEW i \in Launches,
           NEW r \in RuntimeRecord, NEW s \in ServerStates, NEW t \in BOOLEAN,
           Becomes(i, r, s, t), InTime(r), Kept(r, s, t),
           runtime[i].pc # "none" \/ r.pc = "none",
           AtMostAFault, QtFits'
    PROVE  ProcessInv'
<1>1. /\ runtime \in [Launches -> RuntimeRecord] /\ server \in [Launches -> ServerStates]
      /\ temporary \in [Launches -> BOOLEAN]
  BY DEF ProcessInv, ProcessShapes
<1>2. /\ runtime'[i] = r /\ server'[i] = s /\ temporary'[i] = t
      /\ \A j \in Launches \ {i} :
           runtime'[j] = runtime[j] /\ server'[j] = server[j] /\ temporary'[j] = temporary[j]
  BY <1>1 DEF Becomes
<1>3. ProcessShapes'
  BY <1>1 DEF ProcessShapes, Becomes
<1>4. LaunchedInOrder'
  <2>1. \A j \in Launches : j > hist.launched => runtime[j].pc = "none"
    BY DEF ProcessInv, LaunchedInOrder
  <2>2. \A j \in Launches : j > hist.launched => runtime'[j].pc = "none"
    BY <1>2, <2>1
  <2>3. hist' \in HistRecord /\ hist'.launched = hist.launched
    BY DEF ProcessInv, LaunchedInOrder, HistRecord, AtMostAFault
  <2>4. QED
    BY <2>2, <2>3 DEF LaunchedInOrder
<1>5. ASSUME NEW j \in Launches
      PROVE  InTime(runtime'[j]) /\ Kept(runtime'[j], server'[j], temporary'[j])
  BY <1>2 DEF ProcessInv
<1>6. QED
  BY <1>3, <1>4, <1>5 DEF ProcessInv

\* What a record of a runtime is made of.
LEMMA RuntimeFields ==
    ASSUME NEW r \in RuntimeRecord
    PROVE  /\ r.pc \in RuntimeStates /\ r.timer \in Nat /\ r.age \in Nat
           /\ \A pc \in RuntimeStates, n \in Nat :
                [r EXCEPT !.pc = pc, !.timer = n] \in RuntimeRecord
BY DEF RuntimeRecord

\* The record of a runtime that goes on to another state with another timer.
Goes(r, pc, timer) == [r EXCEPT !.pc = pc, !.timer = timer]

LEMMA GoesOn ==
    ASSUME NEW r \in RuntimeRecord, NEW pc \in RuntimeStates, NEW n \in Nat
    PROVE  /\ Goes(r, pc, n) \in RuntimeRecord
           /\ Goes(r, pc, n).pc = pc /\ Goes(r, pc, n).timer = n
           /\ Goes(r, pc, n).age = r.age
BY DEF Goes, RuntimeRecord

\* Nothing but the event stream changes in what the application knows.
LEMMA StreamEnds ==
    ASSUME QtFits, MaxLaunches \in Nat,
           \/ qt' = qt
           \/ \E i \in Launches : qt' = [qt EXCEPT !.events = IF @ = i THEN -1 ELSE @]
    PROVE  QtFits'
<1>1. CASE qt' = qt
  BY <1>1 DEF QtFits
<1>2. ASSUME NEW i \in Launches,
             qt' = [qt EXCEPT !.events = IF @ = i THEN -1 ELSE @]
      PROVE  QtFits'
  <2>. DEFINE stream == IF qt.events = i THEN -1 ELSE qt.events
  <2>1. stream \in -1 .. MaxLaunches
    BY DEF QtFits, QtRecord
  <2>2. qt' = [qt EXCEPT !.events = stream]
    BY <1>2 DEF QtFits, QtRecord
  <2>. HIDE DEF stream
  <2>3. QED
    BY <2>1, <2>2 DEF QtFits, QtRecord
<1>3. QED
  BY <1>1, <1>2

LEMMA StartServerKeeps ==
    ASSUME ConstantsOK, ProcessInv, NEW i \in Launches, StartServer(i)
    PROVE  ProcessInv'
<1>1. /\ TimesAreNumbers /\ ProcessShapes /\ QtFits
      /\ InTime(runtime[i]) /\ Kept(runtime[i], server[i], temporary[i])
  BY Numbers DEF ProcessInv
<1>2. /\ runtime[i] \in RuntimeRecord /\ runtime[i].pc = "starting"
      /\ server[i] \in ServerStates /\ temporary[i] \in BOOLEAN
      /\ UNCHANGED <<qt, hist>>
  BY <1>1 DEF ProcessShapes, StartServer
<1>3. QtFits'
  BY <1>1, <1>2 DEF QtFits
<1>4. runtime[i].age = 0 /\ runtime[i].timer = 0 /\ server[i] = "none" /\ ~temporary[i]
  BY <1>1, <1>2 DEF InTime, Kept, Stopping
<1>5. CASE runtime[i].mode = "local"
  <2>. DEFINE r == Goes(runtime[i], "polling", ReadyWait)
  <2>1. r \in RuntimeRecord /\ r.pc = "polling" /\ r.timer = ReadyWait /\ r.age = 0
    BY <1>1, <1>2, <1>4, GoesOn DEF TimesAreNumbers, RuntimeStates
  <2>2. runtime' = [runtime EXCEPT ![i] = r]
    BY <1>1, <1>5 DEF StartServer, ProcessShapes, Goes
  <2>. HIDE DEF r
  <2>3. Becomes(i, r, "booting", TRUE)
    BY <1>5, <2>2 DEF StartServer, Becomes
  <2>4. InTime(r) /\ Kept(r, "booting", TRUE)
    BY <1>1, <2>1 DEF InTime, Kept, TimesAreNumbers, Stopping
  <2>5. "booting" \in ServerStates
    BY DEF ServerStates
  <2>6. QED
    BY <1>2, <1>3, <2>1, <2>3, <2>4, <2>5, OneChanges DEF AtMostAFault
<1>6. CASE runtime[i].mode # "local"
  <2>. DEFINE r == [runtime[i] EXCEPT !.pc = "listen"]
  <2>1. r \in RuntimeRecord /\ r.pc = "listen" /\ r.timer = 0 /\ r.age = 0
    BY <1>2, <1>4 DEF RuntimeRecord, RuntimeStates
  <2>2. runtime' = [runtime EXCEPT ![i] = r]
    BY <1>1, <1>6 DEF StartServer, ProcessShapes
  <2>. HIDE DEF r
  <2>3. Becomes(i, r, server[i], temporary[i])
    BY <1>6, <2>2 DEF StartServer, Becomes
  <2>4. InTime(r) /\ Kept(r, server[i], temporary[i])
    BY <1>1, <1>4, <2>1 DEF InTime, Kept, TimesAreNumbers, Stopping
  <2>5. QED
    BY <1>2, <1>3, <2>1, <2>3, <2>4, OneChanges DEF AtMostAFault
<1>7. QED
  BY <1>5, <1>6

\* A runtime ends by itself: its server has ended, and its configuration is gone
\* unless it never began to stop.
LEMMA EndsKeeps ==
    ASSUME ConstantsOK, ProcessInv, NEW i \in Launches, Ends(i, "ended"),
           runtime[i].pc # "none", AtMostAFault,
           NEW s \in ServerStates, NEW t \in BOOLEAN, s \in {"none", "dead"},
           s = "none" => ~t, runtime[i].age > 0 => ~t,
           server' = [server EXCEPT ![i] = s] \/ (UNCHANGED server /\ s = server[i]),
           \/ temporary' = [temporary EXCEPT ![i] = t]
           \/ UNCHANGED temporary /\ t = temporary[i]
    PROVE  ProcessInv'
<1>. DEFINE r == Goes(runtime[i], "ended", 0)
<1>1. /\ TimesAreNumbers /\ ProcessShapes /\ QtFits /\ InTime(runtime[i])
      /\ runtime[i] \in RuntimeRecord
  BY Numbers DEF ProcessInv, ProcessShapes
<1>2. r \in RuntimeRecord /\ r.pc = "ended" /\ r.timer = 0 /\ r.age = runtime[i].age
  BY <1>1, GoesOn DEF RuntimeStates, Gone
<1>3. runtime' = [runtime EXCEPT ![i] = r]
  <2>1. runtime' = [runtime EXCEPT ![i].pc = "ended", ![i].timer = 0]
    BY DEF Ends
  <2>2. QED
    BY <1>1, <2>1 DEF ProcessShapes, Goes
<1>4. QtFits'
  BY <1>1, StreamEnds DEF Ends, TimesAreNumbers
<1>. HIDE DEF r
<1>5. InTime(r) /\ Kept(r, s, t)
  BY <1>1, <1>2 DEF InTime, Kept, Stopping
<1>6. Becomes(i, r, s, t)
  BY <1>3 DEF Becomes
<1>7. QED
  BY <1>2, <1>4, <1>5, <1>6, OneChanges DEF AtMostAFault

LEMMA EndingKeeps ==
    ASSUME ConstantsOK, ProcessInv, NEW i \in Launches,
           StartFails(i) \/ NotReady(i) \/ ServerDone(i)
    PROVE  ProcessInv'
<1>1. /\ TimesAreNumbers /\ ProcessShapes
      /\ InTime(runtime[i]) /\ Kept(runtime[i], server[i], temporary[i])
      /\ server[i] \in ServerStates /\ temporary[i] \in BOOLEAN
  BY Numbers DEF ProcessInv, ProcessShapes
<1>2. CASE StartFails(i)
  <2>1. /\ runtime[i].pc = "starting" /\ Ends(i, "ended") /\ UNCHANGED <<server, temporary>>
        /\ AtMostAFault
    BY <1>2 DEF StartFails, AtMostAFault
  <2>2. server[i] = "none" /\ ~temporary[i]
    BY <1>1, <2>1 DEF Kept
  <2>3. QED
    BY <1>1, <2>1, <2>2, EndsKeeps DEF AtMostAFault
<1>3. CASE NotReady(i)
  <2>1. /\ runtime[i].pc = "polling" /\ Ends(i, "ended") /\ UNCHANGED hist
        /\ server' = [server EXCEPT ![i] = "dead"]
    BY <1>3 DEF NotReady
  <2>2. PICK removed \in BOOLEAN : temporary' = [temporary EXCEPT ![i] = @ /\ ~removed]
    BY <1>3 DEF NotReady
  <2>. DEFINE t == temporary[i] /\ ~removed
  <2>3. t \in BOOLEAN
    OBVIOUS
  <2>4. temporary' = [temporary EXCEPT ![i] = t]
    BY <2>2
  <2>. HIDE DEF t
  <2>5. runtime[i].age = 0 /\ "dead" \in ServerStates
    BY <1>1, <2>1 DEF InTime, ServerStates
  <2>6. ~(runtime[i].age > 0)
    BY <2>5
  <2>7. QED
    BY <2>1, <2>3, <2>4, <2>5, <2>6, EndsKeeps DEF AtMostAFault
<1>4. CASE ServerDone(i)
  <2>1. /\ runtime[i].pc = "waiting" /\ Ends(i, "ended") /\ UNCHANGED hist
        /\ server' = [server EXCEPT ![i] = "dead"]
        /\ temporary' = [temporary EXCEPT ![i] = FALSE]
    BY <1>4 DEF ServerDone
  <2>2. "dead" \in ServerStates
    BY DEF ServerStates
  <2>3. QED
    BY <2>1, <2>2, EndsKeeps DEF AtMostAFault
<1>5. QED
  BY <1>2, <1>3, <1>4

\* Return, from a state in which the sum of age and timers leaves room.
LEMMA ReturnKeeps ==
    ASSUME ConstantsOK, ProcessInv, NEW i \in Launches, Return(i),
           UNCHANGED <<server, temporary, hist>>,
           runtime[i].pc \in {"listen", "draining"}
    PROVE  ProcessInv'
<1>1. /\ TimesAreNumbers /\ ProcessShapes /\ QtFits
      /\ InTime(runtime[i]) /\ Kept(runtime[i], server[i], temporary[i])
      /\ runtime[i] \in RuntimeRecord /\ server[i] \in ServerStates /\ temporary[i] \in BOOLEAN
  BY Numbers DEF ProcessInv, ProcessShapes
<1>2. CASE server[i] = "none"
  <2>1. Ends(i, "ended") /\ ~temporary[i]
    BY <1>1, <1>2 DEF Return, Kept
  <2>2. QED
    BY <1>1, <1>2, <2>1, EndsKeeps DEF AtMostAFault
<1>3. CASE server[i] # "none"
  <2>. DEFINE r == Goes(runtime[i], "asking", AskWait)
  <2>1. r \in RuntimeRecord /\ r.pc = "asking" /\ r.timer = AskWait /\ r.age = runtime[i].age
    BY <1>1, GoesOn DEF TimesAreNumbers, RuntimeStates, Stopping
  <2>2. runtime' = [runtime EXCEPT ![i] = r] /\ UNCHANGED qt
    BY <1>1, <1>3 DEF Return, ProcessShapes, Goes
  <2>. HIDE DEF r
  <2>3. runtime[i].age \in Nat /\ runtime[i].timer \in Nat
    BY <1>1, RuntimeFields
  <2>4. runtime[i].age <= Drain
    BY <1>1, <2>3 DEF InTime, TimesAreNumbers
  <2>5. InTime(r) /\ Kept(r, server[i], temporary[i])
    BY <1>1, <1>3, <2>1, <2>3, <2>4 DEF InTime, Kept, TimesAreNumbers, Stopping
  <2>6. Becomes(i, r, server[i], temporary[i]) /\ QtFits'
    BY <1>1, <2>2 DEF Becomes, QtFits
  <2>7. QED
    BY <1>1, <2>1, <2>5, <2>6, OneChanges DEF AtMostAFault
<1>4. QED
  BY <1>2, <1>3

\* A runtime comes to another state, for the time that state takes.
LEMMA PassesKeeps ==
    ASSUME ConstantsOK, ProcessInv, NEW i \in Launches,
           DialSucceeds(i) \/ Cancelled(i) \/ Drained(i) \/ Listen(i)
    PROVE  ProcessInv'
<1>1. /\ TimesAreNumbers /\ ProcessShapes /\ QtFits
      /\ InTime(runtime[i]) /\ Kept(runtime[i], server[i], temporary[i])
      /\ runtime[i] \in RuntimeRecord /\ server[i] \in ServerStates /\ temporary[i] \in BOOLEAN
  BY Numbers DEF ProcessInv, ProcessShapes
<1>2. ASSUME NEW r \in RuntimeRecord, runtime' = [runtime EXCEPT ![i] = r],
             UNCHANGED <<qt, server, temporary, hist>>, InTime(r),
             runtime[i].pc \notin {"none", "starting"}, r.pc \notin {"none", "starting", "ended"}
      PROVE  ProcessInv'
  <2>1. Kept(r, server[i], temporary[i])
    BY <1>1, <1>2 DEF Kept
  <2>2. Becomes(i, r, server[i], temporary[i]) /\ QtFits'
    BY <1>1, <1>2 DEF Becomes, QtFits
  <2>3. QED
    BY <1>1, <1>2, <2>1, <2>2, OneChanges DEF AtMostAFault
<1>3. CASE DialSucceeds(i)
  <2>. DEFINE r == Goes(runtime[i], "listen", 0)
  <2>1. /\ runtime[i].pc = "polling" /\ UNCHANGED <<qt, server, temporary, hist>>
        /\ runtime' = [runtime EXCEPT ![i].pc = "listen", ![i].timer = 0]
    BY <1>3 DEF DialSucceeds
  <2>2. r \in RuntimeRecord /\ r.pc = "listen" /\ r.timer = 0 /\ r.age = runtime[i].age
    BY <1>1, GoesOn, SMTT(30) DEF RuntimeStates
  <2>3. runtime' = [runtime EXCEPT ![i] = r]
    BY <1>1, <2>1 DEF ProcessShapes, Goes
  <2>. HIDE DEF r
  <2>4. InTime(r)
    BY <1>1, <2>1, <2>2 DEF InTime, Stopping
  <2>5. QED
    BY <1>2, <2>1, <2>2, <2>3, <2>4
<1>4. CASE Cancelled(i)
  <2>. DEFINE r == Goes(runtime[i], "draining", Drain)
  <2>1. /\ runtime[i].pc = "serving" /\ UNCHANGED <<qt, server, temporary, hist>>
        /\ runtime' = [runtime EXCEPT ![i].pc = "draining", ![i].timer = Drain]
    BY <1>4 DEF Cancelled, Serving
  <2>2. r \in RuntimeRecord /\ r.pc = "draining" /\ r.timer = Drain /\ r.age = runtime[i].age
    BY <1>1, GoesOn DEF RuntimeStates, Stopping, TimesAreNumbers
  <2>3. runtime' = [runtime EXCEPT ![i] = r]
    BY <1>1, <2>1 DEF ProcessShapes, Goes
  <2>. HIDE DEF r
  <2>4. InTime(r)
    BY <1>1, <2>1, <2>2 DEF InTime, Stopping, TimesAreNumbers
  <2>5. QED
    BY <1>2, <2>1, <2>2, <2>3, <2>4
<1>5. CASE Drained(i)
  BY <1>5, ReturnKeeps DEF Drained
<1>6. CASE Listen(i)
  <2>1. CASE Return(i)
    BY <1>6, <2>1, ReturnKeeps DEF Listen
  <2>2. CASE ~Return(i)
    <3>. DEFINE r == [runtime[i] EXCEPT !.pc = "serving"]
    <3>1. /\ runtime[i].pc = "listen" /\ UNCHANGED <<qt, server, temporary, hist>>
          /\ runtime' = [runtime EXCEPT ![i].pc = "serving"]
      BY <1>6, <2>2 DEF Listen
    <3>2. r \in RuntimeRecord /\ r.pc = "serving" /\ r.timer = runtime[i].timer
          /\ r.age = runtime[i].age
      BY <1>1 DEF RuntimeRecord, RuntimeStates
    <3>3. runtime' = [runtime EXCEPT ![i] = r]
      BY <1>1, <3>1 DEF ProcessShapes
    <3>. HIDE DEF r
    <3>4. InTime(r)
      BY <1>1, <3>1, <3>2 DEF InTime, Stopping
    <3>5. QED
      BY <1>2, <3>1, <3>2, <3>3, <3>4
  <2>3. QED
    BY <2>1, <2>2
<1>7. QED
  BY <1>3, <1>4, <1>5, <1>6

LEMMA AskedKeeps ==
    ASSUME ConstantsOK, ProcessInv, NEW i \in Launches, Asked(i)
    PROVE  ProcessInv'
<1>1. /\ TimesAreNumbers /\ ProcessShapes /\ QtFits
      /\ InTime(runtime[i]) /\ Kept(runtime[i], server[i], temporary[i])
      /\ runtime[i] \in RuntimeRecord /\ server[i] \in ServerStates /\ temporary[i] \in BOOLEAN
  BY Numbers DEF ProcessInv, ProcessShapes
<1>. DEFINE r == Goes(runtime[i], "waiting", DoneWait)
<1>2. /\ runtime[i].pc = "asking" /\ UNCHANGED <<qt, temporary, hist>>
      /\ runtime' = [runtime EXCEPT ![i].pc = "waiting", ![i].timer = DoneWait]
      /\ \/ server[i] # "none" /\ server' = [server EXCEPT ![i] = "stopping"]
         \/ UNCHANGED server
  BY DEF Asked
<1>3. r \in RuntimeRecord /\ r.pc = "waiting" /\ r.timer = DoneWait /\ r.age = runtime[i].age
  <2>1. "waiting" \in RuntimeStates
    BY DEF RuntimeStates, Stopping
  <2>2. runtime[i] \in RuntimeRecord /\ DoneWait \in Nat
    BY <1>1 DEF TimesAreNumbers
  <2>3. QED
    BY <2>1, <2>2, GoesOn
<1>4. runtime' = [runtime EXCEPT ![i] = r]
  BY <1>1, <1>2 DEF ProcessShapes, Goes
<1>. HIDE DEF r
<1>5. runtime[i].age \in Nat /\ runtime[i].timer \in Nat
  BY <1>1, RuntimeFields
<1>6. runtime[i].age <= Drain + AskWait
  BY <1>1, <1>2, <1>5 DEF InTime, TimesAreNumbers
<1>7. InTime(r)
  BY <1>1, <1>3, <1>5, <1>6 DEF InTime, Stopping, TimesAreNumbers
<1>8. QtFits'
  BY <1>1, <1>2 DEF QtFits
<1>9. CASE UNCHANGED server
  <2>1. Becomes(i, r, server[i], temporary[i]) /\ Kept(r, server[i], temporary[i])
    BY <1>1, <1>2, <1>3, <1>4, <1>9 DEF Becomes, Kept
  <2>2. QED
    BY <1>1, <1>2, <1>3, <1>7, <1>8, <2>1, OneChanges DEF AtMostAFault
<1>10. CASE server[i] # "none" /\ server' = [server EXCEPT ![i] = "stopping"]
  <2>1. Becomes(i, r, "stopping", temporary[i]) /\ Kept(r, "stopping", temporary[i])
    BY <1>1, <1>2, <1>3, <1>4, <1>10 DEF Becomes, Kept
  <2>2. "stopping" \in ServerStates
    BY DEF ServerStates
  <2>3. QED
    BY <1>1, <1>2, <1>3, <1>7, <1>8, <2>1, <2>2, OneChanges DEF AtMostAFault
<1>11. QED
  BY <1>2, <1>9, <1>10

LEMMA ServerKeeps ==
    ASSUME ConstantsOK, ProcessInv, NEW i \in Launches, ServerReady(i) \/ ServerEnds(i)
    PROVE  ProcessInv'
<1>1. /\ TimesAreNumbers /\ ProcessShapes /\ QtFits
      /\ InTime(runtime[i]) /\ Kept(runtime[i], server[i], temporary[i])
      /\ runtime[i] \in RuntimeRecord /\ server[i] \in ServerStates /\ temporary[i] \in BOOLEAN
  BY Numbers DEF ProcessInv, ProcessShapes
<1>2. /\ server[i] \in {"booting", "ready", "stopping"} /\ UNCHANGED <<qt, runtime>>
      /\ AtMostAFault
  BY DEF ServerReady, ServerEnds, AtMostAFault
<1>3. runtime[i].pc \notin {"none", "starting", "ended"}
  BY <1>1, <1>2 DEF Kept
<1>4. QtFits'
  BY <1>1, <1>2 DEF QtFits
<1>5. CASE ServerReady(i)
  <2>1. Becomes(i, runtime[i], "ready", temporary[i])
    BY <1>2, <1>5 DEF ServerReady, Becomes
  <2>2. Kept(runtime[i], "ready", temporary[i]) /\ "ready" \in ServerStates
    BY <1>3 DEF Kept, ServerStates
  <2>3. QED
    BY <1>1, <1>2, <1>4, <2>1, <2>2, <1>3, OneChanges DEF AtMostAFault
<1>6. CASE ServerEnds(i)
  <2>. DEFINE t == temporary[i] /\ runtime[i].pc \in Gone
  <2>1. t \in BOOLEAN
    OBVIOUS
  <2>2. server' = [server EXCEPT ![i] = "dead"] /\ temporary' = [temporary EXCEPT ![i] = t]
    BY <1>6 DEF ServerEnds
  <2>. HIDE DEF t
  <2>3. Becomes(i, runtime[i], "dead", t)
    BY <1>2, <2>2 DEF Becomes
  <2>4. Kept(runtime[i], "dead", t) /\ "dead" \in ServerStates
    BY <1>3 DEF Kept, ServerStates
  <2>5. QED
    BY <1>1, <1>2, <1>3, <1>4, <2>1, <2>3, <2>4, OneChanges DEF AtMostAFault
<1>7. QED
  BY <1>5, <1>6

-----------------------------------------------------------------------------
(* Steps of the application.                                               *)

\* What the application does next, without a word to the runtimes or to tell them
\* that they are cancelled.
SameButCancelled ==
    /\ runtime' \in [Launches -> RuntimeRecord]
    /\ \A i \in Launches :
         /\ runtime'[i].pc = runtime[i].pc /\ runtime'[i].timer = runtime[i].timer
         /\ runtime'[i].age = runtime[i].age

LEMMA ApplicationOnly ==
    ASSUME ConstantsOK, ProcessInv, SameButCancelled, UNCHANGED <<server, temporary>>,
           hist' \in HistRecord, hist'.launched = hist.launched, QtFits'
    PROVE  ProcessInv'
<1>1. ProcessShapes'
  BY DEF ProcessInv, ProcessShapes, SameButCancelled
<1>2. LaunchedInOrder'
  BY DEF ProcessInv, LaunchedInOrder, SameButCancelled
<1>3. ASSUME NEW i \in Launches
      PROVE  InTime(runtime'[i]) /\ Kept(runtime'[i], server'[i], temporary'[i])
  <2>1. InTime(runtime[i]) /\ Kept(runtime[i], server[i], temporary[i])
    BY DEF ProcessInv
  <2>2. /\ runtime'[i].pc = runtime[i].pc /\ runtime'[i].timer = runtime[i].timer
        /\ runtime'[i].age = runtime[i].age
    BY DEF SameButCancelled
  <2>3. InTime(runtime'[i])
    BY <2>1, <2>2 DEF InTime
  <2>4. Kept(runtime'[i], server'[i], temporary'[i])
    BY <2>1, <2>2 DEF Kept
  <2>5. QED
    BY <2>3, <2>4
<1>4. QED
  BY <1>1, <1>2, <1>3 DEF ProcessInv

LEMMA Unchanged ==
    ASSUME ProcessInv, UNCHANGED runtime
    PROVE  SameButCancelled
BY DEF ProcessInv, ProcessShapes, SameButCancelled

\* A runtime that serves is told to end.
LEMMA CancelsOnly ==
    ASSUME ProcessInv,
           \/ \E i \in Launches : runtime' = [runtime EXCEPT ![i].cancelled = TRUE]
           \/ runtime' = [i \in Launches |->
                            [runtime[i] EXCEPT !.cancelled = @ \/ Serving(i)]]
    PROVE  SameButCancelled
<1>1. runtime \in [Launches -> RuntimeRecord]
  BY DEF ProcessInv, ProcessShapes
<1>2. ASSUME NEW i \in Launches, runtime' = [runtime EXCEPT ![i].cancelled = TRUE]
      PROVE  SameButCancelled
  <2>. DEFINE told == [runtime[i] EXCEPT !.cancelled = TRUE]
  <2>1. /\ told \in RuntimeRecord /\ told.pc = runtime[i].pc
        /\ told.timer = runtime[i].timer /\ told.age = runtime[i].age
    <3>1. runtime[i] \in RuntimeRecord
      BY <1>1
    <3>2. QED
      BY <3>1, ZenonT(30) DEF RuntimeRecord
  <2>2. runtime' = [runtime EXCEPT ![i] = told]
    BY <1>1, <1>2
  <2>. HIDE DEF told
  <2>3. QED
    BY <1>1, <1>2, <2>1, <2>2 DEF SameButCancelled
<1>3. ASSUME runtime' = [i \in Launches |->
                           [runtime[i] EXCEPT !.cancelled = @ \/ Serving(i)]]
      PROVE  SameButCancelled
  <2>. DEFINE told(i) == runtime[i].cancelled \/ Serving(i)
  <2>1. \A i \in Launches : told(i) \in BOOLEAN
    OBVIOUS
  <2>2. runtime' = [i \in Launches |-> [runtime[i] EXCEPT !.cancelled = told(i)]]
    BY <1>1, <1>3 DEF RuntimeRecord
  <2>. HIDE DEF told
  <2>3. QED
    BY <1>1, <2>1, <2>2 DEF SameButCancelled, RuntimeRecord
<1>4. QED
  BY <1>2, <1>3

LEMMA SignalKeeps ==
    ASSUME ConstantsOK, ProcessInv, Signal
    PROVE  ProcessInv'
<1>1. 0 \in Launches
  BY Numbers DEF Launches, TimesAreNumbers
<1>2. /\ runtime' = [runtime EXCEPT ![0].cancelled = TRUE]
      /\ UNCHANGED <<qt, server, temporary, hist>>
  BY DEF Signal
<1>3. SameButCancelled
  BY <1>1, <1>2, CancelsOnly
<1>4. QtFits' /\ hist' \in HistRecord
  BY <1>2 DEF ProcessInv, QtFits, LaunchedInOrder
<1>5. QED
  BY <1>2, <1>3, <1>4, ApplicationOnly

\* The application connects, gives up or goes on without the runtimes.
LEMMA LooksKeeps ==
    ASSUME ConstantsOK, ProcessInv,
           Probe \/ ProbeGivesUp \/ Reconnect \/ Finished
           \/ ((\E i \in Launches : Serving(i)) /\ CheckRuntime)
    PROVE  ProcessInv'
<1>1. /\ TimesAreNumbers /\ qt \in QtRecord /\ QtFits /\ hist \in HistRecord
      /\ Launches \subseteq -1 .. MaxLaunches
  BY Numbers DEF ProcessInv, QtFits, LaunchedInOrder, Launches, TimesAreNumbers
<1>2. UNCHANGED <<runtime, server, temporary>>
  BY DEF Probe, ProbeGivesUp, Reconnect, Finished, CheckRuntime
<1>3. hist' \in HistRecord /\ hist'.launched = hist.launched
  <2>1. CASE UNCHANGED hist
    BY <1>1, <2>1
  <2>2. CASE hist' = [hist EXCEPT !.givenUp = @ \cup {qt.owns}]
    BY <1>1, <2>2 DEF HistRecord, QtRecord
  <2>3. QED
    BY <2>1, <2>2 DEF Probe, ProbeGivesUp, Reconnect, Finished, CheckRuntime
<1>4. QtFits'
  <2>1. CASE Probe
    <3>1. PICK i \in Launches : qt' = [qt EXCEPT !.pc = "connected", !.events = i, !.timer = 0]
      BY <2>1 DEF Probe
    <3>2. qt' \in QtRecord /\ qt'.pc = "connected" /\ qt'.timer = 0
      BY <1>1, <3>1 DEF QtRecord, QtStates
    <3>3. QED
      BY <3>2 DEF QtFits
  <2>2. CASE ProbeGivesUp
    BY <1>1, <2>2 DEF ProbeGivesUp, QtFits, QtRecord, QtStates
  <2>3. CASE Reconnect
    BY <1>1, <2>3 DEF Reconnect, QtFits, QtRecord, QtStates
  <2>4. CASE Finished
    <3>1. qt' = [qt EXCEPT !.pc = qt.after, !.owns = -1, !.timer = 0]
      BY <2>4 DEF Finished
    <3>2. qt.after \in QtStates \ {"stopping"} /\ -1 \in -1 .. MaxLaunches
      BY <1>1 DEF QtRecord, QtStates, TimesAreNumbers
    <3>3. qt' \in QtRecord /\ qt'.pc = qt.after /\ qt'.timer = 0
      BY <1>1, <3>1, <3>2 DEF QtRecord
    <3>4. QED
      BY <1>1, <3>2, <3>3 DEF QtFits, TimesAreNumbers
  <2>5. CASE (\E i \in Launches : Serving(i)) /\ CheckRuntime
    BY <1>1, <2>5 DEF CheckRuntime, QtFits, QtRecord, QtStates
  <2>6. QED
    BY <2>1, <2>2, <2>3, <2>4, <2>5
<1>5. QED
  BY <1>2, <1>3, <1>4, ApplicationOnly, Unchanged

LEMMA StopKeeps ==
    ASSUME ConstantsOK, ProcessInv, Quit \/ Configure \/ ShutdownButton
    PROVE  ProcessInv'
<1>1. /\ TimesAreNumbers /\ qt \in QtRecord /\ QtFits /\ hist \in HistRecord
      /\ Launches \subseteq -1 .. MaxLaunches
  BY Numbers DEF ProcessInv, QtFits, LaunchedInOrder, Launches, TimesAreNumbers
<1>2. qt.owns # -1 => qt.owns \in Launches
  BY <1>1 DEF QtRecord, Launches, TimesAreNumbers
<1>3. ASSUME NEW after \in {"check", "quit"}, NEW events \in -1 .. MaxLaunches,
             NEW mode \in Modes, StopRuntime(after, events, mode)
      PROVE  ProcessInv'
  <2>1. CASE qt.owns = -1
    <3>1. /\ UNCHANGED <<runtime, server, temporary, hist>>
          /\ qt' = [qt EXCEPT !.pc = after, !.events = events, !.mode = mode, !.timer = 0]
      BY <1>3, <2>1 DEF StopRuntime
    <3>2. QtFits'
      <4>1. qt' \in QtRecord /\ qt'.pc \in {"check", "quit"} /\ qt'.timer = 0
        BY <1>1, <3>1 DEF QtRecord, QtStates
      <4>2. QED
        BY <1>1, <4>1 DEF QtFits, TimesAreNumbers
    <3>3. QED
      BY <1>1, <3>1, <3>2, ApplicationOnly, Unchanged
  <2>2. CASE qt.owns # -1
    <3>1. /\ UNCHANGED <<server, temporary, hist>>
          /\ qt' = [qt EXCEPT !.pc = "stopping", !.after = after, !.events = events,
                              !.mode = mode, !.timer = QtWait]
          /\ runtime' = [i \in Launches |->
                           [runtime[i] EXCEPT !.cancelled = @ \/ Serving(i)]]
      BY <1>3, <2>2 DEF StopRuntime
    <3>2. QtFits'
      <4>1. /\ qt'.pc = "stopping" /\ qt'.timer = QtWait /\ qt'.owns = qt.owns
            /\ qt' \in QtRecord
        BY <1>1, <3>1 DEF QtRecord, QtStates, TimesAreNumbers
      <4>2. QED
        BY <1>1, <1>2, <2>2, <4>1 DEF QtFits, TimesAreNumbers
    <3>3. QED
      BY <1>1, <3>1, <3>2, ApplicationOnly, CancelsOnly
  <2>3. QED
    BY <2>1, <2>2
<1>4. CASE Quit
  BY <1>1, <1>3, <1>4 DEF Quit, QtRecord
<1>5. CASE Configure
  BY <1>1, <1>3, <1>5 DEF Configure, TimesAreNumbers
<1>6. CASE ShutdownButton
  <2>1. /\ UNCHANGED <<server, temporary, hist>>
        /\ \E i \in Launches : runtime' = [runtime EXCEPT ![i].cancelled = TRUE]
        /\ qt' = [qt EXCEPT !.pc = IF qt.owns = -1 THEN "quit" ELSE "stopping",
                            !.after = "quit", !.timer = IF qt.owns = -1 THEN 0 ELSE QtWait]
    BY <1>6 DEF ShutdownButton
  <2>2. QtFits'
    <3>1. CASE qt.owns = -1
      <4>1. qt' = [qt EXCEPT !.pc = "quit", !.after = "quit", !.timer = 0]
        BY <2>1, <3>1
      <4>2. qt' \in QtRecord /\ qt'.pc = "quit" /\ qt'.timer = 0
        BY <1>1, <4>1 DEF QtRecord, QtStates
      <4>3. QED
        BY <1>1, <4>2 DEF QtFits, TimesAreNumbers
    <3>2. CASE qt.owns # -1
      <4>1. qt' = [qt EXCEPT !.pc = "stopping", !.after = "quit", !.timer = QtWait]
        BY <2>1, <3>2
      <4>2. /\ qt'.pc = "stopping" /\ qt'.timer = QtWait /\ qt'.owns = qt.owns
            /\ qt' \in QtRecord
        BY <1>1, <4>1 DEF QtRecord, QtStates, TimesAreNumbers
      <4>3. QED
        BY <1>1, <1>2, <3>2, <4>2 DEF QtFits, TimesAreNumbers
    <3>3. QED
      BY <3>1, <3>2
  <2>3. QED
    BY <1>1, <2>1, <2>2, ApplicationOnly, CancelsOnly
<1>7. QED
  BY <1>4, <1>5, <1>6

LEMMA LaunchKeeps ==
    ASSUME ConstantsOK, ProcessInv, CheckRuntime, \A i \in Launches : ~Serving(i)
    PROVE  ProcessInv'
<1>1. /\ TimesAreNumbers /\ ProcessShapes /\ qt \in QtRecord /\ hist \in HistRecord
      /\ \A i \in Launches : InTime(runtime[i]) /\ Kept(runtime[i], server[i], temporary[i])
      /\ \A i \in Launches : i > hist.launched => runtime[i].pc = "none"
  BY Numbers DEF ProcessInv, QtFits, LaunchedInOrder
<1>. DEFINE new == hist.launched + 1
<1>2. /\ hist.launched < MaxLaunches /\ UNCHANGED <<server, temporary>>
      /\ hist' = [hist EXCEPT !.launched = @ + 1]
      /\ runtime' = [runtime EXCEPT ![new] = Starting(qt.mode)]
      /\ qt' = [qt EXCEPT !.pc = "probing", !.owns = new, !.timer = ProbeWait]
  BY DEF CheckRuntime, Launch
<1>3. /\ new \in Launches /\ new \in -1 .. MaxLaunches /\ new > hist.launched
      /\ hist.launched \in Nat /\ hist' \in HistRecord /\ hist'.launched = new
  BY <1>1, <1>2 DEF HistRecord, Launches, TimesAreNumbers
<1>. HIDE DEF new
<1>4. /\ Starting(qt.mode) \in RuntimeRecord /\ Starting(qt.mode).pc = "starting"
      /\ Starting(qt.mode).timer = 0 /\ Starting(qt.mode).age = 0
  <2>1. /\ NoRuntime \in RuntimeRecord /\ NoRuntime.timer = 0 /\ NoRuntime.age = 0
    BY DEF NoRuntime, RuntimeRecord, RuntimeStates, Gone, Modes
  <2>2. qt.mode \in Modes
    BY <1>1 DEF QtRecord
  <2>3. QED
    BY <2>1, <2>2 DEF Starting, RuntimeRecord, RuntimeStates
<1>5. server[new] = "none" /\ ~temporary[new]
  BY <1>1, <1>3 DEF Kept
<1>6. ProcessShapes'
  BY <1>1, <1>2, <1>4 DEF ProcessShapes
<1>7. LaunchedInOrder'
  <2>1. ASSUME NEW i \in Launches, i > new
        PROVE  runtime'[i].pc = "none"
    <3>1. i > hist.launched /\ i # new
      BY <1>3, <2>1 DEF Launches
    <3>2. QED
      BY <1>1, <1>2, <3>1 DEF ProcessShapes
  <2>2. QED
    BY <1>3, <2>1 DEF LaunchedInOrder
<1>8. QtFits'
  <2>1. qt' \in QtRecord /\ qt'.pc = "probing" /\ qt'.timer = ProbeWait
    BY <1>1, <1>2, <1>3 DEF QtRecord, QtStates, TimesAreNumbers
  <2>2. QED
    BY <1>1, <2>1 DEF QtFits, TimesAreNumbers
<1>9. ASSUME NEW i \in Launches
      PROVE  InTime(runtime'[i]) /\ Kept(runtime'[i], server'[i], temporary'[i])
  <2>1. CASE i = new
    <3>1. runtime'[i] = Starting(qt.mode) /\ server'[i] = "none" /\ ~temporary'[i]
      BY <1>1, <1>2, <1>5, <2>1 DEF ProcessShapes
    <3>2. QED
      BY <1>1, <1>4, <3>1 DEF InTime, Kept, Stopping, TimesAreNumbers
  <2>2. CASE i # new
    BY <1>1, <1>2, <2>2 DEF ProcessShapes
  <2>3. QED
    BY <2>1, <2>2
<1>10. QED
  BY <1>6, <1>7, <1>8, <1>9 DEF ProcessInv

LEMMA KillKeeps ==
    ASSUME ConstantsOK, ProcessInv, Kill
    PROVE  ProcessInv'
<1>. DEFINE i == qt.owns
            r == Goes(runtime[i], "killed", 0)
<1>1. /\ TimesAreNumbers /\ ProcessShapes /\ qt \in QtRecord /\ QtFits /\ i \in Launches
      /\ runtime[i].pc \notin Gone
  BY Numbers DEF ProcessInv, QtFits, Kill
<1>2. /\ InTime(runtime[i]) /\ Kept(runtime[i], server[i], temporary[i])
      /\ runtime[i] \in RuntimeRecord /\ server[i] \in ServerStates /\ temporary[i] \in BOOLEAN
  BY <1>1 DEF ProcessInv, ProcessShapes
<1>3. r \in RuntimeRecord /\ r.pc = "killed" /\ r.timer = 0 /\ r.age = runtime[i].age
  BY <1>2, GoesOn DEF RuntimeStates, Gone
<1>4. /\ runtime' = [runtime EXCEPT ![i] = r] /\ UNCHANGED <<server, temporary, hist>>
  BY <1>1 DEF Kill, ProcessShapes, Goes
<1>5. QtFits'
  <2>. DEFINE stream == IF qt.events = i THEN -1 ELSE qt.events
  <2>1. stream \in -1 .. MaxLaunches /\ -1 \in -1 .. MaxLaunches
    BY <1>1 DEF QtRecord, TimesAreNumbers
  <2>2. qt' = [qt EXCEPT !.pc = qt.after, !.owns = -1, !.timer = 0, !.events = stream]
    BY <1>1 DEF Kill, QtRecord
  <2>. HIDE DEF stream
  <2>3. qt.after \in QtStates \ {"stopping"}
    BY <1>1 DEF QtRecord, QtStates
  <2>4. qt' \in QtRecord /\ qt'.pc = qt.after /\ qt'.timer = 0
    BY <1>1, <2>1, <2>2, <2>3 DEF QtRecord
  <2>5. QED
    BY <1>1, <2>3, <2>4 DEF QtFits, TimesAreNumbers
<1>. HIDE DEF r, i
<1>6. InTime(r) /\ Kept(r, server[i], temporary[i])
  BY <1>1, <1>2, <1>3 DEF InTime, Kept, Stopping
<1>7. Becomes(i, r, server[i], temporary[i])
  BY <1>4 DEF Becomes
<1>8. runtime[i].pc # "none"
  BY <1>1 DEF Gone
<1>9. QED
  BY <1>1, <1>2, <1>3, <1>4, <1>5, <1>6, <1>7, <1>8, OneChanges DEF AtMostAFault

-----------------------------------------------------------------------------
(* A second passes.                                                        *)

LEMMA TickKeeps ==
    ASSUME ConstantsOK, ProcessInv, Tick
    PROVE  ProcessInv'
<1>1. /\ TimesAreNumbers /\ ProcessShapes /\ qt \in QtRecord /\ QtFits
      /\ UNCHANGED <<server, temporary, hist>>
  BY Numbers DEF ProcessInv, QtFits, Tick
<1>. DEFINE more(i) ==
              runtime[i].age <= Drain + AskWait + DoneWait /\ runtime[i].pc \in Stopping
            timer(i) == IF TimedRuntime(i) THEN runtime[i].timer - 1 ELSE runtime[i].timer
            age(i) == IF more(i) THEN runtime[i].age + 1 ELSE runtime[i].age
<1>2. runtime' = [i \in Launches |-> [runtime[i] EXCEPT !.timer = timer(i), !.age = age(i)]]
  BY <1>1 DEF Tick, ProcessShapes, RuntimeRecord
<1>3. ASSUME NEW i \in Launches
      PROVE  /\ runtime'[i] \in RuntimeRecord /\ runtime'[i].pc = runtime[i].pc
             /\ InTime(runtime'[i]) /\ Kept(runtime'[i], server'[i], temporary'[i])
  <2>1. /\ runtime[i] \in RuntimeRecord /\ runtime[i].timer \in Nat /\ runtime[i].age \in Nat
        /\ InTime(runtime[i]) /\ Kept(runtime[i], server[i], temporary[i])
        /\ TimedRuntime(i) => runtime[i].timer > 0
    BY <1>1 DEF ProcessInv, ProcessShapes, RuntimeRecord, Tick
  <2>2. timer(i) \in Nat /\ age(i) \in Nat
    BY <2>1
  <2>3. runtime'[i] = [runtime[i] EXCEPT !.timer = timer(i), !.age = age(i)]
    BY <1>2
  <2>4. CASE runtime[i].pc \in Stopping
    <3>1. timer(i) = runtime[i].timer - 1 /\ age(i) = runtime[i].age + 1
      BY <2>1, <2>4 DEF TimedRuntime, InTime
    <3>. HIDE DEF timer, age
    <3>2. /\ runtime'[i] \in RuntimeRecord /\ runtime'[i].pc = runtime[i].pc
          /\ runtime'[i].timer = runtime[i].timer - 1 /\ runtime'[i].age = runtime[i].age + 1
      BY <2>1, <2>2, <2>3, <3>1 DEF RuntimeRecord
    <3>3. runtime[i].timer > 0
      BY <2>1, <2>4 DEF TimedRuntime
    <3>4. InTime(runtime'[i])
      BY <1>1, <2>1, <2>4, <3>2, <3>3 DEF InTime, Stopping, TimesAreNumbers
    <3>5. Kept(runtime'[i], server'[i], temporary'[i])
      BY <1>1, <2>1, <2>4, <3>2 DEF Kept, Stopping
    <3>6. QED
      BY <3>2, <3>4, <3>5
  <2>5. CASE runtime[i].pc \notin Stopping
    <3>1. age(i) = runtime[i].age /\ (timer(i) = runtime[i].timer
                                      \/ (runtime[i].pc = "polling"
                                          /\ timer(i) = runtime[i].timer - 1))
      BY <2>1, <2>5 DEF TimedRuntime
    <3>. HIDE DEF timer, age
    <3>2. /\ runtime'[i] \in RuntimeRecord /\ runtime'[i].pc = runtime[i].pc
          /\ runtime'[i].timer = timer(i) /\ runtime'[i].age = runtime[i].age
      BY <2>1, <2>2, <2>3, <3>1 DEF RuntimeRecord
    <3>3. InTime(runtime'[i])
      BY <1>1, <2>1, <2>2, <2>5, <3>1, <3>2 DEF InTime, Stopping, TimesAreNumbers
    <3>4. Kept(runtime'[i], server'[i], temporary'[i])
      BY <1>1, <2>1, <3>2 DEF Kept
    <3>5. QED
      BY <3>2, <3>3, <3>4
  <2>6. QED
    BY <2>4, <2>5
<1>4. QtFits'
  <2>1. CASE TimedQt
    <3>1. qt' = [qt EXCEPT !.timer = @ - 1] /\ qt.timer > 0
      BY <2>1 DEF Tick
    <3>2. QED
      BY <1>1, <3>1 DEF QtFits, QtRecord, TimesAreNumbers
  <2>2. CASE ~TimedQt
    <3>1. qt' = [qt EXCEPT !.timer = @]
      BY <2>2 DEF Tick
    <3>2. qt' = qt
      BY <1>1, <3>1 DEF QtRecord
    <3>3. QED
      BY <1>1, <3>2 DEF QtFits
  <2>3. QED
    BY <2>1, <2>2
<1>. HIDE DEF timer, age, more
<1>5. ProcessShapes'
  BY <1>1, <1>2, <1>3 DEF ProcessShapes
<1>6. LaunchedInOrder'
  BY <1>1, <1>3 DEF ProcessInv, LaunchedInOrder
<1>7. QED
  BY <1>3, <1>4, <1>5, <1>6 DEF ProcessInv

LEMMA ProcessNext ==
    ASSUME ConstantsOK, ProcessInv, [Next]_vars
    PROVE  ProcessInv'
<1>1. CASE UNCHANGED vars
  BY <1>1 DEF vars, ProcessInv, ProcessShapes, QtFits, LaunchedInOrder
<1>2. ASSUME NEW i \in Launches, Runtime(i)
      PROVE  ProcessInv'
  BY <1>2, StartServerKeeps, EndingKeeps, PassesKeeps, AskedKeeps DEF Runtime
<1>3. ASSUME NEW i \in Launches, ServerReady(i) \/ ServerEnds(i)
      PROVE  ProcessInv'
  BY <1>3, ServerKeeps
<1>4. CASE Application
  <2>1. CASE CheckRuntime
    BY <2>1, LooksKeeps, LaunchKeeps
  <2>2. CASE Quit \/ Configure \/ ShutdownButton
    BY <2>2, StopKeeps
  <2>3. CASE Probe \/ ProbeGivesUp \/ Reconnect \/ Finished
    BY <2>3, LooksKeeps
  <2>4. CASE Kill
    BY <2>4, KillKeeps
  <2>5. QED
    BY <1>4, <2>1, <2>2, <2>3, <2>4 DEF Application
<1>5. QED
  BY <1>1, <1>2, <1>3, <1>4, SignalKeeps, TickKeeps DEF Next

LEMMA ProcessImplies ==
    ASSUME ConstantsOK, ProcessInv
    PROVE  ProcessesSafety
<1>1. /\ TimesAreNumbers /\ ProcessShapes /\ QtFits /\ qt \in QtRecord
      /\ \A i \in Launches : InTime(runtime[i]) /\ Kept(runtime[i], server[i], temporary[i])
  BY Numbers DEF ProcessInv, QtFits
<1>2. ASSUME NEW i \in Launches
      PROVE  /\ runtime[i].pc \in RuntimeStates /\ server[i] \in ServerStates
             /\ runtime[i].timer <= (CASE runtime[i].pc = "polling" -> ReadyWait
                                       [] runtime[i].pc = "draining" -> Drain
                                       [] runtime[i].pc = "asking" -> AskWait
                                       [] runtime[i].pc = "waiting" -> DoneWait
                                       [] OTHER -> 0)
  <2>1. runtime[i] \in RuntimeRecord /\ server[i] \in ServerStates /\ InTime(runtime[i])
    BY <1>1 DEF ProcessShapes
  <2>2. runtime[i].pc \in RuntimeStates /\ runtime[i].timer \in Nat
    BY <2>1 DEF RuntimeRecord
  <2>3. QED
    BY <2>1, <2>2 DEF InTime, Stopping
<1>3. TypeOK
  <2>1. /\ qt.pc \in QtStates /\ qt.owns \in -1 .. MaxLaunches
        /\ qt.events \in -1 .. MaxLaunches /\ qt.timer \in Nat
    BY <1>1 DEF QtRecord
  <2>2. qt.timer \in 0 .. (IF qt.pc = "probing" THEN ProbeWait
                           ELSE IF qt.pc = "stopping" THEN QtWait ELSE 0)
    BY <1>1, <2>1 DEF QtFits, TimesAreNumbers
  <2>3. QED
    BY <1>2, <2>1, <2>2 DEF TypeOK, QtStates, RuntimeStates, ServerStates
<1>4. EndsWithItsServer
  BY <1>1 DEF Kept, EndsWithItsServer
<1>5. StopsInTime
  BY <1>1 DEF InTime, StopsInTime
<1>6. QED
  BY <1>3, <1>4, <1>5 DEF ProcessesSafety

\* main.go of streamchat-gui and backend.cpp, for any number of launches and faults
\* and whatever the timeouts are: a runtime that ends by itself has ended its local
\* server and, once it began to stop, removed the temporary configuration, and it
\* takes no longer for that than its three timeouts together.
THEOREM ProcessesAreSafe == ASSUME ConstantsOK PROVE Spec => []ProcessesSafety
<1>1. Init => ProcessInv
  BY ProcessInit
<1>2. ProcessInv /\ [Next]_vars => ProcessInv'
  BY ProcessNext
<1>3. ProcessInv => ProcessesSafety
  BY ProcessImplies
<1>4. QED
  BY <1>1, <1>2, <1>3, PTL DEF Spec

-----------------------------------------------------------------------------
(* The application and the runtimes it launched.                           *)

\* It looks for a runtime only when it owns none, and of the runtimes it launched
\* all but the one it owns are gone.
OwnsTheRest ==
    /\ qt.pc = "check" => qt.owns = -1
    /\ \A i \in Launches \ {0, qt.owns} : runtime[i].pc \in Gone

\* Runtimes that are gone stay gone.
LEMMA OwnerKeeps ==
    ASSUME OwnsTheRest,
           \A i \in Launches : runtime[i].pc \in Gone => runtime'[i].pc \in Gone,
           qt'.pc = qt.pc, qt'.owns = qt.owns
    PROVE  OwnsTheRest'
BY DEF OwnsTheRest, Launches

\* A step of a runtime, its server or its user.
LEMMA RuntimeOwned ==
    ASSUME ConstantsOK, ProcessInv, OwnsTheRest,
           \/ Signal
           \/ \E i \in Launches : Runtime(i) \/ ServerReady(i) \/ ServerEnds(i)
    PROVE  OwnsTheRest' /\ hist'.launched = hist.launched
<1>1. runtime \in [Launches -> RuntimeRecord] /\ qt \in QtRecord /\ hist \in HistRecord
  BY DEF ProcessInv, ProcessShapes, QtFits, LaunchedInOrder
<1>2. ASSUME NEW i \in Launches, Ends(i, "ended")
      PROVE  /\ qt'.pc = qt.pc /\ qt'.owns = qt.owns
             /\ \A j \in Launches : runtime[j].pc \in Gone => runtime'[j].pc \in Gone
  <2>1. qt'.pc = qt.pc /\ qt'.owns = qt.owns
    BY <1>1, <1>2 DEF Ends, QtRecord
  <2>2. runtime' = [runtime EXCEPT ![i].pc = "ended", ![i].timer = 0]
    BY <1>2 DEF Ends
  <2>3. ASSUME NEW j \in Launches, runtime[j].pc \in Gone PROVE runtime'[j].pc \in Gone
    BY <1>1, <2>2, <2>3 DEF Gone, RuntimeRecord
  <2>4. QED
    BY <2>1, <2>3
<1>3. ASSUME NEW i \in Launches, NEW r, runtime[i].pc \notin Gone, UNCHANGED qt,
             runtime' = [runtime EXCEPT ![i] = r]
      PROVE  /\ qt'.pc = qt.pc /\ qt'.owns = qt.owns
             /\ \A j \in Launches : runtime[j].pc \in Gone => runtime'[j].pc \in Gone
  BY <1>1, <1>3
<1>4. ASSUME NEW i \in Launches, Return(i), runtime[i].pc \notin Gone
      PROVE  /\ qt'.pc = qt.pc /\ qt'.owns = qt.owns
             /\ \A j \in Launches : runtime[j].pc \in Gone => runtime'[j].pc \in Gone
  <2>1. CASE Ends(i, "ended")
    BY <1>2, <2>1
  <2>2. CASE /\ runtime' = [runtime EXCEPT ![i].pc = "asking", ![i].timer = AskWait]
             /\ UNCHANGED qt
    BY <1>3, <1>4, <2>2
  <2>3. QED
    BY <1>4, <2>1, <2>2 DEF Return
<1>5. /\ qt'.pc = qt.pc /\ qt'.owns = qt.owns /\ hist'.launched = hist.launched
      /\ \A j \in Launches : runtime[j].pc \in Gone => runtime'[j].pc \in Gone
  <2>1. CASE \E i \in Launches : StartFails(i) \/ NotReady(i) \/ ServerDone(i)
    BY <1>1, <1>2, <2>1 DEF StartFails, NotReady, ServerDone, HistRecord
  <2>2. CASE \E i \in Launches : Listen(i) \/ Drained(i)
    <3>1. PICK i \in Launches : Listen(i) \/ Drained(i)
      BY <2>2
    <3>2. runtime[i].pc \notin Gone /\ hist' = hist
      BY <3>1 DEF Listen, Drained, Gone
    <3>3. CASE Return(i)
      BY <1>4, <3>2, <3>3
    <3>4. CASE /\ runtime' = [runtime EXCEPT ![i].pc = "serving"] /\ UNCHANGED qt
      BY <1>3, <3>2, <3>4
    <3>5. QED
      BY <3>1, <3>3, <3>4 DEF Listen, Drained
  <2>3. CASE \E i \in Launches : StartServer(i)
    <3>1. PICK i \in Launches : StartServer(i)
      BY <2>3
    <3>2. runtime[i].pc \notin Gone /\ hist' = hist /\ UNCHANGED qt
      BY <3>1 DEF StartServer, Gone
    <3>3. \/ runtime' = [runtime EXCEPT ![i].pc = "polling", ![i].timer = ReadyWait]
          \/ runtime' = [runtime EXCEPT ![i].pc = "listen"]
      BY <3>1 DEF StartServer
    <3>4. QED
      BY <1>3, <3>2, <3>3
  <2>4. CASE \E i \in Launches : DialSucceeds(i) \/ Cancelled(i) \/ Asked(i)
    <3>1. PICK i \in Launches : DialSucceeds(i) \/ Cancelled(i) \/ Asked(i)
      BY <2>4
    <3>2. runtime[i].pc \notin Gone /\ hist' = hist /\ UNCHANGED qt
      BY <3>1 DEF DialSucceeds, Cancelled, Asked, Serving, Gone
    <3>3. \/ runtime' = [runtime EXCEPT ![i].pc = "listen", ![i].timer = 0]
          \/ runtime' = [runtime EXCEPT ![i].pc = "draining", ![i].timer = Drain]
          \/ runtime' = [runtime EXCEPT ![i].pc = "waiting", ![i].timer = DoneWait]
      BY <3>1 DEF DialSucceeds, Cancelled, Asked
    <3>4. QED
      BY <1>3, <3>2, <3>3
  <2>5. CASE Signal
    <3>1. 0 \in Launches
      BY Numbers DEF Launches, TimesAreNumbers
    <3>2. /\ runtime[0].pc \notin Gone /\ hist' = hist /\ UNCHANGED qt
          /\ runtime' = [runtime EXCEPT ![0].cancelled = TRUE]
      BY <2>5 DEF Signal
    <3>3. QED
      BY <1>3, <3>1, <3>2
  <2>6. CASE \E i \in Launches : ServerReady(i) \/ ServerEnds(i)
    BY <1>1, <2>6 DEF ServerReady, ServerEnds, HistRecord
  <2>7. QED
    BY <2>1, <2>2, <2>3, <2>4, <2>5, <2>6 DEF Runtime
<1>6. QED
  BY <1>5, OwnerKeeps

AllGone == \A i \in Launches \ {0} : runtime[i].pc \in Gone

\* A step of the application.
LEMMA ApplicationOwns ==
    ASSUME ConstantsOK, ProcessInv, OwnsTheRest, Application \/ Tick
    PROVE  OwnsTheRest' /\ (hist'.launched > hist.launched => AllGone)
<1>1. runtime \in [Launches -> RuntimeRecord] /\ qt \in QtRecord /\ hist \in HistRecord
  BY DEF ProcessInv, ProcessShapes, QtFits, LaunchedInOrder
<1>2. hist.launched \in Nat /\ Launches = 0 .. MaxLaunches /\ MaxLaunches \in Nat
  BY <1>1, Numbers DEF HistRecord, Launches, TimesAreNumbers
<1>3. ASSUME hist'.launched = hist.launched PROVE ~(hist'.launched > hist.launched)
  BY <1>2, <1>3
<1>4. CASE Launch /\ qt.pc = "check"
  <2>1. AllGone
    BY <1>2, <1>4 DEF OwnsTheRest, AllGone
  <2>2. /\ runtime' = [runtime EXCEPT ![hist.launched + 1] = Starting(qt.mode)]
        /\ qt'.pc = "probing" /\ qt'.owns = hist.launched + 1
    BY <1>1, <1>4 DEF Launch, QtRecord
  <2>3. OwnsTheRest'
    BY <1>1, <2>1, <2>2 DEF OwnsTheRest, AllGone
  <2>4. QED
    BY <2>1, <2>3
<1>5. CASE \/ Probe \/ ProbeGivesUp \/ Reconnect
           \/ CheckRuntime /\ ~Launch
  <2>1. qt'.pc # "check" /\ qt'.owns = qt.owns /\ UNCHANGED runtime
    BY <1>1, <1>5 DEF Probe, ProbeGivesUp, Reconnect, CheckRuntime, QtRecord
  <2>2. hist'.launched = hist.launched
    BY <1>1, <1>5 DEF Probe, ProbeGivesUp, Reconnect, CheckRuntime, HistRecord
  <2>3. OwnsTheRest'
    BY <2>1 DEF OwnsTheRest
  <2>4. QED
    BY <1>3, <2>2, <2>3
<1>6. ASSUME NEW after, NEW events, NEW mode, StopRuntime(after, events, mode)
      PROVE  OwnsTheRest' /\ hist'.launched = hist.launched
  <2>1. CASE qt.owns = -1
    BY <1>1, <1>6, <2>1 DEF StopRuntime, OwnsTheRest, QtRecord
  <2>2. CASE qt.owns # -1
    <3>1. /\ runtime' = [i \in Launches |->
                           [runtime[i] EXCEPT !.cancelled = @ \/ Serving(i)]]
          /\ qt'.pc = "stopping" /\ qt'.owns = qt.owns /\ hist' = hist
      BY <1>1, <1>6, <2>2 DEF StopRuntime, QtRecord
    <3>2. \A i \in Launches : runtime'[i].pc = runtime[i].pc
      BY <1>1, <3>1 DEF RuntimeRecord
    <3>3. QED
      BY <3>1, <3>2 DEF OwnsTheRest
  <2>3. QED
    BY <2>1, <2>2
<1>7. CASE ShutdownButton
  <2>1. PICK i \in Launches : /\ Serving(i)
                              /\ runtime' = [runtime EXCEPT ![i].cancelled = TRUE]
    BY <1>7 DEF ShutdownButton
  <2>2. \A j \in Launches : runtime'[j].pc = runtime[j].pc
    BY <1>1, <2>1 DEF RuntimeRecord
  <2>3. qt'.pc # "check" /\ qt'.owns = qt.owns /\ hist' = hist
    BY <1>1, <1>7 DEF ShutdownButton, QtRecord
  <2>4. QED
    BY <1>3, <2>2, <2>3 DEF OwnsTheRest
<1>8. CASE Finished
  <2>1. qt'.owns = -1 /\ UNCHANGED <<runtime, hist>> /\ runtime[qt.owns].pc \in Gone
    BY <1>1, <1>8 DEF Finished, QtRecord
  <2>2. QED
    BY <1>3, <2>1 DEF OwnsTheRest
<1>9. CASE Kill
  <2>1. /\ runtime' = [runtime EXCEPT ![qt.owns].pc = "killed", ![qt.owns].timer = 0]
        /\ qt'.owns = -1 /\ hist' = hist
    BY <1>1, <1>9 DEF Kill, QtRecord
  <2>2. \A i \in Launches \ {0} : runtime'[i].pc \in Gone
    BY <1>1, <2>1 DEF OwnsTheRest, Gone, RuntimeRecord
  <2>3. QED
    BY <1>3, <2>1, <2>2 DEF OwnsTheRest
<1>10. CASE Tick
  <2>1. qt'.pc = qt.pc /\ qt'.owns = qt.owns /\ hist' = hist
    BY <1>1, <1>10 DEF Tick, QtRecord
  <2>2. \A i \in Launches : runtime'[i].pc = runtime[i].pc
    BY <1>1, <1>10, ZenonT(30) DEF Tick, RuntimeRecord
  <2>3. QED
    BY <1>3, <2>1, <2>2, OwnerKeeps
<1>11. CASE Quit \/ Configure
  <2>1. PICK after, events, mode : StopRuntime(after, events, mode)
    BY <1>11 DEF Quit, Configure
  <2>2. QED
    BY <1>3, <1>6, <2>1
<1>12. QED
  <2>1. CheckRuntime => (Launch /\ qt.pc = "check") \/ (CheckRuntime /\ ~Launch)
    BY DEF CheckRuntime
  <2>2. QED
    BY <1>4, <1>5, <1>7, <1>8, <1>9, <1>10, <1>11, <2>1 DEF Application

\* backend.cpp, for any number of launches and whatever the timeouts are: when the
\* application launches a runtime, every runtime it launched before is gone, however
\* often the mode is changed while one is still starting or ending.
THEOREM NeverTwoLaunched == ASSUME ConstantsOK PROVE Spec => LaunchedOneAtATime
<1>1. Init => ProcessInv /\ OwnsTheRest
  <2>1. ASSUME Init PROVE OwnsTheRest
    <3>1. qt.owns = -1
      BY <2>1 DEF Init
    <3>2. \A i \in Launches \ {0} : runtime[i] = NoRuntime
      BY <2>1 DEF Init
    <3>3. QED
      BY <3>1, <3>2 DEF OwnsTheRest, NoRuntime, Gone
  <2>2. QED
    BY <2>1, ProcessInit
<1>2. ASSUME ProcessInv, OwnsTheRest, Next
      PROVE  OwnsTheRest' /\ (hist'.launched > hist.launched => AllGone)
  <2>1. CASE Application \/ Tick
    BY <1>2, <2>1, ApplicationOwns
  <2>2. CASE \/ Signal
             \/ \E i \in Launches : Runtime(i) \/ ServerReady(i) \/ ServerEnds(i)
    <3>1. OwnsTheRest' /\ hist'.launched = hist.launched
      BY <1>2, <2>2, RuntimeOwned
    <3>2. hist.launched \in Nat
      BY <1>2 DEF ProcessInv, LaunchedInOrder, HistRecord
    <3>3. QED
      BY <3>1, <3>2
  <2>3. QED
    BY <1>2, <2>1, <2>2 DEF Next
<1>3. ProcessInv /\ OwnsTheRest /\ [Next]_vars => (ProcessInv /\ OwnsTheRest)'
  <2>1. CASE UNCHANGED vars
    BY <2>1, ProcessNext DEF vars, OwnsTheRest
  <2>2. QED
    BY <1>2, <2>1, ProcessNext
<1>4. ProcessInv /\ OwnsTheRest /\ [Next]_vars
        => [hist'.launched > hist.launched =>
              \A i \in DOMAIN runtime \ {0} : runtime[i].pc \in Gone]_vars
  <2>1. ASSUME ProcessInv PROVE DOMAIN runtime = Launches
    BY <2>1 DEF ProcessInv, ProcessShapes
  <2>2. QED
    BY <1>2, <2>1 DEF AllGone
<1>5. QED
  BY <1>1, <1>3, <1>4, PTL DEF Spec, LaunchedOneAtATime

-----------------------------------------------------------------------------
(* The feed of the pages.                                                  *)

-----------------------------------------------------------------------------
(* Counting up: a set that holds 0 and, with a number, the next, holds all *)
(* that are small enough.                                                  *)

LEMMA LeastNat ==
    ASSUME NEW S \in SUBSET Nat, S # {}
    PROVE  \E x \in S : \A y \in S : x <= y
<1> DEFINE R == OpToRel(<, Nat)
<1>1. PICK x \in S : \A y \in S : <<y, x>> \notin R
  BY NatLessThanWellFounded, WFMin
<1>2. ASSUME NEW y \in S
      PROVE  x <= y
  <2>1. x \in Nat /\ y \in Nat
    OBVIOUS
  <2>2. ASSUME y < x PROVE <<y, x>> \in R
    BY <2>1, <2>2 DEF OpToRel
  <2>3. ~(y < x)
    BY <1>1, <2>2
  <2>4. QED
    BY <2>1, <2>3
<1>3. QED
  BY <1>2

LEMMA CountingUp ==
    ASSUME NEW n \in Nat, NEW S, 0 \in S,
           \A i \in 0 .. n : i \in S /\ i < n => i + 1 \in S
    PROVE  \A i \in 0 .. n : i \in S
<1>. DEFINE Bad == {i \in 0 .. n : i \notin S}
<1>1. SUFFICES ASSUME Bad # {}
               PROVE  FALSE
  OBVIOUS
<1>2. PICK x \in Bad : \A y \in Bad : x <= y
  <2>1. Bad \in SUBSET Nat
    OBVIOUS
  <2>. HIDE DEF Bad
  <2>2. QED
    BY <1>1, <2>1, LeastNat
<1>3. x \in 0 .. n /\ x \notin S
  OBVIOUS
<1>4. x # 0
  BY <1>3
<1>5. x - 1 \in 0 .. n /\ x - 1 < n /\ x - 1 + 1 = x /\ ~(x <= x - 1)
  BY <1>3, <1>4
<1>6. x - 1 \notin Bad
  BY <1>2, <1>5
<1>7. QED
  BY <1>3, <1>5, <1>6

-----------------------------------------------------------------------------
(* The IDs of the messages among the events of a page.                     *)

Reports ==
    {"?", "disconnected", "connecting", "connected", "reconnecting", "stopped",
     "authentication failed", "failed"}
NotifiedState ==
    [relay : Reports, selected : Targets \cup {Feed!NoTarget},
     streams : Statuses \cup {Feed!Unasked}]
Event == [name : {"message", "state"}, id : Nat, state : NotifiedState]

LEMMA Joining ==
    ASSUME NEW a \in Seq(Nat), NEW b \in Seq(Nat), NEW c \in Seq(Nat)
    PROVE  (a \o b) \o c = a \o (b \o c)
BY SMTT(30), ConcatAssociative

LEMMA Appending ==
    ASSUME NEW a \in Seq(Nat), NEW n \in Nat
    PROVE  Append(a, n) \in Seq(Nat)
BY AppendProperties

\* MessageIds goes through the events, taking the messages' IDs.
IdsStep(s, f, i) ==
    IF i = 0 THEN <<>>
    ELSE IF s[i].name = "message" THEN Append(f[i - 1], s[i].id)
    ELSE f[i - 1]

LEMMA IdsStepIs ==
    ASSUME NEW s, NEW f, NEW i, i # 0
    PROVE  /\ s[i].name = "message" => IdsStep(s, f, i) = Append(f[i - 1], s[i].id)
           /\ s[i].name # "message" => IdsStep(s, f, i) = f[i - 1]
BY DEF IdsStep

LEMMA IdsStepFrom ==
    ASSUME NEW s, NEW f, NEW g, NEW i, i = 0 \/ f[i - 1] = g[i - 1]
    PROVE  IdsStep(s, f, i) = IdsStep(s, g, i)
BY DEF IdsStep

LEMMA IdsExist ==
    ASSUME NEW s, NEW n \in Nat
    PROVE  \E f : f = [i \in 0 .. n |-> IdsStep(s, f, i)]
<1>. DEFINE Has == {k \in Nat : \E f : f = [i \in 0 .. k |-> IdsStep(s, f, i)]}
<1>1. 0 \in Has
  <2>. DEFINE f == [i \in 0 .. 0 |-> <<>>]
  <2>1. \A i \in 0 .. 0 : IdsStep(s, f, i) = <<>>
    BY DEF IdsStep
  <2>2. f = [i \in 0 .. 0 |-> IdsStep(s, f, i)]
    BY <2>1
  <2>. HIDE DEF f
  <2>3. QED
    BY <2>2
<1>2. ASSUME NEW k \in Nat, k \in Has
      PROVE  k + 1 \in Has
  <2>1. PICK f : f = [i \in 0 .. k |-> IdsStep(s, f, i)]
    BY <1>2
  <2>. DEFINE r == [i \in 0 .. k |-> IdsStep(s, f, i)]
              N == k + 1
              g == [i \in 0 .. N |-> IF i = N THEN IdsStep(s, f, N) ELSE f[i]]
  <2>2. \A i \in 0 .. k : f[i] = IdsStep(s, f, i)
    <3>1. \A i \in 0 .. k : r[i] = IdsStep(s, f, i)
      OBVIOUS
    <3>2. f = r
      BY <2>1
    <3>. HIDE DEF r
    <3>3. QED
      BY <3>1, <3>2
  <2>3. /\ \A i \in 0 .. k : i \in 0 .. N /\ i # N
        /\ \A i \in 0 .. N : i # N => i \in 0 .. k
        /\ N \in 0 .. N /\ \A i \in 0 .. N : i = 0 \/ i - 1 \in 0 .. k
    BY <1>2
  <2>4. (\A i \in 0 .. k : g[i] = f[i]) /\ g[N] = IdsStep(s, f, N)
    <3>. HIDE DEF N
    <3>1. QED
      BY <2>3
  <2>5. ASSUME NEW i \in 0 .. N
        PROVE  g[i] = IdsStep(s, g, i)
    <3>. HIDE DEF g, N
    <3>1. g[i] = IdsStep(s, f, i)
      BY <2>2, <2>3, <2>4
    <3>2. i = 0 \/ g[i - 1] = f[i - 1]
      BY <2>3, <2>4
    <3>3. QED
      BY <3>1, <3>2, IdsStepFrom
  <2>6. g = [i \in 0 .. N |-> g[i]]
    OBVIOUS
  <2>. HIDE DEF g
  <2>7. g = [i \in 0 .. N |-> IdsStep(s, g, i)]
    BY <2>5, <2>6
  <2>8. N \in Nat
    OBVIOUS
  <2>9. QED
    BY <2>7, <2>8
<1>. HIDE DEF Has
<1>3. \A i \in 0 .. n : i \in Has
  BY <1>1, <1>2, CountingUp
<1>4. n \in Has
  BY <1>3
<1>5. QED
  BY <1>4 DEF Has

\* Going through the events leads to MessageIds.
Rounds(s, f) ==
    /\ f[0] = <<>> /\ f[Len(s)] = Feed!MessageIds(s)
    /\ \A i \in 0 .. Len(s) : i # 0 => f[i] = IdsStep(s, f, i)
    /\ \A i \in 0 .. Len(s) : f[i] \in Seq(Nat)

LEMMA IdsRounds ==
    ASSUME NEW s \in Seq(Event)
    PROVE  \E f : Rounds(s, f)
<1>. DEFINE n == Len(s)
            F == CHOOSE f : f = [i \in 0 .. n |-> IdsStep(s, f, i)]
            r == [i \in 0 .. n |-> IdsStep(s, F, i)]
<1>1. n \in Nat /\ \A i \in 1 .. n : s[i] \in Event
  OBVIOUS
<1>2. F = [i \in 0 .. n |-> IdsStep(s, F, i)]
  <2>. HIDE DEF n
  <2>1. QED
    BY <1>1, IdsExist
<1>3. Feed!MessageIds(s) = F[n]
  BY DEF Feed!MessageIds, IdsStep
<1>. HIDE DEF F
<1>4. \A i \in 0 .. n : F[i] = IdsStep(s, F, i)
  <2>1. \A i \in 0 .. n : r[i] = IdsStep(s, F, i)
    OBVIOUS
  <2>2. F = r
    BY <1>2
  <2>. HIDE DEF r
  <2>3. QED
    BY <2>1, <2>2
<1>. HIDE DEF n
<1>5. F[0] = <<>>
  BY <1>1, <1>4 DEF IdsStep
<1>6. \A i \in 0 .. n : F[i] \in Seq(Nat)
  <2>. DEFINE Good == {i \in 0 .. n : F[i] \in Seq(Nat)}
  <2>1. 0 \in Good
    <3>1. F[0] \in Seq(Nat)
      BY <1>5, EmptySeq
    <3>2. QED
      BY <1>1, <3>1
  <2>2. ASSUME NEW i \in 0 .. n, i \in Good, i < n
        PROVE  i + 1 \in Good
    <3>. DEFINE j == i + 1
    <3>1. j \in 0 .. n /\ j \in 1 .. n /\ j # 0 /\ j - 1 = i /\ F[i] \in Seq(Nat)
      BY <1>1, <2>2
    <3>. HIDE DEF j
    <3>2. s[j].id \in Nat
      BY <1>1, <3>1 DEF Event
    <3>3. F[j] = IdsStep(s, F, j)
      BY <1>4, <3>1
    <3>4. F[j] = F[i] \/ F[j] = Append(F[i], s[j].id)
      BY ZenonT(30), <3>1, <3>3, IdsStepIs
    <3>5. F[j] \in Seq(Nat)
      <4>. DEFINE x == s[j].id
      <4>1. x \in Nat
        BY <3>2
      <4>2. F[j] = F[i] \/ F[j] = Append(F[i], x)
        BY <3>4
      <4>. HIDE DEF x
      <4>3. QED
        BY <3>1, <4>1, <4>2, Appending
    <3>6. QED
      BY <3>1, <3>5 DEF j
  <2>. HIDE DEF Good
  <2>3. \A i \in 0 .. n : i \in Good
    BY <1>1, <2>1, <2>2, CountingUp
  <2>4. QED
    BY <2>3 DEF Good
<1>7. Rounds(s, F)
  BY <1>3, <1>4, <1>5, <1>6 DEF Rounds, n
<1>8. QED
  BY <1>7

LEMMA IdsOfNothing ==
    Feed!MessageIds(<<>>) = <<>>
<1>1. <<>> \in Seq(Event) /\ Len(<<>>) = 0
  OBVIOUS
<1>2. PICK f : Rounds(<<>>, f)
  BY <1>1, IdsRounds
<1>3. QED
  BY <1>1, <1>2 DEF Rounds

LEMMA IdsType ==
    ASSUME NEW s \in Seq(Event)
    PROVE  Feed!MessageIds(s) \in Seq(Nat)
<1>1. PICK f : Rounds(s, f)
  BY IdsRounds
<1>2. Len(s) \in 0 .. Len(s)
  OBVIOUS
<1>3. QED
  BY <1>1, <1>2 DEF Rounds

\* An event that comes adds its message, if it is one.
LEMMA IdsAppend ==
    ASSUME NEW s \in Seq(Event), NEW e \in Event
    PROVE  /\ e.name = "message" =>
                Feed!MessageIds(Append(s, e)) = Append(Feed!MessageIds(s), e.id)
           /\ e.name # "message" => Feed!MessageIds(Append(s, e)) = Feed!MessageIds(s)
<1>. DEFINE t == Append(s, e)
            n == Len(s)
            m == n + 1
<1>1. /\ t \in Seq(Event) /\ Len(t) = m /\ n \in Nat /\ t[m] = e /\ \A i \in 1 .. n : t[i] = s[i]
      /\ m - 1 = n /\ m # 0 /\ m \in 0 .. m /\ n \in 0 .. n
  BY AppendProperties
<1>. HIDE DEF t
<1>2. PICK f : Rounds(s, f)
  BY IdsRounds
<1>3. PICK g : Rounds(t, g)
  BY <1>1, IdsRounds
<1>. DEFINE Same == {i \in 0 .. n : g[i] = f[i]}
<1>4. 0 \in Same
  BY <1>1, <1>2, <1>3 DEF Rounds
<1>5. ASSUME NEW i \in 0 .. n, i \in Same, i < n
      PROVE  i + 1 \in Same
  <2>. DEFINE j == i + 1
  <2>1. j \in 0 .. n /\ j \in 1 .. n /\ j \in 0 .. m /\ j # 0 /\ j - 1 = i /\ g[i] = f[i]
    BY <1>1, <1>5
  <2>. HIDE DEF j
  <2>2. f[j] = IdsStep(s, f, j) /\ g[j] = IdsStep(t, g, j) /\ t[j] = s[j]
    BY <1>1, <1>2, <1>3, <2>1 DEF Rounds
  <2>3. IdsStep(t, g, j) = IdsStep(s, f, j)
    BY <2>1, <2>2 DEF IdsStep
  <2>4. QED
    BY <2>1, <2>2, <2>3 DEF j
<1>. HIDE DEF Same
<1>6. n \in Same
  BY <1>1, <1>4, <1>5, CountingUp
<1>7. g[n] = f[n] /\ f[n] = Feed!MessageIds(s)
  BY <1>2, <1>6 DEF Same, Rounds
<1>8. g[m] = Feed!MessageIds(t) /\ g[m] = IdsStep(t, g, m)
  BY <1>1, <1>3 DEF Rounds
<1>. HIDE DEF m, n
<1>9. /\ e.name = "message" => g[m] = Append(g[n], e.id)
      /\ e.name # "message" => g[m] = g[n]
  BY SMTT(30), <1>1, <1>8, IdsStepIs
<1>10. QED
  BY <1>7, <1>8, <1>9 DEF t

\* The event that goes takes its message away, if it is one.
LEMMA IdsTail ==
    ASSUME NEW s \in Seq(Event), s # <<>>
    PROVE  /\ Head(s).name = "message" =>
                Feed!MessageIds(s) = <<Head(s).id>> \o Feed!MessageIds(Tail(s))
           /\ Head(s).name # "message" => Feed!MessageIds(s) = Feed!MessageIds(Tail(s))
<1>. DEFINE t == Tail(s)
            m == Len(t)
            h == IF Head(s).name = "message" THEN <<Head(s).id>> ELSE <<>>
<1>1. /\ t \in Seq(Event) /\ m \in Nat /\ Len(s) = m + 1 /\ Head(s) = s[1] /\ Head(s) \in Event
      /\ \A i \in 1 .. m : t[i] = s[i + 1]
  BY HeadTailProperties
<1>2. h \in Seq(Nat)
  BY <1>1 DEF Event
<1>. HIDE DEF t, m
<1>3. PICK f : Rounds(s, f)
  BY IdsRounds
<1>4. PICK g : Rounds(t, g)
  BY <1>1, IdsRounds
<1>. DEFINE Behind == {i \in 0 .. m : f[i + 1] = h \o g[i]}
<1>5. 0 \in Behind
  <2>1. 1 \in 0 .. Len(s) /\ f[0] = <<>> /\ g[0] = <<>>
    BY <1>1, <1>3, <1>4 DEF Rounds
  <2>2. f[1] = IdsStep(s, f, 1)
    BY <1>3, <2>1 DEF Rounds
  <2>3. f[1] = h
    <3>1. 1 - 1 = 0 /\ 1 # 0
      OBVIOUS
    <3>2. CASE Head(s).name = "message"
      <4>1. f[1] = Append(f[0], s[1].id)
        BY <1>1, <2>2, <3>1, <3>2, IdsStepIs
      <4>2. Append(<<>>, s[1].id) = <<s[1].id>>
        OBVIOUS
      <4>3. QED
        BY <1>1, <2>1, <3>2, <4>1, <4>2
    <3>3. CASE Head(s).name # "message"
      <4>1. f[1] = f[0]
        BY <1>1, <2>2, <3>1, <3>3, IdsStepIs
      <4>2. QED
        BY <2>1, <3>3, <4>1
    <3>4. QED
      BY <3>2, <3>3
  <2>. HIDE DEF h
  <2>4. h \o g[0] = h
    BY <1>2, <2>1, ConcatEmptySeq
  <2>5. QED
    BY <1>1, <2>3, <2>4
<1>. HIDE DEF h
<1>6. ASSUME NEW i \in 0 .. m, i \in Behind, i < m
      PROVE  i + 1 \in Behind
  <2>. DEFINE j == i + 1
              k == j + 1
  <2>1. /\ j \in 0 .. m /\ j \in 1 .. m /\ k \in 0 .. Len(s) /\ j # 0 /\ k # 0
        /\ j - 1 = i /\ k - 1 = j
    BY <1>1, <1>6
  <2>2. f[j] = h \o g[i] /\ t[j] = s[k]
    BY <1>1, <1>6, <2>1
  <2>. HIDE DEF k
  <2>3. f[k] = IdsStep(s, f, k) /\ g[j] = IdsStep(t, g, j) /\ g[i] \in Seq(Nat) /\ t[j] \in Event
    <3>. HIDE DEF j
    <3>1. QED
      BY <1>1, <1>3, <1>4, <1>6, <2>1, m = Len(t) DEF Rounds, m
  <2>. HIDE DEF j
  <2>4. CASE t[j].name = "message"
    <3>. DEFINE x == t[j].id
    <3>1. x \in Nat
      BY <2>3 DEF Event
    <3>. HIDE DEF x
    <3>2. f[k] = Append(h \o g[i], x) /\ g[j] = Append(g[i], x)
      <4>1. s[k].name = "message" /\ s[k].id = x /\ t[j].id = x
        BY <2>2, <2>4 DEF x
      <4>2. f[k] = Append(f[j], x)
        BY <2>1, <2>3, <4>1, IdsStepIs
      <4>3. g[j] = Append(g[i], x)
        BY <2>1, <2>3, <2>4, <4>1, IdsStepIs
      <4>4. QED
        BY <2>2, <4>2, <4>3
    <3>3. Append(h \o g[i], x) = (h \o g[i]) \o <<x>> /\ Append(g[i], x) = g[i] \o <<x>>
      BY <1>2, <2>3, <3>1, AppendIsConcat, ConcatProperties
    <3>4. (h \o g[i]) \o <<x>> = h \o (g[i] \o <<x>>)
      <4>. DEFINE u == <<x>>
                  w == g[i]
      <4>1. u \in Seq(Nat) /\ w \in Seq(Nat)
        BY <2>3, <3>1
      <4>. HIDE DEF u, w
      <4>2. (h \o w) \o u = h \o (w \o u)
        BY <1>2, <4>1, Joining
      <4>3. QED
        BY <4>2 DEF u, w
    <3>5. f[k] = h \o g[j]
      BY <3>2, <3>3, <3>4
    <3>6. QED
      BY <2>1, <3>5 DEF j, k
  <2>5. CASE t[j].name # "message"
    <3>1. f[k] = f[j]
      <4>1. s[k].name # "message"
        BY <2>2, <2>5
      <4>2. f[k] = f[k - 1]
        BY <2>1, <2>3, <4>1, IdsStepIs
      <4>3. QED
        BY <2>1, <4>2
    <3>2. g[j] = g[i]
      BY <2>1, <2>3, <2>5, IdsStepIs
    <3>3. f[k] = h \o g[j]
      BY <2>2, <3>1, <3>2
    <3>4. QED
      BY <2>1, <3>3 DEF j, k
  <2>6. QED
    BY <2>4, <2>5
<1>. HIDE DEF Behind
<1>7. m \in Behind
  <2>1. m \in 0 .. m
    BY <1>1
  <2>2. QED
    BY <1>1, <1>5, <1>6, <2>1, CountingUp
<1>8. f[m + 1] = h \o g[m]
  BY <1>7 DEF Behind
<1>9. f[m + 1] = Feed!MessageIds(s) /\ g[m] = Feed!MessageIds(t) /\ g[m] \in Seq(Nat)
  BY <1>1, <1>3, <1>4 DEF Rounds, m
<1>10. <<>> \o g[m] = g[m]
  BY <1>9, ConcatEmptySeq
<1>11. QED
  BY <1>8, <1>9, <1>10 DEF h, t

-----------------------------------------------------------------------------
(* The inductive invariant of DesktopFeed.                                 *)

RelayStates == {"report", "dial", "reading", "wait", "rejected", "ended"}
PageRecord ==
    [pc : {"away", "first", "live"}, open : BOOLEAN, buffer : Seq(Event), sent : Seq(Nat),
     from : Nat, state : NotifiedState]

FeedShapes ==
    /\ relay \in [pc : RelayStates, conn : Seq(Nat), report : Reports, then : RelayStates]
    /\ queue \in Seq(Nat) /\ Len(queue) <= QueueSize
    /\ guiRuntime \in NotifiedState
    /\ notifier \in
         [Feed!Actors -> [pc : {"idle", "read", "publish"}, state : NotifiedState]]
    /\ guiServer \in [history : Seq(Nat), published : Seq(Nat), publishing : BOOLEAN]
    /\ page \in [Pages -> PageRecord]
    /\ feedHist \in [ctx : BOOLEAN, sent : Nat, faults : Nat, visits : Nat,
                     since : SUBSET NotifiedState]

Published == guiServer.published

\* The history is the newest part of what was published, as long as it may be.
HistoryIsNewest ==
    LET m == Len(guiServer.history)
        n == Len(Published)
    IN  /\ m <= n /\ m <= HistoryLimit /\ (m = n \/ m = HistoryLimit)
        /\ \A k \in 1 .. m : guiServer.history[k] = Published[n - m + k]

\* From the relay to the pages, what was sent and not lost is in order.
UpTo(s, n) ==
    /\ \A i \in 1 .. Len(s) : s[i] <= n
    /\ \A i, j \in 1 .. Len(s) : i < j => s[i] < s[j]

Chain == (Published \o queue) \o relay.conn
ChainInOrder == UpTo(Chain, feedHist.sent)

\* What a page was sent and what waits for it is a row of what was published, up to
\* the newest unless the page was dropped.
Got(pg) == pg.sent \o Feed!MessageIds(pg.buffer)
RowOf(got, from, open, published) ==
    LET last == from + Len(got) - 1
    IN  /\ from >= 1 /\ last <= Len(published) /\ (open => last = Len(published))
        /\ \A k \in 1 .. Len(got) : got[k] = published[from + k - 1]
PageFits(pg, published) ==
    /\ Len(pg.buffer) <= Buffer
    /\ pg.pc = "away" => ~pg.open
    /\ pg.pc # "away" => RowOf(Got(pg), pg.from, pg.open, published)

\* The last state that waits for a page is from the last notifications while none is
\* under way, and if no state waits the page shows such a one.
LastStateIn(buffer, states) ==
    \A i \in 1 .. Len(buffer) :
        buffer[i].name = "state"
          /\ (\A j \in 1 .. Len(buffer) : j > i => buffer[j].name # "state")
        => buffer[i].state \in states
NoStateIn(buffer) == \A i \in 1 .. Len(buffer) : buffer[i].name # "state"
Current(pg, states) ==
    pg.open =>
        /\ LastStateIn(pg.buffer, states)
        /\ pg.pc = "live" /\ NoStateIn(pg.buffer) => pg.state \in states

\* The runtime is at the newest of those states, and what is to be published is one.
NewestFollows ==
    /\ guiRuntime \in feedHist.since
    /\ \A a \in Feed!Actors :
          notifier[a].pc = "publish" => notifier[a].state \in feedHist.since
    /\ Feed!Still => \A p \in Pages : Current(page[p], feedHist.since)

FeedInv ==
    /\ FeedShapes /\ HistoryIsNewest /\ ChainInOrder /\ NewestFollows
    /\ \A p \in Pages : PageFits(page[p], Published)

\* The parameters, and the events there are.
LEMMA FeedNumbers ==
    ASSUME Feed!ConstantsOK
    PROVE  /\ HistoryLimit \in Nat \ {0} /\ Buffer \in Nat \ {0} /\ QueueSize \in Nat \ {0}
           /\ MaxMessages \in Nat /\ "client" \in Feed!Actors
BY DEF Feed!ConstantsOK, Feed!Actors

LEMMA Events ==
    /\ \A n \in Nat : /\ Feed!MessageEvent(n) \in Event
                      /\ Feed!MessageEvent(n).name = "message" /\ Feed!MessageEvent(n).id = n
    /\ \A state \in NotifiedState :
         /\ Feed!StateEvent(state) \in Event
         /\ Feed!StateEvent(state).name = "state" /\ Feed!StateEvent(state).state = state
    /\ Feed!NoState \in NotifiedState
<1>1. Feed!NoState \in NotifiedState
  BY DEF Feed!NoState, Feed!Unasked, NotifiedState, Reports
<1>2. QED
  BY <1>1 DEF Feed!MessageEvent, Feed!StateEvent, Event

LEMMA FeedInit ==
    ASSUME Feed!ConstantsOK, Feed!Init
    PROVE  FeedInv
<1>. DEFINE none == <<>>
<1>1. /\ none \in Seq(Nat) /\ none \in Seq(Event) /\ Len(none) = 0 /\ none \o none = none
      /\ Feed!MessageIds(none) = none
  BY IdsOfNothing
<1>2. /\ relay = [pc |-> "report", conn |-> none, report |-> "connecting", then |-> "dial"]
      /\ queue = none /\ guiServer = [history |-> none, published |-> none, publishing |-> TRUE]
      /\ page = [p \in Pages |->
                   [pc |-> "away", open |-> FALSE, buffer |-> none, sent |-> none,
                    from |-> 1, state |-> Feed!NoState]]
  BY DEF Feed!Init, Feed!Unvisited
<1>. HIDE DEF none
<1>3. FeedShapes
  <2>1. guiRuntime \in NotifiedState
    BY DEF Feed!Init, Feed!Unasked, NotifiedState, Reports
  <2>2. notifier \in [Feed!Actors -> [pc : {"idle", "read", "publish"}, state : NotifiedState]]
    BY Events DEF Feed!Init, Feed!Quiet
  <2>3. page \in [Pages -> PageRecord]
    <3>. DEFINE pg == [pc |-> "away", open |-> FALSE, buffer |-> none, sent |-> none,
                       from |-> 1, state |-> Feed!NoState]
    <3>1. pg \in PageRecord
      BY <1>1, Events DEF PageRecord
    <3>. HIDE DEF pg
    <3>2. page = [p \in Pages |-> pg]
      BY <1>2 DEF pg
    <3>3. QED
      BY <3>1, <3>2
  <2>4. feedHist \in [ctx : BOOLEAN, sent : Nat, faults : Nat, visits : Nat,
                     since : SUBSET NotifiedState]
    <3>. DEFINE states == {guiRuntime}
    <3>1. states \in SUBSET NotifiedState
      BY <2>1
    <3>2. feedHist = [ctx |-> TRUE, sent |-> 0, faults |-> 0, visits |-> 0, since |-> states]
      BY DEF Feed!Init
    <3>. HIDE DEF states
    <3>3. QED
      BY <3>1, <3>2
  <2>5. relay \in [pc : RelayStates, conn : Seq(Nat), report : Reports, then : RelayStates]
    BY <1>1, <1>2 DEF RelayStates, Reports
  <2>6. guiServer \in [history : Seq(Nat), published : Seq(Nat), publishing : BOOLEAN]
    BY <1>1, <1>2
  <2>7. queue \in Seq(Nat) /\ Len(queue) <= QueueSize
    BY <1>1, <1>2, FeedNumbers
  <2>8. QED
    BY <2>1, <2>2, <2>3, <2>4, <2>5, <2>6, <2>7 DEF FeedShapes
<1>4. HistoryIsNewest
  BY <1>1, <1>2, FeedNumbers DEF HistoryIsNewest, Published
<1>5. ChainInOrder
  BY <1>1, <1>2 DEF ChainInOrder, Chain, Published, UpTo
<1>6. ASSUME NEW p \in Pages
      PROVE  PageFits(page[p], Published) /\ ~page[p].open
  BY <1>1, <1>2, FeedNumbers DEF PageFits
<1>7. NewestFollows
  <2>1. guiRuntime \in feedHist.since
    BY DEF Feed!Init
  <2>2. \A a \in Feed!Actors : notifier[a].pc # "publish"
    BY DEF Feed!Init, Feed!Quiet
  <2>3. QED
    BY <1>6, <2>1, <2>2 DEF NewestFollows, Current
<1>8. QED
  BY <1>3, <1>4, <1>5, <1>6, <1>7 DEF FeedInv

-----------------------------------------------------------------------------
(* Messages in order.                                                      *)

LEMMA UpToMore ==
    ASSUME NEW s \in Seq(Nat), NEW n \in Nat, NEW m \in Nat, n <= m, UpTo(s, n)
    PROVE  UpTo(s, m)
BY DEF UpTo

LEMMA UpToAppend ==
    ASSUME NEW s \in Seq(Nat), NEW n \in Nat, UpTo(s, n)
    PROVE  UpTo(Append(s, n + 1), n + 1)
<1>. DEFINE x == n + 1
            t == Append(s, x)
<1>1. /\ Len(t) = Len(s) + 1 /\ Len(s) \in Nat /\ x \in Nat /\ t[Len(s) + 1] = x
      /\ \A i \in 1 .. Len(s) : t[i] = s[i] /\ s[i] \in Nat /\ s[i] < x
  <2>1. x \in Nat
    OBVIOUS
  <2>. HIDE DEF x
  <2>2. /\ Len(t) = Len(s) + 1 /\ Len(s) \in Nat /\ t[Len(s) + 1] = x
        /\ \A i \in 1 .. Len(s) : t[i] = s[i] /\ s[i] \in Nat
    BY <2>1, AppendProperties
  <2>3. \A i \in 1 .. Len(s) : s[i] < x
    BY <2>2 DEF UpTo, x
  <2>4. QED
    BY <2>1, <2>2, <2>3
<1>. HIDE DEF x, t
<1>2. \A i \in 1 .. Len(t) : i \in 1 .. Len(s) \/ i = Len(s) + 1
  BY <1>1
<1>3. \A i \in 1 .. Len(t) : t[i] <= x
  BY SMTT(30), <1>1, <1>2
<1>4. ASSUME NEW i \in 1 .. Len(t), NEW j \in 1 .. Len(t), i < j
      PROVE  t[i] < t[j]
  <2>1. i \in 1 .. Len(s)
    BY <1>1, <1>4
  <2>2. CASE j \in 1 .. Len(s)
    BY <1>1, <1>4, <2>1, <2>2 DEF UpTo
  <2>3. CASE j = Len(s) + 1
    BY <1>1, <2>1, <2>3
  <2>4. QED
    BY <1>2, <2>2, <2>3
<1>5. UpTo(t, x)
  BY <1>3, <1>4 DEF UpTo
<1>6. QED
  BY <1>5 DEF t, x

\* What is in order is in order without its end.
LEMMA UpToBegin ==
    ASSUME NEW s \in Seq(Nat), NEW t \in Seq(Nat), NEW n \in Nat, UpTo(s \o t, n)
    PROVE  UpTo(s, n)
<1>. DEFINE u == s \o t
<1>1. /\ Len(s) \in Nat /\ Len(t) \in Nat /\ Len(u) = Len(s) + Len(t)
      /\ \A i \in 1 .. Len(s) + Len(t) : u[i] = IF i <= Len(s) THEN s[i] ELSE t[i - Len(s)]
  BY ConcatProperties
<1>. HIDE DEF u
<1>2. \A i \in 1 .. Len(s) : i \in 1 .. Len(u) /\ u[i] = s[i]
  BY <1>1
<1>3. UpTo(u, n)
  BY DEF u
<1>4. QED
  BY <1>2, <1>3 DEF UpTo

\* A message that passes from the front of one sequence to the end of the one before
\* it leaves the order as it is.
LEMMA Passing ==
    ASSUME NEW a \in Seq(Nat), NEW b \in Seq(Nat), b # <<>>
    PROVE  /\ Append(a, Head(b)) \o Tail(b) = a \o b
           /\ Head(b) \in Nat /\ Tail(b) \in Seq(Nat) /\ Append(a, Head(b)) \in Seq(Nat)
<1>. DEFINE x == Head(b)
            t == Tail(b)
            c == Append(a, x)
<1>1. /\ x \in Nat /\ t \in Seq(Nat) /\ Len(b) \in Nat /\ Len(t) = Len(b) - 1 /\ x = b[1]
      /\ \A i \in 1 .. Len(t) : t[i] = b[i + 1]
  BY HeadTailProperties
<1>. HIDE DEF x, t
<1>2. /\ c \in Seq(Nat) /\ Len(a) \in Nat /\ Len(c) = Len(a) + 1 /\ c[Len(a) + 1] = x
      /\ \A i \in 1 .. Len(a) : c[i] = a[i]
  BY <1>1, AppendProperties
<1>. HIDE DEF c
<1>. DEFINE l == c \o t
            r == a \o b
<1>3. /\ l \in Seq(Nat) /\ Len(l) = Len(c) + Len(t)
      /\ \A i \in 1 .. Len(c) + Len(t) : l[i] = IF i <= Len(c) THEN c[i] ELSE t[i - Len(c)]
  BY <1>1, <1>2, ConcatProperties
<1>4. /\ r \in Seq(Nat) /\ Len(r) = Len(a) + Len(b)
      /\ \A i \in 1 .. Len(a) + Len(b) : r[i] = IF i <= Len(a) THEN a[i] ELSE b[i - Len(a)]
  BY ConcatProperties
<1>. HIDE DEF l, r
<1>5. Len(l) = Len(r)
  BY <1>1, <1>2, <1>3, <1>4
<1>6. ASSUME NEW i \in 1 .. Len(l)
      PROVE  l[i] = r[i]
  <2>0. i \in 1 .. Len(c) + Len(t) /\ i \in 1 .. Len(a) + Len(b)
    BY <1>3, <1>4, <1>5
  <2>1. CASE i <= Len(a)
    <3>1. i <= Len(c) /\ i \in 1 .. Len(a)
      BY <1>2, <2>0, <2>1
    <3>2. l[i] = c[i]
      BY <1>3, <2>0, <3>1
    <3>3. r[i] = a[i]
      BY <1>4, <2>0, <2>1
    <3>4. QED
      BY <1>2, <3>1, <3>2, <3>3
  <2>2. CASE i = Len(a) + 1
    <3>1. l[i] = c[i] /\ c[i] = x
      BY <1>2, <1>3, <2>0, <2>2
    <3>2. i - Len(a) = 1 /\ ~(i <= Len(a)) /\ r[i] = b[i - Len(a)]
      <4>1. i - Len(a) = 1 /\ ~(i <= Len(a))
        BY <1>2, <2>2
      <4>2. QED
        BY <1>4, <2>0, <4>1
    <3>3. QED
      BY <1>1, <3>1, <3>2
  <2>3. CASE i > Len(a) + 1
    <3>. DEFINE k == i - Len(c)
    <3>1. k \in 1 .. Len(t) /\ k + 1 = i - Len(a) /\ ~(i <= Len(c)) /\ ~(i <= Len(a))
      BY SMTT(30), <1>1, <1>2, <2>0, <2>3
    <3>2. l[i] = t[k]
      BY <1>3, <2>0, <3>1
    <3>3. r[i] = b[k + 1]
      BY <1>4, <2>0, <3>1
    <3>. HIDE DEF k
    <3>4. QED
      BY <1>1, <3>1, <3>2, <3>3
  <2>4. QED
    BY <1>2, <2>0, <2>1, <2>2, <2>3
<1>7. l = r
  BY <1>3, <1>4, <1>5, <1>6, SeqEqual
<1>8. QED
  BY <1>1, <1>2, <1>7 DEF l, r, c, x, t


LEMMA JoinAppend ==
    ASSUME NEW a \in Seq(Nat), NEW b \in Seq(Nat), NEW x \in Nat
    PROVE  a \o Append(b, x) = Append(a \o b, x)
<1>. DEFINE u == <<x>>
            v == a \o b
<1>1. u \in Seq(Nat) /\ v \in Seq(Nat)
  BY ConcatProperties
<1>2. Append(b, x) = b \o u /\ Append(v, x) = v \o u
  <2>. HIDE DEF v
  <2>1. QED
    BY <1>1, AppendIsConcat
<1>. HIDE DEF u
<1>3. (a \o b) \o u = a \o (b \o u)
  BY <1>1, Joining
<1>4. QED
  BY <1>2, <1>3

-----------------------------------------------------------------------------
(* A page and the row of messages it gets.                                 *)

SentTo(pg, event) ==
    IF ~pg.open THEN pg
    ELSE IF Len(pg.buffer) < Buffer THEN [pg EXCEPT !.buffer = Append(@, event)]
    ELSE [pg EXCEPT !.open = FALSE]

LEMMA SentIs ==
    ASSUME NEW pages, NEW event
    PROVE  Feed!Sent(pages, event) = [p \in Pages |-> SentTo(pages[p], event)]
BY DEF Feed!Sent, SentTo

LEMMA SentToParts ==
    ASSUME NEW pg \in PageRecord, NEW e \in Event
    PROVE  /\ SentTo(pg, e) \in PageRecord
           /\ SentTo(pg, e).pc = pg.pc /\ SentTo(pg, e).sent = pg.sent
           /\ SentTo(pg, e).from = pg.from /\ SentTo(pg, e).state = pg.state
           /\ ~pg.open => SentTo(pg, e) = pg
           /\ pg.open /\ Len(pg.buffer) < Buffer =>
                SentTo(pg, e).buffer = Append(pg.buffer, e) /\ SentTo(pg, e).open
           /\ pg.open /\ ~(Len(pg.buffer) < Buffer) =>
                SentTo(pg, e).buffer = pg.buffer /\ ~SentTo(pg, e).open
<1>1. pg.buffer \in Seq(Event)
  BY DEF PageRecord
<1>2. CASE ~pg.open
  BY <1>2 DEF SentTo
<1>3. CASE pg.open /\ Len(pg.buffer) < Buffer
  <2>. DEFINE b == Append(pg.buffer, e)
              q == [pg EXCEPT !.buffer = b]
  <2>1. b \in Seq(Event)
    BY <1>1, AppendProperties
  <2>2. SentTo(pg, e) = q
    BY <1>3 DEF SentTo
  <2>. HIDE DEF b
  <2>3. q \in PageRecord
    BY <2>1 DEF PageRecord
  <2>4. /\ q.pc = pg.pc /\ q.sent = pg.sent /\ q.from = pg.from /\ q.state = pg.state
        /\ q.buffer = b
    BY DEF PageRecord
  <2>5. q.open = pg.open
    BY Zenon DEF PageRecord
  <2>. HIDE DEF q
  <2>6. QED
    BY <1>3, <2>2, <2>3, <2>4, <2>5 DEF b
<1>4. CASE pg.open /\ ~(Len(pg.buffer) < Buffer)
  <2>. DEFINE q == [pg EXCEPT !.open = FALSE]
  <2>1. SentTo(pg, e) = q
    BY <1>4 DEF SentTo
  <2>2. q \in PageRecord
    BY DEF PageRecord
  <2>3. /\ q.pc = pg.pc /\ q.sent = pg.sent /\ q.from = pg.from /\ q.state = pg.state
        /\ q.buffer = pg.buffer
    BY DEF PageRecord
  <2>4. ~q.open
    BY DEF PageRecord
  <2>. HIDE DEF q
  <2>5. QED
    BY <1>4, <2>1, <2>2, <2>3, <2>4
<1>5. QED
  BY <1>2, <1>3, <1>4

LEMMA RowAppend ==
    ASSUME NEW got \in Seq(Nat), NEW from \in Nat, NEW published \in Seq(Nat), NEW x \in Nat,
           RowOf(got, from, TRUE, published)
    PROVE  RowOf(Append(got, x), from, TRUE, Append(published, x))
<1>. DEFINE g == Append(got, x)
            b == Append(published, x)
            m == Len(got)
            n == Len(published)
<1>1. /\ m \in Nat /\ Len(g) = m + 1 /\ g[m + 1] = x /\ \A k \in 1 .. m : g[k] = got[k]
      /\ n \in Nat /\ Len(b) = n + 1 /\ b[n + 1] = x /\ \A k \in 1 .. n : b[k] = published[k]
  BY AppendProperties
<1>2. /\ from >= 1 /\ from + m - 1 = n
      /\ \A k \in 1 .. m : got[k] = published[from + k - 1]
  BY DEF RowOf
<1>. HIDE DEF g, b, m, n
<1>3. from + (m + 1) - 1 = n + 1
  BY <1>1, <1>2
<1>4. ASSUME NEW k \in 1 .. m + 1
      PROVE  g[k] = b[from + k - 1]
  <2>. DEFINE i == from + k - 1
  <2>1. CASE k = m + 1
    <3>1. i = n + 1
      BY <1>1, <1>2, <2>1
    <3>. HIDE DEF i
    <3>2. QED
      BY <1>1, <2>1, <3>1 DEF i
  <2>2. CASE k # m + 1
    <3>1. k \in 1 .. m /\ i \in 1 .. n
      BY <1>1, <1>2, <2>2
    <3>2. got[k] = published[i]
      BY <1>2, <3>1
    <3>. HIDE DEF i
    <3>3. g[k] = b[i]
      BY <1>1, <3>1, <3>2
    <3>4. QED
      BY <3>3 DEF i
  <2>3. QED
    BY <2>1, <2>2
<1>5. RowOf(g, from, TRUE, b)
  BY <1>1, <1>2, <1>3, <1>4 DEF RowOf
<1>6. QED
  BY <1>5 DEF g, b

LEMMA RowShut ==
    ASSUME NEW got, NEW from, NEW open, NEW published, RowOf(got, from, open, published)
    PROVE  RowOf(got, from, FALSE, published)
BY DEF RowOf

LEMMA RowKept ==
    ASSUME NEW got \in Seq(Nat), NEW from \in Nat, NEW published \in Seq(Nat), NEW x \in Nat,
           RowOf(got, from, FALSE, published)
    PROVE  RowOf(got, from, FALSE, Append(published, x))
<1>. DEFINE b == Append(published, x)
            m == Len(got)
            n == Len(published)
<1>1. m \in Nat /\ n \in Nat /\ Len(b) = n + 1 /\ \A k \in 1 .. n : b[k] = published[k]
  BY AppendProperties
<1>2. /\ from >= 1 /\ from + m - 1 <= n
      /\ \A k \in 1 .. m : got[k] = published[from + k - 1]
  BY DEF RowOf
<1>. HIDE DEF b, m, n
<1>3. ASSUME NEW k \in 1 .. m
      PROVE  got[k] = b[from + k - 1]
  <2>. DEFINE i == from + k - 1
  <2>1. i \in 1 .. n
    BY <1>1, <1>2
  <2>2. got[k] = published[i]
    BY <1>2
  <2>. HIDE DEF i
  <2>3. got[k] = b[i]
    BY <1>1, <2>1, <2>2
  <2>4. QED
    BY <2>3 DEF i
<1>4. from + m - 1 <= Len(b)
  BY <1>1, <1>2
<1>5. from >= 1 /\ from + Len(got) - 1 <= Len(b)
  BY <1>2, <1>4 DEF m
<1>6. \A k \in 1 .. Len(got) : got[k] = b[from + k - 1]
  BY <1>3 DEF m
<1>7. RowOf(got, from, FALSE, b)
  BY <1>5, <1>6 DEF RowOf
<1>8. QED
  BY <1>7 DEF b

LEMMA GotIs ==
    ASSUME NEW pg \in PageRecord
    PROVE  /\ Got(pg) \in Seq(Nat) /\ pg.sent \in Seq(Nat) /\ pg.buffer \in Seq(Event)
           /\ Feed!MessageIds(pg.buffer) \in Seq(Nat) /\ pg.from \in Nat
<1>1. pg.sent \in Seq(Nat) /\ pg.buffer \in Seq(Event) /\ pg.from \in Nat
  BY DEF PageRecord
<1>2. Feed!MessageIds(pg.buffer) \in Seq(Nat)
  BY <1>1, IdsType
<1>3. QED
  BY <1>1, <1>2, ConcatProperties DEF Got

\* What a page gets when its channel takes one more event.
LEMMA GotMore ==
    ASSUME NEW pg \in PageRecord, NEW q \in PageRecord, NEW e \in Event,
           q.sent = pg.sent, q.buffer = Append(pg.buffer, e)
    PROVE  /\ e.name = "message" => Got(q) = Append(Got(pg), e.id)
           /\ e.name # "message" => Got(q) = Got(pg)
<1>1. Feed!MessageIds(pg.buffer) \in Seq(Nat) /\ pg.sent \in Seq(Nat) /\ pg.buffer \in Seq(Event)
  BY GotIs
<1>. DEFINE ids == Feed!MessageIds(pg.buffer)
            s == pg.sent
            x == e.id
<1>2. x \in Nat
  BY DEF Event
<1>3. /\ e.name = "message" => Feed!MessageIds(q.buffer) = Append(ids, x)
      /\ e.name # "message" => Feed!MessageIds(q.buffer) = ids
  BY <1>1, IdsAppend
<1>4. ids \in Seq(Nat) /\ s \in Seq(Nat)
  BY <1>1
<1>5. Got(pg) = s \o ids /\ Got(q) = s \o Feed!MessageIds(q.buffer)
  BY DEF Got
<1>. HIDE DEF ids, s, x
<1>6. s \o Append(ids, x) = Append(s \o ids, x)
  BY <1>2, <1>4, JoinAppend
<1>7. QED
  BY <1>3, <1>5, <1>6 DEF x

\* A message that is published keeps every page's row.
LEMMA MessageFits ==
    ASSUME NEW pg \in PageRecord, NEW published \in Seq(Nat), NEW x \in Nat, Buffer \in Nat,
           PageFits(pg, published)
    PROVE  PageFits(SentTo(pg, Feed!MessageEvent(x)), Append(published, x))
<1>. DEFINE e == Feed!MessageEvent(x)
            q == SentTo(pg, e)
            b == Append(published, x)
<1>1. e \in Event /\ e.name = "message" /\ e.id = x
  BY Events
<1>. HIDE DEF e
<1>2. /\ q \in PageRecord /\ q.pc = pg.pc /\ q.sent = pg.sent /\ q.from = pg.from
      /\ ~pg.open => q = pg
      /\ pg.open /\ Len(pg.buffer) < Buffer => q.buffer = Append(pg.buffer, e) /\ q.open
      /\ pg.open /\ ~(Len(pg.buffer) < Buffer) => q.buffer = pg.buffer /\ ~q.open
  BY <1>1, SentToParts
<1>3. /\ Got(pg) \in Seq(Nat) /\ pg.buffer \in Seq(Event) /\ pg.from \in Nat
      /\ Len(pg.buffer) \in Nat
  BY GotIs, LenProperties
<1>4. /\ Len(pg.buffer) <= Buffer /\ (pg.pc = "away" => ~pg.open)
      /\ pg.pc # "away" => RowOf(Got(pg), pg.from, pg.open, published)
  BY DEF PageFits
<1>. HIDE DEF q
<1>5. CASE ~pg.open
  <2>1. pg.pc # "away" => RowOf(Got(pg), pg.from, FALSE, published)
    BY <1>4, RowShut
  <2>2. pg.pc # "away" => RowOf(Got(pg), pg.from, FALSE, b)
    BY <1>3, <2>1, RowKept
  <2>3. pg.pc # "away" => RowOf(Got(q), q.from, q.open, b)
    BY <1>2, <1>5, <2>2 DEF RowOf
  <2>4. QED
    BY <1>2, <1>4, <1>5, <2>3 DEF PageFits, q, e
<1>6. CASE pg.open /\ Len(pg.buffer) < Buffer
  <2>1. Got(q) = Append(Got(pg), x)
    BY <1>1, <1>2, <1>6, GotMore
  <2>2. RowOf(Got(pg), pg.from, TRUE, published)
    BY <1>4, <1>6 DEF RowOf
  <2>3. RowOf(Append(Got(pg), x), pg.from, TRUE, b)
    BY <1>3, <2>2, RowAppend
  <2>4. RowOf(Got(q), q.from, q.open, b)
    BY <1>2, <1>6, <2>1, <2>3 DEF RowOf
  <2>5. Len(q.buffer) <= Buffer
    <3>1. Len(q.buffer) = Len(pg.buffer) + 1
      BY <1>1, <1>2, <1>3, <1>6, AppendProperties
    <3>2. QED
      BY <1>3, <1>6, <3>1
  <2>6. q.pc # "away"
    BY <1>2, <1>4, <1>6
  <2>7. QED
    BY <2>4, <2>5, <2>6 DEF PageFits, q, e
<1>7. CASE pg.open /\ ~(Len(pg.buffer) < Buffer)
  <2>1. RowOf(Got(pg), pg.from, FALSE, published)
    BY <1>4, <1>7, RowShut
  <2>2. RowOf(Got(pg), pg.from, FALSE, b)
    BY <1>3, <2>1, RowKept
  <2>3. Got(q) = Got(pg)
    BY <1>2, <1>7 DEF Got
  <2>4. RowOf(Got(q), q.from, q.open, b)
    BY <1>2, <1>7, <2>2, <2>3 DEF RowOf
  <2>5. QED
    BY <1>2, <1>4, <1>7, <2>4 DEF PageFits, q, e
<1>8. QED
  BY <1>5, <1>6, <1>7

\* So does a state.
LEMMA StateFits ==
    ASSUME NEW pg \in PageRecord, NEW published, NEW state \in NotifiedState, Buffer \in Nat,
           PageFits(pg, published)
    PROVE  PageFits(SentTo(pg, Feed!StateEvent(state)), published)
<1>. DEFINE e == Feed!StateEvent(state)
            q == SentTo(pg, e)
<1>1. e \in Event /\ e.name = "state"
  BY Events
<1>. HIDE DEF e
<1>2. /\ q \in PageRecord /\ q.pc = pg.pc /\ q.sent = pg.sent /\ q.from = pg.from
      /\ ~pg.open => q = pg
      /\ pg.open /\ Len(pg.buffer) < Buffer => q.buffer = Append(pg.buffer, e) /\ q.open
      /\ pg.open /\ ~(Len(pg.buffer) < Buffer) => q.buffer = pg.buffer /\ ~q.open
  BY <1>1, SentToParts
<1>3. pg.buffer \in Seq(Event) /\ Len(pg.buffer) \in Nat
  BY GotIs, LenProperties
<1>4. /\ Len(pg.buffer) <= Buffer /\ (pg.pc = "away" => ~pg.open)
      /\ pg.pc # "away" => RowOf(Got(pg), pg.from, pg.open, published)
  BY DEF PageFits
<1>. HIDE DEF q
<1>5. CASE ~pg.open
  BY <1>2, <1>5 DEF q, e
<1>6. CASE pg.open /\ Len(pg.buffer) < Buffer
  <2>1. Got(q) = Got(pg)
    BY <1>1, <1>2, <1>6, GotMore
  <2>2. q.pc # "away" /\ RowOf(Got(q), q.from, q.open, published)
    BY <1>2, <1>4, <1>6, <2>1 DEF RowOf
  <2>3. Len(q.buffer) <= Buffer
    <3>1. Len(q.buffer) = Len(pg.buffer) + 1
      BY <1>1, <1>2, <1>3, <1>6, AppendProperties
    <3>2. QED
      BY <1>3, <1>6, <3>1
  <2>4. QED
    BY <2>2, <2>3 DEF PageFits, q, e
<1>7. CASE pg.open /\ ~(Len(pg.buffer) < Buffer)
  <2>1. Got(q) = Got(pg)
    BY <1>2, <1>7 DEF Got
  <2>2. RowOf(Got(q), q.from, q.open, published)
    BY <1>2, <1>4, <1>7, <2>1 DEF RowOf
  <2>3. QED
    BY <1>2, <1>4, <1>7, <2>2 DEF PageFits, q, e
<1>8. QED
  BY <1>5, <1>6, <1>7

-----------------------------------------------------------------------------
(* The state that a page is to show in the end.                            *)

LEMMA EventAdded ==
    ASSUME NEW b \in Seq(Event), NEW e \in Event, NEW states
    PROVE  /\ e.name = "state" /\ e.state \in states =>
                LastStateIn(Append(b, e), states) /\ ~NoStateIn(Append(b, e))
           /\ e.name # "state" /\ LastStateIn(b, states) => LastStateIn(Append(b, e), states)
           /\ e.name # "state" /\ NoStateIn(Append(b, e)) => NoStateIn(b)
<1>. DEFINE c == Append(b, e)
            n == Len(b)
            m == n + 1
<1>1. /\ n \in Nat /\ m \in Nat /\ Len(c) = m /\ c[m] = e /\ m \in 1 .. m
      /\ \A i \in 1 .. n : c[i] = b[i] /\ i \in 1 .. m /\ i # m /\ m > i
      /\ \A i \in 1 .. m : i # m => i \in 1 .. n
  BY AppendProperties
<1>. HIDE DEF c, n, m
<1>2. ASSUME e.name = "state", e.state \in states
      PROVE  LastStateIn(c, states) /\ ~NoStateIn(c)
  BY <1>1, <1>2 DEF LastStateIn, NoStateIn
<1>3. ASSUME e.name # "state", LastStateIn(b, states)
      PROVE  LastStateIn(c, states)
  <2>1. SUFFICES ASSUME NEW i \in 1 .. m, c[i].name = "state",
                        \A j \in 1 .. m : j > i => c[j].name # "state"
                 PROVE  c[i].state \in states
    BY <1>1 DEF LastStateIn
  <2>2. i \in 1 .. n /\ c[i] = b[i]
    BY <1>1, <1>3, <2>1
  <2>3. ASSUME NEW j \in 1 .. n, j > i PROVE b[j].name # "state"
    BY <1>1, <2>1, <2>3
  <2>4. QED
    BY <1>3, <2>1, <2>2, <2>3 DEF LastStateIn, n
<1>4. ASSUME NoStateIn(c)
      PROVE  NoStateIn(b)
  BY <1>1, <1>4 DEF NoStateIn, n
<1>5. QED
  BY <1>2, <1>3, <1>4 DEF c

LEMMA EventTaken ==
    ASSUME NEW b \in Seq(Event), b # <<>>, NEW states, LastStateIn(b, states)
    PROVE  /\ Head(b) \in Event /\ Tail(b) \in Seq(Event) /\ Len(Tail(b)) <= Len(b)
           /\ LastStateIn(Tail(b), states)
           /\ NoStateIn(Tail(b)) /\ Head(b).name = "state" => Head(b).state \in states
           /\ NoStateIn(Tail(b)) /\ Head(b).name # "state" => NoStateIn(b)
<1>. DEFINE t == Tail(b)
            m == Len(t)
            n == Len(b)
<1>1. /\ t \in Seq(Event) /\ Head(b) \in Event /\ m \in Nat /\ n = m + 1 /\ Head(b) = b[1]
      /\ \A i \in 1 .. m : t[i] = b[i + 1] /\ i + 1 \in 1 .. n
      /\ \A i \in 1 .. n : i = 1 \/ (i - 1 \in 1 .. m /\ b[i] = t[i - 1])
      /\ 1 \in 1 .. n
  <2>1. /\ t \in Seq(Event) /\ Head(b) \in Event /\ m \in Nat /\ n = m + 1 /\ Head(b) = b[1]
        /\ \A i \in 1 .. m : t[i] = b[i + 1]
    BY HeadTailProperties
  <2>. HIDE DEF t, m, n
  <2>2. ASSUME NEW i \in 1 .. n, i # 1
        PROVE  i - 1 \in 1 .. m /\ b[i] = t[i - 1]
    <3>. DEFINE j == i - 1
    <3>1. j \in 1 .. m /\ j + 1 = i
      BY <2>1, <2>2
    <3>. HIDE DEF j
    <3>2. QED
      BY <2>1, <3>1 DEF j
  <2>3. QED
    BY <2>1, <2>2
<1>. HIDE DEF t, m, n
<1>2. \A i \in 1 .. n :
        b[i].name = "state" /\ (\A j \in 1 .. n : j > i => b[j].name # "state")
        => b[i].state \in states
  BY DEF LastStateIn, n
<1>3. LastStateIn(t, states)
  <2>1. SUFFICES ASSUME NEW i \in 1 .. m, t[i].name = "state",
                        \A j \in 1 .. m : j > i => t[j].name # "state"
                 PROVE  t[i].state \in states
    BY DEF LastStateIn, m
  <2>. DEFINE k == i + 1
  <2>2. k \in 1 .. n /\ t[i] = b[k] /\ k > 1 /\ \A j \in 1 .. n : j > k => j # 1 /\ j - 1 > i
    BY <1>1
  <2>. HIDE DEF k
  <2>3. ASSUME NEW j \in 1 .. n, j > k PROVE b[j].name # "state"
    BY <1>1, <2>1, <2>2, <2>3
  <2>4. QED
    BY <1>2, <2>1, <2>2, <2>3
<1>4. ASSUME NoStateIn(t) PROVE \A i \in 1 .. n : i # 1 => b[i].name # "state"
  BY <1>1, <1>4 DEF NoStateIn, m
<1>5. ASSUME NoStateIn(t), Head(b).name = "state" PROVE Head(b).state \in states
  <2>1. \A j \in 1 .. n : j > 1 => b[j].name # "state"
    BY <1>1, <1>4, <1>5
  <2>2. QED
    BY <1>1, <1>2, <1>5, <2>1
<1>6. ASSUME NoStateIn(t), Head(b).name # "state" PROVE NoStateIn(b)
  BY <1>1, <1>4, <1>6 DEF NoStateIn, n
<1>7. m <= n
  BY <1>1
<1>8. QED
  BY <1>1, <1>3, <1>5, <1>6, <1>7 DEF t, m, n

LEMMA CurrentAfterMessage ==
    ASSUME NEW pg \in PageRecord, NEW x \in Nat, NEW states, Current(pg, states)
    PROVE  Current(SentTo(pg, Feed!MessageEvent(x)), states)
<1>. DEFINE e == Feed!MessageEvent(x)
            q == SentTo(pg, e)
<1>1. e \in Event /\ e.name # "state"
  BY Events
<1>. HIDE DEF e
<1>2. /\ q.pc = pg.pc /\ q.state = pg.state /\ pg.buffer \in Seq(Event)
      /\ ~pg.open => q = pg
      /\ pg.open /\ Len(pg.buffer) < Buffer => q.buffer = Append(pg.buffer, e) /\ q.open
      /\ pg.open /\ ~(Len(pg.buffer) < Buffer) => q.buffer = pg.buffer /\ ~q.open
  BY <1>1, SentToParts, GotIs
<1>. HIDE DEF q
<1>3. SUFFICES ASSUME q.open
               PROVE  LastStateIn(q.buffer, states)
                      /\ (q.pc = "live" /\ NoStateIn(q.buffer) => q.state \in states)
  BY DEF Current, q, e
<1>4. pg.open /\ q.buffer = Append(pg.buffer, e)
  BY <1>2, <1>3
<1>5. QED
  BY <1>1, <1>2, <1>4, EventAdded DEF Current

LEMMA CurrentAfterState ==
    ASSUME NEW pg \in PageRecord, NEW states, NEW state \in NotifiedState, state \in states
    PROVE  Current(SentTo(pg, Feed!StateEvent(state)), states)
<1>. DEFINE e == Feed!StateEvent(state)
            q == SentTo(pg, e)
<1>1. e \in Event /\ e.name = "state" /\ e.state \in states
  BY Events
<1>. HIDE DEF e
<1>2. /\ pg.buffer \in Seq(Event)
      /\ ~pg.open => q = pg
      /\ pg.open /\ Len(pg.buffer) < Buffer => q.buffer = Append(pg.buffer, e)
      /\ pg.open /\ ~(Len(pg.buffer) < Buffer) => ~q.open
  BY <1>1, SentToParts, GotIs
<1>. HIDE DEF q
<1>3. SUFFICES ASSUME q.open
               PROVE  LastStateIn(q.buffer, states)
                      /\ (q.pc = "live" /\ NoStateIn(q.buffer) => q.state \in states)
  BY DEF Current, q, e
<1>4. q.buffer = Append(pg.buffer, e)
  BY <1>2, <1>3
<1>5. QED
  BY <1>1, <1>2, <1>4, EventAdded

-----------------------------------------------------------------------------
(* What most steps do: they leave the pages and what was published alone.  *)

LEMMA ShapesOf ==
    ASSUME FeedShapes
    PROVE  /\ queue \in Seq(Nat) /\ relay.conn \in Seq(Nat) /\ Published \in Seq(Nat)
           /\ guiServer.history \in Seq(Nat) /\ feedHist.sent \in Nat
           /\ Published \o queue \in Seq(Nat) /\ Chain \in Seq(Nat)
           /\ guiRuntime \in NotifiedState
           /\ \A p \in Pages : page[p] \in PageRecord
           /\ \A a \in Feed!Actors : notifier[a].state \in NotifiedState
           /\ relay.report \in Reports
<1>1. /\ queue \in Seq(Nat) /\ relay.conn \in Seq(Nat) /\ Published \in Seq(Nat)
      /\ guiServer.history \in Seq(Nat) /\ feedHist.sent \in Nat
  BY DEF FeedShapes, Published
<1>. DEFINE a == Published
            b == relay.conn
<1>2. a \in Seq(Nat) /\ b \in Seq(Nat)
  BY <1>1
<1>. HIDE DEF a, b
<1>3. a \o queue \in Seq(Nat)
  BY <1>1, <1>2, ConcatProperties
<1>4. (a \o queue) \o b \in Seq(Nat)
  BY <1>2, <1>3, ConcatProperties
<1>5. Published \o queue \in Seq(Nat) /\ Chain \in Seq(Nat)
  BY <1>3, <1>4 DEF a, b, Chain
<1>6. guiRuntime \in NotifiedState /\ \A p \in Pages : page[p] \in PageRecord
  BY DEF FeedShapes
<1>7. relay.report \in Reports
  BY DEF FeedShapes
<1>8. \A w \in Feed!Actors : notifier[w].state \in NotifiedState
  BY DEF FeedShapes
<1>9. QED
  BY <1>1, <1>5, <1>6, <1>7, <1>8

\* The client loses its connection, and with it what was on its way.
LEMMA ChainCut ==
    ASSUME FeedShapes, ChainInOrder, Published' = Published, queue' = queue,
           relay'.conn = relay.conn \/ relay'.conn = <<>>, feedHist'.sent = feedHist.sent
    PROVE  ChainInOrder'
<1>. DEFINE s == Published \o queue
            t == relay.conn
            n == feedHist.sent
<1>1. s \in Seq(Nat) /\ t \in Seq(Nat) /\ n \in Nat /\ UpTo(s \o t, n)
  BY ShapesOf DEF ChainInOrder, Chain
<1>2. CASE relay'.conn = t
  BY <1>2 DEF ChainInOrder, Chain
<1>3. CASE relay'.conn = <<>>
  <2>1. Chain' = s \o <<>> /\ feedHist'.sent = n
    BY <1>3 DEF Chain
  <2>. HIDE DEF s, t, n
  <2>2. UpTo(s, n) /\ s \o <<>> = s
    BY <1>1, UpToBegin, ConcatEmptySeq
  <2>3. QED
    BY <2>1, <2>2 DEF ChainInOrder
<1>4. QED
  BY <1>2, <1>3

RelayRecord == [pc : RelayStates, conn : Seq(Nat), report : Reports, then : RelayStates]
FeedHistory ==
    [ctx : BOOLEAN, sent : Nat, faults : Nat, visits : Nat, since : SUBSET NotifiedState]
NotifierTable == [Feed!Actors -> [pc : {"idle", "read", "publish"}, state : NotifiedState]]

LEMMA OtherShapes ==
    ASSUME FeedShapes, UNCHANGED <<queue, guiRuntime, notifier, guiServer, page>>,
           relay' \in RelayRecord, feedHist' \in FeedHistory
    PROVE  FeedShapes'
BY DEF FeedShapes, RelayRecord, FeedHistory

LEMMA Elsewhere ==
    ASSUME FeedInv, UNCHANGED <<queue, guiRuntime, notifier, guiServer, page>>,
           relay' \in RelayRecord, relay'.conn = relay.conn \/ relay'.conn = <<>>,
           feedHist' \in FeedHistory, feedHist'.sent = feedHist.sent,
           feedHist'.since = feedHist.since
    PROVE  FeedInv'
<1>1. /\ FeedShapes /\ HistoryIsNewest /\ ChainInOrder /\ NewestFollows
      /\ \A p \in Pages : PageFits(page[p], Published)
  BY DEF FeedInv
<1>2. FeedShapes'
  BY <1>1, OtherShapes
<1>3. Published' = Published
  BY DEF Published
<1>4. HistoryIsNewest'
  BY <1>1, <1>3 DEF HistoryIsNewest
<1>5. ChainInOrder'
  BY <1>1, <1>3, ChainCut
<1>6. NewestFollows'
  BY <1>1 DEF NewestFollows, Feed!Still
<1>7. \A p \in Pages : PageFits(page'[p], Published')
  BY <1>1, <1>3
<1>8. QED
  BY <1>2, <1>4, <1>5, <1>6, <1>7 DEF FeedInv

LEMMA FaultyIs ==
    ASSUME feedHist \in FeedHistory
    PROVE  /\ Feed!Faulty \in FeedHistory /\ Feed!Faulty.sent = feedHist.sent
           /\ Feed!Faulty.since = feedHist.since
<1>1. Feed!Faulty = [feedHist EXCEPT !.faults = feedHist.faults + 1]
  BY DEF Feed!Faulty
<1>2. feedHist.faults + 1 \in Nat
  BY DEF FeedHistory
<1>3. QED
  BY <1>1, <1>2 DEF FeedHistory

LEMMA ReportingIs ==
    ASSUME NEW value \in Reports, NEW then \in RelayStates
    PROVE  Feed!Reporting(value, then) \in RelayRecord /\ Feed!Reporting(value, then).conn = <<>>
BY DEF Feed!Reporting, RelayRecord, RelayStates

LEMMA FailedIs ==
    Feed!Failed \in RelayRecord /\ Feed!Failed.conn = <<>>
<1>1. /\ "reconnecting" \in Reports /\ "stopped" \in Reports
      /\ "wait" \in RelayStates /\ "ended" \in RelayStates
  BY DEF Reports, RelayStates
<1>2. Feed!Failed = Feed!Reporting("reconnecting", "wait")
      \/ Feed!Failed = Feed!Reporting("stopped", "ended")
  BY DEF Feed!Failed
<1>3. QED
  BY <1>1, <1>2, ReportingIs

LEMMA RelayAt ==
    ASSUME relay \in RelayRecord, NEW pc \in RelayStates, relay' = [relay EXCEPT !.pc = pc]
    PROVE  relay' \in RelayRecord /\ relay'.conn = relay.conn
BY DEF RelayRecord

\* Steps of the client and of the context that reach neither queue nor pages.
LEMMA ClientAlone ==
    ASSUME FeedInv,
           \/ Feed!Dial \/ Feed!DialRejected \/ Feed!ReportRejected \/ Feed!ConnectionLost
           \/ Feed!ReadCancelled \/ Feed!RetryTimer \/ Feed!WaitCancelled \/ Feed!Cancel
    PROVE  FeedInv'
<1>1. relay \in RelayRecord /\ feedHist \in FeedHistory
  BY DEF FeedInv, FeedShapes, RelayRecord, FeedHistory
<1>2. /\ \A r \in {"connected", "authentication failed", "failed"} : r \in Reports
      /\ \A s \in {"reading", "rejected", "ended", "dial"} : s \in RelayStates
  BY DEF Reports, RelayStates
<1>3. /\ Feed!Faulty \in FeedHistory /\ Feed!Faulty.sent = feedHist.sent
      /\ Feed!Faulty.since = feedHist.since
  BY <1>1, FaultyIs
<1>4. CASE Feed!Dial
  <2>1. UNCHANGED <<queue, guiRuntime, notifier, guiServer, page>>
    BY <1>4 DEF Feed!Dial
  <2>2. /\ relay' = Feed!Reporting("connected", "reading") \/ relay' = Feed!Failed
        /\ feedHist' = feedHist \/ feedHist' = Feed!Faulty
    BY <1>4 DEF Feed!Dial
  <2>3. relay' \in RelayRecord /\ relay'.conn = <<>>
    BY <1>2, <2>2, ReportingIs, FailedIs
  <2>4. QED
    BY <1>1, <1>3, <2>1, <2>2, <2>3, Elsewhere
<1>5. CASE Feed!DialRejected
  <2>1. /\ UNCHANGED <<queue, guiRuntime, notifier, guiServer, page>>
        /\ relay' = Feed!Reporting("authentication failed", "rejected")
        /\ feedHist' = Feed!Faulty
    BY <1>5 DEF Feed!DialRejected
  <2>2. relay' \in RelayRecord /\ relay'.conn = <<>>
    BY <1>2, <2>1, ReportingIs
  <2>3. QED
    BY <1>3, <2>1, <2>2, Elsewhere
<1>6. CASE Feed!ReportRejected
  <2>1. /\ UNCHANGED <<queue, guiRuntime, notifier, guiServer, page>>
        /\ relay' = Feed!Reporting("failed", "ended") /\ feedHist' = feedHist
    BY <1>6 DEF Feed!ReportRejected
  <2>2. relay' \in RelayRecord /\ relay'.conn = <<>>
    BY <1>2, <2>1, ReportingIs
  <2>3. QED
    BY <1>1, <2>1, <2>2, Elsewhere
<1>7. CASE Feed!ConnectionLost \/ Feed!ReadCancelled
  <2>1. /\ UNCHANGED <<queue, guiRuntime, notifier, guiServer, page>>
        /\ relay' = Feed!Failed /\ (feedHist' = Feed!Faulty \/ feedHist' = feedHist)
    BY <1>7 DEF Feed!ConnectionLost, Feed!ReadCancelled
  <2>2. QED
    BY <1>1, <1>3, <2>1, FailedIs, Elsewhere
<1>8. CASE Feed!RetryTimer
  <2>1. /\ UNCHANGED <<queue, guiRuntime, notifier, guiServer, page>>
        /\ relay' = [relay EXCEPT !.pc = "dial"] /\ feedHist' = feedHist
    BY <1>8 DEF Feed!RetryTimer
  <2>2. relay' \in RelayRecord /\ relay'.conn = relay.conn
    BY <1>1, <1>2, <2>1, RelayAt
  <2>3. QED
    BY <1>1, <2>1, <2>2, Elsewhere
<1>9. CASE Feed!WaitCancelled
  <2>1. /\ UNCHANGED <<queue, guiRuntime, notifier, guiServer, page>>
        /\ relay' = [relay EXCEPT !.pc = "ended"] /\ feedHist' = feedHist
    BY <1>9 DEF Feed!WaitCancelled
  <2>2. relay' \in RelayRecord /\ relay'.conn = relay.conn
    BY <1>1, <1>2, <2>1, RelayAt
  <2>3. QED
    BY <1>1, <2>1, <2>2, Elsewhere
<1>10. CASE Feed!Cancel
  <2>1. /\ UNCHANGED <<queue, guiRuntime, notifier, guiServer, page>>
        /\ relay' = relay /\ feedHist' = [feedHist EXCEPT !.ctx = FALSE]
    BY <1>10 DEF Feed!Cancel
  <2>2. /\ feedHist' \in FeedHistory /\ feedHist'.sent = feedHist.sent
        /\ feedHist'.since = feedHist.since
    BY <1>1, <2>1 DEF FeedHistory
  <2>3. QED
    BY <1>1, <2>1, <2>2, Elsewhere
<1>11. QED
  BY <1>4, <1>5, <1>6, <1>7, <1>8, <1>9, <1>10

\* The runtime changes, and the pages are to be told.
LEMMA NotifyKeeps ==
    ASSUME Feed!ConstantsOK, FeedInv, NEW a \in Feed!Actors, NEW state \in NotifiedState,
           notifier[a].pc = "idle", Feed!Notify(a, state),
           UNCHANGED <<queue, guiServer, page>>,
           relay' \in RelayRecord, relay'.conn = relay.conn
    PROVE  FeedInv'
<1>1. /\ FeedShapes /\ HistoryIsNewest /\ ChainInOrder /\ NewestFollows
      /\ \A p \in Pages : PageFits(page[p], Published)
  BY DEF FeedInv
<1>. DEFINE before == IF Feed!Still THEN {} ELSE feedHist.since
            states == before \cup {state}
<1>2. /\ guiRuntime' = state /\ notifier' = [notifier EXCEPT ![a].pc = "read"]
      /\ feedHist' = [feedHist EXCEPT !.since = states]
  BY DEF Feed!Notify
<1>3. notifier \in NotifierTable /\ feedHist \in FeedHistory
  BY <1>1 DEF FeedShapes, NotifierTable, FeedHistory
<1>4. states \in SUBSET NotifiedState
  <2>1. feedHist.since \in SUBSET NotifiedState
    BY <1>3 DEF FeedHistory
  <2>2. QED
    BY <2>1
<1>5. state \in states /\ (~Feed!Still => feedHist.since \subseteq states)
  OBVIOUS
<1>. HIDE DEF states, before
<1>6. /\ feedHist' \in FeedHistory /\ feedHist'.sent = feedHist.sent
      /\ feedHist'.since = states
  BY <1>2, <1>3, <1>4 DEF FeedHistory
<1>7. /\ notifier' \in NotifierTable /\ notifier'[a].pc = "read"
      /\ \A w \in Feed!Actors : w # a => notifier'[w] = notifier[w]
  BY <1>2, <1>3 DEF NotifierTable
<1>8. FeedShapes'
  BY <1>1, <1>2, <1>6, <1>7 DEF FeedShapes, RelayRecord, NotifierTable, FeedHistory
<1>9. Published' = Published
  BY DEF Published
<1>10. HistoryIsNewest' /\ (\A p \in Pages : PageFits(page'[p], Published'))
  BY <1>1, <1>9 DEF HistoryIsNewest
<1>11. ChainInOrder'
  BY <1>1, <1>6, <1>9, ChainCut
<1>12. NewestFollows'
  <2>1. ASSUME NEW w \in Feed!Actors, notifier'[w].pc = "publish"
        PROVE  notifier'[w].state \in states
    <3>1. notifier[w].pc = "publish" /\ notifier'[w].state = notifier[w].state
      BY <1>7, <2>1
    <3>2. ~Feed!Still
      BY <3>1 DEF Feed!Still
    <3>3. QED
      BY <1>1, <1>5, <3>1, <3>2 DEF NewestFollows
  <2>2. ~Feed!Still'
    BY <1>7 DEF Feed!Still
  <2>3. QED
    BY <1>2, <1>5, <1>6, <2>1, <2>2 DEF NewestFollows
<1>13. QED
  BY <1>8, <1>10, <1>11, <1>12 DEF FeedInv

\* A report reaches the runtime, and the pages are to be told if it is a change.
LEMMA ReportKeeps ==
    ASSUME Feed!ConstantsOK, FeedInv, Feed!Report
    PROVE  FeedInv'
<1>1. /\ relay \in RelayRecord /\ guiRuntime \in NotifiedState /\ feedHist \in FeedHistory
      /\ relay.report \in Reports /\ "client" \in Feed!Actors
  BY FeedNumbers DEF FeedInv, FeedShapes, RelayRecord, FeedHistory
<1>2. /\ relay' = [relay EXCEPT !.pc = relay.then] /\ notifier["client"].pc = "idle"
      /\ UNCHANGED <<queue, guiServer, page>>
  BY DEF Feed!Report
<1>3. relay' \in RelayRecord /\ relay'.conn = relay.conn
  <2>1. relay.then \in RelayStates
    BY <1>1 DEF RelayRecord
  <2>2. QED
    BY <1>1, <1>2, <2>1, RelayAt
<1>4. CASE UNCHANGED <<guiRuntime, notifier, feedHist>>
  BY <1>1, <1>2, <1>3, <1>4, Elsewhere
<1>5. CASE Feed!Notify("client", [guiRuntime EXCEPT !.relay = relay.report])
  <2>. DEFINE state == [guiRuntime EXCEPT !.relay = relay.report]
  <2>1. state \in NotifiedState
    BY <1>1 DEF NotifiedState
  <2>2. Feed!Notify("client", state)
    BY <1>5
  <2>. HIDE DEF state
  <2>3. QED
    BY <1>1, <1>2, <1>3, <2>1, <2>2, NotifyKeeps
<1>6. QED
  BY <1>4, <1>5 DEF Feed!Report

\* A request selects a target, or asks the platforms.
LEMMA RequestKeeps ==
    ASSUME Feed!ConstantsOK, FeedInv, NEW h \in Handlers,
           Feed!SelectTarget(h) \/ Feed!RefreshStatus(h)
    PROVE  FeedInv'
<1>1. relay \in RelayRecord /\ guiRuntime \in NotifiedState /\ h \in Feed!Actors
  BY DEF FeedInv, FeedShapes, RelayRecord, Feed!Actors
<1>2. notifier[h].pc = "idle" /\ UNCHANGED <<relay, queue, guiServer, page>>
  BY DEF Feed!SelectTarget, Feed!RefreshStatus
<1>3. PICK state : state \in NotifiedState /\ Feed!Notify(h, state)
  <2>1. CASE Feed!SelectTarget(h)
    <3>1. PICK target \in Targets : Feed!Notify(h, [guiRuntime EXCEPT !.selected = target])
      BY <2>1 DEF Feed!SelectTarget
    <3>2. [guiRuntime EXCEPT !.selected = target] \in NotifiedState
      BY <1>1 DEF NotifiedState
    <3>3. QED
      BY <3>1, <3>2
  <2>2. CASE Feed!RefreshStatus(h)
    <3>1. PICK status \in Statuses : Feed!Notify(h, [guiRuntime EXCEPT !.streams = status])
      BY <2>2 DEF Feed!RefreshStatus
    <3>2. [guiRuntime EXCEPT !.streams = status] \in NotifiedState
      BY <1>1 DEF NotifiedState
    <3>3. QED
      BY <3>1, <3>2
  <2>3. QED
    BY <2>1, <2>2
<1>4. relay' \in RelayRecord /\ relay'.conn = relay.conn
  BY <1>1, <1>2
<1>5. QED
  BY <1>1, <1>2, <1>3, <1>4, NotifyKeeps

\* The state is read again.
LEMMA ReadStateKeeps ==
    ASSUME FeedInv, NEW a \in Feed!Actors, Feed!ReadState(a)
    PROVE  FeedInv'
<1>1. /\ FeedShapes /\ HistoryIsNewest /\ ChainInOrder /\ NewestFollows
      /\ \A p \in Pages : PageFits(page[p], Published)
  BY DEF FeedInv
<1>2. /\ notifier' = [notifier EXCEPT ![a] = [pc |-> "publish", state |-> guiRuntime]]
      /\ UNCHANGED <<relay, queue, guiRuntime, guiServer, page, feedHist>>
  BY DEF Feed!ReadState
<1>3. notifier \in NotifierTable /\ guiRuntime \in NotifiedState
  BY <1>1 DEF FeedShapes, NotifierTable
<1>4. /\ notifier' \in NotifierTable
      /\ notifier'[a].pc = "publish" /\ notifier'[a].state = guiRuntime
      /\ \A w \in Feed!Actors : w # a => notifier'[w] = notifier[w]
  BY <1>2, <1>3 DEF NotifierTable
<1>5. FeedShapes'
  BY <1>1, <1>2, <1>4 DEF FeedShapes, NotifierTable
<1>6. Published' = Published /\ Chain' = Chain
  BY <1>2 DEF Published, Chain
<1>7. HistoryIsNewest' /\ ChainInOrder' /\ (\A p \in Pages : PageFits(page'[p], Published'))
  BY <1>1, <1>2, <1>6 DEF HistoryIsNewest, ChainInOrder
<1>8. NewestFollows'
  <2>1. ASSUME NEW w \in Feed!Actors, notifier'[w].pc = "publish"
        PROVE  notifier'[w].state \in feedHist.since
    BY <1>1, <1>4, <2>1 DEF NewestFollows
  <2>2. ~Feed!Still'
    BY <1>4 DEF Feed!Still
  <2>3. QED
    BY <1>1, <1>2, <2>1, <2>2 DEF NewestFollows
<1>9. QED
  BY <1>5, <1>7, <1>8 DEF FeedInv

\* The listener is called, and the pages are told.
LEMMA PublishStateKeeps ==
    ASSUME Feed!ConstantsOK, FeedInv, NEW a \in Feed!Actors, Feed!PublishState(a)
    PROVE  FeedInv'
<1>1. /\ FeedShapes /\ HistoryIsNewest /\ ChainInOrder /\ NewestFollows
      /\ \A p \in Pages : PageFits(page[p], Published)
  BY DEF FeedInv
<1>. DEFINE s == notifier[a].state
<1>2. /\ notifier[a].pc = "publish" /\ notifier' = [notifier EXCEPT ![a] = Feed!Quiet]
      /\ page' = Feed!Sent(page, Feed!StateEvent(s))
      /\ UNCHANGED <<relay, queue, guiRuntime, guiServer, feedHist>>
  BY DEF Feed!PublishState
<1>3. /\ notifier \in NotifierTable /\ s \in NotifiedState
      /\ \A p \in Pages : page[p] \in PageRecord
  BY <1>1, ShapesOf DEF FeedShapes, NotifierTable
<1>. HIDE DEF s
<1>. DEFINE e == Feed!StateEvent(s)
<1>4. e \in Event
  BY <1>3, Events
<1>. HIDE DEF e
<1>5. page' = [p \in Pages |-> SentTo(page[p], e)]
  BY <1>2, SentIs DEF e
<1>6. page' \in [Pages -> PageRecord]
  BY <1>3, <1>4, <1>5, SentToParts
<1>7. notifier' \in NotifierTable
  <2>1. Feed!Quiet \in [pc : {"idle", "read", "publish"}, state : NotifiedState]
    BY Events DEF Feed!Quiet
  <2>2. QED
    BY <1>2, <1>3, <2>1 DEF NotifierTable
<1>8. FeedShapes'
  BY <1>1, <1>2, <1>6, <1>7 DEF FeedShapes, NotifierTable
<1>9. Published' = Published /\ Chain' = Chain
  BY <1>2 DEF Published, Chain
<1>10. HistoryIsNewest' /\ ChainInOrder'
  BY <1>1, <1>2, <1>9 DEF HistoryIsNewest, ChainInOrder
<1>11. ASSUME NEW p \in Pages
       PROVE  PageFits(page'[p], Published')
  <2>1. Buffer \in Nat /\ page[p] \in PageRecord /\ PageFits(page[p], Published)
    BY <1>1, <1>3, FeedNumbers
  <2>2. PageFits(SentTo(page[p], Feed!StateEvent(s)), Published)
    BY <1>3, <2>1, StateFits
  <2>3. QED
    BY <1>5, <1>9, <2>2 DEF e
<1>12. NewestFollows'
  <2>1. s \in feedHist.since
    BY <1>1, <1>2 DEF NewestFollows, s
  <2>2. ASSUME NEW w \in Feed!Actors, notifier'[w].pc = "publish"
        PROVE  notifier'[w].state \in feedHist.since
    <3>1. w # a /\ notifier'[w] = notifier[w]
      BY <1>2, <1>3, <2>2 DEF NotifierTable, Feed!Quiet
    <3>2. QED
      BY <1>1, <2>2, <3>1 DEF NewestFollows
  <2>3. \A p \in Pages : Current(SentTo(page[p], Feed!StateEvent(s)), feedHist.since)
    BY <1>3, <2>1, CurrentAfterState
  <2>4. \A p \in Pages : Current(page'[p], feedHist.since)
    BY <1>5, <2>3 DEF e
  <2>5. QED
    BY <1>1, <1>2, <2>2, <2>4 DEF NewestFollows
<1>13. QED
  BY <1>8, <1>10, <1>11, <1>12 DEF FeedInv

-----------------------------------------------------------------------------
(* Messages on their way from the relay to the pages.                      *)

LEMMA BroadcastKeeps ==
    ASSUME FeedInv, Feed!Broadcast
    PROVE  FeedInv'
<1>1. /\ FeedShapes /\ HistoryIsNewest /\ ChainInOrder /\ NewestFollows
      /\ \A p \in Pages : PageFits(page[p], Published)
  BY DEF FeedInv
<1>. DEFINE n == feedHist.sent
            x == n + 1
            c == Append(relay.conn, x)
            s == Published \o queue
<1>2. /\ feedHist' = [feedHist EXCEPT !.sent = x]
      /\ relay' = [relay EXCEPT !.conn = c] \/ relay' = relay
      /\ UNCHANGED <<queue, guiRuntime, notifier, guiServer, page>>
  BY DEF Feed!Broadcast
<1>3. /\ relay \in RelayRecord /\ feedHist \in FeedHistory /\ n \in Nat /\ x \in Nat /\ n <= x
      /\ relay.conn \in Seq(Nat) /\ s \in Seq(Nat)
  <2>1. relay \in RelayRecord /\ feedHist \in FeedHistory
    BY <1>1 DEF FeedShapes, RelayRecord, FeedHistory
  <2>2. n \in Nat /\ relay.conn \in Seq(Nat) /\ s \in Seq(Nat)
    BY <1>1, ShapesOf
  <2>. HIDE DEF n
  <2>3. x \in Nat /\ n <= x
    BY <2>2
  <2>4. QED
    BY <2>1, <2>2, <2>3
<1>4. UpTo(s \o relay.conn, n)
  BY <1>1 DEF ChainInOrder, Chain
<1>5. s \o c = Append(s \o relay.conn, x) /\ c \in Seq(Nat) /\ s \o relay.conn \in Seq(Nat)
  <2>. HIDE DEF x, s
  <2>1. QED
    BY <1>3, JoinAppend, Appending, ConcatProperties
<1>6. UpTo(s \o c, x) /\ UpTo(s \o relay.conn, x)
  <2>. DEFINE w == s \o relay.conn
  <2>1. w \in Seq(Nat) /\ UpTo(w, n)
    BY <1>4, <1>5
  <2>. HIDE DEF w
  <2>2. UpTo(Append(w, x), x)
    <3>. HIDE DEF n
    <3>1. UpTo(Append(w, n + 1), n + 1)
      BY <1>3, <2>1, UpToAppend
    <3>2. QED
      BY <3>1
  <2>3. UpTo(w, x)
    <3>. HIDE DEF x, n
    <3>1. QED
      BY <1>3, <2>1, UpToMore
  <2>. HIDE DEF x
  <2>4. s \o c = Append(w, x)
    BY <1>5 DEF w
  <2>5. QED
    BY <2>2, <2>3, <2>4 DEF w
<1>7. Published' = Published /\ Published' \o queue' = s
  BY <1>2 DEF Published
<1>. HIDE DEF x, c
<1>8. /\ feedHist' \in FeedHistory /\ feedHist'.sent = x
      /\ feedHist'.since = feedHist.since
  BY <1>2, <1>3 DEF FeedHistory
<1>9. relay' \in RelayRecord /\ (relay'.conn = c \/ relay'.conn = relay.conn)
  BY <1>2, <1>3, <1>5 DEF RelayRecord
<1>. HIDE DEF s
<1>10. ChainInOrder'
  <2>1. Chain' = s \o relay'.conn
    BY <1>7 DEF Chain
  <2>2. QED
    BY <1>6, <1>8, <1>9, <2>1 DEF ChainInOrder
<1>11. FeedShapes'
  BY <1>1, <1>2, <1>8, <1>9, OtherShapes
<1>12. HistoryIsNewest' /\ NewestFollows' /\ (\A p \in Pages : PageFits(page'[p], Published'))
  BY <1>1, <1>2, <1>7, <1>8 DEF HistoryIsNewest, NewestFollows, Feed!Still
<1>13. QED
  BY <1>10, <1>11, <1>12 DEF FeedInv

LEMMA ReadMessageKeeps ==
    ASSUME Feed!ConstantsOK, FeedInv, Feed!ReadMessage
    PROVE  FeedInv'
<1>1. /\ FeedShapes /\ HistoryIsNewest /\ ChainInOrder /\ NewestFollows
      /\ \A p \in Pages : PageFits(page[p], Published)
  BY DEF FeedInv
<1>. DEFINE c == relay.conn
            x == Head(c)
            t == Tail(c)
            b == Published
            s == b \o queue
            q == Append(queue, x)
<1>2. /\ c # <<>> /\ Len(queue) < QueueSize
      /\ queue' = q /\ relay' = [relay EXCEPT !.conn = t]
      /\ UNCHANGED <<guiRuntime, notifier, guiServer, page, feedHist>>
  BY DEF Feed!ReadMessage
<1>3. /\ relay \in RelayRecord /\ c \in Seq(Nat) /\ b \in Seq(Nat) /\ queue \in Seq(Nat)
      /\ s \in Seq(Nat)
  <2>1. relay \in RelayRecord
    BY <1>1 DEF FeedShapes, RelayRecord
  <2>2. QED
    BY <1>1, <2>1, ShapesOf
<1>. HIDE DEF c, b, s
<1>4. Append(s, x) \o t = s \o c /\ x \in Nat /\ t \in Seq(Nat)
  BY <1>2, <1>3, Passing
<1>5. b \o q = Append(s, x)
  <2>. HIDE DEF x
  <2>1. QED
    BY <1>3, <1>4, JoinAppend DEF s
<1>6. Published' = b
  BY <1>2 DEF Published, b
<1>. HIDE DEF x, t
<1>7. q \in Seq(Nat) /\ Len(q) <= QueueSize
  <2>1. QueueSize \in Nat /\ Len(queue) \in Nat /\ Len(q) = Len(queue) + 1 /\ q \in Seq(Nat)
    BY <1>3, <1>4, FeedNumbers, AppendProperties
  <2>. HIDE DEF q
  <2>2. QED
    BY <1>2, <2>1
<1>. HIDE DEF q
<1>8. relay' \in RelayRecord /\ relay'.conn = t
  BY <1>2, <1>3, <1>4 DEF RelayRecord
<1>9. Chain' = Chain
  <2>1. Chain' = (b \o q) \o t
    BY <1>2, <1>6, <1>8 DEF Chain
  <2>2. Chain = s \o c
    BY DEF Chain, s, b, c
  <2>3. QED
    BY <1>4, <1>5, <2>1, <2>2
<1>10. ChainInOrder'
  BY <1>1, <1>2, <1>9 DEF ChainInOrder
<1>11. FeedShapes'
  BY <1>1, <1>2, <1>7, <1>8 DEF FeedShapes, RelayRecord
<1>12. HistoryIsNewest' /\ NewestFollows' /\ (\A p \in Pages : PageFits(page'[p], Published'))
  BY <1>1, <1>2, <1>6 DEF HistoryIsNewest, NewestFollows, Feed!Still, b
<1>13. QED
  BY <1>10, <1>11, <1>12 DEF FeedInv

\* The history grows with what is published, and loses its oldest message when it is
\* longer than it may be.
LEMMA NewestKept ==
    ASSUME NEW history \in Seq(Nat), NEW published \in Seq(Nat), NEW x \in Nat,
           HistoryLimit \in Nat \ {0},
           Len(history) <= Len(published), Len(history) <= HistoryLimit,
           Len(history) = Len(published) \/ Len(history) = HistoryLimit,
           \A k \in 1 .. Len(history) :
              history[k] = published[Len(published) - Len(history) + k],
           NEW kept,
           kept = LET all == Append(history, x)
                  IN IF Len(all) > HistoryLimit THEN Tail(all) ELSE all
    PROVE  LET m == Len(kept)
               n == Len(Append(published, x))
           IN  /\ kept \in Seq(Nat)
               /\ m <= n /\ m <= HistoryLimit /\ (m = n \/ m = HistoryLimit)
               /\ \A k \in 1 .. m : kept[k] = Append(published, x)[n - m + k]
<1>. DEFINE a == Append(history, x)
            b == Append(published, x)
            m == Len(history)
            n == Len(published)
            L == HistoryLimit
<1>1. /\ a \in Seq(Nat) /\ m \in Nat /\ Len(a) = m + 1 /\ a[m + 1] = x
      /\ \A k \in 1 .. m : a[k] = history[k]
      /\ b \in Seq(Nat) /\ n \in Nat /\ Len(b) = n + 1 /\ b[n + 1] = x
      /\ \A k \in 1 .. n : b[k] = published[k]
  BY AppendProperties
<1>2. kept = IF Len(a) > L THEN Tail(a) ELSE a
  OBVIOUS
<1>3. /\ L \in Nat /\ L > 0 /\ m <= n /\ m <= L /\ (m = n \/ m = L)
      /\ \A k \in 1 .. m : history[k] = published[n - m + k]
  OBVIOUS
<1>. HIDE DEF a, b, m, n, L
<1>4. ASSUME NEW k \in 1 .. m + 1
      PROVE  a[k] = b[n - m + k]
  <2>. DEFINE i == n - m + k
  <2>1. CASE k = m + 1
    <3>1. i = n + 1
      BY <1>1, <2>1
    <3>. HIDE DEF i
    <3>2. QED
      BY <1>1, <2>1, <3>1 DEF i
  <2>2. CASE k # m + 1
    <3>1. k \in 1 .. m /\ i \in 1 .. n
      BY <1>1, <1>3, <2>2
    <3>2. history[k] = published[i]
      BY <1>3, <3>1
    <3>. HIDE DEF i
    <3>3. a[k] = b[i]
      BY <1>1, <3>1, <3>2
    <3>4. QED
      BY <3>3 DEF i
  <2>3. QED
    BY <2>1, <2>2
<1>5. CASE m + 1 > L
  <2>. DEFINE t == Tail(a)
  <2>1. /\ t \in Seq(Nat) /\ Len(t) = m /\ \A k \in 1 .. m : t[k] = a[k + 1]
    <3>1. a # <<>>
      BY <1>1
    <3>2. t \in Seq(Nat) /\ Len(t) = Len(a) - 1 /\ \A k \in 1 .. Len(t) : t[k] = a[k + 1]
      BY <1>1, <3>1, HeadTailProperties
    <3>. HIDE DEF t
    <3>3. Len(t) = m
      BY <1>1, <3>2
    <3>4. QED
      BY <3>2, <3>3
  <2>2. kept = t
    BY <1>1, <1>2, <1>5
  <2>. HIDE DEF t
  <2>3. m = L
    BY <1>1, <1>3, <1>5
  <2>4. ASSUME NEW k \in 1 .. m
        PROVE  t[k] = b[(n + 1) - m + k]
    <3>. DEFINE j == k + 1
    <3>1. j \in 1 .. m + 1 /\ n - m + j = (n + 1) - m + k
      BY <1>1
    <3>2. t[k] = a[j]
      BY <2>1
    <3>. HIDE DEF j
    <3>3. a[j] = b[n - m + j]
      BY <1>4, <3>1
    <3>4. QED
      BY <3>1, <3>2, <3>3
  <2>5. m <= n + 1
    BY <1>1, <1>3
  <2>6. Len(kept) = m /\ Len(b) = n + 1
    BY <1>1, <2>1, <2>2
  <2>7. QED
    BY <1>3, <2>1, <2>2, <2>3, <2>4, <2>5, <2>6 DEF b, L
<1>6. CASE ~(m + 1 > L)
  <2>1. kept = a /\ Len(kept) = m + 1 /\ Len(b) = n + 1
    BY <1>1, <1>2, <1>6
  <2>2. m = n /\ m + 1 <= L
    BY <1>1, <1>3, <1>6
  <2>3. ASSUME NEW k \in 1 .. m + 1
        PROVE  a[k] = b[(n + 1) - (m + 1) + k]
    <3>1. (n + 1) - (m + 1) + k = n - m + k
      BY <1>1
    <3>2. QED
      BY <1>4, <3>1
  <2>4. m + 1 <= n + 1 /\ m + 1 <= L /\ m + 1 = n + 1
    BY <1>1, <2>2
  <2>5. QED
    BY <1>1, <2>1, <2>3, <2>4 DEF b, L
<1>7. QED
  BY <1>1, <1>5, <1>6

\* The history is that part of what was published, as a sequence.
LEMMA HistoryIs ==
    ASSUME Feed!ConstantsOK, FeedShapes, HistoryIsNewest
    PROVE  LET n == Len(Published)
               m == Len(guiServer.history)
           IN  /\ m = IF n <= HistoryLimit THEN n ELSE HistoryLimit
               /\ guiServer.history = SubSeq(Published, n - m + 1, n)
<1>. DEFINE b == Published
            n == Len(b)
            old == guiServer.history
            m == Len(old)
            u == n - m + 1
            sub == SubSeq(b, u, n)
<1>1. b \in Seq(Nat) /\ old \in Seq(Nat) /\ n \in Nat /\ m \in Nat
  BY ShapesOf, LenProperties
<1>2. /\ m <= n /\ m <= HistoryLimit /\ (m = n \/ m = HistoryLimit) /\ HistoryLimit \in Nat
      /\ \A i \in 1 .. m : old[i] = b[n - m + i]
  BY FeedNumbers DEF HistoryIsNewest
<1>. HIDE DEF b, old
<1>3. \A w \in 1 .. n + 1 :
        /\ SubSeq(b, w, n) \in Seq(Nat) /\ Len(SubSeq(b, w, n)) = n - w + 1
        /\ \A i \in 1 .. (n - w + 1) : SubSeq(b, w, n)[i] = b[w + i - 1]
  BY <1>1, SubSeqProperties
<1>. HIDE DEF n, m
<1>4. u \in 1 .. n + 1 /\ n - u + 1 = m /\ \A i \in 1 .. m : u + i - 1 = n - m + i
  BY <1>1, <1>2
<1>5. /\ sub \in Seq(Nat) /\ Len(sub) = m
      /\ \A i \in 1 .. m : sub[i] = b[n - m + i]
  <2>. HIDE DEF u
  <2>1. QED
    BY <1>3, <1>4
<1>6. Len(old) = m
  BY DEF m
<1>7. old = sub
  <2>. HIDE DEF sub
  <2>1. QED
    BY <1>1, <1>2, <1>5, <1>6, SeqEqual
<1>8. m = IF n <= HistoryLimit THEN n ELSE HistoryLimit
  BY <1>1, <1>2
<1>9. QED
  BY <1>7, <1>8 DEF b, n, old, m

LEMMA PublishKeeps ==
    ASSUME Feed!ConstantsOK, FeedInv, Feed!Publish
    PROVE  FeedInv'
<1>1. /\ FeedShapes /\ HistoryIsNewest /\ ChainInOrder /\ NewestFollows
      /\ \A p \in Pages : PageFits(page[p], Published)
  BY DEF FeedInv
<1>. DEFINE x == Head(queue)
            t == Tail(queue)
            b == Published
            old == guiServer.history
            kept == LET all == Append(old, x)
                    IN IF Len(all) > HistoryLimit THEN Tail(all) ELSE all
            c == Append(b, x)
            e == Feed!MessageEvent(x)
<1>2. /\ queue # <<>> /\ queue' = t
      /\ guiServer' = [guiServer EXCEPT !.history = kept, !.published = c]
      /\ page' = Feed!Sent(page, e)
      /\ UNCHANGED <<relay, guiRuntime, notifier, feedHist>>
  BY DEF Feed!Publish, Published
<1>3. /\ queue \in Seq(Nat) /\ Len(queue) <= QueueSize /\ b \in Seq(Nat) /\ old \in Seq(Nat)
      /\ \A p \in Pages : page[p] \in PageRecord
  BY <1>1, ShapesOf DEF FeedShapes
<1>4. /\ Len(old) <= Len(b) /\ Len(old) <= HistoryLimit
      /\ Len(old) = Len(b) \/ Len(old) = HistoryLimit
      /\ \A k \in 1 .. Len(old) : old[k] = b[Len(b) - Len(old) + k]
  BY <1>1 DEF HistoryIsNewest
<1>. HIDE DEF b, old
<1>5. c \o t = b \o queue /\ x \in Nat /\ t \in Seq(Nat) /\ c \in Seq(Nat)
  BY <1>2, <1>3, Passing
<1>. HIDE DEF x
<1>6. kept \in Seq(Nat)
      /\ LET m == Len(kept)
             n == Len(c)
         IN  /\ m <= n /\ m <= HistoryLimit /\ (m = n \/ m = HistoryLimit)
             /\ \A k \in 1 .. m : kept[k] = c[n - m + k]
  <2>1. \A y : y = kept =>
          LET m == Len(y)
              n == Len(c)
          IN  /\ y \in Seq(Nat)
              /\ m <= n /\ m <= HistoryLimit /\ (m = n \/ m = HistoryLimit)
              /\ \A k \in 1 .. m : y[k] = c[n - m + k]
    BY ZenonT(30), <1>3, <1>4, <1>5, FeedNumbers, NewestKept
  <2>. HIDE DEF kept
  <2>2. QED
    BY <2>1
<1>7. Len(t) <= QueueSize
  <2>1. QueueSize \in Nat /\ Len(queue) \in Nat /\ Len(t) = Len(queue) - 1
    BY <1>2, <1>3, FeedNumbers, HeadTailProperties
  <2>. HIDE DEF t
  <2>2. QED
    BY <1>3, <2>1
<1>. HIDE DEF kept, t, c
<1>8. e \in Event
  BY <1>5, Events
<1>. HIDE DEF e
<1>9. page' = [p \in Pages |-> SentTo(page[p], e)]
  BY <1>2, SentIs
<1>10. page' \in [Pages -> PageRecord]
  BY <1>3, <1>8, <1>9, SentToParts
<1>11. /\ guiServer' \in [history : Seq(Nat), published : Seq(Nat), publishing : BOOLEAN]
       /\ Published' = c /\ guiServer'.history = kept
  <2>1. guiServer \in [history : Seq(Nat), published : Seq(Nat), publishing : BOOLEAN]
    BY <1>1 DEF FeedShapes
  <2>2. QED
    BY <1>2, <1>5, <1>6, <2>1 DEF Published
<1>12. FeedShapes'
  BY <1>1, <1>2, <1>5, <1>7, <1>10, <1>11 DEF FeedShapes
<1>13. HistoryIsNewest'
  BY <1>6, <1>11 DEF HistoryIsNewest
<1>14. ChainInOrder'
  <2>1. Chain' = (c \o t) \o relay.conn
    BY <1>2, <1>11 DEF Chain
  <2>2. Chain = (b \o queue) \o relay.conn
    BY DEF Chain, b
  <2>3. Chain' = Chain
    BY <1>5, <2>1, <2>2
  <2>4. QED
    BY <1>1, <1>2, <2>3 DEF ChainInOrder
<1>15. ASSUME NEW p \in Pages
       PROVE  PageFits(page'[p], Published')
  <2>1. Buffer \in Nat /\ page[p] \in PageRecord /\ PageFits(page[p], b)
    BY <1>1, <1>3, FeedNumbers DEF b
  <2>2. PageFits(SentTo(page[p], Feed!MessageEvent(x)), Append(b, x))
    BY <1>3, <1>5, <2>1, MessageFits
  <2>3. QED
    BY <1>9, <1>11, <2>2 DEF e, c
<1>16. NewestFollows'
  <2>1. ASSUME NEW p \in Pages, Current(page[p], feedHist.since)
        PROVE  Current(page'[p], feedHist.since)
    <3>1. Current(SentTo(page[p], Feed!MessageEvent(x)), feedHist.since)
      BY <1>3, <1>5, <2>1, CurrentAfterMessage
    <3>2. QED
      BY <1>2, <1>9, <3>1 DEF e
  <2>2. QED
    BY <1>1, <1>2, <2>1 DEF NewestFollows, Feed!Still
<1>17. QED
  BY <1>12, <1>13, <1>14, <1>15, <1>16 DEF FeedInv

\* The publishing goroutine returns, and nothing else changes.
LEMMA PublisherReturnsKeeps ==
    ASSUME FeedInv, Feed!PublisherReturns
    PROVE  FeedInv'
<1>1. /\ FeedShapes /\ HistoryIsNewest /\ ChainInOrder /\ NewestFollows
      /\ \A p \in Pages : PageFits(page[p], Published)
  BY DEF FeedInv
<1>2. /\ guiServer' = [guiServer EXCEPT !.publishing = FALSE]
      /\ UNCHANGED <<relay, queue, guiRuntime, notifier, page, feedHist>>
  BY DEF Feed!PublisherReturns
<1>3. guiServer \in [history : Seq(Nat), published : Seq(Nat), publishing : BOOLEAN]
  BY <1>1 DEF FeedShapes
<1>4. /\ guiServer' \in [history : Seq(Nat), published : Seq(Nat), publishing : BOOLEAN]
      /\ guiServer'.history = guiServer.history /\ Published' = Published
  BY <1>2, <1>3 DEF Published
<1>5. FeedShapes'
  BY <1>1, <1>2, <1>4 DEF FeedShapes
<1>6. Chain' = Chain
  BY <1>2, <1>4 DEF Chain
<1>7. HistoryIsNewest' /\ ChainInOrder' /\ (\A p \in Pages : PageFits(page'[p], Published'))
  BY <1>1, <1>2, <1>4, <1>6 DEF HistoryIsNewest, ChainInOrder
<1>8. NewestFollows'
  BY <1>1, <1>2 DEF NewestFollows, Feed!Still
<1>9. QED
  BY <1>5, <1>7, <1>8 DEF FeedInv

-----------------------------------------------------------------------------
(* One page comes, reads and goes.                                         *)

LEMMA OnePage ==
    ASSUME FeedInv, NEW p \in Pages, NEW pg \in PageRecord, page' = [page EXCEPT ![p] = pg],
           UNCHANGED <<relay, queue, guiRuntime, notifier, guiServer>>,
           feedHist' \in FeedHistory, feedHist'.sent = feedHist.sent,
           feedHist'.since = feedHist.since,
           PageFits(pg, Published),
           Current(page[p], feedHist.since) => Current(pg, feedHist.since)
    PROVE  FeedInv'
<1>1. /\ FeedShapes /\ HistoryIsNewest /\ ChainInOrder /\ NewestFollows
      /\ \A r \in Pages : PageFits(page[r], Published)
  BY DEF FeedInv
<1>2. page \in [Pages -> PageRecord]
  BY <1>1 DEF FeedShapes
<1>3. /\ page' \in [Pages -> PageRecord] /\ page'[p] = pg
      /\ \A r \in Pages : r # p => page'[r] = page[r]
  BY <1>2
<1>4. FeedShapes'
  BY <1>1, <1>3 DEF FeedShapes, FeedHistory
<1>5. Published' = Published /\ Chain' = Chain
  BY DEF Published, Chain
<1>6. HistoryIsNewest' /\ ChainInOrder'
  BY <1>1, <1>5 DEF HistoryIsNewest, ChainInOrder
<1>7. \A r \in Pages : PageFits(page'[r], Published')
  BY <1>1, <1>3, <1>5
<1>8. NewestFollows'
  <2>1. \A r \in Pages : Current(page[r], feedHist.since) => Current(page'[r], feedHist.since)
    BY <1>3
  <2>2. QED
    BY <1>1, <2>1 DEF NewestFollows, Feed!Still
<1>9. QED
  BY <1>4, <1>6, <1>7, <1>8 DEF FeedInv

\* A page that opens /events has the history as its row.
LEMMA SubscribeKeeps ==
    ASSUME Feed!ConstantsOK, FeedInv, NEW p \in Pages, Feed!Subscribe(p)
    PROVE  FeedInv'
<1>1. FeedShapes /\ HistoryIsNewest
  BY DEF FeedInv
<1>. DEFINE old == guiServer.history
            b == Published
            m == Len(old)
            n == Len(b)
            from == n - m + 1
            none == <<>>
            pg == [pc |-> "first", open |-> TRUE, buffer |-> none, state |-> Feed!NoState,
                   sent |-> old, from |-> from]
<1>2. /\ page' = [page EXCEPT ![p] = pg]
      /\ feedHist' = [feedHist EXCEPT !.visits = @ + 1]
      /\ UNCHANGED <<relay, queue, guiRuntime, notifier, guiServer>>
  BY DEF Feed!Subscribe, Published
<1>3. old \in Seq(Nat) /\ b \in Seq(Nat)
  BY <1>1, ShapesOf
<1>4. /\ m \in Nat /\ n \in Nat /\ m <= n
      /\ \A k \in 1 .. m : old[k] = b[n - m + k]
  BY <1>1, <1>3, LenProperties DEF HistoryIsNewest
<1>5. from \in Nat /\ from >= 1 /\ from + m - 1 = n
      /\ \A k \in 1 .. m : old[k] = b[from + k - 1]
  <2>. HIDE DEF m, n, old, b
  <2>1. from \in Nat /\ from >= 1 /\ from + m - 1 = n
    BY <1>4
  <2>2. \A k \in 1 .. m : from + k - 1 = n - m + k
    BY <1>4
  <2>3. QED
    BY <1>4, <2>1, <2>2
<1>6. /\ none \in Seq(Event) /\ Len(none) = 0 /\ old \o none = old
      /\ Feed!MessageIds(none) = none
  BY <1>3, IdsOfNothing, ConcatEmptySeq
<1>. HIDE DEF from, none, old, b
<1>7. pg \in PageRecord
  BY <1>3, <1>5, <1>6, Events DEF PageRecord
<1>8. PageFits(pg, b)
  <2>1. Got(pg) = old
    BY <1>6 DEF Got
  <2>2. RowOf(old, from, TRUE, b)
    BY <1>5 DEF RowOf, m, n
  <2>3. /\ pg.pc = "first" /\ pg.from = from /\ pg.buffer = none
        /\ RowOf(Got(pg), from, pg.open, b)
    BY <2>1, <2>2 DEF RowOf
  <2>4. Len(none) <= Buffer
    BY <1>6, FeedNumbers
  <2>. HIDE DEF pg
  <2>5. QED
    BY <2>3, <2>4 DEF PageFits
<1>9. Current(pg, feedHist.since)
  BY <1>6 DEF Current, LastStateIn
<1>10. /\ feedHist' \in FeedHistory /\ feedHist'.sent = feedHist.sent
       /\ feedHist'.since = feedHist.since
  <2>1. feedHist \in FeedHistory
    BY <1>1 DEF FeedShapes, FeedHistory
  <2>2. QED
    BY <1>2, <2>1 DEF FeedHistory
<1>. HIDE DEF pg
<1>11. QED
  BY <1>2, <1>7, <1>8, <1>9, <1>10, OnePage DEF b

LEMMA WriteFirstKeeps ==
    ASSUME FeedInv, NEW p \in Pages, Feed!WriteFirst(p)
    PROVE  FeedInv'
<1>1. FeedShapes /\ PageFits(page[p], Published)
  BY DEF FeedInv
<1>. DEFINE old == page[p]
            pg == [old EXCEPT !.pc = "live", !.state = guiRuntime]
<1>2. /\ old.pc = "first" /\ page' = [page EXCEPT ![p].pc = "live", ![p].state = guiRuntime]
      /\ UNCHANGED <<relay, queue, guiRuntime, notifier, guiServer, feedHist>>
  BY DEF Feed!WriteFirst
<1>3. /\ page \in [Pages -> PageRecord] /\ old \in PageRecord /\ guiRuntime \in NotifiedState
      /\ feedHist \in FeedHistory
  BY <1>1 DEF FeedShapes, FeedHistory
<1>4. page' = [page EXCEPT ![p] = pg]
  BY <1>2, <1>3
<1>. HIDE DEF old
<1>5. pg \in PageRecord
  BY <1>3 DEF PageRecord
<1>6. /\ pg.pc = "live" /\ pg.state = guiRuntime /\ pg.sent = old.sent /\ pg.from = old.from
      /\ pg.buffer = old.buffer
  BY <1>3 DEF PageRecord
<1>7. pg.open = old.open
  BY <1>3, Zenon DEF PageRecord
<1>. HIDE DEF pg
<1>8. PageFits(pg, Published)
  <2>1. PageFits(old, Published)
    BY <1>1 DEF old
  <2>2. Got(pg) = Got(old)
    BY <1>6 DEF Got
  <2>3. RowOf(Got(old), old.from, old.open, Published) /\ Len(old.buffer) <= Buffer
    BY <1>2, <2>1 DEF PageFits
  <2>4. QED
    BY <1>6, <1>7, <2>2, <2>3 DEF PageFits
<1>9. Current(old, feedHist.since) => Current(pg, feedHist.since)
  <2>1. guiRuntime \in feedHist.since
    BY DEF FeedInv, NewestFollows
  <2>2. QED
    BY <1>6, <1>7, <2>1 DEF Current
<1>10. QED
  BY <1>2, <1>3, <1>4, <1>5, <1>8, <1>9, OnePage DEF old

\* An event that is written leaves what the page gets as it is.
LEMMA WriteEventKeeps ==
    ASSUME Feed!ConstantsOK, FeedInv, NEW p \in Pages, Feed!WriteEvent(p)
    PROVE  FeedInv'
<1>1. FeedShapes /\ PageFits(page[p], Published)
  BY DEF FeedInv
<1>. DEFINE old == page[p]
            e == Head(old.buffer)
            t == Tail(old.buffer)
            sent == IF e.name = "message" THEN Append(old.sent, e.id) ELSE old.sent
            state == IF e.name = "state" THEN e.state ELSE old.state
            pg == [old EXCEPT !.buffer = t, !.sent = sent, !.state = state]
<1>2. /\ old.pc = "live" /\ old.buffer # <<>>
      /\ page' = [page EXCEPT ![p].buffer = t, ![p].sent = sent, ![p].state = state]
      /\ UNCHANGED <<relay, queue, guiRuntime, notifier, guiServer, feedHist>>
  BY DEF Feed!WriteEvent
<1>3. /\ page \in [Pages -> PageRecord] /\ old \in PageRecord /\ feedHist \in FeedHistory
  BY <1>1 DEF FeedShapes, FeedHistory
<1>4. page' = [page EXCEPT ![p] = pg]
  <2>. HIDE DEF t, sent, state
  <2>1. QED
    BY <1>2, <1>3
<1>. HIDE DEF old
<1>5. /\ old.buffer \in Seq(Event) /\ old.sent \in Seq(Nat) /\ old.state \in NotifiedState
      /\ e \in Event /\ t \in Seq(Event) /\ Len(t) <= Len(old.buffer)
      /\ Len(t) \in Nat /\ Len(old.buffer) \in Nat
  <2>1. old.buffer \in Seq(Event) /\ old.sent \in Seq(Nat) /\ old.state \in NotifiedState
    BY <1>3 DEF PageRecord
  <2>2. e \in Event /\ t \in Seq(Event) /\ Len(t) = Len(old.buffer) - 1
    BY <1>2, <2>1, HeadTailProperties
  <2>3. Len(t) \in Nat /\ Len(old.buffer) \in Nat
    BY <2>1, <2>2, LenProperties
  <2>. HIDE DEF t, e
  <2>4. Len(t) <= Len(old.buffer)
    BY <2>2, <2>3
  <2>5. QED
    BY <2>1, <2>2, <2>3, <2>4
<1>6. /\ e.name = "message" =>
           Feed!MessageIds(old.buffer) = <<e.id>> \o Feed!MessageIds(t)
      /\ e.name # "message" => Feed!MessageIds(old.buffer) = Feed!MessageIds(t)
  BY <1>2, <1>5, IdsTail
<1>7. \A s : LastStateIn(old.buffer, s) =>
        /\ LastStateIn(t, s)
        /\ NoStateIn(t) /\ e.name = "state" => e.state \in s
        /\ NoStateIn(t) /\ e.name # "state" => NoStateIn(old.buffer)
  BY <1>2, <1>5, EventTaken
<1>8. Feed!MessageIds(t) \in Seq(Nat) /\ e.id \in Nat /\ e.state \in NotifiedState
  BY <1>5, IdsType DEF Event
<1>. HIDE DEF e, t
<1>9. sent \in Seq(Nat) /\ state \in NotifiedState
  BY <1>5, <1>8, Appending
<1>10. sent \o Feed!MessageIds(t) = old.sent \o Feed!MessageIds(old.buffer)
  <2>1. CASE e.name # "message"
    BY <1>6, <2>1
  <2>2. CASE e.name = "message"
    <3>. DEFINE x == e.id
                u == <<x>>
                a == old.sent
                b == Feed!MessageIds(t)
    <3>1. x \in Nat /\ a \in Seq(Nat) /\ b \in Seq(Nat)
      BY <1>5, <1>8
    <3>2. sent = Append(a, x) /\ Feed!MessageIds(old.buffer) = u \o b
      BY <1>6, <2>2
    <3>. HIDE DEF x, a, b
    <3>3. u \in Seq(Nat) /\ Append(a, x) = a \o u
      BY <3>1, AppendIsConcat
    <3>. HIDE DEF u
    <3>4. (a \o u) \o b = a \o (u \o b)
      BY <3>1, <3>3, Joining
    <3>. HIDE DEF sent
    <3>5. QED
      BY <3>2, <3>3, <3>4 DEF a, b
  <2>3. QED
    BY <2>1, <2>2
<1>11. /\ e.name = "state" => state = e.state
       /\ e.name # "state" => state = old.state
  OBVIOUS
<1>. HIDE DEF sent, state
<1>12. pg \in PageRecord
  BY <1>3, <1>5, <1>9 DEF PageRecord
<1>13. /\ pg.pc = old.pc /\ pg.state = state /\ pg.sent = sent /\ pg.from = old.from
       /\ pg.buffer = t
  BY <1>3 DEF PageRecord
<1>14. pg.open = old.open
  BY <1>3, Zenon DEF PageRecord
<1>. HIDE DEF pg
<1>15. PageFits(pg, Published)
  <2>1. PageFits(old, Published)
    BY <1>1 DEF old
  <2>2. Got(pg) = Got(old)
    BY <1>10, <1>13 DEF Got
  <2>3. RowOf(Got(old), old.from, old.open, Published) /\ Len(old.buffer) <= Buffer
    BY <1>2, <2>1 DEF PageFits
  <2>4. Len(t) <= Buffer
    BY <1>5, <2>3, FeedNumbers
  <2>5. QED
    BY <1>2, <1>13, <1>14, <2>2, <2>3, <2>4 DEF PageFits
<1>16. Current(old, feedHist.since) => Current(pg, feedHist.since)
  <2>1. SUFFICES ASSUME old.open, LastStateIn(old.buffer, feedHist.since),
                        NoStateIn(old.buffer) => old.state \in feedHist.since
                 PROVE  /\ LastStateIn(t, feedHist.since)
                        /\ NoStateIn(t) => state \in feedHist.since
    BY <1>2, <1>13, <1>14 DEF Current
  <2>2. LastStateIn(t, feedHist.since)
    BY <1>7, <2>1
  <2>3. ASSUME NoStateIn(t) PROVE state \in feedHist.since
    BY <1>7, <1>11, <2>1, <2>3
  <2>4. QED
    BY <2>2, <2>3
<1>17. QED
  BY <1>2, <1>3, <1>4, <1>12, <1>15, <1>16, OnePage DEF old

LEMMA LeaveKeeps ==
    ASSUME Feed!ConstantsOK, FeedInv, NEW p \in Pages, Feed!Leave(p)
    PROVE  FeedInv'
<1>1. FeedShapes
  BY DEF FeedInv
<1>. DEFINE none == <<>>
            pg == [pc |-> "away", open |-> FALSE, buffer |-> none, sent |-> none,
                   from |-> 1, state |-> Feed!NoState]
<1>2. /\ page' = [page EXCEPT ![p] = pg]
      /\ UNCHANGED <<relay, queue, guiRuntime, notifier, guiServer, feedHist>>
  BY DEF Feed!Leave, Feed!Unvisited
<1>3. none \in Seq(Event) /\ none \in Seq(Nat) /\ Len(none) = 0
  OBVIOUS
<1>. HIDE DEF none
<1>4. pg \in PageRecord
  BY <1>3, Events DEF PageRecord
<1>5. PageFits(pg, Published) /\ Current(pg, feedHist.since)
  BY <1>3, FeedNumbers DEF PageFits, Current
<1>6. feedHist \in FeedHistory
  BY <1>1 DEF FeedShapes, FeedHistory
<1>. HIDE DEF pg
<1>7. QED
  BY <1>2, <1>4, <1>5, <1>6, OnePage

-----------------------------------------------------------------------------
(* The theorem.                                                            *)

LEMMA FeedNext ==
    ASSUME Feed!ConstantsOK, FeedInv, [Feed!Next]_(Feed!vars)
    PROVE  FeedInv'
<1>1. CASE UNCHANGED Feed!vars
  <2>1. UNCHANGED <<relay, queue, guiRuntime, notifier, guiServer, page, feedHist>>
    BY <1>1 DEF Feed!vars
  <2>2. relay \in RelayRecord /\ feedHist \in FeedHistory
    BY DEF FeedInv, FeedShapes, RelayRecord, FeedHistory
  <2>3. QED
    BY <2>1, <2>2, Elsewhere
<1>2. ASSUME Feed!Client PROVE FeedInv'
  BY <1>2, ClientAlone, ReportKeeps, ReadMessageKeeps DEF Feed!Client
<1>3. ASSUME Feed!Broadcast \/ Feed!Publish \/ Feed!PublisherReturns \/ Feed!Cancel
      PROVE  FeedInv'
  BY <1>3, ClientAlone, BroadcastKeeps, PublishKeeps, PublisherReturnsKeeps
<1>4. ASSUME NEW a \in Feed!Actors, Feed!ReadState(a) \/ Feed!PublishState(a) PROVE FeedInv'
  BY <1>4, ReadStateKeeps, PublishStateKeeps
<1>5. ASSUME NEW h \in Handlers, Feed!SelectTarget(h) \/ Feed!RefreshStatus(h) PROVE FeedInv'
  BY <1>5, RequestKeeps
<1>6. ASSUME NEW p \in Pages,
             Feed!Subscribe(p) \/ Feed!WriteFirst(p) \/ Feed!WriteEvent(p) \/ Feed!Leave(p)
      PROVE  FeedInv'
  BY <1>6, SubscribeKeeps, WriteFirstKeeps, WriteEventKeeps, LeaveKeeps
<1>7. QED
  BY <1>1, <1>2, <1>3, <1>4, <1>5, <1>6 DEF Feed!Next

\* FeedInv is as strong as what the pages and the history are to be.
LEMMA FeedImplies ==
    ASSUME Feed!ConstantsOK, FeedInv
    PROVE  Feed!FeedSafety
<1>1. /\ FeedShapes /\ HistoryIsNewest /\ ChainInOrder /\ NewestFollows
      /\ \A p \in Pages : PageFits(page[p], Published)
  BY DEF FeedInv
<1>. DEFINE b == Published
            n == Len(b)
<1>2. b \in Seq(Nat) /\ n \in Nat /\ guiServer.history \in Seq(Nat) /\ guiServer.published = b
  BY <1>1, ShapesOf, LenProperties DEF Published
<1>. HIDE DEF b, n
<1>3. Feed!TypeOK
  <2>1. /\ relay.pc \in {"report", "dial", "reading", "wait", "rejected", "ended"}
        /\ Len(queue) <= QueueSize
        /\ \A a \in Feed!Actors : notifier[a].pc \in {"idle", "read", "publish"}
    BY <1>1 DEF FeedShapes, RelayStates
  <2>2. \A p \in Pages : Len(page[p].buffer) <= Buffer
    BY <1>1 DEF PageFits
  <2>3. HistoryLimit \in Nat
    BY FeedNumbers
  <2>4. \A k \in Nat : Feed!Min({k, HistoryLimit}) = IF k <= HistoryLimit THEN k ELSE HistoryLimit
    <3>1. ASSUME NEW k \in Nat, NEW l \in Nat
          PROVE  Feed!Min({k, l}) = IF k <= l THEN k ELSE l
      <4>. DEFINE m == IF k <= l THEN k ELSE l
      <4>1. m \in {k, l} /\ \A x \in {k, l} : m <= x
        OBVIOUS
      <4>2. \A y \in {k, l} : (\A x \in {k, l} : y <= x) => y = m
        OBVIOUS
      <4>. HIDE DEF m
      <4>3. QED
        BY <4>1, <4>2 DEF Feed!Min, m
    <3>2. QED
      BY <2>3, <3>1
  <2>5. guiServer.history = SubSeq(b, n - Feed!Min({n, HistoryLimit}) + 1, n)
    BY <1>1, <1>2, <2>4, HistoryIs DEF b, n
  <2>8. guiServer.history =
          LET w == Len(guiServer.published)
          IN SubSeq(guiServer.published, w - Feed!Min({w, HistoryLimit}) + 1, w)
    BY <1>2, <2>5 DEF n
  <2>9. QED
    BY <2>1, <2>2, <2>8 DEF Feed!TypeOK
<1>4. Feed!PageIsGapless
  <2>1. SUFFICES ASSUME NEW p \in Pages, page[p].pc # "away"
                 PROVE  LET got == page[p].sent \o Feed!MessageIds(page[p].buffer)
                            last == page[p].from + Len(got) - 1
                        IN  /\ last <= Len(guiServer.published)
                            /\ got = SubSeq(guiServer.published, page[p].from, last)
                            /\ page[p].open => last = Len(guiServer.published)
    BY DEF Feed!PageIsGapless
  <2>. DEFINE pg == page[p]
              got == pg.sent \o Feed!MessageIds(pg.buffer)
              from == pg.from
              m == Len(got)
              last == from + m - 1
              sub == SubSeq(b, from, last)
  <2>2. got = Got(pg) /\ got \in Seq(Nat) /\ from \in Nat /\ m \in Nat
    <3>1. page[p] \in PageRecord
      BY <1>1, ShapesOf
    <3>2. QED
      BY <3>1, GotIs, LenProperties DEF Got
  <2>3. RowOf(Got(pg), from, pg.open, b)
    BY <1>1, <2>1 DEF PageFits, b
  <2>4. /\ from >= 1 /\ last <= n /\ (pg.open => last = n)
        /\ \A k \in 1 .. m : got[k] = b[from + k - 1]
    BY <2>2, <2>3 DEF RowOf, n
  <2>. HIDE DEF got, from, m
  <2>5. got = sub
    <3>1. from \in 1 .. last + 1 /\ last \in 0 .. n /\ last - from + 1 = m
      BY <1>2, <2>2, <2>4
    <3>. HIDE DEF last
    <3>2. \A w \in 1 .. last + 1 :
            /\ SubSeq(b, w, last) \in Seq(Nat) /\ Len(SubSeq(b, w, last)) = last - w + 1
            /\ \A i \in 1 .. (last - w + 1) : SubSeq(b, w, last)[i] = b[w + i - 1]
      <4>1. SUFFICES ASSUME NEW w \in 1 .. last + 1
                     PROVE  /\ SubSeq(b, w, last) \in Seq(Nat)
                            /\ Len(SubSeq(b, w, last)) = last - w + 1
                            /\ \A i \in 1 .. (last - w + 1) :
                                 SubSeq(b, w, last)[i] = b[w + i - 1]
        OBVIOUS
      <4>2. QED
        BY <1>2, <3>1, SubSeqProperties DEF n
    <3>3. /\ sub \in Seq(Nat) /\ Len(sub) = m
          /\ \A i \in 1 .. m : sub[i] = b[from + i - 1]
      BY <3>1, <3>2
    <3>4. Len(got) = m
      BY DEF m
    <3>. HIDE DEF sub
    <3>5. QED
      BY <2>2, <2>4, <3>3, <3>4, SeqEqual
  <2>6. last <= n /\ got = SubSeq(b, from, last) /\ (pg.open => last = n)
    BY <2>4, <2>5
  <2>. HIDE DEF last, sub
  <2>7. QED
    BY <1>2, <2>6 DEF last, got, from, m, n
<1>5. Feed!PublishedInOrder
  <2>. DEFINE s == b \o queue
  <2>1. s \in Seq(Nat) /\ queue \in Seq(Nat) /\ relay.conn \in Seq(Nat) /\ feedHist.sent \in Nat
        /\ UpTo(s \o relay.conn, feedHist.sent)
    BY <1>1, ShapesOf DEF ChainInOrder, Chain, b
  <2>. DEFINE c == relay.conn
              w == feedHist.sent
  <2>2. s \in Seq(Nat) /\ c \in Seq(Nat) /\ w \in Nat /\ UpTo(s \o c, w)
    BY <2>1
  <2>. HIDE DEF s, c, w
  <2>3. UpTo(s, w)
    BY <2>2, UpToBegin
  <2>4. UpTo(b, w)
    <3>1. UpTo(b \o queue, w)
      BY <2>3 DEF s
    <3>2. QED
      BY <1>2, <2>1, <2>2, <3>1, UpToBegin
  <2>5. QED
    BY <1>2, <2>4 DEF Feed!PublishedInOrder, UpTo
<1>6. Feed!PageIsCurrent
  <2>1. SUFFICES ASSUME Feed!Still, NEW p \in Pages,
                        page[p].pc = "live", page[p].open, page[p].buffer = <<>>
                 PROVE  \A part \in DOMAIN guiRuntime :
                           \E state \in feedHist.since : page[p].state[part] = state[part]
    BY DEF Feed!PageIsCurrent
  <2>2. Current(page[p], feedHist.since)
    BY <1>1, <2>1 DEF NewestFollows
  <2>3. NoStateIn(page[p].buffer)
    BY <2>1 DEF NoStateIn
  <2>4. page[p].state \in feedHist.since
    BY <2>1, <2>2, <2>3 DEF Current
  <2>5. QED
    BY <2>4
<1>7. QED
  BY <1>3, <1>4, <1>5, <1>6 DEF Feed!FeedSafety

(* What a page of the desktop client was sent and what waits for it is a   *)
(* row of the published messages, none missing and none twice, up to the   *)
(* newest as long as the page is not dropped for being slow; the history   *)
(* for the next page is the newest of them; messages are published in the  *)
(* order of the relay; and, while no notification is under way, a page     *)
(* that has read everything shows a state that the runtime had since the   *)
(* last notifications began, however many there were at once.              *)
(* However many pages, messages, lost connections and however small the    *)
(* history, the queue and the channels.                                    *)
THEOREM FeedIsSafe ==
    ASSUME Feed!ConstantsOK
    PROVE  Feed!Spec => []FeedSafety
<1>1. Feed!Init => FeedInv
  BY FeedInit
<1>2. FeedInv /\ [Feed!Next]_(Feed!vars) => FeedInv'
  BY FeedNext
<1>3. FeedInv => FeedSafety
  BY FeedImplies DEF FeedSafety
<1>4. QED
  BY <1>1, <1>2, <1>3, PTL DEF Feed!Spec

-----------------------------------------------------------------------------
(* Refinement of HistoryFanout.                                            *)

\* No more messages are published than there are.
Bounded == feedHist.sent <= MaxMessages

LEMMA BoundedNext ==
    ASSUME Feed!ConstantsOK, FeedShapes, Bounded, [Feed!Next]_(Feed!vars)
    PROVE  Bounded'
<1>1. feedHist \in FeedHistory
  BY DEF FeedShapes, FeedHistory
<1>2. Feed!Faulty.sent = feedHist.sent
  BY <1>1, FaultyIs
<1>3. ASSUME feedHist' = feedHist \/ feedHist' = Feed!Faulty
      PROVE  Bounded'
  BY <1>2, <1>3 DEF Bounded
<1>4. ASSUME NEW a, NEW state, Feed!Notify(a, state)
      PROVE  Bounded'
  <2>. DEFINE states == (IF Feed!Still THEN {} ELSE feedHist.since) \cup {state}
  <2>1. feedHist' = [feedHist EXCEPT !.since = states]
    BY <1>4 DEF Feed!Notify
  <2>. HIDE DEF states
  <2>2. feedHist'.sent = feedHist.sent
    BY <1>1, <2>1 DEF FeedHistory
  <2>3. QED
    BY <2>2 DEF Bounded
<1>5. CASE UNCHANGED Feed!vars
  BY <1>3, <1>5 DEF Feed!vars
<1>6. CASE Feed!Client
  <2>1. \/ feedHist' = feedHist \/ feedHist' = Feed!Faulty
        \/ \E state : Feed!Notify("client", state)
    BY <1>6 DEF Feed!Client, Feed!Report, Feed!Dial, Feed!DialRejected, Feed!ReportRejected,
                Feed!ReadMessage, Feed!ConnectionLost, Feed!ReadCancelled, Feed!RetryTimer,
                Feed!WaitCancelled
  <2>2. QED
    BY <1>3, <1>4, <2>1
<1>7. CASE Feed!Broadcast
  <2>1. /\ feedHist.sent < MaxMessages
        /\ feedHist' = [feedHist EXCEPT !.sent = feedHist.sent + 1]
    BY <1>7 DEF Feed!Broadcast
  <2>2. feedHist.sent \in Nat /\ feedHist'.sent = feedHist.sent + 1
    BY <1>1, <2>1 DEF FeedHistory
  <2>3. QED
    BY <2>1, <2>2, FeedNumbers DEF Bounded
<1>8. CASE Feed!Cancel
  <2>1. feedHist'.sent = feedHist.sent
    BY <1>1, <1>8 DEF Feed!Cancel, FeedHistory
  <2>2. QED
    BY <2>1 DEF Bounded
<1>9. ASSUME NEW p \in Pages, Feed!Subscribe(p)
      PROVE  Bounded'
  <2>1. feedHist' = [feedHist EXCEPT !.visits = @ + 1]
    BY <1>9 DEF Feed!Subscribe
  <2>2. feedHist'.sent = feedHist.sent
    BY <1>1, <2>1 DEF FeedHistory
  <2>3. QED
    BY <2>2 DEF Bounded
<1>10. ASSUME \/ Feed!Publish \/ Feed!PublisherReturns
              \/ (\E a \in Feed!Actors : Feed!ReadState(a) \/ Feed!PublishState(a))
              \/ (\E p \in Pages : Feed!WriteFirst(p) \/ Feed!WriteEvent(p) \/ Feed!Leave(p))
       PROVE  Bounded'
  <2>1. feedHist' = feedHist
    BY <1>10 DEF Feed!Publish, Feed!PublisherReturns, Feed!ReadState, Feed!PublishState,
                Feed!WriteFirst, Feed!WriteEvent, Feed!Leave
  <2>2. QED
    BY <1>3, <2>1
<1>11. ASSUME NEW h \in Handlers, Feed!SelectTarget(h) \/ Feed!RefreshStatus(h)
       PROVE  Bounded'
  BY <1>4, <1>11 DEF Feed!SelectTarget, Feed!RefreshStatus
<1>12. QED
  BY <1>5, <1>6, <1>7, <1>8, <1>9, <1>10, <1>11 DEF Feed!Next

\* The actions of HistoryFanout, said of the feed.
LEMMA PromiseMapping ==
    /\ UNCHANGED <<Published, Visit, First, Given, Until>> => UNCHANGED Promise!vars
    /\ \A pages : Promise!Dropping(pages) <=>
         /\ \A p \in pages : Visit[p] = "live"
         /\ Visit' = [p \in Pages |-> IF p \in pages THEN "dropped" ELSE Visit[p]]
         /\ Until' = [p \in Pages |-> IF p \in pages THEN Len(Published) ELSE Until[p]]
    /\ \A m : Promise!Publish(m) <=>
         /\ \A i \in 1 .. Len(Published) : Published[i] < m
         /\ Published' = Append(Published, m)
         /\ \E pages \in SUBSET Pages : Promise!Dropping(pages)
         /\ UNCHANGED <<First, Given>>
    /\ Promise!Drop <=>
         /\ \E pages \in SUBSET Pages : Promise!Dropping(pages)
         /\ UNCHANGED <<Published, First, Given>>
    /\ \A p : Promise!Open(p) <=>
         LET n == Len(Published)
             kept == IF n <= HistoryLimit THEN n ELSE HistoryLimit
         IN  /\ Visit[p] = "away"
             /\ Visit' = [Visit EXCEPT ![p] = "live"]
             /\ First' = [First EXCEPT ![p] = n - kept + 1]
             /\ Given' = [Given EXCEPT ![p] = SubSeq(Published, n - kept + 1, n)]
             /\ UNCHANGED <<Published, Until>>
    /\ \A p : Promise!Give(p) <=>
         LET next == First[p] + Len(Given[p])
         IN  /\ Visit[p] # "away"
             /\ next <= IF Visit[p] = "live" THEN Len(Published) ELSE Until[p]
             /\ Given' = [Given EXCEPT ![p] = Append(@, Published[next])]
             /\ UNCHANGED <<Published, Visit, First, Until>>
    /\ \A p : Promise!Close(p) <=>
         /\ Visit[p] # "away"
         /\ Visit' = [Visit EXCEPT ![p] = "away"]
         /\ First' = [First EXCEPT ![p] = 1]
         /\ Given' = [Given EXCEPT ![p] = <<>>]
         /\ Until' = [Until EXCEPT ![p] = 0]
         /\ UNCHANGED Published
BY DEF Promise!vars, Promise!Dropping, Promise!Publish, Promise!Drop, Promise!Open,
       Promise!Give, Promise!Close, Published

\* What a page shows of itself.
VisitOf(pg) == IF pg.pc = "away" THEN "away" ELSE IF pg.open THEN "live" ELSE "dropped"

LEMMA Views ==
    /\ Visit = [p \in Pages |-> VisitOf(page[p])]
    /\ Visit' = [p \in Pages |-> VisitOf(page'[p])]
    /\ First = [p \in Pages |-> page[p].from] /\ First' = [p \in Pages |-> page'[p].from]
    /\ Given = [p \in Pages |-> page[p].sent] /\ Given' = [p \in Pages |-> page'[p].sent]
    /\ Until = [p \in Pages |-> UntilOf(page[p])]
    /\ Until' = [p \in Pages |-> UntilOf(page'[p])]
BY DEF Visit, VisitOf, First, Given, Until

LEMMA SameViews ==
    ASSUME page' = page
    PROVE  UNCHANGED <<Visit, First, Given, Until>>
BY Views

LEMMA OneView ==
    ASSUME page \in [Pages -> PageRecord], NEW p \in Pages, NEW pg,
           page' = [page EXCEPT ![p] = pg]
    PROVE  /\ Visit[p] = VisitOf(page[p]) /\ First[p] = page[p].from
           /\ Given[p] = page[p].sent /\ Until[p] = UntilOf(page[p])
           /\ Visit' = [Visit EXCEPT ![p] = VisitOf(pg)]
           /\ First' = [First EXCEPT ![p] = pg.from]
           /\ Given' = [Given EXCEPT ![p] = pg.sent]
           /\ Until' = [Until EXCEPT ![p] = UntilOf(pg)]
<1>1. page'[p] = pg /\ \A q \in Pages : q # p => page'[q] = page[q]
  OBVIOUS
<1>2. Visit' = [Visit EXCEPT ![p] = VisitOf(pg)]
  BY <1>1, Views
<1>3. First' = [First EXCEPT ![p] = pg.from]
  BY <1>1, Views
<1>4. Given' = [Given EXCEPT ![p] = pg.sent]
  BY <1>1, Views
<1>5. Until' = [Until EXCEPT ![p] = UntilOf(pg)]
  BY <1>1, Views
<1>6. QED
  BY <1>2, <1>3, <1>4, <1>5, Views

\* Whoever has no room for an event is dropped, with everything published so far to come.
LEMMA SendDrops ==
    ASSUME FeedInv, NEW e \in Event, page' = [p \in Pages |-> SentTo(page[p], e)]
    PROVE  /\ \E pages \in SUBSET Pages : Promise!Dropping(pages)
           /\ UNCHANGED <<First, Given>>
<1>. DEFINE Full == {p \in Pages : page[p].open /\ ~(Len(page[p].buffer) < Buffer)}
<1>1. ASSUME NEW p \in Pages
      PROVE  /\ page'[p].from = page[p].from /\ page'[p].sent = page[p].sent
             /\ p \notin Full => /\ VisitOf(page'[p]) = VisitOf(page[p])
                                 /\ UntilOf(page'[p]) = UntilOf(page[p])
             /\ p \in Full => /\ VisitOf(page[p]) = "live"
                              /\ VisitOf(page'[p]) = "dropped"
                              /\ UntilOf(page'[p]) = Len(Published)
  <2>. DEFINE pg == page[p]
              q == SentTo(pg, e)
  <2>1. pg \in PageRecord /\ PageFits(pg, Published) /\ page'[p] = q
    BY ShapesOf DEF FeedInv
  <2>. HIDE DEF pg
  <2>2. /\ q.pc = pg.pc /\ q.sent = pg.sent /\ q.from = pg.from
        /\ ~pg.open => q = pg
        /\ pg.open /\ Len(pg.buffer) < Buffer => q.open
        /\ pg.open /\ ~(Len(pg.buffer) < Buffer) => q.buffer = pg.buffer /\ ~q.open
    BY <2>1, SentToParts
  <2>. HIDE DEF q
  <2>3. pg.pc = "away" => ~pg.open
    BY <2>1 DEF PageFits
  <2>4. CASE ~pg.open
    <3>1. p \notin Full /\ q = pg
      BY <2>2, <2>4 DEF pg
    <3>2. QED
      BY <2>1, <3>1 DEF pg
  <2>5. CASE pg.open /\ Len(pg.buffer) < Buffer
    <3>1. p \notin Full /\ q.open /\ q.pc # "away" /\ pg.pc # "away"
      BY <2>2, <2>3, <2>5 DEF pg
    <3>2. /\ VisitOf(q) = "live" /\ VisitOf(pg) = "live"
          /\ UntilOf(q) = 0 /\ UntilOf(pg) = 0
      BY <2>5, <3>1 DEF VisitOf, UntilOf
    <3>3. QED
      BY <2>1, <2>2, <3>1, <3>2 DEF pg
  <2>6. CASE pg.open /\ ~(Len(pg.buffer) < Buffer)
    <3>1. /\ p \in Full /\ ~q.open /\ q.buffer = pg.buffer /\ q.pc # "away" /\ pg.pc # "away"
      BY <2>2, <2>3, <2>6 DEF pg
    <3>2. VisitOf(q) = "dropped" /\ VisitOf(pg) = "live"
      BY <2>6, <3>1 DEF VisitOf
    <3>3. UntilOf(q) = Len(Published)
      <4>. DEFINE s == pg.sent
                  ids == Feed!MessageIds(pg.buffer)
                  from == pg.from
      <4>1. UntilOf(q) = from + Len(s) + Len(ids) - 1
        BY <2>2, <3>1 DEF UntilOf
      <4>2. s \in Seq(Nat) /\ ids \in Seq(Nat) /\ from \in Nat /\ Got(pg) = s \o ids
        BY <2>1, GotIs DEF Got
      <4>3. RowOf(Got(pg), from, pg.open, Published)
        BY <2>1, <3>1 DEF PageFits
      <4>. HIDE DEF s, ids, from
      <4>4. from + Len(s \o ids) - 1 = Len(Published)
        BY <2>6, <4>2, <4>3 DEF RowOf
      <4>5. Len(s \o ids) = Len(s) + Len(ids) /\ Len(s) \in Nat /\ Len(ids) \in Nat
        BY <4>2, ConcatProperties, LenProperties
      <4>6. QED
        BY <4>1, <4>2, <4>4, <4>5
    <3>4. QED
      BY <2>1, <2>2, <3>1, <3>2, <3>3 DEF pg
  <2>7. QED
    BY <2>4, <2>5, <2>6
<1>. HIDE DEF Full
<1>2. Full \in SUBSET Pages
  BY DEF Full
<1>3. \A p \in Full : Visit[p] = "live"
  BY <1>1, <1>2, Views
<1>4. Visit' = [p \in Pages |-> IF p \in Full THEN "dropped" ELSE Visit[p]]
  BY <1>1, Views
<1>5. Until' = [p \in Pages |-> IF p \in Full THEN Len(Published) ELSE Until[p]]
  BY <1>1, Views
<1>6. Promise!Dropping(Full)
  BY <1>3, <1>4, <1>5, PromiseMapping
<1>7. UNCHANGED <<First, Given>>
  BY <1>1, Views
<1>8. QED
  BY <1>2, <1>6, <1>7

\* What is in order is below what follows it.
LEMMA UpToNext ==
    ASSUME NEW s \in Seq(Nat), NEW x \in Nat, NEW n \in Nat, UpTo(Append(s, x), n)
    PROVE  x <= n /\ \A i \in 1 .. Len(s) : s[i] < x
<1>. DEFINE t == Append(s, x)
<1>1. /\ Len(t) = Len(s) + 1 /\ Len(s) \in Nat /\ t[Len(s) + 1] = x
      /\ \A i \in 1 .. Len(s) : t[i] = s[i]
  BY AppendProperties
<1>2. UpTo(t, n)
  OBVIOUS
<1>. HIDE DEF t
<1>3. Len(s) + 1 \in 1 .. Len(t) /\ \A i \in 1 .. Len(s) : i \in 1 .. Len(t) /\ i < Len(s) + 1
  BY <1>1
<1>4. QED
  BY <1>1, <1>2, <1>3 DEF UpTo

LEMMA PublishIsPublish ==
    ASSUME Feed!ConstantsOK, FeedInv, Bounded, Feed!Publish
    PROVE  \E m \in 0 .. MaxMessages : Promise!Publish(m)
<1>1. FeedShapes /\ ChainInOrder
  BY DEF FeedInv
<1>. DEFINE x == Head(queue)
            b == Published
            c == Append(b, x)
            t == Tail(queue)
            e == Feed!MessageEvent(x)
            k == relay.conn
            n == feedHist.sent
<1>2. /\ queue # <<>> /\ Published' = c /\ page' = Feed!Sent(page, e)
  <2>. DEFINE kept == LET all == Append(guiServer.history, x)
                      IN IF Len(all) > HistoryLimit THEN Tail(all) ELSE all
  <2>1. /\ queue # <<>> /\ page' = Feed!Sent(page, e)
        /\ guiServer' = [guiServer EXCEPT !.history = kept, !.published = c]
    BY DEF Feed!Publish, Published
  <2>. HIDE DEF kept, c
  <2>2. Published' = c
    BY <1>1, <2>1 DEF FeedShapes, Published
  <2>3. QED
    BY <2>1, <2>2
<1>3. /\ queue \in Seq(Nat) /\ b \in Seq(Nat) /\ k \in Seq(Nat) /\ n \in Nat
      /\ UpTo((b \o queue) \o k, n)
  BY <1>1, ShapesOf DEF ChainInOrder, Chain
<1>. HIDE DEF b
<1>4. c \o t = b \o queue /\ x \in Nat /\ t \in Seq(Nat) /\ c \in Seq(Nat)
  BY <1>2, <1>3, Passing
<1>5. e \in Event
  BY <1>4, Events
<1>. HIDE DEF x, t, k, n
<1>6. UpTo(c, n)
  <2>. HIDE DEF c
  <2>1. UpTo((c \o t) \o k, n) /\ c \o t \in Seq(Nat)
    BY <1>3, <1>4, ConcatProperties
  <2>2. UpTo(c \o t, n)
    BY <1>3, <2>1, UpToBegin
  <2>3. QED
    BY <1>3, <1>4, <2>2, UpToBegin
<1>7. x <= n /\ \A i \in 1 .. Len(b) : b[i] < x
  BY <1>3, <1>4, <1>6, UpToNext
<1>8. x \in 0 .. MaxMessages
  BY <1>3, <1>4, <1>7, FeedNumbers DEF Bounded, n
<1>. HIDE DEF e
<1>9. page' = [p \in Pages |-> SentTo(page[p], e)]
  BY <1>2, SentIs
<1>10. /\ \E pages \in SUBSET Pages : Promise!Dropping(pages)
       /\ UNCHANGED <<First, Given>>
  BY <1>5, <1>9, SendDrops
<1>11. Promise!Publish(x)
  BY <1>2, <1>7, <1>10, PromiseMapping DEF b
<1>12. QED
  BY <1>8, <1>11

\* A notification reaches the pages as an event, or drops them.
LEMMA PublishStateDrops ==
    ASSUME FeedInv, NEW a \in Feed!Actors, Feed!PublishState(a)
    PROVE  Promise!Drop
<1>. DEFINE s == notifier[a].state
            e == Feed!StateEvent(s)
<1>1. page' = Feed!Sent(page, e) /\ guiServer' = guiServer
  BY DEF Feed!PublishState
<1>2. s \in NotifiedState
  BY ShapesOf DEF FeedInv
<1>. HIDE DEF s
<1>3. e \in Event
  BY <1>2, Events
<1>. HIDE DEF e
<1>4. page' = [p \in Pages |-> SentTo(page[p], e)]
  BY <1>1, SentIs
<1>5. QED
  BY <1>1, <1>3, <1>4, SendDrops, PromiseMapping DEF Published

\* The history a page begins with is the newest of what was published.
LEMMA SubscribeOpens ==
    ASSUME Feed!ConstantsOK, FeedInv, NEW p \in Pages, Feed!Subscribe(p)
    PROVE  Promise!Open(p)
<1>. DEFINE old == guiServer.history
            b == Published
            m == Len(old)
            n == Len(b)
            pg == [pc |-> "first", open |-> TRUE, buffer |-> <<>>, state |-> Feed!NoState,
                   sent |-> old, from |-> n - m + 1]
            kept == IF n <= HistoryLimit THEN n ELSE HistoryLimit
<1>1. /\ page[p].pc = "away" /\ page' = [page EXCEPT ![p] = pg]
      /\ guiServer' = guiServer /\ page \in [Pages -> PageRecord]
  BY DEF Feed!Subscribe, Published, FeedInv, FeedShapes
<1>2. old = SubSeq(b, n - m + 1, n) /\ m = kept
  BY HistoryIs DEF FeedInv
<1>3. /\ VisitOf(pg) = "live" /\ UntilOf(pg) = 0 /\ pg.sent = old /\ pg.from = n - m + 1
      /\ VisitOf(page[p]) = "away" /\ UntilOf(page[p]) = 0
  BY <1>1 DEF VisitOf, UntilOf
<1>. HIDE DEF pg
<1>4. /\ Visit[p] = "away" /\ Until[p] = 0
      /\ Visit' = [Visit EXCEPT ![p] = "live"]
      /\ First' = [First EXCEPT ![p] = n - m + 1]
      /\ Given' = [Given EXCEPT ![p] = old]
      /\ Until' = [Until EXCEPT ![p] = 0]
  <2>1. /\ Visit[p] = VisitOf(page[p]) /\ Until[p] = UntilOf(page[p])
        /\ Visit' = [Visit EXCEPT ![p] = VisitOf(pg)]
        /\ First' = [First EXCEPT ![p] = pg.from]
        /\ Given' = [Given EXCEPT ![p] = pg.sent]
        /\ Until' = [Until EXCEPT ![p] = UntilOf(pg)]
    BY <1>1, OneView
  <2>2. QED
    BY <1>3, <2>1
<1>5. Until' = Until
  BY <1>4, Views
<1>6. Published' = Published
  BY <1>1 DEF Published
<1>. HIDE DEF old, m
<1>7. /\ First' = [First EXCEPT ![p] = n - kept + 1]
      /\ Given' = [Given EXCEPT ![p] = SubSeq(b, n - kept + 1, n)]
  BY <1>2, <1>4
<1>8. QED
  BY <1>4, <1>5, <1>6, <1>7, PromiseMapping

LEMMA WriteFirstStutters ==
    ASSUME FeedInv, NEW p \in Pages, Feed!WriteFirst(p)
    PROVE  UNCHANGED Promise!vars
<1>. DEFINE old == page[p]
            pg == [old EXCEPT !.pc = "live", !.state = guiRuntime]
<1>1. /\ old.pc = "first" /\ page' = [page EXCEPT ![p].pc = "live", ![p].state = guiRuntime]
      /\ guiServer' = guiServer
  BY DEF Feed!WriteFirst
<1>2. page \in [Pages -> PageRecord] /\ old \in PageRecord
  BY DEF FeedInv, FeedShapes
<1>3. page' = [page EXCEPT ![p] = pg]
  BY <1>1, <1>2
<1>. HIDE DEF old
<1>4. /\ pg.pc = "live" /\ pg.sent = old.sent /\ pg.from = old.from /\ pg.buffer = old.buffer
  BY <1>2 DEF PageRecord
<1>5. pg.open = old.open
  BY <1>2, Zenon DEF PageRecord
<1>. HIDE DEF pg
<1>6. VisitOf(pg) = VisitOf(old) /\ UntilOf(pg) = UntilOf(old)
  BY <1>1, <1>4, <1>5 DEF VisitOf, UntilOf
<1>7. UNCHANGED <<Visit, First, Given, Until>>
  BY ZenonT(30), <1>2, <1>3, <1>4, <1>6, OneView, Views DEF old
<1>8. Published' = Published
  BY <1>1 DEF Published
<1>9. QED
  BY <1>7, <1>8, PromiseMapping

\* What is written to a page is the next message, if it is a message.
LEMMA WriteEventGives ==
    ASSUME Feed!ConstantsOK, FeedInv, NEW p \in Pages, Feed!WriteEvent(p)
    PROVE  Promise!Give(p) \/ UNCHANGED Promise!vars
<1>. DEFINE old == page[p]
            e == Head(old.buffer)
            t == Tail(old.buffer)
            sent == IF e.name = "message" THEN Append(old.sent, e.id) ELSE old.sent
            state == IF e.name = "state" THEN e.state ELSE old.state
            pg == [old EXCEPT !.buffer = t, !.sent = sent, !.state = state]
            s == old.sent
            from == old.from
            all == Feed!MessageIds(old.buffer)
            rest == Feed!MessageIds(t)
            b == Published
<1>1. /\ old.pc = "live" /\ old.buffer # <<>> /\ guiServer' = guiServer
      /\ page' = [page EXCEPT ![p].buffer = t, ![p].sent = sent, ![p].state = state]
  BY DEF Feed!WriteEvent
<1>2. page \in [Pages -> PageRecord] /\ old \in PageRecord /\ PageFits(old, b)
  BY DEF FeedInv, FeedShapes
<1>3. page' = [page EXCEPT ![p] = pg]
  <2>. HIDE DEF t, sent, state
  <2>1. QED
    BY <1>1, <1>2
<1>4. b' = b
  BY <1>1 DEF Published
<1>5. b \in Seq(Nat)
  BY ShapesOf DEF FeedInv
<1>. HIDE DEF old, b
<1>6. /\ old.buffer \in Seq(Event) /\ s \in Seq(Nat) /\ all \in Seq(Nat) /\ from \in Nat
      /\ Got(old) = s \o all
  BY <1>2, GotIs DEF Got
<1>7. e \in Event /\ t \in Seq(Event)
  BY <1>1, <1>6, HeadTailProperties
<1>8. /\ e.name = "message" => all = <<e.id>> \o rest
      /\ e.name # "message" => all = rest
  BY <1>1, <1>6, IdsTail
<1>9. rest \in Seq(Nat) /\ e.id \in Nat
  BY <1>7, IdsType DEF Event
<1>10. /\ from >= 1 /\ from + Len(s \o all) - 1 <= Len(b)
       /\ \A k \in 1 .. Len(s \o all) : (s \o all)[k] = b[from + k - 1]
  BY <1>1, <1>2, <1>6 DEF PageFits, RowOf
<1>. HIDE DEF e, t
<1>11. /\ pg.pc = "live" /\ pg.sent = sent /\ pg.from = from /\ pg.buffer = t
  <2>. HIDE DEF sent, state
  <2>1. QED
    BY <1>1, <1>2 DEF PageRecord
<1>12. pg.open = old.open
  <2>. HIDE DEF sent, state
  <2>1. QED
    BY <1>2, Zenon DEF PageRecord
<1>. HIDE DEF pg
<1>13. CASE e.name # "message"
  <2>1. sent = s /\ rest = all
    BY <1>8, <1>13
  <2>2. VisitOf(pg) = VisitOf(old) /\ UntilOf(pg) = UntilOf(old)
    <3>. HIDE DEF sent
    <3>1. QED
      BY <1>1, <1>11, <1>12, <2>1 DEF VisitOf, UntilOf
  <2>3. UNCHANGED <<Visit, First, Given, Until>>
    <3>1. pg.sent = old.sent /\ pg.from = old.from
      <4>1. pg.sent = s /\ pg.from = from
        <5>. HIDE DEF sent, s, from
        <5>1. QED
          BY <1>11, <2>1
      <4>2. QED
        BY <4>1
    <3>2. /\ Visit' = [Visit EXCEPT ![p] = Visit[p]]
          /\ First' = [First EXCEPT ![p] = First[p]]
          /\ Given' = [Given EXCEPT ![p] = Given[p]]
          /\ Until' = [Until EXCEPT ![p] = Until[p]]
      <4>1. /\ Visit[p] = VisitOf(old) /\ First[p] = old.from /\ Given[p] = old.sent
            /\ Until[p] = UntilOf(old)
            /\ Visit' = [Visit EXCEPT ![p] = VisitOf(pg)]
            /\ First' = [First EXCEPT ![p] = pg.from]
            /\ Given' = [Given EXCEPT ![p] = pg.sent]
            /\ Until' = [Until EXCEPT ![p] = UntilOf(pg)]
        BY <1>2, <1>3, OneView DEF old
      <4>. HIDE DEF sent, s, from, all, rest
      <4>2. QED
        BY <2>2, <3>1, <4>1
    <3>3. QED
      BY <3>2, Views
  <2>4. b' = b
    BY <1>4
  <2>5. QED
    BY <2>3, <2>4, PromiseMapping DEF b
<1>14. CASE e.name = "message"
  <2>. DEFINE x == e.id
              next == from + Len(s)
              one == <<x>>
  <2>1. sent = Append(s, x) /\ all = one \o rest
    BY <1>8, <1>14
  <2>2. x \in Nat
    BY <1>9
  <2>. HIDE DEF sent, s, all, rest, x, from
  <2>3. /\ Len(sent) = Len(s) + 1 /\ Len(all) = 1 + Len(rest) /\ all[1] = x
        /\ Len(s) \in Nat /\ Len(rest) \in Nat /\ Len(all) \in Nat
    <3>1. one \in Seq(Nat) /\ Len(one) = 1 /\ one[1] = x
      BY <2>2
    <3>. HIDE DEF one
    <3>2. Len(all) = 1 + Len(rest) /\ all[1] = x /\ Len(rest) \in Nat
      BY <1>9, <2>1, <3>1, ConcatProperties, LenProperties
    <3>3. Len(sent) = Len(s) + 1 /\ Len(s) \in Nat
      BY <1>6, <2>1, <2>2, AppendProperties, LenProperties
    <3>4. QED
      BY <3>2, <3>3
  <2>4. /\ Len(s \o all) = Len(s) + Len(all)
        /\ (s \o all)[Len(s) + 1] = x
    <3>1. /\ Len(s \o all) = Len(s) + Len(all)
          /\ \A i \in 1 .. Len(s) + Len(all) :
               (s \o all)[i] = IF i <= Len(s) THEN s[i] ELSE all[i - Len(s)]
      BY <1>6, ConcatProperties
    <3>. DEFINE i == Len(s) + 1
    <3>2. i \in 1 .. Len(s) + Len(all) /\ ~(i <= Len(s)) /\ i - Len(s) = 1
      BY <2>3
    <3>. HIDE DEF i
    <3>3. (s \o all)[i] = all[1]
      BY <3>1, <3>2
    <3>4. QED
      BY <2>3, <3>1, <3>3 DEF i
  <2>5. b[next] = x
    <3>. DEFINE i == Len(s) + 1
                u == s \o all
    <3>1. i \in 1 .. Len(u) /\ from + i - 1 = next
      BY <1>6, <2>3, <2>4
    <3>2. u[i] = x /\ \A k \in 1 .. Len(u) : u[k] = b[from + k - 1]
      BY <1>10, <2>4
    <3>. HIDE DEF u, i, next
    <3>3. u[i] = b[from + i - 1]
      BY <3>1, <3>2
    <3>4. QED
      BY <3>1, <3>2, <3>3
  <2>6. /\ next <= Len(b)
        /\ next <= from + Len(s) + Len(all) - 1
        /\ from + Len(s) + Len(all) - 1 = from + Len(sent) + Len(rest) - 1
    BY <1>6, <1>10, <2>3, <2>4
  <2>7. VisitOf(pg) = VisitOf(old) /\ UntilOf(pg) = UntilOf(old) /\ VisitOf(old) # "away"
    <3>1. /\ UntilOf(old) = IF old.open THEN 0 ELSE from + Len(s) + Len(all) - 1
          /\ UntilOf(pg) = IF pg.open THEN 0 ELSE from + Len(sent) + Len(rest) - 1
      BY <1>1, <1>11 DEF UntilOf, s, all, from, rest
    <3>2. VisitOf(pg) = VisitOf(old) /\ VisitOf(old) # "away"
      BY <1>1, <1>11, <1>12 DEF VisitOf
    <3>. HIDE DEF next
    <3>3. QED
      BY <1>12, <2>6, <3>1, <3>2
  <2>8. next <= IF VisitOf(old) = "live" THEN Len(b) ELSE UntilOf(old)
    <3>1. VisitOf(old) # "live" => UntilOf(old) = from + Len(s) + Len(all) - 1
      BY <1>1 DEF VisitOf, UntilOf, s, all, from
    <3>. HIDE DEF next
    <3>2. QED
      BY <2>6, <3>1
  <2>9. /\ Visit[p] = VisitOf(old) /\ First[p] = from /\ Given[p] = s /\ Until[p] = UntilOf(old)
        /\ Visit' = [Visit EXCEPT ![p] = Visit[p]] /\ First' = [First EXCEPT ![p] = First[p]]
        /\ Given' = [Given EXCEPT ![p] = sent] /\ Until' = [Until EXCEPT ![p] = Until[p]]
    <3>1. /\ Visit[p] = VisitOf(old) /\ First[p] = old.from /\ Given[p] = old.sent
          /\ Until[p] = UntilOf(old)
          /\ Visit' = [Visit EXCEPT ![p] = VisitOf(pg)]
          /\ First' = [First EXCEPT ![p] = pg.from]
          /\ Given' = [Given EXCEPT ![p] = pg.sent]
          /\ Until' = [Until EXCEPT ![p] = UntilOf(pg)]
      BY <1>2, <1>3, OneView DEF old
    <3>2. pg.from = old.from /\ old.from = from /\ old.sent = s
      BY <1>11 DEF s, from
    <3>3. QED
      BY <1>11, <2>7, <3>1, <3>2
  <2>10. UNCHANGED <<Visit, First, Until>>
    BY <2>9, Views
  <2>11. Given' = [Given EXCEPT ![p] = Append(Given[p], b[First[p] + Len(Given[p])])]
    BY <2>1, <2>5, <2>9
  <2>12. /\ Visit[p] # "away"
         /\ First[p] + Len(Given[p]) <= IF Visit[p] = "live" THEN Len(b) ELSE Until[p]
    BY <2>7, <2>8, <2>9
  <2>13. QED
    BY <1>4, <2>10, <2>11, <2>12, PromiseMapping DEF b
<1>15. QED
  BY <1>13, <1>14

LEMMA LeaveCloses ==
    ASSUME FeedInv, NEW p \in Pages, Feed!Leave(p)
    PROVE  Promise!Close(p)
<1>. DEFINE pg == Feed!Unvisited
<1>1. /\ page[p].pc = "live" /\ page' = [page EXCEPT ![p] = pg] /\ guiServer' = guiServer
      /\ page \in [Pages -> PageRecord]
  BY DEF Feed!Leave, FeedInv, FeedShapes
<1>2. /\ VisitOf(pg) = "away" /\ UntilOf(pg) = 0 /\ pg.sent = <<>> /\ pg.from = 1
      /\ VisitOf(page[p]) # "away"
  BY <1>1 DEF VisitOf, UntilOf, Feed!Unvisited
<1>. HIDE DEF pg
<1>3. /\ Visit[p] # "away"
      /\ Visit' = [Visit EXCEPT ![p] = "away"]
      /\ First' = [First EXCEPT ![p] = 1]
      /\ Given' = [Given EXCEPT ![p] = <<>>]
      /\ Until' = [Until EXCEPT ![p] = 0]
  <2>1. /\ Visit[p] = VisitOf(page[p]) /\ Until[p] = UntilOf(page[p])
        /\ Visit' = [Visit EXCEPT ![p] = VisitOf(pg)]
        /\ First' = [First EXCEPT ![p] = pg.from]
        /\ Given' = [Given EXCEPT ![p] = pg.sent]
        /\ Until' = [Until EXCEPT ![p] = UntilOf(pg)]
    BY <1>1, OneView
  <2>2. QED
    BY <1>2, <2>1
<1>4. Published' = Published
  BY <1>1 DEF Published
<1>5. QED
  BY <1>3, <1>4, PromiseMapping

\* Every step of the feed is a step of HistoryFanout or leaves it as it is.
LEMMA FanoutStep ==
    ASSUME Feed!ConstantsOK, FeedInv, Bounded, [Feed!Next]_(Feed!vars)
    PROVE  [Promise!Next]_(Promise!vars)
<1>1. ASSUME page' = page, Published' = Published
      PROVE  UNCHANGED Promise!vars
  <2>1. UNCHANGED <<Published, Visit, First, Given, Until>>
    BY <1>1, SameViews
  <2>2. QED
    BY <2>1, PromiseMapping
<1>2. CASE UNCHANGED Feed!vars
  BY <1>1, <1>2 DEF Feed!vars, Published
<1>3. CASE Feed!Client
  <2>1. page' = page /\ guiServer' = guiServer
    BY <1>3 DEF Feed!Client, Feed!Report, Feed!Dial, Feed!DialRejected, Feed!ReportRejected,
                Feed!ReadMessage, Feed!ConnectionLost, Feed!ReadCancelled, Feed!RetryTimer,
                Feed!WaitCancelled
  <2>2. QED
    BY <1>1, <2>1 DEF Published
<1>4. ASSUME \/ Feed!Broadcast \/ Feed!Cancel \/ (\E a \in Feed!Actors : Feed!ReadState(a))
             \/ (\E h \in Handlers : Feed!SelectTarget(h) \/ Feed!RefreshStatus(h))
      PROVE  UNCHANGED Promise!vars
  <2>1. page' = page /\ guiServer' = guiServer
    BY <1>4 DEF Feed!Broadcast, Feed!Cancel, Feed!ReadState, Feed!SelectTarget,
                Feed!RefreshStatus
  <2>2. QED
    BY <1>1, <2>1 DEF Published
<1>8. CASE Feed!PublisherReturns
  <2>1. guiServer' = [guiServer EXCEPT !.publishing = FALSE] /\ page' = page
    BY <1>8 DEF Feed!PublisherReturns
  <2>2. Published' = Published
    BY <2>1 DEF FeedInv, FeedShapes, Published
  <2>3. QED
    BY <1>1, <2>1, <2>2
<1>5. CASE Feed!Publish
  BY <1>5, PublishIsPublish DEF Promise!Next
<1>6. ASSUME NEW a \in Feed!Actors, Feed!PublishState(a)
      PROVE  Promise!Next
  BY <1>6, PublishStateDrops DEF Promise!Next
<1>7. ASSUME NEW p \in Pages,
             Feed!Subscribe(p) \/ Feed!WriteFirst(p) \/ Feed!WriteEvent(p) \/ Feed!Leave(p)
      PROVE  [Promise!Next]_(Promise!vars)
  <2>1. Promise!Open(p) \/ Promise!Give(p) \/ Promise!Close(p) \/ UNCHANGED Promise!vars
    BY <1>7, SubscribeOpens, WriteFirstStutters, WriteEventGives, LeaveCloses
  <2>2. QED
    BY <2>1 DEF Promise!Next
<1>9. QED
  BY <1>2, <1>3, <1>4, <1>5, <1>6, <1>7, <1>8 DEF Feed!Next

\* The feed of the desktop client, with its queue, its history, the channels of its
\* pages and those it drops, gives every page what HistoryFanout promises: however many
\* pages and messages there are and however small the history and the channels.
THEOREM FeedIsFanout ==
    ASSUME Feed!ConstantsOK
    PROVE  Feed!Spec => FeedImplementsFanout
<1>1. Feed!Init => FeedInv /\ Bounded /\ Promise!Init
  <2>1. SUFFICES ASSUME Feed!Init PROVE FeedInv /\ Bounded /\ Promise!Init
    OBVIOUS
  <2>2. FeedInv /\ Bounded
    BY <2>1, FeedInit, FeedNumbers DEF Feed!Init, Bounded
  <2>3. page = [p \in Pages |-> Feed!Unvisited]
    BY <2>1 DEF Feed!Init
  <2>4. /\ Visit = [p \in Pages |-> "away"] /\ First = [p \in Pages |-> 1]
        /\ Given = [p \in Pages |-> <<>>] /\ Until = [p \in Pages |-> 0]
    BY <2>3, Views DEF VisitOf, UntilOf, Feed!Unvisited
  <2>5. Published = <<>>
    BY <2>1 DEF Feed!Init, Published
  <2>6. QED
    BY <2>2, <2>4, <2>5 DEF Promise!Init, Published
<1>2. FeedInv /\ Bounded /\ [Feed!Next]_(Feed!vars) => FeedInv' /\ Bounded'
  BY FeedNext, BoundedNext DEF FeedInv
<1>3. FeedInv /\ Bounded /\ [Feed!Next]_(Feed!vars) => [Promise!Next]_(Promise!vars)
  BY FanoutStep
<1>4. QED
  BY <1>1, <1>2, <1>3, PTL DEF Feed!Spec, FeedImplementsFanout, Promise!Spec
================================================================================
