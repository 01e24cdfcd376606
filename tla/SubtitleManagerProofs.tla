----------------------- MODULE SubtitleManagerProofs -----------------------
(***************************************************************************)
(* Proofs about SubtitleManager for every set of workers, every choice of  *)
(* calls that may fail and every number of restarts: the workers paid for  *)
(* are accounted for, and there is never more than one of them, those      *)
(* given up apart.                                                         *)
(***************************************************************************)
EXTENDS SubtitleManager, FiniteSetTheorems, TLAPS

-----------------------------------------------------------------------------
(* Type correctness.                                                       *)

LEMMA SessionTypes ==
    /\ NoSession \in Sessions
    /\ \A s \in Sessions : s.pod \in Pods \cup {NoPod}
    /\ \A s \in Sessions : s.pod = NoPod => s = NoSession
    /\ NoSession.pod = NoPod
    /\ \A s \in Sessions, new \in States :
          s # NoSession => /\ [s EXCEPT !.state = new] \in Sessions
                           /\ [s EXCEPT !.state = new].pod = s.pod
  BY ManagerAssumption DEF ManagerAssumption, Sessions, NoSession, States

-----------------------------------------------------------------------------
(* The inductive invariant.  A worker that exists and was not given up is  *)
(* the session's, or about to be recorded as it; one holder of stopMu at a *)
(* time has a target, so a session is only forgotten when its own worker   *)
(* is gone; and nothing of this is left when the process is down.          *)

Active(c) == stopper[c] \in {"deleting", "deleted", "failed"}

WorkersKnown ==
    /\ IF starter = "created" THEN created \in used ELSE created = NoPod
    /\ current # NoSession => current.pod \in used
    /\ file # NoSession => file.pod \in used

OneStop ==
    /\ \A c \in Callers : Active(c) => target \in used
    /\ \A c, d \in Callers : Active(c) /\ Active(d) => c = d

DeletedIsGone == \A c \in Callers : stopper[c] = "deleted" => target \notin alive

NothingLeftWhenDown ==
    process = "down" =>
        /\ starter = "idle"
        /\ current = NoSession
        /\ \A c \in Callers : ~Active(c)

IInv ==
    /\ TypeOK
    /\ WorkersKnown
    /\ OneStop
    /\ DeletedIsGone
    /\ NothingLeftWhenDown
    /\ CreatingExcludesSession
    /\ WorkersAccountedFor

LEMMA TypeInit == Init => TypeOK
<1>. SUFFICES ASSUME Init
              PROVE  TypeOK
  OBVIOUS
<1>1. current \in Sessions /\ file \in Sessions
  BY SessionTypes DEF Init
<1>2. QED
  BY <1>1, ManagerAssumption DEF Init, TypeOK, ManagerAssumption

\* A session that only changes its state stays the session of its worker.
LEMMA NewState ==
    ASSUME TypeOK, current # NoSession, NEW new \in States,
           current' = [current EXCEPT !.state = new]
    PROVE  current' \in Sessions /\ current' # NoSession /\ current'.pod = current.pod
<1>1. current' \in Sessions /\ current'.pod = current.pod
  BY SessionTypes DEF TypeOK
<1>2. current.pod # NoPod
  BY SessionTypes DEF TypeOK
<1>3. QED
  BY <1>1, <1>2, SessionTypes

LEMMA QueueType ==
    ASSUME TypeOK, NEW c \in Callers, Queue(c)
    PROVE  stopper' \in [Callers -> {"idle", "queued", "deleting", "deleted", "failed"}]
  BY DEF TypeOK, Queue

LEMMA TypeStep ==
    ASSUME TypeOK, WorkersKnown, OneStop, [Next]_vars
    PROVE  TypeOK'
<1>. USE ManagerAssumption, SessionTypes DEF TypeOK, ManagerAssumption
<1>0. /\ Pods \subseteq Callers
      /\ {"user", "startup", "shutdown", "starter", "price"} \subseteq Callers
  BY DEF Callers, OtherCallers
<1>1. ASSUME StartBegins \/ LimitPasses
      PROVE  TypeOK'
  BY <1>1 DEF StartBegins, LimitPasses
<1>2. ASSUME NEW p \in Pods, CreateSucceeds(p)
      PROVE  TypeOK'
  BY <1>2 DEF CreateSucceeds
<1>3. ASSUME CreateFails
      PROVE  TypeOK'
  BY <1>3 DEF CreateFails
<1>4. ASSUME WorkerRefused
      PROVE  TypeOK'
  <2>1. alive' \subseteq used /\ abandoned' \subseteq used
    <3>1. created \in used
      BY <1>4 DEF WorkerRefused, WorkersKnown
    <3>2. QED
      BY <1>4, <3>1 DEF WorkerRefused, DeleteIgnoringError
  <2>2. QED
    BY <1>4, <2>1 DEF WorkerRefused
<1>5. ASSUME Record
      PROVE  TypeOK'
  <2>. DEFINE session == [pod |-> created, state |-> "starting"]
  <2>1. session \in Sessions
    BY <1>5 DEF Record, WorkersKnown, Sessions, States
  <2>2. current' = session /\ (file' = session \/ file' = file)
    BY <1>5 DEF Record
  <2>. HIDE DEF session
  <2>3. /\ stopper' \in [Callers -> {"idle", "queued", "deleting", "deleted", "failed"}]
        /\ monitor' \in [Pods -> {"none", "ticking", "polling", "done"}]
    BY <1>0, <1>5, QueueType DEF Record
  <2>4. QED
    BY <1>5, <2>1, <2>2, <2>3 DEF Record
<1>6. ASSUME UserStops \/ ContextEnds
      PROVE  TypeOK'
  BY <1>0, <1>6, QueueType DEF UserStops, ContextEnds
<1>7. ASSUME NEW c \in Callers, StopBegins(c)
      PROVE  TypeOK'
  <2>1. stopper' \in [Callers -> {"idle", "queued", "deleting", "deleted", "failed"}]
    BY <1>7 DEF StopBegins
  <2>2. CASE current = NoSession
    BY <1>7, <2>1, <2>2 DEF StopBegins
  <2>3. CASE current # NoSession
    <3>1. current' \in Sessions /\ current.pod \in Pods
      BY <1>7, <2>3, NewState DEF StopBegins, States
    <3>2. file' = current' \/ file' = file
      BY <1>7, <2>3 DEF StopBegins, Save
    <3>3. QED
      BY <1>7, <2>1, <2>3, <3>1, <3>2 DEF StopBegins
  <2>4. QED
    BY <2>2, <2>3
<1>8. ASSUME NEW c \in Callers, DeleteReturns(c)
      PROVE  TypeOK'
  BY <1>8 DEF DeleteReturns
<1>9. ASSUME NEW c \in Callers, KeepSession(c)
      PROVE  TypeOK'
  <2>1. current.pod = target => current # NoSession
    BY <1>9 DEF KeepSession, OneStop, Active
  <2>2. current' \in Sessions
    BY <1>9, <2>1, NewState DEF KeepSession, States
  <2>3. file' = current' \/ file' = file
    BY <1>9 DEF KeepSession, Save
  <2>4. QED
    BY <1>9, <2>2, <2>3 DEF KeepSession, ReleaseStop
<1>10. ASSUME NEW c \in Callers, ForgetSession(c)
       PROVE  TypeOK'
  <2>1. current' \in Sessions /\ (file' = NoSession \/ file' = file)
    BY <1>10 DEF ForgetSession, Save
  <2>2. QED
    BY <1>10, <2>1 DEF ForgetSession, ReleaseStop
<1>11. ASSUME Heartbeat
       PROVE  TypeOK'
  BY <1>11 DEF Heartbeat, Save
<1>12. ASSUME NEW p \in Pods, MonitorLeaves(p) \/ MonitorAsks(p) \/ PollEnds(p)
       PROVE  TypeOK'
  BY <1>12 DEF MonitorLeaves, MonitorAsks, PollEnds, Save
<1>13. ASSUME NEW p \in Pods, MonitorStops(p)
       PROVE  TypeOK'
  BY <1>0, <1>13, QueueType DEF MonitorStops
<1>14. ASSUME NEW p \in Pods, PriceRises(p) \/ BecomesReady(p)
       PROVE  TypeOK'
  <2>1. current # NoSession
    BY <1>14 DEF PriceRises, BecomesReady
  <2>2. current' \in Sessions
    BY <1>14, <2>1, NewState DEF PriceRises, BecomesReady, States
  <2>3. file' = current' \/ file' = file
    BY <1>14 DEF PriceRises, BecomesReady, Save
  <2>4. QED
    BY <1>0, <1>14, <2>2, <2>3 DEF PriceRises, BecomesReady
<1>15. ASSUME Ends
       PROVE  TypeOK'
  <2>1. stopper' \in [Callers -> {"idle", "queued", "deleting", "deleted", "failed"}]
    BY <1>15 DEF Ends
  <2>2. monitor' \in [Pods -> {"none", "ticking", "polling", "done"}]
    BY <1>15 DEF Ends
  <2>3. abandoned' \subseteq used
    BY <1>15 DEF Ends, WorkersKnown
  <2>4. QED
    BY <1>15, <2>1, <2>2, <2>3 DEF Ends
<1>16. ASSUME Restart
       PROVE  TypeOK'
  BY <1>0, <1>16, QueueType DEF Restart
<1>17. ASSUME UNCHANGED vars
       PROVE  TypeOK'
  BY <1>17 DEF vars, memory
<1>18. QED
  BY <1>1, <1>2, <1>3, <1>4, <1>5, <1>6, <1>7, <1>8, <1>9, <1>10, <1>11,
     <1>12, <1>13, <1>14, <1>15, <1>16, <1>17
  DEF Next, Start, Stop, Monitor, Exit, Crash

-----------------------------------------------------------------------------
(* The invariance proof.                                                   *)

LEMMA InvInit == Init => IInv
<1>. SUFFICES ASSUME Init
              PROVE  IInv
  OBVIOUS
<1>1. TypeOK
  BY TypeInit
<1>2. WorkersKnown /\ OneStop /\ DeletedIsGone /\ NothingLeftWhenDown
  BY DEF Init, WorkersKnown, OneStop, DeletedIsGone, NothingLeftWhenDown, Active
<1>3. CreatingExcludesSession /\ WorkersAccountedFor
  BY DEF Init, CreatingExcludesSession, WorkersAccountedFor
<1>4. QED
  BY <1>1, <1>2, <1>3 DEF IInv

\* Queueing a Stop makes nobody the holder of stopMu, and nobody's worker gone.
LEMMA QueueHarmless ==
    ASSUME TypeOK, NEW c \in Callers, Queue(c) \/ UNCHANGED stopper
    PROVE  \A d \in Callers : /\ Active(d)' => Active(d)
                              /\ stopper'[d] = "deleted" => stopper[d] = "deleted"
  BY DEF TypeOK, Queue, Active

\* A step that lets workers and sessions be, and at most queues Stops, preserves
\* the invariant.
LEMMA QuietStep ==
    ASSUME IInv, TypeOK', Running, Running',
           UNCHANGED <<alive, used, starter, created, target, abandoned>>,
           current'.pod = current.pod,
           file' = file \/ file' = current',
           \A d \in Callers : /\ Active(d)' => Active(d)
                              /\ stopper'[d] = "deleted" => stopper[d] = "deleted"
    PROVE  IInv'
<1>1. current' = NoSession <=> current = NoSession
  BY SessionTypes DEF IInv, TypeOK
<1>2. WorkersKnown'
  BY <1>1 DEF IInv, WorkersKnown
<1>3. OneStop' /\ DeletedIsGone'
  <2>1. target' = target /\ used' = used /\ alive' = alive
    OBVIOUS
  <2>2. ASSUME NEW c \in Callers, Active(c)'
        PROVE  Active(c)
    BY <2>2
  <2>3. ASSUME NEW c \in Callers, stopper'[c] = "deleted"
        PROVE  stopper[c] = "deleted"
    BY <2>3
  <2>4. OneStop'
    BY <2>1, <2>2 DEF IInv, OneStop
  <2>5. DeletedIsGone'
    BY <2>1, <2>3 DEF IInv, DeletedIsGone
  <2>6. QED
    BY <2>4, <2>5
<1>4. NothingLeftWhenDown' /\ CreatingExcludesSession'
  BY <1>1 DEF IInv, NothingLeftWhenDown, CreatingExcludesSession, Running
<1>5. WorkersAccountedFor'
  BY DEF IInv, WorkersAccountedFor, Running
<1>6. QED
  BY <1>2, <1>3, <1>4, <1>5 DEF IInv

LEMMA InvStep ==
    ASSUME IInv, [Next]_vars
    PROVE  IInv'
<1>0. TypeOK /\ TypeOK'
  BY TypeStep DEF IInv
<1>. USE ManagerAssumption, SessionTypes DEF ManagerAssumption
<1>a. /\ Pods \subseteq Callers
      /\ {"user", "startup", "shutdown", "starter", "price"} \subseteq Callers
  BY DEF Callers, OtherCallers
<1>1. ASSUME StartBegins
      PROVE  IInv'
  BY <1>0, <1>1
  DEF StartBegins, IInv, WorkersKnown, OneStop, DeletedIsGone, Active, Running,
      NothingLeftWhenDown, CreatingExcludesSession, WorkersAccountedFor
<1>2. ASSUME NEW p \in Pods, CreateSucceeds(p)
      PROVE  IInv'
  BY <1>0, <1>2
  DEF CreateSucceeds, IInv, WorkersKnown, OneStop, DeletedIsGone, Active, Running,
      NothingLeftWhenDown, CreatingExcludesSession, WorkersAccountedFor
<1>3. ASSUME CreateFails
      PROVE  IInv'
  BY <1>0, <1>3
  DEF CreateFails, IInv, WorkersKnown, OneStop, DeletedIsGone, Active, Running,
      NothingLeftWhenDown, CreatingExcludesSession, WorkersAccountedFor
<1>4. ASSUME WorkerRefused
      PROVE  IInv'
  BY <1>0, <1>4
  DEF WorkerRefused, DeleteIgnoringError, IInv, WorkersKnown, OneStop,
      DeletedIsGone, Active, Running, NothingLeftWhenDown,
      CreatingExcludesSession, WorkersAccountedFor
<1>5. ASSUME Record
      PROVE  IInv'
  <2>. DEFINE session == [pod |-> created, state |-> "starting"]
  <2>1. /\ starter = "created" /\ created \in used /\ current = NoSession
        /\ current' = session /\ starter' = "idle" /\ created' = NoPod
        /\ file' = session \/ file' = file
        /\ UNCHANGED <<process, alive, used, target, abandoned>>
    BY <1>5 DEF Record, IInv, WorkersKnown, CreatingExcludesSession
  <2>2. session.pod = created
    OBVIOUS
  <2>. HIDE DEF session
  <2>3. process # "down"
    BY <2>1 DEF IInv, NothingLeftWhenDown
  <2>4. \A d \in Callers : /\ Active(d)' => Active(d)
                           /\ stopper'[d] = "deleted" => stopper[d] = "deleted"
    BY <1>0, <1>5, <1>a, QueueHarmless DEF Record
  <2>5. WorkersKnown' /\ OneStop' /\ DeletedIsGone'
    BY <2>1, <2>2, <2>4 DEF IInv, WorkersKnown, OneStop, DeletedIsGone
  <2>6. NothingLeftWhenDown' /\ CreatingExcludesSession' /\ WorkersAccountedFor'
    BY <2>1, <2>2, <2>3
    DEF IInv, NothingLeftWhenDown, CreatingExcludesSession, WorkersAccountedFor,
        Running
  <2>7. QED
    BY <1>0, <2>5, <2>6 DEF IInv
<1>6. ASSUME \/ UserStops \/ LimitPasses \/ Heartbeat \/ ContextEnds
             \/ \E p \in Pods : Monitor(p)
      PROVE  IInv'
  <2>1. CASE process = "down"
    <3>1. current = NoSession
      BY <2>1 DEF IInv, NothingLeftWhenDown
    <3>2. PICK p \in Pods : MonitorLeaves(p) \/ PollEnds(p)
      BY <1>6, <2>1, <3>1
      DEF UserStops, LimitPasses, Heartbeat, ContextEnds, Monitor, MonitorStops,
          MonitorAsks, PriceRises, BecomesReady, Running
    <3>3. UNCHANGED <<process, alive, used, current, file, starter, created,
                      stopper, target, abandoned>>
      BY <3>1, <3>2, ManagerAssumption
      DEF MonitorLeaves, PollEnds, NoSession, ManagerAssumption
    <3>4. QED
      BY <1>0, <3>3
      DEF IInv, WorkersKnown, OneStop, DeletedIsGone, Active, Running,
          NothingLeftWhenDown, CreatingExcludesSession, WorkersAccountedFor
  <2>2. CASE process # "down"
    <3>1. /\ Running /\ Running'
          /\ UNCHANGED <<alive, used, starter, created, target, abandoned>>
          /\ file' = file \/ file' = current'
      BY <1>6, <2>2
      DEF UserStops, LimitPasses, Heartbeat, ContextEnds, Monitor, MonitorLeaves,
          MonitorStops, MonitorAsks, PollEnds, PriceRises, BecomesReady, Running,
          Save
    <3>2. current'.pod = current.pod
      <4>1. ASSUME NEW p \in Pods, PriceRises(p) \/ BecomesReady(p)
            PROVE  current'.pod = current.pod
        <5>1. current # NoSession
          BY <4>1 DEF PriceRises, BecomesReady
        <5>2. QED
          BY <1>0, <4>1, <5>1, NewState DEF PriceRises, BecomesReady, States
      <4>2. CASE ~\E p \in Pods : PriceRises(p) \/ BecomesReady(p)
        BY <1>6, <4>2
        DEF UserStops, LimitPasses, Heartbeat, ContextEnds, Monitor, MonitorLeaves,
            MonitorStops, MonitorAsks, PollEnds
      <4>3. QED
        BY <4>1, <4>2
    <3>3. ASSUME NEW d \in Callers
          PROVE  /\ Active(d)' => Active(d)
                 /\ stopper'[d] = "deleted" => stopper[d] = "deleted"
      <4>1. CASE \E p \in Pods : PriceRises(p)
        BY <1>0, <1>a, <4>1 DEF PriceRises, TypeOK, Active
      <4>2. CASE ~\E p \in Pods : PriceRises(p)
        BY <1>0, <1>6, <1>a, <4>2, QueueHarmless
        DEF UserStops, LimitPasses, Heartbeat, ContextEnds, Monitor,
            MonitorLeaves, MonitorStops, MonitorAsks, PollEnds, BecomesReady
      <4>3. QED
        BY <4>1, <4>2
    <3>4. QED
      BY <1>0, <3>1, <3>2, <3>3, QuietStep
  <2>3. QED
    BY <2>1, <2>2
<1>7. ASSUME NEW c \in Callers, StopBegins(c)
      PROVE  IInv'
  <2>1. \A d \in Callers : ~Active(d)
    BY <1>0, <1>7 DEF StopBegins, IInv, OneStop, TypeOK
  <2>2. CASE current = NoSession
    <3>1. \A d \in Callers : ~Active(d)' /\ stopper'[d] # "deleted"
      BY <1>0, <1>7, <2>1, <2>2 DEF StopBegins, TypeOK, Active
    <3>2. QED
      BY <1>0, <1>7, <2>2, <3>1, QuietStep DEF StopBegins, Running
  <2>3. CASE current # NoSession
    <3>1. /\ stopper' = [stopper EXCEPT ![c] = "deleting"]
          /\ target' = current.pod
          /\ UNCHANGED <<process, alive, used, starter, created, abandoned>>
          /\ file' = file \/ file' = current'
          /\ process # "down"
      BY <1>7, <2>3 DEF StopBegins, Save, Running
    <3>2. current' # NoSession /\ current'.pod = current.pod
      BY <1>0, <1>7, <2>3, NewState DEF StopBegins, States
    <3>3. current.pod \in used
      BY <2>3 DEF IInv, WorkersKnown
    <3>4. \A d \in Callers : (Active(d)' => d = c) /\ stopper'[d] # "deleted"
      BY <1>0, <2>1, <3>1 DEF TypeOK, Active
    <3>5. WorkersKnown' /\ OneStop' /\ DeletedIsGone'
      BY <3>1, <3>2, <3>3, <3>4 DEF IInv, WorkersKnown, OneStop, DeletedIsGone
    <3>6. NothingLeftWhenDown' /\ CreatingExcludesSession' /\ WorkersAccountedFor'
      BY <2>3, <3>1, <3>2
      DEF IInv, NothingLeftWhenDown, CreatingExcludesSession,
          WorkersAccountedFor, Running
    <3>7. QED
      BY <1>0, <3>5, <3>6 DEF IInv
  <2>4. QED
    BY <2>2, <2>3
<1>8. ASSUME NEW c \in Callers, DeleteReturns(c)
      PROVE  IInv'
  <2>1. Active(c) /\ process # "down"
    BY <1>8 DEF DeleteReturns, Active, IInv, NothingLeftWhenDown
  <2>2. /\ UNCHANGED <<process, used, current, file, starter, created, target, abandoned>>
        /\ alive' \subseteq alive
        /\ stopper'[c] = "deleted" => target \notin alive'
        /\ \A d \in Callers \ {c} : stopper'[d] = stopper[d]
        /\ Active(c)'
    BY <1>0, <1>8 DEF DeleteReturns, TypeOK, Active
  <2>3. OneStop' /\ DeletedIsGone'
    BY <2>1, <2>2 DEF IInv, OneStop, DeletedIsGone, Active
  <2>4. QED
    BY <1>0, <2>1, <2>2, <2>3
    DEF IInv, WorkersKnown, NothingLeftWhenDown, CreatingExcludesSession,
        WorkersAccountedFor, Running
<1>9. ASSUME NEW c \in Callers, KeepSession(c) \/ ForgetSession(c)
      PROVE  IInv'
  <2>1. /\ Active(c) /\ target \in used
        /\ \A d \in Callers \ {c} : ~Active(d)
        /\ process # "down"
    BY <1>9 DEF KeepSession, ForgetSession, Active, IInv, OneStop, NothingLeftWhenDown
  <2>2. /\ UNCHANGED <<process, alive, used, starter, created, abandoned>>
        /\ \A d \in Callers : ~Active(d)' /\ stopper'[d] # "deleted"
    BY <1>0, <1>9, <2>1
    DEF KeepSession, ForgetSession, ReleaseStop, TypeOK, Active
  <2>3. OneStop' /\ DeletedIsGone' /\ NothingLeftWhenDown'
    BY <2>1, <2>2 DEF OneStop, DeletedIsGone, NothingLeftWhenDown
  <2>4. CASE KeepSession(c)
    <3>1. current'.pod = current.pod /\ (current' = NoSession <=> current = NoSession)
      <4>1. target # NoPod
        BY <1>0, <2>1 DEF TypeOK
      <4>2. CASE current.pod = target
        <5>1. current # NoSession /\ current' = [current EXCEPT !.state = "error"]
          BY <2>4, <4>1, <4>2 DEF KeepSession
        <5>2. QED
          BY <1>0, <5>1, NewState DEF States
      <4>3. CASE current.pod # target
        BY <2>4, <4>3 DEF KeepSession
      <4>4. QED
        BY <4>2, <4>3
    <3>2. file' = file \/ file' = current'
      BY <2>4 DEF KeepSession, Save
    <3>3. QED
      BY <1>0, <2>1, <2>2, <2>3, <3>1, <3>2
      DEF IInv, WorkersKnown, CreatingExcludesSession, WorkersAccountedFor, Running
  <2>5. CASE ForgetSession(c)
    <3>1. target \notin alive
      BY <2>5 DEF ForgetSession, IInv, DeletedIsGone
    <3>2. \/ UNCHANGED <<current, file>>
          \/ /\ current.pod = target
             /\ current' = NoSession
             /\ file' = NoSession \/ file' = file
      BY <2>5 DEF ForgetSession, Save
    <3>3. QED
      BY <1>0, <2>1, <2>2, <2>3, <3>1, <3>2
      DEF IInv, WorkersKnown, CreatingExcludesSession, WorkersAccountedFor, Running
  <2>6. QED
    BY <1>9, <2>4, <2>5
<1>10. ASSUME Ends, Running
       PROVE  IInv'
  <2>1. /\ process' = "down" /\ current' = NoSession /\ starter' = "idle"
        /\ created' = NoPod /\ UNCHANGED <<alive, used, file>>
        /\ abandoned' = abandoned \cup ({created, current.pod} \ {NoPod, file.pod})
        /\ \A c \in Callers : stopper'[c] = "idle"
    BY <1>10 DEF Ends
  <2>2. WorkersKnown' /\ OneStop' /\ DeletedIsGone' /\ NothingLeftWhenDown'
    BY <2>1
    DEF IInv, WorkersKnown, OneStop, DeletedIsGone, NothingLeftWhenDown, Active
  <2>3. alive \ abandoned \subseteq {current.pod, created} /\ NoPod \notin alive
    BY <1>0, <1>10 DEF IInv, WorkersAccountedFor, TypeOK
  <2>4. CreatingExcludesSession' /\ WorkersAccountedFor'
    BY <2>1, <2>3 DEF CreatingExcludesSession, WorkersAccountedFor, Running
  <2>5. QED
    BY <1>0, <2>2, <2>4 DEF IInv
<1>11. ASSUME Restart
       PROVE  IInv'
  <2>1. /\ process = "down" /\ process' = "up" /\ current' = file
        /\ UNCHANGED <<alive, used, file, starter, created, target, abandoned>>
    BY <1>11 DEF Restart
  <2>2. starter = "idle" /\ \A c \in Callers : ~Active(c)
    BY <2>1 DEF IInv, NothingLeftWhenDown
  <2>3. \A c \in Callers : ~Active(c)' /\ stopper'[c] # "deleted"
    BY <1>0, <1>11, <1>a, <2>2 DEF Restart, Queue, TypeOK, Active
  <2>4. QED
    BY <1>0, <2>1, <2>2, <2>3
    DEF IInv, WorkersKnown, OneStop, DeletedIsGone, NothingLeftWhenDown,
        CreatingExcludesSession, WorkersAccountedFor, Running
<1>12. ASSUME UNCHANGED vars
       PROVE  IInv'
  BY <1>0, <1>12
  DEF vars, memory, IInv, WorkersKnown, OneStop, DeletedIsGone, Active, Running,
      NothingLeftWhenDown, CreatingExcludesSession, WorkersAccountedFor
<1>13. QED
  BY <1>1, <1>2, <1>3, <1>4, <1>5, <1>6, <1>7, <1>8, <1>9, <1>10, <1>11, <1>12
  DEF Next, Start, Stop, Exit, Crash, Running

\* The strengthening is an invariant of the controller.
THEOREM Invariance == Spec => []IInv
<1>1. IInv => TypeOK /\ WorkersKnown /\ OneStop
  BY DEF IInv
<1>2. QED
  BY <1>1, InvInit, InvStep, PTL DEF Spec

\* Every reachable state of the controller has its type; in particular only one
\* of the states of manager.go is ever reported (manager.go:225-234).
THEOREM TypeCorrect == Spec => []TypeOK
  BY Invariance, PTL DEF IInv

\* No failed call, repeated Stop or restart makes the controller forget a paid
\* worker, but for those it gives up knowingly.
THEOREM NoWorkerForgotten == Spec => []WorkersAccountedFor
  BY Invariance, PTL DEF IInv

\* While a Start waits for the provider, no session appears (manager.go:264-278).
THEOREM StartIsExclusive == Spec => []CreatingExcludesSession
  BY Invariance, PTL DEF IInv

\* Two workers are never paid for at once, those given up apart.
THEOREM NeverTwoWorkers == Spec => []OneWorkerAtATime
<1>1. IInv => OneWorkerAtATime
  <2>. SUFFICES ASSUME IInv
                PROVE  Cardinality(alive \ abandoned) <= 1
    BY DEF OneWorkerAtATime
  <2>1. \E w : alive \ abandoned \subseteq {w}
    <3>1. NoPod \notin alive
      BY ManagerAssumption DEF IInv, TypeOK, ManagerAssumption
    <3>2. CASE ~Running
      BY <3>2 DEF IInv, WorkersAccountedFor
    <3>3. CASE Running /\ starter = "idle"
      BY <3>1, <3>3 DEF IInv, WorkersAccountedFor, WorkersKnown
    <3>4. CASE Running /\ starter # "idle"
      BY <3>1, <3>4, SessionTypes
      DEF IInv, WorkersAccountedFor, CreatingExcludesSession
    <3>5. QED
      BY <3>2, <3>3, <3>4
  <2>2. PICK w : alive \ abandoned \in SUBSET {w}
    BY <2>1
  <2>3. IsFiniteSet({w}) /\ Cardinality({w}) = 1
    BY FS_Singleton
  <2>4. Cardinality(alive \ abandoned) <= Cardinality({w})
    BY <2>2, <2>3, FS_Subset
  <2>5. QED
    BY <2>3, <2>4
<1>2. QED
  BY <1>1, Invariance, PTL

\* No poll of the monitor that returns late, no failed call and no restart shows
\* a session that is being stopped, or could not be, as starting or ready again
\* (markReady asks for the state again, manager.go:470-475).
THEOREM StoppingNeverUndone == Spec => StoppingIsFinal
<1>. DEFINE Ending(session) == session.state \in {"stopping", "error"}
<1>1. ASSUME IInv, [Next]_vars, Ending(current), current'.pod = current.pod
      PROVE  Ending(current')
  <2>0. TypeOK /\ current # NoSession
    BY <1>1 DEF IInv, NoSession
  <2>1. current.pod # NoPod /\ current' # NoSession
    BY <1>1, <2>0, SessionTypes DEF TypeOK
  <2>2. ASSUME NEW new \in States, current' = [current EXCEPT !.state = new]
        PROVE  current'.state = new
    BY <2>0, <2>2 DEF TypeOK, Sessions
  <2>3. ASSUME NEW c \in Callers, StopBegins(c)
        PROVE  Ending(current')
    BY <2>0, <2>2, <2>3 DEF StopBegins, States
  <2>4. ASSUME NEW c \in Callers, KeepSession(c) \/ ForgetSession(c)
        PROVE  Ending(current')
    BY <1>1, <2>1, <2>2, <2>4 DEF KeepSession, ForgetSession, States
  <2>5. ASSUME NEW p \in Pods, PriceRises(p)
        PROVE  Ending(current')
    BY <2>2, <2>5 DEF PriceRises, States
  <2>6. ASSUME NEW p \in Pods, BecomesReady(p)
        PROVE  FALSE
    BY <1>1, <2>6 DEF BecomesReady
  <2>7. ASSUME Record \/ Restart
        PROVE  FALSE
    BY <1>1, <2>0, <2>7
    DEF Record, Restart, IInv, CreatingExcludesSession, NothingLeftWhenDown
  <2>8. ASSUME Ends
        PROVE  FALSE
    BY <2>1, <2>8 DEF Ends
  <2>9. CASE UNCHANGED current
    BY <1>1, <2>9
  <2>10. QED
    BY <1>1, <2>3, <2>4, <2>5, <2>6, <2>7, <2>8, <2>9
    DEF Next, Start, Stop, Monitor, Exit, Crash, StartBegins, CreateSucceeds,
        CreateFails, WorkerRefused, UserStops, LimitPasses, Heartbeat,
        DeleteReturns, MonitorLeaves, MonitorStops, MonitorAsks, PollEnds,
        ContextEnds, vars, memory
<1>2. IInv /\ [Next]_vars
        => [Ending(current) /\ current'.pod = current.pod => Ending(current')]_vars
  BY <1>1
<1>3. QED
  BY <1>2, Invariance, PTL DEF Spec, StoppingIsFinal
=============================================================================
