----------------------- MODULE ServerCoordinatorProofs -----------------------
(***************************************************************************)
(* Theorems about ServerCoordinator, for every number of operations and    *)
(* every choice of delays.                                                 *)
(***************************************************************************)
EXTENDS ServerCoordinator, TLAPS

LEMMA NoViewType == NoView \in Readings
<1>1. Unknown \in 0 .. MaxBoots
  BY ServerAssumption DEF Unknown
<1>2. {} \in SUBSET Pendings
  OBVIOUS
<1> QED BY <1>1, <1>2 DEF NoView, Readings

LEMMA NeedsType == ASSUME NEW d PROVE NeedsReboot(d) \in BOOLEAN
BY DEF NeedsReboot

\* What a refresh leaves behind is of the right type.
LEMMA ApplyType ==
    ASSUME TypeOK, NEW t \in Tasks, Apply(t)
    PROVE  /\ data' \in Readings /\ lastOk' \in BOOLEAN /\ issue' \in BOOLEAN
           /\ dismissed' \in BOOLEAN
           /\ session' \in [Tasks -> [st : {"closed", "open", "read", "failed", "skipped"},
                                      view : Readings]]
<1>1. Closed \in [st : {"closed", "open", "read", "failed", "skipped"}, view : Readings]
  BY NoViewType DEF Closed, Session
<1>2. data \in Readings /\ session[t].view \in Readings
  BY DEF TypeOK
<1>3. data' \in Readings
  BY <1>2 DEF Apply
<1>4. lastOk' \in BOOLEAN /\ issue' \in BOOLEAN /\ dismissed' \in BOOLEAN
  BY NeedsType DEF TypeOK, Apply, IssueAfter
<1>5. session' \in [Tasks -> [st : {"closed", "open", "read", "failed", "skipped"},
                              view : Readings]]
  BY <1>1 DEF TypeOK, Apply
<1> QED BY <1>3, <1>4, <1>5

LEMMA GuestsType == Guests \subseteq BOOLEAN
BY DEF Guests

LEMMA InstallType == ASSUME NEW p \in SUBSET Pendings PROVE AfterInstall(p) \subseteq SUBSET Pendings
BY DEF AfterInstall

LEMMA SeenType == ASSUME NEW s \in Servers PROVE Seen(s) \subseteq Readings
<1>1. /\ {s.boot, Unknown} \subseteq 0 .. MaxBoots
      /\ SUBSET s.pending \subseteq SUBSET Pendings
      /\ {s.guests, FALSE} \subseteq BOOLEAN
  BY ServerAssumption DEF Servers, Unknown
<1> QED BY <1>1 DEF Seen, Readings

\* A server that goes down has a boot left: with the types, this is inductive.
BootLeft == server.power # "up" => server.boot < MaxBoots

\* The variables keep their types.
THEOREM Typing == Spec => [](TypeOK /\ BootLeft)
<1> USE TaskAssumption, KindAssumption, ServerAssumption, DelayAssumption
<1> USE DEF Tasks, None, Unknown
<1>1. Init => TypeOK /\ BootLeft
  <2> SUFFICES ASSUME Init PROVE TypeOK /\ BootLeft
    OBVIOUS
  <2> USE DEF Init
  <2>0. PICK p \in SUBSET Pendings, g \in Guests :
          /\ server = [power |-> "up", boot |-> 1, pending |-> p, guests |-> g]
          /\ data \in Seen(server)
    OBVIOUS
  <2>1. server \in Servers
    BY <2>0, GuestsType DEF Servers
  <2>2. data \in Readings
    BY <2>0, <2>1, SeenType
  <2>3. Closed \in [st : {"closed", "open", "read", "failed", "skipped"}, view : Readings]
    BY NoViewType DEF Closed, Session
  <2>4. pc \in [Tasks -> {"new", "idle"}]
    OBVIOUS
  <2>5. kind \in [Ops -> AllKinds]
    OBVIOUS
  <2>6. issue \in BOOLEAN /\ dismissed \in BOOLEAN
    BY NeedsType
  <2>7. BootLeft
    BY <2>0 DEF BootLeft
  <2>8. left \in None .. WatchTimeout /\ baseline \in 0 .. MaxBoots
    OBVIOUS
  <2>9. session \in [Tasks -> [st : {"closed", "open", "read", "failed", "skipped"}, view : Readings]]
    BY <2>3
  <2>10. /\ outcome \in [Ops -> {"none", "refused", "ok", "error"}]
         /\ verdict \in [Ops -> {"none", "success", "failure"}]
         /\ orderedAt \in [Ops -> 0 .. MaxBoots]
    OBVIOUS
  <2> QED BY <2>1, <2>2, <2>4, <2>5, <2>6, <2>7, <2>8, <2>9, <2>10 DEF TypeOK
<1>2. TypeOK /\ BootLeft /\ [Next]_vars => TypeOK'
  <2> SUFFICES ASSUME TypeOK, BootLeft, [Next]_vars PROVE TypeOK'
    OBVIOUS
  <2>1. ASSUME NEW s \in {"closed", "open", "failed", "skipped"}
        PROVE  Session(s) \in [st : {"closed", "open", "read", "failed", "skipped"}, view : Readings]
    BY NoViewType DEF Session
  <2>2. OpenSession \in [st : {"closed", "open", "read", "failed", "skipped"}, view : Readings]
    BY <2>1 DEF OpenSession
  <2> USE DEF TypeOK
  <2>3. ASSUME NEW o \in Ops, Refuse(o) PROVE TypeOK'
    BY <2>3 DEF Refuse, Goto, watch, state
  <2>4. ASSUME NEW o \in Ops, Begin(o) PROVE TypeOK'
    BY <2>4 DEF Begin, Goto, watch, state, history
  <2>5. ASSUME NEW o \in Ops, Upgrade(o) PROVE TypeOK'
    BY <2>5, InstallType DEF Upgrade, Goto, watch, state, history, Servers
  <2>6. ASSUME NEW o \in Ops, RestartServices(o) PROVE TypeOK'
    BY <2>6 DEF RestartServices, Goto, watch, state, history, Servers
  <2>7. ASSUME NEW o \in Ops, SendReboot(o) PROVE TypeOK'
    <3>1. server' \in Servers
      BY <2>7 DEF SendReboot, Servers
    <3>2. pc' \in [Tasks -> {"new", "running", "upgraded", "commanded", "refreshing",
                            "waiting", "checking", "done", "idle"}]
      BY <2>7 DEF SendReboot, Goto
    <3>3. orderedAt' \in [Ops -> 0 .. MaxBoots]
      BY <2>7 DEF SendReboot, Servers
    <3>4. UNCHANGED <<loaded, busy, watch, state, kind, session,
                      outcome, verdict, crossed>>
      BY <2>7 DEF SendReboot
    <3> HIDE DEF None, Tasks
    <3> QED BY <3>1, <3>2, <3>3, <3>4 DEF watch, state
  <2>8. ASSUME NEW o \in Ops, Fail(o) PROVE TypeOK'
    BY <2>8 DEF Fail, Goto, watch, state, Release
  <2>9. ASSUME NEW o \in Ops, FinishWithRefresh(o) PROVE TypeOK'
    BY <2>9, <2>2 DEF FinishWithRefresh, Goto, watch, state, Release
  <2>10. ASSUME NEW o \in Ops, FinishWithWatch(o) PROVE TypeOK'
    <3>1. issue' \in BOOLEAN /\ dismissed' \in BOOLEAN
      BY <2>10 DEF FinishWithWatch
    <3>2. crossed' \in BOOLEAN
      BY <2>10 DEF FinishWithWatch, StartWatch
    <3>3. /\ timer' = RefreshDelay /\ left' = WatchTimeout /\ rebooting' = TRUE
          /\ baseline' = data.boot /\ busy' = FALSE
      BY <2>10 DEF FinishWithWatch, StartWatch, Schedule, Release
    <3>4. pc' \in [Tasks -> {"new", "running", "upgraded", "commanded", "refreshing",
                            "waiting", "checking", "done", "idle"}]
      BY <2>10 DEF FinishWithWatch, StartWatch, Schedule
    <3>5. outcome' \in [Ops -> {"none", "refused", "ok", "error"}]
      BY <2>10 DEF FinishWithWatch
    <3>6. UNCHANGED <<loaded, data, lastOk, kind, session, server, verdict, orderedAt>>
      BY <2>10 DEF FinishWithWatch
    <3>7. data.boot \in 0 .. MaxBoots
      BY DEF Readings
    <3>8. timer' \in {None} \cup Nat /\ left' \in None .. WatchTimeout
      BY <3>3
    <3>9. baseline' \in 0 .. MaxBoots
      BY <3>3, <3>7
    <3>10. rebooting' \in BOOLEAN /\ busy' \in BOOLEAN
      BY <3>3
    <3> HIDE DEF None, Tasks
    <3> QED BY <3>1, <3>2, <3>4, <3>5, <3>6, <3>8, <3>9, <3>10
  <2>11. ASSUME NEW o \in Ops, Fire(o) PROVE TypeOK'
    BY <2>11, <2>2 DEF Fire, Goto, state, history
  <2>12. ASSUME NEW o \in Ops, CheckAgain(o) PROVE TypeOK'
    BY <2>12, ApplyType DEF CheckAgain, Schedule, history
  <2>13. ASSUME NEW o \in Ops, Conclude(o) PROVE TypeOK'
    <3>1. /\ data' \in Readings /\ lastOk' \in BOOLEAN /\ issue' \in BOOLEAN
          /\ dismissed' \in BOOLEAN
          /\ session' \in [Tasks -> [st : {"closed", "open", "read", "failed", "skipped"},
                                     view : Readings]]
      BY <2>13, ApplyType DEF Conclude
    <3>2. verdict' \in [Ops -> {"none", "success", "failure"}]
      BY <2>13 DEF Conclude, Report
    <3>3. rebooting' = FALSE /\ left' = None
      BY <2>13 DEF Conclude
    <3>4. pc' \in [Tasks -> {"new", "running", "upgraded", "commanded", "refreshing",
                            "waiting", "checking", "done", "idle"}]
      BY <2>13 DEF Conclude, Goto
    <3>5. UNCHANGED <<loaded, busy, timer, baseline, kind, server, outcome, orderedAt, crossed>>
      BY <2>13 DEF Conclude
    <3>6. left' \in None .. WatchTimeout
      BY <3>3
    <3>7. rebooting' \in BOOLEAN
      BY <3>3
    <3> HIDE DEF None, Tasks
    <3> QED BY <3>1, <3>2, <3>4, <3>5, <3>6, <3>7
  <2>14. ASSUME NEW t \in Tasks, ReadServer(t) PROVE TypeOK'
    BY <2>14, SeenType DEF ReadServer, watch, state, history
  <2>15. ASSUME NEW t \in Tasks, FailToRead(t) PROVE TypeOK'
    BY <2>15, <2>1 DEF FailToRead, watch, state, history
  <2>16. ASSUME NEW t \in Tasks, EndRefresh(t) PROVE TypeOK'
    BY <2>16, ApplyType DEF EndRefresh, Goto, watch, history
  <2>17. CASE StartPoll
    BY <2>17, <2>2 DEF StartPoll, Goto, watch, state, history
  <2>18. CASE Unload
    <3>1. PICK cancelled \in {{}, {Poll}} :
            /\ pc' = [t \in Tasks |->
                       IF t \in cancelled THEN "idle"
                       ELSE IF pc[t] = "waiting" THEN "done" ELSE pc[t]]
            /\ session' = [t \in Tasks |-> IF t \in cancelled THEN Closed ELSE session[t]]
      BY <2>18 DEF Unload
    <3>2. Closed \in [st : {"closed", "open", "read", "failed", "skipped"}, view : Readings]
      BY <2>1 DEF Closed
    <3>3. session' \in [Tasks -> [st : {"closed", "open", "read", "failed", "skipped"},
                                 view : Readings]]
      BY <3>1, <3>2
    <3>4. pc' \in [Tasks -> {"new", "running", "upgraded", "commanded", "refreshing",
                            "waiting", "checking", "done", "idle"}]
      BY <3>1
    <3> QED BY <2>18, <3>3, <3>4 DEF Unload, history
  <2>19. CASE Tick
    BY <2>19 DEF Tick, Count, state, history
  <2>20. CASE StopServer
    BY <2>20 DEF StopServer, Servers, watch, state, history
  <2>21. CASE GoDown
    BY <2>21, <2>1 DEF GoDown, Servers, watch, state, history
  <2>22. CASE BootServer
    <3>1. PICK p \in SUBSET Pendings, g \in Guests :
            server' = [power |-> "up", boot |-> server.boot + 1, pending |-> p, guests |-> g]
      BY <2>22 DEF BootServer
    <3>2. server.boot + 1 \in 1 .. MaxBoots
      BY <2>22 DEF BootServer, BootLeft, Servers
    <3>3. server' \in Servers
      BY <3>1, <3>2, GuestsType DEF Servers
    <3> QED BY <2>22, <3>3 DEF BootServer, watch, state, history
  <2>23. CASE ServerChanges
    <3>1. PICK p \in AfterInstall(server.pending), g \in Guests :
            server' = [server EXCEPT !.pending = p, !.guests = g]
      BY <2>23 DEF ServerChanges
    <3>2. p \in SUBSET Pendings /\ g \in BOOLEAN
      BY GuestsType, InstallType DEF Servers
    <3>3. server' \in Servers
      BY <3>1, <3>2 DEF Servers
    <3> QED BY <2>23, <3>3 DEF ServerChanges, watch, state, history
  <2>24. CASE UNCHANGED vars
    BY <2>24 DEF vars, watch, state, history
  <2> QED
    BY <2>3, <2>4, <2>5, <2>6, <2>7, <2>8, <2>9, <2>10, <2>11, <2>12, <2>13, <2>14,
       <2>15, <2>16, <2>17, <2>18, <2>19, <2>20, <2>21, <2>22, <2>23, <2>24
    DEF Next, Operation, Work, Read, Check, Environment
<1>3. TypeOK /\ BootLeft /\ [Next]_vars => BootLeft'
  <2> SUFFICES ASSUME TypeOK, BootLeft, [Next]_vars PROVE BootLeft'
    OBVIOUS
  <2>1. ASSUME server' = server PROVE BootLeft'
    BY <2>1 DEF BootLeft
  <2>2. ASSUME NEW o \in Ops, Operation(o) PROVE BootLeft'
    BY <2>2, <2>1, InstallType DEF TypeOK, Operation, Refuse, Begin, Work, Upgrade, RestartServices, SendReboot,
       Fail, FinishWithRefresh, FinishWithWatch, Fire, Check, CheckAgain, Conclude,
       BootLeft, Servers
  <2>3. CASE Environment
    <3> USE DEF BootLeft, TypeOK, Servers
    <3>1. CASE StopServer
      BY <3>1 DEF StopServer
    <3>2. CASE GoDown
      BY <3>2 DEF GoDown
    <3>3. CASE BootServer
      <4>1. server'.power = "up"
        BY <3>3 DEF BootServer
      <4> QED BY <4>1
    <3>4. CASE ServerChanges
      <4>1. server'.power = "up"
        BY <3>4 DEF ServerChanges
      <4> QED BY <4>1
    <3> QED BY <2>3, <3>1, <3>2, <3>3, <3>4 DEF Environment
  <2>4. ASSUME NEW t \in Tasks, Read(t) \/ EndRefresh(t) PROVE BootLeft'
    BY <2>4, <2>1 DEF Read, ReadServer, FailToRead, EndRefresh
  <2>5. CASE StartPoll \/ Unload \/ Tick \/ UNCHANGED vars
    BY <2>5, <2>1 DEF StartPoll, Unload, Tick, vars
  <2> QED BY <2>2, <2>3, <2>4, <2>5 DEF Next
<1> QED BY <1>1, <1>2, <1>3, PTL DEF Spec

(***************************************************************************)
(* The gate.                                                               *)
(***************************************************************************)

\* A step that moves no operation in or out leaves the gate as it is.
LEMMA GateUntouched ==
    ASSUME GateExclusive, UNCHANGED busy,
           \A o \in Ops : pc'[o] \in Working <=> pc[o] \in Working
    PROVE  GateExclusive'
<1>1. Holders' = Holders
  BY DEF Holders
<1> QED BY <1>1 DEF GateExclusive

\* The step with which the operation inside leaves opens the gate.
LEMMA GateLeft ==
    ASSUME GateExclusive, NEW o \in Ops, o \in Holders, Release, pc'[o] \notin Working,
           \A p \in Ops \ {o} : pc'[p] \in Working <=> pc[p] \in Working
    PROVE  GateExclusive'
<1>1. Holders' = {}
  BY DEF Holders, GateExclusive
<1> QED BY <1>1 DEF GateExclusive, Release

\* Two moves of a task that are all the moves a step makes.
LEMMA GotoMoves ==
    ASSUME TypeOK, NEW t \in Tasks, NEW l, Goto(t, l)
    PROVE  pc'[t] = l /\ \A p \in Tasks \ {t} : pc'[p] = pc[p]
BY DEF TypeOK, Goto

LEMMA ScheduleMoves ==
    ASSUME TypeOK, NEW o \in Ops, NEW d, Schedule(o, d)
    PROVE  /\ timer' = d
           /\ pc'[o] = "waiting"
           /\ \A p \in Ops \ {o} : pc'[p] = IF pc[p] = "waiting" THEN "done" ELSE pc[p]
BY DEF TypeOK, Schedule, Tasks

LEMMA UnloadMoves ==
    ASSUME TypeOK, Unload
    PROVE  \A p \in Ops : pc'[p] = IF pc[p] = "waiting" THEN "done" ELSE pc[p]
BY TaskAssumption DEF TypeOK, Unload, Tasks

\* The busy flag is up exactly while one operation is inside, and there is one
\* inside at most (_async_busy).
THEOREM GateHolds == Spec => []GateExclusive
<1> USE DEF Tasks
<1>1. Init => GateExclusive
  BY TaskAssumption DEF Init, GateExclusive, Holders, Working
<1>2. TypeOK /\ GateExclusive /\ [Next]_vars => GateExclusive'
  <2> SUFFICES ASSUME TypeOK, GateExclusive, [Next]_vars PROVE GateExclusive'
    OBVIOUS
  <2>1. ASSUME NEW o \in Ops, Refuse(o) PROVE GateExclusive'
    BY <2>1, GotoMoves, GateUntouched DEF Refuse, Working
  <2>2. ASSUME NEW o \in Ops, Begin(o) PROVE GateExclusive'
    <3>1. Holders = {} /\ busy'
      BY <2>2 DEF Begin, GateFree, GateExclusive
    <3>2. Holders' = {o}
      BY <2>2, <3>1, GotoMoves DEF Begin, Holders, Working
    <3> QED BY <3>1, <3>2 DEF GateExclusive
  <2>3. ASSUME NEW o \in Ops, Upgrade(o) PROVE GateExclusive'
    BY <2>3, GotoMoves, GateUntouched DEF Upgrade, Working
  <2>4. ASSUME NEW o \in Ops, RestartServices(o) PROVE GateExclusive'
    BY <2>4, GotoMoves, GateUntouched DEF RestartServices, Working
  <2>5. ASSUME NEW o \in Ops, SendReboot(o) PROVE GateExclusive'
    BY <2>5, GotoMoves, GateUntouched DEF SendReboot, Working
  <2>6. ASSUME NEW o \in Ops, Fail(o) PROVE GateExclusive'
    <3>1. o \in Holders
      BY <2>6 DEF Fail, Holders, Working
    <3> QED BY <2>6, <3>1, GotoMoves, GateLeft DEF Fail, Working
  <2>7. ASSUME NEW o \in Ops, FinishWithRefresh(o) PROVE GateExclusive'
    <3>1. o \in Holders
      BY <2>7 DEF FinishWithRefresh, Holders, Working
    <3> QED BY <2>7, <3>1, GotoMoves, GateLeft DEF FinishWithRefresh, Working
  <2>8. ASSUME NEW o \in Ops, FinishWithWatch(o) PROVE GateExclusive'
    <3>1. o \in Holders
      BY <2>8 DEF FinishWithWatch, Holders, Working
    <3>2. Release /\ Schedule(o, RefreshDelay)
      BY <2>8 DEF FinishWithWatch, StartWatch
    <3> QED BY <3>1, <3>2, ScheduleMoves, GateLeft DEF Working
  <2>9. ASSUME NEW o \in Ops, Fire(o) PROVE GateExclusive'
    BY <2>9, GotoMoves, GateUntouched DEF Fire, Working
  <2>10. ASSUME NEW o \in Ops, CheckAgain(o) PROVE GateExclusive'
    <3>1. UNCHANGED busy /\ pc[o] = "checking" /\ Schedule(o, RetryInterval)
      BY <2>10 DEF CheckAgain
    <3> QED BY <3>1, ScheduleMoves, GateUntouched DEF Working
  <2>11. ASSUME NEW o \in Ops, Conclude(o) PROVE GateExclusive'
    <3>1. UNCHANGED busy /\ pc[o] = "checking" /\ Goto(o, "done")
      BY <2>11 DEF Conclude
    <3> QED BY <3>1, GotoMoves, GateUntouched DEF Working
  <2>12. ASSUME NEW t \in Tasks, EndRefresh(t) PROVE GateExclusive'
    <3>1. UNCHANGED busy /\ pc[t] = "refreshing" /\ Goto(t, IF t = Poll THEN "idle" ELSE "done")
      BY <2>12 DEF EndRefresh
    <3> QED BY <3>1, GotoMoves, GateUntouched, TaskAssumption DEF Working
  <2>13. CASE StartPoll
    BY <2>13, GotoMoves, GateUntouched, TaskAssumption DEF StartPoll, Working
  <2>14. CASE Unload
    BY <2>14, UnloadMoves, GateUntouched DEF Unload, Working
  <2>15. ASSUME UNCHANGED <<busy, pc>> PROVE GateExclusive'
    BY <2>15, GateUntouched
  <2>16. ASSUME NEW t \in Tasks, Read(t) PROVE GateExclusive'
    BY <2>15, <2>16 DEF Read, ReadServer, FailToRead
  <2>17. CASE Tick \/ Environment \/ UNCHANGED vars
    BY <2>15, <2>17 DEF Tick, Environment, StopServer, GoDown, BootServer, ServerChanges, vars
  <2> QED
    BY <2>1, <2>2, <2>3, <2>4, <2>5, <2>6, <2>7, <2>8, <2>9, <2>10, <2>11, <2>12,
       <2>13, <2>14, <2>16, <2>17
    DEF Next, Operation, Work, Check
<1> QED BY <1>1, <1>2, Typing, PTL DEF Spec

(***************************************************************************)
(* The gate implements its abstract specification.                         *)
(***************************************************************************)

\* Operations take turns: with the status TakesTurns gives every operation,
\* the coordinator does what OperationGate allows (its safety part).
THEOREM GateImplemented == Spec => Gate!Spec
<1> USE DEF Tasks
<1> DEFINE st(o) == IF pc[o] = "new" THEN "idle"
                    ELSE IF pc[o] \in Working THEN "working" ELSE "over"
           status == [o \in Ops |-> st(o)]
<1>1. Init => Gate!Init
  BY TaskAssumption DEF Init, Gate!Init
<1>2. TypeOK /\ GateExclusive /\ [Next]_vars => [Gate!Next]_status
  <2> SUFFICES ASSUME TypeOK, GateExclusive, [Next]_vars PROVE [Gate!Next]_status
    OBVIOUS
  <2> HIDE DEF status
  <2>1. ASSUME \A p \in Ops : st(p)' = st(p) PROVE UNCHANGED status
    BY <2>1 DEF status
  <2>2. ASSUME NEW o \in Ops, NEW s, s = st(o)', \A p \in Ops \ {o} : st(p)' = st(p)
        PROVE  status' = [status EXCEPT ![o] = s]
    BY <2>2 DEF status
  <2>3. ASSUME NEW o \in Ops, Refuse(o) PROVE Gate!Refuse(o)
    <3>1. pc[o] = "new" /\ pc'[o] = "done" /\ \A p \in Ops \ {o} : pc'[p] = pc[p]
      BY <2>3, GotoMoves DEF Refuse
    <3>2. st(o) = "idle" /\ st(o)' = "over" /\ \A p \in Ops \ {o} : st(p)' = st(p)
      BY <3>1 DEF Working
    <3>3. status' = [status EXCEPT ![o] = "over"]
      BY <3>2, <2>2
    <3> QED BY <3>2, <3>3 DEF Gate!Refuse, status
  <2>4. ASSUME NEW o \in Ops, Begin(o) PROVE Gate!Start(o)
    <3>1. pc[o] = "new" /\ pc'[o] = "running" /\ \A p \in Ops \ {o} : pc'[p] = pc[p]
      BY <2>4, GotoMoves DEF Begin
    <3>2. st(o) = "idle" /\ st(o)' = "working" /\ \A p \in Ops \ {o} : st(p)' = st(p)
      BY <3>1 DEF Working
    <3>3. \A p \in Ops : st(p) # "working"
      BY <2>4 DEF Begin, GateFree, GateExclusive, Holders
    <3>4. status' = [status EXCEPT ![o] = "working"]
      BY <3>2, <2>2
    <3> QED BY <3>2, <3>3, <3>4 DEF Gate!Start, status
  <2>5. ASSUME NEW o \in Ops, Fail(o) \/ FinishWithRefresh(o) \/ FinishWithWatch(o)
        PROVE  Gate!End(o)
    <3>1. /\ pc[o] \in Working /\ pc'[o] \in {"done", "refreshing", "waiting"}
          /\ \A p \in Ops \ {o} :
                pc'[p] = pc[p] \/ (pc[p] = "waiting" /\ pc'[p] = "done")
      BY <2>5, GotoMoves, ScheduleMoves
      DEF Fail, FinishWithRefresh, FinishWithWatch, StartWatch, Working
    <3>2. st(o) = "working" /\ st(o)' = "over" /\ \A p \in Ops \ {o} : st(p)' = st(p)
      BY <3>1 DEF Working
    <3>3. status' = [status EXCEPT ![o] = "over"]
      BY <3>2, <2>2
    <3> QED BY <3>2, <3>3 DEF Gate!End, status
  <2>6. ASSUME NEW o \in Ops, Upgrade(o) \/ RestartServices(o) \/ SendReboot(o)
                               \/ Fire(o) \/ CheckAgain(o) \/ Conclude(o)
        PROVE  UNCHANGED status
    <3>1. \A p \in Ops : \/ pc'[p] = pc[p]
                         \/ pc[p] \in Working /\ pc'[p] \in Working
                         \/ /\ pc[p] \in {"waiting", "checking"}
                            /\ pc'[p] \in {"waiting", "checking", "done"}
      BY <2>6, GotoMoves, ScheduleMoves
      DEF Upgrade, RestartServices, SendReboot, Fire, CheckAgain, Conclude, Working
    <3> QED BY <3>1, <2>1 DEF Working
  <2>7. ASSUME NEW t \in Tasks, EndRefresh(t) PROVE UNCHANGED status
    <3>1. \A p \in Ops : pc'[p] = pc[p] \/ (pc[p] = "refreshing" /\ pc'[p] = "done")
      BY <2>7, GotoMoves, TaskAssumption DEF EndRefresh
    <3> QED BY <3>1, <2>1 DEF Working
  <2>8. CASE StartPoll \/ Unload
    <3>1. \A p \in Ops : pc'[p] = pc[p] \/ (pc[p] = "waiting" /\ pc'[p] = "done")
      BY <2>8, GotoMoves, UnloadMoves, TaskAssumption DEF StartPoll
    <3>2. UNCHANGED status
      BY <3>1, <2>1 DEF Working
    <3> QED BY <3>2
  <2>9. ASSUME NEW t \in Tasks, Read(t) PROVE UNCHANGED status
    BY <2>9, <2>1 DEF Read, ReadServer, FailToRead
  <2>10. CASE Tick \/ Environment \/ UNCHANGED vars
    <3>1. UNCHANGED pc
      BY <2>10 DEF Tick, Environment, StopServer, GoDown, BootServer, ServerChanges, vars
    <3>2. UNCHANGED status
      BY <3>1, <2>1
    <3> QED BY <3>2
  <2> QED
    BY <2>3, <2>4, <2>5, <2>6, <2>7, <2>8, <2>9, <2>10
    DEF Next, Operation, Work, Check, Gate!Next
<1> QED BY <1>1, <1>2, Typing, GateHolds, PTL DEF Spec, Gate!Spec

(***************************************************************************)
(* The reboot watch.                                                       *)
(***************************************************************************)

\* Unless a reboot was ordered during a check, a check that runs was started
\* no earlier than RefreshDelay after the order, and so will be the pending one.
Timely ==
    ~crossed =>
        /\ \A o \in Checking : left \in 0 .. (WatchTimeout - RefreshDelay)
        /\ \A o \in Waiting : left = 0 \/ (left > 0 /\ left - timer <= WatchTimeout - RefreshDelay)

WatchInv == OneTimer /\ WatchKept /\ NoStrayCheck /\ Timely

Watching == {"waiting", "checking"}

\* A step that neither moves a task of the watch nor touches the timer.
LEMMA WatchUntouched ==
    ASSUME WatchInv, UNCHANGED <<loaded, rebooting, timer, left, crossed>>,
           \A o \in Ops : pc[o] \in Watching \/ pc'[o] \in Watching => pc'[o] = pc[o]
    PROVE  WatchInv'
<1>1. Waiting' = Waiting /\ Checking' = Checking
  BY DEF Waiting, Checking, Watching
<1> QED BY <1>1 DEF WatchInv, OneTimer, WatchKept, NoStrayCheck, Timely

\* The watch's own invariant is inductive.
THEOREM WatchHolds == Spec => []WatchInv
<1> USE DelayAssumption DEF Tasks, None
<1>1. Init => WatchInv
  <2> SUFFICES ASSUME Init PROVE WatchInv
    OBVIOUS
  <2>1. Waiting = {} /\ Checking = {}
    BY TaskAssumption DEF Init, Waiting, Checking
  <2> QED BY <2>1 DEF Init, WatchInv, OneTimer, WatchKept, NoStrayCheck, Timely
<1>2. TypeOK /\ WatchInv /\ [Next]_vars => WatchInv'
  <2> SUFFICES ASSUME TypeOK, WatchInv, [Next]_vars PROVE WatchInv'
    OBVIOUS
  <2>0. left \in None .. WatchTimeout /\ timer \in {None} \cup Nat
    BY DEF TypeOK
  <2>1. ASSUME NEW o \in Ops, Refuse(o) \/ Begin(o) \/ Upgrade(o) \/ RestartServices(o)
                               \/ SendReboot(o) \/ Fail(o) \/ FinishWithRefresh(o)
        PROVE  WatchInv'
    <3>1. /\ pc[o] \in {"new"} \cup Working
          /\ pc'[o] \in {"done", "refreshing"} \cup Working
          /\ \A p \in Ops \ {o} : pc'[p] = pc[p]
      BY <2>1, GotoMoves
      DEF Refuse, Begin, Upgrade, RestartServices, SendReboot, Fail, FinishWithRefresh, Working
    <3>2. UNCHANGED <<loaded, rebooting, timer, left, crossed>>
      BY <2>1
      DEF Refuse, Begin, Upgrade, RestartServices, SendReboot, Fail, FinishWithRefresh,
          watch, history
    <3> QED BY <3>1, <3>2, WatchUntouched DEF Watching, Working
  <2>2. ASSUME NEW o \in Ops, FinishWithWatch(o) PROVE WatchInv'
    <3>1. /\ timer' = RefreshDelay /\ left' = WatchTimeout /\ rebooting' = TRUE
          /\ crossed' = (crossed \/ Checking # {}) /\ pc'[o] = "waiting"
          /\ \A p \in Ops \ {o} : pc'[p] = IF pc[p] = "waiting" THEN "done" ELSE pc[p]
      BY <2>2, ScheduleMoves DEF FinishWithWatch, StartWatch
    <3>2. Waiting' = {o} /\ Checking' \subseteq Checking
      BY <3>1 DEF Waiting, Checking
    <3>3. OneTimer' /\ WatchKept'
      BY <3>1, <3>2 DEF OneTimer, WatchKept
    <3>4. ~crossed' => Checking' = {}
      BY <3>1, <3>2
    <3>5. NoStrayCheck'
      BY <3>1, <3>2, <3>4 DEF NoStrayCheck
    <3>6. left' > 0 /\ left' - timer' <= WatchTimeout - RefreshDelay
      BY <3>1
    <3>7. Timely'
      BY <3>2, <3>4, <3>6 DEF Timely
    <3> QED BY <3>3, <3>5, <3>7 DEF WatchInv
  <2>3. ASSUME NEW o \in Ops, Fire(o) PROVE WatchInv'
    <3>1. /\ pc[o] = "waiting" /\ timer = 0 /\ timer' = None /\ pc'[o] = "checking"
          /\ \A p \in Ops \ {o} : pc'[p] = pc[p]
          /\ UNCHANGED <<loaded, rebooting, left, crossed>>
      BY <2>3, GotoMoves DEF Fire, history
    <3>2. o \in Waiting /\ Waiting = {o}
      BY <3>1 DEF Waiting, WatchInv, OneTimer
    <3>3. Waiting' = {} /\ Checking' = Checking \cup {o}
      BY <3>1, <3>2 DEF Waiting, Checking
    <3>4. OneTimer' /\ WatchKept'
      BY <3>1, <3>3 DEF OneTimer, WatchKept
    <3>5. NoStrayCheck'
      BY <3>1, <3>2, <3>3 DEF WatchInv, NoStrayCheck
    <3>6. Timely'
      BY <2>0, <3>1, <3>2, <3>3 DEF WatchInv, Timely
    <3> QED BY <3>4, <3>5, <3>6 DEF WatchInv
  <2>4. ASSUME NEW o \in Ops, CheckAgain(o) PROVE WatchInv'
    <3>1. /\ pc[o] = "checking" /\ left > 0 /\ timer' = RetryInterval /\ pc'[o] = "waiting"
          /\ \A p \in Ops \ {o} : pc'[p] = IF pc[p] = "waiting" THEN "done" ELSE pc[p]
          /\ UNCHANGED <<loaded, rebooting, left, crossed>>
      BY <2>4, ScheduleMoves DEF CheckAgain, BeforeDeadline, history
    <3>2. o \in Checking
      BY <3>1 DEF Checking
    <3>3. Waiting' = {o} /\ Checking' = Checking \ {o}
      BY <3>1 DEF Waiting, Checking
    <3>4. OneTimer' /\ WatchKept'
      BY <3>1, <3>3 DEF OneTimer, WatchKept
    <3>5. NoStrayCheck'
      BY <3>1, <3>2, <3>3 DEF WatchInv, NoStrayCheck
    <3>6. Timely'
      BY <2>0, <3>1, <3>2, <3>3 DEF WatchInv, Timely
    <3> QED BY <3>4, <3>5, <3>6 DEF WatchInv
  <2>5. ASSUME NEW o \in Ops, Conclude(o) PROVE WatchInv'
    <3>1. /\ pc[o] = "checking" /\ rebooting' = FALSE /\ pc'[o] = "done"
          /\ \A p \in Ops \ {o} : pc'[p] = pc[p]
          /\ UNCHANGED <<loaded, timer, crossed>>
      BY <2>5, GotoMoves DEF Conclude
    <3>2. o \in Checking /\ Waiting' = Waiting /\ Checking' = Checking \ {o}
      BY <3>1 DEF Waiting, Checking
    <3>3. OneTimer' /\ WatchKept'
      BY <3>1, <3>2 DEF WatchInv, OneTimer, WatchKept
    <3>4. ~crossed' => Waiting' = {} /\ Checking' = {}
      BY <3>1, <3>2 DEF WatchInv, NoStrayCheck, Waiting, Checking
    <3> QED BY <3>3, <3>4 DEF WatchInv, NoStrayCheck, Timely
  <2>6. ASSUME NEW t \in Tasks, EndRefresh(t) PROVE WatchInv'
    <3>1. /\ \A p \in Ops : pc'[p] = pc[p] \/ (pc[p] = "refreshing" /\ pc'[p] = "done")
          /\ UNCHANGED <<loaded, rebooting, timer, left, crossed>>
      BY <2>6, GotoMoves, TaskAssumption DEF EndRefresh, watch, history
    <3> QED BY <3>1, WatchUntouched DEF Watching
  <2>7. CASE StartPoll
    <3>1. /\ \A p \in Ops : pc'[p] = pc[p]
          /\ UNCHANGED <<loaded, rebooting, timer, left, crossed>>
      BY <2>7, GotoMoves, TaskAssumption DEF StartPoll, watch, history
    <3> QED BY <3>1, WatchUntouched
  <2>8. CASE Unload
    <3>1. /\ \A p \in Ops : pc'[p] = IF pc[p] = "waiting" THEN "done" ELSE pc[p]
          /\ loaded' = FALSE /\ timer' = None
          /\ UNCHANGED <<rebooting, left, crossed>>
      BY <2>8, UnloadMoves DEF Unload, history
    <3>2. Waiting' = {} /\ Checking' = Checking
      BY <3>1 DEF Waiting, Checking
    <3> QED BY <3>1, <3>2 DEF WatchInv, OneTimer, WatchKept, NoStrayCheck, Timely
  <2>9. CASE Tick
    <3>1. /\ UNCHANGED <<loaded, rebooting, crossed, pc>>
          /\ timer # 0 /\ timer' = Count(timer) /\ left' = Count(left)
      BY <2>9 DEF Tick, history
    <3>2. Waiting' = Waiting /\ Checking' = Checking
      BY <3>1 DEF Waiting, Checking
    <3>3. OneTimer' /\ WatchKept' /\ NoStrayCheck'
      BY <2>0, <3>1, <3>2 DEF WatchInv, OneTimer, WatchKept, NoStrayCheck, Count
    <3>4. Timely'
      BY <2>0, <3>1, <3>2 DEF WatchInv, OneTimer, Timely, Count
    <3> QED BY <3>3, <3>4 DEF WatchInv
  <2>10. ASSUME NEW t \in Tasks, Read(t) PROVE WatchInv'
    <3>1. UNCHANGED <<loaded, rebooting, timer, left, crossed, pc>>
      BY <2>10 DEF Read, ReadServer, FailToRead, watch, history
    <3> QED BY <3>1, WatchUntouched
  <2>11. CASE Environment \/ UNCHANGED vars
    <3>1. UNCHANGED <<loaded, rebooting, timer, left, crossed, pc>>
      BY <2>11 DEF Environment, StopServer, GoDown, BootServer, ServerChanges, watch, history, vars
    <3> QED BY <3>1, WatchUntouched
  <2> QED
    BY <2>1, <2>2, <2>3, <2>4, <2>5, <2>6, <2>7, <2>8, <2>9, <2>10, <2>11
    DEF Next, Operation, Work, Check
<1> QED BY <1>1, <1>2, Typing, PTL DEF Spec

\* A server shown as rebooting has a check ahead or under way while the entry
\* is loaded, whatever else happens (_async_check_reboot).
THEOREM WatchIsKept == Spec => []WatchKept
BY WatchHolds, PTL DEF WatchInv

\* The pending check is the one that _async_cancel_delayed_refresh cancels.
THEOREM TimerIsOwned == Spec => []OneTimer
BY WatchHolds, PTL DEF WatchInv

\* Without a reboot ordered during a check, one watch runs at a time and
\* leaves nothing behind.
THEOREM NoCheckStrays == Spec => []NoStrayCheck
BY WatchHolds, PTL DEF WatchInv

\* Without a reboot ordered during a check, no success is reported before
\* REBOOT_REFRESH_DELAY and no failure before REBOOT_WATCH_TIMEOUT.
THEOREM VerdictsAreTimely == Spec => VerdictTimely
<1> DEFINE Step == \A o \in Ops :
             ~crossed =>
               /\ Reported(o, "success") => left <= WatchTimeout - RefreshDelay
               /\ Reported(o, "failure") => left = 0
<1>1. TypeOK /\ WatchInv /\ [Next]_vars => [Step]_vars
  <2> SUFFICES ASSUME TypeOK, WatchInv, Next, NEW o \in Ops, ~crossed,
                      verdict[o] = "none", verdict'[o] \in {"success", "failure"}
               PROVE  /\ left <= WatchTimeout - RefreshDelay
                      /\ verdict'[o] = "failure" => left = 0
    BY DEF Reported
  <2>1. Conclude(o)
    <3>1. ASSUME UNCHANGED verdict PROVE FALSE
      BY <3>1
    <3>2. ASSUME NEW p \in Ops, Conclude(p) PROVE p = o
      BY <3>2 DEF Conclude, TypeOK
    <3> QED BY <3>1, <3>2
      DEF Next, Operation, Work, Check, Read, Environment, Refuse, Begin, Upgrade,
          RestartServices, SendReboot, Fail, FinishWithRefresh, FinishWithWatch, Fire,
          CheckAgain, EndRefresh, StartPoll, Unload, Tick, ReadServer, FailToRead,
          StopServer, GoDown, BootServer, ServerChanges, history
  <2>2. o \in Checking
    BY <2>1 DEF Conclude, Checking
  <2>3. left \in 0 .. (WatchTimeout - RefreshDelay)
    BY <2>2 DEF WatchInv, Timely
  <2>4. verdict'[o] = "failure" => RebootProblem(lastOk', data')
    BY <2>1 DEF Conclude, Report, TypeOK
  <2>5. verdict'[o] = "failure" => ~(left > 0)
    BY <2>1, <2>4 DEF Conclude, BeforeDeadline
  <2> QED BY <2>3, <2>5, DelayAssumption
<1> QED BY <1>1, Typing, WatchHolds, PTL DEF Spec, VerdictTimely
=============================================================================
