---------------------------- MODULE RebootProofs ----------------------------
(***************************************************************************)
(* Theorems about what a reboot is answered with, and what is left in the  *)
(* issue registry (ServerCoordinator), for every number of operations,     *)
(* every choice of delays, and servers with guests or without.             *)
(***************************************************************************)
EXTENDS ServerCoordinatorProofs

(***************************************************************************)
(* The boot-time test.  What was read cannot be newer than the server.     *)
(***************************************************************************)
BootsKnown ==
    /\ data.boot <= server.boot
    /\ \A t \in Tasks : session[t].view.boot <= server.boot

LEMMA SeenKnown == ASSUME NEW s \in Servers, NEW r \in Seen(s) PROVE r.boot <= s.boot
BY ServerAssumption DEF Servers, Seen, Unknown

LEMMA SessionKnown ==
    ASSUME NEW s \in Servers, NEW st
    PROVE  Session(st).view.boot <= s.boot
BY ServerAssumption DEF Session, NoView, Unknown, Servers

LEMMA BootsInitially == Init => BootsKnown
<1> SUFFICES ASSUME Init PROVE BootsKnown
  OBVIOUS
<1>1. PICK p \in SUBSET Pendings, g \in Guests :
        /\ server = [power |-> "up", boot |-> 1, pending |-> p, guests |-> g]
        /\ data \in Seen(server)
  BY DEF Init
<1>2. server \in Servers
  BY <1>1, GuestsType, ServerAssumption DEF Servers
<1>3. data.boot <= server.boot
  BY <1>1, <1>2, SeenKnown
<1>4. \A t \in Tasks : session[t] = Closed
  BY DEF Init
<1> QED BY <1>2, <1>3, <1>4, SessionKnown DEF BootsKnown, Closed

\* What the end of a refresh leaves is as old as what it read.
LEMMA ApplyKnown ==
    ASSUME TypeOK, BootsKnown, NEW t \in Tasks, Apply(t), UNCHANGED server
    PROVE  BootsKnown'
<1>1. data' \in {data, session[t].view}
  BY DEF Apply
<1>2. data'.boot <= server'.boot
  BY <1>1 DEF BootsKnown
<1>3. session' = [session EXCEPT ![t] = Closed]
  BY DEF Apply
<1>4. Closed.view.boot <= server.boot
  BY SessionKnown DEF TypeOK, Closed
<1> QED BY <1>2, <1>3, <1>4 DEF BootsKnown, TypeOK

LEMMA BootsStep == TypeOK /\ BootsKnown /\ [Next]_vars => BootsKnown'
<1> SUFFICES ASSUME TypeOK, BootsKnown, [Next]_vars PROVE BootsKnown'
  OBVIOUS
<1>0. server \in Servers /\ \A st : Session(st).view.boot <= server.boot
  BY SessionKnown DEF TypeOK
<1>a. OpenSession.view.boot <= server.boot
  BY <1>0 DEF OpenSession
<1>1. ASSUME NEW o \in Ops, Refuse(o) \/ Begin(o) PROVE BootsKnown'
  BY <1>1 DEF Refuse, Begin, state, BootsKnown
<1>2. ASSUME NEW o \in Ops, Upgrade(o) \/ RestartServices(o) \/ SendReboot(o) PROVE BootsKnown'
  <2>1. server'.boot = server.boot
    BY <1>2, <1>0 DEF Upgrade, RestartServices, SendReboot, Servers
  <2> QED BY <1>2, <2>1 DEF Upgrade, RestartServices, SendReboot, state, BootsKnown
<1>3. ASSUME NEW o \in Ops, Fail(o) \/ FinishWithWatch(o) PROVE BootsKnown'
  BY <1>3 DEF Fail, FinishWithWatch, state, BootsKnown
<1>4. ASSUME NEW o \in Ops, FinishWithRefresh(o) \/ Fire(o) PROVE BootsKnown'
  <2>1. /\ session' = [session EXCEPT ![o] = OpenSession]
        /\ UNCHANGED <<data, server>>
    BY <1>4 DEF FinishWithRefresh, Fire, state
  <2> QED BY <2>1, <1>a DEF BootsKnown, TypeOK
<1>5. ASSUME NEW o \in Ops, CheckAgain(o) \/ Conclude(o) PROVE BootsKnown'
  BY <1>5, ApplyKnown DEF CheckAgain, Conclude, Tasks
<1>6. ASSUME NEW t \in Tasks, ReadServer(t) PROVE BootsKnown'
  <2>1. PICK view \in Seen(server) : session' = [session EXCEPT ![t] = [st |-> "read", view |-> view]]
    BY <1>6 DEF ReadServer
  <2>2. view.boot <= server.boot
    BY <1>0, SeenKnown
  <2> QED BY <1>6, <2>1, <2>2 DEF ReadServer, state, BootsKnown, TypeOK
<1>7. ASSUME NEW t \in Tasks, FailToRead(t) PROVE BootsKnown'
  BY <1>7, <1>0 DEF FailToRead, state, BootsKnown, TypeOK
<1>8. ASSUME NEW t \in Tasks, EndRefresh(t) PROVE BootsKnown'
  BY <1>8, ApplyKnown DEF EndRefresh
<1>9. CASE StartPoll
  BY <1>9, <1>a DEF StartPoll, state, BootsKnown, TypeOK
<1>10. CASE Unload
  BY <1>10, <1>0 DEF Unload, BootsKnown, Closed
<1>11. CASE Tick
  BY <1>11 DEF Tick, state, BootsKnown
<1>12. CASE Environment
  <2>0. server.boot \in Nat
    BY <1>0 DEF Servers
  <2>a. ASSUME StopServer \/ GoDown PROVE server'.boot = server.boot
    BY <2>a, <1>0 DEF StopServer, GoDown, Servers
  <2>b. ASSUME BootServer PROVE server'.boot = server.boot + 1
    BY <2>b DEF BootServer
  <2>c. ASSUME ServerChanges PROVE server'.boot = server.boot
    BY <2>c, <1>0 DEF ServerChanges, Servers
  <2>1. server'.boot \in {server.boot, server.boot + 1}
    BY <1>12, <2>a, <2>b, <2>c DEF Environment
  <2>3. data.boot \in Int /\ \A t \in Tasks : session[t].view.boot \in Int
    BY DEF TypeOK, Readings
  <2>4. UNCHANGED data /\ \A t \in Tasks : session'[t].view.boot <= server.boot
    BY <1>12, <1>0 DEF Environment, StopServer, GoDown, BootServer, ServerChanges, state, BootsKnown
  <2>5. CASE UNCHANGED session
    BY <2>0, <2>1, <2>3, <2>4, <2>5 DEF BootsKnown
  <2>6. CASE GoDown
    BY <2>6, <2>4, <2>a DEF BootsKnown
  <2> QED BY <1>12, <2>5, <2>6 DEF Environment, StopServer, BootServer, ServerChanges
<1>13. CASE UNCHANGED vars
  BY <1>13 DEF vars, state, BootsKnown
<1> QED BY <1>1, <1>2, <1>3, <1>4, <1>5, <1>6, <1>7, <1>8, <1>9, <1>10, <1>11, <1>12, <1>13
        DEF Next, Operation, Work, Read, Check

\* A verdict comes from the end of a check only.
LEMMA OnlyConclude ==
    ASSUME TypeOK, [Next]_vars, NEW o \in Ops, NEW v \in {"success", "failure"}, Reported(o, v)
    PROVE  Conclude(o) /\ v = Report(RebootProblem(lastOk', data'))
<1>1. verdict' # verdict
  BY DEF Reported
<1>2. PICK p \in Ops : Conclude(p)
  BY <1>1 DEF Next, Operation, Work, Read, Check, Environment, vars, history,
     Refuse, Begin, Upgrade, RestartServices, SendReboot, Fail, FinishWithRefresh,
     FinishWithWatch, Fire, CheckAgain, ReadServer, FailToRead, EndRefresh, StartPoll,
     Unload, Tick, StopServer, GoDown, BootServer, ServerChanges
<1>3. verdict' = [verdict EXCEPT ![p] = Report(RebootProblem(lastOk', data'))]
  BY <1>2 DEF Conclude
<1>4. p = o
  BY <1>3 DEF Reported, TypeOK
<1> QED BY <1>2, <1>3, <1>4 DEF Reported, TypeOK

\* A success means that the server has booted since the order, if the recorded
\* boot time was that of the boot it was ordered from and can be read again; a
\* failure of a server that has booted and can be read means that guests are down.
THEOREM BootTestHolds == Spec => BootTestExact
<1>1. TypeOK /\ BootsKnown /\ BootsKnown' /\ [Next]_vars =>
        [\A o \in Ops :
          baseline = orderedAt[o] /\ data'.boot # Unknown =>
            /\ Reported(o, "success") => server.boot > orderedAt[o]
            /\ Reported(o, "failure") /\ lastOk' /\ data'.boot > orderedAt[o]
                  => data'.guests]_vars
  <2> SUFFICES ASSUME TypeOK, BootsKnown, BootsKnown', [Next]_vars, NEW o \in Ops,
                      baseline = orderedAt[o], data'.boot # Unknown
               PROVE  /\ Reported(o, "success") => server.boot > orderedAt[o]
                      /\ Reported(o, "failure") /\ lastOk' /\ data'.boot > orderedAt[o]
                            => data'.guests
    OBVIOUS
  <2>1. ASSUME Reported(o, "success") PROVE server.boot > orderedAt[o]
    <3>1. Conclude(o) /\ ~RebootProblem(lastOk', data')
      BY <2>1, OnlyConclude DEF Report
    <3>2. UNCHANGED server /\ data'.boot <= server.boot
      BY <3>1 DEF Conclude, BootsKnown
    <3>3. baseline = Unknown \/ ~(data'.boot <= baseline)
      BY <3>1 DEF RebootProblem
    <3>4. baseline \in Nat /\ server.boot \in Nat \ {0}
      BY DEF TypeOK, Servers
    <3>5. data' \in {data, session[o].view}
      BY <3>1 DEF Conclude, Apply
    <3>6. data'.boot \in Nat
      BY <3>5 DEF TypeOK, Readings, Tasks
    <3> QED BY <3>2, <3>3, <3>4, <3>6 DEF Unknown
  <2>2. ASSUME Reported(o, "failure"), lastOk', data'.boot > orderedAt[o] PROVE data'.guests
    <3>1. Conclude(o) /\ RebootProblem(lastOk', data')
      BY <2>2, OnlyConclude DEF Report
    <3>2. data' \in {data, session[o].view}
      BY <3>1 DEF Conclude, Apply
    <3>3. data'.boot \in Int /\ baseline \in Int
      BY <3>2 DEF TypeOK, Readings, Tasks
    <3> QED BY <2>2, <3>1, <3>3 DEF RebootProblem
  <2> QED BY <2>1, <2>2
<1> QED BY <1>1, BootsInitially, BootsStep, Typing, PTL DEF Spec, BootTestExact

(***************************************************************************)
(* Every reboot is answered.  Only a reboot that went through has a watch. *)
(***************************************************************************)
WatchOwners ==
    \A o \in Ops :
        /\ pc[o] \in Watching => kind[o] \in RebootKinds /\ outcome[o] = "ok"
        /\ pc[o] = "refreshing" => kind[o] \notin RebootKinds
        /\ pc[o] \in {"new"} \cup Working => outcome[o] = "none"

Answered(o) ==
    /\ kind[o] \in RebootKinds /\ outcome'[o] = "ok"
    /\ pc[o] # "done" /\ pc'[o] = "done"
    => \/ verdict'[o] # "none"
       \/ ~loaded'
       \/ \E p \in Ops \ {o} :
             /\ kind[p] \in RebootKinds
             /\ pc[p] # "waiting" /\ pc'[p] = "waiting"

OwnersMove == WatchOwners' /\ \A o \in Ops : Answered(o)

\* A task that schedules a check answers for the one it replaces.
LEMMA ScheduleAnswers ==
    ASSUME TypeOK, WatchOwners, NEW o \in Ops, NEW delay, Schedule(o, delay),
           kind[o] \in RebootKinds, UNCHANGED kind, pc[o] # "waiting",
           outcome'[o] = "ok", \A p \in Ops \ {o} : outcome'[p] = outcome[p]
    PROVE  OwnersMove
<1>1. \A p \in Ops : pc'[p] = IF p = o THEN "waiting"
                             ELSE IF pc[p] = "waiting" THEN "done" ELSE pc[p]
  BY DEF Schedule, Tasks
<1>2. WatchOwners'
  BY <1>1 DEF WatchOwners, Working, Watching
<1>3. \A p \in Ops : Answered(p)
  BY <1>1 DEF Answered
<1> QED BY <1>2, <1>3 DEF OwnersMove

\* An operation that goes on, or ends without having gone through.
LEMMA QuietMove ==
    ASSUME TypeOK, WatchOwners, NEW o \in Ops, pc[o] \in {"new"} \cup Working,
           NEW label \in {"running", "upgraded", "commanded", "done"},
           NEW r \in {"none", "refused", "error"}, label # "done" => r = "none",
           pc' = [pc EXCEPT ![o] = label], outcome' = [outcome EXCEPT ![o] = r],
           UNCHANGED kind
    PROVE  OwnersMove
<1>1. \A p \in Ops : /\ pc'[p] = IF p = o THEN label ELSE pc[p]
                     /\ outcome'[p] = IF p = o THEN r ELSE outcome[p]
  BY DEF TypeOK, Tasks
<1>2. WatchOwners'
  BY <1>1 DEF WatchOwners, Working, Watching
<1>3. \A p \in Ops : Answered(p)
  BY <1>1 DEF Answered
<1> QED BY <1>2, <1>3 DEF OwnersMove

\* A step that moves no operation.
LEMMA NoMove ==
    ASSUME WatchOwners, UNCHANGED <<kind, outcome>>, \A o \in Ops : pc'[o] = pc[o]
    PROVE  OwnersMove
BY DEF OwnersMove, WatchOwners, Answered, Working, Watching

LEMMA OwnersInitially == Init => WatchOwners
<1> SUFFICES ASSUME Init PROVE WatchOwners
  OBVIOUS
<1>1. \A o \in Ops : pc[o] = "new" /\ outcome[o] = "none"
  BY TaskAssumption DEF Init, Tasks
<1> QED BY <1>1 DEF WatchOwners, Watching

LEMMA OwnersStep == TypeOK /\ WatchOwners /\ [Next]_vars => OwnersMove
<1> SUFFICES ASSUME TypeOK, WatchOwners, [Next]_vars PROVE OwnersMove
  OBVIOUS
<1> USE TaskAssumption
<1>0. ASSUME NEW o \in Ops, pc[o] \in {"new"} \cup Working
      PROVE  outcome = [outcome EXCEPT ![o] = "none"]
  BY <1>0 DEF WatchOwners, TypeOK
<1>1. ASSUME NEW o \in Ops, Refuse(o) PROVE OwnersMove
  BY <1>1, QuietMove DEF Refuse, Goto
<1>2. ASSUME NEW o \in Ops, Begin(o) \/ Upgrade(o) \/ RestartServices(o) \/ SendReboot(o)
      PROVE  OwnersMove
  <2>1. pc[o] \in {"new"} \cup Working /\ UNCHANGED <<kind, outcome>>
    BY <1>2 DEF Begin, Upgrade, RestartServices, SendReboot, history, Working
  <2>2. \E label \in {"running", "upgraded", "commanded"} : pc' = [pc EXCEPT ![o] = label]
    BY <1>2 DEF Begin, Upgrade, RestartServices, SendReboot, Goto
  <2> QED BY <2>1, <2>2, <1>0, QuietMove
<1>3. ASSUME NEW o \in Ops, Fail(o) PROVE OwnersMove
  BY <1>3, QuietMove DEF Fail, Goto, Working
<1>4. ASSUME NEW o \in Ops, FinishWithRefresh(o) PROVE OwnersMove
  <2>1. kind[o] \notin RebootKinds
    BY <1>4 DEF FinishWithRefresh, RebootKinds
  <2>2. \A p \in Ops : /\ pc'[p] = IF p = o THEN "refreshing" ELSE pc[p]
                       /\ outcome'[p] = IF p = o THEN "ok" ELSE outcome[p]
    BY <1>4 DEF FinishWithRefresh, Goto, TypeOK, Tasks
  <2>3. UNCHANGED kind
    BY <1>4 DEF FinishWithRefresh
  <2>4. WatchOwners'
    BY <2>1, <2>2, <2>3 DEF WatchOwners, Working, Watching
  <2>5. \A p \in Ops : Answered(p)
    BY <2>2 DEF Answered
  <2> QED BY <2>4, <2>5 DEF OwnersMove
<1>5. ASSUME NEW o \in Ops, FinishWithWatch(o) PROVE OwnersMove
  <2>1. outcome' = [outcome EXCEPT ![o] = "ok"] /\ outcome \in [Ops -> {"none", "refused", "ok", "error"}]
    BY <1>5 DEF FinishWithWatch, TypeOK
  <2>2. pc[o] = "commanded" /\ kind[o] \in RebootKinds /\ UNCHANGED kind
    BY <1>5 DEF FinishWithWatch
  <2>3. Schedule(o, RefreshDelay)
    BY <1>5 DEF FinishWithWatch, StartWatch
  <2> QED BY <2>1, <2>2, <2>3, ScheduleAnswers
<1>6. ASSUME NEW o \in Ops, Fire(o) PROVE OwnersMove
  <2>1. pc[o] = "waiting" /\ UNCHANGED <<kind, outcome>>
    BY <1>6 DEF Fire, history
  <2>2. \A p \in Ops : pc'[p] = IF p = o THEN "checking" ELSE pc[p]
    BY <1>6 DEF Fire, Goto, TypeOK, Tasks
  <2>3. WatchOwners'
    BY <2>1, <2>2 DEF WatchOwners, Working, Watching
  <2>4. \A p \in Ops : Answered(p)
    BY <2>2 DEF Answered
  <2> QED BY <2>3, <2>4 DEF OwnersMove
<1>7. ASSUME NEW o \in Ops, CheckAgain(o) PROVE OwnersMove
  <2>1. pc[o] = "checking" /\ UNCHANGED <<kind, outcome>>
    BY <1>7 DEF CheckAgain, history
  <2>2. kind[o] \in RebootKinds /\ outcome[o] = "ok"
    BY <2>1 DEF WatchOwners, Watching
  <2>3. Schedule(o, RetryInterval)
    BY <1>7 DEF CheckAgain
  <2> QED BY <2>1, <2>2, <2>3, ScheduleAnswers
<1>8. ASSUME NEW o \in Ops, Conclude(o) PROVE OwnersMove
  <2>1. /\ pc' = [pc EXCEPT ![o] = "done"]
        /\ verdict' = [verdict EXCEPT ![o] = Report(RebootProblem(lastOk', data'))]
        /\ UNCHANGED <<kind, outcome>>
    BY <1>8 DEF Conclude, Goto
  <2>2. Report(RebootProblem(lastOk', data')) # "none"
    BY DEF Report
  <2>3. \A p \in Ops : /\ pc'[p] = IF p = o THEN "done" ELSE pc[p]
                       /\ verdict'[p] = IF p = o THEN Report(RebootProblem(lastOk', data'))
                                        ELSE verdict[p]
    BY <2>1 DEF TypeOK, Tasks
  <2>4. WatchOwners'
    BY <2>1, <2>3 DEF WatchOwners, Working, Watching
  <2>5. \A p \in Ops : Answered(p)
    BY <2>2, <2>3 DEF Answered
  <2> QED BY <2>4, <2>5 DEF OwnersMove
<1>9. ASSUME NEW t \in Tasks, ReadServer(t) \/ FailToRead(t) PROVE OwnersMove
  BY <1>9, NoMove DEF ReadServer, FailToRead, history
<1>10. ASSUME NEW t \in Tasks, EndRefresh(t) PROVE OwnersMove
  <2>1. /\ pc' = [pc EXCEPT ![t] = IF t = Poll THEN "idle" ELSE "done"]
        /\ pc[t] = "refreshing"
        /\ UNCHANGED <<kind, outcome>>
    BY <1>10 DEF EndRefresh, Goto, history
  <2>2. \A p \in Ops : pc'[p] = IF p = t THEN "done" ELSE pc[p]
    BY <2>1 DEF TypeOK, Tasks
  <2>3. WatchOwners'
    BY <2>1, <2>2 DEF WatchOwners, Working, Watching
  <2>4. \A p \in Ops : p = t => ~(kind[p] \in RebootKinds)
    BY <2>1 DEF WatchOwners
  <2>5. \A p \in Ops : Answered(p)
    BY <2>2, <2>4 DEF Answered
  <2> QED BY <2>3, <2>5 DEF OwnersMove
<1>11. CASE StartPoll
  <2>1. \A o \in Ops : pc'[o] = pc[o]
    BY <1>11 DEF StartPoll, Goto, TypeOK, Tasks
  <2> QED BY <1>11, <2>1, NoMove DEF StartPoll, history
<1>12. CASE Unload
  <2>1. ~loaded' /\ UNCHANGED <<kind, outcome>>
    BY <1>12 DEF Unload, history
  <2>2. \A o \in Ops : pc'[o] = IF pc[o] = "waiting" THEN "done" ELSE pc[o]
    BY <1>12 DEF Unload, Tasks
  <2>3. WatchOwners'
    BY <2>1, <2>2 DEF WatchOwners, Working, Watching
  <2> QED BY <2>1, <2>3 DEF OwnersMove, Answered
<1>13. CASE Tick \/ Environment \/ UNCHANGED vars
  <2>1. UNCHANGED <<pc, kind, outcome>>
    BY <1>13 DEF Tick, Environment, StopServer, GoDown, BootServer, ServerChanges, vars, history
  <2> QED BY <2>1, NoMove
<1> QED BY <1>1, <1>2, <1>3, <1>4, <1>5, <1>6, <1>7, <1>8, <1>9, <1>10, <1>11, <1>12, <1>13
        DEF Next, Operation, Work, Read, Check

\* The task of a reboot that went through ends with a verdict, with the entry, or
\* in the very step in which another reboot schedules a check of its own.
THEOREM RebootsAreAnswered == Spec => RebootAnswered
<1>1. OwnersMove => WatchOwners' /\ \A o \in Ops : Answered(o)
  BY DEF OwnersMove
<1>2. (\A o \in Ops : Answered(o)) =>
        [\A o \in Ops :
          /\ kind[o] \in RebootKinds /\ outcome'[o] = "ok"
          /\ pc[o] # "done" /\ pc'[o] = "done"
          => \/ verdict'[o] # "none"
             \/ ~loaded'
             \/ \E p \in Ops \ {o} :
                   /\ kind[p] \in RebootKinds
                   /\ pc[p] # "waiting" /\ pc'[p] = "waiting"]_vars
  BY DEF Answered
<1> QED BY <1>1, <1>2, OwnersInitially, OwnersStep, Typing, PTL DEF Spec, RebootAnswered

(***************************************************************************)
(* The repair issue.                                                       *)
(***************************************************************************)

\* A refresh takes the issue along with the data.
LEMMA ApplyIssue ==
    ASSUME TypeOK, IssueTracksData, NEW t \in Tasks, Apply(t), UNCHANGED loaded
    PROVE  IssueTracksData'
<1>1. CASE session[t].st = "read"
  <2>1. issue' = NeedsReboot(data') /\ dismissed' = FALSE
    BY <1>1 DEF Apply, IssueAfter
  <2> QED BY <2>1 DEF IssueTracksData
<1>2. CASE session[t].st # "read"
  <2>1. UNCHANGED <<issue, data>> /\ dismissed' = dismissed
    BY <1>2 DEF Apply, TypeOK
  <2> QED BY <2>1 DEF IssueTracksData, NeedsReboot
<1> QED BY <1>1, <1>2

LEMMA IssueStep == TypeOK /\ IssueTracksData /\ [Next]_vars => IssueTracksData'
<1> SUFFICES ASSUME TypeOK, IssueTracksData, [Next]_vars PROVE IssueTracksData'
  OBVIOUS
<1>1. ASSUME UNCHANGED <<loaded, issue, data, dismissed>> PROVE IssueTracksData'
  BY <1>1 DEF IssueTracksData, NeedsReboot
<1>2. ASSUME NEW o \in Ops,
             \/ Refuse(o) \/ Begin(o) \/ Upgrade(o) \/ RestartServices(o)
             \/ SendReboot(o) \/ Fail(o) \/ FinishWithRefresh(o) \/ Fire(o)
      PROVE  IssueTracksData'
  BY <1>2, <1>1 DEF Refuse, Begin, Upgrade, RestartServices, SendReboot, Fail,
     FinishWithRefresh, Fire, state
<1>3. ASSUME NEW o \in Ops, FinishWithWatch(o) PROVE IssueTracksData'
  <2>1. /\ issue' = (issue /\ kind[o] # "repair")
        /\ dismissed' = (dismissed \/ kind[o] = "repair")
        /\ UNCHANGED <<loaded, data>>
    BY <1>3 DEF FinishWithWatch
  <2> QED BY <2>1 DEF IssueTracksData, NeedsReboot, TypeOK
<1>4. ASSUME NEW o \in Ops, CheckAgain(o) \/ Conclude(o) PROVE IssueTracksData'
  BY <1>4, ApplyIssue DEF CheckAgain, Conclude, Tasks
<1>5. ASSUME NEW t \in Tasks, ReadServer(t) \/ FailToRead(t) PROVE IssueTracksData'
  BY <1>5, <1>1 DEF ReadServer, FailToRead, state
<1>6. ASSUME NEW t \in Tasks, EndRefresh(t) PROVE IssueTracksData'
  BY <1>6, ApplyIssue DEF EndRefresh
<1>7. CASE Unload
  BY <1>7 DEF Unload, IssueTracksData
<1>8. CASE StartPoll \/ Tick \/ Environment \/ UNCHANGED vars
  BY <1>8, <1>1 DEF StartPoll, Tick, Environment, StopServer, GoDown, BootServer,
     ServerChanges, vars, state
<1> QED BY <1>2, <1>3, <1>4, <1>5, <1>6, <1>7, <1>8
        DEF Next, Operation, Work, Read, Check

\* While the entry is loaded, the issue says what the data say, but for a
\* repair flow that has been finished since they were read.
THEOREM IssueFollowsData == Spec => []IssueTracksData
<1>1. Init => IssueTracksData
  BY DEF Init, IssueTracksData
<1> QED BY <1>1, IssueStep, Typing, PTL DEF Spec
=============================================================================
