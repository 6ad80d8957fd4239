-------------------------- MODULE ServerCoordinator --------------------------
(***************************************************************************)
(* The coordinator of one server (coordinator.py): the busy gate every     *)
(* operation passes, the refreshes that read the server, the watch that    *)
(* follows a reboot command, the "reboot required" repair issue, and the   *)
(* unloading of the config entry.                                          *)
(*                                                                         *)
(* Every call of an operation is one task in Ops, which runs once; the     *)
(* periodic poll is the task Poll.  A reboot task goes on, after its       *)
(* operation, as the owner of the watch it started: it waits for the       *)
(* delayed check ("waiting"), runs it ("checking"), and waits again or     *)
(* ends with a verdict.  An action is what runs between two awaits of the  *)
(* event loop.  One unit of time is one minute.                            *)
(***************************************************************************)
EXTENDS Integers

CONSTANTS
    Ops,            \* calls of operations: each runs once
    Poll,           \* the task of the periodic poll
    Kinds,          \* the operations that are called in this instance
    Pendings,       \* what a server may be waiting for: "services", "reboot"
    Proxmox,        \* whether the server has guests with autostart
    MaxBoots,       \* bound on the number of times the server boots
    RefreshDelay,   \* REBOOT_REFRESH_DELAY
    RetryInterval,  \* REBOOT_RETRY_INTERVAL
    WatchTimeout    \* REBOOT_WATCH_TIMEOUT

UpgradeKinds == {"update", "update_reboot"}
RebootKinds == {"update_reboot", "reboot", "repair"}
AllKinds == UpgradeKinds \cup RebootKinds \cup {"services"}

ASSUME TaskAssumption == Poll \notin Ops
ASSUME KindAssumption == Kinds \subseteq AllKinds
ASSUME ServerAssumption ==
    /\ Pendings \subseteq {"services", "reboot"}
    /\ Proxmox \in BOOLEAN
    /\ MaxBoots \in Nat \ {0}
ASSUME DelayAssumption ==
    /\ RefreshDelay \in Nat \ {0}
    /\ RetryInterval \in Nat \ {0}
    /\ WatchTimeout \in Nat
    /\ RefreshDelay <= WatchTimeout

VARIABLES
    loaded,     \* the entry is loaded; FALSE once it is unloaded
    busy,       \* coordinator.busy
    rebooting,  \* coordinator.rebooting
    timer,      \* time until the check _cancel_delayed_refresh would cancel
    left,       \* time until _reboot_deadline
    baseline,   \* _boot_time_before_reboot
    data,       \* coordinator.data: the last reading
    lastOk,     \* coordinator.last_update_success
    issue,      \* the repair issue is in the issue registry
    dismissed,  \* history: a repair was finished since the last reading
    pc,         \* where each task is
    kind,       \* which operation each task of Ops calls
    session,    \* the SSH session of each task's refresh and what it read
    server,     \* the server itself
    outcome,    \* history: how each operation ended
    verdict,    \* history: what the watch of each reboot reported
    orderedAt,  \* history: the boot during which each reboot was ordered
    crossed     \* history: a watch was started while a check was running

watch == <<rebooting, timer, left, baseline>>
state == <<data, lastOk, issue, dismissed>>
history == <<outcome, verdict, orderedAt, crossed>>
vars == <<loaded, busy, watch, state, pc, kind, session, server, history>>

Tasks == Ops \cup {Poll}
None == -1     \* no timer handle, no deadline
Unknown == 0   \* boot_time is None
Readings == [boot : 0 .. MaxBoots, pending : SUBSET Pendings, guests : BOOLEAN]
Servers == [power : {"up", "stopping", "down"}, boot : 1 .. MaxBoots,
            pending : SUBSET Pendings, guests : BOOLEAN]
Guests == IF Proxmox THEN BOOLEAN ELSE {FALSE}

\* What a reading of server s may show: a part that could not be read shows
\* as unknown, or as nothing to report.
Seen(s) == [boot : {s.boot, Unknown}, pending : SUBSET s.pending,
            guests : {s.guests, FALSE}]

\* What installing packages leaves to do: outdated services may come and go,
\* a reboot may come and nothing but a reboot takes it back.
AfterInstall(p) == {q \in SUBSET Pendings : "reboot" \in p => "reboot" \in q}

NoView == [boot |-> Unknown, pending |-> {}, guests |-> FALSE]
Session(s) == [st |-> s, view |-> NoView]
Closed == Session("closed")

\* A refresh on an unloaded coordinator does nothing (async_shutdown).
OpenSession == Session(IF loaded THEN "open" ELSE "skipped")

(***************************************************************************)
(* Helpers of the actions.                                                 *)
(***************************************************************************)
Working == {"running", "upgraded", "commanded"}
Holders == {o \in Ops : pc[o] \in Working}
Waiting == {o \in Ops : pc[o] = "waiting"}
Checking == {o \in Ops : pc[o] = "checking"}

\* any_reboot_required
NeedsReboot(d) == "reboot" \in d.pending

\* split_restartable_services(data.services_to_restart)[0] is not empty
Restartable(d) == "services" \in d.pending

\* Mutant of RebootProblem: an unchanged boot time passes.
UnchangedBootPasses(ok, d) ==
    \/ ~ok
    \/ baseline # Unknown /\ d.boot # Unknown /\ d.boot < baseline
    \/ d.guests

\* reboot_problem() is not None.
RebootProblem(ok, d) ==
    \/ ~ok
    \/ baseline # Unknown /\ d.boot # Unknown /\ d.boot <= baseline
    \/ d.guests

\* Mutant of IssueAfter: the issue is created but never deleted.
IssueNeverDeleted(d) == issue \/ NeedsReboot(d)

\* _async_update_reboot_issue deletes or creates the issue.
IssueAfter(d) == NeedsReboot(d)

\* The end of a refresh: data and last_update_success are assigned, and a
\* successful one creates or deletes the issue.
Apply(t) ==
    LET s == session[t] IN
    /\ data' = IF s.st = "read" THEN s.view ELSE data
    /\ lastOk' = IF s.st = "skipped" THEN lastOk ELSE s.st = "read"
    /\ issue' = IF s.st = "read" THEN IssueAfter(s.view) ELSE issue
    /\ dismissed' = (dismissed /\ s.st # "read")
    /\ session' = [session EXCEPT ![t] = Closed]

\* The flag of _async_busy.  Mutants: it is not looked at, it is not reset.
GateIgnored == TRUE
GateFree == ~busy

KeepBusy == UNCHANGED busy
Release == busy' = FALSE

\* Mutant of Schedule: the check pending before is not cancelled.
ScheduleAnother(o, delay) ==
    /\ timer' = delay
    /\ pc' = [pc EXCEPT ![o] = "waiting"]

\* Task o becomes the owner of the pending check; the one pending before, if
\* there is one, is cancelled.
Schedule(o, delay) ==
    /\ timer' = delay
    /\ pc' = [p \in Tasks |-> IF p = o THEN "waiting"
                              ELSE IF pc[p] = "waiting" THEN "done" ELSE pc[p]]

\* Mutants of StartWatch: the flag is forgotten, the first check comes as
\* soon as a repeated one.
StartWatchUnmarked(o) ==
    /\ baseline' = data.boot
    /\ left' = WatchTimeout
    /\ UNCHANGED rebooting
    /\ Schedule(o, RefreshDelay)
    /\ crossed' = (crossed \/ Checking # {})

StartWatchHasty(o) ==
    /\ baseline' = data.boot
    /\ left' = WatchTimeout
    /\ rebooting' = TRUE
    /\ Schedule(o, RetryInterval)
    /\ crossed' = (crossed \/ Checking # {})

StartWatch(o) ==
    /\ baseline' = data.boot
    /\ left' = WatchTimeout
    /\ rebooting' = TRUE
    /\ Schedule(o, RefreshDelay)
    /\ crossed' = (crossed \/ Checking # {})

\* utcnow() < _reboot_deadline.  Mutant: the deadline is not looked at.
NoDeadline == TRUE
BeforeDeadline == left > 0

\* What the end of a watch reports.  Mutant: giving up is not reported.
SuccessOnly(problem) == IF problem THEN "none" ELSE "success"
Report(problem) == IF problem THEN "failure" ELSE "success"

\* A minute of a timer or of the deadline.  Mutant: it goes on past its end.
CountPast(t) == t - 1
Count(t) == IF t > 0 THEN t - 1 ELSE t

Goto(t, label) == pc' = [pc EXCEPT ![t] = label]

(***************************************************************************)
(* The operations: async_apply_updates, async_reboot and                   *)
(* async_restart_services, called by buttons, the update entity, the       *)
(* maintenance action and, as "repair", the repair flow.                   *)
(***************************************************************************)

\* The repair flow does not find an unloaded coordinator.
Callable(o) == kind[o] = "repair" => loaded

NothingToDo(o) == kind[o] = "services" /\ ~Restartable(data)

Refuse(o) ==
    /\ pc[o] = "new"
    /\ Callable(o)
    /\ ~GateFree \/ NothingToDo(o)
    /\ Goto(o, "done")
    /\ outcome' = [outcome EXCEPT ![o] = "refused"]
    /\ UNCHANGED <<loaded, busy, watch, state, kind, session, server,
                   verdict, orderedAt, crossed>>

Begin(o) ==
    /\ pc[o] = "new"
    /\ Callable(o)
    /\ GateFree
    /\ ~NothingToDo(o)
    /\ busy' = TRUE
    /\ Goto(o, "running")
    /\ UNCHANGED <<loaded, watch, state, kind, session, server, history>>

\* apt-get update and dist-upgrade.
Upgrade(o) ==
    /\ pc[o] = "running"
    /\ kind[o] \in UpgradeKinds
    /\ server.power # "down"
    /\ \E p \in AfterInstall(server.pending) :
          server' = [server EXCEPT !.pending = p]
    /\ Goto(o, "upgraded")
    /\ UNCHANGED <<loaded, busy, watch, state, kind, session, history>>

\* systemctl restart of the services.
RestartServices(o) ==
    /\ pc[o] = "running"
    /\ kind[o] = "services"
    /\ server.power # "down"
    /\ server' = [server EXCEPT !.pending = @ \ {"services"}]
    /\ Goto(o, "commanded")
    /\ UNCHANGED <<loaded, busy, watch, state, kind, session, history>>

\* The reboot command.  It needs a connection, which an update made before;
\* after that neither its exit status nor a lost connection counts, so the
\* server may or may not go down.
SendReboot(o) ==
    /\ \/ pc[o] = "running" /\ kind[o] \in {"reboot", "repair"} /\ server.power # "down"
       \/ pc[o] = "upgraded" /\ kind[o] = "update_reboot"
    /\ \/ UNCHANGED server
       \/ /\ server.power = "up"
          /\ server.boot < MaxBoots
          /\ server' = [server EXCEPT !.power = "stopping"]
    /\ Goto(o, "commanded")
    /\ orderedAt' = [orderedAt EXCEPT ![o] = server.boot]
    /\ UNCHANGED <<loaded, busy, watch, state, kind, session,
                   outcome, verdict, crossed>>

\* An error before the last command is through: no connection, a command
\* that fails or runs into its timeout (its effect may have happened).
Fail(o) ==
    /\ \/ pc[o] \in {"running", "upgraded"}
       \/ pc[o] = "commanded" /\ kind[o] = "services"
    /\ Release
    /\ Goto(o, "done")
    /\ outcome' = [outcome EXCEPT ![o] = "error"]
    /\ UNCHANGED <<loaded, watch, state, kind, session, server,
                   verdict, orderedAt, crossed>>

\* An update without reboot, or a restart of services, ends with a refresh.
FinishWithRefresh(o) ==
    /\ \/ pc[o] = "upgraded" /\ kind[o] = "update"
       \/ pc[o] = "commanded" /\ kind[o] = "services"
    /\ Release
    /\ Goto(o, "refreshing")
    /\ session' = [session EXCEPT ![o] = OpenSession]
    /\ outcome' = [outcome EXCEPT ![o] = "ok"]
    /\ UNCHANGED <<loaded, watch, state, kind, server,
                   verdict, orderedAt, crossed>>

\* A reboot ends with the start of the watch.  Home Assistant deletes the
\* issue when the repair flow finishes.
FinishWithWatch(o) ==
    /\ pc[o] = "commanded"
    /\ kind[o] \in RebootKinds
    /\ Release
    /\ StartWatch(o)
    /\ issue' = (issue /\ kind[o] # "repair")
    /\ dismissed' = (dismissed \/ kind[o] = "repair")
    /\ outcome' = [outcome EXCEPT ![o] = "ok"]
    /\ UNCHANGED <<loaded, data, lastOk, kind, session, server,
                   verdict, orderedAt>>

(***************************************************************************)
(* The refreshes: of the poll, at the end of an operation, and of the      *)
(* watch.  Nothing keeps them from overlapping.                            *)
(***************************************************************************)
StartPoll ==
    /\ loaded
    /\ pc[Poll] = "idle"
    /\ Goto(Poll, "refreshing")
    /\ session' = [session EXCEPT ![Poll] = OpenSession]
    /\ UNCHANGED <<loaded, busy, watch, state, kind, server, history>>

\* async_check_updates reads the server, ...
ReadServer(t) ==
    /\ session[t].st = "open"
    /\ server.power # "down"
    /\ \E view \in Seen(server) :
          session' = [session EXCEPT ![t] = [st |-> "read", view |-> view]]
    /\ UNCHANGED <<loaded, busy, watch, state, pc, kind, server, history>>

\* ... or fails to.
FailToRead(t) ==
    /\ session[t].st = "open"
    /\ session' = [session EXCEPT ![t] = Session("failed")]
    /\ UNCHANGED <<loaded, busy, watch, state, pc, kind, server, history>>

EndRefresh(t) ==
    /\ pc[t] = "refreshing"
    /\ session[t].st # "open"
    /\ Apply(t)
    /\ Goto(t, IF t = Poll THEN "idle" ELSE "done")
    /\ UNCHANGED <<loaded, busy, watch, kind, server, history>>

(***************************************************************************)
(* The reboot watch.                                                       *)
(***************************************************************************)

\* The timer runs out: _async_check forgets it and starts the refresh.
Fire(o) ==
    /\ pc[o] = "waiting"
    /\ timer = 0
    /\ timer' = None
    /\ Goto(o, "checking")
    /\ session' = [session EXCEPT ![o] = OpenSession]
    /\ UNCHANGED <<loaded, busy, rebooting, left, baseline, state, kind,
                   server, history>>

\* Mutant of CheckAgain: the next check is not scheduled.
CheckOnce(o) ==
    /\ pc[o] = "checking"
    /\ session[o].st # "open"
    /\ Apply(o)
    /\ RebootProblem(lastOk', data')
    /\ BeforeDeadline
    /\ Goto(o, "done")
    /\ UNCHANGED <<loaded, busy, watch, kind, server, history>>

\* The check found a problem before the deadline: look again later.
CheckAgain(o) ==
    /\ pc[o] = "checking"
    /\ session[o].st # "open"
    /\ Apply(o)
    /\ RebootProblem(lastOk', data')
    /\ BeforeDeadline
    /\ Schedule(o, RetryInterval)
    /\ UNCHANGED <<loaded, busy, rebooting, left, baseline, kind, server, history>>

\* The check found none, or there is no deadline ahead: report.
Conclude(o) ==
    /\ pc[o] = "checking"
    /\ session[o].st # "open"
    /\ Apply(o)
    /\ RebootProblem(lastOk', data') => ~BeforeDeadline
    /\ rebooting' = FALSE
    /\ left' = None
    /\ verdict' = [verdict EXCEPT ![o] = Report(RebootProblem(lastOk', data'))]
    /\ Goto(o, "done")
    /\ UNCHANGED <<loaded, busy, timer, baseline, kind, server,
                   outcome, orderedAt, crossed>>

\* A due check starts before a minute has passed.
Tick ==
    /\ timer # 0
    /\ timer > 0 \/ left > 0
    /\ timer' = Count(timer)
    /\ left' = Count(left)
    /\ UNCHANGED <<loaded, busy, rebooting, baseline, state, pc, kind,
                   session, server, history>>

(***************************************************************************)
(* Unloading the entry deletes the issue and cancels the pending check.    *)
(* What runs goes on, except, with a recent Home Assistant, a poll.        *)
(***************************************************************************)
Unload ==
    /\ loaded
    /\ loaded' = FALSE
    /\ issue' = FALSE
    /\ timer' = None
    /\ \E cancelled \in {{}, {Poll}} :
         /\ pc' = [t \in Tasks |->
                     IF t \in cancelled THEN "idle"
                     ELSE IF pc[t] = "waiting" THEN "done" ELSE pc[t]]
         /\ session' = [t \in Tasks |-> IF t \in cancelled THEN Closed ELSE session[t]]
    /\ UNCHANGED <<busy, rebooting, left, baseline, data, lastOk, dismissed, kind,
                   server, history>>

(***************************************************************************)
(* The server, which others reboot and update too.                         *)
(***************************************************************************)
StopServer ==
    /\ server.power = "up"
    /\ server.boot < MaxBoots
    /\ server' = [server EXCEPT !.power = "stopping"]
    /\ UNCHANGED <<loaded, busy, watch, state, pc, kind, session, history>>

\* Going down closes every session; what was read through one is kept.
GoDown ==
    /\ server.power = "stopping"
    /\ server' = [server EXCEPT !.power = "down"]
    /\ session' = [t \in Tasks |-> IF session[t].st = "open"
                                   THEN Session("failed") ELSE session[t]]
    /\ UNCHANGED <<loaded, busy, watch, state, pc, kind, history>>

BootServer ==
    /\ server.power = "down"
    /\ \E p \in SUBSET (Pendings \ {"services"}), g \in Guests :
          server' = [power |-> "up", boot |-> server.boot + 1,
                     pending |-> p, guests |-> g]
    /\ UNCHANGED <<loaded, busy, watch, state, pc, kind, session, history>>

\* Packages installed by hand, a guest that starts or stops.
ServerChanges ==
    /\ server.power = "up"
    /\ \E p \in AfterInstall(server.pending), g \in Guests :
          server' = [server EXCEPT !.pending = p, !.guests = g]
    /\ UNCHANGED <<loaded, busy, watch, state, pc, kind, session, history>>

(***************************************************************************)
(* The specification.  The first refresh, without which the entry is not   *)
(* set up, has read the server.                                            *)
(***************************************************************************)
Init ==
    /\ loaded = TRUE
    /\ busy = FALSE
    /\ rebooting = FALSE
    /\ timer = None
    /\ left = None
    /\ baseline = Unknown
    /\ \E p \in SUBSET Pendings, g \in Guests :
         /\ server = [power |-> "up", boot |-> 1, pending |-> p, guests |-> g]
         /\ data \in Seen(server)
    /\ lastOk = TRUE
    /\ issue = NeedsReboot(data)
    /\ dismissed = FALSE
    /\ pc = [t \in Tasks |-> IF t = Poll THEN "idle" ELSE "new"]
    /\ kind \in [Ops -> Kinds]
    /\ session = [t \in Tasks |-> Closed]
    /\ outcome = [o \in Ops |-> "none"]
    /\ verdict = [o \in Ops |-> "none"]
    /\ orderedAt = [o \in Ops |-> Unknown]
    /\ crossed = FALSE

Work(o) ==
    \/ Upgrade(o) \/ RestartServices(o) \/ SendReboot(o)
    \/ Fail(o) \/ FinishWithRefresh(o) \/ FinishWithWatch(o)

Read(t) == ReadServer(t) \/ FailToRead(t)
Check(o) == CheckAgain(o) \/ Conclude(o)
Operation(o) == Refuse(o) \/ Begin(o) \/ Work(o) \/ Fire(o) \/ Check(o)
Environment == StopServer \/ GoDown \/ BootServer \/ ServerChanges

Next ==
    \/ \E o \in Ops : Operation(o)
    \/ \E t \in Tasks : Read(t) \/ EndRefresh(t)
    \/ StartPoll \/ Unload \/ Tick
    \/ Environment

\* Every SSH command has a timeout, so an operation, a read and a check end;
\* timers fire and time passes.  Nothing makes the server come back.
Fairness ==
    /\ WF_vars(Tick)
    /\ \A o \in Ops : WF_vars(Work(o)) /\ WF_vars(Fire(o)) /\ WF_vars(Check(o))
    /\ \A t \in Tasks : WF_vars(Read(t)) /\ WF_vars(EndRefresh(t))

Spec == Init /\ [][Next]_vars
FairSpec == Spec /\ Fairness

(***************************************************************************)
(* Properties.                                                             *)
(***************************************************************************)

\* The variables keep their types.
TypeOK ==
    /\ loaded \in BOOLEAN /\ busy \in BOOLEAN /\ rebooting \in BOOLEAN
    /\ timer \in {None} \cup Nat
    /\ left \in None .. WatchTimeout
    /\ baseline \in 0 .. MaxBoots
    /\ data \in Readings
    /\ lastOk \in BOOLEAN /\ issue \in BOOLEAN /\ dismissed \in BOOLEAN
    /\ pc \in [Tasks -> {"new", "running", "upgraded", "commanded", "refreshing",
                         "waiting", "checking", "done", "idle"}]
    /\ kind \in [Ops -> AllKinds]
    /\ session \in [Tasks -> [st : {"closed", "open", "read", "failed", "skipped"},
                              view : Readings]]
    /\ server \in Servers
    /\ outcome \in [Ops -> {"none", "refused", "ok", "error"}]
    /\ verdict \in [Ops -> {"none", "success", "failure"}]
    /\ orderedAt \in [Ops -> 0 .. MaxBoots]
    /\ crossed \in BOOLEAN

\* _async_busy lets one operation at a time work on the server, and the flag
\* is up exactly while one does: neither lost nor left behind by any way an
\* operation can end.
GateExclusive ==
    /\ busy <=> Holders # {}
    /\ \A o, p \in Holders : o = p

\* There is one pending check at most, and it is the one whose handle
\* _async_cancel_delayed_refresh would cancel.
OneTimer ==
    /\ timer # None <=> Waiting # {}
    /\ \A o, p \in Waiting : o = p

\* A server that is shown as rebooting always has a check ahead or under way
\* that will end it, however reboots, their checks and failures interleave.
WatchKept == loaded /\ rebooting => Waiting \cup Checking # {}

\* As long as no reboot was ordered while a check was running, a watch has
\* one check at a time, and none is left over once it has ended.
NoStrayCheck ==
    ~crossed => /\ Waiting \cup Checking # {} => rebooting
                /\ \A o, p \in Waiting \cup Checking : o = p

\* While the entry is loaded the issue is in the registry exactly when the
\* coordinator's data ask for a reboot and no repair flow has been finished
\* since they were read: operations, unfinished and failed refreshes neither
\* lose it, nor leave it behind, nor bring it back.
IssueTracksData == loaded => (issue <=> NeedsReboot(data) /\ ~dismissed)

\* The task of a reboot that went through ends with a verdict, with the entry,
\* or in the step in which another reboot schedules a check of its own: one
\* that takes its watch over, or one whose check crossed this watch.
RebootAnswered ==
    [][\A o \in Ops :
          /\ kind[o] \in RebootKinds /\ outcome'[o] = "ok"
          /\ pc[o] # "done" /\ pc'[o] = "done"
          => \/ verdict'[o] # "none"
             \/ ~loaded'
             \/ \E p \in Ops \ {o} :
                   /\ kind[p] \in RebootKinds
                   /\ pc[p] # "waiting" /\ pc'[p] = "waiting"]_vars

Reported(o, v) == verdict[o] = "none" /\ verdict'[o] = v

\* Unless a reboot was ordered during a check, the watch reports a success no
\* earlier than REBOOT_REFRESH_DELAY after the order, when a server that
\* obeyed is no longer up from before, and gives up only after
\* REBOOT_WATCH_TIMEOUT.
VerdictTimely ==
    [][\A o \in Ops :
          ~crossed =>
            /\ Reported(o, "success") => left <= WatchTimeout - RefreshDelay
            /\ Reported(o, "failure") => left = 0]_vars

\* When the boot time of the last poll is still that of the server the reboot
\* is ordered from, and the check can read the boot time, a success means
\* that the server has booted since, and a reachable server with its guests
\* running that has booted is never reported as a failure.
BootTestExact ==
    [][\A o \in Ops :
          baseline = orderedAt[o] /\ data'.boot # Unknown =>
            /\ Reported(o, "success") => server.boot > orderedAt[o]
            /\ Reported(o, "failure") /\ lastOk' /\ data'.boot > orderedAt[o]
                  => data'.guests]_vars

\* The promise of _async_busy (OperationGate): seen from outside, operations
\* take turns, and each that has started ends.
Gate == INSTANCE OperationGate WITH
            status <- [o \in Ops |-> IF pc[o] = "new" THEN "idle"
                                     ELSE IF pc[o] \in Working THEN "working"
                                     ELSE "over"]
TakesTurns == Gate!FairSpec

\* A watch ends: with a verdict, or with the entry.
WatchEnds == rebooting ~> ~rebooting \/ ~loaded

(***************************************************************************)
(* What the documentation and comments say, and the code does not keep.    *)
(***************************************************************************)

\* README, on the reboot watch: a reboot counts as a success only if the boot
\* time is newer than before the reboot.  The code compares with the boot
\* time of the last refresh instead, which may be of an earlier boot.
SuccessMeansRebooted ==
    [][\A o \in Ops :
          Reported(o, "success") /\ baseline # Unknown /\ data'.boot # Unknown =>
              server.boot > orderedAt[o]]_vars

\* The comment on coordinator.rebooting: it is up from a reboot command until
\* the server is confirmed back or the watch gave up.  A check that a later
\* reboot overtook takes it down although the later watch goes on.
RebootingShown == loaded /\ Waiting # {} => rebooting
=============================================================================
