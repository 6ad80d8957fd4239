--------------------------- MODULE PackageUpgrade ---------------------------
(***************************************************************************)
(* The packages of one server: async_apply_updates, async_check_updates    *)
(* and async_reboot of ssh_client.py, command by command, as the           *)
(* operations of the coordinator and its refreshes run them, and apt on    *)
(* the server, which goes on when nobody waits for it any more.            *)
(*                                                                         *)
(* The config entry may be reloaded meanwhile.  Every load makes a new     *)
(* coordinator with a busy flag of its own, while operations that were     *)
(* started through the one before go on.                                   *)
(*                                                                         *)
(* Every operation and every check is a task, which runs once.  A command  *)
(* is a process on the server (proc) and, as long as it is waited for, an  *)
(* SSH channel (ssh) that brings its outcome.                              *)
(***************************************************************************)
EXTENDS KernelReleases

CONSTANTS
    Upgrades,       \* operations: install updates
    Maintenances,   \* operations: install updates, then reboot
    Reboots,        \* operations: reboot
    Checks,         \* refreshes
    RefreshCache,   \* the option to run apt-get update before a check
    Numeric,        \* the versions whose kernels are named numerically
    Marker,         \* whether its distribution writes /var/run/reboot-required
    MaxReloads,     \* bound on the reloads of the entry
    MaxVersion      \* bound on the versions that are published

Ops == Upgrades \cup Maintenances \cup Reboots
Tasks == Ops \cup Checks
Loads == 0 .. MaxReloads
Versions == 0 .. MaxVersion

ASSUME PackageTaskAssumption ==
    /\ Upgrades \cap Maintenances = {}
    /\ (Upgrades \cup Maintenances) \cap Reboots = {}
    /\ Ops \cap Checks = {}
ASSUME PackageOptionAssumption == {RefreshCache, Marker} \subseteq BOOLEAN
ASSUME PackageBoundAssumption == MaxReloads \in Nat /\ MaxVersion \in Nat

VARIABLES
    load,       \* which load of the entry is current
    busy,       \* the busy flag of each load's coordinator
    owner,      \* the load whose coordinator an operation was called on
    pc,         \* where each task is
    retried,    \* tasks that are past APT_FETCH_RETRY_DELAY
    bare,       \* tasks with _env_rejected set on their connection
    ssh,        \* the command a task waits for, or its outcome
    proc,       \* the process of each task on the server
    plan,       \* the version a task's dist-upgrade installs
    lists,      \* the version in the server's package lists
    installed,  \* the version that is installed, with its kernels
    booted,     \* the version whose kernel runs
    outdated,   \* needrestart lists a service that only a reboot may restart
    stopping,   \* the server has been told to reboot and is not down yet
    view,       \* what each check has read, the coordinator's data when it ends
    report,     \* how each task ended
    attempts,   \* history: how often apt-get dist-upgrade ran for each operation
    touched,    \* history: tasks whose process began to install system
    clean       \* history: checks that read everything and met no change so far

client == <<load, busy, owner, pc, retried, bare, report, attempts>>
system == <<lists, installed, booted, outdated, stopping>>
vars == <<client, ssh, proc, plan, system, view, touched, clean>>

Goto(t, label) == pc' = [pc EXCEPT ![t] = label]

(***************************************************************************)
(* The server.                                                             *)
(***************************************************************************)

\* Every version of the packages brings a kernel of each flavor; the running
\* one has flavor 0.  A distribution may change how it names them.
Kernel(version, flavor) ==
    [version |-> version, flavor |-> flavor, numeric |-> version \in Numeric]
Kernels == {Kernel(v, f) : v \in booted .. installed, f \in {0, 1}}
NeedsReboot == installed > booted \/ outdated

\* What a reading says.
Parts == {"packages", "marker", "kernels", "services"}
Nothing == [part \in Parts |-> FALSE]
Truth == [packages |-> lists > installed, marker |-> Marker /\ installed > booted,
          kernels |-> installed > booted, services |-> outdated]

\* any_reboot_required
RebootRequired(reading) ==
    reading.marker \/ reading.kernels \/ reading.services

ListsLocked == \E t \in Tasks : proc[t] = "lists"
DpkgLocked == \E t \in Tasks : proc[t] \in {"fetch", "install"}

\* The outcome of a process reaches the task that waits for it.
Answer(t, outcome) ==
    ssh' = [ssh EXCEPT ![t] = IF @ = "waiting" THEN outcome ELSE @]

\* A process of task t begins, or its command fails at once.
Start(t, process) ==
    /\ proc' = [proc EXCEPT ![t] = process]
    /\ ssh' = [ssh EXCEPT ![t] = "waiting"]
FailAtOnce(t, outcome) ==
    /\ ssh' = [ssh EXCEPT ![t] = outcome]
    /\ UNCHANGED <<proc, plan>>

\* apt-get update ends; index files it could not fetch it may ignore.
EndLists(t) ==
    /\ proc[t] = "lists"
    /\ proc' = [proc EXCEPT ![t] = "none"]
    /\ \/ /\ lists' \in lists .. MaxVersion
          /\ Answer(t, "ok")
       \/ /\ UNCHANGED lists
          /\ Answer(t, "error")
    /\ clean' = IF lists' = lists THEN clean ELSE {}
    /\ UNCHANGED <<client, plan, installed, booted, outdated, stopping, view, touched>>

\* The packages are downloaded, and only then installed.
EndFetch(t) ==
    /\ proc[t] = "fetch"
    /\ \/ /\ \E outcome \in {"fetch", "error"} : Answer(t, outcome)
          /\ proc' = [proc EXCEPT ![t] = "none"]
          /\ UNCHANGED touched
       \/ /\ proc' = [proc EXCEPT ![t] = "install"]
          /\ touched' = touched \cup {t}
          /\ UNCHANGED ssh
    /\ UNCHANGED <<client, plan, system, view, clean>>

\* dpkg ends, with all packages installed or with an error.
EndInstall(t) ==
    /\ proc[t] = "install"
    /\ proc' = [proc EXCEPT ![t] = "none"]
    /\ \/ /\ installed' = plan[t]
          /\ outdated' \in {outdated, TRUE}
          /\ Answer(t, "ok")
       \/ /\ UNCHANGED <<installed, outdated>>
          /\ Answer(t, "error")
    /\ clean' = {}
    /\ UNCHANGED <<client, plan, lists, booted, stopping, view, touched>>

\* Somebody else reboots the server.
OthersReboot ==
    /\ NeedsReboot
    /\ stopping' = TRUE
    /\ UNCHANGED <<client, ssh, proc, plan, lists, installed, booted, outdated, view,
                   touched, clean>>

\* The server goes down, some time after it was told to (Proxmox VE stops its
\* guests first): every process ends, and every open connection.
GoDown ==
    /\ stopping
    /\ stopping' = FALSE
    /\ booted' = installed
    /\ outdated' = FALSE
    /\ proc' = [t \in Tasks |-> "none"]
    /\ ssh' = [t \in Tasks |-> IF pc[t] \in {"new", "apply", "done"} THEN ssh[t] ELSE "raised"]
    /\ clean' = {}
    /\ UNCHANGED <<client, plan, lists, installed, view, touched>>

(***************************************************************************)
(* The busy flag (_async_busy), one per load.                              *)
(***************************************************************************)
Working == {"lists", "upgrade", "delay", "reboot"}
Holders(l) == {o \in Ops : pc[o] \in Working /\ owner[o] = l}
server == <<proc, plan, system, touched>>

\* Mutant of GateFree: the flag is not looked at.
GateIgnored == TRUE
GateFree == ~busy[load]

Refuse(o) ==
    /\ pc[o] = "new"
    /\ ~GateFree
    /\ Goto(o, "done")
    /\ owner' = [owner EXCEPT ![o] = load]
    /\ report' = [report EXCEPT ![o] = "refused"]
    /\ UNCHANGED <<load, busy, retried, bare, ssh, server, view, attempts, clean>>

Begin(o) ==
    /\ pc[o] = "new"
    /\ GateFree
    /\ busy' = [busy EXCEPT ![load] = TRUE]
    /\ owner' = [owner EXCEPT ![o] = load]
    /\ Goto(o, IF o \in Reboots THEN "reboot" ELSE "lists")
    /\ UNCHANGED <<load, retried, bare, ssh, server, view, report, attempts, clean>>

\* An operation closes its connection and leaves _async_busy, and its outcome
\* is reported.
End(o, outcome) ==
    /\ busy' = [busy EXCEPT ![owner[o]] = FALSE]
    /\ report' = [report EXCEPT ![o] = outcome]
    /\ retried' = retried \ {o}
    /\ bare' = bare \ {o}
    /\ ssh' = [ssh EXCEPT ![o] = "none"]
    /\ Goto(o, "done")

\* The entry is reloaded: another coordinator, with a flag of its own.
Reload ==
    /\ load < MaxReloads
    /\ load' = load + 1
    /\ UNCHANGED <<busy, owner, pc, retried, bare, ssh, server, view, report,
                   attempts, clean>>

(***************************************************************************)
(* Commands in general (_run).                                             *)
(***************************************************************************)
Reading == Parts \cup {"apply"}

\* The connection cannot be opened, or breaks between two commands.
Break(t) ==
    /\ pc[t] \in Working \cup Parts
    /\ ssh[t] = "none"
    /\ ssh' = [ssh EXCEPT ![t] = "raised"]
    /\ UNCHANGED <<client, server, view, clean>>

\* Mutant of TimeLimit: a command may be waited for without end.
NoTimeLimit(t) == FALSE
TimeLimit(t) == ssh[t] = "waiting"

\* The time limit ends the wait and the channel, but not always the process.
Timeout(t) ==
    /\ TimeLimit(t)
    /\ ssh' = [ssh EXCEPT ![t] = "raised"]
    /\ proc' \in {proc, [proc EXCEPT ![t] = "none"]}
    /\ UNCHANGED <<client, plan, system, view, touched, clean>>

Proceed(t, label) ==
    /\ Goto(t, label)
    /\ ssh' = [ssh EXCEPT ![t] = "none"]

(***************************************************************************)
(* async_apply_updates.                                                    *)
(***************************************************************************)

\* apt-get update; a lock on the package lists, of another task's process or of
\* the server's own timers, is not waited for.
SendLists(t) ==
    /\ pc[t] = "lists"
    /\ ssh[t] = "none"
    /\ \/ FailAtOnce(t, "error")
       \/ ~ListsLocked /\ Start(t, "lists") /\ UNCHANGED plan
    /\ UNCHANGED <<client, system, view, touched, clean>>

AfterLists(o) ==
    /\ pc[o] = "lists"
    /\ ssh[o] = "ok"
    /\ Proceed(o, "upgrade")
    /\ UNCHANGED <<load, busy, owner, retried, bare, server, view, report, attempts, clean>>

\* Mutant of Planned: versions the package lists do not name are installed.
PlannedUnlisted == MaxVersion
\* What dist-upgrade downloads and installs: what the lists name.
Planned == lists

\* apt-get dist-upgrade: sudo may refuse the environment it is called with,
\* and another dpkg may hold the lock; else it downloads what the lists name.
SendUpgrade(o) ==
    /\ pc[o] = "upgrade"
    /\ ssh[o] = "none"
    /\ \/ /\ o \notin bare
          /\ FailAtOnce(o, "environment")
          /\ UNCHANGED attempts
       \/ /\ \/ FailAtOnce(o, "error")
             \/ ~DpkgLocked /\ Start(o, "fetch") /\ plan' = [plan EXCEPT ![o] = Planned]
          /\ attempts' = [attempts EXCEPT ![o] = @ + 1]
    /\ UNCHANGED <<load, busy, owner, pc, retried, bare, report, system, view,
                   touched, clean>>

\* _env_rejected: it is run without the environment from now on.
UpgradeWithoutEnvironment(o) ==
    /\ pc[o] = "upgrade"
    /\ ssh[o] = "environment"
    /\ bare' = bare \cup {o}
    /\ Proceed(o, "upgrade")
    /\ UNCHANGED <<load, busy, owner, retried, server, view, report, attempts, clean>>

\* Mutant of IsFetchFailure: a failed upgrade counts as a failed download.
AnyFailure(outcome) == outcome \in {"fetch", "error"}
\* _is_fetch_failure, of the outcome of dist-upgrade
IsFetchFailure(outcome) == outcome = "fetch"

WaitForMirror(o) ==
    /\ pc[o] = "upgrade"
    /\ IsFetchFailure(ssh[o])
    /\ o \notin retried
    /\ Proceed(o, "delay")
    /\ UNCHANGED <<load, busy, owner, retried, bare, server, view, report, attempts, clean>>

\* Mutant of CountRetry: the upgrade is retried as long as downloads fail.
RetryAlways(o) == UNCHANGED retried
CountRetry(o) == retried' = retried \cup {o}

\* APT_FETCH_RETRY_DELAY is over: the lists are fetched again.
RetryUpgrade(o) ==
    /\ pc[o] = "delay"
    /\ Goto(o, "lists")
    /\ CountRetry(o)
    /\ UNCHANGED <<load, busy, owner, bare, ssh, server, view, report, attempts, clean>>

\* A command of the upgrade failed for good.
FailUpgrade(o) ==
    /\ \/ /\ pc[o] \in {"lists", "upgrade"}
          /\ ssh[o] = "raised"
          /\ End(o, "error")
       \/ /\ pc[o] = "lists"
          /\ ssh[o] = "error"
          /\ End(o, "error")
       \/ /\ pc[o] = "upgrade"
          /\ ssh[o] \in {"fetch", "error"}
          /\ IsFetchFailure(ssh[o]) => o \in retried
          /\ End(o, IF IsFetchFailure(ssh[o]) THEN "fetch" ELSE "error")
    /\ UNCHANGED <<load, owner, server, view, attempts, clean>>

\* Mutant of Upgraded: the second upgrade's exit status is not looked at.
RetriedIsUpgraded(o) == ssh[o] = "ok" \/ (ssh[o] = "fetch" /\ o \in retried)
Upgraded(o) == ssh[o] = "ok"

\* Mutant of FinishUpgrade: the gate is left before the reboot.
FinishUpgradeUngated(o) ==
    /\ pc[o] = "upgrade"
    /\ Upgraded(o)
    /\ IF o \in Maintenances
       THEN /\ Proceed(o, "reboot")
            /\ busy' = [busy EXCEPT ![owner[o]] = FALSE]
            /\ UNCHANGED <<report, retried, bare>>
       ELSE End(o, "ok")
    /\ UNCHANGED <<load, owner, server, view, attempts, clean>>

FinishUpgrade(o) ==
    /\ pc[o] = "upgrade"
    /\ Upgraded(o)
    /\ IF o \in Maintenances
       THEN Proceed(o, "reboot") /\ UNCHANGED <<busy, report, retried, bare>>
       ELSE End(o, "ok")
    /\ UNCHANGED <<load, owner, server, view, attempts, clean>>

(***************************************************************************)
(* async_reboot.                                                           *)
(***************************************************************************)

\* The command takes effect, or not; its exit status is not looked at.  It
\* returns before the server is down, and so does the operation, mostly.
SendReboot(o) ==
    /\ pc[o] = "reboot"
    /\ ssh[o] = "none"
    /\ ssh' = [ssh EXCEPT ![o] = "ok"]
    /\ stopping' \in {stopping, TRUE}
    /\ UNCHANGED <<client, proc, plan, lists, installed, booted, outdated, view,
                   touched, clean>>

FinishReboot(o) ==
    /\ pc[o] = "reboot"
    /\ ssh[o] \in {"ok", "raised"}
    /\ End(o, "ok")
    /\ UNCHANGED <<load, owner, server, view, attempts, clean>>

\* Only a connection that cannot be opened makes the operation fail.
FailToConnect(o) ==
    /\ o \in Reboots
    /\ pc[o] = "reboot"
    /\ ssh[o] = "none"
    /\ End(o, "error")
    /\ UNCHANGED <<load, owner, server, view, attempts, clean>>

(***************************************************************************)
(* async_check_updates.                                                    *)
(***************************************************************************)
StartCheck(c) ==
    /\ pc[c] = "new"
    /\ Goto(c, IF RefreshCache THEN "lists" ELSE "packages")
    /\ clean' = IF RefreshCache THEN clean ELSE clean \cup {c}
    /\ UNCHANGED <<load, busy, owner, retried, bare, ssh, server, view, report, attempts>>

\* Whatever the exit status of apt-get update, the check goes on.
CheckAfterLists(c) ==
    /\ pc[c] = "lists"
    /\ ssh[c] \in {"ok", "error"}
    /\ Proceed(c, "packages")
    /\ clean' = clean \cup {c}
    /\ UNCHANGED <<load, busy, owner, retried, bare, server, view, report, attempts>>

\* What each part of a check reads, and what follows it.
Shown(part) ==
    CASE part = "kernels" -> NewerKernel(Kernel(booted, 0), Kernels)
      [] OTHER -> Truth[part]
After(part) ==
    CASE part = "packages" -> "marker" [] part = "marker" -> "kernels"
      [] part = "kernels" -> "services" [] part = "services" -> "apply"

\* One command of the check.  One that fails without an exception shows nothing.
Read(c) ==
    /\ pc[c] \in Parts
    /\ ssh[c] = "none"
    /\ LET part == pc[c] IN
       /\ \/ /\ view' = [view EXCEPT ![c][part] = Shown(part)]
             /\ UNCHANGED clean
          \/ /\ view' = [view EXCEPT ![c][part] = Nothing[part]]
             /\ clean' = clean \ {c}
       /\ Goto(c, After(part))
    /\ UNCHANGED <<load, busy, owner, retried, bare, report, attempts, ssh, server>>

\* The reading becomes the coordinator's data.
FinishCheck(c) ==
    /\ pc[c] = "apply"
    /\ Goto(c, "done")
    /\ report' = [report EXCEPT ![c] = "ok"]
    /\ UNCHANGED <<load, busy, owner, retried, bare, attempts, ssh, server, view, clean>>

FailCheck(c) ==
    /\ pc[c] \in Parts \cup {"lists"}
    /\ ssh[c] = "raised"
    /\ Goto(c, "done")
    /\ report' = [report EXCEPT ![c] = "error"]
    /\ ssh' = [ssh EXCEPT ![c] = "none"]
    /\ UNCHANGED <<load, busy, owner, retried, bare, attempts, server, view, clean>>

(***************************************************************************)
(* The specification.                                                      *)
(***************************************************************************)
Init ==
    /\ load = 0
    /\ busy = [l \in Loads |-> FALSE]
    /\ owner = [o \in Ops |-> 0]
    /\ pc = [t \in Tasks |-> "new"]
    /\ retried = {} /\ bare = {} /\ touched = {} /\ clean = {}
    /\ ssh = [t \in Tasks |-> "none"]
    /\ proc = [t \in Tasks |-> "none"]
    /\ plan = [o \in Ops |-> 0]
    /\ lists = 0 /\ installed = 0 /\ booted = 0
    /\ outdated = FALSE /\ stopping = FALSE
    /\ view = [c \in Checks |-> Nothing]
    /\ report = [t \in Tasks |-> "none"]
    /\ attempts = [o \in Ops |-> 0]

\* What an operation does once it has begun.
Work(o) ==
    \/ SendLists(o) \/ AfterLists(o) \/ SendUpgrade(o)
    \/ UpgradeWithoutEnvironment(o) \/ WaitForMirror(o) \/ RetryUpgrade(o)
    \/ FailUpgrade(o) \/ FinishUpgrade(o)
    \/ SendReboot(o) \/ FinishReboot(o) \/ FailToConnect(o)

Check(c) ==
    \/ StartCheck(c) \/ SendLists(c) \/ CheckAfterLists(c)
    \/ Read(c) \/ FinishCheck(c) \/ FailCheck(c)

Environment ==
    \/ \E t \in Tasks : EndLists(t) \/ EndFetch(t) \/ EndInstall(t) \/ Break(t)
    \/ OthersReboot \/ GoDown \/ Reload

Next ==
    \/ \E o \in Ops : Refuse(o) \/ Begin(o) \/ Work(o)
    \/ \E c \in Checks : Check(c)
    \/ \E t \in Tasks : Timeout(t)
    \/ Environment

Spec == Init /\ [][Next]_vars

\* Every command is given up after a time limit, and what the event loop can
\* run it runs; nothing is assumed of apt, of the connection or of the server.
Fairness == \A o \in Ops : WF_vars(Work(o)) /\ WF_vars(Timeout(o))
FairSpec == Spec /\ Fairness

(***************************************************************************)
(* Properties.                                                             *)
(***************************************************************************)
TypeOK ==
    /\ load \in Loads
    /\ busy \in [Loads -> BOOLEAN]
    /\ owner \in [Ops -> Loads]
    /\ pc \in [Tasks -> {"new", "done"} \cup Working \cup Reading]
    /\ retried \subseteq Ops /\ bare \subseteq Ops /\ touched \subseteq Ops
    /\ clean \subseteq Checks
    /\ ssh \in [Tasks -> {"none", "waiting", "ok", "error", "fetch", "environment", "raised"}]
    /\ proc \in [Tasks -> {"none", "lists", "fetch", "install"}]
    /\ plan \in [Ops -> Versions]
    /\ {lists, installed, booted} \subseteq Versions
    /\ booted <= installed /\ installed <= lists
    /\ outdated \in BOOLEAN /\ stopping \in BOOLEAN
    /\ view \in [Checks -> [Parts -> BOOLEAN]]
    /\ report \in [Tasks -> {"none", "refused", "ok", "error", "fetch"}]
    /\ attempts \in [Ops -> Nat]

\* Every load's flag is up exactly while one operation that was called on its
\* coordinator works, and no two of them work at a time, though operations of
\* an earlier load go on beside them (coordinator.py: _async_busy).
GatePerLoad ==
    \A l \in Loads :
        /\ busy[l] <=> Holders(l) # {}
        /\ \A o, p \in Holders(l) : o = p

\* The operations of a load take turns, as OperationGate allows: one that began
\* on its coordinator starts when no other works, ends once, and never comes
\* back, whatever those of other loads do (coordinator.py: _async_busy).
LoadStatus(l) ==
    [o \in Ops |-> IF pc[o] = "new" \/ owner[o] # l THEN "idle"
                   ELSE IF pc[o] \in Working THEN "working" ELSE "over"]
GateOf(l) == INSTANCE OperationGate WITH status <- LoadStatus(l)
LoadsTakeTurns == [][\A l \in Loads : [GateOf(l)!Next]_(LoadStatus(l))]_vars

\* An upgrade that is reported as done has installed what the lists named when
\* it ran dist-upgrade, on the first attempt or on the second, with the
\* environment or without it (ssh_client.py: async_apply_updates).
ReportedInstalled ==
    \A o \in Upgrades \cup Maintenances :
        report[o] = "ok" => o \in touched /\ plan[o] <= installed

\* "Es wurde nichts installiert": an upgrade that says so never began to
\* install anything, on neither attempt (ssh_client.py: async_apply_updates).
NothingInstalled ==
    \A o \in Ops : report[o] = "fetch" => o \notin touched

\* apt-get dist-upgrade runs at most twice for one operation, whatever sudo
\* makes of its environment (ssh_client.py: async_apply_updates).
AttemptsBounded == \A o \in Ops : attempts[o] <= 2

\* A reboot command is never sent while an installation that was called on the
\* same coordinator is waited for, nor while the installation it follows still
\* runs.  It may end one that was given up at its time limit, one of an earlier
\* load of the entry, and one that begins before the server is down
\* (coordinator.py: _async_busy is left as soon as the command is sent).
NoRebootSentDuringInstall ==
    [][\A p \in Ops : SendReboot(p) =>
        \A o \in Ops : (o = p \/ (owner[o] = owner[p] /\ ssh[o] = "waiting"))
                        => proc[o] # "install"]_vars

\* A check no command of which failed, and during which neither the packages
\* nor the running system changed, shows the server as it is: the updates that
\* are pending and what needs a restart (ssh_client.py: async_check_updates).
CompleteCheckIsExact ==
    [][\A c \in Checks \cap clean : FinishCheck(c) => view[c] = Truth]_vars

\* A check like that shows that a reboot is required when one would make a
\* difference (ssh_client.py: any_reboot_required, _newest_kernel).
RebootsAreShown ==
    [][\A c \in Checks \cap clean :
        FinishCheck(c) /\ NeedsReboot => RebootRequired(view[c])]_vars

\* A check that shows that a reboot is required shows what is so: a reboot
\* would make a difference (ssh_client.py: any_reboot_required, _newest_kernel).
AlarmsAreReal ==
    [][\A c \in Checks \cap clean :
        FinishCheck(c) /\ RebootRequired(view[c]) => NeedsReboot]_vars

\* An operation that has begun ends, whatever hangs on the server, and the flag
\* of its load is free again (ssh_client.py: the time limits of _run).
UpgradeEnds == \A o \in Ops : pc[o] \in Working ~> pc[o] = "done"
=============================================================================
