# A TLA+ model of Server Updater

Server Updater is a Home Assistant integration that keeps Debian, Ubuntu and
Proxmox VE servers up to date over SSH. This directory holds TLA+ modules that
model its core, the TLC configurations that check them on small instances, and
proofs, checked by TLAPS, that the most important properties hold for every
value of the constants.

Paths like `coordinator.py:251` are under `src/custom_components/server_updater/`.

## The system

All of the integration's code runs in Home Assistant's event loop: code between
two `await`s is atomic, and at an `await` anything else may run. There is no
lock; what keeps tasks apart are flags that are tested and set between awaits.

| Part | State it keeps | Operations | Where it is hard |
|---|---|---|---|
| Server coordinator (`coordinator.py`), one per server | `busy`, `rebooting`, the handle of the delayed check, the deadline and the boot time of the reboot watch; `data` and `last_update_success` of the last refresh | apply updates (with or without reboot), reboot, restart services, refresh, check after a reboot | operations, refreshes and checks overlap; delayed checks; a server that is away; the stale boot time |
| Repair flow (`repairs.py`) | the issue in the issue registry | confirm: reboot | the issue is deleted by Home Assistant and created by refreshes |
| Entry (`__init__.py`) | `hass.data[DOMAIN]` | setup, unload, remove, reload | tasks that outlive the entry |
| Container coordinator (`docker_coordinator.py`, `docker_registry.py`) | the inventory, a status object per container, `scanning` | rescan, install, restart/stop/start, prune, poll, registry check | the inventory is changed between the awaits of several tasks that iterate over it; the registry answers a question that may be out of date |
| Container entities (`entity.py`, `update.py`, `button.py`, `switch.py`) | the names each platform has entities for | sync with the inventory | partial failures of a rescan |
| Maintenance action (`services.py`) | the report of each server | one pass over the selected servers | an error on one server, an entry that goes away meanwhile |
| SSH client (`ssh_client.py`) | one connection per operation | connect, check, apt, reboot, systemctl, docker | timeouts that stop waiting but not the command, commands that fail |
| Config flow (`config_flow.py`) | the form's data, the offered host key | add, reconfigure, reauth, options | what a form has read of its entry is changed, or a host key pinned, while it waits for its connection test |
| Reporting (`reporting.py`), sensors, constants | none of their own | | |

The user (buttons, update entity, repair flow) and automations (the maintenance
action) call operations of the coordinators; an operation opens an SSH session,
runs commands, and refreshes the coordinator's data or starts the reboot watch;
a poll refreshes them periodically. Entities and the repair issue are views of
the data.

## The modules

### ServerCoordinator, the core

Models one `ServerUpdaterCoordinator`, the repair flow that calls it, and the
unloading of its entry. Every call of an operation is a task in `Ops`, which
runs once; the periodic poll is the task `Poll`. `pc` says at which await a
task is, and an action is what the code does up to the next one.

| Model | Code |
|---|---|
| `Begin`, `Refuse`, `Release` | entering and leaving `_async_busy`, and the early errors of `async_restart_services` |
| `Upgrade`, `RestartServices`, `SendReboot` | the commands an operation runs over its SSH session, by their effect on the server |
| `Fail` | an exception in one of them |
| `FinishWithRefresh`, `FinishWithWatch` | what follows the operation: a refresh, or the start of the reboot watch (`StartWatch`) |
| `StartPoll`, `ReadServer`, `FailToRead`, `EndRefresh` | a refresh: `_async_update_data` with `async_check_updates`, and what `DataUpdateCoordinator` does with its result |
| `Schedule`, `Fire`, `CheckAgain`, `Conclude` | `_async_schedule_reboot_check`, its callback, and the two ends of `_async_check_reboot` |
| `Unload` | `async_unload_entry` with the callbacks of `async_on_unload` |
| `StopServer`, `GoDown`, `BootServer`, `ServerChanges` | the server, which others reboot and update as well |
| `Tick` | a minute passes; a check that is due starts first |

A reboot task goes on after its operation as the owner of the watch it started
(`waiting` for the timer, `checking` while the refresh of the check runs), which
is how two chains of checks can be told apart. `timer` is the one handle the
coordinator keeps, as the time that is left; `left` is the time until the
deadline. `outcome`, `verdict`, `orderedAt`, `crossed` and `dismissed` (a repair
flow was finished since the last successful reading) are history variables: no
action's guard reads them.

What is abstracted, and why that is sound for the properties:

- The data are reduced to the boot time, what the server waits for (a set of
  `services` that may be restarted and a `reboot`, from any of its three
  sources, both of which may be there at once), and whether a guest with autostart is stopped. A boot time is the
  number of the boot. A part of a reading that fails shows as unknown or as
  nothing to report, as in `async_check_updates` (`Seen`).
- A session cannot outlive the boot it was opened in: a server that goes down
  makes the reads under way fail (`GoDown`), and keeps what has been read.
- An upgrade may or may not leave services or a reboot to do; a failed command
  may or may not have had its effect (`Fail` after or instead of the command).
- The refresh at the end of an update goes through Home Assistant's debouncer;
  it is modelled as one that starts at once and takes any time.
- A recent Home Assistant cancels a poll when the entry is unloaded and an
  older one does not: `Unload` allows both. A refresh that starts on an
  unloaded coordinator does nothing; one that is running ends as usual.
- The escape of exceptions other than `ServerUpdaterError` is not modelled here.
- One load of the entry, and no command by itself: `PackageUpgrade` has those.

### OperationGate

What a busy gate promises: operations take turns, each works at most once, and
one that has started ends. `ServerCoordinator` implements it under the
refinement mapping of `Gate`, which shows a task as idle, working (exactly
where the code is inside `async with self._async_busy()`), or over. In
`PackageUpgrade` every load of the entry has a gate of its own, `GateOf(l)`, in
whose mapping the operations of other loads are idle.

### ContainerInventory

Models one `ContainerCoordinator` and the platforms that follow its inventory.
A task is a call of a rescan, of an install (which goes on as a rescan), or of a
start, stop or restart of a container; the poll is one more. There is no gate
here: the tasks overlap freely, and only flags on the status objects and on the
coordinator tell the entities to be unavailable. A status object is known by its
container's name and the task that created it (`born`), so that a task which
resets the flag of an object that has left the inventory can be told from one
whose object is still there.

| Model | Code |
|---|---|
| `BeginRescan`, `ListContainers`, `ApplyList`, `AddContainer`, `ReadStates` | `async_rescan` up to the end of its connection, split at its awaits |
| `StartChecks`, `CheckNext`, `EndChecks`, `Break` | `_async_check_all`: the iteration over the dict with an await at every status, and the `RuntimeError` of a dict that changed (`Disturbed`) |
| `Publish`, `Sync` | what follows without an await: `tracked`, the inventory listeners (`_sync` of `entity.py`), `async_set_updated_data`, the `finally` |
| `FailScan`, `ResetScan` | a `ServerUpdaterError` during the scan |
| `BeginInstall`, `Recreate`, `EndInstall`, `FailInstall` | `async_install_update` |
| `Usable`, `BeginAction`, `Act`, `FailAction`, `EndAction` | `async_container_action` from the switch or the restart button |
| `StartPoll`, `PollChecked`, `EndPoll` | `_async_update_data` |

Every container carries Compose labels, so that each turn of the loop over the
discovered containers has an await. Of a registry's answer only whether there was
one is kept, of a state only whether it is known. A `docker ps` that fails and
a `docker inspect` that fails without an exception are one outcome,
`unlisted`: both look like a server without containers. Python raises the
`RuntimeError` when the number of items differs at a step of the iteration;
`Disturbed` says so, or says that the iteration would go past the number of items
it began with. When an equal number of items has been removed and added, any of
them may come next, which is more than a dict of CPython does.

### Maintenance

Models one call of `run_maintenance`. Each action is what `_async_maintain` does
up to its next await; `FirstRefresh` and `Decide`, for example, are a refresh
together with the decision on its result and the entering of the busy gate,
because nothing can come between them. Users, polls, reloads of entries and
other calls of the action are the others: they hold the gate (`OthersOperate`),
change the data (`OthersRefresh`), unload and load entries. What a server needs
may change at any time, so a refresh may read anything; this includes all that
`ServerCoordinator` and other passes can do to it. `orphan` says that the entry
was unloaded after the pass had looked up its coordinators: refreshes that
the pass starts then do nothing and keep the old result, while one that is
under way still stores what it reads, and another pass that holds the same
coordinator may still enter its gate. The entries are resolved and the first
of them is looked up without an await, so nothing is unloaded before the
pass has begun with its first server.

The order in which the servers come is left open, which includes the order of
`hass.data`.

### PackageUpgrade and KernelReleases

Takes an operation of `ServerCoordinator` apart into the commands that
`ssh_client.py` sends, and puts the server's side beside them. A command is a
process on the server (`proc`) and, as long as the integration waits for it, an
SSH channel (`ssh`): the time limit of `_run` ends the wait, and the process may
go on, hold its lock and install packages (`Timeout`, `EndFetch`, `EndInstall`).
A reboot command returns, and the gate is free again, while the server is still
shutting down (`stopping`); it goes down some time later (`GoDown`), with
whatever was begun meanwhile. The entry may be reloaded, which gives it another coordinator with a busy flag of
its own, while operations of the one before go on (`load`, `owner`).

| Model | Code |
|---|---|
| `SendLists`, `AfterLists`, `SendUpgrade`, `UpgradeWithoutEnvironment` | `_async_apt_update`, `_async_dist_upgrade` with `_env_rejected` |
| `WaitForMirror`, `RetryUpgrade`, `FailUpgrade`, `FinishUpgrade` | the retry of `async_apply_updates`, its errors and its end |
| `SendReboot`, `FinishReboot`, `FailToConnect` | `async_reboot`, which looks at no exit status |
| `StartCheck`, `CheckAfterLists`, `Read`, `FinishCheck`, `FailCheck` | `async_check_updates`, one command after another |
| `Break`, `Timeout`, `Proceed` | `_run`: connections that break, time limits, answers |
| `Refuse`, `Begin`, `End`, `Reload` | `_async_busy` of the current load |
| `EndLists`, `EndFetch`, `EndInstall`, `GoDown`, `OthersReboot` | apt, dpkg and the server (external) |

Versions are numbers: every version that is published brings new packages and a
kernel of each of two flavors; `Numeric` is the set of versions whose kernels are
named in the scheme of digits that `ssh_client.py` knows. A command of a check that fails without an
exception shows nothing, as in the code. `KernelReleases` is the decision of
`_newest_kernel`, with a release reduced to its version, its flavor and whether
its name is in the scheme that `_KERNEL_FLAVOR_RE` recognises; `PackageUpgrade`
uses it for the kernels part of a reading, and `CompleteCheckIsExact` compares the
outcome with the kernel a reboot would really start.

### EntryConfig

Models the config entries and all that writes them: the three forms of
`config_flow.py` (new server, reconfigure, reauth), the options flow, the
connections that pin the host key of an entry without one
(`_async_pin_host_key`), and the setup, unload and reloads of an entry. A form
reads its entry when it is submitted and stores what it has seen two awaits
later; a connection keeps what `build_connection` read. In between, others write.

| Model | Code |
|---|---|
| `Open`, `Abandon`, `AbortNew` | a flow starts, is closed, or ends because the server is configured already |
| `Submit`, `ConnectTest`, `FetchKey`, `FailTest` | a form up to the end of `_async_validate`, split at its awaits |
| `Taken`, `Claimed`, `Required`, `Offer` | `_unique_id_taken`, `async_set_unique_id`, the key a test must see, the key whose fingerprint is shown |
| `Store` | `async_update_reload_and_abort`, `async_create_entry` |
| `ChangeOptions`, `Notify` | the options flow; `_async_update_listener`, or `OptionsFlowWithReload` of a newer Home Assistant |
| `StartSetup`, `FinishSetup`, `Unload` | `async_setup_entry`, `async_unload_entry` |
| `StartPoll`, `Reach`, `Miss`, `Reject` | a connection of the coordinator, `_connect`, `ConfigEntryAuthFailed` |
| `Rekey` | a server changes its host key (external) |

A login is a host, with its port, and a user; it is what the unique id is made
of, and users of one host are shown the same host key. The form of a
reauthentication has the user but not the host. Credentials play no part.
A connection may pin the key and fail after it (`Reach`). `origin`, `crossed` and `missed` are history variables.

### ImageUpdates

Models one container's image from the registry to the update entity: a tag that
its publisher moves on and back, the image the server has pulled for it, the
container that runs, and the digests and the status the coordinator keeps. The
poll, rescans and installs ask the registry with the digest that is stored when
they begin to, and apply the answer when it comes. What a rescan has inspected is
stored after the compose files were looked for, and asked about after the states
were read and the connection closed; another rescan may store what it had read
earlier at any point between (`found`, `known`, `asked`). `calm` and `trusted`
are history variables: which checks nothing has overtaken, and whether the
status comes from one of them.

| Model | Code |
|---|---|
| `BeginCheck`, `Query`, `QueryFails`, `ApplyAnswer`, `Result`, `SameImage` | `async_check_for_update`, `async_get_remote_digest`, `_async_get_bearer_token`, and `_async_check_all` for this container |
| `Inspect`, `Store`, `Ask`, `LocalDigest` | `_async_inspect_docker_image`, the loop over the discovered containers in `async_rescan`, and its way from there to `_async_check_all` |
| `BeginInstall`, `Pull`, `Up`, `FailInstall`, `Prune` | `async_install_update`, `async_apply_compose_update`, `async_prune_images` |
| `Offer` | `installed_version` and `latest_version` of `ContainerUpdateEntity` |
| `Push` | the publisher (external) |

The kinds of image are chosen in `Init`: of one platform or of several, stored by
docker under the list's digest or under the platform's, on Docker Hub or not,
pinned or not, pulled or built on the server.

## What the runs show

All runs have `CHECK_DEADLOCK FALSE`: calls of operations run once in an
instance, and a system in which all have ended and the entry is unloaded does
stop.

| Run | Question | Answer |
|---|---|---|
| `gate` | Can two operations work on a server at once, can the busy flag be lost or left behind, does the repair issue follow the data? (2 operations of 3 kinds, a poll, an unload, packages that need a reboot or a restart of services) | holds |
| `watch` | Is a reboot watch ever lost or doubled, does it tell a server that has booted from one that has not, does every reboot get a verdict, in time, does every watch end, and does the coordinator implement the abstract gate with its progress? (2 maintenance reboots, 2 boots, a first check after 2 minutes, then every minute, deadline 3) | holds |
| `flags` | Does a flag of a container or of the scan outlive its task? (1 container; rescan, install, start and stop all at once, and the poll) | holds |
| `rescan` | Do the entities end up as the inventory, and is a stopped container kept? (2 containers that others change once; a rescan, an install and the poll) | holds |
| `maintenance` | Does a pass serve every server, decide on fresh data, reboot as asked, and end? (2 servers, all options, up to 2 containers each) | holds |
| `packages` | Is what an update reports what happened on the server, is a reboot ever sent while an installation is waited for, do the operations of each load take turns, does a check show the server as it is, and does everything end? (a maintenance update, a reboot and a check, one reload of the entry, 2 versions) | holds |
| `entries` | Can a host key end up at another server or be replaced unseen, a server be configured twice, an option be lost? (2 entries, 2 servers, 2 keys, 2 forms, a connection, a change of the options) | holds |
| `images` | Can an offer or an all-clear be relied on, and does an install settle it? (2 digests of every kind, an install, a rescan, the poll) | holds |
| `stale_baseline` | Does a success mean that the server rebooted? | no |
| `crossed_watch` | Is a server shown as rebooting as long as a reboot is watched? | no, if a reboot is ordered during a check |
| `wiped` | Are only the entities of containers removed that are gone? | no |
| `others_go_on` | Does a failure on one server leave the others alone? | no, if its entry is unloaded |

The bounds are the smallest with which every action and every order of two tasks
happens: two operations are enough for one to take over the watch of another
and for one to be refused; a deadline of 3 with a first check at 2 allows a
repeated check before and after it; two boots allow a server to reboot or not
between any two steps of a watch; two loads of an entry,
with two operations, allow one of the old load to run beside one of the new; two
versions allow a publication between any two commands; two forms and a connection
allow each writer of an entry to come between the reading and the storing of
another; two digests let a tag move on and back.

`watch` has a server without guests, and `BootTestExact` says more of one with
guests: that part is covered by its theorem. `gate` uses symmetry of `Ops`, and has a
server that stays up, which the other runs of its module do not; `rescan` and `wiped` use
symmetry of `Names`, `entries` of its entries, hosts, keys and forms. The latter
has one user, so that a login is a host: that the form of a reauthentication,
which may change the user, cannot take the login of another entry is covered by
the theorem `ServersUnique`. `flags` has one
container, so that its iterations are disturbed by that one only; the theorems hold
for any number. The runs with liveness use no symmetry.

### Findings

- **The boot time a reboot is judged by may be an old one** (`stale_baseline`).
  `_async_start_reboot_watch` takes `data.boot_time` of the last refresh. After a
  reboot by other means, and before the next poll, that is the time of an earlier
  boot, and a reboot command that the server ignores passes as a success.
- **A reboot ordered during a check of the watch is not shown** (`crossed_watch`).
  The check awaits its refresh; the reboot sets `rebooting` and a deadline of its
  own, which the end of the check resets. The server is not shown as rebooting
  then, and the later watch gives up at its first check if the server is not back
  by then.
- **A failed `docker ps` or `docker inspect` removes every container's entities**
  (`wiped`), since it counts as an empty list.
- **An entry that is unloaded during a maintenance call ends the call**
  (`others_go_on`) with a `KeyError`, when its turn comes.

### Known limits

What the code does, no document we found denies except where it is said, and the
properties therefore except:

- The case of `crossed_watch`, in `NoStrayCheck` and `VerdictTimely`.
- A refresh of an operation that is reading the server while the entry is unloaded
  creates the repair issue again (`IssueTracksData` is about a loaded entry).
- An upgrade that was given up at its time limit goes on, and a reboot, or an
  operation of a coordinator that a reload has replaced, may interrupt it. So may
  a reboot an update that begins after the command and before the server is down:
  `_async_busy` does not look at `rebooting` (`NoRebootSentDuringInstall`).
- A newer kernel in another scheme of names does not count: after an upgrade from
  Debian 12 to 13, `6.1.0-28-amd64` runs and `6.12.41+deb13-amd64` is installed.
  `_kernel_flavor` knows only names of the form `<version>-<number>-<flavor>`; the
  new kernel has no flavor, is no candidate, and no reboot is shown as required.
  Where no kernel has such a name, as on Debian 13 or Raspberry Pi OS, those of all
  flavors are candidates, the last name in the order wins, and a reboot may be
  shown that no reboot fulfils. Here the documents do say otherwise: src/README.md:88-92
  and the docstring of `_newest_kernel` (ssh_client.py:913-914). `RebootsAreShown`
  and `AlarmsAreReal` say what they promise; `NoRebootIsMissed` and
  `NumericAlarmsAreReal` prove it under the names it is true for, and `packages`
  has numeric names only.
- A part of a check that fails without an exception counts as nothing to report:
  a watch may succeed while the guests could not be listed (`BootTestExact`,
  `CompleteCheckIsExact`).
- A rescan that ends resets `scanning` while another may still run, and one that
  meets a change of the inventory ends with a `RuntimeError`, after which the
  entities are behind until the next one (`EntitiesFollow`).
- Two forms that are validated at a time may both store the same server
  (`crossed` in `UniqueServers`).
- Options that change during the setup of an entry take effect at its next reload
  only, before Home Assistant had `OptionsFlowWithReload` (`missed` in
  `OptionsInEffect`).
- The digest a registry shows is compared with that of the image the tag has on
  the server, not with that of the container: after an install that failed
  between the pull and the start, the entity shows an all-clear while the
  container runs the image of before (`halfway` in `AllClearIsTrue`). It does so
  between pull and start as well, when two installs of one container overlap: the
  end of the first takes back `installing`, which is one flag, while the second
  goes on.
- A rescan that read the image before a pull may store its digest after the rescan
  that followed the pull, and before that one asks the registry. The status then
  says something about an image that is no longer there, until the next rescan
  (`calm` in `AllClearIsTrue`, `OfferIsReal`, `InstallSettles`).
- An image that docker knows by several digests of one repository is compared by
  the first of them, which need not be the newest: it may stay on offer although
  it is up to date (`OfferIsReal`, `InstallSettles`).

## Fairness

Only liveness uses fairness, and only weak fairness of what the program and the
event loop do by themselves: every SSH command, every connection and every
registry query has a timeout (`const.py:31-48`), so a task that waits for one goes
on; a timer of the event loop fires. Nothing is assumed of users, of polls, of
the server's boots, or of others who change it: `WatchEnds` holds for a server
that never comes back. In `ContainerInventory` it is one condition on all calls
together, since every chain of steps of a call is finite. In `Maintenance` it is
on the pass. In `PackageUpgrade` it is on the steps of each operation and on its
time limit, and on nothing that happens on the server: `UpgradeEnds` holds for an
apt that hangs.

## What is proved

TLAPS checks these for every value of the constants that satisfies their
assumptions: any set of operations, any delays with `RefreshDelay <=
WatchTimeout`, any number of boots; any set of servers, any bound on containers;
and so on for each module below.

`ServerCoordinatorProofs`:

- `Typing`: `TypeOK`, together with `BootLeft`, that a server which is going down
  has a boot left, without which the bound on boots would not be inductive.
- `GateHolds`: `GateExclusive` is inductive as it stands. Lemmas say which steps do
  not touch the gate and what entering and leaving it do to `Holders`.
- `GateImplemented`: every step of the coordinator is a step of `OperationGate` or
  a stutter under the mapping `Gate`; from `GateExclusive`, since `Start` needs
  that no task works.
- `WatchHolds`, and from it `TimerIsOwned`, `WatchIsKept` and `NoCheckStrays`: the
  three are inductive only together, with `Timely`, which bounds the deadline
  from above by what is left until the next check. A check that is scheduled
  again keeps its watch single only if there was one owner before, and the
  watch is kept only because each cancelled check is replaced.
- `VerdictsAreTimely`: an action property, from the same invariant.

`RebootProofs`, which builds on them:

- `BootTestHolds`: what was read of a server cannot be of a later boot than it
  has (`BootsKnown`: the data and every open session). Without it a session that
  was read before a boot might carry a boot time from the future.
- `RebootsAreAnswered`: from `WatchOwners`, that only a reboot which went through
  has a watch. A task leaves its watch with a verdict, with the entry, or in the
  step of a reboot that starts waiting; the lemmas go through the steps that move
  an owner of a watch.
- `IssueFollowsData`: the end of a successful refresh sets data and issue together
  and ends the dismissal (`ApplyIssue`); a finished repair takes the issue away and
  is a dismissal; no other step of a loaded entry touches either.

`MaintenanceProofs`:

- `PassTyping`, from `TypeOK`, `Turned` and `Listed`: a result is only noted for a
  server that has one, and an install is made of a list that is not empty.
- `EveryServerServed`: from `Turned`, which ties the results to the servers that
  are still to do. `Turn` and `Finish` are the only steps that disturb it.
- `RebootsHold`: `RebootsAsAsked` speaks of the servers the pass has left.
  `RebootInv` adds what the result of the server at hand may be at each point
  (`Underway`): untouched by an error or a reboot, and at the reboot command, or
  at the restart of services, in agreement with the option.
- `DecisionsAreFresh`: an action property that needs no invariant, since the
  decision follows its refresh without an await.

`PackageUpgradeProofs`, for any operations and checks, any number of reloads and
of versions:

- `PackageTyping`: the types are inductive only with `DpkgExclusive` (one
  dist-upgrade at a time, of a version between the installed one and the lists')
  and `Placed` (where the process of an operation can be met): a late end of an
  upgrade must not take the installed version back.
- `LoadsAreGated`: `GatePerLoad`, inductive with the types.
- `RebootsAwaitInstalls`: from `LoadsAreGated` and `Placed`: an operation whose
  process is waited for holds the gate of its load.
- `ReportsAreTrue`, `NothingMeansNothing`: from `Touched` and `Installed`, which say
  what an operation that has begun to install can still come to.
- `TwoAttempts`: from `Counted`, which bounds the attempts at each point of the
  retry.
- `GatesImplemented` and `LoadsDoTakeTurns`: every step is one of `OperationGate` or a
  stutter for every load, from `LoadsAreGated`. The first is the refinement, for
  each load by itself; the second the form of it that TLC checks, for all at
  once.
- `CompleteChecksAreExact`: from `ShownSoFar`, that a check which is still clean has
  shown what is so in every part it has read. Its kernels part needs
  `NewestIsInstalled`: every version brings a kernel of the running flavor, so that
  the newest of the candidates is named, without an induction over finite sets.
- `NoRebootIsMissed` and `NumericAlarmsAreReal`: the two halves of what such a check
  says of a reboot. The first assumes that all kernels are named numerically or
  none is (`Numeric`), without which a reboot may be missed;
  the second, like `CompleteChecksAreExact`, that all are, without which a check
  may raise a false alarm.

`ContainerInventoryProofs`, for any containers, any calls and any number of changes
by others:

- `InventoryTyping`: what a task remembers of a container keeps its type across the
  iterations that other tasks disturb.
- `FlagsAreOwned`: from `Placed` (which awaits each kind of task can be at),
  `BornOnce` (a status object is known by the task that created it, and a task
  creates one of a name at most), `ScanOwned` and `FlagsOf`. `FlagsOwned` alone is
  not inductive: flags are reset on the object a task holds, and a new object of
  the same container must not be taken for one that a task held before.
- `EntitiesDoFollow`: from `Ended`, how the calls that are over have come out.
- `KnownDoStayKnown`: an action property, from `SeenGone`: what a rescan has listed
  lacks only containers that were off the server at some time, unless its
  `docker ps` or `docker inspect` failed.

`ImageUpdatesProofs`, for any set of digests that are numbers, and any tasks:

- `AllClearCanBeReliedOn`, `OffersAreReal`, `InstallsSettle` and `ImageTyping`, all from
  `ImageInv`: `Docker` (which digests docker can store for what it has pulled),
  `RunsImage` (the container runs the image unless an install stands between),
  `Calm` (what a rescan has found, what is stored before it asks and what its check
  holds agree with what is published and pulled, as long as nothing has overtaken
  it) and `Trust` (a status that is trusted is the result of
  comparing these). That the first of several digests is well defined comes from
  the well-foundedness of the natural numbers.

`EntryConfigProofs`, for any number of entries, servers, keys, forms and
connections; one invariant, `EntryInv`, carries all of it:

- `Flowing` and `Demanding` say what an open form is about and what its test
  demands, `Linked` that a connection which would pin a key goes to the address
  its entry still has, as long as it has no key, `FirstRefresh` that a setup has
  one first refresh, `SetUp` how options, interval and reloads go together, and
  `Reserved` that no other entry takes a server while a form is validated.
- `KeysBelong` (from `Linked`), `ChangesConfirmed` (from `Demanding`),
  `ServersUnique` (from `Reserved`), `OptionsTake` (from `SetUp`), and `EntryTyping`.

With these, every invariant and every action property that a passing run checks is
a theorem. Only model-checked are the liveness properties `WatchEnds`, `ScanEnds`,
`PassEnds` and `UpgradeEnds`, and the progress of `TakesTurns`, whose safety part is
`GateImplemented`: liveness under fairness is beyond this prover.

## What is not modelled

- How `ssh_client.py` parses the output of commands, and `docker_registry.py` the
  reference of an image: text, of which the models keep what it says.
- Credentials, quoting and the password for sudo; the fields of the forms.
- Exceptions other than `ServerUpdaterError`, except the two that the code itself
  causes: the `RuntimeError` of a disturbed iteration and the `KeyError` of an
  unloaded entry. How asyncssh reports a broken connection is outside the source.
- The clean-up of entities of earlier releases (`__init__.py`), which runs once
  between two awaits of a setup.
- `reporting.py`, sensors, binary sensors and translations: events, texts and views
  of the coordinators' data, without state. So are the counts in a result of the
  maintenance action.

## Plan

Done: `ServerCoordinator` with `OperationGate`, `ContainerInventory`,
`Maintenance`, `PackageUpgrade` with `KernelReleases`, `EntryConfig`,
`ImageUpdates`, and the proofs above.

Next, to prove: what the liveness properties rest on, as far as it is safety: that
no task of `ServerCoordinator`, `Maintenance` or `PackageUpgrade` can be at a place
where neither a step of its own nor a time limit can take it on.
