------------------------- MODULE ContainerInventory -------------------------
(***************************************************************************)
(* The container coordinator of one server (docker_coordinator.py) and the *)
(* entities that follow its inventory (entity.py): rescans, Compose        *)
(* installs, which end with a rescan, starts and stops of a container, and *)
(* the periodic poll.  Nothing but the flags of the status objects and of  *)
(* the scan keeps these tasks apart: each reads and changes the one        *)
(* inventory between its awaits.                                           *)
(*                                                                         *)
(* A status object is known by its container's name and the task that      *)
(* created it, so that a task can be seen to work on one that is no longer *)
(* in the inventory.  Every container carries Compose labels: each turn of *)
(* the loop over the discovered containers then has an await.              *)
(***************************************************************************)
EXTENDS Integers, FiniteSets

CONSTANTS
    Names,        \* container names
    MeantToRun,   \* the ones whose restart policy means them to run
    Installable,  \* the ones whose Compose files are where their labels say
    Rescans, Installs, Starts, Stops,   \* calls of operations, each of which runs
                                        \* once; Starts has the restarts as well
    Poll,         \* the task of the periodic poll
    Setup,        \* the scan at setup, which created the first status objects
    MaxChanges    \* bound on the changes others make to the containers

Calls == Rescans \cup Installs \cup Starts \cup Stops
Actions == Starts \cup Stops
Tasks == Calls \cup {Poll}

ASSUME NameAssumption == IsFiniteSet(Names) /\ MeantToRun \cup Installable \subseteq Names
ASSUME CallAssumption ==
    /\ Rescans \cap (Installs \cup Actions) = {}
    /\ Installs \cap Actions = {} /\ Starts \cap Stops = {}
    /\ Poll \notin Calls /\ Setup \notin Tasks \cup Names
ASSUME ChangeAssumption == MaxChanges \in Nat

VARIABLES
    server,     \* the state docker ps shows for each container
    changes,    \* how often others have changed that
    inventory,  \* coordinator.containers
    scanning,   \* coordinator.scanning
    lastOk,     \* coordinator.last_update_success
    entities,   \* the names with buttons and switches, and with an update entity
    pc,         \* where each task is
    mem,        \* what each task holds on to across its awaits
    outcome,    \* history: how each call ended
    gone        \* history: containers that were not on the server at some time

shared == <<inventory, scanning, lastOk, entities>>
history == <<outcome, gone>>
vars == <<server, changes, shared, pc, mem, history>>

States == {"running", "exited", "removed"}
Status == [born : Calls \cup {Setup}, stateKnown : BOOLEAN,
           checkable : BOOLEAN, tracked : BOOLEAN, installing : BOOLEAN,
           operation : {"none", "start", "stop"}]

Known == DOMAIN inventory
Objects == {<<n, inventory[n].born>> : n \in Known}

\* The memory of a task: the status object it works on or checks (Setup is no
\* name), what it listed, the containers it has still to add, the status
\* objects its update check came by, and how many there were when it began.
Blank == [n \in Names |-> "removed"]
Fresh == [name |-> Setup, born |-> Setup, view |-> Blank,
          todo |-> {}, seen |-> {}, size |-> 0]

(***************************************************************************)
(* Helpers of the actions.                                                 *)
(***************************************************************************)
Goto(t, label) == pc' = [pc EXCEPT ![t] = label]

Put(inv, n, status) ==
    [m \in DOMAIN inv \cup {n} |-> IF m = n THEN status ELSE inv[m]]

\* The inventory after field updates of the status object that task t holds,
\* which do not show if it is no longer there.
Holds(t, n) == n \in Known /\ inventory[n].born = mem[t].born
OnHeld(t, status) ==
    IF Holds(t, mem[t].name) THEN Put(inventory, mem[t].name, status) ELSE inventory
Mine(t) == inventory[mem[t].name]

\* Mutant of NewStatus: no operation is written as an empty string.
NewStatusUnset(t) ==
    [born |-> t, stateKnown |-> TRUE, checkable |-> FALSE, tracked |-> FALSE,
     installing |-> FALSE, operation |-> ""]

NewStatus(t) ==
    [born |-> t, stateKnown |-> TRUE, checkable |-> FALSE, tracked |-> FALSE,
     installing |-> FALSE, operation |-> "none"]

\* The containers a rescan takes in from what it listed: the running ones, the
\* ones meant to run, and those already known.  Mutant: a stopped container
\* is not taken in because it is known.
ForgetStopped(listing) ==
    {n \in Names : \/ listing[n] = "running"
                   \/ listing[n] # "removed" /\ n \in MeantToRun}
Discovered(listing) ==
    {n \in Names : \/ listing[n] = "running"
                   \/ listing[n] # "removed" /\ n \in MeantToRun \cup Known}

\* The end of a call, with its flags.
End(t, result) ==
    /\ Goto(t, "done")
    /\ outcome' = [outcome EXCEPT ![t] = result]
    /\ mem' = [mem EXCEPT ![t] = Fresh]

\* The finally clause of the rescan.  Mutant: it is reset on success only.
KeepScan == UNCHANGED scanning
ResetScan == scanning' = FALSE

\* What a rescan leaves behind: a container that could be checked stays
\* tracked, and the platforms follow the inventory.
Tracked(inv) == [n \in DOMAIN inv |->
                    [inv[n] EXCEPT !.tracked = @ \/ inv[n].checkable]]
Sync(inv) ==
    entities' = [control |-> DOMAIN inv, update |-> {n \in DOMAIN inv : inv[n].tracked}]

\* Mutant of Publish: the platforms are told before the containers are tracked.
PublishEarly(t, inv) ==
    /\ inventory' = Tracked(inv)
    /\ Sync(inv)
    /\ lastOk' = TRUE
    /\ scanning' = FALSE
    /\ End(t, "ok")

Publish(t, inv) ==
    /\ inventory' = Tracked(inv)
    /\ Sync(Tracked(inv))
    /\ lastOk' = TRUE
    /\ scanning' = FALSE
    /\ End(t, "ok")

(***************************************************************************)
(* The calls of operations.                                                *)
(***************************************************************************)

\* The button is available while no scan runs.
BeginRescan(t) ==
    /\ pc[t] = "new" /\ t \in Rescans
    /\ lastOk /\ ~scanning
    /\ scanning' = TRUE
    /\ Goto(t, "listing")
    /\ UNCHANGED <<server, changes, inventory, lastOk, entities, mem, history>>

\* From the update entity, or from the maintenance action, which does not look
\* whether the container is already being installed.
BeginInstall(t) ==
    /\ pc[t] = "new" /\ t \in Installs
    /\ \E n \in Known \cap Installable :
         /\ inventory' = Put(inventory, n, [inventory[n] EXCEPT !.installing = TRUE])
         /\ mem' = [mem EXCEPT ![t].name = n, ![t].born = inventory[n].born]
    /\ Goto(t, "installing")
    /\ UNCHANGED <<server, changes, scanning, lastOk, entities, history>>

\* docker compose up removes the container before it creates it anew.
Recreate(t) ==
    /\ pc[t] = "installing"
    /\ server[mem[t].name] # "removed"
    /\ server' = [server EXCEPT ![mem[t].name] = "removed"]
    /\ gone' = gone \cup {mem[t].name}
    /\ UNCHANGED <<changes, shared, pc, mem, outcome>>

\* docker compose pull and up have recreated the container: the rescan begins
\* before anything else can run.
EndInstall(t) ==
    /\ pc[t] = "installing"
    /\ server' = [server EXCEPT ![mem[t].name] = "running"]
    /\ inventory' = OnHeld(t, [Mine(t) EXCEPT !.installing = FALSE])
    /\ scanning' = TRUE
    /\ Goto(t, "listing")
    /\ mem' = [mem EXCEPT ![t] = Fresh]
    /\ UNCHANGED <<changes, lastOk, entities, history>>

FailInstall(t) ==
    /\ pc[t] = "installing"
    /\ inventory' = OnHeld(t, [Mine(t) EXCEPT !.installing = FALSE])
    /\ End(t, "error")
    /\ UNCHANGED <<server, changes, scanning, lastOk, entities, gone>>

\* What the entities of a container ask for before they act on it; the button
\* for a restart does without the state.
Usable(t, status) ==
    /\ status.operation = "none"
    /\ ~status.installing
    /\ ~scanning
    /\ status.stateKnown \/ t \in Starts

BeginAction(t) ==
    /\ pc[t] = "new" /\ t \in Actions
    /\ \E n \in Known \cap entities.control :
         /\ Usable(t, inventory[n])
         /\ inventory' = Put(inventory, n, [inventory[n] EXCEPT
                            !.operation = IF t \in Starts THEN "start" ELSE "stop"])
         /\ mem' = [mem EXCEPT ![t].name = n, ![t].born = inventory[n].born]
    /\ Goto(t, "acting")
    /\ UNCHANGED <<server, changes, scanning, lastOk, entities, history>>

\* docker start or docker stop of a container that is there.
Act(t) ==
    /\ pc[t] = "acting"
    /\ server[mem[t].name] # "removed"
    /\ server' = [server EXCEPT ![mem[t].name] =
                     IF t \in Starts THEN "running" ELSE "exited"]
    /\ Goto(t, "reading")
    /\ UNCHANGED <<changes, shared, mem, history>>

\* Mutant of EndOperation: the flag is reset on success only.
LeaveOperation(t) == inventory' = inventory
EndOperation(t) == inventory' = OnHeld(t, [Mine(t) EXCEPT !.operation = "none"])

\* A command that fails or times out, its effect possibly done, or states that
\* could not be read: the action is reported as failed.
FailAction(t) ==
    /\ t \in Actions
    /\ pc[t] \in {"acting", "reading"}
    /\ EndOperation(t)
    /\ End(t, "error")
    /\ UNCHANGED <<server, changes, scanning, lastOk, entities, gone>>

EndAction(t) ==
    /\ t \in Actions
    /\ pc[t] = "closing"
    /\ inventory' = OnHeld(t, [Mine(t) EXCEPT !.operation = "none"])
    /\ End(t, "ok")
    /\ UNCHANGED <<server, changes, scanning, lastOk, entities, gone>>

(***************************************************************************)
(* The rescan: list, drop what is gone, add one by one, read the states,   *)
(* and, after the connection is closed, check the images.                  *)
(***************************************************************************)

\* docker ps names the containers and docker inspect describes them.  A failing
\* docker ps is taken for a server without containers; so is a failing docker
\* inspect, whose exit status is not looked at.
ListContainers(t) ==
    /\ pc[t] = "listing"
    /\ \/ /\ Goto(t, "listed")
          /\ mem' = [mem EXCEPT ![t].view = server]
       \/ /\ Goto(t, "unlisted")     \* one of the two failed
          /\ UNCHANGED mem
    /\ UNCHANGED <<server, changes, shared, history>>

ApplyList(t) ==
    /\ pc[t] \in {"listed", "unlisted"}
    /\ LET found == IF pc[t] = "listed" THEN Discovered(mem[t].view) ELSE {} IN
         /\ inventory' = [n \in Known \cap found |-> inventory[n]]
         /\ mem' = [mem EXCEPT ![t] = [Fresh EXCEPT !.todo = found]]
         /\ Goto(t, IF found = {} THEN "closing" ELSE "adding")
    /\ UNCHANGED <<server, changes, scanning, lastOk, entities, history>>

\* The test for a container's Compose files is back.
AddContainer(t) ==
    /\ pc[t] = "adding"
    /\ \E n \in mem[t].todo :
         /\ inventory' = Put(inventory, n,
              IF n \in Known THEN [inventory[n] EXCEPT !.stateKnown = TRUE]
              ELSE NewStatus(t))
         /\ mem' = [mem EXCEPT ![t].todo = @ \ {n}]
         /\ Goto(t, IF mem[t].todo = {n} THEN "reading" ELSE "adding")
    /\ UNCHANGED <<server, changes, scanning, lastOk, entities, history>>

\* docker ps answers: every status object has a state.
ReadStates(t) ==
    /\ pc[t] = "reading"
    /\ inventory' = [n \in Known |-> [inventory[n] EXCEPT !.stateKnown = TRUE]]
    /\ Goto(t, "closing")
    /\ UNCHANGED <<server, changes, scanning, lastOk, entities, mem, history>>

FailScan(t) ==
    /\ t \in Rescans \cup Installs
    /\ pc[t] \in {"listing", "adding", "reading"}
    /\ ResetScan
    /\ End(t, "error")
    /\ UNCHANGED <<server, changes, inventory, lastOk, entities, gone>>

EndEmptyScan(t) ==
    /\ t \in Rescans \cup Installs
    /\ pc[t] = "closing"
    /\ Known = {}
    /\ Publish(t, inventory)
    /\ UNCHANGED <<server, changes, gone>>

(***************************************************************************)
(* The check of every image against its registry, which iterates over the  *)
(* inventory with an await at each status object.                          *)
(***************************************************************************)
CheckFirst(t) ==
    \E n \in Known :
       mem' = [mem EXCEPT ![t] = [Fresh EXCEPT !.name = n, !.born = inventory[n].born,
                   !.seen = {<<n, inventory[n].born>>}, !.size = Cardinality(Known)]]

StartChecks(t) ==
    /\ t \in Rescans \cup Installs
    /\ pc[t] = "closing"
    /\ CheckFirst(t)
    /\ Goto(t, "checking")
    /\ UNCHANGED <<server, changes, shared, history>>

\* The answer of the registry, or none, for the current status object.
Checked(t, ok) == OnHeld(t, [Mine(t) EXCEPT !.checkable = ok])
Ahead(t) == Objects \ mem[t].seen

\* The dict has changed during the iteration: RuntimeError.
Disturbed(t) ==
    \/ Cardinality(Known) # mem[t].size
    \/ Cardinality(mem[t].seen) = mem[t].size /\ Ahead(t) # {}

CheckNext(t) ==
    /\ pc[t] = "checking"
    /\ ~Disturbed(t)
    /\ \E next \in Ahead(t), ok \in BOOLEAN :
         /\ inventory' = Checked(t, ok)
         /\ mem' = [mem EXCEPT ![t].name = next[1], ![t].born = next[2],
                               ![t].seen = @ \cup {next}]
    /\ UNCHANGED <<server, changes, scanning, lastOk, entities, pc, history>>

EndChecks(t) ==
    /\ t \in Calls
    /\ pc[t] = "checking"
    /\ ~Disturbed(t) /\ Ahead(t) = {}
    /\ \E ok \in BOOLEAN : Publish(t, Checked(t, ok))
    /\ UNCHANGED <<server, changes, gone>>

Break(t) ==
    /\ t \in Calls
    /\ pc[t] = "checking"
    /\ Disturbed(t)
    /\ \E ok \in BOOLEAN : inventory' = Checked(t, ok)
    /\ ResetScan
    /\ End(t, "error")
    /\ UNCHANGED <<server, changes, lastOk, entities, gone>>

(***************************************************************************)
(* The poll: it checks the images and then reads the states, and does      *)
(* without these if the server cannot be reached.                          *)
(***************************************************************************)
StartPoll ==
    /\ pc[Poll] = "idle"
    /\ \/ /\ Known = {}
          /\ lastOk' = TRUE
          /\ UNCHANGED <<pc, mem>>
       \/ /\ CheckFirst(Poll)
          /\ Goto(Poll, "checking")
          /\ UNCHANGED lastOk
    /\ UNCHANGED <<server, changes, inventory, scanning, entities, history>>

PollChecked ==
    /\ pc[Poll] = "checking"
    /\ \E ok \in BOOLEAN : inventory' = Checked(Poll, ok)
    /\ mem' = [mem EXCEPT ![Poll] = Fresh]
    /\ \/ /\ ~Disturbed(Poll) /\ Ahead(Poll) = {}
          /\ Goto(Poll, "reading")
          /\ UNCHANGED lastOk
       \/ /\ Disturbed(Poll)
          /\ Goto(Poll, "idle")
          /\ lastOk' = FALSE
    /\ UNCHANGED <<server, changes, scanning, entities, history>>

EndPoll ==
    /\ \/ /\ pc[Poll] = "closing"
          /\ UNCHANGED inventory
       \/ /\ pc[Poll] = "reading"     \* the server cannot be reached
          /\ inventory' = [n \in Known |-> [inventory[n] EXCEPT !.stateKnown = FALSE]]
    /\ Goto(Poll, "idle")
    /\ lastOk' = TRUE
    /\ UNCHANGED <<server, changes, scanning, entities, mem, history>>

\* Others create, start, stop and remove containers.
ServerChanges ==
    /\ changes < MaxChanges
    /\ changes' = changes + 1
    /\ \E n \in Names, s \in States :
         /\ s # server[n]
         /\ server' = [server EXCEPT ![n] = s]
         /\ gone' = IF s = "removed" THEN gone \cup {n} ELSE gone
    /\ UNCHANGED <<shared, pc, mem, outcome>>

(***************************************************************************)
(* The specification.  The scan at setup has succeeded.                    *)
(***************************************************************************)
Init ==
    /\ server \in [Names -> States]
    /\ \E track \in SUBSET Names :
         /\ inventory = [n \in {m \in Names : \/ server[m] = "running"
                                              \/ server[m] # "removed" /\ m \in MeantToRun} |->
                [NewStatus(Setup) EXCEPT
                     !.checkable = n \in track, !.tracked = n \in track]]
         /\ entities = [control |-> Known, update |-> Known \cap track]
    /\ changes = 0
    /\ scanning = FALSE
    /\ lastOk = TRUE
    /\ pc = [t \in Tasks |-> IF t = Poll THEN "idle" ELSE "new"]
    /\ mem = [t \in Tasks |-> Fresh]
    /\ outcome = [t \in Calls |-> "none"]
    /\ gone = {n \in Names : server[n] = "removed"}

Begin(t) == BeginRescan(t) \/ BeginInstall(t) \/ BeginAction(t)

Step(t) ==
    \/ Recreate(t) \/ EndInstall(t) \/ FailInstall(t)
    \/ Act(t) \/ FailAction(t) \/ EndAction(t)
    \/ ListContainers(t) \/ ApplyList(t) \/ AddContainer(t)
    \/ ReadStates(t) \/ FailScan(t) \/ EndEmptyScan(t)
    \/ StartChecks(t) \/ CheckNext(t) \/ EndChecks(t) \/ Break(t)

PollStep ==
    StartPoll \/ CheckNext(Poll) \/ PollChecked
    \/ ReadStates(Poll) \/ EndPoll

Next ==
    \/ \E t \in Calls : Begin(t) \/ Step(t)
    \/ PollStep
    \/ ServerChanges

Spec == Init /\ [][Next]_vars

\* Every SSH command and every query of a registry has a timeout: as long as
\* calls are under way, one of them goes on.
FairSpec == Spec /\ WF_vars(\E t \in Calls : Step(t))

(***************************************************************************)
(* Properties.                                                             *)
(***************************************************************************)
Scanning == {t \in Rescans \cup Installs :
                pc[t] \in {"listing", "listed", "unlisted", "adding", "reading",
                           "closing", "checking"}}
OnObject(t, n) == mem[t].name = n /\ mem[t].born = inventory[n].born

\* The variables keep their types.
TypeOK ==
    /\ server \in [Names -> States] /\ changes \in 0 .. MaxChanges
    /\ Known \subseteq Names /\ \A n \in Known : inventory[n] \in Status
    /\ scanning \in BOOLEAN /\ lastOk \in BOOLEAN
    /\ entities \in [control : SUBSET Names, update : SUBSET Names]
    /\ pc \in [Tasks -> {"new", "idle", "installing", "acting", "listing", "listed",
                         "unlisted", "adding", "reading", "closing",
                         "checking", "done"}]
    /\ mem \in [Tasks -> [name : Names \cup {Setup}, born : Calls \cup {Setup},
                          view : [Names -> States], todo : SUBSET Names,
                          seen : SUBSET (Names \X (Calls \cup {Setup})), size : Nat]]
    /\ outcome \in [Calls -> {"none", "ok", "error"}]
    /\ gone \subseteq Names

\* No flag outlives its task: a container in the inventory is shown as
\* starting or stopping exactly while one such command works on that status
\* object, and as installing, or the server as scanning, only while a task
\* does; else its entities would be unavailable for good.
FlagsOwned ==
    /\ scanning => Scanning # {}
    /\ \A n \in Known :
         /\ inventory[n].installing =>
               \E t \in Installs : pc[t] = "installing" /\ OnObject(t, n)
         /\ inventory[n].operation # "none" <=>
               \E t \in Actions : pc[t] \notin {"new", "done"} /\ OnObject(t, n)
         /\ \A t, u \in Actions :
               /\ pc[t] \notin {"new", "done"} /\ OnObject(t, n)
               /\ pc[u] \notin {"new", "done"} /\ OnObject(u, n)
               => t = u

\* However scans overlap, once the last of them has ended and none has failed,
\* the entities are those of the inventory.
EntitiesFollow ==
    Scanning = {} /\ (\A t \in Calls : outcome[t] = "ok" \/ pc[t] = "new" \/ t \in Actions) =>
        /\ entities.control = Known
        /\ entities.update = {n \in Known : inventory[n].tracked}

\* A container that is known and has been on the server all along is not
\* forgotten, running or stopped, unless it is by a rescan whose docker ps
\* or docker inspect failed.
KnownStaysKnown ==
    [][\A n \in Known : n \notin DOMAIN inventory' =>
           n \in gone \/ \E t \in Calls : pc[t] = "unlisted" /\ pc'[t] # "unlisted"]_vars

\* A scan ends, and its button comes back.
ScanEnds == scanning ~> ~scanning

\* README: the entities of a container are removed when it has disappeared at
\* a rescan.  The code also removes them when docker ps or docker inspect fails.
RemovedOnlyIfGone == [][entities.control \ entities'.control \subseteq gone]_vars
=============================================================================
