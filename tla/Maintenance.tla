----------------------------- MODULE Maintenance -----------------------------
(***************************************************************************)
(* A call of run_maintenance (services.py): the selected servers one after *)
(* another, each with package updates, container updates, image cleanup,   *)
(* and then a reboot or a restart of services.  Meanwhile users, polls and *)
(* other calls use the same coordinators, and entries are unloaded and     *)
(* loaded again.                                                           *)
(*                                                                         *)
(* Of the coordinators (ServerCoordinator, ContainerInventory) there is    *)
(* here what the pass deals with at the server it is at: whether others    *)
(* hold the busy gate, the data of the last refresh, and how a container   *)
(* install ends.  What a server needs may change at any time, so that a    *)
(* reading may show anything.                                              *)
(***************************************************************************)
EXTENDS Integers

CONSTANTS
    Servers,     \* the selected entries
    NoServer,    \* the pass has not turned to one
    Modes,       \* the values of the option reboot that it is called with
    MaxPending   \* bound on the containers to update on one server

ASSUME ServerAssumption == NoServer \notin Servers
ASSUME ModeAssumption == Modes \subseteq {"never", "if_required", "always"}
ASSUME PendingAssumption == MaxPending \in Nat

VARIABLES
    loaded,    \* the entries in hass.data
    options,   \* the options of the call
    todo,      \* the servers the pass has not turned to
    current,   \* the server it is at
    orphan,    \* the entry of that server has been unloaded since
    busy,      \* others are inside the busy gate of its coordinator
    data,      \* data of that coordinator
    lastOk,    \* last_update_success of it
    pc,        \* where the pass is
    pending,   \* containers it has still to update there
    results,   \* the results so far
    fresh      \* history: data were read after the pass's last update there

entry == <<loaded, orphan>>
coordinator == <<data, lastOk>>
place == <<options, todo, current>>
vars == <<entry, busy, coordinator, place, pc, pending, results, fresh>>

Data == [updates : BOOLEAN, reboot : BOOLEAN, services : BOOLEAN]
Options == [reboot : Modes, containers : BOOLEAN, prune : BOOLEAN, services : BOOLEAN]
\* Of a server's result: its counts of packages and containers are left out.
Result == [services : BOOLEAN, required : BOOLEAN, rebooted : BOOLEAN, error : BOOLEAN]
NewResult == [services |-> FALSE, required |-> FALSE, rebooted |-> FALSE, error |-> FALSE]

\* Where the pass is inside the busy gate of the server.
Operations == {"updating", "restarting", "rebooting"}
\* Where it has ended: with results, with the KeyError of an entry that is no
\* longer loaded, or with the RuntimeError of an interrupted inventory check.
Ends == {"over", "lost", "broken"}
Labels == {"next", "refresh", "rereading", "installing", "pruning", "deciding",
           "restarted"} \cup Operations \cup Ends
AtServer == pc \notin {"next"} \cup Ends

(***************************************************************************)
(* Helpers of the actions.                                                 *)
(***************************************************************************)
Here == results[current]
Note(result) == results' = [results EXCEPT ![current] = result]

\* Mutants of Failed: an error ends the pass, or makes it try once more.
FailedRetry(result) == pc' = "refresh" /\ Note(NewResult)
FailedForAll(result) == pc' = "over" /\ Note([result EXCEPT !.error = TRUE])
Failed(result) == pc' = "next" /\ Note([result EXCEPT !.error = TRUE])

\* A refresh.  One that begins after the coordinator was shut down does nothing;
\* one that was under way then sets its data all the same.
\* Mutant: there is none, the last data will do.
TrustLast == UNCHANGED <<coordinator, fresh>>
Refresh ==
    \/ /\ orphan
       /\ UNCHANGED <<coordinator, fresh>>
    \/ /\ lastOk' \in BOOLEAN
       /\ data' \in IF lastOk' THEN Data ELSE {data}
       /\ fresh' = (fresh \/ lastOk')

\* Enter the busy gate, or be refused.
Enter(operation, result) ==
    IF busy THEN Failed(result) ELSE pc' = operation /\ Note(result)

\* The cleanup is left out if it is not asked for or the server has no Docker.
AfterContainers == {"deciding"} \cup (IF options.prune THEN {"pruning"} ELSE {})

\* The containers to update are listed once, before the first of them.
StartContainers ==
    /\ pending' \in IF options.containers THEN 0 .. MaxPending ELSE {0}
    /\ pc' \in IF pending' > 0 THEN {"installing"} ELSE AfterContainers

\* Mutant of RebootWanted: the mode "never" is forgotten.
RebootUnlessNone(d) == options.reboot = "always" \/ d.reboot
RebootWanted(d) ==
    \/ options.reboot = "always"
    \/ options.reboot = "if_required" /\ d.reboot

(***************************************************************************)
(* The pass.                                                               *)
(***************************************************************************)

\* The entry is looked up when its turn comes, and its coordinators with it.
Turn ==
    /\ pc = "next"
    /\ \E s \in todo :
         /\ todo' = todo \ {s}
         /\ current' = s
         /\ IF s \in loaded
            THEN /\ pc' = "refresh"
                 /\ results' = [t \in DOMAIN results \cup {s} |->
                                   IF t = s THEN NewResult ELSE results[t]]
            ELSE pc' = "lost" /\ UNCHANGED results
    /\ orphan' = FALSE
    /\ busy' \in BOOLEAN /\ data' \in Data /\ lastOk' \in BOOLEAN
    /\ fresh' = FALSE
    /\ UNCHANGED <<loaded, options, pending>>

FirstRefresh ==
    /\ pc = "refresh"
    /\ Refresh
    /\ \/ ~lastOk' /\ Failed(Here) /\ UNCHANGED pending
       \/ lastOk' /\ data'.updates /\ Enter("updating", Here) /\ UNCHANGED pending
       \/ lastOk' /\ ~data'.updates /\ StartContainers /\ UNCHANGED results
    /\ UNCHANGED <<entry, busy, place>>

\* apt is done, the gate is left, and a refresh is requested.
EndUpdate ==
    /\ pc = "updating"
    /\ pc' = "rereading"
    /\ fresh' = FALSE
    /\ UNCHANGED <<entry, busy, coordinator, place, pending, results>>

\* The request may be put off, and a refresh that fails is no error yet.
EndRequest ==
    /\ pc = "rereading"
    /\ Refresh \/ UNCHANGED <<coordinator, fresh>>
    /\ StartContainers
    /\ UNCHANGED <<entry, busy, place, results>>

\* Mutant of Install: it goes on after the last one.
InstallPastEnd ==
    /\ pc = "installing"
    /\ pending' = pending - 1
    /\ pc' \in IF pending' >= 0 THEN {"installing"} ELSE AfterContainers
    /\ UNCHANGED <<entry, busy, coordinator, place, results, fresh>>

Install ==
    /\ pc = "installing"
    /\ pending' = pending - 1
    /\ pc' \in IF pending' > 0 THEN {"installing"} ELSE AfterContainers
    /\ UNCHANGED <<entry, busy, coordinator, place, results, fresh>>

\* An update that fails or can no longer be done, or a rescan that fails
\* after it.
FailInstall ==
    /\ pc = "installing"
    /\ Failed(Here)
    /\ pending' = 0
    /\ UNCHANGED <<entry, busy, coordinator, place, fresh>>

\* The rescan after an install is disturbed by another task.
BreakInstall ==
    /\ pc = "installing"
    /\ pc' = "broken"
    /\ UNCHANGED <<entry, busy, coordinator, place, pending, results, fresh>>

Prune ==
    /\ pc = "pruning"
    /\ \/ pc' = "deciding" /\ UNCHANGED results
       \/ Failed(Here)
    /\ UNCHANGED <<entry, busy, coordinator, place, pending, fresh>>

\* Mutant of Decide: the second refresh is left out.
DecideAtOnce ==
    /\ pc = "deciding"
    /\ TrustLast
    /\ LET result == [Here EXCEPT !.required = data.reboot] IN
         IF RebootWanted(data) THEN Enter("rebooting", result)
         ELSE IF options.services /\ data.services THEN Enter("restarting", result)
         ELSE pc' = "next" /\ Note(result)
    /\ UNCHANGED <<entry, busy, place, pending>>

\* The second refresh, and what the options make of it.
Decide ==
    /\ pc = "deciding"
    /\ Refresh
    /\ LET result == [Here EXCEPT !.required = data'.reboot] IN
         IF ~lastOk' THEN Failed(Here)
         ELSE IF RebootWanted(data') THEN Enter("rebooting", result)
         ELSE IF options.services /\ data'.services THEN Enter("restarting", result)
         ELSE pc' = "next" /\ Note(result)
    /\ UNCHANGED <<entry, busy, place, pending>>

\* The services have been restarted, and a refresh begins ...
EndRestart ==
    /\ pc = "restarting"
    /\ pc' = "restarted"
    /\ UNCHANGED <<entry, busy, coordinator, place, pending, results, fresh>>

\* ... whose failure is no error.
EndLastRefresh ==
    /\ pc = "restarted"
    /\ Refresh
    /\ pc' = "next"
    /\ Note([Here EXCEPT !.services = TRUE])
    /\ UNCHANGED <<entry, busy, place, pending>>

\* The reboot command has been sent.
EndReboot ==
    /\ pc = "rebooting"
    /\ pc' = "next"
    /\ Note([Here EXCEPT !.rebooted = TRUE])
    /\ UNCHANGED <<entry, busy, coordinator, place, pending, fresh>>

\* An operation fails; what it did of its work stays done.
FailOperation ==
    /\ pc \in Operations
    /\ Failed(Here)
    /\ UNCHANGED <<entry, busy, coordinator, place, pending, fresh>>

Finish ==
    /\ pc = "next"
    /\ todo = {}
    /\ pc' = "over"
    /\ UNCHANGED <<entry, busy, coordinator, place, pending, results, fresh>>

(***************************************************************************)
(* The others.                                                             *)
(***************************************************************************)

\* An operation of others on the same coordinator begins or ends.  (What they
\* did before the pass came to the server is in Turn.)  After an unload it is
\* another call that holds this coordinator as well.
OthersOperate ==
    /\ AtServer
    /\ IF busy THEN busy' = FALSE
       ELSE pc \notin Operations /\ busy' = TRUE
    /\ UNCHANGED <<entry, coordinator, place, pc, pending, results, fresh>>

\* A poll, or the refresh of another operation, ends.  It may have read before
\* the pass's last update, and have begun before an unload.
OthersRefresh ==
    /\ AtServer
    /\ lastOk' \in BOOLEAN
    /\ data' \in IF lastOk' THEN Data ELSE {data}
    /\ UNCHANGED <<entry, busy, place, pc, pending, results, fresh>>

\* Entries come and go only while the pass waits for something: it looks up the
\* first server in the step in which it is called, and each other one in the
\* step in which it is through with the one before.
Unload(s) ==
    /\ s \in loaded /\ pc # "next"
    /\ loaded' = loaded \ {s}
    /\ orphan' = (orphan \/ s = current)
    /\ UNCHANGED <<busy, coordinator, place, pc, pending, results, fresh>>

Load(s) ==
    /\ s \notin loaded /\ pc # "next"
    /\ loaded' = loaded \cup {s}
    /\ UNCHANGED <<orphan, busy, coordinator, place, pc, pending, results, fresh>>

(***************************************************************************)
(* The specification: the action starts with entries that are loaded.      *)
(***************************************************************************)
Init ==
    /\ loaded = Servers
    /\ options \in Options
    /\ todo = Servers /\ current = NoServer /\ orphan = FALSE
    /\ busy = FALSE /\ lastOk = TRUE
    /\ data = [updates |-> FALSE, reboot |-> FALSE, services |-> FALSE]
    /\ pc = "next"
    /\ pending = 0
    /\ results = [s \in {} |-> NewResult]
    /\ fresh = FALSE

Pass ==
    \/ Turn \/ FirstRefresh \/ EndUpdate \/ EndRequest
    \/ Install \/ FailInstall \/ BreakInstall \/ Prune
    \/ Decide \/ EndRestart \/ EndLastRefresh \/ EndReboot
    \/ FailOperation \/ Finish

Others ==
    \/ OthersOperate \/ OthersRefresh
    \/ \E s \in Servers : Unload(s) \/ Load(s)

Next == Pass \/ Others

\* Everything the pass waits for has a timeout.
Spec == Init /\ [][Next]_vars /\ WF_vars(Pass)

(***************************************************************************)
(* Properties.                                                             *)
(***************************************************************************)

\* The variables keep their types.
TypeOK ==
    /\ loaded \subseteq Servers /\ options \in Options
    /\ todo \subseteq Servers /\ current \in Servers \cup {NoServer}
    /\ orphan \in BOOLEAN /\ busy \in BOOLEAN
    /\ data \in Data /\ lastOk \in BOOLEAN
    /\ pc \in Labels
    /\ pending \in 0 .. MaxPending
    /\ DOMAIN results \subseteq Servers /\ \A s \in DOMAIN results : results[s] \in Result
    /\ fresh \in BOOLEAN

\* README: an error on one server does not hold up the others.  Every server
\* has its result when the pass returns its results, whatever failed.
AllServed == pc = "over" => DOMAIN results = Servers

\* What follows the updates is decided on data that were read after them, not
\* on those of a poll hours ago, unless the entry is unloaded meanwhile.
DecidedOnFreshData ==
    [][pc' \in {"restarting", "rebooting"} /\ pc' # pc => fresh' \/ orphan]_vars

\* Whatever goes on meanwhile, each server the pass has left without an error
\* has been rebooted exactly if the option says so of what it required, and
\* services were restarted only where no reboot was.
RebootsAsAsked ==
    \A s \in DOMAIN results \ (IF pc \in {"next", "over"} THEN {} ELSE {current}) :
       LET r == results[s] IN
       /\ ~r.error => (r.rebooted <=> \/ options.reboot = "always"
                                      \/ options.reboot = "if_required" /\ r.required)
       /\ r.rebooted => ~r.error /\ options.reboot # "never"
       /\ ~(r.rebooted /\ r.services)

\* A pass ends, whoever holds a gate.
PassEnds == <>(pc \in Ends)

\* services.py: a failure on one server doesn't stop the others: a
\* call that has ended has returned the results of all.  If the entry of one is
\* unloaded while an earlier one is maintained, it ends with an error instead.
OthersGoOn == pc \in Ends => pc = "over" /\ DOMAIN results = Servers
=============================================================================
